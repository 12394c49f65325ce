---------------------------- MODULE MCDispatcher ----------------------------
EXTENDS Dispatcher

\* Three steps.  Their ids may coincide; a dependency may be missing (0 is no
\* step's id), part of a cycle, or the step itself.  The last may be a skill's.
MCIds == 0 .. 3
MCDeps == {D \in SUBSET MCIds : Cardinality(D) <= 2 /\ (0 \in D => D = {0})}
MCNumberings == {<<1, 2, 3>>, <<1, 1, 2>>, <<1, 2, 1>>}

MCPlans ==
  {[i \in 1 .. 3 |-> [id |-> n[i], deps |-> D[i], skill |-> (k /\ i = 3),
                      kinds |-> {}]] :
     n \in MCNumberings, D \in [1 .. 3 -> MCDeps], k \in BOOLEAN}
=============================================================================
