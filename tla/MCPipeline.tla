----------------------------- MODULE MCPipeline -----------------------------
EXTENDS Pipeline

MCIds == -1 .. 6

MCStep(id, deps, kinds) == [id |-> id, deps |-> deps, skill |-> FALSE, kinds |-> kinds]

\* Two steps, the second of which may wait for the first, have its id, or be
\* followed by one beyond the cap; and no step at all.
MCShapes == {<<{"file"}, {}>>, <<{"file"}, {"verify"}>>, <<{"file", "verify"}, {"qa"}>>,
             <<{"verify"}, {"file"}>>, <<{"setup"}, {"file"}>>, <<{"file"}, {"file"}>>,
             <<{"qa"}, {"file", "verify"}>>, <<{}, {"qa"}>>}
MCSteps ==
  {<<MCStep(1, {}, k[1]), MCStep(n, D, k[2])>> :
     k \in MCShapes, n \in {1, 2}, D \in {{}, {1}}}
MCBeyond == {<<MCStep(1, {3}, {"file"}), MCStep(2, {}, {}), MCStep(3, {}, {})>>}

MCDrafts == [steps : MCSteps \cup MCBeyond \cup {<<>>}, serve : {FALSE}]
            \cup [steps : MCBeyond \cup {<<MCStep(1, {}, {"file"})>>}, serve : {TRUE}]
MCPlans == {PlanTask(d, MaxSteps) : d \in MCDrafts}

\* Planners without a fault: a file and its review; and a file, its test, and
\* a second file once the test has run.
MCCleanDrafts ==
  [steps : {<<MCStep(1, {}, {"file"}), MCStep(2, {1}, {"qa"})>>,
            <<MCStep(1, {}, {"file"}), MCStep(2, {1}, {"verify"}),
              MCStep(3, {2}, {"file"})>>},
   serve : {FALSE}]
MCCleanPlans == {PlanTask(d, MaxSteps) : d \in MCCleanDrafts}
=============================================================================
