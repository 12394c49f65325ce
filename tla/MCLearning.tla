----------------------------- MODULE MCLearning -----------------------------
(***************************************************************************)
(* How the tasks of Learning may end, for TLC: three with one tool, three  *)
(* that share tools, and one success beside two tasks that earn nothing.   *)
(***************************************************************************)
EXTENDS Learning

MCEnding(tools, ok, long) == [tools |-> tools, ok |-> ok, long |-> long]
MCEndings ==
  {[d1 |-> MCEnding(<<"file">>, TRUE, TRUE), d2 |-> MCEnding(<<"file">>, TRUE, FALSE),
    d3 |-> MCEnding(<<"file">>, TRUE, FALSE)],
   [d1 |-> MCEnding(<<"file", "web">>, TRUE, FALSE), d2 |-> MCEnding(<<"web">>, TRUE, FALSE),
    d3 |-> MCEnding(<<"web", "file">>, TRUE, TRUE)],
   [d1 |-> MCEnding(<<"file">>, TRUE, FALSE), d2 |-> MCEnding(<<"file">>, FALSE, TRUE),
    d3 |-> MCEnding(<<>>, TRUE, FALSE)]}

=============================================================================
