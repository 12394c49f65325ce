---------------------------- MODULE HelpExchange ----------------------------
(***************************************************************************)
(* What the human-in-the-loop hub promises, without channels, locks or     *)
(* gRPC: a task asks for help at most once, operators offer hints, the     *)
(* exchange accepts some of the offers, and the task gets one accepted     *)
(* hint or none.  The abstraction keeps the one slot a task has for a hint *)
(* it has not read yet: a second offer is accepted only after the first    *)
(* one was read, so at most one accepted hint is ever lost.                *)
(***************************************************************************)
CONSTANTS
  Tasks,      \* the tasks that may ask for help
  Operators,  \* a hint is identified with the operator session that wrote it
  None        \* no hint

VARIABLES
  request,    \* request[t]: "idle", then "open", then "closed"
  accepted,   \* accepted[t]: the operators that were told "accepted"
  used        \* used[t]: the hint the task got, or None

exchangeVars == <<request, accepted, used>>

Unread(t) == accepted[t] \ {used[t]}

Init ==
  /\ request = [t \in Tasks |-> "idle"]
  /\ accepted = [t \in Tasks |-> {}]
  /\ used = [t \in Tasks |-> None]

Ask(t) ==
  /\ request[t] = "idle"
  /\ request' = [request EXCEPT ![t] = "open"]
  /\ UNCHANGED <<accepted, used>>

Accept(t, o) ==
  /\ request[t] # "idle"
  /\ Unread(t) = {}
  /\ o \notin accepted[t]
  /\ accepted' = [accepted EXCEPT ![t] = @ \cup {o}]
  /\ UNCHANGED <<request, used>>

Answer(t, o) ==
  /\ request[t] = "open"
  /\ o \in accepted[t]
  /\ used' = [used EXCEPT ![t] = o]
  /\ request' = [request EXCEPT ![t] = "closed"]
  /\ UNCHANGED accepted

GiveUp(t) ==
  /\ request[t] = "open"
  /\ request' = [request EXCEPT ![t] = "closed"]
  /\ UNCHANGED <<accepted, used>>

Next ==
  \E t \in Tasks :
    \/ Ask(t)
    \/ GiveUp(t)
    \/ \E o \in Operators : Accept(t, o) \/ Answer(t, o)

Spec == Init /\ [][Next]_exchangeVars
=============================================================================
