--------------------------- MODULE ActivityBroker ---------------------------
(***************************************************************************)
(* The fan-out of activity events to the dashboard's panels                *)
(* (internal/dashboard/activity.go).  Publishers hold the broker's lock    *)
(* for reading, so they run side by side; subscribing and cancelling take  *)
(* it for writing.  A panel reads its channel without any lock.            *)
(***************************************************************************)
EXTENDS Naturals, Sequences, FiniteSets

CONSTANTS
  Publishers, Panels,
  ChannelCap,   \* capacity of a subscriber's channel, 64 in the code
  MaxEvents     \* bound: events of one publisher

VARIABLES
  subscribed,  \* b.subscribers
  channel,     \* the buffer of each panel's channel
  read,        \* history: the events each panel's handler has read
  sent,        \* events each publisher has published
  visiting,    \* the subscriber a publisher is at, and how far with it
  todo,        \* subscribers its Publish has still to visit
  crowded,     \* history: panels two publishers were at at the same time
  givenUp      \* history: panels an event was not sent to in the end

brokerVars == <<subscribed, channel, read, sent, visiting, todo, crowded, givenUp>>

Event(p, n) == [by |-> p, n |-> n]
NotVisiting == [panel |-> "none", stage |-> "none"]

ASSUME BrokerAssumption ==
  ChannelCap \in Nat \ {0} /\ MaxEvents \in Nat /\ NotVisiting.panel \notin Panels

BrokerInit ==
  /\ subscribed = {} /\ channel = [s \in Panels |-> <<>>]
  /\ read = [s \in Panels |-> <<>>] /\ sent = [p \in Publishers |-> 0]
  /\ visiting = [p \in Publishers |-> NotVisiting]
  /\ todo = [p \in Publishers |-> {}] /\ crowded = {} /\ givenUp = {}

Publishing(p) == visiting[p] # NotVisiting \/ todo[p] # {}
Locked == \E p \in Publishers : Publishing(p)

Publish(p) ==
  /\ ~Publishing(p) /\ sent[p] < MaxEvents
  /\ sent' = [sent EXCEPT ![p] = @ + 1]
  /\ todo' = [todo EXCEPT ![p] = subscribed]
  /\ UNCHANGED <<subscribed, channel, read, visiting, crowded, givenUp>>

Visit(p) ==
  /\ visiting[p] = NotVisiting
  /\ \E s \in todo[p] :
       /\ visiting' = [visiting EXCEPT ![p] = [panel |-> s, stage |-> "send"]]
       /\ todo' = [todo EXCEPT ![p] = @ \ {s}]
       /\ crowded' = IF \E q \in Publishers : visiting[q].panel = s
                     THEN crowded \union {s} ELSE crowded
  /\ UNCHANGED <<subscribed, channel, read, sent, givenUp>>

\* The three selects of Publish: send, else drop the oldest, then send again
\* or give up.
SendOrNot(p) ==
  LET s == visiting[p].panel
      full == Len(channel[s]) = ChannelCap
      again == visiting[p].stage = "again"
  IN /\ visiting[p].stage \in {"send", "again"}
     /\ channel' = IF full THEN channel ELSE [channel EXCEPT ![s] = Append(@, Event(p, sent[p]))]
     /\ visiting' = [visiting EXCEPT ![p] =
          IF full /\ ~again THEN [panel |-> s, stage |-> "drop"] ELSE NotVisiting]
     /\ givenUp' = IF full /\ again THEN givenUp \union {s} ELSE givenUp
     /\ UNCHANGED <<subscribed, read, sent, todo, crowded>>

\* Mutant: nothing is taken out of the full channel.
DropNothing(p) ==
  /\ visiting[p].stage = "drop"
  /\ visiting' = [visiting EXCEPT ![p].stage = "again"]
  /\ UNCHANGED <<subscribed, channel, read, sent, todo, crowded, givenUp>>

DropOldest(p) ==
  LET s == visiting[p].panel IN
  /\ visiting[p].stage = "drop"
  /\ channel' = [channel EXCEPT ![s] = IF @ = <<>> THEN @ ELSE Tail(@)]
  /\ visiting' = [visiting EXCEPT ![p].stage = "again"]
  /\ UNCHANGED <<subscribed, read, sent, todo, crowded, givenUp>>

PanelReads(s) ==
  /\ channel[s] # <<>>
  /\ read' = [read EXCEPT ![s] = Append(@, Head(channel[s]))]
  /\ channel' = [channel EXCEPT ![s] = Tail(@)]
  /\ UNCHANGED <<subscribed, sent, visiting, todo, crowded, givenUp>>

Subscribe(s) ==
  /\ ~Locked /\ s \notin subscribed
  /\ channel[s] = <<>> /\ read[s] = <<>>
  /\ subscribed' = subscribed \union {s}
  /\ UNCHANGED <<channel, read, sent, visiting, todo, crowded, givenUp>>

\* cancel closes the channel; what is buffered can still be read.
Cancel(s) ==
  /\ ~Locked /\ s \in subscribed /\ subscribed' = subscribed \ {s}
  /\ UNCHANGED <<channel, read, sent, visiting, todo, crowded, givenUp>>

BrokerNext ==
  \/ \E p \in Publishers : Publish(p) \/ Visit(p) \/ SendOrNot(p) \/ DropOldest(p)
  \/ \E s \in Panels : PanelReads(s) \/ Subscribe(s) \/ Cancel(s)

BrokerSpec == BrokerInit /\ [][BrokerNext]_brokerVars

----------------------------------------------------------------------------
BrokerTypeOK ==
  LET Events == [by: Publishers, n: Nat] IN
  /\ subscribed \subseteq Panels
  /\ channel \in [Panels -> Seq(Events)] /\ read \in [Panels -> Seq(Events)]
  /\ sent \in [Publishers -> 0..MaxEvents]
  /\ todo \in [Publishers -> SUBSET Panels]
  /\ crowded \subseteq Panels /\ givenUp \subseteq Panels
  /\ \A s \in Panels : Len(channel[s]) <= ChannelCap

Seen(s) == read[s] \o channel[s]

(* What a panel sees: the events of one publisher in their order and none   *)
(* twice; and a new event always gets in at the cost of an older one, unless *)
(* two publishers meet at the panel: one may then take the place the other  *)
(* has made, and the newer event is the one that is lost.                   *)
PanelsSeeTheNewest ==
  \A s \in Panels :
    /\ \A i, j \in DOMAIN Seen(s) :
         i < j /\ Seen(s)[i].by = Seen(s)[j].by => Seen(s)[i].n < Seen(s)[j].n
    /\ s \in givenUp => s \in crowded

=============================================================================
