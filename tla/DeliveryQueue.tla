---------------------------- MODULE DeliveryQueue ----------------------------
(***************************************************************************)
(* The queue between a node and its message receiver (arachne-node/src/    *)
(* lib.rs): three delivery classes with their bounds, replacement of       *)
(* current values, the turns a pop gives to each class, the notification   *)
(* that wakes the receiver, and closing.  A push checks the closed flag    *)
(* before it takes the lock and notifies after it released it.             *)
(*                                                                         *)
(* Messages are numbered in the order their pushes begin.                  *)
(***************************************************************************)
EXTENDS Integers, Sequences, FiniteSets, Functions

CONSTANTS
  Key,           \* replacement key of each message
  CriticalQueue, CurrentQueue, BulkQueue,
  CriticalRun,   \* critical messages in a row before another class has a turn
  Cases          \* what a behaviour is about: the class of each message, and how
                 \* many pushes may be in progress at once

Classes == {"critical", "current", "bulk"}

ASSUME QueueAssumption ==
  /\ {CriticalQueue, CurrentQueue, BulkQueue, CriticalRun} \subseteq Nat \ {0}
  /\ \A case \in Cases : case.pushes \in Nat \ {0} /\ case.class \in Seq(Classes)
                         /\ DOMAIN case.class \subseteq DOMAIN Key
  /\ \A m \in DOMAIN Key : Key[m] \in Nat

VARIABLES
  setup,      \* the case of this behaviour
  state,      \* DeliveryState
  closed,
  pusher,     \* for each message "new", "checked", "inserted" or "done"
  permit,     \* the stored notification
  receiver,   \* "idle", "polling", "empty", "waiting" or "disconnected"
  woken,      \* the queue was closed since the receiver took its place
  delivered,  \* history: messages of each class the receiver returned, in order
  admitted,   \* history: messages of each class that entered the queue, in order
  skipped     \* history: pops since each class was last empty or served

queueVars == <<setup, state, closed, pusher, permit, receiver, woken, delivered, admitted, skipped>>

Messages == DOMAIN setup.class
Class(m) == setup.class[m]
Queued == Range(state.critical) \cup state.current \cup Range(state.bulk)

QueueInit ==
  /\ setup \in Cases
  /\ state = [critical |-> <<>>, current |-> {}, bulk |-> <<>>, run |-> 0, bulk_turn |-> FALSE]
  /\ closed = FALSE /\ pusher = [m \in Messages |-> "new"] /\ permit = FALSE
  /\ receiver = "idle" /\ woken = FALSE
  /\ delivered = [c \in Classes |-> <<>>] /\ admitted = [c \in Classes |-> <<>>]
  /\ skipped = [c \in Classes |-> 0]

-----------------------------------------------------------------------------
\* push, the check of the closed flag.
Check(m) ==
  /\ pusher[m] = "new" /\ \A l \in Messages : l < m => pusher[l] # "new"
  /\ Cardinality({l \in Messages : pusher[l] \in {"checked", "inserted"}}) < setup.pushes
  /\ pusher' = [pusher EXCEPT ![m] = IF closed THEN "done" ELSE "checked"]
  /\ UNCHANGED <<setup, state, closed, permit, receiver, woken, delivered, admitted, skipped>>

\* push, under the lock: what the queue holds afterwards, in a singleton, or
\* nothing when the class is full.
Inserted(m) ==
  LET replaced == {c \in state.current : Key[c] = Key[m]} IN
  IF Class(m) = "critical"
  THEN {s \in {[state EXCEPT !.critical = Append(@, m)]} : Len(state.critical) < CriticalQueue}
  ELSE IF Class(m) = "bulk"
  THEN {s \in {[state EXCEPT !.bulk = Append(@, m)]} : Len(state.bulk) < BulkQueue}
  ELSE {s \in {[state EXCEPT !.current = (@ \ replaced) \cup {m}]} :
          Cardinality(state.current) < CurrentQueue \/ replaced # {}}

Insert(m) ==
  /\ pusher[m] = "checked"
  /\ IF Inserted(m) = {} THEN UNCHANGED state ELSE state' \in Inserted(m)
  /\ pusher' = [pusher EXCEPT ![m] = IF Inserted(m) = {} THEN "done" ELSE "inserted"]
  /\ admitted' = IF Inserted(m) = {} THEN admitted
                 ELSE [admitted EXCEPT ![Class(m)] = Append(@, m)]
  /\ UNCHANGED <<setup, closed, permit, receiver, woken, delivered, skipped>>

\* push, the notification.
Notify(m) ==
  /\ pusher[m] = "inserted" /\ pusher' = [pusher EXCEPT ![m] = "done"] /\ permit' = TRUE
  /\ UNCHANGED <<setup, state, closed, receiver, woken, delivered, admitted, skipped>>

\* close sets the flag and wakes whoever took a place before.
Close ==
  /\ ~ closed /\ closed' = TRUE /\ woken' = (receiver \in {"polling", "empty", "waiting"})
  /\ UNCHANGED <<setup, state, pusher, permit, receiver, delivered, admitted, skipped>>

-----------------------------------------------------------------------------
\* The class whose turn it is, "none" when the queue is empty.
Turn ==
  IF state.run < CriticalRun /\ state.critical # <<>> THEN "critical"
  ELSE IF state.bulk_turn /\ state.bulk # <<>> THEN "bulk"
  ELSE IF state.current # {} THEN "current"
  ELSE IF state.bulk # <<>> THEN "bulk"
  ELSE IF state.critical # <<>> THEN "critical" ELSE "none"

\* The message of a class that is next, and the queue without it.
NextOfLast(class) ==
  CASE class = "critical" -> state.critical[Len(state.critical)]
    [] class = "bulk" -> Head(state.bulk)
    [] class = "current" -> CHOOSE m \in state.current : \A c \in state.current : Key[m] <= Key[c]
NextOf(class) ==
  CASE class = "critical" -> Head(state.critical)
    [] class = "bulk" -> Head(state.bulk)
    [] class = "current" -> CHOOSE m \in state.current : \A c \in state.current : Key[m] <= Key[c]
Popped(class) ==
  CASE class = "critical" ->
         [state EXCEPT !.critical = Tail(@), !.run = IF @ < CriticalRun THEN @ + 1 ELSE @]
    [] class = "bulk" ->
         [state EXCEPT !.bulk = Tail(@), !.run = 0, !.bulk_turn = ~ @]
    [] class = "current" ->
         [state EXCEPT !.current = @ \ {NextOf("current")}, !.run = 0, !.bulk_turn = ~ @]

Holds(class) == \E m \in Queued : Class(m) = class

\* recv takes its place for notifications before it looks at the queue.
Recv ==
  /\ receiver = "idle" /\ receiver' = "polling" /\ woken' = FALSE
  /\ UNCHANGED <<setup, state, closed, pusher, permit, delivered, admitted, skipped>>

Pop ==
  /\ receiver = "polling"
  /\ IF Turn = "none"
     THEN receiver' = "empty" /\ UNCHANGED <<state, delivered, skipped>>
     ELSE /\ receiver' = "idle" /\ state' = Popped(Turn)
          /\ delivered' = [delivered EXCEPT ![Turn] = Append(@, NextOf(Turn))]
          /\ skipped' = [c \in Classes |-> IF c = Turn \/ ~ Holds(c) THEN 0 ELSE skipped[c] + 1]
  /\ UNCHANGED <<setup, closed, pusher, permit, woken, admitted>>

\* try_recv found nothing: a closed queue ends the receiver, an open one makes
\* it wait.
AfterEmpty ==
  /\ receiver = "empty" /\ receiver' = IF closed THEN "disconnected" ELSE "waiting"
  /\ UNCHANGED <<setup, state, closed, pusher, permit, woken, delivered, admitted, skipped>>

WakeByPermit ==
  /\ receiver = "waiting" /\ permit /\ receiver' = "idle" /\ permit' = FALSE
  /\ UNCHANGED <<setup, state, closed, pusher, woken, delivered, admitted, skipped>>
Wake ==
  /\ receiver = "waiting" /\ (permit \/ woken) /\ receiver' = "idle"
  /\ permit' \in IF woken THEN {FALSE, permit} ELSE {FALSE}
  /\ UNCHANGED <<setup, state, closed, pusher, woken, delivered, admitted, skipped>>

QueueNext ==
  \/ \E m \in Messages : Check(m) \/ Insert(m) \/ Notify(m)
  \/ Close \/ Recv \/ Pop \/ AfterEmpty \/ Wake

QueueSpec == QueueInit /\ [][QueueNext]_queueVars

\* The receiving task runs, and pushes that began end.  Recv, Pop and AfterEmpty
\* leave the state they are taken in, so they are fair if it does not last;
\* there are finitely many pushes.
Fairness ==
  /\ WF_queueVars(Wake)
  /\ \A r \in {"idle", "polling", "empty"} : []<>(receiver # r)
  /\ []<>(\A m \in Messages : pusher[m] \notin {"checked", "inserted"})

FairSpec == QueueSpec /\ Fairness

-----------------------------------------------------------------------------
\* Every class is within its bound and holds its own messages, one value for a
\* replacement key.
QueueTypeOK ==
  /\ Len(state.critical) <= CriticalQueue /\ \A m \in Range(state.critical) : Class(m) = "critical"
  /\ Len(state.bulk) <= BulkQueue /\ \A m \in Range(state.bulk) : Class(m) = "bulk"
  /\ Cardinality(state.current) <= CurrentQueue /\ \A m \in state.current : Class(m) = "current"
  /\ \A m, n \in state.current : Key[m] = Key[n] => m = n
  /\ state.run \in 0 .. CriticalRun

\* Under constant traffic of the other classes a class waits a bounded number
\* of pops for its turn: critical messages one, current values and bulk two
\* runs of critical messages and a message of the other class.
ClassesTakeTurns ==
  /\ skipped["critical"] <= 1
  /\ \A c \in {"current", "bulk"} : skipped[c] <= 2 * CriticalRun + 1

\* For every replacement key the receiver sees values (went) in the order they
\* entered the queue (came), and the latest is delivered or queued.
ValuesInOrder(came, went, queued) ==
  /\ \A i, j \in DOMAIN went : i < j /\ Key[went[i]] = Key[went[j]] =>
       \E x, y \in DOMAIN came : x < y /\ came[x] = went[i] /\ came[y] = went[j]
  /\ \A x \in DOMAIN came :
       (\A y \in DOMAIN came : x < y => Key[came[y]] # Key[came[x]])
         => came[x] \in queued \cup Range(went)

\* Critical and bulk messages reach the receiver in the order they entered the
\* queue, none lost and none twice; of the current values the latest of every
\* key does.  No class starves the others (pop).  All this within the bounds of
\* QueueTypeOK.
DeliveryKeepsOrder ==
  /\ QueueTypeOK /\ ClassesTakeTurns
  /\ delivered["critical"] \o state.critical = admitted["critical"]
  /\ delivered["bulk"] \o state.bulk = admitted["bulk"]
  /\ ValuesInOrder(admitted["current"], delivered["current"], state.current)

\* After the node closes the queue the receiver takes what is queued and ends:
\* neither a stale place nor an empty queue leaves it waiting (close, recv).
ClosedReceiverEnds == closed ~> receiver = "disconnected"
====
