---------------------------- MODULE MCNodeQueues ----------------------------
(***************************************************************************)
(* Instances of the node's three waiting places for TLC: the delivery      *)
(* queue, the intake of control requests and the connection slots.  They   *)
(* share no state, so a behaviour is about one of them and the other two   *)
(* rest: the instance is the sum of the three.                             *)
(*                                                                         *)
(* Delivery: current values have one of two keys; two pushes race in the   *)
(* first case, in the second messages of all classes wait together.        *)
(* Intake: four requests and short scans.  Slots: control connections c1,  *)
(* c2, c3 and data connections d1, d2, one slot and one exchange a plane.  *)
(***************************************************************************)
EXTENDS DeliveryQueue

MCKey == [m \in 1 .. 6 |-> m % 2]
MCCases ==
  {[pushes |-> 2, class |-> <<"critical", "bulk", "current", "current", "current">>],
   [pushes |-> 1, class |-> <<"critical", "critical", "current", "bulk", "critical", "critical">>]}

VARIABLES inbox, arrived, live, unnotified, signal, pending, host, passed, stages

Intake == INSTANCE ControlIntake WITH
  Requests <- 1 .. 4, Admissions <- {2}, Ranges <- {4},
  Capacity <- 3, Scan <- 1, RangeScan <- 1, MaxStages <- 1,
  permit <- signal, skipped <- passed

ASSUME Intake!IntakeAssumption

VARIABLES link, recent, waiters, free, spare

Links == INSTANCE ConnectionBudget WITH
  Conns <- {"c1", "c2", "c3", "d1", "d2"}, Control <- {"c1", "c2", "c3"},
  Slots <- [p \in {"data", "control"} |-> 1], Exchanges <- [p \in {"data", "control"} |-> 1],
  MaxStreams <- 1,
  Cases <- {{}, {"c1", "c2", "c3"}, {"c1", "c2", "d1"}, {"c1", "d1", "d2"}}

ASSUME Links!BudgetAssumption

VARIABLE part   \* which of the three this behaviour is about

\* A delivery queue after its end: no messages, and a receiver that left.
RestingQueue ==
  /\ setup = [pushes |-> 1, class |-> <<>>]
  /\ state = [critical |-> <<>>, current |-> {}, bulk |-> <<>>, run |-> 0, bulk_turn |-> FALSE]
  /\ closed = TRUE /\ pusher = <<>> /\ permit = FALSE /\ receiver = "disconnected" /\ woken = FALSE
  /\ delivered = [c \in Classes |-> <<>>] /\ admitted = delivered /\ skipped = [c \in Classes |-> 0]

MCInit ==
  /\ Intake!Init /\ Links!Init
  /\ \/ part = "delivery" /\ QueueInit
     \/ part \in {"intake", "links"} /\ RestingQueue
  /\ part = "links" <=> DOMAIN link # {}

intakeVars == <<inbox, arrived, live, unnotified, signal, pending, host, passed, stages>>
linkVars == <<link, recent, waiters, free, spare>>

MCNext ==
  \/ part = "delivery" /\ QueueNext /\ UNCHANGED <<intakeVars, linkVars, part>>
  \/ part = "intake" /\ Intake!Next /\ UNCHANGED <<queueVars, linkVars, part>>
  \/ part = "links" /\ Links!Next /\ UNCHANGED <<queueVars, intakeVars, part>>

MCSpec ==
  /\ MCInit /\ [][MCNext]_<<queueVars, intakeVars, linkVars, part>>
  /\ Fairness /\ Intake!Fairness

-----------------------------------------------------------------------------
\* Control requests that are neither joins nor range pulls are taken in the
\* order they arrived (ControlIntake, poll_control_first).
OrdinaryRequestsKeepTheirOrder == Intake!OrdinaryRequestsKeepTheirOrder

\* Every control request is taken or its exchange ends (ControlIntake,
\* wait_for_work and the polls).
RequestsAreTaken == Intake!RequestsAreTaken

\* Connection and exchange slots are free or held once (ConnectionBudget,
\* after_handshake, Track and the evictions).
SlotsAreConserved == Links!SlotsAreConserved

=============================================================================
