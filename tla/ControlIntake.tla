---------------------------- MODULE ControlIntake ----------------------------
(***************************************************************************)
(* The way of a control request from its exchange to the host: the bounded *)
(* channel and its arrival signal (arachne-node/src/control.rs), the       *)
(* forwarder and the host's work signal (arachne-runtime/src/lib.rs,       *)
(* work_signal.rs), and the order in which PollAdmission takes requests    *)
(* while a membership commit is pending or not.                            *)
(*                                                                         *)
(* A request is live while its exchange waits for the reply.  What the     *)
(* host does with a request it takes is left out, but for an admission:    *)
(* that one is queued and staged, and staging keeps the session busy until *)
(* the host adopts.                                                        *)
(***************************************************************************)
EXTENDS Integers, SequencesExt

CONSTANTS
  Requests,    \* control requests, in the order of their arrival: 1 .. n
  Admissions,  \* join requests among them (admission_packet_candidate)
  Ranges,      \* range pulls among them (DFMS)
  Capacity,    \* of the control channel
  Scan,        \* requests one poll_control or poll_control_matching looks at
  RangeScan,   \* RANGE_SCAN_DEPTH
  MaxStages    \* bound: candidates staged by other calls of the host

IntakeAssumption ==
  /\ Requests \subseteq Nat /\ Admissions \subseteq Requests /\ Ranges \subseteq Requests
  /\ {Capacity, Scan, RangeScan} \subseteq Nat \ {0} /\ MaxStages \in Nat

VARIABLES
  inbox,      \* the channel, the requests set aside, and the admission slot
  arrived,    \* requests that reached the node
  live,       \* requests whose exchange still waits
  unnotified, \* requests in the channel whose arrival signal is still to come
  permit,     \* the arrival signal's stored permit
  pending,    \* the work signal
  host,       \* "parked" in wait_for_work or "draining"
  skipped,    \* history: expired requests the last poll dropped
  stages      \* candidates staged by other calls

vars == <<inbox, arrived, live, unnotified, permit, pending, host, skipped, stages>>

Empty == [channel |-> <<>>, deferred |-> <<>>, queued |-> FALSE, busy |-> FALSE, taken |-> <<>>]

Init ==
  /\ inbox = Empty /\ arrived = {} /\ live = {} /\ unnotified = {}
  /\ permit = FALSE /\ pending = FALSE /\ host = "parked" /\ skipped = 0 /\ stages = 0

Waiting(s) == s.deferred \o s.channel

-----------------------------------------------------------------------------
\* ControlInbox::offer queues the request, or refuses it when the channel is
\* full, and then leaves one permit with the signal.
Offer(r) ==
  /\ r \notin arrived /\ \A q \in Requests : q < r => q \in arrived
  /\ arrived' = arrived \cup {r}
  /\ IF Len(inbox.channel) < Capacity
     THEN /\ inbox' = [inbox EXCEPT !.channel = Append(@, r)]
          /\ live' = live \cup {r} /\ unnotified' = unnotified \cup {r}
     ELSE UNCHANGED <<inbox, live, unnotified>>
  /\ UNCHANGED <<permit, pending, host, skipped, stages>>

Notify(r) ==
  /\ r \in unnotified /\ unnotified' = unnotified \ {r} /\ permit' = TRUE
  /\ UNCHANGED <<inbox, arrived, live, pending, host, skipped, stages>>

\* The exchange reaches its deadline or its requester goes away.
Expire(r) ==
  /\ r \in live /\ live' = live \ {r}
  /\ UNCHANGED <<inbox, arrived, unnotified, permit, pending, host, skipped, stages>>

\* The forwarder task passes the arrival signal on as work.
Forward ==
  /\ permit /\ permit' = FALSE /\ pending' = TRUE
  /\ UNCHANGED <<inbox, arrived, live, unnotified, host, skipped, stages>>

\* wait_for_work
Wake ==
  /\ host = "parked" /\ pending /\ pending' = FALSE /\ host' = "draining"
  /\ UNCHANGED <<inbox, arrived, live, unnotified, permit, skipped, stages>>

-----------------------------------------------------------------------------
\* A poll leaves an inbox and what it returned to the host.
Result(s, event) == [inbox |-> s, event |-> event]
Take(s, r) ==
  [s EXCEPT !.taken = Append(@, r), !.queued = @ \/ r \in Admissions]

\* Mutant: what was scanned now goes before what was set aside earlier.
poll_control_firstSwaps(s, kind, depth) ==
  LET n       == Min({depth, Len(s.channel)})
      scanned == SubSeq(s.channel, 1, n) \o s.deferred
      rest    == [s EXCEPT !.channel = SubSeq(@, n + 1, Len(@)), !.deferred = scanned]
      hits    == {i \in DOMAIN scanned : scanned[i] \in kind \cap live}
  IN IF hits = {} THEN Result(rest, FALSE)
     ELSE Result(Take([rest EXCEPT !.deferred = RemoveAt(@, Min(hits))], scanned[Min(hits)]), TRUE)

\* Up to depth new requests are set aside behind the earlier ones; the first
\* live one of the kind is taken and the rest keep their order.
poll_control_first(s, kind, depth) ==
  LET n       == Min({depth, Len(s.channel)})
      scanned == s.deferred \o SubSeq(s.channel, 1, n)
      rest    == [s EXCEPT !.channel = SubSeq(@, n + 1, Len(@)), !.deferred = scanned]
      hits    == {i \in DOMAIN scanned : scanned[i] \in kind \cap live}
  IN IF hits = {} THEN Result(rest, FALSE)
     ELSE Result(Take([rest EXCEPT !.deferred = RemoveAt(@, Min(hits))], scanned[Min(hits)]), TRUE)

Drop(s, n) ==
  LET fromDeferred == Min({n, Len(s.deferred)})
  IN [s EXCEPT !.deferred = SubSeq(@, fromDeferred + 1, Len(@)),
               !.channel = SubSeq(@, n - fromDeferred + 1, Len(@))]

\* The first live request, past fewer than Scan expired ones.
poll_control(s) ==
  LET all  == Waiting(s)
      hits == {i \in DOMAIN all : all[i] \in live}
      at   == IF hits = {} THEN Len(all) + 1 ELSE Min(hits)
  IN IF at <= Scan /\ hits # {} THEN Result(Take(Drop(s, at), all[at]), TRUE)
     ELSE Result(Drop(s, Min({Scan, Len(all)})), FALSE)

\* PollAdmission: ranges first; then a batch that is due; while busy or with
\* admissions queued only admissions; then stage what is queued; then anything.
PollAdmission(s, due) ==
  LET ranges == poll_control_first(s, Ranges, RangeScan)
      first  == IF s.busy \/ s.queued
                THEN poll_control_first(ranges.inbox, Admissions, Scan)
                ELSE poll_control(ranges.inbox)
      staged == [first.inbox EXCEPT !.busy = TRUE, !.queued = FALSE]
  IN IF ranges.event THEN ranges
     ELSE IF due /\ s.queued /\ ~ s.busy
     THEN Result([ranges.inbox EXCEPT !.busy = TRUE, !.queued = FALSE], TRUE)
     ELSE IF first.event \/ s.busy THEN first
     ELSE IF s.queued THEN Result(staged, TRUE)
     ELSE poll_control(first.inbox)

\* execute_request wakes the host again for a queue that can be staged, and
\* for requests set aside once the session is no longer busy.
RearmNever(before, after) == FALSE
Rearm(before, after) ==
  \/ ~ after.busy /\ after.queued
  \/ before.busy /\ ~ after.busy /\ after.deferred # <<>>

\* The host drains until a poll returns nothing.  Whether a queued batch is
\* due (should_stage_queued_admission) depends on counts left out here.
HostPolls(due) ==
  LET polled == PollAdmission(inbox, due) IN
  /\ host = "draining"
  /\ inbox' = polled.inbox
  /\ live' = live \ ToSet(polled.inbox.taken)
  /\ skipped' = Len(Waiting(inbox)) + Len(inbox.taken)
                - Len(Waiting(polled.inbox)) - Len(polled.inbox.taken)
  /\ host' = IF polled.event THEN "draining" ELSE "parked"
  /\ permit' = (permit \/ Rearm(inbox, polled.inbox))
  /\ UNCHANGED <<arrived, unnotified, pending, stages>>

\* Another call of the host stages a candidate.
StageCandidate ==
  /\ ~ inbox.busy /\ inbox' = [inbox EXCEPT !.busy = TRUE]
  /\ stages < MaxStages /\ stages' = stages + 1
  /\ UNCHANGED <<arrived, live, unnotified, permit, pending, host, skipped>>

\* The host saves and adopts the staged candidate.
AdoptAdmission ==
  LET adopted == [inbox EXCEPT !.busy = FALSE] IN
  /\ inbox.busy /\ inbox' = adopted
  /\ permit' = (permit \/ Rearm(inbox, adopted))
  /\ UNCHANGED <<arrived, live, unnotified, pending, host, skipped, stages>>

Next ==
  \/ \E r \in Requests : Offer(r) \/ Notify(r) \/ Expire(r)
  \/ \E due \in BOOLEAN : HostPolls(due)
  \/ Forward \/ Wake \/ StageCandidate \/ AdoptAdmission

Spec == Init /\ [][Next]_vars

\* The exchange, the forwarder and the host run.  The host keeps its contract:
\* it wakes on a signal, every drain ends (a poll that returns something took a
\* request or staged the queue), and what is staged gets adopted.  Written as
\* what each task keeps reaching, which is weak fairness of its steps.
Fairness ==
  /\ []<>(unnotified = {}) /\ []<>(~ permit) /\ []<>(~ (host = "parked" /\ pending))
  /\ []<>(host = "parked") /\ []<>(~ inbox.busy)

FairSpec == Spec /\ Fairness

-----------------------------------------------------------------------------
\* Queues hold requests that arrived, each in one place, and the channel is
\* within its capacity.
TypeOK ==
  LET all == inbox.taken \o Waiting(inbox) IN
  /\ ToSet(all) \subseteq arrived /\ Cardinality(ToSet(all)) = Len(all)
  /\ Len(inbox.channel) <= Capacity /\ live \subseteq ToSet(Waiting(inbox))
  /\ host \in {"parked", "draining"} /\ skipped \in Nat /\ {permit, pending} \subseteq BOOLEAN

\* A poll that met nothing but expired requests in both of its scans returns
\* nothing with live requests left behind them.
OutOfScans == skipped >= 2 * Scan

\* Requests that are neither joins nor range pulls are taken in the order they
\* arrived, although scans move them between queues ("the rest keep their
\* order", poll_control_first).
OrdinaryRequestsKeepTheirOrder ==
  LET Ordinary(r) == r \notin Admissions \cup Ranges
      order == SelectSeq(inbox.taken \o Waiting(inbox), Ordinary)
  IN TypeOK /\ \A i, j \in DOMAIN order : i < j => order[i] < order[j]

\* Every request is taken or its exchange ends: no request stays in the node
\* while its requester waits and the host sleeps (wait_for_work: "drain with
\* poll_admission until it returns null, then call again"), but for a host
\* that parked out of scans.
RequestsAreTaken ==
  \A r \in Requests : r \in live ~> r \notin live \/ OutOfScans
====
