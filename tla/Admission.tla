----------------------------- MODULE Admission -----------------------------
(***************************************************************************)
(* How an administrator's session admits requesters: the intake queue, the *)
(* exchanges held open for a result, approvals, batches handed to the      *)
(* stage / save / adopt boundary, and replies that a retry finds again     *)
(* (arachne-runtime/src/lib.rs, admission_waiters.rs,                      *)
(* arachne-security/src/admission.rs, invitation.rs).                      *)
(*                                                                         *)
(* An attempt stands for one requester, its endpoint and its request.      *)
(* Signatures, histories and the bytes of packages are left out; a         *)
(* workspace is who was admitted and which requests were decided.  The     *)
(* retained set is the admissions this session made; members also counts   *)
(* those another administrator made.                                       *)
(***************************************************************************)
EXTENDS Integers, Sequences, FiniteSetsExt

CONSTANTS
  Attempts,
  NeedsApproval,   \* attempts whose invitation requires a decision
  Batch,           \* MAX_RUNTIME_ADMISSION_BATCH
  QueueLimit,      \* MAX_ADMISSION_QUEUE_ITEMS
  WaiterLimit,     \* MAX_ADMISSION_WAITERS
  Cases            \* who asks in a behaviour, and the bounds of its disturbances

ASSUME AdmissionAssumption ==
  /\ NeedsApproval \subseteq Attempts
  /\ Batch \in Nat \ {0} /\ QueueLimit \in Nat \ {0} /\ WaiterLimit \in Nat \ {0}
  /\ Cases \subseteq [ask : SUBSET Attempts, once : SUBSET Attempts, expire : SUBSET Attempts,
                       move : SUBSET Attempts, direct : Nat, blocks : Nat, discards : Nat, crashes : Nat]

VARIABLES
  session,      \* the admission fields of the Session
  disk,         \* the workspace a restart finds
  requesters,   \* what each requester knows of its attempt
  arrivals,     \* control requests not yet read, oldest first
  pushes,       \* results pushed to requesters, not yet arrived
  expired,      \* attempts whose invitation has expired
  left          \* who keeps asking and what remains of the chosen bounds: who asks once,
                \* whose invitation may expire, who may be admitted elsewhere,
                \* admissions staged by the host, deliveries, discards, restarts

vars == <<session, disk, requesters, arrivals, pushes, expired, left>>

NewWorkspace == [retained |-> {}, members |-> {}, approved |-> {}, declined |-> {}]
NoCandidate == [kind |-> "none", workspace |-> NewWorkspace, saved |-> FALSE]
Candidate(kind, workspace) == [kind |-> kind, workspace |-> workspace, saved |-> FALSE]

Fresh(workspace) ==
  [workspace |-> workspace, staged |-> NoCandidate, queue |-> <<>>,
   metadata |-> [a \in Attempts |-> "none"], inFlight |-> {}, held |-> {},
   pending |-> {}, stagedApproval |-> {}, reads |-> 0, blocked |-> FALSE]

Init ==
  /\ session = Fresh(NewWorkspace)
  /\ disk = NewWorkspace
  /\ requesters = [a \in Attempts |-> "idle"]
  /\ arrivals = <<>> /\ pushes = {} /\ expired = {}
  /\ left \in Cases

-----------------------------------------------------------------------------
\* What the current workspace says of an attempt: the checks of
\* check_validated_admission in their order.
assess(w, a) ==
  IF a \in expired \cup w.declined THEN "refused"
  ELSE IF a \in NeedsApproval \ w.approved THEN "approval"
  ELSE IF a \in w.members THEN "refused" ELSE "ready"

Queued(s) == Range(s.queue)
\* The exchange held for an attempt is open unless the requester gave it up.
Open(a) == requesters[a] = "open" /\ a \notin Range(arrivals)

enqueue(s, a, kind) ==
  [s EXCEPT !.queue = Append(@, a), !.metadata[a] = kind]

hold(s, a) ==
  LET live == {b \in s.held : Open(b)}
      kept == IF a \in s.held \/ Cardinality(s.held) < WaiterLimit THEN s.held ELSE live
  IN IF a \in kept \/ Cardinality(kept) < WaiterLimit
     THEN [session |-> [s EXCEPT !.held = kept \cup {a}], reply |-> "held"]
     ELSE [session |-> [s EXCEPT !.held = kept], reply |-> "queued"]

\* An attempt already on its way is not assessed again.
OnItsWay(s, a) == a \in Queued(s) \cup s.inFlight

queue_admission(s, a) ==
  LET read     == [s EXCEPT !.reads = IF @ < Batch THEN @ + 1 ELSE @]
      verdict  == assess(s.workspace, a)
      unlisted == [read EXCEPT !.pending = @ \ {a}]
      answered == requesters[a] = "open"
      full     == Len(s.queue) >= QueueLimit
  IN IF a \in s.workspace.retained
     THEN [session |-> [read EXCEPT !.inFlight = IF answered THEN @ \ {a} ELSE @],
           reply |-> "welcome"]
     ELSE IF OnItsWay(s, a) THEN hold(read, a)
     ELSE IF a \in s.pending /\ verdict = "approval"
     THEN [session |-> read, reply |-> "queued"]
     ELSE CASE verdict = "refused" -> [session |-> unlisted, reply |-> "refused"]
            [] verdict # "refused" /\ full -> [session |-> unlisted, reply |-> "busy"]
            [] verdict = "approval" /\ ~ full ->
                 [session |-> enqueue(unlisted, a, "approval"), reply |-> "queued"]
            [] verdict = "ready" /\ ~ full -> hold(enqueue(unlisted, a, "ready"), a)

-----------------------------------------------------------------------------
\* Put attempts back at the end of the queue; what does not fit is lost.
requeue_admission(s, attempts, metadata) ==
  LET fits == SubSeq(attempts, 1, IF QueueLimit - Len(s.queue) < Len(attempts)
                                  THEN QueueLimit - Len(s.queue) ELSE Len(attempts))
  IN [s EXCEPT !.queue = @ \o fits,
               !.metadata = [a \in Attempts |-> IF a \in Range(fits) THEN metadata[a] ELSE @[a]]]

Stageable(s, a) == s.metadata[a] = "ready" /\ a \notin s.workspace.retained

\* The queue is popped until a batch of stageable attempts is found.
Taken(s) ==
  LET enough == {n \in 1 .. Len(s.queue) :
                   Len(SelectSeq(SubSeq(s.queue, 1, n), LAMBDA a : Stageable(s, a))) = Batch}
  IN SubSeq(s.queue, 1, IF enough = {} THEN Len(s.queue) ELSE Min(enough))

Admitted(w, attempts) ==
  [w EXCEPT !.retained = @ \cup attempts, !.members = @ \cup attempts]

stage_queued_admission(s) ==
  LET taken    == Taken(s)
      ready    == SelectSeq(taken, LAMBDA a : Stageable(s, a))
      deferred == SelectSeq(taken, LAMBDA a : s.metadata[a] = "approval")
      popped   == [s EXCEPT !.reads = 0,
                            !.queue = SubSeq(@, Len(taken) + 1, Len(@)),
                            !.metadata = [a \in Attempts |->
                                            IF a \in Range(taken) THEN "none" ELSE @[a]]]
      restored == requeue_admission(popped, deferred \o ready, s.metadata)
      kept     == requeue_admission(popped, deferred, s.metadata)
      valid    == \A a \in Range(ready) : assess(s.workspace, a) = "ready"
  IN CASE ready = <<>> /\ deferred = <<>> -> [session |-> popped, result |-> "none"]
       [] ready = <<>> /\ deferred # <<>> ->
            [session |-> [requeue_admission(popped, Tail(deferred), s.metadata)
                            EXCEPT !.pending = @ \cup {Head(deferred)}],
             result |-> "approval_requested"]
       [] ready # <<>> /\ (s.blocked \/ ~ valid) -> [session |-> restored, result |-> "error"]
       [] OTHER ->
            [session |-> [kept EXCEPT !.inFlight = Range(ready),
                                      !.staged = Candidate("admission",
                                                   Admitted(s.workspace, Range(ready)))],
             result |-> "staged"]

-----------------------------------------------------------------------------
Busy(s) == s.staged.kind # "none"

Ask(a) ==
  /\ requesters[a] = "idle" /\ a \in left.ask \cup left.once
  /\ requesters' = [requesters EXCEPT ![a] = "open"]
  /\ arrivals' = IF a \in Range(arrivals) THEN arrivals ELSE Append(arrivals, a)
  /\ left' = [left EXCEPT !.once = @ \ {a}]
  /\ UNCHANGED <<session, disk, pushes, expired>>

\* The transport ends the exchange; the request may still be read later.
GiveUp(a) ==
  /\ requesters[a] = "open"
  /\ requesters' = [requesters EXCEPT ![a] = "idle"]
  /\ UNCHANGED <<session, disk, arrivals, pushes, expired, left>>

should_stageFull(s) == s.queue # <<>> /\ Len(s.queue) >= Batch
should_stage_queued_admission(s) ==
  /\ s.queue # <<>>
  /\ Len(s.queue) >= Batch \/ s.reads >= Batch

\* What the count trigger of a poll does before the poll reads a packet.
Triggered ==
  IF ~ Busy(session) /\ should_stage_queued_admission(session)
  THEN stage_queued_admission(session)
  ELSE [session |-> session, result |-> "none"]

PollStagesOnCount ==
  /\ Triggered.result # "none"
  /\ session' = Triggered.session
  /\ UNCHANGED <<disk, requesters, arrivals, pushes, expired, left>>

\* What a reply tells its requester; `held' leaves the exchange open, and only
\* an open exchange carries a reply.
Told(reply) ==
  [welcome |-> "welcomed", refused |-> "refused", queued |-> "idle",
   busy |-> "idle", held |-> "open"][reply]

PollReads ==
  /\ Triggered.result = "none" /\ arrivals # <<>>
  /\ LET a == Head(arrivals)
         answer == queue_admission(Triggered.session, a)
     IN /\ session' = answer.session
        /\ requesters' = IF requesters[a] = "open"
                         THEN [requesters EXCEPT ![a] = Told(answer.reply)] ELSE requesters
  /\ arrivals' = Tail(arrivals)
  /\ UNCHANGED <<disk, pushes, expired, left>>

\* No packet waits: stage whatever is queued.
PollStagesIdle ==
  /\ Triggered.result = "none" /\ arrivals = <<>>
  /\ ~ Busy(session) /\ session.queue # <<>>
  /\ session' = stage_queued_admission(Triggered.session).session
  /\ UNCHANGED <<disk, requesters, arrivals, pushes, expired, left>>

PollAdmission == PollStagesOnCount \/ PollReads \/ PollStagesIdle

\* The checks of check_epoch_transition and the dispatcher before a candidate
\* other than a queued batch is staged.
CanStage == ~ Busy(session) /\ ~ session.blocked

\* The host stages a request it received by itself.
StageAdmission(a) ==
  /\ CanStage /\ left.direct > 0
  /\ a \notin session.workspace.retained /\ assess(session.workspace, a) = "ready"
  /\ session' = [session EXCEPT !.staged =
                   Candidate("admission", Admitted(session.workspace, {a}))]
  /\ left' = [left EXCEPT !.direct = @ - 1]
  /\ UNCHANGED <<disk, requesters, arrivals, pushes, expired>>

\* The host decides a request whose approval it was asked for.
StageDecision(a, field) ==
  /\ CanStage /\ a \in session.pending
  /\ a \notin session.workspace.approved \cup session.workspace.declined
  /\ session' = [session EXCEPT
                   !.staged = Candidate("decision",
                                        [session.workspace EXCEPT ![field] = @ \cup {a}]),
                   !.stagedApproval = {a}]
  /\ UNCHANGED <<disk, requesters, arrivals, pushes, expired, left>>
StageInvitationApproval(a) == a \notin expired /\ StageDecision(a, "approved")
StageInvitationDecline(a) == StageDecision(a, "declined")

\* A commit by another administrator that admits one of these requesters.
StageReceivedStep(a) ==
  /\ CanStage
  /\ requesters[a] = "elsewhere" /\ a \notin session.workspace.members
  /\ session' = [session EXCEPT !.staged =
                   Candidate("received", [session.workspace EXCEPT !.members = @ \cup {a}])]
  /\ UNCHANGED <<disk, requesters, arrivals, pushes, expired, left>>

\* save_candidate: the store reports the candidate committed.
SaveCandidate ==
  /\ Busy(session) /\ ~ session.staged.saved
  /\ disk' = session.staged.workspace
  /\ session' = [session EXCEPT !.staged.saved = TRUE]
  /\ UNCHANGED <<requesters, arrivals, pushes, expired, left>>

require_committedNever(s) == Busy(s)
require_committed(s) == s.staged.saved

Decided(s) == s.stagedApproval
\* Adoption takes the attempts in flight whatever admission it adopts, answers
\* the exchanges still open and pushes the other results.
AdoptAdmission ==
  /\ Busy(session) /\ require_committed(session)
  /\ LET w        == session.staged.workspace
         taken    == IF session.staged.kind = "decision" THEN {} ELSE session.inFlight
         results  == taken \cap w.retained
         answered == {a \in results \cap session.held : Open(a)}
         dropped  == {a \in (taken \ results) \cap session.held : Open(a)}
     IN /\ session' = [session EXCEPT !.workspace = w, !.staged = NoCandidate,
                          !.inFlight = @ \ taken, !.held = @ \ taken,
                          !.pending = @ \ Decided(session), !.stagedApproval = {}]
        /\ requesters' = [a \in Attempts |-> CASE a \in answered -> "welcomed"
                                               [] a \in dropped -> "idle"
                                               [] OTHER -> requesters[a]]
        /\ pushes' = pushes \cup (results \ answered)
  /\ UNCHANGED <<disk, arrivals, expired, left>>

PushArrives(a) ==
  /\ a \in pushes /\ pushes' = pushes \ {a}
  /\ requesters' = [requesters EXCEPT ![a] = IF @ \in {"idle", "open"} THEN "welcomed" ELSE @]
  /\ UNCHANGED <<session, disk, arrivals, expired, left>>
PushLost(a) ==
  /\ a \in pushes /\ pushes' = pushes \ {a}
  /\ UNCHANGED <<session, disk, requesters, arrivals, expired, left>>

DiscardWorkspaceCandidate ==
  /\ Busy(session) /\ left.discards > 0
  /\ session' = [session EXCEPT !.staged = NoCandidate]
  /\ left' = [left EXCEPT !.discards = @ - 1]
  /\ UNCHANGED <<disk, requesters, arrivals, pushes, expired>>

-----------------------------------------------------------------------------
\* Application deliveries wait for the host, and hold back a new epoch.
ApplicationArrives ==
  /\ ~ session.blocked /\ left.blocks > 0
  /\ session' = [session EXCEPT !.blocked = TRUE]
  /\ left' = [left EXCEPT !.blocks = @ - 1]
  /\ UNCHANGED <<disk, requesters, arrivals, pushes, expired>>
ApplicationAcknowledged ==
  /\ session.blocked /\ ~ Busy(session)
  /\ session' = [session EXCEPT !.blocked = FALSE]
  /\ UNCHANGED <<disk, requesters, arrivals, pushes, expired, left>>

InvitationExpires(a) ==
  /\ a \in left.expire /\ expired' = expired \cup {a}
  /\ left' = [left EXCEPT !.expire = @ \ {a}]
  /\ UNCHANGED <<session, disk, requesters, arrivals, pushes>>
AdmittedElsewhere(a) ==
  /\ a \in left.move \ (session.workspace.members \cup session.staged.workspace.members)
  /\ requesters[a] = "idle"
  /\ requesters' = [requesters EXCEPT ![a] = "elsewhere"]
  /\ left' = [left EXCEPT !.move = @ \ {a}]
  /\ UNCHANGED <<session, disk, arrivals, pushes, expired>>

Crash ==
  /\ left.crashes > 0 /\ left' = [left EXCEPT !.crashes = @ - 1]
  /\ session' = Fresh(disk)
  /\ requesters' = [a \in Attempts |-> IF requesters[a] = "open" THEN "idle" ELSE requesters[a]]
  /\ arrivals' = <<>> /\ pushes' = {}
  /\ UNCHANGED <<disk, expired>>

Next ==
  \/ PollAdmission \/ SaveCandidate \/ AdoptAdmission \/ DiscardWorkspaceCandidate
  \/ ApplicationArrives \/ ApplicationAcknowledged \/ Crash
  \/ \E a \in Attempts :
       \/ Ask(a) \/ GiveUp(a) \/ StageAdmission(a)
       \/ StageInvitationApproval(a) \/ StageInvitationDecline(a) \/ StageReceivedStep(a)
       \/ PushArrives(a) \/ PushLost(a) \/ InvitationExpires(a) \/ AdmittedElsewhere(a)

Spec == Init /\ [][Next]_vars

Asking(a) == a \in left.ask /\ requesters[a] \in {"idle", "open"}
ReadInTime(a) == PollReads /\ Head(arrivals) = a /\ requesters[a] = "open"
\* Requesters keep asking and exchanges end; the host keeps polling, saves and
\* adopts what was staged, acknowledges deliveries and decides approvals; who
\* keeps asking is read now and then before the exchange ends.  A step that
\* ends the condition it is taken in is fair if the condition does not last.
Fairness ==
  /\ WF_vars(PollAdmission)
  /\ []<>(~ Busy(session) \/ session.staged.saved)
  /\ []<>~ (Busy(session) /\ session.staged.saved)
  /\ []<>~ (session.blocked /\ ~ Busy(session))
  /\ \A a \in Attempts :
       /\ []<>~ (requesters[a] = "idle" /\ a \in left.ask) /\ []<>(requesters[a] # "open")
       /\ []<>~ (CanStage /\ a \in session.pending \ (expired \cup session.workspace.approved
                                                    \cup session.workspace.declined))
       /\ <>[]~ Asking(a) \/ []<><<ReadInTime(a)>>_vars
FairSpec == Spec /\ Fairness

-----------------------------------------------------------------------------
\* The session, the disk, the requesters and the budgets have their types.
TypeOK ==
  LET Workspaces == [retained : SUBSET Attempts, members : SUBSET Attempts,
                     approved : SUBSET Attempts, declined : SUBSET Attempts]
  IN /\ session.workspace \in Workspaces /\ disk \in Workspaces
     /\ session.staged \in [kind : {"none", "admission", "received", "decision"},
                             workspace : Workspaces, saved : BOOLEAN]
     /\ session.queue \in Seq(Attempts) /\ Len(session.queue) <= QueueLimit
     /\ session.metadata \in [Attempts -> {"none", "ready", "approval"}]
     /\ {session.inFlight, session.held, session.pending, session.stagedApproval}
          \subseteq SUBSET Attempts
     /\ Cardinality(session.held) <= WaiterLimit
     /\ session.reads \in 0 .. Batch /\ session.blocked \in BOOLEAN
     /\ requesters \in [Attempts -> {"idle", "open", "welcomed", "refused", "elsewhere"}]
     /\ arrivals \in Seq(Attempts) /\ pushes \subseteq Attempts /\ expired \subseteq Attempts

\* A requester that holds a result is an admission a restart still finds:
\* replies leave only after the candidate was saved (AdoptAdmission,
\* queue_admission, queue_admission_push).
ResultsAreDurable ==
  \A a \in Attempts : requesters[a] = "welcomed" \/ a \in pushes => a \in disk.retained

\* Whoever keeps asking is told a result in the end (hold_admission_exchange,
\* should_stage_queued_admission).  Two cases are outside: attempts of a
\* discarded batch, which stay in flight and are not staged again, and a queue
\* that holds an attempt whose requester another administrator admitted, which
\* fails every batch it is in.  All the while the queue, the held exchanges
\* and the rest of the session are within the bounds of TypeOK.
AskersAreAnswered ==
  /\ []TypeOK
  /\ left.discards = 0 /\ left.move = {} =>
       \A a \in Attempts : a \in left.ask => <>(requesters[a] \in {"welcomed", "refused"})
====
