------------------------ MODULE AdministrationProofs ------------------------
(***************************************************************************)
(* Two results about what administrators decide.                           *)
(*                                                                         *)
(* Admission, for any number of requesters, any limits and disturbances:   *)
(* what a requester was told, or is being told, is an admission a restart  *)
(* finds.                                                                  *)
(*                                                                         *)
(* WorkspaceNames, for any members, rosters and number of renames: every   *)
(* way a member comes to a name keeps its books (Accounted), and an        *)
(* invitation is older than the epochs that add a member.                  *)
(***************************************************************************)
EXTENDS Admission, WorkspaceNames, FiniteSetTheorems, TLAPS

\* Leaves are tried with Zenon; those that need arithmetic cite SMT.
USE ZenonT(30)

IsWorkspace(w) ==
  w = [retained |-> w.retained, members |-> w.members, approved |-> w.approved, declined |-> w.declined]

IsCandidate(c) ==
  /\ c = [kind |-> c.kind, workspace |-> c.workspace, saved |-> c.saved]
  /\ c.saved \in BOOLEAN /\ IsWorkspace(c.workspace)

Fields == {"workspace", "staged", "queue", "metadata", "inFlight", "held", "pending",
           "stagedApproval", "reads", "blocked"}
IsSession(s) ==
  s = [f \in Fields |-> s[f]] /\ IsWorkspace(s.workspace) /\ IsCandidate(s.staged)

\* A candidate has every admission of the workspace it was made from.
WorkspaceExtends(s) ==
  s.staged.kind # "none" => s.workspace.retained \subseteq s.staged.workspace.retained

\* Results are told from the live workspace, the saved one has all of them,
\* and so has any candidate that may replace the saved one.
Inv ==
  /\ IsSession(session) /\ IsWorkspace(disk) /\ WorkspaceExtends(session)
  /\ requesters = [a \in Attempts |-> requesters[a]]
  /\ session.workspace.retained \subseteq disk.retained
  /\ session.staged.saved => disk = session.staged.workspace
  /\ \A a \in Attempts : requesters[a] = "welcomed" => a \in session.workspace.retained
  /\ pushes \subseteq session.workspace.retained

\* What a step may do to the session without touching the workspace or the
\* candidate.
Keeps(s, t) == IsSession(t) /\ t.workspace = s.workspace /\ t.staged = s.staged

\* Holding an exchange leaves workspace and candidate alone (hold).
LEMMA HoldKeeps ==
  ASSUME NEW s, IsSession(s), NEW a
  PROVE  Keeps(s, hold(s, a).session) /\ hold(s, a).reply \in {"held", "queued"}
BY DEF hold, Keeps, IsSession, Fields

\* So does queueing an attempt (enqueue).
LEMMA EnqueueKeeps ==
  ASSUME NEW s, IsSession(s), NEW a, NEW kind
  PROVE  Keeps(s, enqueue(s, a, kind))
<1> DEFINE queue == Append(s.queue, a)
           metadata == [s.metadata EXCEPT ![a] = kind]
<1>1. enqueue(s, a, kind) = [s EXCEPT !.queue = queue, !.metadata = metadata]
  BY DEF enqueue, IsSession, Fields
<1> HIDE DEF queue, metadata
<1> QED BY <1>1 DEF Keeps, IsSession, Fields

\* And so does putting attempts back (requeue_admission).
LEMMA RequeueKeeps ==
  ASSUME NEW s, IsSession(s), NEW attempts, NEW metadata
  PROVE  Keeps(s, requeue_admission(s, attempts, metadata))
<1>1. \A queue, data : Keeps(s, [s EXCEPT !.queue = queue, !.metadata = data])
  BY DEF Keeps, IsSession, Fields
<1> QED BY <1>1 DEF requeue_admission

\* The answer to a request says "welcome" only for an admission of the live
\* workspace (queue_admission).
LEMMA AnswerIsRetained ==
  ASSUME NEW s, IsSession(s), NEW a
  PROVE  /\ Keeps(s, queue_admission(s, a).session)
         /\ queue_admission(s, a).reply \in {"welcome", "refused", "queued", "busy", "held"}
         /\ queue_admission(s, a).reply = "welcome" => a \in s.workspace.retained
<1> DEFINE read     == [s EXCEPT !.reads = IF @ < Batch THEN @ + 1 ELSE @]
           verdict  == assess(s.workspace, a)
           unlisted == [read EXCEPT !.pending = @ \ {a}]
           full     == Len(s.queue) >= QueueLimit
<1>1. Keeps(s, read) /\ Keeps(s, unlisted)
  BY DEF Keeps, IsSession, Fields
<1>2. Keeps(s, [read EXCEPT !.inFlight = IF requesters[a] = "open" THEN @ \ {a} ELSE @])
  BY DEF Keeps, IsSession, Fields
<1>3. verdict \in {"refused", "approval", "ready"}
  BY DEF assess
<1> HIDE DEF read, verdict, unlisted, full
<1>4. Keeps(s, hold(read, a).session) /\ hold(read, a).reply \in {"held", "queued"}
  BY <1>1, HoldKeeps DEF Keeps
<1>5. \A kind : Keeps(s, enqueue(unlisted, a, kind))
  BY <1>1, EnqueueKeeps, SMTT(30) DEF Keeps
<1>6. /\ Keeps(s, hold(enqueue(unlisted, a, "ready"), a).session)
      /\ hold(enqueue(unlisted, a, "ready"), a).reply \in {"held", "queued"}
  BY <1>5, HoldKeeps, SMTT(30) DEF Keeps
<1>7. CASE a \in s.workspace.retained
  BY <1>2, <1>7 DEF queue_admission, read
<1>8. CASE a \notin s.workspace.retained /\ OnItsWay(s, a)
  BY <1>4, <1>8 DEF queue_admission, read
<1>9. CASE a \notin s.workspace.retained /\ ~ OnItsWay(s, a) /\ a \in s.pending /\ verdict = "approval"
  BY <1>1, <1>9 DEF queue_admission, read, verdict
<1>10. CASE a \notin s.workspace.retained /\ ~ OnItsWay(s, a) /\ ~ (a \in s.pending /\ verdict = "approval")
  BY <1>1, <1>3, <1>5, <1>6, <1>10 DEF queue_admission, read, verdict, unlisted, full
<1> QED BY <1>7, <1>8, <1>9, <1>10

\* The session t after s was staged, or not.
Staged(s, t) ==
  /\ IsSession(t) /\ t.workspace = s.workspace
  /\ \/ t.staged = s.staged
     \/ \E attempts : t.staged = Candidate("admission", Admitted(s.workspace, attempts))

\* A candidate that admits attempts keeps the admissions there were (Admitted).
LEMMA CandidateShape ==
  ASSUME NEW w, IsWorkspace(w), NEW attempts, NEW kind
  PROVE  /\ IsCandidate(Candidate(kind, Admitted(w, attempts)))
         /\ w.retained \subseteq Candidate(kind, Admitted(w, attempts)).workspace.retained
         /\ Candidate(kind, Admitted(w, attempts)).saved = FALSE
BY DEF Candidate, Admitted, IsCandidate, IsWorkspace

\* Staging the queue changes the candidate, if at all, to one with every
\* admission of the workspace; a poll that stages nothing changes neither
\* (stage_queued_admission).
LEMMA StagingExtends ==
  ASSUME NEW s, IsSession(s)
  PROVE  /\ Staged(s, stage_queued_admission(s).session)
         /\ stage_queued_admission(s).result = "none" => Keeps(s, stage_queued_admission(s).session)
<1> DEFINE taken    == Taken(s)
           ready    == SelectSeq(taken, LAMBDA a : Stageable(s, a))
           deferred == SelectSeq(taken, LAMBDA a : s.metadata[a] = "approval")
           popped   == [s EXCEPT !.reads = 0,
                                 !.queue = SubSeq(@, Len(taken) + 1, Len(@)),
                                 !.metadata = [a \in Attempts |->
                                                 IF a \in Range(taken) THEN "none" ELSE @[a]]]
           restored == requeue_admission(popped, deferred \o ready, s.metadata)
           kept     == requeue_admission(popped, deferred, s.metadata)
           later    == requeue_admission(popped, Tail(deferred), s.metadata)
           valid    == \A a \in Range(ready) : assess(s.workspace, a) = "ready"
           asked    == [later EXCEPT !.pending = @ \cup {Head(deferred)}]
           staged   == [kept EXCEPT !.inFlight = Range(ready),
                                    !.staged = Candidate("admission", Admitted(s.workspace, Range(ready)))]
<1>1. \A reads, queue, metadata :
        Keeps(s, [s EXCEPT !.reads = reads, !.queue = queue, !.metadata = metadata])
  <2> TAKE reads, queue, metadata
  <2> DEFINE t == [s EXCEPT !.reads = reads, !.queue = queue, !.metadata = metadata]
  <2>1. t.workspace = s.workspace /\ t.staged = s.staged
    BY DEF IsSession, Fields
  <2>2. t = [f \in Fields |-> t[f]]
    BY DEF IsSession
  <2> QED BY <2>1, <2>2 DEF Keeps, IsSession
<1>2. Keeps(s, popped)
  <2> DEFINE queue == SubSeq(s.queue, Len(taken) + 1, Len(s.queue))
             metadata == [a \in Attempts |-> IF a \in Range(taken) THEN "none" ELSE s.metadata[a]]
  <2>1. popped = [s EXCEPT !.reads = 0, !.queue = queue, !.metadata = metadata]
    OBVIOUS
  <2> HIDE DEF queue, metadata, popped
  <2> QED BY <1>1, <2>1
<1> HIDE DEF taken, ready, deferred, popped
<1>3. Keeps(s, restored) /\ Keeps(s, kept) /\ Keeps(s, later)
  BY <1>2, RequeueKeeps, SMTT(30) DEF Keeps
<1> HIDE DEF restored, kept, later
<1>4. Keeps(s, asked)
  BY <1>3 DEF Keeps, IsSession, Fields
<1>5. Staged(s, staged)
  <2> DEFINE candidate == Candidate("admission", Admitted(s.workspace, Range(ready)))
  <2>1. IsCandidate(candidate)
    BY CandidateShape DEF IsSession
  <2>2. Staged(s, [kept EXCEPT !.inFlight = Range(ready), !.staged = candidate]) 
    <3>1. \E attempts : candidate = Candidate("admission", Admitted(s.workspace, attempts))
      OBVIOUS
    <3> HIDE DEF candidate
    <3> QED BY <1>3, <2>1, <3>1 DEF Staged, Keeps, IsSession, Fields
  <2> QED BY <2>2
<1> HIDE DEF asked, staged, valid
<1>6. /\ stage_queued_admission(s).session \in {popped, asked, restored, staged}
      /\ stage_queued_admission(s).result = "none" => stage_queued_admission(s).session = popped
  BY DEF stage_queued_admission, popped, asked, restored, staged, taken, ready, deferred, kept, later, valid
<1> QED BY <1>2, <1>3, <1>4, <1>5, <1>6 DEF Staged, Keeps

-----------------------------------------------------------------------------
\* Nobody was told anything yet.
LEMMA InitInv == Init => Inv
<1> SUFFICES ASSUME Init PROVE Inv
  OBVIOUS
<1>1. IsWorkspace(NewWorkspace) /\ NewWorkspace.retained = {}
  BY DEF NewWorkspace, IsWorkspace
<1>2. IsCandidate(NoCandidate) /\ NoCandidate.kind = "none" /\ NoCandidate.saved = FALSE
  BY <1>1 DEF NoCandidate, IsCandidate
<1>3. /\ IsSession(session) /\ session.workspace = NewWorkspace /\ session.staged = NoCandidate
  BY <1>1, <1>2 DEF Init, Fresh, IsSession, Fields
<1> QED BY <1>1, <1>2, <1>3 DEF Init, Inv, WorkspaceExtends

\* A step that only moves requests about, or stages a candidate that has every
\* admission of the workspace, tells nobody anything.
LEMMA SessionStep ==
  ASSUME Inv, IsSession(session'), session'.workspace = session.workspace, WorkspaceExtends(session'),
         session'.staged = session.staged \/ session'.staged.saved = FALSE,
         disk' = disk, requesters' = requesters, pushes' = pushes
  PROVE  Inv'
BY DEF Inv, WorkspaceExtends

\* The same for a step of one requester that is told no result.
LEMMA RequesterStep ==
  ASSUME Inv, session' = session, disk' = disk, pushes' \subseteq pushes, NEW a, NEW told,
         requesters' = [requesters EXCEPT ![a] = told],
         told = "welcomed" => told = requesters[a] \/ a \in pushes
  PROVE  Inv'
<1>1. requesters' = [b \in Attempts |-> requesters'[b]]
  BY DEF Inv
<1>2. ASSUME NEW b \in Attempts, requesters'[b] = "welcomed" PROVE b \in session.workspace.retained
  BY <1>2 DEF Inv
<1> QED BY <1>1, <1>2 DEF Inv, WorkspaceExtends

\* Every step of the session, its host and its requesters keeps the invariant.
LEMMA NextInv == Inv /\ [Next]_vars => Inv'
<1> SUFFICES ASSUME Inv, [Next]_vars PROVE Inv'
  OBVIOUS
<1>s. IsSession(session) /\ WorkspaceExtends(session) /\ IsWorkspace(session.workspace)
  BY DEF Inv, IsSession
<1>1. ASSUME NEW s, Staged(session, s), ~ Busy(session), session' = s,
             disk' = disk, requesters' = requesters, pushes' = pushes
      PROVE  Inv'
  <2>1. CASE s.staged = session.staged
    BY <1>1, <2>1, SessionStep DEF Staged, WorkspaceExtends, Busy
  <2>2. CASE \E attempts : s.staged = Candidate("admission", Admitted(session.workspace, attempts))
    <3>1. s.staged.saved = FALSE /\ session.workspace.retained \subseteq s.staged.workspace.retained
      BY <1>s, <2>2, CandidateShape
    <3> QED BY <1>1, <3>1, SessionStep DEF Staged, WorkspaceExtends
  <2> QED BY <1>1, <2>1, <2>2 DEF Staged
<1>2. ASSUME Triggered.result = "none" PROVE Keeps(session, Triggered.session)
  BY <1>s, <1>2, StagingExtends DEF Triggered, Keeps
<1>3. CASE PollStagesOnCount
  <2>1. ~ Busy(session) /\ session' = stage_queued_admission(session).session
    BY <1>3 DEF PollStagesOnCount, Triggered
  <2> QED BY <1>s, <1>1, <1>3, <2>1, StagingExtends DEF PollStagesOnCount
<1>4. CASE PollStagesIdle
  <2>1. Keeps(session, Triggered.session)
    BY <1>2, <1>4 DEF PollStagesIdle
  <2>2. Staged(Triggered.session, stage_queued_admission(Triggered.session).session)
    BY <2>1, StagingExtends DEF Keeps
  <2>3. Staged(session, session')
    BY <1>4, <2>1, <2>2 DEF PollStagesIdle, Staged, Keeps
  <2> QED BY <1>1, <1>4, <2>3 DEF PollStagesIdle
<1>5. CASE PollReads
  <2> DEFINE a == Head(arrivals)
             answer == queue_admission(Triggered.session, a)
  <2>1. Keeps(session, Triggered.session)
    BY <1>2, <1>5 DEF PollReads
  <2>2. /\ Keeps(Triggered.session, answer.session)
        /\ answer.reply \in {"welcome", "refused", "queued", "busy", "held"}
        /\ answer.reply = "welcome" => a \in session.workspace.retained
    BY <2>1, AnswerIsRetained DEF Keeps
  <2>3. Told(answer.reply) = "welcomed" => a \in session.workspace.retained
    BY <2>2, SMTT(30) DEF Told
  <2>4. /\ session' = answer.session
        /\ requesters' = IF requesters[a] = "open"
                         THEN [requesters EXCEPT ![a] = Told(answer.reply)] ELSE requesters
        /\ disk' = disk /\ pushes' = pushes
    BY <1>5 DEF PollReads
  <2> HIDE DEF a, answer
  <2>5. Keeps(session, session')
    BY <2>1, <2>2, <2>4 DEF Keeps
  <2>6. requesters' = [b \in Attempts |-> requesters'[b]]
    BY <2>4 DEF Inv
  <2>7. \A b \in Attempts : requesters'[b] = "welcomed" => b \in session.workspace.retained
    BY <2>3, <2>4 DEF Inv
  <2> QED BY <2>4, <2>5, <2>6, <2>7 DEF Inv, Keeps, WorkspaceExtends
<1>6. CASE SaveCandidate
  <2>1. /\ IsSession(session') /\ session'.workspace = session.workspace
        /\ session'.staged.workspace = session.staged.workspace /\ session'.staged.kind = session.staged.kind
    BY <1>s, <1>6 DEF SaveCandidate, IsSession, IsCandidate, Fields
  <2>2. disk' = session.staged.workspace /\ session.workspace.retained \subseteq disk'.retained
    BY <1>s, <1>6 DEF SaveCandidate, WorkspaceExtends, Busy
  <2>3. IsWorkspace(disk')
    BY <1>s, <2>2 DEF IsSession, IsCandidate
  <2> QED BY <1>6, <2>1, <2>2, <2>3 DEF SaveCandidate, Inv, WorkspaceExtends
<1>7. CASE AdoptAdmission
  <2> DEFINE w        == session.staged.workspace
             taken    == IF session.staged.kind = "decision" THEN {} ELSE session.inFlight
             results  == taken \cap w.retained
             answered == {a \in results \cap session.held : Open(a)}
             dropped  == {a \in (taken \ results) \cap session.held : Open(a)}
  <2>1. disk = w /\ IsWorkspace(w) /\ session.workspace.retained \subseteq w.retained
    BY <1>s, <1>7 DEF AdoptAdmission, Inv, require_committed, IsSession, IsCandidate, WorkspaceExtends, Busy
  <2>2. IsCandidate(NoCandidate) /\ NoCandidate.kind = "none" /\ NoCandidate.saved = FALSE
    BY DEF NoCandidate, IsCandidate, NewWorkspace, IsWorkspace
  <2>3. IsSession(session') /\ session'.workspace = w /\ session'.staged = NoCandidate
    <3> DEFINE inFlight == session.inFlight \ taken
               held == session.held \ taken
               pending == session.pending \ Decided(session)
    <3>1. session' = [session EXCEPT !.workspace = w, !.staged = NoCandidate, !.inFlight = inFlight,
                                     !.held = held, !.pending = pending, !.stagedApproval = {}]
      BY <1>7 DEF AdoptAdmission
    <3> HIDE DEF w, inFlight, held, pending
    <3>2. session'.workspace = w /\ session'.staged = NoCandidate
      BY <1>s, <3>1 DEF IsSession, Fields
    <3>3. session' = [f \in Fields |-> session'[f]]
      BY <1>s, <3>1 DEF IsSession
    <3> QED BY <2>1, <2>2, <3>2, <3>3 DEF IsSession
  <2>4. /\ requesters' = [a \in Attempts |-> CASE a \in answered -> "welcomed"
                                               [] a \in dropped -> "idle"
                                               [] OTHER -> requesters[a]]
        /\ pushes' = pushes \cup (results \ answered) /\ disk' = disk
    BY <1>7 DEF AdoptAdmission
  <2>5. answered \subseteq w.retained /\ results \subseteq w.retained
    OBVIOUS
  <2> HIDE DEF w, results, answered, dropped
  <2>6. requesters' = [a \in Attempts |-> requesters'[a]]
    BY <2>4, SMTT(30)
  <2>7. ASSUME NEW a \in Attempts, requesters'[a] = "welcomed" PROVE a \in w.retained
    <3>1. a \in answered \/ requesters[a] = "welcomed"
      BY <2>4, <2>7
    <3> QED BY <2>1, <2>5, <3>1 DEF Inv
  <2>8. pushes' \subseteq w.retained
    BY <2>1, <2>4, <2>5 DEF Inv
  <2> QED BY <2>1, <2>2, <2>3, <2>4, <2>6, <2>7, <2>8 DEF Inv, WorkspaceExtends
<1>8. CASE DiscardWorkspaceCandidate
  <2>1. IsCandidate(NoCandidate) /\ NoCandidate.kind = "none" /\ NoCandidate.saved = FALSE
    BY DEF NoCandidate, IsCandidate, NewWorkspace, IsWorkspace
  <2>2. IsSession(session') /\ session'.workspace = session.workspace /\ session'.staged = NoCandidate
    BY <1>s, <1>8, <2>1 DEF DiscardWorkspaceCandidate, IsSession, Fields
  <2> QED BY <1>8, <2>1, <2>2, SessionStep DEF DiscardWorkspaceCandidate, WorkspaceExtends
<1>9. CASE ApplicationArrives \/ ApplicationAcknowledged
  <2>1. Keeps(session, session')
    BY <1>s, <1>9 DEF ApplicationArrives, ApplicationAcknowledged, Keeps, IsSession, Fields
  <2> QED BY <1>s, <1>9, <2>1, SessionStep DEF ApplicationArrives, ApplicationAcknowledged, Keeps, WorkspaceExtends
<1>10. CASE Crash
  <2>1. IsCandidate(NoCandidate) /\ NoCandidate.kind = "none" /\ NoCandidate.saved = FALSE
    BY DEF NoCandidate, IsCandidate, NewWorkspace, IsWorkspace
  <2>2. IsSession(session') /\ session'.workspace = disk /\ session'.staged = NoCandidate
    BY <1>10, <2>1 DEF Crash, Fresh, Inv, IsSession, Fields
  <2>3. requesters' = [a \in Attempts |-> IF requesters[a] = "open" THEN "idle" ELSE requesters[a]]
        /\ disk' = disk /\ pushes' = {}
    BY <1>10 DEF Crash
  <2> QED BY <2>1, <2>2, <2>3 DEF Inv, WorkspaceExtends
<1>11. ASSUME NEW a \in Attempts, StageAdmission(a) PROVE Inv'
  <2> DEFINE candidate == Candidate("admission", Admitted(session.workspace, {a}))
  <2>1. /\ IsCandidate(candidate) /\ session.workspace.retained \subseteq candidate.workspace.retained
        /\ candidate.saved = FALSE
    BY <1>s, CandidateShape
  <2>2. session' = [session EXCEPT !.staged = candidate] /\ disk' = disk /\ requesters' = requesters
        /\ pushes' = pushes
    BY <1>11 DEF StageAdmission
  <2> HIDE DEF candidate
  <2>3. IsSession(session') /\ session'.workspace = session.workspace /\ session'.staged = candidate
    BY <1>s, <2>1, <2>2 DEF IsSession, Fields
  <2> QED BY <2>1, <2>2, <2>3, SessionStep DEF WorkspaceExtends
<1>12. ASSUME NEW a \in Attempts, NEW field \in {"approved", "declined"}, StageDecision(a, field) PROVE Inv'
  <2> DEFINE w == [session.workspace EXCEPT ![field] = @ \cup {a}]
             candidate == Candidate("decision", w)
  <2>1. IsWorkspace(w) /\ w.retained = session.workspace.retained
    BY <1>s, SMTT(30) DEF IsWorkspace
  <2>2. session' = [session EXCEPT !.staged = candidate, !.stagedApproval = {a}]
        /\ disk' = disk /\ requesters' = requesters /\ pushes' = pushes
    BY <1>12 DEF StageDecision
  <2> HIDE DEF w
  <2>3. IsCandidate(candidate) /\ candidate.workspace = w /\ candidate.saved = FALSE
    BY <2>1 DEF Candidate, IsCandidate
  <2> HIDE DEF candidate
  <2>4. IsSession(session') /\ session'.workspace = session.workspace /\ session'.staged = candidate
    BY <1>s, <2>2, <2>3 DEF IsSession, Fields
  <2> QED BY <2>1, <2>2, <2>3, <2>4, SessionStep DEF WorkspaceExtends
<1>13. ASSUME NEW a \in Attempts, StageReceivedStep(a) PROVE Inv'
  <2> DEFINE w == [session.workspace EXCEPT !.members = @ \cup {a}]
             candidate == Candidate("received", w)
  <2>1. IsWorkspace(w) /\ w.retained = session.workspace.retained
    BY <1>s, SMTT(30) DEF IsWorkspace
  <2>2. session' = [session EXCEPT !.staged = candidate]
        /\ disk' = disk /\ requesters' = requesters /\ pushes' = pushes
    BY <1>13 DEF StageReceivedStep
  <2> HIDE DEF w
  <2>3. IsCandidate(candidate) /\ candidate.workspace = w /\ candidate.saved = FALSE
    BY <2>1 DEF Candidate, IsCandidate
  <2> HIDE DEF candidate
  <2>4. IsSession(session') /\ session'.workspace = session.workspace /\ session'.staged = candidate
    BY <1>s, <2>2, <2>3 DEF IsSession, Fields
  <2> QED BY <2>1, <2>2, <2>3, <2>4, SessionStep DEF WorkspaceExtends
<1>14. ASSUME NEW a \in Attempts, Ask(a) \/ GiveUp(a) \/ AdmittedElsewhere(a) PROVE Inv'
  <2>1. \E told \in {"open", "idle", "elsewhere"} : requesters' = [requesters EXCEPT ![a] = told]
    BY <1>14 DEF Ask, GiveUp, AdmittedElsewhere
  <2>2. session' = session /\ disk' = disk /\ pushes' \subseteq pushes
    BY <1>14 DEF Ask, GiveUp, AdmittedElsewhere
  <2> QED BY <2>1, <2>2, RequesterStep
<1>15. ASSUME NEW a \in Attempts, PushArrives(a) PROVE Inv'
  <2> DEFINE told == IF requesters[a] \in {"idle", "open"} THEN "welcomed" ELSE requesters[a]
  <2>1. session' = session /\ disk' = disk /\ pushes' \subseteq pushes /\ a \in pushes
        /\ requesters' = [requesters EXCEPT ![a] = told]
    BY <1>15 DEF PushArrives
  <2> HIDE DEF told
  <2> QED BY <2>1, RequesterStep
<1>16. ASSUME NEW a \in Attempts, PushLost(a) \/ InvitationExpires(a) PROVE Inv'
  BY <1>16 DEF PushLost, InvitationExpires, Inv, WorkspaceExtends
<1>17. CASE UNCHANGED vars
  BY <1>17 DEF vars, Inv, WorkspaceExtends
<1> QED
  BY <1>3, <1>4, <1>5, <1>6, <1>7, <1>8, <1>9, <1>10, <1>11, <1>12, <1>13, <1>14, <1>15, <1>16, <1>17 DEF Next, PollAdmission, StageInvitationApproval, StageInvitationDecline

-----------------------------------------------------------------------------
\* A requester that was welcomed, or whose result is on its way, is an
\* admission in the saved workspace: whatever batches are discarded, decided,
\* held back or lost in a restart, no result is told that a restart would not
\* find (AdoptAdmission, queue_admission, queue_admission_push).
THEOREM ResultsStayDurable == Spec => []ResultsAreDurable
<1>1. Inv => ResultsAreDurable
  BY DEF Inv, ResultsAreDurable
<1> QED BY <1>1, InitInv, NextInv, PTL DEF Spec

-----------------------------------------------------------------------------
(* WorkspaceNames. *)

NameFields == {"epoch", "since", "name", "steps", "missing", "base", "checkpoint"}
Revisions(s) == {r.revision : r \in s.steps}

\* What one member holds, up to the epoch: each record it retains has a
\* revision of its own, none above the name it holds.
Accounted(s) ==
  /\ DOMAIN s = NameFields
  /\ s.epoch \in Nat /\ s.since \in Nat /\ s.since <= s.epoch
  /\ s.base \in Nat /\ s.missing \in Nat /\ s.name.revision \in Nat
  /\ IsFiniteSet(Revisions(s))
  /\ \A r \in s.steps : /\ r.revision \in Nat /\ r.revision <= s.name.revision
                        /\ r.previous.revision \in Nat /\ r.revision = r.previous.revision + 1
  /\ \A r, q \in s.steps : r.revision = q.revision => r = q
  /\ s.name.revision = s.base + s.missing + Cardinality(Revisions(s))
  /\ s.checkpoint # NoCheckpoint => s.checkpoint.state = s.name

\* An answer offers at most one record, and checkpoints of a known revision.
Answer(q) ==
  q # NoReply => /\ \A r, x \in q.record : r = x
                 /\ \A c, d \in q.checkpoint : c.state.revision \in Nat /\ c = d

CaseSet == [rosters : Rosters, renames : Nat, losses : Nat]

\* The inductive invariant.  An epoch that adds a member follows the one in
\* which the invitation was issued.
BooksInv ==
  /\ scene \in CaseSet /\ top \in 1 .. Len(scene.rosters)
  /\ DOMAIN view = Members /\ DOMAIN reply = Members
  /\ \A m \in Members : Accounted(view[m]) /\ view[m].epoch <= top /\ Answer(reply[m])
  /\ Accounted(invited) /\ invited.epoch <= top
  /\ \A e \in 2 .. top :
       ~ (Roster(e) \subseteq Roster(e - 1)) => 0 < invited.epoch /\ invited.epoch < e

\* A new record adds its revision to those a member has and to nothing else
\* (prepare_workspace_name_update).
LEMMA UpdateAccounted ==
  ASSUME NEW s, NEW r, Accounted(s), r.revision = s.name.revision + 1, r.previous = s.name
  PROVE  Accounted(prepare_workspace_name_update(s, r))
<1> DEFINE t == prepare_workspace_name_update(s, r)
<1>1. /\ DOMAIN t = NameFields /\ t.name = r /\ t.steps = s.steps \cup {r} /\ t.checkpoint = NoCheckpoint
      /\ t.epoch = s.epoch /\ t.since = s.since /\ t.base = s.base /\ t.missing = s.missing
  BY DEF prepare_workspace_name_update, Accounted, NameFields
<1>2. Revisions(t) = Revisions(s) \cup {s.name.revision + 1}
  BY <1>1 DEF Revisions
<1>3. s.name.revision \in Nat /\ s.name.revision + 1 \notin Revisions(s)
  <2>1. s.name.revision \in Nat /\ \A x \in s.steps : x.revision \in Nat /\ x.revision <= s.name.revision
    BY DEF Accounted
  <2>2. \A x \in s.steps : x.revision # s.name.revision + 1
    BY <2>1, SMTT(30)
  <2> QED BY <2>1, <2>2 DEF Revisions
<1>4. IsFiniteSet(Revisions(t)) /\ Cardinality(Revisions(t)) = Cardinality(Revisions(s)) + 1
  <2>1. IsFiniteSet(Revisions(s))
    BY DEF Accounted
  <2>2. \A S, x : IsFiniteSet(S) /\ x \notin S =>
          IsFiniteSet(S \cup {x}) /\ Cardinality(S \cup {x}) = Cardinality(S) + 1
    BY FS_AddElement
  <2>3. LET S == Revisions(s) \cup {s.name.revision + 1}
        IN  IsFiniteSet(S) /\ Cardinality(S) = Cardinality(Revisions(s)) + 1
    BY <2>1, <2>2, <1>3
  <2> HIDE DEF t
  <2> QED BY <2>3, <1>2
<1>5. Cardinality(Revisions(s)) \in Nat
  BY FS_CardinalityType DEF Accounted
<1>6. \A x \in t.steps : /\ x.revision \in Nat /\ x.revision <= t.name.revision
                         /\ x.previous.revision \in Nat /\ x.revision = x.previous.revision + 1
  BY <1>1, <1>3, SMTT(30) DEF Accounted
<1>7. \A x, y \in t.steps : x.revision = y.revision => x = y
  <2>1. \A x \in s.steps : x.revision # r.revision
    BY <1>3 DEF Revisions
  <2>2. \A x, y \in s.steps : x.revision = y.revision => x = y
    BY DEF Accounted
  <2> QED BY <2>1, <2>2, <1>1
<1>8. t.name.revision = t.base + t.missing + Cardinality(Revisions(t))
  BY <1>1, <1>4, <1>5, SMTT(30) DEF Accounted
<1> HIDE DEF t
<1>9. Accounted(t)
  BY <1>1, <1>3, <1>4, <1>6, <1>7, <1>8 DEF Accounted
<1> QED BY <1>9 DEF t

\* A checkpoint adds the revisions it passes to those that are missing
\* (prepare_workspace_name_checkpoint).
LEMMA CheckpointAccounted ==
  ASSUME NEW s, NEW c, Accounted(s), c.state.revision \in Nat, c.state.revision > s.name.revision
  PROVE  Accounted(prepare_workspace_name_checkpoint(s, c))
<1> DEFINE t == prepare_workspace_name_checkpoint(s, c)
<1>1. /\ DOMAIN t = NameFields /\ t.name = c.state /\ t.steps = s.steps /\ t.checkpoint = c
      /\ t.epoch = s.epoch /\ t.since = s.since /\ t.base = s.base
      /\ t.missing = s.missing + c.state.revision - s.name.revision
  BY DEF prepare_workspace_name_checkpoint, Accounted, NameFields
<1>2. Revisions(t) = Revisions(s)
  BY <1>1 DEF Revisions
<1>3. Cardinality(Revisions(s)) \in Nat
  BY FS_CardinalityType DEF Accounted
<1>4. t.missing \in Nat /\ t.name.revision = t.base + t.missing + Cardinality(Revisions(t))
  BY <1>1, <1>2, <1>3, SMTT(30) DEF Accounted
<1>5. \A x \in t.steps : /\ x.revision \in Nat /\ x.revision <= t.name.revision
                         /\ x.previous.revision \in Nat /\ x.revision = x.previous.revision + 1
  BY <1>1, SMTT(30) DEF Accounted
<1> HIDE DEF t
<1>6. Accounted(t)
  BY <1>1, <1>2, <1>4, <1>5 DEF Accounted
<1> QED BY <1>6 DEF t

\* A later epoch leaves the names alone (accept, commit and prepare_workspace).
LEMMA EpochAccounted ==
  ASSUME NEW s, NEW e \in Nat, Accounted(s), s.epoch <= e
  PROVE  Accounted([s EXCEPT !.epoch = e])
<1> DEFINE t == [s EXCEPT !.epoch = e]
<1>1. /\ DOMAIN t = NameFields /\ t.name = s.name /\ t.steps = s.steps /\ t.checkpoint = s.checkpoint
      /\ t.epoch = e /\ t.since = s.since /\ t.base = s.base /\ t.missing = s.missing
  BY DEF Accounted, NameFields
<1>2. Revisions(t) = Revisions(s)
  BY <1>1 DEF Revisions
<1> HIDE DEF t
<1>3. Accounted(t)
  BY <1>1, <1>2, SMTT(30) DEF Accounted
<1> QED BY <1>3 DEF t

\* A member starts with the name it is founded on and nothing missing
\* (initialize_name_checkpoint).
LEMMA FoundedAccounted ==
  ASSUME NEW e \in Nat, NEW state, state.revision \in Nat
  PROVE  Accounted(Founded(e, state))
<1> DEFINE t == Founded(e, state)
<1>1. /\ DOMAIN t = NameFields /\ t.name = state /\ t.steps = {} /\ t.checkpoint = NoCheckpoint
      /\ t.epoch = e /\ t.since = e /\ t.base = state.revision /\ t.missing = 0
  BY DEF Founded, NameFields
<1>2. Revisions(t) = {}
  BY <1>1 DEF Revisions
<1>3. IsFiniteSet(Revisions(t)) /\ Cardinality(Revisions(t)) = 0
  BY <1>2, FS_EmptySet
<1> HIDE DEF t
<1>4. Accounted(t)
  BY <1>1, <1>3, SMTT(30) DEF Accounted
<1> QED BY <1>4 DEF t

\* A checkpoint of the name held may be kept beside it (prepare_workspace_name).
LEMMA SignedAccounted ==
  ASSUME NEW s, NEW c, Accounted(s), c.state = s.name
  PROVE  Accounted([s EXCEPT !.checkpoint = c])
<1> DEFINE t == [s EXCEPT !.checkpoint = c]
<1>1. /\ DOMAIN t = NameFields /\ t.name = s.name /\ t.steps = s.steps /\ t.checkpoint = c
      /\ t.epoch = s.epoch /\ t.since = s.since /\ t.base = s.base /\ t.missing = s.missing
  BY DEF Accounted, NameFields
<1>2. Revisions(t) = Revisions(s)
  BY <1>1 DEF Revisions
<1> HIDE DEF t
<1>3. Accounted(t)
  BY <1>1, <1>2 DEF Accounted
<1> QED BY <1>3 DEF t

\* Whatever of an answer a member takes, its books stay right and its epoch the
\* same (PollMembershipUpdate).
LEMMA LearnedAccounted ==
  ASSUME NEW s, NEW q, Accounted(s), q # NoReply, Answer(q)
  PROVE  Accounted(Learned(s, q)) /\ Learned(s, q).epoch = s.epoch
<1>1. CASE \E r \in q.record : Extends(s, r)
  <2> DEFINE r == CHOOSE r \in q.record : TRUE
  <2>1. r \in q.record /\ Extends(s, r)
    BY <1>1 DEF Answer
  <2>2. Learned(s, q) = prepare_workspace_name_update(s, r)
    BY <1>1 DEF Learned
  <2>3. Accounted(prepare_workspace_name_update(s, r))
    BY <2>1, UpdateAccounted DEF Extends
  <2>4. prepare_workspace_name_update(s, r).epoch = s.epoch
    BY DEF prepare_workspace_name_update, Accounted, NameFields
  <2> QED BY <2>2, <2>3, <2>4
<1>2. CASE ~ (\E r \in q.record : Extends(s, r)) /\ \E c \in q.checkpoint : Advances(s, c)
  <2> DEFINE c == CHOOSE c \in q.checkpoint : TRUE
  <2>1. c \in q.checkpoint /\ Advances(s, c) /\ c.state.revision \in Nat
    BY <1>2 DEF Answer
  <2>2. Learned(s, q) \in {s, prepare_workspace_name_checkpoint(s, c)}
    BY <1>2 DEF Learned
  <2>3. Accounted(prepare_workspace_name_checkpoint(s, c))
    BY <2>1, CheckpointAccounted DEF Advances
  <2>4. prepare_workspace_name_checkpoint(s, c).epoch = s.epoch
    BY DEF prepare_workspace_name_checkpoint, Accounted, NameFields
  <2> QED BY <2>2, <2>3, <2>4
<1>3. CASE ~ (\E r \in q.record : Extends(s, r)) /\ ~ (\E c \in q.checkpoint : Advances(s, c))
  BY <1>3 DEF Learned
<1> QED BY <1>1, <1>2, <1>3

\* What a member answers is well formed (answer_query): the record after a name
\* is one, and the checkpoint is of the name the member has.
LEMMA AnswersAreSound ==
  ASSUME BooksInv, NEW p \in Members, NEW after
  PROVE  /\ \A r, q \in next_workspace_name(view[p], after) : r = q
         /\ \A c, d \in workspace_name_checkpoint(p) : c.state.revision \in Nat /\ c = d
<1>1. Accounted(view[p])
  BY DEF BooksInv
<1>2. \A r, q \in next_workspace_name(view[p], after) : r = q
  BY <1>1, SMTT(30) DEF next_workspace_name, Accounted
<1>3. \A c \in workspace_name_checkpoint(p) : c.state = view[p].name
  BY SMTT(30) DEF workspace_name_checkpoint, sign_workspace_name_checkpoint
<1>4. \A c, d \in workspace_name_checkpoint(p) : c = d
  BY DEF workspace_name_checkpoint
<1> QED BY <1>1, <1>2, <1>3, <1>4 DEF Accounted

\* The workspace of the founders, and nobody invited, is accounted for (NamesInit).
LEMMA InitBooks == ASSUME NamesInit PROVE BooksInv
<1>1. NoName.revision \in Nat
  BY DEF NoName
<1>2. scene \in CaseSet /\ top \in 1 .. Len(scene.rosters)
  <2>1. scene \in CaseSet /\ top = 1
    BY ScenesAssumption DEF NamesInit, CaseSet
  <2>2. scene.rosters \in Rosters
    BY <2>1 DEF CaseSet
  <2>3. Len(scene.rosters) \in Nat /\ Len(scene.rosters) > 0
    BY <2>2, SMTT(30) DEF Rosters
  <2> QED BY <2>1, <2>3, SMTT(30)
<1>3. Accounted(Founded(0, NoName)) /\ Accounted(Founded(1, NoName))
  BY <1>1, FoundedAccounted
<1>4. \A e \in Nat : Founded(e, NoName).epoch = e
  BY DEF Founded
<1>5. \A m \in Members : view[m] \in {Founded(0, NoName), Founded(1, NoName)}
  BY DEF NamesInit
<1>6. \A m \in Members : Accounted(view[m]) /\ view[m].epoch <= top
  BY <1>3, <1>4, <1>5, SMTT(30) DEF NamesInit
<1>7. \A m \in Members : Answer(reply[m])
  BY DEF NamesInit, Answer
<1>8. Accounted(invited) /\ invited.epoch <= top
  BY <1>3, <1>4, SMTT(30) DEF NamesInit
<1>9. DOMAIN view = Members /\ DOMAIN reply = Members /\ 2 .. top = {}
  BY SMTT(30) DEF NamesInit
<1> QED BY <1>2, <1>6, <1>7, <1>8, <1>9 DEF BooksInv

\* A step that changes what one member holds, and neither epochs, answers nor
\* the invitation.
LEMMA ViewStep ==
  ASSUME BooksInv, NEW m \in Members, NEW t, view' = [view EXCEPT ![m] = t],
         Accounted(t), t.epoch <= top, scene' \in CaseSet, scene'.rosters = scene.rosters,
         UNCHANGED <<top, invited>>,
         DOMAIN reply' = Members, \A x \in Members : Answer(reply'[x])
  PROVE  BooksInv'
<1>1. DOMAIN view' = Members /\ \A x \in Members : Accounted(view'[x]) /\ view'[x].epoch <= top'
  BY DEF BooksInv
<1>2. \A e : Roster(e)' = Roster(e)
  BY DEF Roster
<1>3. \A e \in 2 .. top' :
        ~ (Roster(e)' \subseteq Roster(e - 1)') => 0 < invited'.epoch /\ invited'.epoch < e
  BY <1>2 DEF BooksInv
<1>4. scene' \in CaseSet /\ top' \in 1 .. Len(scene'.rosters) /\ Accounted(invited')
      /\ invited'.epoch <= top'
  BY DEF BooksInv
<1> QED BY <1>1, <1>3, <1>4 DEF BooksInv

\* Every step keeps the invariant (NamesNext).
LEMMA NextBooks == ASSUME BooksInv, [NamesNext]_nameVars PROVE BooksInv'
<1>a. scene \in CaseSet /\ DOMAIN reply = Members /\ \A x \in Members : Answer(reply[x])
  BY DEF BooksInv
<1>b. Answer(NoReply)
  BY DEF Answer
<1>1. ASSUME NEW m \in Members, prepare_workspace_name(m) PROVE BooksInv'
  <2> DEFINE s == view[m]
             record == [revision |-> s.name.revision + 1, previous |-> s.name, author |-> m,
                        epoch |-> s.epoch]
             u == prepare_workspace_name_update(s, record)
             t == [u EXCEPT !.checkpoint = [state |-> record, author |-> m, epoch |-> s.epoch]]
  <2>1. Accounted(s) /\ s.epoch <= top
    BY DEF BooksInv
  <2>2. Accounted(u)
    BY <2>1, UpdateAccounted
  <2>3. u.name = record /\ u.epoch = s.epoch
    BY <2>1 DEF prepare_workspace_name_update, Accounted, NameFields
  <2>4. Accounted(t)
    BY <2>2, <2>3, SignedAccounted
  <2>5. t.epoch = s.epoch
    BY <2>2, <2>3 DEF Accounted, NameFields
  <2>6. view' = [view EXCEPT ![m] = t] /\ UNCHANGED <<top, invited, reply>>
    BY <1>1 DEF prepare_workspace_name
  <2>7. scene' \in CaseSet /\ scene'.rosters = scene.rosters
    BY <1>1, <1>a, SMTT(30) DEF prepare_workspace_name, CaseSet
  <2> HIDE DEF t
  <2> QED BY <2>1, <2>4, <2>5, <2>6, <2>7, <1>a, ViewStep
<1>2. ASSUME NEW m \in Members, issue_checkpoint(m) PROVE BooksInv'
  <2>1. Accounted(view[m]) /\ view[m].epoch <= top
    BY DEF BooksInv
  <2>2. Accounted(invited') /\ invited'.epoch <= top
    <3>1. invited' = Founded(view[m].epoch, view[m].name) /\ view[m].epoch \in Nat
          /\ view[m].name.revision \in Nat
      BY <1>2, <2>1 DEF issue_checkpoint, Accounted
    <3>2. Founded(view[m].epoch, view[m].name).epoch = view[m].epoch
      BY DEF Founded
    <3> QED BY <2>1, <3>1, <3>2, FoundedAccounted
  <2>3. \A e \in 2 .. top : Roster(e) \subseteq Roster(e - 1)
    BY <1>2, SMTT(30) DEF BooksInv, issue_checkpoint
  <2>4. UNCHANGED <<scene, top, view, reply>> /\ \A e : Roster(e)' = Roster(e)
    BY <1>2 DEF issue_checkpoint, Roster
  <2> QED BY <2>2, <2>3, <2>4 DEF BooksInv
<1>3. ASSUME NEW m \in Members, commit(m) PROVE BooksInv'
  <2> DEFINE t == [view[m] EXCEPT !.epoch = top + 1]
  <2>1. Accounted(view[m]) /\ view[m].epoch = top /\ top \in Nat
    BY <1>3, SMTT(30) DEF BooksInv, commit
  <2>a. invited.epoch \in Nat /\ invited.epoch <= top
    BY DEF BooksInv, Accounted
  <2>b. \A x \in Members : Accounted(view[x]) /\ view[x].epoch \in Nat /\ view[x].epoch <= top
    BY DEF BooksInv, Accounted
  <2>2. Accounted(t) /\ t.epoch = top + 1
    <3>1. top + 1 \in Nat /\ view[m].epoch <= top + 1
      BY <2>1, SMTT(30)
    <3>2. Accounted(t)
      BY <2>1, <3>1, EpochAccounted
    <3>3. t.epoch = top + 1
      BY <2>1 DEF Accounted, NameFields
    <3> QED BY <3>2, <3>3
  <2>3. view' = [view EXCEPT ![m] = t] /\ top' = top + 1 /\ UNCHANGED <<scene, invited, reply>>
    BY <1>3 DEF commit
  <2>4. DOMAIN view' = Members /\ \A x \in Members : Accounted(view'[x]) /\ view'[x].epoch <= top'
    <3>1. DOMAIN view = Members
      BY DEF BooksInv
    <3> HIDE DEF t
    <3> QED BY <3>1, <2>1, <2>2, <2>3, <2>b, SMTT(30)
  <2>5. \A e : Roster(e)' = Roster(e)
    BY <2>3 DEF Roster
  <2>6. \A e \in 2 .. top' :
          ~ (Roster(e)' \subseteq Roster(e - 1)') => 0 < invited'.epoch /\ invited'.epoch < e
    <3>1. CASE Roster(top + 1) \subseteq Roster(top)
      BY <3>1, <2>1, <2>3, <2>5, SMTT(30) DEF BooksInv
    <3>2. CASE invited.epoch > 0
      BY <3>2, <2>1, <2>a, <2>3, <2>5, SMTT(30) DEF BooksInv
    <3> QED BY <1>3, <3>1, <3>2 DEF commit
  <2>7. top' \in 1 .. Len(scene'.rosters)
    BY <1>3, <2>3, SMTT(30) DEF BooksInv, commit
  <2> QED BY <2>1, <2>a, <2>3, <2>4, <2>6, <2>7, SMTT(30) DEF BooksInv
<1>4. ASSUME NEW m \in Members, accept(m) PROVE BooksInv'
  <2> DEFINE t == [view[m] EXCEPT !.epoch = view[m].epoch + 1]
  <2>1. Accounted(view[m]) /\ view[m].epoch \in Nat /\ view[m].epoch < top /\ top \in Nat
    <3>1. Accounted(view[m]) /\ view[m].epoch < top /\ top \in Nat
      BY <1>4, SMTT(30) DEF BooksInv, accept
    <3> QED BY <3>1 DEF Accounted
  <2>2. view[m].epoch + 1 \in Nat /\ view[m].epoch <= view[m].epoch + 1 /\ view[m].epoch + 1 <= top
    BY <2>1, SMTT(30)
  <2>3. Accounted(t)
    BY <2>1, <2>2, EpochAccounted
  <2>4. t.epoch = view[m].epoch + 1
    BY <2>1 DEF Accounted, NameFields
  <2>5. view' = [view EXCEPT ![m] = t] /\ UNCHANGED <<scene, top, invited, reply>>
    BY <1>4 DEF accept
  <2> HIDE DEF t
  <2> QED BY <2>2, <2>3, <2>4, <2>5, <1>a, ViewStep
<1>5. ASSUME NEW m \in Members, prepare_workspace(m) PROVE BooksInv'
  <2>1. PICK e \in 2 .. top : /\ m \in Roster(e) \ Roster(e - 1)
                              /\ view' = [view EXCEPT ![m] = [invited EXCEPT !.epoch = e]]
    BY <1>5 DEF prepare_workspace
  <2> DEFINE t == [invited EXCEPT !.epoch = e]
  <2>2. Accounted(invited) /\ invited.epoch \in Nat /\ top \in Nat
    BY SMTT(30) DEF BooksInv, Accounted
  <2>3. e \in Nat /\ invited.epoch <= e /\ e <= top
    BY <2>1, <2>2, SMTT(30) DEF BooksInv
  <2>4. Accounted(t)
    BY <2>2, <2>3, EpochAccounted
  <2>5. t.epoch = e
    BY <2>2 DEF Accounted, NameFields
  <2>6. view' = [view EXCEPT ![m] = t] /\ UNCHANGED <<scene, top, invited, reply>>
    BY <1>5, <2>1 DEF prepare_workspace
  <2> HIDE DEF t
  <2> QED BY <2>3, <2>4, <2>5, <2>6, <1>a, ViewStep
<1>6. ASSUME NEW m \in Members, NEW p \in Members, answer_query(m, p) PROVE BooksInv'
  <2> DEFINE q == [peer |-> p, epoch |-> view[m].epoch, after |-> view[m].name, head |-> view[p].name,
                   record |-> next_workspace_name(view[p], view[m].name),
                   checkpoint |-> workspace_name_checkpoint(p)]
  <2>1. Answer(q)
    BY AnswersAreSound DEF Answer
  <2>2. reply' = [reply EXCEPT ![m] = q] /\ UNCHANGED <<scene, top, view, invited>>
    BY <1>6 DEF answer_query
  <2>3. \A e : Roster(e)' = Roster(e)
    BY <2>2 DEF Roster
  <2> HIDE DEF q
  <2>4. DOMAIN reply' = Members /\ \A x \in Members : Answer(reply'[x])
    BY <2>1, <2>2, <1>a
  <2> QED BY <2>2, <2>3, <2>4 DEF BooksInv
<1>7. ASSUME NEW m \in Members, PollMembershipUpdate(m) PROVE BooksInv'
  <2> DEFINE t == IF Active(m) /\ Current(m) THEN Learned(view[m], reply[m]) ELSE view[m]
  <2>1. Accounted(view[m]) /\ view[m].epoch <= top /\ DOMAIN view = Members
    BY DEF BooksInv
  <2>2. Accounted(t) /\ t.epoch = view[m].epoch
    BY <1>7, <1>a, <2>1, LearnedAccounted DEF PollMembershipUpdate
  <2>3. UNCHANGED <<scene, top, invited>> /\ reply' = [reply EXCEPT ![m] = NoReply]
    BY <1>7 DEF PollMembershipUpdate
  <2>4. DOMAIN reply' = Members /\ \A x \in Members : Answer(reply'[x])
    BY <2>3, <1>a, <1>b
  <2>5. CASE Active(m) /\ Current(m)
    <3>1. view' = [view EXCEPT ![m] = t]
      BY <1>7, <2>5 DEF PollMembershipUpdate
    <3> HIDE DEF t
    <3> QED BY <2>1, <2>2, <2>3, <2>4, <3>1, <1>a, ViewStep
  <2>6. CASE ~ (Active(m) /\ Current(m))
    <3>1. view' = view /\ \A e : Roster(e)' = Roster(e)
      BY <1>7, <2>3, <2>6 DEF PollMembershipUpdate, Roster
    <3> QED BY <2>3, <2>4, <3>1 DEF BooksInv
  <2> QED BY <2>5, <2>6
<1>8. ASSUME NEW m \in Members, Lost(m) PROVE BooksInv'
  <2>1. UNCHANGED <<top, view, invited>> /\ reply' = [reply EXCEPT ![m] = NoReply]
    BY <1>8 DEF Lost
  <2>2. scene' \in CaseSet /\ scene'.rosters = scene.rosters
    BY <1>8, <1>a, SMTT(30) DEF Lost, CaseSet
  <2>3. DOMAIN reply' = Members /\ \A x \in Members : Answer(reply'[x])
    BY <2>1, <1>a, <1>b
  <2>4. \A e : Roster(e)' = Roster(e)
    BY <2>2 DEF Roster
  <2> QED BY <2>1, <2>2, <2>3, <2>4 DEF BooksInv
<1>9. CASE UNCHANGED nameVars
  <2>1. \A e : Roster(e)' = Roster(e)
    BY <1>9 DEF nameVars, Roster
  <2> QED BY <1>9, <2>1 DEF nameVars, BooksInv
<1> QED BY <1>1, <1>2, <1>3, <1>4, <1>5, <1>6, <1>7, <1>8, <1>9 DEF NamesNext

\* For all members, rosters, renames and losses, the count a member shows as
\* missing (workspace_name_missing_history) is what it has no record of.
THEOREM MissingIsExact == NamesSpec => []MissingHistoryIsCounted
<1>1. NamesInit => BooksInv
  BY InitBooks
<1>2. BooksInv /\ [NamesNext]_nameVars => BooksInv'
  BY NextBooks
<1>3. BooksInv => MissingHistoryIsCounted
  <2> SUFFICES ASSUME BooksInv PROVE MissingHistoryIsCounted
    OBVIOUS
  <2>1. top \in 1 .. Len(scene.rosters) /\ scene.renames \in Nat /\ scene.losses \in Nat
    BY DEF BooksInv, CaseSet
  <2>2. ASSUME NEW m \in Members
        PROVE  /\ view[m].epoch \in 0 .. top /\ view[m].since <= view[m].epoch
               /\ view[m].checkpoint # NoCheckpoint => view[m].checkpoint.state = view[m].name
               /\ reply[m] # NoReply => \A r, q \in reply[m].record : r = q
               /\ view[m].name.revision = view[m].base + view[m].missing
                    + Cardinality({r.revision : r \in view[m].steps})
    <3>1. Accounted(view[m]) /\ view[m].epoch <= top /\ Answer(reply[m]) /\ top \in Nat
      BY SMTT(30) DEF BooksInv
    <3> QED BY <3>1, SMTT(30) DEF Accounted, Answer, Revisions
  <2> QED BY <2>1, <2>2 DEF MissingHistoryIsCounted, NamesTypeOK
<1> QED BY <1>1, <1>2, <1>3, PTL DEF NamesSpec
=============================================================================
