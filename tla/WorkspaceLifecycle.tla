------------------------ MODULE WorkspaceLifecycle ------------------------
(***************************************************************************)
(* The life of a workspace in one session: creating, joining through up to *)
(* three peers, the join's admission exchange, removal, reset, and the     *)
(* record sets that a restart goes by (arachne-runtime/src/lib.rs,         *)
(* persistence.rs, workspace_activity.rs).                                 *)
(*                                                                         *)
(* The record store appears as its content and a flag: after a commit with *)
(* an uncertain outcome the owner's head differs from the file's and every *)
(* further commit is refused (RecordStore, HeadMatches).  Proofs,          *)
(* histories and keys are left out: an admission reply can be staged or    *)
(* not.  A peer is its position in the invitation's list.                  *)
(***************************************************************************)
EXTENDS Integers

CONSTANTS
  NPeers,        \* peers of the invitation, at most three in the code
  Reachable,     \* the peers that answer
  MaxFailures,   \* bound on failed commits
  MaxCrashes     \* bound on process restarts

PeersAssumption ==
  /\ NPeers \in Nat \ {0} /\ Reachable \subseteq 1 .. NPeers
  /\ MaxFailures \in Nat /\ MaxCrashes \in Nat

VARIABLES
  session,    \* the Session of the runtime
  store,      \* [file, diverged]: the records on disk
  failures,   \* commits that failed so far
  crashes     \* process restarts so far

vars == <<session, store, failures, crashes>>

Peers == 1 .. NPeers
NoPeer == 0
NoRoute == [selected |-> NoPeer, cursor |-> NoPeer]
FirstRoute == [selected |-> NoPeer, cursor |-> 1]
NoExchange == [kind |-> "none", peer |-> NoPeer]

Phases == {"Empty", "Creating", "Joining", "Synchronizing", "Active", "Recovering",
           "Leaving", "Resetting", "Removed", "Failed"}

Successors ==
  [Empty         |-> {"Creating", "Joining", "Active", "Resetting", "Failed"},
   Creating      |-> {"Active", "Failed", "Resetting"},
   Joining       |-> {"Synchronizing", "Failed", "Resetting"},
   Synchronizing |-> {"Active", "Recovering", "Failed", "Resetting"},
   Active        |-> {"Recovering", "Leaving", "Resetting", "Failed"},
   Recovering    |-> {"Active", "Failed", "Resetting"},
   Leaving       |-> {"Removed", "Failed", "Resetting"},
   Resetting     |-> {"Empty", "Failed"},
   Removed       |-> {"Empty", "Resetting"},
   Failed        |-> {"Empty", "Creating", "Joining", "Recovering", "Resetting", "Failed"}]
legal(from, to) == to \in Successors[from]
\* Activity::transition accepts the same phase again.
CanMove(to) == session.phase = to \/ legal(session.phase, to)

-----------------------------------------------------------------------------
\* Record sets.
NoRecords == [kind |-> "none", phase |-> "Empty", pending |-> "none", route |-> NoRoute]
active_records(phase) == [NoRecords EXCEPT !.kind = "active", !.phase = phase]
pending_records(pending, route) ==
  [kind |-> "pending", phase |-> session.phase, pending |-> pending, route |-> route]
RemovedRecords == [NoRecords EXCEPT !.kind = "removed"]
ResetRecords == [NoRecords EXCEPT !.kind = "reset", !.phase = "Resetting"]

\* NativeStore::commit of one record set; `ok' is what it reports.
Commit(records, ok) ==
  \/ /\ ok /\ ~ store.diverged
     /\ store' = [store EXCEPT !.file = records]
     /\ UNCHANGED failures
  \/ /\ ~ ok /\ ~ store.diverged
     /\ failures < MaxFailures
     /\ failures' = failures + 1
     /\ store' \in {store, [file |-> records, diverged |-> TRUE]}
  \/ /\ ~ ok /\ store.diverged
     /\ UNCHANGED <<store, failures>>

-----------------------------------------------------------------------------
Fresh ==
  [status |-> "up", phase |-> "Empty", workspace |-> FALSE, pending |-> "none",
   route |-> NoRoute, exchange |-> NoExchange, staged |-> "none", saved |-> FALSE,
   inbound |-> FALSE, attached |-> FALSE]

Init ==
  /\ session = Fresh
  /\ store = [file |-> NoRecords, diverged |-> FALSE]
  /\ failures = 0 /\ crashes = 0

Up == session.status = "up"
\* The gates of execute_in_session: no removal, candidate or held offer waits.
Unstaged == Up /\ session.staged = "none" /\ ~ session.inbound
Unowned == Unstaged /\ ~ session.workspace /\ session.pending = "none"

CreateWorkspace ==
  /\ Unowned /\ CanMove("Creating")
  /\ \/ session' = [session EXCEPT !.phase = "Active", !.workspace = TRUE]
     \/ session' = [session EXCEPT !.phase = "Failed"]
  /\ UNCHANGED <<store, failures, crashes>>

\* An invitation may carry its checkpoint and a list of peers.
BeginJoin ==
  /\ Unowned /\ CanMove("Joining")
  /\ \E pending \in {"compact", "ready"}, route \in {NoRoute, FirstRoute} :
       session' = [session EXCEPT !.phase = "Joining", !.pending = pending, !.route = route]
  /\ UNCHANGED <<store, failures, crashes>>

\* The host restores what it saved before native records were enabled.
RestorePendingJoin ==
  /\ Unowned /\ CanMove("Joining")
  /\ \E pending \in {"compact", "ready"} :
       session' = [session EXCEPT !.phase = "Joining", !.pending = pending, !.route = NoRoute]
  /\ UNCHANGED <<store, failures, crashes>>
RestoreWorkspace ==
  /\ Unowned /\ CanMove("Active")
  /\ session' = [session EXCEPT !.phase = "Active", !.workspace = TRUE]
  /\ UNCHANGED <<store, failures, crashes>>

\* Migrates the adopted state into a store that was never written.
enable_record_storage ==
  /\ Unstaged /\ ~ session.attached
  /\ store.file.kind = "none"
  /\ session.workspace \/ session.pending # "none"
  /\ LET records == IF session.workspace THEN active_records(session.phase)
                    ELSE pending_records(session.pending, session.route)
     IN \/ /\ store' = [store EXCEPT !.file = records]
           /\ session' = [session EXCEPT !.attached = TRUE]
           /\ UNCHANGED failures
        \/ /\ failures < MaxFailures
           /\ failures' = failures + 1
           /\ store' \in {store, [store EXCEPT !.file = records]}
           /\ UNCHANGED session
  /\ UNCHANGED crashes

-----------------------------------------------------------------------------
\* Candidates.  Every candidate has a fresh random token; `saved' says that the
\* token of the present one is the last the session knows as committed.
CanStageJoin == Unstaged /\ session.pending = "ready" /\ CanMove("Synchronizing")
JoinStaged(s) == [s EXCEPT !.staged = "join", !.saved = FALSE, !.phase = "Synchronizing"]
Joined(s) ==
  [s EXCEPT !.staged = "none", !.saved = FALSE, !.inbound = FALSE, !.workspace = TRUE,
            !.phase = "Active", !.pending = "none", !.route = NoRoute]

\* The host stages the history that JoinViaPeer fetched.
StageJoin ==
  /\ CanStageJoin
  /\ session' = JoinStaged(session)
  /\ UNCHANGED <<store, failures, crashes>>

\* Any other change of an owned workspace.
StageChange ==
  /\ Unstaged /\ session.workspace
  /\ session' = [session EXCEPT !.staged = "change", !.saved = FALSE]
  /\ UNCHANGED <<store, failures, crashes>>

\* This member leaves or is removed.
stage_removal ==
  /\ Unstaged /\ session.workspace /\ CanMove("Leaving")
  /\ session' = [session EXCEPT !.staged = "removal", !.saved = FALSE, !.phase = "Leaving"]
  /\ UNCHANGED <<store, failures, crashes>>

CandidateRecords ==
  CASE session.staged = "join" -> active_records("Active")
    [] session.staged = "change" -> active_records(session.phase)
    [] session.staged = "removal" -> RemovedRecords

save_candidate ==
  /\ Up /\ session.attached /\ session.staged # "none"
  /\ ~ session.saved
  /\ \E ok \in BOOLEAN :
       /\ Commit(CandidateRecords, ok)
       /\ session' = [session EXCEPT !.saved = ok]
  /\ UNCHANGED crashes

require_committed == session.attached => session.saved

AdoptJoin ==
  /\ Up /\ session.staged = "join" /\ require_committed
  /\ session' = Joined(session)
  /\ UNCHANGED <<store, failures, crashes>>
AdoptChange ==
  /\ Up /\ session.staged = "change" /\ require_committed
  /\ session' = [session EXCEPT !.staged = "none", !.saved = FALSE]
  /\ UNCHANGED <<store, failures, crashes>>
\* Adopting a removal ends the session.
AdoptRemoval ==
  /\ Up /\ session.staged = "removal" /\ require_committed
  /\ session' = [Fresh EXCEPT !.status = "ended"]
  /\ store' = [store EXCEPT !.diverged = FALSE]
  /\ UNCHANGED <<failures, crashes>>

\* Mutant of CanDiscard: a removal can be discarded, too.
CanDiscardRemoval == Up /\ session.staged # "none" /\ ~ session.inbound
CanDiscard == Up /\ session.staged \in {"join", "change"} /\ ~ session.inbound
DiscardWorkspaceCandidate ==
  /\ CanDiscard
  /\ session' = [session EXCEPT !.staged = "none", !.saved = FALSE]
  /\ UNCHANGED <<store, failures, crashes>>

-----------------------------------------------------------------------------
\* DriveJoin.  It runs before the gates, so also while a candidate waits.
Driving == Up /\ session.attached
Routed == session.route.cursor # NoPeer
\* Mutant of advance: the cursor stays where it is.
advanceStays(route) == [route EXCEPT !.selected = NoPeer]
advance(route) == [selected |-> NoPeer, cursor |-> (route.cursor % NPeers) + 1]
Failover(peer) == IF session.route.selected = peer THEN advance(session.route) ELSE session.route
Choice(route) == IF route.selected # NoPeer THEN route.selected ELSE route.cursor
Selected(route) == [route EXCEPT !.selected = Choice(route)]
Sending(peer) == [kind |-> "join", peer |-> peer]

\* A member pushes the admission result; a valid one is staged and its
\* exchange held open until adoption.
DriveOffer(peer) ==
  /\ Driving /\ Routed
  /\ session.route.selected \in {NoPeer, peer}
  /\ LET aborted == IF session.exchange.kind = "join"
                    THEN [session EXCEPT !.exchange = NoExchange] ELSE session
     IN \/ /\ CanStageJoin
           /\ session' = [JoinStaged(aborted) EXCEPT !.inbound = TRUE]
        \/ session' = aborted
  /\ UNCHANGED <<store, failures, crashes>>

\* A compact invitation needs its checkpoint first.
DriveCheckpoint ==
  /\ Driving /\ Routed /\ session.pending = "compact" /\ session.exchange.kind = "none"
  /\ LET route == Selected(session.route)
     IN \E ok \in BOOLEAN :
          /\ Commit(pending_records("compact", route), ok)
          /\ session' = [session EXCEPT
               !.route = route,
               !.saved = @ /\ ~ ok,
               !.exchange = IF ok THEN [kind |-> "checkpoint", peer |-> route.selected] ELSE @]
  /\ UNCHANGED crashes

\* The checkpoint arrived from the selected peer or a later one; the request
\* follows in the same call.
DriveCheckpointReply(peer) ==
  /\ Driving /\ session.pending = "compact" /\ session.exchange.kind = "checkpoint"
  /\ peer = session.exchange.peer \/ peer >= session.route.cursor
  /\ peer \in Reachable
  /\ LET route == [selected |-> peer, cursor |-> peer]
     IN \E ok \in BOOLEAN :
          /\ Commit(pending_records("ready", route), ok)
          /\ session' = [session EXCEPT
               !.pending = "ready", !.route = route,
               !.saved = @ /\ ~ ok,
               !.exchange = IF ok THEN Sending(peer) ELSE NoExchange]
  /\ UNCHANGED crashes
DriveCheckpointFailed ==
  /\ Driving /\ session.pending = "compact" /\ session.exchange.kind = "checkpoint"
  /\ LET route == Failover(session.exchange.peer)
     IN \E ok \in BOOLEAN :
          /\ Commit(pending_records("compact", route), ok)
          /\ session' = [session EXCEPT
               !.route = route, !.saved = @ /\ ~ ok, !.exchange = NoExchange]
  /\ UNCHANGED crashes

MustSelect(route) == route.selected = NoPeer
\* Select a peer, save the selection, send the request.
DriveSend ==
  /\ Driving /\ Routed /\ session.pending = "ready" /\ session.exchange.kind = "none"
  /\ LET route == Selected(session.route)
     IN \/ /\ ~ MustSelect(session.route)
           /\ session' = [session EXCEPT !.exchange = Sending(route.selected)]
           /\ UNCHANGED <<store, failures>>
        \/ /\ MustSelect(session.route)
           /\ \E ok \in BOOLEAN :
                /\ Commit(pending_records("ready", route), ok)
                /\ session' = [session EXCEPT
                     !.route = route,
                     !.saved = @ /\ ~ ok,
                     !.exchange = IF ok THEN Sending(route.selected) ELSE NoExchange]
  /\ UNCHANGED crashes

Exchanged(peer) ==
  Driving /\ session.pending = "ready" /\ session.exchange = Sending(peer)
\* The connection failed before the request left: fail over, save, and try the
\* next peer in the same call.  When the first save succeeds its records are
\* replaced by those of the second, unless that one is lost.
DriveNotSent(peer) ==
  /\ Exchanged(peer)
  /\ LET next == [session EXCEPT !.route = Failover(peer), !.exchange = NoExchange]
         chosen == Selected(next.route)
     IN \/ /\ Commit(pending_records("ready", next.route), FALSE)
           /\ session' = next
        \/ /\ Commit(pending_records("ready", chosen), TRUE)
           /\ session' = [next EXCEPT !.route = chosen, !.saved = FALSE,
                                      !.exchange = Sending(chosen.selected)]
        \/ /\ ~ store.diverged /\ failures < MaxFailures
           /\ failures' = failures + 1
           /\ store' \in {[store EXCEPT !.file = pending_records("ready", next.route)],
                          [file |-> pending_records("ready", chosen), diverged |-> TRUE]}
           /\ session' = [next EXCEPT !.route = chosen, !.saved = FALSE]
  /\ UNCHANGED crashes
\* No reply, an unusable one, or one that only reports a state.
DriveWaiting(peer) ==
  /\ Exchanged(peer) /\ peer \in Reachable
  /\ session' = [session EXCEPT !.exchange = NoExchange]
  /\ UNCHANGED <<store, failures, crashes>>
\* The admission result: staged, saved and adopted in one call.
DriveReply(peer) ==
  /\ Exchanged(peer) /\ peer \in Reachable
  /\ CanStageJoin
  /\ LET staged == JoinStaged([session EXCEPT !.exchange = NoExchange])
     IN \E ok \in BOOLEAN :
          /\ Commit(active_records("Active"), ok)
          /\ session' = IF ok THEN Joined(staged) ELSE staged
  /\ UNCHANGED crashes
\* A reply that cannot be staged.
DriveUnstageable(peer) ==
  /\ Exchanged(peer) /\ peer \in Reachable
  /\ session.staged # "none"
  /\ session' = [session EXCEPT !.exchange = NoExchange]
  /\ UNCHANGED <<store, failures, crashes>>
\* An exchange that outlived its join.
DriveStale ==
  /\ Driving /\ session.pending = "none" /\ session.exchange.kind = "join"
  /\ session' = [session EXCEPT !.exchange = NoExchange]
  /\ UNCHANGED <<store, failures, crashes>>

DriveJoin ==
  \/ \E peer \in Peers : DriveOffer(peer) \/ DriveCheckpointReply(peer)
  \/ DriveCheckpoint
  \/ DriveCheckpointFailed
  \/ DriveSend
  \/ \E peer \in Peers : DriveNotSent(peer) \/ DriveWaiting(peer) \/ DriveReply(peer) \/ DriveUnstageable(peer)
  \/ DriveStale

-----------------------------------------------------------------------------
\* ResetWorkspace runs before every gate; without its record nothing changes.
ResetWorkspace ==
  /\ Up /\ session # Fresh /\ CanMove("Resetting")
  /\ \/ /\ ~ session.attached
        /\ session' = Fresh
        /\ UNCHANGED <<store, failures>>
     \/ /\ session.attached
        /\ \E ok \in BOOLEAN :
             /\ Commit(ResetRecords, ok)
             /\ session' = IF ok THEN Fresh ELSE session
  /\ UNCHANGED crashes
\* The host removes the directory of a reset workspace.
RemoveDirectory ==
  /\ Up /\ ~ session.attached /\ store.file.kind = "reset"
  /\ store' = [store EXCEPT !.file = NoRecords]
  /\ UNCHANGED <<session, failures, crashes>>

\* The process stops and is started again.
Crash ==
  /\ session.status # "down"
  /\ crashes < MaxCrashes
  /\ crashes' = crashes + 1
  /\ session' = [Fresh EXCEPT !.status = "down"]
  /\ store' = [store EXCEPT !.diverged = FALSE]
  /\ UNCHANGED failures

\* What restore_record_storage accepts.
Restores(records) ==
  \/ records.kind = "pending" /\ records.phase = "Joining"
  \/ records.kind = "removed"
  \/ records.kind = "active" /\ records.phase \in {"Active", "Recovering"}
Restored(records) ==
  IF records.kind = "removed" THEN [Fresh EXCEPT !.status = "ended"]
  ELSE [Fresh EXCEPT !.attached = TRUE, !.phase = records.phase,
                     !.workspace = records.kind = "active", !.pending = records.pending,
                     !.route = records.route]
restore_record_storage ==
  /\ session.status = "down"
  /\ Restores(store.file)
  /\ session' = Restored(store.file)
  /\ UNCHANGED <<store, failures, crashes>>
\* Nothing was saved, or what was saved has been reset.
StartFresh ==
  /\ session.status = "down"
  /\ store.file.kind \in {"none", "reset"}
  /\ session' = Fresh
  /\ UNCHANGED <<store, failures, crashes>>

Next ==
  \/ CreateWorkspace \/ BeginJoin \/ RestorePendingJoin \/ RestoreWorkspace
  \/ enable_record_storage
  \/ StageJoin \/ StageChange \/ stage_removal
  \/ save_candidate
  \/ AdoptJoin \/ AdoptChange \/ AdoptRemoval
  \/ DiscardWorkspaceCandidate
  \/ DriveJoin
  \/ ResetWorkspace \/ RemoveDirectory
  \/ Crash \/ restore_record_storage \/ StartFresh

Spec == Init /\ [][Next]_vars

\* The host keeps driving the join and, of the candidates it stages, saves and
\* adopts one; exchanges are not cut short by pushed offers for ever; a
\* peer that answers again and again answers with the result once.  Fairness
\* never asks for a commit that fails.
Kept == UNCHANGED failures
Fairness ==
  /\ WF_vars((DriveCheckpoint \/ DriveSend) /\ Kept)
  /\ WF_vars(DriveCheckpointFailed /\ Kept)
  /\ \A peer \in Peers \ Reachable : SF_vars(DriveNotSent(peer) /\ Kept)
  /\ \A peer \in Reachable :
        SF_vars(DriveCheckpointReply(peer) /\ Kept) /\ SF_vars(DriveReply(peer) /\ Kept)
  /\ SF_vars(AdoptJoin)
  /\ SF_vars(save_candidate /\ Kept)

FairSpec == Spec /\ Fairness

-----------------------------------------------------------------------------
Routes == [selected : Peers \cup {NoPeer}, cursor : Peers \cup {NoPeer}]
\* The values the variables range over; a session owns a workspace or joins
\* one, and its phase says which.
TypeOK ==
  /\ session.status \in {"up", "ended", "down"} /\ session.phase \in Phases
  /\ session.pending \in {"none", "compact", "ready"} /\ session.route \in Routes
  /\ session.staged \in {"none", "join", "change", "removal"}
  /\ session.saved \in BOOLEAN
  /\ store.file.kind \in {"none", "pending", "active", "removed", "reset"}
  /\ store.file.route \in Routes
  /\ session.workspace => session.pending = "none" /\ session.phase \in {"Active", "Leaving"}
  /\ session.pending # "none" => session.phase \in {"Joining", "Synchronizing"}
  /\ session.staged = "join" => session.pending = "ready" /\ session.phase = "Synchronizing"
  /\ session.inbound => session.staged = "join"

OwnedIsSaved ==
  failures = 0 /\ Up /\ session.workspace /\ session.attached =>
    \/ store.file.kind = "active"
    \/ store.file.kind = "removed" /\ session.staged = "removal"
    \/ store.file.kind = "reset" /\ store.diverged

\* What is saved of a membership is kept.  A workspace this session owns is what
\* its store holds: records of a pending join never replace it, only a removal
\* or a reset that is still under way.  And a saved removal is final: nothing
\* but a reset replaces it, so the member never comes back to the workspace it
\* left.  A commit that fails after it reached the file (NativeStore::commit
\* keeps the earlier token) ends the first promise: a pending join saved that
\* way over a committed candidate does not keep AdoptJoin from accepting the
\* candidate.  All with the session and the store as TypeOK says.
SavedPhaseIsKept ==
  [][/\ TypeOK' /\ OwnedIsSaved'
     /\ store.file.kind = "removed" => store'.file.kind \in {"removed", "reset"}]_vars

\* A join driven through its list of peers, the unreachable ones first, ends
\* with the workspace or is reset, unless the process stops or a commit fails.
JoinEnds ==
  session.pending # "none" /\ Routed /\ session.attached
    ~> session.workspace \/ session = Fresh \/ ~ Up \/ failures > 0
=============================================================================
