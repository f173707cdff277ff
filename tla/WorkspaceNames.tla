--------------------------- MODULE WorkspaceNames ---------------------------
(***************************************************************************)
(* How the members of a workspace come to its name (arachne-security/src/  *)
(* name.rs and the name part of a membership exchange, membership.rs of    *)
(* arachne-runtime).  An administrator signs the next name; a member takes *)
(* the next record after the one it holds, or the current name from a      *)
(* checkpoint of a current administrator when the records do not lead on.  *)
(*                                                                         *)
(* A hash names one record, so a head is the record, and a signature is    *)
(* its signer's.  A title differs from the one before it, so its record    *)
(* tells it apart and leaves it out.  The epochs and their administrators  *)
(* are given by a list; how a member comes to its next epoch is            *)
(* MembershipSync's.  A change is staged, saved and adopted under one lock *)
(* (NativePersistence), here one step.                                     *)
(***************************************************************************)
EXTENDS Integers, FiniteSets, Sequences

CONSTANTS
  Members,
  Scenes       \* [rosters, renames, losses]: of each epoch its members and administrators

\* A case names members and administrators for every epoch, from the first.
Rosters == {r \in Seq([members : SUBSET Members, admins : SUBSET Members]) : Len(r) > 0}
ASSUME ScenesAssumption == Scenes \subseteq [rosters : Rosters, renames : Nat, losses : Nat]

VARIABLES
  scene,       \* the case, with the renames and losses that are left
  top,         \* the newest committed epoch
  view,        \* of each member what its workspace holds
  invited,     \* the epoch and name an invitation was issued with
  reply        \* of each member the answer to its membership query

nameVars == <<scene, top, view, invited, reply>>

NoName == [revision |-> 0]
NoCheckpoint == [state |-> NoName, epoch |-> 0]
NoReply == [epoch |-> 0]

Roster(epoch) == IF epoch = 0 THEN {} ELSE scene.rosters[epoch].members
Administrators(epoch) == scene.rosters[epoch].admins
Active(m) == m \in Roster(view[m].epoch)

\* MembershipHistory: authority is known from the epoch of the checkpoint on.
Founded(epoch, state) ==
  [epoch |-> epoch, since |-> epoch, name |-> state, steps |-> {}, missing |-> 0,
   base |-> state.revision, checkpoint |-> NoCheckpoint]

NamesInit ==
  /\ scene \in Scenes /\ top = 1 /\ invited = Founded(0, NoName)
  /\ view = [m \in Members |-> Founded(IF m \in Roster(1) THEN 1 ELSE 0, NoName)]
  /\ reply = [m \in Members |-> NoReply]

-----------------------------------------------------------------------------
\* name_authority_at: the membership of an epoch the member can replay.
name_authority_at(s, epoch) == epoch = s.epoch \/ epoch \in s.since .. s.epoch

Extends(s, record) ==
  /\ record.revision = s.name.revision + 1 /\ record.previous = s.name
  /\ record.author \in Administrators(s.epoch)
  /\ name_authority_at(s, record.epoch) /\ record.author \in Administrators(record.epoch)

prepare_workspace_name_update(s, record) ==
  [s EXCEPT !.name = record, !.steps = @ \cup {record}, !.checkpoint = NoCheckpoint]

next_workspace_name(s, after) == {r \in s.steps : r.previous = after}

sign_workspace_name_checkpoint(m) ==
  [state |-> view[m].name, author |-> m, epoch |-> view[m].epoch]

verify_workspace_name_checkpoint(s, c) ==
  c.state # NoName /\ c.epoch = s.epoch /\ c.author \in Administrators(s.epoch)

\* The own signature, or a relayed one that is still good for the name held.
workspace_name_checkpoint(m) ==
  LET s == view[m]
      own == s.name # NoName /\ m \in Administrators(s.epoch)
      relayed == verify_workspace_name_checkpoint(s, s.checkpoint) /\ s.checkpoint.state = s.name
  IN  IF own THEN {sign_workspace_name_checkpoint(m)}
      ELSE IF relayed THEN {s.checkpoint} ELSE {}

Advances(s, c) ==
  verify_workspace_name_checkpoint(s, c) /\ c.state.revision > s.name.revision

\* Mutant: an installed checkpoint counts as one name.
prepare_checkpointOne(s, c) == [s EXCEPT !.name = c.state, !.checkpoint = c, !.missing = @ + 1]
prepare_workspace_name_checkpoint(s, c) ==
  [s EXCEPT !.name = c.state, !.checkpoint = c,
            !.missing = @ + c.state.revision - s.name.revision]

-----------------------------------------------------------------------------
\* StageWorkspaceName: an administrator gives the workspace its next name.
prepare_workspace_name(m) ==
  LET s == view[m]
      record == [revision |-> s.name.revision + 1, previous |-> s.name, author |-> m,
                 epoch |-> s.epoch]
  IN  /\ Active(m) /\ scene.renames > 0 /\ Extends(s, record)
      /\ view' = [view EXCEPT ![m] =
           [prepare_workspace_name_update(s, record) EXCEPT
             !.checkpoint = [state |-> record, author |-> m, epoch |-> s.epoch]]]
      /\ scene' = [scene EXCEPT !.renames = @ - 1]
      /\ UNCHANGED <<top, invited, reply>>

\* A checkpoint for an invitation carries the name its issuer has.
issue_checkpoint(m) ==
  /\ Active(m) /\ m \in Administrators(view[m].epoch) /\ invited.epoch = 0
  /\ \E j \in Members : \A epoch \in 1 .. top : j \notin Roster(epoch)
  /\ invited' = Founded(view[m].epoch, view[m].name)
  /\ UNCHANGED <<scene, top, view, reply>>

\* An administrator commits the next epoch; a member is added by invitation.
commit(m) ==
  /\ view[m].epoch = top /\ top < Len(scene.rosters) /\ m \in Administrators(top)
  /\ Roster(top + 1) \subseteq Roster(top) \/ invited.epoch > 0
  /\ top' = top + 1 /\ view' = [view EXCEPT ![m].epoch = top + 1]
  /\ UNCHANGED <<scene, invited, reply>>

accept(m) ==
  /\ Active(m) /\ view[m].epoch < top
  /\ view' = [view EXCEPT ![m].epoch = @ + 1]
  /\ UNCHANGED <<scene, top, invited, reply>>

\* PendingJoin::prepare_workspace: the name of the invitation is the baseline.
prepare_workspace(m) ==
  /\ view[m].epoch = 0
  /\ \E epoch \in 2 .. top :
       /\ m \in Roster(epoch) \ Roster(epoch - 1)
       /\ view' = [view EXCEPT ![m] = [invited EXCEPT !.epoch = epoch]]
  /\ UNCHANGED <<scene, top, invited, reply>>

\* answer_query at p, for a member of the same epoch that holds another name:
\* when the names agree, or the epochs do not, the answer leaves them alone.
Differ(m, p) ==
  /\ Active(m) /\ Active(p) /\ view[m].epoch = view[p].epoch /\ view[m].name # view[p].name

answer_query(m, p) ==
  /\ reply[m] = NoReply /\ Differ(m, p)
  /\ reply' = [reply EXCEPT ![m] =
       [peer |-> p, epoch |-> view[m].epoch, after |-> view[m].name, head |-> view[p].name,
        record |-> next_workspace_name(view[p], view[m].name),
        checkpoint |-> workspace_name_checkpoint(p)]]
  /\ UNCHANGED <<scene, top, view, invited>>

\* PollMembershipUpdate: the next record, else the peer's checkpoint when the
\* peer is ahead.  A peer behind, or at the same revision with another name,
\* is only reported.
\* Mutant: a record that is refused ends the exchange.
LearnedInOrder(s, q) ==
  IF q.record # {} THEN
    IF \E r \in q.record : Extends(s, r)
    THEN prepare_workspace_name_update(s, CHOOSE r \in q.record : TRUE) ELSE s
  ELSE IF q.head.revision > s.name.revision /\ \E c \in q.checkpoint : Advances(s, c)
  THEN prepare_workspace_name_checkpoint(s, CHOOSE c \in q.checkpoint : TRUE) ELSE s
Learned(s, q) ==
  IF \E r \in q.record : Extends(s, r)
  THEN prepare_workspace_name_update(s, CHOOSE r \in q.record : TRUE)
  ELSE IF q.head.revision > s.name.revision /\ \E c \in q.checkpoint : Advances(s, c)
  THEN prepare_workspace_name_checkpoint(s, CHOOSE c \in q.checkpoint : TRUE) ELSE s

Current(m) ==
  LET q == reply[m]
  IN  q.epoch = view[m].epoch /\ q.after = view[m].name /\ q.peer \in Roster(view[m].epoch)

PollMembershipUpdate(m) ==
  /\ reply[m] # NoReply /\ reply' = [reply EXCEPT ![m] = NoReply]
  /\ view' = IF Active(m) /\ Current(m) THEN [view EXCEPT ![m] = Learned(@, reply[m])] ELSE view
  /\ UNCHANGED <<scene, top, invited>>

Lost(m) ==
  /\ reply[m] # NoReply /\ scene.losses > 0
  /\ scene' = [scene EXCEPT !.losses = @ - 1] /\ reply' = [reply EXCEPT ![m] = NoReply]
  /\ UNCHANGED <<top, view, invited>>

NamesNext == \E m \in Members :
  \/ prepare_workspace_name(m) \/ issue_checkpoint(m) \/ commit(m) \/ accept(m) \/ prepare_workspace(m)
  \/ \E p \in Members : answer_query(m, p)
  \/ PollMembershipUpdate(m) \/ Lost(m)

\* The driver polls what it asked, and every peer is asked again with each
\* presence it sends, so a difference of names is not passed over for ever;
\* renames and membership changes are the host's to make.
NamesFairness == \A m \in Members :
  /\ WF_nameVars(accept(m)) /\ WF_nameVars(prepare_workspace(m)) /\ WF_nameVars(PollMembershipUpdate(m))
  /\ \A p \in Members : []<> (Differ(m, p) => reply[m] # NoReply /\ reply[m].peer = p)

NamesSpec == NamesInit /\ [][NamesNext]_nameVars /\ NamesFairness

-----------------------------------------------------------------------------
\* The values the variables range over.
NamesTypeOK ==
  /\ top \in 1 .. Len(scene.rosters) /\ scene.renames \in Nat /\ scene.losses \in Nat
  /\ \A m \in Members :
       /\ view[m].epoch \in 0 .. top /\ view[m].since <= view[m].epoch
       /\ view[m].checkpoint # NoCheckpoint => view[m].checkpoint.state = view[m].name
       /\ reply[m] # NoReply => \A r, q \in reply[m].record : r = q

\* What a member shows as its missing name history (workspace_name_missing_
\* history) is the number of names between the one it joined with and the one
\* it holds of which it has no record to pass on, through forks of the name,
\* checkpoints over them, relayed checkpoints and answers that come late.
MissingHistoryIsCounted ==
  /\ NamesTypeOK
  /\ \A m \in Members :
       LET s == view[m]
       IN  s.name.revision = s.base + s.missing
             + Cardinality({r.revision : r \in s.steps})

Behind(m, a) ==
  /\ Active(m) /\ Active(a) /\ m \in Roster(top) /\ a \in Administrators(top)
  /\ view[m].name.revision < view[a].name.revision

\* A member that is behind a current administrator catches up with it, whoever
\* signed the names between (an administrator demoted or removed since, or one
\* of an epoch before the member's history) and whichever peer it asks first
\* (PollMembershipUpdate falls back on the checkpoint of a current one).
NamesReachMembers == []<> ~ \E m, a \in Members : Behind(m, a)
=============================================================================
