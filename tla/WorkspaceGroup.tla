--------------------------- MODULE WorkspaceGroup ---------------------------
(***************************************************************************)
(* The members' copies of one workspace: how they admit, manage and catch  *)
(* up, and how a device that holds an invitation becomes one of them.      *)
(*                                                                         *)
(* Every commit ever made is a node of `tree`; its parent is the epoch it  *)
(* was built on, so two members that commit at once make two branches.  An *)
(* owner is a device's accepted copy: the node it stands on, the accepted  *)
(* steps it can serve (join_history), the admissions it made itself (with  *)
(* the replies it can repeat) and the invitation checkpoints it retained.  *)
(* A checkpoint is the GroupInfo of a node, signed by one member.  Each    *)
(* action here is a prepare step together with its save and its adoption;  *)
(* WorkspaceLifecycle and NativePersistence take those apart.              *)
(***************************************************************************)
EXTENDS GroupPolicy, FiniteSetsExt

CONSTANTS
    Founder,         \* the package the workspace was created with
    Times,           \* expiry times an invitation may be given; 0 is never
    WireMembers,     \* members whose GroupInfo still fits the 64 KiB wire bound
    MaxCheckpoints,  \* MAX_RETAINED_CHECKPOINTS and its byte bound
    Restarts,        \* may a device give up a pending join and start another?
    MaxClock,        \* bound: the shared clock
    Cases            \* scenarios: the operations, invitation kinds, keys and joining
                     \* packages that occur, and a bound on the commits made

\* The workspace's first member, and invitations of the kinds the code creates.
ASSUME GroupAssumption ==
    /\ Founder \in Packages
    /\ Times \subseteq Nat /\ MaxCheckpoints \in Nat
    /\ \A case \in Cases : \A kind \in case.kinds : kind.op \in Creations /\ kind.personal \in BOOLEAN

VARIABLES
    tree,         \* the commits made so far; node 1 is the created group
    owner,        \* device -> its accepted copy, or NoOwner
    pending,      \* device -> its pending join, or NoPending
    invitations,  \* bearer tokens handed out
    requests,     \* admission requests sent; any may arrive late or again
    leaves,       \* signed departures
    clock,
    plan          \* the scenario

vars == <<tree, owner, pending, invitations, requests, leaves, clock, plan>>

Devices == {EndpointOf[p] : p \in Packages}
NoOwner == [tip |-> 0]
NoPending == [package |-> NoPackage]
NoHistory == [steps |-> <<>>]
IsOwner(d) == owner[d].tip # 0
IsPending(d) == pending[d].package # NoPackage

Group(n) == [members |-> tree[n].members, ext |-> tree[n].ext]
Epoch(n) == tree[n].epoch
Checkpoint(node, signer) == [node |-> node, signer |-> signer]
Step(auth, node) == [auth |-> auth, node |-> node]

-----------------------------------------------------------------------------
(* Reading a group back as a verifier. *)

\* No two members of a checkpoint share an identity or a device.
distinct_bindings(group) ==
    \A p, q \in group.members : EndpointOf[p] = EndpointOf[q] => p = q

\* An owner's own state, re-read without the wire bound.
from_workspace(o) == distinct_bindings(Group(o.tip))

\* A checkpoint that crossed, or could cross, the network.
FitsWire(group) == Cardinality(group.members) <= WireMembers

from_trusted_checkpoint(group) == FitsWire(group) /\ distinct_bindings(group)

\* The step an owner or joiner at `tip` applies next.
Applies(tip, step) ==
    /\ step.node \in DOMAIN tree
    /\ tree[step.node].parent = tip
    /\ apply_transition(Group(tip), tip, tree[step.node], step.auth)

Replays(start, steps) ==
    \A i \in DOMAIN steps : Applies(IF i = 1 THEN start ELSE steps[i - 1].node, steps[i])

Reached(start, steps) == IF steps = <<>> THEN start ELSE steps[Len(steps)].node

join_checkpoint_allowed(me, group) == me \in group.ext.admins /\ FitsWire(group)

\* A first retained step starts from a checkpoint of the owner's own state.
can_append(o) == o.history # NoHistory \/ from_trusted_checkpoint(Group(o.tip))

append_history(o, auth, node) ==
    IF o.history = NoHistory
    THEN [start |-> Checkpoint(o.tip, o.me), steps |-> <<Step(auth, node)>>]
    ELSE [o.history EXCEPT !.steps = Append(@, Step(auth, node))]

-----------------------------------------------------------------------------
(* What an owner can serve. *)

HistorySteps(o) == IF o.history = NoHistory THEN <<>> ELSE o.history.steps

AdmissionStep(a) == Step(Adds(<<a.auth>>), a.node)

\* Where the step that leaves epoch e is among those kept.
StepsFrom(steps, e) == {i \in DOMAIN steps : Epoch(steps[i].node) = e + 1}

\* Everything an owner kept, history first: where the history has an epoch,
\* retained admissions only have to agree with it.
Kept(o) == HistorySteps(o) \o [i \in DOMAIN o.admissions |-> AdmissionStep(o.admissions[i])]

FirstSteps(o, start) ==
    [i \in 1..(Epoch(o.tip) - start) |-> Kept(o)[Min(StepsFrom(Kept(o), start + i - 1))]]

Covered(o, start) == \A e \in start..(Epoch(o.tip) - 1) : StepsFrom(Kept(o), e) # {}

\* The accepted step of every epoch from `start` to the head is there, and no
\* two records disagree about one.
accepted_range(o, start) ==
    /\ start <= Epoch(o.tip)
    /\ Covered(o, start)
    /\ \A s, t \in Range(Kept(o)) :
         Epoch(s.node) = Epoch(t.node) /\ Epoch(s.node) > start => s.node = t.node

\* The same records applied one by one, from a checkpoint to the head.
advance_membership_proof(o, start) ==
    /\ Epoch(start) <= Epoch(o.tip)
    /\ Covered(o, Epoch(start))
    /\ Replays(start, FirstSteps(o, Epoch(start)))
    /\ Reached(start, FirstSteps(o, Epoch(start))) = o.tip

HasRetained(o, r) == \E a \in Range(o.admissions) : a.request = r
Retained(o, r) == CHOOSE a \in Range(o.admissions) : a.request = r

\* A byte-identical retry: nothing retained, refused, or the reply.
retained_admission(o, r) ==
    IF ~HasRetained(o, r) THEN "none"
    ELSE IF /\ r.inv.pin.signer \in tree[o.tip].ext.admins
            /\ \E m \in tree[o.tip].members : EndpointOf[m] = EndpointOf[r.package]
         THEN "reply" ELSE "refused"

authorize_history_request(o, r) ==
    /\ retained_admission(o, r) # "refused"
    /\ retained_admission(o, r) = "none" => check(tree[o.tip].ext, r.inv.key, clock, r.package) = "ok"
    /\ r.inv.pin.signer \in tree[o.tip].ext.admins

\* The steps from the requester's pinned checkpoint to this owner's head.  A
\* checkpoint retained with its own invitation is not replayed again.
NoSteps == [ok |-> FALSE, steps |-> <<>>]

authorized_membership_history(o, r) ==
    LET pin == r.inv.pin
        found == [ok |-> TRUE, steps |-> FirstSteps(o, Epoch(pin.node))]
    IN  IF r.inv \in o.checkpoints /\ accepted_range(o, Epoch(pin.node)) THEN found
        ELSE IF ~from_trusted_checkpoint(Group(pin.node)) \/ pin.signer \notin tree[pin.node].ext.admins
        THEN NoSteps
        ELSE IF o.history # NoHistory /\ o.history.start = pin
        THEN [ok |-> TRUE, steps |-> o.history.steps]
        ELSE IF advance_membership_proof(o, pin.node) THEN found ELSE NoSteps

membership_history(o, r) ==
    IF authorize_history_request(o, r) THEN authorized_membership_history(o, r) ELSE NoSteps

\* Mutant: the whole history is sent.
admission_reply_pageWhole(o, r) == membership_history(o, r)

\* The steps a joiner is sent: up to the one that added it, which is the one its
\* Welcome opens, and which has to be among them.
admission_reply_page(o, r) ==
    LET steps == membership_history(o, r).steps
        last == {i \in DOMAIN steps : steps[i].node = Retained(o, r).node}
    IN  IF last = {} THEN NoSteps ELSE [ok |-> TRUE, steps |-> SubSeq(steps, 1, Min(last))]

\* The entries of a sequence at the given places, in their order.
EntriesAt(s, places) ==
    [k \in 1..Cardinality(places) |->
       s[CHOOSE i \in places : Cardinality({j \in places : j <= i}) = k]]

admission_update_after(o, e) ==
    LET entries == EntriesAt(o.admissions, {i \in DOMAIN o.admissions : Epoch(o.admissions[i].node) = e + 1})
    IN  IF entries = <<>> THEN <<>>
        ELSE <<Step(Adds([i \in DOMAIN entries |-> entries[i].auth]), entries[1].node)>>

\* The history is indexed by epoch, counted from its checkpoint.
HistoryStep(o, e) ==
    LET at == e + 1 - Epoch(o.history.start.node)
    IN  IF o.history # NoHistory /\ at \in DOMAIN o.history.steps THEN <<o.history.steps[at]>> ELSE <<>>

\* Mutant: the history is indexed by the epoch a step leads to.
membership_update_forLater(o, endpoint, e) ==
    LET next == HistoryStep(o, e + 1)
    IN  IF next # <<>> THEN next ELSE admission_update_after(o, e)

\* The next step for a peer at epoch e, as a sequence of at most one: any step
\* for a member; for a former member only its own removal.
membership_update_for(o, endpoint, e) ==
    LET current == \E m \in tree[o.tip].members : EndpointOf[m] = endpoint
        next == HistoryStep(o, e)
        terminal(s) == /\ s.auth.kind = "Management"
                       /\ removes(s.auth.action)
                       /\ EndpointOf[s.auth.action.id] = endpoint
    IN  CASE current /\ next # <<>> -> next
          [] current /\ next = <<>> -> admission_update_after(o, e)
          [] /\ ~current
             /\ next # <<>>
             /\ from_trusted_checkpoint(Group(o.history.start.node))
             /\ terminal(next[1]) -> next
          [] OTHER -> <<>>

-----------------------------------------------------------------------------
(* Retained invitation checkpoints. *)

live(ext, key) ==
    /\ key \in DOMAIN ext.controls
    /\ ext.controls[key].enabled
    /\ ext.controls[key].expires = 0 \/ ext.controls[key].expires > clock

prune_invitation_checkpoints(saved, ext) == {inv \in saved : live(ext, inv.key)}

can_retain(saved, inv, node, group) ==
    /\ inv.pin.node = node
    /\ from_trusted_checkpoint(group)
    /\ inv.pin.signer \in group.ext.admins
    /\ inv \in saved \/ Cardinality(saved) < MaxCheckpoints

\* A creation step is served with its checkpoint, while the server has it.
retained_invitation_checkpoint(o, auth) ==
    {inv \in o.checkpoints : /\ auth.kind = "Management"
                             /\ auth.action.op \in Creations
                             /\ inv.key = auth.action.key}

-----------------------------------------------------------------------------
(* Committing. *)

NewNode == Len(tree) + 1

Extended(tip, commit, auth) ==
    LET group == merge_commit(Group(tip), commit)
    IN  Append(tree, [parent |-> tip, epoch |-> Epoch(tip) + 1,
                      anc |-> tree[tip].anc \cup {NewNode}, auth |-> auth,
                      actor |-> commit.actor, add |-> commit.add, remove |-> commit.remove,
                      members |-> group.members, ext |-> group.ext])

\* The checks an actor makes on its own action; it verifies the commit it
\* built exactly as a receiver would.
prepare_management(o, action) ==
    /\ ActorAllows(Group(o.tip), o.me, action)
    /\ from_workspace(o)
    /\ IF action.op \in MemberActions
       THEN RoleAllows(Group(o.tip), o.me, action) /\ verify_leave(action, o.tip)
       ELSE Changeable(tree[o.tip].ext, action) /\ decodes(changed(tree[o.tip].ext, action))
    /\ verify_management(Group(o.tip), o.tip, management_commit(Group(o.tip), o.me, action), action)
    /\ can_append(o)

\* Device d commits `action` and keeps what it retained, pruned where the
\* controls changed.
Managed(d, action) ==
    LET o == owner[d]
        commit == management_commit(Group(o.tip), o.me, action)
    IN  /\ Len(tree) < plan.nodes
        /\ IsOwner(d)
        /\ prepare_management(o, action)
        /\ tree' = Extended(o.tip, commit, Management(action))
        /\ owner' = [owner EXCEPT ![d] =
             [o EXCEPT !.tip = NewNode,
                       !.history = append_history(o, Management(action), NewNode),
                       !.checkpoints = IF action.op \in MemberActions THEN @
                                       ELSE prune_invitation_checkpoints(@, commit.ext)]]

Planned(op) == op \in plan.ops

\* Promote, demote or remove a member.
StageManagement(d, op, id) ==
    /\ Planned(op)
    /\ Managed(d, [op |-> op, id |-> id])
    /\ UNCHANGED <<pending, invitations, requests, leaves, clock, plan>>

\* A member signs its departure from the exact group it stands on; the only
\* administrator may not.
leave_action(d) ==
    /\ Planned("Leave")
    /\ IsOwner(d)
    /\ tree[owner[d].tip].ext.admins # {owner[d].me}
    /\ from_workspace(owner[d])
    /\ leaves' = leaves \cup {[op |-> "Leave", id |-> owner[d].me, context |-> owner[d].tip]}
    /\ UNCHANGED <<tree, owner, pending, invitations, requests, clock, plan>>

\* Another member commits a departure it was handed.
receive_leave(d, leave) ==
    /\ Managed(d, leave)
    /\ UNCHANGED <<pending, invitations, requests, leaves, clock, plan>>

\* The last member of a workspace ends it.
prepare_solo_leave(d) ==
    /\ Planned("Leave")
    /\ IsOwner(d)
    /\ tree[owner[d].tip].members = {owner[d].me}
    /\ from_workspace(owner[d])
    /\ owner' = [owner EXCEPT ![d] = NoOwner]
    /\ UNCHANGED <<tree, pending, invitations, requests, leaves, clock, plan>>

-----------------------------------------------------------------------------
(* Invitations. *)

\* A key is drawn at random, so it is new.
Unused(key) == key \in plan.keys /\ key \notin {inv.key : inv \in invitations}

\* An unregistered invitation pins the issuer's current checkpoint.
issue_invitation(d, key) ==
    /\ Planned("IssueInvitation")
    /\ IsOwner(d)
    /\ Unused(key)
    /\ join_checkpoint_allowed(owner[d].me, Group(owner[d].tip))
    /\ invitations' = invitations \cup {[key |-> key, pin |-> Checkpoint(owner[d].tip, owner[d].me)]}
    /\ UNCHANGED <<tree, owner, pending, requests, leaves, clock, plan>>

\* A registered one is created by a commit, pins the group that commit makes,
\* and is retained with it.
prepare_invitation_mode(d, key, kind, expires) ==
    LET o == owner[d]
        action == [op |-> kind.op, personal |-> kind.personal, key |-> key, expires |-> expires]
        inv == [key |-> key, pin |-> Checkpoint(NewNode, o.me)]
        after == merge_commit(Group(o.tip), management_commit(Group(o.tip), o.me, action))
        kept == prune_invitation_checkpoints(o.checkpoints, after.ext)
    IN  /\ kind \in plan.kinds
        /\ IsOwner(d)
        /\ Unused(key)
        /\ expires = 0 \/ expires > clock
        /\ Len(tree) < plan.nodes
        /\ join_checkpoint_allowed(o.me, Group(o.tip))
        /\ prepare_management(o, action)
        /\ join_checkpoint_allowed(o.me, after)
        /\ can_retain(kept, inv, NewNode, after)
        /\ tree' = Extended(o.tip, management_commit(Group(o.tip), o.me, action), Management(action))
        /\ owner' = [owner EXCEPT ![d] =
             [o EXCEPT !.tip = NewNode,
                       !.history = append_history(o, Management(action), NewNode),
                       !.checkpoints = kept \cup {inv}]]
        /\ invitations' = invitations \cup {inv}
        /\ UNCHANGED <<pending, requests, leaves, clock, plan>>

prepare_invitation_approval(d, r) ==
    /\ Planned("Approve")
    /\ IsOwner(d)
    /\ r.inv.key \in DOMAIN tree[owner[d].tip].ext.controls
    /\ LET c == tree[owner[d].tip].ext.controls[r.inv.key] IN c.expires = 0 \/ clock < c.expires
    /\ Managed(d, [op |-> "ApproveInvitation", key |-> r.inv.key, package |-> r.package])
    /\ UNCHANGED <<pending, invitations, requests, leaves, clock, plan>>

\* Declining a request decides that request; declining on a personal
\* invitation disables it.
prepare_invitation_decline(d, r) ==
    /\ Planned("Decline")
    /\ IsOwner(d)
    /\ r.inv.key \in DOMAIN tree[owner[d].tip].ext.controls
    /\ LET c == tree[owner[d].tip].ext.controls[r.inv.key]
       IN  /\ c.personal
           /\ Managed(d, IF request_access(c)
                         THEN [op |-> "DeclineInvitationRequest", key |-> r.inv.key, package |-> r.package]
                         ELSE [op |-> "DisableInvitation", key |-> r.inv.key])
    /\ UNCHANGED <<pending, invitations, requests, leaves, clock, plan>>

DisableInvitation(d, key) ==
    /\ Planned("Disable")
    /\ Managed(d, [op |-> "DisableInvitation", key |-> key])
    /\ UNCHANGED <<pending, invitations, requests, leaves, clock, plan>>

-----------------------------------------------------------------------------
(* Admission. *)

check_validated_admission(o, r) ==
    /\ check(tree[o.tip].ext, r.inv.key, clock, r.package) = "ok"
    /\ r.inv.pin.signer \in tree[o.tip].ext.admins
    /\ unbound(Group(o.tip), r.package)

Authorization(r) == [key |-> r.inv.key, issuer |-> r.inv.pin.signer, package |-> r.package]

\* The batches of requests an owner may take up at once.
Batches == UNION {[1..n -> requests] : n \in 0..MaxBatch}

\* One commit adds every request of the batch.  The prepared owner must be able
\* to serve each joiner its pinned history before anything is staged.
prepare_validated_admission_batch(d, batch) ==
    LET o == owner[d]
        auths == [i \in DOMAIN batch |-> Authorization(batch[i])]
        commit == Commit(o.me, [i \in DOMAIN batch |-> batch[i].package], {}, tree[o.tip].ext)
        kept == Len(batch) > 1 \/ o.history # NoHistory
    IN  /\ IsOwner(d)
        /\ Len(tree) < plan.nodes
        /\ Len(batch) \in 1..MaxBatch
        /\ \A i \in DOMAIN batch : ~HasRetained(o, batch[i]) /\ check_validated_admission(o, batch[i])
        /\ IsInjective(commit.add)
        /\ kept => can_append(o)
        /\ tree' = Extended(o.tip, commit, Adds(auths))
        /\ owner' = [owner EXCEPT ![d] =
             [o EXCEPT !.tip = NewNode,
                       !.history = IF kept THEN append_history(o, Adds(auths), NewNode) ELSE @,
                       !.admissions = @ \o [i \in DOMAIN batch |->
                          [request |-> batch[i], auth |-> auths[i], node |-> NewNode]]]]
        /\ UNCHANGED <<pending, invitations, requests, leaves, clock, plan>>
        /\ \A i \in DOMAIN batch : membership_history(owner[d], batch[i]).ok'

\* A member at an older epoch takes the next step a peer serves it.
Accepts(o, server, step) ==
    LET saved == prune_invitation_checkpoints(o.checkpoints, tree[step.node].ext)
    IN  /\ from_workspace(o)
        /\ Applies(o.tip, step)
        /\ step.auth.kind = "Management" => from_trusted_checkpoint(Group(o.tip))
        /\ o.me \in tree[step.node].members =>
             /\ can_append(o)
             /\ \A inv \in retained_invitation_checkpoint(server, step.auth) :
                  can_retain(saved, inv, step.node, Group(step.node))

\* Mutant: an accepted admission is not added to the history.
AcceptedUnrecorded(o, server, step) ==
    IF o.me \notin tree[step.node].members THEN NoOwner
    ELSE [o EXCEPT !.tip = step.node,
                   !.history = IF step.auth.kind = "Management"
                               THEN append_history(o, step.auth, step.node) ELSE @,
                   !.checkpoints = IF step.auth.kind # "Management" THEN @
                                   ELSE prune_invitation_checkpoints(@, tree[step.node].ext)
                                          \cup retained_invitation_checkpoint(server, step.auth)]

Accepted(o, server, step) ==
    IF o.me \notin tree[step.node].members THEN NoOwner
    ELSE [o EXCEPT !.tip = step.node,
                   !.history = append_history(o, step.auth, step.node),
                   !.checkpoints = IF step.auth.kind # "Management" THEN @
                                   ELSE prune_invitation_checkpoints(@, tree[step.node].ext)
                                          \cup retained_invitation_checkpoint(server, step.auth)]

stage_update(d, peer) ==
    /\ IsOwner(d)
    /\ IsOwner(peer)
    /\ LET served == membership_update_for(owner[peer], d, Epoch(owner[d].tip))
       IN  /\ served # <<>>
           /\ Accepts(owner[d], owner[peer], served[1])
           /\ owner' = [owner EXCEPT ![d] = Accepted(owner[d], owner[peer], served[1])]
    /\ UNCHANGED <<tree, pending, invitations, requests, leaves, clock, plan>>

-----------------------------------------------------------------------------
(* Joining. *)

Fresh(package) ==
    /\ package # Founder
    /\ \A d \in Devices : pending[d].package # package
    /\ \A r \in requests : r.package # package

Request(package, inv) == [package |-> package, inv |-> inv]

\* A full invitation carries its checkpoint, a compact one leaves it to be
\* fetched; only then is there a request to send.
StartJoin(package, inv, compact) ==
    LET d == EndpointOf[package]
    IN  /\ package \in plan.joiners
        /\ ~IsOwner(d)
        /\ ~IsPending(d) \/ Restarts
        /\ Fresh(package)
        /\ compact \/ from_trusted_checkpoint(Group(inv.pin.node))
        /\ pending' = [pending EXCEPT ![d] = [package |-> package, inv |-> inv, complete |-> ~compact]]
        /\ requests' = IF compact THEN requests ELSE requests \cup {Request(package, inv)}
        /\ UNCHANGED <<tree, owner, invitations, leaves, clock, plan>>

\* The exact checkpoint the invitation pins: the start of the peer's history,
\* one it retained, or its own current one.
checkpoint_for_invitation(o, inv) ==
    /\ \/ /\ o.history # NoHistory
          /\ o.history.start = inv.pin
          /\ Replays(inv.pin.node, o.history.steps)
       \/ inv \in o.checkpoints
       \/ join_checkpoint_allowed(o.me, Group(o.tip)) /\ inv.pin = Checkpoint(o.tip, o.me)
    /\ from_trusted_checkpoint(Group(inv.pin.node))
    /\ inv.pin.signer \in tree[inv.pin.node].ext.admins

complete_checkpoint(d, peer) ==
    /\ IsPending(d)
    /\ ~pending[d].complete
    /\ IsOwner(peer)
    /\ checkpoint_for_invitation(owner[peer], pending[d].inv)
    /\ pending' = [pending EXCEPT ![d].complete = TRUE]
    /\ requests' = requests \cup {Request(pending[d].package, pending[d].inv)}
    /\ UNCHANGED <<tree, owner, invitations, leaves, clock, plan>>

\* The joiner replays what it is sent from its own pin, and opens the Welcome
\* only in the group that replay reaches.
JoinProof(r, steps, welcome) ==
    /\ from_trusted_checkpoint(Group(r.inv.pin.node))
    /\ Replays(r.inv.pin.node, steps)
    /\ Reached(r.inv.pin.node, steps) = welcome

prepare_workspace(d, peer) ==
    LET r == Request(pending[d].package, pending[d].inv)
        o == owner[peer]
        page == admission_reply_page(o, r)
    IN  /\ IsPending(d)
        /\ pending[d].complete
        /\ IsOwner(peer)
        /\ retained_admission(o, r) = "reply"
        /\ page.ok
        /\ JoinProof(r, page.steps, Retained(o, r).node)
        /\ owner' = [owner EXCEPT ![d] =
             [tip |-> Retained(o, r).node, me |-> r.package,
              history |-> [start |-> r.inv.pin, steps |-> page.steps],
              admissions |-> <<>>, checkpoints |-> {}]]
        /\ pending' = [pending EXCEPT ![d] = NoPending]
        /\ UNCHANGED <<tree, invitations, requests, leaves, clock, plan>>

Tick ==
    /\ Planned("Tick")
    /\ clock < MaxClock
    /\ clock' = clock + 1
    /\ UNCHANGED <<tree, owner, pending, invitations, requests, leaves, plan>>

-----------------------------------------------------------------------------

Init ==
    /\ tree = <<[parent |-> 0, epoch |-> 0, anc |-> {1}, auth |-> [kind |-> "Create"],
                 actor |-> Founder, add |-> <<>>, remove |-> {}, members |-> {Founder},
                 ext |-> [admins |-> {Founder}, legacy |-> TRUE, controls |-> <<>>]]>>
    /\ owner = [d \in Devices |->
         IF d = EndpointOf[Founder]
         THEN [tip |-> 1, me |-> Founder, history |-> NoHistory, admissions |-> <<>>, checkpoints |-> {}]
         ELSE NoOwner]
    /\ pending = [d \in Devices |-> NoPending]
    /\ invitations = {}
    /\ requests = {}
    /\ leaves = {}
    /\ clock = 1
    /\ plan \in Cases

Next ==
    \/ \E d \in Devices : leave_action(d) \/ prepare_solo_leave(d)
    \/ \E d \in Devices, op \in {"Promote", "Demote", "Remove"}, id \in Packages :
         StageManagement(d, op, id)
    \/ \E d \in Devices, leave \in leaves : receive_leave(d, leave)
    \/ \E d \in Devices, key \in Keys : issue_invitation(d, key)
    \/ \E d \in Devices, key \in Keys, kind \in plan.kinds, expires \in Times :
         prepare_invitation_mode(d, key, kind, expires)
    \/ \E d \in Devices, r \in requests :
         prepare_invitation_approval(d, r) \/ prepare_invitation_decline(d, r)
    \/ \E d \in Devices, key \in ControlKeys \cup {OlderInvitations} : DisableInvitation(d, key)
    \/ \E d \in Devices, batch \in Batches : prepare_validated_admission_batch(d, batch)
    \/ \E d, peer \in Devices :
         stage_update(d, peer) \/ complete_checkpoint(d, peer) \/ prepare_workspace(d, peer)
    \/ \E package \in Packages, inv \in invitations, compact \in BOOLEAN :
         StartJoin(package, inv, compact)
    \/ Tick

Spec == Init /\ [][Next]_vars

-----------------------------------------------------------------------------
(* Properties. *)

Nodes == DOMAIN tree
Invitation == [key: Keys, pin: [node: Nodes, signer: Packages]]

TypeOK ==
    /\ \A n \in Nodes :
         /\ tree[n].members \subseteq Packages
         /\ tree[n].ext.legacy \in BOOLEAN
         /\ DOMAIN tree[n].ext.controls \subseteq ControlKeys
         /\ \A k \in DOMAIN tree[n].ext.controls : tree[n].ext.controls[k] \in Control
         /\ n # 1 => tree[n].parent \in tree[n].anc
    /\ invitations \subseteq Invitation
    /\ requests \subseteq [package: Packages, inv: invitations]
    /\ \A d \in Devices :
         /\ IsOwner(d) => owner[d].tip \in Nodes /\ owner[d].checkpoints \subseteq invitations
         /\ IsPending(d) => pending[d].inv \in invitations

\* On every branch some member is an administrator, every administrator is a
\* member, and every device's copy has that device in it: no order of demotions,
\* removals and departures, committed by several members, leaves a workspace
\* nobody can manage (management.rs "cannot remove the last administrator").
AdministratorsRemain ==
    /\ \A n \in Nodes : tree[n].ext.admins # {} /\ tree[n].ext.admins \subseteq tree[n].members
    /\ \A d \in Devices : IsOwner(d) => owner[d].me \in tree[owner[d].tip].members

\* The keys and packages the commit n redeemed.
Redeemed(n) ==
    IF tree[n].auth.kind \in {"Admission", "AdmissionBatch"}
    THEN {<<a.key, a.package>> : a \in Range(tree[n].auth.auths)} ELSE {}

SinglePackage(ext, key) ==
    key \in DOMAIN ext.controls /\ ext.controls[key].personal /\ ~request_access(ext.controls[key])

\* Along a branch an invitation only closes: once an epoch has it disabled, has
\* the request declined, or has unregistered invitations off, no later commit
\* admits through it, whoever makes it; and a personal invitation that is not
\* for requests admits one package, ever (invitation_controls::check, changed).
InvitationsAreRespected ==
    \A n \in Nodes : \A m \in tree[n].anc \ {n} : \A kp \in Redeemed(n) :
      LET before == tree[m].ext
          key == kp[1]
      IN  /\ key \in DOMAIN before.controls => before.controls[key].enabled
          /\ kp \in DOMAIN before.controls => before.controls[kp].enabled
          /\ before.legacy \/ key \in DOMAIN tree[n].ext.controls
          /\ key \in DOMAIN before.controls /\ approved(before.controls[key]) =>
               before.controls[key].approved = kp[2]
          /\ \A earlier \in Redeemed(m) :
               earlier[1] = key /\ SinglePackage(before, key) => earlier[2] = kp[2]

\* No device is two members of one group: a second request from an admitted
\* device is refused as "member already admitted" (check_validated_admission),
\* and a group that has one twice is one no verifier reads back.
OneMemberPerDevice == \A n \in Nodes : distinct_bindings(Group(n))

\* Whatever step a member's copy serves to a member that stands behind it on the
\* same branch, that member accepts: no valid commit leaves part of the
\* workspace behind (prepare_management_update, prepare_admission_batch_update).
MembersAcceptTheBranch ==
    \A d, peer \in Devices :
      IsOwner(d) /\ IsOwner(peer) /\ owner[d].tip \in tree[owner[peer].tip].anc =>
        LET served == membership_update_for(owner[peer], d, Epoch(owner[d].tip))
        IN  served # <<>> => Accepts(owner[d], owner[peer], served[1])

\* Every retained invitation checkpoint can still be replayed to its owner's
\* head from that owner's own records, which is what lets the code skip the
\* replay ("Its own branch only extends, so that proof stays good").
RetainedCheckpointsReplay ==
    \A d \in Devices : IsOwner(d) => \A inv \in owner[d].checkpoints :
      /\ accepted_range(owner[d], Epoch(inv.pin.node))
      /\ advance_membership_proof(owner[d], inv.pin.node)

\* An admission once committed stays usable: as long as its issuer administers
\* and the device is a member, the retained reply comes with a history the
\* joiner can replay from its own pin to the epoch its Welcome opens, whatever
\* happened since to the invitation, the clock or the branch (admission_history:
\* it "must not become a new Add with an unusable Welcome").
RepliesAreUsable ==
    /\ TypeOK
    /\ \A d \in Devices : IsOwner(d) => \A r \in requests :
         retained_admission(owner[d], r) = "reply" =>
           /\ admission_reply_page(owner[d], r).ok
           /\ JoinProof(r, admission_reply_page(owner[d], r).steps, Retained(owner[d], r).node)

=============================================================================
