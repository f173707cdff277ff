---------------------------- MODULE GroupPolicy ----------------------------
(***************************************************************************)
(* The rules under which one commit takes a workspace to its next epoch.   *)
(*                                                                         *)
(* A group is what the MLS state says in public: its members, each named   *)
(* by the KeyPackage it was added with, and the authority extension, which *)
(* names the administrators, says whether unregistered ("legacy")          *)
(* invitations still admit, and holds one control per registered           *)
(* invitation and per decided join request.  A commit is what its          *)
(* proposals do: packages added, members removed, and the extension it     *)
(* leaves.  An authorization travels beside the commit and says what the   *)
(* committer meant; a verifier recomputes the effect of that intent on its *)
(* own group and accepts the commit only if the two are the same.          *)
(***************************************************************************)
EXTENDS Naturals, Sequences, FiniteSets, Functions

CONSTANTS
    Packages,      \* KeyPackages; a member is named by the one it joined with
    EndpointOf,    \* the device (Iroh endpoint) each package is bound to
    Keys,          \* invitation keys
    MaxAdmins,     \* 64 in the code: one byte of the authority encoding
    MaxControls,   \* controls that fit the 16 KiB policy
    MaxBatch       \* MAX_ADMISSION_BATCH, 128 in the code

NoPackage == "no package"
AutomaticApproval == "automatic approval"
RequestAccess == "request access"
OlderInvitations == <<"older invitations">>

\* A decision on a request is a control of its own, under a key derived from
\* the invitation and the package.
decision_key(key, package) == <<key, package>>

ControlKeys == Keys \cup (Keys \X Packages)

\* Markers are not packages, and a decision's key, a hash, is no invitation's.
ASSUME PolicyAssumption ==
    /\ {NoPackage, AutomaticApproval, RequestAccess} \cap Packages = {}
    /\ Keys \cap (Keys \X Packages) = {}
    /\ OlderInvitations \notin ControlKeys

Control == [expires: Nat, enabled: BOOLEAN, personal: BOOLEAN,
            approved: Packages \cup {NoPackage, AutomaticApproval, RequestAccess}]

automatic(c) == c.personal /\ c.approved = AutomaticApproval
request_access(c) == c.personal /\ c.approved = RequestAccess
approved(c) == c.personal /\ c.approved \in Packages

MemberActions == {"Promote", "Demote", "Remove", "Leave"}
Creations == {"CreateInvitation", "CreateAutomaticInvitation", "CreateRequestInvitation"}
removes(action) == action.op \in {"Remove", "Leave"}

-----------------------------------------------------------------------------
(* Invitation controls. *)

\* Why an invitation does not admit this package now, or "ok".  A verifier
\* that replays accepted history has no clock: now = 0.
check(ext, key, now, package) ==
    IF key \notin DOMAIN ext.controls
    THEN IF ext.legacy THEN "ok" ELSE "disabled"
    ELSE LET c == ext.controls[key]
             decision == decision_key(key, package)
         IN  CASE ~c.enabled -> "disabled"
               [] c.enabled /\ c.expires # 0 /\ now # 0 /\ now >= c.expires -> "expired"
               [] OTHER ->
                    IF automatic(c) THEN "automatic approval required"
                    ELSE IF request_access(c)
                    THEN IF decision \notin DOMAIN ext.controls
                         THEN "approval required"
                         ELSE IF ~ext.controls[decision].enabled THEN "disabled" ELSE "ok"
                    ELSE IF c.personal /\ c.approved # package
                         THEN "approval required" ELSE "ok"

\* Mutant: a request can be decided again.
decidableAgain(controls, key, package) ==
    controls[key].enabled

\* What each action asks of the controls it changes.
decidable(controls, key, package) ==
    controls[key].enabled /\ decision_key(key, package) \notin DOMAIN controls

Changeable(ext, action) ==
    \/ action.op \in Creations /\ action.key \notin DOMAIN ext.controls
    \/ /\ action.op = "ApproveInvitation"
       /\ action.key \in DOMAIN ext.controls
       /\ LET c == ext.controls[action.key]
          IN  IF request_access(c) THEN decidable(ext.controls, action.key, action.package)
              ELSE c.personal /\ c.enabled /\ (c.approved = NoPackage \/ automatic(c))
    \/ /\ action.op = "DeclineInvitationRequest"
       /\ action.key \in DOMAIN ext.controls
       /\ request_access(ext.controls[action.key])
       /\ decidable(ext.controls, action.key, action.package)
    \/ /\ action.op = "DisableInvitation"
       /\ IF action.key = OlderInvitations THEN ext.legacy
          ELSE action.key \in DOMAIN ext.controls /\ ext.controls[action.key].enabled

Put(controls, key, c) == [k \in DOMAIN controls \cup {key} |-> IF k = key THEN c ELSE controls[k]]

decide(controls, key, package, yes) ==
    Put(controls, decision_key(key, package),
        [expires |-> controls[key].expires, enabled |-> yes, personal |-> TRUE,
         approved |-> package])

created(action) ==
    [expires |-> action.expires, enabled |-> TRUE,
     personal |-> action.op # "CreateInvitation" \/ action.personal,
     approved |-> CASE action.op = "CreateAutomaticInvitation" -> AutomaticApproval
                    [] action.op = "CreateRequestInvitation" -> RequestAccess
                    [] OTHER -> NoPackage]

changed_controls(ext, action) ==
    CASE action.op \in Creations -> Put(ext.controls, action.key, created(action))
      [] action.op = "ApproveInvitation" ->
           IF request_access(ext.controls[action.key])
           THEN decide(ext.controls, action.key, action.package, TRUE)
           ELSE [ext.controls EXCEPT ![action.key].approved = action.package]
      [] action.op = "DeclineInvitationRequest" ->
           decide(ext.controls, action.key, action.package, FALSE)
      [] OTHER -> IF action.key = OlderInvitations THEN ext.controls
                  ELSE [ext.controls EXCEPT ![action.key].enabled = FALSE]

changed(ext, action) ==
    [ext EXCEPT !.controls = changed_controls(ext, action),
                !.legacy = @ /\ ~(action.op = "DisableInvitation" /\ action.key = OlderInvitations)]

\* The encoded extension is decoded again before it is proposed.
decodes(ext) == Cardinality(DOMAIN ext.controls) <= MaxControls

-----------------------------------------------------------------------------
(* Commits. *)

Commit(actor, add, remove, ext) == [actor |-> actor, add |-> add, remove |-> remove, ext |-> ext]

\* The administrators a member action leaves.
replace_admins(admins, action) ==
    IF action.op = "Promote" THEN admins \cup {action.id} ELSE admins \ {action.id}

\* The member's own signature, over the exact group it was made in, authorizes
\* a departure that any other member may commit.
verify_leave(action, tip) == action.op = "Leave" => action.context = tip

\* Mutant: nobody counts the administrators left.
RoleAllowsLast(group, actor, action) ==
    /\ action.id \in group.members
    /\ action.op = "Promote" => action.id \notin group.ext.admins
    /\ action.op = "Demote" => action.id \in group.ext.admins
    /\ removes(action) => action.id # actor
    /\ Cardinality(replace_admins(group.ext.admins, action)) <= MaxAdmins

\* What an action asks of the group it acts on, whoever commits it.
RoleAllows(group, actor, action) ==
    /\ action.id \in group.members
    /\ action.op = "Promote" => action.id \notin group.ext.admins
    /\ action.op = "Demote" => action.id \in group.ext.admins
    /\ removes(action) => action.id # actor
    /\ replace_admins(group.ext.admins, action) # {}
    /\ Cardinality(replace_admins(group.ext.admins, action)) <= MaxAdmins

ActorAllows(group, actor, action) == action.op # "Leave" => actor \in group.ext.admins

\* The commit the actor builds for its own action.
management_commit(group, actor, action) ==
    IF action.op \in MemberActions
    THEN Commit(actor, <<>>, IF removes(action) THEN {action.id} ELSE {},
                [group.ext EXCEPT !.admins = replace_admins(@, action)])
    ELSE Commit(actor, <<>>, {}, changed(group.ext, action))

\* What a verifier accepts: exactly the effect of the stated action, by an
\* actor the group it already holds allows.
verify_management(group, tip, commit, action) ==
    /\ commit.actor \in group.members
    /\ ActorAllows(group, commit.actor, action)
    /\ commit.add = <<>>
    /\ IF action.op \in MemberActions
       THEN /\ RoleAllows(group, commit.actor, action)
            /\ verify_leave(action, tip)
            /\ commit.ext = [group.ext EXCEPT !.admins = replace_admins(@, action)]
            /\ commit.remove = IF removes(action) THEN {action.id} ELSE {}
       ELSE /\ Changeable(group.ext, action)
            /\ decodes(changed(group.ext, action))
            /\ commit.ext = changed(group.ext, action)
            /\ commit.remove = {}

\* No current member is the joiner or lives on its device.
unbound(group, package) ==
    \A member \in group.members : member # package /\ EndpointOf[member] # EndpointOf[package]

\* An admission names the invitation key, the administrator whose grant it is
\* and the package the key's holder redeemed it for.
verify_add_batch(group, commit, auths) ==
    /\ commit.actor \in group.members
    /\ Len(auths) \in 1..MaxBatch
    /\ Len(commit.add) = Len(auths)
    /\ commit.ext = group.ext
    /\ commit.remove = {}
    /\ IsInjective(commit.add)
    /\ \A i \in DOMAIN auths :
         /\ unbound(group, commit.add[i])
         /\ check(group.ext, auths[i].key, 0, commit.add[i]) = "ok"
         /\ auths[i].issuer \in group.ext.admins
         /\ auths[i].package = commit.add[i]

Management(action) == [kind |-> "Management", action |-> action]
Adds(auths) == [kind |-> IF Len(auths) = 1 THEN "Admission" ELSE "AdmissionBatch", auths |-> auths]

\* One exact transition, verified against the group it starts from.
apply_transition(group, tip, commit, authorization) ==
    CASE authorization.kind = "Management" ->
           verify_management(group, tip, commit, authorization.action)
      [] authorization.kind = "Admission" ->
           Len(authorization.auths) = 1 /\ verify_add_batch(group, commit, authorization.auths)
      [] OTHER -> verify_add_batch(group, commit, authorization.auths)

\* The group a merged commit leaves.
merge_commit(group, commit) ==
    [members |-> (group.members \ commit.remove) \cup Range(commit.add), ext |-> commit.ext]

=============================================================================
