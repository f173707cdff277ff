------------------------ MODULE WorkspaceGroupProofs ------------------------
(***************************************************************************)
(* For every set of devices, packages and keys and every bound: no branch  *)
(* loses its administrators, and along a branch an invitation only closes. *)
(*                                                                         *)
(* The second half is about the records of a branch (Leads, Spans, Serves) *)
(* and how one commit more extends them; WorkspaceHistoryProofs takes the  *)
(* steps of the workspace from there.                                      *)
(***************************************************************************)
EXTENDS WorkspaceGroup, TLAPS

\* Leaves are tried with Zenon; those that need arithmetic cite SMT.
USE ZenonT(30)

\* The empty list is a list of anything.
LEMMA EmptyList == ASSUME NEW S PROVE << >> \in Seq(S) /\ Len(<< >>) = 0
BY SMTT(30)

\* A list is a list of its own elements.
LEMMA ListOfItsRange ==
  ASSUME NEW S, NEW seq \in Seq(S)
  PROVE  seq \in Seq(Range(seq))
BY SMTT(30) DEF Range

\* Appending one list to another joins what they hold.
LEMMA JoinedRange ==
  ASSUME NEW S, NEW s1 \in Seq(S), NEW s2 \in Seq(S)
  PROVE  Range(s1 \o s2) = Range(s1) \cup Range(s2)
<1> DEFINE m == Len(s1)
           n == Len(s2)
<1>1. /\ m \in Nat /\ n \in Nat
      /\ DOMAIN s1 = 1..m /\ DOMAIN s2 = 1..n /\ DOMAIN (s1 \o s2) = 1..(m + n)
      /\ \A i \in 1..m : (s1 \o s2)[i] = s1[i]
      /\ \A i \in 1..n : (s1 \o s2)[m + i] = s2[i]
  BY SMTT(30)
<1>2. \A i \in 1..(m + n) : i \in 1..m \/ (i - m \in 1..n /\ m + (i - m) = i)
  BY <1>1, SMTT(30)
<1>3. \A i \in 1..n : m + i \in 1..(m + n)
  BY <1>1, SMTT(30)
<1>4. \A i \in 1..m : i \in 1..(m + n)
  BY <1>1, SMTT(30)
<1>5. \A x : x \in Range(s1 \o s2) => x \in Range(s1) \cup Range(s2)
  BY <1>1, <1>2, SMTT(30) DEF Range
<1>6. \A x : x \in Range(s1) \cup Range(s2) => x \in Range(s1 \o s2)
  BY <1>1, <1>3, <1>4 DEF Range
<1> QED BY <1>5, <1>6

\* What an ancestor's extension allows an heir's: controls are never dropped,
\* reopened, retargeted or turned into another kind.
Tightens(e, f) ==
  /\ DOMAIN e.controls \subseteq DOMAIN f.controls
  /\ f.legacy => e.legacy
  /\ \A k \in DOMAIN e.controls :
       /\ f.controls[k].enabled => e.controls[k].enabled
       /\ f.controls[k].personal = e.controls[k].personal
       /\ request_access(f.controls[k]) <=> request_access(e.controls[k])
       /\ approved(e.controls[k]) => f.controls[k].approved = e.controls[k].approved

\* What `check` grants, without the clock.
Admits(e, key, package) ==
  IF key \notin DOMAIN e.controls THEN e.legacy
  ELSE /\ e.controls[key].enabled
       /\ request_access(e.controls[key]) =>
            /\ decision_key(key, package) \in DOMAIN e.controls
            /\ e.controls[decision_key(key, package)].enabled
       /\ e.controls[key].personal /\ ~ request_access(e.controls[key]) =>
            e.controls[key].approved = package

IsControl(c) ==
  c = [expires |-> c.expires, enabled |-> c.enabled, personal |-> c.personal, approved |-> c.approved]

\* A decision is only ever recorded under an invitation for requests.
DecisionsBelong(e) ==
  /\ e = [admins |-> e.admins, legacy |-> e.legacy, controls |-> e.controls]
  /\ \A k \in DOMAIN e.controls : IsControl(e.controls[k])
  /\ \A k \in Keys, p \in Packages : <<k, p>> \in DOMAIN e.controls =>
       k \in DOMAIN e.controls /\ request_access(e.controls[k])

IsSeq(s) == s \in Seq(Range(s))

TreeShape ==
  /\ IsSeq(tree)
  /\ Len(tree) # 0
  /\ \A n \in Nodes : n \in tree[n].anc /\ tree[n].anc \subseteq Nodes

BranchesTighten ==
  \A n \in Nodes :
    /\ DecisionsBelong(tree[n].ext)
    /\ \A m \in tree[n].anc : Tightens(tree[m].ext, tree[n].ext)
    /\ \A kp \in Redeemed(n) :
         /\ kp = <<kp[1], kp[2]>> /\ kp[1] \in Keys /\ kp[2] \in Packages
         /\ Admits(tree[n].ext, kp[1], kp[2])

\* Requests and pending joins are for packages and invitation keys.
TokensTyped ==
  /\ DOMAIN pending = Devices
  /\ \A inv \in invitations : inv.key \in Keys
  /\ \A r \in requests : r.package \in Packages /\ r.inv \in invitations
  /\ \A d \in Devices : pending[d].package # NoPackage =>
       /\ pending[d] = [package |-> pending[d].package, inv |-> pending[d].inv,
                        complete |-> pending[d].complete]
       /\ pending[d].package \in Packages /\ pending[d].inv \in invitations
  /\ \A leave \in leaves : leave.op = "Leave"
  /\ plan \in Cases

\* A copy stands on a commit its device is a member in, and keeps replies only
\* for members it added.
HoldsCommits(o) ==
  /\ o.tip \in Nodes
  /\ o = [tip |-> o.tip, me |-> o.me, history |-> o.history,
          admissions |-> o.admissions, checkpoints |-> o.checkpoints]
  /\ o.me \in tree[o.tip].members
  /\ IsSeq(o.admissions)
  /\ \A a \in Range(o.admissions) : a.node \in Nodes /\ a.request.package \in tree[a.node].members

OwnersHoldCommits ==
  /\ DOMAIN owner = Devices
  /\ \A d \in Devices : owner[d].tip # 0 => HoldsCommits(owner[d])

AdminsAreMembers ==
  \A n \in Nodes : tree[n].ext.admins # {} /\ tree[n].ext.admins \subseteq tree[n].members

GroupInv ==
  /\ TreeShape
  /\ BranchesTighten
  /\ AdminsAreMembers
  /\ TokensTyped
  /\ OwnersHoldCommits

-----------------------------------------------------------------------------
(* Sequences, without an element set named in advance. *)

\* Appending to a sequence, such as the commits made so far.
LEMMA AppendSeq ==
  ASSUME NEW s, IsSeq(s), NEW e
  PROVE  /\ IsSeq(Append(s, e))
         /\ Len(Append(s, e)) = Len(s) + 1 /\ Len(s) \in Nat
         /\ DOMAIN s = 1..Len(s)
         /\ DOMAIN Append(s, e) = DOMAIN s \cup {Len(s) + 1}
         /\ Append(s, e)[Len(s) + 1] = e
         /\ \A i \in DOMAIN s : Append(s, e)[i] = s[i] /\ i # Len(s) + 1
<1> DEFINE S == Range(s) \cup {e}
<1>1. s \in Seq(Range(s))
  BY DEF IsSeq
<1>2. s \in Seq(S)
  BY <1>1, SMTT(30)
<1>3. Append(s, e) \in Seq(S) /\ Len(Append(s, e)) = Len(s) + 1
  BY <1>2, SMTT(30)
<1>4. /\ \A i \in 1..Len(s) : Append(s, e)[i] = s[i]
      /\ Append(s, e)[Len(s) + 1] = e
  BY <1>2, SMTT(30)
<1>5. DOMAIN s = 1..Len(s) /\ Len(s) \in Nat /\ DOMAIN Append(s, e) = 1..(Len(s) + 1)
  BY <1>2, <1>3, SMTT(30)
<1>6. Append(s, e) \in Seq(Range(Append(s, e)))
  BY <1>3, ListOfItsRange
<1> QED BY <1>3, <1>4, <1>5, <1>6, SMTT(30) DEF IsSeq

\* Joining two sequences, such as the replies kept and those a batch adds.
LEMMA ConcatSeq ==
  ASSUME NEW s, IsSeq(s), NEW t, IsSeq(t)
  PROVE  IsSeq(s \o t) /\ Range(s \o t) = Range(s) \cup Range(t)
<1> DEFINE S == Range(s) \cup Range(t)
<1>1. s \in Seq(S) /\ t \in Seq(S)
  BY SMTT(30) DEF IsSeq
<1>2. s \o t \in Seq(S)
  BY <1>1, SMTT(30)
<1>3. s \o t \in Seq(Range(s \o t))
  BY <1>2, ListOfItsRange
<1>4. Range(s \o t) = Range(s) \cup Range(t)
  BY <1>1, JoinedRange, SMTT(30)
<1> QED BY <1>3, <1>4 DEF IsSeq

-----------------------------------------------------------------------------
(* Extensions along a branch. *)

\* Restrictions accumulate over any number of commits.
LEMMA TightensTransitive ==
  ASSUME NEW e, NEW f, NEW g, Tightens(e, f), Tightens(f, g)
  PROVE  Tightens(e, g)
<1>1. ASSUME NEW k \in DOMAIN e.controls
      PROVE  /\ g.controls[k].enabled => e.controls[k].enabled
             /\ g.controls[k].personal = e.controls[k].personal
             /\ request_access(g.controls[k]) <=> request_access(e.controls[k])
             /\ approved(e.controls[k]) => g.controls[k].approved = e.controls[k].approved
  <2>1. k \in DOMAIN f.controls
    BY DEF Tightens
  <2>2. approved(e.controls[k]) => approved(f.controls[k])
    BY DEF Tightens, approved
  <2> QED BY <2>1, <2>2 DEF Tightens
<1> QED BY <1>1 DEF Tightens

\* A commit that leaves the controls alone restricts nothing.
LEMMA TightensReflexive ==
  ASSUME NEW e, NEW f, f.controls = e.controls, f.legacy = e.legacy
  PROVE  Tightens(e, f)
  BY DEF Tightens

\* An admission the check grants satisfies what the check looked at.
LEMMA CheckAdmits ==
  ASSUME NEW e, NEW key, NEW now, NEW package \in Packages,
         check(e, key, now, package) = "ok"
  PROVE  Admits(e, key, package)
<1> USE PolicyAssumption
<1>1. CASE key \notin DOMAIN e.controls
  BY <1>1 DEF check, Admits
<1>2. CASE key \in DOMAIN e.controls
  <2> DEFINE c == e.controls[key]
  <2>1. c.enabled
    BY <1>2 DEF check
  <2>2. ~ automatic(c)
    BY <1>2 DEF check
  <2>3. request_access(c) => /\ decision_key(key, package) \in DOMAIN e.controls
                             /\ e.controls[decision_key(key, package)].enabled
    BY <1>2, <2>1, <2>2 DEF check
  <2>4. ~ request_access(c) /\ c.personal => c.approved = package
    BY <1>2, <2>1, <2>2 DEF check
  <2> QED BY <1>2, <2>1, <2>3, <2>4 DEF Admits
<1> QED BY <1>1, <1>2

\* What each invitation action does to the controls, it does in one direction.
LEMMA ChangedTightens ==
  ASSUME NEW e, DecisionsBelong(e), NEW action, Changeable(e, action),
         action.op \in Creations => action.key \in Keys,
         action.op \in {"ApproveInvitation", "DeclineInvitationRequest"} =>
           action.key \in Keys /\ action.package \in Packages
  PROVE  /\ Tightens(e, changed(e, action))
         /\ DecisionsBelong(changed(e, action))
         /\ changed(e, action).admins = e.admins
<1> DEFINE f == changed(e, action)
<1> USE PolicyAssumption
<1>1. e = [admins |-> e.admins, legacy |-> e.legacy, controls |-> e.controls]
  BY DEF DecisionsBelong
<1>2. /\ f = [admins |-> f.admins, legacy |-> f.legacy, controls |-> f.controls]
      /\ f.admins = e.admins /\ f.controls = changed_controls(e, action)
      /\ f.legacy => e.legacy
  <2> DEFINE older == action.op = "DisableInvitation" /\ action.key = OlderInvitations
             legacy == e.legacy /\ ~ older
  <2>1. f = [[e EXCEPT !.controls = changed_controls(e, action)] EXCEPT !.legacy = legacy]
    BY <1>1 DEF changed
  <2> HIDE DEF older, legacy
  <2>2. f = [admins |-> e.admins, legacy |-> legacy, controls |-> changed_controls(e, action)]
    BY <1>1, <2>1
  <2>3. legacy => e.legacy
    BY DEF legacy
  <2> HIDE DEF f
  <2> QED BY <2>2, <2>3
<1>3. CASE action.op \in Creations
  <2>1. f.controls = Put(e.controls, action.key, created(action)) /\ action.key \notin DOMAIN e.controls
    BY <1>2, <1>3 DEF changed_controls, Changeable, Creations
  <2>2. IsControl(created(action)) /\ DOMAIN f.controls = DOMAIN e.controls \cup {action.key}
    BY <2>1 DEF IsControl, created, Put
  <2>3. \A k \in DOMAIN e.controls : f.controls[k] = e.controls[k]
    BY <2>1 DEF Put
  <2>4. Tightens(e, f)
    BY <1>2, <2>2, <2>3 DEF Tightens
  <2>5. \A k \in DOMAIN f.controls : IsControl(f.controls[k])
    BY <2>1, <2>2, <2>3 DEF DecisionsBelong, Put
  <2>6. \A k \in Keys, p \in Packages : <<k, p>> \in DOMAIN f.controls => <<k, p>> \in DOMAIN e.controls
    BY <1>3, <2>2, SMTT(30)
  <2> QED BY <1>2, <2>2, <2>3, <2>4, <2>5, <2>6 DEF DecisionsBelong
<1>4. ASSUME NEW yes \in BOOLEAN, action.key \in Keys, action.package \in Packages,
             action.key \in DOMAIN e.controls, request_access(e.controls[action.key]),
             decidable(e.controls, action.key, action.package),
             f.controls = decide(e.controls, action.key, action.package, yes)
      PROVE  Tightens(e, f) /\ DecisionsBelong(f)
  <2> DEFINE dk == <<action.key, action.package>>
  <2>1. DOMAIN f.controls = DOMAIN e.controls \cup {dk} /\ dk \notin DOMAIN e.controls
    BY <1>4 DEF decide, Put, decidable, decision_key
  <2>2. \A k \in DOMAIN e.controls : f.controls[k] = e.controls[k]
    BY <1>4, <2>1 DEF decide, Put, decision_key
  <2>3. IsControl(f.controls[dk])
    <3>1. f.controls[dk] = [expires |-> e.controls[action.key].expires, enabled |-> yes,
                            personal |-> TRUE, approved |-> action.package]
      BY <1>4 DEF decide, Put, decision_key
    <3> QED BY <3>1 DEF IsControl
  <2>4. Tightens(e, f)
    BY <1>2, <2>1, <2>2 DEF Tightens
  <2>5. \A k \in Keys, p \in Packages : <<k, p>> = dk => k = action.key
    OBVIOUS
  <2> QED BY <1>2, <1>4, <2>1, <2>2, <2>3, <2>4, <2>5, SMTT(30) DEF DecisionsBelong
<1>5. CASE action.op = "ApproveInvitation"
  <2>1. CASE request_access(e.controls[action.key])
    BY <1>2, <1>4, <1>5, <2>1 DEF Changeable, changed_controls, Creations
  <2>2. CASE ~ request_access(e.controls[action.key])
    <3> DEFINE c == e.controls[action.key]
    <3>1. /\ action.key \in DOMAIN e.controls /\ action.package \in Packages
          /\ c.personal /\ (c.approved = NoPackage \/ automatic(c))
          /\ f.controls = [e.controls EXCEPT ![action.key].approved = action.package]
      BY <1>2, <1>5, <2>2 DEF Changeable, changed_controls, Creations
    <3>2. DOMAIN f.controls = DOMAIN e.controls /\ IsControl(c)
      BY <3>1 DEF DecisionsBelong
    <3>3. f.controls[action.key] = [c EXCEPT !.approved = action.package]
      BY <3>1
    <3>4. /\ IsControl(f.controls[action.key])
          /\ f.controls[action.key].enabled = c.enabled
          /\ f.controls[action.key].personal = c.personal
          /\ f.controls[action.key].approved = action.package
      BY <3>2, <3>3 DEF IsControl
    <3>5. ~ request_access(f.controls[action.key]) /\ ~ approved(c)
      BY <3>1, <3>4 DEF request_access, approved, automatic
    <3>6. \A k \in DOMAIN e.controls : k # action.key => f.controls[k] = e.controls[k]
      BY <3>1
    <3>7. Tightens(e, f)
      BY <1>2, <2>2, <3>2, <3>4, <3>5, <3>6 DEF Tightens
    <3>8. \A k \in Keys : k \in DOMAIN e.controls /\ request_access(e.controls[k]) => request_access(f.controls[k])
      BY <2>2, <3>6
    <3> QED BY <1>2, <3>2, <3>4, <3>6, <3>7, <3>8 DEF DecisionsBelong
  <2> QED BY <1>2, <2>1, <2>2
<1>6. CASE action.op = "DeclineInvitationRequest"
  BY <1>2, <1>4, <1>6 DEF Changeable, changed_controls, Creations
<1>7. CASE action.op = "DisableInvitation"
  <2>1. CASE action.key = OlderInvitations
    <3>1. f.controls = e.controls
      BY <1>2, <1>7, <2>1 DEF changed_controls, Creations
    <3> QED BY <1>2, <3>1 DEF Tightens, DecisionsBelong
  <2>2. CASE action.key # OlderInvitations
    <3> DEFINE c == e.controls[action.key]
    <3>1. /\ action.key \in DOMAIN e.controls
          /\ f.controls = [e.controls EXCEPT ![action.key].enabled = FALSE]
      BY <1>2, <1>7, <2>2 DEF Changeable, changed_controls, Creations
    <3>2. DOMAIN f.controls = DOMAIN e.controls /\ IsControl(c)
      BY <3>1 DEF DecisionsBelong
    <3>3. f.controls[action.key] = [c EXCEPT !.enabled = FALSE]
      BY <3>1
    <3>4. /\ IsControl(f.controls[action.key])
          /\ f.controls[action.key].enabled = FALSE
          /\ f.controls[action.key].personal = c.personal
          /\ f.controls[action.key].approved = c.approved
      BY <3>2, <3>3 DEF IsControl
    <3>5. request_access(f.controls[action.key]) <=> request_access(c)
      BY <3>4 DEF request_access
    <3>6. \A k \in DOMAIN e.controls : k # action.key => f.controls[k] = e.controls[k]
      BY <3>1
    <3>7. Tightens(e, f)
      BY <1>2, <3>2, <3>4, <3>5, <3>6 DEF Tightens
    <3>8. \A k \in Keys : k \in DOMAIN e.controls => (request_access(f.controls[k]) <=> request_access(e.controls[k]))
      BY <3>5, <3>6
    <3> QED BY <1>2, <3>2, <3>4, <3>6, <3>7, <3>8 DEF DecisionsBelong
  <2> QED BY <1>2, <2>1, <2>2
<1> QED BY <1>2, <1>3, <1>5, <1>6, <1>7 DEF Changeable

\* Restrictions that hold along every branch are the ones the property names.
LEMMA TightBranchesRespect ==
  ASSUME TreeShape, BranchesTighten
  PROVE  InvitationsAreRespected
<1> USE PolicyAssumption
<1> SUFFICES ASSUME NEW n \in Nodes, NEW m \in tree[n].anc \ {n}, NEW kp \in Redeemed(n)
    PROVE LET before == tree[m].ext
              key == kp[1]
          IN  /\ key \in DOMAIN before.controls => before.controls[key].enabled
              /\ kp \in DOMAIN before.controls => before.controls[kp].enabled
              /\ before.legacy \/ key \in DOMAIN tree[n].ext.controls
              /\ key \in DOMAIN before.controls /\ approved(before.controls[key]) =>
                   before.controls[key].approved = kp[2]
              /\ \A earlier \in Redeemed(m) :
                   earlier[1] = key /\ SinglePackage(before, key) => earlier[2] = kp[2]
  BY DEF InvitationsAreRespected
<1> DEFINE e == tree[m].ext
           g == tree[n].ext
           key == kp[1]
           package == kp[2]
<1>1. m \in Nodes
  BY DEF TreeShape
<1>2. Tightens(e, g) /\ DecisionsBelong(e)
  BY <1>1 DEF BranchesTighten
<1>3. kp = <<key, package>> /\ key \in Keys /\ package \in Packages /\ Admits(g, key, package)
  BY DEF BranchesTighten
<1> HIDE DEF key, package, e, g
<1>4. key \in DOMAIN e.controls => e.controls[key].enabled
  BY <1>2, <1>3 DEF Tightens, Admits
<1>5. kp \in DOMAIN e.controls => e.controls[kp].enabled
  <2>1. HAVE kp \in DOMAIN e.controls
  <2>2. key \in DOMAIN e.controls /\ request_access(e.controls[key])
    BY <1>2, <1>3, <2>1 DEF DecisionsBelong
  <2>3. request_access(g.controls[key]) /\ key \in DOMAIN g.controls
    BY <1>2, <2>2 DEF Tightens
  <2>4. g.controls[kp].enabled
    BY <1>3, <2>3 DEF Admits, decision_key
  <2> QED BY <1>2, <2>1, <2>4 DEF Tightens
<1>6. e.legacy \/ key \in DOMAIN g.controls
  BY <1>2, <1>3 DEF Tightens, Admits
<1>7. key \in DOMAIN e.controls /\ approved(e.controls[key]) => e.controls[key].approved = package
  <2>1. HAVE key \in DOMAIN e.controls /\ approved(e.controls[key])
  <2>2. /\ g.controls[key].personal /\ key \in DOMAIN g.controls
        /\ g.controls[key].approved = e.controls[key].approved
        /\ ~ request_access(g.controls[key])
    BY <1>2, <2>1 DEF Tightens, approved, request_access
  <2> QED BY <1>3, <2>2 DEF Admits
<1>8. ASSUME NEW earlier \in Redeemed(m), earlier[1] = key, SinglePackage(e, key)
      PROVE  earlier[2] = package
  <2>1. earlier[2] \in Packages /\ Admits(e, key, earlier[2])
    BY <1>1, <1>8 DEF BranchesTighten, e
  <2>2. key \in DOMAIN e.controls /\ e.controls[key].approved = earlier[2] /\ approved(e.controls[key])
    BY <1>8, <2>1 DEF Admits, SinglePackage, approved
  <2> QED BY <1>7, <2>2
<1> QED BY <1>4, <1>5, <1>6, <1>7, <1>8 DEF key, package, e, g

-----------------------------------------------------------------------------
(* One more commit. *)

\* A commit whose extension tightens its parent's, keeps an administrator and
\* redeems only what that extension admits, keeps every branch sound.
LEMMA CommitKeepsBranches ==
  ASSUME TreeShape, BranchesTighten,
         AdminsAreMembers,
         NEW tip \in Nodes, NEW commit, NEW auth, tree' = Extended(tip, commit, auth),
         Tightens(tree[tip].ext, commit.ext), DecisionsBelong(commit.ext),
         commit.ext.admins # {},
         commit.ext.admins \subseteq merge_commit(Group(tip), commit).members,
         auth.kind \in {"Admission", "AdmissionBatch"} =>
           \A a \in Range(auth.auths) :
             a.key \in Keys /\ a.package \in Packages /\ Admits(commit.ext, a.key, a.package)
  PROVE  /\ TreeShape' /\ BranchesTighten' /\ AdminsAreMembers'
         /\ Nodes' = Nodes \cup {NewNode} /\ \A n \in Nodes : tree'[n] = tree[n]
         /\ tree'[NewNode].members = merge_commit(Group(tip), commit).members
<1> DEFINE node == [parent |-> tip, epoch |-> Epoch(tip) + 1,
                    anc |-> tree[tip].anc \cup {NewNode}, auth |-> auth,
                    actor |-> commit.actor, add |-> commit.add, remove |-> commit.remove,
                    members |-> merge_commit(Group(tip), commit).members,
                    ext |-> merge_commit(Group(tip), commit).ext]
<1>1. tree' = Append(tree, node)
  BY DEF Extended
<1>2. node.ext = commit.ext
  BY DEF merge_commit
<1> HIDE DEF node
<1>3. /\ IsSeq(tree') /\ Len(tree') # 0
      /\ Nodes' = Nodes \cup {NewNode} /\ tree'[NewNode] = node
      /\ \A n \in Nodes : tree'[n] = tree[n] /\ n # NewNode
  BY <1>1, AppendSeq, SMTT(30) DEF TreeShape, Nodes, NewNode
<1>4. /\ node.anc = tree[tip].anc \cup {NewNode} /\ node.auth = auth
      /\ node.members = merge_commit(Group(tip), commit).members
  BY DEF node
<1>5. TreeShape'
  BY <1>3, <1>4 DEF TreeShape, IsSeq
<1>6. ASSUME NEW n \in Nodes PROVE Redeemed(n)' = Redeemed(n)
  BY <1>3 DEF Redeemed
<1>0. PICK new \in Nat : new = NewNode
  BY AppendSeq DEF TreeShape, NewNode
<1>7. ASSUME NEW kp \in Redeemed(new)'
      PROVE  kp = <<kp[1], kp[2]>> /\ kp[1] \in Keys /\ kp[2] \in Packages /\ Admits(commit.ext, kp[1], kp[2])
  <2>1. auth.kind \in {"Admission", "AdmissionBatch"} /\ \E a \in Range(auth.auths) : kp = <<a.key, a.package>>
    <3>1. tree'[new].auth = auth
      BY <1>0, <1>3, <1>4
    <3> QED BY <3>1 DEF Redeemed
  <2> QED BY <2>1, SMTT(30)
<1>8. ASSUME NEW m \in node.anc PROVE Tightens(tree'[m].ext, commit.ext)
  <2>1. CASE m = NewNode
    <3>1. tree'[m].ext = commit.ext
      BY <1>2, <1>3, <2>1
    <3> QED BY <3>1, TightensReflexive
  <2>2. CASE m \in tree[tip].anc
    <3>1. m \in Nodes /\ Tightens(tree[m].ext, tree[tip].ext)
      BY <2>2 DEF TreeShape, BranchesTighten
    <3> QED BY <1>3, <3>1, TightensTransitive
  <2> QED BY <1>4, <2>1, <2>2
<1>9. ASSUME NEW n \in Nodes'
      PROVE  /\ DecisionsBelong(tree'[n].ext)
             /\ \A m \in tree'[n].anc : Tightens(tree'[m].ext, tree'[n].ext)
             /\ \A kp \in Redeemed(n)' :
                  /\ kp = <<kp[1], kp[2]>> /\ kp[1] \in Keys /\ kp[2] \in Packages
                  /\ Admits(tree'[n].ext, kp[1], kp[2])
  <2>1. CASE n = NewNode
    <3>1. tree'[n] = node /\ node.ext = commit.ext
      BY <1>2, <1>3, <2>1
    <3>2. \A m \in tree'[n].anc : Tightens(tree'[m].ext, commit.ext)
      BY <1>8, <3>1
    <3>3. \A kp \in Redeemed(n)' :
            /\ kp = <<kp[1], kp[2]>> /\ kp[1] \in Keys /\ kp[2] \in Packages
            /\ Admits(commit.ext, kp[1], kp[2])
      <4>1. n = new
        BY <1>0, <2>1
      <4> QED BY <1>7, <4>1
    <3> QED BY <3>1, <3>2, <3>3
  <2>2. CASE n \in Nodes
    <3>1. tree'[n] = tree[n] /\ \A m \in tree[n].anc : m \in Nodes /\ tree'[m] = tree[m]
      BY <1>3, <2>2 DEF TreeShape
    <3> QED BY <1>6, <2>2, <3>1 DEF BranchesTighten
  <2> QED BY <1>3, <2>1, <2>2
<1>10. BranchesTighten'
  BY <1>9 DEF BranchesTighten, DecisionsBelong, IsControl, Tightens, Admits, request_access, approved, decision_key
<1>11. AdminsAreMembers'
  BY <1>2, <1>3, <1>4 DEF AdminsAreMembers
<1> QED BY <1>3, <1>4, <1>5, <1>10, <1>11

\* One device's copy changes, on a tree that only grew.
LEMMA OwnerMoves ==
  ASSUME OwnersHoldCommits, NEW d \in Devices, NEW o, owner' = [owner EXCEPT ![d] = o],
         Nodes \subseteq Nodes', \A n \in Nodes : tree'[n] = tree[n],
         o.tip # 0 =>
           /\ o.tip \in Nodes'
           /\ o = [tip |-> o.tip, me |-> o.me, history |-> o.history,
                   admissions |-> o.admissions, checkpoints |-> o.checkpoints]
           /\ o.me \in tree'[o.tip].members
           /\ IsSeq(o.admissions)
           /\ \A a \in Range(o.admissions) :
                a.node \in Nodes' /\ a.request.package \in tree'[a.node].members
  PROVE  OwnersHoldCommits'
<1>1. DOMAIN owner' = Devices /\ owner'[d] = o /\ \A c \in Devices : c # d => owner'[c] = owner[c]
  BY DEF OwnersHoldCommits
<1>2. ASSUME NEW c \in Devices, owner'[c].tip # 0
      PROVE  HoldsCommits(owner[c])'
  <2>1. CASE c = d
    BY <1>1, <1>2, <2>1 DEF HoldsCommits
  <2>2. CASE c # d
    <3>1. HoldsCommits(owner[c]) /\ owner'[c] = owner[c]
      BY <1>1, <1>2, <2>2 DEF OwnersHoldCommits
    <3> QED BY <3>1 DEF HoldsCommits
  <2> QED BY <2>1, <2>2
<1> QED BY <1>1, <1>2 DEF OwnersHoldCommits

\* An actor's own management commit: its extension and its members.
LEMMA ManagementCommit ==
  ASSUME GroupInv, NEW o, HoldsCommits(o), NEW action, prepare_management(o, action),
         action.op \in Creations => action.key \in Keys,
         action.op \in {"ApproveInvitation", "DeclineInvitationRequest"} =>
           action.key \in Keys /\ action.package \in Packages,
         NEW commit, commit = management_commit(Group(o.tip), o.me, action)
  PROVE  /\ Tightens(tree[o.tip].ext, commit.ext) /\ DecisionsBelong(commit.ext)
         /\ commit.ext.admins # {}
         /\ commit.ext.admins \subseteq merge_commit(Group(o.tip), commit).members
         /\ o.me \in merge_commit(Group(o.tip), commit).members
<1> DEFINE e == tree[o.tip].ext
           members == tree[o.tip].members
<1>1. /\ DecisionsBelong(e) /\ o.me \in members
      /\ e.admins # {} /\ e.admins \subseteq members
      /\ Group(o.tip).ext = e /\ Group(o.tip).members = members
  BY DEF GroupInv, HoldsCommits, BranchesTighten, AdminsAreMembers, Group
<1>2. e = [admins |-> e.admins, legacy |-> e.legacy, controls |-> e.controls]
  BY <1>1 DEF DecisionsBelong
<1>3. CASE action.op \in MemberActions
  <2> DEFINE admins == replace_admins(e.admins, action)
             gone == IF removes(action) THEN {action.id} ELSE {}
  <2>1. RoleAllows(Group(o.tip), o.me, action)
    BY <1>3 DEF prepare_management
  <2>2. commit.ext = [e EXCEPT !.admins = admins] /\ commit.remove = gone /\ commit.add = <<>>
    BY <1>1, <1>3 DEF management_commit, Commit
  <2>3. merge_commit(Group(o.tip), commit).members = members \ gone
    BY <1>1, <2>2, SMTT(30) DEF merge_commit, Range
  <2>4. /\ admins # {} /\ action.id \in members /\ (removes(action) => action.id # o.me)
    BY <1>1, <2>1 DEF RoleAllows
  <2>5. admins \subseteq members \ gone
    BY <1>1, <1>3, <2>4 DEF replace_admins, removes, MemberActions
  <2> HIDE DEF admins
  <2>6. /\ commit.ext = [admins |-> admins, legacy |-> e.legacy, controls |-> e.controls]
    BY <1>2, <2>2
  <2>7. commit.ext.admins = admins /\ commit.ext.legacy = e.legacy /\ commit.ext.controls = e.controls
    BY <2>6, SMTT(30)
  <2>8. Tightens(e, commit.ext)
    BY <2>7, TightensReflexive
  <2>9. DecisionsBelong(commit.ext)
    BY <1>1, <2>6, <2>7 DEF DecisionsBelong
  <2> QED BY <1>1, <2>3, <2>4, <2>5, <2>7, <2>8, <2>9
<1>4. CASE action.op \notin MemberActions
  <2>1. Changeable(e, action)
    BY <1>4 DEF prepare_management
  <2>2. commit.ext = changed(e, action) /\ commit.remove = {} /\ commit.add = <<>>
    BY <1>1, <1>4 DEF management_commit, Commit
  <2>3. merge_commit(Group(o.tip), commit).members = members
    BY <1>1, <2>2, SMTT(30) DEF merge_commit, Range
  <2>4. Tightens(e, commit.ext) /\ DecisionsBelong(commit.ext) /\ commit.ext.admins = e.admins
    BY <1>1, <2>1, <2>2, ChangedTightens, SMTT(30)
  <2> QED BY <1>1, <2>3, <2>4
<1> QED BY <1>3, <1>4

\* What replacing three of an owner's fields leaves.
LEMMA OwnerUpdated ==
  ASSUME NEW o, o = [tip |-> o.tip, me |-> o.me, history |-> o.history,
                     admissions |-> o.admissions, checkpoints |-> o.checkpoints],
         NEW tip, NEW history, NEW checkpoints, NEW next,
         next = [o EXCEPT !.tip = tip, !.history = history, !.checkpoints = checkpoints]
  PROVE  next = [tip |-> tip, me |-> o.me, history |-> history,
                 admissions |-> o.admissions, checkpoints |-> checkpoints]
  OBVIOUS

\* Committing a management action, with or without a new invitation.
LEMMA ManagementStep ==
  ASSUME GroupInv, NEW d \in Devices, IsOwner(d), NEW action, prepare_management(owner[d], action),
         action.op \in Creations => action.key \in Keys,
         action.op \in {"ApproveInvitation", "DeclineInvitationRequest"} =>
           action.key \in Keys /\ action.package \in Packages,
         tree' = Extended(owner[d].tip, management_commit(Group(owner[d].tip), owner[d].me, action),
                          Management(action)),
         NEW history, NEW checkpoints,
         owner' = [owner EXCEPT ![d] =
           [owner[d] EXCEPT !.tip = NewNode, !.history = history, !.checkpoints = checkpoints]],
         TokensTyped'
  PROVE  GroupInv'
<1> DEFINE o == owner[d]
           commit == management_commit(Group(o.tip), o.me, action)
           next == [o EXCEPT !.tip = NewNode, !.history = history, !.checkpoints = checkpoints]
<1>1. HoldsCommits(o) /\ o.tip \in Nodes
  BY DEF GroupInv, OwnersHoldCommits, IsOwner, HoldsCommits
<1>2. /\ Tightens(tree[o.tip].ext, commit.ext) /\ DecisionsBelong(commit.ext)
      /\ commit.ext.admins # {}
      /\ commit.ext.admins \subseteq merge_commit(Group(o.tip), commit).members
      /\ o.me \in merge_commit(Group(o.tip), commit).members
  BY <1>1, ManagementCommit
<1>3. Management(action).kind \notin {"Admission", "AdmissionBatch"}
  BY DEF Management
<1> HIDE DEF commit
<1>4. tree' = Extended(o.tip, commit, Management(action))
  BY DEF commit
<1>5. /\ TreeShape' /\ BranchesTighten' /\ AdminsAreMembers'
      /\ Nodes' = Nodes \cup {NewNode} /\ \A n \in Nodes : tree'[n] = tree[n]
      /\ tree'[NewNode].members = merge_commit(Group(o.tip), commit).members
  BY <1>1, <1>2, <1>3, <1>4, CommitKeepsBranches DEF GroupInv
<1>6. /\ next = [tip |-> NewNode, me |-> o.me, history |-> history,
                 admissions |-> o.admissions, checkpoints |-> checkpoints]
  <2>1. PICK old : old = owner[d]
    OBVIOUS
  <2>2. PICK new : new = next
    OBVIOUS
  <2>3. old = [tip |-> old.tip, me |-> old.me, history |-> old.history,
               admissions |-> old.admissions, checkpoints |-> old.checkpoints]
    BY <1>1, <2>1 DEF HoldsCommits
  <2>4. new = [old EXCEPT !.tip = NewNode, !.history = history, !.checkpoints = checkpoints]
    BY <2>1, <2>2
  <2>5. new = [tip |-> NewNode, me |-> old.me, history |-> history,
               admissions |-> old.admissions, checkpoints |-> checkpoints]
    BY <2>3, <2>4, OwnerUpdated
  <2> QED BY <2>1, <2>2, <2>5
<1>7. /\ next.tip = NewNode /\ next.me = o.me /\ next.admissions = o.admissions
      /\ next = [tip |-> next.tip, me |-> next.me, history |-> next.history,
                 admissions |-> next.admissions, checkpoints |-> next.checkpoints]
  BY <1>6
<1> HIDE DEF next
<1>8. /\ IsSeq(next.admissions)
      /\ \A a \in Range(next.admissions) : a.node \in Nodes' /\ a.request.package \in tree'[a.node].members
  BY <1>1, <1>5, <1>7 DEF HoldsCommits
<1>9. owner' = [owner EXCEPT ![d] = next]
  BY DEF next
<1>10. OwnersHoldCommits'
  BY <1>2, <1>5, <1>7, <1>8, <1>9, OwnerMoves DEF GroupInv
<1> QED BY <1>5, <1>10 DEF GroupInv

\* Tokens that do not change keep their types.
LEMMA TokensKept ==
  ASSUME GroupInv, UNCHANGED <<pending, invitations, requests, leaves, plan>>
  PROVE  TokensTyped'
  BY DEF GroupInv, TokensTyped

\* A management action without a new invitation (prepare_management).
LEMMA ManagedKeepsInv ==
  ASSUME GroupInv, NEW d \in Devices, NEW action, Managed(d, action),
         UNCHANGED <<pending, invitations, requests, leaves, plan>>,
         action.op \notin Creations,
         action.op \in {"ApproveInvitation", "DeclineInvitationRequest"} =>
           action.key \in Keys /\ action.package \in Packages
  PROVE  GroupInv'
<1> DEFINE o == owner[d]
           history == append_history(o, Management(action), NewNode)
           checkpoints == IF action.op \in MemberActions THEN o.checkpoints
                          ELSE prune_invitation_checkpoints(o.checkpoints,
                                 management_commit(Group(o.tip), o.me, action).ext)
<1>1. TokensTyped'
  BY TokensKept
<1>2. /\ IsOwner(d) /\ prepare_management(o, action)
      /\ tree' = Extended(o.tip, management_commit(Group(o.tip), o.me, action), Management(action))
      /\ owner' = [owner EXCEPT ![d] =
           [o EXCEPT !.tip = NewNode, !.history = history, !.checkpoints = checkpoints]]
  BY DEF Managed
<1> HIDE DEF history, checkpoints
<1> QED BY <1>1, <1>2, ManagementStep

\* A registered invitation, created and retained in one commit (prepare_invitation_mode).
LEMMA InvitationKeepsInv ==
  ASSUME GroupInv, NEW d \in Devices, NEW key \in Keys, NEW kind, NEW expires,
         kind.op \in Creations,
         prepare_invitation_mode(d, key, kind, expires)
  PROVE  GroupInv'
<1> DEFINE o == owner[d]
           action == [op |-> kind.op, personal |-> kind.personal, key |-> key, expires |-> expires]
           inv == [key |-> key, pin |-> Checkpoint(NewNode, o.me)]
           history == append_history(o, Management(action), NewNode)
           after == merge_commit(Group(o.tip), management_commit(Group(o.tip), o.me, action))
           checkpoints == prune_invitation_checkpoints(o.checkpoints, after.ext) \cup {inv}
<1>1. /\ invitations' = invitations \cup {inv} /\ UNCHANGED <<pending, requests, leaves, plan>>
      /\ inv.key \in Keys
  BY DEF prepare_invitation_mode
<1>2. TokensTyped'
  BY <1>1 DEF GroupInv, TokensTyped
<1>3. /\ IsOwner(d) /\ prepare_management(o, action)
      /\ tree' = Extended(o.tip, management_commit(Group(o.tip), o.me, action), Management(action))
      /\ owner' = [owner EXCEPT ![d] =
           [o EXCEPT !.tip = NewNode, !.history = history, !.checkpoints = checkpoints]]
  BY DEF prepare_invitation_mode
<1>4. action.key \in Keys /\ action.op \notin {"ApproveInvitation", "DeclineInvitationRequest"}
  BY DEF Creations
<1> HIDE DEF history, checkpoints, action
<1> QED BY <1>2, <1>3, <1>4, ManagementStep

-----------------------------------------------------------------------------
(* Admissions, accepted steps and joins. *)

\* What an admission replaces in its owner.
LEMMA AdmitterUpdated ==
  ASSUME NEW o, o = [tip |-> o.tip, me |-> o.me, history |-> o.history,
                     admissions |-> o.admissions, checkpoints |-> o.checkpoints],
         NEW tip, NEW history, NEW admissions, NEW next,
         next = [o EXCEPT !.tip = tip, !.history = history, !.admissions = admissions]
  PROVE  next = [tip |-> tip, me |-> o.me, history |-> history,
                 admissions |-> admissions, checkpoints |-> o.checkpoints]
  OBVIOUS

\* A function over a batch's positions is a sequence over its values.
LEMMA BatchSeq ==
  ASSUME NEW S, NEW n \in Nat, NEW f \in [1..n -> S]
  PROVE  IsSeq(f)
<1>1. f \in Seq(S)
  BY SMTT(30)
<1> QED BY <1>1, ListOfItsRange DEF IsSeq

\* One batch of requests admitted, each through an invitation the check grants.
LEMMA AdmissionKeepsInv ==
  ASSUME GroupInv, NEW d \in Devices, NEW batch \in Batches,
         prepare_validated_admission_batch(d, batch)
  PROVE  GroupInv'
<1> DEFINE auths == [i \in DOMAIN batch |-> Authorization(batch[i])]
           adds == [i \in DOMAIN batch |-> batch[i].package]
           replies == [i \in DOMAIN batch |->
                         [request |-> batch[i], auth |-> auths[i], node |-> NewNode]]
           commit == Commit(owner[d].me, adds, {}, tree[owner[d].tip].ext)
           history == IF Len(batch) > 1 \/ owner[d].history # NoHistory
                      THEN append_history(owner[d], Adds(auths), NewNode) ELSE owner[d].history
<1>0. PICK old : old = owner[d]
  OBVIOUS
<1>1. /\ IsOwner(d)
      /\ \A i \in DOMAIN batch : check_validated_admission(old, batch[i])
      /\ tree' = Extended(old.tip, commit, Adds(auths))
      /\ owner' = [owner EXCEPT ![d] =
           [owner[d] EXCEPT !.tip = NewNode, !.history = history, !.admissions = @ \o replies]]
      /\ UNCHANGED <<pending, invitations, requests, leaves, plan>>
  BY <1>0 DEF prepare_validated_admission_batch
<1>2. HoldsCommits(old) /\ old.tip \in Nodes
  BY <1>0, <1>1 DEF GroupInv, OwnersHoldCommits, IsOwner, HoldsCommits
<1>3. PICK n \in Nat : batch \in [1..n -> requests]
  BY SMTT(30) DEF Batches
<1>4. \A i \in DOMAIN batch :
        batch[i] \in requests /\ batch[i].package \in Packages /\ batch[i].inv.key \in Keys
  BY <1>3 DEF GroupInv, TokensTyped
<1>5. \A i \in DOMAIN batch :
        Admits(tree[old.tip].ext, batch[i].inv.key, batch[i].package)
  BY <1>1, <1>4, CheckAdmits DEF check_validated_admission
<1>6. \A a \in Range(Adds(auths).auths) :
        a.key \in Keys /\ a.package \in Packages /\ Admits(tree[old.tip].ext, a.key, a.package)
  BY <1>4, <1>5, SMTT(30) DEF Adds, Authorization, Range
<1>7. commit.ext = tree[old.tip].ext /\ commit.add = adds /\ commit.remove = {}
  BY <1>0 DEF Commit
<1>8. merge_commit(Group(old.tip), commit).members = tree[old.tip].members \cup Range(adds)
  BY <1>7 DEF merge_commit, Group
<1>9. /\ Tightens(tree[old.tip].ext, commit.ext) /\ DecisionsBelong(commit.ext)
      /\ commit.ext.admins # {}
      /\ commit.ext.admins \subseteq merge_commit(Group(old.tip), commit).members
  BY <1>2, <1>7, <1>8, TightensReflexive DEF GroupInv, BranchesTighten, AdminsAreMembers
<1>10. PICK made : made = commit
  OBVIOUS
<1>11. PICK auth : auth = Adds(auths)
  OBVIOUS
<1>12. PICK answered : answered = replies
  OBVIOUS
<1>13. IsSeq(answered) /\ \A a \in Range(answered) :
         a.node = NewNode /\ a.request.package \in Range(adds)
  <2>1. answered \in [1..n -> Range(answered)]
    BY <1>3, <1>12 DEF Range
  <2>2. \A x \in Range(answered) : \E i \in 1..n : x = answered[i]
    BY <2>1 DEF Range
  <2>3. IsSeq(answered)
    BY <2>1, BatchSeq
  <2>4. \A i \in 1..n : answered[i].node = NewNode /\ answered[i].request = batch[i]
    BY <1>3, <1>12
  <2>5. \A i \in 1..n : batch[i].package \in Range(adds)
    BY <1>3 DEF Range
  <2> QED BY <2>2, <2>3, <2>4, <2>5, SMTT(30)
<1>14. PICK kept : kept = history
  OBVIOUS
<1>15. PICK new : new = [old EXCEPT !.tip = NewNode, !.history = kept,
                                   !.admissions = old.admissions \o answered]
  OBVIOUS
<1>16. owner' = [owner EXCEPT ![d] = new]
  BY <1>0, <1>1, <1>12, <1>14, <1>15
<1>17. PICK added : added = Range(adds)
  OBVIOUS
<1> HIDE DEF auths, adds, replies, commit, history
<1>18. new = [tip |-> NewNode, me |-> old.me, history |-> kept,
              admissions |-> old.admissions \o answered, checkpoints |-> old.checkpoints]
  BY <1>2, <1>15, AdmitterUpdated DEF HoldsCommits
<1>19. /\ TreeShape' /\ BranchesTighten' /\ AdminsAreMembers'
       /\ Nodes' = Nodes \cup {NewNode} /\ \A m \in Nodes : tree'[m] = tree[m]
       /\ tree'[NewNode].members = merge_commit(Group(old.tip), made).members
  <2>1. tree' = Extended(old.tip, made, auth)
    BY <1>1, <1>10, <1>11
  <2>2. \A a \in Range(auth.auths) :
          a.key \in Keys /\ a.package \in Packages /\ Admits(made.ext, a.key, a.package)
    BY <1>6, <1>7, <1>10, <1>11
  <2> QED BY <1>2, <1>9, <1>10, <2>1, <2>2, CommitKeepsBranches DEF GroupInv
<1>20. tree'[NewNode].members = tree[old.tip].members \cup added
  BY <1>8, <1>10, <1>17, <1>19
<1>21. /\ new.tip = NewNode /\ new.me = old.me /\ new.admissions = old.admissions \o answered
       /\ new = [tip |-> new.tip, me |-> new.me, history |-> new.history,
                 admissions |-> new.admissions, checkpoints |-> new.checkpoints]
  BY <1>18
<1>22. /\ IsSeq(old.admissions \o answered)
       /\ Range(old.admissions \o answered) = Range(old.admissions) \cup Range(answered)
  BY <1>2, <1>13, ConcatSeq DEF HoldsCommits
<1>23. \A a \in Range(new.admissions) :
         a.node \in Nodes' /\ a.request.package \in tree'[a.node].members
  BY <1>2, <1>13, <1>17, <1>19, <1>20, <1>21, <1>22 DEF HoldsCommits
<1>24. new.me \in tree'[new.tip].members
  BY <1>2, <1>20, <1>21 DEF HoldsCommits
<1>25. OwnersHoldCommits'
  BY <1>16, <1>19, <1>21, <1>22, <1>23, <1>24, OwnerMoves DEF GroupInv
<1>26. TokensTyped'
  BY <1>1, TokensKept
<1> QED BY <1>19, <1>25, <1>26 DEF GroupInv

\* A step served by a peer and accepted, or a removal that ends the copy.
LEMMA UpdateKeepsInv ==
  ASSUME GroupInv, NEW d \in Devices, NEW peer \in Devices, stage_update(d, peer)
  PROVE  GroupInv'
<1>1. PICK old : old = owner[d]
  OBVIOUS
<1>2. PICK step : step = membership_update_for(owner[peer], d, Epoch(owner[d].tip))[1]
  OBVIOUS
<1>3. PICK new : new = Accepted(old, owner[peer], step)
  OBVIOUS
<1>4. /\ IsOwner(d) /\ Accepts(old, owner[peer], step)
      /\ owner' = [owner EXCEPT ![d] = new]
      /\ UNCHANGED <<tree, pending, invitations, requests, leaves, plan>>
  BY <1>1, <1>2, <1>3 DEF stage_update
<1>5. step.node \in Nodes
  BY <1>4 DEF Accepts, Applies, Nodes
<1>6. HoldsCommits(old)
  BY <1>1, <1>4 DEF GroupInv, OwnersHoldCommits, IsOwner
<1>7. new.tip # 0 =>
        /\ new.tip \in Nodes
        /\ new = [tip |-> new.tip, me |-> new.me, history |-> new.history,
                  admissions |-> new.admissions, checkpoints |-> new.checkpoints]
        /\ new.me \in tree[new.tip].members
        /\ new.admissions = old.admissions
  <2>1. CASE old.me \notin tree[step.node].members
    BY <1>3, <2>1 DEF Accepted, NoOwner
  <2>2. CASE old.me \in tree[step.node].members
    <3>1. PICK history : history = append_history(old, step.auth, step.node)
      OBVIOUS
    <3>2. PICK checkpoints : checkpoints =
            IF step.auth.kind # "Management" THEN old.checkpoints
            ELSE prune_invitation_checkpoints(old.checkpoints, tree[step.node].ext)
                   \cup retained_invitation_checkpoint(owner[peer], step.auth)
      OBVIOUS
    <3>3. new = [old EXCEPT !.tip = step.node, !.history = history, !.checkpoints = checkpoints]
      BY <1>3, <2>2, <3>1, <3>2 DEF Accepted
    <3>4. new = [tip |-> step.node, me |-> old.me, history |-> history,
                 admissions |-> old.admissions, checkpoints |-> checkpoints]
      BY <1>6, <3>3, OwnerUpdated DEF HoldsCommits
    <3> QED BY <1>5, <2>2, <3>4
  <2> QED BY <2>1, <2>2
<1>8. Nodes' = Nodes /\ tree' = tree
  BY <1>4 DEF Nodes
<1>9. OwnersHoldCommits'
  BY <1>4, <1>6, <1>7, <1>8, OwnerMoves DEF GroupInv, HoldsCommits
<1>10. TokensTyped'
  BY <1>4, TokensKept
<1>11. TreeShape' /\ BranchesTighten' /\ AdminsAreMembers'
  BY <1>8 DEF GroupInv, TreeShape, BranchesTighten, AdminsAreMembers, Redeemed
<1> QED BY <1>9, <1>10, <1>11 DEF GroupInv

\* A joiner opens the Welcome of a commit that made it a member.
LEMMA JoinKeepsInv ==
  ASSUME GroupInv, NEW d \in Devices, NEW peer \in Devices, prepare_workspace(d, peer)
  PROVE  GroupInv'
<1>1. PICK r : r = Request(pending[d].package, pending[d].inv)
  OBVIOUS
<1>2. PICK reply : reply = Retained(owner[peer], r)
  OBVIOUS
<1>3. PICK history : history = [start |-> r.inv.pin, steps |-> admission_reply_page(owner[peer], r).steps]
  OBVIOUS
<1>4. PICK new : new = [tip |-> reply.node, me |-> r.package, history |-> history,
                        admissions |-> <<>>, checkpoints |-> {}]
  OBVIOUS
<1>5. /\ IsOwner(peer) /\ retained_admission(owner[peer], r) = "reply"
      /\ owner' = [owner EXCEPT ![d] = new]
      /\ pending' = [pending EXCEPT ![d] = NoPending]
      /\ UNCHANGED <<tree, invitations, requests, leaves, plan>>
  BY <1>1, <1>2, <1>3, <1>4 DEF prepare_workspace
<1>6. reply \in Range(owner[peer].admissions) /\ reply.request = r
  <2>1. HasRetained(owner[peer], r)
    BY <1>5 DEF retained_admission
  <2> QED BY <1>2, <2>1 DEF HasRetained, Retained
<1>7. reply.node \in Nodes /\ r.package \in tree[reply.node].members
  BY <1>5, <1>6 DEF GroupInv, OwnersHoldCommits, HoldsCommits, IsOwner
<1>8. /\ new.tip = reply.node /\ new.me = r.package /\ new.admissions = <<>>
      /\ new = [tip |-> new.tip, me |-> new.me, history |-> new.history,
                admissions |-> new.admissions, checkpoints |-> new.checkpoints]
  BY <1>4
<1>9. IsSeq(<<>>) /\ Range(<<>>) = {}
  BY SMTT(30) DEF IsSeq, Range
<1>10. Nodes' = Nodes /\ tree' = tree
  BY <1>5 DEF Nodes
<1>11. OwnersHoldCommits'
  BY <1>5, <1>7, <1>8, <1>9, <1>10, OwnerMoves DEF GroupInv
<1>12. TokensTyped'
  BY <1>5 DEF GroupInv, TokensTyped, NoPending
<1>13. TreeShape' /\ BranchesTighten' /\ AdminsAreMembers'
  BY <1>10 DEF GroupInv, TreeShape, BranchesTighten, AdminsAreMembers, Redeemed
<1> QED BY <1>11, <1>12, <1>13 DEF GroupInv

\* What leaves every commit and every copy alone keeps the invariant if it keeps
\* the tokens typed.
LEMMA TokensMove ==
  ASSUME GroupInv, UNCHANGED <<tree, owner>>, TokensTyped'
  PROVE  GroupInv'
<1>1. Nodes' = Nodes
  BY DEF Nodes
<1>2. TreeShape' /\ BranchesTighten' /\ AdminsAreMembers'
  BY <1>1 DEF GroupInv, TreeShape, BranchesTighten, AdminsAreMembers, Redeemed
<1>3. OwnersHoldCommits'
  BY <1>1 DEF GroupInv, OwnersHoldCommits, HoldsCommits
<1> QED BY <1>2, <1>3 DEF GroupInv

\* The created workspace has one member, its administrator, and no control.
LEMMA InitGroupInv == Init => GroupInv
<1> SUFFICES ASSUME Init PROVE GroupInv
  OBVIOUS
<1> USE PolicyAssumption, GroupAssumption
<1>1. PICK node : /\ tree = <<node>> /\ node.anc = {1} /\ node.auth.kind = "Create"
                  /\ node.members = {Founder}
                  /\ node.ext = [admins |-> {Founder}, legacy |-> TRUE, controls |-> <<>>]
  <2>1. PICK node : node =
          [parent |-> 0, epoch |-> 0, anc |-> {1}, auth |-> [kind |-> "Create"],
           actor |-> Founder, add |-> <<>>, remove |-> {}, members |-> {Founder},
           ext |-> [admins |-> {Founder}, legacy |-> TRUE, controls |-> <<>>]]
    OBVIOUS
  <2>2. tree = <<node>>
    BY <2>1 DEF Init
  <2>3. /\ node.anc = {1} /\ node.auth.kind = "Create" /\ node.members = {Founder}
        /\ node.ext = [admins |-> {Founder}, legacy |-> TRUE, controls |-> <<>>]
    BY <2>1
  <2> QED BY <2>2, <2>3
<1>2. Nodes = {1} /\ tree[1] = node /\ Len(tree) = 1
  BY <1>1, SMTT(30) DEF Nodes
<1>3. TreeShape
  <2>1. tree \in Seq({node})
    BY <1>1, SMTT(30)
  <2>2. IsSeq(tree)
    BY <2>1, ListOfItsRange DEF IsSeq
  <2> QED BY <1>1, <1>2, <2>2, SMTT(30) DEF TreeShape
<1>4. DecisionsBelong(node.ext)
  <2>1. DOMAIN node.ext.controls = {}
    BY <1>1, SMTT(30)
  <2>2. node.ext = [admins |-> node.ext.admins, legacy |-> node.ext.legacy,
                    controls |-> node.ext.controls]
    BY <1>1
  <2> QED BY <2>1, <2>2 DEF DecisionsBelong
<1>5. BranchesTighten
  <2>1. Redeemed(1) = {}
    BY <1>1, <1>2 DEF Redeemed
  <2>2. Tightens(node.ext, node.ext)
    BY TightensReflexive
  <2> QED BY <1>1, <1>2, <1>4, <2>1, <2>2 DEF BranchesTighten
<1>6. AdminsAreMembers
  BY <1>1, <1>2, SMTT(30) DEF AdminsAreMembers
<1>7. TokensTyped
  BY DEF Init, TokensTyped, NoPending
<1>8. OwnersHoldCommits
  <2>1. PICK first : first = [tip |-> 1, me |-> Founder, history |-> NoHistory,
                              admissions |-> <<>>, checkpoints |-> {}]
    OBVIOUS
  <2>2. DOMAIN owner = Devices
    BY DEF Init
  <2>3. \A d \in Devices : owner[d] = first \/ owner[d] = NoOwner
    BY <2>1 DEF Init
  <2>4. IsSeq(<<>>) /\ Range(<<>>) = {}
    BY SMTT(30) DEF IsSeq, Range
  <2>5. /\ first.tip = 1 /\ first.me = Founder /\ first.admissions = <<>>
        /\ first = [tip |-> first.tip, me |-> first.me, history |-> first.history,
                    admissions |-> first.admissions, checkpoints |-> first.checkpoints]
    BY <2>1
  <2>6. HoldsCommits(first)
    BY <1>1, <1>2, <2>4, <2>5 DEF HoldsCommits
  <2>7. NoOwner.tip = 0
    BY DEF NoOwner
  <2> QED BY <2>2, <2>3, <2>6, <2>7 DEF OwnersHoldCommits
<1> QED BY <1>3, <1>5, <1>6, <1>7, <1>8 DEF GroupInv

\* Every step of every member and joiner keeps the invariant.
LEMMA StepGroupInv == GroupInv /\ [Next]_vars => GroupInv'
<1> SUFFICES ASSUME GroupInv, [Next]_vars PROVE GroupInv'
  OBVIOUS
<1> USE PolicyAssumption, GroupAssumption
<1>1. ASSUME NEW d \in Devices, leave_action(d) PROVE GroupInv'
  <2>1. /\ leaves' = leaves \cup {[op |-> "Leave", id |-> owner[d].me, context |-> owner[d].tip]}
        /\ UNCHANGED <<tree, owner, pending, invitations, requests, plan>>
    BY <1>1 DEF leave_action
  <2>2. TokensTyped'
    BY <2>1, SMTT(30) DEF GroupInv, TokensTyped
  <2> QED BY <2>1, <2>2, TokensMove
<1>2. ASSUME NEW d \in Devices, prepare_solo_leave(d) PROVE GroupInv'
  <2>1. /\ owner' = [owner EXCEPT ![d] = NoOwner] /\ NoOwner.tip = 0
        /\ UNCHANGED <<tree, pending, invitations, requests, leaves, plan>>
    BY <1>2 DEF prepare_solo_leave, NoOwner
  <2>2. Nodes' = Nodes
    BY <2>1 DEF Nodes
  <2>3. OwnersHoldCommits'
    BY <2>1, <2>2, OwnerMoves DEF GroupInv
  <2>4. TokensTyped'
    BY <2>1, TokensKept
  <2>5. TreeShape' /\ BranchesTighten' /\ AdminsAreMembers'
    BY <2>1, <2>2 DEF GroupInv, TreeShape, BranchesTighten, AdminsAreMembers, Redeemed
  <2> QED BY <2>3, <2>4, <2>5 DEF GroupInv
<1>3. ASSUME NEW d \in Devices, NEW op \in {"Promote", "Demote", "Remove"}, NEW id \in Packages,
             StageManagement(d, op, id)
      PROVE  GroupInv'
  <2>1. PICK action : action = [op |-> op, id |-> id]
    OBVIOUS
  <2>2. action.op \notin Creations
        /\ action.op \notin {"ApproveInvitation", "DeclineInvitationRequest"}
    BY <2>1 DEF Creations
  <2>3. Managed(d, action) /\ UNCHANGED <<pending, invitations, requests, leaves, plan>>
    BY <1>3, <2>1 DEF StageManagement
  <2> QED BY <2>2, <2>3, ManagedKeepsInv
<1>4. ASSUME NEW d \in Devices, NEW leave \in leaves, receive_leave(d, leave) PROVE GroupInv'
  <2>1. leave.op = "Leave"
    BY DEF GroupInv, TokensTyped
  <2>2. leave.op \notin Creations
        /\ leave.op \notin {"ApproveInvitation", "DeclineInvitationRequest"}
    BY <2>1 DEF Creations
  <2>3. Managed(d, leave) /\ UNCHANGED <<pending, invitations, requests, leaves, plan>>
    BY <1>4 DEF receive_leave
  <2> QED BY <2>2, <2>3, ManagedKeepsInv
<1>5. ASSUME NEW d \in Devices, NEW key \in Keys, issue_invitation(d, key) PROVE GroupInv'
  <2>1. PICK inv : inv = [key |-> key, pin |-> Checkpoint(owner[d].tip, owner[d].me)]
    OBVIOUS
  <2>2. inv.key \in Keys
    BY <2>1
  <2>3. /\ invitations' = invitations \cup {inv}
        /\ UNCHANGED <<tree, owner, pending, requests, leaves, plan>>
    BY <1>5, <2>1 DEF issue_invitation
  <2>4. TokensTyped'
    BY <2>2, <2>3 DEF GroupInv, TokensTyped
  <2> QED BY <2>3, <2>4, TokensMove
<1>6. ASSUME NEW d \in Devices, NEW key \in Keys, NEW kind \in plan.kinds, NEW expires \in Times,
             prepare_invitation_mode(d, key, kind, expires)
      PROVE  GroupInv'
  <2>1. kind.op \in Creations
    BY DEF GroupInv, TokensTyped
  <2> QED BY <1>6, <2>1, InvitationKeepsInv
<1>7. ASSUME NEW d \in Devices, NEW r \in requests, prepare_invitation_approval(d, r)
      PROVE  GroupInv'
  <2>1. PICK action : action = [op |-> "ApproveInvitation", key |-> r.inv.key, package |-> r.package]
    OBVIOUS
  <2>2. r.inv.key \in Keys /\ r.package \in Packages
    BY DEF GroupInv, TokensTyped
  <2>3. action.op \notin Creations /\ action.key \in Keys /\ action.package \in Packages
    BY <2>1, <2>2 DEF Creations
  <2>4. Managed(d, action) /\ UNCHANGED <<pending, invitations, requests, leaves, plan>>
    BY <1>7, <2>1 DEF prepare_invitation_approval
  <2> QED BY <2>3, <2>4, ManagedKeepsInv
<1>8. ASSUME NEW d \in Devices, NEW r \in requests, prepare_invitation_decline(d, r)
      PROVE  GroupInv'
  <2>1. PICK decline : decline =
          [op |-> "DeclineInvitationRequest", key |-> r.inv.key, package |-> r.package]
    OBVIOUS
  <2>2. PICK disable : disable = [op |-> "DisableInvitation", key |-> r.inv.key]
    OBVIOUS
  <2>3. r.inv.key \in Keys /\ r.package \in Packages
    BY DEF GroupInv, TokensTyped
  <2>4. decline.op \notin Creations /\ decline.key \in Keys /\ decline.package \in Packages
    BY <2>1, <2>3 DEF Creations
  <2>5. disable.op \notin Creations
        /\ disable.op \notin {"ApproveInvitation", "DeclineInvitationRequest"}
    BY <2>2 DEF Creations
  <2>6. /\ Managed(d, decline) \/ Managed(d, disable)
        /\ UNCHANGED <<pending, invitations, requests, leaves, plan>>
    BY <1>8, <2>1, <2>2 DEF prepare_invitation_decline
  <2> QED BY <2>4, <2>5, <2>6, ManagedKeepsInv
<1>9. ASSUME NEW d \in Devices, NEW key, DisableInvitation(d, key) PROVE GroupInv'
  <2>1. PICK action : action = [op |-> "DisableInvitation", key |-> key]
    OBVIOUS
  <2>2. action.op \notin Creations
        /\ action.op \notin {"ApproveInvitation", "DeclineInvitationRequest"}
    BY <2>1 DEF Creations
  <2>3. Managed(d, action) /\ UNCHANGED <<pending, invitations, requests, leaves, plan>>
    BY <1>9, <2>1 DEF DisableInvitation
  <2> QED BY <2>2, <2>3, ManagedKeepsInv
<1>10. ASSUME NEW package \in Packages, NEW inv \in invitations, NEW compact \in BOOLEAN,
              StartJoin(package, inv, compact)
       PROVE  GroupInv'
  <2>1. PICK join : join = [package |-> package, inv |-> inv, complete |-> ~compact]
    OBVIOUS
  <2>2. PICK r : r = Request(package, inv)
    OBVIOUS
  <2>3. /\ pending' = [pending EXCEPT ![EndpointOf[package]] = join]
        /\ requests' \subseteq requests \cup {r}
        /\ UNCHANGED <<tree, owner, invitations, leaves, plan>>
    BY <1>10, <2>1, <2>2 DEF StartJoin
  <2>4. r.package \in Packages /\ r.inv \in invitations
    BY <2>2 DEF Request
  <2>5. /\ join = [package |-> join.package, inv |-> join.inv, complete |-> join.complete]
        /\ join.package \in Packages /\ join.inv \in invitations
    BY <2>1
  <2>6. EndpointOf[package] \in Devices
    BY DEF Devices
  <2>7. TokensTyped'
    BY <2>3, <2>4, <2>5, <2>6 DEF GroupInv, TokensTyped
  <2> QED BY <2>3, <2>7, TokensMove
<1>11. ASSUME NEW d \in Devices, NEW peer \in Devices, complete_checkpoint(d, peer) PROVE GroupInv'
  <2>1. PICK join : join = pending[d]
    OBVIOUS
  <2>2. PICK done : done = [join EXCEPT !.complete = TRUE]
    OBVIOUS
  <2>3. PICK r : r = Request(pending[d].package, pending[d].inv)
    OBVIOUS
  <2>4. /\ join.package # NoPackage
        /\ pending' = [pending EXCEPT ![d] = done]
        /\ requests' = requests \cup {r}
        /\ UNCHANGED <<tree, owner, invitations, leaves, plan>>
    BY <1>11, <2>1, <2>2, <2>3 DEF complete_checkpoint, IsPending
  <2>5. /\ join = [package |-> join.package, inv |-> join.inv, complete |-> join.complete]
        /\ join.package \in Packages /\ join.inv \in invitations
    BY <2>1, <2>4 DEF GroupInv, TokensTyped
  <2>6. done = [package |-> join.package, inv |-> join.inv, complete |-> TRUE]
    BY <2>2, <2>5
  <2>7. /\ done = [package |-> done.package, inv |-> done.inv, complete |-> done.complete]
        /\ done.package \in Packages /\ done.inv \in invitations
    BY <2>5, <2>6
  <2>8. r.package \in Packages /\ r.inv \in invitations
    BY <2>1, <2>3, <2>5 DEF Request
  <2>9. TokensTyped'
    BY <2>4, <2>7, <2>8 DEF GroupInv, TokensTyped
  <2> QED BY <2>4, <2>9, TokensMove
<1>12. ASSUME Tick PROVE GroupInv'
  <2>1. UNCHANGED <<tree, owner, pending, invitations, requests, leaves, plan>>
    BY <1>12 DEF Tick
  <2> QED BY <2>1, TokensKept, TokensMove
<1>13. ASSUME UNCHANGED vars PROVE GroupInv'
  <2>1. UNCHANGED <<tree, owner, pending, invitations, requests, leaves, plan>>
    BY <1>13 DEF vars
  <2> QED BY <2>1, TokensKept, TokensMove
<1> QED BY <1>1, <1>2, <1>3, <1>4, <1>5, <1>6, <1>7, <1>8, <1>9, <1>10, <1>11, <1>12, <1>13,
           AdmissionKeepsInv, UpdateKeepsInv, JoinKeepsInv DEF Next

\* The inductive invariant holds throughout.
THEOREM GroupInvariant == Spec => []GroupInv
  BY InitGroupInv, StepGroupInv, PTL DEF Spec

\* For any number of members and any order of concurrent commits, every branch
\* keeps an administrator who is a member (management.rs, verify).
THEOREM AdministratorsAlwaysRemain == Spec => []AdministratorsRemain
<1>1. GroupInv => AdministratorsRemain
  BY DEF GroupInv, AdminsAreMembers, OwnersHoldCommits, HoldsCommits, AdministratorsRemain, IsOwner
<1> QED BY <1>1, GroupInvariant, PTL

\* For any invitations, decisions and branches, no commit admits through an
\* invitation that an earlier epoch of its branch had closed
\* (invitation_controls.rs, check and changed).
THEOREM InvitationsAlwaysRespected == Spec => []InvitationsAreRespected
<1>1. GroupInv => InvitationsAreRespected
  BY TightBranchesRespect DEF GroupInv
<1> QED BY <1>1, GroupInvariant, PTL

-----------------------------------------------------------------------------
(* Records of a branch. *)

\* Epochs count the commits of a branch, and a branch has one node at each.
Branches ==
  \A n \in Nodes :
    /\ tree[n].epoch \in Nat
    /\ n \in tree[n].anc /\ tree[n].anc \subseteq Nodes
    /\ \A a \in tree[n].anc : tree[a].epoch <= tree[n].epoch /\ tree[a].anc \subseteq tree[n].anc
    /\ \A a, b \in tree[n].anc : tree[a].epoch <= tree[b].epoch => a \in tree[b].anc
    /\ \A a, b \in tree[n].anc : tree[a].epoch = tree[b].epoch => a = b
    /\ tree[n].epoch = 0 => tree[n].parent = 0
    /\ tree[n].epoch # 0 =>
         tree[n].parent \in tree[n].anc /\ tree[n].epoch = tree[tree[n].parent].epoch + 1

\* A step that every verifier at its parent accepts.
Verified(step) ==
  /\ step.node \in Nodes /\ tree[step.node].epoch # 0
  /\ Applies(tree[step.node].parent, step)

\* One verified step an epoch, from a node of a branch to its head.
Leads(start, steps, tip) ==
  /\ IsSeq(steps)
  /\ start \in tree[tip].anc
  /\ tree[tip].epoch = tree[start].epoch + Len(steps)
  /\ \A i \in DOMAIN steps :
       /\ steps[i].node \in tree[tip].anc
       /\ tree[steps[i].node].epoch = tree[start].epoch + i
       /\ Verified(steps[i])

\* The commits an owner has a record of, and whether they are all there from an
\* epoch to its head.
StepNodes(o) ==
  {HistorySteps(o)[i].node : i \in DOMAIN HistorySteps(o)}
    \cup {o.admissions[i].node : i \in DOMAIN o.admissions}
Spans(o, e) == \A k \in e..(tree[o.tip].epoch - 1) : \E n \in StepNodes(o) : tree[n].epoch = k + 1

\* A checkpoint of the owner's branch that a newcomer can be advanced from.
Serves(o, pin) ==
  /\ pin.node \in tree[o.tip].anc
  /\ Spans(o, tree[pin.node].epoch)
  /\ from_trusted_checkpoint(Group(pin.node))
  /\ pin.signer \in tree[pin.node].ext.admins

InHistory(o, n) == o.history # NoHistory /\ tree[o.history.start.node].epoch < tree[n].epoch

HistoryKept(o) ==
  o.history # NoHistory =>
    /\ o.history = [start |-> o.history.start, steps |-> o.history.steps]
    /\ Leads(o.history.start.node, o.history.steps, o.tip)

\* An admission that is not in the history was the only one of its commit.
AdmissionsKept(o) ==
  \A i \in DOMAIN o.admissions :
    /\ o.admissions[i].node \in tree[o.tip].anc
    /\ tree[o.admissions[i].node].epoch # 0
    /\ \/ InHistory(o, o.admissions[i].node)
       \/ /\ Verified(AdmissionStep(o.admissions[i]))
          /\ \A j \in DOMAIN o.admissions :
               tree[o.admissions[j].node].epoch = tree[o.admissions[i].node].epoch => j = i

\* The commit a checkpoint pins is the one that registered its invitation.
RegisteredAt(inv, n) ==
  /\ inv.pin.node = n
  /\ tree[n].epoch # 0
  /\ inv.key \in DOMAIN tree[n].ext.controls
  /\ inv.key \notin DOMAIN tree[tree[n].parent].ext.controls

CheckpointsKept(o) ==
  \A inv \in o.checkpoints : Serves(o, inv.pin) /\ RegisteredAt(inv, inv.pin.node)

RepliesKept(o) ==
  \A i \in DOMAIN o.admissions :
    LET pin == o.admissions[i].request.inv.pin
    IN  Serves(o, pin) /\ tree[pin.node].epoch < tree[o.admissions[i].node].epoch

KeepsRecords(o) == HistoryKept(o) /\ AdmissionsKept(o) /\ CheckpointsKept(o) /\ RepliesKept(o)

RecordInv ==
  /\ Branches
  /\ \A d \in Devices : IsOwner(d) => KeepsRecords(owner[d])

-----------------------------------------------------------------------------
(* Sequences of steps. *)

\* Where the entries of a concatenation come from.
LEMMA ConcatAt ==
  ASSUME NEW s, IsSeq(s), NEW t, IsSeq(t)
  PROVE  /\ Len(s) \in Nat /\ Len(t) \in Nat
         /\ DOMAIN s = 1..Len(s) /\ DOMAIN t = 1..Len(t)
         /\ DOMAIN (s \o t) = 1..(Len(s) + Len(t))
         /\ \A i \in 1..Len(s) : (s \o t)[i] = s[i]
         /\ \A i \in 1..Len(t) : (s \o t)[Len(s) + i] = t[i]
<1> DEFINE S == Range(s) \cup Range(t)
<1>1. s \in Seq(S) /\ t \in Seq(S)
  BY SMTT(30) DEF IsSeq
<1>2. Len(s \o t) = Len(s) + Len(t) /\ s \o t \in Seq(S)
  BY <1>1, SMTT(30)
<1> HIDE DEF S
<1>3. \A i \in 1..Len(t) : Len(s) + i > Len(s) /\ Len(s) + i - Len(s) = i /\ Len(s) + i \in 1..(Len(s) + Len(t))
  BY <1>1, SMTT(30)
<1> QED BY <1>1, <1>2, <1>3, SMTT(30)

\* What an owner kept: the steps of its history, then its admissions
\* (accepted_range, advance_membership_proof).
LEMMA KeptSteps ==
  ASSUME NEW o, IsSeq(HistorySteps(o)), IsSeq(o.admissions)
  PROVE  LET H == Len(HistorySteps(o))
             A == Len(o.admissions)
         IN  /\ H \in Nat /\ A \in Nat
             /\ DOMAIN HistorySteps(o) = 1..H /\ DOMAIN o.admissions = 1..A
             /\ DOMAIN Kept(o) = 1..(H + A)
             /\ \A i \in 1..H : Kept(o)[i] = HistorySteps(o)[i]
             /\ \A i \in 1..A : Kept(o)[H + i] = AdmissionStep(o.admissions[i])
<1> DEFINE t == [i \in DOMAIN o.admissions |-> AdmissionStep(o.admissions[i])]
<1>1. DOMAIN o.admissions = 1..Len(o.admissions) /\ Len(o.admissions) \in Nat
  BY SMTT(30) DEF IsSeq
<1>2. t \in [1..Len(o.admissions) -> Range(t)]
  BY <1>1 DEF Range
<1>3. IsSeq(t)
  BY <1>1, <1>2, BatchSeq
<1>4. Len(t) = Len(o.admissions)
  BY <1>1, <1>2, <1>3, SMTT(30) DEF IsSeq
<1>5. \A i \in 1..Len(o.admissions) : t[i] = AdmissionStep(o.admissions[i])
  BY <1>1
<1>6. Kept(o) = HistorySteps(o) \o t
  BY DEF Kept
<1> HIDE DEF t
<1>7. /\ Len(HistorySteps(o)) \in Nat /\ DOMAIN HistorySteps(o) = 1..Len(HistorySteps(o))
      /\ DOMAIN Kept(o) = 1..(Len(HistorySteps(o)) + Len(t))
      /\ \A i \in 1..Len(HistorySteps(o)) : Kept(o)[i] = HistorySteps(o)[i]
      /\ \A i \in 1..Len(t) : Kept(o)[Len(HistorySteps(o)) + i] = t[i]
  BY <1>3, <1>6, ConcatAt, SMTT(30)
<1> QED BY <1>1, <1>4, <1>5, <1>7

\* The records of an owner: every one is of a commit of its branch, and where
\* the history has no step of an epoch the first record is a verified admission.
LEMMA KeptRecords ==
  ASSUME Branches, NEW o, HoldsCommits(o), HistoryKept(o), AdmissionsKept(o)
  PROVE  /\ IsSeq(HistorySteps(o))
         /\ StepNodes(o) = {Kept(o)[i].node : i \in DOMAIN Kept(o)}
         /\ StepNodes(o) \subseteq tree[o.tip].anc
         /\ \A i \in DOMAIN Kept(o) :
              /\ tree[Kept(o)[i].node].epoch # 0
              /\ \/ Verified(Kept(o)[i])
                 \/ \E j \in DOMAIN Kept(o) :
                      j < i /\ tree[Kept(o)[j].node].epoch = tree[Kept(o)[i].node].epoch
<1> DEFINE H == Len(HistorySteps(o))
           A == Len(o.admissions)
<1>1. IsSeq(HistorySteps(o)) /\ IsSeq(o.admissions)
  <2>1. IsSeq(<<>>)
    BY SMTT(30) DEF IsSeq, Range
  <2> QED BY <2>1 DEF HistorySteps, HistoryKept, Leads, HoldsCommits
<1>2. /\ H \in Nat /\ A \in Nat
      /\ DOMAIN HistorySteps(o) = 1..H /\ DOMAIN o.admissions = 1..A
      /\ DOMAIN Kept(o) = 1..(H + A)
      /\ \A i \in 1..H : Kept(o)[i] = HistorySteps(o)[i]
      /\ \A i \in 1..A : Kept(o)[H + i] = AdmissionStep(o.admissions[i])
  BY <1>1, KeptSteps
<1> HIDE DEF H, A
<1>3. \A a : AdmissionStep(a).node = a.node
  BY DEF AdmissionStep, Step
<1>4. \A i \in 1..(H + A) : i \in 1..H \/ \E k \in 1..A : i = H + k
  <2>1. \A i \in 1..(H + A) : i \notin 1..H => i - H \in 1..A /\ i = H + (i - H)
    BY <1>2, SMTT(30)
  <2> QED BY <2>1
<1>5. StepNodes(o) = {Kept(o)[i].node : i \in DOMAIN Kept(o)}
  <2>1. \A n \in StepNodes(o) : \E i \in DOMAIN Kept(o) : n = Kept(o)[i].node
    <3>1. \A i \in 1..H : i \in 1..(H + A) /\ Kept(o)[i] = HistorySteps(o)[i]
      BY <1>2, SMTT(30)
    <3>2. \A i \in 1..A : H + i \in 1..(H + A) /\ Kept(o)[H + i].node = o.admissions[i].node
      BY <1>2, <1>3, SMTT(30)
    <3> QED BY <1>2, <3>1, <3>2, SMTT(30) DEF StepNodes
  <2>2. ASSUME NEW i \in 1..(H + A) PROVE Kept(o)[i].node \in StepNodes(o)
    <3>1. CASE i \in 1..H
      BY <1>2, <3>1 DEF StepNodes
    <3>2. ASSUME NEW k \in 1..A, i = H + k PROVE Kept(o)[i].node \in StepNodes(o)
      <4>1. Kept(o)[i].node = o.admissions[k].node
        BY <1>2, <1>3, <3>2
      <4> QED BY <1>2, <4>1 DEF StepNodes
    <3> QED BY <1>4, <3>1, <3>2
  <2> QED BY <1>2, <2>1, <2>2
<1>6. \A i \in 1..H :
        /\ HistorySteps(o)[i].node \in tree[o.tip].anc
        /\ tree[HistorySteps(o)[i].node].epoch # 0
        /\ Verified(HistorySteps(o)[i])
  <2>1. CASE o.history = NoHistory
    <3>1. HistorySteps(o) = <<>> /\ DOMAIN <<>> = {}
      BY <2>1, SMTT(30) DEF HistorySteps
    <3> QED BY <1>2, <3>1
  <2>2. CASE o.history # NoHistory
    <3>1. HistorySteps(o) = o.history.steps
      BY <2>2 DEF HistorySteps
    <3> QED BY <1>2, <2>2, <3>1 DEF HistoryKept, Leads, Verified
  <2> QED BY <2>1, <2>2
<1>7. StepNodes(o) \subseteq tree[o.tip].anc
  BY <1>2, <1>6, SMTT(30) DEF StepNodes, AdmissionsKept
<1>8. ASSUME NEW k \in 1..A
      PROVE  /\ tree[Kept(o)[H + k].node].epoch # 0
             /\ \/ Verified(Kept(o)[H + k])
                \/ \E j \in DOMAIN Kept(o) :
                     j < H + k /\ tree[Kept(o)[j].node].epoch = tree[Kept(o)[H + k].node].epoch
  <2> DEFINE a == o.admissions[k]
  <2>1. /\ Kept(o)[H + k] = AdmissionStep(a) /\ Kept(o)[H + k].node = a.node
        /\ tree[a.node].epoch # 0 /\ a.node \in tree[o.tip].anc
        /\ InHistory(o, a.node) \/ Verified(AdmissionStep(a))
    BY <1>2, <1>3 DEF AdmissionsKept
  <2>2. CASE InHistory(o, a.node)
    <3> DEFINE s == tree[o.history.start.node].epoch
               e == tree[a.node].epoch
    <3>1. /\ o.history # NoHistory /\ s < e
          /\ HistorySteps(o) = o.history.steps
      BY <2>2 DEF InHistory, HistorySteps
    <3>2. /\ tree[o.tip].epoch = s + H
          /\ o.history.start.node \in tree[o.tip].anc
          /\ \A i \in 1..H : tree[HistorySteps(o)[i].node].epoch = s + i
      BY <1>2, <3>1 DEF HistoryKept, Leads, H
    <3>3. o.tip \in Nodes /\ tree[o.tip].anc \subseteq Nodes
      BY DEF HoldsCommits, Branches
    <3>4. s \in Nat /\ e \in Nat /\ e <= tree[o.tip].epoch
      BY <2>1, <3>2, <3>3 DEF Branches
    <3> HIDE DEF s, e
    <3>5. e - s \in 1..H /\ s + (e - s) = e /\ e - s < H + k
      BY <1>2, <3>1, <3>2, <3>4, SMTT(30)
    <3>6. tree[Kept(o)[e - s].node].epoch = e /\ e - s \in DOMAIN Kept(o)
      BY <1>2, <3>2, <3>5, SMTT(30)
    <3> QED BY <2>1, <3>5, <3>6 DEF e
  <2>3. CASE Verified(AdmissionStep(a))
    BY <2>1, <2>3
  <2> QED BY <2>1, <2>2, <2>3
<1>9. \A i \in 1..H : tree[Kept(o)[i].node].epoch # 0 /\ Verified(Kept(o)[i])
  BY <1>2, <1>6
<1>10. ASSUME NEW i \in DOMAIN Kept(o)
       PROVE  /\ tree[Kept(o)[i].node].epoch # 0
              /\ \/ Verified(Kept(o)[i])
                 \/ \E j \in DOMAIN Kept(o) :
                      j < i /\ tree[Kept(o)[j].node].epoch = tree[Kept(o)[i].node].epoch
  <2>1. CASE i \in 1..H
    BY <1>9, <2>1
  <2>2. CASE i \notin 1..H
    <3>1. PICK k \in 1..A : i = H + k
      BY <1>2, <1>4, <2>2
    <3> QED BY <1>8, <3>1
  <2> QED BY <2>1, <2>2
<1> QED BY <1>1, <1>5, <1>7, <1>10

\* Verified steps, one an epoch, replay from where they start to the head
\* (advance, apply_transition).
LEMMA LeadsReplays ==
  ASSUME Branches, NEW tip \in Nodes, NEW start, NEW steps, Leads(start, steps, tip)
  PROVE  Replays(start, steps) /\ Reached(start, steps) = tip
<1> DEFINE e == tree[start].epoch
           A == tree[tip].anc
<1>1. /\ tip \in A /\ A \subseteq Nodes /\ start \in A /\ e \in Nat
      /\ \A a, b \in A : tree[a].epoch = tree[b].epoch => a = b
      /\ \A a \in A : tree[a].anc \subseteq A
  BY DEF Leads, Branches
<1>2. /\ DOMAIN steps = 1..Len(steps) /\ Len(steps) \in Nat
      /\ tree[tip].epoch = e + Len(steps)
      /\ \A i \in DOMAIN steps :
           steps[i].node \in A /\ tree[steps[i].node].epoch = e + i /\ Verified(steps[i])
  BY SMTT(30) DEF Leads, IsSeq
<1> HIDE DEF A, e
<1>3. ASSUME NEW i \in DOMAIN steps
      PROVE  Applies(IF i = 1 THEN start ELSE steps[i - 1].node, steps[i])
  <2> DEFINE m == steps[i].node
             before == IF i = 1 THEN start ELSE steps[i - 1].node
  <2>1. /\ m \in A /\ m \in Nodes /\ tree[m].epoch = e + i /\ tree[m].epoch # 0
        /\ Applies(tree[m].parent, steps[i])
    BY <1>1, <1>2 DEF Verified
  <2>2. /\ tree[m].parent \in A /\ tree[m].epoch = tree[tree[m].parent].epoch + 1
    BY <1>1, <2>1, SMTT(30) DEF Branches
  <2>3. tree[tree[m].parent].epoch = e + i - 1
    <3>1. tree[tree[m].parent].epoch \in Nat
      BY <1>1, <2>2 DEF Branches
    <3>2. i \in Nat /\ tree[tree[m].parent].epoch + 1 = e + i
      BY <1>2, <2>1, <2>2, SMTT(30)
    <3> HIDE DEF m
    <3> QED BY <1>1, <3>1, <3>2, SMTT(30)
  <2>4. before \in A /\ tree[before].epoch = e + i - 1
    <3>1. CASE i = 1
      BY <1>1, <3>1, SMTT(30) DEF e
    <3>2. CASE i # 1
      <4>1. i - 1 \in DOMAIN steps /\ e + (i - 1) = e + i - 1
        BY <1>1, <1>2, <3>2, SMTT(30)
      <4> QED BY <1>2, <3>2, <4>1
    <3> QED BY <3>1, <3>2
  <2>5. before = tree[m].parent
    BY <1>1, <2>2, <2>3, <2>4
  <2> QED BY <2>1, <2>5
<1>4. Reached(start, steps) = tip
  <2>1. CASE steps = <<>>
    <3>1. Len(steps) = 0
      BY <2>1
    <3>2. tree[start].epoch = tree[tip].epoch
      BY <1>1, <1>2, <3>1, SMTT(30) DEF e
    <3> QED BY <1>1, <2>1, <3>2 DEF Reached
  <2>2. CASE steps # <<>>
    <3>1. Len(steps) \in DOMAIN steps
      BY <1>2, <2>2, EmptyList, SMTT(30) DEF Leads, IsSeq
    <3>2. steps[Len(steps)].node = tip
      BY <1>1, <1>2, <3>1
    <3> QED BY <2>2, <3>2 DEF Reached
  <2> QED BY <2>1, <2>2
<1> QED BY <1>3, <1>4 DEF Replays

\* Steps cut off after one of them lead to it (admission_reply_page's truncate).
LEMMA LeadsPrefix ==
  ASSUME Branches, NEW tip \in Nodes, NEW start, NEW steps, Leads(start, steps, tip),
         NEW j \in DOMAIN steps
  PROVE  Leads(start, SubSeq(steps, 1, j), steps[j].node)
<1> DEFINE e == tree[start].epoch
           A == tree[tip].anc
           m == steps[j].node
           pre == SubSeq(steps, 1, j)
<1>1. /\ A \subseteq Nodes /\ start \in A /\ e \in Nat
      /\ \A a, b \in A : tree[a].epoch <= tree[b].epoch => a \in tree[b].anc
  BY DEF Leads, Branches
<1>2. /\ steps \in Seq(Range(steps))
      /\ DOMAIN steps = 1..Len(steps) /\ Len(steps) \in Nat
      /\ \A i \in DOMAIN steps :
           steps[i].node \in A /\ tree[steps[i].node].epoch = e + i /\ Verified(steps[i])
  BY SMTT(30) DEF Leads, IsSeq
<1>3. /\ pre \in Seq(Range(steps)) /\ Len(pre) = j /\ DOMAIN pre = 1..j
      /\ \A i \in 1..j : pre[i] = steps[i] /\ i \in DOMAIN steps
  BY <1>2, SMTT(30)
<1>4. IsSeq(pre)
  BY <1>3, ListOfItsRange DEF IsSeq
<1> HIDE DEF pre, A, e
<1>5. m \in A /\ tree[m].epoch = e + j
  BY <1>2
<1>6. start \in tree[m].anc
  BY <1>1, <1>2, <1>5, SMTT(30) DEF e
<1>7. \A i \in 1..j : pre[i].node \in tree[m].anc /\ tree[pre[i].node].epoch = e + i /\ Verified(pre[i])
  <2>1. \A i \in 1..j : e + i <= e + j
    BY <1>1, <1>2, SMTT(30)
  <2> QED BY <1>1, <1>2, <1>3, <1>5, <2>1, SMTT(30)
<1> QED BY <1>3, <1>4, <1>5, <1>6, <1>7 DEF Leads, e, pre

-----------------------------------------------------------------------------
(* A copy that takes one more step of its branch. *)

\* The copy p is the copy o one commit later: it recorded the step, or it made
\* one admission and keeps only that; what it retains besides is pinned there.
Advances(o, p, auth, answered) ==
  /\ HoldsCommits(o) /\ KeepsRecords(o)
  /\ p.tip \in Nodes /\ tree[p.tip].epoch # 0 /\ tree[p.tip].parent = o.tip
  /\ IsSeq(answered) /\ \A i \in DOMAIN answered : answered[i].node = p.tip
  /\ p.admissions = o.admissions \o answered
  /\ \/ p.history = append_history(o, auth, p.tip) /\ Verified(Step(auth, p.tip))
     \/ /\ p.history = NoHistory /\ o.history = NoHistory
        /\ Len(answered) = 1 /\ Verified(AdmissionStep(answered[1]))
  /\ \A inv \in p.checkpoints :
       inv \in o.checkpoints \/ (Serves(p, inv.pin) /\ RegisteredAt(inv, inv.pin.node))

\* The branch of the later copy.
LEMMA AdvanceBranch ==
  ASSUME Branches, NEW o, NEW p, NEW auth, NEW answered, Advances(o, p, auth, answered)
  PROVE  /\ o.tip \in Nodes /\ p.tip \in Nodes
         /\ tree[o.tip].epoch \in Nat /\ tree[p.tip].epoch = tree[o.tip].epoch + 1
         /\ tree[o.tip].anc \subseteq tree[p.tip].anc /\ p.tip \in tree[p.tip].anc
         /\ tree[p.tip].anc \subseteq Nodes
         /\ \A a \in tree[o.tip].anc : tree[a].epoch \in Nat /\ tree[a].epoch < tree[p.tip].epoch
<1>1. /\ o.tip \in Nodes /\ p.tip \in Nodes /\ tree[p.tip].epoch # 0 /\ tree[p.tip].parent = o.tip
  BY DEF Advances, HoldsCommits
<1>2. /\ tree[o.tip].epoch \in Nat /\ tree[p.tip].epoch = tree[o.tip].epoch + 1
      /\ o.tip \in tree[p.tip].anc /\ p.tip \in tree[p.tip].anc /\ tree[p.tip].anc \subseteq Nodes
      /\ tree[o.tip].anc \subseteq Nodes
  BY <1>1 DEF Branches
<1>3. tree[o.tip].anc \subseteq tree[p.tip].anc
  BY <1>1, <1>2 DEF Branches
<1>4. ASSUME NEW a \in tree[o.tip].anc
      PROVE  tree[a].epoch \in Nat /\ tree[a].epoch < tree[p.tip].epoch
  <2>1. tree[a].epoch \in Nat /\ tree[a].epoch <= tree[o.tip].epoch
    BY <1>1, <1>2 DEF Branches
  <2> QED BY <1>2, <2>1, SMTT(30)
<1> QED BY <1>1, <1>2, <1>3, <1>4

\* Its history, where it keeps one, has the step (append_history).
LEMMA AdvanceHistory ==
  ASSUME Branches, NEW o, NEW p, NEW auth, NEW answered, Advances(o, p, auth, answered)
  PROVE  /\ HistoryKept(p)
         /\ o.history # NoHistory => p.history # NoHistory /\ p.history.start = o.history.start
         /\ p.history # NoHistory => tree[p.history.start.node].epoch < tree[p.tip].epoch
         /\ StepNodes(o) \subseteq StepNodes(p) /\ p.tip \in StepNodes(p)
<1>1. /\ o.tip \in Nodes /\ p.tip \in Nodes
      /\ tree[o.tip].epoch \in Nat /\ tree[p.tip].epoch = tree[o.tip].epoch + 1
      /\ tree[o.tip].anc \subseteq tree[p.tip].anc /\ p.tip \in tree[p.tip].anc
      /\ \A a \in tree[o.tip].anc : tree[a].epoch \in Nat /\ tree[a].epoch < tree[p.tip].epoch
      /\ o.tip \in tree[o.tip].anc
  BY AdvanceBranch DEF Branches
<1>2. /\ IsSeq(o.admissions) /\ IsSeq(answered) /\ p.admissions = o.admissions \o answered
      /\ \A i \in DOMAIN answered : answered[i].node = p.tip
      /\ HistoryKept(o)
  BY DEF Advances, HoldsCommits, KeepsRecords
<1>3. /\ Len(o.admissions) \in Nat /\ Len(answered) \in Nat
      /\ DOMAIN o.admissions = 1..Len(o.admissions) /\ DOMAIN answered = 1..Len(answered)
      /\ DOMAIN p.admissions = 1..(Len(o.admissions) + Len(answered))
      /\ \A i \in 1..Len(o.admissions) : p.admissions[i] = o.admissions[i]
      /\ \A i \in 1..Len(answered) : p.admissions[Len(o.admissions) + i] = answered[i]
  BY <1>2, ConcatAt, SMTT(30)
<1>4. {o.admissions[i].node : i \in DOMAIN o.admissions} \subseteq {p.admissions[i].node : i \in DOMAIN p.admissions}
  <2>1. \A i \in 1..Len(o.admissions) : i \in DOMAIN p.admissions /\ p.admissions[i] = o.admissions[i]
    BY <1>3, SMTT(30)
  <2> QED BY <1>3, <2>1
<1>5. CASE p.history = NoHistory /\ o.history = NoHistory /\ Len(answered) = 1
  <2>1. HistorySteps(o) = <<>> /\ HistorySteps(p) = <<>>
    BY <1>5 DEF HistorySteps
  <2>2. p.tip \in {p.admissions[i].node : i \in DOMAIN p.admissions}
    <3>1. /\ Len(o.admissions) + 1 \in DOMAIN p.admissions
          /\ p.admissions[Len(o.admissions) + 1] = answered[1] /\ 1 \in DOMAIN answered
      BY <1>3, <1>5, SMTT(30)
    <3> QED BY <1>2, <3>1
  <2> QED BY <1>4, <1>5, <2>1, <2>2 DEF StepNodes, HistoryKept
<1>6. CASE p.history = append_history(o, auth, p.tip) /\ Verified(Step(auth, p.tip))
  <2>1. PICK step : step = Step(auth, p.tip)
    OBVIOUS
  <2>2. step.node = p.tip /\ Verified(step)
    BY <1>6, <2>1 DEF Step
  <2>3. PICK from, old :
          /\ p.history = [start |-> from, steps |-> Append(old, step)]
          /\ IsSeq(old) /\ old = HistorySteps(o)
          /\ o.history # NoHistory => from = o.history.start
          /\ Leads(from.node, old, o.tip)
    <3>1. CASE o.history = NoHistory
      <4>1. PICK from : from = Checkpoint(o.tip, o.me)
        OBVIOUS
      <4>2. from.node = o.tip
        BY <4>1 DEF Checkpoint
      <4>3. IsSeq(<<>>) /\ Len(<<>>) = 0 /\ DOMAIN <<>> = {} /\ Append(<<>>, step) = <<step>>
        BY SMTT(30) DEF IsSeq, Range
      <4>4. p.history = [start |-> from, steps |-> <<step>>]
        BY <1>6, <2>1, <3>1, <4>1 DEF append_history
      <4>5. HistorySteps(o) = <<>>
        BY <3>1 DEF HistorySteps
      <4>6. Leads(from.node, <<>>, o.tip)
        BY <1>1, <4>2, <4>3, SMTT(30) DEF Leads
      <4> QED BY <3>1, <4>3, <4>4, <4>5, <4>6
    <3>2. CASE o.history # NoHistory
      <4>1. PICK from, old : o.history = [start |-> from, steps |-> old]
        BY <1>2, <3>2 DEF HistoryKept
      <4>2. from = o.history.start /\ old = o.history.steps
        BY <4>1, SMTT(30)
      <4>3. Leads(from.node, old, o.tip)
        BY <1>2, <3>2, <4>2 DEF HistoryKept
      <4>4. p.history = [o.history EXCEPT !.steps = Append(old, step)]
        BY <1>6, <2>1, <3>2, <4>2 DEF append_history
      <4>5. p.history = [start |-> from, steps |-> Append(old, step)]
        <5>1. PICK new : new = Append(old, step)
          OBVIOUS
        <5>2. p.history = [o.history EXCEPT !.steps = new]
          BY <4>4, <5>1
        <5>3. p.history = [start |-> from, steps |-> new]
          BY <4>1, <5>2, SMTT(30)
        <5> QED BY <5>1, <5>3
      <4>6. HistorySteps(o) = old
        BY <3>2, <4>2 DEF HistorySteps
      <4>7. IsSeq(old)
        BY <4>3 DEF Leads
      <4> QED BY <4>2, <4>3, <4>5, <4>6, <4>7
    <3> QED BY <3>1, <3>2
  <2>4. PICK new : new = Append(old, step)
    OBVIOUS
  <2>5. /\ IsSeq(new) /\ Len(new) = Len(old) + 1 /\ Len(old) \in Nat
        /\ DOMAIN old = 1..Len(old) /\ DOMAIN new = DOMAIN old \cup {Len(old) + 1}
        /\ new[Len(old) + 1] = step /\ \A i \in DOMAIN old : new[i] = old[i]
    BY <2>3, <2>4, AppendSeq, SMTT(30)
  <2>6. p.history = [start |-> from, steps |-> new] /\ p.history.start = from /\ p.history.steps = new
    BY <2>3, <2>4, SMTT(30)
  <2>7. p.history # NoHistory
    <3>1. NoHistory.steps = <<>> /\ Len(<<>>) = 0
      BY DEF NoHistory
    <3>2. new # <<>>
      BY <2>5, <3>1, SMTT(30)
    <3> QED BY <2>6, <3>1, <3>2
  <2>8. from.node \in tree[o.tip].anc /\ tree[o.tip].epoch = tree[from.node].epoch + Len(old)
    BY <2>3 DEF Leads
  <2>9. Leads(from.node, new, p.tip)
    <3>1. from.node \in tree[p.tip].anc /\ tree[from.node].epoch \in Nat
      BY <1>1, <2>8
    <3>2. PICK e \in Nat, L \in Nat : e = tree[from.node].epoch /\ L = Len(old)
      BY <2>5, <3>1
    <3>3. tree[p.tip].epoch = e + (L + 1)
      BY <1>1, <2>8, <3>2, SMTT(30)
    <3>4. ASSUME NEW i \in DOMAIN new
          PROVE  /\ new[i].node \in tree[p.tip].anc
                 /\ tree[new[i].node].epoch = e + i
                 /\ Verified(new[i])
      <4>1. CASE i \in DOMAIN old
        BY <1>1, <2>3, <2>5, <3>2, <4>1 DEF Leads
      <4>2. CASE i = L + 1
        BY <1>1, <2>2, <2>5, <3>2, <3>3, <4>2
      <4> QED BY <2>5, <3>2, <4>1, <4>2
    <3> QED BY <2>5, <3>1, <3>2, <3>3, <3>4 DEF Leads
  <2>10. HistoryKept(p)
    BY <2>6, <2>9 DEF HistoryKept
  <2>11. HistorySteps(p) = new
    BY <2>6, <2>7 DEF HistorySteps
  <2>12. StepNodes(o) \subseteq StepNodes(p) /\ p.tip \in StepNodes(p)
    <3>1. p.tip \in {new[i].node : i \in DOMAIN new}
      BY <2>2, <2>5
    <3>2. {old[i].node : i \in DOMAIN old} \subseteq {new[i].node : i \in DOMAIN new}
      BY <2>5
    <3>3. StepNodes(o) = {old[i].node : i \in DOMAIN old}
                           \cup {o.admissions[i].node : i \in DOMAIN o.admissions}
      BY <2>3 DEF StepNodes
    <3>4. StepNodes(p) = {new[i].node : i \in DOMAIN new}
                           \cup {p.admissions[i].node : i \in DOMAIN p.admissions}
      BY <2>11 DEF StepNodes
    <3> QED BY <1>4, <3>1, <3>2, <3>3, <3>4
  <2> QED BY <1>1, <2>3, <2>6, <2>7, <2>8, <2>10, <2>12
<1> QED BY <1>5, <1>6 DEF Advances

\* A checkpoint served before the step is served after it: the records that
\* spanned the branch have the step as well.
LEMMA AdvanceServes ==
  ASSUME Branches, NEW o, NEW p, NEW auth, NEW answered, Advances(o, p, auth, answered),
         NEW pin, Serves(o, pin)
  PROVE  Serves(p, pin)
<1>1. /\ tree[o.tip].epoch \in Nat /\ tree[p.tip].epoch = tree[o.tip].epoch + 1
      /\ tree[o.tip].anc \subseteq tree[p.tip].anc
      /\ StepNodes(o) \subseteq StepNodes(p) /\ p.tip \in StepNodes(p)
  BY AdvanceBranch, AdvanceHistory
<1>2. pin.node \in tree[o.tip].anc /\ Spans(o, tree[pin.node].epoch)
  BY DEF Serves
<1>3. PICK e \in Nat, T \in Nat : e = tree[pin.node].epoch /\ T = tree[o.tip].epoch
  BY <1>1, <1>2, AdvanceBranch
<1>4. ASSUME NEW k \in e..(tree[p.tip].epoch - 1) PROVE \E n \in StepNodes(p) : tree[n].epoch = k + 1
  <2>1. CASE k = T
    BY <1>1, <1>3, <2>1
  <2>2. CASE k # T
    <3>1. k \in e..(T - 1)
      BY <1>1, <1>3, <2>2, SMTT(30)
    <3> QED BY <1>1, <1>2, <1>3, <3>1 DEF Spans
  <2> QED BY <2>1, <2>2
<1> QED BY <1>1, <1>2, <1>3, <1>4 DEF Serves, Spans

\* The admissions of the later copy, old and new.
LEMMA AdvanceAdmissions ==
  ASSUME Branches, NEW o, NEW p, NEW auth, NEW answered, Advances(o, p, auth, answered)
  PROVE  AdmissionsKept(p)
<1> DEFINE N == Len(o.admissions)
           M == Len(answered)
<1>1. /\ o.tip \in Nodes /\ p.tip \in Nodes
      /\ tree[o.tip].epoch \in Nat /\ tree[p.tip].epoch = tree[o.tip].epoch + 1
      /\ tree[o.tip].anc \subseteq tree[p.tip].anc /\ p.tip \in tree[p.tip].anc
      /\ \A a \in tree[o.tip].anc : tree[a].epoch \in Nat /\ tree[a].epoch < tree[p.tip].epoch
  BY AdvanceBranch
<1>2. /\ IsSeq(o.admissions) /\ IsSeq(answered) /\ p.admissions = o.admissions \o answered
      /\ \A i \in DOMAIN answered : answered[i].node = p.tip
      /\ AdmissionsKept(o)
  BY DEF Advances, HoldsCommits, KeepsRecords
<1>3. /\ N \in Nat /\ M \in Nat
      /\ DOMAIN o.admissions = 1..N /\ DOMAIN answered = 1..M /\ DOMAIN p.admissions = 1..(N + M)
      /\ \A i \in 1..N : p.admissions[i] = o.admissions[i]
      /\ \A i \in 1..M : p.admissions[N + i] = answered[i]
  BY <1>2, ConcatAt, SMTT(30)
<1>4. /\ o.history # NoHistory => p.history # NoHistory /\ p.history.start = o.history.start
      /\ p.history # NoHistory => tree[p.history.start.node].epoch < tree[p.tip].epoch
  BY AdvanceHistory
<1> HIDE DEF N, M
<1>5. ASSUME NEW i \in 1..(N + M), i \notin 1..N PROVE \E k \in 1..M : i = N + k /\ p.admissions[i] = answered[k]
  <2>1. i - N \in 1..M /\ i = N + (i - N)
    BY <1>3, <1>5, SMTT(30)
  <2> QED BY <1>3, <2>1
<1>6. \A i \in 1..N : i \in 1..(N + M)
  BY <1>3, SMTT(30)
<1>7. ASSUME NEW i \in 1..N
      PROVE  /\ p.admissions[i].node \in tree[p.tip].anc
             /\ tree[p.admissions[i].node].epoch # 0
             /\ \/ InHistory(p, p.admissions[i].node)
                \/ /\ Verified(AdmissionStep(p.admissions[i]))
                   /\ \A j \in DOMAIN p.admissions :
                        tree[p.admissions[j].node].epoch = tree[p.admissions[i].node].epoch => j = i
  <2>1. PICK a : a = o.admissions[i] /\ a = p.admissions[i]
    BY <1>3
  <2>2. /\ a.node \in tree[o.tip].anc /\ tree[a.node].epoch # 0
        /\ \/ InHistory(o, a.node)
           \/ /\ Verified(AdmissionStep(a))
              /\ \A j \in 1..N : tree[o.admissions[j].node].epoch = tree[a.node].epoch => j = i
    <3>1. /\ o.admissions[i].node \in tree[o.tip].anc /\ tree[o.admissions[i].node].epoch # 0
          /\ \/ InHistory(o, o.admissions[i].node)
             \/ /\ Verified(AdmissionStep(o.admissions[i]))
                /\ \A j \in DOMAIN o.admissions :
                     tree[o.admissions[j].node].epoch = tree[o.admissions[i].node].epoch => j = i
      BY <1>2, <1>3 DEF AdmissionsKept
    <3> QED BY <1>3, <2>1, <3>1
  <2>3. InHistory(o, a.node) => InHistory(p, a.node)
    BY <1>4 DEF InHistory
  <2>4. ASSUME NEW j \in DOMAIN p.admissions, tree[p.admissions[j].node].epoch = tree[a.node].epoch,
               \A x \in 1..N : tree[o.admissions[x].node].epoch = tree[a.node].epoch => x = i
        PROVE  j = i
    <3>1. CASE j \in 1..N
      BY <1>3, <2>4, <3>1
    <3>2. CASE j \notin 1..N
      <4>1. PICK k \in 1..M : p.admissions[j] = answered[k]
        BY <1>3, <1>5, <3>2
      <4>2. tree[p.tip].epoch = tree[a.node].epoch
        <5>1. answered[k].node = p.tip
          BY <1>2, <1>3
        <5> QED BY <2>4, <4>1, <5>1
      <4>3. PICK x \in Nat, y \in Nat : x = tree[p.tip].epoch /\ y = tree[a.node].epoch
        <5>1. tree[p.tip].epoch \in Nat /\ tree[a.node].epoch \in Nat
          BY <1>1, <2>2 DEF Branches
        <5> QED BY <5>1
      <4>4. y < x
        BY <1>1, <2>2, <4>3
      <4> QED BY <4>2, <4>3, <4>4, SMTT(30)
    <3> QED BY <3>1, <3>2
  <2> QED BY <1>1, <2>1, <2>2, <2>3, <2>4
<1>8. ASSUME NEW i \in DOMAIN p.admissions, i \notin 1..N
      PROVE  /\ p.admissions[i].node \in tree[p.tip].anc
             /\ tree[p.admissions[i].node].epoch # 0
             /\ \/ InHistory(p, p.admissions[i].node)
                \/ /\ Verified(AdmissionStep(p.admissions[i]))
                   /\ \A j \in DOMAIN p.admissions :
                        tree[p.admissions[j].node].epoch = tree[p.admissions[i].node].epoch => j = i
  <2>1. PICK k \in 1..M : i = N + k /\ p.admissions[i] = answered[k]
    BY <1>3, <1>5, <1>8
  <2>2. p.admissions[i].node = p.tip
    BY <1>2, <1>3, <2>1
  <2>3. tree[p.tip].epoch # 0
    BY DEF Advances
  <2>4. CASE p.history # NoHistory
    BY <1>1, <1>4, <2>2, <2>3, <2>4 DEF InHistory
  <2>5. CASE p.history = NoHistory
    <3>1. M = 1 /\ Verified(AdmissionStep(answered[1]))
      <4>1. p.history # append_history(o, auth, p.tip)
        <5>1. SUFFICES ASSUME p.history = append_history(o, auth, p.tip) PROVE FALSE
          OBVIOUS
        <5>2. o.history = NoHistory
          BY <1>4, <2>5
        <5>3. append_history(o, auth, p.tip).start = Checkpoint(o.tip, o.me)
          BY <5>2 DEF append_history
        <5>4. PICK from, step : append_history(o, auth, p.tip) = [start |-> from, steps |-> <<step>>]
          BY <5>2 DEF append_history
        <5>5. p.history.steps = <<step>> /\ NoHistory.steps = <<>> /\ Len(<<step>>) = 1 /\ Len(<<>>) = 0
          BY <5>1, <5>4, SMTT(30) DEF NoHistory
        <5>6. <<step>> = <<>>
          BY <2>5, <5>5
        <5> QED BY <5>5, <5>6
      <4> QED BY <4>1 DEF Advances, M
    <3>2. k = 1
      BY <3>1, SMTT(30)
    <3>3. ASSUME NEW j \in DOMAIN p.admissions, tree[p.admissions[j].node].epoch = tree[p.tip].epoch
          PROVE  j = i
      <4>1. CASE j \in 1..N
        <5>1. p.admissions[j].node \in tree[o.tip].anc
          BY <1>2, <1>3, <4>1 DEF AdmissionsKept
        <5>2. PICK x \in Nat, y \in Nat : x = tree[p.tip].epoch /\ y = tree[p.admissions[j].node].epoch
          <6>1. tree[p.tip].epoch \in Nat /\ tree[p.admissions[j].node].epoch \in Nat
            BY <1>1, <5>1 DEF Branches
          <6> QED BY <6>1
        <5>3. y < x
          BY <1>1, <5>1, <5>2
        <5> QED BY <3>3, <5>2, <5>3, SMTT(30)
      <4>2. CASE j \notin 1..N
        <5>1. PICK x \in 1..M : j = N + x
          BY <1>3, <1>5, <4>2
        <5> QED BY <2>1, <3>1, <3>2, <5>1, SMTT(30)
      <4> QED BY <4>1, <4>2
    <3> QED BY <1>1, <2>1, <2>2, <2>3, <3>1, <3>2, <3>3
  <2> QED BY <2>4, <2>5
<1> QED BY <1>3, <1>7, <1>8 DEF AdmissionsKept

\* The later copy keeps its records, its replies if it serves the new ones.
AdvanceRule ==
  \A o, p, auth, answered :
    Branches /\ Advances(o, p, auth, answered) =>
      /\ HistoryKept(p) /\ AdmissionsKept(p) /\ CheckpointsKept(p)
      /\ (\A i \in DOMAIN answered :
             /\ Serves(p, answered[i].request.inv.pin)
             /\ answered[i].request.inv.pin.node # p.tip) => RepliesKept(p)

\* Every record of the later copy (append_history, prune_invitation_checkpoints).
LEMMA AdvanceKeeps == AdvanceRule
<1> SUFFICES ASSUME NEW o, NEW p, NEW auth, NEW answered, Branches, Advances(o, p, auth, answered)
    PROVE  /\ HistoryKept(p) /\ AdmissionsKept(p) /\ CheckpointsKept(p)
           /\ (\A i \in DOMAIN answered :
                  /\ Serves(p, answered[i].request.inv.pin)
                  /\ answered[i].request.inv.pin.node # p.tip) => RepliesKept(p)
  BY DEF AdvanceRule
<1>1. HistoryKept(p) /\ AdmissionsKept(p)
  BY AdvanceHistory, AdvanceAdmissions
<1>2. KeepsRecords(o) /\ \A pin : Serves(o, pin) => Serves(p, pin)
  BY AdvanceServes DEF Advances
<1>3. CheckpointsKept(p)
  BY <1>2 DEF CheckpointsKept, Advances, KeepsRecords
<1>4. ASSUME \A i \in DOMAIN answered :
               /\ Serves(p, answered[i].request.inv.pin)
               /\ answered[i].request.inv.pin.node # p.tip
      PROVE  RepliesKept(p)
  <2> DEFINE N == Len(o.admissions)
             M == Len(answered)
  <2>1. /\ IsSeq(o.admissions) /\ IsSeq(answered) /\ p.admissions = o.admissions \o answered
        /\ \A i \in DOMAIN answered : answered[i].node = p.tip
    BY DEF Advances, HoldsCommits
  <2>2. /\ N \in Nat /\ M \in Nat
        /\ DOMAIN o.admissions = 1..N /\ DOMAIN answered = 1..M /\ DOMAIN p.admissions = 1..(N + M)
        /\ \A i \in 1..N : p.admissions[i] = o.admissions[i]
        /\ \A i \in 1..M : p.admissions[N + i] = answered[i]
    BY <2>1, ConcatAt, SMTT(30)
  <2> HIDE DEF N, M
  <2>3. ASSUME NEW i \in 1..N
        PROVE  /\ Serves(p, p.admissions[i].request.inv.pin)
               /\ tree[p.admissions[i].request.inv.pin.node].epoch < tree[p.admissions[i].node].epoch
    BY <1>2, <2>2 DEF KeepsRecords, RepliesKept
  <2>4. ASSUME NEW i \in DOMAIN p.admissions, i \notin 1..N
        PROVE  /\ Serves(p, p.admissions[i].request.inv.pin)
               /\ tree[p.admissions[i].request.inv.pin.node].epoch < tree[p.admissions[i].node].epoch
    <3>1. PICK k \in 1..M : p.admissions[i] = answered[k]
      <4>1. i - N \in 1..M /\ i = N + (i - N)
        BY <2>2, <2>4, SMTT(30)
      <4> QED BY <2>2, <4>1
    <3>2. PICK n : n = answered[k].request.inv.pin.node
      OBVIOUS
    <3>3. Serves(p, answered[k].request.inv.pin) /\ n # p.tip /\ answered[k].node = p.tip
      BY <1>4, <2>1, <2>2, <3>2
    <3>4. n \in tree[p.tip].anc
      BY <3>2, <3>3 DEF Serves
    <3>5. /\ p.tip \in Nodes /\ tree[p.tip].anc \subseteq Nodes /\ p.tip \in tree[p.tip].anc
          /\ tree[n].epoch \in Nat /\ tree[p.tip].epoch \in Nat
          /\ tree[n].epoch <= tree[p.tip].epoch
          /\ tree[n].epoch = tree[p.tip].epoch => n = p.tip
      BY <3>4, AdvanceBranch DEF Branches
    <3>6. PICK x \in Nat, y \in Nat : x = tree[n].epoch /\ y = tree[p.tip].epoch
      BY <3>5
    <3>7. x < y
      BY <3>3, <3>5, <3>6, SMTT(30)
    <3> QED BY <3>1, <3>2, <3>3, <3>6, <3>7
  <2> QED BY <2>2, <2>3, <2>4 DEF RepliesKept
<1> QED BY <1>1, <1>3, <1>4

\* The same of the copies after a step.
LEMMA AdvanceKeepsNext == AdvanceRule'
  BY AdvanceKeeps, PTL

-----------------------------------------------------------------------------
(* The tree grows. *)

\* A step a verifier accepted, it accepts whatever is committed later.
LEMMA VerifiedStays ==
  ASSUME Branches, Nodes \subseteq Nodes', \A n \in Nodes : tree'[n] = tree[n],
         NEW step, Verified(step)
  PROVE  Verified(step)'
<1>1. /\ step.node \in Nodes /\ tree[step.node].epoch # 0
      /\ Applies(tree[step.node].parent, step)
  BY DEF Verified
<1>2. PICK n \in Nodes : n = step.node
  BY <1>1
<1>3. PICK tip : tip = tree[n].parent
  OBVIOUS
<1>4. tip \in Nodes /\ tree'[n] = tree[n] /\ tree'[tip] = tree[tip]
  BY <1>1, <1>2, <1>3 DEF Branches
<1>5. Group(tip)' = Group(tip)
  BY <1>4 DEF Group
<1>6. /\ tree[n].parent = tip
      /\ apply_transition(Group(tip), tip, tree[n], step.auth)
  BY <1>1, <1>2, <1>3 DEF Applies
<1>7. /\ n \in Nodes' /\ tree'[n].epoch # 0 /\ tree'[n].parent = tip
      /\ apply_transition(Group(tip)', tip, tree'[n], step.auth)
  BY <1>1, <1>2, <1>3, <1>4, <1>5, <1>6
<1> QED BY <1>2, <1>7 DEF Verified, Applies, Nodes

\* Steps that lead to a commit still do, whatever is committed later.
LEMMA LeadsStays ==
  ASSUME Branches, Nodes \subseteq Nodes', \A n \in Nodes : tree'[n] = tree[n],
         NEW tip \in Nodes, NEW start, NEW steps, Leads(start, steps, tip)
  PROVE  Leads(start, steps, tip)'
<1>1. tree[tip].anc \subseteq Nodes /\ tree'[tip] = tree[tip]
  BY DEF Branches
<1>2. start \in Nodes /\ tree'[start] = tree[start] /\ start \in tree[tip].anc
  BY <1>1 DEF Leads
<1>3. \A i \in DOMAIN steps :
        /\ steps[i].node \in tree[tip].anc /\ tree'[steps[i].node] = tree[steps[i].node]
        /\ tree[steps[i].node].epoch = tree[start].epoch + i
        /\ Verified(steps[i])'
  BY <1>1, VerifiedStays DEF Leads
<1>4. IsSeq(steps) /\ tree[tip].epoch = tree[start].epoch + Len(steps)
  BY DEF Leads
<1> QED BY <1>1, <1>2, <1>3, <1>4 DEF Leads

\* A checkpoint an owner serves, it serves whatever others commit.
LEMMA ServesStays ==
  ASSUME Branches, Nodes \subseteq Nodes', \A n \in Nodes : tree'[n] = tree[n],
         NEW o, o.tip \in Nodes, StepNodes(o) \subseteq tree[o.tip].anc, NEW pin, Serves(o, pin)
  PROVE  Serves(o, pin)'
<1>1. tree[o.tip].anc \subseteq Nodes /\ tree'[o.tip] = tree[o.tip]
  BY DEF Branches
<1>2. /\ pin.node \in tree[o.tip].anc /\ tree'[pin.node] = tree[pin.node]
      /\ Spans(o, tree[pin.node].epoch)
      /\ from_trusted_checkpoint(Group(pin.node)) /\ pin.signer \in tree[pin.node].ext.admins
  BY <1>1 DEF Serves
<1>3. Group(pin.node)' = Group(pin.node)
  BY <1>2 DEF Group
<1>4. \A n \in StepNodes(o) : tree'[n] = tree[n]
  BY <1>1
<1>5. PICK e : e = tree[pin.node].epoch
  OBVIOUS
<1>6. Spans(o, e)'
  BY <1>1, <1>2, <1>4, <1>5 DEF Spans
<1> QED BY <1>1, <1>2, <1>3, <1>5, <1>6 DEF Serves

\* An owner's records stay good whatever others commit ("its own branch only
\* extends").
LEMMA RecordsStay ==
  ASSUME Branches, Nodes \subseteq Nodes', \A n \in Nodes : tree'[n] = tree[n],
         NEW o, HoldsCommits(o), KeepsRecords(o)
  PROVE  KeepsRecords(o)'
<1>1. /\ o.tip \in Nodes /\ tree[o.tip].anc \subseteq Nodes /\ tree'[o.tip] = tree[o.tip]
      /\ HistoryKept(o) /\ AdmissionsKept(o) /\ CheckpointsKept(o) /\ RepliesKept(o)
  BY DEF HoldsCommits, KeepsRecords, Branches
<1>2. StepNodes(o) \subseteq tree[o.tip].anc
  BY <1>1, KeptRecords
<1>3. HistoryKept(o)'
  BY <1>1, LeadsStays DEF HistoryKept
<1>4. \A pin : Serves(o, pin) => Serves(o, pin)'
  BY <1>1, <1>2, ServesStays
<1>5. \A pin : Serves(o, pin) => pin.node \in Nodes /\ tree'[pin.node] = tree[pin.node]
  BY <1>1 DEF Serves
<1>6. RepliesKept(o)'
  <2>1. \A i \in DOMAIN o.admissions : tree'[o.admissions[i].node] = tree[o.admissions[i].node]
    BY <1>1 DEF AdmissionsKept
  <2> QED BY <1>1, <1>4, <1>5, <2>1 DEF RepliesKept
<1>7. CheckpointsKept(o)'
  <2>1. ASSUME NEW inv \in o.checkpoints PROVE Serves(o, inv.pin)' /\ RegisteredAt(inv, inv.pin.node)'
    <3>1. Serves(o, inv.pin) /\ RegisteredAt(inv, inv.pin.node)
      BY <1>1 DEF CheckpointsKept
    <3>2. PICK n \in Nodes : n = inv.pin.node /\ tree'[n] = tree[n]
      BY <1>5, <3>1
    <3>3. tree[n].epoch # 0 => tree[n].parent \in Nodes /\ tree'[tree[n].parent] = tree[tree[n].parent]
      BY SMTT(30) DEF Branches
    <3>4. RegisteredAt(inv, n)'
      BY <3>1, <3>2, <3>3 DEF RegisteredAt
    <3> QED BY <1>4, <3>1, <3>2, <3>4
  <2> QED BY <2>1 DEF CheckpointsKept
<1>8. AdmissionsKept(o)'
  <2>1. \A i \in DOMAIN o.admissions :
          o.admissions[i].node \in Nodes /\ tree'[o.admissions[i].node] = tree[o.admissions[i].node]
    BY <1>1 DEF AdmissionsKept
  <2>2. o.history # NoHistory => tree'[o.history.start.node] = tree[o.history.start.node]
    BY <1>1 DEF HistoryKept, Leads
  <2>3. ASSUME NEW i \in DOMAIN o.admissions
        PROVE  /\ o.admissions[i].node \in tree'[o.tip].anc
               /\ tree'[o.admissions[i].node].epoch # 0
               /\ \/ InHistory(o, o.admissions[i].node)'
                  \/ /\ Verified(AdmissionStep(o.admissions[i]))'
                     /\ \A j \in DOMAIN o.admissions :
                          tree'[o.admissions[j].node].epoch = tree'[o.admissions[i].node].epoch => j = i
    <3>1. /\ o.admissions[i].node \in tree[o.tip].anc
          /\ tree[o.admissions[i].node].epoch # 0
          /\ \/ InHistory(o, o.admissions[i].node)
             \/ /\ Verified(AdmissionStep(o.admissions[i]))
                /\ \A j \in DOMAIN o.admissions :
                     tree[o.admissions[j].node].epoch = tree[o.admissions[i].node].epoch => j = i
      BY <1>1 DEF AdmissionsKept
    <3>2. InHistory(o, o.admissions[i].node) => InHistory(o, o.admissions[i].node)'
      BY <2>1, <2>2 DEF InHistory
    <3>3. Verified(AdmissionStep(o.admissions[i])) => Verified(AdmissionStep(o.admissions[i]))'
      BY VerifiedStays
    <3> QED BY <1>1, <2>1, <3>1, <3>2, <3>3
  <2> QED BY <2>3 DEF AdmissionsKept
<1> QED BY <1>3, <1>6, <1>7, <1>8 DEF KeepsRecords

\* One more commit, on any node (Extended).
LEMMA TreeGrows ==
  ASSUME TreeShape, Branches, NEW tip \in Nodes, NEW commit, NEW auth,
         tree' = Extended(tip, commit, auth)
  PROVE  /\ Branches'
         /\ Nodes' = Nodes \cup {NewNode} /\ NewNode \notin Nodes /\ NewNode \in Nat \ {0}
         /\ \A n \in Nodes : tree'[n] = tree[n]
         /\ tree'[NewNode].parent = tip /\ tree'[NewNode].epoch # 0
         /\ tree'[NewNode].actor = commit.actor /\ tree'[NewNode].add = commit.add
         /\ tree'[NewNode].remove = commit.remove /\ tree'[NewNode].ext = commit.ext
         /\ tree'[NewNode].members = merge_commit(Group(tip), commit).members
<1>1. PICK node : node = [parent |-> tip, epoch |-> Epoch(tip) + 1,
                          anc |-> tree[tip].anc \cup {NewNode}, auth |-> auth,
                          actor |-> commit.actor, add |-> commit.add, remove |-> commit.remove,
                          members |-> merge_commit(Group(tip), commit).members,
                          ext |-> merge_commit(Group(tip), commit).ext]
  OBVIOUS
<1>2. tree' = Append(tree, node)
  BY <1>1 DEF Extended
<1>3. /\ node.parent = tip /\ node.epoch = tree[tip].epoch + 1
      /\ node.anc = tree[tip].anc \cup {NewNode}
      /\ node.actor = commit.actor /\ node.add = commit.add /\ node.remove = commit.remove
      /\ node.members = merge_commit(Group(tip), commit).members
      /\ node.ext = merge_commit(Group(tip), commit).ext
  BY <1>1 DEF Epoch
<1>4. merge_commit(Group(tip), commit).ext = commit.ext
  BY DEF merge_commit
<1>5. /\ Nodes' = Nodes \cup {NewNode} /\ tree'[NewNode] = node
      /\ \A n \in Nodes : tree'[n] = tree[n] /\ n # NewNode
      /\ NewNode \in Nat \ {0}
  <2>1. NewNode \in Nat \ {0}
    BY AppendSeq, SMTT(30) DEF TreeShape, NewNode
  <2> QED BY <1>2, <2>1, AppendSeq, SMTT(30) DEF TreeShape, Nodes, NewNode
<1>6. PICK m : m = NewNode
  OBVIOUS
<1>7. PICK E \in Nat, A \in SUBSET Nodes : E = tree[tip].epoch /\ A = tree[tip].anc
  BY DEF Branches
<1>8. /\ tree'[m].epoch = E + 1 /\ tree'[m].anc = A \cup {m} /\ tree'[m].parent = tip
      /\ m \notin Nodes /\ tip \in A
  BY <1>3, <1>5, <1>6, <1>7 DEF Branches
<1>9. \A a \in A : /\ tree[a].epoch \in Nat /\ tree[a].epoch <= E
                   /\ tree[a].anc \subseteq A /\ tree'[a] = tree[a]
  BY <1>5, <1>7 DEF Branches
<1>10. \A a, b \in A : /\ tree[a].epoch <= tree[b].epoch => a \in tree[b].anc
                       /\ tree[a].epoch = tree[b].epoch => a = b
  BY <1>7 DEF Branches
<1>11. ASSUME NEW n \in Nodes'
       PROVE  /\ tree'[n].epoch \in Nat
              /\ n \in tree'[n].anc /\ tree'[n].anc \subseteq Nodes'
              /\ \A a \in tree'[n].anc : tree'[a].epoch <= tree'[n].epoch /\ tree'[a].anc \subseteq tree'[n].anc
              /\ \A a, b \in tree'[n].anc : tree'[a].epoch <= tree'[b].epoch => a \in tree'[b].anc
              /\ \A a, b \in tree'[n].anc : tree'[a].epoch = tree'[b].epoch => a = b
              /\ tree'[n].epoch = 0 => tree'[n].parent = 0
              /\ tree'[n].epoch # 0 =>
                   tree'[n].parent \in tree'[n].anc /\ tree'[n].epoch = tree'[tree'[n].parent].epoch + 1
  <2>1. CASE n \in Nodes
    <3>1. tree'[n] = tree[n] /\ \A a \in tree[n].anc : a \in Nodes /\ tree'[a] = tree[a]
      BY <1>5, <2>1 DEF Branches
    <3> QED BY <1>5, <2>1, <3>1, SMTT(30) DEF Branches
  <2>2. CASE n = m
    <3>1. \A a \in tree'[m].anc : tree'[a].epoch <= tree'[m].epoch /\ tree'[a].anc \subseteq tree'[m].anc
      BY <1>8, <1>9, SMTT(30)
    <3>2. ASSUME NEW a \in A \cup {m}, NEW b \in A \cup {m}, tree'[a].epoch <= tree'[b].epoch
          PROVE  a \in tree'[b].anc
      <4>1. CASE b = m
        BY <1>8, <4>1
      <4>2. CASE b # m /\ a = m
        <5>1. PICK x \in Nat : x = tree[b].epoch /\ x <= E /\ tree'[b].epoch = x
          BY <1>9, <4>2
        <5>2. E + 1 <= x
          BY <1>8, <3>2, <4>2, <5>1
        <5> QED BY <5>1, <5>2, SMTT(30)
      <4>3. CASE b # m /\ a # m
        BY <1>9, <1>10, <3>2, <4>3
      <4> QED BY <4>1, <4>2, <4>3
    <3>3. ASSUME NEW a \in A \cup {m}, NEW b \in A \cup {m}, tree'[a].epoch = tree'[b].epoch
          PROVE  a = b
      <4>1. \A x \in A : tree'[x].epoch # E + 1
        BY <1>9, SMTT(30)
      <4> QED BY <1>8, <1>9, <1>10, <3>3, <4>1, SMTT(30)
    <3>4. tree'[m].epoch \in Nat /\ tree'[m].epoch # 0 /\ tree'[m].epoch = tree'[tip].epoch + 1
      BY <1>5, <1>7, <1>8, SMTT(30)
    <3>5. m \in tree'[m].anc /\ tree'[m].anc \subseteq Nodes' /\ tip \in tree'[m].anc
      BY <1>5, <1>6, <1>7, <1>8
    <3>6. /\ \A a, b \in tree'[m].anc : tree'[a].epoch <= tree'[b].epoch => a \in tree'[b].anc
          /\ \A a, b \in tree'[m].anc : tree'[a].epoch = tree'[b].epoch => a = b
      BY <1>8, <3>2, <3>3
    <3>7. /\ tree'[m].parent \in tree'[m].anc
          /\ tree'[m].epoch = tree'[tree'[m].parent].epoch + 1
      BY <1>8, <3>4, <3>5
    <3> QED BY <2>2, <3>1, <3>4, <3>5, <3>6, <3>7, SMTT(30)
  <2> QED BY <1>5, <1>6, <2>1, <2>2
<1>12. Branches'
  BY <1>11 DEF Branches
<1>13. tree'[NewNode].epoch # 0
  BY <1>6, <1>7, <1>8, SMTT(30)
<1> QED BY <1>3, <1>4, <1>5, <1>12, <1>13

-----------------------------------------------------------------------------
(* Steps of the workspace. *)

\* One device's copy changes, on a tree that only grew.
LEMMA RecordsMove ==
  ASSUME GroupInv, RecordInv, Branches', Nodes \subseteq Nodes', \A n \in Nodes : tree'[n] = tree[n],
         NEW d \in Devices, NEW p, owner' = [owner EXCEPT ![d] = p],
         p.tip # 0 => KeepsRecords(p)'
  PROVE  RecordInv'
<1>1. DOMAIN owner = Devices
  BY DEF GroupInv, OwnersHoldCommits
<1>2. ASSUME NEW c \in Devices, owner'[c].tip # 0 PROVE KeepsRecords(owner[c])'
  <2>1. CASE c = d
    <3>1. owner'[c] = p
      BY <1>1, <2>1
    <3> QED BY <1>2, <3>1
  <2>2. CASE c # d
    <3>1. PICK o : o = owner[c]
      OBVIOUS
    <3>2. owner'[c] = o
      BY <1>1, <2>2, <3>1
    <3>3. HoldsCommits(o) /\ KeepsRecords(o)
      BY <1>2, <3>1, <3>2 DEF GroupInv, OwnersHoldCommits, RecordInv, IsOwner
    <3>4. KeepsRecords(o)'
      BY <3>3, RecordsStay DEF RecordInv
    <3> QED BY <3>2, <3>4
  <2> QED BY <2>1, <2>2
<1> QED BY <1>2 DEF RecordInv, IsOwner

\* A checkpoint of the head itself needs no records.
LEMMA HeadServes ==
  \A p, pin :
    /\ Branches /\ p.tip \in Nodes /\ pin.node = p.tip
    /\ from_trusted_checkpoint(Group(p.tip)) /\ pin.signer \in tree[p.tip].ext.admins
    => Serves(p, pin)
<1> SUFFICES ASSUME NEW p, NEW pin, Branches, p.tip \in Nodes, pin.node = p.tip,
                    from_trusted_checkpoint(Group(p.tip)), pin.signer \in tree[p.tip].ext.admins
    PROVE  Serves(p, pin)
  OBVIOUS
<1>1. p.tip \in tree[p.tip].anc /\ tree[p.tip].epoch \in Nat
  BY DEF Branches
<1>2. tree[p.tip].epoch..(tree[p.tip].epoch - 1) = {}
  BY <1>1, SMTT(30)
<1> QED BY <1>1, <1>2 DEF Serves, Spans

\* The same after a step.
LEMMA HeadServesNext ==
  (\A p, pin :
    /\ Branches /\ p.tip \in Nodes /\ pin.node = p.tip
    /\ from_trusted_checkpoint(Group(p.tip)) /\ pin.signer \in tree[p.tip].ext.admins
    => Serves(p, pin))'
  BY HeadServes, PTL

\* A verifier's answer depends on what the commit does, not on where it is kept.
LEMMA ManagementVerified ==
  ASSUME NEW group, NEW tip, NEW commit, NEW node, NEW action,
         verify_management(group, tip, commit, action),
         node.actor = commit.actor, node.add = commit.add, node.remove = commit.remove,
         node.ext = commit.ext
  PROVE  apply_transition(group, tip, node, Management(action))
<1>1. verify_management(group, tip, node, action)
  BY DEF verify_management
<1>2. Management(action).kind = "Management" /\ Management(action).action = action
  BY DEF Management
<1> QED BY <1>1, <1>2 DEF apply_transition

\* A new commit that its maker verified is a step any copy at its parent accepts.
LEMMA NewStepVerified ==
  ASSUME NEW tip \in Nodes, NEW m \in Nodes', NEW auth, tree'[tip] = tree[tip],
         tree'[m].epoch # 0, tree'[m].parent = tip,
         apply_transition(Group(tip), tip, tree'[m], auth)
  PROVE  Verified(Step(auth, m))'
<1>1. Step(auth, m).node = m /\ Step(auth, m).auth = auth
  BY DEF Step
<1>2. Group(tip)' = Group(tip)
  BY DEF Group
<1> QED BY <1>1, <1>2 DEF Verified, Applies, Nodes

\* A verifier that replays accepted history has no clock.
LEMMA CheckWithoutClock ==
  ASSUME NEW e, NEW key, NEW now, NEW package, check(e, key, now, package) = "ok"
  PROVE  check(e, key, 0, package) = "ok"
<1>1. CASE key \notin DOMAIN e.controls
  BY <1>1 DEF check
<1>2. CASE key \in DOMAIN e.controls
  <2>1. PICK c : c = e.controls[key]
    OBVIOUS
  <2>2. c.enabled /\ ~ automatic(c)
    BY <1>2, <2>1 DEF check
  <2>3. request_access(c) => /\ decision_key(key, package) \in DOMAIN e.controls
                             /\ e.controls[decision_key(key, package)].enabled
    BY <1>2, <2>1, <2>2 DEF check
  <2>4. ~ request_access(c) /\ c.personal => c.approved = package
    BY <1>2, <2>1, <2>2 DEF check
  <2> QED BY <1>2, <2>1, <2>2, <2>3, <2>4 DEF check
<1> QED BY <1>1, <1>2

\* The commit an owner builds for a batch of n requests it checked.
BatchCommit(o, n, batch, auths, adds, node) ==
  /\ o.me \in tree[o.tip].members /\ n \in 1..MaxBatch /\ n \in Nat
  /\ \A i \in 1..n : check_validated_admission(o, batch[i])
  /\ auths \in [1..n -> Range(auths)] /\ \A i \in 1..n : auths[i] = Authorization(batch[i])
  /\ adds \in [1..n -> Range(adds)] /\ \A i \in 1..n : adds[i] = batch[i].package
  /\ node.actor = o.me /\ node.add = adds /\ node.remove = {} /\ node.ext = tree[o.tip].ext
  /\ IsInjective(node.add)

\* Any verifier accepts it (verify_add_batch).
LEMMA BatchVerified ==
  ASSUME NEW o, NEW n, NEW batch, NEW auths, NEW adds, NEW node,
         BatchCommit(o, n, batch, auths, adds, node)
  PROVE  /\ apply_transition(Group(o.tip), o.tip, node, Adds(auths))
         /\ n = 1 => apply_transition(Group(o.tip), o.tip, node, Adds(<<auths[1]>>))
<1> USE DEF BatchCommit
<1>1. /\ IsSeq(auths) /\ IsSeq(node.add) /\ Len(auths) = n /\ Len(node.add) = n
      /\ DOMAIN auths = 1..n
  <2>1. IsSeq(auths) /\ IsSeq(adds)
    BY BatchSeq
  <2>2. Len(auths) = n /\ Len(adds) = n
    BY <2>1, SMTT(30) DEF IsSeq
  <2> QED BY <2>1, <2>2
<1>2. Group(o.tip).members = tree[o.tip].members /\ Group(o.tip).ext = tree[o.tip].ext
  BY DEF Group
<1>3. ASSUME NEW i \in 1..n
      PROVE  /\ unbound(Group(o.tip), node.add[i])
             /\ check(tree[o.tip].ext, auths[i].key, 0, node.add[i]) = "ok"
             /\ auths[i].issuer \in tree[o.tip].ext.admins
             /\ auths[i].package = node.add[i]
  <2>1. /\ check(tree[o.tip].ext, batch[i].inv.key, clock, batch[i].package) = "ok"
        /\ batch[i].inv.pin.signer \in tree[o.tip].ext.admins
        /\ unbound(Group(o.tip), batch[i].package)
    BY DEF check_validated_admission
  <2>2. auths[i] = [key |-> batch[i].inv.key, issuer |-> batch[i].inv.pin.signer, package |-> batch[i].package]
    BY DEF Authorization
  <2>3. /\ auths[i].key = batch[i].inv.key /\ auths[i].issuer = batch[i].inv.pin.signer
        /\ auths[i].package = batch[i].package /\ node.add[i] = batch[i].package
    BY <2>2, SMTT(30)
  <2> QED BY <2>1, <2>3, CheckWithoutClock, SMTT(30)
<1>4. verify_add_batch(Group(o.tip), node, auths)
  BY <1>1, <1>2, <1>3 DEF verify_add_batch
<1>5. /\ Adds(auths).auths = auths
      /\ Adds(auths).kind = IF n = 1 THEN "Admission" ELSE "AdmissionBatch"
  BY <1>1 DEF Adds
<1>6. apply_transition(Group(o.tip), o.tip, node, Adds(auths))
  BY <1>1, <1>4, <1>5 DEF apply_transition
<1>7. n = 1 => auths = <<auths[1]>>
  BY <1>1, SMTT(30) DEF IsSeq
<1> QED BY <1>6, <1>7

-----------------------------------------------------------------------------
(* What commits, tokens and copies are made of. *)

ExtTyped(e) ==
  /\ e.legacy \in BOOLEAN
  /\ DOMAIN e.controls \subseteq ControlKeys
  /\ \A k \in DOMAIN e.controls : e.controls[k] \in Control

CommitsTyped ==
  \A n \in Nodes :
    tree[n].members \subseteq Packages /\ ExtTyped(tree[n].ext) /\ (n # 1 => tree[n].epoch # 0)

TypesInv ==
  /\ CommitsTyped
  /\ invitations \subseteq Invitation /\ IsFiniteSet(invitations)
  /\ requests \subseteq [package: Packages, inv: invitations]
  /\ \A d \in Devices : owner[d].tip # 0 => owner[d].checkpoints \subseteq invitations

\* What each invitation action leaves is an extension again
\* (invitation_controls::changed).
LEMMA ChangedTyped ==
  ASSUME NEW e, ExtTyped(e), DecisionsBelong(e), NEW action, Changeable(e, action),
         action.op \in Creations =>
           action.key \in Keys /\ action.expires \in Nat /\ action.personal \in BOOLEAN,
         action.op \in {"ApproveInvitation", "DeclineInvitationRequest"} =>
           action.key \in Keys /\ action.package \in Packages
  PROVE  ExtTyped(changed(e, action))
<1> USE PolicyAssumption
<1>1. e = [admins |-> e.admins, legacy |-> e.legacy, controls |-> e.controls]
  BY DEF DecisionsBelong
<1>2. PICK f : f = changed(e, action)
  OBVIOUS
<1>3. PICK controls : controls = changed_controls(e, action)
  OBVIOUS
<1>4. PICK legacy : legacy = (e.legacy /\ ~(action.op = "DisableInvitation" /\ action.key = OlderInvitations))
  OBVIOUS
<1>5. legacy \in BOOLEAN
  BY <1>4
<1>6. f = [e EXCEPT !.controls = controls, !.legacy = legacy]
  BY <1>2, <1>3, <1>4 DEF changed
<1>7. f.controls = controls /\ f.legacy = legacy
  BY <1>1, <1>6
<1>8. SUFFICES DOMAIN controls \subseteq ControlKeys /\ \A k \in DOMAIN controls : controls[k] \in Control
  BY <1>2, <1>5, <1>7 DEF ExtTyped
<1>9. PICK old : old = e.controls /\ DOMAIN old \subseteq ControlKeys /\ \A k \in DOMAIN old : old[k] \in Control
  BY DEF ExtTyped
<1>10. ASSUME NEW key \in ControlKeys, NEW c \in Control, controls = Put(old, key, c)
       PROVE  DOMAIN controls \subseteq ControlKeys /\ \A k \in DOMAIN controls : controls[k] \in Control
  BY <1>9, <1>10 DEF Put
<1>11. ASSUME NEW yes \in BOOLEAN, action.key \in Keys, action.package \in Packages,
              action.key \in DOMAIN old,
              controls = decide(old, action.key, action.package, yes)
       PROVE  DOMAIN controls \subseteq ControlKeys /\ \A k \in DOMAIN controls : controls[k] \in Control
  <2>1. PICK c : c = [expires |-> old[action.key].expires, enabled |-> yes, personal |-> TRUE,
                      approved |-> action.package]
    OBVIOUS
  <2>2. old[action.key].expires \in Nat
    BY <1>9, <1>11 DEF Control
  <2>3. c \in Control
    BY <1>11, <2>1, <2>2 DEF Control
  <2>4. decision_key(action.key, action.package) \in ControlKeys
    BY <1>11 DEF decision_key, ControlKeys
  <2>5. controls = Put(old, decision_key(action.key, action.package), c)
    BY <1>11, <2>1 DEF decide
  <2> QED BY <1>10, <2>3, <2>4, <2>5
<1>12. CASE action.op \in Creations
  <2>1. PICK personal : personal = (action.op # "CreateInvitation" \/ action.personal)
    OBVIOUS
  <2>2. personal \in BOOLEAN
    BY <2>1
  <2>3. PICK c : c = created(action)
    OBVIOUS
  <2>4. c = [expires |-> action.expires, enabled |-> TRUE, personal |-> personal,
             approved |-> CASE action.op = "CreateAutomaticInvitation" -> AutomaticApproval
                            [] action.op = "CreateRequestInvitation" -> RequestAccess
                            [] OTHER -> NoPackage]
    BY <2>1, <2>3 DEF created
  <2>5. c \in Control
    BY <1>12, <2>2, <2>4 DEF Control
  <2>6. controls = Put(old, action.key, c) /\ action.key \in ControlKeys
    BY <1>3, <1>9, <1>12, <2>3 DEF changed_controls, Creations, ControlKeys
  <2> QED BY <1>10, <2>5, <2>6
<1>13. ASSUME NEW k \in DOMAIN old, NEW c \in Control, controls = [old EXCEPT ![k] = c]
       PROVE  DOMAIN controls \subseteq ControlKeys /\ \A x \in DOMAIN controls : controls[x] \in Control
  BY <1>9, <1>13
<1>14. CASE action.op = "ApproveInvitation"
  <2>1. action.key \in DOMAIN old /\ action.key \in Keys /\ action.package \in Packages
    BY <1>9, <1>14 DEF Changeable, Creations
  <2>2. CASE request_access(old[action.key])
    <3>1. controls = decide(old, action.key, action.package, TRUE)
      BY <1>3, <1>9, <1>14, <2>2 DEF changed_controls, Creations
    <3> QED BY <1>11, <2>1, <3>1
  <2>3. CASE ~request_access(old[action.key])
    <3>1. PICK c : c = [old[action.key] EXCEPT !.approved = action.package]
      OBVIOUS
    <3>2. controls = [old EXCEPT ![action.key] = c]
      BY <1>3, <1>9, <1>14, <2>3, <3>1 DEF changed_controls, Creations
    <3>3. old[action.key] \in Control
      BY <1>9, <2>1
    <3>4. c \in Control
      BY <2>1, <3>1, <3>3 DEF Control
    <3> QED BY <1>13, <2>1, <3>2, <3>4
  <2> QED BY <2>2, <2>3
<1>15. CASE action.op = "DeclineInvitationRequest"
  <2>1. action.key \in DOMAIN old /\ action.key \in Keys /\ action.package \in Packages
    BY <1>9, <1>15 DEF Changeable, Creations
  <2>2. controls = decide(old, action.key, action.package, FALSE)
    BY <1>3, <1>9, <1>15 DEF changed_controls, Creations
  <2> QED BY <1>11, <2>1, <2>2
<1>16. CASE action.op = "DisableInvitation"
  <2>1. CASE action.key = OlderInvitations
    <3>1. controls = old
      BY <1>3, <1>9, <1>16, <2>1 DEF changed_controls, Creations
    <3> QED BY <1>9, <3>1
  <2>2. CASE action.key # OlderInvitations
    <3>1. PICK c : c = [old[action.key] EXCEPT !.enabled = FALSE]
      OBVIOUS
    <3>2. controls = [old EXCEPT ![action.key] = c] /\ action.key \in DOMAIN old
      BY <1>3, <1>9, <1>16, <2>2, <3>1 DEF changed_controls, Creations, Changeable
    <3>3. old[action.key] \in Control
      BY <1>9, <3>2
    <3>4. c \in Control
      BY <3>1, <3>3 DEF Control
    <3> QED BY <1>13, <3>2, <3>4
  <2> QED BY <2>1, <2>2
<1> QED BY <1>12, <1>14, <1>15, <1>16 DEF Changeable

\* One more commit, of members and an extension as they should be (Extended).
LEMMA CommitTyped ==
  ASSUME TreeShape, Branches, CommitsTyped, NEW tip \in Nodes, NEW commit, NEW auth,
         tree' = Extended(tip, commit, auth),
         Range(commit.add) \subseteq Packages, ExtTyped(commit.ext)
  PROVE  CommitsTyped' /\ Nodes \subseteq Nodes' /\ NewNode \in Nodes'
<1>1. PICK m : m = NewNode
  OBVIOUS
<1>2. /\ Nodes' = Nodes \cup {m} /\ \A n \in Nodes : tree'[n] = tree[n]
      /\ tree'[m].epoch # 0 /\ tree'[m].ext = commit.ext
      /\ tree'[m].members = merge_commit(Group(tip), commit).members
  BY <1>1, TreeGrows
<1>3. merge_commit(Group(tip), commit).members \subseteq tree[tip].members \cup Range(commit.add)
  BY DEF merge_commit, Group
<1>4. tree'[m].members \subseteq Packages
  BY <1>2, <1>3 DEF CommitsTyped
<1>5. ASSUME NEW n \in Nodes'
      PROVE  tree'[n].members \subseteq Packages /\ ExtTyped(tree'[n].ext) /\ (n # 1 => tree'[n].epoch # 0)
  <2>1. CASE n \in Nodes
    BY <1>2, <2>1 DEF CommitsTyped
  <2>2. CASE n = m
    BY <1>2, <1>4, <2>2
  <2> QED BY <1>2, <2>1, <2>2
<1>6. CommitsTyped'
  BY <1>5 DEF CommitsTyped, ExtTyped
<1> QED BY <1>1, <1>2, <1>6

\* The same for the commit of a management action (management_commit).
LEMMA ManagementTyped ==
  ASSUME GroupInv, Branches, CommitsTyped, NEW o, HoldsCommits(o), NEW action,
         prepare_management(o, action),
         action.op \in Creations =>
           action.key \in Keys /\ action.expires \in Nat /\ action.personal \in BOOLEAN,
         action.op \in {"ApproveInvitation", "DeclineInvitationRequest"} =>
           action.key \in Keys /\ action.package \in Packages,
         tree' = Extended(o.tip, management_commit(Group(o.tip), o.me, action), Management(action))
  PROVE  CommitsTyped' /\ Nodes \subseteq Nodes' /\ NewNode \in Nodes'
<1>1. PICK commit : commit = management_commit(Group(o.tip), o.me, action)
  OBVIOUS
<1>2. PICK auth : auth = Management(action)
  OBVIOUS
<1>3. o.tip \in Nodes /\ TreeShape
  BY DEF HoldsCommits, GroupInv
<1>4. PICK e : e = tree[o.tip].ext /\ Group(o.tip).ext = e
  BY DEF Group
<1>5. ExtTyped(e) /\ DecisionsBelong(e)
  BY <1>3, <1>4 DEF CommitsTyped, GroupInv, BranchesTighten
<1>6. commit.add = <<>> /\ ExtTyped(commit.ext)
  <2>1. CASE action.op \in MemberActions
    <3>1. PICK admins : admins = replace_admins(e.admins, action)
      OBVIOUS
    <3>2. commit.ext = [e EXCEPT !.admins = admins] /\ commit.add = <<>>
      BY <1>1, <1>4, <2>1, <3>1 DEF management_commit, Commit
    <3>3. e = [admins |-> e.admins, legacy |-> e.legacy, controls |-> e.controls]
      BY <1>5 DEF DecisionsBelong
    <3>4. commit.ext.legacy = e.legacy /\ commit.ext.controls = e.controls
      BY <3>2, <3>3
    <3> QED BY <1>5, <3>2, <3>4 DEF ExtTyped
  <2>2. CASE action.op \notin MemberActions
    <3>1. commit.ext = changed(e, action) /\ commit.add = <<>> /\ Changeable(e, action)
      BY <1>1, <1>4, <2>2 DEF management_commit, Commit, prepare_management
    <3> QED BY <1>5, <3>1, ChangedTyped
  <2> QED BY <2>1, <2>2
<1>7. Range(commit.add) \subseteq Packages
  BY <1>6, SMTT(30) DEF Range
<1>8. tree' = Extended(o.tip, commit, auth)
  BY <1>1, <1>2
<1> QED BY <1>3, <1>6, <1>7, <1>8, CommitTyped

\* Tokens and copies stay typed on a tree that only grew.
LEMMA TypesMove ==
  ASSUME TypesInv, CommitsTyped', Nodes \subseteq Nodes',
         invitations \subseteq invitations', IsFiniteSet(invitations'),
         \A inv \in invitations' :
           inv \in invitations \/ inv \in [key: Keys, pin: [node: Nodes', signer: Packages]],
         \A r \in requests' : r \in requests \/ r \in [package: Packages, inv: invitations'],
         \A c \in Devices : owner'[c].tip # 0 => owner'[c].checkpoints \subseteq invitations'
  PROVE  TypesInv'
<1>1. \A inv \in invitations : inv \in [key: Keys, pin: [node: Nodes', signer: Packages]]
  BY DEF TypesInv, Invitation
<1>2. Invitation' = [key: Keys, pin: [node: Nodes', signer: Packages]]
  BY DEF Invitation
<1>3. invitations' \subseteq Invitation'
  BY <1>1, <1>2
<1>4. \A r \in requests : r \in [package: Packages, inv: invitations']
  BY DEF TypesInv
<1> QED BY <1>3, <1>4 DEF TypesInv

\* One device's copy changes.
LEMMA OwnerTypes ==
  ASSUME GroupInv, TypesInv, NEW d \in Devices, NEW p, owner' = [owner EXCEPT ![d] = p],
         invitations \subseteq invitations', p.tip # 0 => p.checkpoints \subseteq invitations'
  PROVE  \A c \in Devices : owner'[c].tip # 0 => owner'[c].checkpoints \subseteq invitations'
<1>1. owner'[d] = p /\ \A c \in Devices : c # d => owner'[c] = owner[c]
  BY DEF GroupInv, OwnersHoldCommits
<1> QED BY <1>1 DEF TypesInv

\* A step that commits nothing and hands out no invitation.
LEMMA TypesStay ==
  ASSUME TypesInv, UNCHANGED <<tree, invitations>>,
         \A r \in requests' : r \in requests \/ r \in [package: Packages, inv: invitations'],
         \A c \in Devices : owner'[c].tip # 0 => owner'[c].checkpoints \subseteq invitations'
  PROVE  TypesInv'
<1>1. Nodes' = Nodes /\ CommitsTyped' /\ IsFiniteSet(invitations')
  BY DEF TypesInv, CommitsTyped, Nodes, ExtTyped
<1> QED BY <1>1, TypesMove

\* A management action without a new invitation.
LEMMA ManagedTypes ==
  ASSUME GroupInv, Branches, TypesInv, NEW d \in Devices, NEW action, Managed(d, action),
         UNCHANGED <<invitations, requests>>, action.op \notin Creations,
         action.op \in {"ApproveInvitation", "DeclineInvitationRequest"} =>
           action.key \in Keys /\ action.package \in Packages
  PROVE  TypesInv'
<1>1. PICK o : o = owner[d]
  OBVIOUS
<1>2. PICK checkpoints : checkpoints =
        IF action.op \in MemberActions THEN o.checkpoints
        ELSE prune_invitation_checkpoints(o.checkpoints,
               management_commit(Group(o.tip), o.me, action).ext)
  OBVIOUS
<1>3. PICK history : history = append_history(o, Management(action), NewNode)
  OBVIOUS
<1>4. PICK p : p = [o EXCEPT !.tip = NewNode, !.history = history, !.checkpoints = checkpoints]
  OBVIOUS
<1>5. /\ IsOwner(d) /\ prepare_management(o, action)
      /\ tree' = Extended(o.tip, management_commit(Group(o.tip), o.me, action), Management(action))
      /\ owner' = [owner EXCEPT ![d] = p]
  BY <1>1, <1>2, <1>3, <1>4 DEF Managed
<1>6. HoldsCommits(o) /\ o.checkpoints \subseteq invitations /\ CommitsTyped
  BY <1>1, <1>5 DEF GroupInv, OwnersHoldCommits, IsOwner, TypesInv
<1>7. p.checkpoints = checkpoints
  BY <1>4, <1>6, OwnerUpdated DEF HoldsCommits
<1>8. checkpoints \subseteq invitations'
  BY <1>2, <1>6 DEF prune_invitation_checkpoints
<1>9. CommitsTyped' /\ Nodes \subseteq Nodes'
  BY <1>5, <1>6, ManagementTyped
<1>10. \A c \in Devices : owner'[c].tip # 0 => owner'[c].checkpoints \subseteq invitations'
  BY <1>5, <1>7, <1>8, OwnerTypes
<1>11. IsFiniteSet(invitations')
  BY DEF TypesInv
<1> QED BY <1>9, <1>10, <1>11, TypesMove

\* An admission adds packages that asked.
LEMMA AdmissionTypes ==
  ASSUME GroupInv, Branches, TypesInv, NEW d \in Devices, NEW batch \in Batches,
         prepare_validated_admission_batch(d, batch)
  PROVE  TypesInv'
<1>1. PICK o : o = owner[d]
  OBVIOUS
<1>2. PICK n \in Nat : batch \in [1..n -> requests]
  BY SMTT(30) DEF Batches
<1>3. PICK adds : adds = [i \in DOMAIN batch |-> batch[i].package]
  OBVIOUS
<1>4. PICK commit : commit = Commit(o.me, adds, {}, tree[o.tip].ext)
  OBVIOUS
<1>5. PICK auth : auth = Adds([i \in DOMAIN batch |-> Authorization(batch[i])])
  OBVIOUS
<1>6. PICK history : history =
        IF Len(batch) > 1 \/ o.history # NoHistory THEN append_history(o, auth, NewNode) ELSE o.history
  OBVIOUS
<1>7. PICK admissions : admissions = o.admissions \o
        [i \in DOMAIN batch |->
           [request |-> batch[i], auth |-> [j \in DOMAIN batch |-> Authorization(batch[j])][i], node |-> NewNode]]
  OBVIOUS
<1>8. PICK p : p = [o EXCEPT !.tip = NewNode, !.history = history, !.admissions = admissions]
  OBVIOUS
<1>9. /\ IsOwner(d) /\ tree' = Extended(o.tip, commit, auth)
      /\ owner' = [owner EXCEPT ![d] = p] /\ invitations' = invitations /\ requests' = requests
  BY <1>1, <1>3, <1>4, <1>5, <1>6, <1>7, <1>8 DEF prepare_validated_admission_batch
<1>10. HoldsCommits(o) /\ o.tip \in Nodes /\ o.checkpoints \subseteq invitations /\ CommitsTyped /\ TreeShape
  BY <1>1, <1>9 DEF GroupInv, OwnersHoldCommits, IsOwner, TypesInv, HoldsCommits
<1>11. commit.add = adds /\ commit.ext = tree[o.tip].ext
  BY <1>4 DEF Commit
<1>12. Range(commit.add) \subseteq Packages
  BY <1>2, <1>3, <1>11, SMTT(30) DEF Range, TypesInv
<1>13. CommitsTyped' /\ Nodes \subseteq Nodes'
  BY <1>9, <1>10, <1>11, <1>12, CommitTyped DEF CommitsTyped
<1>14. p.checkpoints = o.checkpoints
  BY <1>8, <1>10, AdmitterUpdated DEF HoldsCommits
<1>15. \A c \in Devices : owner'[c].tip # 0 => owner'[c].checkpoints \subseteq invitations'
  BY <1>9, <1>10, <1>14, OwnerTypes
<1>16. IsFiniteSet(invitations')
  BY <1>9 DEF TypesInv
<1> QED BY <1>9, <1>13, <1>15, <1>16, TypesMove

\* A member retains checkpoints its peer had.
LEMMA UpdateTypes ==
  ASSUME GroupInv, TypesInv, NEW d \in Devices, NEW peer \in Devices, stage_update(d, peer)
  PROVE  TypesInv'
<1>1. PICK o : o = owner[d]
  OBVIOUS
<1>2. PICK s : s = owner[peer]
  OBVIOUS
<1>3. PICK step : step = membership_update_for(owner[peer], d, Epoch(owner[d].tip))[1]
  OBVIOUS
<1>4. PICK p : p = Accepted(o, s, step)
  OBVIOUS
<1>5. /\ IsOwner(d) /\ IsOwner(peer) /\ owner' = [owner EXCEPT ![d] = p]
      /\ UNCHANGED <<tree, invitations, requests>>
  BY <1>1, <1>2, <1>3, <1>4 DEF stage_update
<1>6. HoldsCommits(o) /\ o.checkpoints \subseteq invitations /\ s.checkpoints \subseteq invitations
  BY <1>1, <1>2, <1>5 DEF GroupInv, OwnersHoldCommits, IsOwner, TypesInv
<1>7. p.tip # 0 => p.checkpoints \subseteq invitations'
  <2>1. CASE o.me \notin tree[step.node].members
    BY <1>4, <2>1 DEF Accepted, NoOwner
  <2>2. CASE o.me \in tree[step.node].members
    <3>1. PICK history : history = append_history(o, step.auth, step.node)
      OBVIOUS
    <3>2. PICK checkpoints : checkpoints =
            IF step.auth.kind # "Management" THEN o.checkpoints
            ELSE prune_invitation_checkpoints(o.checkpoints, tree[step.node].ext)
                   \cup retained_invitation_checkpoint(s, step.auth)
      OBVIOUS
    <3>3. p = [o EXCEPT !.tip = step.node, !.history = history, !.checkpoints = checkpoints]
      BY <1>4, <2>2, <3>1, <3>2 DEF Accepted
    <3>4. p.checkpoints = checkpoints
      BY <1>6, <3>3, OwnerUpdated DEF HoldsCommits
    <3> QED BY <1>5, <1>6, <3>2, <3>4 DEF prune_invitation_checkpoints, retained_invitation_checkpoint
  <2> QED BY <2>1, <2>2
<1>8. \A c \in Devices : owner'[c].tip # 0 => owner'[c].checkpoints \subseteq invitations'
  BY <1>5, <1>7, OwnerTypes
<1> QED BY <1>5, <1>8, TypesStay

\* A new member has retained nothing.
LEMMA JoinTypes ==
  ASSUME GroupInv, TypesInv, NEW d \in Devices, NEW peer \in Devices, prepare_workspace(d, peer)
  PROVE  TypesInv'
<1>1. PICK r : r = Request(pending[d].package, pending[d].inv)
  OBVIOUS
<1>2. PICK m, history : /\ m = Retained(owner[peer], r).node
                        /\ history = [start |-> r.inv.pin, steps |-> admission_reply_page(owner[peer], r).steps]
  OBVIOUS
<1>3. PICK p : p = [tip |-> m, me |-> r.package, history |-> history, admissions |-> <<>>, checkpoints |-> {}]
  OBVIOUS
<1>4. owner' = [owner EXCEPT ![d] = p] /\ UNCHANGED <<tree, invitations, requests>>
  BY <1>1, <1>2, <1>3 DEF prepare_workspace
<1>5. p.checkpoints = {}
  BY <1>3
<1>6. \A c \in Devices : owner'[c].tip # 0 => owner'[c].checkpoints \subseteq invitations'
  BY <1>4, <1>5, OwnerTypes
<1> QED BY <1>4, <1>6, TypesStay

\* A step that commits nothing and changes no copy.
LEMMA RecordsFrame ==
  ASSUME GroupInv, RecordInv, tree' = tree, owner' = owner
  PROVE  RecordInv'
<1>1. Nodes' = Nodes /\ Branches /\ Branches'
  BY SMTT(30) DEF Nodes, RecordInv, Branches
<1>2. ASSUME NEW c \in Devices, owner'[c].tip # 0 PROVE KeepsRecords(owner[c])'
  <2>1. PICK o : o = owner[c] /\ owner'[c] = o
    OBVIOUS
  <2>2. HoldsCommits(o) /\ KeepsRecords(o)
    BY <1>2, <2>1 DEF GroupInv, OwnersHoldCommits, RecordInv, IsOwner
  <2>3. KeepsRecords(o)'
    BY <1>1, <2>2, RecordsStay
  <2> QED BY <2>1, <2>3
<1> QED BY <1>1, <1>2 DEF RecordInv, IsOwner

-----------------------------------------------------------------------------
(* Steps of the workspace that append to a copy's records. *)

\* Whatever a copy serves, it keeps.
ServeRule ==
  \A o, r :
    /\ Branches /\ HoldsCommits(o)
    /\ HistoryKept(o) /\ AdmissionsKept(o) /\ CheckpointsKept(o)
    /\ r.inv.pin.node \in Nodes /\ membership_history(o, r).ok
    => Serves(o, r.inv.pin)

\* One device's copy takes one more step of its branch, recorded, with the
\* answers it can serve.
LEMMA AdvanceStep ==
  ASSUME ServeRule', GroupInv, RecordInv, Branches', Nodes \subseteq Nodes', \A n \in Nodes : tree'[n] = tree[n],
         NEW d \in Devices, IsOwner(d), NEW o, o = owner[d],
         NEW p, owner' = [owner EXCEPT ![d] = p], HoldsCommits(p)',
         tree'[p.tip].epoch # 0, tree'[p.tip].parent = o.tip,
         NEW auth, NEW answered, IsSeq(answered), p.admissions = o.admissions \o answered,
         \/ p.history = append_history(o, auth, p.tip) /\ Verified(Step(auth, p.tip))'
         \/ /\ p.history = NoHistory /\ o.history = NoHistory
            /\ Len(answered) = 1 /\ Verified(AdmissionStep(answered[1]))',
         \A inv \in p.checkpoints :
           inv \in o.checkpoints \/ (Serves(p, inv.pin)' /\ RegisteredAt(inv, inv.pin.node)'),
         \A i \in DOMAIN answered :
           /\ answered[i].node = p.tip
           /\ answered[i].request.inv.pin.node \in Nodes' \ {p.tip}
           /\ membership_history(p, answered[i].request).ok'
  PROVE  RecordInv'
<1>1. HoldsCommits(o) /\ KeepsRecords(o) /\ Branches
  BY DEF GroupInv, OwnersHoldCommits, RecordInv, IsOwner
<1>2. KeepsRecords(o)'
  BY <1>1, RecordsStay
<1>3. HoldsCommits(o)'
  BY <1>1 DEF HoldsCommits
<1>4. p.tip \in Nodes'
  BY DEF HoldsCommits
<1>5. Advances(o, p, auth, answered)'
  BY <1>2, <1>3, <1>4 DEF Advances
<1>6. /\ HistoryKept(p)' /\ AdmissionsKept(p)' /\ CheckpointsKept(p)'
      /\ (\A i \in DOMAIN answered :
             /\ Serves(p, answered[i].request.inv.pin)'
             /\ answered[i].request.inv.pin.node # p.tip) => RepliesKept(p)'
  <2>1. AdvanceRule'
    BY AdvanceKeepsNext
  <2>2. Branches' /\ Advances(o, p, auth, answered)'
    BY <1>5
  <2> QED BY ONLY <2>1, <2>2, SMTT(30) DEF AdvanceRule
<1>7. ASSUME NEW i \in DOMAIN answered
      PROVE  Serves(p, answered[i].request.inv.pin)' /\ answered[i].request.inv.pin.node # p.tip
  BY <1>6 DEF ServeRule
<1>8. KeepsRecords(p)'
  BY <1>6, <1>7 DEF KeepsRecords
<1> QED BY <1>8, RecordsMove

\* Committing a management action, with or without a new invitation.
LEMMA ManagementRecords ==
  ASSUME ServeRule', GroupInv, GroupInv', RecordInv,
         NEW d \in Devices, IsOwner(d), NEW action, NEW o, o = owner[d], prepare_management(o, action),
         tree' = Extended(o.tip, management_commit(Group(o.tip), o.me, action), Management(action)),
         NEW checkpoints, NEW p,
         p = [tip |-> NewNode, me |-> o.me, history |-> append_history(o, Management(action), NewNode),
              admissions |-> o.admissions, checkpoints |-> checkpoints],
         owner' = [owner EXCEPT ![d] = p],
         \A inv \in checkpoints :
           inv \in o.checkpoints \/ (Serves(p, inv.pin)' /\ RegisteredAt(inv, inv.pin.node)')
  PROVE  RecordInv'
<1>1. HoldsCommits(o) /\ o.tip \in Nodes /\ TreeShape /\ Branches
  BY DEF GroupInv, OwnersHoldCommits, IsOwner, HoldsCommits, RecordInv
<1>2. PICK commit : commit = management_commit(Group(o.tip), o.me, action)
  OBVIOUS
<1>3. PICK m : m = NewNode
  OBVIOUS
<1>4. /\ Branches'
      /\ Nodes' = Nodes \cup {m} /\ m \notin Nodes /\ m # 0
      /\ \A n \in Nodes : tree'[n] = tree[n]
      /\ tree'[m].parent = o.tip /\ tree'[m].epoch # 0
      /\ tree'[m].actor = commit.actor /\ tree'[m].add = commit.add
      /\ tree'[m].remove = commit.remove /\ tree'[m].ext = commit.ext
  <2>1. PICK made : made = Management(action)
    OBVIOUS
  <2>2. tree' = Extended(o.tip, commit, made)
    BY <1>2, <2>1
  <2> QED BY <1>1, <1>3, <2>2, TreeGrows, SMTT(30)
<1>5. verify_management(Group(o.tip), o.tip, commit, action)
  BY <1>2 DEF prepare_management
<1>6. PICK auth : auth = Management(action)
  OBVIOUS
<1>7. Verified(Step(auth, m))'
  <2>1. apply_transition(Group(o.tip), o.tip, tree'[m], auth)
    BY <1>4, <1>5, <1>6, ManagementVerified
  <2> QED BY <1>1, <1>4, <2>1, NewStepVerified
<1>8. PICK history : history = append_history(o, auth, m)
  OBVIOUS
<1>9. p = [tip |-> m, me |-> o.me, history |-> history, admissions |-> o.admissions, checkpoints |-> checkpoints]
  BY <1>3, <1>6, <1>8
<1>10. /\ p.tip = m /\ p.history = append_history(o, auth, p.tip) /\ p.admissions = o.admissions
       /\ p.checkpoints = checkpoints
  BY <1>8, <1>9, SMTT(30)
<1>11. IsSeq(<<>>) /\ DOMAIN <<>> = {} /\ p.admissions = o.admissions \o <<>>
  <2>1. IsSeq(<<>>) /\ DOMAIN <<>> = {}
    BY SMTT(30) DEF IsSeq, Range
  <2>2. o.admissions \in Seq(Range(o.admissions))
    BY <1>1 DEF HoldsCommits, IsSeq
  <2>3. o.admissions \o <<>> = o.admissions
    BY <2>2, SMTT(30)
  <2> QED BY <1>10, <2>1, <2>3
<1>12. HoldsCommits(p)'
  <2>1. owner'[d] = p /\ p.tip # 0
    BY <1>4, <1>10 DEF GroupInv, OwnersHoldCommits
  <2>2. HoldsCommits(owner[d])'
    BY <2>1 DEF GroupInv, OwnersHoldCommits
  <2> QED BY <2>1, <2>2
<1>13. Verified(Step(auth, p.tip))'
  BY <1>7, <1>10
<1>14. PICK none : none = <<>>
  OBVIOUS
<1> QED BY <1>4, <1>10, <1>11, <1>12, <1>13, <1>14, AdvanceStep

\* A management action without a new invitation (prepare_management).
LEMMA ManagedRecords ==
  ASSUME ServeRule', GroupInv, GroupInv', RecordInv, NEW d \in Devices, NEW action, Managed(d, action)
  PROVE  RecordInv'
<1>1. PICK o : o = owner[d]
  OBVIOUS
<1>2. PICK checkpoints : checkpoints =
        IF action.op \in MemberActions THEN o.checkpoints
        ELSE prune_invitation_checkpoints(o.checkpoints,
               management_commit(Group(o.tip), o.me, action).ext)
  OBVIOUS
<1>3. PICK history : history = append_history(o, Management(action), NewNode)
  OBVIOUS
<1>4. PICK p : p = [o EXCEPT !.tip = NewNode, !.history = history, !.checkpoints = checkpoints]
  OBVIOUS
<1>5. /\ IsOwner(d) /\ prepare_management(o, action)
      /\ tree' = Extended(o.tip, management_commit(Group(o.tip), o.me, action), Management(action))
      /\ owner' = [owner EXCEPT ![d] = p]
  BY <1>1, <1>2, <1>3, <1>4 DEF Managed
<1>6. o = [tip |-> o.tip, me |-> o.me, history |-> o.history,
           admissions |-> o.admissions, checkpoints |-> o.checkpoints]
  BY <1>1, <1>5 DEF GroupInv, OwnersHoldCommits, IsOwner, HoldsCommits
<1>7. p = [tip |-> NewNode, me |-> o.me, history |-> history,
           admissions |-> o.admissions, checkpoints |-> checkpoints]
  BY <1>4, <1>6, OwnerUpdated
<1>8. checkpoints \subseteq o.checkpoints
  BY <1>2 DEF prune_invitation_checkpoints
<1> QED BY <1>1, <1>3, <1>5, <1>7, <1>8, ManagementRecords

\* A registered invitation: its checkpoint is the commit that registered it
\* (prepare_invitation_mode).
LEMMA InvitationRecords ==
  ASSUME ServeRule', GroupInv, GroupInv', RecordInv, NEW d \in Devices, NEW key \in Keys, NEW kind, NEW expires,
         kind.op \in Creations, prepare_invitation_mode(d, key, kind, expires)
  PROVE  RecordInv'
<1>1. PICK o : o = owner[d]
  OBVIOUS
<1>2. PICK action : action = [op |-> kind.op, personal |-> kind.personal, key |-> key, expires |-> expires]
  OBVIOUS
<1>3. PICK commit : commit = management_commit(Group(o.tip), o.me, action)
  OBVIOUS
<1>4. PICK inv : inv = [key |-> key, pin |-> Checkpoint(NewNode, o.me)]
  OBVIOUS
<1>5. PICK after : after = merge_commit(Group(o.tip), commit)
  OBVIOUS
<1>6. PICK checkpoints : checkpoints = prune_invitation_checkpoints(o.checkpoints, after.ext) \cup {inv}
  OBVIOUS
<1>7. PICK history : history = append_history(o, Management(action), NewNode)
  OBVIOUS
<1>8. PICK p : p = [o EXCEPT !.tip = NewNode, !.history = history, !.checkpoints = checkpoints]
  OBVIOUS
<1>9. /\ IsOwner(d) /\ prepare_management(o, action)
      /\ can_retain(prune_invitation_checkpoints(o.checkpoints, after.ext), inv, NewNode, after)
      /\ tree' = Extended(o.tip, commit, Management(action))
      /\ owner' = [owner EXCEPT ![d] = p]
  BY <1>1, <1>2, <1>3, <1>4, <1>5, <1>6, <1>7, <1>8 DEF prepare_invitation_mode
<1>10. HoldsCommits(o) /\ o.tip \in Nodes /\ TreeShape /\ Branches
  BY <1>1, <1>9 DEF GroupInv, OwnersHoldCommits, IsOwner, HoldsCommits, RecordInv
<1>11. p = [tip |-> NewNode, me |-> o.me, history |-> history,
            admissions |-> o.admissions, checkpoints |-> checkpoints]
  BY <1>8, <1>10, OwnerUpdated DEF HoldsCommits
<1>12. PICK m : m = NewNode /\ p.tip = m
  BY <1>11
<1>13. /\ Branches'
       /\ Nodes' = Nodes \cup {m} /\ \A n \in Nodes : tree'[n] = tree[n]
       /\ tree'[m].parent = o.tip /\ tree'[m].epoch # 0 /\ tree'[m].ext = commit.ext
       /\ tree'[m].members = merge_commit(Group(o.tip), commit).members
  <2>1. PICK made : made = Management(action)
    OBVIOUS
  <2>2. tree' = Extended(o.tip, commit, made)
    BY <1>9, <2>1
  <2> QED BY <1>10, <1>12, <2>2, TreeGrows, SMTT(30)
<1>14. inv.pin.node = m /\ from_trusted_checkpoint(after) /\ inv.pin.signer \in after.ext.admins
  BY <1>9, <1>12 DEF can_retain
<1>15. Group(m)' = after /\ after.ext = tree'[m].ext
  BY <1>5, <1>13 DEF Group, merge_commit
<1>16. Serves(p, inv.pin)'
  BY <1>12, <1>13, <1>14, <1>15, HeadServesNext
<1>17. RegisteredAt(inv, m)'
  <2>1. action.op \in Creations /\ action.key = key /\ action.op \notin MemberActions /\ inv.key = key
    BY <1>2, <1>4 DEF Creations, MemberActions
  <2>2. Changeable(tree[o.tip].ext, action)
    BY <1>9, <2>1 DEF prepare_management
  <2>3. key \notin DOMAIN tree[o.tip].ext.controls
    BY <2>1, <2>2 DEF Changeable, Creations
  <2>4. commit.ext = changed(tree[o.tip].ext, action)
    BY <1>3, <2>1 DEF management_commit, Commit, Group
  <2>5. key \in DOMAIN commit.ext.controls
    <3>1. PICK e : e = tree[o.tip].ext
      OBVIOUS
    <3>2. e = [admins |-> e.admins, legacy |-> e.legacy, controls |-> e.controls]
      BY <1>10, <3>1 DEF GroupInv, BranchesTighten, DecisionsBelong
    <3>3. PICK controls : controls = changed_controls(e, action)
      OBVIOUS
    <3>4. PICK legacy : legacy = (e.legacy /\ ~(action.op = "DisableInvitation" /\ action.key = OlderInvitations))
      OBVIOUS
    <3>5. changed(e, action) = [[e EXCEPT !.controls = controls] EXCEPT !.legacy = legacy]
      BY <3>2, <3>3, <3>4 DEF changed
    <3>6. changed(e, action).controls = controls
      BY <3>2, <3>5
    <3>7. PICK c : c = created(action)
      OBVIOUS
    <3>8. controls = Put(e.controls, key, c)
      BY <2>1, <3>3, <3>7 DEF changed_controls, Creations
    <3>9. key \in DOMAIN controls
      BY <3>8 DEF Put
    <3> QED BY <2>4, <3>1, <3>6, <3>9
  <2> QED BY <1>10, <1>13, <1>14, <2>1, <2>3, <2>5 DEF RegisteredAt
<1>18. \A x \in checkpoints :
         x \in o.checkpoints \/ (Serves(p, x.pin)' /\ RegisteredAt(x, x.pin.node)')
  BY <1>6, <1>14, <1>16, <1>17 DEF prune_invitation_checkpoints
<1> QED BY <1>1, <1>3, <1>7, <1>9, <1>11, <1>18, ManagementRecords

\* One batch of requests admitted: the copy can serve each joiner before it is
\* staged, so it keeps what it needs for every reply
\* (prepare_validated_admission_batch).
LEMMA AdmissionRecords ==
  ASSUME ServeRule', GroupInv, GroupInv', RecordInv, NEW d \in Devices, NEW batch \in Batches,
         prepare_validated_admission_batch(d, batch),
         \A r \in requests : r.inv.pin.node \in Nodes
  PROVE  RecordInv'
<1>1. PICK o : o = owner[d]
  OBVIOUS
<1>2. PICK n \in Nat : batch \in [1..n -> requests]
  BY SMTT(30) DEF Batches
<1>3. PICK auths : auths = [i \in 1..n |-> Authorization(batch[i])]
  OBVIOUS
<1>4. PICK adds : adds = [i \in 1..n |-> batch[i].package]
  OBVIOUS
<1>5. PICK commit : commit = Commit(o.me, adds, {}, tree[o.tip].ext)
  OBVIOUS
<1>6. PICK auth : auth = Adds(auths)
  OBVIOUS
<1>7. PICK answered : answered = [i \in 1..n |-> [request |-> batch[i], auth |-> auths[i], node |-> NewNode]]
  OBVIOUS
<1>8. PICK history : history = IF Len(batch) > 1 \/ o.history # NoHistory
                               THEN append_history(o, auth, NewNode) ELSE o.history
  OBVIOUS
<1>9. PICK p : p = [o EXCEPT !.tip = NewNode, !.history = history, !.admissions = o.admissions \o answered]
  OBVIOUS
<1>10. DOMAIN batch = 1..n /\ Len(batch) = n
  BY <1>2, SMTT(30)
<1>11. /\ IsOwner(d) /\ Len(batch) \in 1..MaxBatch
       /\ \A i \in 1..n : check_validated_admission(o, batch[i])
       /\ IsInjective(commit.add)
       /\ tree' = Extended(o.tip, commit, auth)
       /\ \A i \in 1..n : membership_history(owner[d], batch[i]).ok'
  BY <1>1, <1>3, <1>4, <1>5, <1>6, <1>10 DEF prepare_validated_admission_batch
<1>12. owner' = [owner EXCEPT ![d] = p]
  BY <1>1, <1>3, <1>6, <1>7, <1>8, <1>9, <1>10 DEF prepare_validated_admission_batch
<1>13. HoldsCommits(o) /\ o.tip \in Nodes /\ TreeShape /\ Branches
  BY <1>1, <1>11 DEF GroupInv, OwnersHoldCommits, IsOwner, HoldsCommits, RecordInv
<1>14. PICK m : m = NewNode
  OBVIOUS
<1>15. /\ Branches'
       /\ Nodes' = Nodes \cup {m} /\ m \notin Nodes /\ m # 0
       /\ \A x \in Nodes : tree'[x] = tree[x]
       /\ tree'[m].parent = o.tip /\ tree'[m].epoch # 0
       /\ tree'[m].actor = commit.actor /\ tree'[m].add = commit.add
       /\ tree'[m].remove = commit.remove /\ tree'[m].ext = commit.ext
  BY <1>11, <1>13, <1>14, TreeGrows, SMTT(30)
<1>16. commit.actor = o.me /\ commit.add = adds /\ commit.remove = {} /\ commit.ext = tree[o.tip].ext
  BY <1>5 DEF Commit
<1>17. PICK node : node = tree'[m]
  OBVIOUS
<1>18. /\ apply_transition(Group(o.tip), o.tip, node, auth)
       /\ n = 1 => apply_transition(Group(o.tip), o.tip, node, Adds(<<auths[1]>>))
  <2>1. /\ o.me \in tree[o.tip].members /\ n \in 1..MaxBatch
        /\ node.actor = o.me /\ node.add = adds
        /\ node.remove = {} /\ node.ext = tree[o.tip].ext /\ IsInjective(node.add)
    BY <1>10, <1>11, <1>13, <1>15, <1>16, <1>17 DEF HoldsCommits
  <2>2. \A i \in 1..n : check_validated_admission(o, batch[i])
    BY <1>11
  <2>3. /\ auths \in [1..n -> Range(auths)] /\ \A i \in 1..n : auths[i] = Authorization(batch[i])
        /\ adds \in [1..n -> Range(adds)] /\ \A i \in 1..n : adds[i] = batch[i].package
    BY <1>3, <1>4 DEF Range
  <2>4. BatchCommit(o, n, batch, auths, adds, node)
    BY <2>1, <2>2, <2>3 DEF BatchCommit
  <2> QED BY <1>6, <2>4, BatchVerified
<1>19. Verified(Step(auth, m))'
  BY <1>13, <1>15, <1>17, <1>18, NewStepVerified
<1>20. p = [tip |-> m, me |-> o.me, history |-> history,
            admissions |-> o.admissions \o answered, checkpoints |-> o.checkpoints]
  <2>1. PICK admissions : admissions = o.admissions \o answered
    OBVIOUS
  <2>2. p = [o EXCEPT !.tip = NewNode, !.history = history, !.admissions = admissions]
    BY <1>9, <2>1
  <2>3. p = [tip |-> NewNode, me |-> o.me, history |-> history,
             admissions |-> admissions, checkpoints |-> o.checkpoints]
    BY <1>13, <2>2, AdmitterUpdated DEF HoldsCommits
  <2> QED BY <1>14, <2>1, <2>3
<1>21. /\ p.tip = m /\ p.history = history /\ p.admissions = o.admissions \o answered
       /\ p.checkpoints = o.checkpoints
  BY <1>20
<1>22. HoldsCommits(p)' /\ owner'[d] = p
  <2>1. owner'[d] = p /\ p.tip # 0
    BY <1>12, <1>15, <1>21 DEF GroupInv, OwnersHoldCommits
  <2>2. HoldsCommits(owner[d])'
    BY <2>1 DEF GroupInv, OwnersHoldCommits
  <2> QED BY <2>1, <2>2
<1>23. /\ IsSeq(answered) /\ Len(answered) = n /\ DOMAIN answered = 1..n
       /\ \A i \in 1..n : /\ answered[i].request = batch[i] /\ answered[i].auth = auths[i]
                           /\ answered[i].node = m
  <2>1. answered \in [1..n -> Range(answered)]
    BY <1>7 DEF Range
  <2>2. IsSeq(answered)
    BY <2>1, BatchSeq
  <2>3. Len(answered) = n
    BY <2>1, <2>2, SMTT(30) DEF IsSeq
  <2> QED BY <1>7, <1>14, <2>1, <2>2, <2>3
<1>24. \/ p.history = append_history(o, auth, p.tip) /\ Verified(Step(auth, p.tip))'
       \/ /\ p.history = NoHistory /\ o.history = NoHistory
          /\ Len(answered) = 1 /\ Verified(AdmissionStep(answered[1]))'
  <2>1. CASE Len(batch) > 1 \/ o.history # NoHistory
    BY <1>8, <1>14, <1>19, <1>21, <2>1
  <2>2. CASE ~(Len(batch) > 1 \/ o.history # NoHistory)
    <3>1. n = 1 /\ o.history = NoHistory /\ p.history = NoHistory
      BY <1>8, <1>10, <1>11, <1>21, <2>2, SMTT(30)
    <3>2. PICK single : single = Adds(<<auths[1]>>)
      OBVIOUS
    <3>3. Verified(Step(single, m))'
      BY <1>13, <1>15, <1>17, <1>18, <3>1, <3>2, NewStepVerified
    <3>4. answered[1].auth = auths[1] /\ answered[1].node = m
      BY <1>23, <3>1, SMTT(30)
    <3>5. AdmissionStep(answered[1]) = Step(single, m)
      BY <3>2, <3>4 DEF AdmissionStep
    <3> QED BY <1>23, <3>1, <3>3, <3>5
  <2> QED BY <2>1, <2>2
<1>25. ASSUME NEW i \in DOMAIN answered
       PROVE  /\ answered[i].node = p.tip
              /\ answered[i].request.inv.pin.node \in Nodes' \ {p.tip}
              /\ membership_history(p, answered[i].request).ok'
  <2>1. answered[i].request = batch[i] /\ batch[i] \in requests /\ answered[i].node = m
    BY <1>2, <1>23
  <2>2. membership_history(owner[d], batch[i]).ok'
    BY <1>11, <1>23
  <2>3. membership_history(p, batch[i]).ok'
    BY <1>22, <2>2
  <2> QED BY <1>15, <1>21, <2>1, <2>3
<1>26. /\ tree'[p.tip].epoch # 0 /\ tree'[p.tip].parent = o.tip
       /\ \A inv \in p.checkpoints : inv \in o.checkpoints
       /\ Nodes \subseteq Nodes'
  BY <1>15, <1>21
<1>27. \A i \in DOMAIN answered :
          /\ answered[i].node = p.tip
          /\ answered[i].request.inv.pin.node \in Nodes' \ {p.tip}
          /\ membership_history(p, answered[i].request).ok'
  BY <1>25
<1>28. \A inv \in p.checkpoints :
          inv \in o.checkpoints \/ (Serves(p, inv.pin)' /\ RegisteredAt(inv, inv.pin.node)')
  BY <1>26
<1>29. /\ IsOwner(d) /\ o = owner[d] /\ owner' = [owner EXCEPT ![d] = p] /\ HoldsCommits(p)'
       /\ Branches' /\ Nodes \subseteq Nodes' /\ (\A x \in Nodes : tree'[x] = tree[x])
       /\ IsSeq(answered) /\ p.admissions = o.admissions \o answered
  BY <1>1, <1>11, <1>12, <1>15, <1>21, <1>22, <1>23, <1>26
<1> QED BY <1>24, <1>26, <1>27, <1>28, <1>29, AdvanceStep

\* A member takes the next step a peer serves, and keeps it the way its maker
\* did (prepare_management_update, prepare_admission_batch_update).
LEMMA UpdateRecords ==
  ASSUME ServeRule', GroupInv, GroupInv', RecordInv, NEW d \in Devices, NEW peer \in Devices,
         stage_update(d, peer)
  PROVE  RecordInv'
<1>1. PICK o : o = owner[d]
  OBVIOUS
<1>2. PICK s : s = owner[peer]
  OBVIOUS
<1>3. PICK step : step = membership_update_for(owner[peer], d, Epoch(owner[d].tip))[1]
  OBVIOUS
<1>4. PICK p : p = Accepted(o, s, step)
  OBVIOUS
<1>5. /\ IsOwner(d) /\ IsOwner(peer) /\ Accepts(o, s, step)
      /\ owner' = [owner EXCEPT ![d] = p] /\ tree' = tree
  BY <1>1, <1>2, <1>3, <1>4 DEF stage_update
<1>6. Nodes' = Nodes /\ Branches /\ Branches'
  BY <1>5, SMTT(30) DEF Nodes, RecordInv, Branches
<1>7. HoldsCommits(o) /\ o.tip \in Nodes /\ o.tip # 0 /\ CheckpointsKept(s)
  BY <1>1, <1>2, <1>5 DEF GroupInv, OwnersHoldCommits, IsOwner, HoldsCommits, RecordInv, KeepsRecords
<1>8. PICK m : m = step.node
  OBVIOUS
<1>9. PICK auth : auth = step.auth
  OBVIOUS
<1>10. /\ m \in Nodes /\ tree[m].parent = o.tip
       /\ apply_transition(Group(o.tip), o.tip, tree[m], auth)
  BY <1>5, <1>8, <1>9 DEF Accepts, Applies, Nodes
<1>11. tree[m].epoch # 0
  BY <1>6, <1>7, <1>10 DEF Branches
<1>12. CASE o.me \notin tree[m].members
  <2>1. p.tip = 0
    BY <1>4, <1>8, <1>12 DEF Accepted, NoOwner
  <2> QED BY <1>5, <1>6, <2>1, RecordsMove
<1>13. CASE o.me \in tree[m].members
  <2>1. PICK history : history = append_history(o, auth, m)
    OBVIOUS
  <2>2. PICK checkpoints : checkpoints =
          IF auth.kind # "Management" THEN o.checkpoints
          ELSE prune_invitation_checkpoints(o.checkpoints, tree[m].ext)
                 \cup retained_invitation_checkpoint(s, auth)
    OBVIOUS
  <2>3. p = [o EXCEPT !.tip = m, !.history = history, !.checkpoints = checkpoints]
    BY <1>4, <1>8, <1>9, <1>13, <2>1, <2>2 DEF Accepted
  <2>4. p = [tip |-> m, me |-> o.me, history |-> history,
             admissions |-> o.admissions, checkpoints |-> checkpoints]
    BY <1>7, <2>3, OwnerUpdated DEF HoldsCommits
  <2>5. /\ p.tip = m /\ p.history = append_history(o, auth, p.tip) /\ p.admissions = o.admissions
        /\ p.checkpoints = checkpoints
    BY <2>1, <2>4
  <2>6. Verified(Step(auth, p.tip))'
    <3>1. /\ m \in Nodes' /\ tree'[o.tip] = tree[o.tip] /\ tree'[m].epoch # 0
          /\ tree'[m].parent = o.tip /\ apply_transition(Group(o.tip), o.tip, tree'[m], auth)
      BY <1>5, <1>6, <1>10, <1>11
    <3>2. Verified(Step(auth, m))'
      BY <1>7, <3>1, NewStepVerified
    <3> QED BY <2>5, <3>2
  <2>7. HoldsCommits(p)'
    <3>1. owner'[d] = p /\ p.tip # 0
      <4>1. DOMAIN owner = Devices /\ p.tip \in Nodes
        BY <1>10, <2>5 DEF GroupInv, OwnersHoldCommits
      <4>2. p.tip # 0
        BY <4>1, SMTT(30) DEF GroupInv, TreeShape, IsSeq, Nodes
      <4>3. owner'[d] = p
        BY <1>5, <4>1
      <4> QED BY <4>2, <4>3
    <3>2. HoldsCommits(owner[d])'
      BY <3>1 DEF GroupInv, OwnersHoldCommits
    <3> QED BY <3>1, <3>2
  <2>8. PICK none : none = <<>>
    OBVIOUS
  <2>9. IsSeq(none) /\ DOMAIN none = {} /\ p.admissions = o.admissions \o none
    <3>1. IsSeq(<<>>) /\ DOMAIN <<>> = {}
      BY SMTT(30) DEF IsSeq, Range
    <3>2. o.admissions \in Seq(Range(o.admissions))
      BY <1>7 DEF HoldsCommits, IsSeq
    <3>3. o.admissions \o <<>> = o.admissions
      BY <3>2, SMTT(30)
    <3> QED BY <2>5, <2>8, <3>1, <3>3
  <2>10. ASSUME NEW inv \in p.checkpoints, inv \notin o.checkpoints
         PROVE  Serves(p, inv.pin)' /\ RegisteredAt(inv, inv.pin.node)'
    <3>1. inv \in retained_invitation_checkpoint(s, auth)
      BY <2>2, <2>5, <2>10 DEF prune_invitation_checkpoints
    <3>2. inv \in s.checkpoints
      BY <3>1 DEF retained_invitation_checkpoint
    <3>3. RegisteredAt(inv, inv.pin.node)'
      BY <1>5, <1>7, <3>2 DEF CheckpointsKept, RegisteredAt
    <3>4. /\ inv.pin.node = m /\ from_trusted_checkpoint(Group(m))
          /\ inv.pin.signer \in Group(m).ext.admins
      BY <1>5, <1>8, <1>9, <1>13, <3>1 DEF Accepts, can_retain
    <3>5. /\ Group(p.tip)' = Group(m) /\ Group(m).ext = tree'[p.tip].ext
      BY <1>5, <2>5 DEF Group
    <3>6. /\ p.tip \in Nodes' /\ inv.pin.node = p.tip /\ from_trusted_checkpoint(Group(p.tip))'
          /\ inv.pin.signer \in tree'[p.tip].ext.admins
      BY <1>6, <1>10, <2>5, <3>4, <3>5 DEF from_trusted_checkpoint, FitsWire, distinct_bindings
    <3>7. Serves(p, inv.pin)'
      BY <1>6, <3>6, HeadServesNext
    <3> QED BY <3>3, <3>7
  <2>11. Nodes \subseteq Nodes' /\ (\A n \in Nodes : tree'[n] = tree[n])
         /\ tree'[p.tip].epoch # 0 /\ tree'[p.tip].parent = o.tip
    BY <1>5, <1>6, <1>10, <1>11, <2>5
  <2> QED BY <1>1, <1>5, <1>6, <2>5, <2>6, <2>7, <2>9, <2>10, <2>11, AdvanceStep
<1> QED BY <1>12, <1>13
=============================================================================
