----------------------- MODULE WorkspaceHistoryProofs -----------------------
(***************************************************************************)
(* For every set of devices, packages and keys and every bound: what an    *)
(* owner records of its branch stays enough to advance a joiner or another *)
(* member along it.                                                        *)
(***************************************************************************)
EXTENDS WorkspaceGroupProofs, ExtremumLemmas

\* Leaves are tried with Zenon; those that need arithmetic cite SMT.
USE ZenonT(30)

-----------------------------------------------------------------------------
(* Sequences of steps. *)

\* Records that span the epochs from a node of the branch to its head lead from
\* one to the other, and no two of them disagree (accepted_range).
LEMMA RecordsLead ==
  ASSUME Branches, NEW o, HoldsCommits(o), HistoryKept(o), AdmissionsKept(o),
         NEW n \in tree[o.tip].anc, Spans(o, tree[n].epoch)
  PROVE  /\ Leads(n, FirstSteps(o, tree[n].epoch), o.tip)
         /\ accepted_range(o, tree[n].epoch)
<1> DEFINE e == tree[n].epoch
           T == tree[o.tip].epoch
           K == Kept(o)
           F == FirstSteps(o, e)
<1>1. o.tip \in Nodes /\ e \in Nat /\ T \in Nat /\ e <= T /\ tree[o.tip].anc \subseteq Nodes
  BY DEF HoldsCommits, Branches
<1>2. /\ StepNodes(o) = {K[i].node : i \in DOMAIN K}
      /\ StepNodes(o) \subseteq tree[o.tip].anc
      /\ \A i \in DOMAIN K :
           \/ Verified(K[i])
           \/ \E j \in DOMAIN K : j < i /\ tree[K[j].node].epoch = tree[K[i].node].epoch
  BY KeptRecords
<1>3. DOMAIN K \subseteq Nat
  <2>1. IsSeq(HistorySteps(o)) /\ IsSeq(o.admissions)
    BY KeptRecords DEF HoldsCommits
  <2>2. \E k \in Nat : DOMAIN K = 1..k
    <3>1. /\ Len(HistorySteps(o)) \in Nat /\ Len(o.admissions) \in Nat
          /\ DOMAIN K = 1..(Len(HistorySteps(o)) + Len(o.admissions))
      BY <2>1, KeptSteps
    <3> QED BY <3>1, SMTT(30)
  <2> QED BY <2>2, SMTT(30)
<1> HIDE DEF K
<1>4. ASSUME NEW k \in e..(T - 1)
      PROVE  /\ StepsFrom(K, k) # {}
             /\ Min(StepsFrom(K, k)) \in DOMAIN K
             /\ tree[K[Min(StepsFrom(K, k))].node].epoch = k + 1
             /\ K[Min(StepsFrom(K, k))].node \in tree[o.tip].anc
             /\ Verified(K[Min(StepsFrom(K, k))])
  <2> DEFINE S == StepsFrom(K, k)
  <2>1. S \subseteq Nat /\ S # {}
    <3>1. PICK x \in StepNodes(o) : tree[x].epoch = k + 1
      BY DEF Spans
    <3>2. PICK i \in DOMAIN K : x = K[i].node
      BY <1>2, <3>1
    <3>3. i \in S
      BY <3>1, <3>2 DEF StepsFrom, Epoch
    <3> QED BY <1>3, <3>3 DEF StepsFrom
  <2>2. Min(S) \in S /\ \A y \in S : Min(S) <= y
    BY <2>1, MinOfNaturals
  <2>3. PICK m : m = Min(S)
    OBVIOUS
  <2>4. m \in DOMAIN K /\ tree[K[m].node].epoch = k + 1
    BY <2>2, <2>3 DEF StepsFrom, Epoch
  <2>5. ASSUME NEW j \in DOMAIN K, j < m, tree[K[j].node].epoch = tree[K[m].node].epoch
        PROVE  FALSE
    <3>1. j \in S /\ j \in Nat /\ m \in Nat
      BY <1>3, <2>4, <2>5 DEF StepsFrom, Epoch
    <3> QED BY <2>2, <2>3, <2>5, <3>1, SMTT(30)
  <2>6. Verified(K[m])
    BY <1>2, <2>4, <2>5
  <2>7. K[m].node \in tree[o.tip].anc
    BY <1>2, <2>4
  <2> QED BY <2>1, <2>3, <2>4, <2>6, <2>7
<1>5. /\ F = [i \in 1..(T - e) |-> K[Min(StepsFrom(K, e + i - 1))]]
      /\ T - e \in Nat
  BY <1>1, SMTT(30) DEF FirstSteps, Epoch, K
<1>6. IsSeq(F) /\ Len(F) = T - e /\ DOMAIN F = 1..(T - e)
  <2>1. F \in [1..(T - e) -> Range(F)]
    BY <1>5 DEF Range
  <2>2. IsSeq(F)
    BY <1>5, <2>1, BatchSeq
  <2> QED BY <1>5, <2>1, <2>2, SMTT(30) DEF IsSeq
<1>7. ASSUME NEW i \in 1..(T - e)
      PROVE  /\ F[i].node \in tree[o.tip].anc
             /\ tree[F[i].node].epoch = e + i
             /\ Verified(F[i])
  <2>1. e + i - 1 \in e..(T - 1) /\ (e + i - 1) + 1 = e + i
    BY <1>1, SMTT(30)
  <2>2. F[i] = K[Min(StepsFrom(K, e + i - 1))]
    BY <1>5
  <2> HIDE DEF F
  <2> QED BY <1>4, <2>1, <2>2
<1>8. Leads(n, F, o.tip)
  <2>1. T = e + (T - e)
    BY <1>1, SMTT(30)
  <2> HIDE DEF F
  <2> QED BY <1>6, <1>7, <2>1 DEF Leads
<1>9. accepted_range(o, e)
  <2>1. Covered(o, e)
    BY <1>4 DEF Covered, Epoch, K
  <2>2. ASSUME NEW s \in Range(K), NEW t \in Range(K), tree[s.node].epoch = tree[t.node].epoch
        PROVE  s.node = t.node
    <3>1. s.node \in tree[o.tip].anc /\ t.node \in tree[o.tip].anc
      BY <1>2 DEF Range
    <3> QED BY <1>1, <2>2, <3>1, SMTT(30) DEF Branches
  <2> QED BY <1>1, <2>1, <2>2 DEF accepted_range, Epoch, K
<1> QED BY <1>8, <1>9

-----------------------------------------------------------------------------
(* What an owner serves. *)

\* An authorized request for a checkpoint the owner serves gets steps that lead
\* from it to the owner's head (authorized_membership_history).
LEMMA HistoryServed ==
  ASSUME Branches, NEW o, HoldsCommits(o), KeepsRecords(o), NEW r,
         Serves(o, r.inv.pin), authorize_history_request(o, r)
  PROVE  Leads(r.inv.pin.node, membership_history(o, r).steps, o.tip)
<1> DEFINE n == r.inv.pin.node
           F == FirstSteps(o, tree[n].epoch)
<1>1. n \in tree[o.tip].anc /\ Spans(o, tree[n].epoch)
      /\ from_trusted_checkpoint(Group(n)) /\ r.inv.pin.signer \in tree[n].ext.admins
  BY DEF Serves
<1>2. Leads(n, F, o.tip) /\ accepted_range(o, tree[n].epoch)
  BY <1>1, RecordsLead DEF KeepsRecords
<1>3. Replays(n, F) /\ Reached(n, F) = o.tip
  BY <1>2, LeadsReplays DEF HoldsCommits
<1>4. advance_membership_proof(o, n)
  BY <1>2, <1>3 DEF advance_membership_proof, accepted_range, Epoch
<1>5. o.history # NoHistory /\ o.history.start = r.inv.pin => Leads(n, o.history.steps, o.tip)
  BY DEF KeepsRecords, HistoryKept
<1>6. membership_history(o, r) = authorized_membership_history(o, r)
  BY DEF membership_history
<1>7. \/ authorized_membership_history(o, r) = [ok |-> TRUE, steps |-> F]
      \/ /\ o.history # NoHistory /\ o.history.start = r.inv.pin
         /\ authorized_membership_history(o, r) = [ok |-> TRUE, steps |-> o.history.steps]
  BY <1>1, <1>2, <1>4 DEF authorized_membership_history, Epoch
<1> HIDE DEF F
<1> QED BY <1>2, <1>5, <1>6, <1>7, SMTT(30)

\* A reply an owner retained and still gives comes with steps that lead from the
\* joiner's own pin to the commit its Welcome opens (admission_reply_page).
LEMMA ReplyLeads ==
  ASSUME Branches, NEW o, HoldsCommits(o), KeepsRecords(o), NEW r,
         retained_admission(o, r) = "reply"
  PROVE  /\ Serves(o, r.inv.pin)
         /\ admission_reply_page(o, r).ok
         /\ Leads(r.inv.pin.node, admission_reply_page(o, r).steps, Retained(o, r).node)
         /\ Retained(o, r).node \in Nodes
<1> DEFINE n == r.inv.pin.node
           a == Retained(o, r)
           steps == membership_history(o, r).steps
           last == {i \in DOMAIN steps : steps[i].node = a.node}
<1>1. /\ HasRetained(o, r) /\ r.inv.pin.signer \in tree[o.tip].ext.admins
  BY DEF retained_admission
<1>2. a \in Range(o.admissions) /\ a.request = r
  BY <1>1 DEF HasRetained, Retained
<1>3. authorize_history_request(o, r)
  BY <1>1 DEF authorize_history_request
<1> HIDE DEF a
<1>4. PICK i \in DOMAIN o.admissions : o.admissions[i] = a
  BY <1>2 DEF Range
<1>5. /\ a.node \in tree[o.tip].anc
      /\ Serves(o, r.inv.pin) /\ tree[n].epoch < tree[a.node].epoch
  BY <1>2, <1>4 DEF KeepsRecords, AdmissionsKept, RepliesKept
<1>6. Leads(n, steps, o.tip)
  BY <1>3, <1>5, HistoryServed
<1> HIDE DEF steps
<1>7. /\ o.tip \in Nodes /\ tree[o.tip].anc \subseteq Nodes
      /\ n \in tree[o.tip].anc
      /\ tree[n].epoch \in Nat /\ tree[a.node].epoch \in Nat
      /\ tree[a.node].epoch <= tree[o.tip].epoch
      /\ \A x, y \in tree[o.tip].anc : tree[x].epoch = tree[y].epoch => x = y
  BY <1>5 DEF HoldsCommits, Branches, Serves
<1>8. last # {} /\ last \subseteq Nat
  <2>1. /\ DOMAIN steps = 1..Len(steps) /\ Len(steps) \in Nat
        /\ tree[o.tip].epoch = tree[n].epoch + Len(steps)
        /\ \A x \in DOMAIN steps :
             steps[x].node \in tree[o.tip].anc /\ tree[steps[x].node].epoch = tree[n].epoch + x
    BY <1>6, SMTT(30) DEF Leads, IsSeq
  <2>2. PICK k \in 1..Len(steps) : tree[n].epoch + k = tree[a.node].epoch
    <3>1. PICK from \in Nat, to \in Nat, L \in Nat :
            from = tree[n].epoch /\ to = tree[a.node].epoch /\ L = Len(steps)
      BY <1>7, <2>1
    <3>2. from < to /\ to <= from + L
      BY <1>5, <1>7, <2>1, <3>1
    <3>3. to - from \in 1..L /\ from + (to - from) = to
      BY <3>2, SMTT(30)
    <3> QED BY <3>1, <3>3
  <2>3. steps[k].node = a.node
    BY <1>5, <1>7, <2>1, <2>2
  <2> QED BY <2>1, <2>2, <2>3, SMTT(30)
<1>9. Min(last) \in last
  BY <1>8, MinOfNaturals
<1>10. admission_reply_page(o, r) = [ok |-> TRUE, steps |-> SubSeq(steps, 1, Min(last))]
  BY <1>8 DEF admission_reply_page, steps, a
<1>11. PICK j \in DOMAIN steps : j = Min(last) /\ steps[j].node = a.node
  BY <1>9
<1>12. Leads(n, SubSeq(steps, 1, j), a.node)
  BY <1>6, <1>7, <1>11, LeadsPrefix
<1> HIDE DEF last
<1>13. /\ admission_reply_page(o, r).ok
       /\ admission_reply_page(o, r).steps = SubSeq(steps, 1, j)
  <2>1. PICK pre : pre = SubSeq(steps, 1, j)
    OBVIOUS
  <2>2. admission_reply_page(o, r) = [ok |-> TRUE, steps |-> pre]
    BY <1>10, <1>11, <2>1
  <2>3. admission_reply_page(o, r).ok = TRUE /\ admission_reply_page(o, r).steps = pre
    BY <2>2, SMTT(30)
  <2> QED BY <2>1, <2>3
<1> QED BY <1>5, <1>7, <1>12, <1>13 DEF a

\* Whatever history an owner serves is from a checkpoint of its branch that its
\* records reach: no replay succeeds from anywhere else (membership_history).
LEMMA ServedIsKept ==
  ASSUME Branches, NEW o, HoldsCommits(o), HistoryKept(o), AdmissionsKept(o), CheckpointsKept(o),
         NEW r, r.inv.pin.node \in Nodes, membership_history(o, r).ok
  PROVE  Serves(o, r.inv.pin)
<1> DEFINE pin == r.inv.pin
           n == r.inv.pin.node
           F == FirstSteps(o, tree[n].epoch)
<1>1. authorized_membership_history(o, r).ok
  BY DEF membership_history, NoSteps
<1>2. CASE r.inv \in o.checkpoints
  BY <1>2 DEF CheckpointsKept
<1>3. CASE r.inv \notin o.checkpoints
  <2>1. /\ from_trusted_checkpoint(Group(n)) /\ pin.signer \in tree[n].ext.admins
        /\ \/ o.history # NoHistory /\ o.history.start = pin
           \/ advance_membership_proof(o, n)
    BY <1>1, <1>3 DEF authorized_membership_history, NoSteps
  <2>0. /\ o.tip \in Nodes /\ tree[o.tip].anc \subseteq Nodes
        /\ tree[n].epoch \in Nat /\ tree[o.tip].epoch \in Nat
    BY DEF HoldsCommits, Branches
  <2>2. CASE o.history # NoHistory /\ o.history.start = pin
    <3>1. Leads(n, o.history.steps, o.tip) /\ HistorySteps(o) = o.history.steps
      BY <2>2 DEF HistoryKept, HistorySteps
    <3>2. Spans(o, tree[n].epoch)
      <4>1. /\ DOMAIN o.history.steps = 1..Len(o.history.steps) /\ Len(o.history.steps) \in Nat
            /\ tree[o.tip].epoch = tree[n].epoch + Len(o.history.steps)
            /\ \A x \in DOMAIN o.history.steps :
                 tree[o.history.steps[x].node].epoch = tree[n].epoch + x
        BY <3>1, SMTT(30) DEF Leads, IsSeq
      <4>2. ASSUME NEW k \in tree[n].epoch..(tree[o.tip].epoch - 1)
            PROVE  \E m \in StepNodes(o) : tree[m].epoch = k + 1
        <5>1. PICK x \in DOMAIN o.history.steps : tree[n].epoch + x = k + 1
          <6>1. PICK from \in Nat, to \in Nat, L \in Nat :
                  from = tree[n].epoch /\ to = tree[o.tip].epoch /\ L = Len(o.history.steps)
            BY <2>0, <4>1
          <6>2. k \in from..(to - 1) /\ to = from + L
            BY <4>1, <6>1
          <6>3. k + 1 - from \in 1..L /\ from + (k + 1 - from) = k + 1
            BY <6>2, SMTT(30)
          <6> QED BY <4>1, <6>1, <6>3
        <5>2. o.history.steps[x].node \in StepNodes(o)
          BY <3>1 DEF StepNodes
        <5> QED BY <4>1, <5>1, <5>2
      <4> QED BY <4>2 DEF Spans
    <3>3. n \in tree[o.tip].anc
      BY <3>1 DEF Leads
    <3> QED BY <2>1, <3>2, <3>3 DEF Serves
  <2>3. CASE advance_membership_proof(o, n)
    <3>1. /\ tree[n].epoch <= tree[o.tip].epoch /\ Covered(o, tree[n].epoch)
          /\ Replays(n, F) /\ Reached(n, F) = o.tip
      BY <2>3 DEF advance_membership_proof, Epoch
    <3>2. /\ StepNodes(o) = {Kept(o)[i].node : i \in DOMAIN Kept(o)}
          /\ StepNodes(o) \subseteq tree[o.tip].anc
          /\ \A i \in DOMAIN Kept(o) : tree[Kept(o)[i].node].epoch # 0
          /\ DOMAIN Kept(o) \subseteq Nat
      <4>1. IsSeq(HistorySteps(o)) /\ IsSeq(o.admissions)
        BY KeptRecords DEF HoldsCommits
      <4>2. /\ Len(HistorySteps(o)) \in Nat /\ Len(o.admissions) \in Nat
            /\ DOMAIN Kept(o) = 1..(Len(HistorySteps(o)) + Len(o.admissions))
        BY <4>1, KeptSteps
      <4>3. DOMAIN Kept(o) \subseteq Nat
        BY <4>2, SMTT(30)
      <4> QED BY <4>3, KeptRecords
    <3>3. \A k \in tree[n].epoch..(tree[o.tip].epoch - 1) :
            \E i \in DOMAIN Kept(o) : tree[Kept(o)[i].node].epoch = k + 1
      BY <3>1 DEF Covered, StepsFrom, Epoch
    <3>4. Spans(o, tree[n].epoch)
      BY <3>2, <3>3 DEF Spans
    <3>5. n \in tree[o.tip].anc
      <4>1. CASE F = <<>>
        <5>1. n = o.tip
          BY <3>1, <4>1 DEF Reached
        <5> QED BY <2>0, <5>1 DEF Branches
      <4>2. CASE F # <<>>
        <5>1. PICK T \in Nat : T = tree[o.tip].epoch - tree[n].epoch
          <6>1. PICK from \in Nat, to \in Nat : from = tree[n].epoch /\ to = tree[o.tip].epoch
            BY <2>0
          <6>2. to - from \in Nat
            BY <3>1, <6>1, SMTT(30)
          <6> QED BY <6>1, <6>2
        <5>2. F = [i \in 1..T |-> Kept(o)[Min(StepsFrom(Kept(o), tree[n].epoch + i - 1))]]
          BY <5>1 DEF FirstSteps, Epoch
        <5>3. T # 0
          <6>1. SUFFICES ASSUME T = 0 PROVE FALSE
            OBVIOUS
          <6>2. DOMAIN F = {} /\ F \in [{} -> {}]
            BY <5>2, <6>1, SMTT(30)
          <6>3. F = <<>>
            BY <6>2, SMTT(30)
          <6> QED BY <4>2, <6>3
        <5>4. tree[n].epoch + 1 - 1 = tree[n].epoch
          BY <2>0, SMTT(30)
        <5>5. 1 \in DOMAIN F /\ F[1] = Kept(o)[Min(StepsFrom(Kept(o), tree[n].epoch))]
          <6>1. 1 \in 1..T
            BY <5>3, SMTT(30)
          <6>2. F[1] = Kept(o)[Min(StepsFrom(Kept(o), tree[n].epoch + 1 - 1))]
            BY <5>2, <6>1
          <6> QED BY <5>2, <5>4, <6>1, <6>2
        <5>6. PICK S : S = StepsFrom(Kept(o), tree[n].epoch)
          OBVIOUS
        <5>7. S # {} /\ S \subseteq DOMAIN Kept(o)
          <6>1. tree[n].epoch \in tree[n].epoch..(tree[o.tip].epoch - 1)
            <7>1. PICK from \in Nat, to \in Nat : from = tree[n].epoch /\ to = tree[o.tip].epoch
              BY <2>0
            <7>2. from \in from..(to - 1)
              BY <5>1, <5>3, <7>1, SMTT(30)
            <7> QED BY <7>1, <7>2
          <6> QED BY <3>1, <5>6, <6>1 DEF Covered, StepsFrom, Epoch
        <5>8. Min(S) \in S
          BY <3>2, <5>7, MinOfNaturals
        <5>9. F[1].node \in tree[o.tip].anc /\ tree[F[1].node].epoch # 0
          BY <3>2, <5>5, <5>6, <5>7, <5>8
        <5>10. tree[F[1].node].parent = n
          <6>1. Applies(IF 1 = 1 THEN n ELSE F[1 - 1].node, F[1])
            <7> HIDE DEF F
            <7> QED BY <3>1, <5>5 DEF Replays
          <6> QED BY <6>1 DEF Applies
        <5>11. PICK m : m = F[1].node
          OBVIOUS
        <5>12. m \in tree[o.tip].anc /\ m \in Nodes /\ tree[m].epoch # 0 /\ tree[m].parent = n
          BY <2>0, <5>9, <5>10, <5>11
        <5>13. n \in tree[m].anc /\ tree[m].anc \subseteq tree[o.tip].anc
          BY <2>0, <5>12 DEF Branches
        <5> QED BY <5>13
      <4> QED BY <4>1, <4>2
    <3> QED BY <2>1, <3>4, <3>5 DEF Serves
  <2> QED BY <2>1, <2>2, <2>3
<1> QED BY <1>2, <1>3

\* The histories a prepared owner checks that it can serve before it is staged
\* are ones it keeps (prepare_validated_admission_batch).
LEMMA ServedIsKeptNext == ServeRule'
<1>1. ServeRule
  BY ServedIsKept DEF ServeRule
<1> QED BY <1>1, PTL

-----------------------------------------------------------------------------
(* Steps of the workspace. *)

\* A joiner's first records are the steps it was sent, which lead from its pin to
\* the commit that added it (prepare_workspace).
LEMMA JoinRecords ==
  ASSUME GroupInv, RecordInv, NEW d \in Devices, NEW peer \in Devices, prepare_workspace(d, peer)
  PROVE  RecordInv'
<1>1. PICK r : r = Request(pending[d].package, pending[d].inv)
  OBVIOUS
<1>2. PICK o : o = owner[peer]
  OBVIOUS
<1>3. PICK m : m = Retained(o, r).node
  OBVIOUS
<1>4. PICK steps : steps = admission_reply_page(o, r).steps
  OBVIOUS
<1>5. PICK history : history = [start |-> r.inv.pin, steps |-> steps]
  OBVIOUS
<1>6. PICK p : p = [tip |-> m, me |-> r.package, history |-> history, admissions |-> <<>>, checkpoints |-> {}]
  OBVIOUS
<1>7. /\ IsOwner(peer) /\ retained_admission(o, r) = "reply"
      /\ owner' = [owner EXCEPT ![d] = p] /\ tree' = tree
  BY <1>1, <1>2, <1>3, <1>4, <1>5, <1>6 DEF prepare_workspace
<1>8. HoldsCommits(o) /\ KeepsRecords(o) /\ Branches
  BY <1>2, <1>7 DEF GroupInv, OwnersHoldCommits, IsOwner, RecordInv
<1>9. Leads(r.inv.pin.node, steps, m) /\ m \in Nodes
  BY <1>3, <1>4, <1>7, <1>8, ReplyLeads
<1>10. /\ p.tip = m /\ p.history = history /\ p.admissions = <<>> /\ p.checkpoints = {}
       /\ history.start = r.inv.pin /\ history.steps = steps
       /\ history = [start |-> history.start, steps |-> history.steps]
  BY <1>5, <1>6
<1>11. Nodes' = Nodes /\ Branches'
  BY <1>7, <1>8, SMTT(30) DEF Nodes, Branches
<1>12. Leads(r.inv.pin.node, steps, m)'
  BY <1>7, <1>8, <1>9, <1>11, LeadsStays
<1>13. HistoryKept(p)'
  BY <1>10, <1>12 DEF HistoryKept
<1>14. AdmissionsKept(p)' /\ CheckpointsKept(p)' /\ RepliesKept(p)'
  BY <1>10, SMTT(30) DEF AdmissionsKept, CheckpointsKept, RepliesKept
<1>15. KeepsRecords(p)'
  BY <1>13, <1>14 DEF KeepsRecords
<1> QED BY <1>7, <1>11, <1>15, RecordsMove

-----------------------------------------------------------------------------
(* What commits, tokens and copies are made of. *)

\* A new invitation pins a commit and is signed by a member.
LEMMA InvitationTypes ==
  ASSUME GroupInv, Branches, TypesInv, NEW d \in Devices, NEW key \in Keys, NEW kind, NEW expires \in Nat,
         kind.op \in Creations, kind.personal \in BOOLEAN,
         prepare_invitation_mode(d, key, kind, expires)
  PROVE  TypesInv'
<1>1. PICK o : o = owner[d]
  OBVIOUS
<1>2. PICK action : action = [op |-> kind.op, personal |-> kind.personal, key |-> key, expires |-> expires]
  OBVIOUS
<1>3. PICK inv : inv = [key |-> key, pin |-> [node |-> NewNode, signer |-> o.me]]
  OBVIOUS
<1>4. PICK kept : kept = prune_invitation_checkpoints(o.checkpoints,
        merge_commit(Group(o.tip), management_commit(Group(o.tip), o.me, action)).ext)
  OBVIOUS
<1>5. PICK checkpoints : checkpoints = kept \cup {inv}
  OBVIOUS
<1>6. PICK history : history = append_history(o, Management(action), NewNode)
  OBVIOUS
<1>7. PICK p : p = [o EXCEPT !.tip = NewNode, !.history = history, !.checkpoints = checkpoints]
  OBVIOUS
<1>8. /\ IsOwner(d) /\ prepare_management(o, action)
      /\ tree' = Extended(o.tip, management_commit(Group(o.tip), o.me, action), Management(action))
      /\ owner' = [owner EXCEPT ![d] = p]
      /\ invitations' = invitations \cup {inv} /\ requests' = requests
  BY <1>1, <1>2, <1>3, <1>4, <1>5, <1>6, <1>7 DEF prepare_invitation_mode, Checkpoint
<1>9. HoldsCommits(o) /\ o.checkpoints \subseteq invitations /\ CommitsTyped
  BY <1>1, <1>8 DEF GroupInv, OwnersHoldCommits, IsOwner, TypesInv
<1>10. /\ action.key \in Keys /\ action.expires \in Nat /\ action.personal \in BOOLEAN
       /\ action.op \notin {"ApproveInvitation", "DeclineInvitationRequest"}
  BY <1>2 DEF Creations
<1>11. CommitsTyped' /\ Nodes \subseteq Nodes' /\ NewNode \in Nodes'
  BY <1>8, <1>9, <1>10, ManagementTyped
<1>12. o.me \in Packages
  BY <1>9 DEF HoldsCommits, CommitsTyped
<1>13. inv \in [key: Keys, pin: [node: Nodes', signer: Packages]]
  BY <1>3, <1>11, <1>12
<1>14. p.checkpoints = checkpoints
  BY <1>7, <1>9, OwnerUpdated DEF HoldsCommits
<1>15. checkpoints \subseteq invitations' /\ invitations \subseteq invitations'
  BY <1>4, <1>5, <1>8, <1>9 DEF prune_invitation_checkpoints
<1>16. \A c \in Devices : owner'[c].tip # 0 => owner'[c].checkpoints \subseteq invitations'
  BY <1>8, <1>14, <1>15, OwnerTypes
<1>17. IsFiniteSet(invitations')
  <2>1. IsFiniteSet(invitations)
    BY DEF TypesInv
  <2> QED BY <1>8, <2>1, FS_AddElement
<1> QED BY <1>8, <1>11, <1>13, <1>15, <1>16, <1>17, TypesMove

\* An unregistered invitation pins the issuer's own commit.
LEMMA IssueTypes ==
  ASSUME GroupInv, TypesInv, NEW d \in Devices, NEW key \in Keys, issue_invitation(d, key)
  PROVE  TypesInv'
<1>1. PICK o : o = owner[d]
  OBVIOUS
<1>2. PICK inv : inv = [key |-> key, pin |-> [node |-> o.tip, signer |-> o.me]]
  OBVIOUS
<1>3. /\ IsOwner(d) /\ invitations' = invitations \cup {inv}
      /\ tree' = tree /\ owner' = owner /\ requests' = requests
  BY <1>1, <1>2 DEF issue_invitation, Checkpoint
<1>4. o.tip \in Nodes /\ o.me \in Packages
  BY <1>1, <1>3 DEF GroupInv, OwnersHoldCommits, IsOwner, HoldsCommits, TypesInv, CommitsTyped
<1>5. Nodes' = Nodes /\ CommitsTyped'
  BY <1>3 DEF TypesInv, CommitsTyped, Nodes, ExtTyped
<1>6. inv \in [key: Keys, pin: [node: Nodes', signer: Packages]]
  BY <1>2, <1>4, <1>5
<1>7. IsFiniteSet(invitations')
  <2>1. IsFiniteSet(invitations)
    BY DEF TypesInv
  <2> QED BY <1>3, <2>1, FS_AddElement
<1>8. \A c \in Devices : owner'[c].tip # 0 => owner'[c].checkpoints \subseteq invitations'
  BY <1>3 DEF TypesInv
<1> QED BY <1>3, <1>5, <1>6, <1>7, <1>8, TypesMove

-----------------------------------------------------------------------------
(* The invariant. *)

\* The created workspace has one commit, one member and no records.
LEMMA InitHistory == Init => TypesInv /\ RecordInv
<1> SUFFICES ASSUME Init PROVE TypesInv /\ RecordInv
  OBVIOUS
<1>1. /\ Nodes = {1} /\ tree[1].parent = 0 /\ tree[1].epoch = 0 /\ tree[1].anc = {1}
      /\ tree[1].members = {Founder} /\ tree[1].ext.legacy = TRUE /\ tree[1].ext.controls = <<>>
  BY SMTT(30) DEF Init, Nodes
<1>2. Branches
  BY <1>1, SMTT(30) DEF Branches
<1>3. ExtTyped(tree[1].ext)
  <2>1. PICK e : e = tree[1].ext
    OBVIOUS
  <2>2. e.legacy = TRUE /\ e.controls = <<>>
    BY <1>1, <2>1
  <2>3. e.legacy \in BOOLEAN
    BY <2>2
  <2>4. DOMAIN e.controls = {}
    BY <2>2, SMTT(30)
  <2> QED BY <2>1, <2>3, <2>4 DEF ExtTyped
<1>4. CommitsTyped
  BY <1>1, <1>3, GroupAssumption DEF CommitsTyped
<1>5. invitations = {} /\ requests = {} /\ IsFiniteSet({})
  BY FS_EmptySet DEF Init
<1>6. ASSUME NEW d \in Devices, owner[d].tip # 0
      PROVE  owner[d].history = NoHistory /\ owner[d].admissions = <<>> /\ owner[d].checkpoints = {}
  <2>1. PICK first : first = [tip |-> 1, me |-> Founder, history |-> NoHistory,
                              admissions |-> <<>>, checkpoints |-> {}]
    OBVIOUS
  <2>2. owner[d] = first \/ owner[d] = NoOwner
    BY <2>1 DEF Init
  <2>3. NoOwner.tip = 0
    BY DEF NoOwner
  <2> QED BY <1>6, <2>1, <2>2, <2>3, SMTT(30)
<1>7. TypesInv
  BY <1>4, <1>5, <1>6 DEF TypesInv
<1>8. ASSUME NEW d \in Devices, owner[d].tip # 0 PROVE KeepsRecords(owner[d])
  <2>1. PICK o : o = owner[d]
    OBVIOUS
  <2>2. o.history = NoHistory /\ o.admissions = <<>> /\ o.checkpoints = {}
    BY <1>6, <1>8, <2>1
  <2>3. KeepsRecords(o)
    BY <2>2, SMTT(30) DEF KeepsRecords, HistoryKept, AdmissionsKept, CheckpointsKept, RepliesKept
  <2> QED BY <2>1, <2>3
<1> QED BY <1>2, <1>7, <1>8 DEF RecordInv, IsOwner

\* Every step of every member and joiner keeps the types and the records.
LEMMA StepHistory ==
  GroupInv /\ GroupInv' /\ TypesInv /\ RecordInv /\ [Next]_vars => TypesInv' /\ RecordInv'
<1> SUFFICES ASSUME GroupInv, GroupInv', TypesInv, RecordInv, [Next]_vars PROVE TypesInv' /\ RecordInv'
  OBVIOUS
<1> USE PolicyAssumption, GroupAssumption
<1>0. Branches
  BY DEF RecordInv
<1>1. ASSUME UNCHANGED <<tree, owner, invitations, requests>> PROVE TypesInv' /\ RecordInv'
  <2>1. \A c \in Devices : owner'[c].tip # 0 => owner'[c].checkpoints \subseteq invitations'
    BY <1>1 DEF TypesInv
  <2> QED BY <1>1, <2>1, TypesStay, RecordsFrame
<1>2. ASSUME NEW d \in Devices, leave_action(d) PROVE TypesInv' /\ RecordInv'
  BY <1>1, <1>2 DEF leave_action
<1>3. ASSUME NEW d \in Devices, prepare_solo_leave(d) PROVE TypesInv' /\ RecordInv'
  <2>0. NoOwner.tip = 0
    BY DEF NoOwner
  <2>1. PICK p : p = NoOwner /\ p.tip = 0
    BY <2>0
  <2>2. owner' = [owner EXCEPT ![d] = p] /\ UNCHANGED <<tree, invitations, requests>>
    BY <1>3, <2>1 DEF prepare_solo_leave
  <2>3. Nodes' = Nodes /\ Branches'
    BY <1>0, <2>2, SMTT(30) DEF Nodes, Branches
  <2>4. RecordInv'
    BY <2>1, <2>2, <2>3, RecordsMove
  <2>5. \A c \in Devices : owner'[c].tip # 0 => owner'[c].checkpoints \subseteq invitations'
    BY <2>1, <2>2, OwnerTypes
  <2> QED BY <2>2, <2>4, <2>5, TypesStay
<1>4. ASSUME NEW d \in Devices, NEW op \in {"Promote", "Demote", "Remove"}, NEW id \in Packages,
             StageManagement(d, op, id)
      PROVE  TypesInv' /\ RecordInv'
  <2>1. PICK action : action = [op |-> op, id |-> id]
    OBVIOUS
  <2>2. action.op \notin Creations
        /\ action.op \notin {"ApproveInvitation", "DeclineInvitationRequest"}
    BY <2>1 DEF Creations
  <2>3. Managed(d, action) /\ UNCHANGED <<invitations, requests>>
    BY <1>4, <2>1 DEF StageManagement
  <2> QED BY <1>0, <2>2, <2>3, ManagedTypes, ManagedRecords, ServedIsKeptNext
<1>5. ASSUME NEW d \in Devices, NEW leave \in leaves, receive_leave(d, leave)
      PROVE  TypesInv' /\ RecordInv'
  <2>1. leave.op = "Leave"
    BY DEF GroupInv, TokensTyped
  <2>2. leave.op \notin Creations
        /\ leave.op \notin {"ApproveInvitation", "DeclineInvitationRequest"}
    BY <2>1 DEF Creations
  <2>3. Managed(d, leave) /\ UNCHANGED <<invitations, requests>>
    BY <1>5 DEF receive_leave
  <2> QED BY <1>0, <2>2, <2>3, ManagedTypes, ManagedRecords, ServedIsKeptNext
<1>6. ASSUME NEW d \in Devices, NEW key \in Keys, issue_invitation(d, key)
      PROVE  TypesInv' /\ RecordInv'
  <2>1. tree' = tree /\ owner' = owner
    BY <1>6 DEF issue_invitation
  <2> QED BY <1>6, <2>1, IssueTypes, RecordsFrame
<1>7. ASSUME NEW d \in Devices, NEW key \in Keys, NEW kind \in plan.kinds, NEW expires \in Times,
             prepare_invitation_mode(d, key, kind, expires)
      PROVE  TypesInv' /\ RecordInv'
  <2>1. kind.op \in Creations /\ kind.personal \in BOOLEAN /\ expires \in Nat
    BY DEF GroupInv, TokensTyped
  <2> QED BY <1>0, <1>7, <2>1, InvitationTypes, InvitationRecords, ServedIsKeptNext
<1>8. ASSUME NEW d \in Devices, NEW r \in requests, prepare_invitation_approval(d, r)
      PROVE  TypesInv' /\ RecordInv'
  <2>1. PICK action : action = [op |-> "ApproveInvitation", key |-> r.inv.key, package |-> r.package]
    OBVIOUS
  <2>2. r.inv.key \in Keys /\ r.package \in Packages
    BY DEF GroupInv, TokensTyped
  <2>3. action.op \notin Creations /\ action.key \in Keys /\ action.package \in Packages
    BY <2>1, <2>2 DEF Creations
  <2>4. Managed(d, action) /\ UNCHANGED <<invitations, requests>>
    BY <1>8, <2>1 DEF prepare_invitation_approval
  <2> QED BY <1>0, <2>3, <2>4, ManagedTypes, ManagedRecords, ServedIsKeptNext
<1>9. ASSUME NEW d \in Devices, NEW r \in requests, prepare_invitation_decline(d, r)
      PROVE  TypesInv' /\ RecordInv'
  <2>1. PICK decline : decline =
          [op |-> "DeclineInvitationRequest", key |-> r.inv.key, package |-> r.package]
    OBVIOUS
  <2>2. PICK disable : disable = [op |-> "DisableInvitation", key |-> r.inv.key]
    OBVIOUS
  <2>3. r.inv.key \in Keys /\ r.package \in Packages
    BY DEF GroupInv, TokensTyped
  <2>4. decline.op \notin Creations /\ decline.key \in Keys /\ decline.package \in Packages
    BY <2>1, <2>3 DEF Creations
  <2>5. disable.op \notin Creations
        /\ disable.op \notin {"ApproveInvitation", "DeclineInvitationRequest"}
    BY <2>2 DEF Creations
  <2>6. /\ Managed(d, decline) \/ Managed(d, disable)
        /\ UNCHANGED <<invitations, requests>>
    BY <1>9, <2>1, <2>2 DEF prepare_invitation_decline
  <2>7. CASE Managed(d, decline)
    BY <1>0, <2>4, <2>6, <2>7, ManagedTypes, ManagedRecords, ServedIsKeptNext
  <2>8. CASE Managed(d, disable)
    BY <1>0, <2>5, <2>6, <2>8, ManagedTypes, ManagedRecords, ServedIsKeptNext
  <2> QED BY <2>6, <2>7, <2>8
<1>10. ASSUME NEW d \in Devices, NEW key, DisableInvitation(d, key) PROVE TypesInv' /\ RecordInv'
  <2>1. PICK action : action = [op |-> "DisableInvitation", key |-> key]
    OBVIOUS
  <2>2. action.op \notin Creations
        /\ action.op \notin {"ApproveInvitation", "DeclineInvitationRequest"}
    BY <2>1 DEF Creations
  <2>3. Managed(d, action) /\ UNCHANGED <<invitations, requests>>
    BY <1>10, <2>1 DEF DisableInvitation
  <2> QED BY <1>0, <2>2, <2>3, ManagedTypes, ManagedRecords, ServedIsKeptNext
<1>11. ASSUME NEW d \in Devices, NEW batch \in Batches,
              prepare_validated_admission_batch(d, batch)
       PROVE  TypesInv' /\ RecordInv'
  <2>1. \A r \in requests : r.inv.pin.node \in Nodes
    BY DEF TypesInv, Invitation
  <2> QED BY <1>0, <1>11, <2>1, AdmissionTypes, AdmissionRecords, ServedIsKeptNext
<1>12. ASSUME NEW d \in Devices, NEW peer \in Devices, stage_update(d, peer)
       PROVE  TypesInv' /\ RecordInv'
  BY <1>12, UpdateTypes, UpdateRecords, ServedIsKeptNext
<1>13. ASSUME NEW d \in Devices, NEW peer \in Devices, prepare_workspace(d, peer)
       PROVE  TypesInv' /\ RecordInv'
  BY <1>13, JoinTypes, JoinRecords
<1>14. ASSUME UNCHANGED <<tree, owner, invitations>>, NEW r, requests' \subseteq requests \cup {r},
              r \in [package: Packages, inv: invitations]
       PROVE  TypesInv' /\ RecordInv'
  <2>1. \A c \in Devices : owner'[c].tip # 0 => owner'[c].checkpoints \subseteq invitations'
    BY <1>14 DEF TypesInv
  <2>2. \A x \in requests' : x \in requests \/ x \in [package: Packages, inv: invitations']
    BY <1>14
  <2> QED BY <1>14, <2>1, <2>2, TypesStay, RecordsFrame
<1>15. ASSUME NEW d \in Devices, NEW peer \in Devices, complete_checkpoint(d, peer)
       PROVE  TypesInv' /\ RecordInv'
  <2>1. PICK r : r = [package |-> pending[d].package, inv |-> pending[d].inv]
    OBVIOUS
  <2>2. /\ pending[d].package # NoPackage /\ requests' = requests \cup {r}
        /\ UNCHANGED <<tree, owner, invitations>>
    BY <1>15, <2>1 DEF complete_checkpoint, IsPending, Request
  <2>3. r \in [package: Packages, inv: invitations]
    BY <2>1, <2>2 DEF GroupInv, TokensTyped
  <2> QED BY <1>14, <2>2, <2>3
<1>16. ASSUME NEW package \in Packages, NEW inv \in invitations, NEW compact \in BOOLEAN,
              StartJoin(package, inv, compact)
       PROVE  TypesInv' /\ RecordInv'
  <2>1. PICK r : r = [package |-> package, inv |-> inv]
    OBVIOUS
  <2>2. requests' \subseteq requests \cup {r} /\ UNCHANGED <<tree, owner, invitations>>
    BY <1>16, <2>1 DEF StartJoin, Request
  <2>3. r \in [package: Packages, inv: invitations]
    BY <2>1
  <2> QED BY <1>14, <2>2, <2>3
<1>17. ASSUME Tick PROVE TypesInv' /\ RecordInv'
  BY <1>1, <1>17 DEF Tick
<1>18. ASSUME UNCHANGED vars PROVE TypesInv' /\ RecordInv'
  BY <1>1, <1>18 DEF vars
<1> QED BY <1>2, <1>3, <1>4, <1>5, <1>6, <1>7, <1>8, <1>9, <1>10, <1>11, <1>12, <1>13,
           <1>15, <1>16, <1>17, <1>18 DEF Next

\* The records of every copy stay whole, over any sequence of commits, updates,
\* joins, departures and expiries: one verified step an epoch from every
\* checkpoint and every answered request to the head of the copy's branch
\* (append_history, prune_invitation_checkpoints, retained admissions).
THEOREM HistoryInvariant == Spec => [](GroupInv /\ TypesInv /\ RecordInv)
<1>1. Init => GroupInv /\ TypesInv /\ RecordInv
  BY InitGroupInv, InitHistory
<1>2. (GroupInv /\ TypesInv /\ RecordInv) /\ [Next]_vars => (GroupInv /\ TypesInv /\ RecordInv)'
  BY StepGroupInv, StepHistory
<1> QED BY <1>1, <1>2, PTL DEF Spec

-----------------------------------------------------------------------------
(* What the records are for. *)

\* For any number of members, invitations and branches, the replay the code
\* skips for a checkpoint it retained itself would have succeeded
\* (authorized_membership_history: "Its own branch only extends, so that proof
\* stays good").
THEOREM RetainedCheckpointsAlwaysReplay == Spec => []RetainedCheckpointsReplay
<1>1. GroupInv /\ RecordInv => RetainedCheckpointsReplay
  <2> SUFFICES ASSUME GroupInv, RecordInv, NEW d \in Devices, IsOwner(d), NEW inv \in owner[d].checkpoints
      PROVE  /\ accepted_range(owner[d], Epoch(inv.pin.node))
             /\ advance_membership_proof(owner[d], inv.pin.node)
    BY DEF RetainedCheckpointsReplay
  <2>1. PICK o, n : o = owner[d] /\ n = inv.pin.node
    OBVIOUS
  <2>2. /\ HoldsCommits(o) /\ o.tip \in Nodes /\ HistoryKept(o) /\ AdmissionsKept(o)
        /\ CheckpointsKept(o) /\ Branches
    BY <2>1 DEF GroupInv, OwnersHoldCommits, IsOwner, HoldsCommits, RecordInv, KeepsRecords
  <2>3. n \in tree[o.tip].anc /\ Spans(o, tree[n].epoch)
    BY <2>1, <2>2 DEF CheckpointsKept, Serves
  <2>4. Leads(n, FirstSteps(o, tree[n].epoch), o.tip) /\ accepted_range(o, tree[n].epoch)
    BY <2>2, <2>3, RecordsLead
  <2>5. PICK steps : steps = FirstSteps(o, tree[n].epoch)
    OBVIOUS
  <2>6. Replays(n, steps) /\ Reached(n, steps) = o.tip
    BY <2>2, <2>4, <2>5, LeadsReplays
  <2>7. advance_membership_proof(o, n)
    BY <2>4, <2>5, <2>6 DEF accepted_range, advance_membership_proof, Epoch
  <2> QED BY <2>1, <2>4, <2>7 DEF Epoch
<1> QED BY <1>1, HistoryInvariant, PTL

\* For any number of members, requests and branches, an answer once committed
\* can be repeated with steps its joiner replays from its own pin to the commit
\* its Welcome opens (retained_admission, admission_reply_page, JoinProof).
THEOREM RepliesAlwaysUsable == Spec => []RepliesAreUsable
<1>1. GroupInv /\ TypesInv /\ RecordInv => TypeOK
  <2> SUFFICES ASSUME GroupInv, TypesInv, RecordInv PROVE TypeOK
    OBVIOUS
  <2>1. \A n \in Nodes : tree[n].members \subseteq Packages /\ ExtTyped(tree[n].ext) /\ (n # 1 => tree[n].epoch # 0)
    BY DEF TypesInv, CommitsTyped
  <2>2. \A n \in Nodes : n # 1 => tree[n].parent \in tree[n].anc
    BY <2>1 DEF RecordInv, Branches
  <2>3. \A n \in Nodes : tree[n].ext.legacy \in BOOLEAN
    BY <2>1 DEF ExtTyped
  <2>4. \A n \in Nodes : /\ DOMAIN tree[n].ext.controls \subseteq ControlKeys
                          /\ \A k \in DOMAIN tree[n].ext.controls : tree[n].ext.controls[k] \in Control
    BY <2>1 DEF ExtTyped
  <2>5. invitations \subseteq Invitation /\ requests \subseteq [package: Packages, inv: invitations]
    BY DEF TypesInv
  <2>6. \A d \in Devices :
          /\ IsOwner(d) => owner[d].tip \in Nodes /\ owner[d].checkpoints \subseteq invitations
          /\ IsPending(d) => pending[d].inv \in invitations
    BY DEF TypesInv, GroupInv, OwnersHoldCommits, HoldsCommits, TokensTyped, IsOwner, IsPending
  <2> QED BY <2>1, <2>2, <2>3, <2>4, <2>5, <2>6 DEF TypeOK
<1>2. ASSUME GroupInv, RecordInv, NEW d \in Devices, IsOwner(d), NEW r \in requests,
             retained_admission(owner[d], r) = "reply"
      PROVE  /\ admission_reply_page(owner[d], r).ok
             /\ JoinProof(r, admission_reply_page(owner[d], r).steps, Retained(owner[d], r).node)
  <2>1. PICK o : o = owner[d]
    OBVIOUS
  <2>2. HoldsCommits(o) /\ KeepsRecords(o) /\ Branches
    BY <1>2, <2>1 DEF GroupInv, OwnersHoldCommits, IsOwner, RecordInv
  <2>3. /\ Serves(o, r.inv.pin) /\ admission_reply_page(o, r).ok
        /\ Leads(r.inv.pin.node, admission_reply_page(o, r).steps, Retained(o, r).node)
        /\ Retained(o, r).node \in Nodes
    BY <1>2, <2>1, <2>2, ReplyLeads
  <2>4. PICK steps, m : steps = admission_reply_page(o, r).steps /\ m = Retained(o, r).node
    OBVIOUS
  <2>5. Replays(r.inv.pin.node, steps) /\ Reached(r.inv.pin.node, steps) = m
    BY <2>2, <2>3, <2>4, LeadsReplays
  <2>6. JoinProof(r, steps, m)
    BY <2>3, <2>5 DEF JoinProof, Serves
  <2> QED BY <2>1, <2>3, <2>4, <2>6
<1>3. GroupInv /\ TypesInv /\ RecordInv => RepliesAreUsable
  BY <1>1, <1>2 DEF RepliesAreUsable
<1> QED BY <1>3, HistoryInvariant, PTL

\* The first step after an epoch of a peer's branch that the peer has a record
\* of, as it serves it.
LEMMA NextStepServed ==
  ASSUME Branches, NEW o, HoldsCommits(o), KeepsRecords(o), NEW endpoint, NEW n \in tree[o.tip].anc,
         membership_update_for(o, endpoint, tree[n].epoch) # <<>>
  PROVE  LET step == membership_update_for(o, endpoint, tree[n].epoch)[1]
         IN  /\ Verified(step) /\ step.node \in tree[o.tip].anc
             /\ tree[step.node].parent = n
<1>1. PICK e \in Nat : e = tree[n].epoch
  BY DEF Branches, HoldsCommits
<1>2. /\ o.tip \in Nodes /\ HistoryKept(o) /\ AdmissionsKept(o) /\ IsSeq(o.admissions)
  BY DEF HoldsCommits, KeepsRecords
<1>3. PICK A \in SUBSET Nodes, T \in Nat :
        /\ A = tree[o.tip].anc /\ T = tree[o.tip].epoch
        /\ \A a \in A : tree[a].epoch \in Nat /\ tree[a].epoch <= T
  <2>1. /\ tree[o.tip].anc \in SUBSET Nodes /\ tree[o.tip].epoch \in Nat
        /\ \A a \in tree[o.tip].anc : a \in Nodes /\ tree[a].epoch <= tree[o.tip].epoch
    BY <1>2 DEF Branches
  <2>2. \A a \in Nodes : tree[a].epoch \in Nat
    BY DEF Branches
  <2> QED BY <2>1, <2>2
<1>4. ASSUME NEW step, Verified(step), step.node \in A, tree[step.node].epoch = e + 1
      PROVE  tree[step.node].parent = n
  <2>1. PICK m \in A : m = step.node
    BY <1>4
  <2>2. PICK q : q = tree[m].parent
    OBVIOUS
  <2>3. q \in tree[m].anc /\ tree[m].epoch = tree[q].epoch + 1 /\ tree[m].anc \subseteq A
    BY <1>2, <1>3, <1>4, <2>1, <2>2 DEF Branches, Verified
  <2>4. q \in A /\ tree[q].epoch \in Nat
    BY <1>3, <2>3
  <2>5. tree[q].epoch = e
    BY <1>4, <2>1, <2>3, <2>4, SMTT(30)
  <2>6. q = n
    BY <1>1, <1>2, <1>3, <2>4, <2>5, SMTT(30) DEF Branches
  <2> QED BY <2>1, <2>2, <2>6
<1>5. PICK next : next = HistoryStep(o, e)
  OBVIOUS
<1>6. PICK later : later = admission_update_after(o, e)
  OBVIOUS
<1>7. PICK served : served = membership_update_for(o, endpoint, e)
  OBVIOUS
<1>8. served = next \/ (next = <<>> /\ served = later) \/ served = <<>>
  BY <1>5, <1>6, <1>7 DEF membership_update_for
<1>9. ASSUME o.history # NoHistory
      PROVE  LET S == tree[o.history.start.node].epoch
                 L == Len(o.history.steps)
             IN  /\ S \in Nat /\ L \in Nat
                 /\ DOMAIN o.history.steps = 1..L /\ T = S + L
                 /\ \A i \in 1..L : /\ o.history.steps[i].node \in A
                                     /\ tree[o.history.steps[i].node].epoch = S + i
                                     /\ Verified(o.history.steps[i])
  <2>1. PICK start, steps : start = o.history.start.node /\ steps = o.history.steps
    OBVIOUS
  <2>2. Leads(start, steps, o.tip)
    BY <1>2, <1>9, <2>1 DEF HistoryKept
  <2>3. Len(steps) \in Nat /\ DOMAIN steps = 1..Len(steps)
    BY <2>2, SMTT(30) DEF Leads, IsSeq
  <2>4. start \in A /\ T = tree[start].epoch + Len(steps)
    BY <1>3, <2>2 DEF Leads
  <2>5. \A i \in 1..Len(steps) : /\ steps[i].node \in A /\ tree[steps[i].node].epoch = tree[start].epoch + i
                                 /\ Verified(steps[i])
    BY <1>3, <2>2, <2>3 DEF Leads
  <2> QED BY <1>3, <2>1, <2>3, <2>4, <2>5
<1>10. ASSUME next # <<>> PROVE Verified(next[1]) /\ next[1].node \in A /\ tree[next[1].node].epoch = e + 1
  <2>1. PICK at : at = e + 1 - tree[o.history.start.node].epoch
    OBVIOUS
  <2>2. o.history # NoHistory /\ at \in DOMAIN o.history.steps /\ next = <<o.history.steps[at]>>
    BY <1>5, <1>10, <2>1 DEF HistoryStep, Epoch
  <2>3. PICK S \in Nat, L \in Nat :
          /\ S = tree[o.history.start.node].epoch /\ L = Len(o.history.steps)
          /\ DOMAIN o.history.steps = 1..L /\ T = S + L
          /\ \A i \in 1..L : /\ o.history.steps[i].node \in A
                              /\ tree[o.history.steps[i].node].epoch = S + i
                              /\ Verified(o.history.steps[i])
    BY <1>9, <2>2
  <2>4. PICK step : step = o.history.steps[at] /\ next[1] = step
    BY <2>2
  <2>5. at = e + 1 - S /\ at \in 1..L
    BY <2>1, <2>2, <2>3
  <2>6. S + at = e + 1
    BY <2>5, SMTT(30)
  <2> QED BY <2>3, <2>4, <2>5, <2>6
<1>11. ASSUME next = <<>>, later # <<>>
       PROVE  Verified(later[1]) /\ later[1].node \in A /\ tree[later[1].node].epoch = e + 1
  <2>1. PICK places : places = {i \in DOMAIN o.admissions : Epoch(o.admissions[i].node) = e + 1}
    OBVIOUS
  <2>2. PICK entries : entries = EntriesAt(o.admissions, places)
    OBVIOUS
  <2>3. /\ entries # <<>>
        /\ later = <<Step(Adds([i \in DOMAIN entries |-> entries[i].auth]), entries[1].node)>>
    BY <1>6, <1>11, <2>1, <2>2 DEF admission_update_after
  <2>4. places # {}
    <3>1. SUFFICES ASSUME places = {} PROVE FALSE
      OBVIOUS
    <3>2. Cardinality(places) = 0
      BY <3>1, FS_EmptySet
    <3>3. entries = <<>>
      BY <2>2, <3>2, SMTT(30) DEF EntriesAt
    <3> QED BY <2>3, <3>3
  <2>5. PICK i \in places : TRUE
    BY <2>4
  <2>6. PICK a : a = o.admissions[i]
    OBVIOUS
  <2>7. i \in DOMAIN o.admissions /\ tree[a.node].epoch = e + 1 /\ a.node \in A
    BY <1>2, <1>3, <2>1, <2>5, <2>6 DEF Epoch, AdmissionsKept
  <2>8. ~InHistory(o, a.node)
    <3>1. SUFFICES ASSUME o.history # NoHistory, tree[o.history.start.node].epoch < tree[a.node].epoch
          PROVE  FALSE
      BY DEF InHistory
    <3>2. PICK S \in Nat, L \in Nat :
            S = tree[o.history.start.node].epoch /\ DOMAIN o.history.steps = 1..L /\ T = S + L
      BY <1>9, <3>1
    <3>3. S < e + 1 /\ e + 1 <= T
      BY <1>3, <2>7, <3>1, <3>2
    <3>4. e + 1 - S \in 1..L
      <4>1. T = S + L
        BY <3>2
      <4> QED BY <3>3, <4>1, SMTT(30)
    <3>5. PICK at : at = e + 1 - S
      OBVIOUS
    <3>6. at = e + 1 - Epoch(o.history.start.node) /\ at \in DOMAIN o.history.steps
      BY <3>2, <3>4, <3>5 DEF Epoch
    <3>7. HistoryStep(o, e) = <<o.history.steps[at]>>
      BY <3>1, <3>6 DEF HistoryStep
    <3>8. PICK x : x = o.history.steps[at]
      OBVIOUS
    <3>9. next = <<x>> /\ <<x>> # <<>>
      BY <1>5, <3>7, <3>8
    <3> QED BY <1>11, <3>9
  <2>9. /\ Verified(AdmissionStep(a))
        /\ \A j \in DOMAIN o.admissions : tree[o.admissions[j].node].epoch = tree[a.node].epoch => j = i
    BY <1>2, <2>6, <2>7, <2>8 DEF AdmissionsKept
  <2>10. places = {i}
    BY <2>1, <2>5, <2>7, <2>9 DEF Epoch
  <2>11. i \in Nat /\ Cardinality(places) = 1 /\ {j \in places : j <= i} = places
    <3>1. i \in Nat
      BY <1>2, <2>7, SMTT(30) DEF IsSeq
    <3>2. Cardinality({i}) = 1
      BY FS_Singleton
    <3> QED BY <2>10, <3>1, <3>2, SMTT(30)
  <2>12. (CHOOSE x \in places : Cardinality({j \in places : j <= x}) = 1) = i
    BY <2>10, <2>11
  <2>13. DOMAIN entries = 1..1 /\ entries[1] = a
    <3>1. entries = [k \in 1..1 |->
                       o.admissions[CHOOSE x \in places : Cardinality({j \in places : j <= x}) = k]]
      BY <2>2, <2>11 DEF EntriesAt
    <3>2. DOMAIN entries = 1..1
      BY <3>1
    <3>3. entries[1] = o.admissions[CHOOSE x \in places : Cardinality({j \in places : j <= x}) = 1]
      <4>1. 1 \in 1..1
        BY SMTT(30)
      <4> QED BY <3>1, <4>1
    <3> QED BY <2>6, <2>12, <3>2, <3>3
  <2>14. [k \in DOMAIN entries |-> entries[k].auth] = <<a.auth>>
    BY <2>13, SMTT(30)
  <2>15. later[1] = AdmissionStep(a)
    BY <2>3, <2>13, <2>14 DEF AdmissionStep
  <2>16. AdmissionStep(a).node = a.node
    BY DEF AdmissionStep, Step
  <2> QED BY <2>7, <2>9, <2>15, <2>16
<1>12. served # <<>>
  BY <1>1, <1>7
<1>13. Verified(served[1]) /\ served[1].node \in A /\ tree[served[1].node].epoch = e + 1
  BY <1>8, <1>10, <1>11, <1>12
<1>14. PICK step : step = served[1]
  OBVIOUS
<1>15. Verified(step) /\ step.node \in A /\ tree[step.node].parent = n
  BY <1>4, <1>13, <1>14
<1> QED BY <1>1, <1>3, <1>7, <1>14, <1>15

\* Two commits of one branch that both brought in a control are the same one.
LEMMA OneRegistration ==
  ASSUME GroupInv, Branches, NEW tip \in Nodes, NEW m \in tree[tip].anc, NEW n \in tree[tip].anc,
         tree[m].epoch # 0, tree[n].epoch # 0, NEW key,
         key \in DOMAIN tree[m].ext.controls, key \notin DOMAIN tree[tree[m].parent].ext.controls,
         key \in DOMAIN tree[n].ext.controls, key \notin DOMAIN tree[tree[n].parent].ext.controls
  PROVE  m = n
<1>1. ASSUME NEW x \in tree[tip].anc, NEW y \in tree[tip].anc, tree[y].epoch # 0,
             tree[x].epoch < tree[y].epoch,
             key \in DOMAIN tree[x].ext.controls, key \notin DOMAIN tree[tree[y].parent].ext.controls
      PROVE  FALSE
  <2>1. x \in Nodes /\ y \in Nodes
    BY DEF Branches
  <2>2. PICK q \in Nodes : q = tree[y].parent /\ q \in tree[tip].anc /\ tree[y].epoch = tree[q].epoch + 1
    BY <1>1, <2>1, SMTT(30) DEF Branches
  <2>3. PICK ex \in Nat, eq \in Nat : ex = tree[x].epoch /\ eq = tree[q].epoch
    BY <2>1 DEF Branches
  <2>4. ex <= eq
    BY <1>1, <2>2, <2>3, SMTT(30)
  <2>5. x \in tree[q].anc
    BY <2>2, <2>3, <2>4, SMTT(30) DEF Branches
  <2>6. Tightens(tree[x].ext, tree[q].ext)
    BY <2>2, <2>5 DEF GroupInv, BranchesTighten
  <2> QED BY <1>1, <2>2, <2>6 DEF Tightens
<1>2. PICK em \in Nat, en \in Nat : em = tree[m].epoch /\ en = tree[n].epoch
  BY DEF Branches
<1>3. ~(em < en) /\ ~(en < em)
  BY <1>1, <1>2
<1>4. em = en
  BY <1>2, <1>3, SMTT(30)
<1> QED BY <1>2, <1>4 DEF Branches

\* The groups fit the wire, and the invitations handed out the table of retained
\* checkpoints.
GroupsFit ==
  (\A n \in Nodes : FitsWire(Group(n))) /\ Cardinality(invitations) <= MaxCheckpoints

\* A member on a peer's branch accepts what that peer serves it.
LEMMA ServedIsAccepted ==
  ASSUME GroupInv, TypesInv, RecordInv, OneMemberPerDevice, GroupsFit,
         NEW d \in Devices, IsOwner(d), NEW peer \in Devices, IsOwner(peer),
         owner[d].tip \in tree[owner[peer].tip].anc,
         NEW step, Verified(step), step.node \in tree[owner[peer].tip].anc,
         tree[step.node].parent = owner[d].tip
  PROVE  Accepts(owner[d], owner[peer], step)
<1> USE PolicyAssumption, GroupAssumption
<1>1. PICK o, s : o = owner[d] /\ s = owner[peer]
  OBVIOUS
<1>2. /\ HoldsCommits(o) /\ HoldsCommits(s) /\ CheckpointsKept(s) /\ Branches
      /\ o.tip \in Nodes /\ s.tip \in Nodes
  BY <1>1 DEF GroupInv, OwnersHoldCommits, IsOwner, RecordInv, KeepsRecords, HoldsCommits
<1>3. PICK m : m = step.node
  OBVIOUS
<1>4. PICK auth : auth = step.auth
  OBVIOUS
<1>5. m \in Nodes /\ tree[m].epoch # 0 /\ Applies(o.tip, step)
  BY <1>1, <1>3 DEF Verified
<1>6. apply_transition(Group(o.tip), o.tip, tree[m], auth)
  BY <1>3, <1>4, <1>5 DEF Applies
<1>7. \A n \in Nodes : from_trusted_checkpoint(Group(n))
  BY DEF GroupsFit, OneMemberPerDevice, from_trusted_checkpoint
<1>8. from_workspace(o) /\ from_trusted_checkpoint(Group(o.tip)) /\ can_append(o)
  BY <1>2, <1>7 DEF OneMemberPerDevice, from_workspace, can_append
<1>9. PICK saved : saved = prune_invitation_checkpoints(o.checkpoints, tree[m].ext)
  OBVIOUS
<1>10. ASSUME NEW inv \in retained_invitation_checkpoint(s, auth)
       PROVE  can_retain(saved, inv, m, Group(m))
  <2>1. /\ inv \in s.checkpoints /\ auth.kind = "Management" /\ auth.action.op \in Creations
        /\ inv.key = auth.action.key
    BY <1>10 DEF retained_invitation_checkpoint
  <2>2. PICK action : action = auth.action
    OBVIOUS
  <2>3. verify_management(Group(o.tip), o.tip, tree[m], action)
    BY <1>6, <2>1, <2>2 DEF apply_transition
  <2>4. PICK e : e = tree[o.tip].ext /\ Group(o.tip).ext = e
    BY DEF Group
  <2>5. action.op \notin MemberActions
    BY <2>1, <2>2 DEF Creations, MemberActions
  <2>6. Changeable(e, action) /\ tree[m].ext = changed(e, action)
    BY <2>3, <2>4, <2>5 DEF verify_management
  <2>7. inv.key \notin DOMAIN e.controls
    BY <2>1, <2>2, <2>6 DEF Changeable, Creations
  <2>8. inv.key \in DOMAIN tree[m].ext.controls
    <3>1. e = [admins |-> e.admins, legacy |-> e.legacy, controls |-> e.controls]
      BY <1>2, <2>4 DEF GroupInv, BranchesTighten, DecisionsBelong
    <3>2. PICK controls : controls = changed_controls(e, action)
      OBVIOUS
    <3>3. PICK legacy : legacy = (e.legacy /\ ~(action.op = "DisableInvitation" /\ action.key = OlderInvitations))
      OBVIOUS
    <3>4. changed(e, action) = [e EXCEPT !.controls = controls, !.legacy = legacy]
      BY <3>2, <3>3 DEF changed
    <3>5. changed(e, action).controls = controls
      BY <3>1, <3>4
    <3>6. PICK c : c = created(action)
      OBVIOUS
    <3>7. controls = Put(e.controls, action.key, c)
      BY <2>1, <2>2, <3>2, <3>6 DEF changed_controls, Creations
    <3>8. action.key \in DOMAIN controls
      BY <3>7 DEF Put
    <3> QED BY <2>1, <2>2, <2>6, <3>5, <3>8
  <2>9. PICK n : n = inv.pin.node
    OBVIOUS
  <2>10. /\ n \in tree[s.tip].anc /\ tree[n].epoch # 0
         /\ inv.key \in DOMAIN tree[n].ext.controls
         /\ inv.key \notin DOMAIN tree[tree[n].parent].ext.controls
         /\ inv.pin.signer \in tree[n].ext.admins
    BY <1>2, <2>1, <2>9 DEF CheckpointsKept, Serves, RegisteredAt
  <2>11. inv.pin.node = m
    <3>1. m \in tree[s.tip].anc /\ inv.key \notin DOMAIN tree[tree[m].parent].ext.controls
      BY <1>1, <1>3, <2>4, <2>7
    <3> QED BY <1>2, <1>5, <2>8, <2>9, <2>10, <3>1, OneRegistration
  <2>12. inv.pin.signer \in Group(m).ext.admins
    BY <2>9, <2>10, <2>11 DEF Group
  <2>13. inv \in saved \/ Cardinality(saved) < MaxCheckpoints
    <3>1. SUFFICES ASSUME inv \notin saved PROVE Cardinality(saved) < MaxCheckpoints
      OBVIOUS
    <3>2. /\ o.checkpoints \subseteq invitations /\ inv \in invitations /\ IsFiniteSet(invitations)
      BY <1>1, <2>1 DEF TypesInv, IsOwner
    <3>3. PICK others : others = invitations \ {inv}
      OBVIOUS
    <3>4. saved \subseteq others
      BY <1>9, <3>1, <3>2, <3>3 DEF prune_invitation_checkpoints
    <3>5. IsFiniteSet(others) /\ Cardinality(others) = Cardinality(invitations) - 1
      BY <3>2, <3>3, FS_RemoveElement
    <3>6. Cardinality(saved) <= Cardinality(others)
      BY <3>4, <3>5, FS_Subset
    <3>7. Cardinality(saved) \in Nat /\ Cardinality(invitations) \in Nat
      BY <3>2, <3>4, <3>5, FS_Subset, FS_CardinalityType
    <3> QED BY <3>5, <3>6, <3>7, SMTT(30) DEF GroupsFit
  <2> QED BY <1>5, <1>7, <2>11, <2>12, <2>13 DEF can_retain
<1>11. Accepts(o, s, step)
  BY <1>3, <1>4, <1>5, <1>8, <1>9, <1>10 DEF Accepts
<1> QED BY <1>1, <1>11

\* While no group has a device twice and groups and invitations fit their
\* bounds, which is what the findings on large workspaces and on one device's
\* two requests are about, no commit of any kind, order or size leaves a member
\* of its branch behind (prepare_management_update,
\* prepare_admission_batch_update).
THEOREM MembersAlwaysAcceptTheBranch ==
  Spec /\ []OneMemberPerDevice /\ []GroupsFit => []MembersAcceptTheBranch
<1>1. GroupInv /\ TypesInv /\ RecordInv /\ OneMemberPerDevice /\ GroupsFit => MembersAcceptTheBranch
  <2> SUFFICES ASSUME GroupInv, TypesInv, RecordInv, OneMemberPerDevice, GroupsFit,
                      NEW d \in Devices, NEW peer \in Devices, IsOwner(d), IsOwner(peer),
                      owner[d].tip \in tree[owner[peer].tip].anc,
                      membership_update_for(owner[peer], d, Epoch(owner[d].tip)) # <<>>
      PROVE  Accepts(owner[d], owner[peer], membership_update_for(owner[peer], d, Epoch(owner[d].tip))[1])
    BY DEF MembersAcceptTheBranch
  <2>1. PICK s, n : s = owner[peer] /\ n = owner[d].tip
    OBVIOUS
  <2>2. HoldsCommits(s) /\ KeepsRecords(s) /\ Branches
    BY <2>1 DEF GroupInv, OwnersHoldCommits, IsOwner, RecordInv
  <2>3. n \in tree[s.tip].anc /\ membership_update_for(s, d, tree[n].epoch) # <<>>
    BY <2>1 DEF Epoch
  <2>4. PICK step : step = membership_update_for(s, d, tree[n].epoch)[1]
    OBVIOUS
  <2>5. Verified(step) /\ step.node \in tree[s.tip].anc /\ tree[step.node].parent = n
    BY <2>2, <2>3, <2>4, NextStepServed
  <2>6. Accepts(owner[d], owner[peer], step)
    BY <2>1, <2>5, ServedIsAccepted
  <2> QED BY <2>1, <2>4, <2>6 DEF Epoch
<1> QED BY <1>1, HistoryInvariant, PTL

=============================================================================
