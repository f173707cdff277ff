------------------------- MODULE InterestSyncProofs -------------------------
(***************************************************************************)
(* For all peers, topics, policies and bounds: what reaches an application *)
(* is allowed by the policy in force there, and what a session replays     *)
(* never brings back an interest its application gave up.  The first rests *)
(* on every table holding what the policy of its revision says, the second *)
(* on every update a session may still announce agreeing with the last     *)
(* choice, and on announcements going to others only.                      *)
(***************************************************************************)
EXTENDS InterestSync, ExtremumLemmas

\* Leaves are tried with Zenon; those that need arithmetic cite SMT.
USE ZenonT(30)

UpdateSet == [revision: Nat, topic: Topics, subscribed: BOOLEAN]
ChoiceSet == [Topics -> {"none", "subscribed", "withdrawn"}]

\* A table of a revision holds what the policy of that revision says.
TableOK(t, policy) ==
  /\ t = [revision |-> t.revision, endpoints |-> t.endpoints, publish |-> t.publish,
          subscribe |-> t.subscribe, subscriptions |-> t.subscriptions]
  /\ t.revision \in 0 .. MaxRevision /\ t.endpoints \subseteq Peers
  /\ t.subscribe \subseteq Peers \X Topics /\ t.subscriptions \subseteq t.subscribe
  /\ t.revision # 0 => t.publish = policy[t.revision].publish
                       /\ t.subscribe = policy[t.revision].subscribe

\* The updates of a session, and which of them may still be announced.
QueueOK(q) ==
  /\ q \in Seq(UpdateSet) /\ Len(q) <= MaxInterests
  /\ \A i, j \in DOMAIN q : q[i].topic = q[j].topic => i = j
DesiredOK(d) == d \subseteq UpdateSet /\ IsFiniteSet(d) /\ Cardinality(d) <= MaxInterests
SessionOK(s) ==
  /\ s = [pending |-> s.pending, waiting |-> s.waiting, failed |-> s.failed, queued |-> s.queued,
          desired |-> s.desired, repair |-> s.repair, retry |-> s.retry, notice |-> s.notice]
  /\ s.pending = None \/ s.pending \in UpdateSet
  /\ s.waiting # {} => s.pending # None
  /\ QueueOK(s.queued) /\ DesiredOK(s.desired) /\ s.repair \subseteq UpdateSet
Agrees(u, c) == u.subscribed => c[u.topic] # "none"
SessionAgrees(s, c) ==
  /\ \A u \in s.desired \cup s.repair : Agrees(u, c)
  /\ \A i \in DOMAIN s.queued : Agrees(s.queued[i], c)

\* A node with its table, its session and the choices of its application.
NodeOK(n, t, s, c, policy) ==
  /\ TableOK(t, policy) /\ SessionOK(s) /\ SessionAgrees(s, c) /\ c \in ChoiceSet
  /\ s.waiting \subseteq Peers \ {n}
  /\ \A topic \in Topics : <<n, topic>> \in t.subscriptions => c[topic] # "none"

FrameOK(f) ==
  /\ f.from \in Peers /\ f.to \in Peers /\ f.update.topic \in Topics
  /\ f.kind = "interest" => f.from # f.to /\ f.update \in UpdateSet
DeliveryOK(d, policy) ==
  /\ <<d.from, d.topic>> \in policy[d.revision].publish
  /\ <<d.to, d.topic>> \in policy[d.revision].subscribe

SyncInv ==
  /\ \E c \in Cases : Policy = c.policy
  /\ table = [p \in Peers |-> table[p]] /\ updates = [p \in Peers |-> updates[p]]
  /\ chosen = [p \in Peers |-> chosen[p]]
  /\ \A n \in Peers : NodeOK(n, table[n], updates[n], chosen[n], Policy)
  /\ \A f \in frames : FrameOK(f)
  /\ \A d \in delivered : DeliveryOK(d, Policy)

-----------------------------------------------------------------------------
\* Without any update a session is fine, whatever the choices.
LEMMA FreshSession ==
  SessionOK(NoUpdates) /\ NoUpdates.waiting = {} /\ \A c : SessionAgrees(NoUpdates, c)
<1>1. /\ NoUpdates.pending = None /\ NoUpdates.waiting = {} /\ NoUpdates.queued = <<>>
      /\ NoUpdates.desired = {} /\ NoUpdates.repair = {}
      /\ NoUpdates = [pending |-> NoUpdates.pending, waiting |-> NoUpdates.waiting,
                      failed |-> NoUpdates.failed, queued |-> NoUpdates.queued,
                      desired |-> NoUpdates.desired, repair |-> NoUpdates.repair,
                      retry |-> NoUpdates.retry, notice |-> NoUpdates.notice]
  BY DEF NoUpdates
<1>2. IsFiniteSet({}) /\ Cardinality({}) = 0 /\ 0 <= MaxInterests
  BY FS_EmptySet, InterestAssumption, SMTT(30)
<1>3. <<>> \in Seq(UpdateSet) /\ Len(<<>>) <= MaxInterests /\ DOMAIN << >> = {}
  BY InterestAssumption, SMTT(30)
<1>4. SessionOK(NoUpdates)
  BY <1>1, <1>2, <1>3 DEF SessionOK, QueueOK, DesiredOK
<1> QED BY <1>1, <1>3, <1>4 DEF SessionAgrees

\* In the beginning nobody has a policy, a session or a choice.
LEMMA InitSync == Init => SyncInv
<1> SUFFICES ASSUME Init PROVE SyncInv
  OBVIOUS
<1>1. TableOK(NoTable, Policy)
  BY InterestAssumption, SMTT(30) DEF TableOK, NoTable
<1>2. \A n : \A topic : <<n, topic>> \notin NoTable.subscriptions
  BY DEF NoTable
<1>3. ASSUME NEW n \in Peers PROVE NodeOK(n, table[n], updates[n], chosen[n], Policy)
  <2>1. table[n] = NoTable /\ updates[n] = NoUpdates /\ chosen[n] = [t \in Topics |-> "none"]
    BY DEF Init
  <2>2. chosen[n] \in ChoiceSet
    BY <2>1 DEF ChoiceSet
  <2> QED BY <1>1, <1>2, <2>1, <2>2, FreshSession DEF NodeOK
<1> QED BY <1>3 DEF Init, SyncInv

\* What a policy lists is about peers and topics.
LEMMA PolicyShape ==
  ASSUME SyncInv, NEW r \in Revisions
  PROVE  /\ Policy[r].endpoints \subseteq Peers
         /\ Policy[r].publish \subseteq Peers \X Topics /\ Policy[r].subscribe \subseteq Peers \X Topics
<1>1. PICK c \in Cases : Policy = c.policy
  BY DEF SyncInv
<1>2. /\ c.policy[r].endpoints \subseteq Peers
      /\ c.policy[r].publish \cup c.policy[r].subscribe \subseteq c.policy[r].endpoints \X Topics
  BY InterestAssumption
<1> QED BY <1>1, <1>2

\* What applying an update changes in a table.
LEMMA AppliedTable ==
  ASSUME NEW t, NEW policy, TableOK(t, policy), NEW n \in Peers, NEW u \in UpdateSet,
         u.subscribed => <<n, u.topic>> \in t.subscribe
  PROVE  /\ TableOK(Applied(t, n, u), policy)
         /\ \A x : x \in Applied(t, n, u).subscriptions =>
              x \in t.subscriptions \/ (u.subscribed /\ x = <<n, u.topic>>)
         /\ ~ u.subscribed => <<n, u.topic>> \notin Applied(t, n, u).subscriptions
         /\ Applied(t, n, u).revision = t.revision
<1> DEFINE pair == <<n, u.topic>>
<1>1. ASSUME NEW subs, NEW x, x = [t EXCEPT !.subscriptions = subs]
      PROVE  /\ x.subscriptions = subs /\ x.revision = t.revision /\ x.endpoints = t.endpoints
             /\ x.publish = t.publish /\ x.subscribe = t.subscribe
             /\ x = [revision |-> x.revision, endpoints |-> x.endpoints, publish |-> x.publish,
                     subscribe |-> x.subscribe, subscriptions |-> x.subscriptions]
  BY <1>1 DEF TableOK
<1> HIDE DEF pair
<1>2. CASE u.subscribed
  <2>1. Applied(t, n, u) = subscribe(t, n, u.topic)
    BY <1>2 DEF Applied
  <2>2. pair \in t.subscribe
    BY <1>2 DEF pair
  <2>3. PICK x : x = [t EXCEPT !.subscriptions = t.subscriptions \cup {pair}]
    OBVIOUS
  <2>4. Applied(t, n, u) = x
    BY <2>1, <2>3 DEF subscribe, pair
  <2>5. x.subscriptions = t.subscriptions \cup {pair} /\ x.revision = t.revision /\ x.endpoints = t.endpoints
        /\ x.publish = t.publish /\ x.subscribe = t.subscribe
        /\ x = [revision |-> x.revision, endpoints |-> x.endpoints, publish |-> x.publish,
                subscribe |-> x.subscribe, subscriptions |-> x.subscriptions]
    BY <1>1, <2>3, SMTT(30)
  <2>6. x.subscriptions \subseteq t.subscribe
    BY <2>2, <2>5 DEF TableOK
  <2>7. TableOK(x, policy)
    BY <2>5, <2>6 DEF TableOK
  <2> QED BY <1>2, <2>4, <2>5, <2>7, SMTT(30) DEF pair
<1>3. CASE ~ u.subscribed
  <2>1. Applied(t, n, u) = unsubscribe(t, n, u.topic)
    BY <1>3 DEF Applied
  <2>2. PICK x : x = [t EXCEPT !.subscriptions = t.subscriptions \ {pair}]
    OBVIOUS
  <2>3. Applied(t, n, u) = x
    BY <2>1, <2>2 DEF unsubscribe, pair
  <2>4. x.subscriptions = t.subscriptions \ {pair} /\ x.revision = t.revision /\ x.endpoints = t.endpoints
        /\ x.publish = t.publish /\ x.subscribe = t.subscribe
        /\ x = [revision |-> x.revision, endpoints |-> x.endpoints, publish |-> x.publish,
                subscribe |-> x.subscribe, subscriptions |-> x.subscriptions]
    BY <1>1, <2>2, SMTT(30)
  <2>5. x.subscriptions \subseteq t.subscribe
    BY <2>4 DEF TableOK
  <2>6. TableOK(x, policy)
    BY <2>4, <2>5 DEF TableOK
  <2> QED BY <1>3, <2>3, <2>4, <2>6 DEF pair
<1> QED BY <1>2, <1>3

-----------------------------------------------------------------------------
\* The queue without its first update.
LEMMA QueueTail ==
  ASSUME NEW q, QueueOK(q), q # <<>>
  PROVE  /\ QueueOK(Tail(q)) /\ Head(q) \in UpdateSet
         /\ \E i \in DOMAIN q : q[i] = Head(q)
         /\ \A i \in DOMAIN Tail(q) : \E j \in DOMAIN q : Tail(q)[i] = q[j]
<1>1. q \in Seq(UpdateSet) /\ Len(q) <= MaxInterests /\ MaxInterests \in Nat
      /\ \A i, j \in DOMAIN q : q[i].topic = q[j].topic => i = j
  BY InterestAssumption DEF QueueOK
<1>2. PICK r : r = Tail(q)
  OBVIOUS
<1>3. /\ r \in Seq(UpdateSet) /\ Len(r) <= Len(q) /\ Len(r) \in Nat /\ Len(q) \in Nat
      /\ Head(q) \in UpdateSet /\ 1 \in DOMAIN q /\ q[1] = Head(q)
      /\ \A i \in DOMAIN r : i + 1 \in DOMAIN q /\ r[i] = q[i + 1] /\ i \in Nat
  BY <1>1, <1>2, SMTT(30)
<1>4. \A i, j \in DOMAIN r : r[i].topic = r[j].topic => i = j
  <2> TAKE i, j \in DOMAIN r
  <2>1. /\ i + 1 \in DOMAIN q /\ r[i] = q[i + 1] /\ i \in Nat
        /\ j + 1 \in DOMAIN q /\ r[j] = q[j + 1] /\ j \in Nat
    BY <1>3
  <2>2. HAVE r[i].topic = r[j].topic
  <2>3. i + 1 = j + 1
    BY <1>1, <2>1, <2>2
  <2> QED BY <2>1, <2>3, SMTT(30)
<1>5. QueueOK(r)
  BY <1>1, <1>3, <1>4, SMTT(30) DEF QueueOK
<1> QED BY <1>2, <1>3, <1>5

\* An update in place of the one of its topic.
LEMMA QueueReplace ==
  ASSUME NEW q, QueueOK(q), NEW u \in UpdateSet, NEW r,
         r = [i \in DOMAIN q |-> IF q[i].topic = u.topic THEN u ELSE q[i]]
  PROVE  QueueOK(r) /\ \A i \in DOMAIN r : r[i] = u \/ (i \in DOMAIN q /\ r[i] = q[i] /\ q[i].topic # u.topic)
<1>1. q \in Seq(UpdateSet) /\ Len(q) <= MaxInterests
      /\ \A i, j \in DOMAIN q : q[i].topic = q[j].topic => i = j
  BY DEF QueueOK
<1>2. DOMAIN r = DOMAIN q /\ \A i \in DOMAIN q : r[i] = IF q[i].topic = u.topic THEN u ELSE q[i]
  OBVIOUS
<1>3. r \in Seq(UpdateSet) /\ Len(r) = Len(q)
  BY <1>1, <1>2, SMTT(30)
<1>4. \A i \in DOMAIN r : r[i].topic = q[i].topic
  BY <1>2
<1>5. QueueOK(r)
  BY <1>1, <1>2, <1>3, <1>4, SMTT(30) DEF QueueOK
<1> QED BY <1>2, <1>5

\* An update of a topic that is not queued, at the end.
LEMMA QueueAppend ==
  ASSUME NEW q, QueueOK(q), NEW u \in UpdateSet, Len(q) < MaxInterests,
         \A i \in DOMAIN q : q[i].topic # u.topic
  PROVE  /\ QueueOK(Append(q, u))
         /\ \A i \in DOMAIN Append(q, u) : Append(q, u)[i] = u \/ (i \in DOMAIN q /\ Append(q, u)[i] = q[i])
<1>1. q \in Seq(UpdateSet) /\ MaxInterests \in Nat
      /\ \A i, j \in DOMAIN q : q[i].topic = q[j].topic => i = j
  BY InterestAssumption DEF QueueOK
<1>2. PICK r : r = Append(q, u)
  OBVIOUS
<1>3. /\ r \in Seq(UpdateSet) /\ Len(r) <= MaxInterests
      /\ \A i \in DOMAIN r : i = Len(q) + 1 \/ i \in DOMAIN q
      /\ r[Len(q) + 1] = u /\ \A i \in DOMAIN q : r[i] = q[i]
  BY <1>1, <1>2, SMTT(30)
<1>4. \A i, j \in DOMAIN r : r[i].topic = r[j].topic => i = j
  BY <1>1, <1>3
<1>5. QueueOK(r)
  BY <1>3, <1>4 DEF QueueOK
<1> QED BY <1>2, <1>3, <1>5

\* Fewer updates are desired.
LEMMA DesiredLess ==
  ASSUME NEW d, DesiredOK(d), NEW e, e \subseteq d
  PROVE  DesiredOK(e)
<1>1. IsFiniteSet(e) /\ Cardinality(e) <= Cardinality(d) /\ IsFiniteSet(d)
  BY FS_Subset DEF DesiredOK
<1>2. Cardinality(e) \in Nat /\ Cardinality(d) \in Nat
  BY <1>1, FS_CardinalityType
<1>3. MaxInterests \in Nat /\ Cardinality(d) <= MaxInterests
  BY InterestAssumption DEF DesiredOK
<1>4. Cardinality(e) <= MaxInterests
  BY <1>1, <1>2, <1>3, SMTT(30)
<1> QED BY <1>1, <1>4 DEF DesiredOK

\* One more is.
LEMMA DesiredMore ==
  ASSUME NEW d, DesiredOK(d), NEW u \in UpdateSet, NEW e, e = Without(d, u.topic) \cup {u},
         Cardinality(e) <= MaxInterests
  PROVE  DesiredOK(e)
<1>1. IsFiniteSet(Without(d, u.topic)) /\ Without(d, u.topic) \subseteq d
  BY FS_Subset DEF DesiredOK, Without
<1>2. IsFiniteSet(e)
  BY <1>1, FS_AddElement
<1> QED BY <1>1, <1>2 DEF DesiredOK

\* Of finitely many places one is the k-th.
LEMMA PlaceOfRank ==
  ASSUME NEW n \in Nat, NEW at, at \subseteq 0 .. n, IsFiniteSet(at), NEW k \in 1 .. Cardinality(at)
  PROVE  \E i \in at : Cardinality({j \in at : j <= i}) = k
<1> DEFINE Upto(i) == {j \in at : j <= i}
           Late == {i \in at : Cardinality(Upto(i)) >= k}
<1>1. Cardinality(at) \in Nat /\ k \in Nat /\ k >= 1 /\ k <= Cardinality(at) /\ at \subseteq Nat
  BY FS_CardinalityType, SMTT(30)
<1>2. \A i \in at : IsFiniteSet(Upto(i)) /\ Cardinality(Upto(i)) \in Nat
  BY FS_Subset, FS_CardinalityType
<1>3. Late # {}
  <2>1. at # {}
    BY <1>1, FS_EmptySet, SMTT(30)
  <2>2. PICK m \in at : \A y \in at : y <= m
    BY <2>1, MaxOfNaturals
  <2>3. Upto(m) = at
    BY <2>2
  <2>4. Cardinality(Upto(m)) >= k
    BY <1>1, <2>3
  <2> QED BY <2>4
<1>4. PICK i \in Late : \A y \in Late : i <= y
  <2>1. Late \subseteq Nat
    BY <1>1
  <2> HIDE DEF Late
  <2> QED BY <1>3, <2>1, MinOfNaturals
<1>5. i \in at /\ i \in Nat /\ Cardinality(Upto(i)) >= k /\ Cardinality(Upto(i)) \in Nat
  BY <1>1, <1>2
<1>6. SUFFICES ASSUME Cardinality(Upto(i)) # k PROVE FALSE
  BY <1>5
<1>7. PICK before : before = Upto(i) \ {i}
  OBVIOUS
<1>8. i \in Upto(i)
  BY <1>5, SMTT(30)
<1>9. IsFiniteSet(before) /\ Cardinality(before) = Cardinality(Upto(i)) - 1
  BY <1>2, <1>5, <1>7, <1>8, FS_RemoveElement
<1>10. Cardinality(before) >= k /\ Cardinality(before) \in Nat
  BY <1>1, <1>5, <1>6, <1>9, SMTT(30)
<1>11. before # {} /\ before \subseteq 0 .. n
  <2>1. before \subseteq 0 .. n
    BY <1>7
  <2>2. Cardinality(before) # 0
    BY <1>1, <1>10, SMTT(30)
  <2> QED BY <2>1, <2>2, FS_EmptySet
<1>12. PICK m \in before : \A y \in before : y <= m
  BY <1>11, MaxOfNaturals
<1>13. m \in at /\ m \in Nat /\ m < i
  BY <1>1, <1>5, <1>7, <1>12, SMTT(30)
<1>14. \A j \in at : j <= m <=> j \in before
  <2>1. \A j \in at : j \in Nat
    BY <1>1
  <2> QED BY <1>5, <1>7, <1>12, <1>13, <2>1, SMTT(30)
<1>15. Upto(m) = before
  <2>1. before \subseteq at
    BY <1>7
  <2> QED BY <1>14, <2>1
<1>16. m \in Late
  BY <1>10, <1>13, <1>15
<1> HIDE DEF Late, Upto
<1> QED BY <1>4, <1>5, <1>13, <1>16, SMTT(30)

\* The updates of one revision, in their order.
LEMMA QueueRetained ==
  ASSUME NEW q, QueueOK(q), NEW revision
  PROVE  /\ QueueOK(Retained(q, revision))
         /\ \A k \in DOMAIN Retained(q, revision) : \E i \in DOMAIN q : Retained(q, revision)[k] = q[i]
<1> DEFINE at == {i \in DOMAIN q : q[i].revision = revision}
           nth(k) == CHOOSE i \in at : Cardinality({j \in at : j <= i}) = k
<1>1. q \in Seq(UpdateSet) /\ Len(q) <= MaxInterests /\ MaxInterests \in Nat /\ Len(q) \in Nat
      /\ DOMAIN q = 1 .. Len(q)
      /\ \A i, j \in DOMAIN q : q[i].topic = q[j].topic => i = j
  BY InterestAssumption, SMTT(30) DEF QueueOK
<1>2. IsFiniteSet(DOMAIN q) /\ Cardinality(DOMAIN q) = Len(q)
  <2>1. PICK m \in Nat : m = Len(q)
    BY <1>1
  <2>2. IsFiniteSet(1 .. m) /\ Cardinality(1 .. m) = m
    BY FS_Interval, SMTT(30)
  <2> QED BY <1>1, <2>1, <2>2
<1>3. IsFiniteSet(at) /\ Cardinality(at) <= Len(q) /\ Cardinality(at) \in Nat /\ at \subseteq DOMAIN q
  <2>1. at \subseteq DOMAIN q
    OBVIOUS
  <2> HIDE DEF at
  <2> QED BY <1>2, <2>1, FS_Subset, FS_CardinalityType
<1>4. PICK r : r = Retained(q, revision)
  OBVIOUS
<1>5. r = [k \in 1 .. Cardinality(at) |-> q[nth(k)]]
  BY <1>4 DEF Retained
<1> HIDE DEF at
<1>6. \A k \in 1 .. Cardinality(at) : nth(k) \in at /\ Cardinality({j \in at : j <= nth(k)}) = k
  <2>1. at \subseteq 0 .. Len(q)
    BY <1>1, <1>3, SMTT(30)
  <2>2. \A k \in 1 .. Cardinality(at) : \E i \in at : Cardinality({j \in at : j <= i}) = k
    BY <1>1, <1>3, <2>1, PlaceOfRank
  <2> QED BY <2>2
<1> HIDE DEF nth
<1>7. \A k, l \in 1 .. Cardinality(at) : nth(k) = nth(l) => k = l
  BY <1>6
<1>8. \A k \in 1 .. Cardinality(at) : nth(k) \in DOMAIN q /\ q[nth(k)] \in UpdateSet
  <2>1. \A i \in DOMAIN q : q[i] \in UpdateSet
    BY <1>1, SMTT(30)
  <2> QED BY <1>3, <1>6, <2>1
<1>9. r \in Seq(UpdateSet) /\ DOMAIN r = 1 .. Cardinality(at) /\ Len(r) = Cardinality(at)
      /\ \A k \in DOMAIN r : r[k] = q[nth(k)]
  BY <1>3, <1>5, <1>8, SMTT(30)
<1>10. \A k, l \in DOMAIN r : r[k].topic = r[l].topic => k = l
  <2> SUFFICES ASSUME NEW k \in DOMAIN r, NEW l \in DOMAIN r, r[k].topic = r[l].topic PROVE k = l
    OBVIOUS
  <2>1. q[nth(k)].topic = q[nth(l)].topic /\ nth(k) \in DOMAIN q /\ nth(l) \in DOMAIN q
    BY <1>8, <1>9
  <2>2. nth(k) = nth(l)
    BY <1>1, <2>1
  <2> QED BY <1>7, <1>9, <2>2
<1>11. Len(r) <= MaxInterests
  BY <1>1, <1>3, <1>9, SMTT(30)
<1>12. QueueOK(r)
  BY <1>9, <1>10, <1>11 DEF QueueOK
<1>13. \A k \in DOMAIN r : \E i \in DOMAIN q : r[k] = q[i]
  BY <1>8, <1>9
<1> QED BY <1>4, <1>12, <1>13

-----------------------------------------------------------------------------
\* The steps of a session.  The flags are not part of any of this.
LEMMA FlagsOnly ==
  ASSUME NEW s, NEW c, SessionOK(s), SessionAgrees(s, c), NEW x, NEW z,
         z = [s EXCEPT !.retry = x] \/ z = [s EXCEPT !.notice = x]
  PROVE  SessionOK(z) /\ SessionAgrees(z, c) /\ z.waiting = s.waiting /\ z.pending = s.pending
<1>1. s = [pending |-> s.pending, waiting |-> s.waiting, failed |-> s.failed, queued |-> s.queued,
           desired |-> s.desired, repair |-> s.repair, retry |-> s.retry, notice |-> s.notice]
  BY DEF SessionOK
<1>2. /\ z.pending = s.pending /\ z.waiting = s.waiting /\ z.queued = s.queued
      /\ z.desired = s.desired /\ z.repair = s.repair
      /\ z = [pending |-> z.pending, waiting |-> z.waiting, failed |-> z.failed, queued |-> z.queued,
               desired |-> z.desired, repair |-> z.repair, retry |-> z.retry, notice |-> z.notice]
  BY <1>1
<1> QED BY <1>2 DEF SessionOK, SessionAgrees

\* repair: only what is desired is announced again.
LEMMA RepairOK ==
  ASSUME NEW s, NEW c, SessionOK(s), SessionAgrees(s, c), NEW z, z = repair(s)
  PROVE  SessionOK(z) /\ SessionAgrees(z, c) /\ z.waiting = s.waiting /\ z.pending = s.pending
<1>1. s = [pending |-> s.pending, waiting |-> s.waiting, failed |-> s.failed, queued |-> s.queued,
           desired |-> s.desired, repair |-> s.repair, retry |-> s.retry, notice |-> s.notice]
  BY DEF SessionOK
<1>2. PICK again : again = {d \in s.desired : \A i \in DOMAIN s.queued : s.queued[i].topic # d.topic}
  OBVIOUS
<1>3. z = [s EXCEPT !.repair = again]
  BY <1>2 DEF repair
<1>4. /\ z.pending = s.pending /\ z.waiting = s.waiting /\ z.queued = s.queued
      /\ z.desired = s.desired /\ z.repair = again
      /\ z = [pending |-> z.pending, waiting |-> z.waiting, failed |-> z.failed, queued |-> z.queued,
               desired |-> z.desired, repair |-> z.repair, retry |-> z.retry, notice |-> z.notice]
  BY <1>1, <1>3
<1>5. again \subseteq s.desired /\ s.desired \subseteq UpdateSet
  BY <1>2 DEF SessionOK, DesiredOK
<1> QED BY <1>4, <1>5 DEF SessionOK, SessionAgrees

\* poll, after an announcement: less is desired.
LEMMA AfterFinishOK ==
  ASSUME NEW s, NEW c, SessionOK(s), SessionAgrees(s, c), Finished(s), NEW z, z = AfterFinish(s)
  PROVE  SessionOK(z) /\ SessionAgrees(z, c) /\ z.waiting = {}
<1>1. s = [pending |-> s.pending, waiting |-> s.waiting, failed |-> s.failed, queued |-> s.queued,
           desired |-> s.desired, repair |-> s.repair, retry |-> s.retry, notice |-> s.notice]
  BY DEF SessionOK
<1>2. PICK withdrawn :
        withdrawn = {d \in s.desired : /\ d.topic = s.pending.topic /\ ~ d.subscribed
                                       /\ ~ s.pending.subscribed /\ d.revision = s.pending.revision}
  OBVIOUS
<1>3. PICK kept : kept = IF s.failed THEN s.desired ELSE s.desired \ withdrawn
  OBVIOUS
<1>4. z = [s EXCEPT !.pending = None, !.retry = @ \/ s.failed, !.desired = kept]
  BY <1>2, <1>3 DEF AfterFinish
<1>5. /\ z.pending = None /\ z.waiting = s.waiting /\ z.queued = s.queued
      /\ z.desired = kept /\ z.repair = s.repair
      /\ z = [pending |-> z.pending, waiting |-> z.waiting, failed |-> z.failed, queued |-> z.queued,
               desired |-> z.desired, repair |-> z.repair, retry |-> z.retry, notice |-> z.notice]
  BY <1>1, <1>4
<1>6. kept \subseteq s.desired
  BY <1>3
<1>7. DesiredOK(kept)
  BY <1>6, DesiredLess DEF SessionOK
<1>8. s.waiting = {}
  BY DEF Finished
<1>9. SessionOK(z)
  BY <1>5, <1>7, <1>8 DEF SessionOK
<1> QED BY <1>5, <1>6, <1>8, <1>9 DEF SessionAgrees

\* replace_revision.
LEMMA ReplaceRevisionOK ==
  ASSUME NEW s, NEW c, SessionOK(s), SessionAgrees(s, c), NEW revision, NEW z,
         z = replace_revision(s, revision)
  PROVE  SessionOK(z) /\ SessionAgrees(z, c) /\ z.waiting \subseteq s.waiting
<1>1. s = [pending |-> s.pending, waiting |-> s.waiting, failed |-> s.failed, queued |-> s.queued,
           desired |-> s.desired, repair |-> s.repair, retry |-> s.retry, notice |-> s.notice]
  BY DEF SessionOK
<1>2. PICK d, q, r, w, p :
        /\ d = {x \in s.desired : x.revision = revision} /\ r = {x \in s.repair : x.revision = revision}
        /\ q = Retained(s.queued, revision)
        /\ p = IF s.pending # None /\ ~ (s.pending.revision = revision) THEN None ELSE s.pending
        /\ w = IF s.pending # None /\ ~ (s.pending.revision = revision) THEN {} ELSE s.waiting
  OBVIOUS
<1>3. z = [s EXCEPT !.desired = d, !.queued = q, !.repair = r, !.pending = p, !.waiting = w]
  BY <1>2 DEF replace_revision
<1>4. /\ z.pending = p /\ z.waiting = w /\ z.queued = q /\ z.desired = d /\ z.repair = r
      /\ z = [pending |-> z.pending, waiting |-> z.waiting, failed |-> z.failed, queued |-> z.queued,
               desired |-> z.desired, repair |-> z.repair, retry |-> z.retry, notice |-> z.notice]
  BY <1>1, <1>3
<1>5. d \subseteq s.desired /\ r \subseteq s.repair /\ w \subseteq s.waiting
      /\ (p = None \/ p = s.pending) /\ (w # {} => p = s.pending /\ w = s.waiting)
  BY <1>2
<1>6. DesiredOK(d)
  BY <1>5, DesiredLess DEF SessionOK
<1>7. QueueOK(q) /\ \A k \in DOMAIN q : \E i \in DOMAIN s.queued : q[k] = s.queued[i]
  <2>1. QueueOK(s.queued)
    BY DEF SessionOK
  <2> QED BY <1>2, <2>1, QueueRetained, SMTT(30)
<1>8. SessionOK(z)
  BY <1>4, <1>5, <1>6, <1>7 DEF SessionOK
<1>9. SessionAgrees(z, c)
  BY <1>4, <1>5, <1>7 DEF SessionAgrees
<1> QED BY <1>4, <1>5, <1>8, <1>9

\* poll takes the next update to announce.
LEMMA TakeOK ==
  ASSUME NEW s, NEW c, SessionOK(s), SessionAgrees(s, c), s.pending = None, ~ is_idle(s), NEW u, NEW z,
         u = IF s.queued # <<>> THEN Head(s.queued) ELSE First(s.repair),
         z = IF s.queued # <<>> THEN [s EXCEPT !.queued = Tail(@)] ELSE [s EXCEPT !.repair = @ \ {u}]
  PROVE  /\ SessionOK(z) /\ SessionAgrees(z, c) /\ z.waiting = s.waiting /\ z.pending = None
         /\ u \in UpdateSet /\ Agrees(u, c)
<1>1. s = [pending |-> s.pending, waiting |-> s.waiting, failed |-> s.failed, queued |-> s.queued,
           desired |-> s.desired, repair |-> s.repair, retry |-> s.retry, notice |-> s.notice]
  BY DEF SessionOK
<1>2. CASE s.queued # <<>>
  <2>1. u = Head(s.queued) /\ z = [s EXCEPT !.queued = Tail(s.queued)]
    BY <1>2
  <2>2. PICK rest : rest = Tail(s.queued)
    OBVIOUS
  <2>3. /\ z.pending = s.pending /\ z.waiting = s.waiting /\ z.queued = rest
        /\ z.desired = s.desired /\ z.repair = s.repair
        /\ z = [pending |-> z.pending, waiting |-> z.waiting, failed |-> z.failed, queued |-> z.queued,
               desired |-> z.desired, repair |-> z.repair, retry |-> z.retry, notice |-> z.notice]
    BY <1>1, <2>1, <2>2
  <2>4. QueueOK(rest) /\ u \in UpdateSet /\ (\E i \in DOMAIN s.queued : s.queued[i] = u)
        /\ \A i \in DOMAIN rest : \E j \in DOMAIN s.queued : rest[i] = s.queued[j]
    <3>1. QueueOK(s.queued)
      BY DEF SessionOK
    <3> QED BY <1>2, <2>1, <2>2, <3>1, QueueTail
  <2>5. SessionOK(z)
    BY <2>3, <2>4 DEF SessionOK
  <2>6. SessionAgrees(z, c) /\ Agrees(u, c)
    BY <2>3, <2>4 DEF SessionAgrees
  <2> QED BY <2>3, <2>4, <2>5, <2>6
<1>3. CASE s.queued = <<>>
  <2>1. s.repair # {} /\ s.repair \subseteq UpdateSet
    BY <1>3 DEF is_idle, SessionOK
  <2>2. \E x \in s.repair : \A y \in s.repair : x.topic <= y.topic
    <3>1. PICK topics : topics = {x.topic : x \in s.repair}
      OBVIOUS
    <3>2. topics \subseteq Nat /\ topics # {}
      <4>1. \A x \in s.repair : x.topic \in Topics
        BY <2>1 DEF UpdateSet
      <4>2. Topics \subseteq Nat
        BY InterestAssumption
      <4> QED BY <2>1, <3>1, <4>1, <4>2
    <3>3. PICK least \in topics : \A y \in topics : least <= y
      BY <3>2, MinOfNaturals
    <3>4. PICK x \in s.repair : x.topic = least
      BY <3>1
    <3> QED BY <3>1, <3>3, <3>4
  <2>3. u \in s.repair
    <3>1. u = First(s.repair)
      BY <1>3
    <3> QED BY <2>2, <3>1 DEF First
  <2>4. z = [s EXCEPT !.repair = s.repair \ {u}]
    BY <1>3
  <2>5. PICK rest : rest = s.repair \ {u}
    OBVIOUS
  <2>6. /\ z.pending = s.pending /\ z.waiting = s.waiting /\ z.queued = s.queued
        /\ z.desired = s.desired /\ z.repair = rest
        /\ z = [pending |-> z.pending, waiting |-> z.waiting, failed |-> z.failed, queued |-> z.queued,
               desired |-> z.desired, repair |-> z.repair, retry |-> z.retry, notice |-> z.notice]
    BY <1>1, <2>4, <2>5
  <2>7. rest \subseteq s.repair
    BY <2>5
  <2>8. SessionOK(z)
    BY <2>1, <2>6, <2>7 DEF SessionOK
  <2>9. SessionAgrees(z, c) /\ Agrees(u, c)
    BY <2>3, <2>6, <2>7 DEF SessionAgrees
  <2> QED BY <2>1, <2>3, <2>6, <2>8, <2>9
<1> QED BY <1>2, <1>3

\* An announcement goes to the other publishers.
LEMMA AnnounceOK ==
  ASSUME NEW s, NEW c, SessionOK(s), SessionAgrees(s, c), NEW n \in Peers, NEW u \in UpdateSet,
         TableOK(table[n], Policy), NEW z, z = Announce(s, n, u)
  PROVE  SessionOK(z) /\ SessionAgrees(z, c) /\ z.waiting \subseteq Peers \ {n}
<1>1. s = [pending |-> s.pending, waiting |-> s.waiting, failed |-> s.failed, queued |-> s.queued,
           desired |-> s.desired, repair |-> s.repair, retry |-> s.retry, notice |-> s.notice]
  BY DEF SessionOK
<1>2. PICK others : others = publishers(table[n], u.topic) \ {n}
  OBVIOUS
<1>3. /\ z.pending = u /\ z.waiting = others /\ z.queued = s.queued
      /\ z.desired = s.desired /\ z.repair = s.repair
      /\ z = [pending |-> z.pending, waiting |-> z.waiting, failed |-> z.failed, queued |-> z.queued,
               desired |-> z.desired, repair |-> z.repair, retry |-> z.retry, notice |-> z.notice]
  BY <1>1, <1>2 DEF Announce
<1>4. others \subseteq Peers \ {n}
  BY <1>2 DEF publishers, TableOK
<1>5. u # None
  BY SMTT(30) DEF UpdateSet, None
<1>6. SessionOK(z)
  BY <1>3, <1>5 DEF SessionOK
<1> QED BY <1>3, <1>4, <1>6 DEF SessionAgrees

\* set: the new choice is desired, replaces what was queued for the topic and
\* takes the place of what was to be repaired.
Replaces(s, c, u, d, r, at, q, b, z) ==
  /\ d = Without(s.desired, u.topic) \cup {u} /\ Cardinality(d) <= MaxInterests
  /\ r = Without(s.repair, u.topic)
  /\ at = {i \in DOMAIN s.queued : s.queued[i].topic = u.topic}
  /\ at # {} \/ Len(s.queued) < MaxInterests
  /\ \/ q = s.queued /\ at = {}
     \/ q = IF at # {} THEN [i \in DOMAIN s.queued |-> IF i \in at THEN u ELSE s.queued[i]]
            ELSE Append(s.queued, u)
  /\ b = [c EXCEPT ![u.topic] = IF u.subscribed THEN "subscribed" ELSE "none"]
  /\ z = [s EXCEPT !.desired = d, !.repair = r, !.queued = q]
LEMMA SetOK ==
  ASSUME NEW s, NEW c, SessionOK(s), SessionAgrees(s, c), c \in ChoiceSet, NEW u \in UpdateSet,
         NEW d, NEW r, NEW at, NEW q, NEW b, NEW z, Replaces(s, c, u, d, r, at, q, b, z)
  PROVE  SessionOK(z) /\ SessionAgrees(z, b) /\ z.waiting = s.waiting /\ z.pending = s.pending
         /\ b \in ChoiceSet
<1> USE DEF Replaces
<1>1. s = [pending |-> s.pending, waiting |-> s.waiting, failed |-> s.failed, queued |-> s.queued,
           desired |-> s.desired, repair |-> s.repair, retry |-> s.retry, notice |-> s.notice]
  BY DEF SessionOK
<1>2. /\ z.pending = s.pending /\ z.waiting = s.waiting /\ z.queued = q
      /\ z.desired = d /\ z.repair = r
      /\ z = [pending |-> z.pending, waiting |-> z.waiting, failed |-> z.failed, queued |-> z.queued,
               desired |-> z.desired, repair |-> z.repair, retry |-> z.retry, notice |-> z.notice]
  BY <1>1
<1>3. DesiredOK(d)
  BY DesiredMore DEF SessionOK
<1>4. r \subseteq s.repair /\ s.repair \subseteq UpdateSet
  BY DEF Without, SessionOK
<1>5. QueueOK(q) /\ \A i \in DOMAIN q :
        q[i] = u \/ (i \in DOMAIN s.queued /\ q[i] = s.queued[i] /\ s.queued[i].topic # u.topic)
  <2>1. QueueOK(s.queued)
    BY DEF SessionOK
  <2>2. CASE q = s.queued /\ at = {}
    BY <2>1, <2>2
  <2>3. CASE at # {}
    <3>1. q = [i \in DOMAIN s.queued |-> IF i \in at THEN u ELSE s.queued[i]]
      BY <2>3
    <3>2. q = [i \in DOMAIN s.queued |-> IF s.queued[i].topic = u.topic THEN u ELSE s.queued[i]]
      BY <3>1
    <3> QED BY <2>1, <3>2, QueueReplace, SMTT(30)
  <2>4. CASE at = {} /\ ~ (q = s.queued /\ at = {})
    <3>1. q = Append(s.queued, u) /\ Len(s.queued) < MaxInterests
      BY <2>4
    <3>2. \A i \in DOMAIN s.queued : s.queued[i].topic # u.topic
      BY <2>4
    <3> QED BY <2>1, <3>1, <3>2, QueueAppend
  <2> QED BY <2>2, <2>3, <2>4
<1>6. SessionOK(z)
  BY <1>2, <1>3, <1>4, <1>5 DEF SessionOK
<1>7. u.topic \in Topics /\ \A x \in UpdateSet : x.topic \in Topics
  BY DEF UpdateSet
<1>8. b \in ChoiceSet /\ b[u.topic] = (IF u.subscribed THEN "subscribed" ELSE "none")
      /\ \A t \in Topics : t # u.topic => b[t] = c[t]
  BY <1>7 DEF ChoiceSet
<1>9. Agrees(u, b)
  BY <1>8, SMTT(30) DEF Agrees
<1>10. \A x \in UpdateSet : x.topic # u.topic /\ Agrees(x, c) => Agrees(x, b)
  BY <1>7, <1>8 DEF Agrees
<1>11. ASSUME NEW x \in d \cup r PROVE Agrees(x, b)
  <2>1. x = u \/ (x.topic # u.topic /\ x \in s.desired \cup s.repair /\ x \in UpdateSet)
    BY <1>4 DEF Without, SessionOK, DesiredOK
  <2> QED BY <1>9, <1>10, <2>1 DEF SessionAgrees
<1>12. ASSUME NEW i \in DOMAIN q PROVE Agrees(q[i], b)
  <2>1. CASE q[i] = u
    BY <1>9, <2>1
  <2>2. CASE i \in DOMAIN s.queued /\ q[i] = s.queued[i] /\ s.queued[i].topic # u.topic
    <3>1. q[i] \in UpdateSet
      <4>1. s.queued \in Seq(UpdateSet)
        BY DEF SessionOK, QueueOK
      <4> QED BY <2>2, <4>1, SMTT(30)
    <3> QED BY <1>10, <2>2, <3>1 DEF SessionAgrees
  <2> QED BY <1>5, <2>1, <2>2
<1>13. SessionAgrees(z, b)
  BY <1>2, <1>11, <1>12 DEF SessionAgrees
<1> QED BY <1>2, <1>6, <1>8, <1>13

-----------------------------------------------------------------------------
\* A node whose table applies an update that its policy allows.
LEMMA NodeApplies ==
  ASSUME NEW n \in Peers, NEW p \in Peers, NEW t, NEW s, NEW c, NEW policy, NodeOK(p, t, s, c, policy),
         NEW u \in UpdateSet, u.subscribed => <<n, u.topic>> \in t.subscribe, p = n => Agrees(u, c)
  PROVE  NodeOK(p, Applied(t, n, u), s, c, policy)
<1>1. PICK x : x = Applied(t, n, u)
  OBVIOUS
<1>2. TableOK(t, policy)
  BY DEF NodeOK
<1>3. /\ TableOK(x, policy)
      /\ \A y : y \in x.subscriptions => y \in t.subscriptions \/ (u.subscribed /\ y = <<n, u.topic>>)
  BY <1>1, <1>2, AppliedTable, SMTT(30)
<1>4. ASSUME NEW topic \in Topics, <<p, topic>> \in x.subscriptions PROVE c[topic] # "none"
  <2>1. CASE <<p, topic>> \in t.subscriptions
    BY <2>1 DEF NodeOK
  <2>2. CASE u.subscribed /\ <<p, topic>> = <<n, u.topic>>
    <3>1. p = n /\ topic = u.topic
      BY <2>2
    <3> QED BY <2>2, <3>1 DEF Agrees
  <2> QED BY <1>3, <1>4, <2>1, <2>2
<1>5. NodeOK(p, x, s, c, policy)
  BY <1>3, <1>4 DEF NodeOK
<1> QED BY <1>1, <1>5

\* The sessions of all nodes, and the frames under way.
SessionsOK(us, cs) ==
  /\ us = [m \in Peers |-> us[m]]
  /\ \A m \in Peers : /\ SessionOK(us[m]) /\ SessionAgrees(us[m], cs[m])
                      /\ us[m].waiting \subseteq Peers \ {m}
FramesOK(fs) == \A f \in fs : FrameOK(f)

\* What the invariant says of a node, and of the sessions and frames.
LEMMA NodeFacts ==
  ASSUME SyncInv
  PROVE  /\ \A n \in Peers : /\ NodeOK(n, table[n], updates[n], chosen[n], Policy)
                             /\ TableOK(table[n], Policy) /\ SessionOK(updates[n])
                             /\ SessionAgrees(updates[n], chosen[n]) /\ chosen[n] \in ChoiceSet
                             /\ updates[n].waiting \subseteq Peers \ {n}
         /\ SessionsOK(updates, chosen) /\ FramesOK(frames)
<1>1. \A n \in Peers : NodeOK(n, table[n], updates[n], chosen[n], Policy)
  BY DEF SyncInv
<1>2. \A n \in Peers : /\ TableOK(table[n], Policy) /\ SessionOK(updates[n])
                       /\ SessionAgrees(updates[n], chosen[n]) /\ chosen[n] \in ChoiceSet
                       /\ updates[n].waiting \subseteq Peers \ {n}
  BY <1>1 DEF NodeOK
<1> QED BY <1>1, <1>2 DEF SyncInv, SessionsOK, FramesOK

\* The session of one node changes.
LEMMA SessionChanges ==
  ASSUME SyncInv, NEW n \in Peers, NEW z, updates' = [updates EXCEPT ![n] = z],
         SessionOK(z), SessionAgrees(z, chosen[n]), z.waiting \subseteq Peers \ {n}
  PROVE  SessionsOK(updates', chosen)
<1>1. updates = [p \in Peers |-> updates[p]]
  BY DEF SyncInv
<1>2. updates' = [p \in Peers |-> updates'[p]] /\ updates'[n] = z
      /\ \A p \in Peers : p # n => updates'[p] = updates[p]
  BY <1>1
<1> QED BY <1>2, NodeFacts DEF SessionsOK

\* A step that changes sessions and frames only.
LEMMA SessionStep ==
  ASSUME SyncInv, Policy' = Policy, table' = table, chosen' = chosen, delivered' = delivered,
         SessionsOK(updates', chosen), FramesOK(frames')
  PROVE  SyncInv'
<1>1. updates' = [m \in Peers |-> updates'[m]]
  BY DEF SessionsOK
<1>2. \A p \in Peers : NodeOK(p, table[p], updates'[p], chosen[p], Policy)
  BY NodeFacts DEF NodeOK, SessionsOK
<1> QED BY <1>1, <1>2 DEF SyncInv, FramesOK

\* A step in which the table of one node applies an update as well.
LEMMA ApplyStep ==
  ASSUME SyncInv, NEW n \in Peers, NEW p \in Peers, NEW u \in UpdateSet,
         u.subscribed => <<n, u.topic>> \in table[p].subscribe, p = n => Agrees(u, chosen[n]),
         table' = [table EXCEPT ![p] = Applied(@, n, u)], Policy' = Policy, chosen' = chosen,
         delivered' = delivered, SessionsOK(updates', chosen), FramesOK(frames')
  PROVE  SyncInv'
<1>1. table = [m \in Peers |-> table[m]]
      /\ \A m \in Peers : NodeOK(m, table[m], updates[m], chosen[m], Policy)
  BY DEF SyncInv
<1>2. table' = [m \in Peers |-> table'[m]] /\ table'[p] = Applied(table[p], n, u)
      /\ \A m \in Peers : m # p => table'[m] = table[m]
  BY <1>1
<1>3. NodeOK(p, table'[p], updates[p], chosen[p], Policy)
  BY <1>1, <1>2, NodeApplies
<1>4. \A m \in Peers : NodeOK(m, table'[m], updates[m], chosen[m], Policy)
  BY <1>1, <1>2, <1>3
<1>5. \A m \in Peers : NodeOK(m, table'[m], updates'[m], chosen[m], Policy)
  BY <1>4 DEF NodeOK, SessionsOK
<1>6. updates' = [m \in Peers |-> updates'[m]]
  BY DEF SessionsOK
<1> QED BY <1>2, <1>5, <1>6 DEF SyncInv, FramesOK

\* A step that touches neither tables nor sessions nor choices.
LEMMA FrameStep ==
  ASSUME SyncInv, Policy' = Policy, table' = table, updates' = updates, chosen' = chosen,
         FramesOK(frames'), \A d \in delivered' : DeliveryOK(d, Policy)
  PROVE  SyncInv'
  BY DEF SyncInv, FramesOK

\* A table accepts the subscriptions its policy allows.
LEMMA AllowedApply ==
  ASSUME NEW p, NEW n, NEW u, applyAllowed(p, n, u) \/ (p = n /\ prepare_interestAllowed(n, u))
  PROVE  u.subscribed => <<n, u.topic>> \in table[p].subscribe
  BY DEF applyAllowed, prepare_interestAllowed, subscribeAllowed, can_subscribe

\* What a session announces is an update of a topic.
LEMMA UpdateShape ==
  ASSUME SyncInv, NEW n \in Peers, NEW topic \in Topics, NEW subscribed \in BOOLEAN
  PROVE  /\ Update(n, topic, subscribed) \in UpdateSet
         /\ Update(n, topic, subscribed).topic = topic
         /\ Update(n, topic, subscribed).subscribed = subscribed
         /\ Update(n, topic, subscribed).revision = table[n].revision
<1>1. table[n].revision \in 0 .. MaxRevision
  BY DEF SyncInv, NodeOK, TableOK
<1>2. table[n].revision \in Nat
  BY <1>1, InterestAssumption, SMTT(30)
<1> QED BY <1>2 DEF Update, UpdateSet

-----------------------------------------------------------------------------
\* set_interest.
LEMMA SetKeeps ==
  ASSUME SyncInv, NEW n \in Peers, NEW topic \in Topics, NEW subscribed \in BOOLEAN,
         set(n, topic, subscribed)
  PROVE  SyncInv'
<1>1. PICK u \in UpdateSet : u = Update(n, topic, subscribed) /\ u.topic = topic /\ u.subscribed = subscribed
  BY UpdateShape
<1>2. PICK s, t, c : s = updates[n] /\ t = table[n] /\ c = chosen[n]
  OBVIOUS
<1>3. NodeOK(n, t, s, c, Policy) /\ SessionOK(s) /\ SessionAgrees(s, c) /\ c \in ChoiceSet /\ TableOK(t, Policy)
  BY <1>2 DEF SyncInv, NodeOK
<1>4. PICK d, r, at : /\ d = Without(s.desired, u.topic) \cup {u} /\ r = Without(s.repair, u.topic)
                      /\ at = {i \in DOMAIN s.queued : s.queued[i].topic = u.topic}
  OBVIOUS
<1>5. PICK s1 : s1 = [s EXCEPT !.desired = d, !.repair = r]
  OBVIOUS
<1>6. s = [pending |-> s.pending, waiting |-> s.waiting, failed |-> s.failed, queued |-> s.queued,
           desired |-> s.desired, repair |-> s.repair, retry |-> s.retry, notice |-> s.notice]
  BY <1>3 DEF SessionOK
<1>7. s1.desired = d /\ s1.repair = r /\ s1.queued = s.queued /\ s1.pending = s.pending
  BY <1>5, <1>6
<1>8. /\ prepare_interestAllowed(n, u) /\ (at # {} \/ Len(s.queued) < MaxInterests)
      /\ Cardinality(d) <= MaxInterests
      /\ table' = [table EXCEPT ![n] = Applied(@, n, u)]
      /\ chosen' = [chosen EXCEPT ![n][topic] = IF subscribed THEN "subscribed" ELSE "none"]
      /\ updates' = [updates EXCEPT ![n] =
           IF is_idle(s1) THEN Announce(s1, n, u)
           ELSE IF at # {} THEN [s1 EXCEPT !.queued = [i \in DOMAIN s.queued |-> IF i \in at THEN u ELSE s.queued[i]]]
           ELSE [s1 EXCEPT !.queued = Append(s.queued, u)]]
      /\ UNCHANGED <<Policy, frames, delivered>>
  <2>1. s1 = [updates[n] EXCEPT !.desired = Without(@, topic) \cup {u}, !.repair = Without(@, topic)]
    BY <1>1, <1>2, <1>4, <1>5, <1>6
  <2> QED BY <1>1, <1>2, <1>4, <1>7, <2>1, SMTT(30) DEF set
<1>9. PICK b : b = [c EXCEPT ![u.topic] = IF u.subscribed THEN "subscribed" ELSE "none"]
  OBVIOUS
<1>20. Cardinality(d) <= MaxInterests /\ (at # {} \/ Len(s.queued) < MaxInterests)
  BY <1>8
<1>21. ASSUME NEW q, \/ q = s.queued /\ at = {}
                     \/ q = IF at # {} THEN [i \in DOMAIN s.queued |-> IF i \in at THEN u ELSE s.queued[i]]
                            ELSE Append(s.queued, u),
              NEW z, z = [s EXCEPT !.desired = d, !.repair = r, !.queued = q]
       PROVE  SessionOK(z) /\ SessionAgrees(z, b) /\ z.waiting = s.waiting /\ b \in ChoiceSet
  <2>1. Replaces(s, c, u, d, r, at, q, b, z)
    BY <1>4, <1>9, <1>20, <1>21 DEF Replaces
  <2> QED BY <1>3, <2>1, SetOK, SMTT(30)
<1>10. PICK y : updates' = [updates EXCEPT ![n] = y] /\ SessionOK(y) /\ SessionAgrees(y, b)
                /\ y.waiting \subseteq Peers \ {n} /\ b \in ChoiceSet
  <2>1. s.waiting \subseteq Peers \ {n}
    BY <1>3 DEF NodeOK
  <2>2. CASE is_idle(s1)
    <3>1. s.queued = <<>> /\ at = {}
      BY <1>4, <1>7, <2>2, SMTT(30) DEF is_idle
    <3>2. s1 = [s EXCEPT !.desired = d, !.repair = r, !.queued = s.queued]
      BY <1>5, <1>6
    <3>3. SessionOK(s1) /\ SessionAgrees(s1, b) /\ b \in ChoiceSet
      BY <1>21, <3>1, <3>2
    <3>4. PICK y : y = Announce(s1, n, u)
      OBVIOUS
    <3>5. SessionOK(y) /\ SessionAgrees(y, b) /\ y.waiting \subseteq Peers \ {n}
      BY <1>2, <1>3, <3>3, <3>4, AnnounceOK
    <3> QED BY <1>8, <2>2, <3>3, <3>4, <3>5
  <2>3. CASE ~ is_idle(s1)
    <3>1. PICK q : q = IF at # {} THEN [i \in DOMAIN s.queued |-> IF i \in at THEN u ELSE s.queued[i]]
                       ELSE Append(s.queued, u)
      OBVIOUS
    <3>2. PICK y : y = [s EXCEPT !.desired = d, !.repair = r, !.queued = q]
      OBVIOUS
    <3>3. y = [s1 EXCEPT !.queued = q]
      BY <1>5, <1>6, <3>2
    <3>4. updates' = [updates EXCEPT ![n] = y]
      BY <1>8, <2>3, <3>1, <3>3
    <3>6. SessionOK(y) /\ SessionAgrees(y, b) /\ y.waiting = s.waiting /\ b \in ChoiceSet
      BY <1>21, <3>1, <3>2
    <3> QED BY <2>1, <3>4, <3>6
  <2> QED BY <2>2, <2>3
<1>11. PICK x : x = Applied(t, n, u)
  OBVIOUS
<1>12. u.subscribed => <<n, u.topic>> \in t.subscribe
  BY <1>2, <1>8 DEF prepare_interestAllowed, subscribeAllowed, can_subscribe
<1>13. /\ TableOK(x, Policy)
       /\ \A e : e \in x.subscriptions => e \in t.subscriptions \/ (u.subscribed /\ e = <<n, u.topic>>)
       /\ ~ u.subscribed => <<n, u.topic>> \notin x.subscriptions
  BY <1>3, <1>11, <1>12, AppliedTable, SMTT(30)
<1>14. ASSUME NEW k \in Topics, <<n, k>> \in x.subscriptions PROVE b[k] # "none"
  <2>1. CASE k = u.topic
    <3>1. u.subscribed
      BY <1>13, <1>14, <2>1
    <3> QED BY <1>3, <1>9, <2>1, <3>1 DEF ChoiceSet
  <2>2. CASE k # u.topic
    <3>1. <<n, k>> # <<n, u.topic>>
      BY <2>2
    <3>2. <<n, k>> \in t.subscriptions
      BY <1>13, <1>14, <3>1
    <3>3. c[k] # "none"
      BY <1>3, <3>2 DEF NodeOK
    <3> QED BY <1>3, <1>9, <2>2, <3>3 DEF ChoiceSet
  <2> QED BY <2>1, <2>2
<1>15. NodeOK(n, x, y, b, Policy)
  BY <1>10, <1>13, <1>14 DEF NodeOK
<1>16. /\ table = [p \in Peers |-> table[p]] /\ updates = [p \in Peers |-> updates[p]]
       /\ chosen = [p \in Peers |-> chosen[p]]
  BY DEF SyncInv
<1>17. /\ table' = [p \in Peers |-> table'[p]] /\ updates' = [p \in Peers |-> updates'[p]]
       /\ chosen' = [p \in Peers |-> chosen'[p]]
       /\ table'[n] = x /\ updates'[n] = y /\ chosen'[n] = b
       /\ \A p \in Peers : p # n => table'[p] = table[p] /\ updates'[p] = updates[p] /\ chosen'[p] = chosen[p]
  <2>1. table' = [table EXCEPT ![n] = x]
    BY <1>2, <1>8, <1>11
  <2>2. chosen' = [chosen EXCEPT ![n] = b]
    BY <1>1, <1>2, <1>8, <1>9
  <2> QED BY <1>10, <1>16, <2>1, <2>2
<1>18. \A p \in Peers : NodeOK(p, table'[p], updates'[p], chosen'[p], Policy)
  BY <1>15, <1>17 DEF SyncInv
<1>19. Policy' = Policy /\ frames' = frames /\ delivered' = delivered
  BY <1>8
<1> QED BY <1>17, <1>18, <1>19 DEF SyncInv

\* The blocking calls: the choice is one that is not given up by what the
\* session replays, and the peers apply what their policy allows.
LEMMA LegacyKeeps ==
  ASSUME SyncInv, NEW n \in Peers, NEW topic \in Topics, NEW subscribed \in BOOLEAN,
         Legacy(n, topic, subscribed)
  PROVE  SyncInv'
<1>1. PICK u \in UpdateSet : u = Update(n, topic, subscribed) /\ u.topic = topic /\ u.subscribed = subscribed
  BY UpdateShape
<1>2. PICK v : v = IF subscribed THEN "subscribed" ELSE "withdrawn"
  OBVIOUS
<1>3. PICK c, b : c = chosen[n] /\ b = [c EXCEPT ![topic] = v]
  OBVIOUS
<1>4. /\ prepare_interestAllowed(n, u)
      /\ chosen' = [chosen EXCEPT ![n][topic] = v]
      /\ table' = [p \in Peers |->
           IF p = n \/ (p \in publishers(table[n], topic) /\ applyAllowed(p, n, u))
           THEN Applied(table[p], n, u) ELSE table[p]]
      /\ Policy' = Policy /\ updates' = updates /\ frames' = frames /\ delivered' = delivered
  BY <1>1, <1>2 DEF Legacy
<1>5. /\ chosen = [p \in Peers |-> chosen[p]] /\ table = [p \in Peers |-> table[p]]
      /\ \A p \in Peers : NodeOK(p, table[p], updates[p], chosen[p], Policy)
  BY DEF SyncInv
<1>6. chosen' = [chosen EXCEPT ![n] = b]
  BY <1>3, <1>4
<1>7. chosen' = [p \in Peers |-> chosen'[p]] /\ chosen'[n] = b /\ \A p \in Peers : p # n => chosen'[p] = chosen[p]
  BY <1>5, <1>6
<1>8. c \in ChoiceSet /\ v \in {"subscribed", "withdrawn"} /\ v # "none"
  BY <1>2, <1>3, NodeFacts
<1>9. b \in ChoiceSet /\ b[topic] # "none" /\ \A k \in Topics : c[k] # "none" => b[k] # "none"
  BY <1>3, <1>8 DEF ChoiceSet
<1>10. NodeOK(n, table[n], updates[n], b, Policy)
  <2>1. PICK s : s = updates[n]
    OBVIOUS
  <2>2. SessionOK(s) /\ SessionAgrees(s, c)
    BY <1>3, <2>1, NodeFacts
  <2>3. \A x \in UpdateSet : x.topic \in Topics
    BY DEF UpdateSet
  <2>4. \A x \in UpdateSet : Agrees(x, c) => Agrees(x, b)
    BY <1>9, <2>3 DEF Agrees
  <2>5. s.desired \cup s.repair \subseteq UpdateSet
    BY <2>2 DEF SessionOK, DesiredOK
  <2>6. \A i \in DOMAIN s.queued : s.queued[i] \in UpdateSet
    <3>1. s.queued \in Seq(UpdateSet)
      BY <2>2 DEF SessionOK, QueueOK
    <3> QED BY <3>1, SMTT(30)
  <2>7. SessionAgrees(s, b)
    BY <2>2, <2>4, <2>5, <2>6 DEF SessionAgrees
  <2> QED BY <1>3, <1>5, <1>9, <2>1, <2>7 DEF NodeOK
<1>11. \A p \in Peers : NodeOK(p, table[p], updates[p], chosen'[p], Policy)
  BY <1>5, <1>7, <1>10
<1>12. ASSUME NEW p \in Peers PROVE NodeOK(p, table'[p], updates'[p], chosen'[p], Policy)
  <2>1. CASE p = n \/ (p \in publishers(table[n], topic) /\ applyAllowed(p, n, u))
    <3>1. table'[p] = Applied(table[p], n, u)
      BY <1>4, <2>1
    <3>2. u.subscribed => <<n, u.topic>> \in table[p].subscribe
      BY <1>4, <2>1, AllowedApply
    <3>3. p = n => Agrees(u, chosen'[p])
      BY <1>1, <1>7, <1>9 DEF Agrees
    <3>4. PICK tp, sp, cp : tp = table[p] /\ sp = updates[p] /\ cp = chosen'[p]
      OBVIOUS
    <3>5. NodeOK(p, tp, sp, cp, Policy) /\ (p = n => Agrees(u, cp))
          /\ (u.subscribed => <<n, u.topic>> \in tp.subscribe)
      BY <1>11, <3>2, <3>3, <3>4
    <3>6. NodeOK(p, Applied(tp, n, u), sp, cp, Policy)
      BY <3>5, NodeApplies
    <3> QED BY <1>4, <3>1, <3>4, <3>6
  <2>2. CASE ~ (p = n \/ (p \in publishers(table[n], topic) /\ applyAllowed(p, n, u)))
    <3>1. table'[p] = table[p]
      BY <1>4, <2>2
    <3> QED BY <1>4, <1>11, <3>1
  <2> QED BY <2>1, <2>2
<1>13. table' = [p \in Peers |-> table'[p]]
  BY <1>4
<1> QED BY <1>4, <1>5, <1>7, <1>12, <1>13 DEF SyncInv

\* poll: what is announced next was queued or is repaired, so it agrees with
\* the last choice.
LEMMA PollKeeps ==
  ASSUME SyncInv, NEW n \in Peers, NEW due \in BOOLEAN, PollInterest(n, due)
  PROVE  SyncInv'
<1>1. PICK s, c : s = updates[n] /\ c = chosen[n]
  OBVIOUS
<1>2. PICK s0 : s0 = [s EXCEPT !.retry = FALSE]
  OBVIOUS
<1>3. PICK s1 : s1 = IF is_idle(s) /\ s.retry /\ due THEN repair(s0) ELSE s
  OBVIOUS
<1>4. PICK s2 : s2 = IF Finished(s1) THEN AfterFinish(s1) ELSE s1
  OBVIOUS
<1>5. PICK u : u = IF s2.queued # <<>> THEN Head(s2.queued) ELSE First(s2.repair)
  OBVIOUS
<1>6. PICK s3 : s3 = IF s2.queued # <<>> THEN [s2 EXCEPT !.queued = Tail(@)] ELSE [s2 EXCEPT !.repair = @ \ {u}]
  OBVIOUS
<1>7. /\ IF s2.pending # None \/ is_idle(s2)
         THEN updates' = [updates EXCEPT ![n] = s2] /\ table' = table
         ELSE IF prepare_interestAllowed(n, u)
         THEN /\ updates' = [updates EXCEPT ![n] = Announce(s3, n, u)]
              /\ table' = [table EXCEPT ![n] = Applied(@, n, u)]
         ELSE updates' = [updates EXCEPT ![n] = s3] /\ table' = table
      /\ Policy' = Policy /\ frames' = frames /\ delivered' = delivered /\ chosen' = chosen
  BY <1>1, <1>2, <1>3, <1>4, <1>5, <1>6 DEF PollInterest
<1>8. SessionOK(s) /\ SessionAgrees(s, c) /\ s.waiting \subseteq Peers \ {n}
      /\ TableOK(table[n], Policy) /\ FramesOK(frames)
  BY <1>1, NodeFacts
<1>9. SessionOK(s1) /\ SessionAgrees(s1, c) /\ s1.waiting = s.waiting
  <2>1. SessionOK(s0) /\ SessionAgrees(s0, c) /\ s0.waiting = s.waiting
    BY <1>2, <1>8, FlagsOnly
  <2>2. PICK s9 : s9 = repair(s0)
    OBVIOUS
  <2>3. SessionOK(s9) /\ SessionAgrees(s9, c) /\ s9.waiting = s0.waiting
    BY <2>1, <2>2, RepairOK
  <2> QED BY <1>3, <1>8, <2>1, <2>2, <2>3
<1>10. SessionOK(s2) /\ SessionAgrees(s2, c) /\ s2.waiting \subseteq Peers \ {n}
  <2>1. CASE Finished(s1)
    <3>1. s2 = AfterFinish(s1)
      BY <1>4, <2>1
    <3>2. SessionOK(s2) /\ SessionAgrees(s2, c) /\ s2.waiting = {}
      BY <1>9, <2>1, <3>1, AfterFinishOK
    <3> QED BY <3>2
  <2>2. CASE ~ Finished(s1)
    BY <1>4, <1>8, <1>9, <2>2
  <2> QED BY <2>1, <2>2
<1>11. CASE s2.pending # None \/ is_idle(s2)
  <2>1. updates' = [updates EXCEPT ![n] = s2] /\ table' = table
    BY <1>7, <1>11
  <2>2. SessionsOK(updates', chosen)
    BY <1>1, <1>10, <2>1, SessionChanges
  <2> QED BY <1>7, <1>8, <2>1, <2>2, SessionStep
<1>12. CASE ~ (s2.pending # None \/ is_idle(s2))
  <2>1. s2.pending = None /\ ~ is_idle(s2)
    BY <1>12
  <2>2. /\ SessionOK(s3) /\ SessionAgrees(s3, c) /\ s3.waiting = s2.waiting
        /\ u \in UpdateSet /\ Agrees(u, c)
    BY <1>5, <1>6, <1>10, <2>1, TakeOK, SMTT(30)
  <2>3. CASE prepare_interestAllowed(n, u)
    <3>1. PICK z : z = Announce(s3, n, u)
      OBVIOUS
    <3>2. updates' = [updates EXCEPT ![n] = z] /\ table' = [table EXCEPT ![n] = Applied(@, n, u)]
      BY <1>7, <1>12, <2>3, <3>1
    <3>3. SessionOK(z) /\ SessionAgrees(z, c) /\ z.waiting \subseteq Peers \ {n}
      BY <1>8, <2>2, <3>1, AnnounceOK
    <3>4. SessionsOK(updates', chosen)
      BY <1>1, <3>2, <3>3, SessionChanges
    <3>5. u.subscribed => <<n, u.topic>> \in table[n].subscribe
      BY <2>3, AllowedApply
    <3>6. FramesOK(frames') /\ Agrees(u, chosen[n])
      BY <1>1, <1>7, <1>8, <2>2
    <3> QED BY <1>7, <2>2, <3>2, <3>4, <3>5, <3>6, ApplyStep
  <2>4. CASE ~ prepare_interestAllowed(n, u)
    <3>1. updates' = [updates EXCEPT ![n] = s3] /\ table' = table
      BY <1>7, <1>12, <2>4
    <3>2. SessionsOK(updates', chosen)
      BY <1>1, <1>10, <2>2, <3>1, SessionChanges
    <3> QED BY <1>7, <1>8, <3>1, <3>2, SessionStep
  <2> QED BY <2>3, <2>4
<1> QED BY <1>11, <1>12

\* The end of an exchange, with or without success.
LEMMA ResolveSessions ==
  ASSUME SyncInv, NEW n \in Peers, NEW p \in updates[n].waiting, NEW ok, Resolve(n, p, ok)
  PROVE  /\ SessionsOK(updates', chosen) /\ p \in Peers /\ p # n
         /\ updates[n].pending \in UpdateSet
<1>1. PICK s, c : s = updates[n] /\ c = chosen[n]
  OBVIOUS
<1>2. SessionOK(s) /\ SessionAgrees(s, c) /\ s.waiting \subseteq Peers \ {n}
  BY <1>1, NodeFacts
<1>3. PICK w, failed : w = s.waiting \ {p} /\ failed = (s.failed \/ ~ ok)
  OBVIOUS
<1>4. PICK z : z = [s EXCEPT !.waiting = w, !.failed = failed]
  OBVIOUS
<1>5. updates = [m \in Peers |-> updates[m]]
  BY DEF SyncInv
<1>6. updates' = [updates EXCEPT ![n] = z]
  BY <1>1, <1>3, <1>4, <1>5 DEF Resolve
<1>7. w \subseteq s.waiting
  BY <1>3
<1>8. SessionOK(z) /\ SessionAgrees(z, c) /\ z.waiting = w
  <2>1. s = [pending |-> s.pending, waiting |-> s.waiting, failed |-> s.failed, queued |-> s.queued,
             desired |-> s.desired, repair |-> s.repair, retry |-> s.retry, notice |-> s.notice]
    BY <1>2 DEF SessionOK
  <2>2. /\ z.pending = s.pending /\ z.waiting = w /\ z.queued = s.queued
        /\ z.desired = s.desired /\ z.repair = s.repair
        /\ z = [pending |-> z.pending, waiting |-> z.waiting, failed |-> z.failed, queued |-> z.queued,
                desired |-> z.desired, repair |-> z.repair, retry |-> z.retry, notice |-> z.notice]
    BY <1>4, <2>1
  <2>3. w # {} => s.waiting # {}
    BY <1>7
  <2> QED BY <1>2, <2>2, <2>3 DEF SessionOK, SessionAgrees
<1>9. SessionsOK(updates', chosen)
  BY <1>1, <1>2, <1>6, <1>7, <1>8, SessionChanges
<1>10. s.pending \in UpdateSet
  BY <1>1, <1>2 DEF SessionOK
<1> QED BY <1>1, <1>2, <1>9, <1>10

\* An exchange: the peer applies what its own policy allows.
LEMMA ExchangeKeeps ==
  ASSUME SyncInv, NEW n \in Peers, NEW p \in Peers, Exchange(n, p)
  PROVE  SyncInv'
<1>1. PICK u : u = updates[n].pending
  OBVIOUS
<1>2. PICK ok : ok = (MaySend(n, p) /\ applyAllowed(p, n, u))
  OBVIOUS
<1>3. /\ p \in updates[n].waiting /\ Resolve(n, p, ok)
      /\ table' = IF ok THEN [table EXCEPT ![p] = Applied(@, n, u)] ELSE table
      /\ Policy' = Policy /\ frames' = frames /\ delivered' = delivered /\ chosen' = chosen
  BY <1>1, <1>2 DEF Exchange
<1>4. SessionsOK(updates', chosen) /\ p # n /\ u \in UpdateSet
  BY <1>1, <1>3, ResolveSessions
<1>5. FramesOK(frames')
  BY <1>3, NodeFacts
<1>6. CASE ok
  <2>1. table' = [table EXCEPT ![p] = Applied(@, n, u)]
    BY <1>3, <1>6
  <2>2. u.subscribed => <<n, u.topic>> \in table[p].subscribe
    BY <1>2, <1>6, AllowedApply
  <2> QED BY <1>3, <1>4, <1>5, <2>1, <2>2, ApplyStep
<1>7. CASE ~ ok
  <2>1. table' = table
    BY <1>3, <1>7
  <2> QED BY <1>3, <1>4, <1>5, <2>1, SessionStep
<1> QED BY <1>6, <1>7

\* A failed exchange: the peer may have applied the frame, or the frame is
\* still under way to another node.
LEMMA ExchangeFailsKeeps ==
  ASSUME SyncInv, NEW n \in Peers, NEW p \in Peers, NEW how, ExchangeFails(n, p, how)
  PROVE  SyncInv'
<1>1. PICK u : u = updates[n].pending
  OBVIOUS
<1>2. PICK f : f = [kind |-> "interest", from |-> n, to |-> p, update |-> u]
  OBVIOUS
<1>3. /\ p \in updates[n].waiting /\ Resolve(n, p, FALSE)
      /\ table' = IF how = "ack" /\ MaySend(n, p) /\ applyAllowed(p, n, u)
                  THEN [table EXCEPT ![p] = Applied(@, n, u)] ELSE table
      /\ frames' = IF how = "late" /\ MaySend(n, p) THEN frames \cup {f} ELSE frames
      /\ Policy' = Policy /\ delivered' = delivered /\ chosen' = chosen
  BY <1>1, <1>2 DEF ExchangeFails
<1>4. SessionsOK(updates', chosen) /\ p # n /\ u \in UpdateSet
  BY <1>1, <1>3, ResolveSessions
<1>5. FrameOK(f)
  <2>1. f.from = n /\ f.to = p /\ f.update = u /\ u.topic \in Topics
    BY <1>2, <1>4 DEF UpdateSet
  <2> QED BY <1>4, <2>1 DEF FrameOK
<1>6. FramesOK(frames')
  BY <1>3, <1>5, NodeFacts DEF FramesOK
<1>7. CASE how = "ack" /\ MaySend(n, p) /\ applyAllowed(p, n, u)
  <2>1. table' = [table EXCEPT ![p] = Applied(@, n, u)]
    BY <1>3, <1>7
  <2>2. u.subscribed => <<n, u.topic>> \in table[p].subscribe
    BY <1>7, AllowedApply
  <2> QED BY <1>3, <1>4, <1>6, <2>1, <2>2, ApplyStep
<1>8. CASE ~ (how = "ack" /\ MaySend(n, p) /\ applyAllowed(p, n, u))
  <2>1. table' = table
    BY <1>3, <1>8
  <2> QED BY <1>3, <1>4, <1>6, <2>1, SessionStep
<1> QED BY <1>7, <1>8

\* An announcement that outlived its exchange: it is for another node, which
\* applies what its policy allows.
LEMMA LateFrameKeeps ==
  ASSUME SyncInv, NEW f, LateFrame(f)
  PROVE  SyncInv'
<1>1. PICK n, p, u : n = f.from /\ p = f.to /\ u = f.update
  OBVIOUS
<1>2. /\ f \in frames /\ f.kind = "interest" /\ frames' = frames \ {f}
      /\ table' = IF applyAllowed(p, n, u) THEN [table EXCEPT ![p] = Applied(@, n, u)] ELSE table
      /\ Policy' = Policy /\ updates' = updates /\ delivered' = delivered /\ chosen' = chosen
  BY <1>1 DEF LateFrame
<1>3. n \in Peers /\ p \in Peers /\ n # p /\ u \in UpdateSet
  BY <1>1, <1>2 DEF SyncInv, FrameOK
<1>4. FramesOK(frames') /\ SessionsOK(updates', chosen)
  BY <1>2, NodeFacts DEF FramesOK
<1>5. CASE applyAllowed(p, n, u)
  <2>1. table' = [table EXCEPT ![p] = Applied(@, n, u)]
    BY <1>2, <1>5
  <2>2. u.subscribed => <<n, u.topic>> \in table[p].subscribe
    BY <1>5, AllowedApply
  <2> QED BY <1>2, <1>3, <1>4, <2>1, <2>2, ApplyStep
<1>6. CASE ~ applyAllowed(p, n, u)
  <2>1. table' = table
    BY <1>2, <1>6
  <2> QED BY <1>2, <1>4, <2>1, SessionStep
<1> QED BY <1>5, <1>6

-----------------------------------------------------------------------------
\* publish and publish_to: frames from one node to others, with a topic.
LEMMA SendKeeps ==
  ASSUME SyncInv, NEW n \in Peers, NEW topic \in Topics, NEW to, to \subseteq Peers, Send(n, topic, to),
         Policy' = Policy, table' = table, updates' = updates, delivered' = delivered, chosen' = chosen
  PROVE  SyncInv'
<1>1. PICK u : u = [revision |-> table[n].revision, topic |-> topic]
  OBVIOUS
<1>2. u.topic = topic
  BY <1>1
<1>3. frames' = frames \cup {[kind |-> "publish", from |-> n, to |-> p, update |-> u] : p \in to}
  BY <1>1 DEF Send
<1>4. ASSUME NEW p \in to PROVE FrameOK([kind |-> "publish", from |-> n, to |-> p, update |-> u])
  <2>1. PICK f : f = [kind |-> "publish", from |-> n, to |-> p, update |-> u]
    OBVIOUS
  <2>2. f.kind = "publish" /\ f.from = n /\ f.to = p /\ f.update = u /\ "publish" # "interest"
    BY <2>1
  <2>3. FrameOK(f)
    BY <1>2, <2>2 DEF FrameOK
  <2> QED BY <2>1, <2>3
<1>5. FramesOK(frames')
  BY <1>3, <1>4, NodeFacts DEF FramesOK
<1>6. \A d \in delivered' : DeliveryOK(d, Policy)
  BY DEF SyncInv
<1> QED BY <1>5, <1>6, FrameStep

\* Both calls send to peers.
LEMMA PublishKeeps ==
  ASSUME SyncInv, NEW n \in Peers, NEW topic \in Topics,
         publish(n, topic) \/ \E p \in Peers : publish_to(n, topic, {p})
  PROVE  SyncInv'
<1>1. PICK to : /\ Send(n, topic, to) /\ to \subseteq Peers
                /\ Policy' = Policy /\ table' = table /\ updates' = updates
                /\ delivered' = delivered /\ chosen' = chosen
  <2>1. \A k : recipients(table[n], k) \subseteq Peers
    BY DEF recipients
  <2>2. \A k, audience : direct_recipients(table[n], k, audience) \subseteq Peers
    BY <2>1 DEF direct_recipients
  <2> QED BY <2>1, <2>2 DEF publish, publish_to
<1> QED BY <1>1, SendKeeps

\* A delivery is checked against the receiver's table, and so against the
\* policy in force there.
LEMMA DeliverKeeps ==
  ASSUME SyncInv, NEW f, Deliver(f)
  PROVE  SyncInv'
<1>1. PICK t, topic : t = table[f.to] /\ topic = f.update.topic
  OBVIOUS
<1>2. PICK e : e = [from |-> f.from, to |-> f.to, topic |-> topic, revision |-> t.revision]
  OBVIOUS
<1>3. /\ f \in frames /\ frames' = frames \ {f}
      /\ delivered' = IF /\ recipientsAllowed(t, f.update.revision, f.from, topic)
                         /\ f.to \in recipients(t, topic)
                      THEN delivered \cup {e} ELSE delivered
      /\ Policy' = Policy /\ table' = table /\ updates' = updates /\ chosen' = chosen
  BY <1>1, <1>2 DEF Deliver
<1>4. f.to \in Peers
  BY <1>3 DEF SyncInv, FrameOK
<1>5. TableOK(t, Policy)
  BY <1>1, <1>4, NodeFacts
<1>6. ASSUME recipientsAllowed(t, f.update.revision, f.from, topic), f.to \in recipients(t, topic)
      PROVE  DeliveryOK(e, Policy)
  <2>1. t.revision # 0 /\ <<f.from, topic>> \in t.publish
    BY <1>6 DEF recipientsAllowed, Current, can_publish
  <2>2. <<f.to, topic>> \in t.subscriptions
    BY <1>6 DEF recipients
  <2>3. <<f.from, topic>> \in Policy[t.revision].publish /\ <<f.to, topic>> \in Policy[t.revision].subscribe
    BY <1>5, <2>1, <2>2 DEF TableOK
  <2>4. e.from = f.from /\ e.to = f.to /\ e.topic = topic /\ e.revision = t.revision
    BY <1>2
  <2> QED BY <2>3, <2>4 DEF DeliveryOK
<1>7. \A d \in delivered' : DeliveryOK(d, Policy)
  BY <1>3, <1>6 DEF SyncInv
<1>8. FramesOK(frames')
  BY <1>3, NodeFacts DEF FramesOK
<1> QED BY <1>3, <1>7, <1>8, FrameStep

\* A frame that is not written any more.
LEMMA RecheckKeeps ==
  ASSUME SyncInv, NEW f, Recheck(f)
  PROVE  SyncInv'
<1>1. /\ frames' = frames \ {f} /\ Policy' = Policy /\ table' = table /\ updates' = updates
      /\ delivered' = delivered /\ chosen' = chosen
  BY DEF Recheck
<1>2. FramesOK(frames')
  BY <1>1, NodeFacts DEF FramesOK
<1>3. \A d \in delivered' : DeliveryOK(d, Policy)
  BY <1>1 DEF SyncInv
<1> QED BY <1>1, <1>2, <1>3, FrameStep

-----------------------------------------------------------------------------
\* A policy: the table holds what it says, and no interest it does not allow.
LEMMA InstallKeeps ==
  ASSUME SyncInv, NEW n \in Peers, NEW revision \in Revisions, NEW overlay \in BOOLEAN,
         InstallPolicy(n, revision, overlay)
  PROVE  SyncInv'
<1>1. PICK t, s, c, policy : t = table[n] /\ s = updates[n] /\ c = chosen[n] /\ policy = Policy[revision]
  OBVIOUS
<1>2. PICK x, z : x = install_verified_policy(t, revision, policy) /\ z = replace_revision(s, revision)
  OBVIOUS
<1>3. /\ table' = [table EXCEPT ![n] = x]
      /\ updates' = IF overlay THEN [updates EXCEPT ![n] = z] ELSE updates
      /\ Policy' = Policy /\ frames' = frames /\ delivered' = delivered /\ chosen' = chosen
  BY <1>1, <1>2 DEF InstallPolicy
<1>4. /\ SessionOK(s) /\ SessionAgrees(s, c) /\ s.waiting \subseteq Peers \ {n}
      /\ SessionsOK(updates, chosen)
  BY <1>1, NodeFacts
<1>5. SessionsOK(updates', chosen)
  <2>1. CASE overlay
    <3>1. SessionOK(z) /\ SessionAgrees(z, c) /\ z.waiting \subseteq s.waiting
      BY <1>2, <1>4, ReplaceRevisionOK
    <3>2. updates' = [updates EXCEPT ![n] = z] /\ z.waiting \subseteq Peers \ {n}
      BY <1>3, <1>4, <2>1, <3>1
    <3> QED BY <1>1, <3>1, <3>2, SessionChanges
  <2>2. CASE ~ overlay
    BY <1>3, <1>4, <2>2
  <2> QED BY <2>1, <2>2
<1>6. /\ policy.endpoints \subseteq Peers /\ policy.subscribe \subseteq Peers \X Topics
  BY <1>1, PolicyShape
<1>7. /\ x.revision = revision /\ x.endpoints = policy.endpoints /\ x.publish = policy.publish
      /\ x.subscribe = policy.subscribe /\ x.subscriptions = t.subscriptions \cap policy.subscribe
      /\ x = [revision |-> x.revision, endpoints |-> x.endpoints, publish |-> x.publish,
              subscribe |-> x.subscribe, subscriptions |-> x.subscriptions]
  BY <1>2 DEF install_verified_policy
<1>8. revision \in 0 .. MaxRevision
  BY InterestAssumption, SMTT(30) DEF Revisions
<1>9. TableOK(x, Policy)
  BY <1>1, <1>6, <1>7, <1>8 DEF TableOK
<1>10. table = [p \in Peers |-> table[p]]
  BY DEF SyncInv
<1>11. table' = [p \in Peers |-> table'[p]] /\ table'[n] = x /\ \A p \in Peers : p # n => table'[p] = table[p]
  BY <1>3, <1>10
<1>12. NodeOK(n, x, s, c, Policy)
  BY <1>1, <1>7, <1>9, NodeFacts DEF NodeOK
<1>13. \A p \in Peers : NodeOK(p, table'[p], updates[p], chosen[p], Policy)
  BY <1>1, <1>11, <1>12, NodeFacts
<1>14. \A p \in Peers : NodeOK(p, table'[p], updates'[p], chosen[p], Policy)
  BY <1>5, <1>13 DEF NodeOK, SessionsOK
<1>15. updates' = [m \in Peers |-> updates'[m]]
  BY <1>5 DEF SessionsOK
<1> QED BY <1>3, <1>11, <1>14, <1>15 DEF SyncInv

\* A restart: the node has no interests and no choices left.
LEMMA RestartKeeps ==
  ASSUME SyncInv, NEW n \in Peers, Restart(n)
  PROVE  SyncInv'
<1>1. PICK t, x : t = table[n] /\ x = [t EXCEPT !.subscriptions = {}]
  OBVIOUS
<1>2. PICK b : b = [k \in Topics |-> "none"]
  OBVIOUS
<1>3. table = [p \in Peers |-> table[p]] /\ chosen = [p \in Peers |-> chosen[p]]
  BY DEF SyncInv
<1>4. /\ table' = [table EXCEPT ![n] = x]
      /\ updates' = [p \in Peers |-> IF p = n THEN NoUpdates ELSE [updates[p] EXCEPT !.notice = TRUE]]
      /\ chosen' = [chosen EXCEPT ![n] = b]
      /\ Policy' = Policy /\ frames' = frames /\ delivered' = delivered
  BY <1>1, <1>2, <1>3 DEF Restart
<1>5. /\ table' = [p \in Peers |-> table'[p]] /\ chosen' = [p \in Peers |-> chosen'[p]]
      /\ table'[n] = x /\ chosen'[n] = b
      /\ \A p \in Peers : p # n => table'[p] = table[p] /\ chosen'[p] = chosen[p]
  BY <1>3, <1>4
<1>6. updates' = [p \in Peers |-> updates'[p]]
  BY <1>4
<1>7. TableOK(t, Policy)
  BY <1>1, NodeFacts
<1>8. /\ x.revision = t.revision /\ x.endpoints = t.endpoints /\ x.publish = t.publish
      /\ x.subscribe = t.subscribe /\ x.subscriptions = {}
      /\ x = [revision |-> x.revision, endpoints |-> x.endpoints, publish |-> x.publish,
              subscribe |-> x.subscribe, subscriptions |-> x.subscriptions]
  BY <1>1, <1>7 DEF TableOK
<1>9. TableOK(x, Policy)
  BY <1>7, <1>8 DEF TableOK
<1>10. b \in ChoiceSet
  BY <1>2 DEF ChoiceSet
<1>11. NodeOK(n, x, NoUpdates, b, Policy)
  BY <1>8, <1>9, <1>10, FreshSession DEF NodeOK
<1>12. ASSUME NEW p \in Peers, p # n PROVE NodeOK(p, table[p], updates'[p], chosen[p], Policy)
  <2>1. PICK s, c, z : s = updates[p] /\ c = chosen[p] /\ z = [s EXCEPT !.notice = TRUE]
    OBVIOUS
  <2>2. updates'[p] = z
    BY <1>4, <1>12, <2>1
  <2>3. NodeOK(p, table[p], s, c, Policy) /\ SessionOK(s) /\ SessionAgrees(s, c)
    BY <2>1, NodeFacts
  <2>4. SessionOK(z) /\ SessionAgrees(z, c) /\ z.waiting = s.waiting
    BY <2>1, <2>3, FlagsOnly, SMTT(30)
  <2> QED BY <2>1, <2>2, <2>3, <2>4 DEF NodeOK
<1>13. updates'[n] = NoUpdates
  BY <1>4
<1>14. \A p \in Peers : NodeOK(p, table'[p], updates'[p], chosen'[p], Policy)
  BY <1>5, <1>11, <1>12, <1>13
<1> QED BY <1>4, <1>5, <1>6, <1>14 DEF SyncInv

\* Presence of a restarted peer or an address hint: what is desired is repaired.
LEMMA RepairKeeps ==
  ASSUME SyncInv, NEW n \in Peers, Notice(n) \/ AddAddressHint(n)
  PROVE  SyncInv'
<1>1. PICK s, c : s = updates[n] /\ c = chosen[n]
  OBVIOUS
<1>2. PICK s0 : /\ s0 = s \/ s0 = [s EXCEPT !.notice = FALSE]
                /\ updates' = [updates EXCEPT ![n] = repair(s0)]
  <2>1. updates = [p \in Peers |-> updates[p]]
    BY DEF SyncInv
  <2>2. CASE Notice(n)
    BY <1>1, <2>1, <2>2 DEF Notice
  <2>3. CASE AddAddressHint(n)
    BY <1>1, <2>1, <2>3 DEF AddAddressHint
  <2> QED BY <2>2, <2>3
<1>3. /\ Policy' = Policy /\ table' = table /\ frames' = frames
      /\ delivered' = delivered /\ chosen' = chosen
  BY DEF Notice, AddAddressHint
<1>4. SessionOK(s) /\ SessionAgrees(s, c) /\ s.waiting \subseteq Peers \ {n} /\ FramesOK(frames)
  BY <1>1, NodeFacts
<1>5. SessionOK(s0) /\ SessionAgrees(s0, c) /\ s0.waiting = s.waiting
  <2>1. CASE s0 = s
    BY <1>4, <2>1
  <2>2. CASE s0 = [s EXCEPT !.notice = FALSE]
    BY <1>4, <2>2, FlagsOnly
  <2> QED BY <1>2, <2>1, <2>2
<1>6. PICK z : z = repair(s0)
  OBVIOUS
<1>7. SessionOK(z) /\ SessionAgrees(z, c) /\ z.waiting = s0.waiting
  BY <1>5, <1>6, RepairOK
<1>8. SessionsOK(updates', chosen)
  BY <1>1, <1>2, <1>4, <1>5, <1>6, <1>7, SessionChanges
<1> QED BY <1>3, <1>4, <1>8, SessionStep

-----------------------------------------------------------------------------
\* Every step keeps the invariant.
LEMMA NextKeeps == SyncInv /\ [Next]_vars => SyncInv'
<1> SUFFICES ASSUME SyncInv, [Next]_vars PROVE SyncInv'
  OBVIOUS
<1>1. ASSUME NEW n \in Peers, NEW topic \in Topics, NEW subscribed \in BOOLEAN,
             set(n, topic, subscribed) \/ Legacy(n, topic, subscribed)
      PROVE  SyncInv'
  BY <1>1, SetKeeps, LegacyKeeps
<1>2. ASSUME NEW n \in Peers, NEW topic \in Topics,
             publish(n, topic) \/ \E p \in Peers : publish_to(n, topic, {p})
      PROVE  SyncInv'
  BY <1>2, PublishKeeps
<1>3. ASSUME NEW n \in Peers, NEW due \in BOOLEAN, PollInterest(n, due) PROVE SyncInv'
  BY <1>3, PollKeeps
<1>4. ASSUME NEW n \in Peers, NEW p \in Peers,
             Exchange(n, p) \/ \E how \in {"lost", "ack", "late"} : ExchangeFails(n, p, how)
      PROVE  SyncInv'
  BY <1>4, ExchangeKeeps, ExchangeFailsKeeps
<1>5. ASSUME NEW f \in frames, LateFrame(f) \/ Deliver(f) \/ Recheck(f) PROVE SyncInv'
  BY <1>5, LateFrameKeeps, DeliverKeeps, RecheckKeeps
<1>6. ASSUME NEW n \in Peers, NEW revision \in Revisions, NEW overlay \in BOOLEAN,
             InstallPolicy(n, revision, overlay)
      PROVE  SyncInv'
  BY <1>6, InstallKeeps
<1>7. ASSUME NEW n \in Peers, Restart(n) \/ Notice(n) \/ AddAddressHint(n) PROVE SyncInv'
  BY <1>7, RestartKeeps, RepairKeeps
<1>8. CASE UNCHANGED vars
  <2>1. /\ Policy' = Policy /\ table' = table /\ updates' = updates /\ frames' = frames
        /\ delivered' = delivered /\ chosen' = chosen
    BY <1>8 DEF vars
  <2> QED BY <2>1, NodeFacts, SessionStep
<1> QED BY <1>1, <1>2, <1>3, <1>4, <1>5, <1>6, <1>7, <1>8 DEF Next

\* The invariant implies the two properties.
LEMMA SyncInvImplies == SyncInv => DeliveriesFollowPolicy /\ LatestChoiceWins
<1> SUFFICES ASSUME SyncInv PROVE DeliveriesFollowPolicy /\ LatestChoiceWins
  OBVIOUS
<1>1. ASSUME NEW n \in Peers
      PROVE  /\ table[n].revision \in 0 .. MaxRevision /\ table[n].endpoints \subseteq Peers
             /\ table[n].subscribe \subseteq Peers \X Topics
             /\ table[n].subscriptions \subseteq table[n].subscribe
  BY NodeFacts DEF TableOK
<1>2. ASSUME NEW n \in Peers
      PROVE  /\ Len(updates[n].queued) <= MaxInterests /\ Cardinality(updates[n].desired) <= MaxInterests
             /\ \A i, j \in DOMAIN updates[n].queued :
                  updates[n].queued[i].topic = updates[n].queued[j].topic => i = j
             /\ updates[n].waiting # {} => updates[n].pending # None
  BY NodeFacts DEF SessionOK, QueueOK, DesiredOK
<1>3. \A n \in Peers : table[n].subscriptions \subseteq Peers \X Topics
  BY <1>1
<1>4. TypeOK
  BY <1>1, <1>2, <1>3 DEF TypeOK
<1>5. \A d \in delivered : /\ <<d.from, d.topic>> \in Policy[d.revision].publish
                           /\ <<d.to, d.topic>> \in Policy[d.revision].subscribe
  BY DEF SyncInv, DeliveryOK
<1>6. DeliveriesFollowPolicy
  BY <1>1, <1>4, <1>5 DEF DeliveriesFollowPolicy
<1>7. LatestChoiceWins
  BY NodeFacts DEF NodeOK, LatestChoiceWins
<1> QED BY <1>6, <1>7

\* A publication reaches an application only if the policy in force there lets
\* its sender publish and the receiver subscribe, and no table lists an interest
\* its policy does not allow: for all peers, topics, policies and bounds
\* (recipients in arachne-routing, install_verified_policy).
THEOREM DeliveriesAlwaysFollowPolicy == Spec => []DeliveriesFollowPolicy
<1>1. SyncInv => DeliveriesFollowPolicy
  BY SyncInvImplies
<1> QED BY <1>1, InitSync, NextKeeps, PTL DEF Spec

\* What a session replays never brings back an interest its application gave
\* up since, through failed exchanges, late frames, restarts and policy changes
\* (prepare_interest, replace_revision, repair).
THEOREM LatestChoiceAlwaysWins == Spec => []LatestChoiceWins
<1>1. SyncInv => LatestChoiceWins
  BY SyncInvImplies
<1> QED BY <1>1, InitSync, NextKeeps, PTL DEF Spec
=============================================================================
