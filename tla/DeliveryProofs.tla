--------------------------- MODULE DeliveryProofs ---------------------------
(***************************************************************************)
(* Safety of the publisher log and of the object inbox, for all topics,    *)
(* identifiers, objects, weights and bounds.                               *)
(*                                                                         *)
(* Publisher log.  Each of the three logs (live, candidate, saved) accounts*)
(* for every publication disclosed so far, either by retaining it or by a  *)
(* watermark at or above it, and the candidate and the saved log add       *)
(* nothing at or below the live head.                                      *)
(*                                                                         *)
(* Object inbox.  An accepted object stays pending until the application   *)
(* resolves it, and a resolved one never comes back: resolutions are       *)
(* remembered by a receipt as long as it is in the window and by the floor *)
(* from then on; what makes room is never pending.  What is saved restores.*)
(***************************************************************************)
EXTENDS PublisherLog, ObjectInbox, ExtremumLemmas, TLAPS

\* Leaves are tried with Zenon; those that need arithmetic cite SMT.
USE ZenonT(30)

\* Records lie above their topic's watermark and at most at the head, and no
\* two share a sequence.
WellFormed(log) ==
  /\ IsLog(log)
  /\ \A r \in log.records :
        /\ r.sequence \in 1 .. log.head
        /\ r.topic \in DOMAIN log.evicted
        /\ log.evicted[r.topic] < r.sequence
  /\ \A r, s \in log.records : r.sequence = s.sequence => r = s

\* The log retains every publication of `known` or admits it is gone.
Covers(log, known) ==
  \A p \in known :
     /\ p.topic \in DOMAIN log.evicted
     /\ p \in log.records \/ p.sequence <= log.evicted[p.topic]

\* What the log retains does not contradict `known`.
Agrees(log, known) ==
  \A r \in log.records, p \in known : r.sequence = p.sequence => r = p

\* `later` knows no record at or below the head of `earlier` that `earlier`
\* lacks, and its watermarks are at least as high.
Extends(earlier, later) ==
  /\ earlier.head <= later.head
  /\ \A r \in later.records : r.sequence <= earlier.head => r \in earlier.records
  /\ \A t \in DOMAIN earlier.evicted :
        t \in DOMAIN later.evicted /\ earlier.evicted[t] <= later.evicted[t]

\* What one step of a log may do: `next` keeps or admits the loss of every
\* record of `log`, and adds nothing at or below the head of `log`.
Follows(log, next) ==
  /\ Extends(log, next)
  /\ \A r \in log.records :
        /\ r.topic \in DOMAIN next.evicted
        /\ r \in next.records \/ r.sequence <= next.evicted[r.topic]

\* `log` is a sound continuation of the log `base` that disclosed `known`.
Accounts(log, base, known) ==
  /\ WellFormed(log) /\ Follows(base, log)
  /\ Covers(log, known) /\ Agrees(log, known)

\* The range `range` misses none of `records`.
Complete(range, records) ==
  \A r \in records : InRange(r, range.after, range.through, range.topics) => r \in range.packets

UpTo(head, known) == \A p \in known : p.sequence \in 1 .. head

\* The inductive invariant.
IInv ==
  /\ TypeOK
  /\ Accounts(live, live, disclosed) /\ Accounts(durable, live, disclosed)
  /\ staged # NoLog => Accounts(staged, live, disclosed) /\ staged.head = live.head + 1
  /\ staged # NoLog /\ saved => staged.head = durable.head /\ Follows(staged, durable)
  /\ UpTo(live.head, disclosed)
  /\ offer.after \in Nat /\ offer.through \in 0 .. live.head
  /\ Complete(offer, live.records) /\ Complete(offer, disclosed)
  /\ SequenceNamesOnePublication

-----------------------------------------------------------------------------
LEMMA WellFormedNumbers ==
  ASSUME NEW log, WellFormed(log)
  PROVE  /\ log.head \in Nat
         /\ \A t \in DOMAIN log.evicted : log.evicted[t] \in Nat
         /\ \A r \in log.records : r.sequence \in Nat
BY BoundsAssumption, SMTT(30) DEF WellFormed, IsLog

\* evict keeps a log well formed and moves the watermark over everything it
\* drops, when it drops the oldest records of each topic.
LEMMA EvictFollows ==
  ASSUME NEW log, WellFormed(log),
         NEW gone, gone \subseteq log.records,
         \A g \in gone, r \in log.records \ gone :
            g.topic = r.topic => g.sequence < r.sequence
  PROVE  /\ WellFormed(evict(log, gone))
         /\ Follows(log, evict(log, gone))
         /\ evict(log, gone).head = log.head
         /\ evict(log, gone).records \subseteq log.records
<1> DEFINE next == evict(log, gone)
           dropped(t) == {r.sequence : r \in {g \in gone : g.topic = t}}
<1>1. /\ next.head = log.head
      /\ next.records = log.records \ gone
      /\ DOMAIN next.evicted = DOMAIN log.evicted
      /\ \A t \in DOMAIN log.evicted :
            next.evicted[t] = IF dropped(t) = {} THEN log.evicted[t] ELSE Max(dropped(t))
  BY DEF evict
<1>2. log.head \in Nat
  BY BoundsAssumption, SMTT(30) DEF WellFormed, IsLog
<1>3. ASSUME NEW t, dropped(t) # {}
      PROVE  Max(dropped(t)) \in dropped(t) /\ \A y \in dropped(t) : y <= Max(dropped(t))
  <2>1. dropped(t) \subseteq 0 .. log.head
    BY <1>2, SMTT(30) DEF WellFormed
  <2> HIDE DEF dropped
  <2> QED BY <2>1, <1>2, <1>3, MaxOfNaturals
<1>4. ASSUME NEW t \in DOMAIN log.evicted
      PROVE  /\ next.evicted[t] \in 0 .. log.head
             /\ log.evicted[t] <= next.evicted[t]
             /\ \A g \in gone : g.topic = t => g.sequence <= next.evicted[t]
             /\ \A r \in next.records : r.topic = t => next.evicted[t] < r.sequence
  <2>1. CASE dropped(t) = {}
    <3>1. next.evicted[t] = log.evicted[t]
      BY <1>1, <2>1
    <3>2. \A g \in gone : g.topic # t
      BY <2>1
    <3> QED BY <3>1, <3>2, <1>1, <1>2, SMTT(30) DEF WellFormed, IsLog
  <2>2. CASE dropped(t) # {}
    <3>1. next.evicted[t] = Max(dropped(t))
      BY <1>1, <2>2
    <3>2. PICK g \in gone : g.topic = t /\ g.sequence = Max(dropped(t))
      BY <1>3, <2>2
    <3>3. \A h \in gone : h.topic = t => h.sequence <= g.sequence
      BY <1>3, <2>2, <3>2, SMTT(30)
    <3>4. g.sequence \in 1 .. log.head /\ log.evicted[t] < g.sequence /\ log.evicted[t] \in 0 .. log.head
      BY <3>2 DEF WellFormed, IsLog
    <3>5. \A r \in next.records : r.topic = t => g.sequence < r.sequence
      BY <1>1, <3>2
    <3> HIDE DEF next, dropped
    <3> QED BY <1>2, <3>1, <3>2, <3>3, <3>4, <3>5, SMTT(30)
  <2> QED BY <2>1, <2>2
<1>5. WellFormed(next)
  <2> HIDE DEF next, dropped
  <2> QED BY <1>1, <1>2, <1>4 DEF WellFormed, IsLog
<1>6. Follows(log, next)
  <2> HIDE DEF next, dropped
  <2>1. \A r \in log.records : r.topic \in DOMAIN log.evicted
    BY DEF WellFormed
  <2> QED BY <1>1, <1>2, <1>4, <2>1, SMTT(30) DEF Follows, Extends
<1> QED BY <1>1, <1>5, <1>6

\* Evicting the globally oldest records drops the oldest of each topic.
LEMMA EvictOldestFollows ==
  ASSUME NEW log, WellFormed(log), NEW cut \in Nat
  PROVE  /\ WellFormed(evict_oldest(log, cut))
         /\ Follows(log, evict_oldest(log, cut))
         /\ evict_oldest(log, cut).head = log.head
         /\ evict_oldest(log, cut).records \subseteq log.records
<1> DEFINE gone == {r \in log.records : r.sequence <= cut}
<1>1. \A r \in log.records : r.sequence \in Nat
  BY BoundsAssumption, SMTT(30) DEF WellFormed, IsLog
<1>2. \A g \in gone, r \in log.records \ gone : g.sequence < r.sequence
  BY <1>1, SMTT(30)
<1>3. gone \subseteq log.records
  OBVIOUS
<1> HIDE DEF gone
<1>4. /\ WellFormed(evict(log, gone)) /\ Follows(log, evict(log, gone))
      /\ evict(log, gone).head = log.head /\ evict(log, gone).records \subseteq log.records
  BY <1>2, <1>3, EvictFollows
<1> QED BY <1>4 DEF evict_oldest, gone

\* The per-topic limit drops only the front of one topic.
LEMMA EvictTopicOverflowFollows ==
  ASSUME NEW log, WellFormed(log), NEW topic, OnTopic(log, topic) # {}
  PROVE  /\ WellFormed(EvictTopicOverflow(log, topic))
         /\ Follows(log, EvictTopicOverflow(log, topic))
         /\ EvictTopicOverflow(log, topic).head = log.head
         /\ EvictTopicOverflow(log, topic).records \subseteq log.records
<1> DEFINE sequences == {r.sequence : r \in OnTopic(log, topic)}
           gone == {r \in OnTopic(log, topic) : r.sequence = Min(sequences)}
<1>1. \A r \in log.records : r.sequence \in Nat
  BY BoundsAssumption, SMTT(30) DEF WellFormed, IsLog
<1>2. sequences # {} /\ sequences \subseteq Nat
  BY <1>1 DEF OnTopic
<1>3. \A y \in sequences : Min(sequences) <= y
  <2> HIDE DEF sequences
  <2> QED BY <1>2, MinOfNaturals
<1>4. gone \subseteq log.records
  BY DEF OnTopic
<1>5. \A g \in gone, r \in log.records \ gone : g.topic = r.topic => g.sequence < r.sequence
  <2> SUFFICES ASSUME NEW g \in gone, NEW r \in log.records \ gone, g.topic = r.topic
               PROVE  g.sequence < r.sequence
    OBVIOUS
  <2>1. r \in OnTopic(log, topic) /\ g.sequence = Min(sequences) /\ g \in log.records
    BY DEF OnTopic
  <2>2. r.sequence # Min(sequences) /\ r.sequence \in sequences
    BY <2>1
  <2> HIDE DEF sequences, gone
  <2> QED BY <1>1, <1>3, <2>1, <2>2, SMTT(30)
<1>6. /\ WellFormed(evict(log, gone)) /\ Follows(log, evict(log, gone))
      /\ evict(log, gone).head = log.head /\ evict(log, gone).records \subseteq log.records
  <2> HIDE DEF gone
  <2> QED BY <1>4, <1>5, EvictFollows
<1>7. Follows(log, log)
  BY BoundsAssumption, SMTT(30) DEF Follows, Extends, WellFormed, IsLog
<1> QED BY <1>6, <1>7 DEF EvictTopicOverflow

LEMMA PushFollows ==
  ASSUME NEW log, WellFormed(log), NEW topic \in Topics, NEW id \in Ids, log.head < MaxSequence
  PROVE  /\ WellFormed(Push(log, topic, id))
         /\ Follows(log, Push(log, topic, id))
         /\ Push(log, topic, id).head = log.head + 1
         /\ OnTopic(Push(log, topic, id), topic) # {}
<1> DEFINE next == Push(log, topic, id)
           added == [sequence |-> log.head + 1, topic |-> topic, id |-> id]
<1>1. /\ next.head = log.head + 1
      /\ next.records = log.records \cup {added}
      /\ DOMAIN next.evicted = DOMAIN log.evicted \cup {topic}
      /\ \A t \in DOMAIN log.evicted : next.evicted[t] = log.evicted[t]
      /\ topic \notin DOMAIN log.evicted => next.evicted[topic] = 0
  BY DEF Push
<1>2. /\ added.sequence = log.head + 1 /\ added.topic = topic
      /\ log.head \in 0 .. MaxSequence /\ MaxSequence \in Nat
  BY BoundsAssumption DEF WellFormed, IsLog
<1>3. added \in Publication
  BY <1>2, SMTT(30) DEF Publication
<1> HIDE DEF next, added
<1>4. IsLog(next)
  BY <1>1, <1>2, <1>3, SMTT(30) DEF IsLog, WellFormed
<1>5. WellFormed(next)
  BY <1>1, <1>2, <1>4, SMTT(30) DEF IsLog, WellFormed
<1>6. Follows(log, next)
  BY <1>1, <1>2, SMTT(30) DEF Follows, Extends, WellFormed, IsLog
<1>7. OnTopic(next, topic) # {}
  BY <1>1, <1>2 DEF OnTopic
<1> QED BY <1>1, <1>5, <1>6, <1>7 DEF next

LEMMA FollowsTransitive ==
  ASSUME NEW a, NEW b, NEW c, WellFormed(a), WellFormed(b), WellFormed(c),
         Follows(a, b), Follows(b, c)
  PROVE  Follows(a, c)
<1>1. /\ a.head \in Nat /\ b.head \in Nat /\ c.head \in Nat
      /\ \A t \in DOMAIN a.evicted : a.evicted[t] \in Nat
      /\ \A t \in DOMAIN b.evicted : b.evicted[t] \in Nat
      /\ \A t \in DOMAIN c.evicted : c.evicted[t] \in Nat
      /\ \A r \in a.records \cup b.records \cup c.records : r.sequence \in Nat
  BY BoundsAssumption, SMTT(30) DEF WellFormed, IsLog
<1>2. Extends(a, c)
  BY <1>1, SMTT(30) DEF Follows, Extends
<1>3. ASSUME NEW r \in a.records
      PROVE  /\ r.topic \in DOMAIN c.evicted
             /\ r \in c.records \/ r.sequence <= c.evicted[r.topic]
  <2>1. CASE r \in b.records
    BY <2>1 DEF Follows
  <2>2. CASE r.sequence <= b.evicted[r.topic]
    BY <1>1, <2>2, SMTT(30) DEF Follows, Extends
  <2> QED BY <2>1, <2>2 DEF Follows
<1> QED BY <1>2, <1>3 DEF Follows

\* The log that append leaves is a legitimate successor, one sequence further.
LEMMA AppendFollows ==
  ASSUME NEW log, WellFormed(log), NEW topic \in Topics, NEW id \in Ids, log.head < MaxSequence,
         NEW next \in append(log, topic, id)
  PROVE  WellFormed(next) /\ Follows(log, next) /\ next.head = log.head + 1
<1> DEFINE pushed == Push(log, topic, id)
           trimmed == EvictTopicOverflow(pushed, topic)
<1>1. /\ WellFormed(pushed) /\ Follows(log, pushed) /\ pushed.head = log.head + 1
      /\ OnTopic(pushed, topic) # {}
  BY PushFollows
<1>2. WellFormed(trimmed) /\ Follows(pushed, trimmed) /\ trimmed.head = log.head + 1
  <2> HIDE DEF pushed
  <2> QED BY <1>1, EvictTopicOverflowFollows
<1>3. PICK cut \in 0 .. trimmed.head : next = evict_oldest(trimmed, cut)
  <2>1. PICK cut \in FittingCuts(trimmed) : next = evict_oldest(trimmed, cut)
    BY DEF append
  <2>2. cut \in 0 .. trimmed.head
    BY <2>1 DEF FittingCuts
  <2> QED BY <2>1, <2>2
<1> HIDE DEF trimmed, pushed
<1>4. cut \in Nat
  BY <1>2, <1>3, SMTT(30) DEF WellFormed, IsLog
<1>5. WellFormed(next) /\ Follows(trimmed, next) /\ next.head = log.head + 1
  BY <1>2, <1>3, <1>4, EvictOldestFollows
<1>6. Follows(log, trimmed)
  BY <1>1, <1>2, FollowsTransitive
<1>7. Follows(log, next)
  BY <1>2, <1>5, <1>6, FollowsTransitive
<1> QED BY <1>5, <1>7

-----------------------------------------------------------------------------
LEMMA FollowsReflexive ==
  ASSUME NEW log, WellFormed(log)
  PROVE  Follows(log, log)
BY WellFormedNumbers, SMTT(30) DEF Follows, Extends, WellFormed

\* A log that follows a sound one accounts for the same disclosures.
LEMMA FollowsAccounts ==
  ASSUME NEW log, NEW base, NEW known, WellFormed(base), UpTo(base.head, known),
         Accounts(log, base, known), NEW next, WellFormed(next), Follows(log, next)
  PROVE  Accounts(next, base, known)
<1>1. WellFormed(log)
  BY DEF Accounts
<1>2. Covers(next, known)
  <2> SUFFICES ASSUME NEW p \in known
               PROVE  /\ p.topic \in DOMAIN next.evicted
                      /\ p \in next.records \/ p.sequence <= next.evicted[p.topic]
    BY DEF Covers
  <2>1. p.topic \in DOMAIN log.evicted /\ p.sequence \in Nat
    BY WellFormedNumbers, SMTT(30) DEF Accounts, Covers, UpTo
  <2>2. CASE p \in log.records
    BY <2>2 DEF Follows
  <2>3. CASE p.sequence <= log.evicted[p.topic]
    <3>1. p.topic \in DOMAIN next.evicted /\ log.evicted[p.topic] <= next.evicted[p.topic]
      BY <2>1 DEF Follows, Extends
    <3>2. log.evicted[p.topic] \in Nat /\ next.evicted[p.topic] \in Nat
      BY <1>1, <2>1, <3>1, WellFormedNumbers
    <3> QED BY <2>1, <2>3, <3>1, <3>2, SMTT(30)
  <2> QED BY <2>2, <2>3 DEF Accounts, Covers
<1>3. Agrees(next, known)
  <2> SUFFICES ASSUME NEW r \in next.records, NEW p \in known, r.sequence = p.sequence
               PROVE  r = p
    BY DEF Agrees
  <2>1. p.sequence <= base.head /\ base.head <= log.head
    BY WellFormedNumbers, SMTT(30) DEF UpTo, Accounts, Follows, Extends
  <2>2. r.sequence <= log.head
    BY <1>1, <2>1, WellFormedNumbers, SMTT(30)
  <2>3. r \in log.records
    BY <2>2 DEF Follows, Extends
  <2> QED BY <2>3 DEF Accounts, Agrees
<1>4. Follows(base, next)
  BY <1>1, FollowsTransitive DEF Accounts
<1> QED BY <1>2, <1>3, <1>4 DEF Accounts

LEMMA InvariantFacts ==
  ASSUME IInv
  PROVE  /\ WellFormed(live) /\ WellFormed(durable) /\ Follows(live, live)
         /\ Follows(live, durable) /\ live.head <= durable.head
         /\ Accounts(live, live, disclosed) /\ Accounts(durable, live, disclosed)
         /\ UpTo(live.head, disclosed)
         /\ offer.after \in Nat /\ offer.through \in 0 .. live.head
<1>1. /\ Accounts(live, live, disclosed) /\ Accounts(durable, live, disclosed)
      /\ UpTo(live.head, disclosed)
      /\ offer.after \in Nat /\ offer.through \in 0 .. live.head
  BY DEF IInv
<1>2. /\ WellFormed(live) /\ WellFormed(durable) /\ Follows(live, live)
      /\ Follows(live, durable)
  BY <1>1 DEF Accounts
<1>3. live.head <= durable.head
  BY <1>2 DEF Follows, Extends
<1> QED BY <1>1, <1>2, <1>3

\* The initial logs are empty, and nothing has been disclosed.
THEOREM InitInvariant == Init => IInv
<1> SUFFICES ASSUME Init PROVE IInv
  OBVIOUS
<1>1. /\ live = new /\ durable = new /\ staged = NoLog /\ saved = FALSE
      /\ disclosed = {} /\ offer = NoOffer
  BY DEF Init
<1>2. new.head = 0 /\ new.records = {} /\ DOMAIN new.evicted = {}
  BY DEF new
<1>3. WellFormed(new)
  BY <1>2, BoundsAssumption, SMTT(30) DEF WellFormed, IsLog
<1>4. Accounts(new, new, {})
  BY <1>3, FollowsReflexive DEF Accounts, Covers, Agrees
<1>5. /\ NoOffer.after = 0 /\ NoOffer.through = 0 /\ NoOffer.topics = {}
      /\ NoOffer.packets = {}
  BY DEF NoOffer
<1>6. TypeOK
  BY <1>1, <1>3, <1>5 DEF TypeOK, WellFormed
<1>7. UpTo(new.head, {}) /\ Complete(NoOffer, new.records) /\ Complete(NoOffer, {})
  BY <1>2 DEF UpTo, Complete
<1> QED BY <1>1, <1>2, <1>4, <1>5, <1>6, <1>7, SMTT(30) DEF IInv, SequenceNamesOnePublication

\* A new candidate is one sequence ahead of the live log.
LEMMA StageStep ==
  ASSUME IInv, NEW topic \in Topics, NEW id \in Ids, NEW number, Stage(topic, id, number)
  PROVE  IInv'
<1>1. /\ Accounts(live, live, disclosed) /\ WellFormed(live) /\ UpTo(live.head, disclosed)
      /\ live.head < MaxSequence
  BY InvariantFacts DEF Stage, CanAppend
<1>2. PICK next \in append(live, topic, id) : staged' = next
  BY DEF Stage
<1>3. WellFormed(next) /\ Follows(live, next) /\ next.head = live.head + 1
  BY <1>1, <1>2, AppendFollows
<1>4. Accounts(next, live, disclosed)
  BY <1>1, <1>3, FollowsAccounts
<1>5. UNCHANGED <<live, durable, disclosed, offer>> /\ saved' = FALSE
  BY DEF Stage
<1>6. TypeOK'
  BY <1>2, <1>3, <1>5 DEF IInv, TypeOK, WellFormed
<1> QED BY SMTT(30), <1>2, <1>3, <1>4, <1>5, <1>6 DEF IInv, SequenceNamesOnePublication

\* The saved copy may lack publications, never the knowledge that they existed.
LEMMA SaveStep ==
  ASSUME IInv, Save
  PROVE  IInv'
<1>1. /\ staged # NoLog /\ Accounts(staged, live, disclosed) /\ WellFormed(staged)
      /\ WellFormed(live) /\ UpTo(live.head, disclosed)
  <2>1. staged # NoLog /\ Accounts(staged, live, disclosed)
    BY DEF Save, IInv
  <2> QED BY <2>1, InvariantFacts DEF Accounts
<1>2. PICK cut \in 0 .. staged.head : durable' = evict_oldest(staged, cut)
  BY DEF Save
<1>3. cut \in Nat
  BY <1>1, <1>2, WellFormedNumbers, SMTT(30)
<1> DEFINE next == evict_oldest(staged, cut)
<1>4. WellFormed(next) /\ Follows(staged, next) /\ next.head = staged.head
  BY <1>1, <1>3, EvictOldestFollows
<1>5. durable' = next /\ UNCHANGED <<live, staged, disclosed, offer>> /\ saved' = TRUE
  BY <1>2 DEF Save
<1> HIDE DEF next
<1>6. Accounts(next, live, disclosed)
  BY <1>1, <1>4, FollowsAccounts
<1>7. TypeOK'
  BY SMTT(30), <1>4, <1>5 DEF IInv, TypeOK, WellFormed
<1> QED BY <1>1, <1>4, <1>5, <1>6, <1>7 DEF IInv, SequenceNamesOnePublication

\* The released publication is the one sequence beyond the old live head.
LEMMA AdoptStep ==
  ASSUME IInv, Adopt
  PROVE  IInv'
<1> DEFINE released == {r \in staged.records : r.sequence = staged.head}
<1>1. /\ Accounts(staged, live, disclosed) /\ staged.head = live.head + 1
      /\ staged.head = durable.head /\ Follows(staged, durable)
      /\ Accounts(durable, live, disclosed) /\ UpTo(live.head, disclosed)
  <2>1. /\ Accounts(staged, live, disclosed) /\ staged.head = live.head + 1
        /\ staged.head = durable.head /\ Follows(staged, durable)
    BY DEF Adopt, IInv
  <2> QED BY <2>1, InvariantFacts
<1>2. /\ live' = staged /\ staged' = NoLog /\ saved' = FALSE
      /\ disclosed' = disclosed \cup released /\ UNCHANGED <<durable, offer>>
  BY DEF Adopt
<1>3. WellFormed(live) /\ WellFormed(staged) /\ WellFormed(durable) /\ Follows(live, staged)
  BY <1>1, InvariantFacts DEF Accounts
<1>4. /\ live.head \in Nat /\ staged.head \in Nat
      /\ \A r \in staged.records \cup durable.records : r.sequence \in Nat
  BY <1>3, WellFormedNumbers
<1>5. Accounts(staged, staged, disclosed \cup released)
  <2>1. Follows(staged, staged)
    BY SMTT(30), <1>3, FollowsReflexive
  <2>2. Covers(staged, disclosed \cup released)
    BY SMTT(20), <1>1, <1>3 DEF Accounts, Covers, WellFormed
  <2>3. Agrees(staged, disclosed \cup released)
    BY <1>1, <1>3 DEF Accounts, Agrees, WellFormed
  <2> QED BY <1>3, <2>1, <2>2, <2>3 DEF Accounts
<1>6. Accounts(durable, staged, disclosed \cup released)
  <2>1. Covers(durable, disclosed \cup released)
    BY <1>1 DEF Accounts, Covers, Follows
  <2>2. ASSUME NEW r \in durable.records, NEW p \in released, r.sequence = p.sequence
        PROVE  r = p
    <3>1. r.sequence <= staged.head
      BY <1>4, <2>2, SMTT(30)
    <3>2. r \in staged.records
      BY <1>1, <3>1 DEF Follows, Extends
    <3> QED BY <1>3, <2>2, <3>2 DEF WellFormed
  <2>3. Agrees(durable, disclosed \cup released)
    BY <1>1, <2>2 DEF Accounts, Agrees
  <2> QED BY <1>1, <1>3, <2>1, <2>3 DEF Accounts
<1>7. UpTo(staged.head, disclosed \cup released)
  BY <1>1, <1>3, <1>4, SMTT(30) DEF UpTo, WellFormed
<1>8. offer.after \in Nat /\ offer.through \in 0 .. live.head /\ offer.through \in 0 .. staged.head
  BY <1>1, <1>4, InvariantFacts, SMTT(30)
<1>9. Complete(offer, disclosed \cup released)
  <2>1. \A p \in released : ~ InRange(p, offer.after, offer.through, offer.topics)
    BY <1>1, <1>4, <1>8, SMTT(30) DEF InRange
  <2> QED BY <2>1 DEF IInv, Complete
<1>10. Complete(offer, staged.records)
  <2> SUFFICES ASSUME NEW r \in staged.records,
                      InRange(r, offer.after, offer.through, offer.topics)
               PROVE  r \in offer.packets
    BY DEF Complete
  <2>1. r.sequence <= live.head
    BY <1>4, <1>8, SMTT(30) DEF InRange
  <2>2. r \in live.records
    BY <1>3, <2>1 DEF Follows, Extends
  <2> QED BY <2>2 DEF IInv, Complete
<1>11. \A p, q \in disclosed \cup released : p.sequence = q.sequence => p = q
  <2>1. \A p \in disclosed, q \in released : p.sequence # q.sequence
    BY <1>1, <1>4, SMTT(30) DEF UpTo
  <2>2. \A p, q \in released : p = q
    BY <1>3 DEF WellFormed
  <2> QED BY <2>1, <2>2 DEF IInv, SequenceNamesOnePublication
<1>12. released \subseteq Publication
  BY SMTT(30), <1>3 DEF WellFormed, IsLog
<1>13. TypeOK'
  BY <1>2, <1>3, <1>12 DEF IInv, TypeOK, WellFormed
<1> HIDE DEF released
<1> QED BY <1>2, <1>5, <1>6, <1>7, <1>8, <1>9, <1>10, <1>11, <1>13 DEF IInv, SequenceNamesOnePublication

LEMMA DiscardStep ==
  ASSUME IInv, Discard
  PROVE  IInv'
<1>1. TypeOK'
  BY DEF Discard, IInv, TypeOK
<1> QED BY <1>1 DEF Discard, IInv, SequenceNamesOnePublication

\* A range that select returns holds every disclosed and every retained
\* publication of the range.
LEMMA SelectComplete ==
  ASSUME NEW log, WellFormed(log), NEW after \in Nat, NEW through \in Nat, NEW topics,
         select(log, after, through, topics).error = "None"
  PROVE  /\ through <= log.head
         /\ select(log, after, through, topics).records \subseteq log.records
         /\ \A r \in log.records :
               InRange(r, after, through, topics) =>
                 r \in select(log, after, through, topics).records
         /\ \A t \in topics \cap DOMAIN log.evicted : log.evicted[t] <= after
<1> DEFINE known == topics \cap DOMAIN log.evicted
           range == select(log, after, through, topics)
           invalid == \/ after >= through \/ through > log.head
                      \/ topics = {} \/ Cardinality(topics) > MAX_TOPICS
           upTo(t) == {s \in known : s <= t}
           found(ts) == {r \in log.records : InRange(r, after, through, ts)}
           missing(t) == after < log.evicted[t]
           tooLarge(t) == Cardinality(found(upTo(t))) > MAX_RECOVERY_PACKETS
           failing == {t \in known : missing(t) \/ tooLarge(t)}
           reason == IF missing(Min(failing)) THEN "Unavailable" ELSE "TooLarge"
<1>1. range = IF invalid THEN [error |-> "Invalid", records |-> {}]
              ELSE IF failing # {} THEN [error |-> reason, records |-> {}]
              ELSE [error |-> "None", records |-> found(known)]
  BY DEF select
<1>2. reason \in {"Unavailable", "TooLarge"}
  OBVIOUS
<1>3. ~ invalid /\ failing = {} /\ range.records = found(known)
  <2> HIDE DEF range, invalid, failing, reason, found
  <2>1. range.error = "None"
    BY DEF range
  <2> QED BY <1>1, <1>2, <2>1
<1>4. through <= log.head
  BY <1>3, BoundsAssumption, SMTT(30) DEF WellFormed, IsLog
<1>5. \A t \in known : ~ missing(t) /\ log.evicted[t] \in Nat
  <2>1. \A t \in known : log.evicted[t] \in Nat
    BY WellFormedNumbers
  <2>2. \A t \in known : t \notin failing
    BY SMTT(20), <1>3
  <2> HIDE DEF tooLarge
  <2> QED BY <2>1, <2>2
<1> QED BY <1>3, <1>4, <1>5, SMTT(30) DEF InRange, WellFormed

\* Serving discloses only retained publications of the live log.
LEMMA ServeStep ==
  ASSUME IInv, NEW after \in 0 .. MaxSequence, NEW through \in 0 .. MaxSequence,
         NEW topics \in SUBSET Topics, Serve(after, through, topics)
  PROVE  IInv'
<1> DEFINE served == select(live, after, through, topics).records
           known == disclosed \cup served
<1>1. Accounts(live, live, disclosed) /\ WellFormed(live) /\ UpTo(live.head, disclosed)
  BY InvariantFacts
<1>2. after \in Nat /\ through \in Nat
  BY SMTT(20), BoundsAssumption
<1>3. /\ through <= live.head
      /\ served \subseteq live.records
      /\ \A r \in live.records : InRange(r, after, through, topics) => r \in served
      /\ \A t \in topics \cap DOMAIN live.evicted : live.evicted[t] <= after
  BY SMTT(20), <1>1, <1>2, SelectComplete DEF Serve
<1>4. /\ offer' = [after |-> after, through |-> through, topics |-> topics, packets |-> served]
      /\ disclosed' = known /\ UNCHANGED <<live, staged, saved, durable>>
  BY DEF Serve
<1> HIDE DEF served
<1>5. /\ offer'.after = after /\ offer'.through = through
      /\ offer'.topics = topics /\ offer'.packets = served
  BY SMTT(30), <1>4
<1>6. \A p \in served : p \in live.records /\ p.sequence \in 1 .. live.head
  BY <1>1, <1>3 DEF WellFormed
<1>7. ASSUME NEW log, Accounts(log, live, disclosed)
      PROVE  Accounts(log, live, known)
  <2>1. Covers(log, known)
    BY <1>6, <1>7 DEF Accounts, Covers, Follows
  <2>2. ASSUME NEW r \in log.records, NEW p \in served, r.sequence = p.sequence
        PROVE  r = p
    <3>1. p.sequence <= live.head
      BY <1>1, <1>6, WellFormedNumbers, SMTT(30)
    <3>2. r \in live.records
      BY <1>7, <2>2, <3>1 DEF Accounts, Follows, Extends
    <3> QED BY <1>1, <1>6, <2>2, <3>2 DEF WellFormed
  <2>3. Agrees(log, known)
    BY <1>7, <2>2 DEF Accounts, Agrees
  <2> QED BY <1>7, <2>1, <2>3 DEF Accounts
<1>8. UpTo(live.head, known)
  BY <1>1, <1>6 DEF UpTo
<1>9. \A p, q \in known : p.sequence = q.sequence => p = q
  <2>1. \A p \in served, q \in disclosed : p.sequence = q.sequence => p = q
    BY <1>1, <1>6 DEF Accounts, Agrees
  <2>2. \A p, q \in served : p.sequence = q.sequence => p = q
    BY <1>1, <1>6 DEF WellFormed
  <2> QED BY <2>1, <2>2 DEF IInv, SequenceNamesOnePublication
<1>10. ASSUME NEW p \in known, InRange(p, after, through, topics)
       PROVE  p \in served
  <2>1. CASE p \in live.records
    BY <1>3, <1>10, <2>1
  <2>2. CASE p \in disclosed /\ p \notin live.records
    <3>1. p.topic \in DOMAIN live.evicted /\ p.sequence <= live.evicted[p.topic]
      BY <1>1, <2>2 DEF Accounts, Covers
    <3>2. p.topic \in topics /\ after < p.sequence
      BY <1>10 DEF InRange
    <3>3. live.evicted[p.topic] <= after
      BY <1>3, <3>1, <3>2
    <3>4. live.evicted[p.topic] \in Nat /\ live.head \in Nat
      BY <1>1, <3>1, WellFormedNumbers
    <3>5. p.sequence \in Nat
      BY <1>8, <3>4, SMTT(30) DEF UpTo
    <3> QED BY <1>2, <3>1, <3>2, <3>3, <3>4, <3>5, SMTT(30)
  <2> QED BY <1>6, <2>1, <2>2
<1>11. Complete(offer', known) /\ Complete(offer', live.records)
  <2>1. Complete(offer', known)
    BY <1>5, <1>10 DEF Complete
  <2>2. Complete(offer', live.records)
    BY <1>3, <1>5 DEF Complete
  <2> QED BY <2>1, <2>2
<1>12. offer'.after \in Nat /\ offer'.through \in 0 .. live.head
  BY SMTT(30), <1>1, <1>2, <1>3, <1>5, WellFormedNumbers
<1>13. served \subseteq Publication
  BY SMTT(20), <1>1, <1>3 DEF WellFormed, IsLog
<1>14. TypeOK'
  BY SMTT(30), <1>4, <1>5, <1>13 DEF IInv, TypeOK
<1> HIDE DEF known
<1> QED BY <1>4, <1>7, <1>8, <1>9, <1>11, <1>12, <1>14 DEF IInv, SequenceNamesOnePublication

\* The saved log already accounts for everything the lost live log did.
LEMMA RestartStep ==
  ASSUME IInv, Restart
  PROVE  IInv'
<1> DEFINE back == restore(durable)
<1>1. /\ live' = back /\ staged' = NoLog /\ saved' = FALSE
      /\ UNCHANGED <<durable, disclosed, offer>>
  BY DEF Restart
<1>2. /\ back.head = durable.head /\ back.records = durable.records
      /\ back.evicted = durable.evicted
  BY DEF restore
<1> HIDE DEF back
<1>3. /\ Accounts(durable, live, disclosed) /\ WellFormed(durable) /\ WellFormed(live)
      /\ Follows(live, durable) /\ live.head <= durable.head
      /\ UpTo(live.head, disclosed)
  BY SMTT(30), InvariantFacts
<1>4. WellFormed(back)
  BY <1>2, <1>3 DEF WellFormed, IsLog
<1>5. Follows(back, back) /\ Follows(back, durable)
  <2>1. Follows(durable, durable)
    BY <1>3, FollowsReflexive
  <2> QED BY <1>2, <2>1 DEF Follows, Extends
<1>6. Accounts(back, back, disclosed) /\ Accounts(durable, back, disclosed)
  <2>1. Covers(durable, disclosed) /\ Agrees(durable, disclosed)
    BY <1>3 DEF Accounts
  <2>2. Covers(back, disclosed) /\ Agrees(back, disclosed)
    BY <1>2, <2>1 DEF Covers, Agrees
  <2> QED BY <1>3, <1>4, <1>5, <2>1, <2>2 DEF Accounts
<1>7. live.head \in Nat /\ durable.head \in Nat /\ \A r \in durable.records : r.sequence \in Nat
  BY <1>3, WellFormedNumbers
<1>8. UpTo(back.head, disclosed) /\ offer.after \in Nat /\ offer.through \in 0 .. back.head
  <2>1. UpTo(back.head, disclosed)
    BY <1>2, <1>3, <1>7, SMTT(30) DEF UpTo
  <2>2. offer.after \in Nat /\ offer.through \in 0 .. live.head
    BY SMTT(30), InvariantFacts
  <2> QED BY <1>2, <1>3, <1>7, <2>1, <2>2, SMTT(30)
<1>9. Complete(offer, back.records)
  <2> SUFFICES ASSUME NEW r \in durable.records,
                      InRange(r, offer.after, offer.through, offer.topics)
               PROVE  r \in offer.packets
    BY <1>2 DEF Complete
  <2>1. r.sequence <= live.head
    BY <1>7, InvariantFacts, SMTT(30) DEF InRange
  <2>2. r \in live.records
    BY <1>3, <2>1 DEF Follows, Extends
  <2> QED BY <2>2 DEF IInv, Complete
<1>10. TypeOK'
  <2>1. IsLog(back) /\ TypeOK
    BY <1>4 DEF WellFormed, IInv
  <2> QED BY <1>1, <2>1 DEF TypeOK
<1> QED BY <1>1, <1>6, <1>8, <1>9, <1>10 DEF IInv, SequenceNamesOnePublication

LEMMA StutterStep ==
  ASSUME IInv, UNCHANGED vars
  PROVE  IInv'
<1>1. TypeOK'
  BY DEF vars, IInv, TypeOK
<1> QED BY SMTT(30), <1>1 DEF vars, IInv, SequenceNamesOnePublication

-----------------------------------------------------------------------------
\* The logs of a publisher account for everything it ever disclosed, through
\* every interleaving of append, save, adopt, discard, serve and crash.
THEOREM LogsAccountForDisclosures == Spec => []IInv
<1>1. IInv /\ [Next]_vars => IInv'
  <2> SUFFICES ASSUME IInv, [Next]_vars PROVE IInv'
    OBVIOUS
  <2>1. ASSUME NEW topic \in Topics, NEW id \in Ids, NEW number \in 0 .. MaxSequence,
               Stage(topic, id, number)
        PROVE  IInv'
    BY <2>1, StageStep
  <2>2. CASE Save
    BY <2>2, SaveStep
  <2>3. CASE Adopt
    BY <2>3, AdoptStep
  <2>4. CASE Discard
    BY <2>4, DiscardStep
  <2>5. ASSUME NEW after \in 0 .. MaxSequence, NEW through \in 0 .. MaxSequence,
               NEW topics \in SUBSET Topics, Serve(after, through, topics)
        PROVE  IInv'
    BY <2>5, ServeStep
  <2>6. CASE Restart
    BY <2>6, RestartStep
  <2>7. CASE UNCHANGED vars
    BY <2>7, StutterStep
  <2> QED BY <2>1, <2>2, <2>3, <2>4, <2>5, <2>6, <2>7 DEF Next
<1> QED BY <1>1, InitInvariant, PTL DEF Spec

\* Type correctness of the publisher.
THEOREM TypeCorrect == Spec => []TypeOK
<1>1. IInv => TypeOK
  BY DEF IInv
<1> QED BY <1>1, LogsAccountForDisclosures, PTL

\* No sequence number is ever released or served for two publications: append
\* to a clone, durable save and only then adoption suffice, whatever part of
\* the log the save had to leave out.
THEOREM SequencesAreUnique == Spec => []SequenceNamesOnePublication
<1>1. IInv => SequenceNamesOnePublication
  BY SMTT(30) DEF IInv
<1> QED BY <1>1, LogsAccountForDisclosures, PTL

\* A range once served by select stays complete: nothing disclosed later
\* belongs into it.
THEOREM OffersStayComplete == Spec => []OfferIsComplete
<1>1. IInv => OfferIsComplete
  BY DEF IInv, Complete, OfferIsComplete
<1> QED BY <1>1, LogsAccountForDisclosures, PTL

\* The head and the watermarks of the live log never move back, not even over
\* a restart from an older-looking saved copy.
THEOREM WatermarksAdvance == Spec => WatermarksOnlyAdvance
<1> DEFINE Advance ==
      /\ live'.head >= live.head
      /\ \A t \in DOMAIN live.evicted :
            t \in DOMAIN live'.evicted /\ live'.evicted[t] >= live.evicted[t]
<1>1. IInv /\ [Next]_vars => [Advance]_vars
  <2> SUFFICES ASSUME IInv, Next PROVE Advance
    OBVIOUS
  <2>1. /\ WellFormed(live) /\ WellFormed(durable)
        /\ Follows(live, live) /\ Follows(live, durable)
    BY SMTT(30), InvariantFacts
  <2>2. ASSUME NEW log, WellFormed(log), Follows(live, log),
               live'.head = log.head, live'.evicted = log.evicted
        PROVE  Advance
    BY <2>1, <2>2, WellFormedNumbers DEF Follows, Extends
  <2> HIDE DEF Advance
  <2>3. CASE UNCHANGED live
    <3>1. live'.head = live.head /\ live'.evicted = live.evicted
      BY <2>3
    <3> QED BY <2>1, <2>2, <3>1
  <2>4. CASE Adopt
    <3>1. live' = staged /\ Accounts(staged, live, disclosed)
      BY <2>4 DEF Adopt, IInv
    <3>2. WellFormed(staged) /\ Follows(live, staged)
      BY <3>1 DEF Accounts
    <3>3. live'.head = staged.head /\ live'.evicted = staged.evicted
      BY <3>1
    <3> QED BY <2>2, <3>2, <3>3
  <2>5. CASE Restart
    <3>1. live'.head = durable.head /\ live'.evicted = durable.evicted
      BY <2>5 DEF Restart, restore
    <3> QED BY <2>1, <2>2, <3>1
  <2> QED BY <2>3, <2>4, <2>5 DEF Next, Stage, Save, Discard, Serve
<1> QED BY <1>1, LogsAccountForDisclosures, PTL DEF Spec, WatermarksOnlyAdvance

-----------------------------------------------------------------------------
(* The object inbox. *)

IsReceipt(r) == r = [counter |-> r.counter, id |-> r.id, state |-> r.state]

\* A stream's receipts: no more than fit, above the floor, one for a counter.
Window(floor, receipts) ==
  /\ floor \in Nat /\ IsFiniteSet(receipts) /\ Cardinality(receipts) <= WINDOW
  /\ \A r \in receipts : IsReceipt(r) /\ r.counter \in Nat /\ floor < r.counter
  /\ \A r, q \in receipts : r.counter = q.counter => r = q

\* What keeps a resolved object of the stream from being accepted again.
Evidence(floor, receipts, counter) ==
  counter <= floor \/ \E r \in receipts : r.counter = counter /\ r.state # "pending"

\* Adding a receipt to a window that has room, or whose oldest receipt is not
\* pending, keeps the new receipt, every pending one and all evidence (Trim).
LEMMA TrimKeeps ==
  ASSUME NEW floor, NEW receipts, NEW added, Window(floor, receipts),
         IsReceipt(added), added.counter \in Nat, floor < added.counter,
         \A r \in receipts : r.counter # added.counter,
         Cardinality(receipts) = WINDOW =>
           /\ \E r \in receipts : r.counter < added.counter
           /\ ~ \E r \in receipts : r.state = "pending" /\ \A q \in receipts : r.counter <= q.counter
  PROVE  LET next == Trim(floor, receipts \cup {added})
         IN  /\ Window(next.floor, next.receipts) /\ added \in next.receipts
             /\ \A r \in receipts : r.state = "pending" => r \in next.receipts
             /\ \A r \in next.receipts : r \in receipts \/ r = added
             /\ \A c \in Nat : Evidence(floor, receipts, c) => Evidence(next.floor, next.receipts, c)
<1> DEFINE all == receipts \cup {added}
           counters == {r.counter : r \in all}
           oldest == Min(counters)
           rest == {r \in all : r.counter # oldest}
<1>1. IsFiniteSet(all) /\ Cardinality(all) = Cardinality(receipts) + 1 /\ Cardinality(receipts) \in Nat
  <2>1. IsFiniteSet(receipts) /\ added \notin receipts
    BY DEF Window
  <2> QED BY <2>1, FS_AddElement, FS_CardinalityType
<1>2. /\ \A r \in all : IsReceipt(r) /\ r.counter \in Nat /\ floor < r.counter
      /\ \A r, q \in all : r.counter = q.counter => r = q
  BY DEF Window
<1>3. oldest \in counters /\ \A c \in counters : oldest <= c
  <2>1. counters \subseteq Nat /\ counters # {}
    BY <1>2
  <2> HIDE DEF counters
  <2> QED BY <2>1, MinOfNaturals
<1>4. CASE ~ Cardinality(all) > WINDOW
  <2>1. Trim(floor, all) = [floor |-> floor, receipts |-> all]
    BY <1>4 DEF Trim
  <2>2. Window(floor, all)
    BY <1>1, <1>2, <1>4, WindowAssumption, SMTT(30) DEF Window
  <2>3. Trim(floor, all).floor = floor /\ Trim(floor, all).receipts = all
    <3> HIDE DEF all
    <3> QED BY <2>1, SMTT(30)
  <2>4. \A c \in Nat : Evidence(floor, receipts, c) => Evidence(floor, all, c)
    BY DEF Evidence
  <2>5. \A r \in all : r \in receipts \/ r = added
    OBVIOUS
  <2> HIDE DEF counters, oldest, rest
  <2> QED BY <2>2, <2>3, <2>4, <2>5
<1>5. CASE Cardinality(all) > WINDOW
  <2>1. Trim(floor, all) = [floor |-> oldest, receipts |-> rest]
    BY <1>5 DEF Trim
  <2>2. Cardinality(receipts) = WINDOW
    BY <1>1, <1>5, WindowAssumption, SMTT(30) DEF Window
  <2>3. PICK first \in all : first.counter = oldest
    BY <1>3
  <2>4. \A r \in all : first.counter <= r.counter
    BY <1>3, <2>3, SMTT(30)
  <2>5. first \in receipts /\ first.state # "pending"
    <3>1. PICK r \in receipts : r.counter < added.counter
      BY <2>2
    <3>2. first # added
      BY <1>2, <2>4, <3>1, SMTT(30)
    <3> QED BY <2>2, <2>4, <3>2
  <2>6. rest = all \ {first}
    BY <1>2, <2>3
  <2>7. IsFiniteSet(rest) /\ Cardinality(rest) = Cardinality(all) - 1
    <3> HIDE DEF all
    <3> QED BY <1>1, <2>3, <2>6, FS_RemoveElement
  <2>8. oldest \in Nat /\ floor < oldest
    BY <1>2, <2>3
  <2> HIDE DEF oldest
  <2>9. Window(oldest, rest)
    <3>1. \A r \in rest : oldest < r.counter
      BY <1>2, <2>3, <2>4, <2>8, SMTT(30)
    <3>2. Cardinality(rest) <= WINDOW
      BY <1>1, <2>2, <2>7, WindowAssumption, SMTT(30)
    <3> QED BY <1>2, <2>7, <2>8, <3>1, <3>2 DEF Window
  <2>10. added \in rest
    BY <2>3, <2>5
  <2>11. \A r \in receipts : r.state = "pending" => r \in rest
    BY <2>5, <2>6
  <2>12. ASSUME NEW c \in Nat, Evidence(floor, receipts, c) PROVE Evidence(oldest, rest, c)
    <3>1. CASE c <= floor
      BY <2>8, <3>1, SMTT(30) DEF Evidence, Window
    <3>2. CASE \E r \in receipts : r.counter = c /\ r.state # "pending"
      BY <2>3, <2>8, <3>2, SMTT(30) DEF Evidence
    <3> QED BY <2>12, <3>1, <3>2 DEF Evidence
  <2>13. \A r \in rest : r \in receipts \/ r = added
    OBVIOUS
  <2> HIDE DEF rest
  <2>14. Trim(floor, all).floor = oldest /\ Trim(floor, all).receipts = rest
    BY <2>1, SMTT(30)
  <2> QED BY <2>9, <2>10, <2>11, <2>12, <2>13, <2>14
<1> QED BY <1>4, <1>5

-----------------------------------------------------------------------------
InboxOK(inbox) ==
  /\ inbox = [s \in DOMAIN inbox |-> inbox[s]]
  /\ \A s \in DOMAIN inbox :
       /\ inbox[s] = [floor |-> inbox[s].floor, receipts |-> inbox[s].receipts]
       /\ Window(inbox[s].floor, inbox[s].receipts)

Resolved(inbox, o) ==
  o.stream \in DOMAIN inbox /\ Evidence(inbox[o.stream].floor, inbox[o.stream].receipts, o.counter)

\* Evidence rules out that the object is pending: its counter has one receipt
\* at most, and none at or below the floor (IsPending).
LEMMA ResolvedIsNotPending ==
  ASSUME NEW inbox, InboxOK(inbox), NEW o, o.counter \in Nat, Resolved(inbox, o)
  PROVE  ~ IsPending(inbox, o)
<1> SUFFICES ASSUME IsPending(inbox, o) PROVE FALSE
  OBVIOUS
<1> DEFINE floor == inbox[o.stream].floor
           receipts == inbox[o.stream].receipts
           found == [counter |-> o.counter, id |-> o.id, state |-> "pending"]
<1>1. Window(floor, receipts) /\ Evidence(floor, receipts, o.counter)
  BY DEF InboxOK, Resolved
<1>2. found \in receipts /\ found.counter = o.counter /\ found.state = "pending"
  BY DEF IsPending
<1> HIDE DEF floor, receipts, found
<1> QED BY <1>1, <1>2, SMTT(30) DEF Window, Evidence

\* What stage_scoped prepares is pending in the next inbox, and nothing that
\* was pending or resolved there is forgotten (Accept).
LEMMA AcceptKeeps ==
  ASSUME NEW inbox, InboxOK(inbox), NEW o, o.counter \in Nat \ {0}, StageResult(inbox, o) = "Prepared"
  PROVE  /\ InboxOK(Accept(inbox, o)) /\ IsPending(Accept(inbox, o), o)
         /\ \A p : IsPending(inbox, p) => IsPending(Accept(inbox, o), p)
         /\ \A p : p.counter \in Nat /\ Resolved(inbox, p) => Resolved(Accept(inbox, o), p)
<1> DEFINE stream == StreamOf(inbox, o.stream)
           floor == stream.floor
           receipts == stream.receipts
           added == [counter |-> o.counter, id |-> o.id, state |-> "pending"]
           next == Trim(floor, receipts \cup {added})
           accepting == Accept(inbox, o)
<1>1. Window(floor, receipts)
  <2>1. CASE o.stream \in DOMAIN inbox
    BY <2>1 DEF StreamOf, InboxOK
  <2>2. CASE o.stream \notin DOMAIN inbox
    BY <2>2, FS_EmptySet, WindowAssumption, SMTT(30) DEF StreamOf, NoStream, Window
  <2> QED BY <2>1, <2>2
<1>2. /\ ~ (o.counter <= floor) /\ Known(stream, o) = {}
      /\ ~ (Full(stream) /\ \A r \in receipts : o.counter < r.counter) /\ ~ Blocked(stream)
  <2> HIDE DEF stream
  <2> QED BY DEF StageResult, stream
<1>3. IsReceipt(added) /\ added.counter = o.counter /\ added.state = "pending"
  BY DEF IsReceipt
<1> HIDE DEF added
<1>4. floor < added.counter /\ \A r \in receipts : r.counter # added.counter
  BY <1>1, <1>2, <1>3, SMTT(30) DEF Known, Window
<1>5. ASSUME Cardinality(receipts) = WINDOW
      PROVE  /\ \E r \in receipts : r.counter < added.counter
             /\ ~ \E r \in receipts : r.state = "pending" /\ \A q \in receipts : r.counter <= q.counter
  <2>1. Full(stream)
    BY <1>5 DEF Full
  <2>2. PICK r \in receipts : ~ (o.counter < r.counter)
    BY <1>2, <2>1
  <2>3. r.counter < added.counter
    BY <1>1, <1>3, <1>4, <2>2, SMTT(30) DEF Window
  <2>4. ~ \E q \in PendingIn(stream) : \A u \in receipts : q.counter <= u.counter
    BY <1>2, <2>1 DEF Blocked
  <2> QED BY <2>3, <2>4 DEF PendingIn
<1>6. /\ Window(next.floor, next.receipts) /\ added \in next.receipts
      /\ \A r \in receipts : r.state = "pending" => r \in next.receipts
      /\ \A c \in Nat : Evidence(floor, receipts, c) => Evidence(next.floor, next.receipts, c)
  <2> HIDE DEF floor, receipts
  <2> QED BY <1>1, <1>3, <1>4, <1>5, TrimKeeps
<1>7. next = [floor |-> next.floor, receipts |-> next.receipts]
  BY DEF Trim
<1>8. accepting = [s \in DOMAIN inbox \cup {o.stream} |-> IF s = o.stream THEN next ELSE inbox[s]]
  BY DEF Accept, added
<1>9. /\ o.stream \in DOMAIN inbox => floor = inbox[o.stream].floor /\ receipts = inbox[o.stream].receipts
      /\ o.stream \notin DOMAIN inbox => receipts = {}
  BY DEF StreamOf, NoStream
<1> HIDE DEF floor, receipts, next, accepting
<1>10. /\ DOMAIN accepting = DOMAIN inbox \cup {o.stream} /\ accepting[o.stream] = next
       /\ \A s \in DOMAIN inbox : s # o.stream => accepting[s] = inbox[s]
  BY <1>8
<1>11. InboxOK(accepting)
  BY <1>6, <1>7, <1>8, <1>10 DEF InboxOK
<1>12. IsPending(accepting, o)
  BY <1>6, <1>10 DEF IsPending, added
<1>13. ASSUME NEW p, IsPending(inbox, p) PROVE IsPending(accepting, p)
  <2>1. CASE p.stream = o.stream
    BY <1>6, <1>9, <1>10, <1>13, <2>1 DEF IsPending
  <2>2. CASE p.stream # o.stream
    BY <1>10, <1>13, <2>2 DEF IsPending
  <2> QED BY <2>1, <2>2
<1>14. ASSUME NEW p, p.counter \in Nat, Resolved(inbox, p) PROVE Resolved(accepting, p)
  BY <1>6, <1>9, <1>10, <1>14 DEF Resolved
<1> QED BY <1>11, <1>12, <1>13, <1>14 DEF accepting

\* Resolving an object leaves evidence of it, and touches no other (Resolve).
LEMMA ResolveKeeps ==
  ASSUME NEW inbox, InboxOK(inbox), NEW o, HasReceipt(inbox, o), NEW state, state # "pending"
  PROVE  /\ InboxOK(Resolve(inbox, o, state)) /\ Resolved(Resolve(inbox, o, state), o)
         /\ \A p : IsPending(inbox, p) /\ (p.stream = o.stream => p.counter # o.counter \/ p.id # o.id) =>
                  IsPending(Resolve(inbox, o, state), p)
         /\ \A p : Resolved(inbox, p) => Resolved(Resolve(inbox, o, state), p)
<1> DEFINE floor == inbox[o.stream].floor
           receipts == inbox[o.stream].receipts
           after == {IF r.counter = o.counter THEN [r EXCEPT !.state = state] ELSE r : r \in receipts}
           next == Resolve(inbox, o, state)
<1>1. o.stream \in DOMAIN inbox /\ Window(floor, receipts)
  BY DEF HasReceipt, InboxOK
<1>2. PICK old \in receipts : old.counter = o.counter /\ old.id = o.id
  BY DEF HasReceipt
<1> DEFINE revised == [old EXCEPT !.state = state]
<1>3. IsReceipt(revised) /\ revised.counter = o.counter /\ revised.id = o.id /\ revised.state = state
  <2>1. IsReceipt(old)
    BY <1>1, <1>2 DEF Window
  <2> QED BY <1>2, <2>1, SMTT(30) DEF IsReceipt
<1>4. after = (receipts \ {old}) \cup {revised}
  <2>1. \A r \in receipts : r.counter = o.counter <=> r = old
    BY <1>1, <1>2 DEF Window
  <2> HIDE DEF receipts
  <2> QED BY <1>2, <2>1
<1>5. next = [inbox EXCEPT ![o.stream] = [inbox[o.stream] EXCEPT !.receipts = after]]
  BY DEF Resolve
<1>6. [inbox[o.stream] EXCEPT !.receipts = after] = [floor |-> floor, receipts |-> after]
  <2>1. inbox[o.stream] = [floor |-> floor, receipts |-> receipts]
    BY <1>1 DEF InboxOK
  <2> HIDE DEF floor, receipts, after
  <2> QED BY <2>1, SMTT(30)
<1> HIDE DEF after, next, revised
<1>7. /\ DOMAIN next = DOMAIN inbox /\ next = [s \in DOMAIN next |-> next[s]]
      /\ next[o.stream] = [floor |-> floor, receipts |-> after]
      /\ \A s \in DOMAIN inbox : s # o.stream => next[s] = inbox[s]
  <2> HIDE DEF floor, receipts
  <2> QED BY <1>1, <1>5, <1>6 DEF InboxOK
<1>8. next[o.stream].floor = floor /\ next[o.stream].receipts = after
  BY <1>7, SMTT(30)
<1>9. Window(floor, after)
  <2> HIDE DEF floor, receipts
  <2>1. IsFiniteSet(receipts \ {old}) /\ Cardinality(receipts \ {old}) = Cardinality(receipts) - 1
        /\ Cardinality(receipts) \in Nat
    BY <1>1, <1>2, FS_RemoveElement, FS_CardinalityType DEF Window
  <2> DEFINE others == receipts \ {old}
  <2> HIDE DEF others
  <2>2. IsFiniteSet(others \cup {revised}) /\ Cardinality(others \cup {revised}) <= Cardinality(others) + 1
    <3>1. IsFiniteSet(others) /\ Cardinality(others) \in Nat
      BY <2>1, FS_CardinalityType DEF others
    <3>2. /\ IsFiniteSet(others \cup {revised})
          /\ Cardinality(others \cup {revised}) = IF revised \in others THEN Cardinality(others) ELSE Cardinality(others) + 1
      BY <3>1, FS_AddElement
    <3> QED BY <3>1, <3>2, SMTT(30)
  <2>3. IsFiniteSet(after) /\ Cardinality(after) <= WINDOW
    <3>1. after = others \cup {revised}
      BY <1>4 DEF others
    <3>2. Cardinality(receipts) <= WINDOW /\ Cardinality(others) = Cardinality(receipts) - 1
      BY <1>1, <2>1 DEF Window, others
    <3>3. Cardinality(after) \in Nat
      BY <2>2, <3>1, FS_CardinalityType
    <3> QED BY <2>1, <2>2, <3>1, <3>2, <3>3, WindowAssumption, SMTT(30)
  <2>4. \A r \in after : IsReceipt(r) /\ r.counter \in Nat /\ floor < r.counter
    BY <1>1, <1>2, <1>3, <1>4 DEF Window
  <2>5. \A r, q \in after : r.counter = q.counter => r = q
    BY <1>1, <1>2, <1>3, <1>4, SMTT(30) DEF Window
  <2> QED BY <1>1, <2>3, <2>4, <2>5 DEF Window
<1>10. InboxOK(next)
  BY <1>7, <1>8, <1>9, SMTT(30) DEF InboxOK
<1>11. Resolved(next, o)
  <2>1. revised \in after /\ revised.counter = o.counter /\ revised.state # "pending"
    BY <1>3, <1>4
  <2> QED BY <1>1, <1>7, <1>8, <2>1 DEF Resolved, Evidence
<1>12. ASSUME NEW p, IsPending(inbox, p), p.stream = o.stream => p.counter # o.counter \/ p.id # o.id
       PROVE  IsPending(next, p)
  <2> DEFINE found == [counter |-> p.counter, id |-> p.id, state |-> "pending"]
  <2>1. found.counter = p.counter /\ found.id = p.id
    OBVIOUS
  <2>2. p.stream \in DOMAIN inbox /\ found \in inbox[p.stream].receipts
    BY <1>12 DEF IsPending
  <2> HIDE DEF found
  <2>3. CASE p.stream = o.stream
    <3>1. found # old
      BY <1>2, <1>12, <2>1, <2>3
    <3> QED BY <1>4, <1>7, <1>8, <2>2, <2>3, <3>1 DEF IsPending, found
  <2>4. CASE p.stream # o.stream
    BY <1>7, <2>2, <2>4 DEF IsPending, found
  <2> QED BY <2>3, <2>4
<1>13. ASSUME NEW p, Resolved(inbox, p) PROVE Resolved(next, p)
  <2>1. CASE p.stream = o.stream
    <3>1. Evidence(floor, receipts, p.counter)
      BY <1>13, <2>1 DEF Resolved
    <3>2. Evidence(floor, after, p.counter)
      <4> HIDE DEF floor, receipts
      <4> QED BY <1>2, <1>3, <1>4, <3>1 DEF Evidence
    <3> QED BY <1>1, <1>7, <1>8, <2>1, <3>2 DEF Resolved
  <2>2. CASE p.stream # o.stream
    BY <1>7, <1>13, <2>2 DEF Resolved
  <2> QED BY <2>1, <2>2
<1> QED BY <1>10, <1>11, <1>12, <1>13 DEF next

-----------------------------------------------------------------------------
\* The live inbox, the saved one and the candidate agree on every promise: what
\* was accepted and not asked about is pending in each, what was settled is
\* resolved in each.  A saved candidate is what a restart finds.
Keeps(inbox) ==
  /\ InboxOK(inbox)
  /\ \A o \in accepted \ asked : IsPending(inbox, o)
  /\ \A o \in settled : Resolved(inbox, o)

Inv ==
  /\ queue \subseteq Objects /\ settled \subseteq Objects /\ accepted \subseteq Objects
  /\ Keeps(adopted) /\ Keeps(disk)
  /\ candidate # <<>> =>
       /\ Keeps(candidate[1]) /\ candidate[2] \in Objects
       /\ IsPending(candidate[1], candidate[2]) \/ Resolved(candidate[1], candidate[2])
  /\ written => candidate # <<>> /\ disk = candidate[1]

\* The inbox starts empty.
LEMMA InitInv == InboxInit => Inv
BY DEF InboxInit, Inv, Keeps, InboxOK, Empty

\* Every step of the session keeps the promises in all three copies.
LEMMA NextInv == ASSUME Inv, [InboxNext]_inboxVars PROVE Inv'
<1>1. ASSUME NEW o \in Objects, Deliver(o) PROVE Inv'
  BY <1>1 DEF Deliver, Inv, Keeps
<1>2. ASSUME NEW o \in Objects, PollProtected(o) PROVE Inv'
  <2>1. CASE StageResult(adopted, o) = "Prepared"
    <3>1. candidate' = <<Accept(adopted, o), o>> /\ written' = FALSE
      BY <1>2, <2>1 DEF PollProtected
    <3>2. InboxOK(adopted) /\ o.counter \in Nat \ {0}
      BY ObjectsAssumption DEF Inv, Keeps
    <3>3. \A p \in settled : p.counter \in Nat
      BY ObjectsAssumption DEF Inv
    <3>4. Keeps(Accept(adopted, o)) /\ IsPending(Accept(adopted, o), o)
      BY <2>1, <3>2, <3>3, AcceptKeeps DEF Inv, Keeps
    <3>5. UNCHANGED <<adopted, disk, accepted, asked, settled>> /\ queue' \subseteq queue
      BY <1>2 DEF PollProtected
    <3> QED BY <3>1, <3>4, <3>5 DEF Inv, Keeps
  <2>2. CASE StageResult(adopted, o) # "Prepared"
    BY <1>2, <2>2 DEF PollProtected, Inv, Keeps
  <2> QED BY <2>1, <2>2
<1>3. ASSUME NEW o \in Objects, NEW state \in {"acknowledged", "rejected"}, HasReceipt(adopted, o),
             candidate' = <<Resolve(adopted, o, state), o>>, written' = FALSE, asked' = asked \cup {o},
             UNCHANGED <<queue, adopted, disk, accepted, settled>>
      PROVE  Inv'
  <2>1. InboxOK(adopted)
    BY DEF Inv, Keeps
  <2>2. ASSUME NEW p \in accepted \ asked' PROVE p.stream = o.stream => p.counter # o.counter \/ p.id # o.id
    <3>1. p # o /\ p \in Objects
      BY <1>3, <2>2 DEF Inv
    <3> QED BY <3>1, ObjectsAssumption
  <2>3. \A p \in accepted \ asked' : IsPending(adopted, p)
    BY <1>3 DEF Inv, Keeps
  <2> DEFINE next == Resolve(adopted, o, state)
  <2>4. /\ InboxOK(next) /\ Resolved(next, o) /\ \A p \in accepted \ asked' : IsPending(next, p)
        /\ \A p \in settled : Resolved(next, p)
    BY <1>3, <2>1, <2>2, <2>3, ResolveKeeps DEF Inv, Keeps
  <2> HIDE DEF next
  <2>5. Keeps(adopted)' /\ Keeps(disk)'
    BY <1>3 DEF Inv, Keeps
  <2>6. candidate'[1] = next /\ candidate'[2] = o
    BY <1>3 DEF next
  <2>7. InboxOK(candidate'[1]) /\ (\A p \in (accepted \ asked)' : IsPending(candidate'[1], p))
        /\ (\A p \in settled' : Resolved(candidate'[1], p)) /\ Resolved(candidate'[1], candidate'[2])
    BY <1>3, <2>4, <2>6
  <2> QED BY <1>3, <2>5, <2>6, <2>7 DEF Inv, Keeps
<1>4. ASSUME NEW o \in Objects, Acknowledge(o) PROVE Inv'
  BY <1>3, <1>4 DEF Acknowledge
<1>5. ASSUME NEW o \in Objects, Reject(o) PROVE Inv'
  <2>1. HasReceipt(adopted, o)
    BY <1>5 DEF Reject, IsPending, HasReceipt
  <2> QED BY <1>3, <1>5, <2>1 DEF Reject
<1>6. CASE SaveInbox
  BY <1>6 DEF SaveInbox, Inv, Keeps
<1>7. CASE AdoptReception
  <2>1. adopted' = candidate[1] /\ disk' = candidate[1] /\ candidate' = <<>> /\ written' = FALSE
    BY <1>7 DEF AdoptReception, Inv
  <2>2. /\ accepted' = accepted \cup (IF IsPending(candidate[1], candidate[2]) THEN {candidate[2]} ELSE {})
        /\ settled' = settled \cup (IF IsPending(candidate[1], candidate[2]) THEN {} ELSE {candidate[2]})
        /\ asked' = asked /\ queue' = queue
    BY <1>7 DEF AdoptReception
  <2>3. /\ Keeps(candidate[1]) /\ candidate[2] \in Objects
        /\ IsPending(candidate[1], candidate[2]) \/ Resolved(candidate[1], candidate[2])
    BY <1>7 DEF AdoptReception, Inv
  <2>4. InboxOK(candidate[1]) /\ (\A o \in (accepted \ asked)' : IsPending(candidate[1], o))
        /\ (\A o \in settled' : Resolved(candidate[1], o))
    BY <2>2, <2>3 DEF Keeps
  <2> QED BY <2>1, <2>2, <2>3, <2>4 DEF Inv, Keeps
<1>8. CASE DiscardReception
  BY <1>8 DEF DiscardReception, Inv, Keeps
<1>9. CASE RestartInbox
  BY <1>9 DEF RestartInbox, Inv, Keeps
<1>10. CASE UNCHANGED inboxVars
  BY <1>10 DEF inboxVars, Inv, Keeps
<1> QED BY <1>1, <1>2, <1>4, <1>5, <1>6, <1>7, <1>8, <1>9, <1>10 DEF InboxNext

-----------------------------------------------------------------------------
\* The inductive invariant of the inbox.
THEOREM Invariant == InboxSpec => []Inv
BY InitInv, NextInv, PTL DEF InboxSpec

\* No object that the application was shown and has not resolved leaves the
\* inbox, live or saved, whatever arrives, is discarded or is lost in a crash
\* (stage_scoped: "Never discard an undelivered object to make room").
THEOREM AcceptedIsKept == InboxSpec => []AcceptedStaysPending
<1>1. Inv => AcceptedStaysPending
  BY DEF Inv, Keeps, AcceptedStaysPending
<1> QED BY <1>1, Invariant, PTL

\* No copy of a resolved object, however late, is ever pending again, in the
\* live inbox, the saved one or a candidate (receipts and floors of stage_scoped).
THEOREM ResolvedIsFinal == InboxSpec => []ResolvedStaysResolved
<1>1. Inv => ResolvedStaysResolved
  <2> SUFFICES ASSUME Inv, NEW o \in settled
               PROVE  /\ ~ IsPending(adopted, o) /\ ~ IsPending(disk, o)
                      /\ candidate # <<>> => ~ IsPending(candidate[1], o)
    BY DEF ResolvedStaysResolved
  <2>1. o.counter \in Nat
    BY ObjectsAssumption DEF Inv
  <2> QED BY <2>1, ResolvedIsNotPending DEF Inv, Keeps
<1> QED BY <1>1, Invariant, PTL
-----------------------------------------------------------------------------
(* What is saved can be restored. *)

\* A stream is in the inbox because of a receipt; its receipts are of sent
\* objects, one for an identifier.
Fits(inbox) ==
  /\ DOMAIN inbox \subseteq {o.stream : o \in Objects}
  /\ IsFiniteSet(DOMAIN inbox) /\ Cardinality(DOMAIN inbox) <= MAX_STREAMS
  /\ \A s \in DOMAIN inbox :
       /\ inbox[s].receipts # {}
       /\ \A r, q \in inbox[s].receipts : r.id = q.id => r = q
       /\ \A r \in inbox[s].receipts :
            /\ \E o \in Objects : o.stream = s /\ o.counter = r.counter /\ o.id = r.id
            /\ r.state \in {"pending", "acknowledged", "rejected"}

FitInv ==
  /\ Fits(adopted) /\ Fits(disk) /\ (candidate # <<>> => Fits(candidate[1]))
  /\ written \in BOOLEAN /\ asked \subseteq Objects /\ restarts \in 0 .. MaxCrashes

\* An identifier names one receipt of the window, and a stream is added only
\* while there is room for it (Accept, after stage_scoped prepared it).
LEMMA AcceptFits ==
  ASSUME NEW inbox, InboxOK(inbox), Fits(inbox), NEW o \in Objects, StageResult(inbox, o) = "Prepared"
  PROVE  Fits(Accept(inbox, o))
<1> DEFINE stream == StreamOf(inbox, o.stream)
           added == [counter |-> o.counter, id |-> o.id, state |-> "pending"]
           all == stream.receipts \cup {added}
           next == Trim(stream.floor, all)
           accepting == Accept(inbox, o)
<1>1. added.counter = o.counter /\ added.id = o.id /\ added.state = "pending"
  OBVIOUS
<1>2. ~ IdTaken(stream, o) /\ ~ (o.stream \notin DOMAIN inbox /\ Cardinality(DOMAIN inbox) = MAX_STREAMS)
  <2> HIDE DEF stream
  <2> QED BY DEF StageResult, stream
<1>3. accepting = [s \in DOMAIN inbox \cup {o.stream} |-> IF s = o.stream THEN next ELSE inbox[s]]
  BY DEF Accept
<1>4. /\ o.stream \in DOMAIN inbox => stream.receipts = inbox[o.stream].receipts
      /\ o.stream \notin DOMAIN inbox => stream.receipts = {}
  BY DEF StreamOf, NoStream
<1>5. IsPending(accepting, o)
  BY ObjectsAssumption, AcceptKeeps
<1> HIDE DEF stream, added
<1>6. next.receipts \subseteq all
  BY DEF Trim
<1>7. /\ \A r, q \in all : r.id = q.id => r = q
      /\ \A r \in all : /\ \E p \in Objects : p.stream = o.stream /\ p.counter = r.counter /\ p.id = r.id
                        /\ r.state \in {"pending", "acknowledged", "rejected"}
  <2>1. \A r \in stream.receipts :
          /\ \E p \in Objects : p.stream = o.stream /\ p.counter = r.counter /\ p.id = r.id
          /\ r.state \in {"pending", "acknowledged", "rejected"}
    BY <1>4 DEF Fits
  <2>2. \A r, q \in stream.receipts : r.id = q.id => r = q
    BY <1>4, SMTT(30) DEF Fits
  <2>3. \A r \in stream.receipts : r.id # o.id
    BY <1>2 DEF IdTaken
  <2> QED BY <1>1, <2>1, <2>2, <2>3, SMTT(30)
<1> HIDE DEF next, accepting, all
<1>8. /\ DOMAIN accepting = DOMAIN inbox \cup {o.stream} /\ accepting[o.stream] = next
      /\ \A s \in DOMAIN inbox : s # o.stream => accepting[s] = inbox[s]
  BY <1>3
<1>9. next.receipts # {}
  BY <1>5, <1>8 DEF IsPending
<1>10. IsFiniteSet(DOMAIN accepting) /\ Cardinality(DOMAIN accepting) <= MAX_STREAMS
  <2>1. IsFiniteSet(DOMAIN inbox) /\ Cardinality(DOMAIN inbox) \in Nat /\ Cardinality(DOMAIN inbox) <= MAX_STREAMS
    BY FS_CardinalityType DEF Fits
  <2>2. /\ IsFiniteSet(DOMAIN inbox \cup {o.stream})
        /\ Cardinality(DOMAIN inbox \cup {o.stream}) =
             IF o.stream \in DOMAIN inbox THEN Cardinality(DOMAIN inbox) ELSE Cardinality(DOMAIN inbox) + 1
    BY <2>1, FS_AddElement
  <2> QED BY <1>2, <1>8, <2>1, <2>2, WindowAssumption, SMTT(30)
<1>11. DOMAIN accepting \subseteq {p.stream : p \in Objects}
  BY <1>8, SMTT(30) DEF Fits
<1>12. ASSUME NEW s \in DOMAIN accepting
       PROVE  /\ accepting[s].receipts # {}
              /\ \A r, q \in accepting[s].receipts : r.id = q.id => r = q
              /\ \A r \in accepting[s].receipts :
                   /\ \E p \in Objects : p.stream = s /\ p.counter = r.counter /\ p.id = r.id
                   /\ r.state \in {"pending", "acknowledged", "rejected"}
  <2>1. CASE s = o.stream
    BY <1>6, <1>7, <1>8, <1>9, <2>1
  <2>2. CASE s # o.stream
    <3>1. s \in DOMAIN inbox /\ accepting[s] = inbox[s]
      BY <1>8, <2>2
    <3> QED BY <3>1 DEF Fits
  <2> QED BY <2>1, <2>2
<1>13. Fits(accepting)
  BY <1>10, <1>11, <1>12 DEF Fits
<1> QED BY <1>13 DEF accepting

\* A resolution changes nothing but the state of one receipt (Resolve).
LEMMA ResolveFits ==
  ASSUME NEW inbox, InboxOK(inbox), Fits(inbox), NEW o \in Objects, HasReceipt(inbox, o),
         NEW state \in {"acknowledged", "rejected"}
  PROVE  Fits(Resolve(inbox, o, state))
<1> DEFINE receipts == inbox[o.stream].receipts
           after == {IF r.counter = o.counter THEN [r EXCEPT !.state = state] ELSE r : r \in receipts}
           next == Resolve(inbox, o, state)
<1>1. o.stream \in DOMAIN inbox /\ inbox[o.stream] = [floor |-> inbox[o.stream].floor, receipts |-> receipts]
  BY DEF HasReceipt, InboxOK
<1>2. next = [inbox EXCEPT ![o.stream] = [inbox[o.stream] EXCEPT !.receipts = after]]
  BY DEF Resolve
<1>3. [inbox[o.stream] EXCEPT !.receipts = after].receipts = after
  <2> HIDE DEF after
  <2> QED BY <1>1
<1>4. \A r \in receipts : IsReceipt(r)
  BY <1>1 DEF InboxOK, Window
<1>5. ASSUME NEW revised \in after
      PROVE  \E r \in receipts : /\ revised.counter = r.counter /\ revised.id = r.id /\ (revised.state = r.state \/ revised.state = state)
                                 /\ revised = IF r.counter = o.counter THEN [r EXCEPT !.state = state] ELSE r
  <2>1. PICK r \in receipts : revised = IF r.counter = o.counter THEN [r EXCEPT !.state = state] ELSE r
    BY <1>5
  <2>2. IsReceipt(r)
    BY <1>4
  <2>3. revised.counter = r.counter /\ revised.id = r.id /\ (revised.state = r.state \/ revised.state = state)
    BY <2>1, <2>2 DEF IsReceipt
  <2> QED BY <2>1, <2>3
<1>6. after # {}
  BY DEF HasReceipt
<1>7. /\ \A r, q \in receipts : r.id = q.id => r = q
      /\ \A r \in receipts : /\ \E p \in Objects : p.stream = o.stream /\ p.counter = r.counter /\ p.id = r.id
                             /\ r.state \in {"pending", "acknowledged", "rejected"}
  BY <1>1 DEF Fits
<1> HIDE DEF after, receipts, next
<1>8. /\ \A r, q \in after : r.id = q.id => r = q
      /\ \A r \in after : /\ \E p \in Objects : p.stream = o.stream /\ p.counter = r.counter /\ p.id = r.id
                          /\ r.state \in {"pending", "acknowledged", "rejected"}
  BY <1>5, <1>7, SMTT(30)
<1>9. /\ DOMAIN next = DOMAIN inbox /\ next[o.stream].receipts = after
      /\ \A s \in DOMAIN inbox : s # o.stream => next[s] = inbox[s]
  BY <1>1, <1>2, <1>3
<1>10. ASSUME NEW s \in DOMAIN next
       PROVE  /\ next[s].receipts # {}
              /\ \A r, q \in next[s].receipts : r.id = q.id => r = q
              /\ \A r \in next[s].receipts :
                   /\ \E p \in Objects : p.stream = s /\ p.counter = r.counter /\ p.id = r.id
                   /\ r.state \in {"pending", "acknowledged", "rejected"}
  <2>1. CASE s = o.stream
    BY <1>6, <1>8, <1>9, <2>1
  <2>2. CASE s # o.stream
    <3>1. s \in DOMAIN inbox /\ next[s] = inbox[s]
      BY <1>9, <2>2
    <3> QED BY <3>1 DEF Fits
  <2> QED BY <2>1, <2>2
<1>11. Fits(next)
  BY <1>9, <1>10 DEF Fits
<1> QED BY <1>11 DEF next

\* Every step keeps every copy of the inbox within what restore_snapshot accepts.
LEMMA NextFits == ASSUME Inv, FitInv, [InboxNext]_inboxVars PROVE FitInv'
<1>0. InboxOK(adopted)
  BY DEF Inv, Keeps
<1>1. ASSUME NEW o \in Objects, Deliver(o) PROVE FitInv'
  BY <1>1 DEF Deliver, FitInv
<1>2. ASSUME NEW o \in Objects, PollProtected(o) PROVE FitInv'
  <2>1. UNCHANGED <<adopted, disk, asked, restarts>>
    BY <1>2 DEF PollProtected
  <2>2. CASE StageResult(adopted, o) = "Prepared"
    <3>1. candidate' = <<Accept(adopted, o), o>> /\ written' = FALSE
      BY <1>2, <2>2 DEF PollProtected
    <3>2. Fits(Accept(adopted, o))
      BY <1>0, <2>2, AcceptFits DEF FitInv
    <3>3. Fits(candidate'[1])
      BY <3>1, <3>2
    <3> QED BY <2>1, <3>1, <3>3 DEF FitInv
  <2>3. CASE StageResult(adopted, o) # "Prepared"
    <3>1. UNCHANGED <<candidate, written>>
      BY <1>2, <2>3 DEF PollProtected
    <3> QED BY <2>1, <3>1 DEF FitInv
  <2> QED BY <2>2, <2>3
<1>3. ASSUME NEW o \in Objects, NEW state \in {"acknowledged", "rejected"}, HasReceipt(adopted, o),
             candidate' = <<Resolve(adopted, o, state), o>>, written' = FALSE, asked' = asked \cup {o},
             UNCHANGED <<adopted, disk, restarts>>
      PROVE  FitInv'
  <2>1. Fits(Resolve(adopted, o, state))
    BY <1>0, <1>3, ResolveFits DEF FitInv
  <2>2. Fits(candidate'[1])
    BY <1>3, <2>1
  <2>3. asked' \subseteq Objects
    BY <1>3 DEF FitInv
  <2> QED BY <1>3, <2>2, <2>3 DEF FitInv
<1>4. ASSUME NEW o \in Objects, Acknowledge(o) PROVE FitInv'
  BY <1>3, <1>4 DEF Acknowledge
<1>5. ASSUME NEW o \in Objects, Reject(o) PROVE FitInv'
  <2>1. HasReceipt(adopted, o)
    BY <1>5 DEF Reject, IsPending, HasReceipt
  <2> QED BY <1>3, <1>5, <2>1 DEF Reject
<1>6. CASE SaveInbox
  BY <1>6 DEF SaveInbox, FitInv
<1>7. CASE AdoptReception
  <2>1. candidate' = <<>> /\ written' = FALSE /\ adopted' = candidate[1] /\ candidate # <<>> /\ UNCHANGED <<disk, asked, restarts>>
    BY <1>7 DEF AdoptReception
  <2> QED BY <2>1 DEF FitInv
<1>8. CASE DiscardReception
  BY <1>8 DEF DiscardReception, FitInv
<1>9. CASE RestartInbox
  <2>1. restarts' \in 0 .. MaxCrashes
    BY <1>9, ObjectsAssumption, SMTT(30) DEF RestartInbox, FitInv
  <2> QED BY <1>9, <2>1 DEF RestartInbox, FitInv
<1>10. CASE UNCHANGED inboxVars
  <2>1. UNCHANGED <<adopted, disk, candidate, written, asked, restarts>>
    BY <1>10 DEF inboxVars
  <2> QED BY <2>1 DEF FitInv
<1> QED BY <1>1, <1>2, <1>4, <1>5, <1>6, <1>7, <1>8, <1>9, <1>10 DEF InboxNext

\* Counters and identifiers tell the receipts of a stream apart, so that none
\* is counted twice (restore_snapshot's checks for duplicates).
LEMMA FittingRestores ==
  ASSUME NEW inbox, InboxOK(inbox), Fits(inbox)
  PROVE  StreamsRestore(inbox)
<1>1. ASSUME NEW s \in DOMAIN inbox
      PROVE  LET receipts == inbox[s].receipts
             IN  /\ Cardinality(receipts) \in 1 .. WINDOW
                 /\ Cardinality({r.counter : r \in receipts}) = Cardinality(receipts)
                 /\ Cardinality({r.id : r \in receipts}) = Cardinality(receipts)
                 /\ \A r \in receipts : r.counter > inbox[s].floor
  <2>1. PICK receipts : receipts = inbox[s].receipts
    OBVIOUS
  <2>2. /\ IsFiniteSet(receipts) /\ receipts # {} /\ Cardinality(receipts) <= WINDOW
        /\ \A r \in receipts : r.counter \in Nat /\ inbox[s].floor < r.counter
        /\ \A r, q \in receipts : r.counter = q.counter => r = q
        /\ \A r, q \in receipts : r.id = q.id => r = q
        /\ inbox[s].floor \in Nat
    BY <2>1, SMTT(30) DEF InboxOK, Window, Fits
  <2>3. Cardinality(receipts) \in 1 .. WINDOW
    <3>1. Cardinality(receipts) \in Nat /\ Cardinality(receipts) # 0
      BY <2>2, FS_CardinalityType, FS_EmptySet
    <3> QED BY <2>2, <3>1, WindowAssumption, SMTT(30)
  <2>4. Cardinality({r.counter : r \in receipts}) = Cardinality(receipts)
    <3> DEFINE T == {r.counter : r \in receipts}
               f == [r \in receipts |-> r.counter]
    <3>1. f \in [receipts -> T] /\ \A t \in T : \E r \in receipts : f[r] = t
      OBVIOUS
    <3>2. \A r, q \in receipts : f[r] = f[q] => r = q
      BY <2>2
    <3> HIDE DEF T, f
    <3>3. f \in Surjection(receipts, T) /\ f \in Injection(receipts, T)
      BY <3>1, <3>2 DEF Surjection, Injection, IsInjective
    <3>4. Cardinality(T) = Cardinality(receipts)
      BY <2>2, <3>3, FS_Surjection
    <3> QED BY <3>4 DEF T
  <2>5. Cardinality({r.id : r \in receipts}) = Cardinality(receipts)
    <3> DEFINE T == {r.id : r \in receipts}
               f == [r \in receipts |-> r.id]
    <3>1. f \in [receipts -> T] /\ \A t \in T : \E r \in receipts : f[r] = t
      OBVIOUS
    <3>2. \A r, q \in receipts : f[r] = f[q] => r = q
      BY <2>2
    <3> HIDE DEF T, f
    <3>3. f \in Surjection(receipts, T) /\ f \in Injection(receipts, T)
      BY <3>1, <3>2 DEF Surjection, Injection, IsInjective
    <3>4. Cardinality(T) = Cardinality(receipts)
      BY <2>2, <3>3, FS_Surjection
    <3> QED BY <3>4 DEF T
  <2>6. \A r \in receipts : r.counter > inbox[s].floor
    BY <2>2
  <2> QED BY <2>1, <2>3, <2>4, <2>5, <2>6
<1> QED BY <1>1 DEF StreamsRestore, Fits

\* Whatever was saved, after any history of trimmed receipts, resolutions and
\* crashes, passes the checks of restore_snapshot: a restart never refuses the
\* inbox it finds.
THEOREM SavedStreamsAlwaysRestore == InboxSpec => []SavedStreamsRestore
<1>1. InboxInit => FitInv
  <2> SUFFICES ASSUME InboxInit PROVE FitInv
    OBVIOUS
  <2>1. DOMAIN Empty = {} /\ Cardinality({}) = 0 /\ IsFiniteSet({})
    BY FS_EmptySet DEF Empty
  <2>2. Fits(Empty)
    BY <2>1, WindowAssumption, SMTT(30) DEF Fits
  <2>3. restarts \in 0 .. MaxCrashes
    BY ObjectsAssumption, SMTT(30) DEF InboxInit
  <2> QED BY <2>2, <2>3 DEF InboxInit, FitInv
<1>2. Inv /\ FitInv => SavedStreamsRestore
  <2> SUFFICES ASSUME Inv, FitInv PROVE SavedStreamsRestore
    OBVIOUS
  <2>1. ASSUME NEW inbox, InboxOK(inbox), Fits(inbox) PROVE IsInbox(inbox)
    BY <2>1 DEF IsInbox, InboxOK, Window, Fits
  <2>2. IsInbox(adopted) /\ IsInbox(disk) /\ (candidate # <<>> => IsInbox(candidate[1]) /\ candidate[2] \in Objects)
    BY <2>1 DEF Inv, Keeps, FitInv
  <2>3. StreamsRestore(disk)
    BY FittingRestores DEF Inv, Keeps, FitInv
  <2>4. accepted \cup asked \cup settled \subseteq Objects /\ queue \subseteq Objects
    BY DEF Inv, FitInv
  <2> QED BY <2>2, <2>3, <2>4 DEF SavedStreamsRestore, InboxTypeOK, FitInv
<1> QED BY <1>1, <1>2, InitInv, NextInv, NextFits, PTL DEF InboxSpec
=============================================================================
