---------------------------- MODULE PublisherLog ----------------------------
(***************************************************************************)
(* The bounded retention log of one publisher in one workspace epoch       *)
(* (arachne-delivery/src/lib.rs), together with the way the runtime uses   *)
(* it: a publication is appended to a clone of the live log, the clone is  *)
(* saved, and only then adopted and released to the network.  A crash      *)
(* loses the live log and the candidate and restores what was saved.       *)
(*                                                                         *)
(* A log is a record: head (highest sequence used), bytes (running weight  *)
(* of the retained publications), records (the retained publications of    *)
(* all topics) and evicted (per observed topic, the eviction watermark).   *)
(* The deque of a topic is the set of its records: publications are pushed *)
(* at the back with the next sequence, so the front is the least sequence. *)
(***************************************************************************)
EXTENDS Integers, FiniteSets, FiniteSetsExt

CONSTANTS
  Topics,                 \* exact topics; numbers, because BTreeMap orders them
  Ids,                    \* publication identifiers
  Weight,                 \* bytes one publication takes, by identifier
  MaxSequence,            \* u64::MAX
  MAX_TOPICS,
  MAX_PACKETS_PER_TOPIC,
  MAX_RETAINED_BYTES,
  MAX_RECOVERY_PACKETS

ASSUME TopicsAssumption == Topics \subseteq Nat
ASSUME BoundsAssumption ==
  /\ MaxSequence \in Nat /\ MAX_TOPICS \in Nat /\ MAX_RECOVERY_PACKETS \in Nat
  /\ MAX_PACKETS_PER_TOPIC \in Nat \ {0} /\ MAX_RETAINED_BYTES \in Nat
\* A single ciphertext (16 KiB) is far below the retention limit (512 KiB).
ASSUME WeightAssumption ==
  Weight \in [Ids -> Nat] /\ \A id \in Ids : Weight[id] \in 1 .. MAX_RETAINED_BYTES

VARIABLES
  live,       \* the adopted log
  staged,     \* candidate log awaiting its save, or NoLog
  saved,      \* whether the candidate has been written durably
  durable,    \* the log a restart would restore
  disclosed,  \* every publication released or served so far
  offer       \* one signed range served in the past, or NoOffer

vars == <<live, staged, saved, durable, disclosed, offer>>

Publication == [sequence : Nat, topic : Topics, id : Ids]
NoLog == [none |-> TRUE]
NoOffer == [after |-> 0, through |-> 0, topics |-> {}, packets |-> {}]

new == [head |-> 0, bytes |-> 0, records |-> {}, evicted |-> [t \in {} |-> 0]]

OnTopic(log, t) == {r \in log.records : r.topic = t}
BytesOf(records) == MapThenSumSet(LAMBDA r : Weight[r.id], records)

(***************************************************************************)
(* Eviction.  Dropping records moves the watermark of their topic to the   *)
(* last one dropped, so a missing range cannot look complete.              *)
(***************************************************************************)
\* Mutant of evict: the watermark stays behind.
evictForgetsWatermark(log, gone) ==
  [head |-> log.head, bytes |-> log.bytes - BytesOf(gone),
   records |-> log.records \ gone, evicted |-> log.evicted]

evict(log, gone) ==
  [head    |-> log.head,
   bytes   |-> log.bytes - BytesOf(gone),
   records |-> log.records \ gone,
   evicted |-> [t \in DOMAIN log.evicted |->
                  LET dropped == {r.sequence : r \in {g \in gone : g.topic = t}}
                  IN  IF dropped = {} THEN log.evicted[t] ELSE Max(dropped)]]

\* Calling evict_oldest until the records up to sequence `cut` are gone.
evict_oldest(log, cut) == evict(log, {r \in log.records : r.sequence <= cut})

\* `while self.bytes > MAX_RETAINED_BYTES` stops at the first cut that fits.
FittingCuts(log) ==
  LET fits(cut) == evict_oldest(log, cut).bytes <= MAX_RETAINED_BYTES
  IN  {cut \in 0 .. log.head : fits(cut) /\ \A c \in 0 .. cut - 1 : ~fits(c)}

EvictTopicOverflow(log, topic) ==
  IF Cardinality(OnTopic(log, topic)) > MAX_PACKETS_PER_TOPIC
  THEN LET front == Min({r.sequence : r \in OnTopic(log, topic)})
       IN  evict(log, {r \in OnTopic(log, topic) : r.sequence = front})
  ELSE log


CanAppend(log, topic, id, number) ==
  /\ topic \in DOMAIN log.evicted \/ Cardinality(DOMAIN log.evicted) # MAX_TOPICS
  /\ \A r \in log.records : r.id # id
  /\ log.head < MaxSequence
  /\ number \in {0, log.head + 1}

Push(log, topic, id) ==
  [head    |-> log.head + 1,
   bytes   |-> log.bytes + Weight[id],
   records |-> log.records
                 \cup {[sequence |-> log.head + 1, topic |-> topic, id |-> id]},
   evicted |-> [t \in DOMAIN log.evicted \cup {topic} |->
                  IF t \in DOMAIN log.evicted THEN log.evicted[t] ELSE 0]]

\* The one log that append leaves, as a singleton.
append(log, topic, id) ==
  LET pushed == EvictTopicOverflow(Push(log, topic, id), topic)
  IN  {evict_oldest(pushed, cut) : cut \in FittingCuts(pushed)}

(***************************************************************************)
(* select: the retained publications of the topics in (after, through], or *)
(* an error.  Topics are visited in order; the first one that fails        *)
(* decides the error.                                                      *)
(***************************************************************************)
InRange(r, after, through, topics) ==
  r.topic \in topics /\ after < r.sequence /\ r.sequence <= through

\* Mutant of select: never answers Unavailable.
selectIgnoresWatermark(log, after, through, topics) ==
  IF after >= through \/ through > log.head \/ topics = {} \/ Cardinality(topics) > MAX_TOPICS
  THEN [error |-> "Invalid", records |-> {}]
  ELSE [error |-> "None", records |-> {r \in log.records : InRange(r, after, through, topics)}]

select(log, after, through, topics) ==
  LET known       == topics \cap DOMAIN log.evicted
      upTo(t)     == {s \in known : s <= t}
      found(ts)   == {r \in log.records : InRange(r, after, through, ts)}
      missing(t)  == after < log.evicted[t]
      tooLarge(t) == Cardinality(found(upTo(t))) > MAX_RECOVERY_PACKETS
      failing     == {t \in known : missing(t) \/ tooLarge(t)}
  IN  IF after >= through \/ through > log.head \/ topics = {} \/ Cardinality(topics) > MAX_TOPICS
      THEN [error |-> "Invalid", records |-> {}]
      ELSE IF failing # {}
           THEN [error |-> IF missing(Min(failing)) THEN "Unavailable" ELSE "TooLarge",
                 records |-> {}]
           ELSE [error |-> "None", records |-> found(known)]

(***************************************************************************)
(* snapshot and restore.  The encoding keeps head, watermarks and records; *)
(* bytes is recomputed.  CanRestore collects the checks of restore.        *)
(***************************************************************************)
CanRestore(log) ==
  LET watermarks == {t \in DOMAIN log.evicted : log.evicted[t] # 0}
      used       == {log.evicted[t] : t \in watermarks} \cup {r.sequence : r \in log.records}
  IN  /\ Cardinality(DOMAIN log.evicted) <= MAX_TOPICS
      /\ Cardinality(used) = Cardinality(watermarks) + Cardinality(log.records)
      /\ \A s \in used : s <= log.head
      /\ Cardinality({r.id : r \in log.records}) = Cardinality(log.records)
      /\ \A r \in log.records : r.sequence > log.evicted[r.topic]
      /\ \A t \in DOMAIN log.evicted :
            /\ Cardinality(OnTopic(log, t)) <= MAX_PACKETS_PER_TOPIC
            /\ OnTopic(log, t) = {} => log.evicted[t] # 0
      /\ BytesOf(log.records) <= MAX_RETAINED_BYTES
      /\ Max(used \cup {0}) = log.head

restore(log) ==
  [head |-> log.head, bytes |-> BytesOf(log.records),
   records |-> log.records, evicted |-> log.evicted]

-----------------------------------------------------------------------------
Init ==
  /\ live = new
  /\ staged = NoLog
  /\ saved = FALSE
  /\ durable = new
  /\ disclosed = {}
  /\ offer = NoOffer

\* StageNetworkPublication: append to a clone of the live log.
Stage(topic, id, number) ==
  /\ staged = NoLog
  /\ CanAppend(live, topic, id, number)
  /\ staged' \in append(live, topic, id)
  /\ saved' = FALSE
  /\ UNCHANGED <<live, durable, disclosed, offer>>

\* The candidate is saved.  The inbox has precedence in the same record, so
\* any number of the oldest publications may be left out of the saved copy.
Save ==
  /\ staged # NoLog
  /\ \E cut \in 0 .. staged.head : durable' = evict_oldest(staged, cut)
  /\ saved' = TRUE
  /\ UNCHANGED <<live, staged, disclosed, offer>>

\* Mutant of Adopt: releases the publication before the save.
AdoptUnsaved ==
  /\ staged # NoLog
  /\ live' = staged
  /\ staged' = NoLog
  /\ saved' = FALSE
  /\ disclosed' = disclosed \cup {r \in staged.records : r.sequence = staged.head}
  /\ UNCHANGED <<durable, offer>>

\* AdoptPublication: only a saved candidate, which then goes on the network.
Adopt ==
  /\ staged # NoLog
  /\ saved
  /\ live' = staged
  /\ staged' = NoLog
  /\ saved' = FALSE
  /\ disclosed' = disclosed \cup {r \in staged.records : r.sequence = staged.head}
  /\ UNCHANGED <<durable, offer>>

\* DiscardWorkspaceCandidate drops the candidate, saved or not.
Discard ==
  /\ staged # NoLog
  /\ staged' = NoLog
  /\ saved' = FALSE
  /\ UNCHANGED <<live, durable, disclosed, offer>>

\* serve_range to an authorized member: the whole range or an error.  Ranges
\* are served while a candidate waits as well, always from the live log.
Serve(after, through, topics) ==
  LET range == select(live, after, through, topics)
  IN  /\ range.error = "None"
      /\ offer' = [after |-> after, through |-> through, topics |-> topics,
                   packets |-> range.records]
      /\ disclosed' = disclosed \cup range.records
      /\ UNCHANGED <<live, staged, saved, durable>>

\* A crash, then a restart from the saved record.
Restart ==
  /\ CanRestore(durable)
  /\ live' = restore(durable)
  /\ staged' = NoLog
  /\ saved' = FALSE
  /\ UNCHANGED <<durable, disclosed, offer>>

Next ==
  \/ \E topic \in Topics, id \in Ids, number \in 0 .. MaxSequence : Stage(topic, id, number)
  \/ Save
  \/ Adopt
  \/ Discard
  \/ \E after \in 0 .. MaxSequence, through \in 0 .. MaxSequence, topics \in SUBSET Topics :
        Serve(after, through, topics)
  \/ Restart

Spec == Init /\ [][Next]_vars

-----------------------------------------------------------------------------
IsLog(log) ==
  /\ log.head \in 0 .. MaxSequence
  /\ log.records \subseteq Publication
  /\ DOMAIN log.evicted \subseteq Topics
  /\ \A t \in DOMAIN log.evicted : log.evicted[t] \in 0 .. log.head

\* The values the variables of the publisher range over.
TypeOK ==
  /\ IsLog(live) /\ IsLog(durable)
  /\ staged = NoLog \/ IsLog(staged)
  /\ saved \in BOOLEAN
  /\ disclosed \subseteq Publication
  /\ offer.packets \subseteq Publication /\ offer.topics \subseteq Topics

\* A sequence number never names two publications outside this node, whatever
\* crashes and discards happen between append, save and release
\* (docs/integration.md: no network effect before the durable commit).
SequenceNamesOnePublication ==
  \A p, q \in disclosed : p.sequence = q.sequence => p = q

\* A served range is complete for good: no publication the node ever
\* discloses falls inside it without being one of its packets (select:
\* "unavailable/overlarge ranges never become partial success").
OfferIsComplete ==
  \A p \in disclosed : InRange(p, offer.after, offer.through, offer.topics) => p \in offer.packets

\* Every saved log passes all checks of restore, so a restart never refuses it.
SavedLogRestores == CanRestore(durable)

\* Watermarks never disappear or move back and the head never decreases,
\* neither on append nor over a restart.
WatermarksOnlyAdvance ==
  [][/\ live'.head >= live.head
     /\ \A t \in DOMAIN live.evicted :
           t \in DOMAIN live'.evicted /\ live'.evicted[t] >= live.evicted[t]]_vars
=============================================================================
