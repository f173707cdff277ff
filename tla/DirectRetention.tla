-------------------------- MODULE DirectRetention --------------------------
(***************************************************************************)
(* The direct (recipient scoped) streams of an object inbox                *)
(* (arachne-delivery/src/inbox.rs) as operators on a value.                *)
(*                                                                         *)
(* A direct vector lists the streams in creation order.  A stream keeps    *)
(* copies of objects for recovery; floor is the newest copy dropped,       *)
(* recovery_floor the end of the last range given up, known_head the       *)
(* newest sequence heard of.  Copies are sorted by sequence, so a set      *)
(* stands for the vector.                                                  *)
(***************************************************************************)
EXTENDS InboxWindow, Sequences, SequencesExt

CONSTANTS
  MAX_DIRECT_STREAMS,
  MAX_DIRECT_RETAINED_BYTES,
  MAX_RECOVERY_PACKETS

RetentionAssumption ==
  /\ MAX_DIRECT_STREAMS \in Nat
  /\ MAX_DIRECT_RETAINED_BYTES \in Nat
  /\ MAX_RECOVERY_PACKETS \in Nat \ {0}

NewDirect(scope) ==
  [scope |-> scope, floor |-> 0, recovery_floor |-> 0, known_head |-> 0, records |-> {}]

Has(direct, scope) == \E i \in DOMAIN direct : direct[i].scope = scope
IndexOf(direct, scope) == CHOOSE i \in DOMAIN direct : direct[i].scope = scope
DirectOf(direct, scope) ==
  IF Has(direct, scope) THEN direct[IndexOf(direct, scope)] ELSE NewDirect(scope)
Put(direct, d) ==
  IF Has(direct, d.scope) THEN [direct EXCEPT ![IndexOf(direct, d.scope)] = d]
                          ELSE Append(direct, d)

SequencesOf(d) == {r.sequence : r \in d.records}
Oldest(d) == Min(SequencesOf(d))
Drop(d, n) == {r \in d.records : r.sequence # n}
MaxOf(a, b) == IF a >= b THEN a ELSE b
MinOf(a, b) == IF a <= b THEN a ELSE b

effective_head(d) ==
  MaxOf(d.known_head, IF d.records = {} THEN MaxOf(d.floor, d.recovery_floor)
                                        ELSE Max(SequencesOf(d)))

RetainedBytes(d) == MapThenSumSet(LAMBDA r : r.size, d.records)
TotalBytes(direct) == MapThenSumSet(LAMBDA i : RetainedBytes(direct[i]), DOMAIN direct)

\* One turn of the byte loop: the heaviest stream, the last of equals, loses
\* its oldest copy.
DropHeaviest(direct) ==
  LET held == {i \in DOMAIN direct : direct[i].records # {}}
      i    == Max({j \in held : \A k \in held : RetainedBytes(direct[j]) >= RetainedBytes(direct[k])})
      old  == Oldest(direct[i])
  IN  [direct EXCEPT ![i].floor = MaxOf(@, old), ![i].records = Drop(direct[i], old)]

FitBytes(direct) ==
  LET copies == MapThenSumSet(LAMBDA i : Cardinality(direct[i].records), DOMAIN direct)
      after[n \in 0 .. copies] ==
        IF n = 0 THEN direct
        ELSE IF TotalBytes(after[n - 1]) <= MAX_DIRECT_RETAINED_BYTES THEN after[n - 1]
        ELSE DropHeaviest(after[n - 1])
  IN  after[copies]

\* The errors of retain_direct.
RetainRefused(direct, o) ==
  \/ ~ Has(direct, o.scope) /\ Len(direct) = MAX_DIRECT_STREAMS
  \/ \E r \in DirectOf(direct, o.scope).records : (r.sequence = o.sequence) # (r.id = o.id)

retain_direct(direct, o) ==
  LET d     == DirectOf(direct, o.scope)
      added == [d EXCEPT
                 !.records = @ \cup {[sequence |-> o.sequence, id |-> o.id, size |-> o.size]},
                 !.known_head = MaxOf(@, o.sequence)]
      kept  == IF Cardinality(added.records) > WINDOW
               THEN [added EXCEPT !.floor = Oldest(added), !.records = Drop(added, Oldest(added))]
               ELSE added
  IN  IF o.sequence \in SequencesOf(d) THEN direct ELSE FitBytes(Put(direct, kept))

\* The first sequence neither held nor given up, and the first copy beyond it.
Settled(d) == MaxOf(d.floor, d.recovery_floor)
Expected(d) == Min({n \in Settled(d) + 1 .. Settled(d) + Cardinality(d.records) + 1 :
                      n \notin SequencesOf(d)})
Beyond(d) == {n \in SequencesOf(d) : n > Expected(d)}

NoGap == [after |-> 0, through |-> 0]
GapOf(d) ==
  LET end == IF Beyond(d) # {} THEN Min(Beyond(d)) ELSE effective_head(d)
  IN  IF end < Expected(d) THEN NoGap
      ELSE [after   |-> Expected(d) - 1,
            through |-> MinOf(end, Expected(d) - 1 + MAX_RECOVERY_PACKETS)]

\* pending_excluding holds back what lies beyond a hole in the copies.
HeldBackNever(d, n) == FALSE  \* mutant
HeldBack(d, n) == Beyond(d) # {} /\ n >= Min(Beyond(d))

stage_direct_head(direct, scope, through) ==
  IF \/ effective_head(DirectOf(direct, scope)) >= through
     \/ ~ Has(direct, scope) /\ Len(direct) = MAX_DIRECT_STREAMS
  THEN direct
  ELSE Put(direct, [DirectOf(direct, scope) EXCEPT !.known_head = through])

\* A holder offers a range whole or not at all.
serve_direct_range(d, query) ==
  /\ query.after >= d.floor
  /\ query.after + 1 .. query.through \subseteq SequencesOf(d)

\* skip_direct_gap accepts only the gap that is open now.
SkipChanged(d, query) == GapOf(d) = NoGap \/ GapOf(d) # query
GivenUp(d, query) == (query.after + 1 .. query.through) \ SequencesOf(d)
skip_direct_gap(d, query) ==
  [d EXCEPT !.recovery_floor = IF query.through \in SequencesOf(d) THEN query.through - 1
                                                                   ELSE query.through]

\* The checks restore_snapshot makes on a direct stream.
DirectRestores(d) ==
  /\ d.records # {} \/ d.known_head # 0
  /\ Cardinality(d.records) <= WINDOW
  /\ d.floor <= effective_head(d) /\ d.recovery_floor <= effective_head(d)
  /\ \A r \in d.records : d.floor < r.sequence /\ (d.known_head # 0 => r.sequence <= d.known_head)
=============================================================================
