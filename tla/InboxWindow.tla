---------------------------- MODULE InboxWindow ----------------------------
(***************************************************************************)
(* The bounded replay evidence of an object inbox                          *)
(* (arachne-delivery/src/inbox.rs) as operators on a value.                *)
(*                                                                         *)
(* An inbox maps each observed stream (author and topic) to its floor and  *)
(* its receipts.  The receipts of a stream are kept sorted by counter, so  *)
(* a set stands for the vector.  A receipt is pending until the            *)
(* application acknowledges or rejects the object.                         *)
(***************************************************************************)
EXTENDS Integers, FiniteSets, FiniteSetsExt

CONSTANTS
  WINDOW,        \* receipts kept per stream
  MAX_STREAMS,
  MAX_PENDING    \* undelivered objects that fit MAX_WORKSPACE_ATTACHMENT

ASSUME WindowAssumption ==
  WINDOW \in Nat \ {0} /\ MAX_STREAMS \in Nat /\ MAX_PENDING \in Nat

NoStream == [floor |-> 0, receipts |-> {}]
StreamOf(inbox, s) == IF s \in DOMAIN inbox THEN inbox[s] ELSE NoStream

PendingIn(stream) == {r \in stream.receipts : r.state = "pending"}
PendingOf(inbox) ==
  UNION {{[stream |-> s, counter |-> r.counter, id |-> r.id] : r \in PendingIn(inbox[s])} :
           s \in DOMAIN inbox}

IsPending(inbox, o) ==
  /\ o.stream \in DOMAIN inbox
  /\ [counter |-> o.counter, id |-> o.id, state |-> "pending"] \in inbox[o.stream].receipts

\* Keeping the newest WINDOW receipts; the floor remembers the one dropped.
Trim(floor, receipts) ==
  LET oldest == Min({r.counter : r \in receipts})
  IN  IF Cardinality(receipts) > WINDOW
      THEN [floor |-> oldest, receipts |-> {r \in receipts : r.counter # oldest}]
      ELSE [floor |-> floor, receipts |-> receipts]

\* The receipt that already holds the object's counter.
Known(stream, o) == {r \in stream.receipts : r.counter = o.counter}

\* Another receipt of the window already holds the object's identifier.
IdTaken(stream, o) == \E r \in stream.receipts : r.id = o.id

Full(stream) == Cardinality(stream.receipts) = WINDOW

\* An undelivered object is never dropped to make room.
BlockedNever(stream) == FALSE
Blocked(stream) ==
  /\ Full(stream)
  /\ \E r \in PendingIn(stream) : \A q \in stream.receipts : r.counter <= q.counter

\* The early returns of stage_scoped, in order, for an authenticated object.
StageResult(inbox, o) ==
  LET stream == StreamOf(inbox, o.stream)
  IN  IF o.counter <= stream.floor THEN "OutsideWindow"
      ELSE IF Known(stream, o) # {}
      THEN IF \E r \in Known(stream, o) : r.id = o.id THEN "Duplicate" ELSE "Conflicting"
      ELSE IF IdTaken(stream, o) THEN "Reused"
      ELSE IF Full(stream) /\ \A r \in stream.receipts : o.counter < r.counter
      THEN "OutsideWindow"
      ELSE IF o.stream \notin DOMAIN inbox /\ Cardinality(DOMAIN inbox) = MAX_STREAMS
      THEN "NoStreamLeft"
      ELSE IF Blocked(stream) THEN "WindowFull"
      ELSE IF Cardinality(PendingOf(inbox)) >= MAX_PENDING THEN "TooLarge"
      ELSE "Prepared"

Accept(inbox, o) ==
  LET stream == StreamOf(inbox, o.stream)
      added  == [counter |-> o.counter, id |-> o.id, state |-> "pending"]
      next   == Trim(stream.floor, stream.receipts \cup {added})
  IN  [s \in DOMAIN inbox \cup {o.stream} |-> IF s = o.stream THEN next ELSE inbox[s]]

Resolve(inbox, o, state) ==
  [inbox EXCEPT ![o.stream].receipts =
     {IF r.counter = o.counter THEN [r EXCEPT !.state = state] ELSE r : r \in @}]

\* acknowledge finds the receipt whatever its state, reject only a pending one.
HasReceipt(inbox, o) ==
  o.stream \in DOMAIN inbox
    /\ \E r \in inbox[o.stream].receipts : r.counter = o.counter /\ r.id = o.id

\* The checks restore_snapshot makes on the streams.
StreamsRestore(inbox) ==
  /\ Cardinality(DOMAIN inbox) <= MAX_STREAMS
  /\ \A s \in DOMAIN inbox :
        LET receipts == inbox[s].receipts
        IN  /\ Cardinality(receipts) \in 1 .. WINDOW
            /\ Cardinality({r.counter : r \in receipts}) = Cardinality(receipts)
            /\ Cardinality({r.id : r \in receipts}) = Cardinality(receipts)
            /\ \A r \in receipts : r.counter > inbox[s].floor
=============================================================================
