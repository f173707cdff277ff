----------------------------- MODULE MCDelivery -----------------------------
(***************************************************************************)
(* Instances of PublisherLog, DirectDelivery and ObjectInbox for TLC: what *)
(* a publisher keeps, and the private and the group half of an inbox.  A   *)
(* behaviour is about one of them and the others rest.                     *)
(*                                                                         *)
(* Log: two topics and three identifiers, the last one heavier.  Private:  *)
(* three objects of one author, the second and third too large to be kept  *)
(* together.  Group: two streams; in the first, four objects in a window   *)
(* of two, one object whose counter and one whose identifier is taken by   *)
(* another.                                                                *)
(***************************************************************************)
EXTENDS PublisherLog, ObjectInbox

MCWeight == [id \in Ids |-> IF id = 3 THEN 2 ELSE 1]

VARIABLES sent, source, mailbox, prepared, kept, stored, fetch, shown, missed, settledUpTo, outages
directVars ==
  <<sent, source, mailbox, prepared, kept, stored, fetch, shown, missed, settledUpTo, outages>>

Private == INSTANCE DirectDelivery WITH
  WINDOW <- 2, MAX_STREAMS <- 1, MAX_PENDING <- 4,
  MAX_DIRECT_STREAMS <- 2, MAX_DIRECT_RETAINED_BYTES <- 4,
  Scopes <- {"s"}, SizeOf <- <<1, 2, 2>>, MaxObjects <- 3, MaxGroup <- 1, MaxCrashes <- 1,
  live <- mailbox, staged <- prepared, saved <- kept, durable <- stored, crashes <- outages

ASSUME Private!RetentionAssumption
ASSUME Private!DeliveryAssumption

Object(s, c, i) == [stream |-> s, counter |-> c, id |-> i]
MCObjects == {Object(1, 1, 1), Object(1, 2, 2), Object(1, 3, 3),
              Object(1, 2, 9), Object(1, 4, 1), Object(2, 1, 1)}

VARIABLE part   \* which of the three this behaviour is about

MCInit == Init /\ Private!Init /\ InboxInit /\ part \in {"log", "direct", "group"}

MCNext ==
  \/ part = "log" /\ Next /\ UNCHANGED <<directVars, inboxVars, part>>
  \/ part = "direct" /\ Private!Next /\ UNCHANGED <<vars, inboxVars, part>>
  \/ part = "group" /\ InboxNext /\ UNCHANGED <<vars, directVars, part>>

MCSpec == MCInit /\ [][MCNext]_<<vars, directVars, inboxVars, part>>

-----------------------------------------------------------------------------
\* Private objects reach the application in order unless they were given up
\* or their copies dropped (DirectDelivery, skip_direct_gap).
OvertakenWasGivenUp == Private!OvertakenWasGivenUp

=============================================================================
