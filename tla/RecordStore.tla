---------------------------- MODULE RecordStore ----------------------------
(***************************************************************************)
(* The encrypted record store (arachne-store/src/lib.rs): one file, one    *)
(* owner at a time.  The file holds a head (revision and digest of the     *)
(* record index) and the records, changed together by one transaction.     *)
(* The owner keeps the revision and index it accepted.  A commit may fail  *)
(* without effect or fail after the transaction reached the file.          *)
(*                                                                         *)
(* Sealing is abstracted: a record set stands for its index digest.        *)
(***************************************************************************)
EXTENDS Integers

CONSTANTS
  Contents,      \* record sets
  NoContents,    \* the record set of a new store
  MaxRevision    \* u64::MAX in the code

ASSUME ContentsAssumption == NoContents \in Contents /\ MaxRevision \in Nat

VARIABLES
  file,     \* the file: "absent", "blank" (created, no schema yet) or "ready"
  owner     \* its owner: "closed", "creating" or "open" on the head it accepted

storeVars == <<file, owner>>

Files == [state : {"absent", "blank", "ready"}, revision : Nat, records : Contents]
Owners == [state : {"closed", "creating", "open"}, revision : Nat, records : Contents]
At(state, revision, records) == [state |-> state, revision |-> revision, records |-> records]
Closed == At("closed", 0, NoContents)

StoreInit == file = At("absent", 0, NoContents) /\ owner = Closed

\* open of a path that does not exist: the file is created first,
CreateFile ==
  /\ owner.state = "closed" /\ file.state = "absent"
  /\ file' = At("blank", 0, NoContents)
  /\ owner' = At("creating", 0, NoContents)
\* then schema and head are written in one transaction.
CreateSchema ==
  /\ owner.state = "creating"
  /\ file' = At("ready", 0, NoContents)
  /\ owner' = At("open", 0, NoContents)

\* open of an existing store; a blank file has an unexpected schema.
OpenStore ==
  /\ owner.state = "closed"
  /\ file.state = "ready"
  /\ owner' = At("open", file.revision, file.records)
  /\ UNCHANGED file

\* commit reads the head back before it writes.
HeadMatches == file.revision = owner.revision /\ file.records = owner.records

CanCommit == owner.state = "open" /\ HeadMatches /\ owner.revision < MaxRevision

commit(records) ==
  /\ CanCommit
  /\ file' = At("ready", owner.revision + 1, records)
  /\ owner' = At("open", owner.revision + 1, records)

\* The transaction reached the file although commit reports an error.
commitUncertain(records) ==
  /\ CanCommit
  /\ file' = At("ready", owner.revision + 1, records)
  /\ UNCHANGED owner

\* The owner is dropped or the process dies.
CloseStore ==
  /\ owner' = Closed
  /\ UNCHANGED file
=============================================================================
