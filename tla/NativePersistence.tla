------------------------- MODULE NativePersistence -------------------------
(***************************************************************************)
(* Candidates of a session on top of the record store                      *)
(* (arachne-runtime/src/persistence.rs and the staging, adoption and       *)
(* discard requests of lib.rs).  A state is the set of operations it       *)
(* contains; a candidate adds one operation to the adopted state.  Effects *)
(* leave the node when a candidate is adopted.                             *)
(***************************************************************************)
EXTENDS RecordStore

CONSTANTS
  Operations,
  MaxTokens      \* bound on the candidate tokens drawn

NoToken == 0
Tokens == NoToken .. MaxTokens
RecordSets == [ops : SUBSET Operations, token : Tokens]

ASSUME RecordSetsAssumption ==
  Contents = RecordSets /\ NoContents = [ops |-> {}, token |-> NoToken] /\ MaxTokens \in Nat

VARIABLES
  up,         \* the session runs
  attached,   \* session.records is set
  committed,  \* token of the last commit this session knows of
  live,       \* the adopted state
  staged,     \* the candidate, or one with NoToken
  emitted,    \* operations whose effects left the node
  issued      \* tokens drawn so far (random and never repeated in the code)

sessionVars == <<up, attached, committed, live, staged, emitted, issued>>
vars == <<storeVars, sessionVars>>

NoCandidate == [ops |-> {}, token |-> NoToken]

Init ==
  /\ StoreInit
  /\ up = TRUE /\ attached = FALSE /\ committed = NoToken
  /\ live = {} /\ staged = NoCandidate /\ emitted = {} /\ issued = NoToken

Draw == issued < MaxTokens /\ issued' = issued + 1

\* enable_record_storage: open or create the store, then migrate the adopted
\* state into it with a first commit.
EnableOpen ==
  /\ up /\ ~ attached
  /\ CreateFile \/ CreateSchema \/ OpenStore
  /\ UNCHANGED sessionVars
EnableCommit ==
  /\ up /\ ~ attached
  /\ owner.revision = 0
  /\ Draw
  /\ \/ /\ commit([ops |-> live, token |-> issued + 1])
        /\ attached' = TRUE
        /\ committed' = issued + 1
     \/ /\ commitUncertain([ops |-> live, token |-> issued + 1])
        /\ UNCHANGED <<attached, committed>>
  /\ UNCHANGED <<up, live, staged, emitted>>
\* An error drops the store handle: the store is already initialized, or the
\* commit failed.
EnableFails ==
  /\ up /\ ~ attached
  /\ owner.state = "open"
  /\ CloseStore
  /\ UNCHANGED sessionVars

\* Any request that stages a candidate.
Stage(op) ==
  /\ up /\ attached
  /\ staged.token = NoToken
  /\ op \notin live
  /\ Draw
  /\ staged' = [ops |-> live \cup {op}, token |-> issued + 1]
  /\ UNCHANGED <<storeVars, up, attached, committed, live, emitted>>

\* commit_candidate; repeating it after success does nothing.
commit_candidate ==
  /\ up /\ staged.token # NoToken
  /\ committed # staged.token
  /\ \/ commit(staged) /\ committed' = staged.token
     \/ commitUncertain(staged) /\ UNCHANGED committed
  /\ UNCHANGED <<up, attached, live, staged, emitted, issued>>

\* Mutant of Adopt: the candidate need not be committed.
AdoptUncommitted ==
  /\ up /\ staged.token # NoToken
  /\ live' = staged.ops
  /\ emitted' = emitted \cup staged.ops
  /\ staged' = NoCandidate
  /\ UNCHANGED <<storeVars, up, attached, committed, issued>>
\* AdoptAdmission, AdoptJoin, AdoptPublication, AdoptReception and the others.
Adopt ==
  /\ up /\ staged.token # NoToken
  /\ committed = staged.token
  /\ live' = staged.ops
  /\ emitted' = emitted \cup staged.ops
  /\ staged' = NoCandidate
  /\ UNCHANGED <<storeVars, up, attached, committed, issued>>

\* DiscardWorkspaceCandidate, also after the candidate was committed.
Discard ==
  /\ up /\ staged.token # NoToken
  /\ staged' = NoCandidate
  /\ UNCHANGED <<storeVars, up, attached, committed, live, emitted, issued>>

\* The process stops; a file under creation stays as it is.
Crash ==
  /\ up
  /\ CloseStore
  /\ up' = FALSE /\ attached' = FALSE /\ committed' = NoToken
  /\ live' = {} /\ staged' = NoCandidate
  /\ UNCHANGED <<emitted, issued>>

Restorable == file.state = "ready" /\ file.records.token # NoToken
\* Mutant of Restore: the store is opened but the state is not read back.
RestoreEmpty ==
  /\ ~ up /\ Restorable
  /\ OpenStore
  /\ up' = TRUE /\ attached' = TRUE
  /\ committed' = file.records.token
  /\ UNCHANGED <<live, staged, emitted, issued>>
\* restore_record_storage.
Restore ==
  /\ ~ up /\ Restorable
  /\ OpenStore
  /\ up' = TRUE /\ attached' = TRUE
  /\ committed' = file.records.token
  /\ live' = file.records.ops
  /\ UNCHANGED <<staged, emitted, issued>>
\* Without a restorable store the host starts over.
StartFresh ==
  /\ ~ up /\ ~ Restorable
  /\ up' = TRUE
  /\ UNCHANGED <<storeVars, attached, committed, live, staged, emitted, issued>>

Next ==
  \/ EnableOpen
  \/ EnableCommit
  \/ EnableFails
  \/ \E op \in Operations : Stage(op)
  \/ commit_candidate
  \/ Adopt
  \/ Discard
  \/ Crash
  \/ Restore
  \/ StartFresh

Spec == Init /\ [][Next]_vars

-----------------------------------------------------------------------------
\* The values the variables range over; a session has a store only with a
\* token committed to it, and a candidate only with a store.
TypeOK ==
  /\ file \in Files /\ owner \in Owners
  /\ up \in BOOLEAN /\ attached \in BOOLEAN
  /\ committed \in Tokens /\ issued \in Tokens
  /\ live \subseteq Operations /\ emitted \subseteq Operations
  /\ staged \in RecordSets
  /\ attached => up /\ owner.state = "open" /\ committed # NoToken
  /\ staged.token # NoToken => attached

\* "Do not emit network effects or advance the live state before the matching
\* candidate is durably committed": what left the node, and the state it
\* serves from, are in the file through every failure, discard and crash.
EmittedIsDurable ==
  /\ emitted \subseteq file.records.ops
  /\ up /\ attached => emitted \subseteq live /\ live \subseteq file.records.ops

\* "A failed commit leaves this owner at the prior revision": an owner whose
\* commit had an uncertain outcome never writes over it.
NoForkedRevision ==
  [][file' # file /\ file.state = "ready"
     => /\ file'.revision = file.revision + 1
        /\ owner.records = file.records /\ owner.revision = file.revision]_vars

\* The discipline implements its abstract promise.
D == INSTANCE DurableState WITH durable <- file.records.ops, emitted <- emitted
ImplementsDurableState == D!Spec
=============================================================================
