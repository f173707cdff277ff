----------------------------- MODULE NodeProofs -----------------------------
(***************************************************************************)
(* The two ends of a node: its store and the queue to its receiver.        *)
(*                                                                         *)
(* Store.  The durability discipline for every set of operations and every *)
(* bound: what left the node is in the file, an uncertain commit is never  *)
(* written over, and the implementation refines DurableState.              *)
(*                                                                         *)
(* Delivery queue.  For all messages, keys, bounds and interleavings of    *)
(* pushes, pops and closing: it keeps its bounds and its order, loses      *)
(* nothing but the current values a later one replaced, and no class       *)
(* starves another.  Only the part of a push under the lock and a pop      *)
(* change what this is about.                                              *)
(***************************************************************************)
EXTENDS NativePersistence, DeliveryQueue, ExtremumLemmas, TLAPS

\* Leaves are tried with Zenon; those that need arithmetic cite SMT.
USE ZenonT(30)


\* A store that is not set up, or was never committed to, is empty.
NewStoreIsEmpty ==
  /\ file.state # "ready" => file.revision = 0
  /\ file.revision = 0 \/ file.records.token = NoToken => file.records = NoContents

\* An open owner has a store file; one under creation has none yet.
OwnerHasFile ==
  /\ owner.state = "creating" => file.state = "blank"
  /\ owner.state = "open" => file.state = "ready"

\* Nothing but the file outlives the process, and a session without a store
\* has nothing to serve.
SessionOwnsState ==
  /\ ~ up => owner.state = "closed" /\ ~ attached
  /\ ~ attached => live = {} /\ staged = NoCandidate

\* Tokens are never drawn twice.
TokensAreDrawn ==
  /\ committed <= issued /\ staged.token <= issued
  /\ file.records.token <= issued

\* A candidate extends the adopted state, and one whose token is committed is
\* what the file holds.
CandidateIsSaved ==
  staged.token # NoToken =>
    /\ live \subseteq staged.ops
    /\ committed = staged.token => file.records.ops = staged.ops

IInv ==
  /\ TypeOK
  /\ NewStoreIsEmpty
  /\ OwnerHasFile
  /\ SessionOwnsState
  /\ TokensAreDrawn
  /\ CandidateIsSaved
  /\ EmittedIsDurable

-----------------------------------------------------------------------------
\* The session starts with nothing emitted and no store (Init).
LEMMA InitIInv == Init => IInv
<1> SUFFICES ASSUME Init PROVE IInv
  OBVIOUS
<1> USE ContentsAssumption, RecordSetsAssumption
<1>1. file \in Files /\ owner \in Owners
  BY SMTT(30) DEF Init, StoreInit, At, Closed, Files, Owners
<1>2. NoCandidate \in RecordSets /\ NoToken \in Tokens
  BY SMTT(30) DEF NoCandidate, RecordSets, Tokens, NoToken
<1>3. TypeOK
  BY <1>1, <1>2 DEF Init, TypeOK, NoCandidate
<1>4. file.records = NoContents /\ file.records.ops = {} /\ file.records.token = NoToken
  BY SMTT(30) DEF Init, StoreInit, At
<1>5. NewStoreIsEmpty /\ OwnerHasFile /\ SessionOwnsState
  BY SMTT(30) DEF Init, StoreInit, At, Closed, NewStoreIsEmpty, OwnerHasFile, SessionOwnsState
<1>6. TokensAreDrawn /\ CandidateIsSaved /\ EmittedIsDurable
  BY <1>4, SMTT(30) DEF Init, TokensAreDrawn, CandidateIsSaved, EmittedIsDurable, NoCandidate, NoToken
<1> QED BY <1>3, <1>5, <1>6, SMTT(30) DEF IInv

\* What a commit of some record set leaves in the store.
LEMMA CommitResult ==
  ASSUME NEW r \in RecordSets, TypeOK, OwnerHasFile, commit(r) \/ commitUncertain(r)
  PROVE  /\ file' \in Files /\ owner' \in Owners
         /\ file'.records = r /\ file'.state = "ready" /\ file'.revision # 0
         /\ owner.state = "open" /\ owner'.state = "open"
         /\ owner.revision = file.revision
  BY RecordSetsAssumption, SMTT(30) DEF TypeOK, OwnerHasFile, commit, commitUncertain, CanCommit, HeadMatches, At, Files, Owners

\* A freshly drawn token differs from every earlier one.
LEMMA DrawResult ==
  ASSUME TypeOK, TokensAreDrawn, Draw
  PROVE  /\ issued' \in Tokens /\ issued + 1 \in Tokens /\ issued' = issued + 1
         /\ issued' # NoToken /\ committed # issued' /\ committed < issued'
  BY RecordSetsAssumption, SMTT(30) DEF TypeOK, TokensAreDrawn, Draw, Tokens, NoToken, RecordSets

\* Opening or creating the store leaves its records as they are.
LEMMA OpenResult ==
  ASSUME TypeOK, NewStoreIsEmpty, OwnerHasFile, CreateFile \/ CreateSchema \/ OpenStore
  PROVE  /\ file' \in Files /\ owner' \in Owners /\ file'.records = file.records
         /\ NewStoreIsEmpty' /\ OwnerHasFile'
<1> USE ContentsAssumption
<1>1. file \in Files /\ owner \in Owners
  BY SMTT(30) DEF TypeOK
<1>2. file.state # "ready" => file.records = NoContents
  BY SMTT(30) DEF NewStoreIsEmpty
<1>3. CASE CreateFile
  BY <1>1, <1>2, <1>3, SMTT(30) DEF CreateFile, At, Files, Owners, NewStoreIsEmpty, OwnerHasFile
<1>4. CASE CreateSchema
  BY <1>1, <1>2, <1>4, SMTT(30) DEF CreateSchema, At, Files, Owners, NewStoreIsEmpty, OwnerHasFile
<1>5. CASE OpenStore
  BY <1>1, <1>5, SMTT(30) DEF OpenStore, At, Files, Owners, NewStoreIsEmpty, OwnerHasFile
<1> QED BY <1>3, <1>4, <1>5, SMTT(30)

-----------------------------------------------------------------------------
\* Every step of the session and its store keeps the invariant (Next).
LEMMA StepIInv ==
  ASSUME IInv, [Next]_vars
  PROVE  IInv'
<1> USE RecordSetsAssumption, ContentsAssumption
<1>0. /\ TypeOK /\ NewStoreIsEmpty /\ OwnerHasFile /\ SessionOwnsState
      /\ TokensAreDrawn /\ CandidateIsSaved /\ EmittedIsDurable
  BY DEF IInv
<1>1. CASE EnableOpen
  <2>1. /\ file' \in Files /\ owner' \in Owners /\ file'.records = file.records
        /\ NewStoreIsEmpty' /\ OwnerHasFile'
    BY <1>0, <1>1, OpenResult DEF EnableOpen
  <2> QED BY <1>0, <1>1, <2>1, SMTT(30) DEF EnableOpen, sessionVars, IInv, TypeOK, SessionOwnsState, TokensAreDrawn,
        CandidateIsSaved, EmittedIsDurable
<1>2. CASE EnableCommit
  <2> DEFINE r == [ops |-> live, token |-> issued + 1]
  <2>1. /\ issued' \in Tokens /\ issued + 1 \in Tokens /\ issued' = issued + 1
        /\ issued' # NoToken /\ committed < issued'
    BY <1>0, <1>2, DrawResult DEF EnableCommit
  <2>2. r \in RecordSets /\ r.token # NoToken /\ r.ops = live
    BY <1>0, <2>1, SMTT(30) DEF TypeOK, RecordSets
  <2>3. commit(r) \/ commitUncertain(r)
    BY <1>2 DEF EnableCommit
  <2> HIDE DEF r
  <2>4. /\ file' \in Files /\ owner' \in Owners
        /\ file'.records = r /\ file'.state = "ready" /\ file'.revision # 0
        /\ owner.state = "open" /\ owner'.state = "open" /\ owner.revision = file.revision
    BY <1>0, <2>2, <2>3, CommitResult
  <2>5. emitted = {}
    BY <1>0, <1>2, <2>4, SMTT(30) DEF EnableCommit, NewStoreIsEmpty, EmittedIsDurable
  <2>6. /\ up /\ up' /\ live' = {} /\ live = {} /\ staged' = NoCandidate /\ emitted' = {}
        /\ \/ attached' /\ committed' = issued'
           \/ ~ attached' /\ committed' = committed
    BY <1>0, <1>2, <2>1, <2>5, SMTT(30) DEF EnableCommit, SessionOwnsState, Draw
  <2>7. TypeOK'
    BY <1>0, <1>2, <2>1, <2>4, <2>6 DEF TypeOK, NoCandidate, RecordSets, Tokens, NoToken, EnableCommit
  <2>8. NewStoreIsEmpty' /\ OwnerHasFile' /\ SessionOwnsState'
    BY <2>2, <2>4, <2>6, SMTT(30) DEF NewStoreIsEmpty, OwnerHasFile, SessionOwnsState
  <2>9. TokensAreDrawn' /\ CandidateIsSaved' /\ EmittedIsDurable'
    <3>1. file'.records.token = issued'
      BY <2>1, <2>4, SMTT(30) DEF r
    <3> QED BY <1>0, <2>1, <2>6, <3>1, SMTT(30) DEF TypeOK, TokensAreDrawn, CandidateIsSaved,
      EmittedIsDurable, NoCandidate, NoToken, Tokens
  <2> QED BY <2>7, <2>8, <2>9 DEF IInv
<1>3. CASE EnableFails
  BY <1>0, <1>3, SMTT(30) DEF EnableFails, CloseStore, sessionVars, Closed, At, IInv, TypeOK, Owners,
     NewStoreIsEmpty, OwnerHasFile, SessionOwnsState, TokensAreDrawn, CandidateIsSaved,
     EmittedIsDurable
<1>4. CASE \E op \in Operations : Stage(op)
  <2>1. PICK op \in Operations : Stage(op)
    BY <1>4, SMTT(30)
  <2>2. /\ issued' \in Tokens /\ issued + 1 \in Tokens /\ issued' = issued + 1
        /\ issued' # NoToken /\ committed # issued' /\ committed < issued'
    BY <1>0, <2>1, DrawResult DEF Stage
  <2>3. /\ staged' = [ops |-> live \cup {op}, token |-> issued'] /\ staged' \in RecordSets
        /\ staged'.token = issued' /\ live \subseteq staged'.ops
    BY <1>0, <2>1, <2>2, SMTT(30) DEF Stage, TypeOK, RecordSets
  <2>4. UNCHANGED <<file, owner, up, attached, committed, live, emitted>> /\ attached /\ up
    BY <2>1, SMTT(30) DEF Stage, storeVars
  <2>5. TypeOK' /\ NewStoreIsEmpty' /\ OwnerHasFile' /\ SessionOwnsState'
    BY <1>0, <2>2, <2>3, <2>4, SMTT(30) DEF TypeOK, NewStoreIsEmpty, OwnerHasFile, SessionOwnsState
  <2>6. TokensAreDrawn'
    <3>1. issued \in Nat /\ file.records.token \in Nat
      BY <1>0, SMTT(30) DEF TypeOK, Files, RecordSets, Tokens, NoToken
    <3> QED BY <1>0, <2>2, <2>3, <2>4, <3>1, SMTT(30) DEF TokensAreDrawn, TypeOK, Tokens, NoToken
  <2>7. CandidateIsSaved' /\ EmittedIsDurable'
    BY <1>0, <2>2, <2>3, <2>4, SMTT(30) DEF CandidateIsSaved, EmittedIsDurable
  <2> QED BY <2>5, <2>6, <2>7 DEF IInv
<1>5. CASE commit_candidate
  <2>1. /\ staged \in RecordSets /\ staged.token # NoToken /\ attached /\ up
        /\ live \subseteq staged.ops /\ staged.token \in Tokens /\ staged.ops \subseteq Operations
    BY <1>0, <1>5, SMTT(30) DEF commit_candidate, TypeOK, CandidateIsSaved, RecordSets
  <2>2. commit(staged) \/ commitUncertain(staged)
    BY <1>5 DEF commit_candidate
  <2>3. /\ file' \in Files /\ owner' \in Owners
        /\ file'.records = staged /\ file'.state = "ready" /\ file'.revision # 0
        /\ owner'.state = "open"
    BY <1>0, <2>1, <2>2, CommitResult
  <2>4. /\ UNCHANGED <<up, attached, live, staged, emitted, issued>>
        /\ committed' = staged.token \/ committed' = committed
    BY <1>5, SMTT(30) DEF commit_candidate
  <2>5. TypeOK'
    BY <1>0, <2>1, <2>3, <2>4, SMTT(30) DEF TypeOK
  <2>6. NewStoreIsEmpty' /\ OwnerHasFile' /\ SessionOwnsState' /\ TokensAreDrawn'
    BY <1>0, <2>1, <2>3, <2>4, SMTT(30) DEF NewStoreIsEmpty, OwnerHasFile, SessionOwnsState, TokensAreDrawn
  <2>7. CandidateIsSaved' /\ EmittedIsDurable'
    BY <1>0, <2>1, <2>3, <2>4, SMTT(30) DEF CandidateIsSaved, EmittedIsDurable
  <2> QED BY <2>5, <2>6, <2>7 DEF IInv
<1>6. CASE Adopt
  <2>1. /\ staged.token # NoToken /\ attached /\ up
        /\ live \subseteq staged.ops /\ file.records.ops = staged.ops /\ staged.ops \subseteq Operations
    BY <1>0, <1>6, SMTT(30) DEF Adopt, TypeOK, CandidateIsSaved, RecordSets
  <2>2. /\ live' = staged.ops /\ emitted' = emitted \cup staged.ops /\ staged' = NoCandidate
        /\ UNCHANGED <<file, owner, up, attached, committed, issued>>
    BY <1>6, SMTT(30) DEF Adopt, storeVars
  <2>3. NoCandidate \in RecordSets /\ NoCandidate.token = NoToken /\ NoToken <= issued
    BY <1>0, SMTT(30) DEF NoCandidate, RecordSets, Tokens, NoToken, TypeOK
  <2> QED BY <1>0, <2>1, <2>2, <2>3, SMTT(30) DEF IInv, TypeOK, NewStoreIsEmpty, OwnerHasFile, SessionOwnsState, TokensAreDrawn,
        CandidateIsSaved, EmittedIsDurable
<1>7. CASE Discard
  <2>1. /\ staged' = NoCandidate /\ UNCHANGED <<file, owner, up, attached, committed, live, emitted, issued>>
    BY <1>7, SMTT(30) DEF Discard, storeVars
  <2>2. NoCandidate \in RecordSets /\ NoCandidate.token = NoToken /\ NoToken <= issued
    BY <1>0, SMTT(30) DEF NoCandidate, RecordSets, Tokens, NoToken, TypeOK
  <2> QED BY <1>0, <2>1, <2>2, SMTT(30) DEF IInv, TypeOK, NewStoreIsEmpty, OwnerHasFile, SessionOwnsState, TokensAreDrawn,
        CandidateIsSaved, EmittedIsDurable
<1>8. CASE Crash
  <2>1. NoCandidate \in RecordSets /\ NoCandidate.token = NoToken /\ NoToken <= issued /\ NoToken \in Tokens
    BY <1>0, SMTT(30) DEF NoCandidate, RecordSets, Tokens, NoToken, TypeOK
  <2>2. owner' \in Owners /\ owner'.state = "closed" /\ UNCHANGED file
    BY <1>8, SMTT(30) DEF Crash, CloseStore, Closed, At, Owners
  <2> QED BY <1>0, <1>8, <2>1, <2>2 DEF Crash, IInv, TypeOK, NewStoreIsEmpty, OwnerHasFile, SessionOwnsState, TokensAreDrawn,
        CandidateIsSaved, EmittedIsDurable
<1>9. CASE Restore
  <2>1. file.records \in RecordSets /\ file.records.token \in Tokens /\ file.records.ops \subseteq Operations
    BY <1>0, SMTT(30) DEF TypeOK, Files, RecordSets
  <2>2. /\ up' /\ attached' /\ committed' = file.records.token /\ live' = file.records.ops
        /\ UNCHANGED <<file, staged, emitted, issued>>
        /\ ~ up /\ file.records.token # NoToken /\ file.state = "ready"
        /\ owner' = At("open", file.revision, file.records)
    BY <1>9, SMTT(30) DEF Restore, OpenStore, Restorable
  <2>3. owner' \in Owners /\ owner'.state = "open"
    BY <1>0, <2>1, <2>2, SMTT(30) DEF TypeOK, Files, Owners, At
  <2>4. staged = NoCandidate /\ NoCandidate.token = NoToken
    BY <1>0, <2>2, SMTT(30) DEF SessionOwnsState, NoCandidate
  <2> QED BY <1>0, <2>1, <2>2, <2>3, <2>4, SMTT(30) DEF IInv, TypeOK, NewStoreIsEmpty, OwnerHasFile, SessionOwnsState, TokensAreDrawn,
        CandidateIsSaved, EmittedIsDurable
<1>10. CASE StartFresh
  BY <1>0, <1>10, SMTT(30) DEF StartFresh, storeVars, IInv, TypeOK,
     NewStoreIsEmpty, OwnerHasFile, SessionOwnsState, TokensAreDrawn, CandidateIsSaved,
     EmittedIsDurable
<1>11. CASE UNCHANGED vars
  BY <1>0, <1>11 DEF vars, storeVars, sessionVars, IInv, TypeOK,
     NewStoreIsEmpty, OwnerHasFile, SessionOwnsState, TokensAreDrawn, CandidateIsSaved,
     EmittedIsDurable
<1> QED
  BY <1>1, <1>2, <1>3, <1>4, <1>5, <1>6, <1>7, <1>8, <1>9, <1>10, <1>11, SMTT(30) DEF Next

-----------------------------------------------------------------------------
\* The inductive invariant holds throughout.
THEOREM Invariant == Spec => []IInv
  BY InitIInv, StepIInv, PTL DEF Spec

\* The session and its store keep their types.
THEOREM TypeCorrect == Spec => []TypeOK
<1>1. IInv => TypeOK BY DEF IInv
<1> QED BY <1>1, Invariant, PTL

\* Nothing leaves the node, and no state is served from, that a restart would
\* not bring back (Adopt behind require_committed).
THEOREM EffectsAreDurable == Spec => []EmittedIsDurable
<1>1. IInv => EmittedIsDurable BY DEF IInv
<1> QED BY <1>1, Invariant, PTL

\* A step that changes a store which is set up writes the successor of the
\* head its owner accepted.
LEMMA StepNoFork ==
  ASSUME IInv, [Next]_vars, file' # file, file.state = "ready"
  PROVE  /\ file'.revision = file.revision + 1
         /\ owner.records = file.records /\ owner.revision = file.revision
<1>0. TypeOK /\ OwnerHasFile
  BY DEF IInv
<1>1. \E r \in {staged, [ops |-> live, token |-> issued + 1]} : commit(r) \/ commitUncertain(r)
  BY <1>0, SMTT(30) DEF OwnerHasFile, Next, vars, storeVars, EnableOpen, CreateFile, CreateSchema, OpenStore,
     EnableCommit, EnableFails, CloseStore, Stage, commit_candidate, Adopt, Discard, Crash, Restore,
     StartFresh
<1> QED BY <1>0, <1>1, SMTT(30) DEF commit, commitUncertain, CanCommit, HeadMatches, At

\* No revision is written twice: an owner whose commit had an uncertain
\* outcome never writes over what reached the file.
THEOREM NoFork == Spec => NoForkedRevision
<1>1. IInv /\ [Next]_vars =>
        [file' # file /\ file.state = "ready"
         => /\ file'.revision = file.revision + 1
            /\ owner.records = file.records /\ owner.revision = file.revision]_vars
  BY StepNoFork, SMTT(30)
<1> QED BY <1>1, Invariant, PTL DEF Spec, NoForkedRevision

\* Every step of the session is a step of the abstract specification or
\* leaves its variables alone.
LEMMA StepRefines ==
  ASSUME IInv, IInv', [Next]_vars
  PROVE  [D!Next]_(D!vars)
<1>0. /\ TypeOK /\ NewStoreIsEmpty /\ OwnerHasFile /\ SessionOwnsState
      /\ TokensAreDrawn /\ CandidateIsSaved /\ EmittedIsDurable
  BY DEF IInv
<1>1. file'.records.ops \subseteq Operations /\ emitted' \subseteq file'.records.ops
  BY RecordSetsAssumption, SMTT(30) DEF IInv, TypeOK, Files, RecordSets, EmittedIsDurable
<1>2. CASE Adopt
  <2>1. staged.ops = file.records.ops
    BY <1>0, <1>2, SMTT(30) DEF Adopt, CandidateIsSaved
  <2>2. emitted' = emitted \cup staged.ops /\ UNCHANGED file
    BY <1>2, SMTT(30) DEF Adopt, storeVars
  <2> QED BY <2>1, <2>2, SMTT(30) DEF D!Next, D!Emit
<1>3. CASE emitted' = emitted
  BY <1>1, <1>3, SMTT(30) DEF D!Next, D!Save, D!vars
<1>4. Adopt \/ emitted' = emitted
  BY DEF Next, vars, sessionVars, EnableOpen, EnableCommit, EnableFails, Stage,
     commit_candidate, Discard, Crash, Restore, StartFresh
<1> QED BY <1>2, <1>3, <1>4, SMTT(30)

\* Staging, saving, adopting, discarding, crashing and restoring implement
\* the durability contract of DurableState.
THEOREM Refinement == Spec => ImplementsDurableState
<1>1. Init => D!Init
  BY RecordSetsAssumption, SMTT(30) DEF Init, StoreInit, At, D!Init
<1> QED BY <1>1, StepRefines, Invariant, PTL DEF Spec, ImplementsDurableState, D!Spec

-----------------------------------------------------------------------------
\* The queue is a record of what it should be.
IsQueue(q) ==
  /\ q = [critical |-> q.critical, current |-> q.current, bulk |-> q.bulk,
          run |-> q.run, bulk_turn |-> q.bulk_turn]
  /\ q.critical \in Seq(Messages) /\ q.bulk \in Seq(Messages)
  /\ q.current \subseteq Messages /\ IsFiniteSet(q.current)
  /\ q.run \in 0 .. CriticalRun /\ q.bulk_turn \in BOOLEAN

\* The histories are sequences of messages.
HistoriesOK ==
  /\ setup \in Cases
  /\ admitted \in [Classes -> Seq(Messages)] /\ delivered \in [Classes -> Seq(Messages)]
  /\ skipped \in [Classes -> Nat]

\* A queued value entered the queue, and after every value of its key that the
\* receiver has seen; so did each of those.
ValuesEntered(came, went, queued) ==
  /\ \A i \in DOMAIN went : \E x \in DOMAIN came : came[x] = went[i]
  /\ \A m \in queued : \E y \in DOMAIN came : came[y] = m
  /\ \A m \in queued : \A i \in DOMAIN went : Key[went[i]] = Key[m] =>
       \E x, y \in DOMAIN came : x < y /\ came[x] = went[i] /\ came[y] = m
ValuesInv == ValuesEntered(admitted["current"], delivered["current"], state.current)

\* How long a class has waited, by the critical messages in a row so far and
\* the turn of the lower classes.
TurnsInv ==
  /\ skipped["critical"] <= 1 /\ (skipped["critical"] = 1 => state.run = 0)
  /\ ~ state.bulk_turn => skipped["bulk"] <= state.run
  /\ state.bulk_turn => skipped["bulk"] <= state.run + CriticalRun + 1
  /\ state.bulk_turn => skipped["current"] <= state.run
  /\ ~ state.bulk_turn => skipped["current"] <= state.run + CriticalRun + 1

QueueInv == HistoriesOK /\ IsQueue(state) /\ ValuesInv /\ TurnsInv /\ DeliveryKeepsOrder

-----------------------------------------------------------------------------
\* A fresh queue is empty and nobody has waited.
LEMMA InitQueue == QueueInit => QueueInv
<1> SUFFICES ASSUME QueueInit PROVE QueueInv
  OBVIOUS
<1>1. HistoriesOK
  BY SMTT(30) DEF QueueInit, HistoriesOK, Classes
<1>2. IsQueue(state)
  BY FS_EmptySet, QueueAssumption, SMTT(30) DEF QueueInit, IsQueue
<1>3. ValuesInv
  BY SMTT(30) DEF QueueInit, ValuesInv, ValuesEntered, Classes
<1>4. TurnsInv
  BY QueueAssumption, SMTT(30) DEF QueueInit, TurnsInv, Classes
<1>5. QueueTypeOK /\ ClassesTakeTurns
  BY FS_EmptySet, QueueAssumption, SMTT(30) DEF QueueInit, QueueTypeOK, ClassesTakeTurns, Classes, Range
<1>6. DeliveryKeepsOrder
  BY <1>5, SMTT(30) DEF QueueInit, DeliveryKeepsOrder, ValuesInOrder, Classes
<1> QED BY <1>1, <1>2, <1>3, <1>4, <1>6, SMTT(30) DEF QueueInv

\* A step that leaves the queue and the histories alone.
LEMMA QueueFrame ==
  ASSUME QueueInv, UNCHANGED <<setup, state, delivered, admitted, skipped>>
  PROVE  QueueInv'
<1>0. /\ setup' = setup /\ state' = state /\ delivered' = delivered /\ admitted' = admitted
      /\ skipped' = skipped /\ Messages' = Messages /\ \A x : Class(x)' = Class(x)
  BY SMTT(30) DEF Messages, Class
<1>1. HistoriesOK'
  BY <1>0 DEF QueueInv, HistoriesOK
<1>2. IsQueue(state)'
  BY <1>0, SMTT(30) DEF QueueInv, IsQueue
<1>3. ValuesInv'
  BY <1>0 DEF QueueInv, ValuesInv
<1>4. TurnsInv'
  BY <1>0 DEF QueueInv, TurnsInv
<1>5. QueueTypeOK' /\ ClassesTakeTurns'
  BY <1>0 DEF QueueInv, DeliveryKeepsOrder, QueueTypeOK, ClassesTakeTurns
<1>6. DeliveryKeepsOrder'
  BY <1>0, <1>5 DEF QueueInv, DeliveryKeepsOrder
<1> QED BY <1>1, <1>2, <1>3, <1>4, <1>6 DEF QueueInv

\* The three ways into the queue (push, under the lock).
LEMMA InsertShape ==
  ASSUME QueueInv, NEW m \in Messages, Insert(m)
  PROVE  \/ UNCHANGED <<state, admitted>>
         \/ /\ Class(m) = "critical" /\ Len(state.critical) < CriticalQueue
            /\ state' = [state EXCEPT !.critical = Append(@, m)]
            /\ admitted' = [admitted EXCEPT !["critical"] = Append(@, m)]
         \/ /\ Class(m) = "bulk" /\ Len(state.bulk) < BulkQueue
            /\ state' = [state EXCEPT !.bulk = Append(@, m)]
            /\ admitted' = [admitted EXCEPT !["bulk"] = Append(@, m)]
         \/ LET replaced == {c \in state.current : Key[c] = Key[m]}
            IN  /\ Class(m) = "current"
                /\ Cardinality(state.current) < CurrentQueue \/ replaced # {}
                /\ state' = [state EXCEPT !.current = (@ \ replaced) \cup {m}]
                /\ admitted' = [admitted EXCEPT !["current"] = Append(@, m)]
<1>1. Class(m) \in Classes
  BY QueueAssumption, SMTT(30) DEF QueueInv, HistoriesOK, Class, Messages
<1>2. CASE Inserted(m) = {}
  BY <1>2 DEF Insert
<1>3. CASE Inserted(m) # {}
  <2>1. state' \in Inserted(m) /\ admitted' = [admitted EXCEPT ![Class(m)] = Append(@, m)]
    BY <1>3 DEF Insert
  <2> QED BY <1>1, <2>1 DEF Inserted, Classes
<1> QED BY <1>2, <1>3, SMTT(30)

\* Sequences: an element appended to the second of two joined ones.
LEMMA AppendToJoined ==
  ASSUME NEW S, NEW a \in Seq(S), NEW b \in Seq(S), NEW m \in S
  PROVE  a \o Append(b, m) = Append(a \o b, m)
<1>1. Append(b, m) \in Seq(S) /\ Len(Append(b, m)) = Len(b) + 1 /\ a \o b \in Seq(S)
      /\ Len(a \o b) = Len(a) + Len(b) /\ Len(a) \in Nat /\ Len(b) \in Nat
  BY SMTT(30)
<1>2. a \o Append(b, m) \in Seq(S) /\ Len(a \o Append(b, m)) = Len(a) + Len(b) + 1
      /\ Append(a \o b, m) \in Seq(S) /\ Len(Append(a \o b, m)) = Len(a) + Len(b) + 1
  BY <1>1, SMTT(30)
<1>3. \A i \in 1 .. Len(a) + Len(b) + 1 : (a \o Append(b, m))[i] = Append(a \o b, m)[i]
  BY <1>1, SMTT(30)
<1> QED BY <1>2, <1>3, SMTT(30)

\* A critical message at the end of its queue.
LEMMA CriticalIn ==
  ASSUME QueueInv, NEW m \in Messages, Class(m) = "critical", Len(state.critical) < CriticalQueue,
         state' = [state EXCEPT !.critical = Append(@, m)],
         admitted' = [admitted EXCEPT !["critical"] = Append(@, m)],
         UNCHANGED <<setup, delivered, skipped>>
  PROVE  QueueInv'
<1> DEFINE q == state
<1>1. /\ q.critical \in Seq(Messages) /\ delivered["critical"] \in Seq(Messages)
      /\ admitted \in [Classes -> Seq(Messages)] /\ Messages' = Messages
      /\ \A x : Class(x)' = Class(x)
  BY SMTT(30) DEF QueueInv, IsQueue, HistoriesOK, Messages, Classes, Class
<1>2. /\ state'.critical = Append(q.critical, m) /\ state'.current = q.current /\ state'.bulk = q.bulk
      /\ state'.run = q.run /\ state'.bulk_turn = q.bulk_turn
      /\ state' = [critical |-> state'.critical, current |-> state'.current, bulk |-> state'.bulk,
                   run |-> state'.run, bulk_turn |-> state'.bulk_turn]
  BY DEF QueueInv, IsQueue
<1>3. /\ admitted'["critical"] = Append(admitted["critical"], m) /\ admitted'["bulk"] = admitted["bulk"]
      /\ admitted'["current"] = admitted["current"] /\ admitted' \in [Classes -> Seq(Messages)]
  BY <1>1, SMTT(30) DEF Classes
<1>4. HistoriesOK'
  BY <1>1, <1>3 DEF QueueInv, HistoriesOK
<1>5. Append(q.critical, m) \in Seq(Messages) /\ Len(Append(q.critical, m)) <= CriticalQueue
      /\ \A x \in Range(Append(q.critical, m)) : x \in Range(q.critical) \/ x = m
  BY <1>1, QueueAssumption, SMTT(30) DEF Range
<1>6. IsQueue(state)'
  BY <1>1, <1>2, <1>5, SMTT(30) DEF QueueInv, IsQueue
<1>7. ValuesInv' /\ TurnsInv' /\ ClassesTakeTurns'
  <2>1. ValuesInv'
    BY <1>2, <1>3 DEF QueueInv, ValuesInv
  <2>2. TurnsInv' /\ ClassesTakeTurns'
    BY <1>2, <1>3 DEF QueueInv, TurnsInv, DeliveryKeepsOrder, ClassesTakeTurns
  <2> QED BY <2>1, <2>2
<1>8. QueueTypeOK'
  BY <1>1, <1>2, <1>5 DEF QueueInv, DeliveryKeepsOrder, QueueTypeOK
<1>9. delivered["critical"] \o Append(q.critical, m) = Append(delivered["critical"] \o q.critical, m)
  <2>1. PICK a \in Seq(Messages), b \in Seq(Messages) : a = delivered["critical"] /\ b = q.critical
    BY <1>1
  <2>2. a \o Append(b, m) = Append(a \o b, m)
    BY AppendToJoined, SMTT(30)
  <2> QED BY <2>1, <2>2
<1>10. DeliveryKeepsOrder'
  BY <1>2, <1>3, <1>7, <1>8, <1>9 DEF QueueInv, DeliveryKeepsOrder
<1> QED BY <1>4, <1>6, <1>7, <1>10 DEF QueueInv

\* A bulk message at the end of its queue.
LEMMA BulkIn ==
  ASSUME QueueInv, NEW m \in Messages, Class(m) = "bulk", Len(state.bulk) < BulkQueue,
         state' = [state EXCEPT !.bulk = Append(@, m)],
         admitted' = [admitted EXCEPT !["bulk"] = Append(@, m)],
         UNCHANGED <<setup, delivered, skipped>>
  PROVE  QueueInv'
<1> DEFINE q == state
<1>1. /\ q.bulk \in Seq(Messages) /\ delivered["bulk"] \in Seq(Messages)
      /\ admitted \in [Classes -> Seq(Messages)] /\ Messages' = Messages
      /\ \A x : Class(x)' = Class(x)
  BY SMTT(30) DEF QueueInv, IsQueue, HistoriesOK, Messages, Classes, Class
<1>2. /\ state'.bulk = Append(q.bulk, m) /\ state'.current = q.current /\ state'.critical = q.critical
      /\ state'.run = q.run /\ state'.bulk_turn = q.bulk_turn
      /\ state' = [critical |-> state'.critical, current |-> state'.current, bulk |-> state'.bulk,
                   run |-> state'.run, bulk_turn |-> state'.bulk_turn]
  BY DEF QueueInv, IsQueue
<1>3. /\ admitted'["bulk"] = Append(admitted["bulk"], m) /\ admitted'["critical"] = admitted["critical"]
      /\ admitted'["current"] = admitted["current"] /\ admitted' \in [Classes -> Seq(Messages)]
  BY <1>1, SMTT(30) DEF Classes
<1>4. HistoriesOK'
  BY <1>1, <1>3 DEF QueueInv, HistoriesOK
<1>5. Append(q.bulk, m) \in Seq(Messages) /\ Len(Append(q.bulk, m)) <= BulkQueue
      /\ \A x \in Range(Append(q.bulk, m)) : x \in Range(q.bulk) \/ x = m
  BY <1>1, QueueAssumption, SMTT(30) DEF Range
<1>6. IsQueue(state)'
  BY <1>1, <1>2, <1>5, SMTT(30) DEF QueueInv, IsQueue
<1>7. ValuesInv' /\ TurnsInv' /\ ClassesTakeTurns'
  <2>1. ValuesInv'
    BY <1>2, <1>3 DEF QueueInv, ValuesInv
  <2>2. TurnsInv' /\ ClassesTakeTurns'
    BY <1>2, <1>3 DEF QueueInv, TurnsInv, DeliveryKeepsOrder, ClassesTakeTurns
  <2> QED BY <2>1, <2>2
<1>8. QueueTypeOK'
  BY <1>1, <1>2, <1>5 DEF QueueInv, DeliveryKeepsOrder, QueueTypeOK
<1>9. delivered["bulk"] \o Append(q.bulk, m) = Append(delivered["bulk"] \o q.bulk, m)
  <2>1. PICK a \in Seq(Messages), b \in Seq(Messages) : a = delivered["bulk"] /\ b = q.bulk
    BY <1>1
  <2>2. a \o Append(b, m) = Append(a \o b, m)
    BY AppendToJoined, SMTT(30)
  <2> QED BY <2>1, <2>2
<1>10. DeliveryKeepsOrder'
  BY <1>2, <1>3, <1>7, <1>8, <1>9 DEF QueueInv, DeliveryKeepsOrder
<1> QED BY <1>4, <1>6, <1>7, <1>10 DEF QueueInv

-----------------------------------------------------------------------------
\* A value that enters replaces the queued one of its key.
LEMMA ValueIn ==
  ASSUME NEW S, NEW came \in Seq(S), NEW went \in Seq(S), NEW queued, NEW m \in S,
         ValuesEntered(came, went, queued), ValuesInOrder(came, went, queued)
  PROVE  LET now == (queued \ {c \in queued : Key[c] = Key[m]}) \cup {m}
         IN ValuesEntered(Append(came, m), went, now) /\ ValuesInOrder(Append(came, m), went, now)
<1> DEFINE now == (queued \ {c \in queued : Key[c] = Key[m]}) \cup {m}
           n == Len(came) + 1
<1>1. PICK list : list = Append(came, m)
  OBVIOUS
<1>2. /\ DOMAIN list = 1 .. n /\ list[n] = m /\ n \in Nat /\ DOMAIN came = 1 .. n - 1
      /\ \A x \in DOMAIN came : x \in DOMAIN list /\ list[x] = came[x] /\ x < n
      /\ \A x \in DOMAIN list : x = n \/ x \in DOMAIN came
      /\ n \in DOMAIN list
  BY <1>1, SMTT(30)
<1> HIDE DEF n
<1>3. ValuesEntered(list, went, now)
  <2>1. \A i \in DOMAIN went : \E x \in DOMAIN came : came[x] = went[i]
    BY DEF ValuesEntered
  <2>2. \A i \in DOMAIN went : \E x \in DOMAIN list : x < n /\ list[x] = went[i]
    BY <1>2, <2>1
  <2>3. \A c \in now : \E y \in DOMAIN list : list[y] = c
    BY <1>2, SMTT(30) DEF ValuesEntered
  <2>4. ASSUME NEW c \in now, NEW i \in DOMAIN went, Key[went[i]] = Key[c]
        PROVE  \E x, y \in DOMAIN list : x < y /\ list[x] = went[i] /\ list[y] = c
    <3>1. CASE c = m
      BY <1>2, <2>2, <3>1
    <3>2. CASE c \in queued
      BY <1>2, <2>4, <3>2, SMTT(30) DEF ValuesEntered
    <3> QED BY <3>1, <3>2
  <2> QED BY <2>2, <2>3, <2>4 DEF ValuesEntered
<1>4. ValuesInOrder(list, went, now)
  <2>1. ASSUME NEW i \in DOMAIN went, NEW j \in DOMAIN went, i < j, Key[went[i]] = Key[went[j]]
        PROVE  \E x, y \in DOMAIN list : x < y /\ list[x] = went[i] /\ list[y] = went[j]
    BY <1>2, <2>1, SMTT(30) DEF ValuesInOrder
  <2>2. ASSUME NEW x \in DOMAIN list, \A y \in DOMAIN list : x < y => Key[list[y]] # Key[list[x]]
        PROVE  list[x] \in now \cup Range(went)
    <3>1. CASE x = n
      BY <1>2, <3>1
    <3>2. CASE x \in DOMAIN came
      <4>1. Key[came[x]] # Key[m] /\ \A y \in DOMAIN came : x < y => Key[came[y]] # Key[came[x]]
        BY <1>2, <2>2, <3>2
      <4>2. came[x] \in queued \cup Range(went)
        BY <3>2, <4>1 DEF ValuesInOrder
      <4> QED BY <1>2, <3>2, <4>1, <4>2
    <3> QED BY <1>2, <3>1, <3>2
  <2> QED BY <2>1, <2>2 DEF ValuesInOrder
<1> QED BY <1>1, <1>3, <1>4

\* A value taken out was the only one of its key.
LEMMA ValueOut ==
  ASSUME NEW S, NEW came \in Seq(S), NEW went \in Seq(S), NEW queued, NEW m \in S, m \in queued,
         \A c, d \in queued : Key[c] = Key[d] => c = d,
         ValuesEntered(came, went, queued), ValuesInOrder(came, went, queued)
  PROVE  /\ ValuesEntered(came, Append(went, m), queued \ {m})
         /\ ValuesInOrder(came, Append(went, m), queued \ {m})
<1> DEFINE now == queued \ {m}
           n == Len(went) + 1
<1>1. PICK list : list = Append(went, m)
  OBVIOUS
<1>2. /\ DOMAIN list = 1 .. n /\ list[n] = m /\ n \in DOMAIN list
      /\ \A x \in DOMAIN went : x \in DOMAIN list /\ list[x] = went[x]
      /\ \A x \in DOMAIN list : x = n \/ x \in DOMAIN went
      /\ \A x, y \in DOMAIN list : x < y => x \in DOMAIN went
  BY <1>1, SMTT(30)
<1>3. Range(list) = Range(went) \cup {m}
  BY <1>2, SMTT(30) DEF Range
<1> HIDE DEF n
<1>4. ValuesEntered(came, list, now)
  <2>1. \A i \in DOMAIN list : \E x \in DOMAIN came : came[x] = list[i]
    BY <1>2, SMTT(30) DEF ValuesEntered
  <2>2. \A c \in now : \E y \in DOMAIN came : came[y] = c
    BY DEF ValuesEntered
  <2>3. ASSUME NEW c \in now, NEW i \in DOMAIN list, Key[list[i]] = Key[c]
        PROVE  \E x, y \in DOMAIN came : x < y /\ came[x] = list[i] /\ came[y] = c
    <3>1. c \in queued /\ c # m /\ Key[m] # Key[c]
      OBVIOUS
    <3>2. i \in DOMAIN went /\ list[i] = went[i]
      BY <1>2, <2>3, <3>1
    <3> QED BY <2>3, <3>1, <3>2, SMTT(30) DEF ValuesEntered
  <2> QED BY <2>1, <2>2, <2>3 DEF ValuesEntered
<1>5. ValuesInOrder(came, list, now)
  <2>1. ASSUME NEW i \in DOMAIN list, NEW j \in DOMAIN list, i < j, Key[list[i]] = Key[list[j]]
        PROVE  \E x, y \in DOMAIN came : x < y /\ came[x] = list[i] /\ came[y] = list[j]
    <3>1. i \in DOMAIN went /\ list[i] = went[i]
      BY <1>2, <2>1
    <3>2. CASE j = n
      BY <1>2, <2>1, <3>1, <3>2, SMTT(30) DEF ValuesEntered
    <3>3. CASE j \in DOMAIN went
      BY <1>2, <2>1, <3>1, <3>3, SMTT(30) DEF ValuesInOrder
    <3> QED BY <1>2, <3>2, <3>3
  <2>2. ASSUME NEW x \in DOMAIN came, \A y \in DOMAIN came : x < y => Key[came[y]] # Key[came[x]]
        PROVE  came[x] \in now \cup Range(list)
    BY <1>3, <2>2 DEF ValuesInOrder
  <2> QED BY <2>1, <2>2 DEF ValuesInOrder
<1> QED BY <1>1, <1>4, <1>5

\* A current value in the queue, in place of the one of its key.
LEMMA CurrentIn ==
  ASSUME QueueInv, NEW m \in Messages, Class(m) = "current",
         NEW replaced, replaced = {c \in state.current : Key[c] = Key[m]},
         Cardinality(state.current) < CurrentQueue \/ replaced # {},
         state' = [state EXCEPT !.current = (@ \ replaced) \cup {m}],
         admitted' = [admitted EXCEPT !["current"] = Append(@, m)],
         UNCHANGED <<setup, delivered, skipped>>
  PROVE  QueueInv'
<1> DEFINE q == state
           now == (q.current \ replaced) \cup {m}
<1>1. /\ admitted \in [Classes -> Seq(Messages)] /\ delivered \in [Classes -> Seq(Messages)]
      /\ Messages' = Messages /\ (\A x : Class(x)' = Class(x))
      /\ q.current \subseteq Messages /\ IsFiniteSet(q.current)
      /\ setup' = setup /\ delivered' = delivered /\ skipped' = skipped
  BY SMTT(30) DEF QueueInv, IsQueue, HistoriesOK, Messages, Class
<1>2. /\ state'.current = now /\ state'.bulk = q.bulk /\ state'.critical = q.critical
      /\ state'.run = q.run /\ state'.bulk_turn = q.bulk_turn
      /\ state' = [critical |-> state'.critical, current |-> state'.current, bulk |-> state'.bulk,
                   run |-> state'.run, bulk_turn |-> state'.bulk_turn]
  BY DEF QueueInv, IsQueue
<1>3. /\ admitted'["current"] = Append(admitted["current"], m) /\ admitted'["bulk"] = admitted["bulk"]
      /\ admitted'["critical"] = admitted["critical"] /\ admitted' \in [Classes -> Seq(Messages)]
      /\ admitted["current"] \in Seq(Messages) /\ delivered["current"] \in Seq(Messages)
  BY <1>1, SMTT(30) DEF Classes
<1>4. HistoriesOK'
  BY <1>1, <1>3 DEF QueueInv, HistoriesOK
<1>5. IsFiniteSet(now) /\ Cardinality(now) <= CurrentQueue
  <2>0. Cardinality(q.current) \in Nat /\ Cardinality(q.current) <= CurrentQueue /\ CurrentQueue \in Nat
    BY <1>1, FS_CardinalityType, QueueAssumption, SMTT(30) DEF QueueInv, DeliveryKeepsOrder, QueueTypeOK
  <2>1. PICK kept : kept = q.current \ replaced
    OBVIOUS
  <2>2. IsFiniteSet(kept) /\ Cardinality(kept) \in Nat /\ Cardinality(kept) <= Cardinality(q.current)
    BY <1>1, <2>1, FS_Subset, FS_CardinalityType, SMTT(30)
  <2>3. IsFiniteSet(kept \cup {m})
        /\ (Cardinality(kept \cup {m}) = Cardinality(kept)
            \/ Cardinality(kept \cup {m}) = Cardinality(kept) + 1)
    BY <2>2, FS_AddElement
  <2>4. Cardinality(kept) < CurrentQueue
    <3>1. CASE Cardinality(q.current) < CurrentQueue
      BY <2>0, <2>2, <3>1, SMTT(30)
    <3>2. CASE replaced # {}
      <4>1. PICK c \in replaced : c \in q.current
        BY <3>2
      <4>2. IsFiniteSet(q.current \ {c}) /\ Cardinality(q.current \ {c}) = Cardinality(q.current) - 1
        BY <1>1, <4>1, FS_RemoveElement
      <4>3. kept \subseteq q.current \ {c}
        BY <2>1, <4>1
      <4>4. Cardinality(kept) <= Cardinality(q.current \ {c})
        BY <4>2, <4>3, FS_Subset
      <4> QED BY <2>0, <2>2, <4>2, <4>4, SMTT(30)
    <3> QED BY <3>1, <3>2
  <2> QED BY <2>0, <2>1, <2>2, <2>3, <2>4, SMTT(30)
<1>6. IsQueue(state)'
  <2>1. now \subseteq Messages
    BY <1>1
  <2> QED BY <1>1, <1>2, <1>5, <2>1, SMTT(30) DEF QueueInv, IsQueue
<1>7. TurnsInv' /\ ClassesTakeTurns'
  BY <1>1, <1>2 DEF QueueInv, TurnsInv, DeliveryKeepsOrder, ClassesTakeTurns
<1>8. QueueTypeOK'
  <2>1. \A x, y \in now : Key[x] = Key[y] => x = y
    BY DEF QueueInv, DeliveryKeepsOrder, QueueTypeOK
  <2>2. \A x \in now : Class(x) = "current"
    BY DEF QueueInv, DeliveryKeepsOrder, QueueTypeOK
  <2> QED BY <1>1, <1>2, <1>5, <2>1, <2>2 DEF QueueInv, DeliveryKeepsOrder, QueueTypeOK
<1>9. ValuesEntered(Append(admitted["current"], m), delivered["current"], now)
      /\ ValuesInOrder(Append(admitted["current"], m), delivered["current"], now)
  <2>1. PICK came \in Seq(Messages), went \in Seq(Messages) :
          came = admitted["current"] /\ went = delivered["current"]
    BY <1>3
  <2>2. ValuesEntered(came, went, q.current) /\ ValuesInOrder(came, went, q.current)
    BY <2>1 DEF QueueInv, ValuesInv, DeliveryKeepsOrder
  <2>3. ValuesEntered(Append(came, m), went, now) /\ ValuesInOrder(Append(came, m), went, now)
    BY <2>2, ValueIn, SMTT(30)
  <2> QED BY <2>1, <2>3
<1>10. ValuesInv'
  BY <1>1, <1>2, <1>3, <1>9 DEF ValuesInv
<1>11. DeliveryKeepsOrder'
  BY <1>1, <1>2, <1>3, <1>7, <1>8, <1>9 DEF QueueInv, DeliveryKeepsOrder
<1> QED BY <1>4, <1>6, <1>7, <1>10, <1>11 DEF QueueInv

-----------------------------------------------------------------------------
\* Who has waited how long after a pop.  critical, current and bulk say whether
\* the class held a message.
LEMMA TurnsPass ==
  ASSUME QueueInv, NEW t \in Classes, t = Turn, NEW h, h = [c \in Classes |-> Holds(c)],
         h["critical"] = (state.critical # <<>>), h["current"] = (state.current # {}),
         h["bulk"] = (state.bulk # <<>>),
         state' = Popped(t),
         skipped' = [c \in Classes |-> IF c = t \/ ~ Holds(c) THEN 0 ELSE skipped[c] + 1]
  PROVE  TurnsInv' /\ skipped' \in [Classes -> Nat]
         /\ state'.run \in 0 .. CriticalRun /\ state'.bulk_turn \in BOOLEAN
<1> DEFINE next(c) == IF c = t \/ ~ h[c] THEN 0 ELSE skipped[c] + 1
<1>1. /\ skipped'["critical"] = next("critical") /\ skipped'["current"] = next("current")
      /\ skipped'["bulk"] = next("bulk")
  BY DEF Classes
<1>2. skipped["critical"] \in Nat /\ skipped["current"] \in Nat /\ skipped["bulk"] \in Nat
      /\ skipped \in [Classes -> Nat]
  BY SMTT(30) DEF QueueInv, HistoriesOK, Classes
<1>3. skipped' \in [Classes -> Nat]
  BY <1>2, SMTT(30)
<1>4. state.run \in 0 .. CriticalRun /\ state.bulk_turn \in BOOLEAN /\ CriticalRun \in Nat \ {0}
      /\ state = [critical |-> state.critical, current |-> state.current, bulk |-> state.bulk,
                  run |-> state.run, bulk_turn |-> state.bulk_turn]
  BY QueueAssumption, SMTT(30) DEF QueueInv, IsQueue
<1>5. CASE t = "critical"
  <2>1. /\ state'.run = IF state.run < CriticalRun THEN state.run + 1 ELSE state.run
        /\ state'.bulk_turn = state.bulk_turn
    BY <1>4, <1>5 DEF Popped
  <2>2. state.run < CriticalRun \/ (~ h["current"] /\ ~ h["bulk"])
    BY <1>5 DEF Turn
  <2>3. TurnsInv
    BY DEF QueueInv
  <2>4. next("critical") = 0
    BY <1>5
  <2>5. /\ next("current") = IF ~ h["current"] THEN 0 ELSE skipped["current"] + 1
        /\ next("bulk") = IF ~ h["bulk"] THEN 0 ELSE skipped["bulk"] + 1
    BY <1>5, SMTT(30)
  <2> HIDE DEF next
  <2>6. CASE state.run < CriticalRun
    <3>1. /\ skipped'["critical"] = 0 /\ skipped'["current"] \in Nat /\ skipped'["bulk"] \in Nat
          /\ skipped'["current"] <= skipped["current"] + 1 /\ skipped'["bulk"] <= skipped["bulk"] + 1
      BY <1>1, <1>2, <2>4, <2>5, SMTT(30)
    <3>2. state'.run = state.run + 1 /\ state'.run \in 0 .. CriticalRun /\ state'.bulk_turn = state.bulk_turn
      BY <1>4, <2>1, <2>6, SMTT(30)
    <3>3. \A c \in {"current", "bulk"} :
            /\ skipped[c] <= state.run => skipped'[c] <= state'.run
            /\ skipped[c] <= state.run + CriticalRun + 1 => skipped'[c] <= state'.run + CriticalRun + 1
      BY <1>2, <1>4, <3>1, <3>2, SMTT(30)
    <3>4. skipped'["critical"] <= 1 /\ skipped'["critical"] # 1
      BY <3>1, SMTT(30)
    <3> QED BY <1>3, <1>4, <2>3, <3>2, <3>3, <3>4 DEF TurnsInv
  <2>7. CASE ~ (state.run < CriticalRun)
    <3>1. skipped'["critical"] = 0 /\ skipped'["current"] = 0 /\ skipped'["bulk"] = 0
      BY <1>1, <2>2, <2>4, <2>5, <2>7
    <3>2. state'.run = state.run
      BY <2>1, <2>7
    <3>3. state'.run \in 0 .. CriticalRun /\ state'.bulk_turn \in BOOLEAN
      BY <1>4, <2>1, <3>2
    <3>4. 0 <= state'.run /\ 0 <= state'.run + CriticalRun + 1 /\ 0 <= 1 /\ 0 # 1
      BY <1>4, <3>3, SMTT(30)
    <3> QED BY <1>3, <3>1, <3>3, <3>4 DEF TurnsInv
  <2> QED BY <2>6, <2>7
<1>6. CASE t = "bulk"
  <2>1. state'.run = 0 /\ state'.bulk_turn = ~ state.bulk_turn
    BY <1>4, <1>6 DEF Popped
  <2>2. (h["current"] => state.bulk_turn) /\ (h["critical"] => ~ (state.run < CriticalRun))
    BY <1>6 DEF Turn
  <2>3. TurnsInv
    BY DEF QueueInv
  <2>4. next("bulk") = 0
    BY <1>6
  <2>5. /\ next("current") = IF ~ h["current"] THEN 0 ELSE skipped["current"] + 1
        /\ next("critical") = IF ~ h["critical"] THEN 0 ELSE skipped["critical"] + 1
    BY <1>6, SMTT(30)
  <2> HIDE DEF next
  <2>6. skipped'["bulk"] = 0 /\ skipped'["current"] \in Nat /\ skipped'["critical"] \in Nat
    BY <1>1, <1>2, <2>4, <2>5, SMTT(30)
  <2>7. skipped'["critical"] <= 1
    <3>1. CASE h["critical"]
      BY <1>1, <1>2, <1>4, <2>2, <2>3, <2>5, <3>1, SMTT(30) DEF TurnsInv
    <3>2. CASE ~ h["critical"]
      BY <1>1, <2>5, <3>2, SMTT(30)
    <3> QED BY <3>1, <3>2
  <2>8. h["current"] => skipped["current"] <= state.run
    BY <2>2, <2>3 DEF TurnsInv
  <2>9. skipped'["current"] <= state'.run + CriticalRun + 1
        /\ (~ h["current"] => skipped'["current"] <= state'.run)
    BY <1>1, <1>2, <1>4, <2>1, <2>5, <2>8, SMTT(30)
  <2>10. ~ state'.bulk_turn \/ skipped'["current"] <= state'.run
    BY <2>1, <2>2, <2>9
  <2>11. 0 <= state'.run /\ 0 <= state'.run + CriticalRun + 1 /\ state'.run \in 0 .. CriticalRun
    BY <1>4, <2>1, SMTT(30)
  <2> QED BY <1>3, <1>4, <2>1, <2>6, <2>7, <2>9, <2>10, <2>11 DEF TurnsInv
<1>7. CASE t = "current"
  <2>1. state'.run = 0 /\ state'.bulk_turn = ~ state.bulk_turn
    BY <1>4, <1>7 DEF Popped
  <2>2. (h["bulk"] => ~ state.bulk_turn) /\ (h["critical"] => ~ (state.run < CriticalRun))
    BY <1>7 DEF Turn
  <2>3. TurnsInv
    BY DEF QueueInv
  <2>4. next("current") = 0
    BY <1>7
  <2>5. /\ next("bulk") = IF ~ h["bulk"] THEN 0 ELSE skipped["bulk"] + 1
        /\ next("critical") = IF ~ h["critical"] THEN 0 ELSE skipped["critical"] + 1
    BY <1>7, SMTT(30)
  <2> HIDE DEF next
  <2>6. skipped'["current"] = 0 /\ skipped'["bulk"] \in Nat /\ skipped'["critical"] \in Nat
    BY <1>1, <1>2, <2>4, <2>5, SMTT(30)
  <2>7. skipped'["critical"] <= 1
    <3>1. CASE h["critical"]
      BY <1>1, <1>2, <1>4, <2>2, <2>3, <2>5, <3>1, SMTT(30) DEF TurnsInv
    <3>2. CASE ~ h["critical"]
      BY <1>1, <2>5, <3>2, SMTT(30)
    <3> QED BY <3>1, <3>2
  <2>8. h["bulk"] => skipped["bulk"] <= state.run
    BY <2>2, <2>3 DEF TurnsInv
  <2>9. skipped'["bulk"] <= state'.run + CriticalRun + 1
        /\ (~ h["bulk"] => skipped'["bulk"] <= state'.run)
    BY <1>1, <1>2, <1>4, <2>1, <2>5, <2>8, SMTT(30)
  <2>10. state'.bulk_turn \/ skipped'["bulk"] <= state'.run
    BY <2>1, <2>2, <2>9
  <2>11. 0 <= state'.run /\ 0 <= state'.run + CriticalRun + 1 /\ state'.run \in 0 .. CriticalRun
    BY <1>4, <2>1, SMTT(30)
  <2> QED BY <1>3, <1>4, <2>1, <2>6, <2>7, <2>9, <2>10, <2>11 DEF TurnsInv
<1> QED BY <1>5, <1>6, <1>7, SMTT(30) DEF Classes

\* A class of the queue holds a message if its part of the queue is not empty.
LEMMA HoldsMeans ==
  ASSUME QueueInv
  PROVE  /\ Holds("critical") = (state.critical # <<>>) /\ Holds("current") = (state.current # {})
         /\ Holds("bulk") = (state.bulk # <<>>)
<1>1. /\ \A m \in Range(state.critical) : Class(m) = "critical"
      /\ \A m \in Range(state.bulk) : Class(m) = "bulk"
      /\ \A m \in state.current : Class(m) = "current"
  BY DEF QueueInv, DeliveryKeepsOrder, QueueTypeOK
<1>2. \A s \in Seq(Messages) : (s # <<>>) <=> \E x : x \in Range(s)
  <2>1. ASSUME NEW s \in Seq(Messages), s # <<>> PROVE \E x : x \in Range(s)
    <3>1. 1 \in DOMAIN s
      BY <2>1, SMTT(30)
    <3> QED BY <3>1 DEF Range
  <2>2. \A x : x \notin Range(<< >>)
    BY SMTT(30) DEF Range
  <2> QED BY <2>1, <2>2
<1>3. state.critical \in Seq(Messages) /\ state.bulk \in Seq(Messages)
  BY DEF QueueInv, IsQueue
<1>4. /\ (state.critical # <<>>) <=> \E x : x \in Range(state.critical)
      /\ (state.bulk # <<>>) <=> \E x : x \in Range(state.bulk)
  BY <1>2, <1>3
<1>5. "critical" # "bulk" /\ "critical" # "current" /\ "bulk" # "current"
  OBVIOUS
<1>6. Holds("critical") <=> state.critical # <<>>
  BY <1>1, <1>4, <1>5 DEF Holds, Queued
<1>7. Holds("bulk") <=> state.bulk # <<>>
  BY <1>1, <1>4, <1>5 DEF Holds, Queued
<1>8. Holds("current") <=> state.current # {}
  BY <1>1, <1>5 DEF Holds, Queued
<1> QED BY <1>6, <1>7, <1>8 DEF Holds

\* The first of the queue goes to the end of what was delivered.
LEMMA HeadToOther ==
  ASSUME NEW S, NEW a \in Seq(S), NEW b \in Seq(S), b # <<>>
  PROVE  Append(a, Head(b)) \o Tail(b) = a \o b /\ Tail(b) \in Seq(S) /\ Head(b) \in S
         /\ Append(a, Head(b)) \in Seq(S) /\ Len(Tail(b)) <= Len(b)
         /\ (\A x \in Range(Tail(b)) : x \in Range(b))
<1>1. Len(b) \in Nat \ {0} /\ Len(a) \in Nat /\ Tail(b) \in Seq(S) /\ Len(Tail(b)) = Len(b) - 1
      /\ Head(b) \in S /\ Head(b) = b[1] /\ (\A i \in 1 .. Len(b) - 1 : Tail(b)[i] = b[i + 1])
  BY SMTT(30)
<1>2. PICK h \in S, r \in Seq(S) : h = Head(b) /\ r = Tail(b)
  BY <1>1
<1>3. Append(a, h) \in Seq(S) /\ Len(Append(a, h)) = Len(a) + 1 /\ a \o b \in Seq(S)
      /\ Len(a \o b) = Len(a) + Len(b)
  BY SMTT(30)
<1>4. Append(a, h) \o r \in Seq(S) /\ Len(Append(a, h) \o r) = Len(a) + Len(b)
  BY <1>1, <1>2, <1>3, SMTT(30)
<1>5. \A i \in 1 .. Len(a) + Len(b) : (Append(a, h) \o r)[i] = (a \o b)[i]
  BY <1>1, <1>2, <1>3, SMTT(30)
<1>6. Append(a, h) \o r = a \o b
  <2>1. PICK u \in Seq(S), v \in Seq(S) : u = Append(a, h) \o r /\ v = a \o b
    BY <1>3, <1>4
  <2>2. Len(u) = Len(v) /\ \A i \in 1 .. Len(u) : u[i] = v[i]
    BY <1>3, <1>4, <1>5, <2>1
  <2>3. u = v
    BY <2>2, SMTT(30)
  <2> QED BY <2>1, <2>3
<1>7. \A x \in Range(r) : x \in Range(b)
  BY <1>1, <1>2, SMTT(30) DEF Range
<1> QED BY <1>1, <1>2, <1>3, <1>6, <1>7, SMTT(30)

\* A pop that gives a critical or a bulk message, or the value of least key.
LEMMA PopKeeps ==
  ASSUME QueueInv, Pop
  PROVE  QueueInv'
<1>1. CASE Turn = "none"
  <2>1. UNCHANGED <<setup, state, delivered, admitted, skipped>>
    BY <1>1 DEF Pop
  <2> QED BY <2>1, QueueFrame, SMTT(30)
<1>2. CASE Turn # "none"
  <2>1. Turn \in Classes
    BY <1>2, SMTT(30) DEF Turn, Classes
  <2>2. PICK t \in Classes : t = Turn
    BY <2>1
  <2>3. /\ state' = Popped(t) /\ delivered' = [delivered EXCEPT ![t] = Append(@, NextOf(t))]
        /\ skipped' = [c \in Classes |-> IF c = t \/ ~ Holds(c) THEN 0 ELSE skipped[c] + 1]
        /\ admitted' = admitted /\ setup' = setup
    BY <1>2, <2>2 DEF Pop
  <2>4. PICK h : h = [c \in Classes |-> Holds(c)]
    OBVIOUS
  <2>5. /\ h["critical"] = (state.critical # <<>>) /\ h["current"] = (state.current # {})
        /\ h["bulk"] = (state.bulk # <<>>)
    BY <2>4, HoldsMeans DEF Classes
  <2>6. TurnsInv' /\ skipped' \in [Classes -> Nat]
        /\ state'.run \in 0 .. CriticalRun /\ state'.bulk_turn \in BOOLEAN
    BY <2>2, <2>3, <2>4, <2>5, TurnsPass, SMTT(30)
  <2>7. ClassesTakeTurns'
    <3>1. CriticalRun \in Nat /\ \A c \in Classes : skipped'[c] \in Nat
      BY <2>6, QueueAssumption, SMTT(30)
    <3>2. skipped'["critical"] <= 1
      BY <2>6 DEF TurnsInv
    <3>3. \A c \in {"current", "bulk"} :
            skipped'[c] <= state'.run \/ skipped'[c] <= state'.run + CriticalRun + 1
      BY <2>6 DEF TurnsInv
    <3>4. \A c \in {"current", "bulk"} : skipped'[c] <= 2 * CriticalRun + 1
      BY <2>6, <3>1, <3>3, SMTT(30) DEF Classes
    <3> QED BY <3>2, <3>4 DEF ClassesTakeTurns
  <2>8. /\ admitted \in [Classes -> Seq(Messages)] /\ delivered \in [Classes -> Seq(Messages)]
        /\ state.critical \in Seq(Messages) /\ state.bulk \in Seq(Messages)
        /\ state.current \subseteq Messages /\ IsFiniteSet(state.current)
        /\ Messages' = Messages /\ (\A x : Class(x)' = Class(x))
        /\ state = [critical |-> state.critical, current |-> state.current, bulk |-> state.bulk,
                    run |-> state.run, bulk_turn |-> state.bulk_turn]
    BY <2>3 DEF QueueInv, IsQueue, HistoriesOK, Messages, Class
  <2>9. delivered["critical"] \in Seq(Messages) /\ delivered["current"] \in Seq(Messages)
        /\ delivered["bulk"] \in Seq(Messages) /\ admitted["current"] \in Seq(Messages)
    BY <2>8, SMTT(30) DEF Classes
  <2>10. CASE t = "critical"
    <3>1. state.critical # <<>>
      BY <2>2, <2>10 DEF Turn
    <3>2. PICK a \in Seq(Messages), b \in Seq(Messages) : a = delivered["critical"] /\ b = state.critical
      BY <2>8, <2>9
    <3>3. Append(a, Head(b)) \o Tail(b) = a \o b /\ Tail(b) \in Seq(Messages) /\ Head(b) \in Messages
          /\ Append(a, Head(b)) \in Seq(Messages) /\ Len(Tail(b)) <= Len(b)
          /\ (\A x \in Range(Tail(b)) : x \in Range(b))
      <4>1. b # <<>>
        BY <3>1, <3>2
      <4> QED BY <4>1, HeadToOther
    <3>4. NextOf(t) = Head(b)
      BY <2>10, <3>2 DEF NextOf
    <3>5. /\ state'.critical = Tail(b) /\ state'.bulk = state.bulk /\ state'.current = state.current
          /\ state' = [critical |-> state'.critical, current |-> state'.current, bulk |-> state'.bulk,
                       run |-> state'.run, bulk_turn |-> state'.bulk_turn]
      BY <2>3, <2>8, <2>10, <3>2 DEF Popped
    <3>6. /\ delivered'["critical"] = Append(a, Head(b)) /\ delivered'["bulk"] = delivered["bulk"]
          /\ delivered'["current"] = delivered["current"] /\ delivered' \in [Classes -> Seq(Messages)]
      BY <2>3, <2>8, <2>10, <3>2, <3>3, <3>4 DEF Classes
    <3>7. HistoriesOK'
      BY <2>3, <2>6, <2>8, <3>6 DEF QueueInv, HistoriesOK
    <3>8. IsQueue(state)'
      BY <2>6, <2>8, <3>3, <3>5 DEF IsQueue
    <3>9. ValuesInv'
      BY <2>3, <3>5, <3>6 DEF QueueInv, ValuesInv
    <3>10. QueueTypeOK'
      <4>1. Len(b) <= CriticalQueue
        BY <3>2 DEF QueueInv, DeliveryKeepsOrder, QueueTypeOK
      <4>2. Len(Tail(b)) <= CriticalQueue
        <5>1. Len(Tail(b)) \in Nat /\ Len(b) \in Nat /\ CriticalQueue \in Nat
          BY <3>3, QueueAssumption, SMTT(30)
        <5> QED BY <3>3, <4>1, <5>1, SMTT(30)
      <4> QED BY <2>6, <2>8, <3>2, <3>3, <3>5, <4>2 DEF QueueInv, DeliveryKeepsOrder, QueueTypeOK
    <3>11. DeliveryKeepsOrder'
      BY <2>3, <2>7, <3>2, <3>3, <3>5, <3>6, <3>10 DEF QueueInv, DeliveryKeepsOrder
    <3> QED BY <2>6, <3>7, <3>8, <3>9, <3>11 DEF QueueInv
  <2>11. CASE t = "bulk"
    <3>1. state.bulk # <<>>
      BY <2>2, <2>11 DEF Turn
    <3>2. PICK a \in Seq(Messages), b \in Seq(Messages) : a = delivered["bulk"] /\ b = state.bulk
      BY <2>8, <2>9
    <3>3. Append(a, Head(b)) \o Tail(b) = a \o b /\ Tail(b) \in Seq(Messages) /\ Head(b) \in Messages
          /\ Append(a, Head(b)) \in Seq(Messages) /\ Len(Tail(b)) <= Len(b)
          /\ (\A x \in Range(Tail(b)) : x \in Range(b))
      <4>1. b # <<>>
        BY <3>1, <3>2
      <4> QED BY <4>1, HeadToOther
    <3>4. NextOf(t) = Head(b)
      BY <2>11, <3>2 DEF NextOf
    <3>5. /\ state'.bulk = Tail(b) /\ state'.critical = state.critical /\ state'.current = state.current
          /\ state' = [critical |-> state'.critical, current |-> state'.current, bulk |-> state'.bulk,
                       run |-> state'.run, bulk_turn |-> state'.bulk_turn]
      BY <2>3, <2>8, <2>11, <3>2 DEF Popped
    <3>6. /\ delivered'["bulk"] = Append(a, Head(b)) /\ delivered'["critical"] = delivered["critical"]
          /\ delivered'["current"] = delivered["current"] /\ delivered' \in [Classes -> Seq(Messages)]
      BY <2>3, <2>8, <2>11, <3>2, <3>3, <3>4 DEF Classes
    <3>7. HistoriesOK'
      BY <2>3, <2>6, <2>8, <3>6 DEF QueueInv, HistoriesOK
    <3>8. IsQueue(state)'
      BY <2>6, <2>8, <3>3, <3>5 DEF IsQueue
    <3>9. ValuesInv'
      BY <2>3, <3>5, <3>6 DEF QueueInv, ValuesInv
    <3>10. QueueTypeOK'
      <4>1. Len(b) <= BulkQueue
        BY <3>2 DEF QueueInv, DeliveryKeepsOrder, QueueTypeOK
      <4>2. Len(Tail(b)) <= BulkQueue
        <5>1. Len(Tail(b)) \in Nat /\ Len(b) \in Nat /\ BulkQueue \in Nat
          BY <3>3, QueueAssumption, SMTT(30)
        <5> QED BY <3>3, <4>1, <5>1, SMTT(30)
      <4> QED BY <2>6, <2>8, <3>2, <3>3, <3>5, <4>2 DEF QueueInv, DeliveryKeepsOrder, QueueTypeOK
    <3>11. DeliveryKeepsOrder'
      BY <2>3, <2>7, <3>2, <3>3, <3>5, <3>6, <3>10 DEF QueueInv, DeliveryKeepsOrder
    <3> QED BY <2>6, <3>7, <3>8, <3>9, <3>11 DEF QueueInv
  <2>12. CASE t = "current"
    <3>1. state.current # {}
      BY <2>2, <2>12 DEF Turn
    <3>2. \E m \in state.current : \A c \in state.current : Key[m] <= Key[c]
      <4>1. PICK keys : keys = {Key[c] : c \in state.current}
        OBVIOUS
      <4>2. \A c \in state.current : Key[c] \in Nat
        BY <2>8, QueueAssumption, SMTT(30) DEF QueueInv, HistoriesOK, Messages
      <4>3. keys \subseteq Nat /\ keys # {}
        BY <3>1, <4>1, <4>2
      <4>4. PICK k \in keys : \A y \in keys : k <= y
        BY <4>3, MinOfNaturals
      <4>5. PICK m \in state.current : Key[m] = k
        BY <4>1
      <4> QED BY <4>1, <4>4, <4>5
    <3>3. PICK m \in state.current : m = NextOf("current")
      BY <3>2 DEF NextOf
    <3>4. /\ state'.current = state.current \ {m} /\ state'.critical = state.critical
          /\ state'.bulk = state.bulk
          /\ state' = [critical |-> state'.critical, current |-> state'.current, bulk |-> state'.bulk,
                       run |-> state'.run, bulk_turn |-> state'.bulk_turn]
      BY <2>3, <2>8, <2>12, <3>3 DEF Popped
    <3>5. Append(delivered["current"], m) \in Seq(Messages)
      BY <2>8, <2>9, SMTT(30)
    <3>6. /\ delivered'["current"] = Append(delivered["current"], m)
          /\ delivered'["bulk"] = delivered["bulk"] /\ delivered'["critical"] = delivered["critical"]
          /\ delivered' \in [Classes -> Seq(Messages)]
      BY <2>3, <2>8, <2>12, <3>3, <3>5 DEF Classes
    <3>7. IsFiniteSet(state.current \ {m}) /\ Cardinality(state.current \ {m}) <= CurrentQueue
      <4>1. Cardinality(state.current) \in Nat /\ CurrentQueue \in Nat
            /\ Cardinality(state.current) <= CurrentQueue
        BY <2>8, FS_CardinalityType, QueueAssumption, SMTT(30) DEF QueueInv, DeliveryKeepsOrder, QueueTypeOK
      <4>2. IsFiniteSet(state.current \ {m})
            /\ Cardinality(state.current \ {m}) = Cardinality(state.current) - 1
        BY <2>8, FS_RemoveElement
      <4> QED BY <4>1, <4>2, SMTT(30)
    <3>8. HistoriesOK'
      BY <2>3, <2>6, <2>8, <3>6 DEF QueueInv, HistoriesOK
    <3>9. IsQueue(state)'
      BY <2>6, <2>8, <3>4, <3>7 DEF IsQueue
    <3>10. ValuesEntered(admitted["current"], Append(delivered["current"], m), state.current \ {m})
           /\ ValuesInOrder(admitted["current"], Append(delivered["current"], m), state.current \ {m})
      <4>1. PICK came \in Seq(Messages), went \in Seq(Messages) :
              came = admitted["current"] /\ went = delivered["current"]
        BY <2>9
      <4>2. ValuesEntered(came, went, state.current) /\ ValuesInOrder(came, went, state.current)
        BY <4>1 DEF QueueInv, ValuesInv, DeliveryKeepsOrder
      <4>3. \A c, d \in state.current : Key[c] = Key[d] => c = d
        BY DEF QueueInv, DeliveryKeepsOrder, QueueTypeOK
      <4>4. m \in Messages
        BY <2>8
      <4>5. /\ ValuesEntered(came, Append(went, m), state.current \ {m})
            /\ ValuesInOrder(came, Append(went, m), state.current \ {m})
        BY <4>2, <4>3, <4>4, ValueOut, SMTT(30)
      <4> QED BY <4>1, <4>5
    <3>11. ValuesInv'
      BY <2>3, <3>4, <3>6, <3>10 DEF ValuesInv
    <3>12. QueueTypeOK'
      BY <2>6, <2>8, <3>4, <3>7 DEF QueueInv, DeliveryKeepsOrder, QueueTypeOK
    <3>13. DeliveryKeepsOrder'
      BY <2>3, <2>7, <3>4, <3>6, <3>10, <3>12 DEF QueueInv, DeliveryKeepsOrder
    <3> QED BY <2>6, <3>8, <3>9, <3>11, <3>13 DEF QueueInv
  <2> QED BY <2>10, <2>11, <2>12 DEF Classes
<1> QED BY <1>1, <1>2

-----------------------------------------------------------------------------
\* DeliveryState keeps DeliveryKeepsOrder over every push, pop and close: each
\* class within its bound and in order, the latest value of every key delivered
\* or queued, and a bounded wait for every class.
THEOREM DeliveryAlwaysKeepsOrder == QueueSpec => []DeliveryKeepsOrder
<1>1. QueueInit => QueueInv
  BY InitQueue, SMTT(30)
<1>2. QueueInv /\ [QueueNext]_queueVars => QueueInv'
  <2> SUFFICES ASSUME QueueInv, [QueueNext]_queueVars PROVE QueueInv'
    OBVIOUS
  <2>1. ASSUME NEW m \in Messages, Check(m) PROVE QueueInv'
    BY <2>1, QueueFrame DEF Check
  <2>2. ASSUME NEW m \in Messages, Insert(m) PROVE QueueInv'
    <3>0. UNCHANGED <<setup, delivered, skipped>>
      BY <2>2 DEF Insert
    <3>1. CASE UNCHANGED <<state, admitted>>
      BY <3>0, <3>1, QueueFrame
    <3>2. CASE /\ Class(m) = "critical" /\ Len(state.critical) < CriticalQueue
               /\ state' = [state EXCEPT !.critical = Append(@, m)]
               /\ admitted' = [admitted EXCEPT !["critical"] = Append(@, m)]
      BY <3>0, <3>2, CriticalIn
    <3>3. CASE /\ Class(m) = "bulk" /\ Len(state.bulk) < BulkQueue
               /\ state' = [state EXCEPT !.bulk = Append(@, m)]
               /\ admitted' = [admitted EXCEPT !["bulk"] = Append(@, m)]
      BY <3>0, <3>3, BulkIn
    <3>4. ASSUME NEW replaced, replaced = {c \in state.current : Key[c] = Key[m]},
                 Class(m) = "current",
                 Cardinality(state.current) < CurrentQueue \/ replaced # {},
                 state' = [state EXCEPT !.current = (@ \ replaced) \cup {m}],
                 admitted' = [admitted EXCEPT !["current"] = Append(@, m)]
          PROVE  QueueInv'
      BY <3>0, <3>4, CurrentIn
    <3> QED BY <2>2, <3>1, <3>2, <3>3, <3>4, InsertShape
  <2>3. ASSUME NEW m \in Messages, Notify(m) PROVE QueueInv'
    BY <2>3, QueueFrame DEF Notify
  <2>4. CASE Pop
    BY <2>4, PopKeeps
  <2>5. CASE Close \/ Recv \/ AfterEmpty \/ Wake
    BY <2>5, QueueFrame DEF Close, Recv, AfterEmpty, Wake
  <2>6. CASE UNCHANGED queueVars
    BY <2>6, QueueFrame DEF queueVars
  <2> QED BY <2>1, <2>2, <2>3, <2>4, <2>5, <2>6 DEF QueueNext
<1>3. QueueInv => DeliveryKeepsOrder
  BY DEF QueueInv
<1> QED BY <1>1, <1>2, <1>3, PTL DEF QueueSpec
=============================================================================
