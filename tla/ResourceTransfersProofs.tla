---------------------- MODULE ResourceTransfersProofs ----------------------
(***************************************************************************)
(* For all scenarios and bounds: whoever lost its permission has a signal  *)
(* ahead of it, and no collection of the store takes away what is served   *)
(* or downloaded.                                                          *)
(*                                                                         *)
(* Signals are numbered, and nobody has seen a later one than the last; so *)
(* a signal sent after the permission ended is one that its reader has not *)
(* seen.  The store is kept by who may move its one tag: a task that is    *)
(* between Tag and Untag holds `downloading', and has collected everything *)
(* else that was fetched before its first chunk comes in.                  *)
(***************************************************************************)
EXTENDS ResourceTransfers, FiniteSetTheorems, TLAPS

\* Leaves are tried with Zenon; those that need arithmetic cite SMT.
USE ZenonT(30)

StreamFields == {"at", "token", "revision", "hash", "seen", "sent"}
IsStream(x) == x = [f \in StreamFields |-> x[f]] /\ x.seen \in Nat /\ x.seen <= generation

TaskFields == {"at", "hash", "sized", "revision", "mark", "listed", "abort"}
IsTask(k) == k = [f \in TaskFields |-> k[f]] /\ k.mark \in Nat /\ k.mark <= generation

Allowed(x) == authorize(x.revision) /\ x.token \in DOMAIN grants

StreamTold(x) ==
  x.at \in {"requesting", "sending"} /\ ~ Allowed(x) => x.seen # generation \/ ~ announced
TaskTold(k) ==
  k.at = "loading" /\ ~ authorize(k.revision) => k.mark # generation \/ ~ announced

IsSeq(q) == \E S : q \in Seq(S)

StreamsInv ==
  /\ stream = [s \in Streams |-> stream[s]]
  /\ \A s \in Streams : IsStream(stream[s]) /\ StreamTold(stream[s])
TasksInv ==
  IsSeq(task) /\ \A i \in DOMAIN task : IsTask(task[i]) /\ TaskTold(task[i])
Inv == generation \in Nat /\ announced \in BOOLEAN /\ StreamsInv /\ TasksInv

\* Nothing runs yet.
LEMMA InitInv == Init => Inv
<1> SUFFICES ASSUME Init PROVE Inv
  OBVIOUS
<1>1. generation \in Nat /\ announced \in BOOLEAN
  BY DEF Init
<1>2. IsStream(NoStream) /\ NoStream.at = "none"
  BY SMTT(30) DEF Init, NoStream, IsStream, StreamFields
<1>3. StreamsInv
  BY <1>2 DEF Init, StreamsInv, StreamTold
<1>4. TasksInv
  <2>1. task \in Seq({}) /\ DOMAIN task = {}
    BY SMTT(30) DEF Init
  <2> QED BY <2>1 DEF TasksInv, IsSeq
<1> QED BY <1>1, <1>3, <1>4 DEF Inv

-----------------------------------------------------------------------------
\* What leaves the policy, the signal and the grants in use alone leaves every
\* stream as it was (Grant keeps what a stream reads).
LEMMA StreamsKeep ==
  ASSUME Inv, UNCHANGED <<revision, announced, generation, closed, stream>>,
         \A s \in Streams : Reading(s) /\ stream[s].token \in DOMAIN grants => stream[s].token \in DOMAIN grants'
  PROVE  StreamsInv'
<1>1. ASSUME NEW s \in Streams PROVE (IsStream(stream[s]) /\ StreamTold(stream[s]))'
  <2>1. IsStream(stream[s]) /\ StreamTold(stream[s])
    BY DEF Inv, StreamsInv
  <2> QED BY <2>1 DEF IsStream, StreamTold, Allowed, authorize, Reading
<1> QED BY <1>1 DEF Inv, StreamsInv

\* A new signal, or one that is due, is ahead of every stream (revoke,
\* policy_changed, InstallPolicy, stop).
LEMMA StreamsTold ==
  ASSUME Inv, stream' = stream,
         generation' = generation + 1 \/ (generation' = generation /\ announced' = FALSE)
  PROVE  StreamsInv'
<1>1. ASSUME NEW s \in Streams PROVE (IsStream(stream[s]) /\ StreamTold(stream[s]))'
  <2>1. IsStream(stream[s])
    BY DEF Inv, StreamsInv
  <2> QED BY <2>1, SMTT(30) DEF IsStream, StreamTold, Inv
<1> QED BY <1>1 DEF Inv, StreamsInv

\* The same two facts for the tasks.
LEMMA TasksKeep ==
  ASSUME Inv, UNCHANGED <<revision, announced, generation, closed, task>>
  PROVE  TasksInv'
<1>1. ASSUME NEW i \in DOMAIN task PROVE (IsTask(task[i]) /\ TaskTold(task[i]))'
  BY DEF Inv, TasksInv, IsTask, TaskTold, authorize
<1> QED BY <1>1 DEF Inv, TasksInv, IsSeq

\* A task that took a step stands well if its new state does.
LEMMA TaskMoves ==
  ASSUME Inv, UNCHANGED <<revision, announced, generation, closed>>,
         NEW i \in DOMAIN task, NEW k, IsTask(k), TaskTold(k), task' = [task EXCEPT ![i] = k]
  PROVE  TasksInv'
<1>1. PICK S : task \in Seq(S)
  BY DEF Inv, TasksInv, IsSeq
<1>2. task' \in Seq(S \cup {k}) /\ DOMAIN task' = DOMAIN task
  BY <1>1, SMTT(30)
<1>3. ASSUME NEW j \in DOMAIN task PROVE (IsTask(task[j]) /\ TaskTold(task[j]))'
  <2>1. task'[j] = IF j = i THEN k ELSE task[j]
    BY <1>1
  <2>2. IsTask(task[j]) /\ TaskTold(task[j])
    BY DEF Inv, TasksInv
  <2> QED BY <2>1, <2>2 DEF IsTask, TaskTold, authorize
<1> QED BY <1>2, <1>3 DEF TasksInv, IsSeq

\* Going on keeps the tasks if the state gone to does (Goes).
LEMMA GoesKeeps ==
  ASSUME Inv, UNCHANGED <<revision, announced, generation, closed>>,
         NEW i \in DOMAIN task, NEW next, IsTask(next), TaskTold(next), Goes(i, next)
  PROVE  TasksInv'
<1> DEFINE abort == IF next.abort = "asked" THEN "now" ELSE next.abort
           k == [next EXCEPT !.abort = abort]
<1>1. task' = [task EXCEPT ![i] = k]
  BY DEF Goes
<1> HIDE DEF abort
<1>2. IsTask(k) /\ k.at = next.at /\ k.mark = next.mark /\ k.revision = next.revision
  BY DEF IsTask, TaskFields
<1> HIDE DEF k
<1>3. TaskTold(k)
  BY <1>2 DEF TaskTold
<1> QED BY <1>1, <1>2, <1>3, TaskMoves

\* So does an end (Ends).
LEMMA EndsKeeps ==
  ASSUME Inv, UNCHANGED <<revision, announced, generation, closed>>,
         NEW i \in DOMAIN task, NEW result \in {"ok", "failed", "aborted"}, Ends(i, result)
  PROVE  TasksInv'
<1> DEFINE k == [task[i] EXCEPT !.at = result, !.mark = 0, !.revision = 0, !.abort = "no"]
<1>1. task' = [task EXCEPT ![i] = k]
  BY DEF Ends
<1>2. IsTask(task[i]) /\ generation \in Nat
  BY DEF Inv, TasksInv
<1>3. k = [f \in TaskFields |-> k[f]] /\ k.at = result /\ k.mark = 0
  BY <1>2 DEF IsTask, TaskFields
<1> HIDE DEF k
<1>4. IsTask(k) /\ TaskTold(k)
  BY <1>2, <1>3, SMTT(30) DEF IsTask, TaskTold
<1> QED BY <1>1, <1>4, TaskMoves

\* Giving tasks up changes neither their place nor what they have seen (GiveUp).
LEMMA GivingUp ==
  ASSUME Inv, NEW is
  PROVE  /\ IsSeq(GiveUp(is)) /\ DOMAIN GiveUp(is) = DOMAIN task /\ Len(GiveUp(is)) = Len(task)
         /\ \A i \in DOMAIN task :
              /\ IsTask(GiveUp(is)[i]) /\ GiveUp(is)[i].at = task[i].at
              /\ GiveUp(is)[i].mark = task[i].mark /\ GiveUp(is)[i].revision = task[i].revision
              /\ GiveUp(is)[i].hash = task[i].hash
              /\ GiveUp(is)[i].listed => i \notin is /\ task[i].listed
<1> DEFINE abort(i) == IF Ended(i) \/ task[i].abort = "now" THEN task[i].abort ELSE "asked"
           given(i) == [task[i] EXCEPT !.listed = FALSE, !.abort = abort(i)]
           after(i) == IF i \in is THEN given(i) ELSE task[i]
<1>1. GiveUp(is) = [i \in DOMAIN task |-> after(i)]
  BY DEF GiveUp
<1>2. ASSUME NEW i \in DOMAIN task
      PROVE  /\ IsTask(after(i)) /\ after(i).at = task[i].at
             /\ after(i).mark = task[i].mark /\ after(i).revision = task[i].revision
             /\ after(i).hash = task[i].hash /\ (after(i).listed => i \notin is /\ task[i].listed)
  <2>1. IsTask(task[i])
    BY DEF Inv, TasksInv
  <2> HIDE DEF abort
  <2>2. /\ IsTask(given(i)) /\ given(i).at = task[i].at
        /\ given(i).mark = task[i].mark /\ given(i).revision = task[i].revision
        /\ given(i).hash = task[i].hash /\ ~ given(i).listed
    BY <2>1 DEF IsTask, TaskFields
  <2> HIDE DEF given
  <2> QED BY <2>1, <2>2
<1> HIDE DEF after
<1>3. /\ IsSeq(GiveUp(is)) /\ DOMAIN GiveUp(is) = DOMAIN task /\ Len(GiveUp(is)) = Len(task)
  <2>1. PICK S : task \in Seq(S)
    BY DEF Inv, TasksInv, IsSeq
  <2> DEFINE T == {after(i) : i \in DOMAIN task}
  <2>2. DOMAIN task = 1 .. Len(task) /\ Len(task) \in Nat
    BY <2>1, SMTT(30)
  <2>3. GiveUp(is) \in [1 .. Len(task) -> T]
    BY <1>1, <2>2
  <2> HIDE DEF T
  <2>4. GiveUp(is) \in Seq(T) /\ Len(GiveUp(is)) = Len(task)
    BY <2>2, <2>3, SMTT(30)
  <2> QED BY <2>2, <2>3, <2>4 DEF IsSeq
<1> QED BY <1>1, <1>2, <1>3

\* A new signal, or one that is due, is ahead of every task, given up or not.
LEMMA TasksTold ==
  ASSUME Inv, task' = task \/ \E is : task' = GiveUp(is),
         generation' = generation + 1 \/ (generation' = generation /\ announced' = FALSE)
  PROVE  TasksInv'
<1>1. /\ IsSeq(task') /\ DOMAIN task' = DOMAIN task
      /\ \A i \in DOMAIN task : IsTask(task'[i]) /\ task'[i].mark = task[i].mark
  BY GivingUp, SMTT(30) DEF Inv, TasksInv
<1>2. ASSUME NEW i \in DOMAIN task PROVE (IsTask(task[i]) /\ TaskTold(task[i]))'
  BY <1>1, SMTT(30) DEF IsTask, TaskTold, Inv
<1> QED BY <1>1, <1>2 DEF TasksInv

\* A task that goes to a place other than loading has nothing to be told, and
\* one that starts loading, or took the signal, was just checked (Open,
\* LoadChanged).
LEMMA GoesTo ==
  ASSUME Inv, UNCHANGED <<revision, announced, generation, closed>>,
         NEW i \in DOMAIN task, NEW k, k = [f \in TaskFields |-> k[f]],
         k.mark \in {0, task[i].mark, generation}, k.revision = task[i].revision,
         k.at # "loading" \/ authorize(task[i].revision),
         Goes(i, k) \/ Ends(i, "failed")
  PROVE  TasksInv'
<1>1. IsTask(task[i]) /\ generation \in Nat
  BY DEF Inv, TasksInv
<1>2. IsTask(k) /\ TaskTold(k)
  BY <1>1, SMTT(30) DEF IsTask, TaskTold
<1> QED BY <1>2, GoesKeeps, EndsKeeps

\* A step of a preparation.
LEMMA PrepareKeeps ==
  ASSUME Inv, NEW i \in DOMAIN task, PrepareStep(i)
  PROVE  StreamsInv' /\ TasksInv' /\ UNCHANGED <<revision, announced, generation, closed>>
<1>1. UNCHANGED <<revision, announced, generation, closed, stream>>
  BY DEF PrepareStep, Begin, Import, Grant, Prepared, policy, serving
<1>2. task[i] = [f \in TaskFields |-> task[i][f]]
  BY DEF Inv, TasksInv, IsTask
<1>3. TasksInv'
  <2>1. CASE Begin(i)
    <3> DEFINE k == [task[i] EXCEPT !.at = "entered", !.mark = generation]
    <3>1. k = [f \in TaskFields |-> k[f]] /\ k.at = "entered" /\ k.mark = generation /\ k.revision = task[i].revision
      BY <1>2 DEF TaskFields
    <3>2. Goes(i, k) \/ Ends(i, "failed")
      BY <2>1 DEF Begin
    <3> HIDE DEF k
    <3> QED BY <3>1, <3>2, <1>1, GoesTo
  <2>2. CASE Import(i)
    <3> DEFINE k == [task[i] EXCEPT !.at = "imported"]
    <3>1. k = [f \in TaskFields |-> k[f]] /\ k.at = "imported" /\ k.mark = task[i].mark /\ k.revision = task[i].revision
      BY <1>2 DEF TaskFields
    <3>2. Goes(i, k) \/ Ends(i, "failed")
      BY <2>2 DEF Import
    <3> HIDE DEF k
    <3> QED BY <3>1, <3>2, <1>1, GoesTo
  <2>3. CASE Grant(i)
    <3> DEFINE k == [task[i] EXCEPT !.at = "inserted"]
    <3>1. k = [f \in TaskFields |-> k[f]] /\ k.at = "inserted" /\ k.mark = task[i].mark /\ k.revision = task[i].revision
      BY <1>2 DEF TaskFields
    <3>2. Goes(i, k) \/ Ends(i, "failed")
      BY <2>3 DEF Grant
    <3> HIDE DEF k
    <3> QED BY <3>1, <3>2, <1>1, GoesTo
  <2>4. CASE Prepared(i)
    BY <2>4, <1>1, EndsKeeps DEF Prepared
  <2> QED BY <2>1, <2>2, <2>3, <2>4 DEF PrepareStep
<1>4. \A s \in Streams : Reading(s) /\ stream[s].token \in DOMAIN grants => stream[s].token \in DOMAIN grants'
  <2>1. CASE grants' = grants
    BY <2>1
  <2>2. CASE Grant(i) /\ grants' # grants
    <3>1. Kept \subseteq DOMAIN grants'
      BY <2>2 DEF Grant
    <3> QED BY <3>1 DEF Kept, InUse
  <2>3. Grant(i) \/ grants' = grants
    BY DEF PrepareStep, Begin, Import, Prepared, serving
  <2> QED BY <2>1, <2>2, <2>3
<1> QED BY <1>1, <1>3, <1>4, StreamsKeep

\* A step of a download, or of clear_partial.
LEMMA FetchKeeps ==
  ASSUME Inv, NEW i \in DOMAIN task, FetchStep(i) \/ Load(i)
  PROVE  StreamsInv' /\ TasksInv' /\ UNCHANGED <<revision, announced, generation, closed>>
<1>1. UNCHANGED <<revision, announced, generation, closed, stream, grants>>
  BY DEF FetchStep, Lock, Tag, CollectOthers, Connect, Open, LoadChanged, LoadFails, Export, Untag, Finish, Load,
         policy, serving
<1>2. task[i] = [f \in TaskFields |-> task[i][f]]
  BY DEF Inv, TasksInv, IsTask
<1>3. TasksInv'
  <2>1. CASE Lock(i)
    <3> DEFINE k == [task[i] EXCEPT !.at = "locked"]
    <3>1. k = [f \in TaskFields |-> k[f]] /\ k.at = "locked" /\ k.mark = task[i].mark /\ k.revision = task[i].revision
      BY <1>2 DEF TaskFields
    <3>2. Goes(i, k) \/ Ends(i, "failed")
      BY <2>1 DEF Lock
    <3> HIDE DEF k
    <3> QED BY <3>1, <3>2, <1>1, GoesTo
  <2>2. CASE Tag(i)
    <3> DEFINE k == [task[i] EXCEPT !.at = "tagged"]
    <3>1. k = [f \in TaskFields |-> k[f]] /\ k.at = "tagged" /\ k.mark = task[i].mark /\ k.revision = task[i].revision
      BY <1>2 DEF TaskFields
    <3>2. Goes(i, k) \/ Ends(i, "failed")
      BY <2>2 DEF Tag
    <3> HIDE DEF k
    <3> QED BY <3>1, <3>2, <1>1, GoesTo
  <2>3. CASE CollectOthers(i)
    <3> DEFINE k == [task[i] EXCEPT !.at = "collected"]
    <3>1. k = [f \in TaskFields |-> k[f]] /\ k.at = "collected" /\ k.mark = task[i].mark /\ k.revision = task[i].revision
      BY <1>2 DEF TaskFields
    <3>2. Goes(i, k) \/ Ends(i, "failed")
      BY <2>3 DEF CollectOthers
    <3> HIDE DEF k
    <3> QED BY <3>1, <3>2, <1>1, GoesTo
  <2>4. CASE Connect(i)
    <3> DEFINE at == IF store[task[i].hash] = Size THEN "whole" ELSE "connecting"
               k == [task[i] EXCEPT !.at = at, !.mark = generation]
    <3>1. Goes(i, k) /\ at # "loading"
      BY <2>4 DEF Connect
    <3> HIDE DEF at
    <3>2. k = [f \in TaskFields |-> k[f]] /\ k.at = at /\ k.mark = generation /\ k.revision = task[i].revision
      BY <1>2 DEF TaskFields
    <3> HIDE DEF k
    <3> QED BY <3>1, <3>2, <1>1, GoesTo
  <2>5. CASE Open(i)
    <3> DEFINE k == [task[i] EXCEPT !.at = "loading"]
    <3>1. k = [f \in TaskFields |-> k[f]] /\ k.at = "loading" /\ k.mark = task[i].mark /\ k.revision = task[i].revision
      BY <1>2 DEF TaskFields
    <3>2. (authorize(task[i].revision) /\ Goes(i, k)) \/ Ends(i, "failed")
      BY <2>5 DEF Open
    <3> HIDE DEF k
    <3> QED BY <3>1, <3>2, <1>1, GoesTo, EndsKeeps
  <2>6. CASE LoadChanged(i)
    <3> DEFINE k == [task[i] EXCEPT !.mark = generation]
    <3>1. k = [f \in TaskFields |-> k[f]] /\ k.mark = generation /\ k.revision = task[i].revision
      BY <1>2 DEF TaskFields
    <3>2. (authorize(task[i].revision) /\ Goes(i, k)) \/ Ends(i, "failed")
      BY <2>6 DEF LoadChanged
    <3> HIDE DEF k
    <3> QED BY <3>1, <3>2, <1>1, GoesTo, EndsKeeps
  <2>7. CASE LoadFails(i)
    BY <2>7, <1>1, EndsKeeps DEF LoadFails
  <2>8. CASE Export(i)
    <3> DEFINE k == [task[i] EXCEPT !.at = "exported"]
    <3>1. k = [f \in TaskFields |-> k[f]] /\ k.at = "exported" /\ k.mark = task[i].mark /\ k.revision = task[i].revision
      BY <1>2 DEF TaskFields
    <3>2. Goes(i, k) \/ Ends(i, "failed")
      BY <2>8 DEF Export
    <3> HIDE DEF k
    <3> QED BY <3>1, <3>2, <1>1, GoesTo
  <2>9. CASE Untag(i)
    <3> DEFINE k == [task[i] EXCEPT !.at = "untagged"]
    <3>1. k = [f \in TaskFields |-> k[f]] /\ k.at = "untagged" /\ k.mark = task[i].mark /\ k.revision = task[i].revision
      BY <1>2 DEF TaskFields
    <3>2. Goes(i, k) \/ Ends(i, "failed")
      BY <2>9 DEF Untag
    <3> HIDE DEF k
    <3> QED BY <3>1, <3>2, <1>1, GoesTo
  <2>10. CASE Finish(i)
    BY <2>10, <1>1, EndsKeeps DEF Finish
  <2>11. CASE Load(i)
    <3> DEFINE at == IF store[task[i].hash] + 1 = Size THEN "whole" ELSE task[i].at
               k == [task[i] EXCEPT !.at = at]
    <3>1. Goes(i, k) /\ task[i].at = "loading" /\ at \in {"whole", "loading"}
      BY <2>11 DEF Load, Runs
    <3> HIDE DEF at
    <3>2. k = [f \in TaskFields |-> k[f]] /\ k.at = at /\ k.mark = task[i].mark /\ k.revision = task[i].revision
      BY <1>2 DEF TaskFields
    <3> HIDE DEF k
    <3>3. IsTask(task[i]) /\ TaskTold(task[i])
      BY DEF Inv, TasksInv
    <3>4. IsTask(k) /\ TaskTold(k)
      BY <3>1, <3>2, <3>3 DEF IsTask, TaskTold
    <3> QED BY <3>1, <3>4, <1>1, GoesKeeps
  <2> QED BY <2>1, <2>2, <2>3, <2>4, <2>5, <2>6, <2>7, <2>8, <2>9, <2>10, <2>11 DEF FetchStep
<1> QED BY <1>1, <1>3, StreamsKeep

\* What the session does to the list of operations: a new one has nothing to
\* be told, and taking one off the list or giving it up changes no place.
LEMMA ListKeeps ==
  ASSUME Inv, Request \/ \E i \in DOMAIN task : Poll(i) \/ Cancel(i) \/ Drop(i)
  PROVE  StreamsInv' /\ TasksInv' /\ UNCHANGED <<revision, announced, generation, closed>>
<1>1. UNCHANGED <<revision, announced, generation, closed, stream, grants>>
  BY DEF Request, Poll, Cancel, Drop, policy, serving
<1>2. ASSUME NEW is PROVE \A i \in DOMAIN task : TaskTold(GiveUp(is)[i])
  <2>1. ASSUME NEW i \in DOMAIN task PROVE TaskTold(GiveUp(is)[i])
    <3>1. TaskTold(task[i])
      BY DEF Inv, TasksInv
    <3> QED BY <3>1, GivingUp, SMTT(30) DEF TaskTold
  <2> QED BY <2>1
<1>3. CASE Request
  <2> DEFINE op == setup.ops[Len(task) + 1]
             base == IF op.kind = "clear" THEN GiveUp(Listed) ELSE task
             new == [at |-> op.kind, hash |-> op.hash, sized |-> op.sized, revision |-> revision,
                     mark |-> 0, listed |-> TRUE, abort |-> "no"]
  <2>1. task' = Append(base, new)
    BY <1>3 DEF Request
  <2>2. IsTask(new) /\ new.revision = revision
    BY SMTT(30) DEF IsTask, TaskFields, Inv
  <2>3. TaskTold(new)
    BY <1>3, <2>2 DEF TaskTold, authorize, Request
  <2>4. IsSeq(base) /\ \A i \in DOMAIN base : IsTask(base[i]) /\ TaskTold(base[i])
    BY GivingUp, <1>2 DEF Inv, TasksInv
  <2> HIDE DEF base, new
  <2>5. PICK S : base \in Seq(S)
    BY <2>4 DEF IsSeq
  <2>6. task' \in Seq(S \cup {new})
    BY <2>1, <2>5, SMTT(30)
  <2>7. ASSUME NEW i \in DOMAIN task' PROVE IsTask(task'[i]) /\ TaskTold(task'[i])
    <3>1. (i \in DOMAIN base /\ task'[i] = base[i]) \/ task'[i] = new
      BY <2>1, <2>5, SMTT(30)
    <3> QED BY <3>1, <2>2, <2>3, <2>4
  <2>8. ASSUME NEW i \in DOMAIN task' PROVE (IsTask(task[i]) /\ TaskTold(task[i]))'
    BY <2>7, <1>1 DEF IsTask, TaskTold, authorize
  <2>9. TasksInv'
    BY <2>6, <2>8 DEF TasksInv, IsSeq
  <2> QED BY <2>9, <1>1, StreamsKeep
<1>4. ASSUME NEW i \in DOMAIN task, Poll(i) PROVE TasksInv'
  <2> DEFINE k == [task[i] EXCEPT !.listed = FALSE]
  <2>1. task' = [task EXCEPT ![i] = k]
    BY <1>4 DEF Poll
  <2>2. IsTask(task[i]) /\ TaskTold(task[i])
    BY DEF Inv, TasksInv
  <2>3. k = [f \in TaskFields |-> k[f]] /\ k.at = task[i].at /\ k.mark = task[i].mark /\ k.revision = task[i].revision
    BY <2>2 DEF IsTask, TaskFields
  <2> HIDE DEF k
  <2>4. IsTask(k) /\ TaskTold(k)
    BY <2>2, <2>3 DEF IsTask, TaskTold
  <2> QED BY <2>1, <2>4, <1>1, TaskMoves
<1>5. ASSUME NEW i \in DOMAIN task, Cancel(i) PROVE TasksInv'
  <2>1. task' = GiveUp({i})
    BY <1>5 DEF Cancel
  <2>2. IsSeq(task') /\ DOMAIN task' = DOMAIN task /\ \A j \in DOMAIN task : IsTask(task'[j]) /\ TaskTold(task'[j])
    BY <2>1, <1>2, GivingUp
  <2>3. ASSUME NEW j \in DOMAIN task PROVE (IsTask(task[j]) /\ TaskTold(task[j]))'
    BY <2>2, <1>1 DEF IsTask, TaskTold, authorize
  <2> QED BY <2>2, <2>3 DEF TasksInv
<1>6. ASSUME NEW i \in DOMAIN task, Drop(i) PROVE TasksInv'
  BY <1>1, <1>6, EndsKeeps DEF Drop
<1> QED BY <1>1, <1>3, <1>4, <1>5, <1>6, StreamsKeep

\* Withdrawing, moving on and stopping put a signal ahead of everyone.
LEMMA SignalKeeps ==
  ASSUME Inv, Revoke \/ InstallPolicy \/ policy_changed \/ stop
  PROVE  Inv'
<1>1. /\ generation' = generation + 1 \/ (generation' = generation /\ announced' = FALSE)
      /\ stream' = stream
  <2>1. ASSUME NEW hashes, revoke(hashes) PROVE generation' = generation + 1
    BY <2>1 DEF revoke
  <2>2. CASE Revoke
    BY <2>1, <2>2 DEF Revoke
  <2>3. CASE stop
    BY <2>1, <2>3 DEF stop
  <2>4. CASE InstallPolicy
    BY <2>4 DEF InstallPolicy
  <2>5. CASE policy_changed
    BY <2>5 DEF policy_changed
  <2> QED BY <2>2, <2>3, <2>4, <2>5
<1>2. generation' \in Nat
  BY <1>1, SMTT(30) DEF Inv
<1>3. announced' = announced \/ announced' = TRUE \/ announced' = FALSE
  BY DEF Revoke, InstallPolicy, policy_changed, stop
<1>4. announced' \in BOOLEAN
  BY <1>3 DEF Inv
<1>5. task' = task \/ \E is : task' = GiveUp(is)
  BY DEF Revoke, InstallPolicy, policy_changed, stop
<1> QED BY <1>1, <1>2, <1>4, <1>5, StreamsTold, TasksTold DEF Inv

-----------------------------------------------------------------------------
\* A stream that took a step stands well if its new state does.
LEMMA PutKeeps ==
  ASSUME Inv, UNCHANGED rest, NEW s \in Streams, NEW x, IsStream(x), StreamTold(x), Put(s, x)
  PROVE  Inv'
<1>1. UNCHANGED <<revision, announced, generation, closed, grants, task>>
  BY DEF rest
<1>2. stream' = [stream EXCEPT ![s] = x] /\ stream = [r \in Streams |-> stream[r]]
  BY DEF Put, Inv, StreamsInv
<1>3. ASSUME NEW r \in Streams PROVE (IsStream(stream[r]) /\ StreamTold(stream[r]))'
  <2>1. stream'[r] = IF r = s THEN x ELSE stream[r]
    BY <1>2
  <2>2. IsStream(stream[r]) /\ StreamTold(stream[r])
    BY DEF Inv, StreamsInv
  <2> QED BY <1>1, <2>1, <2>2 DEF IsStream, StreamTold, Allowed, authorize
<1>4. stream' = [r \in Streams |-> stream'[r]]
  BY <1>2
<1> QED BY <1>1, <1>3, <1>4, TasksKeep DEF Inv, StreamsInv

\* An ended stream has nothing to be told.
LEMMA EndStreamKeeps ==
  ASSUME Inv, UNCHANGED rest, NEW s \in Streams, EndStream(s)
  PROVE  Inv'
<1> DEFINE x == [NoStream EXCEPT !.at = "ended"]
<1>1. x = [f \in StreamFields |-> x[f]] /\ x.at = "ended" /\ x.seen = 0
  BY DEF NoStream, StreamFields
<1>2. Put(s, x)
  BY DEF EndStream
<1> HIDE DEF x
<1>3. IsStream(x) /\ StreamTold(x)
  BY <1>1, SMTT(30) DEF IsStream, StreamTold, Inv
<1> QED BY <1>2, <1>3, PutKeeps

\* A step of a served stream: one that was not yet admitted has nothing to be
\* told, and Admit and Changed check after the signal was taken.
LEMMA StreamKeeps ==
  ASSUME Inv, NEW s \in Streams,
         \/ \E t \in 1 .. Len(task) : Present(s, t)
         \/ Accept(s) \/ Admit(s) \/ Requested(s) \/ Send(s) \/ Changed(s) \/ TimedOut(s)
  PROVE  Inv'
<1>1. IsStream(stream[s]) /\ StreamTold(stream[s]) /\ generation \in Nat
  BY DEF Inv, StreamsInv
<1>2. UNCHANGED rest
  BY DEF Present, Accept, Admit, Requested, Send, Changed, TimedOut
<1>3. ASSUME NEW t, Present(s, t) PROVE Inv'
  <2> DEFINE x == [stream[s] EXCEPT !.at = "granted", !.token = t, !.hash = grants[t].hash,
                                    !.revision = grants[t].revision]
  <2>1. x = [f \in StreamFields |-> x[f]] /\ x.at = "granted" /\ x.seen = stream[s].seen
    BY <1>1 DEF IsStream, StreamFields
  <2>2. Put(s, x) \/ EndStream(s)
    BY <1>3 DEF Present
  <2> HIDE DEF x
  <2>3. IsStream(x) /\ StreamTold(x)
    BY <1>1, <2>1 DEF IsStream, StreamTold
  <2> QED BY <1>2, <2>2, <2>3, PutKeeps, EndStreamKeeps
<1>4. CASE Accept(s)
  <2> DEFINE x == [NoStream EXCEPT !.at = "opened", !.seen = generation]
  <2>1. x = [f \in StreamFields |-> x[f]] /\ x.at = "opened" /\ x.seen = generation
    BY DEF NoStream, StreamFields
  <2>2. Put(s, x) \/ EndStream(s)
    BY <1>4 DEF Accept
  <2> HIDE DEF x
  <2>3. IsStream(x) /\ StreamTold(x)
    BY <1>1, <2>1, SMTT(30) DEF IsStream, StreamTold
  <2> QED BY <1>2, <2>2, <2>3, PutKeeps, EndStreamKeeps
<1>5. CASE Admit(s)
  <2> DEFINE x == [stream[s] EXCEPT !.at = "requesting"]
  <2>1. /\ x = [f \in StreamFields |-> x[f]] /\ x.seen = stream[s].seen
        /\ x.token = stream[s].token /\ x.revision = stream[s].revision
    BY <1>1 DEF IsStream, StreamFields
  <2>2. (admitted(s) /\ Put(s, x)) \/ EndStream(s)
    BY <1>5 DEF Admit
  <2> HIDE DEF x
  <2>3. IsStream(x) /\ (admitted(s) => StreamTold(x))
    BY <1>1, <2>1 DEF IsStream, StreamTold, admitted, Allowed
  <2> QED BY <1>2, <2>2, <2>3, PutKeeps, EndStreamKeeps
<1>6. CASE Requested(s)
  <2> DEFINE x == [stream[s] EXCEPT !.at = "sending"]
  <2>1. /\ x = [f \in StreamFields |-> x[f]] /\ x.seen = stream[s].seen
        /\ x.token = stream[s].token /\ x.revision = stream[s].revision
    BY <1>1 DEF IsStream, StreamFields
  <2>2. Put(s, x) /\ stream[s].at = "requesting"
    BY <1>6 DEF Requested
  <2> HIDE DEF x
  <2>3. IsStream(x) /\ StreamTold(x)
    BY <1>1, <2>1, <2>2 DEF IsStream, StreamTold, Allowed
  <2> QED BY <1>2, <2>2, <2>3, PutKeeps
<1>7. CASE Send(s)
  <2> DEFINE x == [stream[s] EXCEPT !.sent = stream[s].sent + 1]
  <2>1. /\ x = [f \in StreamFields |-> x[f]] /\ x.seen = stream[s].seen /\ x.at = stream[s].at
        /\ x.token = stream[s].token /\ x.revision = stream[s].revision
    BY <1>1 DEF IsStream, StreamFields
  <2>2. Put(s, x) \/ EndStream(s)
    BY <1>7 DEF Send
  <2> HIDE DEF x
  <2>3. IsStream(x) /\ StreamTold(x)
    BY <1>1, <2>1 DEF IsStream, StreamTold, Allowed
  <2> QED BY <1>2, <2>2, <2>3, PutKeeps, EndStreamKeeps
<1>8. CASE Changed(s)
  <2> DEFINE x == [stream[s] EXCEPT !.seen = generation]
  <2>1. /\ x = [f \in StreamFields |-> x[f]] /\ x.seen = generation
        /\ x.token = stream[s].token /\ x.revision = stream[s].revision
    BY <1>1 DEF IsStream, StreamFields
  <2>2. (admitted(s) /\ Put(s, x)) \/ EndStream(s)
    BY <1>8 DEF Changed
  <2> HIDE DEF x
  <2>3. IsStream(x) /\ (admitted(s) => StreamTold(x))
    BY <1>1, <2>1, SMTT(30) DEF IsStream, StreamTold, admitted, Allowed
  <2> QED BY <1>2, <2>2, <2>3, PutKeeps, EndStreamKeeps
<1>9. CASE TimedOut(s)
  BY <1>2, <1>9, EndStreamKeeps DEF TimedOut
<1> QED BY <1>3, <1>4, <1>5, <1>6, <1>7, <1>8, <1>9

-----------------------------------------------------------------------------
\* Every step keeps the invariant.
LEMMA NextInv == Inv /\ [Next]_vars => Inv'
<1> SUFFICES ASSUME Inv, [Next]_vars PROVE Inv'
  OBVIOUS
<1>1. ASSUME StreamsInv', TasksInv', UNCHANGED <<revision, announced, generation, closed>> PROVE Inv'
  BY <1>1 DEF Inv
<1>2. CASE Request
  BY <1>1, <1>2, ListKeeps
<1>3. CASE Revoke \/ InstallPolicy \/ policy_changed \/ stop
  BY <1>3, SignalKeeps
<1>4. ASSUME NEW t \in DOMAIN grants, Expire(t) PROVE Inv'
  <2>1. UNCHANGED <<revision, announced, generation, closed, stream, task>> /\ DOMAIN grants' = DOMAIN grants
    BY <1>4 DEF Expire, policy
  <2> QED BY <1>1, <2>1, StreamsKeep, TasksKeep
<1>5. ASSUME NEW i \in DOMAIN task,
             PrepareStep(i) \/ FetchStep(i) \/ Load(i) \/ Poll(i) \/ Cancel(i) \/ Drop(i)
      PROVE  Inv'
  BY <1>1, <1>5, PrepareKeeps, FetchKeeps, ListKeeps
<1>6. ASSUME NEW s \in Streams,
             \/ \E t \in 1 .. Len(task) : task[t].at = "ok" /\ Present(s, t)
             \/ Accept(s) \/ Admit(s) \/ Requested(s) \/ Send(s) \/ Changed(s) \/ TimedOut(s)
      PROVE  Inv'
  BY <1>6, StreamKeeps
<1>7. CASE UNCHANGED vars
  <2>1. UNCHANGED <<revision, announced, generation, closed, stream, grants, task>>
    BY <1>7 DEF vars
  <2> QED BY <1>1, <2>1, StreamsKeep, TasksKeep
<1> QED BY <1>2, <1>3, <1>4, <1>5, <1>6, <1>7 DEF Next

\* A stream or a download that lost its permission always has a signal ahead
\* of it, for any number of streams, files, grants, policies and withdrawals
\* (revoke, policy_changed, stop, against serve and fetch).
THEOREM WithdrawalsNoticed == Spec => []WithdrawalsAreNoticed
<1>1. Inv => WithdrawalsAreNoticed
  BY DEF Inv, StreamsInv, TasksInv, StreamTold, TaskTold, Allowed, admitted, WithdrawalsAreNoticed
<1> QED BY InitInv, NextInv, <1>1, PTL DEF Spec
-----------------------------------------------------------------------------
(* The store. *)

FetchPlaces == {"fetch", "locked", "tagged", "collected", "connecting", "loading", "whole", "exported", "untagged"}
Places(kind) ==
  {"ok", "failed", "aborted"} \cup
  (IF kind = "prepare" THEN {"prepare", "entered", "imported", "inserted"}
   ELSE IF kind = "fetch" THEN FetchPlaces ELSE {"clear", "untagged"})

\* Where a task holds `downloading', where the tag is that of its file, and
\* where everything else that was fetched has been collected.
Holding == FetchPlaces \ {"fetch"}
Tagged == Holding \ {"locked", "untagged"}
Sole == {"collected", "connecting", "loading", "whole"}

Own == HashesOf(setup.ops, "prepare")
Fetched == HashesOf(setup.ops, "fetch")
SolePartial == \A h \in Fetched : store[h] # 0 => h = partial

Placed(i) ==
  /\ i \in DOMAIN setup.ops /\ task[i].hash = setup.ops[i].hash
  /\ task[i].at \in Places(setup.ops[i].kind)
  /\ task[i].at \in Holding <=> holder = i
  /\ task[i].at \in Tagged => partial = task[i].hash
  /\ task[i].at \in Sole => SolePartial

\* What holds a temporary tag is the node's own and whole; of the files that
\* were fetched at most one has left bytes behind.
StoreInv ==
  /\ setup \in Cases /\ DOMAIN store = {setup.ops[i].hash : i \in DOMAIN setup.ops}
  /\ \A h \in DOMAIN store : store[h] \in 0 .. Size
  /\ partial \in DOMAIN store \cup {0} /\ holder \in DOMAIN task \cup {0}
  /\ \A h \in TempTags : h \in Own /\ store[h] = Size
  /\ \E h : \A f \in Fetched : store[f] # 0 => f = h
PlacesInv == Len(task) <= Len(setup.ops) /\ \A i \in DOMAIN task : Placed(i)
BytesInv == StoreInv /\ PlacesInv

\* Task i comes to the place `at', and no other task moves.
Moved(i, at) ==
  /\ DOMAIN task' = DOMAIN task /\ Len(task') = Len(task)
  /\ \A j \in DOMAIN task : /\ task'[j].hash = task[j].hash /\ task'[j].listed = task[j].listed
                            /\ j # i => task'[j].at = task[j].at
  /\ task'[i].at = at

\* The scenario's files: its own and the fetched ones are different (Cases).
LEMMA FilesOfSetup ==
  ASSUME StoreInv
  PROVE  /\ Own \cap Fetched = {} /\ Own \subseteq DOMAIN store /\ Fetched \subseteq DOMAIN store
         /\ 0 \notin DOMAIN store
         /\ \A i \in DOMAIN setup.ops :
              /\ setup.ops[i].hash \in DOMAIN store /\ setup.ops[i].kind \in Kinds
              /\ setup.ops[i].kind = "prepare" => setup.ops[i].hash \in Own
              /\ setup.ops[i].kind = "fetch" => setup.ops[i].hash \in Fetched
<1>1. PICK ops : ops = setup.ops
  OBVIOUS
<1>2. /\ ops \in Seq([kind : Kinds, hash : Nat \ {0}, sized : BOOLEAN])
      /\ HashesOf(ops, "prepare") \cap HashesOf(ops, "fetch") = {}
  BY <1>1, TransfersAssumption DEF StoreInv
<1>3. ASSUME NEW i \in DOMAIN ops PROVE ops[i].hash \in Nat \ {0} /\ ops[i].kind \in Kinds
  <2>1. PICK S : S = [kind : Kinds, hash : Nat \ {0}, sized : BOOLEAN]
    OBVIOUS
  <2>2. ops \in Seq(S)
    BY <1>2, <2>1
  <2>3. ops[i] \in S
    BY <2>2, SMTT(30)
  <2> QED BY <2>1, <2>3
<1>4. DOMAIN store = {ops[i].hash : i \in DOMAIN ops}
  BY <1>1 DEF StoreInv
<1>5. /\ HashesOf(ops, "prepare") \subseteq DOMAIN store /\ HashesOf(ops, "fetch") \subseteq DOMAIN store
      /\ \A i \in DOMAIN ops : ops[i].kind = "prepare" => ops[i].hash \in HashesOf(ops, "prepare")
      /\ \A i \in DOMAIN ops : ops[i].kind = "fetch" => ops[i].hash \in HashesOf(ops, "fetch")
  BY <1>4 DEF HashesOf
<1>6. 0 \notin DOMAIN store
  BY <1>3, <1>4
<1> QED BY <1>1, <1>2, <1>3, <1>4, <1>5, <1>6 DEF Own, Fetched

\* A task that goes on, or ends, is the one that moves (Goes, Ends).
LEMMA GoesMoves ==
  ASSUME TasksInv, NEW i \in DOMAIN task, NEW k, k = [f \in TaskFields |-> k[f]],
         k.hash = task[i].hash, k.listed = task[i].listed, Goes(i, k)
  PROVE  Moved(i, k.at)
<1> DEFINE abort == IF k.abort = "asked" THEN "now" ELSE k.abort
           next == [k EXCEPT !.abort = abort]
<1>1. task' = [task EXCEPT ![i] = next]
  BY DEF Goes
<1> HIDE DEF abort
<1>2. next.hash = task[i].hash /\ next.listed = task[i].listed /\ next.at = k.at
  BY DEF TaskFields
<1> HIDE DEF next
<1>3. PICK S : task \in Seq(S)
  BY DEF TasksInv, IsSeq
<1>4. DOMAIN task' = DOMAIN task /\ task'[i] = next /\ \A j \in DOMAIN task : j # i => task'[j] = task[j]
  BY <1>1, <1>3
<1>5. Len(task') = Len(task)
  BY <1>1, <1>3, SMTT(30)
<1> QED BY <1>2, <1>4, <1>5 DEF Moved

\* An end is a move to the result (Ends).
LEMMA EndsMoves ==
  ASSUME TasksInv, NEW i \in DOMAIN task, NEW result, Ends(i, result)
  PROVE  Moved(i, result)
<1> DEFINE next == [task[i] EXCEPT !.at = result, !.mark = 0, !.revision = 0, !.abort = "no"]
<1>1. task' = [task EXCEPT ![i] = next]
  BY DEF Ends
<1>2. next.hash = task[i].hash /\ next.listed = task[i].listed /\ next.at = result
  <2>1. task[i] = [f \in TaskFields |-> task[i][f]]
    BY DEF TasksInv, IsTask
  <2> QED BY <2>1 DEF TaskFields
<1> HIDE DEF next
<1>3. PICK S : task \in Seq(S)
  BY DEF TasksInv, IsSeq
<1>4. DOMAIN task' = DOMAIN task /\ task'[i] = next /\ \A j \in DOMAIN task : j # i => task'[j] = task[j]
  BY <1>1, <1>3
<1>5. Len(task') = Len(task)
  BY <1>1, <1>3, SMTT(30)
<1> QED BY <1>2, <1>4, <1>5 DEF Moved

\* Only an import sets a temporary tag that was not there (TempTags).
LEMMA TagsKeep ==
  ASSUME \A t \in DOMAIN grants' : grants'[t].hash \in TempTags,
         \A s \in Streams : stream'[s].at \in {"granted", "requesting", "sending"} => stream'[s].hash \in TempTags,
         \A j \in DOMAIN task' : task'[j].at = "imported" => task'[j].hash \in TempTags
  PROVE  TempTags' \subseteq TempTags
<1>1. ASSUME NEW h \in TempTags'
      PROVE  \/ \E t \in DOMAIN grants' : h = grants'[t].hash
             \/ \E s \in Streams : stream'[s].at \in {"granted", "requesting", "sending"} /\ h = stream'[s].hash
             \/ \E j \in DOMAIN task' : task'[j].at = "imported" /\ h = task'[j].hash
  BY DEF TempTags, Reading
<1> QED BY <1>1

\* So no other step of a task does.
LEMMA MoveTags ==
  ASSUME NEW i \in DOMAIN task, NEW at, Moved(i, at), at # "imported", UNCHANGED <<grants, stream>>
  PROVE  TempTags' \subseteq TempTags
<1>1. /\ \A t \in DOMAIN grants' : grants'[t].hash \in TempTags
      /\ \A s \in Streams : stream'[s].at \in {"granted", "requesting", "sending"} => stream'[s].hash \in TempTags
  BY DEF TempTags, Reading
<1>2. \A j \in DOMAIN task' : task'[j].at = "imported" => task[j].at = "imported" /\ task'[j].hash = task[j].hash
  BY DEF Moved
<1>3. \A j \in DOMAIN task' : task'[j].at = "imported" => task'[j].hash \in TempTags
  BY <1>2 DEF Moved, TempTags
<1> QED BY <1>1, <1>3, TagsKeep

\* A step of one task that leaves the tag alone and brings no fetched file in.
LEMMA StepKeeps ==
  ASSUME BytesInv, NEW i \in DOMAIN task, NEW at \in Places(setup.ops[i].kind), Moved(i, at),
         setup' = setup, partial' = partial, DOMAIN store' = DOMAIN store,
         \A h \in DOMAIN store : store'[h] \in 0 .. Size /\ (h \in Fetched /\ store'[h] # 0 => store[h] # 0),
         \A h \in TempTags' : h \in Own /\ store'[h] = Size,
         holder' \in DOMAIN task \cup {0},
         \A j \in DOMAIN task : j # i => (holder' = j <=> holder = j),
         at \in Holding <=> holder' = i,
         at \in Tagged => partial = task[i].hash,
         at \in Sole => SolePartial'
  PROVE  BytesInv'
<1>1. Own' = Own /\ Fetched' = Fetched
  BY DEF Own, Fetched
<1>2. Fetched \subseteq DOMAIN store
  BY FilesOfSetup DEF BytesInv
<1>3. SolePartial => SolePartial'
  BY <1>1, <1>2 DEF SolePartial
<1>4. StoreInv'
  <2>1. PICK h : \A f \in Fetched : store[f] # 0 => f = h
    BY DEF BytesInv, StoreInv
  <2>2. \A f \in Fetched : store'[f] # 0 => f = h
    BY <1>2, <2>1
  <2>3. DOMAIN task' = DOMAIN task
    BY DEF Moved
  <2> QED BY <1>1, <2>2, <2>3 DEF BytesInv, StoreInv
<1>5. ASSUME NEW j \in DOMAIN task PROVE Placed(j)'
  <2>1. Placed(j)
    BY DEF BytesInv, PlacesInv
  <2>2. task'[j].hash = task[j].hash /\ (j # i => task'[j].at = task[j].at) /\ task'[i].at = at
    BY DEF Moved
  <2>3. CASE j = i
    BY <2>1, <2>2, <2>3 DEF Placed
  <2>4. CASE j # i
    BY <1>3, <2>1, <2>2, <2>4 DEF Placed
  <2> QED BY <2>3, <2>4
<1>6. PlacesInv'
  BY <1>5 DEF PlacesInv, BytesInv, Moved
<1> QED BY <1>4, <1>6 DEF BytesInv

\* What a task goes on to, and an end, when the store is not touched.
LEMMA GoKeeps ==
  ASSUME BytesInv, NEW i \in DOMAIN task, NEW at \in Places(setup.ops[i].kind), Moved(i, at),
         UNCHANGED <<setup, store, partial, holder, grants, stream>>, at # "imported",
         at \in Holding <=> task[i].at \in Holding,
         at \in Tagged => task[i].at \in Tagged, at \in Sole => task[i].at \in Sole
  PROVE  BytesInv'
<1>1. TempTags' \subseteq TempTags
  BY MoveTags
<1>2. Placed(i)
  BY DEF BytesInv, PlacesInv
<1>3. SolePartial' <=> SolePartial
  BY DEF SolePartial, Fetched
<1>4. /\ at \in Holding <=> holder' = i
      /\ at \in Tagged => partial = task[i].hash
      /\ at \in Sole => SolePartial'
  BY <1>2, <1>3 DEF Placed
<1>5. /\ \A h \in DOMAIN store : store'[h] \in 0 .. Size /\ (h \in Fetched /\ store'[h] # 0 => store[h] # 0)
      /\ \A h \in TempTags' : h \in Own /\ store'[h] = Size
      /\ holder' \in DOMAIN task \cup {0}
      /\ \A j \in DOMAIN task : j # i => (holder' = j <=> holder = j)
  BY <1>1 DEF BytesInv, StoreInv
<1> QED BY <1>4, <1>5, StepKeeps

\* An end of a task gives back `downloading' and keeps the bytes (Ends).
LEMMA EndKeeps ==
  ASSUME BytesInv, TasksInv, NEW i \in DOMAIN task, NEW result \in {"ok", "failed", "aborted"}, Ends(i, result),
         setup' = setup, partial' = partial, DOMAIN store' = DOMAIN store,
         \A h \in DOMAIN store : store'[h] \in 0 .. Size /\ (h \in Fetched /\ store'[h] # 0 => store[h] # 0),
         \A h \in TempTags' : h \in Own /\ store'[h] = Size
  PROVE  BytesInv' /\ Moved(i, result)
<1>1. Moved(i, result)
  BY EndsMoves
<1>2. result \in Places(setup.ops[i].kind) /\ result \notin Holding /\ result \notin Tagged /\ result \notin Sole
  BY DEF Places, Holding, Tagged, Sole, FetchPlaces
<1>3. holder' = IF holder = i THEN 0 ELSE holder
  BY DEF Ends
<1>4. 0 \notin DOMAIN task /\ holder \in DOMAIN task \cup {0}
  <2>1. PICK S : task \in Seq(S)
    BY DEF TasksInv, IsSeq
  <2> QED BY <2>1, SMTT(30) DEF BytesInv, StoreInv
<1>5. /\ holder' \in DOMAIN task \cup {0} /\ holder' # i
      /\ \A j \in DOMAIN task : j # i => (holder' = j <=> holder = j)
  BY <1>3, <1>4
<1> QED BY <1>1, <1>2, <1>5, StepKeeps

\* An end that touches nothing else.
LEMMA PlainEnd ==
  ASSUME BytesInv, TasksInv, NEW i \in DOMAIN task, NEW result \in {"ok", "failed", "aborted"}, Ends(i, result),
         UNCHANGED <<setup, store, partial, stream>>,
         DOMAIN grants' \subseteq DOMAIN grants, \A t \in DOMAIN grants' : grants'[t] = grants[t]
  PROVE  BytesInv' /\ Moved(i, result)
<1>1. Moved(i, result)
  BY EndsMoves
<1>2. TempTags' \subseteq TempTags
  <2>1. /\ \A t \in DOMAIN grants' : grants'[t].hash \in TempTags
        /\ \A s \in Streams : stream'[s].at \in {"granted", "requesting", "sending"} => stream'[s].hash \in TempTags
    BY DEF TempTags, Reading
  <2>2. \A j \in DOMAIN task' : task'[j].at = "imported" => task[j].at = "imported" /\ task'[j].hash = task[j].hash
    BY <1>1 DEF Moved
  <2>3. \A j \in DOMAIN task' : task'[j].at = "imported" => task'[j].hash \in TempTags
    BY <1>1, <2>2 DEF Moved, TempTags
  <2> QED BY <2>1, <2>3, TagsKeep
<1>3. /\ \A h \in DOMAIN store : store'[h] \in 0 .. Size /\ (h \in Fetched /\ store'[h] # 0 => store[h] # 0)
      /\ \A h \in TempTags' : h \in Own /\ store'[h] = Size
  BY <1>2 DEF BytesInv, StoreInv
<1> QED BY <1>3, EndKeeps

\* A collection keeps what a tag names, and of the fetched files nothing but
\* the partial one (collect).
LEMMA CollectKeeps ==
  ASSUME BytesInv, collect, setup' = setup, partial' = partial, TempTags' \subseteq TempTags
  PROVE  /\ DOMAIN store' = DOMAIN store
         /\ \A h \in DOMAIN store : store'[h] \in 0 .. Size /\ (h \in Fetched /\ store'[h] # 0 => store[h] # 0)
         /\ \A h \in TempTags' : h \in Own /\ store'[h] = Size
         /\ SolePartial'
<1>1. /\ Own \cap Fetched = {} /\ Own \subseteq DOMAIN store /\ Fetched \subseteq DOMAIN store
  BY FilesOfSetup DEF BytesInv
<1>2. /\ DOMAIN store' = DOMAIN store
      /\ \A h \in DOMAIN store : store'[h] = IF h \in TempTags \cup {partial} THEN store[h] ELSE 0
  BY DEF collect, Hashes
<1>3. /\ \A h \in DOMAIN store : store[h] \in 0 .. Size
      /\ \A h \in TempTags : h \in Own /\ store[h] = Size
  BY DEF BytesInv, StoreInv
<1>4. Size \in Nat
  BY TransfersAssumption
<1>5. \A h \in DOMAIN store : store'[h] \in 0 .. Size /\ (h \in Fetched /\ store'[h] # 0 => store[h] # 0)
  BY <1>2, <1>3, <1>4, SMTT(30)
<1>6. \A h \in TempTags' : h \in Own /\ store'[h] = Size
  BY <1>1, <1>2, <1>3
<1>7. SolePartial'
  <2>1. Fetched' = Fetched
    BY DEF Fetched
  <2>2. \A h \in Fetched : store'[h] # 0 => h = partial
    BY <1>1, <1>2, <1>3
  <2> QED BY <2>1, <2>2 DEF SolePartial
<1> QED BY <1>2, <1>5, <1>6, <1>7

-----------------------------------------------------------------------------
\* A step of a preparation brings in a file of the node's own, under a
\* temporary tag that the grant takes over.
LEMMA PrepareBytes ==
  ASSUME BytesInv, TasksInv, NEW i \in DOMAIN task, PrepareStep(i)
  PROVE  BytesInv' /\ \E at : Moved(i, at)
<1>1. UNCHANGED <<setup, partial, stream>>
  BY DEF PrepareStep, Begin, Import, Grant, Prepared, policy, serving
<1>2. task[i] = [f \in TaskFields |-> task[i][f]]
  BY DEF TasksInv, IsTask
<1>3. Placed(i)
  BY DEF BytesInv, PlacesInv
<1>4. /\ Own \cap Fetched = {} /\ Own \subseteq DOMAIN store
      /\ setup.ops[i].kind \in Kinds /\ (setup.ops[i].kind = "prepare" => task[i].hash \in Own)
  BY <1>3, FilesOfSetup DEF BytesInv, Placed
<1>5. task[i].at \in {"prepare", "entered", "imported", "inserted"} => setup.ops[i].kind = "prepare"
  BY <1>3, <1>4 DEF Placed, Places, FetchPlaces, Kinds
<1>6. /\ \A at \in {"prepare", "entered", "imported", "inserted"} :
            at \notin Holding /\ at \notin Tagged /\ at \notin Sole
      /\ setup.ops[i].kind = "prepare" =>
            {"prepare", "entered", "imported", "inserted"} \subseteq Places(setup.ops[i].kind)
  BY DEF Holding, Tagged, Sole, FetchPlaces, Places
<1>7. CASE Begin(i)
  <2> DEFINE k == [task[i] EXCEPT !.at = "entered", !.mark = generation]
  <2>1. k = [f \in TaskFields |-> k[f]] /\ k.at = "entered" /\ k.hash = task[i].hash /\ k.listed = task[i].listed
    BY <1>2 DEF TaskFields
  <2>2. Goes(i, k) /\ task[i].at = "prepare" /\ UNCHANGED <<store, holder, grants>>
    BY <1>7 DEF Begin, Runs, serving
  <2> HIDE DEF k
  <2>3. Moved(i, "entered")
    BY <2>1, <2>2, GoesMoves
  <2>4. BytesInv'
    BY <1>1, <1>5, <1>6, <2>2, <2>3, GoKeeps
  <2> QED BY <2>3, <2>4
<1>8. CASE Import(i) /\ authorize(task[i].revision)
  <2> DEFINE k == [task[i] EXCEPT !.at = "imported"]
  <2>1. k = [f \in TaskFields |-> k[f]] /\ k.at = "imported" /\ k.hash = task[i].hash /\ k.listed = task[i].listed
    BY <1>2 DEF TaskFields
  <2>2. /\ Goes(i, k) /\ task[i].at = "entered" /\ UNCHANGED <<holder, grants>>
        /\ store' = [store EXCEPT ![task[i].hash] = Size]
    BY <1>8 DEF Import, Runs, serving
  <2> HIDE DEF k
  <2>3. Moved(i, "imported")
    BY <2>1, <2>2, GoesMoves
  <2>4. PICK own \in Own : own = task[i].hash
    BY <1>4, <1>5, <2>2
  <2>5. DOMAIN store' = DOMAIN store /\ \A h \in DOMAIN store : store'[h] = IF h = own THEN Size ELSE store[h]
    BY <2>2, <2>4
  <2>6. Size \in Nat \ {0}
    BY TransfersAssumption
  <2>7. \A h \in DOMAIN store : store'[h] \in 0 .. Size /\ (h \in Fetched /\ store'[h] # 0 => store[h] # 0)
    BY <1>4, <2>5, <2>6, SMTT(30) DEF BytesInv, StoreInv
  <2>8. ASSUME NEW h \in TempTags' PROVE h \in TempTags \/ h = own
    <3>1. \/ \E t \in DOMAIN grants : h = grants[t].hash
          \/ \E s \in Streams : stream[s].at \in {"granted", "requesting", "sending"} /\ h = stream[s].hash
          \/ \E j \in DOMAIN task' : task'[j].at = "imported" /\ h = task'[j].hash
      BY <1>1, <2>2 DEF TempTags, Reading
    <3>2. \A j \in DOMAIN task' : /\ j \in DOMAIN task /\ task'[j].hash = task[j].hash
                                  /\ j # i => task'[j].at = task[j].at
      BY <2>3 DEF Moved
    <3> QED BY <2>4, <3>1, <3>2, SMTT(30) DEF TempTags, Reading
  <2>9. \A h \in TempTags' : h \in Own /\ store'[h] = Size
    BY <1>4, <2>5, <2>8 DEF BytesInv, StoreInv
  <2>10. /\ holder' \in DOMAIN task \cup {0} /\ (\A j \in DOMAIN task : j # i => (holder' = j <=> holder = j))
         /\ holder' # i
    BY <1>3, <1>6, <2>2 DEF Placed, BytesInv, StoreInv
  <2>11. "imported" \in Places(setup.ops[i].kind)
    BY <1>5, <1>6, <2>2
  <2>12. BytesInv'
    BY <1>1, <1>6, <2>3, <2>5, <2>7, <2>9, <2>10, <2>11, StepKeeps
  <2> QED BY <2>3, <2>12
<1>9. CASE Import(i) /\ ~ authorize(task[i].revision)
  <2>1. Ends(i, "failed") /\ UNCHANGED <<store, grants>>
    BY <1>9 DEF Import, serving
  <2> QED BY <1>1, <2>1, PlainEnd
<1> DEFINE full == ~ authorize(task[i].revision) \/ task[i].mark # generation \/ Cardinality(Kept) >= MAX_GRANTS
<1>10. CASE Grant(i) /\ full
  <2>1. Ends(i, "failed") /\ store' = store /\ (grants' = grants \/ grants' = [t \in Kept |-> grants[t]])
    BY <1>10 DEF Grant
  <2>2. DOMAIN grants' \subseteq DOMAIN grants /\ \A t \in DOMAIN grants' : grants'[t] = grants[t]
    BY <2>1 DEF Kept
  <2> QED BY <1>1, <2>1, <2>2, PlainEnd
<1>11. CASE Grant(i) /\ ~ full
  <2> DEFINE k == [task[i] EXCEPT !.at = "inserted"]
  <2>1. k = [f \in TaskFields |-> k[f]] /\ k.at = "inserted" /\ k.hash = task[i].hash /\ k.listed = task[i].listed
    BY <1>2 DEF TaskFields
  <2>2. /\ Goes(i, k) /\ task[i].at = "imported" /\ UNCHANGED <<store, holder>>
        /\ grants' = [t \in Kept \cup {i} |->
                        IF t = i THEN [hash |-> task[i].hash, revision |-> task[i].revision, expired |-> FALSE]
                                 ELSE grants[t]]
    BY <1>11 DEF Grant, Runs
  <2> HIDE DEF k
  <2>3. Moved(i, "inserted")
    BY <2>1, <2>2, GoesMoves
  <2>4. task[i].hash \in TempTags
    BY <2>2 DEF TempTags
  <2>5. TempTags' \subseteq TempTags
    <3>1. Kept \subseteq DOMAIN grants
      BY DEF Kept
    <3>2. \A t \in DOMAIN grants' : grants'[t].hash = task[i].hash \/ (t \in DOMAIN grants /\ grants'[t] = grants[t])
      BY <2>2, <3>1
    <3>3. \A t \in DOMAIN grants' : grants'[t].hash \in TempTags
      BY <2>4, <3>2 DEF TempTags
    <3>4. \A s \in Streams : stream'[s].at \in {"granted", "requesting", "sending"} => stream'[s].hash \in TempTags
      BY <1>1 DEF TempTags, Reading
    <3>5. \A j \in DOMAIN task' : task'[j].at = "imported" => task[j].at = "imported" /\ task'[j].hash = task[j].hash
      BY <2>3 DEF Moved
    <3>6. \A j \in DOMAIN task' : task'[j].at = "imported" => task'[j].hash \in TempTags
      BY <2>3, <3>5 DEF Moved, TempTags
    <3> QED BY <3>3, <3>4, <3>6, TagsKeep
  <2>6. /\ \A h \in DOMAIN store : store'[h] \in 0 .. Size /\ (h \in Fetched /\ store'[h] # 0 => store[h] # 0)
        /\ \A h \in TempTags' : h \in Own /\ store'[h] = Size
    BY <2>2, <2>5 DEF BytesInv, StoreInv
  <2>7. /\ holder' \in DOMAIN task \cup {0} /\ (\A j \in DOMAIN task : j # i => (holder' = j <=> holder = j))
        /\ holder' # i
    BY <1>3, <1>6, <2>2 DEF Placed, BytesInv, StoreInv
  <2>8. "inserted" \in Places(setup.ops[i].kind)
    BY <1>5, <1>6, <2>2
  <2>9. BytesInv'
    BY <1>1, <1>6, <2>2, <2>3, <2>6, <2>7, <2>8, StepKeeps
  <2> QED BY <2>3, <2>9
<1>12. CASE Prepared(i)
  <2>1. collect /\ Ends(i, "ok") /\ grants' = grants
    BY <1>12 DEF Prepared, serving
  <2>2. Moved(i, "ok")
    BY <2>1, EndsMoves
  <2>3. TempTags' \subseteq TempTags
    BY <1>1, <2>1, <2>2, MoveTags
  <2>4. BytesInv'
    BY <1>1, <2>1, <2>3, CollectKeeps, EndKeeps
  <2> QED BY <2>2, <2>4
<1> QED BY <1>7, <1>8, <1>9, <1>10, <1>11, <1>12 DEF PrepareStep

\* The holder of `downloading' moves the tag (Tag, Untag): no other task counts
\* on it.
LEMMA TagMoves ==
  ASSUME BytesInv, NEW i \in DOMAIN task, NEW at \in Places(setup.ops[i].kind), Moved(i, at), at # "imported",
         UNCHANGED <<setup, store, grants, stream>>, partial' \in DOMAIN store \cup {0},
         holder' = i, \A j \in DOMAIN task : j # i => holder # j,
         at \in Holding, at \notin Sole, at \in Tagged => partial' = task[i].hash
  PROVE  BytesInv'
<1>1. TempTags' \subseteq TempTags
  BY MoveTags
<1>2. Own' = Own /\ Fetched' = Fetched /\ DOMAIN task' = DOMAIN task
  BY DEF Own, Fetched, Moved
<1>3. StoreInv'
  BY <1>1, <1>2 DEF BytesInv, StoreInv
<1>4. Tagged \subseteq Holding /\ Sole \subseteq Holding
  BY DEF Tagged, Sole, Holding, FetchPlaces
<1>5. ASSUME NEW j \in DOMAIN task PROVE Placed(j)'
  <2>1. Placed(j)
    BY DEF BytesInv, PlacesInv
  <2>2. task'[j].hash = task[j].hash /\ (j # i => task'[j].at = task[j].at) /\ task'[i].at = at
    BY DEF Moved
  <2>3. CASE j = i
    BY <2>1, <2>2, <2>3 DEF Placed
  <2>4. CASE j # i
    <3>1. task[j].at \notin Holding
      BY <2>1, <2>4 DEF Placed
    <3> QED BY <1>4, <2>1, <2>2, <2>4, <3>1 DEF Placed
  <2> QED BY <2>3, <2>4
<1>6. PlacesInv'
  BY <1>5 DEF PlacesInv, BytesInv, Moved
<1> QED BY <1>3, <1>6 DEF BytesInv

\* A chunk comes in for the one fetched file that has the tag (Load).
LEMMA LoadBytes ==
  ASSUME BytesInv, TasksInv, NEW i \in DOMAIN task, Load(i)
  PROVE  BytesInv' /\ \E at : Moved(i, at)
<1>1. UNCHANGED <<setup, stream, grants, partial, holder>> /\ task[i].at = "loading" /\ store[task[i].hash] < Size
  BY DEF Load, policy, serving, Runs
<1>2. Placed(i) /\ StoreInv
  BY DEF BytesInv, PlacesInv
<1>3. setup.ops[i].kind = "fetch"
  <2>1. setup.ops[i].kind \in Kinds
    BY <1>2, FilesOfSetup DEF Placed
  <2> QED BY <1>1, <1>2, <2>1 DEF Placed, Places, Kinds
<1>4. /\ Own \cap Fetched = {} /\ Own \subseteq DOMAIN store /\ Fetched \subseteq DOMAIN store
      /\ task[i].hash \in Fetched
  BY <1>2, <1>3, FilesOfSetup DEF Placed
<1>5. SolePartial /\ partial = task[i].hash /\ holder = i
  <2>1. "loading" \in Holding /\ "loading" \in Tagged /\ "loading" \in Sole
    BY DEF Holding, Tagged, Sole, FetchPlaces
  <2> QED BY <1>1, <1>2, <2>1 DEF Placed
<1>6. PICK at \in {"whole", "loading"} : Moved(i, at)
  <2> DEFINE at == IF store[task[i].hash] + 1 = Size THEN "whole" ELSE task[i].at
             k == [task[i] EXCEPT !.at = at]
  <2>1. Goes(i, k) /\ at \in {"whole", "loading"}
    BY <1>1 DEF Load
  <2> HIDE DEF at
  <2>2. k = [f \in TaskFields |-> k[f]] /\ k.at = at /\ k.hash = task[i].hash /\ k.listed = task[i].listed
    <3>1. task[i] = [f \in TaskFields |-> task[i][f]]
      BY DEF TasksInv, IsTask
    <3> QED BY <3>1 DEF TaskFields
  <2> HIDE DEF k
  <2> QED BY <2>1, <2>2, GoesMoves
<1>7. TempTags' \subseteq TempTags
  BY <1>1, <1>6, MoveTags
<1>8. PICK file \in Fetched : file = task[i].hash
  BY <1>4
<1>9. /\ DOMAIN store' = DOMAIN store
      /\ \A h \in DOMAIN store : store'[h] = IF h = file THEN store[file] + 1 ELSE store[h]
  BY <1>4, <1>8 DEF Load
<1>10. Size \in Nat /\ (\A h \in DOMAIN store : store[h] \in 0 .. Size) /\ store[file] < Size
  BY <1>1, <1>2, <1>8, TransfersAssumption DEF StoreInv
<1>11. \A h \in DOMAIN store : store'[h] \in 0 .. Size
  <2>1. store[file] + 1 \in 0 .. Size
    BY <1>4, <1>8, <1>10, SMTT(30)
  <2> QED BY <1>9, <1>10, <2>1
<1>12. Own' = Own /\ Fetched' = Fetched /\ DOMAIN task' = DOMAIN task
  BY <1>1, <1>6 DEF Own, Fetched, Moved
<1>13. \A f \in Fetched : store'[f] # 0 => f = file
  BY <1>4, <1>5, <1>8, <1>9 DEF SolePartial
<1>14. \A h \in TempTags' : h \in Own /\ store'[h] = Size
  BY <1>2, <1>4, <1>7, <1>8, <1>9, SMTT(30) DEF StoreInv
<1>15. StoreInv'
  BY <1>1, <1>2, <1>9, <1>11, <1>12, <1>13, <1>14 DEF StoreInv
<1>16. SolePartial'
  BY <1>1, <1>5, <1>8, <1>12, <1>13 DEF SolePartial
<1>17. ASSUME NEW j \in DOMAIN task PROVE Placed(j)'
  <2>1. Placed(j)
    BY DEF BytesInv, PlacesInv
  <2>2. task'[j].hash = task[j].hash /\ (j # i => task'[j].at = task[j].at) /\ task'[i].at = at
    BY <1>6 DEF Moved
  <2>3. CASE j = i
    <3>1. at \in Places(setup.ops[i].kind) /\ at \in Holding
      BY <1>3 DEF Places, Holding, FetchPlaces
    <3> QED BY <1>1, <1>5, <1>16, <2>1, <2>2, <2>3, <3>1 DEF Placed
  <2>4. CASE j # i
    BY <1>1, <1>16, <2>1, <2>2, <2>4 DEF Placed
  <2> QED BY <2>3, <2>4
<1>18. PlacesInv'
  BY <1>1, <1>6, <1>12, <1>17 DEF PlacesInv, BytesInv, Moved
<1> QED BY <1>6, <1>15, <1>18 DEF BytesInv

\* A step of a download, or of clear_partial: only the task that holds
\* `downloading' moves the tag, and it loads after it has collected.
LEMMA FetchBytes ==
  ASSUME BytesInv, TasksInv, NEW i \in DOMAIN task, FetchStep(i) \/ Load(i)
  PROVE  BytesInv' /\ \E at : Moved(i, at)
<1>1. UNCHANGED <<setup, stream, grants>>
  BY DEF FetchStep, Lock, Tag, CollectOthers, Connect, Open, LoadChanged, LoadFails, Export, Untag, Finish, Load,
         policy, serving
<1>2. task[i] = [f \in TaskFields |-> task[i][f]]
  BY DEF TasksInv, IsTask
<1>3. Placed(i) /\ StoreInv
  BY DEF BytesInv, PlacesInv
<1>4. /\ Own \cap Fetched = {} /\ Own \subseteq DOMAIN store /\ Fetched \subseteq DOMAIN store
      /\ setup.ops[i].kind \in Kinds /\ (setup.ops[i].kind = "fetch" => task[i].hash \in Fetched)
      /\ task[i].hash \in DOMAIN store
  BY <1>3, FilesOfSetup DEF Placed
<1>5. /\ task[i].at \in FetchPlaces \ {"untagged"} => setup.ops[i].kind = "fetch"
      /\ task[i].at = "clear" => setup.ops[i].kind = "clear"
  BY <1>3, <1>4 DEF Placed, Places, FetchPlaces, Kinds
<1>6. /\ setup.ops[i].kind = "fetch" => FetchPlaces \subseteq Places(setup.ops[i].kind)
      /\ setup.ops[i].kind = "clear" => "untagged" \in Places(setup.ops[i].kind)
  BY DEF Places
<1>7. 0 \notin DOMAIN task
  <2>1. PICK S : task \in Seq(S)
    BY DEF TasksInv, IsSeq
  <2> QED BY <2>1, SMTT(30)
<1>8. ASSUME Ends(i, "failed"), UNCHANGED <<store, partial>> PROVE BytesInv' /\ \E at : Moved(i, at)
  BY <1>1, <1>8, PlainEnd
<1>9. ASSUME NEW at \in FetchPlaces, Moved(i, at), UNCHANGED <<store, partial, holder>>,
             \/ task[i].at = "collected" /\ at \in {"whole", "connecting"}
             \/ task[i].at \in {"connecting", "loading"} /\ at = "loading"
             \/ task[i].at = "whole" /\ at = "exported"
      PROVE  BytesInv' /\ \E x : Moved(i, x)
  <2>1. /\ at \in Holding <=> task[i].at \in Holding
        /\ at \in Tagged => task[i].at \in Tagged
        /\ at \in Sole => task[i].at \in Sole
        /\ task[i].at \in FetchPlaces \ {"untagged"} /\ at # "imported"
    BY <1>9 DEF Holding, Tagged, Sole, FetchPlaces
  <2>2. at \in Places(setup.ops[i].kind)
    BY <1>5, <1>6, <2>1
  <2>3. BytesInv'
    BY <1>1, <1>9, <2>1, <2>2, GoKeeps
  <2> QED BY <1>9, <2>3
<1>10. CASE Lock(i) /\ holder # 0
  BY <1>8, <1>10 DEF Lock
<1>11. CASE Lock(i) /\ holder = 0
  <2> DEFINE k == [task[i] EXCEPT !.at = "locked"]
  <2>1. k = [f \in TaskFields |-> k[f]] /\ k.at = "locked" /\ k.hash = task[i].hash /\ k.listed = task[i].listed
    BY <1>2 DEF TaskFields
  <2>2. Goes(i, k) /\ task[i].at = "fetch" /\ holder' = i /\ UNCHANGED <<store, partial>>
    BY <1>11 DEF Lock, Runs
  <2> HIDE DEF k
  <2>3. Moved(i, "locked")
    BY <2>1, <2>2, GoesMoves
  <2>4. TempTags' \subseteq TempTags
    BY <1>1, <2>3, MoveTags
  <2>5. /\ "locked" \in Places(setup.ops[i].kind) /\ "locked" \in Holding
        /\ "locked" \notin Tagged /\ "locked" \notin Sole
    BY <1>5, <1>6, <2>2 DEF Holding, Tagged, Sole, FetchPlaces
  <2>6. /\ \A h \in DOMAIN store : store'[h] \in 0 .. Size /\ (h \in Fetched /\ store'[h] # 0 => store[h] # 0)
        /\ \A h \in TempTags' : h \in Own /\ store'[h] = Size
    BY <1>3, <2>2, <2>4 DEF StoreInv
  <2>7. \A j \in DOMAIN task : j # i => (holder' = j <=> holder = j)
    BY <1>7, <1>11, <2>2
  <2>8. BytesInv'
    BY <1>1, <2>2, <2>3, <2>5, <2>6, <2>7, StepKeeps
  <2> QED BY <2>3, <2>8
<1>12. CASE Tag(i) /\ ~ authorize(task[i].revision)
  BY <1>8, <1>12 DEF Tag
<1>13. CASE Tag(i) /\ authorize(task[i].revision)
  <2> DEFINE k == [task[i] EXCEPT !.at = "tagged"]
  <2>1. k = [f \in TaskFields |-> k[f]] /\ k.at = "tagged" /\ k.hash = task[i].hash /\ k.listed = task[i].listed
    BY <1>2 DEF TaskFields
  <2>2. Goes(i, k) /\ task[i].at = "locked" /\ partial' = task[i].hash /\ UNCHANGED <<store, holder>>
    BY <1>13 DEF Tag, Runs
  <2> HIDE DEF k
  <2>3. Moved(i, "tagged")
    BY <2>1, <2>2, GoesMoves
  <2>4. /\ "tagged" \in Places(setup.ops[i].kind) /\ "tagged" \in Holding /\ "tagged" \notin Sole
        /\ task[i].at \in Holding
    BY <1>5, <1>6, <2>2 DEF Holding, Sole, FetchPlaces
  <2>5. holder = i
    BY <1>3, <2>4 DEF Placed
  <2>6. BytesInv'
    BY <1>1, <1>4, <2>2, <2>3, <2>4, <2>5, TagMoves
  <2> QED BY <2>3, <2>6
<1>14. CASE CollectOthers(i)
  <2> DEFINE k == [task[i] EXCEPT !.at = "collected"]
  <2>1. k = [f \in TaskFields |-> k[f]] /\ k.at = "collected" /\ k.hash = task[i].hash /\ k.listed = task[i].listed
    BY <1>2 DEF TaskFields
  <2>2. Goes(i, k) /\ task[i].at = "tagged" /\ collect /\ UNCHANGED <<partial, holder>>
    BY <1>14 DEF CollectOthers, Runs
  <2> HIDE DEF k
  <2>3. Moved(i, "collected")
    BY <2>1, <2>2, GoesMoves
  <2>4. TempTags' \subseteq TempTags
    BY <1>1, <2>3, MoveTags
  <2>5. /\ "collected" \in Places(setup.ops[i].kind) /\ "collected" \in Holding
        /\ task[i].at \in Holding /\ task[i].at \in Tagged
    BY <1>5, <1>6, <2>2 DEF Holding, Tagged, FetchPlaces
  <2>6. /\ holder' = i /\ partial = task[i].hash /\ holder' \in DOMAIN task \cup {0}
        /\ \A j \in DOMAIN task : j # i => (holder' = j <=> holder = j)
    BY <1>3, <2>2, <2>5 DEF Placed
  <2>7. BytesInv'
    BY <1>1, <2>2, <2>3, <2>4, <2>5, <2>6, CollectKeeps, StepKeeps
  <2> QED BY <2>3, <2>7
<1>15. CASE Connect(i)
  <2> DEFINE at == IF store[task[i].hash] = Size THEN "whole" ELSE "connecting"
             k == [task[i] EXCEPT !.at = at, !.mark = generation]
  <2>1. /\ Goes(i, k) /\ at \in {"whole", "connecting"} /\ task[i].at = "collected"
        /\ UNCHANGED <<store, partial, holder>>
    BY <1>15 DEF Connect, Runs
  <2> HIDE DEF at
  <2>2. k = [f \in TaskFields |-> k[f]] /\ k.at = at /\ k.hash = task[i].hash /\ k.listed = task[i].listed
    BY <1>2 DEF TaskFields
  <2> HIDE DEF k
  <2>3. Moved(i, at) /\ at \in FetchPlaces
    BY <2>1, <2>2, GoesMoves DEF FetchPlaces
  <2> QED BY <1>9, <2>1, <2>3
<1>16. CASE Open(i)
  <2> DEFINE k == [task[i] EXCEPT !.at = "loading"]
  <2>1. k = [f \in TaskFields |-> k[f]] /\ k.at = "loading" /\ k.hash = task[i].hash /\ k.listed = task[i].listed
    BY <1>2 DEF TaskFields
  <2>2. /\ (Goes(i, k) /\ UNCHANGED holder) \/ Ends(i, "failed")
        /\ task[i].at = "connecting" /\ UNCHANGED <<store, partial>>
    BY <1>16 DEF Open, Runs
  <2> HIDE DEF k
  <2>3. Goes(i, k) => Moved(i, "loading")
    BY <2>1, GoesMoves
  <2>4. "loading" \in FetchPlaces
    BY DEF FetchPlaces
  <2> QED BY <1>8, <1>9, <2>2, <2>3, <2>4
<1>17. CASE LoadChanged(i)
  <2>1. task[i].at = "loading" /\ UNCHANGED <<store, partial>>
    BY <1>17 DEF LoadChanged, Runs
  <2> DEFINE k == [task[i] EXCEPT !.mark = generation]
  <2>2. k = [f \in TaskFields |-> k[f]] /\ k.at = "loading" /\ k.hash = task[i].hash /\ k.listed = task[i].listed
    BY <1>2, <2>1 DEF TaskFields
  <2>3. (Goes(i, k) /\ UNCHANGED holder) \/ Ends(i, "failed")
    BY <1>17 DEF LoadChanged
  <2> HIDE DEF k
  <2>4. Goes(i, k) => Moved(i, "loading")
    BY <2>2, GoesMoves
  <2>5. "loading" \in FetchPlaces
    BY DEF FetchPlaces
  <2> QED BY <1>8, <1>9, <2>1, <2>3, <2>4, <2>5
<1>18. CASE LoadFails(i)
  BY <1>8, <1>18 DEF LoadFails
<1>19. CASE Export(i)
  <2> DEFINE k == [task[i] EXCEPT !.at = "exported"]
  <2>1. k = [f \in TaskFields |-> k[f]] /\ k.at = "exported" /\ k.hash = task[i].hash /\ k.listed = task[i].listed
    BY <1>2 DEF TaskFields
  <2>2. /\ (Goes(i, k) /\ UNCHANGED holder) \/ Ends(i, "failed")
        /\ task[i].at = "whole" /\ UNCHANGED <<store, partial>>
    BY <1>19 DEF Export, Runs
  <2> HIDE DEF k
  <2>3. Goes(i, k) => Moved(i, "exported")
    BY <2>1, GoesMoves
  <2>4. "exported" \in FetchPlaces
    BY DEF FetchPlaces
  <2> QED BY <1>8, <1>9, <2>2, <2>3, <2>4
<1>20. CASE Untag(i)
  <2> DEFINE k == [task[i] EXCEPT !.at = "untagged"]
  <2>1. k = [f \in TaskFields |-> k[f]] /\ k.at = "untagged" /\ k.hash = task[i].hash /\ k.listed = task[i].listed
    BY <1>2 DEF TaskFields
  <2>2. /\ Goes(i, k) /\ partial' = 0 /\ store' = store
        /\ \/ task[i].at = "exported" /\ holder' = holder
           \/ task[i].at = "clear" /\ holder = 0 /\ holder' = i
    BY <1>20 DEF Untag, Runs
  <2> HIDE DEF k
  <2>3. Moved(i, "untagged")
    BY <2>1, <2>2, GoesMoves
  <2>4. /\ "untagged" \in Holding /\ "untagged" \notin Sole /\ "untagged" \notin Tagged
        /\ "exported" \in Holding /\ "exported" \in FetchPlaces \ {"untagged"} /\ "untagged" \in FetchPlaces
    BY DEF Holding, Tagged, Sole, FetchPlaces
  <2>5. "untagged" \in Places(setup.ops[i].kind)
    BY <1>5, <1>6, <2>2, <2>4
  <2>6. holder' = i /\ \A j \in DOMAIN task : j # i => holder # j
    BY <1>3, <1>7, <2>2, <2>4 DEF Placed
  <2>7. BytesInv'
    BY <1>1, <2>2, <2>3, <2>4, <2>5, <2>6, TagMoves
  <2> QED BY <2>3, <2>7
<1>21. CASE Finish(i)
  <2>1. collect /\ Ends(i, "ok") /\ partial' = partial
    BY <1>21 DEF Finish
  <2>2. Moved(i, "ok")
    BY <2>1, EndsMoves
  <2>3. TempTags' \subseteq TempTags
    BY <1>1, <2>2, MoveTags
  <2>4. BytesInv'
    BY <1>1, <2>1, <2>3, CollectKeeps, EndKeeps
  <2> QED BY <2>2, <2>4
<1>22. CASE Load(i)
  BY <1>22, LoadBytes
<1> QED BY <1>10, <1>11, <1>12, <1>13, <1>14, <1>15, <1>16, <1>17, <1>18, <1>19, <1>20, <1>21, <1>22 DEF FetchStep

-----------------------------------------------------------------------------
(* The bounds. *)

CardInv ==
  /\ revision \in 1 .. setup.revisions /\ closed \in BOOLEAN
  /\ DOMAIN grants \subseteq DOMAIN task /\ Cardinality(DOMAIN grants) <= MAX_GRANTS
  /\ Cardinality(Listed) <= MAX_JOBS

\* Tasks are finitely many, and so are the grants and the list.
LEMMA TasksFinite ==
  ASSUME IsSeq(task)
  PROVE  /\ IsFiniteSet(DOMAIN task)
         /\ \A S : S \subseteq DOMAIN task => IsFiniteSet(S) /\ Cardinality(S) \in Nat
<1>1. PICK S : task \in Seq(S)
  BY DEF IsSeq
<1>2. DOMAIN task = 1 .. Len(task) /\ Len(task) \in Nat
  BY <1>1, SMTT(30)
<1>3. IsFiniteSet(1 .. Len(task))
  BY <1>2, FS_Interval, SMTT(30)
<1>4. IsFiniteSet(DOMAIN task)
  BY <1>2, <1>3
<1>5. ASSUME NEW T, T \subseteq DOMAIN task PROVE IsFiniteSet(T) /\ Cardinality(T) \in Nat
  BY <1>4, <1>5, FS_Subset, FS_CardinalityType
<1> QED BY <1>4, <1>5

\* What neither grants nor lists anything stays within the bounds.
LEMMA CardKeeps ==
  ASSUME CardInv, IsSeq(task), setup' = setup, revision' \in 1 .. setup.revisions,
         closed' = closed \/ closed' = TRUE,
         DOMAIN grants' \subseteq DOMAIN grants, DOMAIN task' = DOMAIN task,
         \A j \in DOMAIN task : task'[j].listed => task[j].listed
  PROVE  CardInv'
<1>1. closed' \in BOOLEAN
  BY DEF CardInv
<1>2. IsFiniteSet(DOMAIN grants) /\ IsFiniteSet(Listed)
  BY TasksFinite DEF CardInv, Listed
<1>3. Listed' \subseteq Listed
  BY DEF Listed
<1>4. /\ Cardinality(DOMAIN grants') <= Cardinality(DOMAIN grants) /\ Cardinality(DOMAIN grants') \in Nat
      /\ Cardinality(DOMAIN grants) \in Nat
  BY <1>2, FS_Subset, FS_CardinalityType
<1>5. /\ Cardinality(Listed') <= Cardinality(Listed) /\ Cardinality(Listed') \in Nat /\ Cardinality(Listed) \in Nat
  BY <1>2, <1>3, FS_Subset, FS_CardinalityType
<1>6. MAX_GRANTS \in Nat /\ MAX_JOBS \in Nat
  BY TransfersAssumption
<1> QED BY <1>1, <1>3, <1>4, <1>5, <1>6, SMTT(30) DEF CardInv

\* A step of a task: only Grant adds a grant, below the bound.
LEMMA TaskCard ==
  ASSUME CardInv, IsSeq(task), NEW i \in DOMAIN task, \E at : Moved(i, at),
         PrepareStep(i) \/ FetchStep(i) \/ Load(i) \/ Drop(i)
  PROVE  CardInv'
<1>1. UNCHANGED <<setup, revision, closed>>
  BY DEF PrepareStep, Begin, Import, Grant, Prepared, FetchStep, Lock, Tag, CollectOthers, Connect, Open, LoadChanged,
         LoadFails, Export, Untag, Finish, Load, Drop, policy
<1>2. DOMAIN task' = DOMAIN task /\ \A j \in DOMAIN task : task'[j].listed = task[j].listed
  BY DEF Moved
<1>3. CASE DOMAIN grants' \subseteq DOMAIN grants
  BY <1>1, <1>2, <1>3, CardKeeps DEF CardInv
<1>4. CASE ~ (DOMAIN grants' \subseteq DOMAIN grants)
  <2>1. Grant(i)
    BY <1>4 DEF PrepareStep, Begin, Import, Prepared, FetchStep, Lock, Tag, CollectOthers, Connect, Open, LoadChanged,
                LoadFails, Export, Untag, Finish, Load, Drop, serving
  <2>2. Kept \subseteq DOMAIN grants
    BY DEF Kept
  <2>3. DOMAIN grants' = Kept \cup {i} /\ ~ (Cardinality(Kept) >= MAX_GRANTS)
    BY <1>4, <2>1, <2>2 DEF Grant
  <2>4. Kept \subseteq DOMAIN task
    BY <2>2 DEF CardInv
  <2>5. IsFiniteSet(Kept) /\ Cardinality(Kept) \in Nat
    BY <2>4, TasksFinite
  <2>6. Cardinality(Kept \cup {i}) = IF i \in Kept THEN Cardinality(Kept) ELSE Cardinality(Kept) + 1
    BY <2>5, FS_AddElement
  <2>7. MAX_GRANTS \in Nat
    BY TransfersAssumption
  <2>8. Cardinality(DOMAIN grants') <= MAX_GRANTS
    BY <2>3, <2>5, <2>6, <2>7, SMTT(30)
  <2>9. Listed' = Listed
    BY <1>2 DEF Listed
  <2>10. DOMAIN grants' \subseteq DOMAIN task'
    BY <1>2, <2>3, <2>4
  <2> QED BY <1>1, <2>8, <2>9, <2>10 DEF CardInv
<1> QED BY <1>3, <1>4

\* What moves no task keeps the bytes.
LEMMA SameTasks ==
  ASSUME BytesInv, UNCHANGED <<setup, store, partial, holder>>,
         DOMAIN task' = DOMAIN task, Len(task') = Len(task),
         \A j \in DOMAIN task : task'[j].at = task[j].at /\ task'[j].hash = task[j].hash,
         \A t \in DOMAIN grants' : grants'[t].hash \in TempTags,
         \A s \in Streams : stream'[s].at \in {"granted", "requesting", "sending"} => stream'[s].hash \in TempTags
  PROVE  BytesInv'
<1>1. TempTags' \subseteq TempTags
  <2>1. \A j \in DOMAIN task' : task'[j].at = "imported" => task'[j].hash \in TempTags
    BY DEF TempTags
  <2> QED BY <2>1, TagsKeep
<1>2. Own' = Own /\ Fetched' = Fetched /\ (SolePartial' <=> SolePartial)
  BY DEF Own, Fetched, SolePartial
<1>3. StoreInv'
  BY <1>1, <1>2 DEF BytesInv, StoreInv
<1>4. ASSUME NEW j \in DOMAIN task PROVE Placed(j)'
  <2>1. Placed(j)
    BY DEF BytesInv, PlacesInv
  <2> QED BY <1>2, <2>1 DEF Placed
<1>5. PlacesInv'
  BY <1>4 DEF PlacesInv, BytesInv
<1> QED BY <1>3, <1>5 DEF BytesInv

\* The grants and streams that are there have their temporary tags.
LEMMA TagsThere ==
  /\ \A t \in DOMAIN grants : grants[t].hash \in TempTags
  /\ \A s \in Streams : stream[s].at \in {"granted", "requesting", "sending"} => stream[s].hash \in TempTags
  BY DEF TempTags, Reading

\* A stream reads what is granted.
LEMMA PutBytes ==
  ASSUME BytesInv, CardInv, Inv, UNCHANGED rest, NEW s \in Streams, NEW x, Put(s, x),
         x.at \in {"granted", "requesting", "sending"} => x.hash \in TempTags
  PROVE  BytesInv' /\ CardInv'
<1>1. UNCHANGED <<setup, revision, closed, grants, store, partial, task, holder>>
  BY DEF rest
<1>2. \A r \in Streams : stream'[r] = IF r = s THEN x ELSE stream[r]
  BY DEF Put, Inv, StreamsInv
<1>3. \A r \in Streams : stream'[r].at \in {"granted", "requesting", "sending"} => stream'[r].hash \in TempTags
  BY <1>2, TagsThere
<1>4. BytesInv'
  BY <1>1, <1>3, TagsThere, SameTasks
<1>5. CardInv'
  BY <1>1, CardKeeps DEF Inv, TasksInv, CardInv
<1> QED BY <1>4, <1>5

\* A step of a served stream tags only what its grant has tagged (serve).
LEMMA StreamBytes ==
  ASSUME BytesInv, CardInv, Inv, NEW s \in Streams,
         \/ \E t \in 1 .. Len(task) : Present(s, t)
         \/ Accept(s) \/ Admit(s) \/ Requested(s) \/ Send(s) \/ Changed(s) \/ TimedOut(s)
  PROVE  BytesInv' /\ CardInv'
<1>1. stream[s] = [f \in StreamFields |-> stream[s][f]]
  BY DEF Inv, StreamsInv, IsStream
<1>2. UNCHANGED rest
  BY DEF Present, Accept, Admit, Requested, Send, Changed, TimedOut
<1>3. ASSUME EndStream(s) PROVE BytesInv' /\ CardInv'
  <2> DEFINE x == [NoStream EXCEPT !.at = "ended"]
  <2>1. Put(s, x) /\ x.at = "ended"
    BY <1>3 DEF EndStream, NoStream
  <2> HIDE DEF x
  <2> QED BY <1>2, <2>1, PutBytes
<1>4. ASSUME NEW t, Present(s, t) PROVE BytesInv' /\ CardInv'
  <2> DEFINE x == [stream[s] EXCEPT !.at = "granted", !.token = t, !.hash = grants[t].hash,
                                    !.revision = grants[t].revision]
  <2>1. x.hash = grants[t].hash
    BY <1>1 DEF StreamFields
  <2>2. (t \in DOMAIN grants /\ Put(s, x)) \/ EndStream(s)
    BY <1>4 DEF Present
  <2> HIDE DEF x
  <2> QED BY <1>2, <1>3, <2>1, <2>2, TagsThere, PutBytes
<1>5. CASE Accept(s)
  <2> DEFINE x == [NoStream EXCEPT !.at = "opened", !.seen = generation]
  <2>1. (Put(s, x) \/ EndStream(s)) /\ x.at = "opened"
    BY <1>5 DEF Accept, NoStream
  <2> HIDE DEF x
  <2> QED BY <1>2, <1>3, <2>1, PutBytes
<1>6. CASE Admit(s)
  <2> DEFINE x == [stream[s] EXCEPT !.at = "requesting"]
  <2>1. (Put(s, x) \/ EndStream(s)) /\ x.hash = stream[s].hash /\ stream[s].at = "granted"
    BY <1>1, <1>6 DEF Admit, StreamFields
  <2> HIDE DEF x
  <2> QED BY <1>2, <1>3, <2>1, TagsThere, PutBytes
<1>7. CASE Requested(s)
  <2> DEFINE x == [stream[s] EXCEPT !.at = "sending"]
  <2>1. Put(s, x) /\ x.hash = stream[s].hash /\ stream[s].at = "requesting"
    BY <1>1, <1>7 DEF Requested, StreamFields
  <2> HIDE DEF x
  <2> QED BY <1>2, <2>1, TagsThere, PutBytes
<1>8. CASE Send(s)
  <2> DEFINE x == [stream[s] EXCEPT !.sent = stream[s].sent + 1]
  <2>1. (Put(s, x) \/ EndStream(s)) /\ x.hash = stream[s].hash /\ stream[s].at = "sending"
    BY <1>1, <1>8 DEF Send, StreamFields
  <2> HIDE DEF x
  <2> QED BY <1>2, <1>3, <2>1, TagsThere, PutBytes
<1>9. CASE Changed(s)
  <2> DEFINE x == [stream[s] EXCEPT !.seen = generation]
  <2>1. (Put(s, x) \/ EndStream(s)) /\ x.hash = stream[s].hash /\ stream[s].at = "sending"
    BY <1>1, <1>9 DEF Changed, StreamFields
  <2> HIDE DEF x
  <2> QED BY <1>2, <1>3, <2>1, TagsThere, PutBytes
<1>10. CASE TimedOut(s)
  BY <1>3, <1>10 DEF TimedOut
<1> QED BY <1>4, <1>5, <1>6, <1>7, <1>8, <1>9, <1>10

\* A new operation holds nothing yet; clear_partial takes the place of what it
\* gives up, and any other finds room on the list (Request).
LEMMA RequestBytes ==
  ASSUME BytesInv, CardInv, Inv, Request
  PROVE  BytesInv' /\ CardInv'
<1> DEFINE op == setup.ops[Len(task) + 1]
           base == IF op.kind = "clear" THEN GiveUp(Listed) ELSE task
           new == [at |-> op.kind, hash |-> op.hash, sized |-> op.sized, revision |-> revision,
                   mark |-> 0, listed |-> TRUE, abort |-> "no"]
<1>1. /\ task' = Append(base, new) /\ Len(task) < Len(setup.ops)
      /\ op.kind # "clear" => Cardinality(Listed) < MAX_JOBS
      /\ UNCHANGED <<setup, revision, closed, grants, stream, store, partial, holder>>
  BY DEF Request, policy, serving
<1>2. PICK n \in Nat : n = Len(task) /\ DOMAIN task = 1 .. n
  <2>1. PICK S : task \in Seq(S)
    BY DEF Inv, TasksInv, IsSeq
  <2> QED BY <2>1, SMTT(30)
<1>3. new.at = op.kind /\ new.hash = op.hash /\ new.listed = TRUE
  OBVIOUS
<1>4. (op.kind = "clear" => base = GiveUp(Listed)) /\ (op.kind # "clear" => base = task)
  OBVIOUS
<1> HIDE DEF base, new
<1>5. /\ IsSeq(base) /\ DOMAIN base = DOMAIN task /\ Len(base) = n
      /\ \A j \in DOMAIN task : base[j].at = task[j].at /\ base[j].hash = task[j].hash
      /\ op.kind = "clear" => \A j \in DOMAIN task : ~ base[j].listed
  <2>1. CASE op.kind = "clear"
    <3>1. \A j \in DOMAIN task : GiveUp(Listed)[j].listed => j \notin Listed /\ task[j].listed
      BY GivingUp
    <3>2. \A j \in DOMAIN task : ~ GiveUp(Listed)[j].listed
      BY <3>1 DEF Listed
    <3> QED BY <1>2, <1>4, <2>1, <3>2, GivingUp, SMTT(30)
  <2>2. CASE op.kind # "clear"
    BY <1>2, <1>4, <2>2 DEF Inv, TasksInv
  <2> QED BY <2>1, <2>2
<1>6. PICK S : base \in Seq(S)
  BY <1>5 DEF IsSeq
<1>7. /\ DOMAIN task' = 1 .. n + 1 /\ Len(task') = n + 1 /\ task'[n + 1] = new
      /\ \A j \in 1 .. n : task'[j] = base[j]
  BY <1>1, <1>2, <1>5, <1>6, SMTT(30)
<1>8. n + 1 \in DOMAIN setup.ops /\ n + 1 <= Len(setup.ops)
  <2>1. PICK ops : ops = setup.ops
    OBVIOUS
  <2>2. ops \in Seq([kind : Kinds, hash : Nat \ {0}, sized : BOOLEAN])
    BY <2>1, TransfersAssumption DEF BytesInv, StoreInv
  <2>3. DOMAIN ops = 1 .. Len(ops) /\ Len(ops) \in Nat
    BY <2>2, SMTT(30)
  <2> QED BY <1>1, <1>2, <2>1, <2>3, SMTT(30)
<1>9. op.kind \in Kinds
  BY <1>2, <1>8, FilesOfSetup DEF BytesInv
<1>10. op.kind \in Places(op.kind) /\ op.kind \notin Holding /\ op.kind \notin Tagged /\ op.kind \notin Sole
       /\ op.kind # "imported"
  BY <1>9 DEF Kinds, Places, Holding, Tagged, Sole, FetchPlaces
<1> HIDE DEF op
<1>11. TempTags' \subseteq TempTags
  <2>1. \A j \in DOMAIN task' : task'[j].at = "imported" =>
          j \in DOMAIN task /\ task[j].at = "imported" /\ task'[j].hash = task[j].hash
    BY <1>2, <1>3, <1>5, <1>7, <1>10, SMTT(30)
  <2>2. \A j \in DOMAIN task' : task'[j].at = "imported" => task'[j].hash \in TempTags
    BY <2>1 DEF TempTags
  <2> QED BY <1>1, <2>2, TagsThere, TagsKeep
<1>12. Own' = Own /\ Fetched' = Fetched /\ (SolePartial' <=> SolePartial)
  BY <1>1 DEF Own, Fetched, SolePartial
<1>13. StoreInv'
  <2>1. StoreInv
    BY DEF BytesInv
  <2>2. DOMAIN task \subseteq DOMAIN task'
    BY <1>2, <1>7, SMTT(30)
  <2>3. (holder \in DOMAIN task \cup {0})'
    BY <1>1, <2>1, <2>2 DEF StoreInv
  <2> QED BY <1>1, <1>11, <1>12, <2>1, <2>3 DEF StoreInv
<1>14. ASSUME NEW j \in DOMAIN task' PROVE Placed(j)'
  <2>1. CASE j \in DOMAIN task
    <3>1. Placed(j) /\ task'[j].at = task[j].at /\ task'[j].hash = task[j].hash
      BY <1>2, <1>5, <1>7, <2>1 DEF BytesInv, PlacesInv
    <3> QED BY <1>1, <1>12, <3>1 DEF Placed
  <2>2. CASE j = n + 1
    <3>1. holder # n + 1
      BY <1>2, SMTT(30) DEF BytesInv, StoreInv
    <3>2. task'[j].at = op.kind /\ task'[j].hash = op.hash /\ op = setup.ops[j]
      BY <1>2, <1>3, <1>7, <2>2 DEF op
    <3> QED BY <1>1, <1>8, <1>10, <2>2, <3>1, <3>2 DEF Placed
  <2> QED BY <1>2, <1>7, <2>1, <2>2, SMTT(30)
<1>15. PlacesInv'
  BY <1>1, <1>7, <1>8, <1>14 DEF PlacesInv
<1>16. Cardinality(Listed') <= MAX_JOBS
  <2>1. IsFiniteSet(Listed) /\ Cardinality(Listed) \in Nat
    BY TasksFinite DEF Inv, TasksInv, Listed
  <2>2. MAX_JOBS \in Nat \ {0}
    BY TransfersAssumption
  <2>3. CASE op.kind = "clear"
    <3>1. Listed' = {n + 1}
      BY <1>2, <1>3, <1>5, <1>7, <2>3, SMTT(30) DEF Listed
    <3>2. Cardinality(Listed') = 1
      BY <3>1, FS_Singleton
    <3> QED BY <2>2, <3>2, SMTT(30)
  <2>4. CASE op.kind # "clear"
    <3>1. Listed' = Listed \cup {n + 1} /\ n + 1 \notin Listed
      BY <1>2, <1>3, <1>4, <1>7, <2>4, SMTT(30) DEF Listed
    <3>2. Cardinality(Listed \cup {n + 1}) = Cardinality(Listed) + 1
      BY <2>1, <3>1, FS_AddElement
    <3> QED BY <1>1, <2>1, <2>2, <2>4, <3>1, <3>2, SMTT(30)
  <2> QED BY <2>3, <2>4
<1>17. CardInv'
  BY <1>1, <1>2, <1>7, <1>16, SMTT(30) DEF CardInv
<1> QED BY <1>13, <1>15, <1>17 DEF BytesInv

\* The store and the grants are a function and records.
ShapeInv ==
  /\ store = [h \in DOMAIN store |-> store[h]]
  /\ \A t \in DOMAIN grants : "hash" \in DOMAIN grants[t]

\* Every step keeps these shapes.
LEMMA NextShape == ShapeInv /\ [Next]_vars => ShapeInv'
<1> SUFFICES ASSUME ShapeInv, [Next]_vars PROVE ShapeInv'
  OBVIOUS
<1>1. store' = [h \in DOMAIN store' |-> store'[h]]
  <2>1. \/ store' = store \/ collect
        \/ \E h, v : store' = [store EXCEPT ![h] = v]
    BY DEF Next, vars, Request, Revoke, InstallPolicy, policy_changed, stop, Expire, PrepareStep, Begin, Import, Grant,
           Prepared, FetchStep, Lock, Tag, CollectOthers, Connect, Open, LoadChanged, LoadFails, Export, Untag,
           Finish, Load, Poll, Cancel, Drop, Present, Accept, Admit, Requested, Send, Changed, TimedOut, rest
  <2> QED BY <2>1 DEF ShapeInv, collect
<1>2. ASSUME NEW t \in DOMAIN grants' PROVE "hash" \in DOMAIN grants'[t]
  <2>1. CASE t \in DOMAIN grants /\ grants'[t] = grants[t]
    BY <2>1 DEF ShapeInv
  <2>2. CASE \E x, v : grants' = [grants EXCEPT ![x].expired = v]
    BY <2>2 DEF ShapeInv
  <2>3. CASE \E h, r, e : grants'[t] = [hash |-> h, revision |-> r, expired |-> e]
    BY <2>3, SMTT(30)
  <2>4. \/ grants' = grants \/ (\E x \in DOMAIN grants : Expire(x)) \/ (\E i \in DOMAIN task : Grant(i))
        \/ \E hashes : revoke(hashes)
    BY DEF Next, vars, Request, Revoke, InstallPolicy, policy_changed, stop, PrepareStep, Begin, Import,
           Prepared, FetchStep, Lock, Tag, CollectOthers, Connect, Open, LoadChanged, LoadFails, Export, Untag,
           Finish, Load, Poll, Cancel, Drop, Present, Accept, Admit, Requested, Send, Changed, TimedOut, rest, serving
  <2>5. ASSUME NEW i \in DOMAIN task, Grant(i)
        PROVE  \/ t \in DOMAIN grants /\ grants'[t] = grants[t]
               \/ \E h, r, e : grants'[t] = [hash |-> h, revision |-> r, expired |-> e]
    <3>1. Kept \subseteq DOMAIN grants
      BY DEF Kept
    <3>2. \/ grants' = grants \/ grants' = [x \in Kept |-> grants[x]]
          \/ grants' = [x \in Kept \cup {i} |->
                          IF x = i THEN [hash |-> task[i].hash, revision |-> task[i].revision, expired |-> FALSE]
                                   ELSE grants[x]]
      BY <2>5 DEF Grant
    <3> QED BY <3>1, <3>2, SMTT(30)
  <2>6. ASSUME NEW hashes, revoke(hashes) PROVE t \in DOMAIN grants /\ grants'[t] = grants[t]
    BY <2>6 DEF revoke
  <2>7. ASSUME NEW x, Expire(x) PROVE \E v : grants' = [grants EXCEPT ![x].expired = v]
    BY <2>7 DEF Expire
  <2> QED BY <2>1, <2>2, <2>3, <2>4, <2>5, <2>6, <2>7
<1> QED BY <1>1, <1>2 DEF ShapeInv

\* Taking an operation off the list, giving it up, withdrawing grants, a new
\* policy and stopping move no task and tag nothing.
LEMMA SessionBytes ==
  ASSUME BytesInv, CardInv, Inv, ShapeInv,
         \/ \E i \in DOMAIN task : Poll(i) \/ Cancel(i)
         \/ \E t \in DOMAIN grants : Expire(t)
         \/ Revoke \/ InstallPolicy \/ policy_changed \/ stop
         \/ UNCHANGED vars
  PROVE  BytesInv' /\ CardInv'
<1>1. UNCHANGED <<setup, store, partial, holder, stream>>
  BY DEF Poll, Cancel, Expire, Revoke, InstallPolicy, policy_changed, stop, vars, policy, serving
<1>2. /\ DOMAIN task' = DOMAIN task /\ Len(task') = Len(task)
      /\ \A j \in DOMAIN task : /\ task'[j].at = task[j].at /\ task'[j].hash = task[j].hash
                                /\ task'[j].listed => task[j].listed
  <2>1. CASE task' = task
    BY <2>1
  <2>2. ASSUME NEW is, task' = GiveUp(is)
        PROVE  /\ DOMAIN task' = DOMAIN task /\ Len(task') = Len(task)
               /\ \A j \in DOMAIN task : /\ task'[j].at = task[j].at /\ task'[j].hash = task[j].hash
                                         /\ task'[j].listed => task[j].listed
    BY <2>2, GivingUp, SMTT(30)
  <2>3. ASSUME NEW i \in DOMAIN task, Poll(i)
        PROVE  /\ DOMAIN task' = DOMAIN task /\ Len(task') = Len(task)
               /\ \A j \in DOMAIN task : /\ task'[j].at = task[j].at /\ task'[j].hash = task[j].hash
                                         /\ task'[j].listed => task[j].listed
    <3> DEFINE k == [task[i] EXCEPT !.listed = FALSE]
    <3>1. task' = [task EXCEPT ![i] = k]
      BY <2>3 DEF Poll
    <3>2. k.at = task[i].at /\ k.hash = task[i].hash /\ k.listed = FALSE
      <4>1. task[i] = [f \in TaskFields |-> task[i][f]]
        BY DEF Inv, TasksInv, IsTask
      <4> QED BY <4>1 DEF TaskFields
    <3> HIDE DEF k
    <3>3. PICK S : task \in Seq(S)
      BY DEF Inv, TasksInv, IsSeq
    <3>4. DOMAIN task' = DOMAIN task /\ task'[i] = k /\ \A j \in DOMAIN task : j # i => task'[j] = task[j]
      BY <3>1, <3>3
    <3>5. Len(task') = Len(task)
      BY <3>1, <3>3, SMTT(30)
    <3> QED BY <3>2, <3>4, <3>5
  <2>4. task' = task \/ (\E is : task' = GiveUp(is)) \/ \E i \in DOMAIN task : Poll(i)
    BY DEF Cancel, Expire, Revoke, InstallPolicy, policy_changed, stop, vars
  <2> QED BY <2>1, <2>2, <2>3, <2>4
<1>3. DOMAIN grants' \subseteq DOMAIN grants /\ \A t \in DOMAIN grants' : grants'[t].hash = grants[t].hash
  <2>1. CASE grants' = grants
    BY <2>1
  <2>2. ASSUME NEW hashes, revoke(hashes)
        PROVE  DOMAIN grants' \subseteq DOMAIN grants /\ \A t \in DOMAIN grants' : grants'[t].hash = grants[t].hash
    BY <2>2 DEF revoke
  <2>3. ASSUME NEW x \in DOMAIN grants, Expire(x)
        PROVE  DOMAIN grants' \subseteq DOMAIN grants /\ \A t \in DOMAIN grants' : grants'[t].hash = grants[t].hash
    <3>1. DOMAIN grants' = DOMAIN grants /\ \A t \in DOMAIN grants : t # x => grants'[t] = grants[t]
      BY <2>3 DEF Expire
    <3>2. grants'[x] = [grants[x] EXCEPT !.expired = TRUE] /\ "hash" \in DOMAIN grants[x]
      BY <2>3 DEF Expire, ShapeInv
    <3>3. grants'[x].hash = grants[x].hash
      BY <3>2
    <3> QED BY <3>1, <3>3
  <2>4. grants' = grants \/ (\E hashes : revoke(hashes)) \/ \E t \in DOMAIN grants : Expire(t)
    BY DEF Poll, Cancel, Revoke, InstallPolicy, policy_changed, stop, vars, serving
  <2> QED BY <2>1, <2>2, <2>3, <2>4
<1>4. BytesInv'
  <2>1. /\ \A t \in DOMAIN grants' : grants'[t].hash \in TempTags
        /\ \A s \in Streams : stream'[s].at \in {"granted", "requesting", "sending"} => stream'[s].hash \in TempTags
    BY <1>1, <1>3, TagsThere
  <2> QED BY <1>1, <1>2, <2>1, SameTasks
<1>5. revision' \in 1 .. setup.revisions
  <2>1. revision' = revision \/ (revision' = revision + 1 /\ revision < setup.revisions)
    BY DEF Poll, Cancel, Expire, Revoke, InstallPolicy, policy_changed, stop, vars, policy
  <2>2. PICK n \in Nat : n = setup.revisions
    BY TransfersAssumption DEF BytesInv, StoreInv
  <2> QED BY <2>1, <2>2, SMTT(30) DEF CardInv
<1>6. closed' = closed \/ closed' = TRUE
  BY DEF Poll, Cancel, Expire, Revoke, InstallPolicy, policy_changed, stop, vars, policy
<1>7. CardInv'
  BY <1>1, <1>2, <1>3, <1>5, <1>6, CardKeeps DEF Inv, TasksInv
<1> QED BY <1>4, <1>7

\* At the start nothing is stored.
LEMMA InitBytes == Init => BytesInv /\ CardInv /\ ShapeInv
<1> SUFFICES ASSUME Init PROVE BytesInv /\ CardInv /\ ShapeInv
  OBVIOUS
<1>1. PICK ops : ops = setup.ops
  OBVIOUS
<1>2. Range(ops) = {ops[i] : i \in DOMAIN ops}
  BY DEF Range
<1>3. /\ DOMAIN store = {ops[i].hash : i \in DOMAIN ops} /\ \A h \in DOMAIN store : store[h] = 0
  BY <1>1, <1>2, SMTT(30) DEF Init
<1>4. task = <<>> /\ DOMAIN task = {} /\ Len(task) = 0
  BY SMTT(30) DEF Init
<1>5. DOMAIN grants = {} /\ \A s \in Streams : stream[s].at = "none"
  BY DEF Init, NoStream
<1>6. TempTags = {}
  BY <1>4, <1>5 DEF TempTags, Reading
<1>7. Size \in Nat /\ MAX_JOBS \in Nat /\ MAX_GRANTS \in Nat
  BY TransfersAssumption
<1>8. StoreInv
  <2>1. Fetched \subseteq DOMAIN store
    BY <1>1, <1>3 DEF Fetched, HashesOf
  <2>2. \A f \in Fetched : store[f] # 0 => f = 0
    BY <1>3, <2>1
  <2>3. \E h : \A f \in Fetched : store[f] # 0 => f = h
    BY <2>2
  <2>4. partial = 0 /\ holder = 0 /\ setup \in Cases
    BY DEF Init
  <2>5. DOMAIN store = {setup.ops[i].hash : i \in DOMAIN setup.ops}
    BY <1>1, <1>3
  <2>6. \A h \in DOMAIN store : store[h] \in 0 .. Size
    BY <1>3, <1>7, SMTT(30)
  <2> QED BY <1>6, <2>3, <2>4, <2>5, <2>6 DEF StoreInv
<1>9. PlacesInv
  <2>1. Len(setup.ops) \in Nat
    <3>1. ops \in Seq([kind : Kinds, hash : Nat \ {0}, sized : BOOLEAN])
      BY <1>1, TransfersAssumption DEF Init
    <3> QED BY <1>1, <3>1, SMTT(30)
  <2> QED BY <1>4, <2>1, SMTT(30) DEF PlacesInv
<1>10. CardInv
  <2>1. Listed = {} /\ Cardinality({}) = 0
    BY <1>4, FS_EmptySet DEF Listed
  <2>2. revision \in 1 .. setup.revisions
    BY TransfersAssumption, SMTT(30) DEF Init
  <2>3. closed \in BOOLEAN
    BY DEF Init
  <2> QED BY <1>4, <1>5, <1>7, <2>1, <2>2, <2>3, SMTT(30) DEF CardInv
<1>11. ShapeInv
  BY <1>5 DEF ShapeInv, Init
<1> QED BY <1>8, <1>9, <1>10, <1>11 DEF BytesInv

\* Every step keeps the bytes and the bounds.
LEMMA NextBytes == Inv /\ BytesInv /\ CardInv /\ ShapeInv /\ [Next]_vars => BytesInv' /\ CardInv'
<1> SUFFICES ASSUME Inv, BytesInv, CardInv, ShapeInv, [Next]_vars PROVE BytesInv' /\ CardInv'
  OBVIOUS
<1>1. IsSeq(task) /\ TasksInv
  BY DEF Inv, TasksInv
<1>2. CASE Request
  BY <1>2, RequestBytes
<1>3. ASSUME NEW i \in DOMAIN task, PrepareStep(i) PROVE BytesInv' /\ CardInv'
  BY <1>1, <1>3, PrepareBytes, TaskCard
<1>4. ASSUME NEW i \in DOMAIN task, FetchStep(i) \/ Load(i) PROVE BytesInv' /\ CardInv'
  BY <1>1, <1>4, FetchBytes, TaskCard
<1>5. ASSUME NEW i \in DOMAIN task, Drop(i) PROVE BytesInv' /\ CardInv'
  <2>1. Ends(i, "aborted") /\ UNCHANGED <<setup, store, partial, stream, grants>>
    BY <1>5 DEF Drop, policy, serving
  <2>2. BytesInv' /\ Moved(i, "aborted")
    BY <1>1, <2>1, PlainEnd
  <2> QED BY <1>1, <1>5, <2>2, TaskCard
<1>6. ASSUME NEW s \in Streams,
             \/ \E t \in 1 .. Len(task) : task[t].at = "ok" /\ Present(s, t)
             \/ Accept(s) \/ Admit(s) \/ Requested(s) \/ Send(s) \/ Changed(s) \/ TimedOut(s)
      PROVE  BytesInv' /\ CardInv'
  BY <1>6, StreamBytes
<1>7. CASE \/ \E i \in DOMAIN task : Poll(i) \/ Cancel(i)
           \/ \E t \in DOMAIN grants : Expire(t)
           \/ Revoke \/ InstallPolicy \/ policy_changed \/ stop
           \/ UNCHANGED vars
  BY <1>7, SessionBytes
<1> QED BY <1>2, <1>3, <1>4, <1>5, <1>6, <1>7 DEF Next

\* Of the files that were fetched at most one has bytes in the store.
LEMMA OnePartial ==
  ASSUME StoreInv
  PROVE  Cardinality({op.hash : op \in {x \in Range(setup.ops) : x.kind = "fetch" /\ store[x.hash] # 0}}) <= 1
<1>1. PICK h : \A f \in Fetched : store[f] # 0 => f = h
  BY DEF StoreInv
<1>2. PICK ops : ops = setup.ops
  OBVIOUS
<1> DEFINE partials == {op.hash : op \in {x \in Range(setup.ops) : x.kind = "fetch" /\ store[x.hash] # 0}}
<1>3. partials \subseteq {h}
  <2>1. ASSUME NEW i \in DOMAIN ops, ops[i].kind = "fetch", store[ops[i].hash] # 0 PROVE ops[i].hash = h
    <3>1. ops[i].hash \in Fetched
      BY <1>2, <2>1 DEF Fetched, HashesOf
    <3> QED BY <1>1, <2>1, <3>1
  <2> QED BY <1>2, <2>1 DEF Range
<1> HIDE DEF partials
<1>4. IsFiniteSet({h}) /\ Cardinality({h}) = 1
  BY FS_Singleton
<1>5. Cardinality(partials) <= 1
  BY <1>3, <1>4, FS_Subset
<1> QED BY <1>5 DEF partials

\* In every scenario, for any number of operations, streams, grants and
\* chunks: a collection takes nothing away that is being served or downloaded,
\* at most one fetched file stays behind in part, and the table of grants and
\* the list of operations keep their bounds (prepare, fetch, clear_partial,
\* serve).
THEOREM TransfersAlwaysKeepTheirBytes == Spec => []TransfersKeepTheirBytes
<1>1. Inv /\ BytesInv /\ CardInv /\ ShapeInv => TransfersKeepTheirBytes
  <2> SUFFICES ASSUME Inv, BytesInv, CardInv, ShapeInv PROVE TransfersKeepTheirBytes
    OBVIOUS
  <2>1. StoreInv /\ \A i \in DOMAIN task : Placed(i)
    BY DEF BytesInv, PlacesInv
  <2>2. store \in [Hashes -> 0 .. Size]
    <3>1. store = [h \in DOMAIN store |-> store[h]]
      BY DEF ShapeInv
    <3> QED BY <2>1, <3>1 DEF StoreInv, Hashes
  <2>3. holder # 0 => ~ Ended(holder)
    <3>1. holder # 0 => task[holder].at \in Holding
      BY <2>1 DEF StoreInv, Placed
    <3> QED BY <3>1 DEF Ended, Holding, FetchPlaces
  <2>4. TypeOK
    BY <2>1, <2>2, <2>3 DEF TypeOK, StoreInv, Hashes, CardInv, Inv
  <2>5. \A s \in Streams : stream[s].at = "sending" => store[stream[s].hash] = Size
    BY <2>1, TagsThere DEF StoreInv
  <2>6. \A i \in DOMAIN task : task[i].at \in {"connecting", "loading", "whole"} => partial = task[i].hash
    <3>1. {"connecting", "loading", "whole"} \subseteq Tagged
      BY DEF Tagged, Holding, FetchPlaces
    <3> QED BY <2>1, <3>1 DEF Placed
  <2> QED BY <2>1, <2>4, <2>5, <2>6, OnePartial DEF TransfersKeepTheirBytes
<1> QED BY InitInv, NextInv, InitBytes, NextBytes, NextShape, <1>1, PTL DEF Spec

=============================================================================
