------------------------- MODULE ResourceTransfers -------------------------
(***************************************************************************)
(* Transfers of immutable files (arachne-node/src/resources.rs) and the    *)
(* host operations on them (arachne-runtime/src/resources.rs), at one      *)
(* node: it grants members the reading of its files and serves them, and   *)
(* downloads files of other members.                                       *)
(*                                                                         *)
(* Host operations run as tasks beside the session and the served streams; *)
(* a step here is what a task does between two awaits.  A task that the    *)
(* host gave up may complete the step it is in.  What other members do     *)
(* with a stream (send a token, read on, stall, close) is up to them.      *)
(*                                                                         *)
(* A file is a number of chunks under its hash.  The store keeps what a    *)
(* tag names: the one tag `partial' of downloads, and the temporary tags   *)
(* that preparations, grants and served streams hold.                      *)
(***************************************************************************)
EXTENDS Integers, FiniteSets, Sequences, Functions

CONSTANTS
  Cases,        \* the scenarios: [ops, streams, changes, revisions, expire, cancel, stops]
  Streams,      \* incoming streams
  Tasks,        \* 1 .. the most operations of a scenario
  Size,         \* chunks of a file
  MAX_JOBS,     \* 8
  MAX_GRANTS,   \* 64
  MAX_SERVING   \* 4

Kinds == {"prepare", "fetch", "clear"}
HashesOf(ops, kind) == {ops[i].hash : i \in {j \in DOMAIN ops : ops[j].kind = kind}}

\* What a node fetches is not what it shares.
ASSUME TransfersAssumption ==
  /\ Size \in Nat \ {0} /\ MAX_JOBS \in Nat \ {0} /\ MAX_GRANTS \in Nat
  /\ \A case \in Cases :
       /\ case.ops \in Seq([kind : Kinds, hash : Nat \ {0}, sized : BOOLEAN])
       /\ HashesOf(case.ops, "prepare") \cap HashesOf(case.ops, "fetch") = {}
       /\ case.revisions \in Nat \ {0}

VARIABLES
  setup,        \* the scenario
  revision,     \* of the routing policy
  announced,    \* whether policy_changed followed the last policy
  generation,   \* value of the watch channel `changed'
  closed,
  grants,       \* of the tokens
  stream,       \* of every incoming stream, what serve has got to
  store,        \* chunks held, by hash
  partial,      \* the hash the tag names, or 0
  task,         \* the host operations, in the order they were requested
  holder        \* the task that holds `downloading', or 0

vars == <<setup, revision, announced, generation, closed, grants, stream, store, partial, task, holder>>

Hashes == DOMAIN store
NoStream == [at |-> "none", token |-> 0, revision |-> 0, hash |-> 0, seen |-> 0, sent |-> 0]

Init ==
  /\ setup \in Cases
  /\ revision = 1 /\ announced = TRUE /\ generation = 0 /\ closed = FALSE
  /\ grants = [t \in {} |-> 0]
  /\ stream = [s \in Streams |-> NoStream]
  /\ store = [h \in {op.hash : op \in Range(setup.ops)} |-> 0] /\ partial = 0
  /\ task = <<>> /\ holder = 0

authorize(r) == ~ closed /\ r = revision

-----------------------------------------------------------------------------
\* The garbage collection of the store keeps what a tag or a temporary tag names.
Reading(s) == stream[s].at \in {"granted", "requesting", "sending"}
TempTags ==
  {grants[t].hash : t \in DOMAIN grants} \cup {stream[s].hash : s \in {x \in Streams : Reading(x)}}
  \cup {task[i].hash : i \in {j \in DOMAIN task : task[j].at = "imported"}}
\* Mutant of collect: only the grants of the table hold a temporary tag.
collectGranted ==
  store' = [h \in Hashes |-> IF h \in {grants[t].hash : t \in DOMAIN grants} \cup {partial} THEN store[h] ELSE 0]
collect == store' = [h \in Hashes |-> IF h \in TempTags \cup {partial} THEN store[h] ELSE 0]

\* A task goes on, or ends and gives back the download lock.  One that was
\* given up goes no further than the end of the step it is in.
Runs(i, at) == task[i].at = at /\ task[i].abort # "now"
Goes(i, next) ==
  task' = [task EXCEPT ![i] = [next EXCEPT !.abort = IF @ = "asked" THEN "now" ELSE @]]
Ends(i, result) ==
  /\ task' = [task EXCEPT ![i] = [@ EXCEPT !.at = result, !.mark = 0, !.revision = 0, !.abort = "no"]]
  /\ holder' = IF holder = i THEN 0 ELSE holder
Ended(i) == task[i].at \in {"ok", "failed", "aborted"}

serving == <<grants, stream>>
policy == <<setup, revision, announced, generation, closed>>

-----------------------------------------------------------------------------
\* prepare: read the generation, check, import the file, check again and grant.
Begin(i) ==
  /\ Runs(i, "prepare")
  /\ Goes(i, [task[i] EXCEPT !.at = "entered", !.mark = generation])
  /\ UNCHANGED <<policy, serving, store, partial, holder>>

Import(i) ==
  /\ Runs(i, "entered")
  /\ IF authorize(task[i].revision)
     THEN /\ store' = [store EXCEPT ![task[i].hash] = Size]
          /\ Goes(i, [task[i] EXCEPT !.at = "imported"]) /\ UNCHANGED holder
     ELSE Ends(i, "failed") /\ UNCHANGED store
  /\ UNCHANGED <<policy, serving, partial>>

\* What prepare keeps of the table: grants in use outlive their expiry.
InUse(t) == \E s \in Streams : Reading(s) /\ stream[s].token = t
Kept == {t \in DOMAIN grants : ~ grants[t].expired \/ InUse(t)}

Grant(i) ==
  LET kept == [t \in Kept |-> grants[t]]
  IN  /\ Runs(i, "imported")
      /\ IF ~ authorize(task[i].revision) \/ task[i].mark # generation
         THEN Ends(i, "failed") /\ UNCHANGED grants
         ELSE IF Cardinality(Kept) >= MAX_GRANTS
         THEN Ends(i, "failed") /\ grants' = kept
         ELSE /\ grants' = [t \in Kept \cup {i} |->
                    IF t = i THEN [hash |-> task[i].hash, revision |-> task[i].revision, expired |-> FALSE]
                             ELSE grants[t]]
              /\ Goes(i, [task[i] EXCEPT !.at = "inserted"]) /\ UNCHANGED holder
      /\ UNCHANGED <<policy, stream, store, partial>>

Prepared(i) ==
  /\ Runs(i, "inserted") /\ collect /\ Ends(i, "ok")
  /\ UNCHANGED <<policy, serving, partial>>

Expire(t) ==
  /\ setup.expire /\ ~ grants[t].expired
  /\ grants' = [grants EXCEPT ![t].expired = TRUE]
  /\ UNCHANGED <<policy, stream, store, partial, task, holder>>

-----------------------------------------------------------------------------
\* fetch: one download at a time, which makes its file the partial one.
Lock(i) ==
  /\ Runs(i, "fetch")
  /\ IF holder = 0 THEN holder' = i /\ Goes(i, [task[i] EXCEPT !.at = "locked"]) ELSE Ends(i, "failed")
  /\ UNCHANGED <<policy, serving, store, partial>>

Tag(i) ==
  /\ Runs(i, "locked")
  /\ IF authorize(task[i].revision)
     THEN partial' = task[i].hash /\ Goes(i, [task[i] EXCEPT !.at = "tagged"]) /\ UNCHANGED holder
     ELSE Ends(i, "failed") /\ UNCHANGED partial
  /\ UNCHANGED <<policy, serving, store>>

CollectOthers(i) ==
  /\ Runs(i, "tagged") /\ collect /\ Goes(i, [task[i] EXCEPT !.at = "collected"])
  /\ UNCHANGED <<policy, serving, partial, holder>>

\* What is not complete is asked for; the change signal is taken before that.
Connect(i) ==
  /\ Runs(i, "collected")
  /\ Goes(i, [task[i] EXCEPT !.at = IF store[task[i].hash] = Size THEN "whole" ELSE "connecting",
                             !.mark = generation])
  /\ UNCHANGED <<policy, serving, store, partial, holder>>

\* The peer cannot be reached, or gets the token.
Open(i) ==
  /\ Runs(i, "connecting")
  /\ \/ authorize(task[i].revision) /\ Goes(i, [task[i] EXCEPT !.at = "loading"]) /\ UNCHANGED holder
     \/ Ends(i, "failed")
  /\ UNCHANGED <<policy, serving, store, partial>>

\* SizedReader refuses a file that is not of the announced size.
Load(i) ==
  /\ Runs(i, "loading") /\ task[i].sized /\ store[task[i].hash] < Size
  /\ store' = [store EXCEPT ![task[i].hash] = @ + 1]
  /\ Goes(i, [task[i] EXCEPT !.at = IF store[task[i].hash] + 1 = Size THEN "whole" ELSE @])
  /\ UNCHANGED <<policy, serving, partial, holder>>

\* Error, end of stream, or no progress within IDLE_TIMEOUT.
LoadFails(i) ==
  /\ Runs(i, "loading") /\ Ends(i, "failed")
  /\ UNCHANGED <<policy, serving, store, partial>>

LoadChanged(i) ==
  /\ Runs(i, "loading") /\ task[i].mark # generation
  /\ IF authorize(task[i].revision)
     THEN Goes(i, [task[i] EXCEPT !.mark = generation]) /\ UNCHANGED holder
     ELSE Ends(i, "failed")
  /\ UNCHANGED <<policy, serving, store, partial>>

Export(i) ==
  /\ Runs(i, "whole")
  /\ IF authorize(task[i].revision) /\ task[i].sized
     THEN Goes(i, [task[i] EXCEPT !.at = "exported"]) /\ UNCHANGED holder
     ELSE Ends(i, "failed")
  /\ UNCHANGED <<policy, serving, store, partial>>

\* The tag goes, then what it kept; clear_partial does the same under the lock.
Untag(i) ==
  /\ \/ Runs(i, "exported") /\ UNCHANGED holder
     \/ Runs(i, "clear") /\ holder = 0 /\ holder' = i
  /\ partial' = 0 /\ Goes(i, [task[i] EXCEPT !.at = "untagged"])
  /\ UNCHANGED <<policy, serving, store>>

Finish(i) ==
  /\ Runs(i, "untagged") /\ collect /\ Ends(i, "ok")
  /\ UNCHANGED <<policy, serving, partial>>

-----------------------------------------------------------------------------
\* The session.  Giving up an operation takes it off the list and aborts it.
GiveUp(is) ==
  [i \in DOMAIN task |-> IF i \in is THEN [task[i] EXCEPT !.listed = FALSE,
                                             !.abort = IF Ended(i) \/ @ = "now" THEN @ ELSE "asked"]
                                     ELSE task[i]]
Listed == {i \in DOMAIN task : task[i].listed}

Request ==
  /\ Len(task) < Len(setup.ops) /\ ~ closed
  /\ LET op == setup.ops[Len(task) + 1]
         rest == IF op.kind = "clear" THEN GiveUp(Listed) ELSE task
     IN  /\ op.kind # "clear" => Cardinality(Listed) < MAX_JOBS
         /\ task' = Append(rest, [at |-> op.kind, hash |-> op.hash, sized |-> op.sized, revision |-> revision,
                                  mark |-> 0, listed |-> TRUE, abort |-> "no"])
  /\ UNCHANGED <<policy, serving, store, partial, holder>>

Poll(i) ==
  /\ task[i].listed /\ Ended(i)
  /\ task' = [task EXCEPT ![i].listed = FALSE]
  /\ UNCHANGED <<policy, serving, store, partial, holder>>

Cancel(i) ==
  /\ setup.cancel /\ task[i].listed /\ task' = GiveUp({i})
  /\ UNCHANGED <<policy, serving, store, partial, holder>>

\* The runtime drops an aborted task, and the lock with it.
Drop(i) ==
  /\ task[i].abort # "no" /\ ~ Ended(i)
  /\ Ends(i, "aborted")
  /\ UNCHANGED <<policy, serving, store, partial>>

\* revoke, of one file or of all, and the signal, under the lock of the table.
\* Mutant of revoke: the running streams are not told.
revokeQuietly(hashes) ==
  /\ generation < setup.changes
  /\ grants' = [t \in {x \in DOMAIN grants : grants[x].hash \notin hashes} |-> grants[t]]
  /\ UNCHANGED generation
revoke(hashes) ==
  /\ generation < setup.changes
  /\ grants' = [t \in {x \in DOMAIN grants : grants[x].hash \notin hashes} |-> grants[t]]
  /\ generation' = generation + 1

Revoke ==
  /\ ~ closed /\ \E hashes \in {{h} : h \in Hashes} \cup {Hashes} : revoke(hashes)
  /\ UNCHANGED <<setup, revision, announced, closed, stream, store, partial, task, holder>>

\* A policy is installed, and then announced.
InstallPolicy ==
  /\ announced /\ revision < setup.revisions /\ ~ closed
  /\ revision' = revision + 1 /\ announced' = FALSE
  /\ UNCHANGED <<setup, generation, closed, grants, stream, store, partial, task, holder>>
policy_changed ==
  /\ ~ announced /\ announced' = TRUE /\ generation' = generation + 1
  /\ UNCHANGED <<setup, revision, closed, grants, stream, store, partial, task, holder>>

stop ==
  /\ setup.stops /\ ~ closed /\ announced /\ closed' = TRUE
  /\ revoke(Hashes) /\ task' = GiveUp(Listed)
  /\ UNCHANGED <<setup, revision, announced, stream, store, partial, holder>>

-----------------------------------------------------------------------------
\* serve: a slot, the signal, the token, the request, then the chunks.
Put(s, next) == stream' = [stream EXCEPT ![s] = next]
EndStream(s) == Put(s, [NoStream EXCEPT !.at = "ended"])
rest == <<setup, revision, announced, generation, closed, grants, store, partial, task, holder>>

Accept(s) ==
  /\ stream[s].at = "none" /\ s \in setup.streams
  /\ IF Cardinality({x \in Streams : stream[x].at \notin {"none", "ended"}}) < MAX_SERVING
     THEN Put(s, [NoStream EXCEPT !.at = "opened", !.seen = generation])
     ELSE EndStream(s)
  /\ UNCHANGED rest

\* A token that was granted at some time, maybe withdrawn or expired since.
Present(s, t) ==
  /\ stream[s].at = "opened"
  /\ IF t \in DOMAIN grants /\ ~ grants[t].expired
     THEN Put(s, [stream[s] EXCEPT !.at = "granted", !.token = t, !.hash = grants[t].hash,
                                   !.revision = grants[t].revision])
     ELSE EndStream(s)
  /\ UNCHANGED rest

admitted(s) == authorize(stream[s].revision) /\ stream[s].token \in DOMAIN grants

Admit(s) ==
  /\ stream[s].at = "granted"
  /\ IF admitted(s) THEN Put(s, [stream[s] EXCEPT !.at = "requesting"]) ELSE EndStream(s)
  /\ UNCHANGED rest

\* The request for the granted file; any other is refused, as TimedOut ends one.
Requested(s) ==
  /\ stream[s].at = "requesting"
  /\ Put(s, [stream[s] EXCEPT !.at = "sending"])
  /\ UNCHANGED rest

Send(s) ==
  /\ stream[s].at = "sending"
  /\ IF stream[s].sent < Size THEN Put(s, [stream[s] EXCEPT !.sent = @ + 1]) ELSE EndStream(s)
  /\ UNCHANGED rest

Changed(s) ==
  /\ stream[s].at = "sending" /\ stream[s].seen # generation
  /\ IF admitted(s) THEN Put(s, [stream[s] EXCEPT !.seen = generation]) ELSE EndStream(s)
  /\ UNCHANGED rest

\* The peer closes, or keeps the stream waiting too long for its token, its
\* request or its reading.
\* Mutant of TimedOut: a peer that stops reading keeps its stream.
TimedOutBeforeSending(s) ==
  /\ stream[s].at \in {"opened", "requesting"} /\ EndStream(s)
  /\ UNCHANGED rest
TimedOut(s) ==
  /\ stream[s].at \in {"opened", "requesting", "sending"} /\ EndStream(s)
  /\ UNCHANGED rest

-----------------------------------------------------------------------------
PrepareStep(i) == Begin(i) \/ Import(i) \/ Grant(i) \/ Prepared(i)
FetchStep(i) ==
  \/ Lock(i) \/ Tag(i) \/ CollectOthers(i) \/ Connect(i) \/ Open(i)
  \/ LoadChanged(i) \/ LoadFails(i) \/ Export(i) \/ Untag(i) \/ Finish(i)

Next ==
  \/ Request \/ Revoke \/ InstallPolicy \/ policy_changed \/ stop
  \/ \E t \in DOMAIN grants : Expire(t)
  \/ \E i \in DOMAIN task : PrepareStep(i) \/ FetchStep(i) \/ Load(i) \/ Poll(i) \/ Cancel(i) \/ Drop(i)
  \/ \E s \in Streams :
       \/ \E t \in 1 .. Len(task) : task[t].at = "ok" /\ Present(s, t)
       \/ Accept(s) \/ Admit(s) \/ Requested(s) \/ Send(s) \/ Changed(s) \/ TimedOut(s)

\* Tasks that can run do, and timers fire.  Nothing is assumed of the peers
\* but that their transport grants a stream (open_bi has no timeout): they may
\* never send, read or answer.
Fairness ==
  /\ WF_vars(policy_changed)
  /\ \A i \in Tasks :
       WF_vars(i \in DOMAIN task /\ (PrepareStep(i) \/ FetchStep(i) \/ Drop(i)))
  /\ \A s \in Streams : WF_vars(Admit(s)) /\ WF_vars(TimedOut(s))

Spec == Init /\ [][Next]_vars /\ Fairness

-----------------------------------------------------------------------------
TypeOK ==
  /\ setup \in Cases /\ revision \in 1 .. setup.revisions /\ generation \in Nat
  /\ announced \in BOOLEAN /\ closed \in BOOLEAN
  /\ DOMAIN grants \subseteq DOMAIN task /\ Cardinality(DOMAIN grants) <= MAX_GRANTS
  /\ store \in [Hashes -> 0 .. Size] /\ partial \in Hashes \cup {0}
  /\ holder \in DOMAIN task \cup {0} /\ (holder # 0 => ~ Ended(holder))
  /\ Cardinality(Listed) <= MAX_JOBS

\* "Active streams are cancelled too, not just future admissions" (revoke): a
\* stream or a download that is no longer admitted, because its grant was
\* withdrawn, the policy moved on or the node stopped, always has a signal
\* ahead of it that ends it, in every order of subscribing, checking,
\* revoking and installing a policy.
WithdrawalsAreNoticed ==
  /\ \A s \in Streams : stream[s].at \in {"requesting", "sending"} /\ ~ admitted(s)
       => stream[s].seen # generation \/ ~ announced
  /\ \A i \in DOMAIN task : task[i].at = "loading" /\ ~ authorize(task[i].revision)
       => task[i].mark # generation \/ ~ announced

\* "retains at most one partial in this workspace store" (fetch), and no
\* collection takes away what is being served or downloaded: a sending stream
\* has its whole file, a download its tag.  All within the bounds of TypeOK.
TransfersKeepTheirBytes ==
  /\ TypeOK
  /\ \A s \in Streams : stream[s].at = "sending" => store[stream[s].hash] = Size
  /\ \A i \in DOMAIN task : task[i].at \in {"connecting", "loading", "whole"} => partial = task[i].hash
  /\ Cardinality({op.hash : op \in {x \in Range(setup.ops) : x.kind = "fetch" /\ store[x.hash] # 0}}) <= 1

\* Every operation of the host and every stream comes to an end, although
\* peers may stall: slots and the download lock are given back (TIMEOUT,
\* IDLE_TIMEOUT, abort).
TransfersEnd ==
  /\ \A s \in Streams : stream[s].at \notin {"none", "ended"} ~> stream[s].at = "ended"
  /\ \A i \in Tasks : i \in DOMAIN task ~> i \in DOMAIN task /\ Ended(i)
=============================================================================
