--------------------------- MODULE DirectDelivery ---------------------------
(***************************************************************************)
(* Private (recipient scoped) delivery from one author to one recipient on *)
(* one topic: publication, live reception in any order, the hold-back of   *)
(* objects behind a gap, recovery of the gap from the author's copies and  *)
(* the explicit miss.  The recipient saves every candidate inbox before it *)
(* adopts it, and may crash at any point.                                  *)
(*                                                                         *)
(* The author also publishes to the whole group on the topic: those        *)
(* objects share the author's counters, hence the receipt window, but      *)
(* belong to no direct stream.                                             *)
(***************************************************************************)
EXTENDS DirectRetention

CONSTANTS
  Scopes,        \* recipient lists that name the recipient
  MaxObjects,    \* bound on the author's publications
  SizeOf,        \* encoded size of the author's n-th publication
  MaxGroup,      \* bound on those for the whole group
  MaxCrashes

Group == "group"

DeliveryAssumption ==
  /\ Group \notin Scopes
  /\ MaxObjects \in Nat /\ MaxGroup \in Nat /\ MaxCrashes \in Nat
  /\ \A n \in 1 .. MaxObjects : SizeOf[n] \in 1 .. MAX_DIRECT_RETAINED_BYTES \div 2

VARIABLES
  sent,       \* the author's publications, in counter order
  source,     \* the author's own direct streams, saved before anything is sent
  live,       \* the recipient's adopted inbox: [streams, direct]
  staged,     \* <<>> or <<candidate inbox, objects given up by it>>
  saved,      \* whether the candidate has been written durably
  durable,    \* the inbox a restart restores
  fetch,      \* the recovery operation of the session
  shown,      \* objects the application took and acknowledged, in that order
  missed,     \* <<scope, sequence>> pairs a saved inbox gave up
  settledUpTo,\* per scope, the highest floor the adopted inbox ever had
  crashes

recipient == <<live, staged, saved, durable>>
history == <<shown, missed, settledUpTo>>
vars == <<sent, source, recipient, fetch, history, crashes>>

Empty == [streams |-> [s \in {} |-> NoStream], direct |-> <<>>]
Idle == [state |-> "idle", scope |-> Group, query |-> NoGap]

Init ==
  /\ sent = <<>> /\ source = <<>>
  /\ live = Empty /\ durable = Empty /\ staged = <<>> /\ saved = FALSE
  /\ fetch = Idle
  /\ shown = <<>> /\ missed = {} /\ settledUpTo = [s \in Scopes |-> 0]
  /\ crashes = 0

\* StagePublication for recipients, saved and adopted: the sequence follows
\* the head of the author's stream.
PublishDirect(scope) ==
  LET o == [stream |-> "topic", counter |-> Len(sent) + 1, id |-> Len(sent) + 1, scope |-> scope,
            sequence |-> effective_head(DirectOf(source, scope)) + 1, size |-> SizeOf[Len(sent) + 1]]
  IN  /\ Len(sent) < MaxObjects
      /\ ~ RetainRefused(source, o)
      /\ sent' = Append(sent, o)
      /\ source' = retain_direct(source, o)
      /\ UNCHANGED <<recipient, fetch, history, crashes>>

PublishGroup ==
  /\ Len(sent) < MaxObjects
  /\ Cardinality({i \in DOMAIN sent : sent[i].scope = Group}) < MaxGroup
  /\ sent' = Append(sent, [stream |-> "topic", counter |-> Len(sent) + 1, id |-> Len(sent) + 1,
                           scope |-> Group, sequence |-> 0, size |-> 0])
  /\ UNCHANGED <<source, recipient, fetch, history, crashes>>

\* stage_scoped: Prepared when the window and the direct stream take it.
Prepares(inbox, o) ==
  /\ StageResult(inbox.streams, o) = "Prepared"
  /\ o.scope # Group => ~ RetainRefused(inbox.direct, o)
stage_scoped(inbox, o) ==
  [streams |-> Accept(inbox.streams, o),
   direct  |-> IF o.scope = Group THEN inbox.direct ELSE retain_direct(inbox.direct, o)]

\* PollProtected of an object that arrived, possibly late or repeatedly; one
\* that is not prepared leaves no trace.
PollProtected(i) ==
  /\ staged = <<>>
  /\ Prepares(live, sent[i])
  /\ staged' = <<stage_scoped(live, sent[i]), {}>>
  /\ saved' = FALSE
  /\ UNCHANGED <<sent, source, live, durable, fetch, history, crashes>>

\* A presence packet announces a head, also while a candidate is staged.
ObserveHead(scope) ==
  \E through \in 1 .. effective_head(DirectOf(source, scope)) :
    /\ effective_head(DirectOf(live.direct, scope)) < through
    /\ live' = [live EXCEPT !.direct = stage_direct_head(@, scope, through)]
    /\ UNCHANGED <<sent, source, staged, saved, durable, fetch, history, crashes>>

\* pending_excluding: the first undelivered object of a scope, unless it is
\* held back; the host may defer the other scopes.
Presented(o) ==
  /\ IsPending(live.streams, o)
  /\ ~ HeldBack(DirectOf(live.direct, o.scope), o.sequence)
  /\ \A i \in DOMAIN sent :
        sent[i].scope = o.scope /\ IsPending(live.streams, sent[i])
          /\ ~ HeldBack(DirectOf(live.direct, o.scope), sent[i].sequence)
        => o.counter <= sent[i].counter

\* PollPendingObject, then StageObjectAcknowledgement.
Acknowledge(i) ==
  /\ staged = <<>>
  /\ Presented(sent[i])
  /\ staged' = <<[live EXCEPT !.streams = Resolve(@, sent[i], "acknowledged")], {}>>
  /\ saved' = FALSE
  /\ shown' = IF Contains(shown, sent[i]) THEN shown ELSE Append(shown, sent[i])
  /\ UNCHANGED <<sent, source, live, durable, fetch, missed, settledUpTo, crashes>>

\* NextDirectGap and FetchDirectRecovery.
FetchDirectRecovery(scope) ==
  /\ staged = <<>>
  /\ fetch.state \in {"idle", "miss"}
  /\ GapOf(DirectOf(live.direct, scope)) # NoGap
  /\ fetch' = [state |-> "asked", scope |-> scope, query |-> GapOf(DirectOf(live.direct, scope))]
  /\ UNCHANGED <<sent, source, recipient, history, crashes>>

\* serve_direct_range at the author, then PollDirectRecovery of its reply.
Answered ==
  /\ fetch.state = "asked"
  /\ fetch' = [fetch EXCEPT !.state =
       IF serve_direct_range(DirectOf(source, fetch.scope), fetch.query) THEN "ready" ELSE "miss"]
  /\ UNCHANGED <<sent, source, recipient, history, crashes>>

\* No candidate replies: PollDirectRecovery finds the request exhausted.
Unreachable ==
  /\ fetch.state = "asked"
  /\ fetch' = [fetch EXCEPT !.state = "miss"]
  /\ UNCHANGED <<sent, source, recipient, history, crashes>>

\* The objects of the offered range, in sequence order.
Offer ==
  [k \in 1 .. fetch.query.through - fetch.query.after |->
     CHOOSE o \in Range(sent) :
        o.scope = fetch.scope /\ o.sequence = fetch.query.after + k]

\* stage_direct_range: <<inbox, staged objects, failed>>.
StageRange ==
  FoldLeft(LAMBDA acc, o :
             IF acc[3] \/ StageResult(acc[1].streams, o) = "Duplicate" THEN acc
             ELSE IF Prepares(acc[1], o) THEN <<stage_scoped(acc[1], o), acc[2] + 1, FALSE>>
             ELSE <<acc[1], acc[2], TRUE>>,
           <<live, 0, FALSE>>, Offer)

\* StageDirectRecovery; an error leaves the range ready.
StageDirectRecovery ==
  /\ staged = <<>>
  /\ fetch.state = "ready"
  /\ ~ StageRange[3]
  /\ fetch' = Idle
  /\ IF StageRange[2] = 0
     THEN UNCHANGED <<staged, saved>>
     ELSE staged' = <<StageRange[1], {}>> /\ saved' = FALSE
  /\ UNCHANGED <<sent, source, live, durable, history, crashes>>

\* CancelDirectRecovery.
CancelDirectRecovery ==
  /\ staged = <<>>
  /\ fetch.state # "idle"
  /\ fetch' = Idle
  /\ UNCHANGED <<sent, source, recipient, history, crashes>>

\* StageDirectMiss; "direct recovery gap changed" leaves everything as it is.
StageDirectMiss ==
  LET d == DirectOf(live.direct, fetch.scope)
  IN  /\ staged = <<>>
      /\ fetch.state = "miss"
      /\ ~ SkipChanged(d, fetch.query)
      /\ staged' = <<[live EXCEPT !.direct = Put(@, skip_direct_gap(d, fetch.query))],
                     {<<fetch.scope, n>> : n \in GivenUp(d, fetch.query)}>>
      /\ saved' = FALSE
      /\ fetch' = Idle
      /\ UNCHANGED <<sent, source, live, durable, history, crashes>>

\* commit_candidate.
Save ==
  /\ staged # <<>>
  /\ ~ saved
  /\ durable' = staged[1]
  /\ saved' = TRUE
  /\ missed' = missed \cup staged[2]
  /\ UNCHANGED <<sent, source, live, staged, fetch, shown, settledUpTo, crashes>>

\* DiscardWorkspaceCandidate, also of a saved candidate.
Discard ==
  /\ staged # <<>>
  /\ staged' = <<>>
  /\ saved' = FALSE
  /\ UNCHANGED <<sent, source, live, durable, fetch, history, crashes>>

\* AdoptReception and AdoptRecovery.
Adopt ==
  /\ saved
  /\ live' = staged[1]
  /\ settledUpTo' = [s \in Scopes |-> MaxOf(settledUpTo[s], DirectOf(live'.direct, s).floor)]
  /\ staged' = <<>>
  /\ saved' = FALSE
  /\ UNCHANGED <<sent, source, durable, fetch, shown, missed, crashes>>

\* A crash; the saved inbox must pass restore_snapshot.
Restart ==
  /\ crashes < MaxCrashes
  /\ StreamsRestore(durable.streams)
  /\ \A i \in DOMAIN durable.direct : DirectRestores(durable.direct[i])
  /\ live' = durable
  /\ settledUpTo' = [s \in Scopes |-> MaxOf(settledUpTo[s], DirectOf(live'.direct, s).floor)]
  /\ staged' = <<>>
  /\ saved' = FALSE
  /\ fetch' = Idle
  /\ crashes' = crashes + 1
  /\ UNCHANGED <<sent, source, durable, shown, missed>>

Next ==
  \/ \E s \in Scopes : PublishDirect(s)
  \/ PublishGroup
  \/ \E i \in DOMAIN sent : PollProtected(i) \/ Acknowledge(i)
  \/ \E s \in Scopes : ObserveHead(s) \/ FetchDirectRecovery(s)
  \/ Answered
  \/ Unreachable
  \/ StageDirectRecovery
  \/ CancelDirectRecovery
  \/ StageDirectMiss
  \/ Save
  \/ Adopt
  \/ Discard
  \/ Restart

Spec == Init /\ [][Next]_vars

-----------------------------------------------------------------------------
SentObjects == Range(sent)
IsDirect(direct) ==
  \A i \in DOMAIN direct :
     /\ direct[i].scope \in Scopes
     /\ {direct[i].floor, direct[i].recovery_floor, direct[i].known_head}
          \subseteq 0 .. Cardinality({o \in SentObjects : o.scope = direct[i].scope})
     /\ \A r \in direct[i].records :
           \E o \in SentObjects : o.scope = direct[i].scope /\ o.sequence = r.sequence /\ o.id = r.id

\* The values the variables range over.
TypeOK ==
  /\ IsDirect(source) /\ IsDirect(live.direct) /\ IsDirect(durable.direct)
  /\ staged # <<>> => IsDirect(staged[1].direct)
  /\ saved \in BOOLEAN /\ (saved => staged # <<>>)
  /\ fetch.state \in {"idle", "asked", "ready", "miss"}
  /\ Range(shown) \subseteq SentObjects
  /\ missed \subseteq Scopes \X (1 .. MaxObjects)

\* "allowing later samples to resume in order" (skip_direct_gap): within a
\* scope the application sees an object after a later one only if the object
\* had been given up explicitly or its recovery copies had been dropped.
OvertakenWasGivenUp ==
  /\ TypeOK
  /\ \A j \in DOMAIN shown : \A i \in 1 .. j - 1 :
       shown[i].scope = shown[j].scope /\ shown[i].sequence > shown[j].sequence
       => \/ <<shown[j].scope, shown[j].sequence>> \in missed
          \/ shown[j].sequence <= settledUpTo[shown[j].scope]

=============================================================================
