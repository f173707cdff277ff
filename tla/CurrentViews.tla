---------------------------- MODULE CurrentViews ----------------------------
(***************************************************************************)
(* Current values and the views of them (arachne-delivery current.rs and   *)
(* inbox.rs, and the current-view requests of the runtime).                *)
(*                                                                         *)
(* A publication may stand as the latest value of a key in a selection of  *)
(* a topic until it expires.  Its author, the authority, indexes the       *)
(* latest value of every key; each change of a selection is a new cut.  A  *)
(* reader fetches the signed view of a selection from the authority or     *)
(* from members that retained one, takes the view with the highest cut,    *)
(* and accepts its fresh values and the cut together.                      *)
(*                                                                         *)
(* One authority and one topic: all values share one stream of the         *)
(* reader's window.  Publishing, receiving and acknowledging are single    *)
(* steps, as in RangeRecovery.  A signature stands for what it signs.      *)
(***************************************************************************)
EXTENDS InboxWindow, Sequences, SequencesExt

CONSTANTS
  Author, Readers,
  Cases,                       \* the scenarios a behaviour may be about
  MAX_CURRENT_VALUES,
  MAX_CURRENT_SELECTIONS,
  MAX_RETAINED_CURRENT_VIEWS

VARIABLES
  setup,      \* the scenario
  now,        \* the clock
  scope,      \* of every node, the place in setup.scopes: epoch, policy
  index,      \* CurrentViewIndex of the authority
  published,  \* the publications of the topic, in order
  views,      \* every view that was ever current, for the properties
  reader,     \* the state of every reader
  faults      \* failed requests, cancellations and crashes so far

vars == <<setup, now, scope, index, published, views, reader, faults>>

Nodes == Readers \cup {Author}
scopeOf(n) == setup.scopes[scope[n]]

NewIndex == [cuts |-> [s \in {} |-> 0], values |-> {}]
NewState ==
  [window |-> [s \in {} |-> NoStream], progress |-> [s \in {} |-> 0], retained |-> {}, accepted |-> {}]
Idle(state) ==
  [kept |-> state, durable |-> state, request |-> <<>>, ready |-> <<>>, staged |-> <<>>, saved |-> FALSE]

Object(v) == [stream |-> 1, counter |-> v.sequence, id |-> v.id]
Fresh(v) == v.expires_at > now

\* A query names the epoch and the selection: the policy and the selector.
CurrentViewQuery(n, selector) ==
  [epoch |-> scopeOf(n).epoch, selection |-> <<scopeOf(n).revision, selector>>]

-----------------------------------------------------------------------------
\* The authority's index.  A value replaces the older one of its key; the
\* index holds a bounded number of values and selections and drops none.
SameKey(v, w) == v.selection = w.selection /\ v.key = w.key
CanInsert(v) ==
  /\ Cardinality(index.values) # MAX_CURRENT_VALUES \/ \E w \in index.values : SameKey(v, w)
  /\ v.selection \in DOMAIN index.cuts \/ Cardinality(DOMAIN index.cuts) # MAX_CURRENT_SELECTIONS
CutOf(from, selection) == IF selection \in DOMAIN from.cuts THEN from.cuts[selection] ELSE 0
insert(v) ==
  [cuts |-> [s \in DOMAIN index.cuts \cup {v.selection} |->
               IF s = v.selection THEN CutOf(index, s) + 1 ELSE index.cuts[s]],
   values |-> {w \in index.values : ~ SameKey(v, w)} \cup {v}]

view(from, query) ==
  [cut |-> CutOf(from, query.selection), values |-> {v \in from.values : v.selection = query.selection}]

authorize_history(server, requester, query) ==
  /\ query.selection[1] = scopeOf(server).revision /\ requester \in scopeOf(server).readers

\* The authority signs the view of the moment; a holder replays a retained one
\* while any value of it is fresh.  Nothing stands for a denial.
serve_current(peer, requester, query) ==
  LET held == IF peer = Author THEN {} ELSE {x \in reader[peer].kept.retained : x.query = query}
      fresh == {x \in held : \E v \in x.view.values : Fresh(v)}
  IN  IF query.epoch # scopeOf(peer).epoch \/ ~ authorize_history(peer, requester, query) THEN <<>>
      ELSE IF peer = Author THEN IF index = NewIndex THEN <<>> ELSE <<view(index, query)>>
      ELSE IF fresh = {} THEN <<>> ELSE <<(CHOOSE x \in fresh : TRUE).view>>

check_recovery_policy(r, peer, query) ==
  /\ query.epoch = scopeOf(r).epoch /\ query.selection[1] = scopeOf(r).revision
  /\ r \in scopeOf(r).readers /\ peer \in scopeOf(r).readers \cup {Author}

-----------------------------------------------------------------------------
Init ==
  /\ setup \in Cases
  /\ now = 0 /\ scope = [n \in Nodes |-> 1]
  /\ index = NewIndex /\ published = <<>> /\ views = {}
  /\ reader = [r \in Readers |-> Idle(NewState)]
  /\ faults = [fail |-> 0, cancel |-> 0, crash |-> 0]

Put(r, next) == reader' = [reader EXCEPT ![r] = next]
Fault(kind) == faults[kind] < setup.faults[kind] /\ faults' = [faults EXCEPT ![kind] = @ + 1]
Free(r) == reader[r].staged = <<>>
Commit(r, state) == Put(r, [reader[r] EXCEPT !.kept = state, !.durable = state])

\* The next publication of the topic; with a selector it is a current value.
Publish ==
  /\ Len(published) < Len(setup.script)
  /\ LET next == setup.script[Len(published) + 1]
         sequence == Len(SelectSeq(published, LAMBDA p : p.epoch = scopeOf(Author).epoch)) + 1
         v == [epoch |-> scopeOf(Author).epoch, sequence |-> sequence, id |-> Len(published) + 1,
               selection |-> <<scopeOf(Author).revision, next.selector>>,
               key |-> next.key, expires_at |-> next.expires_at]
         query == CurrentViewQuery(Author, next.selector)
     IN  /\ published' = Append(published, v)
         /\ IF next.selector = 0 THEN UNCHANGED <<index, views>>
            ELSE /\ CanInsert(v) /\ index' = insert(v)
                 /\ views' = views \cup {<<query, view(insert(v), query)>>}
  /\ UNCHANGED <<setup, now, scope, reader, faults>>

Tick ==
  /\ now < setup.time /\ now' = now + 1
  /\ UNCHANGED <<setup, scope, index, published, views, reader, faults>>

\* accept of a value that the window admits.
AcceptValue(state, v) ==
  [state EXCEPT !.window = Accept(@, Object(v)), !.accepted = @ \cup {v}]

\* Gossip brings a publication, or never does.
Receive(r, v) ==
  LET state == reader[r].kept
  IN  /\ <<r, v.id>> \in setup.live /\ v.epoch = scopeOf(r).epoch /\ Free(r)
      /\ StageResult(state.window, Object(v)) = "Prepared"
      /\ Commit(r, AcceptValue(state, v))
      /\ UNCHANGED <<setup, now, scope, index, published, views, faults>>

Deliver(r) ==
  /\ Free(r)
  /\ \E o \in PendingOf(reader[r].kept.window) :
        Commit(r, [reader[r].kept EXCEPT !.window = Resolve(@, o, "acknowledged")])
  /\ UNCHANGED <<setup, now, scope, index, published, views, faults>>

-----------------------------------------------------------------------------
\* One request at a time, to every source of it that the policy admits.
FetchCurrentView(r) ==
  /\ Free(r) /\ reader[r].request = <<>> /\ reader[r].ready = <<>>
  /\ \E selector \in setup.selectors :
       LET query == CurrentViewQuery(r, selector)
           sources == {p \in setup.sources[r] : check_recovery_policy(r, p, query)}
       IN  /\ sources # {}
           /\ Put(r, [reader[r] EXCEPT !.request =
                  <<[query |-> query, waiting |-> sources, replies |-> {}, best |-> <<>>]>>])
  /\ UNCHANGED <<setup, now, scope, index, published, views, faults>>

Answered(r, peer, reply) ==
  Put(r, [reader[r] EXCEPT !.request[1].waiting = @ \ {peer},
                           !.request[1].replies = @ \cup {[peer |-> peer, view |-> reply]}])

Answer(r, peer) ==
  /\ reader[r].request # <<>> /\ peer \in reader[r].request[1].waiting
  /\ peer # Author => Free(peer)
  /\ Answered(r, peer, serve_current(peer, r, reader[r].request[1].query))
  /\ UNCHANGED <<setup, now, scope, index, published, views, faults>>

\* The request or its reply is lost.
Fail(r, peer) ==
  /\ reader[r].request # <<>> /\ peer \in reader[r].request[1].waiting /\ Fault("fail")
  /\ Answered(r, peer, <<>>)
  /\ UNCHANGED <<setup, now, scope, index, published, views>>

\* verify_wire_reply of every reply that came; the best so far is kept.
Verified(r, pending) ==
  {a \in pending.replies : a.view # <<>> /\ check_recovery_policy(r, a.peer, pending.query)}
Best(candidates) ==
  {c \in candidates : \A d \in candidates : d.view[1].cut <= c.view[1].cut}

PollCurrentView(r) ==
  /\ Free(r) /\ reader[r].request # <<>>
  /\ LET pending == reader[r].request[1]
         best == Best(ToSet(pending.best) \cup Verified(r, pending))
     IN  \E chosen \in IF best = {} THEN {<<>>} ELSE {<<a>> : a \in best} :
           Put(r, IF pending.waiting # {}
                  THEN [reader[r] EXCEPT !.request[1].replies = {}, !.request[1].best = chosen]
                  ELSE [reader[r] EXCEPT !.request = <<>>,
                          !.ready = [i \in DOMAIN chosen |->
                            [query |-> pending.query, peer |-> chosen[i].peer, view |-> chosen[i].view[1]]]])
  /\ UNCHANGED <<setup, now, scope, index, published, views, faults>>

-----------------------------------------------------------------------------
\* Accepting a view.  Its fresh values are staged in the order of their keys;
\* one that cannot be staged fails the view.
\* Mutant of Taken: a value behind the window is passed over.
TakenOrSkipped(state, v) ==
  IF StageResult(state.window, Object(v)) = "Prepared" THEN {AcceptValue(state, v)} ELSE {state}
Taken(state, v) ==
  LET result == StageResult(state.window, Object(v))
  IN  IF result = "Prepared" THEN {AcceptValue(state, v)} ELSE IF result = "Duplicate" THEN {state} ELSE {}
StageValues(state, values) ==
  FoldLeft(LAMBDA states, v : UNION {Taken(x, v) : x \in states}, {state},
           SetToSortSeq({v \in values : Fresh(v)}, LAMBDA x, y : x.key < y.key))

\* Coverage only advances; the same cut must be the same view.
ProgressAllows(state, ready) ==
  IF ready.query.selection \in DOMAIN state.progress
  THEN LET known == state.progress[ready.query.selection]
       IN  ready.view.cut > known.cut \/ ready.view = known
  ELSE Cardinality(DOMAIN state.progress) # MAX_CURRENT_SELECTIONS

accept_current_view(state, ready) ==
  IF ready.query.selection \in DOMAIN state.progress /\ state.progress[ready.query.selection] = ready.view
  THEN {state}
  ELSE {[next EXCEPT
           !.progress = [s \in DOMAIN @ \cup {ready.query.selection} |->
                           IF s = ready.query.selection THEN ready.view ELSE @[s]]] :
           next \in StageValues(state, ready.view.values)}

\* A view with a fresh value is kept for others, in place of the older one of
\* its query; there is no room for more than so many queries.
retain_current_view(state, ready) ==
  LET current == {x \in state.retained : \E v \in x.view.values : Fresh(v)}
      others == {x \in current : x.query # ready.query}
  IN  IF \A v \in ready.view.values : ~ Fresh(v) THEN {state}
      ELSE IF others = current /\ Cardinality(current) = MAX_RETAINED_CURRENT_VIEWS THEN {}
      ELSE {[state EXCEPT !.retained = others \cup {[query |-> ready.query, view |-> ready.view]}]}

\* What StageCurrentView may stage; nothing when it fails and the view stays.
Candidates(r) ==
  LET ready == reader[r].ready[1]
      state == reader[r].kept
  IN  IF ~ check_recovery_policy(r, ready.peer, ready.query) \/ ~ ProgressAllows(state, ready) THEN {}
      ELSE UNION {retain_current_view(accepted, ready) : accepted \in accept_current_view(state, ready)}

StageCurrentView(r) ==
  /\ Free(r) /\ reader[r].ready # <<>>
  /\ \E next \in Candidates(r) : Put(r, [reader[r] EXCEPT !.ready = <<>>, !.staged = <<next>>])
  /\ UNCHANGED <<setup, now, scope, index, published, views, faults>>

\* Mutant of CancelCurrentView: a view that is ready stays.
CancelCurrentViewKeepsReady(r) ==
  /\ Free(r) /\ reader[r].request # <<>>
  /\ Fault("cancel")
  /\ Put(r, [reader[r] EXCEPT !.request = <<>>])
  /\ UNCHANGED <<setup, now, scope, index, published, views>>

\* The host gives up on a view that cannot be staged, or for its own reasons.
CancelCurrentView(r) ==
  /\ Free(r) /\ (reader[r].request # <<>> \/ reader[r].ready # <<>>)
  /\ \/ reader[r].ready # <<>> /\ Candidates(r) = {} /\ UNCHANGED faults
     \/ Fault("cancel")
  /\ Put(r, [reader[r] EXCEPT !.request = <<>>, !.ready = <<>>])
  /\ UNCHANGED <<setup, now, scope, index, published, views>>

Save(r) ==
  /\ ~ Free(r) /\ ~ reader[r].saved
  /\ Put(r, [reader[r] EXCEPT !.durable = reader[r].staged[1], !.saved = TRUE])
  /\ UNCHANGED <<setup, now, scope, index, published, views, faults>>

AdoptCurrentView(r) ==
  /\ ~ Free(r) /\ reader[r].saved
  /\ Put(r, [reader[r] EXCEPT !.kept = reader[r].staged[1], !.staged = <<>>, !.saved = FALSE])
  /\ UNCHANGED <<setup, now, scope, index, published, views, faults>>

DiscardWorkspaceCandidate(r) ==
  /\ ~ Free(r) /\ Fault("cancel")
  /\ Put(r, [reader[r] EXCEPT !.staged = <<>>, !.saved = FALSE])
  /\ UNCHANGED <<setup, now, scope, index, published, views>>

Crash(r) ==
  /\ Fault("crash")
  /\ Put(r, Idle(reader[r].durable))
  /\ UNCHANGED <<setup, now, scope, index, published, views>>

InstallPolicy(n) ==
  /\ scope[n] < Len(setup.scopes) /\ setup.scopes[scope[n] + 1].epoch = scopeOf(n).epoch
  /\ n # Author => Free(n)
  /\ scope' = [scope EXCEPT ![n] = @ + 1]
  /\ UNCHANGED <<setup, now, index, published, views, reader, faults>>

\* A new epoch starts with an empty inbox and index, once all is delivered.
EnterEpoch(n) ==
  /\ scope[n] < Len(setup.scopes) /\ setup.scopes[scope[n] + 1].epoch # scopeOf(n).epoch
  /\ scope' = [scope EXCEPT ![n] = @ + 1]
  /\ IF n = Author THEN index' = NewIndex /\ UNCHANGED reader
     ELSE /\ Free(n) /\ PendingOf(reader[n].kept.window) = {}
          /\ Put(n, Idle(NewState)) /\ UNCHANGED index
  /\ UNCHANGED <<setup, now, published, views, faults>>

Next ==
  \/ Publish \/ Tick
  \/ \E n \in Nodes : InstallPolicy(n) \/ EnterEpoch(n)
  \/ \E r \in Readers :
       \/ \E v \in ToSet(published) : Receive(r, v)
       \/ \E peer \in Nodes : Answer(r, peer) \/ Fail(r, peer)
       \/ Deliver(r) \/ FetchCurrentView(r) \/ PollCurrentView(r) \/ StageCurrentView(r)
       \/ CancelCurrentView(r) \/ Save(r) \/ AdoptCurrentView(r)
       \/ DiscardWorkspaceCandidate(r) \/ Crash(r)

\* The host polls, completes what it staged, asks again and drains its inbox.
\* A connected peer that is again and again between two requests of its own
\* host answers.
HostStep(r) ==
  /\ UNCHANGED <<setup, now, scope, index, published, views, faults>>
  /\ \/ FetchCurrentView(r) \/ PollCurrentView(r) \/ StageCurrentView(r)
     \/ CancelCurrentView(r) \/ Save(r) \/ AdoptCurrentView(r)
PeerStep(r) ==
  \E peer \in Nodes : UNCHANGED <<setup, now, scope, index, published, views, faults>> /\ Answer(r, peer)
Fairness ==
  \A r \in Readers : WF_vars(HostStep(r)) /\ WF_vars(Deliver(r)) /\ SF_vars(PeerStep(r))

Spec == Init /\ [][Next]_vars /\ Fairness

-----------------------------------------------------------------------------
TypeOK ==
  /\ setup \in Cases /\ scope \in [Nodes -> 1 .. Len(setup.scopes)]
  /\ Cardinality(index.values) <= MAX_CURRENT_VALUES
  /\ \A r \in Readers :
       /\ reader[r].saved => ~ Free(r)
       /\ Len(reader[r].request) + Len(reader[r].ready) <= 1
       /\ Cardinality(reader[r].kept.retained) <= MAX_RETAINED_CURRENT_VIEWS

\* The view of the selection with the reader's accepted cut, as it was signed.
SignedAt(r, selection, cut) ==
  UNION {x[2].values : x \in {y \in views : y[1] = [epoch |-> scopeOf(r).epoch, selection |-> selection]
                                            /\ y[2].cut = cut}}

\* A cut stands for its values: in whatever order views, live publications,
\* stale holders, expiry, discarded candidates and restarts come, every value
\* that was current at a saved or adopted cut was accepted with it, or has
\* expired (accept_current_view, PollCurrentView, retain_current_view).
CutsAreComplete ==
  /\ TypeOK
  /\ \A r \in Readers : \A state \in {reader[r].kept, reader[r].durable} :
       \A selection \in DOMAIN state.progress :
         \A v \in SignedAt(r, selection, state.progress[selection].cut) : v \in state.accepted \/ ~ Fresh(v)

\* The authority will not serve the reader, or the reader cannot take the
\* view even with everything delivered: staging it in the order of its keys
\* pushes a value out of the window, or there is no room for one more.
Delivered(window) ==
  [s \in DOMAIN window |-> [window[s] EXCEPT !.receipts = {[x EXCEPT !.state = "acknowledged"] : x \in @}]]
Refuses(r, query) ==
  LET served == serve_current(Author, r, query)
      state == [reader[r].kept EXCEPT !.window = Delivered(@)]
      ready == [query |-> query, view |-> served[1]]
  IN  \/ ~ check_recovery_policy(r, Author, query) \/ served = <<>>
      \/ ~ ProgressAllows(state, ready)
      \/ \A next \in accept_current_view(state, ready) : retain_current_view(next, ready) = {}

\* A reader that keeps asking for the view of a selection, among others its
\* authority, ends up with the authority's cut, unless it is refused or
\* cannot take it (FetchCurrentView to AdoptCurrentView).
ViewsCatchUp ==
  <>[](\A r \in Readers, selector \in setup.selectors :
         LET query == CurrentViewQuery(r, selector)
         IN  \/ Author \notin setup.sources[r] \/ Cardinality(setup.selectors) # 1
             \/ /\ query.selection \in DOMAIN reader[r].kept.progress
                /\ reader[r].kept.progress[query.selection].cut = CutOf(index, query.selection)
             \/ Refuses(r, query))
=============================================================================
