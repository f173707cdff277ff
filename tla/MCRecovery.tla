---------------------------- MODULE MCRecovery ----------------------------
(***************************************************************************)
(* Instances of RangeRecovery and CurrentViews for TLC: an author a, a     *)
(* reader r and a second reader h that may be a holder for r.  A behaviour *)
(* is about one of the two modules and the other rests.                    *)
(***************************************************************************)
EXTENDS RangeRecovery

CONSTANTS a, r, h

MCReaders == {r, h}
MCWeights == [id \in (1 .. 2) \X (1 .. 4) |-> 1]

\* One epoch and one policy; another policy that ends h's reading; another epoch.
Same == <<[epoch |-> 1, revision |-> 1, readers |-> Readers]>>
Policies == Same \o <<[epoch |-> 1, revision |-> 2, readers |-> {r}]>>
TwoEpochs == Same \o <<[epoch |-> 2, revision |-> 1, readers |-> Readers]>>

NoFaults == [fail |-> 0, cancel |-> 0, crash |-> 0]
Inboxes == [n \in Readers |-> "objects"]

-----------------------------------------------------------------------------
\* r recovers from the author, asking for what is available; the second and
\* the third publication may also arrive live.
Alone ==
  [script |-> <<1, 1, 1>>, live |-> {<<r, 2>>, <<r, 3>>}, mode |-> Inboxes, kinds |-> {"available"},
   selections |-> {{1}}, sources |-> [n \in Readers |-> IF n = r THEN {{a}} ELSE {}],
   retainers |-> {}, scopes |-> Same, faults |-> [fail |-> 1, cancel |-> 1, crash |-> 1]]
\* h recovers too, retains what it got, and serves r.
Holder ==
  [Alone EXCEPT !.script = <<1, 1>>, !.live = {},
     !.sources = [n \in Readers |-> IF n = r THEN {{a, h}} ELSE {{a}}],
     !.retainers = {h}, !.faults = NoFaults]
\* Exact ranges from one peer or any, and two selections that share a topic.
Exact ==
  [Alone EXCEPT !.script = <<1, 2, 1>>, !.live = {<<r, 3>>}, !.kinds = {"exact", "any"},
     !.selections = {{1}, {1, 2}}, !.faults = NoFaults]
Journal ==
  [Exact EXCEPT !.mode = [n \in Readers |-> "journal"], !.live = {<<r, 1>>, <<r, 3>>},
     !.faults = [fail |-> 0, cancel |-> 0, crash |-> 1]]
PolicyMoves ==
  [Holder EXCEPT !.script = <<1>>, !.scopes = Policies]
ExactHolder ==
  [Holder EXCEPT !.script = <<1>>, !.kinds = {"any"}, !.faults = [fail |-> 0, cancel |-> 0, crash |-> 1]]
EpochMoves == [Alone EXCEPT !.script = <<1, 1>>, !.live = {<<r, 1>>}, !.scopes = TwoEpochs]
Cutoffs == [Alone EXCEPT !.script = <<1, 1>>, !.kinds = {"available", "cutoff"}, !.live = {}]
RestingRanges ==
  [Alone EXCEPT !.script = <<>>, !.live = {}, !.sources = [n \in Readers |-> {}], !.faults = NoFaults]

MCCases ==
  {Alone, Holder, Exact, Journal, PolicyMoves, ExactHolder, EpochMoves, Cutoffs, RestingRanges}

\* Publications of which one fits a reply, and two do not.
LargeHistory == {[Alone EXCEPT !.live = {}, !.faults = NoFaults], RestingRanges}

-----------------------------------------------------------------------------
Value(selector, key, expires_at) == [selector |-> selector, key |-> key, expires_at |-> expires_at]
Plain == Value(0, 0, 0)

\* Two keys and a publication that is no value; the last value replaces the first.
Direct ==
  [script |-> <<Value(1, 1, 2), Value(1, 2, 1), Plain, Value(1, 1, 2)>>, live |-> {<<r, 3>>, <<r, 4>>},
   selectors |-> {1}, sources |-> [n \in Readers |-> IF n = r THEN {a} ELSE {}],
   scopes |-> Same, time |-> 2, faults |-> [fail |-> 0, cancel |-> 0, crash |-> 1]]
\* h retains the views it accepts and serves them to r.
ByHolder ==
  [Direct EXCEPT !.script = <<Value(1, 1, 2), Value(1, 2, 2)>>, !.live = {}, !.time = 0,
     !.sources = [n \in Readers |-> IF n = r THEN {a, h} ELSE {a}],
     !.faults = NoFaults]
\* More selections than a reader may retain and more values than fit the index.
TwoSelections ==
  [Direct EXCEPT !.script = <<Value(1, 1, 2), Value(2, 1, 2), Value(1, 2, 2)>>, !.live = {<<r, 2>>},
     !.selectors = {1, 2}, !.time = 0]
ViewPolicyMoves ==
  [ByHolder EXCEPT !.script = <<Value(1, 1, 2)>>, !.scopes = Policies]
ViewEpochMoves ==
  [Direct EXCEPT !.script = <<Value(1, 1, 2), Value(1, 2, 2)>>, !.live = {}, !.time = 0, !.scopes = TwoEpochs,
     !.faults = [fail |-> 1, cancel |-> 1, crash |-> 0]]
RestingViews ==
  [Direct EXCEPT !.script = <<>>, !.live = {}, !.sources = [n \in Readers |-> {}], !.time = 0, !.faults = NoFaults]

ViewCases == {Direct, ByHolder, TwoSelections, ViewPolicyMoves, ViewEpochMoves, RestingViews}

VARIABLES selected, now, viewScope, index, published, views, viewer, viewFaults
viewVars == <<selected, now, viewScope, index, published, views, viewer, viewFaults>>

Views == INSTANCE CurrentViews WITH
  Author <- a, Cases <- ViewCases,
  MAX_CURRENT_VALUES <- 2, MAX_CURRENT_SELECTIONS <- 2, MAX_RETAINED_CURRENT_VIEWS <- 1,
  setup <- selected, scope <- viewScope, reader <- viewer, faults <- viewFaults

-----------------------------------------------------------------------------
VARIABLE part   \* which of the two this behaviour is about

MCInit ==
  /\ Init /\ Views!Init
  /\ \/ part = "ranges" /\ setup # RestingRanges /\ selected = RestingViews
     \/ part = "views" /\ setup = RestingRanges /\ selected # RestingViews

MCNext ==
  \/ part = "ranges" /\ Next /\ UNCHANGED <<viewVars, part>>
  \/ part = "views" /\ Views!Next /\ UNCHANGED <<vars, part>>

MCSpec == MCInit /\ [][MCNext]_<<vars, viewVars, part>> /\ Fairness /\ Views!Fairness

-----------------------------------------------------------------------------
\* Every value that was current at a saved or adopted cut was accepted with
\* it, or has expired (CurrentViews: accept_current_view).
CutsAreComplete == Views!CutsAreComplete

\* A reader that keeps asking for a view ends up with its authority's cut
\* unless it is refused or cannot take it (CurrentViews: FetchCurrentView to
\* AdoptCurrentView).
ViewsCatchUp == Views!ViewsCatchUp
=============================================================================
