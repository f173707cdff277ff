------------------------- MODULE MCDurableWorkspace -------------------------
(***************************************************************************)
(* Instances of NativePersistence, WorkspaceLifecycle and MembershipSync   *)
(* for TLC: one session and its store, with the revisions and tokens of    *)
(* any operations; which records each phase of a workspace saves; and the  *)
(* membership histories of several sessions.  A behaviour is about one of  *)
(* them and the others rest.                                               *)
(***************************************************************************)
EXTENDS NativePersistence

MCContents == RecordSets
MCNoContents == [ops |-> {}, token |-> NoToken]

VARIABLES session, store, failures, crashes

Lifecycle == INSTANCE WorkspaceLifecycle WITH
  NPeers <- 2, Reachable <- {2}, MaxFailures <- 1, MaxCrashes <- 2

ASSUME Lifecycle!PeersAssumption

VARIABLES node, heads, offers, handed, left

None == [commits |-> 0, queries |-> 0, offers |-> 0, handoffs |-> 0, losses |-> 0,
         blocks |-> 0, discards |-> 0, crashes |-> 0]
Resting == [members |-> {}, bounds |-> None]

\* Three members; then two with lost exchanges, held epochs, queries, offers
\* and handoffs, each with a restart or a discarded commit.
SyncCases ==
  {[members |-> {"a", "b", "c"}, bounds |-> [None EXCEPT !.commits = 2]]}
  \cup [members : {{"a", "b"}}, bounds :
  {[None EXCEPT !.commits = 4],
   [None EXCEPT !.commits = 3, !.losses = 1, !.blocks = 1, !.crashes = 1],
   [None EXCEPT !.commits = 2, !.queries = 1, !.losses = 1, !.discards = 1],
   [None EXCEPT !.commits = 2, !.offers = 1, !.discards = 1, !.crashes = 1],
   [None EXCEPT !.commits = 2, !.handoffs = 1, !.losses = 1],
   [None EXCEPT !.commits = 2, !.handoffs = 1, !.discards = 1, !.crashes = 1]}]

Sync == INSTANCE MembershipSync WITH
  Nodes <- {"a", "b", "c"}, Admins <- {"a"}, RangeSteps <- 4, AheadLimit <- 2, MaxCommits <- 4,
  Cases <- SyncCases \cup {Resting}

ASSUME Sync!SyncAssumption

VARIABLE part   \* which of the three this behaviour is about

lifecycleVars == <<session, store, failures, crashes>>
syncVars == <<node, heads, offers, handed, left>>

MCInit ==
  /\ Init /\ Lifecycle!Init /\ Sync!Init
  /\ part \in {"persistence", "lifecycle", "sync"} /\ (part = "sync" <=> DOMAIN node # {})

MCNext ==
  \/ part = "persistence" /\ Next /\ UNCHANGED <<lifecycleVars, syncVars, part>>
  \/ part = "lifecycle" /\ Lifecycle!Next /\ UNCHANGED <<vars, syncVars, part>>
  \/ part = "sync" /\ Sync!Next /\ UNCHANGED <<vars, lifecycleVars, part>>

MCSpec ==
  /\ MCInit /\ [][MCNext]_<<vars, lifecycleVars, syncVars, part>>
  /\ Lifecycle!Fairness /\ Sync!Fairness

-----------------------------------------------------------------------------
\* A session that runs as a member has that membership saved, and no step of a
\* removed member makes it active again (WorkspaceLifecycle, the adoptions,
\* save_candidate, the removals, restarts and reset).
SavedPhaseIsKept == Lifecycle!SavedPhaseIsKept

\* A join that is kept ends in a membership or in an answer (WorkspaceLifecycle,
\* drive_join).
JoinEnds == Lifecycle!JoinEnds

\* Two members hold different commits for an epoch only after one of them was
\* handed off (MembershipSync, range_reply and announce_head).
HistoriesAgree == Sync!HistoriesAgree

\* A peer's acknowledgment of an offer means it holds the step durably
\* (MembershipSync, receive_offer).
AcknowledgedStepsAreAdopted == Sync!AcknowledgedStepsAreAdopted

=============================================================================
