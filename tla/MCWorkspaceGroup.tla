-------------------------- MODULE MCWorkspaceGroup --------------------------
(***************************************************************************)
(* Instances of WorkspaceGroup and MemberProfiles for TLC.  A behaviour is *)
(* about one of them and the other rests.                                  *)
(*                                                                         *)
(* Group: three devices and four packages.  Each case bounds the commits   *)
(* and enables the operations of one question, so the instance is the sum  *)
(* of the cases and not their product.  Names: two or three members, pages *)
(* of two names, and room for all of them.                                 *)
(***************************************************************************)
EXTENDS WorkspaceGroup, TLC

CONSTANTS alice, bob, carol, bob2, k1, k2

VARIABLES setup, node, gossip, left

\* bob2 is a second join from the device of bob.
MCEndpointOf == alice :> "A" @@ bob :> "B" @@ carol :> "C" @@ bob2 :> "B"

Open == [op |-> "CreateInvitation", personal |-> FALSE]
Personal == [op |-> "CreateInvitation", personal |-> TRUE]
Automatic == [op |-> "CreateAutomaticInvitation", personal |-> TRUE]
OnRequest == [op |-> "CreateRequestInvitation", personal |-> TRUE]

Joiners == {bob, carol}
Rejoining == {bob, carol, bob2}

\* Roles, and a device that comes back after its removal; departures;
\* unregistered invitations; decisions on requests; expiry.
MCCases == {
    [kinds |-> {Open}, keys |-> {k1}, nodes |-> 6, joiners |-> Rejoining, ops |-> {"Remove"}],
    [kinds |-> {Open}, keys |-> {k1}, nodes |-> 6, joiners |-> Joiners, ops |-> {"Promote", "Demote", "Remove"}],
    [kinds |-> {Open}, keys |-> {k1}, nodes |-> 5, joiners |-> Joiners, ops |-> {"Promote", "Leave"}],
    [kinds |-> {Open}, keys |-> {k1, k2}, nodes |-> 4, joiners |-> {bob}, ops |-> {"IssueInvitation", "Disable"}],
    [kinds |-> {Personal, Automatic, OnRequest}, keys |-> {k1}, nodes |-> 6, joiners |-> Rejoining,
     ops |-> {"Approve", "Decline", "Disable"}],
    [kinds |-> {Open, OnRequest}, keys |-> {k1}, nodes |-> 6, joiners |-> Rejoining, ops |-> {"Approve", "Tick"}]}

\* A workspace one member larger than a checkpoint that fits the wire.
LargeCases == {[kinds |-> {Open}, keys |-> {k1}, nodes |-> 5, joiners |-> Rejoining, ops |-> {"Promote"}]}

\* One device that gives up a join and asks again with a fresh package.
SameDeviceCases == {[kinds |-> {Open}, keys |-> {k1}, nodes |-> 4, joiners |-> Rejoining, ops |-> {}]}

-----------------------------------------------------------------------------
NoNames == [rosters |-> <<{}>>, start |-> <<>>, links |-> {}, overlay |-> {}, losses |-> 0, restarts |-> {}]
Trio == [NoNames EXCEPT !.rosters = <<{1, 2, 3}>>, !.start = <<1, 1, 1>>, !.links = {<<1, 2>>, <<3, 2>>}]
Lossy == [Trio EXCEPT !.losses = 1]
Reopened == [Trio EXCEPT !.restarts = {1}]
Pair == [Trio EXCEPT !.rosters = <<{1, 2}>>, !.start = <<1, 1>>, !.links = {<<1, 2>>}, !.losses = 1, !.restarts = {1, 2}]
\* The third member joins; the second, and then the first, learns of it late.
Joins == [Trio EXCEPT !.rosters = <<{1, 2}, {1, 2, 3}>>, !.start = <<2, 1, 2>>]
Held == [Joins EXCEPT !.start = <<1, 2, 2>>, !.overlay = {1}, !.links = {<<3, 2>>}]
\* The third member is removed; the second has not adopted that yet.
Leaves == [Trio EXCEPT !.rosters = <<{1, 2, 3}, {1, 2}>>, !.start = <<2, 1, 1>>, !.links = {<<3, 2>>}, !.losses = 1]

Names == INSTANCE MemberProfiles WITH
  Cases <- {NoNames, Lossy, Reopened, Pair, Joins, Held, Leaves},
  Nodes <- 1 .. 3, Links <- {<<1, 2>>, <<3, 2>>}, MAX_PAGE_PROFILES <- 2, Budget <- 3, MaxHeld <- 2

nameVars == <<setup, node, gossip, left>>

\* Names travel while the group rests as it was created.
MCInit == Names!Init /\ Init /\ (setup = NoNames \/ plan = CHOOSE c \in Cases : TRUE)

\* Where the clock rests every expiry ahead of it is alike, and one is enough.
ExpiryMatters ==
  Planned("Tick") \/ \A n \in Nodes : \A k \in DOMAIN tree[n].ext.controls : tree[n].ext.controls[k].expires = 0

MCNext ==
  \/ setup = NoNames /\ Next /\ ExpiryMatters' /\ UNCHANGED nameVars
  \/ Names!Next /\ UNCHANGED vars

MCSpec == MCInit /\ [][MCNext]_<<vars, nameVars>> /\ Names!Fairness

-----------------------------------------------------------------------------
\* A name that is known is not lost by an older answer or a later step
\* (MemberProfiles, merge_into and retain_held_profiles).
NamesStay == Names!NamesStay

=============================================================================
