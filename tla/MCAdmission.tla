---------------------------- MODULE MCAdmission ----------------------------
(***************************************************************************)
(* Small instances of what administrators decide: Admission, and the names *)
(* they give (WorkspaceNames).  A behaviour is about one of them and the   *)
(* other rests.                                                            *)
(*                                                                         *)
(* Admission: a1 and a2 need an approval, a3 does not.  Names: members 1   *)
(* and 2 start as administrators.                                          *)
(***************************************************************************)
EXTENDS Admission, WorkspaceNames

CONSTANTS a1, a2, a3

None == [ask |-> {}, once |-> {}, expire |-> {}, move |-> {}, direct |-> 0, blocks |-> 0,
         discards |-> 0, crashes |-> 0]

MCAttempts == {a1, a2, a3}
MCApproval == {a1, a2}
MCCases ==
  {[None EXCEPT !.ask = {a1, a3}, !.blocks = 1],
   [None EXCEPT !.ask = {a1, a2}],
   [None EXCEPT !.ask = {a3}, !.once = {a1, a2}],
   [None EXCEPT !.ask = {a3}, !.once = {a1}, !.discards = 1],
   [None EXCEPT !.ask = {a1}, !.once = {a3}, !.crashes = 1],
   [None EXCEPT !.ask = {a1}, !.once = {a3}, !.move = {a1}, !.expire = {a1}],
   [None EXCEPT !.ask = {a3}, !.direct = 1, !.blocks = 1, !.discards = 1, !.crashes = 1],
   None}

-----------------------------------------------------------------------------
All == Members
Epoch(members, admins) == [members |-> members, admins |-> admins]
Unnamed == [rosters |-> <<Epoch({}, {})>>, renames |-> 0, losses |-> 0]
\* Names that fork; a lost answer; an author demoted; an author removed and a
\* member that joins with an invitation of any of the epochs before.
Forks == [Unnamed EXCEPT !.rosters = <<Epoch({1, 2}, {1, 2})>>, !.renames = 4]
Lossy == [Forks EXCEPT !.rosters = <<Epoch(All, {1, 2})>>, !.renames = 2, !.losses = 1]
Demoted == [Forks EXCEPT !.rosters = <<Epoch(All, {1, 2}), Epoch(All, {1})>>, !.renames = 1]
Joined == [Forks EXCEPT !.renames = 2,
  !.rosters = <<Epoch({1, 2}, {1, 2}), Epoch({1}, {1}), Epoch({1, 3}, {1})>>]

MCScenes == {Unnamed, Forks, Lossy, Demoted, Joined}

MCInit == Init /\ NamesInit /\ (left = None) # (scene = Unnamed)

MCNext ==
  \/ scene = Unnamed /\ Next /\ UNCHANGED nameVars
  \/ NamesNext /\ UNCHANGED vars

MCSpec == MCInit /\ [][MCNext]_<<vars, nameVars>> /\ Fairness /\ NamesFairness

=============================================================================
