--------------------------- MODULE MCInterestSync ---------------------------
(***************************************************************************)
(* Instances of InterestSync for TLC.  The first policy lets everyone do   *)
(* everything; the second takes the first topic from the subscribers and,  *)
(* in some cases, the last one from the senders.                           *)
(***************************************************************************)
EXTENDS InterestSync

Narrower(takes) ==
  [r \in Revisions |->
     [endpoints |-> Peers,
      publish   |-> {x \in Peers \X Topics :
                       r > 1 /\ takes => ~ (x[1] \in Senders /\ x[2] = Max(Topics))},
      subscribe |-> {x \in Peers \X Topics : r > 1 => ~ (x[1] \in Subscribers /\ x[2] = Min(Topics))}]]
Never == [set |-> 0, legacy |-> 0, publish |-> 0, lost |-> 0, ack |-> 0, late |-> 0,
          overlay |-> 0, restart |-> 0, hint |-> 0]

MCCases ==
  [policy : {Narrower(TRUE)}, bounds :
     {[Never EXCEPT !.set = 2, !.publish = 1, !.late = 1, !.restart = 1],
      [Never EXCEPT !.set = 2, !.legacy = 1, !.publish = 1],
      [Never EXCEPT !.set = 2, !.publish = 1, !.overlay = 1]}]
  \cup [policy : {Narrower(FALSE)}, bounds :
     {[Never EXCEPT !.set = 3, !.lost = 1, !.hint = 1],
      [Never EXCEPT !.set = 3, !.lost = 1, !.ack = 1, !.restart = 1],
      [Never EXCEPT !.set = 2, !.late = 1, !.hint = 1],
      [Never EXCEPT !.set = 2, !.legacy = 1, !.hint = 1]}]
====
