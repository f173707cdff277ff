---------------------------- MODULE DurableState ----------------------------
(***************************************************************************)
(* What the stage, save, adopt discipline promises: the adopted state only *)
(* ever becomes what is durable, and what became visible outside the node  *)
(* is part of the durable state from then on.  A state is the set of       *)
(* operations it contains.                                                 *)
(***************************************************************************)
EXTENDS Naturals

CONSTANT Operations

VARIABLES
  durable,   \* operations in the saved state
  emitted    \* operations whose effects left the node

vars == <<durable, emitted>>

Init == durable = {} /\ emitted = {}

\* Saving a candidate keeps everything that was emitted.
Save ==
  \E next \in SUBSET Operations :
    /\ emitted \subseteq next
    /\ durable' = next
    /\ UNCHANGED emitted

\* Effects of saved operations leave the node.
Emit ==
  \E some \in SUBSET durable :
    /\ emitted' = emitted \cup some
    /\ UNCHANGED durable

Next == Save \/ Emit

Spec == Init /\ [][Next]_vars
=============================================================================
