----------------------------- MODULE BlockStore -----------------------------
(***************************************************************************)
(* What the buffer cache promises: every disk block has one current value  *)
(* and at most one thread that may look at it or change it.                *)
(***************************************************************************)
CONSTANTS Users, Blocks, Values, Zero, Nobody

VARIABLES value, holder

Init == value = [b \in Blocks |-> Zero] /\ holder = [b \in Blocks |-> Nobody]

Acquire(t, b) == holder[b] = Nobody /\ holder'[b] = t /\ value'[b] = value[b]
Write(t, b) == holder[b] = t /\ holder'[b] = t /\ value'[b] \in Values
Release(t, b) == holder[b] = t /\ holder'[b] = Nobody /\ value'[b] = value[b]

(* A step changes one block. *)
Next ==
  LET changed == {b \in Blocks : value'[b] # value[b] \/ holder'[b] # holder[b]} IN
  \E b \in changed : changed = {b} /\ \E t \in Users : Acquire(t, b) \/ Write(t, b) \/ Release(t, b)

Spec == Init /\ [][Next]_<<value, holder>>
=============================================================================
