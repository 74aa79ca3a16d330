---------------------------- MODULE AtomicStore -----------------------------
(***************************************************************************)
(* What the log promises: blocks with a volatile view and a durable state. *)
(* The durable state changes only to a view in which every operation that  *)
(* began has ended, and a crash takes the view back to it.                 *)
(***************************************************************************)
CONSTANTS Ops, Blocks, Values, Zero

VARIABLES stable, view, active

TypeOK == stable \in [Blocks -> Values] /\ view \in [Blocks -> Values] /\ active \subseteq Ops

Init == stable = [b \in Blocks |-> Zero] /\ view = stable /\ active = {}

Begin(t) == t \notin active /\ active' = active \union {t} /\ UNCHANGED <<stable, view>>

Write(t, b, v) ==
  /\ t \in active
  /\ view' = [view EXCEPT ![b] = v]
  /\ UNCHANGED <<stable, active>>

End(t) == t \in active /\ active' = active \ {t} /\ UNCHANGED <<stable, view>>

Commit == active = {} /\ stable' = view /\ UNCHANGED <<view, active>>

Crash == view' = stable /\ active' = {} /\ UNCHANGED stable

Next ==
  \/ \E t \in Ops : Begin(t) \/ End(t) \/ \E b \in Blocks, v \in Values : Write(t, b, v)
  \/ Commit \/ Crash

Spec == Init /\ [][Next]_<<stable, view, active>>
=============================================================================
