----------------------------- MODULE ByteQueue ------------------------------
(***************************************************************************)
(* What a pipe promises: a bounded first-in first-out queue of bytes.      *)
(***************************************************************************)
EXTENDS Integers, Sequences

CONSTANTS Readers, Bytes, Capacity

VARIABLES queue, got       \* the queue, and what each reader got last

Init == queue = <<>> /\ got = [r \in Readers |-> <<>>]

Write(s) == Len(queue \o s) <= Capacity /\ queue' = queue \o s /\ UNCHANGED got

Read(r, n) ==
  /\ n <= Len(queue)
  /\ got' = [got EXCEPT ![r] = SubSeq(queue, 1, n)]
  /\ queue' = SubSeq(queue, n + 1, Len(queue))

(* The reader is done with its bytes. *)
Forget(r) == got' = [got EXCEPT ![r] = <<>>] /\ UNCHANGED queue

Next ==
  \/ \E n \in 1 .. Capacity : \E s \in [1 .. n -> Bytes] : Write(s)
  \/ \E r \in Readers : Forget(r) \/ \E n \in 0 .. Capacity : Read(r, n)

Spec == Init /\ [][Next]_<<queue, got>>
=============================================================================
