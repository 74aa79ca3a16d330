----------------------------- MODULE MCThreads -----------------------------
(* Small instances of Threads. *)
EXTENDS Threads, TLC

(* initproc and a process with two threads. *)
BootPair == [p \in Proc |-> CASE p = initproc -> 1 [] p = 2 -> 2 [] OTHER -> 0]

CpuSymmetry == Permutations(CPUs)
=============================================================================
