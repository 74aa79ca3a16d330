------------------------------- MODULE Malloc -------------------------------
(***************************************************************************)
(* The user-space allocator (umalloc.c), used by one thread: malloc, free  *)
(* and morecore on the circular list of free blocks.  Addresses and sizes  *)
(* are in units of a Header; address 0 is &base, the heap begins at 1.     *)
(***************************************************************************)
EXTENDS Integers, Sequences, FiniteSets, FiniteSetsExt, SequencesExt

CONSTANTS
  MINCORE,     \* the least morecore asks for (4096)
  LIMIT,       \* the most sbrk gives
  Requests     \* nunits of the calls of malloc

VARIABLES
  brk,         \* end of the heap
  ring,        \* the free list as s.ptr links it, from freep on
  live         \* blocks malloc returned and free has not got back

heapVars == <<brk, ring, live>>

Block(a, n) == [a |-> a, n |-> n]         \* a header's address and s.size
MallocInit == brk = 1 /\ ring = <<>> /\ live = {}

Rotated(rg, i) == SubSeq(rg, i, Len(rg)) \o SubSeq(rg, 1, i - 1)

(* free: p is the block after which b belongs by its address, or the last  *)
(* before the list wraps; b is joined with the block above it, then with p.*)
Belongs(rg, i, b) ==
  LET p == rg[i].a
      next == rg[(i % Len(rg)) + 1].a
  IN (b.a > p /\ b.a < next) \/ (p >= next /\ (b.a > p \/ b.a < next))
Adjacent(b, c) == b.a + b.n = c.a
Inserted(rg, b) ==
  LET i == Min({k \in 1 .. Len(rg) : Belongs(rg, k, b)})
      p == rg[i]
      rest == Tail(Rotated(rg, i))
      up == rest # <<>> /\ Adjacent(b, Head(rest))
      joined == IF up THEN Block(b.a, b.n + Head(rest).n) ELSE b
  IN (IF Adjacent(p, b) THEN <<Block(p.a, p.n + joined.n)>> ELSE <<p, joined>>)
     \o (IF up THEN Tail(rest) ELSE rest)

free(b) ==
  /\ ring' = Inserted(ring, b) /\ live' = live \ {b}
  /\ UNCHANGED brk

(* malloc: from the block behind freep, once around; the first that is     *)
(* large enough is taken, or cut at its tail.                              *)
Based == IF ring = <<>> THEN <<Block(0, 0)>> ELSE ring
FitsIn(b, n) == b.n >= n
Fit(rg, n) == SelectInSeq(Rotated(rg, IF Len(rg) = 1 THEN 1 ELSE 2), LAMBDA b : FitsIn(b, n))
Cut_early(b, n) == Block(b.a + b.n - n - 1, n)
Cut(b, n) == Block(b.a + b.n - n, n)
Remaining(rg, n) ==
  LET from == Rotated(rg, Fit(rg, n))
      b == from[2]
  IN IF b.n = n THEN RemoveAt(from, 2) ELSE [from EXCEPT ![2] = Block(b.a, b.n - n)]
Returned(rg, n) == Cut(Rotated(rg, Fit(rg, n))[2], n)

Take(rg, n) == ring' = Remaining(rg, n) /\ live' = live \union {Returned(rg, n)}

malloc(n) ==
  LET nu == Max({n, MINCORE}) IN
  IF Fit(Based, n) # 0
  THEN Take(Based, n) /\ UNCHANGED brk
  ELSE IF brk + nu <= LIMIT                  \* morecore
  THEN Take(Inserted(Based, Block(brk, nu)), n) /\ brk' = brk + nu
  ELSE ring' = Based /\ UNCHANGED <<brk, live>>

MallocNext == (\E n \in Requests : malloc(n)) \/ \E b \in live : free(b)
MallocSpec == MallocInit /\ [][MallocNext]_heapVars

-----------------------------------------------------------------------------
(* Properties *)

FreeBlocks == ToSet(ring) \ {Block(0, 0)}
Units(b) == b.a .. b.a + b.n - 1

(* The heap is at all times cut into free blocks and blocks in use: they   *)
(* do not overlap and nothing is lost.  Free blocks never lie side by      *)
(* side, as free joins a block with both neighbours, so that a request is  *)
(* passed to the kernel only when no gap is large enough.                  *)
HeapPartitioned ==
  /\ UNION {Units(b) : b \in FreeBlocks \union live} = 1 .. brk - 1
  /\ MapThenSumSet(LAMBDA b : b.n, FreeBlocks \union live) = brk - 1
  /\ FreeBlocks \intersect live = {}
  /\ \A b, c \in FreeBlocks : ~Adjacent(b, c)
=============================================================================
