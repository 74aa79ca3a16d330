------------------------------- MODULE Memory -------------------------------
(***************************************************************************)
(* Physical pages (kalloc.c) and address spaces (vm.c) with the calls that *)
(* change them: growproc, fork, exec and wait.  Pages are interchangeable: *)
(* what is kept is how many are free, and what each address space has.  A  *)
(* kalloc is a step of its own; consecutive kfrees are one step, as a      *)
(* kalloc between two of them finds what it finds after both.  fork,       *)
(* growproc and wait hold ptable.lock throughout, exec does not.  One page *)
(* table covers the user pages of the model; kernel stacks are Threads'.   *)
(***************************************************************************)
EXTENDS Integers, FiniteSets, Totals

CONSTANTS
  MProcs, NoOne,
  NPAGES, PGSIZE, KERNBASE,  \* sizes and addresses are in the same unit
  KPT,                       \* page table pages the kernel's mappings take
  ImageSizes, Increments

UserPage == 0 .. KERNBASE \div PGSIZE - 1        \* pages of a user address space
PGROUNDUP(n) == ((n + PGSIZE - 1) \div PGSIZE) * PGSIZE
PagesUpTo(n) == {k \in UserPage : k * PGSIZE < n}

(* KERNBASE is a multiple of the page size; allocuvm refuses an image that *)
(* reaches it.                                                             *)
ASSUME MemAssumption ==
  /\ IsFiniteSet(MProcs) /\ MProcs # {} /\ NoOne \notin MProcs
  /\ PGSIZE \in Nat \ {0} /\ KERNBASE \in Nat /\ PGSIZE < KERNBASE /\ KERNBASE % PGSIZE = 0
  /\ KPT \in Nat /\ NPAGES \in Nat /\ NPAGES >= KPT + 3
  /\ ImageSizes \subseteq 0 .. KERNBASE - 1 /\ Increments \subseteq Nat

VARIABLES
  nfree,        \* length of kmem.freelist
  space, sz,    \* address space of each process (pgdir) and its size
  ptl,          \* who holds ptable.lock
  mt,           \* the call each process is in, with the space it builds
  emptied,      \* processes whose growproc went down to size 0: see Shrink
  memHalt       \* a panic

memVars == <<nfree, space, sz, ptl, mt, emptied, memHalt>>

(* pgdir 0; an address space has its directory, kernel page tables, a user *)
(* page table and user pages.                                              *)
NoSpace == [dir |-> 0, kpt |-> 0, upt |-> 0, map |-> {}]
PagesIn(d) == d.dir + d.kpt + d.upt + Cardinality(d.map)
MUser == [pc |-> "user", call |-> "none", d |-> NoSpace, from |-> 0, a |-> 0, to |-> 0, mem |-> 0, child |-> NoOne]

(* userinit: one process of one page. *)
MemInit ==
  LET p == CHOOSE p \in MProcs : TRUE IN
  /\ nfree = NPAGES - KPT - 3
  /\ space = [q \in MProcs |-> IF q = p THEN [dir |-> 1, kpt |-> KPT, upt |-> 1, map |-> {0}] ELSE NoSpace]
  /\ sz = [q \in MProcs |-> IF q = p THEN PGSIZE ELSE 0]
  /\ ptl = NoOne /\ mt = [q \in MProcs |-> MUser] /\ emptied = {} /\ memHalt = FALSE

MAt(p, l) == ~memHalt /\ space[p] # NoSpace /\ mt[p].pc = l
MSet(p, r) == mt' = [mt EXCEPT ![p] = r]
kalloc == nfree' = nfree - 1
kfree(n) == nfree' = nfree + n

(* deallocuvm unmaps the pages of d from newsz up to oldsz. *)
Unmapped_last(d, oldsz, newsz) == {k \in d.map \intersect PagesUpTo(oldsz) : k * PGSIZE > newsz}
Unmapped(d, oldsz, newsz) == {k \in d.map \intersect PagesUpTo(oldsz) : k * PGSIZE >= newsz}
deallocuvm(d, oldsz, newsz) == [d EXCEPT !.map = @ \ Unmapped(d, oldsz, newsz)]

(* freevm: the user pages, the page tables and the directory. *)
freevm_tables(d) == d.dir + Cardinality(d.map)
freevm(d) == d.dir + d.kpt + d.upt + Cardinality(d.map)

(* fork or exec fails: what was built so far is given back. *)
FailBuild(p) == kfree(freevm(mt[p].d) + mt[p].mem) /\ MSet(p, MUser)
(* allocuvm fails for growproc. *)
FailGrow(p) ==
  LET r == mt[p]
      gone == Unmapped(space[p], r.to, r.from)
  IN /\ kfree(Cardinality(gone) + r.mem)
     /\ space' = [space EXCEPT ![p] = deallocuvm(@, r.to, r.from)]
     /\ ptl' = NoOne /\ MSet(p, MUser)

-----------------------------------------------------------------------------
(* growproc: under ptable.lock, shrink (to size 0, the call fails with its *)
(* pages freed: sz keeps its value),                                       *)
Shrink(p, n) ==
  /\ MAt(p, "user") /\ ptl = NoOne /\ n <= sz[p]
  /\ kfree(Cardinality(Unmapped(space[p], sz[p], sz[p] - n)))
  /\ space' = [space EXCEPT ![p] = deallocuvm(@, sz[p], sz[p] - n)]
  /\ sz' = [sz EXCEPT ![p] = IF n = @ THEN @ ELSE @ - n]
  /\ emptied' = IF n = sz[p] THEN emptied \union {p} ELSE emptied
  /\ UNCHANGED <<ptl, mt, memHalt>>

(* or grow by allocuvm. *)
Grow(p, n) ==
  /\ MAt(p, "user") /\ ptl = NoOne /\ sz[p] + n < KERNBASE
  /\ ptl' = p
  /\ MSet(p, [MUser EXCEPT !.pc = "alloc", !.call = "grow",
                !.from = sz[p], !.a = PGROUNDUP(sz[p]), !.to = sz[p] + n])
  /\ UNCHANGED <<nfree, space, sz, emptied, memHalt>>

(* One turn of the loop of allocuvm or copyuvm: a page, *)
AllocPage(p) ==
  LET r == mt[p] IN
  /\ MAt(p, "alloc") /\ r.a < r.to
  /\ memHalt' = (r.call = "fork" /\ r.a \div PGSIZE \notin space[p].map)   \* copyuvm: page not present
  /\ IF nfree > 0
     THEN kalloc /\ MSet(p, [r EXCEPT !.pc = "map", !.mem = 1]) /\ UNCHANGED <<space, ptl>>
     ELSE IF r.call = "grow" THEN FailGrow(p)
     ELSE FailBuild(p) /\ UNCHANGED <<space, ptl>>         \* fork keeps ptable.lock
  /\ UNCHANGED <<sz, emptied>>

(* and its entry, which may take a page table page. *)
MapPage(p) ==
  LET r == mt[p]
      k == r.a \div PGSIZE
      d == IF r.call = "grow" THEN space[p] ELSE r.d
      mapped == [d EXCEPT !.map = @ \union {k}, !.upt = 1]
      next == [r EXCEPT !.pc = "alloc", !.a = @ + PGSIZE, !.mem = 0]
  IN /\ MAt(p, "map")
     /\ memHalt' = (k \in d.map)                            \* remap
     /\ IF d.upt = 1 \/ nfree > 0
        THEN /\ nfree' = nfree - (1 - d.upt)
             /\ space' = IF r.call = "grow" THEN [space EXCEPT ![p] = mapped] ELSE space
             /\ MSet(p, IF r.call = "grow" THEN next ELSE [next EXCEPT !.d = mapped])
             /\ UNCHANGED ptl
        ELSE IF r.call = "grow" THEN FailGrow(p)
        ELSE FailBuild(p) /\ UNCHANGED <<space, ptl>>
     /\ UNCHANGED <<sz, emptied>>

GrowDone(p) ==
  /\ MAt(p, "alloc") /\ mt[p].call = "grow" /\ mt[p].a >= mt[p].to
  /\ sz' = [sz EXCEPT ![p] = mt[p].to]
  /\ ptl' = NoOne /\ MSet(p, MUser)
  /\ UNCHANGED <<nfree, space, emptied, memHalt>>

-----------------------------------------------------------------------------
(* fork and exec build a new address space: setupkvm first. *)
Fork(p, q) ==
  /\ MAt(p, "user") /\ ptl = NoOne /\ space[q] = NoSpace
  /\ ptl' = p
  /\ MSet(p, [MUser EXCEPT !.pc = "setupkvm", !.call = "fork", !.to = sz[p], !.child = q])
  /\ UNCHANGED <<nfree, space, sz, emptied, memHalt>>

Exec(p, n) ==
  /\ MAt(p, "user")
  /\ MSet(p, [MUser EXCEPT !.pc = "setupkvm", !.call = "image", !.to = n])
  /\ UNCHANGED <<nfree, space, sz, ptl, emptied, memHalt>>

setupkvm(p) ==
  LET r == mt[p]
      d == IF r.d.dir = 0 THEN [r.d EXCEPT !.dir = 1] ELSE [r.d EXCEPT !.kpt = @ + 1]
  IN /\ MAt(p, "setupkvm")
     /\ IF nfree = 0 THEN FailBuild(p)
        ELSE kalloc /\ MSet(p, [r EXCEPT !.d = d, !.pc = IF d.kpt = KPT THEN "alloc" ELSE "setupkvm"])
     /\ UNCHANGED <<space, sz, ptl, emptied, memHalt>>

ForkDone(p) ==
  LET r == mt[p] IN
  /\ MAt(p, "alloc") /\ r.call = "fork" /\ r.a >= r.to
  /\ space' = [space EXCEPT ![r.child] = r.d]
  /\ sz' = [sz EXCEPT ![r.child] = sz[p]]
  /\ ptl' = NoOne /\ MSet(p, MUser)
  /\ UNCHANGED <<nfree, emptied, memHalt>>

(* exec: the image has been read, two pages follow it, *)
ExecLoaded(p) ==
  LET r == mt[p]
      top == PGROUNDUP(r.to)
  IN /\ MAt(p, "alloc") /\ r.call = "image" /\ r.a >= r.to /\ top + 2 * PGSIZE < KERNBASE
     /\ MSet(p, [r EXCEPT !.call = "stack", !.from = top, !.a = top, !.to = top + 2 * PGSIZE])
     /\ UNCHANGED <<nfree, space, sz, ptl, emptied, memHalt>>

(* a file that cannot be read, no room, or arguments that do not fit; *)
ExecBad(p) ==
  /\ MAt(p, "alloc") /\ mt[p].call \in {"image", "stack"} /\ mt[p].a >= mt[p].to
  /\ FailBuild(p)
  /\ UNCHANGED <<space, sz, ptl, emptied, memHalt>>

(* and the new address space replaces the old one, which is freed. *)
ExecDone(p) ==
  LET r == mt[p] IN
  /\ MAt(p, "alloc") /\ r.call = "stack" /\ r.a >= r.to
  /\ space' = [space EXCEPT ![p] = r.d]
  /\ sz' = [sz EXCEPT ![p] = r.to]
  /\ kfree(freevm(space[p]))
  /\ MSet(p, MUser) /\ emptied' = emptied \ {p}
  /\ UNCHANGED <<ptl, memHalt>>

(* wait, once the process has exited. *)
Wait(p) ==
  /\ MAt(p, "user") /\ ptl = NoOne /\ \E q \in MProcs \ {p} : space[q] # NoSpace
  /\ kfree(freevm(space[p]))
  /\ space' = [space EXCEPT ![p] = NoSpace] /\ sz' = [sz EXCEPT ![p] = 0]
  /\ emptied' = emptied \ {p}
  /\ UNCHANGED <<ptl, mt, memHalt>>

MemNext ==
  \E p \in MProcs :
    \/ AllocPage(p) \/ MapPage(p) \/ GrowDone(p) \/ setupkvm(p) \/ ForkDone(p) \/ ExecLoaded(p) \/ ExecBad(p) \/ ExecDone(p)
    \/ Wait(p) \/ (\E q \in MProcs : Fork(p, q)) \/ (\E n \in ImageSizes : Exec(p, n))
    \/ \E n \in Increments : Grow(p, n) \/ Shrink(p, n)
MemSpec == MemInit /\ [][MemNext]_memVars

-----------------------------------------------------------------------------
(* Properties *)

(* Every page is free, or part of an address space (a process's or one     *)
(* being built), or in the hands of one call: none is leaked and none      *)
(* freed twice, on the error paths too.                                    *)
PagesHeldBy(p) == PagesIn(space[p]) + PagesIn(mt[p].d) + mt[p].mem
PagesConserved == nfree + Total([p \in MProcs |-> PagesHeldBy(p)]) = NPAGES

(* An address space maps the pages below its process's size and no others, *)
(* whenever no call is changing it: so growproc, fork and exec never map a *)
(* page twice ("remap") nor copy one that is missing ("copyuvm: page not   *)
(* present").  Except after a growproc to size 0.                          *)
SizeMapped ==
  /\ \A p \in MProcs \ emptied : (space[p] # NoSpace /\ mt[p].call # "grow") => space[p].map = PagesUpTo(sz[p])
  /\ memHalt => emptied # {}
=============================================================================
