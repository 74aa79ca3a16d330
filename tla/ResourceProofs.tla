--------------------------- MODULE ResourceProofs ---------------------------
(***************************************************************************)
(* What the kernel hands out and takes back, for any sizes.                *)
(*                                                                         *)
(* The slots of the kernel mutexes: with one allocator, alloc returns an   *)
(* id that is not in use and touches no slot that is.                      *)
(*                                                                         *)
(* Physical pages: none is lost on any path of growproc, fork, exec and    *)
(* wait, and an address space maps what the size of its process says.      *)
(***************************************************************************)
EXTENDS KMutex, Memory, FiniteSetTheorems, TLAPS

(* Zenon proves most of these steps; where it takes arithmetic, strings or *)
(* many functions at once, the step asks for SMT.                          *)
USE ZenonT(30)

-----------------------------------------------------------------------------
(* Who is where *)

LEMMA ActiveAt ==
  ASSUME NEW t
  PROVE  /\ pc[t] \in Locking => Active(t)
         /\ Pending(t) => Active(t)
         /\ pc[t] \in Placed => Pending(t)
         /\ Freeing(t) => Pending(t)
BY DEF Locking, Active, Pending, Freeing, Counted, Placed, Allocating

(* A caller outside alloc and dealloc knows nothing. *)
LEMMA IdleCaller ==
  ASSUME NEW u, ~Active(u)', mutexes_lock' # u, pc'[u] = "dealloc" => (id'[u] \in Ids \/ id'[u] \in StrayIds)
  PROVE  CallerInv(u)' /\ ~Pending(u)'
<1>1. /\ pc'[u] \notin Allocating /\ ~Freeing(u)' /\ pc'[u] # "release_dec"
  BY DEF Active
<1>2. /\ pc'[u] \notin Counted /\ pc'[u] \notin Placed /\ pc'[u] \notin {"acquire_num", "count"}
      /\ pc'[u] \notin {"acquire_copy", "copy_back", "release_copy", "alloc_return"}
      /\ pc'[u] \notin {"fill", "release_slot"} /\ pc'[u] # "acquire_slot" /\ pc'[u] # "release_slot"
  BY <1>1 DEF Allocating, Counted, Placed
<1>3. pc'[u] # "dealloc_copy" /\ pc'[u] \notin Locking
  BY <1>1 DEF Freeing, Locking, Allocating, Counted, Placed
<1> QED
  BY <1>1, <1>2, <1>3 DEF CallerInv, Pending

(* While one caller allocates or deallocates, the others do neither. *)
LEMMA OthersIdle ==
  ASSUME SlotInv, OneAllocator, NEW t \in Callers, t \in Allocators, NEW u \in Callers, u # t
  PROVE  ~Active(u) /\ ~Pending(u) /\ mutexes_lock # u
<1>1. CallerInv(u)
  BY DEF SlotInv
<1>2. ~Active(u)
  BY <1>1 DEF CallerInv, OneAllocator
<1> QED
  BY <1>1, <1>2, ActiveAt DEF CallerInv

LEMMA AllocatorStep ==
  ASSUME SlotInv, OneAllocator, NEW t \in Callers, t \in Allocators,
         \A u \in Callers : u # t => pc'[u] = pc[u] /\ id'[u] = id[u],
         TypeOK', mutexes_lock' \in {Free, t}, halt' = "no", CallerInv(t)',
         live' = 1 .. IF Pending(t)' THEN mutex_num' - 1 ELSE mutex_num',
         \A i \in live' : mutexes'[i] = Intact(i)
  PROVE  SlotInv'
<1>1. ASSUME NEW u \in Callers, u # t PROVE CallerInv(u)' /\ ~Pending(u)'
  <2>1. ~Active(u) /\ CallerInv(u) /\ pc'[u] = pc[u] /\ id'[u] = id[u]
    BY <1>1, OthersIdle DEF SlotInv
  <2>2. ~Active(u)'
    BY <2>1 DEF Active, Freeing
  <2>3. mutexes_lock' # u
    BY <1>1, CallerAssumption
  <2>4. pc'[u] = "dealloc" => (id'[u] \in Ids \/ id'[u] \in StrayIds)
    BY <2>1 DEF CallerInv
  <2> QED
    BY <2>2, <2>3, <2>4, IdleCaller
<1>2. (\E u \in Callers : Pending(u)') <=> Pending(t)'
  BY <1>1
<1>3. live' = 1 .. IF \E u \in Callers : Pending(u)' THEN mutex_num' - 1 ELSE mutex_num'
  BY <1>2
<1>4. \A u \in Callers : CallerInv(u)'
  BY <1>1
<1> QED
  BY <1>3, <1>4 DEF SlotInv, Intact

(* A step outside alloc and dealloc. *)
LEMMA OtherStep ==
  ASSUME SlotInv, NEW t \in Callers,
         \A u \in Callers : u # t => pc'[u] = pc[u] /\ id'[u] = id[u] /\ copy'[u] = copy[u],
         ~Active(t), ~Active(t)', pc'[t] = "dealloc" => (id'[t] \in Ids \/ id'[t] \in StrayIds),
         TypeOK', UNCHANGED <<mutex_num, mutexes, mutexes_lock, live, halt>>
  PROVE  SlotInv'
<1>1. CallerInv(t)' /\ ~Pending(t)'
  <2>1. mutexes_lock # t
    BY ActiveAt DEF SlotInv, CallerInv
  <2> QED
    BY <2>1, IdleCaller
<1>2. ~Pending(t)
  BY ActiveAt
<1>3. ASSUME NEW u \in Callers, u # t PROVE CallerInv(u)' /\ Pending(u)' = Pending(u)
  <2>1. CallerInv(u) /\ pc'[u] = pc[u] /\ id'[u] = id[u] /\ copy'[u] = copy[u]
    BY <1>3 DEF SlotInv
  <2>2. Freeing(u)' = Freeing(u)
    BY <2>1 DEF Freeing
  <2> QED
    BY ZenonT(60), <2>1, <2>2 DEF CallerInv, Pending, Active, Intact
<1>4. \A u \in Callers : CallerInv(u)' /\ (Pending(u)' <=> Pending(u))
  BY <1>1, <1>2, <1>3
<1> QED
  BY <1>4 DEF SlotInv, Intact

LEMMA AllocatorAt ==
  ASSUME SlotInv, OneAllocator, NEW t \in Callers, t \in Allocators
  PROVE  /\ CallerInv(t)
         /\ live = 1 .. IF Pending(t) THEN mutex_num - 1 ELSE mutex_num
         /\ mutexes_lock \in {Free, t}
         /\ \A i \in live : mutexes[i] = Intact(i)
<1>1. (\E u \in Callers : Pending(u)) <=> Pending(t)
  BY OthersIdle
<1>2. mutexes_lock \in {Free, t}
  BY OthersIdle DEF SlotInv, TypeOK, Holder
<1> QED
  BY <1>1, <1>2 DEF SlotInv

(* The places of a call, one set at a time. *)
LEMMA Moves ==
  ASSUME TypeOK, NEW t \in Callers, NEW l \in Location, Goto(t, l)
  PROVE  /\ pc' \in [Callers -> Location] /\ pc'[t] = l
         /\ \A u \in Callers : u # t => pc'[u] = pc[u]
BY DEF TypeOK, Goto

-----------------------------------------------------------------------------
(* acquire and release of mutexes_lock *)

LEMMA AcquireKeeps ==
  ASSUME SlotInv, OneAllocator, NEW t \in Callers,
         \/ acquire(t, "acquire_num", "count")
         \/ acquire(t, "acquire_copy", "copy_back")
         \/ acquire(t, "acquire_dec", "discount")
  PROVE  SlotInv'
<1> USE DEF acquire, At
<1>1. Active(t) /\ t \in Allocators
  BY DEF Active, Allocating, Counted, Placed, Freeing, SlotInv, CallerInv
<1>2. /\ CallerInv(t) /\ TypeOK /\ halt = "no" /\ \A i \in live : mutexes[i] = Intact(i)
      /\ live = 1 .. IF Pending(t) THEN mutex_num - 1 ELSE mutex_num
  BY <1>1, AllocatorAt DEF SlotInv
<1>3. \E l \in Location : Goto(t, l)
  BY DEF Location
<1>4. /\ pc' \in [Callers -> Location] /\ \A u \in Callers : u # t => pc'[u] = pc[u]
  BY <1>2, <1>3, Moves
<1>5. \/ pc[t] = "acquire_num" /\ pc'[t] = "count"
      \/ pc[t] = "acquire_copy" /\ pc'[t] = "copy_back"
      \/ pc[t] = "acquire_dec" /\ pc'[t] = "discount"
  BY <1>2 DEF Goto, TypeOK
<1>6. /\ mutexes_lock' = t /\ halt' = "no"
      /\ UNCHANGED <<mutex_num, mutexes, id, copy, live, held>>
  BY <1>2 DEF arrayVars, userVars
<1>7. TypeOK'
  BY <1>2, <1>4, <1>6 DEF TypeOK, Holder
<1>8. Pending(t)' = Pending(t)
  BY <1>5, <1>6 DEF Pending, Counted, Placed, Freeing
<1>9. CallerInv(t)'
  BY SMTT(30), <1>1, <1>2, <1>5, <1>6 DEF CallerInv, Active, Pending, Freeing, Counted, Placed, Allocating, Locking, Intact
<1> QED
  BY <1>1, <1>2, <1>4, <1>6, <1>7, <1>8, <1>9, AllocatorStep

LEMMA ReleaseKeeps ==
  ASSUME SlotInv, OneAllocator, NEW t \in Callers,
         \/ release(t, "release_num", "slot")
         \/ release(t, "release_copy", "alloc_return")
         \/ release(t, "release_dec", "user")
  PROVE  SlotInv'
<1> USE DEF release, At
<1>1. Active(t) /\ t \in Allocators
  BY DEF Active, Allocating, Counted, Placed, Freeing, SlotInv, CallerInv
<1>2. /\ CallerInv(t) /\ TypeOK /\ halt = "no" /\ \A i \in live : mutexes[i] = Intact(i)
      /\ live = 1 .. IF Pending(t) THEN mutex_num - 1 ELSE mutex_num
  BY <1>1, AllocatorAt DEF SlotInv
<1>3. \E l \in Location : Goto(t, l)
  BY DEF Location
<1>4. /\ pc' \in [Callers -> Location] /\ \A u \in Callers : u # t => pc'[u] = pc[u]
  BY <1>2, <1>3, Moves
<1>5. \/ pc[t] = "release_num" /\ pc'[t] = "slot"
      \/ pc[t] = "release_copy" /\ pc'[t] = "alloc_return"
      \/ pc[t] = "release_dec" /\ pc'[t] = "user"
  BY <1>2 DEF Goto, TypeOK
<1>6. mutexes_lock = t
  BY <1>2, <1>5 DEF CallerInv, Locking
<1>7. /\ mutexes_lock' = Free /\ halt' = "no"
      /\ UNCHANGED <<mutex_num, mutexes, id, copy, live, held>>
  BY <1>2, <1>6 DEF arrayVars, userVars
<1>8. TypeOK'
  BY <1>2, <1>4, <1>7 DEF TypeOK, Holder
<1>9. Pending(t)' = Pending(t)
  BY <1>5, <1>7 DEF Pending, Counted, Placed, Freeing
<1>10. CallerInv(t)'
  BY SMTT(30), <1>1, <1>2, <1>5, <1>7, CallerAssumption DEF CallerInv, Active, Pending, Freeing, Counted, Placed, Allocating, Locking, Intact
<1> QED
  BY <1>1, <1>2, <1>4, <1>7, <1>8, <1>9, <1>10, AllocatorStep

-----------------------------------------------------------------------------
(* kthread_mutex_alloc *)

LEMMA TestsKeep ==
  ASSUME SlotInv, OneAllocator, NEW t \in Callers, FirstUse(t) \/ initlock(t) \/ Full(t)
  PROVE  SlotInv'
<1> USE DEF FirstUse, initlock, Full, At
<1>1. Active(t) /\ t \in Allocators
  BY DEF Active, Allocating, Counted, Placed, Freeing, SlotInv, CallerInv
<1>2. /\ CallerInv(t) /\ TypeOK /\ halt = "no" /\ mutexes_lock \in {Free, t}
      /\ live = 1 .. IF Pending(t) THEN mutex_num - 1 ELSE mutex_num
      /\ \A i \in live : mutexes[i] = Intact(i)
  BY <1>1, AllocatorAt DEF SlotInv
<1>3. \E l \in Location : Goto(t, l)
  BY DEF Location
<1>4. /\ pc' \in [Callers -> Location] /\ \A u \in Callers : u # t => pc'[u] = pc[u]
  BY <1>2, <1>3, Moves
<1>5. /\ pc[t] \in {"alloc", "initlock", "full"}
      /\ pc'[t] \in {"initlock", "full", "user"} \/ (pc'[t] = "acquire_num" /\ mutex_num # MAX_MUTEXES)
  BY <1>2 DEF Goto, TypeOK
<1>6. /\ mutexes_lock' \in {mutexes_lock, Free} /\ halt' = "no"
      /\ UNCHANGED <<mutex_num, mutexes, id, copy, live, held>>
  BY <1>2 DEF arrayVars, userVars
<1>7. mutexes_lock' # t
  BY <1>2, <1>5, <1>6, CallerAssumption DEF CallerInv, Locking
<1>8. TypeOK'
  BY <1>2, <1>4, <1>6 DEF TypeOK, Holder
<1>9. ~Pending(t) /\ ~Pending(t)'
  BY <1>5, <1>6 DEF Pending, Counted, Placed, Freeing
<1>10. pc'[t] = "acquire_num" => mutex_num' < MAX_MUTEXES
  BY SMTT(30), <1>2, <1>5, <1>6, MaxAssumption DEF TypeOK
<1>11. CallerInv(t)'
  BY <1>1, <1>5, <1>7, <1>9, <1>10 DEF CallerInv, Active, Pending, Freeing, Counted, Placed, Allocating, Locking
<1> QED
  BY <1>1, <1>2, <1>4, <1>6, <1>8, <1>9, <1>11, AllocatorStep

LEMMA CountKeeps ==
  ASSUME SlotInv, OneAllocator, NEW t \in Callers, Count(t)
  PROVE  SlotInv'
<1> USE DEF Count, At
<1>1. Active(t) /\ t \in Allocators
  BY DEF Active, Allocating, Counted, Placed, Freeing, SlotInv, CallerInv
<1>2. /\ CallerInv(t) /\ TypeOK /\ halt = "no" /\ mutexes_lock \in {Free, t}
      /\ live = 1 .. IF Pending(t) THEN mutex_num - 1 ELSE mutex_num
      /\ \A i \in live : mutexes[i] = Intact(i)
  BY <1>1, AllocatorAt DEF SlotInv
<1>3. /\ pc' \in [Callers -> Location] /\ pc'[t] = "release_num"
      /\ \A u \in Callers : u # t => pc'[u] = pc[u]
  BY <1>2, Moves DEF Location
<1>4. /\ pc[t] = "count" /\ mutexes_lock = t /\ mutex_num < MAX_MUTEXES /\ ~Pending(t)
  BY <1>2 DEF CallerInv, Pending, Freeing, Counted, Placed, Locking
<1>5. /\ UNCHANGED <<mutexes, mutexes_lock, id, copy, live, held, halt>>
      /\ mutex_num' \in 0 .. MAX_MUTEXES /\ mutex_num' > 0 /\ mutex_num' - 1 = mutex_num
  BY SMTT(30), <1>2, <1>4, MaxAssumption DEF TypeOK, userVars
<1>6. TypeOK'
  BY <1>2, <1>3, <1>5 DEF TypeOK
<1>7. Pending(t)'
  BY <1>3 DEF Pending, Counted
<1>8. CallerInv(t)'
  BY <1>1, <1>3, <1>4, <1>5 DEF CallerInv, Active, Pending, Freeing, Counted, Placed, Allocating, Locking
<1> QED
  BY <1>1, <1>2, <1>3, <1>4, <1>5, <1>6, <1>7, <1>8, AllocatorStep

LEMMA SlotKeeps ==
  ASSUME SlotInv, OneAllocator, NEW t \in Callers, Slot(t)
  PROVE  SlotInv'
<1> USE DEF Slot, At
<1>1. Active(t) /\ t \in Allocators
  BY DEF Active, Allocating, Counted, Placed, Freeing, SlotInv, CallerInv
<1>2. /\ CallerInv(t) /\ TypeOK /\ halt = "no" /\ mutexes_lock \in {Free, t}
      /\ live = 1 .. IF Pending(t) THEN mutex_num - 1 ELSE mutex_num
      /\ \A i \in live : mutexes[i] = Intact(i)
  BY <1>1, AllocatorAt DEF SlotInv
<1>3. /\ pc' \in [Callers -> Location] /\ pc'[t] = "init_slot"
      /\ \A u \in Callers : u # t => pc'[u] = pc[u]
  BY <1>2, Moves DEF Location
<1>4. /\ pc[t] = "slot" /\ mutexes_lock # t /\ mutex_num > 0 /\ Pending(t)
  BY <1>2 DEF CallerInv, Pending, Freeing, Counted, Placed, Locking
<1>5. mutex_num \in Ids
  BY SMTT(30), <1>2, <1>4, MaxAssumption DEF TypeOK, Ids
<1>6. /\ UNCHANGED <<mutex_num, mutexes, mutexes_lock, copy, live, held>> /\ halt' = "no"
      /\ id' = [id EXCEPT ![t] = mutex_num]
  BY <1>2, <1>5 DEF arrayVars, userVars
<1>7. /\ id' \in [Callers -> Int] /\ id'[t] = mutex_num
      /\ \A u \in Callers : u # t => id'[u] = id[u]
  BY SMTT(30), <1>2, <1>6, MaxAssumption DEF TypeOK
<1>8. TypeOK'
  BY <1>2, <1>3, <1>6, <1>7 DEF TypeOK
<1>9. Pending(t)'
  BY <1>3 DEF Pending, Counted, Placed
<1>10. CallerInv(t)'
  BY <1>1, <1>3, <1>4, <1>6, <1>7 DEF CallerInv, Active, Pending, Freeing, Counted, Placed, Allocating, Locking
<1> QED
  BY <1>1, <1>2, <1>3, <1>4, <1>6, <1>7, <1>8, <1>9, <1>10, AllocatorStep

(* alloc writes to the slot mutex_num names, which is not live. *)
LEMMA SlotWritten ==
  ASSUME SlotInv, OneAllocator, NEW t \in Callers, pc[t] \in Placed,
         NEW m \in Mutex, mutexes' = [mutexes EXCEPT ![id[t]] = m],
         UNCHANGED <<mutex_num, id, live>>
  PROVE  /\ mutexes' \in [Ids -> Mutex] /\ id'[t] = mutex_num'
         /\ mutexes'[mutex_num'] = m /\ mutex_num' > 0
         /\ \A i \in live' : mutexes'[i] = Intact(i)
<1>1. /\ t \in Allocators /\ Pending(t) /\ CallerInv(t) /\ TypeOK
  BY DEF SlotInv, CallerInv, Active, Allocating, Counted, Pending
<1>2. /\ live = 1 .. (mutex_num - 1) /\ id[t] = mutex_num /\ mutex_num > 0
      /\ \A i \in live : mutexes[i] = Intact(i)
  BY <1>1, AllocatorAt DEF CallerInv
<1>3. mutex_num \in Ids /\ mutex_num \notin live /\ live \subseteq Ids
  BY SMTT(30), <1>1, <1>2, MaxAssumption DEF TypeOK, Ids
<1>4. mutexes \in [Ids -> Mutex]
  BY <1>1 DEF TypeOK
<1>5. \A i \in Ids : mutexes'[i] = IF i = mutex_num THEN m ELSE mutexes[i]
  BY <1>2, <1>3, <1>4
<1>6. mutexes' \in [Ids -> Mutex]
  BY <1>2, <1>3, <1>4
<1> QED
  BY <1>2, <1>3, <1>5, <1>6

LEMMA PlacedKeeps ==
  ASSUME SlotInv, OneAllocator, NEW t \in Callers, pc[t] \in Placed,
         NEW l \in Placed, Goto(t, l), mutexes_lock' = mutexes_lock, halt' = halt,
         pc[t] \in Locking <=> l \in Locking,
         NEW m \in Mutex, mutexes' = [mutexes EXCEPT ![id[t]] = m],
         UNCHANGED <<mutex_num, id, copy, live, held>>,
         l = "acquire_slot" => m.lk = Free, l \in {"fill", "release_slot"} => m.lk = t,
         l = "release_slot" => m.locked = 0 /\ m.id = mutex_num,
         l \in {"acquire_copy", "copy_back", "release_copy", "alloc_return"} => m = Intact(mutex_num)
  PROVE  SlotInv'
<1>1. Active(t) /\ t \in Allocators /\ Pending(t)
  BY DEF Active, Pending, Allocating, Counted, SlotInv, CallerInv
<1>2. /\ CallerInv(t) /\ TypeOK /\ halt = "no" /\ mutexes_lock \in {Free, t}
      /\ live = 1 .. IF Pending(t) THEN mutex_num - 1 ELSE mutex_num
  BY <1>1, AllocatorAt DEF SlotInv
<1>3. l \in Location
  BY DEF Placed, Location
<1>4. /\ pc' \in [Callers -> Location] /\ pc'[t] = l
      /\ \A u \in Callers : u # t => pc'[u] = pc[u]
  BY <1>2, <1>3, Moves
<1>5. /\ mutexes' \in [Ids -> Mutex] /\ id'[t] = mutex_num'
      /\ mutexes'[mutex_num'] = m /\ mutex_num' > 0
      /\ \A i \in live' : mutexes'[i] = Intact(i)
  BY SlotWritten
<1>6. TypeOK'
  BY <1>2, <1>4, <1>5 DEF TypeOK
<1>7. Pending(t)'
  BY <1>4 DEF Pending, Counted
<1>8. pc'[t] \notin {"acquire_num", "count", "dealloc", "dealloc_copy", "acquire_dec", "discount"}
  BY <1>4 DEF Placed
<1>9. ~Freeing(t)' /\ Active(t)'
  BY <1>4, <1>8 DEF Freeing, Active, Allocating, Counted
<1>10. mutexes_lock' = t <=> pc'[t] \in Locking
  BY <1>2, <1>4 DEF CallerInv
<1>11. CallerInv(t)'
  BY <1>1, <1>4, <1>5, <1>7, <1>8, <1>9, <1>10 DEF CallerInv, Intact
<1> QED
  BY <1>1, <1>2, <1>4, <1>5, <1>6, <1>7, <1>11, AllocatorStep

LEMMA HeldMutex ==
  ASSUME NEW m \in Mutex, NEW h \in Holder
  PROVE  /\ [m EXCEPT !.lk = h] \in Mutex /\ [m EXCEPT !.lk = h].lk = h
         /\ [m EXCEPT !.lk = h].locked = m.locked /\ [m EXCEPT !.lk = h].id = m.id
BY DEF Mutex

LEMMA FilledMutex ==
  ASSUME NEW m \in Mutex, NEW n \in 0 .. MAX_MUTEXES
  PROVE  /\ [m EXCEPT !.locked = 0, !.id = n] \in Mutex /\ [m EXCEPT !.locked = 0, !.id = n].lk = m.lk
         /\ [m EXCEPT !.locked = 0, !.id = n].locked = 0 /\ [m EXCEPT !.locked = 0, !.id = n].id = n
BY DEF Mutex

LEMMA IntactIs ==
  ASSUME NEW m \in Mutex, NEW n \in 0 .. MAX_MUTEXES, m.locked = 0, m.lk = Free, m.id = n
  PROVE  m = Intact(n)
BY DEF Mutex, Intact

LEMMA SlotKnown ==
  ASSUME SlotInv, OneAllocator, NEW t \in Callers, pc[t] \in Placed
  PROVE  /\ id[t] = mutex_num /\ mutex_num \in Ids /\ mutex_num \in 0 .. MAX_MUTEXES
         /\ mutexes \in [Ids -> Mutex] /\ mutexes[id[t]] \in Mutex /\ CallerInv(t) /\ halt = "no"
<1>1. CallerInv(t) /\ TypeOK /\ Pending(t) /\ halt = "no"
  BY DEF SlotInv, Pending, Counted
<1>2. id[t] = mutex_num /\ mutex_num > 0
  BY <1>1 DEF CallerInv
<1>3. mutex_num \in Ids
  BY SMTT(30), <1>1, <1>2, MaxAssumption DEF TypeOK, Ids
<1> QED
  BY <1>1, <1>2, <1>3 DEF TypeOK

LEMMA InitSlotKeeps ==
  ASSUME SlotInv, OneAllocator, NEW t \in Callers, InitSlot(t)
  PROVE  SlotInv'
<1> DEFINE m == [mutexes[id[t]] EXCEPT !.lk = Free]
<1>0. mutexes[id[t]] \in Mutex /\ Free \in Holder /\ t \in Holder /\ mutex_num \in 0 .. MAX_MUTEXES
  BY SlotKnown DEF InitSlot, At, Placed, Holder
<1>1. pc[t] = "init_slot" /\ pc[t] \in Placed /\ "acquire_slot" \in Placed
  BY DEF InitSlot, At, Placed
<1>2. m \in Mutex /\ m.lk = Free
  BY <1>0, HeldMutex
<1>3. mutexes' = [mutexes EXCEPT ![id[t]] = m]
  BY DEF InitSlot
<1>4. /\ Goto(t, "acquire_slot") /\ mutexes_lock' = mutexes_lock /\ halt' = halt
      /\ UNCHANGED <<mutex_num, id, copy, live, held>>
  BY DEF InitSlot, userVars
<1>5. pc[t] \in Locking <=> "acquire_slot" \in Locking
  BY <1>1 DEF Locking
<1> HIDE DEF m
<1> QED
  BY <1>1, <1>2, <1>3, <1>4, <1>5, PlacedKeeps

LEMMA AcquireSlotKeeps ==
  ASSUME SlotInv, OneAllocator, NEW t \in Callers, AcquireSlot(t)
  PROVE  SlotInv'
<1> DEFINE m == [mutexes[id[t]] EXCEPT !.lk = t]
<1>0. mutexes[id[t]] \in Mutex /\ Free \in Holder /\ t \in Holder /\ mutex_num \in 0 .. MAX_MUTEXES
  BY SlotKnown DEF AcquireSlot, At, Placed, Holder
<1>1. pc[t] = "acquire_slot" /\ pc[t] \in Placed /\ "fill" \in Placed
  BY DEF AcquireSlot, At, Placed
<1>2. m \in Mutex /\ m.lk = t
  BY <1>0, HeldMutex
<1>3. mutexes' = [mutexes EXCEPT ![id[t]] = m]
  BY DEF AcquireSlot
<1>4. /\ Goto(t, "fill") /\ mutexes_lock' = mutexes_lock /\ halt' = halt
      /\ UNCHANGED <<mutex_num, id, copy, live, held>>
  BY DEF AcquireSlot, userVars
<1>5. pc[t] \in Locking <=> "fill" \in Locking
  BY <1>1 DEF Locking
<1> HIDE DEF m
<1> QED
  BY <1>1, <1>2, <1>3, <1>4, <1>5, PlacedKeeps

LEMMA FillKeeps ==
  ASSUME SlotInv, OneAllocator, NEW t \in Callers, Fill(t)
  PROVE  SlotInv'
<1> DEFINE m == [mutexes[id[t]] EXCEPT !.locked = 0, !.id = mutex_num]
<1>0. mutexes[id[t]] \in Mutex /\ Free \in Holder /\ t \in Holder /\ mutex_num \in 0 .. MAX_MUTEXES
  BY SlotKnown DEF Fill, At, Placed, Holder
<1>1. pc[t] = "fill" /\ pc[t] \in Placed /\ "release_slot" \in Placed
  BY DEF Fill, At, Placed
<1>2. mutexes[id[t]].lk = t
  BY <1>1, SlotKnown DEF CallerInv
<1>3. m \in Mutex /\ m.lk = t /\ m.locked = 0 /\ m.id = mutex_num
  BY <1>0, <1>2, FilledMutex
<1>4. mutexes' = [mutexes EXCEPT ![id[t]] = m]
  BY DEF Fill
<1>5. /\ Goto(t, "release_slot") /\ mutexes_lock' = mutexes_lock /\ halt' = halt
      /\ UNCHANGED <<mutex_num, id, copy, live, held>>
  BY DEF Fill, userVars
<1>6. pc[t] \in Locking <=> "release_slot" \in Locking
  BY <1>1 DEF Locking
<1> HIDE DEF m
<1> QED
  BY <1>1, <1>3, <1>4, <1>5, <1>6, PlacedKeeps

LEMMA ReleaseSlotKeeps ==
  ASSUME SlotInv, OneAllocator, NEW t \in Callers, ReleaseSlot(t)
  PROVE  SlotInv'
<1> DEFINE m == [mutexes[id[t]] EXCEPT !.lk = Free]
<1>0. mutexes[id[t]] \in Mutex /\ Free \in Holder /\ t \in Holder /\ mutex_num \in 0 .. MAX_MUTEXES
  BY SlotKnown DEF ReleaseSlot, At, Placed, Holder
<1>1. pc[t] = "release_slot" /\ pc[t] \in Placed /\ "acquire_copy" \in Placed
  BY DEF ReleaseSlot, At, Placed
<1>2. mutexes[id[t]].lk = t /\ mutexes[id[t]].locked = 0 /\ mutexes[id[t]].id = mutex_num
  BY <1>1, SlotKnown DEF CallerInv
<1>3. m \in Mutex /\ m.lk = Free /\ m.locked = 0 /\ m.id = mutex_num
  BY <1>0, <1>2, HeldMutex
<1>4. mutexes' = [mutexes EXCEPT ![id[t]] = m] /\ halt' = halt
  BY <1>2 DEF ReleaseSlot
<1>5. /\ Goto(t, "acquire_copy") /\ mutexes_lock' = mutexes_lock
      /\ UNCHANGED <<mutex_num, id, copy, live, held>>
  BY DEF ReleaseSlot, userVars
<1>6. pc[t] \in Locking <=> "acquire_copy" \in Locking
  BY <1>1 DEF Locking
<1> HIDE DEF m
<1>7. m = Intact(mutex_num)
  BY <1>1, <1>3, SlotKnown, IntactIs
<1> QED
  BY <1>1, <1>3, <1>4, <1>5, <1>6, <1>7, PlacedKeeps

LEMMA CopyBackKeeps ==
  ASSUME SlotInv, OneAllocator, NEW t \in Callers, CopyBack(t)
  PROVE  SlotInv'
<1>1. pc[t] = "copy_back" /\ pc[t] \in Placed /\ "release_copy" \in Placed
  BY DEF CopyBack, At, Placed
<1>2. mutexes[mutex_num] = Intact(mutex_num) /\ mutexes[id[t]] = Intact(mutex_num)
  BY <1>1, SlotKnown DEF CallerInv
<1>3. mutexes[id[t]] \in Mutex /\ mutexes' = [mutexes EXCEPT ![id[t]] = mutexes[id[t]]] /\ halt' = halt
  BY <1>1, SlotKnown DEF CopyBack
<1>4. /\ Goto(t, "release_copy") /\ mutexes_lock' = mutexes_lock
      /\ UNCHANGED <<mutex_num, id, copy, live, held>>
  BY DEF CopyBack, userVars
<1>5. pc[t] \in Locking <=> "release_copy" \in Locking
  BY <1>1 DEF Locking
<1> QED
  BY <1>1, <1>2, <1>3, <1>4, <1>5, PlacedKeeps

LEMMA AllocReturnKeeps ==
  ASSUME SlotInv, OneAllocator, NEW t \in Callers, AllocReturn(t)
  PROVE  SlotInv'
<1>1. pc[t] = "alloc_return" /\ pc[t] \in Placed
  BY DEF AllocReturn, At, Placed
<1>2. /\ mutexes[id[t]] = Intact(mutex_num) /\ mutexes[mutex_num] = Intact(mutex_num)
      /\ CallerInv(t) /\ mutex_num \in Ids
  BY <1>1, SlotKnown DEF CallerInv
<1>3. Active(t) /\ t \in Allocators /\ Pending(t)
  BY <1>1, <1>2 DEF Active, Pending, Allocating, Counted, CallerInv
<1>4. /\ TypeOK /\ halt = "no" /\ mutexes_lock \in {Free, t}
      /\ live = 1 .. (mutex_num - 1) /\ \A i \in live : mutexes[i] = Intact(i)
  BY <1>3, AllocatorAt DEF SlotInv
<1>5. /\ pc' \in [Callers -> Location] /\ pc'[t] = "user"
      /\ \A u \in Callers : u # t => pc'[u] = pc[u]
  BY <1>4, Moves DEF AllocReturn, Location
<1>6. /\ UNCHANGED <<mutex_num, mutexes, mutexes_lock, id, copy, held, halt>>
      /\ live' = live \union {mutex_num}
  <2>1. mutexes[id[t]].id = mutex_num
    BY SMTT(30), <1>2 DEF Intact
  <2> QED
    BY <2>1 DEF AllocReturn, arrayVars
<1>7. live' = 1 .. mutex_num'
  BY SMTT(30), <1>2, <1>4, <1>6, MaxAssumption DEF Ids
<1>8. \A i \in live' : mutexes'[i] = Intact(i)
  BY <1>2, <1>4, <1>6
<1>9. TypeOK'
  BY <1>4, <1>5, <1>6 DEF TypeOK
<1>10. mutexes_lock' # t
  BY <1>1, <1>2, <1>6 DEF CallerInv, Locking
<1>11. ~Active(t)'
  BY <1>5 DEF Active, Allocating, Counted, Placed, Freeing
<1>12. CallerInv(t)' /\ ~Pending(t)'
  BY <1>5, <1>10, <1>11, IdleCaller
<1> QED
  BY <1>3, <1>4, <1>5, <1>6, <1>7, <1>8, <1>9, <1>12, AllocatorStep

-----------------------------------------------------------------------------
(* kthread_mutex_dealloc, and the copies of lock and unlock *)

LEMMA CopyTyped ==
  ASSUME TypeOK, NEW t \in Callers, NEW from, NEW to \in Location, CopyMutex(t, from, to)
  PROVE  /\ copy' \in [Callers -> Mutex] /\ pc' \in [Callers -> Location]
         /\ \A u \in Callers : u # t => pc'[u] = pc[u] /\ copy'[u] = copy[u]
         /\ pc'[t] = IF id[t] \in 0 .. MAX_MUTEXES THEN to ELSE "user"
         /\ id[t] \in Ids => copy'[t] = mutexes[id[t]]
<1>1. id[t] \in Int
  BY DEF TypeOK
<1>2. (0 > id[t] \/ id[t] > MAX_MUTEXES) <=> id[t] \notin 0 .. MAX_MUTEXES
  BY SMTT(30), <1>1, MaxAssumption
<1>3. CASE id[t] \notin 0 .. MAX_MUTEXES
  <2>1. Goto(t, "user") /\ copy' = copy
    BY <1>2, <1>3 DEF CopyMutex
  <2>2. id[t] \notin Ids
    BY SMTT(30), <1>1, <1>3, MaxAssumption DEF Ids
  <2> QED
    BY <1>3, <2>1, <2>2, Moves DEF TypeOK, Location
<1>4. CASE id[t] \in 0 .. MAX_MUTEXES
  <2>1. Goto(t, to)
    BY <1>2, <1>4 DEF CopyMutex
  <2>2. PICK m \in Contents(id[t]) : copy' = [copy EXCEPT ![t] = m]
    BY <1>2, <1>4 DEF CopyMutex
  <2>3. id[t] = 0 \/ id[t] \in Ids
    BY SMTT(30), <1>4, MaxAssumption DEF Ids
  <2>4. m \in Mutex
    BY <2>3 DEF Contents, TypeOK
  <2>5. id[t] \in Ids => m = mutexes[id[t]]
    <3>1. 0 \notin Ids
      BY SMTT(30), MaxAssumption DEF Ids
    <3> QED
      BY <3>1, <2>2 DEF Contents
  <2> QED
    BY <1>4, <2>1, <2>2, <2>4, <2>5, Moves DEF TypeOK
<1> QED
  BY <1>3, <1>4

LEMMA CopyKeeps ==
  ASSUME SlotInv, NEW t \in Callers,
         CopyMutex(t, "lock", "lock_copy") \/ CopyMutex(t, "unlock", "unlock_copy")
  PROVE  SlotInv'
<1>1. PICK to \in {"lock_copy", "unlock_copy"} : CopyMutex(t, pc[t], to) /\ pc[t] \in {"lock", "unlock"}
  BY DEF CopyMutex, At
<1>2. TypeOK /\ to \in Location
  BY DEF SlotInv, Location
<1>3. /\ copy' \in [Callers -> Mutex] /\ pc' \in [Callers -> Location]
      /\ \A u \in Callers : u # t => pc'[u] = pc[u] /\ copy'[u] = copy[u]
      /\ pc'[t] \in {"lock_copy", "unlock_copy", "user"}
  BY <1>1, <1>2, CopyTyped
<1>4. UNCHANGED <<mutex_num, mutexes, mutexes_lock, id, live, held, halt>>
  BY <1>1 DEF CopyMutex, arrayVars, userVars
<1>5. TypeOK'
  BY <1>2, <1>3, <1>4 DEF TypeOK
<1>6. ~Active(t) /\ ~Active(t)'
  BY <1>1, <1>3 DEF Active, Allocating, Counted, Placed, Freeing
<1> QED
  BY <1>3, <1>4, <1>5, <1>6, OtherStep

LEMMA LockCopyKeeps ==
  ASSUME SlotInv, NEW t \in Callers, LockCopy(t) \/ UnlockCopy(t)
  PROVE  SlotInv'
<1>1. /\ TypeOK /\ pc[t] \in {"lock_copy", "unlock_copy"} /\ copy[t] \in Mutex
      /\ UNCHANGED <<mutex_num, mutexes, mutexes_lock, id, live, halt>>
  BY DEF SlotInv, TypeOK, LockCopy, UnlockCopy, At, arrayVars, userVars
<1>2. \E l \in {"asleep", "user"} : Goto(t, l)
  BY DEF LockCopy, UnlockCopy
<1>3. /\ pc' \in [Callers -> Location] /\ pc'[t] \in {"asleep", "user"}
      /\ \A u \in Callers : u # t => pc'[u] = pc[u]
  BY <1>1, <1>2, Moves DEF Location
<1>4. \E m \in Mutex : copy' = [copy EXCEPT ![t] = m]
  <2>1. Zero \in Mutex
    BY SMTT(30), MaxAssumption DEF Zero, Mutex, Holder
  <2>2. [copy[t] EXCEPT !.locked = 1] \in Mutex
    BY <1>1 DEF Mutex
  <2>3. LockCopy(t) => copy' = [copy EXCEPT ![t] = [copy[t] EXCEPT !.locked = 1]]
    BY DEF LockCopy
  <2> QED
    BY <2>1, <2>2, <2>3 DEF UnlockCopy
<1>5. copy' \in [Callers -> Mutex] /\ \A u \in Callers : u # t => copy'[u] = copy[u]
  BY <1>1, <1>4 DEF TypeOK
<1>6. held' \in [Callers -> Int]
  BY <1>1 DEF TypeOK, LockCopy, UnlockCopy, userVars
<1>7. TypeOK'
  BY <1>1, <1>3, <1>5, <1>6 DEF TypeOK
<1>8. ~Active(t) /\ ~Active(t)'
  BY <1>1, <1>3 DEF Active, Allocating, Counted, Placed, Freeing
<1> QED
  BY <1>1, <1>3, <1>5, <1>7, <1>8, OtherStep

LEMMA DeallocRefused ==
  ASSUME SlotInv, RefusedIds, NEW t \in Callers,
         CopyMutex(t, "dealloc", "dealloc_copy"), id[t] \notin Ids
  PROVE  SlotInv'
<1>1. TypeOK /\ pc[t] = "dealloc" /\ id[t] \in StrayIds
  BY DEF SlotInv, CallerInv, CopyMutex, At
<1>2. /\ copy' \in [Callers -> Mutex] /\ pc' \in [Callers -> Location] /\ pc'[t] = "user"
      /\ \A u \in Callers : u # t => pc'[u] = pc[u] /\ copy'[u] = copy[u]
  BY <1>1, CopyTyped DEF Location, RefusedIds
<1>3. UNCHANGED <<mutex_num, mutexes, mutexes_lock, id, live, held, halt>>
  BY DEF CopyMutex, arrayVars, userVars
<1>4. TypeOK'
  BY <1>1, <1>2, <1>3 DEF TypeOK
<1>5. ~Active(t) /\ ~Active(t)'
  BY <1>1, <1>2 DEF Active, Allocating, Counted, Placed, Freeing
<1> QED
  BY <1>2, <1>3, <1>4, <1>5, OtherStep

LEMMA DeallocCopied ==
  ASSUME SlotInv, OneAllocator, NEW t \in Callers,
         (CopyMutex(t, "dealloc", "dealloc_copy") /\ id[t] \in Ids) \/ DeallocCopy(t)
  PROVE  SlotInv'
<1>1. Freeing(t) /\ Active(t) /\ t \in Allocators /\ Pending(t)
  BY DEF Active, Freeing, Pending, CopyMutex, DeallocCopy, At, SlotInv, CallerInv
<1>2. /\ CallerInv(t) /\ TypeOK /\ halt = "no" /\ mutexes_lock \in {Free, t}
      /\ live = 1 .. (mutex_num - 1) /\ \A i \in live : mutexes[i] = Intact(i)
  BY <1>1, AllocatorAt DEF SlotInv
<1>3. /\ mutexes[mutex_num] = Intact(mutex_num) /\ id[t] = mutex_num /\ mutex_num > 0
  BY <1>1, <1>2 DEF CallerInv
<1>4. UNCHANGED <<mutex_num, mutexes, mutexes_lock, id, live, held, halt>>
  BY DEF CopyMutex, DeallocCopy, arrayVars, userVars
<1>5. /\ copy' \in [Callers -> Mutex] /\ pc' \in [Callers -> Location]
      /\ \A u \in Callers : u # t => pc'[u] = pc[u]
      /\ \/ pc[t] = "dealloc" /\ pc'[t] = "dealloc_copy" /\ copy'[t] = Intact(mutex_num)
         \/ pc[t] = "dealloc_copy" /\ pc'[t] = "acquire_dec"
  <2>1. CASE CopyMutex(t, "dealloc", "dealloc_copy") /\ id[t] \in Ids
    <3>1. id[t] \in 0 .. MAX_MUTEXES
      BY SMTT(30), <2>1, MaxAssumption DEF Ids
    <3>2. "dealloc_copy" \in Location /\ pc[t] = "dealloc"
      BY <2>1 DEF Location, CopyMutex, At
    <3> QED
      BY <1>2, <1>3, <2>1, <3>1, <3>2, CopyTyped
  <2>2. CASE DeallocCopy(t)
    <3>1. pc[t] = "dealloc_copy" /\ copy[t] = Intact(mutex_num) /\ copy[t] \in Mutex
      BY <1>2, <2>2 DEF DeallocCopy, At, CallerInv, TypeOK
    <3>2. copy[t].locked # 1
      BY SMTT(30), <3>1 DEF Intact
    <3>3. Goto(t, "acquire_dec") /\ copy' = [copy EXCEPT ![t] = [copy[t] EXCEPT !.id = 0]]
      BY <2>2, <3>2 DEF DeallocCopy
    <3>4. 0 \in 0 .. MAX_MUTEXES
      BY SMTT(30), MaxAssumption
    <3>5. [copy[t] EXCEPT !.id = 0] \in Mutex
      BY <3>1, <3>4 DEF Mutex
    <3> QED
      BY <1>2, <3>1, <3>3, <3>5, Moves DEF TypeOK, Location
  <2> QED
    BY <2>1, <2>2
<1>6. TypeOK'
  BY <1>2, <1>4, <1>5 DEF TypeOK
<1>7. Freeing(t)' /\ Pending(t)' /\ Active(t)'
  BY <1>5 DEF Freeing, Pending, Active
<1>8. mutexes_lock # t
  BY <1>2, <1>5 DEF CallerInv, Locking
<1>9. CallerInv(t)'
  BY <1>1, <1>3, <1>4, <1>5, <1>7, <1>8 DEF CallerInv, Placed, Locking, Intact
<1> QED
  BY <1>1, <1>2, <1>4, <1>5, <1>6, <1>7, <1>9, AllocatorStep

LEMMA DiscountKeeps ==
  ASSUME SlotInv, OneAllocator, NEW t \in Callers, Discount(t)
  PROVE  SlotInv'
<1> USE DEF Discount, At
<1>1. Freeing(t) /\ Active(t) /\ t \in Allocators /\ Pending(t)
  BY DEF Active, Freeing, Pending, SlotInv, CallerInv
<1>2. /\ CallerInv(t) /\ TypeOK /\ halt = "no" /\ mutexes_lock \in {Free, t}
      /\ live = 1 .. (mutex_num - 1) /\ \A i \in live : mutexes[i] = Intact(i)
  BY <1>1, AllocatorAt DEF SlotInv
<1>3. mutex_num > 0 /\ mutexes_lock = t
  BY <1>1, <1>2 DEF CallerInv, Locking
<1>4. /\ pc' \in [Callers -> Location] /\ pc'[t] = "release_dec"
      /\ \A u \in Callers : u # t => pc'[u] = pc[u]
  BY <1>2, Moves DEF Location
<1>5. UNCHANGED <<mutexes, mutexes_lock, id, copy, live, held, halt>> /\ mutex_num' = mutex_num - 1
  BY DEF userVars
<1>6. mutex_num' \in 0 .. MAX_MUTEXES
  BY SMTT(30), <1>2, <1>3, <1>5, MaxAssumption DEF TypeOK
<1>7. TypeOK'
  BY <1>2, <1>4, <1>5, <1>6 DEF TypeOK
<1>8. ~Pending(t)' /\ ~Freeing(t)'
  BY <1>4 DEF Pending, Counted, Placed, Freeing
<1>9. CallerInv(t)'
  BY <1>1, <1>3, <1>4, <1>5, <1>8 DEF CallerInv, Placed, Locking, Active
<1> QED
  BY <1>1, <1>2, <1>4, <1>5, <1>7, <1>8, <1>9, AllocatorStep

-----------------------------------------------------------------------------
(* What programs call *)

(* Calls that change nothing but the caller's own place and argument. *)
LEMMA PlainCall ==
  ASSUME SlotInv, NEW t \in Callers, pc[t] = "user",
         NEW l \in {"lock", "unlock", "dealloc"}, Goto(t, l),
         NEW i \in Int, id' = [id EXCEPT ![t] = i], l = "dealloc" => i \in StrayIds,
         RefusedIds, held' \in [Callers -> Int],
         UNCHANGED <<mutex_num, mutexes, mutexes_lock, copy, live, halt>>
  PROVE  SlotInv'
<1>1. TypeOK /\ l \in Location
  BY DEF SlotInv, Location
<1>2. /\ pc' \in [Callers -> Location] /\ pc'[t] = l
      /\ \A u \in Callers : u # t => pc'[u] = pc[u]
  BY <1>1, Moves
<1>3. /\ id' \in [Callers -> Int] /\ id'[t] = i /\ \A u \in Callers : u # t => id'[u] = id[u]
  BY <1>1 DEF TypeOK
<1>4. TypeOK'
  BY <1>1, <1>2, <1>3 DEF TypeOK
<1>5. l = "dealloc" => i \notin Ids
  BY SMTT(30), MaxAssumption DEF RefusedIds, Ids
<1>6. ~Active(t) /\ ~Active(t)'
  BY <1>2, <1>3, <1>5 DEF Active, Allocating, Counted, Placed, Freeing
<1> QED
  BY <1>2, <1>3, <1>4, <1>6, OtherStep

LEMMA AllocCall ==
  ASSUME SlotInv, OneAllocator, NEW t \in Callers, t \in Allocators, pc[t] = "user", Goto(t, "alloc"),
         UNCHANGED <<mutex_num, mutexes, mutexes_lock, id, copy, live, held, halt>>
  PROVE  SlotInv'
<1>1. /\ CallerInv(t) /\ TypeOK /\ halt = "no" /\ mutexes_lock \in {Free, t}
      /\ live = 1 .. IF Pending(t) THEN mutex_num - 1 ELSE mutex_num
      /\ \A i \in live : mutexes[i] = Intact(i)
  BY AllocatorAt DEF SlotInv
<1>2. /\ pc' \in [Callers -> Location] /\ pc'[t] = "alloc"
      /\ \A u \in Callers : u # t => pc'[u] = pc[u]
  BY <1>1, Moves DEF Location
<1>3. TypeOK'
  BY <1>1, <1>2 DEF TypeOK
<1>4. ~Pending(t) /\ ~Pending(t)' /\ mutexes_lock # t
  BY <1>1, <1>2 DEF Pending, Counted, Placed, Freeing, CallerInv, Locking
<1>5. CallerInv(t)'
  BY <1>2, <1>4 DEF CallerInv, Active, Pending, Freeing, Counted, Placed, Allocating, Locking
<1> QED
  BY <1>1, <1>2, <1>3, <1>4, <1>5, AllocatorStep

(* dealloc is called for the newest mutex, which is the last slot in use. *)
LEMMA DeallocCall ==
  ASSUME SlotInv, OneAllocator, NEW t \in Callers, t \in Allocators, pc[t] = "user",
         NEW i \in live, Newest(i), Goto(t, "dealloc"), id' = [id EXCEPT ![t] = i], live' = live \ {i},
         UNCHANGED <<mutex_num, mutexes, mutexes_lock, copy, held, halt>>
  PROVE  SlotInv'
<1>1. /\ CallerInv(t) /\ TypeOK /\ halt = "no" /\ mutexes_lock \in {Free, t}
      /\ live = 1 .. IF Pending(t) THEN mutex_num - 1 ELSE mutex_num
      /\ \A j \in live : mutexes[j] = Intact(j)
  BY AllocatorAt DEF SlotInv
<1>2. /\ pc' \in [Callers -> Location] /\ pc'[t] = "dealloc"
      /\ \A u \in Callers : u # t => pc'[u] = pc[u]
  BY <1>1, Moves DEF Location
<1>3. ~Pending(t) /\ mutexes_lock # t
  BY <1>1 DEF Pending, Counted, Placed, Freeing, CallerInv, Locking
<1>4. live = 1 .. mutex_num /\ mutex_num \in Nat /\ mutex_num <= MAX_MUTEXES
  BY SMTT(30), <1>1, <1>3, MaxAssumption DEF TypeOK
<1>5. i = mutex_num /\ mutex_num > 0 /\ mutex_num \in Ids /\ i \in Int
  BY SMTT(30), <1>4, MaxAssumption DEF Newest, Ids
<1>6. live' = 1 .. mutex_num' - 1
  BY SMTT(30), <1>4, <1>5
<1>7. /\ id' \in [Callers -> Int] /\ id'[t] = mutex_num /\ \A u \in Callers : u # t => id'[u] = id[u]
  BY <1>1, <1>5 DEF TypeOK
<1>8. TypeOK'
  BY <1>1, <1>2, <1>7 DEF TypeOK
<1>9. Pending(t)' /\ Freeing(t)'
  BY <1>2, <1>5, <1>7 DEF Pending, Freeing, Ids
<1>10. mutexes'[mutex_num'] = Intact(mutex_num') /\ \A j \in live' : mutexes'[j] = Intact(j)
  BY <1>1, <1>5
<1>11. CallerInv(t)'
  BY <1>2, <1>3, <1>5, <1>7, <1>9, <1>10 DEF CallerInv, Placed, Locking, Ids, Intact
<1> QED
  BY <1>1, <1>2, <1>6, <1>7, <1>8, <1>9, <1>10, <1>11, AllocatorStep

LEMMA CallKeeps ==
  ASSUME SlotInv, OneAllocator, RefusedIds, NEW t \in Callers, Call(t)
  PROVE  SlotInv'
<1>1. /\ pc[t] = "user" /\ TypeOK /\ UNCHANGED <<mutex_num, mutexes, mutexes_lock, copy, halt>>
  BY DEF Call, At, SlotInv, arrayVars
<1>2. live \subseteq Int /\ StrayIds \subseteq Int
  BY SMTT(30), MaxAssumption DEF SlotInv, TypeOK
<1>3. held \in [Callers -> Int]
  BY <1>1 DEF TypeOK
<1>4. CASE t \in Allocators /\ Goto(t, "alloc") /\ UNCHANGED <<id, live, held>>
  BY <1>1, <1>4, AllocCall
<1>5. CASE \E i \in live :
             /\ t \in Allocators /\ Newest(i) /\ ~InUse(i)
             /\ Goto(t, "dealloc") /\ id' = [id EXCEPT ![t] = i]
             /\ live' = live \ {i} /\ UNCHANGED held
  BY <1>1, <1>5, DeallocCall
<1>6. CASE \E i \in live :
             /\ held[t] = 0
             /\ Goto(t, "lock") /\ id' = [id EXCEPT ![t] = i] /\ UNCHANGED <<live, held>>
  BY <1>1, <1>2, <1>3, <1>6, PlainCall
<1>7. CASE \E i \in StrayIds, op \in {"lock", "unlock", "dealloc"} :
             /\ held[t] = 0
             /\ Goto(t, op) /\ id' = [id EXCEPT ![t] = i] /\ UNCHANGED <<live, held>>
  BY <1>1, <1>2, <1>3, <1>7, PlainCall
<1>8. CASE /\ held[t] # 0
           /\ Goto(t, "unlock") /\ id' = [id EXCEPT ![t] = held[t]]
           /\ held' = [held EXCEPT ![t] = 0] /\ UNCHANGED live
  <2>1. held' \in [Callers -> Int] /\ held[t] \in Int
    BY SMTT(30), <1>3, <1>8
  <2> QED
    BY <1>1, <1>8, <2>1, PlainCall
<1> QED
  BY <1>4, <1>5, <1>6, <1>7, <1>8 DEF Call

-----------------------------------------------------------------------------
(* Every step *)

LEMMA InitSlots == Init => SlotInv
<1> SUFFICES ASSUME Init PROVE SlotInv
  OBVIOUS
<1>1. Zero \in Mutex /\ 0 \in Int /\ mutex_num = 0 /\ 0 \in 0 .. MAX_MUTEXES
  BY SMTT(30), MaxAssumption DEF Init, Zero, Mutex, Holder
<1>2. TypeOK
  BY <1>1 DEF Init, TypeOK, Holder, Location
<1>3. \A t \in Callers : pc[t] = "user" /\ mutexes_lock # t
  BY CallerAssumption DEF Init
<1>4. \A t \in Callers : ~Pending(t) /\ ~Active(t)
  BY <1>3 DEF Active, Pending, Allocating, Counted, Placed, Freeing
<1>5. \A t \in Callers : CallerInv(t)
  BY <1>3, <1>4 DEF CallerInv, Active, Pending, Allocating, Counted, Placed, Locking, Freeing
<1>6. live = 1 .. mutex_num
  BY SMTT(30), <1>1 DEF Init
<1> QED
  BY <1>2, <1>4, <1>5, <1>6 DEF SlotInv, Init

LEMMA NextSlots ==
  ASSUME SlotInv, OneAllocator, RefusedIds, [Next]_vars
  PROVE  SlotInv'
<1>1. CASE UNCHANGED vars
  BY <1>1 DEF vars, SlotInv, TypeOK, CallerInv, Active, Pending, Freeing, Intact
<1>2. ASSUME NEW t \in Callers, Call(t) PROVE SlotInv'
  BY <1>2, CallKeeps
<1>3. ASSUME NEW t \in Callers, kthread_mutex_alloc(t) PROVE SlotInv'
  BY <1>3, TestsKeep, AcquireKeeps, ReleaseKeeps, CountKeeps, SlotKeeps, InitSlotKeeps, AcquireSlotKeeps,
     FillKeeps, ReleaseSlotKeeps, CopyBackKeeps, AllocReturnKeeps DEF kthread_mutex_alloc
<1>4. ASSUME NEW t \in Callers, kthread_mutex_dealloc(t) PROVE SlotInv'
  BY <1>4, AcquireKeeps, ReleaseKeeps, DeallocRefused, DeallocCopied, DiscountKeeps DEF kthread_mutex_dealloc
<1>5. ASSUME NEW t \in Callers, kthread_mutex_lock(t) \/ kthread_mutex_unlock(t) PROVE SlotInv'
  BY <1>5, CopyKeeps, LockCopyKeeps DEF kthread_mutex_lock, kthread_mutex_unlock
<1> QED
  BY <1>1, <1>2, <1>3, <1>4, <1>5 DEF Next, Kernel

(* kthread_mutex_alloc and kthread_mutex_dealloc, with one allocator at a  *)
(* time and no id of the array passed to dealloc that alloc did not        *)
(* return: the ids in use are 1 to mutex_num (less the one in the making), *)
(* no lock is released that is not held and no slot outside the array is   *)
(* touched.                                                                *)
THEOREM SlotInvariant ==
  ASSUME OneAllocator, RefusedIds
  PROVE  Spec => []SlotInv
BY InitSlots, NextSlots, PTL DEF Spec

(* Under the same conditions, an id in use names an initialised slot of    *)
(* its own whose spinlock is free, whoever locks and unlocks meanwhile.    *)
THEOREM LiveSlotsStayIntact ==
  ASSUME OneAllocator, RefusedIds
  PROVE  Spec => []LiveSlotsIntact
<1>1. ASSUME SlotInv PROVE LiveSlotsIntact
  <2>1. \A i \in live : mutexes[i] = [locked |-> 0, lk |-> Free, id |-> i]
    BY <1>1 DEF SlotInv, Intact
  <2>2. ASSUME NEW t \in Callers, pc[t] = "alloc_return" PROVE mutexes[id[t]].id \notin live
    <3>1. /\ pc[t] \in Placed /\ CallerInv(t) /\ TypeOK /\ Pending(t)
      BY <1>1, <2>2 DEF Placed, Counted, Pending, SlotInv
    <3>2. mutexes[id[t]] = Intact(mutex_num) /\ t \in Allocators /\ mutex_num \in Nat
      BY <2>2, <3>1, SMTT(30) DEF CallerInv, Active, Allocating, Counted, Pending, Placed, TypeOK
    <3>3. live = 1 .. (mutex_num - 1)
      BY <1>1, <3>1, <3>2, AllocatorAt
    <3> QED
      BY SMTT(30), <3>2, <3>3 DEF Intact
  <2> QED
    BY <2>1, <2>2 DEF LiveSlotsIntact
<1> QED
  BY <1>1, SlotInvariant, PTL

-----------------------------------------------------------------------------
(* Sums *)

Column(f, x) == {x} \X (1 .. f[x])
Columns(f, S) == UNION {Column(f, x) : x \in S}

(* A column is as large as its number says. *)
LEMMA ColumnSize ==
  ASSUME NEW f, NEW x, f[x] \in Nat
  PROVE  IsFiniteSet(Column(f, x)) /\ Cardinality(Column(f, x)) = f[x]
<1>1. IsFiniteSet({x}) /\ Cardinality({x}) = 1
  BY FS_Singleton
<1>2. IsFiniteSet(1 .. f[x]) /\ Cardinality(1 .. f[x]) = f[x]
  <2>1. 1 \in Int /\ f[x] \in Int /\ (1 > f[x] <=> f[x] = 0) /\ f[x] - 1 + 1 = f[x]
    BY SMTT(30)
  <2> QED
    BY <2>1, FS_Interval
<1>3. 1 * f[x] = f[x]
  BY SMTT(30)
<1>4. /\ IsFiniteSet({x} \X (1 .. f[x]))
      /\ Cardinality({x} \X (1 .. f[x])) = Cardinality({x}) * Cardinality(1 .. f[x])
  BY <1>1, <1>2, FS_Product
<1> QED
  BY <1>1, <1>2, <1>3, <1>4 DEF Column

(* The columns of a finite set of places are finitely many pairs. *)
LEMMA ColumnsFinite ==
  ASSUME NEW S, IsFiniteSet(S), NEW f, \A x \in S : f[x] \in Nat
  PROVE  IsFiniteSet(Columns(f, S))
<1> DEFINE C == {Column(f, x) : x \in S}
           F == [x \in S |-> Column(f, x)]
<1>1. F \in Surjection(S, C)
  BY DEF Surjection
<1>2. IsFiniteSet(C)
  BY <1>1, FS_Surjection
<1>3. \A T \in C : IsFiniteSet(T)
  BY ColumnSize
<1> QED
  BY <1>2, <1>3, FS_UNION DEF Columns

(* The sum is what is at i and the sum of the rest. *)
LEMMA TotalSplit ==
  ASSUME NEW S, IsFiniteSet(S), NEW f \in [S -> Nat], NEW i \in S
  PROVE  /\ IsFiniteSet(Columns(f, S \ {i}))
         /\ Cardinality(Columns(f, S \ {i})) \in Nat
         /\ Total(f) = Cardinality(Columns(f, S \ {i})) + f[i]
<1> DEFINE A == Columns(f, S \ {i})
           B == Column(f, i)
<1>1. IsFiniteSet(S \ {i}) /\ \A x \in S \ {i} : f[x] \in Nat
  BY FS_RemoveElement
<1>2. IsFiniteSet(A) /\ Cardinality(A) \in Nat
  BY <1>1, ColumnsFinite, FS_CardinalityType
<1>3. IsFiniteSet(B) /\ Cardinality(B) = f[i] /\ f[i] \in Nat
  BY ColumnSize
<1>4. A \cap B = {}
  <2>1. \A z \in B : z[1] = i
    BY DEF Column
  <2>2. ASSUME NEW z \in A PROVE z[1] # i
    <3>1. PICK x \in S \ {i} : z \in Column(f, x)
      BY DEF Columns
    <3>2. z[1] = x
      BY <3>1 DEF Column
    <3> QED
      BY <3>2
  <2> QED
    BY <2>1, <2>2
<1>5. Total(f) = Cardinality(A \cup B)
  <2>1. DOMAIN f = S
    OBVIOUS
  <2>2. UNION {{x} \X (1 .. f[x]) : x \in S} = A \cup B
    BY DEF Columns, Column
  <2> QED
    BY <2>1, <2>2 DEF Total
<1>6. Cardinality(A \cup B) = Cardinality(A) + Cardinality(B) - Cardinality(A \cap B)
  BY <1>2, <1>3, FS_Union
<1>7. Cardinality(A \cap B) = 0
  BY <1>4, FS_EmptySet
<1> HIDE DEF A, B
<1>8. Total(f) = Cardinality(A) + f[i]
  BY SMTT(30), <1>2, <1>3, <1>5, <1>6, <1>7
<1> QED
  BY <1>2, <1>8 DEF A

(* A sum is a natural number; one changed summand changes it by as much. *)
LEMMA TotalChange ==
  ASSUME NEW S, IsFiniteSet(S), NEW f \in [S -> Nat], NEW g \in [S -> Nat], NEW i \in S,
         \A x \in S \ {i} : g[x] = f[x]
  PROVE  Total(f) \in Nat /\ Total(g) = Total(f) - f[i] + g[i]
<1> DEFINE n == Cardinality(Columns(f, S \ {i}))
           m == Cardinality(Columns(g, S \ {i}))
<1>1. n \in Nat /\ Total(f) = n + f[i]
  BY TotalSplit
<1>2. m \in Nat /\ Total(g) = m + g[i]
  BY TotalSplit
<1>3. n = m
  <2>1. {Column(f, x) : x \in S \ {i}} = {Column(g, x) : x \in S \ {i}}
    BY DEF Column
  <2> QED
    BY <2>1 DEF Columns
<1>4. f[i] \in Nat /\ g[i] \in Nat
  OBVIOUS
<1> HIDE DEF n, m
<1> QED
  BY SMTT(30), <1>1, <1>2, <1>3, <1>4

(* The sum of a function that is 0 but for one place. *)
LEMMA TotalOne ==
  ASSUME NEW S, IsFiniteSet(S), NEW f \in [S -> Nat], NEW i \in S,
         \A x \in S \ {i} : f[x] = 0
  PROVE  Total(f) = f[i]
<1>1. Columns(f, S \ {i}) = {}
  <2>1. ASSUME NEW x \in S \ {i} PROVE Column(f, x) = {}
    <3>1. 1 .. 0 = {}
      BY SMTT(30)
    <3> QED
      BY <3>1 DEF Column
  <2> QED
    BY <2>1 DEF Columns
<1>2. Cardinality(Columns(f, S \ {i})) = 0
  BY <1>1, FS_EmptySet
<1>3. Total(f) = Cardinality(Columns(f, S \ {i})) + f[i] /\ f[i] \in Nat
  BY TotalSplit
<1> QED
  BY SMTT(30), <1>2, <1>3

-----------------------------------------------------------------------------
(* Pages and addresses *)

(* An address at the start of a page *)
Aligned(a) == \E j \in Nat : a = j * PGSIZE

(* Pages follow each other. *)
LEMMA PagesOrdered ==
  ASSUME NEW j \in Int, NEW k \in Int
  PROVE  /\ j * PGSIZE \in Int
         /\ j < k => j * PGSIZE + PGSIZE <= k * PGSIZE
         /\ j * PGSIZE < k * PGSIZE => j < k
         /\ (j + 1) * PGSIZE = j * PGSIZE + PGSIZE
<1>1. PGSIZE \in Int /\ PGSIZE > 0
  BY SMTT(30), MemAssumption
<1>2. ASSUME j < k PROVE j * PGSIZE + PGSIZE <= k * PGSIZE
  <2>1. k - j - 1 >= 0 /\ k - j - 1 \in Int
    BY SMTT(30), <1>2
  <2>2. (k - j - 1) * PGSIZE >= 0
    BY SMTT(30), <1>1, <2>1
  <2>3. (k - j - 1) * PGSIZE = k * PGSIZE - j * PGSIZE - PGSIZE
    BY SMTT(30), <1>1
  <2> QED
    BY SMTT(30), <1>1, <2>2, <2>3
<1>3. ASSUME ~(j < k) PROVE ~(j * PGSIZE < k * PGSIZE)
  <2>1. (j - k) * PGSIZE >= 0
    BY SMTT(30), <1>1, <1>3
  <2>2. (j - k) * PGSIZE = j * PGSIZE - k * PGSIZE
    BY SMTT(30), <1>1
  <2> QED
    BY SMTT(30), <1>1, <2>1, <2>2
<1>4. (j + 1) * PGSIZE = j * PGSIZE + PGSIZE /\ j * PGSIZE \in Int
  BY SMTT(30), <1>1
<1> QED
  BY <1>2, <1>3, <1>4

(* The page an aligned address is the start of. *)
LEMMA PageOf ==
  ASSUME NEW a \in Nat, Aligned(a)
  PROVE  a \div PGSIZE \in Nat /\ (a \div PGSIZE) * PGSIZE = a /\ Aligned(a + PGSIZE)
<1>1. PICK j \in Nat : a = j * PGSIZE
  BY DEF Aligned
<1>2. PGSIZE \in Nat /\ PGSIZE > 0
  BY SMTT(30), MemAssumption
<1>3. a \div PGSIZE = j
  BY SMTT(30), <1>1, <1>2
<1>4. j + 1 \in Nat /\ a + PGSIZE = (j + 1) * PGSIZE
  BY SMTT(30), <1>1, <1>2
<1> QED
  BY <1>1, <1>3, <1>4 DEF Aligned

(* KERNBASE is aligned, so a page that starts below it is a slot. *)
LEMMA PageBelow ==
  ASSUME NEW k \in Nat
  PROVE  k \in UserPage <=> k * PGSIZE < KERNBASE
<1> DEFINE m == KERNBASE \div PGSIZE
<1>1. PGSIZE \in Nat /\ PGSIZE > 0 /\ KERNBASE \in Nat
  BY SMTT(30), MemAssumption
<1>2. m \in Int /\ KERNBASE = m * PGSIZE
  BY SMTT(30), MemAssumption, <1>1
<1>3. k \in UserPage <=> k < m
  BY SMTT(30), <1>2 DEF UserPage
<1> HIDE DEF m
<1> QED
  BY SMTT(30), <1>1, <1>2, <1>3, PagesOrdered

(* PGROUNDUP goes up to the start of the next page. *)
LEMMA RoundUp ==
  ASSUME NEW n \in Nat
  PROVE  PGROUNDUP(n) \in Nat /\ Aligned(PGROUNDUP(n)) /\ n <= PGROUNDUP(n) /\ PGROUNDUP(n) < n + PGSIZE
<1> DEFINE j == (n + PGSIZE - 1) \div PGSIZE
<1>1. PGSIZE \in Nat /\ PGSIZE > 0
  BY SMTT(30), MemAssumption
<1>2. n + PGSIZE - 1 \in Nat
  BY SMTT(30), <1>1
<1>3. j \in Nat /\ j * PGSIZE <= n + PGSIZE - 1 /\ n + PGSIZE - 1 < j * PGSIZE + PGSIZE
  BY SMTT(30), <1>1, <1>2
<1>4. PGROUNDUP(n) = j * PGSIZE
  BY DEF PGROUNDUP
<1>5. j * PGSIZE \in Nat
  BY SMTT(30), <1>1, <1>3
<1> HIDE DEF j
<1> QED
  BY SMTT(30), <1>1, <1>3, <1>4, <1>5 DEF Aligned

-----------------------------------------------------------------------------
(* The inductive invariant *)

AddrSpace == [dir : 0 .. 1, kpt : Nat, upt : 0 .. 1, map : SUBSET UserPage]
MCall == [pc : {"user", "setupkvm", "alloc", "map"}, call : {"none", "grow", "fork", "image", "stack"},
          d : AddrSpace, from : Nat, a : Nat, to : 0 .. KERNBASE - 1, mem : 0 .. 1, child : MProcs \cup {NoOne}]

MemTypes ==
  /\ nfree \in Nat /\ space \in [MProcs -> AddrSpace] /\ sz \in [MProcs -> 0 .. KERNBASE - 1]
  /\ ptl \in MProcs \cup {NoOne} /\ mt \in [MProcs -> MCall] /\ emptied \subseteq MProcs /\ memHalt \in BOOLEAN

(* The loops of allocuvm and copyuvm: what is mapped is what lies below    *)
(* the address they have come to.                                          *)
CallInv(r) ==
  /\ r.pc = "user" <=> r = MUser
  /\ r.pc # "user" => r.call # "none"
  /\ r.mem = IF r.pc = "map" THEN 1 ELSE 0
  /\ r.pc = "setupkvm" => r.call \in {"fork", "image"} /\ r.d.map = {} /\ r.a = 0
  /\ r.pc = "map" => r.a < r.to
  /\ Aligned(r.a) /\ r.a < r.to + PGSIZE
  /\ r.call \in {"fork", "image", "stack"} => r.d.map = PagesUpTo(r.a)
  /\ r.call = "grow" => r.d = NoSpace /\ r.from <= r.a

(* The size of a process, and the calls that hold ptable.lock *)
ProcInv(p) ==
  LET r == mt[p]
      top == IF r.call = "grow" THEN r.a ELSE sz[p]
  IN /\ CallInv(r)
     /\ space[p] = NoSpace => r = MUser
     /\ space[p].map \subseteq PagesUpTo(top)
     /\ (p \notin emptied /\ space[p] # NoSpace) => space[p].map = PagesUpTo(top)
     /\ r.call = "grow" => ptl = p /\ r.from = sz[p]
     /\ r.call = "fork" => ptl = p /\ r.to = sz[p] /\ r.child \in MProcs /\ space[r.child] = NoSpace

MemInv ==
  /\ MemTypes
  /\ \A p \in MProcs : ProcInv(p)
  /\ PagesConserved
  /\ memHalt => emptied # {}

(* The pages below an address: none below 0, one more at each page, and    *)
(* an address reached by whole pages from inside its last one.             *)
LEMMA UpToFacts ==
  /\ PagesUpTo(0) = {}
  /\ \A n, m \in Nat : (Aligned(m) /\ n <= m /\ m < n + PGSIZE) => PagesUpTo(n) = PagesUpTo(m)
  /\ \A n, m \in Nat : n <= m => PagesUpTo(n) \subseteq PagesUpTo(m)
<1>1. \A k \in UserPage : k \in Nat /\ k * PGSIZE \in Nat
  BY SMTT(30), MemAssumption DEF UserPage
<1>2. PagesUpTo(0) = {}
  BY SMTT(30), <1>1 DEF PagesUpTo
<1>3. ASSUME NEW n \in Nat, NEW m \in Nat, n <= m PROVE PagesUpTo(n) \subseteq PagesUpTo(m)
  BY SMTT(30), <1>1, <1>3 DEF PagesUpTo
<1>4. ASSUME NEW n \in Nat, NEW m \in Nat, Aligned(m), n <= m, m < n + PGSIZE
      PROVE  PagesUpTo(m) \subseteq PagesUpTo(n)
  <2>1. PICK j \in Nat : m = j * PGSIZE
    BY <1>4 DEF Aligned
  <2>2. SUFFICES ASSUME NEW k \in UserPage, k * PGSIZE < m PROVE k * PGSIZE < n
    BY DEF PagesUpTo
  <2>3. k \in Int /\ j \in Int /\ k < j
    BY SMTT(30), <1>1, <2>1, <2>2, PagesOrdered
  <2>4. k * PGSIZE + PGSIZE <= m
    BY <2>1, <2>3, PagesOrdered
  <2> QED
    BY SMTT(30), <1>1, <1>4, <2>4, MemAssumption
<1>5. ASSUME NEW n \in Nat, NEW m \in Nat, Aligned(m), n <= m, m < n + PGSIZE
      PROVE  PagesUpTo(n) = PagesUpTo(m)
  <2>1. PagesUpTo(n) \subseteq PagesUpTo(m)
    BY <1>3, <1>5
  <2>2. PagesUpTo(m) \subseteq PagesUpTo(n)
    BY <1>4, <1>5
  <2> QED
    BY <2>1, <2>2
<1> QED
  BY <1>2, <1>3, <1>5

(* The page at an aligned address below KERNBASE: not below the address,   *)
(* and the only one between it and the next.                               *)
LEMMA NextPage ==
  ASSUME NEW a \in Nat, Aligned(a), a < KERNBASE
  PROVE  LET k == a \div PGSIZE IN
         /\ k \in UserPage /\ k \notin PagesUpTo(a)
         /\ PagesUpTo(a + PGSIZE) = PagesUpTo(a) \cup {k}
         /\ \A n \in Nat : a < n => k \in PagesUpTo(n)
<1> DEFINE k == a \div PGSIZE
<1>1. k \in Nat /\ k * PGSIZE = a
  BY PageOf
<1>2. k \in UserPage
  BY <1>1, PageBelow
<1>3. \A i \in UserPage : i \in Nat /\ i * PGSIZE \in Nat
  BY SMTT(30), MemAssumption DEF UserPage
<1> HIDE DEF k
<1>4. k \notin PagesUpTo(a)
  BY SMTT(30), <1>1 DEF PagesUpTo
<1>5. \A n \in Nat : a < n => k \in PagesUpTo(n)
  BY <1>1, <1>2 DEF PagesUpTo
<1>6. ASSUME NEW i \in UserPage PROVE i * PGSIZE < a + PGSIZE <=> (i * PGSIZE < a \/ i = k)
  <2>1. i \in Int /\ k \in Int
    BY SMTT(30), <1>1, <1>3
  <2>2. CASE i < k
    <3>1. i * PGSIZE + PGSIZE <= a
      BY <1>1, <2>1, <2>2, PagesOrdered
    <3> QED
      BY SMTT(30), <1>3, <3>1, MemAssumption
  <2>3. CASE i = k
    BY SMTT(30), <1>1, <2>3, MemAssumption
  <2>4. CASE k < i
    <3>1. a + PGSIZE <= i * PGSIZE
      BY <1>1, <2>1, <2>4, PagesOrdered
    <3> QED
      BY SMTT(30), <1>3, <2>4, <3>1, MemAssumption
  <2> QED
    BY SMTT(30), <2>1, <2>2, <2>3, <2>4
<1>7. PagesUpTo(a + PGSIZE) = PagesUpTo(a) \cup {k}
  <2>1. ASSUME NEW i PROVE i \in PagesUpTo(a + PGSIZE) <=> i \in PagesUpTo(a) \cup {k}
    BY <1>2, <1>6 DEF PagesUpTo
  <2> QED
    BY <2>1
<1> QED
  BY <1>2, <1>4, <1>5, <1>7 DEF k

(* What deallocuvm leaves, e, and takes, u, of pages that reach up to top. *)
Shrunk(d, e, u, top, newsz) ==
  /\ e \in AddrSpace
  /\ e.map \subseteq PagesUpTo(newsz)
  /\ d.map = PagesUpTo(top) => e.map = PagesUpTo(newsz)
  /\ e.dir = d.dir /\ e.kpt = d.kpt /\ e.upt = d.upt
  /\ e.map = d.map \ u
  /\ u \subseteq d.map
LEMMA Unmapping ==
  ASSUME NEW d \in AddrSpace, NEW oldsz \in Nat, NEW newsz \in Nat, NEW top \in Nat,
         newsz <= top, top <= oldsz, d.map \subseteq PagesUpTo(top)
  PROVE  Shrunk(d, deallocuvm(d, oldsz, newsz), Unmapped(d, oldsz, newsz), top, newsz)
<1> DEFINE e == deallocuvm(d, oldsz, newsz)
           U == Unmapped(d, oldsz, newsz)
<1>1. d.map \subseteq UserPage /\ d = [dir |-> d.dir, kpt |-> d.kpt, upt |-> d.upt, map |-> d.map]
  BY SMTT(30) DEF AddrSpace
<1>2. e = [dir |-> d.dir, kpt |-> d.kpt, upt |-> d.upt, map |-> d.map \ U]
  BY SMTT(30), <1>1 DEF deallocuvm
<1>3. U \subseteq d.map
  BY DEF Unmapped
<1>4. e \in AddrSpace
  BY SMTT(30), <1>1, <1>2 DEF AddrSpace
<1>5. \A k \in UserPage : k * PGSIZE \in Nat
  BY SMTT(30), MemAssumption DEF UserPage
<1>6. ASSUME NEW k \in UserPage PROVE k \in d.map \ U <=> k \in d.map /\ k * PGSIZE < newsz
  <2>1. k \in U <=> k \in d.map /\ k * PGSIZE < oldsz /\ k * PGSIZE >= newsz
    BY DEF Unmapped, PagesUpTo
  <2>2. k \in d.map => k * PGSIZE < top
    BY DEF PagesUpTo
  <2> HIDE DEF U
  <2> QED
    BY SMTT(30), <1>5, <2>1, <2>2
<1>7. ASSUME NEW k \in UserPage PROVE k * PGSIZE < newsz => k * PGSIZE < top
  BY SMTT(30), <1>5
<1>8. d.map \ U \subseteq PagesUpTo(newsz)
  BY <1>1, <1>6 DEF PagesUpTo
<1>9. d.map = PagesUpTo(top) => d.map \ U = PagesUpTo(newsz)
  <2>1. SUFFICES ASSUME d.map = PagesUpTo(top) PROVE PagesUpTo(newsz) \subseteq d.map \ U
    BY <1>8
  <2>2. \A k \in PagesUpTo(newsz) : k \in UserPage /\ k * PGSIZE < newsz /\ k \in PagesUpTo(top)
    BY <1>7 DEF PagesUpTo
  <2> QED
    BY <1>6, <2>1, <2>2
<1> HIDE DEF U
<1>10. e.map = d.map \ U /\ e.dir = d.dir /\ e.kpt = d.kpt /\ e.upt = d.upt
  BY SMTT(30), <1>2
<1> QED
  BY <1>3, <1>4, <1>8, <1>9, <1>10 DEF U, Shrunk

(* The pages of an address space are finitely many; *)
LEMMA PagesNatural ==
  ASSUME NEW d \in AddrSpace
  PROVE  /\ PagesIn(d) \in Nat /\ IsFiniteSet(d.map) /\ Cardinality(d.map) \in Nat
         /\ PagesIn(d) = d.dir + d.kpt + d.upt + Cardinality(d.map) /\ freevm(d) = PagesIn(d)
<1>1. d.map \subseteq UserPage /\ d.dir \in Nat /\ d.kpt \in Nat /\ d.upt \in Nat
  BY SMTT(30) DEF AddrSpace
<1>2. 0 \in Int /\ KERNBASE \div PGSIZE - 1 \in Int
  BY SMTT(30), MemAssumption
<1>3. IsFiniteSet(UserPage)
  BY <1>2, FS_Interval DEF UserPage
<1>4. IsFiniteSet(d.map) /\ Cardinality(d.map) \in Nat
  BY <1>1, <1>3, FS_Subset, FS_CardinalityType
<1> QED
  BY SMTT(30), <1>1, <1>4 DEF PagesIn, freevm

(* one more when a page is mapped that was not, *)
LEMMA MapOne ==
  ASSUME NEW S, IsFiniteSet(S), NEW k, k \notin S
  PROVE  Cardinality(S \cup {k}) = Cardinality(S) + 1
BY FS_AddElement

(* fewer by those unmapped. *)
LEMMA UnmapSome ==
  ASSUME NEW S, IsFiniteSet(S), NEW U, U \subseteq S
  PROVE  Cardinality(U) \in Nat /\ Cardinality(S \ U) + Cardinality(U) = Cardinality(S)
<1>1. IsFiniteSet(U) /\ Cardinality(U) \in Nat /\ Cardinality(S) \in Nat
  BY FS_Subset, FS_CardinalityType
<1>2. S \cap U = U
  OBVIOUS
<1>3. Cardinality(S \ U) = Cardinality(S) - Cardinality(U)
  BY <1>2, FS_Difference
<1> QED
  BY SMTT(30), <1>1, <1>3

(* What deallocuvm frees is what the space has no more. *)
LEMMA ShrunkPages ==
  ASSUME NEW d \in AddrSpace, NEW e \in AddrSpace, NEW u, u \subseteq d.map, e.map = d.map \ u,
         e.dir = d.dir, e.kpt = d.kpt, e.upt = d.upt
  PROVE  PagesIn(e) + Cardinality(u) = PagesIn(d) /\ Cardinality(u) \in Nat /\ PagesIn(e) \in Nat
<1>1. Cardinality(u) \in Nat /\ Cardinality(e.map) + Cardinality(u) = Cardinality(d.map)
  BY UnmapSome, PagesNatural
<1>2. PagesIn(e) = e.dir + e.kpt + e.upt + Cardinality(e.map) /\ PagesIn(e) \in Nat /\ Cardinality(e.map) \in Nat
  BY PagesNatural
<1>3. PagesIn(d) = d.dir + d.kpt + d.upt + Cardinality(d.map) /\ Cardinality(d.map) \in Nat
  BY PagesNatural
<1>4. e.dir \in Nat /\ e.kpt \in Nat /\ e.upt \in Nat
  BY SMTT(30) DEF AddrSpace
<1> QED
  BY SMTT(30), <1>1, <1>2, <1>3, <1>4

(* No address space: no page. *)
LEMMA NothingHeld ==
  /\ NoSpace \in AddrSpace /\ PagesIn(NoSpace) = 0 /\ NoSpace.map = {}
  /\ MUser \in MCall /\ CallInv(MUser)
<1>1. NoSpace \in AddrSpace /\ NoSpace.map = {} /\ NoSpace.dir = 0 /\ NoSpace.kpt = 0 /\ NoSpace.upt = 0
  BY SMTT(30) DEF NoSpace, AddrSpace
<1>2. PagesIn(NoSpace) = 0
  BY SMTT(30), <1>1, FS_EmptySet DEF PagesIn
<1>3. MUser \in MCall
  BY SMTT(30), <1>1, MemAssumption DEF MUser, MCall
<1>4. MUser.pc = "user" /\ MUser.call = "none" /\ MUser.mem = 0 /\ MUser.a = 0 /\ MUser.to = 0
  BY SMTT(30) DEF MUser
<1>5. Aligned(0) /\ 0 < 0 + PGSIZE
  BY SMTT(30), MemAssumption DEF Aligned
<1>6. CallInv(MUser)
  BY SMTT(30), <1>4, <1>5 DEF CallInv
<1> QED
  BY <1>1, <1>2, <1>3, <1>6

-----------------------------------------------------------------------------
(* A step of one process *)

(* Others keep what they have; ptable.lock passes only to p or from p. *)
OnlyBy(p) ==
  /\ \A q \in MProcs \ {p} : mt'[q] = mt[q] /\ space'[q] = space[q] /\ sz'[q] = sz[q]
  /\ emptied' \in {emptied, emptied \ {p}, emptied \cup {p}}
  /\ ptl' = ptl \/ ptl \in {p, NoOne}
  /\ space[p] # NoSpace

(* What a process holds is a number of pages. *)
LEMMA HeldNatural ==
  ASSUME MemTypes, NEW p \in MProcs
  PROVE  /\ PagesHeldBy(p) \in Nat
         /\ space[p] \in AddrSpace /\ mt[p] \in MCall /\ mt[p].d \in AddrSpace /\ sz[p] \in Nat /\ sz[p] < KERNBASE
         /\ mt[p].a \in Nat /\ mt[p].to \in Nat /\ mt[p].to < KERNBASE /\ mt[p].from \in Nat /\ mt[p].mem \in 0 .. 1
<1>1. space[p] \in AddrSpace /\ mt[p] \in MCall /\ sz[p] \in 0 .. KERNBASE - 1
  BY DEF MemTypes
<1>2. mt[p].d \in AddrSpace /\ mt[p].mem \in 0 .. 1 /\ mt[p].a \in Nat /\ mt[p].to \in 0 .. KERNBASE - 1 /\ mt[p].from \in Nat
  BY SMTT(30), <1>1 DEF MCall
<1>3. PagesIn(space[p]) \in Nat /\ PagesIn(mt[p].d) \in Nat
  BY <1>1, <1>2, PagesNatural
<1>4. PagesHeldBy(p) \in Nat
  BY SMTT(30), <1>2, <1>3 DEF PagesHeldBy
<1> QED
  BY SMTT(30), <1>1, <1>2, <1>4, MemAssumption

(* A process that another one's step leaves alone is as it was. *)
LEMMA Bystander ==
  ASSUME MemInv, NEW p \in MProcs, NEW q \in MProcs, q # p,
         mt'[q] = mt[q], space'[q] = space[q], sz'[q] = sz[q], q \in emptied' <=> q \in emptied,
         ptl' = ptl \/ ptl \in {p, NoOne},
         mt[q].call = "fork" => space'[mt[q].child] = NoSpace
  PROVE  ProcInv(q)'
<1>1. ProcInv(q)
  BY DEF MemInv
<1>2. mt[q].call \in {"grow", "fork"} => ptl' = q
  BY <1>1, MemAssumption DEF ProcInv
<1> QED
  BY <1>1, <1>2 DEF ProcInv

(* A step of p alone that keeps what p has and the pages. *)
LEMMA StepOfOne ==
  ASSUME MemInv, NEW p \in MProcs, OnlyBy(p), MemTypes', ProcInv(p)',
         nfree' + PagesHeldBy(p)' = nfree + PagesHeldBy(p), memHalt' => emptied' # {}
  PROVE  MemInv'
<1> DEFINE f == [q \in MProcs |-> PagesHeldBy(q)]
           g == [q \in MProcs |-> PagesHeldBy(q)']
<1>1. MemTypes
  BY DEF MemInv
<1>2. f \in [MProcs -> Nat]
  BY <1>1, HeldNatural
<1>3. g \in [MProcs -> Nat]
  <2>1. ASSUME NEW q \in MProcs PROVE PagesHeldBy(q)' \in Nat
    <3>1. space'[q] \in AddrSpace /\ mt'[q] \in MCall
      BY DEF MemTypes
    <3>2. mt'[q].d \in AddrSpace /\ mt'[q].mem \in 0 .. 1
      BY SMTT(30), <3>1 DEF MCall
    <3>3. PagesIn(space'[q]) \in Nat /\ PagesIn(mt'[q].d) \in Nat
      BY <3>1, <3>2, PagesNatural
    <3> QED
      BY SMTT(30), <3>2, <3>3 DEF PagesHeldBy
  <2> QED
    BY <2>1
<1>4. \A q \in MProcs \ {p} : g[q] = f[q]
  BY DEF OnlyBy, PagesHeldBy
<1>5. Total(f) \in Nat /\ Total(g) = Total(f) - f[p] + g[p]
  <2>1. IsFiniteSet(MProcs)
    BY MemAssumption
  <2> HIDE DEF f, g
  <2> QED
    BY <1>2, <1>3, <1>4, <2>1, TotalChange
<1>6. PagesConserved'
  <2>1. f[p] = PagesHeldBy(p) /\ g[p] = PagesHeldBy(p)' /\ f[p] \in Nat /\ g[p] \in Nat
    BY <1>2, <1>3
  <2>2. nfree + Total(f) = NPAGES
    BY DEF MemInv, PagesConserved
  <2>3. nfree \in Nat /\ nfree' \in Nat
    BY <1>1 DEF MemTypes
  <2>4. PagesConserved' <=> nfree' + Total(g) = NPAGES
    BY DEF PagesConserved
  <2> HIDE DEF f, g
  <2> QED
    BY SMTT(30), <1>5, <2>1, <2>2, <2>3, <2>4
<1>7. ASSUME NEW q \in MProcs, q # p PROVE ProcInv(q)'
  <2>1. mt'[q] = mt[q] /\ space'[q] = space[q] /\ sz'[q] = sz[q] /\ (q \in emptied' <=> q \in emptied)
    BY <1>7 DEF OnlyBy
  <2>2. mt[q].call = "fork" => space'[mt[q].child] = NoSpace
    <3>1. SUFFICES ASSUME mt[q].call = "fork" PROVE space'[mt[q].child] = NoSpace
      OBVIOUS
    <3>2. mt[q].child \in MProcs /\ space[mt[q].child] = NoSpace
      BY <3>1 DEF MemInv, ProcInv
    <3> QED
      BY <3>2 DEF OnlyBy
  <2> QED
    BY <1>7, <2>1, <2>2, Bystander DEF OnlyBy
<1> QED
  BY <1>6, <1>7 DEF MemInv

(* A call that is over, and a space whose pages reach the size. *)
LEMMA CallOver ==
  ASSUME NEW p \in MProcs, mt'[p] = MUser, space'[p].map \subseteq PagesUpTo(sz'[p]),
         (p \notin emptied' /\ space'[p] # NoSpace) => space'[p].map = PagesUpTo(sz'[p])
  PROVE  ProcInv(p)'
<1>1. MUser.call = "none"
  BY SMTT(30) DEF MUser
<1> QED
  BY SMTT(30), <1>1, NothingHeld DEF ProcInv

(* FailBuild gives back what a fork or an exec had. *)
LEMMA FailedBuild ==
  ASSUME MemInv, NEW p \in MProcs, FailBuild(p), space[p] # NoSpace, mt[p].pc # "user", mt[p].call # "grow",
         UNCHANGED <<space, sz, ptl, emptied>>, memHalt' \in BOOLEAN, memHalt' => emptied # {}
  PROVE  MemInv'
<1>1. MemTypes /\ ProcInv(p)
  BY DEF MemInv
<1>2. mt' = [mt EXCEPT ![p] = MUser] /\ nfree' = nfree + (freevm(mt[p].d) + mt[p].mem)
  BY DEF FailBuild, kfree, MSet
<1>3. mt'[p] = MUser /\ \A q \in MProcs \ {p} : mt'[q] = mt[q]
  BY <1>1, <1>2 DEF MemTypes
<1>4. PagesIn(mt[p].d) \in Nat /\ PagesIn(space[p]) \in Nat /\ mt[p].mem \in Nat /\ nfree \in Nat
      /\ freevm(mt[p].d) = PagesIn(mt[p].d)
  <2>1. mt[p].mem \in Nat
    BY SMTT(30), <1>1, HeldNatural
  <2> QED
    BY <1>1, <2>1, HeldNatural, PagesNatural DEF MemTypes
<1>5. nfree' \in Nat
  BY SMTT(30), <1>2, <1>4
<1>6. MemTypes'
  BY <1>1, <1>2, <1>5, NothingHeld DEF MemTypes
<1>7. ProcInv(p)'
  <2>1. space[p].map \subseteq PagesUpTo(sz[p]) /\ (p \notin emptied => space[p].map = PagesUpTo(sz[p]))
    BY <1>1 DEF ProcInv
  <2> QED
    BY <1>3, <2>1, CallOver
<1>8. nfree' + PagesHeldBy(p)' = nfree + PagesHeldBy(p)
  <2>1. MUser.d = NoSpace /\ MUser.mem = 0
    BY SMTT(30) DEF MUser
  <2>2. PagesHeldBy(p)' = PagesIn(space[p]) + 0 + 0
    BY <1>3, <2>1, NothingHeld DEF PagesHeldBy
  <2> QED
    BY SMTT(30), <1>2, <1>4, <2>2 DEF PagesHeldBy
<1>9. OnlyBy(p)
  BY <1>3 DEF OnlyBy
<1> QED
  BY <1>6, <1>7, <1>8, <1>9, StepOfOne

(* FailGrow gives back what a growproc had mapped. *)
LEMMA FailedGrow ==
  ASSUME MemInv, NEW p \in MProcs, FailGrow(p), space[p] # NoSpace, mt[p].call = "grow", mt[p].a < mt[p].to,
         UNCHANGED <<sz, emptied>>, memHalt' \in BOOLEAN, memHalt' => emptied # {}
  PROVE  MemInv'
<1> DEFINE r == mt[p]
           e == deallocuvm(space[p], r.to, r.from)
           U == Unmapped(space[p], r.to, r.from)
<1>1. MemTypes /\ ProcInv(p) /\ CallInv(r)
  BY DEF MemInv, ProcInv
<1>2. /\ mt' = [mt EXCEPT ![p] = MUser] /\ nfree' = nfree + (Cardinality(U) + r.mem)
      /\ space' = [space EXCEPT ![p] = e] /\ ptl' = NoOne
  BY DEF FailGrow, kfree, MSet
<1>3. /\ mt'[p] = MUser /\ space'[p] = e
      /\ \A q \in MProcs \ {p} : mt'[q] = mt[q] /\ space'[q] = space[q]
  BY <1>1, <1>2 DEF MemTypes
<1>4. space[p] \in AddrSpace /\ r.to \in Nat /\ r.from \in Nat /\ r.a \in Nat /\ r.mem \in Nat /\ nfree \in Nat /\ r.from <= r.a
      /\ r.a <= r.to /\ r.from = sz[p] /\ r.d = NoSpace /\ ptl = p
  <2>1. r.a <= r.to /\ r.mem \in Nat
    BY SMTT(30), <1>1, HeldNatural
  <2> QED
    BY <1>1, <2>1, HeldNatural DEF MemTypes, ProcInv, CallInv
<1>5. space[p].map \subseteq PagesUpTo(r.a) /\ (p \notin emptied => space[p].map = PagesUpTo(r.a))
  BY <1>1 DEF ProcInv
<1>6. /\ e \in AddrSpace /\ e.map \subseteq PagesUpTo(sz[p]) /\ (p \notin emptied => e.map = PagesUpTo(sz[p]))
      /\ e.dir = space[p].dir /\ e.kpt = space[p].kpt /\ e.upt = space[p].upt
      /\ e.map = space[p].map \ U /\ U \subseteq space[p].map
  <2>1. Shrunk(space[p], e, U, r.a, r.from)
    BY <1>4, <1>5, Unmapping
  <2> HIDE DEF e, U
  <2> QED
    BY <1>4, <1>5, <2>1 DEF Shrunk
<1> HIDE DEF e, U
<1>7. PagesIn(e) + Cardinality(U) = PagesIn(space[p]) /\ Cardinality(U) \in Nat /\ PagesIn(e) \in Nat
  BY <1>4, <1>6, ShrunkPages
<1>8. nfree' \in Nat
  BY SMTT(30), <1>2, <1>4, <1>7
<1>9. MemTypes'
  BY <1>1, <1>2, <1>6, <1>8, NothingHeld DEF MemTypes
<1>10. ProcInv(p)'
  BY <1>3, <1>6, CallOver
<1>11. nfree' + PagesHeldBy(p)' = nfree + PagesHeldBy(p)
  <2>1. MUser.d = NoSpace /\ MUser.mem = 0
    BY SMTT(30) DEF MUser
  <2>2. PagesHeldBy(p)' = PagesIn(e) + 0 + 0
    BY <1>3, <2>1, NothingHeld DEF PagesHeldBy
  <2>3. PagesHeldBy(p) = PagesIn(space[p]) + 0 + r.mem
    BY <1>4, NothingHeld DEF PagesHeldBy
  <2> HIDE DEF r
  <2> QED
    BY SMTT(30), <1>2, <1>4, <1>7, <2>2, <2>3
<1>12. OnlyBy(p)
  BY <1>3, <1>4 DEF OnlyBy
<1> QED
  BY <1>9, <1>10, <1>11, <1>12, StepOfOne

-----------------------------------------------------------------------------
(* The steps *)

LEMMA ShrinkStep ==
  ASSUME MemInv, NEW p \in MProcs, NEW n \in Increments, Shrink(p, n)
  PROVE  MemInv'
<1> DEFINE m == sz[p] - n
           e == deallocuvm(space[p], sz[p], m)
           U == Unmapped(space[p], sz[p], m)
<1>1. MemTypes /\ ProcInv(p) /\ CallInv(mt[p])
  BY DEF MemInv, ProcInv
<1>2. /\ mt[p].pc = "user" /\ space[p] # NoSpace /\ ptl = NoOne /\ ~memHalt /\ n <= sz[p]
      /\ nfree' = nfree + Cardinality(U) /\ space' = [space EXCEPT ![p] = e]
      /\ sz' = [sz EXCEPT ![p] = IF n = @ THEN @ ELSE @ - n]
      /\ emptied' = IF n = sz[p] THEN emptied \cup {p} ELSE emptied
      /\ UNCHANGED <<ptl, mt, memHalt>>
  BY DEF Shrink, MAt, kfree
<1>3. mt[p] = MUser
  BY <1>1, <1>2 DEF CallInv
<1>4. space[p] \in AddrSpace /\ sz[p] \in Nat /\ sz[p] < KERNBASE /\ nfree \in Nat
  BY <1>1, HeldNatural DEF MemTypes
<1>5. n \in Nat
  BY MemAssumption
<1>6. m \in Nat /\ m <= sz[p] /\ sz[p] <= sz[p] /\ m < KERNBASE
  BY SMTT(30), <1>2, <1>4, <1>5, MemAssumption
<1>7. space[p].map \subseteq PagesUpTo(sz[p]) /\ (p \notin emptied => space[p].map = PagesUpTo(sz[p]))
  <2>1. MUser.call # "grow"
    BY SMTT(30) DEF MUser
  <2> QED
    BY <1>1, <1>2, <1>3, <2>1 DEF ProcInv
<1>8. Shrunk(space[p], e, U, sz[p], m)
  <2> HIDE DEF m
  <2> QED
    BY <1>4, <1>6, <1>7, Unmapping
<1>9. space'[p] = e /\ sz'[p] = (IF n = sz[p] THEN sz[p] ELSE m)
      /\ \A q \in MProcs \ {p} : mt'[q] = mt[q] /\ space'[q] = space[q] /\ sz'[q] = sz[q]
  BY <1>1, <1>2 DEF MemTypes
<1> HIDE DEF m, e, U
<1>10. PagesIn(e) + Cardinality(U) = PagesIn(space[p]) /\ Cardinality(U) \in Nat /\ PagesIn(e) \in Nat
  BY <1>4, <1>8, ShrunkPages DEF Shrunk
<1>11. MemTypes'
  <2>1. nfree' \in Nat
    BY SMTT(30), <1>2, <1>4, <1>10
  <2>2. \A q \in MProcs : sz'[q] \in 0 .. KERNBASE - 1
    <3>1. sz[p] \in 0 .. KERNBASE - 1 /\ m \in 0 .. KERNBASE - 1
      BY SMTT(30), <1>4, <1>6, MemAssumption
    <3> QED
      BY <1>1, <1>9, <3>1 DEF MemTypes
  <2>3. sz' \in [MProcs -> 0 .. KERNBASE - 1]
    BY <1>1, <1>2, <2>2 DEF MemTypes
  <2>4. space' \in [MProcs -> AddrSpace]
    BY <1>1, <1>2, <1>8 DEF MemTypes, Shrunk
  <2>5. emptied' \subseteq MProcs
    BY <1>1, <1>2 DEF MemTypes
  <2> QED
    BY <1>1, <1>2, <2>1, <2>3, <2>4, <2>5 DEF MemTypes
<1>12. ProcInv(p)'
  <2>1. mt'[p] = MUser
    BY <1>2, <1>3
  <2>2. CASE n = sz[p]
    <3>1. p \in emptied'
      BY <1>2, <2>2
    <3>2. PagesUpTo(m) \subseteq PagesUpTo(sz[p])
      BY <1>4, <1>6, UpToFacts
    <3> QED
      BY <1>8, <1>9, <2>1, <2>2, <3>1, <3>2, CallOver DEF Shrunk
  <2>3. CASE n # sz[p]
    <3>1. e.map \subseteq PagesUpTo(m) /\ (p \notin emptied => e.map = PagesUpTo(m))
      BY <1>7, <1>8 DEF Shrunk
    <3>2. sz'[p] = m /\ emptied' = emptied
      BY <1>2, <1>9, <2>3
    <3> QED
      BY <1>9, <2>1, <3>1, <3>2, CallOver
  <2> QED
    BY <2>2, <2>3
<1>13. nfree' + PagesHeldBy(p)' = nfree + PagesHeldBy(p)
  <2>1. MUser.d = NoSpace /\ MUser.mem = 0
    BY SMTT(30) DEF MUser
  <2>2. PagesHeldBy(p)' = PagesIn(e) + 0 + 0 /\ PagesHeldBy(p) = PagesIn(space[p]) + 0 + 0
    BY <1>2, <1>3, <1>9, <2>1, NothingHeld DEF PagesHeldBy
  <2> QED
    BY SMTT(30), <1>2, <1>4, <1>10, <2>2
<1>14. OnlyBy(p)
  BY <1>2, <1>9 DEF OnlyBy
<1> QED
  BY <1>2, <1>11, <1>12, <1>13, <1>14, StepOfOne

(* The start of a call: the pages stay where they are. *)
LEMMA CallStarts ==
  ASSUME MemInv, NEW p \in MProcs, NEW r \in MCall, MAt(p, "user"), MSet(p, r), CallInv(r), r.pc # "user",
         r.d = NoSpace, r.mem = 0, UNCHANGED <<nfree, space, sz, emptied, memHalt>>,
         ptl' = ptl \/ ptl = NoOne, ptl' \in {ptl, p},
         r.call = "grow" => ptl' = p /\ r.from = sz[p] /\ PagesUpTo(r.a) = PagesUpTo(sz[p]),
         r.call = "fork" => ptl' = p /\ r.to = sz[p] /\ r.child \in MProcs /\ space[r.child] = NoSpace
  PROVE  MemInv'
<1>1. MemTypes /\ ProcInv(p) /\ CallInv(mt[p])
  BY DEF MemInv, ProcInv
<1>2. mt[p].pc = "user" /\ space[p] # NoSpace /\ ~memHalt
  BY DEF MAt
<1>3. mt[p] = MUser /\ MUser.call = "none" /\ MUser.d = NoSpace /\ MUser.mem = 0
  BY SMTT(30), <1>1, <1>2 DEF CallInv, MUser
<1>4. mt' = [mt EXCEPT ![p] = r] /\ mt'[p] = r /\ \A q \in MProcs \ {p} : mt'[q] = mt[q]
  BY <1>1 DEF MSet, MemTypes
<1>5. MemTypes'
  BY <1>1, <1>4 DEF MemTypes
<1>6. space[p].map \subseteq PagesUpTo(sz[p]) /\ (p \notin emptied => space[p].map = PagesUpTo(sz[p]))
  <2>1. mt[p].call # "grow"
    BY SMTT(30), <1>3
  <2> QED
    BY <1>1, <1>2, <2>1 DEF ProcInv
<1>7. ProcInv(p)'
  BY <1>2, <1>4, <1>6 DEF ProcInv
<1>8. PagesHeldBy(p)' = PagesHeldBy(p)
  BY <1>3, <1>4 DEF PagesHeldBy
<1>9. OnlyBy(p)
  BY <1>2, <1>4 DEF OnlyBy
<1>10. nfree' + PagesHeldBy(p)' = nfree + PagesHeldBy(p)
  BY <1>8
<1> QED
  BY <1>2, <1>5, <1>7, <1>9, <1>10, StepOfOne

LEMMA GrowStep ==
  ASSUME MemInv, NEW p \in MProcs, NEW n \in Increments, Grow(p, n)
  PROVE  MemInv'
<1> DEFINE r == [MUser EXCEPT !.pc = "alloc", !.call = "grow",
                  !.from = sz[p], !.a = PGROUNDUP(sz[p]), !.to = sz[p] + n]
<1>1. MAt(p, "user") /\ ptl = NoOne /\ ptl' = p /\ sz[p] + n < KERNBASE /\ MSet(p, r)
      /\ UNCHANGED <<nfree, space, sz, emptied, memHalt>>
  BY DEF Grow
<1>2. sz[p] \in Nat /\ n \in Nat /\ KERNBASE \in Nat
  BY HeldNatural, MemAssumption DEF MemInv
<1>3. sz[p] + n \in 0 .. KERNBASE - 1 /\ sz[p] <= sz[p] + n
  BY SMTT(30), <1>1, <1>2
<1>4. /\ PGROUNDUP(sz[p]) \in Nat /\ Aligned(PGROUNDUP(sz[p])) /\ sz[p] <= PGROUNDUP(sz[p])
      /\ PGROUNDUP(sz[p]) < sz[p] + PGSIZE
  BY <1>2, RoundUp
<1>6. r \in MCall
  BY <1>2, <1>3, <1>4, NothingHeld DEF MCall
<1>7. /\ r.pc = "alloc" /\ r.call = "grow" /\ r.d = NoSpace /\ r.from = sz[p] /\ r.a = PGROUNDUP(sz[p])
      /\ r.to = sz[p] + n /\ r.mem = 0
  BY SMTT(30) DEF MUser
<1> HIDE DEF r
<1>8. r # MUser /\ r.pc # "user"
  BY SMTT(30), <1>7 DEF MUser
<1>9. r.a < r.to + PGSIZE
  BY SMTT(30), <1>2, <1>3, <1>4, <1>7, MemAssumption
<1>10. CallInv(r)
  BY SMTT(30), <1>4, <1>7, <1>8, <1>9 DEF CallInv
<1>11. PagesUpTo(r.a) = PagesUpTo(sz[p])
  <2>1. PagesUpTo(sz[p]) = PagesUpTo(PGROUNDUP(sz[p]))
    BY <1>2, <1>4, UpToFacts
  <2> QED
    BY <1>7, <2>1
<1>12. r.call # "fork"
  BY SMTT(30), <1>7
<1> QED
  BY <1>1, <1>6, <1>7, <1>8, <1>10, <1>11, <1>12, CallStarts

(* A build starts with no page and at address 0. *)
LEMMA BuildStarts ==
  ASSUME NEW r \in MCall, r.pc = "setupkvm", r.call \in {"fork", "image"}, r.d = NoSpace, r.mem = 0, r.a = 0
  PROVE  CallInv(r) /\ r.pc # "user"
<1>1. r # MUser /\ r.pc # "user" /\ r.pc # "map"
  BY SMTT(30) DEF MUser
<1>2. r.to \in Nat /\ r.a < r.to + PGSIZE /\ Aligned(0)
  <2>1. r.to \in 0 .. KERNBASE - 1
    BY SMTT(30) DEF MCall
  <2> QED
    BY SMTT(30), <2>1, MemAssumption DEF Aligned
<1>3. r.d.map = {} /\ PagesUpTo(0) = {}
  BY NothingHeld, UpToFacts
<1> QED
  BY SMTT(30), <1>1, <1>2, <1>3 DEF CallInv

LEMMA ForkStep ==
  ASSUME MemInv, NEW p \in MProcs, NEW q \in MProcs, Fork(p, q)
  PROVE  MemInv'
<1> DEFINE r == [MUser EXCEPT !.pc = "setupkvm", !.call = "fork", !.to = sz[p], !.child = q]
<1>1. MAt(p, "user") /\ ptl = NoOne /\ ptl' = p /\ space[q] = NoSpace /\ MSet(p, r)
      /\ UNCHANGED <<nfree, space, sz, emptied, memHalt>>
  BY DEF Fork
<1>2. sz[p] \in 0 .. KERNBASE - 1
  BY DEF MemInv, MemTypes
<1>4. r \in MCall
  BY <1>2, NothingHeld DEF MCall
<1>5. r.pc = "setupkvm" /\ r.call = "fork" /\ r.d = NoSpace /\ r.a = 0 /\ r.to = sz[p] /\ r.mem = 0 /\ r.child = q
  BY SMTT(30) DEF MUser
<1> HIDE DEF r
<1>6. CallInv(r) /\ r.pc # "user" /\ r.call # "grow"
  <2>1. r.call # "grow"
    BY SMTT(30), <1>5
  <2> QED
    BY <1>4, <1>5, <2>1, BuildStarts
<1> QED
  BY <1>1, <1>4, <1>5, <1>6, CallStarts

LEMMA ExecStep ==
  ASSUME MemInv, NEW p \in MProcs, NEW n \in ImageSizes, Exec(p, n)
  PROVE  MemInv'
<1> DEFINE r == [MUser EXCEPT !.pc = "setupkvm", !.call = "image", !.to = n]
<1>1. MAt(p, "user") /\ MSet(p, r) /\ UNCHANGED <<nfree, space, sz, ptl, emptied, memHalt>>
  BY DEF Exec
<1>2. n \in 0 .. KERNBASE - 1
  BY MemAssumption
<1>4. r \in MCall
  BY <1>2, NothingHeld DEF MCall
<1>5. r.pc = "setupkvm" /\ r.call = "image" /\ r.d = NoSpace /\ r.a = 0 /\ r.mem = 0
  BY SMTT(30) DEF MUser
<1> HIDE DEF r
<1>6. CallInv(r) /\ r.pc # "user" /\ r.call # "grow" /\ r.call # "fork"
  <2>1. r.call # "grow" /\ r.call # "fork"
    BY SMTT(30), <1>5
  <2> QED
    BY <1>4, <1>5, <2>1, BuildStarts
<1> QED
  BY <1>1, <1>4, <1>5, <1>6, CallStarts

(* setupkvm takes the directory, then the kernel's page tables. *)
LEMMA SetupStep ==
  ASSUME MemInv, NEW p \in MProcs, setupkvm(p)
  PROVE  MemInv'
<1> DEFINE r == mt[p]
           d == IF r.d.dir = 0 THEN [r.d EXCEPT !.dir = 1] ELSE [r.d EXCEPT !.kpt = @ + 1]
           l == IF d.kpt = KPT THEN "alloc" ELSE "setupkvm"
           s == [r EXCEPT !.d = d, !.pc = l]
<1>1. MemTypes /\ ProcInv(p) /\ CallInv(r) /\ r \in MCall /\ r.d \in AddrSpace
  BY HeldNatural DEF MemInv, ProcInv
<1>2. r.pc = "setupkvm" /\ space[p] # NoSpace /\ ~memHalt /\ UNCHANGED <<space, sz, ptl, emptied, memHalt>>
  BY DEF setupkvm, MAt
<1>3. r.call \in {"fork", "image"} /\ r.d.map = {} /\ r.a = 0 /\ r.mem = 0 /\ r.call # "grow" /\ r.pc # "user"
  <2>1. r.pc # "map"
    BY SMTT(30), <1>2
  <2>2. r.call \in {"fork", "image"} /\ r.d.map = {} /\ r.a = 0 /\ r.mem = 0
    BY <1>1, <1>2, <2>1 DEF CallInv
  <2> QED
    BY SMTT(30), <1>2, <2>2
<1>4. CASE nfree = 0
  <2>1. FailBuild(p)
    BY <1>4 DEF setupkvm
  <2>2. memHalt' \in BOOLEAN /\ (memHalt' => emptied # {})
    BY <1>1, <1>2 DEF MemTypes
  <2> QED
    BY <1>2, <1>3, <2>1, <2>2, FailedBuild
<1>5. CASE nfree # 0
  <2>1. nfree' = nfree - 1 /\ mt' = [mt EXCEPT ![p] = s]
    BY <1>5 DEF setupkvm, kalloc, MSet
  <2>2. r.d.dir \in 0 .. 1 /\ r.d.kpt \in Nat /\ r.d.upt \in 0 .. 1
    BY SMTT(30), <1>1 DEF AddrSpace
  <2>3. d \in AddrSpace /\ d.map = {} /\ d.upt = r.d.upt /\ d.dir + d.kpt = r.d.dir + r.d.kpt + 1
        /\ d.dir \in Nat /\ d.kpt \in Nat
    <3>1. CASE r.d.dir = 0
      BY SMTT(30), <1>1, <1>3, <2>2, <3>1 DEF AddrSpace
    <3>2. CASE r.d.dir # 0
      BY SMTT(30), <1>1, <1>3, <2>2, <3>2 DEF AddrSpace
    <3> QED
      BY <3>1, <3>2
  <2>4. l \in {"alloc", "setupkvm"}
    OBVIOUS
  <2> HIDE DEF d, l
  <2>5. s \in MCall
    BY <1>1, <2>3, <2>4 DEF MCall
  <2>6. s.d = d /\ s.pc = l /\ s.call = r.call /\ s.a = 0 /\ s.mem = 0 /\ s.to = r.to /\ s.from = r.from /\ s.child = r.child
    BY SMTT(30), <1>1, <1>3 DEF MCall
  <2> HIDE DEF s, r
  <2>7. s.pc # "user" /\ s.pc # "map" /\ s # MUser /\ s.call # "none"
    BY SMTT(30), <1>3, <2>4, <2>6 DEF MUser
  <2>8. CallInv(s)
    <3>1. s.pc = "setupkvm" => s.call \in {"fork", "image"} /\ s.d.map = {} /\ s.a = 0
      BY <1>3, <2>3, <2>6
    <3>2. Aligned(s.a) /\ s.a < s.to + PGSIZE
      BY <1>1, <1>3, <2>6 DEF CallInv
    <3>3. s.d.map = PagesUpTo(s.a)
      BY <2>3, <2>6, UpToFacts
    <3>4. s.call # "grow"
      BY <1>3, <2>6
    <3> QED
      BY <2>6, <2>7, <3>1, <3>2, <3>3, <3>4 DEF CallInv
  <2>9. mt'[p] = s /\ \A q \in MProcs \ {p} : mt'[q] = mt[q]
    BY <1>1, <2>1 DEF MemTypes
  <2>10. nfree \in Nat /\ nfree' \in Nat
    <3>1. nfree \in Nat
      BY <1>1 DEF MemTypes
    <3> QED
      BY SMTT(30), <1>5, <2>1, <3>1
  <2>11. MemTypes'
    BY <1>1, <1>2, <2>1, <2>5, <2>10 DEF MemTypes
  <2>12. ProcInv(p)'
    BY <1>1, <1>2, <1>3, <2>6, <2>8, <2>9 DEF ProcInv, r
  <2>13. nfree' + PagesHeldBy(p)' = nfree + PagesHeldBy(p)
    <3>1. PagesIn(d) = d.dir + d.kpt + d.upt + Cardinality({}) /\ PagesIn(r.d) = r.d.dir + r.d.kpt + r.d.upt + Cardinality({})
      BY <1>3, <2>3 DEF PagesIn
    <3>2. PagesIn(d) = PagesIn(r.d) + 1 /\ PagesIn(r.d) \in Nat /\ PagesIn(d) \in Nat
      BY SMTT(30), <2>2, <2>3, <3>1, FS_EmptySet
    <3>3. PagesHeldBy(p)' = PagesIn(space[p]) + PagesIn(d) + 0 /\ PagesHeldBy(p) = PagesIn(space[p]) + PagesIn(r.d) + 0
      BY <1>2, <1>3, <2>6, <2>9 DEF PagesHeldBy, r
    <3>4. PagesIn(space[p]) \in Nat
      BY <1>1, HeldNatural, PagesNatural
    <3> QED
      BY SMTT(30), <2>1, <2>10, <3>2, <3>3, <3>4
  <2>14. OnlyBy(p)
    BY <1>2, <2>9 DEF OnlyBy
  <2> QED
    BY <1>2, <2>11, <2>12, <2>13, <2>14, StepOfOne
<1> QED
  BY <1>4, <1>5

(* The panic of copyuvm: only for a parent whose size is not mapped. *)
LEMMA NotPresent ==
  ASSUME MemInv, NEW p \in MProcs, MAt(p, "alloc"), mt[p].a < mt[p].to,
         mt[p].call = "fork", mt[p].a \div PGSIZE \notin space[p].map
  PROVE  emptied # {}
<1>1. MemTypes /\ ProcInv(p) /\ CallInv(mt[p]) /\ space[p] # NoSpace
  BY DEF MemInv, ProcInv, MAt
<1>2. mt[p].to = sz[p] /\ mt[p].call # "grow"
  <2>1. mt[p].call # "grow"
    BY SMTT(30)
  <2> QED
    BY <1>1, <2>1 DEF ProcInv
<1>3. mt[p].a \in Nat /\ Aligned(mt[p].a) /\ sz[p] \in Nat /\ sz[p] < KERNBASE
  BY <1>1, HeldNatural DEF CallInv
<1>4. mt[p].a < KERNBASE /\ mt[p].a < sz[p]
  BY SMTT(30), <1>2, <1>3, MemAssumption
<1>5. mt[p].a \div PGSIZE \in PagesUpTo(sz[p])
  BY <1>3, <1>4, NextPage
<1>6. p \notin emptied => space[p].map = PagesUpTo(sz[p])
  BY <1>1, <1>2 DEF ProcInv
<1> QED
  BY <1>5, <1>6

(* kalloc in the loop of allocuvm or copyuvm. *)
LEMMA AllocStep ==
  ASSUME MemInv, NEW p \in MProcs, AllocPage(p)
  PROVE  MemInv'
<1> DEFINE r == mt[p]
           s == [r EXCEPT !.pc = "map", !.mem = 1]
<1>1. MemTypes /\ ProcInv(p) /\ CallInv(r) /\ r \in MCall /\ r.d \in AddrSpace
  BY HeldNatural DEF MemInv, ProcInv
<1>2. MAt(p, "alloc") /\ r.pc = "alloc" /\ space[p] # NoSpace /\ r.a < r.to /\ UNCHANGED <<sz, emptied>>
  BY DEF AllocPage, MAt
<1>3. memHalt' \in BOOLEAN /\ (memHalt' => emptied # {})
  BY <1>2, NotPresent DEF AllocPage
<1>4. r.pc # "user" /\ r.pc # "map" /\ r.pc # "setupkvm"
  BY SMTT(30), <1>2
<1>5. CASE nfree > 0
  <2>1. nfree' = nfree - 1 /\ mt' = [mt EXCEPT ![p] = s] /\ UNCHANGED <<space, ptl>>
    BY <1>5 DEF AllocPage, kalloc, MSet
  <2>2. s \in MCall
    <3>1. 1 \in 0 .. 1
      BY SMTT(30)
    <3> QED
      BY <1>1, <3>1 DEF MCall
  <2>3. /\ s.d = r.d /\ s.pc = "map" /\ s.call = r.call /\ s.a = r.a /\ s.mem = 1 /\ s.to = r.to /\ s.from = r.from
        /\ s.child = r.child
    BY SMTT(30), <1>1 DEF MCall
  <2> HIDE DEF s, r
  <2>4. s.pc # "user" /\ s.pc # "setupkvm" /\ s # MUser
    BY SMTT(30), <2>3 DEF MUser
  <2>5. CallInv(s) /\ r.mem = 0
    BY <1>1, <1>2, <1>4, <2>3, <2>4 DEF CallInv
  <2>6. mt'[p] = s /\ \A q \in MProcs \ {p} : mt'[q] = mt[q]
    BY <1>1, <2>1 DEF MemTypes
  <2>7. nfree \in Nat /\ nfree' \in Nat
    <3>1. nfree \in Nat
      BY <1>1 DEF MemTypes
    <3> QED
      BY SMTT(30), <1>5, <2>1, <3>1
  <2>8. MemTypes'
    BY <1>1, <1>2, <1>3, <2>1, <2>2, <2>7 DEF MemTypes
  <2>9. ProcInv(p)'
    BY <1>1, <1>2, <2>1, <2>3, <2>5, <2>6 DEF ProcInv, r
  <2>10. nfree' + PagesHeldBy(p)' = nfree + PagesHeldBy(p)
    <3>1. PagesHeldBy(p)' = PagesIn(space[p]) + PagesIn(r.d) + 1 /\ PagesHeldBy(p) = PagesIn(space[p]) + PagesIn(r.d) + 0
      BY <2>1, <2>3, <2>5, <2>6 DEF PagesHeldBy, r
    <3>2. PagesIn(space[p]) \in Nat /\ PagesIn(r.d) \in Nat
      BY <1>1, HeldNatural, PagesNatural
    <3> QED
      BY SMTT(30), <2>1, <2>7, <3>1, <3>2
  <2>11. OnlyBy(p)
    BY <1>2, <2>1, <2>6 DEF OnlyBy
  <2> QED
    BY <1>2, <1>3, <2>8, <2>9, <2>10, <2>11, StepOfOne
<1>6. CASE ~(nfree > 0) /\ r.call = "grow"
  <2>1. FailGrow(p)
    BY <1>6 DEF AllocPage
  <2> QED
    BY <1>2, <1>3, <1>6, <2>1, FailedGrow
<1>7. CASE ~(nfree > 0) /\ r.call # "grow"
  <2>1. FailBuild(p) /\ UNCHANGED <<space, ptl>>
    BY <1>7 DEF AllocPage
  <2> QED
    BY <1>2, <1>3, <1>4, <1>7, <2>1, FailedBuild
<1> QED
  BY <1>5, <1>6, <1>7

(* The page goes into the map, with a page table if it is the first one. *)
LEMMA MappedOne ==
  ASSUME NEW d \in AddrSpace, NEW k \in UserPage, k \notin d.map
  PROVE  LET e == [d EXCEPT !.map = @ \cup {k}, !.upt = 1] IN
         /\ e \in AddrSpace /\ e.map = d.map \cup {k} /\ e # NoSpace
         /\ PagesIn(e) = PagesIn(d) + 1 + (1 - d.upt) /\ d.upt \in 0 .. 1
<1> DEFINE e == [d EXCEPT !.map = @ \cup {k}, !.upt = 1]
<1>1. d.map \subseteq UserPage /\ d.dir \in Nat /\ d.kpt \in Nat /\ d.upt \in 0 .. 1
  BY SMTT(30) DEF AddrSpace
<1>2. e \in AddrSpace
  <2>1. 1 \in 0 .. 1
    BY SMTT(30)
  <2> QED
    BY <1>1, <2>1 DEF AddrSpace
<1>3. e.map = d.map \cup {k} /\ e.dir = d.dir /\ e.kpt = d.kpt /\ e.upt = 1
  BY SMTT(30) DEF AddrSpace
<1> HIDE DEF e
<1>4. e # NoSpace
  BY SMTT(30), <1>3 DEF NoSpace
<1>5. Cardinality(e.map) = Cardinality(d.map) + 1 /\ Cardinality(d.map) \in Nat
  BY <1>3, MapOne, PagesNatural
<1>6. PagesIn(e) = PagesIn(d) + 1 + (1 - d.upt)
  BY SMTT(30), <1>1, <1>3, <1>5 DEF PagesIn
<1> QED
  BY <1>1, <1>2, <1>3, <1>4, <1>6 DEF e

(* The next turn of the loop starts a page further. *)
NextTurn(r, s, d) ==
  /\ s.pc = "alloc" /\ s.mem = 0 /\ s.a = r.a + PGSIZE /\ s.d = d
  /\ s.call = r.call /\ s.from = r.from /\ s.to = r.to /\ s.child = r.child

LEMMA TurnOver ==
  ASSUME NEW r \in MCall, CallInv(r), r.pc = "map", NEW s, NEW d, NextTurn(r, s, d),
         r.call \in {"fork", "image", "stack"} => d.map = r.d.map \cup {r.a \div PGSIZE},
         r.call = "grow" => d = NoSpace
  PROVE  CallInv(s) /\ s.a \in Nat /\ PagesUpTo(s.a) = PagesUpTo(r.a) \cup {r.a \div PGSIZE}
<1>1. r.a \in Nat /\ r.to \in Nat /\ r.to < KERNBASE /\ r.from \in Nat /\ r.pc # "user"
  <2>1. r.to \in 0 .. KERNBASE - 1 /\ r.a \in Nat /\ r.from \in Nat
    BY SMTT(30) DEF MCall
  <2> QED
    BY SMTT(30), <2>1, MemAssumption
<1>2. Aligned(r.a) /\ r.a < r.to /\ r.call # "none"
  BY <1>1 DEF CallInv
<1>3. Aligned(s.a)
  BY <1>1, <1>2, PageOf DEF NextTurn
<1>4. s.a \in Nat /\ s.a < s.to + PGSIZE /\ r.a < KERNBASE /\ (r.from <= r.a => s.from <= s.a)
  BY SMTT(30), <1>1, <1>2, MemAssumption DEF NextTurn
<1>5. PagesUpTo(s.a) = PagesUpTo(r.a) \cup {r.a \div PGSIZE}
  BY <1>1, <1>2, <1>4, NextPage DEF NextTurn
<1>6. s.pc # "user" /\ s.pc # "setupkvm" /\ s.pc # "map" /\ s # MUser
  BY SMTT(30) DEF NextTurn, MUser
<1>7. s.call \in {"fork", "image", "stack"} => s.d.map = PagesUpTo(s.a)
  BY <1>5 DEF NextTurn, CallInv
<1>8. s.call = "grow" => s.d = NoSpace /\ s.from <= s.a
  BY <1>4 DEF NextTurn, CallInv
<1>9. CallInv(s)
  BY <1>2, <1>3, <1>4, <1>6, <1>7, <1>8 DEF CallInv, NextTurn
<1> QED
  BY <1>4, <1>5, <1>9

(* mappages for growproc *)
LEMMA MapGrow ==
  ASSUME MemInv, NEW p \in MProcs, MapPage(p), mt[p].call = "grow"
  PROVE  MemInv'
<1> DEFINE r == mt[p]
           k == r.a \div PGSIZE
           e == [space[p] EXCEPT !.map = @ \cup {k}, !.upt = 1]
           s == [r EXCEPT !.pc = "alloc", !.a = @ + PGSIZE, !.mem = 0]
<1>1. /\ MemTypes /\ ProcInv(p) /\ CallInv(r) /\ r \in MCall /\ space[p] \in AddrSpace
      /\ r.a \in Nat /\ r.to \in Nat /\ r.to < KERNBASE
  BY HeldNatural DEF MemInv, ProcInv
<1>2. r.pc = "map" /\ space[p] # NoSpace /\ UNCHANGED <<sz, emptied>> /\ memHalt' = (k \in space[p].map)
  BY DEF MapPage, MAt
<1>3. r.pc # "user" /\ Aligned(r.a) /\ r.a < r.to /\ r.mem = 1
  <2>1. r.pc # "user"
    BY SMTT(30), <1>2
  <2> QED
    BY <1>1, <1>2, <2>1 DEF CallInv
<1>4. /\ r.d = NoSpace /\ r.from = sz[p] /\ ptl = p /\ space[p].map \subseteq PagesUpTo(r.a)
      /\ (p \notin emptied => space[p].map = PagesUpTo(r.a))
  BY <1>1, <1>2 DEF ProcInv, CallInv
<1>5. r.a < KERNBASE
  BY SMTT(30), <1>1, <1>3, MemAssumption
<1>6. k \in UserPage /\ k \notin space[p].map
  BY <1>1, <1>3, <1>4, <1>5, NextPage
<1>7. ~memHalt' /\ memHalt' \in BOOLEAN
  <2>1. ~memHalt'
    BY <1>2, <1>6
  <2>2. memHalt' \in BOOLEAN
    BY SMTT(30) DEF MapPage
  <2> QED
    BY <2>1, <2>2
<1>8. CASE space[p].upt = 1 \/ nfree > 0
  <2>1. nfree' = nfree - (1 - space[p].upt) /\ space' = [space EXCEPT ![p] = e] /\ mt' = [mt EXCEPT ![p] = s] /\ ptl' = ptl
    BY <1>8 DEF MapPage, MSet
  <2>2. e \in AddrSpace /\ e.map = space[p].map \cup {k} /\ e # NoSpace
        /\ PagesIn(e) = PagesIn(space[p]) + 1 + (1 - space[p].upt) /\ space[p].upt \in 0 .. 1
    BY <1>1, <1>6, MappedOne
  <2>3. s \in MCall
    <3>1. 0 \in 0 .. 1 /\ r.a + PGSIZE \in Nat
      BY SMTT(30), <1>1, MemAssumption
    <3> QED
      BY <1>1, <3>1 DEF MCall
  <2>4. NextTurn(r, s, NoSpace)
    BY SMTT(30), <1>1, <1>4 DEF MCall, NextTurn
  <2> HIDE DEF s, e, k, r
  <2>5. r.call = "grow" /\ ~(r.call \in {"fork", "image", "stack"}) /\ ~(r.call = "fork")
    BY SMTT(30) DEF r
  <2>6. CallInv(s) /\ PagesUpTo(s.a) = PagesUpTo(r.a) \cup {k}
    BY <1>1, <1>2, <2>4, <2>5, TurnOver DEF k
  <2>7. mt'[p] = s /\ space'[p] = e /\ \A q \in MProcs \ {p} : mt'[q] = mt[q] /\ space'[q] = space[q]
    BY <1>1, <2>1 DEF MemTypes
  <2>8. nfree \in Nat /\ nfree' \in Nat
    <3>1. nfree \in Nat
      BY <1>1 DEF MemTypes
    <3> QED
      BY SMTT(30), <1>8, <2>1, <2>2, <3>1
  <2>9. MemTypes'
    BY <1>1, <1>2, <1>7, <2>1, <2>2, <2>3, <2>8 DEF MemTypes
  <2>10. ProcInv(p)'
    <3>1. s.call = "grow" /\ s.call # "fork" /\ s.from = sz[p]
      BY <1>4, <2>4, <2>5 DEF NextTurn
    <3>2. e.map \subseteq PagesUpTo(s.a) /\ (p \notin emptied => e.map = PagesUpTo(s.a))
      BY <1>4, <2>2, <2>6
    <3> QED
      BY <1>2, <1>4, <2>1, <2>2, <2>6, <2>7, <3>1, <3>2 DEF ProcInv
  <2>11. nfree' + PagesHeldBy(p)' = nfree + PagesHeldBy(p)
    <3>1. PagesHeldBy(p)' = PagesIn(e) + 0 + 0
      BY <2>4, <2>7, NothingHeld DEF PagesHeldBy, NextTurn
    <3>2. PagesHeldBy(p) = PagesIn(space[p]) + 0 + 1
      BY <1>3, <1>4, NothingHeld DEF PagesHeldBy, r
    <3>3. PagesIn(space[p]) \in Nat
      BY <1>1, PagesNatural
    <3> QED
      BY SMTT(30), <2>1, <2>2, <2>8, <3>1, <3>2, <3>3
  <2>12. OnlyBy(p)
    BY <1>2, <2>1, <2>7 DEF OnlyBy
  <2> QED
    BY <1>7, <2>9, <2>10, <2>11, <2>12, StepOfOne
<1>9. CASE ~(space[p].upt = 1 \/ nfree > 0)
  <2>1. FailGrow(p)
    BY <1>9 DEF MapPage
  <2> QED
    BY <1>2, <1>3, <1>7, <2>1, FailedGrow
<1> QED
  BY <1>8, <1>9

(* mappages for fork and exec *)
LEMMA MapBuild ==
  ASSUME MemInv, NEW p \in MProcs, MapPage(p), mt[p].call # "grow"
  PROVE  MemInv'
<1> DEFINE r == mt[p]
           k == r.a \div PGSIZE
           e == [r.d EXCEPT !.map = @ \cup {k}, !.upt = 1]
           s == [[r EXCEPT !.pc = "alloc", !.a = @ + PGSIZE, !.mem = 0] EXCEPT !.d = e]
<1>1. /\ MemTypes /\ ProcInv(p) /\ CallInv(r) /\ r \in MCall /\ r.d \in AddrSpace
      /\ r.a \in Nat /\ r.to \in Nat /\ r.to < KERNBASE
  BY HeldNatural DEF MemInv, ProcInv
<1>2. r.pc = "map" /\ space[p] # NoSpace /\ UNCHANGED <<sz, emptied>> /\ memHalt' = (k \in r.d.map)
  BY DEF MapPage, MAt
<1>3. r.pc # "user" /\ Aligned(r.a) /\ r.a < r.to /\ r.mem = 1 /\ r.call # "none"
  <2>1. r.pc # "user"
    BY SMTT(30), <1>2
  <2> QED
    BY <1>1, <1>2, <2>1 DEF CallInv
<1>4. r.call \in {"fork", "image", "stack"} /\ r.d.map = PagesUpTo(r.a)
  <2>1. r.call \in {"none", "grow", "fork", "image", "stack"}
    BY SMTT(30), <1>1 DEF MCall
  <2> QED
    BY <1>1, <1>3, <2>1 DEF CallInv
<1>5. r.a < KERNBASE
  BY SMTT(30), <1>1, <1>3, MemAssumption
<1>6. k \in UserPage /\ k \notin r.d.map
  BY <1>1, <1>3, <1>4, <1>5, NextPage
<1>7. ~memHalt' /\ memHalt' \in BOOLEAN
  <2>1. ~memHalt'
    BY <1>2, <1>6
  <2>2. memHalt' \in BOOLEAN
    BY SMTT(30) DEF MapPage
  <2> QED
    BY <2>1, <2>2
<1>8. CASE r.d.upt = 1 \/ nfree > 0
  <2>1. nfree' = nfree - (1 - r.d.upt) /\ space' = space /\ mt' = [mt EXCEPT ![p] = s] /\ ptl' = ptl
    BY <1>8 DEF MapPage, MSet
  <2>2. e \in AddrSpace /\ e.map = r.d.map \cup {k} /\ PagesIn(e) = PagesIn(r.d) + 1 + (1 - r.d.upt) /\ r.d.upt \in 0 .. 1
    BY <1>1, <1>6, MappedOne
  <2> HIDE DEF e
  <2>3. s \in MCall
    <3>1. 0 \in 0 .. 1 /\ r.a + PGSIZE \in Nat
      BY SMTT(30), <1>1, MemAssumption
    <3>2. [r EXCEPT !.pc = "alloc", !.a = @ + PGSIZE, !.mem = 0] \in MCall
      BY <1>1, <3>1 DEF MCall
    <3> QED
      BY <2>2, <3>2 DEF MCall
  <2>4. NextTurn(r, s, e)
    BY SMTT(30), <1>1 DEF MCall, NextTurn
  <2> HIDE DEF s, k, r
  <2>5. CallInv(s)
    BY <1>1, <1>2, <1>4, <2>2, <2>4, TurnOver DEF k, r
  <2>6. mt'[p] = s /\ \A q \in MProcs \ {p} : mt'[q] = mt[q]
    BY <1>1, <2>1 DEF MemTypes
  <2>7. nfree \in Nat /\ nfree' \in Nat
    <3>1. nfree \in Nat
      BY <1>1 DEF MemTypes
    <3> QED
      BY SMTT(30), <1>8, <2>1, <2>2, <3>1
  <2>8. MemTypes'
    BY <1>1, <1>2, <1>7, <2>1, <2>3, <2>7 DEF MemTypes
  <2>9. ProcInv(p)'
    BY <1>1, <1>2, <2>1, <2>4, <2>5, <2>6 DEF ProcInv, r, NextTurn
  <2>10. nfree' + PagesHeldBy(p)' = nfree + PagesHeldBy(p)
    <3>1. PagesHeldBy(p)' = PagesIn(space[p]) + PagesIn(e) + 0
      BY <2>1, <2>4, <2>6 DEF PagesHeldBy, NextTurn
    <3>2. PagesHeldBy(p) = PagesIn(space[p]) + PagesIn(r.d) + 1
      BY <1>3 DEF PagesHeldBy, r
    <3>3. PagesIn(space[p]) \in Nat /\ PagesIn(r.d) \in Nat
      BY <1>1, HeldNatural, PagesNatural
    <3> QED
      BY SMTT(30), <2>1, <2>2, <2>7, <3>1, <3>2, <3>3
  <2>11. OnlyBy(p)
    BY <1>2, <2>1, <2>6 DEF OnlyBy
  <2> QED
    BY <1>7, <2>8, <2>9, <2>10, <2>11, StepOfOne
<1>9. CASE ~(r.d.upt = 1 \/ nfree > 0)
  <2>1. FailBuild(p) /\ UNCHANGED <<space, ptl>>
    BY <1>9 DEF MapPage
  <2> QED
    BY <1>2, <1>3, <1>7, <2>1, FailedBuild
<1> QED
  BY <1>8, <1>9

(* growproc is done: the loop has passed the new size by less than a page. *)
LEMMA GrowDoneStep ==
  ASSUME MemInv, NEW p \in MProcs, GrowDone(p)
  PROVE  MemInv'
<1> DEFINE r == mt[p]
<1>1. /\ MemTypes /\ ProcInv(p) /\ CallInv(r) /\ r.a \in Nat /\ r.to \in Nat /\ r.mem \in 0 .. 1
      /\ r.to \in 0 .. KERNBASE - 1
  <2>1. MemTypes /\ ProcInv(p) /\ CallInv(r) /\ r \in MCall
    BY HeldNatural DEF MemInv, ProcInv
  <2>2. r.to \in 0 .. KERNBASE - 1
    BY SMTT(30), <2>1 DEF MCall
  <2> QED
    BY <2>1, <2>2, HeldNatural
<1>2. /\ r.pc = "alloc" /\ space[p] # NoSpace /\ ~memHalt /\ r.call = "grow" /\ r.a >= r.to
      /\ sz' = [sz EXCEPT ![p] = r.to] /\ ptl' = NoOne /\ mt' = [mt EXCEPT ![p] = MUser]
      /\ UNCHANGED <<nfree, space, emptied, memHalt>>
  BY DEF GrowDone, MAt, MSet
<1>3. r.mem = 0 /\ r.d = NoSpace /\ Aligned(r.a) /\ r.a < r.to + PGSIZE /\ r.to <= r.a
  <2>1. r.pc # "map" /\ r.to <= r.a
    BY SMTT(30), <1>1, <1>2
  <2> QED
    BY <1>1, <1>2, <2>1 DEF CallInv
<1>4. ptl = p /\ space[p].map \subseteq PagesUpTo(r.a) /\ (p \notin emptied => space[p].map = PagesUpTo(r.a))
  BY <1>1, <1>2 DEF ProcInv
<1>5. PagesUpTo(r.to) = PagesUpTo(r.a)
  BY <1>1, <1>3, UpToFacts
<1>6. mt'[p] = MUser /\ sz'[p] = r.to /\ \A q \in MProcs \ {p} : mt'[q] = mt[q] /\ sz'[q] = sz[q]
  BY <1>1, <1>2 DEF MemTypes
<1>7. MemTypes'
  BY <1>1, <1>2, NothingHeld DEF MemTypes
<1>8. ProcInv(p)'
  BY <1>2, <1>4, <1>5, <1>6, CallOver
<1>9. PagesHeldBy(p)' = PagesHeldBy(p)
  <2>1. MUser.d = NoSpace /\ MUser.mem = 0
    BY SMTT(30) DEF MUser
  <2> QED
    BY <1>2, <1>3, <1>6, <2>1 DEF PagesHeldBy
<1>10. OnlyBy(p)
  BY <1>2, <1>4, <1>6 DEF OnlyBy
<1>11. nfree' + PagesHeldBy(p)' = nfree + PagesHeldBy(p)
  BY <1>2, <1>9
<1> QED
  BY <1>2, <1>7, <1>8, <1>10, <1>11, StepOfOne

(* exec has loaded the image: the guard page and the stack come next. *)
LEMMA ExecLoadedStep ==
  ASSUME MemInv, NEW p \in MProcs, ExecLoaded(p)
  PROVE  MemInv'
<1> DEFINE r == mt[p]
           top == PGROUNDUP(r.to)
           s == [r EXCEPT !.call = "stack", !.from = top, !.a = top, !.to = top + 2 * PGSIZE]
<1>1. MemTypes /\ ProcInv(p) /\ CallInv(r) /\ r \in MCall /\ r.a \in Nat /\ r.to \in Nat
  BY HeldNatural DEF MemInv, ProcInv
<1>2. /\ r.pc = "alloc" /\ space[p] # NoSpace /\ ~memHalt /\ r.call = "image" /\ r.a >= r.to /\ top + 2 * PGSIZE < KERNBASE
      /\ mt' = [mt EXCEPT ![p] = s] /\ UNCHANGED <<nfree, space, sz, ptl, emptied, memHalt>>
  BY DEF ExecLoaded, MAt, MSet
<1>3. top \in Nat /\ Aligned(top) /\ r.to <= top /\ top < r.to + PGSIZE
  BY <1>1, RoundUp
<1> HIDE DEF top
<1>4. top + 2 * PGSIZE \in 0 .. KERNBASE - 1 /\ top < top + 2 * PGSIZE + PGSIZE /\ r.to <= r.a
  BY SMTT(30), <1>1, <1>2, <1>3, MemAssumption
<1>5. s \in MCall
  BY <1>1, <1>3, <1>4 DEF MCall
<1>6. /\ s.pc = "alloc" /\ s.call = "stack" /\ s.d = r.d /\ s.a = top /\ s.to = top + 2 * PGSIZE /\ s.mem = r.mem
  BY SMTT(30), <1>1, <1>2 DEF MCall
<1> HIDE DEF s, r
<1>7. s.pc # "user" /\ s.pc # "setupkvm" /\ s.pc # "map" /\ s # MUser /\ s.call # "none" /\ s.call # "grow" /\ s.call # "fork"
      /\ r.pc # "map" /\ r.pc # "user" /\ r.call # "grow"
  BY SMTT(30), <1>2, <1>6 DEF MUser
<1>8. s.d.map = PagesUpTo(s.a)
  <2>1. r.d.map = PagesUpTo(r.a) /\ Aligned(r.a) /\ r.a < r.to + PGSIZE
    BY <1>1, <1>2 DEF CallInv
  <2>2. PagesUpTo(r.to) = PagesUpTo(r.a)
    BY <1>1, <1>4, <2>1, UpToFacts
  <2>3. PagesUpTo(r.to) = PagesUpTo(top)
    BY <1>1, <1>3, UpToFacts
  <2> QED
    BY <1>6, <2>1, <2>2, <2>3
<1>9. CallInv(s)
  <2>1. s.mem = 0
    BY <1>1, <1>6, <1>7 DEF CallInv
  <2> QED
    BY <1>3, <1>4, <1>6, <1>7, <1>8, <2>1 DEF CallInv
<1>10. mt'[p] = s /\ \A q \in MProcs \ {p} : mt'[q] = mt[q]
  BY <1>1, <1>2 DEF MemTypes
<1>11. MemTypes'
  BY <1>1, <1>2, <1>5 DEF MemTypes
<1>12. ProcInv(p)'
  BY <1>1, <1>2, <1>7, <1>9, <1>10 DEF ProcInv, r
<1>13. PagesHeldBy(p)' = PagesHeldBy(p)
  BY <1>2, <1>6, <1>10 DEF PagesHeldBy, r
<1>14. OnlyBy(p)
  BY <1>2, <1>10 DEF OnlyBy
<1>15. nfree' + PagesHeldBy(p)' = nfree + PagesHeldBy(p)
  BY <1>2, <1>13
<1> QED
  BY <1>2, <1>11, <1>12, <1>14, <1>15, StepOfOne

LEMMA ExecBadStep ==
  ASSUME MemInv, NEW p \in MProcs, ExecBad(p)
  PROVE  MemInv'
<1>1. /\ mt[p].pc = "alloc" /\ space[p] # NoSpace /\ ~memHalt /\ mt[p].call \in {"image", "stack"} /\ FailBuild(p)
      /\ UNCHANGED <<space, sz, ptl, emptied, memHalt>>
  BY DEF ExecBad, MAt
<1>2. mt[p].pc # "user" /\ mt[p].call # "grow"
  BY SMTT(30), <1>1
<1>3. memHalt' \in BOOLEAN /\ (memHalt' => emptied # {})
  BY <1>1 DEF MemInv, MemTypes
<1> QED
  BY <1>1, <1>2, <1>3, FailedBuild

(* exec is done: the new address space for the old one. *)
LEMMA ExecDoneStep ==
  ASSUME MemInv, NEW p \in MProcs, ExecDone(p)
  PROVE  MemInv'
<1> DEFINE r == mt[p]
<1>1. /\ MemTypes /\ ProcInv(p) /\ CallInv(r) /\ r.d \in AddrSpace /\ r.a \in Nat /\ r.to \in Nat
      /\ r.to \in 0 .. KERNBASE - 1 /\ space[p] \in AddrSpace
  <2>1. MemTypes /\ ProcInv(p) /\ CallInv(r) /\ r \in MCall
    BY HeldNatural DEF MemInv, ProcInv
  <2>2. r.to \in 0 .. KERNBASE - 1
    BY SMTT(30), <2>1 DEF MCall
  <2> QED
    BY <2>1, <2>2, HeldNatural
<1>2. /\ r.pc = "alloc" /\ space[p] # NoSpace /\ ~memHalt /\ r.call = "stack" /\ r.a >= r.to
      /\ space' = [space EXCEPT ![p] = r.d] /\ sz' = [sz EXCEPT ![p] = r.to]
      /\ nfree' = nfree + freevm(space[p]) /\ mt' = [mt EXCEPT ![p] = MUser] /\ emptied' = emptied \ {p}
      /\ UNCHANGED <<ptl, memHalt>>
  BY DEF ExecDone, MAt, MSet, kfree
<1>3. r.mem = 0 /\ r.d.map = PagesUpTo(r.a) /\ Aligned(r.a) /\ r.a < r.to + PGSIZE /\ r.to <= r.a
  <2>1. r.pc # "map" /\ r.to <= r.a
    BY SMTT(30), <1>1, <1>2
  <2> QED
    BY <1>1, <1>2, <2>1 DEF CallInv
<1>4. r.d.map = PagesUpTo(r.to)
  <2>1. PagesUpTo(r.to) = PagesUpTo(r.a)
    BY <1>1, <1>3, UpToFacts
  <2> QED
    BY <1>3, <2>1
<1>5. /\ mt'[p] = MUser /\ sz'[p] = r.to /\ space'[p] = r.d
      /\ \A q \in MProcs \ {p} : mt'[q] = mt[q] /\ sz'[q] = sz[q] /\ space'[q] = space[q]
  BY <1>1, <1>2 DEF MemTypes
<1>6. nfree \in Nat /\ PagesIn(space[p]) \in Nat /\ PagesIn(r.d) \in Nat /\ freevm(space[p]) = PagesIn(space[p])
  BY <1>1, PagesNatural DEF MemTypes
<1>7. MemTypes'
  <2>1. nfree' \in Nat
    BY SMTT(30), <1>2, <1>6
  <2>2. emptied' \subseteq MProcs
    BY <1>1, <1>2 DEF MemTypes
  <2> QED
    BY <1>1, <1>2, <2>1, <2>2, NothingHeld DEF MemTypes
<1>8. ProcInv(p)'
  BY <1>4, <1>5, CallOver
<1>9. nfree' + PagesHeldBy(p)' = nfree + PagesHeldBy(p)
  <2>1. MUser.d = NoSpace /\ MUser.mem = 0
    BY SMTT(30) DEF MUser
  <2>2. PagesHeldBy(p)' = PagesIn(r.d) + 0 + 0 /\ PagesHeldBy(p) = PagesIn(space[p]) + PagesIn(r.d) + 0
    BY <1>3, <1>5, <2>1, NothingHeld DEF PagesHeldBy
  <2> HIDE DEF r
  <2> QED
    BY SMTT(30), <1>2, <1>6, <2>2
<1>10. OnlyBy(p)
  BY <1>2, <1>5 DEF OnlyBy
<1> QED
  BY <1>2, <1>7, <1>8, <1>9, <1>10, StepOfOne

(* wait frees the address space of a process that has exited. *)
LEMMA WaitStep ==
  ASSUME MemInv, NEW p \in MProcs, Wait(p)
  PROVE  MemInv'
<1>1. MemTypes /\ ProcInv(p) /\ CallInv(mt[p]) /\ space[p] \in AddrSpace
  BY HeldNatural DEF MemInv, ProcInv
<1>2. /\ mt[p].pc = "user" /\ space[p] # NoSpace /\ ~memHalt /\ ptl = NoOne
      /\ nfree' = nfree + freevm(space[p]) /\ space' = [space EXCEPT ![p] = NoSpace] /\ sz' = [sz EXCEPT ![p] = 0]
      /\ emptied' = emptied \ {p} /\ UNCHANGED <<ptl, mt, memHalt>>
  BY DEF Wait, MAt, kfree
<1>3. mt[p] = MUser /\ MUser.d = NoSpace /\ MUser.mem = 0
  BY SMTT(30), <1>1, <1>2 DEF CallInv, MUser
<1>4. /\ sz'[p] = 0 /\ space'[p] = NoSpace
      /\ \A q \in MProcs \ {p} : mt'[q] = mt[q] /\ sz'[q] = sz[q] /\ space'[q] = space[q]
  BY <1>1, <1>2 DEF MemTypes
<1>5. nfree \in Nat /\ PagesIn(space[p]) \in Nat /\ freevm(space[p]) = PagesIn(space[p])
  BY <1>1, PagesNatural DEF MemTypes
<1>6. MemTypes'
  <2>1. nfree' \in Nat /\ 0 \in 0 .. KERNBASE - 1
    BY SMTT(30), <1>2, <1>5, MemAssumption
  <2>2. emptied' \subseteq MProcs
    BY <1>1, <1>2 DEF MemTypes
  <2> QED
    BY <1>1, <1>2, <2>1, <2>2, NothingHeld DEF MemTypes
<1>7. ProcInv(p)'
  BY <1>2, <1>3, <1>4, CallOver, NothingHeld
<1>8. nfree' + PagesHeldBy(p)' = nfree + PagesHeldBy(p)
  <2>1. PagesHeldBy(p)' = 0 + 0 + 0 /\ PagesHeldBy(p) = PagesIn(space[p]) + 0 + 0
    BY <1>2, <1>3, <1>4, NothingHeld DEF PagesHeldBy
  <2> QED
    BY SMTT(30), <1>2, <1>5, <2>1
<1>9. OnlyBy(p)
  BY <1>2, <1>4 DEF OnlyBy
<1> QED
  BY <1>2, <1>6, <1>7, <1>8, <1>9, StepOfOne

(* fork is done: the child has the space its parent built. *)
LEMMA ForkDoneStep ==
  ASSUME MemInv, NEW p \in MProcs, ForkDone(p)
  PROVE  MemInv'
<1> DEFINE r == mt[p]
<1>1. /\ MemTypes /\ ProcInv(p) /\ CallInv(r) /\ r.d \in AddrSpace /\ r.a \in Nat /\ r.to \in Nat
      /\ space[p] \in AddrSpace
  BY HeldNatural DEF MemInv, ProcInv
<1>2. /\ r.pc = "alloc" /\ space[p] # NoSpace /\ ~memHalt /\ r.call = "fork" /\ r.a >= r.to
      /\ space' = [space EXCEPT ![r.child] = r.d] /\ sz' = [sz EXCEPT ![r.child] = sz[p]]
      /\ mt' = [mt EXCEPT ![p] = MUser] /\ ptl' = NoOne /\ UNCHANGED <<nfree, emptied, memHalt>>
  BY DEF ForkDone, MAt, MSet
<1>3. /\ r.mem = 0 /\ r.d.map = PagesUpTo(r.a) /\ Aligned(r.a) /\ r.a < r.to + PGSIZE /\ r.to <= r.a
      /\ r.call # "grow"
  <2>1. r.pc # "map" /\ r.to <= r.a /\ r.call # "grow"
    BY SMTT(30), <1>1, <1>2
  <2> QED
    BY <1>1, <1>2, <2>1 DEF CallInv
<1>child. PICK c \in MProcs : c = r.child
  BY <1>1, <1>2 DEF ProcInv
<1>4. ptl = p /\ r.to = sz[p] /\ space[c] = NoSpace /\ c # p
  BY <1>1, <1>2, <1>child DEF ProcInv
<1>5. mt[c] = MUser /\ MUser.d = NoSpace /\ MUser.mem = 0
  <2>1. ProcInv(c)
    BY <1>4 DEF MemInv
  <2> QED
    BY SMTT(30), <1>4, <2>1 DEF ProcInv, MUser
<1>6. r.d.map = PagesUpTo(sz[p])
  <2>1. PagesUpTo(r.to) = PagesUpTo(r.a)
    BY <1>1, <1>3, UpToFacts
  <2> QED
    BY <1>3, <1>4, <2>1
<1> HIDE DEF r
<1>7. /\ mt'[p] = MUser /\ sz'[p] = sz[p] /\ space'[p] = space[p]
      /\ mt'[c] = MUser /\ sz'[c] = sz[p] /\ space'[c] = r.d
      /\ \A q \in MProcs \ {p, c} : mt'[q] = mt[q] /\ sz'[q] = sz[q] /\ space'[q] = space[q]
  BY <1>1, <1>2, <1>child, <1>4, <1>5 DEF MemTypes
<1>8. MemTypes'
  <2>1. sz' \in [MProcs -> 0 .. KERNBASE - 1]
    BY <1>1, <1>2 DEF MemTypes
  <2> QED
    BY <1>1, <1>2, <2>1, NothingHeld, MemAssumption DEF MemTypes
<1>9. ProcInv(p)'
  <2>1. space[p].map \subseteq PagesUpTo(sz[p]) /\ (p \notin emptied => space[p].map = PagesUpTo(sz[p]))
    BY <1>1, <1>2, <1>3 DEF ProcInv, r
  <2> QED
    BY <1>2, <1>7, <2>1, CallOver
<1>10. ProcInv(c)'
  BY <1>4, <1>6, <1>7, CallOver
<1>11. ASSUME NEW q \in MProcs \ {p, c} PROVE ProcInv(q)'
  <2>1. mt[q].call # "fork"
    <3>1. ProcInv(q)
      BY DEF MemInv
    <3> QED
      BY <1>4, <3>1 DEF ProcInv
  <2> QED
    BY <1>2, <1>4, <1>7, <2>1, Bystander
<1>12. PagesConserved'
  <2> DEFINE f == [q \in MProcs |-> PagesHeldBy(q)]
             g == [q \in MProcs |-> PagesHeldBy(q)']
             h == [f EXCEPT ![p] = PagesHeldBy(p)']
  <2>1. f \in [MProcs -> Nat]
    BY <1>1, HeldNatural
  <2>2. PagesIn(space[p]) \in Nat /\ PagesIn(r.d) \in Nat
    BY <1>1, PagesNatural
  <2>3. PagesHeldBy(p)' = PagesIn(space[p]) + 0 + 0 /\ PagesHeldBy(p) = PagesIn(space[p]) + PagesIn(r.d) + 0
    BY <1>3, <1>5, <1>7, NothingHeld DEF PagesHeldBy, r
  <2>4. PagesHeldBy(c)' = PagesIn(r.d) + 0 + 0 /\ PagesHeldBy(c) = 0 + 0 + 0
    BY <1>4, <1>5, <1>7, NothingHeld DEF PagesHeldBy
  <2>5. \A q \in MProcs \ {p, c} : PagesHeldBy(q)' = PagesHeldBy(q)
    BY <1>7 DEF PagesHeldBy
  <2>6. PagesHeldBy(p)' \in Nat /\ PagesHeldBy(c)' \in Nat
    BY SMTT(30), <2>2, <2>3, <2>4
  <2>7. /\ f[p] = PagesHeldBy(p) /\ f[c] = PagesHeldBy(c) /\ h[p] = PagesHeldBy(p)' /\ h[c] = f[c]
        /\ g[c] = PagesHeldBy(c)' /\ g[p] = PagesHeldBy(p)'
    BY <1>4
  <2>8. h \in [MProcs -> Nat] /\ \A q \in MProcs \ {p} : h[q] = f[q]
    BY <2>1, <2>6
  <2>9. g \in [MProcs -> Nat] /\ \A q \in MProcs \ {c} : g[q] = h[q]
    <3>1. \A q \in MProcs : PagesHeldBy(q)' \in Nat
      BY <2>1, <2>5, <2>6
    <3>2. \A q \in MProcs \ {c} : q # p => g[q] = f[q]
      BY <2>5
    <3> QED
      BY <2>7, <2>8, <3>1, <3>2
  <2>10. PagesConserved' <=> nfree' + Total(g) = NPAGES
    BY DEF PagesConserved
  <2>11. nfree + Total(f) = NPAGES
    BY DEF MemInv, PagesConserved
  <2> HIDE DEF f, g, h
  <2>12. IsFiniteSet(MProcs)
    BY MemAssumption
  <2>13. Total(f) \in Nat /\ Total(h) = Total(f) - f[p] + h[p]
    BY <2>1, <2>8, <2>12, TotalChange
  <2>14. Total(g) = Total(h) - h[c] + g[c]
    <3>1. h \in [MProcs -> Nat] /\ g \in [MProcs -> Nat] /\ \A q \in MProcs \ {c} : g[q] = h[q]
      BY <2>8, <2>9
    <3> QED
      BY <2>12, <3>1, TotalChange
  <2>15. Total(g) = Total(f)
    BY SMTT(30), <2>2, <2>3, <2>4, <2>7, <2>13, <2>14
  <2> QED
    BY <1>2, <2>10, <2>11, <2>15
<1>13. memHalt' => emptied' # {}
  BY <1>2
<1> QED
  BY <1>8, <1>9, <1>10, <1>11, <1>12, <1>13 DEF MemInv

(* userinit: one process of one page, and the rest of memory free. *)
LEMMA MemStart ==
  ASSUME MemInit
  PROVE  MemInv
<1> DEFINE b == CHOOSE q \in MProcs : TRUE
           d == [dir |-> 1, kpt |-> KPT, upt |-> 1, map |-> {0}]
<1>1. b \in MProcs
  BY MemAssumption
<1> HIDE DEF b
<1>2. /\ nfree = NPAGES - KPT - 3 /\ space = [q \in MProcs |-> IF q = b THEN d ELSE NoSpace]
      /\ sz = [q \in MProcs |-> IF q = b THEN PGSIZE ELSE 0]
      /\ ptl = NoOne /\ mt = [q \in MProcs |-> MUser] /\ emptied = {} /\ memHalt = FALSE
  BY DEF MemInit, b
<1>3. 0 \in Nat /\ Aligned(0) /\ 0 < KERNBASE /\ PGSIZE \in Nat /\ KERNBASE \in Nat /\ 0 \div PGSIZE = 0 /\ 0 < PGSIZE
  BY SMTT(30), MemAssumption DEF Aligned
<1>4. 0 \in UserPage /\ PagesUpTo(PGSIZE) = {0}
  <2>1. 0 + PGSIZE = PGSIZE
    BY SMTT(30), <1>3
  <2>2. 0 \in UserPage /\ PagesUpTo(PGSIZE) = PagesUpTo(0) \cup {0}
    <3>1. LET k == 0 \div PGSIZE IN k \in UserPage /\ PagesUpTo(0 + PGSIZE) = PagesUpTo(0) \cup {k}
      BY <1>3, NextPage
    <3> QED
      BY <1>3, <2>1, <3>1
  <2> QED
    BY <2>2, UpToFacts
<1>5. d \in AddrSpace /\ d.map = {0} /\ d # NoSpace
  BY SMTT(30), <1>4, MemAssumption DEF AddrSpace, NoSpace
<1>6. PagesIn(d) = KPT + 3
  <2>1. Cardinality({0}) = 1
    BY FS_Singleton
  <2>2. PagesIn(d) = 1 + KPT + 1 + 1
    BY SMTT(30), <2>1, MemAssumption DEF PagesIn
  <2> QED
    BY SMTT(30), <2>2, MemAssumption
<1> HIDE DEF d
<1>7. MemTypes
  <2>1. nfree \in Nat /\ PGSIZE \in 0 .. KERNBASE - 1 /\ 0 \in 0 .. KERNBASE - 1
    BY SMTT(30), <1>2, MemAssumption
  <2> QED
    BY <1>2, <1>5, <2>1, NothingHeld DEF MemTypes
<1>8. ASSUME NEW p \in MProcs PROVE ProcInv(p)
  <2>1. mt[p] = MUser /\ MUser.call = "none"
    BY SMTT(30), <1>2 DEF MUser
  <2>2. space[p].map = PagesUpTo(sz[p])
    BY <1>2, <1>4, <1>5, NothingHeld, UpToFacts
  <2> QED
    BY SMTT(30), <2>1, <2>2, NothingHeld DEF ProcInv
<1>9. PagesConserved
  <2> DEFINE f == [q \in MProcs |-> PagesHeldBy(q)]
  <2>1. MUser.d = NoSpace /\ MUser.mem = 0
    BY SMTT(30) DEF MUser
  <2>2. PagesHeldBy(b) = PagesIn(d) + 0 + 0
    BY <1>1, <1>2, <2>1, NothingHeld DEF PagesHeldBy
  <2>3. ASSUME NEW q \in MProcs \ {b} PROVE PagesHeldBy(q) = 0
    <3>1. PagesHeldBy(q) = 0 + 0 + 0
      BY <1>2, <2>1, NothingHeld DEF PagesHeldBy
    <3> QED
      BY SMTT(30), <3>1
  <2>4. f \in [MProcs -> Nat] /\ (\A q \in MProcs \ {b} : f[q] = 0) /\ f[b] = PagesHeldBy(b)
    BY <1>1, <1>7, <2>3, HeldNatural
  <2>5. PagesConserved <=> nfree + Total(f) = NPAGES
    BY DEF PagesConserved
  <2> HIDE DEF f
  <2>6. IsFiniteSet(MProcs)
    BY MemAssumption
  <2>7. Total(f) = f[b]
    BY <1>1, <2>4, <2>6, TotalOne
  <2> QED
    BY SMTT(30), <1>2, <1>6, <2>2, <2>4, <2>5, <2>7, MemAssumption
<1> QED
  BY <1>2, <1>7, <1>8, <1>9 DEF MemInv

LEMMA MemNextInv ==
  ASSUME MemInv, [MemNext]_memVars
  PROVE  MemInv'
<1>1. CASE UNCHANGED memVars
  BY <1>1 DEF memVars, MemInv, MemTypes, ProcInv, PagesConserved, PagesHeldBy
<1>2. CASE MemNext
  <2>1. PICK p \in MProcs :
          \/ AllocPage(p) \/ MapPage(p) \/ GrowDone(p) \/ setupkvm(p) \/ ForkDone(p) \/ ExecLoaded(p) \/ ExecBad(p)
          \/ ExecDone(p) \/ Wait(p) \/ (\E q \in MProcs : Fork(p, q)) \/ (\E n \in ImageSizes : Exec(p, n))
          \/ \E n \in Increments : Grow(p, n) \/ Shrink(p, n)
    BY <1>2 DEF MemNext
  <2>2. MapPage(p) => MemInv'
    BY MapGrow, MapBuild
  <2> QED
    BY <2>1, <2>2, AllocStep, GrowDoneStep, SetupStep, ForkDoneStep, ExecLoadedStep, ExecBadStep, ExecDoneStep,
       WaitStep, ForkStep, ExecStep, GrowStep, ShrinkStep
<1> QED
  BY <1>1, <1>2

LEMMA MemInvariant == MemSpec => []MemInv
BY MemStart, MemNextInv, PTL DEF MemSpec

(* No page is leaked and none freed twice by growproc, fork, exec and wait *)
(* on any of their paths, for any number of pages, processes, page sizes   *)
(* and increments: kalloc.c's free list and the address spaces always hold *)
(* all of memory between them.                                             *)
THEOREM NoPageIsLost == MemSpec => []PagesConserved
<1>1. MemInv => PagesConserved
  BY DEF MemInv
<1> QED
  BY <1>1, MemInvariant, PTL

(* Outside growproc, an address space maps exactly the pages below the     *)
(* size of its process, and mappages's "remap" and copyuvm's "page not     *)
(* present" are reached only after a growproc to size 0.                   *)
THEOREM SizesAreMapped == MemSpec => []SizeMapped
<1>1. MemInv => SizeMapped
  BY DEF MemInv, ProcInv, SizeMapped
<1> QED
  BY <1>1, MemInvariant, PTL
=============================================================================
