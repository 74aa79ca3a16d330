------------------------------- MODULE KMutex -------------------------------
(***************************************************************************)
(* The kernel mutexes of proc.c:716-788, one shared access per step.       *)
(*                                                                         *)
(* kthread_mutex_lock, unlock and dealloc copy the mutex to their own      *)
(* stack and then lock, test, set and wake on that copy; only              *)
(* kthread_mutex_alloc writes to mutexes[].  Everything they do to the     *)
(* copy is private to the caller and is one step.  mutex_num is read       *)
(* without mutexes_lock, and initlock writes the lock without holding it,  *)
(* so those accesses are steps of their own.                               *)
(*                                                                         *)
(* The callers are threads in kernel mode, each on a CPU of its own; a     *)
(* spinlock is represented by its holder.                                  *)
(***************************************************************************)
EXTENDS Integers, FiniteSets

CONSTANTS
  Callers,       \* threads that lock and unlock
  Allocators,    \* those of them that also allocate and deallocate
  MAX_MUTEXES,
  StrayIds,      \* ids programs pass although alloc did not return them
  Free           \* the holder of a spinlock nobody holds

ASSUME CallerAssumption == Allocators \subseteq Callers /\ Free \notin Callers
ASSUME MaxAssumption    == MAX_MUTEXES \in Nat \ {0} /\ StrayIds \subseteq Int

VARIABLES
  mutex_num,     \* number of mutexes in use, as the code counts them
  mutexes,       \* the array, from 1: mutexes[i] is the code's mutexes[i-1]
  mutexes_lock,  \* holder of mutexes_lock
  pc,            \* where each caller is
  id,            \* argument of the call, or the slot alloc works on
  copy,          \* struct kthread_mutex_t on the caller's stack
  live,          \* ids returned by alloc and not yet passed to dealloc
  held,          \* the mutex a caller has locked and not yet unlocked, or 0
  halt           \* "panic": release of a lock not held; "corrupt": slot out of range

userVars == <<live, held>>
arrayVars == <<mutex_num, mutexes>>
vars == <<mutex_num, mutexes, mutexes_lock, pc, id, copy, live, held, halt>>

Ids == 1 .. MAX_MUTEXES
Holder == Callers \union {Free}
Mutex == [locked : {0, 1}, lk : Holder, id : 0 .. MAX_MUTEXES]
Zero == [locked |-> 0, lk |-> Free, id |-> 0]

Location == {"user", "alloc", "initlock", "full", "acquire_num", "count", "release_num",
             "slot", "init_slot", "acquire_slot", "fill", "release_slot", "acquire_copy",
             "copy_back", "release_copy", "alloc_return", "dealloc", "dealloc_copy",
             "acquire_dec", "discount", "release_dec", "lock", "lock_copy", "asleep",
             "unlock", "unlock_copy"}

Init ==
  /\ mutex_num = 0 /\ mutexes = [i \in Ids |-> Zero] /\ mutexes_lock = Free
  /\ pc = [t \in Callers |-> "user"] /\ id = [t \in Callers |-> 0]
  /\ copy = [t \in Callers |-> Zero]
  /\ live = {} /\ held = [t \in Callers |-> 0] /\ halt = "no"

-----------------------------------------------------------------------------
At(t, l) == halt = "no" /\ pc[t] = l
Goto(t, l) == pc' = [pc EXCEPT ![t] = l]

(* acquire and release of mutexes_lock on the way from one place to the next. *)
acquire(t, from, to) ==
  /\ At(t, from) /\ mutexes_lock = Free
  /\ mutexes_lock' = t /\ Goto(t, to)
  /\ UNCHANGED <<arrayVars, id, copy, userVars, halt>>

release(t, from, to) ==
  /\ At(t, from)
  /\ mutexes_lock' = IF mutexes_lock = t THEN Free ELSE mutexes_lock
  /\ halt' = IF mutexes_lock = t THEN halt ELSE "panic"
  /\ Goto(t, to)
  /\ UNCHANGED <<arrayVars, id, copy, userVars>>

(* What programs do: lock a mutex they know of, unlock the one they hold,  *)
(* and deallocate the newest when nobody is using it.                      *)
InUse(i) == \E t \in Callers : held[t] = i \/ (pc[t] # "user" /\ id[t] = i)
Newest(i) == i \in live /\ \A j \in live : j <= i

Call(t) ==
  /\ At(t, "user")
  /\ \/ t \in Allocators /\ Goto(t, "alloc") /\ UNCHANGED <<id, live, held>>
     \/ \E i \in live :
          /\ t \in Allocators /\ Newest(i) /\ ~InUse(i)
          /\ Goto(t, "dealloc") /\ id' = [id EXCEPT ![t] = i]
          /\ live' = live \ {i} /\ UNCHANGED held
     \/ \E i \in live :
          /\ held[t] = 0
          /\ Goto(t, "lock") /\ id' = [id EXCEPT ![t] = i] /\ UNCHANGED <<live, held>>
     \/ \E i \in StrayIds, op \in {"lock", "unlock", "dealloc"} :
          /\ held[t] = 0
          /\ Goto(t, op) /\ id' = [id EXCEPT ![t] = i] /\ UNCHANGED <<live, held>>
     \/ /\ held[t] # 0
        /\ Goto(t, "unlock") /\ id' = [id EXCEPT ![t] = held[t]]
        /\ held' = [held EXCEPT ![t] = 0] /\ UNCHANGED live
  /\ UNCHANGED <<arrayVars, mutexes_lock, copy, halt>>

-----------------------------------------------------------------------------
(* kthread_mutex_alloc *)

FirstUse(t) ==
  /\ At(t, "alloc")
  /\ Goto(t, IF mutex_num = 0 THEN "initlock" ELSE "full")
  /\ UNCHANGED <<arrayVars, mutexes_lock, id, copy, userVars, halt>>

initlock(t) ==
  /\ At(t, "initlock")
  /\ mutexes_lock' = Free /\ Goto(t, "full")
  /\ UNCHANGED <<arrayVars, id, copy, userVars, halt>>

Full(t) ==
  /\ At(t, "full")
  /\ Goto(t, IF mutex_num = MAX_MUTEXES THEN "user" ELSE "acquire_num")
  /\ UNCHANGED <<arrayVars, mutexes_lock, id, copy, userVars, halt>>

Count(t) ==
  /\ At(t, "count")
  /\ mutex_num' = mutex_num + 1 /\ Goto(t, "release_num")
  /\ UNCHANGED <<mutexes, mutexes_lock, id, copy, userVars, halt>>

(* The pointer &mutexes[mutex_num - 1], from mutex_num as it is now. *)
Slot_before(t) ==
  /\ At(t, "slot")
  /\ LET n == IF mutex_num > 1 THEN mutex_num - 1 ELSE mutex_num IN
     id' = [id EXCEPT ![t] = n] /\ halt' = halt
  /\ Goto(t, "init_slot")
  /\ UNCHANGED <<arrayVars, mutexes_lock, copy, userVars>>
Slot(t) ==
  /\ At(t, "slot")
  /\ IF mutex_num \in Ids
     THEN id' = [id EXCEPT ![t] = mutex_num] /\ halt' = halt
     ELSE id' = id /\ halt' = "corrupt"
  /\ Goto(t, "init_slot")
  /\ UNCHANGED <<arrayVars, mutexes_lock, copy, userVars>>

InitSlot(t) ==
  /\ At(t, "init_slot")
  /\ mutexes' = [mutexes EXCEPT ![id[t]].lk = Free] /\ Goto(t, "acquire_slot")
  /\ UNCHANGED <<mutex_num, mutexes_lock, id, copy, userVars, halt>>

AcquireSlot(t) ==
  /\ At(t, "acquire_slot") /\ mutexes[id[t]].lk = Free
  /\ mutexes' = [mutexes EXCEPT ![id[t]].lk = t] /\ Goto(t, "fill")
  /\ UNCHANGED <<mutex_num, mutexes_lock, id, copy, userVars, halt>>

Fill(t) ==
  /\ At(t, "fill")
  /\ mutexes' = [mutexes EXCEPT ![id[t]] = [@ EXCEPT !.locked = 0, !.id = mutex_num]]
  /\ Goto(t, "release_slot")
  /\ UNCHANGED <<mutex_num, mutexes_lock, id, copy, userVars, halt>>

ReleaseSlot_forgotten(t) ==
  /\ At(t, "release_slot") /\ Goto(t, "acquire_copy")
  /\ UNCHANGED <<arrayVars, mutexes_lock, id, copy, userVars, halt>>
ReleaseSlot(t) ==
  /\ At(t, "release_slot")
  /\ IF mutexes[id[t]].lk = t
     THEN mutexes' = [mutexes EXCEPT ![id[t]].lk = Free] /\ halt' = halt
     ELSE mutexes' = mutexes /\ halt' = "panic"
  /\ Goto(t, "acquire_copy")
  /\ UNCHANGED <<mutex_num, mutexes_lock, id, copy, userVars>>

(* mutexes[mutex_num - 1] = *mutex *)
CopyBack(t) ==
  /\ At(t, "copy_back")
  /\ IF mutex_num \in Ids
     THEN mutexes' = [mutexes EXCEPT ![mutex_num] = mutexes[id[t]]] /\ halt' = halt
     ELSE mutexes' = mutexes /\ halt' = "corrupt"
  /\ Goto(t, "release_copy")
  /\ UNCHANGED <<mutex_num, mutexes_lock, id, copy, userVars>>

AllocReturn(t) ==
  /\ At(t, "alloc_return")
  /\ live' = live \union {mutexes[id[t]].id} /\ Goto(t, "user")
  /\ UNCHANGED <<arrayVars, mutexes_lock, id, copy, held, halt>>

kthread_mutex_alloc(t) ==
  \/ FirstUse(t) \/ initlock(t) \/ Full(t)
  \/ acquire(t, "acquire_num", "count") \/ Count(t) \/ release(t, "release_num", "slot")
  \/ Slot(t) \/ InitSlot(t) \/ AcquireSlot(t) \/ Fill(t) \/ ReleaseSlot(t)
  \/ acquire(t, "acquire_copy", "copy_back") \/ CopyBack(t)
  \/ release(t, "release_copy", "alloc_return") \/ AllocReturn(t)

-----------------------------------------------------------------------------
(* mutex = mutexes[mutex_id - 1]: the whole struct, spinlock included.  Id *)
(* 0 passes the test and reads whatever lies before the array.             *)
Contents(i) == IF i = 0 THEN Mutex ELSE {mutexes[i]}

CopyMutex(t, from, to) ==
  /\ At(t, from)
  /\ IF 0 > id[t] \/ id[t] > MAX_MUTEXES
     THEN Goto(t, "user") /\ copy' = copy
     ELSE Goto(t, to) /\ \E m \in Contents(id[t]) : copy' = [copy EXCEPT ![t] = m]
  /\ UNCHANGED <<arrayVars, mutexes_lock, id, userVars, halt>>

(* acquire(&mutex.lk) on the copy: spins for ever unless it was free when  *)
(* copied, because nobody else can reach the copy.                         *)
DeallocCopy(t) ==
  /\ At(t, "dealloc_copy")
  /\ IF copy[t].locked = 1
     THEN Goto(t, "user") /\ copy' = copy
     ELSE /\ copy[t].lk = Free
          /\ copy' = [copy EXCEPT ![t].id = 0] /\ Goto(t, "acquire_dec")
  /\ UNCHANGED <<arrayVars, mutexes_lock, id, userVars, halt>>

Discount(t) ==
  /\ At(t, "discount")
  /\ mutex_num' = mutex_num - 1 /\ Goto(t, "release_dec")
  /\ UNCHANGED <<mutexes, mutexes_lock, id, copy, userVars, halt>>

kthread_mutex_dealloc(t) ==
  \/ CopyMutex(t, "dealloc", "dealloc_copy") \/ DeallocCopy(t)
  \/ acquire(t, "acquire_dec", "discount") \/ Discount(t) \/ release(t, "release_dec", "user")

(* A copy made of a locked mutex sleeps on its own address, which no       *)
(* wakeup will ever name.                                                  *)
LockCopy(t) ==
  /\ At(t, "lock_copy") /\ copy[t].lk = Free
  /\ copy' = [copy EXCEPT ![t].locked = 1]
  /\ held' = IF copy[t].locked = 1 THEN held ELSE [held EXCEPT ![t] = id[t]]
  /\ Goto(t, IF copy[t].locked = 1 THEN "asleep" ELSE "user")
  /\ UNCHANGED <<arrayVars, mutexes_lock, id, live, halt>>

kthread_mutex_lock(t) == CopyMutex(t, "lock", "lock_copy") \/ LockCopy(t)

UnlockCopy(t) ==
  /\ At(t, "unlock_copy") /\ copy[t].lk = Free
  /\ copy' = [copy EXCEPT ![t] = Zero] /\ Goto(t, "user")
  /\ UNCHANGED <<arrayVars, mutexes_lock, id, userVars, halt>>

kthread_mutex_unlock(t) == CopyMutex(t, "unlock", "unlock_copy") \/ UnlockCopy(t)

Kernel(t) ==
  kthread_mutex_alloc(t) \/ kthread_mutex_dealloc(t) \/ kthread_mutex_lock(t) \/ kthread_mutex_unlock(t)

Next == \E t \in Callers : Call(t) \/ Kernel(t)
Spec == Init /\ [][Next]_vars
LiveSpec == Spec /\ \A t \in Callers : WF_vars(Kernel(t))

-----------------------------------------------------------------------------
(* What the steps keep while only one thread allocates and nobody passes   *)
(* an id that alloc could have returned and did not.                       *)

OneAllocator == \A t, u \in Allocators : t = u
RefusedIds == StrayIds \intersect (0 .. MAX_MUTEXES) = {}

Intact(i) == [locked |-> 0, lk |-> Free, id |-> i]
(* Where mutex_num counts a mutex that is not live yet, where alloc has    *)
(* its slot, and where mutexes_lock is held.                               *)
Placed == {"init_slot", "acquire_slot", "fill", "release_slot", "acquire_copy", "copy_back",
           "release_copy", "alloc_return"}
Counted == Placed \union {"release_num", "slot"}
Allocating == Counted \union {"alloc", "initlock", "full", "acquire_num", "count"}
Locking == {"count", "release_num", "copy_back", "release_copy", "discount", "release_dec"}
Freeing(t) == pc[t] \in {"dealloc_copy", "acquire_dec", "discount"} \/ (pc[t] = "dealloc" /\ id[t] \in Ids)
Pending(t) == pc[t] \in Counted \/ Freeing(t)
Active(t) == pc[t] \in Allocating \/ Freeing(t) \/ pc[t] = "release_dec"

TypeOK ==
  /\ mutex_num \in 0 .. MAX_MUTEXES /\ mutexes \in [Ids -> Mutex] /\ mutexes_lock \in Holder
  /\ pc \in [Callers -> Location] /\ id \in [Callers -> Int] /\ copy \in [Callers -> Mutex]
  /\ held \in [Callers -> Int]

(* What a caller in the middle of alloc or dealloc knows. *)
CallerInv(t) ==
  /\ Active(t) => t \in Allocators
  /\ mutexes_lock = t <=> pc[t] \in Locking
  /\ pc[t] \in {"acquire_num", "count"} => mutex_num < MAX_MUTEXES
  /\ Pending(t) => mutex_num > 0
  /\ (pc[t] \in Placed \/ Freeing(t)) => id[t] = mutex_num
  /\ pc[t] = "acquire_slot" => mutexes[mutex_num].lk = Free
  /\ pc[t] \in {"fill", "release_slot"} => mutexes[mutex_num].lk = t
  /\ pc[t] = "release_slot" => mutexes[mutex_num].locked = 0 /\ mutexes[mutex_num].id = mutex_num
  /\ (pc[t] \in {"acquire_copy", "copy_back", "release_copy", "alloc_return"} \/ Freeing(t)) =>
       mutexes[mutex_num] = Intact(mutex_num)
  /\ pc[t] = "dealloc_copy" => copy[t] = Intact(mutex_num)
  /\ (pc[t] = "dealloc" /\ id[t] \notin Ids) => id[t] \in StrayIds

SlotInv ==
  /\ TypeOK /\ halt = "no"
  /\ \A t \in Callers : CallerInv(t)
  /\ live = 1 .. IF \E t \in Callers : Pending(t) THEN mutex_num - 1 ELSE mutex_num
  /\ \A i \in live : mutexes[i] = Intact(i)

-----------------------------------------------------------------------------
(* Properties *)

(* An id in use names an initialised slot of its own, whose spinlock       *)
(* nobody holds: alloc neither returns an id in use nor touches its slot   *)
(* while another thread may be copying it.                                 *)
LiveSlotsIntact ==
  /\ \A i \in live : mutexes[i] = [locked |-> 0, lk |-> Free, id |-> i]
  /\ \A t \in Callers : pc[t] = "alloc_return" => mutexes[id[t]].id \notin live

(* Every call on the mutexes returns: no spinlock is left locked, in the   *)
(* array or in a copy of it, and no release panics.                        *)
CallReturns == \A t \in Callers : pc[t] # "user" ~> pc[t] = "user"

(* README.md on kthread_mutex_lock: a mutex that is locked by another      *)
(* thread blocks the caller until it is unlocked.                          *)
MutualExclusion ==
  \A t, u \in Callers : (t # u /\ held[t] # 0) => held[t] # held[u]
=============================================================================
