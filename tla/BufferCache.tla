---------------------------- MODULE BufferCache -----------------------------
(***************************************************************************)
(* The buffer cache (bio.c), the sleep locks of its buffers (sleeplock.c)  *)
(* and the disk queue (ide.c).  Sections under bcache.lock, a sleep lock's *)
(* spinlock or idelock are one step each; sleep gives the lock up in the   *)
(* same step, as proc.c does.                                              *)
(***************************************************************************)
EXTENDS Integers, Sequences, FiniteSets

CONSTANTS
  Users,            \* threads that use buffers
  Pid,              \* the process of each
  Blocks, NoBlock,
  Values, Zero, Nobody,
  NBUF,
  MaxPinned,        \* how many blocks the log keeps in the cache
  ReadOutcomes      \* idewait(1) >= 0 after a read command

ASSUME BufferAssumption == NBUF \in Nat \ {0} /\ MaxPinned \in Nat /\ ReadOutcomes \subseteq BOOLEAN
ASSUME UserAssumption == IsFiniteSet(Users) /\ Nobody \notin Users /\ NoBlock \notin Blocks

Buf == 1 .. NBUF
Idle == [op |-> "idle", block |-> NoBlock, data |-> Zero]

VARIABLES
  buf,         \* blockno, refcnt, flags (valid, dirty) and data of each buffer
  lru,         \* bcache.head: most recently used first
  lock,        \* the buffers' sleep locks: locked and pid
  idequeue,
  controller,  \* the command the disk is working on
  disk,
  pc, mine,    \* where each thread is, and its buffer
  bufHalt      \* a panic

bufVars == <<buf, lru, lock, idequeue, controller, disk, pc, mine, bufHalt>>

BufInit ==
  /\ buf = [i \in Buf |-> [blockno |-> NoBlock, refcnt |-> 0, valid |-> FALSE, dirty |-> FALSE, data |-> Zero]]
  /\ lru = [i \in Buf |-> NBUF + 1 - i]
  /\ lock = [i \in Buf |-> [locked |-> FALSE, pid |-> 0]]
  /\ idequeue = <<>> /\ controller = Idle /\ disk = [b \in Blocks |-> Zero]
  /\ pc = [t \in Users |-> "user"] /\ mine = [t \in Users |-> 1] /\ bufHalt = FALSE

At(t, l) == ~bufHalt /\ pc[t] = l
Goto(t, l) == pc' = [pc EXCEPT ![t] = l]

-----------------------------------------------------------------------------
(* bget, under bcache.lock *)

Cached(b) == {i \in Buf : buf[i].blockno = b}
Unused_clean(i) == buf[i].refcnt = 0
Unused(i) == buf[i].refcnt = 0 /\ ~buf[i].dirty
(* The first such buffer from the least recently used end of the list. *)
Victim == LET k == CHOOSE k \in Buf : Unused(lru[k]) /\ \A j \in k + 1 .. NBUF : ~Unused(lru[j]) IN lru[k]

BgetHit(t, b) ==
  /\ At(t, "user")
  /\ \E i \in Cached(b) :
       /\ buf' = [buf EXCEPT ![i].refcnt = @ + 1]
       /\ mine' = [mine EXCEPT ![t] = i]
  /\ Goto(t, "acquiresleep")
  /\ UNCHANGED <<lru, lock, idequeue, controller, disk, bufHalt>>

BgetRecycle(t, b) ==
  /\ At(t, "user") /\ Cached(b) = {}
  /\ IF \E i \in Buf : Unused(i)
     THEN /\ buf' = [buf EXCEPT ![Victim] = [@ EXCEPT !.blockno = b, !.valid = FALSE, !.dirty = FALSE, !.refcnt = 1]]
          /\ mine' = [mine EXCEPT ![t] = Victim]
          /\ Goto(t, "acquiresleep") /\ UNCHANGED bufHalt
     ELSE bufHalt' = TRUE /\ UNCHANGED <<buf, mine, pc>>           \* panic("bget: no buffers")
  /\ UNCHANGED <<lru, lock, idequeue, controller, disk>>

bget(t, b) == BgetHit(t, b) \/ BgetRecycle(t, b)

-----------------------------------------------------------------------------
(* Sleep locks, and the rest of bread: a buffer that is not valid is read. *)

holdingsleep(t) == lock[mine[t]].locked /\ lock[mine[t]].pid = Pid[t]

LockSleep(t) ==
  /\ At(t, "acquiresleep") /\ lock[mine[t]].locked
  /\ Goto(t, "locksleep")
  /\ UNCHANGED <<buf, lru, lock, idequeue, controller, disk, mine, bufHalt>>

acquiresleep_untested(t) ==
  /\ At(t, "acquiresleep")
  /\ lock' = [lock EXCEPT ![mine[t]] = [locked |-> TRUE, pid |-> Pid[t]]]
  /\ Goto(t, IF buf[mine[t]].valid THEN "hold" ELSE "iderw")
  /\ UNCHANGED <<buf, lru, idequeue, controller, disk, mine, bufHalt>>
acquiresleep_reread(t) ==
  /\ At(t, "acquiresleep") /\ ~lock[mine[t]].locked
  /\ lock' = [lock EXCEPT ![mine[t]] = [locked |-> TRUE, pid |-> Pid[t]]]
  /\ Goto(t, "iderw")
  /\ UNCHANGED <<buf, lru, idequeue, controller, disk, mine, bufHalt>>
acquiresleep(t) ==
  /\ At(t, "acquiresleep") /\ ~lock[mine[t]].locked
  /\ lock' = [lock EXCEPT ![mine[t]] = [locked |-> TRUE, pid |-> Pid[t]]]
  /\ Goto(t, IF buf[mine[t]].valid THEN "hold" ELSE "iderw")
  /\ UNCHANGED <<buf, lru, idequeue, controller, disk, mine, bufHalt>>

(* brelse, first part: releasesleep, which wakes all who wait for the lock.*)
releasesleep(t) ==
  /\ At(t, "hold")
  /\ bufHalt' = ~holdingsleep(t)
  /\ lock' = [lock EXCEPT ![mine[t]] = [locked |-> FALSE, pid |-> 0]]
  /\ pc' = [u \in Users |-> IF u = t THEN "brelse"
                            ELSE IF pc[u] = "locksleep" /\ mine[u] = mine[t] THEN "acquiresleep"
                            ELSE pc[u]]
  /\ UNCHANGED <<buf, lru, idequeue, controller, disk, mine>>

(* Unlinked from where it is in the list and linked at the head. *)
MoveToFront(i) ==
  LET p == CHOOSE p \in Buf : lru[p] = i IN
  [k \in Buf |-> IF k = 1 THEN i ELSE IF k <= p THEN lru[k - 1] ELSE lru[k]]

(* brelse, second part, under bcache.lock. *)
brelse(t) ==
  /\ At(t, "brelse")
  /\ buf' = [buf EXCEPT ![mine[t]].refcnt = @ - 1]
  /\ lru' = IF buf[mine[t]].refcnt = 1 THEN MoveToFront(mine[t]) ELSE lru
  /\ Goto(t, "user") /\ mine' = [mine EXCEPT ![t] = 1]
  /\ UNCHANGED <<lock, idequeue, controller, disk, bufHalt>>

-----------------------------------------------------------------------------
(* The disk *)

(* idestart: a write hands the data over now. *)
idestart(i, bufs) == [op |-> IF bufs[i].dirty THEN "write" ELSE "read",
                      block |-> bufs[i].blockno, data |-> bufs[i].data]

iderw(t) ==
  LET i == mine[t] IN
  /\ At(t, "iderw")
  /\ bufHalt' = (~holdingsleep(t) \/ (buf[i].valid /\ ~buf[i].dirty))
  /\ idequeue' = Append(idequeue, i)
  /\ controller' = IF idequeue = <<>> THEN idestart(i, buf) ELSE controller
  /\ Goto(t, "iosleep")
  /\ UNCHANGED <<buf, lru, lock, disk, mine>>

(* The loop of iderw after a wakeup. *)
IoDone(t) ==
  /\ At(t, "iowake")
  /\ Goto(t, IF buf[mine[t]].valid /\ ~buf[mine[t]].dirty THEN "hold" ELSE "iosleep")
  /\ UNCHANGED <<buf, lru, lock, idequeue, controller, disk, mine, bufHalt>>

(* The disk finishes its command and ideintr runs. *)
ideintr ==
  /\ ~bufHalt /\ idequeue # <<>>
  /\ LET i == Head(idequeue) IN
     /\ disk' = IF controller.op = "write" THEN [disk EXCEPT ![controller.block] = controller.data] ELSE disk
     /\ \E ok \in ReadOutcomes :
          buf' = [buf EXCEPT ![i] = [@ EXCEPT !.valid = TRUE, !.dirty = FALSE,
                    !.data = IF ~buf[i].dirty /\ ok THEN disk[controller.block] ELSE buf[i].data]]
     /\ pc' = [t \in Users |-> IF pc[t] = "iosleep" /\ mine[t] = i THEN "iowake" ELSE pc[t]]
     /\ idequeue' = Tail(idequeue)
     /\ controller' = IF Tail(idequeue) = <<>> THEN Idle ELSE idestart(Head(Tail(idequeue)), buf)
  /\ UNCHANGED <<lru, lock, mine, bufHalt>>

(* A caller changes the data and writes it through, or leaves that to the  *)
(* log, whose log_write sets B_DIRTY and whose commit calls bwrite.        *)
bwrite(t, v) ==
  /\ At(t, "hold")
  /\ buf' = [buf EXCEPT ![mine[t]] = [@ EXCEPT !.data = v, !.dirty = TRUE]]
  /\ bufHalt' = ~holdingsleep(t)
  /\ Goto(t, "iderw")
  /\ UNCHANGED <<lru, lock, idequeue, controller, disk, mine>>

Pinned == {i \in Buf : buf[i].dirty /\ \A t \in Users : ~(mine[t] = i /\ pc[t] \in {"iderw", "iosleep", "iowake"})}

log_write(t, v) ==
  /\ At(t, "hold") /\ Cardinality(Pinned \union {mine[t]}) <= MaxPinned
  /\ buf' = [buf EXCEPT ![mine[t]] = [@ EXCEPT !.data = v, !.dirty = TRUE]]
  /\ UNCHANGED <<lru, lock, idequeue, controller, disk, pc, mine, bufHalt>>

BufStep(t) ==
  LockSleep(t) \/ acquiresleep(t) \/ releasesleep(t) \/ brelse(t) \/ iderw(t) \/ IoDone(t)

BufNext ==
  \/ \E t \in Users : BufStep(t) \/ (\E b \in Blocks : bget(t, b)) \/ \E v \in Values : bwrite(t, v) \/ log_write(t, v)
  \/ ideintr

BufSpec == BufInit /\ [][BufNext]_bufVars

-----------------------------------------------------------------------------
(* What the steps keep, from which the properties follow. *)

Places == {"user", "acquiresleep", "locksleep", "iderw", "iosleep", "iowake", "hold", "brelse"}
Owning == {"iderw", "iosleep", "iowake", "hold"}
Owns(t, i) == mine[t] = i /\ pc[t] \in Owning
Sharers(i) == {t \in Users : mine[t] = i /\ pc[t] # "user"}
Queued(i) == \E k \in 1 .. Len(idequeue) : idequeue[k] = i

Buffer == [blockno : Blocks \union {NoBlock}, refcnt : Int, valid : BOOLEAN, dirty : BOOLEAN,
           data : Values \union {Zero}]
SleepLock == [locked : BOOLEAN, pid : {0} \union {Pid[t] : t \in Users}]

BufTypeOK ==
  /\ buf \in [Buf -> Buffer]
  /\ lru \in [Buf -> Buf] /\ \A i \in Buf : \E k \in Buf : lru[k] = i
  /\ lock \in [Buf -> SleepLock]
  /\ idequeue \in Seq(Buf) /\ disk \in [Blocks -> Values \union {Zero}]
  /\ pc \in [Users -> Places] /\ mine \in [Users -> Buf] /\ bufHalt \in BOOLEAN

(* A block is in one buffer, which counts its users. *)
ShareInv ==
  /\ \A i, j \in Buf : (buf[i].blockno = buf[j].blockno /\ i # j) => buf[i].blockno = NoBlock
  /\ \A i \in Buf : buf[i].refcnt = Cardinality(Sharers(i))
  /\ \A t \in Users : pc[t] # "user" => buf[mine[t]].blockno # NoBlock

(* The sleep lock has one owner, whose process it names. *)
LockInv ==
  /\ \A t \in Users : pc[t] = "locksleep" => lock[mine[t]].locked
  /\ \A t, u \in Users : (pc[t] \in Owning /\ pc[u] \in Owning /\ mine[t] = mine[u]) => t = u
  /\ \A t \in Users : pc[t] \in Owning => holdingsleep(t)
  /\ \A i \in Buf : lock[i].locked => \E t \in Users : Owns(t, i)

(* The queue holds the buffers of those who sleep for the disk, once each. *)
QueueInv ==
  /\ \A j, k \in 1 .. Len(idequeue) : idequeue[j] = idequeue[k] => j = k
  /\ \A t \in Users : pc[t] = "iosleep" => Queued(mine[t])
  /\ \A k \in 1 .. Len(idequeue) : \E t \in Users : mine[t] = idequeue[k] /\ pc[t] = "iosleep"
  /\ idequeue # <<>> => controller = idestart(Head(idequeue), buf)

FlagInv ==
  /\ \A i \in Buf : buf[i].dirty => buf[i].valid
  /\ \A t \in Users : /\ pc[t] = "iderw" => (buf[mine[t]].valid => buf[mine[t]].dirty)
                      /\ pc[t] \in {"iowake", "hold"} => buf[mine[t]].valid
                      /\ pc[t] = "iowake" => ~buf[mine[t]].dirty

PinInv == Cardinality(Pinned) <= MaxPinned

(* A clean buffer holds what is on the disk. *)
CleanInv == \A i \in Buf : (buf[i].valid /\ ~buf[i].dirty /\ buf[i].blockno # NoBlock)
              => buf[i].data = disk[buf[i].blockno]

CacheInv == BufTypeOK /\ ShareInv /\ LockInv /\ QueueInv /\ FlagInv /\ PinInv

-----------------------------------------------------------------------------
(* Properties *)

Locker(i) == {t \in Users : Owns(t, i)}

(* bio.c: the cache is "a synchronization point for disk blocks".  A block *)
(* is never in two buffers; users between bget and brelse are counted      *)
(* exactly, one of them at most holds the sleep lock, and who sleeps for   *)
(* it has somebody to be woken by; a buffer in the disk queue is locked by *)
(* the thread that waits for it.  So no buffer is recycled, or changed,    *)
(* under anybody's hands.                                                  *)
BufferOwned ==
  /\ \A i, j \in Buf : (buf[i].blockno = buf[j].blockno /\ i # j) => buf[i].blockno = NoBlock
  /\ \A t \in Users : pc[t] = "locksleep" => lock[mine[t]].locked
  /\ \A i \in Buf :
       /\ buf[i].refcnt = Cardinality({t \in Users : mine[t] = i /\ pc[t] # "user"})
       /\ Cardinality(Locker(i)) = IF lock[i].locked THEN 1 ELSE 0
       /\ Cardinality({k \in 1 .. Len(idequeue) : idequeue[k] = i})
            = Cardinality({t \in Users : mine[t] = i /\ pc[t] = "iosleep"})

(* No panic: callers never find all buffers busy while the log pins at     *)
(* most MaxPinned of them, and always hold what they release or write.     *)
BufNoPanic == ~bufHalt

(* bread returns the block's current value, to one thread at a time, and   *)
(* neither eviction nor the disk queue loses a write.                      *)
CurrentValue(b) ==
  LET current == {i \in Cached(b) : buf[i].valid \/ buf[i].dirty} IN
  IF current = {} THEN disk[b] ELSE buf[CHOOSE i \in current : TRUE].data
HolderOf(b) ==
  LET holders == {t \in Users : buf[mine[t]].blockno = b /\ pc[t] \in Owning} IN
  IF holders = {} THEN Nobody ELSE CHOOSE t \in holders : TRUE
BlockValues == [b \in Blocks |-> CurrentValue(b)]
BlockHolders == [b \in Blocks |-> HolderOf(b)]
Store == INSTANCE BlockStore WITH value <- BlockValues, holder <- BlockHolders
BlockStoreSpec == Store!Spec
=============================================================================
