-------------------------------- MODULE Log ---------------------------------
(***************************************************************************)
(* The redo log of log.c: operations between begin_op and end_op change    *)
(* blocks in the buffer cache, the last one to end writes them to the log, *)
(* commits with one write of the header and installs them.  Every disk     *)
(* write is a step of its own and the machine may crash between any two.   *)
(*                                                                         *)
(* A section under log.lock is one step.  The buffer cache is taken as     *)
(* BufferCache shows it: one current value per block, used by one thread   *)
(* at a time, and not evicted while it is in the log (B_DIRTY).            *)
(***************************************************************************)
EXTENDS Integers, FiniteSets

CONSTANTS
  Ops,          \* threads that run file system calls
  Blocks,       \* home locations
  Values, Zero, \* contents of a block; Zero is what the disk starts with
  MAXOPBLOCKS,
  LOGSIZE,
  NLOG,         \* log.size: blocks of the on-disk log, header included
  OpBlocks      \* log_write calls one operation makes at most

ASSUME LogAssumption ==
  /\ IsFiniteSet(Ops) /\ Blocks # {} /\ Zero \in Values
  /\ MAXOPBLOCKS \in Nat /\ LOGSIZE \in Nat /\ NLOG \in Nat /\ OpBlocks \in Nat

(* mkfs makes the on-disk log LOGSIZE blocks long, header included, one    *)
(* less than begin_op counts on.  An operation that logs fewer blocks than *)
(* MAXOPBLOCKS makes up for it.  An operation fits into the empty log.     *)
ASSUME RoomAssumption ==
  /\ \/ OpBlocks <= MAXOPBLOCKS /\ NLOG > LOGSIZE
     \/ OpBlocks < MAXOPBLOCKS /\ NLOG = LOGSIZE
  /\ MAXOPBLOCKS <= LOGSIZE

VARIABLES
  disk,         \* contents of the home locations
  logb,         \* contents of the log blocks
  hdr,          \* the header block on disk
  lhn, lhb,     \* log.lh.n, log.lh.block
  outstanding, committing,
  cache,        \* contents of the blocks as bread returns them
  pc,           \* where each operation is
  cur,          \* the block it holds locked between bread and brelse
  left,         \* how many log_writes it may still make
  tail,         \* loop index of write_log and install_trans
  boot,         \* where recovery is; "done" once the system runs
  halt          \* a panic

memVars == <<lhn, lhb, outstanding, committing, cache>>
opVars == <<pc, cur, left>>
diskVars == <<disk, logb, hdr>>
vars == <<diskVars, memVars, opVars, tail, boot, halt>>

Slots == 1 .. LOGSIZE
Location == {"user", "begin_op", "asleep", "op", "log_write", "append",
             "write_log", "write_head", "install_trans", "clear", "end_commit"}

(* An empty file system on which nobody has run yet; any entry of an       *)
(* unused header slot will do.                                             *)
AnyBlock == CHOOSE b \in Blocks : TRUE

Init ==
  /\ disk = [b \in Blocks |-> Zero] /\ logb = [i \in Slots |-> Zero]
  /\ hdr = [n |-> 0, block |-> [i \in Slots |-> AnyBlock]]
  /\ lhn = 0 /\ lhb = [i \in Slots |-> AnyBlock]
  /\ outstanding = 0 /\ committing = FALSE /\ cache = disk
  /\ pc = [t \in Ops |-> "user"] /\ cur = [t \in Ops |-> AnyBlock] /\ left = [t \in Ops |-> 0]
  /\ tail = 1 /\ boot = "read_head" /\ halt = FALSE

-----------------------------------------------------------------------------
Up == boot = "done" /\ ~halt
At(t, l) == Up /\ pc[t] = l
Goto(t, l) == pc' = [pc EXCEPT ![t] = l]

(* wakeup(&log): sleepers go back to the test of begin_op's loop. *)
Awake(p) == [t \in Ops |-> IF p[t] = "asleep" THEN "begin_op" ELSE p[t]]

FsCall(t) ==
  /\ At(t, "user") /\ Goto(t, "begin_op")
  /\ UNCHANGED <<diskVars, memVars, cur, left, tail, boot, halt>>

NoRoom_one == lhn + MAXOPBLOCKS > LOGSIZE
NoRoom == lhn + (outstanding + 1) * MAXOPBLOCKS > LOGSIZE

BeginSleep(t) ==
  /\ At(t, "begin_op") /\ (committing \/ NoRoom)
  /\ Goto(t, "asleep")
  /\ UNCHANGED <<diskVars, memVars, cur, left, tail, boot, halt>>

begin_op(t) ==
  /\ At(t, "begin_op") /\ ~committing /\ ~NoRoom
  /\ outstanding' = outstanding + 1
  /\ left' = [left EXCEPT ![t] = OpBlocks] /\ Goto(t, "op")
  /\ UNCHANGED <<diskVars, lhn, lhb, committing, cache, cur, tail, boot, halt>>

(* bread, and a change to the data of the buffer. *)
Modify(t, b, v) ==
  /\ At(t, "op") /\ left[t] > 0
  /\ \A u \in Ops : pc[u] \in {"log_write", "append"} => cur[u] # b
  /\ cache' = [cache EXCEPT ![b] = v]
  /\ cur' = [cur EXCEPT ![t] = b] /\ left' = [left EXCEPT ![t] = @ - 1]
  /\ Goto(t, "log_write")
  /\ UNCHANGED <<diskVars, lhn, lhb, outstanding, committing, tail, boot, halt>>

(* log_write's tests, which it makes before it takes the lock. *)
LogWriteTest(t) ==
  /\ At(t, "log_write")
  /\ halt' = (lhn >= LOGSIZE \/ lhn >= NLOG - 1 \/ outstanding < 1)
  /\ Goto(t, "append")
  /\ UNCHANGED <<diskVars, memVars, cur, left, tail, boot>>

(* The locked part of log_write, and brelse. *)
Absorbed(b) == \E i \in 1 .. lhn : lhb[i] = b

log_write(t) ==
  /\ At(t, "append")
  /\ IF Absorbed(cur[t])
     THEN UNCHANGED <<lhn, lhb>>
     ELSE lhn' = lhn + 1 /\ lhb' = [lhb EXCEPT ![lhn + 1] = cur[t]]
  /\ Goto(t, "op")
  /\ UNCHANGED <<diskVars, outstanding, committing, cache, cur, left, tail, boot, halt>>

(* end_op up to its first release; commit starts with write_log.  With     *)
(* nothing logged commit does nothing.                                     *)
end_op(t) ==
  /\ At(t, "op")
  /\ outstanding' = outstanding - 1
  /\ halt' = committing
  /\ committing' = (outstanding = 1)
  /\ pc' = IF outstanding > 1
           THEN [Awake(pc) EXCEPT ![t] = "user"]
           ELSE [pc EXCEPT ![t] = IF lhn > 0 THEN "write_log" ELSE "end_commit"]
  /\ tail' = 1
  /\ UNCHANGED <<diskVars, lhn, lhb, cache, cur, left, boot>>

(* commit: one step per block written. *)
write_log(t) ==
  /\ At(t, "write_log")
  /\ logb' = [logb EXCEPT ![tail] = cache[lhb[tail]]]
  /\ tail' = IF tail < lhn THEN tail + 1 ELSE 1
  /\ Goto(t, IF tail < lhn THEN "write_log" ELSE "write_head")
  /\ UNCHANGED <<disk, hdr, memVars, cur, left, boot, halt>>

Header == [n |-> lhn, block |-> [i \in Slots |-> IF i <= lhn THEN lhb[i] ELSE hdr.block[i]]]

write_head_late(t) ==
  /\ At(t, "write_head")
  /\ Goto(t, "install_trans")
  /\ UNCHANGED <<disk, logb, hdr, memVars, cur, left, tail, boot, halt>>
write_head(t) ==
  /\ At(t, "write_head")
  /\ hdr' = Header /\ Goto(t, "install_trans")
  /\ UNCHANGED <<disk, logb, memVars, cur, left, tail, boot, halt>>

(* One round of install_trans, in commit and in recovery. *)
Install ==
  /\ disk' = [disk EXCEPT ![lhb[tail]] = logb[tail]]
  /\ cache' = [cache EXCEPT ![lhb[tail]] = logb[tail]]
  /\ tail' = IF tail < lhn THEN tail + 1 ELSE 1
  /\ UNCHANGED <<logb, hdr, lhn, lhb, outstanding, committing, cur, left, halt>>

install_trans(t) ==
  /\ At(t, "install_trans") /\ Install
  /\ Goto(t, IF tail < lhn THEN "install_trans" ELSE "clear")
  /\ UNCHANGED boot

(* log.lh.n = 0 and the write_head that erases the transaction. *)
EraseLog ==
  /\ lhn' = 0 /\ hdr' = [hdr EXCEPT !.n = 0]
  /\ UNCHANGED <<disk, logb, lhb, outstanding, committing, cache, cur, left, tail, halt>>

Clear(t) == At(t, "clear") /\ EraseLog /\ Goto(t, "end_commit") /\ UNCHANGED boot

EndCommit(t) ==
  /\ At(t, "end_commit")
  /\ committing' = FALSE /\ pc' = [Awake(pc) EXCEPT ![t] = "user"]
  /\ UNCHANGED <<diskVars, lhn, lhb, outstanding, cache, cur, left, tail, boot, halt>>

-----------------------------------------------------------------------------
(* recover_from_log, before the first system call. *)
read_head ==
  /\ boot = "read_head"
  /\ lhn' = hdr.n /\ lhb' = hdr.block
  /\ tail' = 1 /\ boot' = IF hdr.n > 0 THEN "install_trans" ELSE "clear"
  /\ UNCHANGED <<diskVars, outstanding, committing, cache, opVars, halt>>

RecoverInstall ==
  /\ boot = "install_trans" /\ Install
  /\ boot' = IF tail < lhn THEN "install_trans" ELSE "clear"
  /\ UNCHANGED pc

RecoverClear == boot = "clear" /\ EraseLog /\ boot' = "done" /\ UNCHANGED pc

(* Power fails: the disk stays, memory starts afresh. *)
Crash ==
  /\ boot' = "read_head" /\ halt' = FALSE
  /\ lhn' = 0 /\ outstanding' = 0 /\ committing' = FALSE /\ cache' = disk
  /\ pc' = [t \in Ops |-> "user"] /\ cur' = [t \in Ops |-> AnyBlock] /\ left' = [t \in Ops |-> 0]
  /\ tail' = 1 /\ lhb' = [i \in Slots |-> AnyBlock]
  /\ UNCHANGED diskVars

Work(t) ==
  \/ BeginSleep(t) \/ begin_op(t) \/ LogWriteTest(t) \/ log_write(t) \/ end_op(t)
  \/ write_log(t) \/ write_head(t) \/ install_trans(t) \/ Clear(t) \/ EndCommit(t)
Recover == read_head \/ RecoverInstall \/ RecoverClear

Next ==
  \/ \E t \in Ops : FsCall(t) \/ Work(t) \/ \E b \in Blocks, v \in Values : Modify(t, b, v)
  \/ Recover \/ Crash

Spec == Init /\ [][Next]_vars

-----------------------------------------------------------------------------
(* Properties *)

(* What a crash now would leave after recovery. *)
Recovered ==
  [b \in Blocks |-> IF \E i \in 1 .. hdr.n : hdr.block[i] = b
                    THEN logb[CHOOSE i \in 1 .. hdr.n : hdr.block[i] = b]
                    ELSE disk[b]]

TypeOK ==
  /\ disk \in [Blocks -> Values] /\ cache \in [Blocks -> Values] /\ logb \in [Slots -> Values]
  /\ hdr \in [n : 0 .. LOGSIZE, block : [Slots -> Blocks]]
  /\ lhn \in 0 .. LOGSIZE /\ lhb \in [Slots -> Blocks]
  /\ outstanding \in Nat /\ committing \in BOOLEAN
  /\ pc \in [Ops -> Location] /\ cur \in [Ops -> Blocks] /\ left \in [Ops -> 0 .. OpBlocks]
  /\ tail \in 1 .. LOGSIZE + 1 /\ boot \in {"read_head", "install_trans", "clear", "done"}
  /\ halt \in BOOLEAN

Active == {t \in Ops : pc[t] \in {"op", "log_write", "append"}}

(* log.c's promise, "the logging system only commits when there are no FS  *)
(* system calls active": whatever the disk writes and wherever a crash     *)
(* hits, recovery yields the blocks as they were between operations.       *)
Store == INSTANCE AtomicStore WITH
  stable <- Recovered,
  view <- IF boot = "done" THEN cache ELSE Recovered,
  active <- Active
StoreSpec == Store!Spec

(* When the last operation's end_op has returned, everything is durable.   *)
Durable == (Up /\ outstanding = 0 /\ ~committing) => Recovered = cache

(* begin_op's reservation keeps log_write and end_op from panicking.       *)
NoPanic == ~halt

(* Nobody sleeps in begin_op unless an end_op that will wake it up is      *)
(* still to come.                                                          *)
NoLostBegin == \A t \in Ops : pc[t] = "asleep" => (committing \/ outstanding > 0)

(* The log_writes that operations under way have reserved and not made.    *)
Due(t) == IF pc[t] = "op" THEN left[t] ELSE left[t] + 1
Pending == {q \in Active \X (1 .. OpBlocks) : q[2] <= Due(q[1])}

CommitPhase == {"write_log", "write_head", "install_trans", "clear", "end_commit"}
Distinct(n, block) == \A i, j \in 1 .. n : block[i] = block[j] => i = j
InLog(b) == \E i \in 1 .. lhn : lhb[i] = b
SameHeader == hdr.n = lhn /\ \A i \in 1 .. lhn : hdr.block[i] = lhb[i]
Copied(n) == \A i \in 1 .. n : logb[i] = cache[lhb[i]]
Installed(n) == \A i \in 1 .. n : disk[lhb[i]] = logb[i]
Clean(b) == cache[b] = disk[b]

(* What holds while one operation commits, phase by phase. *)
CommitInv(t) ==
  /\ pc[t] \in {"write_log", "write_head", "install_trans"} =>
       (\A b \in Blocks : InLog(b) \/ Clean(b)) /\ tail \in 1 .. lhn
  /\ pc[t] = "write_log" => hdr.n = 0 /\ Copied(tail - 1)
  /\ pc[t] = "write_head" => hdr.n = 0 /\ Copied(lhn) /\ tail = 1
  /\ pc[t] = "install_trans" => SameHeader /\ Copied(lhn) /\ Installed(tail - 1)
  /\ pc[t] = "clear" => SameHeader /\ Copied(lhn) /\ \A b \in Blocks : Clean(b)
  /\ pc[t] = "end_commit" => hdr.n = 0 /\ lhn = 0 /\ \A b \in Blocks : Clean(b)

(* What recovery has done so far. *)
BootInv ==
  /\ boot # "done" => outstanding = 0 /\ ~committing /\ \A t \in Ops : pc[t] = "user"
  /\ boot \in {"install_trans", "clear"} => SameHeader
  /\ boot = "install_trans" => tail \in 1 .. lhn /\ Installed(tail - 1)
  /\ boot = "clear" => Installed(lhn)
  /\ boot # "done" => \A b \in Blocks : Clean(b)

(* The inductive invariant: the reservation, so that log_write and end_op  *)
(* never panic; who may commit, and that every sleeper in begin_op has an  *)
(* end_op to wake it; and how far log, header and home locations agree at  *)
(* each point of commit and of recovery.                                   *)
LogInv ==
  /\ ~halt
  /\ outstanding = Cardinality(Active)
  /\ Active # {} => lhn + Cardinality(Pending) <= (IF NLOG > LOGSIZE THEN LOGSIZE ELSE LOGSIZE - 1)
  /\ \A t \in Ops : pc[t] \in {"log_write", "append"} => left[t] < OpBlocks
  /\ \A t, u \in Ops : (pc[t] \in {"log_write", "append"} /\ pc[u] \in {"log_write", "append"} /\ cur[t] = cur[u]) => t = u
  /\ Distinct(lhn, lhb) /\ Distinct(hdr.n, hdr.block)
  /\ committing <=> \E t \in Ops : pc[t] \in CommitPhase
  /\ \A t, u \in Ops : (pc[t] \in CommitPhase /\ pc[u] \in CommitPhase) => t = u
  /\ committing => Active = {}
  /\ NoLostBegin
  /\ (boot = "done" /\ ~committing) =>
       /\ hdr.n = 0
       /\ \A b \in Blocks : InLog(b) \/ Clean(b) \/ \E t \in Ops : pc[t] \in {"log_write", "append"} /\ cur[t] = b
       /\ Active = {} => lhn = 0
  /\ \A t \in Ops : CommitInv(t)
  /\ BootInv
=============================================================================
