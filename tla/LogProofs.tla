----------------------------- MODULE LogProofs ------------------------------
(***************************************************************************)
(* The log for any number of threads, blocks and values and any sizes: how *)
(* the operations count in the reservation of begin_op, then one lemma per *)
(* action, give LogInv: log_write and end_op never panic, and nobody       *)
(* sleeps for ever in begin_op for want of a waker.  What has been ended   *)
(* is durable, and the log implements AtomicStore across crashes.          *)
(***************************************************************************)
EXTENDS Log, FiniteSetTheorems, TLAPS

(* Zenon proves most of these steps; where it takes arithmetic, strings or *)
(* many functions at once, the step asks for SMT.                          *)
USE ZenonT(30)

Holding == {"log_write", "append"}
Busy == {"op", "log_write", "append"}
Room == IF NLOG > LOGSIZE THEN LOGSIZE ELSE LOGSIZE - 1

(* LogInv in three parts: the reservation, the places of the operations,   *)
(* the contents.                                                           *)
CountInv ==
  /\ outstanding = Cardinality(Active)
  /\ Active # {} => lhn + Cardinality(Pending) <= Room
  /\ \A t \in Ops : pc[t] \in Holding => left[t] < OpBlocks

PlaceInv ==
  /\ \A t, u \in Ops : (pc[t] \in Holding /\ pc[u] \in Holding /\ cur[t] = cur[u]) => t = u
  /\ committing <=> \E t \in Ops : pc[t] \in CommitPhase
  /\ \A t, u \in Ops : (pc[t] \in CommitPhase /\ pc[u] \in CommitPhase) => t = u
  /\ committing => \A t \in Ops : pc[t] \notin Busy
  /\ boot # "done" => ~committing /\ \A t \in Ops : pc[t] = "user"

Idle ==
  /\ hdr.n = 0
  /\ \A b \in Blocks : InLog(b) \/ Clean(b) \/ \E t \in Ops : pc[t] \in Holding /\ cur[t] = b
  /\ (\A t \in Ops : pc[t] \notin Busy) => lhn = 0

Booting ==
  /\ boot \in {"install_trans", "clear"} => SameHeader
  /\ boot = "install_trans" => tail \in 1 .. lhn /\ Installed(tail - 1)
  /\ boot = "clear" => Installed(lhn)
  /\ boot # "done" => \A b \in Blocks : Clean(b)

DataInv ==
  /\ Distinct(lhn, lhb) /\ Distinct(hdr.n, hdr.block)
  /\ (boot = "done" /\ ~committing) => Idle
  /\ \A t \in Ops : CommitInv(t)
  /\ Booting

(* The parts make up LogInv. *)
LEMMA Parts ==
  ASSUME TypeOK
  PROVE  LogInv <=> (~halt /\ NoLostBegin /\ CountInv /\ PlaceInv /\ DataInv)
<1>1. Active = {} <=> \A t \in Ops : pc[t] \notin Busy
  BY DEF Active, Busy
<1>2. (boot # "done" /\ \A t \in Ops : pc[t] = "user") => Active = {}
  BY DEF Active
<1>3. Cardinality({}) = 0
  BY FS_EmptySet
<1>. QED
  BY <1>1, <1>2, <1>3 DEF LogInv, CountInv, PlaceInv, DataInv, Idle, Booting, BootInv, Holding, Busy, Room

-----------------------------------------------------------------------------
(* Counting the operations under way and the log_writes they have left. *)

ActiveOf(p) == {t \in Ops : p[t] \in Busy}
DueOf(p, l, t) == IF p[t] = "op" THEN l[t] ELSE l[t] + 1
PendingOf(p, l) == {q \in ActiveOf(p) \X (1 .. OpBlocks) : q[2] <= DueOf(p, l, q[1])}

LEMMA Sets ==
  /\ Active = ActiveOf(pc) /\ Active' = ActiveOf(pc')
  /\ Pending = PendingOf(pc, left) /\ Pending' = PendingOf(pc', left')
BY DEF Active, Pending, ActiveOf, PendingOf, DueOf, Due, Busy

(* Both sets are finite, and no operation has more than OpBlocks left. *)
LEMMA FiniteCounts ==
  ASSUME NEW p, NEW l
  PROVE  /\ IsFiniteSet(ActiveOf(p)) /\ Cardinality(ActiveOf(p)) \in Nat
         /\ IsFiniteSet(PendingOf(p, l)) /\ Cardinality(PendingOf(p, l)) \in Nat
         /\ Cardinality(PendingOf(p, l)) <= Cardinality(ActiveOf(p)) * OpBlocks
<1>1. IsFiniteSet(ActiveOf(p))
  <2>1. ActiveOf(p) \in SUBSET Ops
    BY DEF ActiveOf
  <2>. QED
    BY <2>1, FS_Subset, LogAssumption
<1>2. IsFiniteSet(1 .. OpBlocks) /\ Cardinality(1 .. OpBlocks) = OpBlocks
  BY SMTT(30), FS_Interval, LogAssumption
<1>3. /\ IsFiniteSet(ActiveOf(p) \X (1 .. OpBlocks))
      /\ Cardinality(ActiveOf(p) \X (1 .. OpBlocks)) = Cardinality(ActiveOf(p)) * OpBlocks
  BY <1>1, <1>2, FS_Product
<1>4. PendingOf(p, l) \in SUBSET (ActiveOf(p) \X (1 .. OpBlocks))
  BY DEF PendingOf
<1>5. IsFiniteSet(PendingOf(p, l)) /\ Cardinality(PendingOf(p, l)) <= Cardinality(ActiveOf(p)) * OpBlocks
  <2>1. /\ IsFiniteSet(PendingOf(p, l))
        /\ Cardinality(PendingOf(p, l)) <= Cardinality(ActiveOf(p) \X (1 .. OpBlocks))
    BY <1>3, <1>4, FS_Subset
  <2>. QED
    BY <1>3, <2>1
<1>. QED
  BY <1>1, <1>5, FS_CardinalityType

(* A step that neither begins nor ends an operation, nor logs a block,     *)
(* keeps the reservation.                                                  *)
LEMMA QuietCount ==
  ASSUME CountInv, outstanding' = outstanding, Active = {} \/ lhn' = lhn,
         \A t \in Ops : pc'[t] \in Busy <=> pc[t] \in Busy,
         \A t \in Ops : pc[t] \in Busy => DueOf(pc', left', t) = DueOf(pc, left, t),
         \A t \in Ops : pc'[t] \in Holding => left'[t] < OpBlocks
  PROVE  CountInv'
<1>1. ActiveOf(pc') = ActiveOf(pc)
  BY DEF ActiveOf
<1>2. PendingOf(pc', left') = PendingOf(pc, left)
  <2>1. \A t \in ActiveOf(pc) : DueOf(pc', left', t) = DueOf(pc, left, t)
    BY DEF ActiveOf
  <2>. QED
    BY <1>1, <2>1 DEF PendingOf
<1>. QED
  BY <1>1, <1>2, Sets DEF CountInv

(* So does a step after which no operation is under way. *)
LEMMA NoneCount ==
  ASSUME outstanding' = 0, \A t \in Ops : pc'[t] \notin Busy
  PROVE  CountInv'
<1>1. Active' = {}
  BY Sets DEF ActiveOf
<1>2. \A t \in Ops : pc'[t] \notin Holding
  BY DEF Busy, Holding
<1>. QED
  BY <1>1, <1>2, FS_EmptySet DEF CountInv

(* Nobody is under way exactly when outstanding is 0. *)
LEMMA NoneActive ==
  ASSUME CountInv
  PROVE  outstanding = 0 <=> \A t \in Ops : pc[t] \notin Busy
<1>1. IsFiniteSet(ActiveOf(pc)) /\ outstanding = Cardinality(ActiveOf(pc))
  BY FiniteCounts, Sets DEF CountInv
<1>. QED
  BY <1>1, FS_EmptySet DEF ActiveOf

(* begin_op admits an operation only if everybody's log_writes fit. *)
LEMMA BeginCount ==
  ASSUME TypeOK, CountInv, NEW t \in Ops, begin_op(t)
  PROVE  CountInv'
<1>1. /\ pc[t] = "begin_op" /\ pc' = [pc EXCEPT ![t] = "op"] /\ outstanding' = outstanding + 1
      /\ left' = [left EXCEPT ![t] = OpBlocks] /\ lhn' = lhn
      /\ lhn + (outstanding + 1) * MAXOPBLOCKS <= LOGSIZE
  BY SMTT(30), LogAssumption DEF begin_op, At, Goto, NoRoom, TypeOK
<1>2. ActiveOf(pc') = ActiveOf(pc) \cup {t} /\ t \notin ActiveOf(pc)
  BY <1>1 DEF ActiveOf, Busy, TypeOK
<1>3. Cardinality(ActiveOf(pc')) = outstanding + 1
  BY <1>2, FiniteCounts, FS_AddElement, Sets DEF CountInv
<1>4. lhn + Cardinality(PendingOf(pc', left')) <= Room
  <2>1. Cardinality(PendingOf(pc', left')) <= (outstanding + 1) * OpBlocks
    BY <1>3, FiniteCounts
  <2>. DEFINE k == outstanding + 1
  <2>2. k \in Nat /\ k >= 1 /\ lhn \in Nat /\ Cardinality(PendingOf(pc', left')) \in Nat
    BY SMTT(30), FiniteCounts DEF TypeOK
  <2>3. CASE OpBlocks <= MAXOPBLOCKS /\ NLOG > LOGSIZE
    <3>1. k * OpBlocks <= k * MAXOPBLOCKS
      BY SMTT(30), <2>2, <2>3, LogAssumption
    <3>. QED
      BY SMTT(30), <3>1, <2>1, <2>2, <2>3, <1>1, LogAssumption DEF Room
  <2>4. CASE OpBlocks < MAXOPBLOCKS /\ NLOG = LOGSIZE
    <3>1. k * OpBlocks + k <= k * MAXOPBLOCKS
      <4>1. OpBlocks + 1 <= MAXOPBLOCKS
        BY SMTT(30), <2>4, LogAssumption
      <4>2. k * (OpBlocks + 1) <= k * MAXOPBLOCKS
        BY SMTT(30), <4>1, <2>2, LogAssumption
      <4>3. k * (OpBlocks + 1) = k * OpBlocks + k
        BY SMTT(30), <2>2, LogAssumption
      <4>. QED
        BY <4>2, <4>3
    <3>. HIDE DEF k
    <3>2. k * OpBlocks \in Nat /\ k * MAXOPBLOCKS \in Nat
      BY SMTT(30), <2>2, LogAssumption
    <3>3. lhn + k * MAXOPBLOCKS <= LOGSIZE /\ Cardinality(PendingOf(pc', left')) <= k * OpBlocks
      BY <1>1, <2>1 DEF k
    <3>. QED
      BY SMTT(30), <3>1, <3>2, <3>3, <2>2, <2>4, LogAssumption DEF Room
  <2>. QED
    BY <2>3, <2>4, RoomAssumption
<1>5. \A u \in Ops : pc'[u] \in Holding => left'[u] < OpBlocks
  BY <1>1 DEF Holding, TypeOK, CountInv
<1>. QED
  BY <1>1, <1>3, <1>4, <1>5, Sets DEF CountInv

(* An operation about to log a block finds room for it: none of            *)
(* log_write's tests can panic.                                            *)
LEMMA RoomForOne ==
  ASSUME TypeOK, CountInv, NEW t \in Ops, pc[t] \in Holding
  PROVE  lhn + 1 <= LOGSIZE /\ lhn < NLOG - 1 /\ outstanding >= 1
<1>1. t \in ActiveOf(pc) /\ Active # {}
  BY Sets DEF ActiveOf, Busy, Holding
<1>2. <<t, 1>> \in PendingOf(pc, left)
  <2>1. left[t] \in Nat /\ left[t] < OpBlocks /\ DueOf(pc, left, t) = left[t] + 1
    BY SMTT(30), LogAssumption DEF CountInv, TypeOK, DueOf, Holding
  <2>. QED
    BY SMTT(30), <2>1, <1>1, LogAssumption DEF PendingOf
<1>3. Cardinality(PendingOf(pc, left)) >= 1
  <2>1. PendingOf(pc, left) # {}
    BY <1>2
  <2>2. Cardinality(PendingOf(pc, left)) # 0
    BY <2>1, FiniteCounts, FS_EmptySet
  <2>. QED
    BY SMTT(30), <2>2, FiniteCounts
<1>4. outstanding # 0
  BY <1>1, FiniteCounts, FS_EmptySet, Sets DEF CountInv
<1>5. lhn + Cardinality(PendingOf(pc, left)) <= Room
  BY <1>1, Sets DEF CountInv
<1>6. lhn \in Nat /\ outstanding \in Nat /\ Cardinality(PendingOf(pc, left)) \in Nat
  BY SMTT(30), FiniteCounts, LogAssumption DEF TypeOK
<1>. QED
  BY SMTT(30), <1>3, <1>4, <1>5, <1>6, LogAssumption, RoomAssumption DEF Room

(* log_write trades one pending log_write for at most one log block. *)
LEMMA LogCount ==
  ASSUME TypeOK, CountInv, NEW t \in Ops, log_write(t)
  PROVE  CountInv'
<1>1. /\ pc[t] = "append" /\ pc' = [pc EXCEPT ![t] = "op"] /\ outstanding' = outstanding
      /\ left' = left /\ lhn' \in {lhn, lhn + 1}
  BY DEF log_write, At, Goto
<1>2. ActiveOf(pc') = ActiveOf(pc) /\ t \in ActiveOf(pc)
  BY <1>1 DEF ActiveOf, Busy, TypeOK
<1>. DEFINE last == <<t, left[t] + 1>>
<1>3. left[t] \in Nat /\ left[t] < OpBlocks
  BY SMTT(30), <1>1, LogAssumption DEF CountInv, Holding, TypeOK
<1>4. last \in PendingOf(pc, left)
  BY SMTT(30), <1>1, <1>2, <1>3, LogAssumption DEF PendingOf, DueOf
<1>5. PendingOf(pc', left') = PendingOf(pc, left) \ {last}
  <2>1. \A u \in Ops : u # t => DueOf(pc', left', u) = DueOf(pc, left, u)
    BY <1>1 DEF DueOf, TypeOK
  <2>2. DueOf(pc', left', t) = left[t] /\ DueOf(pc, left, t) = left[t] + 1
    BY <1>1 DEF DueOf, TypeOK
  <2>3. \A q \in ActiveOf(pc) \X (1 .. OpBlocks) :
          q[2] <= DueOf(pc', left', q[1]) <=> (q[2] <= DueOf(pc, left, q[1]) /\ q # last)
    <3>. TAKE q \in ActiveOf(pc) \X (1 .. OpBlocks)
    <3>1. q = <<q[1], q[2]>> /\ q[1] \in Ops /\ q[2] \in Nat
      BY SMTT(30), LogAssumption DEF ActiveOf
    <3>2. CASE q[1] = t
      BY SMTT(30), <3>1, <3>2, <2>2, <1>3
    <3>3. CASE q[1] # t
      BY SMTT(30), <3>1, <3>3, <2>1
    <3>. QED
      BY <3>2, <3>3
  <2>. HIDE DEF last
  <2>. QED
    BY <1>2, <2>3 DEF PendingOf
<1>. HIDE DEF last
<1>6. Cardinality(PendingOf(pc', left')) = Cardinality(PendingOf(pc, left)) - 1
  BY <1>4, <1>5, FiniteCounts, FS_RemoveElement
<1>7. lhn' + Cardinality(PendingOf(pc', left')) <= Room
  <2>1. lhn + Cardinality(PendingOf(pc, left)) <= Room
    BY <1>2, Sets DEF CountInv
  <2>2. lhn \in Nat /\ Cardinality(PendingOf(pc, left)) \in Nat /\ Room \in Int
    BY SMTT(30), FiniteCounts, LogAssumption DEF TypeOK, Room
  <2>. QED
    BY SMTT(30), <1>1, <1>6, <2>1, <2>2
<1>8. \A u \in Ops : pc'[u] \in Holding => left'[u] < OpBlocks
  BY <1>1 DEF Holding, TypeOK, CountInv
<1>. QED
  BY <1>1, <1>2, <1>7, <1>8, Sets DEF CountInv

(* end_op gives up what is left of the reservation. *)
LEMMA EndCount ==
  ASSUME TypeOK, CountInv, NEW t \in Ops, end_op(t)
  PROVE  /\ CountInv' /\ outstanding >= 1
         /\ outstanding = 1 <=> \A u \in Ops : pc'[u] \notin Busy
<1>1. /\ pc[t] = "op" /\ outstanding' = outstanding - 1 /\ left' = left /\ lhn' = lhn
      /\ pc'[t] \notin Busy
      /\ \A u \in Ops : u # t => (pc'[u] \in Busy <=> pc[u] \in Busy)
      /\ \A u \in Ops : pc'[u] \in Busy => pc'[u] = pc[u]
  BY DEF end_op, At, Awake, Busy, TypeOK
<1>2. ActiveOf(pc') = ActiveOf(pc) \ {t} /\ t \in ActiveOf(pc)
  BY <1>1 DEF ActiveOf, Busy
<1>3. outstanding = Cardinality(ActiveOf(pc)) /\ outstanding \in Nat
  BY Sets DEF CountInv, TypeOK
<1>4. Cardinality(ActiveOf(pc')) = outstanding - 1
  BY <1>2, <1>3, FiniteCounts, FS_RemoveElement
<1>5. outstanding >= 1
  <2>1. Cardinality(ActiveOf(pc')) \in Nat
    BY FiniteCounts
  <2>. QED
    BY SMTT(30), <1>3, <1>4, <2>1
<1>6. PendingOf(pc', left') \in SUBSET PendingOf(pc, left)
  <2>1. \A u \in ActiveOf(pc') : u \in ActiveOf(pc) /\ DueOf(pc', left', u) = DueOf(pc, left, u)
    BY <1>1 DEF ActiveOf, DueOf
  <2>. QED
    BY <2>1 DEF PendingOf
<1>7. lhn' + Cardinality(PendingOf(pc', left')) <= Room
  <2>1. lhn + Cardinality(PendingOf(pc, left)) <= Room
    BY <1>2, Sets DEF CountInv
  <2>2. Cardinality(PendingOf(pc', left')) <= Cardinality(PendingOf(pc, left))
    BY <1>6, FiniteCounts, FS_Subset
  <2>3. /\ lhn \in Nat /\ Room \in Int
        /\ Cardinality(PendingOf(pc, left)) \in Nat /\ Cardinality(PendingOf(pc', left')) \in Nat
    BY SMTT(30), FiniteCounts, LogAssumption DEF TypeOK, Room
  <2>. QED
    BY SMTT(30), <1>1, <2>1, <2>2, <2>3
<1>8. \A u \in Ops : pc'[u] \in Holding => left'[u] < OpBlocks
  BY <1>1 DEF Holding, Busy, CountInv
<1>9. outstanding = 1 <=> \A u \in Ops : pc'[u] \notin Busy
  <2>1. outstanding = 1 <=> ActiveOf(pc') = {}
    BY SMTT(30), <1>3, <1>4, FiniteCounts, FS_EmptySet
  <2>. QED
    BY <2>1 DEF ActiveOf
<1>. QED
  BY <1>1, <1>4, <1>5, <1>7, <1>8, <1>9, Sets DEF CountInv

-----------------------------------------------------------------------------

(* One lemma per action: it keeps the invariant. *)

Inv == TypeOK /\ ~halt /\ NoLostBegin /\ CountInv /\ PlaceInv /\ DataInv

(* Steps that change nothing but places, and no place of a commit. *)
LEMMA QuietData ==
  ASSUME DataInv,
         UNCHANGED <<disk, logb, hdr, lhn, lhb, cache, tail, boot, committing, cur>>,
         \A u \in Ops : pc'[u] \in CommitPhase => pc'[u] = pc[u],
         \A u \in Ops : pc[u] \in Holding => pc'[u] \in Holding,
         \A u \in Ops : pc[u] \in Busy => pc'[u] \in Busy
  PROVE  DataInv'
<1>1. (Distinct(lhn, lhb) /\ Distinct(hdr.n, hdr.block))'
  BY DEF DataInv, Distinct
<1>2. ((boot = "done" /\ ~committing) => Idle)'
  BY DEF DataInv, Idle, InLog, Clean
<1>3. (\A t \in Ops : CommitInv(t))'
  <2>. SUFFICES ASSUME NEW t \in Ops PROVE CommitInv(t)'
    OBVIOUS
  <2>1. CASE pc'[t] \in CommitPhase
    <3>1. pc'[t] = pc[t] /\ CommitInv(t)
      BY <2>1 DEF DataInv
    <3>. QED
      BY <3>1 DEF CommitInv, InLog, Clean, SameHeader, Copied, Installed
  <2>2. CASE pc'[t] \notin CommitPhase
    BY <2>2 DEF CommitInv, CommitPhase
  <2>. QED
    BY <2>1, <2>2
<1>4. Booting'
  BY DEF DataInv, Booting, SameHeader, Installed, Clean
<1>. QED
  BY <1>1, <1>2, <1>3, <1>4 DEF DataInv

LEMMA FsCallKeeps ==
  ASSUME Inv, NEW t \in Ops, FsCall(t)
  PROVE  Inv'
<1>. USE DEF Inv
<1>1. /\ pc[t] = "user" /\ pc' = [pc EXCEPT ![t] = "begin_op"] /\ boot = "done"
      /\ UNCHANGED <<disk, logb, hdr, lhn, lhb, outstanding, committing, cache, cur, left, tail, boot, halt>>
  BY DEF FsCall, At, Up, Goto, diskVars, memVars
<1>2. TypeOK' /\ ~halt'
  BY <1>1 DEF TypeOK, Location
<1>3. NoLostBegin'
  BY <1>1 DEF NoLostBegin, TypeOK
<1>4. CountInv'
  <2>1. \A u \in Ops : pc'[u] # pc[u] => pc[u] \notin Busy /\ pc'[u] \notin Busy
    BY <1>1 DEF Busy, TypeOK
  <2>. QED
    BY <1>1, <2>1, QuietCount DEF DueOf, CountInv, Holding, Busy
<1>5. PlaceInv'
  BY SMTT(30), <1>1 DEF PlaceInv, TypeOK, Holding, Busy, CommitPhase
<1>6. DataInv'
  BY <1>1, QuietData DEF TypeOK, Holding, Busy, CommitPhase
<1>. QED
  BY <1>2, <1>3, <1>4, <1>5, <1>6

LEMMA BeginSleepKeeps ==
  ASSUME Inv, NEW t \in Ops, BeginSleep(t)
  PROVE  Inv'
<1>. USE DEF Inv
<1>1. /\ pc[t] = "begin_op" /\ pc' = [pc EXCEPT ![t] = "asleep"] /\ boot = "done"
      /\ committing \/ NoRoom
      /\ UNCHANGED <<disk, logb, hdr, lhn, lhb, outstanding, committing, cache, cur, left, tail, boot, halt>>
  BY DEF BeginSleep, At, Up, Goto, diskVars, memVars
<1>2. TypeOK' /\ ~halt'
  BY <1>1 DEF TypeOK, Location
<1>3. NoLostBegin'
  <2>1. committing \/ outstanding > 0
    <3>1. SUFFICES ASSUME ~committing, outstanding = 0 PROVE FALSE
      BY SMTT(30) DEF TypeOK
    <3>2. lhn = 0
      BY <1>1, <3>1, NoneActive DEF DataInv, Idle
    <3>. QED
      BY SMTT(30), <1>1, <3>1, <3>2, LogAssumption, RoomAssumption DEF NoRoom
  <2>. QED
    BY <1>1, <2>1 DEF NoLostBegin, TypeOK
<1>4. CountInv'
  <2>1. \A u \in Ops : pc'[u] # pc[u] => pc[u] \notin Busy /\ pc'[u] \notin Busy
    BY <1>1 DEF Busy, TypeOK
  <2>. QED
    BY <1>1, <2>1, QuietCount DEF DueOf, CountInv, Holding, Busy
<1>5. PlaceInv'
  BY <1>1 DEF PlaceInv, TypeOK, Holding, Busy, CommitPhase
<1>6. DataInv'
  BY <1>1, QuietData DEF TypeOK, Holding, Busy, CommitPhase
<1>. QED
  BY <1>2, <1>3, <1>4, <1>5, <1>6

LEMMA BeginKeeps ==
  ASSUME Inv, NEW t \in Ops, begin_op(t)
  PROVE  Inv'
<1>. USE DEF Inv
<1>1. /\ pc[t] = "begin_op" /\ pc' = [pc EXCEPT ![t] = "op"] /\ boot = "done" /\ ~committing
      /\ outstanding' = outstanding + 1 /\ left' = [left EXCEPT ![t] = OpBlocks]
      /\ UNCHANGED <<disk, logb, hdr, lhn, lhb, committing, cache, cur, tail, boot, halt>>
  BY DEF begin_op, At, Up, Goto, diskVars
<1>2. TypeOK' /\ ~halt'
  BY SMTT(30), <1>1, LogAssumption DEF TypeOK, Location
<1>3. NoLostBegin'
  BY SMTT(30), <1>1 DEF NoLostBegin, TypeOK
<1>4. CountInv'
  BY BeginCount
<1>5. PlaceInv'
  BY <1>1 DEF PlaceInv, TypeOK, Holding, Busy, CommitPhase
<1>6. DataInv'
  BY <1>1, QuietData DEF TypeOK, Holding, Busy, CommitPhase
<1>. QED
  BY <1>2, <1>3, <1>4, <1>5, <1>6

LEMMA ModifyKeeps ==
  ASSUME Inv, NEW t \in Ops, NEW b \in Blocks, NEW v \in Values, Modify(t, b, v)
  PROVE  Inv'
<1>. USE DEF Inv
<1>1. /\ pc[t] = "op" /\ pc' = [pc EXCEPT ![t] = "log_write"] /\ boot = "done" /\ left[t] > 0
      /\ \A u \in Ops : pc[u] \in Holding => cur[u] # b
      /\ cache' = [cache EXCEPT ![b] = v] /\ cur' = [cur EXCEPT ![t] = b]
      /\ left' = [left EXCEPT ![t] = left[t] - 1]
      /\ UNCHANGED <<disk, logb, hdr, lhn, lhb, outstanding, committing, tail, boot, halt>>
  BY DEF Modify, At, Up, Goto, diskVars, Holding
<1>2. TypeOK' /\ ~halt'
  BY SMTT(30), <1>1, LogAssumption DEF TypeOK, Location
<1>3. NoLostBegin'
  BY <1>1 DEF NoLostBegin, TypeOK
<1>4. CountInv'
  <2>1. \A u \in Ops : pc'[u] \in Busy <=> pc[u] \in Busy
    BY <1>1 DEF TypeOK, Busy
  <2>2. \A u \in Ops : DueOf(pc', left', u) = DueOf(pc, left, u)
    BY SMTT(30), <1>1, LogAssumption DEF TypeOK, DueOf
  <2>3. \A u \in Ops : pc'[u] \in Holding => left'[u] < OpBlocks
    BY SMTT(30), <1>1, LogAssumption DEF TypeOK, Holding, CountInv
  <2>. QED
    BY <1>1, <2>1, <2>2, <2>3, QuietCount
<1>5. PlaceInv'
  BY <1>1 DEF PlaceInv, TypeOK, Holding, Busy, CommitPhase
<1>6. DataInv'
  <2>1. ~committing /\ \A u \in Ops : pc'[u] \notin CommitPhase
    BY <1>1 DEF PlaceInv, TypeOK, Busy, CommitPhase
  <2>2. Idle'
    <3>1. Idle
      BY <1>1, <2>1 DEF DataInv
    <3>2. \A c \in Blocks : (InLog(c) \/ Clean(c) \/ \E u \in Ops : pc[u] \in Holding /\ cur[u] = c)'
      BY SMTT(30), <1>1, <3>1 DEF Idle, InLog, Clean, TypeOK, Holding
    <3>. QED
      BY SMTT(30), <1>1, <3>1, <3>2 DEF Idle, TypeOK, Busy
  <2>3. (\A u \in Ops : CommitInv(u))'
    BY <2>1 DEF CommitInv, CommitPhase
  <2>. QED
    BY <1>1, <2>2, <2>3 DEF DataInv, Booting, Distinct
<1>. QED
  BY <1>2, <1>3, <1>4, <1>5, <1>6

LEMMA LogWriteTestKeeps ==
  ASSUME Inv, NEW t \in Ops, LogWriteTest(t)
  PROVE  Inv'
<1>. USE DEF Inv
<1>1. /\ pc[t] = "log_write" /\ pc' = [pc EXCEPT ![t] = "append"] /\ boot = "done"
      /\ halt' = (lhn >= LOGSIZE \/ lhn >= NLOG - 1 \/ outstanding < 1)
      /\ UNCHANGED <<disk, logb, hdr, lhn, lhb, outstanding, committing, cache, cur, left, tail, boot>>
  BY DEF LogWriteTest, At, Up, Goto, diskVars, memVars
<1>2. halt' = FALSE
  <2>1. lhn + 1 <= LOGSIZE /\ lhn < NLOG - 1 /\ outstanding >= 1
    BY <1>1, RoomForOne DEF Holding
  <2>. QED
    BY SMTT(30), <1>1, <2>1, LogAssumption DEF TypeOK
<1>3. TypeOK'
  BY <1>1, <1>2 DEF TypeOK, Location
<1>4. NoLostBegin'
  BY <1>1 DEF NoLostBegin, TypeOK
<1>5. CountInv'
  BY <1>1, QuietCount DEF TypeOK, DueOf, CountInv, Holding, Busy
<1>6. PlaceInv'
  BY SMTT(30), <1>1 DEF PlaceInv, TypeOK, Holding, Busy, CommitPhase
<1>7. DataInv'
  BY <1>1, QuietData DEF TypeOK, Holding, Busy, CommitPhase
<1>. QED
  BY <1>2, <1>3, <1>4, <1>5, <1>6, <1>7

LEMMA LogWriteKeeps ==
  ASSUME Inv, NEW t \in Ops, log_write(t)
  PROVE  Inv'
<1>. USE DEF Inv
<1>1. /\ pc[t] = "append" /\ pc' = [pc EXCEPT ![t] = "op"] /\ boot = "done"
      /\ UNCHANGED <<disk, logb, hdr, outstanding, committing, cache, cur, left, tail, boot, halt>>
  BY DEF log_write, At, Up, Goto, diskVars
<1>2. \/ Absorbed(cur[t]) /\ lhn' = lhn /\ lhb' = lhb
      \/ ~Absorbed(cur[t]) /\ lhn' = lhn + 1 /\ lhb' = [lhb EXCEPT ![lhn + 1] = cur[t]]
  BY DEF log_write
<1>3. lhn + 1 <= LOGSIZE /\ lhn + 1 \in Slots /\ lhn \in Nat
  BY SMTT(30), <1>1, RoomForOne, LogAssumption DEF Holding, TypeOK, Slots
<1>4. TypeOK'
  BY SMTT(30), <1>1, <1>2, <1>3, LogAssumption DEF TypeOK, Location
<1>5. NoLostBegin'
  BY <1>1 DEF NoLostBegin, TypeOK
<1>6. CountInv'
  BY LogCount
<1>7. PlaceInv'
  BY <1>1 DEF PlaceInv, TypeOK, Holding, Busy, CommitPhase
<1>8. DataInv'
  <2>1. ~committing /\ \A u \in Ops : pc'[u] \notin CommitPhase
    BY <1>1 DEF PlaceInv, TypeOK, Busy, CommitPhase
  <2>2. \A i \in 1 .. lhn : i \in 1 .. lhn' /\ i \in Slots /\ lhb'[i] = lhb[i]
    BY SMTT(30), <1>2, <1>3, LogAssumption DEF TypeOK, Slots
  <2>3. \E i \in 1 .. lhn' : lhb'[i] = cur[t]
    BY SMTT(30), <1>2, <1>3 DEF Absorbed, TypeOK
  <2>4. Distinct(lhn', lhb')
    <3>1. Distinct(lhn, lhb)
      BY DEF DataInv
    <3>2. CASE Absorbed(cur[t])
      BY <1>2, <3>1, <3>2
    <3>3. CASE ~Absorbed(cur[t])
      <4>1. /\ lhn' = lhn + 1 /\ lhb'[lhn + 1] = cur[t]
            /\ \A i \in 1 .. lhn : lhb[i] # cur[t]
        BY <1>2, <1>3, <3>3 DEF Absorbed, TypeOK
      <4>. QED
        BY SMTT(30), <1>3, <2>2, <3>1, <4>1 DEF Distinct
    <3>. QED
      BY <3>2, <3>3
  <2>5. Idle'
    <3>1. Idle
      BY <1>1, <2>1 DEF DataInv
    <3>2. \A c \in Blocks : (InLog(c) \/ Clean(c) \/ \E u \in Ops : pc[u] \in Holding /\ cur[u] = c)'
      BY SMTT(30), <1>1, <2>2, <2>3, <3>1 DEF Idle, InLog, Clean, TypeOK, Holding
    <3>. QED
      BY SMTT(30), <1>1, <3>1, <3>2 DEF Idle, TypeOK, Busy
  <2>6. (\A u \in Ops : CommitInv(u))'
    BY <2>1 DEF CommitInv, CommitPhase
  <2>. QED
    BY <1>1, <2>4, <2>5, <2>6 DEF DataInv, Booting, Distinct
<1>. QED
  BY <1>1, <1>4, <1>5, <1>6, <1>7, <1>8

(* The commit begins with a log that holds every block the disk lacks. *)
LEMMA EndKeeps ==
  ASSUME Inv, NEW t \in Ops, end_op(t)
  PROVE  Inv'
<1>. USE DEF Inv
<1>1. /\ pc[t] = "op" /\ boot = "done" /\ outstanding' = outstanding - 1 /\ halt' = committing
      /\ committing' = (outstanding = 1) /\ tail' = 1
      /\ UNCHANGED <<disk, logb, hdr, lhn, lhb, cache, cur, left, boot>>
  BY DEF end_op, At, Up, diskVars
<1>2. /\ CountInv' /\ outstanding >= 1
      /\ outstanding = 1 <=> \A u \in Ops : pc'[u] \notin Busy
  BY EndCount
<1>3. committing = FALSE /\ Idle
  BY <1>1 DEF PlaceInv, Busy, DataInv, TypeOK
<1>4. \A u \in Ops : pc[u] \notin CommitPhase
  BY <1>3 DEF PlaceInv
<1>5. CASE outstanding > 1
  <2>1. /\ pc'[t] = "user" /\ pc' \in [Ops -> Location] /\ committing' = FALSE
        /\ \A u \in Ops \ {t} : pc'[u] = IF pc[u] = "asleep" THEN "begin_op" ELSE pc[u]
    BY SMTT(30), <1>1, <1>5 DEF end_op, Awake, TypeOK, Location
  <2>2. \A u \in Ops : pc'[u] \notin CommitPhase
    BY <1>4, <2>1 DEF CommitPhase
  <2>3. TypeOK' /\ ~halt' /\ NoLostBegin'
    BY SMTT(30), <1>1, <1>3, <1>5, <2>1, LogAssumption DEF TypeOK, NoLostBegin
  <2>4. PlaceInv'
    BY <1>1, <1>3, <2>1, <2>2 DEF PlaceInv, Holding
  <2>5. Idle'
    BY SMTT(30), <1>1, <1>2, <1>3, <1>5, <2>1 DEF Idle, InLog, Clean, Holding
  <2>6. (\A u \in Ops : CommitInv(u))'
    BY <2>2 DEF CommitInv, CommitPhase
  <2>. QED
    BY <1>1, <1>2, <2>3, <2>4, <2>5, <2>6 DEF DataInv, Booting, Distinct
<1>6. CASE outstanding = 1
  <2>1. /\ pc' = [pc EXCEPT ![t] = IF lhn > 0 THEN "write_log" ELSE "end_commit"]
        /\ committing' = TRUE
    <3>1. committing' = TRUE
      BY <1>1, <1>6
    <3>2. ~(outstanding > 1)
      BY SMTT(30), <1>6
    <3>. QED
      BY <3>1, <3>2 DEF end_op
  <2>2. TypeOK' /\ ~halt' /\ NoLostBegin'
    BY SMTT(30), <1>1, <1>3, <1>6, <2>1, LogAssumption DEF TypeOK, NoLostBegin, Location
  <2>3. PlaceInv'
    BY SMTT(30), <1>1, <1>2, <1>4, <1>6, <2>1 DEF PlaceInv, Holding, Busy, CommitPhase, TypeOK
  <2>4. \A b \in Blocks : InLog(b) \/ Clean(b)
    BY <1>2, <1>3, <1>6, <2>1, <1>1 DEF Idle, Holding, Busy, TypeOK
  <2>5. CommitInv(t)'
    BY SMTT(30), <1>1, <1>3, <2>1, <2>4, LogAssumption DEF CommitInv, Idle, InLog, Clean, Copied, TypeOK
  <2>6. (\A u \in Ops : CommitInv(u))'
    BY <1>4, <2>1, <2>5 DEF CommitInv, CommitPhase, TypeOK
  <2>. QED
    BY <1>1, <1>2, <2>1, <2>2, <2>3, <2>6 DEF DataInv, Booting, Distinct
<1>. QED
  BY SMTT(30), <1>2, <1>5, <1>6 DEF TypeOK

-----------------------------------------------------------------------------

(* From one place of the commit to the next, only contents change. *)
LEMMA CommitPlaces ==
  ASSUME Inv, NEW t \in Ops, NEW l \in CommitPhase,
         pc[t] \in CommitPhase, pc' = [pc EXCEPT ![t] = l],
         UNCHANGED <<outstanding, committing, cur, left, boot, halt>>
  PROVE  /\ committing /\ committing' /\ boot = "done" /\ pc' \in [Ops -> Location]
         /\ ~halt' /\ NoLostBegin' /\ CountInv' /\ PlaceInv'
         /\ \A u \in Ops : u # t => pc'[u] \notin CommitPhase
<1>. USE DEF Inv
<1>1. committing /\ boot = "done" /\ \A u \in Ops : pc[u] \notin Busy
  BY DEF PlaceInv, CommitPhase
<1>2. pc' \in [Ops -> Location] /\ \A u \in Ops : pc'[u] \notin Busy
  BY <1>1 DEF TypeOK, Location, CommitPhase, Busy
<1>3. CountInv'
  <2>1. Active = {}
    BY <1>1 DEF Active, Busy
  <2>2. outstanding = 0
    BY <2>1, FS_EmptySet DEF CountInv
  <2>. QED
    BY <1>2, <2>2, NoneCount
<1>4. \A u \in Ops : u # t => pc'[u] \notin CommitPhase
  BY DEF PlaceInv, TypeOK
<1>5. PlaceInv'
  BY <1>1, <1>2, <1>4 DEF PlaceInv, TypeOK, Holding, Busy
<1>6. NoLostBegin'
  BY <1>1 DEF NoLostBegin
<1>. QED
  BY <1>1, <1>2, <1>3, <1>4, <1>5, <1>6

(* While one operation commits, DataInv is what it needs and no more. *)
LEMMA CommitData ==
  ASSUME NEW t \in Ops, boot' = "done", committing', CommitInv(t)',
         Distinct(lhn', lhb'), Distinct(hdr'.n, hdr'.block),
         \A u \in Ops : u # t => pc'[u] \notin CommitPhase
  PROVE  DataInv'
<1>1. (\A u \in Ops : CommitInv(u))'
  BY DEF CommitInv, CommitPhase
<1>2. Booting'
  BY DEF Booting
<1>. QED
  BY <1>1, <1>2 DEF DataInv

LEMMA WriteLogKeeps ==
  ASSUME Inv, NEW t \in Ops, write_log(t)
  PROVE  Inv'
<1>. USE DEF Inv
<1>. DEFINE l == IF tail < lhn THEN "write_log" ELSE "write_head"
<1>1. /\ pc[t] = "write_log" /\ pc' = [pc EXCEPT ![t] = l]
      /\ logb' = [logb EXCEPT ![tail] = cache[lhb[tail]]]
      /\ tail' = IF tail < lhn THEN tail + 1 ELSE 1
      /\ UNCHANGED <<disk, hdr, lhn, lhb, outstanding, committing, cache, cur, left, boot, halt>>
  BY DEF write_log, At, Goto, memVars
<1>2. /\ committing /\ committing' /\ boot = "done" /\ pc' \in [Ops -> Location]
      /\ ~halt' /\ NoLostBegin' /\ CountInv' /\ PlaceInv'
      /\ \A u \in Ops : u # t => pc'[u] \notin CommitPhase
  <2>1. l \in CommitPhase /\ pc[t] \in CommitPhase
    BY <1>1 DEF CommitPhase
  <2>. QED
    BY <1>1, <2>1, CommitPlaces
<1>3. /\ tail \in 1 .. lhn /\ tail \in Slots /\ hdr.n = 0 /\ Copied(tail - 1)
      /\ \A b \in Blocks : InLog(b) \/ Clean(b)
  <2>1. CommitInv(t)
    BY DEF DataInv
  <2>2. tail \in 1 .. lhn /\ lhn \in 0 .. LOGSIZE
    BY <1>1, <2>1 DEF CommitInv, TypeOK
  <2>. QED
    BY SMTT(30), <1>1, <2>1, <2>2, LogAssumption DEF CommitInv, Slots
<1>4. TypeOK'
  <2>1. lhn \in 0 .. LOGSIZE /\ tail' \in 1 .. LOGSIZE + 1
    BY SMTT(30), <1>1, <1>3, LogAssumption DEF TypeOK
  <2>2. logb' \in [Slots -> Values]
    BY <1>1, <1>3 DEF TypeOK
  <2>. QED
    BY <1>1, <1>2, <2>1, <2>2 DEF TypeOK
<1>5. CommitInv(t)'
  <2>1. (\A b \in Blocks : InLog(b) \/ Clean(b))'
    BY <1>1, <1>3 DEF InLog, Clean
  <2>2. \A i \in 1 .. tail : logb'[i] = cache[lhb[i]]
    BY SMTT(30), <1>1, <1>3 DEF Copied, TypeOK, Slots
  <2>3. pc'[t] = l /\ lhn \in Nat
    BY SMTT(30), <1>1 DEF TypeOK
  <2>4. CASE tail < lhn
    <3>1. pc'[t] = "write_log" /\ tail' \in 1 .. lhn' /\ tail' - 1 = tail /\ hdr'.n = 0
      BY SMTT(30), <1>1, <1>3, <2>3, <2>4
    <3>2. Copied(tail - 1)'
      BY <1>1, <2>2, <3>1 DEF Copied
    <3>. QED
      BY <2>1, <3>1, <3>2 DEF CommitInv
  <2>5. CASE ~(tail < lhn)
    <3>1. tail = lhn /\ tail' = 1 /\ tail' \in 1 .. lhn
      BY SMTT(30), <1>1, <1>3, <2>3, <2>5
    <3>. QED
      BY SMTT(30), <1>1, <1>3, <2>1, <2>2, <2>3, <2>5, <3>1 DEF CommitInv, Copied
  <2>. QED
    BY <2>4, <2>5
<1>6. Distinct(lhn', lhb') /\ Distinct(hdr'.n, hdr'.block)
  BY <1>1 DEF DataInv, Distinct
<1>7. DataInv'
  BY <1>1, <1>2, <1>5, <1>6, CommitData
<1>. QED
  BY <1>2, <1>4, <1>7

LEMMA WriteHeadKeeps ==
  ASSUME Inv, NEW t \in Ops, write_head(t)
  PROVE  Inv'
<1>. USE DEF Inv
<1>1. /\ pc[t] = "write_head" /\ pc' = [pc EXCEPT ![t] = "install_trans"] /\ hdr' = Header
      /\ UNCHANGED <<disk, logb, lhn, lhb, outstanding, committing, cache, cur, left, tail, boot, halt>>
  BY DEF write_head, At, Goto, memVars
<1>2. /\ committing /\ committing' /\ boot = "done" /\ pc' \in [Ops -> Location]
      /\ ~halt' /\ NoLostBegin' /\ CountInv' /\ PlaceInv'
      /\ \A u \in Ops : u # t => pc'[u] \notin CommitPhase
  <2>1. pc[t] \in CommitPhase /\ "install_trans" \in CommitPhase
    BY <1>1 DEF CommitPhase
  <2>. QED
    BY <1>1, <2>1, CommitPlaces
<1>3. /\ hdr' \in [n : 0 .. LOGSIZE, block : [Slots -> Blocks]] /\ hdr'.n = lhn
      /\ \A i \in 1 .. lhn : hdr'.block[i] = lhb[i]
  <2>. DEFINE hb == [i \in Slots |-> IF i <= lhn THEN lhb[i] ELSE hdr.block[i]]
  <2>1. hb \in [Slots -> Blocks]
    BY DEF TypeOK
  <2>2. \A i \in 1 .. lhn : i \in Slots /\ hb[i] = lhb[i]
    BY SMTT(30), LogAssumption DEF TypeOK, Slots
  <2>3. hdr' = [n |-> lhn, block |-> hb]
    BY <1>1 DEF Header
  <2>. HIDE DEF hb
  <2>. QED
    BY <2>1, <2>2, <2>3 DEF TypeOK
<1>4. TypeOK'
  BY <1>1, <1>2, <1>3 DEF TypeOK
<1>5. SameHeader' /\ Distinct(lhn', lhb') /\ Distinct(hdr'.n, hdr'.block)
  BY SMTT(30), <1>1, <1>3 DEF SameHeader, Distinct, DataInv
<1>6. CommitInv(t)'
  <2>1. CommitInv(t)
    BY DEF DataInv
  <2>2. pc'[t] = "install_trans" /\ tail = 1 /\ tail' \in 1 .. lhn'
    BY <1>1, <2>1 DEF TypeOK, CommitInv
  <2>3. (\A b \in Blocks : InLog(b) \/ Clean(b))'
    BY <1>1, <2>1 DEF CommitInv, InLog, Clean
  <2>4. Copied(lhn)'
    BY <1>1, <2>1 DEF CommitInv, Copied
  <2>5. Installed(tail - 1)'
    <3>1. \A i \in 1 .. tail' - 1 : FALSE
      BY SMTT(30), <1>1, <2>2
    <3>. QED
      BY <3>1 DEF Installed
  <2>. QED
    BY <1>5, <2>2, <2>3, <2>4, <2>5 DEF CommitInv
<1>7. DataInv'
  BY <1>1, <1>2, <1>5, <1>6, CommitData
<1>. QED
  BY <1>2, <1>4, <1>7

-----------------------------------------------------------------------------
(* Installation, recovery and a crash *)

(* One round of install_trans: one more block is home. *)
LEMMA InstallOne ==
  ASSUME TypeOK, Install, tail \in 1 .. lhn, Distinct(lhn, lhb), Installed(tail - 1)
  PROVE  /\ disk' \in [Blocks -> Values] /\ cache' \in [Blocks -> Values]
         /\ tail' \in 1 .. LOGSIZE + 1 /\ tail' \in 1 .. lhn /\ tail \in Slots
         /\ UNCHANGED <<logb, hdr, lhn, lhb, outstanding, committing, cur, left, halt>>
         /\ \A i \in 1 .. tail : disk'[lhb[i]] = logb[i]
         /\ \A b \in Blocks : b # lhb[tail] => disk'[b] = disk[b] /\ cache'[b] = cache[b]
         /\ disk'[lhb[tail]] = logb[tail] /\ cache'[lhb[tail]] = logb[tail]
         /\ tail < lhn => tail' = tail + 1
         /\ ~(tail < lhn) => tail = lhn /\ tail' = 1
<1>1. lhn \in 0 .. LOGSIZE /\ tail \in Slots /\ lhb[tail] \in Blocks
  BY SMTT(30), LogAssumption DEF TypeOK, Slots
<1>2. /\ disk' = [disk EXCEPT ![lhb[tail]] = logb[tail]]
      /\ cache' = [cache EXCEPT ![lhb[tail]] = logb[tail]]
      /\ tail' = IF tail < lhn THEN tail + 1 ELSE 1
      /\ UNCHANGED <<logb, hdr, lhn, lhb, outstanding, committing, cur, left, halt>>
  BY DEF Install
<1>3. disk' \in [Blocks -> Values] /\ cache' \in [Blocks -> Values]
  BY <1>1, <1>2 DEF TypeOK
<1>4. /\ \A b \in Blocks : b # lhb[tail] => disk'[b] = disk[b] /\ cache'[b] = cache[b]
      /\ disk'[lhb[tail]] = logb[tail] /\ cache'[lhb[tail]] = logb[tail]
  BY <1>1, <1>2 DEF TypeOK
<1>5. /\ tail' \in 1 .. LOGSIZE + 1 /\ tail' \in 1 .. lhn
      /\ tail < lhn => tail' = tail + 1
      /\ ~(tail < lhn) => tail = lhn /\ tail' = 1
  BY SMTT(30), <1>1, <1>2, LogAssumption
<1>6. ASSUME NEW i \in 1 .. tail PROVE disk'[lhb[i]] = logb[i]
  <2>1. CASE i = tail
    BY <2>1, <1>4
  <2>2. CASE i # tail
    <3>1. i \in 1 .. tail - 1 /\ i \in 1 .. lhn /\ i \in Slots
      BY SMTT(30), <1>1, <2>2, LogAssumption DEF Slots
    <3>2. lhb[i] # lhb[tail] /\ lhb[i] \in Blocks /\ disk[lhb[i]] = logb[i]
      BY <2>2, <3>1 DEF Distinct, Installed, TypeOK
    <3>. QED
      BY <1>4, <3>2
  <2>. QED
    BY <2>1, <2>2
<1>. QED
  BY <1>1, <1>2, <1>3, <1>4, <1>5, <1>6

LEMMA InstallKeeps ==
  ASSUME Inv, NEW t \in Ops, install_trans(t)
  PROVE  Inv' /\ cache' = cache
<1>. USE DEF Inv
<1>. DEFINE l == IF tail < lhn THEN "install_trans" ELSE "clear"
<1>1. /\ pc[t] = "install_trans" /\ pc' = [pc EXCEPT ![t] = l] /\ boot' = boot /\ Install
  BY DEF install_trans, At, Goto
<1>2. /\ tail \in 1 .. lhn /\ SameHeader /\ Copied(lhn) /\ Installed(tail - 1) /\ Distinct(lhn, lhb)
      /\ \A b \in Blocks : InLog(b) \/ Clean(b)
  <2>1. CommitInv(t) /\ Distinct(lhn, lhb)
    BY DEF DataInv
  <2>. QED
    BY <1>1, <2>1 DEF CommitInv
<1>3. /\ disk' \in [Blocks -> Values] /\ cache' \in [Blocks -> Values]
      /\ tail' \in 1 .. LOGSIZE + 1 /\ tail' \in 1 .. lhn /\ tail \in Slots
      /\ UNCHANGED <<logb, hdr, lhn, lhb, outstanding, committing, cur, left, halt>>
      /\ \A i \in 1 .. tail : disk'[lhb[i]] = logb[i]
      /\ \A b \in Blocks : b # lhb[tail] => disk'[b] = disk[b] /\ cache'[b] = cache[b]
      /\ disk'[lhb[tail]] = logb[tail] /\ cache'[lhb[tail]] = logb[tail]
      /\ tail < lhn => tail' = tail + 1
      /\ ~(tail < lhn) => tail = lhn /\ tail' = 1
  BY <1>1, <1>2, InstallOne
<1>4. cache' = cache
  <2>1. \A b \in Blocks : cache'[b] = cache[b]
    BY <1>2, <1>3 DEF Copied
  <2>. QED
    BY SMTT(30), <1>3, <2>1 DEF TypeOK
<1>5. /\ committing /\ committing' /\ boot = "done" /\ pc' \in [Ops -> Location]
      /\ ~halt' /\ NoLostBegin' /\ CountInv' /\ PlaceInv'
      /\ \A u \in Ops : u # t => pc'[u] \notin CommitPhase
  <2>1. l \in CommitPhase /\ pc[t] \in CommitPhase
    BY <1>1 DEF CommitPhase
  <2>. QED
    BY <1>1, <1>3, <2>1, CommitPlaces
<1>6. TypeOK'
  BY <1>1, <1>3, <1>5 DEF TypeOK
<1>7. CommitInv(t)'
  <2>1. (\A b \in Blocks : InLog(b) \/ Clean(b))'
    BY <1>2, <1>3, <1>4 DEF InLog, Clean
  <2>2. SameHeader' /\ Copied(lhn)'
    BY <1>2, <1>3, <1>4 DEF SameHeader, Copied
  <2>3. pc'[t] = l /\ lhn \in Nat
    BY SMTT(30), <1>1 DEF TypeOK
  <2>4. CASE tail < lhn
    <3>1. pc'[t] = "install_trans" /\ tail' \in 1 .. lhn' /\ tail' - 1 = tail
      BY SMTT(30), <1>2, <1>3, <2>3, <2>4
    <3>2. Installed(tail - 1)'
      BY <1>3, <3>1 DEF Installed
    <3>. QED
      BY <2>1, <2>2, <3>1, <3>2 DEF CommitInv
  <2>5. CASE ~(tail < lhn)
    <3>1. (\A b \in Blocks : Clean(b))'
      BY SMTT(30), <1>3, <1>4, <2>1, <2>2, <2>5 DEF InLog, Clean, Copied
    <3>2. pc'[t] = "clear"
      BY <2>3, <2>5
    <3>. QED
      BY <2>2, <3>1, <3>2 DEF CommitInv
  <2>. QED
    BY <2>4, <2>5
<1>8. Distinct(lhn', lhb') /\ Distinct(hdr'.n, hdr'.block)
  BY <1>3 DEF DataInv, Distinct
<1>9. DataInv'
  BY <1>1, <1>5, <1>7, <1>8, CommitData
<1>. QED
  BY <1>4, <1>5, <1>6, <1>9

LEMMA ClearKeeps ==
  ASSUME Inv, NEW t \in Ops, Clear(t)
  PROVE  Inv'
<1>. USE DEF Inv
<1>1. /\ pc[t] = "clear" /\ pc' = [pc EXCEPT ![t] = "end_commit"]
      /\ lhn' = 0 /\ hdr' = [hdr EXCEPT !.n = 0]
      /\ UNCHANGED <<disk, logb, lhb, outstanding, committing, cache, cur, left, tail, boot, halt>>
  BY DEF Clear, EraseLog, At, Goto
<1>2. /\ committing /\ committing' /\ boot = "done" /\ pc' \in [Ops -> Location]
      /\ ~halt' /\ NoLostBegin' /\ CountInv' /\ PlaceInv'
      /\ \A u \in Ops : u # t => pc'[u] \notin CommitPhase
  BY <1>1, CommitPlaces DEF CommitPhase
<1>3. hdr' \in [n : 0 .. LOGSIZE, block : [Slots -> Blocks]] /\ hdr'.n = 0
  BY SMTT(30), <1>1, LogAssumption DEF TypeOK
<1>4. TypeOK'
  BY <1>1, <1>2, <1>3, LogAssumption DEF TypeOK
<1>5. CommitInv(t)'
  <2>1. pc'[t] = "end_commit" /\ \A b \in Blocks : Clean(b)
    BY <1>1 DEF TypeOK, DataInv, CommitInv
  <2>. QED
    BY <1>1, <1>3, <2>1 DEF CommitInv, Clean
<1>6. Distinct(lhn', lhb') /\ Distinct(hdr'.n, hdr'.block)
  BY SMTT(30), <1>1, <1>3 DEF DataInv, Distinct
<1>7. DataInv'
  BY <1>1, <1>2, <1>5, <1>6, CommitData
<1>. QED
  BY <1>2, <1>4, <1>7

LEMMA EndCommitKeeps ==
  ASSUME Inv, NEW t \in Ops, EndCommit(t)
  PROVE  Inv'
<1>. USE DEF Inv
<1>1. /\ pc[t] = "end_commit" /\ boot = "done" /\ committing' = FALSE
      /\ pc' = [Awake(pc) EXCEPT ![t] = "user"]
      /\ UNCHANGED <<disk, logb, hdr, lhn, lhb, outstanding, cache, cur, left, tail, boot, halt>>
  BY DEF EndCommit, At, Up, diskVars
<1>2. /\ committing /\ \A u \in Ops : pc[u] \notin Busy
      /\ \A u \in Ops : u # t => pc[u] \notin CommitPhase
  BY <1>1 DEF PlaceInv, CommitPhase
<1>3. /\ pc' \in [Ops -> Location] /\ pc'[t] = "user"
      /\ \A u \in Ops : u # t => pc'[u] = IF pc[u] = "asleep" THEN "begin_op" ELSE pc[u]
  BY <1>1 DEF Awake, TypeOK, Location
<1>4. \A u \in Ops : pc'[u] \notin Busy /\ pc'[u] \notin CommitPhase /\ pc'[u] # "asleep"
  BY <1>2, <1>3 DEF Busy, CommitPhase
<1>5. TypeOK' /\ ~halt' /\ NoLostBegin'
  BY <1>1, <1>3, <1>4 DEF TypeOK, NoLostBegin
<1>6. CountInv'
  <2>1. Active = {}
    BY <1>2 DEF Active, Busy
  <2>2. outstanding = 0
    BY <2>1, FS_EmptySet DEF CountInv
  <2>. QED
    BY <1>1, <1>4, <2>2, NoneCount
<1>7. PlaceInv'
  BY <1>1, <1>4 DEF PlaceInv, Holding, Busy
<1>8. DataInv'
  <2>1. hdr.n = 0 /\ lhn = 0 /\ \A b \in Blocks : Clean(b)
    BY <1>1 DEF DataInv, CommitInv
  <2>2. Idle'
    BY <1>1, <2>1 DEF Idle, Clean
  <2>. QED
    BY <1>1, <1>4, <2>2 DEF DataInv, Booting, Distinct, CommitInv, CommitPhase
<1>. QED
  BY <1>5, <1>6, <1>7, <1>8

(* While recovery runs nobody else does. *)
LEMMA BootPlaces ==
  ASSUME Inv, boot # "done", UNCHANGED <<outstanding, committing, pc, cur, left, halt>>
  PROVE  /\ ~halt' /\ NoLostBegin' /\ CountInv' /\ PlaceInv' /\ ~committing'
         /\ \A u \in Ops : pc'[u] = "user"
<1>. USE DEF Inv
<1>1. ~committing /\ \A u \in Ops : pc[u] = "user"
  BY DEF PlaceInv
<1>2. CountInv'
  <2>1. Active = {}
    BY <1>1 DEF Active
  <2>2. outstanding = 0
    BY <2>1, FS_EmptySet DEF CountInv
  <2>. QED
    BY <1>1, <2>2, NoneCount DEF Busy
<1>3. PlaceInv'
  BY <1>1 DEF PlaceInv, Holding, CommitPhase
<1>. QED
  BY <1>1, <1>2, <1>3 DEF NoLostBegin

LEMMA ReadHeadKeeps ==
  ASSUME Inv, read_head
  PROVE  Inv'
<1>. USE DEF Inv
<1>1. /\ boot = "read_head" /\ lhn' = hdr.n /\ lhb' = hdr.block /\ tail' = 1
      /\ boot' = IF hdr.n > 0 THEN "install_trans" ELSE "clear"
      /\ UNCHANGED <<disk, logb, hdr, outstanding, committing, cache, pc, cur, left, halt>>
  BY DEF read_head, diskVars, opVars
<1>2. /\ ~halt' /\ NoLostBegin' /\ CountInv' /\ PlaceInv' /\ ~committing'
      /\ \A u \in Ops : pc'[u] = "user"
  BY <1>1, BootPlaces
<1>3. TypeOK'
  BY SMTT(30), <1>1, LogAssumption DEF TypeOK
<1>4. Booting'
  BY SMTT(30), <1>1 DEF Booting, SameHeader, Installed, Clean, DataInv, TypeOK
<1>5. DataInv'
  BY <1>1, <1>2, <1>4 DEF DataInv, Distinct, CommitInv
<1>. QED
  BY <1>2, <1>3, <1>5

LEMMA RecoverInstallKeeps ==
  ASSUME Inv, RecoverInstall
  PROVE  Inv'
<1>. USE DEF Inv
<1>1. /\ boot = "install_trans" /\ Install /\ pc' = pc
      /\ boot' = IF tail < lhn THEN "install_trans" ELSE "clear"
  BY DEF RecoverInstall
<1>2. /\ tail \in 1 .. lhn /\ SameHeader /\ Installed(tail - 1) /\ Distinct(lhn, lhb)
      /\ \A b \in Blocks : Clean(b)
  BY <1>1 DEF DataInv, Booting
<1>3. /\ disk' \in [Blocks -> Values] /\ cache' \in [Blocks -> Values]
      /\ tail' \in 1 .. LOGSIZE + 1 /\ tail' \in 1 .. lhn /\ tail \in Slots
      /\ UNCHANGED <<logb, hdr, lhn, lhb, outstanding, committing, cur, left, halt>>
      /\ \A i \in 1 .. tail : disk'[lhb[i]] = logb[i]
      /\ \A b \in Blocks : b # lhb[tail] => disk'[b] = disk[b] /\ cache'[b] = cache[b]
      /\ disk'[lhb[tail]] = logb[tail] /\ cache'[lhb[tail]] = logb[tail]
      /\ tail < lhn => tail' = tail + 1
      /\ ~(tail < lhn) => tail = lhn /\ tail' = 1
  BY <1>1, <1>2, InstallOne
<1>4. /\ ~halt' /\ NoLostBegin' /\ CountInv' /\ PlaceInv' /\ ~committing'
      /\ \A u \in Ops : pc'[u] = "user"
  BY <1>1, <1>3, BootPlaces
<1>5. TypeOK'
  BY <1>1, <1>3 DEF TypeOK
<1>6. Booting'
  <2>1. SameHeader' /\ (\A b \in Blocks : Clean(b))'
    BY <1>2, <1>3 DEF SameHeader, Clean
  <2>2. CASE tail < lhn
    <3>1. boot' = "install_trans" /\ tail' \in 1 .. lhn' /\ tail' - 1 = tail
      BY SMTT(30), <1>1, <1>3, <2>2 DEF TypeOK
    <3>2. Installed(tail - 1)'
      BY <1>3, <3>1 DEF Installed
    <3>. QED
      BY <2>1, <3>1, <3>2 DEF Booting
  <2>3. CASE ~(tail < lhn)
    <3>1. boot' = "clear" /\ Installed(lhn)'
      BY <1>1, <1>3, <2>3 DEF Installed
    <3>. QED
      BY <2>1, <3>1 DEF Booting
  <2>. QED
    BY <2>2, <2>3
<1>7. DataInv'
  BY <1>1, <1>2, <1>3, <1>4, <1>6 DEF DataInv, Distinct, CommitInv
<1>. QED
  BY <1>4, <1>5, <1>7

LEMMA RecoverClearKeeps ==
  ASSUME Inv, RecoverClear
  PROVE  Inv'
<1>. USE DEF Inv
<1>1. /\ boot = "clear" /\ boot' = "done" /\ lhn' = 0 /\ hdr' = [hdr EXCEPT !.n = 0]
      /\ UNCHANGED <<disk, logb, lhb, outstanding, committing, cache, pc, cur, left, tail, halt>>
  BY DEF RecoverClear, EraseLog
<1>2. /\ ~halt' /\ NoLostBegin' /\ CountInv' /\ PlaceInv' /\ ~committing'
      /\ \A u \in Ops : pc'[u] = "user"
  BY <1>1, BootPlaces
<1>3. hdr' \in [n : 0 .. LOGSIZE, block : [Slots -> Blocks]] /\ hdr'.n = 0
  BY SMTT(30), <1>1, LogAssumption DEF TypeOK
<1>4. TypeOK'
  BY <1>1, <1>3, LogAssumption DEF TypeOK
<1>5. Idle' /\ Booting'
  BY <1>1, <1>3 DEF DataInv, Booting, Idle, Clean
<1>6. DataInv'
  BY SMTT(30), <1>1, <1>2, <1>3, <1>5 DEF DataInv, Distinct, CommitInv
<1>. QED
  BY <1>2, <1>4, <1>6

LEMMA CrashKeeps ==
  ASSUME Inv, Crash
  PROVE  Inv'
<1>. USE DEF Inv
<1>1. /\ boot' = "read_head" /\ halt' = FALSE /\ lhn' = 0 /\ outstanding' = 0 /\ committing' = FALSE
      /\ cache' = disk /\ pc' = [t \in Ops |-> "user"] /\ cur' = [t \in Ops |-> AnyBlock]
      /\ left' = [t \in Ops |-> 0] /\ tail' = 1 /\ lhb' = [i \in Slots |-> AnyBlock]
      /\ UNCHANGED <<disk, logb, hdr>>
  BY DEF Crash, diskVars
<1>2. AnyBlock \in Blocks
  BY LogAssumption DEF AnyBlock
<1>3. TypeOK' /\ ~halt' /\ NoLostBegin'
  <2>1. pc' \in [Ops -> Location] /\ cur' \in [Ops -> Blocks] /\ lhb' \in [Slots -> Blocks]
    BY <1>1, <1>2 DEF Location
  <2>2. left' \in [Ops -> 0 .. OpBlocks] /\ tail' \in 1 .. LOGSIZE + 1 /\ lhn' \in 0 .. LOGSIZE
    BY SMTT(30), <1>1, LogAssumption
  <2>3. TypeOK'
    BY <1>1, <2>1, <2>2 DEF TypeOK
  <2>. QED
    BY <1>1, <2>3 DEF NoLostBegin
<1>4. CountInv'
  BY <1>1, NoneCount DEF Busy
<1>5. PlaceInv'
  BY <1>1 DEF PlaceInv, Holding, CommitPhase
<1>6. DataInv'
  <2>1. Distinct(lhn', lhb') /\ Distinct(hdr'.n, hdr'.block)
    BY SMTT(30), <1>1 DEF DataInv, Distinct
  <2>2. (\A u \in Ops : CommitInv(u))'
    BY <1>1 DEF CommitInv
  <2>3. Booting'
    BY <1>1 DEF Booting, Clean
  <2>. QED
    BY <1>1, <2>1, <2>2, <2>3 DEF DataInv
<1>. QED
  BY <1>3, <1>4, <1>5, <1>6

LEMMA InitInv == Init => Inv
<1>. SUFFICES ASSUME Init PROVE Inv
  OBVIOUS
<1>1. AnyBlock \in Blocks
  BY LogAssumption DEF AnyBlock
<1>2. /\ disk = [b \in Blocks |-> Zero] /\ cache = disk /\ logb = [i \in Slots |-> Zero]
      /\ hdr = [n |-> 0, block |-> [i \in Slots |-> AnyBlock]]
      /\ lhn = 0 /\ lhb = [i \in Slots |-> AnyBlock]
      /\ outstanding = 0 /\ committing = FALSE /\ tail = 1 /\ boot = "read_head" /\ halt = FALSE
      /\ pc = [t \in Ops |-> "user"] /\ cur = [t \in Ops |-> AnyBlock] /\ left = [t \in Ops |-> 0]
  BY DEF Init
<1>3. TypeOK
  <2>1. disk \in [Blocks -> Values] /\ cache \in [Blocks -> Values] /\ logb \in [Slots -> Values]
    BY <1>2, LogAssumption
  <2>2. hdr \in [n : 0 .. LOGSIZE, block : [Slots -> Blocks]] /\ lhb \in [Slots -> Blocks]
    BY SMTT(30), <1>1, <1>2, LogAssumption
  <2>3. pc \in [Ops -> Location] /\ cur \in [Ops -> Blocks]
    BY <1>1, <1>2 DEF Location
  <2>4. left \in [Ops -> 0 .. OpBlocks] /\ tail \in 1 .. LOGSIZE + 1 /\ lhn \in 0 .. LOGSIZE
    BY SMTT(30), <1>2, LogAssumption
  <2>. QED
    BY <1>2, <2>1, <2>2, <2>3, <2>4 DEF TypeOK
<1>4. CountInv
  <2>1. Active = {}
    BY <1>2 DEF Active
  <2>. QED
    BY <1>2, <2>1, FS_EmptySet DEF CountInv, Holding
<1>5. PlaceInv /\ NoLostBegin
  BY <1>2 DEF PlaceInv, NoLostBegin, Holding, CommitPhase
<1>6. DataInv
  <2>1. Distinct(lhn, lhb) /\ Distinct(hdr.n, hdr.block)
    BY SMTT(30), <1>2 DEF Distinct
  <2>. QED
    BY <1>2, <2>1 DEF DataInv, CommitInv, Booting, Clean
<1>. QED
  BY <1>2, <1>3, <1>4, <1>5, <1>6 DEF Inv

LEMMA NextInv == Inv /\ [Next]_vars => Inv'
<1>. SUFFICES ASSUME Inv, [Next]_vars PROVE Inv'
  OBVIOUS
<1>1. CASE UNCHANGED vars
  <2>. USE DEF Inv
  <2>1. UNCHANGED <<disk, logb, hdr, lhn, lhb, outstanding, committing, cache, pc, cur, left, tail, boot, halt>>
    BY <1>1 DEF vars, diskVars, memVars, opVars
  <2>2. TypeOK' /\ ~halt' /\ NoLostBegin'
    BY <2>1 DEF TypeOK, NoLostBegin
  <2>3. CountInv'
    BY <2>1, QuietCount DEF DueOf, CountInv
  <2>4. PlaceInv'
    BY <2>1 DEF PlaceInv
  <2>5. DataInv'
    BY <2>1, QuietData
  <2>. QED
    BY <2>2, <2>3, <2>4, <2>5
<1>2. CASE Recover \/ Crash
  BY <1>2, ReadHeadKeeps, RecoverInstallKeeps, RecoverClearKeeps, CrashKeeps DEF Recover
<1>3. ASSUME NEW t \in Ops, FsCall(t) \/ Work(t) PROVE Inv'
  BY <1>3, FsCallKeeps, BeginSleepKeeps, BeginKeeps, LogWriteTestKeeps, LogWriteKeeps, EndKeeps,
     WriteLogKeeps, WriteHeadKeeps, InstallKeeps, ClearKeeps, EndCommitKeeps DEF Work
<1>4. ASSUME NEW t \in Ops, NEW b \in Blocks, NEW v \in Values, Modify(t, b, v) PROVE Inv'
  BY <1>4, ModifyKeeps
<1>. QED
  BY <1>1, <1>2, <1>3, <1>4 DEF Next

LEMMA Invariance == Spec => []Inv
BY InitInv, NextInv, PTL DEF Spec

(* The state of log, header, cache and disk is consistent at every point   *)
(* of begin_op, log_write, end_op, commit and recovery, for any sizes.     *)
THEOREM LogInvariant == Spec => [](TypeOK /\ LogInv)
<1>1. Inv => TypeOK /\ LogInv
  BY Parts DEF Inv
<1>. QED
  BY <1>1, Invariance, PTL

(* log_write never meets "too big a transaction" or "outside of trans",    *)
(* end_op never finds a commit under way.                                  *)
THEOREM LogNeverPanics == Spec => []NoPanic
<1>1. Inv => NoPanic
  BY DEF Inv, NoPanic
<1>. QED
  BY <1>1, Invariance, PTL

(* A thread asleep in begin_op has an end_op to come that wakes it.        *)
THEOREM BeginIsWoken == Spec => []NoLostBegin
<1>1. Inv => NoLostBegin
  BY DEF Inv
<1>. QED
  BY <1>1, Invariance, PTL

-----------------------------------------------------------------------------

(* What recovery makes of a header, a log and a disk. *)

Redo(h, l, d) ==
  [b \in Blocks |-> IF \E i \in 1 .. h.n : h.block[i] = b
                    THEN l[CHOOSE i \in 1 .. h.n : h.block[i] = b]
                    ELSE d[b]]

LEMMA RecoveredIsRedo == Recovered = Redo(hdr, logb, disk) /\ Recovered' = Redo(hdr', logb', disk')
BY DEF Recovered, Redo

(* Recovery of a log whose entries are those of c, over a disk that        *)
(* differs from c in logged blocks only, yields c.                         *)
LEMMA RedoYields ==
  ASSUME NEW h, NEW l, NEW d, NEW c \in [Blocks -> Values], Distinct(h.n, h.block),
         \A i \in 1 .. h.n : l[i] = c[h.block[i]],
         \A b \in Blocks : (\E i \in 1 .. h.n : h.block[i] = b) \/ c[b] = d[b]
  PROVE  Redo(h, l, d) = c
<1>1. ASSUME NEW b \in Blocks PROVE Redo(h, l, d)[b] = c[b]
  <2>1. CASE \E i \in 1 .. h.n : h.block[i] = b
    <3>. DEFINE k == CHOOSE i \in 1 .. h.n : h.block[i] = b
    <3>1. k \in 1 .. h.n /\ h.block[k] = b
      BY <2>1
    <3>2. Redo(h, l, d)[b] = l[k]
      BY <2>1 DEF Redo
    <3>. QED
      BY <3>1, <3>2
  <2>2. CASE ~ \E i \in 1 .. h.n : h.block[i] = b
    BY <2>2 DEF Redo
  <2>. QED
    BY <2>1, <2>2
<1>. QED
  BY SMTT(30), <1>1 DEF Redo

(* The same, with the header's entries given by the log in memory. *)
LEMMA LoggedYields ==
  ASSUME NEW h, NEW l, NEW d, NEW c \in [Blocks -> Values], NEW n, NEW hb,
         Distinct(h.n, h.block), h.n = n, \A i \in 1 .. n : h.block[i] = hb[i],
         \A i \in 1 .. n : l[i] = c[hb[i]],
         \A b \in Blocks : (\E i \in 1 .. n : hb[i] = b) \/ c[b] = d[b]
  PROVE  Redo(h, l, d) = c
<1>1. \A i \in 1 .. h.n : l[i] = c[h.block[i]]
  OBVIOUS
<1>2. \A b \in Blocks : (\E i \in 1 .. h.n : h.block[i] = b) \/ c[b] = d[b]
  BY SMTT(30)
<1>. QED
  BY SMTT(30), <1>1, <1>2, RedoYields

(* An empty header leaves the disk as it is. *)
LEMMA RedoNothing ==
  ASSUME NEW h, NEW l, NEW d \in [Blocks -> Values], h.n = 0
  PROVE  Redo(h, l, d) = d
<1>1. \A i \in 1 .. h.n : FALSE
  BY SMTT(30)
<1>. QED
  BY <1>1, RedoYields DEF Distinct

(* When the last operation has ended and its commit is over, a crash loses *)
(* nothing.                                                                *)
THEOREM EndedIsDurable == Spec => []Durable
<1>1. ASSUME Inv, Up, outstanding = 0, ~committing PROVE Recovered = cache
  <2>. USE DEF Inv
  <2>1. /\ hdr.n = 0 /\ lhn = 0 /\ \A t \in Ops : pc[t] \notin Busy
        /\ \A b \in Blocks : InLog(b) \/ Clean(b) \/ \E t \in Ops : pc[t] \in Holding /\ cur[t] = b
    BY <1>1, NoneActive DEF Up, DataInv, Idle
  <2>2. \A b \in Blocks : disk[b] = cache[b]
    <3>1. \A t \in Ops : pc[t] \notin Holding
      BY <2>1 DEF Busy, Holding
    <3>2. \A b \in Blocks : ~InLog(b)
      BY SMTT(30), <2>1 DEF InLog
    <3>. QED
      BY <2>1, <3>1, <3>2 DEF Clean
  <2>3. disk = cache
    BY SMTT(30), <1>1, <2>2 DEF TypeOK
  <2>. QED
    BY <1>1, <2>1, <2>3, RedoNothing, RecoveredIsRedo DEF TypeOK
<1>2. Inv => Durable
  BY <1>1 DEF Durable
<1>. QED
  BY <1>2, Invariance, PTL

-----------------------------------------------------------------------------
(* The steps of the log as steps of AtomicStore. *)

View == IF boot = "done" THEN cache ELSE Recovered
Same == Recovered' = Recovered /\ View' = View /\ Active' = Active

(* A step that writes no block and neither begins nor ends an operation.   *)
LEMMA QuietStep ==
  ASSUME UNCHANGED <<disk, logb, hdr, cache, boot>>,
         \A u \in Ops : pc'[u] \in Busy <=> pc[u] \in Busy
  PROVE  Same
<1>1. Active' = Active
  BY Sets DEF ActiveOf
<1>. QED
  BY <1>1 DEF Same, View, Recovered

LEMMA OperationStep ==
  ASSUME Inv, NEW t \in Ops,
         FsCall(t) \/ BeginSleep(t) \/ LogWriteTest(t) \/ log_write(t) \/ EndCommit(t)
  PROVE  Same
<1>1. UNCHANGED <<disk, logb, hdr, cache, boot>>
  BY DEF FsCall, BeginSleep, LogWriteTest, log_write, EndCommit, diskVars, memVars
<1>2. \A u \in Ops : pc'[u] \in Busy <=> pc[u] \in Busy
  BY DEF FsCall, BeginSleep, LogWriteTest, log_write, EndCommit, At, Goto, Awake, Busy, Inv, TypeOK
<1>. QED
  BY <1>1, <1>2, QuietStep

LEMMA BeginStep ==
  ASSUME Inv, NEW t \in Ops, begin_op(t)
  PROVE  Store!Begin(t)
<1>1. /\ pc[t] = "begin_op" /\ pc' = [pc EXCEPT ![t] = "op"]
      /\ UNCHANGED <<disk, logb, hdr, cache, boot>>
  BY DEF begin_op, At, Goto, diskVars
<1>2. t \notin Active /\ Active' = Active \cup {t}
  BY <1>1 DEF Active, Inv, TypeOK
<1>. QED
  BY <1>1, <1>2 DEF Store!Begin, Recovered

LEMMA ModifyStep ==
  ASSUME Inv, NEW t \in Ops, NEW b \in Blocks, NEW v \in Values, Modify(t, b, v)
  PROVE  Store!Write(t, b, v)
<1>1. /\ pc[t] = "op" /\ pc' = [pc EXCEPT ![t] = "log_write"] /\ boot = "done"
      /\ cache' = [cache EXCEPT ![b] = v] /\ UNCHANGED <<disk, logb, hdr, boot>>
  BY DEF Modify, At, Up, Goto, diskVars
<1>2. t \in Active /\ Active' = Active
  BY <1>1 DEF Active, Inv, TypeOK
<1>. QED
  BY <1>1, <1>2 DEF Store!Write, Recovered

LEMMA EndStep ==
  ASSUME Inv, NEW t \in Ops, end_op(t)
  PROVE  Store!End(t)
<1>1. /\ pc[t] = "op" /\ UNCHANGED <<disk, logb, hdr, cache, boot>>
      /\ pc'[t] \notin Busy /\ \A u \in Ops : u # t => (pc'[u] \in Busy <=> pc[u] \in Busy)
  BY DEF end_op, At, Awake, Busy, Inv, TypeOK, diskVars
<1>2. t \in Active /\ Active' = Active \ {t}
  BY <1>1, Sets DEF ActiveOf, Busy
<1>. QED
  BY <1>1, <1>2 DEF Store!End, Recovered

(* Writing the log changes nothing durable while the header is empty. *)
LEMMA WriteLogStep ==
  ASSUME Inv, NEW t \in Ops, write_log(t)
  PROVE  Same
<1>1. /\ pc[t] = "write_log" /\ boot = "done" /\ UNCHANGED <<disk, hdr, cache, boot>>
      /\ \A u \in Ops : pc'[u] \in Busy <=> pc[u] \in Busy
  BY DEF write_log, At, Up, Goto, memVars, Inv, TypeOK, Busy
<1>2. hdr.n = 0
  BY <1>1 DEF Inv, DataInv, CommitInv
<1>3. Recovered' = Recovered
  BY <1>1, <1>2, RedoNothing, RecoveredIsRedo DEF Inv, TypeOK
<1>4. Active' = Active
  BY <1>1, Sets DEF ActiveOf
<1>. QED
  BY <1>1, <1>3, <1>4 DEF Same, View

(* Once the header is written, recovery would yield the cache. *)
LEMMA CommittedIsCache ==
  ASSUME Inv, NEW t \in Ops, pc[t] \in {"install_trans", "clear"}
  PROVE  Recovered = cache
<1>1. /\ SameHeader /\ Copied(lhn) /\ Distinct(hdr.n, hdr.block)
      /\ \A b \in Blocks : InLog(b) \/ Clean(b)
  <2>1. CommitInv(t) /\ Distinct(hdr.n, hdr.block)
    BY DEF Inv, DataInv
  <2>. QED
    BY <2>1 DEF CommitInv
<1>2. cache \in [Blocks -> Values]
  BY DEF Inv, TypeOK
<1>3. Redo(hdr, logb, disk) = cache
  BY SMTT(30), <1>1, <1>2, LoggedYields DEF SameHeader, Copied, InLog, Clean
<1>. QED
  BY <1>3, RecoveredIsRedo

(* The write of the header is the commit. *)
LEMMA WriteHeadStep ==
  ASSUME Inv, NEW t \in Ops, write_head(t)
  PROVE  Store!Commit
<1>1. /\ pc[t] = "write_head" /\ boot = "done" /\ UNCHANGED <<disk, logb, cache, boot>>
      /\ pc' = [pc EXCEPT ![t] = "install_trans"] /\ lhn' = lhn /\ lhb' = lhb
  BY DEF write_head, At, Up, Goto, memVars
<1>2. Inv'
  BY WriteHeadKeeps
<1>3. Recovered' = cache
  <2>1. pc'[t] = "install_trans"
    BY <1>1 DEF Inv, TypeOK
  <2>2. /\ SameHeader' /\ Copied(lhn)' /\ Distinct(hdr'.n, hdr'.block)
        /\ (\A b \in Blocks : InLog(b) \/ Clean(b))'
    BY <1>2, <2>1 DEF Inv, DataInv, CommitInv
  <2>3. cache' \in [Blocks -> Values]
    BY <1>2 DEF Inv, TypeOK
  <2>4. Redo(hdr', logb', disk') = cache'
    BY SMTT(30), <2>2, <2>3, LoggedYields DEF SameHeader, Copied, InLog, Clean
  <2>. QED
    BY <1>1, <2>4, RecoveredIsRedo
<1>4. Active = {} /\ Active' = {}
  <2>1. \A u \in Ops : pc[u] \notin Busy /\ pc'[u] \notin Busy
    BY <1>1 DEF Inv, PlaceInv, CommitPhase, TypeOK, Busy
  <2>. QED
    BY <2>1, Sets DEF ActiveOf
<1>. QED
  BY <1>1, <1>3, <1>4 DEF Store!Commit

(* Installing leaves what recovery would yield, and so does erasing. *)
LEMMA InstallStep ==
  ASSUME Inv, NEW t \in Ops, install_trans(t)
  PROVE  Same
<1>. DEFINE l == IF tail < lhn THEN "install_trans" ELSE "clear"
<1>1. pc[t] = "install_trans" /\ boot = "done" /\ boot' = boot /\ pc' = [pc EXCEPT ![t] = l]
  BY DEF install_trans, At, Up, Goto
<1>2. Inv' /\ cache' = cache
  BY InstallKeeps
<1>3. pc'[t] \in {"install_trans", "clear"} /\ \A u \in Ops : pc'[u] \in Busy <=> pc[u] \in Busy
  BY <1>1 DEF Inv, TypeOK, Busy
<1>4. Recovered = cache
  BY <1>1, CommittedIsCache
<1>5. Recovered' = cache'
  <2>1. /\ SameHeader' /\ Copied(lhn)' /\ Distinct(hdr'.n, hdr'.block)
        /\ (\A b \in Blocks : InLog(b) \/ Clean(b))' /\ cache' \in [Blocks -> Values]
    <3>1. TypeOK' /\ CommitInv(t)' /\ Distinct(hdr'.n, hdr'.block)
      BY <1>2, <1>3 DEF Inv, DataInv
    <3>. QED
      BY <1>3, <3>1 DEF CommitInv, TypeOK
  <2>2. Redo(hdr', logb', disk') = cache'
    BY SMTT(30), <2>1, LoggedYields DEF SameHeader, Copied, InLog, Clean
  <2>. QED
    BY <2>2, RecoveredIsRedo
<1>6. Active' = Active
  BY <1>3, Sets DEF ActiveOf
<1>. QED
  BY <1>1, <1>2, <1>4, <1>5, <1>6 DEF Same, View

LEMMA ClearStep ==
  ASSUME Inv, NEW t \in Ops, Clear(t)
  PROVE  Same
<1>1. /\ pc[t] = "clear" /\ boot = "done" /\ pc' = [pc EXCEPT ![t] = "end_commit"]
      /\ hdr' = [hdr EXCEPT !.n = 0] /\ UNCHANGED <<disk, logb, cache, boot>>
  BY DEF Clear, EraseLog, At, Up, Goto
<1>2. Recovered = cache
  BY <1>1, CommittedIsCache
<1>3. cache = disk
  <2>1. \A b \in Blocks : cache[b] = disk[b]
    BY <1>1 DEF Inv, DataInv, CommitInv, Clean
  <2>. QED
    BY SMTT(30), <2>1 DEF Inv, TypeOK
<1>4. Recovered' = disk
  <2>1. hdr'.n = 0 /\ disk' = disk /\ disk \in [Blocks -> Values]
    BY <1>1 DEF Inv, TypeOK
  <2>. QED
    BY <2>1, RedoNothing, RecoveredIsRedo
<1>5. Active' = Active
  <2>1. \A u \in Ops : pc'[u] \in Busy <=> pc[u] \in Busy
    BY <1>1 DEF Inv, TypeOK, Busy
  <2>. QED
    BY <2>1, Sets DEF ActiveOf
<1>. QED
  BY <1>1, <1>2, <1>3, <1>4, <1>5 DEF Same, View

(* Recovery may be cut short by a crash and begun again. *)
LEMMA RecoverStep ==
  ASSUME Inv, Recover
  PROVE  Same
<1>. USE DEF Inv
<1>1. CASE read_head
  <2>1. UNCHANGED <<disk, logb, hdr, pc>> /\ boot # "done" /\ boot' # "done"
    BY <1>1 DEF read_head, diskVars, opVars
  <2>. QED
    BY <2>1 DEF Same, View, Recovered, Active
<1>2. CASE RecoverInstall
  <2>1. /\ boot = "install_trans" /\ boot' # "done" /\ UNCHANGED <<logb, hdr, pc>>
        /\ disk' = [disk EXCEPT ![lhb[tail]] = logb[tail]]
    BY <1>2 DEF RecoverInstall, Install
  <2>2. tail \in 1 .. hdr.n /\ hdr.block[tail] = lhb[tail]
    BY <2>1 DEF DataInv, Booting, SameHeader
  <2>3. \A b \in Blocks : (~ \E i \in 1 .. hdr.n : hdr.block[i] = b) => disk'[b] = disk[b]
    BY <2>1, <2>2 DEF TypeOK
  <2>4. Recovered' = Recovered
    BY <2>1, <2>3 DEF Recovered
  <2>. QED
    BY <2>1, <2>4 DEF Same, View, Active
<1>3. CASE RecoverClear
  <2>1. /\ boot = "clear" /\ boot' = "done" /\ hdr' = [hdr EXCEPT !.n = 0]
        /\ UNCHANGED <<disk, logb, cache, pc>>
    BY <1>3 DEF RecoverClear, EraseLog
  <2>2. cache = disk
    <3>1. \A b \in Blocks : cache[b] = disk[b]
      BY <2>1 DEF DataInv, Booting, Clean
    <3>. QED
      BY SMTT(30), <3>1 DEF TypeOK
  <2>3. Recovered = disk
    <3>1. Distinct(hdr.n, hdr.block) /\ \A i \in 1 .. hdr.n : logb[i] = disk[hdr.block[i]]
      BY <2>1 DEF DataInv, Booting, SameHeader, Installed
    <3>. QED
      BY SMTT(30), <3>1, RedoYields, RecoveredIsRedo DEF TypeOK
  <2>4. Recovered' = disk
    <3>1. hdr'.n = 0 /\ disk' = disk /\ disk \in [Blocks -> Values]
      BY <2>1 DEF TypeOK
    <3>. QED
      BY <3>1, RedoNothing, RecoveredIsRedo
  <2>. QED
    BY <2>1, <2>2, <2>3, <2>4 DEF Same, View, Active
<1>. QED
  BY <1>1, <1>2, <1>3 DEF Recover

LEMMA CrashStep ==
  ASSUME Crash
  PROVE  Store!Crash
<1>1. UNCHANGED <<disk, logb, hdr>> /\ boot' = "read_head" /\ \A u \in Ops : pc'[u] = "user"
  BY DEF Crash, diskVars
<1>2. Active' = {}
  BY <1>1 DEF Active
<1>. QED
  BY <1>1, <1>2 DEF Store!Crash, Recovered

(* The log implements AtomicStore: whatever the disk writes and wherever a *)
(* crash hits, recovery yields the blocks as some commit found them, with  *)
(* no operation half done.                                                 *)
THEOREM LogIsAtomic == Spec => StoreSpec
<1>1. Init => Store!Init
  <2>. SUFFICES ASSUME Init PROVE Store!Init
    OBVIOUS
  <2>1. /\ disk = [b \in Blocks |-> Zero] /\ disk \in [Blocks -> Values] /\ hdr.n = 0
        /\ boot = "read_head" /\ \A u \in Ops : pc[u] = "user"
    BY LogAssumption DEF Init
  <2>2. Recovered = disk
    BY <2>1, RedoNothing, RecoveredIsRedo
  <2>3. Active = {}
    BY <2>1 DEF Active
  <2>. QED
    BY <2>1, <2>2, <2>3 DEF Store!Init
<1>2. Inv /\ [Next]_vars => [Store!Next]_<<Recovered, View, Active>>
  <2>. SUFFICES ASSUME Inv, [Next]_vars PROVE [Store!Next]_<<Recovered, View, Active>>
    OBVIOUS
  <2>1. CASE UNCHANGED vars
    BY <2>1 DEF vars, diskVars, memVars, opVars, Recovered, View, Active
  <2>2. CASE Recover
    BY <2>2, RecoverStep DEF Same
  <2>3. CASE Crash
    BY <2>3, CrashStep DEF Store!Next
  <2>4. ASSUME NEW t \in Ops, FsCall(t) \/ Work(t) PROVE [Store!Next]_<<Recovered, View, Active>>
    <3>1. CASE begin_op(t) \/ end_op(t)
      BY <3>1, BeginStep, EndStep DEF Store!Next
    <3>2. CASE write_head(t)
      BY <3>2, WriteHeadStep DEF Store!Next
    <3>3. CASE ~(begin_op(t) \/ end_op(t) \/ write_head(t))
      BY <2>4, <3>3, OperationStep, WriteLogStep, InstallStep, ClearStep DEF Work, Same
    <3>. QED
      BY <3>1, <3>2, <3>3
  <2>5. ASSUME NEW t \in Ops, NEW b \in Blocks, NEW v \in Values, Modify(t, b, v)
        PROVE [Store!Next]_<<Recovered, View, Active>>
    BY <2>5, ModifyStep DEF Store!Next
  <2>. QED
    BY <2>1, <2>2, <2>3, <2>4, <2>5 DEF Next
<1>. QED
  BY <1>1, <1>2, Invariance, PTL DEF Spec, StoreSpec, Store!Spec, View
=============================================================================
