---------------------------- MODULE ThreadsProofs ---------------------------
(***************************************************************************)
(* TypeOK holds for any sizes and any boot.  Every step of the kernel has  *)
(* one of a few shapes, among them those that fill and empty slots of the  *)
(* tables (allocproc, fork, kthread_create, wait), so ThreadInv holds in   *)
(* every reachable state.  LifeInv holds too: no wake-up of a waiter or a  *)
(* joiner is lost, every child has a parent to reap it, and a join always  *)
(* finds its target.  And what becomes of a process: it keeps a live       *)
(* thread until the last one has taken it to exit_process, and its killed  *)
(* sleepers are roused.                                                    *)
(***************************************************************************)
EXTENDS Threads, TLAPS

(* Zenon proves most of these steps; where it takes arithmetic, strings or *)
(* many functions at once, the step asks for SMT.                          *)
USE ZenonT(30)

(* The parts of a thread name. *)
LEMMA ThreadParts ==
  ASSUME NEW t \in Thread
  PROVE  t[1] \in Proc /\ t[2] \in 1 .. NTHREADS /\ t = <<t[1], t[2]>>
BY SMTT(30) DEF Thread

(* A slot number within threads[] of a process is a thread. *)
LEMMA PairIsThread ==
  ASSUME NEW p \in Proc, NEW i \in 1 .. NTHREADS
  PROVE  <<p, i>> \in Thread /\ <<p, i>>[1] = p /\ <<p, i>>[2] = i
BY DEF Thread

(* NoThread names no thread. *)
LEMMA NoThreadIsNone == NoThread \notin Thread /\ NoThread[1] \notin Proc
BY SMTT(30), SizeAssumption DEF NoThread, Thread, Proc

(* initproc is a process, and every process can have a first thread. *)
LEMMA Boundaries == initproc \in Proc /\ 1 \in 1 .. NTHREADS
BY SMTT(30), SizeAssumption DEF initproc, Proc

(* What a busy CPU runs is a thread. *)
LEMMA OnCpu ==
  ASSUME TypeOK, NEW c \in CPUs, cpu[c] # NoThread
  PROVE  cpu[c] \in Thread /\ cpu[c][1] \in Proc
BY ThreadParts DEF TypeOK

(* The channels sleep() is called with. *)
LEMMA Channels ==
  /\ NoChan \in Chan
  /\ \A p \in Proc : ProcChan(p) \in Chan
  /\ \A t \in Thread : ThreadChan(t) \in Chan
  /\ IoChan("piperead") \in Chan /\ IoChan("consoleread") \in Chan
BY DEF Chan

(* kalloc returns a page or none. *)
LEMMA KallocBoolean == Kalloc \subseteq BOOLEAN
BY DEF Kalloc

(* The state userinit leaves is well typed. *)
LEMMA TypeInit == Init => TypeOK
BY SMTT(30), SizeAssumption, BootAssumption, Channels, ThreadParts, Boundaries
DEF Init, TypeOK, ProcState, ThreadState, Location

(* Waking threads keeps the type of the thread states. *)
LEMMA WakeType ==
  ASSUME NEW ts \in [Thread -> ThreadState], NEW ch
  PROVE  wakeup1(ts, ch) \in [Thread -> ThreadState]
BY DEF wakeup1, ThreadState

(* exit_thread keeps TypeOK, whether or not its thread is the last one. *)
LEMMA ExitThreadType ==
  ASSUME TypeOK, NEW c \in CPUs, cpu[c] \in Thread, exit_thread(c)
  PROVE  TypeOK'
<1>1. UNCHANGED <<pstate, pkilled, parent, tkilled, kstack, tnum, chan, arg, cpu, halt>>
  BY DEF exit_thread, procVars, threadVars
<1>2. tstate' \in [Thread -> ThreadState] /\ pc' \in [Thread -> Location] /\ ptlock' \in CPUs \cup {NoCpu}
  <2>1. CASE Live(cpu[c][1]) = {cpu[c]}
    BY <2>1 DEF exit_thread, Goto, TypeOK, Location
  <2>2. CASE Live(cpu[c][1]) # {cpu[c]}
    <3>1. \E ts \in [Thread -> ThreadState] : Die(c, ts)
      BY <2>2, WakeType DEF exit_thread, TypeOK
    <3> QED
      BY <3>1 DEF Die, Goto, TypeOK, ThreadState, Location
  <2> QED
    BY <2>1, <2>2
<1> QED
  BY <1>1, <1>2 DEF TypeOK

(* Each step keeps TypeOK. *)
LEMMA TypeNext == TypeOK /\ [Next]_vars => TypeOK'
<1> USE Channels, Boundaries DEF TypeOK, ProcState, ThreadState, Location, Syscalls
<1> SUFFICES ASSUME TypeOK, [Next]_vars PROVE TypeOK'
  OBVIOUS
<1> USE DEF procVars, threadVars
<1>1. ASSUME NEW c \in CPUs, LeaveCpu(c) PROVE TypeOK'
  BY <1>1, OnCpu DEF LeaveCpu, At, Goto
<1>2. ASSUME NEW c \in CPUs, TimerKilled(c) PROVE TypeOK'
  BY <1>2, OnCpu DEF TimerKilled, At, Goto
<1>3. ASSUME NEW c \in CPUs, TrapOut(c) PROVE TypeOK'
  BY <1>3, OnCpu DEF TrapOut, At, Goto
<1>4. ASSUME NEW c \in CPUs, AcquireHeld(c) PROVE TypeOK'
  BY <1>4, OnCpu DEF AcquireHeld
<1>5. ASSUME NEW c \in CPUs, ExitMark(c) PROVE TypeOK'
  BY <1>5, OnCpu DEF ExitMark, Locked, At, Goto, MarkKilled, Rouse
<1>6. ASSUME NEW c \in CPUs, ExitKilled(c) PROVE TypeOK'
  BY <1>6, OnCpu, ExitThreadType DEF ExitKilled, Locked, At
<1>7. ASSUME NEW c \in CPUs, kthread_exit(c) PROVE TypeOK'
  BY <1>7, OnCpu, ExitThreadType DEF kthread_exit, Locked, At
<1>8. ASSUME NEW c \in CPUs, exit_process(c) PROVE TypeOK'
  BY <1>8, OnCpu DEF exit_process, Locked, At, Goto, Die, wakeup1
<1>9. ASSUME NEW c \in CPUs, InitExiting(c) PROVE TypeOK'
  BY <1>9, OnCpu DEF InitExiting
<1>10. ASSUME NEW c \in CPUs, kill(c) PROVE TypeOK'
  <2>1. PICK q \in Victims : /\ pkilled' = [pkilled EXCEPT ![q] = TRUE]
                             /\ MarkKilled(Slots(q)) /\ tstate' = Rouse(Slots(q))
    BY <1>10 DEF kill
  <2>2. tkilled' \in [Thread -> BOOLEAN] /\ tstate' \in [Thread -> ThreadState]
    BY <2>1 DEF MarkKilled, Rouse
  <2> QED
    BY <1>10, <2>1, <2>2, OnCpu DEF kill, Locked, At, Goto
<1>11. ASSUME NEW c \in CPUs, KillMiss(c) PROVE TypeOK'
  BY <1>11, OnCpu DEF KillMiss, Locked, At, Goto
<1>12. ASSUME NEW c \in CPUs, allocproc(c) PROVE TypeOK'
  <2>1. PICK q \in Proc, ok \in Kalloc :
          /\ pstate' = [pstate EXCEPT ![q] = "USED"]
          /\ allocthread(q, 1, "EMBRYO", ok)
          /\ arg' = [arg EXCEPT ![cpu[c]] = IF ok THEN q ELSE 0]
          /\ Goto(cpu[c], IF ok THEN "fork_copy" ELSE "trapout")
    BY <1>12 DEF allocproc
  <2>2. ok \in BOOLEAN /\ q \in Nat /\ 1 \in 0 .. NTHREADS
    BY SMTT(30), KallocBoolean, SizeAssumption DEF Proc
  <2>3. /\ tnum' \in [Proc -> 0 .. NTHREADS] /\ tstate' \in [Thread -> ThreadState]
        /\ tkilled' \in [Thread -> BOOLEAN] /\ kstack' \in [Thread -> BOOLEAN]
    BY <2>1, <2>2 DEF allocthread
  <2> QED
    BY <1>12, <2>1, <2>2, <2>3, OnCpu DEF allocproc, Locked, At, Goto
<1>13. ASSUME NEW c \in CPUs, AllocprocFull(c) PROVE TypeOK'
  BY <1>13, OnCpu DEF AllocprocFull, Locked, At, Goto
<1>14. ASSUME NEW c \in CPUs, fork(c) PROVE TypeOK'
  BY <1>14, OnCpu DEF fork, Locked, At
<1>15. ASSUME NEW c \in CPUs, ForkNoMemory(c) PROVE TypeOK'
  BY <1>15, OnCpu DEF ForkNoMemory, Locked, At, Goto
<1>16. ASSUME NEW c \in CPUs, kthread_create(c) PROVE TypeOK'
  <2> DEFINE p == cpu[c][1]  i == tnum[p] + 1
  <2>1. PICK ok \in Kalloc : /\ allocthread(p, i, "RUNNABLE", ok)
                             /\ pc' = [pc EXCEPT ![cpu[c]] = "trapout", ![<<p, i>>] = "user"]
                             /\ ptlock' = IF ok THEN NoCpu ELSE c
    BY <1>16 DEF kthread_create
  <2>2. ok \in BOOLEAN /\ p \in Proc /\ i \in 0 .. NTHREADS
    BY SMTT(30), <1>16, OnCpu, KallocBoolean, SizeAssumption DEF kthread_create, Locked, At
  <2>3. /\ tnum' \in [Proc -> 0 .. NTHREADS] /\ tstate' \in [Thread -> ThreadState]
        /\ tkilled' \in [Thread -> BOOLEAN] /\ kstack' \in [Thread -> BOOLEAN]
    BY <2>1, <2>2 DEF allocthread
  <2> QED
    BY <1>16, <2>1, <2>2, <2>3, OnCpu DEF kthread_create, Locked, At
<1>17. ASSUME NEW c \in CPUs, CreateOverrun(c) PROVE TypeOK'
  BY <1>17, OnCpu DEF CreateOverrun
<1>18. ASSUME NEW c \in CPUs, WaitReap(c) PROVE TypeOK'
  BY SMTT(30), <1>18, OnCpu DEF WaitReap, Locked, At, Goto
<1>19. ASSUME NEW c \in CPUs, WaitGiveUp(c) PROVE TypeOK'
  BY <1>19, OnCpu DEF WaitGiveUp, Locked, At, Goto
<1>20. ASSUME NEW c \in CPUs, WaitSleep(c) PROVE TypeOK'
  BY <1>20, OnCpu DEF WaitSleep, Locked, At, Goto, sleep
<1>21. ASSUME NEW c \in CPUs, JoinNoMatch(c) PROVE TypeOK'
  BY <1>21, OnCpu DEF JoinNoMatch, Locked, At, Goto
<1>22. ASSUME NEW c \in CPUs, JoinReturn(c) PROVE TypeOK'
  BY <1>22, OnCpu DEF JoinReturn, Locked, At, Goto
<1>23. ASSUME NEW c \in CPUs, JoinSleep(c) PROVE TypeOK'
  BY <1>23, OnCpu DEF JoinSleep, Locked, At, Goto, sleep, Slots
<1>24. ASSUME NEW c \in CPUs, ExecKilled(c) PROVE TypeOK'
  BY <1>24, OnCpu DEF ExecKilled
<1>25. ASSUME NEW c \in CPUs, ExecMark(c) PROVE TypeOK'
  BY <1>25, OnCpu DEF ExecMark, At, Goto, MarkKilled
<1>26. ASSUME NEW c \in CPUs, ExecWake(c) PROVE TypeOK'
  BY <1>26, OnCpu DEF ExecWake, Locked, At, Goto, Rouse
<1>27. ASSUME NEW c \in CPUs, ExecPoll(c) PROVE TypeOK'
  BY <1>27, OnCpu DEF ExecPoll, At, Goto
<1>28. ASSUME NEW c \in CPUs, ExecLoad(c) PROVE TypeOK'
  BY <1>28, OnCpu DEF ExecLoad, At, Goto
<1>29. ASSUME NEW c \in CPUs, NEW call \in InputCalls,
             InputGiveUp(c, call) \/ InputEmpty(c, call) \/ InputSleep(c, call) \/ InputDone(c, call)
      PROVE  TypeOK'
  BY SMTT(30), <1>29, OnCpu DEF InputGiveUp, InputEmpty, InputSleep, InputDone, Locked, At, Goto, sleep, Sleeper, InputCalls
<1>30. ASSUME NEW c \in CPUs, yield(c) PROVE TypeOK'
  BY <1>30, OnCpu DEF yield, Goto
<1>31. ASSUME NEW c \in CPUs, Syscall(c) PROVE TypeOK'
  BY SMTT(30), <1>31, OnCpu, CallAssumption DEF Syscall, At, Goto
<1>32. ASSUME NEW c \in CPUs, Fault(c) PROVE TypeOK'
  BY <1>32, OnCpu DEF Fault, At, Goto, MarkKilled
<1>33. ASSUME NEW c \in CPUs, NEW t \in Thread, Schedule(c, t) PROVE TypeOK'
  BY <1>33 DEF Schedule
<1>34. ASSUME NEW call \in InputCalls, wakeup(call) PROVE TypeOK'
  BY <1>34 DEF wakeup, wakeup1
<1>35. CASE UNCHANGED vars
  BY <1>35 DEF vars
<1> QED
  BY <1>1, <1>2, <1>3, <1>4, <1>5, <1>6, <1>7, <1>8, <1>9, <1>10, <1>11, <1>12, <1>13, <1>14, <1>15, <1>16, <1>17, <1>18, <1>19, <1>20, <1>21, <1>22, <1>23, <1>24, <1>25, <1>26, <1>27, <1>28, <1>29, <1>30, <1>31, <1>32, <1>33, <1>34, <1>35 DEF Next, ThreadStep, Halted

(* The model's variables keep their types for every size of the tables. *)
THEOREM TypeInvariant == Spec => []TypeOK
BY TypeInit, TypeNext, PTL DEF Spec

-----------------------------------------------------------------------------

(* ThreadInv.  Most actions have one of three shapes: a benign step moves  *)
(* threads between kernel locations and may wake sleepers; a thread parks  *)
(* (sleep, yield); a thread dies.  Each shape has its lemma.               *)

LEMMA InitInv == Init => ThreadInv
<1> SUFFICES ASSUME Init PROVE ThreadInv
  OBVIOUS
<1>1. CpuInv
  BY NoThreadIsNone DEF Init, CpuInv
<1>2. KernelInv /\ ForkInv /\ AloneInv
  BY DEF Init, KernelInv, ForkInv, AloneInv
<1>3. SlotInv
  BY SMTT(30), ThreadParts, BootAssumption, SizeAssumption DEF Init, SlotInv, Proc
<1>4. StackOwned
  BY ThreadParts DEF Init, StackOwned
<1> QED
  BY <1>1, <1>2, <1>3, <1>4 DEF ThreadInv

(* A thread that is on a CPU and not dying is RUNNING. *)
LEMMA Running ==
  ASSUME TypeOK, CpuInv, NEW c \in CPUs, cpu[c] # NoThread, pc[cpu[c]] # "zombie"
  PROVE  cpu[c] \in Thread /\ tstate[cpu[c]] = "RUNNING"
BY OnCpu DEF CpuInv

(* While ptable.lock is free no thread is dying. *)
LEMMA FreeNoZombie ==
  ASSUME TypeOK, CpuInv, ptlock = NoCpu
  PROVE  \A t \in Thread : pc[t] # "zombie"
BY NoThreadIsNone, CpuAssumption DEF CpuInv

(* Nobody is dying and the same threads run: the CPUs stay consistent. *)
LEMMA CpuKept ==
  ASSUME TypeOK, CpuInv, cpu' = cpu,
         \A u \in Thread : pc[u] # "zombie" /\ pc'[u] # "zombie",
         \A u \in Thread : tstate[u] = "RUNNING" <=> tstate'[u] = "RUNNING"
  PROVE  CpuInv'
BY SMTT(30), OnCpu DEF CpuInv

(* Thread states change at most by waking sleepers. *)
OnlyWakes(ts) ==
  \A t \in Thread : ts[t] = tstate[t] \/ (tstate[t] = "SLEEPING" /\ ts[t] = "RUNNABLE")

Siblings(t) == {u \in Thread : u[1] = t[1] /\ u # t}

(* t keeps its place, or is on a CPU and moves to an ordinary location. *)
OrdinaryMove(t) ==
  \/ pc'[t] = pc[t] /\ arg'[t] = arg[t]
  \/ /\ pc[t] # "zombie" /\ \E c \in CPUs : cpu[c] = t
     /\ pc'[t] \notin {"zombie", "fork_copy"}
     /\ pc'[t] \in {"exit_process", "exec_load"} => \A u \in Siblings(t) : tstate[u] \in Dead

(* A step whose acting thread moves ordinarily, and which wakes sleepers at  *)
(* most, preserves the invariant.                                            *)
LEMMA Benign ==
  ASSUME TypeOK, TypeOK', ThreadInv,
         OnlyWakes(tstate'), \A t \in Thread : OrdinaryMove(t),
         UNCHANGED <<pstate, tnum, kstack, cpu>>,
         ptlock' = ptlock \/ ptlock = NoCpu
  PROVE  ThreadInv'
<1> USE DEF ThreadInv
<1>1. \A t \in Thread : tstate[t] \in Dead <=> tstate'[t] \in Dead
  BY DEF OnlyWakes, Dead
<1>2. \A t \in Thread : (pc[t] = "zombie" <=> pc'[t] = "zombie")
  BY DEF OrdinaryMove
<1>3. CpuInv'
  BY SMTT(30), <1>2, NoThreadIsNone, FreeNoZombie DEF CpuInv, OnlyWakes, TypeOK
<1>4. KernelInv'
  <2> SUFFICES ASSUME NEW t \in Thread, pc'[t] \notin {"user", "zombie"}
               PROVE  tstate'[t] \in {"SLEEPING", "RUNNABLE", "RUNNING"}
    BY DEF KernelInv
  <2>1. CASE pc'[t] = pc[t]
    BY <2>1 DEF KernelInv, OnlyWakes
  <2>2. CASE pc'[t] # pc[t]
    BY SMTT(30), <2>2, Running, NoThreadIsNone DEF OrdinaryMove, OnlyWakes
  <2> QED
    BY <2>1, <2>2
<1>5. SlotInv'
  BY <1>1 DEF SlotInv, OnlyWakes
<1>6. ForkInv'
  <2>1. \A t \in Thread : pc'[t] = "fork_copy" => pc[t] = "fork_copy" /\ arg'[t] = arg[t]
    BY DEF OrdinaryMove
  <2>2. \A p \in Proc : tstate[<<p, 1>>] = "EMBRYO" => tstate'[<<p, 1>>] = "EMBRYO"
    BY PairIsThread, Boundaries DEF OnlyWakes
  <2> QED
    BY SMTT(30), <2>1, <2>2 DEF ForkInv
<1>7. AloneInv'
  BY <1>1 DEF AloneInv, OrdinaryMove, Siblings
<1>8. StackOwned'
  BY DEF StackOwned, OnlyWakes
<1> QED
  BY <1>3, <1>4, <1>5, <1>6, <1>7, <1>8

(* sleep and yield: the thread of CPU c leaves it. *)
LEMMA Park ==
  ASSUME TypeOK, TypeOK', ThreadInv,
         NEW c \in CPUs, cpu[c] # NoThread, pc[cpu[c]] # "zombie",
         NEW st \in {"SLEEPING", "RUNNABLE"}, NEW l \in Location,
         l = pc[cpu[c]] \/ l \notin {"zombie", "fork_copy", "exit_process", "exec_load"},
         tstate' = [tstate EXCEPT ![cpu[c]] = st],
         cpu' = [cpu EXCEPT ![c] = NoThread],
         pc' = [pc EXCEPT ![cpu[c]] = l],
         UNCHANGED <<pstate, tnum, kstack, arg, ptlock>>
  PROVE  ThreadInv'
<1> USE DEF ThreadInv
<1> DEFINE t == cpu[c]
<1>0. t \in Thread /\ tstate[t] = "RUNNING"
  BY Running
<1>1. \A u \in Thread : tstate[u] \in Dead <=> tstate'[u] \in Dead
  BY <1>0 DEF TypeOK, Dead
<1>2. CpuInv'
  BY SMTT(30), <1>0, NoThreadIsNone DEF CpuInv, TypeOK
<1>3. KernelInv'
  BY <1>0 DEF KernelInv, TypeOK
<1>4. SlotInv'
  BY <1>0, <1>1 DEF SlotInv, TypeOK
<1>5. ForkInv'
  <2>1. \A u \in Thread : pc'[u] = "fork_copy" => pc[u] = "fork_copy"
    BY <1>0 DEF TypeOK
  <2>2. \A u \in Thread : tstate[u] = "EMBRYO" => tstate'[u] = "EMBRYO"
    BY <1>0 DEF TypeOK
  <2>3. pstate' = pstate /\ tnum' = tnum /\ arg' = arg
    OBVIOUS
  <2> QED
    BY SMTT(30), <2>1, <2>2, <2>3, PairIsThread, Boundaries DEF ForkInv
<1>6. AloneInv'
  BY <1>0, <1>1 DEF AloneInv, TypeOK
<1>7. StackOwned'
  BY <1>0 DEF StackOwned, TypeOK
<1> QED
  BY <1>2, <1>3, <1>4, <1>5, <1>6, <1>7

(* The thread of CPU c dies; if its process dies with it, it is alone. *)
LEMMA Death ==
  ASSUME TypeOK, TypeOK', ThreadInv, ptlock = NoCpu,
         NEW c \in CPUs, cpu[c] # NoThread,
         NEW ts, ts \in [Thread -> ThreadState], OnlyWakes(ts), Die(c, ts),
         \/ pstate' = pstate
         \/ /\ pstate' = [pstate EXCEPT ![cpu[c][1]] = "ZOMBIE"]
            /\ \A u \in Siblings(cpu[c]) : tstate[u] \in Dead,
         UNCHANGED <<tnum, kstack, arg, cpu>>
  PROVE  ThreadInv'
<1> USE DEF ThreadInv
<1> DEFINE t == cpu[c]
<1>0. /\ t \in Thread /\ tstate[t] = "RUNNING" /\ t[1] \in Proc
      /\ \A u \in Thread : pc[u] # "zombie"
  BY Running, FreeNoZombie, OnCpu
<1>1. /\ tstate'[t] = "ZOMBIE_T" /\ pc'[t] = "zombie" /\ ptlock' = c
      /\ \A u \in Thread : u # t => /\ pc'[u] = pc[u]
                                     /\ \/ tstate'[u] = tstate[u]
                                        \/ tstate[u] = "SLEEPING" /\ tstate'[u] = "RUNNABLE"
  BY SMTT(30), <1>0 DEF Die, Goto, OnlyWakes, TypeOK
<1>2. \A u \in Thread : tstate[u] \in Dead => tstate'[u] = tstate[u]
  BY <1>0, <1>1 DEF Dead
<1>3. CpuInv'
  BY SMTT(30), <1>0, <1>1, NoThreadIsNone DEF CpuInv, TypeOK
<1>4. KernelInv'
  BY <1>1 DEF KernelInv
<1>5. SlotInv'
  <2> SUFFICES ASSUME NEW u \in Thread
               PROVE  /\ u[2] > tnum[u[1]] \/ pstate'[u[1]] = "UNUSED" => tstate'[u] = "UNUSED_T"
                      /\ pstate'[u[1]] = "ZOMBIE" => tstate'[u] \in Dead
    BY DEF SlotInv
  <2>1. u # t /\ tstate[u] \in Dead => tstate'[u] = tstate[u]
    BY <1>2
  <2>2. tstate[u] = "UNUSED_T" => tstate'[u] = "UNUSED_T"
    BY <1>2 DEF Dead
  <2>3. u[1] \in Proc
    BY ThreadParts
  <2>4. pstate'[u[1]] = pstate[u[1]] \/ (u[1] = t[1] /\ pstate'[u[1]] = "ZOMBIE"
                                          /\ \A v \in Siblings(t) : tstate[v] \in Dead)
    BY <2>3, <1>0 DEF TypeOK
  <2>5. u = t => tstate'[u] \in Dead
    BY <1>1 DEF Dead
  <2> QED
    BY <2>1, <2>2, <2>4, <2>5 DEF SlotInv, Siblings
<1>6. ForkInv'
  <2> SUFFICES ASSUME NEW u \in Thread, pc'[u] = "fork_copy"
               PROVE  /\ arg[u] \in Proc /\ pstate'[arg[u]] = "USED" /\ tnum[arg[u]] = 1
                      /\ tstate'[<<arg[u], 1>>] = "EMBRYO"
                      /\ \A v \in Thread : pc'[v] = "fork_copy" /\ arg[v] = arg[u] => v = u
    BY DEF ForkInv
  <2>1. u # t /\ pc[u] = "fork_copy"
    BY <1>1
  <2>2. arg[u] \in Proc /\ pstate[arg[u]] = "USED" /\ tnum[arg[u]] = 1 /\ tstate[<<arg[u], 1>>] = "EMBRYO"
    BY <2>1 DEF ForkInv
  <2>3. <<arg[u], 1>> \in Thread /\ <<arg[u], 1>>[1] = arg[u] /\ <<arg[u], 1>> # t
    BY <2>2, <1>0, PairIsThread, Boundaries
  <2>4. tstate'[<<arg[u], 1>>] = "EMBRYO"
    BY <2>2, <2>3, <1>1
  <2>5. pstate'[arg[u]] = "USED"
    BY <2>2, <2>3, <1>0 DEF TypeOK, Siblings, Dead
  <2>6. \A v \in Thread : pc'[v] = "fork_copy" => pc[v] = "fork_copy"
    BY <1>1
  <2> QED
    BY <2>1, <2>2, <2>4, <2>5, <2>6 DEF ForkInv
<1>7. AloneInv'
  BY <1>1, <1>2 DEF AloneInv, Dead
<1>8. StackOwned'
  BY SMTT(30), <1>0, <1>1 DEF StackOwned
<1> QED
  BY <1>3, <1>4, <1>5, <1>6, <1>7, <1>8

(* wakeup1 and Rouse only wake. *)
LEMMA WakeShape ==
  ASSUME TypeOK
  PROVE  /\ tstate \in [Thread -> ThreadState] /\ OnlyWakes(tstate)
         /\ \A ts \in [Thread -> ThreadState], ch \in Chan \cup {ProcChan(0)} : OnlyWakes(ts) =>
              wakeup1(ts, ch) \in [Thread -> ThreadState] /\ OnlyWakes(wakeup1(ts, ch))
         /\ \A S : OnlyWakes(Rouse(S))
<1>1. ASSUME NEW ts \in [Thread -> ThreadState], NEW ch, OnlyWakes(ts)
      PROVE  wakeup1(ts, ch) \in [Thread -> ThreadState] /\ OnlyWakes(wakeup1(ts, ch))
  BY <1>1 DEF wakeup1, OnlyWakes, ThreadState, TypeOK
<1>2. \A S : OnlyWakes(Rouse(S))
  BY DEF Rouse, OnlyWakes
<1> QED
  BY <1>1, <1>2 DEF OnlyWakes, TypeOK

(* A running thread with Live(p) = {t} has no live sibling. *)
LEMMA LastAlive ==
  ASSUME TypeOK, SlotInv, NEW t \in Thread, Live(t[1]) = {t}
  PROVE  \A u \in Siblings(t) : tstate[u] \in Dead
BY SMTT(30), ThreadParts DEF Live, Slots, Siblings, SlotInv, Dead, TypeOK

(* exit_thread, entered with the lock. *)
LEMMA ExitThreadInv ==
  ASSUME TypeOK, TypeOK', ThreadInv, ptlock = NoCpu,
         NEW c \in CPUs, cpu[c] # NoThread, exit_thread(c)
  PROVE  ThreadInv'
<1> DEFINE t == cpu[c]  p == t[1]
<1>0. t \in Thread /\ p \in Proc /\ pc[t] # "zombie"
  BY OnCpu, FreeNoZombie DEF ThreadInv
<1>1. CASE Live(p) = {t}
  <2>1. Goto(t, "exit_process") /\ UNCHANGED <<tstate, ptlock, pstate, tnum, kstack, arg, cpu>>
    BY <1>1 DEF exit_thread, procVars, threadVars
  <2>2. \A u \in Thread : OrdinaryMove(u)
    BY <1>0, <1>1, <2>1, LastAlive DEF OrdinaryMove, Goto, TypeOK, ThreadInv
  <2> QED
    BY <2>1, <2>2, Benign, WakeShape
<1>2. CASE Live(p) # {t}
  <2>1. PICK ts : /\ ts \in [Thread -> ThreadState] /\ OnlyWakes(ts) /\ Die(c, ts)
    <3> DEFINE ts0 == IF Cardinality(Live(p)) = 2 THEN wakeup1(tstate, ProcChan(p)) ELSE tstate
    <3>1. ts0 \in [Thread -> ThreadState] /\ OnlyWakes(ts0)
      BY <1>0, WakeShape, Channels
    <3>2. wakeup1(ts0, ThreadChan(t)) \in [Thread -> ThreadState] /\ OnlyWakes(wakeup1(ts0, ThreadChan(t)))
      BY <1>0, <3>1, WakeShape, Channels
    <3> QED
      BY <1>2, <3>2 DEF exit_thread
  <2>2. UNCHANGED <<pstate, tnum, kstack, arg, cpu>>
    BY DEF exit_thread, procVars, threadVars
  <2> QED
    BY <2>1, <2>2, Death
<1> QED
  BY <1>1, <1>2

(* scheduler() puts a RUNNABLE thread on an idle CPU: nothing else moves. *)
LEMMA ScheduleInv ==
  ASSUME TypeOK, ThreadInv, NEW c \in CPUs, NEW t \in Thread, Schedule(c, t)
  PROVE  ThreadInv'
<1> USE DEF Schedule, procVars, threadVars
<1>1. /\ tstate' = [tstate EXCEPT ![t] = "RUNNING"] /\ tstate[t] = "RUNNABLE"
      /\ cpu' = [cpu EXCEPT ![c] = t] /\ cpu[c] = NoThread /\ ptlock = NoCpu
      /\ UNCHANGED <<pstate, tnum, kstack, pc, arg, ptlock>>
  OBVIOUS
<1>2. \A u \in Thread : pc[u] # "zombie"
  BY <1>1, FreeNoZombie DEF ThreadInv
<1>3. \A d \in CPUs : cpu[d] # t
  BY SMTT(30), <1>1, <1>2, NoThreadIsNone DEF ThreadInv, CpuInv
<1> HIDE DEF Schedule
<1>4. CpuInv'
  BY SMTT(30), <1>1, <1>2, <1>3, NoThreadIsNone DEF ThreadInv, CpuInv, TypeOK
<1>5. KernelInv' /\ SlotInv' /\ AloneInv' /\ StackOwned'
  BY SMTT(30), <1>1 DEF ThreadInv, KernelInv, SlotInv, AloneInv, StackOwned, TypeOK, Dead
<1>6. ForkInv'
  BY SMTT(30), <1>1, PairIsThread, Boundaries DEF ThreadInv, ForkInv, TypeOK
<1> QED
  BY <1>4, <1>5, <1>6 DEF ThreadInv

(* A dying thread's CPU is given back by swtch, and ptable.lock with it. *)
LEMMA LeaveCpuInv ==
  ASSUME TypeOK, ThreadInv, NEW c \in CPUs, LeaveCpu(c)
  PROVE  ThreadInv'
<1> DEFINE t == cpu[c]
<1>1. /\ t \in Thread /\ pc[t] = "zombie" /\ tstate[t] = "ZOMBIE_T" /\ ptlock = c
      /\ cpu' = [cpu EXCEPT ![c] = NoThread] /\ pc' = [pc EXCEPT ![t] = "user"]
      /\ UNCHANGED <<pstate, tnum, tstate, kstack, arg>>
  BY OnCpu DEF LeaveCpu, At, Goto, procVars, threadVars, ThreadInv, CpuInv
<1>2. \A u \in Thread : pc[u] = "zombie" => u = t
  BY <1>1, NoThreadIsNone DEF ThreadInv, CpuInv
<1>3. CpuInv'
  BY <1>1, <1>2, NoThreadIsNone DEF ThreadInv, CpuInv, TypeOK
<1>4. KernelInv' /\ SlotInv' /\ AloneInv' /\ StackOwned' /\ ForkInv'
  BY SMTT(30), <1>1 DEF ThreadInv, KernelInv, SlotInv, AloneInv, StackOwned, ForkInv, TypeOK
<1> QED
  BY <1>3, <1>4 DEF ThreadInv

-----------------------------------------------------------------------------

(* A thread that is alive has a slot in a USED process. *)
LEMMA Alive ==
  ASSUME TypeOK, ThreadInv, NEW t \in Thread, tstate[t] \notin Dead
  PROVE  pstate[t[1]] = "USED" /\ t \in Slots(t[1]) /\ t[2] <= tnum[t[1]]
<1>1. pstate[t[1]] \in ProcState /\ t[2] \in Nat /\ tnum[t[1]] \in Nat
  BY SMTT(30), ThreadParts DEF TypeOK
<1>2. pstate[t[1]] \notin {"UNUSED", "ZOMBIE"} /\ ~(t[2] > tnum[t[1]])
  BY DEF ThreadInv, SlotInv, Dead
<1> QED
  BY SMTT(30), <1>1, <1>2 DEF ProcState, Slots

(* A step of the running thread t that changes one slot n, of process q:   *)
(* the common part of allocproc, fork and kthread_create.                  *)
Touch(t, q, n) ==
  /\ t \in Thread /\ tstate[t] = "RUNNING" /\ pc'[t] \in {"trapout", "fork_copy"}
  /\ q \in Proc /\ n \in Thread /\ n[1] = q /\ n # t /\ pc[n] = "user"
  /\ tstate[n] \in {"UNUSED_T", "EMBRYO"} /\ tstate'[n] \in {"UNUSED_T", "EMBRYO", "RUNNABLE"}
  /\ kstack'[n] <=> tstate'[n] # "UNUSED_T"
  /\ \A u \in Thread : pc[u] # "zombie"
  /\ \A u \in Thread : u # t => pc'[u] = pc[u] /\ arg'[u] = arg[u]
  /\ \A u \in Thread : u # n => tstate'[u] = tstate[u] /\ kstack'[u] = kstack[u] /\ tkilled'[u] = tkilled[u]
  /\ \A r \in Proc : r # q => pstate'[r] = pstate[r] /\ tnum'[r] = tnum[r] /\ parent'[r] = parent[r]
  /\ ptlock = NoCpu /\ cpu' = cpu /\ chan' = chan

(* q has no thread that has begun to run. *)
Nursery(q) == \A u \in Thread : u[1] = q => tstate[u] \in {"UNUSED_T", "EMBRYO"}

(* What such a step cannot disturb. *)
LEMMA TouchInv ==
  ASSUME TypeOK, ThreadInv, NEW t, NEW q, NEW n, Touch(t, q, n), Nursery(q) \/ t[1] = q
  PROVE  CpuInv' /\ KernelInv' /\ AloneInv' /\ StackOwned'
<1>1. CpuInv'
  <2>1. \A u \in Thread : tstate[u] = "RUNNING" <=> tstate'[u] = "RUNNING"
    BY DEF Touch
  <2>2. \A u \in Thread : pc[u] # "zombie" /\ pc'[u] # "zombie"
    BY SMTT(30) DEF Touch
  <2> QED
    BY <2>1, <2>2, CpuKept DEF ThreadInv, Touch
<1>2. KernelInv'
  BY SMTT(30) DEF ThreadInv, KernelInv, Touch
<1>3. AloneInv'
  <2> SUFFICES ASSUME NEW u \in Thread, NEW v \in Thread, v[1] = u[1], v # u,
                      pc'[u] \in {"exit_process", "exec_load"}
               PROVE  tstate'[v] \in Dead
    BY DEF AloneInv
  <2>1. u # t /\ pc[u] \in {"exit_process", "exec_load"}
    BY DEF Touch
  <2>2. u[1] # q
    BY SMTT(30), <2>1 DEF Touch, Nursery, ThreadInv, KernelInv, AloneInv, Dead
  <2> QED
    BY <2>1, <2>2 DEF Touch, ThreadInv, AloneInv
<1>4. StackOwned'
  BY SMTT(30) DEF ThreadInv, StackOwned, Touch
<1> QED
  BY <1>1, <1>2, <1>3, <1>4

(* t takes the UNUSED process q; its first thread n gets a stack if ok. *)
Born(t, q, n, ok) ==
  /\ Touch(t, q, n) /\ n = <<q, 1>> /\ pc[t] = "fork"
  /\ \A u \in Thread : u[1] = q => tstate[u] = "UNUSED_T"
  /\ pstate[q] = "UNUSED" /\ pstate'[q] = "USED" /\ tnum'[q] = 1
  /\ tstate'[n] = IF ok THEN "EMBRYO" ELSE "UNUSED_T"
  /\ pc'[t] = "fork_copy" => ok /\ arg'[t] = q
  /\ UNCHANGED <<parent, ptlock>>

(* allocproc takes an UNUSED process, whose threads are all UNUSED_T. *)
LEMMA AllocprocEffect ==
  ASSUME TypeOK, ThreadInv, NEW c \in CPUs, allocproc(c)
  PROVE  \E q \in Proc, n \in Thread, ok \in Kalloc : Born(cpu[c], q, n, ok)
<1> DEFINE t == cpu[c]
<1>1. PICK q \in Proc, ok \in Kalloc :
        /\ pstate[q] = "UNUSED" /\ pstate' = [pstate EXCEPT ![q] = "USED"]
        /\ allocthread(q, 1, "EMBRYO", ok)
        /\ arg' = [arg EXCEPT ![t] = IF ok THEN q ELSE 0]
        /\ Goto(t, IF ok THEN "fork_copy" ELSE "trapout")
  BY DEF allocproc
<1>2. ok \in BOOLEAN
  BY KallocBoolean
<1>3. ptlock = NoCpu /\ pc[t] = "fork" /\ t \in Thread /\ UNCHANGED <<parent, chan, cpu, ptlock>>
  BY OnCpu DEF allocproc, Locked, At
<1>4. \A u \in Thread : u[1] = q => tstate[u] = "UNUSED_T"
  BY <1>1 DEF ThreadInv, SlotInv
<1>5. tstate[t] = "RUNNING" /\ \A u \in Thread : pc[u] # "zombie"
  BY <1>3, Running, FreeNoZombie DEF ThreadInv, allocproc, Locked, At
<1>6. PICK n \in Thread : n = <<q, 1>> /\ n[1] = q /\ n[2] = 1
  <2>1. <<q, 1>> \in Thread /\ <<q, 1>>[1] = q /\ <<q, 1>>[2] = 1
    BY PairIsThread, Boundaries
  <2> QED
    BY <2>1
<1>7. n # t /\ tstate[n] = "UNUSED_T" /\ pc[n] = "user"
  BY <1>4, <1>5, <1>6 DEF ThreadInv, KernelInv
<1>8. /\ tstate'[n] = IF ok THEN "EMBRYO" ELSE "UNUSED_T"
      /\ \A u \in Thread : u # n => tstate'[u] = tstate[u]
  BY <1>1, <1>6 DEF allocthread, TypeOK
<1>9. kstack'[n] = ok /\ \A u \in Thread : u # n => kstack'[u] = kstack[u] /\ tkilled'[u] = tkilled[u]
  BY <1>1, <1>2, <1>6 DEF allocthread, TypeOK
<1>10. /\ pc'[t] = IF ok THEN "fork_copy" ELSE "trapout"
       /\ arg'[t] = IF ok THEN q ELSE 0
       /\ \A u \in Thread : u # t => pc'[u] = pc[u] /\ arg'[u] = arg[u]
  BY <1>1, <1>3 DEF Goto, TypeOK
<1>11. /\ pstate'[q] = "USED" /\ tnum'[q] = 1
       /\ \A r \in Proc : r # q => pstate'[r] = pstate[r] /\ tnum'[r] = tnum[r]
  BY <1>1 DEF allocthread, TypeOK
<1>12. Touch(t, q, n)
  BY <1>2, <1>3, <1>5, <1>6, <1>7, <1>8, <1>9, <1>10, <1>11 DEF Touch
<1> QED
  BY SMTT(30), <1>1, <1>2, <1>3, <1>4, <1>6, <1>8, <1>10, <1>11, <1>12 DEF Born

(* Taking a process keeps ThreadInv. *)
LEMMA AllocprocInv ==
  ASSUME TypeOK, ThreadInv, NEW t, NEW q \in Proc, NEW n \in Thread, NEW ok \in Kalloc, Born(t, q, n, ok)
  PROVE  ThreadInv'
<1>2. CpuInv' /\ KernelInv' /\ AloneInv' /\ StackOwned'
  BY TouchInv DEF Born, Nursery
<1>3. SlotInv'
  <2> SUFFICES ASSUME NEW u \in Thread
               PROVE  /\ u[2] > tnum'[u[1]] \/ pstate'[u[1]] = "UNUSED" => tstate'[u] = "UNUSED_T"
                      /\ pstate'[u[1]] = "ZOMBIE" => tstate'[u] \in Dead
    BY DEF SlotInv
  <2>1. CASE u[1] # q
    BY SMTT(30), <2>1, ThreadParts DEF Born, ThreadInv, SlotInv, Touch
  <2>2. CASE u[1] = q
    BY SMTT(30), <2>2 DEF Born, Touch
  <2> QED
    BY <2>1, <2>2
<1>4. ForkInv'
  <2>1. \A u \in Thread : pc[u] = "fork_copy" => arg[u] # q
    BY DEF Born, ThreadInv, ForkInv
  <2>2. \A r \in Proc : r # q => <<r, 1>> \in Thread /\ <<r, 1>> # n
    BY SMTT(30), PairIsThread, Boundaries DEF Born, Touch
  <2>3. ASSUME NEW u \in Thread, pc'[u] = "fork_copy", u # t
        PROVE  /\ arg'[u] \in Proc /\ pstate'[arg'[u]] = "USED" /\ tnum'[arg'[u]] = 1
               /\ tstate'[<<arg'[u], 1>>] = "EMBRYO" /\ pc[u] = "fork_copy"
               /\ arg'[u] = arg[u] /\ arg[u] # q
    <3>1. pc[u] = "fork_copy" /\ arg'[u] = arg[u]
      BY <2>3 DEF Born, Touch
    <3>2. /\ arg[u] \in Proc /\ pstate[arg[u]] = "USED" /\ tnum[arg[u]] = 1
          /\ tstate[<<arg[u], 1>>] = "EMBRYO" /\ arg[u] # q
      BY <2>1, <3>1 DEF ThreadInv, ForkInv
    <3> QED
      BY SMTT(30), <2>2, <3>1, <3>2 DEF Born, Touch
  <2> QED
    BY SMTT(30), <2>3 DEF Born, ThreadInv, ForkInv
<1> QED
  BY <1>2, <1>3, <1>4 DEF ThreadInv

(* What fork's second section finds: its own EMBRYO child. *)
LEMMA ForkChild ==
  ASSUME TypeOK, ThreadInv, NEW c \in CPUs, Locked(c, "fork_copy")
  PROVE  \E q \in Proc, n \in Thread :
           LET t == cpu[c] IN
           /\ t \in Thread /\ tstate[t] = "RUNNING" /\ ptlock = NoCpu /\ pc[t] = "fork_copy"
           /\ q = arg[t] /\ n = <<q, 1>> /\ n[1] = q /\ n[2] = 1 /\ n # t
           /\ pstate[q] = "USED" /\ tnum[q] = 1 /\ tstate[n] = "EMBRYO" /\ pc[n] = "user"
           /\ \A u \in Thread : u[1] = q /\ u # n => tstate[u] = "UNUSED_T"
           /\ \A u \in Thread : pc[u] # "zombie"
           /\ \A u \in Thread : pc[u] = "fork_copy" /\ arg[u] = q => u = t
<1> DEFINE t == cpu[c]  q == arg[t]
<1>1. t \in Thread /\ tstate[t] = "RUNNING" /\ ptlock = NoCpu /\ pc[t] = "fork_copy"
  BY Running DEF Locked, At, ThreadInv
<1>2. /\ q \in Proc /\ pstate[q] = "USED" /\ tnum[q] = 1 /\ tstate[<<q, 1>>] = "EMBRYO"
      /\ \A u \in Thread : pc[u] = "fork_copy" /\ arg[u] = q => u = t
  BY <1>1 DEF ThreadInv, ForkInv
<1>3. PICK n \in Thread : n = <<q, 1>> /\ n[1] = q /\ n[2] = 1
  BY SMTT(30), <1>2, PairIsThread, Boundaries
<1>4. \A u \in Thread : pc[u] # "zombie"
  BY <1>1, FreeNoZombie DEF ThreadInv
<1>5. n # t /\ pc[n] = "user"
  BY <1>1, <1>2, <1>3, <1>4 DEF ThreadInv, KernelInv
<1>6. \A u \in Thread : u[1] = q /\ u # n => tstate[u] = "UNUSED_T"
  BY SMTT(30), <1>2, <1>3, ThreadParts DEF ThreadInv, SlotInv
<1> QED
  BY <1>1, <1>2, <1>3, <1>4, <1>5, <1>6

(* t starts its EMBRYO child q, or gives it up. *)
Forked(t, q, n) ==
  /\ Touch(t, q, n) /\ n = <<q, 1>> /\ q = arg[t] /\ pc[t] = "fork_copy" /\ pc'[t] = "trapout"
  /\ pstate[q] = "USED" /\ tnum[q] = 1 /\ tstate[n] = "EMBRYO"
  /\ \A u \in Thread : u[1] = q /\ u # n => tstate[u] = "UNUSED_T"
  /\ \A u \in Thread : pc[u] = "fork_copy" /\ arg[u] = q => u = t
  /\ UNCHANGED <<tnum, arg>>
  /\ \/ pstate' = pstate /\ tstate'[n] = "RUNNABLE" /\ parent'[q] = t[1]
     \/ pstate'[q] = "UNUSED" /\ tstate'[n] = "UNUSED_T" /\ parent' = parent

(* fork's second section starts the child's only thread, or its error      *)
(* return frees it.                                                        *)
LEMMA ForkEffect ==
  ASSUME TypeOK, ThreadInv, NEW c \in CPUs, fork(c) \/ ForkNoMemory(c)
  PROVE  \E q \in Proc, n \in Thread : Forked(cpu[c], q, n)
<1> DEFINE t == cpu[c]
<1>0. Locked(c, "fork_copy")
  BY DEF fork, ForkNoMemory
<1>1. PICK q \in Proc, n \in Thread :
        /\ t \in Thread /\ tstate[t] = "RUNNING" /\ ptlock = NoCpu /\ pc[t] = "fork_copy"
        /\ q = arg[t] /\ n = <<q, 1>> /\ n[1] = q /\ n[2] = 1 /\ n # t
        /\ pstate[q] = "USED" /\ tnum[q] = 1 /\ tstate[n] = "EMBRYO" /\ pc[n] = "user"
        /\ \A u \in Thread : u[1] = q /\ u # n => tstate[u] = "UNUSED_T"
        /\ \A u \in Thread : pc[u] # "zombie"
        /\ \A u \in Thread : pc[u] = "fork_copy" /\ arg[u] = q => u = t
  BY <1>0, ForkChild
<1>2. CASE fork(c)
  <2>1. /\ tstate' = [tstate EXCEPT ![n] = "RUNNABLE"]
        /\ pc' = [pc EXCEPT ![t] = "trapout", ![n] = "user"]
        /\ parent' = [parent EXCEPT ![q] = t[1]]
        /\ UNCHANGED <<pstate, tnum, tkilled, kstack, arg, cpu, ptlock, chan>>
    BY <1>1, <1>2 DEF fork, threadVars
  <2>2. /\ tstate'[n] = "RUNNABLE" /\ \A u \in Thread : u # n => tstate'[u] = tstate[u]
        /\ pc'[t] = "trapout"
    BY <1>1, <2>1 DEF TypeOK
  <2>3. \A u \in Thread : u # t => pc'[u] = pc[u]
    BY <1>1, <2>1 DEF TypeOK
  <2>4. parent'[q] = t[1] /\ \A r \in Proc : r # q => parent'[r] = parent[r]
    BY <2>1 DEF TypeOK
  <2>5. kstack'[n]
    BY <1>1, <2>1 DEF ThreadInv, StackOwned
  <2>6. Touch(t, q, n)
    BY <1>1, <2>1, <2>2, <2>3, <2>4, <2>5 DEF Touch
  <2> QED
    BY <1>1, <1>2, <2>1, <2>2, <2>4, <2>6 DEF Forked
<1>3. CASE ForkNoMemory(c)
  <2>1. /\ tstate' = [tstate EXCEPT ![n] = "UNUSED_T"]
        /\ kstack' = [kstack EXCEPT ![n] = FALSE]
        /\ pstate' = [pstate EXCEPT ![q] = "UNUSED"]
        /\ pc' = [pc EXCEPT ![t] = "trapout"] /\ ptlock' = c
        /\ UNCHANGED <<tnum, tkilled, parent, arg, cpu, chan>>
    BY <1>1, <1>3 DEF ForkNoMemory, Goto
  <2>2. /\ tstate'[n] = "UNUSED_T" /\ \A u \in Thread : u # n => tstate'[u] = tstate[u]
        /\ pc'[t] = "trapout" /\ \A u \in Thread : u # t => pc'[u] = pc[u]
    BY <1>1, <2>1 DEF TypeOK
  <2>3. ~kstack'[n] /\ \A u \in Thread : u # n => kstack'[u] = kstack[u]
    BY <2>1 DEF TypeOK
  <2>4. pstate'[q] = "UNUSED" /\ \A r \in Proc : r # q => pstate'[r] = pstate[r]
    BY <2>1 DEF TypeOK
  <2>5. Touch(t, q, n)
    BY <1>1, <2>1, <2>2, <2>3, <2>4 DEF Touch
  <2> QED
    BY <1>1, <1>3, <2>1, <2>2, <2>4, <2>5 DEF Forked
<1> QED
  BY <1>2, <1>3 DEF Forked

(* So does starting the child, or giving it up. *)
LEMMA ForkStepInv ==
  ASSUME TypeOK, ThreadInv, NEW t, NEW q \in Proc, NEW n \in Thread, Forked(t, q, n)
  PROVE  ThreadInv'
<1>2. CpuInv' /\ KernelInv' /\ AloneInv' /\ StackOwned'
  BY TouchInv DEF Forked, Nursery
<1>3. SlotInv'
  <2> SUFFICES ASSUME NEW u \in Thread
               PROVE  /\ u[2] > tnum[u[1]] \/ pstate'[u[1]] = "UNUSED" => tstate'[u] = "UNUSED_T"
                      /\ pstate'[u[1]] = "ZOMBIE" => tstate'[u] \in Dead
    BY DEF Forked, SlotInv
  <2>1. CASE u[1] # q
    BY SMTT(30), <2>1, ThreadParts DEF Forked, ThreadInv, SlotInv, Touch
  <2>2. CASE u[1] = q
    BY SMTT(30), <2>2 DEF Forked, Touch, Dead
  <2> QED
    BY <2>1, <2>2
<1>4. ForkInv'
  <2>1. \A r \in Proc : r # q => <<r, 1>> \in Thread /\ <<r, 1>> # n
    BY SMTT(30), PairIsThread, Boundaries DEF Forked, Touch
  <2>2. \A u \in Thread : pc'[u] = "fork_copy" => pc[u] = "fork_copy" /\ arg[u] # q
    BY SMTT(30) DEF Forked, Touch
  <2> QED
    BY SMTT(30), <2>1, <2>2 DEF Forked, ThreadInv, ForkInv, Touch
<1> QED
  BY <1>2, <1>3, <1>4 DEF ThreadInv

(* t takes a slot of its own process; ptable.lock stays held unless ok. *)
Spawned(t, q, n, ok) ==
  /\ Touch(t, q, n) /\ q = t[1] /\ tnum'[q] = tnum[q] + 1 /\ n[2] = tnum'[q]
  /\ t[2] <= tnum[q] /\ pstate[q] = "USED"
  /\ pc[t] = "kthread_create" /\ pc'[t] = "trapout"
  /\ tstate[n] = "UNUSED_T" /\ tstate'[n] = IF ok THEN "RUNNABLE" ELSE "UNUSED_T"
  /\ ok \/ ptlock' # NoCpu
  /\ UNCHANGED <<pstate, parent, arg>>

(* kthread_create takes the first slot beyond t_num. *)
LEMMA CreateEffect ==
  ASSUME TypeOK, ThreadInv, NEW c \in CPUs, kthread_create(c)
  PROVE  \E q \in Proc, n \in Thread, ok \in Kalloc : Spawned(cpu[c], q, n, ok)
<1> DEFINE t == cpu[c]  q == t[1]  i == tnum[q] + 1
<1>1. PICK ok \in Kalloc : /\ allocthread(q, i, "RUNNABLE", ok)
                           /\ pc' = [pc EXCEPT ![t] = "trapout", ![<<q, i>>] = "user"]
                           /\ ptlock' = IF ok THEN NoCpu ELSE c
  BY DEF kthread_create
<1>2. /\ ok \in BOOLEAN /\ ptlock = NoCpu /\ pc[t] = "kthread_create" /\ cpu[c] # NoThread
      /\ UNCHANGED <<pstate, parent, chan, arg, cpu>> /\ i <= NTHREADS
  BY KallocBoolean DEF kthread_create, Locked, At, procVars
<1>3. t \in Thread /\ q \in Proc /\ tstate[t] = "RUNNING" /\ \A u \in Thread : pc[u] # "zombie"
  BY <1>2, Running, FreeNoZombie, OnCpu DEF ThreadInv
<1>4. i \in 1 .. NTHREADS /\ tnum[q] \in Nat
  BY SMTT(30), <1>2, <1>3, SizeAssumption DEF TypeOK
<1>5. PICK n \in Thread : n = <<q, i>> /\ n[1] = q /\ n[2] = i
  <2>1. <<q, i>> \in Thread /\ <<q, i>>[1] = q /\ <<q, i>>[2] = i
    BY SMTT(30), <1>3, <1>4, PairIsThread
  <2> QED
    BY <2>1
<1>6. pstate[q] = "USED" /\ t[2] <= tnum[q]
  BY <1>3, Alive DEF Dead
<1>7. tstate[n] = "UNUSED_T" /\ n # t /\ pc[n] = "user"
  BY SMTT(30), <1>3, <1>4, <1>5 DEF ThreadInv, SlotInv, KernelInv
<1>8. /\ tstate'[n] = IF ok THEN "RUNNABLE" ELSE "UNUSED_T"
      /\ \A u \in Thread : u # n => tstate'[u] = tstate[u]
  BY <1>1, <1>5 DEF allocthread, TypeOK
<1>9. /\ kstack'[n] = ok /\ ~tkilled'[n]
      /\ \A u \in Thread : u # n => kstack'[u] = kstack[u] /\ tkilled'[u] = tkilled[u]
  BY <1>1, <1>2, <1>5 DEF allocthread, TypeOK
<1>10. tnum'[q] = i /\ \A r \in Proc : r # q => tnum'[r] = tnum[r]
  BY <1>1, <1>3 DEF allocthread, TypeOK
<1>11. pc'[t] = "trapout" /\ \A u \in Thread : u # t => pc'[u] = pc[u]
  BY <1>1, <1>3, <1>5, <1>7 DEF TypeOK
<1>12. Touch(t, q, n)
  BY <1>2, <1>3, <1>5, <1>7, <1>8, <1>9, <1>10, <1>11 DEF Touch
<1>13. ok \/ ptlock' # NoCpu
  BY <1>1, CpuAssumption
<1> QED
  BY <1>1, <1>2, <1>3, <1>5, <1>6, <1>7, <1>8, <1>10, <1>11, <1>12, <1>13 DEF Spawned

(* A new thread keeps ThreadInv. *)
LEMMA CreateInv ==
  ASSUME TypeOK, ThreadInv, NEW t, NEW q \in Proc, NEW n \in Thread, NEW ok \in Kalloc, Spawned(t, q, n, ok)
  PROVE  ThreadInv'
<1>2. CpuInv' /\ KernelInv' /\ AloneInv' /\ StackOwned'
  BY TouchInv DEF Spawned
<1>3. SlotInv'
  <2> SUFFICES ASSUME NEW u \in Thread
               PROVE  /\ u[2] > tnum'[u[1]] \/ pstate[u[1]] = "UNUSED" => tstate'[u] = "UNUSED_T"
                      /\ pstate[u[1]] = "ZOMBIE" => tstate'[u] \in Dead
    BY DEF Spawned, SlotInv
  <2>1. tnum[q] \in Nat /\ u[2] \in Nat /\ u[1] \in Proc
    BY SMTT(30), ThreadParts DEF TypeOK
  <2>2. CASE u = n
    BY SMTT(30), <2>1, <2>2 DEF Spawned, Touch
  <2>3. CASE u # n /\ u[1] = q
    BY SMTT(30), <2>1, <2>3 DEF Spawned, ThreadInv, SlotInv, Touch
  <2>4. CASE u # n /\ u[1] # q
    BY SMTT(30), <2>1, <2>4 DEF Spawned, ThreadInv, SlotInv, Touch
  <2> QED
    BY <2>2, <2>3, <2>4
<1>4. ForkInv'
  <2>1. ASSUME NEW u \in Thread, pc'[u] = "fork_copy"
        PROVE  /\ arg[u] \in Proc /\ pstate[arg[u]] = "USED" /\ tnum'[arg[u]] = 1
               /\ tstate'[<<arg[u], 1>>] = "EMBRYO" /\ pc[u] = "fork_copy"
    <3>1. pc[u] = "fork_copy"
      BY <2>1 DEF Spawned, Touch
    <3>2. arg[u] \in Proc /\ pstate[arg[u]] = "USED" /\ tnum[arg[u]] = 1 /\ tstate[<<arg[u], 1>>] = "EMBRYO"
      BY <3>1 DEF ThreadInv, ForkInv
    <3>3. arg[u] # q
      BY SMTT(30), <3>2, ThreadParts DEF Spawned, Touch
    <3>4. <<arg[u], 1>> \in Thread /\ <<arg[u], 1>> # n
      BY <3>2, <3>3, PairIsThread, Boundaries DEF Spawned, Touch
    <3> QED
      BY <3>1, <3>2, <3>3, <3>4 DEF Spawned, Touch
  <2> QED
    BY SMTT(30), <2>1 DEF Spawned, ThreadInv, ForkInv
<1> QED
  BY <1>2, <1>3, <1>4 DEF ThreadInv

(* t reaps the ZOMBIE process q. *)
Reaped(t, q) ==
  /\ t \in Thread /\ tstate[t] = "RUNNING" /\ pc[t] = "wait" /\ pc'[t] = "trapout" /\ t[1] # q
  /\ \A u \in Thread : pc[u] # "zombie"
  /\ \A u \in Thread : u # t => pc'[u] = pc[u]
  /\ parent[q] = t[1] /\ pstate[q] = "ZOMBIE" /\ parent'[q] = 0 /\ pstate'[q] = "UNUSED"
  /\ \A r \in Proc : r # q => parent'[r] = parent[r] /\ pstate'[r] = pstate[r]
  /\ \A u \in Thread : u[1] = q => tstate[u] \in Dead /\ tstate'[u] = "UNUSED_T" /\ ~kstack'[u]
  /\ \A u \in Thread : u[1] # q => tstate'[u] = tstate[u] /\ kstack'[u] = kstack[u]
  /\ \A u \in Thread : tkilled'[u] => tkilled[u]
  /\ ptlock = NoCpu /\ UNCHANGED <<tnum, chan, arg, cpu, ptlock>>

(* wait() turns the dead threads of a ZOMBIE process into UNUSED_T ones. *)
LEMMA WaitReapEffect ==
  ASSUME TypeOK, ThreadInv, NEW c \in CPUs, WaitReap(c)
  PROVE  \E q \in Proc : Reaped(cpu[c], q)
<1> DEFINE t == cpu[c]
<1> DEFINE S(q) == {u \in Slots(q) : tstate[u] = "ZOMBIE_T"}
<1>1. PICK q \in Proc :
        /\ pstate[q] = "ZOMBIE" /\ pstate' = [pstate EXCEPT ![q] = "UNUSED"]
        /\ parent[q] = t[1] /\ parent' = [parent EXCEPT ![q] = 0]
        /\ kstack' = [u \in Thread |-> u \notin S(q) /\ kstack[u]]
        /\ tkilled' = [u \in Thread |-> u \notin S(q) /\ tkilled[u]]
        /\ tstate' = [u \in Thread |-> IF u \in S(q) THEN "UNUSED_T" ELSE tstate[u]]
  BY DEF WaitReap
<1>2. /\ ptlock = NoCpu /\ cpu[c] # NoThread /\ pc[t] = "wait"
      /\ pc' = [pc EXCEPT ![t] = "trapout"]
      /\ UNCHANGED <<tnum, chan, arg, cpu, ptlock>>
  BY DEF WaitReap, Locked, At, Goto
<1>3. /\ t \in Thread /\ tstate[t] = "RUNNING" /\ \A u \in Thread : pc[u] # "zombie"
  BY <1>2, Running, FreeNoZombie DEF ThreadInv
<1>4. \A u \in Thread : u[1] = q => tstate[u] \in Dead
  BY <1>1 DEF ThreadInv, SlotInv
<1>5. \A u \in Thread : u[1] = q => tstate'[u] = "UNUSED_T" /\ ~kstack'[u]
  <2> SUFFICES ASSUME NEW u \in Thread, u[1] = q
               PROVE  tstate'[u] = "UNUSED_T" /\ ~kstack'[u]
    OBVIOUS
  <2>1. tstate[u] \in {"UNUSED_T", "ZOMBIE_T"}
    BY <1>4 DEF Dead
  <2>2. tstate[u] = "ZOMBIE_T" => u \in S(q)
    <3>1. tstate[u] = "ZOMBIE_T" => ~(u[2] > tnum[q])
      BY DEF ThreadInv, SlotInv
    <3>2. u[2] \in Nat /\ tnum[q] \in Nat
      BY SMTT(30), ThreadParts DEF TypeOK
    <3> QED
      BY SMTT(30), <3>1, <3>2 DEF Slots
  <2>3. tstate[u] = "UNUSED_T" => ~kstack[u]
    BY DEF ThreadInv, StackOwned
  <2> QED
    BY <2>1, <2>2, <2>3, <1>1
<1>6. \A u \in Thread : u[1] # q => tstate'[u] = tstate[u] /\ kstack'[u] = kstack[u]
  BY <1>1 DEF Slots, TypeOK
<1>7. \A u \in Thread : tkilled'[u] => tkilled[u]
  BY <1>1
<1>8. t[1] # q
  BY <1>3, <1>4 DEF Dead
<1>9. /\ pc'[t] = "trapout" /\ \A u \in Thread : u # t => pc'[u] = pc[u]
  BY <1>2, <1>3 DEF TypeOK
<1>10. /\ pstate'[q] = "UNUSED" /\ parent'[q] = 0
       /\ \A r \in Proc : r # q => parent'[r] = parent[r] /\ pstate'[r] = pstate[r]
  BY <1>1 DEF TypeOK
<1> QED
  BY SMTT(30), <1>1, <1>2, <1>3, <1>4, <1>5, <1>6, <1>7, <1>8, <1>9, <1>10 DEF Reaped

(* Reaping keeps ThreadInv. *)
LEMMA WaitReapInv ==
  ASSUME TypeOK, ThreadInv, NEW t, NEW q \in Proc, Reaped(t, q)
  PROVE  ThreadInv'
<1>2. CpuInv'
  <2>1. \A u \in Thread : tstate[u] = "RUNNING" <=> tstate'[u] = "RUNNING"
    BY DEF Reaped, Dead
  <2>2. \A u \in Thread : pc[u] # "zombie" /\ pc'[u] # "zombie"
    BY DEF Reaped
  <2> QED
    BY <2>1, <2>2, CpuKept DEF Reaped, ThreadInv
<1>3. KernelInv' /\ AloneInv' /\ StackOwned'
  BY SMTT(30) DEF Reaped, ThreadInv, KernelInv, AloneInv, StackOwned, Dead
<1>4. SlotInv'
  BY SMTT(30), ThreadParts DEF Reaped, ThreadInv, SlotInv, Dead
<1>5. ForkInv'
  <2>1. \A r \in Proc : <<r, 1>> \in Thread /\ <<r, 1>>[1] = r
    BY PairIsThread, Boundaries
  <2> QED
    <3>1. \A u \in Thread : pc'[u] = "fork_copy" => pc[u] = "fork_copy"
      BY DEF Reaped
    <3>2. \A u \in Thread : pc[u] = "fork_copy" => arg[u] # q
      BY DEF Reaped, ThreadInv, ForkInv
    <3> QED
      BY SMTT(30), <2>1, <3>1, <3>2 DEF Reaped, ThreadInv, ForkInv
<1> QED
  BY <1>2, <1>3, <1>4, <1>5 DEF ThreadInv


(* The thread of CPU c moves to a location of the kernel; sleepers may     *)
(* wake.  Only four actions mark threads, and exec_wake rouses.            *)
Move(c) ==
  LET t == cpu[c] IN
  /\ t # NoThread /\ pc[t] # "zombie"
  /\ \E l \in Location \ {"zombie", "fork_copy"} :
       /\ Goto(t, l)
       /\ l \in {"exit_process", "exec_load"} => \A u \in Siblings(t) : tstate[u] \in Dead
       /\ l = "fork" => "fork" \in InitCalls \cup Calls
  /\ \A u \in Thread : u # t => arg'[u] = arg[u]
  /\ OnlyWakes(tstate')
  /\ UNCHANGED <<pstate, parent, tnum, kstack, chan, cpu>>
  /\ ptlock' = ptlock \/ ptlock = NoCpu
  /\ tkilled' = tkilled \/ ExitMark(c) \/ kill(c) \/ ExecMark(c) \/ Fault(c)
  /\ pc[t] = "exec_wake" => ExecWake(c)

(* It leaves the CPU, to sleep or to run again later at location l. *)
Leave(c, st, l) ==
  LET t == cpu[c] IN
  /\ t # NoThread /\ pc[t] # "zombie" /\ ptlock = NoCpu
  /\ st = "RUNNABLE" => (l = pc[t] \/ (l = "trapout" /\ pc[t] = "user")) /\ chan' = chan
  /\ st = "SLEEPING" => (WaitSleep(c) /\ l = "wait") \/ (JoinSleep(c) /\ l = "kthread_join")
                        \/ (l \in InputCalls /\ pc[t] = Sleeper(l))
  /\ \A u \in Thread : u # t => chan'[u] = chan[u]
  /\ tstate' = [tstate EXCEPT ![t] = st]
  /\ cpu' = [cpu EXCEPT ![c] = NoThread]
  /\ pc' = [pc EXCEPT ![t] = l]
  /\ UNCHANGED <<procVars, threadVars, arg, ptlock>>

(* Nothing happens but that sleepers wake. *)
Stir == /\ OnlyWakes(tstate')
        /\ UNCHANGED <<pstate, parent, threadVars, chan, pc, arg, cpu, ptlock>>

(* A thread in the kernel keeps its argument while another one moves. *)
LEMMA OtherArgs ==
  ASSUME TypeOK, NEW t \in Thread, NEW v, arg' = [arg EXCEPT ![t] = v]
  PROVE  \A u \in Thread : u # t => arg'[u] = arg[u]
BY DEF TypeOK

(* The system calls and traps that move their thread, and do no more than  *)
(* wake or mark others.                                                    *)
LEMMA MovingCalls ==
  ASSUME TypeOK, ThreadInv, NEW c \in CPUs,
         \/ TimerKilled(c) \/ KillMiss(c) \/ AllocprocFull(c) \/ WaitGiveUp(c)
         \/ JoinNoMatch(c) \/ JoinReturn(c) \/ ExecLoad(c)
         \/ \E call \in InputCalls : InputGiveUp(c, call) \/ InputEmpty(c, call) \/ InputDone(c, call)
  PROVE  Move(c)
<1> USE WakeShape DEF procVars, threadVars, Locked, At, Location, Syscalls
<1>1. ASSUME NEW l \in {"exit", "trapout", "piperead_sleep", "consoleread_sleep"}, Goto(cpu[c], l),
             cpu[c] # NoThread, pc[cpu[c]] \notin {"zombie", "exec_wake"},
             UNCHANGED <<procVars, threadVars, tstate, chan, arg, cpu>>,
             ptlock' = ptlock \/ ptlock = NoCpu
      PROVE  Move(c)
  BY <1>1 DEF Move
<1>2. ASSUME NEW call \in InputCalls, InputGiveUp(c, call) \/ InputEmpty(c, call) \/ InputDone(c, call)
      PROVE  Move(c)
  BY <1>1, <1>2 DEF InputGiveUp, InputEmpty, InputDone, InputCalls, Sleeper
<1>3. CASE TimerKilled(c) \/ KillMiss(c) \/ AllocprocFull(c) \/ WaitGiveUp(c)
  BY <1>1, <1>3 DEF TimerKilled, KillMiss, AllocprocFull, WaitGiveUp
<1>4. CASE JoinNoMatch(c) \/ JoinReturn(c) \/ ExecLoad(c)
  BY <1>1, <1>4 DEF JoinNoMatch, JoinReturn, ExecLoad
<1> QED
  BY <1>2, <1>3, <1>4

(* What is left to show of a call that goes to a place of no importance. *)
LEMMA MoveTo ==
  ASSUME NEW c, NEW l \in Location \ {"zombie", "fork_copy", "exit_process", "exec_load", "fork"},
         cpu[c] # NoThread, pc[cpu[c]] # "zombie", Goto(cpu[c], l), OnlyWakes(tstate'),
         UNCHANGED <<pstate, parent, tnum, kstack, chan, arg, cpu, ptlock>>,
         tkilled' = tkilled \/ ExitMark(c) \/ kill(c) \/ ExecMark(c) \/ Fault(c),
         pc[cpu[c]] = "exec_wake" => ExecWake(c)
  PROVE  Move(c)
BY DEF Move

(* The calls and traps that mark threads, wake them or look at them. *)
LEMMA MovingSignals ==
  ASSUME TypeOK, ThreadInv, NEW c \in CPUs,
         \/ TrapOut(c) \/ Syscall(c) \/ ExitMark(c) \/ kill(c) \/ Fault(c)
         \/ ExecMark(c) \/ ExecWake(c) \/ ExecPoll(c)
  PROVE  Move(c)
<1> USE DEF procVars, threadVars, Locked, At
<1> DEFINE t == cpu[c]
<1>0. t # NoThread /\ t \in Thread
  BY OnCpu DEF TrapOut, Syscall, ExitMark, kill, Fault, ExecMark, ExecWake, ExecPoll
<1>b. {"user", "trapout", "exit", "exec_wake", "exec_poll"} \subseteq
        Location \ {"zombie", "fork_copy", "exit_process", "exec_load", "fork"}
  BY SMTT(30) DEF Location, Syscalls
<1>w. OnlyWakes(tstate) /\ \A S : OnlyWakes(Rouse(S))
  BY WakeShape
<1>1. CASE TrapOut(c)
  <2>1. PICK l \in {"user", "exit"} : Goto(t, l)
    BY <1>1 DEF TrapOut
  <2>2. \A u \in Thread : u # t => arg'[u] = arg[u]
    BY <1>0, <1>1, OtherArgs DEF TrapOut
  <2>3. UNCHANGED <<procVars, threadVars, tstate, chan, cpu, ptlock>> /\ pc[t] = "trapout"
    BY <1>1 DEF TrapOut
  <2>4. OnlyWakes(tstate')
    BY <1>w, <2>3 DEF OnlyWakes
  <2> QED
    BY <1>0, <1>b, <2>1, <2>2, <2>3, <2>4 DEF Move
<1>2. CASE Syscall(c)
  <2>1. PICK call \in Syscalls : call \in InitCalls \cup Calls /\ Goto(t, IF tkilled[t] THEN "exit" ELSE call)
    BY <1>2 DEF Syscall, Program
  <2>2. (IF tkilled[t] THEN "exit" ELSE call) \in Syscalls
    BY DEF Syscalls
  <2>3. PICK l \in Syscalls : Goto(t, l) /\ (l = "fork" => "fork" \in InitCalls \cup Calls)
    BY <2>1, <2>2
  <2>4. \A u \in Thread : u # t => arg'[u] = arg[u]
    BY <1>0, <1>2, OtherArgs DEF Syscall
  <2>5. l \in Location \ {"zombie", "fork_copy", "exit_process", "exec_load"}
    BY DEF Syscalls, Location
  <2>6. UNCHANGED <<procVars, threadVars, tstate, chan, cpu, ptlock>> /\ pc[t] = "user"
    BY <1>2 DEF Syscall
  <2>7. OnlyWakes(tstate')
    BY <1>w, <2>6 DEF OnlyWakes
  <2> QED
    BY <1>0, <2>3, <2>4, <2>5, <2>6, <2>7 DEF Move
<1>3. CASE ExitMark(c)
  <2>1. /\ Goto(t, "trapout") /\ pc[t] = "exit" /\ OnlyWakes(tstate')
        /\ UNCHANGED <<pstate, parent, tnum, kstack, chan, arg, cpu, ptlock>>
    BY <1>3, <1>w DEF ExitMark
  <2> QED
    BY <1>0, <1>3, <1>b, <2>1, MoveTo
<1>4. CASE kill(c)
  <2>1. OnlyWakes(tstate')
    BY <1>4, <1>w DEF kill
  <2>2. /\ Goto(t, "trapout") /\ pc[t] = "kill"
        /\ UNCHANGED <<pstate, parent, tnum, kstack, chan, arg, cpu, ptlock>>
    BY <1>4 DEF kill
  <2> QED
    BY <1>0, <1>4, <1>b, <2>1, <2>2, MoveTo
<1>5. CASE Fault(c)
  <2>1. /\ Goto(t, "exit") /\ pc[t] = "user" /\ OnlyWakes(tstate')
        /\ UNCHANGED <<pstate, parent, tnum, kstack, chan, arg, cpu, ptlock>>
    BY <1>5, <1>w DEF Fault, OnlyWakes
  <2> QED
    BY <1>0, <1>5, <1>b, <2>1, MoveTo
<1>6. CASE ExecMark(c)
  <2>1. /\ Goto(t, "exec_wake") /\ pc[t] = "exec" /\ OnlyWakes(tstate')
        /\ UNCHANGED <<pstate, parent, tnum, kstack, chan, arg, cpu, ptlock>>
    BY <1>6, <1>w DEF ExecMark, OnlyWakes
  <2> QED
    BY <1>0, <1>6, <1>b, <2>1, MoveTo
<1>7. CASE ExecWake(c)
  <2>1. /\ Goto(t, "exec_poll") /\ pc[t] = "exec_wake" /\ OnlyWakes(tstate')
        /\ UNCHANGED <<pstate, parent, tnum, kstack, chan, arg, cpu, ptlock>> /\ tkilled' = tkilled
    BY <1>7, <1>w DEF ExecWake
  <2> QED
    BY <1>0, <1>7, <1>b, <2>1, MoveTo
<1>8. CASE ExecPoll(c)
  <2>1. (\A u \in Others(t) : tstate[u] \in Dead) => \A u \in Siblings(t) : tstate[u] \in Dead
    BY SMTT(30), <1>0, ThreadParts DEF Siblings, Others, Slots, ThreadInv, SlotInv, Dead, TypeOK
  <2>2. PICK l \in {"exec_load", "exec_wake"} :
          Goto(t, l) /\ (l = "exec_load" => \A u \in Others(t) : tstate[u] \in Dead)
    BY <1>8 DEF ExecPoll
  <2>3. UNCHANGED <<procVars, threadVars, tstate, chan, arg, cpu, ptlock>> /\ pc[t] = "exec_poll"
    BY <1>8 DEF ExecPoll
  <2>4. OnlyWakes(tstate')
    BY <1>w, <2>3 DEF OnlyWakes
  <2>5. l \in Location \ {"zombie", "fork_copy", "exit_process", "fork"}
    BY DEF Location
  <2> QED
    BY <1>0, <2>1, <2>2, <2>3, <2>4, <2>5 DEF Move
<1> QED
  BY <1>1, <1>2, <1>3, <1>4, <1>5, <1>6, <1>7, <1>8

(* sleep() and yield() *)
LEMMA Leaving ==
  ASSUME TypeOK, ThreadInv, NEW c \in CPUs,
         \/ WaitSleep(c) \/ JoinSleep(c) \/ yield(c)
         \/ \E call \in InputCalls : InputSleep(c, call)
  PROVE  \E st \in {"SLEEPING", "RUNNABLE"}, l \in Location : Leave(c, st, l)
<1> USE DEF procVars, threadVars, Locked, At
<1> DEFINE t == cpu[c]
<1>0. t # NoThread /\ t \in Thread /\ pc[t] # "zombie" /\ pc[t] \in Location /\ ptlock = NoCpu
  BY OnCpu, FreeNoZombie DEF WaitSleep, JoinSleep, yield, InputSleep, ThreadInv, TypeOK
<1>1. CASE WaitSleep(c)
  <2>1. Leave(c, "SLEEPING", "wait")
    BY <1>0, <1>1 DEF WaitSleep, sleep, Goto, Leave, TypeOK
  <2> QED
    BY <2>1 DEF Location, Syscalls
<1>2. CASE JoinSleep(c)
  <2>1. Leave(c, "SLEEPING", "kthread_join")
    BY <1>0, <1>2 DEF JoinSleep, sleep, Goto, Leave, TypeOK
  <2> QED
    BY <2>1 DEF Location, Syscalls
<1>3. CASE yield(c)
  <2>1. CASE pc[t] = "user"
    <3>1. Leave(c, "RUNNABLE", "trapout")
      BY <1>0, <1>3, <2>1 DEF yield, Goto, Leave
    <3> QED
      BY <3>1 DEF Location
  <2>2. CASE pc[t] # "user"
    <3>1. Leave(c, "RUNNABLE", pc[t])
      BY <1>0, <1>3, <2>2 DEF yield, Goto, Leave
    <3> QED
      BY <1>0, <3>1
  <2> QED
    BY <2>1, <2>2
<1>4. ASSUME NEW call \in InputCalls, InputSleep(c, call)
      PROVE  \E st \in {"SLEEPING", "RUNNABLE"}, l \in Location : Leave(c, st, l)
  <2>1. Leave(c, "SLEEPING", call)
    BY <1>0, <1>4 DEF InputSleep, sleep, Goto, Leave, TypeOK
  <2> QED
    BY <2>1 DEF Location, Syscalls, InputCalls
<1> QED
  BY <1>1, <1>2, <1>3, <1>4

(* The steps that remain; halting changes nothing else. *)
LEMMA Stirring ==
  ASSUME TypeOK,
         \/ \E c \in CPUs : AcquireHeld(c) \/ InitExiting(c) \/ CreateOverrun(c) \/ ExecKilled(c)
         \/ \E call \in InputCalls : wakeup(call)
         \/ UNCHANGED vars
  PROVE  Stir
<1> USE DEF procVars, threadVars, Stir
<1>1. OnlyWakes(tstate) /\ \A call \in InputCalls : OnlyWakes(wakeup1(tstate, IoChan(call)))
  BY WakeShape, Channels DEF InputCalls
<1>2. ASSUME NEW call \in InputCalls, wakeup(call) PROVE Stir
  BY <1>1, <1>2 DEF wakeup
<1>3. ASSUME NEW c \in CPUs, AcquireHeld(c) \/ InitExiting(c) \/ CreateOverrun(c) \/ ExecKilled(c)
      PROVE  Stir
  BY <1>1, <1>3 DEF AcquireHeld, InitExiting, CreateOverrun, ExecKilled
<1>4. CASE UNCHANGED vars
  BY <1>1, <1>4 DEF vars
<1> QED
  BY <1>2, <1>3, <1>4

(* A killed thread in exit(), or one in kthread_exit. *)
Exits(c) == ptlock = NoCpu /\ cpu[c] # NoThread /\ pc[cpu[c]] \in {"exit", "kthread_exit"} /\ exit_thread(c)

(* The classification: what the tables may see in one step. *)
StepShape ==
  \/ Stir
  \/ \E c \in CPUs :
       \/ Move(c) \/ LeaveCpu(c) \/ Exits(c) \/ exit_process(c)
       \/ \E q \in Proc, n \in Thread, ok \in Kalloc : Born(cpu[c], q, n, ok) \/ Spawned(cpu[c], q, n, ok)
       \/ \E q \in Proc, n \in Thread : Forked(cpu[c], q, n)
       \/ \E q \in Proc : Reaped(cpu[c], q)
       \/ \E st \in {"SLEEPING", "RUNNABLE"}, l \in Location : Leave(c, st, l)
       \/ \E t \in Thread : Schedule(c, t)

LEMMA Shapes == ASSUME TypeOK, ThreadInv, [Next]_vars PROVE StepShape
<1>1. ASSUME NEW c \in CPUs, ThreadStep(c) PROVE StepShape
  <2>1. ExitKilled(c) \/ kthread_exit(c) => Exits(c)
    BY DEF ExitKilled, kthread_exit, Locked, At, Exits
  <2> QED
    BY <1>1, <2>1, MovingCalls, MovingSignals, Leaving, Stirring, AllocprocEffect, ForkEffect,
       CreateEffect, WaitReapEffect DEF ThreadStep, StepShape
<1>2. ASSUME NEW c \in CPUs, yield(c) \/ Syscall(c) \/ Fault(c)
                            \/ (\E call \in InputCalls : InputDone(c, call))
                            \/ \E t \in Thread : Schedule(c, t)
      PROVE  StepShape
  BY <1>2, MovingCalls, MovingSignals, Leaving DEF StepShape
<1>3. CASE \E call \in InputCalls : wakeup(call)
  BY <1>3, Stirring DEF StepShape
<1>4. CASE UNCHANGED vars
  BY <1>4, Stirring DEF StepShape
<1> QED
  BY <1>1, <1>2, <1>3, <1>4 DEF Next, Halted

(* exit_process ends its thread and wakes waiters. *)
LEMMA ExitProcessDeath ==
  ASSUME TypeOK, NEW c \in CPUs, exit_process(c)
  PROVE  /\ cpu[c] # NoThread /\ cpu[c] \in Thread /\ cpu[c][1] \in Proc /\ ptlock = NoCpu
         /\ \E ts \in [Thread -> ThreadState] : OnlyWakes(ts) /\ Die(c, ts)
<1> DEFINE p == cpu[c][1]
           ts0 == wakeup1(tstate, ProcChan(parent[p]))
           ts1 == IF \E q \in {r \in Proc : parent[r] = p} : pstate[q] = "ZOMBIE"
                  THEN wakeup1(ts0, ProcChan(initproc)) ELSE ts0
<1>1. cpu[c] # NoThread /\ cpu[c] \in Thread /\ p \in Proc /\ ptlock = NoCpu
  BY OnCpu DEF exit_process, Locked, At
<1>2. ts0 \in [Thread -> ThreadState] /\ OnlyWakes(ts0)
  <2>1. parent[p] \in Proc \cup {0}
    BY <1>1 DEF TypeOK
  <2> QED
    BY <2>1, WakeShape, Channels
<1>3. ts1 \in [Thread -> ThreadState] /\ OnlyWakes(ts1)
  BY <1>2, WakeShape, Channels, Boundaries
<1>4. Die(c, ts1)
  BY DEF exit_process
<1> QED
  BY <1>1, <1>3, <1>4

(* exit_thread ends its thread, unless it is the last one alive. *)
LEMMA ExitsDeath ==
  ASSUME TypeOK, ThreadInv, NEW c \in CPUs, Exits(c)
  PROVE  LET t == cpu[c] IN
         /\ t \in Thread /\ t[1] \in Proc /\ tstate[t] = "RUNNING" /\ UNCHANGED <<procVars, threadVars, chan, arg, cpu>>
         /\ \/ Live(t[1]) = {t} /\ Goto(t, "exit_process") /\ UNCHANGED <<tstate, ptlock>>
            \/ Live(t[1]) # {t} /\ \E ts \in [Thread -> ThreadState] : OnlyWakes(ts) /\ Die(c, wakeup1(ts, ThreadChan(t)))
<1> DEFINE t == cpu[c]
           ts0 == IF Cardinality(Live(t[1])) = 2 THEN wakeup1(tstate, ProcChan(t[1])) ELSE tstate
<1>1. t \in Thread /\ t[1] \in Proc /\ tstate[t] = "RUNNING"
  BY Running, OnCpu DEF Exits, ThreadInv
<1>2. ts0 \in [Thread -> ThreadState] /\ OnlyWakes(ts0)
  BY <1>1, WakeShape, Channels
<1>3. CASE Live(t[1]) = {t}
  BY <1>1, <1>3 DEF Exits, exit_thread
<1>4. CASE Live(t[1]) # {t}
  <2>1. Die(c, wakeup1(ts0, ThreadChan(t))) /\ UNCHANGED <<procVars, threadVars, chan, arg, cpu>>
    BY <1>4 DEF Exits, exit_thread
  <2> HIDE DEF ts0
  <2> QED
    BY <1>1, <1>2, <1>4, <2>1
<1> QED
  BY <1>3, <1>4

(* A thread asleep after the step slept before it, at the same place; or   *)
(* it has just gone to sleep, for a good reason.                           *)
SameSleep(u) == tstate[u] = "SLEEPING" /\ pc'[u] = pc[u] /\ chan'[u] = chan[u] /\ arg'[u] = arg[u]

GoodSleep(u) ==
  \/ pc'[u] \notin {"wait", "kthread_join"}
  \/ pc'[u] = "wait" /\ chan'[u] = ProcChan(u[1]) /\ HaveKids(u[1]) /\ NoZombieChild(u[1])
  \/ pc'[u] = "kthread_join" /\ chan'[u] = ThreadChan(Target(u)) /\ arg'[u] = arg[u]
     /\ Target(u) \in Live(u[1])

(* The step creates, kills and reaps nobody. *)
Calm ==
  /\ UNCHANGED <<pstate, parent, tnum>>
  /\ \A u \in Thread :
       /\ \/ tstate'[u] = tstate[u]
          \/ {tstate[u], tstate'[u]} \subseteq {"SLEEPING", "RUNNABLE", "RUNNING"}
       /\ tstate'[u] = "SLEEPING" => SameSleep(u) \/ GoodSleep(u)
       /\ pc'[u] = "fork_copy" => pc[u] = "fork_copy" /\ arg'[u] = arg[u]
       /\ pc'[u] = "zombie" => pc[u] = "zombie"
  /\ ptlock' = ptlock \/ ptlock = NoCpu \/ \E v \in Thread : pc[v] = "zombie"

(* Most shapes are calm. *)
LEMMA CalmShapes ==
  ASSUME TypeOK, ThreadInv, NEW c \in CPUs,
         \/ Stir \/ Move(c) \/ LeaveCpu(c)
         \/ \E st \in {"SLEEPING", "RUNNABLE"}, l \in Location : Leave(c, st, l)
         \/ \E t \in Thread : Schedule(c, t)
  PROVE  Calm
<1> USE DEF procVars, threadVars
<1>1. CASE Stir
  BY <1>1 DEF Stir, Calm, OnlyWakes, SameSleep
<1>2. CASE Move(c)
  <2>1. cpu[c] \in Thread /\ tstate[cpu[c]] = "RUNNING"
    BY <1>2, Running DEF Move, ThreadInv
  <2> QED
    BY <1>2, <2>1 DEF Move, Goto, Calm, OnlyWakes, SameSleep, TypeOK
<1>3. CASE LeaveCpu(c)
  <2>1. cpu[c] \in Thread /\ pc[cpu[c]] = "zombie"  /\ tstate[cpu[c]] = "ZOMBIE_T"
    BY <1>3, OnCpu DEF LeaveCpu, At, ThreadInv, CpuInv
  <2> QED
    BY <1>3, <2>1 DEF LeaveCpu, Goto, Calm, SameSleep, TypeOK
<1>4. ASSUME NEW st \in {"SLEEPING", "RUNNABLE"}, NEW l \in Location, Leave(c, st, l)
      PROVE  Calm
  <2> DEFINE t == cpu[c]
  <2>1. t \in Thread /\ tstate[t] = "RUNNING"
    BY <1>4, Running DEF Leave, ThreadInv
  <2>2. st = "SLEEPING" => GoodSleep(t)
    BY <1>4, <2>1 DEF Leave, GoodSleep, WaitSleep, JoinSleep, sleep, Live, InputCalls, TypeOK
  <2> HIDE DEF t
  <2>3. \A u \in Thread : u # t => pc'[u] = pc[u] /\ chan'[u] = chan[u] /\ arg'[u] = arg[u] /\ tstate'[u] = tstate[u]
    BY <1>4, <2>1 DEF Leave, TypeOK, t
  <2>4. tstate'[t] = st /\ (pc'[t] \notin {"fork_copy", "zombie"} \/ (pc'[t] = pc[t] /\ arg' = arg))
    BY <1>4, <2>1 DEF Leave, TypeOK, t, InputCalls
  <2> QED
    BY SMTT(30), <1>4, <2>1, <2>2, <2>3, <2>4 DEF Leave, Calm, SameSleep, TypeOK
<1>5. ASSUME NEW t \in Thread, Schedule(c, t) PROVE Calm
  BY SMTT(30), <1>5 DEF Schedule, Calm, SameSleep, TypeOK
<1> QED
  BY <1>1, <1>2, <1>3, <1>4, <1>5

(* Every step of the kernel keeps ThreadInv. *)
LEMMA InvNext == TypeOK /\ TypeOK' /\ ThreadInv /\ [Next]_vars => ThreadInv'
<1> SUFFICES ASSUME TypeOK, TypeOK', ThreadInv, [Next]_vars PROVE ThreadInv'
  OBVIOUS
<1> USE DEF procVars, threadVars
<1>1. CASE Stir
  BY <1>1, Benign DEF Stir, OrdinaryMove
<1>2. ASSUME NEW c \in CPUs, Move(c) PROVE ThreadInv'
  <2>1. cpu[c] \in Thread
    BY <1>2, OnCpu DEF Move
  <2>2. \A u \in Thread : OrdinaryMove(u)
    BY <1>2, <2>1 DEF Move, OrdinaryMove, Goto, TypeOK
  <2> QED
    BY <1>2, <2>2, Benign DEF Move
<1>3. ASSUME NEW c \in CPUs, NEW st \in {"SLEEPING", "RUNNABLE"}, NEW l \in Location, Leave(c, st, l)
      PROVE  ThreadInv'
  BY <1>3, Park DEF Leave, InputCalls
<1>4. ASSUME NEW c \in CPUs, exit_process(c) PROVE ThreadInv'
  <2>1. \A u \in Siblings(cpu[c]) : tstate[u] \in Dead
    BY <1>4, OnCpu DEF exit_process, Locked, At, ThreadInv, AloneInv, Siblings
  <2>2. pstate' = [pstate EXCEPT ![cpu[c][1]] = "ZOMBIE"] /\ UNCHANGED <<tnum, kstack, arg, cpu>>
    BY <1>4 DEF exit_process
  <2> QED
    BY <1>4, <2>1, <2>2, ExitProcessDeath, Death
<1> QED
  BY <1>1, <1>2, <1>3, <1>4, Shapes, LeaveCpuInv, AllocprocInv, ForkStepInv,
     CreateInv, WaitReapInv, ExitThreadInv, ScheduleInv DEF StepShape, Exits

(* The kernel's bookkeeping of threads (CPUs, states, t_num, the embryo of
   a fork, lone threads, kernel stacks) is consistent in every reachable
   state: each ptable.lock section of proc.c and exec.c preserves it. *)
THEOREM ThreadInvariant == Spec => [](TypeOK /\ ThreadInv)
BY TypeInit, TypeNext, InitInv, InvNext, PTL DEF Spec

(* No thread's kernel stack is ever in use on two CPUs, whatever the mix   *)
(* of forks, exits, kills, execs, faults, sleeps and allocation failures.  *)
THEOREM OneCpu == Spec => []OneCpuPerThread
<1>1. TypeOK /\ ThreadInv => OneCpuPerThread
  BY SMTT(30), NoThreadIsNone DEF ThreadInv, CpuInv, OneCpuPerThread
<1> QED
  BY <1>1, ThreadInvariant, PTL

(* A process that wait() may reap has no thread that can still run, and    *)
(* none on a CPU without ptable.lock.                                      *)
THEOREM ZombiesAreDead == Spec => []ZombieIsDead
<1>1. TypeOK /\ ThreadInv => ZombieIsDead
  <2> SUFFICES ASSUME TypeOK, ThreadInv, NEW p \in Proc, pstate[p] # "USED"
               PROVE  /\ \A t \in Thread : t[1] = p => tstate[t] \in Dead
                      /\ \A c \in CPUs : cpu[c][1] = p => ptlock = c
    BY DEF ZombieIsDead
  <2>1. \A t \in Thread : t[1] = p => tstate[t] \in Dead
    BY DEF ThreadInv, SlotInv, Dead, TypeOK, ProcState
  <2>2. ASSUME NEW c \in CPUs, cpu[c][1] = p PROVE ptlock = c
    BY <2>1, <2>2, NoThreadIsNone, OnCpu DEF ThreadInv, CpuInv, Dead
  <2> QED
    BY <2>1, <2>2
<1> QED
  BY <1>1, ThreadInvariant, PTL

(* wait() frees each kernel stack exactly once, and only of dead threads.  *)
THEOREM StacksOwned == Spec => []StackOwned
<1>1. TypeOK /\ ThreadInv => StackOwned
  BY DEF ThreadInv
<1> QED
  BY <1>1, ThreadInvariant, PTL

(* exec replaces the address space only when no sibling is alive.          *)
THEOREM ExecIsAlone == Spec => []ExecAlone
<1>1. TypeOK /\ ThreadInv => ExecAlone
  BY DEF ThreadInv, AloneInv, ExecAlone, Others, Slots
<1> QED
  BY <1>1, ThreadInvariant, PTL

-----------------------------------------------------------------------------

(* A calm step keeps LifeInv. *)
LEMMA CalmLife ==
  ASSUME TypeOK, LifeInv, Calm PROVE LifeInv'
<1> USE DEF LifeInv
<1>1. \A u \in Thread : /\ tstate'[u] \in Dead <=> tstate[u] \in Dead
                        /\ tstate'[u] = "UNUSED_T" <=> tstate[u] = "UNUSED_T"
                        /\ tstate'[u] = "EMBRYO" <=> tstate[u] = "EMBRYO"
  BY DEF Calm, Dead
<1>2. \A p : Slots(p)' = Slots(p) /\ Live(p)' = Live(p)
  <2>1. \A p : Slots(p)' = Slots(p)
    BY DEF Slots, Calm
  <2> QED
    BY <1>1, <2>1 DEF Live, Slots
<1>3. ChanInv'
  BY DEF ChanInv, Calm, SameSleep, GoodSleep, Target
<1>4. NoLostJoin'
  BY <1>2 DEF NoLostJoin, Calm, SameSleep, GoodSleep, Target
<1>5. NoLostWait'
  <2>1. \A p : HaveKids(p)' = HaveKids(p) /\ NoZombieChild(p)' = NoZombieChild(p)
    BY DEF Calm, HaveKids, NoZombieChild
  <2> QED
    BY <2>1 DEF NoLostWait, Calm, SameSleep, GoodSleep
<1>6. FamilyInv' /\ ChildHasParent'
  <2>1. UNCHANGED <<pstate, parent>>
    BY DEF Calm
  <2> QED
    BY SMTT(30), <1>1, <2>1 DEF FamilyInv, ChildHasParent, Calm
<1>7. HoleInv'
  BY <1>1, <1>2 DEF HoleInv, Calm
<1> QED
  BY <1>3, <1>4, <1>5, <1>6, <1>7

(* While ptable.lock is free, the slots of a living process are all used. *)
LEMMA NoHole ==
  ASSUME HoleInv, ptlock = NoCpu, NEW t \in Thread, tstate[t] \notin Dead,
         NEW u \in Thread, u \in Slots(t[1])
  PROVE  tstate[u] # "UNUSED_T"
BY DEF HoleInv

(* A thread dies that no sleeper joins: the joins and the slots stay fine. *)
LEMMA DeathLife ==
  ASSUME TypeOK, ThreadInv, LifeInv, ptlock = NoCpu,
         NEW c \in CPUs, cpu[c] # NoThread,
         NEW ts, ts \in [Thread -> ThreadState], OnlyWakes(ts), Die(c, ts),
         UNCHANGED <<tnum, chan, arg>>,
         \A u \in Thread : ts[u] = "SLEEPING" /\ pc[u] = "kthread_join" => Target(u) # cpu[c]
  PROVE  /\ ChanInv' /\ NoLostJoin' /\ HoleInv'
         /\ cpu[c] \in Thread /\ tstate[cpu[c]] = "RUNNING"
         /\ tstate'[cpu[c]] = "ZOMBIE_T" /\ pc'[cpu[c]] = "zombie"
         /\ \A u \in Thread : u # cpu[c] => /\ pc'[u] = pc[u] /\ tstate'[u] = ts[u]
                                            /\ \/ tstate'[u] = tstate[u]
                                               \/ tstate[u] = "SLEEPING" /\ tstate'[u] = "RUNNABLE"
<1> DEFINE t == cpu[c]
<1>0. t \in Thread /\ tstate[t] = "RUNNING"
  BY Running, FreeNoZombie, OnCpu DEF ThreadInv
<1>1. /\ tstate'[t] = "ZOMBIE_T" /\ pc'[t] = "zombie" /\ ptlock' = c
      /\ \A u \in Thread : u # t => pc'[u] = pc[u] /\ tstate'[u] = ts[u]
  BY <1>0 DEF Die, Goto, TypeOK
<1>2. \A u \in Thread : u # t => \/ tstate'[u] = tstate[u]
                                 \/ tstate[u] = "SLEEPING" /\ tstate'[u] = "RUNNABLE"
  BY <1>1 DEF OnlyWakes
<1>3. ChanInv'
  BY <1>1, <1>2 DEF LifeInv, ChanInv, Target
<1>4. NoLostJoin'
  <2> SUFFICES ASSUME NEW u \in Thread, tstate'[u] = "SLEEPING", pc'[u] = "kthread_join"
               PROVE  Target(u)' \in Live(u[1])'
    BY DEF NoLostJoin
  <2>1. u # t /\ tstate[u] = "SLEEPING" /\ pc[u] = "kthread_join" /\ ts[u] = "SLEEPING"
    BY <1>1, <1>2
  <2>2. Target(u) \in Live(u[1]) /\ Target(u) # t /\ Target(u)' = Target(u)
    BY <2>1 DEF LifeInv, NoLostJoin, Target
  <2>3. Target(u) \in Thread /\ Target(u) \in Slots(u[1])'
    BY <2>2 DEF Live, Slots
  <2>4. tstate'[Target(u)] \notin Dead
    BY <2>2, <2>3, <1>2 DEF Live, Dead
  <2> QED
    BY <2>2, <2>3, <2>4 DEF Live
<1>5. HoleInv'
  <2> SUFFICES ASSUME NEW u \in Thread, NEW v \in Thread, tstate'[u] \notin Dead,
                      v \in Slots(u[1])', tstate'[v] = "UNUSED_T"
               PROVE  FALSE
    BY DEF HoleInv
  <2>1. tstate[u] \notin Dead /\ tstate[v] = "UNUSED_T" /\ v \in Slots(u[1])
    BY <1>0, <1>1, <1>2 DEF Dead, Slots
  <2> QED
    BY <2>1, NoHole DEF LifeInv
<1> QED
  BY <1>0, <1>1, <1>2, <1>3, <1>4, <1>5

(* A sleeper is in reach of wakeup1. *)
LEMMA Woken ==
  ASSUME TypeOK, ThreadInv, NEW ts, OnlyWakes(ts), NEW ch, NEW u \in Thread
  PROVE  wakeup1(ts, ch)[u] = "SLEEPING" => tstate[u] = "SLEEPING" /\ ts[u] = "SLEEPING" /\ chan[u] # ch
BY Alive DEF wakeup1, OnlyWakes, Dead

(* exit_thread: its joiners are woken; other processes do not notice. *)
LEMMA ExitsLife ==
  ASSUME TypeOK, ThreadInv, LifeInv, NEW c \in CPUs, Exits(c)
  PROVE  LifeInv'
<1> USE DEF procVars, threadVars
<1> DEFINE t == cpu[c]
<1>0. /\ t \in Thread /\ tstate[t] = "RUNNING" /\ ptlock = NoCpu /\ cpu[c] # NoThread
      /\ UNCHANGED <<pstate, parent, tnum, chan, arg>>
  BY ExitsDeath DEF Exits
<1>1. CASE Goto(t, "exit_process") /\ UNCHANGED <<tstate, ptlock>>
  <2>1. Calm
    BY <1>0, <1>1 DEF Calm, Goto, SameSleep, TypeOK
  <2> QED
    BY <2>1, CalmLife
<1>2. ASSUME NEW ts0 \in [Thread -> ThreadState], OnlyWakes(ts0), Die(c, wakeup1(ts0, ThreadChan(t)))
      PROVE  LifeInv'
  <2> DEFINE ts1 == wakeup1(ts0, ThreadChan(t))
  <2>1. ts1 \in [Thread -> ThreadState] /\ OnlyWakes(ts1)
    BY <1>0, <1>2, WakeShape, Channels
  <2>2. ASSUME NEW u \in Thread, ts1[u] = "SLEEPING", pc[u] = "kthread_join" PROVE Target(u) # t
    <3>1. tstate[u] = "SLEEPING" /\ chan[u] # ThreadChan(t)
      BY SMTT(30), <1>2, <2>2, Woken
    <3> QED
      BY <2>2, <3>1 DEF LifeInv, ChanInv
  <2> HIDE DEF ts1
  <2>3. /\ ChanInv' /\ NoLostJoin' /\ HoleInv' /\ tstate'[t] = "ZOMBIE_T" /\ pc'[t] = "zombie"
        /\ \A u \in Thread : u # t => /\ pc'[u] = pc[u]
                                      /\ \/ tstate'[u] = tstate[u]
                                         \/ tstate[u] = "SLEEPING" /\ tstate'[u] = "RUNNABLE"
    <3>1. Die(c, ts1)
      BY <1>2 DEF ts1
    <3> QED
      BY <1>0, <2>1, <2>2, <3>1, DeathLife
  <2>4. NoLostWait'
    BY SMTT(30), <1>0, <2>3 DEF LifeInv, NoLostWait, HaveKids, NoZombieChild
  <2>5. FamilyInv' /\ ChildHasParent'
    BY SMTT(30), <1>0, <2>3 DEF LifeInv, FamilyInv, ChildHasParent, Dead
  <2> QED
    BY <2>3, <2>4, <2>5 DEF LifeInv
<1> QED
  BY <1>1, <1>2, ExitsDeath

(* exit_process: the parent is woken, the children go to initproc, which   *)
(* is woken if one of them is a zombie.                                    *)
LEMMA ExitProcessLife ==
  ASSUME TypeOK, ThreadInv, LifeInv, NEW c \in CPUs, exit_process(c)
  PROVE  LifeInv'
<1> USE DEF procVars, threadVars
<1> DEFINE t == cpu[c]  p == t[1]
           kids == {r \in Proc : parent[r] = p}
           ts0 == wakeup1(tstate, ProcChan(parent[p]))
           ts1 == IF \E q \in kids : pstate[q] = "ZOMBIE"
                  THEN wakeup1(ts0, ProcChan(initproc)) ELSE ts0
<1>0. /\ t \in Thread /\ p \in Proc /\ tstate[t] = "RUNNING" /\ ptlock = NoCpu /\ cpu[c] # NoThread
      /\ pc[t] = "exit_process" /\ p # initproc /\ initproc \in Proc
  BY Running, OnCpu, Boundaries DEF exit_process, Locked, At, ThreadInv
<1>1. \A u \in Thread : u[1] = p /\ u # t => tstate[u] \in Dead
  BY <1>0 DEF ThreadInv, AloneInv
<1>2. ts0 \in [Thread -> ThreadState] /\ OnlyWakes(ts0)
  <2>1. parent[p] \in Proc \cup {0}
    BY <1>0 DEF TypeOK
  <2> QED
    BY <2>1, WakeShape, Channels
<1>3. ts1 \in [Thread -> ThreadState] /\ OnlyWakes(ts1)
  BY <1>0, <1>2, WakeShape, Channels
<1>4. /\ Die(c, ts1) /\ UNCHANGED <<tnum, chan, arg>>
      /\ parent' = [q \in Proc |-> IF q \in kids THEN initproc ELSE parent[q]]
      /\ pstate' = [pstate EXCEPT ![p] = "ZOMBIE"]
  BY DEF exit_process
<1>5. /\ pstate'[p] = "ZOMBIE" /\ \A q \in Proc : q # p => pstate'[q] = pstate[q]
      /\ \A q \in Proc : parent'[q] = IF parent[q] = p THEN initproc ELSE parent[q]
  BY <1>0, <1>4 DEF TypeOK
<1>6. ASSUME NEW u \in Thread, ts1[u] = "SLEEPING"
      PROVE  /\ tstate[u] = "SLEEPING" /\ chan[u] # ProcChan(parent[p])
             /\ (\E q \in Proc : parent[q] = p /\ pstate[q] = "ZOMBIE") => chan[u] # ProcChan(initproc)
  <2> HIDE DEF ts0
  <2>1. ts0[u] = "SLEEPING" /\ ((\E q \in kids : pstate[q] = "ZOMBIE") => chan[u] # ProcChan(initproc))
    BY SMTT(30), <1>2, <1>6, Woken
  <2>2. tstate[u] = "SLEEPING" /\ chan[u] # ProcChan(parent[p])
    BY SMTT(30), <2>1, Woken, WakeShape DEF ts0
  <2> QED
    BY <2>1, <2>2
<1> HIDE DEF ts0, ts1
<1>7. ASSUME NEW u \in Thread, ts1[u] = "SLEEPING", pc[u] = "kthread_join" PROVE Target(u) # t
  BY <1>0, <1>1, <1>6, <1>7, ThreadParts DEF Target, Dead
<1>8. /\ ChanInv' /\ NoLostJoin' /\ HoleInv' /\ tstate'[t] = "ZOMBIE_T" /\ pc'[t] = "zombie"
      /\ \A u \in Thread : u # t => /\ pc'[u] = pc[u] /\ tstate'[u] = ts1[u]
                                    /\ \/ tstate'[u] = tstate[u]
                                       \/ tstate[u] = "SLEEPING" /\ tstate'[u] = "RUNNABLE"
  BY <1>0, <1>3, <1>4, <1>7, DeathLife
<1>9. /\ pstate[initproc] = "USED" /\ parent[initproc] = 0 /\ parent[p] # 0 /\ parent[p] # p
      /\ p # 0 /\ initproc # 0
  BY SMTT(30), <1>0 DEF LifeInv, FamilyInv, Dead, Proc, initproc
<1>10. NoLostWait'
  <2> SUFFICES ASSUME NEW u \in Thread, tstate'[u] = "SLEEPING", pc'[u] = "wait"
               PROVE  HaveKids(u[1])' /\ NoZombieChild(u[1])'
    BY DEF NoLostWait
  <2>1. /\ u # t /\ pc[u] = "wait" /\ tstate[u] = "SLEEPING" /\ chan[u] # ProcChan(parent[p])
        /\ (\E q \in Proc : parent[q] = p /\ pstate[q] = "ZOMBIE") => chan[u] # ProcChan(initproc)
    BY <1>6, <1>8
  <2>2. chan[u] = ProcChan(u[1]) /\ HaveKids(u[1]) /\ NoZombieChild(u[1])
    BY <2>1 DEF LifeInv, ChanInv, NoLostWait
  <2>3. u[1] # p /\ u[1] # parent[p]
    BY <2>1, <2>2, <1>1 DEF Dead
  <2>4. (\E q \in Proc : parent[q] = p /\ pstate[q] = "ZOMBIE") => u[1] # initproc
    BY <2>1, <2>2
  <2>5. HaveKids(u[1])'
    BY <2>2, <2>3, <1>5 DEF HaveKids
  <2>6. NoZombieChild(u[1])'
    BY <2>2, <2>3, <2>4, <1>5, <1>9 DEF NoZombieChild
  <2> QED
    BY <2>5, <2>6
<1>11. FamilyInv'
  <2>1. \A u \in Thread : u[1] # initproc /\ tstate'[u] \notin Dead \cup {"EMBRYO"} => parent'[u[1]] # 0
    BY SMTT(30), <1>5, <1>8, <1>9, ThreadParts DEF LifeInv, FamilyInv, Dead
  <2>2. ASSUME NEW u \in Thread, pc'[u] = "fork_copy"
        PROVE  arg'[u] # initproc /\ parent'[arg'[u]] = 0 /\ \A q \in Proc : parent'[q] # arg'[u]
    <3>1. pc[u] = "fork_copy" /\ arg'[u] = arg[u]
      BY <2>2, <1>4, <1>8
    <3>2. arg[u] \in Proc
      BY <3>1 DEF ThreadInv, ForkInv
    <3> QED
      BY SMTT(30), <3>1, <3>2, <1>5, <1>9 DEF LifeInv, FamilyInv
  <2>3. pstate'[initproc] = "USED" /\ parent'[initproc] = 0 /\ \A q \in Proc : parent'[q] # q
    BY SMTT(30), <1>0, <1>5, <1>9 DEF LifeInv, FamilyInv
  <2> QED
    BY <2>1, <2>2, <2>3 DEF FamilyInv
<1>12. ChildHasParent'
  BY SMTT(30), <1>0, <1>5, <1>9 DEF LifeInv, ChildHasParent, TypeOK
<1> QED
  BY <1>8, <1>10, <1>11, <1>12 DEF LifeInv

-----------------------------------------------------------------------------
(* The steps that fill and empty slots *)

(* One slot changes: the sleepers do not notice. *)
LEMMA TouchLife ==
  ASSUME TypeOK, TypeOK', ThreadInv, LifeInv, NEW t, NEW q, NEW n, Touch(t, q, n),
         Nursery(q) \/ (tnum[q] <= tnum'[q] /\ tstate[n] = "UNUSED_T"),
         pstate'[q] # "ZOMBIE", parent'[q] = parent[q] \/ parent[q] = 0
  PROVE  ChanInv' /\ NoLostJoin' /\ NoLostWait'
<1>1. \A u \in Thread : tstate'[u] = "SLEEPING" =>
        u # n /\ u # t /\ tstate[u] = "SLEEPING" /\ pc'[u] = pc[u] /\ arg'[u] = arg[u] /\ chan'[u] = chan[u]
  BY SMTT(30) DEF Touch
<1>2. ChanInv'
  BY <1>1 DEF LifeInv, ChanInv, Target
<1>3. NoLostJoin'
  <2> SUFFICES ASSUME NEW u \in Thread, tstate'[u] = "SLEEPING", pc'[u] = "kthread_join"
               PROVE  Target(u)' \in Live(u[1])'
    BY DEF NoLostJoin
  <2>1. Target(u) \in Live(u[1]) /\ Target(u)' = Target(u) /\ tstate[u] = "SLEEPING"
    BY <1>1 DEF LifeInv, NoLostJoin, Target
  <2> DEFINE v == Target(u)
  <2>2. v \in Thread /\ v[1] = u[1] /\ v[2] <= tnum[u[1]] /\ tstate[v] \notin Dead
    BY <2>1 DEF Live, Slots
  <2>3. u[1] \in Proc /\ v[2] \in Nat /\ tnum[u[1]] \in Nat /\ tnum'[u[1]] \in Nat
    BY SMTT(30), <2>2, ThreadParts DEF TypeOK
  <2>4. v # n /\ tnum[u[1]] <= tnum'[u[1]]
    BY SMTT(30), <2>1, <2>2, <2>3 DEF Touch, Nursery, Dead
  <2> HIDE DEF v
  <2>5. v[2] <= tnum'[u[1]] /\ tstate'[v] = tstate[v]
    <3>1. tstate'[v] = tstate[v]
      BY <2>2, <2>4 DEF Touch
    <3> QED
      BY SMTT(30), <2>2, <2>3, <2>4, <3>1
  <2> QED
    BY <2>1, <2>2, <2>5 DEF Live, Slots, v
<1>4. NoLostWait'
  <2> SUFFICES ASSUME NEW u \in Thread, tstate'[u] = "SLEEPING", pc'[u] = "wait"
               PROVE  HaveKids(u[1])' /\ NoZombieChild(u[1])'
    BY DEF NoLostWait
  <2>1. HaveKids(u[1]) /\ NoZombieChild(u[1]) /\ u[1] # 0
    BY SMTT(30), <1>1, ThreadParts DEF LifeInv, NoLostWait, Proc
  <2> QED
    BY SMTT(30), <2>1 DEF HaveKids, NoZombieChild, Touch
<1> QED
  BY <1>2, <1>3, <1>4

(* allocproc: the new process has neither parent nor children. *)
LEMMA AllocprocLife ==
  ASSUME TypeOK, TypeOK', ThreadInv, LifeInv, NEW t, NEW q \in Proc, NEW n \in Thread, NEW ok \in Kalloc, Born(t, q, n, ok)
  PROVE  LifeInv'
<1>2. ChanInv' /\ NoLostJoin' /\ NoLostWait'
  BY TouchLife DEF Born, Nursery
<1>3. parent[q] = 0 /\ q # initproc /\ \A r \in Proc : parent[r] # q
  BY DEF Born, LifeInv, ChildHasParent, FamilyInv, Proc
<1>4. FamilyInv'
  <2>1. \A u \in Thread : tstate'[u] \notin Dead \cup {"EMBRYO"} => u # n /\ tstate'[u] = tstate[u]
    BY DEF Born, Touch, Dead
  <2>2. \A u \in Thread : pc'[u] = "fork_copy" => arg'[u] = q \/ (pc[u] = "fork_copy" /\ arg'[u] = arg[u])
    BY DEF Born, Touch
  <2>3. pstate'[initproc] = pstate[initproc]
    BY <1>3, Boundaries DEF Born, Touch
  <2> QED
    BY SMTT(30), <1>3, <2>1, <2>2, <2>3 DEF Born, LifeInv, FamilyInv
<1>5. ChildHasParent'
  BY SMTT(30), <1>3 DEF Born, LifeInv, ChildHasParent, Touch, TypeOK
<1>6. HoleInv'
  <2> SUFFICES ASSUME NEW u \in Thread, NEW v \in Thread, tstate'[u] \notin Dead,
                      v \in Slots(u[1])', tstate'[v] = "UNUSED_T"
               PROVE  FALSE
    BY DEF HoleInv
  <2>1. CASE u[1] = q
    <3>1. u = n /\ tstate'[n] = "EMBRYO"
      BY SMTT(30), <2>1 DEF Born, Touch, Dead
    <3>2. v[1] = q /\ v[2] <= 1 /\ v[2] \in 1 .. NTHREADS /\ v = <<v[1], v[2]>>
      BY <2>1, ThreadParts DEF Born, Slots
    <3> QED
      BY SMTT(30), <3>1, <3>2 DEF Born
  <2>2. CASE u[1] # q
    <3>1. u # n /\ v # n /\ v \in Slots(u[1])
      BY <2>2, ThreadParts DEF Born, Touch, Slots
    <3> QED
      BY SMTT(30), <3>1, NoHole DEF Born, Touch, LifeInv
  <2> QED
    BY <2>1, <2>2
<1> QED
  BY <1>2, <1>4, <1>5, <1>6 DEF LifeInv

(* fork: the child gets its parent with its first RUNNABLE thread, or goes *)
(* back to UNUSED without ever having had one.                             *)
LEMMA ForkLife ==
  ASSUME TypeOK, TypeOK', ThreadInv, LifeInv, NEW t, NEW q \in Proc, NEW n \in Thread, Forked(t, q, n)
  PROVE  LifeInv'
<1>2. t \in Thread /\ t[1] \in Proc /\ t[1] # q /\ pstate[t[1]] = "USED"
  BY ThreadParts, Alive DEF Forked, Touch, Dead
<1>3. parent[q] = 0 /\ q # initproc /\ \A r \in Proc : parent[r] # q
  BY <1>2 DEF Forked, LifeInv, FamilyInv
<1>a. /\ \A r \in Proc : r # q => pstate'[r] = pstate[r] /\ parent'[r] = parent[r]
      /\ parent'[q] = t[1] \/ parent' = parent
  BY DEF Forked, Touch
<1>4. ChanInv' /\ NoLostJoin' /\ NoLostWait'
  BY <1>3, TouchLife DEF Forked, Nursery
<1>5. FamilyInv'
  <2>1. pstate'[initproc] = "USED" /\ parent'[initproc] = 0 /\ \A r \in Proc : parent'[r] # r
    <3>1. pstate[initproc] = "USED" /\ parent[initproc] = 0 /\ initproc \in Proc /\ \A r \in Proc : parent[r] # r
      BY Boundaries DEF LifeInv, FamilyInv
    <3> QED
      BY <1>2, <1>3, <1>a, <3>1
  <2>2. ASSUME NEW u \in Thread, u[1] # initproc, tstate'[u] \notin Dead \cup {"EMBRYO"}
        PROVE  parent'[u[1]] # 0
    <3>1. CASE u[1] = q
      <4>1. u = n
        BY <2>2, <3>1 DEF Forked, Touch, Dead
      <4>2. parent'[q] = t[1]
        BY <2>2, <4>1 DEF Forked, Dead
      <4>3. 0 \notin Proc
        BY SMTT(30) DEF Proc
      <4> QED
        BY <1>2, <3>1, <4>2, <4>3
    <3>2. CASE u[1] # q
      <4>1. u[1] \in Proc /\ tstate'[u] = tstate[u]
        BY <3>2, ThreadParts DEF Forked, Touch
      <4>2. parent[u[1]] # 0
        BY <2>2, <4>1 DEF LifeInv, FamilyInv
      <4> QED
        BY <1>a, <3>2, <4>1, <4>2
    <3> QED
      BY <3>1, <3>2
  <2>3. ASSUME NEW u \in Thread, pc'[u] = "fork_copy"
        PROVE  arg[u] # initproc /\ parent'[arg[u]] = 0 /\ \A r \in Proc : parent'[r] # arg[u]
    <3>1. pc[u] = "fork_copy" /\ arg[u] # q
      BY <2>3 DEF Forked, Touch
    <3>2. /\ arg[u] \in Proc /\ tnum[arg[u]] = 1 /\ tstate[<<arg[u], 1>>] = "EMBRYO"
      BY <3>1 DEF ThreadInv, ForkInv
    <3>3. t[1] # arg[u]
      <4>1. tstate[t] = "RUNNING" /\ t[2] <= tnum[t[1]] /\ t[2] \in 1 .. NTHREADS /\ t = <<t[1], t[2]>>
        BY <1>2, Alive, ThreadParts DEF Forked, Touch, Dead
      <4> QED
        BY SMTT(30), <4>1, <3>2
    <3> QED
      <4>1. arg[u] # initproc /\ parent[arg[u]] = 0 /\ \A r \in Proc : parent[r] # arg[u]
        BY <3>1 DEF LifeInv, FamilyInv
      <4> QED
        BY <1>a, <3>1, <3>2, <3>3, <4>1
  <2> QED
    BY <2>1, <2>2, <2>3 DEF Forked, FamilyInv
<1>6. ChildHasParent'
  <2>1. \A r \in Proc : r # q => parent'[r] = parent[r] /\ pstate'[r] = pstate[r]
    BY DEF Forked, Touch
  <2>2. \A r \in Proc : r # q /\ parent[r] # 0 => parent[r] \in Proc /\ parent[r] # q
    BY <1>3 DEF TypeOK
  <2>3. CASE pstate' = pstate /\ parent'[q] = t[1]
    <3>1. pstate[q] = "USED" /\ 0 \notin Proc
      <4>1. 0 \notin Proc
        BY SMTT(30) DEF Proc
      <4> QED
        BY <4>1 DEF Forked
    <3> QED
      BY <1>2, <2>1, <2>2, <2>3, <3>1 DEF LifeInv, ChildHasParent
  <2>4. CASE pstate'[q] = "UNUSED" /\ parent' = parent
    BY <1>3, <2>1, <2>2, <2>4 DEF LifeInv, ChildHasParent
  <2> QED
    BY <2>3, <2>4 DEF Forked
<1>7. HoleInv'
  <2> SUFFICES ASSUME NEW u \in Thread, NEW v \in Thread, tstate'[u] \notin Dead,
                      v \in Slots(u[1])', tstate'[v] = "UNUSED_T"
               PROVE  FALSE
    BY DEF HoleInv
  <2>1. v \in Slots(u[1]) /\ v[1] = u[1]
    BY DEF Forked, Slots
  <2>2. tstate[u] \notin Dead
    BY DEF Forked, Touch, Dead
  <2>3. tstate[v] # "UNUSED_T"
    BY <2>1, <2>2, NoHole DEF Forked, Touch, LifeInv
  <2>4. v = n /\ tstate'[n] = "UNUSED_T"
    BY <2>3 DEF Forked, Touch
  <2> QED
    <3>1. u # n /\ u[1] = q
      BY <2>1, <2>4 DEF Forked, Touch, Dead
    <3>2. tstate'[u] = tstate[u] /\ tstate[u] = "UNUSED_T"
      BY <3>1 DEF Forked, Touch
    <3> QED
      BY <3>2 DEF Dead
<1> QED
  BY <1>4, <1>5, <1>6, <1>7 DEF LifeInv

(* kthread_create: the new slot is used at once, or ptable.lock stays held *)
(* and nobody joins any more.                                              *)
LEMMA CreateLife ==
  ASSUME TypeOK, TypeOK', ThreadInv, LifeInv, NEW t, NEW q \in Proc, NEW n \in Thread, NEW ok \in Kalloc, Spawned(t, q, n, ok)
  PROVE  LifeInv'
<1>2. t \in Thread /\ tstate[t] = "RUNNING" /\ tnum[q] \in Nat
  <2>1. t \in Thread /\ tstate[t] = "RUNNING"
    BY DEF Spawned, Touch
  <2> QED
    BY SMTT(30), <2>1 DEF TypeOK
<1>3. ChanInv' /\ NoLostJoin' /\ NoLostWait'
  <2>1. Touch(t, q, n) /\ tstate[n] = "UNUSED_T" /\ pstate'[q] # "ZOMBIE" /\ parent'[q] = parent[q]
    BY DEF Spawned
  <2>2. tnum'[q] = tnum[q] + 1
    BY DEF Spawned
  <2>3. tnum[q] <= tnum'[q]
    BY SMTT(30), <1>2, <2>2
  <2> QED
    BY <2>1, <2>3, TouchLife
<1>4. FamilyInv'
  <2>1. q # initproc => parent[q] # 0
    BY <1>2 DEF Spawned, LifeInv, FamilyInv, Dead
  <2>2. \A u \in Thread : pc'[u] = "fork_copy" => pc[u] = "fork_copy"
    BY DEF Spawned, Touch
  <2>3. \A u \in Thread : u[1] = q \/ tstate'[u] = tstate[u]
    BY DEF Spawned, Touch
  <2> QED
    BY <2>1, <2>2, <2>3 DEF Spawned, LifeInv, FamilyInv
<1>5. ChildHasParent'
  BY DEF Spawned, LifeInv, ChildHasParent
<1>6. HoleInv'
  <2> SUFFICES ASSUME NEW u \in Thread, NEW v \in Thread, tstate'[u] \notin Dead,
                      v \in Slots(u[1])', tstate'[v] = "UNUSED_T"
               PROVE  ptlock' # NoCpu /\ \A w \in Thread : pc'[w] # "zombie"
    BY DEF HoleInv
  <2>1. \A w \in Thread : pc'[w] # "zombie"
    BY DEF Spawned, Touch
  <2>2. CASE ~ok
    BY <2>1, <2>2, CpuAssumption DEF Spawned
  <2>3. CASE ok
    <3>1. v # n /\ tstate[v] = "UNUSED_T"
      BY <2>3 DEF Spawned, Touch
    <3>2. PICK w \in Thread : w[1] = u[1] /\ tstate[w] \notin Dead
      <4>1. u # n => tstate'[u] = tstate[u]
        BY DEF Spawned, Touch
      <4>2. CASE u = n
        BY <1>2, <4>2 DEF Spawned, Touch, Dead
      <4> QED
        BY <4>1, <4>2
    <3>3. v \in Slots(u[1])
      <4>1. v[1] = u[1] /\ v[2] <= tnum'[u[1]] /\ u[1] \in Proc /\ v[2] \in Nat
        BY SMTT(30), ThreadParts DEF Slots
      <4>2. CASE u[1] = q
        <5>1. v[2] # tnum'[q]
          BY SMTT(30), <3>1, <4>1, <4>2, ThreadParts DEF Spawned, Touch
        <5> QED
          BY SMTT(30), <1>2, <4>1, <4>2, <5>1 DEF Spawned, Slots
      <4>3. CASE u[1] # q
        BY <4>1, <4>3 DEF Spawned, Slots, Touch
      <4> QED
        BY <4>2, <4>3
    <3> QED
      BY <3>1, <3>2, <3>3, NoHole DEF Spawned, LifeInv, Touch
  <2> QED
    BY <2>2, <2>3
<1> QED
  BY <1>3, <1>4, <1>5, <1>6 DEF LifeInv

(* wait() reaps a child that has no children and that nobody else awaits. *)
LEMMA WaitReapLife ==
  ASSUME TypeOK, ThreadInv, LifeInv, NEW t, NEW q \in Proc, Reaped(t, q)
  PROVE  LifeInv'
<1>2. q # initproc /\ (\A r \in Proc : parent[r] # q) /\ t[1] \in Proc
  BY SMTT(30), ThreadParts DEF Reaped, LifeInv, FamilyInv, ChildHasParent, Proc
<1>3. \A u \in Thread : /\ tstate'[u] \notin Dead => u[1] # q /\ tstate'[u] = tstate[u]
                        /\ tstate'[u] = "SLEEPING" => u # t /\ u[1] # q /\ tstate[u] = "SLEEPING" /\ pc'[u] = pc[u]
  BY DEF Reaped, Dead
<1>4. ChanInv' /\ NoLostJoin'
  <2>1. \A p : Slots(p)' = Slots(p)
    BY DEF Reaped, Slots
  <2>2. \A p : p # q => Live(p)' = Live(p)
    BY <2>1 DEF Reaped, Live, Slots
  <2>3. \A u \in Thread : tstate'[u] = "SLEEPING" =>
          /\ tstate[u] = "SLEEPING" /\ pc'[u] = pc[u] /\ u[1] # q
          /\ chan'[u] = chan[u] /\ Target(u)' = Target(u)
    BY <1>3 DEF Reaped, Target
  <2>4. ChanInv'
    BY <2>3 DEF LifeInv, ChanInv
  <2>5. NoLostJoin'
    BY <2>2, <2>3 DEF LifeInv, NoLostJoin
  <2> QED
    BY <2>4, <2>5
<1>5. NoLostWait'
  <2> SUFFICES ASSUME NEW u \in Thread, tstate'[u] = "SLEEPING", pc'[u] = "wait"
               PROVE  HaveKids(u[1])' /\ NoZombieChild(u[1])'
    BY DEF NoLostWait
  <2>1. HaveKids(u[1]) /\ NoZombieChild(u[1])
    BY <1>3 DEF LifeInv, NoLostWait
  <2>2. u[1] # 0 /\ parent[q] # u[1]
    BY SMTT(30), <2>1, ThreadParts DEF Reaped, NoZombieChild, Proc
  <2>3. parent'[q] = 0 /\ \A r \in Proc : r # q => parent'[r] = parent[r] /\ pstate'[r] = pstate[r]
    BY DEF Reaped
  <2> QED
    BY <2>1, <2>2, <2>3 DEF HaveKids, NoZombieChild
<1>6. FamilyInv'
  <2>1. \A u \in Thread : pc'[u] = "fork_copy" => pc[u] = "fork_copy" /\ u # t
    BY DEF Reaped
  <2>2. \A u \in Thread : pc[u] = "fork_copy" => arg[u] \in Proc /\ arg[u] # q
    BY DEF Reaped, ThreadInv, ForkInv
  <2>3. \A r \in Proc : parent'[r] \in {0, parent[r]}
    BY DEF Reaped
  <2>4. 0 \notin Proc
    BY SMTT(30) DEF Proc
  <2> QED
    BY SMTT(30), <1>2, <1>3, <2>1, <2>2, <2>3, <2>4, ThreadParts, Boundaries DEF Reaped, LifeInv, FamilyInv
<1>7. ChildHasParent'
  <2>1. \A r \in Proc : parent[r] # 0 => parent[r] \in Proc
    BY DEF TypeOK
  <2>2. /\ parent'[q] = 0 /\ pstate'[q] = "UNUSED"
        /\ \A r \in Proc : r # q => parent'[r] = parent[r] /\ pstate'[r] = pstate[r]
    BY DEF Reaped
  <2> QED
    BY SMTT(30), <1>2, <2>1, <2>2 DEF LifeInv, ChildHasParent
<1>8. HoleInv'
  <2> SUFFICES ASSUME NEW u \in Thread, NEW v \in Thread, tstate'[u] \notin Dead,
                      v \in Slots(u[1])', tstate'[v] = "UNUSED_T"
               PROVE  FALSE
    BY DEF HoleInv
  <2>1. v \in Slots(u[1]) /\ v[1] = u[1] /\ u[1] # q /\ tstate[u] \notin Dead
    BY <1>3 DEF Reaped, Slots
  <2> QED
    BY SMTT(30), <2>1, NoHole DEF Reaped, LifeInv
<1> QED
  BY <1>4, <1>5, <1>6, <1>7, <1>8 DEF LifeInv

(* userinit leaves one family, and nobody asleep. *)
LEMMA LifeInit == Init => LifeInv
<1> SUFFICES ASSUME Init PROVE LifeInv
  OBVIOUS
<1>1. \A t \in Thread : tstate[t] \in {"RUNNABLE", "UNUSED_T"} /\ pc[t] = "user" /\ t[1] \in Proc
                        /\ (tstate[t] = "RUNNABLE" => t[2] <= Boot[t[1]] /\ t[2] > 0)
  BY SMTT(30), ThreadParts DEF Init
<1>2. ChanInv /\ NoLostJoin /\ NoLostWait
  BY <1>1 DEF ChanInv, NoLostJoin, NoLostWait
<1>3. FamilyInv
  <2>1. pstate[initproc] = "USED" /\ parent[initproc] = 0
    BY Boundaries, BootAssumption DEF Init
  <2>2. 0 \notin Proc /\ initproc # 0 /\ \A q \in Proc : parent[q] # q
    BY SMTT(30), Boundaries DEF Init, Proc
  <2>3. \A t \in Thread : t[1] # initproc /\ tstate[t] = "RUNNABLE" => parent[t[1]] # 0
    <3> SUFFICES ASSUME NEW t \in Thread, t[1] # initproc, tstate[t] = "RUNNABLE" PROVE parent[t[1]] # 0
      OBVIOUS
    <3>1. t[1] \in Proc /\ t[2] \in Nat /\ t[2] > 0 /\ t[2] <= Boot[t[1]] /\ Boot[t[1]] \in Nat
      BY SMTT(30), <1>1, ThreadParts, BootAssumption
    <3> QED
      BY SMTT(30), <2>2, <3>1 DEF Init
  <2> QED
    BY <1>1, <2>1, <2>2, <2>3 DEF FamilyInv, Dead
<1>4. HoleInv
  BY <1>1, ThreadParts DEF Init, HoleInv, Slots
<1>5. ChildHasParent
  BY Boundaries, BootAssumption DEF Init, ChildHasParent
<1> QED
  BY <1>2, <1>3, <1>4, <1>5 DEF LifeInv

(* Every step of the kernel keeps LifeInv. *)
LEMMA LifeNext == TypeOK /\ TypeOK' /\ ThreadInv /\ LifeInv /\ [Next]_vars => LifeInv'
<1> SUFFICES ASSUME TypeOK, TypeOK', ThreadInv, LifeInv, [Next]_vars PROVE LifeInv'
  OBVIOUS
<1>1. CASE Stir
  <2>1. Calm
    BY <1>1 DEF Stir, Calm, OnlyWakes, SameSleep, procVars, threadVars
  <2> QED
    BY <2>1, CalmLife
<1>2. ASSUME NEW c \in CPUs,
             \/ Move(c) \/ LeaveCpu(c)
             \/ \E st \in {"SLEEPING", "RUNNABLE"}, l \in Location : Leave(c, st, l)
             \/ \E t \in Thread : Schedule(c, t)
      PROVE  LifeInv'
  BY <1>2, CalmShapes, CalmLife
<1>3. ASSUME NEW c \in CPUs,
             \/ Exits(c) \/ exit_process(c)
             \/ \E q \in Proc, n \in Thread, ok \in Kalloc : Born(cpu[c], q, n, ok) \/ Spawned(cpu[c], q, n, ok)
             \/ \E q \in Proc, n \in Thread : Forked(cpu[c], q, n)
             \/ \E q \in Proc : Reaped(cpu[c], q)
      PROVE  LifeInv'
  BY <1>3, ExitsLife, ExitProcessLife, AllocprocLife, ForkLife, CreateLife, WaitReapLife
<1> QED
  BY <1>1, <1>2, <1>3, Shapes DEF StepShape

(* Families, sleepers and slots stay consistent: forks, exits, hand-overs to *)
(* initproc, reaping, sleeping and waking preserve LifeInv.                *)
THEOREM LifeInvariant == Spec => [](TypeOK /\ ThreadInv /\ LifeInv)
BY TypeInit, TypeNext, InitInv, InvNext, LifeInit, LifeNext, PTL DEF Spec

(* Every child has a USED process to reap it, and a zombie is never without  *)
(* parent, however many processes fork, exit and are handed over.          *)
THEOREM ChildrenHaveParents == Spec => []ChildHasParent
BY LifeInvariant, PTL DEF LifeInv

(* No thread sleeps in wait() without children or with one to reap: the    *)
(* wake-ups of exit_process and the test under ptable.lock miss no child.  *)
THEOREM WaitersMissNoZombie == Spec => []NoLostWait
BY LifeInvariant, PTL DEF LifeInv

(* No thread sleeps in kthread_join on a thread that has ended.            *)
THEOREM JoinersMissNoExit == Spec => []NoLostJoin
BY LifeInvariant, PTL DEF LifeInv

(* The loop of kthread_join never meets an UNUSED_T target, where it would *)
(* spin with ptable.lock held: kthread_create fills the slots in order and *)
(* only wait() empties them.                                               *)
THEOREM JoinsNeverSpin == Spec => []JoinNeverSpins
<1>1. TypeOK /\ ThreadInv /\ LifeInv => JoinNeverSpins
  <2> SUFFICES ASSUME TypeOK, ThreadInv, LifeInv, NEW c \in CPUs, Locked(c, "kthread_join"),
                      Target(cpu[c]) \in Slots(cpu[c][1])
               PROVE  tstate[Target(cpu[c])] # "UNUSED_T"
    BY DEF JoinNeverSpins
  <2>1. ptlock = NoCpu /\ cpu[c] \in Thread /\ tstate[cpu[c]] = "RUNNING"
    BY Running DEF Locked, At, ThreadInv
  <2>2. Target(cpu[c]) \in Thread
    BY DEF Slots
  <2> QED
    BY <2>1, <2>2, NoHole DEF LifeInv, Dead
<1> QED
  BY <1>1, LifeInvariant, PTL

-----------------------------------------------------------------------------

(* Memory for a new process may run out only where a program forks. *)
CanLeak == OutOfMemory /\ "fork" \in InitCalls \cup Calls

(* ... and a thread is in fork() only where a program forks. *)
ForkCalled == \A t \in Thread : pc[t] = "fork" => "fork" \in InitCalls \cup Calls

(* A thread that enters the kernel does so by a call of its program. *)
LEMMA ForkCalledNext ==
  ASSUME TypeOK, ThreadInv, ForkCalled, StepShape
  PROVE  ForkCalled'
<1> USE DEF ForkCalled, procVars, threadVars
<1>1. CASE Stir
  BY <1>1 DEF Stir
<1>2. ASSUME NEW c \in CPUs, Move(c) PROVE ForkCalled'
  BY <1>2, OnCpu DEF Move, Goto, TypeOK
<1>3. ASSUME NEW c \in CPUs, LeaveCpu(c) PROVE ForkCalled'
  BY <1>3, OnCpu DEF LeaveCpu, Goto, At, TypeOK
<1>4. ASSUME NEW c \in CPUs, Exits(c) \/ exit_process(c) PROVE ForkCalled'
  BY <1>4, OnCpu DEF Exits, exit_thread, exit_process, Locked, At, Die, Goto, TypeOK
<1>5. ASSUME NEW t, NEW q, NEW n, Touch(t, q, n) PROVE ForkCalled'
  BY <1>5 DEF Touch
<1>6. ASSUME NEW t, NEW q, NEW n, NEW ok, Born(t, q, n, ok) \/ Forked(t, q, n) \/ Spawned(t, q, n, ok)
      PROVE  ForkCalled'
  BY <1>5, <1>6 DEF Born, Forked, Spawned
<1>7. ASSUME NEW t, NEW q, Reaped(t, q) PROVE ForkCalled'
  BY <1>7 DEF Reaped
<1>8. ASSUME NEW c \in CPUs, NEW st \in {"SLEEPING", "RUNNABLE"}, NEW l \in Location, Leave(c, st, l)
      PROVE  ForkCalled'
  BY <1>8, OnCpu DEF Leave, InputCalls, TypeOK
<1>9. ASSUME NEW c \in CPUs, NEW t \in Thread, Schedule(c, t) PROVE ForkCalled'
  BY <1>9 DEF Schedule
<1> QED
  BY <1>1, <1>2, <1>3, <1>4, <1>6, <1>7, <1>8, <1>9 DEF StepShape

(* One slot changes: a living process stays alive. *)
LEMMA TouchLive ==
  ASSUME TypeOK, TypeOK', ThreadInv, NEW t, NEW q, NEW n, Touch(t, q, n), NEW p \in Proc,
         p # q \/ (tstate[n] = "UNUSED_T" /\ tnum[q] <= tnum'[q])
  PROVE  Live(p) # {} => Live(p)' # {}
<1> SUFFICES ASSUME NEW u \in Live(p) PROVE u \in Live(p)'
  OBVIOUS
<1>1. u \in Thread /\ u[1] = p /\ u[2] <= tnum[p] /\ tstate[u] \notin Dead /\ u # n
  BY DEF Live, Slots, Touch, Dead
<1>2. u[2] \in Nat /\ tnum[p] \in Nat /\ tnum'[p] \in Nat /\ tnum[p] <= tnum'[p]
  BY SMTT(30), <1>1, ThreadParts DEF Touch, TypeOK
<1> QED
  BY SMTT(30), <1>1, <1>2 DEF Live, Slots, Touch

(* A thread that is live after the step, in the range of its process. *)
LEMMA LiveWitness ==
  ASSUME NEW p, NEW u \in Thread, u[1] = p, u[2] <= tnum'[p], tstate'[u] \notin Dead
  PROVE  Live(p)' # {}
BY DEF Live, Slots

(* Every step keeps LastThreadOut, where no allocproc fails. *)
LEMMA LastThreadNext ==
  ASSUME TypeOK, TypeOK', ThreadInv, ~CanLeak, ForkCalled, LastThreadOut, StepShape
  PROVE  LastThreadOut'
<1> USE DEF procVars, threadVars
<1>1. ASSUME NEW c \in CPUs, \/ Stir \/ Move(c) \/ LeaveCpu(c)
                             \/ \E st \in {"SLEEPING", "RUNNABLE"}, l \in Location : Leave(c, st, l)
                             \/ \E t \in Thread : Schedule(c, t)
      PROVE  LastThreadOut'
  <2>1. Calm
    BY <1>1, CalmShapes
  <2> QED
    BY <2>1 DEF LastThreadOut, Calm, Live, Slots, Dead
<1>2. CASE Stir
  BY <1>2 DEF Stir, OnlyWakes, LastThreadOut, Live, Slots, Dead
<1>3. ASSUME NEW c \in CPUs, NEW ts, OnlyWakes(ts), Die(c, ts), cpu[c] \in Thread, tnum' = tnum,
             \A p \in Proc : pstate'[p] = "USED" => pstate[p] = "USED" /\ Live(p) # {cpu[c]}
      PROVE  LastThreadOut'
  <2>1. \A u \in Thread : u # cpu[c] /\ tstate[u] \notin Dead => tstate'[u] \notin Dead
    BY SMTT(30), <1>3 DEF Die, OnlyWakes, Dead
  <2>2. \A p \in Proc : \A u \in Live(p) : u # cpu[c] => u \in Live(p)'
    BY <1>3, <2>1 DEF Live, Slots
  <2> QED
    BY <1>3, <2>2 DEF LastThreadOut
<1>4. ASSUME NEW c \in CPUs, Exits(c) PROVE LastThreadOut'
  <2> DEFINE t == cpu[c]
  <2>1. t \in Thread /\ UNCHANGED <<pstate, tnum>>
    BY <1>4, ExitsDeath
  <2>2. CASE Live(t[1]) = {t} /\ Goto(t, "exit_process") /\ UNCHANGED <<tstate, ptlock>>
    BY <2>1, <2>2 DEF LastThreadOut, Live, Slots
  <2>3. ASSUME Live(t[1]) # {t}, NEW ts \in [Thread -> ThreadState], OnlyWakes(ts), Die(c, wakeup1(ts, ThreadChan(t)))
        PROVE  LastThreadOut'
    <3>1. OnlyWakes(wakeup1(ts, ThreadChan(t)))
      BY <2>1, <2>3, WakeShape, Channels
    <3>2. \A p \in Proc : Live(p) # {t}
      BY <2>3 DEF Live, Slots
    <3> QED
      BY <1>3, <2>1, <2>3, <3>1, <3>2
  <2> QED
    BY <1>4, <2>2, <2>3, ExitsDeath
<1>5. ASSUME NEW c \in CPUs, exit_process(c) PROVE LastThreadOut'
  <2> DEFINE t == cpu[c]
  <2>1. t \in Thread /\ t[1] \in Proc /\ \E ts \in [Thread -> ThreadState] : OnlyWakes(ts) /\ Die(c, ts)
    BY <1>5, ExitProcessDeath
  <2>2. pstate' = [pstate EXCEPT ![t[1]] = "ZOMBIE"] /\ tnum' = tnum
    BY <1>5 DEF exit_process
  <2>3. \A p \in Proc : pstate'[p] = "USED" => pstate[p] = "USED" /\ p # t[1]
    BY <2>1, <2>2 DEF TypeOK
  <2>4. \A p \in Proc : p # t[1] => Live(p) # {t}
    BY DEF Live, Slots
  <2> QED
    BY <1>3, <2>1, <2>2, <2>3, <2>4
<1>6. ASSUME NEW t, NEW q \in Proc, NEW n \in Thread, Touch(t, q, n),
             \/ pstate'[q] # "USED" \/ Live(q)' # {}
             \/ pstate'[q] = pstate[q] /\ tstate[n] = "UNUSED_T" /\ tnum[q] <= tnum'[q]
      PROVE  LastThreadOut'
  <2>1. \A p \in Proc : p # q => (Live(p) # {} => Live(p)' # {})
    BY <1>6, TouchLive
  <2>2. tstate[n] = "UNUSED_T" /\ tnum[q] <= tnum'[q] => (Live(q) # {} => Live(q)' # {})
    BY <1>6, TouchLive
  <2>3. \A p \in Proc : p # q => pstate'[p] = pstate[p]
    BY <1>6 DEF Touch
  <2> QED
    BY <1>6, <2>1, <2>2, <2>3 DEF LastThreadOut
<1>7. ASSUME NEW t, NEW q \in Proc, NEW n \in Thread, NEW ok \in Kalloc, Born(t, q, n, ok) PROVE LastThreadOut'
  <2>1. ok
    <3>1. pc[t] = "fork" /\ t \in Thread
      BY <1>7 DEF Born, Touch
    <3> QED
      BY <3>1, CallAssumption DEF ForkCalled, CanLeak, Kalloc
  <2>2. Live(q)' # {}
    <3>1. n = <<q, 1>> /\ tnum'[q] = 1 /\ tstate'[n] = "EMBRYO"
      BY <1>7, <2>1 DEF Born
    <3>2. n[1] = q /\ n[2] <= tnum'[q] /\ tstate'[n] \notin Dead
      BY SMTT(30), <3>1 DEF Dead
    <3> QED
      BY <3>2, LiveWitness
  <2> QED
    BY <1>6, <1>7, <2>2 DEF Born
<1>8. ASSUME NEW t, NEW q \in Proc, NEW n \in Thread, Forked(t, q, n) PROVE LastThreadOut'
  <2>1. ASSUME tstate'[n] = "RUNNABLE" PROVE Live(q)' # {}
    <3>1. n = <<q, 1>> /\ tnum'[q] = 1
      BY <1>8 DEF Forked
    <3>2. n[1] = q /\ n[2] <= tnum'[q] /\ tstate'[n] \notin Dead
      BY SMTT(30), <2>1, <3>1 DEF Dead
    <3> QED
      BY <3>2, LiveWitness
  <2> QED
    BY <1>6, <1>8, <2>1 DEF Forked
<1>9. ASSUME NEW t, NEW q \in Proc, NEW n \in Thread, NEW ok, Spawned(t, q, n, ok) PROVE LastThreadOut'
  <2>1. tnum[q] <= tnum'[q]
    BY SMTT(30), <1>9 DEF Spawned, TypeOK
  <2> QED
    BY <1>6, <1>9, <2>1 DEF Spawned
<1>10. ASSUME NEW t, NEW q \in Proc, Reaped(t, q) PROVE LastThreadOut'
  <2>1. \A p \in Proc : p # q => Live(p)' = Live(p)
    BY <1>10 DEF Live, Slots, Reaped
  <2> QED
    BY <1>10, <2>1 DEF LastThreadOut, Reaped
<1> QED
  BY <1>1, <1>2, <1>4, <1>5, <1>7, <1>8, <1>9, <1>10 DEF StepShape

(* The last thread to leave takes the process with it, however exits, kills  *)
(* and new threads interleave - provided allocproc's kalloc never fails: a *)
(* failed one leaves a USED process without a thread (proc.c, allocproc).  *)
THEOREM LastThreadTakesProcess == ASSUME ~CanLeak PROVE Spec => []LastThreadOut
<1>1. Init => ForkCalled /\ LastThreadOut
  <2> SUFFICES ASSUME Init PROVE ForkCalled /\ LastThreadOut
    OBVIOUS
  <2>1. ForkCalled
    BY DEF Init, ForkCalled
  <2>2. ASSUME NEW p \in Proc, pstate[p] = "USED" PROVE Live(p) # {}
    <3>1. Boot[p] > 0 /\ Boot[p] \in Nat
      BY SMTT(30), <2>2, BootAssumption DEF Init
    <3>2. <<p, 1>> \in Thread /\ <<p, 1>>[1] = p /\ <<p, 1>>[2] = 1
      BY PairIsThread, Boundaries
    <3>3. tstate[<<p, 1>>] = "RUNNABLE" /\ tnum[p] >= 1
      BY SMTT(30), <3>1, <3>2 DEF Init
    <3>4. <<p, 1>> \in Live(p)
      BY <3>1, <3>2, <3>3 DEF Live, Slots, Dead, Init
    <3> QED
      BY <3>4
  <2> QED
    BY <2>1, <2>2 DEF LastThreadOut
<1>2. TypeOK /\ TypeOK' /\ ThreadInv /\ ForkCalled /\ LastThreadOut /\ [Next]_vars
        => ForkCalled' /\ LastThreadOut'
  BY Shapes, ForkCalledNext, LastThreadNext
<1> QED
  BY <1>1, <1>2, ThreadInvariant, PTL DEF Spec

(* No program commits a fault: the trap handler marks the siblings of a    *)
(* faulting thread without rousing them.                                   *)
NoFaults == "fault" \notin InitCalls \cup Calls

(* No thread goes to sleep in wait() marked, none is marked asleep, and a  *)
(* thread that is about to rouse its siblings stays so.                    *)
LEMMA RousedKept ==
  ASSUME KilledWaiterRoused,
         \A u \in Thread : tstate'[u] = "SLEEPING" /\ pc'[u] = "wait" /\ tkilled'[u] =>
                           /\ tstate[u] = "SLEEPING" /\ pc[u] = "wait" /\ tkilled[u]
                           /\ Others(u) \subseteq Others(u)',
         \A u \in Thread : pc[u] = "exec_wake" => pc'[u] = "exec_wake"
  PROVE  KilledWaiterRoused'
<1> SUFFICES ASSUME NEW u \in Thread, tstate'[u] = "SLEEPING", pc'[u] = "wait", tkilled'[u]
             PROVE  \E w \in Others(u)' : pc'[w] = "exec_wake"
  BY DEF KilledWaiterRoused
<1>1. PICK w \in Others(u) : pc[w] = "exec_wake"
  BY DEF KilledWaiterRoused
<1>2. w \in Thread
  BY DEF Others, Slots
<1> QED
  BY <1>1, <1>2

(* The steps of a thread in the kernel: exit, kill and exec mark and rouse. *)
LEMMA MoveRoused ==
  ASSUME TypeOK, ThreadInv, NoFaults, KilledWaiterRoused, NEW c \in CPUs, Move(c)
  PROVE  KilledWaiterRoused'
<1> DEFINE t == cpu[c]
<1>0. t \in Thread /\ tstate[t] = "RUNNING" /\ t \in Slots(t[1])
  BY Running, Alive DEF Move, ThreadInv, Dead
<1>1. /\ \A u \in Thread : u # t => pc'[u] = pc[u]
      /\ \A u \in Thread : tstate'[u] = "SLEEPING" => tstate[u] = "SLEEPING" /\ u # t
      /\ \A u : Others(u)' = Others(u)
  BY <1>0 DEF Move, Goto, OnlyWakes, Others, Slots, TypeOK
<1>2. CASE pc[t] = "exec_wake"
  <2>1. ExecWake(c)
    BY <1>2 DEF Move
  <2>2. tkilled' = tkilled /\ tstate' = Rouse(Others(t))
    BY <2>1 DEF ExecWake, threadVars
  <2> SUFFICES ASSUME NEW u \in Thread, tstate'[u] = "SLEEPING", pc'[u] = "wait", tkilled'[u]
               PROVE  \E w \in Others(u)' : pc'[w] = "exec_wake"
    BY DEF KilledWaiterRoused
  <2>3. tstate[u] = "SLEEPING" /\ pc[u] = "wait" /\ tkilled[u] /\ u # t /\ u \in Slots(u[1])
    BY <1>1, <2>2, Alive DEF Dead
  <2>4. PICK w \in Others(u) : pc[w] = "exec_wake"
    BY <2>3 DEF KilledWaiterRoused
  <2>5. w # t
    <3>1. u \notin Others(t)
      BY <2>2, <2>3 DEF Rouse
    <3> QED
      BY <2>3, <3>1 DEF Others, Slots
  <2> QED
    BY <1>1, <2>4, <2>5 DEF Others, Slots
<1>3. CASE pc[t] # "exec_wake" /\ tkilled' = tkilled
  BY <1>1, <1>3, RousedKept
<1>4. CASE pc[t] # "exec_wake" /\ ExecMark(c)
  <2> SUFFICES ASSUME NEW u \in Thread, tstate'[u] = "SLEEPING", pc'[u] = "wait", tkilled'[u]
               PROVE  \E w \in Others(u)' : pc'[w] = "exec_wake"
    BY DEF KilledWaiterRoused
  <2>1. tstate[u] = "SLEEPING" /\ pc[u] = "wait" /\ u # t
    BY <1>1
  <2>2. CASE tkilled[u]
    <3>1. PICK w \in Others(u) : pc[w] = "exec_wake"
      BY <2>1, <2>2 DEF KilledWaiterRoused
    <3> QED
      BY <1>1, <1>4, <3>1 DEF Others, Slots
  <2>3. CASE ~tkilled[u]
    <3>1. u \in Others(t) /\ pc'[t] = "exec_wake"
      BY <1>0, <1>4, <2>3 DEF ExecMark, MarkKilled, Goto, TypeOK
    <3>2. t \in Others(u)
      BY <1>0, <2>1, <3>1 DEF Others, Slots
    <3> QED
      BY <1>1, <3>1, <3>2
  <2> QED
    BY <2>2, <2>3
<1>5. ASSUME NEW S, tkilled' = [u \in Thread |-> u \in S \/ tkilled[u]], tstate' = Rouse(S), pc[t] # "exec_wake"
      PROVE  KilledWaiterRoused'
  <2>1. \A u \in Thread : tstate'[u] = "SLEEPING" => u \notin S
    BY <1>5 DEF Rouse
  <2> QED
    BY <1>1, <1>5, <2>1, RousedKept
<1>6. CASE pc[t] # "exec_wake" /\ (ExitMark(c) \/ kill(c))
  <2>1. \E S : tkilled' = [u \in Thread |-> u \in S \/ tkilled[u]] /\ tstate' = Rouse(S)
    BY <1>6 DEF ExitMark, kill, MarkKilled
  <2> QED
    BY <1>5, <1>6, <2>1
<1>7. ~Fault(c)
  BY DEF Fault, NoFaults, Program
<1> QED
  BY <1>2, <1>3, <1>4, <1>6, <1>7 DEF Move

(* One slot changes, or one process is reaped: nobody is marked. *)
LEMMA TouchRoused ==
  ASSUME TypeOK, TypeOK', ThreadInv, KilledWaiterRoused, NEW t, NEW q, NEW n, Touch(t, q, n),
         Nursery(q) \/ tnum[q] <= tnum'[q],
         pc[t] # "exec_wake"
  PROVE  KilledWaiterRoused'
<1>1. \A u \in Thread : tstate'[u] = "SLEEPING" =>
        u # n /\ u # t /\ tstate[u] = "SLEEPING" /\ pc'[u] = pc[u] /\ tkilled'[u] = tkilled[u]
  BY DEF Touch
<1>2. ASSUME NEW u \in Thread, tstate[u] = "SLEEPING" PROVE Others(u) \subseteq Others(u)'
  <2>1. u[1] \in Proc /\ tnum[u[1]] <= tnum'[u[1]] /\ tnum[u[1]] \in Nat /\ tnum'[u[1]] \in Nat
    <3>1. u[1] \in Proc /\ tnum[u[1]] \in Nat /\ tnum'[u[1]] \in Nat
      BY SMTT(30), ThreadParts DEF TypeOK
    <3>2. u[1] = q => tnum[q] <= tnum'[q]
      BY <1>2 DEF Nursery
    <3>3. u[1] # q => tnum'[u[1]] = tnum[u[1]]
      BY <3>1 DEF Touch
    <3> QED
      BY SMTT(30), <3>1, <3>2, <3>3
  <2>2. \A v \in Thread : v[2] \in Nat
    BY SMTT(30), ThreadParts
  <2> QED
    BY SMTT(30), <2>1, <2>2 DEF Others, Slots
<1>3. \A u \in Thread : pc[u] = "exec_wake" => pc'[u] = "exec_wake"
  BY DEF Touch
<1> QED
  BY <1>1, <1>2, <1>3, RousedKept

(* Every step keeps KilledWaiterRoused, where nobody faults. *)
LEMMA RousedNext ==
  ASSUME TypeOK, TypeOK', ThreadInv, NoFaults, KilledWaiterRoused, StepShape
  PROVE  KilledWaiterRoused'
<1> USE DEF procVars, threadVars
<1>1. CASE Stir
  BY <1>1, RousedKept DEF Stir, OnlyWakes, Others, Slots
<1>2. ASSUME NEW c \in CPUs, Move(c) PROVE KilledWaiterRoused'
  BY <1>2, MoveRoused
<1>3. ASSUME NEW c \in CPUs, LeaveCpu(c) PROVE KilledWaiterRoused'
  BY <1>3, OnCpu, RousedKept DEF LeaveCpu, Goto, At, Others, Slots, TypeOK
<1>4. ASSUME NEW c \in CPUs, Exits(c) \/ exit_process(c) PROVE KilledWaiterRoused'
  <2>1. cpu[c] \in Thread /\ pc[cpu[c]] \in {"exit", "kthread_exit", "exit_process"}
    BY <1>4, OnCpu DEF Exits, exit_process, Locked, At
  <2>2. UNCHANGED <<tnum, tkilled>>
    BY <1>4 DEF Exits, exit_thread, exit_process
  <2>3. \A u \in Thread : /\ u # cpu[c] => pc'[u] = pc[u]
                          /\ pc'[cpu[c]] # "wait"
                          /\ u # cpu[c] /\ tstate'[u] = "SLEEPING" => tstate[u] = "SLEEPING"
    <3>1. CASE Exits(c)
      <4>1. \/ Goto(cpu[c], "exit_process") /\ UNCHANGED tstate
            \/ \E ts \in [Thread -> ThreadState] : OnlyWakes(ts) /\ Die(c, wakeup1(ts, ThreadChan(cpu[c])))
        BY <3>1, ExitsDeath
      <4> QED
        BY <2>1, <4>1 DEF Die, Goto, wakeup1, OnlyWakes, TypeOK
    <3>2. CASE exit_process(c)
      BY <2>1, <3>2 DEF exit_process, Die, Goto, wakeup1, TypeOK
    <3> QED
      BY <1>4, <3>1, <3>2
  <2> QED
    BY <2>1, <2>2, <2>3, RousedKept DEF Others, Slots
<1>5. ASSUME NEW t, NEW q \in Proc, NEW n \in Thread, NEW ok, Born(t, q, n, ok) PROVE KilledWaiterRoused'
  BY <1>5, TouchRoused DEF Born, Nursery
<1>6. ASSUME NEW t, NEW q \in Proc, NEW n \in Thread, NEW ok, Forked(t, q, n) \/ Spawned(t, q, n, ok)
      PROVE  KilledWaiterRoused'
  <2>1. tnum[q] <= tnum'[q]
    BY SMTT(30), <1>6 DEF Forked, Spawned, TypeOK
  <2> QED
    BY <1>6, <2>1, TouchRoused DEF Forked, Spawned
<1>7. ASSUME NEW t, NEW q \in Proc, Reaped(t, q) PROVE KilledWaiterRoused'
  BY <1>7, RousedKept DEF Reaped, Others, Slots
<1>8. ASSUME NEW c \in CPUs, NEW st \in {"SLEEPING", "RUNNABLE"}, NEW l \in Location, Leave(c, st, l)
      PROVE  KilledWaiterRoused'
  <2> DEFINE t == cpu[c]
  <2>1. t \in Thread
    BY <1>8, OnCpu DEF Leave
  <2>2. st = "SLEEPING" /\ l = "wait" => ~tkilled[t]
    BY <1>8 DEF Leave, WaitSleep, InputCalls
  <2>3. pc[t] = "exec_wake" => l = "exec_wake"
    BY <1>8 DEF Leave, WaitSleep, JoinSleep, Locked, At, InputCalls, Sleeper
  <2> QED
    BY <1>8, <2>1, <2>2, <2>3, RousedKept DEF Leave, Others, Slots, TypeOK
<1>9. ASSUME NEW c \in CPUs, NEW t \in Thread, Schedule(c, t) PROVE KilledWaiterRoused'
  BY <1>9, RousedKept DEF Schedule, Others, Slots, TypeOK
<1> QED
  BY <1>1, <1>2, <1>3, <1>4, <1>5, <1>6, <1>7, <1>8, <1>9 DEF StepShape

(* Where nobody faults, a killed thread asleep in wait() always has a      *)
(* sibling in exec that is about to rouse it: exit, kill and exec rouse    *)
(* whom they mark, and wait() tests killed under the lock it sleeps with.  *)
THEOREM KilledWaitersRoused == ASSUME NoFaults PROVE Spec => []KilledWaiterRoused
<1>1. Init => KilledWaiterRoused
  BY DEF Init, KilledWaiterRoused
<1>2. TypeOK /\ TypeOK' /\ ThreadInv /\ KilledWaiterRoused /\ [Next]_vars => KilledWaiterRoused'
  BY Shapes, RousedNext
<1> QED
  BY <1>1, <1>2, ThreadInvariant, PTL DEF Spec
=============================================================================
