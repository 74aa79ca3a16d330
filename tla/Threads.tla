------------------------------ MODULE Threads ------------------------------
(***************************************************************************)
(* Processes and kernel threads: proc.c (fork, exit, wait, kill, sleep,    *)
(* wakeup, scheduler, kthread_create/exit/join), the thread-killing        *)
(* protocol of exec.c and the killed checks of trap.c.                     *)
(*                                                                         *)
(* A thread is <<p, i>>: slot i of process p's threads[], so i is also its *)
(* tid.  Every section protected by ptable.lock is one step, the passage   *)
(* through sched() and swtch() included; the lock is visible only where    *)
(* the code exposes it: an exiting thread between becoming ZOMBIE_T and    *)
(* leaving its CPU (exec polls thread states without the lock), and an     *)
(* error return that forgets to release it.                                *)
(***************************************************************************)
EXTENDS Naturals, FiniteSets

CONSTANTS
  NPROC,          \* param.h NPROC: slots of ptable.proc
  NTHREADS,       \* proc.h NTHREADS: slots of proc.threads
  CPUs, NoCpu,    \* the processors; NoCpu: ptable.lock is free
  Boot,           \* Boot[p]: threads process p starts with (0: slot is UNUSED)
  InitCalls,      \* system calls and faults of initproc's program
  Calls,          \* ... and of every other program
  JoinIds,        \* thread ids the programs pass to kthread_join
  Victims,        \* slots whose pid the programs pass to kill
  OutOfMemory     \* may kalloc fail?

initproc == 1
Proc     == 1 .. NPROC
Thread   == Proc \X (1 .. NTHREADS)
NoThread == <<0, 0>>

Syscalls == {"fork", "wait", "exit", "kill", "exec", "piperead", "consoleread",
             "kthread_create", "kthread_exit", "kthread_join"}

ASSUME SizeAssumption == NPROC \in Nat \ {0} /\ NTHREADS \in Nat \ {0}
ASSUME CpuAssumption  == NoCpu \notin CPUs
ASSUME BootAssumption == /\ Boot \in [Proc -> 0 .. NTHREADS]
                         /\ Boot[initproc] > 0
ASSUME CallAssumption == /\ InitCalls \subseteq Syscalls \cup {"fault"}
                         /\ Calls     \subseteq Syscalls \cup {"fault"}
                         /\ JoinIds \subseteq Nat /\ Victims \subseteq Proc
                         /\ OutOfMemory \in BOOLEAN

VARIABLES
  pstate, pkilled, parent, tnum,      \* struct proc: state, killed, parent, t_num
  tstate, tkilled, chan, kstack,      \* struct thread (kstack: is one allocated?)
  pc, arg,                            \* where a thread is in the kernel; its local
  cpu,                                \* struct cpu: thread
  ptlock,                             \* ptable.lock: the CPU holding it, or NoCpu
  halt                                \* "no", "panic" or "corrupt" (array overrun)

procVars   == <<pstate, pkilled, parent>>
threadVars == <<tkilled, kstack, tnum>>
vars == <<pstate, pkilled, parent, tnum, tstate, tkilled, chan, kstack,
          pc, arg, cpu, ptlock, halt>>

ProcState   == {"UNUSED", "ZOMBIE", "USED"}
ThreadState == {"UNUSED_T", "EMBRYO", "SLEEPING", "RUNNABLE", "RUNNING", "ZOMBIE_T"}
Dead        == {"UNUSED_T", "ZOMBIE_T"}

(* Sleep channels: the address of a proc, of a thread, or a device queue. *)
NoChan        == <<"none", 0, 0>>
ProcChan(p)   == <<"proc", p, 0>>
ThreadChan(t) == <<"thread", t[1], t[2]>>
IoChan(call)  == <<call, 0, 0>>
Chan == {NoChan} \cup {ProcChan(p) : p \in Proc} \cup {ThreadChan(t) : t \in Thread}
        \cup {IoChan("piperead"), IoChan("consoleread")}

(* Kernel locations between two atomic steps.  "trapout" is the killed     *)
(* check on the way back to user mode, "zombie" an exited thread that is   *)
(* still on its CPU inside sched().                                        *)
Location == Syscalls \cup
  {"user", "trapout", "fork_copy", "exit_process", "zombie", "exec_wake",
   "exec_poll", "exec_load", "piperead_sleep", "consoleread_sleep"}

TypeOK ==
  /\ pstate  \in [Proc -> ProcState]
  /\ pkilled \in [Proc -> BOOLEAN]
  /\ parent  \in [Proc -> Proc \cup {0}]
  /\ tnum    \in [Proc -> 0 .. NTHREADS]
  /\ tstate  \in [Thread -> ThreadState]
  /\ tkilled \in [Thread -> BOOLEAN]
  /\ chan    \in [Thread -> Chan]
  /\ kstack  \in [Thread -> BOOLEAN]
  /\ pc      \in [Thread -> Location]
  /\ arg     \in [Thread -> Nat]
  /\ cpu     \in [CPUs -> Thread \cup {NoThread}]
  /\ ptlock  \in CPUs \cup {NoCpu}
  /\ halt    \in {"no", "panic", "corrupt"}

(* threads[0 .. t_num-1], the range of every loop over a process's threads. *)
Slots(p) == {t \in Thread : t[1] = p /\ t[2] <= tnum[p]}

Live(p)  == {t \in Slots(p) : tstate[t] \notin Dead}

Init ==
  /\ pstate  = [p \in Proc |-> IF Boot[p] > 0 THEN "USED" ELSE "UNUSED"]
  /\ pkilled = [p \in Proc |-> FALSE]
  /\ parent  = [p \in Proc |-> IF Boot[p] > 0 /\ p # initproc THEN initproc ELSE 0]
  /\ tnum    = Boot
  /\ tstate  = [t \in Thread |-> IF t[2] <= Boot[t[1]] THEN "RUNNABLE" ELSE "UNUSED_T"]
  /\ tkilled = [t \in Thread |-> FALSE]
  /\ chan    = [t \in Thread |-> NoChan]
  /\ kstack  = [t \in Thread |-> t[2] <= Boot[t[1]]]
  /\ pc      = [t \in Thread |-> "user"]
  /\ arg     = [t \in Thread |-> 0]
  /\ cpu     = [c \in CPUs |-> NoThread]
  /\ ptlock  = NoCpu
  /\ halt    = "no"

-----------------------------------------------------------------------------
(* Building blocks *)

(* The thread on CPU c is at location l. *)
At(c, l) == halt = "no" /\ cpu[c] # NoThread /\ pc[cpu[c]] = l

(* ... and enters a section protected by ptable.lock. *)
Locked(c, l) == At(c, l) /\ ptlock = NoCpu

Goto(t, l) == pc' = [pc EXCEPT ![t] = l]
(* wakeup1: the states after waking every thread that sleeps on ch. *)
wakeup1(ts, ch) ==
  [t \in Thread |-> IF ts[t] = "SLEEPING" /\ chan[t] = ch /\ t \in Slots(t[1])
                    THEN "RUNNABLE" ELSE ts[t]]

(* kill, exit and exec make the sleepers of S run; their chan stays. *)
(* Mutation: the SLEEPING test is widened. *)
RouseLive(S) ==
  [t \in Thread |-> IF t \in S /\ tstate[t] \notin Dead THEN "RUNNABLE" ELSE tstate[t]]

Rouse(S) ==
  [t \in Thread |-> IF t \in S /\ tstate[t] = "SLEEPING" THEN "RUNNABLE" ELSE tstate[t]]

MarkKilled(S) == tkilled' = [t \in Thread |-> t \in S \/ tkilled[t]]

(* sleep: leave the CPU, to come back at location l. *)
sleep(c, ch, l) ==
  /\ tstate' = [tstate EXCEPT ![cpu[c]] = "SLEEPING"]
  /\ chan'   = [chan EXCEPT ![cpu[c]] = ch]
  /\ cpu'    = [cpu EXCEPT ![c] = NoThread]
  /\ Goto(cpu[c], l)

(* Become ZOMBIE_T and call sched(): ptable.lock stays held until the      *)
(* scheduler's context is back on the CPU.                                 *)
Die(c, ts) ==
  /\ tstate' = [ts EXCEPT ![cpu[c]] = "ZOMBIE_T"]
  /\ ptlock' = c
  /\ Goto(cpu[c], "zombie")

(* allocthread for slot i of q; without a page for the kernel stack the    *)
(* slot goes back to UNUSED_T but t_num keeps its increment.               *)
allocthread(q, i, st, ok) ==
  /\ tnum'    = [tnum EXCEPT ![q] = i]
  /\ tstate'  = [tstate EXCEPT ![<<q, i>>] = IF ok THEN st ELSE "UNUSED_T"]
  /\ tkilled' = [tkilled EXCEPT ![<<q, i>>] = FALSE]
  /\ kstack'  = [kstack EXCEPT ![<<q, i>>] = ok]

Kalloc == IF OutOfMemory THEN BOOLEAN ELSE {TRUE}

(* The slot a scan of ptable.proc finds first. *)
First(q, S) == q \in S /\ \A r \in S : q <= r

Program(p) == IF p = initproc THEN InitCalls ELSE Calls

-----------------------------------------------------------------------------
(* Scheduler, timer, traps *)

(* scheduler: an idle CPU picks any RUNNABLE thread of a USED process; a   *)
(* resumed sleep() clears chan.                                            *)
Schedule(c, t) ==
  /\ halt = "no" /\ ptlock = NoCpu /\ cpu[c] = NoThread
  /\ pstate[t[1]] = "USED" /\ t \in Slots(t[1]) /\ tstate[t] = "RUNNABLE"
  /\ cpu'    = [cpu EXCEPT ![c] = t]
  /\ tstate' = [tstate EXCEPT ![t] = "RUNNING"]
  /\ chan'   = [chan EXCEPT ![t] = NoChan]
  /\ UNCHANGED <<procVars, threadVars, pc, arg, ptlock, halt>>

(* An exited thread's swtch() reaches the scheduler, which drops the lock. *)
LeaveCpu(c) ==
  /\ At(c, "zombie")
  /\ cpu' = [cpu EXCEPT ![c] = NoThread]
  /\ ptlock' = NoCpu
  /\ Goto(cpu[c], "user")
  /\ UNCHANGED <<procVars, threadVars, tstate, chan, arg, halt>>

(* A timer interrupt finds the thread in user mode, already killed. *)
TimerKilled(c) ==
  /\ At(c, "user") /\ tkilled[cpu[c]]
  /\ Goto(cpu[c], "exit")
  /\ UNCHANGED <<procVars, threadVars, tstate, chan, arg, cpu, ptlock, halt>>

(* A timer interrupt makes the thread yield(); interrupted user code comes *)
(* back through trap()'s last killed check, kernel code continues.         *)
yield(c) ==
  LET t == cpu[c] IN
  /\ halt = "no" /\ t # NoThread /\ ptlock = NoCpu
  /\ ~(pc[t] = "user" /\ tkilled[t])
  /\ tstate' = [tstate EXCEPT ![t] = "RUNNABLE"]
  /\ cpu'    = [cpu EXCEPT ![c] = NoThread]
  /\ Goto(t, IF pc[t] = "user" THEN "trapout" ELSE pc[t])
  /\ UNCHANGED <<procVars, threadVars, chan, arg, ptlock, halt>>

(* Entry of a system call. *)
Syscall(c) ==
  LET t == cpu[c] IN
  /\ At(c, "user")
  /\ \E call \in Program(t[1]) \cap Syscalls :
       /\ Goto(t, IF tkilled[t] THEN "exit" ELSE call)
       /\ IF call = "kthread_join" /\ ~tkilled[t]
          THEN \E id \in JoinIds : arg' = [arg EXCEPT ![t] = id]
          ELSE arg' = arg
  /\ UNCHANGED <<procVars, threadVars, tstate, chan, cpu, ptlock, halt>>

(* Return to user mode: after a system call, or after yield(). *)
TrapOut(c) ==
  /\ At(c, "trapout")
  /\ Goto(cpu[c], IF tkilled[cpu[c]] THEN "exit" ELSE "user")
  /\ arg' = [arg EXCEPT ![cpu[c]] = 0]
  /\ UNCHANGED <<procVars, threadVars, tstate, chan, cpu, ptlock, halt>>

(* A user-mode exception: every thread is marked, without ptable.lock and  *)
(* without waking the ones that sleep.                                     *)
Fault(c) ==
  LET p == cpu[c][1] IN
  /\ At(c, "user") /\ "fault" \in Program(p)
  /\ MarkKilled(Slots(p))
  /\ pkilled' = [pkilled EXCEPT ![p] = TRUE]
  /\ Goto(cpu[c], "exit")
  /\ UNCHANGED <<pstate, parent, tnum, tstate, chan, kstack, arg, cpu, ptlock, halt>>

(* acquire(&ptable.lock) by a CPU that already holds it: the next timer    *)
(* tick, exit or system call of a thread that returned with the lock.      *)
AcquireHeld(c) ==
  /\ halt = "no" /\ cpu[c] # NoThread /\ ptlock = c /\ pc[cpu[c]] # "zombie"
  /\ halt' = "panic"
  /\ UNCHANGED <<procVars, threadVars, tstate, chan, pc, arg, cpu, ptlock>>

-----------------------------------------------------------------------------
(* Leaving *)

(* Mutation: the joiners are not woken. *)
exit_thread_silent(c) ==
  LET t == cpu[c]  p == t[1] IN
  /\ IF Live(p) = {t}
     THEN Goto(t, "exit_process") /\ UNCHANGED <<tstate, ptlock>>
     ELSE Die(c, tstate)
  /\ UNCHANGED <<procVars, threadVars, chan, arg, cpu, halt>>

(* Mutation: the last thread leaves like any other. *)
exit_thread_plain(c) ==
  /\ Die(c, wakeup1(tstate, ThreadChan(cpu[c])))
  /\ UNCHANGED <<procVars, threadVars, chan, arg, cpu, halt>>

(* exit_thread, entered with ptable.lock held. *)
exit_thread(c) ==
  LET t == cpu[c]  p == t[1] IN
  /\ IF Live(p) = {t}
     THEN /\ Goto(t, "exit_process")
          /\ UNCHANGED <<tstate, ptlock>>
     ELSE LET ts == IF Cardinality(Live(p)) = 2 THEN wakeup1(tstate, ProcChan(p)) ELSE tstate
          IN Die(c, wakeup1(ts, ThreadChan(t)))
  /\ UNCHANGED <<procVars, threadVars, chan, arg, cpu, halt>>

(* exit() by a thread nobody killed: condemn the whole process and return. *)
ExitMark(c) ==
  LET t == cpu[c]  p == t[1] IN
  /\ Locked(c, "exit") /\ ~tkilled[t]
  /\ MarkKilled(Slots(p))
  /\ tstate' = Rouse(Slots(p))
  /\ Goto(t, "trapout")
  /\ UNCHANGED <<procVars, tnum, kstack, chan, arg, cpu, ptlock, halt>>

(* exit() by a killed thread. *)
ExitKilled(c) == Locked(c, "exit") /\ tkilled[cpu[c]] /\ exit_thread(c)

kthread_exit(c) == Locked(c, "kthread_exit") /\ exit_thread(c)

(* Mutation: the parent is not woken. *)
exit_process_silent(c) ==
  LET p == cpu[c][1] IN
  /\ Locked(c, "exit_process") /\ p # initproc
  /\ parent'  = [q \in Proc |-> IF parent[q] = p THEN initproc ELSE parent[q]]
  /\ pkilled' = [pkilled EXCEPT ![p] = TRUE]
  /\ pstate'  = [pstate EXCEPT ![p] = "ZOMBIE"]
  /\ Die(c, tstate)
  /\ UNCHANGED <<threadVars, chan, arg, cpu, halt>>
(* exit_process: after the files are closed, wake the parent, hand the     *)
(* children to initproc and become a zombie.                               *)
exit_process(c) ==
  LET p == cpu[c][1]
      kids == {q \in Proc : parent[q] = p}
      ts == wakeup1(tstate, ProcChan(parent[p]))
  IN
  /\ Locked(c, "exit_process") /\ p # initproc
  /\ parent'  = [q \in Proc |-> IF q \in kids THEN initproc ELSE parent[q]]
  /\ pkilled' = [pkilled EXCEPT ![p] = TRUE]
  /\ pstate'  = [pstate EXCEPT ![p] = "ZOMBIE"]
  /\ Die(c, IF \E q \in kids : pstate[q] = "ZOMBIE"
            THEN wakeup1(ts, ProcChan(initproc)) ELSE ts)
  /\ UNCHANGED <<threadVars, chan, arg, cpu, halt>>

(* panic("init exiting") *)
InitExiting(c) ==
  /\ At(c, "exit_process") /\ cpu[c][1] = initproc
  /\ halt' = "panic"
  /\ UNCHANGED <<procVars, threadVars, tstate, chan, pc, arg, cpu, ptlock>>

(* Mutation: the killed threads are left asleep. *)
kill_asleep(c) ==
  /\ Locked(c, "kill")
  /\ \E q \in Victims : /\ pstate[q] # "UNUSED"
                        /\ pkilled' = [pkilled EXCEPT ![q] = TRUE]
                        /\ MarkKilled(Slots(q))
  /\ Goto(cpu[c], "trapout")
  /\ UNCHANGED <<pstate, parent, tnum, tstate, kstack, chan, arg, cpu, ptlock, halt>>

kill(c) ==
  LET t == cpu[c] IN
  /\ Locked(c, "kill")
  /\ \E q \in Victims :
       \* the slot has the pid, or the pid is 0 and the slot is the first without one
       /\ pstate[q] # "UNUSED" \/ First(q, {r \in Proc : pstate[r] = "UNUSED"})
       /\ pkilled' = [pkilled EXCEPT ![q] = TRUE]
       /\ MarkKilled(Slots(q))
       /\ tstate' = Rouse(Slots(q))
  /\ Goto(t, "trapout")
  /\ UNCHANGED <<pstate, parent, tnum, kstack, chan, arg, cpu, ptlock, halt>>

(* kill of a pid no process has. *)
KillMiss(c) ==
  /\ Locked(c, "kill")
  /\ Goto(cpu[c], "trapout")
  /\ UNCHANGED <<procVars, threadVars, tstate, chan, arg, cpu, ptlock, halt>>

-----------------------------------------------------------------------------
(* Creating *)

(* fork, first section: allocproc. *)
allocproc(c) ==
  LET unused == {q \in Proc : pstate[q] = "UNUSED"} IN
  /\ Locked(c, "fork")
  /\ \E q \in unused, ok \in Kalloc :
       /\ First(q, unused)
       /\ pstate' = [pstate EXCEPT ![q] = "USED"]
       /\ allocthread(q, 1, "EMBRYO", ok)
       /\ arg' = [arg EXCEPT ![cpu[c]] = IF ok THEN q ELSE 0]
       /\ Goto(cpu[c], IF ok THEN "fork_copy" ELSE "trapout")
  /\ UNCHANGED <<pkilled, parent, chan, cpu, ptlock, halt>>

AllocprocFull(c) ==
  /\ Locked(c, "fork") /\ \A q \in Proc : pstate[q] # "UNUSED"
  /\ Goto(cpu[c], "trapout")
  /\ UNCHANGED <<procVars, threadVars, tstate, chan, arg, cpu, ptlock, halt>>

(* fork, second section: copy the address space and start the child. *)
fork(c) ==
  LET t == cpu[c]  q == arg[t] IN
  /\ Locked(c, "fork_copy")
  /\ parent' = [parent EXCEPT ![q] = t[1]]
  /\ tstate' = [tstate EXCEPT ![<<q, 1>>] = "RUNNABLE"]
  /\ pc' = [pc EXCEPT ![t] = "trapout", ![<<q, 1>>] = "user"]
  /\ UNCHANGED <<pstate, pkilled, threadVars, chan, arg, cpu, ptlock, halt>>

(* Mutation: the child's first thread stays EMBRYO. *)
ForkNoMemoryEmbryo(c) ==
  LET t == cpu[c]  q == arg[t] IN
  /\ Locked(c, "fork_copy") /\ OutOfMemory
  /\ kstack' = [kstack EXCEPT ![<<q, 1>>] = FALSE]
  /\ pstate' = [pstate EXCEPT ![q] = "UNUSED"]
  /\ ptlock' = c
  /\ Goto(t, "trapout")
  /\ UNCHANGED <<pkilled, parent, tkilled, tnum, tstate, chan, arg, cpu, halt>>

(* copyuvm fails: the child is undone, but ptable.lock is not released. *)
ForkNoMemory(c) ==
  LET t == cpu[c]  q == arg[t] IN
  /\ Locked(c, "fork_copy") /\ OutOfMemory
  /\ kstack' = [kstack EXCEPT ![<<q, 1>>] = FALSE]
  /\ pstate' = [pstate EXCEPT ![q] = "UNUSED"]
  /\ tstate' = [tstate EXCEPT ![<<q, 1>>] = "UNUSED_T"]
  /\ ptlock' = c
  /\ Goto(t, "trapout")
  /\ UNCHANGED <<pkilled, parent, tkilled, tnum, chan, arg, cpu, halt>>

(* Mutation: the error return releases the lock. *)
kthread_create_released(c) ==
  LET t == cpu[c]  p == t[1]  i == tnum[p] + 1 IN
  /\ Locked(c, "kthread_create") /\ i <= NTHREADS
  /\ \E ok \in Kalloc : allocthread(p, i, "RUNNABLE", ok)
  /\ pc' = [pc EXCEPT ![t] = "trapout", ![<<p, i>>] = "user"]
  /\ UNCHANGED <<procVars, chan, arg, cpu, ptlock, halt>>

kthread_create(c) ==
  LET t == cpu[c]  p == t[1]  i == tnum[p] + 1 IN
  /\ Locked(c, "kthread_create") /\ i <= NTHREADS
  /\ \E ok \in Kalloc :
       /\ allocthread(p, i, "RUNNABLE", ok)
       /\ pc' = [pc EXCEPT ![t] = "trapout", ![<<p, i>>] = "user"]
       \* the error return keeps ptable.lock
       /\ ptlock' = IF ok THEN NoCpu ELSE c
  /\ UNCHANGED <<procVars, chan, arg, cpu, halt>>

(* allocthread has no bound check: thread NTHREADS+1 is written over the   *)
(* fields that follow threads[] in struct proc.                            *)
CreateOverrun(c) ==
  /\ Locked(c, "kthread_create") /\ tnum[cpu[c][1]] = NTHREADS
  /\ halt' = "corrupt"
  /\ UNCHANGED <<procVars, threadVars, tstate, chan, pc, arg, cpu, ptlock>>

-----------------------------------------------------------------------------
(* Waiting *)

(* Mutation: the slot keeps its parent. *)
WaitReapKeepsParent(c) ==
  LET t == cpu[c] IN
  /\ Locked(c, "wait")
  /\ \E q \in Proc :
       /\ parent[q] = t[1] /\ pstate[q] = "ZOMBIE"
       /\ pstate'  = [pstate EXCEPT ![q] = "UNUSED"]
       /\ kstack'  = [u \in Thread |-> u \notin Slots(q) /\ kstack[u]]
       /\ tkilled' = [u \in Thread |-> u \notin Slots(q) /\ tkilled[u]]
       /\ tstate'  = [u \in Thread |-> IF u \in Slots(q) THEN "UNUSED_T" ELSE tstate[u]]
  /\ Goto(t, "trapout")
  /\ UNCHANGED <<pkilled, parent, tnum, chan, arg, cpu, ptlock, halt>>

WaitReap(c) ==
  LET t == cpu[c]
      zombies == {q \in Proc : parent[q] = t[1] /\ pstate[q] = "ZOMBIE"}
  IN
  /\ Locked(c, "wait")
  /\ \E q \in zombies :
       LET S == {u \in Slots(q) : tstate[u] = "ZOMBIE_T"} IN
       /\ First(q, zombies)
       /\ parent'  = [parent EXCEPT ![q] = 0]
       /\ pstate'  = [pstate EXCEPT ![q] = "UNUSED"]
       /\ kstack'  = [u \in Thread |-> u \notin S /\ kstack[u]]
       /\ tkilled' = [u \in Thread |-> u \notin S /\ tkilled[u]]
       /\ tstate'  = [u \in Thread |-> IF u \in S THEN "UNUSED_T" ELSE tstate[u]]
  /\ Goto(t, "trapout")
  /\ UNCHANGED <<pkilled, tnum, chan, arg, cpu, ptlock, halt>>

NoZombieChild(p) == \A q \in Proc : parent[q] = p => pstate[q] # "ZOMBIE"
HaveKids(p)      == \E q \in Proc : parent[q] = p

WaitGiveUp(c) ==
  LET t == cpu[c] IN
  /\ Locked(c, "wait") /\ NoZombieChild(t[1])
  /\ ~HaveKids(t[1]) \/ tkilled[t]
  /\ Goto(t, "trapout")
  /\ UNCHANGED <<procVars, threadVars, tstate, chan, arg, cpu, ptlock, halt>>

WaitSleep(c) ==
  LET t == cpu[c] IN
  /\ Locked(c, "wait") /\ NoZombieChild(t[1])
  /\ HaveKids(t[1]) /\ ~tkilled[t]
  /\ sleep(c, ProcChan(t[1]), "wait")
  /\ UNCHANGED <<procVars, threadVars, arg, ptlock, halt>>

(* The thread kthread_join looks for. *)
Target(t) == <<t[1], arg[t]>>

(* No thread has the id: -1 is returned, ptable.lock is not released. *)
JoinNoMatch(c) ==
  LET t == cpu[c] IN
  /\ Locked(c, "kthread_join") /\ Target(t) \notin Slots(t[1])
  /\ ptlock' = c
  /\ Goto(t, "trapout")
  /\ UNCHANGED <<procVars, threadVars, tstate, chan, arg, cpu, halt>>

JoinReturn(c) ==
  LET t == cpu[c] IN
  /\ Locked(c, "kthread_join") /\ Target(t) \in Slots(t[1])
  /\ tstate[Target(t)] = "ZOMBIE_T"
  /\ Goto(t, "trapout")
  /\ UNCHANGED <<procVars, threadVars, tstate, chan, arg, cpu, ptlock, halt>>

(* The target is neither ZOMBIE_T nor UNUSED_T (for the latter the code    *)
(* would spin with the lock held; JoinNeverSpins says it does not happen).     *)
JoinSleep(c) ==
  LET t == cpu[c] IN
  /\ Locked(c, "kthread_join") /\ Target(t) \in Slots(t[1])
  /\ tstate[Target(t)] \notin Dead
  /\ sleep(c, ThreadChan(Target(t)), "kthread_join")
  /\ UNCHANGED <<procVars, threadVars, arg, ptlock, halt>>

-----------------------------------------------------------------------------
(* Blocking input: piperead gives up when its thread is killed,            *)
(* consoleread (and sys_sleep) when p->killed is set; the test is made     *)
(* under the device's lock, ptable.lock is taken afterwards by sleep().    *)

Sleeper(call) == IF call = "piperead" THEN "piperead_sleep" ELSE "consoleread_sleep"

Abandoned(t, call) == IF call = "piperead" THEN tkilled[t] ELSE pkilled[t[1]]

(* Input has arrived. *)
InputDone(c, call) ==
  /\ At(c, call)
  /\ Goto(cpu[c], "trapout")
  /\ UNCHANGED <<procVars, threadVars, tstate, chan, arg, cpu, ptlock, halt>>

(* No input, and the wait is given up. *)
InputGiveUp(c, call) ==
  /\ At(c, call) /\ Abandoned(cpu[c], call)
  /\ Goto(cpu[c], "trapout")
  /\ UNCHANGED <<procVars, threadVars, tstate, chan, arg, cpu, ptlock, halt>>

InputEmpty(c, call) ==
  /\ At(c, call) /\ ~Abandoned(cpu[c], call)
  /\ Goto(cpu[c], Sleeper(call))
  /\ UNCHANGED <<procVars, threadVars, tstate, chan, arg, cpu, ptlock, halt>>

InputSleep(c, call) ==
  /\ Locked(c, Sleeper(call))
  /\ sleep(c, IoChan(call), call)
  /\ UNCHANGED <<procVars, threadVars, arg, ptlock, halt>>

(* The device's wakeup(), from a writer or an interrupt handler. *)
wakeup(call) ==
  /\ halt = "no" /\ ptlock = NoCpu
  /\ \E t \in Thread : tstate[t] = "SLEEPING" /\ chan[t] = IoChan(call)
  /\ tstate' = wakeup1(tstate, IoChan(call))
  /\ UNCHANGED <<procVars, threadVars, chan, pc, arg, cpu, ptlock, halt>>

-----------------------------------------------------------------------------
(* exec *)

(* exit_thread() entered without ptable.lock: release() or sched() panics. *)
ExecKilled(c) ==
  /\ At(c, "exec") /\ tkilled[cpu[c]] /\ ptlock # c
  /\ halt' = "panic"
  /\ UNCHANGED <<procVars, threadVars, tstate, chan, pc, arg, cpu, ptlock>>

Others(t) == Slots(t[1]) \ {t}

(* Mark the other threads, without ptable.lock. *)
ExecMark(c) ==
  LET t == cpu[c] IN
  /\ At(c, "exec") /\ ~tkilled[t]
  /\ MarkKilled({u \in Others(t) : tstate[u] # "UNUSED_T"})
  /\ Goto(t, "exec_wake")
  /\ UNCHANGED <<procVars, tnum, kstack, tstate, chan, arg, cpu, ptlock, halt>>

ExecWake(c) ==
  LET t == cpu[c] IN
  /\ Locked(c, "exec_wake")
  /\ tstate' = Rouse(Others(t))
  /\ Goto(t, "exec_poll")
  /\ UNCHANGED <<procVars, threadVars, chan, arg, cpu, ptlock, halt>>

(* Mutation: only the threads on a CPU are waited for. *)
ExecPollRunning(c) ==
  LET t == cpu[c] IN
  /\ At(c, "exec_poll")
  /\ Goto(t, IF \A u \in Others(t) : tstate[u] # "RUNNING" THEN "exec_load" ELSE "exec_wake")
  /\ UNCHANGED <<procVars, threadVars, tstate, chan, arg, cpu, ptlock, halt>>

(* Read the states without ptable.lock: try again, or go on. *)
ExecPoll(c) ==
  LET t == cpu[c] IN
  /\ At(c, "exec_poll")
  /\ Goto(t, IF \A u \in Others(t) : tstate[u] \in Dead THEN "exec_load" ELSE "exec_wake")
  /\ UNCHANGED <<procVars, threadVars, tstate, chan, arg, cpu, ptlock, halt>>

(* Load the image and commit it (freevm of the old page table), or fail. *)
ExecLoad(c) ==
  /\ At(c, "exec_load")
  /\ Goto(cpu[c], "trapout")
  /\ UNCHANGED <<procVars, threadVars, tstate, chan, arg, cpu, ptlock, halt>>

-----------------------------------------------------------------------------
(* panic() and a corrupted table stop everything. *)
Halted == halt # "no" /\ UNCHANGED vars

InputCalls == {"piperead", "consoleread"}

(* One step of the thread on CPU c, or of the interrupt that hits it. *)
ThreadStep(c) ==
  \/ LeaveCpu(c) \/ TimerKilled(c) \/ TrapOut(c) \/ AcquireHeld(c)
  \/ ExitMark(c) \/ ExitKilled(c) \/ kthread_exit(c) \/ exit_process(c) \/ InitExiting(c)
  \/ kill(c) \/ KillMiss(c)
  \/ allocproc(c) \/ AllocprocFull(c) \/ fork(c) \/ ForkNoMemory(c)
  \/ kthread_create(c) \/ CreateOverrun(c)
  \/ WaitReap(c) \/ WaitGiveUp(c) \/ WaitSleep(c)
  \/ JoinNoMatch(c) \/ JoinReturn(c) \/ JoinSleep(c)
  \/ \E call \in InputCalls :
       InputGiveUp(c, call) \/ InputEmpty(c, call) \/ InputSleep(c, call)
  \/ ExecKilled(c) \/ ExecMark(c) \/ ExecWake(c) \/ ExecPoll(c) \/ ExecLoad(c)

Next ==
  \/ \E c \in CPUs : \/ ThreadStep(c) \/ yield(c) \/ Syscall(c) \/ Fault(c)
                     \/ \E call \in InputCalls : InputDone(c, call)
                     \/ \E t \in Thread : Schedule(c, t)
  \/ \E call \in InputCalls : wakeup(call)
  \/ Halted

Spec == Init /\ [][Next]_vars

(* A thread that is scheduled again and again gets its kernel work done (a *)
(* time slice is long, spinlocks are held briefly), the scheduler's scan   *)
(* reaches every RUNNABLE thread, the timer keeps ticking, and init.c      *)
(* calls wait in a loop.                                                   *)
Fairness ==
  /\ \A t \in Thread : /\ SF_vars(\E c \in CPUs : cpu[c] = t /\ ThreadStep(c))
                       /\ SF_vars(\E c \in CPUs : Schedule(c, t))
  /\ \A c \in CPUs : WF_vars(yield(c))
  /\ SF_vars(\E c \in CPUs : cpu[c][1] = initproc /\ Syscall(c))

LiveSpec == Spec /\ Fairness

-----------------------------------------------------------------------------
(* Safety *)

(* A kernel stack is never used by two processors: a thread is on at most  *)
(* one CPU, and the RUNNING threads are exactly the ones on a CPU that     *)
(* have not begun to die (scheduler, yield, sleep, exit_thread, and the    *)
(* wake-ups of kill, exit and exec).                                       *)
OneCpuPerThread ==
  /\ \A c, d \in CPUs : cpu[c] # NoThread /\ cpu[c] = cpu[d] => c = d
  /\ \A t \in Thread :
       tstate[t] = "RUNNING" <=> \E c \in CPUs : cpu[c] = t /\ pc[t] # "zombie"

(* A process that wait() may reap, or whose slot is free, has no thread    *)
(* left that could run on the page table and stacks wait() frees; one that *)
(* is still on a CPU keeps ptable.lock, and so keeps wait() out.           *)
ZombieIsDead ==
  \A p \in Proc : pstate[p] # "USED" =>
    /\ \A t \in Thread : t[1] = p => tstate[t] \in Dead
    /\ \A c \in CPUs : cpu[c][1] = p => ptlock = c

(* The last thread to leave turns its process into a zombie: exit_thread   *)
(* counts the living under the lock, so a USED process always has a thread *)
(* that can still reach exit_process, and its parent does not wait in vain.*)
LastThreadOut == \A p \in Proc : pstate[p] = "USED" => Live(p) # {}

(* A thread has a kernel stack exactly while its slot is in use: wait()    *)
(* frees every stack once, no path frees the stack of a live thread.       *)
StackOwned == \A t \in Thread : kstack[t] <=> tstate[t] # "UNUSED_T"

(* When exec replaces the page table its thread is the only live one.      *)
ExecAlone ==
  \A t \in Thread : pc[t] = "exec_load" => \A u \in Others(t) : tstate[u] \in Dead

(* A thread asleep in kthread_join waits for a thread that still lives:    *)
(* the wakeup1 of exit_thread cannot be missed.                            *)
NoLostJoin ==
  \A t \in Thread : tstate[t] = "SLEEPING" /\ pc[t] = "kthread_join"
                    => Target(t) \in Live(t[1])

(* A thread asleep in wait() has a child, and none to reap: neither the    *)
(* wake-up of exit_process nor the one for handed-over zombies is missed.  *)
NoLostWait ==
  \A t \in Thread : tstate[t] = "SLEEPING" /\ pc[t] = "wait"
                    => HaveKids(t[1]) /\ NoZombieChild(t[1])

(* wait()'s killed test and its sleep are one section of ptable.lock: a    *)
(* killed thread sleeps in wait() only until the exec that marked it gets  *)
(* to its waking pass.                                                     *)
KilledWaiterRoused ==
  \A t \in Thread : tstate[t] = "SLEEPING" /\ pc[t] = "wait" /\ tkilled[t]
                    => \E u \in Others(t) : pc[u] = "exec_wake"

(* Every child has a USED process to reap it, across forks, exits and      *)
(* hand-overs to initproc; a zombie is never without parent.               *)
ChildHasParent ==
  \A q \in Proc : /\ parent[q] # 0 => pstate[parent[q]] = "USED" /\ pstate[q] # "UNUSED"
                  /\ pstate[q] = "ZOMBIE" => parent[q] # 0

(* kthread_join never finds its target UNUSED_T, where its loop would spin *)
(* for ever with ptable.lock held.                                         *)
JoinNeverSpins ==
  \A c \in CPUs : Locked(c, "kthread_join") /\ Target(cpu[c]) \in Slots(cpu[c][1])
                  => tstate[Target(cpu[c])] # "UNUSED_T"

(* The kernel neither panics nor overruns threads[].                       *)
NoHalt == halt = "no"

-----------------------------------------------------------------------------
(* What the documentation promises and the code does not keep *)

(* README.md: exit kills "the process and all of its threads".  Without    *)
(* exec, a killed thread means that its whole process is condemned.        *)
ExitKillsAll ==
  \A p \in Proc : (\E t \in Live(p) : tkilled[t]) => \A t \in Live(p) : tkilled[t]

(* proc.h: p->killed means "have been killed".  Where nothing kills, a     *)
(* USED process does not have it set.                                      *)
KilledFlagFresh == \A p \in Proc : pkilled[p] => pstate[p] # "USED"

(* README.md: NTHREAD is "the maximum number of threads each process can   *)
(* hold": kthread_create does not write beyond threads[].                  *)
ThreadBound == halt # "corrupt"

(* README.md: kthread_create and kthread_join report errors by their       *)
(* return value: no thread is back in user mode with ptable.lock held.     *)
SyscallReleases == \A c \in CPUs : At(c, "user") => ptlock # c

(* README.md: exec waits until the other threads "destroy themselves": at  *)
(* freevm(oldpgdir) no other CPU still runs on that page table.            *)
ExecMapIdle ==
  \A c, d \in CPUs : At(c, "exec_load") /\ cpu[c][1] = cpu[d][1] => c = d

(* proc.c, kill: "Wake process from sleep if necessary": no killed thread  *)
(* stays asleep in piperead.                                               *)
KilledReaderAwake ==
  \A t \in Thread : tstate[t] = "SLEEPING" /\ pc[t] = "piperead" => ~tkilled[t]

(* README.md: exec completes once the other threads are told to die.       *)
ExecCompletes ==
  \A t \in Thread : pc[t] \in {"exec_wake", "exec_poll"}
                    ~> pc[t] \notin {"exec_wake", "exec_poll"}

-----------------------------------------------------------------------------
(* The inductive invariant behind OneCpuPerThread, ZombieIsDead, StackOwned*)
(* and ExecAlone *)

(* A busy CPU runs one thread of its own, RUNNING or, inside sched() with  *)
(* the lock held, ZOMBIE_T.                                                *)
CpuInv ==
  /\ \A c, d \in CPUs : cpu[c] # NoThread /\ cpu[c] = cpu[d] => c = d
  /\ \A c \in CPUs : cpu[c] # NoThread =>
       \/ pc[cpu[c]] # "zombie" /\ tstate[cpu[c]] = "RUNNING"
       \/ pc[cpu[c]] = "zombie" /\ tstate[cpu[c]] = "ZOMBIE_T" /\ ptlock = c
  /\ \A t \in Thread : tstate[t] = "RUNNING" \/ pc[t] = "zombie" => \E c \in CPUs : cpu[c] = t

(* Only a thread that is alive is inside a system call. *)
KernelInv ==
  \A t \in Thread : pc[t] \notin {"user", "zombie"}
                    => tstate[t] \in {"SLEEPING", "RUNNABLE", "RUNNING"}

(* Slots beyond t_num and slots of UNUSED processes are UNUSED_T; a zombie *)
(* process has dead threads only.                                          *)
SlotInv ==
  \A t \in Thread :
    /\ t[2] > tnum[t[1]] \/ pstate[t[1]] = "UNUSED" => tstate[t] = "UNUSED_T"
    /\ pstate[t[1]] = "ZOMBIE" => tstate[t] \in Dead

(* Between fork's two sections the child belongs to one forking thread and *)
(* consists of one EMBRYO thread.                                          *)
ForkInv ==
  \A t \in Thread : pc[t] = "fork_copy" =>
    /\ arg[t] \in Proc /\ pstate[arg[t]] = "USED" /\ tnum[arg[t]] = 1
    /\ tstate[<<arg[t], 1>>] = "EMBRYO"
    /\ \A u \in Thread : pc[u] = "fork_copy" /\ arg[u] = arg[t] => u = t

(* The last thread in exit_process, and the one that loads a new image,    *)
(* have no live sibling.                                                   *)
AloneInv ==
  \A t, u \in Thread : pc[t] \in {"exit_process", "exec_load"} /\ u[1] = t[1] /\ u # t
                       => tstate[u] \in Dead

ThreadInv == CpuInv /\ KernelInv /\ SlotInv /\ ForkInv /\ AloneInv /\ StackOwned

-----------------------------------------------------------------------------
(* What has to be added for the wake-ups, the families and the joins *)

(* A thread asleep in wait or kthread_join sleeps on the channel that the  *)
(* event it waits for wakes.                                               *)
ChanInv ==
  \A t \in Thread : tstate[t] = "SLEEPING" =>
    /\ pc[t] = "wait" => chan[t] = ProcChan(t[1])
    /\ pc[t] = "kthread_join" => chan[t] = ThreadChan(Target(t))

(* initproc lives and is nobody's child; a process that has begun to run   *)
(* has a parent; an embryo has neither a parent nor children.              *)
FamilyInv ==
  /\ pstate[initproc] = "USED" /\ parent[initproc] = 0
  /\ \A q \in Proc : parent[q] # q
  /\ \A t \in Thread : t[1] # initproc /\ tstate[t] \notin Dead \cup {"EMBRYO"} => parent[t[1]] # 0
  /\ \A t \in Thread : pc[t] = "fork_copy" =>
       arg[t] # initproc /\ parent[arg[t]] = 0 /\ \A q \in Proc : parent[q] # arg[t]

(* A process with live threads has an UNUSED_T slot below t_num only after *)
(* kthread_create ran out of memory, and then ptable.lock is never free    *)
(* again.                                                                  *)
HoleInv ==
  \A t, u \in Thread :
    tstate[t] \notin Dead /\ u \in Slots(t[1]) /\ tstate[u] = "UNUSED_T"
      => ptlock # NoCpu /\ \A v \in Thread : pc[v] # "zombie"

LifeInv == ChanInv /\ FamilyInv /\ HoleInv /\ ChildHasParent /\ NoLostJoin /\ NoLostWait

(* Liveness *)

(* A process whose live threads are all marked killed becomes a zombie,    *)
(* provided none of them is in kthread_join, which ignores the mark.       *)
CondemnedDies ==
  \A p \in Proc \ {initproc} :
    pstate[p] = "USED" /\ (\A t \in Live(p) : tkilled[t] /\ pc[t] # "kthread_join")
      ~> pstate[p] # "USED"

(* kthread_join returns once its target has exited. *)
JoinReturns ==
  \A t \in Thread : (pc[t] = "kthread_join" /\ tstate[t] \notin Dead /\ tstate[Target(t)] = "ZOMBIE_T")
                    ~> pc[t] # "kthread_join"

(* initproc reaps every zombie it is or becomes the parent of. *)
InitReaps ==
  \A q \in Proc : (pstate[q] = "ZOMBIE" /\ parent[q] = initproc) ~> pstate[q] = "UNUSED"
=============================================================================
