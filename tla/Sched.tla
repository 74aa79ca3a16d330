-------------------------------- MODULE Sched -------------------------------
(***************************************************************************)
(* Spin locks (spinlock.c) and the switch between threads (scheduler,      *)
(* sched, yield, sleep, wakeup of proc.c) on several CPUs with interrupts. *)
(* A context, a thread or a CPU's scheduler, is the sequence of machine    *)
(* level steps it has still to take.  Threads wait for an event and signal *)
(* it, as the drivers do: under the lock lk, sleep while it has not        *)
(* happened; set it and wakeup.                                            *)
(***************************************************************************)
EXTENDS Integers, Sequences, FiniteSets, SequencesExt

CONSTANTS
  NCPU, NTHREAD,
  Waiters, Signallers,     \* threads that wait for the event, threads that signal it
  IRQCPU                   \* ioapicenable routes a device to one CPU

CPUs == 1 .. NCPU
KThreads == 1 .. NTHREAD                 \* in the order of ptable
SLocks == {"ptable", "lk"}

VARIABLES
  locked, lcpu,         \* struct spinlock: locked and cpu
  ncli, intena, IF_,    \* struct cpu, and the CPU's interrupt flag
  run, scanpos,         \* the context each CPU runs; its place in the scheduler's loop
  state,                \* of each thread
  todo,                 \* what each context has still to do
  saved,                \* its local intena in sched
  event,                \* what is waited for
  schedHalt             \* a panic

lockVars == <<locked, lcpu>>
cpuVars == <<ncli, intena, IF_>>
schedVars == <<lockVars, cpuVars, run, scanpos, state, todo, saved, event, schedHalt>>

Nobody == 0
Scheduler(c) == -c
Contexts == KThreads \union {Scheduler(c) : c \in CPUs}
IsThread(x) == x > 0

-----------------------------------------------------------------------------
(* The code as sequences of steps *)

Op(o) == <<o, "">>
(* pushcli (readeflags; cli and the count), the test of holding, xchg *)
acquire(l) == <<<<"readeflags", l>>, <<"xchg", l>>>>
release(l) == <<<<"unlock", l>>, Op("popcli")>>
(* the thread's new state, and sched *)
sched_lax(st) == <<<<"sched", st>>>>
sched(st) == <<<<"sched", st>>, Op("restore")>>
yield == acquire("ptable") \o sched("RUNNABLE") \o release("ptable")
sleep_early(l) == release(l) \o acquire("ptable") \o sched("SLEEPING") \o release("ptable") \o acquire(l)
sleep(l) == acquire("ptable") \o release(l) \o sched("SLEEPING") \o release("ptable") \o acquire(l)
wakeup == acquire("ptable") \o <<Op("wakeup1")>> \o release("ptable")
forkret == release("ptable") \o <<Op("trapret")>>
schedulerLoop == <<Op("sti")>> \o acquire("ptable") \o <<Op("scan")>> \o release("ptable")

AwaitEvent == acquire("lk") \o <<Op("while")>> \o release("lk") \o <<Op("trapret")>>
SignalEvent == acquire("lk") \o <<Op("happened")>> \o wakeup \o release("lk") \o <<Op("trapret")>>
DeviceIntr == acquire("lk") \o <<Op("happened")>> \o wakeup \o release("lk") \o <<Op("iret")>>
TimerIntr == yield \o <<Op("iret")>>

SchedInit ==
  /\ locked = [l \in SLocks |-> FALSE] /\ lcpu = [l \in SLocks |-> Nobody]
  /\ ncli = [c \in CPUs |-> 0] /\ intena = [c \in CPUs |-> FALSE] /\ IF_ = [c \in CPUs |-> FALSE]
  /\ run = [c \in CPUs |-> Scheduler(c)] /\ scanpos = [c \in CPUs |-> 1]
  /\ state = [t \in KThreads |-> "RUNNABLE"]
  /\ todo = [x \in Contexts |-> IF IsThread(x) THEN forkret ELSE schedulerLoop]
  /\ saved = [x \in Contexts |-> FALSE]
  /\ event = FALSE /\ schedHalt = FALSE

-----------------------------------------------------------------------------
(* The steps *)

At(c, o) == ~schedHalt /\ todo[run[c]] # <<>> /\ Head(todo[run[c]])[1] = o
Arg(c) == Head(todo[run[c]])[2]
Then(c, ops) == todo' = [todo EXCEPT ![run[c]] = ops \o Tail(@)]
Done(c) == Then(c, <<>>)
holding(c, l) == locked[l] /\ lcpu[l] = c

(* pushcli reads the flag; an interrupt may still come before cli. *)
Readeflags(c) ==
  /\ At(c, "readeflags") /\ Then(c, <<<<IF IF_[c] THEN "cli_on" ELSE "cli_off", Arg(c)>>>>)
  /\ UNCHANGED <<lockVars, cpuVars, run, scanpos, state, saved, event, schedHalt>>

Pushcli(c) ==
  /\ At(c, "cli_on") \/ At(c, "cli_off")
  /\ Done(c)
  /\ IF_' = [IF_ EXCEPT ![c] = FALSE]
  /\ intena' = [intena EXCEPT ![c] = IF ncli[c] = 0 THEN At(c, "cli_on") ELSE @]
  /\ ncli' = [ncli EXCEPT ![c] = @ + 1]
  /\ schedHalt' = holding(c, Arg(c))                       \* panic("acquire")
  /\ UNCHANGED <<lockVars, run, scanpos, state, saved, event>>

Xchg(c) ==
  /\ At(c, "xchg") /\ ~locked[Arg(c)] /\ Done(c)
  /\ locked' = [locked EXCEPT ![Arg(c)] = TRUE] /\ lcpu' = [lcpu EXCEPT ![Arg(c)] = c]
  /\ UNCHANGED <<cpuVars, run, scanpos, state, saved, event, schedHalt>>

Unlock(c) ==
  /\ At(c, "unlock") /\ Done(c)
  /\ schedHalt' = ~holding(c, Arg(c))                      \* panic("release")
  /\ locked' = [locked EXCEPT ![Arg(c)] = FALSE] /\ lcpu' = [lcpu EXCEPT ![Arg(c)] = Nobody]
  /\ UNCHANGED <<cpuVars, run, scanpos, state, saved, event>>

Popcli(c) ==
  /\ At(c, "popcli") /\ Done(c)
  /\ schedHalt' = (IF_[c] \/ ncli[c] = 0)                  \* panic("popcli...")
  /\ ncli' = [ncli EXCEPT ![c] = @ - 1]
  /\ IF_' = [IF_ EXCEPT ![c] = @ \/ (ncli[c] = 1 /\ intena[c])]
  /\ UNCHANGED <<lockVars, intena, run, scanpos, state, saved, event>>

(* The scheduler goes through the table once, with ptable.lock; it         *)
(* switches to a runnable thread and comes back behind it.                 *)
Sti(c) ==
  /\ At(c, "sti") /\ Done(c)
  /\ IF_' = [IF_ EXCEPT ![c] = TRUE]
  /\ UNCHANGED <<lockVars, ncli, intena, run, scanpos, state, saved, event, schedHalt>>

Scan(c) ==
  LET ready == {t \in KThreads : t >= scanpos[c] /\ state[t] = "RUNNABLE"}
      t == CHOOSE t \in ready : \A u \in ready : t <= u
  IN /\ At(c, "scan")
     /\ IF ready = {}
        THEN /\ Then(c, <<>>) /\ scanpos' = [scanpos EXCEPT ![c] = 1] /\ UNCHANGED <<run, state>>
        ELSE /\ run' = [run EXCEPT ![c] = t]
             /\ state' = [state EXCEPT ![t] = "RUNNING"]
             /\ scanpos' = [scanpos EXCEPT ![c] = t + 1] /\ UNCHANGED todo
     /\ UNCHANGED <<lockVars, cpuVars, saved, event, schedHalt>>

Again(c) ==
  /\ run[c] = Scheduler(c) /\ todo[run[c]] = <<>>
  /\ todo' = [todo EXCEPT ![run[c]] = schedulerLoop]
  /\ UNCHANGED <<lockVars, cpuVars, run, scanpos, state, saved, event, schedHalt>>

(* sched: back to this CPU's scheduler; "restore" runs when the thread is  *)
(* switched to again, on whatever CPU.                                     *)
SchedSwitch(c) ==
  /\ At(c, "sched") /\ Done(c)
  /\ schedHalt' = (~holding(c, "ptable") \/ ncli[c] # 1 \/ IF_[c])
  /\ state' = [state EXCEPT ![run[c]] = Arg(c)]
  /\ saved' = [saved EXCEPT ![run[c]] = intena[c]]
  /\ run' = [run EXCEPT ![c] = Scheduler(c)]
  /\ UNCHANGED <<lockVars, cpuVars, scanpos, event>>

Restore(c) ==
  /\ At(c, "restore") /\ Done(c)
  /\ intena' = [intena EXCEPT ![c] = saved[run[c]]]
  /\ UNCHANGED <<lockVars, ncli, IF_, run, scanpos, state, saved, event, schedHalt>>

Wakeup1(c) ==
  /\ At(c, "wakeup1") /\ Done(c)
  /\ state' = [t \in KThreads |-> IF state[t] = "SLEEPING" THEN "RUNNABLE" ELSE state[t]]
  /\ UNCHANGED <<lockVars, cpuVars, run, scanpos, saved, event, schedHalt>>

(* while(!event) sleep(chan, lk); event = 0; *)
While(c) ==
  /\ At(c, "while")
  /\ IF event THEN Done(c) ELSE Then(c, sleep("lk") \o <<Op("while")>>)
  /\ event' = FALSE
  /\ UNCHANGED <<lockVars, cpuVars, run, scanpos, state, saved, schedHalt>>

Happened(c) ==
  /\ At(c, "happened") /\ Done(c)
  /\ event' = TRUE
  /\ UNCHANGED <<lockVars, cpuVars, run, scanpos, state, saved, schedHalt>>

(* The return to what was interrupted, or to user space. *)
Iret(c) ==
  /\ At(c, "iret") \/ At(c, "trapret")
  /\ Done(c) /\ IF_' = [IF_ EXCEPT ![c] = TRUE]
  /\ UNCHANGED <<lockVars, ncli, intena, run, scanpos, state, saved, event, schedHalt>>

(* A system call from user space, through a trap gate; *)
Syscall(c, ops) ==
  /\ ~schedHalt /\ IsThread(run[c]) /\ todo[run[c]] = <<>>
  /\ todo' = [todo EXCEPT ![run[c]] = ops]
  /\ UNCHANGED <<lockVars, cpuVars, run, scanpos, state, saved, event, schedHalt>>

(* an interrupt, through a gate that clears the flag.  The clock's makes a *)
(* running thread yield.                                                   *)
Interrupt(c, ops) ==
  /\ ~schedHalt /\ IF_[c]
  /\ todo' = [todo EXCEPT ![run[c]] = ops \o @] /\ IF_' = [IF_ EXCEPT ![c] = FALSE]
  /\ UNCHANGED <<lockVars, ncli, intena, run, scanpos, state, saved, event, schedHalt>>

SchedNext ==
  \E c \in CPUs :
    \/ Readeflags(c) \/ Pushcli(c) \/ Xchg(c) \/ Unlock(c) \/ Popcli(c) \/ Sti(c) \/ Scan(c) \/ Again(c)
    \/ SchedSwitch(c) \/ Restore(c) \/ Wakeup1(c) \/ While(c) \/ Happened(c) \/ Iret(c)
    \/ (run[c] \in Waiters /\ Syscall(c, AwaitEvent)) \/ (run[c] \in Signallers /\ Syscall(c, SignalEvent))
    \/ (c = IRQCPU /\ Interrupt(c, DeviceIntr))
    \/ IsThread(run[c]) /\ state[run[c]] = "RUNNING" /\ Interrupt(c, TimerIntr)
SchedSpec == SchedInit /\ [][SchedNext]_schedVars

-----------------------------------------------------------------------------
(* Properties *)

(* sleep and wakeup: a thread sleeps while the event has happened only as  *)
(* long as the one who set it, with lk, is on its way to wake it.          *)
NoLostEvent == (\E t \in KThreads : state[t] = "SLEEPING") =>
                 (event => locked["lk"])

(* A CPU that holds a spin lock takes no interrupt, so that no handler     *)
(* spins on a lock its own CPU holds, and ncli counts the locks.  intena   *)
(* belongs to the thread, not to the CPU: whatever switches came between,  *)
(* a thread in the kernel without a lock has interrupts on, unless it is   *)
(* in an interrupt handler (or has just been created), and off in one.  A  *)
(* thread runs on one CPU at a time, and the panics of acquire, release,   *)
(* popcli and sched are not reached.                                       *)
SwitchSafe ==
  /\ \A c \in CPUs :
       /\ IF_[c] => (ncli[c] = 0 /\ \A l \in SLocks : ~holding(c, l))
       /\ Cardinality({l \in SLocks : holding(c, l)}) <= ncli[c]
  /\ \A c \in CPUs : (IsThread(run[c]) /\ ncli[c] = 0) =>
       LET ops == {todo[run[c]][i][1] : i \in 1 .. Len(todo[run[c]])} IN
       /\ IF_[c] => "iret" \notin ops
       /\ ~IF_[c] => ("iret" \in ops \/ todo[run[c]] = <<Op("trapret")>>)
  /\ \A c, d \in CPUs : (c # d) => run[c] # run[d]
  /\ ~schedHalt
=============================================================================
