------------------------------- MODULE Clock --------------------------------
(***************************************************************************)
(* The clock: the timer interrupt counts ticks (trap.c) and sys_sleep      *)
(* waits for n of them (sysproc.c), both under tickslock.                  *)
(***************************************************************************)
EXTENDS Integers, FiniteSets

CONSTANTS
  Sleepers,
  TWRAP, Naps,     \* 2^32, and the n of sleep
  MAXLATE          \* ticks a woken thread may have to wait for a CPU

ASSUME ClockAssumption == TWRAP \in Nat \ {0} /\ MAXLATE \in Nat /\ Naps \subseteq Nat

VARIABLES
  ticks,
  st,        \* the call of each thread; past: the ticks there really were
  shot       \* threads whose process was killed

clockVars == <<ticks, st, shot>>
NoNap == [pc |-> "user", n |-> 0, ticks0 |-> 0, past |-> 0]
ClockInit == ticks = 0 /\ st = [t \in Sleepers |-> NoNap] /\ shot = {}

(* A thread between the test of killed and its sleep has tickslock. *)
TicksFree == \A t \in Sleepers : st[t].pc # "doze"
Elapsed_signed(t) == ticks - st[t].ticks0
Elapsed(t) == (ticks - st[t].ticks0) % TWRAP

SleepCall(t, n) ==
  /\ st[t].pc = "user" /\ t \notin shot /\ TicksFree
  /\ st' = [st EXCEPT ![t] = [pc |-> "test", n |-> n, ticks0 |-> ticks, past |-> 0]]
  /\ UNCHANGED <<ticks, shot>>

(* while(ticks - ticks0 < n): return -1 if killed, else sleep(&ticks) *)
sys_sleep(t) ==
  /\ st[t].pc = "test" /\ TicksFree
  /\ st' = [st EXCEPT ![t].pc = IF Elapsed(t) >= st[t].n THEN "slept" ELSE IF t \in shot THEN "killed" ELSE "doze"]
  /\ UNCHANGED <<ticks, shot>>
FallAsleep(t) ==
  /\ st[t].pc = "doze"
  /\ st' = [st EXCEPT ![t].pc = "asleep"]
  /\ UNCHANGED <<ticks, shot>>
SleepReturns(t) ==
  /\ st[t].pc \in {"slept", "killed"}
  /\ st' = [st EXCEPT ![t] = NoNap]
  /\ UNCHANGED <<ticks, shot>>

(* A thread that has been woken runs before the clock has gone around. *)
Tick ==
  /\ TicksFree /\ \A t \in Sleepers : st[t].pc = "test" => st[t].past < st[t].n + MAXLATE
  /\ ticks' = (ticks + 1) % TWRAP
  /\ st' = [t \in Sleepers |-> [st[t] EXCEPT
       !.pc = IF @ = "asleep" THEN "test" ELSE @,
       !.past = IF st[t].pc \in {"test", "doze", "asleep"} THEN @ + 1 ELSE @]]
  /\ UNCHANGED shot

Shoot(t) ==
  /\ shot' = shot \union {t}
  /\ st' = [st EXCEPT ![t].pc = IF @ = "asleep" THEN "test" ELSE @]
  /\ UNCHANGED ticks

ClockNext ==
  \/ Tick
  \/ \E t \in Sleepers : \/ sys_sleep(t) \/ FallAsleep(t) \/ SleepReturns(t) \/ Shoot(t)
                        \/ \E n \in Naps : SleepCall(t, n)
ClockSpec == ClockInit /\ [][ClockNext]_clockVars

-----------------------------------------------------------------------------
(* What holds of every call while naps, and the wait for a CPU after them, *)
(* are shorter than the time the counter takes to come around.             *)

ShortNaps == \A n \in Naps : n + MAXLATE < TWRAP

ClockCall == [pc : {"user", "test", "doze", "asleep", "slept", "killed"},
              n : Naps \union {0}, ticks0 : 0 .. TWRAP - 1, past : Nat]
Sleeping == {"test", "doze", "asleep"}
NapInv(t) ==
  /\ st[t].pc \in Sleeping => (Elapsed(t) = st[t].past /\ st[t].past <= st[t].n + MAXLATE /\ st[t].n \in Naps)
  /\ st[t].pc \in {"doze", "asleep"} => st[t].past < st[t].n
  /\ st[t].pc = "slept" => st[t].past >= st[t].n
ClockInv ==
  /\ ticks \in 0 .. TWRAP - 1 /\ st \in [Sleepers -> ClockCall]
  /\ \A t \in Sleepers : NapInv(t)

-----------------------------------------------------------------------------
(* A sleep returns success only after n ticks, and a thread is asleep only *)
(* while fewer have gone by, also across the wrap of ticks.                *)
SleepsLongEnough ==
  \A t \in Sleepers :
    /\ st[t].pc = "slept" => st[t].past >= st[t].n
    /\ st[t].pc = "asleep" => st[t].past < st[t].n
=============================================================================
