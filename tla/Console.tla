------------------------------ MODULE Console -------------------------------
(***************************************************************************)
(* Console input (console.c): the interrupt handler edits a line in a      *)
(* circular buffer and hands it over, consoleread takes it.  Both run      *)
(* under cons.lock; kill and exec's wake-ups do not take it.               *)
(***************************************************************************)
EXTENDS Integers, Sequences, FiniteSets, FiniteSetsExt

CONSTANTS
  Tellers,                \* threads that read the console
  INPUT_BUF, UWRAP,       \* UWRAP is 2^32, a multiple of INPUT_BUF
  Letters,                \* the characters without a meaning
  ReadSizes

(* A read of no bytes returns at once and is left out. *)
ASSUME ConsoleAssumption ==
  /\ INPUT_BUF \in Nat \ {0} /\ UWRAP \in Nat /\ UWRAP % INPUT_BUF = 0 /\ UWRAP > INPUT_BUF
  /\ ReadSizes \subseteq Nat \ {0}

VARIABLES
  input,     \* buf, r, w, e
  ct,        \* the consoleread each thread is in
  struck     \* threads whose process was killed

consVars == <<input, ct, struck>>

CIdle == [pc |-> "user", n |-> 0, target |-> 0, dst |-> <<>>]

ConsoleInit ==
  /\ input = [buf |-> [i \in 0 .. INPUT_BUF - 1 |-> "nul"], r |-> 0, w |-> 0, e |-> 0]
  /\ ct = [t \in Tellers |-> CIdle] /\ struck = {}

CAt(t, l) == ct[t].pc = l
(* Nobody holds cons.lock: a reader keeps it from its test until sleep. *)
ConsFree == \A t \in Tellers : ~CAt(t, "doze")
Dist(a, b) == (b - a) % UWRAP
(* The n bytes of the buffer from index a on. *)
Span(a, n) == [j \in 1 .. n |-> input.buf[((a + j - 1) % UWRAP) % INPUT_BUF]]

(* wakeup(&input.r) *)
WakeTellers_none == ct
WakeTellers == [t \in Tellers |-> IF CAt(t, "asleep") THEN [ct[t] EXCEPT !.pc = "read"] ELSE ct[t]]

(* consoleintr, for one character: *)
(* C('H'): backspace; C('U'): kill line, back to the last newline or to w. *)
Backspace ==
  /\ ConsFree /\ input.e # input.w
  /\ input' = [input EXCEPT !.e = (@ - 1) % UWRAP]
  /\ UNCHANGED <<ct, struck>>

KillLine ==
  LET len == Dist(input.w, input.e)
      typed == Span(input.w, len)
      keep == Max({0} \union {j \in 1 .. len : typed[j] = "nl"})
  IN /\ ConsFree /\ keep < len
     /\ input' = [input EXCEPT !.e = (input.w + keep) % UWRAP]
     /\ UNCHANGED <<ct, struck>>

(* any other character, if it fits. *)
Full_late(e) == Dist(input.r, e) > INPUT_BUF
Full(e) == Dist(input.r, e) >= INPUT_BUF
Key(c) ==
  LET e == (input.e + 1) % UWRAP
      commit == c \in {"nl", "eof"} \/ e = (input.r + INPUT_BUF) % UWRAP
  IN /\ ConsFree /\ ~Full(input.e)
     /\ input' = [input EXCEPT !.buf[input.e % INPUT_BUF] = c, !.e = e,
                               !.w = IF commit THEN e ELSE @]
     /\ ct' = IF commit THEN WakeTellers ELSE ct
     /\ UNCHANGED struck

-----------------------------------------------------------------------------
ReadConsole(t, n) ==
  /\ CAt(t, "user") /\ t \notin struck
  /\ ct' = [ct EXCEPT ![t] = [CIdle EXCEPT !.pc = "read", !.n = n, !.target = n]]
  /\ UNCHANGED <<input, struck>>

(* The loop of consoleread until it is done or finds r = w: it ends after  *)
(* a newline or n bytes, and at a ^D, which stays for the next call when   *)
(* this one has bytes already; or, at r = w, if the process was killed.    *)
consoleread(t) ==
  LET all == Span(input.r, Dist(input.r, input.w))
      n == ct[t].n
      stops == {j \in 1 .. Len(all) : all[j] \in {"nl", "eof"} \/ j = n}
      m == IF stops = {} THEN Len(all) ELSE Min(stops)        \* bytes looked at
      eof == m > 0 /\ all[m] = "eof"
      k == IF eof THEN m - 1 ELSE m                           \* bytes delivered
      back == eof /\ (n - k) < ct[t].target
  IN /\ CAt(t, "read") /\ ConsFree
     /\ input' = [input EXCEPT !.r = (@ + (IF back THEN k ELSE m)) % UWRAP]
     /\ ct' = [ct EXCEPT ![t] =
          [ct[t] EXCEPT !.n = n - k, !.dst = ct[t].dst \o SubSeq(all, 1, k),
             !.pc = IF stops # {} \/ t \in struck THEN "done" ELSE "doze"]]
     /\ UNCHANGED struck

(* sleep(&input.r, &cons.lock), *)
ConsoleSleep(t) ==
  /\ CAt(t, "doze")
  /\ ct' = [ct EXCEPT ![t].pc = "asleep"]
  /\ UNCHANGED <<input, struck>>

ConsoleReturn(t) ==
  /\ CAt(t, "done")
  /\ ct' = [ct EXCEPT ![t] = CIdle]
  /\ UNCHANGED <<input, struck>>

(* kill: the flag, and a sleeping thread is made runnable. *)
KillReader(t) ==
  /\ t \notin struck
  /\ struck' = struck \union {t}
  /\ ct' = [ct EXCEPT ![t].pc = IF @ = "asleep" THEN "read" ELSE @]
  /\ UNCHANGED input

(* exec, in another thread of the process, wakes it again and again; its   *)
(* own killed flag is not looked at here.                                  *)
Rouse(t) ==
  /\ CAt(t, "asleep")
  /\ ct' = [ct EXCEPT ![t].pc = "read"]
  /\ UNCHANGED <<input, struck>>

ConsoleNext ==
  \/ Backspace \/ KillLine \/ \E c \in Letters \union {"nl", "eof"} : Key(c)
  \/ \E t \in Tellers :
       \/ consoleread(t) \/ ConsoleSleep(t) \/ ConsoleReturn(t) \/ KillReader(t) \/ Rouse(t)
       \/ \E n \in ReadSizes : ReadConsole(t, n)
ConsoleSpec == ConsoleInit /\ [][ConsoleNext]_consVars

-----------------------------------------------------------------------------
(* Properties *)

(* A thread sleeps in consoleread only while no complete input is there;   *)
(* and the buffer is never full of unfinished input, which nobody could    *)
(* finish or read.                                                         *)
NoLostConsoleWakeup ==
  /\ \A t \in Tellers : CAt(t, "asleep") => input.r = input.w
  /\ Full(input.e) => input.r # input.w

(* The circular buffer implements the terminal: editing, handing over and  *)
(* reading, across the wrap of the buffer and of its indices.              *)
Held == Dist(input.r, input.w)      \* bytes handed over, bytes being typed
Typed == Dist(input.w, input.e)
HeldBytes == Span(input.r, Held)
TypedBytes == Span(input.w, Typed)
Seen == [t \in Tellers |-> ct[t].dst]
Term == INSTANCE Terminal WITH
  Readers <- Tellers, Chars <- Letters \union {"nl", "eof"}, Capacity <- INPUT_BUF,
  line <- TypedBytes, ready <- HeldBytes, seen <- Seen
ConsoleIsTerminal == Term!Spec

-----------------------------------------------------------------------------
(* The inductive invariant.  r, w and e follow one another within a        *)
(* buffer's length; a buffer that fills up is handed over at once; what is *)
(* being typed holds no end of line; and a reader that goes to sleep has   *)
(* found r = w under the lock.                                             *)
CChars == Letters \union {"nl", "eof", "nul"}
CCall == [pc : {"user", "read", "doze", "asleep", "done"}, n : Int, target : Int, dst : Seq(CChars)]

InputInv ==
  /\ input \in [buf : [0 .. INPUT_BUF - 1 -> CChars],
                r : 0 .. UWRAP - 1, w : 0 .. UWRAP - 1, e : 0 .. UWRAP - 1]
  /\ Held + Typed <= INPUT_BUF
  /\ Held + Typed = INPUT_BUF => Typed = 0
  /\ \A j \in 1 .. Typed : TypedBytes[j] \notin {"nl", "eof"}

TellerInv(t) ==
  /\ ct[t].pc \in {"read", "doze", "asleep"} => ct[t].n > 0 /\ Len(ct[t].dst) = ct[t].target - ct[t].n
  /\ ct[t].pc \in {"doze", "asleep"} => input.r = input.w

ConsoleInv == InputInv /\ ct \in [Tellers -> CCall] /\ \A t \in Tellers : TellerInv(t)
=============================================================================
