------------------------------ MODULE Terminal ------------------------------
(***************************************************************************)
(* What console input promises: a line is edited, then handed over whole;  *)
(* a read takes bytes in order, never past the end of a line, and an end   *)
(* of file is a read of nothing.                                           *)
(***************************************************************************)
EXTENDS Integers, Sequences

CONSTANTS Readers, Chars, Capacity     \* Chars includes "nl" and "eof"

VARIABLES
  line,     \* what is being typed
  ready,    \* what was handed over and not yet read
  seen      \* what each reader's call has got so far

Init == line = <<>> /\ ready = <<>> /\ seen = [r \in Readers |-> <<>>]

Ends(c) == c \in {"nl", "eof"}
Room == Len(ready) + Len(line) < Capacity

Type(c) ==
  /\ Room /\ ~Ends(c) /\ Len(ready) + Len(line) + 1 < Capacity
  /\ line' = Append(line, c) /\ UNCHANGED <<ready, seen>>

Enter(c) ==
  /\ Room /\ (Ends(c) \/ Len(ready) + Len(line) + 1 = Capacity)
  /\ ready' = ready \o Append(line, c) /\ line' = <<>> /\ UNCHANGED seen

Rubout(n) ==
  /\ n \in {1, Len(line)} /\ n <= Len(line)
  /\ line' = SubSeq(line, 1, Len(line) - n) /\ UNCHANGED <<ready, seen>>

Take(r, n) ==
  /\ \A i \in 1 .. n : ready[i] # "eof" /\ (ready[i] = "nl" => i = n)
  /\ seen' = [seen EXCEPT ![r] = @ \o SubSeq(ready, 1, n)]
  /\ ready' = SubSeq(ready, n + 1, Len(ready)) /\ UNCHANGED line

EndOfFile(r) ==
  /\ ready # <<>> /\ Head(ready) = "eof" /\ seen[r] = <<>>
  /\ ready' = Tail(ready) /\ UNCHANGED <<line, seen>>

Return(r) == seen' = [seen EXCEPT ![r] = <<>>] /\ UNCHANGED <<line, ready>>

Next ==
  \/ \E c \in Chars : Type(c) \/ Enter(c)
  \/ \E n \in 1 .. Capacity : Rubout(n)
  \/ \E r \in Readers : EndOfFile(r) \/ Return(r) \/ \E n \in 1 .. Len(ready) : Take(r, n)

Spec == Init /\ [][Next]_<<line, ready, seen>>
=============================================================================
