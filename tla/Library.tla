------------------------------- MODULE Library ------------------------------
(***************************************************************************)
(* Algorithms of the C library and the user programs: the matcher of       *)
(* grep.c, printint of printf.c and console.c with atoi of ulib.c, memmove *)
(* of string.c.  Each state is one input.                                  *)
(***************************************************************************)
EXTENDS Integers, Sequences, FiniteSets, FiniteSetsExt, SequencesExt

CONSTANTS
  ReChars, TextChars, MAXRE, MAXTEXT,     \* patterns and texts of grep
  WIDTH,                                  \* an int has 2^WIDTH values
  MEMSIZE                                 \* bytes of the memory memmove works in

VARIABLE call     \* the function called and its arguments

INTS == 2^WIDTH
Upto(n, S) == UNION {[1 .. k -> S] : k \in 0 .. n}
Behind(s, i) == SubSeq(s, i + 1, Len(s))

-----------------------------------------------------------------------------
(* grep.c: a pattern and a text end where their sequence ends. *)
RECURSIVE matchhere(_, _)
(* matchstar tries the rest after 0, 1, ... characters that c stands for. *)
RECURSIVE matchstar(_, _, _)
matchstar(c, re, text) ==
  \/ matchhere(re, text)
  \/ text # <<>> /\ (Head(text) = c \/ c = ".") /\ matchstar(c, re, Tail(text))
matchhere_anchor(re, text) ==
  IF re = <<>> THEN TRUE
  ELSE IF Len(re) > 1 /\ re[2] = "*" THEN matchstar(re[1], Behind(re, 2), text)
  ELSE IF re[1] = "$" THEN text = <<>>
  ELSE text # <<>> /\ (re[1] = "." \/ re[1] = Head(text)) /\ matchhere(Tail(re), Tail(text))
matchhere(re, text) ==
  IF re = <<>> THEN TRUE
  ELSE IF Len(re) > 1 /\ re[2] = "*" THEN matchstar(re[1], Behind(re, 2), text)
  ELSE IF Len(re) = 1 /\ re[1] = "$" THEN text = <<>>
  ELSE text # <<>> /\ (re[1] = "." \/ re[1] = Head(text)) /\ matchhere(Tail(re), Tail(text))
match(re, text) ==
  IF re # <<>> /\ re[1] = "^" THEN matchhere(Tail(re), text)
  ELSE \E i \in 0 .. Len(text) : matchhere(re, Behind(text, i))

-----------------------------------------------------------------------------
(* printint: the digits, least significant first as they fill buf, and the *)
(* sign; negation and conversion are modulo 2^WIDTH.                       *)
Unsigned(xx) == xx % INTS
RECURSIVE digits(_, _)
digits(x, base) == <<x % base>> \o (IF x \div base = 0 THEN <<>> ELSE digits(x \div base, base))
printint(xx, base, sign) ==
  LET neg == sign /\ xx < 0
      x == IF neg THEN Unsigned(-xx) ELSE Unsigned(xx)
  IN [minus |-> neg, text |-> Reverse(digits(x, base))]
atoi(text) == FoldLeft(LAMBDA n, d : n * 10 + d, 0, text)

(* memmove: from the top down when the destination lies above, inside the  *)
(* source; else from the bottom up.                                        *)
RECURSIVE copyup(_, _, _, _)
copyup(m, d, s, n) == IF n = 0 THEN m ELSE copyup([m EXCEPT ![d] = m[s]], d + 1, s + 1, n - 1)
RECURSIVE copydown(_, _, _, _)
copydown(m, d, s, n) == IF n = 0 THEN m ELSE copydown([m EXCEPT ![d + n - 1] = m[s + n - 1]], d, s, n - 1)
memmove(m, d, s, n) == IF s < d /\ s + n > d THEN copydown(m, d, s, n) ELSE copyup(m, d, s, n)

-----------------------------------------------------------------------------
Idle == [fn |-> "none"]
LibraryInit == call = Idle
CallMatch == \E re \in Upto(MAXRE, ReChars), text \in Upto(MAXTEXT, TextChars) :
               call' = [fn |-> "match", re |-> re, text |-> text]
CallPrintint == \E xx \in -(INTS \div 2) .. INTS \div 2 - 1, base \in {10, 16}, sign \in BOOLEAN :
               call' = [fn |-> "printint", xx |-> xx, base |-> base, sign |-> sign]
CallMemmove == \E d, s \in 1 .. MEMSIZE : \E n \in 0 .. MEMSIZE + 1 - Max({d, s}) :
               call' = [fn |-> "memmove", d |-> d, s |-> s, n |-> n]
LibraryNext == call = Idle /\ (CallMatch \/ CallPrintint \/ CallMemmove)
LibrarySpec == LibraryInit /\ [][LibraryNext]_call

-----------------------------------------------------------------------------
(* Reference: the texts a pattern stands for. *)
RECURSIVE InLanguage(_, _, _)
(* re[i ..] stands for exactly the text s. *)
InLanguage(re, i, s) ==
  IF i > Len(re) THEN s = <<>>
  ELSE IF i < Len(re) /\ re[i + 1] = "*"
  THEN \E k \in 0 .. Len(s) : (\A j \in 1 .. k : re[i] \in {".", s[j]}) /\ InLanguage(re, i + 2, Behind(s, k))
  ELSE s # <<>> /\ re[i] \in {".", s[1]} /\ InLanguage(re, i + 1, Tail(s))
(* A "$" that follows a complete item at the end is the anchor. *)
RECURSIVE ItemAt(_, _, _)
ItemAt(re, i, n) == i = n \/ (i < n /\ ItemAt(re, IF i < Len(re) /\ re[i + 1] = "*" THEN i + 2 ELSE i + 1, n))
StandsFor(re, text) ==
  LET first == IF re # <<>> /\ re[1] = "^" THEN 2 ELSE 1
      anchored == re # <<>> /\ Len(re) >= first /\ re[Len(re)] = "$" /\ ItemAt(re, first, Len(re))
      body == IF anchored THEN SubSeq(re, 1, Len(re) - 1) ELSE re
  IN \E a, b \in 0 .. Len(text) :
       /\ a <= b /\ (first = 2 => a = 0) /\ (anchored => b = Len(text))
       /\ InLanguage(body, first, SubSeq(text, a + 1, b))

(* Properties *)

(* The matcher finds a pattern exactly when some part of the text is one   *)
(* the pattern stands for.                                                 *)
MatchesPattern == call.fn = "match" => (match(call.re, call.text) <=> StandsFor(call.re, call.text))

(* printint writes the number: its digits have its value, for the smallest *)
(* int and for unsigned too; atoi reads what it wrote.                     *)
PrintsNumber ==
  call.fn = "printint" =>
    LET p == printint(call.xx, call.base, call.sign)
        value == FoldLeft(LAMBDA n, d : n * call.base + d, 0, p.text)
    IN /\ (IF p.minus THEN -value ELSE value) = IF call.sign THEN call.xx ELSE Unsigned(call.xx)
       /\ (call.base = 10 /\ call.xx >= 0) => atoi(p.text) = call.xx

(* memmove moves: the destination gets what the source was before, also    *)
(* when they overlap, and nothing else changes.                            *)
MovesMemory ==
  call.fn = "memmove" =>
    LET m == [i \in 1 .. MEMSIZE |-> i] IN
    memmove(m, call.d, call.s, call.n) =
      [i \in 1 .. MEMSIZE |-> IF i \in call.d .. call.d + call.n - 1 THEN m[i - call.d + call.s] ELSE m[i]]

(* Each algorithm gives what its reference definition gives. *)
LibraryCorrect == MatchesPattern /\ PrintsNumber /\ MovesMemory
=============================================================================
