-------------------------------- MODULE Kbd ---------------------------------
(***************************************************************************)
(* The keyboard driver (kbd.c): kbdgetc keeps the state of the modifier    *)
(* keys from scan codes that arrive one byte at a time.                    *)
(***************************************************************************)
EXTENDS Integers, Sequences, FiniteSets

CONSTANT MAXWIRE       \* bytes in the controller and on their way

(* The keys and what they send: a code, for some after the prefix 0xE0.    *)
(* "fake" is the shift a keyboard sends around some keys: E0 2A.           *)
Keys == {"lshift", "rshift", "lctl", "rctl", "capslock", "u", "fake"}
Prefixed == {"rctl", "fake"}
Code == [k \in Keys |-> CASE k = "rctl" -> "lctl" [] k = "fake" -> "lshift" [] OTHER -> k]
ScanBytes(k, up) == (IF k \in Prefixed THEN <<[code |-> "E0", up |-> FALSE]>> ELSE <<>>)
               \o <<[code |-> Code[k], up |-> up]>>

VARIABLES wire, held, shift

kbdVars == <<wire, held, shift>>
KbdInit == wire = <<>> /\ held = {} /\ shift = {}

(* shiftcode and togglecode, by code and by whether 0x80 is added *)
shiftcode(code, e0) ==
  CASE code = "lctl" -> {"CTL"}
    [] code \in {"lshift", "rshift"} /\ ~e0 -> {"SHIFT"}
    [] OTHER -> {}
togglecode(code, e0) == IF code = "capslock" /\ ~e0 THEN {"CAPSLOCK"} ELSE {}

Press(k) ==
  /\ k \notin held /\ Len(wire \o ScanBytes(k, FALSE)) <= MAXWIRE
  /\ held' = held \union {k} /\ wire' = wire \o ScanBytes(k, FALSE) /\ UNCHANGED shift
Release(k) ==
  /\ k \in held /\ Len(wire \o ScanBytes(k, TRUE)) <= MAXWIRE
  /\ held' = held \ {k} /\ wire' = wire \o ScanBytes(k, TRUE) /\ UNCHANGED shift

Xor(s, t) == (s \ t) \union (t \ s)
shifted_plain(b) == shift \union shiftcode(b.code, FALSE)
(* A key press: the escape is used up, the modifiers are set or toggled. *)
shifted(b) ==
  LET e0 == "E0ESC" \in shift IN
  Xor((shift \ {"E0ESC"}) \union shiftcode(b.code, e0), togglecode(b.code, e0))
kbdgetc ==
  LET b == Head(wire) IN
  /\ wire # <<>> /\ wire' = Tail(wire) /\ UNCHANGED held
  /\ shift' = IF b.code = "E0" THEN shift \union {"E0ESC"}
              ELSE IF b.up THEN shift \ (shiftcode(b.code, "E0ESC" \in shift) \union {"E0ESC"})
              ELSE shifted(b)

KbdNext == kbdgetc \/ \E k \in Keys : Press(k) \/ Release(k)
KbdSpec == KbdInit /\ [][KbdNext]_kbdVars

(* No modifier is stuck: once every byte has been taken, one is set only   *)
(* if a key for it is held down, and no escape waits for its second byte.  *)
NoStuckModifier ==
  wire = <<>> =>
    /\ "E0ESC" \notin shift
    /\ "CTL" \in shift => held \intersect {"lctl", "rctl"} # {}
    /\ "SHIFT" \in shift => held \intersect {"lshift", "rshift"} # {}
=============================================================================
