---------------------------- MODULE StreamProofs ----------------------------
(***************************************************************************)
(* Pipes, the clock and the console, for buffers and counters of any size: *)
(* nobody sleeps while there is something to wake for, a sleep lasts as    *)
(* long as it was asked to, a pipe is a bounded queue of bytes and the     *)
(* console a line-edited terminal, all of it across the wrap of the        *)
(* counters.                                                               *)
(***************************************************************************)
EXTENDS Pipe, Clock, Console, SequenceTheorems, WellFoundedInduction, TLAPS

(* Zenon proves most of these steps; where it takes arithmetic, strings or *)
(* many functions at once, the step asks for SMT.                          *)
USE ZenonT(30)

-----------------------------------------------------------------------------
(* Remainders: counters that wrap, and the place of a counter in a buffer. *)

LEMMA Division ==
  ASSUME NEW a \in Int, NEW w \in Int, w > 0
  PROVE  \E q \in Int : a = w * q + (a % w)
BY SMTT(30)

LEMMA Remainder ==
  ASSUME NEW a \in Int, NEW w \in Int, w > 0
  PROVE  a % w \in Int /\ 0 <= a % w /\ a % w < w
BY SMTT(30)

LEMMA RemainderIs ==
  ASSUME NEW a \in Int, NEW w \in Int, w > 0,
         NEW q \in Int, NEW r \in Int, 0 <= r, r < w, a = w * q + r
  PROVE  a % w = r
<1> DEFINE s == a % w
<1>1. s \in Int /\ 0 <= s /\ s < w
  BY Remainder
<1>2. PICK p \in Int : a = w * p + s
  BY Division
<1> HIDE DEF s
<1>3. w * (q - p) = s - r
  BY SMTT(30), <1>1, <1>2
<1>4. q - p < 1
  BY SMTT(30), <1>1, <1>3
<1>5. q - p > -1
  BY SMTT(30), <1>1, <1>3
<1>6. s = r
  BY SMTT(30), <1>1, <1>3, <1>4, <1>5
<1> QED
  BY <1>6 DEF s

LEMMA SmallRemainder ==
  ASSUME NEW a \in Int, NEW w \in Int, 0 <= a, a < w
  PROVE  a % w = a
<1>1. w > 0 /\ 0 \in Int /\ a = w * 0 + a
  BY SMTT(30)
<1> QED
  BY <1>1, RemainderIs

(* The index into a buffer of n of a counter that wraps at a multiple of n. *)
LEMMA RemainderTwice ==
  ASSUME NEW a \in Int, NEW w \in Int, NEW n \in Int, n > 0, w > 0, w % n = 0
  PROVE  (a % w) % n = a % n
<1> DEFINE s == a % w
           u == s % n
<1>1. s \in Int /\ 0 <= s /\ s < w
  BY Remainder
<1>2. PICK p \in Int : a = w * p + s
  BY Division
<1>3. PICK k \in Int : w = n * k + (w % n)
  BY Division
<1>4. u \in Int /\ 0 <= u /\ u < n
  BY <1>1, Remainder
<1>5. PICK q \in Int : s = n * q + u
  BY <1>1, Division
<1> HIDE DEF s, u
<1>6. w = n * k
  BY SMTT(30), <1>3
<1>7. w * p = n * (k * p) /\ k * p \in Int
  BY SMTT(30), <1>6
<1>8. a = n * (k * p + q) + u /\ k * p + q \in Int
  BY SMTT(30), <1>1, <1>2, <1>4, <1>5, <1>7
<1>9. a % n = u
  BY <1>4, <1>8, RemainderIs
<1> QED
  BY <1>9 DEF s, u

(* Numbers less than w apart have the same remainder only if they are equal. *)
LEMMA SameRemainder ==
  ASSUME NEW a \in Int, NEW b \in Int, NEW w \in Int, w > 0,
         a - b < w, b - a < w, a % w = b % w
  PROVE  a = b
<1> DEFINE s == a % w
<1>1. s \in Int
  BY Remainder
<1>2. PICK p \in Int : a = w * p + s
  BY Division
<1>3. PICK q \in Int : b = w * q + s
  BY Division
<1> HIDE DEF s
<1>4. a - b = w * (p - q)
  BY SMTT(30), <1>1, <1>2, <1>3
<1>5. p - q < 1
  BY SMTT(30), <1>4
<1>6. p - q > -1
  BY SMTT(30), <1>4
<1> QED
  BY SMTT(30), <1>4, <1>5, <1>6

(* How far counter a is ahead of counter z, and a moved on by k, modulo w. *)
Ahead(a, z, w) == (a - z) % w
Moved(a, k, w) == (a + k) % w

LEMMA AheadIs ==
  ASSUME NEW a \in Int, NEW z \in Int, NEW w \in Int, w > 0
  PROVE  Ahead(a, z, w) \in Int /\ 0 <= Ahead(a, z, w) /\ Ahead(a, z, w) < w
<1>1. a - z \in Int
  BY SMTT(30)
<1> QED
  BY <1>1, Remainder DEF Ahead

LEMMA MovedIs ==
  ASSUME NEW a \in Int, NEW k \in Int, NEW w \in Int, w > 0
  PROVE  Moved(a, k, w) \in Int /\ 0 <= Moved(a, k, w) /\ Moved(a, k, w) < w
<1>1. a + k \in Int
  BY SMTT(30)
<1> QED
  BY <1>1, Remainder DEF Moved

LEMMA HeadMoves ==
  ASSUME NEW a \in Int, NEW z \in Int, NEW k \in Int, NEW w \in Int, w > 0,
         0 <= Ahead(a, z, w) + k, Ahead(a, z, w) + k < w
  PROVE  Ahead(Moved(a, k, w), z, w) = Ahead(a, z, w) + k
<1> DEFINE h == Moved(a, k, w)
           p == Ahead(a, z, w)
<1>1. h \in Int /\ p \in Int
  BY AheadIs, MovedIs
<1>2. PICK q1 \in Int : a + k = w * q1 + h
  <2>1. a + k \in Int
    BY SMTT(30)
  <2> QED
    BY <2>1, Division DEF Moved
<1>3. PICK q2 \in Int : a - z = w * q2 + p
  <2>1. a - z \in Int
    BY SMTT(30)
  <2> QED
    BY <2>1, Division DEF Ahead
<1> HIDE DEF h, p
<1>4. h - z = w * (q2 - q1) + (p + k) /\ q2 - q1 \in Int /\ p + k \in Int /\ h - z \in Int
  BY SMTT(30), <1>1, <1>2, <1>3
<1>5. 0 <= p + k /\ p + k < w
  BY DEF p
<1>6. (h - z) % w = p + k
  BY <1>4, <1>5, RemainderIs
<1> QED
  BY <1>6 DEF Ahead, h, p

LEMMA TailMoves ==
  ASSUME NEW a \in Int, NEW z \in Int, NEW k \in Int, NEW w \in Int, w > 0,
         0 <= Ahead(a, z, w) - k, Ahead(a, z, w) - k < w
  PROVE  Ahead(a, Moved(z, k, w), w) = Ahead(a, z, w) - k
<1> DEFINE h == Moved(z, k, w)
           p == Ahead(a, z, w)
<1>1. h \in Int /\ p \in Int
  BY AheadIs, MovedIs
<1>2. PICK q1 \in Int : z + k = w * q1 + h
  <2>1. z + k \in Int
    BY SMTT(30)
  <2> QED
    BY <2>1, Division DEF Moved
<1>3. PICK q2 \in Int : a - z = w * q2 + p
  <2>1. a - z \in Int
    BY SMTT(30)
  <2> QED
    BY <2>1, Division DEF Ahead
<1> HIDE DEF h, p
<1>4. a - h = w * (q2 + q1) + (p - k) /\ q2 + q1 \in Int /\ p - k \in Int /\ a - h \in Int
  BY SMTT(30), <1>1, <1>2, <1>3
<1>5. 0 <= p - k /\ p - k < w
  BY DEF p
<1>6. (a - h) % w = p - k
  BY <1>4, <1>5, RemainderIs
<1> QED
  BY <1>6 DEF Ahead, h, p

LEMMA Smaller ==
  ASSUME NEW a \in Int, NEW b \in Int
  PROVE  /\ Min({a, b}) \in {a, b} /\ Min({a, b}) <= a /\ Min({a, b}) <= b /\ Min({a, b}) \in Int
         /\ a < b => Min({a, b}) = a
<1>1. \E x \in {a, b} : \A y \in {a, b} : x =< y
  BY SMTT(30)
<1>2. Min({a, b}) \in {a, b} /\ \A y \in {a, b} : Min({a, b}) =< y
  BY <1>1 DEF Min
<1> DEFINE m == Min({a, b})
<1>3. m \in {a, b} /\ m <= a /\ m <= b
  BY <1>2
<1> HIDE DEF m
<1>4. m \in Int /\ (a < b => m = a)
  BY SMTT(30), <1>3
<1> QED
  BY <1>3, <1>4 DEF m

LEMMA Least ==
  ASSUME NEW S \in SUBSET Nat, S # {}
  PROVE  Min(S) \in S /\ \A y \in S : Min(S) <= y
<1>1. \E x \in S : \A y \in S : ~(<<y, x>> \in OpToRel(<, Nat))
  BY NatLessThanWellFounded, WFMin
<1>2. \E x \in S : \A y \in S : ~(y < x)
  BY <1>1 DEF OpToRel
<1>3. \A x, y \in S : ~(y < x) => x =< y
  BY SMTT(30)
<1>4. \E x \in S : \A y \in S : x =< y
  BY <1>2, <1>3
<1> QED
  BY <1>4 DEF Min

(* Two moves are one. *)
LEMMA MovedTwice ==
  ASSUME NEW w \in Int, w > 0, NEW a \in Int, NEW j \in Int, NEW k \in Int
  PROVE  Moved(Moved(a, j, w), k, w) = Moved(a, j + k, w)
<1> DEFINE h == Moved(a, j, w)
           g == Moved(h, k, w)
<1>1. h \in Int
  BY MovedIs
<1>2. g \in Int /\ 0 <= g /\ g < w
  BY <1>1, MovedIs
<1>3. a + j \in Int /\ h + k \in Int /\ a + (j + k) \in Int
  BY SMTT(30), <1>1
<1>4. PICK p \in Int : a + j = w * p + h
  BY <1>3, Division DEF Moved
<1>5. PICK q \in Int : h + k = w * q + g
  BY <1>3, Division DEF Moved
<1> HIDE DEF h, g
<1>6. a + (j + k) = w * (p + q) + g /\ p + q \in Int
  BY SMTT(30), <1>1, <1>2, <1>4, <1>5
<1>7. (a + (j + k)) % w = g
  BY <1>2, <1>3, <1>6, RemainderIs
<1> QED
  BY <1>7 DEF Moved, h, g

-----------------------------------------------------------------------------
(* Sequences *)

LEMMA SeqOfLen ==
  ASSUME NEW S, NEW n \in Nat, NEW f \in [1 .. n -> S]
  PROVE  f \in Seq(S) /\ Len(f) = n
<1>1. f \in Seq(S)
  BY SeqDef
<1>2. Len(f) \in Nat /\ DOMAIN f = 1 .. Len(f) /\ DOMAIN f = 1 .. n
  BY <1>1, LenProperties
<1>3. 1 .. Len(f) = 1 .. n
  BY <1>2
<1>4. Len(f) = n
  <2> DEFINE k == Len(f)
  <2>1. k \in Nat /\ 1 .. k = 1 .. n
    BY <1>2, <1>3
  <2> HIDE DEF k
  <2>2. k = n
    BY SMTT(30), <2>1
  <2> QED
    BY <2>2 DEF k
<1> QED
  BY <1>1, <1>4

(* The first m members of a sequence, and the others. *)
LEMMA FirstPart ==
  ASSUME NEW S, NEW s \in Seq(S), NEW m \in Nat, m <= Len(s)
  PROVE  /\ SubSeq(s, 1, m) \in Seq(S) /\ Len(SubSeq(s, 1, m)) = m
         /\ \A i \in 1 .. m : SubSeq(s, 1, m)[i] = s[i]
<1> DEFINE k == 1
<1>1. k \in Int /\ m \in Int
  BY SMTT(30)
<1>2. \A i \in k .. m : s[i] \in S
  <2>1. Len(s) \in Nat
    BY LenProperties
  <2>2. \A i \in k .. m : i \in 1 .. Len(s)
    BY SMTT(30), <2>1
  <2> QED
    BY <2>2, ElementOfSeq
<1>3. /\ m - k + 1 = m /\ (IF k <= m THEN m - k + 1 ELSE 0) = m
      /\ \A i \in 1 .. m : k + i - 1 = i
  BY SMTT(30)
<1> HIDE DEF k
<1>4. SubSeq(s, k, m) \in Seq(S)
  BY <1>1, <1>2, SubSeqProperties
<1>5. Len(SubSeq(s, k, m)) = IF k <= m THEN m - k + 1 ELSE 0
  BY <1>1, <1>2, SubSeqProperties
<1>6. \A i \in 1 .. m - k + 1 : SubSeq(s, k, m)[i] = s[k + i - 1]
  BY SMTT(30), <1>1, <1>2, SubSeqProperties
<1>7. /\ SubSeq(s, k, m) \in Seq(S) /\ Len(SubSeq(s, k, m)) = m
      /\ \A i \in 1 .. m : SubSeq(s, k, m)[i] = s[i]
  BY <1>3, <1>4, <1>5, <1>6
<1> QED
  BY <1>7 DEF k

LEMMA LastPart ==
  ASSUME NEW S, NEW s \in Seq(S), NEW m \in Nat, m <= Len(s)
  PROVE  /\ SubSeq(s, m + 1, Len(s)) \in Seq(S) /\ Len(SubSeq(s, m + 1, Len(s))) = Len(s) - m
         /\ \A i \in 1 .. Len(s) - m : SubSeq(s, m + 1, Len(s))[i] = s[m + i]
<1> DEFINE n == Len(s)
           k == m + 1
<1>1. n \in Nat /\ m <= n
  BY LenProperties
<1>2. \A i \in k .. n : s[i] \in S
  <2>1. \A i \in k .. n : i \in 1 .. n
    BY SMTT(30), <1>1
  <2> QED
    BY <2>1, ElementOfSeq
<1> HIDE DEF n
<1>3. k \in Int /\ n \in Int
  BY SMTT(30), <1>1
<1>4. /\ n - k + 1 = n - m /\ (IF k <= n THEN n - k + 1 ELSE 0) = n - m
      /\ \A i \in 1 .. n - m : k + i - 1 = m + i
  BY SMTT(30), <1>1
<1> HIDE DEF k
<1>5. SubSeq(s, k, n) \in Seq(S)
  BY <1>2, <1>3, SubSeqProperties
<1>6. Len(SubSeq(s, k, n)) = IF k <= n THEN n - k + 1 ELSE 0
  BY <1>2, <1>3, SubSeqProperties
<1>7. \A i \in 1 .. n - k + 1 : SubSeq(s, k, n)[i] = s[k + i - 1]
  BY SMTT(30), <1>2, <1>3, SubSeqProperties
<1>8. /\ SubSeq(s, k, n) \in Seq(S) /\ Len(SubSeq(s, k, n)) = n - m
      /\ \A i \in 1 .. n - m : SubSeq(s, k, n)[i] = s[m + i]
  BY <1>4, <1>5, <1>6, <1>7
<1> QED
  BY <1>8 DEF n, k

-----------------------------------------------------------------------------
(* Circular buffers of n cells with counters that wrap at w *)

Wheel(w, n) == w \in Int /\ n \in Int /\ n > 0 /\ w > n /\ w > 0 /\ w % n = 0
(* The cell of the j-th element counted from counter r. *)
Place(r, j, w, n) == ((r + j - 1) % w) % n

LEMMA PlaceIs ==
  ASSUME NEW w, NEW n, Wheel(w, n), NEW r \in Int, NEW j \in Int
  PROVE  Place(r, j, w, n) = (r + j - 1) % n /\ Place(r, j, w, n) \in 0 .. n - 1
<1> USE DEF Wheel
<1>1. r + j - 1 \in Int
  BY SMTT(30)
<1>2. Place(r, j, w, n) = (r + j - 1) % n
  BY <1>1, RemainderTwice DEF Place
<1> DEFINE c == (r + j - 1) % n
<1>3. c \in Int /\ 0 <= c /\ c < n
  BY <1>1, Remainder
<1> HIDE DEF c
<1>4. c \in 0 .. n - 1
  BY SMTT(30), <1>3
<1> QED
  BY <1>2, <1>4 DEF c

(* Elements less than n apart are in different cells. *)
LEMMA PlacesDiffer ==
  ASSUME NEW w, NEW n, Wheel(w, n), NEW r \in Int, NEW i \in 1 .. n, NEW j \in 1 .. n,
         Place(r, i, w, n) = Place(r, j, w, n)
  PROVE  i = j
<1> DEFINE a == r + i - 1
           b == r + j - 1
<1>1. i \in Int /\ j \in Int /\ n \in Int /\ n > 0
  BY SMTT(30) DEF Wheel
<1>2. /\ a \in Int /\ b \in Int /\ a - b < n /\ b - a < n
      /\ (a = b => i = j)
  BY SMTT(30), <1>1
<1>3. a % n = b % n
  BY SMTT(30), <1>1, PlaceIs
<1> HIDE DEF a, b
<1> QED
  BY <1>1, <1>2, <1>3, SameRemainder

(* The j-th element from a counter k ahead is the (k+j)-th from this one. *)
LEMMA PlaceMoved ==
  ASSUME NEW w, NEW n, Wheel(w, n), NEW r \in Int, NEW k \in Int, NEW j \in Int
  PROVE  Place(Moved(r, k, w), j, w, n) = Place(r, k + j, w, n)
<1> DEFINE h == Moved(r, k, w)
           a == h + j - 1
           b == r + (k + j) - 1
           u == a % n
           x == w % n
<1>0. w \in Int /\ n \in Int /\ n > 0 /\ w > 0 /\ x = 0
  BY DEF Wheel
<1>1. h \in Int
  BY <1>0, MovedIs
<1>2. r + k \in Int /\ k + j \in Int /\ a \in Int /\ b \in Int
  BY SMTT(30), <1>1
<1>3. PICK q \in Int : r + k = w * q + h
  BY <1>0, <1>2, Division DEF Moved
<1>4. PICK m \in Int : w = n * m + x
  BY <1>0, Division
<1>5. u \in Int /\ 0 <= u /\ u < n
  BY <1>0, <1>2, Remainder
<1>6. PICK p \in Int : a = n * p + u
  BY <1>0, <1>2, Division
<1> HIDE DEF h, u, x
<1>7. w = n * m
  BY SMTT(30), <1>0, <1>4
<1>8. w * q = n * (m * q) /\ m * q \in Int
  BY SMTT(30), <1>0, <1>7
<1>9. b = w * q + a
  BY SMTT(30), <1>0, <1>1, <1>3
<1> HIDE DEF a, b
<1>10. b = n * (m * q + p) + u /\ m * q + p \in Int
  BY SMTT(30), <1>0, <1>2, <1>5, <1>6, <1>8, <1>9
<1>11. b % n = u
  BY <1>0, <1>2, <1>5, <1>10, RemainderIs
<1>12. Place(h, j, w, n) = u
  BY SMTT(30), <1>1, <1>2, PlaceIs DEF u, a
<1>13. Place(r, k + j, w, n) = b % n
  BY SMTT(30), <1>2, PlaceIs DEF b
<1> QED
  BY <1>11, <1>12, <1>13 DEF h

(* A counter is the other one moved on by as much as it is ahead. *)
LEMMA MovedAhead ==
  ASSUME NEW w \in Int, w > 0, NEW z \in Int, NEW a \in Int, 0 <= a, a < w
  PROVE  a = Moved(z, Ahead(a, z, w), w)
<1> DEFINE d == Ahead(a, z, w)
<1>1. d \in Int
  BY AheadIs
<1>2. a - z \in Int /\ z + d \in Int
  BY SMTT(30), <1>1
<1>3. PICK q \in Int : a - z = w * q + d
  BY <1>2, Division DEF Ahead
<1> HIDE DEF d
<1>4. z + d = w * (-q) + a /\ -q \in Int
  BY SMTT(30), <1>1, <1>3
<1>5. (z + d) % w = a
  BY <1>2, <1>4, RemainderIs
<1> QED
  BY <1>5 DEF Moved, d

LEMMA AheadOfMoved ==
  ASSUME NEW w \in Int, w > 0, NEW z \in Int, NEW k \in Int, 0 <= k, k < w
  PROVE  Ahead(Moved(z, k, w), z, w) = k
<1> DEFINE h == Moved(z, k, w)
<1>1. h \in Int /\ z + k \in Int
  BY SMTT(30), MovedIs
<1>2. PICK q \in Int : z + k = w * q + h
  BY <1>1, Division DEF Moved
<1> HIDE DEF h
<1>3. h - z = w * (-q) + k /\ -q \in Int /\ h - z \in Int
  BY SMTT(30), <1>1, <1>2
<1>4. (h - z) % w = k
  BY <1>3, RemainderIs
<1> QED
  BY <1>4 DEF Ahead, h

-----------------------------------------------------------------------------
(* The clock *)

LEMMA NapCall ==
  ASSUME NEW c \in ClockCall
  PROVE  /\ c.pc \in {"user", "test", "doze", "asleep", "slept", "killed"} /\ c.n \in Naps \union {0}
         /\ c.ticks0 \in 0 .. TWRAP - 1 /\ c.past \in Nat
         /\ c.ticks0 \in Int /\ c.past \in Int /\ c.n \in Nat /\ c.n \in Int
<1>1. c.pc \in {"user", "test", "doze", "asleep", "slept", "killed"} /\ c.n \in Naps \union {0}
      /\ c.ticks0 \in 0 .. TWRAP - 1 /\ c.past \in Nat
  BY DEF ClockCall
<1>2. Naps \subseteq Nat /\ 0 \in Nat
  BY SMTT(30), ClockAssumption
<1>3. c.n \in Nat
  BY <1>1, <1>2
<1>4. c.ticks0 \in Int /\ c.past \in Int /\ c.n \in Int
  <2> DEFINE x == c.ticks0
             y == c.past
             z == c.n
  <2>1. x \in 0 .. TWRAP - 1 /\ y \in Nat /\ z \in Nat
    BY <1>1, <1>3
  <2> HIDE DEF x, y, z
  <2>2. x \in Int /\ y \in Int /\ z \in Int
    BY SMTT(30), <2>1, ClockAssumption
  <2> QED
    BY <2>2 DEF x, y, z
<1> QED
  BY <1>1, <1>3, <1>4

(* A step that changes only where the threads are. *)
LEMMA PlaceChanged ==
  ASSUME ClockInv, ticks' = ticks, NEW t \in Sleepers,
         NEW l \in {"user", "test", "doze", "asleep", "slept", "killed"},
         st' = [st EXCEPT ![t].pc = l],
         l \in Sleeping => st[t].pc \in Sleeping,
         l \in {"doze", "asleep"} => st[t].past < st[t].n,
         l = "slept" => st[t].past >= st[t].n
  PROVE  ClockInv'
<1> DEFINE c == [st[t] EXCEPT !.pc = l]
<1>1. st[t] \in ClockCall /\ st \in [Sleepers -> ClockCall]
  BY DEF ClockInv
<1>2. c \in ClockCall /\ c.pc = l /\ c.n = st[t].n /\ c.ticks0 = st[t].ticks0 /\ c.past = st[t].past
  BY <1>1 DEF ClockCall
<1>3. st' = [st EXCEPT ![t] = c]
  OBVIOUS
<1> HIDE DEF c
<1>4. st' \in [Sleepers -> ClockCall] /\ st'[t] = c /\ \A u \in Sleepers : u # t => st'[u] = st[u]
  BY <1>1, <1>2, <1>3
<1>5. ASSUME NEW u \in Sleepers, u # t PROVE NapInv(u)'
  BY <1>4, <1>5 DEF ClockInv, NapInv, Elapsed
<1>6. NapInv(t)'
  <2>1. Elapsed(t)' = Elapsed(t)
    BY <1>2, <1>4 DEF Elapsed
  <2> QED
    BY <1>2, <1>4, <2>1 DEF ClockInv, NapInv
<1> QED
  BY <1>4, <1>5, <1>6 DEF ClockInv

LEMMA SleepCallKeeps ==
  ASSUME ClockInv, NEW t \in Sleepers, NEW n \in Naps, SleepCall(t, n)
  PROVE  ClockInv'
<1> DEFINE c == [pc |-> "test", n |-> n, ticks0 |-> ticks, past |-> 0]
<1>1. ticks \in 0 .. TWRAP - 1 /\ ticks \in Int /\ st \in [Sleepers -> ClockCall] /\ n \in Nat
  BY SMTT(30), ClockAssumption DEF ClockInv
<1>2. c \in ClockCall
  BY SMTT(30), <1>1 DEF ClockCall
<1>3. st' = [st EXCEPT ![t] = c] /\ ticks' = ticks
  BY DEF SleepCall
<1>4. c.pc = "test" /\ c.n = n /\ c.ticks0 = ticks /\ c.past = 0
  OBVIOUS
<1> HIDE DEF c
<1>5. st' \in [Sleepers -> ClockCall] /\ st'[t] = c /\ \A u \in Sleepers : u # t => st'[u] = st[u]
  BY <1>1, <1>2, <1>3
<1>6. ASSUME NEW u \in Sleepers, u # t PROVE NapInv(u)'
  BY <1>3, <1>5, <1>6 DEF ClockInv, NapInv, Elapsed
<1>7. NapInv(t)'
  <2>1. (ticks - ticks) % TWRAP = 0 /\ 0 <= n + MAXLATE
    BY SMTT(30), <1>1, ClockAssumption
  <2>2. Elapsed(t)' = 0
    BY <1>3, <1>4, <1>5, <2>1 DEF Elapsed
  <2> QED
    BY <1>4, <1>5, <2>1, <2>2 DEF NapInv
<1> QED
  BY <1>1, <1>3, <1>5, <1>6, <1>7 DEF ClockInv

LEMMA SleepReturnsKeeps ==
  ASSUME ClockInv, NEW t \in Sleepers, SleepReturns(t)
  PROVE  ClockInv'
<1>1. ticks' = ticks /\ st \in [Sleepers -> ClockCall] /\ ticks \in 0 .. TWRAP - 1
  BY DEF ClockInv, SleepReturns
<1>2. NoNap \in ClockCall /\ NoNap.pc = "user"
  BY SMTT(30), ClockAssumption DEF NoNap, ClockCall
<1>3. st' \in [Sleepers -> ClockCall] /\ st'[t].pc = "user" /\ \A u \in Sleepers : u # t => st'[u] = st[u]
  BY <1>1, <1>2 DEF SleepReturns
<1>4. ASSUME NEW u \in Sleepers, u # t PROVE NapInv(u)'
  BY <1>1, <1>3, <1>4 DEF ClockInv, NapInv, Elapsed
<1>5. NapInv(t)'
  BY <1>3 DEF NapInv, Sleeping
<1> QED
  BY <1>1, <1>3, <1>4, <1>5 DEF ClockInv

LEMMA TestKeeps ==
  ASSUME ClockInv, NEW t \in Sleepers, sys_sleep(t)
  PROVE  ClockInv'
<1>1. st[t] \in ClockCall /\ NapInv(t) /\ st[t].pc = "test" /\ ticks' = ticks
  BY DEF ClockInv, sys_sleep
<1>2. Elapsed(t) = st[t].past
  BY <1>1 DEF NapInv, Sleeping
<1>3. st[t].past \in Int /\ st[t].n \in Int
  BY <1>1, NapCall
<1>4. CASE Elapsed(t) >= st[t].n
  <2>1. st' = [st EXCEPT ![t].pc = "slept"]
    BY <1>4 DEF sys_sleep
  <2> QED
    BY <1>1, <1>2, <1>4, <2>1, PlaceChanged DEF Sleeping
<1>5. CASE ~(Elapsed(t) >= st[t].n)
  <2>1. st[t].past < st[t].n
    BY SMTT(30), <1>2, <1>3, <1>5
  <2>2. PICK l \in {"killed", "doze"} : st' = [st EXCEPT ![t].pc = l]
    BY <1>5 DEF sys_sleep
  <2> QED
    BY <1>1, <2>1, <2>2, PlaceChanged DEF Sleeping
<1> QED
  BY <1>4, <1>5

LEMMA FallAsleepKeeps ==
  ASSUME ClockInv, NEW t \in Sleepers, FallAsleep(t) \/ Shoot(t)
  PROVE  ClockInv'
<1>1. st[t] \in ClockCall /\ NapInv(t) /\ ticks' = ticks /\ st[t].pc \in {"user", "test", "doze", "asleep", "slept", "killed"}
  BY NapCall DEF ClockInv, FallAsleep, Shoot
<1>2. CASE FallAsleep(t)
  BY <1>1, <1>2, PlaceChanged DEF FallAsleep, NapInv, Sleeping
<1>3. CASE Shoot(t)
  <2>1. st' = [st EXCEPT ![t].pc = IF st[t].pc = "asleep" THEN "test" ELSE st[t].pc]
    BY <1>3 DEF Shoot
  <2>2. CASE st[t].pc = "asleep"
    BY <1>1, <2>1, <2>2, PlaceChanged DEF Sleeping
  <2>3. CASE st[t].pc # "asleep"
    <3>1. st' = [st EXCEPT ![t].pc = st[t].pc]
      BY <2>1, <2>3
    <3> QED
      BY <1>1, <3>1, PlaceChanged DEF NapInv
  <2> QED
    BY <2>2, <2>3
<1> QED
  BY <1>2, <1>3

LEMMA TickKeeps ==
  ASSUME ClockInv, ShortNaps, Tick
  PROVE  ClockInv'
<1>1. ticks \in 0 .. TWRAP - 1 /\ ticks \in Int /\ TWRAP \in Int /\ TWRAP > 0 /\ MAXLATE \in Nat /\ 1 \in Int
  BY SMTT(30), ClockAssumption DEF ClockInv
<1>2. ticks' \in 0 .. TWRAP - 1
  <2>1. ticks' = Moved(ticks, 1, TWRAP)
    BY DEF Tick, Moved
  <2>2. ticks' \in Int /\ 0 <= ticks' /\ ticks' < TWRAP
    BY <1>1, <2>1, MovedIs
  <2> QED
    BY SMTT(30), <1>1, <2>2
<1>3. ASSUME NEW t \in Sleepers PROVE st'[t] \in ClockCall /\ NapInv(t)'
  <2> DEFINE l == IF st[t].pc = "asleep" THEN "test" ELSE st[t].pc
             p == IF st[t].pc \in Sleeping THEN st[t].past + 1 ELSE st[t].past
  <2>1. st[t] \in ClockCall /\ NapInv(t) /\ st[t].pc # "doze"
    BY DEF ClockInv, Tick, TicksFree
  <2>2. st'[t] = [st[t] EXCEPT !.pc = l, !.past = p]
    BY DEF Tick, Sleeping
  <2>3. st[t].past \in Int /\ st[t].n \in Int /\ st[t].ticks0 \in Int /\ st[t].past \in Nat
    BY <2>1, NapCall
  <2>4. p \in Nat /\ l \in {"user", "test", "doze", "asleep", "slept", "killed"}
    <3>1. st[t].past + 1 \in Nat
      BY SMTT(30), <2>3
    <3> QED
      BY <2>1, <2>3, <3>1, NapCall
  <2>5. /\ st'[t] \in ClockCall /\ st'[t].pc = l /\ st'[t].past = p
        /\ st'[t].n = st[t].n /\ st'[t].ticks0 = st[t].ticks0
    <3> HIDE DEF l, p
    <3> QED
      BY <2>1, <2>2, <2>4 DEF ClockCall
  <2>6. CASE st[t].pc \in Sleeping
    <3>1. l = "test" /\ p = st[t].past + 1
      BY <2>1, <2>6 DEF Sleeping
    <3>2. Elapsed(t) = st[t].past /\ st[t].n \in Naps
      BY <2>1, <2>6 DEF NapInv
    <3>3. st[t].past < st[t].n + MAXLATE
      <4>1. CASE st[t].pc = "test"
        BY <4>1 DEF Tick
      <4>2. CASE st[t].pc = "asleep"
        <5>1. st[t].past < st[t].n
          BY <2>1, <4>2 DEF NapInv
        <5> QED
          BY SMTT(30), <1>1, <2>3, <5>1
      <4> QED
        BY <2>1, <2>6, <4>1, <4>2 DEF Sleeping
    <3>4. st[t].n + MAXLATE < TWRAP
      BY <3>2 DEF ShortNaps
    <3>5. /\ p <= st[t].n + MAXLATE /\ 0 <= p /\ p < TWRAP /\ p \in Int
          /\ ticks + 1 \in Int /\ -(st[t].ticks0) \in Int /\ ticks - st[t].ticks0 \in Int
      BY SMTT(30), <1>1, <2>3, <3>1, <3>3, <3>4
    <3>6. Ahead(ticks, st[t].ticks0, TWRAP) = st[t].past
      BY <3>2 DEF Elapsed, Ahead
    <3>7. Ahead(Moved(ticks, 1, TWRAP), st[t].ticks0, TWRAP) = p
      <4>1. /\ 0 <= Ahead(ticks, st[t].ticks0, TWRAP) + 1
            /\ Ahead(ticks, st[t].ticks0, TWRAP) + 1 < TWRAP
        BY <3>1, <3>5, <3>6
      <4>2. Ahead(Moved(ticks, 1, TWRAP), st[t].ticks0, TWRAP) = Ahead(ticks, st[t].ticks0, TWRAP) + 1
        BY SMTT(30), <1>1, <2>3, <4>1, HeadMoves
      <4> QED
        BY <3>1, <3>6, <4>2
    <3>8. ticks' = Moved(ticks, 1, TWRAP)
      BY DEF Tick, Moved
    <3>10. (ticks' - st[t].ticks0) % TWRAP = p
      BY <3>7, <3>8 DEF Ahead
    <3>11. Elapsed(t)' = p
      BY <2>5, <3>10 DEF Elapsed
    <3> QED
      BY <2>5, <3>1, <3>2, <3>5, <3>11 DEF NapInv, Sleeping
  <2>7. CASE st[t].pc \notin Sleeping
    <3>1. l = st[t].pc /\ p = st[t].past
      BY <2>7 DEF Sleeping
    <3> QED
      BY <2>1, <2>5, <2>7, <3>1 DEF NapInv, Sleeping
  <2> QED
    BY <2>5, <2>6, <2>7
<1>4. st' \in [Sleepers -> ClockCall]
  BY <1>3 DEF Tick
<1> QED
  BY <1>2, <1>3, <1>4 DEF ClockInv

(* While a nap, with the wait for a CPU after it, is shorter than the time *)
(* ticks takes to come around, ticks - ticks0 in sys_sleep is the number   *)
(* of ticks there really were, whatever the wrap of the counter.           *)
THEOREM ClockInvariant ==
  ASSUME ShortNaps
  PROVE  ClockSpec => []ClockInv
<1>1. ClockInit => ClockInv
  <2> SUFFICES ASSUME ClockInit PROVE ClockInv
    OBVIOUS
  <2>1. NoNap \in ClockCall /\ NoNap.pc = "user" /\ 0 \in 0 .. TWRAP - 1
    BY SMTT(30), ClockAssumption DEF NoNap, ClockCall
  <2>2. st \in [Sleepers -> ClockCall] /\ \A t \in Sleepers : st[t].pc = "user"
    BY <2>1 DEF ClockInit
  <2> QED
    BY <2>1, <2>2 DEF ClockInv, ClockInit, NapInv, Sleeping
<1>2. ASSUME ClockInv, [ClockNext]_clockVars PROVE ClockInv'
  <2>1. CASE UNCHANGED clockVars
    BY <1>2, <2>1 DEF clockVars, ClockInv, NapInv, Elapsed
  <2>2. CASE ClockNext
    BY <1>2, <2>2, TickKeeps, TestKeeps, FallAsleepKeeps, SleepReturnsKeeps, SleepCallKeeps DEF ClockNext
  <2> QED
    BY <1>2, <2>1, <2>2
<1> QED
  BY <1>1, <1>2, PTL DEF ClockSpec

(* sys_sleep returns 0 only after n ticks, and a thread stays asleep only  *)
(* while fewer have gone by.                                               *)
THEOREM SleepersSleepLongEnough ==
  ASSUME ShortNaps
  PROVE  ClockSpec => []SleepsLongEnough
<1>1. ClockInv => SleepsLongEnough
  BY DEF ClockInv, NapInv, SleepsLongEnough
<1> QED
  BY <1>1, ClockInvariant, PTL

-----------------------------------------------------------------------------
(* The counters of a pipe *)

LEMMA PipeNumbers ==
  /\ PIPESIZE \in Int /\ PIPESIZE > 0 /\ PIPESIZE \in Nat /\ WRAP \in Int /\ WRAP > 0 /\ PIPESIZE < WRAP
  /\ WRAP % PIPESIZE = 0
<1>1. PIPESIZE \in Nat \ {0} /\ WRAP \in Nat /\ WRAP > PIPESIZE /\ WRAP % PIPESIZE = 0
  BY PipeAssumption
<1> DEFINE r == WRAP % PIPESIZE
<1>2. r = 0
  BY <1>1
<1> HIDE DEF r
<1>3. /\ PIPESIZE \in Int /\ PIPESIZE > 0 /\ PIPESIZE \in Nat /\ WRAP \in Int /\ WRAP > 0 /\ PIPESIZE < WRAP
  BY SMTT(30), <1>1
<1> QED
  BY <1>2, <1>3 DEF r

LEMMA Counters ==
  ASSUME PipeInv
  PROVE  /\ nread \in Int /\ 0 <= nread /\ nread < WRAP /\ nwrite \in Int /\ 0 <= nwrite /\ nwrite < WRAP
         /\ Size = Ahead(nwrite, nread, WRAP) /\ Size \in Nat /\ Size \in Int /\ Size <= PIPESIZE
<1>1. nread \in 0 .. WRAP - 1 /\ nwrite \in 0 .. WRAP - 1 /\ Size <= PIPESIZE
  BY DEF PipeInv
<1>2. nread \in Int /\ 0 <= nread /\ nread < WRAP /\ nwrite \in Int /\ 0 <= nwrite /\ nwrite < WRAP
  BY SMTT(30), <1>1, PipeNumbers
<1>3. Size = Ahead(nwrite, nread, WRAP)
  BY DEF Size, Ahead
<1>4. Size \in Int /\ 0 <= Size
  BY <1>2, <1>3, PipeNumbers, AheadIs
<1>5. Size \in Nat
  BY SMTT(30), <1>4
<1> QED
  BY <1>1, <1>2, <1>3, <1>4, <1>5

LEMMA EmptyIs ==
  ASSUME PipeInv
  PROVE  IsEmpty <=> Size = 0
<1>1. /\ nread \in Int /\ 0 <= nread /\ nread < WRAP /\ nwrite \in Int /\ 0 <= nwrite /\ nwrite < WRAP
      /\ Size \in Int
  BY Counters
<1>2. nwrite - nread \in Int
  BY SMTT(30), <1>1
<1>3. PICK q \in Int : nwrite - nread = WRAP * q + Size
  BY <1>2, PipeNumbers, Division DEF Size
<1>4. ASSUME Size = 0 PROVE nwrite = nread
  <2>1. nwrite - nread = WRAP * q
    BY SMTT(30), <1>3, <1>4, PipeNumbers
  <2>2. q < 1
    BY SMTT(30), <1>1, <2>1, PipeNumbers
  <2>3. q > -1
    BY SMTT(30), <1>1, <2>1, PipeNumbers
  <2> QED
    BY SMTT(30), <1>1, <2>1, <2>2, <2>3, PipeNumbers
<1>5. ASSUME nwrite = nread PROVE Size = 0
  <2>1. nwrite - nread = 0 /\ 0 \in Int /\ 0 <= 0 /\ 0 < WRAP
    BY SMTT(30), <1>1, <1>5, PipeNumbers
  <2>2. 0 % WRAP = 0
    BY <2>1, PipeNumbers, SmallRemainder
  <2> QED
    BY <2>1, <2>2 DEF Size
<1> QED
  BY <1>4, <1>5 DEF IsEmpty

LEMMA FullIs ==
  ASSUME PipeInv
  PROVE  IsFull <=> Size = PIPESIZE
<1>1. /\ nread \in Int /\ 0 <= nread /\ nread < WRAP /\ nwrite \in Int /\ 0 <= nwrite /\ nwrite < WRAP
      /\ Size \in Int
  BY Counters
<1>2. nwrite - nread \in Int /\ nread + PIPESIZE \in Int
  BY SMTT(30), <1>1, PipeNumbers
<1>3. PICK q \in Int : nwrite - nread = WRAP * q + Size
  BY <1>2, PipeNumbers, Division DEF Size
<1>4. ASSUME Size = PIPESIZE PROVE nwrite = (nread + PIPESIZE) % WRAP
  <2>1. nread + PIPESIZE = WRAP * (-q) + nwrite /\ -q \in Int
    BY SMTT(30), <1>1, <1>3, <1>4, PipeNumbers
  <2> QED
    BY <1>1, <1>2, <2>1, PipeNumbers, RemainderIs
<1>5. ASSUME nwrite = (nread + PIPESIZE) % WRAP PROVE Size = PIPESIZE
  <2>1. PICK p \in Int : nread + PIPESIZE = WRAP * p + nwrite
    BY <1>2, <1>5, PipeNumbers, Division
  <2>2. nwrite - nread = WRAP * (-p) + PIPESIZE /\ -p \in Int /\ 0 <= PIPESIZE
    BY SMTT(30), <1>1, <2>1, PipeNumbers
  <2>3. (nwrite - nread) % WRAP = PIPESIZE
    BY <1>2, <2>2, PipeNumbers, RemainderIs
  <2> QED
    BY <2>3 DEF Size
<1> QED
  BY <1>4, <1>5 DEF IsFull

-----------------------------------------------------------------------------
(* The bytes between nread and nwrite *)

Cell(r, j) == Place(r, j, WRAP, PIPESIZE)

LEMMA PipeWheel == Wheel(WRAP, PIPESIZE)
BY PipeNumbers DEF Wheel

LEMMA CellIs ==
  ASSUME NEW r \in Int, NEW j \in Int
  PROVE  Cell(r, j) \in 0 .. PIPESIZE - 1
BY PipeWheel, PlaceIs DEF Cell

LEMMA CellsDiffer ==
  ASSUME NEW r \in Int, NEW i \in 1 .. PIPESIZE, NEW j \in 1 .. PIPESIZE, Cell(r, i) = Cell(r, j)
  PROVE  i = j
BY PipeWheel, PlacesDiffer DEF Cell

LEMMA CellMoved ==
  ASSUME NEW r \in Int, NEW k \in Int, NEW j \in Int
  PROVE  Cell(Moved(r, k, WRAP), j) = Cell(r, k + j)
BY SMTT(30), PipeWheel, PlaceMoved DEF Cell

LEMMA ContentsAre ==
  ASSUME PipeInv
  PROVE  /\ Contents \in Seq(PBytes) /\ Len(Contents) = Size
         /\ \A j \in 1 .. Size : Contents[j] = data[Cell(nread, j)]
<1>1. Size \in Nat /\ nread \in Int /\ data \in [0 .. PIPESIZE - 1 -> PBytes]
  BY Counters DEF PipeInv
<1>2. \A j \in 1 .. Size : j \in Int
  BY SMTT(30), <1>1
<1>3. \A j \in 1 .. Size : Contents[j] = data[Cell(nread, j)]
  BY DEF Contents, Cell, Place
<1>4. \A j \in 1 .. Size : data[Cell(nread, j)] \in PBytes
  BY <1>1, <1>2, CellIs
<1>5. Contents \in [1 .. Size -> PBytes]
  BY <1>3, <1>4 DEF Contents, Cell, Place
<1> QED
  BY <1>1, <1>3, <1>5, SeqOfLen

LEMMA NwriteIs ==
  ASSUME PipeInv
  PROVE  nwrite = Moved(nread, Size, WRAP)
<1>1. /\ nread \in Int /\ nwrite \in Int /\ 0 <= nwrite /\ nwrite < WRAP /\ Size \in Int
  BY Counters
<1>2. nwrite - nread \in Int /\ nread + Size \in Int
  BY SMTT(30), <1>1
<1>3. PICK q \in Int : nwrite - nread = WRAP * q + Size
  BY <1>2, PipeNumbers, Division DEF Size
<1>4. nread + Size = WRAP * (-q) + nwrite /\ -q \in Int
  BY SMTT(30), <1>1, <1>3, PipeNumbers
<1>5. (nread + Size) % WRAP = nwrite
  BY <1>1, <1>2, <1>4, PipeNumbers, RemainderIs
<1> QED
  BY <1>5 DEF Moved

(* m bytes are written behind the ones that are there: they are the cells  *)
(* that follow, and none of the old ones is overwritten.                   *)
LEMMA BytesWritten ==
  ASSUME PipeInv, NEW s \in Seq(PBytes), NEW m \in Nat, m <= Len(s), Size + m <= PIPESIZE
  PROVE  /\ Stored(s, m) \in [0 .. PIPESIZE - 1 -> PBytes]
         /\ \A k \in 1 .. Size : Stored(s, m)[Cell(nread, k)] = data[Cell(nread, k)]
         /\ \A j \in 1 .. m : Stored(s, m)[Cell(nread, Size + j)] = s[j]
<1>1. /\ nread \in Int /\ nwrite \in Int /\ Size \in Int /\ Size \in Nat
      /\ data \in [0 .. PIPESIZE - 1 -> PBytes] /\ nwrite = Moved(nread, Size, WRAP)
  BY Counters, NwriteIs DEF PipeInv
<1>2. \A j \in 1 .. m : j \in Int /\ Size + j \in 1 .. PIPESIZE /\ Size + j \in Int /\ j \in 1 .. Len(s)
  <2>1. Len(s) \in Nat
    BY LenProperties
  <2> QED
    BY SMTT(30), <1>1, <2>1, PipeNumbers
<1>3. \A k \in 1 .. Size : k \in 1 .. PIPESIZE /\ k \in Int
  BY SMTT(30), <1>1, PipeNumbers
<1>4. \A j \in 1 .. m : Cell(nwrite, j) = Cell(nread, Size + j)
  BY <1>1, <1>2, CellMoved
<1>5. \A j \in 1 .. m : s[j] \in PBytes
  BY <1>2, ElementOfSeq
<1>6. ASSUME NEW i \in 0 .. PIPESIZE - 1
      PROVE  /\ (\E j \in 1 .. m : Cell(nread, Size + j) = i) =>
                  \E j \in 1 .. m : Cell(nread, Size + j) = i /\ Stored(s, m)[i] = s[j]
             /\ ~(\E j \in 1 .. m : Cell(nread, Size + j) = i) => Stored(s, m)[i] = data[i]
  <2> DEFINE W(j) == ((nwrite + j - 1) % WRAP) % PIPESIZE = i
  <2>1. \A j \in 1 .. m : W(j) <=> Cell(nread, Size + j) = i
    BY <1>4 DEF Cell, Place
  <2>2. Stored(s, m)[i] = IF \E j \in 1 .. m : W(j) THEN s[CHOOSE j \in 1 .. m : W(j)] ELSE data[i]
    BY DEF Stored
  <2> HIDE DEF W
  <2> QED
    BY <2>1, <2>2
<1>7. Stored(s, m) \in [0 .. PIPESIZE - 1 -> PBytes]
  <2>1. \A i \in 0 .. PIPESIZE - 1 : Stored(s, m)[i] \in PBytes
    BY <1>1, <1>5, <1>6
  <2>2. Stored(s, m) = [i \in 0 .. PIPESIZE - 1 |-> Stored(s, m)[i]]
    BY DEF Stored
  <2> QED
    BY <2>1, <2>2
<1>8. ASSUME NEW k \in 1 .. Size PROVE Stored(s, m)[Cell(nread, k)] = data[Cell(nread, k)]
  <2>1. Cell(nread, k) \in 0 .. PIPESIZE - 1
    BY <1>1, <1>3, CellIs
  <2>2. ASSUME NEW j \in 1 .. m, Cell(nread, Size + j) = Cell(nread, k) PROVE FALSE
    <3>1. Size + j = k
      BY <1>1, <1>2, <1>3, <2>2, CellsDiffer
    <3> QED
      BY SMTT(30), <1>1, <3>1
  <2> QED
    BY <1>6, <2>1, <2>2
<1>9. ASSUME NEW j \in 1 .. m PROVE Stored(s, m)[Cell(nread, Size + j)] = s[j]
  <2>1. Cell(nread, Size + j) \in 0 .. PIPESIZE - 1
    BY <1>1, <1>2, CellIs
  <2>2. PICK l \in 1 .. m : /\ Cell(nread, Size + l) = Cell(nread, Size + j)
                            /\ Stored(s, m)[Cell(nread, Size + j)] = s[l]
    BY <1>6, <2>1
  <2>3. Size + l = Size + j
    BY <1>1, <1>2, <2>2, CellsDiffer
  <2>4. l = j
    BY SMTT(30), <1>1, <2>3
  <2> QED
    BY <2>2, <2>4
<1> QED
  BY <1>7, <1>8, <1>9

LEMMA QueueWritten ==
  ASSUME PipeInv, NEW s \in Seq(PBytes), NEW m \in Nat, m <= Len(s), Size + m <= PIPESIZE,
         nwrite' = Moved(nwrite, m, WRAP), nread' = nread, data' = Stored(s, m)
  PROVE  /\ Size' = Size + m /\ nwrite' \in 0 .. WRAP - 1 /\ data' \in [0 .. PIPESIZE - 1 -> PBytes]
         /\ Contents' = Contents \o SubSeq(s, 1, m)
         /\ SubSeq(s, 1, m) \in [1 .. m -> PBytes]
<1>1. /\ nread \in Int /\ nwrite \in Int /\ Size \in Int /\ Size \in Nat
      /\ Size = Ahead(nwrite, nread, WRAP)
  BY Counters
<1>2. m \in Int /\ 0 <= Size + m /\ Size + m < WRAP /\ Size + m \in Nat
  BY SMTT(30), <1>1, PipeNumbers
<1>3. Size' = Size + m
  <2>1. Size' = Ahead(Moved(nwrite, m, WRAP), nread, WRAP)
    BY DEF Size, Ahead
  <2> QED
    BY SMTT(30), <1>1, <1>2, <2>1, PipeNumbers, HeadMoves
<1>4. nwrite' \in 0 .. WRAP - 1
  <2>1. nwrite' \in Int /\ 0 <= nwrite' /\ nwrite' < WRAP
    BY <1>1, <1>2, PipeNumbers, MovedIs
  <2> QED
    BY SMTT(30), <2>1, PipeNumbers
<1>5. /\ data' \in [0 .. PIPESIZE - 1 -> PBytes]
      /\ \A k \in 1 .. Size : data'[Cell(nread, k)] = data[Cell(nread, k)]
      /\ \A j \in 1 .. m : data'[Cell(nread, Size + j)] = s[j]
  BY BytesWritten
<1> DEFINE t == SubSeq(s, 1, m)
<1>6. /\ t \in Seq(PBytes) /\ Len(t) = m /\ \A i \in 1 .. m : t[i] = s[i]
  BY FirstPart
<1> HIDE DEF t
<1>7. t \in [1 .. m -> PBytes]
  BY <1>6, LenProperties
<1>8. /\ Contents \in Seq(PBytes) /\ Len(Contents) = Size
      /\ \A j \in 1 .. Size : Contents[j] = data[Cell(nread, j)]
  BY ContentsAre
<1>9. /\ Contents \o t \in Seq(PBytes) /\ Len(Contents \o t) = Size + m
      /\ \A i \in 1 .. Size + m : (Contents \o t)[i] = IF i <= Size THEN Contents[i] ELSE t[i - Size]
  BY <1>6, <1>8, ConcatProperties
<1>10. \A i \in 1 .. Size + m : Contents'[i] = data'[Cell(nread, i)]
  BY <1>3 DEF Contents, Cell, Place
<1>11. ASSUME NEW i \in 1 .. Size + m PROVE Contents'[i] = (Contents \o t)[i] /\ Contents'[i] \in PBytes
  <2>1. CASE i <= Size
    <3>1. i \in 1 .. Size
      BY SMTT(30), <1>1, <2>1
    <3>2. Contents[i] \in PBytes
      BY <1>8, <3>1, ElementOfSeq
    <3> QED
      BY <1>5, <1>8, <1>9, <1>10, <2>1, <3>1, <3>2
  <2>2. CASE ~(i <= Size)
    <3>1. i - Size \in 1 .. m /\ Size + (i - Size) = i
      BY SMTT(30), <1>1, <2>2
    <3>2. t[i - Size] \in PBytes
      BY <1>7, <3>1
    <3>3. data'[Cell(nread, i)] = s[i - Size]
      BY <1>5, <3>1
    <3> QED
      BY <1>6, <1>9, <1>10, <2>2, <3>1, <3>2, <3>3
  <2> QED
    BY <2>1, <2>2
<1>12. Contents' \in [1 .. Size + m -> PBytes]
  BY <1>3, <1>11 DEF Contents
<1>13. Contents' \in Seq(PBytes) /\ Len(Contents') = Size + m
  BY <1>2, <1>12, SeqOfLen
<1>14. Contents' = Contents \o t
  BY <1>9, <1>11, <1>13, SeqEqual
<1> QED
  BY <1>3, <1>4, <1>5, <1>7, <1>14 DEF t

LEMMA QueueRead ==
  ASSUME PipeInv, NEW m \in Nat, m <= Size,
         nread' = Moved(nread, m, WRAP), nwrite' = nwrite, data' = data
  PROVE  /\ Size' = Size - m /\ nread' \in 0 .. WRAP - 1
         /\ Contents' = SubSeq(Contents, m + 1, Len(Contents))
         /\ [j \in 1 .. m |-> data[((nread + j - 1) % WRAP) % PIPESIZE]] = SubSeq(Contents, 1, m)
<1>1. /\ nread \in Int /\ nwrite \in Int /\ Size \in Int /\ Size \in Nat
      /\ Size = Ahead(nwrite, nread, WRAP) /\ Size <= PIPESIZE
  BY Counters
<1>2. /\ m \in Int /\ 0 <= Size - m /\ Size - m < WRAP /\ Size - m \in Nat
  BY SMTT(30), <1>1, PipeNumbers
<1>3. Size' = Size - m
  <2>1. Size' = Ahead(nwrite, Moved(nread, m, WRAP), WRAP)
    BY DEF Size, Ahead
  <2> QED
    BY SMTT(30), <1>1, <1>2, <2>1, PipeNumbers, TailMoves
<1>4. nread' \in 0 .. WRAP - 1
  <2>1. nread' \in Int /\ 0 <= nread' /\ nread' < WRAP
    BY <1>1, <1>2, PipeNumbers, MovedIs
  <2> QED
    BY SMTT(30), <2>1, PipeNumbers
<1>5. /\ Contents \in Seq(PBytes) /\ Len(Contents) = Size
      /\ \A j \in 1 .. Size : Contents[j] = data[Cell(nread, j)]
  BY ContentsAre
<1> DEFINE f == SubSeq(Contents, 1, m)
           l == SubSeq(Contents, m + 1, Len(Contents))
           g == [j \in 1 .. m |-> data[((nread + j - 1) % WRAP) % PIPESIZE]]
<1>6. f \in Seq(PBytes) /\ Len(f) = m /\ \A i \in 1 .. m : f[i] = Contents[i]
  BY <1>5, FirstPart
<1>7. l \in Seq(PBytes) /\ Len(l) = Size - m /\ \A i \in 1 .. Size - m : l[i] = Contents[m + i]
  BY <1>5, LastPart
<1>8. \A i \in 1 .. m : i \in 1 .. Size
  BY SMTT(30), <1>1
<1>9. \A i \in 1 .. Size - m : m + i \in 1 .. Size /\ i \in Int
  BY SMTT(30), <1>1
<1>10. \A i \in 1 .. m : g[i] = Contents[i]
  BY <1>5, <1>8 DEF Cell, Place
<1>11. ASSUME NEW i \in 1 .. Size - m PROVE Contents'[i] = Contents[m + i]
  <2>1. Contents'[i] = data[Cell(Moved(nread, m, WRAP), i)]
    BY <1>3 DEF Contents, Cell, Place
  <2>2. Cell(Moved(nread, m, WRAP), i) = Cell(nread, m + i)
    BY <1>1, <1>2, <1>9, CellMoved
  <2> QED
    BY <1>5, <1>9, <2>1, <2>2
<1>12. \A i \in 1 .. Size : Contents[i] \in PBytes
  BY <1>5, ElementOfSeq
<1>13. g \in [1 .. m -> PBytes]
  BY <1>8, <1>10, <1>12
<1>14. Contents' \in [1 .. Size - m -> PBytes]
  BY <1>3, <1>9, <1>11, <1>12 DEF Contents
<1> HIDE DEF f, l, g
<1>15. g = f
  <2>1. g \in Seq(PBytes) /\ Len(g) = m
    BY <1>13, SeqOfLen
  <2> QED
    BY <1>6, <1>10, <2>1, SeqEqual
<1>16. Contents' = l
  <2>1. Contents' \in Seq(PBytes) /\ Len(Contents') = Size - m
    BY <1>2, <1>14, SeqOfLen
  <2> QED
    BY <1>7, <1>11, <2>1, SeqEqual
<1> QED
  BY <1>3, <1>4, <1>15, <1>16 DEF f, l, g

-----------------------------------------------------------------------------
(* The calls of a step *)

QueueStep == [Queue!Next]_<<Contents, Gotten>>
PipePlaces == {"user"} \union Reading \union Writing

LEMMA CallFields ==
  ASSUME NEW c \in PCall
  PROVE  c.pc \in PipePlaces /\ c.buf \in Seq(PBytes) /\ c.n \in Nat /\ c.got \in Seq(PBytes)
BY DEF PCall, PipePlaces

LEMMA WokenCall ==
  ASSUME NEW c \in PCall, NEW l \in PipePlaces
  PROVE  /\ [c EXCEPT !.pc = l] \in PCall /\ [c EXCEPT !.pc = l].pc = l
         /\ [c EXCEPT !.pc = l].got = c.got
BY DEF PCall, PipePlaces

LEMMA IdleCall == PIdle \in PCall /\ PIdle.pc = "user" /\ PIdle.got = <<>>
<1>1. <<>> \in Seq(PBytes)
  BY EmptySeq
<1>2. 0 \in Nat
  BY SMTT(30)
<1> QED
  BY <1>1, <1>2 DEF PIdle, PCall

(* A thread that takes no step goes on as before or is woken. *)
Roused(c, d) ==
  /\ d \in PCall /\ d.got = c.got
  /\ \/ d.pc = c.pc
     \/ c.pc = "rsleep" /\ d.pc = "read"
     \/ c.pc = "wsleep" /\ d.pc = "write"

LEMMA RousedCall ==
  ASSUME NEW c \in PCall
  PROVE  /\ Roused(c, c)
         /\ c.pc = "rsleep" => (Roused(c, [c EXCEPT !.pc = "read"]) /\ [c EXCEPT !.pc = "read"].pc = "read")
         /\ c.pc = "wsleep" => (Roused(c, [c EXCEPT !.pc = "write"]) /\ [c EXCEPT !.pc = "write"].pc = "write")
<1>1. "read" \in PipePlaces /\ "write" \in PipePlaces
  BY DEF PipePlaces, Reading, Writing
<1>2. /\ [c EXCEPT !.pc = "read"] \in PCall /\ [c EXCEPT !.pc = "read"].pc = "read"
      /\ [c EXCEPT !.pc = "read"].got = c.got
  BY <1>1, WokenCall
<1>3. /\ [c EXCEPT !.pc = "write"] \in PCall /\ [c EXCEPT !.pc = "write"].pc = "write"
      /\ [c EXCEPT !.pc = "write"].got = c.got
  BY <1>1, WokenCall
<1> QED
  BY <1>2, <1>3 DEF Roused

LEMMA OtherCall ==
  ASSUME PipeInv, NEW u \in PipeUsers, Roused(pt[u], pt'[u]),
         pt[u].pc # "user" => u \in using',
         pt'[u].pc \in {"rdoze", "rsleep"} => (writeopen' /\ (hit' = {} => Size' = 0)),
         pt'[u].pc \in {"wdoze", "wsleep"} => (readopen' /\ Size' = PIPESIZE)
  PROVE  EndInv(u)'
<1>1. EndInv(u)
  BY DEF PipeInv
<1>2. /\ pt'[u].pc # "user" => pt[u].pc # "user"
      /\ pt'[u].pc \in Reading => pt[u].pc \in Reading
      /\ pt'[u].pc \in Writing => pt[u].pc \in Writing
      /\ pt'[u].pc # "gotten" => pt[u].pc # "gotten"
      /\ pt'[u].got = pt[u].got
  BY DEF Roused, Reading, Writing
<1> QED
  BY <1>1, <1>2 DEF EndInv, PAt

LEMMA SameContents ==
  ASSUME UNCHANGED <<nread, nwrite, data>>
  PROVE  Size' = Size /\ Contents' = Contents
BY DEF Size, Contents

LEMMA SameGotten ==
  ASSUME \A u \in PipeUsers : pt'[u].got = pt[u].got
  PROVE  Gotten' = Gotten
BY DEF Gotten, PipeUsers

(* Steps that change one thread's call and nothing else. *)
LEMMA OneCallChanges ==
  ASSUME PipeInv, NEW t \in PipeUsers, NEW d \in PCall, pt' = [pt EXCEPT ![t] = d], EndInv(t)',
         UNCHANGED <<nread, nwrite, data, readopen, writeopen, using, hit>>
  PROVE  PipeInv' /\ Contents' = Contents /\ (d.got = pt[t].got => QueueStep)
<1>1. Size' = Size /\ Contents' = Contents
  BY SameContents
<1>2. pt \in [PipeUsers -> PCall] /\ \A u \in PipeUsers : EndInv(u)
  BY DEF PipeInv
<1>3. /\ pt' \in [PipeUsers -> PCall] /\ pt'[t] = d
      /\ \A u \in PipeUsers : u # t => pt'[u] = pt[u]
  BY <1>2
<1>4. \A u \in PipeUsers : EndInv(u)'
  BY <1>1, <1>2, <1>3 DEF EndInv, PAt
<1>5. PipeInv'
  BY <1>1, <1>3, <1>4 DEF PipeInv
<1>6. d.got = pt[t].got => Gotten' = Gotten
  BY <1>3, SameGotten
<1> QED
  BY <1>1, <1>5, <1>6 DEF QueueStep

-----------------------------------------------------------------------------
(* The calls, sleep and return *)

LEMMA ReadPipeKeeps ==
  ASSUME PipeInv, NEW t \in PipeUsers, NEW n \in PCounts, ReadPipe(t, n)
  PROVE  PipeInv' /\ QueueStep
<1> DEFINE d == [PIdle EXCEPT !.pc = "read", !.n = n]
<1>1. n \in Nat /\ pt[t].pc = "user" /\ t \in PReaders /\ t \in using
  BY PayloadAssumption DEF ReadPipe, PAt
<1>2. d \in PCall /\ d.pc = "read" /\ d.got = <<>>
  BY <1>1, IdleCall DEF PCall, PIdle, Reading
<1>3. /\ pt' = [pt EXCEPT ![t] = d] /\ UNCHANGED <<nread, nwrite, data, readopen, writeopen, using, hit>>
  BY DEF ReadPipe
<1> HIDE DEF d
<1>4. pt'[t] = d /\ pt[t].got = <<>>
  BY <1>1, <1>3 DEF PipeInv, EndInv, PAt
<1>5. EndInv(t)'
  BY <1>1, <1>2, <1>3, <1>4 DEF EndInv, PAt, Reading, Writing
<1> QED
  BY <1>2, <1>3, <1>4, <1>5, OneCallChanges

LEMMA WritePipeKeeps ==
  ASSUME PipeInv, NEW t \in PipeUsers, NEW s \in Payloads, WritePipe(t, s)
  PROVE  PipeInv' /\ QueueStep
<1> DEFINE d == [PIdle EXCEPT !.pc = "write", !.buf = s]
<1>1. s \in Seq(PBytes) /\ pt[t].pc = "user" /\ t \in PWriters /\ t \in using
  BY PayloadAssumption DEF WritePipe, PAt
<1>2. d \in PCall /\ d.pc = "write" /\ d.got = <<>>
  BY <1>1, IdleCall DEF PCall, PIdle, Writing
<1>3. /\ pt' = [pt EXCEPT ![t] = d] /\ UNCHANGED <<nread, nwrite, data, readopen, writeopen, using, hit>>
  BY DEF WritePipe
<1> HIDE DEF d
<1>4. pt'[t] = d /\ pt[t].got = <<>>
  BY <1>1, <1>3 DEF PipeInv, EndInv, PAt
<1>5. EndInv(t)'
  BY <1>1, <1>2, <1>3, <1>4 DEF EndInv, PAt, Reading, Writing
<1> QED
  BY <1>2, <1>3, <1>4, <1>5, OneCallChanges

LEMMA PipeSleepKeeps ==
  ASSUME PipeInv, NEW t \in PipeUsers, PipeSleep(t)
  PROVE  PipeInv' /\ QueueStep
<1> DEFINE l == IF pt[t].pc = "rdoze" THEN "rsleep" ELSE "wsleep"
           d == [pt[t] EXCEPT !.pc = l]
<1>1. pt[t] \in PCall /\ EndInv(t) /\ l \in PipePlaces
  BY DEF PipeInv, PipePlaces, Reading, Writing
<1>2. /\ pt' = [pt EXCEPT ![t] = d] /\ UNCHANGED <<nread, nwrite, data, readopen, writeopen, using, hit>>
      /\ \/ pt[t].pc = "rdoze" /\ l = "rsleep"
         \/ pt[t].pc = "wdoze" /\ l = "wsleep"
  BY DEF PipeSleep
<1> HIDE DEF l
<1>3. d \in PCall /\ d.pc = l /\ d.got = pt[t].got
  BY <1>1, WokenCall
<1> HIDE DEF d
<1>4. pt'[t] = d /\ Size' = Size
  BY <1>2, SameContents DEF PipeInv
<1>5. EndInv(t)'
  BY <1>1, <1>2, <1>3, <1>4 DEF EndInv, PAt, Reading, Writing
<1> QED
  BY <1>2, <1>3, <1>5, OneCallChanges

LEMMA ReadReturnsKeeps ==
  ASSUME PipeInv, NEW t \in PipeUsers, ReadReturns(t)
  PROVE  PipeInv' /\ QueueStep
<1>1. pt[t].pc = "gotten" /\ EndInv(t) /\ pt \in [PipeUsers -> PCall]
  BY DEF PipeInv, ReadReturns, PAt
<1>2. /\ pt' = [pt EXCEPT ![t] = PIdle] /\ UNCHANGED <<nread, nwrite, data, readopen, writeopen, using, hit>>
  BY DEF ReadReturns
<1>3. pt'[t] = PIdle /\ \A u \in PipeUsers : u # t => pt'[u] = pt[u]
  BY <1>1, <1>2
<1>4. EndInv(t)'
  BY <1>3, IdleCall DEF EndInv, PAt, Reading, Writing
<1>5. PipeInv' /\ Contents' = Contents
  BY <1>2, <1>4, IdleCall, OneCallChanges
<1>6. t \in PReaders
  BY <1>1 DEF EndInv, Reading
<1>7. Gotten' = [Gotten EXCEPT ![t] = <<>>]
  BY <1>3, <1>6, IdleCall DEF Gotten, PipeUsers
<1>8. Queue!Forget(t)
  BY <1>5, <1>7 DEF Queue!Forget
<1> QED
  BY <1>5, <1>6, <1>8 DEF QueueStep, Queue!Next

LEMMA KillEndKeeps ==
  ASSUME PipeInv, NEW t \in PipeUsers, KillEnd(t)
  PROVE  PipeInv' /\ QueueStep
<1> DEFINE l == CASE pt[t].pc = "rsleep" -> "read" [] pt[t].pc = "wsleep" -> "write" [] OTHER -> pt[t].pc
           d == [pt[t] EXCEPT !.pc = l]
<1>1. pt \in [PipeUsers -> PCall] /\ pt[t] \in PCall /\ \A u \in PipeUsers : EndInv(u)
  BY DEF PipeInv
<1>2. /\ pt' = [pt EXCEPT ![t] = d] /\ UNCHANGED <<nread, nwrite, data, readopen, writeopen, using>>
      /\ hit' # {}
  BY DEF KillEnd
<1>3. \/ pt[t].pc = "rsleep" /\ l = "read"
      \/ pt[t].pc = "wsleep" /\ l = "write"
      \/ pt[t].pc \notin {"rsleep", "wsleep"} /\ l = pt[t].pc
  OBVIOUS
<1>4. l \in PipePlaces
  BY <1>1, <1>3, CallFields DEF PipePlaces, Reading, Writing
<1> HIDE DEF l
<1>5. d \in PCall /\ d.pc = l /\ d.got = pt[t].got
  BY <1>1, <1>4, WokenCall
<1> HIDE DEF d
<1>6. /\ pt' \in [PipeUsers -> PCall] /\ pt'[t] = d /\ \A u \in PipeUsers : u # t => pt'[u] = pt[u]
  BY <1>1, <1>2, <1>5
<1>7. Size' = Size /\ Contents' = Contents
  BY <1>2, SameContents
<1>8. Gotten' = Gotten
  BY <1>5, <1>6, SameGotten
<1>9. EndInv(t)'
  BY <1>1, <1>2, <1>3, <1>5, <1>6, <1>7 DEF EndInv, PAt, Reading, Writing
<1>10. \A u \in PipeUsers : u # t => EndInv(u)'
  BY <1>1, <1>2, <1>6, <1>7 DEF EndInv, PAt
<1> QED
  BY <1>2, <1>6, <1>7, <1>8, <1>9, <1>10 DEF PipeInv, QueueStep

-----------------------------------------------------------------------------
(* piperead, pipewrite and pipeclose *)

LEMMA EmptyReadKeeps ==
  ASSUME PipeInv, NEW t \in PipeUsers, piperead(t), IsEmpty, writeopen
  PROVE  PipeInv' /\ QueueStep
<1>1. pt[t] \in PCall /\ EndInv(t) /\ pt[t].pc = "read" /\ Size = 0
  BY EmptyIs DEF PipeInv, piperead, PAt
<1>2. pt[t].got = <<>>
  BY <1>1 DEF EndInv, PAt
<1>3. UNCHANGED <<nread, nwrite, data, readopen, writeopen, using, hit>>
  BY DEF piperead
<1>4. Size' = Size
  BY <1>3, SameContents
<1>5. CASE t \in hit
  <2>1. pt' = [pt EXCEPT ![t] = PIdle]
    BY <1>5 DEF piperead
  <2>2. pt'[t] = PIdle
    BY <2>1 DEF PipeInv
  <2>3. EndInv(t)'
    BY <2>2, IdleCall DEF EndInv, PAt, Reading, Writing
  <2> QED
    BY <1>2, <1>3, <2>1, <2>3, IdleCall, OneCallChanges
<1>6. CASE t \notin hit
  <2> DEFINE d == [pt[t] EXCEPT !.pc = "rdoze"]
  <2>1. pt' = [pt EXCEPT ![t] = d]
    BY <1>6 DEF piperead
  <2>2. "rdoze" \in PipePlaces
    BY DEF PipePlaces, Reading
  <2>3. d \in PCall /\ d.pc = "rdoze" /\ d.got = pt[t].got
    BY <1>1, <2>2, WokenCall
  <2> HIDE DEF d
  <2>4. pt'[t] = d
    BY <2>1 DEF PipeInv
  <2>5. EndInv(t)'
    BY <1>1, <1>2, <1>3, <1>4, <2>3, <2>4 DEF EndInv, PAt, Reading, Writing
  <2> QED
    BY <1>3, <2>1, <2>3, <2>5, OneCallChanges
<1> QED
  BY <1>5, <1>6

LEMMA ReadKeeps ==
  ASSUME PipeInv, NEW t \in PipeUsers, piperead(t), ~(IsEmpty /\ writeopen)
  PROVE  PipeInv' /\ QueueStep
<1> DEFINE m == Min({pt[t].n, Size})
           g == [j \in 1 .. m |-> data[((nread + j - 1) % WRAP) % PIPESIZE]]
           d == [PIdle EXCEPT !.pc = "gotten", !.got = g]
<1>1. /\ pt \in [PipeUsers -> PCall] /\ pt[t] \in PCall /\ \A u \in PipeUsers : EndInv(u)
      /\ pt[t].pc = "read" /\ PipeFree
  BY DEF PipeInv, piperead, PAt
<1>2. pt[t].n \in Nat /\ Size \in Nat /\ Size <= PIPESIZE
  BY <1>1, CallFields, Counters
<1>3. m \in Nat /\ m <= Size /\ m \in 0 .. PIPESIZE /\ (Size = 0 => Size - m = 0)
  <2>1. pt[t].n \in Int /\ Size \in Int
    BY SMTT(30), <1>2
  <2>2. m \in {pt[t].n, Size} /\ m <= Size
    BY <2>1, Smaller
  <2> HIDE DEF m
  <2> QED
    BY SMTT(30), <1>2, <2>2, PipeNumbers
<1>4. /\ nread' = Moved(nread, m, WRAP) /\ pt' = WakeWriters([pt EXCEPT ![t] = d])
      /\ UNCHANGED <<nwrite, data, readopen, writeopen, using, hit>>
  BY DEF piperead, Moved
<1> HIDE DEF m
<1>5. /\ Size' = Size - m /\ nread' \in 0 .. WRAP - 1
      /\ Contents' = SubSeq(Contents, m + 1, Len(Contents)) /\ g = SubSeq(Contents, 1, m)
  BY <1>3, <1>4, QueueRead
<1>6. Contents \in Seq(PBytes) /\ Len(Contents) = Size
  BY ContentsAre
<1>7. g \in Seq(PBytes)
  BY <1>3, <1>5, <1>6, FirstPart
<1> HIDE DEF g
<1>8. d \in PCall /\ d.pc = "gotten" /\ d.got = g
  BY <1>7, IdleCall DEF PCall, PIdle, Reading
<1> HIDE DEF d
<1>9. pt'[t] = d
  BY <1>1, <1>4 DEF WakeWriters
<1>10. ASSUME NEW u \in PipeUsers, u # t
       PROVE  Roused(pt[u], pt'[u]) /\ pt'[u].pc # "wsleep"
  <2>1. pt'[u] = IF pt[u].pc = "wsleep" THEN [pt[u] EXCEPT !.pc = "write"] ELSE pt[u]
    BY <1>1, <1>4, <1>10 DEF WakeWriters
  <2>2. pt[u] \in PCall
    BY <1>1
  <2>3. CASE pt[u].pc = "wsleep"
    BY <2>1, <2>2, <2>3, RousedCall
  <2>4. CASE ~(pt[u].pc = "wsleep")
    BY <2>1, <2>2, <2>4, RousedCall
  <2> QED
    BY <2>3, <2>4
<1>11. ASSUME NEW u \in PipeUsers, u # t PROVE EndInv(u)' /\ pt'[u] \in PCall
  <2>1. Roused(pt[u], pt'[u]) /\ EndInv(u) /\ pt[u].pc \notin {"rdoze", "wdoze"} /\ pt'[u].pc # "wsleep"
    BY <1>1, <1>10, <1>11 DEF PipeFree
  <2>2. pt'[u].pc \notin {"wdoze", "wsleep", "rdoze"} /\ (pt'[u].pc = "rsleep" => pt[u].pc = "rsleep")
    BY <2>1 DEF Roused
  <2>3. pt'[u].pc \in {"rdoze", "rsleep"} => (writeopen' /\ (hit' = {} => Size' = 0))
    BY <1>3, <1>4, <1>5, <2>1, <2>2 DEF EndInv
  <2>4. pt[u].pc # "user" => u \in using'
    BY <1>4, <2>1 DEF EndInv, PAt
  <2> QED
    BY <2>1, <2>2, <2>3, <2>4, OtherCall DEF Roused
<1>12. t \in PReaders /\ t \in using
  BY <1>1 DEF EndInv, PAt, Reading
<1>13. EndInv(t)'
  BY <1>4, <1>8, <1>9, <1>12 DEF EndInv, PAt, Reading, Writing
<1>14. pt' \in [PipeUsers -> PCall]
  BY <1>1, <1>4, <1>8, <1>9, <1>11 DEF WakeWriters
<1>15. Size' <= PIPESIZE
  BY SMTT(30), <1>2, <1>3, <1>5, PipeNumbers
<1>16. PipeInv'
  BY <1>4, <1>5, <1>11, <1>13, <1>14, <1>15 DEF PipeInv
<1>17. Gotten' = [Gotten EXCEPT ![t] = SubSeq(Contents, 1, m)]
  BY <1>5, <1>8, <1>9, <1>10, <1>12 DEF Gotten, PipeUsers, Roused
<1>18. Queue!Read(t, m)
  BY <1>3, <1>5, <1>6, <1>17 DEF Queue!Read
<1> QED
  BY <1>3, <1>12, <1>16, <1>18 DEF QueueStep, Queue!Next

LEMMA WriteKeeps ==
  ASSUME PipeInv, NEW t \in PipeUsers, pipewrite(t)
  PROVE  PipeInv' /\ QueueStep
<1> DEFINE s == pt[t].buf
           m == Fits(s)
           b == SubSeq(s, 1, m)
           r == SubSeq(s, m + 1, Len(s))
           w == [pt[t] EXCEPT !.pc = "wdoze", !.buf = r]
           d == IF m = Len(s) THEN PIdle ELSE w
           gone == m < Len(s) /\ (~readopen \/ t \in hit)
<1>1. /\ pt \in [PipeUsers -> PCall] /\ pt[t] \in PCall /\ \A u \in PipeUsers : EndInv(u)
      /\ pt[t].pc = "write" /\ PipeFree
  BY DEF PipeInv, pipewrite, PAt
<1>2. s \in Seq(PBytes) /\ Len(s) \in Nat /\ Size \in Nat /\ Size <= PIPESIZE
  BY <1>1, CallFields, Counters, LenProperties
<1>3. /\ m \in Nat /\ m <= Len(s) /\ Size + m <= PIPESIZE /\ (Size = PIPESIZE => Size + m = PIPESIZE)
      /\ m # Len(s) => (m < Len(s) /\ Size + m = PIPESIZE)
  <2> DEFINE n == Len(s)
  <2>1. n \in Int /\ PIPESIZE - Size \in Int /\ n \in Nat
    BY SMTT(30), <1>2, PipeNumbers
  <2>2. m \in {n, PIPESIZE - Size} /\ m <= n /\ m <= PIPESIZE - Size
    BY <2>1, Smaller DEF Fits
  <2> HIDE DEF m, n
  <2>3. /\ m \in Nat /\ m <= n /\ Size + m <= PIPESIZE /\ (Size = PIPESIZE => Size + m = PIPESIZE)
        /\ m # n => (m < n /\ Size + m = PIPESIZE)
    BY SMTT(30), <1>2, <2>1, <2>2, PipeNumbers
  <2> QED
    BY <2>3 DEF n
<1>4. /\ nwrite' = Moved(nwrite, m, WRAP) /\ data' = Stored(s, m)
      /\ UNCHANGED <<nread, readopen, writeopen, using, hit>>
      /\ pt' = IF gone THEN [pt EXCEPT ![t] = PIdle] ELSE WakeReaders([pt EXCEPT ![t] = d])
  BY DEF pipewrite, Moved
<1>5. r \in Seq(PBytes)
  BY <1>2, <1>3, LastPart
<1> HIDE DEF m
<1>6. /\ Size' = Size + m /\ nwrite' \in 0 .. WRAP - 1 /\ data' \in [0 .. PIPESIZE - 1 -> PBytes]
      /\ Contents' = Contents \o b /\ b \in [1 .. m -> PBytes]
  BY <1>2, <1>3, <1>4, QueueWritten
<1>7. pt[t].got = <<>> /\ t \in PWriters /\ t \in using
  BY <1>1 DEF EndInv, PAt, Writing
<1> HIDE DEF s, r
<1>8. w \in PCall /\ w.pc = "wdoze" /\ w.got = <<>>
  BY <1>1, <1>5, <1>7 DEF PCall, Writing
<1> HIDE DEF w
<1>9. d \in PCall /\ d.got = <<>> /\ (d.pc = "user" \/ (d.pc = "wdoze" /\ m # Len(s)))
  BY <1>8, IdleCall
<1> HIDE DEF d
<1>10. /\ gone => pt'[t] = PIdle
       /\ ~gone => pt'[t] = d
  BY <1>1, <1>4 DEF WakeReaders
<1>11. ASSUME NEW u \in PipeUsers, u # t
       PROVE  Roused(pt[u], pt'[u]) /\ (~gone => pt'[u].pc # "rsleep")
  <2>1. pt'[u] = IF ~gone /\ pt[u].pc = "rsleep" THEN [pt[u] EXCEPT !.pc = "read"] ELSE pt[u]
    BY <1>1, <1>4, <1>11 DEF WakeReaders
  <2>2. pt[u] \in PCall
    BY <1>1
  <2>3. CASE ~gone /\ pt[u].pc = "rsleep"
    BY <2>1, <2>2, <2>3, RousedCall
  <2>4. CASE ~(~gone /\ pt[u].pc = "rsleep")
    BY <2>1, <2>2, <2>4, RousedCall
  <2> QED
    BY <2>3, <2>4
<1>12. ASSUME NEW u \in PipeUsers, u # t PROVE EndInv(u)' /\ pt'[u] \in PCall
  <2>1. Roused(pt[u], pt'[u]) /\ EndInv(u) /\ pt[u].pc \notin {"rdoze", "wdoze"}
    BY <1>1, <1>11, <1>12 DEF PipeFree
  <2>2. /\ pt'[u].pc \notin {"wdoze", "rdoze"} /\ (pt'[u].pc = "rsleep" => pt[u].pc = "rsleep")
        /\ (pt'[u].pc = "wsleep" => pt[u].pc = "wsleep")
    BY <2>1 DEF Roused
  <2>3. ASSUME pt'[u].pc = "rsleep" PROVE writeopen' /\ hit' # {}
    <3>1. gone /\ pt[u].pc = "rsleep"
      BY <1>11, <1>12, <2>2, <2>3
    <3>2. u \in using /\ u \in PReaders /\ writeopen
      BY <2>1, <3>1 DEF EndInv, PAt, Reading
    <3>3. readopen
      BY <3>2 DEF PipeInv
    <3> QED
      BY <1>4, <3>1, <3>2, <3>3
  <2>4. pt'[u].pc = "wsleep" => (readopen' /\ Size' = PIPESIZE)
    BY <1>3, <1>4, <1>6, <2>1, <2>2 DEF EndInv
  <2>5. pt[u].pc # "user" => u \in using'
    BY <1>4, <2>1 DEF EndInv, PAt
  <2> QED
    BY <2>1, <2>2, <2>3, <2>4, <2>5, OtherCall DEF Roused
<1>13. EndInv(t)' /\ pt'[t] \in PCall /\ pt'[t].got = pt[t].got
  <2>1. CASE gone
    BY <1>7, <1>10, <2>1, IdleCall DEF EndInv, PAt, Reading, Writing
  <2>2. CASE ~gone
    <3>1. pt'[t] = d /\ (d.pc = "wdoze" => (readopen' /\ Size' = PIPESIZE))
      BY <1>3, <1>4, <1>6, <1>9, <1>10, <2>2
    <3> QED
      BY <1>4, <1>7, <1>9, <3>1 DEF EndInv, PAt, Reading, Writing
  <2> QED
    BY <2>1, <2>2
<1>14. pt' \in [PipeUsers -> PCall]
  BY <1>1, <1>4, <1>12, <1>13 DEF WakeReaders
<1>15. PipeInv'
  BY <1>3, <1>4, <1>6, <1>12, <1>13, <1>14 DEF PipeInv
<1>16. Gotten' = Gotten
  BY <1>11, <1>13, SameGotten DEF Roused
<1>17. Contents \in Seq(PBytes) /\ Len(Contents) = Size
  BY ContentsAre
<1>18. b \in Seq(PBytes) /\ Len(b) = m
  BY <1>3, <1>6, SeqOfLen
<1> HIDE DEF b
<1>19. CASE m = 0
  <2>1. b = <<>>
    BY <1>18, <1>19, EmptySeq
  <2>2. Contents' = Contents
    BY <1>6, <1>17, <2>1, ConcatEmptySeq
  <2> QED
    BY <1>15, <1>16, <2>2 DEF QueueStep
<1>20. CASE m # 0
  <2>1. m \in 1 .. PIPESIZE
    BY SMTT(30), <1>2, <1>3, <1>20, PipeNumbers
  <2>2. Len(Contents \o b) = Size + m
    BY <1>17, <1>18, ConcatProperties
  <2>3. Queue!Write(b)
    BY <1>3, <1>6, <1>16, <2>2 DEF Queue!Write
  <2> QED
    BY <1>6, <1>15, <2>1, <2>3 DEF QueueStep, Queue!Next
<1> QED
  BY <1>19, <1>20

LEMMA CloseEndKeeps ==
  ASSUME PipeInv, NEW t \in PipeUsers, CloseEnd(t)
  PROVE  PipeInv' /\ QueueStep
<1>1. /\ pt \in [PipeUsers -> PCall] /\ \A u \in PipeUsers : EndInv(u) /\ pt[u] \in PCall
      /\ pt[t].pc = "user" /\ PipeFree
  BY DEF PipeInv, CloseEnd, PAt
<1>2. /\ UNCHANGED <<nread, nwrite, data, hit>> /\ using' = using \ {t}
      /\ readopen' = (using' \intersect PReaders # {}) /\ writeopen' = (using' \intersect PWriters # {})
      /\ pt' = IF writeopen' # writeopen THEN WakeReaders(pt)
               ELSE IF readopen' # readopen THEN WakeWriters(pt) ELSE pt
  BY DEF CloseEnd
<1>3. Size' = Size /\ Contents' = Contents
  BY <1>2, SameContents
<1>4. ASSUME NEW u \in PipeUsers
      PROVE  /\ Roused(pt[u], pt'[u])
             /\ writeopen' # writeopen => pt'[u].pc # "rsleep"
             /\ (writeopen' = writeopen /\ readopen' # readopen) => pt'[u].pc # "wsleep"
             /\ (pt'[u].pc = "rsleep" => pt[u].pc = "rsleep") /\ (pt'[u].pc = "wsleep" => pt[u].pc = "wsleep")
             /\ pt'[u].pc \in {"rdoze", "wdoze"} => pt'[u].pc = pt[u].pc
  <2>1. pt'[u] = IF writeopen' # writeopen
                 THEN IF pt[u].pc = "rsleep" THEN [pt[u] EXCEPT !.pc = "read"] ELSE pt[u]
                 ELSE IF readopen' # readopen
                 THEN IF pt[u].pc = "wsleep" THEN [pt[u] EXCEPT !.pc = "write"] ELSE pt[u]
                 ELSE pt[u]
    BY <1>2 DEF WakeReaders, WakeWriters
  <2>2. pt[u] \in PCall
    BY <1>1
  <2>3. CASE pt'[u] = pt[u] /\ (writeopen' # writeopen => pt[u].pc # "rsleep")
                            /\ ((writeopen' = writeopen /\ readopen' # readopen) => pt[u].pc # "wsleep")
    BY <2>2, <2>3, RousedCall
  <2>4. CASE pt[u].pc = "rsleep" /\ writeopen' # writeopen /\ pt'[u] = [pt[u] EXCEPT !.pc = "read"]
    BY <2>2, <2>4, RousedCall
  <2>5. CASE pt[u].pc = "wsleep" /\ writeopen' = writeopen /\ pt'[u] = [pt[u] EXCEPT !.pc = "write"]
    BY <2>2, <2>5, RousedCall
  <2> QED
    BY <2>1, <2>3, <2>4, <2>5
<1>5. ASSUME NEW u \in PipeUsers PROVE EndInv(u)' /\ pt'[u] \in PCall
  <2>1. /\ EndInv(u) /\ pt'[u].pc \notin {"rdoze", "wdoze"}
    BY <1>1, <1>4 DEF PipeFree
  <2>2. pt[u].pc # "user" => u \in using'
    BY <1>1, <1>2, <2>1 DEF EndInv, PAt
  <2>3. pt'[u].pc = "rsleep" => (writeopen' /\ (hit' = {} => Size' = 0))
    BY <1>2, <1>3, <1>4, <2>1 DEF EndInv
  <2>4. ASSUME pt'[u].pc = "wsleep" PROVE readopen' /\ Size' = PIPESIZE
    <3>1. pt[u].pc = "wsleep"
      BY <1>4, <2>4
    <3>2. u \in using /\ u \in PWriters /\ readopen /\ Size = PIPESIZE /\ u \in using'
      BY <2>1, <2>2, <3>1 DEF EndInv, PAt, Writing
    <3>3. writeopen /\ writeopen' = TRUE
      BY <1>2, <3>2 DEF PipeInv
    <3>4. writeopen' = writeopen
      BY <3>3
    <3>5. readopen' = readopen
      BY <1>4, <2>4, <3>4
    <3> QED
      BY <1>3, <3>2, <3>5
  <2> QED
    BY <1>4, <2>1, <2>2, <2>3, <2>4, OtherCall DEF Roused
<1>6. pt' \in [PipeUsers -> PCall]
  BY <1>1, <1>2, <1>5 DEF WakeReaders, WakeWriters
<1>7. Gotten' = Gotten
  BY <1>4, SameGotten DEF Roused
<1> QED
  BY <1>2, <1>3, <1>5, <1>6, <1>7 DEF PipeInv, QueueStep

-----------------------------------------------------------------------------
LEMMA PipeStarts == PipeInit => PipeInv /\ Queue!Init
<1> SUFFICES ASSUME PipeInit PROVE PipeInv /\ Queue!Init
  OBVIOUS
<1>1. nread = 0 /\ nwrite = 0 /\ pt = [t \in PipeUsers |-> PIdle]
  BY DEF PipeInit
<1>2. Size = 0
  <2>1. 0 - 0 = 0 /\ 0 \in Int /\ 0 <= 0 /\ 0 < WRAP
    BY SMTT(30), PipeNumbers
  <2>2. 0 % WRAP = 0
    BY <2>1, PipeNumbers, SmallRemainder
  <2> QED
    BY <1>1, <2>1, <2>2 DEF Size
<1>3. nread \in 0 .. WRAP - 1 /\ nwrite \in 0 .. WRAP - 1 /\ Size <= PIPESIZE
  BY SMTT(30), <1>1, <1>2, PipeNumbers
<1>4. Min(PBytes) \in PBytes
  <2>1. PBytes \subseteq Nat /\ PBytes # {}
    BY PayloadAssumption
  <2>2. \E x \in PBytes : \A y \in PBytes : ~(<<y, x>> \in OpToRel(<, Nat))
    BY <2>1, NatLessThanWellFounded, WFMin
  <2>3. \E x \in PBytes : \A y \in PBytes : ~(y < x)
    BY <2>1, <2>2 DEF OpToRel
  <2>4. \E x \in PBytes : \A y \in PBytes : x =< y
    BY SMTT(30), <2>1, <2>3
  <2> QED
    BY <2>4 DEF Min
<1>5. \A t \in PipeUsers : EndInv(t)
  BY <1>1, IdleCall DEF EndInv, PAt, Reading, Writing
<1>6. PipeInv
  BY <1>1, <1>3, <1>4, <1>5, IdleCall DEF PipeInv, PipeInit
<1>7. Contents = <<>>
  BY <1>2, <1>6, ContentsAre, EmptySeq
<1>8. Gotten = [r \in PReaders |-> <<>>]
  BY <1>1, IdleCall DEF Gotten, PipeUsers
<1> QED
  BY <1>6, <1>7, <1>8 DEF Queue!Init

LEMMA PipeSteps ==
  ASSUME PipeInv, [PipeNext]_pipeVars
  PROVE  PipeInv' /\ QueueStep
<1>1. CASE UNCHANGED pipeVars
  <2>1. UNCHANGED <<nread, nwrite, data, readopen, writeopen, using, hit, pt>>
    BY <1>1 DEF pipeVars
  <2>2. Size' = Size /\ Contents' = Contents /\ Gotten' = Gotten
    BY <2>1, SameContents DEF Gotten
  <2> QED
    BY <2>1, <2>2 DEF PipeInv, EndInv, PAt, QueueStep
<1>2. ASSUME NEW t \in PipeUsers, piperead(t) PROVE PipeInv' /\ QueueStep
  BY <1>2, EmptyReadKeeps, ReadKeeps
<1> QED
  BY <1>1, <1>2, PipeSleepKeeps, ReadReturnsKeeps, WriteKeeps, CloseEndKeeps, KillEndKeeps,
     ReadPipeKeeps, WritePipeKeeps DEF PipeNext, PipeStep

(* nwrite is ahead of nread by at most PIPESIZE whatever the wrap of the   *)
(* counters, a call keeps its end of the pipe open, and who is about to    *)
(* sleep in piperead or pipewrite has seen that there is nothing to do.    *)
THEOREM PipeInvariant == PipeSpec => []PipeInv
BY PipeStarts, PipeSteps, PTL DEF PipeSpec

(* No reader sleeps in piperead once the writers are gone or, unless a     *)
(* thread was killed, while there are bytes; and no writer in pipewrite    *)
(* once the readers are gone or while there is room.                       *)
THEOREM PipeWakesSleepers == PipeSpec => []NoLostPipeWakeup
<1>1. PipeInv => NoLostPipeWakeup
  BY EmptyIs, FullIs DEF PipeInv, EndInv, PAt, NoLostPipeWakeup
<1> QED
  BY <1>1, PipeInvariant, PTL

(* piperead and pipewrite implement a bounded queue of bytes: what is read *)
(* is what was written, in order, nothing lost or repeated, for every      *)
(* PIPESIZE and across the wrap of the buffer and of nread and nwrite.     *)
THEOREM PipeIsByteQueue == PipeSpec => PipeIsQueue
<1>1. PipeInit => Queue!Init
  BY PipeStarts
<1>2. PipeInv /\ [PipeNext]_pipeVars => [Queue!Next]_<<Contents, Gotten>>
  BY PipeSteps DEF QueueStep
<1> QED
  BY <1>1, <1>2, PipeInvariant, PTL DEF PipeSpec, PipeIsQueue, Queue!Spec

-----------------------------------------------------------------------------
(* The input buffer of the console *)

LEMMA ConsoleNumbers ==
  /\ Wheel(UWRAP, INPUT_BUF) /\ UWRAP \in Int /\ UWRAP > 0
  /\ INPUT_BUF \in Int /\ INPUT_BUF > 0 /\ INPUT_BUF \in Nat /\ INPUT_BUF < UWRAP
<1> DEFINE r == UWRAP % INPUT_BUF
<1>1. INPUT_BUF \in Nat \ {0} /\ UWRAP \in Nat /\ UWRAP > INPUT_BUF /\ r = 0
  BY ConsoleAssumption
<1> HIDE DEF r
<1>2. /\ INPUT_BUF \in Int /\ INPUT_BUF > 0 /\ INPUT_BUF \in Nat /\ UWRAP \in Int /\ UWRAP > 0
      /\ INPUT_BUF < UWRAP /\ UWRAP > INPUT_BUF
  BY SMTT(30), <1>1
<1> QED
  BY <1>1, <1>2 DEF r, Wheel

LEMMA ConsoleWheel == Wheel(UWRAP, INPUT_BUF)
BY ConsoleNumbers

(* The d elements from counter a on of a circular buffer. *)
Ring(buf, a, d) == [j \in 1 .. d |-> buf[Place(a, j, UWRAP, INPUT_BUF)]]

(* x is those elements, each in CChars. *)
Lists(x, buf, a, d) ==
  x \in Seq(CChars) /\ Len(x) = d /\ \A j \in 1 .. d : x[j] = buf[Place(a, j, UWRAP, INPUT_BUF)]

LEMMA RingIs ==
  ASSUME NEW buf \in [0 .. INPUT_BUF - 1 -> CChars],
         NEW a \in Int, NEW d \in Nat
  PROVE  Lists(Ring(buf, a, d), buf, a, d)
<1>1. \A j \in 1 .. d : j \in Int
  BY SMTT(30)
<1>2. \A j \in 1 .. d : buf[Place(a, j, UWRAP, INPUT_BUF)] \in CChars
  BY <1>1, ConsoleWheel, PlaceIs
<1>3. Ring(buf, a, d) \in [1 .. d -> CChars]
  BY <1>2 DEF Ring
<1>4. \A j \in 1 .. d : Ring(buf, a, d)[j] = buf[Place(a, j, UWRAP, INPUT_BUF)]
  BY DEF Ring
<1> QED
  BY <1>3, <1>4, SeqOfLen DEF Lists

LEMMA RingFirst ==
  ASSUME NEW buf \in [0 .. INPUT_BUF - 1 -> CChars],
         NEW a \in Int, NEW d \in Nat, NEW k \in Nat, k <= d
  PROVE  SubSeq(Ring(buf, a, d), 1, k) = Ring(buf, a, k)
<1> DEFINE x == Ring(buf, a, d)
           y == Ring(buf, a, k)
           f == SubSeq(x, 1, k)
<1>1. x \in Seq(CChars) /\ Len(x) = d /\ \A j \in 1 .. d : x[j] = buf[Place(a, j, UWRAP, INPUT_BUF)]
  <2>1. Lists(x, buf, a, d)
    BY RingIs
  <2> QED
    BY <2>1 DEF Lists
<1>2. y \in Seq(CChars) /\ Len(y) = k /\ \A j \in 1 .. k : y[j] = buf[Place(a, j, UWRAP, INPUT_BUF)]
  <2>1. Lists(y, buf, a, k)
    BY RingIs
  <2> QED
    BY <2>1 DEF Lists
<1> HIDE DEF x, y
<1>3. f \in Seq(CChars) /\ Len(f) = k /\ \A i \in 1 .. k : f[i] = x[i]
  BY <1>1, FirstPart
<1>4. \A i \in 1 .. k : i \in 1 .. d
  BY SMTT(30)
<1>5. \A i \in 1 .. k : f[i] = y[i]
  BY <1>1, <1>2, <1>3, <1>4
<1>6. f = y
  BY <1>2, <1>3, <1>5, SeqEqual
<1> QED
  BY <1>6 DEF x, y

LEMMA RingLast ==
  ASSUME NEW buf \in [0 .. INPUT_BUF - 1 -> CChars],
         NEW a \in Int, NEW d \in Nat, NEW k \in Nat, k <= d
  PROVE  SubSeq(Ring(buf, a, d), k + 1, d) = Ring(buf, Moved(a, k, UWRAP), d - k)
<1> DEFINE x == Ring(buf, a, d)
           h == Moved(a, k, UWRAP)
           m == d - k
           y == Ring(buf, h, m)
           l == SubSeq(x, k + 1, d)
<1>0. UWRAP \in Int /\ UWRAP > 0 /\ k \in Int /\ m \in Nat
  BY SMTT(30), ConsoleNumbers
<1>1. x \in Seq(CChars) /\ Len(x) = d /\ \A j \in 1 .. d : x[j] = buf[Place(a, j, UWRAP, INPUT_BUF)]
  <2>1. Lists(x, buf, a, d)
    BY RingIs
  <2> QED
    BY <2>1 DEF Lists
<1>2. h \in Int
  BY <1>0, MovedIs
<1>3. y \in Seq(CChars) /\ Len(y) = m /\ \A j \in 1 .. m : y[j] = buf[Place(h, j, UWRAP, INPUT_BUF)]
  <2>1. Lists(y, buf, h, m)
    BY <1>0, <1>2, RingIs
  <2> QED
    BY <2>1 DEF Lists
<1> HIDE DEF x, y
<1>4. l \in Seq(CChars) /\ Len(l) = m /\ \A i \in 1 .. m : l[i] = x[k + i]
  BY ZenonT(60), <1>1, LastPart
<1>5. \A i \in 1 .. m : k + i \in 1 .. d /\ i \in Int
  BY SMTT(30), <1>0
<1>6. \A i \in 1 .. m : Place(h, i, UWRAP, INPUT_BUF) = Place(a, k + i, UWRAP, INPUT_BUF)
  BY SMTT(30), <1>0, <1>5, ConsoleWheel, PlaceMoved
<1> HIDE DEF m, h
<1>7. \A i \in 1 .. m : l[i] = y[i]
  BY <1>1, <1>3, <1>4, <1>5, <1>6
<1>8. l = y
  BY <1>3, <1>4, <1>7, SeqEqual
<1> QED
  BY <1>8 DEF x, y, m, h

LEMMA RingConcat ==
  ASSUME NEW buf \in [0 .. INPUT_BUF - 1 -> CChars],
         NEW a \in Int, NEW d \in Nat, NEW k \in Nat
  PROVE  Ring(buf, a, d) \o Ring(buf, Moved(a, d, UWRAP), k) = Ring(buf, a, d + k)
<1> DEFINE x == Ring(buf, a, d)
           h == Moved(a, d, UWRAP)
           m == d + k
           y == Ring(buf, h, k)
           z == Ring(buf, a, m)
           c == x \o y
<1>0. UWRAP \in Int /\ UWRAP > 0 /\ d \in Int /\ m \in Nat
  BY SMTT(30), ConsoleNumbers
<1>1. x \in Seq(CChars) /\ Len(x) = d /\ \A j \in 1 .. d : x[j] = buf[Place(a, j, UWRAP, INPUT_BUF)]
  <2>1. Lists(x, buf, a, d)
    BY RingIs
  <2> QED
    BY <2>1 DEF Lists
<1>2. h \in Int
  BY <1>0, MovedIs
<1>3. y \in Seq(CChars) /\ Len(y) = k /\ \A j \in 1 .. k : y[j] = buf[Place(h, j, UWRAP, INPUT_BUF)]
  <2>1. Lists(y, buf, h, k)
    BY <1>2, RingIs
  <2> QED
    BY <2>1 DEF Lists
<1>4. z \in Seq(CChars) /\ Len(z) = m /\ \A j \in 1 .. m : z[j] = buf[Place(a, j, UWRAP, INPUT_BUF)]
  <2>1. Lists(z, buf, a, m)
    BY <1>0, RingIs
  <2> QED
    BY <2>1 DEF Lists
<1> HIDE DEF x, y, z
<1>5. c \in Seq(CChars) /\ Len(c) = m /\ \A i \in 1 .. m : c[i] = IF i <= d THEN x[i] ELSE y[i - d]
  BY ZenonT(60), <1>1, <1>3, ConcatProperties
<1>6. \A i \in 1 .. k : Place(h, i, UWRAP, INPUT_BUF) = Place(a, d + i, UWRAP, INPUT_BUF)
  <2>1. \A i \in 1 .. k : i \in Int
    BY SMTT(30)
  <2> QED
    BY SMTT(30), <1>0, <2>1, ConsoleWheel, PlaceMoved
<1> HIDE DEF h, m, c
<1>7. ASSUME NEW i \in 1 .. m PROVE c[i] = z[i]
  <2>1. CASE i <= d
    <3>1. i \in 1 .. d
      BY SMTT(30), <1>0, <2>1
    <3> QED
      BY <1>1, <1>4, <1>5, <2>1, <3>1
  <2>2. CASE ~(i <= d)
    <3>1. i - d \in 1 .. k /\ d + (i - d) = i
      BY SMTT(30), <1>0, <2>2 DEF m
    <3>2. y[i - d] = buf[Place(a, i, UWRAP, INPUT_BUF)]
      BY <1>3, <1>6, <3>1
    <3> QED
      BY <1>4, <1>5, <2>2, <3>2
  <2> QED
    BY <2>1, <2>2
<1>8. c = z
  BY <1>4, <1>5, <1>7, SeqEqual
<1> QED
  BY <1>8 DEF x, y, z, h, m, c

Put(buf, e, c) == [buf EXCEPT ![e % INPUT_BUF] = c]

(* Storing an element behind the d that are there. *)
LEMMA RingStore ==
  ASSUME NEW buf \in [0 .. INPUT_BUF - 1 -> CChars], NEW c \in CChars,
         NEW a \in Int, NEW d \in Nat, d < INPUT_BUF
  PROVE  /\ Put(buf, Moved(a, d, UWRAP), c) \in [0 .. INPUT_BUF - 1 -> CChars]
         /\ Ring(Put(buf, Moved(a, d, UWRAP), c), a, d + 1) = Append(Ring(buf, a, d), c)
         /\ \A k \in 0 .. d : Ring(Put(buf, Moved(a, d, UWRAP), c), a, k) = Ring(buf, a, k)
<1> DEFINE buf2 == Put(buf, Moved(a, d, UWRAP), c)
           h == Moved(a, d, UWRAP)
           p == Place(a, d + 1, UWRAP, INPUT_BUF)
<1>0. UWRAP \in Int /\ UWRAP > 0 /\ d \in Int /\ d + 1 \in Nat /\ d + 1 \in Int /\ d + 1 \in 1 .. INPUT_BUF /\ 1 \in Int
  BY SMTT(30), ConsoleNumbers
<1>1. h \in Int
  BY <1>0, MovedIs
<1>2. h % INPUT_BUF = p
  <2>1. Place(h, 1, UWRAP, INPUT_BUF) = (h + 1 - 1) % INPUT_BUF
    BY SMTT(30), <1>1, ConsoleWheel, PlaceIs
  <2>2. h + 1 - 1 = h
    BY SMTT(30), <1>1
  <2>3. Place(h, 1, UWRAP, INPUT_BUF) = p
    BY SMTT(30), <1>0, ConsoleWheel, PlaceMoved
  <2> QED
    BY <2>1, <2>2, <2>3
<1> HIDE DEF h
<1>3. p \in 0 .. INPUT_BUF - 1
  BY <1>0, ConsoleWheel, PlaceIs
<1>4. buf2 = [buf EXCEPT ![p] = c]
  BY <1>2 DEF h, Put
<1> HIDE DEF buf2
<1>5. /\ buf2 \in [0 .. INPUT_BUF - 1 -> CChars] /\ buf2[p] = c
      /\ \A i \in 0 .. INPUT_BUF - 1 : i # p => buf2[i] = buf[i]
  BY <1>3, <1>4
<1>6. ASSUME NEW j \in 1 .. d
      PROVE  buf2[Place(a, j, UWRAP, INPUT_BUF)] = buf[Place(a, j, UWRAP, INPUT_BUF)]
  <2>1. j \in Int /\ j \in 1 .. INPUT_BUF /\ j # d + 1
    BY SMTT(30), <1>0, ConsoleNumbers
  <2>2. Place(a, j, UWRAP, INPUT_BUF) \in 0 .. INPUT_BUF - 1
    BY <2>1, ConsoleWheel, PlaceIs
  <2>3. Place(a, j, UWRAP, INPUT_BUF) # p
    BY <1>0, <2>1, ConsoleWheel, PlacesDiffer
  <2> QED
    BY <1>5, <2>2, <2>3
<1>7. ASSUME NEW k \in 0 .. d PROVE Ring(buf2, a, k) = Ring(buf, a, k)
  <2>1. \A j \in 1 .. k : j \in 1 .. d
    BY SMTT(30)
  <2> QED
    BY <1>6, <2>1 DEF Ring
<1> DEFINE x == Ring(buf, a, d)
           m == d + 1
           y == Ring(buf2, a, m)
<1>8. x \in Seq(CChars) /\ Len(x) = d /\ \A j \in 1 .. d : x[j] = buf[Place(a, j, UWRAP, INPUT_BUF)]
  <2>1. Lists(x, buf, a, d)
    BY RingIs
  <2> QED
    BY <2>1 DEF Lists
<1>9. y \in Seq(CChars) /\ Len(y) = m /\ \A j \in 1 .. m : y[j] = buf2[Place(a, j, UWRAP, INPUT_BUF)]
  <2>1. Lists(y, buf2, a, m)
    BY <1>0, <1>5, RingIs
  <2> QED
    BY <2>1 DEF Lists
<1> HIDE DEF x, y
<1>10. /\ Append(x, c) \in Seq(CChars) /\ Len(Append(x, c)) = m
       /\ \A i \in 1 .. d : Append(x, c)[i] = x[i]
       /\ Append(x, c)[m] = c
  BY SMTT(30), <1>8, AppendProperties
<1>11. ASSUME NEW i \in 1 .. m PROVE y[i] = Append(x, c)[i]
  <2>1. i \in 1 .. d \/ i = m
    BY SMTT(30), <1>0
  <2> QED
    BY <1>5, <1>6, <1>8, <1>9, <1>10, <2>1
<1>12. y = Append(x, c)
  BY <1>9, <1>10, <1>11, SeqEqual
<1> QED
  BY <1>5, <1>7, <1>12 DEF x, y, buf2

LEMMA InputIs ==
  ASSUME InputInv
  PROVE  /\ input.buf \in [0 .. INPUT_BUF - 1 -> CChars]
         /\ input.r \in Int /\ 0 <= input.r /\ input.r < UWRAP
         /\ input.w \in Int /\ 0 <= input.w /\ input.w < UWRAP
         /\ input.e \in Int /\ 0 <= input.e /\ input.e < UWRAP
         /\ Held \in Nat /\ Held \in Int /\ Held = Ahead(input.w, input.r, UWRAP)
         /\ Typed \in Nat /\ Typed \in Int /\ Typed = Ahead(input.e, input.w, UWRAP)
<1>1. /\ input.buf \in [0 .. INPUT_BUF - 1 -> CChars]
      /\ input.r \in 0 .. UWRAP - 1 /\ input.w \in 0 .. UWRAP - 1 /\ input.e \in 0 .. UWRAP - 1
  BY DEF InputInv
<1> DEFINE r == input.r
           w == input.w
           e == input.e
<1>2. r \in 0 .. UWRAP - 1 /\ w \in 0 .. UWRAP - 1 /\ e \in 0 .. UWRAP - 1
  BY <1>1
<1> HIDE DEF r, w, e
<1>3. /\ r \in Int /\ 0 <= r /\ r < UWRAP /\ w \in Int /\ 0 <= w /\ w < UWRAP
      /\ e \in Int /\ 0 <= e /\ e < UWRAP
  BY SMTT(30), <1>2, ConsoleNumbers
<1>4. Held = Ahead(w, r, UWRAP) /\ Typed = Ahead(e, w, UWRAP)
  BY DEF Held, Typed, Dist, Ahead, r, w, e
<1>5. Held \in Int /\ 0 <= Held /\ Typed \in Int /\ 0 <= Typed
  BY <1>3, <1>4, ConsoleNumbers, AheadIs
<1>6. Held \in Nat /\ Typed \in Nat
  BY SMTT(30), <1>5
<1> QED
  BY <1>1, <1>3, <1>4, <1>5, <1>6 DEF r, w, e

LEMMA IndicesAre ==
  ASSUME InputInv
  PROVE  /\ input.w = Moved(input.r, Held, UWRAP)
         /\ input.e = Moved(input.w, Typed, UWRAP)
         /\ input.e = Moved(input.r, Held + Typed, UWRAP)
         /\ Dist(input.r, input.e) = Held + Typed
         /\ Held + Typed <= INPUT_BUF /\ Held + Typed < UWRAP /\ Held + Typed \in Nat
         /\ (input.r = input.w <=> Held = 0)
<1> DEFINE r == input.r
           w == input.w
           e == input.e
<1>1. /\ r \in Int /\ w \in Int /\ e \in Int /\ 0 <= r /\ r < UWRAP
      /\ 0 <= w /\ w < UWRAP /\ 0 <= e /\ e < UWRAP
      /\ Held \in Nat /\ Held \in Int /\ Held = Ahead(w, r, UWRAP)
      /\ Typed \in Nat /\ Typed \in Int /\ Typed = Ahead(e, w, UWRAP)
  BY InputIs
<1>2. Held + Typed <= INPUT_BUF
  BY DEF InputInv
<1>3. Dist(r, e) = Ahead(e, r, UWRAP)
  BY DEF Dist, Ahead
<1> HIDE DEF r, w, e
<1>4. w = Moved(r, Held, UWRAP)
  BY <1>1, ConsoleNumbers, MovedAhead
<1>5. e = Moved(w, Typed, UWRAP)
  BY <1>1, ConsoleNumbers, MovedAhead
<1>6. e = Moved(r, Held + Typed, UWRAP)
  <2>1. Moved(Moved(r, Held, UWRAP), Typed, UWRAP) = Moved(r, Held + Typed, UWRAP)
    BY SMTT(30), <1>1, ConsoleNumbers, MovedTwice
  <2> QED
    BY <1>4, <1>5, <2>1
<1>7. 0 <= Held + Typed /\ Held + Typed < UWRAP /\ Held + Typed \in Nat /\ Held + Typed \in Int
  BY SMTT(30), <1>1, <1>2, ConsoleNumbers
<1>8. Ahead(e, r, UWRAP) = Held + Typed
  <2> DEFINE s == Held + Typed
  <2>1. s \in Int /\ 0 <= s /\ s < UWRAP
    BY <1>7
  <2> HIDE DEF s
  <2>2. Ahead(Moved(r, s, UWRAP), r, UWRAP) = s
    BY <1>1, <2>1, ConsoleNumbers, AheadOfMoved
  <2> QED
    BY <1>6, <2>2 DEF s
<1>9. r = w <=> Held = 0
  <2>1. r - r = 0 /\ 0 \in Int /\ 0 <= 0 /\ 0 < UWRAP /\ r + 0 = r
    BY SMTT(30), <1>1, ConsoleNumbers
  <2>2. 0 % UWRAP = 0 /\ r % UWRAP = r
    BY <1>1, <2>1, ConsoleNumbers, SmallRemainder
  <2> QED
    BY <1>1, <1>4, <2>1, <2>2 DEF Ahead, Moved
<1> QED
  BY <1>2, <1>3, <1>4, <1>5, <1>6, <1>7, <1>8, <1>9 DEF r, w, e

LEMMA BytesAreRings ==
  /\ HeldBytes = Ring(input.buf, input.r, Held)
  /\ TypedBytes = Ring(input.buf, input.w, Typed)
  /\ HeldBytes' = Ring(input'.buf, input'.r, Held')
  /\ TypedBytes' = Ring(input'.buf, input'.w, Typed')
BY DEF HeldBytes, TypedBytes, Span, Ring, Place

LEMMA BytesAre ==
  ASSUME InputInv
  PROVE  /\ HeldBytes = Ring(input.buf, input.r, Held)
         /\ TypedBytes = Ring(input.buf, input.w, Typed)
         /\ HeldBytes \in Seq(CChars) /\ Len(HeldBytes) = Held
         /\ TypedBytes \in Seq(CChars) /\ Len(TypedBytes) = Typed
<1>1. /\ input.buf \in [0 .. INPUT_BUF - 1 -> CChars] /\ input.r \in Int /\ input.w \in Int
      /\ Held \in Nat /\ Typed \in Nat
  BY InputIs
<1>2. HeldBytes = Ring(input.buf, input.r, Held)
  BY BytesAreRings
<1>3. TypedBytes = Ring(input.buf, input.w, Typed)
  BY BytesAreRings
<1>4. HeldBytes \in Seq(CChars) /\ Len(HeldBytes) = Held
  BY <1>1, <1>2, RingIs DEF Lists
<1>5. TypedBytes \in Seq(CChars) /\ Len(TypedBytes) = Typed
  BY <1>1, <1>3, RingIs DEF Lists
<1> QED
  BY <1>2, <1>3, <1>4, <1>5

(* The reader takes k bytes. *)
LEMMA ReaderMoves ==
  ASSUME InputInv, NEW k \in Nat, k <= Held,
         input' = [input EXCEPT !.r = Moved(input.r, k, UWRAP)]
  PROVE  /\ InputInv' /\ input'.w = input.w /\ Held' = Held - k
         /\ HeldBytes' = SubSeq(HeldBytes, k + 1, Len(HeldBytes)) /\ TypedBytes' = TypedBytes
         /\ k = Held => input'.r = input'.w
<1> DEFINE r == input.r
           w == input.w
           h == Moved(r, k, UWRAP)
<1>1. /\ input.buf \in [0 .. INPUT_BUF - 1 -> CChars] /\ r \in Int /\ w \in Int
      /\ Held \in Nat /\ Held \in Int /\ Held = Ahead(w, r, UWRAP) /\ Typed \in Nat /\ Typed \in Int
      /\ Held < UWRAP
  <2>1. Held + Typed < UWRAP
    BY IndicesAre
  <2>2. Held \in Nat /\ Typed \in Nat
    BY InputIs
  <2>3. Held < UWRAP
    BY SMTT(30), <2>1, <2>2, ConsoleNumbers
  <2> QED
    BY <2>3, InputIs
<1>2. /\ k \in Int /\ 0 <= Held - k /\ Held - k < UWRAP /\ Held - k \in Nat /\ Held - k \in Int
  BY SMTT(30), <1>1, ConsoleNumbers
<1>3. h \in Int /\ 0 <= h /\ h < UWRAP
  BY <1>1, <1>2, ConsoleNumbers, MovedIs
<1>4. Ahead(w, h, UWRAP) = Held - k
  BY SMTT(30), <1>1, <1>2, ConsoleNumbers, TailMoves
<1>5. input \in [buf : [0 .. INPUT_BUF - 1 -> CChars],
                 r : 0 .. UWRAP - 1, w : 0 .. UWRAP - 1, e : 0 .. UWRAP - 1]
  BY DEF InputInv
<1>6. input'.buf = input.buf /\ input'.r = h /\ input'.w = input.w /\ input'.e = input.e
  BY <1>5
<1> HIDE DEF h
<1>7. h \in 0 .. UWRAP - 1
  BY SMTT(30), <1>3, ConsoleNumbers
<1>8. input' \in [buf : [0 .. INPUT_BUF - 1 -> CChars],
                 r : 0 .. UWRAP - 1, w : 0 .. UWRAP - 1, e : 0 .. UWRAP - 1]
  BY <1>5, <1>7 DEF h
<1>9. Held' = Held - k
  BY <1>4, <1>6 DEF Held, Dist, Ahead
<1>10. Typed' = Typed /\ TypedBytes' = TypedBytes
  BY <1>6, BytesAreRings DEF Typed, Dist
<1>11. HeldBytes' = Ring(input.buf, h, Held - k)
  BY <1>6, <1>9, BytesAreRings
<1>12. HeldBytes = Ring(input.buf, r, Held) /\ Len(HeldBytes) = Held
  BY BytesAre
<1>13. HeldBytes' = SubSeq(HeldBytes, k + 1, Len(HeldBytes))
  <2> DEFINE b == input.buf
  <2>1. b \in [0 .. INPUT_BUF - 1 -> CChars]
    BY <1>1
  <2> HIDE DEF b, r
  <2>2. SubSeq(Ring(b, r, Held), k + 1, Held) =
          Ring(b, Moved(r, k, UWRAP), Held - k)
    BY ZenonT(60), <1>1, <2>1, RingLast
  <2> QED
    BY <1>11, <1>12, <2>2 DEF b, h
<1>14. /\ Held + Typed <= INPUT_BUF /\ (Held + Typed = INPUT_BUF => Typed = 0)
       /\ \A j \in 1 .. Typed : TypedBytes[j] \notin {"nl", "eof"}
  BY DEF InputInv
<1>15. (Held - k) + Typed <= INPUT_BUF /\ ((Held - k) + Typed = INPUT_BUF => Typed = 0)
  BY SMTT(30), <1>1, <1>14, ConsoleNumbers
<1>16. InputInv'
  BY <1>8, <1>9, <1>10, <1>14, <1>15 DEF InputInv
<1>17. k = Held => h = w
  BY IndicesAre DEF h
<1> QED
  BY <1>6, <1>9, <1>10, <1>13, <1>16, <1>17

(* The last k bytes being typed are erased. *)
LEMMA Erases ==
  ASSUME InputInv, NEW k \in 1 .. Typed,
         input' = [input EXCEPT !.e = Moved(input.w, Typed - k, UWRAP)]
  PROVE  /\ InputInv' /\ input'.r = input.r /\ input'.w = input.w
         /\ HeldBytes' = HeldBytes /\ TypedBytes' = SubSeq(TypedBytes, 1, Len(TypedBytes) - k)
<1> DEFINE w == input.w
           m == Typed - k
           h == Moved(w, m, UWRAP)
<1>1. /\ input.buf \in [0 .. INPUT_BUF - 1 -> CChars] /\ w \in Int
      /\ Held \in Nat /\ Held \in Int /\ Typed \in Nat /\ Typed \in Int
      /\ Held + Typed < UWRAP
  BY InputIs, IndicesAre
<1>2. m \in Int /\ m \in Nat /\ 0 <= m /\ m < UWRAP /\ m <= Typed
  BY SMTT(30), <1>1, ConsoleNumbers
<1> HIDE DEF m
<1>3. h \in Int /\ 0 <= h /\ h < UWRAP
  BY <1>1, <1>2, ConsoleNumbers, MovedIs
<1>4. Ahead(h, w, UWRAP) = m
  BY <1>1, <1>2, ConsoleNumbers, AheadOfMoved
<1>5. input \in [buf : [0 .. INPUT_BUF - 1 -> CChars],
                 r : 0 .. UWRAP - 1, w : 0 .. UWRAP - 1, e : 0 .. UWRAP - 1]
  BY DEF InputInv
<1>6. input'.buf = input.buf /\ input'.r = input.r /\ input'.w = input.w /\ input'.e = h
  BY <1>5 DEF m
<1> HIDE DEF h
<1>7. h \in 0 .. UWRAP - 1
  BY SMTT(30), <1>3, ConsoleNumbers
<1>8. input' \in [buf : [0 .. INPUT_BUF - 1 -> CChars],
                 r : 0 .. UWRAP - 1, w : 0 .. UWRAP - 1, e : 0 .. UWRAP - 1]
  BY <1>5, <1>7 DEF h, m
<1>9. Typed' = m
  BY <1>4, <1>6 DEF Typed, Dist, Ahead
<1>10. Held' = Held /\ HeldBytes' = HeldBytes
  BY <1>6, BytesAreRings DEF Held, Dist
<1>11. TypedBytes' = Ring(input.buf, w, m)
  BY <1>6, <1>9, BytesAreRings
<1>12. /\ TypedBytes = Ring(input.buf, w, Typed) /\ Len(TypedBytes) = Typed
       /\ TypedBytes \in Seq(CChars)
  BY BytesAre
<1>13. TypedBytes' = SubSeq(TypedBytes, 1, m)
  <2> DEFINE b == input.buf
  <2>1. b \in [0 .. INPUT_BUF - 1 -> CChars]
    BY <1>1
  <2> HIDE DEF b, w
  <2>2. SubSeq(Ring(b, w, Typed), 1, m) = Ring(b, w, m)
    BY <1>1, <1>2, <2>1, RingFirst
  <2> QED
    BY <1>11, <1>12, <2>2 DEF b
<1>14. /\ Held + Typed <= INPUT_BUF /\ (Held + Typed = INPUT_BUF => Typed = 0)
       /\ \A j \in 1 .. Typed : TypedBytes[j] \notin {"nl", "eof"}
  BY DEF InputInv
<1>15. Held + m <= INPUT_BUF /\ (Held + m = INPUT_BUF => m = 0)
  BY SMTT(30), <1>1, <1>2, <1>14, ConsoleNumbers DEF m
<1>16. \A j \in 1 .. m : TypedBytes'[j] = TypedBytes[j]
  BY <1>2, <1>12, <1>13, FirstPart
<1>17. \A j \in 1 .. m : j \in 1 .. Typed
  BY SMTT(30), <1>1, <1>2
<1>18. InputInv'
  BY <1>8, <1>9, <1>10, <1>14, <1>15, <1>16, <1>17 DEF InputInv
<1> QED
  BY <1>6, <1>10, <1>12, <1>13, <1>18 DEF m

LEMMA NextIndex ==
  ASSUME NEW a \in Int, NEW d \in Int
  PROVE  Moved(Moved(a, d, UWRAP), 1, UWRAP) = Moved(a, d + 1, UWRAP)
<1>1. 1 \in Int
  BY SMTT(30)
<1> QED
  BY SMTT(30), <1>1, ConsoleNumbers, MovedTwice

LEMMA AppendToConcat ==
  ASSUME NEW x \in Seq(CChars), NEW y \in Seq(CChars), NEW c \in CChars
  PROVE  Append(x \o y, c) = x \o Append(y, c)
BY SMTT(30)

(* A character is typed, and the line is handed over if commit. *)
LEMMA Types ==
  ASSUME InputInv, NEW c \in Letters \union {"nl", "eof"}, NEW commit \in BOOLEAN,
         Held + Typed < INPUT_BUF,
         commit <=> (c \in {"nl", "eof"} \/ Held + Typed + 1 = INPUT_BUF),
         input' = [input EXCEPT !.buf[input.e % INPUT_BUF] = c, !.e = Moved(input.e, 1, UWRAP),
                                !.w = IF commit THEN Moved(input.e, 1, UWRAP) ELSE input.w]
  PROVE  /\ InputInv' /\ input'.r = input.r
         /\ ~commit => /\ input'.w = input.w /\ HeldBytes' = HeldBytes
                       /\ TypedBytes' = Append(TypedBytes, c)
         /\ commit => HeldBytes' = HeldBytes \o Append(TypedBytes, c) /\ TypedBytes' = <<>>
<1> DEFINE b == input.buf
           r == input.r
           w == input.w
           e == input.e
           s == Held + Typed
           h == Moved(e, 1, UWRAP)
           b2 == [b EXCEPT ![e % INPUT_BUF] = c]
<1>1. /\ b \in [0 .. INPUT_BUF - 1 -> CChars] /\ r \in Int /\ w \in Int /\ e \in Int
      /\ Held \in Nat /\ Held \in Int /\ Typed \in Nat /\ Typed \in Int
      /\ w = Moved(r, Held, UWRAP) /\ e = Moved(w, Typed, UWRAP) /\ e = Moved(r, s, UWRAP)
      /\ Held = Ahead(w, r, UWRAP) /\ Typed = Ahead(e, w, UWRAP) /\ s \in Nat
  BY InputIs, IndicesAre
<1>2. c \in CChars
  BY DEF CChars
<1>3. /\ s < INPUT_BUF /\ s \in Int /\ Typed < INPUT_BUF /\ Held \in 0 .. s /\ 1 \in Int
      /\ s + 1 \in Int /\ 0 <= s + 1 /\ s + 1 < UWRAP /\ s + 1 \in Nat
      /\ Typed + 1 \in Int /\ 0 <= Typed + 1 /\ Typed + 1 < UWRAP /\ Typed + 1 \in Nat
      /\ Held + (Typed + 1) = s + 1 /\ s + 1 <= INPUT_BUF
  BY SMTT(30), <1>1, ConsoleNumbers
<1>4. h \in Int /\ 0 <= h /\ h < UWRAP
  BY <1>1, <1>3, ConsoleNumbers, MovedIs
<1>5. h = Moved(w, Typed + 1, UWRAP)
  <2>1. w \in Int /\ Typed \in Int /\ 1 \in Int
    BY <1>1, <1>3
  <2>2. Moved(Moved(w, Typed, UWRAP), 1, UWRAP) = Moved(w, Typed + 1, UWRAP)
    BY <2>1, NextIndex
  <2> QED
    BY <1>1, <2>2
<1>6. h = Moved(r, s + 1, UWRAP)
  <2> HIDE DEF s
  <2>1. r \in Int /\ s \in Int /\ 1 \in Int
    BY <1>1, <1>3
  <2>2. Moved(Moved(r, s, UWRAP), 1, UWRAP) = Moved(r, s + 1, UWRAP)
    BY <2>1, NextIndex
  <2> QED
    BY <1>1, <2>2
<1>7. input \in [buf : [0 .. INPUT_BUF - 1 -> CChars],
                 r : 0 .. UWRAP - 1, w : 0 .. UWRAP - 1, e : 0 .. UWRAP - 1]
  BY DEF InputInv
<1>8. /\ input'.buf = b2 /\ input'.r = r /\ input'.e = h
      /\ input'.w = IF commit THEN h ELSE w
  BY <1>7
<1> HIDE DEF b, r, w, e, s
<1>9. /\ b2 \in [0 .. INPUT_BUF - 1 -> CChars]
      /\ Ring(b2, w, Typed + 1) = Append(Ring(b, w, Typed), c)
  <2>1. b2 = Put(b, Moved(w, Typed, UWRAP), c)
    BY <1>1 DEF Put
  <2>2. b \in [0 .. INPUT_BUF - 1 -> CChars] /\ w \in Int /\ Typed \in Nat /\ Typed < INPUT_BUF
    BY <1>1, <1>3
  <2> HIDE DEF b2
  <2> QED
    BY <1>2, <2>1, <2>2, RingStore
<1>10. Ring(b2, r, s + 1) = Append(Ring(b, r, s), c) /\ Ring(b2, r, Held) = Ring(b, r, Held)
  <2>1. b2 = Put(b, Moved(r, s, UWRAP), c)
    BY <1>1 DEF Put
  <2>2. b \in [0 .. INPUT_BUF - 1 -> CChars] /\ r \in Int /\ s \in Nat /\ s < INPUT_BUF
    BY <1>1, <1>3
  <2>3. Held \in 0 .. s
    BY <1>3
  <2> HIDE DEF b2
  <2> QED
    BY <1>2, <2>1, <2>2, <2>3, RingStore
<1>11. Ring(b, r, s) = Ring(b, r, Held) \o Ring(b, w, Typed)
  <2>1. b \in [0 .. INPUT_BUF - 1 -> CChars] /\ r \in Int /\ Held \in Nat /\ Typed \in Nat
    BY <1>1
  <2>2. Ring(b, r, Held) \o Ring(b, Moved(r, Held, UWRAP), Typed) = Ring(b, r, Held + Typed)
    BY <2>1, RingConcat
  <2> QED
    BY <1>1, <2>2 DEF s
<1>12. Ahead(h, w, UWRAP) = Typed + 1
  <2> DEFINE m == Typed + 1
  <2>1. m \in Int /\ 0 <= m /\ m < UWRAP /\ w \in Int
    BY <1>1, <1>3
  <2> HIDE DEF m
  <2>2. Ahead(Moved(w, m, UWRAP), w, UWRAP) = m
    BY <2>1, ConsoleNumbers, AheadOfMoved
  <2> QED
    BY <1>5, <2>2 DEF m
<1>13. Ahead(h, r, UWRAP) = s + 1
  <2> DEFINE m == s + 1
  <2>1. m \in Int /\ 0 <= m /\ m < UWRAP /\ r \in Int
    BY <1>1, <1>3
  <2> HIDE DEF m
  <2>2. Ahead(Moved(r, m, UWRAP), r, UWRAP) = m
    BY <2>1, ConsoleNumbers, AheadOfMoved
  <2> QED
    BY <1>6, <2>2 DEF m
<1>14. Ahead(h, h, UWRAP) = 0
  <2>1. h - h = 0 /\ 0 \in Int /\ 0 <= 0 /\ 0 < UWRAP
    BY SMTT(30), <1>4, ConsoleNumbers
  <2>2. 0 % UWRAP = 0
    BY <2>1, ConsoleNumbers, SmallRemainder
  <2> QED
    BY <2>1, <2>2 DEF Ahead
<1> HIDE DEF h, b2
<1>15. h \in 0 .. UWRAP - 1
  BY SMTT(30), <1>4, ConsoleNumbers
<1>16. input' \in [buf : [0 .. INPUT_BUF - 1 -> CChars],
                  r : 0 .. UWRAP - 1, w : 0 .. UWRAP - 1, e : 0 .. UWRAP - 1]
  <2>1. input' = [input EXCEPT !.buf = b2, !.e = h, !.w = IF commit THEN h ELSE w]
    BY <1>7 DEF b2, h, b, e, w
  <2> QED
    BY <1>7, <1>9, <1>15, <2>1 DEF w
<1>17. /\ HeldBytes = Ring(b, r, Held) /\ HeldBytes' = Ring(b2, r, Held')
       /\ TypedBytes = Ring(b, w, Typed) /\ TypedBytes' = Ring(b2, input'.w, Typed')
       /\ Held' = Ahead(input'.w, r, UWRAP) /\ Typed' = Ahead(h, input'.w, UWRAP)
  BY <1>8, BytesAreRings DEF b, r, w, Held, Typed, Dist, Ahead
<1>18. /\ HeldBytes \in Seq(CChars) /\ TypedBytes \in Seq(CChars) /\ Len(TypedBytes) = Typed
  BY BytesAre
<1>19. CASE ~commit
  <2>1. input'.w = w
    BY <1>8, <1>19
  <2>2. Held' = Held /\ Typed' = Typed + 1
    BY <1>1, <1>12, <1>17, <2>1
  <2>3. HeldBytes' = HeldBytes /\ TypedBytes' = Append(TypedBytes, c)
    BY <1>9, <1>10, <1>17, <2>1, <2>2
  <2>4. s + 1 # INPUT_BUF /\ c \notin {"nl", "eof"}
    BY <1>19 DEF s
  <2>5. Held' + Typed' <= INPUT_BUF /\ Held' + Typed' # INPUT_BUF
    BY <1>3, <2>2, <2>4
  <2>6. ASSUME NEW j \in 1 .. Typed + 1 PROVE TypedBytes'[j] \notin {"nl", "eof"}
    <3>1. j \in 1 .. Typed \/ j = Typed + 1
      BY SMTT(30), <1>1
    <3>2. /\ \A i \in 1 .. Typed : Append(TypedBytes, c)[i] = TypedBytes[i]
          /\ Append(TypedBytes, c)[Typed + 1] = c
      BY SMTT(30), <1>2, <1>18, AppendProperties
    <3>3. \A i \in 1 .. Typed : TypedBytes[i] \notin {"nl", "eof"}
      BY DEF InputInv
    <3> QED
      BY <2>3, <2>4, <3>1, <3>2, <3>3
  <2>7. InputInv'
    BY <1>16, <2>2, <2>5, <2>6 DEF InputInv
  <2> QED
    BY <1>8, <1>19, <2>1, <2>3, <2>7 DEF r, w
<1>20. CASE commit
  <2>1. input'.w = h
    BY <1>8, <1>20
  <2>2. Held' = s + 1 /\ Typed' = 0
    BY <1>13, <1>14, <1>17, <2>1
  <2>3. TypedBytes' = <<>>
    <3>1. 0 \in Nat /\ h \in Int
      BY SMTT(30), <1>4
    <3>2. Lists(Ring(b2, h, 0), b2, h, 0)
      BY <1>9, <3>1, RingIs
    <3>3. TypedBytes' \in Seq(CChars) /\ Len(TypedBytes') = 0
      BY <1>17, <2>1, <2>2, <3>2 DEF Lists
    <3> QED
      BY <3>3, EmptySeq
  <2>4. HeldBytes' = Append(HeldBytes \o TypedBytes, c)
    BY <1>10, <1>11, <1>17, <2>2
  <2>5. Append(HeldBytes \o TypedBytes, c) = HeldBytes \o Append(TypedBytes, c)
    <3>1. HeldBytes \in Seq(CChars) /\ TypedBytes \in Seq(CChars)
      BY <1>18
    <3> QED
      BY <1>2, <3>1, AppendToConcat
  <2>6. Held' + Typed' <= INPUT_BUF
    BY SMTT(30), <1>3, <2>2, ConsoleNumbers
  <2>7. \A j \in 1 .. Typed' : TypedBytes'[j] \notin {"nl", "eof"}
    BY SMTT(30), <2>2
  <2>8. InputInv'
    BY <1>16, <2>2, <2>6, <2>7 DEF InputInv
  <2> QED
    BY <1>8, <1>20, <2>3, <2>4, <2>5, <2>8 DEF r
<1> QED
  BY <1>19, <1>20

-----------------------------------------------------------------------------
(* The calls of consoleread *)

TermStep == Term!Next \/ UNCHANGED <<TypedBytes, HeldBytes, Seen>>

(* A call as it was, or woken. *)
Kept(c, d) ==
  /\ d \in CCall /\ d.n = c.n /\ d.target = c.target /\ d.dst = c.dst
  /\ d.pc = c.pc \/ (c.pc = "asleep" /\ d.pc = "read")

LEMMA CallHas ==
  ASSUME NEW c \in CCall
  PROVE  /\ c.pc \in {"user", "read", "doze", "asleep", "done"} /\ c.n \in Int /\ c.target \in Int
         /\ c.dst \in Seq(CChars)
BY DEF CCall

LEMMA CallAt ==
  ASSUME NEW c \in CCall, NEW p \in {"user", "read", "doze", "asleep", "done"}
  PROVE  /\ [c EXCEPT !.pc = p] \in CCall /\ [c EXCEPT !.pc = p].pc = p
         /\ [c EXCEPT !.pc = p].n = c.n /\ [c EXCEPT !.pc = p].target = c.target
         /\ [c EXCEPT !.pc = p].dst = c.dst
BY DEF CCall

LEMMA KeptCall ==
  ASSUME NEW c \in CCall
  PROVE  Kept(c, c) /\ (c.pc = "asleep" => Kept(c, [c EXCEPT !.pc = "read"]))
BY CallAt DEF Kept

LEMMA IdleTeller == CIdle \in CCall /\ CIdle.pc = "user" /\ CIdle.dst = <<>>
<1>1. <<>> \in Seq(CChars) /\ 0 \in Int
  BY SMTT(30)
<1> QED
  BY <1>1 DEF CIdle, CCall

LEMMA SameSeen ==
  ASSUME \A u \in Tellers : ct'[u].dst = ct[u].dst
  PROVE  Seen' = Seen
BY DEF Seen

LEMMA OneSeen ==
  ASSUME NEW t \in Tellers, \A u \in Tellers : u # t => ct'[u].dst = ct[u].dst
  PROVE  Seen' = [Seen EXCEPT ![t] = ct'[t].dst]
BY DEF Seen

(* Calls that only wake keep the invariant, if those that still sleep may. *)
LEMMA CallsKept ==
  ASSUME ConsoleInv, InputInv', ct' \in [Tellers -> CCall],
         \A u \in Tellers : Kept(ct[u], ct'[u]),
         \A u \in Tellers : ct'[u].pc \in {"doze", "asleep"} => input'.r = input'.w
  PROVE  ConsoleInv' /\ Seen' = Seen
<1>1. ASSUME NEW u \in Tellers PROVE TellerInv(u)'
  <2>1. TellerInv(u) /\ Kept(ct[u], ct'[u])
    BY DEF ConsoleInv
  <2>2. ct'[u].pc \in {"read", "doze", "asleep"} => ct[u].pc \in {"read", "doze", "asleep"}
    BY <2>1 DEF Kept
  <2> QED
    BY <2>1, <2>2 DEF Kept, TellerInv
<1>2. Seen' = Seen
  BY SameSeen DEF Kept
<1> QED
  BY <1>1, <1>2 DEF ConsoleInv

(* One call changes and the buffer does not. *)
LEMMA OneTeller ==
  ASSUME ConsoleInv, NEW t \in Tellers, NEW d \in CCall, UNCHANGED input,
         ct' = [ct EXCEPT ![t] = d],
         d.pc \in {"read", "doze", "asleep"} => d.n > 0 /\ Len(d.dst) = d.target - d.n,
         d.pc \in {"doze", "asleep"} => input.r = input.w
  PROVE  /\ ConsoleInv' /\ HeldBytes' = HeldBytes /\ TypedBytes' = TypedBytes
         /\ Seen' = [Seen EXCEPT ![t] = d.dst] /\ (d.dst = ct[t].dst => Seen' = Seen)
<1>1. /\ ct \in [Tellers -> CCall] /\ ct' \in [Tellers -> CCall] /\ ct'[t] = d
      /\ \A u \in Tellers : u # t => ct'[u] = ct[u]
  BY DEF ConsoleInv
<1>2. /\ InputInv' /\ HeldBytes' = HeldBytes /\ TypedBytes' = TypedBytes
  BY DEF ConsoleInv, InputInv, Held, Typed, HeldBytes, TypedBytes, Span, Dist
<1>3. ASSUME NEW u \in Tellers PROVE TellerInv(u)'
  <2>1. CASE u = t
    BY <1>1, <2>1 DEF TellerInv
  <2>2. CASE u # t
    BY <1>1, <2>2 DEF ConsoleInv, TellerInv
  <2> QED
    BY <2>1, <2>2
<1>4. Seen' = [Seen EXCEPT ![t] = d.dst] /\ (d.dst = ct[t].dst => Seen' = Seen)
  BY <1>1, OneSeen, SameSeen
<1> QED
  BY <1>1, <1>2, <1>3, <1>4 DEF ConsoleInv

LEMMA ReadConsoleKeeps ==
  ASSUME ConsoleInv, NEW t \in Tellers, NEW n \in ReadSizes, ReadConsole(t, n)
  PROVE  ConsoleInv' /\ TermStep
<1> DEFINE d == [CIdle EXCEPT !.pc = "read", !.n = n, !.target = n]
<1>1. n \in Nat \ {0}
  BY ConsoleAssumption
<1>2. n \in Int /\ n > 0 /\ n - n = 0
  BY SMTT(30), <1>1
<1>3. d \in CCall /\ d.pc = "read" /\ d.n = n /\ d.target = n /\ d.dst = <<>>
  BY <1>2, IdleTeller DEF CIdle, CCall
<1>4. ct' = [ct EXCEPT ![t] = d] /\ UNCHANGED input
  BY DEF ReadConsole
<1> HIDE DEF d
<1>5. Len(<<>>) = 0
  BY EmptySeq
<1>6. /\ ConsoleInv' /\ HeldBytes' = HeldBytes /\ TypedBytes' = TypedBytes
      /\ Seen' = [Seen EXCEPT ![t] = <<>>]
  BY <1>2, <1>3, <1>4, <1>5, OneTeller
<1>7. Term!Return(t)
  BY <1>6 DEF Term!Return
<1> QED
  BY <1>6, <1>7 DEF TermStep, Term!Next

LEMMA ConsoleReturnKeeps ==
  ASSUME ConsoleInv, NEW t \in Tellers, ConsoleReturn(t)
  PROVE  ConsoleInv' /\ TermStep
<1>1. ct' = [ct EXCEPT ![t] = CIdle] /\ UNCHANGED input
  BY DEF ConsoleReturn
<1>2. /\ ConsoleInv' /\ HeldBytes' = HeldBytes /\ TypedBytes' = TypedBytes
      /\ Seen' = [Seen EXCEPT ![t] = <<>>]
  BY <1>1, IdleTeller, OneTeller
<1>3. Term!Return(t)
  BY <1>2 DEF Term!Return
<1> QED
  BY <1>2, <1>3 DEF TermStep, Term!Next

LEMMA ConsoleSleepKeeps ==
  ASSUME ConsoleInv, NEW t \in Tellers, ConsoleSleep(t)
  PROVE  ConsoleInv' /\ TermStep
<1> DEFINE d == [ct[t] EXCEPT !.pc = "asleep"]
<1>1. ct \in [Tellers -> CCall] /\ ct[t] \in CCall /\ TellerInv(t) /\ ct[t].pc = "doze"
  BY DEF ConsoleInv, ConsoleSleep, CAt
<1>2. ct' = [ct EXCEPT ![t] = d] /\ UNCHANGED input
  BY <1>1 DEF ConsoleSleep
<1>3. /\ d \in CCall /\ d.pc = "asleep" /\ d.n = ct[t].n /\ d.target = ct[t].target
      /\ d.dst = ct[t].dst
  BY <1>1, CallAt
<1> HIDE DEF d
<1>4. /\ ConsoleInv' /\ HeldBytes' = HeldBytes /\ TypedBytes' = TypedBytes /\ Seen' = Seen
  BY <1>1, <1>2, <1>3, OneTeller DEF TellerInv
<1> QED
  BY <1>4 DEF TermStep

(* kill and exec only wake. *)
LEMMA WokenKeeps ==
  ASSUME ConsoleInv, NEW t \in Tellers, KillReader(t) \/ Rouse(t)
  PROVE  ConsoleInv' /\ TermStep
<1>1. ct \in [Tellers -> CCall] /\ ct[t] \in CCall /\ TellerInv(t) /\ UNCHANGED input
  BY DEF ConsoleInv, KillReader, Rouse
<1> DEFINE d == IF ct[t].pc = "asleep" THEN [ct[t] EXCEPT !.pc = "read"] ELSE ct[t]
<1>2. ct' = [ct EXCEPT ![t] = d]
  <2>1. ct[t] = [ct[t] EXCEPT !.pc = ct[t].pc]
    BY <1>1 DEF CCall
  <2>2. ct' = [ct EXCEPT ![t] = [ct[t] EXCEPT !.pc = IF ct[t].pc = "asleep" THEN "read" ELSE ct[t].pc]]
    BY <1>1 DEF KillReader, Rouse, CAt
  <2> QED
    BY <2>1, <2>2
<1>3. Kept(ct[t], d) /\ d.pc # "asleep"
  <2>1. CASE ct[t].pc = "asleep"
    BY <1>1, <2>1, KeptCall, CallAt
  <2>2. CASE ct[t].pc # "asleep"
    BY <1>1, <2>2, KeptCall
  <2> QED
    BY <2>1, <2>2
<1> HIDE DEF d
<1>4. /\ ConsoleInv' /\ HeldBytes' = HeldBytes /\ TypedBytes' = TypedBytes /\ Seen' = Seen
  BY <1>1, <1>2, <1>3, OneTeller DEF TellerInv, Kept
<1> QED
  BY <1>4 DEF TermStep

-----------------------------------------------------------------------------
(* The interrupt handler *)

LEMMA PreviousIndex ==
  ASSUME NEW a \in Int, NEW d \in Int
  PROVE  (Moved(a, d, UWRAP) - 1) % UWRAP = Moved(a, d - 1, UWRAP)
<1> DEFINE h == Moved(a, d, UWRAP)
<1>1. h \in Int /\ -1 \in Int
  BY SMTT(30), ConsoleNumbers, MovedIs
<1>2. Moved(h, -1, UWRAP) = Moved(a, d + (-1), UWRAP)
  BY SMTT(30), <1>1, ConsoleNumbers, MovedTwice
<1> HIDE DEF h
<1>3. h + (-1) = h - 1 /\ d + (-1) = d - 1
  BY SMTT(30), <1>1
<1> QED
  BY <1>2, <1>3 DEF Moved, h

(* An erasure changes no call. *)
LEMMA ErasureKeeps ==
  ASSUME ConsoleInv, NEW k \in 1 .. Typed, UNCHANGED ct, k = 1 \/ k = Typed,
         input' = [input EXCEPT !.e = Moved(input.w, Typed - k, UWRAP)]
  PROVE  ConsoleInv' /\ TermStep
<1>1. /\ InputInv' /\ input'.r = input.r /\ input'.w = input.w
      /\ HeldBytes' = HeldBytes /\ TypedBytes' = SubSeq(TypedBytes, 1, Len(TypedBytes) - k)
  BY Erases DEF ConsoleInv
<1>2. ConsoleInv' /\ Seen' = Seen
  <2>1. ct' \in [Tellers -> CCall] /\ \A u \in Tellers : Kept(ct[u], ct'[u])
    BY KeptCall DEF ConsoleInv
  <2>2. \A u \in Tellers : ct'[u].pc \in {"doze", "asleep"} => input'.r = input'.w
    BY <1>1 DEF ConsoleInv, TellerInv
  <2> QED
    BY <1>1, <2>1, <2>2, CallsKept
<1>3. Len(TypedBytes) = Typed /\ Typed \in Nat /\ Held \in Nat /\ Held + Typed <= INPUT_BUF
  BY BytesAre, InputIs DEF ConsoleInv, InputInv
<1>4. k \in 1 .. INPUT_BUF /\ k <= Typed
  BY SMTT(30), <1>3, ConsoleNumbers
<1>5. Term!Rubout(k)
  BY <1>1, <1>2, <1>3, <1>4 DEF Term!Rubout
<1> QED
  BY <1>2, <1>4, <1>5 DEF TermStep, Term!Next

LEMMA BackspaceKeeps ==
  ASSUME ConsoleInv, Backspace
  PROVE  ConsoleInv' /\ TermStep
<1>1. InputInv /\ UNCHANGED ct /\ input' = [input EXCEPT !.e = (input.e - 1) % UWRAP]
  BY DEF ConsoleInv, Backspace
<1>2. /\ input.w \in Int /\ 0 <= input.w /\ input.w < UWRAP /\ Typed \in Nat /\ Typed \in Int
      /\ input.e = Moved(input.w, Typed, UWRAP)
  BY <1>1, InputIs, IndicesAre
<1>3. (input.e - 1) % UWRAP = Moved(input.w, Typed - 1, UWRAP)
  BY <1>2, PreviousIndex
<1>4. Typed # 0
  <2> DEFINE w == input.w
  <2>1. w \in Int /\ 0 <= w /\ w < UWRAP
    BY <1>2
  <2> HIDE DEF w
  <2>2. w + 0 = w
    BY SMTT(30), <2>1
  <2>3. Moved(w, 0, UWRAP) = w
    BY <2>1, <2>2, ConsoleNumbers, SmallRemainder DEF Moved
  <2> QED
    BY <1>2, <2>3 DEF w, Backspace
<1>5. 1 \in 1 .. Typed
  BY SMTT(30), <1>2, <1>4
<1> QED
  BY <1>1, <1>3, <1>5, ErasureKeeps

LEMMA KillLineKeeps ==
  ASSUME ConsoleInv, KillLine
  PROVE  ConsoleInv' /\ TermStep
<1> DEFINE keep == Max({0} \union {j \in 1 .. Typed : TypedBytes[j] = "nl"})
<1>1. /\ keep < Typed /\ UNCHANGED ct
      /\ input' = [input EXCEPT !.e = (input.w + keep) % UWRAP]
  BY DEF KillLine, Typed, TypedBytes
<1>2. InputInv /\ \A j \in 1 .. Typed : TypedBytes[j] # "nl"
  BY DEF ConsoleInv, InputInv
<1>3. {0} \union {j \in 1 .. Typed : TypedBytes[j] = "nl"} = {0}
  BY <1>2
<1>4. keep = 0
  <2>1. \E x \in {0} : \A y \in {0} : x >= y
    BY SMTT(30)
  <2>2. Max({0}) \in {0}
    BY <2>1 DEF Max
  <2> QED
    BY <1>3, <2>2
<1> HIDE DEF keep
<1>5. Typed \in Nat /\ Typed \in Int
  BY <1>2, InputIs
<1>6. Typed \in 1 .. Typed /\ Typed - Typed = 0
  BY SMTT(30), <1>1, <1>4, <1>5
<1>7. input' = [input EXCEPT !.e = Moved(input.w, Typed - Typed, UWRAP)]
  BY <1>1, <1>4, <1>6 DEF Moved
<1> QED
  BY <1>1, <1>6, <1>7, ErasureKeeps

(* The buffer is full exactly if e is INPUT_BUF ahead of r. *)
LEMMA FullIndex ==
  ASSUME NEW r \in Int, NEW s \in Nat, s < UWRAP
  PROVE  Moved(r, s, UWRAP) = Moved(r, INPUT_BUF, UWRAP) <=> s = INPUT_BUF
<1>1. s \in Int /\ 0 <= s /\ 0 <= INPUT_BUF
  BY SMTT(30), ConsoleNumbers
<1>2. Ahead(Moved(r, s, UWRAP), r, UWRAP) = s
  BY <1>1, ConsoleNumbers, AheadOfMoved
<1>3. Ahead(Moved(r, INPUT_BUF, UWRAP), r, UWRAP) = INPUT_BUF
  BY <1>1, ConsoleNumbers, AheadOfMoved
<1> QED
  BY <1>2, <1>3

LEMMA KeyIs ==
  ASSUME InputInv, ~Full(input.e)
  PROVE  /\ Held + Typed < INPUT_BUF
         /\ Moved(input.e, 1, UWRAP) = Moved(input.r, INPUT_BUF, UWRAP)
              <=> Held + Typed + 1 = INPUT_BUF
<1> DEFINE r == input.r
           s == Held + Typed
<1>1. /\ r \in Int /\ s \in Nat /\ input.e = Moved(r, s, UWRAP)
      /\ Dist(r, input.e) = s
  BY InputIs, IndicesAre
<1>2. ~(s >= INPUT_BUF)
  BY <1>1 DEF Full
<1> HIDE DEF r, s
<1>3. s < INPUT_BUF /\ s + 1 \in Nat /\ s + 1 < UWRAP /\ s \in Int
  BY SMTT(30), <1>1, <1>2, ConsoleNumbers
<1>4. Moved(input.e, 1, UWRAP) = Moved(r, s + 1, UWRAP)
  BY <1>1, <1>3, NextIndex
<1>5. Moved(r, s + 1, UWRAP) = Moved(r, INPUT_BUF, UWRAP) <=> s + 1 = INPUT_BUF
  BY <1>1, <1>3, FullIndex
<1> QED
  BY <1>3, <1>4, <1>5 DEF r, s

LEMMA KeyKeeps ==
  ASSUME ConsoleInv, NEW c \in Letters \union {"nl", "eof"}, Key(c)
  PROVE  ConsoleInv' /\ TermStep
<1> DEFINE h == Moved(input.e, 1, UWRAP)
           commit == c \in {"nl", "eof"} \/ h = Moved(input.r, INPUT_BUF, UWRAP)
<1>1. /\ InputInv /\ ConsFree /\ ~Full(input.e) /\ ct' = IF commit THEN WakeTellers ELSE ct
      /\ input' = [input EXCEPT !.buf[input.e % INPUT_BUF] = c, !.e = h,
                                !.w = IF commit THEN h ELSE input.w]
  BY DEF ConsoleInv, Key, Moved
<1>2. /\ Held + Typed < INPUT_BUF
      /\ commit <=> (c \in {"nl", "eof"} \/ Held + Typed + 1 = INPUT_BUF)
  BY <1>1, KeyIs
<1>3. commit \in BOOLEAN
  OBVIOUS
<1> HIDE DEF commit
<1>4. /\ InputInv' /\ input'.r = input.r
      /\ ~commit => /\ input'.w = input.w /\ HeldBytes' = HeldBytes
                    /\ TypedBytes' = Append(TypedBytes, c)
      /\ commit => HeldBytes' = HeldBytes \o Append(TypedBytes, c) /\ TypedBytes' = <<>>
  BY <1>1, <1>2, <1>3, Types
<1>5. ct \in [Tellers -> CCall]
  BY DEF ConsoleInv
<1>6. ASSUME NEW u \in Tellers
      PROVE  /\ Kept(ct[u], ct'[u]) /\ ct'[u].pc # "doze"
             /\ commit => ct'[u].pc # "asleep"
  <2>1. ct'[u] = IF commit /\ ct[u].pc = "asleep" THEN [ct[u] EXCEPT !.pc = "read"] ELSE ct[u]
    BY <1>1 DEF WakeTellers, CAt
  <2>2. ct[u] \in CCall /\ ct[u].pc # "doze"
    BY <1>1, <1>5 DEF ConsFree, CAt
  <2>3. CASE commit /\ ct[u].pc = "asleep"
    <3>1. Kept(ct[u], ct'[u])
      BY <2>1, <2>2, <2>3, KeptCall
    <3>2. ct'[u].pc = "read"
      <4>1. ct'[u] = [ct[u] EXCEPT !.pc = "read"]
        BY <2>1, <2>3
      <4> QED
        BY <2>2, <4>1 DEF CCall
    <3> QED
      BY <3>1, <3>2
  <2>4. CASE ~(commit /\ ct[u].pc = "asleep")
    BY <2>1, <2>2, <2>4, KeptCall
  <2> QED
    BY <2>3, <2>4
<1>7. ct' \in [Tellers -> CCall]
  BY <1>1, <1>5, <1>6 DEF WakeTellers, Kept
<1>8. ASSUME NEW u \in Tellers, ct'[u].pc \in {"doze", "asleep"} PROVE input'.r = input'.w
  <2>1. ~commit /\ ct'[u] = ct[u] /\ ct[u].pc = "asleep"
    BY <1>1, <1>6, <1>8
  <2> QED
    BY <1>4, <2>1 DEF ConsoleInv, TellerInv
<1>9. ConsoleInv' /\ Seen' = Seen
  BY <1>4, <1>6, <1>7, <1>8, CallsKept
<1>10. Len(HeldBytes) = Held /\ Len(TypedBytes) = Typed /\ Held \in Nat /\ Typed \in Nat
  BY <1>1, BytesAre, InputIs
<1>11. CASE commit
  <2>1. Term!Enter(c)
    BY <1>2, <1>4, <1>9, <1>10, <1>11 DEF Term!Enter, Term!Room, Term!Ends
  <2> QED
    BY <1>9, <2>1 DEF TermStep, Term!Next
<1>12. CASE ~commit
  <2>1. Held + Typed + 1 < INPUT_BUF
    BY SMTT(30), <1>2, <1>10, <1>12, ConsoleNumbers
  <2>2. Term!Type(c)
    BY <1>2, <1>4, <1>9, <1>10, <1>12, <2>1 DEF Term!Type, Term!Room, Term!Ends
  <2> QED
    BY <1>9, <2>2 DEF TermStep, Term!Next
<1> QED
  BY <1>11, <1>12

-----------------------------------------------------------------------------
(* The reader *)

(* How far a reader that wants n bytes looks in a sequence of bytes: to    *)
(* the first end of line, or the n-th byte, or the end.                    *)
Stops(a, n) == {j \in 1 .. Len(a) : a[j] \in {"nl", "eof"} \/ j = n}
Looked(a, n) == IF Stops(a, n) = {} THEN Len(a) ELSE Min(Stops(a, n))

LEMMA LookedIs ==
  ASSUME NEW a \in Seq(CChars), NEW n \in Int, n > 0
  PROVE  /\ Looked(a, n) \in Nat /\ Looked(a, n) <= Len(a)
         /\ \A i \in 1 .. Len(a) : i < Looked(a, n) => a[i] \notin {"nl", "eof"}
         /\ Stops(a, n) = {} => Looked(a, n) = Len(a) /\ Len(a) < n
         /\ Looked(a, n) > 0 /\ a[Looked(a, n)] = "eof" => Stops(a, n) # {}
<1> DEFINE l == Len(a)
           S == Stops(a, n)
           m == Looked(a, n)
<1>1. l \in Nat
  BY LenProperties
<1>2. S \in SUBSET Nat /\ S \subseteq 1 .. l
  <2>1. S \subseteq 1 .. l
    BY DEF Stops
  <2>2. 1 .. l \subseteq Nat
    BY SMTT(30), <1>1
  <2> QED
    BY <2>1, <2>2
<1>3. \A j \in 1 .. l : a[j] \in {"nl", "eof"} \/ j = n => j \in S
  BY DEF Stops
<1>4. m = IF S = {} THEN l ELSE Min(S)
  BY DEF Looked
<1>5. S # {} => Min(S) \in S /\ \A y \in S : Min(S) <= y
  BY <1>2, Least
<1> HIDE DEF l, S, m
<1>6. m \in Nat /\ m <= l
  <2>1. S # {} => m \in 1 .. l
    BY <1>2, <1>4, <1>5
  <2>2. S = {} => m = l
    BY <1>4
  <2> QED
    BY SMTT(30), <1>1, <2>1, <2>2
<1>7. ASSUME NEW i \in 1 .. l, i < m PROVE a[i] \notin {"nl", "eof"}
  <2>1. ASSUME i \in S PROVE FALSE
    <3>1. m <= i
      BY <1>4, <1>5, <2>1
    <3> QED
      BY SMTT(30), <1>1, <1>6, <1>7, <3>1
  <2> QED
    BY <1>3, <2>1
<1>8. ASSUME S = {} PROVE l < n
  <2>1. n \notin 1 .. l
    BY <1>3, <1>8
  <2> QED
    BY SMTT(30), <1>1, <2>1
<1>9. ASSUME m > 0, a[m] = "eof" PROVE S # {}
  <2>1. m \in 1 .. l
    BY SMTT(30), <1>1, <1>6, <1>9
  <2> QED
    BY <1>3, <1>9, <2>1
<1> QED
  BY <1>4, <1>6, <1>7, <1>8, <1>9 DEF l, S, m

LEMMA SeenAgain == \A t \in Tellers : [Seen EXCEPT ![t] = Seen[t]] = Seen
BY DEF Seen

LEMMA ReadIsTermStep ==
  ASSUME NEW t \in Tellers, NEW a \in Seq(CChars), NEW x \in Seq(CChars), NEW m \in Nat, m <= Len(a),
         NEW n \in Int, NEW g \in Int, n > 0, Len(x) = g - n,
         NEW eof \in BOOLEAN, NEW k \in Nat, NEW q \in Nat,
         eof <=> m > 0 /\ a[m] = "eof",
         k = IF eof THEN m - 1 ELSE m,
         q = IF eof /\ n - k < g THEN k ELSE m,
         \A i \in 1 .. Len(a) : i < m => a[i] \notin {"nl", "eof"},
         a = HeldBytes, x = Seen[t], UNCHANGED TypedBytes,
         HeldBytes' = SubSeq(a, q + 1, Len(a)),
         Seen' = [Seen EXCEPT ![t] = x \o SubSeq(a, 1, k)]
  PROVE  TermStep
<1> DEFINE l == Len(a)
<1>1. l \in Nat /\ Len(x) \in Nat /\ m \in Int
  BY SMTT(30), LenProperties
<1>2. ASSUME NEW y, y = SubSeq(a, 1, 0) PROVE x \o y = x
  <2>1. 0 \in Nat /\ 0 <= Len(a)
    BY SMTT(30), <1>1
  <2>2. y \in Seq(CChars) /\ Len(y) = 0
    BY <1>2, <2>1, FirstPart
  <2>3. y = <<>>
    BY <2>2, EmptySeq
  <2> QED
    BY <2>3, ConcatEmptySeq
<1>3. CASE eof /\ ~(n - k < g)
  <2>1. m > 0 /\ k = m - 1 /\ q = m /\ a[m] = "eof"
    BY <1>3
  <2>2. k = 0 /\ m = 1 /\ q = 1 /\ Len(x) = 0 /\ l > 0
    BY SMTT(30), <1>1, <1>3, <2>1
  <2>3. x = <<>>
    BY <2>2, EmptySeq
  <2>4. a # <<>> /\ Head(a) = "eof"
    <3>1. a # <<>>
      BY SMTT(30), <1>1, <2>2
    <3>2. Head(a) = a[1]
      BY SMTT(30), <3>1
    <3> QED
      BY <2>1, <2>2, <3>1, <3>2
  <2>5. SubSeq(a, 2, l) = Tail(a)
    BY SMTT(30), <2>2
  <2>6. q + 1 = 2
    BY SMTT(30), <2>2
  <2>7. HeldBytes' = Tail(HeldBytes)
    BY <2>5, <2>6
  <2>8. Seen' = Seen
    BY <1>2, <2>2, SeenAgain
  <2>9. Term!EndOfFile(t)
    BY <2>3, <2>4, <2>7, <2>8 DEF Term!EndOfFile
  <2> QED
    BY <2>9 DEF TermStep, Term!Next
<1>4. CASE ~(eof /\ ~(n - k < g))
  <2>1. q = k /\ k <= l
    BY SMTT(30), <1>1, <1>4
  <2>2. CASE k = 0
    <3>1. HeldBytes' = HeldBytes
      <4>1. SubSeq(a, 1, l) = a
        BY SMTT(30)
      <4>2. q + 1 = 1
        BY SMTT(30), <2>1, <2>2
      <4> QED
        BY <4>1, <4>2
    <3>2. Seen' = Seen
      BY <1>2, <2>2, SeenAgain
    <3> QED
      BY <3>1, <3>2 DEF TermStep
  <2>3. CASE k # 0
    <3>1. k \in 1 .. Len(HeldBytes)
      BY SMTT(30), <1>1, <2>1, <2>3
    <3>2. ASSUME NEW i \in 1 .. k PROVE a[i] # "eof" /\ (a[i] = "nl" => i = k)
      <4>1. i \in 1 .. Len(a)
        BY SMTT(30), <1>1, <2>1
      <4>2. CASE i < m
        BY <3>2, <4>1, <4>2
      <4>3. CASE ~(i < m)
        <5>1. i = k /\ i = m /\ ~eof /\ m > 0
          BY SMTT(30), <1>1, <4>3
        <5> QED
          BY <5>1
      <4> QED
        BY <4>2, <4>3
    <3>3. Term!Take(t, k)
      BY <2>1, <3>2 DEF Term!Take
    <3> QED
      BY <3>1, <3>3 DEF TermStep, Term!Next
  <2> QED
    BY <2>2, <2>3
<1> QED
  BY <1>3, <1>4
(* A read that delivers k bytes of a to the call c. *)
Delivered(c, a, k, p) == [c EXCEPT !.n = c.n - k, !.dst = c.dst \o SubSeq(a, 1, k), !.pc = p]
Delivers(c, a, k) == c \in CCall /\ k \in Nat /\ k <= Len(a) /\ Len(c.dst) = c.target - c.n
Served(c, a, k) ==
  \A p \in {"done", "doze"} :
    /\ Delivered(c, a, k, p) \in CCall /\ Delivered(c, a, k, p).pc = p
    /\ Delivered(c, a, k, p).n = c.n - k /\ Delivered(c, a, k, p).target = c.target
    /\ Delivered(c, a, k, p).dst = c.dst \o SubSeq(a, 1, k)
    /\ Len(c.dst \o SubSeq(a, 1, k)) = c.target - (c.n - k)

LEMMA DeliveredIs ==
  ASSUME NEW a \in Seq(CChars), NEW c, NEW k, Delivers(c, a, k)
  PROVE  Served(c, a, k)
<1> DEFINE y == SubSeq(a, 1, k)
           x == c.dst
<1>1. /\ c \in CCall /\ c.n \in Int /\ c.target \in Int /\ x \in Seq(CChars) /\ k \in Nat /\ k <= Len(a)
      /\ Len(x) = c.target - c.n
  BY CallHas DEF Delivers
<1>2. y \in Seq(CChars) /\ Len(y) = k
  BY <1>1, FirstPart
<1>3. x \o y \in Seq(CChars) /\ Len(x \o y) = Len(x) + Len(y)
  <2> HIDE DEF x, y
  <2> QED
    BY <1>1, <1>2, ConcatProperties
<1>4. c.n - k \in Int /\ (c.target - c.n) + k = c.target - (c.n - k)
  BY SMTT(30), <1>1
<1>5. ASSUME NEW p \in {"done", "doze"}
      PROVE  /\ Delivered(c, a, k, p) \in CCall /\ Delivered(c, a, k, p).pc = p
             /\ Delivered(c, a, k, p).n = c.n - k /\ Delivered(c, a, k, p).target = c.target
             /\ Delivered(c, a, k, p).dst = x \o y
  BY <1>1, <1>3, <1>4 DEF Delivered, CCall
<1> QED
  BY <1>1, <1>2, <1>3, <1>4, <1>5 DEF Served

LEMMA ConsolereadKeeps ==
  ASSUME ConsoleInv, NEW t \in Tellers, consoleread(t)
  PROVE  ConsoleInv' /\ TermStep
<1> DEFINE a == HeldBytes
           n == ct[t].n
           g == ct[t].target
           x == ct[t].dst
           m == Looked(a, n)
           eof == m > 0 /\ a[m] = "eof"
           k == IF eof THEN m - 1 ELSE m
           q == IF eof /\ n - k < g THEN k ELSE m
           p == IF Stops(a, n) # {} \/ t \in struck THEN "done" ELSE "doze"
           d == Delivered(ct[t], a, k, p)
<1>1. InputInv /\ ct \in [Tellers -> CCall] /\ ct[t] \in CCall /\ \A u \in Tellers : TellerInv(u)
  BY DEF ConsoleInv
<1>2. a \in Seq(CChars) /\ Len(a) = Held /\ Held \in Nat
  BY <1>1, BytesAre, InputIs
<1>3. ct[t].pc = "read" /\ \A u \in Tellers : ct[u].pc # "doze"
  BY DEF consoleread, CAt, ConsFree
<1>4. n \in Int /\ g \in Int /\ x \in Seq(CChars) /\ n > 0 /\ Len(x) = g - n
  BY <1>1, <1>3, CallHas DEF TellerInv
<1>5. input' = [input EXCEPT !.r = Moved(input.r, q, UWRAP)] /\ ct' = [ct EXCEPT ![t] = d]
  <2>1. Span(input.r, Dist(input.r, input.w)) = a
    BY DEF HeldBytes, Held
  <2> QED
    BY <2>1 DEF consoleread, Looked, Stops, Moved, Delivered
<1>6. x = Seen[t]
  BY DEF Seen
<1>7. /\ m \in Nat /\ m <= Len(a)
      /\ \A i \in 1 .. Len(a) : i < m => a[i] \notin {"nl", "eof"}
      /\ Stops(a, n) = {} => m = Len(a) /\ Len(a) < n
      /\ eof => Stops(a, n) # {}
  <2> HIDE DEF a, n
  <2> QED
    BY <1>2, <1>4, LookedIs
<1>8. eof \in BOOLEAN /\ (eof => m > 0) /\ (eof <=> m > 0 /\ a[m] = "eof")
  OBVIOUS
<1>9. k = (IF eof THEN m - 1 ELSE m) /\ q = IF eof /\ n - k < g THEN k ELSE m
  OBVIOUS
<1>10. p \in {"done", "doze"} /\ (p = "doze" => Stops(a, n) = {})
  OBVIOUS
<1> HIDE DEF a, n, g, x, m, eof, k, q, p
<1>11. /\ k \in Nat /\ q \in Nat /\ k <= Held /\ q <= Held /\ n - k \in Int
       /\ ~eof => k = m /\ q = m
       /\ Held = 0 => q = Held
       /\ (~eof /\ m = Held /\ Held < n) => n - k > 0
  <2>1. m \in Nat /\ m <= Held
    BY <1>2, <1>7
  <2> QED
    BY SMTT(30), <1>2, <1>4, <1>8, <1>9, <2>1
<1>12. /\ InputInv' /\ HeldBytes' = SubSeq(a, q + 1, Len(a)) /\ TypedBytes' = TypedBytes
       /\ q = Held => input'.r = input'.w
  BY <1>1, <1>5, <1>11, ReaderMoves DEF a
<1>13. /\ d \in CCall /\ d.pc = p /\ d.n = n - k /\ d.dst = x \o SubSeq(a, 1, k)
       /\ Len(d.dst) = d.target - d.n
  <2>1. Delivers(ct[t], a, k)
    BY <1>1, <1>2, <1>4, <1>11 DEF n, x, g, Delivers
  <2>2. Served(ct[t], a, k)
    BY <1>2, <2>1, DeliveredIs
  <2> QED
    BY <1>10, <2>2 DEF n, x, Served
<1> HIDE DEF d
<1>14. p = "doze" => q = Held /\ n - k > 0
  BY <1>2, <1>7, <1>10, <1>11
<1>15. ct' \in [Tellers -> CCall] /\ ct'[t] = d /\ \A u \in Tellers : u # t => ct'[u] = ct[u]
  BY <1>1, <1>5, <1>13
<1>16. ASSUME NEW u \in Tellers PROVE TellerInv(u)'
  <2>1. CASE u = t
    BY <1>10, <1>12, <1>13, <1>14, <1>15, <2>1 DEF TellerInv
  <2>2. CASE u # t
    <3>1. ct'[u] = ct[u] /\ TellerInv(u) /\ ct[u].pc # "doze"
      BY <1>1, <1>3, <1>15, <2>2
    <3>2. ct[u].pc = "asleep" => input'.r = input'.w
      BY <1>1, <1>11, <1>12, <3>1, IndicesAre DEF TellerInv
    <3> QED
      BY <3>1, <3>2 DEF TellerInv
  <2> QED
    BY <2>1, <2>2
<1>17. Seen' = [Seen EXCEPT ![t] = x \o SubSeq(a, 1, k)]
  BY <1>13, <1>15, OneSeen
<1>18. TermStep
  <2>1. a = HeldBytes
    BY DEF a
  <2> QED
    BY <1>2, <1>4, <1>6, <1>7, <1>8, <1>9, <1>11, <1>12, <1>17, <2>1, ReadIsTermStep
<1> QED
  BY <1>12, <1>15, <1>16, <1>18 DEF ConsoleInv

-----------------------------------------------------------------------------
LEMMA ConsoleStarts == ConsoleInit => ConsoleInv /\ Term!Init
<1> SUFFICES ASSUME ConsoleInit PROVE ConsoleInv /\ Term!Init
  OBVIOUS
<1>1. /\ input = [buf |-> [i \in 0 .. INPUT_BUF - 1 |-> "nul"], r |-> 0, w |-> 0, e |-> 0]
      /\ ct = [t \in Tellers |-> CIdle]
  BY DEF ConsoleInit
<1>2. 0 - 0 = 0 /\ 0 \in Int /\ 0 <= 0 /\ 0 < UWRAP /\ 0 \in 0 .. UWRAP - 1
  BY SMTT(30), ConsoleNumbers
<1>3. 0 % UWRAP = 0
  BY <1>2, ConsoleNumbers, SmallRemainder
<1>4. Held = 0 /\ Typed = 0
  BY <1>1, <1>2, <1>3 DEF Held, Typed, Dist
<1>5. Held + Typed <= INPUT_BUF /\ \A j \in 1 .. Typed : TypedBytes[j] \notin {"nl", "eof"}
  BY SMTT(30), <1>4, ConsoleNumbers
<1>6. input \in [buf : [0 .. INPUT_BUF - 1 -> CChars],
                 r : 0 .. UWRAP - 1, w : 0 .. UWRAP - 1, e : 0 .. UWRAP - 1]
  BY <1>1, <1>2 DEF CChars
<1>7. InputInv
  BY <1>4, <1>5, <1>6 DEF InputInv
<1>8. ConsoleInv
  BY <1>1, <1>7, IdleTeller DEF ConsoleInv, TellerInv
<1>9. HeldBytes = <<>> /\ TypedBytes = <<>>
  BY <1>4, <1>7, BytesAre, EmptySeq
<1>10. Seen = [r \in Tellers |-> <<>>]
  BY <1>1, IdleTeller DEF Seen
<1> QED
  BY <1>8, <1>9, <1>10 DEF Term!Init

LEMMA ConsoleSteps ==
  ASSUME ConsoleInv, [ConsoleNext]_consVars
  PROVE  ConsoleInv' /\ TermStep
<1>1. CASE UNCHANGED consVars
  <2>1. UNCHANGED <<input, ct>>
    BY <1>1 DEF consVars
  <2>2. /\ Held' = Held /\ Typed' = Typed /\ HeldBytes' = HeldBytes /\ TypedBytes' = TypedBytes
        /\ Seen' = Seen
    BY <2>1, BytesAreRings DEF Held, Typed, Dist, Seen
  <2> QED
    BY <2>1, <2>2 DEF ConsoleInv, InputInv, TellerInv, TermStep
<1> QED
  BY <1>1, BackspaceKeeps, KillLineKeeps, KeyKeeps, ConsolereadKeeps, ConsoleSleepKeeps,
     ConsoleReturnKeeps, WokenKeeps, ReadConsoleKeeps DEF ConsoleNext

(* The circular buffer of console.c stays in order: r, w and e follow one  *)
(* another within INPUT_BUF bytes whatever the wrap of the indices, a full *)
(* buffer is handed over at once, what is being typed holds no end of      *)
(* line, and a reader on its way to sleep has found r = w under cons.lock. *)
THEOREM ConsoleInvariant == ConsoleSpec => []ConsoleInv
BY ConsoleStarts, ConsoleSteps, PTL DEF ConsoleSpec

(* No thread sleeps in consoleread while a line is ready for it, and the   *)
(* buffer is never full of a line that nobody could finish or read.        *)
THEOREM ConsoleWakesReaders == ConsoleSpec => []NoLostConsoleWakeup
<1>1. ASSUME ConsoleInv PROVE NoLostConsoleWakeup
  <2>1. \A t \in Tellers : CAt(t, "asleep") => input.r = input.w
    BY <1>1 DEF ConsoleInv, TellerInv, CAt
  <2>2. ASSUME Full(input.e) PROVE input.r # input.w
    <3>1. /\ Dist(input.r, input.e) = Held + Typed /\ Held + Typed <= INPUT_BUF
          /\ Held + Typed = INPUT_BUF => Typed = 0
          /\ input.r = input.w <=> Held = 0
      BY <1>1, IndicesAre DEF ConsoleInv, InputInv
    <3>2. Held \in Nat /\ Typed \in Nat
      BY <1>1, InputIs DEF ConsoleInv
    <3>3. Held + Typed >= INPUT_BUF
      BY <2>2, <3>1 DEF Full
    <3>4. Held # 0
      BY SMTT(30), <3>1, <3>2, <3>3, ConsoleNumbers
    <3> QED
      BY <3>1, <3>4
  <2> QED
    BY <2>1, <2>2 DEF NoLostConsoleWakeup
<1> QED
  BY <1>1, ConsoleInvariant, PTL

(* consoleintr and consoleread implement the terminal: lines are edited    *)
(* and handed over whole, a read takes bytes in order and never past the   *)
(* end of a line, and a ^D is a read of nothing, for every buffer size and *)
(* across the wrap of the buffer and of its indices.                       *)
THEOREM ConsoleIsATerminal == ConsoleSpec => ConsoleIsTerminal
<1>1. ConsoleInit => Term!Init
  BY ConsoleStarts
<1>2. ConsoleInv /\ [ConsoleNext]_consVars => [Term!Next]_<<TypedBytes, HeldBytes, Seen>>
  BY ConsoleSteps DEF TermStep
<1> QED
  BY <1>1, <1>2, ConsoleInvariant, PTL DEF ConsoleSpec, ConsoleIsTerminal, Term!Spec
=============================================================================
