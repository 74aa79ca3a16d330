--------------------------- MODULE ContentProofs ----------------------------
(***************************************************************************)
(* The content of files for any sizes of blocks, inodes, chunks and disk:  *)
(* how a turn of writei's loop changes the map of an inode and the bytes,  *)
(* then one lemma per action, give ContentInv: what is read is what was    *)
(* written, and a block in use is in one place of one inode.               *)
(***************************************************************************)
EXTENDS FileContent, FiniteSetTheorems, SequenceTheorems,
        WellFoundedInduction, TLAPS

(* Zenon proves most of these steps; where it takes arithmetic, strings or *)
(* many functions at once, the step asks for SMT.                          *)
USE ZenonT(30)

-----------------------------------------------------------------------------
(* Numbers and sequences *)

LEMMA Division ==
  ASSUME NEW a \in Int, NEW w \in Int, w > 0
  PROVE  \E q \in Int : a = w * q + (a % w)
BY SMTT(30)

LEMMA Remainder ==
  ASSUME NEW a \in Int, NEW w \in Int, w > 0
  PROVE  a % w \in Int /\ 0 <= a % w /\ a % w < w
BY SMTT(30)

LEMMA RemainderIs ==
  ASSUME NEW a \in Int, NEW w \in Int, w > 0,
         NEW q \in Int, NEW r \in Int, 0 <= r, r < w, a = w * q + r
  PROVE  a % w = r
<1> DEFINE s == a % w
<1>1. s \in Int /\ 0 <= s /\ s < w
  BY Remainder
<1>2. PICK p \in Int : a = w * p + s
  BY Division
<1> HIDE DEF s
<1>3. w * (q - p) = s - r
  BY SMTT(30), <1>1, <1>2
<1>4. q - p < 1
  BY SMTT(30), <1>1, <1>3
<1>5. q - p > -1
  BY SMTT(30), <1>1, <1>3
<1>6. s = r
  BY SMTT(30), <1>1, <1>3, <1>4, <1>5
<1> QED
  BY <1>6 DEF s

LEMMA Smaller ==
  ASSUME NEW a \in Int, NEW b \in Int
  PROVE  /\ Min({a, b}) \in {a, b} /\ Min({a, b}) <= a /\ Min({a, b}) <= b /\ Min({a, b}) \in Int
         /\ a < b => Min({a, b}) = a
<1>1. \E x \in {a, b} : \A y \in {a, b} : x =< y
  BY SMTT(30)
<1>2. Min({a, b}) \in {a, b} /\ \A y \in {a, b} : Min({a, b}) =< y
  BY <1>1 DEF Min
<1> DEFINE m == Min({a, b})
<1>3. m \in {a, b} /\ m <= a /\ m <= b
  BY <1>2
<1> HIDE DEF m
<1>4. m \in Int /\ (a < b => m = a)
  BY SMTT(30), <1>3
<1> QED
  BY <1>3, <1>4 DEF m

LEMMA Least ==
  ASSUME NEW S \in SUBSET Nat, S # {}
  PROVE  Min(S) \in S /\ \A y \in S : Min(S) <= y
<1>1. \E x \in S : \A y \in S : ~(<<y, x>> \in OpToRel(<, Nat))
  BY NatLessThanWellFounded, WFMin
<1>2. \E x \in S : \A y \in S : ~(y < x)
  BY <1>1 DEF OpToRel
<1>3. \A x, y \in S : ~(y < x) => x =< y
  BY SMTT(30)
<1>4. \E x \in S : \A y \in S : x =< y
  BY <1>2, <1>3
<1> QED
  BY <1>4 DEF Min

LEMMA SeqOfLen ==
  ASSUME NEW S, NEW n \in Nat, NEW f \in [1 .. n -> S]
  PROVE  f \in Seq(S) /\ Len(f) = n
<1>1. f \in Seq(S)
  BY SeqDef
<1>2. Len(f) \in Nat /\ DOMAIN f = 1 .. Len(f) /\ DOMAIN f = 1 .. n
  BY <1>1, LenProperties
<1>3. 1 .. Len(f) = 1 .. n
  BY <1>2
<1>4. Len(f) = n
  <2> DEFINE k == Len(f)
  <2>1. k \in Nat /\ 1 .. k = 1 .. n
    BY <1>2, <1>3
  <2> HIDE DEF k
  <2>2. k = n
    BY SMTT(30), <2>1
  <2> QED
    BY <2>2 DEF k
<1> QED
  BY <1>1, <1>4

LEMMA FirstPart ==
  ASSUME NEW S, NEW s \in Seq(S), NEW m \in Nat, m <= Len(s)
  PROVE  /\ SubSeq(s, 1, m) \in Seq(S) /\ Len(SubSeq(s, 1, m)) = m
         /\ \A i \in 1 .. m : SubSeq(s, 1, m)[i] = s[i]
<1> DEFINE k == 1
<1>1. k \in Int /\ m \in Int
  BY SMTT(30)
<1>2. \A i \in k .. m : s[i] \in S
  <2>1. Len(s) \in Nat
    BY LenProperties
  <2>2. \A i \in k .. m : i \in 1 .. Len(s)
    BY SMTT(30), <2>1
  <2> QED
    BY <2>2, ElementOfSeq
<1>3. /\ m - k + 1 = m /\ (IF k <= m THEN m - k + 1 ELSE 0) = m
      /\ \A i \in 1 .. m : k + i - 1 = i
  BY SMTT(30)
<1> HIDE DEF k
<1>4. SubSeq(s, k, m) \in Seq(S)
  BY <1>1, <1>2, SubSeqProperties
<1>5. Len(SubSeq(s, k, m)) = IF k <= m THEN m - k + 1 ELSE 0
  BY <1>1, <1>2, SubSeqProperties
<1>6. \A i \in 1 .. m - k + 1 : SubSeq(s, k, m)[i] = s[k + i - 1]
  BY SMTT(30), <1>1, <1>2, SubSeqProperties
<1>7. /\ SubSeq(s, k, m) \in Seq(S) /\ Len(SubSeq(s, k, m)) = m
      /\ \A i \in 1 .. m : SubSeq(s, k, m)[i] = s[i]
  BY <1>3, <1>4, <1>5, <1>6
<1> QED
  BY <1>7 DEF k

LEMMA LastPart ==
  ASSUME NEW S, NEW s \in Seq(S), NEW m \in Nat, m <= Len(s)
  PROVE  /\ SubSeq(s, m + 1, Len(s)) \in Seq(S) /\ Len(SubSeq(s, m + 1, Len(s))) = Len(s) - m
         /\ \A i \in 1 .. Len(s) - m : SubSeq(s, m + 1, Len(s))[i] = s[m + i]
<1> DEFINE n == Len(s)
           k == m + 1
<1>1. n \in Nat /\ m <= n
  BY LenProperties
<1>2. \A i \in k .. n : s[i] \in S
  <2>1. \A i \in k .. n : i \in 1 .. n
    BY SMTT(30), <1>1
  <2> QED
    BY <2>1, ElementOfSeq
<1> HIDE DEF n
<1>3. k \in Int /\ n \in Int
  BY SMTT(30), <1>1
<1>4. /\ n - k + 1 = n - m /\ (IF k <= n THEN n - k + 1 ELSE 0) = n - m
      /\ \A i \in 1 .. n - m : k + i - 1 = m + i
  BY SMTT(30), <1>1
<1> HIDE DEF k
<1>5. SubSeq(s, k, n) \in Seq(S)
  BY <1>2, <1>3, SubSeqProperties
<1>6. Len(SubSeq(s, k, n)) = IF k <= n THEN n - k + 1 ELSE 0
  BY <1>2, <1>3, SubSeqProperties
<1>7. \A i \in 1 .. n - k + 1 : SubSeq(s, k, n)[i] = s[k + i - 1]
  BY SMTT(30), <1>2, <1>3, SubSeqProperties
<1>8. /\ SubSeq(s, k, n) \in Seq(S) /\ Len(SubSeq(s, k, n)) = n - m
      /\ \A i \in 1 .. n - m : SubSeq(s, k, n)[i] = s[m + i]
  BY <1>4, <1>5, <1>6, <1>7
<1> QED
  BY <1>8 DEF n, k

(* The block of a byte and its place there. *)
LEMMA InBlock ==
  ASSUME NEW x \in Nat, NEW w \in Nat, w > 0
  PROVE  /\ x \div w \in Nat /\ x % w \in 0 .. w - 1 /\ x = w * (x \div w) + (x % w)
BY SMTT(30)

LEMMA BlockIs ==
  ASSUME NEW x \in Nat, NEW w \in Nat, w > 0, NEW q \in Nat, NEW r \in 0 .. w - 1, x = w * q + r
  PROVE  x \div w = q /\ x % w = r
<1>1. x % w = r
  BY SMTT(30), RemainderIs
<1>2. x \div w \in Nat /\ x = w * (x \div w) + (x % w)
  BY InBlock
<1> DEFINE p == x \div w
<1>3. p \in Nat /\ w * p = w * q
  BY SMTT(30), <1>1, <1>2
<1> HIDE DEF p
<1>4. p = q
  BY SMTT(30), <1>3
<1> QED
  BY <1>1, <1>4 DEF p

LEMMA BlockBelow ==
  ASSUME NEW x \in Nat, NEW w \in Nat, w > 0, NEW n \in Nat, x < n * w
  PROVE  x \div w \in 0 .. n - 1
<1> DEFINE p == x \div w
           r == x % w
<1>1. p \in Nat /\ r \in Nat /\ x = w * p + r
  BY SMTT(30), InBlock
<1> HIDE DEF p, r
<1>2. p < n
  BY SMTT(30), <1>1
<1>3. p \in 0 .. n - 1
  BY SMTT(30), <1>1, <1>2
<1> QED
  BY <1>3 DEF p

LEMMA ContentNumbers ==
  /\ NDIRECT \in Nat /\ NINDIRECT \in Nat /\ BSIZE \in Nat /\ BSIZE > 0 /\ NBLOCKS \in Nat /\ MAXCHUNK \in Nat /\ MAXCHUNK > 0
  /\ MAXFILE \in Nat /\ MAXFILE = NDIRECT + NINDIRECT /\ MAXFILE * BSIZE \in Nat
  /\ 0 \in Nat /\ 0 \in 0 .. NDIRECT /\ NDIRECT \in 0 .. NDIRECT
  /\ \A b \in Block : b \in Nat /\ b # 0 /\ b \in 0 .. NBLOCKS
  /\ \A b \in 0 .. NBLOCKS : b # 0 => b \in Block
  /\ 0 \in 0 .. NBLOCKS
<1>1. /\ NDIRECT \in Nat /\ NINDIRECT \in Nat /\ BSIZE \in Nat /\ BSIZE > 0 /\ NBLOCKS \in Nat /\ MAXCHUNK \in Nat /\ MAXCHUNK > 0
      /\ 0 \in Nat /\ 0 \in 0 .. NDIRECT /\ NDIRECT \in 0 .. NDIRECT
  BY SMTT(30), ContentAssumption
<1>2. MAXFILE \in Nat /\ MAXFILE = NDIRECT + NINDIRECT
  BY SMTT(30), <1>1 DEF MAXFILE
<1>3. MAXFILE * BSIZE \in Nat
  BY SMTT(30), <1>1, <1>2
<1>4. /\ \A b \in Block : b \in Nat /\ b # 0 /\ b \in 0 .. NBLOCKS
      /\ \A b \in 0 .. NBLOCKS : b # 0 => b \in Block
      /\ 0 \in 0 .. NBLOCKS
  BY SMTT(30), <1>1 DEF Block
<1> QED
  BY <1>1, <1>2, <1>3, <1>4

-----------------------------------------------------------------------------
(* The inductive invariant of the file contents *)

BlockRec == [bytes : [0 .. BSIZE - 1 -> Nat], a : [0 .. NINDIRECT - 1 -> 0 .. NBLOCKS]]
WriteRec == [i : Inodes \cup {0}, left : Seq(Nat), n : Nat, tot : Nat]
ContentTypes ==
  /\ bitmap \subseteq Block /\ blocks \in [Block -> BlockRec] /\ addrs \in [Inodes -> [0 .. NDIRECT -> 0 .. NBLOCKS]]
  /\ fsize \in [Inodes -> Nat] /\ foff \in [Inodes -> Nat] /\ flock \in [Inodes -> Writers \cup {NoWriter}]
  /\ wr \in [Writers -> WriteRec] /\ expected \in [Inodes -> Seq(Nat)]

(* Where an inode keeps blocks: the direct ones, the indirect block, and   *)
(* the entries of that.                                                    *)
BlockPlace == 0 .. MAXFILE
PlaceOf(bn) == IF bn < NDIRECT THEN bn ELSE bn + 1
Hold(i, k) == IF k <= NDIRECT THEN addrs[i][k] ELSE Mapped(i, k - 1)

(* A block is in use exactly when one inode has it, in one place. *)
HeldInUse == \A i \in Inodes, k \in BlockPlace : Hold(i, k) # 0 => Hold(i, k) \in bitmap
HeldOnce == \A i, j \in Inodes : \A k, l \in BlockPlace : (Hold(i, k) # 0 /\ Hold(i, k) = Hold(j, l)) => i = j /\ k = l
UsedIsHeld == \A b \in bitmap : \E i \in Inodes : \E k \in BlockPlace : Hold(i, k) = b
OwnInv == HeldInUse /\ HeldOnce /\ UsedIsHeld

(* A chunk under way, with the inode locked *)
WriterInv(t) ==
  LET w == wr[t] IN
  /\ w.left # <<>> => w.i \in Inodes
  /\ w.n = 0 => w.tot = 0
  /\ w.n > 0 => w.i \in Inodes /\ flock[w.i] = t /\ w.n <= Len(w.left) /\ w.tot <= w.n /\ foff[w.i] + w.n <= MAXFILE * BSIZE
FileInv(i) ==
  /\ Len(expected[i]) = fsize[i] /\ foff[i] <= fsize[i] /\ fsize[i] <= MAXFILE * BSIZE
  /\ flock[i] # NoWriter => wr[flock[i]].i = i /\ wr[flock[i]].n > 0

(* The bytes there are, in the middle of a chunk too: those of the file as *)
(* it was, and over them the part of the chunk that has been copied.       *)
DoneIn(i) == IF flock[i] = NoWriter THEN 0 ELSE wr[flock[i]].tot
Want(i, x) == IF foff[i] <= x /\ x < foff[i] + DoneIn(i) THEN wr[flock[i]].left[x - foff[i] + 1] ELSE expected[i][x + 1]
ThereIs(i, x) == x < fsize[i] \/ x < foff[i] + DoneIn(i)
ByteIs(i, x, v) == Mapped(i, x \div BSIZE) # 0 /\ blocks[Mapped(i, x \div BSIZE)].bytes[x % BSIZE] = v
BytesInv == \A i \in Inodes : \A x \in Nat : ThereIs(i, x) => ByteIs(i, x, Want(i, x))

ContentInv ==
  /\ ContentTypes /\ OwnInv /\ BytesInv
  /\ \A t \in Writers : WriterInv(t)
  /\ \A i \in Inodes : FileInv(i)

-----------------------------------------------------------------------------
(* Who has which block *)

LEMMA PlaceIsOf ==
  ASSUME NEW q \in 0 .. MAXFILE - 1
  PROVE  /\ PlaceOf(q) \in BlockPlace /\ PlaceOf(q) # NDIRECT /\ q \in Nat
         /\ q < NDIRECT => PlaceOf(q) <= NDIRECT /\ PlaceOf(q) = q
         /\ ~(q < NDIRECT) => ~(PlaceOf(q) <= NDIRECT) /\ PlaceOf(q) - 1 = q
         /\ \A p \in 0 .. MAXFILE - 1 : PlaceOf(p) = PlaceOf(q) => p = q
         /\ NDIRECT \in BlockPlace
BY SMTT(30), ContentNumbers DEF PlaceOf, BlockPlace

LEMMA PlaceBack ==
  ASSUME NEW k \in BlockPlace
  PROVE  /\ k <= NDIRECT => k \in 0 .. NDIRECT
         /\ ~(k <= NDIRECT) => k - 1 \in 0 .. MAXFILE - 1 /\ ~(k - 1 < NDIRECT) /\ k - 1 - NDIRECT \in 0 .. NINDIRECT - 1
         /\ k # NDIRECT => \E q \in 0 .. MAXFILE - 1 : k = PlaceOf(q)
<1>1. /\ k <= NDIRECT => k \in 0 .. NDIRECT
      /\ ~(k <= NDIRECT) => k - 1 \in 0 .. MAXFILE - 1 /\ ~(k - 1 < NDIRECT) /\ k - 1 - NDIRECT \in 0 .. NINDIRECT - 1
  BY SMTT(30), ContentNumbers DEF BlockPlace
<1>2. ASSUME k # NDIRECT PROVE \E q \in 0 .. MAXFILE - 1 : k = PlaceOf(q)
  <2>1. k < NDIRECT => k \in 0 .. MAXFILE - 1 /\ k = PlaceOf(k)
    BY SMTT(30), ContentNumbers DEF BlockPlace, PlaceOf
  <2>2. ~(k < NDIRECT) => k - 1 \in 0 .. MAXFILE - 1 /\ k = PlaceOf(k - 1)
    BY SMTT(30), <1>2, ContentNumbers DEF BlockPlace, PlaceOf
  <2> QED
    BY <2>1, <2>2
<1> QED
  BY <1>1, <1>2

LEMMA HoldMapped ==
  ASSUME NEW i, NEW q \in 0 .. MAXFILE - 1
  PROVE  Hold(i, PlaceOf(q)) = Mapped(i, q) /\ Hold(i, PlaceOf(q))' = Mapped(i, q)'
<1>1. CASE q < NDIRECT
  BY <1>1, PlaceIsOf DEF Hold, Mapped
<1>2. CASE ~(q < NDIRECT)
  BY <1>2, PlaceIsOf DEF Hold
<1> QED
  BY <1>1, <1>2

LEMMA HoldIs ==
  ASSUME NEW i
  PROVE  /\ Hold(i, NDIRECT) = addrs[i][NDIRECT] /\ Hold(i, NDIRECT)' = addrs'[i][NDIRECT]
         /\ \A k \in BlockPlace : k <= NDIRECT => Hold(i, k) = addrs[i][k] /\ Hold(i, k)' = addrs'[i][k]
         /\ \A k \in BlockPlace : ~(k <= NDIRECT) =>
              /\ Hold(i, k) = IF addrs[i][NDIRECT] = 0 THEN 0 ELSE blocks[addrs[i][NDIRECT]].a[k - 1 - NDIRECT]
              /\ Hold(i, k)' = IF addrs'[i][NDIRECT] = 0 THEN 0 ELSE blocks'[addrs'[i][NDIRECT]].a[k - 1 - NDIRECT]
<1>1. NDIRECT <= NDIRECT
  BY SMTT(30), ContentNumbers
<1>2. \A k \in BlockPlace : ~(k <= NDIRECT) => ~(k - 1 < NDIRECT)
  BY PlaceBack
<1> QED
  BY <1>1, <1>2 DEF Hold, Mapped

LEMMA HoldTyped ==
  ASSUME ContentTypes, NEW i \in Inodes
  PROVE  /\ \A k \in BlockPlace : Hold(i, k) \in 0 .. NBLOCKS
         /\ \A q \in 0 .. MAXFILE - 1 : Mapped(i, q) \in 0 .. NBLOCKS
         /\ addrs[i] \in [0 .. NDIRECT -> 0 .. NBLOCKS] /\ addrs[i][NDIRECT] \in 0 .. NBLOCKS
<1>1. /\ addrs[i] \in [0 .. NDIRECT -> 0 .. NBLOCKS] /\ addrs[i][NDIRECT] \in 0 .. NBLOCKS
      /\ \A b \in Block : blocks[b].a \in [0 .. NINDIRECT - 1 -> 0 .. NBLOCKS]
  <2>1. addrs[i] \in [0 .. NDIRECT -> 0 .. NBLOCKS] /\ \A b \in Block : blocks[b] \in BlockRec
    BY DEF ContentTypes
  <2>2. addrs[i][NDIRECT] \in 0 .. NBLOCKS
    BY <2>1, ContentNumbers
  <2>3. \A b \in Block : blocks[b].a \in [0 .. NINDIRECT - 1 -> 0 .. NBLOCKS]
    BY SMTT(30), <2>1 DEF BlockRec
  <2> QED
    BY <2>1, <2>2, <2>3
<1>2. ASSUME NEW k \in BlockPlace PROVE Hold(i, k) \in 0 .. NBLOCKS
  <2>1. CASE k <= NDIRECT
    <3>1. k \in 0 .. NDIRECT
      BY <2>1, PlaceBack
    <3>2. Hold(i, k) = addrs[i][k]
      BY <2>1, HoldIs
    <3> QED
      BY <1>1, <3>1, <3>2
  <2>2. CASE ~(k <= NDIRECT)
    <3>1. CASE addrs[i][NDIRECT] = 0
      BY <2>2, <3>1, HoldIs, ContentNumbers
    <3>2. CASE addrs[i][NDIRECT] # 0
      <4>1. addrs[i][NDIRECT] \in Block
        BY <1>1, <3>2, ContentNumbers
      <4>2. Hold(i, k) = blocks[addrs[i][NDIRECT]].a[k - 1 - NDIRECT]
        BY <2>2, <3>2, HoldIs
      <4>3. k - 1 - NDIRECT \in 0 .. NINDIRECT - 1
        BY <2>2, PlaceBack
      <4> QED
        BY <1>1, <4>1, <4>2, <4>3
    <3> QED
      BY <3>1, <3>2
  <2> QED
    BY <2>1, <2>2
<1>3. ASSUME NEW q \in 0 .. MAXFILE - 1 PROVE Mapped(i, q) \in 0 .. NBLOCKS
  <2>1. PlaceOf(q) \in BlockPlace
    BY PlaceIsOf
  <2>2. Hold(i, PlaceOf(q)) \in 0 .. NBLOCKS
    BY <1>2, <2>1
  <2> QED
    BY <2>2, HoldMapped
<1> QED
  BY <1>1, <1>2, <1>3

(* An inode takes the free blocks N, each for one empty place. *)
Fills(i, Q, N) ==
  /\ N \cap bitmap = {} /\ bitmap' = bitmap \cup N
  /\ \A j \in Inodes, k \in BlockPlace : (j # i \/ k \notin Q) => Hold(j, k)' = Hold(j, k)
  /\ \A k \in Q : Hold(i, k) = 0 /\ Hold(i, k)' \in N
  /\ \A k, l \in Q : Hold(i, k)' = Hold(i, l)' => k = l
  /\ \A b \in N : \E k \in Q : Hold(i, k)' = b

LEMMA FillKeeps ==
  ASSUME OwnInv, 0 \notin bitmap, NEW i \in Inodes, NEW Q \in SUBSET BlockPlace, NEW N, Fills(i, Q, N)
  PROVE  OwnInv'
<1>1. HeldInUse'
  <2>1. ASSUME NEW j \in Inodes, NEW k \in BlockPlace, Hold(j, k)' # 0 PROVE Hold(j, k)' \in bitmap'
    <3>1. CASE j = i /\ k \in Q
      BY <3>1 DEF Fills
    <3>2. CASE j # i \/ k \notin Q
      BY SMTT(30), <2>1, <3>2 DEF Fills, OwnInv, HeldInUse
    <3> QED
      BY <3>1, <3>2
  <2> QED
    BY <2>1 DEF HeldInUse
<1>2. HeldOnce'
  <2>1. ASSUME NEW j \in Inodes, NEW h \in Inodes, NEW k \in BlockPlace, NEW l \in BlockPlace,
               Hold(j, k)' # 0, Hold(j, k)' = Hold(h, l)'
        PROVE  j = h /\ k = l
    <3>1. CASE (j = i /\ k \in Q) /\ (h = i /\ l \in Q)
      BY <2>1, <3>1 DEF Fills
    <3>2. CASE (j = i /\ k \in Q) /\ ~(h = i /\ l \in Q)
      BY SMTT(30), <2>1, <3>2 DEF Fills, OwnInv, HeldInUse
    <3>3. CASE ~(j = i /\ k \in Q) /\ (h = i /\ l \in Q)
      BY SMTT(30), <2>1, <3>3 DEF Fills, OwnInv, HeldInUse
    <3>4. CASE ~(j = i /\ k \in Q) /\ ~(h = i /\ l \in Q)
      <4>1. Hold(j, k) # 0 /\ Hold(j, k) = Hold(h, l)
        BY SMTT(30), <2>1, <3>4 DEF Fills
      <4> QED
        BY SMTT(30), <4>1 DEF OwnInv, HeldOnce
    <3> QED
      BY <3>1, <3>2, <3>3, <3>4
  <2> QED
    BY SMTT(30), <2>1 DEF HeldOnce
<1>3. UsedIsHeld'
  <2>1. ASSUME NEW b \in bitmap' PROVE \E j \in Inodes : \E k \in BlockPlace : Hold(j, k)' = b
    <3>1. CASE b \in N
      BY <3>1 DEF Fills
    <3>2. CASE b \in bitmap
      <4>1. PICK j \in Inodes, k \in BlockPlace : Hold(j, k) = b
        BY <3>2 DEF OwnInv, UsedIsHeld
      <4>2. CASE Hold(j, k)' = Hold(j, k)
        BY <4>1, <4>2
      <4>3. CASE j = i /\ k \in Q
        <5>1. b = 0
          BY <4>1, <4>3 DEF Fills
        <5> QED
          BY <3>2, <5>1
      <4> QED
        BY <4>2, <4>3 DEF Fills
    <3> QED
      BY <2>1, <3>1, <3>2 DEF Fills
  <2> QED
    BY <2>1 DEF UsedIsHeld
<1> QED
  BY <1>1, <1>2, <1>3 DEF OwnInv

(* itrunc gives up all blocks of an inode. *)
LEMMA FreeKeeps ==
  ASSUME OwnInv, NEW i \in Inodes,
         \A k \in BlockPlace : Hold(i, k)' = 0,
         \A j \in Inodes \ {i}, k \in BlockPlace : Hold(j, k)' = Hold(j, k),
         bitmap' = bitmap \ {Hold(i, k) : k \in BlockPlace}
  PROVE  OwnInv'
<1>1. HeldInUse'
  <2>1. ASSUME NEW j \in Inodes, NEW k \in BlockPlace, Hold(j, k)' # 0 PROVE Hold(j, k)' \in bitmap'
    <3>1. j # i /\ Hold(j, k)' = Hold(j, k) /\ Hold(j, k) # 0
      BY <2>1
    <3>2. Hold(j, k) \in bitmap
      BY <3>1 DEF OwnInv, HeldInUse
    <3>3. \A l \in BlockPlace : Hold(i, l) # Hold(j, k)
      BY SMTT(30), <3>1 DEF OwnInv, HeldOnce
    <3> QED
      BY <3>1, <3>2, <3>3
  <2> QED
    BY <2>1 DEF HeldInUse
<1>2. HeldOnce'
  <2>1. ASSUME NEW j \in Inodes, NEW h \in Inodes, NEW k \in BlockPlace, NEW l \in BlockPlace,
               Hold(j, k)' # 0, Hold(j, k)' = Hold(h, l)'
        PROVE  j = h /\ k = l
    <3>1. j # i /\ h # i
      BY <2>1
    <3>2. Hold(j, k) # 0 /\ Hold(j, k) = Hold(h, l)
      BY <2>1, <3>1
    <3> QED
      BY SMTT(30), <3>2 DEF OwnInv, HeldOnce
  <2> QED
    BY SMTT(30), <2>1 DEF HeldOnce
<1>3. UsedIsHeld'
  <2>1. ASSUME NEW b \in bitmap' PROVE \E j \in Inodes : \E k \in BlockPlace : Hold(j, k)' = b
    <3>1. PICK j \in Inodes, k \in BlockPlace : Hold(j, k) = b
      BY <2>1 DEF OwnInv, UsedIsHeld
    <3>2. j # i
      BY <2>1, <3>1
    <3> QED
      BY <3>1, <3>2
  <2> QED
    BY <2>1 DEF UsedIsHeld
<1> QED
  BY <1>1, <1>2, <1>3 DEF OwnInv

(* What OwnInv says of the number of places. *)
LEMMA OwnedOnce ==
  ASSUME ContentTypes, OwnInv
  PROVE  BlocksOwnedOnce
<1> DEFINE All == UNION {InodePlaces(i) : i \in Inodes}
           Having(b) == {p \in All : BlockAt(p) = b}
<1>1. ASSUME NEW i \in Inodes, NEW k \in BlockPlace PROVE <<i, k>> \in All /\ BlockAt(<<i, k>>) = Hold(i, k)
  <2>1. k \in 0 .. NDIRECT \/ k \in NDIRECT + 1 .. MAXFILE
    BY SMTT(30), ContentNumbers DEF BlockPlace
  <2>2. <<i, k>> \in InodePlaces(i)
    BY <2>1 DEF InodePlaces
  <2>3. <<i, k>>[1] = i /\ <<i, k>>[2] = k
    BY SMTT(30)
  <2>4. BlockAt(<<i, k>>) = Hold(i, k)
    BY <2>3 DEF BlockAt, Hold
  <2> QED
    BY <2>2, <2>4
<1>2. ASSUME NEW p \in All PROVE \E i \in Inodes, k \in BlockPlace : p = <<i, k>>
  <2>1. PICK i \in Inodes : p \in InodePlaces(i)
    OBVIOUS
  <2>2. PICK k : p = <<i, k>> /\ (k \in 0 .. NDIRECT \/ k \in NDIRECT + 1 .. MAXFILE)
    BY <2>1 DEF InodePlaces
  <2>3. k \in BlockPlace
    BY SMTT(30), <2>2, ContentNumbers DEF BlockPlace
  <2> QED
    BY <2>2, <2>3
<1> HIDE DEF All
<1>3. ASSUME NEW b \in Block, b \in bitmap PROVE Cardinality(Having(b)) = 1
  <2>1. PICK i \in Inodes, k \in BlockPlace : Hold(i, k) = b
    BY <1>3 DEF OwnInv, UsedIsHeld
  <2>2. <<i, k>> \in Having(b)
    BY <1>1, <2>1
  <2>3. ASSUME NEW p \in Having(b) PROVE p = <<i, k>>
    <3>1. PICK j \in Inodes, l \in BlockPlace : p = <<j, l>>
      BY <1>2
    <3>2. Hold(j, l) = b /\ b # 0
      BY <1>1, <3>1, ContentNumbers
    <3>3. j = i /\ l = k
      BY SMTT(30), <2>1, <3>2 DEF OwnInv, HeldOnce
    <3> QED
      BY <3>1, <3>3
  <2>4. Having(b) = {<<i, k>>}
    BY <2>2, <2>3
  <2> QED
    BY <2>4, FS_Singleton
<1>4. ASSUME NEW b \in Block, b \notin bitmap PROVE Cardinality(Having(b)) = 0
  <2>1. ASSUME NEW p \in Having(b) PROVE FALSE
    <3>1. PICK j \in Inodes, l \in BlockPlace : p = <<j, l>>
      BY <1>2
    <3>2. Hold(j, l) = b /\ b # 0
      BY <1>1, <3>1, ContentNumbers
    <3> QED
      BY <1>4, <3>2 DEF OwnInv, HeldInUse
  <2>2. Having(b) = {}
    BY <2>1
  <2> QED
    BY <2>2, FS_EmptySet
<1> QED
  BY <1>3, <1>4 DEF BlocksOwnedOnce, All

-----------------------------------------------------------------------------
(* What balloc and bmap choose *)

LEMMA NeedsAre ==
  ASSUME NEW i, NEW q \in Nat
  PROVE  /\ Mapped(i, q) # 0 => Needs(i, q) = <<>> /\ (~(q < NDIRECT) => addrs[i][NDIRECT] # 0)
         /\ (Mapped(i, q) = 0 /\ (q < NDIRECT \/ addrs[i][NDIRECT] # 0)) => Needs(i, q) = <<"data">>
         /\ (~(q < NDIRECT) /\ addrs[i][NDIRECT] = 0) => Mapped(i, q) = 0 /\ Needs(i, q) = <<"indirect", "data">>
<1>1. q >= NDIRECT <=> ~(q < NDIRECT)
  BY SMTT(30), ContentNumbers
<1>2. <<>> \o <<>> = <<>> /\ <<>> \o <<"data">> = <<"data">> /\ <<"indirect">> \o <<"data">> = <<"indirect", "data">>
  <2> DEFINE S == {"indirect", "data"}
             d == <<"data">>
             e == <<"indirect">>
             b == <<"indirect", "data">>
  <2>1. d \in Seq(S) /\ e \in Seq(S) /\ b \in Seq(S) /\ <<>> \in Seq(S)
    BY SMTT(30)
  <2>2. Len(d) = 1 /\ Len(e) = 1 /\ Len(b) = 2 /\ e[1] = "indirect" /\ d[1] = "data" /\ b[1] = "indirect" /\ b[2] = "data"
    BY SMTT(30)
  <2> HIDE DEF d, e, b, S
  <2>3. <<>> \o <<>> = <<>> /\ <<>> \o d = d
    BY <2>1, ConcatEmptySeq
  <2>4. e \o d \in Seq(S) /\ Len(e \o d) = Len(e) + Len(d)
        /\ \A k \in 1 .. Len(e) + Len(d) : (e \o d)[k] = IF k <= Len(e) THEN e[k] ELSE d[k - Len(e)]
    BY <2>1, ConcatProperties
  <2>5. Len(e \o d) = Len(b) /\ \A k \in 1 .. Len(e \o d) : (e \o d)[k] = b[k]
    BY SMTT(30), <2>2, <2>4
  <2>6. e \o d = b
    BY <2>1, <2>4, <2>5, SeqEqual
  <2> QED
    BY <2>3, <2>6 DEF d, e, b
<1>3. ~(q < NDIRECT) /\ addrs[i][NDIRECT] = 0 => Mapped(i, q) = 0
  BY DEF Mapped
<1> QED
  BY <1>1, <1>2, <1>3 DEF Needs

LEMMA FreeOnes ==
  ASSUME ContentTypes
  PROVE  /\ FreeBlocks \subseteq Block /\ FreeBlocks \cap bitmap = {}
         /\ 1 <= Cardinality(FreeBlocks) => balloc(1) \in FreeBlocks
         /\ 2 <= Cardinality(FreeBlocks) => balloc(1) \in FreeBlocks /\ balloc(2) \in FreeBlocks /\ balloc(2) # balloc(1)
<1>1. FreeBlocks \subseteq Block /\ FreeBlocks \cap bitmap = {} /\ FreeBlocks \in SUBSET Nat
  BY ContentNumbers DEF FreeBlocks
<1>2. IsFiniteSet(FreeBlocks)
  <2>1. 1 \in Int /\ NBLOCKS \in Int
    BY SMTT(30), ContentNumbers
  <2>2. IsFiniteSet(Block)
    BY <2>1, FS_Interval DEF Block
  <2> QED
    BY <1>1, <2>2, FS_Subset
<1>3. balloc(1) = Min(FreeBlocks) /\ balloc(2) = Min(FreeBlocks \ {Min(FreeBlocks)})
  BY SMTT(30) DEF balloc
<1>4. ASSUME 1 <= Cardinality(FreeBlocks) PROVE balloc(1) \in FreeBlocks
  <2>1. Cardinality(FreeBlocks) # 0
    BY SMTT(30), <1>4
  <2>2. FreeBlocks # {}
    BY <2>1, FS_EmptySet
  <2> QED
    BY <1>1, <1>3, <2>2, Least
<1>5. ASSUME 2 <= Cardinality(FreeBlocks)
      PROVE  balloc(1) \in FreeBlocks /\ balloc(2) \in FreeBlocks /\ balloc(2) # balloc(1)
  <2>1. Cardinality(FreeBlocks) \in Nat
    BY <1>2, FS_CardinalityType
  <2>2. 1 <= Cardinality(FreeBlocks) /\ Cardinality(FreeBlocks) - 1 # 0
    BY SMTT(30), <1>5, <2>1
  <2>3. balloc(1) \in FreeBlocks
    BY <1>4, <2>2
  <2> DEFINE R == FreeBlocks \ {balloc(1)}
  <2>4. Cardinality(R) = Cardinality(FreeBlocks) - 1
    BY <1>2, <2>3, FS_RemoveElement
  <2>5. R # {}
    BY <2>2, <2>4, FS_EmptySet
  <2>6. R \in SUBSET Nat
    BY <1>1
  <2>7. Min(R) \in R
    BY <2>5, <2>6, Least
  <2> QED
    BY <1>3, <2>3, <2>7
<1> QED
  BY <1>1, <1>4, <1>5

(* The blocks one turn of writei takes: none, one for the data, or one for *)
(* the addresses and one for the data.                                     *)
Chosen(i, q, b, e, N) ==
  /\ b \in Block /\ N \subseteq Block /\ N \cap bitmap = {}
  /\ ~(q < NDIRECT) => e \in Block
  /\ \/ /\ Mapped(i, q) # 0 /\ N = {} /\ b = Mapped(i, q)
        /\ ~(q < NDIRECT) => addrs[i][NDIRECT] # 0 /\ e = addrs[i][NDIRECT]
     \/ /\ Mapped(i, q) = 0 /\ N = {b}
        /\ ~(q < NDIRECT) => addrs[i][NDIRECT] # 0 /\ e = addrs[i][NDIRECT]
     \/ /\ Mapped(i, q) = 0 /\ ~(q < NDIRECT) /\ addrs[i][NDIRECT] = 0 /\ N = {e, b} /\ e # b

LEMMA BmapChooses ==
  ASSUME ContentTypes, NEW i \in Inodes, NEW q \in 0 .. MAXFILE - 1, ~(Len(Needs(i, q)) > Cardinality(FreeBlocks))
  PROVE  Chosen(i, q, bmap(i, q), IndirectFor(i, q), {balloc(k) : k \in DOMAIN Needs(i, q)})
<1> DEFINE N == {balloc(k) : k \in DOMAIN Needs(i, q)}
           G == {Needs(i, q)[k] : k \in DOMAIN Needs(i, q)}
<1>1. q \in Nat /\ Mapped(i, q) \in 0 .. NBLOCKS /\ addrs[i][NDIRECT] \in 0 .. NBLOCKS
  BY PlaceIsOf, HoldTyped
<1>2. Cardinality(FreeBlocks) \in Nat
  <2>1. 1 \in Int /\ NBLOCKS \in Int
    BY SMTT(30), ContentNumbers
  <2>2. IsFiniteSet(Block)
    BY <2>1, FS_Interval DEF Block
  <2>3. IsFiniteSet(FreeBlocks)
    BY <2>2, FreeOnes, FS_Subset
  <2> QED
    BY <2>3, FS_CardinalityType
<1>3. CASE Mapped(i, q) # 0
  <2>1. Needs(i, q) = <<>> /\ (~(q < NDIRECT) => addrs[i][NDIRECT] # 0)
    BY <1>1, <1>3, NeedsAre
  <2>2. DOMAIN <<>> = {}
    BY SMTT(30)
  <2>3. N = {} /\ G = {}
    BY <2>1, <2>2
  <2>4. bmap(i, q) = Mapped(i, q) /\ IndirectFor(i, q) = addrs[i][NDIRECT]
    BY <1>3, <2>3 DEF bmap, IndirectFor
  <2>5. bmap(i, q) \in Block /\ (~(q < NDIRECT) => IndirectFor(i, q) \in Block)
    BY <1>1, <1>3, <2>1, <2>4, ContentNumbers
  <2> QED
    BY <1>3, <2>1, <2>3, <2>4, <2>5 DEF Chosen
<1>4. CASE Mapped(i, q) = 0 /\ (q < NDIRECT \/ addrs[i][NDIRECT] # 0)
  <2>1. Needs(i, q) = <<"data">>
    BY <1>1, <1>4, NeedsAre
  <2>2. DOMAIN <<"data">> = {1} /\ <<"data">>[1] = "data" /\ Len(<<"data">>) = 1 /\ "data" # "indirect"
    BY SMTT(30)
  <2>3. N = {balloc(1)} /\ "indirect" \notin G /\ Len(Needs(i, q)) = 1
    BY <2>1, <2>2
  <2>4. bmap(i, q) = balloc(1) /\ IndirectFor(i, q) = addrs[i][NDIRECT]
    BY <1>4, <2>3 DEF bmap, IndirectFor
  <2>5. 1 <= Cardinality(FreeBlocks)
    BY SMTT(30), <1>2, <2>3
  <2>6. balloc(1) \in FreeBlocks /\ FreeBlocks \subseteq Block /\ FreeBlocks \cap bitmap = {}
    BY <2>5, FreeOnes
  <2>7. ~(q < NDIRECT) => addrs[i][NDIRECT] # 0 /\ IndirectFor(i, q) \in Block
    BY <1>1, <1>4, <2>4, ContentNumbers
  <2> QED
    BY <1>4, <2>3, <2>4, <2>6, <2>7 DEF Chosen
<1>5. CASE ~(q < NDIRECT) /\ addrs[i][NDIRECT] = 0
  <2> DEFINE s == <<"indirect", "data">>
  <2>1. Mapped(i, q) = 0 /\ Needs(i, q) = s
    BY <1>1, <1>5, NeedsAre
  <2>2. DOMAIN s = {1, 2} /\ s[1] = "indirect" /\ Len(s) = 2
    BY SMTT(30)
  <2>3. N = {balloc(1), balloc(2)} /\ "indirect" \in G /\ Len(Needs(i, q)) = 2
    BY <2>1, <2>2
  <2>4. bmap(i, q) = balloc(2) /\ IndirectFor(i, q) = balloc(1)
    BY <2>1, <2>3 DEF bmap, IndirectFor
  <2>5. 2 <= Cardinality(FreeBlocks)
    BY SMTT(30), <1>2, <2>3
  <2>6. /\ balloc(1) \in FreeBlocks /\ balloc(2) \in FreeBlocks /\ balloc(2) # balloc(1)
        /\ FreeBlocks \subseteq Block /\ FreeBlocks \cap bitmap = {}
    BY <2>5, FreeOnes
  <2> QED
    BY <1>5, <2>1, <2>3, <2>4, <2>6 DEF Chosen
<1> QED
  BY <1>3, <1>4, <1>5

BytesPut(z, b, g, y) ==
  /\ y \in [Block -> BlockRec] /\ y[b].bytes = g /\ \A c \in Block : y[c].a = z[c].a
  /\ \A c \in Block \ {b} : y[c] = z[c]
AddressPut(z, e, h, y) ==
  /\ y \in [Block -> BlockRec] /\ y[e].a = h /\ \A c \in Block : y[c].bytes = z[c].bytes
  /\ \A c \in Block \ {e} : y[c] = z[c]

LEMMA PutBytes ==
  ASSUME NEW z \in [Block -> BlockRec], NEW b \in Block, NEW g \in [0 .. BSIZE - 1 -> Nat], NEW y,
         y = [z EXCEPT ![b] = [z[b] EXCEPT !.bytes = g]]
  PROVE  BytesPut(z, b, g, y)
<1>1. [z[b] EXCEPT !.bytes = g] \in BlockRec
  BY DEF BlockRec
<1>2. [z[b] EXCEPT !.bytes = g].bytes = g /\ [z[b] EXCEPT !.bytes = g].a = z[b].a
  BY SMTT(30) DEF BlockRec
<1>3. y[b] = [z[b] EXCEPT !.bytes = g] /\ \A c \in Block \ {b} : y[c] = z[c]
  OBVIOUS
<1>4. y \in [Block -> BlockRec]
  BY <1>1
<1> QED
  BY <1>2, <1>3, <1>4 DEF BytesPut

LEMMA PutAddress ==
  ASSUME NEW z \in [Block -> BlockRec], NEW e \in Block, NEW h \in [0 .. NINDIRECT - 1 -> 0 .. NBLOCKS], NEW y,
         y = [z EXCEPT ![e] = [z[e] EXCEPT !.a = h]]
  PROVE  AddressPut(z, e, h, y)
<1>1. [z[e] EXCEPT !.a = h] \in BlockRec
  BY DEF BlockRec
<1>2. [z[e] EXCEPT !.a = h].a = h /\ [z[e] EXCEPT !.a = h].bytes = z[e].bytes
  BY SMTT(30) DEF BlockRec
<1>3. y[e] = [z[e] EXCEPT !.a = h] /\ \A c \in Block \ {e} : y[c] = z[c]
  OBVIOUS
<1>4. y \in [Block -> BlockRec]
  BY <1>1
<1> QED
  BY <1>2, <1>3, <1>4 DEF AddressPut

LEMMA ZeroIs ==
  /\ ZeroBlock \in BlockRec /\ \A k \in 0 .. NINDIRECT - 1 : ZeroBlock.a[k] = 0
  /\ ZeroBlock.a = [k \in 0 .. NINDIRECT - 1 |-> 0]
<1>1. ZeroBlock.a = [k \in 0 .. NINDIRECT - 1 |-> 0] /\ ZeroBlock.bytes = [k \in 0 .. BSIZE - 1 |-> 0]
  BY SMTT(30) DEF ZeroBlock
<1>2. ZeroBlock \in BlockRec
  <2>1. [k \in 0 .. BSIZE - 1 |-> 0] \in [0 .. BSIZE - 1 -> Nat] /\ [k \in 0 .. NINDIRECT - 1 |-> 0] \in [0 .. NINDIRECT - 1 -> 0 .. NBLOCKS]
    BY ContentNumbers
  <2> QED
    BY <2>1 DEF ZeroBlock, BlockRec
<1> QED
  BY <1>1, <1>2

-----------------------------------------------------------------------------
(* One turn of writei's loop: block q of inode i is b, with the bytes g;   *)
(* e is the indirect block, N what was allocated.                          *)
Turn(i, q, b, e, N, g) ==
  /\ bitmap' = bitmap \cup N
  /\ addrs' = [addrs EXCEPT ![i] = IF q < NDIRECT THEN [addrs[i] EXCEPT ![q] = b] ELSE [addrs[i] EXCEPT ![NDIRECT] = e]]
  /\ blocks' \in [Block -> BlockRec]
  /\ blocks'[b].bytes = g
  /\ \A c \in Block \ (N \cup {b}) : blocks'[c].bytes = blocks[c].bytes
  /\ \A c \in Block \ N : (q < NDIRECT \/ c # e) => blocks'[c].a = blocks[c].a
  /\ ~(q < NDIRECT) =>
       \A k \in 0 .. NINDIRECT - 1 : blocks'[e].a[k] = IF k = q - NDIRECT THEN b ELSE IF e \in N THEN 0 ELSE blocks[e].a[k]

TurnAddrs(i, q, b, e) ==
  /\ \A j \in Inodes \ {i} : addrs'[j] = addrs[j]
  /\ q < NDIRECT => addrs'[i] = [addrs[i] EXCEPT ![q] = b] /\ q \in 0 .. NDIRECT
  /\ ~(q < NDIRECT) => addrs'[i] = [addrs[i] EXCEPT ![NDIRECT] = e]

LEMMA TurnTypes ==
  ASSUME ContentTypes, NEW i \in Inodes, NEW q \in 0 .. MAXFILE - 1, NEW b, NEW e, NEW N, NEW g,
         Chosen(i, q, b, e, N), Turn(i, q, b, e, N, g)
  PROVE  /\ bitmap' \subseteq Block /\ addrs' \in [Inodes -> [0 .. NDIRECT -> 0 .. NBLOCKS]]
         /\ TurnAddrs(i, q, b, e)
<1>1. bitmap' \subseteq Block
  BY DEF ContentTypes, Chosen, Turn
<1>2. addrs \in [Inodes -> [0 .. NDIRECT -> 0 .. NBLOCKS]] /\ addrs[i] \in [0 .. NDIRECT -> 0 .. NBLOCKS]
  BY DEF ContentTypes
<1>3. q < NDIRECT => q \in 0 .. NDIRECT
  BY SMTT(30), ContentNumbers
<1>4. b \in 0 .. NBLOCKS /\ (~(q < NDIRECT) => e \in 0 .. NBLOCKS)
  BY ContentNumbers DEF Chosen
<1>5. PICK r : r = IF q < NDIRECT THEN [addrs[i] EXCEPT ![q] = b] ELSE [addrs[i] EXCEPT ![NDIRECT] = e]
  OBVIOUS
<1>6. r \in [0 .. NDIRECT -> 0 .. NBLOCKS]
  <2>1. CASE q < NDIRECT
    BY <1>2, <1>4, <1>5, <2>1
  <2>2. CASE ~(q < NDIRECT)
    BY <1>2, <1>4, <1>5, <2>2
  <2> QED
    BY <2>1, <2>2
<1>7. addrs' = [addrs EXCEPT ![i] = r]
  BY <1>5 DEF Turn
<1>8. addrs'[i] = r /\ (\A j \in Inodes \ {i} : addrs'[j] = addrs[j]) /\ addrs' \in [Inodes -> [0 .. NDIRECT -> 0 .. NBLOCKS]]
  BY <1>2, <1>6, <1>7
<1> QED
  BY <1>1, <1>3, <1>5, <1>8 DEF TurnAddrs

(* After it the inode has b there, and e as its indirect block; all other  *)
(* places of all inodes are as before.                                     *)
HoldsNow(i, q, b, e, j, k) ==
  Hold(j, k)' = IF j = i /\ k = PlaceOf(q) THEN b
                ELSE IF j = i /\ k = NDIRECT /\ ~(q < NDIRECT) THEN e ELSE Hold(j, k)

LEMMA TurnHolds ==
  ASSUME ContentTypes, OwnInv, NEW i \in Inodes, NEW q \in 0 .. MAXFILE - 1, NEW b, NEW e, NEW N, NEW g,
         Chosen(i, q, b, e, N), Turn(i, q, b, e, N, g), NEW j \in Inodes, NEW k \in BlockPlace
  PROVE  HoldsNow(i, q, b, e, j, k)
<1> SUFFICES Hold(j, k)' = IF j = i /\ k = PlaceOf(q) THEN b
                           ELSE IF j = i /\ k = NDIRECT /\ ~(q < NDIRECT) THEN e ELSE Hold(j, k)
  BY DEF HoldsNow
<1>1. /\ \A h \in Inodes \ {i} : addrs'[h] = addrs[h]
      /\ q < NDIRECT => addrs'[i] = [addrs[i] EXCEPT ![q] = b] /\ q \in 0 .. NDIRECT
      /\ ~(q < NDIRECT) => addrs'[i] = [addrs[i] EXCEPT ![NDIRECT] = e]
  <2>1. TurnAddrs(i, q, b, e)
    BY TurnTypes
  <2> QED
    BY <2>1 DEF TurnAddrs
<1>2. addrs[i] \in [0 .. NDIRECT -> 0 .. NBLOCKS] /\ addrs[j][NDIRECT] \in 0 .. NBLOCKS
  BY HoldTyped
<1>3. /\ PlaceOf(q) # NDIRECT /\ (q < NDIRECT => PlaceOf(q) <= NDIRECT /\ PlaceOf(q) = q)
      /\ ~(q < NDIRECT) => ~(PlaceOf(q) <= NDIRECT) /\ PlaceOf(q) - 1 = q
  BY PlaceIsOf
<1>4. CASE k <= NDIRECT
  <2>1. Hold(j, k) = addrs[j][k] /\ Hold(j, k)' = addrs'[j][k] /\ k \in 0 .. NDIRECT
    BY <1>4, HoldIs, PlaceBack
  <2>2. CASE j # i
    BY <1>1, <2>1, <2>2
  <2>3. CASE j = i /\ q < NDIRECT
    BY <1>1, <1>2, <1>3, <2>1, <2>3
  <2>4. CASE j = i /\ ~(q < NDIRECT)
    BY <1>1, <1>2, <1>3, <1>4, <2>1, <2>4
  <2> QED
    BY <2>2, <2>3, <2>4
<1>5. CASE ~(k <= NDIRECT)
  <2> DEFINE r == k - 1 - NDIRECT
             d == addrs[j][NDIRECT]
  <2>1. /\ Hold(j, k) = (IF d = 0 THEN 0 ELSE blocks[d].a[r])
        /\ Hold(j, k)' = (IF addrs'[j][NDIRECT] = 0 THEN 0 ELSE blocks'[addrs'[j][NDIRECT]].a[r])
    BY <1>5, HoldIs
  <2>2. r \in 0 .. NINDIRECT - 1
    BY <1>5, PlaceBack
  <2>3. NDIRECT \in BlockPlace /\ k # NDIRECT /\ NDIRECT \in 0 .. NDIRECT
    BY SMTT(30), <1>5, ContentNumbers DEF BlockPlace
  <2>4. d # 0 => d \in Block /\ d \in bitmap /\ d \notin N
    <3>1. d # 0 => d \in Block
      BY <1>2, ContentNumbers
    <3>2. d = Hold(j, NDIRECT)
      BY HoldIs
    <3>3. d # 0 => d \in bitmap
      BY <2>3, <3>2 DEF OwnInv, HeldInUse
    <3> QED
      BY <3>1, <3>3 DEF Chosen
  <2>5. (~(q < NDIRECT) /\ j # i /\ d # 0) => d # e
    <3>1. d = Hold(j, NDIRECT) /\ addrs[i][NDIRECT] = Hold(i, NDIRECT)
      BY HoldIs
    <3>2. ~(q < NDIRECT) => e \in N \/ (e = addrs[i][NDIRECT] /\ e # 0)
      BY DEF Chosen
    <3>3. (j # i /\ d # 0) => Hold(j, NDIRECT) # Hold(i, NDIRECT)
      BY SMTT(30), <2>3, <3>1 DEF OwnInv, HeldOnce
    <3> QED
      BY <2>4, <3>1, <3>2, <3>3
  <2>6. CASE j # i \/ q < NDIRECT
    <3>1. addrs'[j][NDIRECT] = d
      <4>1. CASE j # i
        BY <1>1, <4>1
      <4>2. CASE j = i /\ q < NDIRECT
        <5>1. q # NDIRECT
          BY <1>3, <4>2
        <5> QED
          BY <1>1, <1>2, <2>3, <4>2, <5>1
      <4> QED
        BY <2>6, <4>1, <4>2
    <3>2. d # 0 => blocks'[d].a = blocks[d].a
      BY <2>4, <2>5, <2>6 DEF Turn
    <3>3. Hold(j, k)' = Hold(j, k)
      <4>1. CASE d = 0
        BY <2>1, <3>1, <4>1
      <4>2. CASE d # 0
        <5>1. Hold(j, k) = blocks[d].a[r] /\ Hold(j, k)' = blocks'[d].a[r]
          BY <2>1, <3>1, <4>2
        <5> QED
          BY <3>2, <4>2, <5>1
      <4> QED
        BY <4>1, <4>2
    <3>4. j = i => k # PlaceOf(q)
      BY <1>3, <1>5, <2>6
    <3> QED
      BY <2>3, <3>3, <3>4
  <2>7. CASE j = i /\ ~(q < NDIRECT)
    <3>1. addrs'[j][NDIRECT] = e /\ e \in Block /\ e # 0
      BY <1>1, <1>2, <2>3, <2>7, ContentNumbers DEF Chosen
    <3>2. Hold(j, k)' = blocks'[e].a[r]
      BY <2>1, <3>1
    <3>3. blocks'[e].a[r] = IF r = q - NDIRECT THEN b ELSE IF e \in N THEN 0 ELSE blocks[e].a[r]
      BY <2>2, <2>7 DEF Turn
    <3>4. r = q - NDIRECT <=> k = PlaceOf(q)
      BY SMTT(30), <1>3, <2>7, ContentNumbers DEF BlockPlace, PlaceOf
    <3>5. (IF e \in N THEN 0 ELSE blocks[e].a[r]) = Hold(j, k)
      <4>1. (e \in N /\ d = 0) \/ (e \notin N /\ d = e)
        BY <2>4, <2>7 DEF Chosen
      <4> QED
        BY <2>1, <3>1, <4>1
    <3> QED
      BY <2>3, <2>7, <3>2, <3>3, <3>4, <3>5
  <2> QED
    BY <2>6, <2>7
<1> QED
  BY <1>4, <1>5

LEMMA TurnOwns ==
  ASSUME ContentTypes, OwnInv, NEW i \in Inodes, NEW q \in 0 .. MAXFILE - 1, NEW b, NEW e, NEW N, NEW g,
         Chosen(i, q, b, e, N), Turn(i, q, b, e, N, g)
  PROVE  OwnInv'
<1> DEFINE s == PlaceOf(q)
<1>1. \A j \in Inodes, k \in BlockPlace :
        Hold(j, k)' = IF j = i /\ k = s THEN b ELSE IF j = i /\ k = NDIRECT /\ ~(q < NDIRECT) THEN e ELSE Hold(j, k)
  <2>1. \A j \in Inodes, k \in BlockPlace : HoldsNow(i, q, b, e, j, k)
    BY TurnHolds
  <2> QED
    BY <2>1 DEF HoldsNow
<1>2. s \in BlockPlace /\ s # NDIRECT /\ NDIRECT \in BlockPlace /\ Hold(i, s) = Mapped(i, q) /\ Hold(i, NDIRECT) = addrs[i][NDIRECT]
  BY PlaceIsOf, HoldMapped, HoldIs
<1>3. 0 \notin bitmap
  BY ContentNumbers DEF ContentTypes
<1> HIDE DEF s
<1>4. \E Q \in SUBSET BlockPlace : Fills(i, Q, N)
  <2>1. N \cap bitmap = {} /\ bitmap' = bitmap \cup N
    BY DEF Chosen, Turn
  <2>2. CASE Mapped(i, q) # 0
    <3>1. N = {} /\ b = Hold(i, s) /\ (~(q < NDIRECT) => e = Hold(i, NDIRECT))
      BY <1>2, <2>2 DEF Chosen
    <3>2. \A j \in Inodes, k \in BlockPlace : Hold(j, k)' = Hold(j, k)
      BY <1>1, <3>1
    <3>3. Fills(i, {}, N)
      BY <2>1, <3>1, <3>2 DEF Fills
    <3> QED
      BY <3>3
  <2>3. CASE Mapped(i, q) = 0 /\ (q < NDIRECT \/ addrs[i][NDIRECT] # 0)
    <3>1. N = {b} /\ Hold(i, s) = 0 /\ (~(q < NDIRECT) => e = Hold(i, NDIRECT))
      BY <1>2, <2>3 DEF Chosen
    <3>2. \A j \in Inodes, k \in BlockPlace : (j # i \/ k \notin {s}) => Hold(j, k)' = Hold(j, k)
      BY <1>1, <3>1
    <3>3. Hold(i, s)' = b
      BY <1>1, <1>2
    <3>4. Fills(i, {s}, N)
      BY <2>1, <3>1, <3>2, <3>3 DEF Fills
    <3> QED
      BY <1>2, <3>4
  <2>4. CASE ~(q < NDIRECT) /\ addrs[i][NDIRECT] = 0
    <3>1. N = {e, b} /\ e # b /\ Hold(i, s) = 0 /\ Hold(i, NDIRECT) = 0
      BY <1>2, <2>4 DEF Chosen
    <3>2. \A j \in Inodes, k \in BlockPlace : (j # i \/ k \notin {NDIRECT, s}) => Hold(j, k)' = Hold(j, k)
      BY <1>1
    <3>3. Hold(i, s)' = b /\ Hold(i, NDIRECT)' = e
      BY <1>1, <1>2, <2>4
    <3>4. Fills(i, {NDIRECT, s}, N)
      BY <2>1, <3>1, <3>2, <3>3 DEF Fills
    <3> QED
      BY <1>2, <3>4
  <2> QED
    BY <2>2, <2>3, <2>4 DEF Chosen
<1>5. PICK Q \in SUBSET BlockPlace : Fills(i, Q, N)
  BY <1>4
<1> QED
  BY <1>3, <1>5, FillKeeps

(* The m bytes from offset o on, where they end within o's block. *)
ChunkSpot(w, o, x, m) ==
  /\ (o <= x /\ x < o + m) <=> (x \div w = o \div w /\ x % w \in (o % w) .. (o % w) + m - 1)
  /\ x \div w = o \div w => (x % w) - (o % w) = x - o

LEMMA InChunk ==
  ASSUME NEW w \in Nat, w > 0, NEW o \in Nat, NEW x \in Nat, NEW m \in Nat, m <= w - (o % w)
  PROVE  ChunkSpot(w, o, x, m)
<1>1. /\ o \div w \in Nat /\ o % w \in 0 .. w - 1 /\ o = w * (o \div w) + (o % w)
      /\ x \div w \in Nat /\ x % w \in 0 .. w - 1 /\ x = w * (x \div w) + (x % w)
  BY InBlock
<1>2. ASSUME o <= x, x < o + m PROVE x \div w = o \div w
  <2> DEFINE q == o \div w
             r == o % w
             z == x - o
  <2>1. q \in Nat /\ r \in Nat /\ z \in Nat /\ z < m /\ r + z \in 0 .. w - 1 /\ x = w * q + (r + z)
    BY SMTT(30), <1>1, <1>2
  <2> HIDE DEF q, r, z
  <2>2. x \div w = q
    BY <2>1, BlockIs
  <2> QED
    BY <2>2 DEF q
<1> DEFINE q == o \div w
           r == o % w
           p == x \div w
           s == x % w
<1>3. /\ q \in Nat /\ r \in 0 .. w - 1 /\ o = w * q + r /\ p \in Nat /\ s \in 0 .. w - 1 /\ x = w * p + s
      /\ (o <= x /\ x < o + m) => p = q
  BY <1>1, <1>2
<1> HIDE DEF q, r, p, s
<1>4. PICK z \in Int : z = w * q
  BY SMTT(30), <1>3
<1>5. p = q => x = z + s /\ o = z + r
  BY <1>3, <1>4
<1>6. /\ (o <= x /\ x < o + m) <=> (p = q /\ s \in r .. r + m - 1)
      /\ p = q => s - r = x - o
  <2>1. p = q => s - r = x - o
    BY SMTT(30), <1>3, <1>4, <1>5
  <2>2. p = q => ((o <= x /\ x < o + m) <=> s \in r .. r + m - 1)
    BY SMTT(30), <1>3, <1>4, <1>5
  <2> QED
    BY <1>3, <2>1, <2>2
<1> QED
  BY <1>6 DEF q, r, p, s, ChunkSpot

(* No other block of a file than the one that is written changes. *)
LEMMA MappedKept ==
  ASSUME ContentTypes, OwnInv, NEW i \in Inodes, NEW q \in 0 .. MAXFILE - 1, NEW b, NEW e, NEW N, NEW g,
         Chosen(i, q, b, e, N), Turn(i, q, b, e, N, g),
         NEW j \in Inodes, NEW p \in 0 .. MAXFILE - 1, j # i \/ p # q
  PROVE  /\ Mapped(j, p)' = Mapped(j, p)
         /\ Mapped(j, p) # 0 => blocks'[Mapped(j, p)].bytes = blocks[Mapped(j, p)].bytes
<1>1. /\ PlaceOf(p) \in BlockPlace /\ PlaceOf(p) # NDIRECT /\ Hold(j, PlaceOf(p)) = Mapped(j, p)
      /\ Hold(j, PlaceOf(p))' = Mapped(j, p)'
  BY PlaceIsOf, HoldMapped
<1>2. PlaceOf(q) \in BlockPlace /\ Hold(i, PlaceOf(q)) = Mapped(i, q) /\ (j # i \/ PlaceOf(p) # PlaceOf(q))
  BY PlaceIsOf, HoldMapped
<1>3. HoldsNow(i, q, b, e, j, PlaceOf(p))
  BY <1>1, TurnHolds
<1>4. Mapped(j, p)' = Mapped(j, p)
  BY <1>1, <1>2, <1>3 DEF HoldsNow
<1>5. ASSUME Mapped(j, p) # 0 PROVE blocks'[Mapped(j, p)].bytes = blocks[Mapped(j, p)].bytes
  <2>1. Mapped(j, p) \in bitmap /\ Mapped(j, p) \in Block
    BY <1>1, <1>5 DEF OwnInv, HeldInUse, ContentTypes
  <2>2. Mapped(j, p) # b
    <3>1. b \in N \/ b = Mapped(i, q)
      BY DEF Chosen
    <3>2. Mapped(j, p) # Mapped(i, q)
      BY SMTT(30), <1>1, <1>2, <1>5 DEF OwnInv, HeldOnce
    <3> QED
      BY <2>1, <3>1, <3>2 DEF Chosen
  <2>3. Mapped(j, p) \in Block \ (N \cup {b})
    BY <2>1, <2>2 DEF Chosen
  <2> QED
    BY <2>3 DEF Turn
<1> QED
  BY <1>4, <1>5

LEMMA MappedNow ==
  ASSUME ContentTypes, OwnInv, NEW i \in Inodes, NEW q \in 0 .. MAXFILE - 1, NEW b, NEW e, NEW N, NEW g,
         Chosen(i, q, b, e, N), Turn(i, q, b, e, N, g)
  PROVE  Mapped(i, q)' = b /\ b # 0
<1>1. PlaceOf(q) \in BlockPlace /\ Hold(i, PlaceOf(q))' = Mapped(i, q)'
  BY PlaceIsOf, HoldMapped
<1>2. HoldsNow(i, q, b, e, i, PlaceOf(q))
  BY <1>1, TurnHolds
<1> QED
  BY <1>1, <1>2, ContentNumbers DEF HoldsNow, Chosen

(* How far the files reach. *)
LEMMA ThereIsWhere ==
  ASSUME ContentInv, NEW i \in Inodes, NEW x \in Nat, ThereIs(i, x)
  PROVE  x \div BSIZE \in 0 .. MAXFILE - 1
<1>1. FileInv(i) /\ fsize[i] \in Nat /\ foff[i] \in Nat
  BY DEF ContentInv, ContentTypes
<1>2. DoneIn(i) \in Nat /\ foff[i] + DoneIn(i) <= MAXFILE * BSIZE
  <2>1. CASE flock[i] = NoWriter
    <3>1. DoneIn(i) = 0
      BY <2>1 DEF DoneIn
    <3>2. foff[i] <= fsize[i] /\ fsize[i] <= MAXFILE * BSIZE
      BY <1>1 DEF FileInv
    <3> QED
      BY SMTT(30), <1>1, <3>1, <3>2, ContentNumbers
  <2>2. CASE flock[i] # NoWriter
    <3>1. PICK t \in Writers : flock[i] = t
      BY <2>2 DEF ContentInv, ContentTypes
    <3>2. DoneIn(i) = wr[t].tot /\ wr[t].i = i /\ wr[t].n > 0
      BY <1>1, <2>2, <3>1 DEF DoneIn, FileInv
    <3>3. wr[t] \in WriteRec /\ WriterInv(t)
      BY DEF ContentInv, ContentTypes
    <3>4. wr[t].tot \in Nat /\ wr[t].n \in Nat
      BY SMTT(30), <3>3 DEF WriteRec
    <3>5. wr[t].tot <= wr[t].n /\ foff[i] + wr[t].n <= MAXFILE * BSIZE
      BY <3>2, <3>3 DEF WriterInv
    <3> QED
      BY SMTT(30), <1>1, <3>2, <3>4, <3>5, ContentNumbers
  <2> QED
    BY <2>1, <2>2
<1>3. x < MAXFILE * BSIZE
  <2>1. fsize[i] <= MAXFILE * BSIZE
    BY <1>1 DEF FileInv
  <2>2. x < fsize[i] \/ x < foff[i] + DoneIn(i)
    BY DEF ThereIs
  <2> QED
    BY SMTT(30), <1>1, <1>2, <2>1, <2>2, ContentNumbers
<1> QED
  BY <1>3, ContentNumbers, BlockBelow

-----------------------------------------------------------------------------
(* The bytes after one turn *)

(* A writer in the middle of a chunk of inode i *)
Copying(t, i) ==
  /\ t \in Writers /\ i \in Inodes /\ wr[t].i = i /\ flock[i] = t /\ wr[t].n > 0 /\ wr[t].n <= Len(wr[t].left)
  /\ wr[t].tot \in Nat /\ wr[t].n \in Nat /\ wr[t].left \in Seq(Nat)
  /\ foff[i] \in Nat /\ fsize[i] \in Nat /\ foff[i] + wr[t].n <= MAXFILE * BSIZE

LEMMA CopyingIs ==
  ASSUME ContentInv, NEW t \in Writers, wr[t].n > 0
  PROVE  Copying(t, wr[t].i) /\ wr[t].tot <= wr[t].n
<1>1. wr[t] \in WriteRec /\ WriterInv(t)
  BY DEF ContentInv, ContentTypes
<1>2. wr[t].tot \in Nat /\ wr[t].n \in Nat /\ wr[t].left \in Seq(Nat)
  BY SMTT(30), <1>1 DEF WriteRec
<1>3. /\ wr[t].i \in Inodes /\ flock[wr[t].i] = t /\ wr[t].n <= Len(wr[t].left) /\ wr[t].tot <= wr[t].n
      /\ foff[wr[t].i] + wr[t].n <= MAXFILE * BSIZE
  BY <1>1 DEF WriterInv
<1>4. foff[wr[t].i] \in Nat /\ fsize[wr[t].i] \in Nat
  BY <1>3 DEF ContentInv, ContentTypes
<1> QED
  BY <1>2, <1>3, <1>4 DEF Copying

(* The new bytes g of block b: m of the chunk's bytes from place r on *)
Copied(g, b, N, r, m, t) ==
  \A k \in 0 .. BSIZE - 1 :
    /\ k \in r .. r + m - 1 => g[k] = wr[t].left[wr[t].tot + 1 + k - r]
    /\ (k \notin r .. r + m - 1 /\ b \notin N) => g[k] = blocks[b].bytes[k]

(* The turn is over: tot has moved by m. *)
Advanced(t, m) ==
  /\ wr' = [wr EXCEPT ![t] = [wr[t] EXCEPT !.tot = wr[t].tot + m]]
  /\ UNCHANGED <<fsize, foff, flock, expected>>

CallNow(t, i, m) ==
  /\ wr'[t].i = i /\ wr'[t].left = wr[t].left /\ wr'[t].n = wr[t].n /\ wr'[t].tot = wr[t].tot + m
  /\ \A u \in Writers \ {t} : wr'[u] = wr[u]

LEMMA LockedOnce ==
  ASSUME ContentInv, NEW t, NEW i, Copying(t, i)
  PROVE  NoWriter # t /\ \A j \in Inodes \ {i} : flock[j] # t
<1>1. NoWriter # t
  BY ContentAssumption DEF Copying
<1> QED
  BY <1>1 DEF ContentInv, FileInv, Copying

LEMMA CountedIs ==
  ASSUME ContentInv, NEW t, NEW i, Copying(t, i), NEW m \in Nat, Advanced(t, m)
  PROVE  wr' \in [Writers -> WriteRec] /\ CallNow(t, i, m)
<1>1. wr \in [Writers -> WriteRec] /\ t \in Writers /\ wr[t] \in WriteRec
  BY DEF ContentInv, ContentTypes, Copying
<1>2. PICK v : v = [wr[t] EXCEPT !.tot = wr[t].tot + m]
  OBVIOUS
<1>3. wr[t].tot + m \in Nat
  BY SMTT(30) DEF Copying
<1>4. v \in WriteRec
  BY <1>1, <1>2, <1>3 DEF WriteRec
<1>5. v.i = wr[t].i /\ v.left = wr[t].left /\ v.n = wr[t].n /\ v.tot = wr[t].tot + m
  BY SMTT(30), <1>1, <1>2 DEF WriteRec
<1>6. wr' = [wr EXCEPT ![t] = v]
  BY <1>2 DEF Advanced
<1>7. wr'[t] = v /\ (\A u \in Writers \ {t} : wr'[u] = wr[u]) /\ wr' \in [Writers -> WriteRec]
  BY <1>1, <1>4, <1>6
<1> QED
  BY <1>5, <1>7 DEF Copying, CallNow

LEMMA OthersBytes ==
  ASSUME ContentInv, NEW t, NEW i, Copying(t, i), NEW m \in Nat, Advanced(t, m), NEW j \in Inodes \ {i}, NEW x \in Nat
  PROVE  DoneIn(j)' = DoneIn(j) /\ Want(j, x)' = Want(j, x) /\ (ThereIs(j, x)' <=> ThereIs(j, x))
<1>1. flock[j] # t /\ flock[j] \in Writers \cup {NoWriter} /\ \A u \in Writers \ {t} : wr'[u] = wr[u]
  <2>1. flock[j] \in Writers \cup {NoWriter}
    BY DEF ContentInv, ContentTypes
  <2>2. flock[j] # t
    BY LockedOnce
  <2>3. CallNow(t, i, m)
    BY CountedIs
  <2> QED
    BY <2>1, <2>2, <2>3 DEF CallNow
<1>2. flock' = flock /\ foff' = foff /\ fsize' = fsize /\ expected' = expected
  BY DEF Advanced
<1>3. flock[j] # NoWriter => wr'[flock[j]] = wr[flock[j]]
  BY <1>1
<1>4. DoneIn(j)' = DoneIn(j)
  BY <1>2, <1>3 DEF DoneIn
<1>5. ThereIs(j, x)' <=> ThereIs(j, x)
  BY <1>2, <1>4 DEF ThereIs
<1>6. CASE flock[j] # NoWriter
  BY <1>2, <1>3, <1>4, <1>5, <1>6 DEF Want
<1>7. CASE flock[j] = NoWriter
  <2>1. DoneIn(j) = 0 /\ foff[j] \in Nat
    BY <1>7 DEF DoneIn, ContentInv, ContentTypes
  <2>2. ~(foff[j] <= x /\ x < foff[j] + DoneIn(j))
    BY SMTT(30), <2>1
  <2> QED
    BY <1>2, <1>4, <1>5, <2>2 DEF Want
<1> QED
  BY <1>4, <1>5, <1>6, <1>7

LEMMA OwnByte ==
  ASSUME ContentInv, NEW t, NEW i, Copying(t, i),
         NEW o \in Nat, o = foff[i] + wr[t].tot, NEW q \in 0 .. MAXFILE - 1, q = o \div BSIZE,
         NEW m \in Nat, m <= BSIZE - (o % BSIZE),
         NEW b, NEW e, NEW N, NEW g, Chosen(i, q, b, e, N), Turn(i, q, b, e, N, g),
         Copied(g, b, N, o % BSIZE, m, t), Advanced(t, m),
         NEW x \in Nat, ThereIs(i, x)'
  PROVE  ByteIs(i, x, Want(i, x))'
<1> DEFINE p == x \div BSIZE
           s == x % BSIZE
           r == o % BSIZE
           f == foff[i]
           d == wr[t].tot
<1>1. i \in Inodes /\ t \in Writers /\ f \in Nat /\ d \in Nat /\ fsize[i] \in Nat /\ flock[i] = t /\ t # NoWriter
  BY LockedOnce DEF Copying
<1>2. ContentTypes /\ OwnInv
  BY DEF ContentInv
<1>3. flock' = flock /\ foff' = foff /\ fsize' = fsize /\ expected' = expected
  BY DEF Advanced
<1>4. wr'[t].left = wr[t].left /\ wr'[t].tot = d + m
  <2>1. CallNow(t, i, m)
    BY CountedIs
  <2> QED
    BY <2>1 DEF CallNow
<1>5. DoneIn(i) = d /\ DoneIn(i)' = d + m
  BY <1>1, <1>3, <1>4 DEF DoneIn
<1>6. x < fsize[i] \/ x < f + (d + m)
  BY <1>3, <1>5 DEF ThereIs
<1>7. /\ Want(i, x)' = IF f <= x /\ x < f + (d + m) THEN wr[t].left[x - f + 1] ELSE expected[i][x + 1]
      /\ Want(i, x) = IF f <= x /\ x < f + d THEN wr[t].left[x - f + 1] ELSE expected[i][x + 1]
  BY <1>1, <1>3, <1>4, <1>5 DEF Want
<1>8. /\ (o <= x /\ x < o + m) <=> (p = q /\ s \in r .. r + m - 1)
      /\ p = q => s - r = x - o
  <2>1. BSIZE \in Nat /\ BSIZE > 0
    BY ContentNumbers
  <2>2. ChunkSpot(BSIZE, o, x, m)
    BY <2>1, InChunk
  <2> QED
    BY <2>2 DEF ChunkSpot
<1>9. p \in Nat /\ s \in 0 .. BSIZE - 1 /\ r \in 0 .. BSIZE - 1
  BY ContentNumbers, InBlock
<1> HIDE DEF p, s, r, f, d
<1>10. CASE o <= x /\ x < o + m
  <2>1. p = q /\ s \in r .. r + m - 1 /\ s - r = x - o
    BY <1>8, <1>10
  <2>2. Mapped(i, q)' = b /\ b # 0 /\ blocks'[b].bytes = g
    <3>1. i \in Inodes
      BY <1>1
    <3>2. Mapped(i, q)' = b /\ b # 0
      BY <1>2, <3>1, MappedNow
    <3> QED
      BY <3>2 DEF Turn
  <2>3. g[s] = wr[t].left[d + 1 + s - r]
    BY <1>9, <2>1 DEF Copied, r, d
  <2>4. d + 1 + s - r = x - f + 1 /\ f <= x /\ x < f + (d + m)
    <3>1. o = f + d
      BY DEF f, d
    <3> QED
      BY SMTT(30), <1>1, <1>9, <1>10, <2>1, <3>1
  <2>5. Want(i, x)' = g[s]
    BY <1>7, <2>3, <2>4
  <2> QED
    BY <2>1, <2>2, <2>5 DEF ByteIs, p, s
<1>11. CASE ~(o <= x /\ x < o + m)
  <2>1. (x < fsize[i] \/ x < f + d) /\ ((f <= x /\ x < f + (d + m)) <=> (f <= x /\ x < f + d))
    <3>1. o = f + d
      BY DEF f, d
    <3> QED
      BY SMTT(30), <1>1, <1>6, <1>11, <3>1
  <2>2. ThereIs(i, x) /\ Want(i, x)' = Want(i, x)
    BY <1>5, <1>7, <2>1 DEF ThereIs, f, d
  <2>3. ByteIs(i, x, Want(i, x)) /\ p \in 0 .. MAXFILE - 1
    BY <1>1, <2>2, ThereIsWhere DEF ContentInv, BytesInv, p
  <2>4. Mapped(i, p) # 0 /\ blocks[Mapped(i, p)].bytes[s] = Want(i, x)
    BY <2>3 DEF ByteIs, p, s
  <2>5. CASE p # q
    <3>1. Mapped(i, p)' = Mapped(i, p) /\ blocks'[Mapped(i, p)].bytes = blocks[Mapped(i, p)].bytes
      <4>1. i \in Inodes /\ p \in 0 .. MAXFILE - 1
        BY <1>1, <2>3
      <4>2. Mapped(i, p)' = Mapped(i, p) /\ (Mapped(i, p) # 0 => blocks'[Mapped(i, p)].bytes = blocks[Mapped(i, p)].bytes)
        BY <1>2, <2>5, <4>1, MappedKept
      <4> QED
        BY <2>4, <4>2
    <3> QED
      BY <2>2, <2>4, <3>1 DEF ByteIs, p, s
  <2>6. CASE p = q
    <3>1. s \notin r .. r + m - 1
      BY <1>8, <1>11, <2>6
    <3>2. N = {} /\ b = Mapped(i, q)
      BY <2>4, <2>6 DEF Chosen
    <3>3. Mapped(i, q)' = b /\ b # 0 /\ blocks'[b].bytes = g
      <4>1. i \in Inodes
        BY <1>1
      <4>2. Mapped(i, q)' = b /\ b # 0
        BY <1>2, <4>1, MappedNow
      <4> QED
        BY <4>2 DEF Turn
    <3>4. g[s] = blocks[b].bytes[s]
      BY <1>9, <3>1, <3>2 DEF Copied, r
    <3> QED
      BY <2>2, <2>4, <2>6, <3>2, <3>3, <3>4 DEF ByteIs, p, s
  <2> QED
    BY <2>5, <2>6
<1> QED
  BY <1>10, <1>11

LEMMA OtherByte ==
  ASSUME ContentInv, NEW t, NEW i, Copying(t, i), NEW q \in 0 .. MAXFILE - 1, NEW m \in Nat,
         NEW b, NEW e, NEW N, NEW g, Chosen(i, q, b, e, N), Turn(i, q, b, e, N, g), Advanced(t, m),
         NEW j \in Inodes \ {i}, NEW x \in Nat, ThereIs(j, x)'
  PROVE  ByteIs(j, x, Want(j, x))'
<1> DEFINE p == x \div BSIZE
           s == x % BSIZE
<1>1. ContentTypes /\ OwnInv /\ i \in Inodes /\ j \in Inodes /\ j # i
  BY DEF ContentInv, Copying
<1>2. ThereIs(j, x) /\ Want(j, x)' = Want(j, x)
  BY OthersBytes
<1>3. ByteIs(j, x, Want(j, x)) /\ p \in 0 .. MAXFILE - 1
  BY <1>1, <1>2, ThereIsWhere DEF ContentInv, BytesInv
<1> HIDE DEF p, s
<1>4. Mapped(j, p) # 0 /\ blocks[Mapped(j, p)].bytes[s] = Want(j, x)
  BY <1>3 DEF ByteIs, p, s
<1>5. Mapped(j, p)' = Mapped(j, p) /\ blocks'[Mapped(j, p)].bytes = blocks[Mapped(j, p)].bytes
  BY <1>1, <1>3, <1>4, MappedKept
<1> QED
  BY <1>2, <1>4, <1>5 DEF ByteIs, p, s

LEMMA TurnKeeps ==
  ASSUME ContentInv, NEW t, NEW i, Copying(t, i),
         NEW o \in Nat, o = foff[i] + wr[t].tot, NEW q \in 0 .. MAXFILE - 1, q = o \div BSIZE,
         NEW m \in Nat, m <= BSIZE - (o % BSIZE), m <= wr[t].n - wr[t].tot,
         NEW b, NEW e, NEW N, NEW g, Chosen(i, q, b, e, N), Turn(i, q, b, e, N, g),
         Copied(g, b, N, o % BSIZE, m, t), Advanced(t, m)
  PROVE  ContentInv'
<1>1. ContentTypes /\ OwnInv /\ t \in Writers /\ i \in Inodes
  BY DEF ContentInv, Copying
<1>2. wr' \in [Writers -> WriteRec] /\ CallNow(t, i, m)
  BY CountedIs
<1>3. flock' = flock /\ foff' = foff /\ fsize' = fsize /\ expected' = expected
  BY DEF Advanced
<1>4. ContentTypes'
  <2>1. bitmap' \subseteq Block /\ addrs' \in [Inodes -> [0 .. NDIRECT -> 0 .. NBLOCKS]]
    BY <1>1, TurnTypes
  <2>2. blocks' \in [Block -> BlockRec]
    BY DEF Turn
  <2> QED
    BY <1>1, <1>2, <1>3, <2>1, <2>2 DEF ContentTypes
<1>5. OwnInv'
  BY <1>1, TurnOwns
<1>6. BytesInv'
  <2>1. ASSUME NEW j \in Inodes, NEW x \in Nat, ThereIs(j, x)' PROVE ByteIs(j, x, Want(j, x))'
    <3>1. CASE j = i
      BY <2>1, <3>1, OwnByte
    <3>2. CASE j # i
      BY <2>1, <3>2, OtherByte
    <3> QED
      BY <3>1, <3>2
  <2> QED
    BY <2>1 DEF BytesInv
<1>7. ASSUME NEW u \in Writers PROVE WriterInv(u)'
  <2>1. WriterInv(u)
    BY DEF ContentInv
  <2>2. CASE u # t
    <3>1. wr'[u] = wr[u]
      BY <1>2, <2>2 DEF CallNow
    <3> QED
      BY <1>3, <2>1, <3>1 DEF WriterInv
  <2>3. CASE u = t
    <3>1. wr'[t].i = wr[t].i /\ wr'[t].left = wr[t].left /\ wr'[t].n = wr[t].n /\ wr'[t].tot = wr[t].tot + m
      BY <1>2 DEF CallNow, Copying
    <3>2. wr[t].tot + m <= wr[t].n /\ ~(wr[t].n = 0)
      BY SMTT(30) DEF Copying
    <3> QED
      BY <1>3, <2>1, <2>3, <3>1, <3>2 DEF WriterInv
  <2> QED
    BY <2>2, <2>3
<1>8. ASSUME NEW j \in Inodes PROVE FileInv(j)'
  <2>1. FileInv(j) /\ flock[j] \in Writers \cup {NoWriter}
    BY <1>1 DEF ContentInv, ContentTypes
  <2>2. flock[j] # NoWriter => wr'[flock[j]].i = wr[flock[j]].i /\ wr'[flock[j]].n = wr[flock[j]].n
    <3>1. wr'[t].i = wr[t].i /\ wr'[t].n = wr[t].n /\ \A u \in Writers \ {t} : wr'[u] = wr[u]
      BY <1>2 DEF CallNow, Copying
    <3> QED
      BY <2>1, <3>1
  <2> QED
    BY <1>3, <2>1, <2>2 DEF FileInv
<1> QED
  BY <1>4, <1>5, <1>6, <1>7, <1>8 DEF ContentInv

(* What the turn of writei's loop does to the blocks: they are zeroed, the *)
(* data is copied, and then the address is put in the indirect block.      *)
TurnBlocks(i, q, b, e, N, g, z, y, h) ==
  /\ z = bzero(N)
  /\ y = [z EXCEPT ![b] = [z[b] EXCEPT !.bytes = g]]
  /\ h = [y[e].a EXCEPT ![q - NDIRECT] = b]
  /\ blocks' = IF q < NDIRECT THEN y ELSE [y EXCEPT ![e] = [y[e] EXCEPT !.a = h]]
  /\ bitmap' = bitmap \cup N
  /\ addrs' = [addrs EXCEPT ![i] = IF q < NDIRECT THEN [addrs[i] EXCEPT ![q] = b] ELSE [addrs[i] EXCEPT ![NDIRECT] = e]]

LEMMA BlocksTurn ==
  ASSUME ContentTypes, NEW i \in Inodes, NEW q \in 0 .. MAXFILE - 1, NEW b, NEW e, NEW N, Chosen(i, q, b, e, N),
         NEW g \in [0 .. BSIZE - 1 -> Nat], NEW z, NEW y, NEW h, TurnBlocks(i, q, b, e, N, g, z, y, h)
  PROVE  Turn(i, q, b, e, N, g)
<1> USE DEF TurnBlocks
<1>1. b \in Block /\ blocks \in [Block -> BlockRec] /\ N \subseteq Block /\ b \in 0 .. NBLOCKS
  BY ContentNumbers DEF Chosen, ContentTypes
<1>3. z \in [Block -> BlockRec] /\ \A c \in Block : z[c] = IF c \in N THEN ZeroBlock ELSE blocks[c]
  BY <1>1, ZeroIs DEF bzero
<1>4. /\ y \in [Block -> BlockRec] /\ y[b].bytes = g /\ \A c \in Block : y[c].a = z[c].a
      /\ \A c \in Block \ {b} : y[c] = z[c]
  <2>1. BytesPut(z, b, g, y)
    BY <1>1, <1>3, PutBytes
  <2> QED
    BY <2>1 DEF BytesPut
<1>5. /\ \A c \in Block \ (N \cup {b}) : y[c].bytes = blocks[c].bytes
      /\ \A c \in Block \ N : y[c].a = blocks[c].a
      /\ \A c \in N : y[c].a = ZeroBlock.a
  BY <1>1, <1>3, <1>4
<1>6. CASE q < NDIRECT
  <2>1. blocks' = y
    BY <1>6
  <2> QED
    BY <1>4, <1>5, <1>6, <2>1 DEF Turn
<1>7. CASE ~(q < NDIRECT)
  <2>1. e \in Block /\ q - NDIRECT \in 0 .. NINDIRECT - 1
    <3>1. q - NDIRECT \in 0 .. NINDIRECT - 1
      BY SMTT(30), <1>7, ContentNumbers
    <3> QED
      BY <1>7, <3>1 DEF Chosen
  <2>2. y[e] \in BlockRec /\ y[e].a \in [0 .. NINDIRECT - 1 -> 0 .. NBLOCKS]
    <3>1. y[e] \in BlockRec
      BY <1>4, <2>1
    <3> QED
      BY SMTT(30), <3>1 DEF BlockRec
  <2>3. PICK d : d = q - NDIRECT
    OBVIOUS
  <2>4. h \in [0 .. NINDIRECT - 1 -> 0 .. NBLOCKS] /\ \A k \in 0 .. NINDIRECT - 1 : h[k] = IF k = d THEN b ELSE y[e].a[k]
    <3>1. h = [y[e].a EXCEPT ![d] = b] /\ d \in 0 .. NINDIRECT - 1
      BY <2>1, <2>3
    <3>2. PICK v : v = y[e].a
      OBVIOUS
    <3>3. v \in [0 .. NINDIRECT - 1 -> 0 .. NBLOCKS] /\ h = [v EXCEPT ![d] = b]
      BY <2>2, <3>1, <3>2
    <3> QED
      BY <1>1, <3>1, <3>2, <3>3
  <2>5. blocks' = [y EXCEPT ![e] = [y[e] EXCEPT !.a = h]]
    BY <1>7
  <2>6. /\ blocks' \in [Block -> BlockRec] /\ blocks'[e].a = h /\ \A c \in Block : blocks'[c].bytes = y[c].bytes
        /\ \A c \in Block \ {e} : blocks'[c] = y[c]
    <3>1. AddressPut(y, e, h, blocks')
      BY <1>4, <2>1, <2>4, <2>5, PutAddress
    <3> QED
      BY <3>1 DEF AddressPut
  <2>7. \A k \in 0 .. NINDIRECT - 1 : y[e].a[k] = IF e \in N THEN 0 ELSE blocks[e].a[k]
    <3>1. CASE e \in N
      <4>1. y[e].a = ZeroBlock.a
        BY <1>5, <3>1
      <4> QED
        BY <3>1, <4>1, ZeroIs
    <3>2. CASE e \notin N
      <4>1. y[e].a = blocks[e].a
        BY <1>5, <2>1, <3>2
      <4> QED
        BY SMTT(30), <3>2, <4>1
    <3> QED
      BY <3>1, <3>2
  <2>8. \A k \in 0 .. NINDIRECT - 1 : blocks'[e].a[k] = IF k = q - NDIRECT THEN b ELSE IF e \in N THEN 0 ELSE blocks[e].a[k]
    <3>1. ASSUME NEW k \in 0 .. NINDIRECT - 1
          PROVE  blocks'[e].a[k] = IF k = q - NDIRECT THEN b ELSE IF e \in N THEN 0 ELSE blocks[e].a[k]
      <4>1. blocks'[e].a[k] = IF k = d THEN b ELSE y[e].a[k]
        BY <2>4, <2>6
      <4>2. y[e].a[k] = IF e \in N THEN 0 ELSE blocks[e].a[k]
        BY <2>7
      <4> QED
        BY <2>3, <4>1, <4>2
    <3> QED
      BY <3>1
  <2>9. \A c \in Block \ (N \cup {b}) : blocks'[c].bytes = blocks[c].bytes
    BY <1>5, <2>6
  <2>10. \A c \in Block \ N : (q < NDIRECT \/ c # e) => blocks'[c].a = blocks[c].a
    BY <1>5, <1>7, <2>6
  <2>11. blocks'[b].bytes = g
    BY <1>1, <1>4, <2>6
  <2> QED
    BY <2>6, <2>8, <2>9, <2>10, <2>11 DEF Turn
<1> QED
  BY <1>6, <1>7

LEMMA MapSame ==
  ASSUME NEW i, addrs'[i] = addrs[i], blocks' = blocks
  PROVE  \A q : Mapped(i, q)' = Mapped(i, q) /\ Hold(i, q)' = Hold(i, q)
<1>1. \A q : Mapped(i, q)' = Mapped(i, q)
  BY DEF Mapped
<1>2. \A q : Hold(i, q)' = Hold(i, q)
  BY <1>1 DEF Hold
<1> QED
  BY <1>1, <1>2

LEMMA OwnSame ==
  ASSUME addrs' = addrs, blocks' = blocks, bitmap' = bitmap, OwnInv
  PROVE  OwnInv'
<1>1. \A i, k : Hold(i, k)' = Hold(i, k)
  BY MapSame
<1>2. HeldInUse'
  BY <1>1 DEF OwnInv, HeldInUse
<1>3. HeldOnce'
  BY SMTT(30), <1>1 DEF OwnInv, HeldOnce
<1>4. UsedIsHeld'
  BY <1>1 DEF OwnInv, UsedIsHeld
<1> QED
  BY <1>2, <1>3, <1>4 DEF OwnInv

(* Where neither the file nor the write into it changes, its bytes do not. *)
CallSame(i) ==
  /\ foff'[i] = foff[i] /\ fsize'[i] = fsize[i] /\ expected'[i] = expected[i] /\ DoneIn(i)' = DoneIn(i)
  /\ DoneIn(i) # 0 => wr'[flock'[i]].left = wr[flock[i]].left

LEMMA CallIsSame ==
  ASSUME NEW i, foff'[i] = foff[i], fsize'[i] = fsize[i], expected'[i] = expected[i], flock'[i] = flock[i],
         flock[i] # NoWriter => wr'[flock[i]] = wr[flock[i]]
  PROVE  CallSame(i)
<1>1. DoneIn(i)' = DoneIn(i)
  BY DEF DoneIn
<1>2. DoneIn(i) # 0 => wr'[flock'[i]].left = wr[flock[i]].left
  BY DEF DoneIn
<1> QED
  BY <1>1, <1>2 DEF CallSame

LEMMA ByteSame ==
  ASSUME ContentInv, NEW i \in Inodes, addrs'[i] = addrs[i], blocks' = blocks, CallSame(i), NEW x \in Nat, ThereIs(i, x)'
  PROVE  ByteIs(i, x, Want(i, x))'
<1>1. DoneIn(i)' = DoneIn(i) /\ foff'[i] = foff[i] /\ fsize'[i] = fsize[i] /\ expected'[i] = expected[i]
  BY DEF CallSame
<1>2. ThereIs(i, x)
  BY <1>1 DEF ThereIs
<1>3. ByteIs(i, x, Want(i, x))
  BY <1>2 DEF ContentInv, BytesInv
<1>4. Want(i, x)' = Want(i, x)
  <2>1. CASE DoneIn(i) # 0
    BY <1>1, <2>1 DEF CallSame, Want
  <2>2. CASE DoneIn(i) = 0
    <3>1. foff[i] \in Nat
      BY DEF ContentInv, ContentTypes
    <3>2. ~(foff[i] <= x /\ x < foff[i] + DoneIn(i))
      BY SMTT(30), <2>2, <3>1
    <3> QED
      BY <1>1, <3>2 DEF Want
  <2> QED
    BY <2>1, <2>2
<1>5. Mapped(i, x \div BSIZE)' = Mapped(i, x \div BSIZE)
  BY MapSame
<1> QED
  BY <1>3, <1>4, <1>5 DEF ByteIs

LEMMA ContentSame ==
  ASSUME ContentInv, UNCHANGED <<bitmap, blocks, addrs, fsize, foff, flock, wr, expected>>
  PROVE  ContentInv'
<1>1. /\ bitmap' = bitmap /\ blocks' = blocks /\ addrs' = addrs /\ fsize' = fsize /\ foff' = foff /\ flock' = flock
      /\ wr' = wr /\ expected' = expected
  OBVIOUS
<1>2. ContentTypes'
  BY <1>1 DEF ContentInv, ContentTypes
<1>3. OwnInv'
  BY <1>1, OwnSame DEF ContentInv
<1>4. BytesInv'
  <2>1. \A i \in Inodes : CallSame(i)
    BY <1>1, CallIsSame
  <2> QED
    BY <1>1, <2>1, ByteSame DEF BytesInv
<1>5. \A u \in Writers : WriterInv(u)'
  BY <1>1 DEF ContentInv, WriterInv
<1>6. \A i \in Inodes : FileInv(i)'
  BY <1>1 DEF ContentInv, FileInv
<1> QED
  BY <1>2, <1>3, <1>4, <1>5, <1>6 DEF ContentInv

-----------------------------------------------------------------------------
(* writei's turn, with names for what it computes *)
TurnStep(t, i, o, q, m, N, b, e, g, z, y, h) ==
  /\ i = wr[t].i /\ o = foff[i] + wr[t].tot /\ q = o \div BSIZE
  /\ m = Min({wr[t].n - wr[t].tot, BSIZE - (o % BSIZE)})
  /\ N = {balloc(k) : k \in DOMAIN Needs(i, q)} /\ b = bmap(i, q) /\ e = IndirectFor(i, q) /\ z = bzero(N)
  /\ g = [k \in DOMAIN z[b].bytes |-> IF k \in (o % BSIZE) .. (o % BSIZE) + m - 1
                                      THEN wr[t].left[wr[t].tot + 1 + k - (o % BSIZE)] ELSE z[b].bytes[k]]
  /\ y = [z EXCEPT ![b] = [z[b] EXCEPT !.bytes = g]]
  /\ h = [y[e].a EXCEPT ![q - NDIRECT] = b]
  /\ ~(Len(Needs(i, q)) > Cardinality(FreeBlocks))
  /\ bitmap' = bitmap \cup N
  /\ blocks' = IF q < NDIRECT THEN y ELSE [y EXCEPT ![e] = [y[e] EXCEPT !.a = h]]
  /\ addrs' = [addrs EXCEPT ![i] = IF q < NDIRECT THEN [addrs[i] EXCEPT ![q] = b] ELSE [addrs[i] EXCEPT ![NDIRECT] = e]]
  /\ wr' = [wr EXCEPT ![t] = [wr[t] EXCEPT !.tot = wr[t].tot + m]]
  /\ UNCHANGED <<fsize, foff, flock, expected>>

LEMMA WriteBlockIs ==
  ASSUME NEW t \in Writers, WriteBlock(t)
  PROVE  /\ wr[t].n > 0 /\ wr[t].tot < wr[t].n
         /\ \/ UNCHANGED <<bitmap, blocks, addrs, fsize, foff, flock, wr, expected>>
            \/ \E i, o, q, m, N, b, e, g, z, y, h : TurnStep(t, i, o, q, m, N, b, e, g, z, y, h)
<1> DEFINE i == wr[t].i
           o == foff[i] + wr[t].tot
           q == o \div BSIZE
           m == Min({wr[t].n - wr[t].tot, BSIZE - (o % BSIZE)})
           N == {balloc(k) : k \in DOMAIN Needs(i, q)}
           b == bmap(i, q)
           e == IndirectFor(i, q)
           z == bzero(N)
           g == [k \in DOMAIN z[b].bytes |-> IF k \in (o % BSIZE) .. (o % BSIZE) + m - 1
                                      THEN wr[t].left[wr[t].tot + 1 + k - (o % BSIZE)] ELSE z[b].bytes[k]]
           y == [z EXCEPT ![b] = [z[b] EXCEPT !.bytes = g]]
           h == [y[e].a EXCEPT ![q - NDIRECT] = b]
<1>1. wr[t].n > 0 /\ wr[t].tot < wr[t].n
  BY DEF WriteBlock
<1>2. CASE Len(Needs(i, q)) > Cardinality(FreeBlocks)
  BY <1>2 DEF WriteBlock
<1>3. CASE ~(Len(Needs(i, q)) > Cardinality(FreeBlocks))
  <2>1. bitmap' = bitmap \cup N
    BY <1>3 DEF WriteBlock
  <2>2. blocks' = IF q < NDIRECT THEN y ELSE [y EXCEPT ![e] = [y[e] EXCEPT !.a = h]]
    BY <1>3 DEF WriteBlock
  <2>3. addrs' = [addrs EXCEPT ![i] = IF q < NDIRECT THEN [addrs[i] EXCEPT ![q] = b] ELSE [addrs[i] EXCEPT ![NDIRECT] = e]]
    BY <1>3 DEF WriteBlock
  <2>4. wr' = [wr EXCEPT ![t] = [wr[t] EXCEPT !.tot = wr[t].tot + m]]
    BY <1>3 DEF WriteBlock
  <2>5. UNCHANGED <<fsize, foff, flock, expected>>
    BY DEF WriteBlock
  <2>6. TurnStep(t, i, o, q, m, N, b, e, g, z, y, h)
    BY <1>3, <2>1, <2>2, <2>3, <2>4, <2>5 DEF TurnStep
  <2> HIDE DEF i, o, q, m, N, b, e, g, z, y, h
  <2> QED
    BY <1>1, <2>6
<1> QED
  BY <1>1, <1>2, <1>3

LEMMA TurnStepKeeps ==
  ASSUME ContentInv, NEW t \in Writers, wr[t].n > 0, wr[t].tot < wr[t].n,
         NEW i, NEW o, NEW q, NEW m, NEW N, NEW b, NEW e, NEW g, NEW z, NEW y, NEW h,
         TurnStep(t, i, o, q, m, N, b, e, g, z, y, h)
  PROVE  ContentInv'
<1>1. i = wr[t].i /\ Copying(t, wr[t].i)
  BY CopyingIs DEF TurnStep
<1>2. Copying(t, i)
  BY <1>1
<1>3. /\ t \in Writers /\ i \in Inodes /\ wr[t].tot \in Nat /\ wr[t].n \in Nat /\ wr[t].left \in Seq(Nat) /\ foff[i] \in Nat
      /\ wr[t].n <= Len(wr[t].left) /\ foff[i] + wr[t].n <= MAXFILE * BSIZE
  BY <1>2 DEF Copying
<1>4. o = foff[i] + wr[t].tot /\ q = o \div BSIZE
  BY DEF TurnStep
<1>5. o \in Nat /\ o < MAXFILE * BSIZE
  <2>1. PICK k : k = MAXFILE * BSIZE
    OBVIOUS
  <2>2. k \in Nat /\ foff[i] + wr[t].n <= k
    BY <1>3, <2>1, ContentNumbers
  <2>3. o \in Nat /\ o < k
    BY SMTT(30), <1>3, <1>4, <2>2
  <2> QED
    BY <2>1, <2>3
<1>6. q \in 0 .. MAXFILE - 1
  BY <1>4, <1>5, ContentNumbers, BlockBelow
<1>7. PICK r : r = o % BSIZE
  OBVIOUS
<1>8. r \in 0 .. BSIZE - 1
  BY <1>5, <1>7, ContentNumbers, InBlock
<1>9. m \in Nat /\ m <= BSIZE - r /\ m <= wr[t].n - wr[t].tot
  <2>1. m = Min({wr[t].n - wr[t].tot, BSIZE - r})
    BY <1>7 DEF TurnStep
  <2>2. PICK c : c = wr[t].n - wr[t].tot
    OBVIOUS
  <2>3. PICK d : d = BSIZE - r
    OBVIOUS
  <2>4. c \in Int /\ d \in Int /\ c > 0 /\ d > 0
    BY SMTT(30), <1>3, <1>8, <2>2, <2>3, ContentNumbers
  <2>5. m = Min({c, d})
    BY <2>1, <2>2, <2>3
  <2>6. m \in {c, d} /\ m <= c /\ m <= d /\ m \in Int
    BY <2>4, <2>5, Smaller
  <2>7. m \in Nat
    BY SMTT(30), <2>4, <2>6
  <2> QED
    BY <2>2, <2>3, <2>6, <2>7
<1>10. ContentTypes
  BY DEF ContentInv
<1>11. Chosen(i, q, b, e, N)
  <2>1. ~(Len(Needs(i, q)) > Cardinality(FreeBlocks)) /\ N = {balloc(k) : k \in DOMAIN Needs(i, q)} /\ b = bmap(i, q) /\ e = IndirectFor(i, q)
    BY DEF TurnStep
  <2>2. Chosen(i, q, bmap(i, q), IndirectFor(i, q), {balloc(k) : k \in DOMAIN Needs(i, q)})
    BY <1>3, <1>6, <1>10, <2>1, BmapChooses
  <2> QED
    BY <2>1, <2>2
<1>12. b \in Block /\ z = bzero(N)
  BY <1>11 DEF Chosen, TurnStep
<1>13. z[b] \in BlockRec /\ (b \notin N => z[b] = blocks[b])
  BY <1>10, <1>12, ZeroIs DEF bzero, ContentTypes
<1>14. z[b].bytes \in [0 .. BSIZE - 1 -> Nat]
  BY SMTT(30), <1>13 DEF BlockRec
<1>15. DOMAIN z[b].bytes = 0 .. BSIZE - 1
  BY <1>14
<1>16. g = [k \in 0 .. BSIZE - 1 |-> IF k \in r .. r + m - 1 THEN wr[t].left[wr[t].tot + 1 + k - r] ELSE z[b].bytes[k]]
  BY <1>7, <1>15 DEF TurnStep
<1>17. \A k \in r .. r + m - 1 : wr[t].left[wr[t].tot + 1 + k - r] \in Nat
  <2>1. Len(wr[t].left) \in Nat
    BY <1>3, LenProperties
  <2>2. \A k \in r .. r + m - 1 : wr[t].tot + 1 + k - r \in 1 .. Len(wr[t].left)
    <3>1. PICK c, n, l : c = wr[t].tot /\ n = wr[t].n /\ l = Len(wr[t].left)
      OBVIOUS
    <3>2. c \in Nat /\ n \in Nat /\ l \in Nat /\ m \in Nat /\ n <= l /\ m <= n - c /\ r \in Nat
      <4>1. r \in Nat
        BY SMTT(30), <1>8
      <4> QED
        BY <1>3, <1>9, <2>1, <3>1, <4>1
    <3>3. \A k \in r .. r + m - 1 : c + 1 + k - r \in 1 .. l
      BY SMTT(30), <3>2
    <3> QED
      BY <3>1, <3>3
  <2> QED
    BY <1>3, <2>2, ElementOfSeq
<1>18. g \in [0 .. BSIZE - 1 -> Nat]
  BY <1>14, <1>16, <1>17
<1>19. Copied(g, b, N, r, m, t)
  <2>1. \A k \in 0 .. BSIZE - 1 : g[k] = IF k \in r .. r + m - 1 THEN wr[t].left[wr[t].tot + 1 + k - r] ELSE z[b].bytes[k]
    BY <1>16
  <2> QED
    BY <1>13, <2>1 DEF Copied
<1>20. Turn(i, q, b, e, N, g)
  <2>1. TurnBlocks(i, q, b, e, N, g, z, y, h)
    BY DEF TurnStep, TurnBlocks
  <2> QED
    BY <1>3, <1>6, <1>10, <1>11, <1>18, <2>1, BlocksTurn
<1>21. Advanced(t, m)
  BY DEF TurnStep, Advanced
<1>22. m <= BSIZE - (o % BSIZE) /\ Copied(g, b, N, o % BSIZE, m, t)
  BY <1>7, <1>9, <1>19
<1> QED
  BY <1>2, <1>4, <1>5, <1>6, <1>9, <1>11, <1>20, <1>21, <1>22, TurnKeeps

LEMMA WriteBlockKeeps ==
  ASSUME ContentInv, NEW t \in Writers, WriteBlock(t)
  PROVE  ContentInv'
<1>1. wr[t].n > 0 /\ wr[t].tot < wr[t].n
  BY WriteBlockIs
<1>2. CASE UNCHANGED <<bitmap, blocks, addrs, fsize, foff, flock, wr, expected>>
  BY <1>2, ContentSame
<1>3. CASE \E i, o, q, m, N, b, e, g, z, y, h : TurnStep(t, i, o, q, m, N, b, e, g, z, y, h)
  <2>1. PICK i, o, q, m, N, b, e, g, z, y, h : TurnStep(t, i, o, q, m, N, b, e, g, z, y, h)
    BY <1>3
  <2> QED
    BY <1>1, <2>1, TurnStepKeeps
<1> QED
  BY <1>2, <1>3, WriteBlockIs

-----------------------------------------------------------------------------
(* The other steps *)

LEMMA NoWriteIs == NoWrite \in WriteRec /\ NoWrite.i = 0 /\ NoWrite.left = <<>> /\ NoWrite.n = 0 /\ NoWrite.tot = 0
<1>1. NoWrite.i = 0 /\ NoWrite.left = <<>> /\ NoWrite.n = 0 /\ NoWrite.tot = 0
  BY SMTT(30) DEF NoWrite
<1>2. <<>> \in Seq(Nat)
  BY EmptySeq
<1> QED
  BY <1>1, <1>2, ContentNumbers DEF NoWrite, WriteRec

CallIs(v, i, s) == v \in WriteRec /\ v.i = i /\ v.left = s /\ v.n = 0 /\ v.tot = 0

LEMMA NewCall ==
  ASSUME NEW i \in Inodes, NEW s \in Seq(Nat), NEW v, v = [NoWrite EXCEPT !.i = i, !.left = s]
  PROVE  CallIs(v, i, s)
<1>1. v.i = i /\ v.left = s /\ v.n = 0 /\ v.tot = 0
  BY SMTT(30) DEF NoWrite
<1>2. PICK y : y = [NoWrite EXCEPT !.i = i]
  OBVIOUS
<1>3. y \in WriteRec
  BY <1>2, NoWriteIs DEF WriteRec
<1>4. v = [y EXCEPT !.left = s]
  BY <1>2
<1>5. v \in WriteRec
  BY <1>3, <1>4 DEF WriteRec
<1> QED
  BY <1>1, <1>5 DEF CallIs

(* A call that is not in a chunk begins or ends. *)
LEMMA CallChanges ==
  ASSUME ContentInv, NEW t \in Writers, wr[t].n = 0, NEW v \in WriteRec, wr' = [wr EXCEPT ![t] = v],
         v.n = 0, v.tot = 0, v.left # <<>> => v.i \in Inodes,
         UNCHANGED <<bitmap, blocks, addrs, fsize, foff, flock, expected>>
  PROVE  ContentInv'
<1>1. /\ bitmap' = bitmap /\ blocks' = blocks /\ addrs' = addrs /\ fsize' = fsize /\ foff' = foff /\ flock' = flock
      /\ expected' = expected
  OBVIOUS
<1>2. ContentTypes /\ wr \in [Writers -> WriteRec]
  BY DEF ContentInv, ContentTypes
<1>3. wr' \in [Writers -> WriteRec] /\ wr'[t] = v /\ \A u \in Writers \ {t} : wr'[u] = wr[u]
  BY <1>2
<1>4. ~(0 > 0)
  BY SMTT(30)
<1>5. \A j \in Inodes : flock[j] # t /\ (flock[j] # NoWriter => flock[j] \in Writers \ {t})
  <2>1. ASSUME NEW j \in Inodes, flock[j] = t PROVE FALSE
    <3>1. t # NoWriter /\ FileInv(j)
      BY ContentAssumption DEF ContentInv
    <3> QED
      BY <1>4, <2>1, <3>1 DEF FileInv
  <2> QED
    BY <1>2, <2>1 DEF ContentTypes
<1>6. ContentTypes'
  BY <1>1, <1>2, <1>3 DEF ContentTypes
<1>7. OwnInv'
  BY <1>1, OwnSame DEF ContentInv
<1>8. BytesInv'
  <2>1. ASSUME NEW j \in Inodes PROVE CallSame(j)
    <3>1. flock[j] # NoWriter => wr'[flock[j]] = wr[flock[j]]
      BY <1>3, <1>5
    <3> QED
      BY <1>1, <3>1, CallIsSame
  <2> QED
    BY <1>1, <2>1, ByteSame DEF BytesInv
<1>9. ASSUME NEW u \in Writers PROVE WriterInv(u)'
  <2>1. CASE u = t
    BY <1>3, <1>4, <2>1 DEF WriterInv
  <2>2. CASE u # t
    <3>1. wr'[u] = wr[u] /\ WriterInv(u)
      BY <1>3, <2>2 DEF ContentInv
    <3> QED
      BY <1>1, <3>1 DEF WriterInv
  <2> QED
    BY <2>1, <2>2
<1>10. ASSUME NEW j \in Inodes PROVE FileInv(j)'
  <2>1. flock[j] # NoWriter => wr'[flock[j]] = wr[flock[j]]
    BY <1>3, <1>5
  <2>2. FileInv(j)
    BY DEF ContentInv
  <2> QED
    BY <1>1, <2>1, <2>2 DEF FileInv
<1> QED
  BY <1>6, <1>7, <1>8, <1>9, <1>10 DEF ContentInv

LEMMA SysWriteKeeps ==
  ASSUME ContentInv, NEW t \in Writers, NEW i \in Inodes, NEW s \in WriteData, sys_write(t, i, s)
  PROVE  ContentInv'
<1>1. PICK v : v = [NoWrite EXCEPT !.i = i, !.left = s]
  OBVIOUS
<1>2. s \in Seq(Nat)
  BY ContentAssumption
<1>3. v \in WriteRec /\ v.i = i /\ v.left = s /\ v.n = 0 /\ v.tot = 0
  <2>1. CallIs(v, i, s)
    BY <1>1, <1>2, NewCall
  <2> QED
    BY <2>1 DEF CallIs
<1>4. /\ wr[t] = NoWrite /\ wr' = [wr EXCEPT ![t] = v]
      /\ UNCHANGED <<bitmap, blocks, addrs, fsize, foff, flock, expected>>
  BY <1>1 DEF sys_write
<1>5. wr[t].n = 0
  BY <1>4, NoWriteIs
<1> QED
  BY <1>3, <1>4, <1>5, CallChanges

LEMMA StartChunkKeeps ==
  ASSUME ContentInv, NEW t \in Writers, StartChunk(t)
  PROVE  ContentInv'
<1>1. PICK i, n : i = wr[t].i /\ n = Min({Len(wr[t].left), MAXCHUNK})
  OBVIOUS
<1>2. /\ wr[t].left # <<>> /\ wr[t].n = 0 /\ flock[i] = NoWriter
      /\ UNCHANGED <<bitmap, blocks, addrs, fsize, foff, expected>>
  BY <1>1 DEF StartChunk
<1>3. CASE foff[i] > fsize[i] \/ foff[i] + n > MAXFILE * BSIZE
  <2>1. wr' = [wr EXCEPT ![t] = NoWrite] /\ flock' = flock
    BY <1>1, <1>3 DEF StartChunk
  <2> QED
    BY <1>2, <2>1, NoWriteIs, CallChanges
<1>4. CASE ~(foff[i] > fsize[i] \/ foff[i] + n > MAXFILE * BSIZE)
  <2>1. wr' = [wr EXCEPT ![t] = [wr[t] EXCEPT !.n = n]] /\ flock' = [flock EXCEPT ![i] = t]
    BY <1>1, <1>4 DEF StartChunk
  <2>2. ContentTypes /\ wr[t] \in WriteRec /\ WriterInv(t) /\ t # NoWriter
    BY ContentAssumption DEF ContentInv, ContentTypes
  <2>3. wr[t].left \in Seq(Nat) /\ wr[t].tot = 0 /\ i \in Inodes
    <3>1. wr[t].left \in Seq(Nat)
      BY SMTT(30), <2>2 DEF WriteRec
    <3> QED
      BY <1>1, <1>2, <2>2, <3>1 DEF WriterInv
  <2>4. n \in Nat /\ n > 0 /\ n <= Len(wr[t].left)
    <3>1. Len(wr[t].left) \in Nat /\ Len(wr[t].left) # 0
      BY <1>2, <2>3, LenProperties, EmptySeq
    <3>2. PICK l : l = Len(wr[t].left)
      OBVIOUS
    <3>3. l \in Int /\ l > 0 /\ MAXCHUNK \in Int /\ MAXCHUNK > 0
      BY SMTT(30), <3>1, <3>2, ContentNumbers
    <3>4. n \in {l, MAXCHUNK} /\ n <= l
      BY <1>1, <3>2, <3>3, Smaller
    <3>5. n \in Nat /\ n > 0
      BY SMTT(30), <3>3, <3>4
    <3> QED
      BY <3>2, <3>4, <3>5
  <2>5. foff[i] + n <= MAXFILE * BSIZE
    <3>1. foff[i] \in Nat /\ MAXFILE * BSIZE \in Nat
      BY <2>2, <2>3, ContentNumbers DEF ContentTypes
    <3> QED
      BY SMTT(30), <1>4, <2>4, <3>1
  <2>6. PICK v : v = [wr[t] EXCEPT !.n = n]
    OBVIOUS
  <2>7. v \in WriteRec
    BY <2>2, <2>4, <2>6 DEF WriteRec
  <2>8. v.i = i /\ v.left = wr[t].left /\ v.n = n /\ v.tot = 0
    BY SMTT(30), <1>1, <2>2, <2>3, <2>6 DEF WriteRec
  <2>9. wr' = [wr EXCEPT ![t] = v]
    BY <2>1, <2>6
  <2>10. wr' \in [Writers -> WriteRec] /\ wr'[t] = v /\ \A u \in Writers \ {t} : wr'[u] = wr[u]
    BY <2>2, <2>7, <2>9 DEF ContentTypes
  <2>11. /\ flock' \in [Inodes -> Writers \cup {NoWriter}] /\ flock'[i] = t
         /\ \A j \in Inodes \ {i} : flock'[j] = flock[j]
    BY <2>1, <2>2, <2>3 DEF ContentTypes
  <2>12. \A j \in Inodes : flock[j] # t
    <3>1. ASSUME NEW j \in Inodes, flock[j] = t PROVE FALSE
      <4>1. FileInv(j) /\ ~(0 > 0)
        BY SMTT(30) DEF ContentInv
      <4> QED
        BY <1>2, <2>2, <3>1, <4>1 DEF FileInv
    <3> QED
      BY <3>1
  <2>13. \A j \in Inodes \ {i} : flock[j] # NoWriter => wr'[flock[j]] = wr[flock[j]]
    BY <2>2, <2>10, <2>12 DEF ContentTypes
  <2>14. ContentTypes'
    BY <1>2, <2>2, <2>10, <2>11 DEF ContentTypes
  <2>15. OwnInv'
    BY <1>2, OwnSame DEF ContentInv
  <2>16. BytesInv'
    <3>1. ASSUME NEW j \in Inodes PROVE CallSame(j)
      <4>1. CASE j # i
        BY <1>2, <2>11, <2>13, <4>1, CallIsSame
      <4>2. CASE j = i
        <5>1. DoneIn(i) = 0 /\ DoneIn(i)' = 0
          BY <1>2, <2>2, <2>8, <2>10, <2>11 DEF DoneIn
        <5> QED
          BY <1>2, <4>2, <5>1 DEF CallSame
      <4> QED
        BY <4>1, <4>2
    <3> QED
      BY <1>2, <3>1, ByteSame DEF BytesInv
  <2>17. ASSUME NEW u \in Writers PROVE WriterInv(u)'
    <3>1. CASE u = t
      <4>1. ~(n = 0) /\ 0 <= n
        BY SMTT(30), <2>4
      <4>2. /\ wr'[u].i = i /\ wr'[u].left = wr[t].left /\ wr'[u].n = n /\ wr'[u].tot = 0
        BY <2>8, <2>10, <3>1
      <4> QED
        BY <1>2, <2>3, <2>4, <2>5, <2>11, <3>1, <4>1, <4>2 DEF WriterInv
    <3>2. CASE u # t
      <4>1. wr'[u] = wr[u] /\ WriterInv(u)
        BY <2>10, <3>2 DEF ContentInv
      <4>2. wr[u].n > 0 => wr[u].i \in Inodes /\ flock'[wr[u].i] = u
        <5>1. wr[u].n > 0 => wr[u].i \in Inodes /\ flock[wr[u].i] = u
          BY <4>1 DEF WriterInv
        <5>2. u # NoWriter
          BY ContentAssumption
        <5> QED
          BY <1>2, <2>11, <5>1, <5>2
      <4> QED
        BY <1>2, <4>1, <4>2 DEF WriterInv
    <3> QED
      BY <3>1, <3>2
  <2>18. ASSUME NEW j \in Inodes PROVE FileInv(j)'
    <3>1. FileInv(j)
      BY DEF ContentInv
    <3>2. CASE j # i
      <4>1. flock'[j] = flock[j] /\ (flock[j] # NoWriter => wr'[flock[j]] = wr[flock[j]])
        BY <2>11, <2>13, <3>2
      <4> QED
        BY <1>2, <3>1, <4>1 DEF FileInv
    <3>3. CASE j = i
      BY <1>2, <2>4, <2>8, <2>10, <2>11, <3>1, <3>3 DEF FileInv
    <3> QED
      BY <3>2, <3>3
  <2> QED
    BY <2>14, <2>15, <2>16, <2>17, <2>18 DEF ContentInv
<1> QED
  BY <1>3, <1>4

LEMMA Larger ==
  ASSUME NEW a \in Nat, NEW b \in Nat
  PROVE  /\ Max({a, b}) \in Nat /\ a <= Max({a, b}) /\ b <= Max({a, b})
         /\ \A x \in Nat : x < Max({a, b}) <=> (x < a \/ x < b)
         /\ \A x \in Nat : Max({a, b}) <= x <=> (a <= x /\ b <= x)
<1>1. \E x \in {a, b} : \A y \in {a, b} : x >= y
  BY SMTT(30)
<1> DEFINE m == Max({a, b})
<1>2. m \in {a, b} /\ \A y \in {a, b} : m >= y
  BY <1>1 DEF Max
<1> HIDE DEF m
<1>3. /\ m \in Nat /\ a <= m /\ b <= m
      /\ \A x \in Nat : x < m <=> (x < a \/ x < b)
      /\ \A x \in Nat : m <= x <=> (a <= x /\ b <= x)
  BY SMTT(30), <1>2
<1> QED
  BY <1>3 DEF m

(* Writing over a sequence, or past its end *)
Overwritten(s, c, v, y) ==
  /\ y \in Seq(Nat) /\ Len(y) = Max({Len(s), c + Len(v)})
  /\ \A x \in Nat : x < Len(y) => y[x + 1] = IF c <= x /\ x < c + Len(v) THEN v[x - c + 1] ELSE s[x + 1]

LEMMA Overwrites ==
  ASSUME NEW s \in Seq(Nat), NEW c \in Nat, c <= Len(s), NEW v \in Seq(Nat), NEW y, y = Overwrite(s, c, v)
  PROVE  Overwritten(s, c, v, y)
<1>1. PICK l, k : l = Len(s) /\ k = Len(v)
  OBVIOUS
<1>2. PICK m : m = Max({l, c + k})
  OBVIOUS
<1>3. l \in Nat /\ k \in Nat /\ c <= l /\ c + k \in Nat
  <2>1. l \in Nat /\ k \in Nat /\ c <= l
    BY <1>1, LenProperties
  <2> QED
    BY SMTT(30), <2>1
<1>4. m \in Nat /\ \A x \in Nat : x < m <=> (x < l \/ x < c + k)
  BY <1>2, <1>3, Larger
<1>5. y = [x \in 1 .. m |-> IF x \in c + 1 .. c + k THEN v[x - c] ELSE s[x]]
  BY <1>1, <1>2 DEF Overwrite
<1>6. ASSUME NEW x \in 1 .. m PROVE (IF x \in c + 1 .. c + k THEN v[x - c] ELSE s[x]) \in Nat
  <2>1. CASE x \in c + 1 .. c + k
    <3>1. x - c \in 1 .. k
      BY SMTT(30), <1>3, <2>1
    <3>2. v[x - c] \in Nat
      BY <1>1, <3>1, ElementOfSeq
    <3> QED
      BY <2>1, <3>2
  <2>2. CASE x \notin c + 1 .. c + k
    <3>1. x \in Int /\ x - 1 \in Nat /\ x - 1 < m
      BY SMTT(30), <1>4
    <3>2. x - 1 < l \/ x - 1 < c + k
      BY <1>4, <3>1
    <3>3. x \in 1 .. l
      BY SMTT(30), <1>3, <2>2, <3>1, <3>2
    <3>4. s[x] \in Nat
      BY <1>1, <3>3, ElementOfSeq
    <3> QED
      BY <2>2, <3>4
  <2> QED
    BY <2>1, <2>2
<1>7. y \in [1 .. m -> Nat]
  BY <1>5, <1>6
<1>8. y \in Seq(Nat) /\ Len(y) = m
  BY <1>4, <1>7, SeqOfLen
<1>9. ASSUME NEW x \in Nat, x < m PROVE y[x + 1] = IF c <= x /\ x < c + k THEN v[x - c + 1] ELSE s[x + 1]
  <2>1. x + 1 \in 1 .. m /\ (x + 1 \in c + 1 .. c + k <=> c <= x /\ x < c + k) /\ (x + 1) - c = x - c + 1
    BY SMTT(30), <1>3, <1>4, <1>9
  <2>2. y[x + 1] = IF x + 1 \in c + 1 .. c + k THEN v[(x + 1) - c] ELSE s[x + 1]
    BY <1>5, <2>1
  <2> QED
    BY <2>1, <2>2
<1> QED
  BY <1>1, <1>2, <1>8, <1>9 DEF Overwritten

(* The end of a chunk, with names for what it computes *)
EndStep(t, i, n, s, y, v) ==
  /\ i = wr[t].i /\ n = wr[t].n /\ s = SubSeq(wr[t].left, 1, n) /\ y = Overwrite(expected[i], foff[i], s)
  /\ v = IF n = Len(wr[t].left) THEN NoWrite ELSE [NoWrite EXCEPT !.i = i, !.left = SubSeq(wr[t].left, n + 1, Len(wr[t].left))]
  /\ n > 0 /\ flock[i] = t /\ wr[t].tot = n
  /\ fsize' = [fsize EXCEPT ![i] = Max({fsize[i], foff[i] + n})]
  /\ foff' = [foff EXCEPT ![i] = foff[i] + n]
  /\ flock' = [flock EXCEPT ![i] = NoWriter]
  /\ expected' = [expected EXCEPT ![i] = y]
  /\ wr' = [wr EXCEPT ![t] = v]
  /\ bitmap' = bitmap /\ blocks' = blocks /\ addrs' = addrs

LEMMA EndChunkIs ==
  ASSUME NEW t \in Writers, EndChunk(t)
  PROVE  \E i, n, s, y, v : EndStep(t, i, n, s, y, v)
<1> DEFINE i == wr[t].i
           n == wr[t].n
           s == SubSeq(wr[t].left, 1, n)
           y == Overwrite(expected[i], foff[i], s)
           v == IF n = Len(wr[t].left) THEN NoWrite ELSE [NoWrite EXCEPT !.i = i, !.left = SubSeq(wr[t].left, n + 1, Len(wr[t].left))]
<1>1. EndStep(t, i, n, s, y, v)
  BY DEF EndChunk, EndStep
<1> HIDE DEF i, n, s, y, v
<1> QED
  BY <1>1

LEMMA EndStepKeeps ==
  ASSUME ContentInv, NEW t \in Writers, NEW i, NEW n, NEW s, NEW y, NEW v, EndStep(t, i, n, s, y, v)
  PROVE  ContentInv'
<1>1. i = wr[t].i /\ n = wr[t].n /\ n > 0 /\ wr[t].tot = n /\ wr[t].n > 0
  BY DEF EndStep
<1>2. Copying(t, i)
  <2>1. Copying(t, wr[t].i)
    BY <1>1, CopyingIs
  <2> QED
    BY <1>1, <2>1
<1>3. /\ i \in Inodes /\ n \in Nat /\ wr[t].left \in Seq(Nat) /\ foff[i] \in Nat /\ fsize[i] \in Nat
      /\ n <= Len(wr[t].left) /\ foff[i] + n <= MAXFILE * BSIZE /\ flock[i] = t
  BY <1>1, <1>2 DEF Copying
<1>4. t # NoWriter /\ \A j \in Inodes \ {i} : flock[j] # t
  BY <1>2, LockedOnce
<1>5. ContentTypes /\ FileInv(i) /\ expected[i] \in Seq(Nat)
  BY <1>3 DEF ContentInv, ContentTypes
<1>6. Len(expected[i]) = fsize[i] /\ foff[i] <= fsize[i] /\ fsize[i] <= MAXFILE * BSIZE
  BY <1>5 DEF FileInv
<1>7. s \in Seq(Nat) /\ Len(s) = n /\ \A k \in 1 .. n : s[k] = wr[t].left[k]
  <2>1. s = SubSeq(wr[t].left, 1, n)
    BY DEF EndStep
  <2> QED
    BY <1>3, <2>1, FirstPart
<1>8. Overwritten(expected[i], foff[i], s, y)
  <2>1. y = Overwrite(expected[i], foff[i], s)
    BY DEF EndStep
  <2> QED
    BY <1>3, <1>5, <1>6, <1>7, <2>1, Overwrites
<1>9. PICK f, c, k : f = fsize[i] /\ c = foff[i] /\ k = c + n
  OBVIOUS
<1>10. f \in Nat /\ c \in Nat /\ k \in Nat /\ k <= MAXFILE * BSIZE /\ f <= MAXFILE * BSIZE /\ c <= f
  <2>1. f \in Nat /\ c \in Nat
    BY <1>3, <1>9
  <2>2. k \in Nat
    BY SMTT(30), <1>3, <1>9, <2>1
  <2> QED
    BY <1>3, <1>6, <1>9, <2>1, <2>2
<1>11. PICK m : m = Max({f, k})
  OBVIOUS
<1>12. m \in Nat /\ k <= m /\ m <= MAXFILE * BSIZE /\ \A x \in Nat : x < m <=> (x < f \/ x < k)
  BY <1>10, <1>11, Larger, ContentNumbers
<1>13. /\ y \in Seq(Nat) /\ Len(y) = m
       /\ \A x \in Nat : x < m => y[x + 1] = IF c <= x /\ x < k THEN s[x - c + 1] ELSE expected[i][x + 1]
  BY <1>6, <1>7, <1>8, <1>9, <1>11 DEF Overwritten
<1>14. /\ v \in WriteRec /\ v.n = 0 /\ v.tot = 0 /\ (v.left # <<>> => v.i = i)
  <2>1. CASE n = Len(wr[t].left)
    <3>1. v = NoWrite
      BY <2>1 DEF EndStep
    <3> QED
      BY <3>1, NoWriteIs
  <2>2. CASE n # Len(wr[t].left)
    <3>1. PICK z : z = SubSeq(wr[t].left, n + 1, Len(wr[t].left))
      OBVIOUS
    <3>2. z \in Seq(Nat)
      BY <1>3, <3>1, LastPart
    <3>3. v = [NoWrite EXCEPT !.i = i, !.left = z]
      BY <2>2, <3>1 DEF EndStep
    <3>4. CallIs(v, i, z)
      BY <1>3, <3>2, <3>3, NewCall
    <3> QED
      BY <3>4 DEF CallIs
  <2> QED
    BY <2>1, <2>2
<1>15. /\ fsize' = [fsize EXCEPT ![i] = m] /\ foff' = [foff EXCEPT ![i] = k] /\ flock' = [flock EXCEPT ![i] = NoWriter]
       /\ expected' = [expected EXCEPT ![i] = y] /\ wr' = [wr EXCEPT ![t] = v]
       /\ bitmap' = bitmap /\ blocks' = blocks /\ addrs' = addrs
  BY <1>9, <1>11 DEF EndStep
<1>16. /\ fsize' \in [Inodes -> Nat] /\ fsize'[i] = m /\ \A j \in Inodes \ {i} : fsize'[j] = fsize[j]
  BY <1>3, <1>5, <1>12, <1>15 DEF ContentTypes
<1>17. /\ foff' \in [Inodes -> Nat] /\ foff'[i] = k /\ \A j \in Inodes \ {i} : foff'[j] = foff[j]
  BY <1>3, <1>5, <1>10, <1>15 DEF ContentTypes
<1>18. /\ flock' \in [Inodes -> Writers \cup {NoWriter}] /\ flock'[i] = NoWriter /\ \A j \in Inodes \ {i} : flock'[j] = flock[j]
  BY <1>3, <1>5, <1>15 DEF ContentTypes
<1>19. /\ expected' \in [Inodes -> Seq(Nat)] /\ expected'[i] = y /\ \A j \in Inodes \ {i} : expected'[j] = expected[j]
  BY <1>3, <1>5, <1>13, <1>15 DEF ContentTypes
<1>20. /\ wr' \in [Writers -> WriteRec] /\ wr'[t] = v /\ \A u \in Writers \ {t} : wr'[u] = wr[u]
  BY <1>5, <1>14, <1>15 DEF ContentTypes
<1>21. \A j \in Inodes \ {i} : flock[j] # NoWriter => wr'[flock[j]] = wr[flock[j]]
  BY <1>4, <1>5, <1>20 DEF ContentTypes
<1>22. ContentTypes'
  BY <1>5, <1>15, <1>16, <1>17, <1>18, <1>19, <1>20 DEF ContentTypes
<1>23. OwnInv'
  BY <1>15, OwnSame DEF ContentInv
<1>24. BytesInv'
  <2>1. ASSUME NEW j \in Inodes \ {i}, NEW x \in Nat, ThereIs(j, x)' PROVE ByteIs(j, x, Want(j, x))'
    <3>1. CallSame(j)
      BY <1>16, <1>17, <1>18, <1>19, <1>21, CallIsSame
    <3>2. addrs'[j] = addrs[j] /\ blocks' = blocks
      BY <1>15
    <3> QED
      BY <2>1, <3>1, <3>2, ByteSame
  <2>2. ASSUME NEW x \in Nat, ThereIs(i, x)' PROVE ByteIs(i, x, Want(i, x))'
    <3>1. DoneIn(i)' = 0 /\ DoneIn(i) = n
      BY <1>1, <1>3, <1>4, <1>18 DEF DoneIn
    <3>2. x < m \/ x < k + 0
      BY <1>16, <1>17, <2>2, <3>1 DEF ThereIs
    <3>3. x < m
      BY SMTT(30), <1>10, <1>12, <3>2
    <3>4. ThereIs(i, x)
      BY <1>9, <1>12, <3>1, <3>3 DEF ThereIs
    <3>5. Want(i, x)' = y[x + 1]
      <4>1. ~(k <= x /\ x < k + 0)
        BY SMTT(30), <1>10
      <4> QED
        BY <1>17, <1>19, <3>1, <4>1 DEF Want
    <3>6. Want(i, x) = IF c <= x /\ x < k THEN wr[t].left[x - c + 1] ELSE expected[i][x + 1]
      BY <1>3, <1>9, <3>1 DEF Want
    <3>7. (c <= x /\ x < k) => s[x - c + 1] = wr[t].left[x - c + 1]
      <4>1. (c <= x /\ x < k) => x - c + 1 \in 1 .. n
        BY SMTT(30), <1>3, <1>9, <1>10
      <4> QED
        BY <1>7, <4>1
    <3>8. Want(i, x)' = Want(i, x)
      BY <1>13, <3>3, <3>5, <3>6, <3>7
    <3>9. Mapped(i, x \div BSIZE)' = Mapped(i, x \div BSIZE)
      BY <1>15, MapSame
    <3>10. ByteIs(i, x, Want(i, x))
      BY <1>3, <3>4 DEF ContentInv, BytesInv
    <3> QED
      BY <1>15, <3>8, <3>9, <3>10 DEF ByteIs
  <2> QED
    BY <2>1, <2>2 DEF BytesInv
<1>25. ASSUME NEW u \in Writers PROVE WriterInv(u)'
  <2>1. CASE u = t
    <3>1. ~(0 > 0)
      BY SMTT(30)
    <3> QED
      BY <1>3, <1>14, <1>20, <2>1, <3>1 DEF WriterInv
  <2>2. CASE u # t
    <3>1. wr'[u] = wr[u] /\ WriterInv(u)
      BY <1>20, <2>2 DEF ContentInv
    <3>2. wr[u].n > 0 => wr[u].i \in Inodes \ {i}
      BY <1>3, <2>2, <3>1 DEF WriterInv
    <3> QED
      BY <1>17, <1>18, <3>1, <3>2 DEF WriterInv
  <2> QED
    BY <2>1, <2>2
<1>26. ASSUME NEW j \in Inodes PROVE FileInv(j)'
  <2>1. CASE j = i
    BY <1>12, <1>13, <1>16, <1>17, <1>18, <1>19, <2>1 DEF FileInv
  <2>2. CASE j # i
    <3>1. FileInv(j)
      BY DEF ContentInv
    <3>2. /\ fsize'[j] = fsize[j] /\ foff'[j] = foff[j] /\ flock'[j] = flock[j] /\ expected'[j] = expected[j]
          /\ flock[j] # NoWriter => wr'[flock[j]] = wr[flock[j]]
      BY <1>16, <1>17, <1>18, <1>19, <1>21, <2>2
    <3> QED
      BY <3>1, <3>2 DEF FileInv
  <2> QED
    BY <2>1, <2>2
<1> QED
  BY <1>22, <1>23, <1>24, <1>25, <1>26 DEF ContentInv

LEMMA EndChunkKeeps ==
  ASSUME ContentInv, NEW t \in Writers, EndChunk(t)
  PROVE  ContentInv'
<1>1. PICK i, n, s, y, v : EndStep(t, i, n, s, y, v)
  BY EndChunkIs
<1> QED
  BY <1>1, EndStepKeeps

(* Reopen and itrunc: nobody is in a write of the file. *)
LEMMA NobodyWrites ==
  ASSUME ContentInv, NEW i \in Inodes, \A t \in Writers : wr[t].i # i
  PROVE  flock[i] = NoWriter /\ DoneIn(i) = 0
<1>1. FileInv(i) /\ flock[i] \in Writers \cup {NoWriter}
  BY DEF ContentInv, ContentTypes
<1>2. flock[i] = NoWriter
  BY <1>1 DEF FileInv
<1> QED
  BY <1>2 DEF DoneIn

(* A file that nobody writes has its offset put to the start, and perhaps  *)
(* its bytes taken away.                                                   *)
LEMMA Rewound ==
  ASSUME ContentInv, NEW i \in Inodes, \A t \in Writers : wr[t].i # i,
         NEW n \in Nat, NEW s \in Seq(Nat), Len(s) = n, n <= MAXFILE * BSIZE,
         fsize' = [fsize EXCEPT ![i] = n], foff' = [foff EXCEPT ![i] = 0], expected' = [expected EXCEPT ![i] = s],
         flock' = flock, wr' = wr, blocks' = blocks,
         addrs' \in [Inodes -> [0 .. NDIRECT -> 0 .. NBLOCKS]], \A j \in Inodes \ {i} : addrs'[j] = addrs[j],
         bitmap' \subseteq Block, OwnInv',
         \A x \in Nat : x < n => ByteIs(i, x, s[x + 1])'
  PROVE  ContentInv'
<1>1. ContentTypes /\ flock[i] = NoWriter
  BY NobodyWrites DEF ContentInv
<1>2. /\ fsize' \in [Inodes -> Nat] /\ fsize'[i] = n /\ \A j \in Inodes \ {i} : fsize'[j] = fsize[j]
  BY <1>1 DEF ContentTypes
<1>3. /\ foff' \in [Inodes -> Nat] /\ foff'[i] = 0 /\ \A j \in Inodes \ {i} : foff'[j] = foff[j]
  BY <1>1, ContentNumbers DEF ContentTypes
<1>4. /\ expected' \in [Inodes -> Seq(Nat)] /\ expected'[i] = s /\ \A j \in Inodes \ {i} : expected'[j] = expected[j]
  BY <1>1 DEF ContentTypes
<1>5. ContentTypes'
  BY <1>1, <1>2, <1>3, <1>4 DEF ContentTypes
<1>6. BytesInv'
  <2>1. ASSUME NEW j \in Inodes \ {i}, NEW x \in Nat, ThereIs(j, x)' PROVE ByteIs(j, x, Want(j, x))'
    <3>1. CallSame(j)
      BY <1>2, <1>3, <1>4, CallIsSame
    <3>2. addrs'[j] = addrs[j] /\ j \in Inodes
      OBVIOUS
    <3> QED
      BY <2>1, <3>1, <3>2, ByteSame
  <2>2. ASSUME NEW x \in Nat, ThereIs(i, x)' PROVE ByteIs(i, x, Want(i, x))'
    <3>1. DoneIn(i)' = 0
      BY <1>1 DEF DoneIn
    <3>2. ~(x < 0 + 0) /\ ~(0 <= x /\ x < 0 + 0)
      BY SMTT(30)
    <3>3. x < n
      BY <1>2, <1>3, <2>2, <3>1, <3>2 DEF ThereIs
    <3>4. Want(i, x)' = s[x + 1]
      BY <1>3, <1>4, <3>1, <3>2 DEF Want
    <3>5. ByteIs(i, x, s[x + 1])'
      BY <3>3
    <3> QED
      BY <3>4, <3>5 DEF ByteIs
  <2> QED
    BY <2>1, <2>2 DEF BytesInv
<1>7. ASSUME NEW u \in Writers PROVE WriterInv(u)'
  <2>1. WriterInv(u) /\ wr[u].i # i
    BY DEF ContentInv
  <2>2. wr[u].i \in Inodes => foff'[wr[u].i] = foff[wr[u].i]
    BY <1>3, <2>1
  <2> QED
    BY <2>1, <2>2 DEF WriterInv
<1>8. ASSUME NEW j \in Inodes PROVE FileInv(j)'
  <2>1. FileInv(j)
    BY DEF ContentInv
  <2>2. CASE j = i
    <3>1. 0 <= n
      BY SMTT(30)
    <3> QED
      BY <1>1, <1>2, <1>3, <1>4, <2>2, <3>1 DEF FileInv
  <2>3. CASE j # i
    BY <1>2, <1>3, <1>4, <2>1, <2>3 DEF FileInv
  <2> QED
    BY <2>2, <2>3
<1> QED
  BY <1>5, <1>6, <1>7, <1>8 DEF ContentInv

LEMMA ReopenKeeps ==
  ASSUME ContentInv, NEW i \in Inodes, Reopen(i)
  PROVE  ContentInv'
<1>1. /\ \A t \in Writers : wr[t].i # i
      /\ foff' = [foff EXCEPT ![i] = 0] /\ bitmap' = bitmap /\ blocks' = blocks /\ addrs' = addrs /\ fsize' = fsize
      /\ flock' = flock /\ wr' = wr /\ expected' = expected
  BY DEF Reopen
<1>2. PICK n, s : n = fsize[i] /\ s = expected[i]
  OBVIOUS
<1>3. ContentTypes /\ FileInv(i) /\ n \in Nat /\ s \in Seq(Nat)
  BY <1>2 DEF ContentInv, ContentTypes
<1>4. Len(s) = n /\ n <= MAXFILE * BSIZE
  BY <1>2, <1>3 DEF FileInv
<1>5. fsize' = [fsize EXCEPT ![i] = n] /\ expected' = [expected EXCEPT ![i] = s]
  BY <1>1, <1>2, <1>3 DEF ContentTypes
<1>6. OwnInv' /\ bitmap' \subseteq Block /\ addrs' \in [Inodes -> [0 .. NDIRECT -> 0 .. NBLOCKS]] /\ \A j \in Inodes \ {i} : addrs'[j] = addrs[j]
  BY <1>1, <1>3, OwnSame DEF ContentInv, ContentTypes
<1>7. ASSUME NEW x \in Nat, x < n PROVE ByteIs(i, x, s[x + 1])'
  <2>1. DoneIn(i) = 0 /\ foff[i] \in Nat
    BY <1>1, <1>3, NobodyWrites DEF ContentTypes
  <2>2. ~(foff[i] <= x /\ x < foff[i] + 0)
    BY SMTT(30), <2>1
  <2>3. ThereIs(i, x) /\ Want(i, x) = s[x + 1]
    BY <1>2, <1>7, <2>1, <2>2 DEF ThereIs, Want
  <2>4. ByteIs(i, x, Want(i, x))
    BY <2>3 DEF ContentInv, BytesInv
  <2>5. Mapped(i, x \div BSIZE)' = Mapped(i, x \div BSIZE)
    BY <1>1, MapSame
  <2> QED
    BY <1>1, <2>3, <2>4, <2>5 DEF ByteIs
<1> QED
  BY <1>1, <1>3, <1>4, <1>5, <1>6, <1>7, Rewound

LEMMA FreedIs ==
  ASSUME ContentTypes, NEW i \in Inodes
  PROVE  Freed(i) = {Hold(i, k) : k \in BlockPlace} \ {0}
<1> DEFINE d == addrs[i][NDIRECT]
           A == {addrs[i][k] : k \in 0 .. NDIRECT}
           B == IF d = 0 THEN {} ELSE {blocks[d].a[k] : k \in 0 .. NINDIRECT - 1}
<1>1. Freed(i) = (A \cup B) \ {0}
  BY DEF Freed
<1>2. ASSUME NEW k \in BlockPlace, Hold(i, k) # 0 PROVE Hold(i, k) \in A \cup B
  <2>1. CASE k <= NDIRECT
    <3>1. Hold(i, k) = addrs[i][k] /\ k \in 0 .. NDIRECT
      BY <2>1, HoldIs, PlaceBack
    <3> QED
      BY <3>1
  <2>2. CASE ~(k <= NDIRECT)
    <3>1. Hold(i, k) = (IF d = 0 THEN 0 ELSE blocks[d].a[k - 1 - NDIRECT]) /\ k - 1 - NDIRECT \in 0 .. NINDIRECT - 1
      BY <2>2, HoldIs, PlaceBack
    <3> QED
      BY <1>2, <3>1
  <2> QED
    BY <2>1, <2>2
<1>3. ASSUME NEW k \in 0 .. NDIRECT PROVE \E l \in BlockPlace : Hold(i, l) = addrs[i][k]
  <2>1. k \in BlockPlace /\ k <= NDIRECT
    BY SMTT(30), ContentNumbers DEF BlockPlace
  <2> QED
    BY <2>1, HoldIs
<1>4. ASSUME d # 0, NEW k \in 0 .. NINDIRECT - 1 PROVE \E l \in BlockPlace : Hold(i, l) = blocks[d].a[k]
  <2>1. PICK l : l = k + 1 + NDIRECT
    OBVIOUS
  <2>2. l \in BlockPlace /\ ~(l <= NDIRECT) /\ l - 1 - NDIRECT = k
    BY SMTT(30), <2>1, ContentNumbers DEF BlockPlace
  <2>3. Hold(i, l) = IF d = 0 THEN 0 ELSE blocks[d].a[l - 1 - NDIRECT]
    BY <2>2, HoldIs
  <2> QED
    BY <1>4, <2>2, <2>3
<1> HIDE DEF d
<1>5. \A b \in (A \cup B) \ {0} : b \in {Hold(i, k) : k \in BlockPlace}
  BY <1>3, <1>4
<1> QED
  BY <1>1, <1>2, <1>5

LEMMA ItruncKeeps ==
  ASSUME ContentInv, NEW i \in Inodes, itrunc(i)
  PROVE  ContentInv'
<1>1. /\ \A t \in Writers : wr[t].i # i
      /\ bitmap' = bitmap \ Freed(i) /\ addrs' = [addrs EXCEPT ![i] = [k \in 0 .. NDIRECT |-> 0]]
      /\ fsize' = [fsize EXCEPT ![i] = 0] /\ foff' = [foff EXCEPT ![i] = 0] /\ expected' = [expected EXCEPT ![i] = <<>>]
      /\ blocks' = blocks /\ flock' = flock /\ wr' = wr
  BY DEF itrunc
<1>2. ContentTypes /\ OwnInv
  BY DEF ContentInv
<1>3. [k \in 0 .. NDIRECT |-> 0] \in [0 .. NDIRECT -> 0 .. NBLOCKS]
  BY ContentNumbers
<1>4. /\ addrs' \in [Inodes -> [0 .. NDIRECT -> 0 .. NBLOCKS]] /\ addrs'[i] = [k \in 0 .. NDIRECT |-> 0]
      /\ \A j \in Inodes \ {i} : addrs'[j] = addrs[j]
  BY <1>1, <1>2, <1>3 DEF ContentTypes
<1>5. \A k \in 0 .. NDIRECT : addrs'[i][k] = 0
  BY <1>4
<1>6. ASSUME NEW k \in BlockPlace PROVE Hold(i, k)' = 0
  <2>1. CASE k <= NDIRECT
    <3>1. Hold(i, k)' = addrs'[i][k] /\ k \in 0 .. NDIRECT
      BY <2>1, HoldIs, PlaceBack
    <3> QED
      BY <1>5, <3>1
  <2>2. CASE ~(k <= NDIRECT)
    <3>1. addrs'[i][NDIRECT] = 0
      BY <1>5, ContentNumbers
    <3> QED
      BY <2>2, <3>1, HoldIs
  <2> QED
    BY <2>1, <2>2
<1>7. \A j \in Inodes \ {i}, k \in BlockPlace : Hold(j, k)' = Hold(j, k)
  BY <1>1, <1>4, MapSame
<1>8. bitmap' = bitmap \ {Hold(i, k) : k \in BlockPlace} /\ bitmap' \subseteq Block
  <2>1. 0 \notin bitmap
    BY <1>2, ContentNumbers DEF ContentTypes
  <2>2. Freed(i) = {Hold(i, k) : k \in BlockPlace} \ {0}
    BY <1>2, FreedIs
  <2>3. bitmap \ Freed(i) = bitmap \ {Hold(i, k) : k \in BlockPlace}
    BY <2>1, <2>2
  <2> QED
    BY <1>1, <1>2, <2>3 DEF ContentTypes
<1>9. OwnInv'
  BY <1>2, <1>6, <1>7, <1>8, FreeKeeps
<1>10. <<>> \in Seq(Nat) /\ Len(<<>>) = 0 /\ 0 \in Nat /\ 0 <= MAXFILE * BSIZE
  <2>1. 0 <= MAXFILE * BSIZE
    <3>1. PICK k : k = MAXFILE * BSIZE
      OBVIOUS
    <3>2. k \in Nat
      BY <3>1, ContentNumbers
    <3>3. 0 <= k
      BY SMTT(30), <3>2
    <3> QED
      BY <3>1, <3>3
  <2> QED
    BY <2>1, EmptySeq, ContentNumbers
<1>11. \A x \in Nat : ~(x < 0)
  BY SMTT(30)
<1>12. \A x \in Nat : x < 0 => ByteIs(i, x, <<>>[x + 1])'
  BY <1>11
<1> QED
  BY <1>1, <1>4, <1>8, <1>9, <1>10, <1>12, Rewound

LEMMA ContentStart ==
  ASSUME ContentInit
  PROVE  ContentInv
<1>1. /\ bitmap = {} /\ blocks = [b \in Block |-> ZeroBlock]
      /\ addrs = [i \in Inodes |-> [k \in 0 .. NDIRECT |-> 0]]
      /\ fsize = [i \in Inodes |-> 0] /\ foff = [i \in Inodes |-> 0]
      /\ flock = [i \in Inodes |-> NoWriter] /\ wr = [t \in Writers |-> NoWrite]
      /\ expected = [i \in Inodes |-> <<>>]
  BY DEF ContentInit
<1>2. <<>> \in Seq(Nat) /\ Len(<<>>) = 0
  BY EmptySeq
<1>3. ~(0 > 0) /\ 0 <= 0 /\ (\A x \in Nat : ~(x < 0) /\ ~(x < 0 + 0)) /\ 0 <= MAXFILE * BSIZE
  BY SMTT(30), ContentNumbers
<1>4. ContentTypes
  <2>1. addrs \in [Inodes -> [0 .. NDIRECT -> 0 .. NBLOCKS]]
    BY <1>1, ContentNumbers
  <2>2. blocks \in [Block -> BlockRec]
    BY <1>1, ZeroIs
  <2>3. wr \in [Writers -> WriteRec]
    BY <1>1, NoWriteIs
  <2> QED
    BY <1>1, <1>2, <2>1, <2>2, <2>3, ContentNumbers DEF ContentTypes
<1>5. ASSUME NEW i \in Inodes, NEW k \in BlockPlace PROVE Hold(i, k) = 0
  <2>1. \A l \in 0 .. NDIRECT : addrs[i][l] = 0
    BY <1>1
  <2>2. CASE k <= NDIRECT
    <3>1. Hold(i, k) = addrs[i][k] /\ k \in 0 .. NDIRECT
      BY <2>2, HoldIs, PlaceBack
    <3> QED
      BY <2>1, <3>1
  <2>3. CASE ~(k <= NDIRECT)
    <3>1. addrs[i][NDIRECT] = 0
      BY <2>1, ContentNumbers
    <3> QED
      BY <2>3, <3>1, HoldIs
  <2> QED
    BY <2>2, <2>3
<1>6. OwnInv
  BY <1>1, <1>5 DEF OwnInv, HeldInUse, HeldOnce, UsedIsHeld
<1>7. \A i \in Inodes : flock[i] = NoWriter /\ foff[i] = 0 /\ fsize[i] = 0 /\ expected[i] = <<>> /\ DoneIn(i) = 0
  BY <1>1 DEF DoneIn
<1>8. BytesInv
  BY <1>3, <1>7 DEF BytesInv, ThereIs
<1>9. \A t \in Writers : WriterInv(t)
  <2>1. \A t \in Writers : wr[t].left = <<>> /\ wr[t].n = 0 /\ wr[t].tot = 0
    BY <1>1, NoWriteIs
  <2> QED
    BY <1>3, <2>1 DEF WriterInv
<1>10. \A i \in Inodes : FileInv(i)
  BY <1>2, <1>3, <1>7 DEF FileInv
<1> QED
  BY <1>4, <1>6, <1>8, <1>9, <1>10 DEF ContentInv

LEMMA ContentStepKeeps ==
  ASSUME ContentInv, [ContentNext]_contentVars
  PROVE  ContentInv'
<1>1. ASSUME NEW t \in Writers, StartChunk(t) PROVE ContentInv'
  BY <1>1, StartChunkKeeps
<1>2. ASSUME NEW t \in Writers, WriteBlock(t) PROVE ContentInv'
  BY <1>2, WriteBlockKeeps
<1>3. ASSUME NEW t \in Writers, EndChunk(t) PROVE ContentInv'
  BY <1>3, EndChunkKeeps
<1>4. ASSUME NEW t \in Writers, NEW i \in Inodes, NEW s \in WriteData, sys_write(t, i, s) PROVE ContentInv'
  BY <1>4, SysWriteKeeps
<1>5. ASSUME NEW i \in Inodes, Reopen(i) PROVE ContentInv'
  BY <1>5, ReopenKeeps
<1>6. ASSUME NEW i \in Inodes, itrunc(i) PROVE ContentInv'
  BY <1>6, ItruncKeeps
<1>7. CASE UNCHANGED contentVars
  <2>1. UNCHANGED <<bitmap, blocks, addrs, fsize, foff, flock, wr, expected>>
    BY <1>7 DEF contentVars
  <2> QED
    BY <2>1, ContentSame
<1> QED
  BY <1>1, <1>2, <1>3, <1>4, <1>5, <1>6, <1>7 DEF ContentNext

(* The inductive invariant of the file contents holds through all writes,  *)
(* also those of threads that share an offset, truncations and reopenings, *)
(* for any sizes of blocks, inodes, chunks and disk: each block in use is  *)
(* in one place of one inode, and each byte of a file is where bmap finds  *)
(* it, in the middle of a chunk too.                                       *)
THEOREM ContentInvariant == ContentSpec => []ContentInv
<1>1. ContentInit => ContentInv
  BY ContentStart
<1>2. ContentInv /\ [ContentNext]_contentVars => ContentInv'
  BY ContentStepKeeps
<1> QED
  BY <1>1, <1>2, PTL DEF ContentSpec

(* readi gives back what writei was given, byte for byte, whenever the     *)
(* inode is unlocked.                                                      *)
THEOREM ReadsBackWhatWasWritten == ContentSpec => []ReadsBack
<1>1. ContentInv => ReadsBack
  <2> SUFFICES ASSUME ContentInv, NEW i \in Inodes, flock[i] = NoWriter
               PROVE  readi(i) = expected[i]
    BY DEF ReadsBack
  <2>1. PICK n, s : n = fsize[i] /\ s = expected[i]
    OBVIOUS
  <2>2. n \in Nat /\ s \in Seq(Nat) /\ foff[i] \in Nat /\ Len(s) = n /\ DoneIn(i) = 0
    BY <2>1 DEF ContentInv, ContentTypes, FileInv, DoneIn
  <2>3. PICK g : g = readi(i)
    OBVIOUS
  <2>4. g = [k \in 1 .. n |-> blocks[Mapped(i, (k - 1) \div BSIZE)].bytes[(k - 1) % BSIZE]]
    BY <2>1, <2>3 DEF readi
  <2>5. ASSUME NEW k \in 1 .. n PROVE g[k] = s[k]
    <3>1. PICK x : x = k - 1
      OBVIOUS
    <3>2. x \in Nat /\ x < n /\ x + 1 = k /\ ~(foff[i] <= x /\ x < foff[i] + 0)
      BY SMTT(30), <2>2, <3>1
    <3>3. ThereIs(i, x) /\ Want(i, x) = s[k]
      BY <2>1, <2>2, <3>2 DEF ThereIs, Want
    <3>4. ByteIs(i, x, Want(i, x))
      BY <3>2, <3>3 DEF ContentInv, BytesInv
    <3>5. blocks[Mapped(i, x \div BSIZE)].bytes[x % BSIZE] = s[k]
      BY <3>3, <3>4 DEF ByteIs
    <3> QED
      BY <2>4, <3>1, <3>5
  <2>6. s \in [1 .. n -> Nat]
    BY <2>2, LenProperties
  <2>7. DOMAIN g = 1 .. n /\ DOMAIN s = 1 .. n /\ g = [k \in 1 .. n |-> g[k]] /\ s = [k \in 1 .. n |-> s[k]]
    BY <2>4, <2>6
  <2>8. g = s
    BY <2>5, <2>7
  <2> QED
    BY <2>1, <2>3, <2>8
<1> QED
  BY <1>1, ContentInvariant, PTL

(* A block is marked in use exactly when one inode has it, in one place:   *)
(* balloc never hands out a block twice, itrunc frees all it should.       *)
THEOREM BlocksAreOwnedOnce == ContentSpec => []BlocksOwnedOnce
<1>1. ContentInv => BlocksOwnedOnce
  BY OwnedOnce DEF ContentInv
<1> QED
  BY <1>1, ContentInvariant, PTL

(* itrunc gives back only blocks that are in use: bfree does not meet its  *)
(* panic "freeing free block".                                             *)
THEOREM FreesOnlyUsedBlocks == ContentSpec => [][\A i \in Inodes : itrunc(i) => ~contentHalt']_contentVars
<1>1. ContentInv /\ [ContentNext]_contentVars => [\A i \in Inodes : itrunc(i) => ~contentHalt']_contentVars
  <2> SUFFICES ASSUME ContentInv, NEW i \in Inodes, itrunc(i)
               PROVE  ~contentHalt'
    OBVIOUS
  <2>1. Freed(i) = {Hold(i, k) : k \in BlockPlace} \ {0} /\ HeldInUse
    BY FreedIs DEF ContentInv, OwnInv
  <2>2. Freed(i) \subseteq bitmap
    BY <2>1 DEF HeldInUse
  <2> QED
    BY <2>2 DEF itrunc
<1> QED
  BY <1>1, ContentInvariant, PTL DEF ContentSpec
=============================================================================
