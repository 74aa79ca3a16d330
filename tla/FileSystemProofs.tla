-------------------------- MODULE FileSystemProofs --------------------------
(***************************************************************************)
(* The inode cache and the calls on paths, for any number of processes,    *)
(* names, inodes and slots: how a change of one pointer changes the count  *)
(* of the pointers to a slot, what iget, ilock and iupdate do to the cache,*)
(* then one lemma per action, give FsInv: ip->ref is exact and the cache   *)
(* is write-through.                                                       *)
(***************************************************************************)
EXTENDS FileSystem, FiniteSetTheorems, WellFoundedInduction, TLAPS

(* Zenon proves most of these steps; where it takes arithmetic, strings or *)
(* many functions at once, the step asks for SMT.                          *)
USE ZenonT(30)

-----------------------------------------------------------------------------
(* Pointers are counted as a function on the variables of the processes;   *)
(* setting it in one place moves the count of two slots.                   *)

Bit(x, s) == IF x = s THEN 1 ELSE 0
Var == FsProcs \X Pointer
Those(f, s) == {v \in Var : f[v] = s}
Count(f, s) == Cardinality(Those(f, s))
Ptr == [v \in Var |-> PointsTo(v[1], v[2])]
Loc(p, v) == <<p, v>>
Differ(f, g, w) == \A v \in Var : v # w => g[v] = f[v]
Shifts(f, g, w, s) == Count(g, s) = Count(f, s) - Bit(f[w], s) + Bit(g[w], s)
OnVars(f) == f = [v \in Var |-> f[v]]

LEMMA VarsFinite == IsFiniteSet(Var) /\ \A f, s : IsFiniteSet(Those(f, s))
<1>1. IsFiniteSet(Pointer)
  <2>1. Pointer = {"cwd"} \union {"ofile"} \union {"cur"} \union {"ip"} \union {"dp"} \union {"put"}
    BY DEF Pointer
  <2>2. IsFiniteSet({"cwd"})
    BY FS_Singleton
  <2>3. IsFiniteSet({"cwd"} \union {"ofile"})
    BY <2>2, FS_AddElement
  <2>4. IsFiniteSet({"cwd"} \union {"ofile"} \union {"cur"})
    BY <2>3, FS_AddElement
  <2>5. IsFiniteSet({"cwd"} \union {"ofile"} \union {"cur"} \union {"ip"})
    BY <2>4, FS_AddElement
  <2>6. IsFiniteSet({"cwd"} \union {"ofile"} \union {"cur"} \union {"ip"} \union {"dp"})
    BY <2>5, FS_AddElement
  <2> QED
    BY <2>1, <2>6, FS_AddElement
<1>2. IsFiniteSet(Var)
  BY <1>1, FsAssumption, FS_Product DEF Var
<1>3. ASSUME NEW f, NEW s
      PROVE  IsFiniteSet(Those(f, s))
  <2>1. Those(f, s) \in SUBSET Var
    BY DEF Those
  <2> QED
    BY <1>2, <2>1, FS_Subset
<1> QED
  BY <1>2, <1>3

LEMMA CountSet ==
  ASSUME NEW f, NEW w \in Var, NEW g, Differ(f, g, w), NEW s
  PROVE  Shifts(f, g, w, s)
<1> DEFINE A == Those(f, s)
           x == g[w]
           B == Those(g, s)
<1>1. \A v \in Var : g[v] = IF v = w THEN x ELSE f[v]
  BY DEF Differ
<1>7. \A v : (v \in A <=> v \in Var /\ f[v] = s) /\ (v \in B <=> v \in Var /\ g[v] = s)
  BY DEF Those
<1> HIDE DEF x
<1>2. IsFiniteSet(A) /\ IsFiniteSet(B)
  BY VarsFinite
<1> HIDE DEF A, B
<1>3. Cardinality(A) \in Nat /\ Cardinality(A \ {w}) \in Nat /\ IsFiniteSet(A \ {w})
  BY <1>2, FS_CardinalityType, FS_RemoveElement
<1>4. Cardinality(A \ {w}) = Cardinality(A) - Bit(f[w], s)
  <2>1. CASE f[w] = s
    <3>1. w \in A
      BY <1>7, <2>1
    <3>2. Cardinality(A \ {w}) = Cardinality(A) - 1
      BY SMTT(30), <1>2, <3>1, FS_RemoveElement
    <3> QED
      BY <2>1, <3>2 DEF Bit
  <2>2. CASE f[w] # s
    <3>1. A \ {w} = A
      BY <1>7, <2>2
    <3>2. Cardinality(A) = Cardinality(A) - 0
      BY SMTT(30), <1>3
    <3> QED
      BY <2>2, <3>1, <3>2 DEF Bit
  <2> QED
    BY <2>1, <2>2
<1>5. Cardinality(B) = Cardinality(A \ {w}) + Bit(x, s)
  <2>1. CASE x = s
    <3>1. B = (A \ {w}) \union {w} /\ w \notin A \ {w}
      BY <1>1, <1>7, <2>1
    <3>2. Cardinality(B) = Cardinality(A \ {w}) + 1
      BY SMTT(30), <1>3, <3>1, FS_AddElement
    <3> QED
      BY <2>1, <3>2 DEF Bit
  <2>2. CASE x # s
    <3>1. B = A \ {w}
      BY <1>1, <1>7, <2>2
    <3>2. Cardinality(A \ {w}) = Cardinality(A \ {w}) + 0
      BY SMTT(30), <1>3
    <3> QED
      BY <2>2, <3>1, <3>2 DEF Bit
  <2> QED
    BY <2>1, <2>2
<1>6. Count(f, s) = Cardinality(A) /\ Count(g, s) = Cardinality(B)
  BY DEF Count, A, B
<1> QED
  BY <1>4, <1>5, <1>6 DEF x, Shifts

LEMMA CountNat == \A f, s : Count(f, s) \in Nat
  BY VarsFinite, FS_CardinalityType DEF Count

(* A function that changes at the six variables of one process.            *)
Elsewhere(f, g, p) == \A q \in FsProcs \ {p} : \A v \in Pointer : g[Loc(q, v)] = f[Loc(q, v)]
SixShift(f, g, p, s) ==
  Count(g, s) = Count(f, s)
    - Bit(f[Loc(p, "cwd")], s) - Bit(f[Loc(p, "ofile")], s) - Bit(f[Loc(p, "cur")], s)
    - Bit(f[Loc(p, "ip")], s) - Bit(f[Loc(p, "dp")], s) - Bit(f[Loc(p, "put")], s)
    + Bit(g[Loc(p, "cwd")], s) + Bit(g[Loc(p, "ofile")], s) + Bit(g[Loc(p, "cur")], s)
    + Bit(g[Loc(p, "ip")], s) + Bit(g[Loc(p, "dp")], s) + Bit(g[Loc(p, "put")], s)
LEMMA CountSix ==
  ASSUME NEW f, OnVars(f), NEW g, OnVars(g), NEW p \in FsProcs, NEW s,
         Elsewhere(f, g, p)
  PROVE  SixShift(f, g, p, s)
<1> DEFINE a == [f EXCEPT ![Loc(p, "cwd")] = g[Loc(p, "cwd")]]
           b == [a EXCEPT ![Loc(p, "ofile")] = g[Loc(p, "ofile")]]
           c == [b EXCEPT ![Loc(p, "cur")] = g[Loc(p, "cur")]]
           d == [c EXCEPT ![Loc(p, "ip")] = g[Loc(p, "ip")]]
           e == [d EXCEPT ![Loc(p, "dp")] = g[Loc(p, "dp")]]
           h == [e EXCEPT ![Loc(p, "put")] = g[Loc(p, "put")]]
<1>v. /\ Loc(p, "cwd") \in Var /\ Loc(p, "ofile") \in Var /\ Loc(p, "cur") \in Var
      /\ Loc(p, "ip") \in Var /\ Loc(p, "dp") \in Var /\ Loc(p, "put") \in Var
  BY DEF Var, Pointer, Loc
<1>d. /\ Loc(p, "cwd") # Loc(p, "ofile") /\ Loc(p, "cwd") # Loc(p, "cur") /\ Loc(p, "cwd") # Loc(p, "ip")
      /\ Loc(p, "cwd") # Loc(p, "dp") /\ Loc(p, "cwd") # Loc(p, "put") /\ Loc(p, "ofile") # Loc(p, "cur")
      /\ Loc(p, "ofile") # Loc(p, "ip") /\ Loc(p, "ofile") # Loc(p, "dp") /\ Loc(p, "ofile") # Loc(p, "put")
      /\ Loc(p, "cur") # Loc(p, "ip") /\ Loc(p, "cur") # Loc(p, "dp") /\ Loc(p, "cur") # Loc(p, "put")
      /\ Loc(p, "ip") # Loc(p, "dp") /\ Loc(p, "ip") # Loc(p, "put") /\ Loc(p, "dp") # Loc(p, "put")
  BY SMTT(30) DEF Loc
<1>2. /\ OnVars(a)
       /\ \A v \in Var : a[v] = IF v = Loc(p, "cwd") THEN g[Loc(p, "cwd")] ELSE f[v]
  BY <1>v DEF OnVars
<1>d2. Differ(f, a, Loc(p, "cwd"))
  BY <1>2 DEF Differ
<1>e2. a[Loc(p, "cwd")] = g[Loc(p, "cwd")]
  BY <1>v, <1>2
<1> HIDE DEF a
<1>s1. Shifts(f, a, Loc(p, "cwd"), s)
  BY <1>v, <1>d2, CountSet
<1>1. Count(a, s) = Count(f, s) - Bit(f[Loc(p, "cwd")], s) + Bit(g[Loc(p, "cwd")], s)
  BY <1>s1, <1>e2 DEF Shifts
<1>4. /\ OnVars(b)
       /\ \A v \in Var : b[v] = IF v = Loc(p, "ofile") THEN g[Loc(p, "ofile")] ELSE a[v]
  BY <1>v, <1>2 DEF OnVars
<1>d4. Differ(a, b, Loc(p, "ofile"))
  BY <1>4 DEF Differ
<1>e4. b[Loc(p, "ofile")] = g[Loc(p, "ofile")]
  BY <1>v, <1>4
<1> HIDE DEF b
<1>s3. Shifts(a, b, Loc(p, "ofile"), s)
  BY <1>v, <1>d4, CountSet
<1>3. Count(b, s) = Count(a, s) - Bit(a[Loc(p, "ofile")], s) + Bit(g[Loc(p, "ofile")], s)
  BY <1>s3, <1>e4 DEF Shifts
<1>6. /\ OnVars(c)
       /\ \A v \in Var : c[v] = IF v = Loc(p, "cur") THEN g[Loc(p, "cur")] ELSE b[v]
  BY <1>v, <1>4 DEF OnVars
<1>d6. Differ(b, c, Loc(p, "cur"))
  BY <1>6 DEF Differ
<1>e6. c[Loc(p, "cur")] = g[Loc(p, "cur")]
  BY <1>v, <1>6
<1> HIDE DEF c
<1>s5. Shifts(b, c, Loc(p, "cur"), s)
  BY <1>v, <1>d6, CountSet
<1>5. Count(c, s) = Count(b, s) - Bit(b[Loc(p, "cur")], s) + Bit(g[Loc(p, "cur")], s)
  BY <1>s5, <1>e6 DEF Shifts
<1>8. /\ OnVars(d)
       /\ \A v \in Var : d[v] = IF v = Loc(p, "ip") THEN g[Loc(p, "ip")] ELSE c[v]
  BY <1>v, <1>6 DEF OnVars
<1>d8. Differ(c, d, Loc(p, "ip"))
  BY <1>8 DEF Differ
<1>e8. d[Loc(p, "ip")] = g[Loc(p, "ip")]
  BY <1>v, <1>8
<1> HIDE DEF d
<1>s7. Shifts(c, d, Loc(p, "ip"), s)
  BY <1>v, <1>d8, CountSet
<1>7. Count(d, s) = Count(c, s) - Bit(c[Loc(p, "ip")], s) + Bit(g[Loc(p, "ip")], s)
  BY <1>s7, <1>e8 DEF Shifts
<1>10. /\ OnVars(e)
       /\ \A v \in Var : e[v] = IF v = Loc(p, "dp") THEN g[Loc(p, "dp")] ELSE d[v]
  BY <1>v, <1>8 DEF OnVars
<1>d10. Differ(d, e, Loc(p, "dp"))
  BY <1>10 DEF Differ
<1>e10. e[Loc(p, "dp")] = g[Loc(p, "dp")]
  BY <1>v, <1>10
<1> HIDE DEF e
<1>s9. Shifts(d, e, Loc(p, "dp"), s)
  BY <1>v, <1>d10, CountSet
<1>9. Count(e, s) = Count(d, s) - Bit(d[Loc(p, "dp")], s) + Bit(g[Loc(p, "dp")], s)
  BY <1>s9, <1>e10 DEF Shifts
<1>12. /\ OnVars(h)
       /\ \A v \in Var : h[v] = IF v = Loc(p, "put") THEN g[Loc(p, "put")] ELSE e[v]
  BY <1>v, <1>10 DEF OnVars
<1>d12. Differ(e, h, Loc(p, "put"))
  BY <1>12 DEF Differ
<1>e12. h[Loc(p, "put")] = g[Loc(p, "put")]
  BY <1>v, <1>12
<1> HIDE DEF h
<1>s11. Shifts(e, h, Loc(p, "put"), s)
  BY <1>v, <1>d12, CountSet
<1>11. Count(h, s) = Count(e, s) - Bit(e[Loc(p, "put")], s) + Bit(g[Loc(p, "put")], s)
  BY <1>s11, <1>e12 DEF Shifts
<1>13. /\ a[Loc(p, "ofile")] = f[Loc(p, "ofile")] /\ b[Loc(p, "cur")] = f[Loc(p, "cur")] /\ c[Loc(p, "ip")] = f[Loc(p, "ip")]
       /\ d[Loc(p, "dp")] = f[Loc(p, "dp")] /\ e[Loc(p, "put")] = f[Loc(p, "put")]
  <2>1. a[Loc(p, "ofile")] = f[Loc(p, "ofile")] /\ a[Loc(p, "cur")] = f[Loc(p, "cur")] /\ a[Loc(p, "ip")] = f[Loc(p, "ip")]
        /\ a[Loc(p, "dp")] = f[Loc(p, "dp")] /\ a[Loc(p, "put")] = f[Loc(p, "put")]
    BY <1>v, <1>d, <1>2
  <2>2. b[Loc(p, "cur")] = f[Loc(p, "cur")] /\ b[Loc(p, "ip")] = f[Loc(p, "ip")] /\ b[Loc(p, "dp")] = f[Loc(p, "dp")] /\ b[Loc(p, "put")] = f[Loc(p, "put")]
    BY <1>v, <1>d, <1>4, <2>1
  <2>3. c[Loc(p, "ip")] = f[Loc(p, "ip")] /\ c[Loc(p, "dp")] = f[Loc(p, "dp")] /\ c[Loc(p, "put")] = f[Loc(p, "put")]
    BY <1>v, <1>d, <1>6, <2>2
  <2>4. d[Loc(p, "dp")] = f[Loc(p, "dp")] /\ d[Loc(p, "put")] = f[Loc(p, "put")]
    BY <1>v, <1>d, <1>8, <2>3
  <2>5. e[Loc(p, "put")] = f[Loc(p, "put")]
    BY <1>v, <1>d, <1>10, <2>4
  <2> QED
    BY <2>1, <2>2, <2>3, <2>4, <2>5
<1>14. h = g
  <2>1. ASSUME NEW v \in Var
        PROVE  h[v] = g[v]
    <3>1. PICK q \in FsProcs, n \in Pointer : v = Loc(q, n)
      BY SMTT(30) DEF Var, Loc
    <3>2. CASE q # p
      <4>1. v # Loc(p, "cwd") /\ v # Loc(p, "ofile") /\ v # Loc(p, "cur") /\ v # Loc(p, "ip") /\ v # Loc(p, "dp") /\ v # Loc(p, "put")
        BY <3>1, <3>2 DEF Loc
      <4>2. g[v] = f[v]
        BY <3>1, <3>2 DEF Elsewhere
      <4>3. h[v] = e[v] /\ e[v] = d[v] /\ d[v] = c[v]
        BY <4>1, <1>8, <1>10, <1>12
      <4>4. c[v] = b[v] /\ b[v] = a[v] /\ a[v] = f[v]
        BY <4>1, <1>2, <1>4, <1>6
      <4> QED
        BY <4>2, <4>3, <4>4
    <3>3. CASE q = p
      <4>1. v \in {Loc(p, "cwd"), Loc(p, "ofile"), Loc(p, "cur"), Loc(p, "ip"), Loc(p, "dp"), Loc(p, "put")}
        BY <3>1, <3>3 DEF Pointer
      <4>2. h[Loc(p, "cwd")] = g[Loc(p, "cwd")]
        <5>1. a[Loc(p, "cwd")] = g[Loc(p, "cwd")] /\ b[Loc(p, "cwd")] = a[Loc(p, "cwd")]
          BY <1>v, <1>d, <1>e2, <1>4
        <5>2. c[Loc(p, "cwd")] = b[Loc(p, "cwd")] /\ d[Loc(p, "cwd")] = c[Loc(p, "cwd")]
          BY <1>v, <1>d, <1>6, <1>8
        <5>3. e[Loc(p, "cwd")] = d[Loc(p, "cwd")] /\ h[Loc(p, "cwd")] = e[Loc(p, "cwd")]
          BY <1>v, <1>d, <1>10, <1>12
        <5> QED
          BY <5>1, <5>2, <5>3
      <4>3. h[Loc(p, "ofile")] = g[Loc(p, "ofile")]
        BY <1>v, <1>d, <1>4, <1>6, <1>8, <1>10, <1>12
      <4>4. h[Loc(p, "cur")] = g[Loc(p, "cur")]
        BY <1>v, <1>d, <1>6, <1>8, <1>10, <1>12
      <4>5. h[Loc(p, "ip")] = g[Loc(p, "ip")]
        BY <1>v, <1>d, <1>8, <1>10, <1>12
      <4>6. h[Loc(p, "dp")] = g[Loc(p, "dp")]
        BY <1>v, <1>d, <1>10, <1>12
      <4>7. h[Loc(p, "put")] = g[Loc(p, "put")]
        BY <1>v, <1>d, <1>12
      <4> QED
        BY <4>1, <4>2, <4>3, <4>4, <4>5, <4>6, <4>7
    <3> QED
      BY <3>2, <3>3
  <2> QED
    BY <1>12, <2>1 DEF OnVars
<1>15. /\ Count(f, s) \in Int /\ Count(a, s) \in Int /\ Count(b, s) \in Int /\ Count(c, s) \in Int
       /\ Count(d, s) \in Int /\ Count(e, s) \in Int
  BY SMTT(30), CountNat
<1>16. \A x : Bit(x, s) \in Int
  BY SMTT(30) DEF Bit
<1>17. Count(g, s) = Count(e, s) - Bit(f[Loc(p, "put")], s) + Bit(g[Loc(p, "put")], s)
  BY <1>11, <1>e12, <1>13, <1>14
<1>18. Count(c, s) = Count(f, s) - Bit(f[Loc(p, "cwd")], s) - Bit(f[Loc(p, "ofile")], s) - Bit(f[Loc(p, "cur")], s)
                      + Bit(g[Loc(p, "cwd")], s) + Bit(g[Loc(p, "ofile")], s) + Bit(g[Loc(p, "cur")], s)
  BY SMTT(30), <1>1, <1>3, <1>5, <1>13, <1>15, <1>16
<1> QED
  BY SMTT(30), <1>7, <1>9, <1>13, <1>15, <1>16, <1>17, <1>18 DEF SixShift

-----------------------------------------------------------------------------
(* The pointers of one process, and how a step of it changes the counts.   *)

Kept(t, c) == IF "setcwd" \in {t.pc, t.then} THEN 0 ELSE c
Owns(t, c, o, s) ==
  Bit(Kept(t, c), s) + Bit(o, s) + Bit(t.cur, s) + Bit(t.ip, s) + Bit(t.dp, s) + Bit(t.put, s)
Others(p) == \A q \in FsProcs \ {p} : th'[q] = th[q] /\ cwd'[q] = cwd[q] /\ ofile'[q] = ofile[q]

LEMMA PointsToIs ==
  ASSUME NEW p
  PROVE  /\ PointsTo(p, "cwd") = Kept(th[p], cwd[p]) /\ PointsTo(p, "ofile") = ofile[p]
         /\ PointsTo(p, "cur") = th[p].cur /\ PointsTo(p, "ip") = th[p].ip
         /\ PointsTo(p, "dp") = th[p].dp /\ PointsTo(p, "put") = th[p].put
<1>1. PointsTo(p, "cwd") = Kept(th[p], cwd[p])
  BY DEF PointsTo, SettingCwd, Kept
<1>2. PointsTo(p, "ofile") = ofile[p]
  BY SMTT(30) DEF PointsTo
<1>3. PointsTo(p, "cur") = th[p].cur /\ PointsTo(p, "ip") = th[p].ip
  BY SMTT(30) DEF PointsTo
<1>4. PointsTo(p, "dp") = th[p].dp /\ PointsTo(p, "put") = th[p].put
  BY SMTT(30) DEF PointsTo
<1> QED
  BY <1>1, <1>2, <1>3, <1>4

LEMMA PointsToNext ==
  ASSUME NEW p
  PROVE  /\ PointsTo(p, "cwd")' = Kept(th'[p], cwd'[p]) /\ PointsTo(p, "ofile")' = ofile'[p]
         /\ PointsTo(p, "cur")' = th'[p].cur /\ PointsTo(p, "ip")' = th'[p].ip
         /\ PointsTo(p, "dp")' = th'[p].dp /\ PointsTo(p, "put")' = th'[p].put
<1>1. PointsTo(p, "cwd")' = Kept(th'[p], cwd'[p])
  BY DEF PointsTo, SettingCwd, Kept
<1>2. PointsTo(p, "ofile")' = ofile'[p]
  BY SMTT(30) DEF PointsTo
<1>3. PointsTo(p, "cur")' = th'[p].cur /\ PointsTo(p, "ip")' = th'[p].ip
  BY SMTT(30) DEF PointsTo
<1>4. PointsTo(p, "dp")' = th'[p].dp /\ PointsTo(p, "put")' = th'[p].put
  BY SMTT(30) DEF PointsTo
<1> QED
  BY <1>1, <1>2, <1>3, <1>4

LEMMA PtrIs ==
  ASSUME NEW p \in FsProcs, NEW v \in Pointer
  PROVE  Ptr[Loc(p, v)] = PointsTo(p, v) /\ Ptr'[Loc(p, v)] = PointsTo(p, v)'
<1>1. Loc(p, v) \in Var
  BY DEF Loc, Var
<1>2. Loc(p, v)[1] = p /\ Loc(p, v)[2] = v
  BY DEF Loc
<1> QED
  BY <1>1, <1>2 DEF Ptr

LEMMA PointersIs ==
  ASSUME NEW s
  PROVE  Pointers(s) = Count(Ptr, s) /\ Pointers(s)' = Count(Ptr', s) /\ Pointers(s) \in Nat
<1>1. {v \in FsProcs \X Pointer : PointsTo(v[1], v[2]) = s} = Those(Ptr, s)
  BY DEF Those, Ptr, Var
<1>2. {v \in FsProcs \X Pointer : PointsTo(v[1], v[2])' = s} = Those(Ptr', s)
  BY DEF Those, Ptr, Var
<1>3. Pointers(s) = Cardinality(Those(Ptr, s))
  BY <1>1 DEF Pointers
<1>4. Pointers(s)' = Cardinality(Those(Ptr', s))
  BY <1>2 DEF Pointers
<1> QED
  BY <1>3, <1>4, CountNat DEF Count

(* A step of process p moves the counts by what it lets go and takes. *)
LEMMA CountChange ==
  ASSUME NEW p \in FsProcs, Others(p), NEW s
  PROVE  /\ Pointers(s)' = Pointers(s) - Owns(th[p], cwd[p], ofile[p], s) + Owns(th'[p], cwd'[p], ofile'[p], s)
         /\ Owns(th[p], cwd[p], ofile[p], s) \in Int /\ Owns(th'[p], cwd'[p], ofile'[p], s) \in Int
<1> DEFINE f == Ptr
           g == Ptr'
<1>1. OnVars(f) /\ OnVars(g)
  BY DEF OnVars, Ptr
<1>2. ASSUME NEW q \in FsProcs \ {p}, NEW v \in Pointer
      PROVE  g[Loc(q, v)] = f[Loc(q, v)]
  <2>1. Ptr[Loc(q, v)] = PointsTo(q, v) /\ Ptr'[Loc(q, v)] = PointsTo(q, v)'
    BY PtrIs
  <2>2. th'[q] = th[q] /\ cwd'[q] = cwd[q] /\ ofile'[q] = ofile[q]
    BY DEF Others
  <2>3. PointsTo(q, v)' = PointsTo(q, v)
    BY <2>2 DEF PointsTo, SettingCwd
  <2> QED
    BY <2>1, <2>3
<1>3. "cwd" \in Pointer /\ "ofile" \in Pointer /\ "cur" \in Pointer /\ "ip" \in Pointer /\ "dp" \in Pointer /\ "put" \in Pointer
  BY DEF Pointer
<1>4. /\ f[Loc(p, "cwd")] = Kept(th[p], cwd[p]) /\ f[Loc(p, "ofile")] = ofile[p] /\ f[Loc(p, "cur")] = th[p].cur
      /\ f[Loc(p, "ip")] = th[p].ip /\ f[Loc(p, "dp")] = th[p].dp /\ f[Loc(p, "put")] = th[p].put
  BY <1>3, PtrIs, PointsToIs
<1>5. /\ g[Loc(p, "cwd")] = Kept(th'[p], cwd'[p]) /\ g[Loc(p, "ofile")] = ofile'[p] /\ g[Loc(p, "cur")] = th'[p].cur
      /\ g[Loc(p, "ip")] = th'[p].ip /\ g[Loc(p, "dp")] = th'[p].dp /\ g[Loc(p, "put")] = th'[p].put
  BY <1>3, PtrIs, PointsToNext
<1> HIDE DEF f, g
<1>6. SixShift(f, g, p, s)
  <2>1. Elsewhere(f, g, p)
    BY <1>2 DEF Elsewhere
  <2> QED
    BY <1>1, <2>1, CountSix
<1>7. \A x : Bit(x, s) \in Int
  BY SMTT(30) DEF Bit
<1>8. Count(f, s) \in Int
  BY SMTT(30), CountNat
<1>9. Count(f, s) = Pointers(s) /\ Count(g, s) = Pointers(s)'
  BY PointersIs DEF f, g
<1>10. Pointers(s)' = Pointers(s) - Owns(th[p], cwd[p], ofile[p], s) + Owns(th'[p], cwd'[p], ofile'[p], s)
  BY SMTT(30), <1>4, <1>5, <1>6, <1>7, <1>8, <1>9 DEF Owns, SixShift
<1> QED
  BY SMTT(30), <1>7, <1>10 DEF Owns

(* What is pointed to is in use. *)
LEMMA PointedIsUsed ==
  ASSUME FsType, RefExact, NEW p \in FsProcs, NEW v \in Pointer, NEW s \in Slot, PointsTo(p, v) = s
  PROVE  inode[s].ref > 0
<1>1. Loc(p, v) \in Those(Ptr, s)
  BY PtrIs DEF Those, Loc, Var
<1>2. Those(Ptr, s) # {} /\ IsFiniteSet(Those(Ptr, s))
  BY <1>1, VarsFinite
<1>3. Cardinality(Those(Ptr, s)) # 0
  BY <1>2, FS_EmptySet
<1>4. inode[s].ref = Cardinality(Those(Ptr, s))
  BY PointersIs DEF RefExact, Count
<1>5. Cardinality(Those(Ptr, s)) \in Nat
  BY <1>2, FS_CardinalityType
<1> QED
  BY SMTT(30), <1>3, <1>4, <1>5

-----------------------------------------------------------------------------
(* The cache: a table of slots against the inodes on disk, where the slots *)
(* in X may be ahead of the disk.                                          *)

DType == [type : Type, nlink : Int]
IType == [inum : 0 .. NINODES, ref : Nat, valid : BOOLEAN, type : Type, nlink : Int]
Agrees(d, k) == (k.ref > 0 /\ k.valid) => d[k.inum] = [type |-> k.type, nlink |-> k.nlink]
Alone(ino, s, k) == k.ref > 0 => (k.inum \in Inum /\ \A r \in Slot \ {s} : ino[r].ref > 0 => ino[r].inum # k.inum)
CacheX(d, ino, X) ==
  /\ d \in [Inum -> DType] /\ ino \in [Slot -> IType]
  /\ \A s \in Slot : Alone(ino, s, ino[s])
  /\ \A s \in Slot \ X : Agrees(d, ino[s])
Like(ino, old) == \A r \in Slot : ino[r].ref = old[r].ref /\ ino[r].inum = old[r].inum

LEMMA IFields ==
  ASSUME NEW k \in IType
  PROVE  /\ k.inum \in 0 .. NINODES /\ k.ref \in Nat /\ k.valid \in BOOLEAN /\ k.type \in Type /\ k.nlink \in Int
  BY DEF IType

LEMMA SlotSet ==
  ASSUME NEW d, NEW ino, NEW X, CacheX(d, ino, X), NEW s \in Slot, NEW k \in IType, Alone(ino, s, k),
         NEW Y, X \subseteq Y, s \in Y \/ Agrees(d, k)
  PROVE  CacheX(d, [ino EXCEPT ![s] = k], Y)
<1> DEFINE new == [ino EXCEPT ![s] = k]
<1>1. ino \in [Slot -> IType] /\ d \in [Inum -> DType]
  BY DEF CacheX
<1>2. new \in [Slot -> IType] /\ new[s] = k /\ \A r \in Slot \ {s} : new[r] = ino[r]
  BY <1>1
<1> HIDE DEF new
<1>3. ASSUME NEW r \in Slot
      PROVE  Alone(new, r, new[r])
  <2>1. CASE r = s
    BY <1>2, <2>1 DEF Alone
  <2>2. CASE r # s
    <3>1. Alone(ino, r, ino[r]) /\ new[r] = ino[r]
      BY <1>2, <2>2 DEF CacheX
    <3> QED
      BY <1>2, <2>2, <3>1 DEF Alone
  <2> QED
    BY <2>1, <2>2
<1>4. ASSUME NEW r \in Slot \ Y
      PROVE  Agrees(d, new[r])
  <2>1. CASE r = s
    BY <1>2, <2>1
  <2>2. CASE r # s
    BY <1>2, <2>2 DEF CacheX
  <2> QED
    BY <2>1, <2>2
<1>5. CacheX(d, new, Y)
  BY <1>1, <1>2, <1>3, <1>4 DEF CacheX
<1> QED
  BY <1>5 DEF new

(* ilock reads the inode. *)
LEMMA LoadIs ==
  ASSUME CacheX(dinode, inode, {}), NEW s \in Slot, inode[s].ref > 0
  PROVE  /\ CacheX(dinode, Load(s), {}) /\ Like(Load(s), inode) /\ Load(s)[s].valid
<1> DEFINE n == inode[s].inum
           k == [inode[s] EXCEPT !.valid = TRUE, !.type = dinode[n].type, !.nlink = dinode[n].nlink]
<1>1. inode \in [Slot -> IType] /\ inode[s] \in IType /\ dinode \in [Inum -> DType] /\ Alone(inode, s, inode[s])
  BY DEF CacheX
<1>2. n \in Inum
  BY <1>1 DEF Alone
<1>3. dinode[n] \in DType
  BY <1>1, <1>2
<1> HIDE DEF n
<1>a. dinode[n].type \in Type /\ dinode[n].nlink \in Int /\ TRUE \in BOOLEAN
  BY <1>3 DEF DType
<1>4. k \in IType /\ k.inum = inode[s].inum /\ k.ref = inode[s].ref /\ k.valid = TRUE
      /\ k.type = dinode[n].type /\ k.nlink = dinode[n].nlink
  BY <1>1, <1>a DEF IType
<1> HIDE DEF k
<1>5. dinode[n] = [type |-> dinode[n].type, nlink |-> dinode[n].nlink]
  BY <1>3 DEF DType
<1>6. Agrees(dinode, k) /\ Alone(inode, s, k)
  BY <1>1, <1>4, <1>5 DEF Agrees, Alone, n
<1>7. CacheX(dinode, [inode EXCEPT ![s] = k], {})
  <2> DEFINE X == {}
  <2>1. X \subseteq X /\ CacheX(dinode, inode, X)
    OBVIOUS
  <2> HIDE DEF X
  <2>2. CacheX(dinode, [inode EXCEPT ![s] = k], X)
    BY <1>4, <1>6, <2>1, SlotSet
  <2> QED
    BY <2>2 DEF X
<1>8. CASE inode[s].valid
  BY <1>8 DEF Load, Like
<1>9. CASE ~inode[s].valid
  <2>1. Load(s) = [inode EXCEPT ![s] = k]
    BY <1>9 DEF Load, k, n
  <2>2. Like(Load(s), inode) /\ Load(s)[s].valid
    BY <1>1, <1>4, <2>1 DEF Like
  <2> QED
    BY <1>7, <2>1, <2>2
<1> QED
  BY <1>8, <1>9

LEMMA LeastOf ==
  ASSUME NEW S \in SUBSET Nat, S # {}
  PROVE  Min(S) \in S
<1>1. \E x \in S : \A y \in S : ~(<<y, x>> \in OpToRel(<, Nat))
  BY NatLessThanWellFounded, WFMin
<1>2. \E x \in S : \A y \in S : ~(y < x)
  BY <1>1 DEF OpToRel
<1>3. \A x, y \in S : ~(y < x) => x =< y
  BY SMTT(30)
<1>4. \E x \in S : \A y \in S : x =< y
  BY <1>2, <1>3
<1> QED
  BY <1>4 DEF Min

(* iget finds the slot of the inode, or one that nobody uses. *)
Fresh(i) == \A r \in Slot : ~(inode[r].ref > 0 /\ inode[r].inum = i)
LEMMA SlotForIs ==
  ASSUME NEW i, inode \in [Slot -> IType], SlotFor(i) # 0
  PROVE  /\ SlotFor(i) \in Slot
         /\ \/ inode[SlotFor(i)].ref > 0 /\ inode[SlotFor(i)].inum = i
            \/ inode[SlotFor(i)].ref = 0 /\ Fresh(i)
<1> DEFINE cached == {s \in Slot : inode[s].ref > 0 /\ inode[s].inum = i}
           empty == {s \in Slot : inode[s].ref = 0}
<1>1. cached \in SUBSET Nat /\ empty \in SUBSET Nat
  BY SMTT(30), FsAssumption DEF Slot
<1>2. CASE cached # {}
  <2>1. SlotFor(i) = Min(cached)
    BY <1>2 DEF SlotFor
  <2>2. Min(cached) \in cached
    BY <1>1, <1>2, LeastOf
  <2> QED
    BY <2>1, <2>2
<1>3. CASE cached = {} /\ empty # {}
  <2>1. SlotFor(i) = Min(empty)
    BY <1>3 DEF SlotFor
  <2>2. Min(empty) \in empty
    BY <1>1, <1>3, LeastOf
  <2> QED
    BY <1>3, <2>1, <2>2 DEF Fresh
<1>4. CASE cached = {} /\ empty = {}
  BY <1>4 DEF SlotFor
<1> QED
  BY <1>2, <1>3, <1>4

LEMMA SlotForRange ==
  ASSUME NEW i, inode \in [Slot -> IType]
  PROVE  SlotFor(i) \in 0 .. NINODE
<1>1. \A s \in Slot : s \in 0 .. NINODE
  BY SMTT(30), FsAssumption DEF Slot
<1>2. 0 \in 0 .. NINODE
  BY SMTT(30), FsAssumption
<1> QED
  BY <1>1, <1>2, SlotForIs

Gotten(ino, i) == \A r \in Slot :
  /\ iget(ino, i)[r].ref = inode[r].ref + Bit(SlotFor(i), r)
  /\ inode[r].ref > 0 => iget(ino, i)[r].inum = inode[r].inum
LEMMA IgetIs ==
  ASSUME NEW d, NEW ino, NEW X, CacheX(d, ino, X), inode \in [Slot -> IType], Like(ino, inode), NEW i \in Inum
  PROVE  /\ CacheX(d, iget(ino, i), X) /\ Gotten(ino, i)
         /\ SlotFor(i) # 0 => (iget(ino, i)[SlotFor(i)].ref > 0 /\ iget(ino, i)[SlotFor(i)].inum = i)
<1> DEFINE s == SlotFor(i)
<1>1. ino \in [Slot -> IType]
  BY DEF CacheX
<1>2. \A r \in Slot : ino[r] \in IType /\ inode[r] \in IType /\ inode[r].ref \in Nat
  BY <1>1 DEF IType
<1>3. \A r \in Slot : inode[r].ref + 0 = inode[r].ref
  BY SMTT(30), <1>2
<1>4. CASE s = 0
  <2>1. iget(ino, i) = ino
    BY <1>4 DEF iget
  <2>2. \A r \in Slot : Bit(s, r) = 0
    BY SMTT(30), <1>4, FsAssumption DEF Bit, Slot
  <2> QED
    BY <1>3, <1>4, <2>1, <2>2 DEF Gotten, Like
<1>5. CASE s # 0
  <2>1. s \in Slot /\ ((inode[s].ref > 0 /\ inode[s].inum = i) \/ (inode[s].ref = 0 /\ Fresh(i)))
    <3>1. SlotFor(i) # 0
      BY <1>5
    <3>2. /\ SlotFor(i) \in Slot
          /\ \/ inode[SlotFor(i)].ref > 0 /\ inode[SlotFor(i)].inum = i
             \/ inode[SlotFor(i)].ref = 0 /\ Fresh(i)
      BY <3>1, SlotForIs
    <3> QED
      BY <3>2
  <2>2. ino[s] \in IType /\ inode[s].ref \in Nat /\ ino[s].ref = inode[s].ref /\ ino[s].inum = inode[s].inum
    BY <1>2, <2>1 DEF Like
  <2>b. Bit(s, s) = 1 /\ \A r \in Slot \ {s} : Bit(s, r) = 0
    BY DEF Bit
  <2> HIDE DEF s
  <2>3. ASSUME NEW k \in IType, iget(ino, i) = [ino EXCEPT ![s] = k], k.inum = i, k.ref = inode[s].ref + 1,
               inode[s].ref > 0 => inode[s].inum = i
        PROVE  Gotten(ino, i) /\ iget(ino, i)[s].ref > 0 /\ iget(ino, i)[s].inum = i
    <3>1. iget(ino, i)[s] = k /\ \A r \in Slot \ {s} : iget(ino, i)[r] = ino[r]
      BY <1>1, <2>1, <2>3
    <3>2. \A r \in Slot : r # s => iget(ino, i)[r].ref = inode[r].ref + Bit(s, r)
      BY <1>3, <2>b, <3>1 DEF Like
    <3>3. \A r \in Slot : inode[r].ref > 0 => iget(ino, i)[r].inum = inode[r].inum
      BY <2>3, <3>1 DEF Like
    <3>4. k.ref > 0
      BY SMTT(30), <2>2, <2>3
    <3> QED
      BY <2>3, <2>b, <3>1, <3>2, <3>3, <3>4 DEF Gotten, s
  <2>4. CASE inode[s].ref > 0
    <3> DEFINE k == [ino[s] EXCEPT !.ref = ino[s].ref + 1]
    <3>1. inode[s].inum = i
      BY SMTT(30), <2>1, <2>2, <2>4
    <3>2. k \in IType /\ k.inum = i /\ k.ref = inode[s].ref + 1 /\ k.valid = ino[s].valid
          /\ k.type = ino[s].type /\ k.nlink = ino[s].nlink
      BY SMTT(30), <2>2, <3>1 DEF IType
    <3>3. iget(ino, i) = [ino EXCEPT ![s] = k]
      BY <1>5, <2>4 DEF iget, s
    <3> HIDE DEF k
    <3>4. Gotten(ino, i) /\ iget(ino, i)[s].ref > 0 /\ iget(ino, i)[s].inum = i
      BY <2>3, <3>1, <3>2, <3>3
    <3>5. Alone(ino, s, ino[s]) /\ (s \in X \/ Agrees(d, ino[s])) /\ ino[s].ref > 0
      BY <2>1, <2>2, <2>4 DEF CacheX
    <3>6. Alone(ino, s, k) /\ (s \in X \/ Agrees(d, k))
      BY <2>2, <3>1, <3>2, <3>5 DEF Alone, Agrees
    <3>7. CacheX(d, [ino EXCEPT ![s] = k], X)
      BY <2>1, <3>2, <3>6, SlotSet
    <3> QED
      BY <3>3, <3>4, <3>7 DEF s
  <2>5. CASE ~(inode[s].ref > 0)
    <3> DEFINE k == [ino[s] EXCEPT !.inum = i, !.ref = 1, !.valid = FALSE]
    <3>1. inode[s].ref = 0 /\ Fresh(i)
      BY <2>1, <2>5
    <3>2. k \in IType /\ k.inum = i /\ k.ref = 1 /\ k.valid = FALSE
      <4>1. i \in 0 .. NINODES /\ 1 \in Nat
        BY SMTT(30), FsAssumption DEF Inum
      <4> QED
        BY <2>2, <4>1 DEF IType
    <3>3. iget(ino, i) = [ino EXCEPT ![s] = k]
      BY <1>5, <2>5 DEF iget, s
    <3> HIDE DEF k
    <3>4. k.ref = inode[s].ref + 1
      BY SMTT(30), <3>1, <3>2
    <3>5. Gotten(ino, i) /\ iget(ino, i)[s].ref > 0 /\ iget(ino, i)[s].inum = i
      BY <2>3, <2>5, <3>2, <3>3, <3>4
    <3>6. Alone(ino, s, k) /\ Agrees(d, k)
      BY <3>1, <3>2 DEF Alone, Agrees, Fresh, Like
    <3>7. CacheX(d, [ino EXCEPT ![s] = k], X)
      BY <2>1, <3>2, <3>6, SlotSet
    <3> QED
      BY <3>3, <3>5, <3>7 DEF s
  <2> QED
    BY <2>4, <2>5
<1> QED
  BY <1>4, <1>5

(* A change of the copy leaves it ahead of the disk until iupdate. *)
LEMMA AddLinkIs ==
  ASSUME NEW d, NEW ino, NEW X, CacheX(d, ino, X), NEW s \in Slot, NEW j \in Int
  PROVE  CacheX(d, AddLink(ino, s, j), X \union {s}) /\ Like(AddLink(ino, s, j), ino)
<1> DEFINE k == [ino[s] EXCEPT !.nlink = ino[s].nlink + j]
<1>1. ino \in [Slot -> IType] /\ ino[s] \in IType /\ Alone(ino, s, ino[s])
  BY DEF CacheX
<1>2. k \in IType /\ k.inum = ino[s].inum /\ k.ref = ino[s].ref
  BY SMTT(30), <1>1 DEF IType
<1>3. AddLink(ino, s, j) = [ino EXCEPT ![s] = k]
  BY DEF AddLink
<1> HIDE DEF k
<1>4. Alone(ino, s, k)
  BY <1>1, <1>2 DEF Alone
<1>5. CacheX(d, [ino EXCEPT ![s] = k], X \union {s})
  BY <1>2, <1>4, SlotSet
<1> QED
  BY <1>1, <1>2, <1>3, <1>5 DEF Like

LEMMA IupdateIs ==
  ASSUME NEW d, NEW ino, NEW X, CacheX(d, ino, X), NEW s \in Slot, ino[s].ref > 0
  PROVE  CacheX(iupdate(d, ino, s), ino, X \ {s})
<1> DEFINE v == [type |-> ino[s].type, nlink |-> ino[s].nlink]
           n == ino[s].inum
           new == iupdate(d, ino, s)
<1>1. ino \in [Slot -> IType] /\ ino[s] \in IType /\ Alone(ino, s, ino[s]) /\ d \in [Inum -> DType]
  BY DEF CacheX
<1>2. n \in Inum /\ v \in DType
  BY <1>1 DEF Alone, IType, DType
<1>3. new = [d EXCEPT ![n] = v]
  BY DEF iupdate
<1> HIDE DEF new
<1>4. new \in [Inum -> DType] /\ new[n] = v /\ \A m \in Inum \ {n} : new[m] = d[m]
  BY <1>1, <1>2, <1>3
<1>5. ASSUME NEW r \in Slot \ (X \ {s})
      PROVE  Agrees(new, ino[r])
  <2>1. CASE r = s
    BY <1>4, <2>1 DEF Agrees
  <2>2. CASE r # s
    <3>1. Agrees(d, ino[r]) /\ Alone(ino, r, ino[r])
      BY <2>2 DEF CacheX
    <3>2. ino[r].ref > 0 => (ino[r].inum \in Inum /\ ino[r].inum # n)
      BY <2>2, <3>1 DEF Alone
    <3> QED
      BY <1>4, <3>1, <3>2 DEF Agrees
  <2> QED
    BY <2>1, <2>2
<1>6. \A r \in Slot : Alone(ino, r, ino[r])
  BY DEF CacheX
<1> QED
  BY <1>1, <1>4, <1>5, <1>6 DEF CacheX, new

-----------------------------------------------------------------------------
(* A step of one process *)

Halts == {"no", "full", "broken"}
Disk == [Inum -> [Entry -> 0 .. NINODES]]
Refs(p, u, c, o) == \A s \in Slot :
  inode'[s].ref = inode[s].ref - Owns(th[p], cwd[p], ofile[p], s) + Owns(u, c, o, s)
Steady(p, u) == \A s \in Slot : Owns(u, cwd[p], ofile[p], s) = Owns(th[p], cwd[p], ofile[p], s)
Same(t, u) == \A c, o : \A s \in Slot : Owns(u, c, o, s) = Owns(t, c, o, s)

LEMMA InvIs ==
  ASSUME FsInv
  PROVE  /\ CacheX(dinode, inode, {}) /\ inode \in [Slot -> IType] /\ dinode \in [Inum -> DType] /\ dent \in Disk
         /\ cwd \in [FsProcs -> Slot] /\ ofile \in [FsProcs -> 0 .. NINODE] /\ th \in [FsProcs -> ThType]
         /\ fsHalt \in Halts
<1>1. FsType /\ CacheCoherent /\ \A s \in Slot : inode[s].ref > 0 => inode[s].inum \in Inum
  BY DEF FsInv
<1>2. /\ dinode \in [Inum -> DType] /\ dent \in Disk /\ inode \in [Slot -> IType] /\ fsHalt \in Halts
      /\ cwd \in [FsProcs -> Slot] /\ ofile \in [FsProcs -> 0 .. NINODE] /\ th \in [FsProcs -> ThType]
  BY <1>1 DEF FsType, DType, IType, Disk, Halts
<1>3. \A s \in Slot : Alone(inode, s, inode[s])
  BY <1>1 DEF CacheCoherent, Alone
<1>4. \A s \in Slot : Agrees(dinode, inode[s])
  BY <1>1 DEF CacheCoherent, Agrees
<1> QED
  BY <1>2, <1>3, <1>4 DEF CacheX

LEMMA StepKeeps ==
  ASSUME FsInv, NEW p \in FsProcs, NEW u \in ThType, th' = [th EXCEPT ![p] = u],
         NEW c \in Slot, cwd' = [cwd EXCEPT ![p] = c], NEW o \in 0 .. NINODE, ofile' = [ofile EXCEPT ![p] = o],
         CacheX(dinode', inode', {}), dent' \in Disk, fsHalt' \in Halts,
         fsHalt' = "no" => (fsHalt = "no" /\ InPlace(u)), Refs(p, u, c, o)
  PROVE  FsInv'
<1>1. /\ inode \in [Slot -> IType]
      /\ cwd \in [FsProcs -> Slot] /\ ofile \in [FsProcs -> 0 .. NINODE] /\ th \in [FsProcs -> ThType]
  BY InvIs
<1>2. th' \in [FsProcs -> ThType] /\ th'[p] = u /\ \A q \in FsProcs \ {p} : th'[q] = th[q]
  BY <1>1
<1>3. cwd' \in [FsProcs -> Slot] /\ cwd'[p] = c /\ \A q \in FsProcs \ {p} : cwd'[q] = cwd[q]
  BY <1>1
<1>4. ofile' \in [FsProcs -> 0 .. NINODE] /\ ofile'[p] = o /\ \A q \in FsProcs \ {p} : ofile'[q] = ofile[q]
  BY <1>1
<1>5. FsType'
  <2>1. dinode' \in [Inum -> DType] /\ inode' \in [Slot -> IType]
    BY DEF CacheX
  <2> QED
    BY <1>2, <1>3, <1>4, <2>1 DEF FsType, DType, IType, Disk, Halts
<1>6. Others(p)
  BY <1>2, <1>3, <1>4 DEF Others
<1>7. ASSUME NEW s \in Slot
      PROVE  inode'[s].ref = Pointers(s)'
  <2>1. Pointers(s)' = Pointers(s) - Owns(th[p], cwd[p], ofile[p], s) + Owns(u, c, o, s)
    BY <1>2, <1>3, <1>4, <1>6, CountChange
  <2>2. inode[s].ref = Pointers(s)
    BY DEF FsInv, RefExact
  <2> QED
    BY <2>1, <2>2 DEF Refs
<1>8. RefExact'
  BY <1>7 DEF RefExact
<1>9. CacheCoherent' /\ \A s \in Slot : inode'[s].ref > 0 => inode'[s].inum \in Inum
  <2>1. \A s \in Slot : Alone(inode', s, inode'[s]) /\ Agrees(dinode', inode'[s])
    BY DEF CacheX
  <2>2. \A s \in Slot : inode'[s].ref > 0 => inode'[s].inum \in Inum
    BY <2>1 DEF Alone
  <2>3. \A s, r \in Slot : (s # r /\ inode'[s].ref > 0 /\ inode'[r].ref > 0) => inode'[s].inum # inode'[r].inum
    BY <2>1 DEF Alone
  <2>4. \A s \in Slot : (inode'[s].ref > 0 /\ inode'[s].valid) =>
          dinode'[inode'[s].inum] = [type |-> inode'[s].type, nlink |-> inode'[s].nlink]
    BY <2>1 DEF Agrees
  <2> QED
    BY <2>2, <2>3, <2>4 DEF CacheCoherent
<1>10. fsHalt' = "no" => \A q \in FsProcs : InPlace(th'[q])
  BY <1>2 DEF FsInv
<1> QED
  BY <1>5, <1>8, <1>9, <1>10 DEF FsInv

(* A step that only moves the pointers of the process. *)
LEMMA QuietStep ==
  ASSUME FsInv, NEW p \in FsProcs, NEW u \in ThType, th' = [th EXCEPT ![p] = u], cwd' = cwd, ofile' = ofile,
         CacheX(dinode', inode', {}), dent' \in Disk, fsHalt' \in Halts,
         fsHalt' = "no" => (fsHalt = "no" /\ InPlace(u)), Steady(p, u), Like(inode', inode)
  PROVE  FsInv'
<1>1. /\ cwd \in [FsProcs -> Slot] /\ ofile \in [FsProcs -> 0 .. NINODE] /\ inode \in [Slot -> IType]
  BY InvIs
<1>2. /\ cwd[p] \in Slot /\ cwd' = [cwd EXCEPT ![p] = cwd[p]]
      /\ ofile[p] \in 0 .. NINODE /\ ofile' = [ofile EXCEPT ![p] = ofile[p]]
  BY <1>1
<1>3. Refs(p, u, cwd[p], ofile[p])
  <2>1. ASSUME NEW s \in Slot
        PROVE  inode'[s].ref = inode[s].ref - Owns(th[p], cwd[p], ofile[p], s) + Owns(u, cwd[p], ofile[p], s)
    <3>1. inode'[s].ref = inode[s].ref /\ Owns(u, cwd[p], ofile[p], s) = Owns(th[p], cwd[p], ofile[p], s)
      BY DEF Like, Steady
    <3>2. inode[s].ref \in Int
      BY SMTT(30), <1>1 DEF IType
    <3>3. Owns(th[p], cwd[p], ofile[p], s) \in Int
      BY SMTT(30) DEF Owns, Bit
    <3> QED
      BY SMTT(30), <3>1, <3>2, <3>3
  <2> QED
    BY <2>1 DEF Refs
<1> QED
  BY <1>2, <1>3, StepKeeps

(* A step that also gets a pointer to slot x. *)
More(t, u, x) == \A c, o : \A s \in Slot : Owns(u, c, o, s) = Owns(t, c, o, s) + Bit(x, s)
Grown(x) == \A r \in Slot : inode'[r].ref = inode[r].ref + Bit(x, r)
LEMMA GetStep ==
  ASSUME FsInv, NEW p \in FsProcs, NEW u \in ThType, th' = [th EXCEPT ![p] = u], cwd' = cwd, ofile' = ofile,
         CacheX(dinode', inode', {}), dent' \in Disk, fsHalt' \in Halts,
         fsHalt' = "no" => (fsHalt = "no" /\ InPlace(u)), NEW x, More(th[p], u, x), Grown(x)
  PROVE  FsInv'
<1>1. /\ cwd \in [FsProcs -> Slot] /\ ofile \in [FsProcs -> 0 .. NINODE] /\ inode \in [Slot -> IType]
  BY InvIs
<1>2. /\ cwd[p] \in Slot /\ cwd' = [cwd EXCEPT ![p] = cwd[p]]
      /\ ofile[p] \in 0 .. NINODE /\ ofile' = [ofile EXCEPT ![p] = ofile[p]]
  BY <1>1
<1>3. Refs(p, u, cwd[p], ofile[p])
  <2>1. ASSUME NEW s \in Slot
        PROVE  inode'[s].ref = inode[s].ref - Owns(th[p], cwd[p], ofile[p], s) + Owns(u, cwd[p], ofile[p], s)
    <3>1. /\ inode'[s].ref = inode[s].ref + Bit(x, s)
          /\ Owns(u, cwd[p], ofile[p], s) = Owns(th[p], cwd[p], ofile[p], s) + Bit(x, s)
      BY DEF Grown, More
    <3>2. inode[s].ref \in Int
      BY SMTT(30), <1>1 DEF IType
    <3>3. Owns(th[p], cwd[p], ofile[p], s) \in Int /\ Bit(x, s) \in Int
      BY SMTT(30) DEF Owns, Bit
    <3> QED
      BY SMTT(30), <3>1, <3>2, <3>3
  <2> QED
    BY <2>1 DEF Refs
<1> QED
  BY <1>2, <1>3, StepKeeps

-----------------------------------------------------------------------------
(* The variables of a call *)

Fits(t, l) ==
  /\ t.cur # 0 <=> l \in CurAt
  /\ t.ip # 0 <=> l \in IpAt \/ (l = "namex" /\ t.goal = "linkto")
  /\ t.dp # 0 <=> l \in DpAt
  /\ l = "namex" => t.goal # "user"
  /\ l \in {"create", "unlink", "linkto"} => t.rest # <<>>
Pointing(u, i, j, k, x) == u.cur = i /\ u.ip = j /\ u.dp = k /\ u.put = x

LEMMA ThFields ==
  ASSUME NEW t \in ThType
  PROVE  /\ t.pc \in Place \union Putting /\ t.goal \in Goal /\ t.rest \in Seq(Entry) /\ t.then \in Place
         /\ t.cur \in 0 .. NINODE /\ t.ip \in 0 .. NINODE /\ t.dp \in 0 .. NINODE /\ t.put \in 0 .. NINODE
         /\ t.call.new \in PathName /\ t.call.path \in PathName
  BY DEF ThType

LEMMA PlaceIs ==
  ASSUME NEW l \in Place
  PROVE  l # "iput" /\ l # "iputref" /\ l \notin Putting /\ l \in Place \union Putting
<1>1. l # "iput" /\ l # "iputref"
  BY SMTT(30) DEF Place, CurAt, IpAt, DpAt
<1> QED
  BY <1>1 DEF Putting

LEMMA InPlaceIs ==
  ASSUME NEW t
  PROVE  /\ InPlace(t) /\ t.pc \in Place => (Fits(t, t.pc) /\ t.put = 0 /\ t.then = "user")
         /\ InPlace(t) /\ t.pc \in Putting => (Fits(t, t.then) /\ t.put # 0)
         /\ t.pc \in Place /\ Fits(t, t.pc) /\ t.put = 0 /\ t.then = "user" => InPlace(t)
         /\ t.pc \in Putting /\ Fits(t, t.then) /\ t.put # 0 => InPlace(t)
  BY PlaceIs DEF InPlace, Fits

LEMMA UserIs == User \in ThType /\ Pointing(User, 0, 0, 0, 0) /\ InPlace(User) /\ User.pc = "user" /\ User.then = "user"
<1>1. 0 \in 0 .. NINODE /\ <<>> \in Seq(Entry) /\ <<>> \in Seq(Entry \union {"/"})
  BY SMTT(30), FsAssumption
<1>2. <<>> \in PathName
  BY <1>1 DEF PathName, Absolute
<1>3. "user" \in Place /\ "user" \in Place \union Putting /\ "user" \in Goal /\ "none" \in Operations \union {"none"}
  BY DEF Place, Goal
<1>4. User \in ThType
  BY <1>1, <1>2, <1>3 DEF ThType, User
<1>5. Pointing(User, 0, 0, 0, 0) /\ User.pc = "user" /\ User.then = "user" /\ User.goal = "user"
  BY DEF User, Pointing
<1>6. "user" \notin CurAt /\ "user" \notin IpAt /\ "user" \notin DpAt /\ "user" \notin Putting
  BY SMTT(30) DEF CurAt, IpAt, DpAt, Putting
<1>7. "user" # "namex" /\ "user" \notin {"create", "unlink", "linkto"}
  BY SMTT(30)
<1> QED
  BY <1>4, <1>5, <1>6, <1>7 DEF InPlace, Pointing

(* iput of x, then place l. *)
IputOf(v, x, l) == [Rest(v, l) EXCEPT !.pc = "iput", !.put = x, !.then = l]
LEMMA PutIs ==
  ASSUME NEW v \in ThType, NEW l \in Place, Fits(v, l), NEW x \in Slot
  PROVE  /\ IputOf(v, x, l) \in ThType /\ InPlace(IputOf(v, x, l)) /\ IputOf(v, x, l).pc = "iput"
         /\ IputOf(v, x, l).then = l /\ Pointing(IputOf(v, x, l), v.cur, v.ip, v.dp, x)
<1> DEFINE w == Rest(v, l)
           u == IputOf(v, x, l)
<1>1. x \in 0 .. NINODE /\ x # 0
  BY SMTT(30), FsAssumption DEF Slot
<1>2. "iput" \in Place \union Putting /\ "iput" \in Putting
  BY DEF Putting
<1>3. w \in ThType /\ w.cur = v.cur /\ w.ip = v.ip /\ w.dp = v.dp /\ Fits(w, l)
  <2>1. CASE l = "user"
    <3>1. "user" \notin CurAt /\ "user" \notin IpAt /\ "user" \notin DpAt /\ "user" # "namex"
      BY SMTT(30) DEF CurAt, IpAt, DpAt
    <3>2. v.cur = 0 /\ v.ip = 0 /\ v.dp = 0
      BY <2>1, <3>1 DEF Fits
    <3>3. w = User
      BY <2>1 DEF Rest
    <3> QED
      BY <2>1, <3>1, <3>2, <3>3, UserIs DEF Pointing, Fits
  <2>2. CASE l # "user"
    BY <2>2 DEF Rest
  <2> QED
    BY <2>1, <2>2
<1> HIDE DEF w
<1>4. u = [w EXCEPT !.pc = "iput", !.put = x, !.then = l]
  BY DEF w, IputOf
<1> HIDE DEF u
<1>5. u \in ThType
  BY <1>1, <1>2, <1>3, <1>4 DEF ThType
<1>6. /\ u.pc = "iput" /\ u.then = l /\ u.put = x /\ u.cur = w.cur /\ u.ip = w.ip /\ u.dp = w.dp
      /\ u.goal = w.goal /\ u.rest = w.rest
  BY <1>3, <1>4 DEF ThType
<1>7. Fits(u, l)
  BY <1>3, <1>6 DEF Fits
<1> QED
  BY <1>1, <1>2, <1>3, <1>5, <1>6, <1>7, InPlaceIs DEF Pointing, u

(* After the iput. *)
LEMMA DroppedIs ==
  ASSUME NEW v \in ThType, InPlace(v), v.pc = "iputref", NEW u,
         u = [Rest(v, v.then) EXCEPT !.pc = v.then, !.put = 0, !.then = "user"]
  PROVE  /\ u \in ThType /\ InPlace(u) /\ u.pc = v.then /\ u.then = "user"
         /\ Pointing(u, v.cur, v.ip, v.dp, 0)
<1> DEFINE l == v.then
           w == Rest(v, l)
<1>1. 0 \in 0 .. NINODE
  BY SMTT(30), FsAssumption
<1>2. l \in Place /\ l \in Place \union Putting /\ "user" \in Place /\ "iputref" \in Putting
  BY DEF ThType, Place, Putting
<1>a. Fits(v, l)
  BY <1>2, InPlaceIs
<1>3. w \in ThType /\ w.cur = v.cur /\ w.ip = v.ip /\ w.dp = v.dp /\ Fits(w, l)
  <2>1. CASE l = "user"
    <3>1. "user" \notin CurAt /\ "user" \notin IpAt /\ "user" \notin DpAt /\ "user" # "namex"
      BY SMTT(30) DEF CurAt, IpAt, DpAt
    <3>2. v.cur = 0 /\ v.ip = 0 /\ v.dp = 0
      BY <1>a, <2>1, <3>1 DEF Fits
    <3>3. w = User
      BY <2>1 DEF Rest
    <3> QED
      BY <2>1, <3>1, <3>2, <3>3, UserIs DEF Pointing, Fits
  <2>2. CASE l # "user"
    BY <1>a, <2>2 DEF Rest
  <2> QED
    BY <2>1, <2>2
<1> HIDE DEF w, l
<1>4. u = [w EXCEPT !.pc = l, !.put = 0, !.then = "user"]
  BY DEF w, l
<1>5. u \in ThType
  BY <1>1, <1>2, <1>3, <1>4 DEF ThType
<1>6. /\ u.pc = l /\ u.then = "user" /\ u.put = 0 /\ u.cur = w.cur /\ u.ip = w.ip /\ u.dp = w.dp
      /\ u.goal = w.goal /\ u.rest = w.rest
  BY <1>3, <1>4 DEF ThType
<1>7. Fits(u, l)
  BY <1>3, <1>6 DEF Fits
<1> QED
  BY <1>2, <1>3, <1>5, <1>6, <1>7, InPlaceIs DEF Pointing, l

(* A move to another place. *)
GoesTo(v, l) == IF l = "user" THEN User ELSE [v EXCEPT !.pc = l]
LEMMA ThenIs ==
  ASSUME NEW v \in ThType, NEW l \in Place, l # "user", Fits(v, l), v.put = 0, v.then = "user"
  PROVE  /\ GoesTo(v, l) \in ThType /\ InPlace(GoesTo(v, l)) /\ GoesTo(v, l).pc = l /\ GoesTo(v, l).then = "user"
         /\ Pointing(GoesTo(v, l), v.cur, v.ip, v.dp, 0)
<1> DEFINE u == GoesTo(v, l)
<1>1. u = [v EXCEPT !.pc = l]
  BY DEF GoesTo
<1> HIDE DEF u
<1>2. l \in Place \union Putting
  OBVIOUS
<1>3. u \in ThType
  BY <1>1, <1>2 DEF ThType
<1>4. /\ u.pc = l /\ u.then = "user" /\ u.put = 0 /\ u.cur = v.cur /\ u.ip = v.ip /\ u.dp = v.dp
      /\ u.goal = v.goal /\ u.rest = v.rest
  BY <1>1 DEF ThType
<1>5. Fits(u, l)
  BY <1>4 DEF Fits
<1> QED
  BY <1>3, <1>4, <1>5, InPlaceIs DEF Pointing, u

(* What the process points to, from the variables. *)
Summed(t, i, j, k, x, s) == \A c, o :
  Owns(t, c, o, s) = Bit(c, s) + Bit(o, s) + Bit(i, s) + Bit(j, s) + Bit(k, s) + Bit(x, s)
LEMMA OwnsIs ==
  ASSUME NEW t, NEW i, NEW j, NEW k, NEW x, Pointing(t, i, j, k, x), t.pc # "setcwd", t.then # "setcwd", NEW s
  PROVE  Summed(t, i, j, k, x, s)
  BY DEF Owns, Pointing, Kept, Summed

LEMMA BitIs == \A x, s : Bit(x, s) \in Int /\ (s \in Slot => Bit(0, s) = 0)
  BY SMTT(30), FsAssumption DEF Bit, Slot

-----------------------------------------------------------------------------
(* iput of one of the variables *)

LEMMA PutCur ==
  ASSUME NEW t \in ThType, t.pc # "setcwd", t.then # "setcwd", t.put = 0, t.cur # 0, t.dp = 0,
         NEW l \in {"user", "linked", "linkbad"}, t.ip # 0 <=> l # "user",
         NEW u, u = [Rest([t EXCEPT !["cur"] = 0], l) EXCEPT !.pc = "iput", !.put = t["cur"], !.then = l]
  PROVE  u \in ThType /\ InPlace(u) /\ Same(t, u)
<1> DEFINE v == [t EXCEPT !["cur"] = 0]
<1>1. 0 \in 0 .. NINODE /\ t.cur \in Slot
  BY SMTT(30), FsAssumption DEF ThType, Slot
<1>2. v = [t EXCEPT !.cur = 0] /\ t["cur"] = t.cur
  OBVIOUS
<1>3. v \in ThType /\ v.cur = 0 /\ v.ip = t.ip /\ v.dp = t.dp
  BY <1>1, <1>2 DEF ThType
<1> HIDE DEF v
<1>4. l \in Place /\ l \notin CurAt /\ (l \in IpAt <=> l # "user") /\ (l \in DpAt <=> FALSE) /\ l # "namex"
      /\ l \notin {"create", "unlink", "linkto"} /\ l # "setcwd"
  BY SMTT(30) DEF Place, CurAt, IpAt, DpAt
<1>5. Fits(v, l)
  BY <1>3, <1>4 DEF Fits
<1>6. u = IputOf(v, t.cur, l)
  BY <1>2 DEF v, IputOf
<1>7. /\ u \in ThType /\ InPlace(u) /\ u.pc = "iput" /\ u.then = l
      /\ Pointing(u, 0, t.ip, t.dp, t.cur)
  <2>1. v \in ThType /\ l \in Place /\ t.cur \in Slot
    BY <1>1, <1>3, <1>4
  <2> DEFINE x == t.cur
             y == IputOf(v, x, l)
  <2> HIDE DEF x
  <2>2. y \in ThType /\ InPlace(y) /\ y.pc = "iput" /\ y.then = l /\ Pointing(y, v.cur, v.ip, v.dp, x)
    BY <1>5, <2>1, PutIs DEF x
  <2> QED
    BY <1>3, <1>6, <2>2 DEF x
<1>8. Pointing(t, t.cur, t.ip, t.dp, 0)
  BY DEF Pointing
<1>9. Same(t, u)
  <2>1. ASSUME NEW c, NEW o, NEW s \in Slot
        PROVE  Owns(u, c, o, s) = Owns(t, c, o, s)
    <3>1. "iput" # "setcwd"
      OBVIOUS
    <3>4. Summed(u, 0, t.ip, t.dp, t.cur, s)
      BY <1>4, <1>7, <3>1, OwnsIs
    <3>5. Summed(t, t.cur, t.ip, t.dp, 0, s)
      BY <1>8, OwnsIs
    <3>2. Owns(u, c, o, s) = Bit(c, s) + Bit(o, s) + Bit(0, s) + Bit(t.ip, s) + Bit(t.dp, s) + Bit(t.cur, s)
      BY <3>4 DEF Summed
    <3>3. Owns(t, c, o, s) = Bit(c, s) + Bit(o, s) + Bit(t.cur, s) + Bit(t.ip, s) + Bit(t.dp, s) + Bit(0, s)
      BY <3>5 DEF Summed
    <3> QED
      BY SMTT(30), <3>2, <3>3, BitIs
  <2> QED
    BY <2>1 DEF Same
<1> QED
  BY <1>7, <1>9

LEMMA PutIp ==
  ASSUME NEW t \in ThType, t.pc # "setcwd", t.then # "setcwd", t.put = 0, t.ip # 0, t.cur = 0,
         NEW l \in {"user", "unlinkbad"}, t.dp # 0 <=> l = "unlinkbad",
         NEW u, u = [Rest([t EXCEPT !["ip"] = 0], l) EXCEPT !.pc = "iput", !.put = t["ip"], !.then = l]
  PROVE  u \in ThType /\ InPlace(u) /\ Same(t, u)
<1> DEFINE v == [t EXCEPT !["ip"] = 0]
<1>1. 0 \in 0 .. NINODE /\ t.ip \in Slot
  BY SMTT(30), FsAssumption DEF ThType, Slot
<1>2. v = [t EXCEPT !.ip = 0] /\ t["ip"] = t.ip
  OBVIOUS
<1>3. v \in ThType /\ v.cur = t.cur /\ v.ip = 0 /\ v.dp = t.dp
  BY <1>1, <1>2 DEF ThType
<1> HIDE DEF v
<1>4. l \in Place /\ l \notin CurAt /\ (l \in IpAt <=> FALSE) /\ (l \in DpAt <=> l = "unlinkbad") /\ l # "namex"
      /\ l \notin {"create", "unlink", "linkto"} /\ l # "setcwd"
  BY SMTT(30) DEF Place, CurAt, IpAt, DpAt
<1>5. Fits(v, l)
  BY <1>3, <1>4 DEF Fits
<1>6. u = IputOf(v, t.ip, l)
  BY <1>2 DEF v, IputOf
<1>7. /\ u \in ThType /\ InPlace(u) /\ u.pc = "iput" /\ u.then = l
      /\ Pointing(u, t.cur, 0, t.dp, t.ip)
  <2>1. v \in ThType /\ l \in Place /\ t.ip \in Slot
    BY <1>1, <1>3, <1>4
  <2> DEFINE x == t.ip
             y == IputOf(v, x, l)
  <2> HIDE DEF x
  <2>2. y \in ThType /\ InPlace(y) /\ y.pc = "iput" /\ y.then = l /\ Pointing(y, v.cur, v.ip, v.dp, x)
    BY <1>5, <2>1, PutIs DEF x
  <2> QED
    BY <1>3, <1>6, <2>2 DEF x
<1>8. Pointing(t, t.cur, t.ip, t.dp, 0)
  BY DEF Pointing
<1>9. Same(t, u)
  <2>1. ASSUME NEW c, NEW o, NEW s \in Slot
        PROVE  Owns(u, c, o, s) = Owns(t, c, o, s)
    <3>1. "iput" # "setcwd"
      OBVIOUS
    <3>4. Summed(u, t.cur, 0, t.dp, t.ip, s)
      BY <1>4, <1>7, <3>1, OwnsIs
    <3>5. Summed(t, t.cur, t.ip, t.dp, 0, s)
      BY <1>8, OwnsIs
    <3>2. Owns(u, c, o, s) = Bit(c, s) + Bit(o, s) + Bit(t.cur, s) + Bit(0, s) + Bit(t.dp, s) + Bit(t.ip, s)
      BY <3>4 DEF Summed
    <3>3. Owns(t, c, o, s) = Bit(c, s) + Bit(o, s) + Bit(t.cur, s) + Bit(t.ip, s) + Bit(t.dp, s) + Bit(0, s)
      BY <3>5 DEF Summed
    <3> QED
      BY SMTT(30), <3>2, <3>3, BitIs
  <2> QED
    BY <2>1 DEF Same
<1> QED
  BY <1>7, <1>9

LEMMA PutDp ==
  ASSUME NEW t \in ThType, t.pc # "setcwd", t.then # "setcwd", t.put = 0, t.dp # 0, t.cur = 0,
         NEW l \in {"user", "unlinked", "linkbad"}, t.ip # 0 <=> l # "user",
         NEW u, u = [Rest([t EXCEPT !["dp"] = 0], l) EXCEPT !.pc = "iput", !.put = t["dp"], !.then = l]
  PROVE  u \in ThType /\ InPlace(u) /\ Same(t, u)
<1> DEFINE v == [t EXCEPT !["dp"] = 0]
<1>1. 0 \in 0 .. NINODE /\ t.dp \in Slot
  BY SMTT(30), FsAssumption DEF ThType, Slot
<1>2. v = [t EXCEPT !.dp = 0] /\ t["dp"] = t.dp
  OBVIOUS
<1>3. v \in ThType /\ v.cur = t.cur /\ v.ip = t.ip /\ v.dp = 0
  BY <1>1, <1>2 DEF ThType
<1> HIDE DEF v
<1>4. l \in Place /\ l \notin CurAt /\ (l \in IpAt <=> l # "user") /\ (l \in DpAt <=> FALSE) /\ l # "namex"
      /\ l \notin {"create", "unlink", "linkto"} /\ l # "setcwd"
  BY SMTT(30) DEF Place, CurAt, IpAt, DpAt
<1>5. Fits(v, l)
  BY <1>3, <1>4 DEF Fits
<1>6. u = IputOf(v, t.dp, l)
  BY <1>2 DEF v, IputOf
<1>7. /\ u \in ThType /\ InPlace(u) /\ u.pc = "iput" /\ u.then = l
      /\ Pointing(u, t.cur, t.ip, 0, t.dp)
  <2>1. v \in ThType /\ l \in Place /\ t.dp \in Slot
    BY <1>1, <1>3, <1>4
  <2> DEFINE x == t.dp
             y == IputOf(v, x, l)
  <2> HIDE DEF x
  <2>2. y \in ThType /\ InPlace(y) /\ y.pc = "iput" /\ y.then = l /\ Pointing(y, v.cur, v.ip, v.dp, x)
    BY <1>5, <2>1, PutIs DEF x
  <2> QED
    BY <1>3, <1>6, <2>2 DEF x
<1>8. Pointing(t, t.cur, t.ip, t.dp, 0)
  BY DEF Pointing
<1>9. Same(t, u)
  <2>1. ASSUME NEW c, NEW o, NEW s \in Slot
        PROVE  Owns(u, c, o, s) = Owns(t, c, o, s)
    <3>1. "iput" # "setcwd"
      OBVIOUS
    <3>4. Summed(u, t.cur, t.ip, 0, t.dp, s)
      BY <1>4, <1>7, <3>1, OwnsIs
    <3>5. Summed(t, t.cur, t.ip, t.dp, 0, s)
      BY <1>8, OwnsIs
    <3>2. Owns(u, c, o, s) = Bit(c, s) + Bit(o, s) + Bit(t.cur, s) + Bit(t.ip, s) + Bit(0, s) + Bit(t.dp, s)
      BY <3>4 DEF Summed
    <3>3. Owns(t, c, o, s) = Bit(c, s) + Bit(o, s) + Bit(t.cur, s) + Bit(t.ip, s) + Bit(t.dp, s) + Bit(0, s)
      BY <3>5 DEF Summed
    <3> QED
      BY SMTT(30), <3>2, <3>3, BitIs
  <2> QED
    BY <2>1 DEF Same
<1> QED
  BY <1>7, <1>9

(* The variables that a place in the code uses. *)
InUse(t, i, j, k) == (t.cur # 0 <=> i) /\ (t.ip # 0 <=> j) /\ (t.dp # 0 <=> k)
LEMMA AtIs ==
  ASSUME FsInv, NEW p \in FsProcs, NEW l, At(p, l)
  PROVE  th[p] \in ThType /\ InPlace(th[p]) /\ th[p].pc = l /\ fsHalt = "no"
<1>1. fsHalt = "no" /\ th[p].pc = l
  BY DEF At
<1>2. th \in [FsProcs -> ThType]
  BY InvIs
<1> QED
  BY <1>1, <1>2 DEF FsInv

LEMMA PlaceUses ==
  ASSUME NEW t, InPlace(t), t.pc \in Place
  PROVE  /\ t.put = 0 /\ t.then = "user" /\ t.then # "setcwd"
         /\ t.pc \in {"open", "chdir", "create", "unlink", "link", "setcwd"} => InUse(t, TRUE, FALSE, FALSE)
         /\ t.pc = "namex" => (InUse(t, TRUE, t.goal = "linkto", FALSE) /\ t.goal # "user")
         /\ t.pc = "linkto" => InUse(t, TRUE, TRUE, FALSE)
         /\ t.pc \in {"createfound", "created", "unlinked", "linknew", "linked", "linkbad"} => InUse(t, FALSE, TRUE, FALSE)
         /\ t.pc \in {"unlinkentry", "linkdup"} => InUse(t, FALSE, TRUE, TRUE)
         /\ t.pc = "unlinkbad" => InUse(t, FALSE, FALSE, TRUE)
         /\ t.pc = "user" => InUse(t, FALSE, FALSE, FALSE)
         /\ t.pc \in {"create", "unlink", "linkto"} => t.rest # <<>>
<1>1. Fits(t, t.pc) /\ t.put = 0 /\ t.then = "user" /\ "user" # "setcwd"
  BY InPlaceIs
<1> DEFINE l == t.pc
<1>2. /\ t.cur # 0 <=> l \in CurAt
      /\ t.ip # 0 <=> l \in IpAt \/ (l = "namex" /\ t.goal = "linkto")
      /\ t.dp # 0 <=> l \in DpAt
      /\ l = "namex" => t.goal # "user"
      /\ l \in {"create", "unlink", "linkto"} => t.rest # <<>>
  BY <1>1 DEF Fits
<1> HIDE DEF l
<1>3. l \in {"open", "chdir", "create", "unlink", "link", "setcwd"} => InUse(t, TRUE, FALSE, FALSE)
  BY SMTT(30), <1>2 DEF InUse, CurAt, IpAt, DpAt
<1>4. l = "namex" => InUse(t, TRUE, t.goal = "linkto", FALSE)
  BY SMTT(30), <1>2 DEF InUse, CurAt, IpAt, DpAt
<1>5. l = "linkto" => InUse(t, TRUE, TRUE, FALSE)
  BY SMTT(30), <1>2 DEF InUse, CurAt, IpAt, DpAt
<1>6. l \in {"createfound", "created", "unlinked", "linknew", "linked", "linkbad"} => InUse(t, FALSE, TRUE, FALSE)
  BY SMTT(30), <1>2 DEF InUse, CurAt, IpAt, DpAt
<1>7. l \in {"unlinkentry", "linkdup"} => InUse(t, FALSE, TRUE, TRUE)
  BY SMTT(30), <1>2 DEF InUse, CurAt, IpAt, DpAt
<1>8. l = "unlinkbad" => InUse(t, FALSE, FALSE, TRUE)
  BY SMTT(30), <1>2 DEF InUse, CurAt, IpAt, DpAt
<1>9. l = "user" => InUse(t, FALSE, FALSE, FALSE)
  BY SMTT(30), <1>2 DEF InUse, CurAt, IpAt, DpAt
<1> QED
  BY <1>1, <1>2, <1>3, <1>4, <1>5, <1>6, <1>7, <1>8, <1>9 DEF l

(* A slot that a call points to is in use, and has an inode. *)
LEMMA Used ==
  ASSUME FsInv, NEW p \in FsProcs, NEW s, s # 0, s \in {th[p].cur, th[p].ip, th[p].dp, th[p].put}
  PROVE  s \in Slot /\ inode[s].ref > 0 /\ inode[s].inum \in Inum
<1>1. th[p] \in ThType
  BY InvIs
<1>2. s \in 0 .. NINODE
  BY <1>1 DEF ThType
<1>3. s \in Slot
  BY SMTT(30), <1>2, FsAssumption DEF Slot
<1>4. \E v \in Pointer : PointsTo(p, v) = s
  BY PointsToIs DEF Pointer
<1>5. inode[s].ref > 0
  BY <1>3, <1>4, PointedIsUsed DEF FsInv
<1> QED
  BY <1>3, <1>5 DEF FsInv

LEMMA CwdUsed ==
  ASSUME FsInv, NEW p \in FsProcs, th[p].pc # "setcwd", th[p].then # "setcwd"
  PROVE  cwd[p] \in Slot /\ inode[cwd[p]].ref > 0 /\ inode[cwd[p]].inum \in Inum
<1>1. cwd[p] \in Slot
  BY InvIs
<1>2. PointsTo(p, "cwd") = cwd[p] /\ "cwd" \in Pointer
  BY PointsToIs DEF Pointer, Kept
<1>3. inode[cwd[p]].ref > 0
  BY <1>1, <1>2, PointedIsUsed DEF FsInv
<1> QED
  BY <1>1, <1>3 DEF FsInv

-----------------------------------------------------------------------------
(* Steps that keep the counts *)

LEMMA SameIsSteady == \A p, u : Same(th[p], u) => Steady(p, u)
  BY DEF Same, Steady

LEMMA SamePointing ==
  ASSUME NEW t, NEW u, NEW i, NEW j, NEW k, NEW x, Pointing(t, i, j, k, x), Pointing(u, i, j, k, x),
         t.pc # "setcwd", t.then # "setcwd", u.pc # "setcwd", u.then # "setcwd"
  PROVE  Same(t, u)
<1>1. \A s : Summed(t, i, j, k, x, s) /\ Summed(u, i, j, k, x, s)
  BY OwnsIs
<1>2. ASSUME NEW c, NEW o, NEW s \in Slot
      PROVE  Owns(u, c, o, s) = Owns(t, c, o, s)
  <2>1. Summed(t, i, j, k, x, s) /\ Summed(u, i, j, k, x, s)
    BY <1>1
  <2> QED
    BY <2>1 DEF Summed
<1> QED
  BY <1>2 DEF Same

(* The process moves on to another place, with the same pointers. *)
Moves(p) == \E u \in ThType : InPlace(u) /\ Same(th[p], u) /\ th' = [th EXCEPT ![p] = u]

LEMMA MovesKeep ==
  ASSUME FsInv, NEW p \in FsProcs, Moves(p), fsHalt = "no",
         CacheX(dinode', inode', {}), dent' \in Disk, fsHalt' \in Halts, Like(inode', inode), UNCHANGED <<cwd, ofile>>
  PROVE  FsInv'
<1>1. PICK u \in ThType : InPlace(u) /\ Same(th[p], u) /\ th' = [th EXCEPT ![p] = u]
  BY DEF Moves
<1>2. Steady(p, u)
  BY <1>1, SameIsSteady
<1> QED
  BY <1>1, <1>2, QuietStep

LEMMA MoveKeeps ==
  ASSUME FsInv, NEW p \in FsProcs, Moves(p), fsHalt = "no", UNCHANGED <<dinode, dent, inode, cwd, ofile, fsHalt>>
  PROVE  FsInv'
<1>1. CacheX(dinode', inode', {}) /\ dent' \in Disk /\ fsHalt' \in Halts /\ Like(inode', inode)
  BY InvIs DEF Like
<1> QED
  BY <1>1, MovesKeep

LEMMA LoadKeeps ==
  ASSUME FsInv, NEW p \in FsProcs, Moves(p), fsHalt = "no", NEW s \in Slot, inode[s].ref > 0, inode' = Load(s),
         fsHalt' \in {fsHalt, NoType(s)}, UNCHANGED <<dinode, cwd, ofile>>, dent' \in Disk
  PROVE  FsInv'
<1>1. CacheX(dinode, Load(s), {}) /\ Like(Load(s), inode)
  BY InvIs, LoadIs
<1>2. fsHalt' \in Halts
  BY DEF NoType, Halts
<1> QED
  BY <1>1, <1>2, MovesKeep

LEMMA LinkIs ==
  ASSUME NEW d, NEW ino, CacheX(d, ino, {}), NEW s \in Slot, ino[s].ref > 0, NEW j \in Int
  PROVE  CacheX(iupdate(d, AddLink(ino, s, j), s), AddLink(ino, s, j), {}) /\ Like(AddLink(ino, s, j), ino)
<1> DEFINE a == AddLink(ino, s, j)
           X == {}
           Y == X \union {s}
<1>1. CacheX(d, ino, X)
  OBVIOUS
<1>2. Y \ {s} = {}
  OBVIOUS
<1> HIDE DEF X
<1>3. CacheX(d, a, Y) /\ Like(a, ino)
  BY <1>1, AddLinkIs
<1> HIDE DEF a, Y
<1>4. a[s].ref > 0
  BY <1>3 DEF Like
<1>5. CacheX(iupdate(d, a, s), a, Y \ {s})
  BY <1>3, <1>4, IupdateIs
<1> QED
  BY <1>2, <1>3, <1>5 DEF a

LEMMA LinkKeeps ==
  ASSUME FsInv, NEW p \in FsProcs, Moves(p), fsHalt = "no", fsHalt' \in Halts, dent' \in Disk, UNCHANGED <<cwd, ofile>>,
         NEW ino, CacheX(dinode, ino, {}), Like(ino, inode), NEW s \in Slot, inode[s].ref > 0, NEW j \in Int,
         inode' = AddLink(ino, s, j), dinode' = iupdate(dinode, AddLink(ino, s, j), s)
  PROVE  FsInv'
<1>1. ino[s].ref > 0
  BY DEF Like
<1>2. CacheX(dinode', inode', {}) /\ Like(inode', ino)
  BY <1>1, LinkIs
<1>3. Like(inode', inode)
  BY <1>2 DEF Like
<1> QED
  BY <1>2, <1>3, MovesKeep

LEMMA Spot ==
  ASSUME FsInv, NEW p \in FsProcs, NEW l \in Place, At(p, l)
  PROVE  /\ th[p] \in ThType /\ InPlace(th[p]) /\ th[p].pc = l /\ th[p].pc \in Place /\ fsHalt = "no"
         /\ th[p].put = 0 /\ th[p].then = "user" /\ th[p].then # "setcwd"
<1>1. th[p] \in ThType /\ InPlace(th[p]) /\ th[p].pc = l /\ fsHalt = "no"
  BY AtIs
<1> QED
  BY <1>1, PlaceUses

LEMMA PutsCur ==
  ASSUME FsInv, NEW p \in FsProcs, NEW m \in Place, At(p, m), m # "setcwd", NEW l \in {"user", "linked", "linkbad"},
         InUse(th[p], TRUE, l # "user", FALSE), Put(p, "cur", l)
  PROVE  Moves(p)
<1> DEFINE t == th[p]
           u == [Rest([t EXCEPT !["cur"] = 0], l) EXCEPT !.pc = "iput", !.put = t["cur"], !.then = l]
<1>1. t \in ThType /\ t.pc # "setcwd" /\ t.put = 0 /\ t.then # "setcwd"
  BY Spot
<1>2. t.cur # 0 /\ t.dp = 0 /\ (t.ip # 0 <=> l # "user")
  BY DEF InUse
<1>3. u \in ThType /\ InPlace(u) /\ Same(t, u)
  BY <1>1, <1>2, PutCur
<1>4. th' = [th EXCEPT ![p] = u]
  BY DEF Put, Set
<1> QED
  BY <1>3, <1>4 DEF Moves

LEMMA PutsIp ==
  ASSUME FsInv, NEW p \in FsProcs, NEW m \in Place, At(p, m), m # "setcwd", NEW l \in {"user", "unlinkbad"},
         InUse(th[p], FALSE, TRUE, l = "unlinkbad"), Put(p, "ip", l)
  PROVE  Moves(p)
<1> DEFINE t == th[p]
           u == [Rest([t EXCEPT !["ip"] = 0], l) EXCEPT !.pc = "iput", !.put = t["ip"], !.then = l]
<1>1. t \in ThType /\ t.pc # "setcwd" /\ t.put = 0 /\ t.then # "setcwd"
  BY Spot
<1>2. t.ip # 0 /\ t.cur = 0 /\ (t.dp # 0 <=> l = "unlinkbad")
  BY DEF InUse
<1>3. u \in ThType /\ InPlace(u) /\ Same(t, u)
  BY <1>1, <1>2, PutIp
<1>4. th' = [th EXCEPT ![p] = u]
  BY DEF Put, Set
<1> QED
  BY <1>3, <1>4 DEF Moves

LEMMA PutsDp ==
  ASSUME FsInv, NEW p \in FsProcs, NEW m \in Place, At(p, m), m # "setcwd",
         NEW l \in {"user", "unlinked", "linkbad"}, InUse(th[p], FALSE, l # "user", TRUE), Put(p, "dp", l)
  PROVE  Moves(p)
<1> DEFINE t == th[p]
           u == [Rest([t EXCEPT !["dp"] = 0], l) EXCEPT !.pc = "iput", !.put = t["dp"], !.then = l]
<1>1. t \in ThType /\ t.pc # "setcwd" /\ t.put = 0 /\ t.then # "setcwd"
  BY Spot
<1>2. t.dp # 0 /\ t.cur = 0 /\ (t.ip # 0 <=> l # "user")
  BY DEF InUse
<1>3. u \in ThType /\ InPlace(u) /\ Same(t, u)
  BY <1>1, <1>2, PutDp
<1>4. th' = [th EXCEPT ![p] = u]
  BY DEF Put, Set
<1> QED
  BY <1>3, <1>4 DEF Moves

LEMMA GoesOn ==
  ASSUME FsInv, NEW p \in FsProcs, NEW m \in Place, At(p, m), m # "setcwd", NEW l \in Place, l # "user", l # "setcwd",
         Fits(th[p], l), Then(p, l)
  PROVE  Moves(p)
<1> DEFINE t == th[p]
           u == GoesTo(t, l)
<1>1. t \in ThType /\ t.pc # "setcwd" /\ t.put = 0 /\ t.then = "user" /\ t.then # "setcwd"
  BY Spot
<1>2. u \in ThType /\ InPlace(u) /\ u.pc = l /\ u.then = "user" /\ Pointing(u, t.cur, t.ip, t.dp, 0)
  BY <1>1, ThenIs
<1>3. Pointing(t, t.cur, t.ip, t.dp, 0)
  BY <1>1 DEF Pointing
<1>4. th' = [th EXCEPT ![p] = u]
  BY DEF Then, Set, GoesTo
<1>5. Same(t, u)
  BY <1>1, <1>2, <1>3, SamePointing
<1> QED
  BY <1>2, <1>4, <1>5 DEF Moves

-----------------------------------------------------------------------------
(* The steps that move pointers *)

LEMMA Spots ==
  /\ {"namex", "open", "chdir", "create", "unlink", "link", "linkto", "createfound", "created", "unlinkentry",
      "unlinked", "linknew", "linkdup", "linked", "linkbad", "unlinkbad", "user", "setcwd"} \subseteq Place
  /\ "setcwd" \notin {"namex", "open", "chdir", "create", "unlink", "link", "linkto", "createfound", "created",
      "unlinkentry", "unlinked", "linknew", "linkdup", "linked", "linkbad", "unlinkbad", "user"}
  BY SMTT(30) DEF Place, CurAt, IpAt, DpAt

LEMMA NamexEndKeeps ==
  ASSUME FsInv, NEW p \in FsProcs, NamexEnd(p)
  PROVE  FsInv'
<1> DEFINE t == th[p]
           m == "namex"
<1>1. At(p, m) /\ m \in Place /\ m # "setcwd"
  BY Spots DEF NamexEnd
<1>2. t \in ThType /\ InPlace(t) /\ t.pc = m /\ t.pc \in Place /\ fsHalt = "no"
  BY <1>1, Spot
<1>3. InUse(t, TRUE, t.goal = "linkto", FALSE) /\ t.goal # "user"
  BY <1>2, PlaceUses
<1>4. UNCHANGED <<dinode, dent, inode, cwd, ofile, fsHalt>>
  BY DEF NamexEnd
<1> HIDE DEF m
<1>5. CASE Parent(t)
  <2> DEFINE l == Failed(t)
  <2>1. Put(p, "cur", l)
    BY <1>5 DEF NamexEnd
  <2>2. l \in {"user", "linked", "linkbad"} /\ InUse(t, TRUE, l # "user", FALSE)
    BY <1>3 DEF Failed, InUse
  <2> HIDE DEF l
  <2>3. Moves(p)
    BY <1>1, <2>1, <2>2, PutsCur
  <2> QED
    BY <1>2, <1>4, <2>3, MoveKeeps
<1>6. CASE ~Parent(t)
  <2> DEFINE l == t.goal
  <2>1. Then(p, l)
    BY <1>6 DEF NamexEnd
  <2>2. l \in {"open", "chdir", "link"}
    BY <1>2, <1>3, <1>6 DEF Parent, ThType, Goal
  <2>3. l \in Place /\ l # "user" /\ l \in CurAt /\ l \notin IpAt /\ l \notin DpAt /\ l # "namex" /\ l # "setcwd"
        /\ l \notin {"create", "unlink", "linkto"} /\ l # "linkto"
    BY SMTT(30), <2>2 DEF Place, CurAt, IpAt, DpAt
  <2>4. Fits(t, l)
    BY <1>3, <2>3 DEF InUse, Fits
  <2>5. Moves(p)
    BY <1>1, <2>1, <2>3, <2>4, GoesOn
  <2> QED
    BY <1>2, <1>4, <2>5, MoveKeeps
<1> QED
  BY <1>5, <1>6

LEMMA UnlinkBadKeeps ==
  ASSUME FsInv, NEW p \in FsProcs, UnlinkBad(p)
  PROVE  FsInv'
<1> DEFINE m == "unlinkbad"
           l == "user"
<1>1. At(p, m) /\ m \in Place /\ m # "setcwd"
  BY Spots DEF UnlinkBad
<1>2. InPlace(th[p]) /\ th[p].pc = m /\ th[p].pc \in Place /\ fsHalt = "no"
  BY <1>1, Spot
<1>3. InUse(th[p], FALSE, l # "user", TRUE)
  BY <1>2, PlaceUses
<1>4. Put(p, "dp", l) /\ l \in {"user", "unlinked", "linkbad"}
  BY DEF UnlinkBad
<1> HIDE DEF m, l
<1>5. Moves(p)
  BY <1>1, <1>3, <1>4, PutsDp
<1> QED
  BY <1>2, <1>5, MoveKeeps DEF UnlinkBad

LEMMA LinkDupKeeps ==
  ASSUME FsInv, NEW p \in FsProcs, LinkDup(p)
  PROVE  FsInv'
<1> DEFINE m == "linkdup"
           l == "linkbad"
<1>1. At(p, m) /\ m \in Place /\ m # "setcwd"
  BY Spots DEF LinkDup
<1>2. InPlace(th[p]) /\ th[p].pc = m /\ th[p].pc \in Place /\ fsHalt = "no"
  BY <1>1, Spot
<1>3. InUse(th[p], FALSE, l # "user", TRUE)
  BY <1>2, PlaceUses
<1>4. Put(p, "dp", l) /\ l \in {"user", "unlinked", "linkbad"}
  BY DEF LinkDup
<1> HIDE DEF m, l
<1>5. Moves(p)
  BY <1>1, <1>3, <1>4, PutsDp
<1> QED
  BY <1>2, <1>5, MoveKeeps DEF LinkDup

LEMMA LinkedKeeps ==
  ASSUME FsInv, NEW p \in FsProcs, Linked(p)
  PROVE  FsInv'
<1> DEFINE m == "linked"
           l == "user"
<1>1. At(p, m) /\ m \in Place /\ m # "setcwd"
  BY Spots DEF Linked
<1>2. InPlace(th[p]) /\ th[p].pc = m /\ th[p].pc \in Place /\ fsHalt = "no"
  BY <1>1, Spot
<1>3. InUse(th[p], FALSE, TRUE, l = "unlinkbad")
  BY <1>2, PlaceUses
<1>4. Put(p, "ip", l) /\ l \in {"user", "unlinkbad"}
  BY DEF Linked
<1> HIDE DEF m, l
<1>5. Moves(p)
  BY <1>1, <1>3, <1>4, PutsIp
<1> QED
  BY <1>2, <1>5, MoveKeeps DEF Linked

LEMMA UnlinkedKeeps ==
  ASSUME FsInv, NEW p \in FsProcs, Unlinked(p)
  PROVE  FsInv'
<1> DEFINE m == "unlinked"
           l == "user"
           s == th[p].ip
<1>1. At(p, m) /\ m \in Place /\ m # "setcwd"
  BY Spots DEF Unlinked
<1>2. InPlace(th[p]) /\ th[p].pc = m /\ th[p].pc \in Place /\ fsHalt = "no"
  BY <1>1, Spot
<1>3. InUse(th[p], FALSE, TRUE, l = "unlinkbad")
  BY <1>2, PlaceUses
<1>4. Put(p, "ip", l) /\ l \in {"user", "unlinkbad"}
  BY DEF Unlinked
<1>5. s # 0
  BY <1>3 DEF InUse
<1>6. s \in Slot /\ inode[s].ref > 0
  BY <1>5, Used
<1>7. inode' = AddLink(inode, s, -1) /\ dinode' = iupdate(dinode, AddLink(inode, s, -1), s)
  BY DEF Unlinked
<1>8. CacheX(dinode, inode, {}) /\ Like(inode, inode) /\ dent' \in Disk /\ fsHalt' \in Halts /\ UNCHANGED <<cwd, ofile>>
  BY InvIs DEF Unlinked, Like
<1>9. -1 \in Int
  BY SMTT(30)
<1> HIDE DEF m, l, s
<1>10. Moves(p)
  BY <1>1, <1>3, <1>4, PutsIp
<1> QED
  BY <1>2, <1>6, <1>7, <1>8, <1>9, <1>10, LinkKeeps

LEMMA LinkBadKeeps ==
  ASSUME FsInv, NEW p \in FsProcs, LinkBad(p)
  PROVE  FsInv'
<1> DEFINE m == "linkbad"
           l == "user"
           s == th[p].ip
<1>1. At(p, m) /\ m \in Place /\ m # "setcwd"
  BY Spots DEF LinkBad
<1>2. InPlace(th[p]) /\ th[p].pc = m /\ th[p].pc \in Place /\ fsHalt = "no"
  BY <1>1, Spot
<1>3. InUse(th[p], FALSE, TRUE, l = "unlinkbad")
  BY <1>2, PlaceUses
<1>4. Put(p, "ip", l) /\ l \in {"user", "unlinkbad"}
  BY DEF LinkBad
<1>5. s # 0
  BY <1>3 DEF InUse
<1>6. s \in Slot /\ inode[s].ref > 0
  BY <1>5, Used
<1>7. inode' = AddLink(Load(s), s, -1) /\ dinode' = iupdate(dinode, AddLink(Load(s), s, -1), s)
  BY DEF LinkBad
<1>8. CacheX(dinode, Load(s), {}) /\ Like(Load(s), inode)
  BY <1>6, InvIs, LoadIs
<1>a. dent' \in Disk /\ fsHalt' \in Halts /\ UNCHANGED <<cwd, ofile>>
  BY InvIs DEF LinkBad
<1>9. -1 \in Int
  BY SMTT(30)
<1> HIDE DEF m, l, s
<1>10. Moves(p)
  BY <1>1, <1>3, <1>4, PutsIp
<1> QED
  BY <1>2, <1>6, <1>7, <1>8, <1>9, <1>a, <1>10, LinkKeeps

LEMMA LinkStepKeeps ==
  ASSUME FsInv, NEW p \in FsProcs, sys_link(p)
  PROVE  FsInv'
<1> DEFINE m == "link"
           l == "user"
           t == th[p]
           s == th[p].cur
<1>1. At(p, m) /\ m \in Place /\ m # "setcwd"
  BY Spots DEF sys_link
<1>2. t \in ThType /\ InPlace(t) /\ t.pc = m /\ t.pc \in Place /\ fsHalt = "no" /\ t.put = 0 /\ t.then = "user"
      /\ t.then # "setcwd"
  BY <1>1, Spot
<1>3. InUse(t, TRUE, FALSE, FALSE)
  BY <1>2, PlaceUses
<1>4. s # 0 /\ t.ip = 0 /\ t.dp = 0
  BY <1>3 DEF InUse
<1>5. s \in Slot /\ inode[s].ref > 0
  BY <1>4, Used
<1>6. CacheX(dinode, Load(s), {}) /\ Like(Load(s), inode)
  BY <1>5, InvIs, LoadIs
<1>7. dent' \in Disk /\ UNCHANGED <<cwd, ofile>> /\ fsHalt' = NoType(s)
  BY InvIs DEF sys_link
<1>8. fsHalt' \in Halts
  BY <1>2, <1>7 DEF NoType, Halts
<1>9. CASE Load(s)[s].type = "dir"
  <2>1. inode' = Load(s) /\ Put(p, "cur", l) /\ UNCHANGED dinode
    BY <1>9 DEF sys_link
  <2>2. l \in {"user", "linked", "linkbad"} /\ InUse(t, TRUE, l # "user", FALSE)
    BY <1>3
  <2> HIDE DEF m, l, s, t
  <2>3. Moves(p)
    BY <1>1, <2>1, <2>2, PutsCur DEF t
  <2> QED
    BY <1>2, <1>5, <1>7, <2>1, <2>3, LoadKeeps
<1>10. CASE Load(s)[s].type # "dir"
  <2> DEFINE u == [t EXCEPT !.pc = "linknew", !.cur = 0, !.ip = s]
  <2>1. /\ inode' = AddLink(Load(s), s, 1) /\ dinode' = iupdate(dinode, AddLink(Load(s), s, 1), s)
        /\ th' = [th EXCEPT ![p] = u]
    BY <1>10 DEF sys_link, Set
  <2>2. "linknew" \in Place /\ "linknew" \in Place \union Putting /\ "linknew" # "setcwd" /\ "link" # "setcwd"
    BY SMTT(30) DEF Place, IpAt
  <2>3. 0 \in 0 .. NINODE /\ s \in 0 .. NINODE
    BY SMTT(30), <1>2, FsAssumption DEF ThType
  <2>4. /\ u \in ThType /\ u.pc = "linknew" /\ u.then = "user" /\ u.put = 0 /\ u.cur = 0 /\ u.ip = s /\ u.dp = 0
        /\ u.goal = t.goal /\ u.rest = t.rest
    BY <1>2, <1>4, <2>2, <2>3 DEF ThType
  <2> HIDE DEF u
  <2>5. "linknew" \notin CurAt /\ "linknew" \in IpAt /\ "linknew" \notin DpAt /\ "linknew" # "namex"
        /\ "linknew" \notin {"create", "unlink", "linkto"}
    BY SMTT(30) DEF CurAt, IpAt, DpAt
  <2>6. Fits(u, u.pc)
    BY <1>4, <2>4, <2>5 DEF Fits
  <2>7. InPlace(u)
    BY <2>2, <2>4, <2>6, InPlaceIs
  <2>8. Same(t, u)
    <3>1. ASSUME NEW c, NEW o, NEW r \in Slot
          PROVE  Owns(u, c, o, r) = Owns(t, c, o, r)
      <4>1. Pointing(u, 0, s, 0, 0) /\ Pointing(t, s, 0, 0, 0)
        BY <1>2, <1>4, <2>4 DEF Pointing
      <4>2. Summed(u, 0, s, 0, 0, r)
        BY <1>2, <2>2, <2>4, <4>1, OwnsIs
      <4>3. Summed(t, s, 0, 0, 0, r)
        BY <1>1, <1>2, <4>1, OwnsIs
      <4>4. Owns(u, c, o, r) = Bit(c, r) + Bit(o, r) + Bit(0, r) + Bit(s, r) + Bit(0, r) + Bit(0, r)
        BY <4>2 DEF Summed
      <4>5. Owns(t, c, o, r) = Bit(c, r) + Bit(o, r) + Bit(s, r) + Bit(0, r) + Bit(0, r) + Bit(0, r)
        BY <4>3 DEF Summed
      <4> QED
        BY SMTT(30), <4>4, <4>5, BitIs
    <3> QED
      BY <3>1 DEF Same
  <2>9. Moves(p)
    BY <2>1, <2>4, <2>7, <2>8 DEF Moves
  <2>10. 1 \in Int
    BY SMTT(30)
  <2> QED
    BY <1>2, <1>5, <1>6, <1>7, <1>8, <2>1, <2>9, <2>10, LinkKeeps
<1> QED
  BY <1>9, <1>10

LEMMA EntrySet ==
  ASSUME NEW e \in Disk, NEW d \in Inum, NEW n, NEW i \in 0 .. NINODES
  PROVE  [e EXCEPT ![d][n] = i] \in Disk
<1> DEFINE f == [e[d] EXCEPT ![n] = i]
<1>1. e[d] \in [Entry -> 0 .. NINODES]
  BY DEF Disk
<1>2. f \in [Entry -> 0 .. NINODES]
  BY <1>1
<1>3. [e EXCEPT ![d][n] = i] = [e EXCEPT ![d] = f]
  OBVIOUS
<1> HIDE DEF f
<1> QED
  BY <1>2, <1>3 DEF Disk

LEMMA UnlinkEntryKeeps ==
  ASSUME FsInv, NEW p \in FsProcs, UnlinkEntry(p)
  PROVE  FsInv'
<1> DEFINE m == "unlinkentry"
           t == th[p]
           s == t.ip
           dp == t.dp
           d == inode[dp].inum
           loaded == Load(s)
           isdir == loaded[s].type = "dir"
           updated == IF isdir THEN AddLink(loaded, dp, -1) ELSE loaded
<1>1. At(p, m) /\ m \in Place /\ m # "setcwd"
  BY Spots DEF UnlinkEntry
<1>2. t \in ThType /\ InPlace(t) /\ t.pc = m /\ t.pc \in Place /\ fsHalt = "no"
  BY <1>1, Spot
<1>3. InUse(t, FALSE, TRUE, TRUE)
  BY <1>2, PlaceUses
<1>4. s # 0 /\ dp # 0
  BY <1>3 DEF InUse
<1>5. s \in Slot /\ inode[s].ref > 0 /\ dp \in Slot /\ inode[dp].ref > 0 /\ d \in Inum
  BY <1>4, Used
<1>6. CacheX(dinode, loaded, {}) /\ Like(loaded, inode) /\ dent \in Disk
  BY <1>5, InvIs, LoadIs
<1>7. fsHalt' \in Halts /\ UNCHANGED <<cwd, ofile>>
  BY <1>2 DEF UnlinkEntry, NoType, Halts
<1>8. CASE isdir /\ ~isdirempty(inode[s].inum)
  <2> DEFINE l == "unlinkbad"
  <2>1. inode' = loaded /\ Put(p, "ip", l) /\ UNCHANGED <<dinode, dent>>
    BY <1>8 DEF UnlinkEntry
  <2>2. l \in {"user", "unlinkbad"} /\ InUse(t, FALSE, TRUE, l = "unlinkbad")
    BY <1>3
  <2> HIDE DEF m, l, t, loaded
  <2>3. Moves(p)
    BY <1>1, <2>1, <2>2, PutsIp DEF t
  <2> QED
    BY <1>2, <1>6, <1>7, <2>1, <2>3, MovesKeep
<1>9. CASE ~(isdir /\ ~isdirempty(inode[s].inum))
  <2> DEFINE l == "unlinked"
  <2>1. /\ dent' = [dent EXCEPT ![d][Name(t)] = 0] /\ inode' = updated /\ dinode' = iupdate(dinode, updated, dp)
        /\ Put(p, "dp", l)
    BY <1>9 DEF UnlinkEntry
  <2>2. l \in {"user", "unlinked", "linkbad"} /\ InUse(t, FALSE, l # "user", TRUE)
    BY <1>3
  <2>3. Moves(p)
    <3> HIDE DEF m, l, t
    <3> QED
      BY <1>1, <2>1, <2>2, PutsDp DEF t
  <2>4. dent' \in Disk
    <3>1. 0 \in 0 .. NINODES
      BY SMTT(30), FsAssumption
    <3> QED
      BY <1>5, <1>6, <2>1, <3>1, EntrySet
  <2>5. CASE isdir
    <3>1. inode' = AddLink(loaded, dp, -1) /\ dinode' = iupdate(dinode, AddLink(loaded, dp, -1), dp)
      BY <2>1, <2>5
    <3>2. -1 \in Int
      BY SMTT(30)
    <3> HIDE DEF loaded, dp
    <3> QED
      BY <1>2, <1>5, <1>6, <1>7, <2>3, <2>4, <3>1, <3>2, LinkKeeps
  <2>6. CASE ~isdir
    <3>1. inode' = loaded /\ dinode' = iupdate(dinode, loaded, dp)
      BY <2>1, <2>6
    <3>2. loaded[dp].ref > 0
      BY <1>5, <1>6 DEF Like
    <3> DEFINE X == {}
    <3>3. CacheX(dinode, loaded, X) /\ X \ {dp} = {}
      BY <1>6
    <3> HIDE DEF X, loaded, dp
    <3>4. CacheX(iupdate(dinode, loaded, dp), loaded, X \ {dp})
      BY <1>5, <3>2, <3>3, IupdateIs
    <3>5. CacheX(dinode', inode', {})
      BY <3>1, <3>3, <3>4
    <3> QED
      BY <1>2, <1>6, <1>7, <2>3, <2>4, <3>1, <3>5, MovesKeep
  <2> QED
    BY <2>5, <2>6
<1> QED
  BY <1>8, <1>9

(* iput frees an inode without links that nobody else points to. *)
LEMMA FreeIs ==
  ASSUME CacheX(dinode, inode, {}), NEW s \in Slot, inode[s].ref > 0,
         dinode' = [dinode EXCEPT ![inode[s].inum].type = "free"],
         inode' = [inode EXCEPT ![s] = [inode[s] EXCEPT !.type = "free", !.valid = FALSE]]
  PROVE  CacheX(dinode', inode', {}) /\ Like(inode', inode)
<1> DEFINE n == inode[s].inum
           v == [dinode[n] EXCEPT !.type = "free"]
           k == [inode[s] EXCEPT !.type = "free", !.valid = FALSE]
           X == {}
<1>1. inode \in [Slot -> IType] /\ inode[s] \in IType /\ dinode \in [Inum -> DType] /\ Alone(inode, s, inode[s])
  BY DEF CacheX
<1>2. n \in Inum
  BY <1>1 DEF Alone
<1>3. dinode[n] \in DType
  BY <1>1, <1>2
<1>4. "free" \in Type /\ FALSE \in BOOLEAN
  BY DEF Type
<1>5. v \in DType
  BY <1>3, <1>4 DEF DType
<1>6. k \in IType /\ k.ref = inode[s].ref /\ k.inum = n /\ k.valid = FALSE
  BY <1>1, <1>4 DEF IType
<1>7. dinode' = [dinode EXCEPT ![n] = v] /\ inode' = [inode EXCEPT ![s] = k]
  BY <1>1, <1>2
<1> HIDE DEF v, k
<1>8. Agrees(dinode, k) /\ Alone(inode, s, k)
  BY <1>1, <1>6 DEF Agrees, Alone
<1>9. CacheX(dinode, inode, X) /\ X \subseteq X
  OBVIOUS
<1> HIDE DEF X
<1>10. CacheX(dinode, inode', X)
  <2>1. CacheX(dinode, [inode EXCEPT ![s] = k], X)
    BY <1>6, <1>8, <1>9, SlotSet
  <2> QED
    BY <1>7, <2>1
<1> HIDE DEF n
<1>11. inode'[s] = k /\ \A r \in Slot \ {s} : inode'[r] = inode[r]
  BY <1>1, <1>7
<1>12. dinode' \in [Inum -> DType] /\ \A i \in Inum \ {n} : dinode'[i] = dinode[i]
  BY <1>1, <1>2, <1>5, <1>7
<1>13. ASSUME NEW r \in Slot
       PROVE  Agrees(dinode', inode'[r])
  <2>1. CASE r = s
    BY <1>6, <1>11, <2>1 DEF Agrees
  <2>2. CASE r # s
    <3>1. Alone(inode, r, inode[r]) /\ Agrees(dinode, inode[r]) /\ inode'[r] = inode[r]
      BY <1>11, <2>2 DEF CacheX
    <3>2. inode[r].ref > 0 => (inode[r].inum \in Inum /\ inode[r].inum # n)
      BY <2>2, <3>1 DEF Alone, n
    <3> QED
      BY <1>12, <3>1, <3>2 DEF Agrees
  <2> QED
    BY <2>1, <2>2
<1>14. CacheX(dinode', inode', {})
  BY <1>10, <1>12, <1>13 DEF CacheX
<1> QED
  BY <1>6, <1>11, <1>14 DEF Like, n

LEMMA IputKeeps ==
  ASSUME FsInv, NEW p \in FsProcs, iput(p)
  PROVE  FsInv'
<1> DEFINE t == th[p]
           s == t.put
           u == [t EXCEPT !.pc = "iputref"]
<1>1. At(p, "iput")
  BY DEF iput
<1>2. t \in ThType /\ InPlace(t) /\ t.pc = "iput" /\ fsHalt = "no"
  BY <1>1, AtIs
<1>3. "iput" \in Putting /\ "iputref" \in Putting /\ "iputref" # "user" /\ "iput" # "setcwd" /\ "iputref" # "setcwd"
      /\ "iputref" \in Place \union Putting
  BY DEF Putting
<1>4. Fits(t, t.then) /\ s # 0
  BY <1>2, <1>3, InPlaceIs
<1>5. s \in Slot /\ inode[s].ref > 0
  BY <1>4, Used
<1>6. th' = [th EXCEPT ![p] = u]
  BY <1>3 DEF iput, Then, Set
<1>7. /\ u \in ThType /\ u.pc = "iputref" /\ u.then = t.then /\ u.put = s /\ u.cur = t.cur /\ u.ip = t.ip /\ u.dp = t.dp
      /\ u.goal = t.goal /\ u.rest = t.rest
  BY <1>2, <1>3 DEF ThType
<1> HIDE DEF u
<1>8. InPlace(u)
  <2>1. Fits(u, u.then)
    BY <1>4, <1>7 DEF Fits
  <2> QED
    BY <1>3, <1>4, <1>7, <2>1, InPlaceIs
<1>9. Same(t, u)
  <2>1. \A c : Kept(u, c) = Kept(t, c)
    BY <1>2, <1>3, <1>7 DEF Kept
  <2> QED
    BY <1>7, <2>1 DEF Same, Owns
<1>10. Moves(p)
  BY <1>6, <1>7, <1>8, <1>9 DEF Moves
<1>11. fsHalt' \in Halts /\ UNCHANGED <<cwd, ofile>> /\ dent \in Disk /\ CacheX(dinode, inode, {})
  BY InvIs DEF iput
<1>12. CASE LastRef(s)
  <2> DEFINE n == inode[s].inum
  <2>1. /\ dinode' = [dinode EXCEPT ![n].type = "free"] /\ dent' = [dent EXCEPT ![n] = NoEntries]
        /\ inode' = [inode EXCEPT ![s] = [inode[s] EXCEPT !.type = "free", !.valid = FALSE]]
    BY <1>12 DEF iput
  <2>2. CacheX(dinode', inode', {}) /\ Like(inode', inode)
    BY <1>5, <1>11, <2>1, FreeIs
  <2>3. NoEntries \in [Entry -> 0 .. NINODES]
    BY SMTT(30), FsAssumption DEF NoEntries
  <2>4. dent' \in Disk
    BY <1>11, <2>1, <2>3 DEF Disk
  <2> QED
    BY <1>2, <1>10, <1>11, <2>2, <2>4, MovesKeep
<1>13. CASE ~LastRef(s)
  <2>1. UNCHANGED <<dinode, dent, inode, fsHalt>>
    BY <1>13 DEF iput
  <2> QED
    BY <1>2, <1>10, <1>11, <2>1, MoveKeeps
<1> QED
  BY <1>12, <1>13

LEMMA IputRefKeeps ==
  ASSUME FsInv, NEW p \in FsProcs, IputRef(p)
  PROVE  FsInv'
<1> DEFINE t == th[p]
           s == t.put
           l == t.then
           u == [Rest(t, l) EXCEPT !.pc = l, !.put = 0, !.then = "user"]
           k == [inode[s] EXCEPT !.ref = inode[s].ref - 1]
           X == {}
<1>1. At(p, "iputref")
  BY DEF IputRef
<1>2. t \in ThType /\ InPlace(t) /\ t.pc = "iputref" /\ fsHalt = "no"
  BY <1>1, AtIs
<1>3. "iputref" \in Putting /\ "iputref" # "setcwd" /\ "user" # "setcwd"
  BY DEF Putting
<1>4. s # 0
  BY <1>2, <1>3, InPlaceIs
<1>5. s \in Slot /\ inode[s].ref > 0
  BY <1>4, Used
<1>6. th' = [th EXCEPT ![p] = u] /\ inode' = [inode EXCEPT ![s] = k] /\ UNCHANGED <<dinode, dent, cwd, ofile, fsHalt>>
  BY DEF IputRef, Set
<1>7. u \in ThType /\ InPlace(u) /\ u.pc = l /\ u.then = "user" /\ Pointing(u, t.cur, t.ip, t.dp, 0)
  BY <1>2, DroppedIs
<1> HIDE DEF u
<1>8. /\ CacheX(dinode, inode, X) /\ inode \in [Slot -> IType] /\ dent \in Disk /\ fsHalt \in Halts
      /\ cwd[p] \in Slot /\ cwd = [cwd EXCEPT ![p] = cwd[p]] /\ ofile[p] \in 0 .. NINODE
      /\ ofile = [ofile EXCEPT ![p] = ofile[p]] /\ X \subseteq X
  BY InvIs
<1>9. inode[s] \in IType /\ Alone(inode, s, inode[s]) /\ Agrees(dinode, inode[s])
  BY <1>5, <1>8 DEF CacheX
<1>10. inode[s].ref \in Nat /\ inode[s].ref - 1 \in Nat
  BY SMTT(30), <1>5, <1>9 DEF IType
<1>11. k \in IType /\ k.ref = inode[s].ref - 1 /\ k.inum = inode[s].inum /\ k.valid = inode[s].valid
       /\ k.type = inode[s].type /\ k.nlink = inode[s].nlink
  BY <1>9, <1>10 DEF IType
<1> HIDE DEF k
<1>12. Alone(inode, s, k) /\ Agrees(dinode, k)
  BY <1>5, <1>9, <1>11 DEF Alone, Agrees
<1>13. CacheX(dinode, inode', {})
  <2> HIDE DEF X
  <2>1. CacheX(dinode, inode', X)
    BY <1>5, <1>6, <1>8, <1>11, <1>12, SlotSet
  <2> QED
    BY <2>1 DEF X
<1>14. Refs(p, u, cwd[p], ofile[p])
  <2>1. ASSUME NEW r \in Slot
        PROVE  inode'[r].ref = inode[r].ref - Owns(t, cwd[p], ofile[p], r) + Owns(u, cwd[p], ofile[p], r)
    <3> DEFINE a == Kept(t, cwd[p])
               b == ofile[p]
    <3>1. Kept(u, cwd[p]) = a
      BY <1>2, <1>3, <1>7 DEF Kept
    <3>2. Owns(u, cwd[p], b, r) = Bit(a, r) + Bit(b, r) + Bit(t.cur, r) + Bit(t.ip, r) + Bit(t.dp, r) + Bit(0, r)
      BY <1>7, <3>1 DEF Owns, Pointing
    <3>3. Owns(t, cwd[p], b, r) = Bit(a, r) + Bit(b, r) + Bit(t.cur, r) + Bit(t.ip, r) + Bit(t.dp, r) + Bit(s, r)
      BY DEF Owns
    <3>4. inode'[r].ref = inode[r].ref - Bit(s, r) /\ inode[r].ref \in Int
      <4>1. inode[r].ref \in Int
        BY SMTT(30), <1>8 DEF IType
      <4>2. inode'[r] = IF r = s THEN k ELSE inode[r]
        BY <1>5, <1>6, <1>8
      <4>3. inode[r].ref - 0 = inode[r].ref
        BY SMTT(30), <4>1
      <4> QED
        BY <1>11, <4>1, <4>2, <4>3 DEF Bit
    <3> HIDE DEF a, b
    <3>5. Bit(0, r) = 0 /\ \A x : Bit(x, r) \in Int
      BY BitIs
    <3>6. inode'[r].ref = inode[r].ref - Owns(t, cwd[p], b, r) + Owns(u, cwd[p], b, r)
      BY SMTT(30), <3>2, <3>3, <3>4, <3>5
    <3> QED
      BY <3>6 DEF b
  <2> QED
    BY <2>1 DEF Refs
<1> QED
  BY <1>2, <1>6, <1>7, <1>8, <1>13, <1>14, StepKeeps

-----------------------------------------------------------------------------
(* Descriptors and current directories *)

LEMMA OpensKeeps ==
  ASSUME FsInv, NEW p \in FsProcs, th[p].pc # "setcwd", th[p].then # "setcwd", fsHalt = "no", NEW x \in Slot,
         Pointing(th[p], x, 0, 0, 0) \/ Pointing(th[p], 0, x, 0, 0), ofile[p] = 0,
         th' = [th EXCEPT ![p] = User], ofile' = [ofile EXCEPT ![p] = x], cwd' = cwd,
         CacheX(dinode', inode', {}), Like(inode', inode), dent' \in Disk, fsHalt' \in Halts
  PROVE  FsInv'
<1> DEFINE c == cwd[p]
<1>1. inode \in [Slot -> IType] /\ c \in Slot /\ cwd' = [cwd EXCEPT ![p] = c]
  BY InvIs
<1>2. x \in 0 .. NINODE
  BY SMTT(30), FsAssumption DEF Slot
<1>3. User \in ThType /\ InPlace(User) /\ Pointing(User, 0, 0, 0, 0) /\ User.pc # "setcwd" /\ User.then # "setcwd"
  BY UserIs
<1> HIDE DEF c
<1>4. Refs(p, User, c, x)
  <2>1. ASSUME NEW s \in Slot
        PROVE  inode'[s].ref = inode[s].ref - Owns(th[p], cwd[p], ofile[p], s) + Owns(User, c, x, s)
    <3>1. Summed(User, 0, 0, 0, 0, s)
      BY <1>3, OwnsIs
    <3>2. Owns(User, c, x, s) = Bit(c, s) + Bit(x, s) + Bit(0, s) + Bit(0, s) + Bit(0, s) + Bit(0, s)
      BY <3>1 DEF Summed
    <3>3. Summed(th[p], x, 0, 0, 0, s) \/ Summed(th[p], 0, x, 0, 0, s)
      BY OwnsIs
    <3>4. \/ Owns(th[p], c, 0, s) = Bit(c, s) + Bit(0, s) + Bit(x, s) + Bit(0, s) + Bit(0, s) + Bit(0, s)
          \/ Owns(th[p], c, 0, s) = Bit(c, s) + Bit(0, s) + Bit(0, s) + Bit(x, s) + Bit(0, s) + Bit(0, s)
      BY <3>3 DEF Summed
    <3>5. Bit(0, s) = 0 /\ Bit(x, s) \in Int /\ Bit(c, s) \in Int
      BY BitIs
    <3>6. inode'[s].ref = inode[s].ref
      BY DEF Like
    <3>7. inode[s].ref \in Int
      BY SMTT(30), <1>1 DEF IType
    <3>8. inode'[s].ref = inode[s].ref - Owns(th[p], c, 0, s) + Owns(User, c, x, s)
      BY SMTT(30), <3>2, <3>4, <3>5, <3>6, <3>7
    <3> QED
      BY <3>8 DEF c
  <2> QED
    BY <2>1 DEF Refs
<1> QED
  BY <1>1, <1>2, <1>3, <1>4, StepKeeps

LEMMA OpenKeeps ==
  ASSUME FsInv, NEW p \in FsProcs, sys_open(p)
  PROVE  FsInv'
<1> DEFINE m == "open"
           l == "user"
           t == th[p]
           s == t.cur
<1>1. At(p, m) /\ m \in Place /\ m # "setcwd"
  BY Spots DEF sys_open
<1>2. t \in ThType /\ InPlace(t) /\ t.pc = m /\ t.pc \in Place /\ fsHalt = "no" /\ t.put = 0 /\ t.then # "setcwd"
  BY <1>1, Spot
<1>3. InUse(t, TRUE, FALSE, FALSE)
  BY <1>2, PlaceUses
<1>4. s # 0 /\ t.ip = 0 /\ t.dp = 0
  BY <1>3 DEF InUse
<1>5. s \in Slot /\ inode[s].ref > 0
  BY <1>4, Used
<1>6. inode' = Load(s) /\ fsHalt' = NoType(s) /\ UNCHANGED <<dinode, dent, cwd>>
  BY DEF sys_open
<1>7. CASE Put(p, "cur", l) /\ UNCHANGED ofile
  <2>1. l \in {"user", "linked", "linkbad"} /\ InUse(t, TRUE, l # "user", FALSE)
    BY <1>3
  <2> HIDE DEF m, l, t, s
  <2>2. Moves(p)
    BY <1>1, <1>7, <2>1, PutsCur DEF t
  <2>3. dent' \in Disk
    BY <1>6, InvIs
  <2> QED
    BY <1>2, <1>5, <1>6, <1>7, <2>2, <2>3, LoadKeeps
<1>8. CASE ofile[p] = 0 /\ ofile' = [ofile EXCEPT ![p] = t["cur"]] /\ Then(p, "user")
  <2>1. th' = [th EXCEPT ![p] = User] /\ ofile' = [ofile EXCEPT ![p] = s]
    BY <1>8 DEF Then, Set
  <2>2. Pointing(t, s, 0, 0, 0)
    BY <1>2, <1>4 DEF Pointing
  <2>3. CacheX(dinode, Load(s), {}) /\ Like(Load(s), inode) /\ dent \in Disk
    BY <1>5, InvIs, LoadIs
  <2>4. fsHalt' \in Halts
    BY <1>2, <1>6 DEF NoType, Halts
  <2> QED
    BY <1>1, <1>2, <1>5, <1>6, <1>8, <2>1, <2>2, <2>3, <2>4, OpensKeeps
<1> QED
  BY <1>7, <1>8 DEF sys_open, Opened

LEMMA CreateFoundKeeps ==
  ASSUME FsInv, NEW p \in FsProcs, CreateFound(p)
  PROVE  FsInv'
<1> DEFINE m == "createfound"
           l == "user"
           t == th[p]
           s == t.ip
<1>1. At(p, m) /\ m \in Place /\ m # "setcwd"
  BY Spots DEF CreateFound
<1>2. t \in ThType /\ InPlace(t) /\ t.pc = m /\ t.pc \in Place /\ fsHalt = "no" /\ t.put = 0 /\ t.then # "setcwd"
  BY <1>1, Spot
<1>3. InUse(t, FALSE, TRUE, FALSE)
  BY <1>2, PlaceUses
<1>4. s # 0 /\ t.cur = 0 /\ t.dp = 0
  BY <1>3 DEF InUse
<1>5. s \in Slot /\ inode[s].ref > 0
  BY <1>4, Used
<1>6. inode' = Load(s) /\ fsHalt' = NoType(s) /\ UNCHANGED <<dinode, dent, cwd>>
  BY DEF CreateFound
<1>7. CASE Put(p, "ip", l) /\ UNCHANGED ofile
  <2>1. l \in {"user", "unlinkbad"} /\ InUse(t, FALSE, TRUE, l = "unlinkbad")
    BY <1>3
  <2> HIDE DEF m, l, t, s
  <2>2. Moves(p)
    BY <1>1, <1>7, <2>1, PutsIp DEF t
  <2>3. dent' \in Disk
    BY <1>6, InvIs
  <2> QED
    BY <1>2, <1>5, <1>6, <1>7, <2>2, <2>3, LoadKeeps
<1>8. CASE ofile[p] = 0 /\ ofile' = [ofile EXCEPT ![p] = t["ip"]] /\ Then(p, "user")
  <2>1. th' = [th EXCEPT ![p] = User] /\ ofile' = [ofile EXCEPT ![p] = s]
    BY <1>8 DEF Then, Set
  <2>2. Pointing(t, 0, s, 0, 0)
    BY <1>2, <1>4 DEF Pointing
  <2>3. CacheX(dinode, Load(s), {}) /\ Like(Load(s), inode) /\ dent \in Disk
    BY <1>5, InvIs, LoadIs
  <2>4. fsHalt' \in Halts
    BY <1>2, <1>6 DEF NoType, Halts
  <2> QED
    BY <1>1, <1>2, <1>5, <1>6, <1>8, <2>1, <2>2, <2>3, <2>4, OpensKeeps
<1> QED
  BY <1>7, <1>8 DEF CreateFound, Opened

LEMMA CreatedKeeps ==
  ASSUME FsInv, NEW p \in FsProcs, Created(p)
  PROVE  FsInv'
<1> DEFINE m == "created"
           l == "user"
           t == th[p]
           s == t.ip
<1>1. At(p, m) /\ m \in Place /\ m # "setcwd"
  BY Spots DEF Created
<1>2. t \in ThType /\ InPlace(t) /\ t.pc = m /\ t.pc \in Place /\ fsHalt = "no" /\ t.put = 0 /\ t.then # "setcwd"
  BY <1>1, Spot
<1>3. InUse(t, FALSE, TRUE, FALSE)
  BY <1>2, PlaceUses
<1>4. s # 0 /\ t.cur = 0 /\ t.dp = 0
  BY <1>3 DEF InUse
<1>5. s \in Slot
  BY <1>4, Used
<1>6. UNCHANGED <<dinode, dent, inode, cwd, fsHalt>>
  BY DEF Created
<1>7. CASE Put(p, "ip", l) /\ UNCHANGED ofile
  <2>1. l \in {"user", "unlinkbad"} /\ InUse(t, FALSE, TRUE, l = "unlinkbad")
    BY <1>3
  <2> HIDE DEF m, l, t, s
  <2>2. Moves(p)
    BY <1>1, <1>7, <2>1, PutsIp DEF t
  <2> QED
    BY <1>2, <1>6, <1>7, <2>2, MoveKeeps
<1>8. CASE ofile[p] = 0 /\ ofile' = [ofile EXCEPT ![p] = t["ip"]] /\ Then(p, "user")
  <2>1. th' = [th EXCEPT ![p] = User] /\ ofile' = [ofile EXCEPT ![p] = s]
    BY <1>8 DEF Then, Set
  <2>2. Pointing(t, 0, s, 0, 0)
    BY <1>2, <1>4 DEF Pointing
  <2>3. CacheX(dinode', inode', {}) /\ Like(inode', inode) /\ dent' \in Disk /\ fsHalt' \in Halts
    BY <1>6, InvIs DEF Like
  <2> QED
    BY <1>1, <1>2, <1>5, <1>6, <1>8, <2>1, <2>2, <2>3, OpensKeeps
<1> QED
  BY <1>7, <1>8 DEF Created, Opened

LEMMA CloseKeeps ==
  ASSUME FsInv, NEW p \in FsProcs, sys_close(p)
  PROVE  FsInv'
<1> DEFINE m == "user"
           l == "user"
           t == th[p]
           x == ofile[p]
           c == cwd[p]
           u == IputOf(t, x, l)
<1>1. At(p, m) /\ m \in Place /\ m # "setcwd"
  BY Spots DEF sys_close
<1>2. t \in ThType /\ InPlace(t) /\ t.pc = m /\ t.pc \in Place /\ fsHalt = "no" /\ t.put = 0 /\ t.then # "setcwd"
  BY <1>1, Spot
<1>3. InUse(t, FALSE, FALSE, FALSE)
  BY <1>2, PlaceUses
<1>4. Pointing(t, 0, 0, 0, 0)
  BY <1>2, <1>3 DEF InUse, Pointing
<1>5. x # 0 /\ th' = [th EXCEPT ![p] = u] /\ ofile' = [ofile EXCEPT ![p] = 0]
      /\ UNCHANGED <<dinode, dent, inode, cwd, fsHalt>>
  BY DEF sys_close, PutSlot, Set, IputOf
<1>6. x \in 0 .. NINODE /\ c \in Slot /\ cwd = [cwd EXCEPT ![p] = c] /\ inode \in [Slot -> IType]
      /\ CacheX(dinode, inode, {}) /\ dent \in Disk /\ fsHalt \in Halts
  BY InvIs
<1>7. x \in Slot /\ 0 \in 0 .. NINODE
  BY SMTT(30), <1>5, <1>6, FsAssumption DEF Slot
<1>8. Fits(t, l)
  BY <1>2, InPlaceIs
<1> HIDE DEF m, x, c
<1>9. u \in ThType /\ InPlace(u) /\ u.pc = "iput" /\ u.then = l /\ Pointing(u, t.cur, t.ip, t.dp, x)
  BY <1>2, <1>1, <1>7, <1>8, PutIs DEF m
<1>10. Pointing(u, 0, 0, 0, x) /\ u.pc # "setcwd" /\ u.then # "setcwd"
  BY <1>4, <1>9 DEF Pointing
<1> HIDE DEF u, l
<1>11. Refs(p, u, c, 0)
  <2>1. ASSUME NEW s \in Slot
        PROVE  inode'[s].ref = inode[s].ref - Owns(t, cwd[p], ofile[p], s) + Owns(u, c, 0, s)
    <3>1. Summed(u, 0, 0, 0, x, s) /\ Summed(t, 0, 0, 0, 0, s)
      BY <1>1, <1>2, <1>4, <1>10, OwnsIs
    <3>2. Owns(u, c, 0, s) = Bit(c, s) + Bit(0, s) + Bit(0, s) + Bit(0, s) + Bit(0, s) + Bit(x, s)
      BY <3>1 DEF Summed
    <3>3. Owns(t, c, x, s) = Bit(c, s) + Bit(x, s) + Bit(0, s) + Bit(0, s) + Bit(0, s) + Bit(0, s)
      BY <3>1 DEF Summed
    <3>4. Bit(0, s) = 0 /\ Bit(x, s) \in Int /\ Bit(c, s) \in Int
      BY BitIs
    <3>5. inode'[s].ref = inode[s].ref /\ inode[s].ref \in Int
      BY SMTT(30), <1>5, <1>6 DEF IType
    <3>6. inode'[s].ref = inode[s].ref - Owns(t, c, x, s) + Owns(u, c, 0, s)
      BY SMTT(30), <3>2, <3>3, <3>4, <3>5
    <3> QED
      BY <3>6 DEF c, x
  <2> QED
    BY <2>1 DEF Refs
<1> QED
  BY <1>2, <1>5, <1>6, <1>7, <1>9, <1>11, StepKeeps

LEMMA ChdirKeeps ==
  ASSUME FsInv, NEW p \in FsProcs, sys_chdir(p)
  PROVE  FsInv'
<1> DEFINE m == "chdir"
           t == th[p]
           s == t.cur
<1>1. At(p, m) /\ m \in Place /\ m # "setcwd"
  BY Spots DEF sys_chdir
<1>2. t \in ThType /\ InPlace(t) /\ t.pc = m /\ t.pc \in Place /\ fsHalt = "no" /\ t.put = 0 /\ t.then # "setcwd"
  BY <1>1, Spot
<1>3. InUse(t, TRUE, FALSE, FALSE)
  BY <1>2, PlaceUses
<1>4. s # 0 /\ t.ip = 0 /\ t.dp = 0
  BY <1>3 DEF InUse
<1>5. s \in Slot /\ inode[s].ref > 0
  BY <1>4, Used
<1>6. inode' = Load(s) /\ fsHalt' = NoType(s) /\ UNCHANGED <<dinode, dent, cwd, ofile>>
  BY DEF sys_chdir
<1>7. dent' \in Disk /\ fsHalt' \in Halts
  BY <1>2, <1>6, InvIs DEF NoType, Halts
<1>8. CASE Load(s)[s].type # "dir"
  <2> DEFINE l == "user"
  <2>1. l \in {"user", "linked", "linkbad"} /\ InUse(t, TRUE, l # "user", FALSE) /\ Put(p, "cur", l)
    BY <1>3, <1>8 DEF sys_chdir
  <2> HIDE DEF m, l, t, s
  <2>2. Moves(p)
    BY <1>1, <2>1, PutsCur DEF t
  <2> QED
    BY <1>2, <1>5, <1>6, <1>7, <2>2, LoadKeeps
<1>9. CASE Load(s)[s].type = "dir"
  <2> DEFINE l == "setcwd"
             c == cwd[p]
             u == IputOf(t, c, l)
  <2>1. th' = [th EXCEPT ![p] = u]
    BY <1>9 DEF sys_chdir, PutSlot, Set, IputOf
  <2>2. c \in Slot
    BY InvIs
  <2>3. l \in Place /\ l \in CurAt /\ l \notin IpAt /\ l \notin DpAt /\ l # "namex" /\ l \notin {"create", "unlink", "linkto"}
    BY SMTT(30) DEF Place, CurAt, IpAt, DpAt
  <2>4. Fits(t, l)
    BY <1>4, <2>3 DEF Fits
  <2>5. u \in ThType /\ InPlace(u) /\ u.pc = "iput" /\ u.then = l /\ Pointing(u, t.cur, t.ip, t.dp, c)
    BY <1>2, <2>2, <2>3, <2>4, PutIs
  <2> HIDE DEF u, c
  <2>6. Steady(p, u)
    <3>1. ASSUME NEW r \in Slot
          PROVE  Owns(u, cwd[p], ofile[p], r) = Owns(t, cwd[p], ofile[p], r)
      <4> DEFINE o == ofile[p]
      <4>1. Kept(u, c) = 0 /\ Kept(t, c) = c
        BY <1>1, <1>2, <2>5 DEF Kept
      <4>2. Owns(u, c, o, r) = Bit(0, r) + Bit(o, r) + Bit(s, r) + Bit(t.ip, r) + Bit(t.dp, r) + Bit(c, r)
        BY <2>5, <4>1 DEF Owns, Pointing
      <4>3. Owns(t, c, o, r) = Bit(c, r) + Bit(o, r) + Bit(s, r) + Bit(t.ip, r) + Bit(t.dp, r) + Bit(0, r)
        BY <1>2, <4>1 DEF Owns
      <4>4. Bit(0, r) = 0 /\ \A x : Bit(x, r) \in Int
        BY BitIs
      <4> HIDE DEF o
      <4>5. Owns(u, c, o, r) = Owns(t, c, o, r)
        BY SMTT(30), <4>2, <4>3, <4>4
      <4> QED
        BY <4>5 DEF c, o
    <3> QED
      BY <3>1 DEF Steady
  <2>7. CacheX(dinode, Load(s), {}) /\ Like(Load(s), inode)
    BY <1>5, InvIs, LoadIs
  <2> QED
    BY <1>2, <1>6, <1>7, <2>1, <2>5, <2>6, <2>7, QuietStep
<1> QED
  BY <1>8, <1>9

LEMMA SetCwdKeeps ==
  ASSUME FsInv, NEW p \in FsProcs, SetCwd(p)
  PROVE  FsInv'
<1> DEFINE m == "setcwd"
           t == th[p]
           c == t.cur
           o == ofile[p]
<1>1. At(p, m) /\ m \in Place
  BY Spots DEF SetCwd
<1>2. t \in ThType /\ InPlace(t) /\ t.pc = m /\ t.pc \in Place /\ fsHalt = "no" /\ t.put = 0 /\ t.then # "setcwd"
  BY <1>1, Spot
<1>3. InUse(t, TRUE, FALSE, FALSE)
  BY <1>2, PlaceUses
<1>4. c # 0 /\ t.ip = 0 /\ t.dp = 0
  BY <1>3 DEF InUse
<1>5. c \in Slot
  BY <1>4, Used
<1>6. th' = [th EXCEPT ![p] = User] /\ cwd' = [cwd EXCEPT ![p] = c] /\ UNCHANGED <<dinode, dent, inode, ofile, fsHalt>>
  BY DEF SetCwd, Then, Set
<1>7. /\ CacheX(dinode, inode, {}) /\ dent \in Disk /\ fsHalt \in Halts /\ inode \in [Slot -> IType]
      /\ o \in 0 .. NINODE /\ ofile = [ofile EXCEPT ![p] = o]
  BY InvIs
<1>8. User \in ThType /\ InPlace(User) /\ Pointing(User, 0, 0, 0, 0) /\ User.pc # "setcwd" /\ User.then # "setcwd"
  BY UserIs
<1> HIDE DEF o
<1>9. Refs(p, User, c, o)
  <2>1. ASSUME NEW s \in Slot
        PROVE  inode'[s].ref = inode[s].ref - Owns(t, cwd[p], ofile[p], s) + Owns(User, c, o, s)
    <3>1. Summed(User, 0, 0, 0, 0, s)
      BY <1>8, OwnsIs
    <3>2. Owns(User, c, o, s) = Bit(c, s) + Bit(o, s) + Bit(0, s) + Bit(0, s) + Bit(0, s) + Bit(0, s)
      BY <3>1 DEF Summed
    <3>3. Kept(t, cwd[p]) = 0
      BY <1>2 DEF Kept
    <3>4. Owns(t, cwd[p], o, s) = Bit(0, s) + Bit(o, s) + Bit(c, s) + Bit(0, s) + Bit(0, s) + Bit(0, s)
      BY <1>2, <1>4, <3>3 DEF Owns
    <3>5. Bit(0, s) = 0 /\ Bit(o, s) \in Int /\ Bit(c, s) \in Int
      BY BitIs
    <3>6. inode'[s].ref = inode[s].ref /\ inode[s].ref \in Int
      BY SMTT(30), <1>6, <1>7 DEF IType
    <3> DEFINE a == Owns(t, cwd[p], o, s)
    <3> HIDE DEF a, c
    <3>7. inode'[s].ref = inode[s].ref - a + Owns(User, c, o, s)
      BY SMTT(30), <3>2, <3>4, <3>5, <3>6 DEF a
    <3> QED
      BY <3>7 DEF a, o
  <2> QED
    BY <2>1 DEF Refs
<1> QED
  BY <1>2, <1>5, <1>6, <1>7, <1>8, <1>9, StepKeeps

-----------------------------------------------------------------------------
(* The steps that get a pointer *)

Balance(i, j, k, z, i2, j2, k2, z2, x) == \A s \in Slot :
  Bit(i2, s) + Bit(j2, s) + Bit(k2, s) + Bit(z2, s) = Bit(i, s) + Bit(j, s) + Bit(k, s) + Bit(z, s) + Bit(x, s)
LEMMA MoreIs ==
  ASSUME NEW t, NEW u, t.pc # "setcwd", t.then # "setcwd", u.pc # "setcwd", u.then # "setcwd", NEW x,
         NEW i, NEW j, NEW k, NEW z, Pointing(t, i, j, k, z), NEW i2, NEW j2, NEW k2, NEW z2, Pointing(u, i2, j2, k2, z2),
         Balance(i, j, k, z, i2, j2, k2, z2, x)
  PROVE  More(t, u, x)
<1>1. ASSUME NEW c, NEW o, NEW s \in Slot
      PROVE  Owns(u, c, o, s) = Owns(t, c, o, s) + Bit(x, s)
  <2>1. Summed(t, i, j, k, z, s) /\ Summed(u, i2, j2, k2, z2, s)
    BY OwnsIs
  <2>2. Owns(t, c, o, s) = Bit(c, s) + Bit(o, s) + Bit(i, s) + Bit(j, s) + Bit(k, s) + Bit(z, s)
    BY <2>1 DEF Summed
  <2>3. Owns(u, c, o, s) = Bit(c, s) + Bit(o, s) + Bit(i2, s) + Bit(j2, s) + Bit(k2, s) + Bit(z2, s)
    BY <2>1 DEF Summed
  <2>4. \A y : Bit(y, s) \in Int
    BY BitIs
  <2>5. Bit(i2, s) + Bit(j2, s) + Bit(k2, s) + Bit(z2, s) = Bit(i, s) + Bit(j, s) + Bit(k, s) + Bit(z, s) + Bit(x, s)
    BY DEF Balance
  <2> QED
    BY SMTT(30), <2>2, <2>3, <2>4, <2>5
<1> QED
  BY <1>1 DEF More

LEMMA LoadGetIs ==
  ASSUME FsInv, NEW s \in Slot, inode[s].ref > 0, NEW i \in Inum, inode' = iget(Load(s), i), dinode' = dinode
  PROVE  CacheX(dinode', inode', {}) /\ Grown(SlotFor(i))
<1> DEFINE X == {}
           ino == Load(s)
<1>1. CacheX(dinode, ino, X) /\ Like(ino, inode) /\ inode \in [Slot -> IType]
  BY InvIs, LoadIs
<1> HIDE DEF X, ino
<1>2. CacheX(dinode, iget(ino, i), X) /\ Gotten(ino, i)
  BY <1>1, IgetIs
<1> QED
  BY <1>2 DEF X, ino, Gotten, Grown

LEMMA FullIs ==
  ASSUME NEW i, fsHalt = "no", fsHalt' = Full(i)
  PROVE  fsHalt' \in Halts /\ (fsHalt' = "no" => SlotFor(i) # 0)
  BY DEF Full, Halts

(* The inode that an entry of a directory names. *)
LEMMA EntryIs ==
  ASSUME FsInv, NEW d \in Inum, NEW n \in Entry, dent[d][n] # 0
  PROVE  dent[d][n] \in Inum
<1>1. dent[d][n] \in 0 .. NINODES
  BY InvIs DEF Disk
<1> QED
  BY SMTT(30), <1>1, FsAssumption DEF Inum

LEMMA NameIs ==
  ASSUME NEW t \in ThType, t.rest # <<>>
  PROVE  Head(t.rest) \in Entry /\ Tail(t.rest) \in Seq(Entry)
<1>1. t.rest \in Seq(Entry)
  BY DEF ThType
<1> QED
  BY SMTT(30), <1>1

LEMMA NamexFromKeeps ==
  ASSUME FsInv, NEW p \in FsProcs, fsHalt = "no", NEW t \in ThType, NEW path \in PathName,
         NEW goal \in Goal \ {"user"}, NEW j, j # 0 <=> goal = "linkto", Pointing(t, 0, j, 0, 0), t.then = "user",
         Pointing(th[p], 0, j, 0, 0), th[p].pc # "setcwd", th[p].then # "setcwd",
         NamexFrom(p, t, path, goal), UNCHANGED <<dinode, dent, cwd, ofile>>
  PROVE  FsInv'
<1> DEFINE x == IF Absolute(path) THEN SlotFor(1) ELSE cwd[p]
           rest == IF Absolute(path) THEN Tail(path) ELSE path
           u == [t EXCEPT !.pc = "namex", !.goal = goal, !.rest = rest, !.cur = x]
<1>1. th' = [th EXCEPT ![p] = u]
  BY DEF NamexFrom, Set
<1>2. /\ CacheX(dinode, inode, {}) /\ inode \in [Slot -> IType] /\ dent \in Disk /\ fsHalt \in Halts
      /\ cwd[p] \in Slot /\ inode[cwd[p]].ref > 0
  BY InvIs, CwdUsed
<1>3. x \in 0 .. NINODE /\ (~Absolute(path) => x # 0)
  <2>1. cwd[p] \in 0 .. NINODE /\ cwd[p] # 0
    BY SMTT(30), <1>2, FsAssumption DEF Slot
  <2>2. SlotFor(1) \in 0 .. NINODE
    BY <1>2, SlotForRange
  <2> QED
    BY <2>1, <2>2
<1>4. rest \in Seq(Entry)
  BY DEF PathName
<1>5. "namex" \in Place \union Putting /\ "namex" \in Place /\ "namex" # "setcwd" /\ "user" # "setcwd"
  BY DEF Place, CurAt
<1>6. 1 \in Inum
  BY SMTT(30), FsAssumption DEF Inum
<1> HIDE DEF rest, x
<1>7. /\ u \in ThType /\ u.pc = "namex" /\ u.then = "user" /\ u.goal = goal /\ Pointing(u, x, j, 0, 0)
  BY <1>3, <1>4, <1>5 DEF ThType, Pointing
<1> HIDE DEF u
<1>8. x # 0 => InPlace(u)
  <2>1. "namex" \in CurAt /\ "namex" \notin IpAt /\ "namex" \notin DpAt /\ "namex" \notin {"create", "unlink", "linkto"}
    BY SMTT(30) DEF CurAt, IpAt, DpAt
  <2>2. x # 0 => Fits(u, u.pc)
    BY <1>7, <2>1 DEF Fits, Pointing
  <2> QED
    BY <1>5, <1>7, <2>2, InPlaceIs DEF Pointing
<1>9. More(th[p], u, x)
  <2>1. ASSUME NEW s \in Slot
        PROVE  Bit(x, s) + Bit(j, s) + Bit(0, s) + Bit(0, s) = Bit(0, s) + Bit(j, s) + Bit(0, s) + Bit(0, s) + Bit(x, s)
    <3>1. Bit(0, s) = 0 /\ Bit(j, s) \in Int /\ Bit(x, s) \in Int
      BY BitIs
    <3> QED
      BY SMTT(30), <3>1
  <2>2. Balance(0, j, 0, 0, x, j, 0, 0, x)
    BY <2>1 DEF Balance
  <2>3. u.pc # "setcwd" /\ u.then # "setcwd"
    BY <1>5, <1>7
  <2> QED
    BY <1>7, <2>2, <2>3, MoreIs
<1>10. CacheX(dinode', inode', {}) /\ Grown(x) /\ fsHalt' \in Halts /\ (fsHalt' = "no" => x # 0)
  <2>1. CASE Absolute(path)
    <3>1. x = SlotFor(1) /\ inode' = iget(inode, 1) /\ fsHalt' = Full(1)
      BY <2>1 DEF NamexFrom, x
    <3> DEFINE X == {}
               i == 1
    <3>2. CacheX(dinode, inode, X) /\ Like(inode, inode) /\ i \in Inum
      BY <1>2, <1>6 DEF Like
    <3> HIDE DEF X, i
    <3>3. CacheX(dinode, iget(inode, i), X) /\ Gotten(inode, i)
      BY <1>2, <3>2, IgetIs
    <3>4. CacheX(dinode', inode', {}) /\ Grown(x)
      BY <3>1, <3>3 DEF X, i, Gotten, Grown
    <3> QED
      BY <3>1, <3>4, FullIs
  <2>2. CASE ~Absolute(path)
    <3> DEFINE k == [inode[x] EXCEPT !.ref = inode[x].ref + 1]
               X == {}
    <3>1. x = cwd[p] /\ inode' = [inode EXCEPT ![x] = k] /\ fsHalt' = fsHalt
      BY <2>2 DEF NamexFrom, x
    <3>2. x \in Slot /\ inode[x].ref > 0
      BY <1>2, <3>1
    <3>3. inode[x] \in IType /\ Alone(inode, x, inode[x]) /\ Agrees(dinode, inode[x])
      BY <1>2, <3>2 DEF CacheX
    <3>4. inode[x].ref + 1 \in Nat /\ inode[x].ref + 1 > 0
      BY SMTT(30), <3>3 DEF IType
    <3>5. k \in IType /\ k.ref = inode[x].ref + 1 /\ k.inum = inode[x].inum /\ k.valid = inode[x].valid
          /\ k.type = inode[x].type /\ k.nlink = inode[x].nlink
      BY <3>3, <3>4 DEF IType
    <3> HIDE DEF k
    <3>6. Alone(inode, x, k) /\ Agrees(dinode, k)
      BY <3>2, <3>3, <3>5 DEF Alone, Agrees
    <3>7. CacheX(dinode, inode, X) /\ X \subseteq X
      BY <1>2
    <3> HIDE DEF X
    <3>8. CacheX(dinode, [inode EXCEPT ![x] = k], X)
      BY <3>2, <3>5, <3>6, <3>7, SlotSet
    <3>9. ASSUME NEW r \in Slot
          PROVE  inode'[r].ref = inode[r].ref + Bit(x, r)
      <4>1. inode'[r] = IF r = x THEN k ELSE inode[r]
        BY <1>2, <3>1, <3>2
      <4>2. inode[r].ref = inode[r].ref + 0
        BY SMTT(30), <1>2 DEF IType
      <4> QED
        BY <3>5, <4>1, <4>2 DEF Bit
    <3> QED
      BY <1>2, <1>3, <2>2, <3>1, <3>8, <3>9 DEF X, Grown
  <2> QED
    BY <2>1, <2>2
<1> QED
  BY <1>1, <1>2, <1>7, <1>8, <1>9, <1>10, GetStep

LEMMA SyscallKeeps ==
  ASSUME FsInv, NEW p \in FsProcs, NEW call \in Calls[p], Syscall(p, call)
  PROVE  FsInv'
<1> DEFINE m == "user"
           t == [User EXCEPT !.call = call]
           goal == CASE call.op \in {"create", "mkdir", "mknod"} -> "create" [] OTHER -> call.op
           j == 0
<1>1. At(p, m) /\ m \in Place /\ m # "setcwd"
  BY Spots DEF Syscall
<1>2. th[p] \in ThType /\ InPlace(th[p]) /\ th[p].pc = m /\ th[p].pc \in Place /\ fsHalt = "no" /\ th[p].put = 0
      /\ th[p].then # "setcwd"
  BY <1>1, Spot
<1>3. InUse(th[p], FALSE, FALSE, FALSE)
  BY <1>2, PlaceUses
<1>4. Pointing(th[p], 0, j, 0, 0)
  BY <1>2, <1>3 DEF InUse, Pointing
<1>5. call \in [op : Operations, path : PathName, new : PathName]
  BY CallAssumption
<1>6. call.path \in PathName /\ call.op \in Operations
  BY <1>5
<1>7. call \in [op : Operations \union {"none"}, path : PathName, new : PathName]
  BY <1>5
<1>8. User \in ThType /\ Pointing(User, 0, 0, 0, 0) /\ User.then = "user"
  BY UserIs
<1>9. t \in ThType /\ Pointing(t, 0, j, 0, 0) /\ t.then = "user"
  BY <1>7, <1>8 DEF ThType, Pointing
<1>10. goal \in Goal \ {"user"} /\ goal # "linkto" /\ (j # 0 <=> goal = "linkto")
  BY SMTT(30), <1>6 DEF Goal, Operations
<1>11. NamexFrom(p, t, call.path, goal) /\ UNCHANGED <<dinode, dent, cwd, ofile>>
  BY DEF Syscall
<1> HIDE DEF m, t, goal, j
<1> QED
  BY <1>1, <1>2, <1>4, <1>6, <1>9, <1>10, <1>11, NamexFromKeeps

LEMMA LinkNewKeeps ==
  ASSUME FsInv, NEW p \in FsProcs, LinkNew(p)
  PROVE  FsInv'
<1> DEFINE m == "linknew"
           t == th[p]
           j == t.ip
           goal == "linkto"
           path == t.call.new
<1>1. At(p, m) /\ m \in Place /\ m # "setcwd"
  BY Spots DEF LinkNew
<1>2. t \in ThType /\ InPlace(t) /\ t.pc = m /\ t.pc \in Place /\ fsHalt = "no" /\ t.put = 0 /\ t.then = "user"
      /\ t.then # "setcwd"
  BY <1>1, Spot
<1>3. InUse(t, FALSE, TRUE, FALSE)
  BY <1>2, PlaceUses
<1>4. Pointing(t, 0, j, 0, 0) /\ j # 0
  BY <1>2, <1>3 DEF InUse, Pointing
<1>5. goal \in Goal \ {"user"} /\ (j # 0 <=> goal = "linkto")
  BY <1>4 DEF Goal
<1>6. path \in PathName
  BY <1>2 DEF ThType
<1>7. NamexFrom(p, t, path, goal) /\ UNCHANGED <<dinode, dent, cwd, ofile>>
  BY DEF LinkNew
<1> HIDE DEF m, j, goal, path
<1> QED
  BY <1>1, <1>2, <1>4, <1>5, <1>6, <1>7, NamexFromKeeps

LEMMA NamexStepKeeps ==
  ASSUME FsInv, NEW p \in FsProcs, NamexStep(p)
  PROVE  FsInv'
<1> DEFINE m == "namex"
           t == th[p]
           s == t.cur
           d == inode[s].inum
           i == dent[d][Head(t.rest)]
<1>1. At(p, m) /\ m \in Place /\ m # "setcwd" /\ t.rest # <<>>
  BY Spots DEF NamexStep
<1>2. t \in ThType /\ InPlace(t) /\ t.pc = m /\ t.pc \in Place /\ fsHalt = "no" /\ t.put = 0 /\ t.then = "user"
      /\ t.then # "setcwd"
  BY <1>1, Spot
<1>3. InUse(t, TRUE, t.goal = "linkto", FALSE) /\ t.goal # "user"
  BY <1>2, PlaceUses
<1>4. s # 0 /\ t.dp = 0 /\ (t.ip # 0 <=> t.goal = "linkto")
  BY <1>3 DEF InUse
<1>5. s \in Slot /\ inode[s].ref > 0 /\ d \in Inum
  BY <1>4, Used
<1>6. dent' \in Disk /\ UNCHANGED <<dinode, dent, cwd, ofile>>
  BY InvIs DEF NamexStep
<1>7. ASSUME inode' = Load(s), Put(p, "cur", Failed(t)), fsHalt' \in {fsHalt, NoType(s)}
      PROVE  FsInv'
  <2> DEFINE l == Failed(t)
  <2>1. l \in {"user", "linked", "linkbad"} /\ InUse(t, TRUE, l # "user", FALSE) /\ Put(p, "cur", l)
    BY <1>3, <1>7 DEF Failed, InUse
  <2> HIDE DEF m, l
  <2>2. Moves(p)
    BY <1>1, <2>1, PutsCur
  <2> QED
    BY <1>2, <1>5, <1>6, <1>7, <2>2, LoadKeeps
<1>8. ASSUME inode' = Load(s), Parent(t), Then(p, t.goal), fsHalt' = fsHalt
      PROVE  FsInv'
  <2> DEFINE l == t.goal
  <2>1. l \in {"create", "unlink", "linkto"}
    BY <1>8 DEF Parent
  <2>2. l \in Place /\ l # "user" /\ l \in CurAt /\ (l \in IpAt <=> l = "linkto") /\ l \notin DpAt /\ l # "namex" /\ l # "setcwd"
    BY SMTT(30), <2>1 DEF Place, CurAt, IpAt, DpAt
  <2>3. Fits(t, l)
    BY <1>1, <1>4, <2>2 DEF Fits
  <2> HIDE DEF m
  <2>4. Moves(p)
    BY <1>1, <1>8, <2>2, <2>3, GoesOn
  <2> QED
    BY <1>2, <1>5, <1>6, <1>8, <2>4, LoadKeeps
<1>9. ASSUME i # 0, inode' = iget(Load(s), i), fsHalt' = Full(i),
             Set(p, [t EXCEPT !.pc = "iput", !.put = s, !.then = "namex", !.cur = SlotFor(i), !.rest = Tail(t.rest)])
      PROVE  FsInv'
  <2> DEFINE x == SlotFor(i)
             rest == Tail(t.rest)
             u == [t EXCEPT !.pc = "iput", !.put = s, !.then = "namex", !.cur = x, !.rest = rest]
  <2>1. th' = [th EXCEPT ![p] = u]
    BY <1>9 DEF Set
  <2>2. Head(t.rest) \in Entry /\ rest \in Seq(Entry)
    BY <1>1, <1>2, NameIs
  <2>3. i \in Inum
    BY <1>5, <1>9, <2>2, EntryIs
  <2>4. CacheX(dinode', inode', {}) /\ Grown(x)
    BY <1>5, <1>6, <1>9, <2>3, LoadGetIs
  <2>5. fsHalt' \in Halts /\ (fsHalt' = "no" => x # 0)
    BY <1>2, <1>9, FullIs
  <2>6. x \in 0 .. NINODE /\ s \in 0 .. NINODE
    BY <1>2, InvIs, SlotForRange DEF ThType
  <2>7. "iput" \in Place \union Putting /\ "iput" \in Putting /\ "iput" # "setcwd" /\ "namex" \in Place
        /\ "namex" # "setcwd"
    BY Spots DEF Putting
  <2> HIDE DEF x, rest
  <2>8. u \in ThType /\ u.pc = "iput" /\ u.then = "namex" /\ u.goal = t.goal /\ Pointing(u, x, t.ip, 0, s)
    BY <1>2, <1>4, <2>2, <2>6, <2>7 DEF ThType, Pointing
  <2> HIDE DEF u
  <2>9. x # 0 => InPlace(u)
    <3>1. "namex" \in CurAt /\ "namex" \notin IpAt /\ "namex" \notin DpAt /\ "namex" \notin {"create", "unlink", "linkto"}
      BY SMTT(30) DEF CurAt, IpAt, DpAt
    <3>2. x # 0 => Fits(u, u.then)
      BY <1>3, <1>4, <2>8, <3>1 DEF Fits, Pointing
    <3> QED
      BY <1>4, <2>7, <2>8, <3>2, InPlaceIs DEF Pointing
  <2>10. More(t, u, x)
    <3>1. ASSUME NEW r \in Slot
          PROVE  Bit(x, r) + Bit(t.ip, r) + Bit(0, r) + Bit(s, r) = Bit(s, r) + Bit(t.ip, r) + Bit(0, r) + Bit(0, r) + Bit(x, r)
      <4>1. Bit(0, r) = 0 /\ \A y : Bit(y, r) \in Int
        BY BitIs
      <4> QED
        BY SMTT(30), <4>1
    <3>2. Balance(s, t.ip, 0, 0, x, t.ip, 0, s, x)
      BY <3>1 DEF Balance
    <3>3. Pointing(t, s, t.ip, 0, 0)
      BY <1>2, <1>4 DEF Pointing
    <3>4. u.pc # "setcwd" /\ u.then # "setcwd" /\ t.pc # "setcwd"
      BY <1>1, <1>2, <2>7, <2>8
    <3> HIDE DEF t, s
    <3> QED
      BY <1>2, <2>8, <3>2, <3>3, <3>4, MoreIs
  <2> QED
    BY <1>2, <1>6, <2>1, <2>4, <2>5, <2>8, <2>9, <2>10, GetStep
<1> QED
  BY <1>7, <1>8, <1>9 DEF NamexStep

LEMMA CreateExistsKeeps ==
  ASSUME FsInv, NEW p \in FsProcs, CreateExists(p)
  PROVE  FsInv'
<1> DEFINE m == "create"
           t == th[p]
           s == t.cur
           d == inode[s].inum
           i == dent[d][Head(t.rest)]
           x == SlotFor(i)
           u == [t EXCEPT !.pc = "iput", !.put = s, !.cur = 0, !.then = "createfound", !.ip = x]
<1>1. At(p, m) /\ m \in Place /\ m # "setcwd" /\ i # 0
  BY Spots DEF CreateExists, Name
<1>2. t \in ThType /\ InPlace(t) /\ t.pc = m /\ t.pc \in Place /\ fsHalt = "no" /\ t.put = 0 /\ t.then # "setcwd"
  BY <1>1, Spot
<1>3. InUse(t, TRUE, FALSE, FALSE) /\ t.rest # <<>>
  BY <1>2, PlaceUses
<1>4. s # 0 /\ t.ip = 0 /\ t.dp = 0
  BY <1>3 DEF InUse
<1>5. s \in Slot /\ inode[s].ref > 0 /\ d \in Inum
  BY <1>4, Used
<1>6. /\ inode' = iget(Load(s), i) /\ fsHalt' = Full(i) /\ th' = [th EXCEPT ![p] = u]
      /\ UNCHANGED <<dinode, dent, cwd, ofile>>
  BY DEF CreateExists, Set, Name
<1>7. i \in Inum
  BY <1>1, <1>2, <1>3, <1>5, NameIs, EntryIs
<1>8. CacheX(dinode', inode', {}) /\ Grown(x) /\ dent' \in Disk
  BY <1>5, <1>6, <1>7, LoadGetIs, InvIs
<1>9. fsHalt' \in Halts /\ (fsHalt' = "no" => x # 0)
  BY <1>2, <1>6, FullIs
<1>10. x \in 0 .. NINODE /\ s \in 0 .. NINODE
  BY <1>2, InvIs, SlotForRange DEF ThType
<1>11. 0 \in 0 .. NINODE
  BY SMTT(30), FsAssumption
<1>12. "iput" \in Place \union Putting /\ "iput" \in Putting /\ "iput" # "setcwd" /\ "createfound" \in Place
       /\ "createfound" # "setcwd"
  BY Spots DEF Putting
<1> HIDE DEF x
<1>13. u \in ThType /\ u.pc = "iput" /\ u.then = "createfound" /\ Pointing(u, 0, x, 0, s)
  BY <1>2, <1>4, <1>10, <1>11, <1>12 DEF ThType, Pointing
<1> HIDE DEF u
<1>14. x # 0 => InPlace(u)
  <2>1. "createfound" \notin CurAt /\ "createfound" \in IpAt /\ "createfound" \notin DpAt /\ "createfound" # "namex"
        /\ "createfound" \notin {"create", "unlink", "linkto"}
    BY SMTT(30) DEF CurAt, IpAt, DpAt
  <2>2. x # 0 => Fits(u, u.then)
    BY <1>13, <2>1 DEF Fits, Pointing
  <2> QED
    BY <1>4, <1>12, <1>13, <2>2, InPlaceIs DEF Pointing
<1>15. More(t, u, x)
  <2>1. ASSUME NEW r \in Slot
        PROVE  Bit(0, r) + Bit(x, r) + Bit(0, r) + Bit(s, r) = Bit(s, r) + Bit(0, r) + Bit(0, r) + Bit(0, r) + Bit(x, r)
    <3>1. Bit(0, r) = 0 /\ \A y : Bit(y, r) \in Int
      BY BitIs
    <3> QED
      BY SMTT(30), <3>1
  <2>2. Balance(s, 0, 0, 0, 0, x, 0, s, x)
    BY <2>1 DEF Balance
  <2>3. Pointing(t, s, 0, 0, 0)
    BY <1>2, <1>4 DEF Pointing
  <2>4. u.pc # "setcwd" /\ u.then # "setcwd" /\ t.pc # "setcwd"
    BY <1>1, <1>2, <1>12, <1>13
  <2> HIDE DEF t, s
  <2> QED
    BY <1>2, <1>13, <2>2, <2>3, <2>4, MoreIs
<1> QED
  BY <1>2, <1>6, <1>8, <1>9, <1>13, <1>14, <1>15, GetStep

LEMMA UnlinkKeeps ==
  ASSUME FsInv, NEW p \in FsProcs, sys_unlink(p)
  PROVE  FsInv'
<1> DEFINE m == "unlink"
           t == th[p]
           s == t.cur
           d == inode[s].inum
           i == dent[d][Head(t.rest)]
           x == SlotFor(i)
           u == [t EXCEPT !.pc = "unlinkentry", !.dp = s, !.cur = 0, !.ip = x]
<1>1. At(p, m) /\ m \in Place /\ m # "setcwd"
  BY Spots DEF sys_unlink
<1>2. t \in ThType /\ InPlace(t) /\ t.pc = m /\ t.pc \in Place /\ fsHalt = "no" /\ t.put = 0 /\ t.then = "user"
      /\ t.then # "setcwd"
  BY <1>1, Spot
<1>3. InUse(t, TRUE, FALSE, FALSE) /\ t.rest # <<>>
  BY <1>2, PlaceUses
<1>4. s # 0 /\ t.ip = 0 /\ t.dp = 0
  BY <1>3 DEF InUse
<1>5. s \in Slot /\ inode[s].ref > 0 /\ d \in Inum
  BY <1>4, Used
<1>6. UNCHANGED <<dinode, dent, cwd, ofile>> /\ dent' \in Disk
  BY InvIs DEF sys_unlink
<1>7. CASE Name(t) \in {".", ".."} \/ i = 0
  <2> DEFINE l == "user"
  <2>1. inode' = Load(s) /\ Put(p, "cur", l) /\ fsHalt' = fsHalt
    BY <1>7 DEF sys_unlink, Name
  <2>2. l \in {"user", "linked", "linkbad"} /\ InUse(t, TRUE, l # "user", FALSE)
    BY <1>3
  <2> HIDE DEF m, l
  <2>3. Moves(p)
    BY <1>1, <2>1, <2>2, PutsCur
  <2> QED
    BY <1>2, <1>5, <1>6, <2>1, <2>3, LoadKeeps
<1>8. CASE ~(Name(t) \in {".", ".."} \/ i = 0)
  <2>1. i # 0 /\ inode' = iget(Load(s), i) /\ fsHalt' = Full(i) /\ th' = [th EXCEPT ![p] = u]
    BY <1>8 DEF sys_unlink, Set, Name
  <2>2. i \in Inum
    BY <1>2, <1>3, <1>5, <2>1, NameIs, EntryIs
  <2>3. CacheX(dinode', inode', {}) /\ Grown(x)
    BY <1>5, <1>6, <2>1, <2>2, LoadGetIs
  <2>4. fsHalt' \in Halts /\ (fsHalt' = "no" => x # 0)
    BY <1>2, <2>1, FullIs
  <2>5. x \in 0 .. NINODE /\ s \in 0 .. NINODE
    BY <1>2, InvIs, SlotForRange DEF ThType
  <2>6. 0 \in 0 .. NINODE
    BY SMTT(30), FsAssumption
  <2>7. "unlinkentry" \in Place \union Putting /\ "unlinkentry" \in Place /\ "unlinkentry" # "setcwd"
    BY Spots
  <2> HIDE DEF x
  <2>8. u \in ThType /\ u.pc = "unlinkentry" /\ u.then = "user" /\ Pointing(u, 0, x, s, 0)
    BY <1>2, <2>5, <2>6, <2>7 DEF ThType, Pointing
  <2> HIDE DEF u
  <2>9. x # 0 => InPlace(u)
    <3>1. "unlinkentry" \notin CurAt /\ "unlinkentry" \in IpAt /\ "unlinkentry" \in DpAt /\ "unlinkentry" # "namex"
          /\ "unlinkentry" \notin {"create", "unlink", "linkto"}
      BY SMTT(30) DEF CurAt, IpAt, DpAt
    <3>2. x # 0 => Fits(u, u.pc)
      BY <1>4, <2>8, <3>1 DEF Fits, Pointing
    <3> QED
      BY <2>7, <2>8, <3>2, InPlaceIs DEF Pointing
  <2>10. More(t, u, x)
    <3>1. ASSUME NEW r \in Slot
          PROVE  Bit(0, r) + Bit(x, r) + Bit(s, r) + Bit(0, r) = Bit(s, r) + Bit(0, r) + Bit(0, r) + Bit(0, r) + Bit(x, r)
      <4>1. Bit(0, r) = 0 /\ \A y : Bit(y, r) \in Int
        BY BitIs
      <4> QED
        BY SMTT(30), <4>1
    <3>2. Balance(s, 0, 0, 0, 0, x, s, 0, x)
      BY <3>1 DEF Balance
    <3>3. Pointing(t, s, 0, 0, 0)
      BY <1>2, <1>4 DEF Pointing
    <3>4. u.pc # "setcwd" /\ u.then # "setcwd" /\ t.pc # "setcwd"
      BY <1>1, <1>2, <2>7, <2>8
    <3> HIDE DEF t, s
    <3> QED
      BY <1>2, <2>8, <3>2, <3>3, <3>4, MoreIs
  <2> QED
    BY <1>2, <1>6, <2>1, <2>3, <2>4, <2>8, <2>9, <2>10, GetStep
<1> QED
  BY <1>7, <1>8

LEMMA DirlinkKeeps ==
  ASSUME FsInv, NEW p \in FsProcs, dirlink(p)
  PROVE  FsInv'
<1> DEFINE m == "linkto"
           t == th[p]
           s == t.cur
           j == t.ip
           d == inode[s].inum
           i == dent[d][Head(t.rest)]
           x == SlotFor(i)
           u == [t EXCEPT !.pc = "iput", !.put = x, !.then = "linkdup", !.cur = 0, !.dp = s]
<1>1. At(p, m) /\ m \in Place /\ m # "setcwd"
  BY Spots DEF dirlink
<1>2. t \in ThType /\ InPlace(t) /\ t.pc = m /\ t.pc \in Place /\ fsHalt = "no" /\ t.put = 0 /\ t.then = "user"
      /\ t.then # "setcwd"
  BY <1>1, Spot
<1>3. InUse(t, TRUE, TRUE, FALSE) /\ t.rest # <<>>
  BY <1>2, PlaceUses
<1>4. s # 0 /\ j # 0 /\ t.dp = 0
  BY <1>3 DEF InUse
<1>5. s \in Slot /\ inode[s].ref > 0 /\ d \in Inum /\ inode[j].inum \in Inum
  BY <1>4, Used
<1>6. UNCHANGED <<dinode, cwd, ofile>> /\ dent \in Disk
  BY InvIs DEF dirlink
<1>7. CASE i = 0
  <2> DEFINE l == "linked"
  <2>1. /\ inode' = Load(s) /\ Put(p, "cur", l) /\ fsHalt' = fsHalt
        /\ dent' = [dent EXCEPT ![d][Name(t)] = inode[j].inum]
    BY <1>7 DEF dirlink, Name
  <2>2. l \in {"user", "linked", "linkbad"} /\ InUse(t, TRUE, l # "user", FALSE)
    BY <1>3
  <2>3. inode[j].inum \in 0 .. NINODES
    BY SMTT(30), <1>5, FsAssumption DEF Inum
  <2>4. dent' \in Disk
    BY <1>5, <1>6, <2>1, <2>3, EntrySet
  <2> HIDE DEF m, l
  <2>5. Moves(p)
    BY <1>1, <2>1, <2>2, PutsCur
  <2> QED
    BY <1>2, <1>5, <1>6, <2>1, <2>4, <2>5, LoadKeeps
<1>8. CASE i # 0
  <2>1. inode' = iget(Load(s), i) /\ fsHalt' = Full(i) /\ th' = [th EXCEPT ![p] = u] /\ dent' = dent
    BY <1>8 DEF dirlink, Set, Name
  <2>2. i \in Inum
    BY <1>2, <1>3, <1>5, <1>8, NameIs, EntryIs
  <2>3. CacheX(dinode', inode', {}) /\ Grown(x)
    BY <1>5, <1>6, <2>1, <2>2, LoadGetIs
  <2>4. fsHalt' \in Halts /\ (fsHalt' = "no" => x # 0)
    BY <1>2, <2>1, FullIs
  <2>5. x \in 0 .. NINODE /\ s \in 0 .. NINODE
    BY <1>2, InvIs, SlotForRange DEF ThType
  <2>6. 0 \in 0 .. NINODE
    BY SMTT(30), FsAssumption
  <2>7. "iput" \in Place \union Putting /\ "iput" \in Putting /\ "iput" # "setcwd" /\ "linkdup" \in Place /\ "linkdup" # "setcwd"
    BY Spots DEF Putting
  <2> HIDE DEF x
  <2>8. u \in ThType /\ u.pc = "iput" /\ u.then = "linkdup" /\ Pointing(u, 0, j, s, x)
    BY <1>2, <2>5, <2>6, <2>7 DEF ThType, Pointing
  <2> HIDE DEF u
  <2>9. x # 0 => InPlace(u)
    <3>1. "linkdup" \notin CurAt /\ "linkdup" \in IpAt /\ "linkdup" \in DpAt /\ "linkdup" # "namex"
          /\ "linkdup" \notin {"create", "unlink", "linkto"}
      BY SMTT(30) DEF CurAt, IpAt, DpAt
    <3>2. x # 0 => Fits(u, u.then)
      BY <1>4, <2>8, <3>1 DEF Fits, Pointing
    <3> QED
      BY <2>7, <2>8, <3>2, InPlaceIs DEF Pointing
  <2>10. More(t, u, x)
    <3>1. ASSUME NEW r \in Slot
          PROVE  Bit(0, r) + Bit(j, r) + Bit(s, r) + Bit(x, r) = Bit(s, r) + Bit(j, r) + Bit(0, r) + Bit(0, r) + Bit(x, r)
      <4>1. Bit(0, r) = 0 /\ \A y : Bit(y, r) \in Int
        BY BitIs
      <4> QED
        BY SMTT(30), <4>1
    <3>2. Balance(s, j, 0, 0, 0, j, s, x, x)
      BY <3>1 DEF Balance
    <3>3. Pointing(t, s, j, 0, 0)
      BY <1>2, <1>4 DEF Pointing
    <3>4. u.pc # "setcwd" /\ u.then # "setcwd" /\ t.pc # "setcwd"
      BY <1>1, <1>2, <2>7, <2>8
    <3> HIDE DEF t, s, j
    <3> QED
      BY <1>2, <2>8, <3>2, <3>3, <3>4, MoreIs
  <2> QED
    BY <1>2, <1>6, <2>1, <2>3, <2>4, <2>8, <2>9, <2>10, GetStep
<1> QED
  BY <1>7, <1>8

(* create fills the new inode and its slot, and writes both inodes. *)
LEMMA FilledIs ==
  ASSUME FsInv, NEW c \in Slot, inode[c].ref > 0, NEW loaded, CacheX(dinode, loaded, {c}), Like(loaded, inode),
         NEW i \in Inum, SlotFor(i) # 0, NEW y \in Type, NEW got,
         got = [iget(loaded, i) EXCEPT ![SlotFor(i)] = [@ EXCEPT !.valid = TRUE, !.type = y, !.nlink = 1]],
         inode' = got, dinode' = iupdate(iupdate(dinode, got, SlotFor(i)), got, c)
  PROVE  CacheX(dinode', inode', {}) /\ Grown(SlotFor(i))
<1> DEFINE s == SlotFor(i)
           g == iget(loaded, i)
           k == [g[s] EXCEPT !.valid = TRUE, !.type = y, !.nlink = 1]
           X == {c}
           Y == {c, s}
<1>1. inode \in [Slot -> IType]
  BY InvIs
<1>2. s \in Slot
  BY <1>1, SlotForIs
<1>3. CacheX(dinode, g, X) /\ Gotten(loaded, i) /\ g[s].ref > 0 /\ g[s].inum = i
  <2> HIDE DEF X
  <2>1. CacheX(dinode, loaded, X)
    BY DEF X
  <2> QED
    BY <1>1, <2>1, IgetIs
<1>4. g \in [Slot -> IType] /\ g[s] \in IType /\ Alone(g, s, g[s])
  <2> HIDE DEF g, s, X
  <2> QED
    BY <1>2, <1>3 DEF CacheX
<1>5. k \in IType /\ k.ref = g[s].ref /\ k.inum = g[s].inum
  <2>1. 1 \in Int
    BY SMTT(30)
  <2> HIDE DEF g, s
  <2> QED
    BY <1>4, <2>1 DEF IType
<1>6. got = [g EXCEPT ![s] = k]
  OBVIOUS
<1> HIDE DEF k
<1>7. Alone(g, s, k)
  BY <1>4, <1>5 DEF Alone
<1>8. X \subseteq Y /\ s \in Y /\ (Y \ {s}) \ {c} = {} /\ c \in Slot
  OBVIOUS
<1> HIDE DEF g, s, X, Y
<1>9. CacheX(dinode, got, Y)
  <2>1. CacheX(dinode, [g EXCEPT ![s] = k], Y)
    BY <1>2, <1>3, <1>5, <1>7, <1>8, SlotSet
  <2> QED
    BY <1>6, <2>1
<1>10. \A r \in Slot : got[r].ref = g[r].ref
  BY <1>2, <1>4, <1>5, <1>6
<1>11. \A r \in Slot : got[r].ref = inode[r].ref + Bit(s, r)
  BY <1>3, <1>10 DEF Gotten, g, s
<1>12. got[s].ref > 0 /\ got[c].ref > 0
  <2>1. Bit(s, c) \in {0, 1}
    BY DEF Bit
  <2>2. got[c].ref = inode[c].ref + Bit(s, c)
    BY <1>11
  <2>3. got[c].ref > 0
    <3>1. inode[c].ref \in Nat
      BY <1>1, IFields
    <3> QED
      BY SMTT(30), <2>1, <2>2, <3>1
  <2> QED
    BY <1>2, <1>3, <1>10, <2>3
<1>13. CacheX(iupdate(dinode, got, s), got, Y \ {s})
  BY <1>2, <1>9, <1>12, IupdateIs
<1>14. CacheX(iupdate(iupdate(dinode, got, s), got, c), got, (Y \ {s}) \ {c})
  <2> DEFINE e == iupdate(dinode, got, s)
             Z == Y \ {s}
  <2>1. CacheX(e, got, Z)
    BY <1>13
  <2> HIDE DEF e, Z
  <2>2. CacheX(iupdate(e, got, c), got, Z \ {c})
    BY <1>12, <2>1, IupdateIs
  <2> QED
    BY <2>2 DEF e, Z
<1>15. CacheX(dinode', inode', {})
  BY <1>8, <1>14 DEF s
<1> QED
  BY <1>11, <1>15 DEF Grown, s

LEMMA CreateKeeps ==
  ASSUME FsInv, NEW p \in FsProcs, create(p)
  PROVE  FsInv'
<1> DEFINE m == "create"
           t == th[p]
           c == t.cur
           d == inode[c].inum
           i == Min(FreeInum)
           s == SlotFor(i)
           y == TypeOf(t.call)
           isdir == y = "dir"
           loaded == IF isdir THEN AddLink(Load(c), c, 1) ELSE Load(c)
           got == [iget(loaded, i) EXCEPT ![s] = [@ EXCEPT !.valid = TRUE, !.type = y, !.nlink = 1]]
           u == [t EXCEPT !.pc = "iput", !.put = c, !.cur = 0, !.then = "created", !.ip = s]
<1>1. At(p, m) /\ m \in Place /\ m # "setcwd" /\ UNCHANGED <<cwd, ofile>>
  BY Spots DEF create
<1>2. t \in ThType /\ InPlace(t) /\ t.pc = m /\ t.pc \in Place /\ fsHalt = "no" /\ t.put = 0 /\ t.then # "setcwd"
  BY <1>1, Spot
<1>3. InUse(t, TRUE, FALSE, FALSE) /\ t.rest # <<>>
  BY <1>2, PlaceUses
<1>4. c # 0 /\ t.ip = 0 /\ t.dp = 0
  BY <1>3 DEF InUse
<1>5. c \in Slot /\ inode[c].ref > 0 /\ d \in Inum
  BY <1>4, Used
<1>6. CASE FreeInum = {} \/ s = 0
  <2>1. fsHalt' = "full" /\ UNCHANGED <<dinode, dent, inode, th, cwd, ofile>>
    BY <1>6 DEF create
  <2>2. CacheX(dinode', inode', {}) /\ dent' \in Disk /\ fsHalt' \in Halts /\ fsHalt' # "no"
    BY <2>1, InvIs DEF Halts
  <2>3. th' = [th EXCEPT ![p] = t]
    BY <2>1, InvIs
  <2>4. Steady(p, t) /\ Like(inode', inode)
    BY <2>1 DEF Steady, Like
  <2> QED
    BY <1>2, <2>1, <2>2, <2>3, <2>4, QuietStep
<1>7. CASE ~(FreeInum = {} \/ s = 0)
  <2>1. /\ inode' = got /\ dinode' = iupdate(iupdate(dinode, got, s), got, c) /\ fsHalt' = fsHalt
        /\ th' = [th EXCEPT ![p] = u]
        /\ dent' = [dent EXCEPT ![d][Name(t)] = i,
                                ![i] = [n \in Entry |-> CASE isdir /\ n = "." -> i
                                                          [] isdir /\ n = ".." -> d
                                                          [] OTHER -> 0]]
    BY <1>7 DEF create, Set
  <2>2. i \in Inum /\ s # 0
    <3>1. FreeInum \in SUBSET Nat /\ FreeInum # {}
      BY SMTT(30), <1>7, FsAssumption DEF FreeInum, Inum
    <3>2. i \in FreeInum
      <4> DEFINE S == FreeInum
      <4> HIDE DEF S
      <4> QED
        BY <3>1, LeastOf DEF S
    <3> QED
      BY <1>7, <3>2 DEF FreeInum
  <2>3. y \in Type
    BY DEF TypeOf, Type
  <2>4. CacheX(dinode, loaded, {c}) /\ Like(loaded, inode)
    <3>1. CacheX(dinode, Load(c), {}) /\ Like(Load(c), inode)
      BY <1>5, InvIs, LoadIs
    <3>2. CASE isdir
      <4> DEFINE X == {}
                 e == Load(c)
      <4>1. CacheX(dinode, e, X) /\ X \union {c} = {c}
        BY <3>1
      <4>2. 1 \in Int
        BY SMTT(30)
      <4> HIDE DEF X, e
      <4>3. CacheX(dinode, AddLink(e, c, 1), X \union {c}) /\ Like(AddLink(e, c, 1), e)
        BY <1>5, <4>1, <4>2, AddLinkIs
      <4>4. CacheX(dinode, AddLink(e, c, 1), {c}) /\ Like(AddLink(e, c, 1), inode)
        BY <3>1, <4>1, <4>3 DEF Like, e
      <4> QED
        BY <3>2, <4>4 DEF e
    <3>3. CASE ~isdir
      <4>1. loaded = Load(c)
        BY <3>3
      <4> HIDE DEF loaded
      <4> QED
        BY <3>1, <4>1 DEF CacheX
    <3> QED
      BY <3>2, <3>3
  <2>5. CacheX(dinode', inode', {}) /\ Grown(s)
    <3> HIDE DEF y, loaded
    <3> QED
      BY <1>5, <2>1, <2>2, <2>3, <2>4, FilledIs
  <2>6. dent' \in Disk
    <3> DEFINE f == [n \in Entry |-> CASE isdir /\ n = "." -> i [] isdir /\ n = ".." -> d [] OTHER -> 0]
               e == [dent EXCEPT ![d][Name(t)] = i]
    <3>1. i \in 0 .. NINODES /\ d \in 0 .. NINODES /\ 0 \in 0 .. NINODES
      BY SMTT(30), <1>5, <2>2, FsAssumption DEF Inum
    <3>2. f \in [Entry -> 0 .. NINODES]
      <4> HIDE DEF isdir, d, i
      <4> QED
        BY <3>1
    <3>3. e \in Disk
      BY <1>5, <3>1, InvIs, EntrySet
    <3>4. dent' = [e EXCEPT ![i] = f]
      BY <2>1
    <3> HIDE DEF e, f
    <3> QED
      BY <2>2, <3>2, <3>3, <3>4 DEF Disk
  <2>7. s \in 0 .. NINODE /\ c \in 0 .. NINODE /\ fsHalt' \in Halts
    BY <1>2, <2>1, InvIs, SlotForRange DEF ThType
  <2>8. 0 \in 0 .. NINODE
    BY SMTT(30), FsAssumption
  <2>9. "iput" \in Place \union Putting /\ "iput" \in Putting /\ "iput" # "setcwd" /\ "created" \in Place /\ "created" # "setcwd"
    BY Spots DEF Putting
  <2> HIDE DEF s
  <2>10. u \in ThType /\ u.pc = "iput" /\ u.then = "created" /\ Pointing(u, 0, s, 0, c)
    BY <1>2, <1>4, <2>7, <2>8, <2>9 DEF ThType, Pointing
  <2> HIDE DEF u
  <2>11. InPlace(u)
    <3>1. "created" \notin CurAt /\ "created" \in IpAt /\ "created" \notin DpAt /\ "created" # "namex"
          /\ "created" \notin {"create", "unlink", "linkto"}
      BY SMTT(30) DEF CurAt, IpAt, DpAt
    <3>2. Fits(u, u.then)
      BY <2>2, <2>10, <3>1 DEF Fits, Pointing
    <3> QED
      BY <1>4, <2>9, <2>10, <3>2, InPlaceIs DEF Pointing
  <2>12. More(t, u, s)
    <3>1. ASSUME NEW r \in Slot
          PROVE  Bit(0, r) + Bit(s, r) + Bit(0, r) + Bit(c, r) = Bit(c, r) + Bit(0, r) + Bit(0, r) + Bit(0, r) + Bit(s, r)
      <4>1. Bit(0, r) = 0 /\ \A z : Bit(z, r) \in Int
        BY BitIs
      <4> QED
        BY SMTT(30), <4>1
    <3>2. Balance(c, 0, 0, 0, 0, s, 0, c, s)
      BY <3>1 DEF Balance
    <3>3. Pointing(t, c, 0, 0, 0)
      BY <1>2, <1>4 DEF Pointing
    <3>4. u.pc # "setcwd" /\ u.then # "setcwd" /\ t.pc # "setcwd"
      BY <1>1, <1>2, <2>9, <2>10
    <3> HIDE DEF t, c
    <3> QED
      BY <1>2, <2>10, <3>2, <3>3, <3>4, MoreIs
  <2> QED
    BY <1>1, <1>2, <2>1, <2>5, <2>6, <2>7, <2>10, <2>11, <2>12, GetStep
<1> QED
  BY <1>6, <1>7

-----------------------------------------------------------------------------
(* The theorems *)

(* The root directory is in slot 1, and every process works in it. *)
LEMMA RootCounted ==
  ASSUME FsInit
  PROVE  RefExact
<1>1. \A p \in FsProcs : th[p] = User /\ cwd[p] = 1 /\ ofile[p] = 0
  BY DEF FsInit
<1>2. ASSUME NEW p \in FsProcs, NEW v \in Pointer
      PROVE  PointsTo(p, v) = (IF v = "cwd" THEN 1 ELSE 0)
  <2>1. th[p] = User /\ cwd[p] = 1 /\ ofile[p] = 0
    BY <1>1
  <2>2. ~SettingCwd(p)
    BY SMTT(30), <2>1 DEF SettingCwd, User
  <2>3. v \in {"cwd", "ofile", "cur", "ip", "dp", "put"}
    BY DEF Pointer
  <2>4. User.cur = 0 /\ User.ip = 0 /\ User.dp = 0 /\ User.put = 0
    BY DEF User
  <2>5. v = "cwd" => PointsTo(p, v) = 1
    BY <2>1, <2>2 DEF PointsTo
  <2>6. v # "cwd" => PointsTo(p, v) = 0
    <3>1. PointsTo(p, "ofile") = 0 /\ PointsTo(p, "cur") = 0 /\ PointsTo(p, "ip") = 0 /\ PointsTo(p, "dp") = 0
          /\ PointsTo(p, "put") = 0
      BY <2>1, <2>4, PointsToIs
    <3> QED
      BY <2>3, <3>1
  <2> QED
    BY <2>5, <2>6
<1>3. ASSUME NEW s \in Slot
      PROVE  inode[s].ref = Pointers(s)
  <2> DEFINE V == {v \in FsProcs \X Pointer : PointsTo(v[1], v[2]) = s}
  <2>1. s # 0 /\ Cardinality(FsProcs) \in Nat
    BY SMTT(30), FsAssumption, FS_CardinalityType DEF Slot
  <2>2. Pointers(s) = Cardinality(V)
    BY DEF Pointers
  <2>3. CASE s = 1
    <3>1. V = FsProcs \X {"cwd"}
      <4>1. "cwd" \in Pointer /\ 1 # 0
        BY SMTT(30) DEF Pointer
      <4>2. ASSUME NEW v \in V
            PROVE  v \in FsProcs \X {"cwd"}
        <5>1. PICK p \in FsProcs, x \in Pointer : v = <<p, x>>
          <6>1. v \in FsProcs \X Pointer
            BY <4>2
          <6> HIDE DEF V
          <6> QED
            BY SMTT(30), <6>1
        <5>2. PointsTo(p, x) = 1
          BY <2>3, <4>2, <5>1
        <5>3. x = "cwd"
          BY <1>2, <4>1, <5>2
        <5> QED
          BY <5>1, <5>3
      <4>3. ASSUME NEW v \in FsProcs \X {"cwd"}
            PROVE  v \in V
        <5>1. PICK p \in FsProcs : v = <<p, "cwd">>
          BY SMTT(30), <4>3
        <5>2. v[1] = p /\ v[2] = "cwd" /\ v \in FsProcs \X Pointer
          BY <4>1, <5>1
        <5>3. PointsTo(p, "cwd") = 1
          BY <1>2, <4>1
        <5> QED
          BY <2>3, <5>2, <5>3
      <4> HIDE DEF V
      <4> QED
        BY <4>2, <4>3
    <3>2. IsFiniteSet({"cwd"}) /\ Cardinality({"cwd"}) = 1
      BY FS_Singleton
    <3>3. Cardinality(FsProcs \X {"cwd"}) = Cardinality(FsProcs) * Cardinality({"cwd"})
      <4> DEFINE S == {"cwd"}
      <4>1. IsFiniteSet(S)
        BY <3>2
      <4> HIDE DEF S
      <4> QED
        BY <4>1, FS_Product, FsAssumption DEF S
    <3>4. inode[s].ref = Cardinality(FsProcs)
      BY <2>3 DEF FsInit
    <3>5. Cardinality(FsProcs) * 1 = Cardinality(FsProcs)
      BY SMTT(30), <2>1
    <3> QED
      BY <2>2, <3>1, <3>2, <3>3, <3>4, <3>5
  <2>4. CASE s # 1
    <3>1. V = {}
      BY <1>2, <2>1, <2>4
    <3>2. inode[s].ref = 0
      BY <2>4 DEF FsInit
    <3> QED
      BY <2>2, <3>1, <3>2, FS_EmptySet
  <2> QED
    BY <2>3, <2>4
<1> QED
  BY <1>3 DEF RefExact

LEMMA FsStarts == FsInit => FsInv
<1> SUFFICES ASSUME FsInit PROVE FsInv
  OBVIOUS
<1>1. NINODES \in Nat /\ NINODES > 0 /\ NINODE > 0 /\ NINODE \in Nat /\ Len(InitFiles) \in Nat /\ Len(InitFiles) < NINODES
      /\ DOMAIN InitFiles = 1 .. Len(InitFiles) /\ Cardinality(FsProcs) \in Nat
  BY SMTT(30), FsAssumption, FS_CardinalityType
<1>2. 0 \in 0 .. NINODES /\ 1 \in 0 .. NINODES /\ 1 \in Slot /\ 0 \in 0 .. NINODE /\ 1 \in Inum /\ 0 \in Nat /\ 0 \in Int /\ 1 \in Int
  BY SMTT(30), <1>1 DEF Slot, Inum
<1>3. dinode \in [Inum -> [type : Type, nlink : Int]]
  BY <1>2 DEF FsInit, Type
<1>4. dent \in [Inum -> [Entry -> 0 .. NINODES]]
  <2> DEFINE Numbered(n) == CHOOSE k \in DOMAIN InitFiles : InitFiles[k] = n
             Has(n) == \E k \in DOMAIN InitFiles : InitFiles[k] = n
             root == [n \in Entry |-> IF n \in {".", ".."} THEN 1 ELSE IF Has(n) THEN 1 + Numbered(n) ELSE 0]
  <2>1. ASSUME NEW n, Has(n)
        PROVE  1 + Numbered(n) \in 0 .. NINODES
    <3>1. Numbered(n) \in DOMAIN InitFiles
      BY <2>1
    <3> HIDE DEF Numbered
    <3> QED
      BY SMTT(30), <1>1, <3>1
  <2>2. dent = [i \in Inum |-> IF i # 1 THEN NoEntries ELSE root]
    BY DEF FsInit
  <2> HIDE DEF Numbered, Has
  <2>3. root \in [Entry -> 0 .. NINODES]
    BY <1>2, <2>1
  <2>4. NoEntries \in [Entry -> 0 .. NINODES]
    BY <1>2 DEF NoEntries
  <2> HIDE DEF root
  <2> QED
    BY <2>2, <2>3, <2>4
<1>5. inode \in [Slot -> [inum : 0 .. NINODES, ref : Nat, valid : BOOLEAN, type : Type, nlink : Int]]
  BY <1>1, <1>2 DEF FsInit, Type
<1>6. cwd \in [FsProcs -> Slot] /\ ofile \in [FsProcs -> 0 .. NINODE]
  BY <1>2 DEF FsInit
<1>7. th \in [FsProcs -> ThType] /\ (\A p \in FsProcs : InPlace(th[p])) /\ fsHalt \in {"no", "full", "broken"}
  BY UserIs DEF FsInit
<1>8. \A s \in Slot : ~inode[s].valid /\ (inode[s].ref > 0 => (s = 1 /\ inode[s].inum = 1))
  <2>1. ~(0 > 0)
    BY SMTT(30)
  <2> QED
    BY <2>1 DEF FsInit
<1>9. CacheCoherent
  BY <1>8 DEF CacheCoherent
<1> QED
  BY <1>2, <1>3, <1>4, <1>5, <1>6, <1>7, <1>8, <1>9, RootCounted DEF FsInv, FsType

LEMMA FsSteps == FsInv /\ [FsNext]_fsVars => FsInv'
<1> SUFFICES ASSUME FsInv, [FsNext]_fsVars PROVE FsInv'
  OBVIOUS
<1>1. ASSUME NEW p \in FsProcs, FsStep(p)
      PROVE  FsInv'
  BY <1>1, IputKeeps, IputRefKeeps, NamexEndKeeps, NamexStepKeeps, OpenKeeps, ChdirKeeps, SetCwdKeeps, CreateExistsKeeps,
     CreateFoundKeeps, CreateKeeps, CreatedKeeps, UnlinkKeeps, UnlinkEntryKeeps, UnlinkBadKeeps, UnlinkedKeeps,
     LinkStepKeeps, LinkNewKeeps, DirlinkKeeps, LinkDupKeeps, LinkedKeeps, LinkBadKeeps DEF FsStep
<1>2. ASSUME NEW p \in FsProcs, sys_close(p)
      PROVE  FsInv'
  BY <1>2, CloseKeeps
<1>3. ASSUME NEW p \in FsProcs, NEW c \in Calls[p], Syscall(p, c)
      PROVE  FsInv'
  BY <1>3, SyscallKeeps
<1>4. CASE UNCHANGED fsVars
  <2>1. UNCHANGED <<dinode, dent, inode, cwd, ofile, th, fsHalt>>
    BY <1>4 DEF fsVars
  <2>2. \A p \in FsProcs : \A v \in Pointer : PointsTo(p, v)' = PointsTo(p, v)
    BY <2>1 DEF PointsTo, SettingCwd
  <2>3. \A s : Pointers(s)' = Pointers(s)
    BY <2>1 DEF Pointers, PointsTo, SettingCwd
  <2>4. RefExact'
    BY <2>1, <2>3 DEF FsInv, RefExact
  <2>5. FsType' /\ CacheCoherent'
    BY <2>1 DEF FsInv, FsType, CacheCoherent
  <2> QED
    BY <2>1, <2>4, <2>5 DEF FsInv
<1> QED
  BY <1>1, <1>2, <1>3, <1>4 DEF FsNext

(* Whatever the processes call on the same paths, and wherever their steps *)
(* interleave, the inode cache and the calls in progress stay consistent.  *)
THEOREM FsInvariant == FsSpec => []FsInv
<1> QED
  BY FsStarts, FsSteps, PTL DEF FsSpec

(* fs.c:124 "ip->ref tracks the number of in-memory pointers to the entry":*)
(* no path through namex, create, link, unlink, open and chdir, failures   *)
(* included, loses a reference or drops one twice.                         *)
THEOREM RefsAreExact == FsSpec => []RefExact
<1>1. FsInv => RefExact
  BY DEF FsInv
<1> QED
  BY <1>1, FsInvariant, PTL

(* iget never gives an inode two slots, and every change of a cached inode *)
(* has reached the disk, by iupdate, before another call can see it.       *)
THEOREM CacheIsWriteThrough == FsSpec => []CacheCoherent
<1>1. FsInv => CacheCoherent
  BY DEF FsInv
<1> QED
  BY <1>1, FsInvariant, PTL
=============================================================================
