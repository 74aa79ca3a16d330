---------------------------- MODULE FilesProofs -----------------------------
(***************************************************************************)
(* The table of open files, for any number of processes, descriptors,      *)
(* files and pipes: a reference count is the number of descriptors and of  *)
(* calls under way that hold the file, so filedup and fileclose never      *)
(* panic, and an end of a pipe is open exactly as long as a file stands    *)
(* for it.                                                                 *)
(***************************************************************************)
EXTENDS Files, FiniteSetTheorems, WellFoundedInduction, NaturalsInduction, TLAPS

USE ZenonT(30)

-----------------------------------------------------------------------------
(* Sums *)

Column(f, x) == {x} \X (1 .. f[x])
Columns(f, S) == UNION {Column(f, x) : x \in S}

(* A column is as large as its number says. *)
LEMMA ColumnSize ==
  ASSUME NEW f, NEW x, f[x] \in Nat
  PROVE  IsFiniteSet(Column(f, x)) /\ Cardinality(Column(f, x)) = f[x]
<1>1. IsFiniteSet({x}) /\ Cardinality({x}) = 1
  BY FS_Singleton
<1>2. IsFiniteSet(1 .. f[x]) /\ Cardinality(1 .. f[x]) = f[x]
  <2>1. 1 \in Int /\ f[x] \in Int /\ (1 > f[x] <=> f[x] = 0) /\ f[x] - 1 + 1 = f[x]
    BY SMTT(30)
  <2> QED
    BY <2>1, FS_Interval
<1>3. 1 * f[x] = f[x]
  BY SMTT(30)
<1>4. /\ IsFiniteSet({x} \X (1 .. f[x]))
      /\ Cardinality({x} \X (1 .. f[x])) = Cardinality({x}) * Cardinality(1 .. f[x])
  BY <1>1, <1>2, FS_Product
<1> QED
  BY <1>1, <1>2, <1>3, <1>4 DEF Column

(* The columns of a finite set of places are finitely many pairs. *)
LEMMA ColumnsFinite ==
  ASSUME NEW S, IsFiniteSet(S), NEW f, \A x \in S : f[x] \in Nat
  PROVE  IsFiniteSet(Columns(f, S))
<1> DEFINE C == {Column(f, x) : x \in S}
           F == [x \in S |-> Column(f, x)]
<1>1. F \in Surjection(S, C)
  BY DEF Surjection
<1>2. IsFiniteSet(C)
  BY <1>1, FS_Surjection
<1>3. \A T \in C : IsFiniteSet(T)
  BY ColumnSize
<1> QED
  BY <1>2, <1>3, FS_UNION DEF Columns

(* The sum is what is at i and the sum of the rest. *)
LEMMA TotalSplit ==
  ASSUME NEW S, IsFiniteSet(S), NEW f \in [S -> Nat], NEW i \in S
  PROVE  /\ IsFiniteSet(Columns(f, S \ {i}))
         /\ Cardinality(Columns(f, S \ {i})) \in Nat
         /\ Total(f) = Cardinality(Columns(f, S \ {i})) + f[i]
<1> DEFINE A == Columns(f, S \ {i})
           B == Column(f, i)
<1>1. IsFiniteSet(S \ {i}) /\ \A x \in S \ {i} : f[x] \in Nat
  BY FS_RemoveElement
<1>2. IsFiniteSet(A) /\ Cardinality(A) \in Nat
  BY <1>1, ColumnsFinite, FS_CardinalityType
<1>3. IsFiniteSet(B) /\ Cardinality(B) = f[i] /\ f[i] \in Nat
  BY ColumnSize
<1>4. A \cap B = {}
  <2>1. \A z \in B : z[1] = i
    BY DEF Column
  <2>2. ASSUME NEW z \in A PROVE z[1] # i
    <3>1. PICK x \in S \ {i} : z \in Column(f, x)
      BY DEF Columns
    <3>2. z[1] = x
      BY <3>1 DEF Column
    <3> QED
      BY <3>2
  <2> QED
    BY <2>1, <2>2
<1>5. Total(f) = Cardinality(A \cup B)
  <2>1. DOMAIN f = S
    OBVIOUS
  <2>2. UNION {{x} \X (1 .. f[x]) : x \in S} = A \cup B
    BY DEF Columns, Column
  <2> QED
    BY <2>1, <2>2 DEF Total
<1>6. Cardinality(A \cup B) = Cardinality(A) + Cardinality(B) - Cardinality(A \cap B)
  BY <1>2, <1>3, FS_Union
<1>7. Cardinality(A \cap B) = 0
  BY <1>4, FS_EmptySet
<1> HIDE DEF A, B
<1>8. Total(f) = Cardinality(A) + f[i]
  BY SMTT(30), <1>2, <1>3, <1>5, <1>6, <1>7
<1> QED
  BY <1>2, <1>8 DEF A

(* A sum is a natural number; one changed summand changes it by as much. *)
LEMMA TotalChange ==
  ASSUME NEW S, IsFiniteSet(S), NEW f \in [S -> Nat], NEW g \in [S -> Nat], NEW i \in S,
         \A x \in S \ {i} : g[x] = f[x]
  PROVE  Total(f) \in Nat /\ Total(g) = Total(f) - f[i] + g[i]
<1> DEFINE n == Cardinality(Columns(f, S \ {i}))
           m == Cardinality(Columns(g, S \ {i}))
<1>1. n \in Nat /\ Total(f) = n + f[i]
  BY TotalSplit
<1>2. m \in Nat /\ Total(g) = m + g[i]
  BY TotalSplit
<1>3. n = m
  <2>1. {Column(f, x) : x \in S \ {i}} = {Column(g, x) : x \in S \ {i}}
    BY DEF Column
  <2> QED
    BY <2>1 DEF Columns
<1>4. f[i] \in Nat /\ g[i] \in Nat
  OBVIOUS
<1> HIDE DEF n, m
<1> QED
  BY SMTT(30), <1>1, <1>2, <1>3, <1>4

(* The sum of a function that is 0 but for one place. *)
LEMMA TotalOne ==
  ASSUME NEW S, IsFiniteSet(S), NEW f \in [S -> Nat], NEW i \in S,
         \A x \in S \ {i} : f[x] = 0
  PROVE  Total(f) = f[i]
<1>1. Columns(f, S \ {i}) = {}
  <2>1. ASSUME NEW x \in S \ {i} PROVE Column(f, x) = {}
    <3>1. 1 .. 0 = {}
      BY SMTT(30)
    <3> QED
      BY <3>1 DEF Column
  <2> QED
    BY <2>1 DEF Columns
<1>2. Cardinality(Columns(f, S \ {i})) = 0
  BY <1>1, FS_EmptySet
<1>3. Total(f) = Cardinality(Columns(f, S \ {i})) + f[i] /\ f[i] \in Nat
  BY TotalSplit
<1> QED
  BY SMTT(30), <1>2, <1>3

-----------------------------------------------------------------------------
(* The inductive invariant of the open files *)

FileRec == [ref : Nat, type : {"none", "inode", "pipe"}, readable : BOOLEAN, writable : BOOLEAN, pipe : 0 .. NPIPE]
PipeRec == [used : BOOLEAN, readopen : BOOLEAN, writeopen : BOOLEAN]
CallPlace == {"user", "open", "openset", "pipe1", "pipe2", "pipe3", "close", "pipeclose", "filedup", "exit"}
CloseList == {<<>>} \cup {<<x>> : x \in File} \cup (File \X File)
TaskRec == [pc : CallPlace, f : 0 .. NFILE, g : 0 .. NFILE, close : CloseList, ff : 0 .. NPIPE, end : BOOLEAN,
            then : {"user", "exit"}]
FdRow == [Fd -> 0 .. NFILE]

FileTypes ==
  /\ ofile \in [Procs -> FdRow] /\ file \in [File -> FileRec] /\ pipe \in [PipeId -> PipeRec]
  /\ task \in [Procs -> TaskRec] /\ live \subseteq Procs

(* Held, for the descriptors o and the call r of a process *)
Fibre(S, v, f) == {e \in S : v[e] = f}
Count(o, f) == Cardinality(Fibre(Fd, o, f))
CloseCount(s, f) == Cardinality(Fibre(DOMAIN s, s, f))
Flight(r, f) ==
  CloseCount(r.close, f)
  + (IF r.pc \in {"open", "pipe1", "pipe2", "pipe3"} /\ r.f = f THEN 1 ELSE 0)
  + (IF r.pc \in {"pipe2", "pipe3"} /\ r.g = f THEN 1 ELSE 0)
  - (IF r.pc = "filedup" /\ r.f = f THEN 1 ELSE 0)
Own(o, r, f) == Count(o, f) + Flight(r, f)

(* A file filealloc has given to the call r and that is nothing yet *)
FreshIn(r, f) ==
  \/ r.pc \in {"open", "openset", "pipe1", "pipe2"} /\ r.f = f
  \/ r.pc = "pipe2" /\ r.g = f

(* What a process with descriptors o in call r knows of the files F *)
CallShape(o, r, alive) ==
  /\ r.pc \notin {"close", "pipeclose"} => r.close = <<>>
  /\ r.pc \in {"open", "openset", "pipe1", "pipe2", "pipe3", "filedup"} => r.f \in File
  /\ r.pc \in {"pipe2", "pipe3"} => r.g \in File /\ r.g # r.f
  /\ r.pc = "pipeclose" => r.ff \in PipeId
  /\ r.pc = "filedup" => Count(o, r.f) >= 2
  /\ ~alive => r = Rest /\ \A d \in Fd : o[d] = 0
FilesKnown(o, r, F) ==
  /\ r.pc = "pipe3" => F[r.f].type = "pipe" /\ F[r.g].type = "pipe"
  /\ \A f \in File : FreshIn(r, f) => Own(o, r, f) >= 1 /\ F[f].ref = 1 /\ F[f].type = "none"
  /\ \A d \in Fd : o[d] # 0 => F[o[d]].type # "none" \/ FreshIn(r, o[d])
TaskInv(p) == CallShape(ofile[p], task[p], p \in live) /\ FilesKnown(ofile[p], task[p], file)

(* Who has an end of a pipe: a file, or a call that is closing it; never two *)
Has(f, k, w) == file[f].type = "pipe" /\ file[f].pipe = k /\ file[f].writable = w
ClosingEnd(p, k, w) == task[p].pc = "pipeclose" /\ task[p].ff = k /\ task[p].end = w
Taken(k, w) == (\E f \in File : Has(f, k, w)) \/ (\E p \in Procs : ClosingEnd(p, k, w))
OneHolder(k, w) ==
  /\ \A f, g \in File : Has(f, k, w) /\ Has(g, k, w) => f = g
  /\ \A p, q \in Procs : ClosingEnd(p, k, w) /\ ClosingEnd(q, k, w) => p = q
  /\ \A f \in File, p \in Procs : ~(Has(f, k, w) /\ ClosingEnd(p, k, w))
EndsInv ==
  \A k \in PipeId :
    /\ pipe[k].readopen <=> Taken(k, FALSE)
    /\ pipe[k].writeopen <=> Taken(k, TRUE)
    /\ pipe[k].used <=> pipe[k].readopen \/ pipe[k].writeopen
    /\ OneHolder(k, FALSE) /\ OneHolder(k, TRUE)

(* A free file is nothing, and a pipe's file has one of the pages. *)
FileShape(F) ==
  \A f \in File : (F[f].ref = 0 => F[f].type = "none") /\ (F[f].type = "pipe" => F[f].pipe \in PipeId)

FilesInv ==
  /\ FileTypes /\ FileRefExact /\ EndsInv /\ ~fileHalt /\ FileShape(file)
  /\ \A p \in Procs : TaskInv(p)

-----------------------------------------------------------------------------
(* Counting descriptors and files in flight *)

LEMMA LeastOf ==
  ASSUME NEW S \in SUBSET Nat, S # {}
  PROVE  Min(S) \in S
<1>1. \E x \in S : \A y \in S : ~(<<y, x>> \in OpToRel(<, Nat))
  BY NatLessThanWellFounded, WFMin
<1>2. \E x \in S : \A y \in S : ~(y < x)
  BY <1>1 DEF OpToRel
<1>3. \A x, y \in S : ~(y < x) => x =< y
  BY SMTT(30)
<1>4. \E x \in S : \A y \in S : x =< y
  BY <1>2, <1>3
<1> QED
  BY <1>4 DEF Min

LEMMA FileNumbers ==
  /\ IsFiniteSet(Fd) /\ Fd \subseteq Nat /\ File \subseteq Nat /\ PipeId \subseteq Nat
  /\ File \subseteq 0 .. NFILE /\ PipeId \subseteq 0 .. NPIPE /\ 0 \in 0 .. NFILE /\ 0 \in 0 .. NPIPE
  /\ 0 \notin File /\ \A x \in 0 .. NFILE : x # 0 => x \in File
<1>1. 0 \in Int /\ NOFILE - 1 \in Int
  BY SMTT(30), FilesAssumption
<1>2. IsFiniteSet(Fd)
  BY <1>1, FS_Interval DEF Fd
<1> QED
  BY SMTT(30), <1>2, FilesAssumption DEF Fd, File, PipeId

(* 1 for the file f itself *)
Hit(x, f) == IF x = f THEN 1 ELSE 0
LEMMA HitIs == ASSUME NEW x, NEW f PROVE Hit(x, f) \in Nat /\ (x = f => Hit(x, f) = 1) /\ (x # f => Hit(x, f) = 0)
BY SMTT(30) DEF Hit

(* The members of S that v sends to f, with d and without d. *)
SplitAt(S, v, d, f) ==
  /\ Cardinality(Fibre(S \ {d}, v, f)) \in Nat
  /\ Cardinality(Fibre(S, v, f)) = Cardinality(Fibre(S \ {d}, v, f)) + Hit(v[d], f)
LEMMA SizeSplit ==
  ASSUME NEW S, IsFiniteSet(S), NEW v, NEW d \in S, NEW f
  PROVE  SplitAt(S, v, d, f)
<1> DEFINE T == Fibre(S \ {d}, v, f)
<1>1. IsFiniteSet(T) /\ Cardinality(T) \in Nat
  <2>1. T \subseteq S
    BY DEF Fibre
  <2> QED
    BY <2>1, FS_Subset, FS_CardinalityType
<1>2. CASE v[d] = f
  <2>1. Fibre(S, v, f) = T \cup {d} /\ d \notin T
    BY <1>2 DEF Fibre
  <2>2. Cardinality(T \cup {d}) = Cardinality(T) + 1
    BY <1>1, <2>1, FS_AddElement
  <2> QED
    BY <1>1, <1>2, <2>1, <2>2, HitIs DEF SplitAt
<1>3. CASE v[d] # f
  <2>1. Fibre(S, v, f) = T
    BY <1>3 DEF Fibre
  <2>2. Cardinality(T) + 0 = Cardinality(T)
    BY SMTT(30), <1>1
  <2> QED
    BY <1>1, <1>3, <2>1, <2>2, HitIs DEF SplitAt
<1> QED
  BY <1>2, <1>3 DEF SplitAt

LEMMA CountType ==
  ASSUME NEW o, NEW f
  PROVE  Count(o, f) \in Nat /\ \A d \in Fd : o[d] = f => Count(o, f) >= 1
<1> DEFINE S == Fibre(Fd, o, f)
<1>1. IsFiniteSet(S) /\ Cardinality(S) \in Nat /\ (Cardinality(S) = 0 <=> S = {})
  <2>1. S \subseteq Fd
    BY DEF Fibre
  <2> QED
    BY <2>1, FileNumbers, FS_Subset, FS_CardinalityType, FS_EmptySet
<1>2. ASSUME NEW d \in Fd, o[d] = f PROVE Cardinality(S) # 0
  BY <1>1, <1>2 DEF Fibre
<1> HIDE DEF S
<1>3. Cardinality(S) # 0 => Cardinality(S) >= 1
  BY SMTT(30), <1>1
<1> QED
  BY <1>1, <1>2, <1>3 DEF Count, S

(* One descriptor changes. *)
LEMMA CountSet ==
  ASSUME NEW o \in FdRow, NEW d \in Fd, NEW x \in 0 .. NFILE, NEW f
  PROVE  /\ [o EXCEPT ![d] = x] \in FdRow
         /\ Count([o EXCEPT ![d] = x], f) = Count(o, f) - Hit(o[d], f) + Hit(x, f)
<1> DEFINE n == [o EXCEPT ![d] = x]
           T == Cardinality(Fibre(Fd \ {d}, o, f))
<1>1. n \in FdRow /\ n[d] = x /\ \A e \in Fd \ {d} : n[e] = o[e]
  BY DEF FdRow
<1>2. T \in Nat /\ Count(o, f) = T + Hit(o[d], f)
  <2>1. SplitAt(Fd, o, d, f)
    BY FileNumbers, SizeSplit
  <2> QED
    BY <2>1 DEF Count, SplitAt
<1>3. Fibre(Fd \ {d}, n, f) = Fibre(Fd \ {d}, o, f)
  BY <1>1 DEF Fibre
<1>4. Count(n, f) = T + Hit(x, f)
  <2>1. SplitAt(Fd, n, d, f)
    BY FileNumbers, SizeSplit
  <2> QED
    BY <1>1, <1>3, <2>1 DEF Count, SplitAt
<1>5. Hit(o[d], f) \in Nat /\ Hit(x, f) \in Nat
  BY HitIs
<1> HIDE DEF n, T
<1>6. Count(n, f) = Count(o, f) - Hit(o[d], f) + Hit(x, f)
  BY SMTT(30), <1>2, <1>4, <1>5
<1> QED
  BY <1>1, <1>6 DEF n

(* The lists fileclose goes through. *)
LEMMA CloseCounts ==
  ASSUME NEW f, NEW x
  PROVE  CloseCount(<<>>, f) = 0 /\ CloseCount(<<x>>, f) = Hit(x, f)
<1>1. DOMAIN <<>> = {}
  BY SMTT(30)
<1>2. CloseCount(<<>>, f) = 0
  BY <1>1, FS_EmptySet DEF CloseCount, Fibre
<1>3. DOMAIN <<x>> = {1} /\ <<x>>[1] = x
  BY SMTT(30)
<1>4. IsFiniteSet({1}) /\ {1} \ {1} = {}
  BY FS_Singleton
<1>5. Cardinality(Fibre({1}, <<x>>, f)) = Cardinality(Fibre({1} \ {1}, <<x>>, f)) + Hit(<<x>>[1], f)
  <2>1. 1 \in {1} /\ SplitAt({1}, <<x>>, 1, f)
    BY <1>4, SizeSplit
  <2> QED
    BY <2>1 DEF SplitAt
<1>6. Fibre({1} \ {1}, <<x>>, f) = {} /\ Cardinality({}) = 0
  BY FS_EmptySet DEF Fibre
<1>7. 0 + Hit(x, f) = Hit(x, f)
  BY SMTT(30), HitIs
<1> QED
  BY <1>2, <1>3, <1>5, <1>6, <1>7 DEF CloseCount

LEMMA CloseTwo ==
  ASSUME NEW f, NEW x, NEW y
  PROVE  CloseCount(<<x, y>>, f) = Hit(x, f) + Hit(y, f)
<1> DEFINE s == <<x, y>>
<1>1. DOMAIN s = {1, 2} /\ s[1] = x /\ s[2] = y
  BY SMTT(30)
<1>2. {1, 2} \ {2} = {1} /\ {1} \ {1} = {} /\ 1 \in {1} /\ 2 \in {1, 2}
  BY SMTT(30)
<1>3. IsFiniteSet({1}) /\ IsFiniteSet({1, 2})
  <2>1. {1, 2} = {1} \cup {2}
    OBVIOUS
  <2>2. IsFiniteSet({1}) /\ IsFiniteSet({2})
    BY FS_Singleton
  <2>3. IsFiniteSet({1} \cup {2})
    BY <2>2, FS_Union
  <2> QED
    BY <2>1, <2>2, <2>3
<1> HIDE DEF s
<1>4. Cardinality(Fibre({1, 2}, s, f)) = Cardinality(Fibre({1, 2} \ {2}, s, f)) + Hit(s[2], f)
  <2>1. SplitAt({1, 2}, s, 2, f)
    BY <1>2, <1>3, SizeSplit
  <2> QED
    BY <2>1 DEF SplitAt
<1>5. Cardinality(Fibre({1}, s, f)) = Cardinality(Fibre({1} \ {1}, s, f)) + Hit(s[1], f)
  <2>1. SplitAt({1}, s, 1, f)
    BY <1>2, <1>3, SizeSplit
  <2> QED
    BY <2>1 DEF SplitAt
<1>6. Fibre({1} \ {1}, s, f) = {} /\ Cardinality({}) = 0
  BY FS_EmptySet DEF Fibre
<1>7. 0 + Hit(x, f) = Hit(x, f)
  BY SMTT(30), HitIs
<1> QED
  BY <1>1, <1>2, <1>4, <1>5, <1>6, <1>7 DEF CloseCount, s

LEMMA CloseType ==
  ASSUME NEW s \in CloseList, NEW f
  PROVE  /\ CloseCount(s, f) \in Nat
         /\ s # <<>> => /\ Head(s) \in File /\ Tail(s) \in CloseList
                        /\ CloseCount(s, f) = CloseCount(Tail(s), f) + Hit(Head(s), f)
<1>1. CASE s = <<>>
  <2>1. 0 \in Nat
    BY SMTT(30)
  <2> QED
    BY <1>1, <2>1, CloseCounts
<1>2. CASE \E x \in File : s = <<x>>
  <2>1. PICK x \in File : s = <<x>>
    BY <1>2
  <2>2. Head(s) = x /\ Tail(s) = <<>>
    BY SMTT(30), <2>1
  <2>3. CloseCount(s, f) = Hit(x, f) /\ CloseCount(Tail(s), f) = 0 /\ Hit(x, f) \in Nat
    BY <2>1, <2>2, CloseCounts, HitIs
  <2>4. Hit(x, f) = 0 + Hit(x, f)
    BY SMTT(30), <2>3
  <2>5. Tail(s) \in CloseList
    BY <2>2 DEF CloseList
  <2> QED
    BY <2>1, <2>2, <2>3, <2>4, <2>5
<1>3. CASE s \in File \X File
  <2>1. PICK x \in File, y \in File : s = <<x, y>>
    BY SMTT(30), <1>3
  <2>2. Head(s) = x /\ Tail(s) = <<y>>
    BY SMTT(30), <2>1
  <2>3. CloseCount(s, f) = Hit(x, f) + Hit(y, f) /\ CloseCount(Tail(s), f) = Hit(y, f)
    BY <2>1, <2>2, CloseCounts, CloseTwo
  <2>4. Hit(x, f) \in Nat /\ Hit(y, f) \in Nat
    BY HitIs
  <2>5. Hit(x, f) + Hit(y, f) = Hit(y, f) + Hit(x, f) /\ Hit(x, f) + Hit(y, f) \in Nat
    BY SMTT(30), <2>4
  <2>6. Tail(s) \in CloseList
    BY <2>2 DEF CloseList
  <2> QED
    BY <2>1, <2>2, <2>3, <2>5, <2>6
<1> QED
  BY <1>1, <1>2, <1>3 DEF CloseList

(* The files in flight in each place of a call. *)
LEMMA Flights ==
  ASSUME NEW r, NEW f, CloseCount(r.close, f) \in Nat
  PROVE  /\ r.pc \in {"user", "openset", "close", "pipeclose", "exit"} => Flight(r, f) = CloseCount(r.close, f)
         /\ r.pc \in {"open", "pipe1"} => Flight(r, f) = CloseCount(r.close, f) + Hit(r.f, f)
         /\ r.pc \in {"pipe2", "pipe3"} => Flight(r, f) = CloseCount(r.close, f) + Hit(r.f, f) + Hit(r.g, f)
         /\ r.pc = "filedup" => Flight(r, f) = CloseCount(r.close, f) - Hit(r.f, f)
         /\ r.pc # "filedup" => Flight(r, f) >= CloseCount(r.close, f)
         /\ Flight(r, f) \in Int
<1>1. CASE r.pc \in {"user", "openset", "close", "pipeclose", "exit"}
  BY SMTT(30), <1>1 DEF Flight, Hit
<1>2. CASE r.pc \in {"open", "pipe1"}
  BY SMTT(30), <1>2 DEF Flight, Hit
<1>3. CASE r.pc \in {"pipe2", "pipe3"}
  BY SMTT(30), <1>3 DEF Flight, Hit
<1>4. CASE r.pc = "filedup"
  BY SMTT(30), <1>4 DEF Flight, Hit
<1>5. CASE r.pc \notin {"user", "openset", "close", "pipeclose", "exit", "open", "pipe1", "pipe2", "pipe3", "filedup"}
  BY SMTT(30), <1>5 DEF Flight, Hit
<1> QED
  BY <1>1, <1>2, <1>3, <1>4, <1>5

-----------------------------------------------------------------------------
(* What each process has of each file *)

LEMMA HeldIs ==
  ASSUME NEW p, NEW f
  PROVE  Held(p, f) = Own(ofile[p], task[p], f) /\ Held(p, f)' = Own(ofile'[p], task'[p], f)
BY DEF Held, InFlight, Own, Flight, Count, CloseCount, Fibre

LEMMA OwnInt ==
  ASSUME NEW o, NEW r \in TaskRec, NEW f
  PROVE  /\ Own(o, r, f) \in Int /\ CloseCount(r.close, f) \in Nat /\ Count(o, f) \in Nat
         /\ r.close \in CloseList
<1>1. r.close \in CloseList
  BY SMTT(30) DEF TaskRec
<1>2. CloseCount(r.close, f) \in Nat
  BY <1>1, CloseType
<1>3. Flight(r, f) \in Int
  BY <1>2, Flights
<1>4. Count(o, f) \in Nat
  BY CountType
<1>5. Count(o, f) + Flight(r, f) \in Int
  BY SMTT(30), <1>3, <1>4
<1> QED
  BY <1>1, <1>2, <1>4, <1>5 DEF Own

(* A process has a file that it has a descriptor of, or that its call has  *)
(* made and not given up.                                                  *)
LEMMA OwnPositive ==
  ASSUME NEW o, NEW r \in TaskRec, NEW alive, CallShape(o, r, alive), NEW f
  PROVE  /\ Own(o, r, f) >= 0
         /\ \A d \in Fd : o[d] = f => Own(o, r, f) >= 1
         /\ r.pc \in {"open", "pipe1", "pipe2", "pipe3"} /\ r.f = f => Own(o, r, f) >= 1
         /\ r.pc \in {"pipe2", "pipe3"} /\ r.g = f => Own(o, r, f) >= 1
<1> DEFINE c == Count(o, f)
           s == CloseCount(r.close, f)
           t == Flight(r, f)
<1>1. c \in Nat /\ s \in Nat /\ t \in Int /\ Own(o, r, f) = c + t
  BY OwnInt, Flights DEF Own
<1>2. \A d \in Fd : o[d] = f => c >= 1
  BY CountType
<1>3. Hit(r.f, f) \in Nat /\ Hit(r.g, f) \in Nat
  BY HitIs
<1>4. /\ r.pc # "filedup" => t >= s
      /\ r.pc = "filedup" => t = s - Hit(r.f, f)
      /\ r.pc \in {"open", "pipe1"} => t = s + Hit(r.f, f)
      /\ r.pc \in {"pipe2", "pipe3"} => t = s + Hit(r.f, f) + Hit(r.g, f)
  BY <1>1, Flights
<1>5. r.pc = "filedup" /\ r.f = f => c >= 2
  BY DEF CallShape
<1>6. /\ r.f = f => Hit(r.f, f) = 1
      /\ r.f # f => Hit(r.f, f) = 0
      /\ r.g = f => Hit(r.g, f) = 1
  BY HitIs
<1> HIDE DEF c, s, t
<1>7. r.pc = "filedup" => c + t >= 0 /\ (c >= 1 => c + t >= 1)
  BY SMTT(30), <1>1, <1>4, <1>5, <1>6
<1>8. r.pc # "filedup" => c + t >= 0 /\ (c >= 1 => c + t >= 1)
  BY SMTT(30), <1>1, <1>4
<1>9. r.pc \in {"open", "pipe1", "pipe2", "pipe3"} /\ r.f = f => c + t >= 1
  BY SMTT(30), <1>1, <1>3, <1>4, <1>6
<1>10. r.pc \in {"pipe2", "pipe3"} /\ r.g = f => c + t >= 1
  BY SMTT(30), <1>1, <1>3, <1>4, <1>6
<1> QED
  BY <1>1, <1>2, <1>7, <1>8, <1>9, <1>10

(* No process has more of a file than is counted, nor two together. *)
HeldBy(f) == [p \in Procs |-> Held(p, f)]

LEMMA HeldByType ==
  ASSUME FileTypes, FileRefExact, NEW f \in File
  PROVE  /\ HeldBy(f) \in [Procs -> Nat] /\ file[f].ref = Total(HeldBy(f)) /\ file[f].ref \in Nat
         /\ \A p \in Procs : HeldBy(f)[p] = Held(p, f) /\ Held(p, f) \in Nat
<1>1. ASSUME NEW p \in Procs PROVE Held(p, f) \in Nat
  <2>1. task[p] \in TaskRec
    BY DEF FileTypes
  <2>2. Held(p, f) \in Int
    <3>1. Own(ofile[p], task[p], f) \in Int
      BY <2>1, OwnInt
    <3> QED
      BY <3>1, HeldIs
  <2>3. Held(p, f) >= 0
    BY DEF FileRefExact
  <2> QED
    BY SMTT(30), <2>2, <2>3
<1>2. file[f] \in FileRec
  BY DEF FileTypes
<1>3. file[f].ref \in Nat
  BY SMTT(30), <1>2 DEF FileRec
<1> QED
  BY <1>1, <1>3 DEF HeldBy, FileRefExact

LEMMA HeldBound ==
  ASSUME FileTypes, FileRefExact, NEW f \in File, NEW p \in Procs
  PROVE  /\ Held(p, f) <= file[f].ref
         /\ \A q \in Procs \ {p} : Held(p, f) + Held(q, f) <= file[f].ref
<1> DEFINE h == HeldBy(f)
           S == Procs \ {p}
           n == Cardinality(Columns(h, S))
<1>1. h \in [Procs -> Nat] /\ file[f].ref = Total(h) /\ file[f].ref \in Nat /\ \A x \in Procs : h[x] = Held(x, f) /\ h[x] \in Nat
  BY HeldByType
<1>2. IsFiniteSet(Procs)
  BY FilesAssumption
<1>3. IsFiniteSet(Columns(h, S)) /\ n \in Nat /\ Total(h) = n + h[p]
  BY <1>1, <1>2, TotalSplit
<1>4. ASSUME NEW q \in Procs \ {p} PROVE h[q] <= n
  <2>1. Column(h, q) \subseteq Columns(h, S)
    BY DEF Columns
  <2>2. IsFiniteSet(Column(h, q)) /\ Cardinality(Column(h, q)) = h[q]
    BY <1>1, ColumnSize
  <2> QED
    BY <1>3, <2>1, <2>2, FS_Subset
<1> HIDE DEF h, S, n
<1>5. h[p] <= file[f].ref /\ \A q \in Procs \ {p} : h[p] + h[q] <= file[f].ref
  BY SMTT(30), <1>1, <1>3, <1>4
<1> QED
  BY <1>1, <1>5

(* A step of one process: what it changes in the count of a file is what   *)
(* it changes in its own share.                                            *)
Alone(p) == \A q \in Procs \ {p} : ofile'[q] = ofile[q] /\ task'[q] = task[q]
Shares(p) ==
  \A f \in File :
    /\ Own(ofile'[p], task'[p], f) >= 0
    /\ file'[f].ref = file[f].ref - Own(ofile[p], task[p], f) + Own(ofile'[p], task'[p], f)

LEMMA StepExact ==
  ASSUME FileTypes, FileTypes', FileRefExact, NEW p \in Procs, Alone(p), Shares(p)
  PROVE  FileRefExact'
<1> SUFFICES ASSUME NEW f \in File
             PROVE  (\A q \in Procs : Held(q, f)' >= 0) /\ file'[f].ref = Total([q \in Procs |-> Held(q, f)'])
  BY DEF FileRefExact
<1>1. ASSUME NEW q \in Procs PROVE Held(q, f)' \in Nat
  <2>1. task'[q] \in TaskRec
    BY DEF FileTypes
  <2>2. Held(q, f)' = Own(ofile'[q], task'[q], f)
    BY HeldIs
  <2>3. Own(ofile'[q], task'[q], f) \in Int
    BY <2>1, OwnInt
  <2>4. CASE q = p
    <3>1. Own(ofile'[q], task'[q], f) >= 0
      BY <2>4 DEF Shares
    <3> QED
      BY SMTT(30), <2>2, <2>3, <3>1
  <2>5. CASE q # p
    <3>1. Held(q, f)' = Held(q, f)
      BY <2>2, <2>5, HeldIs DEF Alone
    <3> QED
      BY <3>1, HeldByType
  <2> QED
    BY <2>4, <2>5
<1> DEFINE h == HeldBy(f)
           g == [q \in Procs |-> Held(q, f)']
<1>2. h \in [Procs -> Nat] /\ file[f].ref = Total(h) /\ h[p] = Held(p, f) /\ h[p] \in Nat
  BY HeldByType
<1>3. g \in [Procs -> Nat] /\ g[p] = Held(p, f)' /\ g[p] \in Nat
  BY <1>1
<1>4. ASSUME NEW q \in Procs \ {p} PROVE g[q] = h[q]
  <2>1. g[q] = Own(ofile'[q], task'[q], f)
    BY HeldIs
  <2>2. h[q] = Own(ofile[q], task[q], f)
    BY HeldIs DEF HeldBy
  <2> QED
    BY <2>1, <2>2 DEF Alone
<1>5. IsFiniteSet(Procs)
  BY FilesAssumption
<1> HIDE DEF g, h
<1>6. Total(h) \in Nat /\ Total(g) = Total(h) - h[p] + g[p]
  BY <1>2, <1>3, <1>4, <1>5, TotalChange
<1>7. file'[f].ref = file[f].ref - h[p] + g[p]
  BY <1>2, <1>3, HeldIs DEF Shares
<1>8. file'[f].ref = Total(g)
  BY <1>2, <1>6, <1>7
<1>9. \A q \in Procs : Held(q, f)' >= 0
  BY SMTT(30), <1>1
<1> QED
  BY <1>8, <1>9 DEF g

-----------------------------------------------------------------------------
(* What the step of one process leaves to the others *)

(* A file of another process changes at most in its count, and not that    *)
(* when it is the only one to have it.                                     *)
Gentle(p) ==
  \A f \in File :
    \/ file'[f] = file[f]
    \/ file[f].ref = 0
    \/ Own(ofile[p], task[p], f) >= 1 /\ (file[f].ref >= 2 => file'[f].type = file[f].type)

LEMMA OthersFiles ==
  ASSUME FileTypes, FileRefExact, NEW p \in Procs, Gentle(p), NEW q \in Procs \ {p}, NEW f \in File,
         Own(ofile[q], task[q], f) >= 1
  PROVE  file'[f].type = file[f].type /\ (file[f].ref = 1 => file'[f].ref = 1)
<1>1. /\ Held(q, f) <= file[f].ref /\ Held(p, f) + Held(q, f) <= file[f].ref
      /\ Held(p, f) \in Nat /\ Held(q, f) \in Nat /\ file[f].ref \in Nat
  BY HeldBound, HeldByType
<1>2. Held(p, f) = Own(ofile[p], task[p], f) /\ Held(q, f) >= 1
  BY HeldIs
<1>3. file[f].ref # 0 /\ (Held(p, f) >= 1 => file[f].ref >= 2 /\ file[f].ref # 1)
  BY SMTT(30), <1>1, <1>2
<1> QED
  BY <1>2, <1>3 DEF Gentle

LEMMA OthersKeep ==
  ASSUME FileTypes, FileRefExact, NEW p \in Procs, Gentle(p), NEW q \in Procs \ {p},
         ofile'[q] = ofile[q], task'[q] = task[q], q \in live' <=> q \in live, TaskInv(q)
  PROVE  TaskInv(q)'
<1> DEFINE o == ofile[q]
           r == task[q]
<1>1. o \in FdRow /\ r \in TaskRec /\ ofile'[q] = o /\ task'[q] = r
  BY DEF FileTypes
<1>2. CallShape(o, r, q \in live) /\ FilesKnown(o, r, file)
  BY DEF TaskInv
<1>3. CallShape(o, r, q \in live')
  BY <1>2 DEF CallShape
<1>4. ASSUME r.pc = "pipe3" PROVE file'[r.f].type = "pipe" /\ file'[r.g].type = "pipe"
  <2>1. r.f \in File /\ r.g \in File
    BY <1>2, <1>4 DEF CallShape
  <2>2. Own(o, r, r.f) >= 1 /\ Own(o, r, r.g) >= 1
    BY <1>1, <1>2, <1>4, OwnPositive
  <2>3. file'[r.f].type = file[r.f].type
    BY <2>1, <2>2, OthersFiles
  <2>4. file'[r.g].type = file[r.g].type
    BY <2>1, <2>2, OthersFiles
  <2> QED
    BY <1>2, <1>4, <2>3, <2>4 DEF FilesKnown
<1>5. ASSUME NEW f \in File, FreshIn(r, f) PROVE Own(o, r, f) >= 1 /\ file'[f].ref = 1 /\ file'[f].type = "none"
  <2>1. Own(o, r, f) >= 1 /\ file[f].ref = 1 /\ file[f].type = "none"
    BY <1>2, <1>5 DEF FilesKnown
  <2> QED
    BY <2>1, OthersFiles
<1>6. ASSUME NEW d \in Fd, o[d] # 0 PROVE file'[o[d]].type # "none" \/ FreshIn(r, o[d])
  <2>1. o[d] \in File
    BY <1>1, <1>6, FileNumbers DEF FdRow
  <2>2. Own(o, r, o[d]) >= 1
    BY <1>1, <1>2, OwnPositive
  <2>3. file'[o[d]].type = file[o[d]].type
    BY <2>1, <2>2, OthersFiles
  <2> QED
    BY <1>2, <1>6, <2>3 DEF FilesKnown
<1>7. FilesKnown(o, r, file')
  BY <1>4, <1>5, <1>6 DEF FilesKnown
<1> QED
  BY <1>1, <1>3, <1>7 DEF TaskInv

(* The ends of pipes stay as they are when no pipe, no file of a pipe and  *)
(* no pipeclose is touched.                                                *)
SamePipe(a, b) ==
  /\ a.type = "pipe" <=> b.type = "pipe"
  /\ a.type = "pipe" => a.pipe = b.pipe /\ a.writable = b.writable
SameClose(a, b) ==
  /\ a.pc = "pipeclose" <=> b.pc = "pipeclose"
  /\ a.pc = "pipeclose" => a.ff = b.ff /\ a.end = b.end

LEMMA EndsKept ==
  ASSUME EndsInv, pipe' = pipe, \A f \in File : SamePipe(file'[f], file[f]),
         \A q \in Procs : SameClose(task'[q], task[q])
  PROVE  EndsInv'
<1>1. ASSUME NEW f \in File, NEW k, NEW w PROVE Has(f, k, w)' <=> Has(f, k, w)
  BY DEF Has, SamePipe
<1>2. ASSUME NEW q \in Procs, NEW k, NEW w PROVE ClosingEnd(q, k, w)' <=> ClosingEnd(q, k, w)
  BY DEF ClosingEnd, SameClose
<1>3. ASSUME NEW k, NEW w PROVE (Taken(k, w)' <=> Taken(k, w)) /\ (OneHolder(k, w)' <=> OneHolder(k, w))
  <2>1. Taken(k, w)' <=> Taken(k, w)
    BY <1>1, <1>2 DEF Taken
  <2>2. OneHolder(k, w)' <=> OneHolder(k, w)
    BY <1>1, <1>2 DEF OneHolder
  <2> QED
    BY <2>1, <2>2
<1> QED
  BY <1>3 DEF EndsInv

(* A step of one process keeps the invariant when it keeps its own part *)
LEMMA StepKeeps ==
  ASSUME FilesInv, NEW p \in Procs, FileTypes', Alone(p), Shares(p), Gentle(p),
         \A q \in Procs \ {p} : q \in live' <=> q \in live, TaskInv(p)', EndsInv', FileShape(file'), ~fileHalt'
  PROVE  FilesInv'
<1>1. FileTypes /\ FileRefExact /\ \A q \in Procs : TaskInv(q)
  BY DEF FilesInv
<1>2. FileRefExact'
  BY <1>1, StepExact
<1>3. ASSUME NEW q \in Procs PROVE TaskInv(q)'
  <2>1. CASE q = p
    BY <2>1
  <2>2. CASE q # p
    BY <1>1, <2>2, OthersKeep DEF Alone
  <2> QED
    BY <2>1, <2>2
<1> QED
  BY <1>2, <1>3 DEF FilesInv

(* The invariant, as far as a step of p needs it. *)
LEMMA InvOf ==
  ASSUME FilesInv, NEW p \in Procs
  PROVE  /\ ofile[p] \in FdRow /\ task[p] \in TaskRec
         /\ CallShape(ofile[p], task[p], p \in live) /\ FilesKnown(ofile[p], task[p], file)
         /\ file \in [File -> FileRec] /\ FileShape(file) /\ EndsInv /\ FileTypes /\ FileRefExact
         /\ ofile \in [Procs -> FdRow] /\ task \in [Procs -> TaskRec] /\ pipe \in [PipeId -> PipeRec]
BY DEF FilesInv, FileTypes, TaskInv

-----------------------------------------------------------------------------
(* Places of a call *)

LEMMA RestIs ==
  /\ Rest \in TaskRec
  /\ Rest.pc = "user" /\ Rest.f = 0 /\ Rest.g = 0 /\ Rest.close = <<>> /\ Rest.ff = 0
<1>1. <<>> \in CloseList /\ 0 \in 0 .. NFILE /\ 0 \in 0 .. NPIPE /\ "user" \in CallPlace /\ FALSE \in BOOLEAN
      /\ "user" \in {"user", "exit"}
  BY FileNumbers DEF CloseList, CallPlace
<1>2. Rest \in TaskRec
  BY <1>1 DEF Rest, TaskRec
<1> QED
  BY SMTT(30), <1>2 DEF Rest

(* A call that has no file of its own but those it is closing *)
Idle == {"user", "close", "exit", "pipeclose"}
TypedRow(o, F) == \A d \in Fd : o[d] # 0 => F[o[d]].type # "none"

LEMMA IdleCall ==
  ASSUME NEW o, NEW r \in TaskRec, NEW alive, alive, r.pc \in Idle
  PROVE  /\ (r.pc \in {"user", "exit"} /\ r.close = <<>>) \/ r.pc = "close" => CallShape(o, r, alive)
         /\ \A f : Own(o, r, f) = Count(o, f) + CloseCount(r.close, f)
         /\ \A f : ~FreshIn(r, f)
         /\ r.close = <<>> => \A f : Own(o, r, f) = Count(o, f)
         /\ \A F : TypedRow(o, F) => FilesKnown(o, r, F)
<1>1. /\ r.pc \notin {"open", "openset", "pipe1", "pipe2", "pipe3", "filedup"} /\ r.pc # "pipe2" /\ r.pc # "filedup"
      /\ r.pc # "pipe3" /\ r.pc \in {"user", "openset", "close", "pipeclose", "exit"}
      /\ r.pc \notin {"pipe2", "pipe3"} /\ r.pc \notin {"open", "openset", "pipe1", "pipe2"}
      /\ (r.pc = "close" => r.pc \in {"close", "pipeclose"}) /\ (r.pc \in {"user", "exit", "close"} => r.pc # "pipeclose")
  BY SMTT(30) DEF Idle
<1>2. (r.pc \in {"user", "exit"} /\ r.close = <<>>) \/ r.pc = "close" => CallShape(o, r, alive)
  <2>1. CASE r.pc = "close"
    BY <1>1, <2>1 DEF CallShape
  <2>2. CASE r.pc \in {"user", "exit"} /\ r.close = <<>>
    BY <1>1, <2>2 DEF CallShape
  <2> QED
    BY <2>1, <2>2
<1>3. ASSUME NEW f PROVE Own(o, r, f) = Count(o, f) + CloseCount(r.close, f)
  BY <1>1, OwnInt, Flights DEF Own
<1>4. ASSUME NEW f PROVE ~FreshIn(r, f)
  BY <1>1 DEF FreshIn
<1>5. ASSUME NEW f, r.close = <<>> PROVE Own(o, r, f) = Count(o, f)
  <2>1. CloseCount(r.close, f) = 0 /\ Count(o, f) \in Nat
    BY <1>5, CloseCounts, CountType
  <2>2. Count(o, f) + 0 = Count(o, f)
    BY SMTT(30), <2>1
  <2> QED
    BY <1>3, <2>1, <2>2
<1>6. ASSUME NEW F, TypedRow(o, F) PROVE FilesKnown(o, r, F)
  BY <1>1, <1>4, <1>6 DEF FilesKnown, TypedRow
<1> QED
  BY <1>2, <1>3, <1>4, <1>5, <1>6

(* Only in sys_open, between fdalloc and the fields, does a descriptor     *)
(* name a file that is nothing yet.                                        *)
LEMMA RowTyped ==
  ASSUME FilesInv, NEW p \in Procs
  PROVE  /\ task[p].pc # "openset" => TypedRow(ofile[p], file)
         /\ \A d \in Fd : ofile[p][d] # 0 => /\ ofile[p][d] \in File
                                             /\ file[ofile[p][d]].type # "none" \/ FreshIn(task[p], ofile[p][d])
<1> DEFINE o == ofile[p]
           r == task[p]
<1>1. o \in FdRow /\ r \in TaskRec /\ CallShape(o, r, p \in live) /\ FilesKnown(o, r, file) /\ FileTypes /\ FileRefExact
  BY InvOf
<1>2. ASSUME NEW d \in Fd, o[d] # 0 PROVE o[d] \in File /\ (file[o[d]].type # "none" \/ FreshIn(r, o[d]))
  BY <1>1, <1>2, FileNumbers DEF FdRow, FilesKnown
<1>3. ASSUME r.pc # "openset", NEW d \in Fd, o[d] # 0, FreshIn(r, o[d]) PROVE FALSE
  <2> DEFINE f == o[d]
             c == Count(o, f)
             s == CloseCount(r.close, f)
  <2>1. f \in File /\ file[f].ref = 1
    BY <1>1, <1>2, <1>3 DEF FilesKnown
  <2>2. Held(p, f) <= file[f].ref /\ Held(p, f) = Own(o, r, f)
    BY <1>1, <2>1, HeldBound, HeldIs
  <2>3. c >= 1 /\ c \in Nat /\ s \in Nat
    BY <1>1, CountType, OwnInt
  <2>4. Hit(r.f, f) \in Nat /\ Hit(r.g, f) \in Nat /\ (Hit(r.f, f) = 1 \/ (Hit(r.g, f) = 1 /\ r.pc = "pipe2"))
    <3>1. r.f = f \/ (r.g = f /\ r.pc = "pipe2")
      BY <1>3 DEF FreshIn
    <3>2. Hit(r.f, f) \in Nat /\ (r.f = f => Hit(r.f, f) = 1)
      BY HitIs
    <3>3. Hit(r.g, f) \in Nat /\ (r.g = f => Hit(r.g, f) = 1)
      BY HitIs
    <3> QED
      BY <3>1, <3>2, <3>3
  <2>5. Own(o, r, f) = c + (s + Hit(r.f, f)) \/ (r.pc = "pipe2" /\ Own(o, r, f) = c + (s + Hit(r.f, f) + Hit(r.g, f)))
    <3>1. r.pc \in {"open", "pipe1"} \/ (r.pc = "pipe2" /\ r.pc \in {"pipe2", "pipe3"})
      BY <1>3 DEF FreshIn
    <3> QED
      BY <2>3, <3>1, Flights DEF Own
  <2>6. r.pc = "pipe2" => Own(o, r, f) = c + (s + Hit(r.f, f) + Hit(r.g, f))
    BY <2>3, Flights DEF Own
  <2> HIDE DEF c, s, o, r
  <2>7. Own(o, r, f) <= 1
    BY <2>1, <2>2
  <2> HIDE DEF f
  <2> QED
    BY SMTT(30), <2>3, <2>4, <2>5, <2>6, <2>7
<1> QED
  BY <1>2, <1>3 DEF TypedRow

(* Steps that change only descriptors and place *)
LEMMA QuietStep ==
  ASSUME FilesInv, NEW p \in Procs, ofile' \in [Procs -> FdRow], task' \in [Procs -> TaskRec], Alone(p),
         file' = file, pipe' = pipe, live' \subseteq Procs, \A q \in Procs \ {p} : q \in live' <=> q \in live,
         task[p].pc # "pipeclose", task'[p].pc # "pipeclose",
         \A f \in File : Own(ofile'[p], task'[p], f) = Own(ofile[p], task[p], f),
         CallShape(ofile'[p], task'[p], p \in live'), FilesKnown(ofile'[p], task'[p], file), ~fileHalt'
  PROVE  FilesInv'
<1>1. FileTypes /\ FileRefExact /\ EndsInv /\ FileShape(file) /\ task[p] \in TaskRec /\ CallShape(ofile[p], task[p], p \in live)
  BY InvOf
<1>2. FileTypes'
  BY <1>1 DEF FileTypes
<1>3. Gentle(p)
  BY DEF Gentle
<1>4. Shares(p)
  <2>1. ASSUME NEW f \in File PROVE /\ Own(ofile'[p], task'[p], f) >= 0
                                    /\ file'[f].ref = file[f].ref - Own(ofile[p], task[p], f) + Own(ofile'[p], task'[p], f)
    <3>1. Own(ofile'[p], task'[p], f) = Own(ofile[p], task[p], f)
      OBVIOUS
    <3>2. Own(ofile[p], task[p], f) \in Int /\ Own(ofile[p], task[p], f) >= 0 /\ file[f].ref \in Nat
      BY <1>1, OwnInt, OwnPositive, HeldByType
    <3> DEFINE a == Own(ofile[p], task[p], f)
               n == file[f].ref
    <3> HIDE DEF a, n
    <3>3. n = n - a + a
      BY SMTT(30), <3>2 DEF a, n
    <3> QED
      BY <3>1, <3>2, <3>3 DEF a, n
  <2> QED
    BY <2>1 DEF Shares
<1>5. EndsInv'
  <2>1. \A f \in File : SamePipe(file'[f], file[f])
    BY DEF SamePipe
  <2>2. \A q \in Procs : SameClose(task'[q], task[q])
    BY DEF SameClose, Alone
  <2> QED
    BY <1>1, <2>1, <2>2, EndsKept
<1>6. TaskInv(p)'
  BY DEF TaskInv
<1>7. FileShape(file')
  BY <1>1
<1> QED
  BY <1>2, <1>3, <1>4, <1>5, <1>6, <1>7, StepKeeps

-----------------------------------------------------------------------------
(* filealloc *)

LEMMA TakeStep ==
  ASSUME FilesInv, NEW p \in Procs, NEW m, m = Min(FreeFiles), FreeFiles # {},
         file' = Take, task' \in [Procs -> TaskRec], Alone(p),
         UNCHANGED <<ofile, pipe, live, fileHalt>>,
         task[p].pc \notin {"openset", "pipeclose"}, task'[p].pc # "pipeclose", task'[p].pc # "pipe3",
         \A f \in File : Own(ofile[p], task'[p], f) = Own(ofile[p], task[p], f) + Hit(m, f),
         m \in File => CallShape(ofile[p], task'[p], p \in live),
         \A f \in File : FreshIn(task'[p], f) => f = m \/ FreshIn(task[p], f)
  PROVE  FilesInv'
<1> DEFINE o == ofile[p]
           r == task[p]
           s == task'[p]
<1>1. /\ FileTypes /\ FileRefExact /\ EndsInv /\ FileShape(file) /\ r \in TaskRec /\ o \in FdRow
      /\ CallShape(o, r, p \in live) /\ FilesKnown(o, r, file) /\ file \in [File -> FileRec]
  BY InvOf
<1>2. m \in FreeFiles
  <2>1. FreeFiles \in SUBSET Nat
    BY FileNumbers DEF FreeFiles
  <2> QED
    BY <2>1, LeastOf
<1>3. m \in File /\ file[m].ref = 0 /\ file[m].type = "none"
  BY <1>1, <1>2 DEF FreeFiles, FileShape
<1>4. /\ file' \in [File -> FileRec] /\ file'[m] = [file[m] EXCEPT !.ref = 1] /\ \A f \in File \ {m} : file'[f] = file[f]
  <2>1. file' = [file EXCEPT ![m] = [file[m] EXCEPT !.ref = 1]]
    BY DEF Take
  <2>2. file[m] \in FileRec /\ 1 \in Nat
    BY SMTT(30), <1>1, <1>3
  <2>3. [file[m] EXCEPT !.ref = 1] \in FileRec
    BY <2>2 DEF FileRec
  <2> QED
    BY <1>1, <1>3, <2>1, <2>3
<1>5. file'[m].ref = 1 /\ file'[m].type = "none" /\ file'[m].pipe = file[m].pipe
  <2>1. file[m] \in FileRec
    BY <1>1, <1>3
  <2> QED
    BY SMTT(30), <1>3, <1>4, <2>1 DEF FileRec
<1>6. FileTypes'
  BY <1>1, <1>4 DEF FileTypes
<1>7. Own(o, r, m) = 0 /\ s \in TaskRec /\ CallShape(o, s, p \in live)
  <2>1. Held(p, m) <= 0 /\ Held(p, m) = Own(o, r, m) /\ Held(p, m) \in Nat
    BY <1>1, <1>3, HeldBound, HeldIs, HeldByType
  <2>2. Own(o, r, m) = 0
    BY SMTT(30), <2>1
  <2> QED
    BY <1>3, <2>2
<1>8. Alone(p) /\ Gentle(p)
  BY <1>3, <1>4 DEF Gentle
<1>9. Shares(p)
  <2>1. ASSUME NEW f \in File PROVE /\ Own(o, s, f) >= 0
                                    /\ file'[f].ref = file[f].ref - Own(o, r, f) + Own(o, s, f)
    <3>1. Own(o, r, f) \in Int /\ file[f].ref \in Nat /\ Hit(m, f) \in Nat /\ (f = m => Hit(m, f) = 1) /\ (f # m => Hit(m, f) = 0)
      BY <1>1, OwnInt, HeldByType, HitIs
    <3>2. Own(o, s, f) = Own(o, r, f) + Hit(m, f) /\ Own(o, s, f) >= 0
      BY <1>7, OwnPositive
    <3>3. file'[f].ref = file[f].ref + Hit(m, f)
      <4>1. CASE f = m
        <5>1. file'[f].ref = 1 /\ file[f].ref = 0 /\ 0 + 1 = 1
          BY SMTT(30), <1>3, <1>5, <4>1
        <5> QED
          BY <3>1, <4>1, <5>1
      <4>2. CASE f # m
        <5>1. file[f].ref + 0 = file[f].ref
          BY SMTT(30), <3>1
        <5> QED
          BY <1>4, <3>1, <4>2, <5>1
      <4> QED
        BY <4>1, <4>2
    <3> DEFINE a == Own(o, r, f)
               b == Own(o, s, f)
               n == file[f].ref
               k == file'[f].ref
               h == Hit(m, f)
    <3> HIDE DEF a, b, n, k, h
    <3>4. k = n - a + b
      BY SMTT(30), <3>1, <3>2, <3>3 DEF a, b, n, k, h
    <3> QED
      BY <3>2, <3>4 DEF a, b, n, k
  <2> QED
    BY <2>1 DEF Shares
<1>10. EndsInv'
  <2>1. ASSUME NEW f \in File PROVE SamePipe(file'[f], file[f])
    <3>1. CASE f = m
      BY <1>3, <1>5, <3>1 DEF SamePipe
    <3>2. CASE f # m
      BY <1>4, <3>2 DEF SamePipe
    <3> QED
      BY <3>1, <3>2
  <2>2. \A q \in Procs : SameClose(task'[q], task[q])
    BY DEF SameClose, Alone
  <2> QED
    BY <1>1, <2>1, <2>2, EndsKept
<1>11. FilesKnown(o, s, file')
  <2>1. ASSUME NEW d \in Fd, o[d] # 0 PROVE file'[o[d]].type # "none"
    <3>1. o[d] \in File /\ file[o[d]].type # "none"
      BY <2>1, RowTyped DEF TypedRow
    <3>2. o[d] # m
      BY <1>3, <3>1
    <3> QED
      BY <1>4, <3>1, <3>2
  <2>2. ASSUME NEW f \in File, FreshIn(s, f) PROVE Own(o, s, f) >= 1 /\ file'[f].ref = 1 /\ file'[f].type = "none"
    <3>0. Own(o, r, f) \in Int /\ Hit(m, f) \in Nat
      BY <1>1, OwnInt, HitIs
    <3>1. CASE f = m
      <4>1. Own(o, s, f) = 0 + 1
        BY <1>7, <3>1, HitIs
      <4>2. 0 + 1 >= 1
        BY SMTT(30)
      <4> QED
        BY <1>5, <3>1, <4>1, <4>2
    <3>2. CASE f # m
      <4>1. FreshIn(r, f)
        BY <2>2, <3>2
      <4>2. Own(o, r, f) >= 1 /\ file[f].ref = 1 /\ file[f].type = "none"
        BY <1>1, <4>1 DEF FilesKnown
      <4>3. Own(o, s, f) = Own(o, r, f) + 0 /\ file'[f] = file[f]
        <5>1. Hit(m, f) = 0
          BY <3>2, HitIs
        <5> QED
          BY <1>4, <3>2, <5>1
      <4>4. Own(o, r, f) + 0 >= 1
        BY SMTT(30), <3>0, <4>2
      <4> QED
        BY <4>2, <4>3, <4>4
    <3> QED
      BY <3>1, <3>2
  <2> QED
    BY <2>1, <2>2 DEF FilesKnown
<1>12. FileShape(file')
  <2>1. ASSUME NEW f \in File PROVE (file'[f].ref = 0 => file'[f].type = "none") /\ (file'[f].type = "pipe" => file'[f].pipe \in PipeId)
    <3>1. CASE f = m
      BY <1>5, <3>1
    <3>2. CASE f # m
      BY <1>1, <1>4, <3>2 DEF FileShape
    <3> QED
      BY <3>1, <3>2
  <2> QED
    BY <2>1 DEF FileShape
<1>13. TaskInv(p)' /\ ~fileHalt'
  BY <1>7, <1>11 DEF TaskInv, FilesInv
<1> QED
  BY <1>6, <1>8, <1>9, <1>10, <1>12, <1>13, StepKeeps

(* sys_open and pipealloc begin alike. *)
LEMMA FirstFile ==
  ASSUME FilesInv, NEW p \in Procs, NEW l \in {"open", "pipe1"}, In(p, "user"),
         IF FreeFiles = {} THEN Return(p) /\ UNCHANGED file
         ELSE file' = Take /\ Do(p, [Rest EXCEPT !.pc = l, !.f = Min(FreeFiles)]),
         UNCHANGED <<ofile, pipe, live, fileHalt>>
  PROVE  FilesInv'
<1> DEFINE o == ofile[p]
           r == task[p]
<1>1. /\ o \in FdRow /\ r \in TaskRec /\ task \in [Procs -> TaskRec] /\ ofile \in [Procs -> FdRow] /\ FileTypes
      /\ CallShape(o, r, p \in live)
  BY InvOf
<1>2. r.pc = "user" /\ p \in live /\ ~fileHalt /\ r.pc \in Idle /\ r.pc # "openset" /\ r.pc # "pipeclose"
  BY SMTT(30) DEF In, Idle
<1>3. r.close = <<>>
  BY <1>1, <1>2 DEF CallShape
<1>4. \A f : Own(o, r, f) = Count(o, f)
  BY <1>1, <1>2, <1>3, IdleCall
<1>5. CASE FreeFiles = {}
  <2>1. task' = [task EXCEPT ![p] = Rest]
    BY <1>5 DEF Return, Do
  <2>2. task' \in [Procs -> TaskRec] /\ task'[p] = Rest /\ Alone(p) /\ file' = file
    BY <1>1, <1>5, <2>1, RestIs DEF Alone
  <2>3. Rest.pc \in Idle /\ Rest.pc \in {"user", "exit"} /\ Rest.pc # "pipeclose"
    BY SMTT(30) DEF Rest, Idle
  <2>4. TypedRow(o, file)
    BY <1>2, RowTyped
  <2>5. CallShape(o, Rest, p \in live') /\ FilesKnown(o, Rest, file) /\ \A f : Own(o, Rest, f) = Own(o, r, f)
    BY <1>2, <1>4, <2>3, <2>4, RestIs, IdleCall
  <2> QED
    BY <1>1, <1>2, <2>2, <2>3, <2>5, QuietStep DEF FileTypes
<1>6. CASE FreeFiles # {}
  <2>1. PICK m : m = Min(FreeFiles)
    OBVIOUS
  <2>2. m \in File
    <3>1. FreeFiles \in SUBSET Nat
      BY FileNumbers DEF FreeFiles
    <3> QED
      BY <1>6, <2>1, <3>1, LeastOf DEF FreeFiles
  <2> DEFINE s == [Rest EXCEPT !.pc = l, !.f = m]
  <2>3. s \in TaskRec
    <3>1. l \in CallPlace /\ m \in 0 .. NFILE
      BY <2>2, FileNumbers DEF CallPlace
    <3> QED
      BY <3>1, RestIs DEF TaskRec
  <2>4. s.pc = l /\ s.f = m /\ s.g = 0 /\ s.close = <<>>
    BY SMTT(30) DEF Rest
  <2>5. task' = [task EXCEPT ![p] = s] /\ file' = Take
    BY <1>6, <2>1 DEF Do
  <2> HIDE DEF s
  <2>6. task' \in [Procs -> TaskRec] /\ task'[p] = s /\ Alone(p)
    BY <1>1, <2>3, <2>5 DEF Alone
  <2>7. /\ l # "pipeclose" /\ l # "pipe3" /\ l # "pipe2" /\ l # "filedup" /\ l # "close"
        /\ r.pc \notin {"openset", "pipeclose"}
    BY SMTT(30), <1>2
  <2>8. CallShape(o, s, p \in live)
    BY <1>2, <2>2, <2>4, <2>7 DEF CallShape
  <2>9. \A f \in File : FreshIn(s, f) => f = m
    BY <2>4, <2>7 DEF FreshIn
  <2>10. ASSUME NEW f \in File PROVE Own(o, s, f) = Own(o, r, f) + Hit(m, f)
    <3>0. 0 \in Nat
      BY SMTT(30)
    <3>1. CloseCount(s.close, f) = 0 /\ CloseCount(s.close, f) \in Nat
      BY <2>4, <3>0, CloseCounts
    <3>2. Flight(s, f) = 0 + Hit(m, f)
      BY <2>4, <3>1, Flights
    <3>3. Hit(m, f) \in Nat /\ 0 + Hit(m, f) = Hit(m, f)
      BY SMTT(30), HitIs
    <3> QED
      BY <1>4, <3>2, <3>3 DEF Own
  <2> QED
    BY <1>6, <2>1, <2>4, <2>5, <2>6, <2>7, <2>8, <2>9, <2>10, TakeStep
<1> QED
  BY <1>5, <1>6

(* One more file for the second end of the pipe *)
LEMMA SecondFile ==
  ASSUME FilesInv, NEW p \in Procs, PipeFile1(p), FreeFiles # {}
  PROVE  FilesInv'
<1> DEFINE o == ofile[p]
           r == task[p]
<1>1. /\ o \in FdRow /\ r \in TaskRec /\ task \in [Procs -> TaskRec] /\ CallShape(o, r, p \in live)
      /\ FilesKnown(o, r, file) /\ FileTypes /\ FileRefExact
  BY InvOf
<1>2. r.pc = "pipe1" /\ p \in live
  BY DEF PipeFile1, In
<1>3. r.close = <<>> /\ r.f \in File
  <2>1. r.pc \notin {"close", "pipeclose"} /\ r.pc \in {"open", "openset", "pipe1", "pipe2", "pipe3", "filedup"}
    BY SMTT(30), <1>2
  <2> QED
    BY <1>1, <2>1 DEF CallShape
<1>4. FreshIn(r, r.f) /\ file[r.f].ref = 1
  BY <1>1, <1>2, <1>3 DEF FreshIn, FilesKnown
<1>5. PICK m : m = Min(FreeFiles)
  OBVIOUS
<1>6. m \in File /\ file[m].ref = 0
  <2>1. FreeFiles \in SUBSET Nat
    BY FileNumbers DEF FreeFiles
  <2> QED
    BY <1>5, <2>1, LeastOf DEF FreeFiles
<1>7. m # r.f
  <2>1. 0 # 1
    BY SMTT(30)
  <2> QED
    BY <1>4, <1>6, <2>1
<1> DEFINE s == [r EXCEPT !.pc = "pipe2", !.g = m]
<1>8. s \in TaskRec
  <2>1. "pipe2" \in CallPlace /\ m \in 0 .. NFILE
    BY <1>6, FileNumbers DEF CallPlace
  <2> QED
    BY <1>1, <2>1 DEF TaskRec
<1>9. s.pc = "pipe2" /\ s.f = r.f /\ s.g = m /\ s.close = <<>>
  BY SMTT(30), <1>1, <1>3 DEF TaskRec
<1>10. task' = [task EXCEPT ![p] = s] /\ file' = Take /\ UNCHANGED <<ofile, pipe, live, fileHalt>>
  BY <1>5 DEF PipeFile1, Do
<1> HIDE DEF s
<1>11. task' \in [Procs -> TaskRec] /\ task'[p] = s /\ Alone(p)
  BY <1>1, <1>8, <1>10 DEF Alone
<1>12. /\ s.pc # "pipeclose" /\ s.pc # "pipe3" /\ s.pc # "filedup" /\ s.pc # "close"
       /\ r.pc \notin {"openset", "pipeclose"}
  BY SMTT(30), <1>2, <1>9
<1>13. CallShape(o, s, p \in live)
  BY <1>2, <1>3, <1>6, <1>7, <1>9, <1>12 DEF CallShape
<1>14. ASSUME NEW f \in File, FreshIn(s, f) PROVE f = m \/ FreshIn(r, f)
  BY <1>2, <1>9, <1>14 DEF FreshIn
<1>15. ASSUME NEW f \in File PROVE Own(o, s, f) = Own(o, r, f) + Hit(m, f)
  <2>1. CloseCount(s.close, f) \in Nat /\ CloseCount(r.close, f) = CloseCount(s.close, f) /\ Count(o, f) \in Nat
    BY <1>1, <1>3, <1>9, OwnInt
  <2>2. Flight(r, f) = CloseCount(r.close, f) + Hit(r.f, f)
    BY <1>2, <2>1, Flights
  <2>3. Flight(s, f) = CloseCount(s.close, f) + Hit(s.f, f) + Hit(s.g, f)
    BY <1>9, <2>1, Flights
  <2>4. Hit(r.f, f) \in Nat /\ Hit(m, f) \in Nat
    BY HitIs
  <2> DEFINE c == Count(o, f)
             k == CloseCount(s.close, f)
             a == Hit(r.f, f)
             b == Hit(m, f)
  <2>5. Own(o, s, f) = c + (k + a + b) /\ Own(o, r, f) = c + (k + a)
    BY <1>9, <2>1, <2>2, <2>3 DEF Own
  <2> HIDE DEF c, k, a, b
  <2>6. c + (k + a + b) = c + (k + a) + b
    BY SMTT(30), <2>1, <2>4 DEF c, k, a, b
  <2> QED
    BY <2>5, <2>6 DEF b
<1> QED
  BY <1>5, <1>10, <1>11, <1>12, <1>13, <1>14, <1>15, TakeStep

-----------------------------------------------------------------------------
(* fdalloc, and the ways out of a call *)

(* Giving up: the call closes the files it has made. *)
LEMMA GiveUp ==
  ASSUME FilesInv, NEW p \in Procs, NEW s \in CloseList, Close(p, s), task[p].pc \notin {"openset", "pipeclose"}, p \in live,
         \A f \in File : Flight(task[p], f) = CloseCount(s, f),
         UNCHANGED <<ofile, file, pipe, live, fileHalt>>
  PROVE  FilesInv'
<1> DEFINE o == ofile[p]
           n == [Rest EXCEPT !.pc = "close", !.close = s]
<1>1. o \in FdRow /\ task \in [Procs -> TaskRec] /\ FileTypes /\ ofile \in [Procs -> FdRow]
  BY InvOf
<1>2. n \in TaskRec /\ n.pc = "close" /\ n.close = s
  <2>1. "close" \in CallPlace
    BY DEF CallPlace
  <2>2. n \in TaskRec
    BY <2>1, RestIs DEF TaskRec
  <2> QED
    BY SMTT(30), <2>2 DEF Rest
<1>3. task' = [task EXCEPT ![p] = n]
  BY DEF Close, Do
<1> HIDE DEF n
<1>4. task' \in [Procs -> TaskRec] /\ task'[p] = n /\ Alone(p)
  BY <1>1, <1>2, <1>3 DEF Alone
<1>5. n.pc \in Idle /\ n.pc # "pipeclose" /\ task[p].pc # "pipeclose" /\ task[p].pc # "openset"
  BY SMTT(30), <1>2 DEF Idle
<1>6. TypedRow(o, file)
  BY <1>5, RowTyped
<1>7. CallShape(o, n, p \in live') /\ FilesKnown(o, n, file) /\ \A f : Own(o, n, f) = Count(o, f) + CloseCount(s, f)
  BY <1>2, <1>5, <1>6, IdleCall
<1>8. \A f \in File : Own(o, n, f) = Own(o, task[p], f)
  BY <1>7 DEF Own
<1> QED
  BY <1>1, <1>4, <1>5, <1>7, <1>8, QuietStep DEF FileTypes, FilesInv

(* What a call that has made files has in flight *)
LEMMA InFlightNow ==
  ASSUME FilesInv, NEW p \in Procs
  PROVE  /\ task[p].pc \in {"open", "pipe1"} => <<task[p].f>> \in CloseList
                /\ \A f \in File : Flight(task[p], f) = CloseCount(<<task[p].f>>, f)
         /\ task[p].pc \in {"pipe2", "pipe3"} => <<task[p].f, task[p].g>> \in CloseList
                /\ \A f \in File : Flight(task[p], f) = CloseCount(<<task[p].f, task[p].g>>, f)
<1> DEFINE r == task[p]
<1>1. r \in TaskRec /\ CallShape(ofile[p], r, p \in live)
  BY InvOf
<1>2. ASSUME NEW f \in File PROVE CloseCount(<<>>, f) = 0 /\ CloseCount(<<>>, f) \in Nat /\ Hit(r.f, f) \in Nat /\ Hit(r.g, f) \in Nat
  <2>1. 0 \in Nat
    BY SMTT(30)
  <2> QED
    BY <2>1, CloseCounts, HitIs
<1>3. ASSUME r.pc \in {"open", "pipe1"}
      PROVE  <<r.f>> \in CloseList /\ \A f \in File : Flight(r, f) = CloseCount(<<r.f>>, f)
  <2>1. r.close = <<>> /\ r.f \in File
    <3>1. r.pc \notin {"close", "pipeclose"} /\ r.pc \in {"open", "openset", "pipe1", "pipe2", "pipe3", "filedup"}
      BY SMTT(30), <1>3
    <3> QED
      BY <1>1, <3>1 DEF CallShape
  <2>2. <<r.f>> \in CloseList
    BY <2>1 DEF CloseList
  <2>3. ASSUME NEW f \in File PROVE Flight(r, f) = CloseCount(<<r.f>>, f)
    <3>0. CloseCount(r.close, f) = 0 /\ CloseCount(r.close, f) \in Nat
      BY <1>2, <2>1
    <3>1. Flight(r, f) = 0 + Hit(r.f, f)
      BY <1>3, <3>0, Flights
    <3>2. 0 + Hit(r.f, f) = Hit(r.f, f)
      BY SMTT(30), <1>2
    <3> QED
      BY <3>1, <3>2, CloseCounts
  <2> QED
    BY <2>2, <2>3
<1>4. ASSUME r.pc \in {"pipe2", "pipe3"}
      PROVE  <<r.f, r.g>> \in CloseList /\ \A f \in File : Flight(r, f) = CloseCount(<<r.f, r.g>>, f)
  <2>1. r.close = <<>> /\ r.f \in File /\ r.g \in File
    <3>1. r.pc \notin {"close", "pipeclose"} /\ r.pc \in {"open", "openset", "pipe1", "pipe2", "pipe3", "filedup"}
      BY SMTT(30), <1>4
    <3> QED
      BY <1>1, <1>4, <3>1 DEF CallShape
  <2>2. <<r.f, r.g>> \in CloseList
    BY <2>1 DEF CloseList
  <2>3. ASSUME NEW f \in File PROVE Flight(r, f) = CloseCount(<<r.f, r.g>>, f)
    <3>0. CloseCount(r.close, f) = 0 /\ CloseCount(r.close, f) \in Nat
      BY <1>2, <2>1
    <3>1. Flight(r, f) = 0 + Hit(r.f, f) + Hit(r.g, f)
      BY <1>4, <3>0, Flights
    <3>2. 0 + Hit(r.f, f) + Hit(r.g, f) = Hit(r.f, f) + Hit(r.g, f)
      BY SMTT(30), <1>2
    <3> QED
      BY <3>1, <3>2, CloseTwo
  <2> QED
    BY <2>2, <2>3
<1> QED
  BY <1>3, <1>4

FdIsSet(p, d, x) ==
  /\ ofile' \in [Procs -> FdRow] /\ ofile'[p][d] = x /\ \A e \in Fd \ {d} : ofile'[p][e] = ofile[p][e]
  /\ \A q \in Procs \ {p} : ofile'[q] = ofile[q]
  /\ \A f : Count(ofile'[p], f) = Count(ofile[p], f) - Hit(ofile[p][d], f) + Hit(x, f)
LEMMA SetFd ==
  ASSUME FilesInv, NEW p \in Procs, NEW d \in Fd, NEW x \in 0 .. NFILE, ofile' = [ofile EXCEPT ![p][d] = x]
  PROVE  FdIsSet(p, d, x)
<1>1. ofile[p] \in FdRow /\ ofile \in [Procs -> FdRow]
  BY InvOf
<1> DEFINE n == [ofile[p] EXCEPT ![d] = x]
<1>2. n \in FdRow /\ \A f : Count(n, f) = Count(ofile[p], f) - Hit(ofile[p][d], f) + Hit(x, f)
  BY <1>1, CountSet
<1>3. n[d] = x /\ \A e \in Fd \ {d} : n[e] = ofile[p][e]
  BY <1>1 DEF FdRow
<1>4. ofile' = [ofile EXCEPT ![p] = n]
  OBVIOUS
<1> HIDE DEF n
<1>5. ofile' \in [Procs -> FdRow] /\ ofile'[p] = n /\ \A q \in Procs \ {p} : ofile'[q] = ofile[q]
  BY <1>1, <1>2, <1>4
<1> QED
  BY <1>2, <1>3, <1>5 DEF FdIsSet

(* A free descriptor is a descriptor. *)
LEMMA FreeFd ==
  ASSUME NEW p, NEW S, S \subseteq FreeFds(p), S # {}
  PROVE  Min(S) \in S /\ Min(S) \in Fd /\ ofile[p][Min(S)] = 0
<1>1. S \in SUBSET Nat
  BY FileNumbers DEF FreeFds
<1>2. Min(S) \in S
  BY <1>1, LeastOf
<1> QED
  BY <1>2 DEF FreeFds

LEMMA OpenFdKeeps ==
  ASSUME FilesInv, NEW p \in Procs, OpenFd(p)
  PROVE  FilesInv'
<1> DEFINE o == ofile[p]
           r == task[p]
<1>1. /\ o \in FdRow /\ r \in TaskRec /\ task \in [Procs -> TaskRec] /\ CallShape(o, r, p \in live)
      /\ FilesKnown(o, r, file) /\ FileTypes
  BY InvOf
<1>2. r.pc = "open" /\ p \in live /\ ~fileHalt /\ UNCHANGED <<file, pipe, live, fileHalt>>
  BY DEF OpenFd, In
<1>3. r.pc # "openset" /\ r.pc # "pipeclose" /\ r.pc \notin {"openset", "pipeclose"} /\ r.pc \in {"open", "pipe1"}
      /\ r.pc \in {"open", "openset", "pipe1", "pipe2", "pipe3", "filedup"} /\ r.pc \notin {"close", "pipeclose"}
  BY SMTT(30), <1>2
<1>4. r.f \in File /\ r.close = <<>> /\ r.f \in 0 .. NFILE
  BY <1>1, <1>3, FileNumbers DEF CallShape
<1>5. CASE FreeFds(p) = {}
  <2>1. Close(p, <<r.f>>) /\ UNCHANGED <<ofile, file, pipe, live, fileHalt>>
    BY <1>2, <1>5 DEF OpenFd
  <2>2. <<r.f>> \in CloseList /\ \A f \in File : Flight(r, f) = CloseCount(<<r.f>>, f)
    BY <1>3, InFlightNow
  <2>3. PICK s : s = <<r.f>>
    OBVIOUS
  <2> QED
    BY <1>2, <1>3, <2>1, <2>2, <2>3, GiveUp
<1>6. CASE FreeFds(p) # {}
  <2>1. PICK d : d = Min(FreeFds(p))
    OBVIOUS
  <2>2. d \in Fd /\ o[d] = 0
    BY <1>6, <2>1, FreeFd
  <2>3. PICK x : x = r.f
    OBVIOUS
  <2> DEFINE s == [r EXCEPT !.pc = "openset"]
  <2>4. s \in TaskRec /\ s.pc = "openset" /\ s.f = x /\ s.close = <<>>
    <3>1. "openset" \in CallPlace
      BY DEF CallPlace
    <3>2. s \in TaskRec
      BY <1>1, <3>1 DEF TaskRec
    <3> QED
      BY SMTT(30), <1>1, <1>4, <2>3, <3>2 DEF TaskRec
  <2>5. ofile' = [ofile EXCEPT ![p][d] = x] /\ task' = [task EXCEPT ![p] = s]
    BY <1>6, <2>1, <2>3 DEF OpenFd, Do
  <2> HIDE DEF s
  <2>6. /\ ofile' \in [Procs -> FdRow] /\ ofile'[p][d] = x /\ \A e \in Fd \ {d} : ofile'[p][e] = o[e]
        /\ \A q \in Procs \ {p} : ofile'[q] = ofile[q]
        /\ \A f : Count(ofile'[p], f) = Count(o, f) - Hit(0, f) + Hit(x, f)
    <3>1. FdIsSet(p, d, x)
      BY <1>4, <2>2, <2>3, <2>5, SetFd
    <3> QED
      BY <2>2, <3>1 DEF FdIsSet
  <2>7. task' \in [Procs -> TaskRec] /\ task'[p] = s /\ Alone(p)
    BY <1>1, <2>4, <2>5, <2>6 DEF Alone
  <2> DEFINE n == ofile'[p]
  <2>8. ASSUME NEW f \in File PROVE Own(n, s, f) = Own(o, r, f)
    <3>1. Flight(r, f) = Hit(x, f)
      <4>1. Flight(r, f) = CloseCount(<<r.f>>, f)
        BY <1>3, InFlightNow
      <4> QED
        BY <2>3, <4>1, CloseCounts
    <3>2. CloseCount(s.close, f) = 0
      BY <2>4, CloseCounts
    <3>3. Flight(s, f) = 0
      <4>1. CloseCount(s.close, f) \in Nat
        BY <2>4, OwnInt
      <4> QED
        BY <2>4, <3>2, <4>1, Flights
    <3>4. Hit(0, f) = 0 /\ Hit(x, f) \in Nat /\ Count(o, f) \in Nat
      BY FileNumbers, HitIs, CountType
    <3>5. Count(n, f) = Count(o, f) - 0 + Hit(x, f)
      BY <2>6, <3>4
    <3>6. Count(o, f) - 0 + Hit(x, f) + 0 = Count(o, f) + Hit(x, f)
      BY SMTT(30), <3>4
    <3> QED
      BY <3>1, <3>3, <3>5, <3>6 DEF Own
  <2>9. s.pc # "pipeclose" /\ s.pc # "pipe3" /\ s.pc # "pipe2" /\ s.pc # "filedup" /\ s.pc \notin {"pipe2", "pipe3"} /\ s.pc \notin {"close", "pipeclose"}
        /\ s.pc \in {"open", "openset", "pipe1", "pipe2"}
    BY SMTT(30), <2>4
  <2>10. CallShape(n, s, p \in live')
    BY <1>2, <1>4, <2>3, <2>4, <2>9 DEF CallShape
  <2>11. ASSUME NEW f \in File, FreshIn(s, f) PROVE Own(n, s, f) >= 1 /\ file[f].ref = 1 /\ file[f].type = "none"
    <3>1. f = x /\ FreshIn(r, f)
      BY <1>2, <2>3, <2>4, <2>9, <2>11 DEF FreshIn
    <3>2. Own(o, r, f) >= 1 /\ file[f].ref = 1 /\ file[f].type = "none"
      BY <1>1, <3>1 DEF FilesKnown
    <3> QED
      BY <2>8, <3>2
  <2>12. ASSUME NEW e \in Fd, n[e] # 0 PROVE file[n[e]].type # "none" \/ FreshIn(s, n[e])
    <3>1. CASE e = d
      BY <2>4, <2>6, <2>9, <3>1 DEF FreshIn
    <3>2. CASE e # d
      <4>1. n[e] = o[e]
        BY <2>6, <3>2
      <4> QED
        BY <1>3, <2>12, <4>1, RowTyped DEF TypedRow
    <3> QED
      BY <3>1, <3>2
  <2>13. FilesKnown(n, s, file)
    BY <2>9, <2>11, <2>12 DEF FilesKnown
  <2> QED
    BY <1>1, <1>2, <1>3, <2>6, <2>7, <2>8, <2>9, <2>10, <2>13, QuietStep DEF FileTypes
<1> QED
  BY <1>5, <1>6

(* Closing a descriptor: what was counted for it is counted for the close. *)
LEMMA CloseFd ==
  ASSUME FilesInv, NEW p \in Procs, NEW d \in Fd, NEW n \in TaskRec, n.pc = "close", n.close = <<ofile[p][d]>>,
         ofile[p][d] # 0, p \in live, task[p].pc \in {"user", "exit"}, ofile' = [ofile EXCEPT ![p][d] = 0], Do(p, n),
         UNCHANGED <<file, pipe, live, fileHalt>>
  PROVE  FilesInv'
<1> DEFINE o == ofile[p]
           r == task[p]
<1>1. o \in FdRow /\ r \in TaskRec /\ task \in [Procs -> TaskRec] /\ CallShape(o, r, p \in live) /\ FileTypes /\ ~fileHalt
  BY InvOf DEF FilesInv
<1>2. /\ r.pc \in Idle /\ n.pc \in Idle /\ r.pc # "pipeclose" /\ n.pc # "pipeclose" /\ r.pc # "openset"
      /\ r.pc \notin {"close", "pipeclose"}
  BY SMTT(30) DEF Idle
<1>3. r.close = <<>>
  BY <1>1, <1>2 DEF CallShape
<1>4. task' \in [Procs -> TaskRec] /\ task'[p] = n /\ \A q \in Procs \ {p} : task'[q] = task[q]
  BY <1>1 DEF Do
<1>5. /\ ofile' \in [Procs -> FdRow] /\ ofile'[p][d] = 0 /\ \A e \in Fd \ {d} : ofile'[p][e] = o[e]
      /\ \A q \in Procs \ {p} : ofile'[q] = ofile[q]
      /\ \A f : Count(ofile'[p], f) = Count(o, f) - Hit(o[d], f) + Hit(0, f)
  <2>1. FdIsSet(p, d, 0)
    BY FileNumbers, SetFd
  <2> QED
    BY <2>1 DEF FdIsSet
<1>6. ASSUME NEW f \in File PROVE Own(ofile'[p], n, f) = Own(o, r, f)
  <2>1. Own(o, r, f) = Count(o, f)
    BY <1>1, <1>2, <1>3, IdleCall
  <2>2. Own(ofile'[p], n, f) = Count(ofile'[p], f) + CloseCount(n.close, f)
    BY <1>2, IdleCall
  <2>3. CloseCount(n.close, f) = Hit(o[d], f)
    BY CloseCounts
  <2>4. Hit(0, f) = 0 /\ Hit(o[d], f) \in Nat /\ Count(o, f) \in Nat
    BY FileNumbers, HitIs, CountType
  <2>5. Count(ofile'[p], f) = Count(o, f) - Hit(o[d], f) + 0
    BY <1>5, <2>4
  <2>6. Count(o, f) - Hit(o[d], f) + 0 + Hit(o[d], f) = Count(o, f)
    BY SMTT(30), <2>4
  <2> QED
    BY <2>1, <2>2, <2>3, <2>5, <2>6
<1>7. TypedRow(ofile'[p], file)
  <2>1. TypedRow(o, file)
    BY <1>2, RowTyped
  <2> QED
    BY <1>5, <2>1 DEF TypedRow
<1>8. CallShape(ofile'[p], n, p \in live') /\ FilesKnown(ofile'[p], n, file)
  BY <1>2, <1>7, IdleCall
<1>9. Alone(p)
  BY <1>4, <1>5 DEF Alone
<1> QED
  BY <1>1, <1>2, <1>4, <1>5, <1>6, <1>8, <1>9, QuietStep DEF FileTypes

LEMMA SysCloseKeeps ==
  ASSUME FilesInv, NEW p \in Procs, NEW d \in Fd, sys_close(p, d)
  PROVE  FilesInv'
<1>1. PICK n : n = [Rest EXCEPT !.pc = "close", !.close = <<ofile[p][d]>>]
  OBVIOUS
<1>2. ofile[p][d] \in File /\ ofile[p][d] # 0
  BY RowTyped DEF sys_close
<1>3. n \in TaskRec /\ n.pc = "close" /\ n.close = <<ofile[p][d]>>
  <2>1. "close" \in CallPlace /\ <<ofile[p][d]>> \in CloseList
    BY <1>2 DEF CallPlace, CloseList
  <2>2. n \in TaskRec
    BY <1>1, <2>1, RestIs DEF TaskRec
  <2> QED
    BY SMTT(30), <1>1, <2>2 DEF Rest
<1>4. task[p].pc \in {"user", "exit"} /\ p \in live
  BY DEF sys_close, In
<1>5. Do(p, n) /\ ofile' = [ofile EXCEPT ![p][d] = 0] /\ UNCHANGED <<file, pipe, live, fileHalt>>
  BY <1>1 DEF sys_close, Close
<1> QED
  BY <1>2, <1>3, <1>4, <1>5, CloseFd

(* Back to the program, or to exit's loop, with no file in hand *)
LEMMA BackKeeps ==
  ASSUME FilesInv, NEW p \in Procs, NEW l \in {"user", "exit"}, Do(p, [Rest EXCEPT !.pc = l]), p \in live,
         task[p].pc \in {"user", "close", "exit"}, task[p].close = <<>>, UNCHANGED <<ofile, file, pipe, fileHalt>>,
         live' \subseteq Procs, \A q \in Procs \ {p} : q \in live' <=> q \in live,
         p \in live' \/ (l = "user" /\ \A d \in Fd : ofile[p][d] = 0)
  PROVE  FilesInv'
<1> DEFINE o == ofile[p]
           r == task[p]
           n == [Rest EXCEPT !.pc = l]
<1>1. o \in FdRow /\ r \in TaskRec /\ task \in [Procs -> TaskRec] /\ FileTypes /\ ~fileHalt
  BY InvOf DEF FilesInv
<1>2. n \in TaskRec /\ n.pc = l /\ n.close = <<>> /\ (l = "user" => n = Rest)
  <2>1. l \in CallPlace
    BY DEF CallPlace
  <2>2. n \in TaskRec
    BY <2>1, RestIs DEF TaskRec
  <2>3. l = "user" => n = Rest
    BY SMTT(30) DEF Rest
  <2> QED
    BY SMTT(30), <2>2, <2>3 DEF Rest
<1>3. task' = [task EXCEPT ![p] = n]
  BY DEF Do
<1> HIDE DEF n
<1>4. task' \in [Procs -> TaskRec] /\ task'[p] = n /\ Alone(p)
  BY <1>1, <1>2, <1>3 DEF Alone
<1>5. /\ r.pc \in Idle /\ n.pc \in Idle /\ r.pc # "pipeclose" /\ n.pc # "pipeclose" /\ r.pc # "openset"
      /\ n.pc \in {"user", "exit"}
  BY SMTT(30), <1>2 DEF Idle
<1>6. \A f : Own(o, r, f) = Count(o, f)
  BY <1>1, <1>5, IdleCall
<1>7. TypedRow(o, file)
  BY <1>5, RowTyped
<1>8. CallShape(o, n, TRUE) /\ FilesKnown(o, n, file) /\ \A f : Own(o, n, f) = Count(o, f)
  BY <1>2, <1>5, <1>7, IdleCall
<1>9. CallShape(o, n, p \in live')
  BY <1>2, <1>8 DEF CallShape
<1> QED
  BY <1>1, <1>4, <1>5, <1>6, <1>8, <1>9, QuietStep DEF FileTypes

LEMMA ClosedKeeps ==
  ASSUME FilesInv, NEW p \in Procs, Closed(p)
  PROVE  FilesInv'
<1>1. PICK l : l = task[p].then
  OBVIOUS
<1>2. task[p] \in TaskRec /\ FileTypes
  BY InvOf
<1>3. l \in {"user", "exit"}
  BY SMTT(30), <1>1, <1>2 DEF TaskRec
<1>4. /\ task[p].pc \in {"user", "close", "exit"} /\ task[p].close = <<>> /\ p \in live /\ Do(p, [Rest EXCEPT !.pc = l])
      /\ UNCHANGED <<ofile, file, pipe, fileHalt>> /\ live' = live /\ live' \subseteq Procs
  BY <1>1, <1>2 DEF Closed, In, FileTypes
<1> QED
  BY <1>3, <1>4, BackKeeps

LEMMA ExitKeeps ==
  ASSUME FilesInv, NEW p \in Procs, exit(p)
  PROVE  FilesInv'
<1>1. FileTypes /\ CallShape(ofile[p], task[p], p \in live)
  BY InvOf
<1>2. /\ task[p].pc \in {"user", "close", "exit"} /\ task[p].pc = "user" /\ p \in live /\ Do(p, [Rest EXCEPT !.pc = "exit"])
      /\ UNCHANGED <<ofile, file, pipe, fileHalt>> /\ live' = live /\ live' \subseteq Procs
  BY <1>1 DEF exit, In, FileTypes
<1>3. task[p].close = <<>>
  BY <1>1, <1>2 DEF CallShape
<1>4. "exit" \in {"user", "exit"}
  OBVIOUS
<1> QED
  BY <1>2, <1>3, <1>4, BackKeeps

LEMMA ExitFdKeeps ==
  ASSUME FilesInv, NEW p \in Procs, ExitFd(p)
  PROVE  FilesInv'
<1> DEFINE open == {d \in Fd : ofile[p][d] # 0}
<1>1. FileTypes /\ CallShape(ofile[p], task[p], p \in live)
  BY InvOf
<1>2. task[p].pc = "exit" /\ p \in live /\ UNCHANGED <<file, pipe, fileHalt>>
  BY DEF ExitFd, In
<1>3. task[p].close = <<>>
  BY <1>1, <1>2 DEF CallShape
<1>4. CASE open = {}
  <2>1. live' = live \ {p} /\ Return(p) /\ UNCHANGED ofile
    BY <1>4 DEF ExitFd
  <2>2. Rest = [Rest EXCEPT !.pc = "user"]
    BY SMTT(30) DEF Rest
  <2>3. Do(p, [Rest EXCEPT !.pc = "user"])
    BY <2>1, <2>2 DEF Return
  <2>4. live' \subseteq Procs /\ \A q \in Procs \ {p} : q \in live' <=> q \in live
    BY <1>1, <2>1 DEF FileTypes
  <2>5. "user" \in {"user", "exit"} /\ task[p].pc \in {"user", "close", "exit"} /\ \A d \in Fd : ofile[p][d] = 0
    BY <1>2, <1>4
  <2> QED
    BY <1>2, <1>3, <2>1, <2>3, <2>4, <2>5, BackKeeps
<1>5. CASE open # {}
  <2>1. PICK d : d = Min(open)
    OBVIOUS
  <2>2. d \in Fd /\ ofile[p][d] # 0
    <3>1. open \in SUBSET Nat
      BY FileNumbers
    <3> QED
      BY <1>5, <2>1, <3>1, LeastOf
  <2>3. ofile[p][d] \in File
    BY <2>2, RowTyped
  <2>4. PICK n : n = [Rest EXCEPT !.pc = "close", !.close = <<ofile[p][d]>>, !.then = "exit"]
    OBVIOUS
  <2>5. n \in TaskRec /\ n.pc = "close" /\ n.close = <<ofile[p][d]>>
    <3>1. "close" \in CallPlace /\ <<ofile[p][d]>> \in CloseList
      BY <2>3 DEF CallPlace, CloseList
    <3>2. n \in TaskRec
      BY <2>4, <3>1, RestIs DEF TaskRec
    <3> QED
      BY SMTT(30), <2>4, <3>2 DEF Rest
  <2>6. Do(p, n) /\ ofile' = [ofile EXCEPT ![p][d] = 0] /\ UNCHANGED <<file, pipe, live, fileHalt>>
    BY <1>5, <2>1, <2>4 DEF ExitFd
  <2>7. task[p].pc \in {"user", "exit"}
    BY <1>2
  <2> QED
    BY <1>2, <2>2, <2>5, <2>6, <2>7, CloseFd
<1> QED
  BY <1>4, <1>5

(* sys_dup: the new descriptor is not counted before filedup. *)
LEMMA DupKeeps ==
  ASSUME FilesInv, NEW p \in Procs, NEW d \in Fd, sys_dup(p, d)
  PROVE  FilesInv'
<1> DEFINE o == ofile[p]
           r == task[p]
<1>1. o \in FdRow /\ r \in TaskRec /\ task \in [Procs -> TaskRec] /\ CallShape(o, r, p \in live) /\ FileTypes /\ ~fileHalt
  BY InvOf DEF FilesInv
<1>2. r.pc = "user" /\ p \in live /\ o[d] # 0 /\ UNCHANGED <<file, pipe, live, fileHalt>>
  BY DEF sys_dup, In
<1>3. r.close = <<>>
  BY <1>1, <1>2 DEF CallShape
<1>4. CASE FreeFds(p) = {}
  <2>1. Rest = [Rest EXCEPT !.pc = "user"]
    BY SMTT(30) DEF Rest
  <2>2. Do(p, [Rest EXCEPT !.pc = "user"]) /\ UNCHANGED ofile
    BY <1>4, <2>1 DEF sys_dup, Return
  <2>3. live' \subseteq Procs /\ "user" \in {"user", "exit"} /\ r.pc \in {"user", "close", "exit"}
    BY <1>1, <1>2 DEF FileTypes
  <2> QED
    BY <1>2, <1>3, <2>2, <2>3, BackKeeps
<1>5. CASE FreeFds(p) # {}
  <2>1. PICK e : e = Min(FreeFds(p))
    OBVIOUS
  <2>2. e \in Fd /\ o[e] = 0
    BY <1>5, <2>1, FreeFd
  <2>3. PICK x : x = o[d]
    OBVIOUS
  <2>4. x \in File /\ x \in 0 .. NFILE /\ TypedRow(o, file)
    BY <1>2, <2>3, RowTyped, FileNumbers
  <2>5. PICK s : s = [Rest EXCEPT !.pc = "filedup", !.f = x]
    OBVIOUS
  <2>6. s \in TaskRec /\ s.pc = "filedup" /\ s.f = x /\ s.close = <<>>
    <3>1. "filedup" \in CallPlace
      BY DEF CallPlace
    <3>2. s \in TaskRec
      BY <2>4, <2>5, <3>1, RestIs DEF TaskRec
    <3> QED
      BY SMTT(30), <2>5, <3>2 DEF Rest
  <2>7. ofile' = [ofile EXCEPT ![p][e] = x] /\ task' = [task EXCEPT ![p] = s]
    BY <1>5, <2>1, <2>3, <2>5 DEF sys_dup, Do
  <2>8. FdIsSet(p, e, x)
    BY <2>2, <2>4, <2>7, SetFd
  <2> DEFINE n == ofile'[p]
  <2>9. /\ ofile' \in [Procs -> FdRow] /\ n[e] = x /\ \A k \in Fd \ {e} : n[k] = o[k]
        /\ \A q \in Procs \ {p} : ofile'[q] = ofile[q]
        /\ \A f : Count(n, f) = Count(o, f) - Hit(0, f) + Hit(x, f)
    BY <2>2, <2>8 DEF FdIsSet
  <2>10. task' \in [Procs -> TaskRec] /\ task'[p] = s /\ Alone(p)
    BY <1>1, <2>6, <2>7, <2>9 DEF Alone
  <2>11. ASSUME NEW f \in File PROVE Count(n, f) = Count(o, f) + Hit(x, f) /\ Count(o, f) \in Nat /\ Hit(x, f) \in Nat
    <3>1. Hit(0, f) = 0 /\ Hit(x, f) \in Nat /\ Count(o, f) \in Nat
      BY FileNumbers, HitIs, CountType
    <3>2. Count(o, f) - 0 + Hit(x, f) = Count(o, f) + Hit(x, f)
      BY SMTT(30), <3>1
    <3> QED
      BY <2>9, <3>1, <3>2
  <2>12. ASSUME NEW f \in File PROVE Own(n, s, f) = Own(o, r, f)
    <3>1. Own(o, r, f) = Count(o, f)
      BY <1>1, <1>2, <1>3, IdleCall DEF Idle
    <3>2. Flight(s, f) = CloseCount(s.close, f) - Hit(x, f)
      BY <2>6, OwnInt, Flights
    <3>3. CloseCount(s.close, f) = 0
      BY <2>6, CloseCounts
    <3>4. Count(o, f) + Hit(x, f) + (0 - Hit(x, f)) = Count(o, f)
      BY SMTT(30), <2>11
    <3> QED
      BY <2>11, <3>1, <3>2, <3>3, <3>4 DEF Own
  <2>13. Count(n, x) >= 2
    <3>1. Count(o, x) >= 1 /\ Count(o, x) \in Nat /\ Hit(x, x) = 1
      BY <2>3, CountType, HitIs
    <3>2. Count(n, x) = Count(o, x) + 1
      BY <2>4, <2>11, <3>1
    <3> QED
      BY SMTT(30), <3>1, <3>2
  <2>14. /\ s.pc # "pipeclose" /\ s.pc # "pipe3" /\ s.pc # "pipe2" /\ s.pc \notin {"pipe2", "pipe3"} /\ s.pc \notin {"close", "pipeclose"}
         /\ s.pc \notin {"open", "openset", "pipe1", "pipe2"} /\ r.pc # "pipeclose"
    BY SMTT(30), <1>2, <2>6
  <2>15. CallShape(n, s, p \in live')
    BY <1>2, <2>4, <2>6, <2>13, <2>14 DEF CallShape
  <2>16. TypedRow(n, file)
    <3>1. file[x].type # "none"
      BY <1>2, <2>3, <2>4 DEF TypedRow
    <3> QED
      BY <2>4, <2>9, <3>1 DEF TypedRow
  <2>17. FilesKnown(n, s, file)
    BY <2>14, <2>16 DEF FilesKnown, TypedRow, FreshIn
  <2> QED
    BY <1>1, <1>2, <2>9, <2>10, <2>12, <2>14, <2>15, <2>17, QuietStep DEF FileTypes
<1> QED
  BY <1>4, <1>5

LEMMA PipeFdsKeeps ==
  ASSUME FilesInv, NEW p \in Procs, PipeFds(p)
  PROVE  FilesInv'
<1> DEFINE o == ofile[p]
           r == task[p]
<1>1. /\ o \in FdRow /\ r \in TaskRec /\ task \in [Procs -> TaskRec] /\ ofile \in [Procs -> FdRow] /\ CallShape(o, r, p \in live)
      /\ FilesKnown(o, r, file) /\ FileTypes
  BY InvOf
<1>2. r.pc = "pipe3" /\ p \in live /\ ~fileHalt /\ UNCHANGED <<file, pipe, live, fileHalt>>
  BY DEF PipeFds, In
<1>3. r.pc # "openset" /\ r.pc # "pipeclose" /\ r.pc \notin {"openset", "pipeclose"} /\ r.pc \in {"pipe2", "pipe3"}
      /\ r.pc \in {"open", "openset", "pipe1", "pipe2", "pipe3", "filedup"} /\ r.pc \notin {"close", "pipeclose"}
  BY SMTT(30), <1>2
<1>4. /\ r.f \in File /\ r.g \in File /\ r.f \in 0 .. NFILE /\ r.g \in 0 .. NFILE
      /\ file[r.f].type = "pipe" /\ file[r.g].type = "pipe"
  BY <1>1, <1>2, <1>3, FileNumbers DEF CallShape, FilesKnown
<1>5. <<r.f, r.g>> \in CloseList /\ \A f \in File : Flight(r, f) = CloseCount(<<r.f, r.g>>, f)
  BY <1>3, InFlightNow
<1>6. CASE Cardinality(FreeFds(p)) < 2
  <2>1. Close(p, <<r.f, r.g>>) /\ UNCHANGED <<ofile, file, pipe, live, fileHalt>>
    BY <1>2, <1>6 DEF PipeFds
  <2>2. PICK s : s = <<r.f, r.g>>
    OBVIOUS
  <2> QED
    BY <1>2, <1>3, <1>5, <2>1, <2>2, GiveUp
<1>7. CASE ~(Cardinality(FreeFds(p)) < 2)
  <2>1. PICK d : d = Min(FreeFds(p))
    OBVIOUS
  <2>2. PICK e : e = Min(FreeFds(p) \ {d})
    OBVIOUS
  <2>3. FreeFds(p) # {} /\ FreeFds(p) \ {d} # {}
    <3>1. ASSUME FreeFds(p) \subseteq {d} PROVE FALSE
      <4>1. IsFiniteSet({d}) /\ Cardinality({d}) = 1
        BY FS_Singleton
      <4>2. Cardinality(FreeFds(p)) <= 1 /\ IsFiniteSet(FreeFds(p))
        BY <3>1, <4>1, FS_Subset
      <4>3. Cardinality(FreeFds(p)) \in Nat
        BY <4>2, FS_CardinalityType
      <4> QED
        BY SMTT(30), <1>7, <4>2, <4>3
    <3> QED
      BY <3>1
  <2>4. d \in Fd /\ o[d] = 0
    BY <2>1, <2>3, FreeFd
  <2>5. e \in Fd /\ o[e] = 0 /\ e # d
    <3>1. FreeFds(p) \ {d} \subseteq FreeFds(p)
      OBVIOUS
    <3>2. Min(FreeFds(p) \ {d}) \in FreeFds(p) \ {d} /\ Min(FreeFds(p) \ {d}) \in Fd /\ ofile[p][Min(FreeFds(p) \ {d})] = 0
      BY <2>3, <3>1, FreeFd
    <3> QED
      BY <2>2, <3>2
  <2>6. PICK x, y : x = r.f /\ y = r.g
    OBVIOUS
  <2>7. ofile' = [ofile EXCEPT ![p][d] = x, ![p][e] = y] /\ Return(p)
    BY <1>7, <2>1, <2>2, <2>6 DEF PipeFds
  <2> DEFINE a == [o EXCEPT ![d] = x]
             n == [a EXCEPT ![e] = y]
  <2>8. x \in 0 .. NFILE /\ y \in 0 .. NFILE /\ a \in FdRow
    BY <1>1, <1>4, <2>6 DEF FdRow
  <2>9. n \in FdRow /\ a[e] = 0
    BY <1>1, <2>5, <2>8 DEF FdRow
  <2>10. ofile' = [ofile EXCEPT ![p] = n]
    <3>1. [ofile EXCEPT ![p] = a][p] = a
      BY <1>1
    <3> QED
      BY <1>1, <2>7, <3>1
  <2>11. ASSUME NEW f \in File PROVE Count(n, f) = Count(o, f) + (Hit(x, f) + Hit(y, f)) /\ Count(o, f) \in Nat
    <3>1. Count(a, f) = Count(o, f) - Hit(o[d], f) + Hit(x, f)
      <4>1. [o EXCEPT ![d] = x] \in FdRow /\ Count([o EXCEPT ![d] = x], f) = Count(o, f) - Hit(o[d], f) + Hit(x, f)
        <5>1. o \in FdRow /\ d \in Fd /\ x \in 0 .. NFILE
          BY <1>1, <2>4, <2>8
        <5> HIDE DEF o
        <5> QED
          BY <5>1, CountSet
      <4> QED
        BY <4>1
    <3> HIDE DEF a
    <3>2. Count(n, f) = Count(a, f) - Hit(a[e], f) + Hit(y, f)
      BY <2>5, <2>8, CountSet
    <3>3. Hit(0, f) = 0 /\ Hit(x, f) \in Nat /\ Hit(y, f) \in Nat /\ Count(o, f) \in Nat
      BY FileNumbers, HitIs, CountType
    <3> HIDE DEF n
    <3>4. Count(a, f) = Count(o, f) - 0 + Hit(x, f)
      BY <2>4, <3>1, <3>3
    <3>5. Count(n, f) = Count(a, f) - 0 + Hit(y, f)
      BY <2>9, <3>2, <3>3
    <3> QED
      BY SMTT(30), <3>3, <3>4, <3>5
  <2>12. ASSUME NEW k \in Fd PROVE n[k] = o[k] \/ n[k] = x \/ n[k] = y
    BY <1>1, <2>8, <2>9 DEF FdRow
  <2>13. TypedRow(n, file)
    <3>1. TypedRow(o, file) /\ file[x].type # "none" /\ file[y].type # "none"
      BY <1>3, <1>4, <2>6, RowTyped
    <3> HIDE DEF n
    <3> QED
      BY <2>12, <3>1 DEF TypedRow
  <2> HIDE DEF n, a
  <2>14. ofile' \in [Procs -> FdRow] /\ ofile'[p] = n /\ \A q \in Procs \ {p} : ofile'[q] = ofile[q]
    BY <1>1, <2>9, <2>10
  <2>15. task' \in [Procs -> TaskRec] /\ task'[p] = Rest /\ \A q \in Procs \ {p} : task'[q] = task[q]
    BY <1>1, <2>7, RestIs DEF Return, Do
  <2>16. Rest.pc \in Idle /\ Rest.pc \in {"user", "exit"} /\ Rest.pc # "pipeclose"
    BY SMTT(30) DEF Rest, Idle
  <2>17. CallShape(n, Rest, p \in live') /\ FilesKnown(n, Rest, file) /\ \A f : Own(n, Rest, f) = Count(n, f)
    BY <1>2, <2>13, <2>16, RestIs, IdleCall
  <2>18. ASSUME NEW f \in File PROVE Own(n, Rest, f) = Own(o, r, f)
    <3>1. Flight(r, f) = Hit(x, f) + Hit(y, f)
      BY <1>5, <2>6, CloseTwo
    <3> QED
      BY <2>11, <2>17, <3>1 DEF Own
  <2>19. Alone(p)
    BY <2>14, <2>15 DEF Alone
  <2> QED
    BY <1>1, <1>2, <1>3, <2>14, <2>15, <2>16, <2>17, <2>18, <2>19, QuietStep DEF FileTypes
<1> QED
  BY <1>6, <1>7

-----------------------------------------------------------------------------
(* Steps that end a call after changing one file that stays in use *)

LEMMA OneFileStep ==
  ASSUME FilesInv, NEW p \in Procs, NEW x \in File, NEW n \in FileRec, file' = [file EXCEPT ![x] = n],
         Return(p), UNCHANGED <<ofile, pipe, live>>, ~fileHalt', p \in live, task[p].pc # "pipeclose",
         Own(ofile[p], task[p], x) >= 1, file[x].ref >= 2 => n.type = file[x].type, SamePipe(n, file[x]),
         n.type # "none", n.type = "pipe" => n.pipe \in PipeId,
         n.ref = file[x].ref - Own(ofile[p], task[p], x) + Count(ofile[p], x),
         \A f \in File \ {x} : Own(ofile[p], task[p], f) = Count(ofile[p], f),
         \A d \in Fd : ofile[p][d] # 0 => ofile[p][d] = x \/ file[ofile[p][d]].type # "none", n.ref # 0
  PROVE  FilesInv'
<1> DEFINE o == ofile[p]
           r == task[p]
<1>1. /\ FileTypes /\ FileRefExact /\ EndsInv /\ FileShape(file) /\ r \in TaskRec /\ o \in FdRow
      /\ task \in [Procs -> TaskRec] /\ file \in [File -> FileRec]
  BY InvOf
<1>2. file' \in [File -> FileRec] /\ file'[x] = n /\ \A f \in File \ {x} : file'[f] = file[f]
  BY <1>1
<1>3. task' \in [Procs -> TaskRec] /\ task'[p] = Rest /\ \A q \in Procs \ {p} : task'[q] = task[q]
  BY <1>1, RestIs DEF Return, Do
<1>4. FileTypes'
  BY <1>1, <1>2, <1>3 DEF FileTypes
<1>5. Alone(p) /\ Gentle(p)
  BY <1>2, <1>3 DEF Alone, Gentle
<1>6. Rest.pc \in Idle /\ Rest.pc \in {"user", "exit"} /\ Rest.pc # "pipeclose"
  BY SMTT(30) DEF Rest, Idle
<1>7. TypedRow(o, file')
  BY <1>2, RowTyped DEF TypedRow
<1>8. CallShape(o, Rest, p \in live') /\ FilesKnown(o, Rest, file') /\ \A f : Own(o, Rest, f) = Count(o, f)
  BY <1>6, <1>7, RestIs, IdleCall
<1>9. Shares(p)
  <2>1. ASSUME NEW f \in File PROVE Own(o, Rest, f) >= 0 /\ file'[f].ref = file[f].ref - Own(o, r, f) + Own(o, Rest, f)
    <3>1. Own(o, Rest, f) = Count(o, f) /\ Count(o, f) \in Nat /\ file[f].ref \in Nat
      BY <1>1, <1>8, CountType, HeldByType
    <3>2. Count(o, f) >= 0 /\ file[f].ref = file[f].ref - Count(o, f) + Count(o, f)
      <4> DEFINE c == Count(o, f)
                 k == file[f].ref
      <4> HIDE DEF c, k
      <4>1. c >= 0 /\ k = k - c + c
        BY SMTT(30), <3>1 DEF c, k
      <4> QED
        BY <4>1 DEF c, k
    <3>3. CASE f = x
      BY <1>2, <3>1, <3>2, <3>3
    <3>4. CASE f # x
      BY <1>2, <3>1, <3>2, <3>4
    <3> QED
      BY <3>3, <3>4
  <2> QED
    BY <1>3, <2>1 DEF Shares
<1>10. EndsInv'
  <2>1. ASSUME NEW f \in File PROVE SamePipe(file'[f], file[f])
    <3>1. CASE f = x
      BY <1>2, <3>1
    <3>2. CASE f # x
      BY <1>2, <3>2 DEF SamePipe
    <3> QED
      BY <3>1, <3>2
  <2>2. \A q \in Procs : SameClose(task'[q], task[q])
    BY <1>3, <1>6 DEF SameClose
  <2> QED
    BY <1>1, <2>1, <2>2, EndsKept
<1>11. FileShape(file')
  <2>1. ASSUME NEW f \in File PROVE (file'[f].ref = 0 => file'[f].type = "none") /\ (file'[f].type = "pipe" => file'[f].pipe \in PipeId)
    <3>1. CASE f = x
      BY <1>2, <3>1
    <3>2. CASE f # x
      BY <1>1, <1>2, <3>2 DEF FileShape
    <3> QED
      BY <3>1, <3>2
  <2> QED
    BY <2>1 DEF FileShape
<1>12. TaskInv(p)'
  BY <1>3, <1>8 DEF TaskInv
<1> QED
  BY <1>4, <1>5, <1>9, <1>10, <1>11, <1>12, StepKeeps

LEMMA OpenSetKeeps ==
  ASSUME FilesInv, NEW p \in Procs, OpenSet(p)
  PROVE  FilesInv'
<1> DEFINE o == ofile[p]
           r == task[p]
<1>1. /\ r \in TaskRec /\ CallShape(o, r, p \in live) /\ FilesKnown(o, r, file) /\ FileTypes /\ FileRefExact
      /\ file \in [File -> FileRec]
  BY InvOf
<1>2. r.pc = "openset" /\ p \in live /\ ~fileHalt' /\ Return(p) /\ UNCHANGED <<ofile, pipe, live>>
  BY DEF OpenSet, In
<1>3. r.pc # "pipeclose" /\ r.pc \in {"user", "openset", "close", "pipeclose", "exit"} /\ r.pc # "pipe2"
      /\ r.pc \in {"open", "openset", "pipe1", "pipe2", "pipe3", "filedup"} /\ r.pc \notin {"close", "pipeclose"}
      /\ r.pc \in {"open", "openset", "pipe1", "pipe2"}
  BY SMTT(30), <1>2
<1>4. PICK x : x = r.f
  OBVIOUS
<1>5. x \in File /\ r.close = <<>>
  BY <1>1, <1>3, <1>4 DEF CallShape
<1>6. Own(o, r, x) >= 1 /\ file[x].ref = 1 /\ file[x].type = "none"
  BY <1>1, <1>3, <1>4, <1>5 DEF FilesKnown, FreshIn
<1>7. PICK n : n = [file[x] EXCEPT !.type = "inode", !.readable = TRUE, !.writable = FALSE]
  OBVIOUS
<1>8. n \in FileRec /\ n.type = "inode" /\ n.ref = 1
  <2>1. file[x] \in FileRec
    BY <1>1, <1>5
  <2>2. "inode" \in {"none", "inode", "pipe"} /\ TRUE \in BOOLEAN /\ FALSE \in BOOLEAN
    OBVIOUS
  <2>3. n \in FileRec
    BY <1>7, <2>1, <2>2 DEF FileRec
  <2> QED
    BY SMTT(30), <1>6, <1>7, <2>1, <2>3 DEF FileRec
<1>9. file' = [file EXCEPT ![x] = n]
  BY <1>4, <1>7 DEF OpenSet
<1>10. \A f : Own(o, r, f) = Count(o, f)
  <2>1. ASSUME NEW f PROVE Own(o, r, f) = Count(o, f)
    <3>1. CloseCount(r.close, f) \in Nat /\ Count(o, f) \in Nat /\ CloseCount(r.close, f) = 0
      BY <1>1, <1>5, OwnInt, CloseCounts
    <3>2. Flight(r, f) = 0
      BY <1>3, <3>1, Flights
    <3>3. Count(o, f) + 0 = Count(o, f)
      BY SMTT(30), <3>1
    <3> QED
      BY <3>2, <3>3 DEF Own
  <2> QED
    BY <2>1
<1>11. n.ref = file[x].ref - Own(o, r, x) + Count(o, x) /\ n.ref # 0 /\ ~(file[x].ref >= 2)
  <2>1. Count(o, x) \in Nat
    BY CountType
  <2>2. 1 = 1 - Count(o, x) + Count(o, x) /\ 1 # 0 /\ ~(1 >= 2)
    BY SMTT(30), <2>1
  <2> QED
    BY <1>6, <1>8, <1>10, <2>2
<1>12. SamePipe(n, file[x]) /\ n.type # "none" /\ n.type # "pipe"
  BY <1>6, <1>8 DEF SamePipe
<1>13. ASSUME NEW d \in Fd, o[d] # 0 PROVE o[d] = x \/ file[o[d]].type # "none"
  BY <1>3, <1>4, <1>13, RowTyped DEF FreshIn
<1>14. /\ \A f \in File \ {x} : Own(o, r, f) = Count(o, f)
       /\ \A d \in Fd : o[d] # 0 => o[d] = x \/ file[o[d]].type # "none"
       /\ file[x].ref >= 2 => n.type = file[x].type
       /\ n.type = "pipe" => n.pipe \in PipeId
  BY <1>10, <1>11, <1>12, <1>13
<1> QED
  BY <1>2, <1>3, <1>5, <1>6, <1>8, <1>9, <1>11, <1>12, <1>14, OneFileStep

LEMMA DupRefKeeps ==
  ASSUME FilesInv, NEW p \in Procs, DupRef(p)
  PROVE  FilesInv'
<1> DEFINE o == ofile[p]
           r == task[p]
<1>1. /\ r \in TaskRec /\ CallShape(o, r, p \in live) /\ FilesKnown(o, r, file) /\ FileTypes /\ FileRefExact
      /\ file \in [File -> FileRec] /\ FileShape(file)
  BY InvOf
<1>2. r.pc = "filedup" /\ p \in live /\ fileHalt' = (file[r.f].ref < 1) /\ Return(p) /\ UNCHANGED <<ofile, pipe, live>>
  BY DEF DupRef, In
<1>3. r.pc # "pipeclose" /\ r.pc # "pipe2" /\ r.pc # "openset"
      /\ r.pc \in {"open", "openset", "pipe1", "pipe2", "pipe3", "filedup"} /\ r.pc \notin {"close", "pipeclose"}
  BY SMTT(30), <1>2
<1>4. PICK x : x = r.f
  OBVIOUS
<1>5. x \in File /\ r.close = <<>> /\ Count(o, x) >= 2
  BY <1>1, <1>2, <1>3, <1>4 DEF CallShape
<1>6. ASSUME NEW f PROVE Own(o, r, f) = Count(o, f) - Hit(x, f) /\ Count(o, f) \in Nat
  <2>1. CloseCount(r.close, f) \in Nat /\ Count(o, f) \in Nat /\ CloseCount(r.close, f) = 0
    BY <1>1, <1>5, OwnInt, CloseCounts
  <2>2. Flight(r, f) = 0 - Hit(x, f)
    BY <1>2, <1>4, <2>1, Flights
  <2>3. Hit(x, f) \in Nat
    BY HitIs
  <2>4. Count(o, f) + (0 - Hit(x, f)) = Count(o, f) - Hit(x, f)
    BY SMTT(30), <2>1, <2>3
  <2> QED
    BY <2>1, <2>2, <2>4 DEF Own
<1>7. \A f \in File \ {x} : Own(o, r, f) = Count(o, f)
  <2>1. ASSUME NEW f \in File \ {x} PROVE Count(o, f) - Hit(x, f) = Count(o, f)
    <3>1. Hit(x, f) = 0 /\ Count(o, f) \in Nat
      BY HitIs, CountType
    <3> QED
      BY SMTT(30), <3>1
  <2> QED
    BY <1>6, <2>1
<1>8. file[x] \in FileRec /\ file[x].ref \in Nat /\ Own(o, r, x) <= file[x].ref /\ Hit(x, x) = 1
  BY <1>1, <1>5, HeldByType, HeldBound, HeldIs, HitIs
<1>9. /\ Own(o, r, x) = Count(o, x) - 1 /\ Own(o, r, x) >= 1 /\ file[x].ref >= 1 /\ ~(file[x].ref < 1)
      /\ file[x].ref + 1 \in Nat /\ file[x].ref + 1 # 0 /\ file[x].ref # 0
      /\ file[x].ref + 1 = file[x].ref - Own(o, r, x) + Count(o, x)
  <2>1. Own(o, r, x) = Count(o, x) - 1 /\ Count(o, x) \in Nat
    BY <1>6, <1>8
  <2> DEFINE a == Own(o, r, x)
             c == Count(o, x)
             k == file[x].ref
  <2> HIDE DEF a, c, k
  <2>2. a = c - 1 /\ c \in Nat /\ k \in Nat /\ a <= k /\ c >= 2
    BY <1>5, <1>8, <2>1 DEF a, c, k
  <2>3. a >= 1 /\ k >= 1 /\ ~(k < 1) /\ k + 1 \in Nat /\ k + 1 # 0 /\ k # 0 /\ k + 1 = k - a + c
    BY SMTT(30), <2>2
  <2> QED
    BY <2>2, <2>3 DEF a, c, k
<1>10. ~fileHalt'
  BY <1>2, <1>4, <1>9
<1>11. PICK n : n = [file[x] EXCEPT !.ref = file[x].ref + 1]
  OBVIOUS
<1>12. n \in FileRec /\ n.ref = file[x].ref + 1 /\ n.type = file[x].type /\ n.pipe = file[x].pipe /\ n.writable = file[x].writable
  <2>1. n \in FileRec
    BY <1>8, <1>9, <1>11 DEF FileRec
  <2> QED
    BY SMTT(30), <1>8, <1>11, <2>1 DEF FileRec
<1>13. file' = [file EXCEPT ![x] = n]
  BY <1>4, <1>11 DEF DupRef, filedup
<1>14. TypedRow(o, file)
  BY <1>3, RowTyped
<1>15. n.type # "none" /\ (n.type = "pipe" => n.pipe \in PipeId)
  <2>1. \E d \in Fd : o[d] = x
    <3>1. ASSUME \A d \in Fd : o[d] # x PROVE FALSE
      <4>1. Fibre(Fd, o, x) = {}
        BY <3>1 DEF Fibre
      <4>2. Count(o, x) = 0
        BY <4>1, FS_EmptySet DEF Count
      <4> QED
        BY SMTT(30), <1>5, <4>2
    <3> QED
      BY <3>1
  <2>2. x # 0
    BY <1>5, FileNumbers
  <2> QED
    BY <1>1, <1>5, <1>12, <1>14, <2>1, <2>2 DEF TypedRow, FileShape
<1>16. SamePipe(n, file[x])
  BY <1>12 DEF SamePipe
<1>17. n.ref = file[x].ref - Own(o, r, x) + Count(o, x) /\ n.ref # 0
  BY <1>9, <1>12
<1> QED
  BY <1>2, <1>3, <1>5, <1>7, <1>9, <1>10, <1>12, <1>13, <1>14, <1>15, <1>16, <1>17, OneFileStep DEF TypedRow

-----------------------------------------------------------------------------
(* fileclose and pipeclose *)

(* The last close of a pipe's file takes its end along. *)
LEMMA EndsMoved ==
  ASSUME EndsInv, pipe' = pipe, NEW p \in Procs, NEW f \in File,
         \A g \in File : \A k, w : Has(g, k, w)' <=> Has(g, k, w) /\ g # f,
         \A k, w : ~ClosingEnd(p, k, w) /\ (ClosingEnd(p, k, w)' <=> Has(f, k, w)),
         \A q \in Procs \ {p} : \A k, w : ClosingEnd(q, k, w)' <=> ClosingEnd(q, k, w)
  PROVE  EndsInv'
<1>1. ASSUME NEW k, NEW w, OneHolder(k, w) PROVE (Taken(k, w)' <=> Taken(k, w)) /\ OneHolder(k, w)'
  <2>1. Taken(k, w)' => Taken(k, w)
    BY DEF Taken
  <2>2. Taken(k, w) => Taken(k, w)'
    <3>1. ASSUME NEW g \in File, Has(g, k, w) PROVE Taken(k, w)'
      <4>1. CASE g = f
        BY <3>1, <4>1 DEF Taken
      <4>2. CASE g # f
        BY <3>1, <4>2 DEF Taken
      <4> QED
        BY <4>1, <4>2
    <3>2. ASSUME NEW q \in Procs, ClosingEnd(q, k, w) PROVE Taken(k, w)'
      BY <3>2 DEF Taken
    <3> QED
      BY <3>1, <3>2 DEF Taken
  <2>3. \A g, h \in File : Has(g, k, w)' /\ Has(h, k, w)' => g = h
    BY <1>1 DEF OneHolder
  <2>4. ASSUME NEW a \in Procs, NEW b \in Procs, ClosingEnd(a, k, w)', ClosingEnd(b, k, w)' PROVE a = b
    BY <1>1, <2>4 DEF OneHolder
  <2>5. ASSUME NEW g \in File, NEW q \in Procs, Has(g, k, w)', ClosingEnd(q, k, w)' PROVE FALSE
    BY <1>1, <2>5 DEF OneHolder
  <2> QED
    BY <2>1, <2>2, <2>3, <2>4, <2>5 DEF OneHolder
<1> QED
  BY <1>1 DEF EndsInv

(* What fileclose finds *)
LEMMA CloseNow ==
  ASSUME FilesInv, NEW p \in Procs, NEW x, NEW s, task[p].pc = "close", task[p].close # <<>>, x = Head(task[p].close), s = Tail(task[p].close)
  PROVE  /\ x \in File /\ s \in CloseList /\ file[x].ref \in Nat /\ file[x].ref >= 1
         /\ \A f \in File : Own(ofile[p], task[p], f) = Count(ofile[p], f) + CloseCount(s, f) + Hit(x, f)
         /\ \A f \in File : Own(ofile[p], task[p], f) <= file[f].ref
         /\ Own(ofile[p], task[p], x) >= 1
<1> DEFINE o == ofile[p]
           r == task[p]
<1>1. r \in TaskRec /\ FileTypes /\ FileRefExact /\ r.pc \in Idle
  BY InvOf DEF Idle
<1>2. r.close \in CloseList
  BY <1>1, OwnInt
<1>3. x \in File /\ s \in CloseList /\ \A f : CloseCount(r.close, f) = CloseCount(s, f) + Hit(x, f)
  BY <1>2, CloseType
<1>4. ASSUME NEW f \in File PROVE Own(o, r, f) = Count(o, f) + CloseCount(s, f) + Hit(x, f)
  <2>1. Own(o, r, f) = Count(o, f) + (CloseCount(s, f) + Hit(x, f))
    BY <1>1, <1>3, IdleCall
  <2>2. Count(o, f) \in Nat /\ CloseCount(s, f) \in Nat /\ Hit(x, f) \in Nat
    BY <1>3, CountType, CloseType, HitIs
  <2>3. Count(o, f) + (CloseCount(s, f) + Hit(x, f)) = Count(o, f) + CloseCount(s, f) + Hit(x, f)
    BY SMTT(30), <2>2
  <2> QED
    BY <2>1, <2>3
<1>5. ASSUME NEW f \in File PROVE Own(o, r, f) <= file[f].ref
  BY <1>1, HeldBound, HeldIs
<1>6. Own(o, r, x) >= 1 /\ file[x].ref >= 1 /\ file[x].ref \in Nat
  <2>1. Own(o, r, x) = Count(o, x) + CloseCount(s, x) + 1
    BY <1>3, <1>4, HitIs
  <2>2. Count(o, x) \in Nat /\ CloseCount(s, x) \in Nat /\ file[x].ref \in Nat
    BY <1>1, <1>3, CountType, CloseType, HeldByType
  <2>3. Own(o, r, x) <= file[x].ref
    BY <1>3, <1>5
  <2> DEFINE a == Own(o, r, x)
             b == file[x].ref
  <2> HIDE DEF a, b
  <2>4. a >= 1 /\ b >= 1
    BY SMTT(30), <2>1, <2>2, <2>3 DEF a, b
  <2> QED
    BY <2>2, <2>4 DEF a, b
<1> QED
  BY <1>3, <1>4, <1>5, <1>6

(* One reference less, whatever becomes of the file *)
LEMMA DropStep ==
  ASSUME FilesInv, NEW p \in Procs, NEW x, NEW s, task[p].pc = "close", task[p].close # <<>>,
         x = Head(task[p].close), s = Tail(task[p].close), p \in live,
         NEW n \in FileRec, file' = [file EXCEPT ![x] = n], n.ref = file[x].ref - 1,
         NEW t \in TaskRec, Do(p, t), t.close = s, t.pc \in {"close", "pipeclose"}, t.pc = "pipeclose" => t.ff \in PipeId,
         UNCHANGED <<ofile, pipe, live>>, ~fileHalt',
         (file[x].ref > 1 /\ n.type = file[x].type /\ n.pipe = file[x].pipe) \/ (file[x].ref = 1 /\ n.type = "none"),
         EndsInv'
  PROVE  FilesInv'
<1> DEFINE o == ofile[p]
           r == task[p]
<1>1. /\ FileTypes /\ FileRefExact /\ FileShape(file) /\ r \in TaskRec /\ o \in FdRow
      /\ task \in [Procs -> TaskRec] /\ file \in [File -> FileRec]
  BY InvOf
<1>2. /\ x \in File /\ s \in CloseList /\ file[x].ref \in Nat /\ file[x].ref >= 1 /\ Own(o, r, x) >= 1
      /\ \A f \in File : Own(o, r, f) = Count(o, f) + CloseCount(s, f) + Hit(x, f) /\ Own(o, r, f) <= file[f].ref
  BY CloseNow
<1>3. file' \in [File -> FileRec] /\ file'[x] = n /\ \A f \in File \ {x} : file'[f] = file[f]
  BY <1>1, <1>2
<1>4. task' \in [Procs -> TaskRec] /\ task'[p] = t /\ \A q \in Procs \ {p} : task'[q] = task[q]
  BY <1>1 DEF Do
<1>5. FileTypes'
  BY <1>1, <1>3, <1>4 DEF FileTypes
<1>6. file[x].ref >= 2 => n.type = file[x].type
  <2>1. file[x].ref = 1 => ~(file[x].ref >= 2)
    BY SMTT(30)
  <2> QED
    BY <2>1
<1>7. Alone(p) /\ Gentle(p)
  BY <1>2, <1>3, <1>4, <1>6 DEF Alone, Gentle
<1>8. t.pc \in Idle /\ r.pc # "openset"
  BY SMTT(30) DEF Idle
<1>9. \A f : Own(o, t, f) = Count(o, f) + CloseCount(s, f)
  BY <1>8, IdleCall
<1>10. Shares(p)
  <2>1. ASSUME NEW f \in File PROVE Own(o, t, f) >= 0 /\ file'[f].ref = file[f].ref - Own(o, r, f) + Own(o, t, f)
    <3>0. Count(o, f) \in Nat /\ CloseCount(s, f) \in Nat
      BY <1>2, CountType, CloseType
    <3>1. Count(o, f) \in Nat /\ CloseCount(s, f) \in Nat /\ Hit(x, f) \in Nat /\ (x = f => Hit(x, f) = 1) /\ (x # f => Hit(x, f) = 0)
      BY <3>0, HitIs
    <3>2. file[f].ref \in Nat /\ Own(o, r, f) = Count(o, f) + CloseCount(s, f) + Hit(x, f)
      BY <1>1, <1>2, HeldByType
    <3>3. file'[f].ref = file[f].ref - Hit(x, f)
      <4>1. CASE x = f
        BY <1>3, <3>1, <4>1
      <4>2. CASE x # f
        <5>1. file[f].ref - 0 = file[f].ref
          BY SMTT(30), <3>2
        <5> QED
          BY <1>3, <3>1, <4>2, <5>1
      <4> QED
        BY <4>1, <4>2
    <3> DEFINE c == Count(o, f)
               l == CloseCount(s, f)
               h == Hit(x, f)
               k == file[f].ref
    <3> HIDE DEF c, l, h, k
    <3>4. c + l >= 0 /\ k - h = k - (c + l + h) + (c + l)
      BY SMTT(30), <3>1, <3>2 DEF c, l, h, k
    <3> QED
      BY <1>9, <3>2, <3>3, <3>4 DEF c, l, h, k
  <2> QED
    BY <1>4, <2>1 DEF Shares
<1>11. FileShape(file')
  <2>1. ASSUME NEW f \in File PROVE (file'[f].ref = 0 => file'[f].type = "none") /\ (file'[f].type = "pipe" => file'[f].pipe \in PipeId)
    <3>1. CASE f = x
      <4>1. file[x].ref > 1 => n.ref # 0
        BY SMTT(30), <1>2
      <4> QED
        BY <1>1, <1>2, <1>3, <3>1, <4>1 DEF FileShape
    <3>2. CASE f # x
      BY <1>1, <1>3, <3>2 DEF FileShape
    <3> QED
      BY <3>1, <3>2
  <2> QED
    BY <2>1 DEF FileShape
<1>12. TypedRow(o, file')
  <2>1. TypedRow(o, file) /\ \A d \in Fd : o[d] # 0 => o[d] \in File
    BY <1>8, RowTyped
  <2>2. ASSUME NEW d \in Fd, o[d] = x PROVE file[x].ref # 1
    <3>1. Count(o, x) >= 1 /\ Count(o, x) \in Nat /\ CloseCount(s, x) \in Nat /\ Hit(x, x) = 1
      BY <1>2, <2>2, CountType, CloseType, HitIs
    <3>2. Count(o, x) + CloseCount(s, x) + 1 <= file[x].ref
      BY <1>2, <3>1
    <3> QED
      BY SMTT(30), <1>2, <3>1, <3>2
  <2>3. ASSUME NEW d \in Fd, o[d] # 0 PROVE file'[o[d]].type # "none"
    <3>1. CASE o[d] = x
      BY <1>3, <2>1, <2>2, <2>3, <3>1 DEF TypedRow
    <3>2. CASE o[d] # x
      BY <1>3, <2>1, <2>3, <3>2 DEF TypedRow
    <3> QED
      BY <3>1, <3>2
  <2> QED
    BY <2>3 DEF TypedRow
<1>13. FilesKnown(o, t, file')
  BY <1>8, <1>12, IdleCall
<1>14. CallShape(o, t, p \in live')
  <2>1. /\ t.pc \notin {"open", "openset", "pipe1", "pipe2", "pipe3", "filedup"} /\ t.pc \notin {"pipe2", "pipe3"}
        /\ t.pc # "filedup"
    BY SMTT(30)
  <2> QED
    BY <2>1 DEF CallShape
<1>15. TaskInv(p)'
  BY <1>4, <1>13, <1>14 DEF TaskInv
<1> QED
  BY <1>5, <1>7, <1>10, <1>11, <1>15, StepKeeps

LEMMA FileCloseKeeps ==
  ASSUME FilesInv, NEW p \in Procs, fileclose(p)
  PROVE  FilesInv'
<1> DEFINE r == task[p]
<1>1. /\ r \in TaskRec /\ task \in [Procs -> TaskRec] /\ file \in [File -> FileRec] /\ FileShape(file) /\ EndsInv
  BY InvOf
<1>2. r.pc = "close" /\ p \in live /\ r.close # <<>> /\ UNCHANGED <<ofile, pipe, live>>
  BY DEF fileclose, In
<1>3. PICK x, s : x = Head(r.close) /\ s = Tail(r.close)
  OBVIOUS
<1>4. x \in File /\ s \in CloseList /\ file[x].ref \in Nat /\ file[x].ref >= 1
  BY <1>2, <1>3, CloseNow
<1>5. PICK a : a = [r EXCEPT !.close = s]
  OBVIOUS
<1>6. a \in TaskRec /\ a.pc = "close" /\ a.close = s
  <2>1. a \in TaskRec
    BY <1>1, <1>4, <1>5 DEF TaskRec
  <2> QED
    BY SMTT(30), <1>1, <1>2, <1>5, <2>1 DEF TaskRec
<1>7. fileHalt' = (file[x].ref < 1) /\ ~fileHalt'
  <2>1. fileHalt' = (file[x].ref < 1)
    BY <1>3 DEF fileclose
  <2>2. ~(file[x].ref < 1)
    BY SMTT(30), <1>4
  <2> QED
    BY <2>1, <2>2
<1>8. file[x] \in FileRec
  BY <1>1, <1>4
<1>9. CASE file[x].ref > 1
  <2>1. PICK n : n = [file[x] EXCEPT !.ref = file[x].ref - 1]
    OBVIOUS
  <2>2. file[x].ref - 1 \in Nat
    BY SMTT(30), <1>4, <1>9
  <2>3. n \in FileRec /\ n.ref = file[x].ref - 1 /\ n.type = file[x].type /\ n.pipe = file[x].pipe /\ n.writable = file[x].writable
    <3>1. n \in FileRec
      BY <1>8, <2>1, <2>2 DEF FileRec
    <3> QED
      BY SMTT(30), <1>8, <2>1, <3>1 DEF FileRec
  <2>4. file' = [file EXCEPT ![x] = n] /\ Do(p, a)
    BY <1>3, <1>5, <1>9, <2>1 DEF fileclose
  <2>5. EndsInv'
    <3>1. \A f \in File : SamePipe(file'[f], file[f])
      BY <1>1, <2>3, <2>4 DEF SamePipe
    <3>2. \A q \in Procs : SameClose(task'[q], task[q])
      BY <1>1, <1>2, <1>6, <2>4 DEF SameClose, Do
    <3> QED
      BY <1>1, <1>2, <3>1, <3>2, EndsKept
  <2>6. a.pc \in {"close", "pipeclose"} /\ a.pc # "pipeclose"
    BY SMTT(30), <1>6
  <2> QED
    BY <1>2, <1>3, <1>6, <1>7, <1>9, <2>3, <2>4, <2>5, <2>6, DropStep
<1>10. CASE ~(file[x].ref > 1)
  <2>0. file[x].ref = 1
    BY SMTT(30), <1>4, <1>10
  <2>1. PICK n : n = [file[x] EXCEPT !.ref = 0, !.type = "none"]
    OBVIOUS
  <2>2. n \in FileRec /\ n.ref = file[x].ref - 1 /\ n.type = "none"
    <3>1. 0 \in Nat /\ "none" \in {"none", "inode", "pipe"} /\ 0 = file[x].ref - 1
      BY SMTT(30), <2>0
    <3>2. n \in FileRec
      BY <1>8, <2>1, <3>1 DEF FileRec
    <3>3. n.ref = 0 /\ n.type = "none"
      BY SMTT(30), <1>8, <2>1, <3>2 DEF FileRec
    <3> QED
      BY <3>1, <3>2, <3>3
  <2>3. file' = [file EXCEPT ![x] = n]
    BY <1>3, <1>10, <2>1 DEF fileclose
  <2>4. file' \in [File -> FileRec] /\ file'[x] = n /\ \A f \in File \ {x} : file'[f] = file[f]
    BY <1>1, <1>4, <2>2, <2>3
  <2>5. CASE file[x].type # "pipe"
    <3>1. Do(p, a)
      BY <1>3, <1>5, <1>10, <2>5 DEF fileclose
    <3>2. EndsInv'
      <4>1. \A f \in File : SamePipe(file'[f], file[f])
        BY <2>2, <2>4, <2>5 DEF SamePipe
      <4>2. \A q \in Procs : SameClose(task'[q], task[q])
        BY <1>1, <1>2, <1>6, <3>1 DEF SameClose, Do
      <4> QED
        BY <1>1, <1>2, <4>1, <4>2, EndsKept
    <3>3. a.pc \in {"close", "pipeclose"} /\ a.pc # "pipeclose"
      BY SMTT(30), <1>6
    <3> QED
      BY <1>2, <1>3, <1>6, <1>7, <2>0, <2>2, <2>3, <3>1, <3>2, <3>3, DropStep
  <2>6. CASE file[x].type = "pipe"
    <3>1. PICK t : t = [a EXCEPT !.pc = "pipeclose", !.ff = file[x].pipe, !.end = file[x].writable]
      OBVIOUS
    <3>2. file[x].pipe \in PipeId /\ file[x].writable \in BOOLEAN
      <4>1. file[x].writable \in BOOLEAN
        BY SMTT(30), <1>8 DEF FileRec
      <4> QED
        BY <1>1, <1>4, <2>6, <4>1 DEF FileShape
    <3>3. /\ t \in TaskRec /\ t.pc = "pipeclose" /\ t.ff = file[x].pipe /\ t.close = s
      <4>1. "pipeclose" \in CallPlace /\ file[x].pipe \in 0 .. NPIPE
        BY <3>2, FileNumbers DEF CallPlace
      <4>2. t \in TaskRec
        BY <1>6, <3>1, <3>2, <4>1 DEF TaskRec
      <4> QED
        BY SMTT(30), <1>6, <3>1, <4>2 DEF TaskRec
    <3>4. t.end = file[x].writable
      BY <1>6, <3>1 DEF TaskRec
    <3>5. Do(p, t)
      BY <1>3, <1>5, <1>10, <2>6, <3>1 DEF fileclose
    <3>6. task'[p] = t /\ \A q \in Procs \ {p} : task'[q] = task[q]
      BY <1>1, <3>5 DEF Do
    <3>7. EndsInv'
      <4>1. ASSUME NEW g \in File, NEW k, NEW w PROVE Has(g, k, w)' <=> Has(g, k, w) /\ g # x
        <5>1. CASE g = x
          <6>1. file'[x].type # "pipe"
            BY <2>2, <2>4
          <6> QED
            BY <5>1, <6>1 DEF Has
        <5>2. CASE g # x
          BY <2>4, <5>2 DEF Has
        <5> QED
          BY <5>1, <5>2
      <4>2. ASSUME NEW k, NEW w PROVE ~ClosingEnd(p, k, w) /\ (ClosingEnd(p, k, w)' <=> Has(x, k, w))
        <5>1. r.pc # "pipeclose"
          BY SMTT(30), <1>2
        <5> QED
          BY <2>6, <3>3, <3>4, <3>6, <5>1 DEF ClosingEnd, Has
      <4>3. ASSUME NEW q \in Procs \ {p}, NEW k, NEW w PROVE ClosingEnd(q, k, w)' <=> ClosingEnd(q, k, w)
        BY <3>6 DEF ClosingEnd
      <4> QED
        BY <1>1, <1>2, <1>4, <4>1, <4>2, <4>3, EndsMoved
    <3>8. t.pc \in {"close", "pipeclose"} /\ (t.pc = "pipeclose" => t.ff \in PipeId)
      BY <3>2, <3>3
    <3> QED
      BY <1>2, <1>3, <1>7, <2>0, <2>2, <2>3, <3>3, <3>5, <3>7, <3>8, DropStep
  <2> QED
    BY <2>5, <2>6
<1> QED
  BY <1>9, <1>10

LEMMA PipeCloseKeeps ==
  ASSUME FilesInv, NEW p \in Procs, pipeclose(p)
  PROVE  FilesInv'
<1> DEFINE o == ofile[p]
           r == task[p]
<1>1. /\ r \in TaskRec /\ task \in [Procs -> TaskRec] /\ pipe \in [PipeId -> PipeRec] /\ FileTypes /\ FileRefExact
      /\ CallShape(o, r, p \in live) /\ FileShape(file) /\ EndsInv /\ o \in FdRow
  BY InvOf
<1>2. r.pc = "pipeclose" /\ p \in live /\ ~fileHalt' /\ UNCHANGED <<ofile, file, live>>
  BY DEF pipeclose, In
<1>3. PICK k, w : k = r.ff /\ w = r.end
  OBVIOUS
<1>4. k \in PipeId /\ w \in BOOLEAN /\ k \in 0 .. NPIPE
  <2>1. r.end \in BOOLEAN
    BY SMTT(30), <1>1 DEF TaskRec
  <2> QED
    BY <1>1, <1>2, <1>3, <2>1, FileNumbers DEF CallShape
<1>5. PICK a : a = [r EXCEPT !.pc = "close", !.ff = 0, !.end = FALSE]
  OBVIOUS
<1>6. a \in TaskRec /\ a.pc = "close" /\ a.close = r.close
  <2>1. "close" \in CallPlace /\ 0 \in 0 .. NPIPE /\ FALSE \in BOOLEAN
    BY FileNumbers DEF CallPlace
  <2>2. a \in TaskRec
    BY <1>1, <1>5, <2>1 DEF TaskRec
  <2> QED
    BY SMTT(30), <1>1, <1>5, <2>2 DEF TaskRec
<1>7. task' = [task EXCEPT ![p] = a]
  BY <1>5 DEF pipeclose, Do
<1>8. task' \in [Procs -> TaskRec] /\ task'[p] = a /\ \A q \in Procs \ {p} : task'[q] = task[q]
  BY <1>1, <1>6, <1>7
<1>9. PICK other : other = IF w THEN pipe[k].readopen ELSE pipe[k].writeopen
  OBVIOUS
<1>10. pipe' = [pipe EXCEPT ![k] = [readopen |-> w /\ other, writeopen |-> ~w /\ other, used |-> other]]
  BY <1>3, <1>9 DEF pipeclose
<1>11. pipe[k] \in PipeRec /\ other \in BOOLEAN
  <2>1. pipe[k] \in PipeRec
    BY <1>1, <1>4
  <2>2. pipe[k].readopen \in BOOLEAN /\ pipe[k].writeopen \in BOOLEAN
    BY SMTT(30), <2>1 DEF PipeRec
  <2> QED
    BY <1>4, <1>9, <2>1, <2>2
<1>12. PICK b : b = [readopen |-> w /\ other, writeopen |-> ~w /\ other, used |-> other]
  OBVIOUS
<1>13. b \in PipeRec /\ (b.readopen <=> w /\ other) /\ (b.writeopen <=> ~w /\ other) /\ (b.used <=> other)
  <2>1. (w /\ other) \in BOOLEAN /\ (~w /\ other) \in BOOLEAN
    OBVIOUS
  <2>2. b \in PipeRec
    BY <1>11, <1>12, <2>1 DEF PipeRec
  <2> QED
    BY <1>12, <2>2
<1>14. pipe' \in [PipeId -> PipeRec] /\ pipe'[k] = b /\ \A j \in PipeId \ {k} : pipe'[j] = pipe[j]
  BY <1>1, <1>4, <1>10, <1>12, <1>13
<1>15. FileTypes'
  BY <1>1, <1>2, <1>8, <1>14 DEF FileTypes
<1>16. Alone(p) /\ Gentle(p)
  BY <1>2, <1>8 DEF Alone, Gentle
<1>17. a.pc \in Idle /\ r.pc \in Idle /\ r.pc # "openset" /\ a.pc # "pipeclose"
  BY SMTT(30), <1>2, <1>6 DEF Idle
<1>18. TypedRow(o, file)
  BY <1>17, RowTyped
<1>19. CallShape(o, a, p \in live') /\ FilesKnown(o, a, file) /\ \A f : Own(o, a, f) = Own(o, r, f)
  <2>1. CallShape(o, a, TRUE) /\ FilesKnown(o, a, file)
    BY <1>6, <1>17, <1>18, IdleCall
  <2>2. ASSUME NEW f PROVE Own(o, a, f) = Own(o, r, f)
    <3>1. Own(o, a, f) = Count(o, f) + CloseCount(a.close, f)
      BY <1>6, <1>17, IdleCall
    <3>2. Own(o, r, f) = Count(o, f) + CloseCount(r.close, f)
      BY <1>1, <1>17, IdleCall
    <3> QED
      BY <1>6, <3>1, <3>2
  <2>3. p \in live'
    BY <1>2
  <2> QED
    BY <2>1, <2>2, <2>3 DEF CallShape
<1>20. Shares(p)
  <2>1. ASSUME NEW f \in File PROVE Own(o, a, f) >= 0 /\ file[f].ref = file[f].ref - Own(o, r, f) + Own(o, a, f)
    <3>1. Own(o, r, f) \in Int /\ Own(o, r, f) >= 0 /\ file[f].ref \in Nat
      BY <1>1, OwnInt, OwnPositive, HeldByType
    <3> DEFINE c == Own(o, r, f)
               n == file[f].ref
    <3> HIDE DEF c, n
    <3>2. n = n - c + c
      BY SMTT(30), <3>1 DEF c, n
    <3> QED
      BY <1>19, <3>1, <3>2 DEF c, n
  <2> QED
    BY <1>2, <1>8, <2>1 DEF Shares
<1>21. EndsInv'
  <2>1. ASSUME NEW f \in File, NEW j, NEW v PROVE Has(f, j, v)' <=> Has(f, j, v)
    BY <1>2 DEF Has
  <2>2. ASSUME NEW q \in Procs, NEW j, NEW v PROVE ClosingEnd(q, j, v)' <=> ClosingEnd(q, j, v) /\ q # p
    <3>1. ~ClosingEnd(p, j, v)'
      BY <1>8, <1>17 DEF ClosingEnd
    <3>2. q # p => (ClosingEnd(q, j, v)' <=> ClosingEnd(q, j, v))
      BY <1>8 DEF ClosingEnd
    <3> QED
      BY <3>1, <3>2
  <2>3. ClosingEnd(p, k, w) /\ \A j, v : ClosingEnd(p, j, v) => j = k /\ v = w
    BY <1>2, <1>3 DEF ClosingEnd
  <2>4. \A j \in PipeId : /\ pipe[j].readopen <=> Taken(j, FALSE)
                          /\ pipe[j].writeopen <=> Taken(j, TRUE)
                          /\ pipe[j].used <=> pipe[j].readopen \/ pipe[j].writeopen
                          /\ OneHolder(j, FALSE) /\ OneHolder(j, TRUE)
    BY <1>1 DEF EndsInv
  <2>5. ASSUME NEW j, NEW v, OneHolder(j, v) PROVE OneHolder(j, v)'
    BY <2>1, <2>2, <2>5 DEF OneHolder
  <2>6. ASSUME NEW j, NEW v, j # k \/ v # w PROVE Taken(j, v)' <=> Taken(j, v)
    <3>1. ~ClosingEnd(p, j, v)
      BY <2>3, <2>6
    <3> QED
      BY <2>1, <2>2, <3>1 DEF Taken
  <2>7. OneHolder(k, w)
    BY <1>4, <2>4
  <2>8. ~Taken(k, w)'
    <3>1. ASSUME NEW f \in File PROVE ~Has(f, k, w)
      BY <2>3, <2>7 DEF OneHolder
    <3>2. ASSUME NEW q \in Procs \ {p} PROVE ~ClosingEnd(q, k, w)
      BY <2>3, <2>7 DEF OneHolder
    <3> QED
      BY <2>1, <2>2, <3>1, <3>2 DEF Taken
  <2>9. ASSUME NEW j \in PipeId PROVE /\ pipe'[j].readopen <=> Taken(j, FALSE)'
                                      /\ pipe'[j].writeopen <=> Taken(j, TRUE)'
                                      /\ pipe'[j].used <=> pipe'[j].readopen \/ pipe'[j].writeopen
    <3>1. CASE j # k
      BY <1>14, <2>4, <2>6, <3>1
    <3>2. CASE j = k /\ w = TRUE
      <4>1. other <=> Taken(k, FALSE)
        BY <1>4, <1>9, <2>4, <3>2
      <4>2. Taken(k, FALSE)' <=> Taken(k, FALSE)
        BY <2>6, <3>2
      <4>3. ~Taken(k, TRUE)'
        BY <2>8, <3>2
      <4> QED
        BY <1>13, <1>14, <3>2, <4>1, <4>2, <4>3
    <3>3. CASE j = k /\ w = FALSE
      <4>1. other <=> Taken(k, TRUE)
        BY <1>4, <1>9, <2>4, <3>3
      <4>2. Taken(k, TRUE)' <=> Taken(k, TRUE)
        BY <2>6, <3>3
      <4>3. ~Taken(k, FALSE)'
        BY <2>8, <3>3
      <4> QED
        BY <1>13, <1>14, <3>3, <4>1, <4>2, <4>3
    <3> QED
      BY <1>4, <3>1, <3>2, <3>3
  <2> QED
    BY <2>4, <2>5, <2>9 DEF EndsInv
<1>22. TaskInv(p)' /\ FileShape(file')
  BY <1>1, <1>2, <1>8, <1>19 DEF TaskInv
<1> QED
  BY <1>2, <1>15, <1>16, <1>20, <1>21, <1>22, StepKeeps

-----------------------------------------------------------------------------
(* pipealloc's page *)

(* A new pipe is nobody's; then each of its files has one end. *)
LEMMA EndsMade ==
  ASSUME EndsInv, NEW k \in PipeId, ~pipe[k].used, NEW x \in File, NEW y \in File, x # y,
         pipe'[k].used, pipe'[k].readopen, pipe'[k].writeopen, \A j \in PipeId \ {k} : pipe'[j] = pipe[j],
         \A j, v : ~Has(x, j, v) /\ (Has(x, j, v)' <=> j = k /\ v = FALSE),
         \A j, v : ~Has(y, j, v) /\ (Has(y, j, v)' <=> j = k /\ v = TRUE),
         \A f \in File \ {x, y} : \A j, v : Has(f, j, v)' <=> Has(f, j, v),
         \A q \in Procs : \A j, v : ClosingEnd(q, j, v)' <=> ClosingEnd(q, j, v)
  PROVE  EndsInv'
<1>1. \A j \in PipeId : /\ pipe[j].readopen <=> Taken(j, FALSE)
                        /\ pipe[j].writeopen <=> Taken(j, TRUE)
                        /\ pipe[j].used <=> pipe[j].readopen \/ pipe[j].writeopen
                        /\ OneHolder(j, FALSE) /\ OneHolder(j, TRUE)
  BY DEF EndsInv
<1>2. ~Taken(k, FALSE) /\ ~Taken(k, TRUE)
  BY <1>1
<1>3. ASSUME NEW j, NEW v, j # k PROVE (Taken(j, v)' <=> Taken(j, v)) /\ (OneHolder(j, v) => OneHolder(j, v)')
  <2>1. ASSUME NEW f \in File PROVE Has(f, j, v)' <=> Has(f, j, v)
    BY <1>3
  <2>2. Taken(j, v)' <=> Taken(j, v)
    BY <2>1 DEF Taken
  <2>3. OneHolder(j, v) => OneHolder(j, v)'
    BY <2>1 DEF OneHolder
  <2> QED
    BY <2>2, <2>3
<1>4. ASSUME NEW v, ~Taken(k, v), NEW z \in {x, y}, \A f \in {x, y} : Has(f, k, v)' <=> f = z PROVE Taken(k, v)' /\ OneHolder(k, v)'
  <2>1. \A f \in File : ~Has(f, k, v)
    BY <1>4 DEF Taken
  <2>2. \A q \in Procs : ~ClosingEnd(q, k, v)
    BY <1>4 DEF Taken
  <2>3. ASSUME NEW f \in File PROVE Has(f, k, v)' <=> f = z
    <3>1. CASE f \in {x, y}
      BY <1>4, <3>1
    <3>2. CASE f \notin {x, y}
      BY <1>4, <2>1, <3>2
    <3> QED
      BY <3>1, <3>2
  <2>4. \A q \in Procs : ~ClosingEnd(q, k, v)'
    BY <2>2
  <2>5. Taken(k, v)'
    BY <1>4, <2>3 DEF Taken
  <2>6. OneHolder(k, v)'
    BY <2>3, <2>4 DEF OneHolder
  <2> QED
    BY <2>5, <2>6
<1>5. Taken(k, FALSE)' /\ OneHolder(k, FALSE)'
  <2>1. \A f \in {x, y} : Has(f, k, FALSE)' <=> f = x
    OBVIOUS
  <2> QED
    BY <1>2, <1>4, <2>1
<1>6. Taken(k, TRUE)' /\ OneHolder(k, TRUE)'
  <2>1. \A f \in {x, y} : Has(f, k, TRUE)' <=> f = y
    OBVIOUS
  <2> QED
    BY <1>2, <1>4, <2>1
<1>7. ASSUME NEW j \in PipeId
      PROVE  /\ pipe'[j].readopen <=> Taken(j, FALSE)'
             /\ pipe'[j].writeopen <=> Taken(j, TRUE)'
             /\ pipe'[j].used <=> pipe'[j].readopen \/ pipe'[j].writeopen
             /\ OneHolder(j, FALSE)' /\ OneHolder(j, TRUE)'
  <2>1. CASE j = k
    BY <1>5, <1>6, <2>1
  <2>2. CASE j # k
    BY <1>1, <1>3, <2>2
  <2> QED
    BY <2>1, <2>2
<1> QED
  BY <1>7 DEF EndsInv

LEMMA PipePageKeeps ==
  ASSUME FilesInv, NEW p \in Procs, PipePage(p)
  PROVE  FilesInv'
<1> DEFINE o == ofile[p]
           r == task[p]
           pages == {k \in PipeId : ~pipe[k].used}
<1>1. /\ r \in TaskRec /\ o \in FdRow /\ task \in [Procs -> TaskRec] /\ pipe \in [PipeId -> PipeRec] /\ FileTypes /\ FileRefExact
      /\ CallShape(o, r, p \in live) /\ FilesKnown(o, r, file) /\ FileShape(file) /\ EndsInv /\ file \in [File -> FileRec]
  BY InvOf
<1>2. r.pc = "pipe2" /\ p \in live /\ ~fileHalt' /\ UNCHANGED <<ofile, live, fileHalt>>
  BY DEF PipePage, In
<1>3. r.pc # "openset" /\ r.pc # "pipeclose" /\ r.pc \notin {"openset", "pipeclose"} /\ r.pc \in {"pipe2", "pipe3"}
      /\ r.pc \in {"open", "openset", "pipe1", "pipe2", "pipe3", "filedup"} /\ r.pc \notin {"close", "pipeclose"}
      /\ r.pc \in {"open", "openset", "pipe1", "pipe2"}
  BY SMTT(30), <1>2
<1>4. CASE pages = {}
  <2>1. Close(p, <<r.f, r.g>>) /\ UNCHANGED <<ofile, file, pipe, live, fileHalt>>
    BY <1>2, <1>4 DEF PipePage
  <2>2. <<r.f, r.g>> \in CloseList /\ \A f \in File : Flight(r, f) = CloseCount(<<r.f, r.g>>, f)
    BY <1>3, InFlightNow
  <2>3. PICK s : s = <<r.f, r.g>>
    OBVIOUS
  <2> QED
    BY <1>2, <1>3, <2>1, <2>2, <2>3, GiveUp
<1>5. CASE pages # {}
  <2>1. PICK k : k = Min(pages)
    OBVIOUS
  <2>2. k \in PipeId /\ ~pipe[k].used /\ k \in 0 .. NPIPE
    <3>1. pages \in SUBSET Nat
      BY FileNumbers
    <3>2. k \in pages
      BY <1>5, <2>1, <3>1, LeastOf
    <3> QED
      BY <3>2, FileNumbers
  <2>3. PICK x, y : x = r.f /\ y = r.g
    OBVIOUS
  <2>4. x \in File /\ y \in File /\ x # y /\ r.close = <<>>
    BY <1>1, <1>3, <2>3 DEF CallShape
  <2>5. /\ Own(o, r, x) >= 1 /\ file[x].ref = 1 /\ file[x].type = "none"
        /\ Own(o, r, y) >= 1 /\ file[y].ref = 1 /\ file[y].type = "none"
    <3>1. FreshIn(r, x) /\ FreshIn(r, y)
      BY <1>2, <1>3, <2>3 DEF FreshIn
    <3> QED
      BY <1>1, <2>4, <3>1 DEF FilesKnown
  <2>6. PICK a : a = [file[x] EXCEPT !.type = "pipe", !.readable = TRUE, !.writable = FALSE, !.pipe = k]
    OBVIOUS
  <2>7. PICK b : b = [file[y] EXCEPT !.type = "pipe", !.readable = FALSE, !.writable = TRUE, !.pipe = k]
    OBVIOUS
  <2>8. file[x] \in FileRec /\ file[y] \in FileRec /\ "pipe" \in {"none", "inode", "pipe"} /\ TRUE \in BOOLEAN /\ FALSE \in BOOLEAN
    BY <1>1, <2>4
  <2>9. a \in FileRec /\ a.type = "pipe" /\ a.pipe = k /\ a.ref = 1 /\ a.writable = FALSE
    <3>1. a \in FileRec
      BY <2>2, <2>6, <2>8 DEF FileRec
    <3>2. a.type = "pipe" /\ a.pipe = k /\ a.ref = 1
      BY SMTT(30), <2>5, <2>6, <2>8, <3>1 DEF FileRec
    <3>3. a.writable = FALSE
      BY <2>6, <2>8 DEF FileRec
    <3> QED
      BY <3>1, <3>2, <3>3
  <2>10. b \in FileRec /\ b.type = "pipe" /\ b.pipe = k /\ b.ref = 1 /\ b.writable = TRUE
    <3>1. b \in FileRec
      BY <2>2, <2>7, <2>8 DEF FileRec
    <3>2. b.type = "pipe" /\ b.pipe = k /\ b.ref = 1
      BY SMTT(30), <2>5, <2>7, <2>8, <3>1 DEF FileRec
    <3>3. b.writable = TRUE
      BY <2>7, <2>8 DEF FileRec
    <3> QED
      BY <3>1, <3>2, <3>3
  <2>11. PICK t : t = [r EXCEPT !.pc = "pipe3"]
    OBVIOUS
  <2>12. t \in TaskRec /\ t.pc = "pipe3" /\ t.f = x /\ t.g = y /\ t.close = <<>>
    <3>1. "pipe3" \in CallPlace
      BY DEF CallPlace
    <3>2. t \in TaskRec
      BY <1>1, <2>11, <3>1 DEF TaskRec
    <3> QED
      BY SMTT(30), <1>1, <2>3, <2>4, <2>11, <3>2 DEF TaskRec
  <2>13. PICK c : c = [used |-> TRUE, readopen |-> TRUE, writeopen |-> TRUE]
    OBVIOUS
  <2>14. c \in PipeRec /\ c.used /\ c.readopen /\ c.writeopen
    BY <2>13 DEF PipeRec
  <2>15. /\ pipe' = [pipe EXCEPT ![k] = c] /\ task' = [task EXCEPT ![p] = t]
         /\ file' = [file EXCEPT ![x] = [@ EXCEPT !.type = "pipe", !.readable = TRUE, !.writable = FALSE, !.pipe = k],
                                 ![y] = [@ EXCEPT !.type = "pipe", !.readable = FALSE, !.writable = TRUE, !.pipe = k]]
    BY <1>5, <2>1, <2>3, <2>11, <2>13 DEF PipePage, Do
  <2>16. file' = [[file EXCEPT ![x] = a] EXCEPT ![y] = b]
    <3>1. [file EXCEPT ![x] = a][y] = file[y]
      BY <1>1, <2>4
    <3> QED
      BY <2>6, <2>7, <2>15, <3>1
  <2>17. file' \in [File -> FileRec] /\ file'[x] = a /\ file'[y] = b /\ \A f \in File \ {x, y} : file'[f] = file[f]
    BY <1>1, <2>4, <2>9, <2>10, <2>16
  <2>18. pipe' \in [PipeId -> PipeRec] /\ pipe'[k] = c /\ \A j \in PipeId \ {k} : pipe'[j] = pipe[j]
    BY <1>1, <2>2, <2>14, <2>15
  <2>19. task' \in [Procs -> TaskRec] /\ task'[p] = t /\ \A q \in Procs \ {p} : task'[q] = task[q]
    BY <1>1, <2>12, <2>15
  <2>20. FileTypes'
    BY <1>1, <1>2, <2>17, <2>18, <2>19 DEF FileTypes
  <2>21. ~(1 >= 2) /\ 1 # 0
    BY SMTT(30)
  <2>22. Gentle(p)
    <3>1. ASSUME NEW f \in File
          PROVE  \/ file'[f] = file[f]
                 \/ Own(o, r, f) >= 1 /\ (file[f].ref >= 2 => file'[f].type = file[f].type)
      <4>1. CASE f \in {x, y}
        BY <2>5, <2>21, <4>1
      <4>2. CASE f \notin {x, y}
        BY <2>17, <4>2
      <4> QED
        BY <4>1, <4>2
    <3> QED
      BY <3>1 DEF Gentle
  <2>23. Alone(p)
    BY <1>2, <2>19 DEF Alone
  <2>24. t.pc \in {"pipe2", "pipe3"} /\ t.pc # "pipeclose" /\ t.pc # "filedup" /\ t.pc \notin {"open", "openset", "pipe1", "pipe2"} /\ t.pc # "pipe2"
    BY SMTT(30), <2>12
  <2>25. ASSUME NEW f PROVE Own(o, t, f) = Own(o, r, f)
    <3>1. CloseCount(r.close, f) \in Nat /\ CloseCount(t.close, f) = CloseCount(r.close, f)
      BY <1>1, <2>4, <2>12, OwnInt
    <3>2. Flight(r, f) = CloseCount(r.close, f) + Hit(r.f, f) + Hit(r.g, f)
      BY <1>3, <3>1, Flights
    <3>3. Flight(t, f) = CloseCount(t.close, f) + Hit(t.f, f) + Hit(t.g, f)
      BY <2>24, <3>1, Flights
    <3> QED
      BY <2>3, <2>12, <3>1, <3>2, <3>3 DEF Own
  <2>26. ASSUME NEW f \in File PROVE file'[f].ref = file[f].ref
    <3>1. CASE f \in {x, y}
      BY <2>5, <2>9, <2>10, <2>17, <3>1
    <3>2. CASE f \notin {x, y}
      BY <2>17, <3>2
    <3> QED
      BY <3>1, <3>2
  <2>27. Shares(p)
    <3>1. ASSUME NEW f \in File PROVE Own(o, t, f) >= 0 /\ file'[f].ref = file[f].ref - Own(o, r, f) + Own(o, t, f)
      <4>1. Own(o, r, f) \in Int /\ Own(o, r, f) >= 0 /\ file[f].ref \in Nat
        BY <1>1, OwnInt, OwnPositive, HeldByType
      <4> DEFINE u == Own(o, r, f)
                 n == file[f].ref
      <4> HIDE DEF u, n
      <4>2. n = n - u + u
        BY SMTT(30), <4>1 DEF u, n
      <4> QED
        BY <2>25, <2>26, <4>1, <4>2 DEF u, n
    <3> QED
      BY <1>2, <2>19, <3>1 DEF Shares
  <2>28. EndsInv'
    <3>1. ASSUME NEW j, NEW v PROVE ~Has(x, j, v) /\ (Has(x, j, v)' <=> j = k /\ v = FALSE)
      BY <2>5, <2>9, <2>17 DEF Has
    <3>2. ASSUME NEW j, NEW v PROVE ~Has(y, j, v) /\ (Has(y, j, v)' <=> j = k /\ v = TRUE)
      BY <2>5, <2>10, <2>17 DEF Has
    <3>3. ASSUME NEW f \in File \ {x, y}, NEW j, NEW v PROVE Has(f, j, v)' <=> Has(f, j, v)
      BY <2>17 DEF Has
    <3>4. ASSUME NEW q \in Procs, NEW j, NEW v PROVE ClosingEnd(q, j, v)' <=> ClosingEnd(q, j, v)
      BY <1>3, <2>19, <2>24 DEF ClosingEnd
    <3>5. pipe'[k].used /\ pipe'[k].readopen /\ pipe'[k].writeopen
      BY <2>14, <2>18
    <3> QED
      BY <1>1, <2>2, <2>4, <2>18, <3>1, <3>2, <3>3, <3>4, <3>5, EndsMade
  <2>29. FileShape(file')
    <3>1. ASSUME NEW f \in File PROVE (file'[f].ref = 0 => file'[f].type = "none") /\ (file'[f].type = "pipe" => file'[f].pipe \in PipeId)
      <4>1. CASE f \in {x, y}
        BY <2>2, <2>9, <2>10, <2>17, <2>21, <4>1
      <4>2. CASE f \notin {x, y}
        BY <1>1, <2>17, <4>2 DEF FileShape
      <4> QED
        BY <4>1, <4>2
    <3> QED
      BY <3>1 DEF FileShape
  <2>30. FilesKnown(o, t, file')
    <3>1. ASSUME NEW d \in Fd, o[d] # 0 PROVE file'[o[d]].type # "none"
      <4>1. o[d] \in File /\ file[o[d]].type # "none"
        BY <1>3, <3>1, RowTyped DEF TypedRow
      <4>2. o[d] \notin {x, y}
        BY <2>5, <4>1
      <4> QED
        BY <2>17, <4>1, <4>2
    <3>2. file'[t.f].type = "pipe" /\ file'[t.g].type = "pipe"
      BY <2>9, <2>10, <2>12, <2>17
    <3> QED
      BY <2>24, <3>1, <3>2 DEF FilesKnown, FreshIn
  <2>31. CallShape(o, t, p \in live')
    BY <1>2, <2>4, <2>12, <2>24 DEF CallShape
  <2>32. TaskInv(p)'
    BY <1>2, <2>19, <2>30, <2>31 DEF TaskInv
  <2> QED
    BY <1>2, <2>20, <2>22, <2>23, <2>27, <2>28, <2>29, <2>32, StepKeeps
<1> QED
  BY <1>4, <1>5

-----------------------------------------------------------------------------
(* fork, and the calls that only look *)

(* No descriptor at all *)
LEMMA NoDescriptors ==
  ASSUME NEW o, \A d \in Fd : o[d] = 0, NEW f \in File
  PROVE  Count(o, f) = 0 /\ Own(o, Rest, f) = 0
<1>1. Fibre(Fd, o, f) = {}
  BY FileNumbers DEF Fibre
<1>2. Count(o, f) = 0
  BY <1>1, FS_EmptySet DEF Count
<1>3. Rest.pc \in Idle
  BY SMTT(30) DEF Rest, Idle
<1>4. Own(o, Rest, f) = Count(o, f)
  BY <1>3, RestIs, IdleCall
<1> QED
  BY <1>2, <1>4

LEMMA ForkKeeps ==
  ASSUME FilesInv, NEW p \in Procs, NEW q \in Procs, fork(p, q)
  PROVE  FilesInv'
<1> DEFINE o == ofile[p]
           r == task[p]
<1>1. /\ FileTypes /\ FileRefExact /\ EndsInv /\ FileShape(file) /\ o \in FdRow /\ r \in TaskRec /\ CallShape(o, r, p \in live)
      /\ ofile \in [Procs -> FdRow] /\ file \in [File -> FileRec] /\ ~fileHalt /\ \A z \in Procs : TaskInv(z)
  BY InvOf DEF FilesInv
<1>2. r.pc = "user" /\ p \in live /\ q \notin live /\ p # q /\ UNCHANGED <<pipe, task, fileHalt>> /\ live' = live \union {q}
  BY DEF fork, In
<1>3. r.close = <<>> /\ r.pc \in Idle /\ r.pc # "openset" /\ r.pc \in {"user", "exit"}
  <2>1. r.pc \in Idle /\ r.pc # "openset" /\ r.pc \in {"user", "exit"} /\ r.pc \notin {"close", "pipeclose"}
    BY SMTT(30), <1>2 DEF Idle
  <2> QED
    BY <1>1, <2>1 DEF CallShape
<1>4. task[q] = Rest /\ \A d \in Fd : ofile[q][d] = 0
  BY <1>1, <1>2 DEF TaskInv, CallShape
<1>5. ofile' = [ofile EXCEPT ![q] = o]
  BY DEF fork
<1>6. ofile' \in [Procs -> FdRow] /\ ofile'[q] = o /\ \A z \in Procs \ {q} : ofile'[z] = ofile[z]
  BY <1>1, <1>5
<1>7. ASSUME NEW f \in File
      PROVE  /\ file'[f] \in FileRec /\ file'[f].ref = file[f].ref + Count(o, f) /\ file'[f].type = file[f].type
             /\ file'[f].pipe = file[f].pipe /\ file'[f].writable = file[f].writable
             /\ Count(o, f) = 0 => file'[f] = file[f]
             /\ Count(o, f) \in Nat /\ file[f].ref \in Nat
  <2>1. file[f] \in FileRec /\ file[f].ref \in Nat /\ Count(o, f) \in Nat
    BY <1>1, CountType, HeldByType
  <2>2. file'[f] = [file[f] EXCEPT !.ref = file[f].ref + Count(o, f)]
    BY DEF fork, Count, Fibre
  <2>3. PICK c : c = Count(o, f)
    OBVIOUS
  <2>4. PICK k : k = file[f].ref + c
    OBVIOUS
  <2>5. k \in Nat /\ (c = 0 => k = file[f].ref)
    BY SMTT(30), <2>1, <2>3, <2>4
  <2>6. PICK u : u = file[f]
    OBVIOUS
  <2>7. file'[f] = [u EXCEPT !.ref = k] /\ u \in FileRec /\ (c = 0 => k = u.ref)
    BY <2>1, <2>2, <2>3, <2>4, <2>5, <2>6
  <2>8. [u EXCEPT !.ref = k] \in FileRec
    BY <2>5, <2>7 DEF FileRec
  <2>9. /\ [u EXCEPT !.ref = k].ref = k /\ [u EXCEPT !.ref = k].type = u.type /\ [u EXCEPT !.ref = k].pipe = u.pipe
        /\ [u EXCEPT !.ref = k].writable = u.writable /\ (k = u.ref => [u EXCEPT !.ref = k] = u)
    BY SMTT(30), <2>5, <2>7 DEF FileRec
  <2> QED
    BY <2>1, <2>3, <2>4, <2>6, <2>7, <2>8, <2>9
<1>8. file' \in [File -> FileRec]
  <2>1. file' = [f \in File |-> file'[f]]
    BY DEF fork
  <2> QED
    BY <1>7, <2>1
<1>9. FileTypes'
  BY <1>1, <1>2, <1>6, <1>8 DEF FileTypes
<1>10. ASSUME NEW f PROVE Own(o, r, f) = Count(o, f)
  BY <1>1, <1>3, IdleCall
<1>11. Gentle(p)
  <2>1. ASSUME NEW f \in File, file'[f] # file[f] PROVE Own(o, r, f) >= 1 /\ file'[f].type = file[f].type
    <3>1. Count(o, f) # 0 /\ Count(o, f) \in Nat
      BY <1>7, <2>1
    <3>2. Count(o, f) >= 1
      BY SMTT(30), <3>1
    <3> QED
      BY <1>7, <1>10, <3>2
  <2> QED
    BY <2>1 DEF Gentle
<1>12. Alone(q)
  BY <1>2, <1>6 DEF Alone
<1>13. Rest.pc \in Idle /\ Rest.pc \in {"user", "exit"}
  BY SMTT(30) DEF Rest, Idle
<1>14. TypedRow(o, file')
  <2>1. TypedRow(o, file) /\ \A d \in Fd : o[d] # 0 => o[d] \in File
    BY <1>3, RowTyped
  <2> QED
    BY <1>7, <2>1 DEF TypedRow
<1>15. CallShape(o, Rest, TRUE) /\ FilesKnown(o, Rest, file') /\ \A f : Own(o, Rest, f) = Count(o, f)
  BY <1>13, <1>14, RestIs, IdleCall
<1>16. Shares(q)
  <2>1. ASSUME NEW f \in File PROVE Own(o, Rest, f) >= 0 /\ file'[f].ref = file[f].ref - Own(ofile[q], Rest, f) + Own(o, Rest, f)
    <3>1. Own(ofile[q], Rest, f) = 0 /\ Own(o, Rest, f) = Count(o, f) /\ Count(o, f) \in Nat /\ file[f].ref \in Nat
      BY <1>4, <1>7, <1>15, NoDescriptors
    <3> DEFINE c == Count(o, f)
               k == file[f].ref
    <3> HIDE DEF c, k
    <3>2. c >= 0 /\ k + c = k - 0 + c
      BY SMTT(30), <3>1 DEF c, k
    <3> QED
      BY <1>7, <3>1, <3>2 DEF c, k
  <2> QED
    BY <1>2, <1>4, <1>6, <2>1 DEF Shares
<1>17. FileRefExact'
  BY <1>1, <1>9, <1>12, <1>16, StepExact
<1>18. EndsInv'
  <2>1. \A f \in File : SamePipe(file'[f], file[f])
    BY <1>7 DEF SamePipe
  <2>2. \A z \in Procs : SameClose(task'[z], task[z])
    BY <1>2 DEF SameClose
  <2> QED
    BY <1>1, <1>2, <2>1, <2>2, EndsKept
<1>19. FileShape(file')
  <2>1. ASSUME NEW f \in File PROVE (file'[f].ref = 0 => file'[f].type = "none") /\ (file'[f].type = "pipe" => file'[f].pipe \in PipeId)
    <3>1. Count(o, f) \in Nat /\ file[f].ref \in Nat /\ file'[f].ref = file[f].ref + Count(o, f)
      BY <1>7
    <3>2. file'[f].ref = 0 => file[f].ref = 0
      BY SMTT(30), <3>1
    <3> QED
      BY <1>1, <1>7, <3>2 DEF FileShape
  <2> QED
    BY <2>1 DEF FileShape
<1>20. ASSUME NEW z \in Procs PROVE TaskInv(z)'
  <2>1. CASE z = q
    <3>1. q \in live' /\ task'[q] = Rest
      BY <1>2, <1>4
    <3>2. CallShape(o, Rest, q \in live')
      BY <1>15, <3>1 DEF CallShape
    <3> QED
      BY <1>6, <1>15, <2>1, <3>1, <3>2 DEF TaskInv
  <2>2. CASE z = p
    <3>1. p \in live' /\ task'[p] = r /\ ofile'[p] = o
      BY <1>2, <1>6
    <3>2. CallShape(o, r, p \in live')
      BY <1>1, <1>2, <3>1 DEF CallShape
    <3>3. FilesKnown(o, r, file')
      BY <1>1, <1>3, <1>14, IdleCall
    <3> QED
      BY <2>2, <3>1, <3>2, <3>3 DEF TaskInv
  <2>3. CASE z # p /\ z # q
    <3>1. ofile'[z] = ofile[z] /\ task'[z] = task[z] /\ (z \in live' <=> z \in live)
      BY <1>2, <1>6, <2>3
    <3> QED
      BY <1>1, <1>11, <2>3, <3>1, OthersKeep
  <2> QED
    BY <2>1, <2>2, <2>3
<1> QED
  BY <1>1, <1>2, <1>9, <1>17, <1>18, <1>19, <1>20 DEF FilesInv

LEMMA SameFiles ==
  ASSUME FilesInv, UNCHANGED <<ofile, file, pipe, task, live>>, ~fileHalt'
  PROVE  FilesInv'
<1>1. FileTypes'
  BY DEF FilesInv, FileTypes
<1>2. FileRefExact'
  <2>1. ASSUME NEW p, NEW f PROVE Held(p, f)' = Held(p, f)
    BY HeldIs
  <2>2. \A f \in File : [p \in Procs |-> Held(p, f)'] = [p \in Procs |-> Held(p, f)]
    BY <2>1
  <2> QED
    BY <2>1, <2>2 DEF FilesInv, FileRefExact
<1>3. EndsInv'
  <2>1. (\A f \in File : SamePipe(file'[f], file[f])) /\ \A q \in Procs : SameClose(task'[q], task[q])
    BY DEF SamePipe, SameClose
  <2> QED
    BY <2>1, EndsKept DEF FilesInv
<1>4. \A p \in Procs : TaskInv(p)'
  BY DEF FilesInv, TaskInv
<1> QED
  BY <1>1, <1>2, <1>3, <1>4 DEF FilesInv

LEMMA ReadWriteKeeps ==
  ASSUME FilesInv, NEW p \in Procs, NEW d \in Fd, ReadWrite(p, d)
  PROVE  FilesInv'
<1>1. task[p].pc = "user" /\ ofile[p][d] # 0
  BY DEF ReadWrite, In
<1>2. task[p].pc # "openset"
  BY SMTT(30), <1>1
<1>3. file[ofile[p][d]].type # "none"
  BY <1>1, <1>2, RowTyped DEF TypedRow
<1>4. ~fileHalt' /\ UNCHANGED <<ofile, file, pipe, task, live>>
  BY <1>3 DEF ReadWrite
<1> QED
  BY <1>4, SameFiles

-----------------------------------------------------------------------------
(* The invariant *)

LEMMA FilesStart == FileInit => FilesInv
<1> SUFFICES ASSUME FileInit PROVE FilesInv
  OBVIOUS
<1>1. NoFile \in FileRec /\ NoFile.ref = 0 /\ NoFile.type = "none"
  <2>1. 0 \in Nat /\ 0 \in 0 .. NPIPE
    BY SMTT(30), FilesAssumption
  <2>2. NoFile \in FileRec
    BY <2>1 DEF NoFile, FileRec
  <2> QED
    BY SMTT(30), <2>2 DEF NoFile
<1>2. FileTypes
  <2>1. ofile \in [Procs -> FdRow]
    BY FileNumbers DEF FileInit, FdRow
  <2>2. file \in [File -> FileRec]
    BY <1>1 DEF FileInit
  <2>3. pipe \in [PipeId -> PipeRec]
    BY DEF FileInit, PipeRec
  <2>4. task \in [Procs -> TaskRec]
    BY RestIs DEF FileInit
  <2>5. live \subseteq Procs
    <3>1. Procs \in SUBSET Nat /\ Procs # {}
      BY FilesAssumption
    <3>2. Min(Procs) \in Procs
      BY <3>1, LeastOf
    <3> QED
      BY <3>2 DEF FileInit
  <2> QED
    BY <2>1, <2>2, <2>3, <2>4, <2>5 DEF FileTypes
<1>3. ASSUME NEW p \in Procs PROVE task[p] = Rest /\ \A d \in Fd : ofile[p][d] = 0
  BY DEF FileInit
<1>4. ASSUME NEW f \in File PROVE file[f] = NoFile
  BY DEF FileInit
<1>5. ASSUME NEW p \in Procs, NEW f \in File PROVE Held(p, f) = 0
  <2>1. task[p] = Rest /\ \A d \in Fd : ofile[p][d] = 0
    BY <1>3
  <2>2. Own(ofile[p], Rest, f) = 0
    BY <2>1, NoDescriptors
  <2> QED
    BY <2>1, <2>2, HeldIs
<1>6. FileRefExact
  <2>1. ASSUME NEW f \in File PROVE (\A p \in Procs : Held(p, f) >= 0) /\ file[f].ref = Total([p \in Procs |-> Held(p, f)])
    <3> DEFINE h == [p \in Procs |-> Held(p, f)]
    <3>1. 0 \in Nat /\ 0 >= 0
      BY SMTT(30)
    <3>2. h \in [Procs -> Nat] /\ \A p \in Procs : h[p] = 0
      BY <1>5, <3>1
    <3>3. PICK i \in Procs : TRUE
      BY FilesAssumption
    <3>4. IsFiniteSet(Procs)
      BY FilesAssumption
    <3> HIDE DEF h
    <3>5. Total(h) = h[i]
      BY <3>2, <3>3, <3>4, TotalOne
    <3>6. \A p \in Procs : Held(p, f) >= 0
      BY <1>5, <3>1
    <3> QED
      BY <1>1, <1>4, <3>2, <3>5, <3>6 DEF h
  <2> QED
    BY <2>1 DEF FileRefExact
<1>7. Rest.pc \in Idle /\ Rest.pc \in {"user", "exit"} /\ Rest.pc # "pipeclose"
  BY SMTT(30) DEF Rest, Idle
<1>8. ASSUME NEW p \in Procs PROVE TaskInv(p)
  <2>1. CallShape(ofile[p], Rest, TRUE) /\ FilesKnown(ofile[p], Rest, file)
    BY <1>3, <1>7, RestIs, IdleCall DEF TypedRow
  <2>2. task[p] = Rest /\ \A d \in Fd : ofile[p][d] = 0
    BY <1>3
  <2>3. CallShape(ofile[p], Rest, p \in live)
    BY <2>1, <2>2 DEF CallShape
  <2> QED
    BY <2>1, <2>2, <2>3 DEF TaskInv
<1>9. EndsInv
  <2>1. ASSUME NEW k, NEW w PROVE ~Taken(k, w) /\ OneHolder(k, w)
    <3>1. \A f \in File : ~Has(f, k, w)
      BY <1>1, <1>4 DEF Has
    <3>2. \A p \in Procs : ~ClosingEnd(p, k, w)
      BY <1>3, <1>7 DEF ClosingEnd
    <3> QED
      BY <3>1, <3>2 DEF Taken, OneHolder
  <2>2. ASSUME NEW k \in PipeId PROVE ~pipe[k].used /\ ~pipe[k].readopen /\ ~pipe[k].writeopen
    BY DEF FileInit
  <2> QED
    BY <2>1, <2>2 DEF EndsInv
<1>10. FileShape(file)
  BY <1>1, <1>4 DEF FileShape
<1>11. ~fileHalt
  BY DEF FileInit
<1> QED
  BY <1>2, <1>6, <1>8, <1>9, <1>10, <1>11 DEF FilesInv

LEMMA FilesNextInv ==
  ASSUME FilesInv, [FileNext]_fileVars
  PROVE  FilesInv'
<1>1. CASE UNCHANGED fileVars
  <2>1. ~fileHalt' /\ UNCHANGED <<ofile, file, pipe, task, live>>
    BY <1>1 DEF fileVars, FilesInv
  <2> QED
    BY <2>1, SameFiles
<1>2. ASSUME NEW p \in Procs, FileStep(p) PROVE FilesInv'
  <2>1. CASE OpenFd(p)
    BY <2>1, OpenFdKeeps
  <2>2. CASE OpenSet(p)
    BY <2>2, OpenSetKeeps
  <2>3. CASE PipeFile1(p)
    <3>1. CASE FreeFiles = {}
      <4>1. task[p].pc = "pipe1" /\ p \in live /\ Close(p, <<task[p].f>>) /\ UNCHANGED <<ofile, file, pipe, live, fileHalt>>
        BY <2>3, <3>1 DEF PipeFile1, In
      <4>2. task[p].pc \notin {"openset", "pipeclose"} /\ task[p].pc \in {"open", "pipe1"}
        BY SMTT(30), <4>1
      <4>3. <<task[p].f>> \in CloseList /\ \A f \in File : Flight(task[p], f) = CloseCount(<<task[p].f>>, f)
        BY <4>2, InFlightNow
      <4>4. PICK s : s = <<task[p].f>>
        OBVIOUS
      <4> QED
        BY <4>1, <4>2, <4>3, <4>4, GiveUp
    <3>2. CASE FreeFiles # {}
      BY <2>3, <3>2, SecondFile
    <3> QED
      BY <3>1, <3>2
  <2>4. CASE PipePage(p)
    BY <2>4, PipePageKeeps
  <2>5. CASE PipeFds(p)
    BY <2>5, PipeFdsKeeps
  <2>6. CASE fileclose(p)
    BY <2>6, FileCloseKeeps
  <2>7. CASE pipeclose(p)
    BY <2>7, PipeCloseKeeps
  <2>8. CASE Closed(p)
    BY <2>8, ClosedKeeps
  <2>9. CASE DupRef(p)
    BY <2>9, DupRefKeeps
  <2>10. CASE ExitFd(p)
    BY <2>10, ExitFdKeeps
  <2> QED
    BY <1>2, <2>1, <2>2, <2>3, <2>4, <2>5, <2>6, <2>7, <2>8, <2>9, <2>10 DEF FileStep
<1>3. ASSUME NEW p \in Procs, FileCall(p) PROVE FilesInv'
  <2>1. CASE Open(p)
    BY <2>1, FirstFile DEF Open
  <2>2. CASE PipeFile0(p)
    BY <2>2, FirstFile DEF PipeFile0
  <2>3. CASE exit(p)
    BY <2>3, ExitKeeps
  <2>4. ASSUME NEW q \in Procs, fork(p, q) PROVE FilesInv'
    BY <2>4, ForkKeeps
  <2>5. ASSUME NEW d \in Fd, sys_close(p, d) PROVE FilesInv'
    BY <2>5, SysCloseKeeps
  <2>6. ASSUME NEW d \in Fd, sys_dup(p, d) PROVE FilesInv'
    BY <2>6, DupKeeps
  <2>7. ASSUME NEW d \in Fd, ReadWrite(p, d) PROVE FilesInv'
    BY <2>7, ReadWriteKeeps
  <2> QED
    BY <1>3, <2>1, <2>2, <2>3, <2>4, <2>5, <2>6, <2>7 DEF FileCall
<1> QED
  BY <1>1, <1>2, <1>3 DEF FileNext

(* file.c, pipe.c and the descriptors of sysfile.c, fork and exit, for any *)
(* number of processes, descriptors, files and pipe pages: a file is       *)
(* counted for what refers to it, a new file is its maker's alone until    *)
(* its fields are set, and each end of a pipe has at most one owner.       *)
THEOREM FilesInvariant == FileSpec => []FilesInv
BY FilesStart, FilesNextInv, PTL DEF FileSpec

(* ftable's counts and the pipes' readopen, writeopen and pages say what   *)
(* is there at every moment, through every failure of open, pipe and dup;  *)
(* so fileclose and filedup never find a count of 0 and fileread and       *)
(* filewrite never a file that is nothing, where they would panic.         *)
THEOREM OpenFilesAreCounted == FileSpec => []FilesCounted
<1>1. ASSUME FilesInv PROVE FilesCounted
  <2>1. ASSUME NEW k, NEW w PROVE EndHeld(k, w) <=> Taken(k, w)
    <3>1. ASSUME NEW f \in File PROVE file[f].type = "pipe" => file[f].ref > 0
      <4>1. file[f].ref \in Nat
        BY <1>1, HeldByType DEF FilesInv
      <4>2. file[f].ref = 0 => file[f].type = "none"
        BY <1>1 DEF FilesInv, FileShape
      <4>3. file[f].ref # 0 => file[f].ref > 0
        BY SMTT(30), <4>1
      <4> QED
        BY <4>2, <4>3
    <3> QED
      BY <3>1 DEF EndHeld, Taken, Has, ClosingEnd
  <2>2. ASSUME NEW k \in PipeId
        PROVE  /\ pipe[k].readopen = EndHeld(k, FALSE) /\ pipe[k].writeopen = EndHeld(k, TRUE)
               /\ pipe[k].used = (pipe[k].readopen \/ pipe[k].writeopen)
    <3>1. pipe[k] \in PipeRec
      BY <1>1 DEF FilesInv, FileTypes
    <3>2. pipe[k].readopen \in BOOLEAN /\ pipe[k].writeopen \in BOOLEAN /\ pipe[k].used \in BOOLEAN
      BY SMTT(30), <3>1 DEF PipeRec
    <3>3. /\ pipe[k].readopen <=> EndHeld(k, FALSE)
          /\ pipe[k].writeopen <=> EndHeld(k, TRUE)
          /\ pipe[k].used <=> pipe[k].readopen \/ pipe[k].writeopen
      BY <1>1, <2>1 DEF FilesInv, EndsInv
    <3>4. EndHeld(k, FALSE) \in BOOLEAN /\ EndHeld(k, TRUE) \in BOOLEAN
      BY DEF EndHeld
    <3> QED
      BY <3>2, <3>3, <3>4
  <2> QED
    BY <1>1, <2>2 DEF FilesInv, FilesCounted, PipeEnds
<1> QED
  BY <1>1, FilesInvariant, PTL
====
