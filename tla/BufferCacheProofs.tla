------------------------- MODULE BufferCacheProofs --------------------------
(***************************************************************************)
(* The buffer cache for any number of buffers, blocks and users: a buffer  *)
(* in use is not recycled and has one owner, no call panics while there    *)
(* are buffers for the users and the log, and the cache implements         *)
(* BlockStore.                                                             *)
(***************************************************************************)
EXTENDS BufferCache, FiniteSetTheorems, TLAPS

(* Zenon proves most of these steps; where it takes arithmetic, strings or *)
(* many functions at once, the step asks for SMT.                          *)
USE ZenonT(30)

-----------------------------------------------------------------------------
(* Sets of users and of buffers are finite. *)

LEMMA FiniteSharers ==
  ASSUME NEW i
  PROVE  IsFiniteSet(Sharers(i)) /\ IsFiniteSet(Sharers(i)')
<1>1. Sharers(i) \in SUBSET Users /\ Sharers(i)' \in SUBSET Users
  BY DEF Sharers
<1> QED
  BY <1>1, FS_Subset, UserAssumption

LEMMA FiniteBuffers ==
  ASSUME NEW S, S \subseteq Buf
  PROVE  IsFiniteSet(S) /\ Cardinality(S) \in Nat
<1>1. 1 \in Int /\ NBUF \in Int
  BY SMTT(30), BufferAssumption
<1>2. IsFiniteSet(Buf)
  BY <1>1, FS_Interval DEF Buf
<1>3. IsFiniteSet(S)
  BY <1>2, FS_Subset
<1> QED
  BY <1>3, FS_CardinalityType

-----------------------------------------------------------------------------
(* The fields of a buffer, and what the steps do to them. *)

Counted(r, n) == [r EXCEPT !.refcnt = n]
Recycled(r, b) == [r EXCEPT !.blockno = b, !.valid = FALSE, !.dirty = FALSE, !.refcnt = 1]
Written(r, v) == [r EXCEPT !.data = v, !.dirty = TRUE]
Done(r, d) == [r EXCEPT !.valid = TRUE, !.dirty = FALSE, !.data = d]

LEMMA CountedFields ==
  ASSUME NEW r \in Buffer, NEW n \in Int
  PROVE  /\ Counted(r, n) \in Buffer
         /\ Counted(r, n).refcnt = n /\ Counted(r, n).blockno = r.blockno
         /\ Counted(r, n).valid = r.valid /\ Counted(r, n).dirty = r.dirty /\ Counted(r, n).data = r.data
BY DEF Buffer, Counted

LEMMA RecycledFields ==
  ASSUME NEW r \in Buffer, NEW b \in Blocks
  PROVE  /\ Recycled(r, b) \in Buffer
         /\ Recycled(r, b).refcnt = 1 /\ Recycled(r, b).blockno = b
         /\ Recycled(r, b).valid = FALSE /\ Recycled(r, b).dirty = FALSE
<1> DEFINE q == [r EXCEPT !.blockno = b, !.valid = FALSE, !.dirty = FALSE]
<1>1. 1 \in Int
  BY SMTT(30)
<1>2. q \in Buffer /\ q.blockno = b /\ q.valid = FALSE /\ q.dirty = FALSE
  BY DEF Buffer
<1>3. Recycled(r, b) = Counted(q, 1)
  BY DEF Recycled, Counted
<1> HIDE DEF q
<1>4. /\ Counted(q, 1) \in Buffer /\ Counted(q, 1).refcnt = 1 /\ Counted(q, 1).blockno = q.blockno
      /\ Counted(q, 1).valid = q.valid /\ Counted(q, 1).dirty = q.dirty
  BY <1>1, <1>2, CountedFields
<1> QED
  BY <1>2, <1>3, <1>4

LEMMA WrittenFields ==
  ASSUME NEW r \in Buffer, NEW v \in Values
  PROVE  /\ Written(r, v) \in Buffer
         /\ Written(r, v).refcnt = r.refcnt /\ Written(r, v).blockno = r.blockno
         /\ Written(r, v).valid = r.valid /\ Written(r, v).dirty = TRUE /\ Written(r, v).data = v
BY DEF Buffer, Written

LEMMA DoneFields ==
  ASSUME NEW r \in Buffer, NEW d \in Values \union {Zero}
  PROVE  /\ Done(r, d) \in Buffer
         /\ Done(r, d).refcnt = r.refcnt /\ Done(r, d).blockno = r.blockno
         /\ Done(r, d).valid = TRUE /\ Done(r, d).dirty = FALSE /\ Done(r, d).data = d
BY DEF Buffer, Done

LEMMA FieldTypes ==
  ASSUME NEW r \in Buffer
  PROVE  /\ r.blockno \in Blocks \union {NoBlock} /\ r.refcnt \in Int /\ r.valid \in BOOLEAN
         /\ r.dirty \in BOOLEAN /\ r.data \in Values \union {Zero}
BY DEF Buffer

(* What a step that neither writes nor changes owners leaves alone: the    *)
(* dirty buffers, the contents of the others, and who owns which block.    *)
SameContents ==
  \A j \in Buf :
    /\ buf'[j].dirty = buf[j].dirty
    /\ buf[j].dirty => buf'[j].data = buf[j].data /\ buf'[j].blockno = buf[j].blockno
    /\ (buf'[j].valid /\ ~buf'[j].dirty) =>
          buf[j].valid /\ buf'[j].data = buf[j].data /\ buf'[j].blockno = buf[j].blockno
SameHolders ==
  \A u \in Users : /\ pc'[u] \in Owning <=> pc[u] \in Owning
                   /\ pc[u] \in Owning => buf'[mine'[u]].blockno = buf[mine[u]].blockno

-----------------------------------------------------------------------------
(* Steps that leave the users, the owners, the queue or the pinned buffers *)
(* as they are.                                                            *)

LEMMA SameSharers ==
  ASSUME ShareInv, mine' = mine,
         \A u \in Users : pc'[u] = "user" <=> pc[u] = "user",
         \A i \in Buf : buf'[i].refcnt = buf[i].refcnt /\ buf'[i].blockno = buf[i].blockno,
         mine \in [Users -> Buf]
  PROVE  ShareInv'
<1>1. \A i \in Buf : Sharers(i)' = Sharers(i)
  BY DEF Sharers
<1>2. \A i \in Buf : (buf[i].refcnt = Cardinality(Sharers(i)))'
  <2> TAKE i \in Buf
  <2>1. buf[i].refcnt = Cardinality(Sharers(i))
    BY DEF ShareInv
  <2> QED
    BY <2>1, <1>1
<1>3. \A u \in Users : mine[u] \in Buf
  OBVIOUS
<1> QED
  BY SMTT(30), <1>2, <1>3 DEF ShareInv

LEMMA SameOwners ==
  ASSUME LockInv, lock' = lock,
         \A u \in Users : pc'[u] \in Owning <=> pc[u] \in Owning,
         \A u \in Users : pc[u] \in Owning => mine'[u] = mine[u],
         \A u \in Users : pc'[u] = "locksleep" => lock[mine'[u]].locked
  PROVE  LockInv'
BY SMTT(30) DEF LockInv, Owns, holdingsleep

LEMMA SameQueue ==
  ASSUME QueueInv, idequeue \in Seq(Buf), idequeue' = idequeue, controller' = controller,
         \A u \in Users : pc'[u] = "iosleep" <=> pc[u] = "iosleep",
         \A u \in Users : pc[u] = "iosleep" =>
            /\ mine'[u] = mine[u]
            /\ buf'[mine[u]].dirty = buf[mine[u]].dirty
            /\ buf'[mine[u]].blockno = buf[mine[u]].blockno
            /\ buf'[mine[u]].data = buf[mine[u]].data
  PROVE  QueueInv'
<1>1. idequeue # <<>> => controller = idestart(Head(idequeue), buf')
  <2> HAVE idequeue # <<>>
  <2>1. 1 \in 1 .. Len(idequeue) /\ Head(idequeue) = idequeue[1]
    BY SMTT(30)
  <2>2. PICK u \in Users : mine[u] = Head(idequeue) /\ pc[u] = "iosleep"
    BY SMTT(30), <2>1 DEF QueueInv
  <2> QED
    BY SMTT(30), <2>2 DEF QueueInv, idestart
<1>2. \A u \in Users : pc'[u] = "iosleep" => Queued(mine[u])'
  BY SMTT(30) DEF QueueInv, Queued
<1>3. \A k \in 1 .. Len(idequeue) : \E u \in Users : mine'[u] = idequeue[k] /\ pc'[u] = "iosleep"
  BY SMTT(30) DEF QueueInv
<1> QED
  BY SMTT(30), <1>1, <1>2, <1>3 DEF QueueInv

LEMMA FewerPinned ==
  ASSUME PinInv, Pinned' \subseteq Pinned
  PROVE  PinInv'
<1>1. Pinned \subseteq Buf
  BY DEF Pinned
<1>2. Cardinality(Pinned') <= Cardinality(Pinned)
  BY <1>1, FiniteBuffers, FS_Subset
<1>3. Pinned' \subseteq Buf
  BY DEF Pinned
<1>4. Cardinality(Pinned) \in Nat /\ Cardinality(Pinned') \in Nat
  BY <1>1, <1>3, FiniteBuffers
<1> QED
  BY SMTT(30), <1>2, <1>4, BufferAssumption DEF PinInv

-----------------------------------------------------------------------------
(* The sleep lock *)

LEMMA LockSleepKeeps ==
  ASSUME CacheInv, NEW t \in Users, LockSleep(t)
  PROVE  CacheInv'
<1> USE DEF LockSleep, At, Goto, CacheInv
<1>1. /\ pc[t] = "acquiresleep" /\ pc \in [Users -> Places] /\ pc' = [pc EXCEPT ![t] = "locksleep"]
      /\ mine \in [Users -> Buf] /\ lock[mine[t]].locked
      /\ UNCHANGED <<buf, lru, lock, idequeue, controller, disk, mine, bufHalt>>
  BY DEF BufTypeOK
<1>2. \A u \in Users : pc'[u] = IF u = t THEN "locksleep" ELSE pc[u]
  BY <1>1
<1>3. BufTypeOK'
  BY <1>1 DEF BufTypeOK, Places
<1>4. ShareInv'
  BY <1>1, <1>2, SameSharers
<1>5. LockInv'
  BY <1>1, <1>2, SameOwners DEF Owning, LockInv
<1>6. QueueInv'
  BY <1>1, <1>2, SameQueue DEF BufTypeOK
<1>7. FlagInv'
  BY <1>1, <1>2 DEF FlagInv
<1>8. Pinned' \subseteq Pinned
  BY <1>1, <1>2 DEF Pinned
<1> QED
  BY <1>3, <1>4, <1>5, <1>6, <1>7, <1>8, FewerPinned

LEMMA AcquireKeeps ==
  ASSUME CacheInv, NEW t \in Users, acquiresleep(t)
  PROVE  CacheInv'
<1> DEFINE i == mine[t]
<1> DEFINE to == IF buf[i].valid THEN "hold" ELSE "iderw"
<1>1. /\ pc[t] = "acquiresleep" /\ pc \in [Users -> Places] /\ pc' = [pc EXCEPT ![t] = to]
      /\ mine \in [Users -> Buf] /\ i \in Buf /\ ~lock[i].locked
      /\ lock' = [lock EXCEPT ![i] = [locked |-> TRUE, pid |-> Pid[t]]]
      /\ UNCHANGED <<buf, lru, idequeue, controller, disk, mine, bufHalt>>
  BY DEF BufTypeOK, acquiresleep, At, Goto, CacheInv
<1>2. \A u \in Users : pc'[u] = IF u = t THEN to ELSE pc[u]
  BY <1>1
<1>3. BufTypeOK'
  <2>1. [locked |-> TRUE, pid |-> Pid[t]] \in SleepLock /\ to \in Places
    BY DEF SleepLock, Places
  <2> QED
    BY <2>1, <1>1 DEF BufTypeOK, CacheInv
<1>4. ShareInv'
  BY <1>1, <1>2, SameSharers DEF CacheInv
<1>5. LockInv'
  <2>1. \A j \in Buf : lock'[j] = IF j = i THEN [locked |-> TRUE, pid |-> Pid[t]] ELSE lock[j]
    BY <1>1 DEF BufTypeOK, CacheInv
  <2>2. \A u \in Users : mine[u] = i => pc[u] \notin Owning
    BY <1>1 DEF CacheInv, LockInv, holdingsleep
  <2>3. \A u \in Users : pc'[u] \in Owning <=> (u = t \/ pc[u] \in Owning)
    BY <1>1, <1>2 DEF Owning
  <2>4. \A u \in Users : pc'[u] = "locksleep" => lock'[mine[u]].locked
    BY SMTT(30), <1>1, <1>2, <2>1 DEF CacheInv, LockInv
  <2>5. \A u \in Users : pc'[u] \in Owning => lock'[mine[u]].locked /\ lock'[mine[u]].pid = Pid[u]
    BY SMTT(30), <1>1, <2>1, <2>2, <2>3 DEF CacheInv, LockInv, holdingsleep
  <2>6. \A j \in Buf : lock'[j].locked => \E u \in Users : mine[u] = j /\ pc'[u] \in Owning
    BY SMTT(30), <1>1, <2>1, <2>3 DEF CacheInv, LockInv, Owns
  <2>7. \A u, v \in Users : (pc'[u] \in Owning /\ pc'[v] \in Owning /\ mine[u] = mine[v]) => u = v
    BY <2>2, <2>3 DEF CacheInv, LockInv
  <2> QED
    BY <1>1, <2>4, <2>5, <2>6, <2>7 DEF LockInv, holdingsleep, Owns
<1>6. QueueInv'
  BY <1>1, <1>2, SameQueue DEF BufTypeOK, CacheInv
<1>7. FlagInv'
  BY <1>1, <1>2 DEF FlagInv, CacheInv
<1>8. Pinned' \subseteq Pinned
  BY <1>1, <1>2 DEF Pinned
<1> QED
  BY <1>3, <1>4, <1>5, <1>6, <1>7, <1>8, FewerPinned DEF CacheInv

LEMMA ReleaseKeeps ==
  ASSUME CacheInv, NEW t \in Users, releasesleep(t)
  PROVE  CacheInv' /\ bufHalt' = FALSE
<1> DEFINE i == mine[t]
<1>1. /\ pc[t] = "hold" /\ pc \in [Users -> Places]
      /\ mine \in [Users -> Buf] /\ i \in Buf
      /\ lock' = [lock EXCEPT ![i] = [locked |-> FALSE, pid |-> 0]]
      /\ UNCHANGED <<buf, lru, idequeue, controller, disk, mine>>
  BY DEF BufTypeOK, releasesleep, At, CacheInv
<1>2. \A u \in Users : pc'[u] = IF u = t THEN "brelse"
                            ELSE IF pc[u] = "locksleep" /\ mine[u] = i THEN "acquiresleep" ELSE pc[u]
  BY DEF releasesleep
<1>3. pc' \in [Users -> Places]
  BY <1>1 DEF releasesleep, Places
<1>4. bufHalt' = FALSE
  BY <1>1 DEF releasesleep, LockInv, CacheInv, Owning
<1>5. BufTypeOK'
  <2>1. [locked |-> FALSE, pid |-> 0] \in SleepLock
    BY DEF SleepLock
  <2> QED
    BY <2>1, <1>1, <1>3, <1>4 DEF BufTypeOK, CacheInv
<1>6. ShareInv'
  BY <1>1, <1>2, SameSharers DEF CacheInv
<1>7. LockInv'
  <2>1. \A j \in Buf : lock'[j] = IF j = i THEN [locked |-> FALSE, pid |-> 0] ELSE lock[j]
    BY <1>1 DEF BufTypeOK, CacheInv
  <2>2. \A u \in Users : (mine[u] = i /\ pc[u] \in Owning) => u = t
    BY <1>1 DEF CacheInv, LockInv, Owning
  <2>3. \A u \in Users : pc'[u] \in Owning <=> (u # t /\ pc[u] \in Owning)
    BY <1>1, <1>2 DEF Owning
  <2>4. \A u \in Users : pc'[u] = "locksleep" => lock'[mine[u]].locked
    BY <1>1, <1>2, <2>1 DEF CacheInv, LockInv
  <2>5. \A u \in Users : pc'[u] \in Owning => lock'[mine[u]].locked /\ lock'[mine[u]].pid = Pid[u]
    BY SMTT(30), <1>1, <2>1, <2>2, <2>3 DEF CacheInv, LockInv, holdingsleep
  <2>6. \A j \in Buf : lock'[j].locked => \E u \in Users : mine[u] = j /\ pc'[u] \in Owning
    BY SMTT(30), <1>1, <2>1, <2>3 DEF CacheInv, LockInv, Owns
  <2>7. \A u, v \in Users : (pc'[u] \in Owning /\ pc'[v] \in Owning /\ mine[u] = mine[v]) => u = v
    BY <2>2, <2>3 DEF CacheInv, LockInv
  <2> QED
    BY <1>1, <2>4, <2>5, <2>6, <2>7 DEF LockInv, holdingsleep, Owns
<1>8. QueueInv'
  <2>1. \A u \in Users : pc'[u] = "iosleep" <=> pc[u] = "iosleep"
    BY <1>1, <1>2
  <2> QED
    BY <1>1, <2>1, SameQueue DEF BufTypeOK, CacheInv
<1>9. FlagInv'
  BY SMTT(30), <1>1, <1>2 DEF FlagInv, CacheInv
<1>10. Pinned' \subseteq Pinned
  BY <1>1, <1>2 DEF Pinned
<1> QED
  BY <1>4, <1>5, <1>6, <1>7, <1>8, <1>9, <1>10, FewerPinned DEF CacheInv

-----------------------------------------------------------------------------
(* bget *)

(* bget finds the block or takes a buffer nobody uses. *)
LEMMA GetKeeps ==
  ASSUME CacheInv, NEW t \in Users, NEW i \in Buf, pc[t] = "user",
         pc' = [pc EXCEPT ![t] = "acquiresleep"], mine' = [mine EXCEPT ![t] = i],
         UNCHANGED <<lru, lock, idequeue, controller, disk, bufHalt>>,
         BufTypeOK', \A j \in Buf : j # i => buf'[j] = buf[j],
         buf'[i].refcnt = buf[i].refcnt + 1, buf'[i].blockno # NoBlock,
         \/ /\ buf'[i].blockno = buf[i].blockno /\ buf'[i].valid = buf[i].valid
            /\ buf'[i].dirty = buf[i].dirty /\ buf'[i].data = buf[i].data
         \/ /\ Sharers(i) = {} /\ ~buf'[i].dirty
            /\ \A j \in Buf : buf[j].blockno # buf'[i].blockno
  PROVE  CacheInv' /\ SameHolders
<1>1. /\ pc \in [Users -> Places] /\ mine \in [Users -> Buf]
  BY DEF BufTypeOK, CacheInv
<1>2. \A u \in Users : /\ pc'[u] = IF u = t THEN "acquiresleep" ELSE pc[u]
                       /\ mine'[u] = IF u = t THEN i ELSE mine[u]
                       /\ mine[u] \in Buf /\ mine'[u] \in Buf
  BY <1>1
<1>3. \A u \in Users : (pc[u] # "user" /\ mine[u] = i) =>
            /\ buf'[i].blockno = buf[i].blockno /\ buf'[i].valid = buf[i].valid
            /\ buf'[i].dirty = buf[i].dirty /\ buf'[i].data = buf[i].data
  BY DEF Sharers
<1>4. ShareInv'
  <2>1. \A j \in Buf : Sharers(j)' = IF j = i THEN Sharers(i) \union {t} ELSE Sharers(j)
    BY SMTT(30), <1>2 DEF Sharers
  <2>2. t \notin Sharers(i)
    BY DEF Sharers
  <2>3. Cardinality(Sharers(i) \union {t}) = Cardinality(Sharers(i)) + 1
    BY <2>2, FiniteSharers, FS_AddElement
  <2>4. \A j \in Buf : buf[j].refcnt = Cardinality(Sharers(j))
    BY DEF CacheInv, ShareInv
  <2>5. \A j \in Buf : buf'[j].refcnt = Cardinality(Sharers(j)')
    <3> TAKE j \in Buf
    <3>1. CASE j = i
      BY <3>1, <2>1, <2>3, <2>4
    <3>2. CASE j # i
      BY <3>2, <2>1, <2>4
    <3> QED
      BY <3>1, <3>2
  <2>6. \A u \in Users : pc'[u] # "user" => buf'[mine'[u]].blockno # NoBlock
    BY SMTT(30), <1>2, <1>3 DEF CacheInv, ShareInv
  <2>7. \A j, k \in Buf : (buf'[j].blockno = buf'[k].blockno /\ j # k) => buf'[j].blockno = NoBlock
    BY SMTT(30) DEF CacheInv, ShareInv
  <2> QED
    BY <2>5, <2>6, <2>7 DEF ShareInv
<1>5. LockInv'
  <2>1. \A u \in Users : pc'[u] \in Owning <=> pc[u] \in Owning
    BY SMTT(30), <1>2 DEF Owning
  <2>2. \A u \in Users : pc[u] \in Owning => mine'[u] = mine[u]
    BY <1>2 DEF Owning
  <2>3. \A u \in Users : pc'[u] = "locksleep" => lock[mine'[u]].locked
    BY SMTT(30), <1>2 DEF CacheInv, LockInv
  <2> QED
    BY <2>1, <2>2, <2>3, SameOwners DEF CacheInv
<1>6. QueueInv'
  <2>1. \A u \in Users : pc'[u] = "iosleep" <=> pc[u] = "iosleep"
    BY SMTT(30), <1>2
  <2>2. \A u \in Users : pc[u] = "iosleep" =>
            /\ mine'[u] = mine[u]
            /\ buf'[mine[u]].dirty = buf[mine[u]].dirty
            /\ buf'[mine[u]].blockno = buf[mine[u]].blockno
            /\ buf'[mine[u]].data = buf[mine[u]].data
    BY <1>2, <1>3
  <2> QED
    BY <2>1, <2>2, SameQueue DEF CacheInv, BufTypeOK
<1>7. FlagInv'
  <2>1. \A j \in Buf : buf'[j].dirty => buf'[j].valid
    BY DEF CacheInv, FlagInv
  <2> QED
    BY SMTT(30), <2>1, <1>2, <1>3 DEF CacheInv, FlagInv
<1>8. Pinned' \subseteq Pinned
  <2>1. \A j \in Buf : buf'[j].dirty => buf[j].dirty
    OBVIOUS
  <2> QED
    BY SMTT(30), <2>1, <1>2 DEF Pinned
<1>9. SameHolders
  <2>1. \A u \in Users : pc'[u] \in Owning <=> pc[u] \in Owning
    BY SMTT(30), <1>2 DEF Owning
  <2>2. \A u \in Users : pc[u] \in Owning => u # t /\ pc[u] # "user"
    BY DEF Owning
  <2>3. \A u \in Users : pc[u] \in Owning => buf'[mine'[u]].blockno = buf[mine[u]].blockno
    BY SMTT(30), <2>2, <1>2, <1>3
  <2> QED
    BY <2>1, <2>3 DEF SameHolders
<1> QED
  BY <1>4, <1>5, <1>6, <1>7, <1>8, <1>9, FewerPinned DEF CacheInv

LEMMA HitKeeps ==
  ASSUME CacheInv, NEW t \in Users, NEW b \in Blocks, BgetHit(t, b)
  PROVE  CacheInv' /\ bufHalt' = bufHalt /\ disk' = disk /\ SameContents /\ SameHolders
<1>1. PICK i \in Cached(b) : buf' = [buf EXCEPT ![i].refcnt = @ + 1] /\ mine' = [mine EXCEPT ![t] = i]
  BY DEF BgetHit
<1>2. i \in Buf /\ buf[i].blockno = b
  BY <1>1 DEF Cached
<1>3. /\ pc[t] = "user" /\ pc' = [pc EXCEPT ![t] = "acquiresleep"]
      /\ UNCHANGED <<lru, lock, idequeue, controller, disk, bufHalt>>
  BY DEF BgetHit, At, Goto
<1>4. /\ buf \in [Buf -> Buffer] /\ buf[i] \in Buffer /\ buf[i].refcnt + 1 \in Int
      /\ buf' = [buf EXCEPT ![i] = Counted(buf[i], buf[i].refcnt + 1)]
  <2>1. buf \in [Buf -> Buffer] /\ buf[i] \in Buffer
    BY <1>2 DEF CacheInv, BufTypeOK
  <2>2. buf[i].refcnt + 1 \in Int
    BY SMTT(30), <2>1, FieldTypes
  <2> QED
    BY <1>1, <2>1, <2>2 DEF Counted
<1>5. /\ buf' \in [Buf -> Buffer] /\ \A j \in Buf : j # i => buf'[j] = buf[j]
      /\ buf'[i].refcnt = buf[i].refcnt + 1 /\ buf'[i].blockno = buf[i].blockno
      /\ buf'[i].valid = buf[i].valid /\ buf'[i].dirty = buf[i].dirty /\ buf'[i].data = buf[i].data
  BY <1>2, <1>4, CountedFields
<1>6. BufTypeOK'
  <2>1. "acquiresleep" \in Places
    BY DEF Places
  <2> QED
    BY <2>1, <1>1, <1>2, <1>3, <1>5 DEF CacheInv, BufTypeOK
<1>7. buf'[i].blockno # NoBlock
  BY <1>2, <1>5, UserAssumption
<1>8. SameContents
  BY <1>5 DEF SameContents
<1> QED
  BY <1>1, <1>2, <1>3, <1>5, <1>6, <1>7, <1>8, GetKeeps

(* Some buffer is the first unused one from the tail of the list. *)
LEMMA VictimUnused ==
  ASSUME BufTypeOK, \E i \in Buf : Unused(i)
  PROVE  Victim \in Buf /\ Unused(Victim)
<1> DEFINE Free == {m \in Nat : NBUF - m \in Buf /\ Unused(lru[NBUF - m])}
<1> DEFINE Last(k) == Unused(lru[k]) /\ \A j \in k + 1 .. NBUF : ~Unused(lru[j])
<1>1. PICK k \in Buf : Unused(lru[k])
  BY DEF BufTypeOK
<1>2. NBUF - k \in Nat /\ NBUF - (NBUF - k) = k
  BY SMTT(30), BufferAssumption DEF Buf
<1>3. NBUF - k \in Free
  BY <1>1, <1>2
<1>4. PICK m \in Free : \A n \in Free : ~(<<n, m>> \in OpToRel(<, Nat))
  BY <1>3, NatLessThanWellFounded, WFMin
<1>5. \A n \in Free : ~(n < m)
  BY <1>4 DEF OpToRel
<1>6. m \in Nat /\ NBUF - m \in Buf /\ Unused(lru[NBUF - m])
  BY <1>4
<1>7. Last(NBUF - m)
  <2>1. ASSUME NEW j \in (NBUF - m) + 1 .. NBUF, Unused(lru[j]) PROVE FALSE
    <3>1. /\ NBUF - j \in Nat /\ NBUF - (NBUF - j) = j /\ j \in Buf /\ NBUF - j < m
      BY SMTT(30), <1>6, BufferAssumption DEF Buf
    <3>2. NBUF - j \in Free
      BY <2>1, <3>1
    <3> QED
      BY <3>1, <3>2, <1>5
  <2> QED
    BY <1>6, <2>1
<1>8. \E p \in Buf : Last(p)
  BY <1>6, <1>7
<1>9. (CHOOSE p \in Buf : Last(p)) \in Buf /\ Last(CHOOSE p \in Buf : Last(p))
  BY <1>8
<1> QED
  BY <1>9 DEF Victim, BufTypeOK

LEMMA RecycleKeeps ==
  ASSUME CacheInv, NEW t \in Users, NEW b \in Blocks, BgetRecycle(t, b)
  PROVE  CacheInv' /\ disk' = disk /\ SameContents /\ SameHolders
<1> DEFINE i == Victim
<1>1. /\ pc[t] = "user" /\ Cached(b) = {}
      /\ UNCHANGED <<lru, lock, idequeue, controller, disk>>
  BY DEF BgetRecycle, At
<1>2. CASE ~\E j \in Buf : Unused(j)
  <2>1. bufHalt' = TRUE /\ UNCHANGED <<buf, mine, pc, lru, lock, idequeue, controller, disk>>
    BY <1>2, <1>1 DEF BgetRecycle
  <2>2. BufTypeOK'
    BY <2>1 DEF CacheInv, BufTypeOK
  <2>3. ShareInv'
    BY <2>1 DEF CacheInv, ShareInv, Sharers
  <2>4. LockInv'
    BY <2>1 DEF CacheInv, LockInv, Owns, holdingsleep
  <2>5. QueueInv'
    BY <2>1 DEF CacheInv, QueueInv, Queued, idestart
  <2>6. FlagInv' /\ PinInv'
    BY <2>1 DEF CacheInv, FlagInv, PinInv, Pinned
  <2>7. disk' = disk /\ SameContents /\ SameHolders
    BY <2>1 DEF SameContents, SameHolders
  <2> QED
    BY <2>2, <2>3, <2>4, <2>5, <2>6, <2>7 DEF CacheInv
<1>3. CASE \E j \in Buf : Unused(j)
  <2>1. i \in Buf /\ Unused(i)
    BY <1>3, VictimUnused DEF CacheInv
  <2> HIDE DEF i
  <2>2. /\ buf' = [buf EXCEPT ![i] = Recycled(buf[i], b)]
        /\ mine' = [mine EXCEPT ![t] = i] /\ pc' = [pc EXCEPT ![t] = "acquiresleep"] /\ UNCHANGED bufHalt
    BY <1>3, <2>1 DEF BgetRecycle, Goto, Recycled, i
  <2>3. buf \in [Buf -> Buffer] /\ buf[i] \in Buffer
    BY <2>1 DEF CacheInv, BufTypeOK
  <2>4. /\ buf' \in [Buf -> Buffer] /\ \A j \in Buf : j # i => buf'[j] = buf[j]
        /\ buf'[i].refcnt = 1 /\ buf'[i].blockno = b /\ buf'[i].dirty = FALSE /\ buf'[i].valid = FALSE
    BY <2>1, <2>2, <2>3, RecycledFields
  <2>5. BufTypeOK'
    <3>1. "acquiresleep" \in Places
      BY DEF Places
    <3> QED
      BY <3>1, <1>1, <2>1, <2>2, <2>4 DEF CacheInv, BufTypeOK
  <2>6. buf[i].refcnt = 0 /\ buf[i].refcnt = Cardinality(Sharers(i))
    BY <2>1 DEF Unused, CacheInv, ShareInv
  <2>7. Sharers(i) = {}
    BY <2>6, FiniteSharers, FS_EmptySet
  <2>8. \A j \in Buf : buf[j].blockno # b
    BY <1>1 DEF Cached
  <2>9. buf'[i].refcnt = buf[i].refcnt + 1
    BY SMTT(30), <2>4, <2>6
  <2>10. buf[i].dirty = FALSE
    BY <2>1, <2>3, FieldTypes DEF Unused
  <2>11. SameContents
    BY <2>4, <2>10 DEF SameContents
  <2>12. buf'[i].blockno # NoBlock
    BY <2>4, UserAssumption
  <2>13. CacheInv' /\ SameHolders
    BY ZenonT(30), <1>1, <2>1, <2>2, <2>4, <2>5, <2>7, <2>8, <2>9, <2>12, GetKeeps
  <2> QED
    BY <1>1, <2>11, <2>13
<1> QED
  BY <1>2, <1>3

-----------------------------------------------------------------------------
(* brelse and the writers *)

LEMMA FrontKeepsAll ==
  ASSUME BufTypeOK, NEW i \in Buf
  PROVE  MoveToFront(i) \in [Buf -> Buf] /\ \A j \in Buf : \E k \in Buf : MoveToFront(i)[k] = j
<1> DEFINE p == CHOOSE p \in Buf : lru[p] = i
<1> DEFINE f == [k \in Buf |-> IF k = 1 THEN i ELSE IF k <= p THEN lru[k - 1] ELSE lru[k]]
<1>1. p \in Buf /\ lru[p] = i
  BY DEF BufTypeOK
<1>2. lru \in [Buf -> Buf] /\ \A j \in Buf : \E k \in Buf : lru[k] = j
  BY DEF BufTypeOK
<1>3. MoveToFront(i) = f
  BY DEF MoveToFront
<1> HIDE DEF p
<1>4. f \in [Buf -> Buf]
  <2>1. \A k \in Buf : k # 1 => k - 1 \in Buf
    BY SMTT(30), BufferAssumption DEF Buf
  <2> QED
    BY <1>2, <2>1
<1>5. ASSUME NEW j \in Buf PROVE \E k \in Buf : f[k] = j
  <2>1. PICK k \in Buf : lru[k] = j
    BY <1>2
  <2>2. 1 \in Buf /\ f[1] = i
    BY SMTT(30), BufferAssumption DEF Buf
  <2>3. CASE k = p
    BY <2>1, <2>2, <2>3, <1>1
  <2>4. CASE k < p
    <3>1. k + 1 \in Buf /\ f[k + 1] = lru[k]
      BY SMTT(30), <1>1, <2>4, BufferAssumption DEF Buf
    <3> QED
      BY <2>1, <3>1
  <2>5. CASE k > p
    <3>1. f[k] = lru[k]
      BY SMTT(30), <1>1, <2>5, BufferAssumption DEF Buf
    <3> QED
      BY <2>1, <3>1
  <2> QED
    BY SMTT(30), <1>1, <2>3, <2>4, <2>5, BufferAssumption DEF Buf
<1> QED
  BY <1>3, <1>4, <1>5

LEMMA BrelseKeeps ==
  ASSUME CacheInv, NEW t \in Users, brelse(t)
  PROVE  CacheInv' /\ bufHalt' = bufHalt /\ disk' = disk /\ SameContents /\ SameHolders
<1> DEFINE i == mine[t]
<1>1. /\ pc[t] = "brelse" /\ pc' = [pc EXCEPT ![t] = "user"] /\ mine' = [mine EXCEPT ![t] = 1]
      /\ pc \in [Users -> Places] /\ mine \in [Users -> Buf] /\ i \in Buf
      /\ buf \in [Buf -> Buffer] /\ buf[i] \in Buffer
      /\ lru' = IF buf[i].refcnt = 1 THEN MoveToFront(i) ELSE lru
      /\ UNCHANGED <<lock, idequeue, controller, disk, bufHalt>>
  BY DEF BufTypeOK, brelse, At, Goto, CacheInv
<1>2. buf' = [buf EXCEPT ![i] = Counted(buf[i], buf[i].refcnt - 1)]
  BY DEF brelse, Counted
<1>3. buf[i].refcnt - 1 \in Int
  BY SMTT(30), <1>1, FieldTypes
<1>4. /\ buf' \in [Buf -> Buffer] /\ \A j \in Buf : j # i => buf'[j] = buf[j]
      /\ buf'[i].refcnt = buf[i].refcnt - 1 /\ buf'[i].blockno = buf[i].blockno
      /\ buf'[i].valid = buf[i].valid /\ buf'[i].dirty = buf[i].dirty /\ buf'[i].data = buf[i].data
  BY <1>1, <1>2, <1>3, CountedFields
<1>5. \A j \in Buf : /\ buf'[j].blockno = buf[j].blockno
                     /\ buf'[j].valid = buf[j].valid /\ buf'[j].dirty = buf[j].dirty /\ buf'[j].data = buf[j].data
  BY <1>4
<1>6. \A u \in Users : /\ pc'[u] = IF u = t THEN "user" ELSE pc[u]
                       /\ mine'[u] = IF u = t THEN 1 ELSE mine[u]
                       /\ mine[u] \in Buf
  BY <1>1
<1>7. BufTypeOK'
  <2>1. "user" \in Places /\ 1 \in Buf
    BY SMTT(30), BufferAssumption DEF Places, Buf
  <2>2. lru' \in [Buf -> Buf] /\ \A j \in Buf : \E k \in Buf : lru'[k] = j
    <3>1. lru \in [Buf -> Buf] /\ \A j \in Buf : \E k \in Buf : lru[k] = j
      BY DEF CacheInv, BufTypeOK
    <3>2. CASE lru' = lru
      BY <3>1, <3>2
    <3>3. CASE lru' = MoveToFront(i)
      <4>1. BufTypeOK /\ i \in Buf
        BY <1>1 DEF CacheInv
      <4> HIDE DEF i
      <4> QED
        BY <3>3, <4>1, FrontKeepsAll
    <3> QED
      BY <1>1, <3>2, <3>3
  <2> QED
    BY <2>1, <2>2, <1>1, <1>4 DEF CacheInv, BufTypeOK
<1>8. ShareInv'
  <2>1. \A j \in Buf : Sharers(j)' = IF j = i THEN Sharers(i) \ {t} ELSE Sharers(j)
    BY <1>6 DEF Sharers
  <2>2. t \in Sharers(i)
    BY <1>1 DEF Sharers
  <2>3. Cardinality(Sharers(i) \ {t}) = Cardinality(Sharers(i)) - 1
    BY <2>2, FiniteSharers, FS_RemoveElement
  <2>4. \A j \in Buf : buf[j].refcnt = Cardinality(Sharers(j))
    BY DEF CacheInv, ShareInv
  <2>5. \A j \in Buf : buf'[j].refcnt = Cardinality(Sharers(j)')
    BY <1>1, <1>4, <2>1, <2>3, <2>4
  <2>6. \A u \in Users : pc'[u] # "user" => buf'[mine'[u]].blockno # NoBlock
    BY SMTT(30), <1>5, <1>6 DEF CacheInv, ShareInv
  <2>7. \A j, k \in Buf : (buf'[j].blockno = buf'[k].blockno /\ j # k) => buf'[j].blockno = NoBlock
    BY SMTT(30), <1>5 DEF CacheInv, ShareInv
  <2> QED
    BY <2>5, <2>6, <2>7 DEF ShareInv
<1>9. LockInv'
  <2>1. \A u \in Users : pc'[u] \in Owning <=> pc[u] \in Owning
    BY <1>1, <1>6 DEF Owning
  <2>2. \A u \in Users : pc[u] \in Owning => mine'[u] = mine[u]
    BY <1>1, <1>6 DEF Owning
  <2>3. \A u \in Users : pc'[u] = "locksleep" => lock[mine'[u]].locked
    BY <1>6 DEF CacheInv, LockInv
  <2> QED
    BY <1>1, <2>1, <2>2, <2>3, SameOwners DEF CacheInv
<1>10. QueueInv'
  <2>1. \A u \in Users : pc'[u] = "iosleep" <=> pc[u] = "iosleep"
    BY <1>1, <1>6
  <2>2. \A u \in Users : pc[u] = "iosleep" => mine'[u] = mine[u]
    BY <1>1, <1>6
  <2> QED
    BY <1>1, <1>5, <1>6, <2>1, <2>2, SameQueue DEF CacheInv, BufTypeOK
<1>11. FlagInv'
  BY SMTT(30), <1>5, <1>6 DEF CacheInv, FlagInv
<1>12. Pinned' \subseteq Pinned
  BY <1>1, <1>5, <1>6 DEF Pinned
<1>13. SameContents
  BY <1>5 DEF SameContents
<1>14. SameHolders
  <2>1. \A u \in Users : pc'[u] \in Owning <=> pc[u] \in Owning
    BY <1>1, <1>6 DEF Owning
  <2>2. \A u \in Users : pc[u] \in Owning => mine'[u] = mine[u]
    BY <1>1, <1>6 DEF Owning
  <2> QED
    BY SMTT(30), <2>1, <2>2, <1>5, <1>6 DEF SameHolders
<1> QED
  BY <1>1, <1>7, <1>8, <1>9, <1>10, <1>11, <1>12, <1>13, <1>14, FewerPinned DEF CacheInv

(* bwrite and log_write change the buffer their caller holds. *)
LEMMA WriteKeeps ==
  ASSUME CacheInv, NEW t \in Users, NEW v \in Values, pc[t] = "hold",
         buf' = [buf EXCEPT ![mine[t]] = Written(buf[mine[t]], v)],
         pc' = pc \/ pc' = [pc EXCEPT ![t] = "iderw"],
         bufHalt' \in BOOLEAN, UNCHANGED <<lru, lock, idequeue, controller, disk, mine>>
  PROVE  /\ BufTypeOK' /\ ShareInv' /\ LockInv' /\ QueueInv' /\ FlagInv'
         /\ holdingsleep(t)
         /\ \A j \in Buf : /\ j # mine[t] => buf'[j] = buf[j]
                           /\ buf'[j].blockno = buf[j].blockno /\ buf'[j].valid = buf[j].valid
         /\ buf'[mine[t]].dirty = TRUE /\ buf'[mine[t]].data = v
<1> DEFINE i == mine[t]
<1>1. /\ pc \in [Users -> Places] /\ mine \in [Users -> Buf] /\ i \in Buf
      /\ buf \in [Buf -> Buffer] /\ buf[i] \in Buffer
  BY DEF BufTypeOK, CacheInv
<1>2. /\ buf' \in [Buf -> Buffer] /\ \A j \in Buf : j # i => buf'[j] = buf[j]
      /\ buf'[i].refcnt = buf[i].refcnt /\ buf'[i].blockno = buf[i].blockno
      /\ buf'[i].valid = buf[i].valid /\ buf'[i].dirty = TRUE /\ buf'[i].data = v
  BY <1>1, WrittenFields
<1>3. \A j \in Buf : buf'[j].refcnt = buf[j].refcnt /\ buf'[j].blockno = buf[j].blockno /\ buf'[j].valid = buf[j].valid
  BY <1>2
<1>4. \A u \in Users : (u # t => pc'[u] = pc[u]) /\ (u = t => pc'[u] \in {"hold", "iderw"}) /\ mine[u] \in Buf
  BY <1>1
<1>5. "hold" \in Owning /\ "iderw" \in Owning /\ "iderw" \in Places
  BY DEF Owning, Places
<1>6. \A u \in Users : (pc[u] \in Owning /\ mine[u] = i) => u = t
  BY <1>5 DEF CacheInv, LockInv
<1>7. BufTypeOK'
  <2>1. pc' \in [Users -> Places]
    BY <1>1, <1>5
  <2> QED
    BY <2>1, <1>2 DEF CacheInv, BufTypeOK
<1>8. ShareInv'
  <2>1. \A u \in Users : pc'[u] = "user" <=> pc[u] = "user"
    BY <1>4
  <2> QED
    BY <2>1, <1>1, <1>3, SameSharers DEF CacheInv
<1>9. LockInv'
  <2>1. \A u \in Users : pc'[u] \in Owning <=> pc[u] \in Owning
    BY <1>4, <1>5
  <2>2. \A u \in Users : pc'[u] = "locksleep" => lock[mine[u]].locked
    BY <1>4 DEF CacheInv, LockInv
  <2> QED
    BY <2>1, <2>2, SameOwners DEF CacheInv
<1>10. QueueInv'
  <2>1. \A u \in Users : pc'[u] = "iosleep" <=> pc[u] = "iosleep"
    BY <1>4
  <2>2. \A u \in Users : pc[u] = "iosleep" => mine[u] # i
    BY <1>6 DEF Owning
  <2>3. \A u \in Users : pc[u] = "iosleep" => buf'[mine[u]] = buf[mine[u]]
    BY <2>2, <1>2, <1>4
  <2> QED
    BY <2>1, <2>3, SameQueue DEF CacheInv, BufTypeOK
<1>11. FlagInv'
  <2>1. buf[i].valid
    BY DEF CacheInv, FlagInv
  <2>2. \A j \in Buf : buf'[j].dirty => buf'[j].valid
    BY <1>2, <1>3, <2>1 DEF CacheInv, FlagInv
  <2>3. ASSUME NEW u \in Users
        PROVE  /\ pc'[u] = "iderw" => (buf'[mine[u]].valid => buf'[mine[u]].dirty)
               /\ pc'[u] \in {"iowake", "hold"} => buf'[mine[u]].valid
               /\ pc'[u] = "iowake" => ~buf'[mine[u]].dirty
    <3>1. CASE u = t
      BY <3>1, <1>2, <1>3, <1>4, <2>1
    <3>2. CASE u # t
      <4>1. pc[u] \in {"iderw", "iowake", "hold"} => buf'[mine[u]] = buf[mine[u]]
        BY <3>2, <1>2, <1>4, <1>6 DEF Owning
      <4> QED
        BY <3>2, <4>1, <1>4 DEF CacheInv, FlagInv
    <3> QED
      BY <3>1, <3>2
  <2> QED
    BY <2>2, <2>3 DEF FlagInv
<1>12. holdingsleep(t)
  BY <1>5 DEF CacheInv, LockInv
<1> QED
  BY <1>2, <1>3, <1>7, <1>8, <1>9, <1>10, <1>11, <1>12

LEMMA BwriteKeeps ==
  ASSUME CacheInv, NEW t \in Users, NEW v \in Values, bwrite(t, v)
  PROVE  CacheInv' /\ bufHalt' = FALSE
<1>1. /\ pc[t] = "hold" /\ pc' = [pc EXCEPT ![t] = "iderw"] /\ bufHalt' = ~holdingsleep(t)
      /\ buf' = [buf EXCEPT ![mine[t]] = Written(buf[mine[t]], v)]
      /\ UNCHANGED <<lru, lock, idequeue, controller, disk, mine>>
  BY DEF bwrite, At, Goto, Written
<1>2. bufHalt' \in BOOLEAN
  BY <1>1
<1>3. /\ BufTypeOK' /\ ShareInv' /\ LockInv' /\ QueueInv' /\ FlagInv' /\ holdingsleep(t)
      /\ \A j \in Buf : j # mine[t] => buf'[j] = buf[j]
  BY <1>1, <1>2, WriteKeeps
<1>4. pc'[t] = "iderw" /\ \A u \in Users : u # t => pc'[u] = pc[u]
  BY <1>1 DEF CacheInv, BufTypeOK
<1>5. Pinned' \subseteq Pinned
  BY <1>1, <1>3, <1>4 DEF Pinned
<1> QED
  BY <1>1, <1>3, <1>5, FewerPinned DEF CacheInv

LEMMA LogWriteKeeps ==
  ASSUME CacheInv, NEW t \in Users, NEW v \in Values, log_write(t, v)
  PROVE  CacheInv' /\ bufHalt' = bufHalt
<1>1. /\ pc[t] = "hold" /\ pc' = pc /\ bufHalt' = bufHalt
      /\ buf' = [buf EXCEPT ![mine[t]] = Written(buf[mine[t]], v)]
      /\ Cardinality(Pinned \union {mine[t]}) <= MaxPinned
      /\ UNCHANGED <<lru, lock, idequeue, controller, disk, mine>>
  BY DEF log_write, At, Written
<1>2. bufHalt' \in BOOLEAN /\ mine[t] \in Buf
  BY <1>1 DEF CacheInv, BufTypeOK
<1>3. /\ BufTypeOK' /\ ShareInv' /\ LockInv' /\ QueueInv' /\ FlagInv'
      /\ \A j \in Buf : j # mine[t] => buf'[j] = buf[j]
  BY <1>1, <1>2, WriteKeeps
<1>4. Pinned' \subseteq Pinned \union {mine[t]}
  BY <1>1, <1>3 DEF Pinned
<1>5. Pinned \union {mine[t]} \subseteq Buf /\ Pinned' \subseteq Buf
  BY <1>2 DEF Pinned
<1>6. Cardinality(Pinned') <= Cardinality(Pinned \union {mine[t]})
  BY <1>4, <1>5, FiniteBuffers, FS_Subset
<1>7. Cardinality(Pinned') \in Nat /\ Cardinality(Pinned \union {mine[t]}) \in Nat
  BY <1>5, FiniteBuffers
<1>8. PinInv'
  BY SMTT(30), <1>1, <1>6, <1>7, BufferAssumption DEF PinInv
<1> QED
  BY <1>1, <1>3, <1>8 DEF CacheInv

-----------------------------------------------------------------------------
(* The disk *)

LEMMA IoDoneKeeps ==
  ASSUME CacheInv, NEW t \in Users, IoDone(t)
  PROVE  CacheInv' /\ bufHalt' = bufHalt
<1>1. pc[t] = "iowake" /\ UNCHANGED <<buf, lru, lock, idequeue, controller, disk, mine, bufHalt>>
  BY DEF IoDone, At
<1>2. buf[mine[t]].valid /\ ~buf[mine[t]].dirty
  BY <1>1 DEF CacheInv, FlagInv
<1>3. /\ pc' = [pc EXCEPT ![t] = "hold"] /\ pc \in [Users -> Places] /\ mine \in [Users -> Buf]
  BY <1>2 DEF IoDone, Goto, CacheInv, BufTypeOK
<1>4. \A u \in Users : pc'[u] = IF u = t THEN "hold" ELSE pc[u]
  BY <1>3
<1>5. BufTypeOK'
  <2>1. "hold" \in Places
    BY DEF Places
  <2> QED
    BY <2>1, <1>1, <1>3 DEF CacheInv, BufTypeOK
<1>6. ShareInv'
  <2>1. \A u \in Users : pc'[u] = "user" <=> pc[u] = "user"
    BY <1>1, <1>4
  <2> QED
    BY <2>1, <1>1, <1>3, SameSharers DEF CacheInv
<1>7. LockInv'
  BY <1>1, <1>4, SameOwners DEF CacheInv, LockInv, Owning
<1>8. QueueInv'
  <2>1. \A u \in Users : pc'[u] = "iosleep" <=> pc[u] = "iosleep"
    BY <1>1, <1>4
  <2> QED
    BY <2>1, <1>1, SameQueue DEF CacheInv, BufTypeOK
<1>9. FlagInv'
  BY <1>1, <1>2, <1>4 DEF CacheInv, FlagInv
<1>10. Pinned' \subseteq Pinned
  BY <1>1, <1>2, <1>4 DEF Pinned
<1> QED
  BY <1>1, <1>5, <1>6, <1>7, <1>8, <1>9, <1>10, FewerPinned DEF CacheInv

LEMMA IderwKeeps ==
  ASSUME CacheInv, NEW t \in Users, iderw(t)
  PROVE  CacheInv' /\ bufHalt' = FALSE
<1> DEFINE i == mine[t]
<1>1. /\ pc[t] = "iderw" /\ pc' = [pc EXCEPT ![t] = "iosleep"]
      /\ idequeue' = Append(idequeue, i)
      /\ controller' = IF idequeue = <<>> THEN idestart(i, buf) ELSE controller
      /\ UNCHANGED <<buf, lru, lock, disk, mine>>
  BY DEF iderw, At, Goto
<1>2. /\ pc \in [Users -> Places] /\ mine \in [Users -> Buf] /\ i \in Buf /\ idequeue \in Seq(Buf)
  BY DEF CacheInv, BufTypeOK
<1>3. \A u \in Users : pc'[u] = IF u = t THEN "iosleep" ELSE pc[u]
  BY <1>1, <1>2
<1>4. "iderw" \in Owning /\ "iosleep" \in Owning /\ "iosleep" \in Places
  BY DEF Owning, Places
<1>5. bufHalt' = FALSE
  <2>1. holdingsleep(t) /\ ~(buf[i].valid /\ ~buf[i].dirty)
    BY <1>1, <1>4 DEF CacheInv, LockInv, FlagInv
  <2> QED
    BY <2>1 DEF iderw
<1>6. BufTypeOK'
  <2>1. idequeue' \in Seq(Buf)
    BY SMTT(30), <1>1, <1>2
  <2> QED
    BY <2>1, <1>1, <1>2, <1>4, <1>5 DEF CacheInv, BufTypeOK
<1>7. ShareInv'
  <2>1. \A u \in Users : pc'[u] = "user" <=> pc[u] = "user"
    BY SMTT(30), <1>1, <1>3
  <2> QED
    BY <2>1, <1>1, <1>2, SameSharers DEF CacheInv
<1>8. LockInv'
  <2>1. \A u \in Users : pc'[u] \in Owning <=> pc[u] \in Owning
    BY <1>1, <1>3, <1>4
  <2>2. \A u \in Users : pc'[u] = "locksleep" => lock[mine[u]].locked
    BY <1>3 DEF CacheInv, LockInv
  <2> QED
    BY <2>1, <2>2, <1>1, SameOwners DEF CacheInv
<1>9. QueueInv'
  <2> DEFINE n == Len(idequeue)
  <2>1. /\ n \in Nat /\ Len(idequeue') = n + 1 /\ idequeue'[n + 1] = i
        /\ \A k \in 1 .. n : idequeue'[k] = idequeue[k]
        /\ 1 .. n + 1 = (1 .. n) \union {n + 1} /\ n + 1 \notin 1 .. n
    BY SMTT(30), <1>1, <1>2
  <2>2. \A k \in 1 .. n : idequeue[k] # i
    <3>1. ASSUME NEW k \in 1 .. n, idequeue[k] = i PROVE FALSE
      <4>1. PICK u \in Users : mine[u] = i /\ pc[u] = "iosleep"
        BY <3>1 DEF CacheInv, QueueInv
      <4>2. u = t
        BY <4>1, <1>1, <1>4 DEF CacheInv, LockInv
      <4> QED
        BY <4>1, <4>2, <1>1
    <3> QED
      BY <3>1
  <2>3. \A j, k \in 1 .. n + 1 : idequeue'[j] = idequeue'[k] => j = k
    BY SMTT(30), <2>1, <2>2 DEF CacheInv, QueueInv
  <2>4. \A u \in Users : pc'[u] = "iosleep" => \E k \in 1 .. n + 1 : idequeue'[k] = mine[u]
    <3> TAKE u \in Users
    <3> HAVE pc'[u] = "iosleep"
    <3>1. CASE u = t
      BY <3>1, <2>1
    <3>2. CASE u # t
      <4>1. PICK k \in 1 .. n : idequeue[k] = mine[u]
        BY <3>2, <1>3 DEF CacheInv, QueueInv, Queued
      <4>2. k \in 1 .. n + 1 /\ idequeue'[k] = mine[u]
        BY <4>1, <2>1
      <4> QED
        BY <4>2
    <3> QED
      BY <3>1, <3>2
  <2>5. \A k \in 1 .. n + 1 : \E u \in Users : mine[u] = idequeue'[k] /\ pc'[u] = "iosleep"
    BY SMTT(30), <2>1, <1>3 DEF CacheInv, QueueInv
  <2>6. controller' = idestart(Head(idequeue'), buf)
    <3>1. CASE idequeue = <<>>
      <4>1. Head(idequeue') = i
        BY SMTT(30), <1>1, <1>2, <3>1
      <4> QED
        BY <1>1, <3>1, <4>1
    <3>2. CASE idequeue # <<>>
      <4>1. Head(idequeue') = Head(idequeue)
        BY SMTT(30), <1>1, <1>2, <3>2
      <4> QED
        BY <1>1, <3>2, <4>1 DEF CacheInv, QueueInv
    <3> QED
      BY <3>1, <3>2
  <2>7. (controller = idestart(Head(idequeue), buf))'
    BY <1>1, <2>6 DEF idestart
  <2>8. \A u \in Users : pc'[u] = "iosleep" => Queued(mine[u])'
    BY <2>1, <2>4, <1>1 DEF Queued
  <2> QED
    BY SMTT(30), <2>1, <2>3, <2>5, <2>7, <2>8, <1>1 DEF QueueInv
<1>10. FlagInv'
  BY SMTT(30), <1>1, <1>3 DEF CacheInv, FlagInv
<1>11. Pinned' \subseteq Pinned
  BY <1>1, <1>3 DEF Pinned
<1> QED
  BY <1>5, <1>6, <1>7, <1>8, <1>9, <1>10, <1>11, FewerPinned DEF CacheInv

LEMMA IdeintrKeeps ==
  ASSUME CacheInv, ideintr
  PROVE  /\ CacheInv' /\ bufHalt' = bufHalt /\ SameHolders
         /\ \E i \in Buf, ok \in ReadOutcomes :
              /\ buf[i].blockno \in Blocks
              /\ disk' = IF buf[i].dirty THEN [disk EXCEPT ![buf[i].blockno] = buf[i].data] ELSE disk
              /\ buf' = [buf EXCEPT ![i] = Done(buf[i],
                          IF ~buf[i].dirty /\ ok THEN disk[buf[i].blockno] ELSE buf[i].data)]
<1> DEFINE i == Head(idequeue)
<1> DEFINE n == Len(idequeue)
<1>1. /\ idequeue # <<>> /\ idequeue' = Tail(idequeue)
      /\ disk' = IF controller.op = "write" THEN [disk EXCEPT ![controller.block] = controller.data] ELSE disk
      /\ controller' = IF Tail(idequeue) = <<>> THEN Idle ELSE idestart(Head(Tail(idequeue)), buf)
      /\ \A u \in Users : pc'[u] = IF pc[u] = "iosleep" /\ mine[u] = i THEN "iowake" ELSE pc[u]
      /\ UNCHANGED <<lru, lock, mine, bufHalt>>
  BY DEF ideintr
<1>2. /\ n \in Nat /\ idequeue' \in Seq(Buf) /\ Len(idequeue') = n - 1 /\ i \in Buf
      /\ 1 \in 1 .. n /\ idequeue[1] = i
      /\ \A k \in 1 .. n - 1 : k + 1 \in 1 .. n /\ k + 1 # 1 /\ idequeue'[k] = idequeue[k + 1]
      /\ \A k \in 1 .. n : k # 1 => k - 1 \in 1 .. n - 1 /\ (k - 1) + 1 = k
      /\ \A j, k \in 1 .. n - 1 : j + 1 = k + 1 => j = k
  <2>1. idequeue \in Seq(Buf)
    BY DEF CacheInv, BufTypeOK
  <2> QED
    BY SMTT(30), <1>1, <2>1
<1>3. \A j, k \in 1 .. n : idequeue[j] = idequeue[k] => j = k
  BY DEF CacheInv, QueueInv
<1>4. PICK t \in Users : mine[t] = i /\ pc[t] = "iosleep"
  <2>1. \A k \in 1 .. n : \E t \in Users : mine[t] = idequeue[k] /\ pc[t] = "iosleep"
    BY DEF CacheInv, QueueInv
  <2> HIDE DEF i
  <2> QED
    BY <2>1, <1>2
<1>5. "iosleep" \in Owning /\ "iowake" \in Owning /\ "iowake" \in Places
  BY DEF Owning, Places
<1>6. \A u \in Users : (pc[u] \in Owning /\ mine[u] = i) => u = t
  BY <1>4, <1>5 DEF CacheInv, LockInv
<1>7. controller = idestart(i, buf)
  BY <1>1 DEF CacheInv, QueueInv
<1>8. /\ buf \in [Buf -> Buffer] /\ buf[i] \in Buffer /\ disk \in [Blocks -> Values \union {Zero}]
      /\ pc \in [Users -> Places] /\ mine \in [Users -> Buf]
  BY <1>2 DEF CacheInv, BufTypeOK
<1>9. buf[i].blockno \in Blocks
  <2>1. pc[t] # "user"
    BY <1>4
  <2> QED
    BY <2>1, <1>4, <1>8, FieldTypes DEF CacheInv, ShareInv
<1>10. /\ controller.block = buf[i].blockno /\ controller.data = buf[i].data
       /\ controller.op = "write" <=> buf[i].dirty
  BY <1>7 DEF idestart
<1>11. PICK ok \in ReadOutcomes :
         buf' = [buf EXCEPT ![i] = Done(buf[i],
                   IF ~buf[i].dirty /\ ok THEN disk[buf[i].blockno] ELSE buf[i].data)]
  BY <1>10 DEF ideintr, Done
<1>12. /\ buf' \in [Buf -> Buffer] /\ \A j \in Buf : j # i => buf'[j] = buf[j]
       /\ buf'[i].refcnt = buf[i].refcnt /\ buf'[i].blockno = buf[i].blockno
       /\ buf'[i].valid = TRUE /\ buf'[i].dirty = FALSE
  <2> DEFINE d == IF ~buf[i].dirty /\ ok THEN disk[buf[i].blockno] ELSE buf[i].data
  <2>1. d \in Values \union {Zero}
    BY <1>8, <1>9, FieldTypes
  <2>2. buf' = [buf EXCEPT ![i] = Done(buf[i], d)]
    BY <1>11
  <2> HIDE DEF d
  <2> QED
    BY ZenonT(30), <1>2, <1>8, <2>1, <2>2, DoneFields
<1> HIDE DEF i
<1>13. BufTypeOK'
  <2>1. disk' \in [Blocks -> Values \union {Zero}]
    BY <1>1, <1>8, <1>9, <1>10, FieldTypes
  <2>2. pc' = [u \in Users |-> IF pc[u] = "iosleep" /\ mine[u] = i THEN "iowake" ELSE pc[u]]
    BY DEF ideintr, i
  <2>3. pc' \in [Users -> Places]
    BY <1>5, <1>8, <2>2
  <2> QED
    BY <2>1, <2>3, <1>1, <1>2, <1>12 DEF CacheInv, BufTypeOK
<1>14. ShareInv'
  <2>1. \A u \in Users : pc'[u] = "user" <=> pc[u] = "user"
    BY <1>1
  <2>2. \A j \in Buf : buf'[j].refcnt = buf[j].refcnt /\ buf'[j].blockno = buf[j].blockno
    BY <1>12
  <2> QED
    BY <2>1, <2>2, <1>1, <1>8, SameSharers DEF CacheInv
<1>15. LockInv'
  <2>1. \A u \in Users : pc'[u] \in Owning <=> pc[u] \in Owning
    BY <1>1, <1>5
  <2>2. \A u \in Users : pc'[u] = "locksleep" => lock[mine[u]].locked
    BY <1>1 DEF CacheInv, LockInv
  <2> QED
    BY <2>1, <2>2, <1>1, SameOwners DEF CacheInv
<1>16. QueueInv'
  <2>1. ASSUME NEW j \in 1 .. n - 1, NEW k \in 1 .. n - 1, idequeue'[j] = idequeue'[k] PROVE j = k
    <3>1. j + 1 \in 1 .. n /\ k + 1 \in 1 .. n /\ idequeue[j + 1] = idequeue[k + 1]
      BY <2>1, <1>2
    <3>2. j + 1 = k + 1
      BY <3>1, <1>3
    <3> QED
      BY <3>2, <1>2
  <2>2. ASSUME NEW u \in Users, pc'[u] = "iosleep" PROVE \E k \in 1 .. n - 1 : idequeue'[k] = mine[u]
    <3>1. pc[u] = "iosleep" /\ mine[u] # i
      BY <1>1, <2>2
    <3>2. PICK k \in 1 .. n : idequeue[k] = mine[u]
      BY <3>1 DEF CacheInv, QueueInv, Queued
    <3>3. k # 1
      BY <3>1, <3>2, <1>2
    <3>4. k - 1 \in 1 .. n - 1 /\ (k - 1) + 1 = k
      BY <3>3, <1>2
    <3>5. idequeue'[k - 1] = idequeue[k]
      BY <3>4, <1>2
    <3> QED
      BY <3>2, <3>4, <3>5
  <2>3. ASSUME NEW k \in 1 .. n - 1 PROVE \E u \in Users : mine[u] = idequeue'[k] /\ pc'[u] = "iosleep"
    <3>1. PICK u \in Users : mine[u] = idequeue[k + 1] /\ pc[u] = "iosleep"
      BY <1>2 DEF CacheInv, QueueInv
    <3>2. mine[u] # i
      BY <3>1, <1>2, <1>3
    <3> QED
      BY <3>1, <3>2, <1>1, <1>2
  <2>4. ASSUME idequeue' # <<>> PROVE controller' = idestart(Head(idequeue'), buf')
    <3>1. 1 \in 1 .. n - 1 /\ Head(idequeue') = idequeue'[1]
      BY SMTT(30), <1>2, <2>4
    <3>2. Head(idequeue') \in Buf /\ Head(idequeue') # i
      BY SMTT(30), <3>1, <1>2, <1>3
    <3>3. controller' = idestart(Head(idequeue'), buf)
      BY <1>1, <2>4
    <3>4. buf'[Head(idequeue')] = buf[Head(idequeue')]
      BY <3>2, <1>12
    <3> QED
      BY <3>3, <3>4 DEF idestart
  <2>5. \A u \in Users : pc'[u] = "iosleep" => Queued(mine[u])'
    BY <2>2, <1>1, <1>2 DEF Queued
  <2>6. (\A k \in 1 .. Len(idequeue) : \E u \in Users : mine[u] = idequeue[k] /\ pc[u] = "iosleep")'
    <3>1. Len(idequeue') = n - 1 /\ mine' = mine
      BY <1>1, <1>2
    <3> QED
      BY <2>3, <3>1
  <2>7. (\A j, k \in 1 .. Len(idequeue) : idequeue[j] = idequeue[k] => j = k)'
    BY <2>1, <1>2
  <2>8. (idequeue # <<>> => controller = idestart(Head(idequeue), buf))'
    BY <2>4 DEF idestart
  <2> QED
    BY <2>5, <2>6, <2>7, <2>8 DEF QueueInv
<1>17. FlagInv'
  <2>1. \A j \in Buf : buf'[j].dirty => buf'[j].valid
    BY <1>12 DEF CacheInv, FlagInv
  <2>2. ASSUME NEW u \in Users
        PROVE  /\ pc'[u] = "iderw" => (buf'[mine[u]].valid => buf'[mine[u]].dirty)
               /\ pc'[u] \in {"iowake", "hold"} => buf'[mine[u]].valid
               /\ pc'[u] = "iowake" => ~buf'[mine[u]].dirty
    <3>1. CASE u = t
      BY <3>1, <1>1, <1>4, <1>12
    <3>2. CASE u # t
      <4>1. pc[u] \in {"iderw", "iowake", "hold"} => mine[u] \in Buf /\ mine[u] # i
        BY <3>2, <1>6, <1>8 DEF Owning
      <4>2. pc[u] = "iosleep" => mine[u] # i
        BY <3>2, <1>5, <1>6
      <4>3. pc'[u] = pc[u]
        BY <1>1, <4>2
      <4> QED
        BY <4>1, <4>3, <1>12 DEF CacheInv, FlagInv
    <3> QED
      BY <3>1, <3>2
  <2> QED
    BY <2>1, <2>2, <1>1 DEF FlagInv
<1>18. Pinned' \subseteq Pinned
  <2>1. \A j \in Buf : buf'[j].dirty => j # i /\ buf[j].dirty
    BY <1>12
  <2> QED
    BY <2>1, <1>1 DEF Pinned
<1>19. SameHolders
  <2>1. \A u \in Users : pc'[u] \in Owning <=> pc[u] \in Owning
    BY <1>1, <1>5
  <2>2. \A j \in Buf : buf'[j].blockno = buf[j].blockno
    BY <1>12
  <2> QED
    BY <2>1, <2>2, <1>1, <1>8 DEF SameHolders
<1>20. disk' = IF buf[i].dirty THEN [disk EXCEPT ![buf[i].blockno] = buf[i].data] ELSE disk
  BY <1>1, <1>10
<1>21. CacheInv' /\ bufHalt' = bufHalt
  BY <1>1, <1>13, <1>14, <1>15, <1>16, <1>17, <1>18, FewerPinned DEF CacheInv
<1> QED
  BY <1>2, <1>9, <1>11, <1>19, <1>20, <1>21

-----------------------------------------------------------------------------
(* The invariant *)

LEMMA CacheInit == BufInit => CacheInv
<1> SUFFICES ASSUME BufInit PROVE CacheInv
  OBVIOUS
<1>1. /\ \A i \in Buf : buf[i].blockno = NoBlock /\ buf[i].refcnt = 0 /\ buf[i].valid = FALSE /\ buf[i].dirty = FALSE
      /\ \A i \in Buf : lock[i].locked = FALSE
      /\ \A t \in Users : pc[t] = "user"
  BY DEF BufInit
<1>2. BufTypeOK
  <2>1. buf \in [Buf -> Buffer]
    <3>1. [blockno |-> NoBlock, refcnt |-> 0, valid |-> FALSE, dirty |-> FALSE, data |-> Zero] \in Buffer
      BY SMTT(30) DEF Buffer
    <3> QED
      BY <3>1 DEF BufInit
  <2>2. \A i \in Buf : NBUF + 1 - i \in Buf /\ NBUF + 1 - (NBUF + 1 - i) = i
    BY SMTT(30), BufferAssumption DEF Buf
  <2>3. lru = [i \in Buf |-> NBUF + 1 - i]
    BY DEF BufInit
  <2>4. lru \in [Buf -> Buf] /\ \A i \in Buf : \E k \in Buf : lru[k] = i
    BY <2>2, <2>3
  <2>5. [locked |-> FALSE, pid |-> 0] \in SleepLock /\ "user" \in Places /\ 1 \in Buf /\ <<>> \in Seq(Buf)
    BY SMTT(30), BufferAssumption DEF SleepLock, Places, Buf
  <2> QED
    BY <2>1, <2>4, <2>5 DEF BufTypeOK, BufInit
<1>3. ShareInv
  <2>1. \A i \in Buf : Sharers(i) = {}
    BY <1>1 DEF Sharers
  <2> QED
    BY <1>1, <2>1, FS_EmptySet DEF ShareInv
<1>4. LockInv
  BY <1>1 DEF LockInv, Owning
<1>5. QueueInv
  <2>1. idequeue = <<>> /\ 1 .. Len(idequeue) = {}
    BY SMTT(30) DEF BufInit
  <2>2. \A t \in Users : pc[t] # "iosleep"
    BY <1>1
  <2> QED
    BY <2>1, <2>2 DEF QueueInv
<1>6. FlagInv
  BY <1>1 DEF FlagInv
<1>7. PinInv
  <2>1. Pinned = {}
    BY <1>1 DEF Pinned
  <2>2. Cardinality(Pinned) = 0
    BY <2>1, FS_EmptySet
  <2> QED
    BY SMTT(30), <2>2, BufferAssumption DEF PinInv
<1> QED
  BY <1>2, <1>3, <1>4, <1>5, <1>6, <1>7 DEF CacheInv

LEMMA CacheNext == CacheInv /\ [BufNext]_bufVars => CacheInv'
<1> SUFFICES ASSUME CacheInv, [BufNext]_bufVars PROVE CacheInv'
  OBVIOUS
<1>1. ASSUME NEW t \in Users, BufStep(t) PROVE CacheInv'
  BY <1>1, LockSleepKeeps, AcquireKeeps, ReleaseKeeps, BrelseKeeps, IderwKeeps, IoDoneKeeps DEF BufStep
<1>2. ASSUME NEW t \in Users, NEW b \in Blocks, bget(t, b) PROVE CacheInv'
  BY <1>2, HitKeeps, RecycleKeeps DEF bget
<1>3. ASSUME NEW t \in Users, NEW v \in Values, bwrite(t, v) \/ log_write(t, v) PROVE CacheInv'
  BY <1>3, BwriteKeeps, LogWriteKeeps
<1>4. CASE UNCHANGED bufVars
  <2>1. UNCHANGED <<buf, lru, lock, idequeue, controller, disk, pc, mine, bufHalt>>
    BY <1>4 DEF bufVars
  <2>2. BufTypeOK'
    BY <2>1 DEF CacheInv, BufTypeOK
  <2>3. ShareInv'
    BY <2>1 DEF CacheInv, ShareInv, Sharers
  <2>4. LockInv'
    BY <2>1 DEF CacheInv, LockInv, Owns, holdingsleep
  <2>5. QueueInv'
    BY <2>1 DEF CacheInv, QueueInv, Queued, idestart
  <2>6. FlagInv' /\ PinInv'
    BY <2>1 DEF CacheInv, FlagInv, PinInv, Pinned
  <2> QED
    BY <2>2, <2>3, <2>4, <2>5, <2>6 DEF CacheInv
<1> QED
  BY <1>1, <1>2, <1>3, <1>4, IdeintrKeeps DEF BufNext

(* The invariant the other results rest on, for every run of bio.c,        *)
(* sleeplock.c and ide.c: each buffer counts its users, its sleep lock has *)
(* one owner, and the disk queue holds the buffers slept for, once each.   *)
THEOREM CacheInvariant == BufSpec => []CacheInv
<1> QED
  BY CacheInit, CacheNext, PTL DEF BufSpec

LEMMA OwnedFromInv == CacheInv => BufferOwned
<1> SUFFICES ASSUME CacheInv PROVE BufferOwned
  OBVIOUS
<1>1. ASSUME NEW i \in Buf PROVE buf[i].refcnt = Cardinality({t \in Users : mine[t] = i /\ pc[t] # "user"})
  BY DEF CacheInv, ShareInv, Sharers
<1>2. ASSUME NEW i \in Buf PROVE Cardinality(Locker(i)) = IF lock[i].locked THEN 1 ELSE 0
  <2>1. Locker(i) = {t \in Users : mine[t] = i /\ pc[t] \in Owning}
    BY DEF Locker, Owns
  <2>2. CASE lock[i].locked
    <3>1. PICK t \in Users : mine[t] = i /\ pc[t] \in Owning
      BY <2>2 DEF CacheInv, LockInv, Owns
    <3>2. Locker(i) = {t}
      BY <2>1, <3>1 DEF CacheInv, LockInv
    <3> QED
      BY <2>2, <3>2, FS_Singleton
  <2>3. CASE ~lock[i].locked
    <3>1. Locker(i) = {}
      BY <2>1, <2>3 DEF CacheInv, LockInv, holdingsleep
    <3> QED
      BY <2>3, <3>1, FS_EmptySet
  <2> QED
    BY <2>2, <2>3
<1>3. ASSUME NEW i \in Buf
      PROVE  Cardinality({k \in 1 .. Len(idequeue) : idequeue[k] = i})
               = Cardinality({t \in Users : mine[t] = i /\ pc[t] = "iosleep"})
  <2> DEFINE K == {k \in 1 .. Len(idequeue) : idequeue[k] = i}
  <2> DEFINE S == {t \in Users : mine[t] = i /\ pc[t] = "iosleep"}
  <2>1. CASE Queued(i)
    <3>1. PICK k \in 1 .. Len(idequeue) : idequeue[k] = i
      BY <2>1 DEF Queued
    <3>2. K = {k}
      BY <3>1 DEF CacheInv, QueueInv
    <3>3. PICK t \in Users : mine[t] = i /\ pc[t] = "iosleep"
      BY <3>1 DEF CacheInv, QueueInv
    <3>4. "iosleep" \in Owning
      BY DEF Owning
    <3>5. S = {t}
      BY <3>3, <3>4 DEF CacheInv, LockInv
    <3> QED
      BY <3>2, <3>5, FS_Singleton
  <2>2. CASE ~Queued(i)
    <3>1. K = {}
      BY <2>2 DEF Queued
    <3>2. S = {}
      BY <2>2 DEF CacheInv, QueueInv
    <3> QED
      BY <3>1, <3>2
  <2> QED
    BY <2>1, <2>2
<1> QED
  BY <1>1, <1>2, <1>3 DEF BufferOwned, CacheInv, ShareInv, LockInv

(* A buffer is never recycled or changed under anybody's hands: bget,      *)
(* acquiresleep, iderw, ideintr and brelse keep the counts, the locks and  *)
(* the queue exact, whatever the number of buffers, blocks and threads.    *)
THEOREM BuffersOwned == BufSpec => []BufferOwned
<1> QED
  BY CacheInvariant, OwnedFromInv, PTL

-----------------------------------------------------------------------------
(* No panic *)

(* With one buffer for each user besides those the log may keep, bget      *)
(* finds one: the busy buffers are pinned or somebody else's.              *)
LEMMA RoomLeft ==
  ASSUME CacheInv, NEW t \in Users, pc[t] = "user", Cardinality(Users) + MaxPinned <= NBUF
  PROVE  \E i \in Buf : Unused(i)
<1> DEFINE Others == Users \ {t}
<1> DEFINE f == [u \in Others |-> mine[u]]
<1> DEFINE M == {mine[u] : u \in Others}
<1>1. SUFFICES ASSUME \A i \in Buf : ~Unused(i) PROVE FALSE
  OBVIOUS
<1>2. ASSUME NEW i \in Buf PROVE i \in Pinned \union M
  <2>1. ~(buf[i].refcnt = 0 /\ ~buf[i].dirty) /\ buf[i].refcnt = Cardinality(Sharers(i))
    BY <1>1 DEF Unused, CacheInv, ShareInv
  <2>2. CASE Sharers(i) # {}
    <3>1. PICK u \in Users : mine[u] = i /\ pc[u] # "user"
      BY <2>2 DEF Sharers
    <3> QED
      BY <3>1
  <2>3. CASE Sharers(i) = {}
    <3>1. buf[i].dirty
      BY <2>1, <2>3, FS_EmptySet
    <3>2. \A u \in Users : ~(mine[u] = i /\ pc[u] \in {"iderw", "iosleep", "iowake"})
      BY <2>3 DEF Sharers
    <3> QED
      BY <3>1, <3>2 DEF Pinned
  <2> QED
    BY <2>2, <2>3
<1>3. IsFiniteSet(Others) /\ Cardinality(Others) = Cardinality(Users) - 1
  BY FS_RemoveElement, UserAssumption
<1>4. f \in Surjection(Others, M)
  BY DEF Surjection
<1>5. IsFiniteSet(M) /\ Cardinality(M) <= Cardinality(Others)
  BY <1>3, <1>4, FS_Surjection
<1>6. IsFiniteSet(Pinned) /\ Cardinality(Pinned) \in Nat
  BY FiniteBuffers DEF Pinned
<1>7. IsFiniteSet(Pinned \union M) /\ IsFiniteSet(Pinned \cap M)
      /\ Cardinality(Pinned \union M) = Cardinality(Pinned) + Cardinality(M) - Cardinality(Pinned \cap M)
  BY <1>5, <1>6, FS_Union, FS_Intersection
<1>8. Buf \in SUBSET (Pinned \union M)
  BY <1>2
<1>9. Cardinality(Buf) <= Cardinality(Pinned \union M)
  BY <1>7, <1>8, FS_Subset
<1>10. 1 \in Int /\ NBUF \in Int /\ ~(1 > NBUF) /\ NBUF - 1 + 1 = NBUF
  BY SMTT(30), BufferAssumption
<1>11. Cardinality(Buf) = NBUF
  BY <1>10, FS_Interval DEF Buf
<1>12. Cardinality(M) \in Nat /\ Cardinality(Users) \in Nat /\ Cardinality(Pinned \cap M) \in Nat
  BY <1>5, <1>7, FS_CardinalityType, UserAssumption
<1>13. Cardinality(Pinned) <= MaxPinned
  BY DEF CacheInv, PinInv
<1> HIDE DEF M, Others
<1> QED
  BY SMTT(30), <1>3, <1>5, <1>6, <1>7, <1>9, <1>11, <1>12, <1>13, BufferAssumption

(* No step of the cache panics: bget never runs out of buffers while there *)
(* is one for each user besides those the log keeps dirty, and brelse,     *)
(* bwrite and iderw are called with the lock held and work to do.          *)
THEOREM CacheNeverPanics ==
  ASSUME Cardinality(Users) + MaxPinned <= NBUF
  PROVE  BufSpec => []BufNoPanic
<1>1. BufInit => BufNoPanic
  BY DEF BufInit, BufNoPanic
<1>2. CacheInv /\ BufNoPanic /\ [BufNext]_bufVars => BufNoPanic'
  <2> SUFFICES ASSUME CacheInv, BufNoPanic, [BufNext]_bufVars PROVE bufHalt' = FALSE
    BY DEF BufNoPanic
  <2>1. bufHalt = FALSE
    BY DEF BufNoPanic, CacheInv, BufTypeOK
  <2>2. ASSUME NEW t \in Users, BufStep(t) PROVE bufHalt' = FALSE
    BY <2>1, <2>2, ReleaseKeeps, BrelseKeeps, IderwKeeps, IoDoneKeeps DEF BufStep, LockSleep, acquiresleep
  <2>3. ASSUME NEW t \in Users, NEW b \in Blocks, BgetRecycle(t, b) PROVE bufHalt' = FALSE
    <3>1. \E i \in Buf : Unused(i)
      BY <2>3, RoomLeft DEF BgetRecycle, At
    <3> QED
      BY <2>1, <2>3, <3>1 DEF BgetRecycle
  <2>4. ASSUME NEW t \in Users, NEW b \in Blocks, bget(t, b) PROVE bufHalt' = FALSE
    BY <2>1, <2>3, <2>4, HitKeeps DEF bget
  <2>5. ASSUME NEW t \in Users, NEW v \in Values, bwrite(t, v) \/ log_write(t, v) PROVE bufHalt' = FALSE
    BY <2>1, <2>5, BwriteKeeps, LogWriteKeeps
  <2>6. CASE UNCHANGED bufVars
    BY <2>1, <2>6 DEF bufVars
  <2> QED
    BY <2>1, <2>2, <2>4, <2>5, <2>6, IdeintrKeeps DEF BufNext
<1> QED
  BY <1>1, <1>2, CacheInvariant, PTL DEF BufSpec

-----------------------------------------------------------------------------
(* The cache implements BlockStore.  A block's value is that of its dirty  *)
(* buffer, or else what is on the disk.                                    *)

ValueIn(bf, dk, b) ==
  LET current == {i \in {j \in Buf : bf[j].blockno = b} : bf[i].valid \/ bf[i].dirty} IN
  IF current = {} THEN dk[b] ELSE bf[CHOOSE i \in current : TRUE].data

(* ShareInv, FlagInv and CleanInv of these buffers and this disk. *)
Sound(bf, dk) ==
  /\ \A i, j \in Buf : (bf[i].blockno = bf[j].blockno /\ i # j) => bf[i].blockno = NoBlock
  /\ \A i \in Buf : bf[i].dirty => bf[i].valid
  /\ \A i \in Buf : (bf[i].valid /\ ~bf[i].dirty /\ bf[i].blockno # NoBlock) => bf[i].data = dk[bf[i].blockno]

ValueCases(bf, dk, b) ==
  \/ (\A i \in Buf : bf[i].blockno = b => ~bf[i].dirty) /\ ValueIn(bf, dk, b) = dk[b]
  \/ \E i \in Buf : bf[i].blockno = b /\ bf[i].dirty /\ ValueIn(bf, dk, b) = bf[i].data

LEMMA ValueIs ==
  ASSUME NEW bf, NEW dk, NEW b \in Blocks, Sound(bf, dk)
  PROVE  ValueCases(bf, dk, b)
<1> DEFINE current == {i \in {j \in Buf : bf[j].blockno = b} : bf[i].valid \/ bf[i].dirty}
<1> DEFINE c == CHOOSE i \in current : TRUE
<1>1. b # NoBlock
  BY UserAssumption
<1>2. ValueIn(bf, dk, b) = IF current = {} THEN dk[b] ELSE bf[c].data
  BY DEF ValueIn
<1>3. current # {} => c \in current
  OBVIOUS
<1> HIDE DEF c
<1>4. current # {} => c \in Buf /\ bf[c].blockno = b /\ bf[c].valid
  BY <1>3 DEF Sound
<1>5. CASE current = {}
  BY <1>2, <1>5 DEF ValueCases
<1>6. CASE current # {} /\ bf[c].dirty
  BY <1>2, <1>4, <1>6 DEF ValueCases
<1>7. CASE current # {} /\ ~bf[c].dirty
  <2>1. bf[c].data = dk[b]
    BY <1>1, <1>4, <1>7 DEF Sound
  <2>2. \A i \in Buf : bf[i].blockno = b => i = c
    BY <1>1, <1>4, <1>7 DEF Sound
  <2> QED
    BY <2>1, <2>2, <1>2, <1>7 DEF ValueCases
<1> QED
  BY <1>5, <1>6, <1>7

LEMMA InvIsSound == /\ CacheInv /\ CleanInv => Sound(buf, disk)
                    /\ (CacheInv /\ CleanInv)' => Sound(buf', disk')
BY DEF CacheInv, CleanInv, ShareInv, FlagInv, Sound

LEMMA ValueOf ==
  ASSUME NEW b
  PROVE  CurrentValue(b) = ValueIn(buf, disk, b) /\ CurrentValue(b)' = ValueIn(buf', disk', b)
BY DEF CurrentValue, ValueIn, Cached

(* A step that leaves the dirty buffer of a block and its place on the     *)
(* disk alone leaves its value.                                            *)
LEMMA SameValue ==
  ASSUME CacheInv, CleanInv, CacheInv', CleanInv', NEW b \in Blocks, disk'[b] = disk[b],
         \A i \in Buf : (buf'[i].blockno = b /\ buf'[i].dirty) <=> (buf[i].blockno = b /\ buf[i].dirty),
         \A i \in Buf : (buf[i].blockno = b /\ buf[i].dirty) => buf'[i].data = buf[i].data
  PROVE  CurrentValue(b)' = CurrentValue(b)
<1>1. Sound(buf, disk) /\ Sound(buf', disk')
  BY InvIsSound
<1>2. b # NoBlock
  BY UserAssumption
<1>3. ValueCases(buf, disk, b)
  BY <1>1, ValueIs
<1>4. ValueCases(buf', disk', b)
  BY <1>1, ValueIs
<1>5. \A i, j \in Buf : (buf[i].blockno = b /\ buf[j].blockno = b) => i = j
  BY SMTT(30), <1>2 DEF CacheInv, ShareInv
<1>6. ValueIn(buf', disk', b) = ValueIn(buf, disk, b)
  BY <1>3, <1>4, <1>5 DEF ValueCases
<1> QED
  BY <1>6, ValueOf

OneOf(S) == IF S = {} THEN Nobody ELSE CHOOSE t \in S : TRUE
HoldersIn(bf, pcs, mn, b) == {t \in Users : bf[mn[t]].blockno = b /\ pcs[t] \in Owning}

LEMMA HolderIs ==
  ASSUME NEW b
  PROVE  HolderOf(b) = OneOf(HoldersIn(buf, pc, mine, b)) /\ HolderOf(b)' = OneOf(HoldersIn(buf', pc', mine', b))
BY DEF HolderOf, OneOf, HoldersIn

LEMMA SameHolder ==
  ASSUME SameHolders, NEW b
  PROVE  HolderOf(b)' = HolderOf(b)
<1>1. HoldersIn(buf', pc', mine', b) = HoldersIn(buf, pc, mine, b)
  BY DEF SameHolders, HoldersIn
<1> QED
  BY <1>1, HolderIs

LEMMA QuietContents ==
  ASSUME CacheInv, CleanInv, CacheInv', disk' = disk, SameContents
  PROVE  CleanInv' /\ \A b \in Blocks : BlockValues'[b] = BlockValues[b]
<1>1. CleanInv'
  BY DEF SameContents, CleanInv
<1>2. \A b \in Blocks : CurrentValue(b)' = CurrentValue(b)
  <2> TAKE b \in Blocks
  <2>1. \A i \in Buf : (buf'[i].blockno = b /\ buf'[i].dirty) <=> (buf[i].blockno = b /\ buf[i].dirty)
    BY DEF SameContents
  <2>2. \A i \in Buf : (buf[i].blockno = b /\ buf[i].dirty) => buf'[i].data = buf[i].data
    BY DEF SameContents
  <2> QED
    BY <1>1, <2>1, <2>2, SameValue
<1> QED
  BY <1>1, <1>2 DEF BlockValues

LEMMA QuietHolders ==
  ASSUME SameHolders
  PROVE  \A b \in Blocks : BlockHolders'[b] = BlockHolders[b]
BY SameHolder DEF BlockHolders

(* A step that changes one block, as BlockStore allows, and a step that    *)
(* changes none.                                                           *)
LEMMA OneBlock ==
  ASSUME NEW b \in Blocks, NEW t \in Users, Store!Acquire(t, b) \/ Store!Write(t, b) \/ Store!Release(t, b),
         \A c \in Blocks : c # b => BlockValues'[c] = BlockValues[c] /\ BlockHolders'[c] = BlockHolders[c]
  PROVE  [Store!Next]_<<BlockValues, BlockHolders>>
<1> DEFINE changed == {c \in Blocks : BlockValues'[c] # BlockValues[c] \/ BlockHolders'[c] # BlockHolders[c]}
<1>1. CASE b \in changed
  <2>1. changed = {b}
    BY <1>1
  <2> QED
    BY <1>1, <2>1 DEF Store!Next
<1>2. CASE b \notin changed
  <2>1. \A c \in Blocks : BlockValues'[c] = BlockValues[c] /\ BlockHolders'[c] = BlockHolders[c]
    BY <1>2
  <2> QED
    BY <2>1 DEF BlockValues, BlockHolders
<1> QED
  BY <1>1, <1>2

LEMMA NoBlockChanged ==
  ASSUME \A c \in Blocks : BlockValues'[c] = BlockValues[c] /\ BlockHolders'[c] = BlockHolders[c]
  PROVE  [Store!Next]_<<BlockValues, BlockHolders>>
BY DEF BlockValues, BlockHolders

(* A thread that owns the buffer of a block is the one who holds it. *)
LEMMA OwnerIsHolder ==
  ASSUME CacheInv, NEW t \in Users, pc[t] \in Owning
  PROVE  /\ buf[mine[t]].blockno \in Blocks
         /\ HoldersIn(buf, pc, mine, buf[mine[t]].blockno) = {t}
         /\ BlockHolders[buf[mine[t]].blockno] = t
<1> DEFINE b == buf[mine[t]].blockno
<1>1. pc[t] # "user" /\ mine \in [Users -> Buf] /\ buf \in [Buf -> Buffer]
  BY DEF Owning, CacheInv, BufTypeOK
<1>2. b \in Blocks /\ b # NoBlock
  BY <1>1, FieldTypes DEF CacheInv, ShareInv
<1>3. ASSUME NEW u \in Users, buf[mine[u]].blockno = b, pc[u] \in Owning PROVE u = t
  <2>1. mine[u] = mine[t]
    BY <1>1, <1>2, <1>3 DEF CacheInv, ShareInv
  <2> QED
    BY <2>1, <1>3 DEF CacheInv, LockInv
<1>4. HoldersIn(buf, pc, mine, b) = {t}
  BY <1>3 DEF HoldersIn
<1>5. OneOf({t}) = t
  BY DEF OneOf
<1> QED
  BY <1>2, <1>4, <1>5, HolderIs DEF BlockHolders

LEMMA AcquireStep ==
  ASSUME CacheInv, CleanInv, NEW t \in Users, acquiresleep(t)
  PROVE  CleanInv' /\ [Store!Next]_<<BlockValues, BlockHolders>>
<1> DEFINE b == buf[mine[t]].blockno
<1>1. /\ pc[t] = "acquiresleep" /\ ~lock[mine[t]].locked
      /\ pc' = [pc EXCEPT ![t] = IF buf[mine[t]].valid THEN "hold" ELSE "iderw"]
      /\ UNCHANGED <<buf, disk, mine>>
  BY DEF acquiresleep, At, Goto
<1>2. CleanInv' /\ \A c \in Blocks : BlockValues'[c] = BlockValues[c]
  BY <1>1, AcquireKeeps, QuietContents DEF SameContents
<1>3. /\ mine \in [Users -> Buf] /\ buf \in [Buf -> Buffer] /\ pc \in [Users -> Places]
      /\ pc[t] # "user" /\ pc[t] \notin Owning /\ "hold" \in Owning /\ "iderw" \in Owning
  BY <1>1 DEF Owning, CacheInv, BufTypeOK
<1>4. b \in Blocks /\ b # NoBlock
  BY <1>3, FieldTypes DEF CacheInv, ShareInv
<1>5. \A u \in Users : pc'[u] \in Owning <=> (u = t \/ pc[u] \in Owning)
  BY <1>1, <1>3
<1>6. ASSUME NEW u \in Users, buf[mine[u]].blockno = b PROVE pc[u] \notin Owning
  <2>1. mine[u] = mine[t]
    BY <1>3, <1>4, <1>6 DEF CacheInv, ShareInv
  <2> QED
    BY <2>1, <1>1 DEF CacheInv, LockInv, holdingsleep
<1>7. HoldersIn(buf, pc, mine, b) = {} /\ HoldersIn(buf', pc', mine', b) = {t}
  BY <1>1, <1>5, <1>6 DEF HoldersIn
<1>8. \A c \in Blocks : c # b => HoldersIn(buf', pc', mine', c) = HoldersIn(buf, pc, mine, c)
  BY <1>1, <1>5 DEF HoldersIn
<1>9. OneOf({}) = Nobody /\ OneOf({t}) = t
  BY DEF OneOf
<1>10. BlockHolders[b] = Nobody /\ BlockHolders'[b] = t
  BY <1>4, <1>7, <1>9, HolderIs DEF BlockHolders
<1>11. \A c \in Blocks : c # b => BlockHolders'[c] = BlockHolders[c]
  BY <1>8, HolderIs DEF BlockHolders
<1>12. Store!Acquire(t, b)
  BY <1>2, <1>4, <1>10 DEF Store!Acquire
<1> QED
  BY <1>2, <1>4, <1>11, <1>12, OneBlock

LEMMA ReleaseStep ==
  ASSUME CacheInv, CleanInv, NEW t \in Users, releasesleep(t)
  PROVE  CleanInv' /\ [Store!Next]_<<BlockValues, BlockHolders>>
<1> DEFINE b == buf[mine[t]].blockno
<1>1. /\ pc[t] = "hold" /\ UNCHANGED <<buf, disk, mine>>
      /\ \A u \in Users : pc'[u] = IF u = t THEN "brelse"
                             ELSE IF pc[u] = "locksleep" /\ mine[u] = mine[t] THEN "acquiresleep" ELSE pc[u]
  BY DEF releasesleep, At
<1>2. CleanInv' /\ \A c \in Blocks : BlockValues'[c] = BlockValues[c]
  BY <1>1, ReleaseKeeps, QuietContents DEF SameContents
<1>3. pc[t] \in Owning /\ \A u \in Users : pc'[u] \in Owning <=> (u # t /\ pc[u] \in Owning)
  BY <1>1 DEF Owning
<1>4. b \in Blocks /\ HoldersIn(buf, pc, mine, b) = {t} /\ BlockHolders[b] = t
  BY <1>3, OwnerIsHolder
<1>5. HoldersIn(buf', pc', mine', b) = {}
  BY SMTT(30), <1>1, <1>3, <1>4 DEF HoldersIn
<1>6. \A c \in Blocks : c # b => HoldersIn(buf', pc', mine', c) = HoldersIn(buf, pc, mine, c)
  BY <1>1, <1>3 DEF HoldersIn
<1>7. BlockHolders'[b] = Nobody
  BY <1>4, <1>5, HolderIs DEF BlockHolders, OneOf
<1>8. \A c \in Blocks : c # b => BlockHolders'[c] = BlockHolders[c]
  BY <1>6, HolderIs DEF BlockHolders
<1>9. Store!Release(t, b)
  BY <1>2, <1>4, <1>7 DEF Store!Release
<1> QED
  BY <1>2, <1>4, <1>8, <1>9, OneBlock

LEMMA WriteStep ==
  ASSUME CacheInv, CleanInv, NEW t \in Users, NEW v \in Values, bwrite(t, v) \/ log_write(t, v)
  PROVE  CleanInv' /\ [Store!Next]_<<BlockValues, BlockHolders>>
<1> DEFINE i == mine[t]
<1> DEFINE b == buf[i].blockno
<1>1. /\ pc[t] = "hold" /\ (pc' = pc \/ pc' = [pc EXCEPT ![t] = "iderw"])
      /\ buf' = [buf EXCEPT ![i] = Written(buf[i], v)]
      /\ bufHalt' \in BOOLEAN /\ UNCHANGED <<lru, lock, idequeue, controller, disk, mine>>
  BY DEF bwrite, log_write, At, Goto, Written, CacheInv, BufTypeOK
<1>2. /\ \A j \in Buf : /\ j # i => buf'[j] = buf[j]
                        /\ buf'[j].blockno = buf[j].blockno /\ buf'[j].valid = buf[j].valid
      /\ buf'[i].dirty = TRUE /\ buf'[i].data = v
  BY <1>1, WriteKeeps
<1>3. CacheInv'
  BY BwriteKeeps, LogWriteKeeps
<1>4. "hold" \in Owning /\ "iderw" \in Owning /\ mine \in [Users -> Buf] /\ i \in Buf /\ pc \in [Users -> Places]
  BY DEF Owning, CacheInv, BufTypeOK
<1>5. CleanInv'
  BY <1>1, <1>2 DEF CleanInv
<1>6. b \in Blocks /\ BlockHolders[b] = t
  BY <1>1, <1>4, OwnerIsHolder
<1>7. SameHolders
  <2>1. \A u \in Users : pc'[u] \in Owning <=> pc[u] \in Owning
    BY <1>1, <1>4
  <2>2. mine' = mine /\ \A u \in Users : mine[u] \in Buf
    BY <1>1, <1>4
  <2> QED
    BY <2>1, <2>2, <1>2 DEF SameHolders
<1>8. \A c \in Blocks : BlockHolders'[c] = BlockHolders[c]
  BY <1>7, QuietHolders
<1>9. BlockValues'[b] = v
  <2>1. ValueCases(buf', disk', b)
    BY <1>3, <1>5, <1>6, InvIsSound, ValueIs
  <2>2. buf'[i].blockno = b /\ b # NoBlock
    BY <1>2, <1>4, <1>6, UserAssumption
  <2>3. \A j \in Buf : buf'[j].blockno = b => j = i
    BY <2>2, <1>3, <1>4 DEF CacheInv, ShareInv
  <2>4. ValueIn(buf', disk', b) = v
    BY <2>1, <2>2, <2>3, <1>2, <1>4 DEF ValueCases
  <2> QED
    BY <2>4, <1>6, ValueOf DEF BlockValues
<1>10. ASSUME NEW c \in Blocks, c # b PROVE BlockValues'[c] = BlockValues[c]
  <2>1. \A j \in Buf : (buf'[j].blockno = c /\ buf'[j].dirty) <=> (buf[j].blockno = c /\ buf[j].dirty)
    BY <1>2, <1>10
  <2>2. \A j \in Buf : (buf[j].blockno = c /\ buf[j].dirty) => buf'[j].data = buf[j].data
    BY <1>2, <1>10
  <2>3. CurrentValue(c)' = CurrentValue(c)
    BY <2>1, <2>2, <1>1, <1>3, <1>5, SameValue
  <2> QED
    BY <2>3 DEF BlockValues
<1>11. Store!Write(t, b)
  BY <1>6, <1>8, <1>9 DEF Store!Write
<1> QED
  BY <1>5, <1>6, <1>8, <1>10, <1>11, OneBlock

(* The disk's answer moves a value from the buffer to the disk or back. *)
LEMMA IdeintrStep ==
  ASSUME CacheInv, CleanInv, ideintr, ReadOutcomes \subseteq {TRUE}
  PROVE  CleanInv' /\ [Store!Next]_<<BlockValues, BlockHolders>>
<1>1. CacheInv' /\ SameHolders
  BY IdeintrKeeps
<1>2. PICK i \in Buf, ok \in ReadOutcomes :
        /\ buf[i].blockno \in Blocks
        /\ disk' = IF buf[i].dirty THEN [disk EXCEPT ![buf[i].blockno] = buf[i].data] ELSE disk
        /\ buf' = [buf EXCEPT ![i] = Done(buf[i],
                    IF ~buf[i].dirty /\ ok THEN disk[buf[i].blockno] ELSE buf[i].data)]
  BY IdeintrKeeps
<1> DEFINE b == buf[i].blockno
<1> DEFINE d == IF ~buf[i].dirty THEN disk[b] ELSE buf[i].data
<1>3. buf \in [Buf -> Buffer] /\ buf[i] \in Buffer /\ disk \in [Blocks -> Values \union {Zero}]
  BY DEF CacheInv, BufTypeOK
<1>4. d \in Values \union {Zero} /\ buf' = [buf EXCEPT ![i] = Done(buf[i], d)]
  <2>1. ok = TRUE
    BY <1>2
  <2> QED
    BY <2>1, <1>2, <1>3, FieldTypes
<1> HIDE DEF d
<1>5. /\ \A j \in Buf : j # i => buf'[j] = buf[j]
      /\ buf'[i].blockno = b /\ buf'[i].valid = TRUE /\ buf'[i].dirty = FALSE /\ buf'[i].data = d
  BY <1>3, <1>4, DoneFields
<1>6. b # NoBlock /\ \A j \in Buf : buf[j].blockno = b => j = i
  BY <1>2, UserAssumption DEF CacheInv, ShareInv
<1>7. disk'[b] = d /\ \A c \in Blocks : c # b => disk'[c] = disk[c]
  BY <1>2, <1>3 DEF d
<1>8. CleanInv'
  <2>1. ASSUME NEW j \in Buf, buf'[j].valid, ~buf'[j].dirty, buf'[j].blockno # NoBlock
        PROVE  buf'[j].data = disk'[buf'[j].blockno]
    <3>1. CASE j = i
      BY <3>1, <1>5, <1>7
    <3>2. CASE j # i
      <4>1. buf'[j] = buf[j] /\ buf[j].blockno # b
        BY <3>2, <1>5, <1>6
      <4>2. buf[j].blockno \in Blocks
        BY <2>1, <4>1, <1>3, FieldTypes
      <4> QED
        BY <2>1, <4>1, <4>2, <1>7 DEF CleanInv
    <3> QED
      BY <3>1, <3>2
  <2> QED
    BY <2>1 DEF CleanInv
<1>9. ASSUME NEW c \in Blocks PROVE CurrentValue(c)' = CurrentValue(c)
  <2>1. CASE c = b /\ buf[i].dirty
    <3>1. ValueCases(buf, disk, b) /\ ValueCases(buf', disk', b)
      BY <1>1, <1>2, <1>8, InvIsSound, ValueIs
    <3>2. ValueIn(buf, disk, b) = buf[i].data
      BY <2>1, <3>1, <1>6 DEF ValueCases
    <3>3. \A j \in Buf : buf'[j].blockno = b => ~buf'[j].dirty
      BY <1>5, <1>6
    <3>4. ValueIn(buf', disk', b) = disk'[b]
      BY <3>1, <3>3 DEF ValueCases
    <3>5. d = buf[i].data
      BY <2>1 DEF d
    <3> QED
      BY <2>1, <3>2, <3>4, <3>5, <1>7, ValueOf
  <2>2. CASE ~(c = b /\ buf[i].dirty)
    <3>1. disk'[c] = disk[c]
      BY <2>2, <1>2, <1>7 DEF d
    <3>2. \A j \in Buf : (buf'[j].blockno = c /\ buf'[j].dirty) <=> (buf[j].blockno = c /\ buf[j].dirty)
      BY <2>2, <1>5
    <3>3. \A j \in Buf : (buf[j].blockno = c /\ buf[j].dirty) => buf'[j].data = buf[j].data
      BY <2>2, <1>5
    <3> QED
      BY <3>1, <3>2, <3>3, <1>1, <1>8, SameValue
  <2> QED
    BY <2>1, <2>2
<1>10. \A c \in Blocks : BlockValues'[c] = BlockValues[c] /\ BlockHolders'[c] = BlockHolders[c]
  BY <1>1, <1>9, QuietHolders DEF BlockValues
<1> QED
  BY <1>8, <1>10, NoBlockChanged

(* Every other step leaves the blocks as they are. *)
LEMMA QuietStep ==
  ASSUME CacheInv, CleanInv, CacheInv', disk' = disk, SameContents, SameHolders
  PROVE  CleanInv' /\ [Store!Next]_<<BlockValues, BlockHolders>>
BY QuietContents, QuietHolders, NoBlockChanged

LEMMA WaitStep ==
  ASSUME CacheInv, CleanInv, NEW t \in Users, LockSleep(t) \/ iderw(t) \/ IoDone(t)
  PROVE  CleanInv' /\ [Store!Next]_<<BlockValues, BlockHolders>>
<1>1. CacheInv'
  BY LockSleepKeeps, IderwKeeps, IoDoneKeeps
<1>2. /\ UNCHANGED <<buf, disk, mine>> /\ pc \in [Users -> Places]
      /\ \/ pc[t] = "acquiresleep" /\ pc' = [pc EXCEPT ![t] = "locksleep"]
         \/ pc[t] = "iderw" /\ pc' = [pc EXCEPT ![t] = "iosleep"]
         \/ pc[t] = "iowake" /\ (pc' = [pc EXCEPT ![t] = "hold"] \/ pc' = [pc EXCEPT ![t] = "iosleep"])
  BY DEF LockSleep, iderw, IoDone, At, Goto, CacheInv, BufTypeOK
<1>3. \A u \in Users : pc'[u] \in Owning <=> pc[u] \in Owning
  BY <1>2 DEF Owning
<1>4. SameContents /\ SameHolders
  BY <1>2, <1>3 DEF SameContents, SameHolders
<1> QED
  BY <1>1, <1>2, <1>4, QuietStep

(* What bio.c and ide.c promise their callers: bread returns the current   *)
(* value of the block, to one thread at a time, and neither eviction nor   *)
(* the disk queue loses a write, as long as the disk's reads succeed:      *)
(* ideintr sets B_VALID even when a read failed.                           *)
THEOREM CacheIsBlockStore ==
  ASSUME ReadOutcomes \subseteq {TRUE}
  PROVE  BufSpec => BlockStoreSpec
<1>1. BufInit => CleanInv /\ Store!Init
  <2> SUFFICES ASSUME BufInit PROVE CleanInv /\ Store!Init
    OBVIOUS
  <2>1. /\ \A i \in Buf : buf[i].blockno = NoBlock
        /\ disk = [b \in Blocks |-> Zero] /\ \A t \in Users : pc[t] = "user"
    BY DEF BufInit
  <2>2. CleanInv
    BY <2>1 DEF CleanInv
  <2>3. \A b \in Blocks : CurrentValue(b) = Zero
    BY <2>1, UserAssumption DEF CurrentValue, Cached
  <2>4. \A t \in Users : pc[t] \notin Owning
    BY <2>1 DEF Owning
  <2>5. \A b \in Blocks : HolderOf(b) = Nobody
    BY <2>4 DEF HolderOf
  <2> QED
    BY <2>2, <2>3, <2>5 DEF Store!Init, BlockValues, BlockHolders
<1>2. CacheInv /\ CacheInv' /\ CleanInv /\ [BufNext]_bufVars => CleanInv' /\ [Store!Next]_<<BlockValues, BlockHolders>>
  <2> SUFFICES ASSUME CacheInv, CacheInv', CleanInv, [BufNext]_bufVars
               PROVE  CleanInv' /\ [Store!Next]_<<BlockValues, BlockHolders>>
    OBVIOUS
  <2>1. ASSUME NEW t \in Users, BufStep(t) PROVE CleanInv' /\ [Store!Next]_<<BlockValues, BlockHolders>>
    BY <2>1, WaitStep, AcquireStep, ReleaseStep, BrelseKeeps, QuietStep DEF BufStep
  <2>2. ASSUME NEW t \in Users, NEW b \in Blocks, bget(t, b)
        PROVE  CleanInv' /\ [Store!Next]_<<BlockValues, BlockHolders>>
    BY <2>2, HitKeeps, RecycleKeeps, QuietStep DEF bget
  <2>3. ASSUME NEW t \in Users, NEW v \in Values, bwrite(t, v) \/ log_write(t, v)
        PROVE  CleanInv' /\ [Store!Next]_<<BlockValues, BlockHolders>>
    BY <2>3, WriteStep
  <2>4. CASE UNCHANGED bufVars
    <3>1. UNCHANGED <<buf, disk, pc, mine>>
      BY <2>4 DEF bufVars
    <3>2. SameContents /\ SameHolders
      BY <3>1 DEF SameContents, SameHolders
    <3> QED
      BY <3>1, <3>2, QuietStep
  <2>5. CASE ideintr
    BY <2>5, IdeintrStep
  <2> QED
    BY <2>1, <2>2, <2>3, <2>4, <2>5 DEF BufNext
<1> QED
  BY <1>1, <1>2, CacheInvariant, PTL DEF BufSpec, BlockStoreSpec, Store!Spec
=============================================================================
