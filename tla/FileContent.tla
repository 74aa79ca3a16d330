---------------------------- MODULE FileContent -----------------------------
(***************************************************************************)
(* The content of files: block allocation, the block map of an inode,      *)
(* readi, writei and itrunc (fs.c), and filewrite, which cuts a write into *)
(* transactions (file.c).  The inode's sleep lock is held for a chunk; one *)
(* block of it is one step.  Threads share the file structure, and so its  *)
(* offset, as after fork or dup.                                           *)
(***************************************************************************)
EXTENDS Integers, Sequences, FiniteSets, FiniteSetsExt

CONSTANTS
  Writers, Inodes,             \* threads, and the files they write
  NDIRECT, NINDIRECT, BSIZE,
  NBLOCKS,                     \* data blocks of the disk
  MAXCHUNK,                    \* bytes filewrite puts in one transaction
  WriteData,                   \* what is written
  NoWriter

Block == 1 .. NBLOCKS
MAXFILE == NDIRECT + NINDIRECT

ASSUME ContentAssumption ==
  /\ NDIRECT \in Nat /\ NINDIRECT \in Nat /\ BSIZE \in Nat \ {0} /\ NBLOCKS \in Nat /\ MAXCHUNK \in Nat \ {0}
  /\ WriteData \subseteq Seq(Nat) /\ NoWriter \notin Writers

VARIABLES
  bitmap,      \* blocks marked in use
  blocks,      \* content of the blocks: bytes and, for an indirect one, addresses
  addrs,       \* of each inode: 0 .. NDIRECT - 1 direct, NDIRECT the indirect block
  fsize, foff, \* size of the inode, offset of the open file
  flock,       \* who has the inode locked
  wr,          \* the write each thread is in: data left, chunk, bytes done in it
  expected,    \* what the file should hold
  contentHalt  \* balloc: out of blocks, freeing free block

contentVars == <<bitmap, blocks, addrs, fsize, foff, flock, wr, expected, contentHalt>>

NoWrite == [i |-> 0, left |-> <<>>, n |-> 0, tot |-> 0]
ZeroBlock == [bytes |-> [k \in 0 .. BSIZE - 1 |-> 0], a |-> [k \in 0 .. NINDIRECT - 1 |-> 0]]

ContentInit ==
  /\ bitmap = {} /\ blocks = [b \in Block |-> ZeroBlock]
  /\ addrs = [i \in Inodes |-> [k \in 0 .. NDIRECT |-> 0]]
  /\ fsize = [i \in Inodes |-> 0] /\ foff = [i \in Inodes |-> 0]
  /\ flock = [i \in Inodes |-> NoWriter] /\ wr = [t \in Writers |-> NoWrite]
  /\ expected = [i \in Inodes |-> <<>>] /\ contentHalt = FALSE

-----------------------------------------------------------------------------
FreeBlocks == Block \ bitmap
(* The block bmap finds for block number bn of inode i, 0 if there is none. *)
Mapped(i, bn) ==
  IF bn < NDIRECT THEN addrs[i][bn]
  ELSE IF addrs[i][NDIRECT] = 0 THEN 0 ELSE blocks[addrs[i][NDIRECT]].a[bn - NDIRECT]

(* The blocks bmap allocates, in order: the indirect block, the data block.*)
Needs(i, bn) == (IF bn >= NDIRECT /\ addrs[i][NDIRECT] = 0 THEN <<"indirect">> ELSE <<>>)
                \o (IF Mapped(i, bn) = 0 THEN <<"data">> ELSE <<>>)
(* balloc takes the first free block. *)
balloc(k) == IF k = 1 THEN Min(FreeBlocks) ELSE Min(FreeBlocks \ {Min(FreeBlocks)})
IndirectFor(i, bn) == IF "indirect" \in {Needs(i, bn)[k] : k \in DOMAIN Needs(i, bn)} THEN balloc(1) ELSE addrs[i][NDIRECT]
bmap(i, bn) == IF Mapped(i, bn) # 0 THEN Mapped(i, bn) ELSE balloc(Len(Needs(i, bn)))

(* balloc zeroes what it allocates. *)
bzero(bs) == [b \in Block |-> IF b \in bs THEN ZeroBlock ELSE blocks[b]]

-----------------------------------------------------------------------------
sys_write(t, i, s) ==
  /\ ~contentHalt /\ wr[t] = NoWrite
  /\ wr' = [wr EXCEPT ![t] = [NoWrite EXCEPT !.i = i, !.left = s]]
  /\ UNCHANGED <<bitmap, blocks, addrs, fsize, foff, flock, expected, contentHalt>>

(* filewrite: begin_op, ilock, and writei's tests. *)
StartChunk(t) ==
  LET i == wr[t].i
      n == Min({Len(wr[t].left), MAXCHUNK})
  IN /\ ~contentHalt /\ wr[t].left # <<>> /\ wr[t].n = 0 /\ flock[i] = NoWriter
     /\ IF foff[i] > fsize[i] \/ foff[i] + n > MAXFILE * BSIZE
        THEN wr' = [wr EXCEPT ![t] = NoWrite] /\ UNCHANGED flock
        ELSE wr' = [wr EXCEPT ![t].n = n] /\ flock' = [flock EXCEPT ![i] = t]
     /\ UNCHANGED <<bitmap, blocks, addrs, fsize, foff, expected, contentHalt>>

(* One turn of writei's loop. *)
WriteBlock(t) ==
  LET i == wr[t].i
      w == wr[t]
      off == foff[i] + w.tot
      bn == off \div BSIZE
      from == off % BSIZE
      m == Min({w.n - w.tot, BSIZE - from})
      need == Needs(i, bn)
      new == {balloc(k) : k \in DOMAIN need}
      b == bmap(i, bn)
      ind == IndirectFor(i, bn)
      copied == [bzero(new) EXCEPT ![b].bytes = [k \in DOMAIN @ |->
                   IF k \in from .. from + m - 1 THEN w.left[w.tot + 1 + k - from] ELSE @[k]]]
  IN /\ ~contentHalt /\ w.n > 0 /\ flock[i] = t /\ w.tot < w.n
     /\ IF Len(need) > Cardinality(FreeBlocks)
        THEN contentHalt' = TRUE /\ UNCHANGED <<bitmap, blocks, addrs, wr>>
        ELSE /\ bitmap' = bitmap \union new
             /\ blocks' = IF bn < NDIRECT THEN copied ELSE [copied EXCEPT ![ind].a[bn - NDIRECT] = b]
             /\ addrs' = [addrs EXCEPT ![i] = IF bn < NDIRECT THEN [@ EXCEPT ![bn] = b] ELSE [@ EXCEPT ![NDIRECT] = ind]]
             /\ wr' = [wr EXCEPT ![t].tot = @ + m]
             /\ UNCHANGED contentHalt
     /\ UNCHANGED <<fsize, foff, flock, expected>>

(* The end of writei and of the chunk: size, offset, iunlock, end_op. *)
Overwrite(old, off, s) == [k \in 1 .. Max({Len(old), off + Len(s)}) |-> IF k \in off + 1 .. off + Len(s) THEN s[k - off] ELSE old[k]]
EndChunk_stale(t) ==
  LET i == wr[t].i
      w == wr[t]
  IN /\ ~contentHalt /\ w.n > 0 /\ flock[i] = t /\ w.tot = w.n
     /\ fsize' = [fsize EXCEPT ![i] = foff[i] + w.n]
     /\ foff' = [foff EXCEPT ![i] = @ + w.n]
     /\ flock' = [flock EXCEPT ![i] = NoWriter]
     /\ expected' = [expected EXCEPT ![i] = Overwrite(@, foff[i], SubSeq(w.left, 1, w.n))]
     /\ wr' = [wr EXCEPT ![t] = IF w.n = Len(w.left) THEN NoWrite ELSE [NoWrite EXCEPT !.i = i, !.left = SubSeq(w.left, w.n + 1, Len(w.left))]]
     /\ UNCHANGED <<bitmap, blocks, addrs, contentHalt>>
EndChunk(t) ==
  LET i == wr[t].i
      w == wr[t]
  IN /\ ~contentHalt /\ w.n > 0 /\ flock[i] = t /\ w.tot = w.n
     /\ fsize' = [fsize EXCEPT ![i] = Max({@, foff[i] + w.n})]
     /\ foff' = [foff EXCEPT ![i] = @ + w.n]
     /\ flock' = [flock EXCEPT ![i] = NoWriter]
     /\ expected' = [expected EXCEPT ![i] = Overwrite(@, foff[i], SubSeq(w.left, 1, w.n))]
     /\ wr' = [wr EXCEPT ![t] = IF w.n = Len(w.left) THEN NoWrite ELSE [NoWrite EXCEPT !.i = i, !.left = SubSeq(w.left, w.n + 1, Len(w.left))]]
     /\ UNCHANGED <<bitmap, blocks, addrs, contentHalt>>

(* The file is closed and opened again: a new offset. *)
Reopen(i) ==
  /\ ~contentHalt /\ foff[i] # 0 /\ \A t \in Writers : wr[t].i # i
  /\ foff' = [foff EXCEPT ![i] = 0]
  /\ UNCHANGED <<bitmap, blocks, addrs, fsize, flock, wr, expected, contentHalt>>

(* itrunc, when iput frees the inode: nobody has it open. *)
Freed_direct(i) == {addrs[i][k] : k \in 0 .. NDIRECT} \ {0}
Freed(i) ==
  LET ind == addrs[i][NDIRECT] IN
  ({addrs[i][k] : k \in 0 .. NDIRECT} \union (IF ind = 0 THEN {} ELSE {blocks[ind].a[k] : k \in 0 .. NINDIRECT - 1})) \ {0}
itrunc(i) ==
  /\ ~contentHalt /\ flock[i] = NoWriter /\ \A t \in Writers : wr[t].i # i
  /\ fsize[i] > 0
  /\ contentHalt' = ~(Freed(i) \subseteq bitmap)
  /\ bitmap' = bitmap \ Freed(i)
  /\ addrs' = [addrs EXCEPT ![i] = [k \in 0 .. NDIRECT |-> 0]]
  /\ fsize' = [fsize EXCEPT ![i] = 0] /\ foff' = [foff EXCEPT ![i] = 0]
  /\ expected' = [expected EXCEPT ![i] = <<>>]
  /\ UNCHANGED <<blocks, flock, wr>>

ContentNext ==
  \/ \E t \in Writers : StartChunk(t) \/ WriteBlock(t) \/ EndChunk(t) \/ \E i \in Inodes, s \in WriteData : sys_write(t, i, s)
  \/ \E i \in Inodes : Reopen(i) \/ itrunc(i)
ContentSpec == ContentInit /\ [][ContentNext]_contentVars

-----------------------------------------------------------------------------
(* Properties *)

(* readi: byte k of the file. *)
readi(i) == [k \in 1 .. fsize[i] |-> blocks[Mapped(i, (k - 1) \div BSIZE)].bytes[(k - 1) % BSIZE]]

(* What is read is what was written: the last write of each byte, of the   *)
(* file as it was truncated last, whatever blocks it went to.              *)
ReadsBack == \A i \in Inodes : flock[i] = NoWriter => readi(i) = expected[i]

(* A block is marked in use exactly when one inode has it, in one place.   *)
InodePlaces(i) == {<<i, k>> : k \in 0 .. NDIRECT} \union {<<i, k>> : k \in NDIRECT + 1 .. MAXFILE}
BlockAt(p) == IF p[2] <= NDIRECT THEN addrs[p[1]][p[2]] ELSE Mapped(p[1], p[2] - 1)
BlocksOwnedOnce ==
  \A b \in Block : Cardinality({p \in UNION {InodePlaces(i) : i \in Inodes} : BlockAt(p) = b}) = IF b \in bitmap THEN 1 ELSE 0
=============================================================================
