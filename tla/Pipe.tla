-------------------------------- MODULE Pipe --------------------------------
(***************************************************************************)
(* One pipe (pipe.c): threads that write to it and threads that read from  *)
(* it, ends that are closed and threads that are killed meanwhile.  What   *)
(* happens between two sleeps, under p->lock, is one step, but for the one *)
(* thing that does not take p->lock: kill may come between the test of     *)
(* killed and the sleep.                                                   *)
(***************************************************************************)
EXTENDS Integers, Sequences, FiniteSets, FiniteSetsExt

CONSTANTS
  PReaders, PWriters,        \* threads that have the read and the write end
  PIPESIZE, WRAP,          \* WRAP is 2^32, a multiple of PIPESIZE
  PBytes, Payloads, PCounts  \* what write is called with, and the n of read

PipeUsers == PReaders \union PWriters

ASSUME PipeAssumption == PIPESIZE \in Nat \ {0} /\ WRAP \in Nat /\ WRAP > PIPESIZE /\ WRAP % PIPESIZE = 0
(* argptr refuses a negative size. *)
ASSUME PayloadAssumption ==
  PBytes \in (SUBSET Nat) \ {{}} /\ Payloads \subseteq Seq(PBytes) /\ PCounts \subseteq Nat

VARIABLES
  nread, nwrite, data, readopen, writeopen,   \* struct pipe
  using,    \* threads that have not closed their end
  hit,      \* threads that have been killed
  pt        \* the call each thread is in

pipeVars == <<nread, nwrite, data, readopen, writeopen, using, hit, pt>>

PIdle == [pc |-> "user", buf |-> <<>>, n |-> 0, got |-> <<>>]

PipeInit ==
  /\ nread = 0 /\ nwrite = 0 /\ data = [j \in 0 .. PIPESIZE - 1 |-> Min(PBytes)]
  /\ readopen = TRUE /\ writeopen = TRUE
  /\ using = PipeUsers /\ hit = {} /\ pt = [t \in PipeUsers |-> PIdle]

PAt(t, l) == pt[t].pc = l
(* Nobody holds p->lock on the way to sleep. *)
PipeFree == \A u \in PipeUsers : pt[u].pc \notin {"rdoze", "wdoze"}
Size == (nwrite - nread) % WRAP
IsEmpty == nread = nwrite
IsFull == nwrite = (nread + PIPESIZE) % WRAP

(* wakeup(&p->nread) and wakeup(&p->nwrite) *)
WakeReaders_none(ts) == ts
WakeReaders(ts) == [u \in PipeUsers |-> IF pt[u].pc = "rsleep" THEN [ts[u] EXCEPT !.pc = "read"] ELSE ts[u]]
WakeWriters(ts) == [u \in PipeUsers |-> IF pt[u].pc = "wsleep" THEN [ts[u] EXCEPT !.pc = "write"] ELSE ts[u]]

ReadPipe(t, n) ==
  /\ PAt(t, "user") /\ t \in (PReaders \intersect using) \ hit
  /\ pt' = [pt EXCEPT ![t] = [PIdle EXCEPT !.pc = "read", !.n = n]]
  /\ UNCHANGED <<nread, nwrite, data, readopen, writeopen, using, hit>>

piperead(t) ==
  LET m == Min({pt[t].n, Size}) IN
  /\ PAt(t, "read") /\ PipeFree
  /\ IF IsEmpty /\ writeopen
     THEN /\ pt' = [pt EXCEPT ![t] = IF t \in hit THEN PIdle ELSE [@ EXCEPT !.pc = "rdoze"]]
          /\ UNCHANGED nread
     ELSE /\ nread' = (nread + m) % WRAP
          /\ pt' = WakeWriters([pt EXCEPT ![t] = [PIdle EXCEPT !.pc = "gotten",
               !.got = [j \in 1 .. m |-> data[((nread + j - 1) % WRAP) % PIPESIZE]]]])
  /\ UNCHANGED <<nwrite, data, readopen, writeopen, using, hit>>

(* sleep, on &p->nread or on &p->nwrite *)
PipeSleep(t) ==
  /\ pt[t].pc \in {"rdoze", "wdoze"}
  /\ pt' = [pt EXCEPT ![t].pc = IF @ = "rdoze" THEN "rsleep" ELSE "wsleep"]
  /\ UNCHANGED <<nread, nwrite, data, readopen, writeopen, using, hit>>

ReadReturns(t) ==
  /\ PAt(t, "gotten")
  /\ pt' = [pt EXCEPT ![t] = PIdle]
  /\ UNCHANGED <<nread, nwrite, data, readopen, writeopen, using, hit>>

WritePipe(t, s) ==
  /\ PAt(t, "user") /\ t \in (PWriters \intersect using) \ hit
  /\ pt' = [pt EXCEPT ![t] = [PIdle EXCEPT !.pc = "write", !.buf = s]]
  /\ UNCHANGED <<nread, nwrite, data, readopen, writeopen, using, hit>>

(* As many bytes as fit; then, if some are left, the test for a closed     *)
(* read end or a kill, a wakeup for the readers, and sleep.                *)
Fits_one(s) == Min({Len(s), PIPESIZE + 1 - Size})
Fits(s) == Min({Len(s), PIPESIZE - Size})
Stored(s, m) ==
  [i \in 0 .. PIPESIZE - 1 |->
     IF \E j \in 1 .. m : ((nwrite + j - 1) % WRAP) % PIPESIZE = i
     THEN s[CHOOSE j \in 1 .. m : ((nwrite + j - 1) % WRAP) % PIPESIZE = i] ELSE data[i]]
pipewrite(t) ==
  LET s == pt[t].buf
      m == Fits(s)
  IN /\ PAt(t, "write") /\ PipeFree
     /\ data' = Stored(s, m) /\ nwrite' = (nwrite + m) % WRAP
     /\ pt' = IF m < Len(s) /\ (~readopen \/ t \in hit) THEN [pt EXCEPT ![t] = PIdle]
              ELSE WakeReaders([pt EXCEPT ![t] =
                     IF m = Len(s) THEN PIdle ELSE [@ EXCEPT !.pc = "wdoze", !.buf = SubSeq(s, m + 1, Len(s))]])
     /\ UNCHANGED <<nread, readopen, writeopen, using, hit>>

(* A thread gives up its end; the last one of a side runs pipeclose, which *)
(* wakes the other side.  Both closed, the page is freed: nobody is left.  *)
CloseEnd(t) ==
  /\ PAt(t, "user") /\ t \in using /\ PipeFree
  /\ using' = using \ {t}
  /\ readopen' = (using' \intersect PReaders # {})
  /\ writeopen' = (using' \intersect PWriters # {})
  /\ pt' = IF writeopen' # writeopen THEN WakeReaders(pt)
           ELSE IF readopen' # readopen THEN WakeWriters(pt) ELSE pt
  /\ UNCHANGED <<nread, nwrite, data, hit>>

(* kill wakes a sleeping thread; it returns from the call and exits. *)
KillEnd(t) ==
  /\ t \in using \ hit
  /\ hit' = hit \union {t}
  /\ pt' = [pt EXCEPT ![t].pc = CASE @ = "rsleep" -> "read" [] @ = "wsleep" -> "write" [] OTHER -> @]
  /\ UNCHANGED <<nread, nwrite, data, readopen, writeopen, using>>

PipeStep(t) == piperead(t) \/ PipeSleep(t) \/ ReadReturns(t) \/ pipewrite(t)
PipeNext ==
  \E t \in PipeUsers :
    \/ PipeStep(t) \/ CloseEnd(t) \/ KillEnd(t)
    \/ (\E n \in PCounts : ReadPipe(t, n)) \/ \E s \in Payloads : WritePipe(t, s)
PipeSpec == PipeInit /\ [][PipeNext]_pipeVars

-----------------------------------------------------------------------------
(* What holds between two steps *)

Reading == {"read", "rdoze", "rsleep", "gotten"}
Writing == {"write", "wdoze", "wsleep"}
PCall == [pc : {"user"} \union Reading \union Writing, buf : Seq(PBytes), n : Nat, got : Seq(PBytes)]

(* Who is in a call has its end open, and who is about to sleep has seen   *)
(* that there is nothing to do, which only those who wake it change.       *)
EndInv(t) ==
  /\ ~PAt(t, "user") => t \in using
  /\ pt[t].pc \in Reading => t \in PReaders
  /\ pt[t].pc \in Writing => t \in PWriters
  /\ ~PAt(t, "gotten") => pt[t].got = <<>>
  /\ pt[t].pc \in {"rdoze", "rsleep"} => (writeopen /\ (hit = {} => Size = 0))
  /\ pt[t].pc \in {"wdoze", "wsleep"} => (readopen /\ Size = PIPESIZE)
PipeInv ==
  /\ nread \in 0 .. WRAP - 1 /\ nwrite \in 0 .. WRAP - 1 /\ Size <= PIPESIZE
  /\ data \in [0 .. PIPESIZE - 1 -> PBytes] /\ pt \in [PipeUsers -> PCall]
  /\ (using \intersect PReaders # {} => readopen) /\ (using \intersect PWriters # {} => writeopen)
  /\ \A t \in PipeUsers : EndInv(t)

-----------------------------------------------------------------------------
(* Properties *)

(* A reader sleeps only on a pipe that can still be written, and, unless a *)
(* thread was killed, on an empty one; a writer on a full pipe that can    *)
(* still be read: whoever sleeps will be woken by the other end's next     *)
(* call or close.  (A killed writer fills the pipe and leaves without a    *)
(* wakeup for the readers.)                                                *)
NoLostPipeWakeup ==
  \A t \in PipeUsers :
    /\ PAt(t, "rsleep") => (writeopen /\ (hit = {} => IsEmpty))
    /\ PAt(t, "wsleep") => (readopen /\ IsFull)

(* The pipe is a bounded queue of bytes, in order, across the wrap of its  *)
(* index and of its counters.                                              *)
Contents == [j \in 1 .. Size |-> data[((nread + j - 1) % WRAP) % PIPESIZE]]
Gotten == [t \in PReaders |-> pt[t].got]
Queue == INSTANCE ByteQueue WITH
  Readers <- PReaders, Bytes <- PBytes, Capacity <- PIPESIZE, queue <- Contents, got <- Gotten
PipeIsQueue == Queue!Spec
=============================================================================
