-------------------------------- MODULE Files -------------------------------
(***************************************************************************)
(* Descriptors, the table of open files (file.c, sysfile.c) and pipes      *)
(* (pipe.c), with the parts of fork and exit that handle descriptors.      *)
(* What a section under ftable.lock or a pipe's lock does is one step.  A  *)
(* process has one thread here: ofile[] has no lock, and what two threads  *)
(* of one process do to it at once is not modelled.                        *)
(***************************************************************************)
EXTENDS Integers, Sequences, FiniteSets, FiniteSetsExt, Totals

CONSTANTS
  Procs,
  NOFILE, NFILE, NPIPE     \* NPIPE: pages kalloc has for pipes

Fd == 0 .. NOFILE - 1
File == 1 .. NFILE
PipeId == 1 .. NPIPE

ASSUME FilesAssumption ==
  Procs \subseteq Nat /\ IsFiniteSet(Procs) /\ Procs # {} /\ NOFILE \in Nat /\ NFILE \in Nat /\ NPIPE \in Nat

VARIABLES
  ofile,     \* each process's descriptors: a file or 0
  file,      \* ref, type, readable, writable and pipe of each struct file
  pipe,      \* used, readopen, writeopen of each pipe
  task,      \* the call each process is in
  live,      \* processes that have been forked and have not exited
  fileHalt   \* a panic

fileVars == <<ofile, file, pipe, task, live, fileHalt>>

Rest == [pc |-> "user", f |-> 0, g |-> 0, close |-> <<>>, ff |-> 0, end |-> FALSE, then |-> "user"]
NoFile == [ref |-> 0, type |-> "none", readable |-> FALSE, writable |-> FALSE, pipe |-> 0]

(* The first process, with no descriptors. *)
FileInit ==
  /\ ofile = [p \in Procs |-> [d \in Fd |-> 0]]
  /\ file = [f \in File |-> NoFile]
  /\ pipe = [k \in PipeId |-> [used |-> FALSE, readopen |-> FALSE, writeopen |-> FALSE]]
  /\ task = [p \in Procs |-> Rest]
  /\ live = {Min(Procs)} /\ fileHalt = FALSE

In(p, l) == ~fileHalt /\ p \in live /\ task[p].pc = l
Do(p, r) == task' = [task EXCEPT ![p] = r]
Return(p) == Do(p, Rest)
(* fileclose of these files, one after the other; then the call is over. *)
Close(p, s) == Do(p, [Rest EXCEPT !.pc = "close", !.close = s])

FreeFiles == {f \in File : file[f].ref = 0}
FreeFds(p) == {d \in Fd : ofile[p][d] = 0}
Take == [file EXCEPT ![Min(FreeFiles)].ref = 1]

-----------------------------------------------------------------------------
(* sys_open's descriptor: filealloc, fdalloc, and only then the fields. *)

Open(p) ==
  /\ In(p, "user")
  /\ IF FreeFiles = {} THEN Return(p) /\ UNCHANGED file
     ELSE file' = Take /\ Do(p, [Rest EXCEPT !.pc = "open", !.f = Min(FreeFiles)])
  /\ UNCHANGED <<ofile, pipe, live, fileHalt>>

OpenFd(p) ==
  /\ In(p, "open")
  /\ IF FreeFds(p) = {} THEN Close(p, <<task[p].f>>) /\ UNCHANGED ofile
     ELSE /\ ofile' = [ofile EXCEPT ![p][Min(FreeFds(p))] = task[p].f]
          /\ Do(p, [task[p] EXCEPT !.pc = "openset"])
  /\ UNCHANGED <<file, pipe, live, fileHalt>>

OpenSet(p) ==
  /\ In(p, "openset")
  /\ file' = [file EXCEPT ![task[p].f] = [@ EXCEPT !.type = "inode", !.readable = TRUE, !.writable = FALSE]]
  /\ Return(p)
  /\ UNCHANGED <<ofile, pipe, live, fileHalt>>

-----------------------------------------------------------------------------
(* sys_pipe and pipealloc: two files and a page; *)

PipeFile0(p) ==
  /\ In(p, "user")
  /\ IF FreeFiles = {} THEN Return(p) /\ UNCHANGED file
     ELSE file' = Take /\ Do(p, [Rest EXCEPT !.pc = "pipe1", !.f = Min(FreeFiles)])
  /\ UNCHANGED <<ofile, pipe, live, fileHalt>>

PipeFile1(p) ==
  /\ In(p, "pipe1")
  /\ IF FreeFiles = {} THEN Close(p, <<task[p].f>>) /\ UNCHANGED file
     ELSE file' = Take /\ Do(p, [task[p] EXCEPT !.pc = "pipe2", !.g = Min(FreeFiles)])
  /\ UNCHANGED <<ofile, pipe, live, fileHalt>>

PipePage(p) ==
  LET r == task[p]
      pages == {k \in PipeId : ~pipe[k].used}
      k == Min(pages)
  IN /\ In(p, "pipe2")
     /\ IF pages = {} THEN Close(p, <<r.f, r.g>>) /\ UNCHANGED <<file, pipe>>
        ELSE /\ pipe' = [pipe EXCEPT ![k] = [used |-> TRUE, readopen |-> TRUE, writeopen |-> TRUE]]
             /\ file' = [file EXCEPT ![r.f] = [@ EXCEPT !.type = "pipe", !.readable = TRUE, !.writable = FALSE, !.pipe = k],
                                     ![r.g] = [@ EXCEPT !.type = "pipe", !.readable = FALSE, !.writable = TRUE, !.pipe = k]]
             /\ Do(p, [r EXCEPT !.pc = "pipe3"])
     /\ UNCHANGED <<ofile, live, fileHalt>>

(* then two descriptors, or neither. *)
PipeFds(p) ==
  LET r == task[p]
      d == Min(FreeFds(p))
  IN /\ In(p, "pipe3")
     /\ IF Cardinality(FreeFds(p)) < 2 THEN Close(p, <<r.f, r.g>>) /\ UNCHANGED ofile
        ELSE ofile' = [ofile EXCEPT ![p][d] = r.f, ![p][Min(FreeFds(p) \ {d})] = r.g] /\ Return(p)
     /\ UNCHANGED <<file, pipe, live, fileHalt>>

-----------------------------------------------------------------------------
(* fileclose: the last reference closes the pipe's end; *)

filedup_uncounted(f) == file
filedup(f) == [file EXCEPT ![f].ref = @ + 1]

fileclose(p) ==
  LET f == Head(task[p].close)
      r == [task[p] EXCEPT !.close = Tail(@)]
  IN /\ In(p, "close") /\ task[p].close # <<>>
     /\ fileHalt' = (file[f].ref < 1)
     /\ IF file[f].ref > 1
        THEN file' = [file EXCEPT ![f].ref = @ - 1] /\ Do(p, r)
        ELSE /\ file' = [file EXCEPT ![f] = [@ EXCEPT !.ref = 0, !.type = "none"]]
             /\ Do(p, IF file[f].type = "pipe"
                      THEN [r EXCEPT !.pc = "pipeclose", !.ff = file[f].pipe, !.end = file[f].writable] ELSE r)
     /\ UNCHANGED <<ofile, pipe, live>>

(* pipeclose; the second close frees the page. *)
pipeclose(p) ==
  LET k == task[p].ff
      w == task[p].end
      left == IF w THEN pipe[k].readopen ELSE pipe[k].writeopen
  IN /\ In(p, "pipeclose")
     /\ pipe' = [pipe EXCEPT ![k] = [readopen |-> w /\ left, writeopen |-> ~w /\ left, used |-> left]]
     /\ Do(p, [task[p] EXCEPT !.pc = "close", !.ff = 0, !.end = FALSE])
     /\ UNCHANGED <<ofile, file, live, fileHalt>>

Closed(p) ==
  /\ In(p, "close") /\ task[p].close = <<>>
  /\ Do(p, [Rest EXCEPT !.pc = task[p].then])
  /\ UNCHANGED <<ofile, file, pipe, live, fileHalt>>

sys_close(p, d) ==
  /\ In(p, "user") /\ ofile[p][d] # 0
  /\ ofile' = [ofile EXCEPT ![p][d] = 0]
  /\ Close(p, <<ofile[p][d]>>)
  /\ UNCHANGED <<file, pipe, live, fileHalt>>

(* sys_dup: a descriptor first, the reference after it. *)
sys_dup(p, d) ==
  /\ In(p, "user") /\ ofile[p][d] # 0
  /\ IF FreeFds(p) = {} THEN Return(p) /\ UNCHANGED ofile
     ELSE /\ ofile' = [ofile EXCEPT ![p][Min(FreeFds(p))] = ofile[p][d]]
          /\ Do(p, [Rest EXCEPT !.pc = "filedup", !.f = ofile[p][d]])
  /\ UNCHANGED <<file, pipe, live, fileHalt>>

DupRef(p) ==
  /\ In(p, "filedup")
  /\ fileHalt' = (file[task[p].f].ref < 1)
  /\ file' = filedup(task[p].f)
  /\ Return(p)
  /\ UNCHANGED <<ofile, pipe, live>>

(* fork copies the descriptors and counts each; exit closes each, when the *)
(* other threads of the process are gone.  It clears a descriptor after    *)
(* the close, which nobody is left to see.                                 *)
fork(p, q) ==
  /\ In(p, "user") /\ q \notin live
  /\ live' = live \union {q}
  /\ ofile' = [ofile EXCEPT ![q] = ofile[p]]
  /\ file' = [f \in File |-> [file[f] EXCEPT !.ref = @ + Cardinality({d \in Fd : ofile[p][d] = f})]]
  /\ UNCHANGED <<pipe, task, fileHalt>>

exit(p) ==
  /\ In(p, "user")
  /\ Do(p, [Rest EXCEPT !.pc = "exit"])
  /\ UNCHANGED <<ofile, file, pipe, live, fileHalt>>

ExitFd(p) ==
  LET open == {d \in Fd : ofile[p][d] # 0}
  IN /\ In(p, "exit")
     /\ IF open = {} THEN live' = live \ {p} /\ Return(p) /\ UNCHANGED ofile
        ELSE /\ Do(p, [Rest EXCEPT !.pc = "close", !.close = <<ofile[p][Min(open)]>>, !.then = "exit"])
             /\ ofile' = [ofile EXCEPT ![p][Min(open)] = 0]
             /\ UNCHANGED live
     /\ UNCHANGED <<file, pipe, fileHalt>>

-----------------------------------------------------------------------------
(* fileread and filewrite, as far as they look at the file: what they do   *)
(* next is in modules Pipe and FileContent.                                *)
ReadWrite(p, d) ==
  LET f == file[ofile[p][d]] IN
  /\ In(p, "user") /\ ofile[p][d] # 0
  /\ fileHalt' = ((f.readable \/ f.writable) /\ f.type = "none")
  /\ UNCHANGED <<ofile, file, pipe, task, live>>

-----------------------------------------------------------------------------
FileStep(p) ==
  \/ OpenFd(p) \/ OpenSet(p) \/ PipeFile1(p) \/ PipePage(p) \/ PipeFds(p)
  \/ fileclose(p) \/ pipeclose(p) \/ Closed(p) \/ DupRef(p) \/ ExitFd(p)
FileCall(p) ==
  \/ Open(p) \/ PipeFile0(p) \/ exit(p) \/ \E q \in Procs : fork(p, q)
  \/ \E d \in Fd : sys_close(p, d) \/ sys_dup(p, d) \/ ReadWrite(p, d)
FileNext == \E p \in Procs : FileStep(p) \/ FileCall(p)
FileSpec == FileInit /\ [][FileNext]_fileVars

-----------------------------------------------------------------------------
(* Properties *)

(* A file is counted once for each descriptor and each call that has just  *)
(* made it or is about to give it up: it is never recycled while in use    *)
(* and never kept for nothing.                                             *)
InFlight(p, f) ==
  LET r == task[p] IN
  Cardinality({j \in DOMAIN r.close : r.close[j] = f})
  + (IF r.pc \in {"open", "pipe1", "pipe2", "pipe3"} /\ r.f = f THEN 1 ELSE 0)
  + (IF r.pc \in {"pipe2", "pipe3"} /\ r.g = f THEN 1 ELSE 0)
  - (IF r.pc = "filedup" /\ r.f = f THEN 1 ELSE 0)
Held(p, f) == Cardinality({d \in Fd : ofile[p][d] = f}) + InFlight(p, f)
FileRefExact ==
  \A f \in File : (\A p \in Procs : Held(p, f) >= 0) /\ file[f].ref = Total([p \in Procs |-> Held(p, f)])

(* An end of a pipe is open as long as a file has it (or its close is      *)
(* under way), and the page is kept exactly as long as an end is open.     *)
EndHeld(k, w) ==
  \/ \E f \in File : file[f].ref > 0 /\ file[f].type = "pipe" /\ file[f].pipe = k /\ file[f].writable = w
  \/ \E p \in Procs : task[p].pc = "pipeclose" /\ task[p].ff = k /\ task[p].end = w
PipeEnds ==
  \A k \in PipeId :
    /\ pipe[k].readopen = EndHeld(k, FALSE) /\ pipe[k].writeopen = EndHeld(k, TRUE)
    /\ pipe[k].used = (pipe[k].readopen \/ pipe[k].writeopen)

(* What file.c and pipe.c count is what is there, through every failure of *)
(* open, pipe, dup and fork; so nothing that is in use is given up and no  *)
(* panic is reached.                                                       *)
FilesCounted == FileRefExact /\ PipeEnds /\ ~fileHalt
=============================================================================
