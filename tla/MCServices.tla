----------------------------- MODULE MCServices -----------------------------
(***************************************************************************)
(* Components of the kernel and of user space that do not share state in   *)
(* these models, side by side: part says which of them runs.               *)
(***************************************************************************)
EXTENDS Pipe, Console, Sched, Memory, Clock, Kbd, Malloc, Shell, Library, TournamentTree,
        TLC

VARIABLE part

MCPayloads == {<<0, 1, 1>>}
MCPieces == {<<t>> : t \in {"w", "|", "&", ";", "(", ")", "<", ">"}} \union {<<"(", "w", "|", "w", ")">>, <<"w", ">>", "w">>}

Parts == {"pipe", "console", "sched", "memory", "clock", "kbd", "malloc", "shell", "library",
          "tree"}
Still(p) ==
  /\ (p # "pipe" => UNCHANGED pipeVars)
  /\ (p # "console" => UNCHANGED consVars)
  /\ (p # "sched" => UNCHANGED schedVars)
  /\ (p # "memory" => UNCHANGED memVars)
  /\ (p # "clock" => UNCHANGED clockVars)
  /\ (p # "kbd" => UNCHANGED kbdVars)
  /\ (p # "malloc" => UNCHANGED heapVars)
  /\ (p # "shell" => UNCHANGED toks)
  /\ (p # "library" => UNCHANGED call)
  /\ (p # "tree" => UNCHANGED treeVars)

ServicesInit ==
  /\ part \in Parts
  /\ PipeInit /\ ConsoleInit /\ SchedInit /\ MemInit /\ ClockInit /\ KbdInit /\ MallocInit
  /\ ShellInit /\ LibraryInit /\ TreeInit /\ (part # "tree" => before = 0)
ServicesNext ==
  /\ \/ part = "pipe" /\ PipeNext
     \/ part = "console" /\ ConsoleNext
     \/ part = "sched" /\ SchedNext
     \/ part = "memory" /\ MemNext
     \/ part = "clock" /\ ClockNext
     \/ part = "kbd" /\ KbdNext
     \/ part = "malloc" /\ MallocNext
     \/ part = "shell" /\ ShellNext
     \/ part = "library" /\ LibraryNext
     \/ part = "tree" /\ TreeNext
  /\ Still(part) /\ UNCHANGED part
ServicesVars == <<pipeVars, consVars, schedVars, memVars, clockVars, kbdVars, heapVars, toks, call,
                 treeVars, part>>
ServicesSpec == ServicesInit /\ [][ServicesNext]_ServicesVars
=============================================================================
