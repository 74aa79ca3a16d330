------------------------------- MODULE Shell --------------------------------
(***************************************************************************)
(* The shell (sh.c): the recursive descent parser, and how runcmd connects *)
(* descriptors.  A command line is a sequence of tokens ("w" is a word);   *)
(* each state is one command line.                                         *)
(***************************************************************************)
EXTENDS Integers, Sequences, FiniteSets, FiniteSetsExt, SequencesExt

CONSTANTS
  Pieces,      \* sequences of tokens that command lines are put together from
  MAXTOKENS,   \* a line of that many tokens gets no further piece
  MAXARGS

VARIABLE toks

-----------------------------------------------------------------------------
(* Commands: execcmd, redircmd, pipecmd, listcmd, backcmd; "ERR" is panic. *)
Exec0(argc) == [type |-> "EXEC", argc |-> argc]
Redir(cmd, tok) == [type |-> "REDIR", cmd |-> cmd, tok |-> tok, fd |-> IF tok = "<" THEN 0 ELSE 1]
Node(type, left, right) == [type |-> type, left |-> left, right |-> right]
Back(cmd) == [type |-> "BACK", cmd |-> cmd]
Err == [type |-> "ERR"]

Got(cmd, rest) == [cmd |-> cmd, rest |-> rest]
Bad == Got(Err, <<>>)
Peek(s, set) == s # <<>> /\ Head(s) \in set
From(s, i) == SubSeq(s, i, Len(s))

RECURSIVE parseredirs(_, _)
parseredirs(cmd, s) ==
  IF ~Peek(s, {"<", ">", ">>"}) THEN Got(cmd, s)
  ELSE IF ~Peek(Tail(s), {"w"}) THEN Bad              \* missing file for redirection
  ELSE parseredirs(Redir(cmd, Head(s)), From(s, 3))

(* The argument is counted into the execcmd, below the redircmds of ret. *)
RECURSIVE AddArg(_)
AddArg(ret) == IF ret.type = "REDIR" THEN [ret EXCEPT !.cmd = AddArg(@)] ELSE [ret EXCEPT !.argc = @ + 1]
RECURSIVE Argc(_)
Argc(ret) == IF ret.type = "REDIR" THEN Argc(ret.cmd) ELSE ret.argc

RECURSIVE parseargs(_)
parseargs(g) ==
  IF g.cmd = Err \/ g.rest = <<>> \/ Peek(g.rest, {"|", ")", "&", ";"}) THEN g
  ELSE IF Head(g.rest) # "w" \/ Argc(g.cmd) + 1 >= MAXARGS THEN Bad       \* syntax, too many args
  ELSE parseargs(parseredirs(AddArg(g.cmd), Tail(g.rest)))

RECURSIVE parseline(_)
parseblock(s) ==
  LET g == parseline(Tail(s)) IN
  IF g.cmd = Err \/ ~Peek(g.rest, {")"}) THEN Bad ELSE parseredirs(g.cmd, Tail(g.rest))

parseexec(s) == IF Peek(s, {"("}) THEN parseblock(s) ELSE parseargs(parseredirs(Exec0(0), s))

RECURSIVE parsepipe(_)
parsepipe(s) ==
  LET l == parseexec(s) IN
  IF l.cmd = Err \/ ~Peek(l.rest, {"|"}) THEN l
  ELSE LET r == parsepipe(Tail(l.rest)) IN IF r.cmd = Err THEN Bad ELSE Got(Node("PIPE", l.cmd, r.cmd), r.rest)

RECURSIVE backs(_)
backs(g) == IF g.cmd # Err /\ Peek(g.rest, {"&"}) THEN backs(Got(Back(g.cmd), Tail(g.rest))) ELSE g

parseline_pipe(s) ==
  LET l == parsepipe(s) IN
  IF l.cmd = Err \/ ~Peek(l.rest, {";"}) THEN backs(l)
  ELSE LET r == parseline(Tail(l.rest)) IN IF r.cmd = Err THEN Bad ELSE Got(Node("LIST", l.cmd, r.cmd), r.rest)
parseline(s) ==
  LET l == backs(parsepipe(s)) IN
  IF l.cmd = Err \/ ~Peek(l.rest, {";"}) THEN l
  ELSE LET r == parseline(Tail(l.rest)) IN IF r.cmd = Err THEN Bad ELSE Got(Node("LIST", l.cmd, r.cmd), r.rest)

parsecmd(s) == LET g == parseline(s) IN IF g.rest # <<>> THEN Err ELSE g.cmd     \* leftovers

-----------------------------------------------------------------------------
(* runcmd: the descriptors each program is started with.  A process is     *)
(* named by its way through the command; fork copies its descriptors.      *)
FDs == 0 .. 5
Tty == <<"tty", <<>>>>
Closed0 == <<"none", <<>>>>
close(fds, fd) == [fds EXCEPT ![fd] = Closed0]
fdalloc(fds) == Min({fd \in FDs : fds[fd] = Closed0})
give(fds, f) == [fds EXCEPT ![fdalloc(fds)] = f]              \* open, dup

Child_keep(fds, p, side) ==
  LET std == IF side = "left" THEN 1 ELSE 0
      end == IF side = "left" THEN p[2] ELSE p[1]
  IN close(give(close(fds, std), fds[end]), p[1])
(* One side of a pipe: close(1) and dup(p[1]), or close(0) and dup(p[0]);  *)
(* then close both ends.                                                   *)
Child(fds, p, side) ==
  LET std == IF side = "left" THEN 1 ELSE 0
      end == IF side = "left" THEN p[2] ELSE p[1]
  IN close(close(give(close(fds, std), fds[end]), p[1]), p[2])

RECURSIVE runcmd(_, _, _)
runcmd(c, fds, me) ==
  CASE c.type = "EXEC" -> IF c.argc = 0 THEN {} ELSE {[me |-> me, fds |-> fds]}
    [] c.type = "REDIR" -> runcmd(c.cmd, give(close(fds, c.fd), <<"file", me>>), Append(me, "redir"))
    [] c.type = "LIST" -> runcmd(c.left, fds, Append(me, "left")) \union runcmd(c.right, fds, Append(me, "right"))
    [] c.type = "PIPE" ->
         LET p == <<fdalloc(fds), fdalloc(give(fds, <<"r", me>>))>>
             both == give(give(fds, <<"r", me>>), <<"w", me>>)
         IN runcmd(c.left, Child(both, p, "left"), Append(me, "left"))
            \union runcmd(c.right, Child(both, p, "right"), Append(me, "right"))
    [] c.type = "BACK" -> runcmd(c.cmd, fds, Append(me, "back"))
    [] OTHER -> {}

-----------------------------------------------------------------------------
ShellInit == toks = <<>>
TypeTokens(s) == Len(toks) < MAXTOKENS /\ toks' = toks \o s
ShellNext == \E s \in Pieces : TypeTokens(s)
ShellSpec == ShellInit /\ [][ShellNext]_toks

-----------------------------------------------------------------------------
(* Reference definitions *)

(* The grammar, by how a line can be divided. *)
RECURSIVE IsArgs(_)
IsArgs(s) ==
  \/ s = <<>>
  \/ s[1] = "w" /\ IsArgs(Tail(s))
  \/ Len(s) > 1 /\ s[1] \in {"<", ">", ">>"} /\ s[2] = "w" /\ IsArgs(From(s, 3))
Count(s, set) == Cardinality({i \in 1 .. Len(s) : s[i] \in set})
IsSimple(s) == IsArgs(s) /\ Count(s, {"w"}) - Count(s, {"<", ">", ">>"}) < MAXARGS
IsRedirs(s) == IsArgs(s) /\ Count(s, {"w"}) = Count(s, {"<", ">", ">>"})

RECURSIVE IsLine(_)
IsExec(s) ==
  \/ IsSimple(s)
  \/ \E i \in 2 .. Len(s) : s[1] = "(" /\ s[i] = ")" /\ IsLine(SubSeq(s, 2, i - 1)) /\ IsRedirs(From(s, i + 1))
RECURSIVE IsPipe(_)
IsPipe(s) == IsExec(s) \/ \E i \in 1 .. Len(s) : s[i] = "|" /\ IsExec(SubSeq(s, 1, i - 1)) /\ IsPipe(From(s, i + 1))
IsLine(s) ==
  \E i \in 0 .. Len(s) : \E j \in i .. Len(s) :
    /\ IsPipe(SubSeq(s, 1, i)) /\ \A k \in i + 1 .. j : s[k] = "&"
    /\ j = Len(s) \/ (s[j + 1] = ";" /\ IsLine(From(s, j + 2)))

(* A command written out again, with parentheses where a part needs them. *)
Paren(s) == <<"(">> \o s \o <<")">>
RECURSIVE Text(_)
RECURSIVE Simple(_)
Simple(c) == c.type = "EXEC" \/ (c.type = "REDIR" /\ Simple(c.cmd))
ExecText(c) == IF Simple(c) \/ c.type = "REDIR" THEN Text(c) ELSE Paren(Text(c))
Text(c) ==
  CASE c.type = "EXEC" -> [i \in 1 .. c.argc |-> "w"]
    [] c.type = "REDIR" -> ExecText(c.cmd) \o <<c.tok, "w">>
    [] c.type = "PIPE" -> ExecText(c.left) \o <<"|">> \o (IF c.right.type = "PIPE" THEN Text(c.right) ELSE ExecText(c.right))
    [] c.type = "BACK" -> (IF c.cmd.type \in {"BACK", "PIPE"} THEN Text(c.cmd) ELSE ExecText(c.cmd)) \o <<"&">>
    [] c.type = "LIST" -> (IF c.left.type \in {"BACK", "PIPE"} THEN Text(c.left) ELSE ExecText(c.left)) \o <<";">> \o Text(c.right)

(* Where each program's input and output go. *)
RECURSIVE Wiring(_, _, _, _)
Wiring(c, in, out, me) ==
  CASE c.type = "EXEC" -> IF c.argc = 0 THEN {} ELSE {[me |-> me, in |-> in, out |-> out]}
    [] c.type = "REDIR" -> Wiring(c.cmd, IF c.tok = "<" THEN <<"file", me>> ELSE in,
                                         IF c.tok = "<" THEN out ELSE <<"file", me>>, Append(me, "redir"))
    [] c.type = "LIST" -> Wiring(c.left, in, out, Append(me, "left")) \union Wiring(c.right, in, out, Append(me, "right"))
    [] c.type = "PIPE" -> Wiring(c.left, in, <<"w", me>>, Append(me, "left")) \union Wiring(c.right, <<"r", me>>, out, Append(me, "right"))
    [] c.type = "BACK" -> Wiring(c.cmd, in, out, Append(me, "back"))
    [] OTHER -> {}

(* Properties *)

(* The parser, which looks one token ahead and never goes back, accepts    *)
(* the lines of the grammar and no others; it loses nothing and gives the  *)
(* operators their places: the command written out has the words and       *)
(* operators of the line, and parses to the same command.                  *)
ParserMatchesGrammar ==
  LET c == parsecmd(toks) IN
  /\ c # Err <=> IsLine(toks)
  /\ c # Err => /\ parsecmd(Text(c)) = c
                /\ \A t \in {"w", "|", "&", ";", "<", ">", ">>"} : Count(Text(c), {t}) = Count(toks, {t})

(* runcmd starts every program with its input and output where the command *)
(* says, and with no other descriptor of a pipe: a reader of a pipe sees   *)
(* its end once the writers exit.                                          *)
Plumbing ==
  LET std == [fd \in FDs |-> IF fd <= 2 THEN Tty ELSE Closed0]
      c == parsecmd(toks)
  IN runcmd(c, std, <<>>) =
       {[me |-> x.me, fds |-> [fd \in FDs |-> CASE fd = 0 -> x.in [] fd = 1 -> x.out [] fd = 2 -> Tty [] OTHER -> Closed0]] :
          x \in Wiring(c, Tty, Tty, <<>>)}
=============================================================================
