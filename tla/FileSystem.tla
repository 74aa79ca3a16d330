----------------------------- MODULE FileSystem -----------------------------
(***************************************************************************)
(* Inodes, the inode cache, directories and path names (fs.c), and the     *)
(* system calls on them (sysfile.c).  A section that holds an inode's      *)
(* sleep lock and neither waits for another lock nor touches the cache     *)
(* twice is one step; a lock that is kept while the thread waits for a     *)
(* second one stays held between steps.  Every call runs inside begin_op   *)
(* and end_op, so what a crash leaves is the business of module Log.       *)
(***************************************************************************)
EXTENDS Integers, Sequences, FiniteSets, FiniteSetsExt

CONSTANTS
  FsProcs, NoProc,
  FNames,        \* names of directory entries other than the dots
  NINODES,       \* inodes on disk; ROOTINO is 1
  NINODE,        \* slots of the inode cache
  InitFiles,     \* the names mkfs was given, a sequence
  Calls          \* the calls each process makes: [op, path, new]

Inum == 1 .. NINODES
Slot == 1 .. NINODE
Entry == FNames \union {".", ".."}

(* A path is a sequence of names, after a "/" if it starts at the root. *)
Absolute(path) == path # <<>> /\ Head(path) = "/"
PathName == {path \in Seq(Entry \union {"/"}) : (IF Absolute(path) THEN Tail(path) ELSE path) \in Seq(Entry)}
Operations == {"open", "chdir", "link", "unlink", "create", "mkdir", "mknod"}

ASSUME FsAssumption ==
  /\ NINODES \in Nat /\ NINODE \in Nat \ {0} /\ InitFiles \in Seq(FNames) /\ Len(InitFiles) < NINODES
  /\ NoProc \notin FsProcs /\ "." \notin FNames /\ ".." \notin FNames
  /\ IsFiniteSet(FsProcs)
ASSUME CallAssumption ==
  \A p \in FsProcs : Calls[p] \subseteq [op : Operations, path : PathName, new : PathName]

VARIABLES
  dinode,        \* type and nlink of the inodes on disk
  dent,          \* content of the directories: inum of each name, 0 for none
  inode,         \* the cache: inum, ref, valid and the copy of type and nlink
  ilk,           \* who holds the sleep lock of each slot
  cwd, ofile,    \* slots each process keeps: directory, open file (or 0)
  th,            \* the call each process is in
  fsHalt         \* "no", or a panic: "full" (cache or disk), "broken"

fsVars == <<dinode, dent, inode, ilk, cwd, ofile, th, fsHalt>>

User == [pc |-> "user", call |-> [op |-> "none", path |-> <<>>, new |-> <<>>], goal |-> "user",
         rest |-> <<>>, cur |-> 0, ip |-> 0, dp |-> 0, put |-> 0, then |-> "user"]
NoEntries == [n \in Entry |-> 0]

(* mkfs makes the root directory and a file for each name; userinit's      *)
(* process, and those forked from it, start in the root directory.         *)
FsInit ==
  /\ dinode = [i \in Inum |-> IF i = 1 THEN [type |-> "dir", nlink |-> 1]
                              ELSE IF i <= Len(InitFiles) + 1 THEN [type |-> "file", nlink |-> 1]
                              ELSE [type |-> "free", nlink |-> 0]]
  /\ dent = [i \in Inum |-> IF i # 1 THEN NoEntries
               ELSE [n \in Entry |-> IF n \in {".", ".."} THEN 1
                       ELSE IF \E k \in DOMAIN InitFiles : InitFiles[k] = n
                            THEN 1 + CHOOSE k \in DOMAIN InitFiles : InitFiles[k] = n ELSE 0]]
  /\ inode = [s \in Slot |-> [inum |-> IF s = 1 THEN 1 ELSE 0, ref |-> IF s = 1 THEN Cardinality(FsProcs) ELSE 0,
                              valid |-> FALSE, type |-> "free", nlink |-> 0]]
  /\ ilk = [s \in Slot |-> NoProc]
  /\ cwd = [p \in FsProcs |-> 1] /\ ofile = [p \in FsProcs |-> 0]
  /\ th = [p \in FsProcs |-> User] /\ fsHalt = "no"

-----------------------------------------------------------------------------
(* The inode cache *)

(* iget: the slot that has the inode, or the first free one; 0 is a panic. *)
SlotFor(i) ==
  LET cached == {s \in Slot : inode[s].ref > 0 /\ inode[s].inum = i}
      empty == {s \in Slot : inode[s].ref = 0}
  IN IF cached # {} THEN Min(cached) ELSE IF empty # {} THEN Min(empty) ELSE 0
Full(i) == IF SlotFor(i) = 0 THEN "full" ELSE fsHalt
iget(ino, i) ==
  LET s == SlotFor(i) IN
  IF s = 0 THEN ino
  ELSE IF inode[s].ref > 0 THEN [ino EXCEPT ![s].ref = @ + 1]
  ELSE [ino EXCEPT ![s] = [@ EXCEPT !.inum = i, !.ref = 1, !.valid = FALSE]]

(* ilock's part after the lock is taken: read the inode if need be. *)
Load(s) ==
  IF inode[s].valid THEN inode
  ELSE [inode EXCEPT ![s] = [@ EXCEPT !.valid = TRUE, !.type = dinode[inode[s].inum].type,
                                      !.nlink = dinode[inode[s].inum].nlink]]
NoType(s) == IF ~inode[s].valid /\ dinode[inode[s].inum].type = "free" THEN "broken" ELSE fsHalt

iupdate_none(d, ino, s) == d
iupdate(d, ino, s) == [d EXCEPT ![ino[s].inum] = [type |-> ino[s].type, nlink |-> ino[s].nlink]]
AddLink(ino, s, k) == [ino EXCEPT ![s].nlink = @ + k]

(* The slot a thread's next step locks, 0 for none. *)
Wants(t) ==
  CASE t.pc = "namex" -> IF t.rest = <<>> THEN 0 ELSE t.cur
    [] t.pc = "iput" -> t.put
    [] t.pc \in {"open", "create", "unlink", "link", "linkto", "chdir"} -> t.cur
    [] t.pc \in {"createfound", "unlinkentry", "linkbad"} -> t.ip
    [] OTHER -> 0

At(p, l) == fsHalt = "no" /\ th[p].pc = l /\ (Wants(th[p]) # 0 => ilk[Wants(th[p])] = NoProc)
Set(p, t) == th' = [th EXCEPT ![p] = t]
Then(p, l) == Set(p, IF l = "user" THEN User ELSE [th[p] EXCEPT !.pc = l])
(* iput(s), or iput of the pointer in local variable f; l comes after it. *)
Rest(t, l) == IF l = "user" THEN User ELSE t
PutSlot(p, s, l) == Set(p, [Rest(th[p], l) EXCEPT !.pc = "iput", !.put = s, !.then = l])
Put(p, f, l) == Set(p, [Rest([th[p] EXCEPT ![f] = 0], l) EXCEPT !.pc = "iput", !.put = th[p][f], !.then = l])
Failed(t) == IF t.goal = "linkto" THEN "linkbad" ELSE "user"

(* iput: with the lock, free an inode that has neither links nor other     *)
(* references (itrunc, type 0); then, the lock released, drop the          *)
(* reference.                                                              *)
LastRef_linked(s) == inode[s].valid /\ inode[s].nlink = 0
LastRef(s) == inode[s].valid /\ inode[s].nlink = 0 /\ inode[s].ref = 1
iput(p) ==
  LET s == th[p].put IN
  /\ At(p, "iput")
  /\ IF LastRef(s)
     THEN /\ dinode' = [dinode EXCEPT ![inode[s].inum].type = "free"]
          /\ dent' = [dent EXCEPT ![inode[s].inum] = NoEntries]
          /\ inode' = [inode EXCEPT ![s] = [@ EXCEPT !.type = "free", !.valid = FALSE]]
     ELSE UNCHANGED <<dinode, dent, inode>>
  /\ Then(p, "iputref")
  /\ UNCHANGED <<ilk, cwd, ofile, fsHalt>>

IputRef(p) ==
  /\ At(p, "iputref")
  /\ inode' = [inode EXCEPT ![th[p].put].ref = @ - 1]
  /\ LET l == th[p].then IN
     Set(p, [Rest(th[p], l) EXCEPT !.pc = l, !.put = 0, !.then = "user"])
  /\ UNCHANGED <<dinode, dent, ilk, cwd, ofile, fsHalt>>

-----------------------------------------------------------------------------
(* namex, for a path that starts with "/" or at the current directory *)

NamexFrom(p, t, path, goal) ==
  /\ inode' = IF Absolute(path) THEN iget(inode, 1) ELSE [inode EXCEPT ![cwd[p]].ref = @ + 1]
  /\ fsHalt' = IF Absolute(path) THEN Full(1) ELSE fsHalt
  /\ Set(p, [t EXCEPT !.pc = "namex", !.goal = goal, !.rest = IF Absolute(path) THEN Tail(path) ELSE path,
                      !.cur = IF Absolute(path) THEN SlotFor(1) ELSE cwd[p]])

Parent(t) == t.goal \in {"create", "unlink", "linkto"}

NamexEnd(p) ==
  /\ At(p, "namex") /\ th[p].rest = <<>>
  /\ IF Parent(th[p]) THEN Put(p, "cur", Failed(th[p])) ELSE Then(p, th[p].goal)
  /\ UNCHANGED <<dinode, dent, inode, ilk, cwd, ofile, fsHalt>>

NamexStep(p) ==
  LET t == th[p]
      s == t.cur
      i == inode[s].inum
      next == dent[i][Head(t.rest)]
  IN /\ At(p, "namex") /\ t.rest # <<>>
     /\ IF Load(s)[s].type # "dir"
        THEN inode' = Load(s) /\ Put(p, "cur", Failed(t)) /\ fsHalt' = NoType(s)
        ELSE IF Parent(t) /\ Len(t.rest) = 1
        THEN inode' = Load(s) /\ Then(p, t.goal) /\ UNCHANGED fsHalt
        ELSE IF next = 0
        THEN inode' = Load(s) /\ Put(p, "cur", Failed(t)) /\ UNCHANGED fsHalt
        ELSE /\ inode' = iget(Load(s), next)
             /\ fsHalt' = Full(next)
             /\ Set(p, [t EXCEPT !.pc = "iput", !.put = s, !.then = "namex",
                                 !.cur = SlotFor(next), !.rest = Tail(t.rest)])
     /\ UNCHANGED <<dinode, dent, ilk, cwd, ofile>>

-----------------------------------------------------------------------------
(* System calls *)

Syscall(p, call) ==
  /\ At(p, "user")
  /\ NamexFrom(p, [User EXCEPT !.call = call], call.path,
       CASE call.op \in {"create", "mkdir", "mknod"} -> "create"
         [] OTHER -> call.op)
  /\ UNCHANGED <<dinode, dent, ilk, cwd, ofile>>

(* sys_close, and fileclose of the last reference. *)
sys_close(p) ==
  /\ At(p, "user") /\ ofile[p] # 0
  /\ ofile' = [ofile EXCEPT ![p] = 0]
  /\ PutSlot(p, ofile[p], "user")
  /\ UNCHANGED <<dinode, dent, inode, ilk, cwd, fsHalt>>

(* sys_open's end with the inode in f locked: a descriptor, or iunlockput. *)
Opened_leak(p, f) ==
  /\ Then(p, "user")
  /\ ofile' = IF ofile[p] = 0 THEN [ofile EXCEPT ![p] = th[p][f]] ELSE ofile
Opened(p, f) ==
  IF ofile[p] = 0
  THEN ofile' = [ofile EXCEPT ![p] = th[p][f]] /\ Then(p, "user")
  ELSE Put(p, f, "user") /\ UNCHANGED ofile

sys_open(p) ==
  LET s == th[p].cur IN
  /\ At(p, "open")
  /\ inode' = Load(s) /\ fsHalt' = NoType(s)
  /\ IF Load(s)[s].type = "dir" /\ th[p].call.new # <<>>      \* not O_RDONLY
     THEN Put(p, "cur", "user") /\ UNCHANGED ofile
     ELSE Opened(p, "cur")
  /\ UNCHANGED <<dinode, dent, ilk, cwd>>

sys_chdir(p) ==
  LET s == th[p].cur IN
  /\ At(p, "chdir")
  /\ inode' = Load(s) /\ fsHalt' = NoType(s)
  /\ IF Load(s)[s].type # "dir" THEN Put(p, "cur", "user") ELSE PutSlot(p, cwd[p], "setcwd")
  /\ UNCHANGED <<dinode, dent, ilk, cwd, ofile>>

SetCwd(p) ==
  /\ At(p, "setcwd")
  /\ cwd' = [cwd EXCEPT ![p] = th[p].cur]
  /\ Then(p, "user")
  /\ UNCHANGED <<dinode, dent, inode, ilk, ofile, fsHalt>>

(* create: the name exists; its inode is locked once the directory's lock  *)
(* is released.                                                            *)
Name(t) == Head(t.rest)
CreateExists(p) ==
  LET t == th[p]
      i == dent[inode[t.cur].inum][Name(t)]
  IN /\ At(p, "create") /\ i # 0
     /\ inode' = iget(Load(t.cur), i)
     /\ fsHalt' = Full(i)
     /\ Set(p, [t EXCEPT !.pc = "iput", !.put = t.cur, !.cur = 0, !.then = "createfound", !.ip = SlotFor(i)])
     /\ UNCHANGED <<dinode, dent, ilk, cwd, ofile>>

CreateFound(p) ==
  LET s == th[p].ip IN
  /\ At(p, "createfound")
  /\ inode' = Load(s) /\ fsHalt' = NoType(s)
  /\ IF th[p].call.op = "create" /\ Load(s)[s].type = "file"
     THEN Opened(p, "ip") ELSE Put(p, "ip", "user") /\ UNCHANGED ofile
  /\ UNCHANGED <<dinode, dent, ilk, cwd>>

(* create: a new inode, linked into the directory.  The new inode stays    *)
(* locked while the directory is put.                                      *)
TypeOf(call) == CASE call.op = "create" -> "file" [] call.op = "mkdir" -> "dir" [] OTHER -> "dev"
FreeInum == {i \in Inum : dinode[i].type = "free"}
create(p) ==
  LET t == th[p]
      dp == t.cur
      i == Min(FreeInum)
      s == SlotFor(i)
      isdir == TypeOf(t.call) = "dir"
      loaded == IF isdir THEN AddLink(Load(dp), dp, 1) ELSE Load(dp)
      got == [iget(loaded, i) EXCEPT ![s] = [@ EXCEPT !.valid = TRUE, !.type = TypeOf(t.call), !.nlink = 1]]
  IN /\ At(p, "create") /\ dent[inode[dp].inum][Name(t)] = 0
     /\ IF FreeInum = {} \/ s = 0
        THEN fsHalt' = "full" /\ UNCHANGED <<dinode, dent, inode, ilk, th>>
        ELSE /\ inode' = got
             /\ dinode' = iupdate(iupdate(dinode, got, s), got, dp)
             /\ dent' = [dent EXCEPT ![inode[dp].inum][Name(t)] = i,
                                     ![i] = [n \in Entry |-> CASE isdir /\ n = "." -> i
                                                               [] isdir /\ n = ".." -> inode[dp].inum
                                                               [] OTHER -> 0]]
             /\ ilk' = [ilk EXCEPT ![s] = p]
             /\ Set(p, [t EXCEPT !.pc = "iput", !.put = dp, !.cur = 0, !.then = "created", !.ip = s])
             /\ UNCHANGED fsHalt
     /\ UNCHANGED <<cwd, ofile>>

Created(p) ==
  LET s == th[p].ip IN
  /\ At(p, "created")
  /\ ilk' = [ilk EXCEPT ![s] = NoProc]
  /\ IF th[p].call.op = "create" THEN Opened(p, "ip") ELSE Put(p, "ip", "user") /\ UNCHANGED ofile
  /\ UNCHANGED <<dinode, dent, inode, cwd, fsHalt>>

(* sys_unlink: lock the directory, find the entry; *)
sys_unlink(p) ==
  LET t == th[p]
      dp == t.cur
      i == dent[inode[dp].inum][Name(t)]
  IN /\ At(p, "unlink")
     /\ IF Name(t) \in {".", ".."} \/ i = 0
        THEN /\ inode' = Load(dp) /\ Put(p, "cur", "user")
             /\ UNCHANGED <<ilk, fsHalt>>
        ELSE /\ inode' = iget(Load(dp), i)
             /\ fsHalt' = Full(i)
             /\ ilk' = [ilk EXCEPT ![dp] = p]
             /\ Set(p, [t EXCEPT !.pc = "unlinkentry", !.dp = dp, !.cur = 0, !.ip = SlotFor(i)])
     /\ UNCHANGED <<dinode, dent, cwd, ofile>>

(* lock the inode, erase the entry, put the directory; *)
isdirempty(i) == \A n \in FNames : dent[i][n] = 0
UnlinkEntry(p) ==
  LET t == th[p]
      s == t.ip
      d == inode[t.dp].inum
      loaded == Load(s)
      isdir == loaded[s].type = "dir"
      updated == IF isdir THEN AddLink(loaded, t.dp, -1) ELSE loaded
  IN /\ At(p, "unlinkentry")
     /\ fsHalt' = IF loaded[s].nlink < 1 THEN "broken" ELSE NoType(s)
     /\ IF isdir /\ ~isdirempty(inode[s].inum)
        THEN /\ inode' = loaded /\ Put(p, "ip", "unlinkbad")
             /\ UNCHANGED <<dinode, dent, ilk>>
        ELSE /\ dent' = [dent EXCEPT ![d][Name(t)] = 0]
             /\ inode' = updated
             /\ dinode' = iupdate(dinode, updated, t.dp)
             /\ ilk' = [ilk EXCEPT ![t.dp] = NoProc, ![s] = p]
             /\ Put(p, "dp", "unlinked")
     /\ UNCHANGED <<cwd, ofile>>

UnlinkBad(p) ==
  /\ At(p, "unlinkbad")
  /\ ilk' = [ilk EXCEPT ![th[p].dp] = NoProc]
  /\ Put(p, "dp", "user")
  /\ UNCHANGED <<dinode, dent, inode, cwd, ofile, fsHalt>>

(* and take the link from the inode. *)
Unlinked(p) ==
  LET s == th[p].ip IN
  /\ At(p, "unlinked")
  /\ inode' = AddLink(inode, s, -1)
  /\ dinode' = iupdate(dinode, inode', s)
  /\ ilk' = [ilk EXCEPT ![s] = NoProc]
  /\ Put(p, "ip", "user")
  /\ UNCHANGED <<dent, cwd, ofile, fsHalt>>

(* sys_link: count the link first; *)
sys_link(p) ==
  LET s == th[p].cur IN
  /\ At(p, "link")
  /\ fsHalt' = NoType(s)
  /\ IF Load(s)[s].type = "dir"
     THEN inode' = Load(s) /\ Put(p, "cur", "user") /\ UNCHANGED dinode
     ELSE /\ inode' = AddLink(Load(s), s, 1)
          /\ dinode' = iupdate(dinode, inode', s)
          /\ Set(p, [th[p] EXCEPT !.pc = "linknew", !.cur = 0, !.ip = s])
  /\ UNCHANGED <<dent, ilk, cwd, ofile>>

LinkNew(p) ==
  /\ At(p, "linknew")
  /\ NamexFrom(p, th[p], th[p].call.new, "linkto")
  /\ UNCHANGED <<dinode, dent, ilk, cwd, ofile>>

(* then dirlink the new name, which puts the inode of an existing entry;   *)
dirlink(p) ==
  LET t == th[p]
      dp == t.cur
      d == inode[dp].inum
      i == dent[d][Name(t)]
  IN /\ At(p, "linkto")
     /\ IF i # 0
        THEN /\ inode' = iget(Load(dp), i)
             /\ fsHalt' = Full(i)
             /\ ilk' = [ilk EXCEPT ![dp] = p]
             /\ Set(p, [t EXCEPT !.pc = "iput", !.put = SlotFor(i), !.then = "linkdup", !.cur = 0, !.dp = dp])
             /\ UNCHANGED dent
        ELSE /\ inode' = Load(dp)
             /\ dent' = [dent EXCEPT ![d][Name(t)] = inode[t.ip].inum]
             /\ Put(p, "cur", "linked")
             /\ UNCHANGED <<ilk, fsHalt>>
     /\ UNCHANGED <<dinode, cwd, ofile>>

LinkDup(p) ==
  /\ At(p, "linkdup")
  /\ ilk' = [ilk EXCEPT ![th[p].dp] = NoProc]
  /\ Put(p, "dp", "linkbad")
  /\ UNCHANGED <<dinode, dent, inode, cwd, ofile, fsHalt>>

Linked(p) ==
  /\ At(p, "linked")
  /\ Put(p, "ip", "user")
  /\ UNCHANGED <<dinode, dent, inode, ilk, cwd, ofile, fsHalt>>

(* or take the count back. *)
LinkBad(p) ==
  LET s == th[p].ip IN
  /\ At(p, "linkbad")
  /\ inode' = AddLink(Load(s), s, -1)
  /\ dinode' = iupdate(dinode, inode', s)
  /\ Put(p, "ip", "user")
  /\ UNCHANGED <<dent, ilk, cwd, ofile, fsHalt>>

FsStep(p) ==
  \/ iput(p) \/ IputRef(p) \/ NamexEnd(p) \/ NamexStep(p)
  \/ sys_open(p) \/ sys_chdir(p) \/ SetCwd(p)
  \/ CreateExists(p) \/ CreateFound(p) \/ create(p) \/ Created(p)
  \/ sys_unlink(p) \/ UnlinkEntry(p) \/ UnlinkBad(p) \/ Unlinked(p)
  \/ sys_link(p) \/ LinkNew(p) \/ dirlink(p) \/ LinkDup(p) \/ Linked(p) \/ LinkBad(p)

FsNext == \E p \in FsProcs : FsStep(p) \/ sys_close(p) \/ \E c \in Calls[p] : Syscall(p, c)

FsSpec == FsInit /\ [][FsNext]_fsVars

-----------------------------------------------------------------------------
(* Properties *)

(* fs.c:124 "ip->ref tracks the number of in-memory pointers to the entry":*)
(* current directories, open files and the pointers of calls in progress.  *)
SettingCwd(p) == "setcwd" \in {th[p].pc, th[p].then}
Pointer == {"cwd", "ofile", "cur", "ip", "dp", "put"}
PointsTo(p, v) ==
  CASE v = "cwd" -> IF SettingCwd(p) THEN 0 ELSE cwd[p]
    [] v = "ofile" -> ofile[p]
    [] OTHER -> th[p][v]
Pointers(s) == Cardinality({v \in FsProcs \X Pointer : PointsTo(v[1], v[2]) = s})
RefExact == \A s \in Slot : inode[s].ref = Pointers(s)

(* An inode is in one slot at most, and a valid copy is what the disk has: *)
(* the cache is write-through.                                             *)
CacheCoherent ==
  /\ \A s, r \in Slot : (s # r /\ inode[s].ref > 0 /\ inode[r].ref > 0) => inode[s].inum # inode[r].inum
  /\ \A s \in Slot : (inode[s].ref > 0 /\ inode[s].valid) =>
       dinode[inode[s].inum] = [type |-> inode[s].type, nlink |-> inode[s].nlink]

(* Every inode that a directory entry names, or that somebody has open or  *)
(* works in, is allocated, and it has never fewer links than entries; so   *)
(* but for lack of room ilock, iput and unlink do not panic.               *)
Links(i) == {e \in Inum \X FNames : dent[e[1]][e[2]] = i}
InodesKept ==
  /\ \A i \in Inum : Cardinality(Links(i)) > 0 =>
       (dinode[i].type # "free" /\ Cardinality(Links(i)) <= dinode[i].nlink)
  /\ \A p \in FsProcs : \A s \in {cwd[p], ofile[p]} \ {0} :
       ~SettingCwd(p) => dinode[inode[s].inum].type # "free"
  /\ fsHalt # "broken"

(* usertests.c:855 makes calls on one name "to look for deadlocks": no two *)
(* calls wait for each other's inode.                                      *)
WaitsFor(p, q) == Wants(th[p]) # 0 /\ ilk[Wants(th[p])] = q
NoDeadlock == \A p, q \in FsProcs : ~(WaitsFor(p, q) /\ WaitsFor(q, p))

-----------------------------------------------------------------------------
(* The inductive invariant behind RefExact and CacheCoherent.  A call has  *)
(* an inode in exactly those of its variables that its place in the code   *)
(* says, counting the place it goes to after an iput.                      *)
Type == {"dir", "file", "dev", "free"}
CurAt == {"namex", "open", "chdir", "create", "unlink", "link", "linkto", "setcwd"}
IpAt == {"createfound", "created", "unlinkentry", "unlinked", "linknew", "linkto", "linkdup", "linked", "linkbad"}
DpAt == {"unlinkentry", "unlinkbad", "linkdup"}
Putting == {"iput", "iputref"}
Place == {"user"} \union CurAt \union IpAt \union DpAt
Goal == {"user", "open", "chdir", "create", "unlink", "link", "linkto"}
ThType ==
  [pc : Place \union Putting, call : [op : Operations \union {"none"}, path : PathName, new : PathName],
   goal : Goal, rest : Seq(Entry), cur : 0 .. NINODE, ip : 0 .. NINODE, dp : 0 .. NINODE, put : 0 .. NINODE,
   then : Place]

FsType ==
  /\ dinode \in [Inum -> [type : Type, nlink : Int]]
  /\ dent \in [Inum -> [Entry -> 0 .. NINODES]]
  /\ inode \in [Slot -> [inum : 0 .. NINODES, ref : Nat, valid : BOOLEAN, type : Type, nlink : Int]]
  /\ cwd \in [FsProcs -> Slot] /\ ofile \in [FsProcs -> 0 .. NINODE]
  /\ th \in [FsProcs -> ThType]
  /\ fsHalt \in {"no", "full", "broken"}

InPlace(t) ==
  LET l == IF t.pc \in Putting THEN t.then ELSE t.pc IN
  /\ t.cur # 0 <=> l \in CurAt
  /\ t.ip # 0 <=> l \in IpAt \/ (l = "namex" /\ t.goal = "linkto")
  /\ t.dp # 0 <=> l \in DpAt
  /\ t.put # 0 <=> t.pc \in Putting
  /\ t.pc \notin Putting => t.then = "user"
  /\ l = "namex" => t.goal # "user"
  /\ l \in {"create", "unlink", "linkto"} => t.rest # <<>>

FsInv ==
  /\ FsType /\ RefExact /\ CacheCoherent
  /\ \A s \in Slot : inode[s].ref > 0 => inode[s].inum \in Inum
  /\ fsHalt = "no" => \A p \in FsProcs : InPlace(th[p])
=============================================================================
