--------------------------- MODULE TournamentTree ---------------------------
(***************************************************************************)
(* The tournament tree of tournament_tree.c, a lock in user space made of  *)
(* kernel mutexes.                                                         *)
(*                                                                         *)
(* A kernel mutex appears by what its callers observe (module KMutex):     *)
(* alloc returns the new mutex_num, or -1 when MAX_MUTEXES are in use;     *)
(* lock and unlock of a valid id return 0 at once, because they work on    *)
(* copies; dealloc is always called with the value of nodes[i] < 0, which  *)
(* is 0, and looks at the word before the array, here before.              *)
(*                                                                         *)
(* One thread makes and frees trees; the contenders acquire and release    *)
(* them under IDs of 0 .. 2^depth - 1, no two at once with the same ID.  A *)
(* contender goes on to release even when acquire refused it, as sanity.c  *)
(* does.                                                                   *)
(***************************************************************************)
EXTENDS Integers, Sequences, FiniteSets

CONSTANTS
  Contenders,
  TreeNames,
  Depths,        \* depths passed to trnmnt_tree_alloc
  MAX_MUTEXES

ASSUME TreeAssumption == Depths \subseteq Nat /\ MAX_MUTEXES \in Nat

VARIABLES
  forest,        \* trees that trnmnt_tree_alloc returned: name -> [depth, nodes]
  making,        \* the call in progress on trees: [op, tree, depth, nodes, i]
  mutex_num,     \* the kernel's count of mutexes
  before,        \* the word that dealloc(0) takes for mutex.locked
  walk           \* per contender: [op, tree, id, current, path]

treeVars == <<forest, making, mutex_num, before, walk>>

power(b, n) == b ^ n
nodes_num(depth) == power(2, depth)
father(n) == (n - 1) \div 2

NotMaking == [op |-> "idle", tree |-> "none", depth |-> 0, nodes |-> << >>, i |-> 0]
Outside == [op |-> "out", tree |-> "none", id |-> 0, current |-> 0, path |-> << >>]

TreeInit ==
  /\ forest = << >> /\ making = NotMaking /\ mutex_num = 0 /\ before \in {0, 1}
  /\ walk = [t \in Contenders |-> Outside]

-----------------------------------------------------------------------------
(* trnmnt_tree_alloc: one mutex per step; a refused mutex gives up the     *)
(* tree and keeps the mutexes it has.                                      *)
AllocTree(s, d) ==
  /\ making = NotMaking /\ s \notin DOMAIN forest /\ d >= 1
  /\ making' = [NotMaking EXCEPT !.op = "alloc", !.tree = s, !.depth = d]
  /\ UNCHANGED <<forest, mutex_num, before, walk>>

AllocNode ==
  /\ making.op = "alloc" /\ Len(making.nodes) < nodes_num(making.depth)
  /\ IF mutex_num = MAX_MUTEXES
     THEN making' = NotMaking /\ mutex_num' = mutex_num
     ELSE /\ mutex_num' = mutex_num + 1
          /\ making' = [making EXCEPT !.nodes = Append(@, mutex_num')]
  /\ UNCHANGED <<forest, before, walk>>

TreeReady ==
  /\ making.op = "alloc" /\ Len(making.nodes) = nodes_num(making.depth)
  /\ forest' = [s \in DOMAIN forest \union {making.tree} |->
                  IF s = making.tree THEN [depth |-> making.depth, nodes |-> making.nodes]
                                     ELSE forest[s]]
  /\ making' = NotMaking
  /\ UNCHANGED <<mutex_num, before, walk>>

(* trnmnt_tree_dealloc, of the tree made last, when nobody is in it. *)
MadeLast(s) == \A r \in DOMAIN forest : forest[r].nodes[1] <= forest[s].nodes[1]

FreeTree(s) ==
  /\ making = NotMaking /\ MadeLast(s) /\ \A t \in Contenders : walk[t].tree # s
  /\ making' = [NotMaking EXCEPT !.op = "dealloc", !.tree = s, !.depth = forest[s].depth]
  /\ UNCHANGED <<forest, mutex_num, before, walk>>

FreeNode_again ==
  /\ making.op = "dealloc" /\ making.i <= nodes_num(making.depth)
  /\ IF before # 0
     THEN making' = NotMaking /\ mutex_num' = mutex_num
     ELSE mutex_num' = mutex_num - 1 /\ making' = [making EXCEPT !.i = @ + 1]
  /\ UNCHANGED <<forest, before, walk>>
FreeNode ==
  /\ making.op = "dealloc" /\ making.i < nodes_num(making.depth)
  /\ IF before # 0
     THEN making' = NotMaking /\ mutex_num' = mutex_num
     ELSE mutex_num' = mutex_num - 1 /\ making' = [making EXCEPT !.i = @ + 1]
  /\ UNCHANGED <<forest, before, walk>>

TreeGone ==
  /\ making.op = "dealloc" /\ making.i >= nodes_num(making.depth)
  /\ forest' = [s \in DOMAIN forest \ {making.tree} |-> forest[s]]
  /\ making' = NotMaking
  /\ UNCHANGED <<mutex_num, before, walk>>

-----------------------------------------------------------------------------
(* trnmnt_tree_acquire: refuse the ID or climb from its leaf, locking the  *)
(* father at every step; path collects the nodes locked.  The locks do not *)
(* fail: a node of a tree holds a valid id.                                *)
Leaf(num, id) == num - 1 + id

AcquireTree(t, s, id) ==
  LET num == nodes_num(forest[s].depth) IN
  /\ walk[t] = Outside /\ making.tree # s
  /\ id < num /\ \A u \in Contenders : ~(walk[u].tree = s /\ walk[u].id = id)
  /\ walk' = [walk EXCEPT ![t] =
       IF id > 0 \/ id > num
       THEN [Outside EXCEPT !.op = "refused", !.tree = s, !.id = id]
       ELSE [op |-> "climb", tree |-> s, id |-> id, current |-> Leaf(num, id), path |-> << >>]]
  /\ UNCHANGED <<forest, making, mutex_num, before>>

Climb(t) ==
  LET w == walk[t] IN
  /\ w.op = "climb"
  /\ walk' = [walk EXCEPT ![t] =
       IF w.current = 0 THEN [w EXCEPT !.op = "in"]
       ELSE [w EXCEPT !.current = father(w.current), !.path = Append(w.path, father(w.current))]]
  /\ UNCHANGED <<forest, making, mutex_num, before>>

(* trnmnt_tree_release: the recursion unlocks from the root down to the    *)
(* node numbered ID.                                                       *)
Down[n \in Nat] == IF n = 0 THEN <<0>> ELSE Append(Down[father(n)], n)

ReleaseTree(t) ==
  /\ walk[t].op \in {"in", "refused"}
  /\ walk' = [walk EXCEPT ![t].op = "release", ![t].path = Down[walk[t].id]]
  /\ UNCHANGED <<forest, making, mutex_num, before>>

UnlockNode(t) ==
  /\ walk[t].op = "release"
  /\ walk' = [walk EXCEPT ![t] = IF Len(@.path) > 1 THEN [@ EXCEPT !.path = Tail(@)] ELSE Outside]
  /\ UNCHANGED <<forest, making, mutex_num, before>>

TreeNext ==
  \/ \E s \in TreeNames, d \in Depths : AllocTree(s, d)
  \/ AllocNode \/ TreeReady
  \/ \E s \in DOMAIN forest : FreeTree(s)
  \/ FreeNode \/ TreeGone
  \/ \E t \in Contenders, s \in DOMAIN forest :
       \E id \in 0 .. nodes_num(forest[s].depth) - 1 : AcquireTree(t, s, id)
  \/ \E t \in Contenders : Climb(t) \/ ReleaseTree(t) \/ UnlockNode(t)

-----------------------------------------------------------------------------
(* Properties *)

(* However trees are made, given up for want of mutexes and freed last     *)
(* made first, the nodes of all trees in use are different mutexes, all of *)
(* them allocated: trnmnt_tree_alloc and dealloc count alike.  A contender *)
(* in a tree has locked one node of every level, its leaf's ancestor       *)
(* there, the root last; and every node that acquire or release touches is *)
(* one of the tree's.                                                      *)
TreeSound ==
  LET Nodes == UNION {{<<s, k>> : k \in DOMAIN forest[s].nodes} : s \in DOMAIN forest}
      Mutex(n) == forest[n[1]].nodes[n[2]]
      LevelPath(d, id) == [l \in 1 .. d |-> power(2, d - l) - 1 + id \div power(2, l)]
  IN /\ \A m, n \in Nodes :
          /\ making.op # "dealloc" => Mutex(m) \in 1 .. mutex_num
          /\ m # n => Mutex(m) # Mutex(n)
     /\ \A t \in Contenders : walk[t].op # "out" =>
          LET w == walk[t]  tree == forest[w.tree] IN
          /\ w.op = "in" => w.path = LevelPath(tree.depth, w.id)
          /\ \A k \in DOMAIN w.path : w.path[k] + 1 \in DOMAIN tree.nodes
=============================================================================
