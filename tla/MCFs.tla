-------------------------------- MODULE MCFs --------------------------------
EXTENDS FileSystem, TLC

CONSTANTS p1, p2

(* Two processes work on a directory /d, a name in it and a name in the    *)
(* root, each with calls of its own.                                       *)
Call(o, a, b) == [op |-> o, path |-> a, new |-> b]
d == <<"/", "d">>
dx == <<"/", "d", "x">>
rx == <<"/", "x">>
MCCalls ==
  p1 :> {Call("mkdir", d, <<>>), Call("create", dx, <<>>), Call("unlink", dx, <<>>), Call("chdir", d, <<>>)}
  @@ p2 :> {Call("unlink", d, <<>>), Call("unlink", dx, <<>>), Call("link", dx, rx), Call("open", dx, <<>>)}
EmptyDisk == <<>>
=============================================================================
