------------------------------ MODULE MCStorage -----------------------------
(***************************************************************************)
(* Three components of the file system that do not share state in these    *)
(* models, side by side: part says which of them runs.                     *)
(***************************************************************************)
EXTENDS Log, Files, FileContent, TLC

VARIABLE part

MCWriteData == {<<1, 2, 1>>}
OpSymmetry == Permutations(Ops)

StorageInit == part \in {"log", "files", "content"} /\ Init /\ FileInit /\ ContentInit
StorageNext ==
  /\ UNCHANGED part
  /\ \/ part = "log" /\ Next /\ UNCHANGED <<fileVars, contentVars>>
     \/ part = "files" /\ FileNext /\ UNCHANGED <<vars, contentVars>>
     \/ part = "content" /\ ContentNext /\ UNCHANGED <<vars, fileVars>>
StorageSpec == StorageInit /\ [][StorageNext]_<<vars, fileVars, contentVars, part>>
=============================================================================
