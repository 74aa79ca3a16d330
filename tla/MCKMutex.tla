------------------------------ MODULE MCKMutex ------------------------------
(* Small instances of KMutex for TLC. *)
EXTENDS KMutex

(* An id beyond the array, which every call refuses. *)
BeyondArray == {MAX_MUTEXES + 1}
=============================================================================
