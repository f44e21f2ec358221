------------------------------ MODULE MCValues ------------------------------
(***************************************************************************)
(* nall's data structures, patches and files on a bench: each behaviour is *)
(* that of one of them, and the variables of the others stay as they were  *)
(* made.  Patches and files are those whose initial states are many; the   *)
(* others come with one pair of data and one file only.  The keys of the   *)
(* hash set are interchangeable: one order of their hashes stands for all. *)
(***************************************************************************)
EXTENDS Vector, SetTree, HashSet, Patches, BufferedFile

CONSTANTS
    vec1, vec2, datum, key1, key2, key3,
    SmallPool   \* the longest pool of the second vector, which the first one is
                \* copied to and from, moved to and from

Strings(n) == UNION {[1..i -> {0, 5}] : i \in 0..n}
ShortData == Strings(3)
LongData == Strings(6)

VARIABLE subject    \* what is on the bench

valueVars == <<subject, vectorVars, treeVars, hashVars, patchVars, vars>>

ValuesInit ==
    /\ subject \in {"vector", "set", "hashset", "patch", "file"}
    /\ VectorInit /\ TreeInit
    /\ HashInit
    /\ hash[key1] <= hash[key2] /\ hash[key2] <= hash[key3]
    /\ subject # "hashset" => length = 8 /\ \A key \in Keys : hash[key] = 0
    /\ PatchInit
    /\ subject # "patch" => way = "ups" /\ source = <<>> /\ product = <<>>
    /\ Init
    /\ subject # "file" => diskSize = 0

ValuesNext ==
    \/ /\ subject = "vector" /\ VectorNext /\ vector'[vec2].poolsize <= SmallPool
       /\ UNCHANGED <<subject, treeVars, hashVars, patchVars, vars>>
    \/ /\ subject = "set" /\ TreeNext
       /\ UNCHANGED <<subject, vectorVars, hashVars, patchVars, vars>>
    \/ /\ subject = "hashset" /\ HashNext
       /\ UNCHANGED <<subject, vectorVars, treeVars, patchVars, vars>>
    \/ /\ subject = "patch" /\ PatchNext
       /\ UNCHANGED <<subject, vectorVars, treeVars, hashVars, vars>>
    \/ /\ subject = "file" /\ Next
       /\ UNCHANGED <<subject, vectorVars, treeVars, hashVars, patchVars>>

ValuesSpec == ValuesInit /\ [][ValuesNext]_valueVars
=============================================================================
