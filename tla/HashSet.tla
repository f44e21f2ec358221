------------------------------- MODULE HashSet ------------------------------
(***************************************************************************)
(* nall/hashset.hpp: a set of values in a pool of length cells, a power of *)
(* 2, with linear probing.  insert does not look whether the value is      *)
(* there; remove empties its cell and moves nothing.  Where the code would *)
(* read past a pool of length 0 the model does not go.  Left out: copying  *)
(* and moving whole sets.                                                  *)
(***************************************************************************)
EXTENDS Integers

CONSTANTS
    Keys,       \* the values
    Empty,      \* a cell without a value
    MaxHash,    \* the greatest hash of a value
    Lengths     \* the powers of 2 a pool may be long, up to a bound

ASSUME HashAssumption ==
    /\ Empty \notin Keys /\ MaxHash \in Nat
    /\ Lengths \subseteq Nat \ {0} /\ 8 \in Lengths

VARIABLES
    hash,       \* the hash of each value
    cells,      \* the pool; not there as long as it has no cells
    length,     \* its length, or that of the pool to be made
    count,      \* the values counted
    hit,        \* what the last call returned
    tidied      \* history: the program has kept to the rules of this module

hashVars == <<hash, cells, length, count, hit, tidied>>

NoPool == [c \in {} |-> Empty]

\* hashset() and hashset(length)
HashInit ==
    /\ hash \in [Keys -> 0..MaxHash]
    /\ cells = NoPool /\ length \in Lengths
    /\ count = 0 /\ hit = TRUE /\ tidied = TRUE

-----------------------------------------------------------------------------
\* The cells probed for k in a pool of n cells, in order: the i-th one.
Probe(k, n, i) == (hash[k] + i) % n

\* Mutant of Search: only the first cell is looked at.
SearchFirst(pool, n, k) == 0

\* The number of the first probe that finds its cell empty or with k in it; in
\* a pool full of other values the search does not end.
Search(pool, n, k) ==
    CHOOSE i \in 0..n - 1 :
        /\ pool[Probe(k, n, i)] \in {Empty, k}
        /\ \A j \in 0..i - 1 : pool[Probe(k, n, j)] \notin {Empty, k}

\* The first empty cell for k.
Vacant(pool, n, k) ==
    Probe(k, n, CHOOSE i \in 0..n - 1 :
                  /\ pool[Probe(k, n, i)] = Empty
                  /\ \A j \in 0..i - 1 : pool[Probe(k, n, j)] # Empty)

\* reserve: the values of the pool, in the order of its cells, in one of n cells.
Rehashed(pool, n) ==
    LET Filled[c \in 0..length] ==
          IF c = 0 THEN [x \in 0..n - 1 |-> Empty]
          ELSE IF c - 1 \notin DOMAIN pool \/ pool[c - 1] = Empty THEN Filled[c - 1]
          ELSE [Filled[c - 1] EXCEPT ![Vacant(Filled[c - 1], n, pool[c - 1])] = pool[c - 1]]
    IN  Filled[length]

\* bit::round
RoundedLength(n) == {s \in Lengths : n <= s /\ \A r \in Lengths : n <= r => s <= r}

\* The values counted take half of the pool at most.
Needed(n) == IF n < 2 * count THEN 2 * count ELSE n

\* reserve: room for n cells and twice the values counted.  The rule: some room.
ReserveHash(n) ==
    /\ \E s \in RoundedLength(Needed(n)) :
         cells' = Rehashed(cells, s) /\ length' = s
    /\ hit' = TRUE
    /\ UNCHANGED <<hash, count, tidied>>

\* The pool insert puts its value in: made if there is none, and twice as long
\* if it is half full.
Pools ==
    LET made == IF cells = NoPool THEN [c \in 0..length - 1 |-> Empty] ELSE cells
    IN  IF count < length \div 2 THEN {[pool |-> made, size |-> length]}
        ELSE {[pool |-> Rehashed(made, s), size |-> s] :
                s \in RoundedLength(Needed(2 * length))}

\* insert.  The rule: what is in the set is not inserted again.
InsertHash(k) ==
    /\ \E p \in Pools :
         /\ cells' = [p.pool EXCEPT ![Vacant(p.pool, p.size, k)] = k]
         /\ length' = p.size
    /\ count' = count + 1
    /\ hit' = TRUE
    /\ tidied' = (tidied /\ \A c \in DOMAIN cells : cells[c] # k)
    /\ UNCHANGED hash

\* find
FindHash(k) ==
    /\ hit' = (cells # NoPool /\ cells[Probe(k, length, Search(cells, length, k))] = k)
    /\ UNCHANGED <<hash, cells, length, count, tidied>>

\* Whether no value is in the next cell: it might have been put there because
\* cell c was taken.
MayEmpty(c) == cells[(c + 1) % length] = Empty

\* remove.  The rule: no value in the next cell is cut off from its chain.
RemoveHash(k) ==
    /\ IF cells = NoPool THEN hit' = FALSE /\ UNCHANGED <<cells, count, tidied>>
       ELSE LET c == Probe(k, length, Search(cells, length, k))
            IN  IF cells[c] = k
                THEN /\ cells' = [cells EXCEPT ![c] = Empty]
                     /\ count' = count - 1 /\ hit' = TRUE
                     /\ tidied' = (tidied /\ MayEmpty(c))
                ELSE hit' = FALSE /\ UNCHANGED <<cells, count, tidied>>
    /\ UNCHANGED <<hash, length>>

ResetHash ==
    /\ cells' = NoPool /\ length' = 8 /\ count' = 0 /\ hit' = TRUE
    /\ UNCHANGED <<hash, tidied>>

HashNext ==
    \/ \E k \in Keys : InsertHash(k) \/ FindHash(k) \/ RemoveHash(k)
    \/ \E n \in Lengths : ReserveHash(n)
    \/ ResetHash

HashSpec == HashInit /\ [][HashNext]_hashVars

-----------------------------------------------------------------------------
Kept == {cells[c] : c \in DOMAIN cells} \ {Empty}

\* The pool implements a set of values, for programs that keep to the rules:
\* what is in it is found, however hashes collide and pools grow, shrink and
\* wrap around, and there is always an empty cell to end a search.
Cells == INSTANCE ValueSet WITH members <- Kept, reply <- hit
HashImplements ==
    [][tidied' => /\ ResetHash => Cells!Clears
                  /\ \A n \in Lengths : ReserveHash(n) => Cells!Stays
                  /\ \A k \in Keys : /\ InsertHash(k) => Cells!Inserts(k)
                                     /\ RemoveHash(k) => Cells!Removes(k)
                                     /\ FindHash(k) => Cells!Finds(k)]_hashVars
=============================================================================
