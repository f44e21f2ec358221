-------------------------------- MODULE Vector ------------------------------
(***************************************************************************)
(* nall/vector.hpp: vectors kept in pools of memory.  A pool has poolsize  *)
(* cells; objectsize objects lie in it from cell poolbase on, so that      *)
(* there may be room on either side.  Counts are unsigned: arithmetic is   *)
(* modulo Word.  Cells outside of the objects hold Blank in the model,      *)
(* whatever is left in them in the program.                                *)
(*                                                                         *)
(* insert is left out: it does not compile.  sort is nall/sort.hpp's.      *)
(***************************************************************************)
EXTENDS Integers, Sequences, SequencesExt

CONSTANTS
    Vectors,    \* the vectors of the program
    Data,       \* what they hold
    Blank,       \* T()
    Thrown,     \* exception_out_of_bounds
    Sizes,      \* what bit::round rounds to: in the code 0 and the powers of 2;
                \* a vector that would grow past the last one does not
    MaxObjects, \* the most objects in a vector, before a remove that wraps around
    Word        \* 2^32 in the code

ASSUME VectorAssumption ==
    /\ Blank \notin Data
    /\ Sizes \subseteq Nat
    /\ MaxObjects \in Nat /\ Word \in Nat /\ MaxObjects + 1 < Word

VARIABLES
    vector,     \* pool, poolbase, poolsize and objectsize of each
    answer,     \* what the last call returned, or Thrown
    sane        \* history: no remove has wrapped around, nothing was taken that is
                \* not there, and no vector has been assigned to itself or had its
                \* own element appended as it grew

vectorVars == <<vector, answer, sane>>

None == [pool |-> [c \in {} |-> Blank], poolbase |-> 0, poolsize |-> 0, objectsize |-> 0]

VectorInit ==
    /\ vector = [v \in Vectors |-> None]
    /\ answer = Blank /\ sane = TRUE

Back == Word - 1    \* ~0u
Plus(i, j) == IF i + j < Word THEN i + j ELSE i + j - Word
Minus(i, j) == IF j <= i THEN i - j ELSE i - j + Word

-----------------------------------------------------------------------------
\* A pool of n cells with the first k objects of x, from cell b on.
Pool(x, n, b, k) ==
    [c \in 0..n - 1 |-> IF c >= b /\ c < b + k /\ c < b + x.objectsize
                        THEN x.pool[x.poolbase + c - b] ELSE Blank]

\* bit::round
Rounds(n) == {s \in Sizes : n <= s /\ \A r \in Sizes : n <= r => s <= r}

\* Mutant of Reserved: the objects go to the start of the new pool, the base does not.
ReservedInPlace(x, n) ==
    IF n <= x.poolsize THEN {x}
    ELSE {[x EXCEPT !.pool = Pool(x, s, 0, x.objectsize), !.poolsize = s] : s \in Rounds(n)}

\* reserve
Reserved(x, n) ==
    IF n <= x.poolsize THEN {x}
    ELSE {[x EXCEPT !.pool = Pool(x, s, 0, x.objectsize), !.poolbase = 0, !.poolsize = s] :
             s \in Rounds(n)}

\* append, to a vector with room for it
Added(x, d) ==
    [x EXCEPT !.pool[x.poolbase + x.objectsize] = d, !.objectsize = x.objectsize + 1]

Greater(i, j) == IF i > j THEN i ELSE j

\* Mutant of Shifted: no cell is left in front when there is one to spare.
ShiftedHalf(x) ==
    IF x.poolbase > 0 THEN x
    ELSE LET b == (x.poolsize - x.objectsize) \div 2
         IN  [x EXCEPT !.pool = Pool(x, x.poolsize, b, x.objectsize), !.poolbase = b]

\* prepend moves the objects to the middle of the room, if they are at its start.
Shifted(x) ==
    IF x.poolbase > 0 THEN x
    ELSE LET b == Greater(1, (x.poolsize - x.objectsize) \div 2)
         IN  [x EXCEPT !.pool = Pool(x, x.poolsize, b, x.objectsize), !.poolbase = b]

\* A call that keeps to the rules if r: v becomes x and a is returned.
Is(v, x, a, r) ==
    /\ vector' = [vector EXCEPT ![v] = x] /\ answer' = a
    /\ sane' = (sane /\ r)

\* The model does not go past a vector that has wrapped around.
Usable(v) == vector[v].objectsize <= MaxObjects
Room(v) == vector[v].objectsize < MaxObjects

Prepend(v, d) ==
    /\ Room(v)
    /\ \E x \in Reserved(vector[v], vector[v].objectsize + 1) :
         LET y == Shifted(x)
         IN  Is(v, [y EXCEPT !.pool[y.poolbase - 1] = d, !.poolbase = y.poolbase - 1,
                             !.objectsize = y.objectsize + 1], d, TRUE)

AppendTo(v, d) ==
    /\ Room(v)
    /\ \E x \in Reserved(vector[v], vector[v].poolbase + vector[v].objectsize + 1) :
         Is(v, Added(x, d), d, TRUE)

\* v.append(v[p]): the argument is a reference into the pool.  If that is
\* replaced, what is appended is what is left in freed memory.
AppendOwn(v, p) ==
    /\ Room(v) /\ p < vector[v].objectsize
    /\ \E x \in Reserved(vector[v], vector[v].poolbase + vector[v].objectsize + 1) :
         LET stays == x = vector[v]
         IN  \E d \in IF stays THEN {x.pool[x.poolbase + p]} ELSE Data \union {Blank} :
               Is(v, Added(x, d), d, stays)

Objects(x) == [i \in 1..x.objectsize |-> x.pool[x.poolbase + i - 1]]

AppendOnce(v, d) ==
    /\ Room(v)
    /\ IF Contains(Objects(vector[v]), d) THEN Is(v, vector[v], FALSE, TRUE)
       ELSE \E x \in Reserved(vector[v], vector[v].poolbase + vector[v].objectsize + 1) :
              Is(v, Added(x, d), TRUE, TRUE)

\* append of T(), until x has n objects: the first that finds no room makes room for all.
Lengthened(x, n) ==
    {[y EXCEPT !.pool = [c \in DOMAIN y.pool |->
                           IF c < y.poolbase + x.objectsize THEN y.pool[c] ELSE Blank],
               !.objectsize = n] :
        y \in IF x.poolbase + n <= x.poolsize THEN {x} ELSE Reserved(x, x.poolsize + 1)}

\* operator()(position): the vector is made long enough.
SetAt(v, p, d) ==
    /\ Usable(v)
    /\ \E x \in Reserved(vector[v], p + 1) :
       \E y \in IF p < x.objectsize THEN {x} ELSE Lengthened(x, p + 1) :
         Is(v, [y EXCEPT !.pool[y.poolbase + p] = d], d, TRUE)

Reserve(v, n) ==
    /\ Usable(v)
    /\ \E x \in Reserved(vector[v], n) : Is(v, x, Blank, TRUE)

Resize(v, n) ==
    /\ Usable(v)
    /\ Is(v, [pool |-> Pool(vector[v], n, 0, n), poolbase |-> 0, poolsize |-> n,
              objectsize |-> n], Blank, TRUE)

\* Objects p to p + n - 1 of x are taken out; those after them move down.
Without(x, p, n) ==
    LET end == x.poolbase + x.objectsize
    IN  IF p = 0
        THEN [x EXCEPT !.pool = [c \in DOMAIN x.pool |-> IF c < x.poolbase + n THEN Blank ELSE x.pool[c]],
                       !.poolbase = x.poolbase + n, !.objectsize = Minus(x.objectsize, n)]
        ELSE [x EXCEPT !.pool = [c \in DOMAIN x.pool |->
                                   IF c < x.poolbase + p THEN x.pool[c]
                                   ELSE IF c + n < end THEN x.pool[c + n] ELSE Blank],
                       !.objectsize = Minus(x.objectsize, n)]

\* ~0u stands for the last object, which in an empty vector is ~0u again.
Place(x, p) == IF p = Back THEN Minus(x.objectsize, 1) ELSE p

\* ~0u + 1 is 0: nothing is thrown for the last object of an empty vector.
RemoveFrom(v, p, n) ==
    /\ Usable(v)
    /\ LET x == vector[v]
           at == Place(x, p)
       IN  IF Plus(at, n) > x.objectsize THEN Is(v, x, Thrown, TRUE)
           ELSE Is(v, Without(x, at, n), Blank, at + n < Word)

\* take reads its object before remove looks whether there is one: behind the
\* objects of the vector, or in memory that is not its own.
TakeFrom(v, p) ==
    /\ Usable(v)
    /\ LET x == vector[v]
           at == Place(x, p)
       IN  IF Plus(at, 1) > x.objectsize THEN Is(v, x, Thrown, FALSE)
           ELSE Is(v, Without(x, at, 1), IF at < x.objectsize THEN x.pool[x.poolbase + at] ELSE Blank,
                   at < x.objectsize)

ReverseAll(v) ==
    /\ Usable(v)
    /\ LET x == vector[v]
           end == 2 * x.poolbase + x.objectsize - 1
       IN  Is(v, [x EXCEPT !.pool = [c \in DOMAIN x.pool |->
                    IF c >= x.poolbase /\ c < x.poolbase + x.objectsize
                    THEN x.pool[end - c] ELSE Blank]], Blank, TRUE)

ResetVector(v) == Is(v, None, Blank, TRUE)

\* v = w: v is reset first, so a vector assigned to itself is empty.
Copy(v, w) ==
    /\ Usable(w)
    /\ LET n == IF v = w THEN 0 ELSE vector[w].objectsize
       IN  \E x \in Reserved(None, n) :
             Is(v, [x EXCEPT !.pool = Pool(vector[w], x.poolsize, 0, n), !.objectsize = n], Blank, v # w)

\* v = move(w), and likewise from itself.
Move(v, w) ==
    /\ Usable(w)
    /\ vector' = [vector EXCEPT ![v] = IF v = w THEN None ELSE vector[w], ![w] = None]
    /\ answer' = Blank /\ sane' = (sane /\ v # w)

Positions == 0..MaxObjects - 1

VectorNext ==
    \E v \in Vectors :
        \/ \E d \in Data : Prepend(v, d) \/ AppendTo(v, d) \/ AppendOnce(v, d)
        \/ \E p \in Positions : AppendOwn(v, p)
        \/ \E p \in Positions, d \in Data : SetAt(v, p, d)
        \/ \E n \in 0..MaxObjects : Reserve(v, n) \/ Resize(v, n)
        \/ \E p \in Positions \union {Back}, n \in 0..2 : RemoveFrom(v, p, n)
        \/ \E p \in Positions \union {Back} : TakeFrom(v, p)
        \/ ReverseAll(v) \/ ResetVector(v)
        \/ \E w \in Vectors : Copy(v, w) \/ Move(v, w)

VectorSpec == VectorInit /\ [][VectorNext]_vectorVars

-----------------------------------------------------------------------------
\* A vector's objects lie in its pool, and the pool has the cells it is said to
\* have: so every access to an object is to memory of the vector's own.
Held(x) ==
    /\ x.poolbase \in Nat /\ x.poolsize \in Nat /\ x.objectsize \in Nat
    /\ x.poolbase + x.objectsize <= x.poolsize
    /\ x.pool \in [0..x.poolsize - 1 -> Data \union {Blank}]

\* No call writes outside of the pool.  nall/vector.hpp promises it of remove:
\* "if(position + length > objectsize) throw exception_out_of_bounds{};".
Contained == \A v \in Vectors : vector[v].poolbase + vector[v].objectsize <= vector[v].poolsize

\* The objects of every vector lie in its pool, for programs that keep to the
\* rules: through every growth at either end, shift, cut and assignment.
InPool == sane => \A v \in Vectors : Held(vector[v])

Lists == INSTANCE DataLists WITH
    items <- [v \in Vectors |-> Objects(vector[v])], result <- answer

\* Each vector implements a sequence, call by call, for programs that keep to
\* the rules; of an empty one, remove's position ~0u is not there.
Sequenced ==
    [][sane' => \A v \in Vectors :
          /\ \A d \in Data : /\ Prepend(v, d) => Lists!DoPrepend(v, d)
                             /\ AppendTo(v, d) => Lists!DoAppend(v, d)
                             /\ AppendOnce(v, d) => Lists!DoAppendOnce(v, d)
          /\ \A p \in Positions :
               /\ AppendOwn(v, p) => Lists!DoAppend(v, Objects(vector[v])[p + 1])
               /\ \A d \in Data : SetAt(v, p, d) => Lists!DoSet(v, p, d)
          /\ \A n \in 0..MaxObjects : /\ Reserve(v, n) => Lists!DoReserve
                                      /\ Resize(v, n) => Lists!DoResize(v, n)
          /\ \A p \in Positions \union {Back} :
               /\ \A n \in 0..2 : RemoveFrom(v, p, n) => Lists!DoCut(v, Place(vector[v], p), n)
               /\ TakeFrom(v, p) => Lists!DoTake(v, Place(vector[v], p))
          /\ ReverseAll(v) => Lists!DoReverse(v)
          /\ ResetVector(v) => Lists!DoReset(v)
          /\ \A w \in Vectors : /\ Copy(v, w) => Lists!DoCopy(v, w)
                                /\ Move(v, w) => Lists!DoMove(v, w)
      ]_vectorVars
=============================================================================
