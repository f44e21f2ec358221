------------------------- MODULE Containers_proofs --------------------------
(***************************************************************************)
(* Proofs about nall's containers, for programs that keep to the rules.    *)
(*                                                                         *)
(* Vector, for every word length, every rounding of sizes and any data:    *)
(*                                                                         *)
(* ObjectsInPool: the objects of a vector lie in its pool, so no access to *)
(* an object leaves its memory.  The property is inductive; what is to be  *)
(* shown is that the room each call asks reserve for is the room it uses   *)
(* from the base it then has.                                              *)
(*                                                                         *)
(* SequencedHolds: each call does to the objects, read off the pool from   *)
(* the base on, what DataLists does to a sequence.  One lemma per helper   *)
(* says what it leaves in which cell, one per call compares it with the    *)
(* sequence element by element (ReadOff).                                  *)
(*                                                                         *)
(* HashSet, for any values, hashes and lengths of pools:                   *)
(*                                                                         *)
(* HashSetImplements: each call does to the values what ValueSet does.     *)
(* The invariant is that of linear probing, Chained, with a pool that is   *)
(* half empty.  One lemma says what a search finds, one what putting in    *)
(* does, one what taking out does, and reserve is as many puttings in, by  *)
(* induction over the cells of the old pool.                               *)
(*                                                                         *)
(* PriorityQueue, for any width of the counters and delays below half of   *)
(* their range:                                                            *)
(*                                                                         *)
(* HeapCorrect: the heap is in order, but where the hole of a loop is.     *)
(* Counters wrap around; by the clock no two of the entries are half of    *)
(* the range apart (Near), so that gte compares as it should.              *)
(*                                                                         *)
(* OnTimeHolds: turns of the loops change no set of events, and the root   *)
(* is a least one, so the queue implements Agenda.                         *)
(***************************************************************************)
EXTENDS Vector, HashSet, PriorityQueue, SequenceTheorems, FiniteSetTheorems, WellFoundedInduction, TLAPS

PoolCells == Data \union {Blank}

\* A vector: its fields, with a pool of its size.
Shape ==
    [pool : UNION {[0..s - 1 -> PoolCells] : s \in Nat},
     poolbase : Nat, poolsize : Nat, objectsize : Nat]

VectorInv ==
    /\ sane \in BOOLEAN
    /\ DOMAIN vector = Vectors
    /\ sane => \A v \in Vectors : vector[v] \in Shape /\ Held(vector[v])

\* A pool that objects of x are copied to has cells that data can be in.
LEMMA PoolType ==
  ASSUME NEW x, Held(x), NEW n \in Nat, NEW b \in Nat, NEW k \in Nat
  PROVE  Pool(x, n, b, k) \in [0..n - 1 -> PoolCells]
<1>1. ASSUME NEW c \in 0..n - 1, c >= b /\ c < b + k /\ c < b + x.objectsize
      PROVE  x.pool[x.poolbase + c - b] \in PoolCells
  <2>1. x.poolbase + c - b \in 0..x.poolsize - 1
    BY <1>1 DEF Held
  <2> QED
    BY <2>1 DEF Held, PoolCells
<1> QED
  BY <1>1 DEF Pool, PoolCells

\* reserve gives the room it is asked for, with the objects in it.
LEMMA ReservedHeld ==
  ASSUME NEW x \in Shape, Held(x), NEW n \in Nat, NEW y \in Reserved(x, n)
  PROVE  /\ y \in Shape /\ Held(y) /\ y.poolsize >= n /\ y.objectsize = x.objectsize
         /\ y = x \/ (y.poolbase = 0 /\ x.poolsize < n)
<1>1. CASE n <= x.poolsize
  <2>1. y = x
    BY <1>1 DEF Reserved
  <2> QED
    BY <1>1, <2>1 DEF Shape
<1>2. CASE ~(n <= x.poolsize)
  <2>1. PICK s \in Rounds(n) :
          y = [x EXCEPT !.pool = Pool(x, s, 0, x.objectsize), !.poolbase = 0, !.poolsize = s]
    BY <1>2 DEF Reserved
  <2>2. s \in Nat /\ n <= s
    BY VectorAssumption DEF Rounds
  <2>3. Pool(x, s, 0, x.objectsize) \in [0..s - 1 -> PoolCells]
    BY <2>2, PoolType DEF Held
  <2> DEFINE q == Pool(x, s, 0, x.objectsize)
  <2>4. /\ y.pool = q /\ y.poolbase = 0 /\ y.poolsize = s /\ y.objectsize = x.objectsize
        /\ y = [pool |-> q, poolbase |-> 0, poolsize |-> s, objectsize |-> x.objectsize]
    BY <2>1 DEF Shape
  <2> HIDE DEF q
  <2>5. q \in [0..s - 1 -> PoolCells]
    BY <2>3 DEF q
  <2>6. y \in Shape
    BY <2>2, <2>4, <2>5 DEF Shape
  <2>7. x.objectsize <= s
    BY <1>2, <2>2 DEF Held
  <2>8. Held(y)
    BY <2>2, <2>4, <2>5, <2>7 DEF Held, PoolCells, Shape
  <2> QED
    BY <1>2, <2>2, <2>4, <2>6, <2>8 DEF Shape
<1> QED
  BY <1>1, <1>2 DEF Shape

\* A call that puts x, which is held, in the place of v.
LEMMA IsKeeps ==
  ASSUME VectorInv, NEW v \in Vectors, NEW x, NEW a, NEW r \in BOOLEAN, Is(v, x, a, r),
         sane /\ r => x \in Shape /\ Held(x)
  PROVE  VectorInv'
<1>1. vector' = [vector EXCEPT ![v] = x] /\ sane' = (sane /\ r)
  BY DEF Is
<1>2. \A w \in Vectors : vector'[w] = IF w = v THEN x ELSE vector[w]
  BY <1>1 DEF VectorInv
<1>3. DOMAIN vector' = Vectors
  BY <1>1 DEF VectorInv
<1>4. ASSUME sane', NEW w \in Vectors PROVE vector'[w] \in Shape /\ Held(vector'[w])
  BY <1>1, <1>2, <1>4 DEF VectorInv
<1>5. ASSUME sane', NEW w \in Vectors PROVE vector'[w] \in Shape /\ Held(vector[w])'
  BY <1>4, <1>5 DEF Held
<1> QED
  BY <1>1, <1>3, <1>5 DEF VectorInv

\* A datum put in cell c, n objects being from cell b on then.
Put(x, c, d, b, n) == [x EXCEPT !.pool[c] = d, !.poolbase = b, !.objectsize = n]

\* A cell is set, and nothing else.
LEMMA PutSet ==
  ASSUME NEW y \in Shape, NEW c, NEW d
  PROVE  [y EXCEPT !.pool[c] = d] = Put(y, c, d, y.poolbase, y.objectsize)
BY DEF Put, Shape

\* It is put in a cell of the pool, next to the objects or among them.
LEMMA PutHeld ==
  ASSUME NEW x \in Shape, Held(x), NEW c \in 0..x.poolsize - 1, NEW d \in PoolCells,
         NEW b \in Nat, NEW n \in Nat, b + n <= x.poolsize
  PROVE  Put(x, c, d, b, n) \in Shape /\ Held(Put(x, c, d, b, n))
<1> DEFINE q == [x.pool EXCEPT ![c] = d]
           y == Put(x, c, d, b, n)
<1>1. q \in [0..x.poolsize - 1 -> PoolCells]
  BY DEF Held, PoolCells
<1>2. y = [x EXCEPT !.pool = q, !.poolbase = b, !.objectsize = n]
  BY DEF Put
<1> HIDE DEF q, y
<1>3. y = [pool |-> q, poolbase |-> b, poolsize |-> x.poolsize, objectsize |-> n]
  BY <1>2 DEF Shape
<1>4. y \in Shape /\ Held(y)
  BY <1>1, <1>3 DEF Shape, Held, PoolCells
<1> QED
  BY <1>4 DEF y

\* append, where reserve has made room for it.
LEMMA AddedHeld ==
  ASSUME NEW x \in Shape, Held(x), NEW d \in PoolCells,
         NEW y \in Reserved(x, x.poolbase + x.objectsize + 1)
  PROVE  Added(y, d) \in Shape /\ Held(Added(y, d))
<1>1. x.poolbase + x.objectsize + 1 \in Nat
  BY DEF Held
<1>2. /\ y \in Shape /\ Held(y) /\ y.objectsize = x.objectsize
      /\ y.poolsize >= x.poolbase + x.objectsize + 1
      /\ y = x \/ y.poolbase = 0
  BY <1>1, ReservedHeld
<1>3. /\ y.poolbase \in Nat /\ y.objectsize \in Nat /\ y.poolsize \in Nat
      /\ x.poolbase \in Nat /\ y.poolbase <= x.poolbase
  BY <1>2 DEF Held
<1>4. /\ y.poolbase + y.objectsize \in 0..y.poolsize - 1
      /\ y.objectsize + 1 \in Nat /\ y.poolbase + (y.objectsize + 1) <= y.poolsize
  BY <1>2, <1>3
<1>5. Added(y, d) = Put(y, y.poolbase + y.objectsize, d, y.poolbase, y.objectsize + 1)
  BY <1>2 DEF Added, Put, Shape
<1> QED
  BY <1>2, <1>3, <1>4, <1>5, PutHeld

\* The fields of a vector that is held.
LEMMA FieldsHeld ==
  ASSUME NEW b \in Nat, NEW s \in Nat, NEW n \in Nat, b + n <= s, NEW q \in [0..s - 1 -> PoolCells]
  PROVE  LET x == [pool |-> q, poolbase |-> b, poolsize |-> s, objectsize |-> n]
         IN  x \in Shape /\ Held(x)
<1> DEFINE x == [pool |-> q, poolbase |-> b, poolsize |-> s, objectsize |-> n]
<1>1. q \in UNION {[0..t - 1 -> PoolCells] : t \in Nat}
  OBVIOUS
<1>2. x \in Shape
  BY <1>1 DEF Shape
<1>3. x.pool = q /\ x.poolbase = b /\ x.poolsize = s /\ x.objectsize = n
  OBVIOUS
<1> HIDE DEF x
<1>4. Held(x)
  BY <1>3 DEF Held, PoolCells
<1> QED
  BY <1>2, <1>4 DEF x

\* prepend: Shifted leaves a cell in front.
LEMMA ShiftedHeld ==
  ASSUME NEW x \in Shape, Held(x), x.objectsize + 1 <= x.poolsize
  PROVE  /\ Shifted(x) \in Shape /\ Held(Shifted(x))
         /\ Shifted(x).poolbase > 0 /\ Shifted(x).objectsize = x.objectsize
<1>1. CASE x.poolbase > 0
  BY <1>1 DEF Shifted
<1>2. CASE ~(x.poolbase > 0)
  <2> DEFINE b == Greater(1, (x.poolsize - x.objectsize) \div 2)
             q == Pool(x, x.poolsize, b, x.objectsize)
  <2>1. b \in Nat /\ b > 0 /\ b + x.objectsize <= x.poolsize
    BY DEF Held, Greater
  <2> HIDE DEF b
  <2>2. q \in [0..x.poolsize - 1 -> PoolCells]
    BY <2>1, PoolType DEF Held
  <2>3. Shifted(x) = [pool |-> q, poolbase |-> b, poolsize |-> x.poolsize, objectsize |-> x.objectsize]
    BY <1>2 DEF Shifted, Shape, b
  <2> HIDE DEF q
  <2>4. x.poolsize \in Nat /\ x.objectsize \in Nat
    BY DEF Held
  <2>5. Shifted(x) \in Shape /\ Held(Shifted(x))
    BY <2>1, <2>2, <2>3, <2>4, FieldsHeld
  <2>6. Shifted(x).poolbase = b /\ Shifted(x).objectsize = x.objectsize
    BY <2>3
  <2> QED
    BY <2>1, <2>5, <2>6
<1> QED
  BY <1>1, <1>2

\* prepend.
LEMMA PrependKeeps ==
  ASSUME VectorInv, NEW v \in Vectors, NEW d \in Data, Prepend(v, d)
  PROVE  VectorInv'
<1>1. PICK x \in Reserved(vector[v], vector[v].objectsize + 1) :
         LET y == Shifted(x)
         IN  Is(v, [y EXCEPT !.pool[y.poolbase - 1] = d, !.poolbase = y.poolbase - 1,
                             !.objectsize = y.objectsize + 1], d, TRUE)
  BY DEF Prepend
<1> DEFINE y == Shifted(x)
           z == Put(y, y.poolbase - 1, d, y.poolbase - 1, y.objectsize + 1)
<1>2. ASSUME sane PROVE z \in Shape /\ Held(z)
  <2>1. vector[v] \in Shape /\ Held(vector[v]) /\ vector[v].objectsize + 1 \in Nat
    BY <1>2 DEF VectorInv, Held
  <2>2. x \in Shape /\ Held(x) /\ x.objectsize + 1 <= x.poolsize
    BY <2>1, ReservedHeld DEF Shape
  <2>3. y \in Shape /\ Held(y) /\ y.poolbase > 0
    BY <2>2, ShiftedHeld
  <2> HIDE DEF y
  <2>4. /\ y.poolbase - 1 \in 0..y.poolsize - 1 /\ y.poolbase - 1 \in Nat
        /\ y.objectsize + 1 \in Nat /\ y.poolbase - 1 + (y.objectsize + 1) <= y.poolsize
    BY <2>3 DEF Held
  <2> QED
    BY <2>3, <2>4, PutHeld DEF PoolCells
<1>3. Is(v, z, d, TRUE)
  BY <1>1 DEF Put
<1> HIDE DEF z
<1> QED
  BY <1>2, <1>3, IsKeeps

\* append, of any datum.
LEMMA AppendKeeps ==
  ASSUME VectorInv, NEW v \in Vectors, NEW d \in PoolCells, NEW a, NEW r \in BOOLEAN,
         NEW x \in Reserved(vector[v], vector[v].poolbase + vector[v].objectsize + 1),
         Is(v, Added(x, d), a, r)
  PROVE  VectorInv'
<1>1. sane => Added(x, d) \in Shape /\ Held(Added(x, d))
  BY AddedHeld DEF VectorInv
<1> QED
  BY <1>1, IsKeeps

\* append of one of the vector's own objects, and appendonce.
LEMMA AppendOwnKeeps ==
  ASSUME VectorInv, NEW v \in Vectors, NEW p \in Positions, AppendOwn(v, p)
  PROVE  VectorInv'
<1>1. PICK x \in Reserved(vector[v], vector[v].poolbase + vector[v].objectsize + 1) :
        LET stays == x = vector[v]
        IN  \E d \in IF stays THEN {x.pool[x.poolbase + p]} ELSE Data \union {Blank} :
              Is(v, Added(x, d), d, stays)
  BY DEF AppendOwn
<1> DEFINE stays == x = vector[v]
<1>2. PICK d \in IF stays THEN {x.pool[x.poolbase + p]} ELSE Data \union {Blank} :
        Is(v, Added(x, d), d, stays)
  BY <1>1
<1>3. ASSUME sane /\ stays PROVE d \in PoolCells
  <2>1. Held(x) /\ p \in Nat /\ p < x.objectsize /\ d = x.pool[x.poolbase + p]
    BY <1>2, <1>3 DEF VectorInv, AppendOwn, Positions
  <2>2. x.poolbase + p \in 0..x.poolsize - 1
    BY <2>1 DEF Held
  <2> QED
    BY <2>1, <2>2 DEF Held, PoolCells
<1>4. sane /\ stays => Added(x, d) \in Shape /\ Held(Added(x, d))
  BY <1>3, AddedHeld DEF VectorInv
<1> HIDE DEF stays
<1>5. stays \in BOOLEAN
  BY DEF stays
<1> QED
  BY <1>2, <1>4, <1>5, IsKeeps

LEMMA AppendOnceKeeps ==
  ASSUME VectorInv, NEW v \in Vectors, NEW d \in Data, AppendOnce(v, d)
  PROVE  VectorInv'
<1>1. CASE Is(v, vector[v], FALSE, TRUE)
  BY <1>1, IsKeeps DEF VectorInv
<1>2. CASE \E x \in Reserved(vector[v], vector[v].poolbase + vector[v].objectsize + 1) :
             Is(v, Added(x, d), TRUE, TRUE)
  BY <1>2, AppendKeeps DEF PoolCells
<1> QED
  BY <1>1, <1>2 DEF AppendOnce

\* operator(): the vector is made as long as the position calls for.
LEMMA LengthenedHeld ==
  ASSUME NEW x \in Shape, Held(x), NEW n \in Nat, x.objectsize < n, n <= x.poolsize,
         NEW z \in Lengthened(x, n)
  PROVE  /\ z \in Shape /\ Held(z) /\ z.objectsize = n
         /\ \E y \in Reserved(x, x.poolsize + 1) \union {x} :
               /\ z.poolbase = y.poolbase /\ z.poolsize = y.poolsize
               /\ \A c \in 0..y.poolsize - 1 :
                     z.pool[c] = IF c < y.poolbase + x.objectsize THEN y.pool[c] ELSE Blank
<1>1. PICK y \in IF x.poolbase + n <= x.poolsize THEN {x} ELSE Reserved(x, x.poolsize + 1) :
        z = [y EXCEPT !.pool = [c \in DOMAIN y.pool |->
                                  IF c < y.poolbase + x.objectsize THEN y.pool[c] ELSE Blank],
                      !.objectsize = n]
  BY DEF Lengthened
<1> DEFINE q == [c \in DOMAIN y.pool |-> IF c < y.poolbase + x.objectsize THEN y.pool[c] ELSE Blank]
<1>2. x.poolsize + 1 \in Nat /\ x.poolsize \in Nat /\ x.poolbase \in Nat /\ x.objectsize \in Nat
  BY DEF Held
<1>3. y \in Shape /\ Held(y) /\ y.poolbase + n <= y.poolsize
  <2>1. CASE y = x /\ x.poolbase + n <= x.poolsize
    BY <2>1
  <2>2. CASE y \in Reserved(x, x.poolsize + 1) /\ ~(x.poolbase + n <= x.poolsize)
    <3>1. y \in Shape /\ Held(y) /\ y.poolsize >= x.poolsize + 1 /\ (y = x \/ y.poolbase = 0)
      BY <1>2, <2>2, ReservedHeld
    <3>2. y.poolbase = 0 /\ y.poolsize \in Nat
      BY <1>2, <3>1 DEF Held
    <3> QED
      BY <1>2, <3>1, <3>2
  <2> QED
    BY <1>1, <2>1, <2>2
<1>4. y.pool \in [0..y.poolsize - 1 -> PoolCells] /\ DOMAIN y.pool = 0..y.poolsize - 1
  BY <1>3 DEF Held, PoolCells
<1>5. q \in [0..y.poolsize - 1 -> PoolCells]
  BY <1>4 DEF PoolCells
<1>6. \A c \in 0..y.poolsize - 1 : q[c] = IF c < y.poolbase + x.objectsize THEN y.pool[c] ELSE Blank
  BY <1>4
<1> HIDE DEF q
<1>7. z = [pool |-> q, poolbase |-> y.poolbase, poolsize |-> y.poolsize, objectsize |-> n]
  BY <1>1, <1>3 DEF Shape, q
<1>8. y.poolbase \in Nat /\ y.poolsize \in Nat
  BY <1>3 DEF Held
<1>9. z \in Shape /\ Held(z)
  BY <1>3, <1>5, <1>7, <1>8 DEF Shape, Held, PoolCells
<1>10. y \in Reserved(x, x.poolsize + 1) \union {x}
  BY <1>1
<1> QED
  BY <1>6, <1>7, <1>9, <1>10

LEMMA SetAtKeeps ==
  ASSUME VectorInv, NEW v \in Vectors, NEW p \in Positions, NEW d \in Data, SetAt(v, p, d)
  PROVE  VectorInv'
<1> DEFINE old == vector[v]
<1>1. PICK x \in Reserved(old, p + 1) :
      \E y \in IF p < x.objectsize THEN {x} ELSE Lengthened(x, p + 1) :
        Is(v, [y EXCEPT !.pool[y.poolbase + p] = d], d, TRUE)
  BY DEF SetAt
<1>2. PICK y \in IF p < x.objectsize THEN {x} ELSE Lengthened(x, p + 1) :
        Is(v, [y EXCEPT !.pool[y.poolbase + p] = d], d, TRUE)
  BY <1>1
<1> DEFINE z == [y EXCEPT !.pool[y.poolbase + p] = d]
<1>3. ASSUME sane PROVE z \in Shape /\ Held(z)
  <2>1. old \in Shape /\ Held(old) /\ p \in Nat /\ p + 1 \in Nat
    BY <1>3, VectorAssumption DEF VectorInv, Positions
  <2> HIDE DEF old
  <2>2. x \in Shape /\ Held(x) /\ x.poolsize >= p + 1 /\ x.objectsize \in Nat
    BY <2>1, ReservedHeld DEF Held
  <2>3. y \in Shape /\ Held(y) /\ p < y.objectsize
    <3>1. CASE p < x.objectsize
      BY <1>2, <2>2, <3>1
    <3>2. CASE ~(p < x.objectsize)
      <4>1. x.objectsize < p + 1 /\ p + 1 <= x.poolsize
        BY <2>1, <2>2, <3>2 DEF Held
      <4>2. y \in Shape /\ Held(y) /\ y.objectsize = p + 1
        BY <1>2, <2>1, <2>2, <3>2, <4>1, LengthenedHeld
      <4> QED
        BY <2>1, <4>2
    <3> QED
      BY <3>1, <3>2
  <2>4. /\ y.poolbase + p \in 0..y.poolsize - 1 /\ y.poolbase \in Nat /\ y.objectsize \in Nat
        /\ y.poolbase + y.objectsize <= y.poolsize
    BY <2>1, <2>3 DEF Held
  <2>5. z = Put(y, y.poolbase + p, d, y.poolbase, y.objectsize)
    BY <2>3, PutSet
  <2> QED
    BY <2>3, <2>4, <2>5, PutHeld DEF PoolCells
<1>4. Is(v, z, d, TRUE)
  BY <1>2
<1> HIDE DEF z
<1> QED
  BY <1>3, <1>4, IsKeeps

\* reserve and resize.
LEMMA ReserveKeeps ==
  ASSUME VectorInv, NEW v \in Vectors, NEW n \in 0..MaxObjects, Reserve(v, n) \/ Resize(v, n)
  PROVE  VectorInv'
<1>0. n \in Nat
  BY VectorAssumption
<1>1. CASE Reserve(v, n)
  <2>1. PICK x \in Reserved(vector[v], n) : Is(v, x, Blank, TRUE)
    BY <1>1 DEF Reserve
  <2>2. sane => x \in Shape /\ Held(x)
    BY <1>0, ReservedHeld DEF VectorInv
  <2> QED
    BY <2>1, <2>2, IsKeeps
<1>2. CASE Resize(v, n)
  <2> DEFINE q == Pool(vector[v], n, 0, n)
             x == [pool |-> q, poolbase |-> 0, poolsize |-> n, objectsize |-> n]
  <2>1. Is(v, x, Blank, TRUE)
    BY <1>2 DEF Resize
  <2>2. ASSUME sane PROVE q \in [0..n - 1 -> PoolCells]
    BY <1>0, <2>2, PoolType DEF VectorInv
  <2> HIDE DEF q
  <2>3. sane => x \in Shape /\ Held(x)
    BY <1>0, <2>2 DEF Shape, Held, PoolCells
  <2> HIDE DEF x
  <2> QED
    BY <2>1, <2>3, IsKeeps
<1> QED
  BY <1>1, <1>2

\* A vector of n objects from cell b on, in a pool of s cells.
LEMMA LaidHeld ==
  ASSUME NEW s \in Nat, NEW q \in [0..s - 1 -> PoolCells], NEW b \in Nat, NEW n \in Nat, b + n <= s,
         NEW y, y = [pool |-> q, poolbase |-> b, poolsize |-> s, objectsize |-> n]
  PROVE  y \in Shape /\ Held(y)
<1>1. y.pool = q /\ y.poolbase = b /\ y.poolsize = s /\ y.objectsize = n
  OBVIOUS
<1>2. Held(y)
  BY <1>1 DEF Held, PoolCells
<1>3. y \in Shape
  BY DEF Shape
<1> QED
  BY <1>2, <1>3

\* remove, of what is there, leaves the objects after it in the pool.
LEMMA WithoutHeld ==
  ASSUME NEW x \in Shape, Held(x), NEW p \in Nat, NEW n \in Nat, p + n <= x.objectsize
  PROVE  Without(x, p, n) \in Shape /\ Held(Without(x, p, n))
<1>1. Minus(x.objectsize, n) = x.objectsize - n /\ x.objectsize - n \in Nat
  BY DEF Minus, Held
<1>2. x.pool \in [0..x.poolsize - 1 -> PoolCells] /\ DOMAIN x.pool = 0..x.poolsize - 1
  BY DEF Held, PoolCells
<1>3. CASE p = 0
  <2> DEFINE q == [c \in DOMAIN x.pool |-> IF c < x.poolbase + n THEN Blank ELSE x.pool[c]]
  <2>1. q \in [0..x.poolsize - 1 -> PoolCells]
    BY <1>2 DEF PoolCells
  <2>2. Without(x, p, n) = [x EXCEPT !.pool = q, !.poolbase = x.poolbase + n,
                                     !.objectsize = x.objectsize - n]
    BY <1>1, <1>3 DEF Without
  <2> HIDE DEF q
  <2>3. Without(x, p, n) = [pool |-> q, poolbase |-> x.poolbase + n, poolsize |-> x.poolsize,
                            objectsize |-> x.objectsize - n]
    BY <2>2 DEF Shape
  <2>4. /\ x.poolbase + n \in Nat /\ x.poolsize \in Nat
        /\ x.poolbase + n + (x.objectsize - n) <= x.poolsize
    BY DEF Held
  <2> QED
    BY <1>1, <2>1, <2>3, <2>4, LaidHeld
<1>4. CASE p # 0
  <2> DEFINE q == [c \in DOMAIN x.pool |->
                     IF c < x.poolbase + p THEN x.pool[c]
                     ELSE IF c + n < x.poolbase + x.objectsize THEN x.pool[c + n] ELSE Blank]
  <2>1. ASSUME NEW c \in 0..x.poolsize - 1, c + n < x.poolbase + x.objectsize
        PROVE  c + n \in 0..x.poolsize - 1
    BY <2>1 DEF Held
  <2>2. q \in [0..x.poolsize - 1 -> PoolCells]
    BY <1>2, <2>1 DEF PoolCells
  <2>3. Without(x, p, n) = [x EXCEPT !.pool = q, !.objectsize = x.objectsize - n]
    BY <1>1, <1>4 DEF Without
  <2> HIDE DEF q
  <2>4. Without(x, p, n) = [pool |-> q, poolbase |-> x.poolbase, poolsize |-> x.poolsize,
                            objectsize |-> x.objectsize - n]
    BY <2>3 DEF Shape
  <2> QED
    BY <1>1, <2>2, <2>4 DEF Shape, Held, PoolCells
<1> QED
  BY <1>3, <1>4

\* An object's place, and that a cut that does not wrap around keeps it so.
LEMMA PlaceIs ==
  ASSUME NEW x, x.objectsize \in Nat, NEW p \in Positions \union {Back}
  PROVE  Place(x, p) \in Nat /\ Word \in Nat /\ Word > 1
<1>1. Word \in Nat /\ Word > 1 /\ MaxObjects \in Nat
  BY VectorAssumption
<1> QED
  BY <1>1 DEF Place, Minus, Positions, Back

LEMMA CutKeeps ==
  ASSUME VectorInv, NEW v \in Vectors, NEW p \in Positions \union {Back}, NEW n \in 0..2, NEW a,
         NEW pos, pos = Place(vector[v], p), NEW r \in BOOLEAN, r => pos + n < Word,
         ~(Plus(pos, n) > vector[v].objectsize), Is(v, Without(vector[v], pos, n), a, r)
  PROVE  VectorInv'
<1> DEFINE x == vector[v]
<1>1. ASSUME sane /\ r PROVE Without(x, pos, n) \in Shape /\ Held(Without(x, pos, n))
  <2>1. x \in Shape /\ Held(x)
    BY <1>1 DEF VectorInv
  <2>2. x.objectsize \in Nat
    BY <2>1 DEF Held
  <2> HIDE DEF x
  <2>3. pos \in Nat /\ Word \in Nat
    BY <2>2, PlaceIs DEF x
  <2>4. pos + n <= x.objectsize
    BY <1>1, <2>2, <2>3 DEF Plus, x
  <2> QED
    BY <2>1, <2>3, <2>4, WithoutHeld
<1> QED
  BY <1>1, IsKeeps

LEMMA RemoveKeeps ==
  ASSUME VectorInv, NEW v \in Vectors, NEW p \in Positions \union {Back}, NEW n \in 0..2,
         RemoveFrom(v, p, n)
  PROVE  VectorInv'
<1> DEFINE x == vector[v]
           pos == Place(x, p)
<1>1. CASE Is(v, x, Thrown, TRUE)
  BY <1>1, IsKeeps DEF VectorInv
<1>2. CASE ~(Plus(pos, n) > x.objectsize) /\ Is(v, Without(x, pos, n), Blank, pos + n < Word)
  <2>1. (pos + n < Word) \in BOOLEAN
    OBVIOUS
  <2> QED
    BY <1>2, <2>1, CutKeeps
<1> QED
  BY <1>1, <1>2 DEF RemoveFrom

LEMMA TakeKeeps ==
  ASSUME VectorInv, NEW v \in Vectors, NEW p \in Positions \union {Back}, TakeFrom(v, p)
  PROVE  VectorInv'
<1> DEFINE x == vector[v]
           pos == Place(x, p)
           a == IF pos < x.objectsize THEN x.pool[x.poolbase + pos] ELSE Blank
<1>1. CASE Is(v, x, Thrown, FALSE)
  BY <1>1, IsKeeps
<1>2. CASE ~(Plus(pos, 1) > x.objectsize) /\ Is(v, Without(x, pos, 1), a, pos < x.objectsize)
  <2>1. CASE sane
    <3>1. x.objectsize \in Nat /\ Held(x)
      BY <2>1 DEF VectorInv, Held
    <3>2. pos \in Nat /\ Word \in Nat
      BY <3>1, PlaceIs
    <3> HIDE DEF pos, a
    <3>5. x.objectsize <= MaxObjects /\ MaxObjects \in Nat /\ MaxObjects + 1 < Word
      BY VectorAssumption DEF TakeFrom, Usable
    <3>3. pos < x.objectsize => pos + 1 < Word
      BY <3>1, <3>2, <3>5
    <3> DEFINE r == pos < x.objectsize
    <3>4. r \in BOOLEAN /\ 1 \in 0..2 /\ (r => pos + 1 < Word) /\ pos = Place(vector[v], p)
      BY <3>3 DEF pos
    <3>6. ~(Plus(pos, 1) > vector[v].objectsize) /\ Is(v, Without(vector[v], pos, 1), a, r)
      BY <1>2
    <3> HIDE DEF x, r
    <3> QED
      BY <3>4, <3>6, CutKeeps
  <2>2. CASE ~sane
    <3>1. (pos < x.objectsize) \in BOOLEAN
      OBVIOUS
    <3> HIDE DEF pos, a
    <3> QED
      BY <1>2, <2>2, <3>1, IsKeeps
  <2> QED
    BY <2>1, <2>2
<1> QED
  BY <1>1, <1>2 DEF TakeFrom

\* reverse: the objects stay where the objects were.
LEMMA ReverseKeeps ==
  ASSUME VectorInv, NEW v \in Vectors, ReverseAll(v)
  PROVE  VectorInv'
<1> DEFINE x == vector[v]
           end == 2 * x.poolbase + x.objectsize - 1
           q == [c \in DOMAIN x.pool |-> IF c >= x.poolbase /\ c < x.poolbase + x.objectsize
                                         THEN x.pool[end - c] ELSE Blank]
           y == [x EXCEPT !.pool = q]
<1>1. Is(v, y, Blank, TRUE)
  BY DEF ReverseAll
<1>2. ASSUME sane PROVE y \in Shape /\ Held(y)
  <2>1. x \in Shape /\ Held(x)
    BY <1>2 DEF VectorInv
  <2> HIDE DEF x
  <2>2. x.pool \in [0..x.poolsize - 1 -> PoolCells] /\ DOMAIN x.pool = 0..x.poolsize - 1
    BY <2>1 DEF Held, PoolCells
  <2>3. ASSUME NEW c \in 0..x.poolsize - 1, c >= x.poolbase /\ c < x.poolbase + x.objectsize
        PROVE  end - c \in 0..x.poolsize - 1
    BY <2>1, <2>3 DEF Held
  <2> HIDE DEF end
  <2>4. q \in [0..x.poolsize - 1 -> PoolCells]
    BY <2>2, <2>3 DEF PoolCells
  <2> HIDE DEF q
  <2>5. y = [pool |-> q, poolbase |-> x.poolbase, poolsize |-> x.poolsize, objectsize |-> x.objectsize]
    BY <2>1 DEF Shape
  <2>6. /\ x.poolbase \in Nat /\ x.poolsize \in Nat /\ x.objectsize \in Nat
        /\ x.poolbase + x.objectsize <= x.poolsize
    BY <2>1 DEF Held
  <2> QED
    BY <2>4, <2>5, <2>6, FieldsHeld
<1> HIDE DEF y
<1> QED
  BY <1>1, <1>2, IsKeeps

\* The vector without a pool.
LEMMA NoneHeld == None \in Shape /\ Held(None)
<1> DEFINE q == [c \in {} |-> Blank]
<1>1. q \in [0..0 - 1 -> PoolCells]
  OBVIOUS
<1> HIDE DEF q
<1>2. None = [pool |-> q, poolbase |-> 0, poolsize |-> 0, objectsize |-> 0]
  BY DEF None, q
<1>3. 0 \in Nat /\ 0 + 0 <= 0
  OBVIOUS
<1> QED
  BY <1>1, <1>2, <1>3, FieldsHeld

LEMMA ResetKeeps ==
  ASSUME VectorInv, NEW v \in Vectors, ResetVector(v)
  PROVE  VectorInv'
BY NoneHeld, IsKeeps DEF ResetVector

\* A vector whose pool, and what lies in it, is replaced.
LEMMA Refilled ==
  ASSUME NEW x \in Shape, NEW s \in Nat, s = x.poolsize, NEW q \in [0..s - 1 -> PoolCells],
         NEW n \in Nat, x.poolbase = 0, n <= s
  PROVE  /\ [x EXCEPT !.pool = q, !.objectsize = n] \in Shape
         /\ Held([x EXCEPT !.pool = q, !.objectsize = n])
<1> DEFINE y == [x EXCEPT !.pool = q, !.objectsize = n]
<1>1. DOMAIN x = {"pool", "poolbase", "poolsize", "objectsize"}
  BY DEF Shape
<1>2. y.pool = q /\ y.objectsize = n /\ y.poolbase = 0 /\ y.poolsize = s
  BY <1>1
<1>3. q \in UNION {[0..r - 1 -> PoolCells] : r \in Nat}
  OBVIOUS
<1>4. y \in Shape
  BY <1>3 DEF Shape
<1> HIDE DEF y
<1>5. Held(y)
  BY <1>2 DEF Held, PoolCells
<1> QED
  BY <1>4, <1>5 DEF y

\* Assignment, by copy and by move.
LEMMA CopyKeeps ==
  ASSUME VectorInv, NEW v \in Vectors, NEW w \in Vectors, Copy(v, w)
  PROVE  VectorInv'
<1> DEFINE n == IF v = w THEN 0 ELSE vector[w].objectsize
<1>1. PICK x \in Reserved(None, n) :
        Is(v, [x EXCEPT !.pool = Pool(vector[w], x.poolsize, 0, n), !.objectsize = n], Blank, v # w)
  BY DEF Copy
<1> DEFINE q == Pool(vector[w], x.poolsize, 0, n)
           y == [x EXCEPT !.pool = q, !.objectsize = n]
<1>2. ASSUME sane PROVE y \in Shape /\ Held(y)
  <2>1. vector[w] \in Shape /\ Held(vector[w]) /\ n \in Nat
    BY <1>2 DEF VectorInv, Held
  <2> HIDE DEF n
  <2>2. x \in Shape /\ Held(x) /\ x.poolsize >= n /\ (x = None \/ x.poolbase = 0)
    BY <2>1, NoneHeld, ReservedHeld
  <2>3. x.poolbase = 0 /\ x.poolsize \in Nat
    BY <2>2 DEF None, Held
  <2>4. q \in [0..x.poolsize - 1 -> PoolCells]
    BY <2>1, <2>3, PoolType
  <2> HIDE DEF q
  <2> HIDE DEF n
  <2>5. x \in Shape /\ n <= x.poolsize
    BY <2>1, <2>2, <2>3
  <2> QED
    BY <2>1, <2>3, <2>4, <2>5, Refilled
<1>3. Is(v, y, Blank, v # w)
  BY <1>1
<1> HIDE DEF y
<1>4. (v # w) \in BOOLEAN
  OBVIOUS
<1> QED
  BY <1>2, <1>3, <1>4, IsKeeps

LEMMA MoveKeeps ==
  ASSUME VectorInv, NEW v \in Vectors, NEW w \in Vectors, Move(v, w)
  PROVE  VectorInv'
<1>1. vector' = [vector EXCEPT ![v] = IF v = w THEN None ELSE vector[w], ![w] = None]
      /\ sane' = (sane /\ v # w)
  BY DEF Move
<1>2. \A u \in Vectors : vector'[u] = IF u = w THEN None ELSE IF u = v THEN vector[w] ELSE vector[u]
  BY <1>1 DEF VectorInv
<1>3. DOMAIN vector' = Vectors
  BY <1>1 DEF VectorInv
<1>4. ASSUME sane', NEW u \in Vectors PROVE vector'[u] \in Shape /\ Held(vector[u])'
  <2>1. \A t \in Vectors : vector[t] \in Shape /\ Held(vector[t])
    BY <1>1, <1>4 DEF VectorInv
  <2>2. vector'[u] \in {None, vector[w], vector[u]}
    BY <1>2
  <2> QED
    BY <2>1, <2>2, NoneHeld DEF Held
<1> QED
  BY <1>1, <1>3, <1>4 DEF VectorInv

\* Every call keeps the objects of every vector in its pool.
LEMMA VectorStep ==
  ASSUME VectorInv, [VectorNext]_vectorVars
  PROVE  VectorInv'
<1>1. ASSUME NEW v \in Vectors, NEW d \in Data, AppendTo(v, d) PROVE VectorInv'
  BY <1>1, AppendKeeps DEF AppendTo, PoolCells
<1>2. CASE UNCHANGED vectorVars
  BY <1>2 DEF vectorVars, VectorInv, Held
<1> QED
  BY <1>1, <1>2, PrependKeeps, AppendOwnKeeps, AppendOnceKeeps, SetAtKeeps, ReserveKeeps,
     RemoveKeeps, TakeKeeps, ReverseKeeps, ResetKeeps, CopyKeeps, MoveKeeps DEF VectorNext

\* Whatever sequence of calls, growth at either end, cuts and assignments:
\* the objects of each vector lie in its pool, for programs that keep to the
\* rules, so that nothing is written or read outside of it.
THEOREM ObjectsInPool == VectorSpec => []InPool
<1>1. VectorInit => VectorInv
  BY NoneHeld DEF VectorInit, VectorInv
<1>2. VectorInv /\ [VectorNext]_vectorVars => VectorInv'
  BY VectorStep
<1>3. VectorInv => InPool
  BY DEF VectorInv, InPool
<1> QED
  BY <1>1, <1>2, <1>3, PTL DEF VectorSpec

-----------------------------------------------------------------------------
\* The objects of a vector are a sequence, read off the pool from the base on.
LEMMA ObjectsAre ==
  ASSUME NEW x \in Shape, Held(x)
  PROVE  /\ Objects(x) \in Seq(PoolCells) /\ Len(Objects(x)) = x.objectsize
         /\ x.objectsize \in Nat /\ DOMAIN Objects(x) = 1..x.objectsize
         /\ \A i \in 1..x.objectsize : Objects(x)[i] = x.pool[x.poolbase + i - 1]
<1>1. x.objectsize \in Nat /\ x.poolbase \in Nat /\ x.poolsize \in Nat
  BY DEF Held
<1> DEFINE f == Objects(x)
<1>2. ASSUME NEW i \in 1..x.objectsize PROVE f[i] = x.pool[x.poolbase + i - 1] /\ f[i] \in PoolCells
  <2>1. x.poolbase + i - 1 \in 0..x.poolsize - 1
    BY <1>1 DEF Held
  <2> QED
    BY <2>1 DEF Held, PoolCells, Objects
<1>3. f = [i \in 1..x.objectsize |-> f[i]]
  BY DEF Objects
<1>4. DOMAIN f = 1..x.objectsize
  BY DEF Objects
<1> HIDE DEF f
<1>5. [i \in 1..x.objectsize |-> f[i]] \in Seq(PoolCells)
  BY <1>1, <1>2, IsASeq
<1>6. f \in Seq(PoolCells)
  BY <1>3, <1>5
<1>7. Len(f) = x.objectsize
  BY <1>1, <1>4, <1>6, LenProperties
<1> QED
  BY <1>1, <1>2, <1>4, <1>6, <1>7 DEF f

\* Two vectors with the same objects, wherever those lie.
LEMMA SameObjects ==
  ASSUME NEW x, NEW y, x.objectsize = y.objectsize,
         \A i \in 1..x.objectsize : y.pool[y.poolbase + i - 1] = x.pool[x.poolbase + i - 1]
  PROVE  Objects(y) = Objects(x)
BY DEF Objects

\* Objects that were copied to another place are found there.
LEMMA MovedObjects ==
  ASSUME NEW x \in Shape, Held(x), NEW y \in Shape, NEW s \in Nat, NEW b \in Nat,
         b + x.objectsize <= s, y.pool = Pool(x, s, b, x.objectsize), y.poolbase = b,
         y.objectsize = x.objectsize
  PROVE  Objects(y) = Objects(x)
<1>1. x.objectsize \in Nat /\ x.poolbase \in Nat
  BY DEF Held
<1>2. ASSUME NEW i \in 1..x.objectsize
      PROVE  y.pool[b + i - 1] = x.pool[x.poolbase + i - 1]
  <2>1. /\ b + i - 1 \in 0..s - 1 /\ b + i - 1 >= b /\ b + i - 1 < b + x.objectsize
        /\ x.poolbase + (b + i - 1) - b = x.poolbase + i - 1
    BY <1>1
  <2> QED
    BY <2>1 DEF Pool
<1> QED
  BY <1>2, SameObjects

\* reserve and the shift of prepend keep the objects.
LEMMA ReservedObjects ==
  ASSUME NEW x \in Shape, Held(x), NEW n \in Nat, NEW y \in Reserved(x, n)
  PROVE  Objects(y) = Objects(x)
<1>1. CASE n <= x.poolsize
  BY <1>1 DEF Reserved
<1>2. CASE ~(n <= x.poolsize)
  <2>1. PICK s \in Rounds(n) :
          y = [x EXCEPT !.pool = Pool(x, s, 0, x.objectsize), !.poolbase = 0, !.poolsize = s]
    BY <1>2 DEF Reserved
  <2>2. s \in Nat /\ n <= s
    BY VectorAssumption DEF Rounds
  <2>3. y.pool = Pool(x, s, 0, x.objectsize) /\ y.poolbase = 0 /\ y.objectsize = x.objectsize
    BY <2>1 DEF Shape
  <2>4. 0 + x.objectsize <= s
    BY <1>2, <2>2 DEF Held
  <2>5. y \in Shape
    BY ReservedHeld
  <2> QED
    BY <2>2, <2>3, <2>4, <2>5, MovedObjects
<1> QED
  BY <1>1, <1>2 DEF Held

LEMMA ShiftedObjects ==
  ASSUME NEW x \in Shape, Held(x), x.objectsize + 1 <= x.poolsize
  PROVE  Objects(Shifted(x)) = Objects(x)
<1>1. CASE x.poolbase > 0
  BY <1>1 DEF Shifted
<1>2. CASE ~(x.poolbase > 0)
  <2> DEFINE b == Greater(1, (x.poolsize - x.objectsize) \div 2)
  <2>1. b \in Nat /\ b + x.objectsize <= x.poolsize /\ x.poolsize \in Nat
    BY DEF Held, Greater
  <2>2. Shifted(x) = [x EXCEPT !.pool = Pool(x, x.poolsize, b, x.objectsize), !.poolbase = b]
    BY <1>2 DEF Shifted
  <2> HIDE DEF b
  <2>3. /\ Shifted(x).pool = Pool(x, x.poolsize, b, x.objectsize)
        /\ Shifted(x).poolbase = b /\ Shifted(x).objectsize = x.objectsize
    BY <2>2 DEF Shape
  <2>4. Shifted(x) \in Shape
    BY ShiftedHeld
  <2> QED
    BY <2>1, <2>3, <2>4, MovedObjects
<1> QED
  BY <1>1, <1>2

\* A call that puts x in the place of v puts its objects in that of v's.
LEMMA BecomesObjects ==
  ASSUME VectorInv, NEW v \in Vectors, NEW x, NEW a, NEW r, Is(v, x, a, r),
         NEW s, Objects(x) = s
  PROVE  Lists!Becomes(v, s, a)
<1>1. vector' = [vector EXCEPT ![v] = x] /\ answer' = a
  BY DEF Is
<1>2. \A w \in Vectors : vector'[w] = IF w = v THEN x ELSE vector[w]
  BY <1>1 DEF VectorInv
<1> DEFINE old == [w \in Vectors |-> Objects(vector[w])]
           new == [w \in Vectors |-> Objects(vector'[w])]
<1>3. new = [old EXCEPT ![v] = s]
  BY <1>2
<1> QED
  BY <1>1, <1>3 DEF Lists!Becomes, Objects

\* A call that leaves the objects of all vectors as they were.
LEMMA ObjectsStay ==
  ASSUME VectorInv, NEW v \in Vectors, NEW x, NEW a, NEW r, Is(v, x, a, r),
         Objects(x) = Objects(vector[v])
  PROVE  UNCHANGED [w \in Vectors |-> Objects(vector[w])] /\ answer' = a
<1>1. vector' = [vector EXCEPT ![v] = x] /\ answer' = a
  BY DEF Is
<1>2. \A w \in Vectors : vector'[w] = IF w = v THEN x ELSE vector[w]
  BY <1>1 DEF VectorInv
<1>3. \A w \in Vectors : Objects(vector'[w]) = Objects(vector[w])
  BY <1>2
<1> QED
  BY <1>1, <1>3 DEF Objects

\* What is in the cells once a datum has been put in one.
LEMMA PutIs ==
  ASSUME NEW x \in Shape, Held(x), NEW c \in 0..x.poolsize - 1, NEW d, NEW b, NEW n
  PROVE  /\ Put(x, c, d, b, n).poolbase = b /\ Put(x, c, d, b, n).objectsize = n
         /\ \A e \in 0..x.poolsize - 1 :
               Put(x, c, d, b, n).pool[e] = IF e = c THEN d ELSE x.pool[e]
<1>1. DOMAIN x.pool = 0..x.poolsize - 1
  BY DEF Held
<1>2. /\ Put(x, c, d, b, n).pool = [x.pool EXCEPT ![c] = d]
      /\ Put(x, c, d, b, n).poolbase = b /\ Put(x, c, d, b, n).objectsize = n
  BY DEF Put, Shape
<1> QED
  BY <1>1, <1>2

\* prepend: the datum comes before all others.
LEMMA PrependIs ==
  ASSUME VectorInv, NEW v \in Vectors, NEW d \in Data, Prepend(v, d), sane'
  PROVE  Lists!DoPrepend(v, d)
<1>1. PICK x \in Reserved(vector[v], vector[v].objectsize + 1) :
        LET y == Shifted(x)
        IN  Is(v, [y EXCEPT !.pool[y.poolbase - 1] = d, !.poolbase = y.poolbase - 1,
                            !.objectsize = y.objectsize + 1], d, TRUE)
  BY DEF Prepend
<1> DEFINE y == Shifted(x)
           z == Put(y, y.poolbase - 1, d, y.poolbase - 1, y.objectsize + 1)
           s == Objects(vector[v])
<1>2. Is(v, z, d, TRUE) /\ sane
  BY <1>1 DEF Put, Is
<1>3. vector[v] \in Shape /\ Held(vector[v]) /\ vector[v].objectsize + 1 \in Nat
  BY <1>2 DEF VectorInv, Held
<1>4. x \in Shape /\ Held(x) /\ x.objectsize + 1 <= x.poolsize /\ Objects(x) = s
  BY <1>3, ReservedHeld, ReservedObjects DEF Shape
<1>5. y \in Shape /\ Held(y) /\ y.poolbase > 0 /\ Objects(y) = s
  BY <1>4, ShiftedHeld, ShiftedObjects
<1> HIDE DEF y, s
<1>6. /\ y.poolbase \in Nat /\ y.poolsize \in Nat /\ y.objectsize \in Nat
      /\ y.poolbase + y.objectsize <= y.poolsize /\ y.poolbase - 1 \in 0..y.poolsize - 1
  BY <1>5 DEF Held
<1>7. /\ z.poolbase = y.poolbase - 1 /\ z.objectsize = y.objectsize + 1
      /\ \A e \in 0..y.poolsize - 1 : z.pool[e] = IF e = y.poolbase - 1 THEN d ELSE y.pool[e]
  BY <1>5, <1>6, PutIs
<1>8. z \in Shape /\ Held(z)
  <2>1. y.poolbase - 1 \in Nat /\ y.objectsize + 1 \in Nat /\ y.poolbase - 1 + (y.objectsize + 1) <= y.poolsize
    BY <1>5, <1>6
  <2> QED
    BY <1>5, <1>6, <2>1, PutHeld DEF PoolCells
<1> HIDE DEF z
<1>9. /\ s \in Seq(PoolCells) /\ Len(s) = y.objectsize
      /\ \A i \in 1..y.objectsize : s[i] = y.pool[y.poolbase + i - 1]
  BY <1>5, ObjectsAre
<1>10. /\ Objects(z) \in Seq(PoolCells) /\ Len(Objects(z)) = y.objectsize + 1
       /\ \A i \in 1..y.objectsize + 1 : Objects(z)[i] = z.pool[y.poolbase - 1 + i - 1]
  BY <1>7, <1>8, ObjectsAre
<1>11. /\ <<d>> \in Seq(PoolCells) /\ Len(<<d>>) = 1 /\ <<d>>[1] = d
  BY DEF PoolCells
<1>12. /\ <<d>> \o s \in Seq(PoolCells) /\ Len(<<d>> \o s) = y.objectsize + 1
       /\ \A i \in 1..y.objectsize + 1 : (<<d>> \o s)[i] = IF i <= 1 THEN <<d>>[i] ELSE s[i - 1]
  <2>1. 1 + y.objectsize = y.objectsize + 1
    BY <1>6
  <2> QED
    BY <1>9, <1>11, <2>1, ConcatProperties
<1>13. ASSUME NEW i \in 1..y.objectsize + 1 PROVE Objects(z)[i] = (<<d>> \o s)[i]
  <2>1. y.poolbase - 1 + i - 1 \in 0..y.poolsize - 1
    BY <1>6, <1>5
  <2>2. CASE i = 1
    <3>1. y.poolbase - 1 + i - 1 = y.poolbase - 1
      BY <1>6, <2>2
    <3>2. Objects(z)[i] = d
      BY <1>7, <1>10, <2>1, <3>1
    <3> QED
      BY <1>11, <1>12, <2>2, <3>2
  <2>3. CASE i # 1
    <3>1. /\ i - 1 \in 1..y.objectsize /\ y.poolbase - 1 + i - 1 # y.poolbase - 1
          /\ y.poolbase - 1 + i - 1 = y.poolbase + (i - 1) - 1 /\ ~(i <= 1)
      BY <1>6, <2>3
    <3>2. Objects(z)[i] = y.pool[y.poolbase + (i - 1) - 1]
      BY <1>7, <1>10, <2>1, <3>1
    <3> QED
      BY <1>9, <1>12, <3>1, <3>2
  <2> QED
    BY <2>2, <2>3
<1>14. Objects(z) = <<d>> \o s
  BY <1>10, <1>12, <1>13, SeqEqual
<1>15. Lists!Becomes(v, <<d>> \o s, d)
  BY <1>2, <1>14, BecomesObjects
<1> QED
  BY <1>15 DEF Lists!DoPrepend, s

\* append: it comes after all others.
LEMMA AddedObjects ==
  ASSUME NEW x \in Shape, Held(x), NEW d \in PoolCells,
         NEW y \in Reserved(x, x.poolbase + x.objectsize + 1)
  PROVE  Objects(Added(y, d)) = Append(Objects(x), d)
<1> DEFINE z == Added(y, d)
           s == Objects(x)
<1>1. x.poolbase + x.objectsize + 1 \in Nat
  BY DEF Held
<1>2. /\ y \in Shape /\ Held(y) /\ y.objectsize = x.objectsize
      /\ y.poolsize >= x.poolbase + x.objectsize + 1
      /\ y = x \/ y.poolbase = 0
      /\ Objects(y) = s
  BY <1>1, ReservedHeld, ReservedObjects
<1>3. /\ y.poolbase \in Nat /\ y.objectsize \in Nat /\ y.poolsize \in Nat
      /\ x.poolbase \in Nat /\ y.poolbase <= x.poolbase
  BY <1>2 DEF Held
<1>4. y.poolbase + y.objectsize \in 0..y.poolsize - 1
  BY <1>2, <1>3
<1>5. z = Put(y, y.poolbase + y.objectsize, d, y.poolbase, y.objectsize + 1)
  BY <1>2 DEF Added, Put, Shape
<1>6. z \in Shape /\ Held(z)
  BY AddedHeld
<1> HIDE DEF z, s
<1>7. /\ z.poolbase = y.poolbase /\ z.objectsize = y.objectsize + 1
      /\ \A e \in 0..y.poolsize - 1 :
            z.pool[e] = IF e = y.poolbase + y.objectsize THEN d ELSE y.pool[e]
  BY <1>2, <1>4, <1>5, PutIs
<1>8. /\ s \in Seq(PoolCells) /\ Len(s) = y.objectsize
      /\ \A i \in 1..y.objectsize : s[i] = y.pool[y.poolbase + i - 1]
  BY <1>2, ObjectsAre
<1>9. /\ Objects(z) \in Seq(PoolCells) /\ Len(Objects(z)) = y.objectsize + 1
      /\ \A i \in 1..y.objectsize + 1 : Objects(z)[i] = z.pool[y.poolbase + i - 1]
  BY <1>6, <1>7, ObjectsAre
<1>10. /\ Append(s, d) \in Seq(PoolCells) /\ Len(Append(s, d)) = y.objectsize + 1
       /\ \A i \in 1..y.objectsize : Append(s, d)[i] = s[i]
       /\ Append(s, d)[y.objectsize + 1] = d
  BY <1>8, AppendProperties
<1>11. ASSUME NEW i \in 1..y.objectsize + 1 PROVE Objects(z)[i] = Append(s, d)[i]
  <2>1. y.poolbase + i - 1 \in 0..y.poolsize - 1
    BY <1>2, <1>3, <1>4
  <2>2. CASE i = y.objectsize + 1
    <3>1. y.poolbase + i - 1 = y.poolbase + y.objectsize
      BY <1>3, <2>2
    <3> QED
      BY <1>7, <1>9, <1>10, <2>1, <2>2, <3>1
  <2>3. CASE i # y.objectsize + 1
    <3>1. i \in 1..y.objectsize /\ y.poolbase + i - 1 # y.poolbase + y.objectsize
      BY <1>3, <2>3
    <3> QED
      BY <1>7, <1>8, <1>9, <1>10, <2>1, <3>1
  <2> QED
    BY <2>2, <2>3
<1> QED
  BY <1>9, <1>10, <1>11, SeqEqual DEF z, s

LEMMA ItemsAt ==
  ASSUME NEW v \in Vectors
  PROVE  [w \in Vectors |-> Objects(vector[w])][v] = Objects(vector[v])
OBVIOUS

LEMMA AppendedIs ==
  ASSUME VectorInv, NEW v \in Vectors, NEW d \in Data, NEW a,
         NEW x \in Reserved(vector[v], vector[v].poolbase + vector[v].objectsize + 1),
         Is(v, Added(x, d), a, TRUE), sane'
  PROVE  Lists!Becomes(v, Append(Objects(vector[v]), d), a)
<1>1. vector[v] \in Shape /\ Held(vector[v])
  BY DEF Is, VectorInv
<1>2. Objects(Added(x, d)) = Append(Objects(vector[v]), d)
  BY <1>1, AddedObjects DEF PoolCells
<1> QED
  BY <1>2, BecomesObjects

LEMMA AppendIs ==
  ASSUME VectorInv, NEW v \in Vectors, NEW d \in Data, AppendTo(v, d), sane'
  PROVE  Lists!DoAppend(v, d)
<1>1. Lists!Becomes(v, Append(Objects(vector[v]), d), d)
  BY AppendedIs DEF AppendTo
<1> QED
  BY <1>1, ItemsAt DEF Lists!DoAppend

LEMMA AppendOnceIs ==
  ASSUME VectorInv, NEW v \in Vectors, NEW d \in Data, AppendOnce(v, d), sane'
  PROVE  Lists!DoAppendOnce(v, d)
<1> DEFINE old == [w \in Vectors |-> Objects(vector[w])]
<1>0. old[v] = Objects(vector[v])
  BY ItemsAt
<1>1. CASE Contains(Objects(vector[v]), d)
  <2>1. Is(v, vector[v], FALSE, TRUE)
    BY <1>1 DEF AppendOnce
  <2>2. old' = old /\ answer' = FALSE
    BY <2>1, ObjectsStay
  <2> QED
    BY <1>0, <1>1, <2>2 DEF Lists!DoAppendOnce, Contains, Lists!Contains
<1>2. CASE ~Contains(Objects(vector[v]), d)
  <2>1. Lists!Becomes(v, Append(Objects(vector[v]), d), TRUE)
    BY <1>2, AppendedIs DEF AppendOnce
  <2> QED
    BY <1>0, <1>2, <2>1 DEF Lists!DoAppendOnce, Contains, Lists!Contains
<1> QED
  BY <1>1, <1>2

\* append of one of the vector's own objects, if the pool stays.
LEMMA AppendOwnIs ==
  ASSUME VectorInv, NEW v \in Vectors, NEW p \in Positions, AppendOwn(v, p), sane'
  PROVE  Lists!DoAppend(v, Objects(vector[v])[p + 1])
<1>1. PICK x \in Reserved(vector[v], vector[v].poolbase + vector[v].objectsize + 1) :
        LET stays == x = vector[v]
        IN  \E d \in IF stays THEN {x.pool[x.poolbase + p]} ELSE Data \union {Blank} :
              Is(v, Added(x, d), d, stays)
  BY DEF AppendOwn
<1>2. PICK d \in IF x = vector[v] THEN {x.pool[x.poolbase + p]} ELSE Data \union {Blank} :
        Is(v, Added(x, d), d, x = vector[v])
  BY <1>1
<1>3. sane /\ x = vector[v] /\ d = x.pool[x.poolbase + p]
  BY <1>2 DEF Is
<1>4. vector[v] \in Shape /\ Held(vector[v]) /\ p \in Nat /\ p < vector[v].objectsize
  BY <1>3 DEF VectorInv, AppendOwn, Positions
<1>5. /\ vector[v].objectsize \in Nat /\ vector[v].poolbase \in Nat
      /\ p + 1 \in 1..vector[v].objectsize
      /\ vector[v].poolbase + (p + 1) - 1 = vector[v].poolbase + p
  BY <1>4 DEF Held
<1>6. d = Objects(vector[v])[p + 1] /\ d \in PoolCells
  BY <1>3, <1>4, <1>5, ObjectsAre, ElementOfSeq
<1>7. Objects(Added(x, d)) = Append(Objects(vector[v]), d)
  BY <1>4, <1>6, AddedObjects
<1>8. Lists!Becomes(v, Append(Objects(vector[v]), d), d)
  BY <1>2, <1>7, BecomesObjects
<1> QED
  BY <1>5, <1>6, <1>8 DEF Lists!DoAppend

\* What the objects of a vector are, from its cells.
LEMMA ReadOff ==
  ASSUME NEW z \in Shape, Held(z), NEW s \in Seq(PoolCells), Len(s) = z.objectsize,
         \A i \in 1..z.objectsize : s[i] = z.pool[z.poolbase + i - 1]
  PROVE  Objects(z) = s
<1>1. /\ Objects(z) \in Seq(PoolCells) /\ Len(Objects(z)) = z.objectsize
      /\ \A i \in 1..z.objectsize : Objects(z)[i] = z.pool[z.poolbase + i - 1]
  BY ObjectsAre
<1>2. \A i \in 1..Len(s) : s[i] = Objects(z)[i]
  BY <1>1
<1> QED
  BY <1>1, <1>2, SeqEqual

\* A sequence that is cut, or filled up with zeros.
LEMMA SizedIs ==
  ASSUME NEW s \in Seq(PoolCells), NEW n \in Nat
  PROVE  /\ Lists!Sized(s, n) \in Seq(PoolCells) /\ Len(Lists!Sized(s, n)) = n
         /\ \A i \in 1..n : Lists!Sized(s, n)[i] = IF i <= Len(s) THEN s[i] ELSE Blank
<1> DEFINE f == [i \in 1..n |-> IF i <= Len(s) THEN s[i] ELSE Blank]
<1>1. \A i \in 1..n : f[i] = IF i <= Len(s) THEN s[i] ELSE Blank
  OBVIOUS
<1>2. ASSUME NEW i \in 1..n PROVE f[i] \in PoolCells
  <2>1. i <= Len(s) => s[i] \in PoolCells
    BY ElementOfSeq, LenProperties
  <2> QED
    BY <2>1 DEF PoolCells
<1>3. DOMAIN f = 1..n /\ f = [i \in 1..n |-> f[i]]
  OBVIOUS
<1> HIDE DEF f
<1>4. [i \in 1..n |-> f[i]] \in Seq(PoolCells)
  BY <1>2, IsASeq
<1>5. f \in Seq(PoolCells) /\ Len(f) = n
  BY <1>3, <1>4, LenProperties
<1>6. f = Lists!Sized(s, n)
  BY DEF f, Lists!Sized
<1> QED
  BY <1>1, <1>5, <1>6

\* operator(): what is set is set in the sequence made long enough.
LEMMA SetAtIs ==
  ASSUME VectorInv, NEW v \in Vectors, NEW p \in Positions, NEW d \in Data, SetAt(v, p, d), sane'
  PROVE  Lists!DoSet(v, p, d)
<1> DEFINE old == vector[v]
           s == Objects(old)
           n == IF p < Len(s) THEN Len(s) ELSE p + 1
           t == [Lists!Sized(s, n) EXCEPT ![p + 1] = d]
<1>1. PICK x \in Reserved(old, p + 1) :
      \E y \in IF p < x.objectsize THEN {x} ELSE Lengthened(x, p + 1) :
        Is(v, [y EXCEPT !.pool[y.poolbase + p] = d], d, TRUE)
  BY DEF SetAt
<1>2. PICK y \in IF p < x.objectsize THEN {x} ELSE Lengthened(x, p + 1) :
        Is(v, [y EXCEPT !.pool[y.poolbase + p] = d], d, TRUE)
  BY <1>1
<1> DEFINE z == [y EXCEPT !.pool[y.poolbase + p] = d]
<1>3. old \in Shape /\ Held(old) /\ p \in Nat /\ p + 1 \in Nat
  BY <1>2, VectorAssumption DEF VectorInv, Positions, Is
<1> HIDE DEF old
<1>4. x \in Shape /\ Held(x) /\ x.poolsize >= p + 1 /\ x.objectsize \in Nat /\ Objects(x) = s
  BY <1>3, ReservedHeld, ReservedObjects DEF Held
<1>5. /\ s \in Seq(PoolCells) /\ Len(s) = x.objectsize
      /\ \A i \in 1..x.objectsize : s[i] = x.pool[x.poolbase + i - 1]
  BY <1>4, ObjectsAre
<1> HIDE DEF s
<1>6. /\ y \in Shape /\ Held(y) /\ y.objectsize = n
      /\ \A i \in 1..n : y.pool[y.poolbase + i - 1] = IF i <= Len(s) THEN s[i] ELSE Blank
  <2>1. CASE p < x.objectsize
    BY <1>2, <1>4, <1>5, <2>1
  <2>2. CASE ~(p < x.objectsize)
    <3>1. x.objectsize < p + 1 /\ p + 1 <= x.poolsize /\ n = p + 1
      BY <1>3, <1>4, <1>5, <2>2 DEF Held
    <3>2. y \in Lengthened(x, p + 1)
      BY <1>2, <2>2
    <3>3. /\ y \in Shape /\ Held(y) /\ y.objectsize = p + 1
          /\ \E u \in Reserved(x, x.poolsize + 1) \union {x} :
               /\ y.poolbase = u.poolbase /\ y.poolsize = u.poolsize
               /\ \A c \in 0..u.poolsize - 1 :
                     y.pool[c] = IF c < u.poolbase + x.objectsize THEN u.pool[c] ELSE Blank
      BY <1>3, <1>4, <3>1, <3>2, LengthenedHeld
    <3>4. PICK u \in Reserved(x, x.poolsize + 1) \union {x} :
               /\ y.poolbase = u.poolbase /\ y.poolsize = u.poolsize
               /\ \A c \in 0..u.poolsize - 1 :
                     y.pool[c] = IF c < u.poolbase + x.objectsize THEN u.pool[c] ELSE Blank
      BY <3>3
    <3>5. x.poolsize + 1 \in Nat
      BY <1>4 DEF Held
    <3>6. u \in Shape /\ Held(u) /\ u.objectsize = x.objectsize /\ Objects(u) = s
      BY <1>4, <3>5, ReservedHeld, ReservedObjects
    <3>7. \A i \in 1..x.objectsize : s[i] = u.pool[u.poolbase + i - 1]
      BY <3>6, ObjectsAre
    <3>8. /\ u.poolbase \in Nat /\ u.poolsize \in Nat /\ u.poolbase + (p + 1) <= u.poolsize
      BY <3>3, <3>4, <3>6 DEF Held
    <3>9. ASSUME NEW i \in 1..n
          PROVE  y.pool[y.poolbase + i - 1] = IF i <= Len(s) THEN s[i] ELSE Blank
      <4>1. /\ u.poolbase + i - 1 \in 0..u.poolsize - 1
            /\ (u.poolbase + i - 1 < u.poolbase + x.objectsize) <=> i <= x.objectsize
        BY <1>3, <1>4, <3>1, <3>8
      <4>2. y.pool[y.poolbase + i - 1] = IF i <= x.objectsize THEN u.pool[u.poolbase + i - 1] ELSE Blank
        BY <3>4, <4>1
      <4> QED
        BY <1>4, <1>5, <3>7, <4>2
    <3> QED
      BY <3>1, <3>3, <3>9
  <2> QED
    BY <2>1, <2>2
<1>7. n \in Nat /\ p + 1 \in 1..n
  BY <1>3, <1>4, <1>5
<1> HIDE DEF n
<1>8. /\ y.poolbase \in Nat /\ y.poolsize \in Nat /\ y.poolbase + n <= y.poolsize
      /\ y.poolbase + p \in 0..y.poolsize - 1
  BY <1>3, <1>6, <1>7 DEF Held
<1>9. z = Put(y, y.poolbase + p, d, y.poolbase, n)
  <2>1. y \in Shape /\ n = y.objectsize
    BY <1>6
  <2>2. z = Put(y, y.poolbase + p, d, y.poolbase, y.objectsize)
    BY <2>1, PutSet
  <2> QED
    BY <2>1, <2>2
<1> HIDE DEF z
<1>10. z \in Shape /\ Held(z)
  BY <1>6, <1>7, <1>8, <1>9, PutHeld DEF PoolCells
<1>11. /\ z.poolbase = y.poolbase /\ z.objectsize = n
       /\ \A e \in 0..y.poolsize - 1 : z.pool[e] = IF e = y.poolbase + p THEN d ELSE y.pool[e]
  BY <1>6, <1>8, <1>9, PutIs
<1>12. /\ Lists!Sized(s, n) \in Seq(PoolCells) /\ Len(Lists!Sized(s, n)) = n
       /\ \A i \in 1..n : Lists!Sized(s, n)[i] = IF i <= Len(s) THEN s[i] ELSE Blank
  BY <1>5, <1>7, SizedIs
<1>13. /\ t \in Seq(PoolCells) /\ Len(t) = n
       /\ \A i \in 1..n : t[i] = IF i = p + 1 THEN d ELSE Lists!Sized(s, n)[i]
  BY <1>7, <1>12, ExceptSeq DEF PoolCells
<1> HIDE DEF t
<1>14. ASSUME NEW i \in 1..n PROVE t[i] = z.pool[z.poolbase + i - 1]
  <2>1. /\ y.poolbase + i - 1 \in 0..y.poolsize - 1
        /\ (y.poolbase + i - 1 = y.poolbase + p) <=> i = p + 1
    BY <1>3, <1>7, <1>8
  <2> QED
    BY <1>6, <1>11, <1>12, <1>13, <2>1
<1>15. Objects(z) = t
  BY <1>10, <1>11, <1>13, <1>14, ReadOff
<1>16. Is(v, z, d, TRUE)
  BY <1>2 DEF z
<1>17. Lists!Becomes(v, t, d)
  BY <1>15, <1>16, BecomesObjects
<1>18. [w \in Vectors |-> Objects(vector[w])][v] = s
  BY ItemsAt DEF s, old
<1> QED
  BY <1>17, <1>18 DEF Lists!DoSet, t, n

\* reserve moves the objects and resize cuts or fills them up.
LEMMA ReserveIs ==
  ASSUME VectorInv, NEW v \in Vectors, NEW n \in 0..MaxObjects, Reserve(v, n), sane'
  PROVE  Lists!DoReserve
<1>1. PICK x \in Reserved(vector[v], n) : Is(v, x, Blank, TRUE)
  BY DEF Reserve
<1>2. vector[v] \in Shape /\ Held(vector[v]) /\ n \in Nat
  BY <1>1, VectorAssumption DEF VectorInv, Is
<1>3. Objects(x) = Objects(vector[v])
  BY <1>2, ReservedObjects
<1>4. UNCHANGED [w \in Vectors |-> Objects(vector[w])] /\ answer' = Blank
  BY <1>1, <1>3, ObjectsStay
<1> QED
  BY <1>4 DEF Lists!DoReserve

LEMMA ResizeIs ==
  ASSUME VectorInv, NEW v \in Vectors, NEW n \in 0..MaxObjects, Resize(v, n), sane'
  PROVE  Lists!DoResize(v, n)
<1> DEFINE old == vector[v]
           s == Objects(old)
           q == Pool(old, n, 0, n)
           y == [pool |-> q, poolbase |-> 0, poolsize |-> n, objectsize |-> n]
<1>1. Is(v, y, Blank, TRUE)
  BY DEF Resize
<1>2. old \in Shape /\ Held(old) /\ n \in Nat
  BY <1>1, VectorAssumption DEF VectorInv, Is
<1> HIDE DEF old
<1>3. /\ s \in Seq(PoolCells) /\ Len(s) = old.objectsize /\ old.objectsize \in Nat
      /\ \A i \in 1..old.objectsize : s[i] = old.pool[old.poolbase + i - 1]
  BY <1>2, ObjectsAre
<1> HIDE DEF s
<1>4. old.poolbase \in Nat
  BY <1>2 DEF Held
<1>5. q \in [0..n - 1 -> PoolCells]
  BY <1>2, PoolType
<1>6. ASSUME NEW i \in 1..n PROVE q[0 + i - 1] = IF i <= Len(s) THEN s[i] ELSE Blank
  <2>1. /\ i - 1 \in 0..n - 1 /\ 0 + i - 1 = i - 1
        /\ i - 1 >= 0 /\ i - 1 < 0 + n /\ (i - 1 < 0 + old.objectsize) <=> i <= old.objectsize
        /\ old.poolbase + (i - 1) - 0 = old.poolbase + i - 1
    BY <1>2, <1>3, <1>4
  <2>2. q[i - 1] = IF i <= old.objectsize THEN old.pool[old.poolbase + i - 1] ELSE Blank
    BY <2>1 DEF Pool
  <2> QED
    BY <1>2, <1>3, <2>1, <2>2
<1> HIDE DEF q
<1>7. /\ y \in Shape /\ Held(y) /\ y.poolbase = 0 /\ y.objectsize = n /\ y.pool = q
  BY <1>2, <1>5, LaidHeld
<1> HIDE DEF y
<1>8. /\ Lists!Sized(s, n) \in Seq(PoolCells) /\ Len(Lists!Sized(s, n)) = n
      /\ \A i \in 1..n : Lists!Sized(s, n)[i] = IF i <= Len(s) THEN s[i] ELSE Blank
  BY <1>2, <1>3, SizedIs
<1>9. Objects(y) = Lists!Sized(s, n)
  BY <1>6, <1>7, <1>8, ReadOff
<1>10. Lists!Becomes(v, Lists!Sized(s, n), Blank)
  BY <1>1, <1>9, BecomesObjects
<1>11. [w \in Vectors |-> Objects(vector[w])][v] = s
  BY ItemsAt DEF s, old
<1> QED
  BY <1>10, <1>11 DEF Lists!DoResize

\* What is left where, when n objects from position p on are taken out.
LEMMA WithoutIs ==
  ASSUME NEW x \in Shape, Held(x), NEW p \in Nat, NEW n \in Nat, p + n <= x.objectsize
  PROVE  /\ Without(x, p, n).objectsize = x.objectsize - n
         /\ \A i \in 1..x.objectsize - n :
               Without(x, p, n).pool[Without(x, p, n).poolbase + i - 1]
                 = IF i <= p THEN x.pool[x.poolbase + i - 1] ELSE x.pool[x.poolbase + (i + n) - 1]
<1>1. Minus(x.objectsize, n) = x.objectsize - n
  BY DEF Minus, Held
<1>2. /\ DOMAIN x.pool = 0..x.poolsize - 1 /\ x.poolbase \in Nat /\ x.objectsize \in Nat
      /\ x.poolsize \in Nat /\ x.poolbase + x.objectsize <= x.poolsize
  BY DEF Held
<1> DEFINE y == Without(x, p, n)
<1>3. CASE p = 0
  <2> DEFINE q == [c \in DOMAIN x.pool |-> IF c < x.poolbase + n THEN Blank ELSE x.pool[c]]
  <2>1. \A c \in 0..x.poolsize - 1 : q[c] = IF c < x.poolbase + n THEN Blank ELSE x.pool[c]
    BY <1>2
  <2>2. y = [x EXCEPT !.pool = q, !.poolbase = x.poolbase + n, !.objectsize = x.objectsize - n]
    BY <1>1, <1>3 DEF Without
  <2> HIDE DEF q
  <2>3. y.pool = q /\ y.poolbase = x.poolbase + n /\ y.objectsize = x.objectsize - n
    BY <2>2 DEF Shape
  <2> HIDE DEF y
  <2>4. ASSUME NEW i \in 1..x.objectsize - n
        PROVE  y.pool[y.poolbase + i - 1] = x.pool[x.poolbase + (i + n) - 1]
    <3> DEFINE b == x.poolbase
               m == x.objectsize
               e == x.poolsize
    <3>1. b \in Nat /\ m \in Nat /\ e \in Nat /\ b + m <= e /\ i \in 1..m - n
      BY <1>2
    <3> HIDE DEF b, m, e
    <3>2. b + n + i - 1 \in 0..e - 1 /\ ~(b + n + i - 1 < b + n) /\ b + n + i - 1 = b + (i + n) - 1
      BY <3>1
    <3>3. /\ x.poolbase + n + i - 1 \in 0..x.poolsize - 1 /\ ~(x.poolbase + n + i - 1 < x.poolbase + n)
          /\ x.poolbase + n + i - 1 = x.poolbase + (i + n) - 1
      BY <3>2 DEF b, e
    <3> QED
      BY <2>1, <2>3, <3>3
  <2>5. \A i \in 1..x.objectsize - n : ~(i <= p)
    BY <1>2, <1>3
  <2> QED
    BY <2>3, <2>4, <2>5 DEF y
<1>4. CASE p # 0
  <2> DEFINE q == [c \in DOMAIN x.pool |->
                     IF c < x.poolbase + p THEN x.pool[c]
                     ELSE IF c + n < x.poolbase + x.objectsize THEN x.pool[c + n] ELSE Blank]
  <2>1. \A c \in 0..x.poolsize - 1 :
            q[c] = IF c < x.poolbase + p THEN x.pool[c]
                   ELSE IF c + n < x.poolbase + x.objectsize THEN x.pool[c + n] ELSE Blank
    BY <1>2
  <2>2. y = [x EXCEPT !.pool = q, !.objectsize = x.objectsize - n]
    BY <1>1, <1>4 DEF Without
  <2> HIDE DEF q
  <2>3. y.pool = q /\ y.poolbase = x.poolbase /\ y.objectsize = x.objectsize - n
    BY <2>2 DEF Shape
  <2> HIDE DEF y
  <2>4. ASSUME NEW i \in 1..x.objectsize - n
        PROVE  y.pool[y.poolbase + i - 1]
                 = IF i <= p THEN x.pool[x.poolbase + i - 1] ELSE x.pool[x.poolbase + (i + n) - 1]
    <3>1. /\ x.poolbase + i - 1 \in 0..x.poolsize - 1
          /\ (x.poolbase + i - 1 < x.poolbase + p) <=> i <= p
          /\ x.poolbase + i - 1 + n < x.poolbase + x.objectsize
          /\ x.poolbase + i - 1 + n = x.poolbase + (i + n) - 1
      BY <1>2
    <3> QED
      BY <2>1, <2>3, <3>1
  <2> QED
    BY <2>3, <2>4 DEF y
<1> QED
  BY <1>3, <1>4

\* The same of a sequence.
LEMMA CutIs ==
  ASSUME NEW s \in Seq(PoolCells), NEW p \in Nat, NEW n \in Nat, p + n <= Len(s)
  PROVE  /\ Lists!Cut(s, p, n) \in Seq(PoolCells) /\ Len(Lists!Cut(s, p, n)) = Len(s) - n
         /\ \A i \in 1..Len(s) - n : Lists!Cut(s, p, n)[i] = IF i <= p THEN s[i] ELSE s[i + n]
<1> DEFINE k == Len(s)
           a == SubSeq(s, 1, p)
           b == SubSeq(s, p + n + 1, k)
<1>1. k \in Nat /\ \A i \in 1..k : s[i] \in PoolCells
  BY ElementOfSeq, LenProperties
<1>2. p + n <= k
  OBVIOUS
<1> HIDE DEF k
<1>3. a \in Seq(PoolCells) /\ Len(a) = p /\ \A i \in 1..p : a[i] = s[i]
  <2>1. \A i \in 1..p : s[i] \in PoolCells
    BY <1>1, <1>2
  <2>2. /\ a \in Seq(PoolCells) /\ Len(a) = (IF 1 <= p THEN p - 1 + 1 ELSE 0)
        /\ \A i \in 1..p - 1 + 1 : a[i] = s[1 + i - 1]
    BY <2>1, SubSeqProperties
  <2>3. (IF 1 <= p THEN p - 1 + 1 ELSE 0) = p /\ p - 1 + 1 = p /\ \A i \in 1..p : 1 + i - 1 = i
    OBVIOUS
  <2> QED
    BY <2>2, <2>3
<1>4. b \in Seq(PoolCells) /\ Len(b) = k - p - n /\ \A i \in 1..k - p - n : b[i] = s[p + n + i]
  <2>1. \A i \in p + n + 1..k : s[i] \in PoolCells
    BY <1>1
  <2>2. /\ b \in Seq(PoolCells) /\ Len(b) = (IF p + n + 1 <= k THEN k - (p + n + 1) + 1 ELSE 0)
        /\ \A i \in 1..k - (p + n + 1) + 1 : b[i] = s[p + n + 1 + i - 1]
    BY <1>1, <2>1, SubSeqProperties
  <2>3. /\ (IF p + n + 1 <= k THEN k - (p + n + 1) + 1 ELSE 0) = k - p - n
        /\ k - (p + n + 1) + 1 = k - p - n /\ \A i \in 1..k - p - n : p + n + 1 + i - 1 = p + n + i
    BY <1>1, <1>2
  <2> QED
    BY <2>2, <2>3
<1> HIDE DEF a, b
<1>5. /\ a \o b \in Seq(PoolCells) /\ Len(a \o b) = p + (k - p - n)
      /\ \A i \in 1..p + (k - p - n) : (a \o b)[i] = IF i <= p THEN a[i] ELSE b[i - p]
  <2>1. /\ a \o b \in Seq(PoolCells) /\ Len(a \o b) = Len(a) + Len(b)
        /\ \A i \in 1..Len(a) + Len(b) : (a \o b)[i] = IF i <= Len(a) THEN a[i] ELSE b[i - Len(a)]
    <3>1. a \in Seq(PoolCells) /\ b \in Seq(PoolCells)
      BY <1>3, <1>4
    <3> QED
      BY <3>1, ConcatProperties
  <2>2. Len(a) = p /\ Len(b) = k - p - n
    BY <1>3, <1>4
  <2> QED
    BY <2>1, <2>2
<1>6. p + (k - p - n) = k - n
  BY <1>1
<1>7. ASSUME NEW i \in 1..k - n PROVE (a \o b)[i] = IF i <= p THEN s[i] ELSE s[i + n]
  <2>1. CASE i <= p
    <3>1. i \in 1..p
      BY <1>1, <2>1
    <3> QED
      BY <1>3, <1>5, <1>6, <2>1, <3>1
  <2>2. CASE ~(i <= p)
    <3>1. i - p \in 1..k - p - n /\ p + n + (i - p) = i + n
      BY <1>1, <1>2, <2>2
    <3>2. b[i - p] = s[i + n]
      BY <1>4, <3>1
    <3> QED
      BY <1>5, <1>6, <2>2, <3>2
  <2> QED
    BY <2>1, <2>2
<1>8. Lists!Cut(s, p, n) = a \o b
  BY DEF Lists!Cut, a, b, k
<1>9. /\ a \o b \in Seq(PoolCells) /\ Len(a \o b) = k - n
      /\ \A i \in 1..k - n : (a \o b)[i] = IF i <= p THEN s[i] ELSE s[i + n]
  BY <1>5, <1>6, <1>7
<1> QED
  BY <1>8, <1>9 DEF k

LEMMA WithoutObjects ==
  ASSUME NEW x \in Shape, Held(x), NEW p \in Nat, NEW n \in Nat, p + n <= x.objectsize
  PROVE  Objects(Without(x, p, n)) = Lists!Cut(Objects(x), p, n)
<1> DEFINE s == Objects(x)
           k == x.objectsize
           y == Without(x, p, n)
           t == Lists!Cut(s, p, n)
<1>1. s \in Seq(PoolCells) /\ Len(s) = k /\ k \in Nat /\ \A i \in 1..k : s[i] = x.pool[x.poolbase + i - 1]
  BY ObjectsAre
<1> HIDE DEF s
<1>2. t \in Seq(PoolCells) /\ Len(t) = k - n /\ \A i \in 1..k - n : t[i] = IF i <= p THEN s[i] ELSE s[i + n]
  <2>1. p + n <= Len(s)
    BY <1>1
  <2>2. /\ t \in Seq(PoolCells) /\ Len(t) = Len(s) - n
        /\ \A i \in 1..Len(s) - n : t[i] = IF i <= p THEN s[i] ELSE s[i + n]
    BY <1>1, <2>1, CutIs
  <2> QED
    BY <1>1, <2>2
<1> HIDE DEF t
<1>3. y \in Shape /\ Held(y)
  BY WithoutHeld
<1>4. /\ y.objectsize = k - n
      /\ \A i \in 1..k - n : y.pool[y.poolbase + i - 1]
                 = IF i <= p THEN x.pool[x.poolbase + i - 1] ELSE x.pool[x.poolbase + (i + n) - 1]
  BY WithoutIs
<1> HIDE DEF y
<1>5. ASSUME NEW i \in 1..k - n PROVE t[i] = y.pool[y.poolbase + i - 1]
  <2>1. i \in 1..k /\ i + n \in 1..k
    BY <1>1
  <2> QED
    BY <1>1, <1>2, <1>4, <2>1
<1>6. Objects(y) = t
  BY <1>2, <1>3, <1>4, <1>5, ReadOff
<1> QED
  BY <1>6 DEF y, t, s

LEMMA RemoveIs ==
  ASSUME VectorInv, NEW v \in Vectors, NEW p \in Positions \union {Back}, NEW n \in 0..2,
         RemoveFrom(v, p, n), sane'
  PROVE  Lists!DoCut(v, Place(vector[v], p), n)
<1> DEFINE x == vector[v]
           k == x.objectsize
           s == Objects(x)
           pos == Place(x, p)
           old == [w \in Vectors |-> Objects(vector[w])]
<1>1. /\ Usable(v)
      /\ IF Plus(pos, n) > k THEN Is(v, x, Thrown, TRUE)
         ELSE Is(v, Without(x, pos, n), Blank, pos + n < Word)
  BY DEF RemoveFrom
<1>2. x \in Shape /\ Held(x)
  <2>1. sane
    BY <1>1 DEF Is
  <2> QED
    BY <2>1 DEF VectorInv
<1>3. k \in Nat /\ k <= MaxObjects /\ pos \in Nat /\ n \in Nat
  <2>1. k \in Nat /\ k <= MaxObjects
    BY <1>1, <1>2 DEF Usable, Held
  <2> QED
    BY <2>1, PlaceIs
<1>4. old[v] = s /\ Len(s) = k
  BY <1>2, <1>3, ItemsAt, ObjectsAre
<1>6. Word \in Nat /\ MaxObjects \in Nat /\ MaxObjects + 1 < Word /\ pos < Word
  <2>1. Word \in Nat /\ MaxObjects \in Nat /\ MaxObjects + 1 < Word
    BY VectorAssumption
  <2> QED
    BY <1>3, <2>1 DEF Place, Minus, Positions, Back
<1>8. Plus(pos, n) = IF pos + n < Word THEN pos + n ELSE pos + n - Word
  BY DEF Plus
<1> HIDE DEF x, k, s, pos, old
<1>9. CASE Plus(pos, n) > k
  <2>1. Is(v, x, Thrown, TRUE)
    BY <1>1, <1>9
  <2>2. old' = old /\ answer' = Thrown
    BY <2>1, ObjectsStay DEF x, old
  <2>3. ~(pos + n <= Len(s))
    BY <1>3, <1>4, <1>6, <1>8, <1>9
  <2>4. Lists!DoCut(v, pos, n)
    BY <1>4, <2>2, <2>3 DEF Lists!DoCut, old
  <2> QED
    BY <2>4 DEF pos, x
<1>10. CASE ~(Plus(pos, n) > k)
  <2>1. Is(v, Without(x, pos, n), Blank, pos + n < Word)
    BY <1>1, <1>10
  <2>2. pos + n < Word
    BY <2>1 DEF Is
  <2>3. pos + n <= k
    BY <1>3, <1>6, <1>8, <1>10, <2>2
  <2>4. Objects(Without(x, pos, n)) = Lists!Cut(s, pos, n)
    BY <1>2, <1>3, <2>3, WithoutObjects DEF s, k
  <2>5. Lists!Becomes(v, Lists!Cut(s, pos, n), Blank)
    BY <2>1, <2>4, BecomesObjects
  <2>6. Lists!DoCut(v, pos, n)
    BY <1>4, <2>3, <2>5 DEF Lists!DoCut, old
  <2> QED
    BY <2>6 DEF pos, x
<1> QED
  BY <1>9, <1>10

LEMMA TakeIs ==
  ASSUME VectorInv, NEW v \in Vectors, NEW p \in Positions \union {Back}, TakeFrom(v, p), sane'
  PROVE  Lists!DoTake(v, Place(vector[v], p))
<1> DEFINE x == vector[v]
           k == x.objectsize
           s == Objects(x)
           pos == Place(x, p)
           a == IF pos < k THEN x.pool[x.poolbase + pos] ELSE Blank
           old == [w \in Vectors |-> Objects(vector[w])]
<1>1. Is(v, Without(x, pos, 1), a, pos < k)
  BY DEF TakeFrom, Is
<1>2. sane /\ pos < k
  BY <1>1 DEF Is
<1>3. x \in Shape /\ Held(x)
  BY <1>2 DEF VectorInv
<1>4. k \in Nat /\ pos \in Nat /\ x.poolbase \in Nat
  <2>1. k \in Nat /\ x.poolbase \in Nat
    BY <1>3 DEF Held
  <2> QED
    BY <2>1, PlaceIs
<1>5. old[v] = s /\ Len(s) = k /\ \A i \in 1..k : s[i] = x.pool[x.poolbase + i - 1]
  BY <1>3, <1>4, ItemsAt, ObjectsAre
<1> HIDE DEF x, k, s, pos, a, old
<1>6. a = s[pos + 1]
  <2>1. pos + 1 \in 1..k /\ x.poolbase + (pos + 1) - 1 = x.poolbase + pos
    BY <1>2, <1>4
  <2>2. s[pos + 1] = x.pool[x.poolbase + pos]
    BY <1>5, <2>1
  <2> QED
    BY <1>2, <2>2 DEF a, k, x
<1>7. Objects(Without(x, pos, 1)) = Lists!Cut(s, pos, 1)
  <2>1. pos + 1 <= k
    BY <1>2, <1>4
  <2> QED
    BY <1>3, <1>4, <2>1, WithoutObjects DEF s, k
<1>8. Lists!Becomes(v, Lists!Cut(s, pos, 1), s[pos + 1])
  BY <1>1, <1>6, <1>7, BecomesObjects
<1>9. Lists!DoTake(v, pos)
  BY <1>2, <1>5, <1>8 DEF Lists!DoTake, old
<1> QED
  BY <1>9 DEF pos, x

LEMMA ReverseIs ==
  ASSUME VectorInv, NEW v \in Vectors, ReverseAll(v), sane'
  PROVE  Lists!DoReverse(v)
<1> DEFINE x == vector[v]
           k == x.objectsize
           s == Objects(x)
           end == 2 * x.poolbase + x.objectsize - 1
           q == [c \in DOMAIN x.pool |-> IF c >= x.poolbase /\ c < x.poolbase + x.objectsize
                                         THEN x.pool[end - c] ELSE Blank]
           y == [x EXCEPT !.pool = q]
           f == [i \in 1..k |-> s[(k - i) + 1]]
<1>1. Is(v, y, Blank, TRUE)
  BY DEF ReverseAll
<1>2. x \in Shape /\ Held(x)
  BY <1>1 DEF VectorInv, Is
<1>3. [w \in Vectors |-> Objects(vector[w])][v] = s
  BY ItemsAt
<1> HIDE DEF x
<1>4. /\ k \in Nat /\ x.poolbase \in Nat /\ x.poolsize \in Nat /\ x.poolbase + k <= x.poolsize
      /\ x.pool \in [0..x.poolsize - 1 -> PoolCells] /\ DOMAIN x.pool = 0..x.poolsize - 1
  BY <1>2 DEF Held, PoolCells
<1>5. s \in Seq(PoolCells) /\ Len(s) = k /\ \A i \in 1..k : s[i] = x.pool[x.poolbase + i - 1]
  BY <1>2, ObjectsAre
<1> HIDE DEF s
<1>6. ASSUME NEW c \in 0..x.poolsize - 1
      PROVE  q[c] = IF c >= x.poolbase /\ c < x.poolbase + k THEN x.pool[end - c] ELSE Blank
  BY <1>4
<1>7. q \in [0..x.poolsize - 1 -> PoolCells]
  <2>1. ASSUME NEW c \in 0..x.poolsize - 1, c >= x.poolbase /\ c < x.poolbase + k
        PROVE  end - c \in 0..x.poolsize - 1
    BY <1>4, <2>1
  <2> HIDE DEF end
  <2> QED
    BY <1>4, <2>1 DEF PoolCells
<1>8. end \in Int /\ end = x.poolbase + x.poolbase + k - 1
  BY <1>4
<1> HIDE DEF q, end
<1>9. y = [pool |-> q, poolbase |-> x.poolbase, poolsize |-> x.poolsize, objectsize |-> k]
  BY <1>2 DEF Shape
<1> HIDE DEF y
<1>10. y \in Shape /\ Held(y)
  BY <1>4, <1>7, <1>9, LaidHeld
<1>11. y.pool = q /\ y.poolbase = x.poolbase /\ y.objectsize = k
  BY <1>9
<1> HIDE DEF k
<1>12. \A i \in 1..k : (k - i) + 1 \in 1..k /\ f[i] = s[(k - i) + 1] /\ f[i] \in PoolCells
  <2>1. ASSUME NEW i \in 1..k PROVE (k - i) + 1 \in 1..k
    BY <1>4
  <2> QED
    BY <1>5, <2>1, ElementOfSeq
<1>13. f \in Seq(PoolCells) /\ Len(f) = k
  <2>1. DOMAIN f = 1..k /\ f = [i \in 1..k |-> f[i]]
    OBVIOUS
  <2> HIDE DEF f
  <2>2. [i \in 1..k |-> f[i]] \in Seq(PoolCells)
    BY <1>4, <1>12, IsASeq
  <2> QED
    BY <1>4, <2>1, <2>2, LenProperties
<1>14. Lists!Reverse(s) = f
  BY <1>5 DEF Lists!Reverse
<1> HIDE DEF f
<1>15. ASSUME NEW i \in 1..k PROVE f[i] = y.pool[y.poolbase + i - 1]
  <2>1. /\ x.poolbase + i - 1 \in 0..x.poolsize - 1 /\ x.poolbase + i - 1 >= x.poolbase
        /\ x.poolbase + i - 1 < x.poolbase + k
    BY <1>4
  <2>2. end - (x.poolbase + i - 1) = x.poolbase + ((k - i) + 1) - 1
    BY <1>4, <1>8
  <2> QED
    BY <1>5, <1>6, <1>11, <1>12, <2>1, <2>2
<1>16. Objects(y) = f
  BY <1>10, <1>11, <1>13, <1>15, ReadOff
<1>17. Is(v, y, Blank, TRUE)
  BY <1>1 DEF y, q, end, k
<1>18. Lists!Becomes(v, Lists!Reverse(s), Blank)
  BY <1>14, <1>16, <1>17, BecomesObjects
<1> QED
  BY <1>3, <1>18 DEF Lists!DoReverse

LEMMA NoObjects == Objects(None) = <<>>
<1>1. Objects(None) \in Seq(PoolCells) /\ Len(Objects(None)) = 0
  BY NoneHeld, ObjectsAre DEF None
<1> QED
  BY <1>1, EmptySeq

LEMMA ResetIs ==
  ASSUME VectorInv, NEW v \in Vectors, ResetVector(v), sane'
  PROVE  Lists!DoReset(v)
<1>1. Lists!Becomes(v, <<>>, Blank)
  BY NoObjects, BecomesObjects DEF ResetVector
<1> QED
  BY <1>1 DEF Lists!DoReset

LEMMA CopyIs ==
  ASSUME VectorInv, NEW v \in Vectors, NEW w \in Vectors, Copy(v, w), sane'
  PROVE  Lists!DoCopy(v, w)
<1> DEFINE old == vector[w]
           n == old.objectsize
           m == IF v = w THEN 0 ELSE n
<1>1. PICK x \in Reserved(None, m) :
        Is(v, [x EXCEPT !.pool = Pool(old, x.poolsize, 0, m), !.objectsize = m], Blank, v # w)
  BY DEF Copy
<1>2. sane /\ v # w
  BY <1>1 DEF Is
<1>3. m = n /\ old \in Shape /\ Held(old) /\ n \in Nat
  BY <1>2 DEF VectorInv, Held
<1> DEFINE q == Pool(old, x.poolsize, 0, n)
           y == [x EXCEPT !.pool = q, !.objectsize = n]
<1>4. Is(v, y, Blank, v # w)
  BY <1>1, <1>3
<1> HIDE DEF old, m
<1>5. x \in Shape /\ Held(x) /\ x.poolsize >= n /\ (x = None \/ x.poolbase = 0)
  BY <1>3, NoneHeld, ReservedHeld
<1>6. x.poolbase = 0 /\ x.poolsize \in Nat
  BY <1>5 DEF None, Held
<1>7. q \in [0..x.poolsize - 1 -> PoolCells]
  <2> HIDE DEF n
  <2>1. Held(old) /\ x.poolsize \in Nat /\ n \in Nat /\ 0 \in Nat
    BY <1>3, <1>6
  <2> QED
    BY <2>1, PoolType
<1> HIDE DEF q
<1>8. y \in Shape
  BY <1>3, <1>5, <1>6, <1>7, Refilled
<1>9. y.pool = q /\ y.poolbase = 0 /\ y.objectsize = n
  BY <1>5, <1>6 DEF Shape
<1> HIDE DEF y
<1>10. Objects(y) = Objects(old)
  BY <1>3, <1>5, <1>6, <1>8, <1>9, MovedObjects DEF q
<1>11. Lists!Becomes(v, Objects(vector[w]), Blank)
  BY <1>4, <1>10, BecomesObjects DEF old
<1>12. [u \in Vectors |-> Objects(vector[u])][w] = Objects(vector[w])
  BY ItemsAt
<1> QED
  BY <1>11, <1>12 DEF Lists!DoCopy

LEMMA MoveIs ==
  ASSUME VectorInv, NEW v \in Vectors, NEW w \in Vectors, Move(v, w), sane'
  PROVE  Lists!DoMove(v, w)
<1> DEFINE old == [u \in Vectors |-> Objects(vector[u])]
           new == [u \in Vectors |-> Objects(vector'[u])]
<1>1. /\ v # w /\ answer' = Blank
      /\ vector' = [vector EXCEPT ![v] = vector[w], ![w] = None]
  BY DEF Move
<1>2. \A u \in Vectors : vector'[u] = IF u = w THEN None ELSE IF u = v THEN vector[w] ELSE vector[u]
  BY <1>1 DEF VectorInv
<1>3. \A u \in Vectors : new[u] = IF u = w THEN <<>> ELSE IF u = v THEN old[w] ELSE old[u]
  BY <1>2, NoObjects
<1>4. new = [old EXCEPT ![v] = old[w], ![w] = <<>>]
  BY <1>1, <1>3
<1> QED
  BY <1>1, <1>4 DEF Lists!DoMove, Objects

\* Every call on a vector is one on a sequence, for programs that keep to the
\* rules: whatever memory the objects have been moved to before, the vector
\* holds what a list with the same calls would, in the same order, and the call
\* returns the same.
THEOREM SequencedHolds == VectorSpec => Sequenced
<1>1. VectorInit => VectorInv
  BY NoneHeld DEF VectorInit, VectorInv
<1>2. VectorInv /\ [VectorNext]_vectorVars => VectorInv'
  BY VectorStep
<1>3. VectorInv => [sane' => \A v \in Vectors :
          /\ \A d \in Data : /\ Prepend(v, d) => Lists!DoPrepend(v, d)
                             /\ AppendTo(v, d) => Lists!DoAppend(v, d)
                             /\ AppendOnce(v, d) => Lists!DoAppendOnce(v, d)
          /\ \A p \in Positions :
               /\ AppendOwn(v, p) => Lists!DoAppend(v, Objects(vector[v])[p + 1])
               /\ \A d \in Data : SetAt(v, p, d) => Lists!DoSet(v, p, d)
          /\ \A n \in 0..MaxObjects : /\ Reserve(v, n) => Lists!DoReserve
                                      /\ Resize(v, n) => Lists!DoResize(v, n)
          /\ \A p \in Positions \union {Back} :
               /\ \A n \in 0..2 : RemoveFrom(v, p, n) => Lists!DoCut(v, Place(vector[v], p), n)
               /\ TakeFrom(v, p) => Lists!DoTake(v, Place(vector[v], p))
          /\ ReverseAll(v) => Lists!DoReverse(v)
          /\ ResetVector(v) => Lists!DoReset(v)
          /\ \A w \in Vectors : /\ Copy(v, w) => Lists!DoCopy(v, w)
                                /\ Move(v, w) => Lists!DoMove(v, w)]_vectorVars
  BY PrependIs, AppendIs, AppendOnceIs, AppendOwnIs, SetAtIs, ReserveIs, ResizeIs, RemoveIs, TakeIs,
     ReverseIs, ResetIs, CopyIs, MoveIs
<1> QED
  BY <1>1, <1>2, <1>3, PTL DEF VectorSpec, Sequenced

-----------------------------------------------------------------------------
\* The invariant of the hash set, for a program that keeps to the rules: no value
\* is in two cells; the cells probed for a value before its own have other values
\* in them, so that a search does not end early; and the values counted, which
\* are those of the pool, fill half of it at most, so that a search ends.
CellValues == Keys \union {Empty}
Contents(pool) == {pool[c] : c \in DOMAIN pool} \ {Empty}
Apart(pool) == \A c, d \in DOMAIN pool : pool[c] = pool[d] /\ pool[c] # Empty => c = d
Chained(pool, n) ==
    \A c \in 0..n - 1 : pool[c] # Empty =>
       \E i \in 0..n - 1 :
          /\ Probe(pool[c], n, i) = c
          /\ \A j \in 0..i - 1 : pool[Probe(pool[c], n, j)] \notin {Empty, pool[c]}
Hashed(pool, n) == pool \in [0..n - 1 -> CellValues] /\ Apart(pool) /\ Chained(pool, n)
HashInv ==
    /\ hash \in [Keys -> 0..MaxHash] /\ length \in Lengths /\ tidied \in BOOLEAN
    /\ tidied => /\ cells = NoPool \/ Hashed(cells, length)
                 /\ IsFiniteSet(Kept) /\ count = Cardinality(Kept) /\ 2 * count <= length

\* A remainder is known from a quotient.
LEMMA RemainderIs ==
  ASSUME NEW n \in Nat \ {0}, NEW a \in Nat, NEW q \in Int, NEW r \in 0..n - 1, a = n * q + r
  PROVE  a % n = r
OBVIOUS

\* The cells probed are cells of the pool, all of them in n probes, one next to
\* the other.
LEMMA ProbeIs ==
  ASSUME hash \in [Keys -> 0..MaxHash], NEW k \in Keys, NEW n \in Nat \ {0}
  PROVE  /\ \A i \in Nat : Probe(k, n, i) \in 0..n - 1
         /\ \A c \in 0..n - 1 : \E i \in 0..n - 1 : Probe(k, n, i) = c
         /\ \A i \in Nat : Probe(k, n, i + 1) = (Probe(k, n, i) + 1) % n
<1> DEFINE h == hash[k]
<1>1. h \in Nat
  BY HashAssumption
<1> HIDE DEF h
<1>2. \A i \in Nat : Probe(k, n, i) = (h + i) % n /\ h + i \in Nat
  BY <1>1 DEF Probe, h
<1>3. \A i \in Nat : Probe(k, n, i) \in 0..n - 1
  BY <1>2
<1>4. ASSUME NEW c \in 0..n - 1 PROVE \E i \in 0..n - 1 : Probe(k, n, i) = c
  <2> DEFINE i == (c - h) % n
             q == (c - h) \div n
  <2>1. c - h \in Int /\ i \in 0..n - 1 /\ q \in Int /\ c - h = n * q + i
    BY <1>1
  <2> HIDE DEF i, q
  <2>2. -q \in Int /\ h + i = n * (-q) + c /\ h + i \in Nat
    BY <1>1, <2>1
  <2>3. (h + i) % n = c
    BY <2>2, RemainderIs
  <2> QED
    BY <1>2, <2>1, <2>3
<1>5. ASSUME NEW i \in Nat PROVE Probe(k, n, i + 1) = (Probe(k, n, i) + 1) % n
  <2> DEFINE a == h + i
             r == a % n
             q == a \div n
  <2>1. a \in Nat /\ q \in Int /\ r \in 0..n - 1 /\ a = n * q + r
    BY <1>1
  <2>2. Probe(k, n, i) = r /\ Probe(k, n, i + 1) = (a + 1) % n
    BY <1>1, <1>2
  <2> HIDE DEF a, q, r
  <2>3. CASE r + 1 < n
    <3>1. a + 1 = n * q + (r + 1) /\ r + 1 \in 0..n - 1 /\ a + 1 \in Nat
      BY <2>1, <2>3
    <3>2. (a + 1) % n = r + 1
      BY <2>1, <3>1, RemainderIs
    <3>3. r + 1 = n * 0 + (r + 1) /\ r + 1 \in Nat
      BY <2>1
    <3>4. (r + 1) % n = r + 1
      BY <3>1, <3>3, RemainderIs
    <3> QED
      BY <2>2, <3>2, <3>4
  <2>4. CASE ~(r + 1 < n)
    <3>1. r + 1 = n
      BY <2>1, <2>4
    <3>2. a + 1 = n * (q + 1) + 0 /\ q + 1 \in Int /\ 0 \in 0..n - 1 /\ a + 1 \in Nat
      BY <2>1, <3>1
    <3>3. (a + 1) % n = 0
      BY <3>2, RemainderIs
    <3>4. n = n * 1 + 0
      OBVIOUS
    <3>5. n % n = 0
      BY <3>2, <3>4, RemainderIs
    <3> QED
      BY <2>2, <3>1, <3>3, <3>5
  <2> QED
    BY <2>1, <2>3, <2>4
<1> QED
  BY <1>3, <1>4, <1>5

\* A pool of fewer values than cells has an empty cell.
LEMMA EmptyCell ==
  ASSUME NEW n \in Nat, NEW pool \in [0..n - 1 -> CellValues], Apart(pool),
         NEW V, IsFiniteSet(V), Cardinality(V) < n, Contents(pool) \subseteq V
  PROVE  \E c \in 0..n - 1 : pool[c] = Empty
<1>1. SUFFICES ASSUME \A c \in 0..n - 1 : pool[c] # Empty PROVE FALSE
  OBVIOUS
<1>2. pool \in [0..n - 1 -> V]
  BY <1>1 DEF Contents
<1>3. IsFiniteSet(0..n - 1) /\ Cardinality(0..n - 1) = n
  BY FS_Interval
<1>4. PICK c, d \in 0..n - 1 : c # d /\ pool[c] = pool[d]
  BY <1>2, <1>3, FS_PigeonHole
<1> QED
  BY <1>1, <1>4 DEF Apart

\* If some cell has a value in S, some probe is the first to find one.
LEMMA FirstProbe ==
  ASSUME hash \in [Keys -> 0..MaxHash], NEW k \in Keys, NEW n \in Nat \ {0}, NEW pool, NEW S,
         NEW c \in 0..n - 1, pool[c] \in S
  PROVE  \E i \in 0..n - 1 : /\ pool[Probe(k, n, i)] \in S
                             /\ \A j \in 0..i - 1 : pool[Probe(k, n, j)] \notin S
<1> DEFINE T == {i \in Nat : i < n /\ pool[Probe(k, n, i)] \in S}
<1>1. T \subseteq Nat /\ T # {}
  <2>1. PICK i \in 0..n - 1 : Probe(k, n, i) = c
    BY ProbeIs
  <2>2. i \in T
    BY <2>1
  <2> QED
    BY <2>2
<1>2. IsWellFoundedOn(OpToRel(<, Nat), Nat)
  BY NatLessThanWellFounded
<1>3. PICK i \in T : \A j \in T : ~(<<j, i>> \in OpToRel(<, Nat))
  <2> HIDE DEF T
  <2> QED
    BY <1>1, <1>2, WFMin
<1>4. i \in 0..n - 1 /\ pool[Probe(k, n, i)] \in S
  OBVIOUS
<1>5. ASSUME NEW j \in 0..i - 1 PROVE pool[Probe(k, n, j)] \notin S
  <2>1. j \in Nat /\ j < n /\ i \in Nat /\ j < i
    BY <1>4
  <2>2. <<j, i>> \in OpToRel(<, Nat)
    BY <2>1 DEF OpToRel
  <2> QED
    BY <1>3, <2>1, <2>2
<1> QED
  BY <1>4, <1>5

\* Search ends at the only probe where it may.
LEMMA SearchIs ==
  ASSUME NEW n \in Nat, NEW pool, NEW k, NEW i \in 0..n - 1,
         pool[Probe(k, n, i)] \in {Empty, k},
         \A j \in 0..i - 1 : pool[Probe(k, n, j)] \notin {Empty, k}
  PROVE  Search(pool, n, k) = i
<1> DEFINE P(m) == /\ pool[Probe(k, n, m)] \in {Empty, k}
                   /\ \A j \in 0..m - 1 : pool[Probe(k, n, j)] \notin {Empty, k}
           s == CHOOSE m \in 0..n - 1 : P(m)
<1>1. P(i)
  OBVIOUS
<1>2. s \in 0..n - 1 /\ P(s)
  BY <1>1
<1>3. s = i
  <2>1. ~(s < i)
    <3>1. s < i => s \in 0..i - 1
      BY <1>2
    <3> QED
      BY <1>1, <1>2, <3>1
  <2>2. ~(i < s)
    <3>1. i < s => i \in 0..s - 1
      BY <1>2
    <3> QED
      BY <1>1, <1>2, <3>1
  <2>3. s \in Int /\ i \in Int
    BY <1>2
  <2> HIDE DEF s
  <2> QED
    BY <2>1, <2>2, <2>3
<1> QED
  BY <1>3 DEF Search

\* In a pool that has the value or an empty cell, a search ends at the value if
\* it is there, and at an empty cell if not.
LEMMA SearchFinds ==
  ASSUME hash \in [Keys -> 0..MaxHash], NEW n \in Nat \ {0}, NEW pool, Hashed(pool, n), NEW k \in Keys,
         \E e \in 0..n - 1 : pool[e] = Empty
  PROVE  /\ Probe(k, n, Search(pool, n, k)) \in 0..n - 1
         /\ pool[Probe(k, n, Search(pool, n, k))] = IF k \in Contents(pool) THEN k ELSE Empty
<1>1. pool \in [0..n - 1 -> CellValues] /\ k # Empty
  BY HashAssumption DEF Hashed
<1>2. CASE k \in Contents(pool)
  <2>1. PICK c \in 0..n - 1 : pool[c] = k
    BY <1>1, <1>2 DEF Contents
  <2>2. PICK i \in 0..n - 1 : /\ Probe(k, n, i) = c
                              /\ \A j \in 0..i - 1 : pool[Probe(k, n, j)] \notin {Empty, k}
    BY <1>1, <2>1 DEF Hashed, Chained
  <2>3. Search(pool, n, k) = i
    BY <2>1, <2>2, SearchIs
  <2> QED
    BY <1>2, <2>1, <2>2, <2>3
<1>3. CASE k \notin Contents(pool)
  <2>1. PICK e \in 0..n - 1 : pool[e] \in {Empty, k}
    OBVIOUS
  <2>2. PICK i \in 0..n - 1 : /\ pool[Probe(k, n, i)] \in {Empty, k}
                              /\ \A j \in 0..i - 1 : pool[Probe(k, n, j)] \notin {Empty, k}
    BY <2>1, FirstProbe
  <2>3. Search(pool, n, k) = i
    BY <2>2, SearchIs
  <2>4. Probe(k, n, i) \in 0..n - 1
    <3>1. i \in Nat
      OBVIOUS
    <3> QED
      BY <3>1, ProbeIs
  <2>5. pool[Probe(k, n, i)] # k
    BY <1>1, <1>3, <2>4 DEF Contents
  <2> QED
    BY <1>3, <2>2, <2>3, <2>4, <2>5
<1> QED
  BY <1>2, <1>3

\* Vacant is the first probe's cell that is empty.
LEMMA VacantIs ==
  ASSUME hash \in [Keys -> 0..MaxHash], NEW n \in Nat \ {0}, NEW pool, NEW k \in Keys,
         \E e \in 0..n - 1 : pool[e] = Empty
  PROVE  \E i \in 0..n - 1 : /\ Vacant(pool, n, k) = Probe(k, n, i)
                             /\ Probe(k, n, i) \in 0..n - 1
                             /\ pool[Probe(k, n, i)] = Empty
                             /\ \A j \in 0..i - 1 : pool[Probe(k, n, j)] # Empty
<1> DEFINE P(m) == /\ pool[Probe(k, n, m)] = Empty
                   /\ \A j \in 0..m - 1 : pool[Probe(k, n, j)] # Empty
           s == CHOOSE m \in 0..n - 1 : P(m)
<1>1. PICK e \in 0..n - 1 : pool[e] \in {Empty}
  OBVIOUS
<1>2. PICK i \in 0..n - 1 : /\ pool[Probe(k, n, i)] \in {Empty}
                            /\ \A j \in 0..i - 1 : pool[Probe(k, n, j)] \notin {Empty}
  BY <1>1, FirstProbe
<1>3. P(i)
  BY <1>2
<1>4. s \in 0..n - 1 /\ P(s)
  BY <1>3
<1>5. s \in Nat
  BY <1>4
<1>6. Probe(k, n, s) \in 0..n - 1
  BY <1>5, ProbeIs
<1>7. Vacant(pool, n, k) = Probe(k, n, s)
  BY DEF Vacant
<1> QED
  BY <1>4, <1>6, <1>7

\* A pool with v in cell c.
With(pool, c, v) == [pool EXCEPT ![c] = v]

\* A value that is put in its first empty cell is in the pool, with all that was.
LEMMA PutIn ==
  ASSUME hash \in [Keys -> 0..MaxHash], NEW n \in Nat \ {0}, NEW pool, Hashed(pool, n), NEW k \in Keys,
         k \notin Contents(pool), \E e \in 0..n - 1 : pool[e] = Empty
  PROVE  /\ Hashed(With(pool, Vacant(pool, n, k), k), n)
         /\ Contents(With(pool, Vacant(pool, n, k), k)) = Contents(pool) \union {k}
<1>1. PICK i \in 0..n - 1 : /\ Vacant(pool, n, k) = Probe(k, n, i)
                            /\ Probe(k, n, i) \in 0..n - 1
                            /\ pool[Probe(k, n, i)] = Empty
                            /\ \A j \in 0..i - 1 : pool[Probe(k, n, j)] # Empty
  BY VacantIs
<1> DEFINE v == Vacant(pool, n, k)
           p == With(pool, v, k)
<1>2. pool \in [0..n - 1 -> CellValues] /\ k # Empty /\ v \in 0..n - 1 /\ pool[v] = Empty
  BY <1>1, HashAssumption DEF Hashed
<1>3. p \in [0..n - 1 -> CellValues] /\ p[v] = k /\ \A c \in 0..n - 1 : c # v => p[c] = pool[c]
  BY <1>2 DEF CellValues, With
<1>4. \A c \in 0..n - 1 : pool[c] # k
  BY <1>2 DEF Contents
<1> HIDE DEF p, v
<1>5. Apart(p)
  BY <1>2, <1>3, <1>4 DEF Apart, Hashed
<1>6. Contents(p) = Contents(pool) \union {k}
  BY <1>2, <1>3 DEF Contents
<1>7. ASSUME NEW c \in 0..n - 1, p[c] # Empty
      PROVE  \E m \in 0..n - 1 : /\ Probe(p[c], n, m) = c
                                 /\ \A j \in 0..m - 1 : p[Probe(p[c], n, j)] \notin {Empty, p[c]}
  <2>1. CASE c = v
    <3>1. Probe(k, n, i) = v /\ p[c] = k
      BY <1>1, <1>3, <2>1 DEF v
    <3>2. ASSUME NEW j \in 0..i - 1 PROVE p[Probe(k, n, j)] \notin {Empty, k}
      <4>1. j \in Nat
        OBVIOUS
      <4>2. Probe(k, n, j) \in 0..n - 1 /\ pool[Probe(k, n, j)] # Empty
        BY <1>1, <4>1, ProbeIs
      <4> QED
        BY <1>2, <1>3, <1>4, <4>2
    <3> QED
      BY <2>1, <3>1, <3>2
  <2>2. CASE c # v
    <3>1. p[c] = pool[c] /\ pool[c] # Empty /\ pool[c] \in Keys /\ pool[c] # k
      BY <1>2, <1>3, <1>4, <1>7, <2>2 DEF CellValues
    <3>2. PICK m \in 0..n - 1 : /\ Probe(pool[c], n, m) = c
                                /\ \A j \in 0..m - 1 : pool[Probe(pool[c], n, j)] \notin {Empty, pool[c]}
      BY <3>1 DEF Hashed, Chained
    <3>3. ASSUME NEW j \in 0..m - 1 PROVE p[Probe(pool[c], n, j)] \notin {Empty, pool[c]}
      <4>1. j \in Nat
        OBVIOUS
      <4>2. Probe(pool[c], n, j) \in 0..n - 1
        BY <3>1, <4>1, ProbeIs
      <4>3. pool[Probe(pool[c], n, j)] \notin {Empty, pool[c]}
        BY <3>2
      <4> QED
        BY <1>2, <1>3, <3>1, <4>2, <4>3
    <3> QED
      BY <3>1, <3>2, <3>3
  <2> QED
    BY <2>1, <2>2
<1>8. Hashed(p, n)
  BY <1>3, <1>5, <1>7 DEF Hashed, Chained
<1> QED
  BY <1>6, <1>8 DEF p, v

\* A value whose next cell is empty can be taken out: no other was put where it
\* is because its cell was taken.
LEMMA TakenOut ==
  ASSUME hash \in [Keys -> 0..MaxHash], NEW n \in Nat \ {0}, NEW pool, Hashed(pool, n),
         NEW c \in 0..n - 1, pool[c] # Empty, pool[(c + 1) % n] = Empty
  PROVE  /\ Hashed(With(pool, c, Empty), n)
         /\ Contents(With(pool, c, Empty)) = Contents(pool) \ {pool[c]}
<1> DEFINE p == With(pool, c, Empty)
<1>1. pool \in [0..n - 1 -> CellValues]
  BY DEF Hashed
<1>2. p \in [0..n - 1 -> CellValues] /\ p[c] = Empty /\ \A d \in 0..n - 1 : d # c => p[d] = pool[d]
  BY <1>1 DEF CellValues, With
<1> HIDE DEF p
<1>3. Apart(p)
  BY <1>1, <1>2 DEF Apart, Hashed
<1>4. Contents(p) = Contents(pool) \ {pool[c]}
  BY <1>1, <1>2 DEF Contents, Apart, Hashed
<1>5. ASSUME NEW d \in 0..n - 1, p[d] # Empty
      PROVE  \E m \in 0..n - 1 : /\ Probe(p[d], n, m) = d
                                 /\ \A j \in 0..m - 1 : p[Probe(p[d], n, j)] \notin {Empty, p[d]}
  <2>1. d # c /\ p[d] = pool[d] /\ pool[d] # Empty /\ pool[d] \in Keys
    BY <1>1, <1>2, <1>5 DEF CellValues
  <2>2. PICK m \in 0..n - 1 : /\ Probe(pool[d], n, m) = d
                              /\ \A j \in 0..m - 1 : pool[Probe(pool[d], n, j)] \notin {Empty, pool[d]}
    BY <2>1 DEF Hashed, Chained
  <2>3. ASSUME NEW j \in 0..m - 1 PROVE p[Probe(pool[d], n, j)] \notin {Empty, pool[d]}
    <3>1. j \in Nat /\ j + 1 \in 0..m
      OBVIOUS
    <3>2. /\ Probe(pool[d], n, j) \in 0..n - 1
          /\ Probe(pool[d], n, j + 1) = (Probe(pool[d], n, j) + 1) % n
      BY <2>1, <3>1, ProbeIs
    <3>3. pool[Probe(pool[d], n, j)] \notin {Empty, pool[d]}
      BY <2>2
    <3>4. pool[Probe(pool[d], n, j + 1)] # Empty
      <4>1. CASE j + 1 = m
        BY <2>1, <2>2, <4>1
      <4>2. CASE j + 1 # m
        <5>1. j + 1 \in 0..m - 1
          BY <3>1, <4>2
        <5> QED
          BY <2>2, <5>1
      <4> QED
        BY <4>1, <4>2
    <3>5. Probe(pool[d], n, j) # c
      BY <3>2, <3>4
    <3> QED
      BY <1>2, <3>2, <3>3, <3>5
  <2> QED
    BY <2>1, <2>2, <2>3
<1>6. Hashed(p, n)
  BY <1>2, <1>3, <1>5 DEF Hashed, Chained
<1> QED
  BY <1>4, <1>6 DEF p

\* A new pool has nothing in it.
LEMMA NewPool ==
  ASSUME NEW n \in Nat \ {0}
  PROVE  /\ Hashed([x \in 0..n - 1 |-> Empty], n)
         /\ Contents([x \in 0..n - 1 |-> Empty]) = {}
<1>1. [x \in 0..n - 1 |-> Empty] \in [0..n - 1 -> CellValues]
  BY DEF CellValues
<1> QED
  BY <1>1 DEF Hashed, Apart, Chained, Contents

-----------------------------------------------------------------------------
\* The pool that reserve fills, after each cell of the old one.
FilledStep(pool, n, g, c) ==
    IF c - 1 \notin DOMAIN pool \/ pool[c - 1] = Empty THEN g
    ELSE With(g, Vacant(g, n, pool[c - 1]), pool[c - 1])
FilledFrom(pool, n, m, f) ==
    f = [c \in 0..m |-> IF c = 0 THEN [x \in 0..n - 1 |-> Empty] ELSE FilledStep(pool, n, f[c - 1], c)]

\* Natural numbers that are not all in S have a least one outside it.
LEMMA LeastOutside ==
  ASSUME NEW S, NEW n \in Nat, n \notin S
  PROVE  \E k \in Nat : k \notin S /\ \A j \in Nat : j < k => j \in S
<1> DEFINE T == {k \in Nat : k \notin S}
<1>1. T \subseteq Nat /\ T # {}
  OBVIOUS
<1>2. IsWellFoundedOn(OpToRel(<, Nat), Nat)
  BY NatLessThanWellFounded
<1>3. PICK k \in T : \A j \in T : ~(<<j, k>> \in OpToRel(<, Nat))
  BY <1>1, <1>2, WFMin
<1>4. \A j \in T : ~(j < k)
  BY <1>1, <1>3 DEF OpToRel
<1> QED
  BY <1>3, <1>4

\* There are such pools, up to each cell.
LEMMA FilledExists ==
  ASSUME NEW pool, NEW n, NEW m \in Nat
  PROVE  \E f : FilledFrom(pool, n, m, f)
<1> DEFINE Good == {k \in Nat : \E f : FilledFrom(pool, n, k, f)}
           First == [x \in 0..n - 1 |-> Empty]
<1>0. ASSUME NEW k, NEW f
      PROVE  FilledFrom(pool, n, k, f)
               <=> f = [c \in 0..k |-> IF c = 0 THEN First ELSE FilledStep(pool, n, f[c - 1], c)]
  BY DEF FilledFrom
<1>1. SUFFICES ASSUME m \notin Good PROVE FALSE
  OBVIOUS
<1> HIDE DEF First
<1>2. PICK k \in Nat : k \notin Good /\ \A j \in Nat : j < k => j \in Good
  BY <1>1, LeastOutside
<1>3. CASE k = 0
  <2> DEFINE g == [c \in 0..0 |-> First]
  <2>1. g = [c \in 0..k |-> IF c = 0 THEN First ELSE FilledStep(pool, n, g[c - 1], c)]
    BY <1>3
  <2> QED
    BY <1>0, <1>2, <2>1
<1>4. CASE k # 0
  <2>1. k - 1 \in Nat /\ k - 1 < k
    BY <1>4
  <2>2. PICK f : FilledFrom(pool, n, k - 1, f)
    BY <1>2, <2>1
  <2> DEFINE last == FilledStep(pool, n, f[k - 1], k)
             g == [c \in 0..k |-> IF c = k THEN last ELSE f[c]]
  <2>3. f = [c \in 0..k - 1 |-> IF c = 0 THEN First ELSE FilledStep(pool, n, f[c - 1], c)]
    BY <1>0, <2>2
  <2>4. ASSUME NEW c \in 0..k PROVE g[c] = IF c = 0 THEN First ELSE FilledStep(pool, n, g[c - 1], c)
    <3>1. CASE c = k
      <4>1. g[k] = last /\ g[k - 1] = f[k - 1]
        BY <1>4, <2>1
      <4> QED
        BY <1>4, <3>1, <4>1
    <3>2. CASE c # k
      <4>1. c \in 0..k - 1 /\ g[c] = f[c]
        BY <3>2
      <4>2. c # 0 => g[c - 1] = f[c - 1]
        BY <3>2
      <4>3. f[c] = IF c = 0 THEN First ELSE FilledStep(pool, n, f[c - 1], c)
        BY <2>3, <4>1
      <4> QED
        BY <4>1, <4>2, <4>3
    <3> QED
      BY <3>1, <3>2
  <2> HIDE DEF g
  <2>5. DOMAIN g = 0..k /\ g = [c \in 0..k |-> g[c]]
    BY DEF g
  <2>6. g = [c \in 0..k |-> IF c = 0 THEN First ELSE FilledStep(pool, n, g[c - 1], c)]
    BY <2>4, <2>5
  <2> QED
    BY <1>0, <1>2, <2>6
<1> QED
  BY <1>3, <1>4

\* Rehashed is the last of them.
LEMMA FilledEnd ==
  ASSUME NEW pool, NEW n, length \in Nat
  PROVE  \E f : FilledFrom(pool, n, length, f) /\ Rehashed(pool, n) = f[length]
<1> DEFINE f == CHOOSE f : FilledFrom(pool, n, length, f)
<1>1. FilledFrom(pool, n, length, f)
  BY FilledExists
<1>2. Rehashed(pool, n) = f[length]
  BY DEF Rehashed, FilledFrom, FilledStep, With
<1> QED
  BY <1>1, <1>2

\* The values of the pool are the values of the one reserve makes, which has
\* room for them.
LEMMA RehashedIs ==
  ASSUME hash \in [Keys -> 0..MaxHash], length \in Nat, NEW n \in Nat \ {0}, NEW pool,
         DOMAIN pool \subseteq 0..length - 1, \A c \in DOMAIN pool : pool[c] \in CellValues, Apart(pool),
         IsFiniteSet(Contents(pool)), Cardinality(Contents(pool)) < n
  PROVE  Hashed(Rehashed(pool, n), n) /\ Contents(Rehashed(pool, n)) = Contents(pool)
<1>1. PICK f : FilledFrom(pool, n, length, f) /\ Rehashed(pool, n) = f[length]
  BY FilledEnd
<1>2. /\ f[0] = [x \in 0..n - 1 |-> Empty]
      /\ \A c \in 1..length : f[c] = FilledStep(pool, n, f[c - 1], c)
  <2>1. f = [c \in 0..length |-> IF c = 0 THEN [x \in 0..n - 1 |-> Empty]
                                ELSE FilledStep(pool, n, f[c - 1], c)]
    BY <1>1 DEF FilledFrom
  <2>2. 0 \in 0..length /\ \A c \in 1..length : c \in 0..length /\ c # 0
    OBVIOUS
  <2> QED
    BY <2>1, <2>2
<1> DEFINE Below(c) == {pool[d] : d \in DOMAIN pool \intersect 0..c - 1} \ {Empty}
           Right(c) == Hashed(f[c], n) /\ Contents(f[c]) = Below(c)
           Good == {c \in Nat : c <= length => Right(c)}
<1>3. length \in Good
  <2>1. SUFFICES ASSUME length \notin Good PROVE FALSE
    OBVIOUS
  <2>2. PICK k \in Nat : k \notin Good /\ \A j \in Nat : j < k => j \in Good
    <3> HIDE DEF Good
    <3> QED
      BY <2>1, LeastOutside
  <2>3. k <= length /\ ~Right(k)
    BY <2>2
  <2>4. CASE k = 0
    <3>1. Below(0) = {}
      OBVIOUS
    <3>2. Right(0)
      BY <1>2, <3>1, NewPool
    <3> QED
      BY <2>3, <2>4, <3>2
  <2>5. CASE k # 0
    <3>1. k - 1 \in Nat /\ k \in 1..length /\ k - 1 <= length /\ k - 1 < k
      BY <2>3, <2>5
    <3>2. Hashed(f[k - 1], n) /\ Contents(f[k - 1]) = Below(k - 1)
      BY <2>2, <3>1
    <3>3. DOMAIN pool \intersect 0..k - 1 =
            (DOMAIN pool \intersect 0..k - 1 - 1) \union (DOMAIN pool \intersect {k - 1})
      BY <3>1
    <3>4. CASE k - 1 \notin DOMAIN pool \/ pool[k - 1] = Empty
      <4>1. f[k] = f[k - 1]
        BY <1>2, <3>1, <3>4 DEF FilledStep
      <4>2. Below(k) = Below(k - 1)
        BY <3>3, <3>4
      <4> QED
        BY <2>3, <3>2, <4>1, <4>2
    <3>5. CASE k - 1 \in DOMAIN pool /\ pool[k - 1] # Empty
      <4> DEFINE key == pool[k - 1]
      <4>1. key \in Keys /\ f[k] = With(f[k - 1], Vacant(f[k - 1], n, key), key)
        BY <1>2, <3>1, <3>5 DEF CellValues, FilledStep
      <4>2. Below(k) = Below(k - 1) \union {key}
        BY <3>3, <3>5
      <4>3. key \notin Below(k - 1)
        <5>1. ASSUME NEW d \in DOMAIN pool \intersect 0..k - 1 - 1 PROVE pool[d] # key
          <6>1. d # k - 1
            BY <3>1
          <6> QED
            BY <3>5, <6>1 DEF Apart
        <5> QED
          BY <5>1
      <4>4. \E e \in 0..n - 1 : f[k - 1][e] = Empty
        <5>1. Below(k - 1) \subseteq Contents(pool)
          BY DEF Contents
        <5> HIDE DEF Below
        <5>2. f[k - 1] \in [0..n - 1 -> CellValues] /\ Apart(f[k - 1]) /\ n \in Nat
          BY <3>2 DEF Hashed
        <5> QED
          BY <3>2, <5>1, <5>2, EmptyCell
      <4>5. key \notin Contents(f[k - 1])
        BY <3>2, <4>3
      <4> HIDE DEF key, Below
      <4>6. Hashed(f[k], n) /\ Contents(f[k]) = Contents(f[k - 1]) \union {key}
        BY <3>2, <4>1, <4>4, <4>5, PutIn
      <4> QED
        BY <2>3, <3>2, <4>2, <4>6
    <3> QED
      BY <3>4, <3>5
  <2> QED
    BY <2>4, <2>5
<1>4. Below(length) = Contents(pool)
  BY DEF Contents
<1> QED
  BY <1>1, <1>3, <1>4

-----------------------------------------------------------------------------
\* The parts of HashInv that a prudent step needs.
LEMMA HashFacts ==
  ASSUME HashInv, tidied
  PROVE  /\ hash \in [Keys -> 0..MaxHash] /\ length \in Nat \ {0}
         /\ cells = NoPool \/ Hashed(cells, length)
         /\ DOMAIN cells \subseteq 0..length - 1 /\ Apart(cells)
         /\ \A c \in DOMAIN cells : cells[c] \in CellValues
         /\ Kept = Contents(cells) /\ IsFiniteSet(Kept)
         /\ count \in Nat /\ count = Cardinality(Kept) /\ 2 * count <= length
         /\ cells = NoPool => Kept = {}
         /\ cells # NoPool => \E e \in 0..length - 1 : cells[e] = Empty
<1>1. /\ hash \in [Keys -> 0..MaxHash] /\ length \in Nat \ {0}
      /\ cells = NoPool \/ Hashed(cells, length)
      /\ IsFiniteSet(Kept) /\ count = Cardinality(Kept) /\ 2 * count <= length
  BY HashAssumption DEF HashInv
<1>2. Kept = Contents(cells)
  BY DEF Kept, Contents
<1>3. count \in Nat /\ count < length
  BY <1>1, FS_CardinalityType
<1>4. CASE cells = NoPool
  <2>1. DOMAIN cells = {}
    BY <1>4 DEF NoPool
  <2> QED
    BY <1>1, <1>2, <1>3, <1>4, <2>1 DEF Apart, Contents
<1>5. CASE cells # NoPool
  <2>1. cells \in [0..length - 1 -> CellValues] /\ Apart(cells)
    BY <1>1, <1>5 DEF Hashed
  <2>2. \E e \in 0..length - 1 : cells[e] = Empty
    BY <1>1, <1>2, <1>3, <2>1, EmptyCell
  <2> QED
    BY <1>1, <1>2, <1>3, <1>5, <2>1, <2>2
<1> QED
  BY <1>4, <1>5

LEMMA FindHashKeeps ==
  ASSUME HashInv, tidied, NEW k \in Keys, FindHash(k)
  PROVE  HashInv' /\ Cells!Finds(k)
<1>1. /\ hash \in [Keys -> 0..MaxHash] /\ length \in Nat \ {0}
      /\ cells = NoPool \/ Hashed(cells, length)
      /\ Kept = Contents(cells) /\ (cells = NoPool => Kept = {})
      /\ cells # NoPool => \E e \in 0..length - 1 : cells[e] = Empty
  BY HashFacts
<1>2. /\ hit' = (cells # NoPool /\ cells[Probe(k, length, Search(cells, length, k))] = k)
      /\ UNCHANGED <<hash, cells, length, count, tidied>>
  BY DEF FindHash
<1>3. Kept' = Kept
  BY <1>2 DEF Kept
<1>4. HashInv'
  BY <1>2, <1>3 DEF HashInv, Hashed, Apart, Chained, Probe
<1>5. hit' = (k \in Kept)
  <2>1. CASE cells = NoPool
    BY <1>1, <1>2, <2>1
  <2>2. CASE cells # NoPool
    <3>1. cells[Probe(k, length, Search(cells, length, k))] = IF k \in Contents(cells) THEN k ELSE Empty
      BY <1>1, <2>2, SearchFinds
    <3> QED
      BY <1>1, <1>2, <2>2, <3>1, HashAssumption
  <2> QED
    BY <2>1, <2>2
<1> QED
  BY <1>3, <1>4, <1>5 DEF Cells!Finds

\* The invariant after a call, from what the call leaves.
LEMMA InvAfter ==
  ASSUME HashInv, NEW p, NEW n, hash' = hash, cells' = p, length' = n, n \in Lengths, tidied' \in BOOLEAN,
         p = NoPool \/ Hashed(p, n),
         IsFiniteSet(Contents(p)), count' = Cardinality(Contents(p)), 2 * count' <= n
  PROVE  HashInv' /\ Kept' = Contents(p)
<1>1. Kept' = Contents(p)
  BY DEF Kept, Contents
<1>2. Hashed(p, n) => Hashed(cells, length)'
  BY DEF Hashed, Chained, Apart, Probe
<1> QED
  BY <1>1, <1>2 DEF HashInv

\* The pool insert takes has the values of the set, and room for one more while
\* half of it stays empty.
LEMMA PoolsFit ==
  ASSUME HashInv, tidied, NEW p \in Pools
  PROVE  /\ p.size \in Lengths /\ Hashed(p.pool, p.size) /\ Contents(p.pool) = Kept
         /\ 2 * (count + 1) <= p.size
<1>1. /\ hash \in [Keys -> 0..MaxHash] /\ length \in Nat \ {0}
      /\ cells = NoPool \/ Hashed(cells, length)
      /\ Kept = Contents(cells) /\ IsFiniteSet(Kept)
      /\ count \in Nat /\ count = Cardinality(Kept) /\ 2 * count <= length
      /\ cells = NoPool => Kept = {}
  BY HashFacts
<1> DEFINE made == IF cells = NoPool THEN [c \in 0..length - 1 |-> Empty] ELSE cells
<1>2. Hashed(made, length) /\ Contents(made) = Kept
  BY <1>1, NewPool
<1>3. made \in [0..length - 1 -> CellValues] /\ Apart(made)
  BY <1>2 DEF Hashed
<1>4. CASE count < length \div 2
  <2>1. p = [pool |-> made, size |-> length]
    BY <1>4 DEF Pools
  <2>2. 2 * (count + 1) <= length /\ length \in Lengths
    BY <1>1, <1>4 DEF HashInv
  <2> HIDE DEF made
  <2> QED
    BY <1>2, <2>1, <2>2
<1>5. CASE ~(count < length \div 2)
  <2>1. PICK s \in RoundedLength(Needed(2 * length)) : p = [pool |-> Rehashed(made, s), size |-> s]
    BY <1>5 DEF Pools
  <2> HIDE DEF made
  <2>2. s \in Lengths /\ s \in Nat \ {0} /\ Needed(2 * length) <= s
    BY <2>1, HashAssumption DEF RoundedLength
  <2>3. 2 * length <= s
    BY <1>1, <2>2 DEF Needed
  <2>4. 2 * (count + 1) <= s /\ Cardinality(Contents(made)) < s
    <3>1. Cardinality(Contents(made)) = count
      BY <1>1, <1>2
    <3>2. 2 * (count + 1) <= s /\ count < s
      BY <1>1, <2>2, <2>3
    <3> QED
      BY <3>1, <3>2
  <2>5. IsFiniteSet(Contents(made)) /\ length \in Nat
        /\ DOMAIN made \subseteq 0..length - 1 /\ \A c \in DOMAIN made : made[c] \in CellValues
    BY <1>1, <1>2, <1>3
  <2>6. Hashed(Rehashed(made, s), s) /\ Contents(Rehashed(made, s)) = Contents(made)
    BY <1>1, <1>3, <2>2, <2>4, <2>5, RehashedIs
  <2> QED
    BY <1>2, <2>1, <2>2, <2>4, <2>6
<1> QED
  BY <1>4, <1>5

\* insert
LEMMA InsertHashKeeps ==
  ASSUME HashInv, tidied', NEW k \in Keys, InsertHash(k)
  PROVE  HashInv' /\ Cells!Inserts(k)
<1>1. PICK p \in Pools : /\ cells' = [p.pool EXCEPT ![Vacant(p.pool, p.size, k)] = k]
                         /\ length' = p.size
  BY DEF InsertHash
<1>2. /\ count' = count + 1 /\ hit' = TRUE /\ hash' = hash
      /\ tidied /\ \A c \in DOMAIN cells : cells[c] # k
  BY DEF InsertHash
<1>3. /\ hash \in [Keys -> 0..MaxHash]
      /\ Kept = Contents(cells) /\ IsFiniteSet(Kept) /\ count \in Nat /\ count = Cardinality(Kept)
  BY <1>2, HashFacts
<1>4. /\ p.size \in Lengths /\ Hashed(p.pool, p.size) /\ Contents(p.pool) = Kept
      /\ 2 * (count + 1) <= p.size
  BY <1>2, PoolsFit
<1> DEFINE a == p.pool
           n == p.size
           b == With(a, Vacant(a, n, k), k)
<1>5. n \in Lengths /\ n \in Nat \ {0} /\ Hashed(a, n) /\ Contents(a) = Kept /\ 2 * (count + 1) <= n
      /\ cells' = b /\ length' = n
  BY <1>1, <1>4, HashAssumption DEF With
<1>6. k \notin Kept
  BY <1>2, <1>3 DEF Contents
<1> HIDE DEF a, n
<1>7. \E e \in 0..n - 1 : a[e] = Empty
  <2>1. a \in [0..n - 1 -> CellValues] /\ Apart(a) /\ Cardinality(Kept) < n /\ n \in Nat
    BY <1>3, <1>5 DEF Hashed
  <2> QED
    BY <1>3, <1>5, <2>1, EmptyCell
<1>8. Hashed(b, n) /\ Contents(b) = Kept \union {k}
  <2>1. k \notin Contents(a)
    BY <1>5, <1>6
  <2> QED
    BY <1>3, <1>5, <1>7, <2>1, PutIn
<1> HIDE DEF b
<1>9. IsFiniteSet(Contents(b)) /\ count' = Cardinality(Contents(b)) /\ 2 * count' <= n
  <2>1. IsFiniteSet(Kept \union {k}) /\ Cardinality(Kept \union {k}) = Cardinality(Kept) + 1
    BY <1>3, <1>6, FS_AddElement
  <2> QED
    BY <1>2, <1>3, <1>5, <1>8, <2>1
<1>10. HashInv' /\ Kept' = Contents(b)
  BY <1>2, <1>5, <1>8, <1>9, InvAfter
<1> QED
  BY <1>2, <1>6, <1>8, <1>10 DEF Cells!Inserts

\* remove
LEMMA RemoveHashKeeps ==
  ASSUME HashInv, tidied', NEW k \in Keys, RemoveHash(k)
  PROVE  HashInv' /\ Cells!Removes(k)
<1>1. tidied /\ hash' = hash /\ length' = length
  BY DEF RemoveHash, HashInv
<1>2. /\ hash \in [Keys -> 0..MaxHash] /\ length \in Nat \ {0} /\ length \in Lengths
      /\ cells = NoPool \/ Hashed(cells, length)
      /\ Kept = Contents(cells) /\ IsFiniteSet(Kept)
      /\ count \in Nat /\ count = Cardinality(Kept) /\ 2 * count <= length
      /\ cells = NoPool => Kept = {}
      /\ cells # NoPool => \E e \in 0..length - 1 : cells[e] = Empty
  BY <1>1, HashFacts DEF HashInv
<1> DEFINE c == Probe(k, length, Search(cells, length, k))
<1>3. CASE cells = NoPool \/ cells[c] # k
  <2>1. hit' = FALSE /\ UNCHANGED <<cells, count, tidied>>
    BY <1>3 DEF RemoveHash
  <2>2. k \notin Kept
    <3>1. cells # NoPool => cells[c] = IF k \in Contents(cells) THEN k ELSE Empty
      BY <1>2, SearchFinds
    <3> HIDE DEF c
    <3> QED
      BY <1>2, <1>3, <3>1
  <2>3. HashInv' /\ Kept' = Contents(cells)
    <3>1. cells' = cells /\ length' = length /\ tidied' \in BOOLEAN
          /\ count' = Cardinality(Contents(cells)) /\ 2 * count' <= length /\ IsFiniteSet(Contents(cells))
      BY <1>1, <1>2, <2>1 DEF HashInv
    <3> QED
      BY <1>1, <1>2, <3>1, InvAfter
  <2>4. Kept' = Kept \ {k}
    <3>1. Kept' = Kept
      BY <1>2, <2>3
    <3> HIDE DEF c
    <3> QED
      BY <2>2, <3>1
  <2>5. hit' = (k \in Kept)
    <3>1. (k \in Kept) = FALSE
      BY <2>2
    <3> QED
      BY <2>1, <3>1, Zenon
  <2> QED
    BY <2>3, <2>4, <2>5 DEF Cells!Removes
<1>4. CASE cells # NoPool /\ cells[c] = k
  <2>1. /\ cells' = [cells EXCEPT ![c] = Empty] /\ count' = count - 1 /\ hit' = TRUE
        /\ tidied' = (tidied /\ MayEmpty(c))
    BY <1>4 DEF RemoveHash
  <2>2. c \in 0..length - 1 /\ Hashed(cells, length)
    BY <1>2, <1>4, SearchFinds
  <2> DEFINE b == With(cells, c, Empty)
  <2>3. k # Empty /\ cells[(c + 1) % length] = Empty
    BY <2>1, HashAssumption DEF MayEmpty
  <2> HIDE DEF c
  <2>4. cells \in [0..length - 1 -> CellValues]
    BY <2>2 DEF Hashed
  <2>5. k \in Kept
    BY <1>2, <1>4, <2>2, <2>3, <2>4 DEF Contents
  <2>6. Hashed(b, length) /\ Contents(b) = Kept \ {k}
    <3>1. cells[c] # Empty
      BY <1>4, <2>3
    <3>2. Hashed(b, length) /\ Contents(b) = Contents(cells) \ {cells[c]}
      BY <1>2, <2>2, <2>3, <3>1, TakenOut
    <3> QED
      BY <1>2, <1>4, <3>2
  <2>7. IsFiniteSet(Contents(b)) /\ Cardinality(Contents(b)) = count - 1
    <3>1. IsFiniteSet(Kept) /\ count = Cardinality(Kept)
      BY <1>2
    <3>2. IsFiniteSet(Kept \ {k}) /\ Cardinality(Kept \ {k}) = Cardinality(Kept) - 1
      BY <2>5, <3>1, FS_RemoveElement
    <3>3. Contents(b) = Kept \ {k}
      BY <2>6
    <3> HIDE DEF b
    <3> QED
      BY <3>1, <3>2, <3>3
  <2>8. cells' = b /\ count' = Cardinality(Contents(b)) /\ 2 * count' <= length /\ tidied' \in BOOLEAN
    BY <1>2, <2>1, <2>7 DEF With
  <2> HIDE DEF b
  <2>9. HashInv' /\ Kept' = Contents(b)
    BY <1>1, <1>2, <2>6, <2>7, <2>8, InvAfter
  <2> QED
    BY <2>1, <2>5, <2>6, <2>9 DEF Cells!Removes
<1> QED
  BY <1>3, <1>4

\* reserve
LEMMA ReserveHashKeeps ==
  ASSUME HashInv, tidied, NEW m \in Lengths, ReserveHash(m)
  PROVE  HashInv' /\ Cells!Stays
<1>1. PICK s \in RoundedLength(Needed(m)) : cells' = Rehashed(cells, s) /\ length' = s
  BY DEF ReserveHash
<1>2. hit' = TRUE /\ UNCHANGED <<hash, count, tidied>>
  BY DEF ReserveHash
<1>3. /\ hash \in [Keys -> 0..MaxHash] /\ length \in Nat \ {0}
      /\ DOMAIN cells \subseteq 0..length - 1 /\ Apart(cells)
      /\ \A c \in DOMAIN cells : cells[c] \in CellValues
      /\ Kept = Contents(cells) /\ IsFiniteSet(Kept)
      /\ count \in Nat /\ count = Cardinality(Kept)
  BY HashFacts
<1>4. s \in Lengths /\ s \in Nat \ {0} /\ m \in Nat /\ Needed(m) <= s
  BY <1>1, HashAssumption DEF RoundedLength
<1>5. 2 * count <= s /\ count < s
  BY <1>3, <1>4 DEF Needed
<1>6. Hashed(Rehashed(cells, s), s) /\ Contents(Rehashed(cells, s)) = Contents(cells)
  <2>1. length \in Nat /\ Cardinality(Contents(cells)) < s /\ IsFiniteSet(Contents(cells))
    BY <1>3, <1>5
  <2> QED
    BY <1>3, <1>4, <2>1, RehashedIs
<1> DEFINE b == Rehashed(cells, s)
<1>7. cells' = b /\ Hashed(b, s) /\ Contents(b) = Kept
  BY <1>1, <1>3, <1>6
<1> HIDE DEF b
<1>8. IsFiniteSet(Contents(b)) /\ count' = Cardinality(Contents(b)) /\ 2 * count' <= s
  BY <1>2, <1>3, <1>5, <1>7
<1>9. HashInv' /\ Kept' = Contents(b)
  BY <1>1, <1>2, <1>4, <1>7, <1>8, InvAfter
<1> QED
  BY <1>2, <1>7, <1>9 DEF Cells!Stays

\* reset
LEMMA ResetHashKeeps ==
  ASSUME HashInv, tidied, ResetHash
  PROVE  HashInv' /\ Cells!Clears
<1>1. /\ cells' = NoPool /\ length' = 8 /\ count' = 0 /\ hit' = TRUE
      /\ UNCHANGED <<hash, tidied>>
  BY DEF ResetHash
<1>2. Contents(NoPool) = {}
  BY DEF Contents, NoPool
<1>3. IsFiniteSet(Contents(NoPool)) /\ count' = Cardinality(Contents(NoPool)) /\ 2 * count' <= 8
  BY <1>1, <1>2, FS_EmptySet
<1>4. HashInv' /\ Kept' = Contents(NoPool)
  BY <1>1, <1>3, InvAfter, HashAssumption
<1> QED
  BY <1>1, <1>2, <1>4 DEF Cells!Clears

\* A program that keeps to the rules finds in a hash set what it has put there
\* and not taken out, and nothing else: for any values, any hashes they collide
\* on and any pools, through every reserve.
THEOREM HashSetImplements == HashSpec => HashImplements
<1> DEFINE Call == tidied' => /\ ResetHash => Cells!Clears
                              /\ \A n \in Lengths : ReserveHash(n) => Cells!Stays
                              /\ \A k \in Keys : /\ InsertHash(k) => Cells!Inserts(k)
                                                 /\ RemoveHash(k) => Cells!Removes(k)
                                                 /\ FindHash(k) => Cells!Finds(k)
<1>1. HashInit => HashInv
  <2> SUFFICES ASSUME HashInit PROVE HashInv
    OBVIOUS
  <2>1. Kept = {}
    BY DEF HashInit, Kept, NoPool
  <2>2. length \in Nat
    BY HashAssumption DEF HashInit
  <2> QED
    BY <2>1, <2>2, FS_EmptySet DEF HashInit, HashInv
<1>2. HashInv /\ [HashNext]_hashVars => HashInv'
  <2> SUFFICES ASSUME HashInv, [HashNext]_hashVars PROVE HashInv'
    OBVIOUS
  <2>1. CASE UNCHANGED hashVars
    <3>1. UNCHANGED <<hash, cells, length, count, tidied>>
      BY <2>1 DEF hashVars
    <3>2. Kept' = Kept
      BY <3>1 DEF Kept
    <3> QED
      BY <3>1, <3>2 DEF HashInv, Hashed, Apart, Chained, Probe
  <2>2. CASE HashNext /\ tidied'
    <3>1. tidied
      BY <2>2 DEF HashNext, InsertHash, FindHash, RemoveHash, ReserveHash, ResetHash, HashInv
    <3> QED
      BY <2>2, <3>1, InsertHashKeeps, FindHashKeeps, RemoveHashKeeps, ReserveHashKeeps, ResetHashKeeps DEF HashNext
  <2>3. CASE HashNext /\ ~tidied'
    <3>1. hash' = hash /\ tidied' \in BOOLEAN
      BY <2>3 DEF HashNext, InsertHash, FindHash, RemoveHash, ReserveHash, ResetHash, HashInv
    <3>2. length' \in Lengths
      BY <2>3, HashAssumption
         DEF HashNext, InsertHash, FindHash, RemoveHash, ReserveHash, ResetHash, HashInv, Pools, RoundedLength
    <3> QED
      BY <2>3, <3>1, <3>2 DEF HashInv
  <2> QED
    BY <2>1, <2>2, <2>3
<1>3. HashInv /\ [HashNext]_hashVars => [Call]_hashVars
  <2> SUFFICES ASSUME HashInv, HashNext, tidied' PROVE Call
    OBVIOUS
  <2>1. ASSUME ResetHash PROVE Cells!Clears
    BY <2>1, ResetHashKeeps DEF ResetHash
  <2>2. ASSUME NEW n \in Lengths, ReserveHash(n) PROVE Cells!Stays
    BY <2>2, ReserveHashKeeps DEF ReserveHash
  <2>3. ASSUME NEW k \in Keys, FindHash(k) PROVE Cells!Finds(k)
    BY <2>3, FindHashKeeps DEF FindHash
  <2> QED
    BY <2>1, <2>2, <2>3, InsertHashKeeps, RemoveHashKeeps
<1>4. [][Call]_hashVars => HashImplements
  BY DEF HashImplements
<1> HIDE DEF Call
<1> QED
  BY <1>1, <1>2, <1>3, <1>4, PTL DEF HashSpec

-----------------------------------------------------------------------------
\* Division with remainder.
LEMMA DivMod ==
  ASSUME NEW i \in Int, NEW m \in Nat, m > 0, NEW q \in Int, q = i \div m,
         NEW r \in Int, r = i % m
  PROVE  i = m * q + r /\ r \in 0 .. m - 1
<1>1. i = m * q + r
  BY SMTT(60)
<1>2. r \in 0 .. m - 1
  BY SMTT(60)
<1> QED
  BY <1>1, <1>2

\* The remainder of what is less than twice the divisor away from zero.
LEMMA Remainder ==
  ASSUME NEW m \in Nat, m > 0, NEW i \in Int, -m < i, i < 2 * m
  PROVE  i % m = IF i < 0 THEN i + m ELSE IF i < m THEN i ELSE i - m
<1>1. i \div m \in Int /\ i % m \in Int
  BY SMTT(60)
<1>2. PICK q \in Int, r \in Int : q = i \div m /\ r = i % m
  BY <1>1
<1>3. i = m * q + r /\ r \in 0 .. m - 1
  BY <1>2, DivMod
<1>4. q >= 2 => m * q >= 2 * m
  OBVIOUS
<1>5. q <= -2 => m * q <= -2 * m
  OBVIOUS
<1>6. q = -1 \/ q = 0 \/ q = 1
  BY <1>3, <1>4, <1>5
<1>7. (q = -1 => m * q = -m) /\ (q = 0 => m * q = 0) /\ (q = 1 => m * q = m)
  OBVIOUS
<1>8. r = IF i < 0 THEN i + m ELSE IF i < m THEN i ELSE i - m
  BY <1>3, <1>6, <1>7
<1> QED
  BY <1>2, <1>8

\* The constants in the arithmetic that is needed of them.
LEMMA Constants ==
  ASSUME Limit < Half
  PROVE  /\ Wrap \in Nat /\ Half \in Nat /\ Limit \in Nat /\ MaxTick \in Nat /\ Capacity \in Nat
         /\ 2 * Half < Wrap /\ MaxTick < Half /\ Wrap > 0
         /\ Reentrant => Limit + MaxTick < Half
<1>1. Half \in Int /\ 2 * Half <= Wrap - 1
  BY QueueAssumption DEF Half
<1> QED
  BY <1>1, QueueAssumption

\* Sums and differences of counters.
LEMMA Wrapped ==
  ASSUME Limit < Half, NEW x \in Counters, NEW y \in Counters
  PROVE  /\ (x - y) % Wrap = IF x < y THEN x - y + Wrap ELSE x - y
         /\ (x + y) % Wrap = IF x + y < Wrap THEN x + y ELSE x + y - Wrap
<1>1. PICK m \in Nat : m = Wrap /\ m > 0
  BY Constants
<1>2. x \in 0 .. m - 1 /\ y \in 0 .. m - 1
  BY <1>1 DEF Counters
<1>3. PICK d \in Int : d = x - y /\ -m < d /\ d < 2 * m
  BY <1>2
<1>4. PICK s \in Int : s = x + y /\ -m < s /\ s < 2 * m
  BY <1>2
<1>5. d % m = IF d < 0 THEN d + m ELSE IF d < m THEN d ELSE d - m
  BY <1>1, <1>3, Remainder
<1>6. s % m = IF s < 0 THEN s + m ELSE IF s < m THEN s ELSE s - m
  BY <1>1, <1>4, Remainder
<1>7. (x - y) % m = IF x < y THEN x - y + m ELSE x - y
  BY <1>2, <1>3, <1>5
<1>8. (x + y) % m = IF x + y < m THEN x + y ELSE x + y - m
  BY <1>2, <1>4, <1>6
<1> QED
  BY <1>1, <1>7, <1>8

\* Parents and children.
LEMMA Tree ==
  ASSUME NEW i \in Nat, i > 0
  PROVE  /\ Parent(i) \in Nat /\ Parent(i) < i
         /\ i = 2 * Parent(i) + 1 \/ i = 2 * Parent(i) + 2
BY DEF Parent

-----------------------------------------------------------------------------
\* What holds of the entries: how far each is from the clock and from the
\* others, and that events are told apart.
Near ==
    \A i \in 0 .. heapsize - 1 :
      /\ Key(i) \in -MaxTick .. Limit
      /\ ticking = "no" => Key(i) >= 0
      /\ \A j \in 0 .. heapsize - 1 :
           /\ Key(i) - Key(j) < Half
           /\ i # j => heap[i].event # heap[j].event

\* The inductive invariant.
QueueInv == TypeOK /\ HeapOrdered /\ Near

\* The counter of an entry, from its distance to the clock.
LEMMA CounterOf ==
  ASSUME Limit < Half, NEW b \in Counters, b = basecounter, NEW c \in Counters
  PROVE  /\ Left(c) \in Int
         /\ Left(c) \in Limit - Wrap + 1 .. Limit
         /\ c = (IF b + Left(c) >= Wrap THEN b + Left(c) - Wrap
                 ELSE IF b + Left(c) < 0 THEN b + Left(c) + Wrap ELSE b + Left(c))
<1>1. (c - b) % Wrap = IF c < b THEN c - b + Wrap ELSE c - b
  BY Wrapped
<1>2. PICK d \in Int : d = (IF c < b THEN c - b + Wrap ELSE c - b)
  BY Constants DEF Counters
<1>3. Left(c) = IF d <= Limit THEN d ELSE d - Wrap
  BY <1>1, <1>2 DEF Left
<1> QED
  BY <1>2, <1>3, Constants DEF Counters

\* gte compares what is left of two entries.
LEMMA GteKey ==
  ASSUME Limit < Half, NEW b \in Counters, b = basecounter,
         NEW x \in Counters, NEW y \in Counters,
         Left(x) - Left(y) < Half, Left(y) - Left(x) < Half
  PROVE  gte(x, y) <=> Left(x) >= Left(y)
<1>1. PICK k \in Int, l \in Int : k = Left(x) /\ l = Left(y)
  BY CounterOf
<1>2. /\ x = (IF b + k >= Wrap THEN b + k - Wrap ELSE IF b + k < 0 THEN b + k + Wrap ELSE b + k)
      /\ y = (IF b + l >= Wrap THEN b + l - Wrap ELSE IF b + l < 0 THEN b + l + Wrap ELSE b + l)
  BY <1>1, CounterOf
<1>3. (x - y) % Wrap = IF x < y THEN x - y + Wrap ELSE x - y
  BY Wrapped
<1>4. PICK d \in Int : d = (IF x < y THEN x - y + Wrap ELSE x - y)
  BY Constants DEF Counters
<1>5. k - l < Half /\ l - k < Half
  BY <1>1
<1>6. d < Half <=> k >= l
  BY <1>2, <1>4, <1>5, Constants DEF Counters
<1> QED
  BY <1>1, <1>3, <1>4, <1>6 DEF gte

\* gte against the clock tells what is due.
LEMMA GteClock ==
  ASSUME Limit < Half, NEW b \in Counters, b = basecounter,
         NEW x \in Counters, -MaxTick <= Left(x)
  PROVE  gte(b, x) <=> Left(x) <= 0
<1>1. PICK k \in Int : k = Left(x) /\ k <= Limit /\ -MaxTick <= k
  BY CounterOf, Constants
<1>2. x = (IF b + k >= Wrap THEN b + k - Wrap ELSE IF b + k < 0 THEN b + k + Wrap ELSE b + k)
  BY <1>1, CounterOf
<1>3. (b - x) % Wrap = IF b < x THEN b - x + Wrap ELSE b - x
  BY Wrapped
<1>4. PICK d \in Int : d = (IF b < x THEN b - x + Wrap ELSE b - x)
  BY Constants DEF Counters
<1>5. d < Half <=> k <= 0
  BY <1>1, <1>2, <1>4, Constants DEF Counters
<1> QED
  BY <1>1, <1>3, <1>4, <1>5 DEF gte

\* Entries have counters, and distances that gte compares.
LEMMA Compared ==
  ASSUME Limit < Half, QueueInv, NEW i \in 0 .. heapsize - 1, NEW j \in 0 .. heapsize - 1
  PROVE  /\ Key(i) \in Int /\ Key(j) \in Int
         /\ gte(heap[i].counter, heap[j].counter) <=> Key(i) >= Key(j)
<1>1. heap[i].counter \in Counters /\ heap[j].counter \in Counters /\ basecounter \in Counters
  BY DEF QueueInv, TypeOK
<1>2. Key(i) - Key(j) < Half /\ Key(j) - Key(i) < Half
  BY DEF QueueInv, Near
<1>3. gte(heap[i].counter, heap[j].counter) <=> Key(i) >= Key(j)
  BY <1>1, <1>2, GteKey DEF Key
<1>4. Key(i) \in Int /\ Key(j) \in Int
  BY <1>1, CounterOf DEF Key
<1> QED
  BY <1>3, <1>4

\* Nothing in a heap without a hole is due before its root: an entry that is,
\* with none before it in the array that is, would have a parent that is.
LEMMA RootFirst ==
  ASSUME Limit < Half, QueueInv, step = "none", NEW i \in 0 .. heapsize - 1
  PROVE  Key(0) <= Key(i)
<1> DEFINE T == {j \in 0 .. heapsize - 1 : Key(j) < Key(0)}
<1>1. heapsize \in Nat /\ at = 0
  BY DEF QueueInv, TypeOK
<1>2. SUFFICES ASSUME T # {} PROVE FALSE
  <2>1. 0 \in 0 .. heapsize - 1
    BY <1>1
  <2>2. Key(0) \in Int /\ Key(i) \in Int
    BY <2>1, Compared
  <2> QED
    BY <2>2
<1>3. T \subseteq Nat
  BY <1>1
<1>4. PICK j \in T : \A l \in T : ~(<<l, j>> \in OpToRel(<, Nat))
  <2>1. IsWellFoundedOn(OpToRel(<, Nat), Nat)
    BY NatLessThanWellFounded
  <2> QED
    BY <1>2, <1>3, <2>1, WFMin
<1>5. \A l \in T : ~(l < j)
  BY <1>3, <1>4 DEF OpToRel
<1>6. j \in 0 .. heapsize - 1 /\ Key(j) < Key(0) /\ 0 \in 0 .. heapsize - 1
  BY <1>1
<1>7. Key(0) \in Int /\ Key(j) \in Int
  BY <1>6, Compared
<1>8. j \in Nat /\ j > 0
  BY <1>1, <1>6, <1>7
<1>9. Parent(j) \in 0 .. heapsize - 1 /\ Parent(j) < j
  BY <1>1, <1>6, <1>8, Tree
<1>10. Key(Parent(j)) \in Int
  BY <1>9, Compared
<1>11. Key(Parent(j)) <= Key(j)
  BY <1>1, <1>6, <1>8 DEF QueueInv, HeapOrdered
<1> QED
  BY <1>5, <1>6, <1>7, <1>9, <1>10, <1>11

-----------------------------------------------------------------------------
\* Moving the hole exchanges two entries, which changes neither how far they
\* are from each other nor what is pending.
LEMMA Moved ==
  ASSUME Limit < Half, QueueInv, NEW N \in Nat, N = heapsize,
         NEW n \in 0 .. N - 1, n = at, NEW p \in 0 .. N - 1, p # n, step # "none", MoveHole(p)
  PROVE  /\ TypeOK' /\ Near' /\ Pending' = Pending
         /\ Key(p)' = Key(n) /\ Key(n)' = Key(p) /\ at' = p
         /\ \A i \in 0 .. N - 1 : i # p /\ i # n => Key(i)' = Key(i)
<1> DEFINE To == [i \in 0 .. N - 1 |-> IF i = n THEN p ELSE IF i = p THEN n ELSE i]
<1>1. /\ heap' = [heap EXCEPT ![n] = heap[p], ![p] = heap[n]] /\ at' = p
      /\ UNCHANGED <<basecounter, heapsize, step, ticking, returned>> /\ heapsize' = N
  BY DEF MoveHole
<1>2. \A i \in 0 .. N - 1 :
        /\ To[i] \in 0 .. N - 1 /\ To[To[i]] = i
        /\ heap'[i] = heap[To[i]]
  BY <1>1 DEF QueueInv, TypeOK
<1>3. \A c : Left(c)' = Left(c)
  BY <1>1 DEF Left
<1>4. \A i \in 0 .. N - 1 : Key(i)' = Key(To[i])
  BY <1>2, <1>3 DEF Key
<1>5. /\ Key(p)' = Key(n) /\ Key(n)' = Key(p)
      /\ \A i \in 0 .. N - 1 : i # p /\ i # n => Key(i)' = Key(i)
  BY <1>4
<1>6. TypeOK'
  <2>1. ASSUME NEW i \in 0 .. N - 1 PROVE heap'[i] \in [counter : Counters, event : Events]
    <3>1. PICK j \in 0 .. N - 1 : heap'[i] = heap[j]
      BY <1>2
    <3>2. heap[j] \in [counter : Counters, event : Events]
      BY DEF QueueInv, TypeOK
    <3> QED
      BY <3>1, <3>2
  <2>2. heap' \in [0 .. heapsize' - 1 -> [counter : Counters, event : Events]]
    BY <1>1, <2>1 DEF QueueInv, TypeOK
  <2> QED
    BY <1>1, <2>2 DEF QueueInv, TypeOK
<1>7. Near'
  <2> SUFFICES ASSUME NEW i \in 0 .. N - 1
               PROVE  /\ Key(i)' \in -MaxTick .. Limit
                      /\ ticking = "no" => Key(i)' >= 0
                      /\ \A j \in 0 .. N - 1 :
                           /\ Key(i)' - Key(j)' < Half
                           /\ i # j => heap'[i].event # heap'[j].event
    BY <1>1 DEF Near
  <2>1. Key(To[i]) \in -MaxTick .. Limit /\ (ticking = "no" => Key(To[i]) >= 0)
    BY <1>2 DEF QueueInv, Near
  <2>2. ASSUME NEW j \in 0 .. N - 1
        PROVE  /\ Key(i)' - Key(j)' < Half
               /\ i # j => heap'[i].event # heap'[j].event
    <3>1. Key(To[i]) - Key(To[j]) < Half
      BY <1>2 DEF QueueInv, Near
    <3>2. i # j => To[i] # To[j]
      BY <1>2
    <3>3. \A a, b \in 0 .. N - 1 : a # b => heap[a].event # heap[b].event
      BY DEF QueueInv, Near
    <3>4. /\ To[i] \in 0 .. N - 1 /\ To[j] \in 0 .. N - 1
          /\ heap'[i] = heap[To[i]] /\ heap'[j] = heap[To[j]]
      BY <1>2
    <3>5. Key(i)' = Key(To[i]) /\ Key(j)' = Key(To[j])
      BY <1>4
    <3> HIDE DEF To
    <3> QED
      BY <3>1, <3>2, <3>3, <3>4, <3>5
  <2> QED
    BY <1>4, <2>1, <2>2
<1>8. Pending' = Pending
  <2> DEFINE P(i) == [event |-> heap[i].event, left |-> Key(i)]
             Q(i) == [event |-> heap'[i].event, left |-> Key(i)']
  <2>1. \A i \in 0 .. N - 1 : Q(i) = P(To[i])
    BY <1>2, <1>4
  <2>2. \A i \in 0 .. N - 1 : \E j \in 0 .. N - 1 : P(i) = Q(j)
    <3> SUFFICES ASSUME NEW i \in 0 .. N - 1 PROVE \E j \in 0 .. N - 1 : P(i) = Q(j)
      OBVIOUS
    <3>1. PICK j \in 0 .. N - 1 : j = To[i] /\ To[j] = i
      BY <1>2
    <3>2. Q(j) = P(i)
      BY <2>1, <3>1
    <3> QED
      BY <3>2
  <2>3. \A i \in 0 .. N - 1 : \E j \in 0 .. N - 1 : Q(i) = P(j)
    BY <1>2, <2>1
  <2>4. Pending = {P(i) : i \in 0 .. N - 1} /\ Pending' = {Q(i) : i \in 0 .. N - 1}
    BY <1>1 DEF Pending
  <2> HIDE DEF P, Q
  <2> QED
    BY <2>2, <2>3, <2>4
<1> QED
  BY <1>1, <1>5, <1>6, <1>7, <1>8

\* One turn of the loop of enqueue.
LEMMA UpStep ==
  ASSUME Limit < Half, QueueInv, Up
  PROVE  QueueInv' /\ UNCHANGED Schedule!vars
<1>1. PICK n \in Int : n = at
  BY DEF QueueInv, TypeOK
<1>2. step = "up" /\ n > 0 /\ n \in 1 .. heapsize - 1 /\ heapsize \in Nat /\ n \in Nat
  BY <1>1 DEF Up, Rises, QueueInv, TypeOK
<1>3. PICK p \in Nat : p = Parent(n) /\ p < n
  BY <1>2, Tree
<1>4. p \in 0 .. heapsize - 1 /\ n \in 0 .. heapsize - 1
  BY <1>2, <1>3
<1>5. MoveHole(p) /\ ~gte(heap[n].counter, heap[p].counter)
  BY <1>1, <1>3 DEF Up, Rises
<1>6. Key(n) < Key(p)
  BY <1>4, <1>5, Compared
<1>7. /\ TypeOK' /\ Near' /\ Pending' = Pending
      /\ Key(p)' = Key(n) /\ Key(n)' = Key(p) /\ at' = p
      /\ \A i \in 0 .. heapsize - 1 : i # p /\ i # n => Key(i)' = Key(i)
  <2>1. PICK N \in Nat : N = heapsize
    BY <1>2
  <2> QED
    BY <1>1, <1>2, <1>3, <1>4, <1>5, <2>1, Moved
<1>8. UNCHANGED <<heapsize, step, ticking, returned>>
  BY <1>5 DEF MoveHole
<1>9. HeapOrdered'
  <2> SUFFICES ASSUME NEW i \in 1 .. heapsize - 1
               PROVE  /\ i # p => Key(Parent(i))' <= Key(i)'
                      /\ Parent(i) = p /\ p > 0 => Key(Parent(p))' <= Key(i)'
    BY <1>2, <1>7, <1>8 DEF HeapOrdered
  <2>1. PICK q \in Nat : q = Parent(i) /\ q < i /\ q \in 0 .. heapsize - 1 /\ i \in 0 .. heapsize - 1
    BY <1>2, Tree
  <2>2. Key(i) \in Int /\ Key(q) \in Int /\ Key(p) \in Int /\ Key(n) \in Int
    BY <1>4, <2>1, Compared
  <2>3. i # n => Key(q) <= Key(i)
    BY <1>1, <1>2, <2>1 DEF QueueInv, HeapOrdered
  <2>4. q = n => Key(p) <= Key(i)
    BY <1>1, <1>2, <1>3, <2>1 DEF QueueInv, HeapOrdered
  <2>5. ASSUME i # p PROVE Key(q)' <= Key(i)'
    <3>1. CASE i = n
      BY <1>3, <1>6, <1>7, <2>1, <2>2, <3>1
    <3>2. CASE i # n /\ q = p
      BY <1>6, <1>7, <2>1, <2>2, <2>3, <2>5, <3>2
    <3>3. CASE i # n /\ q = n
      BY <1>7, <2>1, <2>2, <2>4, <2>5, <3>3
    <3>4. CASE i # n /\ q # n /\ q # p
      BY <1>7, <2>1, <2>3, <2>5, <3>4
    <3> QED
      BY <3>1, <3>2, <3>3, <3>4
  <2>6. ASSUME q = p, p > 0 PROVE Key(Parent(p))' <= Key(i)'
    <3>1. PICK r \in Nat : r = Parent(p) /\ r < p /\ r \in 0 .. heapsize - 1
      <4>1. Parent(p) \in Nat /\ Parent(p) < p
        BY <2>6, Tree
      <4> QED
        BY <1>2, <1>4, <4>1
    <3>2. Key(r)' = Key(r) /\ Key(r) \in Int
      BY <1>3, <1>7, <3>1, Compared
    <3>3. Key(r) <= Key(p)
      <4>1. p \in 1 .. heapsize - 1 /\ p # at
        BY <1>1, <1>2, <1>3, <2>6
      <4> QED
        BY <1>2, <3>1, <4>1 DEF QueueInv, HeapOrdered
    <3>4. CASE i = n
      BY <1>7, <2>2, <3>1, <3>2, <3>3, <3>4
    <3>5. CASE i # n
      <4>1. Key(i)' = Key(i)
        BY <1>7, <2>1, <2>6, <3>5
      <4> QED
        BY <2>2, <2>3, <2>6, <3>1, <3>2, <3>3, <3>5, <4>1
    <3> QED
      BY <3>4, <3>5
  <2> QED
    BY <2>1, <2>5, <2>6
<1> QED
  BY <1>7, <1>8, <1>9 DEF QueueInv, Schedule!vars

\* The child that dequeue picks is the first of those the hole has.
LEMMA ChildFirst ==
  ASSUME Limit < Half, QueueInv, NEW N \in Nat, N = heapsize, NEW n \in 0 .. N - 1, n = at,
         2 * n + 1 < N
  PROVE  /\ Child \in 1 .. N - 1 /\ Parent(Child) = n
         /\ \A i \in 1 .. N - 1 : Parent(i) = n => Key(Child) <= Key(i)
<1>1. PICK l \in Nat, r \in Nat : l = 2 * n + 1 /\ r = 2 * n + 2 /\ l \in 1 .. N - 1
  OBVIOUS
<1>2. Child = IF r < N /\ gte(heap[l].counter, heap[r].counter) THEN r ELSE l
  BY <1>1 DEF Child
<1>3. Key(l) \in Int
  BY <1>1, Compared
<1>4. r < N => Key(r) \in Int /\ (gte(heap[l].counter, heap[r].counter) <=> Key(l) >= Key(r))
  BY <1>1, Compared
<1>5. /\ Parent(l) = n /\ Parent(r) = n
      /\ \A i \in 1 .. N - 1 : Parent(i) = n => i = l \/ i = r
  BY <1>1 DEF Parent
<1>6. CASE Child = r
  BY <1>1, <1>2, <1>3, <1>4, <1>5, <1>6
<1>7. CASE Child = l
  BY <1>1, <1>2, <1>3, <1>4, <1>5, <1>7
<1> QED
  BY <1>2, <1>6, <1>7

\* One turn of the loop of dequeue.
LEMMA DownStep ==
  ASSUME Limit < Half, QueueInv, Down
  PROVE  QueueInv' /\ UNCHANGED Schedule!vars
<1>1. PICK N \in Nat : N = heapsize
  BY DEF QueueInv, TypeOK
<1>2. PICK n \in 0 .. N - 1 : n = at /\ step = "down" /\ 2 * n + 1 < N
  <2>1. step = "down" /\ 2 * at + 1 < heapsize
    BY DEF Down, Sinks
  <2>2. at \in 0 .. N - 1
    BY <1>1, <2>1 DEF QueueInv, TypeOK
  <2> QED
    BY <1>1, <2>1, <2>2
<1>3. PICK c \in 1 .. N - 1 : c = Child
  BY <1>1, <1>2, ChildFirst
<1>4. /\ Parent(c) = n /\ n < c /\ c \in 0 .. N - 1
      /\ \A i \in 1 .. N - 1 : Parent(i) = n => Key(c) <= Key(i)
  BY <1>1, <1>2, <1>3, ChildFirst, Tree
<1>5. MoveHole(c) /\ ~gte(heap[c].counter, heap[n].counter)
  BY <1>2, <1>3 DEF Down, Sinks
<1>6. Key(c) < Key(n)
  BY <1>1, <1>4, <1>5, Compared
<1>7. /\ TypeOK' /\ Near' /\ Pending' = Pending
      /\ Key(c)' = Key(n) /\ Key(n)' = Key(c) /\ at' = c
      /\ \A i \in 0 .. N - 1 : i # c /\ i # n => Key(i)' = Key(i)
  BY <1>1, <1>2, <1>4, <1>5, Moved
<1>8. UNCHANGED <<heapsize, step, ticking, returned>>
  BY <1>5 DEF MoveHole
<1>9. HeapOrdered'
  <2> SUFFICES ASSUME NEW i \in 1 .. N - 1
               PROVE  /\ Parent(i) # c => Key(Parent(i))' <= Key(i)'
                      /\ Parent(i) = c => Key(Parent(c))' <= Key(i)'
    BY <1>1, <1>2, <1>7, <1>8 DEF HeapOrdered
  <2>1. PICK q \in Nat : q = Parent(i) /\ q < i /\ q \in 0 .. N - 1 /\ i \in 0 .. N - 1
    BY Tree
  <2>2. Key(i) \in Int /\ Key(q) \in Int /\ Key(c) \in Int /\ Key(n) \in Int
    BY <1>1, <1>4, <2>1, Compared
  <2>3. q # n => Key(q) <= Key(i)
    BY <1>1, <1>2, <2>1 DEF QueueInv, HeapOrdered
  <2>4. ASSUME q # c PROVE Key(q)' <= Key(i)'
    <3>1. CASE i = c
      BY <1>4, <1>6, <1>7, <2>1, <2>2, <3>1
    <3>2. CASE i # c /\ q = n
      BY <1>4, <1>7, <2>1, <3>2
    <3>3. CASE i = n
      <4>1. Key(q) <= Key(c)
        BY <1>1, <1>2, <1>3, <1>4, <2>1, <3>3 DEF QueueInv, HeapOrdered
      <4> QED
        BY <1>4, <1>7, <2>1, <2>4, <3>3, <4>1
    <3>4. CASE i # c /\ i # n /\ q # n
      BY <1>7, <2>1, <2>3, <2>4, <3>4
    <3> QED
      BY <3>1, <3>2, <3>3, <3>4
  <2>5. ASSUME q = c PROVE Key(n)' <= Key(i)'
    <3>1. Key(c) <= Key(i) /\ i # n /\ i # c
      BY <1>4, <2>1, <2>3, <2>5
    <3> QED
      BY <1>7, <2>1, <3>1
  <2> QED
    BY <1>4, <2>1, <2>4, <2>5
<1> QED
  BY <1>7, <1>8, <1>9 DEF QueueInv, Schedule!vars

\* The end of either loop: with the hole gone, the rule holds everywhere.
LEMMA FillStep ==
  ASSUME Limit < Half, QueueInv, Fill
  PROVE  QueueInv' /\ UNCHANGED Schedule!vars
<1>1. PICK N \in Nat : N = heapsize
  BY DEF QueueInv, TypeOK
<1>2. step' = "none" /\ at' = 0 /\ UNCHANGED <<basecounter, heapsize, heap, ticking, returned>>
  BY DEF Fill
<1>3. \A i : Key(i)' = Key(i)
  BY <1>2 DEF Key, Left
<1>4. TypeOK' /\ Near' /\ Pending' = Pending
  BY <1>2, <1>3 DEF QueueInv, TypeOK, Near, Pending
<1>5. ASSUME NEW i \in 1 .. N - 1 PROVE Key(Parent(i)) <= Key(i)
  <2>1. PICK q \in Nat : q = Parent(i) /\ q < i /\ q \in 0 .. N - 1 /\ i \in 0 .. N - 1
    BY Tree
  <2>2. Key(i) \in Int /\ Key(q) \in Int
    BY <1>1, <2>1, Compared
  <2>3. CASE step = "up"
    <3>1. CASE i = at
      <4>1. gte(heap[i].counter, heap[q].counter)
        BY <2>1, <2>3, <3>1 DEF Fill, Rises
      <4> QED
        BY <1>1, <2>1, <2>2, <4>1, Compared
    <3>2. CASE i # at
      BY <1>1, <2>3, <3>2 DEF QueueInv, HeapOrdered
    <3> QED
      BY <3>1, <3>2
  <2>4. CASE step = "down"
    <3>1. CASE q = at
      <4>1. 2 * q + 1 < N
        BY <2>1, Tree
      <4>2. PICK c \in 1 .. N - 1 : c = Child /\ Key(c) <= Key(i)
        BY <1>1, <2>1, <3>1, <4>1, ChildFirst
      <4>3. gte(heap[c].counter, heap[q].counter)
        BY <1>1, <2>4, <3>1, <4>1, <4>2 DEF Fill, Sinks
      <4>4. Key(c) >= Key(q) /\ Key(c) \in Int
        BY <1>1, <2>1, <4>3, Compared
      <4> QED
        BY <2>1, <2>2, <4>2, <4>4
    <3>2. CASE q # at
      BY <1>1, <2>1, <2>4, <3>2 DEF QueueInv, HeapOrdered
    <3> QED
      BY <3>1, <3>2
  <2> QED
    BY <2>3, <2>4 DEF Fill
<1>6. HeapOrdered'
  BY <1>1, <1>2, <1>3, <1>5 DEF HeapOrdered
<1> QED
  BY <1>2, <1>4, <1>6 DEF QueueInv, Schedule!vars

-----------------------------------------------------------------------------
\* A delay gives a counter that much ahead of the clock.
LEMMA LeftOfCounter ==
  ASSUME Limit < Half, basecounter \in Counters, NEW n \in 0 .. Half - 1
  PROVE  Counter(n) \in Counters /\ (n <= Limit => Left(Counter(n)) = n)
<1>1. PICK b \in Counters : b = basecounter
  OBVIOUS
<1>2. n \in Counters
  BY Constants DEF Counters
<1>3. (n + b) % Wrap = IF n + b < Wrap THEN n + b ELSE n + b - Wrap
  BY <1>2, Wrapped
<1>4. PICK c \in Counters : c = Counter(n) /\ c = (IF n + b < Wrap THEN n + b ELSE n + b - Wrap)
  <2>1. (IF n + b < Wrap THEN n + b ELSE n + b - Wrap) \in Counters
    BY <1>2, Constants DEF Counters
  <2> QED
    BY <1>1, <1>3, <2>1 DEF Counter
<1>5. (c - b) % Wrap = IF c < b THEN c - b + Wrap ELSE c - b
  BY Wrapped
<1>6. (IF c < b THEN c - b + Wrap ELSE c - b) = n
  BY <1>2, <1>4, Constants DEF Counters
<1>7. n <= Limit => Left(c) = n
  BY <1>1, <1>5, <1>6 DEF Left
<1> QED
  BY <1>4, <1>7

\* Ticks bring every counter nearer by as many.
LEMMA LeftAfterTick ==
  ASSUME Limit < Half, basecounter \in Counters, NEW n \in 0 .. MaxTick,
         basecounter' = Counter(n), NEW c \in Counters, 0 <= Left(c)
  PROVE  Left(c)' = Left(c) - n
<1>1. PICK b \in Counters, k \in 0 .. Limit : b = basecounter /\ k = Left(c)
  <2>1. Left(c) \in Int /\ Left(c) <= Limit
    BY CounterOf, Constants
  <2> QED
    BY <2>1, Constants
<1>2. c = IF b + k >= Wrap THEN b + k - Wrap ELSE b + k
  BY <1>1, CounterOf, Constants DEF Counters
<1>3. n \in Counters /\ n \in 0 .. Half - 1
  BY Constants DEF Counters
<1>4. PICK d \in Counters : d = basecounter' /\ d = (IF n + b < Wrap THEN n + b ELSE n + b - Wrap)
  <2>1. (n + b) % Wrap = IF n + b < Wrap THEN n + b ELSE n + b - Wrap
    BY <1>3, Wrapped
  <2>2. Counter(n) \in Counters
    BY <1>3, LeftOfCounter
  <2> QED
    BY <1>1, <2>1, <2>2 DEF Counter
<1>5. (c - d) % Wrap = IF c < d THEN c - d + Wrap ELSE c - d
  BY Wrapped
<1>6. PICK a \in Int : a = (IF c < d THEN c - d + Wrap ELSE c - d)
  BY Constants DEF Counters
<1>7. (IF a <= Limit THEN a ELSE a - Wrap) = k - n
  BY <1>1, <1>2, <1>3, <1>4, <1>6, Constants DEF Counters
<1>8. Left(c)' = IF a <= Limit THEN a ELSE a - Wrap
  BY <1>4, <1>5, <1>6 DEF Left
<1> QED
  BY <1>1, <1>7, <1>8

\* enqueue, up to its loop.
LEMMA EnqueueStep ==
  ASSUME Limit < Half, QueueInv, NEW n \in 0 .. Limit, NEW e \in Events, Enqueue(n, e)
  PROVE  QueueInv' /\ Schedule!Enqueue(n, e)
<1>1. PICK N \in Nat : N = heapsize /\ N < Capacity
  BY DEF QueueInv, TypeOK, Enqueue
<1>2. /\ step = "none" /\ step' = "up" /\ at' = N /\ heapsize' = N + 1 /\ heapsize' - 1 = N
      /\ heap' = [i \in 0 .. N |-> IF i = N THEN [counter |-> Counter(n), event |-> e] ELSE heap[i]]
      /\ UNCHANGED <<basecounter, ticking, returned>>
      /\ \A i \in 0 .. N - 1 : heap[i].event # e
      /\ ticking = "no" \/ (Reentrant /\ ticking = "callback")
  BY <1>1 DEF Enqueue, Callable
<1>3. Counter(n) \in Counters /\ Left(Counter(n)) = n /\ n \in Int
  BY LeftOfCounter, Constants DEF QueueInv, TypeOK
<1>4. /\ heap'[N] = [counter |-> Counter(n), event |-> e]
      /\ \A i \in 0 .. N - 1 : heap'[i] = heap[i]
      /\ \A i \in 0 .. N : i = N \/ i \in 0 .. N - 1
      /\ \A i \in 0 .. N - 1 : i \in 0 .. N
  BY <1>2
<1>5. \A c : Left(c)' = Left(c)
  BY <1>2 DEF Left
<1>6. Key(N)' = n /\ \A i \in 0 .. N - 1 : Key(i)' = Key(i) /\ Key(i) \in -MaxTick .. Limit
  BY <1>1, <1>3, <1>4, <1>5 DEF Key, QueueInv, Near
<1>7. TypeOK'
  <2>1. heap' \in [0 .. N -> [counter : Counters, event : Events]]
    BY <1>1, <1>2, <1>3 DEF QueueInv, TypeOK
  <2>2. heapsize' \in 0 .. Capacity
    BY <1>1, <1>2, Constants
  <2> QED
    BY <1>1, <1>2, <2>1, <2>2 DEF QueueInv, TypeOK
<1>8. Near'
  <2> SUFFICES ASSUME NEW i \in 0 .. N
               PROVE  /\ Key(i)' \in -MaxTick .. Limit
                      /\ ticking = "no" => Key(i)' >= 0
                      /\ \A j \in 0 .. N :
                           /\ Key(i)' - Key(j)' < Half
                           /\ i # j => heap'[i].event # heap'[j].event
    BY <1>1, <1>2 DEF Near
  <2>1. Key(i)' \in -MaxTick .. Limit /\ (ticking = "no" => Key(i)' >= 0)
    <3>1. CASE i = N
      BY <1>3, <1>6, <3>1, Constants
    <3>2. CASE i \in 0 .. N - 1
      BY <1>1, <1>6, <3>2 DEF QueueInv, Near
    <3> QED
      BY <1>4, <3>1, <3>2
  <2>2. \A j \in 0 .. N - 1 : (ticking = "no" => Key(j) >= 0) /\ Key(j) \in Int
    BY <1>1, <1>6, Constants DEF QueueInv, Near
  <2>3. ASSUME NEW j \in 0 .. N PROVE Key(i)' - Key(j)' < Half
    <3>1. CASE i \in 0 .. N - 1 /\ j \in 0 .. N - 1
      BY <1>1, <1>6, <3>1 DEF QueueInv, Near
    <3>2. CASE i = N /\ j = N
      BY <1>3, <1>6, <3>2, Constants
    <3>3. CASE i = N /\ j \in 0 .. N - 1
      <4>1. Key(j) \in -MaxTick .. Limit /\ Key(j) \in Int /\ (ticking = "no" => Key(j) >= 0)
        BY <1>6, <2>2, <3>3
      <4> QED
        BY <1>2, <1>3, <1>6, <3>3, <4>1, Constants
    <3>4. CASE i \in 0 .. N - 1 /\ j = N
      BY <1>3, <1>6, <2>2, <3>4, Constants
    <3> QED
      BY <1>4, <3>1, <3>2, <3>3, <3>4
  <2>4. ASSUME NEW j \in 0 .. N, i # j PROVE heap'[i].event # heap'[j].event
    <3>1. CASE i \in 0 .. N - 1 /\ j \in 0 .. N - 1
      BY <1>1, <1>4, <2>4, <3>1 DEF QueueInv, Near
    <3>2. CASE i = N /\ j \in 0 .. N - 1
      BY <1>2, <1>4, <3>2
    <3>3. CASE i \in 0 .. N - 1 /\ j = N
      BY <1>2, <1>4, <3>3
    <3> QED
      BY <1>4, <2>4, <3>1, <3>2, <3>3
  <2> QED
    BY <2>1, <2>3, <2>4
<1>9. HeapOrdered'
  <2> SUFFICES ASSUME NEW i \in 1 .. N
               PROVE  (i # N => Key(Parent(i))' <= Key(i)') /\ Parent(i) # N
    BY <1>1, <1>2 DEF HeapOrdered
  <2>1. PICK q \in Nat : q = Parent(i) /\ q < i
    BY Tree
  <2>2. q # N
    BY <1>1, <2>1
  <2>3. i # N => i \in 1 .. N - 1 /\ i \in 0 .. N - 1 /\ q \in 0 .. N - 1
    BY <1>1, <2>1
  <2>4. i # N => Key(q) <= Key(i)
    BY <1>1, <1>2, <2>1, <2>3 DEF QueueInv, HeapOrdered
  <2> QED
    BY <1>6, <2>1, <2>2, <2>3, <2>4
<1>10. Pending' = Pending \union {[event |-> e, left |-> n]}
  <2> DEFINE P(i) == [event |-> heap[i].event, left |-> Key(i)]
             Q(i) == [event |-> heap'[i].event, left |-> Key(i)']
  <2>1. \A i \in 0 .. N - 1 : Q(i) = P(i)
    BY <1>4, <1>6
  <2>2. Q(N) = [event |-> e, left |-> n]
    BY <1>4, <1>6
  <2>3. Pending = {P(i) : i \in 0 .. N - 1} /\ Pending' = {Q(i) : i \in 0 .. N}
    BY <1>1, <1>2 DEF Pending
  <2>4. N \in 0 .. N
    BY <1>1
  <2> HIDE DEF P, Q
  <2> QED
    BY <1>4, <2>1, <2>2, <2>3, <2>4
<1>11. \A x \in Pending : x.event # e
  BY <1>1, <1>2 DEF Pending
<1> QED
  BY <1>1, <1>2, <1>7, <1>8, <1>9, <1>10, <1>11
     DEF QueueInv, Schedule!Enqueue, Schedule!Callable

\* dequeue, up to its loop, in a queue that is not empty.
LEMMA ShrinkStep ==
  ASSUME Limit < Half, QueueInv, heapsize > 0, Shrink, ticking' \in {"no", "check", "callback"},
         ticking' = "no" => ticking = "no"
  PROVE  QueueInv' /\ \E x \in Pending : x.left = Key(0) /\ Schedule!Take(x)
<1>1. PICK N \in Nat : N = heapsize /\ N > 0
  BY DEF QueueInv, TypeOK
<1>2. /\ step = "none" /\ step' = "down" /\ at' = 0
      /\ returned' = heap[0].event
      /\ heap' = [i \in 0 .. N - 2 |-> IF i = 0 THEN heap[N - 1] ELSE heap[i]]
      /\ heapsize' = N - 1 /\ heapsize' - 1 = N - 2 /\ UNCHANGED basecounter
  BY <1>1 DEF Shrink
<1> DEFINE From == [i \in 0 .. N - 2 |-> IF i = 0 THEN N - 1 ELSE i]
<1>3. /\ \A i \in 0 .. N - 2 : From[i] \in 1 .. N - 1 /\ heap'[i] = heap[From[i]]
      /\ \A i, j \in 0 .. N - 2 : i # j => From[i] # From[j]
      /\ 0 \in 0 .. N - 1
      /\ \A i \in 1 .. N - 1 : i \in 0 .. N - 1
  BY <1>1, <1>2
<1>4. \A c : Left(c)' = Left(c)
  BY <1>2 DEF Left
<1>5. \A i \in 0 .. N - 2 : Key(i)' = Key(From[i])
  BY <1>3, <1>4 DEF Key
<1>6. TypeOK'
  <2>1. ASSUME NEW i \in 0 .. N - 2 PROVE heap'[i] \in [counter : Counters, event : Events]
    <3>1. PICK j \in 0 .. N - 1 : heap'[i] = heap[j]
      BY <1>3
    <3>2. heap[j] \in [counter : Counters, event : Events]
      BY <1>1 DEF QueueInv, TypeOK
    <3> QED
      BY <3>1, <3>2
  <2>2. heap' \in [0 .. heapsize' - 1 -> [counter : Counters, event : Events]]
    BY <1>2, <2>1
  <2>3. heapsize' \in 0 .. Capacity
    <3>1. N \in 0 .. Capacity /\ Capacity \in Nat
      BY <1>1, Constants DEF QueueInv, TypeOK
    <3> QED
      BY <1>1, <1>2, <3>1
  <2>4. heap[0].event \in Events
    BY <1>1, <1>3 DEF QueueInv, TypeOK
  <2> QED
    BY <1>2, <2>2, <2>3, <2>4 DEF QueueInv, TypeOK
<1>7. Near'
  <2> SUFFICES ASSUME NEW i \in 0 .. N - 2
               PROVE  /\ Key(i)' \in -MaxTick .. Limit
                      /\ ticking' = "no" => Key(i)' >= 0
                      /\ \A j \in 0 .. N - 2 :
                           /\ Key(i)' - Key(j)' < Half
                           /\ i # j => heap'[i].event # heap'[j].event
    BY <1>2 DEF Near
  <2>1. PICK a \in 0 .. N - 1 : a = From[i] /\ Key(i)' = Key(a) /\ heap'[i] = heap[a]
    BY <1>3, <1>5
  <2>2. Key(a) \in -MaxTick .. Limit /\ (ticking' = "no" => Key(a) >= 0)
    BY <1>1 DEF QueueInv, Near
  <2>3. ASSUME NEW j \in 0 .. N - 2
        PROVE  /\ Key(i)' - Key(j)' < Half
               /\ i # j => heap'[i].event # heap'[j].event
    <3>1. PICK b \in 0 .. N - 1 : b = From[j] /\ Key(j)' = Key(b) /\ heap'[j] = heap[b]
      BY <1>3, <1>5
    <3>2. i # j => a # b
      BY <1>3, <2>1, <3>1
    <3>3. Key(a) - Key(b) < Half /\ (a # b => heap[a].event # heap[b].event)
      BY <1>1 DEF QueueInv, Near
    <3> QED
      BY <2>1, <3>1, <3>2, <3>3
  <2> QED
    BY <2>1, <2>2, <2>3
<1>8. HeapOrdered'
  <2> SUFFICES ASSUME NEW i \in 1 .. N - 2, Parent(i) # 0 PROVE Key(Parent(i))' <= Key(i)'
    BY <1>2 DEF HeapOrdered
  <2>1. PICK q \in Nat : q = Parent(i) /\ q < i /\ q > 0
    BY Tree
  <2>2. q \in 0 .. N - 2 /\ i \in 0 .. N - 2 /\ i \in 1 .. N - 1 /\ From[q] = q /\ From[i] = i
    BY <1>1, <2>1
  <2>3. Key(q) <= Key(i)
    BY <1>1, <1>2, <2>1, <2>2 DEF QueueInv, HeapOrdered
  <2>4. Key(q)' = Key(q) /\ Key(i)' = Key(i)
    <3>1. Key(q)' = Key(From[q]) /\ Key(i)' = Key(From[i])
      BY <1>5, <2>2
    <3> QED
      BY <2>2, <3>1
  <2> QED
    BY <2>1, <2>3, <2>4
<1> DEFINE P(i) == [event |-> heap[i].event, left |-> Key(i)]
           Q(i) == [event |-> heap'[i].event, left |-> Key(i)']
<1>9. Pending = {P(i) : i \in 0 .. N - 1} /\ Pending' = {Q(i) : i \in 0 .. N - 2}
  BY <1>1, <1>2 DEF Pending
<1>10. \A i \in 0 .. N - 2 : \E j \in 1 .. N - 1 : Q(i) = P(j)
  BY <1>3, <1>5
<1>11. \A j \in 1 .. N - 1 : \E i \in 0 .. N - 2 : Q(i) = P(j)
  <2> SUFFICES ASSUME NEW j \in 1 .. N - 1 PROVE \E i \in 0 .. N - 2 : From[i] = j
    BY <1>3, <1>5
  <2>1. CASE j = N - 1
    <3>1. 0 \in 0 .. N - 2 /\ From[0] = j
      BY <1>1, <2>1
    <3> QED
      BY <3>1
  <2>2. CASE j # N - 1
    <3>1. j \in 0 .. N - 2 /\ From[j] = j
      BY <1>1, <2>2
    <3> QED
      BY <3>1
  <2> QED
    BY <2>1, <2>2
<1>12. \A j \in 1 .. N - 1 : P(j) # P(0)
  <2>1. \A j \in 1 .. N - 1 : heap[j].event # heap[0].event
    BY <1>1, <1>3 DEF QueueInv, Near
  <2> QED
    BY <2>1
<1>13. Pending' = Pending \ {P(0)}
  <2>1. \A i \in 0 .. N - 1 : i = 0 \/ i \in 1 .. N - 1
    OBVIOUS
  <2> HIDE DEF P, Q
  <2> QED
    BY <1>3, <1>9, <1>10, <1>11, <1>12, <2>1
<1>14. \A y \in Pending : Key(0) <= y.left
  <2>1. \A i \in 0 .. N - 1 : Key(0) <= Key(i)
    BY <1>1, <1>2, RootFirst
  <2> QED
    BY <1>9, <2>1
<1>15. P(0) \in Pending /\ P(0).left = Key(0) /\ P(0).event = heap[0].event
  BY <1>3, <1>9
<1>16. Schedule!Take(P(0))
  BY <1>1, <1>2, <1>13, <1>14, <1>15 DEF Schedule!Take
<1> QED
  BY <1>6, <1>7, <1>8, <1>15, <1>16 DEF QueueInv

\* dequeue and the firing of an event.
LEMMA DequeueStep ==
  ASSUME Limit < Half, QueueInv, Dequeue
  PROVE  QueueInv' /\ Schedule!Dequeue
<1>1. Callable /\ heapsize > 0 /\ Shrink /\ ticking' = ticking /\ ticking \in {"no", "check", "callback"}
  BY DEF Dequeue, QueueInv, TypeOK
<1>2. QueueInv' /\ \E x \in Pending : Schedule!Take(x)
  BY <1>1, ShrinkStep
<1> QED
  BY <1>1, <1>2 DEF Callable, Schedule!Callable, Schedule!Dequeue

LEMMA FireStep ==
  ASSUME Limit < Half, QueueInv, Fire
  PROVE  QueueInv' /\ Schedule!Fire
<1>1. /\ ticking # "no" /\ ticking' = "callback" /\ heapsize > 0 /\ Shrink
      /\ gte(basecounter, heap[0].counter)
  BY DEF Fire, Due
<1>2. PICK x \in Pending : x.left = Key(0) /\ Schedule!Take(x)
  BY <1>1, ShrinkStep
<1>3. Key(0) <= 0
  <2>1. 0 \in 0 .. heapsize - 1
    BY <1>1 DEF QueueInv, TypeOK
  <2>2. heap[0].counter \in Counters /\ basecounter \in Counters /\ -MaxTick <= Key(0)
    BY <2>1, Constants DEF QueueInv, TypeOK, Near
  <2> QED
    BY <1>1, <2>2, GteClock DEF Key
<1>4. QueueInv'
  BY <1>1, ShrinkStep
<1> QED
  BY <1>1, <1>2, <1>3, <1>4 DEF Schedule!Fire

\* The end of tick: the root is not due, so nothing is.
LEMMA TickedStep ==
  ASSUME Limit < Half, QueueInv, Ticked
  PROVE  QueueInv' /\ Schedule!Ticked
<1>1. /\ step = "none" /\ ~Due /\ ticking # "no" /\ ticking' = "no"
      /\ UNCHANGED <<basecounter, heapsize, heap, step, at, returned>>
  BY DEF Ticked
<1>2. ASSUME NEW i \in 0 .. heapsize - 1 PROVE Key(i) > 0
  <2>1. 0 \in 0 .. heapsize - 1 /\ heapsize > 0
    BY DEF QueueInv, TypeOK
  <2>2. heap[0].counter \in Counters /\ basecounter \in Counters /\ -MaxTick <= Key(0)
    BY <2>1, Constants DEF QueueInv, TypeOK, Near
  <2>3. ~(Key(0) <= 0)
    BY <1>1, <2>1, <2>2, GteClock DEF Key, Due
  <2>4. Key(0) <= Key(i) /\ Key(0) \in Int /\ Key(i) \in Int
    BY <1>1, <2>1, RootFirst, Compared
  <2> QED
    BY <2>3, <2>4
<1>3. \A i : Key(i)' = Key(i)
  BY <1>1 DEF Key, Left
<1>4. TypeOK' /\ HeapOrdered' /\ Pending' = Pending
  BY <1>1, <1>3 DEF QueueInv, TypeOK, HeapOrdered, Pending
<1>5. Near'
  <2>1. \A i \in 0 .. heapsize - 1 : Key(i) >= 0
    <3>1. \A i \in 0 .. heapsize - 1 : Key(i) \in Int
      BY Compared
    <3> QED
      BY <1>2, <3>1
  <2> QED
    BY <1>1, <1>3, <2>1 DEF QueueInv, Near
<1>6. \A x \in Pending : x.left > 0
  BY <1>2 DEF Pending
<1> QED
  BY <1>1, <1>4, <1>5, <1>6 DEF QueueInv, Schedule!Ticked

\* tick, up to its loop: all entries come nearer together.
LEMMA TickStep ==
  ASSUME Limit < Half, QueueInv, NEW n \in 0 .. MaxTick, Tick(n)
  PROVE  QueueInv' /\ Schedule!Tick(n)
<1>1. /\ step = "none" /\ ticking = "no" /\ ticking' = "check" /\ basecounter' = Counter(n)
      /\ UNCHANGED <<heapsize, heap, step, at, returned>>
  BY DEF Tick
<1>2. basecounter \in Counters /\ basecounter' \in Counters /\ n \in Int
  <2>1. n \in 0 .. Half - 1 /\ n \in Int
    BY Constants
  <2>2. basecounter \in Counters
    BY DEF QueueInv, TypeOK
  <2> QED
    BY <1>1, <2>1, <2>2, LeftOfCounter
<1>3. \A i \in 0 .. heapsize - 1 :
        /\ Key(i)' = Key(i) - n /\ Key(i) \in 0 .. Limit
        /\ Key(i)' \in -MaxTick .. Limit /\ Key(i)' \in Int
  <2> SUFFICES ASSUME NEW i \in 0 .. heapsize - 1
               PROVE  Key(i)' = Key(i) - n /\ Key(i) \in 0 .. Limit
    BY Constants
  <2>1. heap[i].counter \in Counters /\ Key(i) \in -MaxTick .. Limit /\ Key(i) >= 0
    BY <1>1 DEF QueueInv, TypeOK, Near
  <2>2. Left(heap[i].counter)' = Left(heap[i].counter) - n
    <3>1. PICK c \in Counters : c = heap[i].counter /\ c = heap'[i].counter /\ 0 <= Left(c)
      BY <1>1, <2>1, Constants DEF Key
    <3>2. Left(c)' = Left(c) - n
      BY <1>1, <1>2, <3>1, LeftAfterTick
    <3> QED
      BY <3>1, <3>2 DEF Left
  <2> QED
    BY <2>1, <2>2, Constants DEF Key
<1>4. TypeOK'
  BY <1>1, <1>2 DEF QueueInv, TypeOK
<1>5. HeapOrdered'
  <2> SUFFICES ASSUME NEW i \in 1 .. heapsize - 1 PROVE Key(Parent(i))' <= Key(i)'
    BY <1>1 DEF HeapOrdered, QueueInv, TypeOK
  <2>1. heapsize \in Nat
    BY DEF QueueInv, TypeOK
  <2>2. PICK q \in 0 .. heapsize - 1 : q = Parent(i) /\ i \in 0 .. heapsize - 1
    BY <2>1, Tree
  <2>3. Key(q) <= Key(i)
    BY <1>1, <2>2 DEF QueueInv, HeapOrdered
  <2> QED
    BY <1>2, <1>3, <2>2, <2>3, Constants
<1>6. Near'
  <2> SUFFICES ASSUME NEW i \in 0 .. heapsize - 1, NEW j \in 0 .. heapsize - 1
               PROVE  /\ Key(i)' \in -MaxTick .. Limit
                      /\ Key(i)' - Key(j)' < Half
                      /\ i # j => heap[i].event # heap[j].event
    BY <1>1 DEF Near
  <2>1. Key(i) - Key(j) < Half /\ (i # j => heap[i].event # heap[j].event)
    BY DEF QueueInv, Near
  <2> QED
    BY <1>2, <1>3, <2>1, Constants
<1>7. Pending' = {[event |-> x.event, left |-> x.left - n] : x \in Pending}
  <2> DEFINE P(i) == [event |-> heap[i].event, left |-> Key(i)]
             Q(i) == [event |-> heap[i].event, left |-> Key(i) - n]
             R(x) == [event |-> x.event, left |-> x.left - n]
  <2>1. \A i \in 0 .. heapsize - 1 : R(P(i)) = Q(i)
    OBVIOUS
  <2>2. Pending = {P(i) : i \in 0 .. heapsize - 1}
    BY DEF Pending
  <2>3. Pending' = {Q(i) : i \in 0 .. heapsize - 1}
    <3>1. Pending' = {[event |-> heap[i].event, left |-> Key(i)'] : i \in 0 .. heapsize - 1}
      BY <1>1 DEF Pending
    <3> QED
      BY <1>3, <3>1
  <2>4. {R(x) : x \in Pending} = {Q(i) : i \in 0 .. heapsize - 1}
    <3> HIDE DEF P, Q, R
    <3> QED
      BY <2>1, <2>2
  <2> QED
    BY <2>3, <2>4
<1> QED
  BY <1>1, <1>4, <1>5, <1>6, <1>7 DEF QueueInv, Schedule!Tick

LEMMA ResetStep ==
  ASSUME Limit < Half, QueueInv, Reset
  PROVE  QueueInv' /\ Schedule!Reset
<1>1. /\ Callable /\ step = "none" /\ basecounter' = 0 /\ heapsize' = 0 /\ heapsize' - 1 = -1
      /\ heap' = [i \in 0 .. -1 |-> heap[i]]
      /\ UNCHANGED <<step, at, ticking, returned>>
  BY DEF Reset, Callable
<1>2. 0 \in Counters /\ heapsize' \in 0 .. Capacity
      /\ heap' \in [0 .. heapsize' - 1 -> [counter : Counters, event : Events]]
  BY <1>1, Constants DEF Counters
<1>3. TypeOK'
  BY <1>1, <1>2 DEF QueueInv, TypeOK
<1>4. HeapOrdered' /\ Near' /\ Pending' = {}
  BY <1>1 DEF HeapOrdered, Near, Pending
<1> QED
  BY <1>1, <1>3, <1>4 DEF QueueInv, Callable, Schedule!Reset, Schedule!Callable

-----------------------------------------------------------------------------
\* Every step keeps the invariant, and is a step of the agenda or none.
LEMMA QueueStep ==
  ASSUME Limit < Half, QueueInv, [Next]_vars
  PROVE  QueueInv' /\ [Schedule!Next]_(Schedule!vars)
<1>1. ASSUME NEW n \in 0 .. Limit, NEW e \in Events, Enqueue(n, e)
      PROVE  QueueInv' /\ Schedule!Next
  BY <1>1, EnqueueStep DEF Schedule!Next
<1>2. CASE Up
  BY <1>2, UpStep
<1>3. CASE Down
  BY <1>3, DownStep
<1>4. CASE Fill
  BY <1>4, FillStep
<1>5. CASE Dequeue
  BY <1>5, DequeueStep DEF Schedule!Next
<1>6. CASE Reset
  BY <1>6, ResetStep DEF Schedule!Next
<1>7. CASE Fire
  BY <1>7, FireStep DEF Schedule!Next
<1>8. CASE Ticked
  BY <1>8, TickedStep DEF Schedule!Next
<1>9. ASSUME NEW n \in 0 .. MaxTick, Tick(n) PROVE QueueInv' /\ Schedule!Next
  BY <1>9, TickStep DEF Schedule!Next
<1>10. CASE UNCHANGED vars
  <2>1. \A i : Key(i)' = Key(i)
    BY <1>10 DEF vars, Key, Left
  <2>2. QueueInv'
    BY <1>10, <2>1 DEF vars, QueueInv, TypeOK, HeapOrdered, Near
  <2>3. UNCHANGED Schedule!vars
    BY <1>10, <2>1 DEF vars, Pending, Schedule!vars
  <2> QED
    BY <2>2, <2>3
<1> QED
  BY <1>1, <1>2, <1>3, <1>4, <1>5, <1>6, <1>7, <1>8, <1>9, <1>10 DEF Next

\* The empty queue.
LEMMA QueueInit ==
  ASSUME Limit < Half, Init
  PROVE  QueueInv /\ Schedule!Init
<1>1. 0 \in Counters /\ heapsize \in 0 .. Capacity /\ heapsize - 1 = -1
  BY Constants DEF Counters, Init
<1>2. TypeOK
  BY <1>1 DEF Init, TypeOK
<1>3. HeapOrdered /\ Near /\ Pending = {}
  BY <1>1 DEF Init, HeapOrdered, Near, Pending
<1> QED
  BY <1>2, <1>3 DEF Init, QueueInv, Schedule!Init

\* The heap is one, by the clock: whatever wraps around, no entry is due
\* before its parent, and the variables keep their types.
THEOREM HeapCorrect ==
  ASSUME Limit < Half
  PROVE  Spec => [](TypeOK /\ HeapOrdered)
<1>1. Init => QueueInv
  BY QueueInit
<1>2. QueueInv /\ [Next]_vars => QueueInv'
  BY QueueStep
<1>3. QueueInv => TypeOK /\ HeapOrdered
  BY DEF QueueInv
<1> QED
  BY <1>1, <1>2, <1>3, PTL DEF Spec

\* The heap implements the agenda: events fire when their ticks have passed
\* and the earliest first, for delays of less than max() >> 1.
THEOREM OnTimeHolds ==
  ASSUME Limit < Half
  PROVE  Spec => OnTime
<1>1. Init => QueueInv /\ Schedule!Init
  BY QueueInit
<1>2. QueueInv /\ [Next]_vars => QueueInv' /\ [Schedule!Next]_(Schedule!vars)
  BY QueueStep
<1> QED
  BY <1>1, <1>2, PTL DEF Spec, OnTime, Schedule!Spec
=============================================================================
