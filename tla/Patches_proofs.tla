--------------------------- MODULE Patches_proofs ---------------------------
(***************************************************************************)
(* Proofs about Patches, for any base, any shortest run, any width of the  *)
(* numbers and any two files that are shorter than a quarter of it:        *)
(* RoundTripHolds, that applying a patch to what it was made of gives what *)
(* it was made for.                                                        *)
(*                                                                         *)
(* A patch is read in jumps, and it was made in jumps that are others.  In *)
(* between is the path (UpsPath, BpsPath): a set of marks, each a place in *)
(* the patch with how much of the output is written when the reader comes  *)
(* there, from the header to the end of the patch.  From each mark but the *)
(* last one a step leads to another (UpsStep, BpsStep): what the patch has *)
(* there is a number or a command, and what that writes is what the two    *)
(* files have in these places.  Making the patch lets the path grow at its *)
(* end, where what is not yet flushed is missing (UpsMakes, BpsMakes), and *)
(* a path stays one when the patch grows.  Reading it goes from mark to    *)
(* mark.  All that was written until then is right (Right), the bytes that *)
(* a command is about to write are as well (Carries), and at the end of    *)
(* the patch only the last mark is left.                                   *)
(*                                                                         *)
(* First come the operators the model is built from: the exclusive or is   *)
(* its own inverse, a number that was encoded is what is decoded, and the  *)
(* matches that are searched for match.  Xor, Encode and Decode are        *)
(* functions that recur, so first that there are such (Recursion); what is *)
(* shown of all of their values goes by the least one without it.          *)
(***************************************************************************)
EXTENDS Patches, WellFoundedInduction, SequenceTheorems, FiniteSetTheorems, TLAPS

\* Natural numbers that are not all in S have a least one outside it.
LEMMA LeastOutside ==
  ASSUME NEW S, NEW n \in Nat, n \notin S
  PROVE  \E k \in Nat : k \notin S /\ \A j \in Nat : j < k => j \in S
<1> DEFINE T == {k \in Nat : k \notin S}
<1>1. T \subseteq Nat /\ T # {}
  OBVIOUS
<1>2. IsWellFoundedOn(OpToRel(<, Nat), Nat)
  BY NatLessThanWellFounded
<1>3. PICK k \in T : \A j \in T : ~(<<j, k>> \in OpToRel(<, Nat))
  BY <1>1, <1>2, WFMin
<1>4. \A j \in T : ~(j < k)
  BY <1>1, <1>3 DEF OpToRel
<1> QED
  BY <1>3, <1>4

\* A function by recursion: given at the places Ends, and at the others made by
\* step from its value at pred of them, of which mu is less.
Recurs(D, V, mu, Ends, pred, base, step) ==
    /\ mu \in [D -> Nat] /\ Ends \in SUBSET D
    /\ pred \in [D \ Ends -> D] /\ base \in [Ends -> V] /\ step \in [(D \ Ends) \X V -> V]
    /\ \A d \in D \ Ends : mu[pred[d]] < mu[d]
Follows(f, D, V, Ends, pred, base, step) ==
    /\ f \in [D -> V]
    /\ \A d \in D : f[d] = IF d \in Ends THEN base[d] ELSE step[<<d, f[pred[d]]>>]

\* There is one.
LEMMA Recursion ==
  ASSUME NEW D, NEW V, NEW mu, NEW Ends, NEW pred, NEW base, NEW step,
         Recurs(D, V, mu, Ends, pred, base, step)
  PROVE  \E f : Follows(f, D, V, Ends, pred, base, step)
<1> USE DEF Recurs
<1> DEFINE Upto(m) == {d \in D : mu[d] < m}
           Made(f, d) == IF d \in Ends THEN base[d] ELSE step[<<d, f[pred[d]]>>]
           Part(f, m) == f \in [Upto(m) -> V] /\ \A d \in Upto(m) : f[d] = Made(f, d)
           Good == {m \in Nat : \E f : Part(f, m)}
           Same == {n \in Nat : \A d \in D : mu[d] = n =>
                        \A m, j \in Nat : \A f, g : Part(f, m) /\ Part(g, j) /\ n < m /\ n < j => f[d] = g[d]}
<1>1. ASSUME NEW m \in Nat, NEW j \in Nat, NEW f, NEW g, Part(f, m), Part(g, j),
             NEW d \in D, mu[d] < m, mu[d] < j
      PROVE  f[d] = g[d]
  <2>0. mu[d] \in Nat
    OBVIOUS
  <2>1. ASSUME mu[d] \in Same PROVE f[d] = g[d]
    <3> HIDE DEF Part
    <3> QED
      BY <1>1, <2>1
  <2> SUFFICES ASSUME mu[d] \notin Same PROVE FALSE
    BY <2>1
  <2>2. PICK n \in Nat : n \notin Same /\ \A i \in Nat : i < n => i \in Same
    <3> HIDE DEF Same
    <3> QED
      BY <2>0, LeastOutside
  <2>3. PICK e \in D, m1 \in Nat, j1 \in Nat :
            mu[e] = n /\ \E f1, g1 : Part(f1, m1) /\ Part(g1, j1) /\ n < m1 /\ n < j1 /\ f1[e] # g1[e]
    <3> HIDE DEF Part
    <3> QED
      BY <2>2
  <2>4. PICK f1, g1 :
            mu[e] = n /\ Part(f1, m1) /\ Part(g1, j1) /\ n < m1 /\ n < j1 /\ f1[e] # g1[e]
    BY <2>3
  <2>5. f1[e] = Made(f1, e) /\ g1[e] = Made(g1, e)
    BY <2>4
  <2>6. e \notin Ends
    BY <2>4, <2>5
  <2>7. pred[e] \in D /\ mu[pred[e]] \in Nat /\ mu[pred[e]] < n
    BY <2>4, <2>6
  <2>8. mu[pred[e]] \in Same
    BY <2>2, <2>7
  <2>9. f1[pred[e]] = g1[pred[e]]
    <3>1. mu[pred[e]] < m1 /\ mu[pred[e]] < j1
      BY <2>4, <2>7
    <3> HIDE DEF Part
    <3> QED
      BY <2>4, <2>7, <2>8, <3>1
  <2> QED
    BY <2>4, <2>5, <2>6, <2>9
<1>2. ASSUME NEW m \in Nat PROVE m \in Good
  <2> SUFFICES ASSUME m \notin Good PROVE FALSE
    OBVIOUS
  <2>1. PICK k \in Nat : k \notin Good /\ \A j \in Nat : j < k => j \in Good
    <3> HIDE DEF Good
    <3> QED
      BY LeastOutside
  <2>2. k # 0
    <3> DEFINE f == [d \in Upto(0) |-> base[d]]
    <3>1. Upto(0) = {}
      OBVIOUS
    <3>2. Part(f, 0)
      BY <3>1
    <3> HIDE DEF f, Part
    <3>3. 0 \in Good
      BY <3>2
    <3> HIDE DEF Good
    <3> QED
      BY <2>1, <3>3
  <2>3. PICK f : Part(f, k - 1)
    <3>1. k - 1 \in Nat /\ k - 1 < k
      BY <2>2
    <3> QED
      BY <2>1, <3>1
  <2> DEFINE g == [d \in Upto(k) |-> Made(f, d)]
  <2>4. ASSUME NEW d \in Upto(k) PROVE /\ g[d] \in V /\ g[d] = Made(f, d)
                                       /\ d \notin Ends => f[pred[d]] \in V /\ pred[d] \in Upto(k - 1)
    <3>1. ASSUME d \notin Ends PROVE pred[d] \in Upto(k - 1) /\ f[pred[d]] \in V
      <4>1. pred[d] \in D /\ mu[pred[d]] \in Nat /\ mu[pred[d]] < mu[d] /\ mu[d] < k /\ mu[d] \in Nat
        BY <3>1
      <4>2. mu[pred[d]] < k - 1
        BY <4>1
      <4> QED
        BY <2>3, <4>1, <4>2
    <3> QED
      BY <3>1
  <2>5. ASSUME NEW d \in Upto(k - 1) PROVE d \in Upto(k) /\ g[d] = f[d]
    BY <2>3, <2>5
  <2>6. ASSUME NEW d \in Upto(k) PROVE g[d] = Made(g, d)
    <3>1. CASE d \in Ends
      BY <2>4, <3>1
    <3>2. CASE d \notin Ends
      <4>1. g[pred[d]] = f[pred[d]]
        BY <2>4, <2>5, <3>2
      <4> QED
        BY <2>4, <4>1
    <3> QED
      BY <3>1, <3>2
  <2>7. Part(g, k)
    BY <2>4, <2>6
  <2> QED
    BY <2>1, <2>7
<1> DEFINE Some(m) == CHOOSE f : Part(f, m)
           F == [d \in D |-> Some(mu[d] + 1)[d]]
<1>3. ASSUME NEW m \in Nat PROVE Part(Some(m), m)
  BY <1>2
<1> HIDE DEF Some
<1>4. ASSUME NEW d \in D PROVE F[d] \in V /\ F[d] = Made(F, d)
  <2>1. mu[d] \in Nat /\ mu[d] + 1 \in Nat /\ d \in Upto(mu[d] + 1)
    OBVIOUS
  <2>2. Part(Some(mu[d] + 1), mu[d] + 1)
    BY <1>3, <2>1
  <2>3. F[d] \in V /\ F[d] = Made(Some(mu[d] + 1), d)
    BY <2>1, <2>2
  <2>4. ASSUME d \notin Ends PROVE F[pred[d]] = Some(mu[d] + 1)[pred[d]]
    <3>1. pred[d] \in D /\ mu[pred[d]] \in Nat /\ mu[pred[d]] < mu[d]
      BY <2>4
    <3>2. Part(Some(mu[pred[d]] + 1), mu[pred[d]] + 1)
      <4> HIDE DEF Part
      <4>1. mu[pred[d]] + 1 \in Nat
        BY <3>1
      <4> QED
        BY <1>3, <4>1
    <3>3. mu[pred[d]] < mu[d] + 1 /\ mu[pred[d]] < mu[pred[d]] + 1 /\ mu[pred[d]] + 1 \in Nat
      BY <2>1, <3>1
    <3> HIDE DEF Part
    <3>4. Some(mu[pred[d]] + 1)[pred[d]] = Some(mu[d] + 1)[pred[d]]
      BY <1>1, <2>1, <2>2, <3>1, <3>2, <3>3
    <3> QED
      BY <3>1, <3>4
  <2> QED
    BY <2>3, <2>4
<1> HIDE DEF F
<1>5. F \in [D -> V]
  <2>1. F = [d \in D |-> F[d]]
    BY DEF F
  <2> QED
    BY <1>4, <2>1
<1>6. Follows(F, D, V, Ends, pred, base, step)
  BY <1>4, <1>5 DEF Follows
<1> QED
  BY <1>6

-----------------------------------------------------------------------------
\* Xor, unfolded once.
LEMMA XorIs ==
  /\ Xor \in [Nat -> [Nat -> Nat]]
  /\ \A a, b \in Nat :
        Xor[a][b] = IF a = 0 THEN b ELSE ((a + b) % 2) + 2 * Xor[a \div 2][b \div 2]
<1> DEFINE V == [Nat -> Nat]
           E == {0}
           id == [b \in Nat |-> b]
           base == [a \in E |-> id]
           pred == [a \in Nat \ E |-> a \div 2]
           step == [p \in (Nat \ E) \X V |-> [b \in Nat |-> ((p[1] + b) % 2) + 2 * p[2][b \div 2]]]
           mu == [a \in Nat |-> a]
           Def(f) == f = [a \in Nat |-> [b \in Nat |->
                        IF a = 0 THEN b ELSE ((a + b) % 2) + 2 * f[a \div 2][b \div 2]]]
<1>1. \A b \in Nat : b \div 2 \in Nat /\ b % 2 \in Nat
  OBVIOUS
<1>2. \A a \in Nat \ {0} : a \div 2 \in Nat /\ a \div 2 < a
  OBVIOUS
<1>3. id \in V /\ base \in [E -> V] /\ pred \in [Nat \ E -> Nat] /\ mu \in [Nat -> Nat]
  BY <1>1
<1>4. step \in [(Nat \ E) \X V -> V]
  <2>1. ASSUME NEW a \in Nat \ {0}, NEW v \in V, NEW b \in Nat
        PROVE  ((a + b) % 2) + 2 * v[b \div 2] \in Nat
    BY <1>1
  <2> QED
    BY <2>1
<1>5. \A a \in Nat \ E : mu[pred[a]] < mu[a]
  BY <1>2
<1>6. E \in SUBSET Nat
  OBVIOUS
<1>18. PICK f : Follows(f, Nat, V, E, pred, base, step)
  <2>1. Recurs(Nat, V, mu, E, pred, base, step)
    <3> HIDE DEF V, E, base, pred, step, mu, Def
    <3> QED
      BY <1>3, <1>4, <1>5, <1>6 DEF Recurs
  <2> HIDE DEF V, E, base, pred, step, mu, Def
  <2> QED
    BY <2>1, Recursion
<1>7. f \in [Nat -> V] /\ \A a \in Nat : f[a] = IF a \in E THEN base[a] ELSE step[<<a, f[pred[a]]>>]
  <2> HIDE DEF V, E, base, pred, step, mu, Def
  <2> QED
    BY <1>18 DEF Follows
<1>8. ASSUME NEW a \in Nat
      PROVE  f[a] = [b \in Nat |-> IF a = 0 THEN b ELSE ((a + b) % 2) + 2 * f[a \div 2][b \div 2]]
  <2>1. CASE a = 0
    BY <1>7, <2>1
  <2>2. CASE a # 0
    <3>1. f[a] = step[<<a, f[a \div 2]>>] /\ f[a \div 2] \in V
      BY <1>2, <1>7, <2>2
    <3> QED
      BY <2>2, <3>1
  <2> QED
    BY <2>1, <2>2
<1>9. Def(f)
  <2>1. f = [a \in Nat |-> f[a]]
    BY <1>7
  <2> HIDE DEF V
  <2> QED
    BY <1>8, <2>1
<1> HIDE DEF Def
<1>10. Def(CHOOSE g : Def(g))
  BY <1>9
<1>11. Xor = CHOOSE g : Def(g)
  BY DEF Xor, Def
<1>12. Def(Xor)
  BY <1>10, <1>11
<1>17. ASSUME NEW a \in Nat
       PROVE  Xor[a] = [b \in Nat |-> IF a = 0 THEN b ELSE ((a + b) % 2) + 2 * Xor[a \div 2][b \div 2]]
  BY <1>12 DEF Def
<1>13. \A a, b \in Nat :
          Xor[a][b] = IF a = 0 THEN b ELSE ((a + b) % 2) + 2 * Xor[a \div 2][b \div 2]
  BY <1>17
<1>14. \A a \in Nat : Xor[a] = [b \in Nat |-> Xor[a][b]]
  BY <1>17
<1>15. \A a \in Nat : Xor[a] \in [Nat -> Nat]
  <2> DEFINE Good == {a \in Nat : Xor[a] \in [Nat -> Nat]}
  <2> SUFFICES ASSUME NEW n \in Nat, n \notin Good PROVE FALSE
    OBVIOUS
  <2>1. PICK k \in Nat : k \notin Good /\ \A j \in Nat : j < k => j \in Good
    <3> HIDE DEF Good
    <3> QED
      BY LeastOutside
  <2>2. ASSUME NEW b \in Nat PROVE Xor[k][b] \in Nat
    <3>1. CASE k = 0
      BY <1>13, <3>1
    <3>2. CASE k # 0
      <4>1. Xor[k \div 2] \in [Nat -> Nat]
        BY <1>2, <2>1, <3>2
      <4>2. Xor[k \div 2][b \div 2] \in Nat
        BY <1>1, <4>1
      <4>3. Xor[k][b] = ((k + b) % 2) + 2 * Xor[k \div 2][b \div 2]
        BY <1>13, <3>2
      <4>4. (k + b) % 2 \in Nat
        OBVIOUS
      <4> QED
        BY <4>2, <4>3, <4>4
    <3> QED
      BY <3>1, <3>2
  <2> QED
    BY <1>14, <2>1, <2>2
<1>16. Xor = [a \in Nat |-> Xor[a]]
  BY <1>12 DEF Def
<1> QED
  BY <1>13, <1>15, <1>16

\* It is 0 for equal numbers only, and undoes itself.
LEMMA XorFacts ==
  ASSUME NEW a \in Nat, NEW b \in Nat
  PROVE  /\ Xor[a][b] \in Nat
         /\ Xor[a][b] = 0 <=> a = b
         /\ Xor[Xor[a][b]][a] = b
         /\ Xor[Xor[a][b]][b] = a
<1>1. \A i, j \in Nat : Xor[i][j] \in Nat
  BY XorIs
<1> DEFINE X(i, j) == Xor[i][j]
<1>2. \A i, j \in Nat : X(i, j) \in Nat
  BY <1>1
<1>3. \A i, j \in Nat : X(i, j) = IF i = 0 THEN j ELSE ((i + j) % 2) + 2 * X(i \div 2, j \div 2)
  BY XorIs
<1> HIDE DEF X
<1>4. \A i \in Nat : i \div 2 \in Nat /\ (i # 0 => i \div 2 < i)
  OBVIOUS
<1>5. \A i, j \in Nat : X(i, j) = 0 <=> i = j
  <2> DEFINE Good == {i \in Nat : \A j \in Nat : X(i, j) = 0 <=> i = j}
  <2> SUFFICES ASSUME NEW n \in Nat, n \notin Good PROVE FALSE
    OBVIOUS
  <2>1. PICK k \in Nat : k \notin Good /\ \A i \in Nat : i < k => i \in Good
    <3> HIDE DEF Good
    <3> QED
      BY LeastOutside
  <2>2. ASSUME NEW j \in Nat PROVE X(k, j) = 0 <=> k = j
    <3>1. CASE k = 0
      BY <1>3, <3>1
    <3>2. CASE k # 0
      <4>1. X(k \div 2, j \div 2) = 0 <=> k \div 2 = j \div 2
        BY <1>4, <2>1, <3>2
      <4>2. X(k, j) = ((k + j) % 2) + 2 * X(k \div 2, j \div 2)
        BY <1>3, <3>2
      <4>3. X(k \div 2, j \div 2) \in Nat
        BY <1>2, <1>4
      <4>4. k = j <=> k \div 2 = j \div 2 /\ (k + j) % 2 = 0
        OBVIOUS
      <4>5. (k + j) % 2 \in Nat
        OBVIOUS
      <4>6. \A m, x \in Nat : m + 2 * x = 0 <=> m = 0 /\ x = 0
        OBVIOUS
      <4>7. X(k, j) = 0 <=> (k + j) % 2 = 0 /\ X(k \div 2, j \div 2) = 0
        BY <4>2, <4>3, <4>5, <4>6
      <4> QED
        BY <4>1, <4>4, <4>7
    <3> QED
      BY <3>1, <3>2
  <2> QED
    BY <2>1, <2>2
<1>6. \A i, j \in Nat : X(X(i, j), i) = j /\ X(X(i, j), j) = i
  <2> DEFINE Good == {i \in Nat : \A j \in Nat : X(X(i, j), i) = j /\ X(X(i, j), j) = i}
  <2> SUFFICES ASSUME NEW n \in Nat, n \notin Good PROVE FALSE
    OBVIOUS
  <2>1. PICK k \in Nat : k \notin Good /\ \A i \in Nat : i < k => i \in Good
    <3> HIDE DEF Good
    <3> QED
      BY LeastOutside
  <2>2. ASSUME NEW j \in Nat PROVE X(X(k, j), k) = j /\ X(X(k, j), j) = k
    <3> DEFINE r == X(k, j)
               h == X(k \div 2, j \div 2)
    <3>0. r \in Nat /\ h \in Nat
      BY <1>2, <1>4
    <3>1. CASE k = 0
      <4>1. r = j
        BY <1>3, <3>1
      <4>2. X(j, j) = 0
        BY <1>5
      <4>3. X(j, 0) = j
        <5> DEFINE Z == {i \in Nat : X(i, 0) = i}
        <5> SUFFICES ASSUME j \notin Z PROVE FALSE
          OBVIOUS
        <5>1. PICK l \in Nat : l \notin Z /\ \A i \in Nat : i < l => i \in Z
          <6> HIDE DEF Z
          <6> QED
            BY LeastOutside
        <5>2. CASE l = 0
          BY <1>3, <5>1, <5>2
        <5>3. CASE l # 0
          <6>1. X(l \div 2, 0) = l \div 2
            BY <1>4, <5>1, <5>3
          <6>2. X(l, 0) = ((l + 0) % 2) + 2 * X(l \div 2, 0)
            <7>1. 0 \div 2 = 0
              OBVIOUS
            <7> QED
              BY <1>3, <5>3, <7>1
          <6>3. X(l, 0) = l
            BY <6>1, <6>2
          <6> QED
            BY <5>1, <6>3
        <5> QED
          BY <5>2, <5>3
      <4> QED
        BY <3>1, <4>1, <4>2, <4>3
    <3>2. CASE k # 0
      <4>1. X(h, k \div 2) = j \div 2 /\ X(h, j \div 2) = k \div 2
        BY <1>4, <2>1, <3>2
      <4>2. r = ((k + j) % 2) + 2 * h
        BY <1>3, <3>2
      <4> HIDE DEF r, h
      <4>3. CASE r = 0
        <5>1. k = j
          BY <1>5, <4>3 DEF r
        <5> QED
          BY <1>3, <4>3, <5>1 DEF r
      <4>4. CASE r # 0
        <5>1. r \div 2 = h /\ r % 2 = (k + j) % 2
          BY <3>0, <4>2
        <5>2. X(r, k) = ((r + k) % 2) + 2 * X(h, k \div 2) /\ X(r, j) = ((r + j) % 2) + 2 * X(h, j \div 2)
          BY <1>3, <3>0, <4>4, <5>1
        <5>3. X(r, k) = ((r + k) % 2) + 2 * (j \div 2) /\ X(r, j) = ((r + j) % 2) + 2 * (k \div 2)
          BY <4>1, <5>2
        <5>4. (r + k) % 2 = j % 2 /\ (r + j) % 2 = k % 2
          BY <3>0, <5>1
        <5>5. X(r, k) = j /\ X(r, j) = k
          BY <5>3, <5>4
        <5> QED
          BY <5>5 DEF r
      <4> QED
        BY <4>3, <4>4
    <3> QED
      BY <3>1, <3>2
  <2> QED
    BY <2>1, <2>2
<1> QED
  BY <1>2, <1>5, <1>6 DEF X

-----------------------------------------------------------------------------
\* The base is a number above zero.
LEMMA BaseIs == Base \in Nat /\ Base > 0
  BY PatchAssumption

\* A byte of a sequence of numbers is a number.
LEMMA AtIs ==
  ASSUME NEW x \in Seq(Nat), NEW i \in Nat
  PROVE  At(x, i) \in Nat /\ (i < Len(x) => At(x, i) = x[i + 1])
<1>1. CASE i < Len(x)
  <2>1. i + 1 \in 1..Len(x)
    BY <1>1
  <2> QED
    BY <1>1, <2>1 DEF At
<1>2. CASE ~(i < Len(x))
  BY <1>2 DEF At
<1> QED
  BY <1>1, <1>2

\* Division by the base.
LEMMA Digits ==
  ASSUME NEW n \in Nat
  PROVE  /\ n % Base \in Nat /\ n % Base < Base /\ n \div Base \in Nat
         /\ n = Base * (n \div Base) + (n % Base)
         /\ n >= Base => n \div Base - 1 \in Nat /\ n \div Base - 1 < n
         /\ n < Base => n % Base = n
<1>1. Base \in Nat /\ Base > 0
  BY BaseIs
<1>2. n % Base \in Nat /\ n % Base < Base /\ n \div Base \in Int /\ n = Base * (n \div Base) + (n % Base)
  BY <1>1
<1> DEFINE q == n \div Base
           r == n % Base
<1>3. r \in Nat /\ r < Base /\ q \in Int /\ n = Base * q + r
  BY <1>2
<1> HIDE DEF q, r
<1>4. q >= 0
  <2> SUFFICES ASSUME q <= -1 PROVE FALSE
    BY <1>3
  <2>1. Base * q <= Base * (-1)
    BY <1>1, <1>3
  <2> QED
    BY <1>1, <1>3, <2>1
<1>5. ASSUME n >= Base PROVE q - 1 \in Nat /\ q - 1 < n
  <2>1. q # 0
    BY <1>1, <1>3, <1>5
  <2>2. Base * q >= q
    BY <1>1, <1>3, <1>4
  <2> QED
    BY <1>1, <1>3, <1>4, <2>1, <2>2
<1>6. ASSUME n < Base PROVE r = n
  <2>1. q = 0
    <3> SUFFICES ASSUME q >= 1 PROVE FALSE
      BY <1>3, <1>4
    <3>1. Base * q >= Base
      BY <1>1, <1>3
    <3> QED
      BY <1>1, <1>3, <1>6, <3>1
  <2> QED
    BY <1>1, <1>3, <2>1
<1> QED
  BY <1>2, <1>3, <1>4, <1>5, <1>6 DEF q, r

\* The digits of a number, and the number read at a place, by operators.
Enc(n) == Encode[n]
Number(x, i) == Decode(x)[i]

\* Encode, unfolded once: it gives one digit or more.
LEMMA EncodeIs ==
  /\ \A n \in Nat : Enc(n) \in Seq(Nat) /\ Len(Enc(n)) \in Nat /\ Len(Enc(n)) >= 1
  /\ \A n \in Nat : Enc(n) = IF n < Base THEN <<Base + n>> ELSE <<n % Base>> \o Enc(n \div Base - 1)
<1> DEFINE V == {s \in Seq(Nat) : Len(s) >= 1}
           E == {n \in Nat : n < Base}
           base == [n \in E |-> <<Base + n>>]
           pred == [n \in Nat \ E |-> n \div Base - 1]
           step == [p \in (Nat \ E) \X V |-> <<p[1] % Base>> \o p[2]]
           mu == [n \in Nat |-> n]
           Def(f) == f = [n \in Nat |-> IF n < Base THEN <<Base + n>> ELSE <<n % Base>> \o f[n \div Base - 1]]
<1>1. Base \in Nat
  BY BaseIs
<1>2. \A n \in Nat : n \notin E => n % Base \in Nat /\ n \div Base - 1 \in Nat /\ n \div Base - 1 < n
  BY <1>1, Digits
<1>3. /\ mu \in [Nat -> Nat] /\ E \in SUBSET Nat
      /\ pred \in [Nat \ E -> Nat] /\ base \in [E -> V]
  BY <1>1, <1>2
<1>4. step \in [(Nat \ E) \X V -> V]
  <2>1. ASSUME NEW n \in Nat \ E, NEW s \in V PROVE <<n % Base>> \o s \in V
    <3>1. n % Base \in Nat
      BY <1>2
    <3> QED
      BY <3>1
  <2> QED
    BY <2>1
<1>5. \A n \in Nat \ E : mu[pred[n]] < mu[n]
  BY <1>2
<1>6. PICK f : Follows(f, Nat, V, E, pred, base, step)
  <2> HIDE DEF V, E, base, pred, step, mu, Def
  <2>1. Recurs(Nat, V, mu, E, pred, base, step)
    BY <1>3, <1>4, <1>5 DEF Recurs
  <2> QED
    BY <2>1, Recursion
<1>7. f \in [Nat -> V] /\ \A n \in Nat : f[n] = IF n \in E THEN base[n] ELSE step[<<n, f[pred[n]]>>]
  <2> HIDE DEF V, E, base, pred, step, mu, Def
  <2> QED
    BY <1>6 DEF Follows
<1>8. ASSUME NEW n \in Nat
      PROVE  f[n] = IF n < Base THEN <<Base + n>> ELSE <<n % Base>> \o f[n \div Base - 1]
  <2>1. CASE n < Base
    BY <1>7, <2>1
  <2>2. CASE ~(n < Base)
    <3>1. n \in Nat \ E /\ pred[n] = n \div Base - 1 /\ f[pred[n]] \in V
      BY <1>2, <1>7, <2>2
    <3>2. f[n] = step[<<n, f[pred[n]]>>]
      BY <1>7, <3>1
    <3> QED
      BY <2>2, <3>1, <3>2
  <2> QED
    BY <2>1, <2>2
<1>9. Def(f)
  <2>1. f = [n \in Nat |-> f[n]]
    BY <1>7
  <2> HIDE DEF V
  <2> QED
    BY <1>8, <2>1
<1> HIDE DEF Def
<1>10. Def(CHOOSE g : Def(g))
  BY <1>9
<1>11. Encode = CHOOSE g : Def(g)
  BY DEF Encode, Def
<1>12. Def(Encode)
  BY <1>10, <1>11
<1>13. \A n \in Nat : Encode[n] = IF n < Base THEN <<Base + n>> ELSE <<n % Base>> \o Encode[n \div Base - 1]
  BY <1>12 DEF Def
<1>14. \A n \in Nat : Encode[n] \in V
  <2> DEFINE Good == {n \in Nat : Encode[n] \in V}
  <2> SUFFICES ASSUME NEW n \in Nat, n \notin Good PROVE FALSE
    OBVIOUS
  <2>1. PICK k \in Nat : k \notin Good /\ \A j \in Nat : j < k => j \in Good
    <3> HIDE DEF Good
    <3> QED
      BY LeastOutside
  <2>2. CASE k < Base
    <3>1. Encode[k] = <<Base + k>>
      BY <1>13, <2>2
    <3>3. Base + k \in Nat
      BY <1>1
    <3>2. Encode[k] \in V
      BY <3>1, <3>3
    <3> QED
      BY <2>1, <3>2
  <2>3. CASE ~(k < Base)
    <3>1. Encode[k \div Base - 1] \in V /\ k % Base \in Nat
      BY <1>2, <2>1, <2>3
    <3>2. Encode[k] = <<k % Base>> \o Encode[k \div Base - 1]
      BY <1>13, <2>3
    <3>3. Encode[k] \in V
      BY <3>1, <3>2
    <3> QED
      BY <2>1, <3>3
  <2> QED
    BY <2>2, <2>3
<1>15. \A n \in Nat : Enc(n) = Encode[n]
  BY DEF Enc
<1>16. ASSUME NEW n \in Nat
       PROVE  Enc(n) = IF n < Base THEN <<Base + n>> ELSE <<n % Base>> \o Enc(n \div Base - 1)
  BY <1>13 DEF Enc
<1>17. \A n \in Nat : Enc(n) \in V
  BY <1>14, <1>15
<1>18. \A n \in Nat : Enc(n) \in Seq(Nat) /\ Len(Enc(n)) \in Nat /\ Len(Enc(n)) >= 1
  <2> SUFFICES ASSUME NEW n \in Nat PROVE Enc(n) \in Seq(Nat) /\ Len(Enc(n)) \in Nat /\ Len(Enc(n)) >= 1
    OBVIOUS
  <2> QED
    BY <1>17
<1> HIDE DEF V, E, base, pred, step, mu
<1> QED
  BY <1>16, <1>18

\* Decode, unfolded once.
LEMMA DecodeIs ==
  ASSUME NEW x \in Seq(Nat), NEW i \in Nat
  PROVE  Number(x, i) =
            IF At(x, i) >= Base \/ i >= Len(x) THEN [number |-> At(x, i) % Base, next |-> i + 1]
            ELSE [number |-> At(x, i) + Base * (1 + Number(x, i + 1).number), next |-> Number(x, i + 1).next]
<1> DEFINE V == [number : Nat, next : Nat]
           E == {j \in Nat : At(x, j) >= Base \/ j >= Len(x)}
           base == [j \in E |-> [number |-> At(x, j) % Base, next |-> j + 1]]
           pred == [j \in Nat \ E |-> j + 1]
           step == [p \in (Nat \ E) \X V |->
                        [number |-> At(x, p[1]) + Base * (1 + p[2].number), next |-> p[2].next]]
           mu == [j \in Nat |-> IF j < Len(x) THEN Len(x) - j ELSE 0]
           Def(f) == f = [j \in Nat |->
                IF At(x, j) >= Base \/ j >= Len(x) THEN [number |-> At(x, j) % Base, next |-> j + 1]
                ELSE [number |-> At(x, j) + Base * (1 + f[j + 1].number), next |-> f[j + 1].next]]
<1>1. Base \in Nat /\ Base > 0 /\ Len(x) \in Nat /\ \A j \in Nat : At(x, j) \in Nat
  BY BaseIs, AtIs
<1>14. Len(x) \in Nat
  OBVIOUS
<1>2. \A j \in Nat : At(x, j) % Base \in Nat
  BY <1>1, Digits
<1>3. \A m \in Nat : Base * (1 + m) \in Nat
  BY <1>1
<1> HIDE DEF At
<1>4. /\ mu \in [Nat -> Nat] /\ E \in SUBSET Nat
      /\ pred \in [Nat \ E -> Nat] /\ base \in [E -> V]
  <2>1. mu \in [Nat -> Nat]
    <3>1. \A j \in Nat : (IF j < Len(x) THEN Len(x) - j ELSE 0) \in Nat
      BY <1>14
    <3> QED
      BY <3>1
  <2>3. E \in SUBSET Nat /\ pred \in [Nat \ E -> Nat]
    OBVIOUS
  <2>2. base \in [E -> V]
    BY <1>2
  <2> QED
    BY <2>1, <2>2, <2>3
<1>5. step \in [(Nat \ E) \X V -> V]
  <2>1. ASSUME NEW j \in Nat, NEW v \in V
        PROVE  [number |-> At(x, j) + Base * (1 + v.number), next |-> v.next] \in V
    <3>1. At(x, j) \in Nat /\ Base * (1 + v.number) \in Nat
      BY <1>1, <1>3
    <3> QED
      BY <3>1
  <2> QED
    BY <2>1
<1>6. ASSUME NEW j \in Nat \ E PROVE mu[pred[j]] < mu[j]
  <2>1. j < Len(x) /\ pred[j] = j + 1 /\ mu[j] = Len(x) - j
    BY <1>14
  <2>2. mu[j + 1] < Len(x) - j
    BY <1>14, <2>1
  <2> QED
    BY <2>1, <2>2
<1>7. PICK f : Follows(f, Nat, V, E, pred, base, step)
  <2> HIDE DEF V, E, base, pred, step, mu, Def
  <2>1. Recurs(Nat, V, mu, E, pred, base, step)
    BY <1>4, <1>5, <1>6 DEF Recurs
  <2> QED
    BY <2>1, Recursion
<1>8. f \in [Nat -> V] /\ \A j \in Nat : f[j] = IF j \in E THEN base[j] ELSE step[<<j, f[pred[j]]>>]
  <2> HIDE DEF V, E, base, pred, step, mu, Def
  <2> QED
    BY <1>7 DEF Follows
<1>9. ASSUME NEW j \in Nat
      PROVE  f[j] = IF At(x, j) >= Base \/ j >= Len(x) THEN [number |-> At(x, j) % Base, next |-> j + 1]
                    ELSE [number |-> At(x, j) + Base * (1 + f[j + 1].number), next |-> f[j + 1].next]
  <2>1. CASE j \in E
    BY <1>8, <2>1
  <2>2. CASE j \notin E
    <3>1. pred[j] = j + 1 /\ j + 1 \in Nat /\ j \in Nat \ E
      BY <2>2
    <3>2. f[j] = step[<<j, f[j + 1]>>] /\ f[j + 1] \in V
      BY <1>8, <2>2, <3>1
    <3> QED
      BY <2>2, <3>1, <3>2
  <2> QED
    BY <2>1, <2>2
<1>10. Def(f)
  <2>1. f = [j \in Nat |-> f[j]]
    BY <1>8
  <2> HIDE DEF V, E, base, pred, step, mu
  <2> QED
    BY <1>9, <2>1
<1> HIDE DEF Def
<1>11. Def(CHOOSE g : Def(g))
  BY <1>10
<1>12. Decode(x) = CHOOSE g : Def(g)
  BY DEF Decode, Def
<1>13. Def(Decode(x))
  BY <1>11, <1>12
<1> HIDE DEF V, E, base, pred, step, mu
<1> QED
  BY <1>13 DEF Def, Number

-----------------------------------------------------------------------------
\* x has e from byte i on.
Holds(x, i, e) == i + Len(e) <= Len(x) /\ \A k \in 1..Len(e) : x[i + k] = e[k]

\* A number that is encoded is what is decoded, up to where it ends.
LEMMA DecodeFinds ==
  ASSUME NEW x \in Seq(Nat), NEW n \in Nat, NEW i \in Nat, Holds(x, i, Enc(n))
  PROVE  Number(x, i) = [number |-> n, next |-> i + Len(Enc(n))]
<1> DEFINE Good == {m \in Nat : \A j \in Nat : Holds(x, j, Enc(m)) =>
                        Number(x, j) = [number |-> m, next |-> j + Len(Enc(m))]}
<1> SUFFICES ASSUME n \notin Good PROVE FALSE
  OBVIOUS
<1>1. PICK m \in Nat : m \notin Good /\ \A l \in Nat : l < m => l \in Good
  <2> HIDE DEF Good
  <2> QED
    BY LeastOutside
<1>2. PICK j \in Nat : Holds(x, j, Enc(m)) /\ Number(x, j) # [number |-> m, next |-> j + Len(Enc(m))]
  BY <1>1
<1> HIDE DEF Good
<1>3. Base \in Nat /\ Base > 0
  BY BaseIs
<1>4. Enc(m) \in Seq(Nat) /\ Len(Enc(m)) >= 1
  BY EncodeIs
<1>5. j < Len(x) /\ At(x, j) = Enc(m)[1]
  BY <1>2, <1>4 DEF Holds, At
<1>6. CASE m < Base
  <2>1. Enc(m) = <<Base + m>>
    BY <1>6, EncodeIs
  <2>2. At(x, j) = Base + m /\ At(x, j) >= Base /\ Len(Enc(m)) = 1
    BY <1>3, <1>5, <2>1
  <2>3. (Base + m) % Base = m
    <3>1. Base + m \in Nat
      BY <1>3
    <3> DEFINE q == (Base + m) \div Base
               r == (Base + m) % Base
    <3>2. r \in Nat /\ r < Base /\ q \in Nat /\ Base + m = Base * q + r
      BY <3>1, Digits
    <3> HIDE DEF q, r
    <3>3. q >= 1
      <4> SUFFICES ASSUME q = 0 PROVE FALSE
        BY <3>2
      <4> QED
        BY <1>3, <3>2
    <3>4. q < 2
      <4> SUFFICES ASSUME q >= 2 PROVE FALSE
        BY <3>2
      <4>1. Base * q >= Base * 2
        BY <1>3, <3>2
      <4> QED
        BY <1>3, <1>6, <3>2, <4>1
    <3>5. q = 1
      BY <3>2, <3>3, <3>4
    <3>6. r = m
      BY <1>3, <3>2, <3>5
    <3> QED
      BY <3>6 DEF r
  <2>4. Number(x, j) = [number |-> m, next |-> j + 1]
    BY <2>2, <2>3, DecodeIs
  <2> QED
    BY <1>2, <2>2, <2>4
<1>7. CASE ~(m < Base)
  <2> DEFINE h == m \div Base - 1
  <2>1. /\ m % Base \in Nat /\ m % Base < Base /\ h \in Nat /\ h < m
        /\ m = (m % Base) + Base * (1 + h)
    BY <1>3, <1>7, Digits
  <2>2. Enc(m) = <<m % Base>> \o Enc(h) /\ Enc(h) \in Seq(Nat) /\ Len(Enc(h)) \in Nat
    <3>1. Enc(m) = <<m % Base>> \o Enc(m \div Base - 1)
      BY <1>7, EncodeIs
    <3>2. Enc(h) \in Seq(Nat)
      BY <2>1, EncodeIs
    <3>3. Len(Enc(h)) \in Nat
      BY <3>2
    <3> QED
      BY <3>1, <3>2, <3>3
  <2> HIDE DEF h
  <2>3. /\ Enc(m)[1] = m % Base /\ Len(Enc(m)) = 1 + Len(Enc(h))
        /\ \A k \in 1..Len(Enc(h)) : Enc(m)[k + 1] = Enc(h)[k]
    BY <2>1, <2>2
  <2>9. j + Len(Enc(m)) <= Len(x) /\ Len(x) \in Nat /\ j + 1 \in Nat
    BY <1>2 DEF Holds
  <2>10. Len(Enc(m)) = 1 + Len(Enc(h))
    BY <2>3
  <2>11. Len(Enc(h)) \in Nat
    BY <2>2
  <2>4. Holds(x, j + 1, Enc(h))
    <3>1. ASSUME NEW k \in 1..Len(Enc(h)) PROVE x[(j + 1) + k] = Enc(h)[k]
      <4>1. k + 1 \in 1..Len(Enc(m)) /\ j + (k + 1) = (j + 1) + k
        BY <2>2, <2>3
      <4>2. x[j + (k + 1)] = Enc(m)[k + 1]
        BY <1>2, <4>1 DEF Holds
      <4> QED
        BY <2>3, <4>1, <4>2
    <3>2. (j + 1) + Len(Enc(h)) <= Len(x)
      BY <2>9, <2>10, <2>11
    <3> QED
      BY <3>1, <3>2 DEF Holds
  <2>5. Number(x, j + 1) = [number |-> h, next |-> (j + 1) + Len(Enc(h))]
    <3>1. h \in Good
      BY <1>1, <2>1
    <3> QED
      BY <2>4, <2>9, <3>1 DEF Good
  <2>6. Number(x, j) = [number |-> (m % Base) + Base * (1 + Number(x, j + 1).number),
                        next |-> Number(x, j + 1).next]
    <3>1. At(x, j) = m % Base
      BY <1>5, <2>3
    <3>2. ~(At(x, j) >= Base) /\ ~(j >= Len(x))
      BY <1>3, <1>5, <2>1, <2>9, <3>1
    <3> QED
      BY <3>1, <3>2, DecodeIs
  <2>7. Number(x, j) = [number |-> m, next |-> (j + 1) + Len(Enc(h))]
    BY <2>1, <2>5, <2>6
  <2>8. (j + 1) + Len(Enc(h)) = j + Len(Enc(m))
    BY <2>10, <2>11
  <2> QED
    BY <1>2, <2>7, <2>8
<1> QED
  BY <1>6, <1>7

\* Signs are kept.
LEMMA SignKept ==
  ASSUME NEW d \in Int
  PROVE  Signed(d) \in Nat /\ Unsigned(Signed(d)) = d
  BY DEF Signed, Unsigned

-----------------------------------------------------------------------------
\* y begins with x.
Grows(x, y) == Len(x) <= Len(y) /\ \A k \in 1..Len(x) : y[k] = x[k]

\* What is appended is there, behind what was.
LEMMA CatIs ==
  ASSUME NEW x \in Seq(Nat), NEW e \in Seq(Nat)
  PROVE  /\ x \o e \in Seq(Nat) /\ Len(x \o e) = Len(x) + Len(e)
         /\ Grows(x, x \o e) /\ Holds(x \o e, Len(x), e)
  BY DEF Grows, Holds

\* What is there of two sequences is there of each of them.
LEMMA HoldsCat ==
  ASSUME NEW x \in Seq(Nat), NEW i \in Nat, NEW a \in Seq(Nat), NEW b \in Seq(Nat), Holds(x, i, a \o b)
  PROVE  Holds(x, i, a) /\ Holds(x, i + Len(a), b)
<1>1. Len(a \o b) = Len(a) + Len(b) /\ Len(a) \in Nat /\ Len(b) \in Nat /\ Len(x) \in Nat
  OBVIOUS
<1>2. i + Len(a \o b) <= Len(x) /\ \A k \in 1..Len(a \o b) : x[i + k] = (a \o b)[k]
  BY DEF Holds
<1>3. ASSUME NEW k \in 1..Len(a) PROVE x[i + k] = a[k]
  <2>1. k \in 1..Len(a \o b) /\ (a \o b)[k] = a[k]
    BY <1>1
  <2> QED
    BY <1>2, <2>1
<1>4. ASSUME NEW k \in 1..Len(b) PROVE x[(i + Len(a)) + k] = b[k]
  <2>1. Len(a) + k \in 1..Len(a \o b) /\ (a \o b)[Len(a) + k] = b[k]
    BY <1>1
  <2>2. i + (Len(a) + k) = (i + Len(a)) + k
    BY <1>1
  <2> QED
    BY <1>2, <2>1, <2>2
<1>5. i + Len(a) <= Len(x) /\ (i + Len(a)) + Len(b) <= Len(x)
  BY <1>1, <1>2
<1> QED
  BY <1>3, <1>4, <1>5 DEF Holds

\* What is there stays there.
LEMMA HoldsGrows ==
  ASSUME NEW x \in Seq(Nat), NEW y \in Seq(Nat), Grows(x, y), NEW i \in Nat, NEW e \in Seq(Nat), Holds(x, i, e)
  PROVE  Holds(y, i, e)
<1>1. ASSUME NEW k \in 1..Len(e) PROVE y[i + k] = e[k]
  <2>1. i + k \in 1..Len(x)
    BY DEF Holds
  <2> QED
    BY <2>1 DEF Holds, Grows
<1>2. i + Len(e) <= Len(y)
  BY DEF Holds, Grows
<1> QED
  BY <1>1, <1>2 DEF Holds

\* Its bytes stay what they are.
LEMMA AtGrows ==
  ASSUME NEW x \in Seq(Nat), NEW y \in Seq(Nat), Grows(x, y), NEW i \in Nat, i < Len(x)
  PROVE  At(y, i) = At(x, i)
<1>1. i + 1 \in 1..Len(x) /\ i < Len(y)
  BY DEF Grows
<1> QED
  BY <1>1 DEF At, Grows

\* Growing twice is growing.
LEMMA GrowsOn ==
  ASSUME NEW x \in Seq(Nat), NEW y \in Seq(Nat), NEW z \in Seq(Nat), Grows(x, y), Grows(y, z)
  PROVE  Grows(x, z)
<1>1. ASSUME NEW k \in 1..Len(x) PROVE z[k] = x[k]
  <2>1. k \in 1..Len(y)
    BY DEF Grows
  <2> QED
    BY <2>1 DEF Grows
<1>2. Len(x) <= Len(z)
  BY DEF Grows
<1> QED
  BY <1>1, <1>2 DEF Grows

\* A byte of what is there.
LEMMA HoldsAt ==
  ASSUME NEW x \in Seq(Nat), NEW i \in Nat, NEW e \in Seq(Nat), Holds(x, i, e), NEW k \in 0..Len(e) - 1
  PROVE  At(x, i + k) = e[k + 1]
<1>1. k + 1 \in 1..Len(e) /\ i + k < Len(x) /\ (i + k) + 1 = i + (k + 1)
  BY DEF Holds
<1> QED
  BY <1>1 DEF Holds, At

\* A finite set of numbers has a largest one.
LEMMA MaxIs ==
  ASSUME NEW S \in SUBSET Nat, NEW n \in Nat, 0 \in S, \A i \in S : i <= n
  PROVE  Max(S) \in S /\ \A i \in S : i <= Max(S)
<1> DEFINE Bad == {k \in Nat : n - k \notin S}
<1>1. PICK k \in Nat : n - k \in S /\ \A j \in Nat : j < k => n - j \notin S
  <2> DEFINE Out == {k \in Nat : n - k \notin S}
  <2>1. n \notin Out
    OBVIOUS
  <2> HIDE DEF Out
  <2>2. PICK k \in Nat : k \notin Out /\ \A j \in Nat : j < k => j \in Out
    BY <2>1, LeastOutside
  <2> QED
    BY <2>2 DEF Out
<1>2. ASSUME NEW i \in S PROVE i <= n - k
  <2> SUFFICES ASSUME i > n - k PROVE FALSE
    BY <1>1
  <2>1. n - i \in Nat /\ n - i < k /\ n - (n - i) = i
    OBVIOUS
  <2> QED
    BY <1>1, <2>1
<1>3. \E m \in S : \A i \in S : m >= i
  BY <1>1, <1>2
<1> QED
  BY <1>3 DEF Max

\* What Common finds.
LEMMA CommonIs ==
  ASSUME NEW x \in Seq(Nat), NEW y \in Seq(Nat), NEW i \in Nat, NEW j \in Nat
  PROVE  /\ Common(x, i, y, j) \in Nat
         /\ Common(x, i, y, j) <= Len(y)
         /\ Common(x, i, y, j) > 0 =>
                /\ i + Common(x, i, y, j) <= Len(x) /\ j + Common(x, i, y, j) <= Len(y)
                /\ \A k \in 0..Common(x, i, y, j) - 1 : At(x, i + k) = At(y, j + k)
<1> DEFINE T == {n \in 1..Len(y) - j : i + n <= Len(x) /\ \A k \in 0..n - 1 : At(x, i + k) = At(y, j + k)}
           S == {0} \union T
           c == Common(x, i, y, j)
<1>1. c = Max(S)
  BY DEF Common
<1>2. Len(y) \in Nat /\ S \in SUBSET Nat /\ \A m \in S : m <= Len(y)
  OBVIOUS
<1>3. 0 \in S
  OBVIOUS
<1> HIDE DEF S, c
<1>4. c \in S
  BY <1>1, <1>2, <1>3, MaxIs
<1>5. c > 0 => c \in T
  BY <1>4 DEF S
<1>6. c > 0 => i + c <= Len(x) /\ j + c <= Len(y) /\ \A k \in 0..c - 1 : At(x, i + k) = At(y, j + k)
  <2> SUFFICES ASSUME c \in T PROVE i + c <= Len(x) /\ j + c <= Len(y) /\ \A k \in 0..c - 1 : At(x, i + k) = At(y, j + k)
    BY <1>5
  <2>1. c \in 1..Len(y) - j
    OBVIOUS
  <2>2. j + c <= Len(y)
    BY <1>2, <2>1
  <2> QED
    BY <2>2
<1>7. c \in Nat /\ c <= Len(y)
  BY <1>2, <1>4
<1> QED
  BY <1>6, <1>7 DEF c

\* What Best finds: a place where there is as much in common.
LEMMA BestIs ==
  ASSUME NEW x \in Seq(Nat), product \in Seq(Nat), NEW places \in SUBSET Nat, NEW o \in Nat,
         NEW m \in Nat, \A i \in places : i <= m
  PROVE  /\ Best(x, places, o).length \in Nat
         /\ Best(x, places, o).length > 0 =>
                /\ Best(x, places, o).at \in places
                /\ Common(x, Best(x, places, o).at, product, o) = Best(x, places, o).length
<1> DEFINE C(i) == Common(x, i, product, o)
           S == {0} \union {C(i) : i \in places}
           n == Max(S)
           P == {0} \union {i \in places : C(i) = n}
<1>1. Len(product) \in Nat /\ \A i \in places : C(i) \in Nat /\ C(i) <= Len(product)
  <2> SUFFICES ASSUME NEW i \in places PROVE C(i) \in Nat /\ C(i) <= Len(product)
    OBVIOUS
  <2>1. i \in Nat
    OBVIOUS
  <2> QED
    BY <2>1, CommonIs
<1>2. Best(x, places, o) = [length |-> n, at |-> Max(P)]
  BY DEF Best
<1>3. S \in SUBSET Nat /\ 0 \in S /\ \A l \in S : l <= Len(product)
  <2> HIDE DEF C
  <2> QED
    BY <1>1
<1>4. P \in SUBSET Nat /\ 0 \in P /\ \A l \in P : l <= m
  <2>1. ASSUME NEW l \in P PROVE l = 0 \/ l \in places
    <3> HIDE DEF n, C
    <3> QED
      OBVIOUS
  <2>2. 0 \in P
    OBVIOUS
  <2> HIDE DEF P, n, C
  <2>3. \A l \in P : l \in Nat /\ l <= m
    <3> SUFFICES ASSUME NEW l \in P PROVE l \in Nat /\ l <= m
      OBVIOUS
    <3>1. CASE l = 0
      BY <3>1
    <3>2. CASE l \in places
      BY <3>2
    <3> QED
      BY <2>1, <3>1, <3>2
  <2> QED
    BY <2>2, <2>3
<1> HIDE DEF C
<1>5. n \in S
  <2> HIDE DEF S
  <2> QED
    BY <1>1, <1>3, MaxIs
<1>6. ASSUME n > 0 PROVE Max(P) \in places /\ C(Max(P)) = n
  <2>1. PICK i \in places : C(i) = n
    <3> HIDE DEF n
    <3>1. n # 0
      BY <1>6
    <3> QED
      BY <1>5, <3>1
  <2> HIDE DEF n
  <2>2. i \in P
    BY <2>1
  <2>3. Max(P) \in P /\ i <= Max(P)
    <3> HIDE DEF P
    <3> QED
      BY <1>4, <2>2, MaxIs
  <2>4. Max(P) = 0 => i = 0
    BY <2>1, <2>3
  <2> QED
    BY <2>1, <2>3, <2>4
<1> QED
  BY <1>2, <1>3, <1>5, <1>6 DEF C

-----------------------------------------------------------------------------
\* The exclusive or of byte i of both sides.
Diff(s, t, i) == Xor[At(s, i)][At(t, i)]

\* It is 0 where both agree, and makes either of the other.
LEMMA DiffIs ==
  ASSUME NEW s \in Seq(Nat), NEW t \in Seq(Nat), NEW i \in Nat
  PROVE  /\ Diff(s, t, i) \in Nat
         /\ Diff(s, t, i) = 0 <=> At(s, i) = At(t, i)
         /\ Xor[Diff(s, t, i)][At(s, i)] = At(t, i)
         /\ Xor[Diff(s, t, i)][At(t, i)] = At(s, i)
<1>1. At(s, i) \in Nat /\ At(t, i) \in Nat
  BY AtIs
<1> QED
  BY <1>1, XorFacts DEF Diff

-----------------------------------------------------------------------------
\* A mark is where ups::apply is in the patch, how much it has written then, and
\* whether it is among changed bytes.  From each it comes to the next one.
UpsMark(i, o, in) == [at |-> i, offset |-> o, inside |-> in]
UpsMarks == [at : Nat, offset : Nat, inside : BOOLEAN]
UpsStep(s, t, x, p, q) ==
    \/ /\ ~p.inside
       /\ \E n \in Nat :
            /\ Holds(x, p.at, Enc(n))
            /\ \A i \in Nat : p.offset <= i /\ i < p.offset + n => At(s, i) = At(t, i)
            /\ q = UpsMark(p.at + Len(Enc(n)), p.offset + n, TRUE)
    \/ /\ p.inside /\ p.at < Len(x) /\ At(x, p.at) = Diff(s, t, p.offset)
       /\ q = UpsMark(p.at + 1, p.offset + 1, Diff(s, t, p.offset) # 0)

\* The marks of a patch x, from its header on to the last one, l.
UpsPath(s, t, x, h, R, l) ==
    /\ R \subseteq UpsMarks /\ l \in R /\ UpsMark(h, 0, FALSE) \in R
    /\ \A p \in R : p = l \/ \E q \in R : UpsStep(s, t, x, p, q)

\* There are marks to the end of what is made, where the last one is that of the
\* maker; and of what is made altogether.
UpsMakes(s, t, x, h, o, r, in) ==
    \E R, l :
        /\ UpsPath(s, t, x, h, R, l)
        /\ l.at = Len(x) /\ l.inside = in
        /\ in => l.offset = o
        /\ ~in => /\ \A i \in Nat : l.offset <= i /\ i < o => At(s, i) = At(t, i)
                  /\ l.offset = r \/ (o >= Len(s) /\ o >= Len(t))
UpsWhole(s, t, x, h, R, l) ==
    /\ UpsPath(s, t, x, h, R, l)
    /\ l.at = Len(x) /\ ~l.inside
    /\ \A i \in Nat : l.offset <= i => At(s, i) = At(t, i)

\* The fields of a mark.
LEMMA UpsMarkIs ==
  ASSUME NEW i \in Nat, NEW o \in Nat, NEW in \in BOOLEAN
  PROVE  /\ UpsMark(i, o, in) \in UpsMarks
         /\ UpsMark(i, o, in).at = i /\ UpsMark(i, o, in).offset = o /\ UpsMark(i, o, in).inside = in
  BY DEF UpsMark, UpsMarks

\* A step stays one when the patch grows.
LEMMA UpsStepGrows ==
  ASSUME NEW s, NEW t, NEW x \in Seq(Nat), NEW y \in Seq(Nat), Grows(x, y),
         NEW p \in UpsMarks, NEW q, UpsStep(s, t, x, p, q)
  PROVE  UpsStep(s, t, y, p, q)
<1>1. p.at \in Nat
  BY DEF UpsMarks
<1>2. CASE ~p.inside
  <2>1. PICK n \in Nat :
            /\ Holds(x, p.at, Enc(n))
            /\ \A i \in Nat : p.offset <= i /\ i < p.offset + n => At(s, i) = At(t, i)
            /\ q = UpsMark(p.at + Len(Enc(n)), p.offset + n, TRUE)
    BY <1>2 DEF UpsStep
  <2>2. Holds(y, p.at, Enc(n))
    BY <1>1, <2>1, EncodeIs, HoldsGrows
  <2> QED
    BY <1>2, <2>1, <2>2 DEF UpsStep
<1>3. CASE p.inside
  <2>1. p.at < Len(x) /\ At(x, p.at) = Diff(s, t, p.offset)
        /\ q = UpsMark(p.at + 1, p.offset + 1, Diff(s, t, p.offset) # 0)
    BY <1>3 DEF UpsStep
  <2>2. At(y, p.at) = At(x, p.at) /\ p.at < Len(y)
    BY <1>1, <2>1, AtGrows DEF Grows
  <2> QED
    BY <1>3, <2>1, <2>2 DEF UpsStep
<1> QED
  BY <1>2, <1>3

\* The path grows by a step at its end.
LEMMA UpsPathGrows ==
  ASSUME NEW s, NEW t, NEW x \in Seq(Nat), NEW y \in Seq(Nat), Grows(x, y), NEW h, NEW R, NEW l,
         UpsPath(s, t, x, h, R, l), NEW m \in UpsMarks, UpsStep(s, t, y, l, m)
  PROVE  UpsPath(s, t, y, h, R \union {m}, m)
<1> DEFINE Q == R \union {m}
<1>1. Q \subseteq UpsMarks /\ m \in Q /\ UpsMark(h, 0, FALSE) \in Q
  BY DEF UpsPath
<1>2. ASSUME NEW p \in Q, p # m PROVE \E q \in Q : UpsStep(s, t, y, p, q)
  <2>1. p \in R /\ p \in UpsMarks
    BY <1>2 DEF UpsPath
  <2>2. CASE p = l
    BY <2>2
  <2>3. CASE p # l
    <3>1. PICK q \in R : UpsStep(s, t, x, p, q)
      BY <2>1, <2>3 DEF UpsPath
    <3>2. UpsStep(s, t, y, p, q)
      BY <2>1, <3>1, UpsStepGrows
    <3> QED
      BY <3>2
  <2> QED
    BY <2>2, <2>3
<1> HIDE DEF Q
<1>3. UpsPath(s, t, y, h, Q, m)
  BY <1>1, <1>2 DEF UpsPath
<1> QED
  BY <1>3 DEF Q

\* The patch of nothing but the header.
LEMMA UpsStarts ==
  ASSUME NEW s \in Seq(Nat), NEW t \in Seq(Nat), NEW x \in Seq(Nat)
  PROVE  UpsMakes(s, t, x, Len(x), 0, 0, FALSE)
<1> DEFINE l == UpsMark(Len(x), 0, FALSE)
<1>1. l \in UpsMarks /\ l.at = Len(x) /\ l.inside = FALSE /\ l.offset = 0
  <2>1. Len(x) \in Nat /\ 0 \in Nat /\ FALSE \in BOOLEAN
    OBVIOUS
  <2> QED
    BY <2>1, UpsMarkIs
<1> HIDE DEF l
<1>2. UpsPath(s, t, x, Len(x), {l}, l)
  BY <1>1 DEF UpsPath, l
<1> QED
  BY <1>1, <1>2 DEF UpsMakes

\* A byte that both agree on.
LEMMA UpsSameMakes ==
  ASSUME NEW s \in Seq(Nat), NEW t \in Seq(Nat), NEW x \in Seq(Nat), NEW h, NEW o \in Nat, NEW r,
         UpsMakes(s, t, x, h, o, r, FALSE), At(s, o) = At(t, o), o < Len(s) \/ o < Len(t)
  PROVE  UpsMakes(s, t, x, h, o + 1, r, FALSE)
<1>1. PICK R, l :
        /\ UpsPath(s, t, x, h, R, l)
        /\ l.at = Len(x) /\ l.inside = FALSE
        /\ \A i \in Nat : l.offset <= i /\ i < o => At(s, i) = At(t, i)
        /\ l.offset = r \/ (o >= Len(s) /\ o >= Len(t))
  BY DEF UpsMakes
<1>2. l.offset \in Nat
  BY <1>1 DEF UpsPath, UpsMarks
<1>3. ASSUME NEW i \in Nat, l.offset <= i, i < o + 1 PROVE At(s, i) = At(t, i)
  <2>1. i < o \/ i = o
    BY <1>3
  <2> QED
    BY <1>1, <1>3, <2>1
<1>4. l.offset = r
  BY <1>1
<1> QED
  BY <1>1, <1>3, <1>4 DEF UpsMakes

\* A difference, after the number of bytes before it.
LEMMA UpsDifferMakes ==
  ASSUME NEW s \in Seq(Nat), NEW t \in Seq(Nat), NEW x \in Seq(Nat), NEW h, NEW o \in Nat, NEW r \in Nat,
         r <= o, UpsMakes(s, t, x, h, o, r, FALSE), At(s, o) # At(t, o), o < Len(s) \/ o < Len(t)
  PROVE  /\ x \o Enc(o - r) \o <<Diff(s, t, o)>> \in Seq(Nat)
         /\ UpsMakes(s, t, x \o Enc(o - r) \o <<Diff(s, t, o)>>, h, o + 1, r, TRUE)
         /\ Grows(x, x \o Enc(o - r) \o <<Diff(s, t, o)>>)
<1>1. PICK R, l :
        /\ UpsPath(s, t, x, h, R, l)
        /\ l.at = Len(x) /\ l.inside = FALSE
        /\ \A i \in Nat : l.offset <= i /\ i < o => At(s, i) = At(t, i)
        /\ l.offset = r \/ (o >= Len(s) /\ o >= Len(t))
  BY DEF UpsMakes
<1>2. l.offset = r /\ l \in UpsMarks
  BY <1>1 DEF UpsPath
<1> DEFINE e == Enc(o - r)
           y == x \o e
           d == Diff(s, t, o)
           z == y \o <<d>>
           m1 == UpsMark(Len(y), o, TRUE)
           m2 == UpsMark(Len(z), o + 1, TRUE)
<1>3. o - r \in Nat /\ e \in Seq(Nat) /\ d \in Nat /\ d # 0
  <2>1. o - r \in Nat
    OBVIOUS
  <2>2. e \in Seq(Nat)
    BY <2>1, EncodeIs
  <2>3. d \in Nat /\ d # 0
    BY DiffIs
  <2> QED
    BY <2>1, <2>2, <2>3
<1> HIDE DEF e, d
<1>4. y \in Seq(Nat) /\ Len(y) = Len(x) + Len(e) /\ Grows(x, y) /\ Holds(y, Len(x), e)
  BY <1>3, CatIs
<1> HIDE DEF y
<1>5. z \in Seq(Nat) /\ Len(z) = Len(y) + 1 /\ Grows(y, z) /\ Holds(z, Len(y), <<d>>)
  <2>1. <<d>> \in Seq(Nat) /\ Len(<<d>>) = 1
    BY <1>3
  <2> QED
    BY <1>4, <2>1, CatIs
<1> HIDE DEF z
<1>6. m1 \in UpsMarks /\ m2 \in UpsMarks /\ m1.at = Len(y) /\ m1.offset = o /\ m1.inside = TRUE
      /\ m2.at = Len(z) /\ m2.offset = o + 1 /\ m2.inside = TRUE
  <2>1. Len(y) \in Nat /\ Len(z) \in Nat /\ o + 1 \in Nat /\ TRUE \in BOOLEAN
    BY <1>4, <1>5
  <2>2. m1 \in UpsMarks /\ m1.at = Len(y) /\ m1.offset = o /\ m1.inside = TRUE
    BY <2>1, UpsMarkIs
  <2>3. m2 \in UpsMarks /\ m2.at = Len(z) /\ m2.offset = o + 1 /\ m2.inside = TRUE
    BY <2>1, UpsMarkIs
  <2> QED
    BY <2>2, <2>3
<1>7. UpsStep(s, t, y, l, m1)
  <2>1. l.offset + (o - r) = o /\ l.at + Len(e) = Len(y)
    BY <1>1, <1>2, <1>4
  <2>2. Holds(y, l.at, Enc(o - r))
    BY <1>1, <1>4 DEF e
  <2>3. \A i \in Nat : l.offset <= i /\ i < l.offset + (o - r) => At(s, i) = At(t, i)
    BY <1>1, <2>1
  <2>4. m1 = UpsMark(l.at + Len(Enc(o - r)), l.offset + (o - r), TRUE)
    BY <2>1 DEF e
  <2> QED
    BY <1>1, <1>3, <2>2, <2>3, <2>4 DEF UpsStep
<1>8. UpsStep(s, t, z, m1, m2)
  <2>1. Len(y) \in Nat /\ Len(y) < Len(z)
    BY <1>4, <1>5
  <2>2. At(z, Len(y)) = d
    <3>1. <<d>> \in Seq(Nat) /\ 0 \in 0..Len(<<d>>) - 1 /\ <<d>>[0 + 1] = d
      BY <1>3
    <3>2. At(z, Len(y) + 0) = d
      BY <1>5, <2>1, <3>1, HoldsAt
    <3> QED
      BY <2>1, <3>2
  <2>3. m2 = UpsMark(m1.at + 1, m1.offset + 1, Diff(s, t, m1.offset) # 0)
    <3>1. (Diff(s, t, o) # 0) = TRUE
      BY <1>3 DEF d
    <3> QED
      BY <1>5, <1>6, <3>1
  <2> QED
    BY <1>6, <2>1, <2>2, <2>3 DEF UpsStep, d
<1>9. UpsPath(s, t, y, h, R \union {m1}, m1)
  BY <1>1, <1>4, <1>6, <1>7, UpsPathGrows
<1>10. UpsPath(s, t, z, h, R \union {m1} \union {m2}, m2)
  <2> HIDE DEF m1, m2
  <2> QED
    BY <1>4, <1>5, <1>6, <1>8, <1>9, UpsPathGrows
<1>11. UpsMakes(s, t, z, h, o + 1, r, TRUE)
  <2> HIDE DEF m1, m2
  <2> QED
    BY <1>6, <1>10 DEF UpsMakes
<1>12. Grows(x, z)
  BY <1>4, <1>5, GrowsOn
<1> QED
  BY <1>5, <1>11, <1>12 DEF z, y, e, d

\* A changed byte, or the agreement that ends them; past the end of both a zero.
LEMMA UpsChangeMakes ==
  ASSUME NEW s \in Seq(Nat), NEW t \in Seq(Nat), NEW x \in Seq(Nat), NEW h, NEW o \in Nat, NEW r,
         NEW r2, NEW o2 \in Nat, UpsMakes(s, t, x, h, o, r, TRUE),
         o2 = o + 1 \/ (o2 = o /\ o >= Len(s) /\ o >= Len(t)),
         At(s, o) = At(t, o) => r2 = o2
  PROVE  /\ Append(x, Diff(s, t, o)) \in Seq(Nat)
         /\ At(s, o) # At(t, o) => UpsMakes(s, t, Append(x, Diff(s, t, o)), h, o2, r2, TRUE)
         /\ At(s, o) = At(t, o) => UpsMakes(s, t, Append(x, Diff(s, t, o)), h, o2, r2, FALSE)
         /\ Grows(x, Append(x, Diff(s, t, o)))
<1>1. PICK R, l : UpsPath(s, t, x, h, R, l) /\ l.at = Len(x) /\ l.inside = TRUE /\ l.offset = o
  BY DEF UpsMakes
<1> DEFINE d == Diff(s, t, o)
           y == Append(x, d)
           in == At(s, o) # At(t, o)
           m == UpsMark(Len(y), o + 1, in)
<1>2. d \in Nat /\ (d # 0) = in
  BY DiffIs
<1> HIDE DEF d
<1>3. y \in Seq(Nat) /\ Len(y) = Len(x) + 1 /\ Grows(x, y) /\ y[Len(x) + 1] = d /\ Len(x) \in Nat
  BY <1>2 DEF Grows
<1> HIDE DEF y, in
<1>4. m \in UpsMarks /\ m.at = Len(y) /\ m.offset = o + 1 /\ m.inside = in
  <2>1. Len(y) \in Nat /\ o + 1 \in Nat /\ in \in BOOLEAN
    BY <1>3 DEF in
  <2> QED
    BY <2>1, UpsMarkIs
<1>5. UpsStep(s, t, y, l, m)
  <2>1. At(y, Len(x)) = d /\ Len(x) < Len(y)
    BY <1>3 DEF At
  <2>2. m = UpsMark(l.at + 1, l.offset + 1, Diff(s, t, l.offset) # 0)
    BY <1>1, <1>2, <1>3 DEF d
  <2> QED
    BY <1>1, <2>1, <2>2 DEF UpsStep, d
<1> HIDE DEF m
<1>6. UpsPath(s, t, y, h, R \union {m}, m)
  BY <1>1, <1>3, <1>4, <1>5, UpsPathGrows
<1>7. ~in => r2 = o2
  BY DEF in
<1>8. ASSUME ~in PROVE \A i \in Nat : m.offset <= i /\ i < o2 => At(s, i) = At(t, i)
  BY <1>4
<1>9. ASSUME ~in PROVE m.offset = r2 \/ (o2 >= Len(s) /\ o2 >= Len(t))
  BY <1>4, <1>7, <1>9
<1>10. ASSUME in PROVE m.offset = o2
  <2>1. ~(o >= Len(s) /\ o >= Len(t))
    BY <1>10 DEF in, At
  <2> QED
    BY <1>4, <2>1
<1>11. UpsMakes(s, t, y, h, o2, r2, in)
  BY <1>4, <1>6, <1>8, <1>9, <1>10 DEF UpsMakes
<1>12. (in => in = TRUE) /\ (~in => in = FALSE)
  BY DEF in
<1>13. (in => UpsMakes(s, t, y, h, o2, r2, TRUE)) /\ (~in => UpsMakes(s, t, y, h, o2, r2, FALSE))
  BY <1>11, <1>12
<1> QED
  BY <1>3, <1>13 DEF y, d, in

\* At the end of both, the patch is whole.
LEMMA UpsEnds ==
  ASSUME NEW s \in Seq(Nat), NEW t \in Seq(Nat), NEW x \in Seq(Nat), NEW h, NEW o \in Nat, NEW r,
         UpsMakes(s, t, x, h, o, r, FALSE), o >= Len(s), o >= Len(t)
  PROVE  \E R, l : UpsWhole(s, t, x, h, R, l)
<1>1. PICK R, l :
        /\ UpsPath(s, t, x, h, R, l)
        /\ l.at = Len(x) /\ l.inside = FALSE
        /\ \A i \in Nat : l.offset <= i /\ i < o => At(s, i) = At(t, i)
  BY DEF UpsMakes
<1>2. ASSUME NEW i \in Nat, l.offset <= i PROVE At(s, i) = At(t, i)
  <2>1. CASE i < o
    BY <1>1, <1>2, <2>1
  <2>2. CASE ~(i < o)
    <3>1. ~(i < Len(s)) /\ ~(i < Len(t))
      BY <2>2
    <3> QED
      BY <3>1 DEF At
  <2> QED
    BY <2>1, <2>2
<1> QED
  BY <1>1, <1>2 DEF UpsWhole

-----------------------------------------------------------------------------
\* Reading: what has been written, z, is what is wanted, w.
Right(z, w) == z \in Seq(Nat) /\ \A k \in 1..Len(z) : z[k] = At(w, k - 1)

\* What is given, g, and wanted are the two files, this way round or the other.
Sides(g, w, s, t) == (g = s /\ w = t) \/ (g = t /\ w = s)

\* Writing the next byte wanted.
LEMMA RightAppend ==
  ASSUME NEW z, NEW w, Right(z, w), NEW b \in Nat, b = At(w, Len(z))
  PROVE  Right(Append(z, b), w) /\ Len(Append(z, b)) = Len(z) + 1
<1>1. z \in Seq(Nat) /\ \A k \in 1..Len(z) : z[k] = At(w, k - 1)
  BY DEF Right
<1> DEFINE y == Append(z, b)
<1>0. z \in Seq(Nat)
  BY <1>1
<1>2. y \in Seq(Nat) /\ Len(y) = Len(z) + 1 /\ y[Len(z) + 1] = b /\ \A k \in 1..Len(z) : y[k] = z[k]
  BY <1>0
<1> HIDE DEF y
<1>3. ASSUME NEW k \in 1..Len(y) PROVE y[k] = At(w, k - 1)
  <2>1. CASE k = Len(z) + 1
    <3>1. k - 1 = Len(z)
      BY <1>1, <2>1
    <3> QED
      BY <1>2, <2>1, <3>1
  <2>2. CASE k # Len(z) + 1
    <3>1. k \in 1..Len(z)
      BY <1>1, <1>2, <2>2
    <3> QED
      BY <1>1, <1>2, <3>1
  <2> QED
    BY <2>1, <2>2
<1>4. Right(y, w)
  BY <1>2, <1>3 DEF Right
<1> QED
  BY <1>2, <1>4 DEF y

\* Writing several of them.
LEMMA RightCat ==
  ASSUME NEW z, NEW w, Right(z, w), NEW e \in Seq(Nat),
         \A k \in 1..Len(e) : e[k] = At(w, Len(z) + k - 1)
  PROVE  Right(z \o e, w) /\ Len(z \o e) = Len(z) + Len(e)
<1>1. z \in Seq(Nat) /\ \A k \in 1..Len(z) : z[k] = At(w, k - 1)
  BY DEF Right
<1>2. z \in Seq(Nat)
  BY <1>1
<1> DEFINE y == z \o e
<1>3. /\ y \in Seq(Nat) /\ Len(y) = Len(z) + Len(e) /\ Len(z) \in Nat /\ Len(e) \in Nat
      /\ \A k \in 1..Len(y) : y[k] = IF k <= Len(z) THEN z[k] ELSE e[k - Len(z)]
  BY <1>2
<1> HIDE DEF y
<1>4. ASSUME NEW k \in 1..Len(y) PROVE y[k] = At(w, k - 1)
  <2>1. CASE k <= Len(z)
    <3>1. k \in 1..Len(z) /\ y[k] = z[k]
      BY <1>3, <2>1
    <3> QED
      BY <1>1, <3>1
  <2>2. CASE ~(k <= Len(z))
    <3> DEFINE j == k - Len(z)
    <3>1. j \in 1..Len(e) /\ y[k] = e[j] /\ Len(z) + j - 1 = k - 1
      BY <1>3, <2>2
    <3> HIDE DEF j
    <3>2. e[j] = At(w, Len(z) + j - 1)
      BY <3>1
    <3> QED
      BY <3>1, <3>2
  <2> QED
    BY <2>1, <2>2
<1> QED
  BY <1>3, <1>4 DEF Right, y

\* A function on the first numbers is a sequence.
LEMMA ListIs ==
  ASSUME NEW n \in Nat, NEW e, e = [k \in 1..n |-> e[k]], \A k \in 1..n : e[k] \in Nat
  PROVE  e \in Seq(Nat) /\ Len(e) = n
  OBVIOUS

\* The reader of the patch x is at byte i of it, has written z of w, and inside
\* is whether it is among changed bytes: it is at a mark.
UpsAt(s, t, g, w, x, R, l, i, z, in) ==
    /\ s \in Seq(Nat) /\ t \in Seq(Nat) /\ g \in Seq(Nat) /\ w \in Seq(Nat) /\ Sides(g, w, s, t)
    /\ x \in Seq(Nat) /\ (\E h : UpsWhole(s, t, x, h, R, l))
    /\ i \in Nat /\ Right(z, w) /\ UpsMark(i, Len(z), in) \in R

\* A number, and as many bytes that both sides agree on.
LEMMA UpsSkips ==
  ASSUME NEW s, NEW t, NEW g, NEW w, NEW x, NEW R, NEW l, NEW i, NEW z,
         UpsAt(s, t, g, w, x, R, l, i, z, FALSE), i < Len(x),
         NEW y, y = z \o [k \in 1..Number(x, i).number |-> At(g, Len(z) + k - 1)]
  PROVE  Right(y, w) /\ Number(x, i).next \in Nat /\ UpsMark(Number(x, i).next, Len(y), TRUE) \in R
<1>0. /\ s \in Seq(Nat) /\ t \in Seq(Nat) /\ g \in Seq(Nat) /\ w \in Seq(Nat) /\ Sides(g, w, s, t)
      /\ x \in Seq(Nat) /\ i \in Nat /\ Right(z, w) /\ UpsMark(i, Len(z), FALSE) \in R
  BY DEF UpsAt
<1> PICK h : UpsWhole(s, t, x, h, R, l)
  BY DEF UpsAt
<1> DEFINE p == UpsMark(i, Len(z), FALSE)
<1>1. z \in Seq(Nat) /\ Len(z) \in Nat /\ \A k \in 1..Len(z) : z[k] = At(w, k - 1)
  BY <1>0 DEF Right
<1>2. p.at = i /\ p.offset = Len(z) /\ p.inside = FALSE
  <2>1. FALSE \in BOOLEAN
    OBVIOUS
  <2> QED
    BY <1>0, <1>1, <2>1, UpsMarkIs
<1> HIDE DEF p
<1>13. l.at = Len(x) /\ p \in R
  BY <1>0 DEF UpsWhole, p
<1>3. p # l
  BY <1>2, <1>13
<1>4. PICK q \in R : UpsStep(s, t, x, p, q)
  BY <1>3, <1>13 DEF UpsWhole, UpsPath
<1>5. PICK n \in Nat :
            /\ Holds(x, p.at, Enc(n))
            /\ \A j \in Nat : p.offset <= j /\ j < p.offset + n => At(s, j) = At(t, j)
            /\ q = UpsMark(p.at + Len(Enc(n)), p.offset + n, TRUE)
  BY <1>2, <1>4 DEF UpsStep
<1>6. Number(x, i) = [number |-> n, next |-> i + Len(Enc(n))]
  BY <1>0, <1>2, <1>5, DecodeFinds
<1>7. Len(Enc(n)) \in Nat
  BY EncodeIs
<1> DEFINE e == [k \in 1..n |-> At(g, Len(z) + k - 1)]
<1>8. ASSUME NEW k \in 1..n PROVE e[k] = At(w, Len(z) + k - 1) /\ e[k] \in Nat
  <2>1. Len(z) + k - 1 \in Nat /\ p.offset <= Len(z) + k - 1 /\ Len(z) + k - 1 < p.offset + n
    BY <1>1, <1>2
  <2>2. At(s, Len(z) + k - 1) = At(t, Len(z) + k - 1)
    BY <1>5, <2>1
  <2>3. At(g, Len(z) + k - 1) = At(w, Len(z) + k - 1)
    BY <1>0, <2>2 DEF Sides
  <2>4. At(g, Len(z) + k - 1) \in Nat
    BY <1>0, <2>1, AtIs
  <2> QED
    BY <2>3, <2>4
<1>9. e \in Seq(Nat) /\ Len(e) = n
  <2>1. e = [k \in 1..n |-> e[k]] /\ \A k \in 1..n : e[k] \in Nat
    BY <1>8
  <2> HIDE DEF e
  <2> QED
    BY <2>1, ListIs
<1>10. y = z \o e
  BY <1>6
<1> HIDE DEF e
<1>11. Right(y, w) /\ Len(y) = Len(z) + n
  BY <1>0, <1>8, <1>9, <1>10, RightCat
<1>12. q = UpsMark(Number(x, i).next, Len(y), TRUE) /\ Number(x, i).next \in Nat
  BY <1>0, <1>2, <1>5, <1>6, <1>7, <1>11
<1> QED
  BY <1>4, <1>11, <1>12

\* A changed byte.
LEMMA UpsXors ==
  ASSUME NEW s, NEW t, NEW g, NEW w, NEW x, NEW R, NEW l, NEW i, NEW z,
         UpsAt(s, t, g, w, x, R, l, i, z, TRUE),
         NEW y, y = Append(z, Xor[At(x, i)][At(g, Len(z))])
  PROVE  Right(y, w) /\ UpsMark(i + 1, Len(y), At(x, i) # 0) \in R
<1>0. /\ s \in Seq(Nat) /\ t \in Seq(Nat) /\ g \in Seq(Nat) /\ w \in Seq(Nat) /\ Sides(g, w, s, t)
      /\ x \in Seq(Nat) /\ i \in Nat /\ Right(z, w) /\ UpsMark(i, Len(z), TRUE) \in R
  BY DEF UpsAt
<1> PICK h : UpsWhole(s, t, x, h, R, l)
  BY DEF UpsAt
<1> DEFINE p == UpsMark(i, Len(z), TRUE)
           d == Diff(s, t, Len(z))
<1>1. z \in Seq(Nat) /\ Len(z) \in Nat
  BY <1>0 DEF Right
<1>2. p.at = i /\ p.offset = Len(z) /\ p.inside = TRUE
  <2>1. TRUE \in BOOLEAN
    OBVIOUS
  <2> QED
    BY <1>0, <1>1, <2>1, UpsMarkIs
<1>3. p # l
  BY <1>2 DEF UpsWhole
<1> HIDE DEF p
<1>4. PICK q \in R : UpsStep(s, t, x, p, q)
  BY <1>0, <1>3 DEF UpsWhole, UpsPath, p
<1>5. At(x, i) = d /\ q = UpsMark(i + 1, Len(z) + 1, d # 0)
  BY <1>2, <1>4 DEF UpsStep
<1>6. Xor[d][At(g, Len(z))] = At(w, Len(z))
  <2>1. Xor[d][At(s, Len(z))] = At(t, Len(z)) /\ Xor[d][At(t, Len(z))] = At(s, Len(z))
    BY <1>0, <1>1, DiffIs
  <2> HIDE DEF d
  <2> QED
    BY <1>0, <2>1 DEF Sides
<1>7. At(w, Len(z)) \in Nat
  BY <1>0, <1>1, AtIs
<1>8. y = Append(z, At(w, Len(z)))
  BY <1>5, <1>6
<1>9. Right(y, w) /\ Len(y) = Len(z) + 1
  BY <1>0, <1>7, <1>8, RightAppend
<1> QED
  BY <1>4, <1>5, <1>9

\* At the end of the patch, what is left is the same on both sides.
Fills(z, g, w) == \A k \in 1..Len(w) : w[k] = IF k <= Len(z) THEN z[k] ELSE At(g, k - 1)
LEMMA UpsFills ==
  ASSUME NEW s, NEW t, NEW g, NEW w, NEW x, NEW R, NEW l, NEW i, NEW z,
         UpsAt(s, t, g, w, x, R, l, i, z, FALSE), i >= Len(x)
  PROVE  Fills(z, g, w)
<1> SUFFICES ASSUME NEW k \in 1..Len(w) PROVE w[k] = IF k <= Len(z) THEN z[k] ELSE At(g, k - 1)
  BY DEF Fills
<1>0. /\ s \in Seq(Nat) /\ t \in Seq(Nat) /\ g \in Seq(Nat) /\ w \in Seq(Nat) /\ Sides(g, w, s, t)
      /\ x \in Seq(Nat) /\ i \in Nat /\ Right(z, w) /\ UpsMark(i, Len(z), FALSE) \in R
  BY DEF UpsAt
<1> PICK h : UpsWhole(s, t, x, h, R, l)
  BY DEF UpsAt
<1> DEFINE p == UpsMark(i, Len(z), FALSE)
<1>1. z \in Seq(Nat) /\ Len(z) \in Nat /\ \A m \in 1..Len(z) : z[m] = At(w, m - 1)
  BY <1>0 DEF Right
<1>2. p.at = i /\ p.offset = Len(z) /\ p.inside = FALSE
  <2>1. FALSE \in BOOLEAN
    OBVIOUS
  <2> QED
    BY <1>0, <1>1, <2>1, UpsMarkIs
<1> HIDE DEF p
<1>3. p = l
  <2> SUFFICES ASSUME p # l PROVE FALSE
    OBVIOUS
  <2>1. PICK q \in R : UpsStep(s, t, x, p, q)
    BY <1>0 DEF UpsWhole, UpsPath, p
  <2>2. PICK n \in Nat : Holds(x, p.at, Enc(n))
    BY <1>2, <2>1 DEF UpsStep
  <2>3. i + Len(Enc(n)) <= Len(x)
    BY <1>2, <2>2 DEF Holds
  <2>4. Len(Enc(n)) >= 1 /\ Len(Enc(n)) \in Nat
    BY EncodeIs
  <2> QED
    BY <1>0, <2>3, <2>4
<1>4. \A j \in Nat : Len(z) <= j => At(s, j) = At(t, j)
  BY <1>2, <1>3 DEF UpsWhole
<1>5. At(w, k - 1) = w[k]
  <2>1. k - 1 < Len(w) /\ (k - 1) + 1 = k
    OBVIOUS
  <2> QED
    BY <2>1 DEF At
<1>6. CASE k <= Len(z)
  BY <1>1, <1>5, <1>6
<1>7. CASE ~(k <= Len(z))
  <2>1. k - 1 \in Nat /\ Len(z) <= k - 1
    BY <1>1, <1>7
  <2>2. At(s, k - 1) = At(t, k - 1)
    BY <1>4, <2>1
  <2>3. At(g, k - 1) = At(w, k - 1)
    BY <1>0, <2>2 DEF Sides
  <2> QED
    BY <1>5, <1>7, <2>3
<1> QED
  BY <1>6, <1>7

-----------------------------------------------------------------------------
\* A command's number gives its mode and its length.
LEMMA CommandIs ==
  ASSUME NEW mode \in 0..3, NEW n \in Nat, n > 0
  PROVE  /\ mode + 4 * (n - 1) \in Nat
         /\ (mode + 4 * (n - 1)) % 4 = mode /\ (mode + 4 * (n - 1)) \div 4 + 1 = n
  OBVIOUS

-----------------------------------------------------------------------------
\* Numbers that the shifts leave whole, of a command and of an offset.
CodeFits(mode, n) == mode + 4 * (n - 1) < PatchWord
SignFits(d) == 2 * Signed(d) < PatchWord

\* An unsigned keeps them, and so does a signed.
LEMMA NarrowIs ==
  ASSUME NEW m \in Nat, m < PatchWord
  PROVE  Narrow(m) = m /\ (2 * m < PatchWord => AsSigned(m) = m)
<1>1. PatchWord \in Nat \ {0}
  BY PatchAssumption
<1>2. m % PatchWord = m
  BY <1>1
<1>3. Narrow(m) = m
  BY <1>2 DEF Narrow
<1> QED
  BY <1>3 DEF AsSigned

\* Commands and offsets between files that are short enough.
LEMMA CodeFit ==
  ASSUME NEW mode \in 0..3, NEW n \in Nat \ {0}, NEW z \in Nat, n <= z, 4 * z + 2 < PatchWord
  PROVE  CodeFits(mode, n) /\ Command(mode, n) = Enc(mode + 4 * (n - 1))
<1>1. PatchWord \in Nat
  BY PatchAssumption
<1>2. mode + 4 * (n - 1) \in Nat /\ mode + 4 * (n - 1) < PatchWord
  BY <1>1
<1> QED
  BY <1>2, NarrowIs DEF CodeFits, Command, Enc

LEMMA SignFit ==
  ASSUME NEW d \in Int, NEW z \in Nat, -z <= d, d <= z, 4 * z + 2 < PatchWord
  PROVE  SignFits(d) /\ Offset(d) = Enc(Signed(d)) /\ Narrow(Signed(d)) = Signed(d)
<1>1. PatchWord \in Nat
  BY PatchAssumption
<1>2. Signed(d) \in Nat
  BY DEF Signed
<1>3. 2 * Signed(d) <= 4 * z + 2
  BY DEF Signed
<1>4. 2 * Signed(d) < PatchWord /\ Signed(d) < PatchWord
  BY <1>1, <1>2, <1>3
<1>5. Narrow(Signed(d)) = Signed(d)
  BY <1>2, <1>4, NarrowIs
<1> QED
  BY <1>4, <1>5 DEF SignFits, Offset, Enc

-----------------------------------------------------------------------------
\* A mark is where bpspatch::apply is in the patch, how much it has written then,
\* and where the last copies ended.
BpsMark(i, o, a, b) == [at |-> i, offset |-> o, source |-> a, target |-> b]
BpsMarks == [at : Nat, offset : Nat, source : Nat, target : Nat]

\* n bytes of a command are still to write, and with them the reader comes to q.
Carries(s, t, x, q, mode, i, o, a, b, n) ==
    \/ /\ mode = SourceRead /\ q = BpsMark(i, o + n, a, b)
       /\ \A k \in 0..n - 1 : At(s, o + k) = At(t, o + k)
    \/ /\ mode = TargetRead /\ q = BpsMark(i + n, o + n, a, b) /\ i + n <= Len(x)
       /\ \A k \in 0..n - 1 : At(x, i + k) = At(t, o + k)
    \/ /\ mode = SourceCopy /\ q = BpsMark(i, o + n, a + n, b)
       /\ \A k \in 0..n - 1 : At(s, a + k) = At(t, o + k)
    \/ /\ mode = TargetCopy /\ q = BpsMark(i, o + n, a, b + n) /\ b < o
       /\ \A k \in 0..n - 1 : At(t, b + k) = At(t, o + k)

\* A command that has no offset, and one that has: where the copy is from, less
\* where the last one of the kind ended.
Code(mode, n) == Enc(mode + 4 * (n - 1))
Reads(s, t, x, p, q, mode, n) ==
    /\ mode \in {SourceRead, TargetRead}
    /\ Holds(x, p.at, Code(mode, n))
    /\ Carries(s, t, x, q, mode, p.at + Len(Code(mode, n)), p.offset, p.source, p.target, n)
Copies(s, t, x, p, q, mode, n, d) ==
    LET c == p.at + Len(Code(mode, n))
        a == IF mode = SourceCopy THEN p.source + d ELSE p.source
        b == IF mode = TargetCopy THEN p.target + d ELSE p.target
    IN  /\ mode \in {SourceCopy, TargetCopy}
        /\ Holds(x, p.at, Code(mode, n)) /\ Holds(x, c, Enc(Signed(d)))
        /\ a \in Nat /\ b \in Nat
        /\ Carries(s, t, x, q, mode, c + Len(Enc(Signed(d))), p.offset, a, b, n)
BpsStep(s, t, x, p, q) ==
    \E mode \in 0..3, n \in Nat \ {0} :
        /\ CodeFits(mode, n)
        /\ \/ Reads(s, t, x, p, q, mode, n)
           \/ \E d \in Int : SignFits(d) /\ Copies(s, t, x, p, q, mode, n, d)

\* The marks of a patch x, from its header on to the last one, l.
BpsPath(s, t, x, h, R, l) ==
    /\ R \subseteq BpsMarks /\ l \in R /\ BpsMark(h, 0, 0, 0) \in R
    /\ \A p \in R : p = l \/ \E q \in R : BpsStep(s, t, x, p, q)

\* There are marks to the end of what is made, which is the product up to r; and
\* of what is made altogether.
BpsMakes(s, t, x, h, r, a, b) == \E R : BpsPath(s, t, x, h, R, BpsMark(Len(x), r, a, b))
BpsWhole(s, t, x, h, R, l) == BpsPath(s, t, x, h, R, l) /\ l.at = Len(x) /\ l.offset = Len(t)

\* The fields of a mark.
LEMMA BpsMarkIs ==
  ASSUME NEW i \in Nat, NEW o \in Nat, NEW a \in Nat, NEW b \in Nat
  PROVE  /\ BpsMark(i, o, a, b) \in BpsMarks
         /\ BpsMark(i, o, a, b).at = i /\ BpsMark(i, o, a, b).offset = o
         /\ BpsMark(i, o, a, b).source = a /\ BpsMark(i, o, a, b).target = b
  BY DEF BpsMark, BpsMarks

\* What a command is to write stays what it is when the patch grows.
LEMMA CarriesGrows ==
  ASSUME NEW s, NEW t, NEW x \in Seq(Nat), NEW y \in Seq(Nat), Grows(x, y), NEW q, NEW mode,
         NEW i \in Nat, NEW o, NEW a, NEW b, NEW n \in Nat, Carries(s, t, x, q, mode, i, o, a, b, n)
  PROVE  Carries(s, t, y, q, mode, i, o, a, b, n)
<1>1. CASE mode # TargetRead
  BY <1>1 DEF Carries
<1>2. CASE mode = TargetRead
  <2>1. q = BpsMark(i + n, o + n, a, b) /\ i + n <= Len(x)
        /\ \A k \in 0..n - 1 : At(x, i + k) = At(t, o + k)
    BY <1>2 DEF Carries, TargetRead, SourceRead, SourceCopy, TargetCopy
  <2>2. Len(x) \in Nat /\ Len(y) \in Nat /\ Len(x) <= Len(y)
    BY DEF Grows
  <2>3. i + n <= Len(y)
    BY <2>1, <2>2
  <2>4. ASSUME NEW k \in 0..n - 1 PROVE At(y, i + k) = At(t, o + k)
    <3>1. i + k \in Nat /\ i + k < Len(x)
      BY <2>1, <2>2
    <3> QED
      BY <2>1, <3>1, AtGrows
  <2> QED
    BY <1>2, <2>1, <2>3, <2>4 DEF Carries
<1> QED
  BY <1>1, <1>2

\* A command takes a byte or more.
LEMMA CodeIs ==
  ASSUME NEW mode \in 0..3, NEW n \in Nat \ {0}
  PROVE  Code(mode, n) \in Seq(Nat) /\ Len(Code(mode, n)) \in Nat /\ Len(Code(mode, n)) >= 1
<1>1. mode + 4 * (n - 1) \in Nat
  BY CommandIs
<1> QED
  BY <1>1, EncodeIs DEF Code

\* A step stays one when the patch grows.
LEMMA BpsStepGrows ==
  ASSUME NEW s, NEW t, NEW x \in Seq(Nat), NEW y \in Seq(Nat), Grows(x, y),
         NEW p \in BpsMarks, NEW q, BpsStep(s, t, x, p, q)
  PROVE  BpsStep(s, t, y, p, q)
<1>1. p.at \in Nat
  BY DEF BpsMarks
<1>2. PICK mode \in 0..3, n \in Nat \ {0} :
        /\ CodeFits(mode, n)
        /\ \/ Reads(s, t, x, p, q, mode, n)
           \/ \E d \in Int : SignFits(d) /\ Copies(s, t, x, p, q, mode, n, d)
  BY DEF BpsStep
<1> DEFINE e == Code(mode, n)
           c == p.at + Len(e)
<1>3. e \in Seq(Nat) /\ c \in Nat
  <2>1. e \in Seq(Nat) /\ Len(e) \in Nat
    BY CodeIs
  <2> HIDE DEF e
  <2> QED
    BY <1>1, <2>1
<1> HIDE DEF e, c
<1>4. ASSUME Reads(s, t, x, p, q, mode, n) PROVE Reads(s, t, y, p, q, mode, n)
  <2>1. Holds(x, p.at, e) /\ Carries(s, t, x, q, mode, c, p.offset, p.source, p.target, n)
    BY <1>4 DEF Reads, e, c
  <2>2. Holds(y, p.at, e) /\ Carries(s, t, y, q, mode, c, p.offset, p.source, p.target, n)
    BY <1>1, <1>3, <2>1, HoldsGrows, CarriesGrows
  <2> QED
    BY <1>4, <2>2 DEF Reads, e, c
<1>5. ASSUME NEW d \in Int, Copies(s, t, x, p, q, mode, n, d) PROVE Copies(s, t, y, p, q, mode, n, d)
  <2> DEFINE a == IF mode = SourceCopy THEN p.source + d ELSE p.source
             b == IF mode = TargetCopy THEN p.target + d ELSE p.target
             f == Enc(Signed(d))
  <2>1. f \in Seq(Nat) /\ Len(f) \in Nat
    BY SignKept, EncodeIs
  <2>2. Holds(x, p.at, e) /\ Holds(x, c, f) /\ Carries(s, t, x, q, mode, c + Len(f), p.offset, a, b, n)
    BY <1>5 DEF Copies, e, c
  <2> HIDE DEF a, b, f
  <2>3. c + Len(f) \in Nat
    BY <1>3, <2>1
  <2>4. Holds(y, p.at, e) /\ Holds(y, c, f) /\ Carries(s, t, y, q, mode, c + Len(f), p.offset, a, b, n)
    BY <1>1, <1>3, <2>1, <2>2, <2>3, HoldsGrows, CarriesGrows
  <2> QED
    BY <1>5, <2>4 DEF Copies, e, c, a, b, f
<1> QED
  BY <1>2, <1>4, <1>5 DEF BpsStep

\* The path grows by a step at its end.
LEMMA BpsPathGrows ==
  ASSUME NEW s, NEW t, NEW x \in Seq(Nat), NEW y \in Seq(Nat), Grows(x, y), NEW h, NEW R, NEW l,
         BpsPath(s, t, x, h, R, l), NEW m \in BpsMarks, BpsStep(s, t, y, l, m)
  PROVE  BpsPath(s, t, y, h, R \union {m}, m)
<1> DEFINE Q == R \union {m}
<1>1. Q \subseteq BpsMarks /\ m \in Q /\ BpsMark(h, 0, 0, 0) \in Q
  BY DEF BpsPath
<1>2. ASSUME NEW p \in Q, p # m PROVE \E q \in Q : BpsStep(s, t, y, p, q)
  <2>1. p \in R /\ p \in BpsMarks
    BY <1>2 DEF BpsPath
  <2>2. CASE p = l
    BY <2>2
  <2>3. CASE p # l
    <3>1. PICK q \in R : BpsStep(s, t, x, p, q)
      BY <2>1, <2>3 DEF BpsPath
    <3>2. BpsStep(s, t, y, p, q)
      BY <2>1, <3>1, BpsStepGrows
    <3> QED
      BY <3>2
  <2> QED
    BY <2>2, <2>3
<1> HIDE DEF Q
<1>3. BpsPath(s, t, y, h, Q, m)
  BY <1>1, <1>2 DEF BpsPath
<1> QED
  BY <1>3 DEF Q

\* The patch of nothing but the header.
LEMMA BpsStarts ==
  ASSUME NEW s, NEW t, NEW x \in Seq(Nat)
  PROVE  BpsMakes(s, t, x, Len(x), 0, 0, 0)
<1> DEFINE l == BpsMark(Len(x), 0, 0, 0)
<1>1. l \in BpsMarks
  <2>1. Len(x) \in Nat /\ 0 \in Nat
    OBVIOUS
  <2> QED
    BY <2>1, BpsMarkIs
<1> HIDE DEF l
<1>2. BpsPath(s, t, x, Len(x), {l}, l)
  BY <1>1 DEF BpsPath, l
<1> QED
  BY <1>2 DEF BpsMakes, l

\* A command is added, and its bytes with it.
LEMMA ReadMakes ==
  ASSUME NEW s, NEW t, NEW x \in Seq(Nat), NEW h, NEW o \in Nat, NEW a \in Nat, NEW b \in Nat,
         BpsMakes(s, t, x, h, o, a, b), NEW n \in Nat \ {0}, CodeFits(SourceRead, n),
         \A k \in 0..n - 1 : At(s, o + k) = At(t, o + k)
  PROVE  /\ x \o Code(SourceRead, n) \in Seq(Nat) /\ Grows(x, x \o Code(SourceRead, n))
         /\ BpsMakes(s, t, x \o Code(SourceRead, n), h, o + n, a, b)
<1> DEFINE e == Code(SourceRead, n)
           y == x \o e
           l == BpsMark(Len(x), o, a, b)
           m == BpsMark(Len(y), o + n, a, b)
<1>0. SourceRead \in 0..3 /\ SourceRead \in {SourceRead, TargetRead}
  BY DEF SourceRead
<1>1. e \in Seq(Nat)
  BY <1>0, CodeIs
<1> HIDE DEF e
<1>2. y \in Seq(Nat) /\ Len(y) = Len(x) + Len(e) /\ Grows(x, y) /\ Holds(y, Len(x), e)
  BY <1>1, CatIs
<1> HIDE DEF y
<1>3. m \in BpsMarks /\ l.at = Len(x) /\ l.offset = o /\ l.source = a /\ l.target = b
  <2>1. Len(x) \in Nat /\ Len(y) \in Nat /\ o + n \in Nat
    BY <1>2
  <2>2. m \in BpsMarks
    BY <2>1, BpsMarkIs
  <2>3. l.at = Len(x) /\ l.offset = o /\ l.source = a /\ l.target = b
    BY DEF BpsMark
  <2> QED
    BY <2>2, <2>3
<1>4. Carries(s, t, y, m, SourceRead, l.at + Len(e), l.offset, l.source, l.target, n)
  <2>1. l.at + Len(e) = Len(y)
    BY <1>2, <1>3
  <2> QED
    BY <1>3, <2>1 DEF Carries
<1>5. PICK R : BpsPath(s, t, x, h, R, l)
  BY DEF BpsMakes
<1> HIDE DEF l, m
<1>6. Reads(s, t, y, l, m, SourceRead, n)
  BY <1>0, <1>2, <1>3, <1>4 DEF Reads, e
<1>7. BpsStep(s, t, y, l, m)
  BY <1>0, <1>6 DEF BpsStep
<1>8. BpsPath(s, t, y, h, R \union {m}, m)
  BY <1>2, <1>3, <1>5, <1>7, BpsPathGrows
<1> QED
  BY <1>2, <1>8 DEF BpsMakes, y, e, m

\* After a flush the marks reach as far as the product was looked at.
LEMMA FlushMakes ==
  ASSUME NEW s, NEW t \in Seq(Nat), NEW x \in Seq(Nat), NEW h, NEW o \in Nat, NEW a \in Nat, NEW b \in Nat,
         BpsMakes(s, t, x, h, o, a, b), NEW n \in Nat \ {0}, o + n <= Len(t),
         CodeFits(TargetRead, n)
  PROVE  /\ x \o (Code(TargetRead, n) \o SubSeq(t, o + 1, o + n)) \in Seq(Nat)
         /\ Grows(x, x \o (Code(TargetRead, n) \o SubSeq(t, o + 1, o + n)))
         /\ BpsMakes(s, t, x \o (Code(TargetRead, n) \o SubSeq(t, o + 1, o + n)), h, o + n, a, b)
<1> DEFINE e == Code(TargetRead, n)
           f == SubSeq(t, o + 1, o + n)
           y == x \o (e \o f)
           l == BpsMark(Len(x), o, a, b)
           m == BpsMark(Len(y), o + n, a, b)
<1>0. TargetRead \in 0..3 /\ TargetRead \in {SourceRead, TargetRead}
  BY DEF TargetRead
<1>1. e \in Seq(Nat) /\ Len(e) \in Nat
  BY <1>0, CodeIs
<1>9. f \in Seq(Nat) /\ Len(f) = n /\ \A k \in 1..n : f[k] = t[o + k]
  OBVIOUS
<1> HIDE DEF e, f
<1>2. /\ y \in Seq(Nat) /\ Len(y) = Len(x) + Len(e) + n /\ Grows(x, y)
      /\ Holds(y, Len(x), e) /\ Holds(y, Len(x) + Len(e), f)
  <2> DEFINE g == e \o f
  <2>0. e \in Seq(Nat) /\ f \in Seq(Nat) /\ Len(f) = n
    BY <1>1, <1>9
  <2>1. g \in Seq(Nat) /\ Len(g) = Len(e) + n
    BY <2>0, CatIs
  <2> HIDE DEF g
  <2>2. y \in Seq(Nat) /\ Len(y) = Len(x) + Len(g) /\ Grows(x, y) /\ Holds(y, Len(x), g)
    BY <2>1, CatIs DEF g
  <2>3. Holds(y, Len(x), e \o f) /\ Len(x) \in Nat
    BY <2>2 DEF g
  <2> HIDE DEF y
  <2>4. Holds(y, Len(x), e) /\ Holds(y, Len(x) + Len(e), f)
    BY <1>1, <1>9, <2>2, <2>3, HoldsCat
  <2> QED
    BY <1>1, <2>1, <2>2, <2>4
<1> HIDE DEF y
<1>3. m \in BpsMarks /\ l.at = Len(x) /\ l.offset = o /\ l.source = a /\ l.target = b
  <2>1. Len(x) \in Nat /\ Len(y) \in Nat /\ o + n \in Nat
    BY <1>2
  <2>2. m \in BpsMarks
    BY <2>1, BpsMarkIs
  <2>3. l.at = Len(x) /\ l.offset = o /\ l.source = a /\ l.target = b
    BY DEF BpsMark
  <2> QED
    BY <2>2, <2>3
<1>4. Carries(s, t, y, m, TargetRead, l.at + Len(e), l.offset, l.source, l.target, n)
  <2> DEFINE c == Len(x) + Len(e)
  <2>1. l.at + Len(e) = c /\ c \in Nat /\ c + n = Len(y) /\ Len(y) \in Nat
    BY <1>1, <1>2, <1>3
  <2>2. Holds(y, c, f)
    BY <1>2
  <2> HIDE DEF c
  <2>3. ASSUME NEW k \in 0..n - 1 PROVE At(y, c + k) = At(t, o + k)
    <3>1. k + 1 \in 1..n /\ o + k \in Nat /\ o + k < Len(t) /\ (o + k) + 1 = o + (k + 1)
      OBVIOUS
    <3>2. At(y, c + k) = f[k + 1]
      BY <1>2, <1>9, <2>1, <2>2, HoldsAt
    <3>3. At(t, o + k) = t[o + (k + 1)]
      BY <3>1, AtIs
    <3> QED
      BY <1>9, <3>1, <3>2, <3>3
  <2>4. c + n <= Len(y) /\ m = BpsMark(c + n, o + n, a, b)
    <3>1. c + n = Len(y) /\ Len(y) \in Nat
      BY <2>1
    <3>2. c + n <= Len(y)
      BY <3>1
    <3> QED
      BY <3>1, <3>2
  <2> HIDE DEF m
  <2> QED
    BY <1>3, <2>1, <2>3, <2>4 DEF Carries
<1>5. PICK R : BpsPath(s, t, x, h, R, l)
  BY DEF BpsMakes
<1> HIDE DEF l, m
<1>6. Reads(s, t, y, l, m, TargetRead, n)
  BY <1>0, <1>2, <1>3, <1>4 DEF Reads, e
<1>7. BpsStep(s, t, y, l, m)
  BY <1>0, <1>6 DEF BpsStep
<1>8. BpsPath(s, t, y, h, R \union {m}, m)
  BY <1>2, <1>3, <1>5, <1>7, BpsPathGrows
<1> QED
  BY <1>2, <1>8 DEF BpsMakes, y, e, f, m

\* A copy of n bytes is from a2 of the source or b2 of the product, d behind
\* where the last of its kind ended.
CopyFits(s, t, mode, o, a, b, a2, b2, d, n) ==
    \/ /\ mode = SourceCopy /\ d = a2 - a /\ b2 = b
       /\ \A k \in 0..n - 1 : At(s, a2 + k) = At(t, o + k)
    \/ /\ mode = TargetCopy /\ d = b2 - b /\ a2 = a /\ b2 < o
       /\ \A k \in 0..n - 1 : At(t, b2 + k) = At(t, o + k)

\* After a copy, or a command to read what is in the same place of the source.
LEMMA CopyMakes ==
  ASSUME NEW s, NEW t, NEW x \in Seq(Nat), NEW h, NEW o \in Nat, NEW a \in Nat, NEW b \in Nat,
         BpsMakes(s, t, x, h, o, a, b), NEW n \in Nat \ {0}, NEW mode \in {SourceCopy, TargetCopy},
         CodeFits(mode, n), NEW a2 \in Nat, NEW b2 \in Nat, NEW d \in Int, CopyFits(s, t, mode, o, a, b, a2, b2, d, n),
         SignFits(d)
  PROVE  /\ x \o (Code(mode, n) \o Enc(Signed(d))) \in Seq(Nat)
         /\ Grows(x, x \o (Code(mode, n) \o Enc(Signed(d))))
         /\ BpsMakes(s, t, x \o (Code(mode, n) \o Enc(Signed(d))), h, o + n,
                     IF mode = SourceCopy THEN a2 + n ELSE a, IF mode = TargetCopy THEN b2 + n ELSE b)
<1> DEFINE e == Code(mode, n)
           f == Enc(Signed(d))
           y == x \o (e \o f)
           u == IF mode = SourceCopy THEN a2 + n ELSE a
           v == IF mode = TargetCopy THEN b2 + n ELSE b
           l == BpsMark(Len(x), o, a, b)
           m == BpsMark(Len(y), o + n, u, v)
<1>11. \/ /\ mode = SourceCopy /\ d = a2 - a /\ b2 = b
          /\ \A k \in 0..n - 1 : At(s, a2 + k) = At(t, o + k)
       \/ /\ mode = TargetCopy /\ d = b2 - b /\ a2 = a /\ b2 < o
          /\ \A k \in 0..n - 1 : At(t, b2 + k) = At(t, o + k)
  BY DEF CopyFits
<1>0. mode \in 0..3 /\ SourceCopy # TargetCopy
  BY DEF SourceCopy, TargetCopy
<1>1. e \in Seq(Nat) /\ Len(e) \in Nat
  BY <1>0, CodeIs
<1>9. f \in Seq(Nat) /\ Len(f) \in Nat
  BY SignKept, EncodeIs
<1> HIDE DEF e, f
<1>2. /\ y \in Seq(Nat) /\ Len(y) = Len(x) + Len(e) + Len(f) /\ Grows(x, y)
      /\ Holds(y, Len(x), e) /\ Holds(y, Len(x) + Len(e), f)
  <2> DEFINE g == e \o f
  <2>1. g \in Seq(Nat) /\ Len(g) = Len(e) + Len(f)
    BY <1>1, <1>9
  <2> HIDE DEF g
  <2>2. y \in Seq(Nat) /\ Len(y) = Len(x) + Len(g) /\ Grows(x, y) /\ Holds(y, Len(x), g)
    BY <2>1, CatIs DEF g
  <2>3. Holds(y, Len(x), e \o f) /\ Len(x) \in Nat
    BY <2>2 DEF g
  <2> HIDE DEF y
  <2>4. Holds(y, Len(x), e) /\ Holds(y, Len(x) + Len(e), f)
    BY <1>1, <1>9, <2>2, <2>3, HoldsCat
  <2> QED
    BY <1>1, <1>9, <2>1, <2>2, <2>4
<1> HIDE DEF y
<1>3. m \in BpsMarks /\ l.at = Len(x) /\ l.offset = o /\ l.source = a /\ l.target = b
  <2>1. Len(x) \in Nat /\ Len(y) \in Nat /\ o + n \in Nat /\ u \in Nat /\ v \in Nat
    BY <1>2
  <2> HIDE DEF u, v
  <2>2. m \in BpsMarks
    BY <2>1, BpsMarkIs
  <2>3. l.at = Len(x) /\ l.offset = o /\ l.source = a /\ l.target = b
    BY DEF BpsMark
  <2> QED
    BY <2>2, <2>3
<1>4. /\ Carries(s, t, y, m, mode, (l.at + Len(e)) + Len(f), l.offset, a2, b2, n)
      /\ Holds(y, l.at + Len(e), f)
  <2>1. (l.at + Len(e)) + Len(f) = Len(y) /\ l.at + Len(e) = Len(x) + Len(e)
    BY <1>1, <1>2, <1>3, <1>9
  <2>2. mode = SourceCopy => u = a2 + n /\ v = b2
    BY <1>0, <1>11
  <2>3. mode = TargetCopy => u = a2 /\ v = b2 + n
    BY <1>0, <1>11
  <2> HIDE DEF l, u, v
  <2>4. Carries(s, t, y, m, mode, Len(y), o, a2, b2, n)
    <3>1. CASE mode = SourceCopy
      BY <1>0, <1>11, <2>2, <3>1 DEF Carries
    <3>2. CASE mode = TargetCopy
      BY <1>0, <1>11, <2>3, <3>2 DEF Carries
    <3> QED
      BY <3>1, <3>2
  <2> QED
    BY <1>2, <1>3, <2>1, <2>4
<1>5. PICK R : BpsPath(s, t, x, h, R, l)
  BY DEF BpsMakes
<1>10. /\ a2 = IF mode = SourceCopy THEN l.source + d ELSE l.source
       /\ b2 = IF mode = TargetCopy THEN l.target + d ELSE l.target
  <2>1. l.source = a /\ l.target = b
    BY <1>3
  <2> HIDE DEF l, m
  <2>2. CASE mode = SourceCopy
    BY <1>0, <1>11, <2>1, <2>2
  <2>3. CASE mode = TargetCopy
    BY <1>0, <1>11, <2>1, <2>3
  <2> QED
    BY <2>2, <2>3
<1> HIDE DEF l, m
<1>6. Copies(s, t, y, l, m, mode, n, d)
  BY <1>2, <1>3, <1>4, <1>10 DEF Copies, e, f
<1>7. BpsStep(s, t, y, l, m)
  BY <1>0, <1>6 DEF BpsStep
<1>8. BpsPath(s, t, y, h, R \union {m}, m)
  BY <1>2, <1>3, <1>5, <1>7, BpsPathGrows
<1> QED
  BY <1>2, <1>8 DEF BpsMakes, y, e, f, m, u, v

-----------------------------------------------------------------------------
\* A command whose bytes are all written leaves the reader at its mark.
LEMMA CarriesDone ==
  ASSUME NEW s, NEW t, NEW x, NEW q, NEW mode, NEW i \in Nat, NEW o \in Nat, NEW a \in Nat, NEW b \in Nat,
         Carries(s, t, x, q, mode, i, o, a, b, 0)
  PROVE  q = BpsMark(i, o, a, b)
<1>1. i + 0 = i /\ o + 0 = o /\ a + 0 = a /\ b + 0 = b
  OBVIOUS
<1> QED
  BY <1>1 DEF Carries

\* A command of any mode whose bytes are none is at its mark.
LEMMA CarriesNone ==
  ASSUME NEW s, NEW t, NEW x, NEW i \in Nat, NEW o \in Nat, NEW a \in Nat, NEW b \in Nat
  PROVE  Carries(s, t, x, BpsMark(i, o, a, b), SourceRead, i, o, a, b, 0)
<1>1. o + 0 = o /\ 0..0 - 1 = {}
  OBVIOUS
<1> QED
  BY <1>1 DEF Carries

\* The next command is that of the step.
LEMMA CommandReads ==
  ASSUME NEW s, NEW t, NEW x \in Seq(Nat), NEW p \in BpsMarks, NEW q, BpsStep(s, t, x, p, q),
         NEW code, code = Number(x, p.at), NEW offset, offset = Number(x, code.next),
         NEW number, number = Narrow(code.number), NEW distance, distance = Unsigned(AsSigned(offset.number))
  PROVE  /\ code.next \in Nat /\ number % 4 \in 0..3 /\ number \div 4 + 1 \in Nat
         /\ number % 4 \in {SourceRead, TargetRead} =>
                Carries(s, t, x, q, number % 4, code.next, p.offset, p.source, p.target,
                        number \div 4 + 1)
         /\ number % 4 = SourceCopy =>
                /\ offset.next \in Nat /\ p.source + distance \in Nat
                /\ Carries(s, t, x, q, SourceCopy, offset.next, p.offset,
                           p.source + distance, p.target, number \div 4 + 1)
         /\ number % 4 = TargetCopy =>
                /\ offset.next \in Nat /\ p.target + distance \in Nat
                /\ Carries(s, t, x, q, TargetCopy, offset.next, p.offset,
                           p.source, p.target + distance, number \div 4 + 1)
<1>1. p.at \in Nat /\ p.source \in Nat /\ p.target \in Nat
  BY DEF BpsMarks
<1>2. PICK mode \in 0..3, n \in Nat \ {0} :
        /\ CodeFits(mode, n)
        /\ \/ Reads(s, t, x, p, q, mode, n)
           \/ \E d \in Int : SignFits(d) /\ Copies(s, t, x, p, q, mode, n, d)
  BY DEF BpsStep
<1> DEFINE m == mode + 4 * (n - 1)
           c == p.at + Len(Enc(m))
<1>3. m \in Nat /\ m % 4 = mode /\ m \div 4 + 1 = n
  BY CommandIs
<1> HIDE DEF m
<1>4. Holds(x, p.at, Enc(m))
  BY <1>2 DEF Reads, Copies, Code, m
<1>5. code = [number |-> m, next |-> c] /\ c \in Nat
  <2>1. Len(Enc(m)) \in Nat
    BY <1>3, EncodeIs
  <2>2. code = [number |-> m, next |-> c]
    BY <1>1, <1>3, <1>4, DecodeFinds
  <2> QED
    BY <1>1, <2>1, <2>2
<1> HIDE DEF c
<1>6. code.number = m /\ code.next = c
  BY <1>5
<1>9. number = m
  <2>1. m < PatchWord
    BY <1>2 DEF CodeFits, m
  <2> QED
    BY <1>3, <1>6, <2>1, NarrowIs
<1>7. mode \in {SourceRead, TargetRead} => Carries(s, t, x, q, mode, c, p.offset, p.source, p.target, n)
  <2> SUFFICES ASSUME mode \in {SourceRead, TargetRead}
               PROVE  Carries(s, t, x, q, mode, c, p.offset, p.source, p.target, n)
    OBVIOUS
  <2>1. mode \notin {SourceCopy, TargetCopy}
    BY DEF SourceRead, TargetRead, SourceCopy, TargetCopy
  <2> QED
    BY <1>2, <2>1 DEF Reads, Copies, Code, c, m
<1>8. ASSUME mode \in {SourceCopy, TargetCopy}
      PROVE  \E d \in Int :
                /\ offset.next \in Nat /\ distance = d
                /\ mode = SourceCopy => p.source + d \in Nat
                        /\ Carries(s, t, x, q, mode, offset.next, p.offset, p.source + d, p.target, n)
                /\ mode = TargetCopy => p.target + d \in Nat
                        /\ Carries(s, t, x, q, mode, offset.next, p.offset, p.source, p.target + d, n)
  <2>0. mode \notin {SourceRead, TargetRead} /\ SourceCopy # TargetCopy
    BY <1>8 DEF SourceRead, TargetRead, SourceCopy, TargetCopy
  <2>1. PICK d \in Int : SignFits(d) /\ Copies(s, t, x, p, q, mode, n, d)
    BY <1>2, <2>0 DEF Reads
  <2> DEFINE f == Enc(Signed(d))
  <2>2. f \in Seq(Nat) /\ Len(f) \in Nat /\ Signed(d) \in Nat /\ Unsigned(Signed(d)) = d
    BY SignKept, EncodeIs
  <2>3. /\ Holds(x, c, f)
        /\ mode = SourceCopy => p.source + d \in Nat
                /\ Carries(s, t, x, q, mode, c + Len(f), p.offset, p.source + d, p.target, n)
        /\ mode = TargetCopy => p.target + d \in Nat
                /\ Carries(s, t, x, q, mode, c + Len(f), p.offset, p.source, p.target + d, n)
    BY <2>0, <2>1 DEF Copies, Code, c, m
  <2>4. offset = [number |-> Signed(d), next |-> c + Len(f)]
    <3>1. offset = Number(x, c)
      BY <1>6
    <3>2. Holds(x, c, Enc(Signed(d)))
      BY <2>3
    <3> HIDE DEF f
    <3> QED
      BY <1>5, <2>2, <3>1, <3>2, DecodeFinds DEF f
  <2>5. offset.next = c + Len(f) /\ offset.number = Signed(d) /\ offset.next \in Nat
    <3> HIDE DEF f
    <3> QED
      BY <1>5, <2>2, <2>4
  <2>6. distance = d
    <3>1. Signed(d) \in Nat /\ 2 * Signed(d) < PatchWord /\ PatchWord \in Nat
      BY <2>1, <2>2, PatchAssumption DEF SignFits
    <3>2. Signed(d) < PatchWord
      BY <3>1
    <3>3. AsSigned(Signed(d)) = Signed(d)
      BY <3>1, <3>2, NarrowIs
    <3> QED
      BY <2>2, <2>5, <3>3
  <2> QED
    BY <2>3, <2>5, <2>6
<1> QED
  BY <1>3, <1>5, <1>6, <1>7, <1>8, <1>9

\* The next byte of a command is that of the product.
LEMMA ByteReads ==
  ASSUME NEW s \in Seq(Nat), NEW t \in Seq(Nat), NEW x \in Seq(Nat), NEW q, NEW mode,
         NEW i \in Nat, NEW a \in Nat, NEW b \in Nat, NEW n \in Nat \ {0}, NEW z, Right(z, t),
         Carries(s, t, x, q, mode, i, Len(z), a, b, n)
  PROVE  /\ mode \in {SourceRead, TargetRead, SourceCopy, TargetCopy}
         /\ mode = SourceRead => /\ Right(Append(z, At(s, Len(z))), t)
                                 /\ Carries(s, t, x, q, mode, i, Len(Append(z, At(s, Len(z)))), a, b, n - 1)
         /\ mode = TargetRead => /\ Right(Append(z, At(x, i)), t)
                                 /\ Carries(s, t, x, q, mode, i + 1, Len(Append(z, At(x, i))), a, b, n - 1)
         /\ mode = SourceCopy => /\ Right(Append(z, At(s, a)), t)
                                 /\ Carries(s, t, x, q, mode, i, Len(Append(z, At(s, a))), a + 1, b, n - 1)
         /\ mode = TargetCopy => /\ Right(Append(z, At(z, b)), t)
                                 /\ Carries(s, t, x, q, mode, i, Len(Append(z, At(z, b))), a, b + 1, n - 1)
<1>1. z \in Seq(Nat) /\ Len(z) \in Nat /\ \A k \in 1..Len(z) : z[k] = At(t, k - 1)
  BY DEF Right
<1> DEFINE o == Len(z)
<1>2. o \in Nat /\ 0 \in 0..n - 1 /\ o + 0 = o /\ i + 0 = i /\ a + 0 = a /\ b + 0 = b
  BY <1>1
<1>3. ASSUME NEW c, c = At(t, o) PROVE Right(Append(z, c), t) /\ Len(Append(z, c)) = o + 1
  <2>1. c \in Nat
    BY <1>1, <1>3, AtIs
  <2> QED
    BY <1>3, <2>1, RightAppend
<1>4. ASSUME NEW k \in 0..(n - 1) - 1, NEW j \in Nat PROVE k + 1 \in 0..n - 1 /\ (j + 1) + k = j + (k + 1)
  OBVIOUS
<1>5. \A j \in Nat : (j + 1) + (n - 1) = j + n
  OBVIOUS
<1> HIDE DEF o
<1>6. Carries(s, t, x, q, mode, i, o, a, b, n)
  BY DEF o
<1>7. ASSUME mode = SourceRead
      PROVE  At(s, o) = At(t, o) /\ Carries(s, t, x, q, mode, i, o + 1, a, b, n - 1)
  <2>1. q = BpsMark(i, o + n, a, b) /\ \A k \in 0..n - 1 : At(s, o + k) = At(t, o + k)
    BY <1>6, <1>7 DEF Carries, SourceRead, TargetRead, SourceCopy, TargetCopy
  <2>2. \A k \in 0..(n - 1) - 1 : At(s, (o + 1) + k) = At(t, (o + 1) + k)
    BY <1>2, <1>4, <2>1
  <2>3. q = BpsMark(i, (o + 1) + (n - 1), a, b)
    BY <1>2, <1>5, <2>1
  <2> QED
    BY <1>2, <1>7, <2>1, <2>2, <2>3 DEF Carries
<1>8. ASSUME mode = TargetRead
      PROVE  At(x, i) = At(t, o) /\ Carries(s, t, x, q, mode, i + 1, o + 1, a, b, n - 1)
  <2>1. q = BpsMark(i + n, o + n, a, b) /\ i + n <= Len(x) /\ \A k \in 0..n - 1 : At(x, i + k) = At(t, o + k)
    BY <1>6, <1>8 DEF Carries, SourceRead, TargetRead, SourceCopy, TargetCopy
  <2>2. \A k \in 0..(n - 1) - 1 : At(x, (i + 1) + k) = At(t, (o + 1) + k)
    BY <1>2, <1>4, <2>1
  <2>3. q = BpsMark((i + 1) + (n - 1), (o + 1) + (n - 1), a, b) /\ (i + 1) + (n - 1) <= Len(x)
    BY <1>2, <1>5, <2>1
  <2> QED
    BY <1>2, <1>8, <2>1, <2>2, <2>3 DEF Carries
<1>9. ASSUME mode = SourceCopy
      PROVE  At(s, a) = At(t, o) /\ Carries(s, t, x, q, mode, i, o + 1, a + 1, b, n - 1)
  <2>1. q = BpsMark(i, o + n, a + n, b) /\ \A k \in 0..n - 1 : At(s, a + k) = At(t, o + k)
    BY <1>6, <1>9 DEF Carries, SourceRead, TargetRead, SourceCopy, TargetCopy
  <2>2. \A k \in 0..(n - 1) - 1 : At(s, (a + 1) + k) = At(t, (o + 1) + k)
    BY <1>2, <1>4, <2>1
  <2>3. q = BpsMark(i, (o + 1) + (n - 1), (a + 1) + (n - 1), b)
    BY <1>2, <1>5, <2>1
  <2> QED
    BY <1>2, <1>9, <2>1, <2>2, <2>3 DEF Carries
<1>10. ASSUME mode = TargetCopy
       PROVE  At(z, b) = At(t, o) /\ Carries(s, t, x, q, mode, i, o + 1, a, b + 1, n - 1)
  <2>1. q = BpsMark(i, o + n, a, b + n) /\ b < o /\ \A k \in 0..n - 1 : At(t, b + k) = At(t, o + k)
    BY <1>6, <1>10 DEF Carries, SourceRead, TargetRead, SourceCopy, TargetCopy
  <2>2. \A k \in 0..(n - 1) - 1 : At(t, (b + 1) + k) = At(t, (o + 1) + k)
    BY <1>2, <1>4, <2>1
  <2>3. q = BpsMark(i, (o + 1) + (n - 1), a, (b + 1) + (n - 1)) /\ b + 1 < o + 1
    BY <1>2, <1>5, <2>1
  <2>4. At(z, b) = At(t, b)
    <3>1. b + 1 \in 1..Len(z) /\ b < Len(z) /\ (b + 1) - 1 = b
      BY <1>1, <2>1 DEF o
    <3>2. z[b + 1] = At(t, (b + 1) - 1)
      BY <1>1, <3>1
    <3> QED
      BY <1>1, <3>1, <3>2, AtIs
  <2> QED
    BY <1>2, <1>10, <2>1, <2>2, <2>3, <2>4 DEF Carries
<1>11. mode \in {SourceRead, TargetRead, SourceCopy, TargetCopy}
  BY <1>6 DEF Carries
<1>12. mode = SourceRead => /\ Right(Append(z, At(s, o)), t)
                            /\ Carries(s, t, x, q, mode, i, Len(Append(z, At(s, o))), a, b, n - 1)
  BY <1>3, <1>7
<1>13. mode = TargetRead => /\ Right(Append(z, At(x, i)), t)
                            /\ Carries(s, t, x, q, mode, i + 1, Len(Append(z, At(x, i))), a, b, n - 1)
  BY <1>3, <1>8
<1>14. mode = SourceCopy => /\ Right(Append(z, At(s, a)), t)
                            /\ Carries(s, t, x, q, mode, i, Len(Append(z, At(s, a))), a + 1, b, n - 1)
  BY <1>3, <1>9
<1>15. mode = TargetCopy => /\ Right(Append(z, At(z, b)), t)
                            /\ Carries(s, t, x, q, mode, i, Len(Append(z, At(z, b))), a, b + 1, n - 1)
  BY <1>3, <1>10
<1> QED
  BY <1>11, <1>12, <1>13, <1>14, <1>15 DEF o

\* At the end of the patch, what has been written is the product.
LEMMA RightWhole ==
  ASSUME NEW z, NEW w \in Seq(Nat), Right(z, w), Len(z) = Len(w)
  PROVE  z = w
<1>1. z \in Seq(Nat) /\ \A k \in 1..Len(z) : z[k] = At(w, k - 1)
  BY DEF Right
<1>2. ASSUME NEW k \in 1..Len(w) PROVE z[k] = w[k]
  <2>1. k - 1 \in Nat /\ k - 1 < Len(w) /\ (k - 1) + 1 = k
    OBVIOUS
  <2>2. At(w, k - 1) = w[k]
    BY <2>1, AtIs
  <2> QED
    BY <1>1, <2>2
<1>3. z \in Seq(Nat)
  BY <1>1
<1> QED
  BY <1>2, <1>3

\* The mark at the end of the patch is the last one.
LEMMA BpsEnds ==
  ASSUME NEW s, NEW t \in Seq(Nat), NEW x \in Seq(Nat), NEW h, NEW R, NEW l, BpsWhole(s, t, x, h, R, l),
         NEW p \in R, p.at >= Len(x)
  PROVE  p = l
<1> SUFFICES ASSUME p # l PROVE FALSE
  OBVIOUS
<1>1. PICK q \in R : BpsStep(s, t, x, p, q)
  BY DEF BpsWhole, BpsPath
<1>2. PICK mode \in 0..3, n \in Nat \ {0} : Holds(x, p.at, Code(mode, n))
  BY <1>1 DEF BpsStep, Reads, Copies
<1>3. p.at \in Nat /\ Len(x) \in Nat
  BY DEF BpsWhole, BpsPath, BpsMarks
<1>4. Len(Code(mode, n)) \in Nat /\ Len(Code(mode, n)) >= 1
  BY CodeIs
<1>5. p.at + Len(Code(mode, n)) <= Len(x)
  BY <1>2 DEF Holds
<1> QED
  BY <1>3, <1>4, <1>5

-----------------------------------------------------------------------------
Files ==
    /\ way \in {"ups", "linear", "delta"} /\ source \in Seq(Nat) /\ product \in Seq(Nat)
    /\ phase \in {"create", "made", "apply", "done"}
    /\ 4 * Len(source) + 2 < PatchWord /\ 4 * Len(product) + 2 < PatchWord
Bodies == body \in Seq(Nat) /\ Holds(body, 0, Header)

\* While the patch is made.
NotRead == output = <<>> /\ action = SourceRead /\ left = 0 /\ outcome = NoOutcome
UpsMaking ==
    /\ outputOffset \in Nat /\ relative \in Nat /\ relative <= outputOffset /\ inside \in BOOLEAN
    /\ inside => UpsMakes(source, product, body, Len(Header), outputOffset, relative, TRUE)
    /\ ~inside => UpsMakes(source, product, body, Len(Header), outputOffset, relative, FALSE)
BpsMaking ==
    /\ outputOffset \in Nat /\ relative \in Nat /\ relative <= outputOffset /\ outputOffset <= Len(product)
    /\ sourceRelative \in 0..Len(source) /\ targetRelative \in 0..Len(product)
    /\ way = "linear" => targetRelative <= outputOffset
    /\ starts \subseteq Nat /\ \A i \in starts : i < outputOffset
    /\ BpsMakes(source, product, body, Len(Header), relative, sourceRelative, targetRelative)

\* When it is made.
UpsMadeWhole == \E R, l : UpsWhole(source, product, body, Len(Header), R, l)
BpsMadeWhole == \E R, l : BpsWhole(source, product, body, Len(Header), R, l)

\* While it is applied.
UpsReading ==
    /\ inside \in BOOLEAN
    /\ \E R, l :
        /\ inside => UpsAt(source, product, Given, Wanted, body, R, l, patchOffset, output, TRUE)
        /\ ~inside => UpsAt(source, product, Given, Wanted, body, R, l, patchOffset, output, FALSE)
BpsReading ==
    /\ patchOffset \in Nat /\ sourceRelative \in Nat /\ targetRelative \in Nat /\ left \in Nat
    /\ Right(output, product)
    /\ \E R, l : /\ BpsWhole(source, product, body, Len(Header), R, l)
                 /\ \E q \in R : Carries(source, product, body, q, action, patchOffset, Len(output),
                                         sourceRelative, targetRelative, left)

Creating == NotRead /\ (way = "ups" => UpsMaking) /\ (way # "ups" => BpsMaking)
Ready == NotRead /\ (way = "ups" => UpsMadeWhole) /\ (way # "ups" => BpsMadeWhole)
Reading ==
    /\ outcome = NoOutcome
    /\ back \in BOOLEAN /\ (back => way = "ups")
    /\ way = "ups" => UpsReading
    /\ way # "ups" => BpsReading

PatchInv ==
    /\ Files /\ Bodies
    /\ phase = "create" => Creating
    /\ phase = "made" => Ready
    /\ phase = "apply" => Reading
    /\ RoundTrip

-----------------------------------------------------------------------------
\* The header, and what is decoded from it.
LEMMA HeaderIs ==
  ASSUME Files
  PROVE  Header \in Seq(Nat) /\ Len(Header) \in Nat
<1>1. Len(source) \in Nat /\ Len(product) \in Nat /\ 0 \in Nat
  BY DEF Files
<1> DEFINE a == Enc(Len(source))
           b == Enc(Len(product))
           c == IF way = "ups" THEN <<>> ELSE Enc(0)
<1>2. a \in Seq(Nat) /\ b \in Seq(Nat) /\ c \in Seq(Nat)
  BY <1>1, EncodeIs
<1>3. Header = a \o b \o c
  BY DEF Header, Enc
<1> HIDE DEF a, b, c
<1>4. Header \in Seq(Nat)
  BY <1>2, <1>3
<1> QED
  BY <1>4

\* The sizes that are read are those of the files, and the header ends where it ended.
LEMMA HeaderRead ==
  ASSUME Files, Bodies
  PROVE  /\ SourceSize.number = Len(source) /\ ProductSize.number = Len(product)
         /\ way = "ups" => ProductSize.next = Len(Header)
         /\ way # "ups" => MarkupSize.next + MarkupSize.number = Len(Header)
<1>1. Len(source) \in Nat /\ Len(product) \in Nat /\ 0 \in Nat /\ body \in Seq(Nat)
  BY DEF Files, Bodies
<1> DEFINE a == Enc(Len(source))
           b == Enc(Len(product))
           c == IF way = "ups" THEN <<>> ELSE Enc(0)
<1>2. a \in Seq(Nat) /\ b \in Seq(Nat) /\ c \in Seq(Nat) /\ Len(a) \in Nat /\ Len(b) \in Nat /\ Len(c) \in Nat
  <2>1. a \in Seq(Nat) /\ b \in Seq(Nat) /\ Enc(0) \in Seq(Nat)
    BY <1>1, EncodeIs
  <2> HIDE DEF a, b
  <2>2. c \in Seq(Nat)
    BY <2>1
  <2> HIDE DEF c
  <2> QED
    BY <2>1, <2>2
<1>3. Header = (a \o b) \o c
  BY DEF Header, Enc
<1>4. Holds(body, 0, (a \o b) \o c)
  BY <1>3 DEF Bodies
<1>c. c = IF way = "ups" THEN <<>> ELSE Enc(0)
  OBVIOUS
<1>a. a = Enc(Len(source)) /\ b = Enc(Len(product))
  OBVIOUS
<1> HIDE DEF a, b, c
<1>5. Holds(body, 0, a) /\ Holds(body, Len(a), b) /\ Holds(body, Len(a) + Len(b), c)
  <2>1. a \o b \in Seq(Nat) /\ Len(a \o b) = Len(a) + Len(b)
    BY <1>2
  <2>2. Holds(body, 0, a \o b) /\ Holds(body, 0 + Len(a \o b), c)
    BY <1>1, <1>2, <1>4, <2>1, HoldsCat
  <2>3. Holds(body, 0, a) /\ Holds(body, 0 + Len(a), b)
    BY <1>1, <1>2, <2>2, HoldsCat
  <2>4. 0 + Len(a \o b) = Len(a) + Len(b) /\ 0 + Len(a) = Len(a)
    BY <1>2, <2>1
  <2> QED
    BY <2>2, <2>3, <2>4
<1>6. SourceSize = [number |-> Len(source), next |-> Len(a)]
  <2>1. Number(body, 0) = [number |-> Len(source), next |-> 0 + Len(a)]
    BY <1>1, <1>5, <1>a, DecodeFinds
  <2>2. 0 + Len(a) = Len(a)
    BY <1>2
  <2> QED
    BY <2>1, <2>2 DEF SourceSize, Number
<1>7. SourceSize.next = Len(a) /\ SourceSize.number = Len(source)
  BY <1>6
<1>8. ProductSize = [number |-> Len(product), next |-> Len(a) + Len(b)]
  <2>1. Number(body, Len(a)) = [number |-> Len(product), next |-> Len(a) + Len(b)]
    BY <1>1, <1>2, <1>5, <1>a, DecodeFinds
  <2> QED
    BY <1>7, <2>1 DEF ProductSize, Number
<1>9. ProductSize.next = Len(a) + Len(b) /\ ProductSize.number = Len(product)
  BY <1>8
<1>10. Len(Header) = Len(a) + Len(b) + Len(c)
  BY <1>2, <1>3
<1>11. ASSUME way = "ups" PROVE ProductSize.next = Len(Header)
  <2>1. Len(c) = 0
    BY <1>11, <1>c
  <2> QED
    BY <1>2, <1>9, <1>10, <2>1
<1>12. ASSUME way # "ups" PROVE MarkupSize.next + MarkupSize.number = Len(Header)
  <2>1. c = Enc(0)
    BY <1>12, <1>c
  <2>2. Len(a) + Len(b) \in Nat
    BY <1>2
  <2>3. Number(body, Len(a) + Len(b)) = [number |-> 0, next |-> Len(a) + Len(b) + Len(c)]
    BY <1>1, <1>5, <2>1, <2>2, DecodeFinds
  <2>4. MarkupSize = [number |-> 0, next |-> Len(a) + Len(b) + Len(c)]
    BY <1>9, <2>3 DEF MarkupSize, Number
  <2>5. MarkupSize.number = 0 /\ MarkupSize.next = Len(a) + Len(b) + Len(c)
    BY <2>4
  <2> QED
    BY <1>2, <1>10, <2>5
<1> QED
  BY <1>7, <1>9, <1>11, <1>12

\* The header stays where it is while the patch grows.
LEMMA BodiesKept ==
  ASSUME Files, Bodies, UNCHANGED filesVars, body' \in Seq(Nat), Grows(body, body')
  PROVE  Header' = Header /\ Bodies'
<1>1. Header' = Header
  BY DEF Header, filesVars
<1>2. Holds(body', 0, Header)
  BY HeaderIs, HoldsGrows DEF Bodies
<1> QED
  BY <1>1, <1>2 DEF Bodies

\* Steps that leave the patch alone.
LEMMA BodyKept ==
  ASSUME Bodies, UNCHANGED filesVars, UNCHANGED body
  PROVE  Header' = Header /\ Bodies'
<1>1. Header' = Header
  BY DEF Header, filesVars
<1> QED
  BY <1>1 DEF Bodies

\* Steps that leave the files alone.
LEMMA FilesKept ==
  ASSUME Files, UNCHANGED filesVars, phase' \in {"create", "made", "apply", "done"}
  PROVE  Files'
  BY DEF Files, filesVars

\* Steps of the maker, which leave the reader's state alone.
LEMMA StillCreating ==
  ASSUME Files', Bodies', phase' = "create", NotRead', way' = "ups" => UpsMaking', way' # "ups" => BpsMaking'
  PROVE  PatchInv'
<1>1. outcome' = NoOutcome
  BY DEF NotRead
<1> QED
  BY <1>1 DEF PatchInv, Creating, RoundTrip, NoOutcome

-----------------------------------------------------------------------------
\* The header alone is a path of one mark.
LEMMA InitInv == PatchInit => PatchInv
<1> SUFFICES ASSUME PatchInit PROVE PatchInv
  OBVIOUS
<1>1. Files
  <2>1. Base \in Nat
    BY BaseIs
  <2>2. ASSUME NEW x \in Seq(0..2 * Base - 1) PROVE x \in Seq(Nat)
    <3>1. \A k \in 1..Len(x) : x[k] \in Nat
      BY <2>1
    <3> QED
      BY <3>1
  <2>3. source \in Seq(0..2 * Base - 1) /\ product \in Seq(0..2 * Base - 1)
    BY PatchAssumption DEF PatchInit
  <2>4. source \in Seq(Nat) /\ product \in Seq(Nat)
    BY <2>2, <2>3
  <2>5. 4 * Len(source) + 2 < PatchWord /\ 4 * Len(product) + 2 < PatchWord
    <3>1. source \in Sources \union Targets /\ product \in Sources \union Targets
      BY DEF PatchInit
    <3> QED
      BY <3>1, PatchAssumption
  <2> QED
    BY <2>4, <2>5 DEF Files, PatchInit
<1>2. Header \in Seq(Nat) /\ Len(Header) \in Nat
  BY <1>1, HeaderIs
<1>3. body = Header
  BY DEF PatchInit
<1>4. Bodies
  <2>1. Holds(Header, 0, Header)
    BY <1>2 DEF Holds
  <2> QED
    BY <1>2, <1>3, <2>1 DEF Bodies
<1>5. NotRead
  BY DEF PatchInit, NotRead
<1>6. UpsMaking
  <2>1. UpsMakes(source, product, body, Len(Header), 0, 0, FALSE)
    BY <1>1, <1>2, <1>3, UpsStarts DEF Files
  <2>2. outputOffset = 0 /\ relative = 0 /\ inside = FALSE
    BY DEF PatchInit
  <2>5. inside \in BOOLEAN
    BY <2>2
  <2>3. outputOffset \in Nat /\ relative \in Nat /\ relative <= outputOffset
    BY <2>2
  <2>4. ~inside /\ UpsMakes(source, product, body, Len(Header), outputOffset, relative, FALSE)
    BY <2>1, <2>2
  <2> QED
    BY <2>3, <2>4, <2>5 DEF UpsMaking
<1>7. BpsMaking
  <2>1. BpsMakes(source, product, body, Len(Header), 0, 0, 0)
    BY <1>2, <1>3, BpsStarts
  <2>2. Len(source) \in Nat /\ Len(product) \in Nat
    BY <1>1 DEF Files
  <2> QED
    BY <2>1, <2>2 DEF BpsMaking, PatchInit
<1>8. phase = "create" /\ outcome = NoOutcome
  BY DEF PatchInit
<1> QED
  BY <1>1, <1>4, <1>5, <1>6, <1>7, <1>8 DEF PatchInv, Creating, RoundTrip

-----------------------------------------------------------------------------
\* A step of ups::create, by what becomes of the places it keeps.
LEMMA UpsMakingOn ==
  ASSUME Files, UNCHANGED filesVars, Header' = Header, outputOffset' \in Nat, relative' \in Nat,
         relative' <= outputOffset', inside' \in BOOLEAN,
         inside' => UpsMakes(source, product, body', Len(Header), outputOffset', relative', TRUE),
         ~inside' => UpsMakes(source, product, body', Len(Header), outputOffset', relative', FALSE)
  PROVE  UpsMaking'
<1>1. source' = source /\ product' = product
  BY DEF filesVars
<1> QED
  BY <1>1 DEF UpsMaking

\* One lemma for each step of ups::create.
LEMMA UpsSameKeeps == PatchInv /\ UpsSame => PatchInv'
<1> SUFFICES ASSUME PatchInv, UpsSame PROVE PatchInv'
  OBVIOUS
<1>1. Files /\ Bodies /\ way = "ups" /\ NotRead /\ UpsMaking /\ inside = FALSE
  BY DEF PatchInv, Creating, UpsSame, UpsMaking
<1>2. Header' = Header /\ Bodies' /\ Files'
  BY <1>1, BodyKept, FilesKept DEF UpsSame
<1>3. NotRead' /\ phase' = "create" /\ way' = way
  BY <1>1 DEF UpsSame, NotRead, filesVars, readerVars
<1>4. outputOffset < Len(source) \/ outputOffset < Len(product)
  BY DEF UpsSame, Longer
<1>5. /\ UpsMakes(source, product, body, Len(Header), outputOffset, relative, FALSE)
      /\ outputOffset \in Nat /\ relative \in Nat /\ relative <= outputOffset
  BY <1>1 DEF UpsMaking
<1>6. At(source, outputOffset) = At(product, outputOffset)
  BY DEF UpsSame, Agree
<1>7. source \in Seq(Nat) /\ product \in Seq(Nat) /\ body \in Seq(Nat)
  BY <1>1 DEF Files, Bodies
<1>8. UpsMakes(source, product, body, Len(Header), outputOffset + 1, relative, FALSE)
  BY <1>4, <1>5, <1>6, <1>7, UpsSameMakes
<1>9. outputOffset' = outputOffset + 1 /\ relative' = relative /\ inside' = FALSE /\ body' = body
  BY <1>1 DEF UpsSame
<1>10. ~inside' /\ UpsMakes(source, product, body', Len(Header), outputOffset', relative', FALSE)
  BY <1>8, <1>9
<1>11. outputOffset' \in Nat /\ relative' \in Nat /\ relative' <= outputOffset'
  BY <1>5, <1>9
<1>13. inside' \in BOOLEAN
  BY <1>9
<1>12. UpsMaking'
  BY <1>1, <1>2, <1>10, <1>11, <1>13, UpsMakingOn DEF UpsSame
<1> QED
  BY <1>1, <1>2, <1>3, <1>12, StillCreating

\* A difference: two marks more.
LEMMA UpsDifferKeeps == PatchInv /\ UpsDiffer => PatchInv'
<1> SUFFICES ASSUME PatchInv, UpsDiffer PROVE PatchInv'
  OBVIOUS
<1>1. Files /\ Bodies /\ way = "ups" /\ NotRead /\ UpsMaking /\ inside = FALSE
  BY DEF PatchInv, Creating, UpsDiffer, UpsMaking
<1>2. body' = body \o Enc(outputOffset - relative) \o <<Diff(source, product, outputOffset)>>
  BY DEF UpsDiffer, Change, Diff, Enc
<1>3. outputOffset < Len(source) \/ outputOffset < Len(product)
  BY DEF UpsDiffer, Longer
<1>4. /\ UpsMakes(source, product, body, Len(Header), outputOffset, relative, FALSE)
      /\ outputOffset \in Nat /\ relative \in Nat /\ relative <= outputOffset
  BY <1>1 DEF UpsMaking
<1>5. At(source, outputOffset) # At(product, outputOffset)
  BY DEF UpsDiffer, Agree
<1>6. source \in Seq(Nat) /\ product \in Seq(Nat) /\ body \in Seq(Nat)
  BY <1>1 DEF Files, Bodies
<1>7. /\ body' \in Seq(Nat) /\ Grows(body, body')
      /\ UpsMakes(source, product, body', Len(Header), outputOffset + 1, relative, TRUE)
  BY <1>2, <1>3, <1>4, <1>5, <1>6, UpsDifferMakes
<1>8. Header' = Header /\ Bodies' /\ Files'
  BY <1>1, <1>7, BodiesKept, FilesKept DEF UpsDiffer
<1>9. NotRead' /\ phase' = "create" /\ way' = way
  BY <1>1 DEF UpsDiffer, NotRead, filesVars, readerVars
<1>10. outputOffset' = outputOffset + 1 /\ relative' = relative /\ inside' = TRUE
  BY <1>1 DEF UpsDiffer
<1>11. inside' /\ UpsMakes(source, product, body', Len(Header), outputOffset', relative', TRUE)
  BY <1>7, <1>10
<1>12. outputOffset' \in Nat /\ relative' \in Nat /\ relative' <= outputOffset' /\ inside' \in BOOLEAN
  BY <1>4, <1>10
<1>13. UpsMaking'
  BY <1>1, <1>8, <1>11, <1>12, UpsMakingOn DEF UpsDiffer
<1> QED
  BY <1>1, <1>8, <1>9, <1>13, StillCreating

\* A changed byte: one mark more.
LEMMA UpsChangeKeeps == PatchInv /\ UpsChange => PatchInv'
<1> SUFFICES ASSUME PatchInv, UpsChange PROVE PatchInv'
  OBVIOUS
<1> DEFINE in == At(source, outputOffset) # At(product, outputOffset)
<1>1. Files /\ Bodies /\ way = "ups" /\ NotRead /\ UpsMaking /\ inside = TRUE
  BY DEF PatchInv, Creating, UpsChange, UpsMaking
<1>2. /\ UpsMakes(source, product, body, Len(Header), outputOffset, relative, TRUE)
      /\ outputOffset \in Nat /\ relative \in Nat /\ relative <= outputOffset
  BY <1>1 DEF UpsMaking
<1>3. source \in Seq(Nat) /\ product \in Seq(Nat) /\ body \in Seq(Nat)
  BY <1>1 DEF Files, Bodies
<1>4. /\ outputOffset' = outputOffset + 1
         \/ (outputOffset' = outputOffset /\ outputOffset >= Len(source) /\ outputOffset >= Len(product))
      /\ body' = Append(body, Diff(source, product, outputOffset))
      /\ inside' = in /\ relative' = IF inside' THEN relative ELSE outputOffset'
  <2>1. CASE outputOffset < Longer
    BY <2>1 DEF UpsChange, Change, Diff, Agree
  <2>2. CASE ~(outputOffset < Longer)
    <3>1. outputOffset >= Len(source) /\ outputOffset >= Len(product)
      BY <1>2, <1>3, <2>2 DEF Longer
    <3>2. At(source, outputOffset) = At(product, outputOffset)
      BY <1>2, <1>3, <3>1 DEF At
    <3>3. Diff(source, product, outputOffset) = 0
      BY <1>2, <1>3, <3>2, DiffIs
    <3>4. outputOffset' = outputOffset /\ body' = Append(body, 0) /\ inside' = FALSE
          /\ relative' = IF inside' THEN relative ELSE outputOffset'
      BY <2>2 DEF UpsChange
    <3> QED
      BY <3>1, <3>2, <3>3, <3>4
  <2> QED
    BY <2>1, <2>2
<1>5. outputOffset' \in Nat /\ outputOffset <= outputOffset'
  BY <1>2, <1>4
<1>6. At(source, outputOffset) = At(product, outputOffset) => relative' = outputOffset'
  BY <1>4
<1>7. /\ body' \in Seq(Nat) /\ Grows(body, body')
      /\ in => UpsMakes(source, product, body', Len(Header), outputOffset', relative', TRUE)
      /\ ~in => UpsMakes(source, product, body', Len(Header), outputOffset', relative', FALSE)
  BY <1>2, <1>3, <1>4, <1>5, <1>6, UpsChangeMakes
<1>8. Header' = Header /\ Bodies' /\ Files'
  BY <1>1, <1>7, BodiesKept, FilesKept DEF UpsChange
<1>9. NotRead' /\ phase' = "create" /\ way' = way
  BY <1>1 DEF UpsChange, NotRead, filesVars, readerVars
<1>10. inside' \in BOOLEAN /\ relative' \in Nat /\ relative' <= outputOffset'
  <2>1. inside' \in BOOLEAN
    BY <1>4
  <2>2. CASE inside'
    BY <1>2, <1>4, <1>5, <2>2
  <2>3. CASE ~inside'
    BY <1>4, <1>5, <2>3
  <2> QED
    BY <2>1, <2>2, <2>3
<1>11. /\ inside' => UpsMakes(source, product, body', Len(Header), outputOffset', relative', TRUE)
       /\ ~inside' => UpsMakes(source, product, body', Len(Header), outputOffset', relative', FALSE)
  BY <1>4, <1>7
<1>12. UpsMaking'
  BY <1>1, <1>5, <1>8, <1>10, <1>11, UpsMakingOn DEF UpsChange
<1> QED
  BY <1>1, <1>8, <1>9, <1>12, StillCreating

\* At the end both sides agree on all that no mark has passed.
LEMMA UpsMadeKeeps == PatchInv /\ UpsMade => PatchInv'
<1> SUFFICES ASSUME PatchInv, UpsMade PROVE PatchInv'
  OBVIOUS
<1>1. Files /\ Bodies /\ way = "ups" /\ NotRead /\ UpsMaking /\ inside = FALSE
  BY DEF PatchInv, Creating, UpsMade, UpsMaking
<1>2. UpsMakes(source, product, body, Len(Header), outputOffset, relative, FALSE) /\ outputOffset \in Nat
  BY <1>1 DEF UpsMaking
<1>3. source \in Seq(Nat) /\ product \in Seq(Nat) /\ body \in Seq(Nat)
  BY <1>1 DEF Files, Bodies
<1>4. outputOffset >= Len(source) /\ outputOffset >= Len(product)
  BY <1>2, <1>3 DEF UpsMade, Longer
<1>5. UpsMadeWhole
  BY <1>2, <1>3, <1>4, UpsEnds DEF UpsMadeWhole
<1>6. UNCHANGED filesVars /\ UNCHANGED body
  BY DEF UpsMade, makerVars
<1>7. Header' = Header /\ Bodies' /\ Files' /\ phase' = "made"
  BY <1>1, <1>6, BodyKept, FilesKept DEF UpsMade
<1>8. NotRead' /\ way' = way
  BY <1>1 DEF UpsMade, NotRead, filesVars, readerVars
<1>9. UpsMadeWhole'
  BY <1>5, <1>6, <1>7 DEF UpsMadeWhole, filesVars
<1>10. RoundTrip'
  BY <1>8 DEF NotRead, RoundTrip, NoOutcome
<1> QED
  BY <1>1, <1>7, <1>8, <1>9, <1>10 DEF PatchInv, Ready

-----------------------------------------------------------------------------
\* The two copies.
LEMMA SourceCopyMakes ==
  ASSUME NEW s, NEW t, NEW x \in Seq(Nat), NEW h, NEW o \in Nat, NEW a \in Nat, NEW b \in Nat,
         BpsMakes(s, t, x, h, o, a, b), NEW n \in Nat \ {0}, NEW i \in Nat,
         \A k \in 0..n - 1 : At(s, i + k) = At(t, o + k),
         NEW d \in Int, d = i - a, NEW e, e = Code(SourceCopy, n) \o Enc(Signed(d)),
         CodeFits(SourceCopy, n), SignFits(d)
  PROVE  x \o e \in Seq(Nat) /\ Grows(x, x \o e) /\ BpsMakes(s, t, x \o e, h, o + n, i + n, b)
<1> DEFINE mode == SourceCopy
           y == x \o (Code(mode, n) \o Enc(Signed(d)))
<1>1. mode \in {SourceCopy, TargetCopy} /\ mode = SourceCopy /\ mode # TargetCopy
  BY DEF SourceCopy, TargetCopy
<1>2. y = x \o e
  OBVIOUS
<1>5. CopyFits(s, t, mode, o, a, b, i, b, d, n)
  BY DEF CopyFits
<1> HIDE DEF mode
<1>4. /\ y \in Seq(Nat) /\ Grows(x, y)
      /\ BpsMakes(s, t, y, h, o + n, IF mode = SourceCopy THEN i + n ELSE a,
                  IF mode = TargetCopy THEN b + n ELSE b)
  BY <1>1, <1>5, CopyMakes
<1> HIDE DEF y
<1> QED
  BY <1>1, <1>2, <1>4

\* A copy from the product itself.
LEMMA TargetCopyMakes ==
  ASSUME NEW s, NEW t, NEW x \in Seq(Nat), NEW h, NEW o \in Nat, NEW a \in Nat, NEW b \in Nat,
         BpsMakes(s, t, x, h, o, a, b), NEW n \in Nat \ {0}, NEW i \in Nat, i < o,
         \A k \in 0..n - 1 : At(t, i + k) = At(t, o + k),
         NEW d \in Int, d = i - b, NEW e, e = Code(TargetCopy, n) \o Enc(Signed(d)),
         CodeFits(TargetCopy, n), SignFits(d)
  PROVE  x \o e \in Seq(Nat) /\ Grows(x, x \o e) /\ BpsMakes(s, t, x \o e, h, o + n, a, i + n)
<1> DEFINE mode == TargetCopy
           y == x \o (Code(mode, n) \o Enc(Signed(d)))
<1>1. mode \in {SourceCopy, TargetCopy} /\ mode = TargetCopy /\ mode # SourceCopy
  BY DEF SourceCopy, TargetCopy
<1>2. y = x \o e
  OBVIOUS
<1>5. CopyFits(s, t, mode, o, a, b, a, i, d, n)
  BY DEF CopyFits
<1> HIDE DEF mode
<1>4. /\ y \in Seq(Nat) /\ Grows(x, y)
      /\ BpsMakes(s, t, y, h, o + n, IF mode = SourceCopy THEN a + n ELSE a,
                  IF mode = TargetCopy THEN i + n ELSE b)
  BY <1>1, <1>5, CopyMakes
<1> HIDE DEF y
<1> QED
  BY <1>1, <1>2, <1>4

\* What waited is flushed.
LEMMA FlushedMakes ==
  ASSUME Files, Bodies, BpsMaking, NEW o \in Nat, relative <= o, o <= Len(product)
  PROVE  /\ body \o TargetReadFlush(o) \in Seq(Nat) /\ Grows(body, body \o TargetReadFlush(o))
         /\ BpsMakes(source, product, body \o TargetReadFlush(o), Len(Header), o,
                     sourceRelative, targetRelative)
<1>1. /\ product \in Seq(Nat) /\ body \in Seq(Nat) /\ relative \in Nat /\ Len(product) \in Nat
      /\ sourceRelative \in Nat /\ targetRelative \in Nat
      /\ BpsMakes(source, product, body, Len(Header), relative, sourceRelative, targetRelative)
  BY DEF Files, Bodies, BpsMaking
<1>2. CASE o = relative
  <2>1. TargetReadFlush(o) = <<>>
    BY <1>2 DEF TargetReadFlush
  <2>2. body \o <<>> = body /\ Grows(body, body)
    BY <1>1 DEF Grows
  <2> QED
    BY <1>1, <1>2, <2>1, <2>2
<1>3. CASE o # relative
  <2> DEFINE n == o - relative
  <2>1. n \in Nat \ {0} /\ relative + n = o
    BY <1>1, <1>3
  <2>7. CodeFits(TargetRead, n) /\ Command(TargetRead, n) = Code(TargetRead, n)
    <3>1. TargetRead \in 0..3 /\ n <= Len(product) /\ Len(product) \in Nat
      BY <1>1, <2>1 DEF TargetRead
    <3>2. 4 * Len(product) + 2 < PatchWord
      BY DEF Files
    <3> HIDE DEF n
    <3> QED
      BY <2>1, <3>1, <3>2, CodeFit DEF Code
  <2>2. TargetReadFlush(o) = Code(TargetRead, n) \o SubSeq(product, relative + 1, o)
    BY <1>3, <2>7 DEF TargetReadFlush
  <2> HIDE DEF n
  <2>3. TargetReadFlush(o) = Code(TargetRead, n) \o SubSeq(product, relative + 1, relative + n)
    BY <2>1, <2>2
  <2>4. relative + n <= Len(product)
    BY <2>1
  <2> DEFINE f == Code(TargetRead, n) \o SubSeq(product, relative + 1, relative + n)
  <2>5. /\ body \o f \in Seq(Nat) /\ Grows(body, body \o f)
        /\ BpsMakes(source, product, body \o f, Len(Header), relative + n, sourceRelative, targetRelative)
    BY <1>1, <2>1, <2>4, <2>7, FlushMakes
  <2>6. TargetReadFlush(o) = f
    BY <2>3
  <2> HIDE DEF f
  <2> QED
    BY <2>1, <2>5, <2>6
<1> QED
  BY <1>2, <1>3

\* A step of the two others, by what becomes of the places they keep.
LEMMA BpsMakingOn ==
  ASSUME Files, UNCHANGED filesVars, Header' = Header, outputOffset' \in Nat, relative' \in Nat,
         relative' <= outputOffset', outputOffset' <= Len(product),
         sourceRelative' \in 0..Len(source), targetRelative' \in 0..Len(product),
         way = "linear" => targetRelative' <= outputOffset', starts' \subseteq Nat,
         \A i \in starts' : i < outputOffset',
         BpsMakes(source, product, body', Len(Header), relative', sourceRelative', targetRelative')
  PROVE  BpsMaking'
<1>1. source' = source /\ product' = product /\ way' = way
  BY DEF filesVars
<1> QED
  BY <1>1 DEF BpsMaking

\* The places that copies from the product can start at are behind.
LEMMA StartsOn ==
  ASSUME NEW S, S \subseteq Nat, NEW o \in Nat, NEW o2 \in Nat, o < o2, \A i \in S : i < o,
         NEW T, T = S \/ T = S \union {o}
  PROVE  T \subseteq Nat /\ \A i \in T : i < o2
<1>1. ASSUME NEW i \in T PROVE i \in Nat /\ i < o2
  <2>1. CASE i \in S
    BY <2>1
  <2>2. CASE i = o
    BY <2>2
  <2> QED
    BY <2>1, <2>2
<1> QED
  BY <1>1

\* A byte that waits.
LEMMA WaitMakes ==
  ASSUME Files, Bodies, BpsMaking, UNCHANGED filesVars, Wait, outputOffset < Len(product),
         starts' = starts \/ starts' = starts \union {outputOffset}
  PROVE  Bodies' /\ BpsMaking'
<1>1. /\ outputOffset \in Nat /\ relative \in Nat /\ relative <= outputOffset
      /\ sourceRelative \in 0..Len(source) /\ targetRelative \in 0..Len(product)
      /\ way = "linear" => targetRelative <= outputOffset
      /\ starts \subseteq Nat /\ \A i \in starts : i < outputOffset
      /\ BpsMakes(source, product, body, Len(Header), relative, sourceRelative, targetRelative)
  BY DEF BpsMaking
<1>2. /\ outputOffset' = outputOffset + 1 /\ body' = body /\ relative' = relative
      /\ sourceRelative' = sourceRelative /\ targetRelative' = targetRelative
  BY DEF Wait
<1>3. Header' = Header /\ Bodies'
  BY <1>2, BodyKept
<1>4. Len(product) \in Nat
  BY DEF Files
<1>5. /\ outputOffset' \in Nat /\ relative' \in Nat /\ relative' <= outputOffset'
      /\ outputOffset' <= Len(product)
      /\ sourceRelative' \in 0..Len(source) /\ targetRelative' \in 0..Len(product)
      /\ way = "linear" => targetRelative' <= outputOffset'
  BY <1>1, <1>2, <1>4
<1>6. starts' \subseteq Nat /\ \A i \in starts' : i < outputOffset'
  <2>1. outputOffset < outputOffset' /\ outputOffset' \in Nat
    BY <1>1, <1>2
  <2> QED
    BY <1>1, <2>1, StartsOn
<1>7. BpsMakes(source, product, body', Len(Header), relative', sourceRelative', targetRelative')
  BY <1>1, <1>2
<1>8. BpsMaking'
  BY <1>3, <1>5, <1>6, <1>7, BpsMakingOn
<1> QED
  BY <1>3, <1>8

\* What a command does for n bytes from o on.
Does(command, o, n) ==
    \/ /\ command = Command(SourceRead, n)
       /\ sourceRelative' = sourceRelative /\ targetRelative' = targetRelative
       /\ \A k \in 0..n - 1 : At(source, o + k) = At(product, o + k)
    \/ \E i \in Nat :
        /\ i + n <= Len(source)
        /\ command = Command(SourceCopy, n) \o Offset(i - sourceRelative)
        /\ sourceRelative' = i + n /\ targetRelative' = targetRelative
        /\ \A k \in 0..n - 1 : At(source, i + k) = At(product, o + k)
    \/ \E i \in Nat :
        /\ i < o
        /\ command = Command(TargetCopy, n) \o Offset(i - targetRelative)
        /\ sourceRelative' = sourceRelative /\ targetRelative' = i + n
        /\ \A k \in 0..n - 1 : At(product, i + k) = At(product, o + k)

\* A command for n bytes from o on, behind what is flushed.
LEMMA EmitMakes ==
  ASSUME Files, Bodies, BpsMaking, UNCHANGED filesVars, NEW o \in {outputOffset, outputOffset + 1},
         NEW n \in Nat \ {0}, NEW command, Emit(o, command, n), o + n <= Len(product),
         starts' = starts \/ starts' = starts \union {outputOffset},
         Does(command, o, n)
  PROVE  Bodies' /\ BpsMaking'
<1>1. /\ outputOffset \in Nat /\ relative \in Nat /\ relative <= outputOffset
      /\ sourceRelative \in Nat /\ targetRelative \in Nat
      /\ sourceRelative <= Len(source) /\ targetRelative <= Len(product)
      /\ way = "linear" => targetRelative <= outputOffset
      /\ starts \subseteq Nat /\ \A i \in starts : i < outputOffset
  BY DEF BpsMaking
<1>2. /\ Len(source) \in Nat /\ Len(product) \in Nat
      /\ source \in Seq(Nat) /\ product \in Seq(Nat) /\ body \in Seq(Nat)
      /\ 4 * Len(source) + 2 < PatchWord /\ 4 * Len(product) + 2 < PatchWord
  BY DEF Files, Bodies
<1>3. o \in Nat /\ relative <= o /\ o <= Len(product) /\ outputOffset <= o /\ n <= Len(product)
  BY <1>1, <1>2
<1>12. ASSUME NEW mode \in {SourceRead, SourceCopy, TargetCopy}
       PROVE  CodeFits(mode, n) /\ Command(mode, n) = Code(mode, n)
  <2>1. mode \in 0..3
    BY DEF SourceRead, SourceCopy, TargetCopy
  <2> QED
    BY <1>2, <1>3, <2>1, CodeFit DEF Code
<1> DEFINE x == body \o TargetReadFlush(o)
<1>4. /\ x \in Seq(Nat) /\ Grows(body, x)
      /\ BpsMakes(source, product, x, Len(Header), o, sourceRelative, targetRelative)
  BY <1>3, FlushedMakes
<1>5. body' = x \o command /\ outputOffset' = o + n /\ relative' = o + n
  BY DEF Emit
<1> HIDE DEF x
<1>6. /\ body' \in Seq(Nat) /\ Grows(x, body')
      /\ BpsMakes(source, product, body', Len(Header), o + n, sourceRelative', targetRelative')
      /\ sourceRelative' \in 0..Len(source) /\ targetRelative' \in 0..Len(product)
      /\ targetRelative' = targetRelative \/ targetRelative' <= o + n
  <2>1. CASE /\ command = Command(SourceRead, n)
             /\ sourceRelative' = sourceRelative /\ targetRelative' = targetRelative
             /\ \A k \in 0..n - 1 : At(source, o + k) = At(product, o + k)
    <3>1. /\ x \o command \in Seq(Nat) /\ Grows(x, x \o command)
          /\ BpsMakes(source, product, x \o command, Len(Header), o + n, sourceRelative, targetRelative)
      <4> DEFINE e == Code(SourceRead, n)
      <4>1. \A k \in 0..n - 1 : At(source, o + k) = At(product, o + k)
        BY <2>1
      <4>2. /\ x \o e \in Seq(Nat) /\ Grows(x, x \o e)
            /\ BpsMakes(source, product, x \o e, Len(Header), o + n, sourceRelative, targetRelative)
        BY <1>1, <1>3, <1>4, <1>12, <4>1, ReadMakes
      <4>3. command = e
        BY <1>12, <2>1
      <4> HIDE DEF e
      <4> QED
        BY <4>2, <4>3
    <3> QED
      BY <1>1, <1>2, <1>5, <2>1, <3>1
  <2>2. ASSUME NEW i \in Nat, i + n <= Len(source),
               command = Command(SourceCopy, n) \o Offset(i - sourceRelative),
               sourceRelative' = i + n, targetRelative' = targetRelative,
               \A k \in 0..n - 1 : At(source, i + k) = At(product, o + k)
        PROVE  /\ body' \in Seq(Nat) /\ Grows(x, body')
               /\ BpsMakes(source, product, body', Len(Header), o + n, sourceRelative', targetRelative')
               /\ sourceRelative' \in 0..Len(source) /\ targetRelative' \in 0..Len(product)
    <3> DEFINE d == i - sourceRelative
    <3>2. d \in Int /\ d = i - sourceRelative
      BY <1>1, <2>2
    <3>4. -Len(source) <= d /\ d <= Len(source)
      BY <1>1, <1>2, <2>2
    <3>5. command = Command(SourceCopy, n) \o Offset(d)
      BY <2>2
    <3> HIDE DEF d
    <3>6. SignFits(d) /\ Offset(d) = Enc(Signed(d))
      BY <1>2, <3>2, <3>4, SignFit
    <3>3. CodeFits(SourceCopy, n) /\ command = Code(SourceCopy, n) \o Enc(Signed(d))
      BY <1>12, <3>5, <3>6
    <3>1. /\ x \o command \in Seq(Nat) /\ Grows(x, x \o command)
          /\ BpsMakes(source, product, x \o command, Len(Header), o + n, i + n, targetRelative)
      BY <1>1, <1>3, <1>4, <2>2, <3>2, <3>3, <3>6, SourceCopyMakes
    <3> QED
      BY <1>1, <1>2, <1>5, <2>2, <3>1
  <2>3. ASSUME NEW i \in Nat, i < o, command = Command(TargetCopy, n) \o Offset(i - targetRelative),
               sourceRelative' = sourceRelative, targetRelative' = i + n,
               \A k \in 0..n - 1 : At(product, i + k) = At(product, o + k)
        PROVE  /\ body' \in Seq(Nat) /\ Grows(x, body')
               /\ BpsMakes(source, product, body', Len(Header), o + n, sourceRelative', targetRelative')
               /\ sourceRelative' \in 0..Len(source) /\ targetRelative' \in 0..Len(product)
               /\ targetRelative' <= o + n
    <3> DEFINE d == i - targetRelative
    <3>3. d \in Int /\ d = i - targetRelative
      BY <1>1, <2>3
    <3>5. -Len(product) <= d /\ d <= Len(product)
      BY <1>1, <1>2, <1>3, <2>3
    <3>6. command = Command(TargetCopy, n) \o Offset(d)
      BY <2>3
    <3> HIDE DEF d
    <3>7. SignFits(d) /\ Offset(d) = Enc(Signed(d))
      BY <1>2, <3>3, <3>5, SignFit
    <3>4. CodeFits(TargetCopy, n) /\ command = Code(TargetCopy, n) \o Enc(Signed(d))
      BY <1>12, <3>6, <3>7
    <3>1. /\ x \o command \in Seq(Nat) /\ Grows(x, x \o command)
          /\ BpsMakes(source, product, x \o command, Len(Header), o + n, sourceRelative, i + n)
      BY <1>1, <1>3, <1>4, <2>3, <3>3, <3>4, <3>7, TargetCopyMakes
    <3>2. i + n <= o + n /\ i + n \in 0..Len(product)
      BY <1>2, <1>3, <2>3
    <3> QED
      BY <1>1, <1>2, <1>5, <2>3, <3>1, <3>2
  <2> QED
    BY <2>1, <2>2, <2>3 DEF Does
<1>7. Header' = Header /\ Bodies'
  <2>1. Grows(body, body')
    BY <1>2, <1>4, <1>6, GrowsOn
  <2> QED
    BY <1>6, <2>1, BodiesKept
<1>8. /\ outputOffset' \in Nat /\ relative' \in Nat /\ relative' <= outputOffset'
      /\ outputOffset' <= Len(product)
      /\ way = "linear" => targetRelative' <= outputOffset'
  BY <1>1, <1>2, <1>3, <1>5, <1>6
<1>9. starts' \subseteq Nat /\ \A i \in starts' : i < outputOffset'
  <2>1. outputOffset < outputOffset' /\ outputOffset' \in Nat
    BY <1>1, <1>3, <1>5
  <2> QED
    BY <1>1, <2>1, StartsOn
<1>10. BpsMakes(source, product, body', Len(Header), relative', sourceRelative', targetRelative')
  BY <1>5, <1>6
<1>11. BpsMaking'
  BY <1>6, <1>7, <1>8, <1>9, <1>10, BpsMakingOn
<1> QED
  BY <1>7, <1>11

\* What the makers of both kinds have in common.
LEMMA BpsCreates ==
  ASSUME PatchInv, phase = "create", way # "ups"
  PROVE  /\ Files /\ Bodies /\ NotRead /\ BpsMaking
         /\ source \in Seq(Nat) /\ product \in Seq(Nat) /\ Len(source) \in Nat /\ Len(product) \in Nat
         /\ outputOffset \in Nat /\ sourceRelative \in Nat /\ targetRelative \in Nat
         /\ sourceRelative <= Len(source) /\ targetRelative <= Len(product)
         /\ 4 * Len(product) + 2 < PatchWord
         /\ Worth \in Nat /\ Worth > 0
<1>1. Files /\ Bodies /\ NotRead /\ BpsMaking
  BY DEF PatchInv, Creating
<1>2. source \in Seq(Nat) /\ product \in Seq(Nat)
  BY <1>1 DEF Files
<1> QED
  BY <1>1, <1>2, PatchAssumption DEF BpsMaking, Files

\* What both have in common reaches past neither.
LEMMA CommonFits ==
  ASSUME NEW x \in Seq(Nat), NEW y \in Seq(Nat), NEW i \in Nat, NEW j \in Nat,
         NEW n \in Nat, n > 0, Common(x, i, y, j) = n
  PROVE  i + n <= Len(x) /\ j + n <= Len(y) /\ \A k \in 0..n - 1 : At(x, i + k) = At(y, j + k)
  BY CommonIs

\* One lemma for each step of bpslinear::create and bpsdelta::create.
LEMMA LinearKeeps == PatchInv /\ Linear => PatchInv'
<1> SUFFICES ASSUME PatchInv, Linear PROVE PatchInv'
  OBVIOUS
<1> DEFINE o == outputOffset
           same == Common(source, o, product, o)
           run == Common(product, o + 1, product, o)
<1>1. phase = "create" /\ way = "linear" /\ way # "ups" /\ o < Len(product)
  BY DEF Linear
<1>2. /\ Files /\ Bodies /\ NotRead /\ BpsMaking
      /\ source \in Seq(Nat) /\ product \in Seq(Nat) /\ Len(source) \in Nat /\ Len(product) \in Nat
      /\ o \in Nat /\ sourceRelative \in Nat /\ targetRelative \in Nat
      /\ Worth \in Nat /\ Worth > 0
  BY <1>1, BpsCreates
<1>3. UNCHANGED filesVars /\ phase' = "create" /\ starts' = starts /\ NotRead'
  BY <1>1, <1>2 DEF Linear, NotRead, readerVars
<1>4. \/ /\ run >= Worth
         /\ Emit(o + 1, Command(TargetCopy, run) \o Encode[Narrow(2 * (o - targetRelative))], run)
         /\ targetRelative' = o + run
         /\ UNCHANGED sourceRelative
      \/ /\ run < Worth /\ same >= Worth
         /\ Emit(o, Command(SourceRead, same), same)
         /\ UNCHANGED <<sourceRelative, targetRelative>>
      \/ Wait
  BY DEF Linear
<1> HIDE DEF same, run
<1>5. ASSUME run >= Worth,
             Emit(o + 1, Command(TargetCopy, run) \o Encode[Narrow(2 * (o - targetRelative))], run),
             targetRelative' = o + run, UNCHANGED sourceRelative
      PROVE  Bodies' /\ BpsMaking'
  <2>1. o + 1 \in Nat /\ run \in Nat /\ run > 0
    <3>2. o + 1 \in Nat
      BY <1>2
    <3>1. run \in Nat
      <4> HIDE DEF o
      <4> QED
        BY <1>2, <3>2, CommonIs DEF run
    <3> QED
      BY <1>2, <1>5, <3>1
  <2>2. /\ (o + 1) + run <= Len(product)
        /\ \A k \in 0..run - 1 : At(product, (o + 1) + k) = At(product, o + k)
    BY <1>2, <2>1, CommonIs DEF run
  <2>3. targetRelative <= o
    BY <1>1, <1>2 DEF BpsMaking
  <2>4. 2 * (o - targetRelative) = Signed(o - targetRelative)
    BY <1>2, <2>3 DEF Signed
  <2> DEFINE command == Command(TargetCopy, run) \o Offset(o - targetRelative)
  <2>5. command = Command(TargetCopy, run) \o Encode[Narrow(2 * (o - targetRelative))]
    BY <2>4 DEF Offset
  <2>6. Emit(o + 1, command, run)
    BY <1>5, <2>5
  <2>7. Does(command, o + 1, run)
    <3>1. o < o + 1
      BY <1>2
    <3> QED
      BY <1>2, <1>5, <2>2, <3>1 DEF Does
  <2> HIDE DEF command, o
  <2>8. o + 1 \in {outputOffset, outputOffset + 1}
    BY DEF o
  <2> QED
    BY <1>2, <1>3, <2>1, <2>2, <2>6, <2>7, <2>8, EmitMakes
<1>6. ASSUME run < Worth, same >= Worth, Emit(o, Command(SourceRead, same), same),
             UNCHANGED <<sourceRelative, targetRelative>>
      PROVE  Bodies' /\ BpsMaking'
  <2>1. same \in Nat /\ same > 0
    <3>1. same \in Nat
      BY <1>2, CommonIs DEF same
    <3> QED
      BY <1>2, <1>6, <3>1
  <2>2. o + same <= Len(product) /\ \A k \in 0..same - 1 : At(source, o + k) = At(product, o + k)
    BY <1>2, <2>1, CommonIs DEF same
  <2> DEFINE command == Command(SourceRead, same)
  <2>6. Emit(o, command, same)
    BY <1>6
  <2>7. Does(command, o, same)
    BY <1>6, <2>2 DEF Does
  <2> HIDE DEF command, o
  <2>8. o \in {outputOffset, outputOffset + 1}
    BY DEF o
  <2>9. same \in Nat \ {0} /\ (starts' = starts \/ starts' = starts \union {outputOffset})
    BY <1>3, <2>1
  <2> QED
    BY <1>2, <1>3, <2>2, <2>6, <2>7, <2>8, <2>9, EmitMakes
<1>7. ASSUME Wait PROVE Bodies' /\ BpsMaking'
  BY <1>1, <1>2, <1>3, <1>7, WaitMakes
<1>8. Bodies' /\ BpsMaking'
  BY <1>4, <1>5, <1>6, <1>7
<1>9. Files' /\ way' = way
  BY <1>2, <1>3, FilesKept DEF filesVars
<1> QED
  BY <1>1, <1>3, <1>8, <1>9, StillCreating

\* Each of the four ways on of bpsdelta.
LEMMA DeltaKeeps == PatchInv /\ Delta => PatchInv'
<1> SUFFICES ASSUME PatchInv, Delta PROVE PatchInv'
  OBVIOUS
<1> DEFINE o == outputOffset
           read == Common(source, o, product, o)
           from == {i \in 0..Len(source) - 1 : Symbol(source, i) = Symbol(product, o)}
           seen == {i \in starts : Symbol(product, i) = Symbol(product, o)}
           old == Best(source, from, o)
           new == Best(product, seen, o)
           n == Max({read, old.length, new.length})
<1>1. phase = "create" /\ way = "delta" /\ way # "ups" /\ o < Len(product)
  BY DEF Delta
<1>2. /\ Files /\ Bodies /\ NotRead /\ BpsMaking
      /\ source \in Seq(Nat) /\ product \in Seq(Nat) /\ Len(source) \in Nat /\ Len(product) \in Nat
      /\ o \in Nat /\ sourceRelative \in Nat /\ targetRelative \in Nat
      /\ Worth \in Nat /\ Worth > 0
  BY <1>1, BpsCreates
<1>3. UNCHANGED filesVars /\ phase' = "create" /\ starts' = starts \union {outputOffset} /\ NotRead'
  BY <1>1, <1>2 DEF Delta, NotRead, readerVars
<1>4. \/ /\ n >= Worth /\ read = n
         /\ Emit(o, Command(SourceRead, n), n)
         /\ UNCHANGED <<sourceRelative, targetRelative>>
      \/ /\ n >= Worth /\ read < n /\ old.length = n
         /\ Emit(o, Command(SourceCopy, n) \o Offset(old.at - sourceRelative), n)
         /\ sourceRelative' = old.at + n
         /\ UNCHANGED targetRelative
      \/ /\ n >= Worth /\ read < n /\ old.length < n
         /\ Emit(o, Command(TargetCopy, n) \o Offset(new.at - targetRelative), n)
         /\ targetRelative' = new.at + n
         /\ UNCHANGED sourceRelative
      \/ Wait
  BY DEF Delta
<1>5. starts \subseteq Nat /\ \A i \in starts : i < o
  BY <1>2 DEF BpsMaking
<1>6. /\ from \in SUBSET Nat /\ \A i \in from : i <= Len(source)
      /\ seen \in SUBSET Nat /\ \A i \in seen : i <= o /\ i < o
  <2>1. \A i \in 0..Len(source) - 1 : i \in Nat /\ i <= Len(source)
    BY <1>2
  <2>2. \A i \in starts : i \in Nat /\ i <= o /\ i < o
    BY <1>2, <1>5
  <2> QED
    BY <2>1, <2>2
<1> HIDE DEF from, seen
<1>7. /\ read \in Nat
      /\ read > 0 => /\ o + read <= Len(product)
                     /\ \A k \in 0..read - 1 : At(source, o + k) = At(product, o + k)
  BY <1>2, CommonIs
<1>8. /\ old.length \in Nat
      /\ old.length > 0 => /\ old.at \in Nat
                           /\ Common(source, old.at, product, o) = old.length
  BY <1>2, <1>6, BestIs
<1>9. /\ new.length \in Nat
      /\ new.length > 0 => /\ new.at \in Nat /\ new.at < o
                           /\ Common(product, new.at, product, o) = new.length
  <2>1. /\ new.length \in Nat
        /\ new.length > 0 => new.at \in seen /\ Common(product, new.at, product, o) = new.length
    BY <1>2, <1>6, BestIs
  <2> HIDE DEF new
  <2> QED
    BY <1>6, <2>1
<1> HIDE DEF o, read, old, new
<1>10. n \in {read, old.length, new.length}
  <2> DEFINE S == {read, old.length, new.length}
  <2>1. \E m \in S : \A i \in S : m >= i
    BY <1>7, <1>8, <1>9
  <2> HIDE DEF S
  <2>2. Max(S) \in S
    BY <2>1 DEF Max
  <2> QED
    BY <2>2 DEF S
<1> HIDE DEF n
<1>11. o \in {outputOffset, outputOffset + 1}
  BY DEF o
<1>12. ASSUME n >= Worth, read = n, Emit(o, Command(SourceRead, n), n),
              UNCHANGED <<sourceRelative, targetRelative>>
       PROVE  Bodies' /\ BpsMaking'
  <2>1. n \in Nat /\ n > 0
    BY <1>2, <1>7, <1>12
  <2>2. o + n <= Len(product) /\ \A k \in 0..n - 1 : At(source, o + k) = At(product, o + k)
    BY <1>7, <1>12, <2>1
  <2> DEFINE command == Command(SourceRead, n)
  <2>4. Emit(o, command, n)
    BY <1>12
  <2>5. Does(command, o, n)
    BY <1>12, <2>2 DEF Does
  <2> HIDE DEF command
  <2>6. n \in Nat \ {0} /\ (starts' = starts \/ starts' = starts \union {outputOffset})
    BY <1>3, <2>1
  <2> QED
    BY <1>2, <1>3, <1>11, <2>2, <2>4, <2>5, <2>6, EmitMakes
<1>13. ASSUME n >= Worth, old.length = n,
              Emit(o, Command(SourceCopy, n) \o Offset(old.at - sourceRelative), n),
              sourceRelative' = old.at + n, UNCHANGED targetRelative
       PROVE  Bodies' /\ BpsMaking'
  <2>1. n \in Nat /\ n > 0
    BY <1>2, <1>8, <1>13
  <2> DEFINE i == old.at
  <2>2. i \in Nat /\ Common(source, i, product, o) = n
    BY <1>8, <1>13, <2>1
  <2> HIDE DEF i
  <2>3. /\ i + n <= Len(source) /\ o + n <= Len(product)
        /\ \A k \in 0..n - 1 : At(source, i + k) = At(product, o + k)
    <3>1. source \in Seq(Nat) /\ product \in Seq(Nat) /\ o \in Nat /\ n \in Nat /\ n > 0
      BY <1>2, <2>1
    <3>2. i + n <= Len(source) /\ o + n <= Len(product)
      BY <2>2, <3>1, CommonFits
    <3>3. \A k \in 0..n - 1 : At(source, i + k) = At(product, o + k)
      BY <2>2, <3>1, CommonFits
    <3> QED
      BY <3>2, <3>3
  <2> DEFINE command == Command(SourceCopy, n) \o Offset(i - sourceRelative)
  <2>4. command = Command(SourceCopy, n) \o Offset(old.at - sourceRelative)
    BY DEF i
  <2>5. Emit(o, command, n)
    BY <1>13, <2>4
  <2>6. Does(command, o, n)
    <3>1. sourceRelative' = i + n
      BY <1>13 DEF i
    <3> QED
      BY <1>13, <2>2, <2>3, <3>1 DEF Does
  <2> HIDE DEF command
  <2>7. n \in Nat \ {0} /\ (starts' = starts \/ starts' = starts \union {outputOffset})
    BY <1>3, <2>1
  <2> QED
    BY <1>2, <1>3, <1>11, <2>3, <2>5, <2>6, <2>7, EmitMakes
<1>14. ASSUME n >= Worth, read < n, old.length < n,
              Emit(o, Command(TargetCopy, n) \o Offset(new.at - targetRelative), n),
              targetRelative' = new.at + n, UNCHANGED sourceRelative
       PROVE  Bodies' /\ BpsMaking'
  <2>1. n \in Nat /\ n > 0 /\ new.length = n
    BY <1>2, <1>7, <1>8, <1>9, <1>10, <1>14
  <2> DEFINE i == new.at
  <2>2. i \in Nat /\ i < o /\ Common(product, i, product, o) = n
    BY <1>9, <2>1
  <2> HIDE DEF i
  <2>3. o + n <= Len(product) /\ \A k \in 0..n - 1 : At(product, i + k) = At(product, o + k)
    <3>1. source \in Seq(Nat) /\ product \in Seq(Nat) /\ o \in Nat /\ n \in Nat /\ n > 0
      BY <1>2, <2>1
    <3>2. o + n <= Len(product)
      BY <2>2, <3>1, CommonFits
    <3>3. \A k \in 0..n - 1 : At(product, i + k) = At(product, o + k)
      BY <2>2, <3>1, CommonFits
    <3> QED
      BY <3>2, <3>3
  <2> DEFINE command == Command(TargetCopy, n) \o Offset(i - targetRelative)
  <2>4. command = Command(TargetCopy, n) \o Offset(new.at - targetRelative)
    BY DEF i
  <2>5. Emit(o, command, n)
    BY <1>14, <2>4
  <2>6. Does(command, o, n)
    <3>1. targetRelative' = i + n
      BY <1>14 DEF i
    <3> QED
      BY <1>14, <2>2, <2>3, <3>1 DEF Does
  <2> HIDE DEF command
  <2>7. n \in Nat \ {0} /\ (starts' = starts \/ starts' = starts \union {outputOffset})
    BY <1>3, <2>1
  <2> QED
    BY <1>2, <1>3, <1>11, <2>3, <2>5, <2>6, <2>7, EmitMakes
<1>15. ASSUME Wait PROVE Bodies' /\ BpsMaking'
  BY <1>1, <1>2, <1>3, <1>15, WaitMakes DEF o
<1>16. Bodies' /\ BpsMaking'
  BY <1>4, <1>12, <1>13, <1>14, <1>15
<1>17. Files' /\ way' = way
  BY <1>2, <1>3, FilesKept DEF filesVars
<1> QED
  BY <1>1, <1>3, <1>16, <1>17, StillCreating

\* The last flush makes the marks reach the end of the product.
LEMMA BpsMadeKeeps == PatchInv /\ BpsMade => PatchInv'
<1> SUFFICES ASSUME PatchInv, BpsMade PROVE PatchInv'
  OBVIOUS
<1>1. phase = "create" /\ way # "ups" /\ outputOffset >= Len(product)
  BY DEF BpsMade
<1>2. /\ Files /\ Bodies /\ NotRead /\ BpsMaking /\ Len(product) \in Nat /\ outputOffset \in Nat
      /\ sourceRelative \in Nat /\ targetRelative \in Nat
  BY <1>1, BpsCreates
<1>3. relative <= outputOffset /\ outputOffset = Len(product)
  BY <1>1, <1>2 DEF BpsMaking
<1>4. /\ body' \in Seq(Nat) /\ Grows(body, body')
      /\ BpsMakes(source, product, body', Len(Header), outputOffset, sourceRelative, targetRelative)
  <2>1. body' = body \o TargetReadFlush(outputOffset) /\ outputOffset <= Len(product)
    BY <1>2, <1>3 DEF BpsMade
  <2> QED
    BY <1>2, <1>3, <2>1, FlushedMakes
<1>5. UNCHANGED filesVars /\ phase' = "made" /\ NotRead'
  BY <1>2 DEF BpsMade, NotRead, readerVars
<1>6. Header' = Header /\ Bodies' /\ Files' /\ way' = way /\ source' = source /\ product' = product
  BY <1>2, <1>4, <1>5, BodiesKept, FilesKept DEF filesVars
<1>7. BpsMadeWhole'
  <2> DEFINE l == BpsMark(Len(body'), outputOffset, sourceRelative, targetRelative)
  <2>1. PICK R : BpsPath(source, product, body', Len(Header), R, l)
    BY <1>4 DEF BpsMakes
  <2>2. l.at = Len(body') /\ l.offset = Len(product)
    BY <1>3 DEF BpsMark
  <2> HIDE DEF l
  <2>3. BpsWhole(source, product, body', Len(Header), R, l)
    BY <2>1, <2>2 DEF BpsWhole
  <2> QED
    BY <1>6, <2>3 DEF BpsMadeWhole
<1>8. RoundTrip'
  BY <1>5 DEF NotRead, RoundTrip, NoOutcome
<1> QED
  BY <1>1, <1>5, <1>6, <1>7, <1>8 DEF PatchInv, Ready

-----------------------------------------------------------------------------
\* Steps of the reader, which leave the patch alone.
LEMMA StillReading ==
  ASSUME Files, Bodies, UNCHANGED filesVars, UNCHANGED makerVars, phase' = "apply", Reading'
  PROVE  PatchInv'
<1>1. UNCHANGED body
  BY DEF makerVars
<1>2. Files' /\ Bodies'
  BY <1>1, BodyKept, FilesKept
<1>3. outcome' = NoOutcome
  BY DEF Reading
<1> QED
  BY <1>2, <1>3 DEF PatchInv, RoundTrip, NoOutcome

\* The reader starts at the first mark, and is not refused.
LEMMA ApplyKeeps == \A b \in BOOLEAN : PatchInv /\ Apply(b) => PatchInv'
<1> SUFFICES ASSUME NEW b \in BOOLEAN, PatchInv, Apply(b) PROVE PatchInv'
  OBVIOUS
<1>1. Files /\ Bodies /\ Ready
  BY DEF PatchInv, Apply
<1>2. /\ SourceSize.number = Len(source) /\ ProductSize.number = Len(product)
      /\ way = "ups" => ProductSize.next = Len(Header)
      /\ way # "ups" => MarkupSize.next + MarkupSize.number = Len(Header)
  BY <1>1, HeaderRead
<1>3. ~Refused(Side(b))
  <2>1. CASE way = "ups"
    BY <1>2, <2>1 DEF Refused, Side
  <2>2. CASE way # "ups"
    <3>1. ~b /\ Len(source) \in Nat
      BY <1>1, <2>2 DEF Apply, Files
    <3>2. ~(Len(source) > Len(source))
      BY <3>1
    <3> QED
      BY <1>2, <2>2, <3>1, <3>2 DEF Refused, Side
  <2> QED
    BY <2>1, <2>2
<1>4. /\ UNCHANGED filesVars /\ UNCHANGED makerVars /\ phase' = "apply" /\ outcome' = outcome
      /\ back' = b /\ (b => way = "ups") /\ output' = output /\ left' = left /\ action' = action
      /\ inside' = FALSE /\ sourceRelative' = 0 /\ targetRelative' = 0
      /\ patchOffset' = IF way = "ups" THEN ProductSize.next ELSE MarkupSize.next + MarkupSize.number
  BY <1>3 DEF Apply
<1>5. /\ way' = way /\ source' = source /\ product' = product /\ body' = body /\ Header' = Header
  BY <1>1, <1>4, BodyKept DEF filesVars, makerVars
<1>6. patchOffset' = Len(Header) /\ Len(Header) \in Nat
  BY <1>1, <1>2, <1>4, HeaderIs
<1>7. output' = <<>> /\ left' = 0 /\ outcome' = NoOutcome /\ Len(output') = 0
  BY <1>1, <1>4 DEF Ready, NotRead
<1>8. \A w : Right(output', w)
  BY <1>7 DEF Right
<1>9. ASSUME way = "ups" PROVE UpsReading'
  <2>1. PICK R, l : UpsWhole(source, product, body, Len(Header), R, l)
    BY <1>1, <1>9 DEF Ready, UpsMadeWhole
  <2>2. UpsMark(Len(Header), 0, FALSE) \in R
    BY <2>1 DEF UpsWhole, UpsPath
  <2>3. UpsMark(Len(Header), Len(output'), FALSE) \in R
    BY <1>7, <2>2
  <2> DEFINE g == Side(b)
             w == Side(~b)
  <2>4. g \in Seq(Nat) /\ w \in Seq(Nat) /\ Sides(g, w, source, product)
    BY <1>1 DEF Files, Side, Sides
  <2>5. Given' = g /\ Wanted' = w
    BY <1>4, <1>5 DEF Given, Wanted, Side
  <2> HIDE DEF g, w
  <2>6. source \in Seq(Nat) /\ product \in Seq(Nat) /\ body \in Seq(Nat)
    BY <1>1 DEF Files, Bodies
  <2>7. UpsAt(source, product, g, w, body, R, l, Len(Header), output', FALSE)
    BY <1>6, <1>8, <2>1, <2>3, <2>4, <2>6 DEF UpsAt
  <2>8. UpsAt(source', product', Given', Wanted', body', R, l, patchOffset', output', FALSE)
    BY <1>5, <1>6, <2>5, <2>7
  <2>9. inside' \in BOOLEAN /\ ~inside'
    BY <1>4
  <2> QED
    BY <2>8, <2>9 DEF UpsReading
<1>10. ASSUME way # "ups" PROVE BpsReading'
  <2>1. PICK R, l : BpsWhole(source, product, body, Len(Header), R, l)
    BY <1>1, <1>10 DEF Ready, BpsMadeWhole
  <2> DEFINE q == BpsMark(Len(Header), 0, 0, 0)
  <2>2. q \in R
    BY <2>1 DEF BpsWhole, BpsPath
  <2>3. Carries(source, product, body, q, SourceRead, Len(Header), 0, 0, 0, 0)
    BY <1>6, CarriesNone
  <2>4. action' = SourceRead
    BY <1>1, <1>4 DEF Ready, NotRead
  <2> HIDE DEF q
  <2>5. Carries(source, product, body, q, action', patchOffset', Len(output'),
                sourceRelative', targetRelative', left')
    BY <1>4, <1>6, <1>7, <2>3, <2>4
  <2>6. /\ patchOffset' \in Nat /\ sourceRelative' \in Nat /\ targetRelative' \in Nat /\ left' \in Nat
    BY <1>4, <1>6, <1>7
  <2> QED
    BY <1>5, <1>8, <2>1, <2>2, <2>5, <2>6 DEF BpsReading
<1>11. Reading'
  BY <1>4, <1>5, <1>7, <1>9, <1>10 DEF Reading
<1> QED
  BY <1>1, <1>4, <1>11, StillReading

-----------------------------------------------------------------------------
\* A step of ups::apply, by what it has written then and where it is.
LEMMA UpsReadingOn ==
  ASSUME PatchInv, phase = "apply", way = "ups", UNCHANGED filesVars, UNCHANGED makerVars,
         phase' = "apply", back' = back, outcome' = outcome,
         inside' \in BOOLEAN, NEW R, NEW l,
         inside' => UpsAt(source, product, Given, Wanted, body, R, l, patchOffset', output', TRUE),
         ~inside' => UpsAt(source, product, Given, Wanted, body, R, l, patchOffset', output', FALSE)
  PROVE  PatchInv'
<1>1. Files /\ Bodies /\ outcome = NoOutcome /\ back \in BOOLEAN
  BY DEF PatchInv, Reading
<1>2. way' = way /\ source' = source /\ product' = product /\ body' = body
  BY DEF filesVars, makerVars
<1>3. Given' = Given /\ Wanted' = Wanted
  BY <1>2 DEF Given, Wanted, Side
<1>4. UpsReading'
  BY <1>2, <1>3 DEF UpsReading
<1>5. Reading'
  BY <1>1, <1>2, <1>4 DEF Reading
<1> QED
  BY <1>1, <1>5, StillReading

\* What the reader has written after a step, and the mark where it is.
LEMMA UpsAtOn ==
  ASSUME NEW s, NEW t, NEW g, NEW w, NEW x, NEW R, NEW l, NEW i, NEW z, NEW in,
         UpsAt(s, t, g, w, x, R, l, i, z, in),
         NEW j \in Nat, NEW y, Right(y, w), NEW now, UpsMark(j, Len(y), now) \in R
  PROVE  UpsAt(s, t, g, w, x, R, l, j, y, now)
  BY DEF UpsAt

\* One lemma for each step of ups::apply: a number read leads to the next mark.
LEMMA UpsSkipKeeps == PatchInv /\ UpsSkip => PatchInv'
<1> SUFFICES ASSUME PatchInv, UpsSkip PROVE PatchInv'
  OBVIOUS
<1>1. /\ phase = "apply" /\ way = "ups" /\ patchOffset < Len(body)
      /\ output' = output \o [k \in 1..Number(body, patchOffset).number |-> At(Given, Len(output) + k - 1)]
      /\ patchOffset' = Number(body, patchOffset).next
      /\ UNCHANGED filesVars /\ UNCHANGED makerVars /\ phase' = "apply" /\ back' = back /\ outcome' = outcome
  BY DEF UpsSkip, Number
<1>2. inside' \in BOOLEAN /\ inside'
  BY DEF UpsSkip
<1>3. PICK R, l : UpsAt(source, product, Given, Wanted, body, R, l, patchOffset, output, FALSE)
  BY <1>1 DEF PatchInv, Reading, UpsReading, UpsSkip
<1> DEFINE i == Number(body, patchOffset).next
           y == output \o [k \in 1..Number(body, patchOffset).number |-> At(Given, Len(output) + k - 1)]
<1>4. Right(y, Wanted) /\ i \in Nat /\ UpsMark(i, Len(y), TRUE) \in R
  BY <1>1, <1>3, UpsSkips
<1>5. patchOffset' = i /\ output' = y
  BY <1>1
<1> HIDE DEF i, y
<1>6. UpsAt(source, product, Given, Wanted, body, R, l, i, y, TRUE)
  BY <1>3, <1>4, UpsAtOn
<1>7. UpsAt(source, product, Given, Wanted, body, R, l, patchOffset', output', TRUE)
  BY <1>5, <1>6
<1> QED
  BY <1>1, <1>2, <1>7, UpsReadingOn

\* So does a changed byte.
LEMMA UpsXorKeeps == PatchInv /\ UpsXor => PatchInv'
<1> SUFFICES ASSUME PatchInv, UpsXor PROVE PatchInv'
  OBVIOUS
<1> DEFINE in == At(body, patchOffset) # 0
           y == Append(output, Xor[At(body, patchOffset)][At(Given, Len(output))])
<1>1. /\ phase = "apply" /\ way = "ups"
      /\ output' = y /\ patchOffset' = patchOffset + 1 /\ inside' = in
      /\ UNCHANGED filesVars /\ UNCHANGED makerVars /\ phase' = "apply" /\ back' = back /\ outcome' = outcome
  BY DEF UpsXor
<1>3. PICK R, l : UpsAt(source, product, Given, Wanted, body, R, l, patchOffset, output, TRUE)
  BY <1>1 DEF PatchInv, Reading, UpsReading, UpsXor
<1>4. Right(y, Wanted) /\ UpsMark(patchOffset + 1, Len(y), in) \in R /\ patchOffset + 1 \in Nat
  <2>1. Right(y, Wanted) /\ UpsMark(patchOffset + 1, Len(y), in) \in R
    BY <1>3, UpsXors
  <2>2. patchOffset \in Nat
    BY <1>3 DEF UpsAt
  <2> QED
    BY <2>1, <2>2
<1>5. inside' \in BOOLEAN /\ (in => in = TRUE) /\ (~in => in = FALSE)
  BY <1>1
<1> DEFINE i == patchOffset + 1
<1>6. patchOffset' = i /\ i \in Nat /\ UpsMark(i, Len(y), in) \in R
  BY <1>1, <1>4
<1> HIDE DEF i, y, in
<1>7. UpsAt(source, product, Given, Wanted, body, R, l, i, y, in)
  BY <1>3, <1>4, <1>6, UpsAtOn
<1>8. /\ inside' => UpsAt(source, product, Given, Wanted, body, R, l, patchOffset', output', TRUE)
      /\ ~inside' => UpsAt(source, product, Given, Wanted, body, R, l, patchOffset', output', FALSE)
  BY <1>1, <1>5, <1>6, <1>7
<1> QED
  BY <1>1, <1>5, <1>8, UpsReadingOn

\* The end: it is the file wanted that has been written.
LEMMA UpsAppliedKeeps == PatchInv /\ UpsApplied => PatchInv'
<1> SUFFICES ASSUME PatchInv, UpsApplied PROVE PatchInv'
  OBVIOUS
<1> DEFINE from == SourceSize.number
           to == ProductSize.number
           n == IF Len(Given) = from THEN to ELSE from
           y == [k \in 1..n |-> IF k <= Len(output) THEN output[k] ELSE At(Given, k - 1)]
           forth == Given = source /\ Len(Given) = from
           home == ~forth /\ Given = product /\ Len(Given) = to
<1>1. /\ phase = "apply" /\ way = "ups" /\ patchOffset >= Len(body)
      /\ UNCHANGED filesVars /\ UNCHANGED makerVars /\ phase' = "done" /\ back' = back
  BY DEF UpsApplied
<1>2. outcome' = [result |-> IF ~forth /\ ~home THEN "source_invalid"
                             ELSE IF \/ forth /\ y = product /\ n = to
                                     \/ home /\ y = source /\ n = from
                             THEN "success" ELSE "target_invalid",
                  output |-> y]
  BY DEF UpsApplied
<1>3. PICK R, l : UpsAt(source, product, Given, Wanted, body, R, l, patchOffset, output, FALSE)
  BY <1>1 DEF PatchInv, Reading, UpsReading, UpsApplied
<1>4. Files /\ Bodies /\ Sides(Given, Wanted, source, product)
  BY <1>3 DEF PatchInv, UpsAt
<1>5. from = Len(source) /\ to = Len(product)
  BY <1>4, HeaderRead
<1>6. n = Len(Wanted)
  BY <1>4, <1>5 DEF Sides
<1>7. y = [k \in 1..Len(Wanted) |-> IF k <= Len(output) THEN output[k] ELSE At(Given, k - 1)]
  BY <1>6
<1>8. y = Wanted
  <2>1. patchOffset >= Len(body)
    BY <1>1
  <2>3. Fills(output, Given, Wanted)
    BY <1>3, <2>1, UpsFills
  <2>2. Wanted = [k \in 1..Len(Wanted) |-> Wanted[k]]
    BY <1>3 DEF UpsAt
  <2> HIDE DEF y
  <2> QED
    BY <1>7, <2>2, <2>3 DEF Fills
<1> HIDE DEF from, to, n, y
<1>9. outcome' = [result |-> "success", output |-> Wanted]
  <2>1. CASE Given = source /\ Wanted = product
    <3>1. forth /\ y = product /\ n = to
      BY <1>5, <1>6, <1>8, <2>1
    <3> QED
      BY <1>2, <1>8, <3>1
  <2>2. CASE Given = product /\ Wanted = source /\ forth
    <3>1. forth /\ y = product /\ n = to
      BY <1>5, <1>6, <1>8, <2>2
    <3> QED
      BY <1>2, <1>8, <3>1
  <2>3. CASE Given = product /\ Wanted = source /\ ~forth
    <3>1. home /\ y = source /\ n = from
      BY <1>5, <1>6, <1>8, <2>3
    <3> QED
      BY <1>2, <1>8, <3>1
  <2> QED
    BY <1>4, <2>1, <2>2, <2>3 DEF Sides
<1>10. Files' /\ Bodies' /\ Wanted' = Wanted
  BY <1>1, <1>4, BodyKept, FilesKept DEF makerVars, Wanted, Side, filesVars
<1> QED
  BY <1>1, <1>9, <1>10 DEF PatchInv, RoundTrip

-----------------------------------------------------------------------------
\* A step of bpspatch::apply, by what is still to write of a command then.
LEMMA BpsReadingOn ==
  ASSUME PatchInv, phase = "apply", way # "ups", UNCHANGED filesVars, UNCHANGED makerVars,
         phase' = "apply", back' = back, outcome' = outcome,
         patchOffset' \in Nat, sourceRelative' \in Nat, targetRelative' \in Nat, left' \in Nat,
         Right(output', product), NEW R, NEW l, BpsWhole(source, product, body, Len(Header), R, l), NEW q \in R,
         Carries(source, product, body, q, action', patchOffset', Len(output'),
                 sourceRelative', targetRelative', left')
  PROVE  PatchInv'
<1>1. Files /\ Bodies /\ outcome = NoOutcome /\ back \in BOOLEAN /\ (back => way = "ups")
  BY DEF PatchInv, Reading
<1>2. way' = way /\ source' = source /\ product' = product /\ body' = body /\ Header' = Header
  BY <1>1, BodyKept DEF filesVars, makerVars
<1>3. BpsReading'
  BY <1>2 DEF BpsReading
<1>4. Reading'
  BY <1>1, <1>2, <1>3 DEF Reading
<1> QED
  BY <1>1, <1>4, StillReading

\* One lemma for each step of bpspatch::apply: a command is that of the mark.
LEMMA BpsCommandKeeps == PatchInv /\ BpsCommand => PatchInv'
<1> SUFFICES ASSUME PatchInv, BpsCommand PROVE PatchInv'
  OBVIOUS
<1> DEFINE code == Number(body, patchOffset)
           offset == Number(body, code.next)
           number == Narrow(code.number)
           mode == number % 4
           n == number \div 4 + 1
           distance == Unsigned(AsSigned(offset.number))
<1>1. /\ phase = "apply" /\ way # "ups" /\ left = 0 /\ patchOffset < Len(body)
      /\ action' = mode /\ left' = n
      /\ UNCHANGED filesVars /\ UNCHANGED makerVars /\ phase' = phase /\ back' = back /\ outcome' = outcome
      /\ output' = output
  BY DEF BpsCommand, Number
<1>2. \/ /\ mode \in {SourceRead, TargetRead} /\ patchOffset' = code.next
         /\ sourceRelative' = sourceRelative /\ targetRelative' = targetRelative
      \/ /\ mode = SourceCopy /\ patchOffset' = offset.next
         /\ sourceRelative' = sourceRelative + distance /\ targetRelative' = targetRelative
      \/ /\ mode = TargetCopy /\ patchOffset' = offset.next
         /\ targetRelative' = targetRelative + distance /\ sourceRelative' = sourceRelative
  BY DEF BpsCommand, Number
<1>3. BpsReading /\ body \in Seq(Nat)
  BY <1>1 DEF PatchInv, Reading, Bodies
<1>4. /\ patchOffset \in Nat /\ sourceRelative \in Nat /\ targetRelative \in Nat
      /\ Right(output, product) /\ Len(output) \in Nat
  BY <1>3 DEF BpsReading, Right
<1>5. PICK R, l : /\ BpsWhole(source, product, body, Len(Header), R, l)
                  /\ \E q \in R : Carries(source, product, body, q, action, patchOffset, Len(output),
                                          sourceRelative, targetRelative, 0)
  BY <1>1, <1>3 DEF BpsReading
<1> DEFINE p == BpsMark(patchOffset, Len(output), sourceRelative, targetRelative)
<1>6. p \in R
  BY <1>4, <1>5, CarriesDone
<1>7. /\ p \in BpsMarks /\ p.at = patchOffset /\ p.offset = Len(output)
      /\ p.source = sourceRelative /\ p.target = targetRelative
  <2>1. p \in BpsMarks
    BY <1>4, BpsMarkIs
  <2>2. p.at = patchOffset /\ p.offset = Len(output)
    BY DEF BpsMark
  <2>3. p.source = sourceRelative /\ p.target = targetRelative
    BY DEF BpsMark
  <2> QED
    BY <2>1, <2>2, <2>3
<1> HIDE DEF p
<1>8. p # l
  BY <1>1, <1>3, <1>4, <1>5, <1>7 DEF BpsWhole
<1>9. PICK q \in R : BpsStep(source, product, body, p, q)
  BY <1>5, <1>6, <1>8 DEF BpsWhole, BpsPath
<1>10. code = Number(body, p.at) /\ offset = Number(body, code.next)
  BY <1>7
<1> HIDE DEF code, offset
<1>11. /\ code.next \in Nat /\ mode \in 0..3 /\ n \in Nat
       /\ mode \in {SourceRead, TargetRead} =>
              Carries(source, product, body, q, mode, code.next, p.offset, p.source, p.target, n)
       /\ mode = SourceCopy =>
              /\ offset.next \in Nat /\ p.source + distance \in Nat
              /\ Carries(source, product, body, q, SourceCopy, offset.next, p.offset,
                         p.source + distance, p.target, n)
       /\ mode = TargetCopy =>
              /\ offset.next \in Nat /\ p.target + distance \in Nat
              /\ Carries(source, product, body, q, TargetCopy, offset.next, p.offset,
                         p.source, p.target + distance, n)
  BY <1>3, <1>7, <1>9, <1>10, CommandReads
<1> HIDE DEF mode, n
<1>12. /\ patchOffset' \in Nat /\ sourceRelative' \in Nat /\ targetRelative' \in Nat
       /\ Carries(source, product, body, q, action', patchOffset', Len(output'),
                  sourceRelative', targetRelative', left')
  <2>1. CASE mode \in {SourceRead, TargetRead}
    <3>1. mode \notin {SourceCopy, TargetCopy}
      BY <2>1 DEF SourceRead, TargetRead, SourceCopy, TargetCopy
    <3> QED
      BY <1>1, <1>2, <1>4, <1>7, <1>11, <2>1, <3>1
  <2>2. CASE mode = SourceCopy
    <3>1. mode \notin {SourceRead, TargetRead, TargetCopy}
      BY <2>2 DEF SourceRead, TargetRead, SourceCopy, TargetCopy
    <3> QED
      BY <1>1, <1>2, <1>4, <1>7, <1>11, <2>2, <3>1
  <2>3. CASE mode = TargetCopy
    <3>1. mode \notin {SourceRead, TargetRead, SourceCopy}
      BY <2>3 DEF SourceRead, TargetRead, SourceCopy, TargetCopy
    <3> QED
      BY <1>1, <1>2, <1>4, <1>7, <1>11, <2>3, <3>1
  <2> QED
    BY <1>2, <2>1, <2>2, <2>3
<1>13. phase' = "apply" /\ left' \in Nat /\ Right(output', product)
  BY <1>1, <1>4, <1>11
<1> QED
  BY <1>1, <1>5, <1>9, <1>12, <1>13, BpsReadingOn

\* Each byte that is written is that of the product.
LEMMA BpsByteKeeps == PatchInv /\ BpsByte => PatchInv'
<1> SUFFICES ASSUME PatchInv, BpsByte PROVE PatchInv'
  OBVIOUS
<1>1. /\ phase = "apply" /\ way # "ups" /\ left > 0 /\ left' = left - 1 /\ action' = action
      /\ UNCHANGED filesVars /\ UNCHANGED makerVars /\ phase' = phase /\ back' = back /\ outcome' = outcome
  BY DEF BpsByte
<1>2. \/ /\ action = SourceRead /\ output' = Append(output, At(source, Len(output)))
         /\ patchOffset' = patchOffset /\ sourceRelative' = sourceRelative /\ targetRelative' = targetRelative
      \/ /\ action = TargetRead /\ output' = Append(output, At(body, patchOffset))
         /\ patchOffset' = patchOffset + 1 /\ sourceRelative' = sourceRelative /\ targetRelative' = targetRelative
      \/ /\ action = SourceCopy /\ output' = Append(output, At(source, sourceRelative))
         /\ patchOffset' = patchOffset /\ sourceRelative' = sourceRelative + 1 /\ targetRelative' = targetRelative
      \/ /\ action = TargetCopy /\ output' = Append(output, At(output, targetRelative))
         /\ patchOffset' = patchOffset /\ sourceRelative' = sourceRelative /\ targetRelative' = targetRelative + 1
  BY DEF BpsByte
<1>3. BpsReading /\ body \in Seq(Nat) /\ source \in Seq(Nat) /\ product \in Seq(Nat)
  BY <1>1 DEF PatchInv, Reading, Bodies, Files
<1>4. /\ patchOffset \in Nat /\ sourceRelative \in Nat /\ targetRelative \in Nat /\ left \in Nat \ {0}
      /\ Right(output, product)
  BY <1>1, <1>3 DEF BpsReading
<1>5. PICK R, l : /\ BpsWhole(source, product, body, Len(Header), R, l)
                  /\ \E q \in R : Carries(source, product, body, q, action, patchOffset, Len(output),
                                          sourceRelative, targetRelative, left)
  BY <1>3 DEF BpsReading
<1>6. PICK q \in R : Carries(source, product, body, q, action, patchOffset, Len(output),
                             sourceRelative, targetRelative, left)
  BY <1>5
<1>7. /\ action = SourceRead =>
            /\ Right(Append(output, At(source, Len(output))), product)
            /\ Carries(source, product, body, q, action, patchOffset,
                       Len(Append(output, At(source, Len(output)))), sourceRelative, targetRelative, left - 1)
      /\ action = TargetRead =>
            /\ Right(Append(output, At(body, patchOffset)), product)
            /\ Carries(source, product, body, q, action, patchOffset + 1,
                       Len(Append(output, At(body, patchOffset))), sourceRelative, targetRelative, left - 1)
      /\ action = SourceCopy =>
            /\ Right(Append(output, At(source, sourceRelative)), product)
            /\ Carries(source, product, body, q, action, patchOffset,
                       Len(Append(output, At(source, sourceRelative))), sourceRelative + 1, targetRelative, left - 1)
      /\ action = TargetCopy =>
            /\ Right(Append(output, At(output, targetRelative)), product)
            /\ Carries(source, product, body, q, action, patchOffset,
                       Len(Append(output, At(output, targetRelative))), sourceRelative, targetRelative + 1, left - 1)
  BY <1>3, <1>4, <1>6, ByteReads
<1>8. /\ Right(output', product)
      /\ Carries(source, product, body, q, action', patchOffset', Len(output'),
                 sourceRelative', targetRelative', left')
  <2>1. CASE action = SourceRead
    <3>1. action \notin {TargetRead, SourceCopy, TargetCopy}
      BY <2>1 DEF SourceRead, TargetRead, SourceCopy, TargetCopy
    <3> QED
      BY <1>1, <1>2, <1>7, <2>1, <3>1
  <2>2. CASE action = TargetRead
    <3>1. action \notin {SourceRead, SourceCopy, TargetCopy}
      BY <2>2 DEF SourceRead, TargetRead, SourceCopy, TargetCopy
    <3> QED
      BY <1>1, <1>2, <1>7, <2>2, <3>1
  <2>3. CASE action = SourceCopy
    <3>1. action \notin {SourceRead, TargetRead, TargetCopy}
      BY <2>3 DEF SourceRead, TargetRead, SourceCopy, TargetCopy
    <3> QED
      BY <1>1, <1>2, <1>7, <2>3, <3>1
  <2>4. CASE action = TargetCopy
    <3>1. action \notin {SourceRead, TargetRead, SourceCopy}
      BY <2>4 DEF SourceRead, TargetRead, SourceCopy, TargetCopy
    <3> QED
      BY <1>1, <1>2, <1>7, <2>4, <3>1
  <2> QED
    BY <1>2, <2>1, <2>2, <2>3, <2>4
<1>9. /\ phase' = "apply" /\ left' \in Nat
      /\ patchOffset' \in Nat /\ sourceRelative' \in Nat /\ targetRelative' \in Nat
  BY <1>1, <1>2, <1>4
<1> QED
  BY <1>1, <1>5, <1>6, <1>8, <1>9, BpsReadingOn

\* The end: it is the product that has been written.
LEMMA BpsAppliedKeeps == PatchInv /\ BpsApplied => PatchInv'
<1> SUFFICES ASSUME PatchInv, BpsApplied PROVE PatchInv'
  OBVIOUS
<1>1. /\ phase = "apply" /\ way # "ups" /\ left = 0 /\ patchOffset >= Len(body)
      /\ UNCHANGED filesVars /\ UNCHANGED makerVars /\ phase' = "done" /\ back' = back
      /\ outcome' = IF SubSeq(source, 1, SourceSize.number) # source
                    THEN [result |-> "source_checksum_invalid"]
                    ELSE IF output # product THEN [result |-> "target_checksum_invalid"]
                    ELSE [result |-> "success", output |-> output]
  BY DEF BpsApplied
<1>2. Reading /\ BpsReading /\ Files /\ Bodies
  BY <1>1 DEF PatchInv, Reading
<1>3. body \in Seq(Nat) /\ source \in Seq(Nat) /\ product \in Seq(Nat)
  BY <1>2 DEF Bodies, Files
<1>4. /\ patchOffset \in Nat /\ sourceRelative \in Nat /\ targetRelative \in Nat
      /\ Right(output, product) /\ Len(output) \in Nat
  BY <1>2 DEF BpsReading, Right
<1>5. PICK R, l : /\ BpsWhole(source, product, body, Len(Header), R, l)
                  /\ \E q \in R : Carries(source, product, body, q, action, patchOffset, Len(output),
                                          sourceRelative, targetRelative, 0)
  BY <1>1, <1>2 DEF BpsReading
<1> DEFINE p == BpsMark(patchOffset, Len(output), sourceRelative, targetRelative)
<1>6. p \in R
  BY <1>4, <1>5, CarriesDone
<1>7. p.at = patchOffset /\ p.offset = Len(output)
  BY DEF BpsMark
<1> HIDE DEF p
<1>8. p = l
  BY <1>1, <1>3, <1>5, <1>6, <1>7, BpsEnds
<1>9. output = product
  <2>1. Len(output) = Len(product)
    BY <1>5, <1>7, <1>8 DEF BpsWhole
  <2> QED
    BY <1>3, <1>4, <2>1, RightWhole
<1>10. SubSeq(source, 1, SourceSize.number) = source
  <2>1. SourceSize.number = Len(source)
    BY <1>2, HeaderRead
  <2>2. SubSeq(source, 1, Len(source)) = source
    BY <1>3
  <2> QED
    BY <2>1, <2>2
<1>11. Wanted = product
  <2>1. ~back
    BY <1>1, <1>2 DEF Reading
  <2> QED
    BY <2>1 DEF Wanted, Side
<1>12. outcome' = [result |-> "success", output |-> Wanted]
  BY <1>1, <1>9, <1>10, <1>11
<1>13. Files' /\ Bodies' /\ Wanted' = Wanted
  BY <1>1, <1>2, BodyKept, FilesKept DEF makerVars, Wanted, Side, filesVars
<1> QED
  BY <1>1, <1>12, <1>13 DEF PatchInv, RoundTrip

-----------------------------------------------------------------------------
\* A step that changes nothing.
LEMMA StayKeeps == PatchInv /\ UNCHANGED patchVars => PatchInv'
<1> SUFFICES ASSUME PatchInv, UNCHANGED patchVars PROVE PatchInv'
  OBVIOUS
<1>1. /\ way' = way /\ source' = source /\ product' = product /\ phase' = phase /\ body' = body
      /\ outputOffset' = outputOffset /\ relative' = relative /\ starts' = starts
      /\ inside' = inside /\ sourceRelative' = sourceRelative /\ targetRelative' = targetRelative
      /\ back' = back /\ patchOffset' = patchOffset /\ output' = output
      /\ action' = action /\ left' = left /\ outcome' = outcome
  BY DEF patchVars, filesVars, makerVars, readerVars
<1>2. Header' = Header /\ Given' = Given /\ Wanted' = Wanted
  BY <1>1 DEF Header, Given, Wanted, Side
<1>3. (Files' <=> Files) /\ (Bodies' <=> Bodies) /\ (RoundTrip' <=> RoundTrip) /\ (NotRead' <=> NotRead)
  BY <1>1, <1>2 DEF Files, Bodies, RoundTrip, NotRead
<1>4. (UpsMaking' <=> UpsMaking) /\ (BpsMaking' <=> BpsMaking)
  BY <1>1, <1>2 DEF UpsMaking, BpsMaking
<1>5. (UpsMadeWhole' <=> UpsMadeWhole) /\ (BpsMadeWhole' <=> BpsMadeWhole)
  BY <1>1, <1>2 DEF UpsMadeWhole, BpsMadeWhole
<1>6. (UpsReading' <=> UpsReading) /\ (BpsReading' <=> BpsReading)
  BY <1>1, <1>2 DEF UpsReading, BpsReading
<1>7. (Creating' <=> Creating) /\ (Ready' <=> Ready) /\ (Reading' <=> Reading)
  BY <1>1, <1>3, <1>4, <1>5, <1>6 DEF Creating, Ready, Reading
<1> QED
  BY <1>1, <1>3, <1>7 DEF PatchInv

\* A patch made of any two data, in any of the three ways, turns the one into the
\* other, and an ups one turns it back: whatever both hold and however long they
\* are, base and the shortest run included.
THEOREM RoundTripHolds == PatchSpec => []RoundTrip
<1>1. PatchInit => PatchInv
  BY InitInv
<1>2. PatchInv /\ [PatchNext]_patchVars => PatchInv'
  <2> SUFFICES ASSUME PatchInv, [PatchNext]_patchVars PROVE PatchInv'
    OBVIOUS
  <2>1. CASE Create
    BY <2>1, UpsSameKeeps, UpsDifferKeeps, UpsChangeKeeps, UpsMadeKeeps, LinearKeeps, DeltaKeeps, BpsMadeKeeps
       DEF Create
  <2>2. CASE \E b \in BOOLEAN : Apply(b)
    BY <2>2, ApplyKeeps
  <2>3. CASE Applying
    BY <2>3, UpsSkipKeeps, UpsXorKeeps, UpsAppliedKeeps, BpsCommandKeeps, BpsByteKeeps, BpsAppliedKeeps
       DEF Applying
  <2>4. CASE UNCHANGED patchVars
    BY <2>4, StayKeeps
  <2> QED
    BY <2>1, <2>2, <2>3, <2>4 DEF PatchNext
<1>3. PatchInv => RoundTrip
  BY DEF PatchInv
<1> QED
  BY <1>1, <1>2, <1>3, PTL DEF PatchSpec
=============================================================================
