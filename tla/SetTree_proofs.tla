--------------------------- MODULE SetTree_proofs ---------------------------
(***************************************************************************)
(* Proofs about nall's set, a red-black tree, for every finite set of      *)
(* integers: TreeImplementsHolds, that each call does to the values what   *)
(* ValueSet does, and RedBlackHolds, that the tree stays a red-black tree  *)
(* of as many nodes as are counted and is iterated over in order.          *)
(*                                                                         *)
(* The invariant, TreeInv, says of the root that it is a tree with a set   *)
(* of values and a black height, black, and that its values are counted.   *)
(* Tree(n, S, h) is that relation: the least one that has Nil and the node *)
(* above any two of one height, in order and without red above red.  What  *)
(* is to be shown of all trees is shown along it (TreeBy); the recursive   *)
(* functions of SetTree are unfolded once each (ValueIs and so on).        *)
(*                                                                         *)
(* Insertion leaves a loose tree, the root of which may be red above red;  *)
(* RepairedIs takes that up one level.  Removal leaves a tree of its old   *)
(* height or of the next lower one (Leaves); BalancedIs takes that up.     *)
(* Both are stated by the sides d and e of a node, which the code reaches  *)
(* as link[dir] and link[!dir], so that each case is proved once.          *)
(*                                                                         *)
(* An iteration is at a path from the root down.  The paths of a node's    *)
(* values are those of its children with the node before them, and a step  *)
(* of operator++ from the one to a value goes to the one of the next       *)
(* (PathsAbove); the ith step is at the ith value (StackAt).               *)
(***************************************************************************)
EXTENDS SetTree, SequenceTheorems, FiniteSetTheorems, WellFoundedInduction, TLAPS

\* A node; the same by the side d and the other side, e; the two colours.
Node(v, c, l, r) == [value |-> v, red |-> c, left |-> l, right |-> r]
Mk(v, c, d, x, y) == IF d THEN Node(v, c, y, x) ELSE Node(v, c, x, y)
Sides(d, e) == d \in BOOLEAN /\ e = ~d
On == TRUE
Off == FALSE

\* The colours, as names: a node is red (On) or not (Off).
LEMMA Colours == On /\ ~Off /\ On \in BOOLEAN /\ Off \in BOOLEAN /\ On # Off
  BY DEF On, Off

\* A node has the fields it is made of, and is not Nil.
LEMMA NodeFields ==
  ASSUME NEW v, NEW c, NEW l, NEW r
  PROVE  /\ Node(v, c, l, r).value = v
         /\ Node(v, c, l, r).red = c
         /\ Node(v, c, l, r).left = l
         /\ Node(v, c, l, r).right = r
         /\ Node(v, c, l, r) # Nil
  BY DEF Node, Nil

\* What settles a node: its own colour and black children.
Settled(n, c) == [n EXCEPT !.red = c, !.left = Black(@), !.right = Black(@)]
Moved(n, v) == [n EXCEPT !.value = v]

\* What each assignment to a field makes of a node.
LEMMA NodeMoved ==
  ASSUME NEW v, NEW c, NEW l, NEW r, NEW w
  PROVE  Moved(Node(v, c, l, r), w) = Node(w, c, l, r)
  BY DEF Node, Moved
LEMMA NodePainted ==
  ASSUME NEW v, NEW c, NEW l, NEW r, NEW w
  PROVE  Painted(Node(v, c, l, r), w) = Node(v, w, l, r)
  BY DEF Node, Painted
LEMMA NodeLeft ==
  ASSUME NEW v, NEW c, NEW l, NEW r, NEW w
  PROVE  SetLink(Node(v, c, l, r), Off, w) = Node(v, c, w, r)
  BY DEF Node, SetLink, Off
LEMMA NodeRight ==
  ASSUME NEW v, NEW c, NEW l, NEW r, NEW w
  PROVE  SetLink(Node(v, c, l, r), On, w) = Node(v, c, l, w)
  BY DEF Node, SetLink, On
LEMMA NodeBlack ==
  ASSUME NEW v, NEW c, NEW l, NEW r
  PROVE  Black(Node(v, c, l, r)) = Node(v, Off, l, r)
<1>1. ASSUME NEW n, n # Nil PROVE Black(n) = Painted(n, Off)
  BY <1>1 DEF Black, Off
<1> QED
  BY <1>1, NodeFields, NodePainted
LEMMA NodeSettled ==
  ASSUME NEW v, NEW c, NEW l, NEW r, NEW q
  PROVE  Settled(Node(v, c, l, r), q) = Node(v, q, Black(l), Black(r))
<1>1. ASSUME NEW n
      PROVE  Settled(n, q) = SetLink(SetLink(Painted(n, q), Off, Black(n.left)), On, Black(n.right))
  BY DEF Settled, Painted, SetLink, On, Off
<1>2. Settled(Node(v, c, l, r), q)
        = SetLink(SetLink(Painted(Node(v, c, l, r), q), Off, Black(l)), On, Black(r))
  BY <1>1, NodeFields
<1>3. Painted(Node(v, c, l, r), q) = Node(v, q, l, r)
  BY NodePainted
<1>4. SetLink(Node(v, q, l, r), Off, Black(l)) = Node(v, q, Black(l), r)
  BY NodeLeft
<1>5. SetLink(Node(v, q, Black(l), r), On, Black(r)) = Node(v, q, Black(l), Black(r))
  BY NodeRight
<1> QED
  BY <1>2, <1>3, <1>4, <1>5

\* A null pointer reads as black, and stays null when it is painted.
LEMMA NilIs == Nil.red = FALSE /\ Black(Nil) = Nil
  BY DEF Nil, Black

\* A node by its sides is a node by its left and right, one way or the other.
LEMMA MkCases ==
  ASSUME NEW d, NEW e, Sides(d, e)
  PROVE  \/ d = On /\ e = Off /\ \A v, c, x, y : Mk(v, c, d, x, y) = Node(v, c, y, x)
         \/ d = Off /\ e = On /\ \A v, c, x, y : Mk(v, c, d, x, y) = Node(v, c, x, y)
  BY DEF Sides, On, Off, Mk

\* The sides the other way round.
LEMMA OtherSide ==
  ASSUME NEW d, NEW e, Sides(d, e)
  PROVE  Sides(e, d)
  BY DEF Sides

\* The fields of a node by its sides, and what each assignment makes of it.
LEMMA MkFields ==
  ASSUME NEW v, NEW c, NEW d, NEW e, Sides(d, e), NEW x, NEW y
  PROVE  /\ Mk(v, c, d, x, y).value = v
         /\ Mk(v, c, d, x, y).red = c
         /\ Link(Mk(v, c, d, x, y), d) = x
         /\ Link(Mk(v, c, d, x, y), e) = y
         /\ Mk(v, c, d, x, y) # Nil
<1>1. ASSUME NEW n PROVE Link(n, On) = n.right /\ Link(n, Off) = n.left
  BY DEF Link, On, Off
<1> QED
  BY <1>1, MkCases, NodeFields
LEMMA MkOther ==
  ASSUME NEW v, NEW c, NEW d, NEW e, Sides(d, e), NEW x, NEW y
  PROVE  Mk(v, c, e, x, y) = Mk(v, c, d, y, x)
  BY DEF Mk, Sides
LEMMA MkPainted ==
  ASSUME NEW v, NEW c, NEW d, NEW e, Sides(d, e), NEW x, NEW y, NEW z
  PROVE  Painted(Mk(v, c, d, x, y), z) = Mk(v, z, d, x, y)
  BY MkCases, NodePainted
LEMMA MkNear ==
  ASSUME NEW v, NEW c, NEW d, NEW e, Sides(d, e), NEW x, NEW y, NEW z
  PROVE  SetLink(Mk(v, c, d, x, y), d, z) = Mk(v, c, d, z, y)
  BY MkCases, NodeLeft, NodeRight
LEMMA MkFar ==
  ASSUME NEW v, NEW c, NEW d, NEW e, Sides(d, e), NEW x, NEW y, NEW z
  PROVE  SetLink(Mk(v, c, d, x, y), e, z) = Mk(v, c, d, x, z)
  BY MkCases, NodeLeft, NodeRight
LEMMA MkBlack ==
  ASSUME NEW v, NEW c, NEW d, NEW e, Sides(d, e), NEW x, NEW y
  PROVE  Black(Mk(v, c, d, x, y)) = Mk(v, Off, d, x, y)
  BY MkCases, NodeBlack
LEMMA MkSettled ==
  ASSUME NEW v, NEW c, NEW d, NEW e, Sides(d, e), NEW x, NEW y, NEW z
  PROVE  Settled(Mk(v, c, d, x, y), z) = Mk(v, z, d, Black(x), Black(y))
  BY MkCases, NodeSettled

\* rotate, seen from the child that comes up.
LEMMA RotateIs ==
  ASSUME NEW v, NEW c, NEW d, NEW e, Sides(d, e), NEW x, NEW w, NEW q, NEW a, NEW b
  PROVE  Rotate(Mk(v, c, d, x, Mk(w, q, d, a, b)), d)
           = Mk(w, Off, d, Mk(v, On, d, x, a), b)
<1> DEFINE s == Mk(w, q, d, a, b)
           n == Mk(v, c, d, x, s)
<1>1. Rotate(n, d) = SetLink(Painted(Link(n, e), Off), d, SetLink(Painted(n, On), e, Link(Link(n, e), d)))
  BY DEF Sides, Rotate, On, Off
<1>2. Link(n, e) = s /\ Link(s, d) = a
  BY MkFields
<1>3. Painted(s, Off) = Mk(w, Off, d, a, b) /\ Painted(n, On) = Mk(v, On, d, x, s)
  BY MkPainted
<1>4. SetLink(Mk(v, On, d, x, s), e, a) = Mk(v, On, d, x, a)
  BY MkFar
<1>5. SetLink(Mk(w, Off, d, a, b), d, Mk(v, On, d, x, a)) = Mk(w, Off, d, Mk(v, On, d, x, a), b)
  BY MkNear
<1> HIDE DEF s, n
<1>6. Rotate(n, d) = Mk(w, Off, d, Mk(v, On, d, x, a), b)
  BY <1>1, <1>2, <1>3, <1>4, <1>5
<1> QED
  BY <1>6 DEF n, s

\* The double rotation, seen from the grandchild that comes up.
LEMMA RotateTwiceIs ==
  ASSUME NEW v, NEW c, NEW d, NEW e, Sides(d, e), NEW x, NEW w, NEW q, NEW u, NEW p,
         NEW a1, NEW a2, NEW b
  PROVE  RotateTwice(Mk(v, c, d, x, Mk(w, q, d, Mk(u, p, d, a1, a2), b)), d)
           = Mk(u, Off, d, Mk(v, On, d, x, a1), Mk(w, On, d, a2, b))
<1> DEFINE s == Mk(w, q, d, Mk(u, p, d, a1, a2), b)
           n == Mk(v, c, d, x, s)
           up == Mk(u, Off, d, a1, Mk(w, On, d, a2, b))
<1>1. RotateTwice(n, d) = Rotate(SetLink(n, e, Rotate(Link(n, e), e)), d)
  BY DEF Sides, RotateTwice
<1>2. Link(n, e) = s
  BY MkFields
<1>3. Rotate(s, e) = up
  <2>1. s = Mk(w, q, e, b, Mk(u, p, e, a2, a1))
    BY MkOther
  <2>2. Rotate(s, e) = Mk(u, Off, e, Mk(w, On, e, b, a2), a1)
    BY <2>1, OtherSide, RotateIs
  <2> QED
    BY <2>2, MkOther
<1>4. SetLink(n, e, up) = Mk(v, c, d, x, up)
  BY MkFar
<1> QED
  BY <1>1, <1>2, <1>3, <1>4, RotateIs

-----------------------------------------------------------------------------
\* Natural numbers that are not all in S have a least one outside it.
LEMMA LeastOutside ==
  ASSUME NEW S, NEW n \in Nat, n \notin S
  PROVE  \E k \in Nat : k \notin S /\ \A j \in Nat : j < k => j \in S
<1> DEFINE T == {k \in Nat : k \notin S}
<1>1. T \subseteq Nat /\ T # {}
  OBVIOUS
<1>2. IsWellFoundedOn(OpToRel(<, Nat), Nat)
  BY NatLessThanWellFounded
<1>3. PICK k \in T : \A j \in T : ~(<<j, k>> \in OpToRel(<, Nat))
  BY <1>1, <1>2, WFMin
<1>4. \A j \in T : ~(j < k)
  BY <1>1, <1>3 DEF OpToRel
<1> QED
  BY <1>3, <1>4

\* A set with 0 and with the successors of what is in it has every number.
LEMMA Numbers ==
  ASSUME NEW S, 0 \in S, \A k \in Nat : k \in S => k + 1 \in S
  PROVE  \A n \in Nat : n \in S
<1> SUFFICES ASSUME NEW n \in Nat, n \notin S PROVE FALSE
  OBVIOUS
<1>1. PICK k \in Nat : k \notin S /\ \A j \in Nat : j < k => j \in S
  BY LeastOutside
<1>2. k # 0 /\ k - 1 \in Nat /\ k - 1 < k /\ (k - 1) + 1 = k
  BY <1>1
<1> QED
  BY <1>1, <1>2

\* The trees no deeper than h, from those no deeper than h - 1.
Deeper(T) == {Nil} \union [value : Values, red : BOOLEAN, left : T, right : T]
DeepFrom(f, m) == f = [h \in 0..m |-> IF h = 0 THEN {Nil} ELSE Deeper(f[h - 1])]

\* There is one up to each depth.
LEMMA DeepExists ==
  ASSUME NEW m \in Nat
  PROVE  \E f : DeepFrom(f, m)
<1> DEFINE Good == {k \in Nat : \E f : DeepFrom(f, k)}
<1>0. ASSUME NEW f, NEW k
      PROVE  DeepFrom(f, k) <=> f = [h \in 0..k |-> IF h = 0 THEN {Nil} ELSE Deeper(f[h - 1])]
  BY DEF DeepFrom
<1>1. 0 \in Good
  <2> DEFINE g == [h \in 0..0 |-> {Nil}]
  <2>1. g = [h \in 0..0 |-> IF h = 0 THEN {Nil} ELSE Deeper(g[h - 1])]
    OBVIOUS
  <2> HIDE DEF g
  <2> QED
    BY <1>0, <2>1
<1>2. ASSUME NEW k \in Nat, k \in Good PROVE k + 1 \in Good
  <2>1. PICK f : DeepFrom(f, k)
    BY <1>2
  <2> DEFINE g == [h \in 0..k + 1 |-> IF h = k + 1 THEN Deeper(f[k]) ELSE f[h]]
  <2>2. f = [h \in 0..k |-> IF h = 0 THEN {Nil} ELSE Deeper(f[h - 1])]
    BY <1>0, <2>1
  <2>3. ASSUME NEW h \in 0..k + 1 PROVE g[h] = IF h = 0 THEN {Nil} ELSE Deeper(g[h - 1])
    <3>1. CASE h = k + 1
      <4>1. h # 0 /\ h - 1 = k /\ g[h] = Deeper(f[k]) /\ g[k] = f[k]
        BY <3>1
      <4> QED
        BY <4>1
    <3>2. CASE h # k + 1
      <4>1. h \in 0..k /\ g[h] = f[h]
        BY <3>2
      <4>2. h # 0 => g[h - 1] = f[h - 1]
        BY <3>2
      <4>3. f[h] = IF h = 0 THEN {Nil} ELSE Deeper(f[h - 1])
        BY <2>2, <4>1
      <4> QED
        BY <4>1, <4>2, <4>3
    <3> QED
      BY <3>1, <3>2
  <2>4. DOMAIN g = 0..k + 1 /\ g = [h \in 0..k + 1 |-> g[h]]
    OBVIOUS
  <2> HIDE DEF g
  <2>5. g = [h \in 0..k + 1 |-> IF h = 0 THEN {Nil} ELSE Deeper(g[h - 1])]
    BY <2>3, <2>4
  <2> QED
    BY <1>0, <2>5
<1> HIDE DEF Good
<1>3. m \in Good
  BY <1>1, <1>2, Numbers
<1> QED
  BY <1>3 DEF Good

\* Those functions agree.
LEMMA DeepAgree ==
  ASSUME NEW f, NEW g, NEW m \in Nat, NEW k \in Nat, DeepFrom(f, m), DeepFrom(g, k), m <= k
  PROVE  \A h \in 0..m : f[h] = g[h]
<1> DEFINE Good == {h \in Nat : h <= m => f[h] = g[h]}
<1>1. \A h \in 0..m : f[h] = IF h = 0 THEN {Nil} ELSE Deeper(f[h - 1])
  BY DEF DeepFrom
<1>2. \A h \in 0..k : g[h] = IF h = 0 THEN {Nil} ELSE Deeper(g[h - 1])
  BY DEF DeepFrom
<1>3. 0 \in Good
  BY <1>1, <1>2
<1>4. ASSUME NEW h \in Nat, h \in Good PROVE h + 1 \in Good
  <2> SUFFICES ASSUME h + 1 <= m PROVE f[h + 1] = g[h + 1]
    OBVIOUS
  <2>1. h + 1 \in 0..m /\ h + 1 \in 0..k /\ h + 1 # 0 /\ (h + 1) - 1 = h /\ h <= m
    OBVIOUS
  <2>2. f[h] = g[h]
    BY <1>4, <2>1
  <2>3. f[h + 1] = Deeper(f[h]) /\ g[h + 1] = Deeper(g[h])
    BY <1>1, <1>2, <2>1
  <2> QED
    BY <2>2, <2>3
<1> HIDE DEF Good
<1>5. \A h \in Nat : h \in Good
  BY <1>3, <1>4, Numbers
<1> QED
  BY <1>5 DEF Good

\* The trees by depth.
LEMMA TreesOfIs ==
  /\ TreesOf[0] = {Nil}
  /\ \A h \in Nat : TreesOf[h + 1] = Deeper(TreesOf[h])
<1> DEFINE Least(m) == CHOOSE f : DeepFrom(f, m)
           F == [h \in Nat |-> Least(h)[h]]
<1>1. ASSUME NEW m \in Nat PROVE DeepFrom(Least(m), m)
  BY DeepExists
<1> HIDE DEF Least
<1>2. ASSUME NEW h \in Nat PROVE F[h] = IF h = 0 THEN {Nil} ELSE Deeper(F[h - 1])
  <2>1. Least(h)[h] = IF h = 0 THEN {Nil} ELSE Deeper(Least(h)[h - 1])
    <3>1. ASSUME NEW f, DeepFrom(f, h) PROVE f[h] = IF h = 0 THEN {Nil} ELSE Deeper(f[h - 1])
      <4>1. \A j \in 0..h : f[j] = IF j = 0 THEN {Nil} ELSE Deeper(f[j - 1])
        BY <3>1 DEF DeepFrom
      <4>2. h \in 0..h
        OBVIOUS
      <4> QED
        BY <4>1, <4>2
    <3> QED
      BY <1>1, <3>1
  <2>2. ASSUME h # 0 PROVE Least(h)[h - 1] = Least(h - 1)[h - 1]
    <3>1. h - 1 \in Nat /\ h - 1 <= h /\ h - 1 \in 0..h - 1
      BY <2>2
    <3> QED
      BY <3>1, <1>1, DeepAgree
  <2> QED
    BY <2>1, <2>2
<1>3. F = [h \in Nat |-> IF h = 0 THEN {Nil} ELSE Deeper(F[h - 1])]
  BY <1>2
<1> HIDE DEF F
<1>4. TreesOf = [h \in Nat |-> IF h = 0 THEN {Nil} ELSE Deeper(TreesOf[h - 1])]
  BY <1>3 DEF TreesOf, Deeper
<1>5. TreesOf[0] = {Nil}
  BY <1>4
<1>6. ASSUME NEW h \in Nat PROVE TreesOf[h + 1] = Deeper(TreesOf[h])
  <2>1. h + 1 \in Nat /\ h + 1 # 0 /\ (h + 1) - 1 = h
    OBVIOUS
  <2> QED
    BY <1>4, <2>1
<1> QED
  BY <1>5, <1>6

\* What is in Deeper: Nil, and the nodes over two trees of T.
LEMMA DeeperHas ==
  ASSUME NEW T
  PROVE  /\ Nil \in Deeper(T)
         /\ \A v \in Values, c \in BOOLEAN, l \in T, r \in T : Node(v, c, l, r) \in Deeper(T)
         /\ \A n \in Deeper(T) : n = Nil \/ /\ n.value \in Values /\ n.red \in BOOLEAN
                                            /\ n.left \in T /\ n.right \in T
                                            /\ n = Node(n.value, n.red, n.left, n.right)
  BY DEF Deeper, Node

\* A tree no deeper than h is no deeper than k.
LEMMA TreesGrow ==
  ASSUME NEW h \in Nat, NEW k \in Nat, h <= k
  PROVE  TreesOf[h] \subseteq TreesOf[k]
<1>1. \A i \in Nat : TreesOf[i] \subseteq TreesOf[i + 1]
  <2> DEFINE Good == {i \in Nat : TreesOf[i] \subseteq TreesOf[i + 1]}
  <2>1. 0 \in Good
    BY TreesOfIs, DeeperHas
  <2>2. ASSUME NEW i \in Nat, i \in Good PROVE i + 1 \in Good
    <3>1. TreesOf[i + 1] = Deeper(TreesOf[i]) /\ TreesOf[(i + 1) + 1] = Deeper(TreesOf[i + 1])
      BY TreesOfIs
    <3>2. Deeper(TreesOf[i]) \subseteq Deeper(TreesOf[i + 1])
      BY <2>2, DeeperHas
    <3> QED
      BY <3>1, <3>2
  <2> HIDE DEF Good
  <2>3. \A i \in Nat : i \in Good
    BY <2>1, <2>2, Numbers
  <2> QED
    BY <2>3 DEF Good
<1> DEFINE Good == {i \in Nat : TreesOf[h] \subseteq TreesOf[h + i]}
<1>2. 0 \in Good
  OBVIOUS
<1>3. ASSUME NEW i \in Nat, i \in Good PROVE i + 1 \in Good
  <2>1. h + i \in Nat /\ h + (i + 1) = (h + i) + 1
    OBVIOUS
  <2> QED
    BY <1>1, <1>3, <2>1
<1> HIDE DEF Good
<1>4. k - h \in Good
  BY <1>2, <1>3, Numbers
<1>5. h + (k - h) = k
  OBVIOUS
<1> QED
  BY <1>4, <1>5 DEF Good

-----------------------------------------------------------------------------
\* Red-black trees, with the set of their values and their black height: the
\* least set of such facts that has Nil and, of any two, the node above them.
After(d, v, w) == IF d THEN v < w ELSE w < v
Beside(d, v, X) == \A w \in X : After(d, v, w)
Height(c, k) == IF c THEN k ELSE k + 1
Facts == {f \in Trees \X (SUBSET Values) \X Nat : f[1] \in TreesOf[Cardinality(f[2])]}
Calm(n) == n.red => ~n.left.red /\ ~n.right.red
Joins(R, v, c, l, A, r, B, k) ==
    /\ v \in Values /\ c \in BOOLEAN /\ A \subseteq Values /\ B \subseteq Values /\ k \in Nat
    /\ <<l, A, k>> \in R /\ <<r, B, k>> \in R
    /\ Beside(FALSE, v, A) /\ Beside(TRUE, v, B)
    /\ Calm(Node(v, c, l, r))
Ruled(R) ==
    /\ <<Nil, {}, 0>> \in R
    /\ \A v, c, l, A, r, B, k :
         Joins(R, v, c, l, A, r, B, k)
         => <<Node(v, c, l, r), A \union {v} \union B, Height(c, k)>> \in R
TreeFacts == {f \in Facts : \A R \in SUBSET Facts : Ruled(R) => f \in R}
Tree(n, S, h) == <<n, S, h>> \in TreeFacts

\* Values are integers.
LEMMA IntValue == \A v \in Values : v \in Int
  BY SetAssumption

\* A set of values is finite, and no larger than that of all.
LEMMA SubsetIs ==
  ASSUME NEW S, S \subseteq Values
  PROVE  IsFiniteSet(S) /\ Cardinality(S) \in Nat /\ Cardinality(S) <= Cardinality(Values)
  BY SetAssumption, FS_Subset, FS_CardinalityType

\* What it is to be a fact, field by field.
LEMMA FactIs ==
  ASSUME NEW n, NEW S, NEW h
  PROVE  <<n, S, h>> \in Facts
           <=> n \in Trees /\ S \subseteq Values /\ h \in Nat /\ n \in TreesOf[Cardinality(S)]
<1> DEFINE f == <<n, S, h>>
<1>1. f[1] = n /\ f[2] = S
  OBVIOUS
<1>2. f \in Trees \X (SUBSET Values) \X Nat <=> n \in Trees /\ S \subseteq Values /\ h \in Nat
  OBVIOUS
<1> HIDE DEF f
<1>3. f \in Facts <=> n \in Trees /\ S \subseteq Values /\ h \in Nat /\ n \in TreesOf[Cardinality(S)]
  BY <1>1, <1>2 DEF Facts
<1> QED
  BY <1>3 DEF f

\* Facts has Nil and the node above any two, whose depth is bounded by its values.
LEMMA FactsRuled == Ruled(Facts)
<1>1. <<Nil, {}, 0>> \in Facts
  <2>1. Cardinality({}) = 0 /\ Cardinality(Values) \in Nat
    BY FS_EmptySet, SetAssumption, FS_CardinalityType
  <2>2. Nil \in TreesOf[0] /\ TreesOf[0] \subseteq TreesOf[Cardinality(Values)]
    BY <2>1, TreesOfIs, TreesGrow
  <2> QED
    BY <2>1, <2>2, FactIs DEF Trees
<1>2. ASSUME NEW v, NEW c, NEW l, NEW A, NEW r, NEW B, NEW k, Joins(Facts, v, c, l, A, r, B, k)
      PROVE  <<Node(v, c, l, r), A \union {v} \union B, Height(c, k)>> \in Facts
  <2> DEFINE S == A \union {v} \union B
             T == S \ {v}
  <2>0. /\ v \in Values /\ c \in BOOLEAN /\ A \subseteq Values /\ B \subseteq Values /\ k \in Nat
        /\ <<l, A, k>> \in Facts /\ <<r, B, k>> \in Facts
        /\ Beside(FALSE, v, A) /\ Beside(TRUE, v, B)
    BY <1>2 DEF Joins
  <2>1. v \notin A /\ v \notin B
    BY <2>0, IntValue DEF Beside, After
  <2>2. S \subseteq Values /\ T \subseteq Values /\ A \subseteq T /\ B \subseteq T
    BY <2>0, <2>1
  <2>3. IsFiniteSet(S) /\ IsFiniteSet(T) /\ Cardinality(S) \in Nat /\ Cardinality(T) \in Nat
        /\ Cardinality(S) <= Cardinality(Values)
    BY <2>2, SubsetIs
  <2>4. Cardinality(S) = Cardinality(T) + 1
    BY <2>3, FS_RemoveElement
  <2>5. Cardinality(A) <= Cardinality(T) /\ Cardinality(B) <= Cardinality(T)
        /\ Cardinality(A) \in Nat /\ Cardinality(B) \in Nat
    BY <2>2, <2>3, FS_Subset, SubsetIs
  <2>6. l \in TreesOf[Cardinality(T)] /\ r \in TreesOf[Cardinality(T)]
    BY <2>0, <2>3, <2>5, FactIs, TreesGrow
  <2>7. Node(v, c, l, r) \in TreesOf[Cardinality(T) + 1]
    BY <2>0, <2>3, <2>6, TreesOfIs, DeeperHas
  <2>8. Cardinality(Values) \in Nat /\ Node(v, c, l, r) \in Trees
    BY <2>3, <2>4, <2>7, SubsetIs, TreesGrow DEF Trees
  <2>9. Height(c, k) \in Nat
    BY <2>0 DEF Height
  <2> HIDE DEF S, T
  <2>10. <<Node(v, c, l, r), S, Height(c, k)>> \in Facts
    BY <2>2, <2>4, <2>7, <2>8, <2>9, FactIs
  <2> QED
    BY <2>10 DEF S
<1> QED
  BY <1>1, <1>2 DEF Ruled

\* What holds of Nil and of the node above two of which it holds, holds of all.
LEMMA TreeInduction ==
  ASSUME NEW G, G \subseteq Facts, Ruled(G)
  PROVE  TreeFacts \subseteq G
  BY DEF TreeFacts

\* So has the least such set: Nil is a tree, and so is the node above two.
LEMMA TreesRuled == Ruled(TreeFacts)
<1>1. <<Nil, {}, 0>> \in TreeFacts
  BY FactsRuled DEF Ruled, TreeFacts
<1>2. ASSUME NEW v, NEW c, NEW l, NEW A, NEW r, NEW B, NEW k, Joins(TreeFacts, v, c, l, A, r, B, k)
      PROVE  <<Node(v, c, l, r), A \union {v} \union B, Height(c, k)>> \in TreeFacts
  <2> DEFINE t == <<Node(v, c, l, r), A \union {v} \union B, Height(c, k)>>
  <2>1. ASSUME NEW R \in SUBSET Facts, Ruled(R) PROVE t \in R
    <3>1. Joins(R, v, c, l, A, r, B, k)
      BY <1>2, <2>1 DEF TreeFacts, Joins
    <3> QED
      BY <2>1, <3>1 DEF Ruled
  <2>2. t \in Facts
    BY <2>1, FactsRuled
  <2> HIDE DEF t
  <2>3. t \in TreeFacts
    BY <2>1, <2>2 DEF TreeFacts
  <2> QED
    BY <2>3 DEF t
<1> QED
  BY <1>1, <1>2 DEF Ruled

\* The node of two trees of one height, in order: it and its child may be red.
Above(n, S, h, v, c, l, A, r, B, k) ==
    /\ v \in Values /\ c \in BOOLEAN /\ k \in Nat
    /\ Tree(l, A, k) /\ Tree(r, B, k)
    /\ Beside(FALSE, v, A) /\ Beside(TRUE, v, B)
    /\ n = Node(v, c, l, r) /\ S = A \union {v} \union B /\ h = Height(c, k)
Loose(n, S, h) == \E v, c, l, A, r, B, k : Above(n, S, h, v, c, l, A, r, B, k)

\* A tree is one of Trees, its values are Values and its height is a number.
LEMMA TreeIs ==
  ASSUME NEW n, NEW S, NEW h, Tree(n, S, h)
  PROVE  n \in Trees /\ S \subseteq Values /\ h \in Nat
  BY FactIs DEF Tree, TreeFacts

\* The empty tree.
LEMMA NilTree == Tree(Nil, {}, 0)
  BY TreesRuled DEF Ruled, Tree

\* A loose tree that is calm is a tree.
LEMMA LooseTree ==
  ASSUME NEW n, NEW S, NEW h, Loose(n, S, h), Calm(n)
  PROVE  Tree(n, S, h)
<1>1. PICK v, c, l, A, r, B, k : Above(n, S, h, v, c, l, A, r, B, k)
  BY DEF Loose
<1>2. A \subseteq Values /\ B \subseteq Values
  BY <1>1, TreeIs DEF Above
<1>3. Joins(TreeFacts, v, c, l, A, r, B, k)
  BY <1>1, <1>2 DEF Above, Joins, Tree
<1> QED
  BY <1>1, <1>3, TreesRuled DEF Above, Ruled, Tree

\* A tree is empty, or loose and calm.
LEMMA TreeCases ==
  ASSUME NEW n, NEW S, NEW h, Tree(n, S, h)
  PROVE  \/ n = Nil /\ S = {} /\ h = 0
         \/ Loose(n, S, h) /\ Calm(n) /\ n # Nil
<1> DEFINE Case(f) == \/ f = <<Nil, {}, 0>>
                      \/ Loose(f[1], f[2], f[3]) /\ Calm(f[1]) /\ f[1] # Nil
           G == {f \in TreeFacts : Case(f)}
<1>1. <<Nil, {}, 0>> \in G
  BY TreesRuled DEF Ruled
<1>2. ASSUME NEW v, NEW c, NEW l, NEW A, NEW r, NEW B, NEW k, Joins(G, v, c, l, A, r, B, k)
      PROVE  <<Node(v, c, l, r), A \union {v} \union B, Height(c, k)>> \in G
  <2> DEFINE m == Node(v, c, l, r)
             T == A \union {v} \union B
             i == Height(c, k)
  <2>0. Joins(TreeFacts, v, c, l, A, r, B, k)
    BY <1>2 DEF Joins
  <2>1. <<m, T, i>> \in TreeFacts
    BY <2>0, TreesRuled DEF Ruled
  <2>2. Above(m, T, i, v, c, l, A, r, B, k)
    BY <2>0 DEF Above, Tree, Joins
  <2>3. Calm(m) /\ m # Nil
    BY <2>0, NodeFields DEF Joins
  <2> HIDE DEF m, T, i
  <2>4. Loose(m, T, i)
    BY <2>2 DEF Loose
  <2>5. <<m, T, i>> \in G
    BY <2>1, <2>3, <2>4
  <2> QED
    BY <2>5 DEF m, T, i
<1>3. G \subseteq Facts
  BY DEF TreeFacts
<1> HIDE DEF G
<1>4. Ruled(G)
  BY <1>1, <1>2 DEF Ruled
<1>5. <<n, S, h>> \in G
  BY <1>3, <1>4, TreeInduction DEF Tree
<1>6. Case(<<n, S, h>>)
  BY <1>5 DEF G
<1> QED
  BY <1>6

-----------------------------------------------------------------------------
\* The same by the sides d and e.
Spread(n, S, h, d, e, v, c, x, X, y, Y, k) ==
    /\ v \in Values /\ c \in BOOLEAN /\ k \in Nat
    /\ Tree(x, X, k) /\ Tree(y, Y, k)
    /\ Beside(d, v, X) /\ Beside(e, v, Y)
    /\ n = Mk(v, c, d, x, y) /\ S = X \union {v} \union Y /\ h = Height(c, k)

\* A loose tree opened by its sides, either way round.
LEMMA LooseOpen ==
  ASSUME NEW n, NEW S, NEW h, Loose(n, S, h), NEW d, NEW e, Sides(d, e)
  PROVE  \E v, c, x, X, y, Y, k : Spread(n, S, h, d, e, v, c, x, X, y, Y, k)
<1>1. PICK v, c, l, A, r, B, k : Above(n, S, h, v, c, l, A, r, B, k)
  BY DEF Loose
<1>2. CASE d = On
  <2>1. d = TRUE /\ e = FALSE /\ Mk(v, c, d, r, l) = Node(v, c, l, r)
    BY <1>2 DEF Sides, On, Mk
  <2>2. Spread(n, S, h, d, e, v, c, r, B, l, A, k)
    BY <1>1, <2>1 DEF Above, Spread
  <2> QED
    BY <2>2
<1>3. CASE d # On
  <2>1. d = FALSE /\ e = TRUE /\ Mk(v, c, d, l, r) = Node(v, c, l, r)
    BY <1>3 DEF Sides, On, Mk
  <2>2. Spread(n, S, h, d, e, v, c, l, A, r, B, k)
    BY <1>1, <2>1 DEF Above, Spread
  <2> QED
    BY <2>2
<1> QED
  BY <1>2, <1>3

\* A node spread by its sides is a loose tree.
LEMMA LooseClose ==
  ASSUME NEW n, NEW S, NEW h, NEW d, NEW e, Sides(d, e),
         NEW v, NEW c, NEW x, NEW X, NEW y, NEW Y, NEW k, Spread(n, S, h, d, e, v, c, x, X, y, Y, k)
  PROVE  Loose(n, S, h)
<1>1. CASE d = On
  <2>1. d = TRUE /\ e = FALSE /\ Mk(v, c, d, x, y) = Node(v, c, y, x)
    BY <1>1 DEF Sides, On, Mk
  <2>2. Above(n, S, h, v, c, y, Y, x, X, k)
    BY <2>1 DEF Above, Spread
  <2> QED
    BY <2>2 DEF Loose
<1>2. CASE d # On
  <2>1. d = FALSE /\ e = TRUE /\ Mk(v, c, d, x, y) = Node(v, c, x, y)
    BY <1>2 DEF Sides, On, Mk
  <2>2. Above(n, S, h, v, c, x, X, y, Y, k)
    BY <2>1 DEF Above, Spread
  <2> QED
    BY <2>2 DEF Loose
<1> QED
  BY <1>1, <1>2

\* When a node is calm, by its sides.
LEMMA MkCalm ==
  ASSUME NEW v, NEW c, NEW d, NEW e, Sides(d, e), NEW x, NEW y
  PROVE  Calm(Mk(v, c, d, x, y)) <=> (c => ~x.red /\ ~y.red)
<1>1. Calm(Node(v, c, x, y)) <=> (c => ~x.red /\ ~y.red)
  BY NodeFields DEF Calm
<1>2. Calm(Node(v, c, y, x)) <=> (c => ~x.red /\ ~y.red)
  BY NodeFields DEF Calm
<1> QED
  BY <1>1, <1>2, MkCases

\* A tree that is not Nil, taken apart.
LEMMA TreeOpen ==
  ASSUME NEW n, NEW S, NEW h, Tree(n, S, h), n # Nil, NEW d, NEW e, Sides(d, e)
  PROVE  \E v, c, x, X, y, Y, k : /\ Spread(n, S, h, d, e, v, c, x, X, y, Y, k)
                                  /\ c => ~x.red /\ ~y.red
<1>1. Loose(n, S, h) /\ Calm(n)
  BY TreeCases
<1>2. PICK v, c, x, X, y, Y, k : Spread(n, S, h, d, e, v, c, x, X, y, Y, k)
  BY <1>1, LooseOpen
<1>3. Calm(Mk(v, c, d, x, y))
  BY <1>1, <1>2 DEF Spread
<1> QED
  BY <1>2, <1>3, MkCalm

\* A node put together: loose, red or black.
LEMMA MakeLoose ==
  ASSUME NEW v \in Values, NEW d, NEW e, Sides(d, e), NEW x, NEW X, NEW y, NEW Y, NEW k \in Nat,
         Tree(x, X, k), Tree(y, Y, k), Beside(d, v, X), Beside(e, v, Y)
  PROVE  Loose(Mk(v, On, d, x, y), X \union {v} \union Y, k)
<1>1. Spread(Mk(v, On, d, x, y), X \union {v} \union Y, k, d, e, v, On, x, X, y, Y, k)
  BY Colours DEF Spread, Height
<1> QED
  BY <1>1, LooseClose

\* A red node above two black trees is a tree.
LEMMA MakeRed ==
  ASSUME NEW v \in Values, NEW d, NEW e, Sides(d, e), NEW x, NEW X, NEW y, NEW Y, NEW k \in Nat,
         Tree(x, X, k), Tree(y, Y, k), Beside(d, v, X), Beside(e, v, Y), ~x.red, ~y.red
  PROVE  Tree(Mk(v, On, d, x, y), X \union {v} \union Y, k)
  BY MakeLoose, MkCalm, LooseTree

\* A black node above two trees is a tree, one higher.
LEMMA MakeBlack ==
  ASSUME NEW v \in Values, NEW d, NEW e, Sides(d, e), NEW x, NEW X, NEW y, NEW Y, NEW k \in Nat,
         Tree(x, X, k), Tree(y, Y, k), Beside(d, v, X), Beside(e, v, Y)
  PROVE  Tree(Mk(v, Off, d, x, y), X \union {v} \union Y, k + 1)
<1>1. Spread(Mk(v, Off, d, x, y), X \union {v} \union Y, k + 1, d, e, v, Off, x, X, y, Y, k)
  BY Colours DEF Spread, Height
<1>2. Calm(Mk(v, Off, d, x, y))
  BY Colours, MkCalm
<1> QED
  BY <1>1, <1>2, LooseClose, LooseTree

\* A colour is red or black.
LEMMA ColourIs ==
  ASSUME NEW c \in BOOLEAN
  PROVE  (c /\ c = On) \/ (~c /\ c = Off)
  BY DEF On, Off

\* A loose node painted black.
LEMMA BlackLoose ==
  ASSUME NEW n, NEW S, NEW h, Loose(n, S, h)
  PROVE  /\ h \in Nat /\ n.red \in BOOLEAN /\ n # Nil
         /\ ~Black(n).red
         /\ n.red => Tree(Black(n), S, h + 1)
         /\ ~n.red => Tree(Black(n), S, h) /\ Black(n) = n /\ h # 0
<1> DEFINE d == FALSE
           e == TRUE
<1>1. Sides(d, e)
  BY DEF Sides
<1> HIDE DEF d, e
<1>2. PICK v, c, x, X, y, Y, k : Spread(n, S, h, d, e, v, c, x, X, y, Y, k)
  BY <1>1, LooseOpen
<1>3. Black(n) = Mk(v, Off, d, x, y) /\ n.red = c /\ n # Nil /\ Black(n).red = Off
  BY <1>1, <1>2, MkBlack, MkFields DEF Spread
<1>4. Tree(Black(n), S, k + 1)
  BY <1>1, <1>2, <1>3, MakeBlack DEF Spread
<1>5. c \in BOOLEAN /\ n = Mk(v, c, d, x, y) /\ h = Height(c, k) /\ k \in Nat
  BY <1>2 DEF Spread
<1>6. CASE c /\ c = On
  <2>1. h = k
    BY <1>5, <1>6 DEF Height
  <2> QED
    BY <1>3, <1>4, <1>5, <1>6, <2>1, Colours
<1>7. CASE ~c /\ c = Off
  <2>1. h = k + 1
    BY <1>5, <1>7 DEF Height
  <2> QED
    BY <1>3, <1>4, <1>5, <1>7, <2>1, Colours
<1> QED
  BY <1>5, <1>6, <1>7, ColourIs

\* A tree painted black.
LEMMA BlackTree ==
  ASSUME NEW n, NEW S, NEW h, Tree(n, S, h)
  PROVE  /\ n.red \in BOOLEAN /\ ~Black(n).red
         /\ n.red => Tree(Black(n), S, h + 1)
         /\ ~n.red => Tree(Black(n), S, h) /\ Black(n) = n
  BY TreeCases, BlackLoose, NilIs

\* A tree of height 0 or one that is red, at whatever height.
LEMMA FlatTree ==
  ASSUME NEW n, NEW S, Tree(n, S, 0), ~n.red
  PROVE  n = Nil /\ S = {}
  BY TreeCases, BlackLoose

-----------------------------------------------------------------------------
\* After is a strict total order of the values, either way round.
LEMMA AfterIs ==
  ASSUME NEW d, NEW e, Sides(d, e), NEW u \in Values, NEW v \in Values
  PROVE  /\ After(d, u, v) <=> After(e, v, u)
         /\ ~After(d, v, v)
         /\ u # v => After(d, u, v) \/ After(e, u, v)
<1>1. u \in Int /\ v \in Int
  BY IntValue
<1>2. \/ \A p, q : (After(d, p, q) <=> p < q) /\ (After(e, p, q) <=> q < p)
      \/ \A p, q : (After(d, p, q) <=> q < p) /\ (After(e, p, q) <=> p < q)
  BY DEF After, Sides
<1> QED
  BY <1>1, <1>2

\* It is transitive.
LEMMA AfterAfter ==
  ASSUME NEW d, NEW e, Sides(d, e), NEW u \in Values, NEW v \in Values, NEW w \in Values,
         After(d, u, v), After(d, v, w)
  PROVE  After(d, u, w)
<1>1. u \in Int /\ v \in Int /\ w \in Int
  BY IntValue
<1> QED
  BY <1>1 DEF After, Sides

\* What is beside w is beside what w is after.
LEMMA BesideFar ==
  ASSUME NEW d, NEW e, Sides(d, e), NEW v \in Values, NEW w \in Values, NEW X \in SUBSET Values,
         After(d, v, w), Beside(d, w, X)
  PROVE  Beside(d, v, X)
  BY AfterAfter DEF Beside

\* To be beside a union is to be beside each part.
LEMMA BesideUnion ==
  ASSUME NEW d, NEW v, NEW w, NEW A, NEW B
  PROVE  Beside(d, v, A \union {w} \union B) <=> Beside(d, v, A) /\ After(d, v, w) /\ Beside(d, v, B)
  BY DEF Beside

\* What is beside a set is beside a part of it.
LEMMA BesidePart ==
  ASSUME NEW d, NEW v, NEW A, NEW B, A \subseteq B, Beside(d, v, B)
  PROVE  Beside(d, v, A)
  BY DEF Beside

\* A value beside a set is not in it.
LEMMA BesideOut ==
  ASSUME NEW d, NEW e, Sides(d, e), NEW v \in Values, NEW A, Beside(d, v, A)
  PROVE  v \notin A
  BY AfterIs DEF Beside

\* What comes back from a child: a loose tree, one child of which is black if it is red.
Single(n) == n.red => ~(n.left.red /\ n.right.red)

\* When a node has one red child at most, by its sides.
LEMMA MkSingle ==
  ASSUME NEW v, NEW c, NEW d, NEW e, Sides(d, e), NEW x, NEW y
  PROVE  Single(Mk(v, c, d, x, y)) <=> (c => ~(x.red /\ y.red))
<1>1. Single(Node(v, c, x, y)) <=> (c => ~(x.red /\ y.red))
  BY NodeFields DEF Single
<1>2. Single(Node(v, c, y, x)) <=> (c => ~(x.red /\ y.red))
  BY NodeFields DEF Single
<1> QED
  BY <1>1, <1>2, MkCases

\* A calm node is one of those.
LEMMA CalmSingle ==
  ASSUME NEW n, Calm(n)
  PROVE  Single(n)
  BY DEF Calm, Single

\* Repaired by the sides d and e.
LEMMA RepairedBy ==
  ASSUME NEW n, NEW d, NEW e, Sides(d, e)
  PROVE  Repaired(n, d) = IF ~Link(n, d).red THEN n
                          ELSE IF Link(n, e).red THEN Settled(n, On)
                          ELSE IF Link(Link(n, d), d).red THEN Rotate(n, e)
                          ELSE IF Link(Link(n, d), e).red THEN RotateTwice(n, e)
                          ELSE n
  BY DEF Repaired, Sides, Settled, On

\* insert, on the way back: of a tree whose child on side d is loose it makes one
\* that is no higher, and no looser if it was black.
LEMMA RepairedIs ==
  ASSUME NEW v \in Values, NEW c \in BOOLEAN, NEW d, NEW e, Sides(d, e), NEW k \in Nat,
         NEW t, NEW T, NEW y, NEW Y, Loose(t, T, k), Tree(y, Y, k), Single(t),
         Beside(d, v, T), Beside(e, v, Y), c => ~y.red /\ Calm(t)
  PROVE  /\ Loose(Repaired(Mk(v, c, d, t, y), d), T \union {v} \union Y, Height(c, k))
         /\ Single(Repaired(Mk(v, c, d, t, y), d))
         /\ ~c => Calm(Repaired(Mk(v, c, d, t, y), d))
<1> DEFINE n == Mk(v, c, d, t, y)
           S == T \union {v} \union Y
           r == Repaired(n, d)
           h == Height(c, k)
           Right(m) == Loose(m, S, h) /\ Single(m) /\ (~c => Calm(m))
<1>1. Sides(e, d)
  BY OtherSide
<1>2. PICK w, q, p, P, z, Z, j : Spread(t, T, k, d, e, w, q, p, P, z, Z, j)
  BY LooseOpen
<1>3. /\ w \in Values /\ q \in BOOLEAN /\ j \in Nat
      /\ Tree(p, P, j) /\ Tree(z, Z, j)
      /\ Beside(d, w, P) /\ Beside(e, w, Z)
      /\ t = Mk(w, q, d, p, z) /\ T = P \union {w} \union Z /\ k = Height(q, j)
  BY <1>2 DEF Spread
<1>4. Link(n, d) = t /\ Link(n, e) = y /\ Link(t, d) = p /\ Link(t, e) = z /\ t.red = q
  BY <1>3, MkFields
<1>5. After(d, v, w) /\ Beside(d, v, P) /\ Beside(d, v, Z) /\ After(e, w, v)
  BY <1>1, <1>3, BesideUnion, AfterIs
<1>6. P \subseteq Values /\ Z \subseteq Values /\ Y \subseteq Values
  BY <1>3, TreeIs
<1>7. Beside(e, w, Y)
  BY <1>1, <1>3, <1>5, <1>6, BesideFar
<1>8. r = IF ~t.red THEN n ELSE IF y.red THEN Settled(n, On)
          ELSE IF p.red THEN Rotate(n, e) ELSE IF z.red THEN RotateTwice(n, e) ELSE n
  BY <1>4, RepairedBy
<1>9. ASSUME NEW m, Tree(m, S, h), m # Nil PROVE Right(m)
  BY <1>9, TreeCases, CalmSingle
<1>10. n = Mk(v, c, e, y, t) /\ t = Mk(w, q, e, z, p)
  BY <1>1, <1>3, MkOther
<1>11. c => ~y.red /\ (q => ~p.red /\ ~z.red)
  BY <1>3, MkCalm
<1>12. q => ~(p.red /\ z.red)
  BY <1>3, MkSingle
<1>13. ASSUME Tree(t, T, k) PROVE Loose(n, S, h)
  <2>1. Spread(n, S, h, d, e, v, c, t, T, y, Y, k)
    BY <1>13 DEF Spread
  <2> HIDE DEF n, S, h
  <2> QED
    BY <2>1, LooseClose
<1>14. CASE ~t.red
  <2>1. Tree(t, T, k)
    BY <1>14, BlackLoose
  <2>2. Calm(n)
    BY <1>11, <1>14, MkCalm
  <2> QED
    BY <1>8, <1>13, <1>14, <2>1, <2>2, CalmSingle
<1>15. CASE t.red /\ y.red
  <2>1. ~c /\ c = Off
    BY <1>11, <1>15, ColourIs
  <2>2. r = Mk(v, On, d, Black(t), Black(y))
    BY <1>8, <1>15, MkSettled
  <2>3. Tree(Black(t), T, k + 1) /\ Tree(Black(y), Y, k + 1) /\ ~Black(t).red /\ ~Black(y).red
    BY <1>15, BlackLoose, BlackTree
  <2>4. h = k + 1
    BY <2>1 DEF Height
  <2>5. Tree(Mk(v, On, d, Black(t), Black(y)), T \union {v} \union Y, k + 1)
    BY <2>3, MakeRed
  <2>6. r # Nil
    BY <2>2, MkFields
  <2>7. Tree(r, S, h)
    <3> HIDE DEF r, h, n
    <3> QED
      BY <2>2, <2>4, <2>5
  <2> QED
    BY <1>9, <2>6, <2>7
<1>16. CASE t.red /\ ~y.red /\ p.red
  <2>1. ~c /\ c = Off /\ q = On /\ ~z.red
    BY <1>4, <1>11, <1>12, <1>16, ColourIs, <1>3
  <2>2. r = Mk(w, Off, e, Mk(v, On, e, y, z), p)
    BY <1>1, <1>8, <1>10, <1>16, RotateIs
  <2>3. h = k + 1 /\ k = j
    BY <1>3, <2>1, Colours DEF Height
  <2>4. Tree(Mk(v, On, e, y, z), Y \union {v} \union Z, k)
    BY <1>1, <1>3, <1>5, <1>16, <2>1, <2>3, MakeRed
  <2>5. Beside(e, w, Y \union {v} \union Z)
    BY <1>3, <1>5, <1>7, BesideUnion
  <2>6. Tree(r, (Y \union {v} \union Z) \union {w} \union P, k + 1)
    BY <1>1, <1>3, <2>2, <2>3, <2>4, <2>5, MakeBlack
  <2>7. (Y \union {v} \union Z) \union {w} \union P = S
    BY <1>3
  <2>8. r # Nil
    BY <1>1, <2>2, MkFields
  <2> QED
    BY <1>9, <2>3, <2>6, <2>7, <2>8
<1>17. CASE t.red /\ ~y.red /\ ~p.red /\ z.red
  <2>1. ~c /\ c = Off /\ q = On
    BY <1>4, <1>11, <1>17, ColourIs, <1>3
  <2>2. h = k + 1 /\ k = j
    BY <1>3, <2>1, Colours DEF Height
  <2>3. PICK u, o, a, A, b, B, i :
             /\ Spread(z, Z, j, e, d, u, o, a, A, b, B, i)
             /\ o => ~a.red /\ ~b.red
    BY <1>1, <1>3, <1>17, <2>2, NilIs, TreeOpen
  <2>4. /\ u \in Values /\ o \in BOOLEAN /\ i \in Nat
        /\ Tree(a, A, i) /\ Tree(b, B, i)
        /\ Beside(e, u, A) /\ Beside(d, u, B)
        /\ z = Mk(u, o, e, a, b) /\ Z = A \union {u} \union B /\ j = Height(o, i)
    <3>1. Spread(z, Z, j, e, d, u, o, a, A, b, B, i)
      BY <2>3
    <3> QED
      BY <3>1 DEF Spread
  <2>5. z.red = o
    BY <1>1, <2>4, MkFields
  <2>6. o /\ o = On /\ ~a.red /\ ~b.red /\ i = k
    BY <1>17, <2>2, <2>3, <2>4, <2>5, ColourIs DEF Height
  <2>7. r = Mk(u, Off, e, Mk(v, On, e, y, a), Mk(w, On, e, b, p))
    BY <1>1, <1>8, <1>10, <1>17, <2>4, RotateTwiceIs
  <2>8. /\ Beside(d, v, A) /\ After(d, v, u) /\ Beside(e, w, B) /\ After(e, w, u)
    BY <1>3, <1>5, <2>4, BesideUnion
  <2>9. After(e, u, v) /\ After(d, u, w)
    BY <1>1, <1>3, <2>4, <2>8, AfterIs
  <2>10. Tree(Mk(v, On, e, y, a), Y \union {v} \union A, k)
    BY <1>1, <1>17, <2>4, <2>6, <2>8, MakeRed
  <2>11. Tree(Mk(w, On, e, b, p), B \union {w} \union P, k)
    BY <1>1, <1>3, <1>17, <2>2, <2>4, <2>6, <2>8, MakeRed
  <2>12. Beside(e, u, Y) /\ Beside(d, u, P)
    BY <1>1, <1>3, <1>6, <2>4, <2>9, BesideFar
  <2>13. Beside(e, u, Y \union {v} \union A) /\ Beside(d, u, B \union {w} \union P)
    BY <2>4, <2>9, <2>12, BesideUnion
  <2>14. Tree(r, (Y \union {v} \union A) \union {u} \union (B \union {w} \union P), k + 1)
    BY <1>1, <2>4, <2>7, <2>10, <2>11, <2>13, MakeBlack
  <2>15. (Y \union {v} \union A) \union {u} \union (B \union {w} \union P) = S
    BY <1>3, <2>4
  <2>16. r # Nil
    BY <1>1, <2>7, MkFields
  <2> QED
    BY <1>9, <2>2, <2>14, <2>15, <2>16
<1>18. CASE t.red /\ ~y.red /\ ~p.red /\ ~z.red
  <2>1. Calm(t)
    BY <1>3, <1>18, MkCalm
  <2>2. Tree(t, T, k)
    BY <2>1, LooseTree
  <2>3. Single(n) /\ (~c => Calm(n))
    BY <1>18, MkSingle, MkCalm
  <2> QED
    BY <1>8, <1>13, <1>18, <2>2, <2>3
<1> QED
  BY <1>14, <1>15, <1>16, <1>17, <1>18

-----------------------------------------------------------------------------
\* The functions on trees: each is defined down the links, so there is one, on the
\* trees of each depth, and it is what its definition says.
ValueBody(f, n) ==
    IF n = Nil THEN {} ELSE {n.value} \union f[n.left] \union f[n.right]

\* ValuesOf.
LEMMA ValueSame ==
  ASSUME NEW f, NEW g, NEW n, n = Nil \/ (f[n.left] = g[n.left] /\ f[n.right] = g[n.right])
  PROVE  ValueBody(f, n) = ValueBody(g, n)
  BY DEF ValueBody
LEMMA ValueExists ==
  ASSUME NEW h \in Nat
  PROVE  \E f : f = [n \in TreesOf[h] |-> ValueBody(f, n)]
<1> DEFINE From(f, i) == f = [n \in TreesOf[i] |-> ValueBody(f, n)]
           Good == {i \in Nat : \E f : From(f, i)}
<1>1. 0 \in Good
  <2> DEFINE g == [n \in TreesOf[0] |-> ValueBody(<<>>, n)]
  <2>1. ASSUME NEW n \in TreesOf[0] PROVE ValueBody(<<>>, n) = ValueBody(g, n)
    BY TreesOfIs, ValueSame
  <2>2. From(g, 0)
    BY <2>1
  <2> QED
    BY <2>2
<1>2. ASSUME NEW i \in Nat, i \in Good PROVE i + 1 \in Good
  <2>1. PICK f : From(f, i)
    BY <1>2
  <2> DEFINE g == [n \in TreesOf[i + 1] |-> ValueBody(f, n)]
  <2>2. ASSUME NEW m \in TreesOf[i] PROVE g[m] = f[m]
    <3>1. m \in TreesOf[i + 1]
      BY TreesGrow
    <3>2. f[m] = ValueBody(f, m)
      BY <2>1
    <3> QED
      BY <3>1, <3>2
  <2>3. ASSUME NEW n \in TreesOf[i + 1] PROVE ValueBody(f, n) = ValueBody(g, n)
    <3>1. n = Nil \/ (n.left \in TreesOf[i] /\ n.right \in TreesOf[i])
      BY TreesOfIs, DeeperHas
    <3> HIDE DEF g
    <3> QED
      BY <2>2, <3>1, ValueSame
  <2>4. From(g, i + 1)
    BY <2>3
  <2> HIDE DEF g, From
  <2> QED
    BY <2>4
<1> HIDE DEF Good
<1>3. h \in Good
  BY <1>1, <1>2, Numbers
<1> QED
  BY <1>3 DEF Good
LEMMA ValueIs ==
  ASSUME NEW n \in Trees
  PROVE  ValuesOf[n] = ValueBody(ValuesOf, n)
<1>1. PICK f : f = [m \in Trees |-> ValueBody(f, m)]
  BY ValueExists, SetAssumption, FS_CardinalityType DEF Trees
<1>2. ValuesOf = [m \in Trees |-> ValueBody(ValuesOf, m)]
  BY <1>1 DEF ValuesOf, ValueBody
<1> QED
  BY <1>2

HeightBody(f, n) ==
    IF n = Nil THEN 0
    ELSE LET l == f[n.left]
             r == f[n.right]
         IN  IF l = -1 \/ l # r \/ (n.red /\ (n.left.red \/ n.right.red)) THEN -1
             ELSE IF n.red THEN l ELSE l + 1

\* BlackHeight.
LEMMA HeightSame ==
  ASSUME NEW f, NEW g, NEW n, n = Nil \/ (f[n.left] = g[n.left] /\ f[n.right] = g[n.right])
  PROVE  HeightBody(f, n) = HeightBody(g, n)
  BY DEF HeightBody
LEMMA HeightExists ==
  ASSUME NEW h \in Nat
  PROVE  \E f : f = [n \in TreesOf[h] |-> HeightBody(f, n)]
<1> DEFINE From(f, i) == f = [n \in TreesOf[i] |-> HeightBody(f, n)]
           Good == {i \in Nat : \E f : From(f, i)}
<1>1. 0 \in Good
  <2> DEFINE g == [n \in TreesOf[0] |-> HeightBody(<<>>, n)]
  <2>1. ASSUME NEW n \in TreesOf[0] PROVE HeightBody(<<>>, n) = HeightBody(g, n)
    BY TreesOfIs, HeightSame
  <2>2. From(g, 0)
    BY <2>1
  <2> QED
    BY <2>2
<1>2. ASSUME NEW i \in Nat, i \in Good PROVE i + 1 \in Good
  <2>1. PICK f : From(f, i)
    BY <1>2
  <2> DEFINE g == [n \in TreesOf[i + 1] |-> HeightBody(f, n)]
  <2>2. ASSUME NEW m \in TreesOf[i] PROVE g[m] = f[m]
    <3>1. m \in TreesOf[i + 1]
      BY TreesGrow
    <3>2. f[m] = HeightBody(f, m)
      BY <2>1
    <3> QED
      BY <3>1, <3>2
  <2>3. ASSUME NEW n \in TreesOf[i + 1] PROVE HeightBody(f, n) = HeightBody(g, n)
    <3>1. n = Nil \/ (n.left \in TreesOf[i] /\ n.right \in TreesOf[i])
      BY TreesOfIs, DeeperHas
    <3> HIDE DEF g
    <3> QED
      BY <2>2, <3>1, HeightSame
  <2>4. From(g, i + 1)
    BY <2>3
  <2> HIDE DEF g, From
  <2> QED
    BY <2>4
<1> HIDE DEF Good
<1>3. h \in Good
  BY <1>1, <1>2, Numbers
<1> QED
  BY <1>3 DEF Good
LEMMA HeightIs ==
  ASSUME NEW n \in Trees
  PROVE  BlackHeight[n] = HeightBody(BlackHeight, n)
<1>1. PICK f : f = [m \in Trees |-> HeightBody(f, m)]
  BY HeightExists, SetAssumption, FS_CardinalityType DEF Trees
<1>2. BlackHeight = [m \in Trees |-> HeightBody(BlackHeight, m)]
  BY <1>1 DEF BlackHeight, HeightBody
<1> QED
  BY <1>2

DownBody(f, n) ==
    IF n = Nil THEN <<>> ELSE <<n>> \o f[n.left]

\* Down.
LEMMA DownSame ==
  ASSUME NEW f, NEW g, NEW n, n = Nil \/ (f[n.left] = g[n.left] /\ f[n.right] = g[n.right])
  PROVE  DownBody(f, n) = DownBody(g, n)
  BY DEF DownBody
LEMMA DownExists ==
  ASSUME NEW h \in Nat
  PROVE  \E f : f = [n \in TreesOf[h] |-> DownBody(f, n)]
<1> DEFINE From(f, i) == f = [n \in TreesOf[i] |-> DownBody(f, n)]
           Good == {i \in Nat : \E f : From(f, i)}
<1>1. 0 \in Good
  <2> DEFINE g == [n \in TreesOf[0] |-> DownBody(<<>>, n)]
  <2>1. ASSUME NEW n \in TreesOf[0] PROVE DownBody(<<>>, n) = DownBody(g, n)
    BY TreesOfIs, DownSame
  <2>2. From(g, 0)
    BY <2>1
  <2> QED
    BY <2>2
<1>2. ASSUME NEW i \in Nat, i \in Good PROVE i + 1 \in Good
  <2>1. PICK f : From(f, i)
    BY <1>2
  <2> DEFINE g == [n \in TreesOf[i + 1] |-> DownBody(f, n)]
  <2>2. ASSUME NEW m \in TreesOf[i] PROVE g[m] = f[m]
    <3>1. m \in TreesOf[i + 1]
      BY TreesGrow
    <3>2. f[m] = DownBody(f, m)
      BY <2>1
    <3> QED
      BY <3>1, <3>2
  <2>3. ASSUME NEW n \in TreesOf[i + 1] PROVE DownBody(f, n) = DownBody(g, n)
    <3>1. n = Nil \/ (n.left \in TreesOf[i] /\ n.right \in TreesOf[i])
      BY TreesOfIs, DeeperHas
    <3> HIDE DEF g
    <3> QED
      BY <2>2, <3>1, DownSame
  <2>4. From(g, i + 1)
    BY <2>3
  <2> HIDE DEF g, From
  <2> QED
    BY <2>4
<1> HIDE DEF Good
<1>3. h \in Good
  BY <1>1, <1>2, Numbers
<1> QED
  BY <1>3 DEF Good
LEMMA DownIs ==
  ASSUME NEW n \in Trees
  PROVE  Down[n] = DownBody(Down, n)
<1>1. PICK f : f = [m \in Trees |-> DownBody(f, m)]
  BY DownExists, SetAssumption, FS_CardinalityType DEF Trees
<1>2. Down = [m \in Trees |-> DownBody(Down, m)]
  BY <1>1 DEF Down, DownBody
<1> QED
  BY <1>2

HeirBody(f, n) ==
    IF n.right = Nil THEN n.value ELSE f[n.right]

\* Heir, which follows the right alone.
LEMMA HeirSame ==
  ASSUME NEW f, NEW g, NEW n, n.right # Nil => f[n.right] = g[n.right]
  PROVE  HeirBody(f, n) = HeirBody(g, n)
  BY DEF HeirBody
LEMMA HeirExists ==
  ASSUME NEW h \in Nat
  PROVE  \E f : f = [n \in TreesOf[h] \ {Nil} |-> HeirBody(f, n)]
<1> DEFINE From(f, i) == f = [n \in TreesOf[i] \ {Nil} |-> HeirBody(f, n)]
           Good == {i \in Nat : \E f : From(f, i)}
<1>1. 0 \in Good
  <2> DEFINE g == [n \in TreesOf[0] \ {Nil} |-> HeirBody(<<>>, n)]
  <2>1. ASSUME NEW n \in TreesOf[0] \ {Nil} PROVE HeirBody(<<>>, n) = HeirBody(g, n)
    BY TreesOfIs, HeirSame
  <2>2. From(g, 0)
    BY <2>1
  <2> QED
    BY <2>2
<1>2. ASSUME NEW i \in Nat, i \in Good PROVE i + 1 \in Good
  <2>1. PICK f : From(f, i)
    BY <1>2
  <2> DEFINE g == [n \in TreesOf[i + 1] \ {Nil} |-> HeirBody(f, n)]
  <2>2. ASSUME NEW m \in TreesOf[i] \ {Nil} PROVE g[m] = f[m]
    <3>1. m \in TreesOf[i + 1] \ {Nil}
      BY TreesGrow
    <3>2. f[m] = HeirBody(f, m)
      BY <2>1
    <3> QED
      BY <3>1, <3>2
  <2>3. ASSUME NEW n \in TreesOf[i + 1] \ {Nil} PROVE HeirBody(f, n) = HeirBody(g, n)
    <3>1. n = Nil \/ (n.left \in TreesOf[i] /\ n.right \in TreesOf[i])
      BY TreesOfIs, DeeperHas
    <3> HIDE DEF g
    <3> QED
      BY <2>2, <3>1, HeirSame
  <2>4. From(g, i + 1)
    BY <2>3
  <2> HIDE DEF g, From
  <2> QED
    BY <2>4
<1> HIDE DEF Good
<1>3. h \in Good
  BY <1>1, <1>2, Numbers
<1> QED
  BY <1>3 DEF Good
LEMMA HeirIs ==
  ASSUME NEW n \in Trees \ {Nil}
  PROVE  Heir[n] = HeirBody(Heir, n)
<1>1. PICK f : f = [m \in Trees \ {Nil} |-> HeirBody(f, m)]
  BY HeirExists, SetAssumption, FS_CardinalityType DEF Trees
<1>2. Heir = [m \in Trees \ {Nil} |-> HeirBody(Heir, m)]
  BY <1>1 DEF Heir, HeirBody
<1> QED
  BY <1>2

\* What remove goes on with: the value, the node with that value, the side; and
\* what it makes of the node.
Sought(n, x) == IF n.value = x THEN Heir[n.left] ELSE x
Kept(n, x) == IF n.value = x THEN Moved(n, Sought(n, x)) ELSE n
Way(n, x) == Kept(n, x).value < Sought(n, x)
Unlinked(n) ==
    LET save == IF n.left = Nil THEN n.right ELSE n.left
    IN  [tree |-> IF n.red THEN save ELSE Black(save), done |-> n.red \/ save.red, gone |-> 1]
Rejoined(m, dir, below) ==
    LET here == SetLink(m, dir, below.tree)
        level == IF below.done THEN [tree |-> here, done |-> TRUE] ELSE Balanced(here, dir)
    IN  [tree |-> level.tree, done |-> level.done, gone |-> below.gone]
RemoveOne(f, n, x) ==
    IF n = Nil THEN [tree |-> Nil, done |-> TRUE, gone |-> 0]
    ELSE IF n.value = x /\ (n.left = Nil \/ n.right = Nil) THEN Unlinked(n)
    ELSE Rejoined(Kept(n, x), Way(n, x), f[Link(n, Way(n, x))][Sought(n, x)])
RemoveBody(f, n) ==
    [x \in Values |-> RemoveOne(f, n, x)]

\* Removed, which is a function of the tree and the value.
LEMMA RemoveSame ==
  ASSUME NEW f, NEW g, NEW n, n = Nil \/ (f[n.left] = g[n.left] /\ f[n.right] = g[n.right])
  PROVE  RemoveBody(f, n) = RemoveBody(g, n)
<1>1. ASSUME NEW x PROVE RemoveOne(f, n, x) = RemoveOne(g, n, x)
  <2>1. n # Nil => f[Link(n, Way(n, x))] = g[Link(n, Way(n, x))]
    BY DEF Link
  <2> QED
    BY <2>1 DEF RemoveOne
<1> QED
  BY <1>1 DEF RemoveBody
LEMMA RemoveExists ==
  ASSUME NEW h \in Nat
  PROVE  \E f : f = [n \in TreesOf[h] |-> RemoveBody(f, n)]
<1> DEFINE From(f, i) == f = [n \in TreesOf[i] |-> RemoveBody(f, n)]
           Good == {i \in Nat : \E f : From(f, i)}
<1>1. 0 \in Good
  <2> DEFINE g == [n \in TreesOf[0] |-> RemoveBody(<<>>, n)]
  <2>1. ASSUME NEW n \in TreesOf[0] PROVE RemoveBody(<<>>, n) = RemoveBody(g, n)
    BY TreesOfIs, RemoveSame
  <2>2. From(g, 0)
    BY <2>1
  <2> QED
    BY <2>2
<1>2. ASSUME NEW i \in Nat, i \in Good PROVE i + 1 \in Good
  <2>1. PICK f : From(f, i)
    BY <1>2
  <2> DEFINE g == [n \in TreesOf[i + 1] |-> RemoveBody(f, n)]
  <2>2. ASSUME NEW m \in TreesOf[i] PROVE g[m] = f[m]
    <3>1. m \in TreesOf[i + 1]
      BY TreesGrow
    <3>2. f[m] = RemoveBody(f, m)
      BY <2>1
    <3> QED
      BY <3>1, <3>2
  <2>3. ASSUME NEW n \in TreesOf[i + 1] PROVE RemoveBody(f, n) = RemoveBody(g, n)
    <3>1. n = Nil \/ (n.left \in TreesOf[i] /\ n.right \in TreesOf[i])
      BY TreesOfIs, DeeperHas
    <3> HIDE DEF g
    <3> QED
      BY <2>2, <3>1, RemoveSame
  <2>4. From(g, i + 1)
    BY <2>3
  <2> HIDE DEF g, From
  <2> QED
    BY <2>4
<1> HIDE DEF Good
<1>3. h \in Good
  BY <1>1, <1>2, Numbers
<1> QED
  BY <1>3 DEF Good
LEMMA RemoveIs ==
  ASSUME NEW n \in Trees
  PROVE  Removed[n] = RemoveBody(Removed, n)
<1>1. PICK f : f = [m \in Trees |-> RemoveBody(f, m)]
  BY RemoveExists, SetAssumption, FS_CardinalityType DEF Trees
<1>2. Removed = [m \in Trees |-> RemoveBody(Removed, m)]
  BY <1>1 DEF Removed, RemoveBody, RemoveOne, Rejoined, Unlinked, Way, Kept, Sought, Moved
<1> QED
  BY <1>2

HasBody(x, f, n) ==
    n # Nil /\ (n.value = x \/ f[Link(n, n.value < x)])

\* Has.
LEMMA HasSame ==
  ASSUME NEW x, NEW f, NEW g, NEW n, n = Nil \/ (f[n.left] = g[n.left] /\ f[n.right] = g[n.right])
  PROVE  HasBody(x, f, n) = HasBody(x, g, n)
  BY DEF HasBody, Link
LEMMA HasExists ==
  ASSUME NEW x, NEW h \in Nat
  PROVE  \E f : f = [n \in TreesOf[h] |-> HasBody(x, f, n)]
<1> DEFINE From(f, i) == f = [n \in TreesOf[i] |-> HasBody(x, f, n)]
           Good == {i \in Nat : \E f : From(f, i)}
<1>1. 0 \in Good
  <2> DEFINE g == [n \in TreesOf[0] |-> HasBody(x, <<>>, n)]
  <2>1. ASSUME NEW n \in TreesOf[0] PROVE HasBody(x, <<>>, n) = HasBody(x, g, n)
    BY TreesOfIs, HasSame
  <2>2. From(g, 0)
    BY <2>1
  <2> QED
    BY <2>2
<1>2. ASSUME NEW i \in Nat, i \in Good PROVE i + 1 \in Good
  <2>1. PICK f : From(f, i)
    BY <1>2
  <2> DEFINE g == [n \in TreesOf[i + 1] |-> HasBody(x, f, n)]
  <2>2. ASSUME NEW m \in TreesOf[i] PROVE g[m] = f[m]
    <3>1. m \in TreesOf[i + 1]
      BY TreesGrow
    <3>2. f[m] = HasBody(x, f, m)
      BY <2>1
    <3> QED
      BY <3>1, <3>2
  <2>3. ASSUME NEW n \in TreesOf[i + 1] PROVE HasBody(x, f, n) = HasBody(x, g, n)
    <3>1. n = Nil \/ (n.left \in TreesOf[i] /\ n.right \in TreesOf[i])
      BY TreesOfIs, DeeperHas
    <3> HIDE DEF g
    <3> QED
      BY <2>2, <3>1, HasSame
  <2>4. From(g, i + 1)
    BY <2>3
  <2> HIDE DEF g, From
  <2> QED
    BY <2>4
<1> HIDE DEF Good
<1>3. h \in Good
  BY <1>1, <1>2, Numbers
<1> QED
  BY <1>3 DEF Good
LEMMA HasIs ==
  ASSUME NEW x, NEW n \in Trees
  PROVE  Has(x)[n] = HasBody(x, Has(x), n)
<1>1. PICK f : f = [m \in Trees |-> HasBody(x, f, m)]
  BY HasExists, SetAssumption, FS_CardinalityType DEF Trees
<1>2. Has(x) = [m \in Trees |-> HasBody(x, Has(x), m)]
  BY <1>1 DEF Has, HasBody
<1> QED
  BY <1>2

InsertBody(x, f, n) ==
    IF n = Nil THEN Leaf(x)
    ELSE IF n.value = x THEN n
    ELSE LET dir == n.value < x
         IN  Repaired(SetLink(n, dir, f[Link(n, dir)]), dir)

\* Inserted.
LEMMA InsertSame ==
  ASSUME NEW x, NEW f, NEW g, NEW n, n = Nil \/ (f[n.left] = g[n.left] /\ f[n.right] = g[n.right])
  PROVE  InsertBody(x, f, n) = InsertBody(x, g, n)
  BY DEF InsertBody, Link
LEMMA InsertExists ==
  ASSUME NEW x, NEW h \in Nat
  PROVE  \E f : f = [n \in TreesOf[h] |-> InsertBody(x, f, n)]
<1> DEFINE From(f, i) == f = [n \in TreesOf[i] |-> InsertBody(x, f, n)]
           Good == {i \in Nat : \E f : From(f, i)}
<1>1. 0 \in Good
  <2> DEFINE g == [n \in TreesOf[0] |-> InsertBody(x, <<>>, n)]
  <2>1. ASSUME NEW n \in TreesOf[0] PROVE InsertBody(x, <<>>, n) = InsertBody(x, g, n)
    BY TreesOfIs, InsertSame
  <2>2. From(g, 0)
    BY <2>1
  <2> QED
    BY <2>2
<1>2. ASSUME NEW i \in Nat, i \in Good PROVE i + 1 \in Good
  <2>1. PICK f : From(f, i)
    BY <1>2
  <2> DEFINE g == [n \in TreesOf[i + 1] |-> InsertBody(x, f, n)]
  <2>2. ASSUME NEW m \in TreesOf[i] PROVE g[m] = f[m]
    <3>1. m \in TreesOf[i + 1]
      BY TreesGrow
    <3>2. f[m] = InsertBody(x, f, m)
      BY <2>1
    <3> QED
      BY <3>1, <3>2
  <2>3. ASSUME NEW n \in TreesOf[i + 1] PROVE InsertBody(x, f, n) = InsertBody(x, g, n)
    <3>1. n = Nil \/ (n.left \in TreesOf[i] /\ n.right \in TreesOf[i])
      BY TreesOfIs, DeeperHas
    <3> HIDE DEF g
    <3> QED
      BY <2>2, <3>1, InsertSame
  <2>4. From(g, i + 1)
    BY <2>3
  <2> HIDE DEF g, From
  <2> QED
    BY <2>4
<1> HIDE DEF Good
<1>3. h \in Good
  BY <1>1, <1>2, Numbers
<1> QED
  BY <1>3 DEF Good
LEMMA InsertIs ==
  ASSUME NEW x, NEW n \in Trees
  PROVE  Inserted(x)[n] = InsertBody(x, Inserted(x), n)
<1>1. PICK f : f = [m \in Trees |-> InsertBody(x, f, m)]
  BY InsertExists, SetAssumption, FS_CardinalityType DEF Trees
<1>2. Inserted(x) = [m \in Trees |-> InsertBody(x, Inserted(x), m)]
  BY <1>1 DEF Inserted, InsertBody
<1> QED
  BY <1>2

-----------------------------------------------------------------------------
\* Induction over trees: what holds of Nil and of the tree above two of which it holds.
LEMMA TreeBy ==
  ASSUME NEW G, G \subseteq TreeFacts, <<Nil, {}, 0>> \in G,
         \A n, S, h, v, c, l, A, r, B, k :
            /\ Above(n, S, h, v, c, l, A, r, B, k) /\ Tree(n, S, h) /\ Calm(n)
            /\ <<l, A, k>> \in G /\ <<r, B, k>> \in G
            => <<n, S, h>> \in G
  PROVE  \A n, S, h : Tree(n, S, h) => <<n, S, h>> \in G
<1>1. ASSUME NEW v, NEW c, NEW l, NEW A, NEW r, NEW B, NEW k, Joins(G, v, c, l, A, r, B, k)
      PROVE  <<Node(v, c, l, r), A \union {v} \union B, Height(c, k)>> \in G
  <2> DEFINE m == Node(v, c, l, r)
             T == A \union {v} \union B
             i == Height(c, k)
  <2>1. Joins(TreeFacts, v, c, l, A, r, B, k) /\ Calm(m) /\ <<l, A, k>> \in G /\ <<r, B, k>> \in G
    BY <1>1 DEF Joins
  <2>2. <<m, T, i>> \in TreeFacts
    BY <2>1, TreesRuled DEF Ruled
  <2>3. Above(m, T, i, v, c, l, A, r, B, k)
    BY <2>1 DEF Above, Tree, Joins
  <2> HIDE DEF m, T, i
  <2>4. Tree(m, T, i)
    BY <2>2 DEF Tree
  <2>5. <<m, T, i>> \in G
    BY <2>1, <2>3, <2>4
  <2> QED
    BY <2>5 DEF m, T, i
<1>2. Ruled(G)
  BY <1>1 DEF Ruled
<1>3. G \subseteq Facts
  BY DEF TreeFacts
<1> QED
  BY <1>2, <1>3, TreeInduction DEF Tree

\* What a node above two trees is made of.
LEMMA AboveIs ==
  ASSUME NEW n, NEW S, NEW h, NEW v, NEW c, NEW l, NEW A, NEW r, NEW B, NEW k,
         Above(n, S, h, v, c, l, A, r, B, k)
  PROVE  /\ v \in Values /\ c \in BOOLEAN /\ k \in Nat
         /\ Tree(l, A, k) /\ Tree(r, B, k)
         /\ l \in Trees /\ r \in Trees /\ A \subseteq Values /\ B \subseteq Values
         /\ S = A \union {v} \union B /\ h = Height(c, k) /\ v \notin A /\ v \notin B
         /\ n.value = v /\ n.red = c /\ n.left = l /\ n.right = r /\ n # Nil
<1>1. v \notin A /\ v \notin B
  BY IntValue DEF Above, Beside, After
<1> QED
  BY <1>1, NodeFields, TreeIs DEF Above

\* The values of a tree and its height are those it is said to have.
LEMMA TreeHas ==
  ASSUME NEW n, NEW S, NEW h, Tree(n, S, h)
  PROVE  ValuesOf[n] = S /\ BlackHeight[n] = h
<1> DEFINE P(m, T, i) == ValuesOf[m] = T /\ BlackHeight[m] = i
           G == {f \in TreeFacts : P(f[1], f[2], f[3])}
<1>1. P(Nil, {}, 0) /\ Tree(Nil, {}, 0)
  BY NilTree, TreeIs, ValueIs, HeightIs DEF ValueBody, HeightBody
<1>2. ASSUME NEW m, NEW T, NEW i, NEW v, NEW c, NEW l, NEW A, NEW r, NEW B, NEW k,
             Above(m, T, i, v, c, l, A, r, B, k), Tree(m, T, i), Calm(m), P(l, A, k), P(r, B, k)
      PROVE  P(m, T, i)
  <2>1. m \in Trees
    BY <1>2, TreeIs
  <2>2. ValuesOf[m] = {v} \union A \union B
    <3>1. m # Nil => ValuesOf[m] = {m.value} \union ValuesOf[m.left] \union ValuesOf[m.right]
      BY <2>1, ValueIs DEF ValueBody
    <3>2. m # Nil /\ m.value = v /\ m.left = l /\ m.right = r
      BY <1>2, AboveIs
    <3> QED
      BY <1>2, <3>1, <3>2
  <2>3. BlackHeight[m] = IF c THEN k ELSE k + 1
    BY <1>2, <2>1, HeightIs, AboveIs DEF HeightBody, Calm
  <2> QED
    BY <1>2, <2>2, <2>3, AboveIs DEF Height
<1>3. ASSUME NEW m, NEW T, NEW i PROVE <<m, T, i>> \in G <=> Tree(m, T, i) /\ P(m, T, i)
  BY DEF Tree
<1>4. G \subseteq TreeFacts
  OBVIOUS
<1> HIDE DEF P, G
<1>5. <<Nil, {}, 0>> \in G
  BY <1>1, <1>3
<1>6. ASSUME NEW m, NEW T, NEW i, NEW v, NEW c, NEW l, NEW A, NEW r, NEW B, NEW k,
             Above(m, T, i, v, c, l, A, r, B, k), Tree(m, T, i), Calm(m), <<l, A, k>> \in G, <<r, B, k>> \in G
      PROVE  <<m, T, i>> \in G
  BY <1>2, <1>3, <1>6
<1>7. <<n, S, h>> \in G
  BY <1>4, <1>5, <1>6, TreeBy
<1>8. P(n, S, h)
  BY <1>3, <1>7
<1> QED
  BY <1>8 DEF P

\* The same node by its sides, either way round.
LEMMA AboveSpread ==
  ASSUME NEW n, NEW S, NEW h, NEW v, NEW c, NEW l, NEW A, NEW r, NEW B, NEW k,
         Above(n, S, h, v, c, l, A, r, B, k), NEW d, NEW e, Sides(d, e)
  PROVE  \E x, X, y, Y :
            /\ Spread(n, S, h, d, e, v, c, x, X, y, Y, k)
            /\ (x = l /\ X = A /\ y = r /\ Y = B) \/ (x = r /\ X = B /\ y = l /\ Y = A)
<1>1. CASE d = On
  <2>1. d = TRUE /\ e = FALSE /\ Mk(v, c, d, r, l) = Node(v, c, l, r)
    BY <1>1 DEF Sides, On, Mk
  <2>2. Spread(n, S, h, d, e, v, c, r, B, l, A, k)
    BY <2>1 DEF Above, Spread
  <2> QED
    BY <2>2
<1>2. CASE d # On
  <2>1. d = FALSE /\ e = TRUE /\ Mk(v, c, d, l, r) = Node(v, c, l, r)
    BY <1>2 DEF Sides, On, Mk
  <2>2. Spread(n, S, h, d, e, v, c, l, A, r, B, k)
    BY <2>1 DEF Above, Spread
  <2> QED
    BY <2>2
<1> QED
  BY <1>1, <1>2

\* The side a value is on.
LEMMA SideOf ==
  ASSUME NEW v \in Values, NEW x \in Values, v # x
  PROVE  \E d, e : Sides(d, e) /\ After(d, v, x) /\ d = (v < x)
<1>1. v \in Int /\ x \in Int
  BY IntValue
<1>2. CASE v < x
  <2>1. Sides(TRUE, FALSE) /\ After(TRUE, v, x) /\ TRUE = (v < x)
    BY <1>2 DEF Sides, After
  <2> QED
    BY <2>1
<1>3. CASE ~(v < x)
  <2>1. Sides(FALSE, TRUE) /\ After(FALSE, v, x) /\ FALSE = (v < x)
    BY <1>1, <1>3 DEF Sides, After
  <2> QED
    BY <2>1
<1> QED
  BY <1>2, <1>3

\* Has and Inserted at a node, by the side the value is on.
LEMMA HasBy ==
  ASSUME NEW x, NEW n \in Trees, n # Nil, NEW d, d = (n.value < x)
  PROVE  Has(x)[n] = (n.value = x \/ Has(x)[Link(n, d)])
<1>1. Has(x)[n] = (n # Nil /\ (n.value = x \/ Has(x)[Link(n, n.value < x)]))
  BY HasIs DEF HasBody
<1> QED
  BY <1>1
LEMMA InsertBy ==
  ASSUME NEW x, NEW n \in Trees, n # Nil, NEW d, d = (n.value < x), n.value # x
  PROVE  Inserted(x)[n] = Repaired(SetLink(n, d, Inserted(x)[Link(n, d)]), d)
<1>1. Inserted(x)[n] = InsertBody(x, Inserted(x), n)
  BY InsertIs
<1> QED
  BY <1>1 DEF InsertBody

\* find: whether the value is there.
LEMMA HasWhat ==
  ASSUME NEW n, NEW S, NEW h, Tree(n, S, h), NEW x \in Values
  PROVE  Has(x)[n] = (x \in S)
<1> DEFINE P(m, T, i) == Has(x)[m] \in BOOLEAN /\ (Has(x)[m] <=> x \in T)
           G == {f \in TreeFacts : P(f[1], f[2], f[3])}
<1>1. P(Nil, {}, 0) /\ Tree(Nil, {}, 0)
  BY NilTree, TreeIs, HasIs DEF HasBody
<1>2. ASSUME NEW m, NEW T, NEW i, NEW v, NEW c, NEW l, NEW A, NEW r, NEW B, NEW k,
             Above(m, T, i, v, c, l, A, r, B, k), Tree(m, T, i), Calm(m), P(l, A, k), P(r, B, k)
      PROVE  P(m, T, i)
  <2>1. m \in Trees /\ m # Nil /\ m.value = v /\ v \in Values /\ T = A \union {v} \union B
    BY <1>2, TreeIs, AboveIs
  <2>2. CASE v = x
    <3>1. Has(x)[m] = (m # Nil /\ (m.value = x \/ Has(x)[Link(m, m.value < x)]))
      BY <2>1, HasIs DEF HasBody
    <3> QED
      BY <2>1, <2>2, <3>1
  <2>3. CASE v # x
    <3>1. PICK d, e : Sides(d, e) /\ After(d, v, x) /\ d = (v < x)
      BY <2>1, <2>3, SideOf
    <3>2. PICK z, Z, y, Y :
             /\ Spread(m, T, i, d, e, v, c, z, Z, y, Y, k)
             /\ (z = l /\ Z = A /\ y = r /\ Y = B) \/ (z = r /\ Z = B /\ y = l /\ Y = A)
      BY <1>2, <3>1, AboveSpread
    <3>3. Link(m, d) = z /\ Beside(e, v, Y) /\ T = Z \union {v} \union Y
      BY <3>1, <3>2, MkFields DEF Spread
    <3>4. Has(x)[m] = (m.value = x \/ Has(x)[Link(m, d)])
      BY <2>1, <3>1, HasBy
    <3>5. Has(x)[z] \in BOOLEAN /\ (Has(x)[z] <=> x \in Z)
      BY <1>2, <3>2
    <3>6. x \notin Y
      BY <2>1, <3>1, <3>3, AfterIs, AfterAfter DEF Beside
    <3>7. Has(x)[m] = (v = x \/ Has(x)[z])
      BY <2>1, <3>3, <3>4
    <3> QED
      BY <2>3, <3>3, <3>5, <3>6, <3>7
  <2> QED
    BY <2>2, <2>3
<1>3. ASSUME NEW m, NEW T, NEW i PROVE <<m, T, i>> \in G <=> Tree(m, T, i) /\ P(m, T, i)
  BY DEF Tree
<1>4. G \subseteq TreeFacts
  OBVIOUS
<1> HIDE DEF P, G
<1>5. <<Nil, {}, 0>> \in G
  BY <1>1, <1>3
<1>6. ASSUME NEW m, NEW T, NEW i, NEW v, NEW c, NEW l, NEW A, NEW r, NEW B, NEW k,
             Above(m, T, i, v, c, l, A, r, B, k), Tree(m, T, i), Calm(m), <<l, A, k>> \in G, <<r, B, k>> \in G
      PROVE  <<m, T, i>> \in G
  BY <1>2, <1>3, <1>6
<1>7. <<n, S, h>> \in G
  BY <1>4, <1>5, <1>6, TreeBy
<1>8. P(n, S, h)
  BY <1>3, <1>7
<1> QED
  BY <1>8 DEF P

\* insert, down from a node: a loose tree with the value.
LEMMA InsertedIs ==
  ASSUME NEW n, NEW S, NEW h, Tree(n, S, h), NEW x \in Values
  PROVE  /\ Loose(Inserted(x)[n], S \union {x}, h) /\ Single(Inserted(x)[n])
         /\ ~n.red => Calm(Inserted(x)[n])
<1> DEFINE P(m, T, i) == /\ Loose(Inserted(x)[m], T \union {x}, i) /\ Single(Inserted(x)[m])
                         /\ ~m.red => Calm(Inserted(x)[m])
           G == {f \in TreeFacts : P(f[1], f[2], f[3])}
<1>0. Sides(FALSE, TRUE)
  BY DEF Sides
<1>1. P(Nil, {}, 0) /\ Tree(Nil, {}, 0)
  <2>1. Inserted(x)[Nil] = Node(x, On, Nil, Nil)
    BY NilTree, TreeIs, InsertIs DEF InsertBody, Leaf, Node, On
  <2>2. Node(x, On, Nil, Nil) = Mk(x, On, FALSE, Nil, Nil)
    BY DEF Mk
  <2>3. Tree(Mk(x, On, FALSE, Nil, Nil), {} \union {x} \union {}, 0)
    BY <1>0, NilTree, NilIs, MakeRed DEF Beside
  <2>4. {} \union {x} \union {} = {} \union {x}
    OBVIOUS
  <2>5. Tree(Inserted(x)[Nil], {} \union {x}, 0)
    BY <2>1, <2>2, <2>3, <2>4
  <2>6. Inserted(x)[Nil] # Nil
    BY <2>1, NodeFields
  <2> QED
    BY <2>5, <2>6, TreeCases, CalmSingle, NilTree
<1>2. ASSUME NEW m, NEW T, NEW i, NEW v, NEW c, NEW l, NEW A, NEW r, NEW B, NEW k,
             Above(m, T, i, v, c, l, A, r, B, k), Tree(m, T, i), Calm(m), P(l, A, k), P(r, B, k)
      PROVE  P(m, T, i)
  <2>1. /\ m \in Trees /\ m # Nil /\ m.value = v /\ m.red = c /\ v \in Values /\ c \in BOOLEAN /\ k \in Nat
        /\ T = A \union {v} \union B
    BY <1>2, TreeIs, AboveIs
  <2>2. CASE v = x
    <3>1. Inserted(x)[m] = InsertBody(x, Inserted(x), m)
      BY <2>1, InsertIs
    <3>2. T \union {x} = T /\ Inserted(x)[m] = m
      BY <2>1, <2>2, <3>1 DEF InsertBody
    <3> QED
      BY <1>2, <2>1, <3>2, TreeCases, CalmSingle
  <2>3. CASE v # x
    <3>1. PICK d, e : Sides(d, e) /\ After(d, v, x) /\ d = (v < x)
      BY <2>1, <2>3, SideOf
    <3>2. PICK z, Z, y, Y :
             /\ Spread(m, T, i, d, e, v, c, z, Z, y, Y, k)
             /\ (z = l /\ Z = A /\ y = r /\ Y = B) \/ (z = r /\ Z = B /\ y = l /\ Y = A)
      BY <1>2, <3>1, AboveSpread
    <3>3. /\ m = Mk(v, c, d, z, y) /\ T = Z \union {v} \union Y /\ i = Height(c, k)
          /\ Tree(y, Y, k) /\ Beside(d, v, Z) /\ Beside(e, v, Y)
      BY <3>2 DEF Spread
    <3> DEFINE t == Inserted(x)[z]
    <3>4. Loose(t, Z \union {x}, k) /\ Single(t) /\ (~z.red => Calm(t))
      BY <1>2, <3>2
    <3>5. Link(m, d) = z /\ SetLink(m, d, t) = Mk(v, c, d, t, y)
      BY <3>1, <3>3, MkFields, MkNear
    <3>6. Inserted(x)[m] = Repaired(SetLink(m, d, Inserted(x)[Link(m, d)]), d)
      BY <2>1, <2>3, <3>1, InsertBy
    <3>7. c => ~z.red /\ ~y.red
      BY <1>2, <3>1, <3>3, MkCalm
    <3>8. Beside(d, v, Z \union {x})
      BY <3>1, <3>3 DEF Beside
    <3> HIDE DEF t
    <3>9. /\ Loose(Repaired(Mk(v, c, d, t, y), d), (Z \union {x}) \union {v} \union Y, Height(c, k))
          /\ Single(Repaired(Mk(v, c, d, t, y), d))
          /\ ~c => Calm(Repaired(Mk(v, c, d, t, y), d))
      BY <2>1, <3>1, <3>3, <3>4, <3>7, <3>8, RepairedIs
    <3>10. (Z \union {x}) \union {v} \union Y = T \union {x}
      BY <3>3
    <3>11. Inserted(x)[m] = Repaired(Mk(v, c, d, t, y), d)
      BY <3>5, <3>6 DEF t
    <3> QED
      BY <2>1, <3>3, <3>9, <3>10, <3>11
  <2> QED
    BY <2>2, <2>3
<1>3. ASSUME NEW m, NEW T, NEW i PROVE <<m, T, i>> \in G <=> Tree(m, T, i) /\ P(m, T, i)
  BY DEF Tree
<1>4. G \subseteq TreeFacts
  OBVIOUS
<1> HIDE DEF P, G
<1>5. <<Nil, {}, 0>> \in G
  BY <1>1, <1>3
<1>6. ASSUME NEW m, NEW T, NEW i, NEW v, NEW c, NEW l, NEW A, NEW r, NEW B, NEW k,
             Above(m, T, i, v, c, l, A, r, B, k), Tree(m, T, i), Calm(m), <<l, A, k>> \in G, <<r, B, k>> \in G
      PROVE  <<m, T, i>> \in G
  BY <1>2, <1>3, <1>6
<1>7. <<n, S, h>> \in G
  BY <1>4, <1>5, <1>6, TreeBy
<1>8. P(n, S, h)
  BY <1>3, <1>7
<1> QED
  BY <1>8 DEF P

-----------------------------------------------------------------------------
\* remove.  Level, balance and settle by the sides d and e.
LEMMA MkKids ==
  ASSUME NEW v, NEW c, NEW d, NEW e, Sides(d, e), NEW x, NEW y
  PROVE  ~Mk(v, c, d, x, y).left.red /\ ~Mk(v, c, d, x, y).right.red <=> ~x.red /\ ~y.red
  BY NodeFields, MkCases

\* A node of either colour above two trees it may be above.
LEMMA MakeAny ==
  ASSUME NEW v \in Values, NEW c \in BOOLEAN, NEW d, NEW e, Sides(d, e), NEW x, NEW X, NEW y, NEW Y,
         NEW k \in Nat, Tree(x, X, k), Tree(y, Y, k), Beside(d, v, X), Beside(e, v, Y),
         c => ~x.red /\ ~y.red
  PROVE  Tree(Mk(v, c, d, x, y), X \union {v} \union Y, Height(c, k))
<1>1. Spread(Mk(v, c, d, x, y), X \union {v} \union Y, Height(c, k), d, e, v, c, x, X, y, Y, k)
  BY DEF Spread
<1> QED
  BY <1>1, MkCalm, LooseClose, LooseTree

\* Level and Settle by the sides d and e.
LEMMA LevelBy ==
  ASSUME NEW p, NEW d, NEW e, Sides(d, e), NEW s, s = Link(p, e)
  PROVE  Level(p, d) = IF ~s.left.red /\ ~s.right.red
                       THEN [tree |-> SetLink(Painted(p, Off), e, Painted(s, On)), done |-> p.red]
                       ELSE [tree |-> Settled(IF Link(s, e).red THEN Rotate(p, d) ELSE RotateTwice(p, d), p.red),
                             done |-> TRUE]
  BY DEF Level, Settle, Settled, Sides, On, Off

\* What is left of a tree: it is a tree of height h, or of the next lower one if
\* that is not done yet; which it may be only where the node was black.
Leaves(r, c, S, h) ==
    /\ r.done \in BOOLEAN
    /\ Tree(r.tree, S, IF r.done THEN h ELSE h - 1)
    /\ ~r.done => ~r.tree.red /\ ~c /\ h # 0
    /\ ~c => ~r.tree.red

\* What Level leaves above a tree that is one lower than its sibling, which is black.
LEMMA LevelIs ==
  ASSUME NEW v \in Values, NEW c \in BOOLEAN, NEW d, NEW e, Sides(d, e), NEW k \in Nat,
         NEW x, NEW X, NEW s, NEW Y, Tree(x, X, k), Tree(s, Y, k + 1), ~x.red, ~s.red,
         Beside(d, v, X), Beside(e, v, Y)
  PROVE  Leaves(Level(Mk(v, c, d, x, s), d), c, X \union {v} \union Y, Height(c, k + 1))
<1> DEFINE p == Mk(v, c, d, x, s)
           S == X \union {v} \union Y
           h == Height(c, k + 1)
<1>1. Sides(e, d)
  BY OtherSide
<1>2. s # Nil
  BY TreeCases
<1>3. PICK w, q, a, A, b, B, j :
         /\ Spread(s, Y, k + 1, d, e, w, q, a, A, b, B, j)
         /\ q => ~a.red /\ ~b.red
  BY <1>2, TreeOpen
<1>4. /\ w \in Values /\ q \in BOOLEAN /\ j \in Nat
      /\ Tree(a, A, j) /\ Tree(b, B, j)
      /\ Beside(d, w, A) /\ Beside(e, w, B)
      /\ s = Mk(w, q, d, a, b) /\ Y = A \union {w} \union B /\ k + 1 = Height(q, j)
  <2>1. Spread(s, Y, k + 1, d, e, w, q, a, A, b, B, j)
    BY <1>3
  <2> QED
    BY <2>1 DEF Spread
<1>5. ~q /\ q = Off /\ j = k
  <2>1. s.red = q
    BY <1>4, MkFields
  <2> QED
    BY <1>4, <2>1, ColourIs DEF Height
<1>6. Link(p, e) = s /\ Link(s, e) = b /\ p.red = c
  BY <1>4, MkFields
<1>7. ~s.left.red /\ ~s.right.red <=> ~a.red /\ ~b.red
  BY <1>4, MkKids
<1>8. After(e, v, w) /\ Beside(e, v, A) /\ Beside(e, v, B) /\ After(d, w, v)
  BY <1>1, <1>4, BesideUnion, AfterIs
<1>9. A \subseteq Values /\ B \subseteq Values /\ X \subseteq Values
  BY <1>4, TreeIs
<1>10. Beside(d, w, X)
  BY <1>4, <1>8, <1>9, BesideFar
<1>11. h = IF c THEN k + 1 ELSE k + 2
  BY DEF Height
<1>12. CASE ~a.red /\ ~b.red
  <2> DEFINE t == Mk(v, Off, d, x, Mk(w, On, d, a, b))
  <2>1. Level(p, d) = [tree |-> SetLink(Painted(p, Off), e, Painted(s, On)), done |-> c]
    BY <1>6, <1>7, <1>12, LevelBy
  <2>2. SetLink(Painted(p, Off), e, Painted(s, On)) = t
    BY <1>4, MkPainted, MkFar
  <2>3. Tree(Mk(w, On, d, a, b), Y, k)
    BY <1>4, <1>5, <1>12, MakeRed
  <2>4. Tree(t, S, k + 1) /\ t.red = Off
    <3>1. Tree(t, S, k + 1)
      BY <2>3, MakeBlack
    <3> QED
      BY <3>1, MkFields
  <2> HIDE DEF t, p, S, h
  <2>5. Level(p, d).tree = t /\ Level(p, d).done = c
    BY <2>1, <2>2
  <2>6. Leaves(Level(p, d), c, S, h)
    BY <1>11, <2>4, <2>5, Colours DEF Leaves
  <2> QED
    BY <2>6 DEF p, S, h
<1>13. ASSUME NEW t, Level(p, d) = [tree |-> t, done |-> TRUE], Tree(t, S, h), t.red = c
       PROVE  Leaves(Level(p, d), c, S, h)
  <2> HIDE DEF p, S, h
  <2> QED
    BY <1>13 DEF Leaves
<1>14. CASE b.red
  <2> DEFINE t == Mk(w, c, d, Mk(v, Off, d, x, a), Black(b))
  <2>1. Level(p, d) = [tree |-> Settled(Rotate(p, d), c), done |-> TRUE]
    BY <1>6, <1>7, <1>14, LevelBy
  <2>2. Rotate(p, d) = Mk(w, Off, d, Mk(v, On, d, x, a), b)
    BY <1>4, RotateIs
  <2>3. Settled(Rotate(p, d), c) = t
    BY <2>2, MkSettled, MkBlack
  <2>4. Tree(Mk(v, Off, d, x, a), X \union {v} \union A, k + 1)
    BY <1>4, <1>5, <1>8, MakeBlack
  <2>5. Tree(Black(b), B, k + 1) /\ ~Black(b).red
    BY <1>4, <1>5, <1>14, BlackTree
  <2>6. Beside(d, w, X \union {v} \union A)
    BY <1>4, <1>8, <1>10, BesideUnion
  <2>7. ~Mk(v, Off, d, x, a).red
    BY MkFields, Colours
  <2>8. Tree(t, (X \union {v} \union A) \union {w} \union B, h)
    BY <1>4, <2>4, <2>5, <2>6, <2>7, MakeAny
  <2>9. (X \union {v} \union A) \union {w} \union B = S
    BY <1>4
  <2>10. t.red = c
    BY MkFields
  <2> QED
    BY <1>13, <2>1, <2>3, <2>8, <2>9, <2>10
<1>15. CASE a.red /\ ~b.red
  <2>1. PICK u, o, a1, A1, a2, A2, i :
           /\ Spread(a, A, k, d, e, u, o, a1, A1, a2, A2, i)
           /\ o => ~a1.red /\ ~a2.red
    BY <1>4, <1>5, <1>15, NilIs, TreeOpen
  <2>2. /\ u \in Values /\ o \in BOOLEAN /\ i \in Nat
        /\ Tree(a1, A1, i) /\ Tree(a2, A2, i)
        /\ Beside(d, u, A1) /\ Beside(e, u, A2)
        /\ a = Mk(u, o, d, a1, a2) /\ A = A1 \union {u} \union A2 /\ k = Height(o, i)
    <3>1. Spread(a, A, k, d, e, u, o, a1, A1, a2, A2, i)
      BY <2>1
    <3> QED
      BY <3>1 DEF Spread
  <2>3. a.red = o
    BY <2>2, MkFields
  <2>4. o /\ o = On /\ i = k
    BY <1>15, <2>2, <2>3, ColourIs DEF Height
  <2> DEFINE t == Mk(u, c, d, Mk(v, Off, d, x, a1), Mk(w, Off, d, a2, b))
  <2>5. Level(p, d) = [tree |-> Settled(RotateTwice(p, d), c), done |-> TRUE]
    BY <1>6, <1>7, <1>15, LevelBy
  <2>6. RotateTwice(p, d) = Mk(u, Off, d, Mk(v, On, d, x, a1), Mk(w, On, d, a2, b))
    BY <1>4, <2>2, RotateTwiceIs
  <2>7. Settled(RotateTwice(p, d), c) = t
    BY <2>6, MkSettled, MkBlack
  <2>8. Beside(e, v, A1) /\ After(e, v, u) /\ Beside(d, w, A2) /\ After(d, w, u)
    BY <1>4, <1>8, <2>2, BesideUnion
  <2>9. After(d, u, v) /\ After(e, u, w)
    BY <1>1, <1>4, <2>2, <2>8, AfterIs
  <2>10. Tree(Mk(v, Off, d, x, a1), X \union {v} \union A1, k + 1)
    BY <2>2, <2>4, <2>8, MakeBlack
  <2>11. Tree(Mk(w, Off, d, a2, b), A2 \union {w} \union B, k + 1)
    BY <1>4, <1>5, <2>2, <2>4, <2>8, MakeBlack
  <2>12. Beside(d, u, X) /\ Beside(e, u, B)
    BY <1>1, <1>4, <1>9, <2>2, <2>9, BesideFar
  <2>13. Beside(d, u, X \union {v} \union A1) /\ Beside(e, u, A2 \union {w} \union B)
    BY <2>2, <2>9, <2>12, BesideUnion
  <2>14. ~Mk(v, Off, d, x, a1).red /\ ~Mk(w, Off, d, a2, b).red
    BY MkFields, Colours
  <2>15. Tree(t, (X \union {v} \union A1) \union {u} \union (A2 \union {w} \union B), h)
    BY <2>2, <2>10, <2>11, <2>13, <2>14, MakeAny
  <2>16. (X \union {v} \union A1) \union {u} \union (A2 \union {w} \union B) = S
    BY <1>4, <2>2
  <2>17. t.red = c
    BY MkFields
  <2> QED
    BY <1>13, <2>5, <2>7, <2>15, <2>16, <2>17
<1> QED
  BY <1>12, <1>14, <1>15

\* Balanced by the sides d and e.
LEMMA BalancedBy ==
  ASSUME NEW n, NEW d, NEW e, Sides(d, e), Link(n, e) # Nil
  PROVE  Balanced(n, d) = IF ~Link(n, e).red THEN Level(n, d)
                          ELSE [tree |-> SetLink(Rotate(n, d), d, Level(Link(Rotate(n, d), d), d).tree),
                                done |-> Level(Link(Rotate(n, d), d), d).done]
  BY DEF Balanced, Sides

\* What Balanced leaves above a tree that is one lower than its sibling.
LEMMA BalancedIs ==
  ASSUME NEW v \in Values, NEW c \in BOOLEAN, NEW d, NEW e, Sides(d, e), NEW k \in Nat,
         NEW x, NEW X, NEW s, NEW Y, Tree(x, X, k), Tree(s, Y, k + 1), ~x.red, c => ~s.red,
         Beside(d, v, X), Beside(e, v, Y)
  PROVE  Leaves(Balanced(Mk(v, c, d, x, s), d), c, X \union {v} \union Y, Height(c, k + 1))
<1> DEFINE n == Mk(v, c, d, x, s)
           S == X \union {v} \union Y
           h == Height(c, k + 1)
<1>1. s # Nil /\ Link(n, e) = s
  BY TreeCases, MkFields
<1>2. CASE ~s.red
  <2>1. Balanced(n, d) = Level(n, d)
    BY <1>1, <1>2, BalancedBy
  <2> QED
    BY <1>2, <2>1, LevelIs
<1>3. CASE s.red
  <2>1. ~c /\ c = Off
    BY <1>3, ColourIs
  <2>2. PICK w, q, a, A, b, B, j :
           /\ Spread(s, Y, k + 1, d, e, w, q, a, A, b, B, j)
           /\ q => ~a.red /\ ~b.red
    BY <1>1, TreeOpen
  <2>3. /\ w \in Values /\ q \in BOOLEAN /\ j \in Nat
        /\ Tree(a, A, j) /\ Tree(b, B, j)
        /\ Beside(d, w, A) /\ Beside(e, w, B)
        /\ s = Mk(w, q, d, a, b) /\ Y = A \union {w} \union B /\ k + 1 = Height(q, j)
    <3>1. Spread(s, Y, k + 1, d, e, w, q, a, A, b, B, j)
      BY <2>2
    <3> QED
      BY <3>1 DEF Spread
  <2>4. s.red = q
    BY <2>3, MkFields
  <2>5. q /\ j = k + 1 /\ ~a.red /\ ~b.red
    BY <1>3, <2>2, <2>3, <2>4 DEF Height
  <2> DEFINE p == Mk(v, On, d, x, a)
             L == Level(p, d)
  <2>6. Rotate(n, d) = Mk(w, Off, d, p, b)
    BY <2>3, RotateIs
  <2>7. Link(Rotate(n, d), d) = p
    BY <2>6, MkFields
  <2>8. SetLink(Rotate(n, d), d, L.tree) = Mk(w, Off, d, L.tree, b)
    BY <2>6, MkNear
  <2>9. Balanced(n, d) = [tree |-> Mk(w, Off, d, L.tree, b), done |-> L.done]
    BY <1>1, <1>3, <2>7, <2>8, BalancedBy
  <2>10. Beside(e, v, A) /\ After(e, v, w)
    BY <2>3, BesideUnion
  <2>11. Leaves(L, On, X \union {v} \union A, Height(On, k + 1))
    BY <2>3, <2>5, <2>10, Colours, LevelIs
  <2>12. L.done \in BOOLEAN /\ L.done /\ Height(On, k + 1) = k + 1
    BY <2>11, Colours DEF Leaves, Height
  <2>13. Tree(L.tree, X \union {v} \union A, k + 1)
    BY <2>11, <2>12 DEF Leaves
  <2>14. After(d, w, v) /\ X \subseteq Values
    BY <2>3, <2>10, AfterIs, TreeIs
  <2>15. Beside(d, w, X \union {v} \union A)
    BY <2>3, <2>14, BesideFar, BesideUnion
  <2> HIDE DEF L, p
  <2>16. Tree(Mk(w, Off, d, L.tree, b), (X \union {v} \union A) \union {w} \union B, k + 2)
    <3>1. Tree(Mk(w, Off, d, L.tree, b), (X \union {v} \union A) \union {w} \union B, (k + 1) + 1)
      BY <2>3, <2>5, <2>13, <2>15, MakeBlack
    <3> QED
      BY <3>1
  <2>17. (X \union {v} \union A) \union {w} \union B = S
    BY <2>3
  <2>18. h = k + 2
    BY <2>1 DEF Height
  <2> DEFINE r == Balanced(n, d)
  <2>19. r.tree = Mk(w, Off, d, L.tree, b) /\ r.done = L.done
    BY <2>9
  <2>20. Mk(w, Off, d, L.tree, b).red = Off
    BY MkFields
  <2> HIDE DEF r, S, h, n
  <2>21. ~r.tree.red /\ Tree(r.tree, S, h)
    BY <2>16, <2>17, <2>18, <2>19, <2>20, Colours
  <2>22. Leaves(r, c, S, h)
    BY <2>12, <2>19, <2>21 DEF Leaves
  <2> QED
    BY <2>22 DEF r, S, h, n
<1> QED
  BY <1>2, <1>3

\* remove, on the way back from the child on side d.
LEMMA RejoinedIs ==
  ASSUME NEW v \in Values, NEW c \in BOOLEAN, NEW d, NEW e, Sides(d, e), NEW k \in Nat,
         NEW z, NEW b, NEW q, NEW X, NEW y, NEW Y, Leaves(b, q, X, k), Tree(y, Y, k), c => ~q /\ ~y.red,
         Beside(d, v, X), Beside(e, v, Y)
  PROVE  /\ Leaves(Rejoined(Mk(v, c, d, z, y), d, b), c, X \union {v} \union Y, Height(c, k))
         /\ Rejoined(Mk(v, c, d, z, y), d, b).gone = b.gone
<1> DEFINE here == Mk(v, c, d, b.tree, y)
           S == X \union {v} \union Y
           h == Height(c, k)
           r == Rejoined(Mk(v, c, d, z, y), d, b)
<1>1. SetLink(Mk(v, c, d, z, y), d, b.tree) = here
  BY MkNear
<1>2. r = [tree |-> IF b.done THEN here ELSE Balanced(here, d).tree,
           done |-> IF b.done THEN TRUE ELSE Balanced(here, d).done, gone |-> b.gone]
  BY <1>1 DEF Rejoined
<1>3. r.gone = b.gone
  BY <1>2
<1>4. CASE b.done
  <2>1. Tree(b.tree, X, k) /\ (c => ~b.tree.red)
    BY <1>4 DEF Leaves
  <2>2. Tree(here, S, h) /\ here.red = c
    <3>1. Tree(here, S, h)
      BY <2>1, MakeAny
    <3> QED
      BY <3>1, MkFields
  <2>3. r.tree = here /\ r.done = TRUE
    BY <1>2, <1>4
  <2> HIDE DEF r, here, S, h
  <2>4. Leaves(r, c, S, h)
    BY <2>2, <2>3 DEF Leaves
  <2> QED
    BY <1>3, <2>4 DEF r, S, h
<1>5. CASE ~b.done
  <2>1. Tree(b.tree, X, k - 1) /\ ~b.tree.red /\ k - 1 \in Nat
    BY <1>5 DEF Leaves
  <2>2. PICK j \in Nat : j = k - 1 /\ k = j + 1
    BY <2>1
  <2>3. Leaves(Balanced(here, d), c, S, Height(c, j + 1))
    BY <2>1, <2>2, BalancedIs
  <2>4. Leaves(Balanced(here, d), c, S, h)
    BY <2>2, <2>3
  <2>5. r.tree = Balanced(here, d).tree /\ r.done = Balanced(here, d).done
    BY <1>2, <1>5
  <2> HIDE DEF r, here, S, h
  <2>6. Leaves(r, c, S, h)
    BY <2>4, <2>5 DEF Leaves
  <2> QED
    BY <1>3, <2>6 DEF r, S, h
<1> QED
  BY <1>4, <1>5

\* The heir: the greatest value of a tree.
LEMMA HeirWhat ==
  ASSUME NEW n, NEW S, NEW h, Tree(n, S, h), n # Nil
  PROVE  Heir[n] \in S /\ \A w \in S : w <= Heir[n]
<1> DEFINE P(m, T, i) == m # Nil => Heir[m] \in T /\ \A w \in T : w <= Heir[m]
           G == {f \in TreeFacts : P(f[1], f[2], f[3])}
<1>1. P(Nil, {}, 0) /\ Tree(Nil, {}, 0)
  BY NilTree
<1>2. ASSUME NEW m, NEW T, NEW i, NEW v, NEW c, NEW l, NEW A, NEW r, NEW B, NEW k,
             Above(m, T, i, v, c, l, A, r, B, k), Tree(m, T, i), Calm(m), P(l, A, k), P(r, B, k)
      PROVE  P(m, T, i)
  <2>1. /\ m \in Trees \ {Nil} /\ m.value = v /\ m.right = r /\ v \in Values
        /\ T = A \union {v} \union B /\ A \subseteq Values /\ B \subseteq Values /\ Tree(r, B, k)
    BY <1>2, TreeIs, AboveIs
  <2>2. Beside(FALSE, v, A) /\ Beside(TRUE, v, B)
    BY <1>2 DEF Above
  <2>3. Heir[m] = IF r = Nil THEN v ELSE Heir[r]
    BY <2>1, HeirIs DEF HeirBody
  <2>4. v \in Int /\ (\A w \in A : w \in Int /\ w < v) /\ (\A w \in B : w \in Int /\ v < w)
    BY <2>1, <2>2, IntValue DEF Beside, After
  <2>5. CASE r = Nil
    <3>1. B = {}
      BY <2>1, <2>5, TreeCases
    <3> QED
      BY <2>1, <2>3, <2>4, <2>5, <3>1
  <2>6. CASE r # Nil
    <3>1. Heir[m] \in B /\ \A w \in B : w <= Heir[m]
      BY <1>2, <2>3, <2>6
    <3>2. Heir[m] \in Int /\ v < Heir[m]
      BY <2>4, <3>1
    <3>3. \A w \in A : w <= Heir[m]
      BY <2>4, <3>2
    <3>4. \A w \in T : w <= Heir[m]
      <4>1. v <= Heir[m]
        BY <2>4, <3>2
      <4> QED
        BY <2>1, <3>1, <3>3, <4>1
    <3>5. Heir[m] \in T
      BY <2>1, <3>1
    <3> QED
      BY <3>4, <3>5
  <2> QED
    BY <2>5, <2>6
<1>3. ASSUME NEW m, NEW T, NEW i PROVE <<m, T, i>> \in G <=> Tree(m, T, i) /\ P(m, T, i)
  BY DEF Tree
<1>4. G \subseteq TreeFacts
  OBVIOUS
<1> HIDE DEF P, G
<1>5. <<Nil, {}, 0>> \in G
  BY <1>1, <1>3
<1>6. ASSUME NEW m, NEW T, NEW i, NEW v, NEW c, NEW l, NEW A, NEW r, NEW B, NEW k,
             Above(m, T, i, v, c, l, A, r, B, k), Tree(m, T, i), Calm(m), <<l, A, k>> \in G, <<r, B, k>> \in G
      PROVE  <<m, T, i>> \in G
  BY <1>2, <1>3, <1>6
<1>7. <<n, S, h>> \in G
  BY <1>4, <1>5, <1>6, TreeBy
<1>8. P(n, S, h)
  BY <1>3, <1>7
<1> QED
  BY <1>8 DEF P

\* A node that has one child at most, unlinked.
LEMMA UnlinkedIs ==
  ASSUME NEW m, NEW c \in BOOLEAN, NEW s, NEW S, Tree(s, S, 0), c => ~s.red, m.red = c,
         s = (IF m.left = Nil THEN m.right ELSE m.left)
  PROVE  Leaves(Unlinked(m), c, S, Height(c, 0)) /\ Unlinked(m).gone = 1
<1> DEFINE r == Unlinked(m)
           h == Height(c, 0)
<1>1. r = [tree |-> IF c THEN s ELSE Black(s), done |-> c \/ s.red, gone |-> 1]
  BY DEF Unlinked
<1>2. r.gone = 1
  BY <1>1
<1>3. CASE c
  <2>1. r.tree = s /\ r.done = TRUE
    <3>1. (c \/ s.red) = TRUE
      BY <1>3
    <3>2. r.done = (c \/ s.red) /\ r.tree = s
      BY <1>1, <1>3
    <3> QED
      BY <3>1, <3>2
  <2>2. h = 0
    BY <1>3 DEF Height
  <2> HIDE DEF r, h
  <2>3. Leaves(r, c, S, h)
    BY <1>3, <2>1, <2>2 DEF Leaves
  <2> QED
    BY <1>2, <2>3 DEF r, h
<1>4. CASE ~c
  <2>1. r.tree = Black(s) /\ r.done = (c \/ s.red)
    BY <1>1, <1>4
  <2>2. h = 1 /\ h - 1 = 0
    BY <1>4 DEF Height
  <2>3. /\ s.red \in BOOLEAN /\ ~Black(s).red
        /\ s.red => Tree(Black(s), S, 1)
        /\ ~s.red => Tree(Black(s), S, 0)
    BY BlackTree
  <2> HIDE DEF r, h
  <2>4. CASE s.red
    <3>1. r.done = TRUE
      BY <2>1, <2>4
    <3>2. Leaves(r, c, S, h)
      BY <2>1, <2>2, <2>3, <2>4, <3>1 DEF Leaves
    <3> QED
      BY <1>2, <3>2 DEF r, h
  <2>5. CASE ~s.red
    <3>1. r.done = FALSE
      BY <1>4, <2>1, <2>5
    <3>2. Leaves(r, c, S, h)
      BY <1>4, <2>1, <2>2, <2>3, <2>5, <3>1 DEF Leaves
    <3> QED
      BY <1>2, <3>2 DEF r, h
  <2> QED
    BY <2>4, <2>5
<1> QED
  BY <1>3, <1>4

\* remove, down from a node: what is left is a tree without the value.
Count(x, S) == IF x \in S THEN 1 ELSE 0

\* remove, down from a node: the tree without the value, and how many nodes are deleted.
LEMMA RemovedIs ==
  ASSUME NEW n, NEW S, NEW h, Tree(n, S, h), NEW x \in Values
  PROVE  Leaves(Removed[n][x], n.red, S \ {x}, h) /\ Removed[n][x].gone = Count(x, S)
<1> DEFINE P(m, T, i) == \A y \in Values : /\ Leaves(Removed[m][y], m.red, T \ {y}, i)
                                           /\ Removed[m][y].gone = Count(y, T)
           G == {f \in TreeFacts : P(f[1], f[2], f[3])}
<1>1. P(Nil, {}, 0) /\ Tree(Nil, {}, 0)
  <2>1. ASSUME NEW y \in Values PROVE Removed[Nil][y] = [tree |-> Nil, done |-> TRUE, gone |-> 0]
    <3>1. Removed[Nil][y] = RemoveOne(Removed, Nil, y)
      BY NilTree, TreeIs, RemoveIs DEF RemoveBody
    <3> QED
      BY <3>1 DEF RemoveOne
  <2>2. ASSUME NEW y \in Values
        PROVE  Leaves(Removed[Nil][y], Nil.red, {} \ {y}, 0) /\ Removed[Nil][y].gone = Count(y, {})
    <3>1. /\ Removed[Nil][y].tree = Nil /\ Removed[Nil][y].done = TRUE /\ Removed[Nil][y].gone = 0
          /\ {} \ {y} = {}
      BY <2>1
    <3> QED
      BY <3>1, NilTree, NilIs DEF Leaves, Count
  <2> QED
    BY <2>2, NilTree
<1>2. ASSUME NEW m, NEW T, NEW i, NEW v, NEW c, NEW l, NEW A, NEW r, NEW B, NEW k,
             Above(m, T, i, v, c, l, A, r, B, k), Tree(m, T, i), Calm(m), P(l, A, k), P(r, B, k)
      PROVE  P(m, T, i)
  <2> SUFFICES ASSUME NEW y \in Values
               PROVE  Leaves(Removed[m][y], m.red, T \ {y}, i) /\ Removed[m][y].gone = Count(y, T)
    OBVIOUS
  <2>1. /\ m \in Trees /\ m # Nil /\ m.value = v /\ m.red = c /\ m.left = l /\ m.right = r
        /\ v \in Values /\ c \in BOOLEAN /\ k \in Nat
        /\ T = A \union {v} \union B /\ v \notin A /\ v \notin B /\ i = Height(c, k)
        /\ Tree(l, A, k) /\ Tree(r, B, k) /\ A \subseteq Values /\ B \subseteq Values
    BY <1>2, TreeIs, AboveIs
  <2>2. Beside(FALSE, v, A) /\ Beside(TRUE, v, B) /\ m = Node(v, c, l, r)
    BY <1>2 DEF Above
  <2>3. c => ~l.red /\ ~r.red
    BY <1>2, <2>1 DEF Calm
  <2>4. Removed[m][y] = RemoveOne(Removed, m, y)
    BY <2>1, RemoveIs DEF RemoveBody
  <2>5. CASE v = y /\ (l = Nil \/ r = Nil)
    <3>1. Removed[m][y] = Unlinked(m)
      BY <2>1, <2>4, <2>5 DEF RemoveOne
    <3>2. PICK s : s = (IF m.left = Nil THEN m.right ELSE m.left)
      OBVIOUS
    <3>3. Tree(s, T \ {v}, 0) /\ (c => ~s.red) /\ k = 0
      <4>1. CASE l = Nil
        <5>1. A = {} /\ k = 0 /\ s = r /\ T \ {v} = B
          BY <2>1, <3>2, <4>1, TreeCases
        <5> QED
          BY <2>1, <2>3, <5>1
      <4>2. CASE l # Nil
        <5>1. B = {} /\ k = 0 /\ s = l /\ T \ {v} = A
          BY <2>1, <2>5, <3>2, <4>2, TreeCases
        <5> QED
          BY <2>1, <2>3, <5>1
      <4> QED
        BY <4>1, <4>2
    <3>4. Leaves(Unlinked(m), c, T \ {v}, Height(c, 0)) /\ Unlinked(m).gone = 1
      BY <2>1, <3>2, <3>3, UnlinkedIs
    <3> QED
      BY <2>1, <2>5, <3>1, <3>3, <3>4 DEF Count
  <2>6. CASE v = y /\ l # Nil /\ r # Nil
    <3>1. Removed[m][y] = Rejoined(Kept(m, y), Way(m, y), Removed[Link(m, Way(m, y))][Sought(m, y)])
      BY <2>1, <2>4, <2>6 DEF RemoveOne
    <3>2. PICK z : z = Heir[l]
      OBVIOUS
    <3>3. z \in A /\ \A w \in A : w <= z
      BY <2>1, <2>6, <3>2, HeirWhat
    <3>4. z \in Values /\ z \in Int /\ v \in Int /\ z # v
      BY <2>1, <3>3, IntValue
    <3>5. Sought(m, y) = z /\ Kept(m, y) = Node(z, c, l, r)
      BY <2>1, <2>2, <2>6, <3>2, NodeMoved DEF Sought, Kept
    <3>6. PICK d, e : Sides(d, e) /\ d = FALSE /\ e = TRUE
      BY DEF Sides
    <3>7. Way(m, y) = d
      <4>1. Kept(m, y).value = z
        BY <3>5, NodeFields
      <4> QED
        <5>1. Way(m, y) = (z < z)
          BY <3>5, <4>1 DEF Way
        <5>2. (z < z) = FALSE
          BY <3>4
        <5> QED
          BY <3>6, <5>1, <5>2
    <3>8. Link(m, d) = l /\ Node(z, c, l, r) = Mk(z, c, d, l, r)
      BY <2>1, <3>6 DEF Link, Mk
    <3> DEFINE b == Removed[l][z]
    <3>9. Removed[m][y] = Rejoined(Mk(z, c, d, l, r), d, b)
      BY <3>1, <3>5, <3>7, <3>8
    <3>10. Leaves(b, l.red, A \ {z}, k) /\ b.gone = 1
      BY <1>2, <3>3, <3>4 DEF Count
    <3>11. Beside(d, z, A \ {z}) /\ Beside(e, z, B)
      <4>1. \A w \in A \ {z} : w < z
        BY <2>1, <3>3, <3>4, IntValue
      <4>2. \A w \in B : z < w
        BY <2>1, <2>2, <3>3, <3>4, IntValue DEF Beside, After
      <4> QED
        BY <3>6, <4>1, <4>2 DEF Beside, After
    <3> HIDE DEF b
    <3>12. /\ Leaves(Rejoined(Mk(z, c, d, l, r), d, b), c, (A \ {z}) \union {z} \union B, Height(c, k))
           /\ Rejoined(Mk(z, c, d, l, r), d, b).gone = b.gone
      <4>1. PICK q : q = l.red
        OBVIOUS
      <4>2. PICK D : D = A \ {z}
        OBVIOUS
      <4>3. Leaves(b, q, D, k) /\ (c => ~q /\ ~r.red) /\ Beside(d, z, D)
        BY <2>3, <3>10, <3>11, <4>1, <4>2
      <4>4. z \in Values /\ c \in BOOLEAN /\ k \in Nat /\ Sides(d, e) /\ Tree(r, B, k) /\ Beside(e, z, B)
        BY <2>1, <3>4, <3>6, <3>11
      <4>5. /\ Leaves(Rejoined(Mk(z, c, d, l, r), d, b), c, D \union {z} \union B, Height(c, k))
            /\ Rejoined(Mk(z, c, d, l, r), d, b).gone = b.gone
        BY <4>3, <4>4, RejoinedIs
      <4> QED
        BY <4>2, <4>5
    <3>13. (A \ {z}) \union {z} \union B = T \ {y}
      BY <2>1, <2>6, <3>3
    <3> QED
      BY <2>1, <2>6, <3>9, <3>10, <3>12, <3>13 DEF Count
  <2>7. CASE v # y
    <3>1. Removed[m][y] = Rejoined(Kept(m, y), Way(m, y), Removed[Link(m, Way(m, y))][Sought(m, y)])
      BY <2>1, <2>4, <2>7 DEF RemoveOne
    <3>2. PICK d, e : Sides(d, e) /\ After(d, v, y) /\ d = (v < y)
      BY <2>1, <2>7, SideOf
    <3>3. Sought(m, y) = y /\ Kept(m, y) = m
      BY <2>1, <2>7 DEF Sought, Kept
    <3>4. Way(m, y) = d
      BY <2>1, <3>2, <3>3 DEF Way
    <3>5. PICK z, Z, u, U :
             /\ Spread(m, T, i, d, e, v, c, z, Z, u, U, k)
             /\ (z = l /\ Z = A /\ u = r /\ U = B) \/ (z = r /\ Z = B /\ u = l /\ U = A)
      BY <1>2, <3>2, AboveSpread
    <3>6. /\ m = Mk(v, c, d, z, u) /\ T = Z \union {v} \union U
          /\ Tree(u, U, k) /\ Beside(d, v, Z) /\ Beside(e, v, U)
      BY <3>5 DEF Spread
    <3>7. Link(m, d) = z
      BY <3>2, <3>6, MkFields
    <3> DEFINE b == Removed[z][y]
    <3>8. Removed[m][y] = Rejoined(Mk(v, c, d, z, u), d, b)
      BY <3>1, <3>3, <3>4, <3>6, <3>7
    <3>9. Leaves(b, z.red, Z \ {y}, k) /\ b.gone = Count(y, Z)
      BY <1>2, <3>5
    <3>10. Beside(d, v, Z \ {y}) /\ (c => ~z.red /\ ~u.red)
      BY <2>3, <3>5, <3>6 DEF Beside
    <3> HIDE DEF b
    <3>11. /\ Leaves(Rejoined(Mk(v, c, d, z, u), d, b), c, (Z \ {y}) \union {v} \union U, Height(c, k))
           /\ Rejoined(Mk(v, c, d, z, u), d, b).gone = b.gone
      <4>1. PICK q : q = z.red
        OBVIOUS
      <4>2. PICK D : D = Z \ {y}
        OBVIOUS
      <4>3. Leaves(b, q, D, k) /\ (c => ~q /\ ~u.red) /\ Beside(d, v, D)
        BY <3>9, <3>10, <4>1, <4>2
      <4>4. v \in Values /\ c \in BOOLEAN /\ k \in Nat /\ Sides(d, e) /\ Tree(u, U, k) /\ Beside(e, v, U)
        BY <2>1, <3>2, <3>6
      <4>5. /\ Leaves(Rejoined(Mk(v, c, d, z, u), d, b), c, D \union {v} \union U, Height(c, k))
            /\ Rejoined(Mk(v, c, d, z, u), d, b).gone = b.gone
        BY <4>3, <4>4, RejoinedIs
      <4> QED
        BY <4>2, <4>5
    <3>12. y \notin U
      BY <2>1, <3>2, <3>5, <3>6, AfterIs, AfterAfter DEF Beside
    <3>13. (Z \ {y}) \union {v} \union U = T \ {y} /\ (y \in T <=> y \in Z)
      BY <2>7, <3>6, <3>12
    <3> QED
      BY <2>1, <3>8, <3>9, <3>11, <3>13 DEF Count
  <2> QED
    BY <2>5, <2>6, <2>7
<1>3. ASSUME NEW m, NEW T, NEW i PROVE <<m, T, i>> \in G <=> Tree(m, T, i) /\ P(m, T, i)
  BY DEF Tree
<1>4. G \subseteq TreeFacts
  OBVIOUS
<1> HIDE DEF P, G
<1>5. <<Nil, {}, 0>> \in G
  BY <1>1, <1>3
<1>6. ASSUME NEW m, NEW T, NEW i, NEW v, NEW c, NEW l, NEW A, NEW r, NEW B, NEW k,
             Above(m, T, i, v, c, l, A, r, B, k), Tree(m, T, i), Calm(m), <<l, A, k>> \in G, <<r, B, k>> \in G
      PROVE  <<m, T, i>> \in G
  BY <1>2, <1>3, <1>6
<1>7. <<n, S, h>> \in G
  BY <1>4, <1>5, <1>6, TreeBy
<1>8. P(n, S, h)
  BY <1>3, <1>7
<1> QED
  BY <1>8 DEF P

-----------------------------------------------------------------------------
\* The inductive invariant: the root is that of a red-black tree, black, with as
\* many values as are counted.
TreeOk(t, count, S) ==
    /\ \E h : Tree(t, S, h)
    /\ ~t.red /\ count = Cardinality(S)
TreeInv == \E S : TreeOk(root, nodes, S)

\* What the invariant says of the functions the calls read.
LEMMA TreeOkIs ==
  ASSUME NEW t, NEW count, NEW S, TreeOk(t, count, S)
  PROVE  /\ t \in Trees /\ S \subseteq Values /\ IsFiniteSet(S) /\ count \in Nat
         /\ ValuesOf[t] = S /\ count = Cardinality(S)
         /\ \A x \in Values : Has(x)[t] = (x \in S)
  BY TreeIs, TreeHas, HasWhat, SubsetIs DEF TreeOk

\* The invariant holds of the empty tree.
LEMMA TreeStarts ==
  ASSUME TreeInit
  PROVE  TreeInv
<1>1. TreeOk(root, nodes, {})
  BY NilTree, NilIs, FS_EmptySet DEF TreeInit, TreeOk
<1> QED
  BY <1>1 DEF TreeInv

\* reset keeps the invariant, and does to the values what Clears says.
LEMMA ClearKeeps ==
  ASSUME Clear
  PROVE  TreeInv' /\ Members!Clears
<1>1. TreeOk(root', nodes', {})
  BY NilTree, NilIs, FS_EmptySet DEF Clear, TreeOk
<1>2. ValuesOf[root'] = {} /\ found' = TRUE
  BY <1>1, TreeOkIs DEF Clear
<1> QED
  BY <1>1, <1>2 DEF TreeInv, Members!Clears

\* find changes nothing, and its answer is true.
LEMMA FindKeeps ==
  ASSUME TreeInv, NEW x \in Values, Find(x)
  PROVE  TreeInv' /\ Members!Finds(x)
<1>1. PICK S : TreeOk(root, nodes, S)
  BY DEF TreeInv
<1>2. root' = root /\ nodes' = nodes /\ found' = (x \in ValuesOf[root])
  BY <1>1, TreeOkIs DEF Find
<1>3. TreeOk(root', nodes', S)
  BY <1>1, <1>2
<1> QED
  BY <1>2, <1>3 DEF TreeInv, Members!Finds

\* insert keeps it, and does what Inserts says: repairs lose nothing.
LEMMA InsertKeeps ==
  ASSUME TreeInv, NEW x \in Values, Insert(x)
  PROVE  TreeInv' /\ Members!Inserts(x)
<1>1. PICK S : TreeOk(root, nodes, S)
  BY DEF TreeInv
<1>2. PICK h : Tree(root, S, h)
  BY <1>1 DEF TreeOk
<1>3. S \subseteq Values /\ IsFiniteSet(S) /\ nodes \in Nat /\ nodes = Cardinality(S)
      /\ ValuesOf[root] = S /\ Has(x)[root] = (x \in S)
  BY <1>1, TreeOkIs
<1> DEFINE t == Inserted(x)[root]
           T == S \union {x}
<1>4. Loose(t, T, h)
  BY <1>2, InsertedIs
<1> HIDE DEF t
<1>5. ~Black(t).red /\ \E i : Tree(Black(t), T, i)
  BY <1>4, BlackLoose
<1>6. Cardinality(T) = nodes + (IF x \in S THEN 0 ELSE 1)
  <2>1. CASE x \in S
    <3>1. T = S
      BY <2>1
    <3> HIDE DEF T
    <3>2. Cardinality(T) = nodes + 0
      BY <1>3, <3>1
    <3> QED
      BY <2>1, <3>2
  <2>2. CASE x \notin S
    BY <1>3, <2>2, FS_AddElement
  <2> QED
    BY <2>1, <2>2
<1>7. root' = Black(t) /\ nodes' = nodes + (IF x \in S THEN 0 ELSE 1) /\ found' = (nodes' # nodes)
  BY <1>3 DEF Insert, t
<1>8. TreeOk(root', nodes', T)
  BY <1>5, <1>6, <1>7 DEF TreeOk
<1>9. ValuesOf[root'] = ValuesOf[root] \union {x}
  BY <1>3, <1>8, TreeOkIs
<1>10. (nodes' # nodes) = (x \notin S)
  BY <1>3, <1>7
<1>11. found' = (x \notin ValuesOf[root])
  BY <1>3, <1>7, <1>10
<1> QED
  BY <1>8, <1>9, <1>11 DEF TreeInv, Members!Inserts

\* erase keeps it, and does what Removes says: the heir's value is not lost.
LEMMA EraseKeeps ==
  ASSUME TreeInv, NEW x \in Values, Erase(x)
  PROVE  TreeInv' /\ Members!Removes(x)
<1>1. PICK S : TreeOk(root, nodes, S)
  BY DEF TreeInv
<1>2. PICK h : Tree(root, S, h)
  BY <1>1 DEF TreeOk
<1>3. S \subseteq Values /\ IsFiniteSet(S) /\ nodes \in Nat /\ nodes = Cardinality(S) /\ ValuesOf[root] = S
  BY <1>1, TreeOkIs
<1> DEFINE r == Removed[root][x]
           T == S \ {x}
<1>4. Leaves(r, root.red, T, h) /\ r.gone = Count(x, S)
  BY <1>2, RemovedIs
<1> HIDE DEF r
<1>5. PICK i : Tree(r.tree, T, i)
  BY <1>4 DEF Leaves
<1>6. ~Black(r.tree).red /\ \E j : Tree(Black(r.tree), T, j)
  BY <1>5, BlackTree
<1>7. Cardinality(T) = nodes - Count(x, S)
  <2>1. CASE x \in S
    BY <1>3, <2>1, FS_RemoveElement DEF Count
  <2>2. CASE x \notin S
    <3>1. T = S
      BY <2>2
    <3> QED
      BY <1>3, <2>2, <3>1 DEF Count
  <2> QED
    BY <2>1, <2>2
<1>8. root' = Black(r.tree) /\ nodes' = nodes - Count(x, S) /\ found' = (nodes' < nodes)
  BY <1>4 DEF Erase, r
<1>9. TreeOk(root', nodes', T)
  BY <1>6, <1>7, <1>8 DEF TreeOk
<1>10. ValuesOf[root'] = ValuesOf[root] \ {x}
  BY <1>3, <1>9, TreeOkIs
<1>11. (nodes' < nodes) = (x \in S)
  BY <1>3, <1>8 DEF Count
<1>12. found' = (x \in ValuesOf[root])
  BY <1>3, <1>8, <1>11
<1> QED
  BY <1>9, <1>10, <1>12 DEF TreeInv, Members!Removes

\* Every step keeps the invariant.
LEMMA TreeNextKeeps ==
  ASSUME TreeInv, [TreeNext]_treeVars
  PROVE  TreeInv'
<1>1. CASE UNCHANGED treeVars
  <2>1. root' = root /\ nodes' = nodes
    BY <1>1 DEF treeVars
  <2> QED
    BY <2>1 DEF TreeInv
<1>2. CASE TreeNext
  BY <1>2, ClearKeeps, InsertKeeps, EraseKeeps, FindKeeps DEF TreeNext
<1> QED
  BY <1>1, <1>2

\* The tree implements a set: what insert, erase and find return is true, and only the
\* value they are about comes or goes, whatever heirs and rotations it takes.
THEOREM TreeImplementsHolds == TreeSpec => TreeImplements
<1> DEFINE Call == /\ Clear => Members!Clears
                   /\ \A x \in Values : /\ Insert(x) => Members!Inserts(x)
                                        /\ Erase(x) => Members!Removes(x)
                                        /\ Find(x) => Members!Finds(x)
<1>1. TreeInit => TreeInv
  BY TreeStarts
<1>2. TreeInv /\ [TreeNext]_treeVars => TreeInv'
  BY TreeNextKeeps
<1>3. TreeInv /\ [TreeNext]_treeVars => [Call]_treeVars
  BY ClearKeeps, InsertKeeps, EraseKeeps, FindKeeps
<1>4. [][Call]_treeVars => TreeImplements
  BY DEF TreeImplements
<1> HIDE DEF Call
<1> QED
  BY <1>1, <1>2, <1>3, <1>4, PTL DEF TreeSpec

-----------------------------------------------------------------------------
\* Paths: sequences of trees, from a node down.  The turns of a path are where it
\* does not go on at the right; climbing goes up to the last.
Turns(p) == {i \in 1..Len(p) - 1 : p[i].right # p[i + 1]}
Push(m, p) == <<m>> \o p

\* A path of one node has no turn.
LEMMA One ==
  ASSUME NEW m \in Trees
  PROVE  <<m>> \in Seq(Trees) /\ Len(<<m>>) = 1 /\ <<m>>[1] = m /\ Last(<<m>>) = m /\ Turns(<<m>>) = {}
  BY DEF Last, Turns

\* A node put before a path: its length, its elements, its end.
LEMMA PushIs ==
  ASSUME NEW m \in Trees, NEW p \in Seq(Trees)
  PROVE  /\ Push(m, p) \in Seq(Trees) /\ Len(p) \in Nat /\ Len(Push(m, p)) = Len(p) + 1
         /\ Push(m, p)[1] = m
         /\ \A i \in 1..Len(p) : Push(m, p)[i + 1] = p[i]
         /\ Len(p) >= 1 => Last(Push(m, p)) = Last(p)
<1> DEFINE o == <<m>>
<1>1. o \in Seq(Trees) /\ Len(o) = 1 /\ o[1] = m
  OBVIOUS
<1>2. Len(p) \in Nat
  BY LenProperties
<1> HIDE DEF o
<1>3. /\ o \o p \in Seq(Trees) /\ Len(o \o p) = Len(o) + Len(p)
      /\ \A i \in 1..Len(o) + Len(p) : (o \o p)[i] = IF i <= Len(o) THEN o[i] ELSE p[i - Len(o)]
  BY <1>1, ConcatProperties
<1>4. Push(m, p) = o \o p
  BY DEF Push, o
<1>5. /\ Push(m, p) \in Seq(Trees) /\ Len(Push(m, p)) = Len(p) + 1
      /\ \A i \in 1..1 + Len(p) : Push(m, p)[i] = IF i <= 1 THEN o[i] ELSE p[i - 1]
  BY <1>1, <1>2, <1>3, <1>4
<1>6. Push(m, p)[1] = m
  BY <1>1, <1>2, <1>5
<1>7. ASSUME NEW i \in 1..Len(p) PROVE Push(m, p)[i + 1] = p[i]
  <2>1. i + 1 \in 1..1 + Len(p) /\ ~(i + 1 <= 1) /\ (i + 1) - 1 = i
    BY <1>2
  <2> QED
    BY <1>5, <2>1
<1>8. Len(p) >= 1 => Last(Push(m, p)) = Last(p)
  BY <1>2, <1>5, <1>7 DEF Last
<1> QED
  BY <1>2, <1>5, <1>6, <1>7, <1>8

\* The first k nodes of a path.
LEMMA CutIs ==
  ASSUME NEW p \in Seq(Trees), NEW k \in 1..Len(p)
  PROVE  /\ SubSeq(p, 1, k) \in Seq(Trees) /\ Len(SubSeq(p, 1, k)) = k
         /\ \A i \in 1..k : SubSeq(p, 1, k)[i] = p[i]
<1>1. Len(p) \in Nat /\ \A i \in 1..k : p[i] \in Trees
  BY LenProperties, ElementOfSeq
<1>2. k \in Int /\ 1 \in Int /\ 1 <= k /\ k - 1 + 1 = k
  BY <1>1
<1>3. /\ SubSeq(p, 1, k) \in Seq(Trees)
      /\ Len(SubSeq(p, 1, k)) = IF 1 <= k THEN k - 1 + 1 ELSE 0
      /\ \A i \in 1..k - 1 + 1 : SubSeq(p, 1, k)[i] = p[1 + i - 1]
  BY <1>1, <1>2, SubSeqProperties
<1>4. ASSUME NEW i \in 1..k PROVE SubSeq(p, 1, k)[i] = p[i]
  <2>1. 1 + i - 1 = i
    BY <1>2
  <2> QED
    BY <1>2, <1>3, <2>1
<1> QED
  BY <1>2, <1>3, <1>4

\* The first nodes of a path with a node before it.
LEMMA PushCut ==
  ASSUME NEW m \in Trees, NEW p \in Seq(Trees), NEW k \in 1..Len(p)
  PROVE  SubSeq(Push(m, p), 1, k + 1) = Push(m, SubSeq(p, 1, k))
<1> DEFINE q == Push(m, p)
           a == SubSeq(q, 1, k + 1)
           b == SubSeq(p, 1, k)
           c == Push(m, b)
<1>1. /\ q \in Seq(Trees) /\ Len(p) \in Nat /\ Len(q) = Len(p) + 1 /\ q[1] = m
      /\ \A i \in 1..Len(p) : q[i + 1] = p[i]
  BY PushIs
<1>2. b \in Seq(Trees) /\ Len(b) = k /\ \A i \in 1..k : b[i] = p[i]
  BY CutIs
<1> HIDE DEF q, b
<1>3. /\ c \in Seq(Trees) /\ Len(c) = k + 1 /\ c[1] = m
      /\ \A i \in 1..k : c[i + 1] = b[i]
  BY <1>2, PushIs
<1>4. k + 1 \in 1..Len(q)
  BY <1>1
<1>5. a \in Seq(Trees) /\ Len(a) = k + 1 /\ \A i \in 1..k + 1 : a[i] = q[i]
  BY <1>1, <1>4, CutIs
<1> HIDE DEF a, c
<1>6. ASSUME NEW i \in 1..Len(a) PROVE a[i] = c[i]
  <2>1. i \in 1..k + 1 /\ a[i] = q[i]
    BY <1>5
  <2>2. CASE i = 1
    BY <1>1, <1>3, <2>1, <2>2
  <2>3. CASE i # 1
    <3>1. i - 1 \in 1..k /\ i - 1 \in 1..Len(p) /\ (i - 1) + 1 = i
      BY <1>1, <2>1, <2>3
    <3>2. q[i] = p[i - 1] /\ c[i] = b[i - 1] /\ b[i - 1] = p[i - 1]
      BY <1>1, <1>2, <1>3, <3>1
    <3> QED
      BY <2>1, <3>2
  <2> QED
    BY <2>2, <2>3
<1>7. a = c
  BY <1>3, <1>5, <1>6, SeqEqual
<1> QED
  BY <1>7 DEF a, b, c, q

\* Max of a set of numbers that has a largest.
LEMMA MaxIs ==
  ASSUME NEW S, S \subseteq Int, NEW k \in S, \A j \in S : j <= k
  PROVE  Max(S) = k
<1>1. \A j \in S : k >= j
  OBVIOUS
<1>2. Max(S) \in S /\ \A j \in S : Max(S) >= j
  BY <1>1 DEF Max
<1> DEFINE m == Max(S)
<1> HIDE DEF m
<1>3. m \in S /\ m >= k
  BY <1>2 DEF m
<1>4. m \in Int /\ k \in Int /\ m <= k
  BY <1>3
<1>5. m = k
  BY <1>3, <1>4
<1> QED
  BY <1>5 DEF m

\* A set of numbers up to n that is not empty has a largest.
LEMMA MaxExists ==
  ASSUME NEW n \in Nat, NEW S, S \subseteq 1..n, S # {}
  PROVE  \E k \in S : \A j \in S : j <= k
<1> DEFINE T == {i \in Nat : n - i \notin S}
<1>1. PICK s \in S : s \in 1..n
  OBVIOUS
<1>2. n - s \in Nat /\ n - (n - s) = s
  BY <1>1
<1>3. n - s \notin T
  BY <1>1, <1>2
<1> HIDE DEF T
<1>4. PICK i \in Nat : i \notin T /\ \A j \in Nat : j < i => j \in T
  BY <1>2, <1>3, LeastOutside
<1>5. n - i \in S
  BY <1>4 DEF T
<1>6. ASSUME NEW j \in S, ~(j <= n - i) PROVE FALSE
  <2>1. n - j \in Nat /\ n - j < i /\ n - (n - j) = j
    BY <1>6
  <2>2. n - j \in T
    BY <1>4, <2>1
  <2> QED
    BY <1>6, <2>1, <2>2 DEF T
<1> QED
  BY <1>5, <1>6

\* The turns of a path with a node before it: its own, one further, and maybe the first.
LEMMA PushTurns ==
  ASSUME NEW m \in Trees, NEW p \in Seq(Trees), Len(p) >= 1
  PROVE  /\ \A j \in Turns(p) : j \in 1..Len(p) /\ j + 1 \in Turns(Push(m, p))
         /\ \A j \in Turns(Push(m, p)) : \/ j = 1 /\ m.right # p[1]
                                         \/ j - 1 \in Turns(p)
         /\ m.right # p[1] => 1 \in Turns(Push(m, p))
         /\ Turns(p) \subseteq Int /\ Turns(Push(m, p)) \subseteq Int
<1> DEFINE q == Push(m, p)
<1>1. /\ Len(p) \in Nat /\ Len(q) = Len(p) + 1 /\ q[1] = m
      /\ \A i \in 1..Len(p) : q[i + 1] = p[i]
  BY PushIs
<1> HIDE DEF q
<1>2. ASSUME NEW j \in Turns(p) PROVE j \in 1..Len(p) /\ j + 1 \in Turns(q)
  <2>1. j \in 1..Len(p) - 1 /\ p[j].right # p[j + 1]
    BY <1>2 DEF Turns
  <2>2. j \in 1..Len(p) /\ j + 1 \in 1..Len(p) /\ j + 1 \in 1..Len(q) - 1
    BY <1>1, <2>1
  <2>3. q[j + 1] = p[j] /\ q[(j + 1) + 1] = p[j + 1]
    BY <1>1, <2>2
  <2> QED
    BY <2>1, <2>2, <2>3 DEF Turns
<1>3. ASSUME NEW j \in Turns(q) PROVE (j = 1 /\ m.right # p[1]) \/ j - 1 \in Turns(p)
  <2>1. j \in 1..Len(q) - 1 /\ q[j].right # q[j + 1]
    BY <1>3 DEF Turns
  <2>2. CASE j = 1
    <3>1. 1 \in 1..Len(p) /\ q[1 + 1] = p[1]
      BY <1>1
    <3> QED
      BY <1>1, <2>1, <2>2, <3>1
  <2>3. CASE j # 1
    <3>1. j \in Int /\ j \in 1..Len(p) /\ j - 1 \in 1..Len(p) /\ j - 1 \in 1..Len(p) - 1 /\ (j - 1) + 1 = j
      BY <1>1, <2>1, <2>3
    <3>2. q[(j - 1) + 1] = p[j - 1] /\ q[j + 1] = p[j]
      BY <1>1, <3>1
    <3>3. p[j - 1].right # p[(j - 1) + 1]
      BY <2>1, <3>1, <3>2
    <3> QED
      BY <3>1, <3>3 DEF Turns
  <2> QED
    BY <2>2, <2>3
<1>4. ASSUME m.right # p[1] PROVE 1 \in Turns(q)
  <2>1. 1 \in 1..Len(p) /\ 1 \in 1..Len(q) - 1 /\ q[1 + 1] = p[1]
    BY <1>1
  <2> QED
    BY <1>1, <1>4, <2>1 DEF Turns
<1>5. Turns(p) \subseteq Int /\ Turns(q) \subseteq Int
  BY DEF Turns
<1> QED
  BY <1>2, <1>3, <1>4, <1>5 DEF q

\* Every Down is a path.
LEMMA DownPath ==
  ASSUME NEW n \in Trees
  PROVE  /\ Down[n] \in Seq(Trees)
         /\ n # Nil => n.left \in Trees /\ n.right \in Trees
<1> DEFINE N == Cardinality(Values)
           Good == {h \in Nat : h <= N => \A m \in TreesOf[h] : Down[m] \in Seq(Trees)}
<1>1. N \in Nat
  BY SetAssumption, FS_CardinalityType
<1> HIDE DEF N
<1>2. \A h \in Nat : h <= N => TreesOf[h] \subseteq Trees
  BY <1>1, TreesGrow DEF Trees, N
<1>3. 0 \in Good
  <2>1. Down[Nil] = <<>>
    BY NilTree, TreeIs, DownIs DEF DownBody
  <2>2. Down[Nil] \in Seq(Trees)
    BY <2>1, EmptySeq
  <2>3. \A m \in TreesOf[0] : Down[m] \in Seq(Trees)
    BY <2>2, TreesOfIs
  <2> QED
    BY <2>3
<1>4. ASSUME NEW h \in Nat, h \in Good PROVE h + 1 \in Good
  <2> SUFFICES ASSUME h + 1 <= N, NEW m \in TreesOf[h + 1] PROVE Down[m] \in Seq(Trees)
    OBVIOUS
  <2>1. m = Nil \/ m.left \in TreesOf[h]
    BY TreesOfIs, DeeperHas
  <2>2. m \in Trees /\ h <= N
    BY <1>1, <1>2
  <2>3. Down[m] = IF m = Nil THEN <<>> ELSE <<m>> \o Down[m.left]
    BY <2>2, DownIs DEF DownBody
  <2>4. CASE m = Nil
    BY <2>3, <2>4
  <2>5. CASE m # Nil
    <3>1. Down[m.left] \in Seq(Trees)
      BY <1>4, <2>1, <2>2, <2>5
    <3>2. Down[m] = Push(m, Down[m.left])
      BY <2>3, <2>5 DEF Push
    <3> QED
      BY <2>2, <3>1, <3>2, PushIs
  <2> QED
    BY <2>4, <2>5
<1> HIDE DEF Good
<1>5. N \in Good
  BY <1>1, <1>3, <1>4, Numbers
<1>6. Down[n] \in Seq(Trees)
  BY <1>1, <1>5 DEF Good, Trees, N
<1>7. ASSUME n # Nil PROVE n.left \in Trees /\ n.right \in Trees
  <2>1. N # 0
    BY <1>7, TreesOfIs DEF Trees, N
  <2>2. N - 1 \in Nat /\ (N - 1) + 1 = N /\ N - 1 <= N
    BY <1>1, <2>1
  <2>3. n \in Deeper(TreesOf[N - 1])
    BY <2>2, TreesOfIs DEF Trees, N
  <2> QED
    BY <1>2, <1>7, <2>2, <2>3, DeeperHas
<1> QED
  BY <1>6, <1>7

-----------------------------------------------------------------------------
\* Steps: a path has more after it if there is a right below its end, or a turn.
Turned(p, k) == k \in Turns(p) /\ \A j \in Turns(p) : j <= k
More(p) == Last(p).right # Nil \/ Turns(p) # {}

\* Climbing keeps what is before the last turn.
LEMMA ClimbIs ==
  ASSUME NEW p \in Seq(Trees), NEW k, Turned(p, k)
  PROVE  Climb(p) = SubSeq(p, 1, k)
<1>0. Turns(p) \subseteq Int
  BY DEF Turns
<1>1. Max(Turns(p)) = k
  BY <1>0, MaxIs DEF Turned
<1>2. Climb(p) = SubSeq(p, 1, Max(Turns(p)))
  BY DEF Climb, Turns
<1> QED
  BY <1>1, <1>2

\* A step from the end of a path below m is the step from the end of that path.
LEMMA StepPush ==
  ASSUME NEW m \in Trees, NEW p \in Seq(Trees), Len(p) >= 1, Last(p) # Nil, More(p)
  PROVE  Step(Push(m, p)) = Push(m, Step(p)) /\ More(Push(m, p)) /\ Step(p) \in Seq(Trees)
<1> DEFINE q == Push(m, p)
<1>1. q \in Seq(Trees) /\ Len(p) \in Nat /\ Last(q) = Last(p)
  BY PushIs
<1>2. Last(p) \in Trees
  <2>1. Len(p) \in 1..Len(p)
    BY <1>1
  <2> QED
    BY <2>1, ElementOfSeq DEF Last
<1>3. CASE Last(p).right # Nil
  <2> DEFINE o == <<m>>
             e == Down[Last(p).right]
  <2>1. o \in Seq(Trees) /\ e \in Seq(Trees)
    BY <1>2, DownPath
  <2>2. Step(p) = p \o e
    BY <1>3 DEF Step
  <2>3. Step(q) = q \o e
    BY <1>1, <1>3 DEF Step
  <2>4. q = o \o p
    BY DEF Push
  <2> HIDE DEF o, e
  <2>5. (o \o p) \o e = o \o (p \o e) /\ p \o e \in Seq(Trees)
    BY <2>1, ConcatAssociative, ConcatProperties
  <2>6. Push(m, Step(p)) = o \o Step(p)
    BY DEF Push, o
  <2>7. More(q)
    BY <1>1, <1>3 DEF More
  <2> QED
    BY <2>2, <2>3, <2>4, <2>5, <2>6, <2>7
<1>4. CASE Last(p).right = Nil
  <2>1. Turns(p) # {}
    BY <1>4 DEF More
  <2>2. Len(p) - 1 \in Nat /\ Turns(p) \subseteq 1..Len(p) - 1
    BY <1>1 DEF Turns
  <2>3. PICK k : Turned(p, k)
    BY <2>1, <2>2, MaxExists DEF Turned
  <2>4. k \in 1..Len(p) /\ k + 1 \in Turns(q)
    BY <2>3, PushTurns DEF Turned
  <2>5. ASSUME NEW j \in Turns(q) PROVE j <= k + 1
    <3>1. j \in Int /\ (j = 1 \/ j - 1 \in Turns(p))
      BY PushTurns
    <3>2. j = 1 \/ j - 1 <= k
      BY <2>3, <3>1 DEF Turned
    <3> QED
      BY <2>4, <3>1, <3>2
  <2>6. Turned(q, k + 1)
    BY <2>4, <2>5 DEF Turned
  <2>7. Step(p) = SubSeq(p, 1, k)
    BY <1>4, <2>3, ClimbIs DEF Step
  <2>8. Step(q) = SubSeq(q, 1, k + 1)
    BY <1>1, <1>4, <2>6, ClimbIs DEF Step
  <2>9. SubSeq(p, 1, k) \in Seq(Trees) /\ SubSeq(q, 1, k + 1) = Push(m, SubSeq(p, 1, k))
    BY <2>4, CutIs, PushCut
  <2>10. More(q)
    BY <2>4 DEF More
  <2> QED
    BY <2>7, <2>8, <2>9, <2>10
<1> QED
  BY <1>3, <1>4

\* At the end of the left the step is to m.
LEMMA StepTop ==
  ASSUME NEW m \in Trees, NEW p \in Seq(Trees), Len(p) >= 1, ~More(p), m.right # p[1]
  PROVE  Step(Push(m, p)) = <<m>> /\ More(Push(m, p))
<1> DEFINE q == Push(m, p)
<1>1. q \in Seq(Trees) /\ Len(p) \in Nat /\ Len(q) = Len(p) + 1 /\ q[1] = m /\ Last(q) = Last(p)
  BY PushIs
<1>2. Last(q).right = Nil /\ Turns(p) = {}
  BY <1>1 DEF More
<1>3. 1 \in Turns(q) /\ \A j \in Turns(q) : j = 1
  BY <1>2, PushTurns
<1> HIDE DEF q
<1>4. Turned(q, 1)
  BY <1>3 DEF Turned
<1>5. Step(q) = SubSeq(q, 1, 1)
  BY <1>1, <1>2, <1>4, ClimbIs DEF Step
<1>6. 1 \in 1..Len(q) /\ 1 \in 1..1
  BY <1>1
<1>7. /\ SubSeq(q, 1, 1) \in Seq(Trees) /\ Len(SubSeq(q, 1, 1)) = 1
      /\ SubSeq(q, 1, 1)[1] = m
  BY <1>1, <1>6, CutIs
<1>8. SubSeq(q, 1, 1) = <<m>>
  <2> DEFINE a == SubSeq(q, 1, 1)
             o == <<m>>
  <2>1. o \in Seq(Trees) /\ Len(o) = 1 /\ o[1] = m
    BY One
  <2>2. a \in Seq(Trees) /\ Len(a) = 1 /\ a[1] = m
    BY <1>7
  <2> HIDE DEF a, o
  <2>3. \A i \in 1..Len(a) : a[i] = o[i]
    BY <2>1, <2>2
  <2>4. a = o
    BY <2>1, <2>2, <2>3, SeqEqual
  <2> QED
    BY <2>4 DEF a, o
<1>9. More(q)
  BY <1>3 DEF More
<1> QED
  BY <1>5, <1>8, <1>9 DEF q

\* At the end of the right there is none.
LEMMA StepLast ==
  ASSUME NEW m \in Trees, NEW p \in Seq(Trees), Len(p) >= 1, ~More(p), m.right = p[1]
  PROVE  ~More(Push(m, p))
<1> DEFINE q == Push(m, p)
<1>1. Last(q) = Last(p) /\ Last(p).right = Nil /\ Turns(p) = {}
  BY PushIs DEF More
<1>2. \A j \in Turns(q) : FALSE
  BY <1>1, PushTurns
<1> HIDE DEF q
<1>3. ~More(q)
  BY <1>1, <1>2 DEF More
<1> QED
  BY <1>3 DEF q

\* From a path that is m alone the step is down its right, if there is one.
LEMMA StepOne ==
  ASSUME NEW m \in Trees, m # Nil
  PROVE  /\ m.right # Nil => Step(<<m>>) = Push(m, Down[m.right]) /\ More(<<m>>)
         /\ m.right = Nil => ~More(<<m>>)
<1> DEFINE o == <<m>>
<1>1. Last(o) = m /\ Turns(o) = {}
  BY One
<1>2. Push(m, Down[m.right]) = o \o Down[m.right]
  BY DEF Push
<1> HIDE DEF o
<1>3. /\ m.right # Nil => Step(o) = o \o Down[m.right] /\ More(o)
      /\ m.right = Nil => ~More(o)
  BY <1>1 DEF Step, More
<1> QED
  BY <1>2, <1>3 DEF o

-----------------------------------------------------------------------------
\* The order of the values.
Least(w, S) == w \in S /\ \A z \in S : w <= z
Greatest(w, S) == w \in S /\ \A z \in S : z <= w
Next(w, u, S) == w \in S /\ u \in S /\ w < u /\ \A z \in S : z <= w \/ u <= z

\* A value that is not the greatest has a next one.
LEMMA HasNext ==
  ASSUME NEW S, S \subseteq Int, NEW w \in S, ~Greatest(w, S)
  PROVE  \E u : Next(w, u, S)
<1> DEFINE T == {i \in Nat : ~(w < w + i /\ w + i \in S)}
<1>1. PICK z \in S : ~(z <= w)
  BY DEF Greatest
<1>2. z - w \in Nat /\ w + (z - w) = z /\ w < z
  BY <1>1
<1>3. z - w \notin T
  BY <1>1, <1>2
<1> HIDE DEF T
<1>4. PICK i \in Nat : i \notin T /\ \A j \in Nat : j < i => j \in T
  BY <1>2, <1>3, LeastOutside
<1>5. w < w + i /\ w + i \in S
  BY <1>4 DEF T
<1>6. ASSUME NEW y \in S PROVE y <= w \/ w + i <= y
  <2> SUFFICES ASSUME w < y, y < w + i PROVE FALSE
    OBVIOUS
  <2>1. y - w \in Nat /\ y - w < i /\ w + (y - w) = y
    OBVIOUS
  <2>2. y - w \in T
    BY <1>4, <2>1
  <2> QED
    BY <2>1, <2>2 DEF T
<1>7. Next(w, w + i, S)
  BY <1>5, <1>6 DEF Next
<1> QED
  BY <1>7

\* The order of the values of a node: those at its left, its own, those at its right.
Amid(S, v, A, B) ==
    /\ S = A \union {v} \union B /\ S \subseteq Int
    /\ \A w \in A : w < v
    /\ \A w \in B : v < w

\* The least of them is the least of the left, or the node's own if there is none.
LEMMA AmidLeast ==
  ASSUME NEW S, NEW v, NEW A, NEW B, Amid(S, v, A, B), NEW w
  PROVE  /\ Least(w, S) => (A = {} /\ w = v) \/ Least(w, A)
         /\ A = {} => Least(v, S)
         /\ Least(w, A) => Least(w, S)
<1>1. /\ S = A \union {v} \union B /\ S \subseteq Int /\ v \in Int /\ A \subseteq Int /\ B \subseteq Int
      /\ \A z \in A : z < v
      /\ \A z \in B : v < z
  BY DEF Amid
<1>2. Least(w, S) => (A = {} /\ w = v) \/ Least(w, A)
  BY <1>1 DEF Least
<1>3. A = {} => Least(v, S)
  BY <1>1 DEF Least
<1>4. Least(w, A) => Least(w, S)
  BY <1>1 DEF Least
<1> QED
  BY <1>2, <1>3, <1>4

\* The greatest is the greatest of the right, or the node's own if there is none.
LEMMA AmidGreatest ==
  ASSUME NEW S, NEW v, NEW A, NEW B, Amid(S, v, A, B), NEW w, Greatest(w, S)
  PROVE  (B = {} /\ w = v) \/ Greatest(w, B)
<1>1. /\ S = A \union {v} \union B /\ S \subseteq Int /\ v \in Int /\ A \subseteq Int /\ B \subseteq Int
      /\ \A z \in A : z < v
      /\ \A z \in B : v < z
  BY DEF Amid
<1> QED
  BY <1>1 DEF Greatest

\* The next of a value is in its part, or is the node's own, or is the least of the right.
LEMMA AmidNext ==
  ASSUME NEW S, NEW v, NEW A, NEW B, Amid(S, v, A, B), NEW w, NEW u, Next(w, u, S)
  PROVE  \/ Next(w, u, A)
         \/ Greatest(w, A) /\ u = v
         \/ w = v /\ Least(u, B)
         \/ Next(w, u, B)
<1>1. /\ S = A \union {v} \union B /\ S \subseteq Int /\ v \in Int /\ A \subseteq Int /\ B \subseteq Int
      /\ \A z \in A : z < v
      /\ \A z \in B : v < z
  BY DEF Amid
<1>2. w \in S /\ u \in S /\ w < u /\ v \in S /\ \A z \in S : z <= w \/ u <= z
  BY <1>1 DEF Next
<1>3. CASE w \in A /\ u \in A
  BY <1>1, <1>2, <1>3 DEF Next
<1>4. CASE w \in A /\ u \notin A
  <2>1. v <= w \/ u <= v
    BY <1>2
  <2>2. u = v
    BY <1>1, <1>2, <1>4, <2>1
  <2>3. \A z \in A : z <= w
    BY <1>1, <1>2, <2>2
  <2> QED
    BY <1>4, <2>2, <2>3 DEF Greatest
<1>5. CASE w = v
  <2>1. u \in B
    BY <1>1, <1>2, <1>5
  <2>2. \A z \in B : u <= z
    BY <1>1, <1>2, <1>5
  <2> QED
    BY <1>5, <2>1, <2>2 DEF Least
<1>6. CASE w \in B
  <2>1. u \in B
    BY <1>1, <1>2, <1>6
  <2> QED
    BY <1>1, <1>2, <1>6, <2>1 DEF Next
<1> QED
  BY <1>1, <1>2, <1>3, <1>4, <1>5, <1>6

-----------------------------------------------------------------------------
\* The paths of a tree: P[w] goes from its top n to the node of w.  The first is what
\* Down gives, a step goes on to the next, and the last has none after it.
Path(p, n, w) == p \in Seq(Trees) /\ Len(p) >= 1 /\ p[1] = n /\ Last(p) # Nil /\ Last(p).value = w
Starts(P, n, S) == \A w : Least(w, S) => Down[n] = P[w]
Steps(P, S) == \A w, u : Next(w, u, S) => More(P[w]) /\ Step(P[w]) = P[u]
Ends(P, S) == \A w : Greatest(w, S) => ~More(P[w])
Paths(P, n, S) ==
    /\ \A w \in S : Path(P[w], n, w)
    /\ S # {} => \E w : Least(w, S)
    /\ Starts(P, n, S) /\ Steps(P, S) /\ Ends(P, S)

\* A tree is Nil if and only if it has no values.
LEMMA TreeEmpty ==
  ASSUME NEW n, NEW S, NEW h, Tree(n, S, h)
  PROVE  n = Nil <=> S = {}
<1>1. ASSUME n # Nil PROVE S # {}
  <2>1. PICK v, c, l, A, r, B, k : Above(n, S, h, v, c, l, A, r, B, k)
    BY <1>1, TreeCases DEF Loose
  <2> QED
    BY <2>1, AboveIs
<1>2. n = Nil => S = {}
  BY TreeHas, NilTree
<1> QED
  BY <1>1, <1>2

\* The values of a node are in that order, and its children are not the same tree.
LEMMA AboveAmid ==
  ASSUME NEW n, NEW S, NEW h, NEW v, NEW c, NEW l, NEW A, NEW r, NEW B, NEW k,
         Above(n, S, h, v, c, l, A, r, B, k)
  PROVE  Amid(S, v, A, B) /\ (A # {} => l # r)
<1>1. Beside(FALSE, v, A) /\ Beside(TRUE, v, B)
  BY DEF Above
<1>2. \A w \in A : w < v
  BY <1>1 DEF Beside, After
<1>3. \A w \in B : v < w
  BY <1>1 DEF Beside, After
<1>4. /\ v \in Values /\ A \subseteq Values /\ B \subseteq Values /\ S = A \union {v} \union B
      /\ Tree(l, A, k) /\ Tree(r, B, k)
  BY AboveIs
<1>5. S \subseteq Int
  BY <1>4, IntValue
<1>6. l = r => A = B
  BY <1>4, TreeHas
<1>7. ASSUME A # {}, l = r PROVE FALSE
  <2>1. PICK w : w \in A
    BY <1>7
  <2>2. w \in B /\ w \in Int /\ v \in Int
    BY <1>4, <1>6, <1>7, <2>1, IntValue
  <2> QED
    BY <1>2, <1>3, <2>1, <2>2
<1> QED
  BY <1>2, <1>3, <1>4, <1>5, <1>7 DEF Amid

\* A node's paths, from those of the trees below it.
PathsOver(m, v, A, P, B, Q) ==
    [w \in A \union {v} \union B |->
       IF w = v THEN <<m>> ELSE IF w \in A THEN Push(m, P[w]) ELSE Push(m, Q[w])]

\* The path to a value below m, from m on.
LEMMA PathPush ==
  ASSUME NEW m \in Trees, NEW p, NEW n, NEW w, Path(p, n, w)
  PROVE  Path(Push(m, p), m, w)
<1>1. p \in Seq(Trees) /\ Len(p) >= 1 /\ Last(p) # Nil /\ Last(p).value = w
  BY DEF Path
<1>2. /\ Push(m, p) \in Seq(Trees) /\ Len(p) \in Nat /\ Len(Push(m, p)) = Len(p) + 1
      /\ Push(m, p)[1] = m /\ Last(Push(m, p)) = Last(p)
  BY <1>1, PushIs
<1>3. Len(Push(m, p)) >= 1
  BY <1>2
<1> QED
  BY <1>1, <1>2, <1>3 DEF Path

\* They are paths of the node: each case of its order is a case of operator++.
LEMMA PathsAbove ==
  ASSUME NEW m, NEW T, NEW i, NEW v, NEW c, NEW l, NEW A, NEW r, NEW B, NEW k,
         Above(m, T, i, v, c, l, A, r, B, k), m \in Trees,
         NEW P, Paths(P, l, A), NEW Q, Paths(Q, r, B)
  PROVE  Paths(PathsOver(m, v, A, P, B, Q), m, T)
<1> DEFINE R == PathsOver(m, v, A, P, B, Q)
<1>1. /\ T = A \union {v} \union B /\ v \notin A /\ v \notin B
      /\ m.value = v /\ m.left = l /\ m.right = r /\ m # Nil
      /\ Tree(l, A, k) /\ Tree(r, B, k) /\ l \in Trees /\ r \in Trees
  BY AboveIs
<1>2. Amid(T, v, A, B) /\ (A # {} => l # r)
  BY AboveAmid
<1>3. (l = Nil <=> A = {}) /\ (r = Nil <=> B = {})
  BY <1>1, TreeEmpty
<1>4. \A w \in B : w \notin A /\ w # v
  BY <1>2 DEF Amid
<1>5. \A w \in A : w # v
  BY <1>1
<1>6. /\ R[v] = <<m>>
      /\ \A w \in A : R[w] = Push(m, P[w])
      /\ \A w \in B : R[w] = Push(m, Q[w])
  BY <1>4, <1>5 DEF PathsOver
<1> HIDE DEF R
<1>7. /\ \A w \in A : Path(P[w], l, w)
      /\ A # {} => \E w : Least(w, A)
      /\ Starts(P, l, A) /\ Steps(P, A) /\ Ends(P, A)
  BY DEF Paths
<1>8. /\ \A w \in B : Path(Q[w], r, w)
      /\ Starts(Q, r, B) /\ Steps(Q, B) /\ Ends(Q, B)
  BY DEF Paths
<1>9. ASSUME NEW w \in T PROVE Path(R[w], m, w)
  <2>1. CASE w = v
    <3>1. Path(<<m>>, m, v)
      <4> DEFINE o == <<m>>
      <4>1. o \in Seq(Trees) /\ Len(o) = 1 /\ o[1] = m /\ Last(o) = m
        BY One
      <4> HIDE DEF o
      <4>2. Path(o, m, v)
        BY <1>1, <4>1 DEF Path
      <4> QED
        BY <4>2 DEF o
    <3> QED
      BY <1>6, <2>1, <3>1
  <2>2. CASE w \in A
    BY <1>6, <1>7, <2>2, PathPush
  <2>3. CASE w \in B
    BY <1>6, <1>8, <2>3, PathPush
  <2> QED
    BY <1>1, <2>1, <2>2, <2>3
<1>10. \E w : Least(w, T)
  BY <1>2, <1>7, AmidLeast
<1>11. ASSUME NEW w, Least(w, T) PROVE Down[m] = R[w]
  <2>1. Down[m] = <<m>> \o Down[l]
    BY <1>1, DownIs DEF DownBody
  <2>2. CASE A = {} /\ w = v
    <3>1. Down[l] = <<>>
      BY <1>1, <1>3, <2>2, DownIs DEF DownBody
    <3>2. <<m>> \o <<>> = <<m>>
      BY One, ConcatEmptySeq
    <3>3. Down[m] = <<m>>
      BY <2>1, <3>1, <3>2
    <3> QED
      BY <1>6, <2>2, <3>3
  <2>3. CASE Least(w, A)
    <3>1. Down[l] = P[w] /\ w \in A
      BY <1>7, <2>3 DEF Starts, Least
    <3>2. Down[m] = Push(m, P[w])
      BY <2>1, <3>1 DEF Push
    <3> QED
      BY <1>6, <3>1, <3>2
  <2> QED
    BY <1>2, <1>11, <2>2, <2>3, AmidLeast
<1>12. ASSUME NEW w, NEW u, Next(w, u, T) PROVE More(R[w]) /\ Step(R[w]) = R[u]
  <2>1. CASE Next(w, u, A)
    <3>1. w \in A /\ u \in A /\ More(P[w]) /\ Step(P[w]) = P[u]
      BY <1>7, <2>1 DEF Steps, Next
    <3>2. P[w] \in Seq(Trees) /\ Len(P[w]) >= 1 /\ Last(P[w]) # Nil
      BY <1>7, <3>1 DEF Path
    <3>3. Step(Push(m, P[w])) = Push(m, P[u]) /\ More(Push(m, P[w]))
      BY <3>1, <3>2, StepPush
    <3> QED
      BY <1>6, <3>1, <3>3
  <2>2. CASE Greatest(w, A) /\ u = v
    <3>1. w \in A /\ ~More(P[w])
      BY <1>7, <2>2 DEF Ends, Greatest
    <3>2. P[w] \in Seq(Trees) /\ Len(P[w]) >= 1 /\ P[w][1] = l
      BY <1>7, <3>1 DEF Path
    <3>3. m.right # P[w][1]
      BY <1>1, <1>2, <3>1, <3>2
    <3>4. Step(Push(m, P[w])) = <<m>> /\ More(Push(m, P[w]))
      BY <3>1, <3>2, <3>3, StepTop
    <3> QED
      BY <1>6, <2>2, <3>1, <3>4
  <2>3. CASE w = v /\ Least(u, B)
    <3>1. u \in B /\ Down[r] = Q[u]
      BY <1>8, <2>3 DEF Starts, Least
    <3>2. m.right # Nil /\ m.right = r
      BY <1>1, <1>3, <3>1
    <3>3. Step(<<m>>) = Push(m, Down[m.right]) /\ More(<<m>>)
      BY <1>1, <3>2, StepOne
    <3>4. Step(<<m>>) = Push(m, Q[u])
      BY <3>1, <3>2, <3>3
    <3> QED
      BY <1>6, <2>3, <3>1, <3>3, <3>4
  <2>4. CASE Next(w, u, B)
    <3>1. w \in B /\ u \in B /\ More(Q[w]) /\ Step(Q[w]) = Q[u]
      BY <1>8, <2>4 DEF Steps, Next
    <3>2. Q[w] \in Seq(Trees) /\ Len(Q[w]) >= 1 /\ Last(Q[w]) # Nil
      BY <1>8, <3>1 DEF Path
    <3>3. Step(Push(m, Q[w])) = Push(m, Q[u]) /\ More(Push(m, Q[w]))
      BY <3>1, <3>2, StepPush
    <3> QED
      BY <1>6, <3>1, <3>3
  <2> QED
    BY <1>2, <1>12, <2>1, <2>2, <2>3, <2>4, AmidNext
<1>13. ASSUME NEW w, Greatest(w, T) PROVE ~More(R[w])
  <2>1. CASE B = {} /\ w = v
    <3>1. ~More(<<m>>)
      BY <1>1, <1>3, <2>1, StepOne
    <3> QED
      BY <1>6, <2>1, <3>1
  <2>2. CASE Greatest(w, B)
    <3>1. w \in B /\ ~More(Q[w])
      BY <1>8, <2>2 DEF Ends, Greatest
    <3>2. Q[w] \in Seq(Trees) /\ Len(Q[w]) >= 1 /\ m.right = Q[w][1]
      BY <1>1, <1>8, <3>1 DEF Path
    <3>3. ~More(Push(m, Q[w]))
      BY <3>1, <3>2, StepLast
    <3> QED
      BY <1>6, <3>1, <3>3
  <2> QED
    BY <1>2, <1>13, <2>1, <2>2, AmidGreatest
<1>14. Starts(R, m, T) /\ Steps(R, T) /\ Ends(R, T)
  BY <1>11, <1>12, <1>13 DEF Starts, Steps, Ends
<1>15. Paths(R, m, T)
  BY <1>9, <1>10, <1>14 DEF Paths
<1> QED
  BY <1>15 DEF R

\* Every tree has its paths, by induction.
LEMMA PathsExist ==
  ASSUME NEW n, NEW S, NEW h, Tree(n, S, h)
  PROVE  \E P : Paths(P, n, S)
<1> DEFINE P(m, T, i) == \E Q : Paths(Q, m, T)
           G == {f \in TreeFacts : P(f[1], f[2], f[3])}
<1>1. P(Nil, {}, 0) /\ Tree(Nil, {}, 0)
  <2>1. Paths(<<>>, Nil, {})
    BY DEF Paths, Starts, Steps, Ends, Least, Next, Greatest
  <2> QED
    BY <2>1, NilTree
<1>2. ASSUME NEW m, NEW T, NEW i, NEW v, NEW c, NEW l, NEW A, NEW r, NEW B, NEW k,
             Above(m, T, i, v, c, l, A, r, B, k), Tree(m, T, i), Calm(m), P(l, A, k), P(r, B, k)
      PROVE  P(m, T, i)
  <2>1. PICK Q : Paths(Q, l, A)
    BY <1>2
  <2>2. PICK R : Paths(R, r, B)
    BY <1>2
  <2>3. m \in Trees
    BY <1>2, TreeIs
  <2>4. Paths(PathsOver(m, v, A, Q, B, R), m, T)
    BY <1>2, <2>1, <2>2, <2>3, PathsAbove
  <2> QED
    BY <2>4
<1>3. ASSUME NEW m, NEW T, NEW i PROVE <<m, T, i>> \in G <=> Tree(m, T, i) /\ P(m, T, i)
  BY DEF Tree
<1>4. G \subseteq TreeFacts
  OBVIOUS
<1> HIDE DEF P, G
<1>5. <<Nil, {}, 0>> \in G
  BY <1>1, <1>3
<1>6. ASSUME NEW m, NEW T, NEW i, NEW v, NEW c, NEW l, NEW A, NEW r, NEW B, NEW k,
             Above(m, T, i, v, c, l, A, r, B, k), Tree(m, T, i), Calm(m), <<l, A, k>> \in G, <<r, B, k>> \in G
      PROVE  <<m, T, i>> \in G
  BY <1>2, <1>3, <1>6
<1>7. <<n, S, h>> \in G
  BY <1>4, <1>5, <1>6, TreeBy
<1>8. P(n, S, h)
  BY <1>3, <1>7
<1> QED
  BY <1>8 DEF P

-----------------------------------------------------------------------------
\* Walks: the stack after each step of an iteration, from the first.
Stacks(s, t, n) == s = [i \in 1..n |-> IF i = 1 THEN Down[t] ELSE Step(s[i - 1])]

\* There are such stacks for every n.
LEMMA StacksExist ==
  ASSUME NEW t, NEW n \in Nat
  PROVE  \E s : Stacks(s, t, n)
<1> DEFINE Good == {k \in Nat : \E s : Stacks(s, t, k)}
<1>0. ASSUME NEW s, NEW k
      PROVE  Stacks(s, t, k) <=> s = [i \in 1..k |-> IF i = 1 THEN Down[t] ELSE Step(s[i - 1])]
  BY DEF Stacks
<1>1. 0 \in Good
  <2> DEFINE g == [i \in 1..0 |-> Nil]
  <2>1. g = [i \in 1..0 |-> IF i = 1 THEN Down[t] ELSE Step(g[i - 1])]
    OBVIOUS
  <2> HIDE DEF g
  <2> QED
    BY <1>0, <2>1
<1>2. ASSUME NEW k \in Nat, k \in Good PROVE k + 1 \in Good
  <2>1. PICK s : Stacks(s, t, k)
    BY <1>2
  <2> DEFINE g == [i \in 1..k + 1 |-> IF i = k + 1 THEN IF i = 1 THEN Down[t] ELSE Step(s[k]) ELSE s[i]]
  <2>2. s = [i \in 1..k |-> IF i = 1 THEN Down[t] ELSE Step(s[i - 1])]
    BY <1>0, <2>1
  <2>3. ASSUME NEW i \in 1..k + 1 PROVE g[i] = IF i = 1 THEN Down[t] ELSE Step(g[i - 1])
    <3>1. CASE i = k + 1
      <4>1. i - 1 = k /\ (i # 1 => g[k] = s[k])
        BY <3>1
      <4>2. g[i] = IF i = 1 THEN Down[t] ELSE Step(s[k])
        BY <3>1
      <4> QED
        BY <4>1, <4>2
    <3>2. CASE i # k + 1
      <4>1. i \in 1..k /\ g[i] = s[i]
        BY <3>2
      <4>2. i # 1 => g[i - 1] = s[i - 1]
        BY <3>2
      <4>3. s[i] = IF i = 1 THEN Down[t] ELSE Step(s[i - 1])
        BY <2>2, <4>1
      <4> QED
        BY <4>1, <4>2, <4>3
    <3> QED
      BY <3>1, <3>2
  <2>4. g = [i \in 1..k + 1 |-> g[i]]
    OBVIOUS
  <2> HIDE DEF g
  <2>5. g = [i \in 1..k + 1 |-> IF i = 1 THEN Down[t] ELSE Step(g[i - 1])]
    BY <2>3, <2>4
  <2> QED
    BY <1>0, <2>5
<1> HIDE DEF Good
<1>3. n \in Good
  BY <1>1, <1>2, Numbers
<1> QED
  BY <1>3 DEF Good

\* Walk reads the values off them.
LEMMA WalkIs ==
  ASSUME NEW n \in Nat
  PROVE  \E s : Stacks(s, root, n) /\ Walk(n) = [i \in 1..n |-> Last(s[i]).value]
<1>1. \E s : s = [i \in 1..n |-> IF i = 1 THEN Down[root] ELSE Step(s[i - 1])]
  <2>1. PICK s : Stacks(s, root, n)
    BY StacksExist
  <2>2. s = [i \in 1..n |-> IF i = 1 THEN Down[root] ELSE Step(s[i - 1])]
    BY <2>1 DEF Stacks
  <2> QED
    BY <2>2
<1> DEFINE st == CHOOSE s : s = [i \in 1..n |-> IF i = 1 THEN Down[root] ELSE Step(s[i - 1])]
<1>2. Stacks(st, root, n)
  BY <1>1 DEF Stacks
<1>3. Walk(n) = [i \in 1..n |-> Last(st[i]).value]
  BY Zenon DEF Walk
<1> HIDE DEF st
<1> QED
  BY <1>2, <1>3

\* After i steps the iteration is at the ith value: what it gave are the values up to that.
UpTo(w, S) == {z \in S : z <= w}

\* Up to the least value there is that one.
LEMMA UpToFirst ==
  ASSUME NEW S, S \subseteq Int, NEW w, Least(w, S)
  PROVE  UpTo(w, S) = {w}
<1>1. w \in Int /\ w \in S /\ \A z \in S : w <= z /\ z \in Int
  BY DEF Least
<1>2. \A z \in S : z <= w => z = w
  BY <1>1
<1>3. w <= w
  BY <1>1
<1> QED
  BY <1>1, <1>2, <1>3 DEF UpTo

\* Up to the next value there is one more.
LEMMA UpToNext ==
  ASSUME NEW S, S \subseteq Int, NEW w, NEW u, Next(w, u, S)
  PROVE  UpTo(u, S) = UpTo(w, S) \union {u} /\ u \notin UpTo(w, S)
<1>1. w \in Int /\ u \in Int /\ u \in S /\ w < u /\ \A z \in S : z \in Int /\ (z <= w \/ u <= z)
  BY DEF Next
<1>2. \A z \in S : z <= u <=> z <= w \/ z = u
  BY <1>1
<1>3. ~(u <= w)
  BY <1>1
<1> QED
  BY <1>1, <1>2, <1>3 DEF UpTo

At(s, i, P, S, w) ==
    /\ w \in S /\ s[i] = P[w] /\ Cardinality(UpTo(w, S)) = i
    /\ UpTo(w, S) = {Last(s[j]).value : j \in 1..i}

\* By induction over the steps: there are as many values up to the ith as steps.
LEMMA StackAt ==
  ASSUME NEW t, NEW n \in Nat, NEW s, Stacks(s, t, n),
         NEW S, S \subseteq Int, IsFiniteSet(S), Cardinality(S) = n, NEW P, Paths(P, t, S)
  PROVE  /\ \A i \in 1..n : \E w : At(s, i, P, S, w)
         /\ \A i \in 1..n : i + 1 \in 1..n => \A w : At(s, i, P, S, w)
                                                => \E u : Next(w, u, S) /\ At(s, i + 1, P, S, u)
<1>1. \A i \in 1..n : s[i] = IF i = 1 THEN Down[t] ELSE Step(s[i - 1])
  BY DEF Stacks
<1>2. /\ \A w \in S : Path(P[w], t, w)
      /\ S # {} => \E w : Least(w, S)
      /\ \A w : Least(w, S) => Down[t] = P[w]
      /\ \A w, u : Next(w, u, S) => More(P[w]) /\ Step(P[w]) = P[u]
  BY DEF Paths, Starts, Steps
<1>3. \A w \in S : Last(P[w]).value = w
  BY <1>2 DEF Path
<1>4. ASSUME NEW w PROVE IsFiniteSet(UpTo(w, S))
  <2>1. UpTo(w, S) \subseteq S
    BY DEF UpTo
  <2> QED
    BY <2>1, FS_Subset
<1>5. ASSUME NEW i \in 1..n, i + 1 \in 1..n, NEW w, At(s, i, P, S, w)
      PROVE  \E u : Next(w, u, S) /\ At(s, i + 1, P, S, u)
  <2>1. /\ w \in S /\ s[i] = P[w] /\ Cardinality(UpTo(w, S)) = i
        /\ UpTo(w, S) = {Last(s[j]).value : j \in 1..i}
    BY <1>5 DEF At
  <2>2. ~Greatest(w, S)
    <3> SUFFICES ASSUME Greatest(w, S) PROVE FALSE
      OBVIOUS
    <3>1. UpTo(w, S) = S
      BY DEF Greatest, UpTo
    <3>2. i = n
      BY <2>1, <3>1
    <3> QED
      BY <1>5, <3>2
  <2>3. PICK u : Next(w, u, S)
    BY <2>1, <2>2, HasNext
  <2>4. (i + 1) - 1 = i /\ i + 1 # 1
    OBVIOUS
  <2>5. s[i + 1] = Step(s[i])
    BY <1>1, <1>5, <2>4
  <2>6. s[i + 1] = P[u] /\ u \in S
    BY <1>2, <2>1, <2>3, <2>5 DEF Next
  <2>7. UpTo(u, S) = UpTo(w, S) \union {u} /\ u \notin UpTo(w, S)
    BY <2>3, UpToNext
  <2>8. Cardinality(UpTo(u, S)) = i + 1
    BY <1>4, <2>1, <2>7, FS_AddElement
  <2>9. Last(s[i + 1]).value = u
    BY <1>3, <2>6
  <2>10. UpTo(u, S) = {Last(s[j]).value : j \in 1..i + 1}
    <3>1. \A j : j \in 1..i + 1 <=> j \in 1..i \/ j = i + 1
      OBVIOUS
    <3> QED
      BY <2>1, <2>7, <2>9, <3>1
  <2> QED
    BY <2>3, <2>6, <2>8, <2>10 DEF At
<1> DEFINE Good == {k \in Nat : k + 1 <= n => \E w : At(s, k + 1, P, S, w)}
<1>6. 0 \in Good
  <2> SUFFICES ASSUME 0 + 1 <= n PROVE \E w : At(s, 0 + 1, P, S, w)
    OBVIOUS
  <2>1. S # {}
    BY FS_EmptySet
  <2>2. PICK w : Least(w, S)
    BY <1>2, <2>1
  <2>3. w \in S /\ UpTo(w, S) = {w}
    BY <2>2, UpToFirst DEF Least
  <2>4. s[1] = P[w]
    <3>1. 1 \in 1..n
      OBVIOUS
    <3> QED
      BY <1>1, <1>2, <2>2, <3>1
  <2>5. Last(s[1]).value = w
    BY <1>3, <2>3, <2>4
  <2>6. Cardinality(UpTo(w, S)) = 1
    BY <2>3, FS_Singleton
  <2>7. UpTo(w, S) = {Last(s[j]).value : j \in 1..1}
    <3>1. \A j : j \in 1..1 <=> j = 1
      OBVIOUS
    <3> QED
      BY <2>3, <2>5, <3>1
  <2>8. At(s, 1, P, S, w)
    BY <2>3, <2>4, <2>6, <2>7 DEF At
  <2>9. 0 + 1 = 1
    OBVIOUS
  <2> QED
    BY <2>8, <2>9
<1>7. ASSUME NEW k \in Nat, k \in Good PROVE k + 1 \in Good
  <2> SUFFICES ASSUME (k + 1) + 1 <= n PROVE \E w : At(s, (k + 1) + 1, P, S, w)
    OBVIOUS
  <2>1. k + 1 \in 1..n /\ (k + 1) + 1 \in 1..n
    OBVIOUS
  <2>2. PICK w : At(s, k + 1, P, S, w)
    BY <1>7
  <2> QED
    BY <1>5, <2>1, <2>2
<1>8. \A i \in 1..n : i - 1 \in Nat /\ (i - 1) + 1 = i /\ i <= n
  OBVIOUS
<1> HIDE DEF Good
<1>9. \A k \in Nat : k \in Good
  BY <1>6, <1>7, Numbers
<1>10. ASSUME NEW i \in 1..n PROVE \E w : At(s, i, P, S, w)
  BY <1>8, <1>9 DEF Good
<1> QED
  BY <1>5, <1>10

\* Iterating over a tree gives its values in order.
LEMMA WalkOrdered ==
  ASSUME NEW S, NEW h, Tree(root, S, h), NEW n, n = Cardinality(S)
  PROVE  /\ ToSet(Walk(n)) = S
         /\ \A i \in 1..Len(Walk(n)) - 1 : Walk(n)[i] < Walk(n)[i + 1]
<1>1. S \subseteq Values /\ S \subseteq Int /\ IsFiniteSet(S) /\ n \in Nat
  BY TreeIs, SubsetIs, IntValue
<1>2. PICK P : Paths(P, root, S)
  BY PathsExist
<1>3. PICK s : Stacks(s, root, n) /\ Walk(n) = [i \in 1..n |-> Last(s[i]).value]
  BY <1>1, WalkIs
<1> DEFINE walk == Walk(n)
<1>4. DOMAIN walk = 1..n /\ \A i \in 1..n : walk[i] = Last(s[i]).value
  BY <1>3
<1>5. Len(walk) = n
  BY <1>1, <1>3
<1> HIDE DEF walk
<1>6. /\ \A i \in 1..n : \E w : At(s, i, P, S, w)
      /\ \A i \in 1..n : i + 1 \in 1..n => \A w : At(s, i, P, S, w)
                                             => \E u : Next(w, u, S) /\ At(s, i + 1, P, S, u)
  BY <1>1, <1>2, <1>3, StackAt
<1>7. \A w \in S : Last(P[w]).value = w
  BY <1>2 DEF Paths, Path
<1>8. ASSUME NEW i \in 1..n, NEW w, At(s, i, P, S, w) PROVE walk[i] = w
  BY <1>4, <1>7, <1>8 DEF At
<1>9. ASSUME NEW i \in 1..n - 1 PROVE walk[i] < walk[i + 1]
  <2>1. i \in 1..n /\ i + 1 \in 1..n
    BY <1>1
  <2>2. PICK w : At(s, i, P, S, w)
    BY <1>6, <2>1
  <2>3. PICK u : Next(w, u, S) /\ At(s, i + 1, P, S, u)
    BY <1>6, <2>1, <2>2
  <2>4. walk[i] = w /\ walk[i + 1] = u /\ w < u
    BY <1>8, <2>1, <2>2, <2>3 DEF Next
  <2> QED
    BY <2>4
<1>10. ToSet(walk) = {Last(s[j]).value : j \in 1..n}
  BY <1>4 DEF ToSet
<1>11. {Last(s[j]).value : j \in 1..n} = S
  <2>1. CASE n = 0
    <3>1. S = {}
      BY <1>1, <2>1, FS_EmptySet
    <3>2. \A j : j \notin 1..n
      BY <2>1
    <3> QED
      BY <3>1, <3>2
  <2>2. CASE n # 0
    <3>1. n \in 1..n
      BY <1>1, <2>2
    <3>2. PICK w : At(s, n, P, S, w)
      BY <1>6, <3>1
    <3>3. UpTo(w, S) \subseteq S /\ Cardinality(UpTo(w, S)) = Cardinality(S)
      BY <3>2 DEF At, UpTo
    <3>4. UpTo(w, S) = S
      BY <1>1, <3>3, FS_Subset
    <3> QED
      BY <3>2, <3>4 DEF At
  <2> QED
    BY <2>1, <2>2
<1> QED
  BY <1>5, <1>9, <1>10, <1>11 DEF walk

\* The invariant says all that RedBlack does.
LEMMA TreeInvRedBlack ==
  ASSUME TreeInv
  PROVE  RedBlack
<1>1. PICK S : TreeOk(root, nodes, S)
  BY DEF TreeInv
<1>2. PICK h : Tree(root, S, h)
  BY <1>1 DEF TreeOk
<1>3. ~root.red /\ nodes = Cardinality(S)
  BY <1>1 DEF TreeOk
<1>4. ValuesOf[root] = S /\ BlackHeight[root] = h /\ h \in Nat
  BY <1>2, TreeHas, TreeIs
<1>5. BlackHeight[root] # -1
  BY <1>4
<1>6. /\ ToSet(Walk(nodes)) = S
      /\ \A i \in 1..Len(Walk(nodes)) - 1 : Walk(nodes)[i] < Walk(nodes)[i + 1]
  BY <1>2, <1>3, WalkOrdered
<1> QED
  BY <1>3, <1>4, <1>5, <1>6 DEF RedBlack

\* The tree is a red-black tree of as many nodes as are counted, and iterating over
\* it gives its values in order: of any finite set of integers.
THEOREM RedBlackHolds == TreeSpec => []RedBlack
<1>1. TreeInit => TreeInv
  BY TreeStarts
<1>2. TreeInv /\ [TreeNext]_treeVars => TreeInv'
  BY TreeNextKeeps
<1>3. TreeInv => RedBlack
  BY TreeInvRedBlack
<1> QED
  BY <1>1, <1>2, <1>3, PTL DEF TreeSpec
=============================================================================
