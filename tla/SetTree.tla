------------------------------- MODULE SetTree ------------------------------
(***************************************************************************)
(* nall/set.hpp: a set kept in a red-black tree.  A node is a record of    *)
(* its value, its colour and its two links; what the code does to the      *)
(* pointer that holds a node is the value of an operator.  Where the code  *)
(* would follow a null pointer, so would the model: TLC stops there.       *)
(* Left out: copying and moving whole sets.                                *)
(***************************************************************************)
EXTENDS Integers, Sequences, SequencesExt, FiniteSets

CONSTANT Values     \* the values, integers

ASSUME SetAssumption == Values \subseteq Int /\ IsFiniteSet(Values)

VARIABLES
    root,       \* the tree
    nodes,      \* the count of its nodes
    found       \* what the last call returned

treeVars == <<root, nodes, found>>

Nil == [red |-> FALSE]      \* a null pointer, which reads as black

\* The trees no deeper than h; and those that a set of Values can be kept in, each value
\* in one node: the functions over them recur down the links.
TreesOf[h \in Nat] ==
    IF h = 0 THEN {Nil}
    ELSE {Nil} \union [value : Values, red : BOOLEAN, left : TreesOf[h - 1], right : TreesOf[h - 1]]
Trees == TreesOf[Cardinality(Values)]

TreeInit == root = Nil /\ nodes = 0 /\ found = TRUE

\* link[0] and link[1] are the left and the right; dir is TRUE for the right.
Link(n, dir) == IF dir THEN n.right ELSE n.left
SetLink(n, dir, to) == IF dir THEN [n EXCEPT !.right = to] ELSE [n EXCEPT !.left = to]
Painted(n, red) == [n EXCEPT !.red = red]
Leaf(x) == [value |-> x, red |-> TRUE, left |-> Nil, right |-> Nil]
Black(n) == IF n = Nil THEN Nil ELSE Painted(n, FALSE)

-----------------------------------------------------------------------------
ValuesOf[n \in Trees] ==
    IF n = Nil THEN {} ELSE {n.value} \union ValuesOf[n.left] \union ValuesOf[n.right]

\* find
Has(x) ==
    LET has[n \in Trees] == n # Nil /\ (n.value = x \/ has[Link(n, n.value < x)])
    IN  has

\* Mutant of Rotate: what is between the two is lost.
RotateDrops(a, dir) ==
    LET b == Link(a, ~dir)
    IN  SetLink(Painted(b, FALSE), dir, SetLink(Painted(a, TRUE), ~dir, Nil))

\* rotate: the child on the other side comes up, black; its old parent is red.
Rotate(a, dir) ==
    LET b == Link(a, ~dir)
    IN  SetLink(Painted(b, FALSE), dir, SetLink(Painted(a, TRUE), ~dir, Link(b, dir)))

RotateTwice(n, dir) == Rotate(SetLink(n, ~dir, Rotate(Link(n, ~dir), ~dir)), dir)

\* What insert does to a node when it comes back from its child on side dir.
Repaired(n, dir) ==
    IF ~Link(n, dir).red THEN n
    ELSE IF Link(n, ~dir).red
    THEN [n EXCEPT !.red = TRUE, !.left = Black(@), !.right = Black(@)]
    ELSE IF Link(Link(n, dir), dir).red THEN Rotate(n, ~dir)
    ELSE IF Link(Link(n, dir), ~dir).red THEN RotateTwice(n, ~dir)
    ELSE n

Inserted(x) ==
    LET inserted[n \in Trees] ==
            IF n = Nil THEN Leaf(x)
            ELSE IF n.value = x THEN n
            ELSE LET dir == n.value < x
                 IN  Repaired(SetLink(n, dir, inserted[Link(n, dir)]), dir)
    IN  inserted

\* Mutant of Settle: the node that comes up does not get its colour back.
SettleRed(p, dir) ==
    LET up == IF Link(Link(p, ~dir), ~dir).red THEN Rotate(p, dir) ELSE RotateTwice(p, dir)
    IN  [up EXCEPT !.left = Black(@), !.right = Black(@)]

\* balance when the sibling of p's child on side dir, black itself, has a red
\* child: the node that comes up is coloured as p was, its children are black.
Settle(p, dir) ==
    LET up == IF Link(Link(p, ~dir), ~dir).red THEN Rotate(p, dir) ELSE RotateTwice(p, dir)
    IN  [up EXCEPT !.red = p.red, !.left = Black(@), !.right = Black(@)]

\* balance at p, whose child on side dir has lost a black node, once the sibling
\* is black: the tree, and whether that is done.
Level(p, dir) ==
    LET s == Link(p, ~dir)
    IN  IF ~s.left.red /\ ~s.right.red
        THEN [tree |-> SetLink(Painted(p, FALSE), ~dir, Painted(s, TRUE)), done |-> p.red]
        ELSE [tree |-> Settle(p, dir), done |-> TRUE]

\* balance: a red sibling is rotated up first, and p goes down one level.
Balanced(n, dir) ==
    LET s == Link(n, ~dir)
    IN  IF s = Nil THEN [tree |-> n, done |-> FALSE]
        ELSE IF ~s.red THEN Level(n, dir)
        ELSE LET up == Rotate(n, dir)
                 down == Level(Link(up, dir), dir)
             IN  [tree |-> SetLink(up, dir, down.tree), done |-> down.done]

\* The largest value of a tree: the heir of the node above it.
Heir[n \in Trees \ {Nil}] == IF n.right = Nil THEN n.value ELSE Heir[n.right]

\* remove: the tree, whether its black height is what it was, and the nodes deleted.
Removed[n \in Trees] == [x \in Values |->
    IF n = Nil THEN [tree |-> Nil, done |-> TRUE, gone |-> 0]
    ELSE IF n.value = x /\ (n.left = Nil \/ n.right = Nil)
    THEN LET save == IF n.left = Nil THEN n.right ELSE n.left
         IN  [tree |-> IF n.red THEN save ELSE Black(save), done |-> n.red \/ save.red, gone |-> 1]
    ELSE LET y == IF n.value = x THEN Heir[n.left] ELSE x
             m == IF n.value = x THEN [n EXCEPT !.value = y] ELSE n
             dir == m.value < y
             below == Removed[Link(n, dir)][y]
             here == SetLink(m, dir, below.tree)
             level == IF below.done THEN [tree |-> here, done |-> TRUE] ELSE Balanced(here, dir)
         IN  [tree |-> level.tree, done |-> level.done, gone |-> below.gone]]

-----------------------------------------------------------------------------
Insert(x) ==
    /\ root' = Black(Inserted(x)[root])
    /\ nodes' = nodes + (IF Has(x)[root] THEN 0 ELSE 1)
    /\ found' = (nodes' # nodes)

Erase(x) ==
    LET done == Removed[root][x]
    IN  /\ root' = Black(done.tree)
        /\ nodes' = nodes - done.gone
        /\ found' = (nodes' < nodes)

Find(x) == UNCHANGED <<root, nodes>> /\ found' = Has(x)[root]

Clear == root' = Nil /\ nodes' = 0 /\ found' = TRUE

TreeNext == Clear \/ \E x \in Values : Insert(x) \/ Erase(x) \/ Find(x)

TreeSpec == TreeInit /\ [][TreeNext]_treeVars

-----------------------------------------------------------------------------
\* base_iterator: its stack is the path from the root to the node it is at.
Down[n \in Trees] == IF n = Nil THEN <<>> ELSE <<n>> \o Down[n.left]

\* Up to the nearest node that does not have the one before it at its right.
Climb(stack) ==
    SubSeq(stack, 1, Max({i \in 1..Len(stack) - 1 : stack[i].right # stack[i + 1]}))

\* operator++
Step(stack) ==
    IF Last(stack).right # Nil THEN stack \o Down[Last(stack).right] ELSE Climb(stack)

\* The values iterated over from the root on, n in all.
Walk(n) ==
    LET stack[i \in 1..n] == IF i = 1 THEN Down[root] ELSE Step(stack[i - 1])
    IN  [i \in 1..n |-> Last(stack[i]).value]

-----------------------------------------------------------------------------
\* The black nodes on the way down, or -1 if that differs or red meets red.
BlackHeight[n \in Trees] ==
    IF n = Nil THEN 0
    ELSE LET l == BlackHeight[n.left]
             r == BlackHeight[n.right]
         IN  IF l = -1 \/ l # r \/ (n.red /\ (n.left.red \/ n.right.red)) THEN -1
             ELSE IF n.red THEN l ELSE l + 1

\* The tree is a red-black tree of as many nodes as are counted, and iterating
\* over it gives its values in order: after any insertions, of values that are
\* there too, and removals, of values that are not there too.
RedBlack ==
    /\ ~root.red /\ BlackHeight[root] # -1
    /\ nodes = Cardinality(ValuesOf[root])
    /\ LET walk == Walk(nodes)
       IN  /\ ToSet(walk) = ValuesOf[root]
           /\ \A i \in 1..Len(walk) - 1 : walk[i] < walk[i + 1]

\* The tree implements a set of values: what each call returns is true, and
\* only the value it is about comes or goes, heirs and rotations or not.
Members == INSTANCE ValueSet WITH members <- ValuesOf[root], reply <- found
TreeImplements ==
    [][/\ Clear => Members!Clears
       /\ \A x \in Values : /\ Insert(x) => Members!Inserts(x)
                            /\ Erase(x) => Members!Removes(x)
                            /\ Find(x) => Members!Finds(x)]_treeVars
=============================================================================
