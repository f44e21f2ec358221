-------------------------- MODULE SizableTree_proofs ------------------------
(***************************************************************************)
(* Proofs about SizableTree, for any sets of layouts and widgets.          *)
(***************************************************************************)
EXTENDS SizableTree, TLAPS

\* A closure lies in the nodes and holds the seed.
LEMMA ClosureSeed ==
  ASSUME NEW kids, NEW seed, seed \subseteq DOMAIN kids
  PROVE  seed \subseteq Closure(kids, seed) /\ Closure(kids, seed) \subseteq DOMAIN kids
BY DEF Closure, Closed

\* A closure is closed: what is below one of its nodes is in it.
LEMMA ClosureStep ==
  ASSUME NEW kids, NEW seed, NEW p \in Closure(kids, seed), NEW x \in kids[p],
         x \in DOMAIN kids
  PROVE  x \in Closure(kids, seed)
BY DEF Closure, Closed

\* A closure is the least such set.
LEMMA ClosureLeast ==
  ASSUME NEW kids, NEW seed, NEW S \in Closed(kids, seed)
  PROVE  Closure(kids, seed) \subseteq S
BY DEF Closure

\* Each node of a closure is a seed or is below another node of it.
LEMMA ClosureBelow ==
  ASSUME NEW kids, NEW seed, NEW x \in Closure(kids, seed), x \notin seed,
         seed \subseteq DOMAIN kids,
         \A y \in DOMAIN kids : kids[y] \subseteq DOMAIN kids
  PROVE  \E p \in Closure(kids, seed) : x \in kids[p]
<1> SUFFICES ASSUME \A p \in Closure(kids, seed) : x \notin kids[p] PROVE FALSE
  OBVIOUS
<1> DEFINE S == Closure(kids, seed) \ {x}
<1>1. S \subseteq DOMAIN kids /\ seed \subseteq S
  BY ClosureSeed
<1>2. \A y \in S : kids[y] \subseteq S
  BY <1>1, ClosureStep
<1>3. S \in Closed(kids, seed)
  BY <1>1, <1>2 DEF Closed
<1> QED
  BY <1>3, ClosureLeast

-----------------------------------------------------------------------------
\* Contents and parents agree.
ContentAgree ==
    \A f \in Holders, k \in Sizables : content[f] = k <=> parent[k] = f

\* What the window holds directly has no parent.
RootsTop == \A l \in roots : parent[l] = None

\* The types of the object tree, and of the native side.
CoreTypeOK ==
    /\ alive \subseteq Sizables
    /\ parent \in [Sizables -> Layouts \union Holders \union {None}]
    /\ window \in [Sizables -> BOOLEAN]
    /\ children \in [Layouts -> SUBSET Sizables]
    /\ content \in [Holders -> Layouts \union {None}]
    /\ roots \subseteq Layouts
    /\ registered \subseteq Widgets

NativeTypeOK ==
    /\ visible \in [Sizables -> BOOLEAN]
    /\ made \in [Widgets -> BOOLEAN]
    /\ host \in [Widgets -> Hosts]
    /\ shown \in [Widgets -> BOOLEAN]

\* The inductive invariant behind Listed.
TreeInv == CoreTypeOK /\ Listed /\ ContentAgree /\ RootsTop

\* The type invariant has two parts.
LEMMA TypeParts ==
  TypeOK <=> CoreTypeOK /\ NativeTypeOK /\ single \in BOOLEAN /\ tidy \in BOOLEAN
BY DEF TypeOK, CoreTypeOK, NativeTypeOK

\* Kids is a function to sets of sizables.
LEMMA KidsType ==
  ASSUME NEW ch \in [Layouts -> SUBSET Sizables],
         NEW ct \in [Holders -> Layouts \union {None}]
  PROVE  Kids(ch, ct) \in [Sizables -> SUBSET Sizables]
BY DEF Kids, Sizables

\* Under TreeInv, below means having as parent.
LEMMA KidsParent ==
  ASSUME TreeInv, NEW s \in Sizables, NEW p \in Sizables
  PROVE  s \in Kids(children, content)[p] <=> parent[s] = p
<1> USE TreeAssumption DEF TreeInv, CoreTypeOK, Kids
<1>1. CASE p \in Layouts
  BY <1>1 DEF Listed
<1>2. CASE p \in Holders
  BY <1>2 DEF ContentAgree, Widgets
<1>3. CASE p \in Plain
  <2>1. p \notin Layouts /\ p \notin Holders /\ p # None
    BY <1>3 DEF Widgets
  <2>2. parent[s] # p
    BY <2>1, <1>3
  <2> QED
    BY <2>1, <2>2
<1> QED
  BY <1>1, <1>2, <1>3 DEF Sizables, Widgets

-----------------------------------------------------------------------------
\* The same of the next state.
LEMMA KidsParentNext ==
  ASSUME TreeInv'
  PROVE  \A s, p \in Sizables : s \in Kids(children', content')[p] <=> parent'[s] = p
<1>1. /\ children' \in [Layouts -> SUBSET Sizables]
      /\ content' \in [Holders -> Layouts \union {None}]
      /\ parent' \in [Sizables -> Layouts \union Holders \union {None}]
      /\ \A l \in Layouts, s \in Sizables : s \in children'[l] <=> parent'[s] = l
      /\ \A f \in Holders, k \in Sizables : content'[f] = k <=> parent'[k] = f
  BY DEF TreeInv, CoreTypeOK, Listed, ContentAgree
<1> SUFFICES ASSUME NEW s \in Sizables, NEW p \in Sizables
             PROVE  s \in Kids(children', content')[p] <=> parent'[s] = p
  OBVIOUS
<1>2. None \notin Sizables /\ Layouts \intersect Holders = {}
      /\ Layouts \subseteq Sizables /\ Holders \subseteq Sizables
  BY TreeAssumption DEF Sizables, Widgets
<1>3. CASE p \in Layouts
  BY <1>1, <1>3 DEF Kids
<1>4. CASE p \in Holders
  <2>1. Kids(children', content')[p] = {content'[p]} \ {None}
    BY <1>2, <1>4 DEF Kids
  <2> QED
    BY <1>1, <1>2, <1>4, <2>1
<1>5. CASE p \notin Layouts /\ p \notin Holders
  <2>1. Kids(children', content')[p] = {}
    BY <1>5 DEF Kids
  <2> QED
    BY <1>1, <1>2, <1>5, <2>1
<1> QED
  BY <1>3, <1>4, <1>5

-----------------------------------------------------------------------------
\* What synchronizeLayout visits lies in the tree, holds the layout it starts
\* from, and is reached from it edge by edge.
LEMMA VisitedType ==
  ASSUME NEW ch \in [Layouts -> SUBSET Sizables],
         NEW ct \in [Holders -> Layouts \union {None}],
         NEW l \in Layouts, NEW win, win \in BOOLEAN
  PROVE  /\ Visited(l, win, ch, ct) \subseteq Sizables
         /\ l \in Visited(l, win, ch, ct)
         /\ \A p \in Visited(l, win, ch, ct), x \in Sizables :
              /\ p \in Layouts \/ (win /\ p \notin registered)
              /\ x \in Kids(ch, ct)[p]
              => x \in Visited(l, win, ch, ct)
         /\ \A x \in Visited(l, win, ch, ct) : x # l =>
              \E p \in Visited(l, win, ch, ct) :
                 /\ p \in Layouts \/ (win /\ p \notin registered)
                 /\ x \in Kids(ch, ct)[p]
<1> DEFINE kids == [s \in Sizables |->
                      IF s \in Layouts \/ (win /\ s \notin registered)
                      THEN Kids(ch, ct)[s] ELSE {}]
<1>1. DOMAIN kids = Sizables /\ \A y \in DOMAIN kids : kids[y] \subseteq DOMAIN kids
  BY KidsType
<1>2. {l} \subseteq DOMAIN kids
  BY <1>1 DEF Sizables
<1>3. Visited(l, win, ch, ct) = Closure(kids, {l})
  BY DEF Visited
<1>4. \A y \in Sizables : y \in Layouts \/ (win /\ y \notin registered) => kids[y] = Kids(ch, ct)[y]
  OBVIOUS
<1>5. \A y \in Sizables : \A x : x \in kids[y] =>
         (y \in Layouts \/ (win /\ y \notin registered)) /\ x \in Kids(ch, ct)[y]
  OBVIOUS
<1> HIDE DEF kids
<1>6. Closure(kids, {l}) \subseteq Sizables /\ l \in Closure(kids, {l})
  BY <1>1, <1>2, ClosureSeed
<1>7. \A p \in Closure(kids, {l}), x \in Sizables :
         x \in kids[p] => x \in Closure(kids, {l})
  BY <1>1, ClosureStep
<1>8. \A x \in Closure(kids, {l}) : x # l => \E p \in Closure(kids, {l}) : x \in kids[p]
  BY <1>1, <1>2, ClosureBelow
<1> QED
  BY <1>3, <1>4, <1>5, <1>6, <1>7, <1>8

\* The lister of what a visited sizable lists is a visited sizable that does.
LEMMA ListerLists ==
  ASSUME NEW s, NEW visited, NEW ch, NEW ct,
         \E p \in visited : s \in Kids(ch, ct)[p]
  PROVE  /\ Lister(s, visited, ch, ct) \in visited
         /\ s \in Kids(ch, ct)[Lister(s, visited, ch, ct)]
<1> DEFINE listers == {p \in visited : s \in Kids(ch, ct)[p]}
           fresh == {p \in listers : s \notin Kids(children, content)[p]}
<1>1. Lister(s, visited, ch, ct) = CHOOSE p \in listers : fresh = {} \/ p \in fresh
  BY DEF Lister
<1>2. \E p \in listers : fresh = {} \/ p \in fresh
  OBVIOUS
<1> HIDE DEF fresh
<1>3. Lister(s, visited, ch, ct) \in listers
  BY <1>1, <1>2
<1> QED
  BY <1>3

\* synchronizeLayout leaves every sizable with the parent that the new tree
\* (np) gives it, and moves exactly what it visits into or out of the window.
LEMMA SynchronizeEffect ==
  ASSUME NEW ch \in [Layouts -> SUBSET Sizables],
         NEW ct \in [Holders -> Layouts \union {None}],
         NEW l \in Layouts, NEW above, NEW win, win \in BOOLEAN,
         NEW np \in [Sizables -> Layouts \union Holders \union {None}],
         \A s, p \in Sizables : s \in Kids(ch, ct)[p] <=> np[s] = p,
         np[l] = above,
         \A s \in Sizables : s \notin Visited(l, win, ch, ct) => np[s] = parent[s],
         parent \in [Sizables -> Layouts \union Holders \union {None}],
         Synchronize(l, above, win, ch, ct)
  PROVE  /\ parent' = np
         /\ window' = [s \in Sizables |->
                         IF s \in Visited(l, win, ch, ct) THEN win ELSE window[s]]
         /\ registered' = registered \union
              (IF win THEN Visited(l, win, ch, ct) \intersect Widgets ELSE {})
<1> DEFINE visited == Visited(l, win, ch, ct)
<1>1. visited \subseteq Sizables
  BY VisitedType
<1>2. parent' = [s \in Sizables |->
                  IF s = l THEN above
                  ELSE IF s \in visited THEN Lister(s, visited, ch, ct)
                  ELSE parent[s]]
  BY DEF Synchronize
<1>3. ASSUME NEW s \in visited, s # l
      PROVE  Lister(s, visited, ch, ct) = np[s]
  <2>1. \E p \in visited : s \in Kids(ch, ct)[p]
    BY <1>3, VisitedType
  <2>2. \A q \in visited : s \in Kids(ch, ct)[q] <=> np[s] = q
    BY <1>1, <1>3
  <2> HIDE DEF visited
  <2> QED
    BY <2>1, <2>2, ListerLists
<1>4. \A s \in Sizables : parent'[s] = np[s]
  BY <1>1, <1>2, <1>3
<1>5. parent' = np
  BY <1>2, <1>4
<1>6. registered' = registered \union (IF win THEN visited \intersect Widgets ELSE {})
  BY DEF Synchronize
<1> QED
  BY <1>5, <1>6 DEF Synchronize

\* The converse of KidsParent, for any tree.
LEMMA KidsAgree ==
  ASSUME NEW ch \in [Layouts -> SUBSET Sizables],
         NEW ct \in [Holders -> Layouts \union {None}],
         NEW np \in [Sizables -> Layouts \union Holders \union {None}],
         \A s, p \in Sizables : s \in Kids(ch, ct)[p] <=> np[s] = p
  PROVE  /\ \A l \in Layouts, s \in Sizables : s \in ch[l] <=> np[s] = l
         /\ \A f \in Holders, k \in Sizables : ct[f] = k <=> np[k] = f
<1>1. ASSUME NEW l \in Layouts, NEW s \in Sizables PROVE s \in ch[l] <=> np[s] = l
  BY DEF Kids, Sizables
<1>2. ASSUME NEW f \in Holders, NEW k \in Sizables PROVE ct[f] = k <=> np[k] = f
  <2>1. f \in Sizables /\ f \notin Layouts /\ k # None
    BY TreeAssumption DEF Sizables, Widgets
  <2>2. Kids(ch, ct)[f] = {ct[f]} \ {None}
    BY <2>1 DEF Kids
  <2> QED
    BY <2>1, <2>2
<1> QED
  BY <1>1, <1>2

\* TreeInv after a synchronizeLayout: the new children and contents have to
\* match the parents np, and roots the parentless.
LEMMA SynchronizeTree ==
  ASSUME TreeInv,
         NEW l \in Layouts, NEW above, NEW win, win \in BOOLEAN,
         NEW np \in [Sizables -> Layouts \union Holders \union {None}],
         children' \in [Layouts -> SUBSET Sizables],
         content' \in [Holders -> Layouts \union {None}],
         alive' \subseteq Sizables, roots' \subseteq Layouts,
         \A s, p \in Sizables : s \in Kids(children', content')[p] <=> np[s] = p,
         np[l] = above,
         \A s \in Sizables : s \notin Visited(l, win, children', content') => np[s] = parent[s],
         \A m \in roots' : np[m] = None,
         Synchronize(l, above, win, children', content')
  PROVE  TreeInv' /\ parent' = np
<1>1. /\ parent' = np
      /\ window' = [s \in Sizables |->
            IF s \in Visited(l, win, children', content') THEN win ELSE window[s]]
      /\ registered' = registered \union
            (IF win THEN Visited(l, win, children', content') \intersect Widgets ELSE {})
  BY SynchronizeEffect DEF TreeInv, CoreTypeOK
<1>2. CoreTypeOK'
  BY <1>1 DEF TreeInv, CoreTypeOK
<1>3. Listed' /\ ContentAgree'
  BY <1>1, KidsAgree DEF Listed, ContentAgree
<1> QED
  BY <1>1, <1>2, <1>3 DEF TreeInv, RootsTop

\* Appending a layout to the window keeps the tree.
LEMMA WindowAppendTree ==
  ASSUME single', TreeInv, NEW l \in Layouts, WindowAppend(l)
  PROVE  TreeInv' /\ parent' = parent
<1> USE DEF TreeInv, CoreTypeOK
<1>1. parent[l] = None /\ l \in Sizables
  BY DEF WindowAppend, Noted, Free, Sizables
<1>2. children' = children /\ content' = content /\ alive' = alive
      /\ roots' = roots \union {l}
      /\ Synchronize(l, None, TRUE, children', content')
  BY DEF WindowAppend
<1>3. \A s, p \in Sizables : s \in Kids(children', content')[p] <=> parent[s] = p
  BY <1>2, KidsParent
<1>4. children' \in [Layouts -> SUBSET Sizables] /\ content' \in [Holders -> Layouts \union {None}]
      /\ alive' \subseteq Sizables /\ roots' \subseteq Layouts
      /\ parent \in [Sizables -> Layouts \union Holders \union {None}] /\ parent[l] = None
  BY <1>1, <1>2
<1>5. \A m \in roots' : parent[m] = None
  BY <1>1, <1>2 DEF RootsTop
<1> HIDE DEF TreeInv, CoreTypeOK
<1> QED
  BY <1>2, <1>3, <1>4, <1>5, SynchronizeTree

\* Appending to a layout keeps the tree, with s below l.
LEMMA AppendTree ==
  ASSUME single', TreeInv, NEW l \in Layouts, NEW s \in Sizables, Append(l, s)
  PROVE  TreeInv' /\ parent' = [parent EXCEPT ![s] = l]
<1> USE DEF TreeInv, CoreTypeOK
<1>0. PICK np : np = [parent EXCEPT ![s] = l]
  OBVIOUS
<1>1. parent[s] = None /\ s \notin roots /\ s # l /\ l \in Sizables
  <2>1. l \in Ancestors(parent, l)
    <3>1. {l} \subseteq Sizables
      BY DEF Sizables
    <3> QED
      BY <3>1, ClosureSeed DEF Ancestors
  <2> QED
    BY <2>1 DEF Append, Noted, Free, Sizables
<1>2. children' = [children EXCEPT ![l] = @ \union {s}] /\ content' = content
      /\ alive' = alive /\ roots' = roots
      /\ Synchronize(l, parent[l], window[l], children', content')
  BY DEF Append
<1>3. np \in [Sizables -> Layouts \union Holders \union {None}] /\ np[l] = parent[l]
  BY <1>0, <1>1
<1>4. ASSUME NEW x \in Sizables, NEW p \in Sizables
      PROVE  x \in Kids(children', content')[p] <=> np[x] = p
  <2>1. x \in Kids(children, content)[p] <=> parent[x] = p
    BY KidsParent
  <2>2. CASE p = l
    <3>1. Kids(children', content')[l] = children[l] \union {s}
          /\ Kids(children, content)[l] = children[l]
      BY <1>1, <1>2 DEF Kids
    <3> QED
      BY <1>0, <2>1, <2>2, <3>1
  <2>3. CASE p # l
    <3>1. Kids(children', content')[p] = Kids(children, content)[p]
      BY <1>2, <2>3 DEF Kids
    <3>2. parent[s] # p
      BY <1>1, TreeAssumption
    <3> QED
      BY <1>0, <2>1, <2>3, <3>1, <3>2
  <2> QED
    BY <2>2, <2>3
<1>5. s \in Visited(l, window[l], children', content')
  <2>1. s \in Kids(children', content')[l]
    BY <1>0, <1>3, <1>4, <1>1
  <2>2. children' \in [Layouts -> SUBSET Sizables] /\ content' \in [Holders -> Layouts \union {None}]
        /\ window[l] \in BOOLEAN
    BY <1>1, <1>2
  <2> QED
    BY <2>1, <2>2, VisitedType
<1>6. \A x \in Sizables : x \notin Visited(l, window[l], children', content') => np[x] = parent[x]
  BY <1>0, <1>5
<1>7. \A m \in roots' : np[m] = None
  BY <1>0, <1>1, <1>2 DEF RootsTop, Sizables
<1>8. children' \in [Layouts -> SUBSET Sizables] /\ content' \in [Holders -> Layouts \union {None}]
      /\ window[l] \in BOOLEAN /\ alive' \subseteq Sizables /\ roots' \subseteq Layouts
  BY <1>1, <1>2
<1> HIDE DEF TreeInv, CoreTypeOK
<1>9. TreeInv' /\ parent' = np
  <2>1. PICK win, above : win = window[l] /\ above = parent[l]
    OBVIOUS
  <2>2. /\ win \in BOOLEAN /\ np[l] = above
        /\ Synchronize(l, above, win, children', content')
        /\ \A x \in Sizables : x \notin Visited(l, win, children', content') => np[x] = parent[x]
    BY <2>1, <1>2, <1>3, <1>6, <1>8
  <2>3. \A x, p \in Sizables : x \in Kids(children', content')[p] <=> np[x] = p
    BY <1>4
  <2> QED
    BY <1>3, <1>7, <1>8, <2>2, <2>3, SynchronizeTree
<1> QED
  BY <1>0, <1>9

\* Giving a holder its content keeps the tree, with l below f.
LEMMA SetLayoutTree ==
  ASSUME single', TreeInv, NEW f \in Holders, NEW l \in Layouts, SetLayout(f, l)
  PROVE  TreeInv' /\ parent' = [parent EXCEPT ![l] = f]
<1> USE DEF TreeInv, CoreTypeOK
<1>0. PICK np : np = [parent EXCEPT ![l] = f]
  OBVIOUS
<1>1. parent[l] = None /\ l \notin roots /\ content[f] = None
      /\ l \in Sizables /\ f \in Sizables /\ f \notin Layouts
  BY TreeAssumption DEF SetLayout, Noted, Free, Sizables, Widgets
<1>2. content' = [content EXCEPT ![f] = l] /\ children' = children
      /\ alive' = alive /\ roots' = roots
      /\ Synchronize(l, f, window[f], children', content')
  BY DEF SetLayout
<1>3. np \in [Sizables -> Layouts \union Holders \union {None}] /\ np[l] = f
  BY <1>0, <1>1
<1>4. ASSUME NEW x \in Sizables, NEW p \in Sizables
      PROVE  x \in Kids(children', content')[p] <=> np[x] = p
  <2>1. x \in Kids(children, content)[p] <=> parent[x] = p
    BY KidsParent
  <2>2. CASE p = f
    <3>1. Kids(children', content')[f] = {l} /\ Kids(children, content)[f] = {}
      BY <1>1, <1>2, TreeAssumption DEF Kids
    <3> QED
      BY <1>0, <2>1, <2>2, <3>1, <1>1
  <2>3. CASE p # f
    <3>1. Kids(children', content')[p] = Kids(children, content)[p]
      BY <1>2, <2>3 DEF Kids
    <3>2. parent[l] # p
      BY <1>1, TreeAssumption
    <3> QED
      BY <1>0, <2>1, <2>3, <3>1, <3>2
  <2> QED
    BY <2>2, <2>3
<1>5. children' \in [Layouts -> SUBSET Sizables] /\ content' \in [Holders -> Layouts \union {None}]
      /\ window[f] \in BOOLEAN /\ alive' \subseteq Sizables /\ roots' \subseteq Layouts
  BY <1>1, <1>2
<1>6. l \in Visited(l, window[f], children', content')
  BY <1>5, VisitedType
<1>7. \A x \in Sizables : x \notin Visited(l, window[f], children', content') => np[x] = parent[x]
  BY <1>0, <1>6
<1>8. \A m \in roots' : np[m] = None
  BY <1>0, <1>1, <1>2 DEF RootsTop, Sizables
<1> HIDE DEF TreeInv, CoreTypeOK
<1>9. TreeInv' /\ parent' = np
  <2>1. PICK win, above : win = window[f] /\ above = f
    OBVIOUS
  <2>2. /\ win \in BOOLEAN /\ np[l] = above
        /\ Synchronize(l, above, win, children', content')
        /\ \A x \in Sizables : x \notin Visited(l, win, children', content') => np[x] = parent[x]
    BY <2>1, <1>2, <1>3, <1>5, <1>7
  <2>3. \A x, p \in Sizables : x \in Kids(children', content')[p] <=> np[x] = p
    BY <1>4
  <2> QED
    BY <1>3, <1>5, <1>8, <2>2, <2>3, SynchronizeTree
<1> QED
  BY <1>0, <1>9

\* Removing a child keeps the tree, with s below nobody.
LEMMA RemoveTree ==
  ASSUME TreeInv, NEW l \in Layouts, NEW s \in Sizables, Remove(l, s)
  PROVE  TreeInv' /\ parent' = [parent EXCEPT ![s] = None]
<1> USE DEF TreeInv, CoreTypeOK
<1>1. /\ children' = [children EXCEPT ![l] = @ \ {s}]
      /\ registered' = registered \ Dismissed(l, {s})
      /\ window' = [x \in Sizables |-> window[x] /\ x \notin {s} \union Dismissed(l, {s})]
      /\ parent' = [x \in Sizables |-> IF x \in {s} THEN None ELSE parent[x]]
      /\ alive' = alive /\ content' = content /\ roots' = roots
      /\ s \in children[l]
  BY DEF Remove, Detach
<1>2. parent[s] = l /\ l # None
  BY <1>1, TreeAssumption DEF Listed, Sizables
<1>3. parent' = [parent EXCEPT ![s] = None]
  BY <1>1
<1>4. CoreTypeOK'
  BY <1>1
<1>5. Listed'
  BY <1>1, <1>2, TreeAssumption DEF Listed, Sizables
<1>6. ContentAgree'
  <2>1. ASSUME NEW f \in Holders PROVE f # l /\ f # None
    BY TreeAssumption DEF Widgets, Sizables
  <2> QED
    BY <1>1, <1>2, <2>1 DEF ContentAgree
<1>7. RootsTop'
  BY <1>1 DEF RootsTop, Sizables
<1> QED
  BY <1>3, <1>4, <1>5, <1>6, <1>7

\* Destroying a layout keeps the tree, with l and its children below nobody.
LEMMA DestroyLayoutTree ==
  ASSUME TreeInv, NEW l \in Layouts, DestroyLayout(l)
  PROVE  /\ TreeInv'
         /\ parent' = [x \in Sizables |->
                         IF x \in children[l] \union {l} THEN None ELSE parent[x]]
<1> USE DEF TreeInv, CoreTypeOK
<1>1. /\ children' = [m \in Layouts |-> IF m = l THEN {} ELSE children[m] \ {l}]
      /\ registered' = registered \ Dismissed(l, children[l])
      /\ window' = [x \in Sizables |->
            window[x] /\ x \notin (children[l] \union {l}) \union Dismissed(l, children[l])]
      /\ parent' = [x \in Sizables |->
                      IF x \in children[l] \union {l} THEN None ELSE parent[x]]
      /\ alive' = alive \ {l} /\ content' = content /\ roots' = roots \ {l}
      /\ parent[l] \notin Holders
  BY DEF DestroyLayout, Detach
<1>2. CoreTypeOK'
  BY <1>1
<1>3. Listed'
  <2> SUFFICES ASSUME NEW m \in Layouts, NEW x \in Sizables
               PROVE  x \in children'[m] <=> parent'[x] = m
    BY DEF Listed
  <2>1. m # None /\ (x \in children[m] <=> parent[x] = m)
        /\ (x \in children[l] <=> parent[x] = l)
    BY TreeAssumption DEF Listed, Sizables
  <2> QED
    BY <1>1, <2>1
<1>4. ContentAgree'
  <2> SUFFICES ASSUME NEW f \in Holders, NEW x \in Sizables
               PROVE  content'[f] = x <=> parent'[x] = f
    BY DEF ContentAgree
  <2>1. f # l /\ f # None /\ (content[f] = x <=> parent[x] = f)
        /\ (x \in children[l] <=> parent[x] = l)
    BY TreeAssumption DEF Widgets, Sizables, ContentAgree, Listed
  <2> QED
    BY <1>1, <2>1
<1>5. RootsTop'
  BY <1>1 DEF RootsTop, Sizables
<1> QED
  BY <1>1, <1>2, <1>3, <1>4, <1>5

\* Destroying a widget keeps the tree, with x below nobody.
LEMMA DestroyWidgetTree ==
  ASSUME TreeInv, NEW x \in Plain, DestroyWidget(x)
  PROVE  TreeInv' /\ parent' = [parent EXCEPT ![x] = None]
<1> USE DEF TreeInv, CoreTypeOK
<1>1. /\ children' = [l \in Layouts |-> children[l] \ {x}]
      /\ parent' = [parent EXCEPT ![x] = None]
      /\ window' = [window EXCEPT ![x] = FALSE]
      /\ alive' = alive \ {x} /\ content' = content /\ roots' = roots
      /\ registered' = registered
  BY DEF DestroyWidget
<1>2. x \in Sizables /\ x \notin Layouts
  BY TreeAssumption DEF Sizables, Widgets
<1>3. CoreTypeOK'
  BY <1>1, <1>2
<1>4. Listed'
  BY <1>1, <1>2, TreeAssumption DEF Listed, Sizables
<1>5. ContentAgree'
  <2> SUFFICES ASSUME NEW f \in Holders, NEW k \in Sizables
               PROVE  content'[f] = k <=> parent'[k] = f
    BY DEF ContentAgree
  <2>1. f # None /\ (content[f] = k <=> parent[k] = f) /\ content[f] # x
    BY <1>2, TreeAssumption DEF Widgets, Sizables, ContentAgree
  <2> QED
    BY <1>1, <1>2, <2>1
<1>6. RootsTop'
  BY <1>1 DEF RootsTop, Sizables
<1> QED
  BY <1>1, <1>3, <1>4, <1>5, <1>6

\* Every step keeps the tree, as long as each sizable is held in one place.
LEMMA TreeStep == single' /\ TreeInv /\ [Next]_vars => TreeInv'
<1> SUFFICES ASSUME single', TreeInv, [Next]_vars PROVE TreeInv'
  OBVIOUS
<1>1. ASSUME NEW l \in Layouts, WindowRemove(l) PROVE TreeInv'
  BY <1>1 DEF WindowRemove, TreeInv, CoreTypeOK, Listed, ContentAgree, RootsTop
<1>2. ASSUME NEW x \in Plain, NewWidget(x) PROVE TreeInv'
  BY <1>2 DEF NewWidget, TreeInv, CoreTypeOK, Listed, ContentAgree, RootsTop,
              Sizables, Widgets
<1>3. ASSUME NEW s \in Sizables, NEW v \in BOOLEAN, SetVisible(s, v) PROVE TreeInv'
  BY <1>3 DEF SetVisible, core, TreeInv, CoreTypeOK, Listed, ContentAgree, RootsTop
<1>4. CASE UNCHANGED vars
  BY <1>4 DEF vars, core, TreeInv, CoreTypeOK, Listed, ContentAgree, RootsTop
<1> QED
  BY <1>1, <1>2, <1>3, <1>4, WindowAppendTree, AppendTree, SetLayoutTree, RemoveTree,
     DestroyLayoutTree, DestroyWidgetTree DEF Next

\* The initial tree is empty.
LEMMA TreeInit == Init => TreeInv
<1> SUFFICES ASSUME Init PROVE TreeInv
  OBVIOUS
<1>1. None \notin Layouts /\ None \notin Holders /\ None \notin Sizables
  BY TreeAssumption DEF Sizables, Widgets
<1> QED
  BY <1>1 DEF Init, TreeInv, CoreTypeOK, Listed, ContentAgree, RootsTop

\* What the histories are: booleans, and a tidy program holds each sizable in
\* one place.
Kept == single \in BOOLEAN /\ tidy \in BOOLEAN /\ (tidy => single)

LEMMA KeptInit == Init => Kept
BY DEF Init, Kept

\* A step notes a rule of both histories, or one of tidiness, or none.
RuleNoted ==
    \/ \E r \in BOOLEAN : single' = (single /\ r) /\ tidy' = (tidy /\ r)
    \/ \E r \in BOOLEAN : single' = single /\ tidy' = (tidy /\ r)
    \/ single' = single /\ tidy' = tidy

LEMMA KeptEffect == [Next]_vars => RuleNoted
<1> SUFFICES ASSUME [Next]_vars PROVE RuleNoted
  OBVIOUS
<1>1. ASSUME NEW l \in Layouts, WindowAppend(l) PROVE RuleNoted
  <2>1. Free(l) \in BOOLEAN
    BY DEF Free
  <2> QED
    BY <1>1, <2>1 DEF RuleNoted, WindowAppend, Noted
<1>2. ASSUME NEW l \in Layouts, WindowRemove(l) PROVE RuleNoted
  BY <1>2 DEF RuleNoted, WindowRemove
<1>3. ASSUME NEW l \in Layouts, DestroyLayout(l) PROVE RuleNoted
  <2>1. single' = single /\ \E r \in BOOLEAN : tidy' = (tidy /\ r)
    BY <1>3 DEF DestroyLayout
  <2> QED
    BY <2>1 DEF RuleNoted
<1>4. ASSUME NEW l \in Layouts, NEW s \in Sizables, Append(l, s) PROVE RuleNoted
  <2>1. Free(s) \in BOOLEAN
    BY DEF Free
  <2> QED
    BY <1>4, <2>1 DEF RuleNoted, Append, Noted
<1>5. ASSUME NEW l \in Layouts, NEW s \in Sizables, Remove(l, s) PROVE RuleNoted
  <2>1. Emptied(l, s) \in BOOLEAN
    BY DEF Emptied
  <2> QED
    BY <1>5, <2>1 DEF RuleNoted, Remove
<1>6. ASSUME NEW f \in Holders, NEW l \in Layouts, SetLayout(f, l) PROVE RuleNoted
  <2>1. \E r \in BOOLEAN : Noted(r)
    BY <1>6 DEF SetLayout, Free
  <2> QED
    BY <2>1 DEF RuleNoted, Noted
<1>7. ASSUME NEW x \in Plain, DestroyWidget(x) PROVE RuleNoted
  <2>1. single' = single /\ \E r \in BOOLEAN : tidy' = (tidy /\ r)
    BY <1>7 DEF DestroyWidget
  <2> QED
    BY <2>1 DEF RuleNoted
<1>8. ASSUME NEW x \in Plain, NewWidget(x) PROVE RuleNoted
  BY <1>8 DEF RuleNoted, NewWidget
<1>9. ASSUME NEW s \in Sizables, NEW v \in BOOLEAN, SetVisible(s, v) PROVE RuleNoted
  BY <1>9 DEF RuleNoted, SetVisible
<1>10. CASE UNCHANGED vars
  BY <1>10 DEF RuleNoted, vars
<1> QED
  BY <1>1, <1>2, <1>3, <1>4, <1>5, <1>6, <1>7, <1>8, <1>9, <1>10 DEF Next

\* A program that keeps a rule up to a step kept it before.
LEMMA KeptStep ==
  Kept /\ [Next]_vars => Kept' /\ (tidy' => tidy /\ single') /\ (single' => single)
BY KeptEffect DEF Kept, RuleNoted

\* Children and parents agree for every program that puts a sizable in one
\* place at a time, whatever it takes out and destroys.
THEOREM ParentsAgreeHolds == Spec => []ParentsAgree
<1> DEFINE Inv == Kept /\ (single => TreeInv)
<1>1. Init => Inv
  BY TreeInit, KeptInit
<1>2. Inv /\ [Next]_vars => Inv'
  BY TreeStep, KeptStep
<1>3. Inv => ParentsAgree
  BY DEF TreeInv, ParentsAgree
<1> QED
  BY <1>1, <1>2, <1>3, PTL DEF Spec

-----------------------------------------------------------------------------
\* A parent HWND is the window's or that of a TabFrame.
LEMMA NearestHostType ==
  ASSUME NEW par, NEW x \in Widgets
  PROVE  NearestHost(par, x) \in Hosts
<1> DEFINE tabs == (Ancestors(par, x) \ {x}) \intersect TabFrames
           nearest == {t \in tabs : tabs \subseteq Ancestors(par, t)}
<1>1. nearest # {} => (CHOOSE t \in nearest : TRUE) \in nearest
  OBVIOUS
<1>2. nearest \subseteq TabFrames
  OBVIOUS
<1>3. NearestHost(par, x) = IF nearest = {} THEN TheWindow ELSE CHOOSE t \in nearest : TRUE
  BY DEF NearestHost
<1> HIDE DEF nearest
<1> QED
  BY <1>1, <1>2, <1>3 DEF Hosts

\* Re-creating natives keeps their types.
LEMMA OrphanType ==
  ASSUME NEW X, NEW par, NEW hst \in [Widgets -> Hosts], NEW ch, NEW ct,
         Orphan(X, par, hst, ch, ct)
  PROVE  NativeTypeOK'
<1>1. host' \in [Widgets -> Hosts]
  BY DEF Orphan, Hosts
<1>2. made' \in [Widgets -> BOOLEAN]
  BY DEF Orphan
<1>3. visible' \in [Sizables -> BOOLEAN]
  BY DEF Orphan
<1>4. shown' \in [Widgets -> BOOLEAN]
  BY Zenon DEF Orphan
<1> QED
  BY <1>1, <1>2, <1>3, <1>4 DEF NativeTypeOK

\* synchronizeLayout keeps the types of the natives.
LEMMA SynchronizeType ==
  ASSUME NativeTypeOK, NEW l, NEW above, NEW win, NEW ch, NEW ct,
         Synchronize(l, above, win, ch, ct)
  PROVE  NativeTypeOK'
<1>1. PICK new, par :
         Orphan(new, par,
                [x \in Widgets |-> IF x \in new THEN NearestHost(par, x) ELSE host[x]],
                ch, ct)
  BY DEF Synchronize
<1> DEFINE hst == [x \in Widgets |-> IF x \in new THEN NearestHost(par, x) ELSE host[x]]
<1>2. hst \in [Widgets -> Hosts]
  BY NearestHostType DEF NativeTypeOK
<1>3. Orphan(new, par, hst, ch, ct)
  BY <1>1
<1> HIDE DEF hst
<1> QED
  BY <1>2, <1>3, OrphanType

\* Every step keeps the types of the natives.
LEMMA NativeStep == NativeTypeOK /\ [Next]_vars => NativeTypeOK'
<1> SUFFICES ASSUME NativeTypeOK, [Next]_vars PROVE NativeTypeOK'
  OBVIOUS
<1>1. ASSUME NEW l \in Layouts, WindowAppend(l) PROVE NativeTypeOK'
  BY <1>1, SynchronizeType DEF WindowAppend
<1>2. ASSUME NEW l \in Layouts, WindowRemove(l) PROVE NativeTypeOK'
  BY <1>2 DEF WindowRemove, native, NativeTypeOK
<1>3. ASSUME NEW l \in Layouts, DestroyLayout(l) PROVE NativeTypeOK'
  BY <1>3, OrphanType DEF DestroyLayout, Detach, NativeTypeOK
<1>4. ASSUME NEW l \in Layouts, NEW s \in Sizables, Append(l, s) PROVE NativeTypeOK'
  BY <1>4, SynchronizeType DEF Append
<1>5. ASSUME NEW l \in Layouts, NEW s \in Sizables, Remove(l, s) PROVE NativeTypeOK'
  BY <1>5, OrphanType DEF Remove, Detach, NativeTypeOK
<1>6. ASSUME NEW f \in Holders, NEW l \in Layouts, SetLayout(f, l) PROVE NativeTypeOK'
  BY <1>6, SynchronizeType DEF SetLayout
<1>7. ASSUME NEW x \in Plain, DestroyWidget(x) PROVE NativeTypeOK'
  BY <1>7 DEF DestroyWidget, NativeTypeOK
<1>8. ASSUME NEW x \in Plain, NewWidget(x) PROVE NativeTypeOK'
  BY <1>8 DEF NewWidget, NativeTypeOK, Hosts, Widgets, Sizables
<1>9. ASSUME NEW s \in Sizables, NEW v \in BOOLEAN, SetVisible(s, v) PROVE NativeTypeOK'
  <2>1. visible' \in [Sizables -> BOOLEAN] /\ made' = made /\ host' = host
    BY <1>9 DEF SetVisible, NativeTypeOK
  <2>2. shown' = [x \in Widgets |->
         IF x \in Closure(Kids(children, content), {s})
         THEN made[x] /\ parent[x] # None /\ VisibleToAll(parent, visible', x)
         ELSE shown[x]]
    BY <1>9 DEF SetVisible
  <2>3. \A x \in Widgets : made[x] \in BOOLEAN /\ shown[x] \in BOOLEAN
    BY DEF NativeTypeOK
  <2>4. \A x \in Widgets : shown'[x] \in BOOLEAN
    BY <2>2, <2>3, Zenon
  <2> QED
    BY <2>1, <2>2, <2>4 DEF NativeTypeOK
<1>10. CASE UNCHANGED vars
  BY <1>10 DEF vars, native, NativeTypeOK
<1> QED
  BY <1>1, <1>2, <1>3, <1>4, <1>5, <1>6, <1>7, <1>8, <1>9, <1>10 DEF Next

\* synchronizeLayout keeps the types of the tree, whoever lists what.
LEMMA SynchronizeCore ==
  ASSUME CoreTypeOK, NEW l \in Layouts, NEW above \in Layouts \union Holders \union {None},
         NEW win, win \in BOOLEAN,
         children' \in [Layouts -> SUBSET Sizables],
         content' \in [Holders -> Layouts \union {None}],
         alive' \subseteq Sizables, roots' \subseteq Layouts,
         Synchronize(l, above, win, children', content')
  PROVE  CoreTypeOK'
<1> DEFINE visited == Visited(l, win, children', content')
           lister(s) == Lister(s, visited, children', content')
<1>1. /\ parent' = [s \in Sizables |->
                IF s = l THEN above ELSE IF s \in visited THEN lister(s) ELSE parent[s]]
      /\ window' = [s \in Sizables |-> IF s \in visited THEN win ELSE window[s]]
      /\ registered' = registered \union
            (IF win THEN (visited \intersect Widgets) \ registered ELSE {})
  BY DEF Synchronize
<1>2. ASSUME NEW s \in visited, s # l PROVE lister(s) \in Layouts \union Holders
  <2>1. visited \subseteq Sizables /\ \E p \in visited : s \in Kids(children', content')[p]
    BY <1>2, VisitedType
  <2> HIDE DEF visited
  <2>2. lister(s) \in Sizables /\ s \in Kids(children', content')[lister(s)]
    BY <2>1, ListerLists
  <2> HIDE DEF lister
  <2> QED
    BY <2>2 DEF Kids
<1> HIDE DEF lister, visited
<1> QED
  BY <1>1, <1>2 DEF CoreTypeOK

\* Letting go keeps the types of the tree.
LEMMA DetachCore ==
  ASSUME CoreTypeOK, NEW S, NEW out, Detach(S, out),
         children' \in [Layouts -> SUBSET Sizables], content' = content,
         alive' \subseteq alive, roots' \subseteq roots
  PROVE  CoreTypeOK'
<1>1. /\ registered' = registered \ out
      /\ window' = [s \in Sizables |-> window[s] /\ s \notin S \union out]
      /\ parent' = [s \in Sizables |-> IF s \in S THEN None ELSE parent[s]]
  BY DEF Detach
<1> QED
  BY <1>1 DEF CoreTypeOK

\* Every step keeps the types of the tree, misuse or not.
LEMMA CoreStep == CoreTypeOK /\ [Next]_vars => CoreTypeOK'
<1> SUFFICES ASSUME CoreTypeOK, [Next]_vars PROVE CoreTypeOK'
  OBVIOUS
<1>1. ASSUME NEW l \in Layouts, WindowAppend(l) PROVE CoreTypeOK'
  <2>1. PICK win, above : win = TRUE /\ above = None
    OBVIOUS
  <2>2. Synchronize(l, above, win, children', content')
    BY <1>1, <2>1 DEF WindowAppend
  <2> QED
    BY <1>1, <2>1, <2>2, SynchronizeCore DEF WindowAppend, CoreTypeOK
<1>2. ASSUME NEW l \in Layouts, WindowRemove(l) PROVE CoreTypeOK'
  BY <1>2 DEF WindowRemove, CoreTypeOK
<1>3. ASSUME NEW l \in Layouts, DestroyLayout(l) PROVE CoreTypeOK'
  BY <1>3, DetachCore DEF DestroyLayout, CoreTypeOK
<1>4. ASSUME NEW l \in Layouts, NEW s \in Sizables, Append(l, s) PROVE CoreTypeOK'
  <2>1. PICK win, above : win = window[l] /\ above = parent[l]
    OBVIOUS
  <2>2. Synchronize(l, above, win, children', content')
    BY <1>4, <2>1 DEF Append
  <2>3. win \in BOOLEAN /\ above \in Layouts \union Holders \union {None}
    BY <2>1 DEF CoreTypeOK, Sizables
  <2>4. /\ children' = [children EXCEPT ![l] = @ \union {s}]
        /\ alive' = alive /\ content' = content /\ roots' = roots
    BY <1>4 DEF Append
  <2>5. /\ children' \in [Layouts -> SUBSET Sizables]
        /\ content' \in [Holders -> Layouts \union {None}]
        /\ alive' \subseteq Sizables /\ roots' \subseteq Layouts
    BY <2>4 DEF CoreTypeOK
  <2> QED
    BY <2>2, <2>3, <2>5, SynchronizeCore
<1>5. ASSUME NEW l \in Layouts, NEW s \in Sizables, Remove(l, s) PROVE CoreTypeOK'
  BY <1>5, DetachCore DEF Remove, CoreTypeOK
<1>6. ASSUME NEW f \in Holders, NEW l \in Layouts, SetLayout(f, l) PROVE CoreTypeOK'
  <2>1. PICK win, above : win = window[f] /\ above = f
    OBVIOUS
  <2>2. Synchronize(l, above, win, children', content')
    BY <1>6, <2>1 DEF SetLayout
  <2>3. win \in BOOLEAN /\ above \in Layouts \union Holders \union {None}
    BY <2>1 DEF CoreTypeOK, Sizables, Widgets
  <2> QED
    BY <1>6, <2>2, <2>3, SynchronizeCore DEF SetLayout, CoreTypeOK
<1>7. ASSUME NEW x \in Plain, DestroyWidget(x) PROVE CoreTypeOK'
  BY <1>7 DEF DestroyWidget, CoreTypeOK
<1>8. ASSUME NEW x \in Plain, NewWidget(x) PROVE CoreTypeOK'
  BY <1>8 DEF NewWidget, CoreTypeOK, Sizables, Widgets
<1>9. ASSUME NEW s \in Sizables, NEW v \in BOOLEAN, SetVisible(s, v) PROVE CoreTypeOK'
  BY <1>9 DEF SetVisible, core, CoreTypeOK
<1>10. CASE UNCHANGED vars
  BY <1>10 DEF vars, core, CoreTypeOK
<1> QED
  BY <1>1, <1>2, <1>3, <1>4, <1>5, <1>6, <1>7, <1>8, <1>9, <1>10 DEF Next

\* The variables have their types, whatever clients do.
THEOREM TreeTypeCorrect == Spec => []TypeOK
<1> DEFINE Inv == CoreTypeOK /\ NativeTypeOK /\ Kept
<1>1. Init => Inv
  BY KeptInit, TreeInit DEF Init, NativeTypeOK, Hosts, TreeInv
<1>2. Inv /\ [Next]_vars => Inv'
  BY CoreStep, NativeStep, KeptStep
<1>3. Inv => TypeOK
  BY TypeParts DEF Kept
<1> QED
  BY <1>1, <1>2, <1>3, PTL DEF Spec

-----------------------------------------------------------------------------
\* The inductive invariant of tidy clients.
TidyInv == TreeInv /\ Inherited /\ Flat

\* Outside the window, synchronizeLayout visits only what is outside.
LEMMA SynchronizeOut ==
  ASSUME NEW ch \in [Layouts -> SUBSET Sizables],
         NEW ct \in [Holders -> Layouts \union {None}],
         NEW l \in Layouts, ~window[l],
         \A p \in Layouts, x \in Sizables : x \in ch[p] /\ ~window[p] => ~window[x]
  PROVE  \A x \in Visited(l, FALSE, ch, ct) : ~window[x]
<1> DEFINE kids == [s \in Sizables |->
                      IF s \in Layouts \/ (FALSE /\ s \notin registered)
                      THEN Kids(ch, ct)[s] ELSE {}]
           S == {x \in Sizables : ~window[x]}
<1>1. DOMAIN kids = Sizables
  OBVIOUS
<1>2. ASSUME NEW y \in S PROVE kids[y] \subseteq S
  <2>1. CASE y \in Layouts
    <3>1. kids[y] = ch[y]
      BY <2>1 DEF Kids, Sizables
    <3> QED
      BY <2>1, <3>1
  <2>2. CASE y \notin Layouts
    BY <2>2
  <2> QED
    BY <2>1, <2>2
<1>3. {l} \subseteq S
  BY DEF Sizables
<1>4. S \in Closed(kids, {l})
  BY <1>1, <1>2, <1>3 DEF Closed
<1>5. Visited(l, FALSE, ch, ct) = Closure(kids, {l})
  BY DEF Visited
<1> HIDE DEF kids
<1> QED
  BY <1>4, <1>5, ClosureLeast

\* synchronizeLayout of l after m, till then outside the window, was put at
\* or right below l, keeps the window's membership and its list right.
LEMMA SynchronizeWindow ==
  ASSUME TidyInv,
         NEW l \in Layouts, NEW above, NEW win, win \in BOOLEAN,
         NEW np \in [Sizables -> Layouts \union Holders \union {None}],
         children' \in [Layouts -> SUBSET Sizables],
         content' \in [Holders -> Layouts \union {None}],
         \A s, p \in Sizables : s \in Kids(children', content')[p] <=> np[s] = p,
         np[l] = above,
         Synchronize(l, above, win, children', content'),
         NEW m \in Sizables, ~window[m], l = m \/ np[m] = l,
         \A x \in Sizables : x # m => np[x] = parent[x],
         l = m \/ (window[l] <=> win),
         win <=> IF above # None THEN window[above] ELSE l \in roots',
         \A x \in Sizables : x # l => (x \in roots' <=> x \in roots)
  PROVE  Inherited' /\ Flat'
<1> DEFINE visited == Visited(l, win, children', content')
<1>1. /\ visited \subseteq Sizables /\ l \in visited
      /\ \A p \in visited, x \in Sizables :
           (p \in Layouts \/ (win /\ p \notin registered)) /\ x \in Kids(children', content')[p]
           => x \in visited
      /\ \A x \in visited : x # l => \E p \in visited : x \in Kids(children', content')[p]
  BY VisitedType
<1>2. m \in visited /\ l \in Sizables
  <2>1. l \in Sizables
    BY DEF Sizables
  <2>2. np[m] = l => m \in visited
    BY <1>1, <2>1
  <2> QED
    BY <1>1, <2>1, <2>2
<1>3. /\ parent' = np
      /\ window' = [s \in Sizables |-> IF s \in visited THEN win ELSE window[s]]
      /\ registered' = registered \union (IF win THEN visited \intersect Widgets ELSE {})
  <2>1. \A x \in Sizables : x \notin visited => np[x] = parent[x]
    BY <1>2
  <2> QED
    BY <2>1, SynchronizeEffect DEF TidyInv, TreeInv, CoreTypeOK
<1>4. Layouts \union Holders \subseteq Sizables /\ None \notin Sizables
  BY TreeAssumption DEF Sizables, Widgets
<1>5. /\ \A x \in Sizables : window[x] <=> IF parent[x] # None THEN window[parent[x]]
                                            ELSE x \in roots
      /\ \A x \in Widgets : x \in registered <=> window[x]
      /\ registered \subseteq Widgets
      /\ window \in [Sizables -> BOOLEAN]
  BY DEF TidyInv, TreeInv, CoreTypeOK, Inherited, Flat
<1> HIDE DEF visited
<1>6. CASE win
  <2>1. ASSUME NEW x \in Sizables
        PROVE  window'[x] <=> IF np[x] # None THEN window'[np[x]] ELSE x \in roots'
    <3>1. CASE x = l
      <4>1. window'[l]
        BY <1>1, <1>2, <1>3, <1>6
      <4>2. CASE above # None
        <5>1. above \in Sizables /\ window[above]
          BY <1>4, <1>6, <4>2, <1>2
        <5> QED
          BY <1>3, <1>6, <3>1, <4>1, <5>1, <4>2
      <4>3. CASE above = None
        BY <1>6, <3>1, <4>1, <4>3
      <4> QED
        BY <4>2, <4>3
    <3>2. CASE x # l /\ x \in visited
      <4>1. PICK p \in visited : x \in Kids(children', content')[p]
        BY <1>1, <3>2
      <4>2. np[x] = p /\ p \in Sizables /\ p # None
        BY <1>1, <1>4, <4>1
      <4> QED
        BY <1>3, <1>6, <3>2, <4>1, <4>2
    <3>3. CASE x \notin visited
      <4>1. np[x] = parent[x] /\ x # l /\ x # m /\ (window'[x] <=> window[x])
        BY <1>1, <1>2, <1>3, <3>3
      <4>2. CASE parent[x] = None
        BY <1>5, <4>1, <4>2
      <4>3. CASE parent[x] # None /\ parent[x] \notin visited
        <5>1. parent[x] \in Sizables
          BY <1>4, <4>1, <4>3
        <5> QED
          BY <1>3, <1>5, <4>1, <4>3, <5>1
      <4>4. CASE parent[x] # None /\ parent[x] \in visited
        <5>1. parent[x] \in Sizables /\ x \in Kids(children', content')[parent[x]]
          BY <1>1, <4>1, <4>4
        <5>2. parent[x] \in registered
          BY <1>1, <1>6, <3>3, <4>4, <5>1
        <5>3. window[parent[x]] /\ window[x]
          BY <1>5, <4>4, <5>2
        <5> QED
          BY <1>3, <1>6, <4>1, <4>4, <5>1, <5>3
      <4> QED
        BY <4>2, <4>3, <4>4
    <3> QED
      BY <3>1, <3>2, <3>3
  <2>2. \A x \in Widgets : x \in registered' <=> window'[x]
    BY <1>3, <1>5, <1>6 DEF Sizables
  <2> QED
    BY <1>3, <1>5, <2>1, <2>2 DEF Inherited, Flat
<1>7. CASE ~win
  <2>1. win = FALSE
    BY <1>7
  <2>2. ~window[l]
    BY <1>7
  <2>3. \A p \in Layouts, x \in Sizables : x \in children'[p] /\ ~window[p] => ~window[x]
    <3> SUFFICES ASSUME NEW p \in Layouts, NEW x \in Sizables, x \in children'[p], ~window[p]
                 PROVE  ~window[x]
      OBVIOUS
    <3>1. np[x] = p /\ p # None
      BY <1>4, KidsAgree
    <3>2. CASE x = m
      BY <3>2
    <3>3. CASE x # m
      BY <1>5, <3>1, <3>3
    <3> QED
      BY <3>2, <3>3
  <2>4. \A x \in visited : ~window[x]
    BY <2>1, <2>2, <2>3, SynchronizeOut DEF visited
  <2>5. registered' = registered /\ \A x \in Sizables : window'[x] <=> window[x]
    BY <1>3, <1>7, <2>4
  <2>6. ASSUME NEW x \in Sizables
        PROVE  window'[x] <=> IF np[x] # None THEN window'[np[x]] ELSE x \in roots'
    <3>1. np[x] # None => np[x] \in Sizables
      BY <1>4
    <3>2. CASE x = l
      BY <1>7, <2>2, <2>5, <3>1, <3>2
    <3>3. CASE x # l /\ x = m
      BY <1>2, <1>4, <2>2, <2>5, <3>3
    <3>4. CASE x # l /\ x # m
      BY <1>5, <2>5, <3>1, <3>4
    <3> QED
      BY <3>2, <3>3, <3>4
  <2> QED
    BY <1>3, <1>5, <2>5, <2>6 DEF Inherited, Flat, Sizables
<1> QED
  BY <1>6, <1>7

\* Appending a layout to the window keeps its membership right.
LEMMA WindowAppendTidy ==
  ASSUME single', TidyInv, NEW l \in Layouts, WindowAppend(l)
  PROVE  Inherited' /\ Flat'
<1>1. /\ parent[l] = None /\ l \notin roots /\ children' = children /\ content' = content
      /\ roots' = roots \union {l} /\ Synchronize(l, None, TRUE, children', content')
      /\ l \in Sizables
  BY DEF WindowAppend, Noted, Free, Sizables
<1>2. ~window[l]
  BY <1>1 DEF TidyInv, Inherited
<1>3. PICK np, win, above : np = parent /\ win = TRUE /\ above = None
  OBVIOUS
<1>4. /\ np \in [Sizables -> Layouts \union Holders \union {None}]
      /\ children' \in [Layouts -> SUBSET Sizables]
      /\ content' \in [Holders -> Layouts \union {None}]
  BY <1>1, <1>3 DEF TidyInv, TreeInv, CoreTypeOK
<1>5. \A x, p \in Sizables : x \in Kids(children', content')[p] <=> np[x] = p
  BY <1>1, <1>3, KidsParent DEF TidyInv
<1>6. win \in BOOLEAN /\ np[l] = above /\ Synchronize(l, above, win, children', content')
  BY <1>1, <1>3
<1>7. \A x \in Sizables : x # l => np[x] = parent[x] /\ (x \in roots' <=> x \in roots)
  BY <1>1, <1>3
<1>8. win <=> IF above # None THEN window[above] ELSE l \in roots'
  BY <1>1, <1>3
<1> QED
  BY <1>1, <1>2, <1>4, <1>5, <1>6, <1>7, <1>8, SynchronizeWindow

\* Appending to a layout keeps the window's membership right.
LEMMA AppendTidy ==
  ASSUME single', TidyInv, NEW l \in Layouts, NEW s \in Sizables, Append(l, s)
  PROVE  Inherited' /\ Flat'
<1>1. /\ parent[s] = None /\ s \notin roots /\ s # l /\ l \in Sizables
      /\ children' = [children EXCEPT ![l] = @ \union {s}] /\ content' = content
      /\ roots' = roots /\ Synchronize(l, parent[l], window[l], children', content')
  <2>1. {l} \subseteq Sizables
    BY DEF Sizables
  <2>2. l \in Ancestors(parent, l)
    BY <2>1, ClosureSeed DEF Ancestors
  <2> QED
    BY <2>1, <2>2 DEF Append, Noted, Free
<1>2. ~window[s]
  BY <1>1 DEF TidyInv, Inherited
<1>3. PICK np, win, above :
        np = [parent EXCEPT ![s] = l] /\ win = window[l] /\ above = parent[l]
  OBVIOUS
<1>4. TreeInv' /\ parent' = np
  BY <1>3, AppendTree DEF TidyInv
<1>5. /\ np \in [Sizables -> Layouts \union Holders \union {None}]
      /\ children' \in [Layouts -> SUBSET Sizables]
      /\ content' \in [Holders -> Layouts \union {None}]
  BY <1>4 DEF TreeInv, CoreTypeOK
<1>6. \A x, p \in Sizables : x \in Kids(children', content')[p] <=> np[x] = p
  BY <1>4, KidsParentNext
<1>7. /\ win \in BOOLEAN /\ np[l] = above /\ np[s] = l
      /\ Synchronize(l, above, win, children', content')
      /\ \A x \in Sizables : x # s => np[x] = parent[x]
  BY <1>1, <1>3 DEF TidyInv, TreeInv, CoreTypeOK
<1>8. win <=> IF above # None THEN window[above] ELSE l \in roots'
  BY <1>1, <1>3 DEF TidyInv, Inherited
<1>9. /\ l = s \/ np[s] = l
      /\ l = s \/ (window[l] <=> win)
      /\ \A x \in Sizables : x # l => (x \in roots' <=> x \in roots)
  BY <1>1, <1>3, <1>7
<1> QED
  BY <1>2, <1>5, <1>6, <1>7, <1>8, <1>9, SynchronizeWindow

\* Giving a holder its content keeps the window's membership right.
LEMMA SetLayoutTidy ==
  ASSUME single', TidyInv, NEW f \in Holders, NEW l \in Layouts, SetLayout(f, l)
  PROVE  Inherited' /\ Flat'
<1>1. /\ parent[l] = None /\ l \notin roots /\ l \in Sizables
      /\ f \in Sizables /\ f # None /\ roots' = roots
      /\ Synchronize(l, f, window[f], children', content')
  BY TreeAssumption DEF SetLayout, Noted, Free, Sizables, Widgets
<1>2. ~window[l]
  BY <1>1 DEF TidyInv, Inherited
<1>3. PICK np, win, above :
        np = [parent EXCEPT ![l] = f] /\ win = window[f] /\ above = f
  OBVIOUS
<1>4. TreeInv' /\ parent' = np
  BY <1>3, SetLayoutTree DEF TidyInv
<1>5. /\ np \in [Sizables -> Layouts \union Holders \union {None}]
      /\ children' \in [Layouts -> SUBSET Sizables]
      /\ content' \in [Holders -> Layouts \union {None}]
  BY <1>4 DEF TreeInv, CoreTypeOK
<1>6. \A x, p \in Sizables : x \in Kids(children', content')[p] <=> np[x] = p
  BY <1>4, KidsParentNext
<1>7. /\ win \in BOOLEAN /\ np[l] = above
      /\ Synchronize(l, above, win, children', content')
      /\ \A x \in Sizables : x # l => np[x] = parent[x]
  BY <1>1, <1>3 DEF TidyInv, TreeInv, CoreTypeOK
<1>8. win <=> IF above # None THEN window[above] ELSE l \in roots'
  BY <1>1, <1>3
<1> QED
  BY <1>1, <1>2, <1>5, <1>6, <1>7, <1>8, SynchronizeWindow

-----------------------------------------------------------------------------
\* Layouts without nested layouts unregister just their own widgets.
LEMMA ResetFlat ==
  ASSUME NEW ls, ls \subseteq Layouts, \A m \in ls : children[m] \intersect Layouts = {}
  PROVE  \A x : x \in ResetWidgets(ls) <=>
                  x \in registered /\ \E m \in ls : window[m] /\ x \in children[m]
<1> DEFINE kids == [s \in Sizables |->
              IF s \in Boxes /\ window[s] THEN children[s] \intersect Layouts ELSE {}]
<1>1. DOMAIN kids = Sizables /\ \A m \in ls : m \in Sizables /\ kids[m] = {}
  BY DEF Sizables
<1>2. \A x : x \in ResetWidgets(ls) <=>
               x \in registered /\ \E m \in Closure(kids, ls) \intersect Layouts :
                                      window[m] /\ x \in children[m]
  BY DEF ResetWidgets
<1> HIDE DEF kids
<1>3. ls \in Closed(kids, ls)
  BY <1>1 DEF Closed
<1>4. Closure(kids, ls) = ls
  BY <1>1, <1>3, ClosureLeast, ClosureSeed
<1> QED
  BY <1>2, <1>4

\* What removing emptied children of l unregisters is all there is below them
\* in the window, and nothing is below it in turn.
LEMMA DismissedTidy ==
  ASSUME TidyInv, NEW l \in Layouts, NEW S, S \subseteq children[l],
         \A s \in S : Emptied(l, s)
  PROVE  /\ Dismissed(l, S) \subseteq registered
         /\ \A x \in Sizables : parent[x] \in S /\ window[x] => x \in Dismissed(l, S)
         /\ \A x \in Dismissed(l, S) : x \in S \/ parent[x] \in S
         /\ \A x \in S \intersect Widgets : window[x] => x \in Dismissed(l, S)
         /\ \A x \in Dismissed(l, S), y \in Sizables : parent[y] # x
<1>1. /\ \A m \in Layouts, x \in Sizables : x \in children[m] <=> parent[x] = m
      /\ \A f \in Holders, k \in Sizables : content[f] = k <=> parent[k] = f
      /\ \A m \in Layouts : children[m] \subseteq Sizables
      /\ parent \in [Sizables -> Layouts \union Holders \union {None}]
      /\ registered \subseteq Widgets
      /\ \A x \in Widgets : x \in registered <=> window[x]
      /\ \A x \in Sizables : parent[x] # None => (window[x] <=> window[parent[x]])
  BY DEF TidyInv, TreeInv, CoreTypeOK, Listed, ContentAgree, Flat, Inherited
<1>2. /\ None \notin Sizables /\ Sizables = Layouts \union Widgets
      /\ Layouts = Boxes \union Fixed /\ Boxes \intersect Fixed = {}
      /\ Holders \subseteq Widgets /\ Layouts \intersect Widgets = {}
  BY TreeAssumption DEF Sizables, Widgets, Layouts
<1>3. /\ \A s \in S : s \in Holders => content[s] = None
      /\ \A s \in S : \A y : s \in Layouts /\ y \in children[s] =>
            y \notin Layouts /\ l \notin Fixed /\ (y \in Holders => content[y] = None)
  <2>1. \A s \in S : s \in Holders => content[s] = None
    BY DEF Emptied
  <2>2. ASSUME NEW s \in S, NEW y, s \in Layouts, y \in children[s]
        PROVE  y \notin Layouts /\ l \notin Fixed /\ (y \in Holders => content[y] = None)
    <3>1. Emptied(l, s)
      OBVIOUS
    <3> QED
      BY <2>2, <3>1 DEF Emptied
  <2> QED
    BY <2>1, <2>2
<1>4. \A x : x \in ResetWidgets(S \intersect Layouts) <=>
               /\ x \in registered
               /\ \E m \in S \intersect Layouts : window[m] /\ x \in children[m]
  <2>1. PICK ls : ls = S \intersect Layouts
    OBVIOUS
  <2>2. ls \subseteq Layouts /\ \A m \in ls : children[m] \intersect Layouts = {}
    BY <1>3, <2>1
  <2>3. \A x : x \in ResetWidgets(ls) <=>
               x \in registered /\ \E m \in ls : window[m] /\ x \in children[m]
    BY <2>2, ResetFlat
  <2> QED
    BY <2>1, <2>3
<1>5. \A x : x \in Dismissed(l, S) <=>
         /\ x \in registered
         /\ \/ l \in Boxes /\ \E m \in S \intersect Layouts : window[m] /\ x \in children[m]
            \/ x \in S /\ window[x]
  <2>1. CASE l \in Boxes
    <3>1. PICK reset : reset = ResetWidgets(S \intersect Layouts)
      OBVIOUS
    <3>2. Dismissed(l, S) = reset \union {x \in S \intersect registered : window[x]}
      BY <2>1, <3>1 DEF Dismissed
    <3>3. \A x : x \in reset <=> x \in registered /\ \E m \in S \intersect Layouts :
                                                        window[m] /\ x \in children[m]
      BY <1>4, <3>1
    <3>4. \A x : x \in Dismissed(l, S) <=>
                   x \in reset \/ (x \in S /\ x \in registered /\ window[x])
      BY <3>2
    <3> QED
      BY <2>1, <3>3, <3>4
  <2>2. CASE l \notin Boxes
    <3>1. Dismissed(l, S) = {x \in S \intersect registered : window[x]}
      BY <2>2 DEF Dismissed
    <3> QED
      BY <2>2, <3>1
  <2> QED
    BY <2>1, <2>2
<1>6. ASSUME NEW x \in Sizables, parent[x] \in S, window[x]
      PROVE  x \in Dismissed(l, S)
  <2>1. parent[x] \in Layouts
    BY <1>1, <1>2, <1>3, <1>6
  <2>2. x \in children[parent[x]]
    BY <1>1, <2>1
  <2>3. l \in Boxes /\ x \notin Layouts
    <3>1. x \notin Layouts /\ l \notin Fixed
      BY <1>3, <1>6, <2>1, <2>2
    <3> QED
      BY <1>2, <3>1
  <2>4. x \in registered
    BY <1>1, <1>2, <1>6, <2>3
  <2>5. window[parent[x]]
    BY <1>1, <1>2, <1>6, <2>1
  <2> QED
    BY <1>5, <1>6, <2>1, <2>2, <2>3, <2>4, <2>5
<1>7. ASSUME NEW x \in Dismissed(l, S) PROVE x \in S \/ parent[x] \in S
  BY <1>1, <1>5
<1>8. ASSUME NEW x \in Dismissed(l, S), NEW y \in Sizables, parent[y] = x PROVE FALSE
  <2>1. x \in Holders /\ content[x] = y
    BY <1>1, <1>2, <1>5, <1>8
  <2>2. CASE x \in S
    BY <1>2, <1>3, <2>1, <2>2
  <2>3. CASE x \notin S
    <3>1. PICK m \in S \intersect Layouts : x \in children[m]
      BY <1>5, <2>3
    <3>2. content[x] = None
      BY <1>3, <2>1, <3>1
    <3> QED
      BY <1>2, <2>1, <3>2
  <2> QED
    BY <2>2, <2>3
<1>9. \A x \in S \intersect Widgets : window[x] => x \in Dismissed(l, S)
  BY <1>1, <1>5
<1> QED
  BY <1>5, <1>6, <1>7, <1>8, <1>9

\* Taking T out of the tree and `out', which is all there is below T in the
\* window, out of the window's list keeps its membership right.
LEMMA DetachWindow ==
  ASSUME TidyInv, NEW T, T \subseteq Sizables, NEW out, out \subseteq registered,
         \A x \in Sizables : parent[x] \in T /\ window[x] => x \in out \union T,
         \A x \in out : x \in T \/ parent[x] \in T,
         \A x \in T \intersect Widgets : window[x] => x \in out,
         \A x \in out, y \in Sizables : parent[y] # x,
         \A x \in T : x \notin roots',
         \A x \in Sizables \ T : x \in roots' <=> x \in roots,
         registered' = registered \ out,
         window' = [x \in Sizables |-> window[x] /\ x \notin T \union out],
         parent' = [x \in Sizables |-> IF x \in T THEN None ELSE parent[x]]
  PROVE  Inherited' /\ Flat'
<1>1. /\ parent \in [Sizables -> Layouts \union Holders \union {None}]
      /\ registered \subseteq Widgets
      /\ \A x \in Widgets : x \in registered <=> window[x]
      /\ \A x \in Sizables : window[x] <=> IF parent[x] # None THEN window[parent[x]]
                                           ELSE x \in roots
  BY DEF TidyInv, TreeInv, CoreTypeOK, Flat, Inherited
<1>2. None \notin Sizables /\ Layouts \subseteq Sizables /\ Holders \subseteq Sizables
      /\ Widgets \subseteq Sizables
  BY TreeAssumption DEF Sizables, Widgets
<1>3. ASSUME NEW x \in Sizables
      PROVE  window'[x] <=> IF parent'[x] # None THEN window'[parent'[x]] ELSE x \in roots'
  <2>1. CASE x \in T
    BY <2>1
  <2>2. CASE x \notin T /\ x \in out
    <3>1. parent'[x] = parent[x] /\ parent[x] \in T /\ parent[x] # None /\ ~window'[x]
      BY <1>2, <2>2
    <3> QED
      BY <3>1
  <2>3. CASE x \notin T /\ x \notin out
    <3>1. parent'[x] = parent[x] /\ (window'[x] <=> window[x])
      BY <2>3
    <3>2. CASE parent[x] = None
      BY <1>1, <2>3, <3>1, <3>2
    <3>3. CASE parent[x] # None
      <4>1. parent[x] \in Sizables /\ parent[x] \notin out
        BY <1>1, <1>2, <3>3
      <4>2. window'[parent[x]] <=> window[parent[x]] /\ parent[x] \notin T
        BY <4>1
      <4>3. parent[x] \in T => ~window[x]
        BY <2>3
      <4> QED
        BY <1>1, <3>1, <3>3, <4>2, <4>3
    <3> QED
      BY <3>2, <3>3
  <2> QED
    BY <2>1, <2>2, <2>3
<1>4. \A x \in Widgets : x \in registered' <=> window'[x]
  BY <1>1, <1>2
<1>5. registered' \subseteq Widgets
  BY <1>1
<1> QED
  BY <1>3, <1>4, <1>5 DEF Inherited, Flat

\* Removing an emptied child keeps the window's membership right.
LEMMA RemoveTidy ==
  ASSUME tidy', TidyInv, NEW l \in Layouts, NEW s \in Sizables, Remove(l, s)
  PROVE  Inherited' /\ Flat'
<1>1. PICK out : out = Dismissed(l, {s})
  OBVIOUS
<1>2. /\ s \in children[l] /\ Emptied(l, s) /\ roots' = roots
      /\ registered' = registered \ out
      /\ window' = [x \in Sizables |-> window[x] /\ x \notin {s} \union out]
      /\ parent' = [x \in Sizables |-> IF x \in {s} THEN None ELSE parent[x]]
  BY <1>1 DEF Remove, Detach
<1>3. {s} \subseteq children[l] /\ \A x \in {s} : Emptied(l, x)
  BY <1>2
<1>4. /\ out \subseteq registered
      /\ \A x \in Sizables : parent[x] \in {s} /\ window[x] => x \in out
      /\ \A x \in out : x \in {s} \/ parent[x] \in {s}
      /\ \A x \in {s} \intersect Widgets : window[x] => x \in out
      /\ \A x \in out, y \in Sizables : parent[y] # x
  BY <1>1, <1>3, DismissedTidy
<1>5. s \notin roots
  BY <1>2, TreeAssumption DEF TidyInv, TreeInv, Listed, RootsTop, Sizables
<1>6. PICK T : T = {s}
  OBVIOUS
<1>7. /\ T \subseteq Sizables
      /\ \A x \in T : x \notin roots'
      /\ \A x \in Sizables \ T : x \in roots' <=> x \in roots
  BY <1>2, <1>5, <1>6
<1> QED
  BY <1>2, <1>4, <1>6, <1>7, DetachWindow

\* Destroying a layout nobody holds keeps the window's membership right.
LEMMA DestroyLayoutTidy ==
  ASSUME tidy', TidyInv, NEW l \in Layouts, DestroyLayout(l)
  PROVE  Inherited' /\ Flat'
<1>1. PICK out, S, T : out = Dismissed(l, children[l]) /\ S = children[l]
                       /\ T = children[l] \union {l}
  OBVIOUS
<1>2. /\ parent[l] = None /\ roots' = roots \ {l}
      /\ registered' = registered \ out
      /\ window' = [x \in Sizables |-> window[x] /\ x \notin T \union out]
      /\ parent' = [x \in Sizables |-> IF x \in T THEN None ELSE parent[x]]
      /\ \A s \in S : Emptied(l, s)
  BY <1>1 DEF DestroyLayout, Detach
<1>3. /\ out \subseteq registered
      /\ \A x \in Sizables : parent[x] \in S /\ window[x] => x \in out
      /\ \A x \in out : x \in S \/ parent[x] \in S
      /\ \A x \in S \intersect Widgets : window[x] => x \in out
      /\ \A x \in out, y \in Sizables : parent[y] # x
  <2>1. S \subseteq children[l] /\ out = Dismissed(l, S)
    BY <1>1
  <2> QED
    BY <1>2, <2>1, DismissedTidy
<1>4. \A x \in Sizables : x \in S <=> parent[x] = l
  BY <1>1 DEF TidyInv, TreeInv, Listed
<1>5. l \in Sizables /\ l # None /\ l \notin Widgets /\ S \subseteq Sizables
  BY <1>1, TreeAssumption DEF Sizables, TidyInv, TreeInv, CoreTypeOK
<1>6. \A x \in S : x \notin roots
  BY <1>4, <1>5 DEF TidyInv, TreeInv, RootsTop
<1>7. /\ T \subseteq Sizables
      /\ \A x \in Sizables : parent[x] \in T /\ window[x] => x \in out \union T
      /\ \A x \in out : x \in T \/ parent[x] \in T
      /\ \A x \in T \intersect Widgets : window[x] => x \in out
      /\ \A x \in T : x \notin roots'
      /\ \A x \in Sizables \ T : x \in roots' <=> x \in roots
  BY <1>1, <1>2, <1>3, <1>4, <1>5, <1>6
<1> QED
  BY <1>2, <1>3, <1>7, DetachWindow

\* Removing an empty layout from the window keeps its membership right.
LEMMA WindowRemoveTidy ==
  ASSUME tidy', TidyInv, NEW l \in Layouts, WindowRemove(l)
  PROVE  Inherited' /\ Flat'
<1>1. /\ l \in roots /\ children[l] = {} /\ roots' = roots \ {l}
      /\ window' = [window EXCEPT ![l] = FALSE]
      /\ parent' = parent /\ registered' = registered
  BY DEF WindowRemove
<1>2. /\ parent[l] = None /\ l \in Sizables /\ l \notin Widgets
      /\ \A x \in Sizables : parent[x] # l
  BY <1>1, TreeAssumption DEF TidyInv, TreeInv, RootsTop, Listed, Sizables
<1>3. /\ window \in [Sizables -> BOOLEAN]
      /\ parent \in [Sizables -> Layouts \union Holders \union {None}]
      /\ \A x \in Widgets : x \in registered <=> window[x]
      /\ registered \subseteq Widgets
      /\ \A x \in Sizables : window[x] <=> IF parent[x] # None THEN window[parent[x]]
                                           ELSE x \in roots
  BY DEF TidyInv, TreeInv, CoreTypeOK, Flat, Inherited
<1>4. Layouts \union Holders \subseteq Sizables /\ Widgets \subseteq Sizables
  BY DEF Sizables, Widgets
<1>5. ASSUME NEW x \in Sizables
      PROVE  window'[x] <=> IF parent'[x] # None THEN window'[parent'[x]] ELSE x \in roots'
  <2>1. CASE x = l
    BY <1>1, <1>2, <1>3, <2>1
  <2>2. CASE x # l
    <3>1. parent[x] # None => parent[x] \in Sizables /\ parent[x] # l
      BY <1>2, <1>3, <1>4
    <3> QED
      BY <1>1, <1>3, <2>2, <3>1
  <2> QED
    BY <2>1, <2>2
<1>6. \A x \in Widgets : x \in registered' <=> window'[x]
  BY <1>1, <1>2, <1>3, <1>4
<1> QED
  BY <1>1, <1>3, <1>5, <1>6 DEF Inherited, Flat

\* Destroying a widget nobody holds keeps the window's membership right.
LEMMA DestroyWidgetTidy ==
  ASSUME tidy', TidyInv, NEW x \in Plain, DestroyWidget(x)
  PROVE  Inherited' /\ Flat'
<1>1. /\ parent' = [parent EXCEPT ![x] = None] /\ window' = [window EXCEPT ![x] = FALSE]
      /\ roots' = roots /\ registered' = registered /\ parent[x] = None
  BY DEF DestroyWidget
<1>2. x \notin Layouts /\ x \in Sizables
  BY TreeAssumption DEF Sizables, Widgets
<1>3. parent \in [Sizables -> Layouts \union Holders \union {None}]
      /\ window \in [Sizables -> BOOLEAN] /\ roots \subseteq Layouts
  BY DEF TidyInv, TreeInv, CoreTypeOK
<1>4. window[x] = FALSE
  BY <1>1, <1>2, <1>3 DEF TidyInv, Inherited
<1>5. parent' = parent /\ window' = window
  BY <1>1, <1>3, <1>4
<1> QED
  BY <1>1, <1>5 DEF TidyInv, Inherited, Flat

\* With tidy clients every step keeps the invariant.
LEMMA TidyStep ==
  ASSUME tidy', single', TidyInv, [Next]_vars
  PROVE  TidyInv'
<1>1. TreeInv'
  BY TreeStep DEF TidyInv
<1>2. ASSUME UNCHANGED <<parent, window, roots, registered>>
      PROVE  Inherited' /\ Flat'
  BY <1>2 DEF TidyInv, Inherited, Flat
<1>3. ASSUME NEW x \in Plain, NewWidget(x) PROVE Inherited' /\ Flat'
  BY <1>2, <1>3 DEF NewWidget
<1>4. ASSUME NEW s \in Sizables, NEW v \in BOOLEAN, SetVisible(s, v)
      PROVE  Inherited' /\ Flat'
  BY <1>2, <1>4 DEF SetVisible, core
<1>5. ASSUME UNCHANGED vars PROVE Inherited' /\ Flat'
  BY <1>2, <1>5 DEF vars, core
<1>6. ASSUME NEW l \in Layouts, WindowAppend(l) \/ WindowRemove(l) \/ DestroyLayout(l)
      PROVE  Inherited' /\ Flat'
  BY <1>6, WindowAppendTidy, WindowRemoveTidy, DestroyLayoutTidy
<1>7. ASSUME NEW l \in Layouts, NEW s \in Sizables, Append(l, s) \/ Remove(l, s)
      PROVE  Inherited' /\ Flat'
  BY <1>7, AppendTidy, RemoveTidy
<1>8. ASSUME NEW f \in Holders, NEW l \in Layouts, SetLayout(f, l)
      PROVE  Inherited' /\ Flat'
  BY <1>8, SetLayoutTidy
<1>9. ASSUME NEW x \in Plain, DestroyWidget(x) PROVE Inherited' /\ Flat'
  BY <1>9, DestroyWidgetTidy
<1>10. Inherited' /\ Flat'
  BY <1>3, <1>4, <1>5, <1>6, <1>7, <1>8, <1>9 DEF Next
<1> QED
  BY <1>1, <1>10 DEF TidyInv

\* With tidy clients the window's membership and its list of widgets follow the tree.
THEOREM WindowFollowsTree == Spec => [](WindowInherited /\ Registered)
<1> DEFINE Inv == Kept /\ (tidy => TidyInv)
<1>1. Init => Inv
  BY TreeInit, KeptInit, TreeAssumption DEF Init, TidyInv, Inherited, Flat, Sizables
<1>2. Inv /\ [Next]_vars => Inv'
  BY TidyStep, KeptStep
<1>3. Inv => WindowInherited /\ Registered
  BY DEF WindowInherited, Registered, TidyInv
<1> QED
  BY <1>1, <1>2, <1>3, PTL DEF Spec

\* So every widget in the window's list is one that is in the window.
THEOREM RegisteredHolds == Spec => []Registered
BY WindowFollowsTree, PTL

-----------------------------------------------------------------------------
\* What a parent is.
Parents == [Sizables -> Layouts \union Holders \union {None}]

\* The ancestors of s are s, its parent and so on, and nothing else.
LEMMA AboveStep ==
  ASSUME NEW par \in Parents, NEW s \in Sizables
  PROVE  /\ s \in Ancestors(par, s) /\ Ancestors(par, s) \subseteq Sizables
         /\ \A a \in Ancestors(par, s) : par[a] # None => par[a] \in Ancestors(par, s)
<1> DEFINE up == [y \in Sizables |-> {par[y]} \ {None}]
<1>1. Ancestors(par, s) = Closure(up, {s}) /\ DOMAIN up = Sizables /\ {s} \subseteq Sizables
  BY DEF Ancestors
<1>2. \A a \in Sizables : par[a] # None => par[a] \in up[a] /\ par[a] \in Sizables
  BY DEF Parents, Sizables, Widgets
<1> HIDE DEF up
<1>3. s \in Ancestors(par, s) /\ Ancestors(par, s) \subseteq Sizables
  BY <1>1, ClosureSeed
<1>4. ASSUME NEW a \in Ancestors(par, s), par[a] # None PROVE par[a] \in Ancestors(par, s)
  BY <1>1, <1>2, <1>3, <1>4, ClosureStep
<1> QED
  BY <1>3, <1>4

LEMMA AboveLeast ==
  ASSUME NEW par \in Parents, NEW s \in Sizables, NEW S, S \subseteq Sizables, s \in S,
         \A a \in S : par[a] # None => par[a] \in S
  PROVE  Ancestors(par, s) \subseteq S
<1> DEFINE up == [y \in Sizables |-> {par[y]} \ {None}]
<1>1. S \in Closed(up, {s})
  BY DEF Closed
<1> HIDE DEF up
<1>2. Closure(up, {s}) \subseteq S
  BY <1>1, ClosureLeast
<1> QED
  BY <1>2 DEF Ancestors, up

\* They go by the parents of these sizables only.
LEMMA AboveSame ==
  ASSUME NEW par \in Parents, NEW par2 \in Parents, NEW s \in Sizables,
         \A a \in Ancestors(par, s) : par2[a] = par[a]
  PROVE  Ancestors(par2, s) = Ancestors(par, s)
<1> DEFINE A == Ancestors(par, s)
           B == Ancestors(par2, s)
<1>1. s \in A /\ A \subseteq Sizables /\ \A a \in A : par[a] # None => par[a] \in A
  BY AboveStep
<1>2. s \in B /\ B \subseteq Sizables /\ \A a \in B : par2[a] # None => par2[a] \in B
  BY AboveStep
<1>3. \A a \in A : par2[a] = par[a]
  OBVIOUS
<1> HIDE DEF A, B
<1>4. A \intersect B \subseteq Sizables /\ s \in A \intersect B
  BY <1>1, <1>2
<1>5. \A a \in A \intersect B : par[a] # None => par[a] \in A \intersect B
  BY <1>1, <1>2, <1>3
<1>6. A \subseteq A \intersect B
  BY <1>4, <1>5, AboveLeast DEF A
<1>7. \A a \in A \intersect B : par2[a] # None => par2[a] \in A \intersect B
  BY <1>3, <1>5
<1>8. B \subseteq A \intersect B
  BY <1>4, <1>7, AboveLeast DEF B
<1> QED
  BY <1>6, <1>8 DEF A, B

\* The ancestors of an ancestor are ancestors; those of s other than s are its
\* parent's.
LEMMA AboveAbove ==
  ASSUME NEW par \in Parents, NEW s \in Sizables, NEW a \in Ancestors(par, s)
  PROVE  Ancestors(par, a) \subseteq Ancestors(par, s)
<1>1. /\ Ancestors(par, s) \subseteq Sizables
      /\ \A b \in Ancestors(par, s) : par[b] # None => par[b] \in Ancestors(par, s)
  BY AboveStep
<1> QED
  BY <1>1, AboveLeast

LEMMA AboveParent ==
  ASSUME NEW par \in Parents, NEW s \in Sizables, par[s] # None
  PROVE  par[s] \in Sizables /\ Ancestors(par, s) \subseteq {s} \union Ancestors(par, par[s])
<1>1. par[s] \in Sizables
  BY DEF Parents, Sizables, Widgets
<1>2. /\ par[s] \in Ancestors(par, par[s]) /\ Ancestors(par, par[s]) \subseteq Sizables
      /\ \A a \in Ancestors(par, par[s]) : par[a] # None => par[a] \in Ancestors(par, par[s])
  BY <1>1, AboveStep
<1>3. \A a \in {s} \union Ancestors(par, par[s]) :
         par[a] # None => par[a] \in {s} \union Ancestors(par, par[s])
  BY <1>2
<1>4. {s} \union Ancestors(par, par[s]) \subseteq Sizables
  BY <1>2
<1> QED
  BY <1>1, <1>3, <1>4, AboveLeast

\* h is where the HWND of x belongs: in the nearest TabFrame above x or else in
\* the window.
Belongs(par, x, h) ==
    LET tabs == (Ancestors(par, x) \ {x}) \intersect TabFrames
    IN  /\ tabs = {} => h = TheWindow
        /\ tabs # {} => h \in tabs /\ tabs \subseteq Ancestors(par, h)

\* GetParentWidget finds it: among TabFrames one above the other there is a
\* nearest one, since a walk up that meets no TabFrame passes below them all.
LEMMA NearestBelongs ==
  ASSUME NEW par \in Parents, NEW x \in Sizables
  PROVE  Belongs(par, x, NearestHost(par, x))
<1> DEFINE above == Ancestors(par, x)
           tabs == (above \ {x}) \intersect TabFrames
           nearest == {t \in tabs : tabs \subseteq Ancestors(par, t)}
<1>1. x \in above /\ above \subseteq Sizables /\ \A a \in above : par[a] # None => par[a] \in above
  BY AboveStep
<1>2. ASSUME tabs # {} PROVE nearest # {}
  <2> DEFINE S == {a \in above \ {x} : tabs \subseteq Ancestors(par, a)} \union {x}
  <2>1. SUFFICES ASSUME nearest = {} PROVE FALSE
    OBVIOUS
  <2>2. ASSUME NEW a \in S PROVE par[a] # None => par[a] \in S
    <3>1. a \in Sizables /\ a \in above
      BY <1>1
    <3>2. tabs \subseteq {a} \union Ancestors(par, a)
      <4>1. CASE a = x
        BY <4>1
      <4>2. CASE a # x
        BY <4>2
      <4> QED
        BY <4>1, <4>2
    <3>3. a \notin tabs
      BY <2>1
    <3>4. tabs \subseteq Ancestors(par, a)
      <4>1. CASE a = x
        BY <4>1
      <4>2. CASE a # x
        BY <3>2, <4>2
      <4> QED
        BY <4>1, <4>2
    <3>5. ASSUME par[a] # None PROVE par[a] \in S
      <4>1. Ancestors(par, a) \subseteq {a} \union Ancestors(par, par[a])
        BY <3>1, <3>5, AboveParent
      <4>2. tabs \subseteq Ancestors(par, par[a])
        BY <3>3, <3>4, <4>1
      <4>3. par[a] \in above
        BY <1>1, <3>1, <3>5
      <4> QED
        BY <4>2, <4>3
    <3> QED
      BY <3>5
  <2>3. S \subseteq Sizables /\ x \in S
    BY <1>1
  <2> HIDE DEF S
  <2>4. above \subseteq S
    BY <2>2, <2>3, AboveLeast
  <2>5. PICK t : t \in tabs
    BY <1>2
  <2>6. t \in S /\ t # x
    BY <2>4, <2>5
  <2>7. t \in nearest
    BY <2>5, <2>6 DEF S
  <2> QED
    BY <2>1, <2>7
<1>3. NearestHost(par, x) = IF nearest = {} THEN TheWindow ELSE CHOOSE t \in nearest : TRUE
  BY DEF NearestHost
<1>4. tabs # {} => NearestHost(par, x) \in nearest
  BY <1>2, <1>3
<1>5. tabs = {} => nearest = {}
  OBVIOUS
<1> HIDE DEF nearest
<1>6. tabs = {} => NearestHost(par, x) = TheWindow
  BY <1>3, <1>5
<1> QED
  BY <1>4, <1>6 DEF Belongs, nearest

\* With tidy clients all above what is in the window is in the window.
LEMMA AboveInWindow ==
  ASSUME TidyInv, NEW x \in Sizables, window[x]
  PROVE  \A a \in Ancestors(parent, x) : a \in Sizables /\ window[a]
<1> DEFINE S == {a \in Sizables : window[a]}
<1>1. parent \in Parents
  BY DEF TidyInv, TreeInv, CoreTypeOK, Parents
<1>2. Layouts \union Holders \subseteq Sizables
  BY DEF Sizables, Widgets
<1>3. \A a \in S : parent[a] # None => parent[a] \in S
  BY <1>1, <1>2 DEF TidyInv, Inherited, Parents
<1>4. S \subseteq Sizables /\ x \in S
  OBVIOUS
<1>5. Ancestors(parent, x) \subseteq S
  BY <1>1, <1>3, <1>4, AboveLeast
<1> QED
  BY <1>5

\* x is below each of its ancestors.
LEMMA BelowAbove ==
  ASSUME TreeInv, NEW x \in Sizables, NEW a \in Ancestors(parent, x)
  PROVE  x \in Closure(Kids(children, content), {a})
<1> DEFINE kids == Kids(children, content)
           S == {b \in Sizables : x \in Closure(kids, {b})}
<1>1. parent \in Parents
  BY DEF TreeInv, CoreTypeOK, Parents
<1>2. DOMAIN kids = Sizables /\ \A b \in Sizables : kids[b] \subseteq Sizables
  BY KidsType DEF TreeInv, CoreTypeOK
<1>3. \A b, c \in Sizables : c \in kids[b] <=> parent[c] = b
  BY KidsParent
<1>4. Layouts \union Holders \subseteq Sizables
  BY DEF Sizables, Widgets
<1> HIDE DEF kids
<1>5. x \in S
  BY <1>2, ClosureSeed
<1>6. ASSUME NEW b \in S, parent[b] # None PROVE parent[b] \in S
  <2>1. PICK p \in Sizables : p = parent[b]
    BY <1>1, <1>4, <1>6 DEF Parents
  <2>2. b \in kids[p] /\ b \in Sizables
    BY <1>3, <2>1
  <2>3. Closure(kids, {p}) \subseteq Sizables /\ p \in Closure(kids, {p})
    BY <1>2, ClosureSeed
  <2>4. b \in Closure(kids, {p})
    BY <1>2, <2>2, <2>3, ClosureStep
  <2>5. \A y \in Closure(kids, {p}) : kids[y] \subseteq Closure(kids, {p})
    BY <1>2, <2>3, ClosureStep
  <2>6. Closure(kids, {p}) \in Closed(kids, {b})
    BY <1>2, <2>3, <2>4, <2>5 DEF Closed
  <2>7. Closure(kids, {b}) \subseteq Closure(kids, {p})
    BY <2>6, ClosureLeast
  <2> QED
    BY <2>1, <2>7
<1>7. Ancestors(parent, x) \subseteq S
  BY <1>1, <1>5, <1>6, AboveLeast
<1> QED
  BY <1>7 DEF kids

\* The HWNDs that x is inside of lie in any set of widgets that holds x and
\* the TabFrames its members are hosted by.
LEMMA ChainWithin ==
  ASSUME NEW hst, NEW S, S \subseteq Widgets, NEW x \in S,
         \A y \in S : hst[y] \in TabFrames => hst[y] \in S
  PROVE  HostChain(hst, x) \subseteq S
<1> DEFINE up == [y \in Widgets |-> {hst[y]} \intersect TabFrames]
<1>1. S \in Closed(up, {x})
  BY DEF Closed
<1> HIDE DEF up
<1>2. Closure(up, {x}) \subseteq S
  BY <1>1, ClosureLeast
<1> QED
  BY <1>2 DEF HostChain, up

\* What clients destroyed is below nobody.
DeadOut == \A x \in Plain \ alive : parent[x] = None

\* With tidy clients each registered widget has its HWND where it belongs,
\* shown when it and all above it are visible.
NativeInv ==
    \A x \in registered :
      /\ made[x] /\ Belongs(parent, x, host[x])
      /\ shown[x] <=> VisibleToAll(parent, visible, x)

\* The inductive invariant behind Hosted and ShownAsVisible.
ShownInv == TidyInv /\ NativeTypeOK /\ DeadOut /\ NativeInv

\* A registered widget has a parent and is hosted by the window or by a
\* registered TabFrame above it.
LEMMA RegisteredHost ==
  ASSUME ShownInv, NEW x \in registered
  PROVE  /\ x \in Widgets /\ x \in Sizables /\ window[x] /\ parent[x] # None
         /\ host[x] = TheWindow \/ (host[x] \in TabFrames /\ host[x] \in registered
                                    /\ host[x] \in Ancestors(parent, x) \ {x})
<1>1. x \in Widgets /\ x \in Sizables /\ window[x]
  BY DEF ShownInv, TidyInv, Flat, TreeInv, CoreTypeOK, Sizables
<1>2. parent[x] # None
  BY <1>1, TreeAssumption DEF ShownInv, TidyInv, Inherited, TreeInv, CoreTypeOK
<1>3. \A a \in Ancestors(parent, x) : a \in Sizables /\ window[a]
  BY <1>1, AboveInWindow DEF ShownInv
<1>4. Belongs(parent, x, host[x])
  BY DEF ShownInv, NativeInv
<1>5. host[x] = TheWindow \/ host[x] \in (Ancestors(parent, x) \ {x}) \intersect TabFrames
  BY <1>4 DEF Belongs
<1>6. TabFrames \subseteq Widgets
  BY DEF Widgets, Holders
<1>7. \A a \in Ancestors(parent, x) \intersect TabFrames : a \in registered
  BY <1>3, <1>6 DEF ShownInv, TidyInv, Flat
<1> QED
  BY <1>1, <1>2, <1>5, <1>7

\* Re-creating the widgets X puts every widget of R in the HWND hst gives it,
\* shown as visible, when R is hosted by itself and X takes none of R along.
LEMMA OrphanNative ==
  ASSUME NEW X, X \subseteq Widgets, NEW par, NEW hst, NEW ch, NEW ct,
         Orphan(X, par, hst, ch, ct),
         NEW R, R \subseteq Widgets,
         \A y \in R \ X : made[y] /\ HostChain(host, y) \intersect X \intersect TabFrames = {},
         \A y \in R : hst[y] # Lost /\ (hst[y] \in TabFrames => hst[y] \in R),
         \A y \in R : par[y] # None,
         \A y \in R \ X : shown[y] <=> VisibleToAll(par, visible', y),
         ch \in [Layouts -> SUBSET Sizables], ct \in [Holders -> Layouts \union {None}]
  PROVE  \A y \in R : /\ made'[y] /\ host'[y] = hst[y]
                      /\ shown'[y] <=> VisibleToAll(par, visible', y)
<1> DEFINE tabs == X \intersect TabFrames
           killed == {y \in Widgets \ X : HostChain(host, y) \intersect tabs # {}}
           hst2 == [y \in Widgets |-> IF y \in killed THEN Lost ELSE hst[y]]
           alive2(y) == y \in X \/ (made[y] /\ y \notin killed)
           made2 == [y \in Widgets |->
                    /\ alive2(y)
                    /\ y \in X => \A z \in HostChain(hst2, y) :
                                      alive2(z) /\ hst2[z] # Lost]
           seen == Closure(Kids(ch, ct), X)
<1>1. /\ host' = hst2 /\ made' = made2
      /\ shown' = [y \in Widgets |->
             /\ made2[y]
             /\ IF y \in seen THEN par[y] # None /\ VisibleToAll(par, visible', y)
                              ELSE shown[y]]
  BY Zenon DEF Orphan
<1>2. X \subseteq seen
  <2>1. X \subseteq Sizables /\ DOMAIN Kids(ch, ct) = Sizables
    BY KidsType DEF Sizables
  <2> QED
    BY <2>1, ClosureSeed
<1>3. \A y \in R : y \notin killed
  OBVIOUS
<1>4. \A y \in R : alive2(y)
  BY <1>3
<1>5. \A y \in R : hst2[y] = hst[y]
  BY <1>3
<1> HIDE DEF killed, hst2, seen, tabs
<1>6. \A y \in R : HostChain(hst2, y) \subseteq R
  BY <1>5, ChainWithin
<1>7. ASSUME NEW y \in R PROVE made2[y]
  <2>1. \A z \in HostChain(hst2, y) : alive2(z) /\ hst2[z] # Lost
    BY <1>4, <1>5, <1>6
  <2>2. y \in Widgets /\ alive2(y)
    BY <1>4
  <2> QED
    BY <2>1, <2>2
<1> HIDE DEF made2
<1>8. ASSUME NEW y \in R PROVE shown'[y] <=> VisibleToAll(par, visible', y)
  <2>1. y \in Widgets
    OBVIOUS
  <2>2. shown'[y] <=> IF y \in seen THEN par[y] # None /\ VisibleToAll(par, visible', y)
                      ELSE shown[y]
    BY <1>1, <1>7, <2>1, Zenon
  <2> QED
    BY <1>2, <2>2
<1> QED
  BY <1>1, <1>5, <1>7, <1>8

\* synchronizeLayout of l after m, till then outside the window, was put at
\* or right below l, hosts and shows every registered widget.
LEMMA SynchronizeNative ==
  ASSUME ShownInv, TidyInv',
         NEW l \in Layouts, NEW above, NEW win, win \in BOOLEAN,
         Synchronize(l, above, win, children', content'),
         NEW m \in Sizables, ~window[m],
         \A x \in Sizables : x # m => parent'[x] = parent[x]
  PROVE  NativeInv'
<1> DEFINE visited == Visited(l, win, children', content')
           new == IF win THEN (visited \intersect Widgets) \ registered ELSE {}
           hst == [x \in Widgets |-> IF x \in new THEN NearestHost(parent', x) ELSE host[x]]
<1>1. /\ registered' = registered \union new
      /\ Orphan(new, parent', hst, children', content')
  BY DEF Synchronize
<1>2. /\ parent \in Parents /\ parent' \in Parents
      /\ children' \in [Layouts -> SUBSET Sizables]
      /\ content' \in [Holders -> Layouts \union {None}]
      /\ registered' \subseteq Widgets /\ Widgets \subseteq Sizables
      /\ TabFrames \subseteq Widgets /\ roots' \subseteq Layouts
      /\ TabFrames \subseteq Holders
  BY DEF ShownInv, TidyInv, TreeInv, CoreTypeOK, Parents, Sizables, Widgets, Holders
<1>3. new \subseteq Widgets /\ new \intersect registered = {} /\ new \subseteq registered'
  BY <1>1
<1>4. /\ hst \in [Widgets -> Hosts]
      /\ \A x \in new : hst[x] = NearestHost(parent', x)
      /\ \A x \in Widgets \ new : hst[x] = host[x]
  BY <1>3, NearestHostType DEF ShownInv, NativeTypeOK
<1>5. visible' = [s \in Sizables |->
                    visible[s] \/ \E t \in new \intersect TabFrames : content'[t] = s]
  BY <1>1 DEF Orphan
<1> HIDE DEF new, hst
<1>6. \A x \in registered' :
         window'[x] /\ parent'[x] # None
  <2>1. \A x \in registered' : x \in Sizables /\ x \notin Layouts /\ window'[x]
    BY <1>2, TreeAssumption DEF TidyInv, Flat
  <2> QED
    BY <1>2, <2>1 DEF TidyInv, Inherited
<1>7. \A x \in registered' : \A a \in Ancestors(parent', x) : a \in Sizables /\ window'[a]
  <2> DEFINE S == {a \in Sizables : window'[a]}
  <2>1. Layouts \union Holders \subseteq Sizables
    BY DEF Sizables, Widgets
  <2>2. \A a \in S : parent'[a] # None => parent'[a] \in S
    BY <1>2, <2>1 DEF TidyInv, Inherited, Parents
  <2>3. S \subseteq Sizables /\ \A x \in registered' : x \in S
    BY <1>2, <1>6
  <2>4. \A x \in registered' : Ancestors(parent', x) \subseteq S
    BY <1>2, <2>2, <2>3, AboveLeast
  <2> QED
    BY <2>4
<1>8. ASSUME NEW x \in registered
      PROVE  /\ Ancestors(parent', x) = Ancestors(parent, x)
             /\ \A a \in Ancestors(parent, x) :
                  a \in Sizables /\ window[a] /\ visible'[a] = visible[a]
  <2>1. x \in Sizables /\ window[x]
    BY RegisteredHost
  <2>2. \A a \in Ancestors(parent, x) : a \in Sizables /\ window[a]
    BY <2>1, AboveInWindow DEF ShownInv
  <2>3. \A a \in Ancestors(parent, x) : parent'[a] = parent[a]
    BY <2>2
  <2>4. Ancestors(parent', x) = Ancestors(parent, x)
    BY <1>2, <2>1, <2>3, AboveSame
  <2>5. ASSUME NEW a \in Ancestors(parent, x) PROVE visible'[a] = visible[a]
    <3>1. a \in Sizables /\ window[a] /\ parent'[a] = parent[a]
      BY <2>2, <2>3
    <3>2. ASSUME NEW t \in new \intersect TabFrames, content'[t] = a PROVE FALSE
      <4>1. t \in Holders /\ t \in Sizables /\ t # None
        BY <1>2, TreeAssumption
      <4>2. parent'[a] = t
        BY <3>1, <3>2, <4>1 DEF TidyInv, TreeInv, ContentAgree
      <4>3. window[t]
        BY <3>1, <4>1, <4>2 DEF ShownInv, TidyInv, Inherited
      <4>4. t \in registered
        BY <1>2, <4>3 DEF ShownInv, TidyInv, Flat
      <4> QED
        BY <1>3, <4>4
    <3>3. visible[a] \in BOOLEAN
      BY <3>1 DEF ShownInv, NativeTypeOK
    <3> QED
      BY <1>5, <3>1, <3>2, <3>3
  <2> QED
    BY <2>2, <2>4, <2>5
<1>9. \A x \in registered : HostChain(host, x) \subseteq registered
  <2>1. registered \subseteq Widgets
    BY <1>1, <1>2
  <2>2. \A x \in registered : host[x] \in TabFrames => host[x] \in registered
    BY RegisteredHost, TreeAssumption, <1>2
  <2> QED
    BY <2>1, <2>2, ChainWithin
<1>10. \A x \in registered' : Belongs(parent', x, hst[x])
  <2>1. ASSUME NEW x \in registered PROVE Belongs(parent', x, hst[x])
    <3>1. hst[x] = host[x] /\ Belongs(parent, x, host[x])
      BY <1>1, <1>2, <1>3, <1>4 DEF ShownInv, NativeInv
    <3>2. Ancestors(parent', x) = Ancestors(parent, x)
      BY <1>8
    <3>3. CASE (Ancestors(parent, x) \ {x}) \intersect TabFrames = {}
      BY <3>1, <3>2, <3>3 DEF Belongs
    <3>4. CASE (Ancestors(parent, x) \ {x}) \intersect TabFrames # {}
      <4>1. host[x] \in Ancestors(parent, x) /\ host[x] \in TabFrames
        BY <3>1, <3>4 DEF Belongs
      <4>2. host[x] \in registered
        BY <4>1, <1>2, RegisteredHost, TreeAssumption
      <4>3. Ancestors(parent', host[x]) = Ancestors(parent, host[x])
        BY <1>8, <4>2
      <4> QED
        BY <3>1, <3>2, <3>4, <4>3 DEF Belongs
    <3> QED
      BY <3>3, <3>4
  <2>2. ASSUME NEW x \in new PROVE Belongs(parent', x, hst[x])
    <3>1. x \in Sizables
      BY <1>2, <1>3
    <3> QED
      BY <1>2, <1>4, <3>1, NearestBelongs
  <2> QED
    BY <1>1, <2>1, <2>2
<1>11. \A y \in registered' : hst[y] # Lost /\ (hst[y] \in TabFrames => hst[y] \in registered')
  <2> SUFFICES ASSUME NEW y \in registered'
               PROVE  hst[y] # Lost /\ (hst[y] \in TabFrames => hst[y] \in registered')
    OBVIOUS
  <2>1. hst[y] = TheWindow \/ hst[y] \in Ancestors(parent', y) \intersect TabFrames
    BY <1>10 DEF Belongs
  <2>2. TheWindow \notin TabFrames /\ Lost \notin TabFrames /\ TheWindow # Lost
    BY <1>2, TreeAssumption
  <2>3. hst[y] \in Ancestors(parent', y) \intersect TabFrames => hst[y] \in registered'
    BY <1>2, <1>7 DEF TidyInv, Flat
  <2> QED
    BY <2>1, <2>2, <2>3
<1>12. \A y \in registered' \ new : y \in registered
  BY <1>1
<1>13. \A y \in registered' \ new :
          made[y] /\ HostChain(host, y) \intersect new \intersect TabFrames = {}
  BY <1>3, <1>9, <1>12 DEF ShownInv, NativeInv
<1>14. \A y \in registered' \ new : shown[y] <=> VisibleToAll(parent', visible', y)
  <2> SUFFICES ASSUME NEW y \in registered
               PROVE  shown[y] <=> VisibleToAll(parent', visible', y)
    BY <1>12
  <2>1. shown[y] <=> VisibleToAll(parent, visible, y)
    BY DEF ShownInv, NativeInv
  <2>2. VisibleToAll(parent', visible', y) <=> VisibleToAll(parent, visible, y)
    BY <1>8 DEF VisibleToAll
  <2> QED
    BY <2>1, <2>2
<1>15. \A y \in registered' :
          /\ made'[y] /\ host'[y] = hst[y]
          /\ shown'[y] <=> VisibleToAll(parent', visible', y)
  BY <1>1, <1>2, <1>3, <1>6, <1>11, <1>13, <1>14, OrphanNative
<1>16. \A y \in registered' : Belongs(parent', y, host'[y])
  BY <1>10, <1>15
<1> QED
  BY <1>15, <1>16 DEF NativeInv

\* Taking T out of the tree and leaf widgets `out' out of the window's list
\* leaves the others hosted and shown as they were.
LEMMA DetachNative ==
  ASSUME ShownInv, TidyInv', NEW T, NEW out, out \subseteq registered,
         \A x \in out, y \in Sizables : parent[y] # x,
         Detach(T, out)
  PROVE  NativeInv'
<1>1. /\ registered' = registered \ out
      /\ window' = [s \in Sizables |-> window[s] /\ s \notin T \union out]
      /\ parent' = [s \in Sizables |-> IF s \in T THEN None ELSE parent[s]]
      /\ Orphan(out, parent, host, children, content)
  BY DEF Detach
<1>2. /\ parent \in Parents /\ parent' \in Parents
      /\ children \in [Layouts -> SUBSET Sizables]
      /\ content \in [Holders -> Layouts \union {None}]
      /\ registered \subseteq Widgets /\ Widgets \subseteq Sizables
      /\ TabFrames \subseteq Widgets /\ TabFrames \subseteq Holders
      /\ Layouts \union Holders \subseteq Sizables
      /\ visible \in [Sizables -> BOOLEAN]
  BY DEF ShownInv, TidyInv, TreeInv, CoreTypeOK, NativeTypeOK, Parents, Sizables, Widgets, Holders
<1>3. visible' = [s \in Sizables |->
                    visible[s] \/ \E t \in out \intersect TabFrames : content[t] = s]
  BY <1>1 DEF Orphan
<1>4. visible' = visible
  <2>1. ASSUME NEW s \in Sizables, NEW t \in out \intersect TabFrames, content[t] = s
        PROVE  FALSE
    <3>1. parent[s] = t
      BY <1>2, <2>1 DEF ShownInv, TidyInv, TreeInv, ContentAgree
    <3> QED
      BY <3>1
  <2>2. \A s \in Sizables : visible'[s] = visible[s]
    BY <1>2, <1>3, <2>1
  <2> QED
    BY <1>2, <1>3, <2>2
<1>5. ASSUME NEW x \in registered' PROVE Ancestors(parent', x) = Ancestors(parent, x)
  <2> DEFINE S == {a \in Sizables : window'[a]}
  <2>1. x \in Sizables /\ window'[x]
    BY <1>1, <1>2 DEF TidyInv, Flat
  <2>2. \A a \in S : parent'[a] # None => parent'[a] \in S
    BY <1>2 DEF TidyInv, Inherited, Parents
  <2>3. S \subseteq Sizables /\ x \in S
    BY <2>1
  <2>4. \A a \in S : a \notin T
    BY <1>1
  <2> HIDE DEF S
  <2>5. Ancestors(parent', x) \subseteq S
    BY <1>2, <2>1, <2>2, <2>3, AboveLeast
  <2>6. \A a \in Ancestors(parent', x) : parent[a] = parent'[a]
    BY <1>1, <2>3, <2>4, <2>5
  <2> QED
    BY <1>2, <2>1, <2>6, AboveSame
<1>6. ASSUME NEW x \in registered' PROVE Ancestors(parent, x) \intersect out = {}
  <2> DEFINE S == Ancestors(parent, x) \ out
  <2>1. x \in Sizables /\ x \notin out
    BY <1>1, <1>2
  <2>2. /\ x \in Ancestors(parent, x) /\ Ancestors(parent, x) \subseteq Sizables
        /\ \A a \in Ancestors(parent, x) : parent[a] # None => parent[a] \in Ancestors(parent, x)
    BY <1>2, <2>1, AboveStep
  <2>3. \A a \in S : parent[a] # None => parent[a] \in S
    BY <2>2
  <2>4. S \subseteq Sizables /\ x \in S
    BY <2>1, <2>2
  <2>5. Ancestors(parent, x) \subseteq S
    BY <1>2, <2>1, <2>3, <2>4, AboveLeast
  <2> QED
    BY <2>5
<1>7. \A x \in registered' : host[x] # Lost /\ (host[x] \in TabFrames => host[x] \in registered')
  <2> SUFFICES ASSUME NEW x \in registered'
               PROVE  host[x] # Lost /\ (host[x] \in TabFrames => host[x] \in registered')
    OBVIOUS
  <2>1. x \in registered
    BY <1>1
  <2>2. host[x] = TheWindow \/ (host[x] \in TabFrames /\ host[x] \in registered
                                /\ host[x] \in Ancestors(parent, x) \ {x})
    BY <2>1, RegisteredHost
  <2>3. TheWindow \notin TabFrames /\ Lost \notin TabFrames /\ TheWindow # Lost
    BY <1>2, TreeAssumption
  <2> QED
    BY <1>1, <1>6, <2>2, <2>3
<1>8. registered' \subseteq Widgets /\ out \subseteq Widgets /\ registered' \ out = registered'
  BY <1>1, <1>2
<1>9. \A x \in registered' : HostChain(host, x) \subseteq registered'
  BY <1>7, <1>8, ChainWithin
<1>10. \A x \in registered' : made[x] /\ HostChain(host, x) \intersect out \intersect TabFrames = {}
  BY <1>1, <1>9 DEF ShownInv, NativeInv
<1>11. \A x \in registered' : parent[x] # None
  BY <1>1, RegisteredHost
<1>12. \A x \in registered' : shown[x] <=> VisibleToAll(parent, visible', x)
  BY <1>1, <1>4 DEF ShownInv, NativeInv
<1>13. \A x \in registered' :
          /\ made'[x] /\ host'[x] = host[x]
          /\ shown'[x] <=> VisibleToAll(parent, visible', x)
  BY <1>1, <1>2, <1>7, <1>8, <1>10, <1>11, <1>12, OrphanNative
<1>14. ASSUME NEW x \in registered'
       PROVE  VisibleToAll(parent', visible', x) <=> VisibleToAll(parent, visible', x)
  BY <1>5 DEF VisibleToAll
<1>15. ASSUME NEW x \in registered' PROVE Belongs(parent', x, host'[x])
  <2>1. x \in registered /\ Belongs(parent, x, host[x])
    BY <1>1 DEF ShownInv, NativeInv
  <2>2. host[x] \in TabFrames => Ancestors(parent', host[x]) = Ancestors(parent, host[x])
    BY <1>5, <1>7
  <2>3. Ancestors(parent', x) = Ancestors(parent, x)
    BY <1>5
  <2>4. Belongs(parent', x, host[x])
    BY <2>1, <2>2, <2>3 DEF Belongs
  <2> QED
    BY <1>13, <2>4
<1> QED
  BY <1>13, <1>14, <1>15 DEF NativeInv

\* Steps that leave the tree, the list and the HWNDs of its widgets alone.
LEMMA SameNative ==
  ASSUME ShownInv, registered' = registered, parent' = parent,
         \A x \in registered : made'[x] = made[x] /\ host'[x] = host[x],
         \A x \in registered : shown'[x] <=> VisibleToAll(parent, visible', x)
  PROVE  NativeInv'
BY DEF ShownInv, NativeInv

\* Showing or hiding a sizable shows every registered widget as visible.
LEMMA SetVisibleNative ==
  ASSUME ShownInv, NEW s \in Sizables, NEW v \in BOOLEAN, SetVisible(s, v)
  PROVE  NativeInv'
<1>1. /\ registered' = registered /\ parent' = parent /\ made' = made /\ host' = host
      /\ visible' = [visible EXCEPT ![s] = v]
      /\ shown' = [x \in Widgets |->
           IF x \in Closure(Kids(children, content), {s})
           THEN made[x] /\ parent[x] # None /\ VisibleToAll(parent, visible', x)
           ELSE shown[x]]
  BY DEF SetVisible, core
<1>2. ASSUME NEW x \in registered PROVE shown'[x] <=> VisibleToAll(parent, visible', x)
  <2>1. x \in Widgets /\ x \in Sizables /\ parent[x] # None
        /\ made[x] /\ (shown[x] <=> VisibleToAll(parent, visible, x))
    BY RegisteredHost DEF ShownInv, NativeInv
  <2>2. CASE x \in Closure(Kids(children, content), {s})
    BY <1>1, <2>1, <2>2, Zenon
  <2>3. CASE x \notin Closure(Kids(children, content), {s})
    <3>1. s \notin Ancestors(parent, x)
      BY <2>1, <2>3, BelowAbove DEF ShownInv, TidyInv
    <3>2. \A a \in Ancestors(parent, x) : visible'[a] = visible[a]
      BY <1>1, <3>1 DEF ShownInv, NativeTypeOK
    <3>3. VisibleToAll(parent, visible', x) <=> VisibleToAll(parent, visible, x)
      BY <3>2 DEF VisibleToAll
    <3>4. shown'[x] = shown[x]
      BY <1>1, <2>1, <2>3
    <3> QED
      BY <2>1, <3>3, <3>4
  <2> QED
    BY <2>2, <2>3
<1> QED
  BY <1>1, <1>2, SameNative

\* A widget built where another was freed is in nobody's way.
LEMMA NewWidgetNative ==
  ASSUME ShownInv, NEW x \in Plain, NewWidget(x)
  PROVE  NativeInv' /\ DeadOut'
<1>1. /\ x \notin alive /\ alive' = alive \union {x}
      /\ made' = [made EXCEPT ![x] = TRUE] /\ host' = [host EXCEPT ![x] = None]
      /\ visible' = [visible EXCEPT ![x] = TRUE] /\ shown' = shown
      /\ registered' = registered /\ parent' = parent
  BY DEF NewWidget
<1>2. x \in Sizables /\ x \notin Layouts
  BY TreeAssumption DEF Sizables, Widgets
<1>3. ~window[x] /\ x \notin registered
  BY <1>1, <1>2 DEF ShownInv, DeadOut, TidyInv, TreeInv, CoreTypeOK, Inherited, Flat
<1>4. ASSUME NEW y \in registered
      PROVE  /\ made'[y] = made[y] /\ host'[y] = host[y]
             /\ shown'[y] <=> VisibleToAll(parent, visible', y)
  <2>1. y \in Sizables /\ window[y] /\ y # x
    BY <1>3, RegisteredHost
  <2>2. \A a \in Ancestors(parent, y) : visible'[a] = visible[a]
    BY <1>1, <1>3, <2>1, AboveInWindow DEF ShownInv, NativeTypeOK
  <2>3. shown[y] <=> VisibleToAll(parent, visible, y)
    BY DEF ShownInv, NativeInv
  <2>4. VisibleToAll(parent, visible', y) <=> VisibleToAll(parent, visible, y)
    BY <2>2 DEF VisibleToAll
  <2>5. made'[y] = made[y] /\ host'[y] = host[y]
    BY <1>1, <2>1 DEF ShownInv, NativeTypeOK
  <2> QED
    BY <1>1, <2>3, <2>4, <2>5
<1>5. DeadOut'
  BY <1>1 DEF ShownInv, DeadOut
<1> QED
  BY <1>1, <1>4, <1>5, SameNative

\* Destroying a widget that nobody holds disturbs no registered one.
LEMMA DestroyWidgetNative ==
  ASSUME tidy', ShownInv, NEW x \in Plain, DestroyWidget(x)
  PROVE  NativeInv' /\ DeadOut'
<1>1. /\ alive' = alive \ {x} /\ registered' = registered
      /\ made' = [made EXCEPT ![x] = FALSE] /\ shown' = [shown EXCEPT ![x] = FALSE]
      /\ parent' = [parent EXCEPT ![x] = None] /\ parent[x] = None
      /\ visible' = visible /\ host' = host
  BY DEF DestroyWidget
<1>2. parent' = parent
  BY <1>1 DEF ShownInv, TidyInv, TreeInv, CoreTypeOK
<1>3. x \notin registered
  BY <1>1, RegisteredHost
<1>4. \A y \in registered : made'[y] = made[y] /\ host'[y] = host[y] /\ shown'[y] = shown[y]
  BY <1>1, <1>3, RegisteredHost DEF ShownInv, NativeTypeOK
<1>5. \A y \in registered : shown'[y] <=> VisibleToAll(parent, visible', y)
  BY <1>1, <1>4 DEF ShownInv, NativeInv
<1>6. DeadOut'
  BY <1>1, <1>2 DEF ShownInv, DeadOut
<1> QED
  BY <1>1, <1>2, <1>4, <1>5, <1>6, SameNative

\* Steps that destroy layouts at most, and give parents to what is alive.
LEMMA SameDead ==
  ASSUME DeadOut, Plain \intersect alive \subseteq alive',
         \A x \in Plain \ alive : parent'[x] \in {parent[x], None}
  PROVE  DeadOut'
BY DEF DeadOut

\* Appending and removing host and show every registered widget.
LEMMA AppendNative ==
  ASSUME single', ShownInv, TidyInv', NEW l \in Layouts, NEW s \in Sizables, Append(l, s)
  PROVE  NativeInv' /\ DeadOut'
<1>1. /\ parent[s] = None /\ s \notin roots /\ s \in alive /\ alive' = alive
      /\ content' = content /\ children' = [children EXCEPT ![l] = @ \union {s}]
      /\ Synchronize(l, parent[l], window[l], children', content')
  BY DEF Append, Noted, Free
<1>2. parent' = [parent EXCEPT ![s] = l]
  BY AppendTree DEF ShownInv, TidyInv
<1>3. ~window[s] /\ window[l] \in BOOLEAN
  BY <1>1 DEF ShownInv, TidyInv, TreeInv, CoreTypeOK, Inherited, Sizables
<1>4. \A x \in Sizables : x # s => parent'[x] = parent[x]
  BY <1>2 DEF ShownInv, TidyInv, TreeInv, CoreTypeOK
<1>5. PICK win, above : win = window[l] /\ above = parent[l]
  OBVIOUS
<1>6. win \in BOOLEAN /\ Synchronize(l, above, win, children', content')
  BY <1>1, <1>3, <1>5
<1>7. NativeInv'
  BY <1>3, <1>4, <1>6, SynchronizeNative
<1>8. DeadOut'
  BY <1>1, <1>4, SameDead DEF ShownInv, Sizables, Widgets
<1> QED
  BY <1>7, <1>8

LEMMA WindowAppendNative ==
  ASSUME single', ShownInv, TidyInv', NEW l \in Layouts, WindowAppend(l)
  PROVE  NativeInv' /\ DeadOut'
<1>1. /\ parent[l] = None /\ l \notin roots /\ alive' = alive /\ l \in Sizables
      /\ content' = content /\ children' = children
      /\ Synchronize(l, None, TRUE, children', content')
  BY DEF WindowAppend, Noted, Free, Sizables
<1>2. parent' = parent
  BY WindowAppendTree DEF ShownInv, TidyInv
<1>3. ~window[l]
  BY <1>1 DEF ShownInv, TidyInv, Inherited
<1>4. PICK win, above : win = TRUE /\ above = None
  OBVIOUS
<1>5. win \in BOOLEAN /\ Synchronize(l, above, win, children', content')
  BY <1>1, <1>4
<1>6. NativeInv'
  BY <1>1, <1>2, <1>3, <1>5, SynchronizeNative
<1>7. DeadOut'
  BY <1>1, <1>2, SameDead DEF ShownInv
<1> QED
  BY <1>6, <1>7

LEMMA SetLayoutNative ==
  ASSUME single', ShownInv, TidyInv', NEW f \in Holders, NEW l \in Layouts, SetLayout(f, l)
  PROVE  NativeInv' /\ DeadOut'
<1>1. /\ parent[l] = None /\ l \notin roots /\ alive' = alive /\ l \in Sizables
      /\ l \notin Plain
      /\ Synchronize(l, f, window[f], children', content')
  BY TreeAssumption DEF SetLayout, Noted, Free, Sizables, Widgets
<1>2. parent' = [parent EXCEPT ![l] = f]
  BY SetLayoutTree DEF ShownInv, TidyInv
<1>3. ~window[l] /\ window[f] \in BOOLEAN
  BY <1>1 DEF ShownInv, TidyInv, TreeInv, CoreTypeOK, Inherited, Sizables, Widgets
<1>4. \A x \in Sizables : x # l => parent'[x] = parent[x]
  BY <1>2 DEF ShownInv, TidyInv, TreeInv, CoreTypeOK
<1>5. PICK win, above : win = window[f] /\ above = f
  OBVIOUS
<1>6. win \in BOOLEAN /\ Synchronize(l, above, win, children', content')
  BY <1>1, <1>3, <1>5
<1>7. NativeInv'
  BY <1>1, <1>3, <1>4, <1>6, SynchronizeNative
<1>8. DeadOut'
  BY <1>1, <1>4, SameDead DEF ShownInv, Sizables, Widgets
<1> QED
  BY <1>7, <1>8

LEMMA RemoveNative ==
  ASSUME tidy', ShownInv, TidyInv', NEW l \in Layouts, NEW s \in Sizables, Remove(l, s)
  PROVE  NativeInv' /\ DeadOut'
<1>1. PICK out, T : out = Dismissed(l, {s}) /\ T = {s}
  OBVIOUS
<1>2. /\ s \in children[l] /\ Emptied(l, s) /\ alive' = alive /\ Detach(T, out)
  BY <1>1 DEF Remove
<1>3. T \subseteq children[l] /\ \A x \in T : Emptied(l, x)
  BY <1>1, <1>2
<1>4. out \subseteq registered /\ \A x \in out, y \in Sizables : parent[y] # x
  BY <1>1, <1>3, DismissedTidy DEF ShownInv
<1>5. NativeInv'
  BY <1>2, <1>4, DetachNative
<1>6. \A x \in Sizables : parent'[x] \in {parent[x], None}
  BY <1>2 DEF Detach
<1>7. DeadOut'
  BY <1>2, <1>6, SameDead DEF ShownInv, Sizables, Widgets
<1> QED
  BY <1>5, <1>7

LEMMA DestroyLayoutNative ==
  ASSUME tidy', ShownInv, TidyInv', NEW l \in Layouts, DestroyLayout(l)
  PROVE  NativeInv' /\ DeadOut'
<1>1. PICK out, S, T : out = Dismissed(l, S) /\ S = children[l] /\ T = children[l] \union {l}
  OBVIOUS
<1>2. /\ \A x \in S : Emptied(l, x)
      /\ alive' = alive \ {l} /\ Detach(T, out)
  BY <1>1 DEF DestroyLayout
<1>3. S \subseteq children[l]
  BY <1>1
<1>4. out \subseteq registered /\ \A x \in out, y \in Sizables : parent[y] # x
  BY <1>1, <1>2, <1>3, DismissedTidy DEF ShownInv
<1>5. NativeInv'
  BY <1>2, <1>4, DetachNative
<1>6. \A x \in Sizables : parent'[x] \in {parent[x], None}
  BY <1>2 DEF Detach
<1>7. l \notin Plain
  BY TreeAssumption DEF Widgets
<1>8. DeadOut'
  BY <1>2, <1>6, <1>7, SameDead DEF ShownInv, Sizables, Widgets
<1> QED
  BY <1>5, <1>8

\* With tidy clients every step keeps the invariant of the native windows.
LEMMA ShownStep ==
  ASSUME tidy', single', ShownInv, [Next]_vars
  PROVE  ShownInv'
<1>1. TidyInv' /\ NativeTypeOK'
  BY TidyStep, NativeStep DEF ShownInv
<1>2. ASSUME NEW l \in Layouts, WindowRemove(l) PROVE NativeInv' /\ DeadOut'
  <2>1. /\ registered' = registered /\ parent' = parent /\ alive' = alive
        /\ made' = made /\ host' = host /\ shown' = shown /\ visible' = visible
    BY <1>2 DEF WindowRemove, native
  <2>2. NativeInv'
    BY <2>1, SameNative DEF ShownInv, NativeInv
  <2> QED
    BY <2>1, <2>2, SameDead DEF ShownInv
<1>3. ASSUME NEW s \in Sizables, NEW v \in BOOLEAN, SetVisible(s, v)
      PROVE  NativeInv' /\ DeadOut'
  <2>1. alive' = alive /\ parent' = parent
    BY <1>3 DEF SetVisible, core
  <2> QED
    BY <1>3, <2>1, SetVisibleNative, SameDead DEF ShownInv
<1>4. ASSUME UNCHANGED vars PROVE NativeInv' /\ DeadOut'
  <2>1. /\ registered' = registered /\ parent' = parent /\ alive' = alive
        /\ made' = made /\ host' = host /\ shown' = shown /\ visible' = visible
    BY <1>4 DEF vars, core, native
  <2>2. NativeInv'
    BY <2>1, SameNative DEF ShownInv, NativeInv
  <2> QED
    BY <2>1, <2>2, SameDead DEF ShownInv
<1>5. NativeInv' /\ DeadOut'
  BY <1>1, <1>2, <1>3, <1>4, WindowAppendNative, DestroyLayoutNative, AppendNative,
     RemoveNative, SetLayoutNative, DestroyWidgetNative, NewWidgetNative DEF Next
<1> QED
  BY <1>1, <1>5 DEF ShownInv

\* In every reachable state of a tidy program the native windows follow the tree.
LEMMA TidyNative == Spec => [](tidy => ShownInv)
<1> DEFINE Inv == NativeTypeOK /\ Kept /\ (tidy => ShownInv)
<1>1. Init => Inv
  <2> SUFFICES ASSUME Init PROVE Inv
    OBVIOUS
  <2>1. TreeInv
    BY TreeInit
  <2>2. NativeTypeOK /\ Kept
    BY KeptInit DEF Init, NativeTypeOK, Hosts
  <2>3. Inherited /\ Flat
    BY TreeAssumption DEF Init, Inherited, Flat, Sizables
  <2>4. DeadOut /\ NativeInv
    BY DEF Init, DeadOut, NativeInv, Sizables, Widgets
  <2> QED
    BY <2>1, <2>2, <2>3, <2>4 DEF ShownInv, TidyInv
<1>2. Inv /\ [Next]_vars => Inv'
  BY ShownStep, KeptStep, NativeStep
<1> QED
  BY <1>1, <1>2, PTL DEF Spec

\* With tidy clients every registered widget's HWND is inside that of the
\* nearest TabFrame above it, or else inside the window's.
THEOREM HostedHolds == Spec => []Hosted
<1>1. (tidy => ShownInv) => Hosted
  BY DEF ShownInv, NativeInv, Belongs, Hosted
<1> QED
  BY <1>1, TidyNative, PTL

\* With tidy clients every registered widget is shown exactly when it and all
\* above it are visible.
THEOREM ShownAsVisibleHolds == Spec => []ShownAsVisible
<1>1. (tidy => ShownInv) => ShownAsVisible
  BY DEF ShownInv, NativeInv, ShownAsVisible
<1> QED
  BY <1>1, TidyNative, PTL
=============================================================================
