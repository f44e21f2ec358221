-------------------------- MODULE RadioGroup_proofs -------------------------
(***************************************************************************)
(* Proofs about RadioGroup, for any set of items.                          *)
(***************************************************************************)
EXTENDS RadioGroup, TLAPS

\* An item that is in a group at all is in its own group: what makes checking
\* it reach its own native button.
SelfMember == \A i \in Items : group[i] # {} => i \in group[i]

\* Exclusion over all addresses that list each other; the destroyed ones keep
\* their last values, which is harmless because New empties the group.
Exclusion ==
    \A i, j \in alive : Mutual(i, j) => /\ checked[i] => ~checked[j]
                                        /\ native[i] => ~native[j]

\* The inductive invariant behind MutualExclusion.
ExclusionInv == TypeOK /\ SelfMember /\ Exclusion

\* The variables have their types.
THEOREM TypeCorrect == Spec => []TypeOK
<1>1. Init => TypeOK
  BY DEF Init, TypeOK
<1>2. TypeOK /\ [Next]_vars => TypeOK'
  <2> SUFFICES ASSUME TypeOK, [Next]_vars PROVE TypeOK'
    OBVIOUS
  <2>1. ASSUME NEW i \in Items, New(i) PROVE TypeOK'
    BY <2>1 DEF New, TypeOK
  <2>2. ASSUME NEW list \in SUBSET Items, NEW first \in list, Group(list, first)
        PROVE TypeOK'
    BY <2>2 DEF Group, Whole, TypeOK
  <2>3. ASSUME NEW i \in Items, SetChecked(i) \/ OnActivate(i) PROVE TypeOK'
    BY <2>3 DEF SetChecked, OnActivate, Check, NativeSetChecked, TypeOK
  <2>4. ASSUME NEW i \in Items, Orphan(i) PROVE TypeOK'
    BY <2>4 DEF Orphan, NativeSetChecked, TypeOK
  <2>5. ASSUME NEW i \in Items, Destroy(i) PROVE TypeOK'
    BY <2>5 DEF Destroy, TypeOK
  <2>6. CASE UNCHANGED vars
    BY <2>6 DEF vars, TypeOK
  <2> QED
    BY <2>1, <2>2, <2>3, <2>4, <2>5, <2>6 DEF Next
<1> QED
  BY <1>1, <1>2, PTL DEF Spec

\* ExclusionInv survives every step, with or without whole regrouping.
LEMMA ExclusionStep == ExclusionInv /\ [Next]_vars => ExclusionInv'
<1> SUFFICES ASSUME ExclusionInv, [Next]_vars PROVE ExclusionInv'
  OBVIOUS
<1> USE DEF ExclusionInv, SelfMember, Exclusion, Mutual, TypeOK
<1>1. ASSUME NEW i \in Items, New(i) PROVE ExclusionInv'
  BY <1>1 DEF New
<1>2. ASSUME NEW list \in SUBSET Items, NEW first \in list, Group(list, first)
      PROVE ExclusionInv'
  BY <1>2 DEF Group
<1>3. ASSUME NEW i \in Items, SetChecked(i) \/ OnActivate(i) PROVE ExclusionInv'
  BY <1>3 DEF SetChecked, OnActivate, Check, NativeSetChecked
<1>4. ASSUME NEW i \in Items, Orphan(i) PROVE ExclusionInv'
  <2>1. CASE checked[i]
    BY <1>4, <2>1 DEF Orphan, NativeSetChecked
  <2>2. CASE ~checked[i]
    BY <1>4, <2>2 DEF Orphan
  <2> QED
    BY <2>1, <2>2
<1>5. ASSUME NEW i \in Items, Destroy(i) PROVE ExclusionInv'
  BY <1>5 DEF Destroy
<1>6. CASE UNCHANGED vars
  BY <1>6 DEF vars
<1> QED
  BY <1>1, <1>2, <1>3, <1>4, <1>5, <1>6 DEF Next

\* Two live items that list each other are never both checked, in state or on
\* screen, however clients regroup.
THEOREM ExclusionHolds == Spec => []MutualExclusion
<1>1. Init => ExclusionInv
  BY DEF Init, ExclusionInv, TypeOK, SelfMember, Exclusion
<1>2. ExclusionInv => MutualExclusion
  BY DEF ExclusionInv, Exclusion, MutualExclusion
<1> QED
  BY <1>1, <1>2, ExclusionStep, PTL DEF Spec

-----------------------------------------------------------------------------
\* Groups as the clients that regroup whole groups keep them: the members of
\* a live item's group are alive and agree with it about the group.
Shared ==
    whole => \A i \in alive : \A j \in group[i] :
        /\ j \in alive
        /\ group[j] = group[i]

\* The inductive invariant behind NoDangling and NativeMatches.
WholeInv == TypeOK /\ SelfMember /\ Exclusion /\ Shared /\ NativeMatches

\* WholeInv survives every step when clients regroup whole groups.
LEMMA WholeStep ==
  ASSUME WholeInv, [Next]_vars
  PROVE  WholeInv'
<1> SUFFICES ASSUME whole'
             PROVE  TypeOK' /\ SelfMember' /\ Shared' /\ NativeMatches'
  BY ExclusionStep DEF WholeInv, ExclusionInv, Shared, NativeMatches
<1>0. whole
  BY DEF Next, vars, New, Group, SetChecked, OnActivate, Check, Orphan, Destroy, WholeInv, TypeOK
<1> DEFINE Kept == TypeOK' /\ SelfMember' /\ Shared' /\ NativeMatches'
<1> USE DEF WholeInv, SelfMember, Shared, NativeMatches, TypeOK
<1>1. ASSUME NEW i \in Items, New(i) PROVE Kept
  BY <1>1 DEF New
<1>2. ASSUME NEW list \in SUBSET Items, NEW first \in list, Group(list, first)
      PROVE Kept
  BY <1>2 DEF Group, Whole
<1>3. ASSUME NEW i \in Items, SetChecked(i) \/ OnActivate(i) PROVE Kept
  <2>1. Check(i) /\ activated' \in Items \union {NoItem}
    BY <1>3 DEF SetChecked, OnActivate
  <2>2. TypeOK' /\ SelfMember' /\ Shared'
    BY <2>1 DEF Check, NativeSetChecked
  <2>3. ASSUME NEW k \in alive', group'[k] # {} PROVE native'[k] <=> checked'[k]
    <3>1. CASE k \in group[i]
      BY <2>1, <2>3, <3>1 DEF Check, NativeSetChecked
    <3>2. CASE k \notin group[i]
      <4>1. k # i
        BY <2>1, <2>3, <3>2 DEF Check
      <4>2. native'[k] = native[k] /\ checked'[k] = checked[k]
        BY <2>1, <2>3, <3>2, <4>1 DEF Check, NativeSetChecked
      <4> QED
        BY <2>1, <2>3, <4>2 DEF Check
    <3> QED
      BY <3>1, <3>2
  <2> QED
    BY <2>2, <2>3
<1>4. ASSUME NEW i \in Items, Orphan(i) PROVE Kept
  <2>1. TypeOK' /\ SelfMember' /\ Shared'
    BY <1>4 DEF Orphan, NativeSetChecked
  <2>2. ASSUME NEW k \in alive, group[k] # {} PROVE native'[k] <=> checked[k]
    <3>1. CASE checked[i] /\ k \in group[i]
      \* The group was shared, so i was checked natively and the others were not.
      <4>1. k # i => ~checked[k]
        BY <1>4, <2>2, <3>1 DEF Orphan, Exclusion, Mutual
      <4>2. native'[k] <=> k = i
        BY <1>4, <2>2, <3>1 DEF Orphan, NativeSetChecked
      <4> QED
        BY <3>1, <4>1, <4>2
    <3>2. CASE checked[i] /\ k \notin group[i]
      <4>1. k # i
        BY <2>2, <3>2
      <4>2. native'[k] = native[k]
        BY <1>4, <2>2, <3>2, <4>1 DEF Orphan, NativeSetChecked
      <4> QED
        BY <1>0, <2>2, <4>2
    <3>3. CASE ~checked[i]
      BY <1>4, <2>2, <3>3 DEF Orphan
    <3> QED
      BY <3>1, <3>2, <3>3
  <2> QED
    BY <1>4, <2>1, <2>2 DEF Orphan
<1>5. ASSUME NEW i \in Items, Destroy(i) PROVE Kept
  <2>1. TypeOK' /\ SelfMember'
    BY <1>5 DEF Destroy
  <2>2. ASSUME NEW k \in alive', NEW j \in group'[k]
        PROVE j \in alive' /\ group'[j] = group'[k]
    <3>1. k \in alive /\ k # i /\ j \in group[k] /\ j \in alive /\ group[j] = group[k]
      BY <1>5, <2>2 DEF Destroy
    <3>2. CASE k \in group[i]
      <4>1. group[k] = group[i] /\ group'[k] = group[i] \ {i} /\ j # i
        BY <1>5, <2>2, <3>1, <3>2 DEF Destroy
      <4> QED
        BY <1>5, <3>1, <4>1 DEF Destroy
    <3>3. CASE k \notin group[i]
      <4>1. j \notin group[i] /\ j # i
        BY <1>5, <3>1, <3>3 DEF Destroy
      <4> QED
        BY <1>5, <3>1, <3>3, <4>1 DEF Destroy
    <3> QED
      BY <3>2, <3>3
  <2>3. ASSUME NEW k \in alive', group'[k] # {} PROVE group[k] # {}
    BY <1>5, <2>3 DEF Destroy
  <2> QED
    BY <1>5, <2>1, <2>2, <2>3 DEF Destroy
<1>6. CASE UNCHANGED vars
  BY <1>6 DEF vars
<1> QED
  BY <1>1, <1>2, <1>3, <1>4, <1>5, <1>6 DEF Next

\* Under whole regrouping no group lists a destroyed item and every grouped
\* item shows its state.
THEOREM WholeGroupsSafe == Spec => [](NoDangling /\ NativeMatches)
<1>1. Init => WholeInv
  BY DEF Init, WholeInv, TypeOK, SelfMember, Exclusion, Shared, NativeMatches
<1>2. WholeInv /\ [Next]_vars => WholeInv'
  BY WholeStep
<1>3. WholeInv => NoDangling /\ NativeMatches
  BY DEF WholeInv, Shared, NoDangling
<1> QED
  BY <1>1, <1>2, <1>3, PTL DEF Spec

\* So an item that is checked has only live items to uncheck.
THEOREM NoDanglingHolds == Spec => []NoDangling
BY WholeGroupsSafe, PTL
-----------------------------------------------------------------------------
\* Regrouping whole groups, checking and re-creating leave each group that has
\* a selection with one: those outside of what the step changes lose none of it.
LEMMA SelectionStep ==
  ASSUME WholeInv, Next, whole', alive \subseteq alive',
         NEW k \in alive, NEW c \in Choice(k)
  PROVE  Choice(k)' # {}
<1>0. /\ whole /\ k \in Items /\ c \in group[k] /\ checked[c] /\ c \in alive /\ c \in Items
      /\ \A j \in alive : \A n \in group[j] : n \in alive /\ group[n] = group[j]
      /\ \A j \in Items : group[j] # {} => j \in group[j]
      /\ alive \subseteq Items /\ checked \in [Items -> BOOLEAN] /\ group \in [Items -> SUBSET Items]
  <2>1. whole
    BY DEF Next, New, Group, SetChecked, OnActivate, Check, Orphan, Destroy, WholeInv, TypeOK
  <2> QED
    BY <2>1 DEF WholeInv, TypeOK, SelfMember, Shared, Choice
<1>1. ASSUME NEW i \in Items, New(i) PROVE c \in Choice(k)'
  BY <1>0, <1>1 DEF New, Choice
<1>2. ASSUME NEW list \in SUBSET Items, NEW first \in list, Group(list, first)
      PROVE  Choice(k)' # {}
  <2>1. CASE k \in list
    <3>1. first \in group'[k] /\ checked'[first]
      BY <1>0, <1>2, <2>1 DEF Group
    <3> QED
      BY <3>1 DEF Choice
  <2>2. CASE k \notin list
    <3>1. c \notin list
      BY <1>0, <1>2, <2>2 DEF Group, Whole
    <3>2. c \in group'[k] /\ checked'[c]
      BY <1>0, <1>2, <2>2, <3>1 DEF Group
    <3> QED
      BY <3>2 DEF Choice
  <2> QED
    BY <2>1, <2>2
<1>3. ASSUME NEW i \in Items, Check(i) PROVE Choice(k)' # {}
  <2>1. CASE i \in group[k]
    <3>1. i \in group'[k] /\ checked'[i]
      BY <1>0, <1>3, <2>1 DEF Check
    <3> QED
      BY <3>1 DEF Choice
  <2>2. CASE i \notin group[k]
    <3>1. c \notin group[i] /\ c # i
      BY <1>0, <1>3, <2>2 DEF Check
    <3>2. c \in group'[k] /\ checked'[c]
      BY <1>0, <1>3, <3>1 DEF Check
    <3> QED
      BY <3>2 DEF Choice
  <2> QED
    BY <2>1, <2>2
<1>4. ASSUME NEW i \in Items, Orphan(i) PROVE c \in Choice(k)'
  BY <1>0, <1>4 DEF Orphan, Choice
<1>5. ASSUME NEW i \in Items, Destroy(i) PROVE FALSE
  BY <1>5 DEF Destroy
<1> QED
  BY <1>1, <1>2, <1>3, <1>4, <1>5 DEF Next, SetChecked, OnActivate

\* With whole regrouping a group keeps its selection until somebody is destroyed.
THEOREM SelectionKeptHolds == Spec => SelectionKept
<1> DEFINE Kept == whole' /\ alive \subseteq alive' =>
                     \A i \in alive : Choice(i) # {} => Choice(i)' # {}
<1>1. WholeInv /\ [Next]_vars => [Kept]_vars
  <2> SUFFICES ASSUME WholeInv, Next PROVE Kept
    OBVIOUS
  <2> QED
    BY SelectionStep
<1>2. Init => WholeInv
  BY DEF Init, WholeInv, TypeOK, SelfMember, Exclusion, Shared, NativeMatches
<1>3. [][Kept]_vars => SelectionKept
  BY DEF SelectionKept
<1> HIDE DEF Kept
<1>4. WholeInv /\ [Next]_vars => WholeInv'
  BY WholeStep
<1> QED
  BY <1>1, <1>2, <1>3, <1>4, PTL DEF Spec

\* However the program regroups: when a callback runs, its item is the one
\* choice of its group, and only that group has lost marks.
THEOREM CallbackSeesChoiceHolds == Spec => CallbackSeesChoice
<1> DEFINE Sees == \A i \in Items : activated' = i =>
                     /\ group[i] # {} => Choice(i)' = {i}
                     /\ \A j \in alive : checked[j] /\ ~checked'[j] => j \in group[i]
<1>1. ExclusionInv /\ [Next]_vars => [Sees]_vars
  <2> SUFFICES ASSUME ExclusionInv, Next, NEW i \in Items, activated' = i
               PROVE  /\ group[i] # {} => Choice(i)' = {i}
                      /\ \A j \in alive : checked[j] /\ ~checked'[j] => j \in group[i]
    OBVIOUS
  <2>1. OnActivate(i)
    BY RadioAssumption DEF Next, New, Group, SetChecked, OnActivate, Orphan, Destroy
  <2>2. /\ checked' = [j \in Items |-> IF j = i THEN TRUE
                                       ELSE IF j \in group[i] THEN FALSE ELSE checked[j]]
        /\ group' = group
    BY <2>1 DEF OnActivate, Check
  <2>3. /\ group[i] \subseteq Items /\ (group[i] # {} => i \in group[i])
        /\ alive \subseteq Items
    BY DEF ExclusionInv, TypeOK, SelfMember
  <2> QED
    BY <2>2, <2>3 DEF Choice
<1>2. Init => ExclusionInv
  BY DEF Init, ExclusionInv, TypeOK, SelfMember, Exclusion
<1>3. [][Sees]_vars => CallbackSeesChoice
  BY DEF CallbackSeesChoice
<1> HIDE DEF Sees
<1> QED
  BY <1>1, <1>2, <1>3, ExclusionStep, PTL DEF Spec
=============================================================================
