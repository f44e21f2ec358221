--------------------------- MODULE Controls_proofs --------------------------
(***************************************************************************)
(* Proofs about single controls over all four toolkits: Combo, ListRows,   *)
(* TabStrip, Slider and Timers.  Each invariant is the property with what  *)
(* a step needs of the states in which the property says nothing: a combo  *)
(* button and a tab frame without rows, a list that is being emptied, a    *)
(* slider whose native maximum clamps its value, a timer without a source. *)
(***************************************************************************)
EXTENDS Combo, ListRows, TabStrip, Slider, Timers, SequenceTheorems, FiniteSetTheorems, TLAPS

-----------------------------------------------------------------------------
\* What removing, replacing and appending does to a sequence.
LEMMA RemovedAt ==
  ASSUME NEW T, NEW s \in Seq(T), NEW i \in 1..Len(s)
  PROVE  /\ RemoveAt(s, i) \in Seq(T) /\ Len(RemoveAt(s, i)) = Len(s) - 1
         /\ \A n \in 1..Len(s) - 1 : RemoveAt(s, i)[n] = IF n < i THEN s[n] ELSE s[n + 1]
<1> DEFINE a == SubSeq(s, 1, i - 1)
           b == SubSeq(s, i + 1, Len(s))
<1>1. Len(s) \in Nat /\ i \in Int /\ 1 <= i /\ i <= Len(s)
  BY LenProperties
<1>2. \A n \in 1..Len(s) : s[n] \in T
  BY ElementOfSeq
<1>3. a \in Seq(T) /\ Len(a) = i - 1 /\ \A n \in 1..i - 1 : a[n] = s[n]
  <2>1. \A n \in 1..i - 1 : s[n] \in T
    BY <1>1, <1>2
  <2>2. /\ a \in Seq(T)
        /\ Len(a) = IF 1 <= i - 1 THEN i - 1 - 1 + 1 ELSE 0
        /\ \A n \in 1..i - 1 - 1 + 1 : a[n] = s[1 + n - 1]
    BY <1>1, <2>1, SubSeqProperties
  <2> HIDE DEF a
  <2>3. \A n \in 1..i - 1 : n \in 1..i - 1 - 1 + 1 /\ 1 + n - 1 = n
    BY <1>1
  <2> QED
    BY <1>1, <2>2, <2>3
<1>4. b \in Seq(T) /\ Len(b) = Len(s) - i /\ \A n \in 1..Len(s) - i : b[n] = s[i + n]
  <2>1. \A n \in i + 1..Len(s) : s[n] \in T
    BY <1>1, <1>2
  <2>2. /\ b \in Seq(T)
        /\ Len(b) = IF i + 1 <= Len(s) THEN Len(s) - (i + 1) + 1 ELSE 0
        /\ \A n \in 1..Len(s) - (i + 1) + 1 : b[n] = s[i + 1 + n - 1]
    BY <1>1, <2>1, SubSeqProperties
  <2> HIDE DEF b
  <2>3. \A n \in 1..Len(s) - i : n \in 1..Len(s) - (i + 1) + 1 /\ i + 1 + n - 1 = i + n
    BY <1>1
  <2> QED
    BY <1>1, <2>2, <2>3
<1>5. RemoveAt(s, i) = a \o b
  BY DEF RemoveAt
<1> HIDE DEF a, b
<1>6. /\ a \o b \in Seq(T) /\ Len(a \o b) = Len(a) + Len(b)
      /\ \A n \in 1..Len(a) + Len(b) : (a \o b)[n] = IF n <= Len(a) THEN a[n] ELSE b[n - Len(a)]
  BY <1>3, <1>4, ConcatProperties
<1>7. ASSUME NEW n \in 1..Len(s) - 1 PROVE (a \o b)[n] = IF n < i THEN s[n] ELSE s[n + 1]
  <2>1. (a \o b)[n] = IF n <= i - 1 THEN a[n] ELSE b[n - (i - 1)]
    BY <1>1, <1>3, <1>4, <1>6
  <2>2. CASE n < i
    BY <1>1, <1>3, <2>1, <2>2
  <2>3. CASE ~(n < i)
    <3>1. n - (i - 1) \in 1..Len(s) - i /\ i + (n - (i - 1)) = n + 1
      BY <1>1, <2>3
    <3> QED
      BY <1>1, <1>4, <2>1, <2>3, <3>1
  <2> QED
    BY <2>2, <2>3
<1> QED
  BY <1>1, <1>3, <1>4, <1>5, <1>6, <1>7

LEMMA ReplacedAt ==
  ASSUME NEW T, NEW s \in Seq(T), NEW i \in 1..Len(s), NEW e \in T
  PROVE  ReplaceAt(s, i, e) \in Seq(T) /\ Len(ReplaceAt(s, i, e)) = Len(s)
BY ExceptSeq DEF ReplaceAt

LEMMA Appended ==
  ASSUME NEW T, NEW s \in Seq(T), NEW x \in T
  PROVE  /\ Append(s, x) \in Seq(T) /\ Append(s, x) # <<>>
         /\ Len(s) \in Nat /\ Len(Append(s, x)) = Len(s) + 1
         /\ \A i \in 1..Len(s) : Append(s, x)[i] = s[i]
         /\ Append(s, x)[Len(s) + 1] = x
<1>1. /\ Append(s, x) \in Seq(T) /\ Len(s) \in Nat /\ Len(Append(s, x)) = Len(s) + 1
      /\ \A i \in 1..Len(s) : Append(s, x)[i] = s[i]
      /\ Append(s, x)[Len(s) + 1] = x
  BY AppendProperties, LenProperties
<1>2. Append(s, x) # <<>>
  BY <1>1, EmptySeq
<1> QED
  BY <1>1, <1>2

-----------------------------------------------------------------------------
\* The invariant of combo buttons: the native control selects one of the rows
\* or none, and where the first row does not notify, the object says 0 until
\* there is one.
ComboInv ==
    /\ toolkit \in Toolkits /\ careful \in BOOLEAN
    /\ text \in Seq(Texts) /\ selection \in Int /\ active \in -1..Len(text) - 1
    /\ careful /\ text = <<>> /\ toolkit \in {"windows", "cocoa"} => selection = 0
    /\ SameRow

\* The rows, by their number.
LEMMA RowsAre ==
  ASSUME text \in Seq(Texts)
  PROVE  Rows = 0..Len(text) - 1 /\ Len(text) \in Nat /\ (text = <<>> <=> Len(text) = 0)
BY EmptySeq, LenProperties DEF Rows

\* append: the first row is selected on both sides.
LEMMA AddTextKeeps ==
  ASSUME ComboInv, NEW t \in Texts, AddText(t)
  PROVE  ComboInv' /\ (careful' => Choice!AddRow(t))
<1>1. /\ toolkit \in Toolkits /\ careful \in BOOLEAN /\ text \in Seq(Texts)
      /\ selection \in Int /\ active \in -1..Len(text) - 1
      /\ careful /\ text = <<>> /\ toolkit \in {"windows", "cocoa"} => selection = 0
  BY DEF ComboInv
<1>2. /\ text' = Append(text, t) /\ told' = FALSE /\ toolkit' = toolkit /\ careful' = careful
      /\ active' = IF text = <<>> THEN 0 ELSE active
      /\ selection' = IF text = <<>> /\ toolkit \in {"gtk", "qt"} THEN 0 ELSE selection
  BY <1>1 DEF AddText, Silent, SilentIf
<1>3. /\ text' \in Seq(Texts) /\ text' # <<>> /\ Len(text) \in Nat /\ Len(text') = Len(text) + 1
  BY <1>1, <1>2, Appended
<1>4. Rows' = 0..Len(text) /\ Rows = 0..Len(text) - 1
  BY <1>3 DEF Rows
<1>5. ASSUME careful \/ toolkit = "qt", text = <<>> PROVE selection' = 0
  BY <1>1, <1>2, <1>5 DEF Toolkits
<1>6. SameRow'
  <2>1. CASE text = <<>>
    BY <1>2, <1>3, <1>4, <1>5, <2>1 DEF SameRow
  <2>2. CASE text # <<>>
    BY <1>1, <1>2, <1>3, <1>4, <2>2 DEF SameRow, ComboInv
  <2> QED
    BY <2>1, <2>2
<1>7. careful' => Choice!AddRow(t)
  BY <1>2, <1>3, <1>5 DEF Choice!AddRow
<1> QED
  BY <1>1, <1>2, <1>3, <1>6, <1>7 DEF ComboInv

\* A row is left when one of several goes.
LEMMA RowLeft ==
  ASSUME NEW n \in Nat, n # 0, n - 1 # 0, NEW k \in Int, 0 <= k
  PROVE  /\ 0 \in 0..n - 2
         /\ \A a : a = (IF k < n - 1 THEN k ELSE n - 1 - 1) => 0 <= a
OBVIOUS

\* remove, by toolkit: what becomes of the selection of both sides.
LEMMA RemovedSelection ==
  ASSUME ComboInv, NEW k \in Rows, RemoveText(k)
  PROVE  /\ text' = RemoveAt(text, k + 1) /\ text' \in Seq(Texts) /\ Len(text') = Len(text) - 1
         /\ toolkit' = toolkit /\ told' = FALSE /\ careful' = (careful /\ Careful(k))
         /\ selection' \in Int /\ active' \in -1..Len(text') - 1
         /\ toolkit = "qt" /\ text' # <<>> => selection' = active' /\ active' \in Rows'
         /\ careful' /\ text' # <<>> => selection' = active' /\ active' \in Rows'
         /\ careful' /\ text' = <<>> /\ toolkit # "qt" => selection' = selection
         /\ careful' /\ text' # <<>> =>
               IF k = selection THEN selection' \in 0..Len(text) - 2
               ELSE selection' = IF k < selection THEN selection - 1 ELSE selection
<1>1. /\ toolkit \in Toolkits /\ careful \in BOOLEAN /\ text \in Seq(Texts)
      /\ selection \in Int /\ active \in -1..Len(text) - 1 /\ Len(text) \in Nat /\ Rows = 0..Len(text) - 1
      /\ k \in Int /\ 0 <= k /\ k < Len(text) /\ text # <<>>
  BY RowsAre DEF ComboInv
<1>2. text' = RemoveAt(text, k + 1) /\ text' \in Seq(Texts) /\ Len(text') = Len(text) - 1
  <2>1. k + 1 \in 1..Len(text)
    BY <1>1
  <2> QED
    BY <1>1, <2>1, RemovedAt DEF RemoveText
<1>3. (text' = <<>> <=> Len(text) - 1 = 0) /\ Rows' = 0..Len(text) - 2
  BY <1>1, <1>2, EmptySeq DEF Rows
<1>4. toolkit' = toolkit /\ told' = FALSE /\ careful' = (careful /\ Careful(k))
  BY DEF RemoveText, SilentIf
<1>5. PICK a \in Landing(k, Len(text) - 1) : Removed(k, a)
  BY DEF RemoveText
<1>6. /\ k # active => a = IF active > k THEN active - 1 ELSE active
      /\ Len(text) - 1 = 0 /\ k = active => a = -1
      /\ toolkit \in {"windows", "gtk"} /\ k = active => a = -1
      /\ toolkit = "qt" /\ k = active /\ Len(text) - 1 # 0 =>
            a = IF k < Len(text) - 1 THEN k ELSE Len(text) - 1 - 1
      /\ a \in -1..Len(text) - 2
  <2>1. CASE k # active
    <3>1. a = IF active > k THEN active - 1 ELSE active
      BY <1>1, <1>5, <2>1 DEF Landing, After
    <3> QED
      BY <1>1, <2>1, <3>1
  <2>2. CASE k = active
    <3>1. a \in IF Len(text) - 1 = 0 \/ toolkit \in {"windows", "gtk"} THEN {-1}
                ELSE IF toolkit = "qt" THEN {IF k < Len(text) - 1 THEN k ELSE Len(text) - 1 - 1}
                ELSE 0..Len(text) - 2
      BY <1>1, <1>5, <2>2 DEF Landing, After
    <3> QED
      BY <1>1, <2>2, <3>1
  <2> QED
    BY <2>1, <2>2
<1> DEFINE seen == IF toolkit = "qt" THEN a ELSE selection
           reset == k = seen /\ text' # <<>> /\ toolkit # "cocoa"
<1>7. selection' = (IF reset THEN 0 ELSE seen) /\ active' = (IF reset THEN 0 ELSE a)
  BY <1>5 DEF Removed
<1>8. careful \/ toolkit = "qt" => selection = active /\ 0 <= active /\ active < Len(text)
  BY <1>1 DEF ComboInv, SameRow
<1>9. selection' \in Int /\ active' \in -1..Len(text') - 1
  BY <1>1, <1>2, <1>3, <1>6, <1>7
<1>10. ASSUME toolkit = "qt"
       PROVE  /\ text' # <<>> => selection' = active' /\ active' \in Rows'
              /\ careful' /\ text' # <<>> =>
                    IF k = selection THEN selection' \in 0..Len(text) - 2
                    ELSE selection' = IF k < selection THEN selection - 1 ELSE selection
  <2>1. seen = a /\ selection = active /\ 0 <= active
    BY <1>8, <1>10
  <2>2. ASSUME text' # <<>> PROVE 0 <= a
    <3>1. Len(text) - 1 # 0
      BY <1>3, <2>2
    <3>2. CASE k = active
      <4>1. a = IF k < Len(text) - 1 THEN k ELSE Len(text) - 1 - 1
        BY <1>6, <1>10, <3>1, <3>2
      <4>2. Len(text) \in Nat /\ Len(text) # 0 /\ k \in Int /\ 0 <= k
        BY <1>1
      <4> QED
        BY <3>1, <4>1, <4>2, RowLeft
    <3>3. CASE k # active
      BY <1>1, <1>6, <2>1, <3>3
    <3> QED
      BY <3>2, <3>3
  <2>3. text' # <<>> => selection' = active' /\ active' \in Rows'
    BY <1>1, <1>3, <1>6, <1>7, <2>1, <2>2
  <2>4. ASSUME careful', text' # <<>>, k # selection
        PROVE  selection' = IF k < selection THEN selection - 1 ELSE selection
    <3>1. k # selection - 1
      BY <1>4, <1>10, <2>4 DEF Careful
    <3>2. a = IF selection > k THEN selection - 1 ELSE selection
      BY <1>6, <2>1, <2>4
    <3>3. k # a
      BY <1>1, <2>4, <3>1, <3>2
    <3> QED
      BY <1>1, <1>7, <2>1, <3>2, <3>3
  <2> QED
    BY <1>3, <1>1, <2>3, <2>4
<1>11. ASSUME toolkit # "qt", careful'
       PROVE  /\ text' # <<>> => selection' = active' /\ active' \in Rows'
              /\ text' = <<>> => selection' = selection
              /\ text' # <<>> =>
                    IF k = selection THEN selection' \in 0..Len(text) - 2
                    ELSE selection' = IF k < selection THEN selection - 1 ELSE selection
  <2>0. careful /\ Careful(k)
    BY <1>4, <1>11
  <2>1. /\ seen = selection /\ selection = active /\ 0 <= active /\ k >= selection
        /\ (toolkit = "cocoa" => k > selection)
    <3>1. selection = active /\ 0 <= active
      BY <1>8, <2>0
    <3>2. k >= selection /\ (toolkit = "cocoa" => k > selection)
      BY <1>1, <1>11, <2>0 DEF Careful
    <3> QED
      BY <1>11, <3>1, <3>2
  <2>2. CASE k = selection
    <3>1. toolkit # "cocoa"
      BY <1>1, <2>1, <2>2
    <3>2. text' # <<>> => selection' = 0 /\ active' = 0 /\ Len(text) - 1 # 0
      BY <1>3, <1>7, <2>1, <2>2, <3>1
    <3>3. text' = <<>> => selection' = selection
      BY <1>7, <2>1
    <3>4. text' # <<>> => 0 \in 0..Len(text) - 2
      <4>1. Len(text) \in Nat /\ Len(text) # 0 /\ k \in Int /\ 0 <= k
        BY <1>1
      <4> QED
        BY <3>2, <4>1, RowLeft
    <3> QED
      BY <1>3, <2>2, <3>2, <3>3, <3>4
  <2>3. CASE k # selection
    <3>1. ~reset /\ a = active /\ k > selection
      BY <1>1, <1>6, <2>1, <2>3
    <3> QED
      BY <1>1, <1>3, <1>7, <2>1, <2>3, <3>1
  <2> QED
    BY <2>2, <2>3
<1> QED
  BY <1>2, <1>4, <1>9, <1>10, <1>11

LEMMA RemoveTextKeeps ==
  ASSUME ComboInv, NEW k \in Rows, RemoveText(k)
  PROVE  ComboInv' /\ (careful' => Choice!DropRow(k))
<1>1. Len(text) \in Nat /\ Len(text) # 0 /\ text # <<>> /\ k \in 0..Len(text) - 1
  BY RowsAre DEF ComboInv
<1>2. toolkit' \in Toolkits /\ careful' \in BOOLEAN
  <2>1. toolkit' = toolkit /\ careful' = (careful /\ Careful(k))
    BY RemovedSelection
  <2> QED
    BY <2>1 DEF ComboInv
<1>3. ComboInv'
  <2>1. ASSUME careful', text' = <<>>, toolkit \in {"windows", "cocoa"} PROVE selection' = 0
    <3>1. selection' = selection /\ Len(text') = 0
      BY <2>1, RemovedSelection, EmptySeq
    <3>2. Len(text) = 1
      <4>1. Len(text') = Len(text) - 1
        BY RemovedSelection
      <4> QED
        BY <1>1, <3>1, <4>1
    <3>3. careful
      BY <2>1, RemovedSelection
    <3> QED
      BY <1>1, <3>1, <3>2, <3>3, RowsAre DEF ComboInv, SameRow
  <2>2. SameRow'
    <3>1. toolkit' = toolkit
      BY RemovedSelection
    <3>2. toolkit = "qt" /\ text' # <<>> => selection' = active' /\ active' \in Rows'
      BY RemovedSelection
    <3>3. careful' /\ text' # <<>> => selection' = active' /\ active' \in Rows'
      BY RemovedSelection
    <3> QED
      BY <3>1, <3>2, <3>3 DEF SameRow
  <2> QED
    BY <1>2, <2>1, <2>2, RemovedSelection DEF ComboInv
<1>4. ASSUME careful' PROVE Choice!DropRow(k)
  <2>1. text' = Choice!RemoveAt(text, k + 1) /\ told' = FALSE
    BY RemovedSelection DEF RemoveAt, Choice!RemoveAt
  <2> QED
    BY <1>1, <1>4, <2>1, RemovedSelection DEF Choice!DropRow
<1> QED
  BY <1>3, <1>4

\* reset, setSelection and setText.
LEMMA ResetTextsKeeps ==
  ASSUME ComboInv, ResetTexts
  PROVE  ComboInv' /\ Choice!DropAll
<1>1. /\ text' = <<>> /\ active' = -1 /\ toolkit' = toolkit /\ careful' = careful /\ told' = FALSE
      /\ selection' \in {0, -1} /\ (toolkit # "qt" => selection' = 0)
  BY DEF ResetTexts, Silent, SilentIf, ComboInv
<1>2. text' \in Seq(Texts) /\ Len(text') = 0
  BY <1>1, EmptySeq
<1>3. ComboInv'
  BY <1>1, <1>2 DEF ComboInv, SameRow
<1>4. Choice!DropAll
  BY <1>1 DEF Choice!DropAll
<1> QED
  BY <1>3, <1>4

LEMMA SetSelectionKeeps ==
  ASSUME ComboInv, NEW k \in Rows, SetSelection(k) \/ OnChange(k)
  PROVE  /\ ComboInv'
         /\ SetSelection(k) => Choice!Choose(k)
         /\ OnChange(k) => Choice!Pick(k)
<1>1. /\ text' = text /\ active' = k /\ selection' = k /\ toolkit' = toolkit /\ careful' = careful
      /\ SetSelection(k) => told' = FALSE
      /\ OnChange(k) => told' = (toolkit = "windows" => k # selection)
  BY DEF SetSelection, OnChange, Silent, SilentIf, ComboInv
<1>2. Rows = 0..Len(text) - 1 /\ Len(text) \in Nat /\ text # <<>>
  BY RowsAre DEF ComboInv
<1>3. Rows' = Rows
  BY <1>1 DEF Rows
<1>4. ComboInv'
  BY <1>1, <1>2, <1>3 DEF ComboInv, SameRow
<1>5. SetSelection(k) => Choice!Choose(k)
  BY <1>1, <1>2 DEF Choice!Choose
<1>6. OnChange(k) => Choice!Pick(k)
  BY <1>1, <1>2 DEF Choice!Pick
<1> QED
  BY <1>4, <1>5, <1>6

LEMMA SetTextKeeps ==
  ASSUME ComboInv, NEW k \in Rows, NEW t \in Texts, SetText(k, t)
  PROVE  ComboInv' /\ Choice!Rename(k, t)
<1>1. /\ text' = ReplaceAt(text, k + 1, t)
      /\ active' = IF toolkit \in {"windows", "gtk"} THEN Shown(selection) ELSE active
      /\ selection' = selection /\ toolkit' = toolkit /\ careful' = careful /\ told' = FALSE
  BY DEF SetText, Silent, SilentIf, ComboInv
<1>2. Rows = 0..Len(text) - 1 /\ Len(text) \in Nat /\ text # <<>>
  BY RowsAre DEF ComboInv
<1>3. text' \in Seq(Texts) /\ Len(text') = Len(text)
  <2>1. k + 1 \in 1..Len(text)
    BY <1>2
  <2> QED
    BY <1>1, <2>1, ReplacedAt DEF ComboInv
<1>4. Rows' = Rows /\ text' # <<>>
  BY <1>2, <1>3, EmptySeq DEF Rows
<1>5. active' \in -1..Len(text') - 1
  BY <1>1, <1>2, <1>3 DEF Shown, ComboInv
<1>6. SameRow'
  BY <1>1, <1>2, <1>4 DEF ComboInv, SameRow, Shown
<1>7. ComboInv'
  BY <1>1, <1>3, <1>4, <1>5, <1>6 DEF ComboInv
<1>8. Choice!Rename(k, t)
  BY <1>1, <1>2, <1>4 DEF Choice!Rename, ReplaceAt, Choice!ReplaceAt
<1> QED
  BY <1>7, <1>8

\* orphan: what is restored is what was selected.
LEMMA OrphanComboKeeps ==
  ASSUME ComboInv, OrphanCombo
  PROVE  ComboInv' /\ (careful' => Choice!Rest)
<1>1. /\ text' = text /\ toolkit' = toolkit /\ told' = FALSE /\ toolkit # "cocoa"
      /\ careful' = (careful /\ (toolkit = "gtk" => selection = 0))
      /\ selection' = IF text # <<>> /\ (toolkit = "gtk" \/ (toolkit = "qt" /\ selection \notin Rows))
                      THEN 0 ELSE selection
      /\ active' = Shown(selection')
  BY DEF OrphanCombo, SilentIf
<1>2. /\ Rows = 0..Len(text) - 1 /\ Len(text) \in Nat /\ (text = <<>> <=> Len(text) = 0)
      /\ careful \in BOOLEAN /\ selection \in Int
  BY RowsAre DEF ComboInv
<1>3. Rows' = Rows
  BY <1>1 DEF Rows
<1>4. ASSUME careful' \/ toolkit = "qt" PROVE text # <<>> => selection' = selection /\ selection \in Rows
  BY <1>1, <1>4 DEF ComboInv, SameRow
<1>5. selection' \in Int /\ active' \in -1..Len(text') - 1
  BY <1>1, <1>2 DEF Shown
<1>6. SameRow'
  BY <1>1, <1>3, <1>4 DEF SameRow, Shown
<1>7. ComboInv'
  BY <1>1, <1>2, <1>5, <1>6 DEF ComboInv
<1>8. careful' => Choice!Rest
  BY <1>1, <1>4 DEF Choice!Rest
<1> QED
  BY <1>7, <1>8

\* The invariant holds from the start on.
LEMMA ComboHolds == ComboSpec => []ComboInv
<1>1. ComboInit => ComboInv
  BY EmptySeq DEF ComboInit, ComboInv, SameRow
<1>2. ComboInv /\ [ComboNext]_comboVars => ComboInv'
  <2> SUFFICES ASSUME ComboInv, [ComboNext]_comboVars PROVE ComboInv'
    OBVIOUS
  <2>1. CASE UNCHANGED comboVars
    BY <2>1 DEF comboVars, ComboInv, SameRow, Rows
  <2> QED
    BY <2>1, AddTextKeeps, RemoveTextKeeps, ResetTextsKeeps, SetSelectionKeeps, SetTextKeeps,
       OrphanComboKeeps DEF ComboNext
<1> QED
  BY <1>1, <1>2, PTL DEF ComboSpec

\* While there are rows the row selected on screen is the one the object names:
\* for every program on Qt, for careful ones on the other toolkits.
THEOREM SameRowHolds == ComboSpec => []SameRow
<1>1. ComboInv => SameRow
  BY DEF ComboInv
<1> QED
  BY <1>1, ComboHolds, PTL

\* For careful programs each of the four backends implements Chooser, call by call.
THEOREM ComboChooses == ComboSpec => Chooses
<1> DEFINE Each ==
      careful' =>
        /\ ResetTexts => Choice!DropAll
        /\ OrphanCombo => Choice!Rest
        /\ \A t \in Texts : AddText(t) => Choice!AddRow(t)
        /\ \A k \in Rows : /\ RemoveText(k) => Choice!DropRow(k)
                           /\ SetSelection(k) => Choice!Choose(k)
                           /\ OnChange(k) => Choice!Pick(k)
                           /\ \A t \in Texts : SetText(k, t) => Choice!Rename(k, t)
<1>1. ComboInv => Each
  BY AddTextKeeps, RemoveTextKeeps, ResetTextsKeeps, SetSelectionKeeps, SetTextKeeps, OrphanComboKeeps
<1>2. [][Each]_comboVars <=> Chooses
  BY DEF Chooses
<1> HIDE DEF Each
<1> QED
  BY <1>1, <1>2, ComboHolds, PTL
-----------------------------------------------------------------------------
\* The invariant of tab frames: a program that keeps to the rules has one of its
\* tabs in front, and on Windows, where the first tab does not notify, the object
\* says 0 until there is one.
Shows == {"none", "shown", "hidden"}
TabInv ==
    /\ toolkit \in Toolkits /\ orderly \in BOOLEAN /\ placed \in BOOLEAN
    /\ layouts \in Seq(Shows) /\ tab \in Int /\ front \in -1..Len(layouts) - 1
    /\ orderly /\ layouts = <<>> /\ toolkit = "windows" => tab = 0
    /\ orderly /\ layouts # <<>> => front # -1
    /\ FrontShown

\* The tabs, by their number.
LEMMA TabsAre ==
  ASSUME layouts \in Seq(Shows)
  PROVE  /\ Tabs = 0..Len(layouts) - 1 /\ Len(layouts) \in Nat
         /\ (layouts = <<>> <=> Len(layouts) = 0)
         /\ DOMAIN layouts = 1..Len(layouts)
BY EmptySeq, LenProperties DEF Tabs

\* synchronizeLayout shows the layout of one tab and hides the others.
LEMMA SynchronizedIs ==
  ASSUME NEW ls \in Seq(Shows), NEW k
  PROVE  /\ Synchronized(ls, k) \in Seq(Shows)
         /\ Len(Synchronized(ls, k)) = Len(ls)
         /\ DOMAIN Synchronized(ls, k) = 1..Len(ls)
         /\ \A n \in 1..Len(ls) : Synchronized(ls, k)[n] # "none" =>
               (Synchronized(ls, k)[n] = "shown" <=> n = k + 1)
<1> DEFINE is == [n \in 1..Len(ls) |-> IF ls[n] = "none" THEN "none"
                                       ELSE IF n = k + 1 THEN "shown" ELSE "hidden"]
<1>1. Len(ls) \in Nat /\ DOMAIN ls = 1..Len(ls)
  BY LenProperties
<1>2. Synchronized(ls, k) = is
  BY <1>1 DEF Synchronized
<1>3. \A n \in 1..Len(ls) : is[n] \in Shows
  BY DEF Shows
<1>4. is \in Seq(Shows) /\ Len(is) = Len(ls)
  BY <1>1, <1>3, IsASeq, LenProperties
<1> QED
  BY <1>1, <1>2, <1>4

\* A step that synchronizes the layouts with the tab it leaves in front.
LEMMA SwitchKeeps ==
  ASSUME NEW ls \in Seq(Shows), NEW k \in -1..Len(ls) - 1, Switch(ls, k),
         toolkit' \in Toolkits, orderly' \in BOOLEAN, placed' \in BOOLEAN,
         toolkit # "windows" \/ ls # <<>>, toolkit' = toolkit, ls # <<>> => k # -1
  PROVE  TabInv'
<1>1. front' = k /\ tab' = k /\ layouts' = Synchronized(ls, k)
  BY DEF Switch
<1>2. /\ layouts' \in Seq(Shows) /\ Len(layouts') = Len(ls) /\ DOMAIN layouts' = 1..Len(ls)
      /\ \A n \in 1..Len(ls) : layouts'[n] # "none" => (layouts'[n] = "shown" <=> n = k + 1)
  BY <1>1, SynchronizedIs
<1>3. (layouts' = <<>> <=> ls = <<>>) /\ Len(ls) \in Nat /\ k \in Int
  BY <1>2, EmptySeq, LenProperties
<1>4. FrontShown'
  BY <1>1, <1>2, <1>3 DEF FrontShown
<1> QED
  BY <1>1, <1>2, <1>3, <1>4 DEF TabInv

\* append: the first tab is in front; later ones have no layout to show.
LEMMA AppendTabKeeps ==
  ASSUME TabInv, AppendTab
  PROVE  TabInv'
<1> DEFINE ls == Append(layouts, "none")
<1>1. /\ toolkit' = toolkit /\ placed' = placed /\ orderly' = orderly
      /\ toolkit \in Toolkits /\ placed \in BOOLEAN /\ orderly \in BOOLEAN
      /\ tab \in Int /\ layouts \in Seq(Shows) /\ front \in -1..Len(layouts) - 1
  BY DEF AppendTab, TabInv
<1>2. /\ ls \in Seq(Shows) /\ ls # <<>> /\ Len(layouts) \in Nat /\ Len(ls) = Len(layouts) + 1
      /\ \A i \in 1..Len(layouts) : ls[i] = layouts[i]
      /\ ls[Len(layouts) + 1] = "none"
  <2>1. "none" \in Shows
    BY DEF Shows
  <2> QED
    BY <1>1, <2>1, Appended
<1>3. /\ DOMAIN ls = 1..Len(layouts) + 1 /\ DOMAIN layouts = 1..Len(layouts)
      /\ (layouts = <<>> <=> Len(layouts) = 0)
  BY <1>1, <1>2, LenProperties, EmptySeq
<1>4. /\ layouts # <<>> => Still(ls, front)
      /\ layouts = <<>> /\ toolkit = "windows" => Still(ls, 0)
      /\ layouts = <<>> /\ toolkit # "windows" => Switch(ls, 0)
  BY DEF AppendTab
<1> HIDE DEF ls
<1>5. CASE layouts # <<>>
  <2>1. front' = front /\ tab' = tab /\ layouts' = ls
    BY <1>4, <1>5 DEF Still
  <2>2. FrontShown'
    BY <1>1, <1>2, <1>3, <1>5, <2>1 DEF FrontShown, TabInv
  <2> QED
    BY <1>1, <1>2, <1>5, <2>1, <2>2 DEF TabInv
<1>6. CASE layouts = <<>> /\ toolkit = "windows"
  <2>1. front' = 0 /\ tab' = tab /\ layouts' = ls /\ Len(layouts) = 0
    BY <1>3, <1>4, <1>6 DEF Still
  <2>2. FrontShown'
    BY <1>1, <1>2, <1>3, <1>6, <2>1 DEF FrontShown, TabInv
  <2> QED
    BY <1>1, <1>2, <1>6, <2>1, <2>2 DEF TabInv
<1>7. CASE layouts = <<>> /\ toolkit # "windows"
  BY <1>1, <1>2, <1>4, <1>7, SwitchKeeps
<1> QED
  BY <1>5, <1>6, <1>7

\* remove, of a tab behind the one in front: those after it move, hidden.
LEMMA RemoveBehind ==
  ASSUME TabInv, NEW k \in Tabs, layouts' = RemoveAt(layouts, k + 1),
         orderly' = TRUE => orderly = TRUE, orderly' \in BOOLEAN,
         UNCHANGED <<toolkit, placed, tab>>, front' = After(front, k),
         orderly' = TRUE => k > front \/ (toolkit # "windows" /\ layouts' = <<>>)
  PROVE  TabInv'
<1> DEFINE L == Len(layouts)
<1>1. /\ toolkit \in Toolkits /\ placed \in BOOLEAN
      /\ tab \in Int /\ layouts \in Seq(Shows) /\ front \in -1..L - 1
      /\ L \in Nat /\ k \in 0..L - 1
  BY TabsAre DEF TabInv
<1>2. /\ layouts' \in Seq(Shows) /\ Len(layouts') = L - 1
      /\ \A n \in 1..L - 1 : layouts'[n] = IF n < k + 1 THEN layouts[n] ELSE layouts[n + 1]
  <2>1. k + 1 \in 1..L
    BY <1>1
  <2> QED
    BY <1>1, <2>1, RemovedAt
<1>3. /\ DOMAIN layouts' = 1..L - 1 /\ DOMAIN layouts = 1..L
      /\ (layouts' = <<>> <=> L - 1 = 0) /\ layouts # <<>>
  <2>1. layouts # <<>>
    BY <1>1, EmptySeq
  <2> QED
    BY <1>1, <1>2, <2>1, EmptySeq, LenProperties
<1> HIDE DEF L
<1>4. front' \in -1..L - 2
  BY <1>1 DEF After
<1>5. ASSUME orderly', layouts' # <<>>
      PROVE  /\ front' = tab /\ front' # -1
             /\ placed => \A n \in DOMAIN layouts' :
                             layouts'[n] # "none" => (layouts'[n] = "shown" <=> n - 1 = front')
  <2>1. orderly /\ k > front /\ front' = front
    BY <1>1, <1>5 DEF After
  <2>2. /\ front = tab /\ front # -1
        /\ placed => \A n \in 1..L : layouts[n] # "none" => (layouts[n] = "shown" <=> n - 1 = front)
    BY <1>3, <2>1 DEF TabInv, FrontShown
  <2>3. ASSUME placed, NEW n \in 1..L - 1, layouts'[n] # "none"
        PROVE  layouts'[n] = "shown" <=> n - 1 = front'
    <3>1. CASE n < k + 1
      BY <1>1, <1>2, <2>1, <2>2, <2>3, <3>1
    <3>2. CASE ~(n < k + 1)
      <4>1. layouts'[n] = layouts[n + 1] /\ n + 1 \in 1..L /\ n + 1 - 1 = n
        BY <1>1, <1>2, <3>2
      <4>2. layouts[n + 1] = "shown" <=> n = front
        BY <2>2, <2>3, <4>1
      <4>3. n # front /\ n - 1 # front
        BY <1>1, <2>1, <3>2
      <4> QED
        BY <2>1, <4>1, <4>2, <4>3
    <3> QED
      BY <3>1, <3>2
  <2> QED
    BY <1>3, <2>1, <2>2, <2>3
<1>6. ASSUME orderly', layouts' = <<>>, toolkit = "windows" PROVE FALSE
  <2>1. orderly /\ k > front /\ L - 1 = 0
    BY <1>3, <1>6
  <2> QED
    BY <1>1, <1>3, <2>1 DEF TabInv
<1>7. FrontShown'
  BY <1>5 DEF FrontShown
<1> QED
  BY <1>1, <1>2, <1>4, <1>5, <1>6, <1>7 DEF TabInv, L

LEMMA RemoveTabKeeps ==
  ASSUME TabInv, NEW k \in Tabs, RemoveTab(k)
  PROVE  TabInv'
<1> DEFINE ls == RemoveAt(layouts, k + 1)
           L == Len(layouts)
           next == IF toolkit = "cocoa" THEN 0..Len(ls) - 1
                   ELSE {IF k < Len(ls) THEN k ELSE k - 1}
<1>1. /\ toolkit \in Toolkits /\ placed \in BOOLEAN /\ orderly \in BOOLEAN
      /\ tab \in Int /\ layouts \in Seq(Shows) /\ front \in -1..L - 1
      /\ L \in Nat /\ k \in 0..L - 1
  BY TabsAre DEF TabInv
<1>2. ls \in Seq(Shows) /\ Len(ls) = L - 1
  <2>1. k + 1 \in 1..L
    BY <1>1
  <2> QED
    BY <1>1, <2>1, RemovedAt
<1>3. (ls = <<>> <=> L - 1 = 0) /\ layouts # <<>>
  BY <1>1, <1>2, EmptySeq
<1>4. /\ toolkit' = toolkit /\ placed' = placed /\ orderly' \in BOOLEAN
      /\ orderly' => orderly
      /\ orderly' => CASE toolkit = "qt" -> TRUE
                       [] toolkit = "windows" -> k > tab
                       [] OTHER -> k >= tab
  BY <1>1 DEF RemoveTab
<1>5. IF k = front /\ toolkit # "windows" /\ ls # <<>> THEN \E j \in next : Switch(ls, j)
      ELSE IF toolkit = "qt" /\ k <= front THEN Switch(ls, After(front, k))
      ELSE Still(ls, After(front, k))
  BY DEF RemoveTab
<1> HIDE DEF ls, next, L
<1>6. CASE k = front /\ toolkit # "windows" /\ ls # <<>>
  <2>1. PICK j \in next : Switch(ls, j)
    BY <1>5, <1>6
  <2>2. j \in 0..L - 2
    BY <1>1, <1>2, <1>3, <1>6 DEF next
  <2>3. j \in -1..Len(ls) - 1 /\ j # -1
    BY <1>1, <1>2, <2>2
  <2> QED
    BY <1>1, <1>2, <1>4, <1>6, <2>1, <2>3, SwitchKeeps
<1>7. CASE ~(k = front /\ toolkit # "windows" /\ ls # <<>>) /\ toolkit = "qt" /\ k <= front
  <2>1. Switch(ls, After(front, k))
    BY <1>5, <1>7
  <2>2. After(front, k) \in -1..L - 2 /\ (ls # <<>> => After(front, k) # -1)
    BY <1>1, <1>7 DEF After
  <2> QED
    BY <1>1, <1>2, <1>4, <1>7, <2>1, <2>2, SwitchKeeps
<1>8. CASE /\ ~(k = front /\ toolkit # "windows" /\ ls # <<>>)
           /\ ~(toolkit = "qt" /\ k <= front)
  <2>1. layouts' = ls /\ front' = After(front, k) /\ tab' = tab
    BY <1>5, <1>8 DEF Still
  <2>2. ASSUME orderly' PROVE k > front \/ (toolkit # "windows" /\ ls = <<>>)
    <3>1. front = tab
      BY <1>3, <1>4, <2>2 DEF TabInv, FrontShown
    <3> QED
      BY <1>1, <1>4, <1>8, <2>2, <3>1 DEF Toolkits
  <2> QED
    BY <1>4, <2>1, <2>2, RemoveBehind DEF ls
<1> QED
  BY <1>6, <1>7, <1>8

\* setSelection, and the user's click.
LEMMA SelectTabKeeps ==
  ASSUME TabInv, NEW k \in Tabs, SelectTab(k) \/ OnTab(k)
  PROVE  TabInv'
<1>1. /\ front' = k /\ tab' = k
      /\ layouts' = Synchronized(layouts, k) \/ (layouts' = layouts /\ k = front)
      /\ toolkit' = toolkit /\ placed' = placed /\ orderly' = orderly
  BY DEF SelectTab, OnTab, Switch, TabInv
<1>2. /\ Tabs = 0..Len(layouts) - 1 /\ Len(layouts) \in Nat /\ layouts # <<>>
      /\ layouts \in Seq(Shows) /\ DOMAIN layouts = 1..Len(layouts)
  BY TabsAre DEF TabInv
<1>3. /\ layouts' \in Seq(Shows) /\ Len(layouts') = Len(layouts)
  BY <1>1, <1>2, SynchronizedIs
<1>4. layouts' # <<>> /\ DOMAIN layouts' = 1..Len(layouts) /\ k \in Int
  BY <1>2, <1>3, EmptySeq, LenProperties
<1>5. ASSUME orderly, placed, NEW n \in 1..Len(layouts), layouts'[n] # "none"
      PROVE  layouts'[n] = "shown" <=> n - 1 = k
  <2>1. CASE layouts' = Synchronized(layouts, k)
    <3>1. layouts'[n] = "shown" <=> n = k + 1
      BY <1>2, <1>5, <2>1, SynchronizedIs
    <3> QED
      BY <1>2, <1>4, <3>1
  <2>2. CASE layouts' = layouts /\ k = front
    BY <1>2, <1>5, <2>2 DEF TabInv, FrontShown
  <2> QED
    BY <1>1, <2>1, <2>2
<1>6. FrontShown'
  BY <1>1, <1>4, <1>5 DEF FrontShown
<1> QED
  BY <1>1, <1>2, <1>3, <1>4, <1>6 DEF TabInv

\* setSelection of a tab that is not there, which orderly programs do not.
LEMMA SelectNoTabKeeps ==
  ASSUME TabInv, NEW k \in Int, k \notin Tabs, SelectTab(k)
  PROVE  TabInv'
<1>1. /\ front' = front /\ tab' \in Int
      /\ layouts' = Synchronized(layouts, k) \/ layouts' = layouts
      /\ toolkit' = toolkit /\ placed' = placed /\ orderly' = FALSE
  BY DEF SelectTab
<1>2. layouts' \in Seq(Shows) /\ Len(layouts') = Len(layouts)
  BY <1>1, SynchronizedIs DEF TabInv
<1> QED
  BY <1>1, <1>2 DEF TabInv, FrontShown

\* setLayout: the new layout shows, which is right for the tab in front only.
LEMMA SetTabLayoutKeeps ==
  ASSUME TabInv, NEW k \in Tabs, SetTabLayout(k)
  PROVE  TabInv'
<1>1. /\ layouts' = [layouts EXCEPT ![k + 1] = "shown"] /\ front' = front /\ tab' = tab
      /\ toolkit' = toolkit /\ placed' = placed
      /\ orderly' = (orderly /\ (placed => k = tab))
  BY DEF SetTabLayout, Still
<1>2. /\ Tabs = 0..Len(layouts) - 1 /\ Len(layouts) \in Nat /\ layouts # <<>>
      /\ layouts \in Seq(Shows) /\ DOMAIN layouts = 1..Len(layouts)
  BY TabsAre DEF TabInv
<1>3. k + 1 \in 1..Len(layouts) /\ k \in Int
  BY <1>2
<1>4. layouts' \in Seq(Shows) /\ Len(layouts') = Len(layouts) /\ DOMAIN layouts' = 1..Len(layouts)
  BY <1>1, <1>2, <1>3, ExceptSeq DEF Shows
<1>5. layouts' # <<>>
  BY <1>2, <1>4, EmptySeq
<1>6. ASSUME orderly', placed, NEW n \in 1..Len(layouts), layouts'[n] # "none"
      PROVE  layouts'[n] = "shown" <=> n - 1 = front
  <2>1. orderly /\ k = tab /\ front = tab
    BY <1>1, <1>2, <1>6 DEF TabInv, FrontShown
  <2>2. CASE n = k + 1
    BY <1>1, <1>2, <1>3, <2>1, <2>2
  <2>3. CASE n # k + 1
    BY <1>1, <1>2, <1>3, <1>6, <2>1, <2>3 DEF TabInv, FrontShown
  <2> QED
    BY <2>2, <2>3
<1>7. ASSUME orderly' PROVE front = tab /\ front # -1
  BY <1>1, <1>2, <1>7 DEF TabInv, FrontShown
<1>8. FrontShown'
  BY <1>1, <1>4, <1>6, <1>7 DEF FrontShown
<1> QED
  BY <1>1, <1>4, <1>5, <1>7, <1>8 DEF TabInv

\* Put in a window, the frame shows the layout of the selected tab.
LEMMA PlaceKeeps ==
  ASSUME TabInv, Place
  PROVE  TabInv'
<1>1. /\ layouts' = Synchronized(layouts, tab) /\ tab' = tab
      /\ toolkit' = toolkit /\ placed' = TRUE /\ orderly' = orderly
      /\ front' = IF toolkit = "windows" /\ layouts # <<>>
                  THEN IF tab \in Tabs THEN tab ELSE 0
                  ELSE front
  BY DEF Place
<1>2. /\ Tabs = 0..Len(layouts) - 1 /\ Len(layouts) \in Nat
      /\ (layouts = <<>> <=> Len(layouts) = 0)
      /\ layouts \in Seq(Shows) /\ tab \in Int /\ front \in -1..Len(layouts) - 1
  BY TabsAre DEF TabInv
<1>3. /\ layouts' \in Seq(Shows) /\ Len(layouts') = Len(layouts) /\ DOMAIN layouts' = 1..Len(layouts)
      /\ \A n \in 1..Len(layouts) : layouts'[n] # "none" => (layouts'[n] = "shown" <=> n = tab + 1)
  BY <1>1, <1>2, SynchronizedIs
<1>4. layouts' = <<>> <=> layouts = <<>>
  BY <1>2, <1>3, EmptySeq
<1>5. front' \in -1..Len(layouts) - 1
  BY <1>1, <1>2
<1>6. ASSUME orderly, layouts # <<>> PROVE front' = tab /\ front' # -1
  <2>1. front = tab /\ front # -1
    BY <1>6 DEF TabInv, FrontShown
  <2> QED
    BY <1>1, <1>2, <2>1
<1>7. FrontShown'
  BY <1>1, <1>2, <1>3, <1>4, <1>6 DEF FrontShown
<1>8. orderly /\ layouts = <<>> /\ toolkit = "windows" => tab = 0
  BY DEF TabInv
<1> QED
  BY <1>1, <1>2, <1>3, <1>4, <1>5, <1>6, <1>7, <1>8 DEF TabInv

\* For programs that keep to the rules the tab in front is the one the object
\* names and, once the frame is in a window, its layout is the one shown: for
\* any number of tabs, on all four toolkits.
THEOREM FrontShownHolds == TabSpec => []FrontShown
<1>1. TabInit => TabInv
  <2>1. <<>> \in Seq(Shows) /\ Len(<<>>) = 0
    BY EmptySeq
  <2> SUFFICES ASSUME TabInit PROVE TabInv
    OBVIOUS
  <2>2. /\ toolkit \in Toolkits /\ orderly \in BOOLEAN /\ placed \in BOOLEAN
        /\ layouts = <<>> /\ tab = 0 /\ front = -1
    BY DEF TabInit
  <2>3. layouts \in Seq(Shows) /\ Len(layouts) = 0
    BY <2>1, <2>2
  <2>4. front \in -1..Len(layouts) - 1
    BY <2>2, <2>3
  <2> QED
    BY <2>2, <2>3, <2>4 DEF TabInv, FrontShown
<1>2. TabInv /\ [TabNext]_tabVars => TabInv'
  <2> SUFFICES ASSUME TabInv, [TabNext]_tabVars PROVE TabInv'
    OBVIOUS
  <2>1. CASE UNCHANGED tabVars
    BY <2>1 DEF tabVars, TabInv, FrontShown
  <2>2. ASSUME NEW k \in 0..MaxTabs - 1, SelectTab(k) PROVE TabInv'
    <3>1. k \in Int
      OBVIOUS
    <3> QED
      BY <2>2, <3>1, SelectTabKeeps, SelectNoTabKeeps
  <2> QED
    BY <2>1, <2>2, AppendTabKeeps, RemoveTabKeeps, SelectTabKeeps, SetTabLayoutKeeps, PlaceKeeps
    DEF TabNext
<1>3. TabInv => FrontShown
  BY DEF TabInv
<1> QED
  BY <1>1, <1>2, <1>3, PTL DEF TabSpec

-----------------------------------------------------------------------------
\* The invariant of sliders: the native maximum is the one the backend computes
\* from the length, and the native value is the position wherever it can be.
SliderInv == SliderTypeOK /\ top = Top(length) /\ KnobAgrees

\* A remainder is no more than the number, and is the number below the divisor.
LEMMA Cut ==
  ASSUME NEW m \in Nat, NEW w \in Nat \ {0}
  PROVE  m % w \in 0..m /\ (m < w => m % w = m)
<1> DEFINE q == m \div w
           r == m % w
<1>1. /\ q \in Int /\ r \in Int
      /\ m = w * q + r
      /\ r \in 0..w - 1
  <2>1. q \in Int /\ r \in Int
    BY SMTT(60)
  <2>2. m = w * q + r
    BY SMTT(60)
  <2>3. r \in 0..w - 1
    BY SMTT(60)
  <2> QED
    BY <2>1, <2>2, <2>3
<1>2. q \in Int /\ r \in 0..w - 1 /\ w * q \in Int /\ m = w * q + r
  <2> HIDE DEF q, r
  <2> QED
    BY <1>1
<1> HIDE DEF q, r
<1>3. q >= 0
  <2>1. q <= -1 => w * (0 - q - 1) >= 0
    BY <1>2
  <2>2. w * (0 - q - 1) = 0 - w * q - w
    BY <1>2
  <2> QED
    BY <1>2, <2>1, <2>2
<1>4. w * q >= 0
  BY <1>2, <1>3
<1>5. r \in 0..m
  BY <1>2, <1>4
<1>6. m < w => r = m
  <2>1. q >= 1 => w * (q - 1) >= 0
    BY <1>2
  <2>2. w * (q - 1) = w * q - w
    BY <1>2
  <2>3. q = 0 => w * q = 0
    BY <1>2
  <2> QED
    BY <1>2, <1>3, <2>1, <2>2, <2>3
<1> QED
  BY <1>5, <1>6 DEF r

\* The native maximum is within the lengths; positions within the length are
\* within it where it can be expressed, and on Windows and Qt no others.
LEMMA Tops ==
  ASSUME NEW n \in 0..MaxLength, toolkit \in Toolkits
  PROVE  /\ Top(n) \in 0..MaxLength /\ End(n) \in 0..MaxLength
         /\ (toolkit = "windows" /\ kind = "slider" => n <= Short) => End(n) <= Top(n)
         /\ toolkit \in {"windows", "qt"} => Top(n) <= End(n)
         /\ toolkit = "gtk" => Top(n) # 0
<1>1. MaxLength \in Nat /\ MaxLength # 0 /\ Short \in Nat \ {0}
  BY SliderAssumption
<1>2. End(n) \in Nat /\ End(n) \in 0..MaxLength /\ (n <= Short => End(n) < Short)
  BY <1>1 DEF End
<1>3. End(n) % Short \in 0..End(n) /\ (n <= Short => End(n) % Short = End(n))
  BY <1>1, <1>2, Cut
<1>4. CASE toolkit = "windows" /\ kind = "slider"
  <2>1. Top(n) = End(n) % Short
    BY <1>4 DEF Top
  <2> QED
    BY <1>1, <1>2, <1>3, <1>4, <2>1
<1>5. CASE ~(toolkit = "windows" /\ kind = "slider")
  BY <1>1, <1>5 DEF Top, End, Toolkits
<1> QED
  BY <1>4, <1>5

\* What Notified does to the values it is given.
LEMMA NotifiedValues ==
  ASSUME NEW v, NEW p, NEW quiet \in BOOLEAN, Notified(v, p, quiet)
  PROVE  /\ value' = v /\ moved' \in BOOLEAN
         /\ position' = v \/ (position' = p /\ (v = value \/ toolkit \notin {"gtk", "qt"}))
BY DEF Notified

\* setLength: the value follows the new maximum.
LEMMA SetLengthKeeps ==
  ASSUME SliderInv, NEW n \in 0..MaxLength, SetLength(n)
  PROVE  SliderInv'
<1> USE DEF SliderInv, SliderTypeOK
<1>1. /\ length' = n /\ top' = Top(n) /\ toolkit' = toolkit /\ kind' = kind /\ lawful' = lawful
  BY DEF SetLength
<1>2. Top(length') = Top(n) /\ Top(n)' = Top(n)
  BY <1>1 DEF Top, End
<1>3. Top(n) \in 0..MaxLength /\ top \in 0..MaxLength
  BY Tops
<1>4. MaxLength \in Nat
  BY SliderAssumption
<1>5. CASE toolkit = "windows"
  <2>1. value' = 0 /\ position' = 0 /\ moved' = FALSE
    BY <1>5 DEF SetLength
  <2>2. 0 <= End(length') /\ 0 \in 0..MaxLength
    BY <1>1, <1>4, Tops
  <2>3. SliderTypeOK'
    BY <1>1, <1>3, <2>1, <2>2
  <2>4. KnobAgrees'
    BY <1>1, <2>1, <2>2 DEF KnobAgrees, End
  <2> QED
    BY <1>1, <1>2, <2>3, <2>4 DEF Top, End
<1>6. CASE toolkit \in {"gtk", "qt"}
  <2> DEFINE v == Least(value, Top(n))
  <2>1. Notified(v, position, kind = "scroller")
    BY <1>6 DEF SetLength
  <2>2. /\ value' = v /\ moved' \in BOOLEAN
        /\ position' = v \/ (position' = position /\ v = value)
    BY <1>6, <2>1, NotifiedValues
  <2>3. v \in 0..MaxLength /\ v <= Top(n)
    BY <1>3, <1>4 DEF Least
  <2> HIDE DEF v
  <2>4. SliderTypeOK'
    BY <1>1, <1>3, <2>2, <2>3
  <2>5. lawful => value = position
    BY <1>6 DEF KnobAgrees, Expressible
  <2>6. toolkit = "qt" => v <= End(n)
    <3>1. toolkit = "qt" => Top(n) <= End(n) /\ End(n) \in 0..MaxLength
      BY Tops
    <3> QED
      BY <1>3, <1>4, <2>3, <3>1
  <2>7. End(length') = End(n)
    BY <1>1 DEF End
  <2>8. KnobAgrees'
    BY <1>1, <1>6, <2>2, <2>5, <2>6, <2>7 DEF KnobAgrees
  <2> QED
    BY <1>1, <1>2, <2>4, <2>8 DEF Top, End
<1>7. CASE toolkit = "cocoa"
  <2>1. /\ value' \in {value, Least(value, Top(n)), position}
        /\ moved' = FALSE /\ position' = position
    BY <1>7 DEF SetLength
  <2>2. value' \in 0..MaxLength
    BY <1>3, <1>4, <2>1 DEF Least
  <2> QED
    BY <1>1, <1>3, <1>7, <2>1, <2>2 DEF KnobAgrees, Top
<1> QED
  BY <1>5, <1>6, <1>7 DEF Toolkits

\* setPosition: a lawful position is one the native control can take.
LEMMA SetPositionKeeps ==
  ASSUME SliderInv, NEW p \in 0..MaxLength, SetPosition(p)
  PROVE  SliderInv'
<1> USE DEF SliderInv, SliderTypeOK
<1> DEFINE v == IF toolkit = "cocoa" /\ kind = "scroller" THEN p ELSE Least(p, top)
<1>1. /\ length' = length /\ top' = top /\ toolkit' = toolkit /\ kind' = kind
      /\ lawful' = (lawful /\ p <= End(length)) /\ Notified(v, p, FALSE)
  BY DEF SetPosition
<1>2. top' = Top(length)'
  BY <1>1 DEF Top, End
<1>3. MaxLength \in Nat
  BY SliderAssumption
<1>4. v \in 0..MaxLength /\ (toolkit # "cocoa" => v <= top)
  BY <1>3 DEF Least
<1>5. lawful' /\ toolkit # "cocoa" /\ Expressible => v = p
  <2> SUFFICES ASSUME lawful', toolkit # "cocoa", Expressible PROVE v = p
    OBVIOUS
  <2>1. End(length) <= top /\ End(length) \in 0..MaxLength /\ top \in 0..MaxLength
    BY Tops DEF Expressible
  <2>2. p <= End(length)
    BY <1>1
  <2>3. ~(top < p)
    BY <1>3, <2>1, <2>2
  <2> QED
    BY <1>3, <2>1, <2>2, <2>3 DEF Least
<1> HIDE DEF v
<1>9. lawful' => p <= End(length) /\ (toolkit \in {"windows", "qt"} => v <= End(length))
  <2>1. /\ toolkit \in {"windows", "qt"} => top <= End(length)
        /\ End(length) \in 0..MaxLength /\ top \in 0..MaxLength
    BY Tops
  <2>2. lawful' => p <= End(length)
    BY <1>1
  <2>3. toolkit \in {"windows", "qt"} => v <= End(length)
    <3>1. toolkit \in {"windows", "qt"} => v <= top
      BY <1>4
    <3> QED
      BY <1>3, <1>4, <2>1, <3>1
  <2> QED
    BY <2>2, <2>3
<1>6. value' = v /\ moved' \in BOOLEAN /\ position' \in {v, p}
  BY <1>1, NotifiedValues
<1>7. SliderTypeOK'
  BY <1>1, <1>4, <1>6
<1>8. KnobAgrees'
  <2>1. Expressible' = Expressible /\ End(length') = End(length)
    BY <1>1 DEF Expressible, End
  <2> QED
    BY <1>1, <1>5, <1>6, <1>9, <2>1 DEF KnobAgrees, End
<1> QED
  BY <1>2, <1>7, <1>8

\* orphan: the control made again is set to the position of the object.
LEMMA OrphanSliderKeeps ==
  ASSUME SliderInv, OrphanSlider
  PROVE  SliderInv'
<1> USE DEF SliderInv, SliderTypeOK
<1> DEFINE v == Least(position, Top(length))
<1>1. /\ length' = length /\ toolkit' = toolkit /\ kind' = kind /\ lawful' = lawful
      /\ toolkit # "cocoa" /\ value' = v /\ top' = Top(length) /\ moved' \in BOOLEAN
      /\ position' = IF toolkit # "windows" /\ v # 0 THEN v ELSE position
  BY DEF OrphanSlider
<1>2. top' = Top(length)' /\ End(length') = End(length)
  BY <1>1 DEF Top, End
<1>3. MaxLength \in Nat /\ Top(length) \in 0..MaxLength
  BY SliderAssumption, Tops
<1>4. v \in 0..MaxLength
  BY <1>3 DEF Least
<1>5. lawful /\ Expressible => v = position'
  <2>1. ASSUME lawful, Expressible, toolkit \in {"windows", "qt"} PROVE v = position
    <3>1. position <= End(length) /\ End(length) <= Top(length) /\ End(length) \in 0..MaxLength
      BY <2>1, Tops DEF KnobAgrees, Expressible
    <3> QED
      BY <1>3, <3>1 DEF Least
  <2>2. ASSUME toolkit = "gtk", v = 0 PROVE v = position
    BY <1>3, <2>2, Tops DEF Least
  <2> QED
    BY <1>1, <2>1, <2>2 DEF Toolkits
<1>6. lawful /\ toolkit \in {"windows", "qt"} => position' <= End(length)
  <2>1. lawful /\ toolkit \in {"windows", "qt"} => position <= End(length)
    BY DEF KnobAgrees
  <2>2. v <= position
    BY <1>3 DEF Least
  <2>3. End(length) \in 0..MaxLength
    BY Tops
  <2> QED
    BY <1>1, <1>3, <1>4, <2>1, <2>2, <2>3
<1> HIDE DEF v
<1>7. SliderTypeOK'
  BY <1>1, <1>3, <1>4
<1>8. KnobAgrees'
  <2>1. Expressible' = Expressible
    BY <1>1 DEF Expressible
  <2> QED
    BY <1>1, <1>2, <1>5, <1>6, <2>1 DEF KnobAgrees
<1> QED
  BY <1>2, <1>7, <1>8

\* The user moves the knob within the native range.
LEMMA OnMoveKeeps ==
  ASSUME SliderInv, NEW u \in 0..MaxLength, OnMove(u)
  PROVE  SliderInv'
<1> USE DEF SliderInv, SliderTypeOK
<1>1. /\ length' = length /\ toolkit' = toolkit /\ kind' = kind /\ lawful' = lawful
      /\ top' = top /\ value' = u /\ position' = u /\ moved' \in BOOLEAN
      /\ toolkit # "cocoa" => u \in 0..top
  BY DEF OnMove
<1>2. top' = Top(length)' /\ End(length') = End(length)
  BY <1>1 DEF Top, End
<1>3. SliderTypeOK'
  BY <1>1
<1>4. toolkit \in {"windows", "qt"} => u <= End(length)
  <2>1. /\ toolkit \in {"windows", "qt"} => top <= End(length)
        /\ End(length) \in 0..MaxLength /\ top \in 0..MaxLength
    BY Tops
  <2> QED
    BY <1>1, <2>1
<1>5. KnobAgrees'
  BY <1>1, <1>2, <1>4 DEF KnobAgrees
<1> QED
  BY <1>2, <1>3, <1>5

\* Whatever lengths the program gives, whatever the user moves and however
\* often the control is made again: with lawful positions the knob is where
\* the object says, but for Cocoa and for Windows sliders longer than 16 bits
\* can express, and on Windows and Qt, those sliders included, that is a
\* position there is.
THEOREM KnobFollows == SliderSpec => []KnobAgrees
<1>1. SliderInit => SliderInv
  <2> SUFFICES ASSUME SliderInit PROVE SliderInv
    OBVIOUS
  <2>1. FirstLength \in 0..MaxLength /\ 0 \in 0..MaxLength
    BY SliderAssumption
  <2>2. Top(FirstLength) \in 0..MaxLength /\ 0 <= End(FirstLength)
    BY <2>1, Tops DEF SliderInit
  <2> HIDE DEF Top
  <2> QED
    BY <2>1, <2>2 DEF SliderInit, SliderInv, SliderTypeOK, KnobAgrees
<1>2. SliderInv /\ [SliderNext]_sliderVars => SliderInv'
  <2> SUFFICES ASSUME SliderInv, [SliderNext]_sliderVars PROVE SliderInv'
    OBVIOUS
  <2>1. CASE UNCHANGED sliderVars
    BY <2>1 DEF sliderVars, SliderInv, SliderTypeOK, KnobAgrees, Top, End, Expressible
  <2> QED
    BY <2>1, SetLengthKeeps, SetPositionKeeps, OrphanSliderKeeps, OnMoveKeeps DEF SliderNext
<1>3. SliderInv => KnobAgrees
  BY DEF SliderInv
<1> QED
  BY <1>1, <1>2, <1>3, PTL DEF SliderSpec

-----------------------------------------------------------------------------
\* The invariant of lists, the rows first: both sides have the same rows with
\* the same marks, and a gentle program on Qt has rows that carry their numbers.
Looks == [mark : BOOLEAN, role : Int]
RowInv ==
    /\ toolkit \in Toolkits /\ gentle \in BOOLEAN
    /\ checked \in Seq(BOOLEAN) /\ native \in Seq(Looks) /\ Len(native) = Len(checked)
    /\ MarksAgree
    /\ gentle /\ toolkit = "qt" => \A n \in DOMAIN native : native[n].role = n - 1

\* The lines, by their number.
LEMMA LinesAre ==
  ASSUME checked \in Seq(BOOLEAN), native \in Seq(Looks), Len(native) = Len(checked)
  PROVE  /\ Len(checked) \in Nat /\ Lines = 0..Len(checked) - 1
         /\ DOMAIN checked = 1..Len(checked) /\ DOMAIN native = 1..Len(checked)
         /\ \A n \in 1..Len(checked) : checked[n] \in BOOLEAN /\ native[n] \in Looks
BY LenProperties, ElementOfSeq DEF Lines

\* A row gets a mark on both sides.  On Qt the object's side is found by the
\* role, which is the row's number as long as the program is gentle.
LEMMA MarkKeeps ==
  ASSUME RowInv, NEW k \in Lines, NEW b \in BOOLEAN,
         native' = [native EXCEPT ![k + 1].mark = b],
         checked' \in Seq(BOOLEAN), Len(checked') = Len(checked),
         toolkit # "qt" \/ gentle => checked' = [checked EXCEPT ![k + 1] = b],
         toolkit' = toolkit, gentle' = gentle
  PROVE  RowInv'
<1>1. /\ Len(checked) \in Nat /\ k \in 0..Len(checked) - 1
      /\ DOMAIN checked = 1..Len(checked) /\ DOMAIN native = 1..Len(checked)
      /\ \A n \in 1..Len(checked) : checked[n] \in BOOLEAN /\ native[n] \in Looks
      /\ checked \in Seq(BOOLEAN) /\ native \in Seq(Looks) /\ Len(native) = Len(checked)
  BY LinesAre DEF RowInv
<1>2. k + 1 \in 1..Len(checked) /\ k + 1 \in 1..Len(native)
  BY <1>1
<1> DEFINE e == [native[k + 1] EXCEPT !.mark = b]
<1>3. e \in Looks /\ e.mark = b /\ e.role = native[k + 1].role
  BY <1>1, <1>2 DEF Looks
<1>4. native' = [native EXCEPT ![k + 1] = e]
  BY <1>1, <1>2
<1> HIDE DEF e
<1>5. native' \in Seq(Looks) /\ Len(native') = Len(native) /\ DOMAIN native' = DOMAIN native
  BY <1>1, <1>2, <1>3, <1>4, ExceptSeq
<1>6. DOMAIN checked' = 1..Len(checked)
  BY LenProperties
<1>7. ASSUME toolkit # "qt" \/ gentle, NEW n \in 1..Len(checked)
      PROVE  native'[n].mark = checked'[n]
  <2>1. checked' = [checked EXCEPT ![k + 1] = b] /\ native[n].mark = checked[n]
    BY <1>1, <1>7 DEF RowInv, MarksAgree
  <2>2. CASE n = k + 1
    BY <1>1, <1>2, <1>3, <1>4, <2>1, <2>2
  <2>3. CASE n # k + 1
    BY <1>1, <1>2, <1>4, <2>1, <2>3
  <2> QED
    BY <2>2, <2>3
<1>8. ASSUME gentle, toolkit = "qt", NEW n \in DOMAIN native' PROVE native'[n].role = n - 1
  <2>1. native[n].role = n - 1
    BY <1>5, <1>8 DEF RowInv
  <2>2. CASE n = k + 1
    BY <1>1, <1>2, <1>3, <1>4, <2>1, <2>2
  <2>3. CASE n # k + 1
    BY <1>1, <1>2, <1>4, <1>5, <2>1, <2>3
  <2> QED
    BY <2>2, <2>3
<1>9. MarksAgree'
  BY <1>6, <1>7 DEF MarksAgree
<1> QED
  BY <1>1, <1>5, <1>8, <1>9 DEF RowInv

\* append
LEMMA AppendRowKeeps ==
  ASSUME RowInv, AppendRow
  PROVE  /\ RowInv' /\ Len(checked) \in Nat /\ Len(checked') = Len(checked) + 1
         /\ toolkit' = toolkit /\ gentle' = gentle
         /\ UNCHANGED <<selected, chosen, lit, current>>
<1>1. /\ Len(checked) \in Nat /\ DOMAIN checked = 1..Len(checked) /\ DOMAIN native = 1..Len(checked)
      /\ checked \in Seq(BOOLEAN) /\ native \in Seq(Looks) /\ Len(native) = Len(checked)
  BY LinesAre DEF RowInv
<1> DEFINE e == NativeRow(FALSE, Len(native))
<1>2. /\ checked' = Append(checked, FALSE) /\ native' = Append(native, e)
      /\ toolkit' = toolkit /\ gentle' = gentle
      /\ UNCHANGED <<selected, chosen, lit, current>>
  BY DEF AppendRow, ListSilent, ListSilentIf, RowInv
<1>3. e \in Looks /\ e.mark = FALSE /\ (toolkit = "qt" => e.role = Len(checked))
  BY <1>1 DEF Looks, NativeRow
<1> HIDE DEF e
<1>4. /\ checked' \in Seq(BOOLEAN) /\ Len(checked') = Len(checked) + 1
      /\ \A n \in 1..Len(checked) : checked'[n] = checked[n]
      /\ checked'[Len(checked) + 1] = FALSE
  BY <1>1, <1>2, Appended
<1>5. /\ native' \in Seq(Looks) /\ Len(native') = Len(checked) + 1
      /\ \A n \in 1..Len(checked) : native'[n] = native[n]
      /\ native'[Len(checked) + 1] = e
  BY <1>1, <1>2, <1>3, Appended
<1>6. DOMAIN checked' = 1..Len(checked) + 1 /\ DOMAIN native' = 1..Len(checked) + 1
  BY <1>4, <1>5, LenProperties
<1>7. ASSUME toolkit # "qt" \/ gentle, NEW n \in 1..Len(checked) + 1
      PROVE  native'[n].mark = checked'[n]
  <2>1. CASE n = Len(checked) + 1
    BY <1>3, <1>4, <1>5, <2>1
  <2>2. CASE n # Len(checked) + 1
    BY <1>1, <1>4, <1>5, <1>7, <2>2 DEF RowInv, MarksAgree
  <2> QED
    BY <2>1, <2>2
<1>8. ASSUME gentle, toolkit = "qt", NEW n \in 1..Len(checked) + 1 PROVE native'[n].role = n - 1
  <2>1. CASE n = Len(checked) + 1
    BY <1>1, <1>3, <1>5, <1>8, <2>1
  <2>2. CASE n # Len(checked) + 1
    BY <1>1, <1>5, <1>8, <2>2 DEF RowInv
  <2> QED
    BY <2>1, <2>2
<1>9. MarksAgree'
  BY <1>2, <1>6, <1>7 DEF MarksAgree
<1> QED
  BY <1>1, <1>2, <1>4, <1>5, <1>6, <1>8, <1>9 DEF RowInv

\* remove: both sides lose the same row, on Qt the last one.
LEMMA RemoveRowKeeps ==
  ASSUME RowInv, NEW k \in Lines, RemoveRow(k)
  PROVE  RowInv' /\ Len(checked') = Len(checked) - 1 /\ Len(native') = Len(checked) - 1
<1>1. /\ Len(checked) \in Nat /\ DOMAIN checked = 1..Len(checked) /\ DOMAIN native = 1..Len(checked)
      /\ checked \in Seq(BOOLEAN) /\ native \in Seq(Looks) /\ Len(native) = Len(checked)
      /\ k \in 0..Len(checked) - 1
  BY LinesAre DEF RowInv
<1>2. /\ checked' = RemoveAt(checked, k + 1) /\ native' = RemoveAt(native, k + 1)
      /\ toolkit' = toolkit /\ gentle' \in BOOLEAN /\ (gentle' => gentle /\ MayRemove(k))
  BY DEF RemoveRow, ListSilentIf, RowInv
<1>3. k + 1 \in 1..Len(checked) /\ k + 1 \in 1..Len(native)
  BY <1>1
<1>4. /\ checked' \in Seq(BOOLEAN) /\ Len(checked') = Len(checked) - 1
      /\ \A n \in 1..Len(checked) - 1 :
            checked'[n] = IF n < k + 1 THEN checked[n] ELSE checked[n + 1]
  BY <1>1, <1>2, <1>3, RemovedAt
<1>5. /\ native' \in Seq(Looks) /\ Len(native') = Len(checked) - 1
      /\ \A n \in 1..Len(checked) - 1 :
            native'[n] = IF n < k + 1 THEN native[n] ELSE native[n + 1]
  BY <1>1, <1>2, <1>3, RemovedAt
<1>6. DOMAIN checked' = 1..Len(checked) - 1 /\ DOMAIN native' = 1..Len(checked) - 1
  BY <1>4, <1>5, LenProperties
<1>7. ASSUME toolkit # "qt" \/ gentle, NEW n \in 1..Len(checked) - 1
      PROVE  native'[n].mark = checked'[n]
  <2>1. n \in 1..Len(checked) /\ n + 1 \in 1..Len(checked)
    BY <1>1
  <2>2. native[n].mark = checked[n] /\ native[n + 1].mark = checked[n + 1]
    BY <1>1, <1>7, <2>1 DEF RowInv, MarksAgree
  <2> QED
    BY <1>4, <1>5, <2>2
<1>8. ASSUME gentle', toolkit = "qt", NEW n \in 1..Len(checked) - 1 PROVE native'[n].role = n - 1
  <2>1. gentle /\ k = Len(checked) - 1
    BY <1>2, <1>8 DEF MayRemove
  <2>2. native'[n] = native[n] /\ n \in 1..Len(checked)
    BY <1>1, <1>5, <2>1
  <2> QED
    BY <1>1, <1>8, <2>1, <2>2 DEF RowInv
<1>9. MarksAgree'
  BY <1>2, <1>6, <1>7 DEF MarksAgree
<1> QED
  BY <1>1, <1>2, <1>4, <1>5, <1>6, <1>8, <1>9 DEF RowInv

\* setChecked, the user's tick, setText and setImage.
LEMMA TicksKeep ==
  ASSUME RowInv, NEW k \in Lines, NEW b \in BOOLEAN,
         SetChecked(k, b) \/ OnToggle(k) \/ Repaint(k, b)
  PROVE  /\ RowInv' /\ Len(checked') = Len(checked) /\ toolkit' = toolkit
         /\ gentle' => gentle
         /\ UNCHANGED <<selected, chosen, lit, current>>
<1>1. /\ Len(checked) \in Nat /\ k \in 0..Len(checked) - 1 /\ Lines = 0..Len(checked) - 1
      /\ DOMAIN checked = 1..Len(checked) /\ DOMAIN native = 1..Len(checked)
      /\ \A n \in 1..Len(checked) : checked[n] \in BOOLEAN /\ native[n] \in Looks
      /\ checked \in Seq(BOOLEAN) /\ gentle \in BOOLEAN /\ toolkit \in Toolkits
  BY LinesAre DEF RowInv
<1>2. k + 1 \in 1..Len(checked)
  BY <1>1
<1> DEFINE r == native[k + 1].role
<1>3. /\ toolkit' = toolkit /\ UNCHANGED <<selected, chosen, lit, current>>
      /\ gentle' \in BOOLEAN /\ (gentle' => gentle)
  BY <1>1 DEF SetChecked, OnToggle, Repaint, ListSilent, ListSilentIf, nativeVars
<1>9. toolkit = "qt" /\ Slotted(k) => r + 1 \in 1..Len(checked)
  BY <1>1 DEF Slotted
<1>4. toolkit = "qt" /\ gentle => r = k
  <2>1. ASSUME toolkit = "qt", gentle PROVE r = k + 1 - 1
    BY <1>1, <1>2, <2>1 DEF RowInv
  <2> QED
    BY <1>1, <2>1
<1> HIDE DEF r
<1>5. ASSUME NEW n \in 1..Len(checked), NEW c \in BOOLEAN
      PROVE  [checked EXCEPT ![n] = c] \in Seq(BOOLEAN) /\ Len([checked EXCEPT ![n] = c]) = Len(checked)
  BY <1>1, ExceptSeq
<1>6. CASE SetChecked(k, b)
  <2> DEFINE set == [checked EXCEPT ![k + 1] = b]
  <2>1. /\ native' = [native EXCEPT ![k + 1].mark = b] /\ gentle' = gentle
        /\ checked' = IF toolkit = "qt" /\ native[k + 1].mark # b THEN [set EXCEPT ![r + 1] = b] ELSE set
    BY <1>1, <1>6 DEF SetChecked, Stored, ListSilent, ListSilentIf, r
  <2>2. set \in Seq(BOOLEAN) /\ Len(set) = Len(checked)
    BY <1>2, <1>5
  <2>3. r = k => [set EXCEPT ![r + 1] = b] = set
    BY <1>1, <1>2
  <2> HIDE DEF set
  <2>4. ASSUME toolkit = "qt", native[k + 1].mark # b
        PROVE  [set EXCEPT ![r + 1] = b] \in Seq(BOOLEAN) /\ Len([set EXCEPT ![r + 1] = b]) = Len(checked)
    <3>1. r + 1 \in 1..Len(checked)
      BY <1>6, <1>9, <2>4 DEF SetChecked
    <3> QED
      BY <2>2, <3>1, ExceptSeq
  <2>5. checked' \in Seq(BOOLEAN) /\ Len(checked') = Len(checked)
    BY <2>1, <2>2, <2>4
  <2>6. toolkit # "qt" \/ gentle => checked' = [checked EXCEPT ![k + 1] = b]
    BY <1>4, <2>1, <2>3 DEF set
  <2> QED
    BY <1>3, <2>1, <2>5, <2>6, MarkKeeps
<1>7. CASE OnToggle(k)
  <2> DEFINE c == ~native[k + 1].mark
  <2>1. c \in BOOLEAN
    OBVIOUS
  <2>2. /\ native' = [native EXCEPT ![k + 1].mark = c] /\ gentle' = gentle
        /\ checked' = IF toolkit \in {"windows", "gtk"} THEN [checked EXCEPT ![k + 1] = ~checked[k + 1]]
                      ELSE IF toolkit = "qt" THEN [checked EXCEPT ![r + 1] = c]
                      ELSE [checked EXCEPT ![k + 1] = c]
    BY <1>1, <1>7 DEF OnToggle, Stored, ListSilent, ListSilentIf, r
  <2>3. toolkit # "qt" => c = ~checked[k + 1]
    BY <1>1, <1>2 DEF RowInv, MarksAgree
  <2> HIDE DEF c
  <2>6. toolkit = "qt" => r + 1 \in 1..Len(checked)
    BY <1>7, <1>9 DEF OnToggle
  <2>4. checked' \in Seq(BOOLEAN) /\ Len(checked') = Len(checked)
    BY <1>1, <1>2, <1>5, <2>1, <2>2, <2>6
  <2>5. toolkit # "qt" \/ gentle => checked' = [checked EXCEPT ![k + 1] = c]
    BY <1>4, <2>2, <2>3 DEF Toolkits
  <2> QED
    BY <1>3, <2>1, <2>2, <2>4, <2>5, MarkKeeps
<1>8. CASE Repaint(k, b)
  <2>1. /\ native' = native
        /\ checked' = IF toolkit = "qt" THEN [checked EXCEPT ![r + 1] = native[k + 1].mark] ELSE checked
    BY <1>8 DEF Repaint, Stored, nativeVars, r
  <2>2. native[k + 1].mark \in BOOLEAN
    BY <1>1, <1>2 DEF Looks
  <2>6. toolkit = "qt" => r + 1 \in 1..Len(checked)
    BY <1>8, <1>9 DEF Repaint
  <2>3. checked' \in Seq(BOOLEAN) /\ Len(checked') = Len(checked)
    BY <1>1, <1>5, <2>1, <2>2, <2>6
  <2>4. ASSUME toolkit # "qt" \/ gentle PROVE checked' = checked
    <3>1. native[k + 1].mark = checked[k + 1]
      BY <1>1, <1>2, <2>4 DEF RowInv, MarksAgree
    <3> QED
      BY <1>1, <1>4, <2>1, <2>4, <3>1
  <2>5. MarksAgree'
    BY <1>3, <2>1, <2>4 DEF RowInv, MarksAgree
  <2> QED
    BY <1>1, <1>3, <2>1, <2>3, <2>5 DEF RowInv
<1> QED
  BY <1>3, <1>6, <1>7, <1>8

\* orphan: the native rows are made again from the object's.
LEMMA OrphanListKeeps ==
  ASSUME RowInv, OrphanList
  PROVE  RowInv' /\ Len(checked') = Len(checked)
<1>1. /\ Len(checked) \in Nat /\ DOMAIN checked = 1..Len(checked)
      /\ \A n \in 1..Len(checked) : checked[n] \in BOOLEAN
      /\ checked \in Seq(BOOLEAN) /\ gentle \in BOOLEAN
  BY LinesAre DEF RowInv
<1>2. /\ checked' = IF toolkit = "qt" THEN [n \in 1..Len(checked) |-> FALSE] ELSE checked
      /\ native' = [n \in 1..Len(checked) |->
                       [mark |-> checked'[n], role |-> IF toolkit = "qt" THEN n - 1 ELSE 0]]
      /\ toolkit' = toolkit /\ gentle' \in BOOLEAN
  BY <1>1 DEF OrphanList, ListSilentIf, NativeRow
<1>3. /\ [n \in 1..Len(checked) |-> FALSE] \in Seq(BOOLEAN)
      /\ Len([n \in 1..Len(checked) |-> FALSE]) = Len(checked)
  <2>1. [n \in 1..Len(checked) |-> FALSE] \in Seq(BOOLEAN)
    BY <1>1, IsASeq
  <2> QED
    BY <1>1, <2>1, LenProperties
<1>4. checked' \in Seq(BOOLEAN) /\ Len(checked') = Len(checked)
  BY <1>1, <1>2, <1>3
<1>5. DOMAIN checked' = 1..Len(checked) /\ \A n \in 1..Len(checked) : checked'[n] \in BOOLEAN
  BY <1>4, LenProperties, ElementOfSeq
<1>6. native' \in Seq(Looks) /\ Len(native') = Len(checked)
  <2> DEFINE rows == [n \in 1..Len(checked) |->
                         [mark |-> checked'[n], role |-> IF toolkit = "qt" THEN n - 1 ELSE 0]]
  <2>1. \A n \in 1..Len(checked) : rows[n] \in Looks
    BY <1>1, <1>5 DEF Looks
  <2>2. DOMAIN rows = 1..Len(checked)
    OBVIOUS
  <2>3. native' = rows
    BY <1>2
  <2> HIDE DEF rows
  <2>4. rows = [n \in 1..Len(checked) |-> rows[n]]
    BY <1>2, <2>2, <2>3
  <2>5. [n \in 1..Len(checked) |-> rows[n]] \in Seq(Looks)
    BY <1>1, <2>1, IsASeq
  <2>6. rows \in Seq(Looks)
    BY <2>4, <2>5
  <2> QED
    BY <1>1, <2>2, <2>3, <2>6, LenProperties
<1>7. ASSUME NEW n \in 1..Len(checked)
      PROVE  native'[n].mark = checked'[n] /\ (toolkit = "qt" => native'[n].role = n - 1)
  <2>1. native'[n] = [mark |-> checked'[n], role |-> IF toolkit = "qt" THEN n - 1 ELSE 0]
    BY <1>2
  <2> QED
    BY <2>1
<1>9. DOMAIN native' = 1..Len(checked)
  BY <1>6, LenProperties
<1>8. MarksAgree'
  <2>1. \A n \in DOMAIN checked' : native'[n].mark = checked'[n]
    BY <1>5, <1>7
  <2> QED
    BY <2>1, Zenon DEF MarksAgree
<1> QED
  BY <1>2, <1>4, <1>6, <1>7, <1>8, <1>9 DEF RowInv

\* Steps that leave the rows alone.
LEMMA RowsStay ==
  ASSUME RowInv, UNCHANGED <<checked, native, toolkit>>, gentle' \in BOOLEAN, gentle' => gentle
  PROVE  RowInv'
BY DEF RowInv, MarksAgree

\* The highlight: of a gentle program it is on the row the object names.  On Qt
\* so is the current item, which gets the highlight back without a notification.
LightInv ==
    /\ chosen \in Int
    /\ lit \in -1..Len(checked) - 1 /\ current \in -1..Len(checked) - 1
    /\ toolkit # "qt" => current = -1
    /\ LitIsChosen
    /\ gentle /\ toolkit = "qt" => /\ current # -1 => selected /\ chosen = current
                                   /\ lit # -1 => lit = current
ListInv == RowInv /\ LightInv

\* Steps that leave the highlight alone, on rows that are still there.
LEMMA LightStays ==
  ASSUME LightInv, UNCHANGED <<selected, chosen, lit, current, toolkit>>,
         gentle' => gentle, Len(checked) \in Nat, Len(checked') \in Nat, Len(checked') >= Len(checked)
  PROVE  LightInv'
BY DEF LightInv, LitIsChosen

\* setSelection, and the user's.
LEMMA SetRowKeeps ==
  ASSUME ListInv, NEW k \in Lines, SetRow(k) \/ OnSelect(k)
  PROVE  ListInv'
<1>1. /\ Len(checked) \in Nat /\ k \in 0..Len(checked) - 1
      /\ DOMAIN native = 1..Len(checked)
      /\ \A n \in 1..Len(checked) : native[n] \in Looks
      /\ gentle \in BOOLEAN
  BY LinesAre DEF ListInv, RowInv
<1> DEFINE r == native[k + 1].role
<1>2. r \in Int /\ (gentle /\ toolkit = "qt" => r = k)
  <2>1. k + 1 \in 1..Len(checked)
    BY <1>1
  <2>2. ASSUME gentle, toolkit = "qt" PROVE r = k + 1 - 1
    BY <1>1, <2>1, <2>2 DEF ListInv, RowInv
  <2>3. r \in Int
    BY <1>1, <2>1 DEF Looks
  <2> QED
    BY <1>1, <2>2, <2>3
<1> HIDE DEF r
<1>3. /\ checked' = checked /\ native' = native /\ toolkit' = toolkit /\ gentle' = gentle
      /\ lit' = k /\ current' = IF toolkit = "qt" THEN k ELSE -1
  BY <1>1 DEF SetRow, OnSelect, Light, Tells, ListSilent, ListSilentIf
<1>4. RowInv'
  BY <1>1, <1>3, RowsStay DEF ListInv
<1>5. ASSUME toolkit # "qt" \/ k # current
      PROVE  /\ selected' = TRUE /\ chosen' \in Int
             /\ gentle => chosen' = k
  <2>1. selected' = TRUE /\ chosen' = IF toolkit = "qt" THEN r ELSE k
    BY <1>5 DEF SetRow, OnSelect, Says, r
  <2>2. k \in Int
    BY <1>1
  <2> QED
    BY <1>2, <2>1, <2>2
<1>6. ASSUME toolkit = "qt", k = current
      PROVE  /\ chosen' \in Int
             /\ gentle => selected' /\ chosen' = k
  <2>1. \/ selected' = TRUE /\ chosen' = k
        \/ selected' = selected /\ chosen' = chosen
    BY <1>6 DEF SetRow, OnSelect, Says
  <2>2. k # -1 /\ k \in Int
    BY <1>1
  <2> QED
    BY <1>6, <2>1, <2>2 DEF ListInv, LightInv
<1>7. /\ chosen' \in Int
      /\ gentle => selected' /\ chosen' = k
  BY <1>5, <1>6
<1>8. lit' \in -1..Len(checked') - 1 /\ current' \in -1..Len(checked') - 1
  BY <1>1, <1>3
<1>9. LightInv'
  BY <1>3, <1>7, <1>8 DEF LightInv, LitIsChosen
<1> QED
  BY <1>4, <1>9 DEF ListInv

\* reset, setSelected, deselecting.
LEMMA UnlightKeeps ==
  ASSUME ListInv, ResetRows \/ OnDeselect \/ \E s \in BOOLEAN : SetSelected(s)
  PROVE  ListInv'
<1>1. /\ Len(checked) \in Nat /\ Lines = 0..Len(checked) - 1 /\ toolkit \in Toolkits
      /\ gentle \in BOOLEAN /\ chosen \in Int
      /\ lit \in -1..Len(checked) - 1 /\ current \in -1..Len(checked) - 1
  BY LinesAre DEF ListInv, RowInv, LightInv
<1>2. CASE ResetRows
  <2>1. /\ checked' = <<>> /\ native' = <<>> /\ lit' = -1 /\ current' = -1
        /\ toolkit' = toolkit /\ chosen' \in Int
    <3>1. checked' = <<>> /\ native' = <<>> /\ lit' = -1 /\ current' = -1
      BY <1>2 DEF ResetRows, Light
    <3>2. CASE toolkit = "gtk"
      <4>1. Says(FALSE, 0) /\ ListSilent
        BY <1>2, <3>2 DEF ResetRows
      <4> QED
        BY <1>1, <3>1, <4>1 DEF Says, ListSilent, ListSilentIf
    <3>3. CASE toolkit = "qt" /\ current # -1
      <4>1. Says(FALSE, 0) /\ Tells(<<selected, chosen>> # <<FALSE, 0>>)
        BY <1>2, <3>3 DEF ResetRows
      <4> QED
        BY <1>1, <3>1, <4>1 DEF Says, Tells
    <3>4. CASE toolkit = "cocoa" /\ lit # -1
      <4>1. \/ Says(TRUE, -1) /\ Tells(TRUE)
            \/ UNCHANGED <<selected, chosen>> /\ ListSilent
        BY <1>2, <3>4 DEF ResetRows
      <4> QED
        BY <1>1, <3>1, <4>1 DEF Says, Tells, ListSilent, ListSilentIf
    <3>5. CASE /\ toolkit # "gtk" /\ ~(toolkit = "qt" /\ current # -1)
               /\ ~(toolkit = "cocoa" /\ lit # -1)
      <4>1. UNCHANGED <<selected, chosen>> /\ ListSilentIf(~selected)
        BY <1>2, <3>5 DEF ResetRows
      <4> QED
        BY <1>1, <3>1, <4>1 DEF ListSilentIf
    <3> QED
      BY <3>2, <3>3, <3>4, <3>5
  <2>3. gentle' \in BOOLEAN
    BY <1>1, <1>2 DEF ResetRows, Tells, ListSilent, ListSilentIf, Toolkits
  <2>2. /\ checked' \in Seq(BOOLEAN) /\ native' \in Seq(Looks)
        /\ Len(checked') = 0 /\ Len(native') = 0
        /\ DOMAIN checked' = {} /\ DOMAIN native' = {}
    BY <2>1, EmptySeq
  <2> QED
    BY <1>1, <2>1, <2>2, <2>3 DEF ListInv, RowInv, LightInv, MarksAgree, LitIsChosen
<1>3. CASE OnDeselect
  <2>1. /\ UNCHANGED <<checked, native, toolkit, gentle, current>> /\ lit' = -1
        /\ IF toolkit = "cocoa" THEN selected' = TRUE /\ chosen' = -1
           ELSE UNCHANGED <<selected, chosen>>
    BY <1>1, <1>3 DEF OnDeselect, Says, Tells, ListSilent, ListSilentIf
  <2>2. RowInv'
    BY <1>1, <2>1, RowsStay DEF ListInv
  <2>3. /\ lit' \in -1..Len(checked') - 1 /\ current' \in -1..Len(checked') - 1
        /\ chosen' \in Int
    BY <1>1, <2>1
  <2>4. /\ toolkit' # "qt" => current' = -1
        /\ gentle' /\ toolkit' = "qt" /\ current' # -1 => selected' /\ chosen' = current'
    BY <2>1 DEF ListInv, LightInv
  <2>5. LightInv'
    BY <2>1, <2>3, <2>4 DEF LightInv, LitIsChosen
  <2> QED
    BY <2>2, <2>5 DEF ListInv
<1>4. ASSUME NEW s \in BOOLEAN, SetSelected(s) PROVE ListInv'
  <2>0. gentle' \in BOOLEAN /\ (gentle' => gentle)
    BY <1>1, <1>4 DEF SetSelected, Tells, ListSilent, ListSilentIf, Toolkits
  <2>1. /\ UNCHANGED <<checked, native, toolkit>> /\ chosen' \in Int
        /\ lit' \in -1..Len(checked) - 1 /\ current' \in -1..Len(checked) - 1
        /\ toolkit # "qt" => current' = -1
    <3>1. UNCHANGED <<checked, native>> /\ (toolkit # "qt" => current = -1)
      BY <1>4 DEF SetSelected, ListInv, LightInv
    <3>2. CASE toolkit \in {"windows", "gtk"}
      <4>1. Says(s, chosen) /\ Light(IF s THEN Line(chosen) ELSE -1) /\ ListSilent
        BY <1>4, <3>2 DEF SetSelected
      <4>2. (IF s THEN Line(chosen) ELSE -1) \in -1..Len(checked) - 1
        BY <1>1 DEF Line
      <4>3. chosen' = chosen /\ lit' \in -1..Len(checked) - 1 /\ current' = -1 /\ toolkit' = toolkit
        BY <3>2, <4>1, <4>2 DEF Says, Light, ListSilent, ListSilentIf
      <4> QED
        BY <1>1, <3>1, <4>3
    <3>3. CASE toolkit = "qt"
      <4>1. Says(s, chosen) /\ lit' = (IF s THEN current ELSE -1) /\ current' = current /\ ListSilentIf(FALSE)
        BY <1>4, <3>3 DEF SetSelected
      <4> QED
        BY <1>1, <3>1, <3>3, <4>1 DEF Says, ListSilentIf
    <3>4. CASE toolkit = "cocoa" /\ (s \/ lit = -1)
      <4>1. Says(s, chosen) /\ UNCHANGED <<lit, current>> /\ ListSilentIf(FALSE)
        BY <1>4, <3>4 DEF SetSelected
      <4> QED
        BY <1>1, <3>1, <3>4, <4>1 DEF Says, ListSilentIf
    <3>5. CASE toolkit = "cocoa" /\ ~(s \/ lit = -1)
      <4>1. Says(TRUE, -1) /\ Light(-1) /\ Tells(TRUE)
        BY <1>4, <3>5 DEF SetSelected
      <4> QED
        BY <1>1, <3>1, <3>5, <4>1 DEF Says, Light, Tells
    <3>6. CASE toolkit = "cocoa"
      BY <3>4, <3>5, <3>6, Zenon
    <3>7. toolkit \in {"windows", "gtk"} \/ toolkit = "qt" \/ toolkit = "cocoa"
      BY <1>1 DEF Toolkits
    <3> QED
      BY <3>2, <3>3, <3>6, <3>7, Zenon
  <2>2. ASSUME gentle', lit' # -1 PROVE selected' /\ chosen' = lit' /\ toolkit # "qt"
    <3>1. CASE toolkit \in {"windows", "gtk"}
      BY <1>1, <1>4, <2>2, <3>1 DEF SetSelected, Says, Light, Line
    <3>2. CASE toolkit = "qt"
      BY <1>4, <2>2, <3>2 DEF SetSelected, ListSilentIf
    <3>3. CASE toolkit = "cocoa"
      BY <1>1, <1>4, <2>2, <3>3 DEF SetSelected, Says, Light, ListSilentIf
    <3> QED
      BY <1>1, <3>1, <3>2, <3>3 DEF Toolkits
  <2>3. ASSUME toolkit = "qt" PROVE gentle' = FALSE
    BY <1>4, <2>3 DEF SetSelected, ListSilentIf
  <2>4. RowInv'
    BY <2>0, <2>1, RowsStay DEF ListInv
  <2> QED
    BY <2>1, <2>2, <2>3, <2>4 DEF ListInv, LightInv, LitIsChosen
<1> QED
  BY <1>2, <1>3, <1>4

\* The row that is current next, when the current one of several goes.
LEMMA RowBefore ==
  ASSUME NEW n \in Nat, n # 1, NEW k \in 0..n - 1
  PROVE  /\ (IF k < n - 1 THEN k ELSE k - 1) \in 0..n - 2
         /\ (IF k < n - 1 THEN k ELSE k - 1) + 1 \in 1..n - 1
OBVIOUS

\* remove: the highlight stays with its row, or goes, or on Qt moves to the row
\* before, and the object follows it.
LEMMA RemoveLight ==
  ASSUME ListInv, NEW k \in Lines, RemoveRow(k)
  PROVE  ListInv'
<1>1. /\ Len(checked) \in Nat /\ k \in 0..Len(checked) - 1 /\ toolkit \in Toolkits
      /\ gentle \in BOOLEAN /\ chosen \in Int
      /\ lit \in -1..Len(checked) - 1 /\ current \in -1..Len(checked) - 1
  BY LinesAre DEF ListInv, RowInv, LightInv
<1>2. RowInv' /\ Len(checked') = Len(checked) - 1 /\ Len(native') = Len(checked) - 1
  BY RemoveRowKeeps DEF ListInv
<1>3. /\ HighlightLeft(k, Len(checked))
      /\ toolkit' = toolkit /\ gentle' \in BOOLEAN /\ (gentle' => gentle /\ MayRemove(k))
  BY <1>1 DEF RemoveRow, ListSilentIf
<1>4. /\ DOMAIN native' = 1..Len(checked) - 1
      /\ \A n \in 1..Len(checked) - 1 : native'[n] \in Looks
      /\ gentle' /\ toolkit = "qt" => \A n \in 1..Len(checked) - 1 : native'[n].role = n - 1
  <2>1. native' \in Seq(Looks)
    BY <1>2 DEF RowInv
  <2>2. DOMAIN native' = 1..Len(checked) - 1
    BY <1>2, <2>1, LenProperties
  <2> QED
    BY <1>2, <1>3, <2>1, <2>2, ElementOfSeq DEF RowInv
<1> DEFINE L == Len(checked)
<1>5. L \in Nat /\ k \in 0..L - 1 /\ lit \in -1..L - 1 /\ current \in -1..L - 1
  BY <1>1
<1>6. CASE toolkit \in {"windows", "gtk"}
  <2>1. lit' = After(lit, k) /\ current' = -1 /\ selected' = selected /\ chosen' = chosen
    BY <1>3, <1>6 DEF HighlightLeft, Light
  <2>2. lit' \in -1..L - 2 /\ current' \in -1..L - 2
    BY <1>5, <2>1 DEF After
  <2>3. ASSUME gentle', lit' # -1 PROVE selected /\ chosen = lit'
    <3>1. gentle /\ (selected => k > chosen)
      BY <1>3, <1>6, <2>3 DEF MayRemove
    <3>2. lit # -1
      BY <1>5, <2>1, <2>3 DEF After
    <3>3. selected /\ chosen = lit
      BY <3>1, <3>2 DEF ListInv, LightInv, LitIsChosen
    <3> QED
      BY <1>5, <2>1, <2>3, <3>1, <3>3 DEF After
  <2>4. LightInv'
    BY <1>1, <1>2, <1>3, <1>6, <2>1, <2>2, <2>3 DEF LightInv, LitIsChosen
  <2> QED
    BY <1>2, <2>4 DEF ListInv
<1>7. CASE toolkit = "qt" /\ k # current
  <2>1. lit' = After(lit, k) /\ current' = After(current, k) /\ selected' = selected /\ chosen' = chosen
    BY <1>3, <1>7 DEF HighlightLeft
  <2>2. lit' \in -1..L - 2 /\ current' \in -1..L - 2
    BY <1>5, <2>1 DEF After
  <2>3. ASSUME gentle'
        PROVE  /\ lit' # -1 => selected /\ chosen = lit' /\ lit' = current'
               /\ current' # -1 => selected /\ chosen = current'
    <3>1. gentle /\ k = L - 1
      BY <1>3, <1>7, <2>3 DEF MayRemove
    <3>2. current' = current /\ (lit' # -1 => lit' = lit)
      BY <1>5, <1>7, <2>1, <3>1 DEF After
    <3> QED
      BY <1>7, <3>1, <3>2 DEF ListInv, LightInv, LitIsChosen
  <2>4. LightInv'
    BY <1>1, <1>2, <1>3, <1>7, <2>1, <2>2, <2>3 DEF LightInv, LitIsChosen
  <2> QED
    BY <1>2, <2>4 DEF ListInv
<1>8. CASE toolkit = "qt" /\ k = current
  <2> DEFINE next == IF k < L - 1 THEN k ELSE k - 1
  <2>1. IF L = 1 THEN lit' = -1 /\ current' = -1 /\ selected' = FALSE /\ chosen' = 0
        ELSE lit' = next /\ current' = next /\ selected' = TRUE /\ chosen' = native'[next + 1].role
    BY <1>3, <1>8 DEF HighlightLeft, Light, Says
  <2>2. CASE L = 1
    <3>0. /\ lit' \in -1..Len(checked') - 1 /\ current' \in -1..Len(checked') - 1
          /\ lit' = -1 /\ current' = -1 /\ chosen' \in Int
      <4>1. Len(checked') = 0
        BY <1>2, <2>2
      <4> QED
        BY <2>1, <2>2, <4>1
    <3>1. LightInv'
      BY <3>0 DEF LightInv, LitIsChosen
    <3> QED
      BY <1>2, <3>1 DEF ListInv
  <2>3. CASE L # 1
    <3>1. next \in 0..L - 2 /\ next + 1 \in 1..L - 1
      BY <1>5, <2>3, RowBefore
    <3>2. chosen' \in Int
      BY <1>4, <2>1, <2>3, <3>1 DEF Looks
    <3>3. ASSUME gentle' PROVE chosen' = next
      <4>1. native'[next + 1].role = next + 1 - 1
        BY <1>4, <1>8, <3>1, <3>3
      <4> QED
        BY <2>1, <2>3, <3>1, <4>1
    <3> HIDE DEF next
    <3>4. LightInv'
      BY <1>2, <1>3, <1>5, <1>8, <2>1, <2>3, <3>1, <3>2, <3>3 DEF LightInv, LitIsChosen
    <3> QED
      BY <1>2, <3>4 DEF ListInv
  <2> QED
    BY <2>2, <2>3
<1>9. CASE toolkit = "cocoa"
  <2>1. CASE lit < L - 1
    <3>1. lit' = lit /\ current' = current /\ selected' = selected /\ chosen' = chosen
      <4>1. ~(lit = Len(checked) - 1)
        BY <1>1, <2>1
      <4> QED
        BY <1>3, <1>9, <2>1, <4>1 DEF HighlightLeft
    <3>2. current' \in -1..L - 2
      BY <1>5, <1>9, <3>1 DEF ListInv, LightInv
    <3> QED
      BY <1>2, <1>3, <1>5, <1>9, <2>1, <3>1, <3>2 DEF ListInv, LightInv, LitIsChosen
  <2>2. CASE lit = L - 1
    <3>0. ~(lit < Len(checked) - 1)
      BY <1>1, <2>2
    <3>1. /\ lit' = -1 /\ current' = -1 /\ chosen' \in Int
      <4>1. Light(-1) /\ (Says(TRUE, -1) \/ UNCHANGED <<selected, chosen>>)
        BY <1>3, <1>9, <2>2, <3>0 DEF HighlightLeft
      <4> QED
        BY <1>1, <1>9, <4>1 DEF Light, Says
    <3> QED
      BY <1>2, <1>3, <1>5, <1>9, <3>1 DEF ListInv, LightInv, LitIsChosen
  <2> QED
    BY <1>5, <2>1, <2>2
<1> QED
  BY <1>1, <1>6, <1>7, <1>8, <1>9 DEF Toolkits

\* orphan: the row the object names is highlighted, if it is selected.
LEMMA OrphanLight ==
  ASSUME ListInv, OrphanList
  PROVE  ListInv'
<1>1. /\ Len(checked) \in Nat /\ Lines = 0..Len(checked) - 1
      /\ chosen \in Int
  BY LinesAre DEF ListInv, RowInv, LightInv
<1>2. RowInv' /\ Len(checked') = Len(checked)
  BY OrphanListKeeps DEF ListInv
<1>3. /\ lit' = IF selected THEN Line(chosen) ELSE -1
      /\ current' = IF toolkit = "qt" THEN lit' ELSE -1
      /\ toolkit' = toolkit /\ selected' = selected /\ chosen' = chosen
  BY DEF OrphanList, Light, ListSilentIf
<1>4. lit' \in -1..Len(checked) - 1 /\ current' \in -1..Len(checked) - 1
  BY <1>1, <1>3 DEF Line
<1>5. lit' # -1 => selected /\ chosen = lit'
  BY <1>3 DEF Line
<1>6. LightInv'
  BY <1>1, <1>2, <1>3, <1>4, <1>5 DEF LightInv, LitIsChosen
<1> QED
  BY <1>2, <1>6 DEF ListInv

\* The invariant of lists holds from the start on.
LEMMA ListHolds == ListSpec => []ListInv
<1>1. ListInit => ListInv
  <2>1. /\ <<>> \in Seq(BOOLEAN) /\ <<>> \in Seq(Looks) /\ Len(<<>>) = 0 /\ DOMAIN <<>> = {}
    BY EmptySeq
  <2> SUFFICES ASSUME ListInit PROVE ListInv
    OBVIOUS
  <2>0. /\ toolkit \in Toolkits /\ gentle = TRUE /\ lit = -1 /\ current = -1
        /\ selected = FALSE /\ chosen = 0 /\ checked = <<>> /\ native = <<>>
    BY DEF ListInit
  <2>2. toolkit \in Toolkits /\ gentle \in BOOLEAN
    BY <2>0
  <2>3. /\ checked \in Seq(BOOLEAN) /\ native \in Seq(Looks) /\ Len(native) = Len(checked)
        /\ Len(checked) = 0 /\ DOMAIN checked = {} /\ DOMAIN native = {}
    BY <2>0, <2>1
  <2>4. RowInv
    BY <2>2, <2>3 DEF RowInv, MarksAgree
  <2>5. lit \in -1..Len(checked) - 1 /\ current \in -1..Len(checked) - 1
    BY <2>0, <2>3
  <2>6. lit = -1 /\ current = -1 /\ chosen \in Int
    BY <2>0
  <2> QED
    BY <2>4, <2>5, <2>6 DEF ListInv, LightInv, LitIsChosen
<1>2. ListInv /\ [ListNext]_listVars => ListInv'
  <2> SUFFICES ASSUME ListInv, [ListNext]_listVars PROVE ListInv'
    OBVIOUS
  <2>1. CASE UNCHANGED listVars
    BY <2>1 DEF listVars, objectVars, nativeVars, ListInv, RowInv, LightInv, MarksAgree, LitIsChosen
  <2>2. CASE AppendRow
    <3>1. RowInv' /\ LightInv'
      BY <2>2, AppendRowKeeps, LightStays DEF ListInv
    <3> QED
      BY <3>1 DEF ListInv
  <2>3. ASSUME NEW k \in Lines, NEW b \in BOOLEAN, SetChecked(k, b) \/ OnToggle(k) \/ Repaint(k, b)
        PROVE  ListInv'
    <3>1. Len(checked) \in Nat
      BY LinesAre DEF ListInv, RowInv
    <3>2. RowInv' /\ LightInv'
      BY <2>3, <3>1, TicksKeep, LightStays DEF ListInv
    <3> QED
      BY <3>2 DEF ListInv
  <2>4. ASSUME NEW k \in Lines, OnToggle(k) PROVE ListInv'
    BY <2>3, <2>4
  <2> QED
    BY <2>1, <2>2, <2>3, <2>4, SetRowKeeps, UnlightKeeps, RemoveLight, OrphanLight DEF ListNext
<1> QED
  BY <1>1, <1>2, PTL DEF ListSpec

\* The marks on screen are those of the object, for any number of rows: always
\* on Windows, GTK and Cocoa, and on Qt while the roles are the rows' numbers.
THEOREM MarksAgreeHolds == ListSpec => []MarksAgree
<1>1. ListInv => MarksAgree
  BY DEF ListInv, RowInv
<1> QED
  BY <1>1, ListHolds, PTL

\* No row is highlighted but the one the object names, whatever rows come and
\* go and however often the list is made again, for gentle programs.
THEOREM LitIsChosenHolds == ListSpec => []LitIsChosen
<1>1. ListInv => LitIsChosen
  BY DEF ListInv, LightInv
<1> QED
  BY <1>1, ListHolds, PTL

\* The user ticks a row: its mark turns over in the object and no other does,
\* and that row is what onToggle is told.  Nothing else tells of rows, but for
\* images on Qt.
LEMMA ToggleTold ==
  ASSUME RowInv, ListNext, gentle', toggled' # -1
  PROVE  {k \in Lines : checked'[k + 1] # checked[k + 1]} = {toggled'}
<1>1. PICK k \in Lines : OnToggle(k) \/ \E b \in BOOLEAN : Repaint(k, b)
  BY DEF ListNext, NoToggle, AppendRow, ResetRows, OnDeselect, OrphanList, RemoveRow, SetRow, OnSelect,
         SetChecked, SetSelected
<1>2. /\ Len(checked) \in Nat /\ k \in 0..Len(checked) - 1 /\ Lines = 0..Len(checked) - 1
      /\ DOMAIN checked = 1..Len(checked) /\ DOMAIN native = 1..Len(checked)
      /\ \A n \in 1..Len(checked) : checked[n] \in BOOLEAN /\ native[n] \in Looks
      /\ toolkit \in Toolkits
  BY LinesAre DEF RowInv
<1>3. k + 1 \in 1..Len(checked)
  BY <1>2
<1>4. ASSUME NEW b \in BOOLEAN, Repaint(k, b) PROVE FALSE
  BY <1>4 DEF Repaint, ListSilentIf, NoToggle
<1>5. CASE OnToggle(k)
  <2>1. gentle
    BY <1>5 DEF OnToggle, ListSilent, ListSilentIf
  <2>2. ASSUME toolkit = "qt" PROVE native[k + 1].role = k
    <3>1. native[k + 1].role = k + 1 - 1
      BY <1>2, <1>3, <2>1, <2>2 DEF RowInv
    <3> QED
      BY <1>2, <3>1
  <2>3. native[k + 1].mark = checked[k + 1]
    BY <1>2, <1>3, <2>1 DEF RowInv, MarksAgree
  <2>4. checked' = [checked EXCEPT ![k + 1] = ~checked[k + 1]] /\ toggled' = k
    BY <1>2, <1>5, <2>2, <2>3 DEF OnToggle, Stored, Toolkits
  <2>5. \A n \in Lines : n + 1 \in 1..Len(checked) /\ (n + 1 = k + 1 <=> n = k)
    BY <1>2
  <2>6. \A n \in Lines : checked'[n + 1] # checked[n + 1] <=> n = k
    BY <1>2, <1>3, <2>4, <2>5
  <2> QED
    BY <1>1, <2>4, <2>6
<1> QED
  BY <1>1, <1>4, <1>5

\* What onToggle is told of is the one row whose mark has changed, on all four
\* toolkits, with any number of rows, if the program is gentle.
THEOREM TogglesToldHolds == ListSpec => TogglesTold
<1> DEFINE InPlace == gentle' /\ toggled' # -1 =>
                        {k \in Lines : checked'[k + 1] # checked[k + 1]} = {toggled'}
<1>1. RowInv /\ [ListNext]_listVars => [InPlace]_listVars
  BY ToggleTold
<1>2. ListSpec => []RowInv
  BY ListHolds, PTL DEF ListInv
<1>3. [][InPlace]_listVars => TogglesTold
  BY DEF TogglesTold
<1> HIDE DEF InPlace
<1> QED
  BY <1>1, <1>2, <1>3, PTL DEF ListSpec

-----------------------------------------------------------------------------
\* The invariant of timers, for the toolkits that do not look again before a
\* callback: a source is a living, enabled timer's.  (GTK's sources outlive
\* setEnabled(false); Timer_trigger asks.)
Guarded == \A i \in Ids : source[i] = NoSource \/ (source[i].of \in living /\ enabled[source[i].of])
TimerInv ==
    /\ living \subseteq Clocks /\ listed \in Seq(Clocks) /\ enabled \in [Clocks -> BOOLEAN]
    /\ prudent \in BOOLEAN /\ toolkit \in Toolkits
    /\ prudent /\ toolkit # "gtk" => DOMAIN source = Ids /\ Guarded

\* A new source is one of the timer it is started for; the others stay.
LEMMA StartedIs ==
  ASSUME NEW from, DOMAIN from = Ids, NEW t, NEW n
  PROVE  /\ DOMAIN Started(from, t, n) = Ids
         /\ \A j \in Ids : \/ Started(from, t, n)[j] = from[j]
                           \/ Started(from, t, n)[j] = [of |-> t, pace |-> n]
BY DEF Started

\* A timer that is restarted, or only stopped, has sources only if enabled.
LEMMA RestartedGuards ==
  ASSUME DOMAIN source = Ids, Guarded, NEW t \in Clocks, NEW b \in BOOLEAN, NEW n,
         NEW liv, NEW en,
         \A u \in living : u # t /\ enabled[u] => u \in liv /\ en[u],
         b => t \in liv /\ en[t]
  PROVE  /\ DOMAIN Restarted(t, b, n) = Ids
         /\ \A i \in Ids : \/ Restarted(t, b, n)[i] = NoSource
                           \/ /\ Restarted(t, b, n)[i].of \in liv
                              /\ en[Restarted(t, b, n)[i].of]
<1>1. /\ DOMAIN Stopped(t) = Ids
      /\ \A i \in Ids : \/ Stopped(t)[i] = NoSource
                        \/ Stopped(t)[i].of \in liv /\ en[Stopped(t)[i].of]
  BY DEF Stopped, Guarded
<1>2. CASE b
  <2>1. Restarted(t, b, n) = Started(Stopped(t), t, n)
    BY <1>2 DEF Restarted
  <2>2. \A j \in Ids : \/ Restarted(t, b, n)[j] = Stopped(t)[j]
                       \/ Restarted(t, b, n)[j] = [of |-> t, pace |-> n]
    BY <1>1, <2>1, StartedIs
  <2>3. DOMAIN Restarted(t, b, n) = Ids
    BY <1>1, <2>1, StartedIs
  <2>4. [of |-> t, pace |-> n].of = t
    OBVIOUS
  <2> QED
    BY <1>1, <1>2, <2>2, <2>3, <2>4
<1>3. CASE ~b
  BY <1>1, <1>3 DEF Restarted
<1> QED
  BY <1>2, <1>3

\* The program's calls leave no source to a timer that is disabled or gone.
LEMMA CallsGuard ==
  ASSUME TimerInv, NEW t \in Clocks, NEW b \in BOOLEAN, NEW n \in Intervals,
         NewTimer(t) \/ DestroyTimer(t) \/ SetTimerEnabled(t, b) \/ SetTimerInterval(t, n)
  PROVE  TimerInv'
<1>1. /\ living' \subseteq Clocks /\ enabled' \in [Clocks -> BOOLEAN]
      /\ toolkit' = toolkit /\ prudent' \in BOOLEAN /\ (prudent' => prudent)
  BY DEF TimerInv, NewTimer, DestroyTimer, SetTimerEnabled, SetTimerInterval, Call
<1>2. listed' \in Seq(Clocks)
  <2>1. Append(listed, t) \in Seq(Clocks)
    BY Appended DEF TimerInv
  <2> QED
    BY <2>1 DEF TimerInv, NewTimer, DestroyTimer, SetTimerEnabled, SetTimerInterval
<1>3. ASSUME prudent', toolkit # "gtk" PROVE DOMAIN source' = Ids /\ Guarded'
  <2>1. DOMAIN source = Ids /\ Guarded
    BY <1>1, <1>3 DEF TimerInv
  <2>2. CASE NewTimer(t)
    BY <2>1, <2>2 DEF NewTimer, Guarded, TimerInv
  <2>3. CASE SetTimerEnabled(t, b)
    <3>1. source' = Restarted(t, b, interval[t]) /\ living' = living /\ enabled' = [enabled EXCEPT ![t] = b]
          /\ t \in living
      BY <1>3, <2>3 DEF SetTimerEnabled
    <3>2. /\ \A u \in living : u # t /\ enabled[u] => u \in living' /\ enabled'[u]
          /\ b => t \in living' /\ enabled'[t]
      BY <3>1 DEF TimerInv
    <3> QED
      BY <2>1, <3>1, <3>2, RestartedGuards DEF Guarded
  <2>4. CASE SetTimerInterval(t, n)
    <3>1. source' = Restarted(t, enabled[t], n) /\ living' = living /\ enabled' = enabled /\ t \in living
      BY <1>3, <2>4 DEF SetTimerInterval
    <3>2. enabled[t] \in BOOLEAN
      BY DEF TimerInv
    <3> QED
      BY <2>1, <3>1, <3>2, RestartedGuards DEF Guarded
  <2>5. CASE DestroyTimer(t)
    <3>1. living' = living \ {t} /\ enabled' = enabled
      BY <2>5 DEF DestroyTimer
    <3>2. toolkit # "windows"
      BY <1>3, <2>5 DEF DestroyTimer, Call, TimerInv
    <3>3. source' = Stopped(t) \/ (source' = source /\ toolkit \notin {"qt", "cocoa"})
      BY <2>5 DEF DestroyTimer
    <3>4. CASE source' = Stopped(t)
      BY <2>1, <3>1, <3>4 DEF Stopped, Guarded
    <3>5. CASE toolkit \notin {"qt", "cocoa"}
      BY <1>3, <3>2, <3>5 DEF TimerInv, Toolkits
    <3> QED
      BY <3>3, <3>4, <3>5
  <2> QED
    BY <2>2, <2>3, <2>4, <2>5
<1> QED
  BY <1>1, <1>2, <1>3 DEF TimerInv

\* The loops change no timer, and no source but on GTK.
LEMMA ServesGuard ==
  ASSUME TimerInv,
         (\E i \in Ids : Due(i) \/ Serve(i)) \/ Return \/ UNCHANGED timerVars
  PROVE  TimerInv'
<1>1. /\ UNCHANGED <<toolkit, living, listed, enabled, prudent>>
      /\ toolkit # "gtk" => source' = source
  BY DEF Due, Serve, Dispatch, Trigger, Run, Return, timerVars, clockVars
<1> QED
  BY <1>1 DEF TimerInv, Guarded

\* A callback starts for the timer of a source, which is guarded; GTK asks.
LEMMA TickInTime ==
  ASSUME TimerInv, TimerNext, prudent, running = Idle, running' # Idle
  PROVE  running'.timer \in living /\ enabled[running'.timer]
<1>1. PICK i \in Ids : Serve(i)
  BY DEF TimerNext, NewTimer, DestroyTimer, SetTimerEnabled, SetTimerInterval, Call, Due, Return
<1>2. CASE Trigger(i)
  BY <1>2 DEF Trigger
<1>3. CASE Run(i)
  <2>1. toolkit # "gtk" /\ source[i] # NoSource /\ running'.timer = source[i].of
    BY <1>3 DEF Run
  <2> QED
    BY <2>1 DEF TimerInv, Guarded
<1>4. CASE Dispatch(i)
  <2> DEFINE hit == {n \in DOMAIN listed : i \in Of(listed[n])}
  <2>1. toolkit = "windows" /\ running' = IF hit = {} THEN Idle ELSE [timer |-> source[i].of, id |-> i]
    BY <1>4 DEF Dispatch
  <2>2. PICK n \in DOMAIN listed : i \in Of(listed[n])
    BY <2>1
  <2>3. source[i].of = listed[n] /\ running'.timer = source[i].of
    BY <2>1, <2>2 DEF Of
  <2>4. listed[n] \in Clocks
    BY <2>2, ElementOfSeq, LenProperties DEF TimerInv
  <2>5. source[i] # NoSource
    BY <2>3, <2>4, TimerAssumption DEF NoSource
  <2> QED
    BY <2>1, <2>3, <2>5 DEF TimerInv, Guarded
<1> QED
  BY <1>1, <1>2, <1>3, <1>4 DEF Serve

\* A callback starts only for a timer that exists and is enabled, on all four
\* toolkits, however many timers and messages there are.
THEOREM NoLateTickHolds == TimerSpec => NoLateTick
<1> DEFINE InTime == prudent /\ running = Idle /\ running' # Idle =>
                       running'.timer \in living /\ enabled[running'.timer]
<1>1. TimerInit => TimerInv
  BY EmptySeq DEF TimerInit, TimerInv, Guarded
<1>2. TimerInv /\ [TimerNext]_timerVars => TimerInv'
  <2> SUFFICES ASSUME TimerInv, [TimerNext]_timerVars PROVE TimerInv'
    OBVIOUS
  <2>1. FALSE \in BOOLEAN /\ 0 \in Intervals
    BY DEF Intervals
  <2> QED
    BY <2>1, CallsGuard, ServesGuard DEF TimerNext
<1>3. TimerInv /\ [TimerNext]_timerVars => [InTime]_timerVars
  <2> SUFFICES ASSUME TimerInv, TimerNext PROVE InTime
    OBVIOUS
  <2> QED
    BY TickInTime
<1>4. [][InTime]_timerVars => NoLateTick
  BY DEF NoLateTick
<1> HIDE DEF InTime
<1> QED
  BY <1>1, <1>2, <1>3, <1>4, PTL DEF TimerSpec
-----------------------------------------------------------------------------
\* The invariant behind OneSource, for a program that keeps to the rules: no two
\* sources are of one timer, a source is of a timer that lives, an enabled timer
\* has a source, and but on GTK it is of an enabled timer and has its interval.
\* On GTK the source whose callback is running is there until it returns.
Single == \A i, j \in Ids : source[i].of \in Clocks /\ source[i].of = source[j].of => i = j
Homed == \A i \in Ids : source[i].of \in Clocks => source[i].of \in living
Served == \A t \in living : enabled[t] => \E i \in Ids : source[i].of = t
Paced == \A i \in Ids : source[i].of \in Clocks =>
            enabled[source[i].of] /\ source[i].pace = interval[source[i].of]
Turn == running # Idle => source[running.id].of = running.timer
SourceInv ==
    /\ TimerTypeOK
    /\ \A i \in Ids : source[i].of = NoClock => source[i] = NoSource
    /\ prudent => /\ Single /\ Homed /\ Served
                  /\ toolkit # "gtk" => Paced
                  /\ toolkit = "gtk" => Turn

\* While the timers other than t have one source each, there is a number for one
\* more, and Started takes it.
LEMMA FreeSource ==
  ASSUME NEW from \in [Ids -> [of : Clocks \union {NoClock}, pace : Intervals]],
         \A i \in Ids : from[i].of = NoClock => from[i] = NoSource,
         \A i, j \in Ids : from[i].of \in Clocks /\ from[i].of = from[j].of => i = j,
         NEW t \in Clocks, \A i \in Ids : from[i].of # t, NEW n \in Intervals
  PROVE  \E k \in Ids : /\ from[k] = NoSource
                        /\ Started(from, t, n) = [from EXCEPT ![k] = [of |-> t, pace |-> n]]
<1> DEFINE free == {i \in Ids : from[i] = NoSource}
<1>1. ASSUME free = {} PROVE FALSE
  <2> DEFINE others == Clocks \ {t}
             owner == [i \in Ids |-> from[i].of]
  <2>1. owner \in [Ids -> others]
    BY <1>1
  <2>2. IsFiniteSet(Ids) /\ Cardinality(Ids) = MaxSources
    BY TimerAssumption, FS_Interval DEF Ids
  <2>3. IsFiniteSet(others) /\ Cardinality(others) = Cardinality(Clocks) - 1
    BY SourcesAssumption, FS_RemoveElement
  <2>4. Cardinality(Clocks) \in Nat /\ Cardinality(Clocks) <= MaxSources
    BY SourcesAssumption, FS_CardinalityType
  <2>5. Cardinality(others) < Cardinality(Ids)
    BY <2>2, <2>3, <2>4, TimerAssumption
  <2> HIDE DEF others, owner
  <2>6. PICK i, j \in Ids : i # j /\ owner[i] = owner[j]
    BY <2>1, <2>2, <2>3, <2>5, FS_PigeonHole
  <2>7. from[i].of = from[j].of /\ from[i].of \in Clocks
    BY <1>1, <2>6 DEF owner
  <2> QED
    BY <2>6, <2>7
<1>2. free \in SUBSET Nat
  BY TimerAssumption DEF Ids
<1>3. PICK m \in free : \A j \in free : m <= j
  <2>1. IsWellFoundedOn(OpToRel(<, Nat), Nat)
    BY NatLessThanWellFounded
  <2>2. PICK m \in free : \A j \in free : ~(<<j, m>> \in OpToRel(<, Nat))
    <3> HIDE DEF free
    <3> QED
      BY <1>1, <1>2, <2>1, WFMin
  <2>3. \A j \in free : m \in Nat /\ j \in Nat /\ ~(j < m)
    BY <1>2, <2>2 DEF OpToRel
  <2> QED
    BY <2>3
<1>4. (CHOOSE i \in free : \A j \in free : i <= j) \in free
  BY <1>3
<1> QED
  BY <1>1, <1>4 DEF Started

\* Stopping a timer takes its sources, and no others.
LEMMA SourcesStay ==
  ASSUME SourceInv, NEW t \in Clocks, NEW b \in BOOLEAN, NEW n \in Intervals
  PROVE  /\ Stopped(t) \in [Ids -> [of : Clocks \union {NoClock}, pace : Intervals]]
         /\ \A i \in Ids : Stopped(t)[i] = IF source[i].of = t THEN NoSource ELSE source[i]
         /\ \A i \in Ids : Stopped(t)[i].of # t
         /\ \A i \in Ids : Stopped(t)[i].of = NoClock => Stopped(t)[i] = NoSource
<1>1. source \in [Ids -> [of : Clocks \union {NoClock}, pace : Intervals]]
  BY DEF SourceInv, TimerTypeOK
<1>2. /\ NoSource \in [of : Clocks \union {NoClock}, pace : Intervals]
      /\ NoSource.of = NoClock /\ NoClock # t
  BY TimerAssumption DEF NoSource, Intervals
<1> QED
  BY <1>1, <1>2 DEF Stopped, SourceInv

\* A source that is started for t leaves the others as they are.
LEMMA StartedTypes ==
  ASSUME NEW from \in [Ids -> [of : Clocks \union {NoClock}, pace : Intervals]],
         \A i \in Ids : from[i].of = NoClock => from[i] = NoSource,
         NEW t \in Clocks, NEW n \in Intervals
  PROVE  /\ Started(from, t, n) \in [Ids -> [of : Clocks \union {NoClock}, pace : Intervals]]
         /\ \A i \in Ids : Started(from, t, n)[i].of = NoClock => Started(from, t, n)[i] = NoSource
<1>1. [of |-> t, pace |-> n] \in [of : Clocks \union {NoClock}, pace : Intervals]
  OBVIOUS
<1>2. \A k : [from EXCEPT ![k] = [of |-> t, pace |-> n]]
               \in [Ids -> [of : Clocks \union {NoClock}, pace : Intervals]]
  BY <1>1
<1>3. Started(from, t, n) \in [Ids -> [of : Clocks \union {NoClock}, pace : Intervals]]
  BY <1>2 DEF Started
<1>4. DOMAIN from = Ids
  OBVIOUS
<1>5. \A j \in Ids : \/ Started(from, t, n)[j] = from[j]
                     \/ Started(from, t, n)[j] = [of |-> t, pace |-> n]
  BY <1>4, StartedIs
<1>6. [of |-> t, pace |-> n].of # NoClock
  BY TimerAssumption
<1> QED
  BY <1>3, <1>5, <1>6

\* A timer without sources is stopped.
LEMMA StoppedAlready ==
  ASSUME SourceInv, NEW t \in Clocks, Of(t) = {}
  PROVE  Stopped(t) = source
<1>1. \A i \in Ids : source[i].of # t
  BY DEF Of
<1> QED
  BY <1>1 DEF Stopped, SourceInv, TimerTypeOK

\* A timer that is restarted has one source, of the interval given; the other
\* timers' sources are where they were.
LEMMA StartedOnce ==
  ASSUME SourceInv, Single, NEW t \in Clocks, NEW n \in Intervals
  PROVE  \E k \in Ids :
            /\ source[k].of = t \/ source[k] = NoSource
            /\ Started(Stopped(t), t, n)[k] = [of |-> t, pace |-> n]
            /\ \A i \in Ids \ {k} : Started(Stopped(t), t, n)[i] =
                                       IF source[i].of = t THEN NoSource ELSE source[i]
<1>1. /\ Stopped(t) \in [Ids -> [of : Clocks \union {NoClock}, pace : Intervals]]
      /\ \A i \in Ids : Stopped(t)[i] = IF source[i].of = t THEN NoSource ELSE source[i]
      /\ \A i \in Ids : Stopped(t)[i].of # t
      /\ \A i \in Ids : Stopped(t)[i].of = NoClock => Stopped(t)[i] = NoSource
  BY SourcesStay
<1>2. NoSource.of \notin Clocks
  BY TimerAssumption DEF NoSource
<1>3. \A i, j \in Ids : Stopped(t)[i].of \in Clocks /\ Stopped(t)[i].of = Stopped(t)[j].of => i = j
  BY <1>1, <1>2 DEF Single
<1>4. PICK k \in Ids : /\ Stopped(t)[k] = NoSource
                       /\ Started(Stopped(t), t, n) = [Stopped(t) EXCEPT ![k] = [of |-> t, pace |-> n]]
  BY <1>1, <1>3, FreeSource
<1> HIDE DEF Started
<1>5. DOMAIN Stopped(t) = Ids
  BY <1>1
<1>6. /\ Started(Stopped(t), t, n)[k] = [of |-> t, pace |-> n]
      /\ \A i \in Ids \ {k} : Started(Stopped(t), t, n)[i] = Stopped(t)[i]
  BY <1>4, <1>5
<1>7. source[k].of = t \/ source[k] = NoSource
  BY <1>1, <1>4
<1> QED
  BY <1>1, <1>6, <1>7

\* Every variable keeps its type, and no source is without a timer but with an
\* interval, whatever the program and the toolkit do.
LEMMA SourceTypes ==
  ASSUME SourceInv, [TimerNext]_timerVars
  PROVE  TimerTypeOK' /\ (\A i \in Ids : source[i].of = NoClock => source[i] = NoSource)'
<1> DEFINE Typed(s) == /\ s \in [Ids -> [of : Clocks \union {NoClock}, pace : Intervals]]
                       /\ \A i \in Ids : s[i].of = NoClock => s[i] = NoSource
           CallsTyped == toolkit' = toolkit /\ posted' = posted /\ running' = running
                         /\ prudent' \in BOOLEAN /\ calls' \in 0..MaxCalls
           Rest == toolkit' = toolkit /\ living' = living /\ enabled' = enabled /\ interval' = interval
                   /\ listed' = listed /\ prudent' = prudent /\ calls' = calls
<1>1. /\ Typed(source) /\ toolkit \in Toolkits /\ living \subseteq Clocks
      /\ enabled \in [Clocks -> BOOLEAN] /\ interval \in [Clocks -> Intervals]
      /\ listed \in Seq(Clocks) /\ posted \subseteq Ids
      /\ running = Idle \/ running \in [timer : Clocks, id : Ids]
      /\ prudent \in BOOLEAN /\ calls \in 0..MaxCalls
  BY DEF SourceInv, TimerTypeOK
<1>2. ASSUME NEW t \in Clocks, NEW n \in Intervals, NEW s, Typed(s)
      PROVE  Typed(Stopped(t)) /\ Typed(Started(s, t, n))
  <2>1. Typed(Stopped(t))
    BY SourcesStay
  <2>2. Typed(Started(s, t, n))
    BY <1>2, StartedTypes
  <2> QED
    BY <2>1, <2>2
<1>3. NoSource \in [of : Clocks \union {NoClock}, pace : Intervals]
  BY DEF NoSource, Intervals
<1>4. ASSUME NEW i, Typed(source) PROVE Typed([source EXCEPT ![i] = NoSource])
  BY <1>3, <1>4
<1>5. ASSUME NEW i, NEW t \in Clocks, NEW n \in Intervals
      PROVE  Typed([source EXCEPT ![i] = [of |-> t, pace |-> n]])
  BY <1>1, TimerAssumption
<1>6. ASSUME NEW r, r \in BOOLEAN, Call(r) PROVE CallsTyped
  BY <1>1, <1>6, TimerAssumption DEF Call
<1>7. SUFFICES /\ Typed(source') /\ toolkit' \in Toolkits /\ living' \subseteq Clocks
               /\ enabled' \in [Clocks -> BOOLEAN] /\ interval' \in [Clocks -> Intervals]
               /\ listed' \in Seq(Clocks) /\ posted' \subseteq Ids
               /\ running' = Idle \/ running' \in [timer : Clocks, id : Ids]
               /\ prudent' \in BOOLEAN /\ calls' \in 0..MaxCalls
  BY DEF TimerTypeOK
<1> HIDE DEF Typed
<1>8. ASSUME NEW t \in Clocks, NewTimer(t) PROVE <1>7!1
  <2>1. Append(listed, t) \in Seq(Clocks)
    BY <1>1, Appended
  <2>2. CallsTyped
    BY <1>6, <1>8 DEF NewTimer
  <2>3. 0 \in Intervals
    BY DEF Intervals
  <2> QED
    BY <1>1, <1>8, <2>1, <2>2, <2>3 DEF NewTimer
<1>9. ASSUME NEW t \in Clocks, DestroyTimer(t) PROVE <1>7!1
  <2>1. CallsTyped
    BY <1>6, <1>9 DEF DestroyTimer
  <2>2. Typed(source')
    <3>1. source' = Stopped(t) \/ source' = source
      BY <1>9 DEF DestroyTimer
    <3>2. 0 \in Intervals
      BY DEF Intervals
    <3> QED
      BY <1>1, <1>2, <3>1, <3>2
  <2> QED
    BY <1>1, <1>9, <2>1, <2>2 DEF DestroyTimer
<1>10. ASSUME NEW t \in Clocks, NEW b \in BOOLEAN, SetTimerEnabled(t, b) PROVE <1>7!1
  <2>1. CallsTyped
    BY <1>6, <1>10 DEF SetTimerEnabled
  <2>2. interval[t] \in Intervals
    BY <1>1
  <2>3. Typed(source')
    BY <1>1, <1>2, <1>10, <2>2 DEF SetTimerEnabled, Added, Restarted
  <2> QED
    BY <1>1, <1>10, <2>1, <2>3 DEF SetTimerEnabled
<1>11. ASSUME NEW t \in Clocks, NEW n \in Intervals, SetTimerInterval(t, n) PROVE <1>7!1
  <2>1. CallsTyped
    BY <1>6, <1>11 DEF SetTimerInterval
  <2>2. Typed(source')
    BY <1>1, <1>2, <1>11 DEF SetTimerInterval, Restarted
  <2> QED
    BY <1>1, <1>11, <2>1, <2>2 DEF SetTimerInterval
<1>12. ASSUME NEW i \in Ids, Due(i) PROVE <1>7!1
  BY <1>1, <1>12 DEF Due, clockVars
<1>13. ASSUME NEW i \in Ids, Serve(i) PROVE <1>7!1
  <2>1. /\ Rest
        /\ posted' = posted \/ posted' = posted \ {i}
        /\ source' = source \/ source' = [source EXCEPT ![i] = NoSource]
    BY <1>13 DEF Serve, Dispatch, Trigger, Run, clockVars
  <2>2. Typed(source')
    BY <1>1, <1>4, <2>1
  <2>3. running' = running \/ running' = Idle \/ running' = [timer |-> source[i].of, id |-> i]
    BY <1>13 DEF Serve, Dispatch, Trigger, Run
  <2>4. running' # Idle /\ running' # running => source[i].of \in Clocks
    <3>1. CASE Trigger(i)
      BY <1>1, <3>1 DEF Trigger
    <3>2. CASE Run(i)
      BY <3>2 DEF Run, SourceInv, TimerTypeOK
    <3>3. CASE Dispatch(i)
      <4> DEFINE hit == {n \in DOMAIN listed : i \in Of(listed[n])}
      <4>1. running' = IF hit = {} THEN Idle ELSE [timer |-> source[i].of, id |-> i]
        BY <3>3 DEF Dispatch
      <4>2. ASSUME NEW n \in hit PROVE source[i].of \in Clocks
        <5>1. listed[n] \in Clocks
          BY <1>1, <4>2, ElementOfSeq, LenProperties
        <5> QED
          BY <4>2, <5>1 DEF Of
      <4> QED
        BY <4>1, <4>2
    <3> QED
      BY <1>13, <3>1, <3>2, <3>3 DEF Serve
  <2> QED
    BY <1>1, <2>1, <2>2, <2>3, <2>4
<1>14. ASSUME Return PROVE <1>7!1
  <2>1. Rest /\ posted' = posted /\ running' = Idle
    BY <1>14 DEF Return, clockVars
  <2>2. running.timer \in Clocks
    BY <1>1, <1>14 DEF Return
  <2>3. interval[running.timer] \in Intervals
    BY <1>1, <2>2
  <2>4. Typed(source')
    BY <1>1, <1>4, <1>5, <1>14, <2>2, <2>3 DEF Return
  <2> QED
    BY <1>1, <2>1, <2>4
<1>15. ASSUME UNCHANGED timerVars PROVE <1>7!1
  BY <1>1, <1>15 DEF timerVars
<1> QED
  BY <1>8, <1>9, <1>10, <1>11, <1>12, <1>13, <1>14, <1>15 DEF TimerNext

\* The part of SourceInv that is about a prudent program.
Lawful == /\ Single /\ Homed /\ Served
          /\ toolkit # "gtk" => Paced
          /\ toolkit = "gtk" => Turn

\* Timers are constructed without sources, and destroyed with none left.
LEMMA MadeAndGone ==
  ASSUME SourceInv, Lawful, prudent', NEW t \in Clocks, NewTimer(t) \/ DestroyTimer(t)
  PROVE  Lawful'
<1>1. /\ toolkit' = toolkit /\ running' = running /\ toolkit \in Toolkits
      /\ enabled \in [Clocks -> BOOLEAN] /\ interval \in [Clocks -> Intervals]
      /\ living \subseteq Clocks
  BY DEF SourceInv, TimerTypeOK, NewTimer, DestroyTimer, Call
<1>2. CASE NewTimer(t)
  <2>1. /\ source' = source /\ living' = living \union {t} /\ t \notin living
        /\ enabled' = [enabled EXCEPT ![t] = FALSE] /\ interval' = [interval EXCEPT ![t] = 0]
    BY <1>2 DEF NewTimer
  <2>2. \A i \in Ids : source[i].of # t
    BY <2>1 DEF Lawful, Homed
  <2>3. Single' /\ Homed' /\ (Turn => Turn')
    BY <1>1, <2>1 DEF Lawful, Single, Homed, Turn
  <2>4. Served'
    <3> SUFFICES ASSUME NEW u \in living', enabled'[u] PROVE \E i \in Ids : source'[i].of = u
      BY DEF Served
    <3>1. u # t /\ u \in living /\ enabled[u]
      BY <1>1, <2>1
    <3> QED
      BY <2>1, <3>1 DEF Lawful, Served
  <2>5. Paced => Paced'
    BY <1>1, <2>1, <2>2 DEF Paced
  <2> QED
    BY <1>1, <2>3, <2>4, <2>5 DEF Lawful
<1>3. CASE DestroyTimer(t)
  <2>1. /\ living' = living \ {t} /\ enabled' = enabled /\ interval' = interval
        /\ source' = IF toolkit \in {"qt", "cocoa"} THEN Stopped(t) ELSE source
    BY <1>3 DEF DestroyTimer
  <2>2. source' = Stopped(t)
    <3>1. toolkit # "windows" /\ (toolkit = "gtk" => Of(t) = {})
      BY <1>3 DEF DestroyTimer, Call
    <3> QED
      BY <1>1, <2>1, <3>1, StoppedAlready DEF Toolkits
  <2>3. \A i \in Ids : source'[i] = IF source[i].of = t THEN NoSource ELSE source[i]
    BY <2>2 DEF Stopped
  <2>4. NoSource.of = NoClock /\ NoClock \notin Clocks
    BY TimerAssumption DEF NoSource
  <2>5. \A i \in Ids : source'[i].of \in Clocks => source'[i] = source[i] /\ source[i].of # t
    BY <2>3, <2>4
  <2>6. Single' /\ Homed' /\ (Paced => Paced')
    BY <1>1, <2>1, <2>5 DEF Lawful, Single, Homed, Paced
  <2>7. Served'
    BY <1>1, <2>1, <2>3 DEF Lawful, Served
  <2>8. toolkit = "gtk" => Turn'
    <3>1. toolkit = "gtk" => source' = source
      BY <2>1
    <3> QED
      BY <1>1, <3>1 DEF Lawful, Turn
  <2> QED
    BY <1>1, <2>6, <2>7, <2>8 DEF Lawful
<1> QED
  BY <1>2, <1>3

\* The sources of a timer that is restarted, or on GTK enabled without one, are
\* one source of its interval; of a timer that is stopped, none.
LEMMA RestartedLawful ==
  ASSUME SourceInv, Lawful, NEW t \in living, NEW b \in BOOLEAN, NEW n \in Intervals,
         toolkit' = toolkit, running' = running, living' = living,
         enabled' = [enabled EXCEPT ![t] = b],
         interval' = [interval EXCEPT ![t] = n],
         source' = IF b THEN Started(Stopped(t), t, n) ELSE Stopped(t),
         toolkit = "gtk" => b /\ Of(t) = {}
  PROVE  Lawful'
<1>1. /\ t \in Clocks /\ living \subseteq Clocks /\ enabled \in [Clocks -> BOOLEAN]
      /\ interval \in [Clocks -> Intervals]
      /\ running = Idle \/ running \in [timer : Clocks, id : Ids]
  BY DEF SourceInv, TimerTypeOK
<1>2. NoSource.of = NoClock /\ NoClock \notin Clocks /\ NoClock # t
  BY <1>1, TimerAssumption DEF NoSource
<1>3. CASE b
  <2>1. PICK k \in Ids :
            /\ source[k].of = t \/ source[k] = NoSource
            /\ source'[k] = [of |-> t, pace |-> n]
            /\ \A i \in Ids \ {k} : source'[i] = IF source[i].of = t THEN NoSource ELSE source[i]
    BY <1>1, <1>3, StartedOnce DEF Lawful
  <2>2. source'[k].of = t /\ source'[k].pace = n
    BY <2>1
  <2>3. \A i \in Ids \ {k} : source'[i].of \in Clocks => source'[i] = source[i] /\ source[i].of # t
    BY <1>2, <2>1
  <2>4. Single' /\ Homed'
    BY <1>1, <2>2, <2>3 DEF Lawful, Single, Homed
  <2>5. Served'
    <3> SUFFICES ASSUME NEW u \in living, enabled'[u] PROVE \E i \in Ids : source'[i].of = u
      BY DEF Served
    <3>1. CASE u = t
      BY <2>2, <3>1
    <3>2. CASE u # t
      <4>1. enabled[u] /\ u \in Clocks
        BY <1>1, <3>2
      <4>2. PICK i \in Ids : source[i].of = u
        BY <4>1 DEF Lawful, Served
      <4>3. i # k /\ source[i].of # t
        BY <1>2, <2>1, <3>2, <4>1, <4>2
      <4> QED
        BY <2>1, <4>2, <4>3
    <3> QED
      BY <3>1, <3>2
  <2>6. Paced => Paced'
    BY <1>1, <1>3, <2>2, <2>3 DEF Paced
  <2>7. toolkit = "gtk" => Turn'
    <3> SUFFICES ASSUME toolkit = "gtk", running # Idle PROVE source'[running.id].of = running.timer
      BY DEF Turn
    <3>1. running.id \in Ids /\ running.timer \in Clocks
      BY <1>1
    <3>2. source[running.id].of = running.timer /\ source[running.id].of # t
      BY <3>1 DEF Lawful, Turn, Of
    <3>3. running.id # k
      BY <1>2, <2>1, <3>1, <3>2
    <3> QED
      BY <2>1, <3>1, <3>2, <3>3
  <2> QED
    BY <2>4, <2>5, <2>6, <2>7 DEF Lawful
<1>4. CASE ~b
  <2>1. \A i \in Ids : source'[i] = IF source[i].of = t THEN NoSource ELSE source[i]
    BY <1>4 DEF Stopped
  <2>2. \A i \in Ids : source'[i].of \in Clocks => source'[i] = source[i] /\ source[i].of # t
    BY <1>2, <2>1
  <2>3. Single' /\ Homed' /\ (Paced => Paced')
    BY <1>1, <2>2 DEF Lawful, Single, Homed, Paced
  <2>4. Served'
    BY <1>1, <1>4, <2>1 DEF Lawful, Served
  <2> QED
    BY <1>4, <2>3, <2>4 DEF Lawful
<1> QED
  BY <1>3, <1>4

\* The calls that set a timer keep the law.
LEMMA SetLawful ==
  ASSUME SourceInv, Lawful, prudent', NEW t \in Clocks, NEW b \in BOOLEAN, NEW n \in Intervals,
         SetTimerEnabled(t, b) \/ SetTimerInterval(t, n)
  PROVE  Lawful'
<1>1. /\ toolkit' = toolkit /\ running' = running /\ living' = living /\ t \in living
      /\ enabled \in [Clocks -> BOOLEAN] /\ interval \in [Clocks -> Intervals]
      /\ living \subseteq Clocks
  BY DEF SourceInv, TimerTypeOK, SetTimerEnabled, SetTimerInterval, Call
<1>2. CASE SetTimerEnabled(t, b)
  <2>1. /\ enabled' = [enabled EXCEPT ![t] = b] /\ interval' = interval
        /\ source' = IF toolkit = "gtk" THEN Added(t, b, interval[t]) ELSE Restarted(t, b, interval[t])
        /\ toolkit = "gtk" /\ b => Of(t) = {}
    BY <1>2 DEF SetTimerEnabled, Call
  <2>2. interval' = [interval EXCEPT ![t] = interval[t]] /\ interval[t] \in Intervals
    BY <1>1, <2>1
  <2>3. CASE toolkit # "gtk" \/ b
    <3>1. source' = IF b THEN Started(Stopped(t), t, interval[t]) ELSE Stopped(t)
      BY <2>1, <2>3, StoppedAlready DEF Added, Restarted
    <3> QED
      BY <1>1, <2>1, <2>2, <2>3, <3>1, RestartedLawful
  <2>4. CASE toolkit = "gtk" /\ ~b
    <3>1. source' = source
      BY <2>1, <2>4 DEF Added
    <3>2. Single' /\ Homed' /\ Turn'
      BY <1>1, <2>4, <3>1 DEF Lawful, Single, Homed, Turn
    <3>3. Served'
      BY <1>1, <2>1, <2>4, <3>1 DEF Lawful, Served
    <3> QED
      BY <1>1, <2>4, <3>2, <3>3 DEF Lawful
  <2> QED
    BY <2>3, <2>4
<1>3. CASE SetTimerInterval(t, n)
  <2>1. /\ enabled' = enabled /\ interval' = [interval EXCEPT ![t] = n]
        /\ source' = IF toolkit = "gtk" THEN source ELSE Restarted(t, enabled[t], n)
    BY <1>3 DEF SetTimerInterval
  <2>2. CASE toolkit # "gtk"
    <3>1. /\ source' = IF enabled[t] THEN Started(Stopped(t), t, n) ELSE Stopped(t)
          /\ enabled' = [enabled EXCEPT ![t] = enabled[t]] /\ enabled[t] \in BOOLEAN
      BY <1>1, <2>1, <2>2 DEF Restarted
    <3> QED
      BY <1>1, <2>1, <2>2, <3>1, RestartedLawful
  <2>3. CASE toolkit = "gtk"
    BY <1>1, <2>1, <2>3 DEF Lawful, Single, Homed, Served, Turn
  <2> QED
    BY <2>2, <2>3
<1> QED
  BY <1>2, <1>3

\* The loops keep it: GTK drops the source of a timer that is disabled, and puts
\* another in the place of the one whose callback has returned.
LEMMA LoopLawful ==
  ASSUME SourceInv, Lawful, (\E i \in Ids : Due(i) \/ Serve(i)) \/ Return \/ UNCHANGED timerVars
  PROVE  Lawful'
<1>1. /\ toolkit' = toolkit /\ living' = living /\ enabled' = enabled /\ interval' = interval
      /\ toolkit # "gtk" => source' = source
  BY DEF Due, Serve, Dispatch, Trigger, Run, Return, timerVars, clockVars
<1>2. /\ source \in [Ids -> [of : Clocks \union {NoClock}, pace : Intervals]]
      /\ living \subseteq Clocks
      /\ running = Idle \/ running \in [timer : Clocks, id : Ids]
  BY DEF SourceInv, TimerTypeOK
<1>3. NoSource.of = NoClock /\ NoClock \notin Clocks
  BY TimerAssumption DEF NoSource
<1>4. CASE toolkit # "gtk"
  BY <1>1, <1>4 DEF Lawful, Single, Homed, Served, Paced
<1>5. CASE toolkit = "gtk" /\ UNCHANGED <<source, running>>
  BY <1>1, <1>5 DEF Lawful, Single, Homed, Served, Turn
<1>6. ASSUME toolkit = "gtk", NEW i \in Ids, Trigger(i) PROVE Lawful'
  <2>1. running = Idle /\ source[i].of \in living
    BY <1>6 DEF Trigger
  <2>2. CASE enabled[source[i].of]
    <3>1. running' = [timer |-> source[i].of, id |-> i] /\ source' = source
      BY <1>6, <2>2 DEF Trigger
    <3> QED
      BY <1>1, <1>6, <3>1 DEF Lawful, Single, Homed, Served, Turn
  <2>3. CASE ~enabled[source[i].of]
    <3>1. source' = [source EXCEPT ![i] = NoSource] /\ running' = running
      BY <1>6, <2>3 DEF Trigger
    <3>2. source'[i] = NoSource /\ \A j \in Ids \ {i} : source'[j] = source[j]
      BY <1>2, <3>1
    <3>3. Single' /\ Homed' /\ Turn'
      BY <1>1, <1>3, <2>1, <3>1, <3>2 DEF Lawful, Single, Homed, Turn
    <3>4. Served'
      BY <1>1, <2>3, <3>2 DEF Lawful, Served
    <3> QED
      BY <1>1, <1>6, <3>3, <3>4 DEF Lawful
  <2> QED
    BY <2>2, <2>3
<1>7. ASSUME toolkit = "gtk", Return PROVE Lawful'
  <2> DEFINE t == running.timer
             k == running.id
  <2>1. t \in Clocks /\ k \in Ids /\ source[k].of = t
    BY <1>2, <1>7 DEF Return, Lawful, Turn
  <2>2. /\ running' = Idle
        /\ source' = [source EXCEPT ![k] = IF enabled[t] THEN [of |-> t, pace |-> interval[t]] ELSE NoSource]
    BY <1>7 DEF Return
  <2>3. /\ source'[k] = IF enabled[t] THEN [of |-> t, pace |-> interval[t]] ELSE NoSource
        /\ \A j \in Ids \ {k} : source'[j] = source[j]
    BY <1>2, <2>1, <2>2
  <2> HIDE DEF t, k
  <2>4. source'[k].of \in Clocks => source'[k].of = t /\ enabled[t]
    BY <1>3, <2>3
  <2>5. Single' /\ Homed' /\ Turn'
    BY <1>1, <2>1, <2>2, <2>3, <2>4 DEF Lawful, Single, Homed, Turn
  <2>6. Served'
    <3> SUFFICES ASSUME NEW u \in living, enabled[u] PROVE \E i \in Ids : source'[i].of = u
      BY <1>1 DEF Served
    <3>1. PICK i \in Ids : source[i].of = u
      BY DEF Lawful, Served
    <3>2. i = k => source'[i].of = u
      BY <2>1, <2>3, <3>1
    <3> QED
      BY <2>3, <3>1, <3>2
  <2> QED
    BY <1>1, <1>7, <2>5, <2>6 DEF Lawful
<1>8. \/ toolkit # "gtk" \/ Return \/ UNCHANGED <<source, running>>
      \/ \E i \in Ids : Trigger(i)
  BY DEF Due, Serve, Dispatch, Run, timerVars
<1> QED
  BY <1>4, <1>5, <1>6, <1>7, <1>8

\* A timer that a prudent program has enabled has one source, of its interval
\* but on GTK; a timer that is disabled, or gone, has none, but on GTK.  For any
\* number of timers, any sources and any callbacks.
THEOREM OneSourceHolds == TimerSpec => []OneSource
<1>1. TimerInit => SourceInv
  BY EmptySeq, TimerAssumption DEF TimerInit, SourceInv, TimerTypeOK, Single, Homed, Served, Paced, Turn,
     NoSource, Idle, Intervals
<1>2. SourceInv /\ [TimerNext]_timerVars => SourceInv'
  <2> SUFFICES ASSUME SourceInv, [TimerNext]_timerVars PROVE SourceInv'
    OBVIOUS
  <2>1. TimerTypeOK' /\ (\A i \in Ids : source[i].of = NoClock => source[i] = NoSource)'
    BY SourceTypes
  <2>2. ASSUME prudent' PROVE Lawful'
    <3>1. prudent
      BY <2>2 DEF TimerNext, NewTimer, DestroyTimer, SetTimerEnabled, SetTimerInterval, Call, Due,
         Serve, Dispatch, Trigger, Run, Return, timerVars
    <3>2. Lawful
      BY <3>1 DEF SourceInv, Lawful
    <3>3. FALSE \in BOOLEAN /\ 0 \in Intervals
      BY DEF Intervals
    <3> QED
      BY <2>2, <3>2, <3>3, MadeAndGone, SetLawful, LoopLawful DEF TimerNext
  <2> QED
    BY <2>1, <2>2 DEF SourceInv, Lawful
<1>3. SourceInv => OneSource
  <2> SUFFICES ASSUME SourceInv, prudent PROVE OneSource
    BY DEF OneSource
  <2>1. Single /\ Homed /\ Served /\ (toolkit # "gtk" => Paced) /\ living \subseteq Clocks
    BY DEF SourceInv, TimerTypeOK
  <2>2. \A t \in living : enabled[t] => Cardinality(Of(t)) = 1
    <3> SUFFICES ASSUME NEW t \in living, enabled[t] PROVE Cardinality(Of(t)) = 1
      OBVIOUS
    <3>1. PICK i \in Ids : source[i].of = t
      BY <2>1 DEF Served
    <3>2. Of(t) = {i}
      BY <2>1, <3>1 DEF Single, Of
    <3> QED
      BY <3>2, FS_Singleton
  <2>3. ASSUME NEW t \in living, toolkit # "gtk"
        PROVE  IF enabled[t] THEN \A i \in Of(t) : source[i].pace = interval[t] ELSE Of(t) = {}
    BY <2>1, <2>3 DEF Paced, Of
  <2>4. \A t \in Clocks \ living : Of(t) = {}
    BY <2>1 DEF Homed, Of
  <2> QED
    BY <2>2, <2>3, <2>4 DEF OneSource
<1> QED
  BY <1>1, <1>2, <1>3, PTL DEF TimerSpec
=============================================================================
