------------------------- MODULE BufferedFile_proofs ------------------------
(***************************************************************************)
(* Proofs about BufferedFile, for pages and files of any size.             *)
(***************************************************************************)
EXTENDS BufferedFile, TLAPS

\* Division with remainder.
LEMMA DivMod ==
  ASSUME NEW i \in Nat, NEW q \in Int, q = i \div Page, NEW r \in Int, r = i % Page
  PROVE  i = Page * q + r
<1>1. PICK p \in Int : p = Page /\ p > 0
  BY FileAssumption
<1>2. i = p * q + r
  BY <1>1, SMTT(60)
<1> QED
  BY <1>1, <1>2

\* A position is in one place of one page.
LEMMA PageAndSlot ==
  ASSUME NEW i \in Nat
  PROVE  \E q \in Nat, r \in 0 .. Page - 1 :
            q = i \div Page /\ r = i % Page /\ i = q * Page + r
<1>1. i \div Page \in Int /\ i \div Page >= 0 /\ i % Page \in 0 .. Page - 1
  BY FileAssumption
<1>2. PICK q \in Int, r \in Int : q = i \div Page /\ r = i % Page
  BY <1>1
<1>3. i = Page * q + r
  BY <1>2, DivMod
<1>4. q * Page = Page * q
  BY FileAssumption
<1>5. i = q * Page + r
  BY <1>3, <1>4
<1>6. q \in Nat /\ r \in 0 .. Page - 1
  BY <1>1, <1>2
<1> QED
  BY <1>2, <1>5, <1>6

\* The page tells positions apart.
LEMMA OnePage ==
  ASSUME NEW i \in Nat, NEW p \in Nat
  PROVE  /\ p * Page \in Nat
         /\ i \div Page = p <=> p * Page <= i /\ i < p * Page + Page
         /\ i \div Page = p => i % Page = i - p * Page
<1>1. PICK q \in Nat, r \in 0 .. Page - 1 :
        q = i \div Page /\ r = i % Page /\ i = q * Page + r
  BY PageAndSlot
<1>2. p * Page \in Nat /\ q * Page \in Nat /\ Page \in Nat /\ Page > 0
  BY FileAssumption
<1>3. q < p => q * Page + Page <= p * Page
  BY FileAssumption
<1>4. q > p => p * Page + Page <= q * Page
  BY FileAssumption
<1>5. q = p <=> p * Page <= i /\ i < p * Page + Page
  <2>1. PICK a \in Nat, b \in Nat, n \in Nat : a = p * Page /\ b = q * Page /\ n = Page
    BY <1>2
  <2>2. /\ q < p => b + n <= a
        /\ q > p => a + n <= b
        /\ q = p => a = b
        /\ i = b + r /\ r < n
    BY <1>1, <1>3, <1>4, <2>1
  <2>3. q = p <=> a <= i /\ i < a + n
    BY <2>2
  <2> QED
    BY <2>1, <2>3
<1>6. q = p => r = i - p * Page
  BY <1>1, <1>2
<1> QED
  BY <1>1, <1>2, <1>5, <1>6

\* The same in the terms of the class.
LEMMA PageType ==
  ASSUME NEW i \in Nat
  PROVE  PageOf(i) \in Nat /\ Slot(i) \in 0 .. Page - 1
<1>1. PICK q \in Nat, r \in 0 .. Page - 1 : q = i \div Page /\ r = i % Page
  BY PageAndSlot
<1> QED
  BY <1>1 DEF PageOf, Slot

LEMMA SamePage ==
  ASSUME NEW i \in Nat, NEW p \in Nat
  PROVE  /\ Start(p) \in Nat
         /\ PageOf(i) = p <=> Start(p) <= i /\ i < Start(p) + Page
         /\ PageOf(i) = p => i = Start(p) + Slot(i)
<1>1. PageOf(i) = p <=> p * Page <= i /\ i < p * Page + Page
  BY OnePage DEF PageOf
<1>2. PICK a \in Nat : a = p * Page
  BY OnePage
<1>3. PICK r \in 0 .. Page - 1 : r = Slot(i)
  BY PageType
<1>4. i \div Page = p => r = i - a
  BY <1>2, <1>3, OnePage DEF Slot
<1>5. PageOf(i) = p => r = i - a
  BY <1>4 DEF PageOf
<1>6. Start(p) = a
  BY <1>2 DEF Start
<1>7. PageOf(i) = p => i = a + r
  BY <1>5, FileAssumption
<1> QED
  BY <1>1, <1>2, <1>3, <1>6, <1>7

\* Pages are numbered no higher than positions.
LEMMA PageBound ==
  ASSUME NEW i \in Nat
  PROVE  PageOf(i) <= i
<1>1. PICK q \in Nat, r \in 0 .. Page - 1 : q = i \div Page /\ i = q * Page + r
  BY PageAndSlot
<1>2. q * Page >= q
  BY FileAssumption
<1>3. q <= i
  BY <1>1, <1>2, FileAssumption
<1> QED
  BY <1>1, <1>3 DEF PageOf

-----------------------------------------------------------------------------
\* The inductive invariant.
FileInv == TypeOK /\ Coherent /\ (~fp => ~dirty /\ target = -1)
                  /\ (cut => target = -1)
                  /\ (target # -1 => mode # "read" /\ offset = size /\ target >= size)

\* The file as it is between two steps of an open one.
View == [i \in 0 .. size - 1 |-> IF PageOf(i) = page THEN buffer[Slot(i)] ELSE disk[i]]

\* buffer_flush leaves all of the file on disk.
LEMMA FlushAll ==
  ASSUME FileInv, fp, ~cut
  PROVE  FlushedSize = size /\ FlushedDisk = View /\ (Flushes <=> dirty)
<1> USE DEF FileInv
<1>1. /\ size \in Nat /\ diskSize \in Nat /\ page \in Int /\ Page \in Nat /\ Page > 0
      /\ page # -1 => page \in Nat /\ Start(page) \in Nat /\ Start(page) < size
      /\ page # -1 \/ page = -1
  BY FileAssumption, SamePage DEF TypeOK, Coherent
<1>2. Flushes <=> dirty
  BY DEF Flushes, Coherent, TypeOK
<1>3. CASE ~dirty
  <2>1. FlushedSize = size
    BY <1>2, <1>3 DEF FlushedSize, Coherent
  <2>2. ASSUME NEW i \in 0 .. size - 1 PROVE FlushedDisk[i] = View[i]
    <3>1. FlushedDisk[i] = disk[i]
      <4>2. diskSize = size
        BY <1>3 DEF Coherent
      <4>1. i < diskSize
        BY <1>1, <4>2
      <4> QED
        BY <1>2, <1>3, <2>1, <4>1 DEF FlushedDisk
    <3>2. PageOf(i) = page => buffer[Slot(i)] = disk[i]
      BY <1>3 DEF Coherent
    <3> QED
      BY <3>1, <3>2 DEF View
  <2> QED
    BY <1>2, <2>1, <2>2 DEF FlushedDisk, View
<1>4. CASE dirty
  <2>1. page \in Nat /\ Start(page) \in Nat /\ Start(page) < size /\ diskSize <= size
    BY <1>1, <1>4 DEF Coherent
  <2>2. /\ Count(page) \in Nat /\ Count(page) > 0
        /\ Count(page) = IF Start(page) + Page <= size THEN Page ELSE size - Start(page)
    <3>1. CASE Start(page) + Page <= size
      BY <1>1, <3>1 DEF Count
    <3>2. CASE ~(Start(page) + Page <= size)
      <4>1. PageOf(size) = page /\ Slot(size) = size - Start(page)
        <5>1. PageOf(size) = page
          BY <1>1, <2>1, <3>2, SamePage
        <5>2. size = Start(page) + Slot(size) /\ Slot(size) \in Int
          BY <1>1, <2>1, <5>1, SamePage, PageType
        <5> QED
          BY <1>1, <2>1, <5>1, <5>2
      <4> QED
        BY <1>1, <2>1, <3>2, <4>1 DEF Count
    <3> QED
      BY <3>1, <3>2
  <2>3. FlushedSize = size
    <3>1. PICK end \in Nat : end = Start(page) + Count(page)
      BY <2>1, <2>2
    <3>2. end <= size /\ FlushedSize = IF end > diskSize THEN end ELSE diskSize
      BY <1>1, <1>2, <1>4, <2>1, <2>2, <3>1 DEF FlushedSize
    <3>3. CASE end = size
      BY <1>1, <2>1, <3>2, <3>3
    <3>4. CASE end < size
      <4>1. PageOf(size - 1) # page
        <5>1. size - 1 \in Nat /\ size - 1 >= Start(page) + Page
          BY <1>1, <2>1, <2>2, <3>1, <3>4
        <5> QED
          BY <1>1, <2>1, <5>1, SamePage
      <4>2. size - 1 < diskSize
        BY <1>1, <2>1, <4>1 DEF Coherent
      <4> QED
        BY <1>1, <2>1, <3>2, <3>4, <4>2
    <3> QED
      BY <1>1, <3>2, <3>3, <3>4
  <2>4. ASSUME NEW i \in 0 .. size - 1 PROVE FlushedDisk[i] = View[i]
    <3>1. i \in Nat /\ i < size
      BY <1>1
    <3>2. CASE PageOf(i) = page
      <4>1. i = Start(page) + Slot(i) /\ Slot(i) \in 0 .. Page - 1
        BY <2>1, <3>1, <3>2, SamePage, PageType
      <4>2. Slot(i) < Count(page)
        BY <1>1, <2>1, <2>2, <3>1, <4>1
      <4> QED
        BY <1>2, <1>4, <2>3, <3>2, <4>2 DEF FlushedDisk, View
    <3>3. CASE PageOf(i) # page
      <4>1. i < diskSize
        BY <3>3 DEF Coherent
      <4> QED
        BY <2>3, <3>3, <4>1 DEF FlushedDisk, View
    <3> QED
      BY <3>2, <3>3
  <2> QED
    BY <1>2, <2>3, <2>4 DEF FlushedDisk, View
<1> QED
  BY <1>3, <1>4

\* The view of a coherent file is a file.
LEMMA ViewType ==
  ASSUME FileInv, fp, ~cut
  PROVE  View \in [0 .. size - 1 -> Bytes]
<1>1. ASSUME NEW i \in 0 .. size - 1
      PROVE  (IF PageOf(i) = page THEN buffer[Slot(i)] ELSE disk[i]) \in Bytes
  <2>1. i \in Nat
    BY DEF FileInv, TypeOK
  <2>2. Slot(i) \in 0 .. Page - 1
    BY <2>1, PageType
  <2>3. PageOf(i) # page => i \in 0 .. diskSize - 1
    BY DEF FileInv, TypeOK, Coherent
  <2> QED
    BY <2>2, <2>3 DEF FileInv, TypeOK
<1> QED
  BY <1>1 DEF View

\* buffer_flush does not change the view, and leaves a coherent file.
LEMMA FlushView ==
  ASSUME FileInv, fp, ~cut, BufferFlush, buffer' = buffer, size' = size
  PROVE  /\ View' = View
         /\ disk' \in [0 .. diskSize' - 1 -> Bytes] /\ diskSize' = size
         /\ page' = IF dirty THEN -1 ELSE page
         /\ ~dirty' /\ dirty' \in BOOLEAN
         /\ \A i \in 0 .. size - 1 : PageOf(i) = page' => buffer[Slot(i)] = disk'[i]
<1>1. /\ disk' = View /\ diskSize' = size
      /\ page' = IF dirty THEN -1 ELSE page
      /\ ~dirty' /\ dirty' \in BOOLEAN
  BY FlushAll DEF BufferFlush
<1>2. \A i \in 0 .. size - 1 : i \in Nat /\ PageOf(i) # -1
  BY PageType DEF FileInv, TypeOK
<1>3. \A i \in 0 .. size - 1 : PageOf(i) = page' => buffer[Slot(i)] = disk'[i]
  BY <1>1, <1>2 DEF View
<1>4. \A i \in 0 .. size - 1 :
        (IF PageOf(i) = page' THEN buffer'[Slot(i)] ELSE disk'[i]) = View[i]
  BY <1>1, <1>3
<1>5. View' = View
  BY <1>4 DEF View
<1> QED
  BY <1>1, <1>3, <1>5, ViewType

\* buffer_sync does not change the view, and loads the page of the position.
LEMMA SyncView ==
  ASSUME FileInv, fp, ~cut, BufferSync
  PROVE  /\ page' = PageOf(offset)
         /\ Synced \in [0 .. Page - 1 -> Bytes]
         /\ diskSize' \in 0 .. size /\ disk' \in [0 .. diskSize' - 1 -> Bytes]
         /\ \A i \in 0 .. size - 1 :
              IF PageOf(i) = PageOf(offset) THEN Synced[Slot(i)] = View[i]
              ELSE i < diskSize' /\ disk'[i] = View[i]
         /\ page # PageOf(offset) \/ ~dirty =>
              /\ diskSize' = size
              /\ \A i \in 0 .. size - 1 : disk'[i] = View[i]
<1>1. /\ offset \in Nat /\ size \in Nat /\ diskSize \in 0 .. size
      /\ disk \in [0 .. diskSize - 1 -> Bytes]
      /\ buffer \in [0 .. Page - 1 -> Bytes]
      /\ PageOf(offset) \in Nat /\ dirty \in BOOLEAN
  <2>1. offset \in Nat /\ size \in Nat /\ diskSize \in 0 .. size
    BY DEF FileInv, TypeOK, Coherent
  <2>2. PageOf(offset) \in Nat
    BY <2>1, PageType
  <2> QED
    BY <2>1, <2>2 DEF FileInv, TypeOK
<1>2. CASE page = PageOf(offset)
  <2>1. Synced = buffer /\ disk' = disk /\ diskSize' = diskSize /\ page' = page
    BY <1>2 DEF BufferSync, Synced
  <2>2. \A i \in 0 .. size - 1 : IF PageOf(i) = page THEN buffer[Slot(i)] = View[i]
                                 ELSE i < diskSize /\ disk[i] = View[i]
    BY DEF View, FileInv, Coherent
  <2>3. ~dirty => diskSize = size /\ \A i \in 0 .. size - 1 : disk[i] = View[i]
    BY DEF View, FileInv, Coherent
  <2> QED
    BY <1>1, <1>2, <2>1, <2>2, <2>3
<1>3. CASE page # PageOf(offset)
  <2>1. disk' = View /\ diskSize' = size /\ page' = PageOf(offset)
    BY <1>3, FlushAll DEF BufferSync
  <2>2. PICK p \in Nat : p = PageOf(offset)
    BY <1>1
  <2>6. Start(p) \in Nat /\ Page \in Nat /\ Page > 0
    <3>1. Start(PageOf(offset)) \in Nat
      BY <1>1, SamePage
    <3> QED
      BY <2>2, <3>1, FileAssumption
  <2>3. Synced = [j \in 0 .. Page - 1 |->
                    IF j < Count(p) /\ Start(p) + j < size THEN View[Start(p) + j] ELSE buffer[j]]
    BY <1>3, <2>2, FlushAll DEF Synced
  <2>4. Synced \in [0 .. Page - 1 -> Bytes]
    <3> SUFFICES ASSUME NEW j \in 0 .. Page - 1, Start(p) + j < size
                 PROVE  View[Start(p) + j] \in Bytes
      BY <1>1, <2>3
    <3>1. Start(p) + j \in 0 .. size - 1
      BY <1>1, <2>6
    <3> QED
      BY <3>1, ViewType
  <2>5. ASSUME NEW i \in 0 .. size - 1, PageOf(i) = p PROVE Synced[Slot(i)] = View[i]
    <3>1. i \in Nat /\ i = Start(p) + Slot(i) /\ Slot(i) \in 0 .. Page - 1 /\ Start(p) \in Nat
      BY <1>1, <2>2, <2>5, SamePage, PageType
    <3>2. Slot(i) < Count(p)
      <4>1. CASE Start(p) + Page <= size
        BY <2>6, <3>1, <4>1 DEF Count
      <4>2. CASE ~(Start(p) + Page <= size)
        <5>1. PageOf(size) = p
          <6>1. Start(p) <= size /\ size < Start(p) + Page
            BY <1>1, <2>6, <3>1, <4>2
          <6> QED
            BY <1>1, <6>1, SamePage
        <5>2. size = Start(p) + Slot(size) /\ Slot(size) \in Int
          BY <1>1, <5>1, SamePage, PageType
        <5> QED
          BY <1>1, <3>1, <4>2, <5>2 DEF Count
      <4> QED
        BY <4>1, <4>2
    <3>3. PICK j \in 0 .. Page - 1 : j = Slot(i)
      BY <3>1
    <3>4. Start(p) + j = i /\ j < Count(p) /\ Start(p) + j < size
      BY <1>1, <3>1, <3>2, <3>3
    <3>5. Synced[j] = View[Start(p) + j]
      BY <2>3, <3>4
    <3> QED
      BY <3>3, <3>4, <3>5
  <2> QED
    BY <1>1, <1>3, <2>1, <2>2, <2>4, <2>5, ViewType
<1> QED
  BY <1>2, <1>3

-----------------------------------------------------------------------------
\* What clients see of an open file is its view, and the zeros still to come.
LEMMA SeenOpen ==
  ASSUME FileInv, fp, ~cut
  PROVE  /\ Mode = mode
         /\ target = -1 => Size = size /\ Pos = offset /\ Content = View
         /\ target # -1 => /\ Size = target /\ Pos = target
                           /\ Content = [i \in 0 .. target - 1 |->
                                           IF i >= size THEN Zero ELSE View[i]]
<1>1. CASE target = -1
  <2>1. Size = size /\ Pos = offset /\ Mode = mode
    BY <1>1 DEF Size, Pos, Mode
  <2>2. ASSUME NEW i \in 0 .. size - 1 PROVE ~(i >= size)
    BY DEF FileInv, TypeOK
  <2>3. Content = View
    BY <2>1, <2>2 DEF Content, View
  <2> QED
    BY <1>1, <2>1, <2>3
<1>2. CASE target # -1
  <2>1. Size = target /\ Pos = target /\ Mode = mode
    BY <1>2 DEF Size, Pos, Mode
  <2>2. ASSUME NEW i \in 0 .. target - 1
        PROVE  (IF ~fp \/ cut THEN disk[i]
                ELSE IF i >= size THEN Zero
                ELSE IF PageOf(i) = page THEN buffer[Slot(i)] ELSE disk[i])
               = IF i >= size THEN Zero ELSE View[i]
    <3>1. CASE i >= size
      BY <3>1
    <3>2. CASE ~(i >= size)
      <4>1. i \in 0 .. size - 1
        BY <3>2 DEF FileInv, TypeOK
      <4> QED
        BY <3>2, <4>1 DEF View
    <3> QED
      BY <3>1, <3>2
  <2> QED
    BY <1>2, <2>1, <2>2 DEF Content
<1> QED
  BY <1>1, <1>2

\* The same of the next state, when no seek is under way in it.
LEMMA SeenOpenNext ==
  ASSUME FileInv', fp', ~cut', target' = -1
  PROVE  Mode' = mode' /\ Size' = size' /\ Pos' = offset' /\ Content' = View'
<1>1. Size' = size' /\ Pos' = offset' /\ Mode' = mode'
  BY DEF Size, Pos, Mode
<1>2. \A i \in 0 .. size' - 1 : ~(i >= size')
  <2>1. PICK n \in Int : n = size'
    BY FileAssumption DEF FileInv, TypeOK
  <2>2. \A i \in 0 .. n - 1 : ~(i >= n)
    OBVIOUS
  <2> QED
    BY <2>1, <2>2
<1>3. Content' = View'
  BY <1>1, <1>2 DEF Content, View
<1> QED
  BY <1>1, <1>3

\* Of a closed file clients see what is on disk.
LEMMA SeenClosed ==
  ASSUME ~fp
  PROVE  /\ Size = diskSize /\ Mode = "closed"
         /\ Content = [i \in 0 .. diskSize - 1 |-> disk[i]]
BY DEF Size, Mode, Content

-----------------------------------------------------------------------------
\* Opening a file.
LEMMA OpenStep ==
  ASSUME FileInv, NEW m \in Modes, Open(m)
  PROVE  FileInv' /\ File!Open(m)
<1>1. /\ ~fp /\ fp' /\ mode' = m /\ target = -1 /\ target' = -1 /\ ~dirty /\ ~dirty'
      /\ diskSize' = (IF m \in {"write", "append"} THEN 0 ELSE diskSize)
      /\ disk' = [i \in 0 .. diskSize' - 1 |-> disk[i]]
      /\ page' = -1 /\ offset' = 0 /\ size' = diskSize'
      /\ buffer' = buffer /\ got' = got /\ dirty' = dirty /\ fp' = TRUE
      /\ cut' = FALSE
  BY DEF Open, FileInv
<1>2. /\ diskSize' \in 0 .. MaxSize /\ diskSize' <= diskSize /\ diskSize \in 0 .. MaxSize
      /\ disk' \in [0 .. diskSize' - 1 -> Bytes]
  BY <1>1, FileAssumption DEF FileInv, TypeOK
<1>3. TypeOK'
  <2>1. /\ cut' \in BOOLEAN /\ fp' \in BOOLEAN /\ dirty' \in BOOLEAN
        /\ buffer' \in [0 .. Page - 1 -> Bytes] /\ got' \in Bytes \union {End}
    BY <1>1 DEF FileInv, TypeOK
  <2>2. /\ offset' \in 0 .. MaxSize /\ size' \in 0 .. MaxSize
        /\ page' \in -1 .. MaxSize /\ target' \in -1 .. MaxSize /\ mode' \in Modes
    BY <1>1, <1>2, FileAssumption
  <2> QED
    BY <1>2, <2>1, <2>2 DEF TypeOK
<1>4. \A i \in 0 .. size' - 1 : PageOf(i) # -1 /\ i < diskSize'
  BY <1>1, <1>2, FileAssumption, PageType
<1>5. FileInv'
  <2>1. Coherent'
    BY <1>1, <1>2, <1>4, FileAssumption DEF Coherent
  <2> QED
    BY <1>1, <1>3, <2>1 DEF FileInv
<1>6. View' = disk'
  BY <1>1, <1>2, <1>4 DEF View
<1>7. Content' = disk' /\ Size' = diskSize' /\ Pos' = 0 /\ Mode' = m
  <2>1. Content' = View' /\ Size' = size' /\ Pos' = offset' /\ Mode' = mode'
    BY <1>1, <1>5, SeenOpenNext
  <2> QED
    BY <1>1, <1>6, <2>1
<1>8. Mode = "closed" /\ Size = diskSize /\ Content = disk
  <2>1. disk = [i \in 0 .. diskSize - 1 |-> disk[i]]
    BY DEF FileInv, TypeOK
  <2> QED
    BY <1>1, <2>1, SeenClosed
<1>9. m \notin {"write", "append"} => disk' = disk
  BY <1>1 DEF FileInv, TypeOK
<1>10. m \in {"write", "append"} => disk' = [i \in 0 .. -1 |-> Zero]
  BY <1>1
<1> QED
  BY <1>1, <1>5, <1>7, <1>8, <1>9, <1>10 DEF File!Open

\* Flushing, or closing, a file.
LEMMA FlushStep ==
  ASSUME FileInv, target = -1, fp, ~cut, ~cut', cut' \in BOOLEAN, BufferFlush, fp' \in BOOLEAN,
         UNCHANGED <<mode, offset, size, buffer, target, got>>
  PROVE  /\ FileInv' /\ Content' = Content /\ Size' = Size /\ Pos' = Pos
         /\ Mode' = IF fp' THEN Mode ELSE "closed"
<1>1. /\ View' = View
      /\ disk' \in [0 .. diskSize' - 1 -> Bytes] /\ diskSize' = size
      /\ page' = (IF dirty THEN -1 ELSE page)
      /\ ~dirty' /\ dirty' \in BOOLEAN
      /\ \A i \in 0 .. size - 1 : PageOf(i) = page' => buffer[Slot(i)] = disk'[i]
  BY FlushView
<1>2. TypeOK'
  BY <1>1, FileAssumption DEF FileInv, TypeOK
<1>3. Coherent'
  BY <1>1, <1>2 DEF FileInv, TypeOK, Coherent
<1>4. FileInv'
  BY <1>1, <1>2, <1>3 DEF FileInv
<1>5. Content = View /\ Size = size /\ Pos = offset /\ Mode = mode
  BY SeenOpen
<1>6. CASE fp'
  BY <1>1, <1>4, <1>5, <1>6, SeenOpenNext
<1>7. CASE ~fp'
  <2>1. Size' = size /\ Mode' = "closed" /\ Pos' = offset
    BY <1>1, <1>7 DEF Size, Mode, Pos
  <2>2. Content' = disk'
    BY <1>1, <1>7, <2>1 DEF Content
  <2>3. disk' = View
    BY FlushAll DEF BufferFlush
  <2> QED
    BY <1>4, <1>5, <1>7, <2>1, <2>2, <2>3
<1> QED
  BY <1>6, <1>7

\* Reading.
LEMMA ReadStep ==
  ASSUME FileInv, Read
  PROVE  FileInv' /\ File!Read
<1>1. CASE fp /\ mode # "write" /\ offset < size
  <2>1. /\ BufferSync /\ buffer' = Synced /\ offset' = offset + 1
        /\ dirty' = (dirty /\ (page = PageOf(offset) \/ ~Flushes))
        /\ got' = Synced[Slot(offset)]
        /\ UNCHANGED <<fp, mode, size, target, cut>> /\ target = -1 /\ ~cut
    BY <1>1 DEF Read, Callable
  <2>2. Flushes <=> dirty
    BY <1>1, <2>1, FlushAll
  <2>3. /\ page' = PageOf(offset)
        /\ buffer' \in [0 .. Page - 1 -> Bytes]
        /\ diskSize' \in 0 .. size /\ disk' \in [0 .. diskSize' - 1 -> Bytes]
        /\ \A i \in 0 .. size - 1 :
              IF PageOf(i) = page' THEN buffer'[Slot(i)] = View[i]
              ELSE i < diskSize' /\ disk'[i] = View[i]
        /\ page # PageOf(offset) \/ ~dirty =>
              /\ diskSize' = size
              /\ \A i \in 0 .. size - 1 : disk'[i] = View[i]
    BY <1>1, <2>1, SyncView
  <2>4. /\ offset \in 0 .. size - 1 /\ offset \in Nat /\ size \in 0 .. MaxSize
        /\ PageOf(offset) \in Nat /\ Start(PageOf(offset)) <= offset
        /\ PageOf(offset) <= MaxSize
    <3>1. offset \in 0 .. size - 1 /\ offset \in Nat /\ size \in 0 .. MaxSize
      BY <1>1 DEF FileInv, TypeOK
    <3>2. PageOf(offset) \in Nat
      BY <3>1, PageType
    <3> QED
      BY <3>1, <3>2, SamePage, PageBound, FileAssumption
  <2>5. dirty' <=> dirty /\ page = page'
    BY <2>1, <2>2, <2>3
  <2>6. View' = View
    BY <2>1, <2>3 DEF View
  <2>7. got' = View[offset] /\ got' \in Bytes
    BY <1>1, <2>1, <2>3, <2>4, ViewType
  <2>8. TypeOK'
    <3>1. page' \in -1 .. MaxSize /\ offset' \in 0 .. MaxSize
      BY <2>1, <2>3, <2>4, FileAssumption
    <3>2. diskSize' \in 0 .. MaxSize /\ dirty' \in BOOLEAN
      BY <2>1, <2>3, <2>4, FileAssumption DEF FileInv, TypeOK
    <3> QED
      BY <2>1, <2>3, <2>7, <3>1, <3>2 DEF FileInv, TypeOK
  <2>9. Coherent'
    <3>1. offset' <= size' /\ page' # -1 /\ Start(page') < size'
      <4>1. Start(PageOf(offset)) \in Nat
        BY <2>4, SamePage
      <4> QED
        BY <2>1, <2>3, <2>4, <4>1
    <3>2. dirty' => mode' # "read" /\ diskSize' <= size'
      BY <1>1, <2>1, <2>3, <2>5 DEF FileInv, Coherent
    <3>3. ~dirty' => diskSize' = size' /\ \A i \in 0 .. size - 1 : disk'[i] = View[i]
      BY <2>1, <2>3, <2>5 DEF FileInv, TypeOK
    <3> QED
      BY <2>1, <2>3, <3>1, <3>2, <3>3 DEF Coherent
  <2>10. FileInv'
    BY <1>1, <2>1, <2>8, <2>9 DEF FileInv
  <2>11. /\ Content' = View /\ Size' = size /\ Pos' = offset + 1 /\ Mode' = mode
         /\ Content = View /\ Size = size /\ Pos = offset /\ Mode = mode
    BY <1>1, <2>1, <2>6, <2>10, SeenOpen, SeenOpenNext
  <2>12. mode \notin {"closed", "write"}
    BY <1>1 DEF FileInv, TypeOK, Modes
  <2> QED
    BY <1>1, <2>7, <2>10, <2>11, <2>12 DEF File!Read
<1>2. CASE ~(fp /\ mode # "write" /\ offset < size)
  <2>1. got' = End /\ target = -1
        /\ UNCHANGED <<disk, diskSize, page, buffer, dirty, offset, fp, mode, size, target, cut>>
        /\ ~cut
    BY <1>2 DEF Read, Callable
  <2>2. FileInv'
    BY <2>1 DEF FileInv, TypeOK, Coherent
  <2>3. Content' = Content /\ Size' = Size /\ Pos' = Pos /\ Mode' = Mode
    BY <2>1 DEF Content, Size, Pos, Mode
  <2>4. Mode \in {"closed", "write"} \/ ~(Pos < Size)
    BY <1>2, <2>1 DEF Mode, Pos, Size
  <2> QED
    BY <2>1, <2>2, <2>3, <2>4 DEF File!Read
<1> QED
  BY <1>1, <1>2

\* Writing one byte, the next of padding included: the byte is in the view,
\* and the rest of it as before.
LEMMA PutStep ==
  ASSUME FileInv, fp, ~cut, mode # "read", NEW b \in Bytes, Put(b), offset < MaxSize,
         UNCHANGED <<fp, mode, target, cut>>
  PROVE  /\ TypeOK' <=> got' \in Bytes \union {End}
         /\ Coherent'
         /\ size' = IF offset = size THEN size + 1 ELSE size
         /\ View' = [i \in 0 .. size' - 1 |-> IF i = offset THEN b ELSE View[i]]
<1>1. /\ offset \in 0 .. size /\ size \in 0 .. MaxSize /\ offset \in Nat /\ size \in Nat
      /\ offset + 1 \in 0 .. MaxSize
  BY FileAssumption DEF FileInv, TypeOK, Coherent
<1>2. size' = (IF offset = size THEN size + 1 ELSE size) /\ offset' = offset + 1
  BY <1>1 DEF Put
<1>3. size' \in 0 .. MaxSize /\ offset \in 0 .. size' - 1 /\ size <= size'
      /\ \A i \in 0 .. size' - 1 : i # offset => i \in 0 .. size - 1
  BY <1>1, <1>2
<1>4. /\ BufferSync /\ dirty' = TRUE
      /\ buffer' = [Synced EXCEPT ![Slot(offset)] = b]
  BY DEF Put
<1>5. /\ page' = PageOf(offset)
      /\ Synced \in [0 .. Page - 1 -> Bytes]
      /\ diskSize' \in 0 .. size /\ disk' \in [0 .. diskSize' - 1 -> Bytes]
      /\ \A i \in 0 .. size - 1 :
            IF PageOf(i) = PageOf(offset) THEN Synced[Slot(i)] = View[i]
            ELSE i < diskSize' /\ disk'[i] = View[i]
  BY <1>4, SyncView
<1>6. /\ PageOf(offset) \in 0 .. MaxSize /\ Slot(offset) \in 0 .. Page - 1
      /\ Start(PageOf(offset)) \in Nat /\ Start(PageOf(offset)) <= offset
  <2>1. PageOf(offset) \in Nat /\ Slot(offset) \in 0 .. Page - 1 /\ PageOf(offset) <= offset
    BY <1>1, PageType, PageBound
  <2>2. Start(PageOf(offset)) \in Nat /\ Start(PageOf(offset)) <= offset
    BY <1>1, <2>1, SamePage
  <2> QED
    BY <1>1, <2>1, <2>2, FileAssumption
<1>7. buffer' \in [0 .. Page - 1 -> Bytes] /\ buffer'[Slot(offset)] = b
  BY <1>4, <1>5, <1>6
<1>8. ASSUME NEW i \in 0 .. size - 1, i # offset, PageOf(i) = PageOf(offset)
      PROVE  buffer'[Slot(i)] = View[i]
  <2>1. i \in Nat /\ i = Start(PageOf(offset)) + Slot(i) /\ Slot(i) \in 0 .. Page - 1
    BY <1>1, <1>6, <1>8, SamePage, PageType
  <2>2. offset = Start(PageOf(offset)) + Slot(offset)
    BY <1>1, <1>6, SamePage
  <2>3. Slot(i) # Slot(offset)
    BY <1>8, <2>1, <2>2
  <2> QED
    BY <1>4, <1>5, <1>8, <2>1, <2>3
<1>9. View' = [i \in 0 .. size' - 1 |-> IF i = offset THEN b ELSE View[i]]
  <2>1. ASSUME NEW i \in 0 .. size' - 1
        PROVE  (IF PageOf(i) = page' THEN buffer'[Slot(i)] ELSE disk'[i])
               = IF i = offset THEN b ELSE View[i]
    <3>1. CASE i = offset
      BY <1>5, <1>7, <3>1
    <3>2. CASE i # offset /\ PageOf(i) = PageOf(offset)
      BY <1>3, <1>5, <1>8, <3>2
    <3>3. CASE i # offset /\ PageOf(i) # PageOf(offset)
      BY <1>3, <1>5, <3>3
    <3> QED
      BY <3>1, <3>2, <3>3
  <2> QED
    BY <2>1 DEF View
<1>10. Coherent'
  <2>1. \A i \in 0 .. size' - 1 : PageOf(i) # page' => i < diskSize'
    BY <1>3, <1>5
  <2>2. diskSize' <= size' /\ offset' <= size' /\ page' # -1 /\ Start(page') < size'
    BY <1>1, <1>2, <1>3, <1>5, <1>6
  <2> QED
    BY <1>4, <2>1, <2>2 DEF Coherent
<1>11. TypeOK' <=> got' \in Bytes \union {End}
  <2>1. diskSize' \in 0 .. MaxSize /\ offset' \in 0 .. MaxSize /\ page' \in -1 .. MaxSize
    BY <1>1, <1>2, <1>5, <1>6, FileAssumption
  <2> QED
    BY <1>3, <1>4, <1>5, <1>7, <2>1 DEF FileInv, TypeOK
<1> QED
  BY <1>2, <1>9, <1>10, <1>11

\* Writing.
LEMMA WriteStep ==
  ASSUME FileInv, NEW b \in Bytes, Write(b)
  PROVE  FileInv' /\ File!Write(b)
<1>1. /\ fp /\ mode # "read" /\ offset < MaxSize /\ target = -1 /\ target' = -1
      /\ ~cut /\ ~cut' /\ Put(b) /\ UNCHANGED <<fp, mode, target, got, cut>>
  BY DEF Write, Callable
<1>2. /\ got' \in Bytes \union {End}
      /\ Coherent'
      /\ size' = (IF offset = size THEN size + 1 ELSE size) /\ offset' = offset + 1
      /\ View' = [i \in 0 .. size' - 1 |-> IF i = offset THEN b ELSE View[i]]
      /\ TypeOK'
  <2>1. got' \in Bytes \union {End}
    BY <1>1 DEF FileInv, TypeOK
  <2>2. offset' = offset + 1
    BY <1>1 DEF Put
  <2> QED
    BY <1>1, <2>1, <2>2, PutStep
<1>3. FileInv'
  BY <1>1, <1>2 DEF FileInv
<1>4. /\ Content = View /\ Size = size /\ Pos = offset /\ Mode = mode
      /\ Content' = View' /\ Size' = size' /\ Pos' = offset' /\ Mode' = mode'
  BY <1>1, <1>3, SeenOpen, SeenOpenNext
<1>5. mode \notin {"closed", "read"}
  BY <1>1 DEF FileInv, TypeOK, Modes
<1> QED
  BY <1>1, <1>2, <1>3, <1>4, <1>5 DEF File!Write

\* Seeking, up to the loop that pads: clients see the file grow at once.
LEMMA SeekStep ==
  ASSUME FileInv, NEW n \in -1 .. MaxSize, Seek(n)
  PROVE  FileInv' /\ File!Seek(n)
<1> DEFINE past == n < 0 \/ n > size
<1>1. /\ fp /\ fp' = fp /\ target = -1 /\ (n < 0 => mode = "read") /\ BufferFlush
      /\ offset' = (IF past THEN size ELSE n)
      /\ target' = (IF past /\ mode # "read" THEN n ELSE -1)
      /\ ~cut /\ ~cut' /\ UNCHANGED <<fp, mode, size, buffer, got, cut>>
  BY DEF Seek, Callable
<1>2. /\ View' = View
      /\ disk' \in [0 .. diskSize' - 1 -> Bytes] /\ diskSize' = size
      /\ page' = (IF dirty THEN -1 ELSE page)
      /\ ~dirty' /\ dirty' \in BOOLEAN
      /\ \A i \in 0 .. size - 1 : PageOf(i) = page' => buffer[Slot(i)] = disk'[i]
  BY <1>1, FlushView
<1>3. /\ size \in 0 .. MaxSize /\ n \in Int /\ MaxSize \in Nat /\ offset' \in 0 .. size
      /\ target' # -1 => n > size
  BY <1>1, FileAssumption DEF FileInv, TypeOK
<1>4. TypeOK'
  <2>1. offset' \in 0 .. MaxSize /\ target' \in -1 .. MaxSize
    BY <1>1, <1>3
  <2>2. page' \in -1 .. MaxSize /\ diskSize' \in 0 .. MaxSize
    BY <1>2, <1>3 DEF FileInv, TypeOK
  <2> QED
    BY <1>1, <1>2, <2>1, <2>2 DEF FileInv, TypeOK
<1>5. Coherent'
  BY <1>1, <1>2, <1>3 DEF FileInv, TypeOK, Coherent
<1>6. FileInv'
  BY <1>1, <1>2, <1>3, <1>4, <1>5 DEF FileInv
<1>7. Content = View /\ Size = size /\ Pos = offset /\ Mode = mode
  BY <1>1, SeenOpen
<1>8. mode # "closed"
  BY DEF FileInv, TypeOK, Modes
<1>9. CASE target' = -1
  <2>1. Content' = View /\ Size' = size /\ Pos' = offset' /\ Mode' = mode
    BY <1>1, <1>2, <1>6, <1>9, SeenOpenNext
  <2>2. n <= size \/ mode = "read"
    BY <1>1, <1>3, <1>9
  <2>3. IF n < 0 THEN offset' \in 0 .. size ELSE offset' = IF n <= size THEN n ELSE size
    BY <1>1, <1>3
  <2> QED
    BY <1>1, <1>6, <1>7, <1>8, <2>1, <2>2, <2>3 DEF File!Seek
<1>10. CASE target' # -1
  <2>1. target' = n /\ n > size /\ mode # "read"
    BY <1>1, <1>3, <1>10
  <2>2. Size' = n /\ Pos' = n /\ Mode' = mode
    BY <1>1, <1>10, <2>1 DEF Size, Pos, Mode
  <2>3. Content' = [i \in 0 .. n - 1 |-> IF i < size THEN View[i] ELSE Zero]
    <3>1. ASSUME NEW i \in 0 .. n - 1
          PROVE  (IF i >= size' THEN Zero
                  ELSE IF PageOf(i) = page' THEN buffer'[Slot(i)] ELSE disk'[i])
                 = IF i < size THEN View[i] ELSE Zero
      <4>1. CASE i < size
        <5>1. i \in 0 .. size - 1 /\ ~(i >= size)
          BY <1>3, <4>1
        <5>2. View'[i] = View[i]
          BY <1>2
        <5>3. View'[i] = IF PageOf(i) = page' THEN buffer'[Slot(i)] ELSE disk'[i]
          BY <1>1, <5>1 DEF View
        <5> QED
          BY <1>1, <4>1, <5>1, <5>2, <5>3
      <4>2. CASE ~(i < size)
        BY <1>1, <1>3, <4>2
      <4> QED
        BY <4>1, <4>2
    <3> QED
      BY <1>1, <2>2, <3>1 DEF Content
  <2> QED
    BY <1>1, <1>6, <1>7, <1>8, <2>1, <2>2, <2>3 DEF File!Seek
<1> QED
  BY <1>9, <1>10

\* One zero of the padding: clients have seen it already.
LEMMA PadStep ==
  ASSUME FileInv, Pad
  PROVE  FileInv' /\ UNCHANGED <<Content, Size, Pos, Mode, got>>
<1>1. /\ target # -1 /\ size < target /\ Put(Zero) /\ UNCHANGED <<fp, mode, target, got, cut>>
      /\ ~cut /\ ~cut'
  BY DEF Pad, FileInv
<1>2. /\ fp /\ fp' /\ mode # "read" /\ offset = size /\ size \in 0 .. MaxSize
      /\ target \in 0 .. MaxSize /\ offset < MaxSize /\ Zero \in Bytes /\ target \in Int
      /\ got \in Bytes \union {End}
  BY <1>1, FileAssumption DEF FileInv, TypeOK
<1>3. /\ TypeOK' /\ Coherent'
      /\ size' = size + 1 /\ offset' = offset + 1
      /\ View' = [i \in 0 .. size' - 1 |-> IF i = offset THEN Zero ELSE View[i]]
  <2>1. offset' = offset + 1
    BY <1>1 DEF Put
  <2> QED
    BY <1>1, <1>2, <2>1, PutStep
<1>4. FileInv'
  BY <1>1, <1>2, <1>3 DEF FileInv
<1>5. UNCHANGED <<Size, Pos, Mode>>
  BY <1>1, <1>2 DEF Size, Pos, Mode
<1>6. Content = [i \in 0 .. target - 1 |-> IF i >= size THEN Zero ELSE View[i]]
  BY <1>1, <1>2, SeenOpen
<1>7. Content' = Content
  <2>1. ASSUME NEW i \in 0 .. target - 1
        PROVE  (IF i >= size' THEN Zero
                ELSE IF PageOf(i) = page' THEN buffer'[Slot(i)] ELSE disk'[i])
               = IF i >= size THEN Zero ELSE View[i]
    <3>1. CASE i >= size'
      BY <1>2, <1>3, <3>1
    <3>2. CASE ~(i >= size')
      <4>1. i \in 0 .. size' - 1
        BY <1>2, <1>3, <3>2
      <4>2. View'[i] = IF PageOf(i) = page' THEN buffer'[Slot(i)] ELSE disk'[i]
        BY <4>1 DEF View
      <4>3. View'[i] = IF i = offset THEN Zero ELSE View[i]
        BY <1>3, <4>1
      <4>4. i >= size <=> i = offset
        BY <1>2, <1>3, <3>2
      <4> QED
        BY <3>2, <4>2, <4>3, <4>4
    <3> QED
      BY <3>1, <3>2
  <2>2. Content' = [i \in 0 .. target - 1 |->
                      IF i >= size' THEN Zero
                      ELSE IF PageOf(i) = page' THEN buffer'[Slot(i)] ELSE disk'[i]]
    BY <1>1, <1>2 DEF Content, Size
  <2> QED
    BY <1>6, <2>1, <2>2
<1> QED
  BY <1>1, <1>4, <1>5, <1>7

\* The end of the padding.
LEMMA PaddedStep ==
  ASSUME FileInv, Padded
  PROVE  FileInv' /\ UNCHANGED <<Content, Size, Pos, Mode, got>>
<1>1. /\ target # -1 /\ size >= target /\ offset' = target /\ target' = -1
      /\ UNCHANGED <<disk, diskSize, size, buffer, dirty, page, fp, mode, got, cut>>
      /\ ~cut /\ ~cut'
  BY DEF Padded, FileInv
<1>2. fp /\ fp' /\ mode # "read" /\ size = target /\ size \in 0 .. MaxSize
  BY <1>1, FileAssumption DEF FileInv, TypeOK
<1>3. TypeOK'
  BY <1>1, <1>2, FileAssumption DEF FileInv, TypeOK
<1>4. Coherent'
  BY <1>1, <1>2 DEF FileInv, Coherent
<1>5. FileInv'
  BY <1>1, <1>2, <1>3, <1>4 DEF FileInv
<1>6. /\ Content = [i \in 0 .. target - 1 |-> IF i >= size THEN Zero ELSE View[i]]
      /\ Size = target /\ Pos = target /\ Mode = mode
  BY <1>1, <1>2, SeenOpen
<1>7. Content' = View' /\ Size' = size' /\ Pos' = offset' /\ Mode' = mode'
  BY <1>1, <1>2, <1>5, SeenOpenNext
<1>8. Content' = Content
  <2>1. View' = View
    BY <1>1 DEF View
  <2>2. \A i \in 0 .. size - 1 : ~(i >= size)
    BY <1>2
  <2>3. View = [i \in 0 .. size - 1 |-> IF i >= size THEN Zero ELSE View[i]]
    BY <2>2 DEF View
  <2> QED
    BY <1>2, <1>6, <1>7, <2>1, <2>3
<1> QED
  BY <1>1, <1>2, <1>5, <1>6, <1>7, <1>8

-----------------------------------------------------------------------------
\* An open that fails.
LEMMA OpenFailsStep ==
  ASSUME FileInv, NEW m \in Modes, OpenFails(m)
  PROVE  FileInv' /\ UNCHANGED <<Content, Size, Pos, Mode, got>>
<1>1. /\ ~fp /\ mode' = m /\ ~cut /\ target = -1
      /\ UNCHANGED <<disk, diskSize, offset, size, buffer, dirty, page, cut, fp, target, got>>
  BY DEF OpenFails, file, FileInv, Coherent
<1>2. FileInv'
  BY <1>1 DEF FileInv, TypeOK, Coherent
<1> QED
  BY <1>1, <1>2 DEF Content, Size, Pos, Mode

\* Truncating a file with nothing left to write: clients see the disk from here on.
LEMMA TruncateStep ==
  ASSUME FileInv, NEW n \in 0 .. MaxSize, Truncate(n)
  PROVE  FileInv' /\ File!Truncate(n)
<1>1. /\ fp /\ ~cut /\ target = -1 /\ mode # "read" /\ ~dirty /\ cut'
      /\ diskSize' = n /\ disk' = [i \in 0 .. n - 1 |-> IF i < diskSize THEN disk[i] ELSE Zero]
      /\ cut' \in BOOLEAN
      /\ UNCHANGED <<fp, mode, offset, size, buffer, dirty, page, target, got>>
  BY DEF Truncate, Callable
<1>2. diskSize = size /\ size \in Nat /\ n \in Nat
  BY <1>1, FileAssumption DEF FileInv, TypeOK, Coherent
<1>3. disk' \in [0 .. diskSize' - 1 -> Bytes]
  <2>1. ASSUME NEW i \in 0 .. n - 1
        PROVE  (IF i < diskSize THEN disk[i] ELSE Zero) \in Bytes
    BY <1>2, FileAssumption DEF FileInv, TypeOK
  <2> QED
    BY <1>1, <2>1
<1>4. TypeOK'
  BY <1>1, <1>3 DEF FileInv, TypeOK
<1>5. FileInv'
  BY <1>1, <1>4 DEF FileInv, Coherent
<1>6. Content = View /\ Size = size /\ Pos = offset /\ Mode = mode
  BY <1>1, SeenOpen
<1>7. View = disk
  <2>1. \A i \in 0 .. size - 1 : PageOf(i) = page => buffer[Slot(i)] = disk[i]
    BY <1>1 DEF FileInv, Coherent
  <2>2. disk = [i \in 0 .. size - 1 |-> disk[i]]
    BY <1>2 DEF FileInv, TypeOK
  <2> QED
    BY <2>1, <2>2 DEF View
<1>8. Size' = n /\ Pos' = offset /\ Mode' = mode
  BY <1>1 DEF Size, Pos, Mode
<1>9. Content' = disk'
  BY <1>1, <1>8 DEF Content
<1>10. mode \notin {"closed", "read"}
  BY <1>1 DEF FileInv, TypeOK, Modes
<1> QED
  BY <1>1, <1>2, <1>5, <1>6, <1>7, <1>8, <1>9, <1>10 DEF File!Truncate

\* Closing a truncated file: nothing is written any more.
LEMMA CutClose ==
  ASSUME FileInv, cut, Close
  PROVE  FileInv' /\ File!Close
<1>1. /\ fp /\ ~dirty /\ target = -1 /\ fp' = FALSE /\ cut' = FALSE /\ BufferFlush
      /\ UNCHANGED <<mode, offset, size, buffer, target, got>>
  BY DEF Close, FileInv, Coherent
<1>2. ~Flushes /\ diskSize' = diskSize /\ page' = page /\ dirty' = dirty
  BY <1>1 DEF BufferFlush, Flushes, FlushedSize, FileInv, TypeOK
<1>3. disk' = disk
  <2>1. FlushedSize = diskSize
    BY <1>2 DEF FlushedSize
  <2>2. \A i \in 0 .. diskSize - 1 : i < diskSize
    BY DEF FileInv, TypeOK
  <2>3. disk = [i \in 0 .. diskSize - 1 |-> disk[i]]
    BY DEF FileInv, TypeOK
  <2>4. disk' = FlushedDisk
    BY <1>1 DEF BufferFlush
  <2> QED
    BY <1>2, <2>1, <2>2, <2>3, <2>4 DEF FlushedDisk
<1>4. FileInv'
  BY <1>1, <1>2, <1>3 DEF FileInv, TypeOK, Coherent
<1>5. Size' = Size /\ Content' = Content /\ Pos' = Pos /\ Mode' = "closed"
  BY <1>1, <1>2, <1>3 DEF Size, Content, Pos, Mode
<1>6. Mode # "closed"
  BY <1>1 DEF Mode, FileInv, TypeOK, Modes
<1> QED
  BY <1>1, <1>4, <1>5, <1>6 DEF File!Close

\* Every step keeps the invariant, and is one of the unbuffered file or none.
LEMMA FileStep ==
  ASSUME FileInv, [Next]_vars
  PROVE  FileInv' /\ [File!Next]_(File!vars)
<1>1. ASSUME NEW m \in Modes, Open(m) PROVE FileInv' /\ File!Next
  BY <1>1, OpenStep DEF File!Next
<1>2. CASE Read
  BY <1>2, ReadStep DEF File!Next
<1>3. ASSUME NEW b \in Bytes, Write(b) PROVE FileInv' /\ File!Next
  BY <1>3, WriteStep DEF File!Next
<1>4. ASSUME NEW n \in -1 .. MaxSize, Seek(n) PROVE FileInv' /\ File!Next
  BY <1>4, SeekStep DEF File!Next
<1>5. CASE Pad
  BY <1>5, PadStep DEF File!vars
<1>6. CASE Padded
  BY <1>6, PaddedStep DEF File!vars
<1>7. CASE Flush
  <2>1. /\ fp /\ ~cut /\ ~cut' /\ cut' \in BOOLEAN /\ target = -1 /\ BufferFlush /\ fp' = fp
        /\ fp' \in BOOLEAN
        /\ UNCHANGED <<mode, offset, size, buffer, target, got>>
    BY <1>7 DEF Flush, Callable, FileInv, TypeOK
  <2>2. FileInv' /\ UNCHANGED <<Content, Size, Pos, Mode, got>>
    BY <2>1, FlushStep
  <2> QED
    BY <2>2 DEF File!vars
<1>8. CASE Close /\ ~cut
  <2>1. /\ fp /\ ~cut /\ ~cut' /\ cut' \in BOOLEAN /\ target = -1 /\ BufferFlush /\ ~fp' /\ fp' \in BOOLEAN
        /\ UNCHANGED <<mode, offset, size, buffer, target, got>>
    BY <1>8 DEF Close
  <2>2. /\ FileInv' /\ Content' = Content /\ Size' = Size /\ Pos' = Pos
        /\ Mode' = "closed" /\ got' = got
    BY <2>1, FlushStep
  <2>3. Mode # "closed"
    BY <2>1 DEF Mode, FileInv, TypeOK, Modes
  <2> QED
    BY <2>2, <2>3 DEF File!Close, File!Next
<1>9. CASE UNCHANGED vars
  <2>1. FileInv'
    BY <1>9 DEF vars, file, FileInv, TypeOK, Coherent
  <2>2. UNCHANGED <<Content, Size, Pos, Mode, got>>
    BY <1>9 DEF vars, file, Content, Size, Pos, Mode
  <2> QED
    BY <2>1, <2>2 DEF File!vars
<1>10. CASE Close /\ cut
  BY <1>10, CutClose DEF File!Next
<1>11. ASSUME NEW m \in Modes, OpenFails(m) PROVE FileInv' /\ UNCHANGED File!vars
  BY <1>11, OpenFailsStep DEF File!vars
<1>12. ASSUME NEW n \in 0 .. MaxSize, Truncate(n) PROVE FileInv' /\ File!Next
  BY <1>12, TruncateStep DEF File!Next
<1> QED
  BY <1>1, <1>2, <1>3, <1>4, <1>5, <1>6, <1>7, <1>8, <1>9, <1>10, <1>11, <1>12 DEF Next

\* The closed file a program starts with is a file.
LEMMA FileInit ==
  ASSUME Init
  PROVE  FileInv /\ File!Init
<1>1. FileInv
  <2>1. /\ MaxSize \in Nat /\ 0 \in 0 .. MaxSize /\ -1 \in -1 .. MaxSize
        /\ Zero \in Bytes
    BY FileAssumption
  <2>2. buffer \in [0 .. Page - 1 -> Bytes]
    BY <2>1 DEF Init
  <2>3. TypeOK
    BY <2>1, <2>2 DEF Init, TypeOK, Modes
  <2> QED
    BY <2>3 DEF Init, FileInv, Coherent
<1>2. Content = disk /\ Size = diskSize /\ Mode = "closed" /\ Pos = 0
  <2>1. disk = [i \in 0 .. diskSize - 1 |-> disk[i]]
    BY DEF Init
  <2> QED
    BY <2>1, SeenClosed DEF Init, Pos
<1> QED
  BY <1>1, <1>2 DEF Init, File!Init

\* Buffer, disk and the positions in them keep their types, and together hold
\* every byte of the file once: buffer_sync and buffer_flush of file.hpp never
\* drop a byte, whatever the size of the page.
THEOREM FileCoherent == Spec => [](TypeOK /\ Coherent)
<1>1. Init => FileInv
  BY FileInit
<1>2. FileInv /\ [Next]_vars => FileInv'
  BY FileStep
<1>3. FileInv => TypeOK /\ Coherent
  BY DEF FileInv
<1> QED
  BY <1>1, <1>2, <1>3, PTL DEF Spec

\* The buffered file implements the file without a buffer: what read returns
\* and what close leaves on disk are those of one string of bytes.
THEOREM UnbufferedHolds == Spec => Unbuffered
<1>1. Init => FileInv /\ File!Init
  BY FileInit
<1>2. FileInv /\ [Next]_vars => FileInv' /\ [File!Next]_(File!vars)
  BY FileStep
<1> QED
  BY <1>1, <1>2, PTL DEF Spec, Unbuffered, File!Spec
=============================================================================
