---------------------------- MODULE BufferedFile ----------------------------
(***************************************************************************)
(* The file class of nall/file.hpp: reads and writes go through a buffer   *)
(* of one page, which is written back when another page is needed, on      *)
(* seek, flush and close.  The file on disk is external: fread, fwrite,    *)
(* fseek and ftell as the class uses them.                                 *)
(*                                                                         *)
(* MaxSize stays below 2^31, where buffer_offset, an int, turns negative   *)
(* and buffer_flush takes the buffer for unused.  truncate changes the     *)
(* file below the buffer and file_size: a program calls it with nothing    *)
(* left to write, and then only closes the file (bpspatch::target does).   *)
(***************************************************************************)
EXTENDS Integers

CONSTANTS Bytes, Zero, End,
    Page,       \* buffer_size
    MaxSize     \* bound of file sizes and positions, below 2^31

Modes == {"read", "write", "modify", "append"}

ASSUME FileAssumption ==
    /\ Page \in Nat \ {0} /\ MaxSize \in Nat
    /\ Zero \in Bytes

VARIABLES
    disk, diskSize,     \* the file that fp stands for
    fp,                 \* whether it is open
    mode,               \* file_mode
    offset, size,       \* file_offset and file_size
    buffer, dirty,      \* buffer and buffer_dirty
    page,               \* buffer_offset divided by Page, or -1
    target,             \* where a seek that pads the file goes, or -1
    cut,                \* whether the open file was truncated
    flushed,            \* history: nothing fwrite took is still on its way to the disk
    got                 \* what the last read returned

file == <<disk, diskSize, offset, size, buffer, dirty, page, cut, flushed>>
vars == <<file, fp, mode, target, got>>

Init ==
    /\ diskSize \in 0 .. MaxSize
    /\ disk \in [0 .. diskSize - 1 -> Bytes]
    /\ fp = FALSE
    /\ mode = "read"
    /\ offset = 0 /\ size = 0
    /\ buffer = [j \in 0 .. Page - 1 |-> Zero] /\ dirty = FALSE /\ page = -1
    /\ target = -1 /\ cut = FALSE /\ flushed = TRUE
    /\ got = End

-----------------------------------------------------------------------------
\* The page a position is in, its place there, and where page p starts.
PageOf(i) == i \div Page
Slot(i) == i % Page
Start(p) == p * Page

\* Mutant of Count: the page that ends the file is not taken for full.
CountShort(p) == IF Start(p) + Page < size THEN Page ELSE Slot(size)

\* The bytes of page p that are moved between buffer and disk.
Count(p) == IF Start(p) + Page <= size THEN Page ELSE Slot(size)

\* Whether buffer_flush writes the buffer back, and the disk after it.
Flushes == mode # "read" /\ page >= 0 /\ dirty

FlushedSize ==
    LET end == Start(page) + Count(page)
    IN  IF Flushes /\ Count(page) > 0 /\ end > diskSize THEN end ELSE diskSize

FlushedDisk ==
    [i \in 0 .. FlushedSize - 1 |->
       IF Flushes /\ PageOf(i) = page /\ Slot(i) < Count(page) THEN buffer[Slot(i)]
       ELSE IF i < diskSize THEN disk[i] ELSE Zero]

\* buffer_flush, with what follows of it.
BufferFlush ==
    /\ disk' = FlushedDisk /\ diskSize' = FlushedSize
    /\ page' = IF Flushes THEN -1 ELSE page
    /\ dirty' = (dirty /\ ~Flushes)

\* Mutant of BufferSync: another page is read over a buffer that was not
\* written back.
BufferSyncDrops ==
    /\ page' = PageOf(offset)
    /\ UNCHANGED <<disk, diskSize, flushed>>

\* The buffer after buffer_sync, and the rest of its effect.
Synced ==
    IF page = PageOf(offset) THEN buffer
    ELSE [j \in 0 .. Page - 1 |->
            LET i == Start(PageOf(offset)) + j
            IN  IF j < Count(PageOf(offset)) /\ i < FlushedSize THEN FlushedDisk[i]
                ELSE buffer[j]]

BufferSync ==
    /\ page' = PageOf(offset)
    /\ IF page = PageOf(offset) THEN UNCHANGED <<disk, diskSize>>
       ELSE disk' = FlushedDisk /\ diskSize' = FlushedSize
    /\ flushed' = (flushed /\ (page = PageOf(offset) \/ ~Flushes))

-----------------------------------------------------------------------------
\* open: a mode that writes from the start empties the file.
Open(m) ==
    /\ ~fp
    /\ fp' = TRUE /\ mode' = m
    /\ diskSize' = IF m \in {"write", "append"} THEN 0 ELSE diskSize
    /\ disk' = [i \in 0 .. diskSize' - 1 |-> disk[i]]
    /\ page' = -1 /\ offset' = 0 /\ size' = diskSize'
    /\ cut' = FALSE /\ flushed' = TRUE
    /\ UNCHANGED <<buffer, dirty, target, got>>

\* An open that fails leaves the mode it was asked for.
OpenFails(m) ==
    /\ ~fp
    /\ mode' = m
    /\ UNCHANGED <<file, fp, target, got>>

\* A program calls nothing but close on a file it has truncated, and nothing at all
\* while a seek pads it.
Callable == target = -1 /\ ~cut

\* read of one byte.
Read ==
    /\ Callable
    /\ IF fp /\ mode # "write" /\ offset < size
       THEN /\ BufferSync
            /\ buffer' = Synced
            /\ dirty' = (dirty /\ (page = PageOf(offset) \/ ~Flushes))
            /\ got' = Synced[Slot(offset)]
            /\ offset' = offset + 1
       ELSE got' = End /\ UNCHANGED <<disk, diskSize, page, buffer, dirty, offset, flushed>>
    /\ UNCHANGED <<fp, mode, size, target, cut>>

\* What write of one byte does to an open file that may be written.
Put(b) ==
    /\ BufferSync
    /\ buffer' = [Synced EXCEPT ![Slot(offset)] = b]
    /\ dirty' = TRUE
    /\ offset' = offset + 1
    /\ size' = IF offset + 1 > size THEN offset + 1 ELSE size

Write(b) ==
    /\ Callable
    /\ fp /\ mode # "read" /\ offset < MaxSize
    /\ Put(b)
    /\ UNCHANGED <<fp, mode, target, got, cut>>

\* seek to n: past the end it stops there, or pads the file with zeros first.
\* A position before the start wraps to one past the end; padding up to that
\* does not return, so clients seek there only in files they read.
Seek(n) ==
    /\ Callable /\ fp
    /\ n < 0 => mode = "read"
    /\ BufferFlush
    /\ LET past == n < 0 \/ n > size
       IN  /\ offset' = IF past THEN size ELSE n
           /\ target' = IF past /\ mode # "read" THEN n ELSE -1
    /\ flushed' = (flushed /\ ~Flushes)
    /\ UNCHANGED <<fp, mode, size, buffer, got, cut>>

\* One turn of the loop that pads, and the step after the last.
Pad ==
    /\ target # -1 /\ size < target
    /\ Put(Zero)
    /\ UNCHANGED <<fp, mode, target, got, cut>>

Padded ==
    /\ target # -1 /\ size >= target
    /\ offset' = target /\ target' = -1
    /\ UNCHANGED <<disk, diskSize, size, buffer, dirty, page, fp, mode, got, cut, flushed>>

Flush ==
    /\ Callable /\ fp
    /\ BufferFlush
    /\ flushed' = TRUE
    /\ UNCHANGED <<fp, mode, offset, size, buffer, target, got, cut>>

\* truncate cuts the file on disk, or fills it up with zeros; it fails on one opened to
\* be read.
Truncate(n) ==
    /\ Callable /\ fp /\ mode # "read" /\ ~dirty /\ flushed
    /\ diskSize' = n
    /\ disk' = [i \in 0 .. n - 1 |-> IF i < diskSize THEN disk[i] ELSE Zero]
    /\ cut' = TRUE
    /\ UNCHANGED <<fp, mode, offset, size, buffer, dirty, page, target, got, flushed>>

Close ==
    /\ target = -1 /\ fp
    /\ BufferFlush
    /\ fp' = FALSE /\ cut' = FALSE /\ flushed' = TRUE
    /\ UNCHANGED <<mode, offset, size, buffer, target, got>>

Next ==
    \/ \E m \in Modes : Open(m) \/ OpenFails(m)
    \/ Read \/ Pad \/ Padded \/ Flush \/ Close
    \/ \E b \in Bytes : Write(b)
    \/ \E n \in -1 .. MaxSize : Seek(n)
    \/ \E n \in 0 .. MaxSize : Truncate(n)

Spec == Init /\ [][Next]_vars

-----------------------------------------------------------------------------
\* Every variable of the class and its file has its type.
TypeOK ==
    /\ diskSize \in 0 .. MaxSize /\ disk \in [0 .. diskSize - 1 -> Bytes]
    /\ fp \in BOOLEAN /\ mode \in Modes
    /\ offset \in 0 .. MaxSize /\ size \in 0 .. MaxSize
    /\ buffer \in [0 .. Page - 1 -> Bytes] /\ dirty \in BOOLEAN
    /\ page \in -1 .. MaxSize /\ target \in -1 .. MaxSize /\ cut \in BOOLEAN
    /\ got \in Bytes \union {End}

\* Buffer and disk together hold the file: bytes outside the page in the
\* buffer are on disk, those of a page not written to are on both - until truncate
\* changes the disk alone, with nothing left that could be written over it.
Coherent ==
    /\ cut => fp /\ ~dirty
    /\ fp /\ ~cut =>
         /\ offset <= size
         /\ page # -1 => Start(page) < size
         /\ IF dirty THEN page # -1 /\ mode # "read" /\ diskSize <= size
                     ELSE diskSize = size
         /\ \A i \in 0 .. size - 1 :
              IF PageOf(i) = page THEN dirty \/ buffer[Slot(i)] = disk[i]
                                    ELSE i < diskSize

\* The file as its clients see it: bytes, size, position and mode.
Size == IF ~fp \/ cut THEN diskSize ELSE IF target = -1 THEN size ELSE target
Pos  == IF target = -1 THEN offset ELSE target
Mode == IF fp THEN mode ELSE "closed"
Content ==
    [i \in 0 .. Size - 1 |->
       IF ~fp \/ cut THEN disk[i]
       ELSE IF i >= size THEN Zero
       ELSE IF PageOf(i) = page THEN buffer[Slot(i)] ELSE disk[i]]

File == INSTANCE ByteFile WITH content <- Content, size <- Size, offset <- Pos, mode <- Mode

\* The buffer is not to be seen: reads, writes, seeks and re-opened files act
\* on one string of bytes.
Unbuffered == File!Spec

\* A seek to before the start stops at the start, as the comment in seek says.
SeekStopsAtStart == [][\A n \in -1 .. MaxSize : n < 0 /\ Seek(n) => offset' = 0]_vars
=============================================================================
