------------------------------ MODULE ByteFile ------------------------------
(***************************************************************************)
(* What nall/file.hpp promises: a file is a string of bytes with one       *)
(* position in it, and there is no buffer to be seen.                      *)
(***************************************************************************)
EXTENDS Integers

CONSTANTS
    Bytes,
    Zero,       \* the byte 0x00
    End,        \* what a read that is not allowed or not possible returns
    MaxSize,    \* the largest size clients write or seek to
    Modes       \* the modes of an open file

VARIABLES
    content,    \* the bytes of the file, from 0
    size,       \* how many they are
    offset,     \* the position
    mode,       \* a mode, or "closed"
    got         \* what the last read returned

vars == <<content, size, offset, mode, got>>

Init ==
    /\ size \in 0 .. MaxSize
    /\ content \in [0 .. size - 1 -> Bytes]
    /\ offset = 0
    /\ mode = "closed"
    /\ got = End

Open(m) ==
    /\ mode = "closed"
    /\ mode' = m
    /\ offset' = 0
    /\ IF m \in {"write", "append"} THEN size' = 0 /\ content' = [i \in 0 .. -1 |-> Zero]
                                    ELSE UNCHANGED <<size, content>>
    /\ UNCHANGED got

Read ==
    /\ IF mode \notin {"closed", "write"} /\ offset < size
       THEN got' = content[offset] /\ offset' = offset + 1
       ELSE got' = End /\ UNCHANGED offset
    /\ UNCHANGED <<content, size, mode>>

\* A byte written goes over the one at the position, or behind the last.
Write(b) ==
    /\ mode \notin {"closed", "read"} /\ offset < MaxSize
    /\ size' = IF offset = size THEN size + 1 ELSE size
    /\ content' = [i \in 0 .. size' - 1 |-> IF i = offset THEN b ELSE content[i]]
    /\ offset' = offset + 1
    /\ UNCHANGED <<mode, got>>

\* Seeking past the end stops there, or grows a file that may be written;
\* where in the file a seek to before the start ends is left open.
Seek(n) ==
    /\ mode # "closed"
    /\ \/ /\ n <= size \/ mode = "read"
          /\ IF n < 0 THEN offset' \in 0 .. size ELSE offset' = IF n <= size THEN n ELSE size
          /\ UNCHANGED <<content, size>>
       \/ /\ n > size /\ mode # "read"
          /\ offset' = n /\ size' = n
          /\ content' = [i \in 0 .. n - 1 |-> IF i < size THEN content[i] ELSE Zero]
    /\ UNCHANGED <<mode, got>>

\* The file is cut, or filled up with zeros; the position stays.
Truncate(n) ==
    /\ mode \notin {"closed", "read"}
    /\ size' = n
    /\ content' = [i \in 0 .. n - 1 |-> IF i < size THEN content[i] ELSE Zero]
    /\ UNCHANGED <<offset, mode, got>>

Close ==
    /\ mode # "closed"
    /\ mode' = "closed"
    /\ UNCHANGED <<content, size, offset, got>>

Next ==
    \/ \E m \in Modes : Open(m)
    \/ Read \/ Close
    \/ \E b \in Bytes : Write(b)
    \/ \E n \in -1 .. MaxSize : Seek(n)
    \/ \E n \in 0 .. MaxSize : Truncate(n)

Spec == Init /\ [][Next]_vars
=============================================================================
