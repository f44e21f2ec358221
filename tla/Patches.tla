------------------------------- MODULE Patches ------------------------------
(***************************************************************************)
(* nall's binary patches: ups (nall/ups.hpp) and bps, of which there are   *)
(* two ways to create it (nall/beat/linear.hpp, nall/beat/delta.hpp) and   *)
(* one to apply it (nall/beat/patch.hpp).  A step is one round of a loop.  *)
(* The signature, the metadata and the sum of the patch itself are left    *)
(* out, and so are the sums of both sides that end the patch: a checksum   *)
(* stands for what it is the sum of.  Offsets count from 0.                *)
(***************************************************************************)
EXTENDS Integers, Sequences, FiniteSetsExt

CONSTANTS
    Base,       \* a byte is less than 2 * Base: 128 in the code
    Worth,      \* the shortest run that gets a command of its own: 4 in the code
    PatchWord,  \* the numbers that lengths and offsets are kept in: 2^32
    Sources,    \* the data patched
    Targets     \* what they are to become

ASSUME PatchAssumption ==
    /\ Base \in Nat \ {0} /\ Worth \in Nat \ {0} /\ PatchWord \in Nat \ {0}
    /\ Sources \subseteq Seq(0..2 * Base - 1) /\ Targets \subseteq Seq(0..2 * Base - 1)
    \* Longer data than this is lost in the shifts of Command, Offset and Linear.
    /\ \A x \in Sources \union Targets : 4 * Len(x) + 2 < PatchWord

VARIABLES
    way,        \* "ups", "linear" or "delta"
    source, product,    \* the two files
    phase,      \* whether the patch is being made, is made, is applied, or all is done
    body,       \* the patch, as far as it is made
    outputOffset,       \* how far the product has been looked at
    relative,   \* how far the patch accounts for it: relative of ups::create,
                \* outputOffset - targetReadLength of the others
    starts,     \* targetTree: where commands and single bytes began
    inside,     \* whether ups is between a difference and the next agreement
    sourceRelative, targetRelative,     \* where the last copy of each kind ended
    back,       \* whether the patch is applied to the product
    patchOffset,        \* how far the patch is read
    output,     \* what has been written
    action, left,       \* the command that is carried out, and its bytes still to write
    outcome     \* what applying it gave

filesVars == <<way, source, product>>
makerVars == <<body, outputOffset, relative, starts>>
readerVars == <<back, patchOffset, output, action, left, outcome>>
patchVars == <<filesVars, phase, makerVars, inside, sourceRelative, targetRelative, readerVars>>

NoOutcome == [result |-> "unknown"]

\* Byte i of x; past its end there are zeros.
At(x, i) == IF i < Len(x) THEN x[i + 1] ELSE 0

-----------------------------------------------------------------------------
\* The exclusive or, from the lowest bit up.
Xor[a \in Nat] == [b \in Nat |-> IF a = 0 THEN b ELSE ((a + b) % 2) + 2 * Xor[a \div 2][b \div 2]]

\* encode: digits to the base, the least first, the last one marked; what is
\* left after a digit is one less, so that no number has two encodings.
Encode[n \in Nat] ==
    IF n < Base THEN <<Base + n>> ELSE <<n % Base>> \o Encode[n \div Base - 1]

\* decode, from byte i of x on: the number, and where it ends.
Decode(x) ==
    LET decode[i \in Nat] ==
            LET d == At(x, i)
            IN  IF d >= Base \/ i >= Len(x) THEN [number |-> d % Base, next |-> i + 1]
                ELSE [number |-> d + Base * (1 + decode[i + 1].number), next |-> decode[i + 1].next]
    IN  decode

\* Mutant of Unsigned: the sign is not looked at.
UnsignedSize(n) == n \div 2

\* A signed offset: its size, and its sign in the lowest bit.
Signed(d) == IF d < 0 THEN 2 * (-d) + 1 ELSE 2 * d
Unsigned(n) == IF n % 2 = 1 THEN -(n \div 2) ELSE n \div 2

\* What an unsigned keeps of a number, and what a signed makes of that.
Narrow(n) == n % PatchWord
AsSigned(n) == IF 2 * Narrow(n) < PatchWord THEN Narrow(n) ELSE Narrow(n) - PatchWord

-----------------------------------------------------------------------------
SourceRead == 0
TargetRead == 1
SourceCopy == 2
TargetCopy == 3
Command(mode, n) == Encode[Narrow(mode + 4 * (n - 1))]
Offset(d) == Encode[Narrow(Signed(d))]

\* What the patch begins with: the sizes of both sides and, in bps, of the metadata.
Header ==
    Encode[Len(source)] \o Encode[Len(product)] \o (IF way = "ups" THEN <<>> ELSE Encode[0])

PatchInit ==
    /\ way \in {"ups", "linear", "delta"}
    /\ source \in Sources /\ product \in Targets
    /\ phase = "create"
    /\ body = Header
    /\ outputOffset = 0 /\ relative = 0 /\ starts = {}
    /\ inside = FALSE /\ sourceRelative = 0 /\ targetRelative = 0
    /\ back = FALSE /\ patchOffset = 0 /\ output = <<>> /\ action = SourceRead /\ left = 0
    /\ outcome = NoOutcome

-----------------------------------------------------------------------------
Longer == IF Len(source) > Len(product) THEN Len(source) ELSE Len(product)
Agree(i) == At(source, i) = At(product, i)
Change(i) == Xor[At(source, i)][At(product, i)]

\* ups::create: past a byte that is the same on both sides.
UpsSame ==
    /\ phase = "create" /\ way = "ups" /\ ~inside
    /\ outputOffset < Longer /\ Agree(outputOffset)
    /\ outputOffset' = outputOffset + 1
    /\ UNCHANGED <<filesVars, phase, body, relative, starts, inside, sourceRelative, targetRelative, readerVars>>

\* How far it was to a difference, and that one.
UpsDiffer ==
    /\ phase = "create" /\ way = "ups" /\ ~inside
    /\ outputOffset < Longer /\ ~Agree(outputOffset)
    /\ body' = body \o Encode[outputOffset - relative] \o <<Change(outputOffset)>>
    /\ outputOffset' = outputOffset + 1
    /\ inside' = TRUE
    /\ UNCHANGED <<filesVars, phase, relative, starts, sourceRelative, targetRelative, readerVars>>

\* The differences up to where both sides agree again, that place included; at
\* the end a zero stands for it.
UpsChange ==
    /\ phase = "create" /\ way = "ups" /\ inside
    /\ IF outputOffset < Longer
       THEN /\ body' = Append(body, Change(outputOffset))
            /\ outputOffset' = outputOffset + 1
            /\ inside' = ~Agree(outputOffset)
       ELSE /\ body' = Append(body, 0)
            /\ outputOffset' = outputOffset
            /\ inside' = FALSE
    /\ relative' = IF inside' THEN relative ELSE outputOffset'
    /\ UNCHANGED <<filesVars, phase, starts, sourceRelative, targetRelative, readerVars>>

UpsMade ==
    /\ phase = "create" /\ way = "ups" /\ ~inside /\ outputOffset >= Longer
    /\ phase' = "made"
    /\ UNCHANGED <<filesVars, makerVars, inside, sourceRelative, targetRelative, readerVars>>

-----------------------------------------------------------------------------
\* How many bytes of x from i on are those of y from j on.
Common(x, i, y, j) ==
    Max({0} \union {n \in 1..Len(y) - j :
                        i + n <= Len(x) /\ \A k \in 0..n - 1 : At(x, i + k) = At(y, j + k)})

\* targetReadFlush: the bytes before o that the patch does not have, as they are.
TargetReadFlush(o) ==
    IF o = relative THEN <<>>
    ELSE Command(TargetRead, o - relative) \o SubSeq(product, relative + 1, o)

\* A command, after the bytes before o, for the product up to o + n.
Emit(o, command, n) ==
    /\ body' = body \o TargetReadFlush(o) \o command
    /\ outputOffset' = o + n /\ relative' = o + n

\* A byte that waits to be flushed with those after it.
Wait ==
    /\ outputOffset' = outputOffset + 1
    /\ UNCHANGED <<body, relative, sourceRelative, targetRelative>>

\* bpslinear::create: runs of one byte come first, then what is in the same
\* place of the source.
Linear ==
    LET o == outputOffset
        same == Common(source, o, product, o)
        run == Common(product, o + 1, product, o)
    IN  /\ phase = "create" /\ way = "linear" /\ o < Len(product)
        /\ \/ /\ run >= Worth
              /\ Emit(o + 1, Command(TargetCopy, run) \o Encode[Narrow(2 * (o - targetRelative))], run)
              /\ targetRelative' = o + run
              /\ UNCHANGED sourceRelative
           \/ /\ run < Worth /\ same >= Worth
              /\ Emit(o, Command(SourceRead, same), same)
              /\ UNCHANGED <<sourceRelative, targetRelative>>
           \/ /\ run < Worth /\ same < Worth
              /\ Wait
        /\ UNCHANGED <<filesVars, phase, starts, inside, readerVars>>

\* Two bytes of x from i on; the trees of offsets are indexed by them.
Symbol(x, i) == <<At(x, i), At(x, i + 1)>>

\* The longest of the matches of the product at o with x at one of the places;
\* the last place if there are several.
Best(x, places, o) ==
    LET n == Max({0} \union {Common(x, i, product, o) : i \in places})
    IN  [length |-> n, at |-> Max({0} \union {i \in places : Common(x, i, product, o) = n})]

\* bpsdelta::create: what is in the same place of the source, then copies from
\* anywhere in the source, then copies from where the product was looked at.
Delta ==
    LET o == outputOffset
        read == Common(source, o, product, o)
        old == Best(source, {i \in 0..Len(source) - 1 : Symbol(source, i) = Symbol(product, o)}, o)
        new == Best(product, {i \in starts : Symbol(product, i) = Symbol(product, o)}, o)
        n == Max({read, old.length, new.length})
    IN  /\ phase = "create" /\ way = "delta" /\ o < Len(product)
        /\ starts' = starts \union {o}
        /\ \/ /\ n >= Worth /\ read = n
              /\ Emit(o, Command(SourceRead, n), n)
              /\ UNCHANGED <<sourceRelative, targetRelative>>
           \/ /\ n >= Worth /\ read < n /\ old.length = n
              /\ Emit(o, Command(SourceCopy, n) \o Offset(old.at - sourceRelative), n)
              /\ sourceRelative' = old.at + n
              /\ UNCHANGED targetRelative
           \/ /\ n >= Worth /\ read < n /\ old.length < n
              /\ Emit(o, Command(TargetCopy, n) \o Offset(new.at - targetRelative), n)
              /\ targetRelative' = new.at + n
              /\ UNCHANGED sourceRelative
           \/ n < Worth /\ Wait
        /\ UNCHANGED <<filesVars, phase, inside, readerVars>>

BpsMade ==
    /\ phase = "create" /\ way # "ups" /\ outputOffset >= Len(product)
    /\ body' = body \o TargetReadFlush(outputOffset) /\ relative' = outputOffset
    /\ phase' = "made"
    /\ UNCHANGED <<filesVars, outputOffset, starts, inside, sourceRelative, targetRelative, readerVars>>

-----------------------------------------------------------------------------
\* The header, read again.
SourceSize == Decode(body)[0]
ProductSize == Decode(body)[SourceSize.next]
MarkupSize == Decode(body)[ProductSize.next]

\* What the patch is applied to, and what is asked for.
Side(b) == IF b THEN product ELSE source
Given == Side(back)
Wanted == Side(~back)

\* The sizes do not fit.
Refused(x) ==
    IF way = "ups" THEN Len(x) \notin {SourceSize.number, ProductSize.number}
    ELSE SourceSize.number > Len(x)

\* The patch is applied to the source or, if it is a ups one, to the product.
Apply(b) ==
    /\ phase = "made"
    /\ b => way = "ups"
    /\ back' = b
    /\ IF Refused(Side(b))
       THEN /\ phase' = "done"
            /\ outcome' = [result |-> IF way = "ups" THEN "source_invalid" ELSE "source_too_small"]
       ELSE phase' = "apply" /\ outcome' = outcome
    /\ patchOffset' = IF way = "ups" THEN ProductSize.next ELSE MarkupSize.next + MarkupSize.number
    /\ inside' = FALSE /\ sourceRelative' = 0 /\ targetRelative' = 0
    /\ UNCHANGED <<filesVars, makerVars, output, action, left>>

\* ups::apply: as many bytes as are the same on both sides.
UpsSkip ==
    LET skip == Decode(body)[patchOffset]
    IN  /\ phase = "apply" /\ way = "ups" /\ ~inside /\ patchOffset < Len(body)
        /\ output' = output \o [k \in 1..skip.number |-> At(Given, Len(output) + k - 1)]
        /\ patchOffset' = skip.next
        /\ inside' = TRUE
        /\ UNCHANGED <<filesVars, phase, makerVars, sourceRelative, targetRelative, back, action, left, outcome>>

\* Then changed bytes, up to one that is not.
UpsXor ==
    LET d == At(body, patchOffset)
    IN  /\ phase = "apply" /\ way = "ups" /\ inside
        /\ output' = Append(output, Xor[d][At(Given, Len(output))])
        /\ patchOffset' = patchOffset + 1
        /\ inside' = (d # 0)
        /\ UNCHANGED <<filesVars, phase, makerVars, sourceRelative, targetRelative, back, action, left, outcome>>

\* At last the rest is copied; what is written past the size asked for is dropped.
UpsApplied ==
    LET from == SourceSize.number
        to == ProductSize.number
        n == IF Len(Given) = from THEN to ELSE from
        y == [k \in 1..n |-> IF k <= Len(output) THEN output[k] ELSE At(Given, k - 1)]
        forth == Given = source /\ Len(Given) = from
        home == ~forth /\ Given = product /\ Len(Given) = to
    IN  /\ phase = "apply" /\ way = "ups" /\ ~inside /\ patchOffset >= Len(body)
        /\ phase' = "done"
        /\ outcome' = [result |-> IF ~forth /\ ~home THEN "source_invalid"
                                  ELSE IF \/ forth /\ y = product /\ n = to
                                          \/ home /\ y = source /\ n = from
                                  THEN "success" ELSE "target_invalid",
                       output |-> y]
        /\ UNCHANGED <<filesVars, makerVars, inside, sourceRelative, targetRelative,
                       back, patchOffset, output, action, left>>

-----------------------------------------------------------------------------
\* bpspatch::apply: the next command, with the offset that a copy has.
BpsCommand ==
    LET code == Decode(body)[patchOffset]
        mode == Narrow(code.number) % 4
        offset == Decode(body)[code.next]
        distance == Unsigned(AsSigned(offset.number))
    IN  /\ phase = "apply" /\ way # "ups" /\ left = 0 /\ patchOffset < Len(body)
        /\ action' = mode /\ left' = Narrow(code.number) \div 4 + 1
        /\ \/ /\ mode \in {SourceRead, TargetRead}
              /\ patchOffset' = code.next
              /\ UNCHANGED <<sourceRelative, targetRelative>>
           \/ /\ mode = SourceCopy
              /\ patchOffset' = offset.next
              /\ sourceRelative' = sourceRelative + distance
              /\ UNCHANGED targetRelative
           \/ /\ mode = TargetCopy
              /\ patchOffset' = offset.next
              /\ targetRelative' = targetRelative + distance
              /\ UNCHANGED sourceRelative
        /\ UNCHANGED <<filesVars, phase, makerVars, inside, back, output, outcome>>

\* The next byte of a command.  A copy from the output may be of bytes it wrote itself.
BpsByte ==
    /\ phase = "apply" /\ way # "ups" /\ left > 0
    /\ left' = left - 1
    /\ \/ /\ action = SourceRead
          /\ output' = Append(output, At(source, Len(output)))
          /\ UNCHANGED <<patchOffset, sourceRelative, targetRelative>>
       \/ /\ action = TargetRead
          /\ output' = Append(output, At(body, patchOffset))
          /\ patchOffset' = patchOffset + 1
          /\ UNCHANGED <<sourceRelative, targetRelative>>
       \/ /\ action = SourceCopy
          /\ output' = Append(output, At(source, sourceRelative))
          /\ sourceRelative' = sourceRelative + 1
          /\ UNCHANGED <<patchOffset, targetRelative>>
       \/ /\ action = TargetCopy
          /\ output' = Append(output, At(output, targetRelative))
          /\ targetRelative' = targetRelative + 1
          /\ UNCHANGED <<patchOffset, sourceRelative>>
    /\ UNCHANGED <<filesVars, phase, makerVars, inside, back, action, outcome>>

\* The sums of both sides are compared; there was room for the product.
BpsApplied ==
    /\ phase = "apply" /\ way # "ups" /\ left = 0 /\ patchOffset >= Len(body)
    /\ phase' = "done"
    /\ outcome' = IF SubSeq(source, 1, SourceSize.number) # source
                  THEN [result |-> "source_checksum_invalid"]
                  ELSE IF output # product THEN [result |-> "target_checksum_invalid"]
                  ELSE [result |-> "success", output |-> output]
    /\ UNCHANGED <<filesVars, makerVars, inside, sourceRelative, targetRelative,
                   back, patchOffset, output, action, left>>

-----------------------------------------------------------------------------
Create == UpsSame \/ UpsDiffer \/ UpsChange \/ UpsMade \/ Linear \/ Delta \/ BpsMade
Applying == UpsSkip \/ UpsXor \/ UpsApplied \/ BpsCommand \/ BpsByte \/ BpsApplied

PatchNext == Create \/ (\E b \in BOOLEAN : Apply(b)) \/ Applying

PatchSpec == PatchInit /\ [][PatchNext]_patchVars

-----------------------------------------------------------------------------
\* A patch made of any two data whose lengths are less than a quarter of
\* PatchWord, in any of the three ways, turns the one into the other; an ups
\* patch also turns it back.
RoundTrip ==
    outcome # NoOutcome => outcome = [result |-> "success", output |-> Wanted]
=============================================================================
