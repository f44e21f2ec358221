-------------------------------- MODULE Boxes -------------------------------
(***************************************************************************)
(* Box layouts (phoenix/core/layout/{horizontal,vertical}-layout.cpp): the *)
(* least size of a layout and the places its children get in a container.  *)
(* The two files do the same along different axes: sizes here are along    *)
(* the axis of the layout and across it.  All sizes are unsigned.          *)
(*                                                                         *)
(* A child that is a layout passes its place on to its own children, and   *)
(* minimumSize asks them for theirs: what holds of one layout in a         *)
(* container of its least size or more holds of all below it.              *)
(***************************************************************************)
EXTENDS Integers, Sequences

CONSTANTS
    Kids,       \* the children there are: their size along and across, their
                \* minimumSize along and across, the spacing after them
    MaxKids,    \* the most children of a layout
    Margins, Alignments,    \* alignments in halves
    Rooms,      \* the containers: their size along and across
    Largest,    \* of the sizes, spacings and margins but Maximum
    Modulus     \* 2^32

Minimum == 0                    \* Size::Minimum
Maximum == Modulus - 1          \* Size::Maximum

ASSUME BoxAssumption ==
    /\ MaxKids \in Nat /\ Margins \subseteq Nat /\ Alignments \subseteq 0..2
    /\ Modulus \in Nat \ {0} /\ Modulus % 2 = 0

\* No sum of sizes overflows, and no room is a negative number when it is read as a
\* signed one.  A child may need nothing at all, as a plain widget does.
Sizes == 0..Largest \union {Maximum}
ASSUME SizesAssumption ==
    /\ Largest \in Nat /\ 2 * Largest * (MaxKids + 1) < Modulus
    /\ Margins \subseteq 0..Largest
    /\ Kids \subseteq [along : Sizes, across : Sizes, leastAlong : 0..Largest,
                       leastAcross : 0..Largest, spacing : 0..Largest]
    /\ Rooms \subseteq [along : 0..Modulus \div 2 - 1, across : 0..Modulus \div 2 - 1]

VARIABLES
    children,   \* of the layout
    margin, alignment,
    room,       \* the container it was last laid out in
    places      \* the geometry each child then got: <<>> before that

boxVars == <<children, margin, alignment, room, places>>

BoxInit ==
    /\ children \in UNION {[1..n -> Kids] : n \in 0..MaxKids}
    /\ margin \in Margins /\ alignment \in Alignments
    /\ room = [along |-> 0, across |-> 0] /\ places = <<>>

-----------------------------------------------------------------------------
\* Unsigned results, and a size as a signed number of at least one.
Unsigned(n) == n % Modulus
AtLeastOne(n) == IF n = 0 \/ n >= Modulus \div 2 THEN 1 ELSE n

\* The sum of the first n of f, and the greatest of them.
Total(f, n) ==
    LET Sum[i \in 0..n] == IF i = 0 THEN 0 ELSE Sum[i - 1] + f[i]
    IN  Sum[n]
Greatest(f, n) ==
    LET Most[i \in 0..n] == IF i = 0 THEN 0 ELSE IF Most[i - 1] < f[i] THEN f[i] ELSE Most[i - 1]
    IN  Most[n]

Count == Len(children)

\* The least a child takes of the container, by itself.
Need(size, least) == IF size \in {Minimum, Maximum} THEN least ELSE size
NeedAlong == [i \in DOMAIN children |-> Need(children[i].along, children[i].leastAlong)]
NeedAcross == [i \in DOMAIN children |-> Need(children[i].across, children[i].leastAcross)]

\* Mutant of MinimumSize: the spacing does not count.
MinimumSizeTight ==
    [along |-> Unsigned(2 * margin + Total(NeedAlong, Count)),
     across |-> Unsigned(2 * margin + Greatest(NeedAcross, Count))]

\* Along the axis each child comes with the spacing after it.
Spaced(f) == [i \in DOMAIN children |-> f[i] + children[i].spacing]
MinimumSize ==
    [along |-> Unsigned(2 * margin + Total(Spaced(NeedAlong), Count)),
     across |-> Unsigned(2 * margin + Greatest(NeedAcross, Count))]

\* The size setGeometry makes of one, where the largest get rest.
Sized(size, least, rest) == IF size = Minimum THEN least ELSE IF size = Maximum THEN rest ELSE size

\* Those of least size get it, the largest ones have equal shares of what is left along,
\* and all of it across.
Along(rest) == [i \in DOMAIN children |-> Sized(children[i].along, children[i].leastAlong, rest)]
Across(rest) == [i \in DOMAIN children |-> Sized(children[i].across, children[i].leastAcross, rest)]
Maxima == [i \in DOMAIN children |-> IF children[i].along = Maximum THEN 1 ELSE 0]
Share(along) == Unsigned(along - Total(Spaced(Along(0)), Count)) \div Total(Maxima, Count)

\* The place of each child: one after the other, aligned across with the largest of them.
Laid(container) ==
    LET along == Along(Share(Unsigned(container.along - 2 * margin)))
        across == Across(Unsigned(container.across - 2 * margin))
    IN  [i \in DOMAIN children |->
           [at |-> margin + Total(Spaced(along), i - 1), along |-> AtLeastOne(along[i]),
            off |-> margin + (Unsigned(Greatest(across, Count) - across[i]) * alignment) \div 2,
            across |-> AtLeastOne(across[i])]]

LayOut(container) ==
    /\ room' = container /\ places' = Laid(container)
    /\ UNCHANGED <<children, margin, alignment>>

BoxNext == \E container \in Rooms : LayOut(container)

BoxSpec == BoxInit /\ [][BoxNext]_boxVars

-----------------------------------------------------------------------------
Fits == room.along >= MinimumSize.along /\ room.across >= MinimumSize.across
Several == Total(Maxima, Count) > 1

\* What is left along for those of the largest size; and a child that gets nothing: it needs
\* nothing, or what is left is no pixel for each.  It is one pixel wide all the same.
Spare == room.along - 2 * margin - Total(Spaced(Along(0)), Count)
BareAlong(i) == IF children[i].along = Maximum THEN Spare < Total(Maxima, Count)
                                               ELSE NeedAlong[i] = 0
BareAcross(i) == IF children[i].across = Maximum THEN room.across = 2 * margin
                                                 ELSE NeedAcross[i] = 0

\* What a child takes, that pixel apart.
SpanAlong(i) == places[i].along - IF BareAlong(i) THEN 1 ELSE 0
SpanAcross(i) == places[i].across - IF BareAcross(i) THEN 1 ELSE 0
EndAlong(i) == places[i].at + SpanAlong(i) + children[i].spacing

\* In a container of the layout's least size or more the children lie inside of the margin,
\* each with its spacing before the next one, but for the pixel of those that get nothing;
\* one of the largest size reaches the end; and each gets at least what it needs, so that a
\* layout among them is in a container of its least size too - but along the axis if
\* several share what is left, which is shared evenly and not by need.
LaidOut ==
    places # <<>> /\ Fits =>
      \A i \in DOMAIN places :
        LET p == places[i]
        IN  /\ p.at >= margin /\ EndAlong(i) <= room.along - margin
            /\ p.off >= margin /\ p.off + SpanAcross(i) <= room.across - margin
            /\ i < Len(places) => EndAlong(i) <= places[i + 1].at
            /\ p.across >= NeedAcross[i]
            /\ ~Several => /\ p.along >= NeedAlong[i]
                           /\ children[i].along = Maximum =>
                                EndAlong(Len(places)) = room.along - margin
=============================================================================
