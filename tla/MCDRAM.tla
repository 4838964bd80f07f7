------------------------------- MODULE MCDRAM -------------------------------
(***************************************************************************)
(* A channel with one group of two banks.  Lines are addresses of a small  *)
(* memory: an offset bit, a bank bit and a row bit.                        *)
(***************************************************************************)
EXTENDS DRAM, AddressMapping

CONSTANT u1

MCBankOf == [l \in Line |-> IF l = 4 THEN 2 ELSE 1]
MCRowOf == [l \in Line |-> IF l = 4 THEN 1 ELSE 0]
MCGroupOf == <<1, 1>>

MCSlicer == make_slicer([offset |-> 1, channel |-> 0, bankgroup |-> 0, bank |-> 1,
                         column |-> 0, rank |-> 0, row |-> 1])

\* The functions are those of the mapping, which TLC would compute at every use.
ASSUME LinesAreMapped ==
    \A l \in Line :
        LET a == Slice(Full, l)
        IN  /\ MCBankOf[l] = bank_request_index(MCSlicer, a) + 1
            /\ MCGroupOf[MCBankOf[l]] = bankgroup_request_index(MCSlicer, a) + 1
            /\ MCRowOf[l] = get_row(MCSlicer, a)

-----------------------------------------------------------------------------
(* The arithmetic the code takes for granted, over every address of small   *)
(* memories and every slice of a narrow address.                            *)

Addresses(bits) == {Slice(Extent(0, bits), n) : n \in 0 .. 2 ^ bits - 1}

Memories == [offset : {1}, channel : 0 .. 2, bankgroup : 0 .. 1, bank : 1 .. 2,
             column : {1}, rank : {1}, row : 0 .. 3]

\* Swizzling loses no memory: two addresses are in the same place just when they
\* collide, so that a bank's open row and the collision checks speak of one line.
ASSUME PlacesAreBlocks ==
    \A bits \in Memories :
        LET slicer == make_slicer(bits)
            blocks == {a \in Addresses(slicer["row"].upper) :
                          slice_lower(a, bits["offset"]).value = 0}
        IN  Cardinality({Location(slicer, a) : a \in blocks}) = Cardinality(blocks)

ASSUME CollidingIsSamePlace ==
    \A a, b \in Addresses(3) :
        is_collision(MCSlicer, a, b) <=> Location(MCSlicer, a) = Location(MCSlicer, b)

\* Splitting an address and splicing the parts gives it back, in either order; the
\* parts of a part are the part of the address; the offset of two slices is what
\* leads from one to the other, around the end if need be.
ASSUME SlicesAgree ==
    \A a \in Addresses(4), k, n \in 0 .. 4 :
        /\ splice(<<slice_upper(a, k), slice_lower(a, k)>>) = a
        /\ splice(<<slice_lower(a, k), slice_upper(a, k)>>) = a
        /\ slice(slice_upper(a, k), Extent(0, n)) = slice(a, [upper |-> Lesser(k + n, 4),
                                                             lower |-> k])
        /\ \A b \in Addresses(4) :
              LET x == slice_upper(a, k)
                  y == slice_upper(b, k)
              IN  Plus(x, offset(x, y)) = y
=============================================================================
