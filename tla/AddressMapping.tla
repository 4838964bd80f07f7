--------------------------- MODULE AddressMapping ---------------------------
(***************************************************************************)
(* Extents and slices of addresses (inc/extent.h, inc/address.h), and      *)
(* DRAM_ADDRESS_MAPPING (src/dram_controller.cc) over them: which channel, *)
(* rank, bank group, bank, row and column an address is.                   *)
(* An extent is the bits from lower up to, not including, upper; a slice   *)
(* is an extent with the number its bits hold.  Sizes are powers of two    *)
(* and given by their logarithms, as make_slicer takes them.               *)
(***************************************************************************)
EXTENDS Integers, Sequences, SequencesExt, Bitwise

CONSTANT AddressBits       \* 64 in the code

ASSUME AddressAssumption == AddressBits \in Nat \ {0}

Extent(low, sz) == [upper |-> low + sz, lower |-> low]
size(ext) == ext.upper - ext.lower
Full == Extent(0, AddressBits)

Lesser(a, b) == IF a <= b THEN a ELSE b
Larger(a, b) == IF a <= b THEN b ELSE a

\* value & bitmask(n), value >> n
Low(value, n) == value % (2 ^ n)
Shift(value, n) == value \div (2 ^ n)

\* The bits of a subextent that reach past the superextent are cut off.
relative_extent(super, sub) ==
    [upper |-> super.lower + Lesser(sub.upper, size(super)),
     lower |-> super.lower + Lesser(sub.lower, size(super))]

extent_union(a, b) == [upper |-> Larger(a.upper, b.upper), lower |-> Lesser(a.lower, b.lower)]

\* The slice with that extent of a number, and of another slice.
Slice(ext, value) == [extent |-> ext, value |-> Low(value, size(ext))]

address_slice(ext, s) ==
    Slice(ext, Shift(Low(s.value * 2 ^ s.extent.lower, AddressBits), ext.lower))

slice(s, sub) == Slice(relative_extent(s.extent, sub), Shift(s.value, sub.lower))
slice_upper(s, low) == slice(s, [upper |-> AddressBits, lower |-> low])
slice_lower(s, up) == slice(s, [upper |-> up, lower |-> 0])

\* Arithmetic is modulo the width of the slice, in units of its lowest bit.
Plus(s, delta) == Slice(s.extent, s.value + delta)

\* offset of two slices of one extent; the code throws where the difference does
\* not fit, which fewer than 64 bits always do.
offset(base, other) == other.value - base.value

\* The bits of b replace those of a.
Spliced(a, b) ==
    LET ext == extent_union(a.extent, b.extent)
        x == a.value * 2 ^ (a.extent.lower - ext.lower)
        y == b.value * 2 ^ (b.extent.lower - ext.lower)
        up == b.extent.upper - ext.lower
    IN  Slice(ext, Shift(x, up) * 2 ^ up + y + Low(x, b.extent.lower - ext.lower))

splice(slices) == FoldLeft(Spliced, Head(slices), Tail(slices))

\* Fields of the given sizes next to each other; the first size is where the first
\* field begins.
make_contiguous_extent_set(sizes) ==
    LET lowers == FoldLeft(LAMBDA sums, sz : Append(sums, sums[Len(sums)] + sz),
                           <<Head(sizes)>>, Tail(sizes))
    IN  [i \in 1 .. Len(sizes) - 1 |-> [upper |-> lowers[i + 1], lower |-> lowers[i]]]

-----------------------------------------------------------------------------
Fields == <<"offset", "channel", "bankgroup", "bank", "column", "rank", "row">>

\* The extent of each field: they follow each other from the lowest bit.
make_slicer(bits) ==
    LET extents == make_contiguous_extent_set(<<0>> \o [i \in DOMAIN Fields |-> bits[Fields[i]]])
    IN  [f \in ToSet(Fields) |-> extents[CHOOSE i \in DOMAIN Fields : Fields[i] = f]]

Field(slicer, f, addr) == address_slice(slicer[f], addr)

\* swizzle_bits: field xor the same part of every segment of the row.  The loop ends
\* by the row's place in the address, so its last segments can lie past the row:
\* they are empty.  The segment must have bits, or the loop would not end.
swizzle_bits(slicer, addr, segment_size, segment_offset, field, field_bits) ==
    LET row == Field(slicer, "row", addr)
        segments == row.extent.upper \div segment_size
        Part(i) == slice(slice(row, Extent((i - 1) * segment_size, segment_size)),
                         Extent(segment_offset, field_bits)).value
    IN  FoldLeft(LAMBDA permuted, i : permuted ^^ Part(i), field, [i \in 1 .. segments |-> i])

get_channel(slicer, addr) ==
    swizzle_bits(slicer, addr, 1, 0, Field(slicer, "channel", addr).value,
                 size(slicer["channel"]))

\* Bank group and bank take turns in segments as wide as both.
BankBits(slicer) == size(slicer["bankgroup"]) + size(slicer["bank"])

get_bankgroup(slicer, addr) ==
    swizzle_bits(slicer, addr, BankBits(slicer), 0, Field(slicer, "bankgroup", addr).value,
                 size(slicer["bankgroup"]))

get_bank(slicer, addr) ==
    swizzle_bits(slicer, addr, BankBits(slicer), size(slicer["bankgroup"]),
                 Field(slicer, "bank", addr).value, size(slicer["bank"]))

get_rank(slicer, addr) == Field(slicer, "rank", addr).value
get_row(slicer, addr) == Field(slicer, "row", addr).value
get_column(slicer, addr) == Field(slicer, "column", addr).value

\* Where in the controller's memory an address is.
Location(slicer, addr) ==
    [channel |-> get_channel(slicer, addr), rank |-> get_rank(slicer, addr),
     bankgroup |-> get_bankgroup(slicer, addr), bank |-> get_bank(slicer, addr),
     row |-> get_row(slicer, addr), column |-> get_column(slicer, addr)]

is_collision(slicer, a, b) ==
    LET bits == size(slicer["offset"])
    IN  slice_upper(a, bits).value = slice_upper(b, bits).value

\* The banks of a channel are numbered through the groups and ranks.
bankgroup_request_index(slicer, addr) ==
    get_rank(slicer, addr) * 2 ^ size(slicer["bankgroup"]) + get_bankgroup(slicer, addr)

bank_request_index(slicer, addr) ==
    bankgroup_request_index(slicer, addr) * 2 ^ size(slicer["bank"]) + get_bank(slicer, addr)
=============================================================================
