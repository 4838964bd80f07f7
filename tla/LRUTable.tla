------------------------------- MODULE LRUTable -------------------------------
(***************************************************************************)
(* What one set of msl/lru_table.h promises: at most NUM_WAY entries, each *)
(* with a tag of its own, from the least to the most recently used.        *)
(* LRUBlocks has the same set as the code keeps it.  ways is passed, since *)
(* the tables of the program have different sizes.                         *)
(***************************************************************************)
EXTENDS SequencesExt, Naturals

Tags(table) == {table[i].tag : i \in DOMAIN table}

\* The entry of tag, and the table without it.
PlaceOf(table, tag) == CHOOSE i \in DOMAIN table : table[i].tag = tag

EntryOf(table, tag) == table[PlaceOf(table, tag)]

Without(table, tag) ==
    IF tag \in Tags(table) THEN RemoveAt(table, PlaceOf(table, tag)) ELSE table

\* A hit is used; a miss changes nothing.
check_hit(table, tag) ==
    IF tag \in Tags(table) THEN Append(Without(table, tag), EntryOf(table, tag)) ELSE table

\* An entry replaces the one of its tag, or the least recently used of a full set.
fill(table, ways, entry) ==
    LET others == Without(table, entry.tag)
    IN  IF ways = 0 THEN table
        ELSE Append(IF Len(others) = ways THEN Tail(others) ELSE others, entry)

invalidate(table, tag) == Without(table, tag)
===============================================================================
