-------------------------- MODULE MCPageTableWalker --------------------------
(***************************************************************************)
(* Three levels; two pages that part at the second, where their entries    *)
(* are in one block.                                                       *)
(***************************************************************************)
EXTENDS PageTableWalker

MCWalkPages == {<<1, 1, 1>>, <<1, 2, 1>>}
MCBlockOf == [offset \in Offset |-> 1]
=============================================================================
