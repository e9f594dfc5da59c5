------------------------------- MODULE MCMprv --------------------------------
(* Mmu in machine mode with MPRV set: fetches are by physical address, loads *)
(* and stores through the page tables.                                       *)
EXTENDS Mmu

CONSTANT leafPage    \* the page of the second level

MprvRootPtes == {Table(leafPage)}
MprvLeafPtes == {Leaf("SRW", 1)}
MprvModes == {[vm |-> "SV39", prv |-> "M", prv1 |-> "S", mprv |-> TRUE]}
=============================================================================
