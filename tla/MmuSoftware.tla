----------------------------- MODULE MmuSoftware -----------------------------
(* The memory port under software that does not part fetches from data with  *)
(* MPRV while it translates.  The three tags of a TLB entry share one data   *)
(* entry, and refill_tlb keeps the tags of the same virtual page: they serve *)
(* one translation only (MCMprv shows what happens otherwise).               *)
EXTENDS Mmu

ASSUME MprvAssumption ==
  \A m \in Modes : m.mprv /\ m.vm # "MBARE" => (m.prv = "M" <=> m.prv1 = "M")
=============================================================================
