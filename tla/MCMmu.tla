-------------------------------- MODULE MCMmu --------------------------------
(* Mmu with two virtual pages that share the one TLB entry, one of them with *)
(* an instruction that crosses into the other.  In other behaviours the same *)
(* hart decodes instruction words of four bits, or its accesses beyond       *)
(* memory go to the devices.                                                 *)
EXTENDS MmuSoftware, Decode, Devices

CONSTANT leafPage    \* the page of the second level

VARIABLE subject

MCRootPtes == {Table(leafPage), Leaf("URWX_SRWX", 2)}
MCLeafPtes == {Leaf("URX_SRX", 1), Leaf("URWX_SRW", 0)}
Sv(prv, prv1, mprv) == [vm |-> "SV39", prv |-> prv, prv1 |-> prv1, mprv |-> mprv]
Bare == [vm |-> "MBARE", prv |-> "M", prv1 |-> "U", mprv |-> FALSE]
MCModes == {Bare, Sv("U", "U", FALSE), Sv("S", "U", FALSE)}
MCInterests == {{"FETCH", "STORE"}}

\* Three entries of one match, the masks nested, two of another, and three that
\* may move, as in the list of base instructions.
Entry(name, match, mask) == [name |-> name, match |-> match, mask |-> mask]
MCInsnList ==
  {Entry("c_ebreak", 10, 15), Entry("c_jalr", 10, 14), Entry("c_add", 10, 10),
   Entry("c_jr", 8, 15), Entry("c_mv", 8, 11),
   Entry("c_addi", 1, 3), Entry("lw", 3, 11), Entry("sw", 6, 15)}

mcvars == <<vars, dvars, bvars, subject>>

MCInit ==
  /\ subject \in {"memory", "decode", "devices"}
  /\ Init /\ DecodeInit /\ DevicesInit
MCNext ==
  \/ subject = "memory" /\ Next /\ UNCHANGED <<dvars, bvars, subject>>
  \/ subject = "decode" /\ DecodeNext /\ UNCHANGED <<vars, bvars, subject>>
  \/ subject = "devices" /\ DevicesNext /\ UNCHANGED <<vars, dvars, subject>>
MCSpec == MCInit /\ [][MCNext]_mcvars
=============================================================================
