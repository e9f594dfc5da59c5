--------------------------------- MODULE Mmu ---------------------------------
(* A hart's port into memory in the instruction set simulator (mmu.h,        *)
(* mmu.cc): translation by a page table walk that sets the referenced and    *)
(* dirty bits, the three TLB tag arrays over one data array, the instruction *)
(* cache, the memory tracers, and the writes of mstatus that flush them.     *)
(*                                                                           *)
(* A page holds one instruction or one datum, so an address is its virtual   *)
(* page number; page tables have two levels of two entries.  The software    *)
(* keeps its side of the bargain: it runs sfence.vm after it changes a page  *)
(* table or sptbr and fence.i after it changes code, before it relies on     *)
(* the new contents (fenced, fencedI).                                       *)
EXTENDS Integers, Sequences, FiniteSets

CONSTANTS
  Vpns,                \* virtual pages the software uses
  Crossing,            \* those whose instruction runs into the next page
  Following,           \* how far the next instruction is from one
  TLB_ENTRIES, ICACHE_ENTRIES,
  MemPages,            \* memsz: physical pages 0 .. MemPages - 1 are memory
  Tables,              \* names of the pages that hold page tables
  RootPtes, LeafPtes,  \* the entries the software writes there
  Modes,               \* the mstatus values it writes
  Interests            \* the access types each tracer is interested in

NoVpn == -1
Canonical == 0 .. 3    \* bits xlen-1 .. va_bits-1 all equal (walk)
Types == {"FETCH", "LOAD", "STORE"}

PteTypes ==
  {"invalid", "TABLE", "URX_SR", "URX_SRX", "URWX_SRW", "URWX_SRWX", "UR_SR", "URW_SRW", "SR", "SRW", "SRX", "SRWX"}

\* Page table entries; the ppn of a table is its name, if it is in memory.
Entries ==
  {e \in [type : PteTypes, ppn : Nat \cup Tables, r : BOOLEAN, d : BOOLEAN] :
     e.type # "TABLE" => e.ppn \in Nat}

ASSUME MmuAssumption ==
  /\ Vpns \subseteq Nat /\ Crossing \subseteq Vpns /\ Following \in Nat \ {0}
  /\ TLB_ENTRIES \in Nat \ {0} /\ ICACHE_ENTRIES \in Nat \ {0} /\ MemPages \in Nat \ {0}
  /\ Modes \subseteq [vm : {"MBARE", "SV39"}, prv : {"U", "S", "M"}, prv1 : {"U", "S", "M"}, mprv : BOOLEAN]
  /\ "root" \notin Tables /\ "none" \notin Tables
  /\ RootPtes \subseteq Entries /\ LeafPtes \subseteq Entries
  /\ Interests \subseteq SUBSET Types

VARIABLES
  mstatus,   \* fields VM, PRV, PRV1 and MPRV
  pt,        \* page tables: table -> index -> entry
  tlb,       \* per index: data (the offset from virtual to physical page) and the tags
  icache,    \* per index: tag and the instruction bits
  mem,       \* contents of the physical pages
  tracers,   \* interests of the registered tracers, in order
  did,       \* the last access: its type, page and the traces it made
  fenced, fencedI
vars == <<mstatus, pt, tlb, icache, mem, tracers, did, fenced, fencedI>>

-----------------------------------------------------------------------------
(* Page table entries: PTE_TYPE_* and the PTE_UR .. PTE_SX masks. *)
R == {"LOAD"}
RW == {"LOAD", "STORE"}
RX == {"LOAD", "FETCH"}
RWX == {"LOAD", "STORE", "FETCH"}
User(type) ==
  CASE type \in {"URX_SR", "URX_SRX"} -> RX
    [] type \in {"URWX_SRW", "URWX_SRWX"} -> RWX
    [] type = "UR_SR" -> R
    [] type = "URW_SRW" -> RW
    [] OTHER -> {}
Supervisor(type) ==
  CASE type \in {"URX_SR", "UR_SR", "SR"} -> R
    [] type \in {"URWX_SRW", "URW_SRW", "SRW"} -> RW
    [] type \in {"URX_SRX", "SRX"} -> RX
    [] type \in {"URWX_SRWX", "SRWX"} -> RWX
    [] OTHER -> {}
PTE_CHECK_PERM(pte, supervisor, type) ==
  type \in (IF supervisor THEN Supervisor(pte.type) ELSE User(pte.type))

\* An invalid entry has no type that permits anything.
Invalid == [type |-> "invalid", ppn |-> 0, r |-> FALSE, d |-> FALSE]
Leaf(type, ppn) == [type |-> type, ppn |-> ppn, r |-> FALSE, d |-> FALSE]
Table(t) == [type |-> "TABLE", ppn |-> t, r |-> FALSE, d |-> FALSE]

\* walk, as far as it reads: where the leaf is and the page it gives, or no
\* page.  An entry outside of memory ends it (a table that is not in Tables).
Fault == [ok |-> FALSE, ppn |-> 0, table |-> "none", idx |-> 0]
LeafAt(table, idx, pte, ppn, supervisor, type) ==
  IF PTE_CHECK_PERM(pte, supervisor, type)
  THEN [ok |-> TRUE, ppn |-> ppn, table |-> table, idx |-> idx] ELSE Fault
walk(p, vpn, supervisor, type) ==
  LET root == p["root"][vpn \div 2]
      leaf == p[root.ppn][vpn % 2]
  IN  IF vpn \notin Canonical THEN Fault
      ELSE IF root.type # "TABLE"
      THEN LeafAt("root", vpn \div 2, root, (root.ppn \div 2) * 2 + (vpn % 2), supervisor, type)
      ELSE IF root.ppn \notin Tables \/ leaf.type = "TABLE" THEN Fault
      ELSE LeafAt(root.ppn, vpn % 2, leaf, leaf.ppn, supervisor, type)

Mode(type) ==
  IF mstatus.vm = "MBARE" THEN "M"
  ELSE IF type # "FETCH" /\ mstatus.mprv THEN mstatus.prv1 ELSE mstatus.prv

\* Bare addresses are their own translation; table "none" has no bits to set.
translate(p, vpn, type) ==
  IF Mode(type) = "M" THEN [ok |-> TRUE, ppn |-> vpn, table |-> "none", idx |-> 0]
  ELSE walk(p, vpn, Mode(type) = "S", type)

(* mutant: a store sets the referenced bit alone *)
SetBitsNoDirty(p, t, type) ==
  IF ~t.ok \/ t.table = "none" THEN p ELSE [p EXCEPT ![t.table][t.idx].r = TRUE]

SetBits(p, t, type) ==
  IF ~t.ok \/ t.table = "none" THEN p
  ELSE [p EXCEPT ![t.table][t.idx].r = TRUE, ![t.table][t.idx].d = @ \/ type = "STORE"]

-----------------------------------------------------------------------------
EmptyTlb == [i \in 0 .. TLB_ENTRIES - 1 |-> [data |-> 0, tag |-> [t \in Types |-> NoVpn]]]
EmptyIcache == [i \in 0 .. ICACHE_ENTRIES - 1 |-> [tag |-> NoVpn, data |-> << >>]]
TlbHit(x, vpn, type) == x[vpn % TLB_ENTRIES].tag[type] = vpn

(* mutant: the tags of another page stay when the data is replaced *)
refill_tlbKeepsTags(x, vpn, ppn, type) ==
  [x EXCEPT ![vpn % TLB_ENTRIES].data = ppn - vpn, ![vpn % TLB_ENTRIES].tag[type] = vpn]

refill_tlb(x, vpn, ppn, type) ==
  [x EXCEPT ![vpn % TLB_ENTRIES] =
     [data |-> ppn - vpn,
      tag |-> [t \in Types |-> IF t = type \/ @.tag[t] = vpn THEN vpn ELSE NoVpn]]]

Interested(type) == \E i \in DOMAIN tracers : type \in tracers[i]
\* The calls of trace: one for each tracer that is interested.
Traces(type, ppn) ==
  {[tracer |-> i, type |-> type, ppn |-> ppn] : i \in {j \in DOMAIN tracers : type \in tracers[j]}}

(* mutant: a traced access fills the TLB as well *)
MayRefillAlways(type) == TRUE

\* A traced load or store leaves no tag behind, so that the next is traced too.
MayRefill(type) == type = "FETCH" \/ ~Interested(type)

\* One translation, by the TLB or the slow path: m is the TLB and the tables.
Lookup(m, vpn, type) ==
  IF TlbHit(m.tlb, vpn, type)
  THEN [m |-> m, ok |-> TRUE, ppn |-> m.tlb[vpn % TLB_ENTRIES].data + vpn, slow |-> FALSE]
  ELSE LET t  == translate(m.pt, vpn, type)
           in == t.ok /\ t.ppn < MemPages
       IN  [m |-> [pt  |-> SetBits(m.pt, t, type),
                   tlb |-> IF in /\ MayRefill(type)
                           THEN refill_tlb(m.tlb, vpn, t.ppn, type) ELSE m.tlb],
            ok |-> in, ppn |-> t.ppn, slow |-> TRUE]

Port == [tlb |-> tlb, pt |-> pt]
NoAccess == [type |-> "none", ppn |-> 0, traces |-> {}]

-----------------------------------------------------------------------------
Init ==
  /\ mstatus = [vm |-> "MBARE", prv |-> "M", prv1 |-> "U", mprv |-> FALSE]
  /\ pt = [t \in Tables \cup {"root"} |-> [i \in {0, 1} |-> Invalid]]
  /\ tlb = EmptyTlb /\ icache = EmptyIcache
  /\ mem = [p \in 0 .. MemPages - 1 |-> p]
  /\ tracers = << >> /\ did = NoAccess /\ fenced = TRUE /\ fencedI = TRUE

\* load_func: a hit goes straight to memory, a miss by load_slow_path; an
\* address outside of memory is a device's or faults, and leaves no trace.
Load(vpn) ==
  \E l \in {Lookup(Port, vpn, "LOAD")} :
    /\ tlb' = l.m.tlb /\ pt' = l.m.pt
    /\ did' = IF l.ok THEN [type |-> "LOAD", ppn |-> l.ppn,
                            traces |-> IF l.slow THEN Traces("LOAD", l.ppn) ELSE {}]
              ELSE NoAccess
    /\ UNCHANGED <<mstatus, icache, mem, tracers, fenced, fencedI>>

\* store_func; the page may hold code, which then waits for a fence.i.
Store(vpn) ==
  \E l \in {Lookup(Port, vpn, "STORE")} :
    /\ tlb' = l.m.tlb /\ pt' = l.m.pt
    /\ IF l.ok
       THEN /\ mem' = [mem EXCEPT ![l.ppn] = MemPages + (@ % MemPages)]
            /\ fencedI' = IF mem'[l.ppn] = mem[l.ppn] THEN fencedI ELSE FALSE
            /\ did' = [type |-> "STORE", ppn |-> l.ppn,
                       traces |-> IF l.slow THEN Traces("STORE", l.ppn) ELSE {}]
       ELSE did' = NoAccess /\ UNCHANGED <<mem, fencedI>>
    /\ UNCHANGED <<mstatus, icache, tracers, fenced>>

\* refill_icache: both halves of an instruction that crosses into the next
\* page are translated before the entry is written.
refill_icache(vpn, i) ==
  \E l \in {Lookup(Port, vpn, "FETCH")} :
  \E h \in {IF l.ok /\ vpn \in Crossing THEN Lookup(l.m, vpn + 1, "FETCH") ELSE l} :
    /\ tlb' = h.m.tlb /\ pt' = h.m.pt
    /\ IF l.ok /\ h.ok
       THEN /\ icache' = [icache EXCEPT ![i] =
                 [tag  |-> IF Interested("FETCH") THEN NoVpn ELSE vpn,
                  data |-> IF vpn \in Crossing THEN <<mem[l.ppn], mem[h.ppn]>>
                           ELSE <<mem[l.ppn]>>]]
            /\ did' = [type |-> "FETCH", ppn |-> l.ppn, traces |-> Traces("FETCH", l.ppn)]
       ELSE did' = NoAccess /\ UNCHANGED icache
    /\ UNCHANGED <<mstatus, mem, tracers, fenced, fencedI>>

\* access_icache
FetchHit(vpn) ==
  LET entry == icache[vpn % ICACHE_ENTRIES]
  IN  /\ entry.tag = vpn
      /\ did' = [type |-> "FETCH", ppn |-> 0, traces |-> {}]
      /\ UNCHANGED <<mstatus, pt, tlb, icache, mem, tracers, fenced, fencedI>>
FetchMiss(vpn) ==
  /\ icache[vpn % ICACHE_ENTRIES].tag # vpn
  /\ refill_icache(vpn, vpn % ICACHE_ENTRIES)

\* The loop of processor_t::step at its label miss: the instruction that
\* follows the one of entry i goes into entry i + 1, whatever its own index.
FetchFollowing(i) ==
  /\ i + 1 < ICACHE_ENTRIES
  /\ icache[i].tag # NoVpn /\ icache[i].tag + Following \in Vpns
  /\ icache[i + 1].tag # icache[i].tag + Following
  /\ refill_icache(icache[i].tag + Following, i + 1)

flush_icache == icache' = EmptyIcache

(* mutant: the instruction cache survives a flush of the TLB *)
flush_tlbOnly == tlb' = EmptyTlb /\ UNCHANGED icache

flush_tlb == tlb' = EmptyTlb /\ flush_icache

\* set_csr(CSR_MSTATUS), by an instruction, a trap or a return.
SetMstatus(val) ==
  /\ val # mstatus
  /\ mstatus' = val /\ flush_tlb
  /\ did' = NoAccess
  /\ UNCHANGED <<pt, mem, tracers, fenced, fencedI>>

\* The software changes a page table entry; it runs in machine mode to do so.
WritePte(table, idx, pte) ==
  /\ pt[table][idx] # pte
  /\ pt' = [pt EXCEPT ![table][idx] = pte]
  /\ fenced' = FALSE /\ did' = NoAccess
  /\ UNCHANGED <<mstatus, tlb, icache, mem, tracers, fencedI>>

sfence_vm ==
  /\ ~fenced
  /\ flush_tlb /\ fenced' = TRUE /\ fencedI' = TRUE /\ did' = NoAccess
  /\ UNCHANGED <<mstatus, pt, mem, tracers>>

fence_i ==
  /\ ~fencedI
  /\ flush_icache /\ fencedI' = TRUE /\ did' = NoAccess
  /\ UNCHANGED <<mstatus, pt, tlb, mem, tracers, fenced>>

(* mutant: the tracer is hooked into a port that keeps its tags *)
HookTracerNoFlush(interest) == tracers' = Append(tracers, interest) /\ UNCHANGED <<tlb, icache>>

HookTracer(interest) == tracers' = Append(tracers, interest) /\ flush_tlb

register_memtracer(interest) ==
  /\ Len(tracers) < Cardinality(Interests) /\ \A i \in DOMAIN tracers : tracers[i] # interest
  /\ HookTracer(interest) /\ did' = NoAccess
  /\ UNCHANGED <<mstatus, pt, mem, fenced, fencedI>>

Access == \E vpn \in Vpns : Load(vpn) \/ Store(vpn) \/ FetchHit(vpn) \/ FetchMiss(vpn)
Next ==
  \/ fenced /\ fencedI /\ Access
  \/ fenced /\ fencedI /\ \E i \in DOMAIN icache : FetchFollowing(i)
  \/ \E val \in Modes : SetMstatus(val)
  \/ \E idx \in {0, 1}, pte \in RootPtes : WritePte("root", idx, pte)
  \/ \E t \in Tables, idx \in {0, 1}, pte \in LeafPtes : WritePte(t, idx, pte)
  \/ sfence_vm
  \/ fence_i
  \/ \E interest \in Interests : register_memtracer(interest)

Spec == Init /\ [][Next]_vars

-----------------------------------------------------------------------------
(* The TLB is transparent (mmu.cc:50-102): whenever the software has fenced  *)
(* its page tables, a hit of any of the three tags gives the page a walk in  *)
(* the present mode would give for that type of access, with permission, and *)
(* the walk would find the referenced bit, and for a store the dirty bit,    *)
(* already set.                                                              *)
TlbTransparent ==
  fenced => \A i \in DOMAIN tlb, type \in Types :
    LET vpn == tlb[i].tag[type]
        t   == translate(pt, vpn, type)
    IN  vpn # NoVpn =>
          /\ t.ok /\ t.ppn = tlb[i].data + vpn
          /\ t.table # "none" =>
               pt[t.table][t.idx].r /\ (type = "STORE" => pt[t.table][t.idx].d)

(* The instruction cache is transparent (mmu.h:89-135, execute.cc:139-143):  *)
(* with both fences done, an entry, whichever index it was filled at, holds  *)
(* the instruction that its address translates to now.                       *)
IcacheTransparent ==
  (fenced /\ fencedI) => \A i \in DOMAIN icache :
    LET vpn == icache[i].tag
        l   == translate(pt, vpn, "FETCH")
        h   == translate(pt, vpn + 1, "FETCH")
    IN  vpn # NoVpn =>
          icache[i].data = IF vpn \in Crossing THEN <<mem[l.ppn], mem[h.ppn]>> ELSE <<mem[l.ppn]>>

(* Every access a tracer is interested in is traced once by each such        *)
(* tracer, with its physical page (mmu.cc:60-86, mmu.h:116-120): the TLB and *)
(* the instruction cache never short-circuit it.                             *)
EveryAccessTraced ==
  did.type # "none" => did.traces = Traces(did.type, did.ppn)
=============================================================================
