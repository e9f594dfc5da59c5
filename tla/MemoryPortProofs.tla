--------------------------- MODULE MemoryPortProofs ---------------------------
(***************************************************************************)
(* The memory port of the simulator and the bus behind it.  For every       *)
(* number of entries, pages, page tables and tracers the TLB and the        *)
(* instruction cache give what a walk and memory would give, and no access  *)
(* escapes its tracers; whatever the size of memory, of the device tree and *)
(* of an address, and however many harts there are, every access beyond     *)
(* memory reaches the device it lies in.                                    *)
(***************************************************************************)
EXTENDS MmuSoftware, Devices, TLAPS

PtType == [Tables \cup {"root"} -> [{0, 1} -> Entries]]
TlbType == [0 .. TLB_ENTRIES - 1 -> [data : Int, tag : [Types -> Nat \cup {NoVpn}]]]
IcacheType == [0 .. ICACHE_ENTRIES - 1 -> [tag : Nat \cup {NoVpn}, data : Seq(Int)]]

TypeOK ==
  /\ mstatus \in [vm : {"MBARE", "SV39"}, prv : {"U", "S", "M"}, prv1 : {"U", "S", "M"}, mprv : BOOLEAN]
  /\ pt \in PtType /\ tlb \in TlbType /\ icache \in IcacheType
  /\ mem \in [0 .. MemPages - 1 -> Int]
  /\ tracers \in Seq(SUBSET Types)
  /\ fenced \in BOOLEAN /\ fencedI \in BOOLEAN

\* Fetches and data accesses both translate, or neither does.
OneTranslation == \A s, t \in Types : Mode(s) = "M" <=> Mode(t) = "M"

\* What TlbTransparent says of a TLB and page tables that are not yet those of
\* the next state; a hit also stays in memory.
Coherent(m) ==
  \A i \in 0 .. TLB_ENTRIES - 1, type \in Types :
    LET vpn == m.tlb[i].tag[type]
        t   == translate(m.pt, vpn, type)
    IN  vpn # NoVpn =>
          /\ t.ok /\ t.ppn = m.tlb[i].data + vpn /\ t.ppn < MemPages
          /\ t.table # "none" =>
               m.pt[t.table][t.idx].r /\ (type = "STORE" => m.pt[t.table][t.idx].d)

\* A data access that is traced leaves no tag, so that the next one misses.
TracedMiss(x) ==
  \A i \in 0 .. TLB_ENTRIES - 1, type \in {"LOAD", "STORE"} :
    x[i].tag[type] # NoVpn => ~Interested(type)
TracedFetchMiss ==
  \A i \in 0 .. ICACHE_ENTRIES - 1 : icache[i].tag # NoVpn => ~Interested("FETCH")

\* What IcacheTransparent says of one entry.
Holds(p, m, entry) ==
  entry.tag # NoVpn =>
    LET vpn == entry.tag
        l   == translate(p, vpn, "FETCH")
        h   == translate(p, vpn + 1, "FETCH")
    IN  entry.data = IF vpn \in Crossing THEN <<m[l.ppn], m[h.ppn]>> ELSE <<m[l.ppn]>>

SameWalk(p, q) ==
  \A t \in Tables \cup {"root"}, i \in {0, 1} : q[t][i].type = p[t][i].type /\ q[t][i].ppn = p[t][i].ppn

-----------------------------------------------------------------------------
(* Walks. *)
LEMMA WalkType ==
  ASSUME NEW p \in PtType, NEW vpn \in Nat, NEW type \in Types
  PROVE  LET t == translate(p, vpn, type) IN
           /\ t.ok \in BOOLEAN
           /\ t.ok => t.ppn \in Nat
           /\ t.ok => t.table = "none" \/ (t.table \in Tables \cup {"root"} /\ t.idx \in {0, 1})
           /\ t.table = "none" => ~t.ok \/ Mode(type) = "M"
<1> USE MmuAssumption
<1>1. CASE Mode(type) = "M"
  BY <1>1 DEF translate
<1>2. CASE Mode(type) # "M" /\ vpn \notin Canonical
  BY <1>2 DEF translate, walk, Fault
<1>3. CASE Mode(type) # "M" /\ vpn \in Canonical
  <2> DEFINE sup == Mode(type) = "S"
             root == p["root"][vpn \div 2]
  <2>1. vpn \div 2 \in {0, 1} /\ vpn % 2 \in {0, 1}
    BY <1>3 DEF Canonical
  <2>2. root \in Entries /\ translate(p, vpn, type) = walk(p, vpn, sup, type)
    BY <1>3, <2>1 DEF PtType, translate
  <2>3. CASE root.type # "TABLE"
    BY <1>3, <2>1, <2>2, <2>3 DEF walk, LeafAt, Fault, Entries
  <2>4. CASE root.type = "TABLE" /\ root.ppn \in Tables
    <3>1. p[root.ppn][vpn % 2] \in Entries
      BY <2>1, <2>4 DEF PtType
    <3> DEFINE leaf == p[root.ppn][vpn % 2]
    <3>2. CASE leaf.type = "TABLE"
      <4>1. translate(p, vpn, type) = Fault
        BY <1>3, <2>2, <2>4, <3>2 DEF walk
      <4>2. QED BY <4>1 DEF Fault
    <3>3. CASE leaf.type # "TABLE"
      <4>1. \/ translate(p, vpn, type) = Fault
            \/ translate(p, vpn, type) = [ok |-> TRUE, ppn |-> leaf.ppn, table |-> root.ppn, idx |-> vpn % 2]
        BY <1>3, <2>2, <2>4, <3>3 DEF walk, LeafAt
      <4>2. leaf.ppn \in Nat
        BY <3>1, <3>3 DEF Entries
      <4>3. root.ppn \in Tables /\ root.ppn # "none"
        BY <2>4
      <4> HIDE DEF leaf, root
      <4> DEFINE t == translate(p, vpn, type)
      <4> HIDE DEF t
      <4>4. CASE t = Fault
        BY <4>4 DEF Fault, t
      <4>5. CASE t = [ok |-> TRUE, ppn |-> leaf.ppn, table |-> root.ppn, idx |-> vpn % 2]
        <5>1. t.ok /\ t.ppn = leaf.ppn /\ t.table = root.ppn /\ t.idx = vpn % 2
          BY <4>5
        <5>2. QED BY <2>1, <4>2, <4>3, <5>1 DEF t
      <4>6. QED BY <4>1, <4>4, <4>5 DEF t
    <3>4. QED BY <3>2, <3>3
  <2>5. CASE root.type = "TABLE" /\ root.ppn \notin Tables
    BY <1>3, <2>2, <2>5 DEF walk, Fault
  <2>6. QED BY <2>3, <2>4, <2>5
<1>4. QED BY <1>1, <1>2, <1>3

\* The referenced and dirty bits do not matter to a walk.
LEMMA WalkIgnoresBits ==
  ASSUME NEW p \in PtType, NEW q \in PtType, SameWalk(p, q), NEW vpn \in Nat, NEW type \in Types
  PROVE  translate(q, vpn, type) = translate(p, vpn, type)
<1>1. CASE Mode(type) = "M" \/ vpn \notin Canonical
  BY <1>1 DEF translate, walk
<1>2. CASE Mode(type) # "M" /\ vpn \in Canonical
  <2> DEFINE root == p["root"][vpn \div 2]
             sup == Mode(type) = "S"
  <2>1. vpn \div 2 \in {0, 1} /\ vpn % 2 \in {0, 1}
    BY <1>2 DEF Canonical
  <2>2. q["root"][vpn \div 2].type = root.type /\ q["root"][vpn \div 2].ppn = root.ppn
    BY <2>1 DEF SameWalk
  <2>3. CASE root.type # "TABLE"
    BY <1>2, <2>2, <2>3 DEF translate, walk, LeafAt, PTE_CHECK_PERM
  <2>4. CASE root.type = "TABLE" /\ root.ppn \in Tables
    <3>1. /\ q[root.ppn][vpn % 2].type = p[root.ppn][vpn % 2].type
          /\ q[root.ppn][vpn % 2].ppn = p[root.ppn][vpn % 2].ppn
      BY <2>1, <2>4 DEF SameWalk
    <3>2. QED BY <1>2, <2>2, <2>4, <3>1 DEF translate, walk, LeafAt, PTE_CHECK_PERM
  <2>5. CASE root.type = "TABLE" /\ root.ppn \notin Tables
    BY <1>2, <2>2, <2>5 DEF translate, walk
  <2>6. QED BY <2>3, <2>4, <2>5
<1>3. QED BY <1>1, <1>2

\* The page of an address does not depend on the type of the access.
LEMMA OnePage ==
  ASSUME OneTranslation, NEW p \in PtType, NEW vpn \in Nat, NEW s \in Types, NEW t \in Types,
         translate(p, vpn, s).ok, translate(p, vpn, t).ok
  PROVE  translate(p, vpn, s).ppn = translate(p, vpn, t).ppn
BY DEF OneTranslation, translate, walk, LeafAt, Fault

\* SetBits only sets bits, and sets those of the access.
LEMMA SetBitsSets ==
  ASSUME NEW p \in PtType, NEW vpn \in Nat, NEW type \in Types
  PROVE  LET t == translate(p, vpn, type)
             q == SetBits(p, t, type)
         IN  /\ q \in PtType /\ SameWalk(p, q)
             /\ \A tb \in Tables \cup {"root"}, i \in {0, 1} :
                  (p[tb][i].r => q[tb][i].r) /\ (p[tb][i].d => q[tb][i].d)
             /\ t.ok /\ t.table # "none" =>
                  q[t.table][t.idx].r /\ (type = "STORE" => q[t.table][t.idx].d)
<1> DEFINE t == translate(p, vpn, type)
           q == SetBits(p, t, type)
<1>1. CASE ~t.ok \/ t.table = "none"
  BY <1>1 DEF SetBits, SameWalk
<1>2. CASE t.ok /\ t.table # "none"
  <2>1. t.table \in Tables \cup {"root"} /\ t.idx \in {0, 1}
    BY <1>2, WalkType
  <2> DEFINE old == p[t.table][t.idx]
             new == [old EXCEPT !.r = TRUE, !.d = @ \/ type = "STORE"]
  <2>2. old \in Entries
    BY <2>1 DEF PtType
  <2>3. /\ new \in Entries /\ new.type = old.type /\ new.ppn = old.ppn
        /\ new.r /\ (old.d => new.d) /\ (type = "STORE" => new.d)
    BY <2>2 DEF Entries
  <2>4. q = [p EXCEPT ![t.table][t.idx] = new]
    BY ZenonT(30), <1>2, <2>1, <2>2 DEF SetBits, PtType, Entries
  <2> HIDE DEF old, new, q, t
  <2>5. \A tb \in Tables \cup {"root"}, i \in {0, 1} :
          q[tb][i] = IF tb = t.table /\ i = t.idx THEN new ELSE p[tb][i]
    BY <2>1, <2>4 DEF PtType
  <2>6. q \in PtType
    BY <2>1, <2>3, <2>4 DEF PtType
  <2>7. QED BY <1>2, <2>1, <2>3, <2>5, <2>6 DEF SameWalk, old, q, t
<1>3. QED BY <1>1, <1>2

-----------------------------------------------------------------------------
(* One translation by the TLB or the slow path. *)
LEMMA IndexInTlb == \A vpn \in Nat : vpn % TLB_ENTRIES \in 0 .. TLB_ENTRIES - 1
BY MmuAssumption

PortType == [tlb : TlbType, pt : PtType]

LEMMA LookupCoherent ==
  ASSUME OneTranslation, NEW m \in PortType, Coherent(m), TracedMiss(m.tlb),
         NEW vpn \in Nat, NEW type \in Types
  PROVE  LET l == Lookup(m, vpn, type)
             t == translate(m.pt, vpn, type)
         IN  /\ l.m \in PortType /\ Coherent(l.m) /\ TracedMiss(l.m.tlb)
             /\ SameWalk(m.pt, l.m.pt)
             /\ l.ok \in BOOLEAN
             /\ l.ok => l.ppn = t.ppn /\ l.ppn \in 0 .. MemPages - 1
             /\ ~l.slow => l.ok /\ m.tlb[vpn % TLB_ENTRIES].tag[type] = vpn
<1> DEFINE at == vpn % TLB_ENTRIES
           t  == translate(m.pt, vpn, type)
           l  == Lookup(m, vpn, type)
           q  == SetBits(m.pt, t, type)
           in == t.ok /\ t.ppn < MemPages
<1>1. at \in 0 .. TLB_ENTRIES - 1 /\ NoVpn \notin Nat
  BY IndexInTlb DEF NoVpn
<1>2. m.tlb \in TlbType /\ m.pt \in PtType /\ MemPages \in Nat
  BY MmuAssumption DEF PortType
<1>3. CASE TlbHit(m.tlb, vpn, type)
  <2>1. m.tlb[at].tag[type] = vpn
    BY <1>3 DEF TlbHit
  <2>2. t.ok /\ t.ppn = m.tlb[at].data + vpn /\ t.ppn < MemPages
    BY <1>1, <2>1 DEF Coherent
  <2>3. t.ppn \in Nat
    BY <1>2, <2>2, WalkType
  <2>4. l = [m |-> m, ok |-> TRUE, ppn |-> m.tlb[at].data + vpn, slow |-> FALSE]
    BY <1>3 DEF Lookup
  <2>5. SameWalk(m.pt, m.pt)
    BY DEF SameWalk
  <2>6. QED BY <1>2, <2>1, <2>2, <2>3, <2>4, <2>5
<1>4. CASE ~TlbHit(m.tlb, vpn, type)
  <2> DEFINE fills == in /\ MayRefill(type)
             x == IF fills THEN refill_tlb(m.tlb, vpn, t.ppn, type) ELSE m.tlb
  <2>1. l = [m |-> [pt |-> q, tlb |-> x], ok |-> in, ppn |-> t.ppn, slow |-> TRUE]
    BY <1>4 DEF Lookup
  <2>2. /\ q \in PtType /\ SameWalk(m.pt, q)
        /\ \A tb \in Tables \cup {"root"}, i \in {0, 1} :
             (m.pt[tb][i].r => q[tb][i].r) /\ (m.pt[tb][i].d => q[tb][i].d)
        /\ t.ok /\ t.table # "none" =>
             q[t.table][t.idx].r /\ (type = "STORE" => q[t.table][t.idx].d)
    BY <1>2, SetBitsSets
  <2>3. /\ t.ok \in BOOLEAN /\ (t.ok => t.ppn \in Nat)
        /\ t.ok => t.table = "none" \/ (t.table \in Tables \cup {"root"} /\ t.idx \in {0, 1})
    BY <1>2, WalkType
  <2>4. \A v \in Nat, s \in Types : translate(q, v, s) = translate(m.pt, v, s)
    BY <1>2, <2>2, WalkIgnoresBits
  <2>5. \A i \in 0 .. TLB_ENTRIES - 1, s \in Types :
          LET v == m.tlb[i].tag[s]
              w == translate(m.pt, v, s)
          IN  v # NoVpn => /\ v \in Nat /\ w.ok /\ w.ppn = m.tlb[i].data + v /\ w.ppn < MemPages
                           /\ w.table # "none" => q[w.table][w.idx].r /\ (s = "STORE" => q[w.table][w.idx].d)
    <3> SUFFICES ASSUME NEW i \in 0 .. TLB_ENTRIES - 1, NEW s \in Types, m.tlb[i].tag[s] # NoVpn
                 PROVE  LET v == m.tlb[i].tag[s]
                            w == translate(m.pt, v, s)
                        IN  /\ v \in Nat /\ w.ok /\ w.ppn = m.tlb[i].data + v /\ w.ppn < MemPages
                            /\ w.table # "none" => q[w.table][w.idx].r /\ (s = "STORE" => q[w.table][w.idx].d)
      OBVIOUS
    <3>1. m.tlb[i].tag[s] \in Nat
      BY <1>2 DEF TlbType
    <3> DEFINE w == translate(m.pt, m.tlb[i].tag[s], s)
    <3>2. /\ w.ok /\ w.ppn = m.tlb[i].data + m.tlb[i].tag[s] /\ w.ppn < MemPages
          /\ w.table # "none" => m.pt[w.table][w.idx].r /\ (s = "STORE" => m.pt[w.table][w.idx].d)
      BY DEF Coherent
    <3>3. w.table # "none" => w.table \in Tables \cup {"root"} /\ w.idx \in {0, 1}
      BY <1>2, <3>1, <3>2, WalkType
    <3> HIDE DEF w, q
    <3>4. w.table # "none" => q[w.table][w.idx].r /\ (s = "STORE" => q[w.table][w.idx].d)
      BY <2>2, <3>2, <3>3
    <3>5. QED BY <3>1, <3>2, <3>4 DEF w
  <2>6. x \in TlbType
    <3>1. CASE fills
      <4>1. t.ppn - vpn \in Int /\ vpn \in Nat \cup {NoVpn}
        BY <2>3, <3>1
      <4>2. QED BY <1>1, <1>2, <3>1, <4>1 DEF refill_tlb, TlbType
    <3>2. QED BY <1>2, <3>1
  <2>7. \A i \in 0 .. TLB_ENTRIES - 1, s \in Types :
          x[i].tag[s] # NoVpn =>
            \/ x[i].tag[s] = m.tlb[i].tag[s] /\ x[i].data = m.tlb[i].data
            \/ /\ fills /\ i = at /\ x[i].tag[s] = vpn /\ x[i].data = t.ppn - vpn
               /\ s = type \/ m.tlb[i].tag[s] = vpn
    BY <1>1, <1>2 DEF refill_tlb, TlbType
  <2> HIDE DEF q, x, t, l
  <2>8. Coherent(l.m)
    <3>0. l.m.tlb = x /\ l.m.pt = q
      BY <2>1
    <3> SUFFICES ASSUME NEW i \in 0 .. TLB_ENTRIES - 1, NEW s \in Types, x[i].tag[s] # NoVpn
                 PROVE  LET v == x[i].tag[s]
                            w == translate(q, v, s)
                        IN  /\ w.ok /\ w.ppn = x[i].data + v /\ w.ppn < MemPages
                            /\ w.table # "none" => q[w.table][w.idx].r /\ (s = "STORE" => q[w.table][w.idx].d)
      BY ZenonT(30), <3>0 DEF Coherent
    <3> DEFINE v == x[i].tag[s]
               w == translate(m.pt, v, s)
               bits == w.table # "none" => q[w.table][w.idx].r /\ (s = "STORE" => q[w.table][w.idx].d)
    <3>1. v \in Nat
      BY <2>6 DEF TlbType
    <3>2. translate(q, v, s) = translate(m.pt, v, s)
      BY <2>4, <3>1
    <3>3. CASE v = m.tlb[i].tag[s] /\ x[i].data = m.tlb[i].data
      <4>1. w.ok /\ w.ppn = x[i].data + v /\ w.ppn < MemPages /\ bits
        BY <2>5, <3>3
      <4>2. QED BY <3>2, <4>1
    <3>4. CASE fills /\ v = vpn /\ x[i].data = t.ppn - vpn /\ s = type
      <4>1. w = t /\ t.ok /\ t.ppn < MemPages /\ t.ppn \in Nat
        BY <2>3, <3>4 DEF t
      <4>2. w.ppn = x[i].data + v
        BY <3>4, <4>1
      <4>3. bits
        BY <2>2, <3>4, <4>1
      <4>4. QED BY <3>2, <4>1, <4>2, <4>3
    <3>5. CASE fills /\ v = vpn /\ x[i].data = t.ppn - vpn /\ m.tlb[i].tag[s] = vpn
      <4>1. w.ok /\ bits /\ vpn # NoVpn
        BY ZenonT(40), <1>1, <2>5, <3>5
      <4>2. w.ppn = t.ppn
        BY <1>2, <3>5, <4>1, OnePage DEF t
      <4>3. t.ppn < MemPages /\ t.ppn \in Nat
        BY <2>3, <3>5
      <4>4. w.ppn = x[i].data + v
        BY <3>5, <4>2, <4>3
      <4>5. QED BY <3>2, <4>1, <4>2, <4>3, <4>4
    <3>6. QED BY <2>7, <3>3, <3>4, <3>5
  <2>9. TracedMiss(x)
    <3> SUFFICES ASSUME NEW i \in 0 .. TLB_ENTRIES - 1, NEW s \in {"LOAD", "STORE"}, x[i].tag[s] # NoVpn
                 PROVE  ~Interested(s)
      BY DEF TracedMiss
    <3>1. s \in Types
      BY DEF Types
    <3>2. CASE m.tlb[i].tag[s] # NoVpn
      BY <3>2 DEF TracedMiss
    <3>3. CASE fills /\ s = type
      BY <3>3 DEF MayRefill
    <3>4. QED BY <1>1, <2>7, <3>1, <3>2, <3>3
  <2>10. QED
    <3>1. in \in BOOLEAN /\ (in => t.ppn \in 0 .. MemPages - 1)
      BY <1>2, <2>3
    <3>2. l.m \in PortType /\ l.m.tlb = x /\ l.m.pt = q /\ l.ok = in /\ l.ppn = t.ppn /\ l.slow
      BY <2>1, <2>2, <2>6 DEF PortType
    <3> USE DEF l, t
    <3>3. QED BY <2>2, <2>8, <2>9, <3>1, <3>2
<1>5. QED BY <1>3, <1>4

-----------------------------------------------------------------------------
(* The inductive invariant.  TlbTransparent is strengthened by the TLB's     *)
(* hits staying in memory; that fetches and data accesses share one          *)
(* translation is what lets one data entry serve three tags.                 *)
IInv ==
  /\ TypeOK /\ OneTranslation
  /\ fenced => Coherent(Port)
  /\ TracedMiss(tlb) /\ TracedFetchMiss
  /\ IcacheTransparent /\ EveryAccessTraced

LEMMA FlushedType == EmptyTlb \in TlbType /\ EmptyIcache \in IcacheType
BY MmuAssumption DEF EmptyTlb, EmptyIcache, TlbType, IcacheType, NoVpn

\* What a flush of both caches establishes, whatever else the step does.
LEMMA FlushedIInv ==
  ASSUME tlb = EmptyTlb, icache = EmptyIcache, did = NoAccess
  PROVE  Coherent(Port) /\ TracedMiss(tlb) /\ TracedFetchMiss /\ IcacheTransparent /\ EveryAccessTraced
<1>1. \A i \in 0 .. TLB_ENTRIES - 1, type \in Types : tlb[i].tag[type] = NoVpn
  BY DEF EmptyTlb
<1>2. \A i \in 0 .. ICACHE_ENTRIES - 1 : icache[i].tag = NoVpn
  BY DEF EmptyIcache
<1>3. Coherent(Port)
  BY <1>1 DEF Coherent, Port
<1>4. TracedMiss(tlb) /\ TracedFetchMiss
  BY <1>1, <1>2 DEF TracedMiss, TracedFetchMiss, Types
<1>5. IcacheTransparent
  BY <1>2 DEF IcacheTransparent, EmptyIcache
<1>6. EveryAccessTraced
  BY DEF EveryAccessTraced, NoAccess
<1>7. QED BY <1>3, <1>4, <1>5, <1>6

LEMMA InitIInv == Init => IInv
<1> SUFFICES ASSUME Init PROVE IInv
  OBVIOUS
<1>1. TypeOK
  <2>1. Invalid \in Entries
    BY DEF Invalid, Entries, PteTypes
  <2>2. pt \in PtType
    BY <2>1 DEF Init, PtType
  <2>3. mem \in [0 .. MemPages - 1 -> Int]
    BY MmuAssumption DEF Init
  <2>4. QED BY <2>2, <2>3, FlushedType DEF Init, TypeOK
<1>2. OneTranslation
  BY DEF Init, OneTranslation, Mode
<1>3. QED BY <1>1, <1>2, FlushedIInv DEF Init, IInv

\* A step that keeps the mode and the tracers leaves what is said of a port alone.
LEMMA SameStatus ==
  ASSUME mstatus' = mstatus, tracers' = tracers,
         Coherent([tlb |-> tlb', pt |-> pt']), TracedMiss(tlb'), OneTranslation
  PROVE  Coherent(Port)' /\ TracedMiss(tlb)' /\ OneTranslation'
<1>1. \A vpn, type : translate(pt', vpn, type) = translate(pt, vpn, type)'
  BY DEF translate, Mode
<1>2. Coherent(Port)'
  <2>1. /\ [tlb |-> tlb', pt |-> pt'].tlb = tlb' /\ [tlb |-> tlb', pt |-> pt'].pt = pt'
        /\ Port.tlb' = tlb' /\ Port.pt' = pt'
        /\ \A vpn, type : translate(Port.pt, vpn, type)' = translate(pt, vpn, type)'
    BY DEF Port
  <2>2. ASSUME NEW i \in 0 .. TLB_ENTRIES - 1, NEW type \in Types
        PROVE  (LET vpn == Port.tlb[i].tag[type]
                    t   == translate(Port.pt, vpn, type)
                IN  vpn # NoVpn =>
                      /\ t.ok /\ t.ppn = Port.tlb[i].data + vpn /\ t.ppn < MemPages
                      /\ t.table # "none" =>
                           Port.pt[t.table][t.idx].r /\ (type = "STORE" => Port.pt[t.table][t.idx].d))'
    <3> DEFINE t == translate(pt', tlb'[i].tag[type], type)
    <3>1. tlb'[i].tag[type] # NoVpn =>
            /\ t.ok /\ t.ppn = tlb'[i].data + tlb'[i].tag[type] /\ t.ppn < MemPages
            /\ t.table # "none" =>
                 pt'[t.table][t.idx].r /\ (type = "STORE" => pt'[t.table][t.idx].d)
      BY <2>1 DEF Coherent
    <3>2. t = translate(pt, Port.tlb[i].tag[type], type)'
      BY <1>1, <2>1
    <3>3. t = translate(Port.pt, Port.tlb[i].tag[type], type)'
      BY <2>1, <3>2
    <3> HIDE DEF t
    <3>4. QED BY <2>1, <3>1, <3>3
  <2>3. QED BY <2>2 DEF Coherent
<1>3. TracedMiss(tlb)'
  BY DEF TracedMiss, Interested
<1>4. OneTranslation'
  BY DEF OneTranslation, Mode
<1>5. QED BY <1>2, <1>3, <1>4

\* What a load, a store or a fetch may do to the port, however many
\* translations it makes: m is the port after them.
Translates(m) ==
  /\ m \in PortType /\ Coherent(m) /\ TracedMiss(m.tlb) /\ SameWalk(pt, m.pt)
  /\ tlb' = m.tlb /\ pt' = m.pt

LEMMA LookupTranslates ==
  ASSUME IInv, fenced, NEW vpn \in Nat, NEW type \in Types
  PROVE  LET l == Lookup(Port, vpn, type)
             t == translate(pt, vpn, type)
         IN  /\ l.m \in PortType /\ Coherent(l.m) /\ TracedMiss(l.m.tlb) /\ SameWalk(pt, l.m.pt)
             /\ l.ok => l.ppn = t.ppn /\ l.ppn \in 0 .. MemPages - 1
             /\ ~l.slow => l.ok /\ tlb[vpn % TLB_ENTRIES].tag[type] = vpn
<1>1. Port \in PortType /\ Port.tlb = tlb /\ Port.pt = pt
  BY DEF Port, PortType, IInv, TypeOK
<1>2. QED BY <1>1, LookupCoherent DEF IInv

\* A step that translates keeps every instruction that is in the cache and
\* whose pages keep their contents.
LEMMA TranslatesIInv ==
  ASSUME IInv, fenced, NEW m, Translates(m), UNCHANGED <<mstatus, tracers, fenced>>,
         mem' \in [0 .. MemPages - 1 -> Int], fencedI' \in BOOLEAN, icache' \in IcacheType,
         fencedI' => fencedI /\ mem' = mem,
         \A i \in 0 .. ICACHE_ENTRIES - 1 :
           \/ icache'[i] = icache[i]
           \/ /\ icache'[i].tag # NoVpn => ~Interested("FETCH")
              /\ fencedI' => Holds(pt, mem, icache'[i]),
         EveryAccessTraced'
  PROVE  IInv'
<1>1. TypeOK'
  BY DEF IInv, TypeOK, Translates, PortType
<1>2. [tlb |-> tlb', pt |-> pt'] = m
  BY DEF Translates, PortType
<1>3. Coherent(Port)' /\ TracedMiss(tlb)' /\ OneTranslation'
  <2>1. Coherent([tlb |-> tlb', pt |-> pt']) /\ TracedMiss(tlb')
    BY <1>2 DEF Translates
  <2>2. QED BY <2>1, SameStatus DEF IInv
<1>4. TracedFetchMiss'
  <2>1. \A i \in 0 .. ICACHE_ENTRIES - 1 : icache'[i].tag # NoVpn => ~Interested("FETCH")
    BY DEF IInv, TracedFetchMiss
  <2>2. QED BY <2>1 DEF TracedFetchMiss, Interested
<1>5. IcacheTransparent'
  <2>1. \A vpn \in Nat : translate(pt', vpn, "FETCH") = translate(pt, vpn, "FETCH")
    BY WalkIgnoresBits DEF IInv, TypeOK, Translates, PortType, Types
  <2>2. \A i \in 0 .. ICACHE_ENTRIES - 1 : Holds(pt, mem, icache[i])' <=> Holds(pt', mem', icache'[i])
    BY DEF Holds, translate, Mode
  <2> SUFFICES ASSUME fencedI', NEW i \in 0 .. ICACHE_ENTRIES - 1
               PROVE  Holds(pt', mem', icache'[i])
    <3>1. fencedI' => \A i \in 0 .. ICACHE_ENTRIES - 1 : Holds(pt, mem, icache[i])'
      BY <2>2
    <3>2. (fencedI => \A i \in 0 .. ICACHE_ENTRIES - 1 : Holds(pt, mem, icache[i]))' => IcacheTransparent'
      BY <1>1 DEF IcacheTransparent, Holds, TypeOK, IcacheType
    <3>3. QED BY <3>1, <3>2
  <2>3. icache'[i].tag # NoVpn => icache'[i].tag \in Nat /\ icache'[i].tag + 1 \in Nat
    BY <1>1 DEF TypeOK, IcacheType
  <2>4. Holds(pt, mem, icache[i])
    BY DEF IInv, IcacheTransparent, Holds, TypeOK, IcacheType
  <2>5. Holds(pt, mem, icache'[i])
    BY <2>4
  <2>6. QED BY <2>1, <2>3, <2>5 DEF Holds
<1>6. QED BY <1>1, <1>3, <1>4, <1>5 DEF IInv

-----------------------------------------------------------------------------
(* The actions, one by one. *)
\* Untraced: a hit of the TLB has no interested tracer.
LEMMA HitUntraced ==
  ASSUME IInv, NEW vpn \in Nat, NEW type \in {"LOAD", "STORE"}, NEW ppn,
         tlb[vpn % TLB_ENTRIES].tag[type] = vpn
  PROVE  Traces(type, ppn) = {}
<1>1. vpn # NoVpn
  BY DEF NoVpn
<1>2. ~Interested(type)
  BY <1>1, IndexInTlb DEF IInv, TracedMiss
<1>3. QED BY <1>2 DEF Interested, Traces

\* The trace of an access, in a step that leaves the tracers alone.
LEMMA TracedStep ==
  ASSUME tracers' = tracers, did' = NoAccess \/ did'.traces = Traces(did'.type, did'.ppn)
  PROVE  EveryAccessTraced'
BY DEF EveryAccessTraced, Traces, NoAccess

LEMMA LoadIInv == ASSUME IInv, fenced, fencedI, NEW vpn \in Vpns, Load(vpn) PROVE IInv'
<1> DEFINE l == Lookup(Port, vpn, "LOAD")
<1>1. vpn \in Nat /\ "LOAD" \in Types
  BY MmuAssumption DEF Types
<1>2. Translates(l.m) /\ (~l.slow => tlb[vpn % TLB_ENTRIES].tag["LOAD"] = vpn)
  BY <1>1, LookupTranslates DEF Load, Translates
<1>3. EveryAccessTraced'
  <2>1. ~l.slow => Traces("LOAD", l.ppn) = {}
    BY <1>1, <1>2, HitUntraced
  <2>2. did' = NoAccess \/ did'.traces = Traces(did'.type, did'.ppn)
    BY <2>1 DEF Load
  <2>3. QED BY <2>2, TracedStep DEF Load
<1>4. UNCHANGED <<mstatus, icache, mem, tracers, fenced, fencedI>>
  BY DEF Load
<1> HIDE DEF l
<1>5. QED BY <1>2, <1>3, <1>4, TranslatesIInv DEF IInv, TypeOK

LEMMA StoreIInv == ASSUME IInv, fenced, fencedI, NEW vpn \in Vpns, Store(vpn) PROVE IInv'
<1> DEFINE l == Lookup(Port, vpn, "STORE")
<1>1. vpn \in Nat /\ "STORE" \in Types /\ MemPages \in Nat \ {0}
  BY MmuAssumption DEF Types
<1>2. /\ Translates(l.m) /\ (~l.slow => tlb[vpn % TLB_ENTRIES].tag["STORE"] = vpn)
      /\ l.ok => l.ppn \in 0 .. MemPages - 1
  BY <1>1, LookupTranslates DEF Store, Translates
<1>3. EveryAccessTraced'
  <2>1. ~l.slow => Traces("STORE", l.ppn) = {}
    BY <1>1, <1>2, HitUntraced
  <2>2. did' = IF l.ok THEN [type |-> "STORE", ppn |-> l.ppn,
                             traces |-> IF l.slow THEN Traces("STORE", l.ppn) ELSE {}]
               ELSE NoAccess
    BY Zenon DEF Store
  <2> HIDE DEF l
  <2>4. did' = NoAccess \/ did'.traces = Traces(did'.type, did'.ppn)
    BY <2>1, <2>2
  <2>3. QED BY <2>4, TracedStep DEF Store
<1>4. /\ mem' \in [0 .. MemPages - 1 -> Int]
      /\ fencedI' \in BOOLEAN /\ (fencedI' => mem' = mem)
  <2>1. CASE l.ok
    <3> DEFINE new == MemPages + (mem[l.ppn] % MemPages)
    <3>1. mem \in [0 .. MemPages - 1 -> Int]
      BY DEF IInv, TypeOK
    <3>2. mem[l.ppn] \in Int
      BY <1>2, <2>1, <3>1
    <3>3. new \in Int
      BY <1>1, <3>2
    <3>4. mem' = [mem EXCEPT ![l.ppn] = new]
      BY <2>1 DEF Store
    <3>5. fencedI' = IF mem'[l.ppn] = mem[l.ppn] THEN fencedI ELSE FALSE
      <4>1. PICK k \in {l} : k.ok => fencedI' = IF mem'[k.ppn] = mem[k.ppn] THEN fencedI ELSE FALSE
        BY Zenon DEF Store
      <4>2. k = l
        BY <4>1
      <4>3. QED BY <2>1, <4>1, <4>2
    <3>6. fencedI' \in BOOLEAN
      BY <3>5 DEF IInv, TypeOK
    <3> HIDE DEF l, new
    <3>7. fencedI' => mem' = mem
      BY <1>2, <2>1, <3>1, <3>3, <3>4, <3>5
    <3>8. QED BY <1>2, <2>1, <3>1, <3>3, <3>4, <3>6, <3>7
  <2>2. CASE ~l.ok
    BY <2>2 DEF Store, IInv, TypeOK
  <2>3. QED BY <2>1, <2>2
<1>5. UNCHANGED <<mstatus, icache, tracers, fenced>>
  BY DEF Store
<1> HIDE DEF l
<1>6. QED BY <1>2, <1>3, <1>4, <1>5, TranslatesIInv DEF IInv, TypeOK

\* Both halves of a crossing instruction are translated by the same walks,
\* the second with the bits the first has set.
LEMMA RefillIInv ==
  ASSUME IInv, fenced, fencedI, NEW vpn \in Vpns, NEW i \in 0 .. ICACHE_ENTRIES - 1, refill_icache(vpn, i)
  PROVE  IInv'
<1> DEFINE crosses == vpn \in Crossing
           l == Lookup(Port, vpn, "FETCH")
           t == translate(pt, vpn, "FETCH")
           u == translate(pt, vpn + 1, "FETCH")
<1>1. vpn \in Nat /\ vpn + 1 \in Nat /\ "FETCH" \in Types /\ pt \in PtType
  BY MmuAssumption DEF Types, IInv, TypeOK
<1>2. /\ l.m \in PortType /\ Coherent(l.m) /\ TracedMiss(l.m.tlb) /\ SameWalk(pt, l.m.pt)
      /\ l.ok => l.ppn = t.ppn /\ l.ppn \in 0 .. MemPages - 1
  BY <1>1, LookupTranslates
<1> HIDE DEF l, t, u
<1>3. PICK h \in {IF l.ok /\ crosses THEN Lookup(l.m, vpn + 1, "FETCH") ELSE l} :
        /\ tlb' = h.m.tlb /\ pt' = h.m.pt
        /\ l.ok /\ h.ok =>
             /\ icache' = [icache EXCEPT ![i] =
                  [tag |-> IF Interested("FETCH") THEN NoVpn ELSE vpn,
                   data |-> IF crosses THEN <<mem[l.ppn], mem[h.ppn]>> ELSE <<mem[l.ppn]>>]]
             /\ did' = [type |-> "FETCH", ppn |-> l.ppn, traces |-> Traces("FETCH", l.ppn)]
        /\ ~(l.ok /\ h.ok) => did' = NoAccess /\ UNCHANGED icache
  BY Zenon DEF refill_icache, l
<1>4. Translates(h.m) /\ (crosses /\ l.ok /\ h.ok => h.ppn = u.ppn /\ h.ppn \in 0 .. MemPages - 1)
  <2>1. CASE l.ok /\ crosses
    <3>1. h = Lookup(l.m, vpn + 1, "FETCH")
      BY <1>3, <2>1
    <3>2. /\ h.m \in PortType /\ Coherent(h.m) /\ TracedMiss(h.m.tlb) /\ SameWalk(l.m.pt, h.m.pt)
          /\ h.ok => h.ppn = translate(l.m.pt, vpn + 1, "FETCH").ppn /\ h.ppn \in 0 .. MemPages - 1
      BY <1>1, <1>2, <3>1, LookupCoherent DEF IInv
    <3>3. translate(l.m.pt, vpn + 1, "FETCH") = u
      BY <1>1, <1>2, WalkIgnoresBits DEF PortType, u
    <3>4. SameWalk(pt, h.m.pt)
      BY <1>2, <3>2 DEF SameWalk
    <3>5. QED BY <1>3, <3>2, <3>3, <3>4 DEF Translates
  <2>2. CASE ~(l.ok /\ crosses)
    BY <1>2, <1>3, <2>2 DEF Translates
  <2>3. QED BY <2>1, <2>2
<1>5. UNCHANGED <<mstatus, mem, tracers, fenced, fencedI>>
  BY DEF refill_icache
<1>6. EveryAccessTraced'
  BY <1>3, <1>5, TracedStep
<1>7. icache \in IcacheType /\ mem \in [0 .. MemPages - 1 -> Int] /\ fencedI \in BOOLEAN
  BY DEF IInv, TypeOK
<1>8. CASE l.ok /\ h.ok
  <2> DEFINE new == [tag |-> IF Interested("FETCH") THEN NoVpn ELSE vpn,
                     data |-> IF crosses THEN <<mem[l.ppn], mem[h.ppn]>> ELSE <<mem[l.ppn]>>]
  <2>1. mem[l.ppn] \in Int /\ (crosses => mem[h.ppn] \in Int)
    BY <1>2, <1>4, <1>7, <1>8
  <2>2. new \in [tag : Nat \cup {NoVpn}, data : Seq(Int)]
    BY <1>1, <2>1
  <2>3. new.tag # NoVpn => new.tag = vpn /\ ~Interested("FETCH")
    OBVIOUS
  <2>4. Holds(pt, mem, new)
    BY <1>2, <1>4, <1>8, <2>3 DEF Holds, t, u
  <2>5. icache' = [icache EXCEPT ![i] = new]
    BY <1>3, <1>8
  <2> HIDE DEF new
  <2>6. icache' \in IcacheType /\ \A j \in 0 .. ICACHE_ENTRIES - 1 : icache'[j] = icache[j] \/ icache'[j] = new
    BY <1>7, <2>2, <2>5 DEF IcacheType
  <2>7. QED BY <1>4, <1>5, <1>6, <1>7, <2>3, <2>4, <2>6, TranslatesIInv
<1>9. CASE ~(l.ok /\ h.ok)
  BY <1>3, <1>4, <1>5, <1>6, <1>7, <1>9, TranslatesIInv
<1>10. QED BY <1>8, <1>9

\* A step that changes nothing but the last access.
LEMMA SameCaches ==
  ASSUME IInv, UNCHANGED <<mstatus, pt, tlb, icache, mem, tracers, fenced, fencedI>>, EveryAccessTraced'
  PROVE  IInv'
<1>1. TypeOK'
  BY DEF IInv, TypeOK
<1>2. (OneTranslation /\ TracedMiss(tlb) /\ TracedFetchMiss)'
  BY DEF IInv, OneTranslation, Mode, TracedMiss, TracedFetchMiss, Interested
<1>3. (fenced => Coherent(Port))'
  <2>1. [tlb |-> tlb', pt |-> pt'] = Port
    BY DEF Port
  <2>2. QED BY <2>1, SameStatus DEF IInv
<1>4. IcacheTransparent'
  <2>1. \A vpn : translate(pt, vpn, "FETCH") = translate(pt, vpn, "FETCH")'
    BY DEF translate, Mode
  <2>2. QED BY <2>1 DEF IInv, IcacheTransparent
<1>5. QED BY <1>1, <1>2, <1>3, <1>4 DEF IInv

\* An entry whose tag is there was not traced, and is not traced when it hits.
LEMMA FetchHitIInv == ASSUME IInv, NEW vpn \in Vpns, FetchHit(vpn) PROVE IInv'
<1>1. vpn \in Nat /\ vpn % ICACHE_ENTRIES \in 0 .. ICACHE_ENTRIES - 1 /\ vpn # NoVpn
  BY MmuAssumption DEF NoVpn
<1>2. ~Interested("FETCH")
  BY <1>1 DEF FetchHit, IInv, TracedFetchMiss
<1>3. EveryAccessTraced'
  <2>1. Traces("FETCH", 0) = {}
    BY <1>2 DEF Traces, Interested
  <2>2. QED BY <2>1, TracedStep DEF FetchHit
<1>4. QED BY <1>3, SameCaches DEF FetchHit

\* Every step that flushes both caches, or leaves the caches alone where it
\* does not fence, re-establishes the invariant whatever it changes besides.
LEMMA FlushIInv ==
  ASSUME TypeOK', OneTranslation', flush_tlb, did' = NoAccess
  PROVE  IInv'
<1>1. tlb' = EmptyTlb /\ icache' = EmptyIcache
  BY DEF flush_tlb, flush_icache
<1>2. \A i \in 0 .. TLB_ENTRIES - 1, type \in Types : tlb'[i].tag[type] = NoVpn
  BY <1>1 DEF EmptyTlb
<1>3. \A i \in 0 .. ICACHE_ENTRIES - 1 : icache'[i].tag = NoVpn
  BY <1>1 DEF EmptyIcache
<1>4. Coherent(Port)'
  BY <1>2 DEF Coherent, Port
<1>5. (TracedMiss(tlb) /\ TracedFetchMiss)'
  BY <1>2, <1>3 DEF TracedMiss, TracedFetchMiss, Types
<1>6. IcacheTransparent'
  BY <1>1, <1>3 DEF IcacheTransparent, EmptyIcache
<1>7. EveryAccessTraced'
  BY DEF EveryAccessTraced, NoAccess
<1>8. QED BY <1>4, <1>5, <1>6, <1>7 DEF IInv

\* One translation for all types, in every mode the software enters.
LEMMA SetMstatusIInv == ASSUME IInv, NEW val \in Modes, SetMstatus(val) PROVE IInv'
<1>1. OneTranslation'
  BY MprvAssumption, MmuAssumption DEF SetMstatus, OneTranslation, Mode, Types
<1>2. TypeOK'
  BY MmuAssumption, FlushedType DEF SetMstatus, IInv, TypeOK, flush_tlb, flush_icache
<1>3. QED BY <1>1, <1>2, FlushIInv DEF SetMstatus

LEMMA SfenceIInv == ASSUME IInv, sfence_vm PROVE IInv'
<1>1. OneTranslation'
  BY DEF IInv, sfence_vm, OneTranslation, Mode
<1>2. TypeOK'
  BY FlushedType DEF sfence_vm, IInv, TypeOK, flush_tlb, flush_icache
<1>3. QED BY <1>1, <1>2, FlushIInv DEF sfence_vm

LEMMA RegisterIInv ==
  ASSUME IInv, NEW interest \in Interests, register_memtracer(interest)
  PROVE  IInv'
<1>1. OneTranslation'
  BY DEF IInv, register_memtracer, OneTranslation, Mode
<1>2. TypeOK'
  <2>1. interest \in SUBSET Types
    BY MmuAssumption
  <2>2. Append(tracers, interest) \in Seq(SUBSET Types)
    BY <2>1 DEF IInv, TypeOK
  <2>3. QED BY <2>2, FlushedType DEF register_memtracer, HookTracer, IInv, TypeOK, flush_tlb, flush_icache
<1>3. QED BY <1>1, <1>2, FlushIInv DEF register_memtracer, HookTracer

\* The page tables are not fenced after this: nothing is promised of the TLB.
LEMMA WritePteIInv ==
  ASSUME IInv, NEW table \in Tables \cup {"root"}, NEW idx \in {0, 1}, NEW pte \in Entries, WritePte(table, idx, pte)
  PROVE  IInv'
<1>1. TypeOK'
  <2>1. pt' \in PtType
    BY DEF WritePte, IInv, TypeOK, PtType
  <2>2. QED BY <2>1 DEF WritePte, IInv, TypeOK
<1>2. (OneTranslation /\ TracedMiss(tlb) /\ TracedFetchMiss)'
  BY DEF WritePte, IInv, OneTranslation, Mode, TracedMiss, TracedFetchMiss, Interested
<1>3. (fenced => Coherent(Port))' /\ IcacheTransparent'
  BY DEF WritePte, IcacheTransparent
<1>4. EveryAccessTraced'
  BY DEF WritePte, EveryAccessTraced, NoAccess
<1>5. QED BY <1>1, <1>2, <1>3, <1>4 DEF IInv

LEMMA FenceIInv == ASSUME IInv, fence_i PROVE IInv'
<1>1. TypeOK'
  BY FlushedType DEF fence_i, flush_icache, IInv, TypeOK
<1>2. \A i \in 0 .. ICACHE_ENTRIES - 1 : icache'[i].tag = NoVpn
  BY DEF fence_i, flush_icache, EmptyIcache
<1>3. (OneTranslation /\ TracedMiss(tlb) /\ TracedFetchMiss)'
  BY <1>2 DEF fence_i, IInv, OneTranslation, Mode, TracedMiss, TracedFetchMiss, Interested
<1>4. (fenced => Coherent(Port))'
  <2>1. [tlb |-> tlb', pt |-> pt'] = Port
    BY DEF fence_i, Port
  <2>2. QED BY <2>1, SameStatus DEF fence_i, IInv
<1>5. IcacheTransparent'
  BY <1>1, <1>2 DEF IcacheTransparent, TypeOK, IcacheType
<1>6. EveryAccessTraced'
  BY DEF fence_i, EveryAccessTraced, NoAccess
<1>7. QED BY <1>1, <1>3, <1>4, <1>5, <1>6 DEF IInv

-----------------------------------------------------------------------------
LEMMA StepIInv == IInv /\ [Next]_vars => IInv'
<1> SUFFICES ASSUME IInv, [Next]_vars PROVE IInv'
  OBVIOUS
<1>1. icache \in IcacheType
  BY DEF IInv, TypeOK
<1>2. ASSUME fenced, fencedI, Access PROVE IInv'
  <2>1. PICK vpn \in Vpns : Load(vpn) \/ Store(vpn) \/ FetchHit(vpn) \/ FetchMiss(vpn)
    BY <1>2 DEF Access
  <2>2. CASE FetchMiss(vpn)
    <3>1. vpn % ICACHE_ENTRIES \in 0 .. ICACHE_ENTRIES - 1
      BY MmuAssumption
    <3>2. QED BY <1>2, <2>2, <3>1, RefillIInv DEF FetchMiss
  <2>3. QED BY <1>2, <2>1, <2>2, LoadIInv, StoreIInv, FetchHitIInv
<1>3. ASSUME fenced, fencedI, NEW i \in DOMAIN icache, FetchFollowing(i) PROVE IInv'
  <2>1. i + 1 \in 0 .. ICACHE_ENTRIES - 1
    BY <1>1, <1>3, MmuAssumption DEF IcacheType, FetchFollowing
  <2>2. QED BY <1>3, <2>1, RefillIInv DEF FetchFollowing
<1>4. ASSUME NEW idx \in {0, 1}, NEW pte \in RootPtes, WritePte("root", idx, pte) PROVE IInv'
  BY <1>4, WritePteIInv, MmuAssumption
<1>5. ASSUME NEW t \in Tables, NEW idx \in {0, 1}, NEW pte \in LeafPtes, WritePte(t, idx, pte) PROVE IInv'
  BY <1>5, WritePteIInv, MmuAssumption
<1>6. CASE UNCHANGED vars
  <2>1. EveryAccessTraced'
    BY <1>6 DEF vars, IInv, EveryAccessTraced, Traces
  <2>2. QED BY <1>6, <2>1, SameCaches DEF vars
<1>7. QED BY <1>2, <1>3, <1>4, <1>5, <1>6, SetMstatusIInv, SfenceIInv, FenceIInv, RegisterIInv DEF Next

THEOREM Invariance == Spec => []IInv
<1>1. QED BY InitIInv, StepIInv, PTL DEF Spec

\* A hit of the TLB gives what a walk would give now (mmu.cc:50-102), for
\* every number of entries, whenever the page tables are fenced.
THEOREM TlbIsTransparent == Spec => []TlbTransparent
<1>1. IInv => TlbTransparent
  BY ZenonT(40) DEF IInv, TypeOK, TlbType, Coherent, Port, TlbTransparent
<1>2. QED BY <1>1, Invariance, PTL

\* An entry of the instruction cache holds what its address translates to
\* now (mmu.h:89-135), whichever index it was filled at.
THEOREM IcacheIsTransparent == Spec => []IcacheTransparent
<1>1. IInv => IcacheTransparent
  BY DEF IInv
<1>2. QED BY <1>1, Invariance, PTL

\* No access escapes a tracer that is interested in it (mmu.cc:60-86).
THEOREM AccessesAreTraced == Spec => []EveryAccessTraced
<1>1. IInv => EveryAccessTraced
  BY DEF IInv
<1>2. QED BY <1>1, Invariance, PTL

-----------------------------------------------------------------------------
-----------------------------------------------------------------------------
(* The bus of devices.                                                      *)

LEMMA Sizes ==
    /\ AddrSpace \in Nat \ {0} /\ memsz \in Nat \ {0} /\ Harts \in Nat \ {0}
    /\ max_devtree_size \in Nat \ {0} /\ XlenBytes \in Nat \ {0}
    /\ NCSR \in Nat \ {0} /\ IntSpace \in Nat \ {0}
    /\ RomSize \in Nat /\ RomSize <= max_devtree_size
    /\ cpu_size \in Nat \ {0}
<1>1. NCSR \in Nat \ {0} /\ XlenBytes \in Nat \ {0}
  BY DevicesAssumption
<1>2. NCSR * XlenBytes \in Nat /\ NCSR * XlenBytes > 0
  BY <1>1
<1>3. cpu_size \in Nat \ {0}
  BY <1>2 DEF cpu_size
<1>4. QED BY <1>3, DevicesAssumption

(* The remainder of what lies below the divisor, and of what is at most     *)
(* once around.                                                             *)
LEMMA Remainder ==
    ASSUME NEW d \in Nat \ {0}, NEW n \in Nat
    PROVE  /\ n < d => n % d = n
           /\ d <= n /\ n < 2 * d => n % d = n - d
BY Z3

LEMMA Divided ==
    ASSUME NEW d \in Nat \ {0}, NEW n \in Nat
    PROVE  /\ n \div d \in Nat
           /\ d * (n \div d) <= n /\ n < d * (n \div d) + d
           /\ n % d = n - d * (n \div d) 
BY Z3

LEMMA DivBelow ==
    ASSUME NEW d \in Nat \ {0}, NEW n \in Nat, NEW m \in Nat, n < m * d
    PROVE  n \div d \in 0 .. m - 1
<1> DEFINE q == n \div d
<1>1. q \in Nat /\ d * q <= n
  BY Divided
<1>2. CASE q >= m
  <2>1. d * q >= d * m
    BY <1>1, <1>2, Z3
  <2>2. d * m = m * d
    OBVIOUS
  <2>3. QED BY <1>1, <2>1, <2>2
<1>3. QED BY <1>1, <1>2

(* Multiples of len: the next one is len away at least.                     *)
LEMMA NextMultiple ==
    ASSUME NEW len \in Nat \ {0}, NEW x \in Nat, NEW y \in Nat,
           x % len = 0, y % len = 0, x < y
    PROVE  x + len <= y
<1> DEFINE p == x \div len
           q == y \div len
<1>1. p \in Nat /\ q \in Nat /\ x = len * p /\ y = len * q
  BY Divided
<1> HIDE DEF p, q
<1>2. p < q
  <2>1. CASE q <= p
    <3>1. len * q <= len * p
      BY <1>1, <2>1, Z3
    <3>2. QED BY <1>1, <3>1
  <2>2. QED BY <1>1, <2>1
<1>3. len * (p + 1) <= len * q
  BY <1>1, <1>2, Z3
<1>4. len * (p + 1) = len * p + len
  BY <1>1
<1>5. QED BY <1>1, <1>3, <1>4

LEMMA SumOfMultiples ==
    ASSUME NEW len \in Nat \ {0}, NEW x \in Nat, NEW y \in Nat, NEW k \in Nat,
           x % len = 0, y % len = 0
    PROVE  (x + k * y) % len = 0
<1> DEFINE p == x \div len
           q == y \div len
           n == x + k * y
           m == p + k * q
<1>1. p \in Nat /\ q \in Nat /\ x = len * p /\ y = len * q
  BY Divided
<1> HIDE DEF p, q
<1>2. n \in Nat /\ m \in Nat
  BY <1>1
<1>3. n = len * m
  BY <1>1, Z3 
<1>4. n \div len \in Nat /\ len * (n \div len) <= n /\ n < len * (n \div len) + len
      /\ n % len = n - len * (n \div len)
  BY <1>2, Divided
<1>5. n \div len = m
  <2> HIDE DEF n, m
  <2> DEFINE r == n \div len
  <2>1. r \in Nat /\ len * r <= len * m /\ len * m < len * r + len
    BY <1>3, <1>4
  <2> HIDE DEF r
  <2>2. ~(r < m)
    BY <1>2, <2>1, Z3
  <2>3. ~(r > m)
    BY <1>2, <2>1, Z3
  <2>4. QED BY <1>2, <2>1, <2>2, <2>3 DEF r
<1>6. QED
  <2> HIDE DEF n, m
  <2>1. n % len = 0
    BY <1>2, <1>3, <1>4, <1>5
  <2>2. QED BY <2>1 DEF n

-----------------------------------------------------------------------------
(* Where the devices lie.                                                   *)

LEMMA Bases ==
    /\ \A i \in Nat : cpu_addr(i) \in Nat /\ cpu_addr(i + 1) = cpu_addr(i) + cpu_size
    /\ cpu_addr(0) = memsz + max_devtree_size
    /\ \A i, j \in Nat : i < j => cpu_addr(i) + cpu_size <= cpu_addr(j)
    /\ \A i \in Nat : cpu_addr(0) <= cpu_addr(i)
    /\ cpu_addr(Harts) < AddrSpace
<1> DEFINE c == cpu_size
<1>1. c \in Nat \ {0} /\ memsz \in Nat \ {0} /\ max_devtree_size \in Nat \ {0}
  BY Sizes
<1>2. \A i : cpu_addr(i) = memsz + max_devtree_size + i * c
  BY DEF cpu_addr
<1> HIDE DEF c
<1>3. \A i \in Nat : i * c \in Nat /\ (i + 1) * c = i * c + c
  BY <1>1
<1>4. \A i \in Nat : cpu_addr(i) \in Nat /\ cpu_addr(i + 1) = cpu_addr(i) + c
  BY <1>1, <1>2, <1>3
<1>5. 0 * c = 0
  BY <1>1
<1>6. \A i, j \in Nat : i < j => i * c + c <= j * c
  <2> SUFFICES ASSUME NEW i \in Nat, NEW j \in Nat, i < j PROVE i * c + c <= j * c
    OBVIOUS
  <2>1. (i + 1) * c <= j * c
    BY <1>1, Z3
  <2>2. QED BY <2>1, <1>3
<1>7. \A i, j \in Nat : i < j => cpu_addr(i) + c <= cpu_addr(j)
  BY <1>1, <1>2, <1>3, <1>6
<1>8. \A i \in Nat : cpu_addr(0) <= cpu_addr(i)
  BY <1>1, <1>2, <1>3, <1>5
<1>9. cpu_addr(Harts) < AddrSpace
  BY DevicesAssumption
<1>10. QED BY <1>1, <1>2, <1>4, <1>5, <1>7, <1>8, <1>9 DEF c


LEMMA AboveRom == \A i \in Nat : memsz < cpu_addr(i)
<1> SUFFICES ASSUME NEW i \in Nat PROVE memsz < cpu_addr(i)
  OBVIOUS
<1>1. cpu_addr(0) <= cpu_addr(i) /\ cpu_addr(i) \in Nat
  BY Bases
<1>2. cpu_addr(0) = memsz + max_devtree_size
  BY Bases
<1>3. QED BY <1>1, <1>2, Sizes

LEMMA PlacedBases ==
    ASSUME NEW d \in Placed
    PROVE  /\ d[1] \in memsz .. AddrSpace - 1 /\ d[1] > 0
           /\ \/ d = <<memsz, Rom>>
              \/ \E i \in 0 .. Harts - 1 : d = <<cpu_addr(i), Hart(i)>>
<1>1. \/ d = <<memsz, Rom>>
      \/ \E i \in 0 .. Harts - 1 : d = <<cpu_addr(i), Hart(i)>>
  BY DEF Placed
<1>2. CASE d = <<memsz, Rom>>
  <2>1. memsz < AddrSpace
    BY Bases, Sizes
  <2>2. QED BY <2>1, <1>2, <1>1, Sizes
<1>3. CASE \E i \in 0 .. Harts - 1 : d = <<cpu_addr(i), Hart(i)>>
  <2>1. PICK i \in 0 .. Harts - 1 : d = <<cpu_addr(i), Hart(i)>>
    BY <1>3
  <2>2. i \in Nat /\ i < Harts /\ Harts \in Nat
    BY Sizes
  <2>3. cpu_addr(i) \in Nat /\ cpu_addr(Harts) \in Nat /\ cpu_addr(0) \in Nat
    BY <2>2, Bases
  <2>4. memsz < cpu_addr(i)
    BY <2>2, AboveRom
  <2>6. cpu_addr(i) < AddrSpace
    <3>1. cpu_addr(i) + cpu_size <= cpu_addr(Harts)
      BY <2>2, Bases
    <3>2. cpu_addr(Harts) < AddrSpace /\ cpu_size \in Nat \ {0} /\ AddrSpace \in Nat
      BY Bases, Sizes
    <3>3. QED BY <3>1, <3>2, <2>3
  <2>5. QED BY <2>1, <2>3, <2>4, <2>6, <1>1, Sizes
<1>4. QED BY <1>1, <1>2, <1>3

(* Two devices have different bases.                                        *)
LEMMA BasesDiffer == \A d, e \in Placed : d[1] = e[1] => d = e
<1> SUFFICES ASSUME NEW d \in Placed, NEW e \in Placed, d[1] = e[1] PROVE d = e
  OBVIOUS
<1>1. \A i \in 0 .. Harts - 1 : i \in Nat /\ cpu_addr(i) \in Nat /\ memsz < cpu_addr(i)
  <2> SUFFICES ASSUME NEW i \in 0 .. Harts - 1
               PROVE  i \in Nat /\ cpu_addr(i) \in Nat /\ memsz < cpu_addr(i)
    OBVIOUS
  <2>1. i \in Nat
    BY Sizes
  <2>2. QED BY <2>1, AboveRom, Bases
<1>2. \A i, j \in 0 .. Harts - 1 : cpu_addr(i) = cpu_addr(j) => i = j
  <2> SUFFICES ASSUME NEW i \in 0 .. Harts - 1, NEW j \in 0 .. Harts - 1, i < j
               PROVE  cpu_addr(i) # cpu_addr(j)
    BY Sizes
  <2>1. i \in Nat /\ j \in Nat
    OBVIOUS
  <2>2. QED BY <2>1, Bases, Sizes
<1>3. \/ d = <<memsz, Rom>>
      \/ \E i \in 0 .. Harts - 1 : d = <<cpu_addr(i), Hart(i)>>
  BY PlacedBases
<1>4. \/ e = <<memsz, Rom>>
      \/ \E i \in 0 .. Harts - 1 : e = <<cpu_addr(i), Hart(i)>>
  BY PlacedBases
<1>5. memsz \in Nat
  BY Sizes
<1>6. QED BY <1>1, <1>2, <1>3, <1>4, <1>5

LEMMA Negated ==
    ASSUME NEW addr \in 1 .. AddrSpace - 1
    PROVE  Neg(addr) = AddrSpace - addr /\ Neg(addr) \in 1 .. AddrSpace - 1
<1>1. AddrSpace \in Nat \ {0} /\ AddrSpace - addr \in Nat /\ AddrSpace - addr < AddrSpace
  BY Sizes
<1>2. (AddrSpace - addr) % AddrSpace = AddrSpace - addr
  BY <1>1, Remainder
<1>3. QED BY <1>1, <1>2 DEF Neg, Mod

LEMMA NegatedTwice == \A addr \in 1 .. AddrSpace - 1 : Neg(Neg(addr)) = addr
BY Negated, Sizes

LEMMA Map ==
    /\ DOMAIN devices = {Neg(d[1]) : d \in Placed}
    /\ \A d \in Placed : devices[Neg(d[1])] = d[2]
<1>1. DOMAIN devices = {Neg(d[1]) : d \in Placed}
  BY DEF devices
<1>2. ASSUME NEW d \in Placed PROVE devices[Neg(d[1])] = d[2]
  <2> DEFINE key == Neg(d[1])
             e == CHOOSE e \in Placed : Neg(e[1]) = key
  <2>1. devices[key] = e[2]
    BY DEF devices
  <2>2. e \in Placed /\ Neg(e[1]) = key
    OBVIOUS
  <2>3. d[1] \in 1 .. AddrSpace - 1 /\ e[1] \in 1 .. AddrSpace - 1
    BY <2>2, PlacedBases, Sizes
  <2>4. e[1] = d[1]
    BY <2>2, <2>3, NegatedTwice
  <2>5. e = d
    BY <2>2, <2>4, BasesDiffer
  <2>6. QED BY <2>1, <2>5
<1>3. QED BY <1>1, <1>2

(* The device found is the one with the last base at or before the address. *)
LEMMA Found ==
    ASSUME NEW addr \in memsz .. AddrSpace - 1, NEW d \in Placed, d[1] <= addr,
           \A e \in Placed : e[1] <= addr => e[1] <= d[1]
    PROVE  /\ lower_bound(addr) # {}
           /\ Min(lower_bound(addr)) = Neg(d[1])
           /\ devices[Min(lower_bound(addr))] = d[2]
           /\ Neg(Min(lower_bound(addr))) = d[1]
<1>1. addr \in 1 .. AddrSpace - 1 /\ \A e \in Placed : e[1] \in 1 .. AddrSpace - 1
  BY PlacedBases, Sizes
<1> DEFINE found == lower_bound(addr)
<1>2. found = {key \in {Neg(e[1]) : e \in Placed} : key >= Neg(addr)}
  BY Map DEF lower_bound
<1>3. Neg(d[1]) \in found
  <2>1. Neg(d[1]) = AddrSpace - d[1] /\ Neg(addr) = AddrSpace - addr
    BY <1>1, Negated
  <2>2. QED BY <1>1, <1>2, <2>1, Sizes
<1>4. \A key \in found : Neg(d[1]) <= key
  <2> SUFFICES ASSUME NEW key \in found PROVE Neg(d[1]) <= key
    OBVIOUS
  <2>1. PICK e \in Placed : key = Neg(e[1])
    BY <1>2
  <2>2. Neg(e[1]) >= Neg(addr)
    BY <1>2, <2>1
  <2>3. Neg(d[1]) = AddrSpace - d[1] /\ Neg(addr) = AddrSpace - addr /\ Neg(e[1]) = AddrSpace - e[1]
    BY <1>1, Negated
  <2>4. e[1] <= addr
    BY <1>1, <2>2, <2>3, Sizes
  <2>5. QED BY <1>1, <2>1, <2>3, <2>4, Sizes
<1>5. \A key \in found : key \in Int
  BY <1>1, <1>2, Negated
<1> HIDE DEF found
<1>6. Min(found) = Neg(d[1])
  <2>1. Min(found) \in found /\ \A y \in found : Min(found) =< y
    BY <1>3, <1>4 DEF Min
  <2>2. QED BY <1>3, <1>4, <1>5, <2>1
<1>7. QED
  BY <1>1, <1>3, <1>6, Map, NegatedTwice DEF found

-----------------------------------------------------------------------------
(* The three places an address can be.                                      *)

LEMMA BeforeHarts ==
    ASSUME NEW addr \in memsz .. AddrSpace - 1, addr < cpu_addr(0)
    PROVE  /\ lower_bound(addr) # {}
           /\ devices[Min(lower_bound(addr))] = Rom
           /\ Neg(Min(lower_bound(addr))) = memsz
<1> DEFINE d == <<memsz, Rom>>
<1>1. d \in Placed /\ d[1] = memsz /\ d[2] = Rom
  BY DEF Placed
<1>2. memsz <= addr
  BY Sizes
<1>3. ASSUME NEW e \in Placed, e[1] <= addr PROVE e[1] <= memsz
  <2>1. \A i \in 0 .. Harts - 1 : cpu_addr(0) <= cpu_addr(i) /\ cpu_addr(i) \in Nat
    <3>1. \A i \in 0 .. Harts - 1 : i \in Nat
      BY Sizes
    <3>2. QED BY <3>1, Bases
  <2>2. e[1] \in Nat /\ (e[1] = memsz \/ \E i \in 0 .. Harts - 1 : e[1] = cpu_addr(i))
    BY PlacedBases, Sizes
  <2>3. cpu_addr(0) \in Nat
    BY Bases
  <2>4. QED BY <1>3, <2>1, <2>2, <2>3, Sizes
<1> HIDE DEF d
<1>4. QED BY <1>1, <1>2, <1>3, Found

LEMMA AtHart ==
    ASSUME NEW addr \in memsz .. AddrSpace - 1, NEW i \in 0 .. Harts - 1,
           cpu_addr(i) <= addr, addr < cpu_addr(i + 1)
    PROVE  /\ lower_bound(addr) # {}
           /\ devices[Min(lower_bound(addr))] = Hart(i)
           /\ Neg(Min(lower_bound(addr))) = cpu_addr(i)
<1> DEFINE d == <<cpu_addr(i), Hart(i)>>
<1>1. d \in Placed /\ d[1] = cpu_addr(i) /\ d[2] = Hart(i)
  BY DEF Placed
<1>2. i \in Nat /\ cpu_addr(i) \in Nat /\ cpu_addr(i + 1) = cpu_addr(i) + cpu_size
  BY Bases, Sizes
<1>3. ASSUME NEW e \in Placed, e[1] <= addr PROVE e[1] <= cpu_addr(i)
  <2>1. CASE e[1] = memsz
    BY <1>2, <2>1, AboveRom, Sizes
  <2>2. ASSUME NEW j \in 0 .. Harts - 1, e[1] = cpu_addr(j) PROVE e[1] <= cpu_addr(i)
    <3>1. j \in Nat /\ cpu_addr(j) \in Nat
      <4>1. j \in Nat
        BY Sizes
      <4>2. QED BY <4>1, Bases
    <3>2. CASE i < j
      BY <1>2, <1>3, <2>2, <3>1, <3>2, Bases, Sizes
    <3>3. CASE j <= i
      BY <1>2, <2>2, <3>1, <3>3, Bases, Sizes
    <3>4. QED BY <1>2, <3>1, <3>2, <3>3
  <2>3. e[1] = memsz \/ \E j \in 0 .. Harts - 1 : e[1] = cpu_addr(j)
    BY PlacedBases
  <2>4. QED BY <2>1, <2>2, <2>3
<1> HIDE DEF d
<1>4. QED BY <1>1, <1>3, Found

(* Behind the ROM's place every address is that of one hart.                *)
LEMMA InOneHart ==
    ASSUME NEW addr \in Nat, cpu_addr(0) <= addr, addr < cpu_addr(Harts)
    PROVE  \E i \in 0 .. Harts - 1 : cpu_addr(i) <= addr /\ addr < cpu_addr(i + 1)
<1> DEFINE n == addr - cpu_addr(0)
           i == n \div cpu_size
<1>1. cpu_addr(0) \in Nat /\ cpu_size \in Nat \ {0} /\ Harts \in Nat
  BY Bases, Sizes
<1>2. \A k \in Nat : cpu_addr(k) = cpu_addr(0) + k * cpu_size /\ k * cpu_size = cpu_size * k
                     /\ cpu_size * k \in Nat
  <2>1. \A k \in Nat : cpu_addr(k) = memsz + max_devtree_size + k * cpu_size
    BY DEF cpu_addr
  <2>2. \A k \in Nat : k * cpu_size = cpu_size * k /\ cpu_size * k \in Nat
    BY <1>1
  <2>3. QED BY <2>1, <2>2, Bases, Sizes
<1>3. n \in Nat /\ n < Harts * cpu_size
  BY <1>1, <1>2
<1>4. i \in 0 .. Harts - 1
  BY <1>1, <1>3, DivBelow
<1>5. cpu_size * i <= n /\ n < cpu_size * i + cpu_size
  BY <1>1, <1>3, Divided
<1>6. i \in Nat /\ cpu_addr(i) = cpu_addr(0) + cpu_size * i /\ cpu_addr(i + 1) = cpu_addr(i) + cpu_size
  BY <1>2, <1>4, Bases
<1> HIDE DEF i
<1>7. cpu_addr(i) <= addr /\ addr < cpu_addr(i + 1)
  BY <1>1, <1>5, <1>6
<1>8. QED BY <1>4, <1>7

LEMMA InRom ==
    ASSUME NEW addr \in memsz .. AddrSpace - 1, NEW len \in Lens, NEW store \in BOOLEAN,
           addr < cpu_addr(0), addr + len < AddrSpace
    PROVE  bus_access(addr, len, store) = Owner(addr, len, store)
<1> DEFINE off == addr - memsz
<1>1. len \in Nat /\ off \in Nat /\ off + len < AddrSpace /\ AddrSpace \in Nat \ {0} /\ memsz \in Nat
  BY DevicesAssumption, Sizes
<1>8. off + len \in Nat /\ off < AddrSpace
  BY <1>1
<1>2. Mod(off) = off /\ Mod(off + len) = off + len
  BY <1>1, <1>8, Remainder DEF Mod
<1>3. bus_access(addr, len, store) = rom_access(off, len, store)
  BY <1>2, BeforeHarts DEF bus_access
<1>4. HartsAt(addr, len) = {}
  <2>1. ASSUME NEW i \in 0 .. Harts - 1 PROVE ~(addr >= cpu_addr(i))
    <3>1. i \in Nat
      BY Sizes
    <3>2. cpu_addr(0) <= cpu_addr(i) /\ cpu_addr(i) \in Nat /\ cpu_addr(0) \in Nat
      BY <3>1, Bases
    <3>3. addr \in Int
      BY Sizes
    <3>4. QED BY <3>2, <3>3
  <2>2. QED BY <2>1 DEF HartsAt
<1>5. (addr >= memsz /\ addr + len <= memsz + RomSize) <=> off + len <= RomSize
  BY <1>1, Sizes
<1>6. (off + len > RomSize) <=> ~(off + len <= RomSize)
  BY <1>1, Sizes
<1>7. QED BY <1>2, <1>3, <1>4, <1>5, <1>6 DEF rom_access, Owner

LEMMA Ends ==
    ASSUME NEW addr \in Nat, NEW len \in Lens, addr % len = 0, NEW i \in Nat,
           addr < cpu_addr(i)
    PROVE  addr + len <= cpu_addr(i)
<1> DEFINE start == memsz + max_devtree_size
<1>1. len \in Nat \ {0} /\ start \in Nat /\ cpu_size \in Nat
  BY DevicesAssumption, Sizes
<1>2. start % len = 0 /\ cpu_size % len = 0
  BY DevicesAssumption DEF Aligned
<1>3. cpu_addr(i) = start + i * cpu_size
  BY DEF cpu_addr
<1>4. (start + i * cpu_size) % len = 0
  <2> HIDE DEF start
  <2>1. QED BY <1>1, <1>2, SumOfMultiples
<1>5. cpu_addr(i) \in Nat /\ cpu_addr(i) % len = 0
  BY <1>3, <1>4, Bases
<1>6. QED BY <1>1, <1>5, NextMultiple

LEMMA InHart ==
    ASSUME NEW addr \in memsz .. AddrSpace - 1, NEW len \in Lens, NEW store \in BOOLEAN,
           cpu_addr(0) <= addr, addr < cpu_addr(Harts), addr % len = 0
    PROVE  bus_access(addr, len, store) = Owner(addr, len, store)
<1>1. /\ addr \in Nat /\ len \in Nat \ {0} /\ AddrSpace \in Nat \ {0}
      /\ cpu_addr(0) \in Nat /\ cpu_size \in Nat \ {0}
  BY DevicesAssumption, Sizes, Bases
<1>2. PICK i \in 0 .. Harts - 1 : cpu_addr(i) <= addr /\ addr < cpu_addr(i + 1)
  BY <1>1, InOneHart
<1>3. i \in Nat /\ i + 1 \in Nat
  BY Sizes
<1>4. cpu_addr(i) \in Nat /\ cpu_addr(i + 1) = cpu_addr(i) + cpu_size
  BY <1>3, Bases
<1> DEFINE off == addr - cpu_addr(i)
<1>5. off \in Nat /\ off < cpu_size /\ off < AddrSpace
  BY <1>1, <1>2, <1>4
<1>6. Mod(off) = off
  BY <1>1, <1>5, Remainder DEF Mod
<1>7. bus_access(addr, len, store) = csr_access(i, off)
  <2> DEFINE key == Min(lower_bound(addr))
  <2>1. lower_bound(addr) # {} /\ devices[key] = Hart(i) /\ Neg(key) = cpu_addr(i)
    BY <1>2, AtHart
  <2>2. Hart(i) # Rom /\ Hart(i).id = i
    <3>1. Hart(i).name = "hart" /\ Hart(i).id = i /\ Rom.name = "rom"
      BY DEF Hart, Rom
    <3>2. QED BY <3>1
  <2>3. QED BY <1>6, <2>1, <2>2 DEF bus_access
<1>8. csr(addr, i) \in Nat /\ csr(addr, i) < IntSpace
  <2>1. off \div XlenBytes \in 0 .. NCSR - 1
    BY <1>5, Sizes, DivBelow DEF cpu_size
  <2>2. NCSR <= IntSpace
    BY DevicesAssumption
  <2>3. QED BY <2>1, <2>2, Sizes DEF csr
<1>9. csr(addr, i) % IntSpace = csr(addr, i)
  BY <1>8, Sizes, Remainder
<1>10. csr_access(i, off) = IF csr(addr, i) \in Implemented
                            THEN [by |-> "hart", id |-> i, word |-> csr(addr, i)] ELSE Nobody
  BY <1>9 DEF csr_access, csr
<1>11. ASSUME NEW j \in HartsAt(addr, len) PROVE j = i
  <2>1. j \in 0 .. Harts - 1 /\ addr >= cpu_addr(j) /\ addr + len <= cpu_addr(j + 1)
    BY DEF HartsAt
  <2>2. j \in Nat /\ j + 1 \in Nat
    BY <2>1, Sizes
  <2>3. cpu_addr(j) \in Nat /\ cpu_addr(j + 1) = cpu_addr(j) + cpu_size
    BY <2>2, Bases
  <2>4. CASE i < j
    <3>1. cpu_addr(i) + cpu_size <= cpu_addr(j)
      BY <1>3, <2>2, <2>4, Bases
    <3>2. QED BY <1>1, <1>2, <1>4, <2>1, <2>3, <3>1
  <2>5. CASE j < i
    <3>1. cpu_addr(j) + cpu_size <= cpu_addr(i)
      BY <1>3, <2>2, <2>5, Bases
    <3>2. QED BY <1>1, <1>2, <1>4, <2>1, <2>3, <3>1
  <2>6. QED BY <1>3, <2>2, <2>4, <2>5
<1>12. HartsAt(addr, len) = IF csr(addr, i) \in Implemented THEN {i} ELSE {}
  <2>1. addr + len <= cpu_addr(i + 1)
    BY <1>1, <1>2, <1>3, Ends
  <2>2. i \in HartsAt(addr, len) <=> csr(addr, i) \in Implemented
    BY <1>1, <1>2, <1>4, <2>1 DEF HartsAt
  <2>3. QED BY <1>11, <2>2
<1>13. ~(addr + len <= memsz + RomSize)
  BY <1>1, Bases, Sizes
<1>14. QED BY <1>7, <1>10, <1>12, <1>13 DEF Owner

LEMMA Reaches ==
    ASSUME NEW addr \in 0 .. AddrSpace - 1, NEW len \in Lens, NEW store \in BOOLEAN,
           addr % len = 0, addr >= memsz, addr < cpu_addr(Harts)
    PROVE  mmio_access(addr, len, store) = Owner(addr, len, store)
<1>1. /\ addr \in memsz .. AddrSpace - 1 /\ addr \in Nat
      /\ len \in 1 .. AddrSpace - 1 /\ len \in Nat \ {0} /\ AddrSpace \in Nat \ {0}
      /\ cpu_addr(Harts) \in Nat /\ cpu_addr(Harts) < AddrSpace /\ cpu_addr(0) \in Nat
  BY DevicesAssumption, Sizes, Bases
<1>2. addr + len <= cpu_addr(Harts)
  BY <1>1, Ends, Sizes
<1>3. addr + len < AddrSpace /\ addr + len \in Nat
  BY <1>1, <1>2
<1>4. Mod(addr + len) = addr + len
  BY <1>1, <1>3, Remainder DEF Mod
<1>5. mmio_access(addr, len, store) = bus_access(addr, len, store)
  BY <1>1, <1>4 DEF mmio_access
<1>6. CASE addr < cpu_addr(0)
  BY <1>1, <1>3, <1>5, <1>6, InRom
<1>7. CASE cpu_addr(0) <= addr
  BY <1>1, <1>5, <1>7, InHart
<1>8. QED BY <1>1, <1>6, <1>7

-----------------------------------------------------------------------------
(* Every access beyond memory and below the last hart's end is answered by  *)
(* the device its bytes lie in, or by nobody if they lie in none            *)
(* (devices.cc:8-40, sim.cc:145-157).  The property speaks of the access    *)
(* just made, so it is inductive once the look-up has been shown to find    *)
(* the owner of every address.                                              *)
THEOREM MmioIsRouted == DevicesSpec => []MmioReachesOwner
<1>1. DevicesInit => MmioReachesOwner
  BY DEF DevicesInit, MmioReachesOwner
<1>2. MmioReachesOwner /\ [DevicesNext]_bvars => MmioReachesOwner'
  <2> SUFFICES ASSUME MmioReachesOwner, [DevicesNext]_bvars PROVE MmioReachesOwner'
    OBVIOUS
  <2>1. CASE UNCHANGED bvars
    BY <2>1 DEF bvars, MmioReachesOwner
  <2>2. CASE DevicesNext
    <3>1. PICK addr \in 0 .. AddrSpace - 1, len \in Lens, store \in BOOLEAN :
              Mmio(addr, len, store)
      BY <2>2 DEF DevicesNext
    <3>2. addr < cpu_addr(Harts) => mmio_access(addr, len, store) = Owner(addr, len, store)
      BY <3>1, Reaches DEF Mmio
    <3>3. QED BY <3>1, <3>2 DEF Mmio, MmioReachesOwner
  <2>3. QED BY <2>1, <2>2
<1>3. QED BY <1>1, <1>2, PTL DEF DevicesSpec
=============================================================================
