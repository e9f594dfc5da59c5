---------------------------- MODULE DirectoryProofs ----------------------------
(***************************************************************************)
(* Theorems about the directory bank.  Its types and one-hot tags hold for *)
(* all traffic and all sizes.  Coherence, and the bookkeeping of requests, *)
(* hold under the traffic of RequestsOnly, for any numbers of slots,       *)
(* lines, ways and requests, and as many nodes as an entry has pointers.   *)
(***************************************************************************)
EXTENDS DirectoryBank, FiniteSetTheorems, NaturalsInduction, TLAPS

-----------------------------------------------------------------------------
(* Slots, positions and the encoders that pick the lowest one.             *)

LEMMA LeastNat ==
    ASSUME NEW S \in SUBSET Nat, S # {}
    PROVE  \E m \in S : \A k \in S : m <= k
<1> DEFINE R == {ss \in Nat \X Nat : ss[1] < ss[2]}
<1>1. OpToRel(<, Nat) = R
  BY DEF OpToRel
<1>2. IsWellFoundedOn(R, Nat)
  BY <1>1, NatLessThanWellFounded
<1> HIDE DEF R
<1>3. PICK m \in S : \A k \in S : ~(<<k, m>> \in R)
  BY <1>2, WFMin
<1>4. ASSUME NEW k \in S PROVE m <= k
  <2>1. ~(<<k, m>> \in R) /\ k \in Nat /\ m \in Nat
    BY <1>3
  <2>2. QED BY <2>1 DEF R
<1>5. QED BY <1>4

LEMMA LowestIn ==
    ASSUME NEW S \in SUBSET Nat, S # {}
    PROVE  Lowest(S) \in S /\ \A k \in S : Lowest(S) <= k
BY LeastNat DEF Lowest

LEMMA Positive == NumPointers \in Nat \ {0} /\ NumWays \in Nat \ {0} /\ NumSlots \in Nat \ {0}
BY SizeAssumption, DirectoryAssumption

LEMMA PointersAreNats == Pointers \subseteq Nat /\ Ways \subseteq Nat /\ 0 \in Pointers /\ NumWays - 1 \in Ways
BY Positive DEF Pointers, Ways

LEMMA SlotOfType == \A drid \in Drid : SlotOf(drid) \in Slots
BY Positive, Z3 DEF Drid, SlotOf, Slots

LEMMA SlotOfNamed == \A drid \in Drid : drid # 0 => SlotOf(drid) = drid - 1
<1> SUFFICES ASSUME NEW drid \in Drid, drid # 0 PROVE SlotOf(drid) = drid - 1
  OBVIOUS
<1> DEFINE N == NumSlots
<1>1. N \in Nat \ {0} /\ drid \in 1 .. N
  BY Positive DEF Drid
<1> HIDE DEF N
<1>2. (drid + N - 1) % N = drid - 1
  BY <1>1, Z3
<1>3. QED BY <1>2 DEF N, SlotOf

LEMMA SlotNames == \A s \in Slots : s + 1 \in Drid /\ s + 1 # 0 /\ SlotOf(s + 1) = s
<1> SUFFICES ASSUME NEW s \in Slots PROVE s + 1 \in Drid /\ s + 1 # 0 /\ SlotOf(s + 1) = s
  OBVIOUS
<1>1. s \in Nat /\ s + 1 \in Drid /\ s + 1 # 0
  BY Positive DEF Slots, Drid
<1>2. QED BY <1>1, SlotOfNamed

LEMMA NamesOneSlot ==
    \A drid \in Drid : drid # 0 => drid = SlotOf(drid) + 1 /\ SlotOf(drid) \in Slots
BY SlotOfNamed, SlotOfType, Positive DEF Drid

-----------------------------------------------------------------------------
(* Entries and tags.                                                       *)

LEMMA EmptyEntryType == EmptyEntry \in Entry
BY DEF EmptyEntry, Entry

LEMMA NewEntryType == \A n \in Nodes, shared \in BOOLEAN : NewEntry(n, shared) \in Entry
BY PointersAreNats, EmptyEntryType DEF NewEntry, EmptyEntry, Entry, Nodes

LEMMA UsedPointers == \A e \in Entry : Used(e) \subseteq Pointers /\ Used(e) \subseteq Nat
BY PointersAreNats DEF Used

LEMMA WithoutPointerType == \A e \in Entry, p \in Pointers : WithoutPointer(e, p) \in Entry
BY DEF WithoutPointer, Entry

LEMMA WithoutRequesterType == \A e \in Entry, n \in Nodes : WithoutRequester(e, n) \in Entry
<1> SUFFICES ASSUME NEW e \in Entry, NEW n \in Nodes PROVE WithoutRequester(e, n) \in Entry
  OBVIOUS
<1> DEFINE own == {p \in Pointers : e.nid[p] = n}
<1>1. own # {} => Lowest(own) \in Pointers
  BY PointersAreNats, LowestIn
<1>2. QED BY <1>1, WithoutPointerType DEF WithoutRequester

LEMMA UpdatedEntryType == \A e \in Entry, n \in Nodes : UpdatedEntry(e, n) \in Entry
<1> SUFFICES ASSUME NEW e \in Entry, NEW n \in Nodes PROVE UpdatedEntry(e, n) \in Entry
  OBVIOUS
<1> DEFINE free == Pointers \ Used(e)
<1>1. free # {} => Lowest(free) \in Pointers
  BY PointersAreNats, LowestIn
<1>2. QED BY <1>1 DEF UpdatedEntry, Entry, Nodes

LEMMA LaterType ==
    \A e \in Entry, pos \in Pointers :
        /\ Later(e, pos) \subseteq Pointers /\ Later(e, pos) \subseteq Nat
        /\ Later(e, pos) # {} => Lowest(Later(e, pos)) \in Later(e, pos) /\ Lowest(Later(e, pos)) \in Pointers
<1> SUFFICES ASSUME NEW e \in Entry, NEW pos \in Pointers
             PROVE  /\ Later(e, pos) \subseteq Pointers /\ Later(e, pos) \subseteq Nat
                    /\ Later(e, pos) # {} => Lowest(Later(e, pos)) \in Later(e, pos)
                                             /\ Lowest(Later(e, pos)) \in Pointers
  OBVIOUS
<1>1. Later(e, pos) \subseteq Pointers /\ Later(e, pos) \subseteq Nat
  BY UsedPointers DEF Later
<1>2. QED BY <1>1, LowestIn

LEMMA WayType == \A ways, hash : tag_pos_next(ways, hash) \in Ways
<1> SUFFICES ASSUME NEW ways, NEW hash PROVE tag_pos_next(ways, hash) \in Ways
  OBVIOUS
<1> DEFINE wanted == {w \in Ways : (ways[w] # NoTag) = tag_hit(ways, hash)}
<1>1. wanted # {} => Lowest(wanted) \in Ways
  BY PointersAreNats, LowestIn
<1>2. QED BY <1>1, PointersAreNats DEF tag_pos_next

LEMMA TagsAfterType ==
    ASSUME NEW r \in Stage, tags \in [Sets -> [Ways -> {HashOf[l] : l \in Lines} \cup {NoTag}]]
    PROVE  TagsAfter(r) \in [Sets -> [Ways -> {HashOf[l] : l \in Lines} \cup {NoTag}]]
<1>1. r.paddr \in Lines /\ TagSet(r) \in Sets /\ TagWay(r) \in Ways
  BY WayType DEF Stage, TagSet, TagWay, Sets
<1>2. QED BY <1>1 DEF TagsAfter

LEMMA EntriesWithType ==
    ASSUME NEW r \in Stage, NEW e \in Entry, entries \in [Sets -> [Ways -> Entry]]
    PROVE  EntriesWith(r, e) \in [Sets -> [Ways -> Entry]]
<1>1. r.paddr \in Lines /\ TagSet(r) \in Sets /\ TagWay(r) \in Ways
  BY WayType DEF Stage, TagSet, TagWay, Sets
<1>2. QED BY <1>1 DEF EntriesWith

-----------------------------------------------------------------------------
(* Types.                                                                  *)

Queue(S) == {q \in Seq(S) : Len(q) <= 2}

LEMMA Put ==
    ASSUME NEW S, NEW q \in Queue(S), NEW x \in S, Room(q)
    PROVE  Append(q, x) \in Queue(S)
BY DEF Queue, Room

LEMMA Get ==
    ASSUME NEW S, NEW q \in Queue(S), q # << >>
    PROVE  Head(q) \in S /\ Tail(q) \in Queue(S)
<1>1. q \in Seq(S) /\ Len(q) <= 2 /\ Len(q) \in Nat /\ Len(q) # 0
  BY DEF Queue
<1>2. Head(q) \in S /\ Tail(q) \in Seq(S) /\ Len(Tail(q)) = Len(q) - 1
  BY <1>1
<1>3. QED BY <1>1, <1>2 DEF Queue

Fetched == [req : Stage, entry : Entry]
Prefetch == [nid : Nid, paddr : Lines]
QueueFlops == [tag_req : Queue(Stage), entry : Queue(Fetched), mem : Queue(MemReq),
               snack : Queue(Msg), disp_snack : Queue(Msg), wb : Queue(Lines),
               dack : Queue(Nodes), release : Queue(Slots), pfreq : Queue(Prefetch)]

LEMMA FlopsAreQueues ==
    \A f : f \in Flops /\ (\A q \in DOMAIN f : Len(f[q]) <= 2) <=> f \in QueueFlops
<1>1. ASSUME NEW f, f \in Flops, \A q \in DOMAIN f : Len(f[q]) <= 2 PROVE f \in QueueFlops
  BY <1>1 DEF Flops, QueueFlops, Queue, Fetched, Prefetch
<1>2. ASSUME NEW f, f \in QueueFlops PROVE f \in Flops /\ \A q \in DOMAIN f : Len(f[q]) <= 2
  <2>1. f \in Flops
    BY <1>2 DEF Flops, QueueFlops, Queue, Fetched, Prefetch
  <2>2. \A q \in DOMAIN f : Len(f[q]) <= 2
    BY <1>2 DEF QueueFlops, Queue
  <2>3. QED BY <2>1, <2>2
<1>3. QED BY <1>1, <1>2

RegistersOK ==
    /\ req_buf \in [Slots -> Outstanding] /\ entry_buf \in [Slots -> SnoopState]
    /\ tags \in [Sets -> [Ways -> {HashOf[l] : l \in Lines} \cup {NoTag}]]
    /\ entries \in [Sets -> [Ways -> Entry]] /\ latch \in Latches
FlopsAreTyped == ff \in QueueFlops
PeersOK ==
    /\ copy \in [Nid -> [Lines -> {"I", "S", "M"}]]
    /\ asked \subseteq Request /\ sent \in 0 .. MaxReq
    /\ snoops \subseteq Msg /\ disp \subseteq Reply /\ snoop_ack \subseteq Drid
    /\ memory \subseteq MemAnswer
Typed == RegistersOK /\ FlopsAreTyped /\ PeersOK

LEMMA TypedIsTypeOK == Typed <=> TypeOK
BY FlopsAreQueues DEF Typed, RegistersOK, FlopsAreTyped, PeersOK, TypeOK, FlopsOK

LEMMA WordTypes ==
    /\ \A c \in BOOLEAN, cmd \in 0 .. 2, l \in Lines, n \in Nodes, d \in Drid :
          StageOf(c, cmd, l, n, d) \in Stage
    /\ \A d \in Drid, n \in Nodes, l \in Lines, cmd \in 0 .. 2 : Snoop(d, n, l, cmd) \in Msg
    /\ \A d \in Drid, l \in Lines, cmd \in 0 .. 2 : [drid |-> d, paddr |-> l, cmd |-> cmd] \in MemReq
    /\ ZeroSnack \in Msg /\ ZeroRequest \in Stage
    /\ 0 \in Drid /\ NoNid \in Nodes /\ Nid \subseteq Nodes /\ Line0 \in Lines
<1>1. 0 \in Drid /\ NoNid \in Nodes /\ Nid \subseteq Nodes /\ Line0 \in Lines
  BY DirectoryAssumption, Positive DEF Drid, Nodes
<1>2. QED BY <1>1 DEF StageOf, Stage, Snoop, SnoopFor, Msg, Snack, MemReq, ZeroSnack, ZeroRequest,
                     REQ_S

(* What the words a slot gives rise to are.                                *)
LEMMA SlotTypes ==
    ASSUME RegistersOK, NEW s \in Slots
    PROVE  /\ req_buf[s].paddr \in Lines /\ req_buf[s].nid \in Nodes /\ req_buf[s].cmd \in 0 .. 2
           /\ req_buf[s].next \in Drid /\ req_buf[s].l2id \in L2id \cup {0}
           /\ entry_buf[s].entry \in Entry /\ entry_buf[s].pos \in Pointers
           /\ Cleared(s) \in Entry
           /\ Remaining(s) \subseteq Pointers
           /\ Remaining(s) # {} => Lowest(Remaining(s)) \in Remaining(s) /\ Lowest(Remaining(s)) \in Pointers
           /\ \A p \in Pointers : Cleared(s).nid[p] \in Nodes
           /\ \A d \in Drid, cmd \in 0 .. 2 : Internal(s, d, cmd) \in Stage
           /\ \A l \in Lines, k \in Snack : Answer(s, l, k) \in Msg
<1>1. /\ req_buf[s].paddr \in Lines /\ req_buf[s].nid \in Nodes /\ req_buf[s].cmd \in 0 .. 2
      /\ req_buf[s].next \in Drid /\ req_buf[s].l2id \in L2id \cup {0}
      /\ entry_buf[s].entry \in Entry /\ entry_buf[s].pos \in Pointers
  BY DEF RegistersOK, Outstanding, SnoopState
<1>2. Cleared(s) \in Entry
  BY <1>1, WithoutPointerType DEF Cleared
<1>3. /\ Remaining(s) \subseteq Pointers
      /\ Remaining(s) # {} => Lowest(Remaining(s)) \in Remaining(s) /\ Lowest(Remaining(s)) \in Pointers
  BY <1>1, <1>2, LaterType DEF Remaining
<1>4. \A p \in Pointers : Cleared(s).nid[p] \in Nodes
  BY <1>2 DEF Entry, Nodes
<1>5. \A d \in Drid, cmd \in 0 .. 2 : Internal(s, d, cmd) \in Stage
  BY <1>1, WordTypes DEF Internal
<1>6. \A l \in Lines, k \in Snack : Answer(s, l, k) \in Msg
  BY <1>1, WordTypes DEF Answer, Msg
<1>7. QED BY <1>1, <1>2, <1>3, <1>4, <1>5, <1>6

LEMMA NextInvalidationType ==
    ASSUME RegistersOK, NEW d \in Reply
    PROVE  NextInvalidation(d) \in Msg
<1> DEFINE s == DispSlot(d)
<1>1. d.drid \in Drid /\ s \in Slots
  BY SlotOfType DEF Reply, DispSlot
<1>2. Remaining(s) # {} => Cleared(s).nid[Lowest(Remaining(s))] \in Nodes
  BY <1>1, SlotTypes
<1>3. req_buf[s].paddr \in Lines
  BY <1>1, SlotTypes
<1>4. QED BY <1>1, <1>2, <1>3, WordTypes DEF NextInvalidation, Msg, Snack

LEMMA FlopsTyped ==
    ASSUME Typed, Next
    PROVE  ff' \in QueueFlops
<1> USE DEF FlopsAreTyped
<1>1. RegistersOK /\ ff \in QueueFlops /\ PeersOK
  BY DEF Typed
<1>2. /\ ff.tag_req \in Queue(Stage) /\ ff.entry \in Queue(Fetched) /\ ff.mem \in Queue(MemReq)
      /\ ff.snack \in Queue(Msg) /\ ff.disp_snack \in Queue(Msg) /\ ff.wb \in Queue(Lines)
      /\ ff.dack \in Queue(Nodes) /\ ff.release \in Queue(Slots) /\ ff.pfreq \in Queue(Prefetch)
  BY <1>1 DEF QueueFlops
<1>3. /\ ff.tag_req # << >> => Head(ff.tag_req) \in Stage /\ Tail(ff.tag_req) \in Queue(Stage)
      /\ ff.entry # << >> => Head(ff.entry) \in Fetched /\ Tail(ff.entry) \in Queue(Fetched)
      /\ ff.mem # << >> => Tail(ff.mem) \in Queue(MemReq)
      /\ ff.snack # << >> => Tail(ff.snack) \in Queue(Msg)
      /\ ff.disp_snack # << >> => Head(ff.disp_snack) \in Msg /\ Tail(ff.disp_snack) \in Queue(Msg)
      /\ ff.wb # << >> => Tail(ff.wb) \in Queue(Lines)
      /\ ff.dack # << >> => Tail(ff.dack) \in Queue(Nodes)
      /\ ff.release # << >> => Head(ff.release) \in Slots /\ Tail(ff.release) \in Queue(Slots)
      /\ ff.pfreq # << >> => Tail(ff.pfreq) \in Queue(Prefetch)
  BY <1>2, Get
<1>4. /\ \A x \in Stage : Room(ff.tag_req) => Append(ff.tag_req, x) \in Queue(Stage)
      /\ \A x \in Fetched : Room(ff.entry) => Append(ff.entry, x) \in Queue(Fetched)
      /\ \A x \in MemReq : Room(ff.mem) => Append(ff.mem, x) \in Queue(MemReq)
      /\ \A x \in Msg : Room(ff.snack) => Append(ff.snack, x) \in Queue(Msg)
      /\ \A x \in Msg : Room(ff.disp_snack) => Append(ff.disp_snack, x) \in Queue(Msg)
      /\ \A x \in Lines : Room(ff.wb) => Append(ff.wb, x) \in Queue(Lines)
      /\ \A x \in Nodes : Room(ff.dack) => Append(ff.dack, x) \in Queue(Nodes)
      /\ \A x \in Slots : Room(ff.release) => Append(ff.release, x) \in Queue(Slots)
      /\ \A x \in Prefetch : Room(ff.pfreq) => Append(ff.pfreq, x) \in Queue(Prefetch)
  BY <1>2, Put
<1>5. \A s \in Slots : LatchedRelease(s) \in Queue(Slots)
  BY <1>2, <1>4 DEF LatchedRelease
<1>6. \A d \in disp : /\ d \in Reply /\ d.drid \in Drid /\ d.nid \in Nodes /\ d.paddr \in Lines
                      /\ DispSlot(d) \in Slots /\ DackIfRoom(ff.dack, d) \in Queue(Nodes)
                      /\ NextInvalidation(d) \in Msg
  <2> SUFFICES ASSUME NEW d \in disp
               PROVE  /\ d \in Reply /\ d.drid \in Drid /\ d.nid \in Nodes /\ d.paddr \in Lines
                      /\ DispSlot(d) \in Slots /\ DackIfRoom(ff.dack, d) \in Queue(Nodes)
                      /\ NextInvalidation(d) \in Msg
    OBVIOUS
  <2>1. d \in Reply
    BY <1>1 DEF PeersOK
  <2>2. d.drid \in Drid /\ d.nid \in Nodes /\ d.paddr \in Lines
    BY <2>1 DEF Reply
  <2>3. DispSlot(d) \in Slots
    BY <2>2, SlotOfType DEF DispSlot
  <2>4. DackIfRoom(ff.dack, d) \in Queue(Nodes)
    BY <1>2, <1>4, <2>2 DEF DackIfRoom
  <2>5. QED BY <1>1, <2>1, <2>2, <2>3, <2>4, NextInvalidationType
<1>7. {"ACK_S", "ACK_M"} \subseteq Snack /\ DR_CMD_NEW_ENTRY \in 0 .. 2 /\ DR_CMD_UPDATE_ENTRY \in 0 .. 2
  BY DEF Snack, DR_CMD_NEW_ENTRY, DR_CMD_UPDATE_ENTRY
<1>8. \A s \in Slots :
         /\ req_buf[s].paddr \in Lines /\ req_buf[s].nid \in Nodes /\ req_buf[s].cmd \in 0 .. 2
         /\ req_buf[s].next \in Drid
         /\ Remaining(s) # {} => Lowest(Remaining(s)) \in Pointers
         /\ \A p \in Pointers : Cleared(s).nid[p] \in Nodes
         /\ \A d \in Drid, cmd \in 0 .. 2 : Internal(s, d, cmd) \in Stage
         /\ \A l \in Lines, k \in Snack : Answer(s, l, k) \in Msg
  BY <1>1, SlotTypes
<1>10. CASE AcceptRequest
  <2>1. PICK rq \in Request, s \in Slots, atPort \in Slots :
           /\ Room(ff.tag_req)
           /\ ff' = [ff EXCEPT !.tag_req = Append(@, StageOf(FALSE, rq.cmd, rq.paddr, rq.nid, s + 1))]
    BY <1>10 DEF AcceptRequest
  <2>2. rq.cmd \in 0 .. 2 /\ rq.paddr \in Lines /\ rq.nid \in Nodes /\ s + 1 \in Drid
    <3>1. rq.cmd \in Cmds /\ rq.paddr \in Lines /\ rq.nid \in Nid
      BY DEF Request
    <3>2. Cmds \subseteq 0 .. 2
      BY DirectoryAssumption DEF REQ_S, REQ_M, REQ_NC
    <3>3. QED BY <3>1, <3>2, SlotNames, WordTypes
  <2>3. QED BY <1>1, <1>4, <2>1, <2>2, WordTypes DEF QueueFlops
<1>11. CASE AcceptConflicting
  BY <1>1, <1>11 DEF AcceptConflicting
<1>12. CASE AcceptPrefetch
  <2>1. PICK n \in Nid, l \in Lines :
           Room(ff.pfreq) /\ ff' = [ff EXCEPT !.pfreq = Append(@, [nid |-> n, paddr |-> l])]
    BY <1>12 DEF AcceptPrefetch
  <2>2. QED BY <1>1, <1>4, <2>1 DEF QueueFlops, Prefetch
<1>13. CASE TagMiss
  <2> DEFINE r == Head(ff.tag_req)
  <2>1. r \in Stage /\ Tail(ff.tag_req) \in Queue(Stage) /\ Room(ff.mem)
        /\ ff' = [ff EXCEPT !.tag_req = Tail(@),
                            !.mem = Append(@, [drid |-> r.drid, paddr |-> r.paddr, cmd |-> r.cmd])]
    BY <1>3, <1>13 DEF TagMiss
  <2>2. r.drid \in Drid /\ r.paddr \in Lines /\ r.cmd \in 0 .. 2
    BY <2>1 DEF Stage
  <2>3. QED BY <1>1, <1>4, <2>1, <2>2, WordTypes DEF QueueFlops
<1>14. CASE TagHitRequest
  <2> DEFINE r == Head(ff.tag_req)
             e == entries[TagSet(r)][TagWay(r)]
  <2>1. r \in Stage /\ Tail(ff.tag_req) \in Queue(Stage) /\ Room(ff.entry)
        /\ ff' = [ff EXCEPT !.tag_req = Tail(@), !.entry = Append(@, [req |-> r, entry |-> e])]
    BY <1>3, <1>14 DEF TagHitRequest
  <2>2. e \in Entry
    <3>1. TagSet(r) \in Sets /\ TagWay(r) \in Ways
      BY <2>1, WayType DEF Stage, TagSet, TagWay, Sets
    <3>2. QED BY <1>1, <3>1 DEF RegistersOK
  <2>3. [req |-> r, entry |-> e] \in Fetched
    BY <2>1, <2>2 DEF Fetched
  <2>4. QED BY <1>1, <1>4, <2>1, <2>3 DEF QueueFlops
<1>15. CASE TagInternal
  BY <1>1, <1>3, <1>15 DEF TagInternal, QueueFlops
<1>16. CASE EntrySnoop
  <2> DEFINE r     == Head(ff.entry).req
             e     == WithoutRequester(Head(ff.entry).entry, r.nid)
             start == IF Used(e) = {} THEN latch.entry_pos_start ELSE Lowest(Used(e))
             who   == IF Used(e) = {} THEN r.nid ELSE e.nid[start]
  <2>1. Head(ff.entry) \in Fetched /\ Tail(ff.entry) \in Queue(Fetched) /\ Room(ff.snack)
        /\ ff' = [ff EXCEPT !.entry = Tail(@),
                            !.snack = Append(@, Snoop(r.drid, who, r.paddr, r.cmd))]
    BY <1>3, <1>16 DEF EntrySnoop
  <2>2. r \in Stage /\ Head(ff.entry).entry \in Entry
    BY <2>1 DEF Fetched
  <2>3. r.drid \in Drid /\ r.paddr \in Lines /\ r.cmd \in 0 .. 2 /\ r.nid \in Nodes
    BY <2>2 DEF Stage
  <2>4. e \in Entry
    BY <2>2, <2>3, WithoutRequesterType
  <2>5. Used(e) # {} => Lowest(Used(e)) \in Pointers
    BY <2>4, UsedPointers, LowestIn
  <2>6. who \in Nodes
    <3>1. \A p \in Pointers : e.nid[p] \in Nodes
      BY <2>4 DEF Entry, Nodes
    <3>2. QED BY <2>3, <2>5, <3>1
  <2>7. Snoop(r.drid, who, r.paddr, r.cmd) \in Msg
    BY <2>3, <2>6, WordTypes
  <2>8. QED BY <1>1, <1>4, <2>1, <2>7 DEF QueueFlops
<1>17. CASE SnoopNext
  <2>1. PICK drid \in snoop_ack :
          LET s == SlotOf(drid)  p == Lowest(Remaining(s)) IN
          /\ Remaining(s) # {} /\ Room(ff.snack)
          /\ ff' = [ff EXCEPT !.release = LatchedRelease(s),
                       !.snack = Append(@, Snoop(drid, Cleared(s).nid[p], req_buf[s].paddr, req_buf[s].cmd))]
    BY <1>17 DEF SnoopNext
  <2>2. drid \in Drid /\ SlotOf(drid) \in Slots
    BY <1>1, SlotOfType DEF PeersOK
  <2>3. Snoop(drid, Cleared(SlotOf(drid)).nid[Lowest(Remaining(SlotOf(drid)))],
              req_buf[SlotOf(drid)].paddr, req_buf[SlotOf(drid)].cmd) \in Msg
    BY <1>8, <2>1, <2>2, WordTypes
  <2>4. QED BY <1>1, <1>4, <1>5, <2>1, <2>2, <2>3 DEF QueueFlops
<1>18. CASE SnoopsDenied
  <2>1. PICK drid \in snoop_ack :
          LET s == SlotOf(drid) IN
          /\ Room(ff.tag_req) /\ Room(ff.mem)
          /\ ff' = [ff EXCEPT !.release = LatchedRelease(s),
                       !.tag_req = Append(@, Internal(s, drid, DR_CMD_NEW_ENTRY)),
                       !.mem = Append(@, [drid |-> drid, paddr |-> req_buf[s].paddr,
                                          cmd |-> req_buf[s].cmd])]
    BY <1>18 DEF SnoopsDenied
  <2>2. drid \in Drid /\ SlotOf(drid) \in Slots
    BY <1>1, SlotOfType DEF PeersOK
  <2>3. QED BY <1>1, <1>4, <1>5, <1>7, <1>8, <2>1, <2>2, WordTypes DEF QueueFlops
<1>19. CASE SnoopsDoneFound
  <2>1. PICK drid \in snoop_ack :
          LET s == SlotOf(drid)  taken == Room(ff.release) IN
          /\ Room(ff.tag_req)
          /\ ff' = [ff EXCEPT
                 !.tag_req = IF taken THEN Append(@, Internal(s, drid, DR_CMD_NEW_ENTRY)) ELSE @,
                 !.release = IF taken THEN Append(@, s) ELSE @,
                 !.mem = IF Room(@) THEN Append(@, [drid |-> drid, paddr |-> req_buf[s].paddr,
                                                    cmd |-> req_buf[s].cmd])
                         ELSE @]
    BY <1>19 DEF SnoopsDoneFound
  <2>2. drid \in Drid /\ SlotOf(drid) \in Slots
    BY <1>1, SlotOfType DEF PeersOK
  <2> DEFINE s == SlotOf(drid)
             q == [drid |-> drid, paddr |-> req_buf[s].paddr, cmd |-> req_buf[s].cmd]
             newTag == IF Room(ff.release) THEN Append(ff.tag_req, Internal(s, drid, DR_CMD_NEW_ENTRY))
                       ELSE ff.tag_req
             newRelease == IF Room(ff.release) THEN Append(ff.release, s) ELSE ff.release
             newMem == IF Room(ff.mem) THEN Append(ff.mem, q) ELSE ff.mem
  <2>3. newTag \in Queue(Stage) /\ newRelease \in Queue(Slots)
    BY <1>2, <1>4, <1>7, <1>8, <2>1, <2>2
  <2>4. newMem \in Queue(MemReq)
    BY <1>2, <1>4, <1>8, <2>2, WordTypes
  <2>5. ff' = [ff EXCEPT !.tag_req = newTag, !.release = newRelease, !.mem = newMem]
    BY <2>1
  <2> HIDE DEF newTag, newRelease, newMem
  <2>6. QED BY <1>1, <2>3, <2>4, <2>5 DEF QueueFlops
<1>20. CASE SnoopAckIdle
  <2>1. UNCHANGED ff \/ \E s \in Slots : Room(ff.release) /\ ff' = [ff EXCEPT !.release = Append(@, s)]
    BY <1>20 DEF SnoopAckIdle
  <2>2. QED BY <1>1, <1>4, <2>1 DEF QueueFlops
<1>21. CASE DispShared
  <2>1. PICK d \in disp :
          LET s == DispSlot(d) IN
          /\ Room(ff.snack) /\ Room(ff.tag_req) /\ Room(ff.release)
          /\ ~entry_buf[s].entry.shared => Room(ff.wb)
          /\ ff' = [ff EXCEPT !.dack = DackIfRoom(@, d), !.wb = WritebackIfPrivate(s, d),
                        !.snack = Append(@, Answer(s, req_buf[s].paddr, "ACK_S")),
                        !.tag_req = Append(@, Internal(s, d.drid, DR_CMD_UPDATE_ENTRY)),
                        !.release = Append(@, s)]
    BY <1>21 DEF DispShared
  <2>2. WritebackIfPrivate(DispSlot(d), d) \in Queue(Lines)
    BY <1>2, <1>4, <1>6, <2>1 DEF WritebackIfPrivate
  <2>3. QED BY <1>1, <1>4, <1>6, <1>7, <1>8, <2>1, <2>2 DEF QueueFlops
<1>22. CASE DispOwner
  <2>1. PICK d \in disp :
          LET s == DispSlot(d) IN
          /\ Room(ff.snack) /\ Room(ff.tag_req) /\ Room(ff.release) /\ Room(ff.wb)
          /\ ff' = [ff EXCEPT !.dack = DackIfRoom(@, d), !.wb = Append(@, d.paddr),
                        !.snack = Append(@, Answer(s, req_buf[s].paddr, "ACK_M")),
                        !.tag_req = Append(@, Internal(s, d.drid, DR_CMD_NEW_ENTRY)),
                        !.release = Append(@, s)]
    BY <1>22 DEF DispOwner
  <2>2. QED BY <1>1, <1>4, <1>6, <1>7, <1>8, <2>1 DEF QueueFlops
<1>23. CASE DispFoundFirst
  <2>1. PICK d \in disp :
          LET s == DispSlot(d) IN
          /\ Room(ff.snack) /\ Room(ff.disp_snack)
          /\ ff' = [ff EXCEPT !.dack = DackIfRoom(@, d),
                        !.snack = Append(@, Answer(s, req_buf[s].paddr, "ACK_M")),
                        !.disp_snack = Append(@, NextInvalidation(d))]
    BY <1>23 DEF DispFoundFirst
  <2>2. QED BY <1>1, <1>4, <1>6, <1>7, <1>8, <2>1 DEF QueueFlops
<1>24. CASE DispFoundMore
  <2>1. PICK d \in disp :
          Room(ff.snack) /\ ff' = [ff EXCEPT !.dack = DackIfRoom(@, d),
                                             !.snack = Append(@, NextInvalidation(d))]
    BY <1>24 DEF DispFoundMore
  <2>2. QED BY <1>1, <1>4, <1>6, <2>1 DEF QueueFlops
<1>25. CASE DispFoundLast
  <2>1. PICK d \in disp :
          LET s     == DispSlot(d)
              taken == Room(ff.disp_snack)
              done  == Room(ff.tag_req) IN
          /\ Room(ff.snack) /\ Room(ff.release)
          /\ ff' = [ff EXCEPT !.dack = DackIfRoom(@, d),
                        !.snack = IF taken THEN Append(@, NextInvalidation(d)) ELSE @,
                        !.tag_req = IF done THEN Append(@, Internal(s, d.drid, DR_CMD_NEW_ENTRY))
                                    ELSE @,
                        !.release = IF done THEN Append(@, s) ELSE @]
    BY <1>25 DEF DispFoundLast
  <2> DEFINE s == DispSlot(d)
             newSnack == IF Room(ff.disp_snack) THEN Append(ff.snack, NextInvalidation(d)) ELSE ff.snack
             newTag == IF Room(ff.tag_req) THEN Append(ff.tag_req, Internal(s, d.drid, DR_CMD_NEW_ENTRY))
                       ELSE ff.tag_req
             newRelease == IF Room(ff.tag_req) THEN Append(ff.release, s) ELSE ff.release
  <2>2. newSnack \in Queue(Msg) /\ newTag \in Queue(Stage) /\ newRelease \in Queue(Slots)
    BY <1>2, <1>4, <1>6, <1>7, <1>8, <2>1
  <2>3. ff' = [ff EXCEPT !.dack = DackIfRoom(@, d), !.snack = newSnack, !.tag_req = newTag,
                         !.release = newRelease]
    BY <2>1
  <2> HIDE DEF newSnack, newTag, newRelease
  <2>4. QED BY <1>1, <1>6, <2>2, <2>3 DEF QueueFlops
<1>26. CASE DispNonCacheable
  <2>1. PICK d \in disp :
          LET s == DispSlot(d) IN
          /\ Room(ff.snack) /\ Room(ff.release)
          /\ ff' = [ff EXCEPT !.dack = DackIfRoom(@, d), !.release = Append(@, s),
                        !.snack = Append(@, Answer(s, req_buf[s].paddr, AckFor(req_buf[s].cmd)))]
    BY <1>26 DEF DispNonCacheable
  <2>2. AckFor(req_buf[DispSlot(d)].cmd) \in Snack
    BY <1>7 DEF AckFor
  <2>3. QED BY <1>1, <1>4, <1>6, <1>8, <2>1, <2>2 DEF QueueFlops
<1>27. CASE DispIgnored
  <2>1. PICK d \in disp : ff' = [ff EXCEPT !.dack = DackIfRoom(@, d)]
    BY <1>27 DEF DispIgnored
  <2>2. QED BY <1>1, <1>6, <2>1 DEF QueueFlops
<1>28. CASE OwnWriteback
  <2>1. PICK d \in disp, snack \in MayZeroSnack(ff.snack) :
          /\ Room(ff.wb) /\ Room(ff.dack) /\ (d.dcmd = "WI" => Room(ff.tag_req))
          /\ ff' = [ff EXCEPT !.snack = snack, !.wb = Append(@, d.paddr),
                        !.dack = Append(@, d.nid),
                        !.tag_req = IF d.dcmd = "WI" THEN Append(@, ZeroRequest) ELSE @]
    BY <1>28 DEF OwnWriteback
  <2>2. snack \in Queue(Msg)
    BY <1>2, <1>4, WordTypes DEF MayZeroSnack
  <2> DEFINE newTag == IF d.dcmd = "WI" THEN Append(ff.tag_req, ZeroRequest) ELSE ff.tag_req
  <2>3. newTag \in Queue(Stage)
    BY <1>2, <1>4, <2>1, WordTypes
  <2>4. ff' = [ff EXCEPT !.snack = snack, !.wb = Append(@, d.paddr), !.dack = Append(@, d.nid),
                         !.tag_req = newTag]
    BY <2>1
  <2> HIDE DEF newTag
  <2>5. Append(ff.wb, d.paddr) \in Queue(Lines) /\ Append(ff.dack, d.nid) \in Queue(Nodes)
    BY <1>4, <1>6, <2>1
  <2>6. QED BY <1>1, <2>2, <2>3, <2>4, <2>5 DEF QueueFlops
<1>29. CASE OwnInvalidation
  <2>1. PICK d \in disp :
          /\ Room(ff.dack) /\ Room(ff.tag_req)
          /\ ff' = [ff EXCEPT !.dack = Append(@, d.nid), !.tag_req = Append(@, ZeroRequest)]
    BY <1>29 DEF OwnInvalidation
  <2>2. QED BY <1>1, <1>4, <1>6, <2>1, WordTypes DEF QueueFlops
<1>30. CASE DispRefused
  <2>1. PICK d \in disp : Room(ff.dack) /\ ff' = [ff EXCEPT !.dack = Append(@, d.nid)]
    BY <1>30 DEF DispRefused
  <2>2. QED BY <1>1, <1>4, <1>6, <2>1 DEF QueueFlops
<1>31. CASE MemAck
  <2>1. PICK m \in memory :
          LET s == SlotOf(m.drid) IN
          /\ Room(ff.snack) /\ (m.drid # 0 => Room(ff.release))
          /\ ff' = IF m.drid = 0
                   THEN [ff EXCEPT !.snack = Append(@, [drid |-> 0, nid |-> m.nid, l2id |-> 0,
                                                        paddr |-> m.paddr, snack |-> m.ack])]
                   ELSE [ff EXCEPT !.snack = Append(@, Answer(s, req_buf[s].paddr, m.ack)),
                                   !.release = Append(@, s)]
    BY <1>31 DEF MemAck
  <2>2. m \in MemAnswer
    BY <1>1 DEF PeersOK
  <2>3. m.drid \in Drid /\ m.ack \in Snack /\ SlotOf(m.drid) \in Slots
    BY <2>2, SlotOfType DEF MemAnswer
  <2>4. [drid |-> 0, nid |-> m.nid, l2id |-> 0, paddr |-> m.paddr, snack |-> m.ack] \in Msg
    BY <2>2, WordTypes DEF MemAnswer, Msg
  <2>5. CASE m.drid = 0
    BY <1>1, <1>4, <2>1, <2>4, <2>5 DEF QueueFlops
  <2>6. CASE m.drid # 0
    BY <1>1, <1>4, <1>8, <2>1, <2>3, <2>6 DEF QueueFlops
  <2>7. QED BY <2>5, <2>6
<1>32. CASE Release
  <2> DEFINE s == Head(ff.release)
             drid == req_buf[s].next
             next == req_buf[SlotOf(drid)]
  <2>1. s \in Slots /\ Tail(ff.release) \in Queue(Slots) /\ (drid # 0 => Room(ff.tag_req))
        /\ ff' = [ff EXCEPT !.release = Tail(@), !.tag_req = Started(s)]
    BY <1>3, <1>32 DEF Release
  <2>2. drid \in Drid /\ SlotOf(drid) \in Slots
    BY <1>8, <2>1, SlotOfType
  <2>3. StageOf(FALSE, next.cmd, next.paddr, next.nid, drid) \in Stage
    BY <1>8, <2>2, WordTypes
  <2>4. Started(s) \in Queue(Stage)
    BY <1>2, <1>4, <2>1, <2>3 DEF Started
  <2>5. QED BY <1>1, <2>1, <2>4 DEF QueueFlops
<1>33. CASE SecondSnack
  BY <1>1, <1>3, <1>4, <1>33 DEF SecondSnack, QueueFlops
<1>34. CASE Memory
  BY <1>1, <1>3, <1>34 DEF Memory, MemTakesRequest, MemTakesPrefetch, MemTakesWriteback, QueueFlops
<1>35. CASE L2TakesAnswer \/ L2TakesSnoop \/ L2TakesDack
  BY <1>1, <1>3, <1>35 DEF L2TakesAnswer, L2TakesSnoop, L2TakesDack, QueueFlops
<1>36. CASE L2ReturnsData \/ L2Denies \/ L2Drops \/ L2Displaces
  BY <1>1, <1>36 DEF L2ReturnsData, L2Denies, L2Drops, L2Displaces, dir
<1>37. QED
  BY <1>10, <1>11, <1>12, <1>13, <1>14, <1>15, <1>16, <1>17, <1>18, <1>19, <1>20, <1>21, <1>22,
     <1>23, <1>24, <1>25, <1>26, <1>27, <1>28, <1>29, <1>30, <1>31, <1>32, <1>33, <1>34, <1>35, <1>36
  DEF Next, Directory, Requests, TagStage, SnoopAck, DispReply, DispOwn, L2

LEMMA ReqBufTypes ==
    ASSUME RegistersOK
    PROVE  /\ \A s, p \in Slots, rq \in Request : Allocated(s, rq, p) \in [Slots -> Outstanding]
           /\ \A s, p \in Slots, rq \in Request :
                 Conflicts(rq.paddr) # {} => Queued(s, rq, p) \in [Slots -> Outstanding]
           /\ \A s \in Slots : Released(s) \in [Slots -> Outstanding]
           /\ \A d \in Reply, found \in BOOLEAN : ReqBufAfter(d, found) \in [Slots -> Outstanding]
<1>1. req_buf \in [Slots -> Outstanding]
  BY DEF RegistersOK
<1>2. ASSUME NEW rq \in Request
      PROVE  /\ rq.cmd \in 0 .. 2 /\ rq.paddr \in Lines /\ rq.nid \in Nodes
             /\ rq.l2id \in L2id \cup {0}
  <2>1. rq.cmd \in Cmds /\ rq.paddr \in Lines /\ rq.nid \in Nid /\ rq.l2id \in L2id
    BY DEF Request
  <2>2. Cmds \subseteq 0 .. 2
    BY DirectoryAssumption DEF REQ_S, REQ_M, REQ_NC
  <2>3. QED BY <2>1, <2>2, WordTypes
<1>3. ASSUME NEW s \in Slots, NEW p \in Slots, NEW rq \in Request
      PROVE  Allocated(s, rq, p) \in [Slots -> Outstanding]
  <2> DEFINE word == [valid |-> TRUE, cmd |-> rq.cmd, paddr |-> rq.paddr, nid |-> rq.nid,
                      l2id |-> rq.l2id, found |-> req_buf[s].found, next |-> 0]
             filled == [req_buf EXCEPT ![s] = word]
  <2>1. word \in Outstanding
    BY <1>1, <1>2, WordTypes DEF Outstanding
  <2>2. filled \in [Slots -> Outstanding]
    BY <1>1, <2>1
  <2>3. Allocated(s, rq, p) = [filled EXCEPT ![p].found = FALSE]
    BY DEF Allocated
  <2> HIDE DEF filled
  <2>4. QED BY <2>2, <2>3 DEF Outstanding
<1>4. ASSUME NEW s \in Slots, NEW p \in Slots, NEW rq \in Request, Conflicts(rq.paddr) # {}
      PROVE  Queued(s, rq, p) \in [Slots -> Outstanding]
  <2>1. Conflicts(rq.paddr) \subseteq Slots
    BY DEF Conflicts
  <2>2. Lowest(Conflicts(rq.paddr)) \in Slots
    <3>1. Slots \subseteq Nat
      BY Positive DEF Slots
    <3>2. QED BY <1>4, <2>1, <3>1, LowestIn
  <2>3. Allocated(s, rq, p) \in [Slots -> Outstanding] /\ s + 1 \in Drid
    BY <1>3, SlotNames
  <2>4. QED BY <2>2, <2>3 DEF Queued, Outstanding
<1>5. ASSUME NEW s \in Slots PROVE Released(s) \in [Slots -> Outstanding]
  <2>1. EmptySlot \in Outstanding
    BY WordTypes DEF EmptySlot, Outstanding, REQ_S
  <2>2. QED BY <1>1, <2>1 DEF Released
<1>6. ASSUME NEW d \in Reply, NEW found \in BOOLEAN
      PROVE  ReqBufAfter(d, found) \in [Slots -> Outstanding]
  <2>1. DispSlot(d) \in Slots
    BY SlotOfType DEF DispSlot, Reply
  <2>2. QED BY <1>1, <2>1 DEF ReqBufAfter, Outstanding
<1>7. QED BY <1>3, <1>4, <1>5, <1>6

LEMMA EntryBufTypes ==
    ASSUME RegistersOK
    PROVE  /\ \A s \in Slots, p \in Pointers, e \in Entry :
                 [entry_buf EXCEPT ![s] = [pos |-> p, entry |-> e]] \in [Slots -> SnoopState]
           /\ \A d \in Reply : EntryBufAfter(d) \in [Slots -> SnoopState]
<1>1. entry_buf \in [Slots -> SnoopState]
  BY DEF RegistersOK
<1>2. ASSUME NEW s \in Slots, NEW p \in Pointers, NEW e \in Entry
      PROVE  [entry_buf EXCEPT ![s] = [pos |-> p, entry |-> e]] \in [Slots -> SnoopState]
  BY <1>1 DEF SnoopState
<1>3. ASSUME NEW d \in Reply PROVE EntryBufAfter(d) \in [Slots -> SnoopState]
  <2> DEFINE s == DispSlot(d)
             p == IF Remaining(s) = {} THEN entry_buf[s].pos ELSE Lowest(Remaining(s))
  <2>1. s \in Slots
    BY SlotOfType DEF DispSlot, Reply
  <2>2. p \in Pointers /\ Cleared(s) \in Entry
    BY <2>1, SlotTypes
  <2>3. EntryBufAfter(d) = IF d.dcmd # "WI" THEN entry_buf
                           ELSE [entry_buf EXCEPT ![s] = [pos |-> p, entry |-> Cleared(s)]]
    BY <1>1, <2>1 DEF EntryBufAfter, Remaining
  <2> HIDE DEF p
  <2>4. QED BY <1>1, <1>2, <2>1, <2>2, <2>3
<1>4. QED BY <1>2, <1>3

LEMMA InternalEntryType == ASSUME RegistersOK, NEW r \in Stage PROVE InternalEntry(r) \in Entry
<1>1. r.nid \in Nodes /\ SlotOf(r.drid) \in Slots
  BY SlotOfType DEF Stage
<1>2. entry_buf[SlotOf(r.drid)].entry \in Entry
  BY <1>1, SlotTypes
<1>3. QED BY <1>1, <1>2, UpdatedEntryType, NewEntryType DEF InternalEntry, tag_miss_entry

LEMMA RegistersTyped == ASSUME Typed, Next PROVE RegistersOK'
<1>1. RegistersOK /\ ff \in QueueFlops /\ PeersOK
  BY DEF Typed, FlopsAreTyped
<1>2. \A d \in disp : d \in Reply
  BY <1>1 DEF PeersOK
<1>3. CASE AcceptRequest
  <2>1. PICK rq \in Request, s \in Slots, p \in Slots :
           /\ req_buf' = Allocated(s, rq, p) /\ UNCHANGED <<entry_buf, tags, entries, latch>>
    BY <1>3 DEF AcceptRequest
  <2>2. req_buf' \in [Slots -> Outstanding]
    BY <1>1, <2>1, ReqBufTypes
  <2>3. QED BY <1>1, <2>1, <2>2 DEF RegistersOK
<1>4. CASE AcceptConflicting
  <2>1. PICK rq \in Request, s \in Slots, p \in Slots :
           /\ req_buf' = Queued(s, rq, p) /\ UNCHANGED <<entry_buf, tags, entries, latch>>
           /\ Conflicts(rq.paddr) # {}
    BY <1>4 DEF AcceptConflicting
  <2>2. req_buf' \in [Slots -> Outstanding]
    BY <1>1, <2>1, ReqBufTypes
  <2>3. QED BY <1>1, <2>1, <2>2 DEF RegistersOK
<1>5. CASE TagMiss \/ TagInternal
  <2> DEFINE r == Head(ff.tag_req)
  <2>1. r \in Stage
    BY <1>1, <1>5, Get DEF QueueFlops, TagMiss, TagInternal
  <2>2. /\ tags' = TagsAfter(r) /\ UNCHANGED <<req_buf, entry_buf, latch>>
        /\ entries' = EntriesWith(r, tag_miss_entry(r)) \/ entries' = EntriesWith(r, InternalEntry(r))
    BY <1>5 DEF TagMiss, TagInternal
  <2>3. tag_miss_entry(r) \in Entry /\ InternalEntry(r) \in Entry
    BY <1>1, <2>1, InternalEntryType, NewEntryType DEF tag_miss_entry, Stage
  <2>4. tags' \in [Sets -> [Ways -> {HashOf[l] : l \in Lines} \cup {NoTag}]]
    BY <1>1, <2>1, <2>2, TagsAfterType DEF RegistersOK
  <2>5. entries' \in [Sets -> [Ways -> Entry]]
    BY <1>1, <2>1, <2>2, <2>3, EntriesWithType DEF RegistersOK
  <2>6. QED BY <1>1, <2>2, <2>4, <2>5 DEF RegistersOK
<1>6. CASE EntrySnoop
  <2> DEFINE r     == Head(ff.entry).req
             e     == WithoutRequester(Head(ff.entry).entry, r.nid)
             start == IF Used(e) = {} THEN latch.entry_pos_start ELSE Lowest(Used(e))
  <2>1. /\ UNCHANGED <<req_buf, tags, entries>> /\ ff.entry # << >>
        /\ entry_buf' = [entry_buf EXCEPT ![SlotOf(r.drid)] = [pos |-> start, entry |-> e]]
        /\ latch' = [latch EXCEPT !.entry_pos_start = start]
    BY <1>6 DEF EntrySnoop
  <2>2. r \in Stage /\ Head(ff.entry).entry \in Entry
    <3>1. ff.entry \in Queue(Fetched)
      BY <1>1 DEF QueueFlops
    <3>2. Head(ff.entry) \in Fetched
      BY <2>1, <3>1, Get
    <3>3. QED BY <3>2 DEF Fetched
  <2>3. SlotOf(r.drid) \in Slots /\ r.nid \in Nodes
    BY <2>2, SlotOfType DEF Stage
  <2>4. e \in Entry
    BY <2>2, <2>3, WithoutRequesterType
  <2>5. start \in Pointers
    BY <1>1, <2>4, UsedPointers, LowestIn DEF RegistersOK, Latches
  <2> HIDE DEF e, start
  <2>6. entry_buf' \in [Slots -> SnoopState]
    BY <1>1, <2>1, <2>3, <2>4, <2>5, EntryBufTypes
  <2>7. latch' \in Latches
    BY <1>1, <2>1, <2>5 DEF RegistersOK, Latches
  <2>8. QED BY <1>1, <2>1, <2>6, <2>7 DEF RegistersOK
<1>7. CASE SnoopNext
  <2>1. PICK drid \in snoop_ack :
          LET s == SlotOf(drid) IN
          /\ Remaining(s) # {} /\ UNCHANGED <<req_buf, tags, entries, latch>>
          /\ entry_buf' = [entry_buf EXCEPT ![s] = [pos |-> Lowest(Remaining(s)), entry |-> Cleared(s)]]
    BY <1>7 DEF SnoopNext
  <2>2. SlotOf(drid) \in Slots
    BY <1>1, SlotOfType DEF PeersOK
  <2>3. entry_buf' \in [Slots -> SnoopState]
    BY <1>1, <2>1, <2>2, SlotTypes, EntryBufTypes
  <2>4. QED BY <1>1, <2>1, <2>3 DEF RegistersOK
<1>8. CASE SnoopsDoneFound \/ SnoopAckIdle
  <2>1. UNCHANGED <<req_buf, entry_buf, tags, entries>> /\
        (latch' = latch \/ \E b \in BOOLEAN : latch' = [latch EXCEPT !.snoop_rel = b])
    BY <1>8 DEF SnoopsDoneFound, SnoopAckIdle
  <2>2. latch' \in Latches
    BY <1>1, <2>1 DEF RegistersOK, Latches
  <2>3. QED BY <1>1, <2>1, <2>2 DEF RegistersOK
<1>9. CASE DispReply \/ DispOwn
  <2>1. PICK d \in disp : /\ entry_buf' = entry_buf \/ entry_buf' = EntryBufAfter(d)
                          /\ req_buf' = req_buf \/ \E b \in BOOLEAN : req_buf' = ReqBufAfter(d, b)
                          /\ latch' = latch \/ latch' = [latch EXCEPT !.found_line = TRUE]
                          /\ UNCHANGED <<tags, entries>>
    <3>1. CASE DispShared
      BY <3>1 DEF DispShared
    <3>2. CASE DispOwner
      BY <3>2 DEF DispOwner
    <3>3. CASE DispFoundFirst
      BY <3>3 DEF DispFoundFirst
    <3>4. CASE DispFoundMore
      BY <3>4 DEF DispFoundMore
    <3>5. CASE DispFoundLast
      BY <3>5 DEF DispFoundLast
    <3>6. CASE DispNonCacheable
      BY <3>6 DEF DispNonCacheable
    <3>7. CASE DispIgnored
      BY <3>7 DEF DispIgnored
    <3>8. CASE OwnWriteback
      BY <3>8 DEF OwnWriteback
    <3>9. CASE OwnInvalidation
      BY <3>9 DEF OwnInvalidation
    <3>10. QED BY <1>9, <3>1, <3>2, <3>3, <3>4, <3>5, <3>6, <3>7, <3>8, <3>9 DEF DispReply, DispOwn
  <2>2. entry_buf' \in [Slots -> SnoopState]
    BY <1>1, <1>2, <2>1, EntryBufTypes DEF RegistersOK
  <2>3. req_buf' \in [Slots -> Outstanding]
    BY <1>1, <1>2, <2>1, ReqBufTypes DEF RegistersOK
  <2>4. latch' \in Latches
    BY <1>1, <2>1 DEF RegistersOK, Latches
  <2>5. QED BY <1>1, <2>1, <2>2, <2>3, <2>4 DEF RegistersOK
<1>10. CASE Release
  <2>1. ff.release # << >> /\ UNCHANGED <<entry_buf, tags, entries, latch>>
        /\ req_buf' = Released(Head(ff.release))
    BY <1>10 DEF Release
  <2>2. Head(ff.release) \in Slots
    BY <1>1, <2>1, Get DEF QueueFlops
  <2>3. req_buf' \in [Slots -> Outstanding]
    BY <1>1, <2>1, <2>2, ReqBufTypes
  <2>4. QED BY <1>1, <2>1, <2>3 DEF RegistersOK
<1>11. CASE UNCHANGED <<req_buf, entry_buf, tags, entries, latch>>
  BY <1>1, <1>11 DEF RegistersOK
<1>12. AcceptPrefetch \/ TagHitRequest \/ SnoopsDenied \/ DispRefused \/ MemAck \/ SecondSnack \/ Memory \/ L2
          => UNCHANGED <<req_buf, entry_buf, tags, entries, latch>>
  BY DEF AcceptPrefetch, TagHitRequest, SnoopsDenied, DispRefused, MemAck, SecondSnack, Memory,
         MemTakesRequest, MemTakesPrefetch, MemTakesWriteback, L2, L2TakesAnswer, L2TakesSnoop,
         L2TakesDack, L2ReturnsData, L2Denies, L2Drops, L2Displaces, dir
<1>13. QED
  BY <1>3, <1>4, <1>5, <1>6, <1>7, <1>8, <1>9, <1>10, <1>11, <1>12
  DEF Next, Directory, Requests, TagStage, SnoopAck

LEMMA PeersTyped == ASSUME Typed, Next PROVE PeersOK'
<1>1. RegistersOK /\ ff \in QueueFlops /\ PeersOK
  BY DEF Typed, FlopsAreTyped
<1>2. MaxReq \in Nat
  BY DirectoryAssumption
<1>3. ASSUME NEW rq \in Request, Send(rq) PROVE asked' \subseteq Request /\ sent' \in 0 .. MaxReq
  BY <1>1, <1>2, <1>3 DEF Send, MayAsk, PeersOK
<1>4. CASE AcceptRequest \/ AcceptConflicting
  <2>1. PICK rq \in Request : Send(rq)
    BY <1>4 DEF AcceptRequest, AcceptConflicting
  <2>2. UNCHANGED <<copy, snoops, disp, snoop_ack, memory>>
    BY <1>4 DEF AcceptRequest, AcceptConflicting
  <2>3. QED BY <1>1, <1>3, <2>1, <2>2 DEF PeersOK
<1>5. CASE AcceptPrefetch
  BY <1>1, <1>2, <1>5 DEF AcceptPrefetch, PeersOK
<1>6. CASE TagStage \/ EntrySnoop \/ SnoopAckIdle \/ DispRefused \/ Release \/ SecondSnack
           \/ MemTakesWriteback \/ L2TakesDack
  <2>1. UNCHANGED <<l2, disp, snoop_ack, memory>>
    BY <1>6 DEF TagStage, TagMiss, TagHitRequest, TagInternal, EntrySnoop, SnoopAckIdle, DispRefused,
                Release, SecondSnack, MemTakesWriteback, L2TakesDack
  <2>2. QED BY <1>1, <2>1 DEF PeersOK, l2
<1>7. CASE SnoopAck
  <2>1. UNCHANGED <<l2, disp, memory>> /\ snoop_ack' \subseteq snoop_ack
    BY <1>7 DEF SnoopAck, SnoopNext, SnoopsDenied, SnoopsDoneFound
  <2>2. QED BY <1>1, <2>1 DEF PeersOK, l2
<1>8. CASE DispReply \/ DispOwn
  <2>1. UNCHANGED <<l2, snoop_ack, memory>>
    BY <1>8 DEF DispReply, DispOwn, DispShared, DispOwner, DispFoundFirst, DispFoundMore,
                DispFoundLast, DispNonCacheable, DispIgnored, OwnWriteback, OwnInvalidation
  <2>2. disp' \subseteq disp
    BY <1>8 DEF DispReply, DispOwn, DispShared, DispOwner, DispFoundFirst, DispFoundMore,
                DispFoundLast, DispNonCacheable, DispIgnored, OwnWriteback, OwnInvalidation
  <2>3. QED BY <1>1, <2>1, <2>2 DEF PeersOK, l2
<1>9. CASE MemAck
  <2>1. UNCHANGED <<l2, disp, snoop_ack>> /\ memory' \subseteq memory
    BY <1>9 DEF MemAck
  <2>2. QED BY <1>1, <2>1 DEF PeersOK, l2
<1>10. CASE MemTakesRequest
  <2> DEFINE m == Head(ff.mem)
  <2>1. ff.mem # << >> /\ UNCHANGED <<l2, disp, snoop_ack>>
    BY <1>10 DEF MemTakesRequest
  <2>2. m \in MemReq
    BY <1>1, <2>1, Get DEF QueueFlops
  <2>3. PICK n \in Nodes : memory' = memory \cup {[drid |-> m.drid, nid |-> n, paddr |-> m.paddr,
                                                   ack |-> AckOf(m.cmd)]}
    BY <1>10 DEF MemTakesRequest
  <2>4. [drid |-> m.drid, nid |-> n, paddr |-> m.paddr, ack |-> AckOf(m.cmd)] \in MemAnswer
    BY <2>2 DEF MemReq, MemAnswer, AckOf, Snack
  <2>5. QED BY <1>1, <2>1, <2>3, <2>4 DEF PeersOK, l2
<1>11. CASE MemTakesPrefetch
  <2> DEFINE p == Head(ff.pfreq)
             m == [drid |-> 0, nid |-> p.nid, paddr |-> p.paddr, ack |-> "ACK_PS"]
  <2>1. ff.pfreq # << >> /\ UNCHANGED <<l2, disp, snoop_ack>> /\ memory' \in {memory, memory \cup {m}}
    BY <1>11 DEF MemTakesPrefetch
  <2>2. p \in Prefetch
    BY <1>1, <2>1, Get DEF QueueFlops
  <2>3. m \in MemAnswer
    BY <2>2, WordTypes DEF Prefetch, MemAnswer, Snack
  <2> HIDE DEF m
  <2>4. QED BY <1>1, <2>1, <2>3 DEF PeersOK, l2
<1>12. CASE L2TakesAnswer
  <2> DEFINE m == Head(ff.snack)
  <2>1. ff.snack # << >> /\ UNCHANGED <<sent, snoops, disp, snoop_ack, memory>>
        /\ IF m.nid \in Nid
           THEN asked' = asked \ AnswersTo(m) /\ copy' = [copy EXCEPT ![m.nid][m.paddr] = CopyAfter(m)]
           ELSE UNCHANGED <<asked, copy>>
    BY <1>12 DEF L2TakesAnswer
  <2>2. m \in Msg
    BY <1>1, <2>1, Get DEF QueueFlops
  <2>3. m.nid \in Nid => CopyAfter(m) \in {"I", "S", "M"}
    BY <1>1, <2>2 DEF CopyAfter, Msg, PeersOK
  <2>4. asked' \subseteq Request
    BY <1>1, <2>1 DEF PeersOK
  <2>5. copy' \in [Nid -> [Lines -> {"I", "S", "M"}]]
    BY <1>1, <2>1, <2>2, <2>3 DEF PeersOK, Msg
  <2>6. QED BY <1>1, <2>1, <2>4, <2>5 DEF PeersOK
<1>13. CASE L2TakesSnoop
  <2>1. ff.snack # << >> /\ UNCHANGED <<copy, asked, sent, disp, snoop_ack, memory>>
        /\ snoops' \subseteq snoops \cup {Head(ff.snack)}
    BY <1>13 DEF L2TakesSnoop
  <2>2. Head(ff.snack) \in Msg
    BY <1>1, <2>1, Get DEF QueueFlops
  <2>3. QED BY <1>1, <2>1, <2>2 DEF PeersOK
<1>14. CASE L2ReturnsData
  <2>1. PICK sn \in snoops, dcmd \in {"WI", "WS", "I", "NC"} :
           /\ disp' = disp \cup {Displaced(sn.drid, sn.nid, sn.paddr, dcmd)}
           /\ copy' = DisplacedCopy(sn.nid, sn.paddr, dcmd) /\ snoops' = snoops \ {sn}
           /\ UNCHANGED <<asked, sent, snoop_ack, memory>>
    BY <1>14 DEF L2ReturnsData
  <2>2. sn \in Msg
    BY <1>1 DEF PeersOK
  <2>3. Displaced(sn.drid, sn.nid, sn.paddr, dcmd) \in Reply
    BY <2>2 DEF Displaced, Reply, Msg
  <2>4. copy' \in [Nid -> [Lines -> {"I", "S", "M"}]]
    BY <1>1, <2>1, <2>2 DEF PeersOK, DisplacedCopy, Msg
  <2>5. QED BY <1>1, <2>1, <2>3, <2>4 DEF PeersOK
<1>15. CASE L2Denies
  <2>1. PICK sn \in snoops :
           /\ snoop_ack' = snoop_ack \cup {sn.drid}
           /\ copy' = [copy EXCEPT ![sn.nid][sn.paddr] = "I"] /\ snoops' = snoops \ {sn}
           /\ UNCHANGED <<asked, sent, disp, memory>>
    BY <1>15 DEF L2Denies
  <2>2. sn \in Msg
    BY <1>1 DEF PeersOK
  <2>3. sn.drid \in Drid /\ copy' \in [Nid -> [Lines -> {"I", "S", "M"}]]
    BY <1>1, <2>1, <2>2 DEF PeersOK, Msg
  <2>4. QED BY <1>1, <2>1, <2>3 DEF PeersOK
<1>16. CASE L2Drops
  <2>1. PICK n \in Nid, l \in Lines : copy' = [copy EXCEPT ![n][l] = "I"]
                                      /\ UNCHANGED <<asked, sent, snoops, disp, snoop_ack, memory>>
    BY <1>16 DEF L2Drops
  <2>2. QED BY <1>1, <2>1 DEF PeersOK
<1>17. CASE L2Displaces
  <2>1. PICK n \in Nid, l \in Lines, dcmd \in Displacements :
           /\ sent < MaxReq /\ sent' = sent + 1 /\ copy' = DisplacedCopy(n, l, dcmd)
           /\ disp' = disp \cup {Displaced(0, n, l, dcmd)}
           /\ UNCHANGED <<asked, snoops, snoop_ack, memory>>
    BY <1>17 DEF L2Displaces
  <2>2. Displacements \subseteq {"WI", "WS", "I", "NC"}
    BY DirectoryAssumption
  <2>3. Displaced(0, n, l, dcmd) \in Reply
    BY <2>2, WordTypes DEF Displaced, Reply
  <2>4. copy' \in [Nid -> [Lines -> {"I", "S", "M"}]]
    BY <1>1, <2>1 DEF PeersOK, DisplacedCopy
  <2>5. sent' \in 0 .. MaxReq
    BY <1>1, <1>2, <2>1 DEF PeersOK
  <2>6. QED BY <1>1, <2>1, <2>3, <2>4, <2>5 DEF PeersOK
<1>18. QED
  BY <1>4, <1>5, <1>6, <1>7, <1>8, <1>9, <1>10, <1>11, <1>12, <1>13, <1>14, <1>15, <1>16, <1>17
  DEF Next, Directory, Requests, Memory, L2

LEMMA InitTyped == Init => Typed
<1> SUFFICES ASSUME Init PROVE Typed
  OBVIOUS
<1>1. EmptySlot \in Outstanding /\ EmptyEntry \in Entry /\ 0 \in Pointers
  BY WordTypes, EmptyEntryType, PointersAreNats DEF EmptySlot, Outstanding, REQ_S
<1>2. req_buf \in [Slots -> Outstanding]
  BY <1>1 DEF Init
<1>3. entry_buf \in [Slots -> SnoopState]
  BY <1>1 DEF Init, SnoopState
<1>4. tags \in [Sets -> [Ways -> {HashOf[l] : l \in Lines} \cup {NoTag}]]
  BY DEF Init
<1>5. entries \in [Sets -> [Ways -> Entry]]
  BY <1>1 DEF Init
<1>6. latch \in Latches
  BY <1>1 DEF Init, Latches
<1>7. ff \in QueueFlops
  BY DEF Init, QueueFlops, Queue
<1>8. PeersOK
  BY DirectoryAssumption DEF Init, PeersOK
<1>9. QED BY <1>2, <1>3, <1>4, <1>5, <1>6, <1>7, <1>8 DEF Typed, RegistersOK, FlopsAreTyped

LEMMA TypedStep == Typed /\ [Next]_vars => Typed'
<1> SUFFICES ASSUME Typed, [Next]_vars PROVE Typed'
  OBVIOUS
<1>1. CASE Next
  BY <1>1, FlopsTyped, RegistersTyped, PeersTyped DEF Typed, FlopsAreTyped
<1>2. CASE UNCHANGED vars
  BY <1>2 DEF Typed, RegistersOK, FlopsAreTyped, PeersOK, vars, dir, l2
<1>3. QED BY <1>1, <1>2

(* The registers, flops and messages have their types, and no flop holds   *)
(* more than its two places, whatever the L2s send and for every value of  *)
(* the constants (directory_bank.v:51-238, rtl/fflop.v:154-161).           *)
THEOREM TypeCorrect == Spec => []TypeOK
<1>1. Spec => []Typed
  BY InitTyped, TypedStep, PTL DEF Spec
<1>2. Typed => TypeOK
  BY TypedIsTypeOK
<1>3. QED BY <1>1, <1>2, PTL

LEMMA TagsStep ==
    ASSUME Typed, TagsOneHot, [Next]_vars
    PROVE  TagsOneHot'
<1>1. CASE TagMiss \/ TagInternal
  <2> DEFINE r == Head(ff.tag_req)
             set == TagSet(r)
             way == TagWay(r)
             hash == HashOf[r.paddr]
  <2>1. r \in Stage /\ tags' = TagsAfter(r)
    BY <1>1, Get DEF QueueFlops, TagMiss, TagInternal, Typed, FlopsAreTyped
  <2>2. set \in Sets /\ way \in Ways /\ hash # NoTag
    BY <2>1, WayType, DirectoryAssumption DEF Stage, TagSet, TagWay, Sets
  <2>3. tags \in [Sets -> [Ways -> {HashOf[l] : l \in Lines} \cup {NoTag}]]
    BY DEF Typed, RegistersOK
  <2>4. CASE TagHit(r)
    BY <2>1, <2>4 DEF TagsAfter, TagsOneHot
  <2>5. CASE ~TagHit(r)
    <3>1. tags' = [tags EXCEPT ![set][way] = hash]
      BY <2>1, <2>5 DEF TagsAfter
    <3>2. \A w \in Ways : tags[set][w] # hash
      BY <2>5 DEF TagHit, tag_hit
    <3> HIDE DEF set, way, hash
    <3>3. QED BY <2>2, <2>3, <3>1, <3>2 DEF TagsOneHot
  <2>6. QED BY <2>4, <2>5
<1>2. CASE UNCHANGED tags
  BY <1>2 DEF TagsOneHot
<1>3. TagMiss \/ TagInternal \/ UNCHANGED tags
  BY DEF Next, vars, dir, Directory, Requests, AcceptRequest, AcceptConflicting, AcceptPrefetch,
         TagStage, TagHitRequest, EntrySnoop, SnoopAck, SnoopNext, SnoopsDenied, SnoopsDoneFound,
         SnoopAckIdle, DispReply, DispOwn, DispShared, DispOwner, DispFoundFirst, DispFoundMore,
         DispFoundLast, DispNonCacheable, DispIgnored, OwnWriteback, OwnInvalidation, DispRefused,
         MemAck, Release, SecondSnack, Memory, MemTakesRequest, MemTakesPrefetch,
         MemTakesWriteback, L2, L2TakesAnswer, L2TakesSnoop, L2TakesDack, L2ReturnsData, L2Denies,
         L2Drops, L2Displaces
<1>4. QED BY <1>1, <1>2, <1>3

(* A tag is in one way of its set at most, so that the comparison is       *)
(* "one-hot" (directory_bank.v:441), whatever the L2s and memory do: a tag *)
(* is written only where no way of the set has it.                         *)
THEOREM TagsStayOneHot == Spec => []TagsOneHot
<1>1. Init => TagsOneHot
  BY DEF Init, TagsOneHot
<1>2. Spec => []Typed
  BY InitTyped, TypedStep, PTL DEF Spec
<1>3. QED BY <1>1, <1>2, TagsStep, PTL DEF Spec

-----------------------------------------------------------------------------
(* The traffic the coherence theorems are about: the L2s send requests for *)
(* lines in set S or M and answer snoops as the protocol says.  An entry   *)
(* has a pointer for every node, and no two lines share a set: where they  *)
(* do, or where displacements cross a snoop, the bank breaks its promises. *)
RequestsOnly ==
    /\ Displacements = {} /\ ~Prefetches /\ ~FaultyReplies /\ ~SharersReturnData
    /\ Cmds \subseteq {REQ_S, REQ_M}
    /\ IsFiniteSet(Nid) /\ Cardinality(Nid) <= NumPointers
    /\ \A k, l \in Lines : SetOf[k] = SetOf[l] => k = l

WordsOf(queue) == {queue[i] : i \in DOMAIN queue}
NoDouble(queue) == Len(queue) = 2 => queue[1] # queue[2]

(* What a bank never does under that traffic: no line is found before its  *)
(* last sharer is asked, so the signals that keep their value stay low.    *)
Quiet ==
    /\ \A s \in Slots : ~req_buf[s].found
    /\ ~latch.found_line /\ ~latch.snoop_rel
    /\ ff.disp_snack = << >> /\ ff.pfreq = << >>

Line(s)      == req_buf[s].paddr
Requester(s) == req_buf[s].nid
SlotsMatch ==
    \A s \in Slots : req_buf[s].valid => Requester(s) \in Nid /\ req_buf[s].cmd \in {REQ_S, REQ_M}

Commands == {r \in WordsOf(ff.tag_req) : r.dr_cmd}
CommandsNamed == \A r \in Commands : r.drid # 0 /\ r.nid \in Nid

(* A node has a line from the moment the answer leaves the bank.           *)
Answers == {m \in WordsOf(ff.snack) : m.drid = 0}
Holders(l) == {n \in Nid : copy[n][l] # "I" \/ \E m \in Answers : m.nid = n /\ m.paddr = l}
Owners(l)  == {n \in Nid : \/ copy[n][l] = "M"
                           \/ \E m \in Answers : m.nid = n /\ m.paddr = l /\ m.snack = "ACK_M"}

-----------------------------------------------------------------------------
(* What the bank knows of a line: the entry of the command that is on its  *)
(* way to the tags, else that of the table.                                *)
Known(e) == {e.nid[p] : p \in Used(e)}
Distinct(e) == \A p, q \in Used(e) : e.nid[p] = e.nid[q] => p = q

Present(l) == tag_hit(tags[SetOf[l]], HashOf[l])
TableEntry(l) == entries[SetOf[l]][tag_pos_next(tags[SetOf[l]], HashOf[l])]
Commanded(l) == \E r \in Commands : r.paddr = l
Book(l) ==
    {n \in Nid : \/ \E r \in Commands : r.paddr = l /\ n \in Known(InternalEntry(r))
                 \/ ~Commanded(l) /\ Present(l) /\ n \in Known(TableEntry(l))}

-----------------------------------------------------------------------------
(* Where the request of each slot is, and the word it has there: every     *)
(* active slot is at one station, where its word is the only one.          *)
Stations == {"tag", "entry", "mem", "snack", "snoops", "disp", "snoop_ack", "memory", "release"}
Places == Stations \cup {"none"}
At(where, place) == {s \in Slots : where[s] = place}

Board ==
    [tag |-> {r \in WordsOf(ff.tag_req) : ~r.dr_cmd}, entry |-> WordsOf(ff.entry),
     mem |-> WordsOf(ff.mem), snack |-> {m \in WordsOf(ff.snack) : m.drid # 0},
     snoops |-> snoops, disp |-> {d.drid : d \in disp}, snoop_ack |-> snoop_ack,
     memory |-> memory, release |-> WordsOf(ff.release)]

StageWord(s) == StageOf(FALSE, req_buf[s].cmd, Line(s), Requester(s), s + 1)
Who(s) == LET e == entry_buf[s].entry IN
          IF Used(e) = {} THEN Requester(s) ELSE e.nid[entry_buf[s].pos]
SnoopWord(s) == Snoop(s + 1, Who(s), Line(s), req_buf[s].cmd)

Wording ==
    [tag |-> [s \in Slots |-> StageWord(s)],
     entry |-> [s \in Slots |-> [req |-> StageWord(s), entry |-> TableEntry(Line(s))]],
     mem |-> [s \in Slots |-> [drid |-> s + 1, paddr |-> Line(s), cmd |-> req_buf[s].cmd]],
     snack |-> [s \in Slots |-> SnoopWord(s)], snoops |-> [s \in Slots |-> SnoopWord(s)],
     disp |-> [s \in Slots |-> s + 1], snoop_ack |-> [s \in Slots |-> s + 1],
     memory |-> [s \in Slots |-> [drid |-> s + 1, nid |-> NoNid, paddr |-> Line(s),
                                  ack |-> AckOf(req_buf[s].cmd)]],
     release |-> [s \in Slots |-> s]]

Fits(board, wording, where) ==
    \A p \in Stations : board[p] = {wording[p][s] : s \in At(where, p)}
Posted(where) == Fits(Board, Wording, where)
Resting(where) == \A s \in Slots : where[s] = "none" <=> ~Active(s)
NoDoubles ==
    /\ NoDouble(ff.tag_req) /\ NoDouble(ff.entry) /\ NoDouble(ff.mem)
    /\ NoDouble(ff.snack) /\ NoDouble(ff.release)
RepliesMatch ==
    /\ \A d, o \in disp : d.drid = o.drid => d = o
    /\ \A d \in disp : d.dcmd = "WI" \/ (d.dcmd = "WS" /\ req_buf[DispSlot(d)].cmd = REQ_S)

-----------------------------------------------------------------------------
(* The requests of a hash queue up behind one another.                     *)
SameHash(s, t) == HashOf[Line(s)] = HashOf[Line(t)]
Last(s) == req_buf[s].valid /\ req_buf[s].next = 0

Linked ==
    \A s \in Slots : req_buf[s].valid /\ req_buf[s].next # 0 =>
        LET t == SlotOf(req_buf[s].next) IN
        /\ req_buf[t].valid /\ SameHash(s, t)
        /\ \A u \in Slots : req_buf[u].valid /\ req_buf[u].next = req_buf[s].next => u = s
OneHead == \A s, t \in Slots : Active(s) /\ Active(t) /\ SameHash(s, t) => s = t
OneLast == \A s, t \in Slots : Last(s) /\ Last(t) /\ SameHash(s, t) => s = t
HeadAndLast ==
    \A s \in Slots : req_buf[s].valid =>
        (\E t \in Slots : Active(t) /\ SameHash(s, t)) /\ (\E t \in Slots : Last(t) /\ SameHash(s, t))
FreeUnlinked == \A s \in Slots : ~req_buf[s].valid => req_buf[s].next = 0

(* No request waits for itself, by way of others. *)
Ascending(rank) ==
    \A s \in Slots : req_buf[s].valid /\ req_buf[s].next # 0
                        => rank[s] < rank[SlotOf(req_buf[s].next)]
Acyclic == \E rank \in [Slots -> Nat] : Ascending(rank)

Queues == Linked /\ OneHead /\ OneLast /\ HeadAndLast /\ FreeUnlinked /\ Acyclic

-----------------------------------------------------------------------------
(* Order.  The command that ends a request is processed before whatever    *)
(* comes next for the same line or slot, and an answer reaches its L2      *)
(* before the line is asked back.                                          *)
CommandOrder ==
    Len(ff.tag_req) = 2 /\ ff.tag_req[2].dr_cmd =>
        ff.tag_req[1].paddr # ff.tag_req[2].paddr /\ ff.tag_req[1].drid # ff.tag_req[2].drid
AnswerOrder == Len(ff.snack) = 2 /\ ff.snack[2].drid = 0 => ff.snack[1].paddr # ff.snack[2].paddr
Orders == NoDoubles /\ CommandOrder /\ AnswerOrder

-----------------------------------------------------------------------------
(* Requests and answers.                                                   *)
Unanswered(s) == req_buf[s].valid /\ s \notin WordsOf(ff.release)
RequestOf(s) == [nid |-> Requester(s), l2id |-> req_buf[s].l2id,
                 paddr |-> Line(s), cmd |-> req_buf[s].cmd]

AskedOnce ==
    \A rq, o \in asked : rq # o /\ rq.nid = o.nid => rq.l2id # o.l2id /\ rq.paddr # o.paddr
AskedLacks ==
    \A rq \in asked : IF rq.cmd = REQ_S THEN copy[rq.nid][rq.paddr] = "I"
                                        ELSE copy[rq.nid][rq.paddr] # "M"
HeldWasAsked == \A s \in Slots : Unanswered(s) => RequestOf(s) \in asked
AnswerWasAsked == \A m \in Answers : \E rq \in asked : IsAnswerTo(m, rq)
HeldOnce == \A s, t \in Slots : Unanswered(s) /\ Unanswered(t) /\ RequestOf(s) = RequestOf(t) => s = t
HeldOrAnswered ==
    \A s \in Slots, m \in Answers : Unanswered(s) => ~IsAnswerTo(m, RequestOf(s))
AskedIsHeld ==
    \A rq \in asked : (\E s \in Slots : Unanswered(s) /\ RequestOf(s) = rq)
                      \/ (\E m \in Answers : IsAnswerTo(m, rq))

Asking ==
    /\ AskedOnce /\ AskedLacks /\ HeldWasAsked /\ AnswerWasAsked
    /\ HeldOnce /\ HeldOrAnswered /\ AskedIsHeld

-----------------------------------------------------------------------------
(* Coherence: whoever has a line is in the book, and alone there if it may *)
(* write.                                                                  *)
OwnSet == \A l \in Lines, w \in Ways : tags[SetOf[l]][w] \in {NoTag, HashOf[l]}
PointersDistinct ==
    /\ \A s \in Sets, w \in Ways : Distinct(entries[s][w])
    /\ \A s \in Slots : Distinct(entry_buf[s].entry)
CommandsKnow ==
    \A r \in Commands :
        /\ Present(r.paddr)
        /\ r.cmd = DR_CMD_UPDATE_ENTRY => r.nid \notin Known(entry_buf[SlotOf(r.drid)].entry)
Tracked ==
    \A l \in Lines : Holders(l) \subseteq Book(l) /\ \A n \in Owners(l) : Book(l) \subseteq {n}

(* While a request snoops, the nodes left to ask are those that have the   *)
(* line, but for the requester.                                            *)
Others(s) == Holders(Line(s)) \ {Requester(s)}
After(s)  == {entry_buf[s].entry.nid[p] : p \in Later(entry_buf[s].entry, entry_buf[s].pos)}
Asks(s) ==
    LET e == entry_buf[s].entry IN
    /\ Used(e) # {} => entry_buf[s].pos \in Used(e)
    /\ Others(s) \subseteq After(s) \cup (IF Used(e) = {} THEN {} ELSE {Who(s)})
    /\ \A o \in Owners(Line(s)) : Known(e) = {o}
Denied(s) == Others(s) \subseteq After(s) /\ Owners(Line(s)) = {}
Replied(d) ==
    LET s == DispSlot(d)
        e == entry_buf[s].entry IN
    /\ Owners(Line(s)) = {}
    /\ req_buf[s].cmd = REQ_M => Used(e) \subseteq {entry_buf[s].pos} /\ Others(s) = {}
    /\ Others(s) \subseteq (IF d.dcmd = "WI" THEN Known(Cleared(s)) ELSE Known(e))
Alone(s) == Others(s) = {} /\ Owners(Line(s)) = {} /\ Book(Line(s)) = {Requester(s)}

(* What holds of a request at a station. *)
Looking  == {"entry", "snack", "snoops", "disp", "snoop_ack"}
Snooping == {"snack", "snoops", "disp", "snoop_ack"}
Asked    == {"snoops", "disp", "snoop_ack", "mem", "memory"}
Kept(s, place) ==
    /\ place \in Looking => /\ Present(Line(s))
                            /\ \A r \in Commands : s # SlotOf(r.drid) /\ Line(s) # r.paddr
    /\ place \in Asked => \A m \in Answers : Line(s) # m.paddr
    /\ place \in Snooping => Requester(s) \notin Known(entry_buf[s].entry)
    /\ place \in {"snack", "snoops"} => Asks(s)
    /\ place = "snoop_ack" => Denied(s)
    /\ place = "disp" => \A d \in disp : DispSlot(d) = s => Replied(d)
    /\ place \in {"mem", "memory"} => Alone(s)

Tables == OwnSet /\ PointersDistinct /\ CommandsNamed /\ CommandsKnow
Whereabouts(where) ==
    /\ where \in [Slots -> Places] /\ Posted(where) /\ Resting(where)
    /\ \A s \in Slots : Kept(s, where[s])

Inv(where) ==
    /\ RequestsOnly /\ Typed /\ Quiet /\ SlotsMatch /\ Orders /\ RepliesMatch /\ Queues /\ Asking
    /\ Tables /\ Tracked /\ Whereabouts(where)
IInv == \E where : Inv(where)

-----------------------------------------------------------------------------
(* Queues of two places, as sets of words.                                 *)

PutOn(q, q2, x) ==
    /\ WordsOf(q2) = WordsOf(q) \cup {x}
    /\ Len(q2) = 2 => q2[2] = x /\ q2[1] \in WordsOf(q)
    /\ x \notin WordsOf(q) => NoDouble(q2)
TakenFrom(q, q2, h) ==
    /\ h \in WordsOf(q) /\ Len(q2) # 2
    /\ WordsOf(q) = WordsOf(q2) \cup {h}
    /\ \A w \in WordsOf(q2) : Len(q) = 2 /\ q[1] = h /\ q[2] = w
    /\ NoDouble(q) => h \notin WordsOf(q2)
    /\ NoDouble(q2)

LEMMA Putting ==
    ASSUME NEW S, NEW q \in Queue(S), NEW x \in S, Room(q), NEW q2, q2 = Append(q, x)
    PROVE  PutOn(q, q2, x)
<1>1. q \in Seq(S) /\ Len(q) \in {0, 1} /\ DOMAIN q = 1 .. Len(q)
  BY DEF Queue, Room
<1>2. q2 \in Seq(S) /\ Len(q2) = Len(q) + 1 /\ DOMAIN q2 = 1 .. (Len(q) + 1)
      /\ q2[Len(q) + 1] = x /\ \A i \in 1 .. Len(q) : q2[i] = q[i]
  BY <1>1
<1>3. WordsOf(q2) = WordsOf(q) \cup {x}
  BY <1>1, <1>2 DEF WordsOf
<1>4. Len(q2) = 2 => q2[2] = x /\ q2[1] \in WordsOf(q)
  BY <1>1, <1>2 DEF WordsOf
<1>5. QED BY <1>1, <1>2, <1>3, <1>4 DEF NoDouble, PutOn

LEMMA Getting ==
    ASSUME NEW S, NEW q \in Queue(S), q # << >>, NEW q2, q2 = Tail(q), NEW h, h = Head(q)
    PROVE  h \in S /\ TakenFrom(q, q2, h)
<1>0. q \in Seq(S) /\ Len(q) \in Nat /\ Len(q) <= 2 /\ Len(q) # 0 /\ DOMAIN q = 1 .. Len(q)
  BY DEF Queue
<1>1. q \in Seq(S) /\ Len(q) \in {1, 2} /\ DOMAIN q = 1 .. Len(q)
  BY <1>0
<1>2. q2 \in Seq(S) /\ Len(q2) = Len(q) - 1 /\ DOMAIN q2 = 1 .. (Len(q) - 1)
      /\ h = q[1] /\ \A i \in 1 .. (Len(q) - 1) : q2[i] = q[i + 1]
  BY <1>1
<1>3. CASE Len(q) = 1
  <2>1. WordsOf(q2) = {} /\ WordsOf(q) = {h}
    BY <1>1, <1>2, <1>3 DEF WordsOf
  <2>2. QED BY <1>1, <1>2, <1>3, <2>1 DEF NoDouble, TakenFrom
<1>4. CASE Len(q) = 2
  <2>1. WordsOf(q2) = {q[2]}
    BY <1>1, <1>2, <1>4 DEF WordsOf
  <2>2. WordsOf(q) = {h, q[2]}
    BY <1>1, <1>2, <1>4 DEF WordsOf
  <2>3. QED BY <1>1, <1>2, <1>4, <2>1, <2>2 DEF NoDouble, TakenFrom
<1>5. QED BY <1>1, <1>3, <1>4

LEMMA EmptyQueue == ASSUME NEW S PROVE WordsOf(<< >>) = {} /\ NoDouble(<< >>) /\ << >> \in Queue(S)
BY DEF WordsOf, NoDouble, Queue

LEMMA WordType == \A S : \A q \in Queue(S) : WordsOf(q) \subseteq S
BY DEF Queue, WordsOf

-----------------------------------------------------------------------------
(* A request moves from one place to another.                              *)

LEMMA Moving ==
    ASSUME NEW where \in [Slots -> Places], NEW t \in Slots, NEW from, where[t] = from,
           NEW to \in Places, NEW moved, moved = [where EXCEPT ![t] = to], from # to
    PROVE  /\ moved \in [Slots -> Places] /\ moved[t] = to
           /\ \A s \in Slots : s # t => moved[s] = where[s]
           /\ At(moved, from) = At(where, from) \ {t}
           /\ At(moved, to) = At(where, to) \cup {t}
           /\ \A p : p # from /\ p # to => At(moved, p) = At(where, p)
           /\ t \in At(where, from) /\ t \notin At(where, to)
BY DEF At

Apart(wording) ==
    \A p \in Stations : \A s, t \in Slots : wording[p][s] = wording[p][t] => s = t
SameWords(where, wording, wording2, t) ==
    \A p \in Stations, s \in Slots : where[s] = p /\ s # t => wording2[p][s] = wording[p][s]

Shifted(board, board2, wording, wording2, t, from, to) ==
    /\ from \in Stations => board2[from] = board[from] \ {wording[from][t]}
    /\ to \in Stations => board2[to] = board[to] \cup {wording2[to][t]}
    /\ \A p \in Stations : p # from /\ p # to => board2[p] = board[p]

LEMMA MapAdd ==
    ASSUME NEW f, NEW g, NEW A, NEW t, t \notin A, \A s \in A : g[s] = f[s]
    PROVE  {g[s] : s \in A \cup {t}} = {f[s] : s \in A} \cup {g[t]}
OBVIOUS

LEMMA MapDrop ==
    ASSUME NEW f, NEW g, NEW A, NEW t \in A, \A s \in A : f[s] = f[t] => s = t,
           \A s \in A : s # t => g[s] = f[s]
    PROVE  {g[s] : s \in A \ {t}} = {f[s] : s \in A} \ {f[t]}
OBVIOUS

LEMMA MapSame ==
    ASSUME NEW f, NEW g, NEW A, \A s \in A : g[s] = f[s]
    PROVE  {g[s] : s \in A} = {f[s] : s \in A}
OBVIOUS

LEMMA OnBoard ==
    ASSUME NEW board, NEW wording, NEW where, Fits(board, wording, where), NEW p \in Stations
    PROVE  /\ \A s \in Slots : where[s] = p => wording[p][s] \in board[p]
           /\ \A w \in board[p] : \E s \in Slots : where[s] = p /\ w = wording[p][s]
BY DEF Fits, At

LEMMA Reposting ==
    ASSUME NEW board, NEW board2, NEW wording, NEW wording2, NEW where \in [Slots -> Places],
           NEW t \in Slots, Fits(board, wording, where), Apart(wording), SameWords(where, wording, wording2, t),
            NEW from \in Places, where[t] = from, NEW to \in Places, from # to,
           NEW moved, moved = [where EXCEPT ![t] = to],
           Shifted(board, board2, wording, wording2, t, from, to)
    PROVE  Fits(board2, wording2, moved)
<1>0. /\ from \in Stations => board2[from] = board[from] \ {wording[from][t]}
      /\ to \in Stations => board2[to] = board[to] \cup {wording2[to][t]}
      /\ \A p \in Stations : p # from /\ p # to => board2[p] = board[p]
  BY DEF Shifted
<1>1. /\ At(moved, from) = At(where, from) \ {t}
      /\ At(moved, to) = At(where, to) \cup {t}
      /\ \A p : p # from /\ p # to => At(moved, p) = At(where, p)
      /\ t \in At(where, from) /\ t \notin At(where, to)
  BY DEF At
<1>2. \A p : At(where, p) \subseteq Slots /\ (t \in At(where, p) => p = from)
  BY DEF At
<1> SUFFICES ASSUME NEW p \in Stations
             PROVE  board2[p] = {wording2[p][s] : s \in At(moved, p)}
  BY DEF Fits
<1>3. board[p] = {wording[p][s] : s \in At(where, p)}
  BY DEF Fits
<1>4. \A s \in At(where, p) : s # t => wording2[p][s] = wording[p][s]
  BY <1>2 DEF SameWords, At
<1>5. CASE p = from
  <2>1. \A s \in At(where, p) : wording[p][s] = wording[p][t] => s = t
    BY <1>2 DEF Apart
  <2>2. board2[p] = board[p] \ {wording[p][t]}
    BY <1>0, <1>5
  <2>3. At(moved, p) = At(where, p) \ {t}
    BY <1>1, <1>5
  <2> DEFINE f == wording[p]
             g == wording2[p]
             A == At(where, p)
  <2>4. t \in A /\ (\A s \in A : f[s] = f[t] => s = t) /\ \A s \in A : s # t => g[s] = f[s]
    BY <1>1, <1>4, <1>5, <2>1
  <2> HIDE DEF f, g, A
  <2>5. {g[s] : s \in A \ {t}} = {f[s] : s \in A} \ {f[t]}
    BY <2>4, MapDrop
  <2>6. QED BY <1>3, <2>2, <2>3, <2>5 DEF f, g, A
<1>6. CASE p = to
  <2>1. board2[p] = board[p] \cup {wording2[p][t]}
    BY <1>0, <1>6
  <2>2. At(moved, p) = At(where, p) \cup {t} /\ t \notin At(where, p)
    BY <1>1, <1>6
  <2> DEFINE f == wording[p]
             g == wording2[p]
             A == At(where, p)
  <2>4. t \notin A /\ \A s \in A : g[s] = f[s]
    BY <1>4, <2>2
  <2> HIDE DEF f, g, A
  <2>5. {g[s] : s \in A \cup {t}} = {f[s] : s \in A} \cup {g[t]}
    BY <2>4, MapAdd
  <2>6. QED BY <1>3, <2>1, <2>2, <2>5 DEF f, g, A
<1>7. CASE p # from /\ p # to
  <2>1. At(moved, p) = At(where, p) /\ t \notin At(where, p) /\ board2[p] = board[p]
    BY <1>0, <1>1, <1>2, <1>7
  <2>2. QED BY <1>3, <1>4, <2>1
<1>8. QED BY <1>5, <1>6, <1>7

LEMMA Restaying ==
    ASSUME NEW board, NEW board2, NEW wording, NEW wording2, NEW where \in [Slots -> Places],
           NEW t, Fits(board, wording, where), \A s \in Slots : s = t => where[s] = "none",
           SameWords(where, wording, wording2, t), \A p \in Stations : board2[p] = board[p]
    PROVE  Fits(board2, wording2, where)
<1> SUFFICES ASSUME NEW p \in Stations
             PROVE  board2[p] = {wording2[p][s] : s \in At(where, p)}
  BY DEF Fits
<1>1. board[p] = {wording[p][s] : s \in At(where, p)} /\ board2[p] = board[p] /\ p # "none"
  BY DEF Fits, Stations
<1>2. \A s \in At(where, p) : wording2[p][s] = wording[p][s]
  BY <1>1 DEF SameWords, At
<1>3. QED BY <1>1, <1>2

LEMMA TagWord ==
    \A s \in Slots : /\ Wording["tag"][s] = StageWord(s)
                    /\ Wording'["tag"][s] = StageWord(s)'
BY DEF Wording

LEMMA EntryWord ==
    \A s \in Slots : /\ Wording["entry"][s] = [req |-> StageWord(s), entry |-> TableEntry(Line(s))]
                    /\ Wording'["entry"][s] = [req |-> StageWord(s)', entry |-> TableEntry(Line(s))']
BY DEF Wording

LEMMA MemWord ==
    \A s \in Slots : /\ Wording["mem"][s] = [drid |-> s + 1, paddr |-> Line(s), cmd |-> req_buf[s].cmd]
                    /\ Wording'["mem"][s] = [drid |-> s + 1, paddr |-> Line(s)', cmd |-> req_buf'[s].cmd]
BY DEF Wording

LEMMA SnackWord ==
    \A s \in Slots : /\ Wording["snack"][s] = SnoopWord(s)
                    /\ Wording'["snack"][s] = SnoopWord(s)'
BY DEF Wording

LEMMA SnoopsWord ==
    \A s \in Slots : /\ Wording["snoops"][s] = SnoopWord(s)
                    /\ Wording'["snoops"][s] = SnoopWord(s)'
BY DEF Wording

LEMMA DispWord ==
    \A s \in Slots : /\ Wording["disp"][s] = s + 1
                    /\ Wording'["disp"][s] = s + 1
BY DEF Wording

LEMMA AckWord ==
    \A s \in Slots : /\ Wording["snoop_ack"][s] = s + 1
                    /\ Wording'["snoop_ack"][s] = s + 1
BY DEF Wording

LEMMA MemoryWord ==
    \A s \in Slots : /\ Wording["memory"][s] = [drid |-> s + 1, nid |-> NoNid, paddr |-> Line(s), ack |-> AckOf(req_buf[s].cmd)]
                    /\ Wording'["memory"][s] = [drid |-> s + 1, nid |-> NoNid, paddr |-> Line(s)', ack |-> AckOf(req_buf'[s].cmd)]
BY DEF Wording

LEMMA ReleaseWord ==
    \A s \in Slots : /\ Wording["release"][s] = s
                    /\ Wording'["release"][s] = s
BY DEF Wording

LEMMA NumberApart == \A s, t \in Slots : s + 1 = t + 1 => s = t
BY Positive DEF Slots

LEMMA WordingApart == Apart(Wording) /\ Apart(Wording)'
<1>1. \A s \in Slots : StageWord(s).drid = s + 1 /\ SnoopWord(s).drid = s + 1
  BY DEF StageWord, SnoopWord, StageOf, Snoop
<1>2. \A s \in Slots : StageWord(s)'.drid = s + 1 /\ SnoopWord(s)'.drid = s + 1
  BY DEF StageWord, SnoopWord, StageOf, Snoop
<1>3. ASSUME NEW p \in Stations, NEW s \in Slots, NEW t \in Slots, Wording[p][s] = Wording[p][t]
      PROVE  s = t
  <2>1. s + 1 = t + 1 \/ s = t
    <3>1. CASE p = "tag"
      <4>0. Wording["tag"][s] = Wording["tag"][t]
        BY <1>3, <3>1
      <4>1. StageWord(s) = StageWord(t)
        BY <4>0, TagWord
      <4>2. StageWord(s).drid = StageWord(t).drid
        BY <4>1
      <4>3. QED BY <4>2, <1>1
    <3>2. CASE p = "entry"
      <4>0. Wording["entry"][s] = Wording["entry"][t]
        BY <1>3, <3>2
      <4>1. [req |-> StageWord(s), entry |-> TableEntry(Line(s))] = [req |-> StageWord(t), entry |-> TableEntry(Line(t))]
        BY <4>0, EntryWord
      <4>2. StageWord(s) = StageWord(t)
        BY <4>1
      <4>3. StageWord(s).drid = StageWord(t).drid
        BY <4>2
      <4>4. QED BY <4>3, <1>1
    <3>3. CASE p = "mem"
      <4>0. Wording["mem"][s] = Wording["mem"][t]
        BY <1>3, <3>3
      <4>1. [drid |-> s + 1, paddr |-> Line(s), cmd |-> req_buf[s].cmd] = [drid |-> t + 1, paddr |-> Line(t), cmd |-> req_buf[t].cmd]
        BY <4>0, MemWord
      <4>2. QED BY <4>1
    <3>4. CASE p = "memory"
      <4>0. Wording["memory"][s] = Wording["memory"][t]
        BY <1>3, <3>4
      <4>1. [drid |-> s + 1, nid |-> NoNid, paddr |-> Line(s), ack |-> AckOf(req_buf[s].cmd)] =
            [drid |-> t + 1, nid |-> NoNid, paddr |-> Line(t), ack |-> AckOf(req_buf[t].cmd)]
        BY <4>0, MemoryWord
      <4>2. QED BY <4>1
    <3>5. CASE p \in {"snack", "snoops"}
      <4>0. Wording["snack"][s] = Wording["snack"][t] \/ Wording["snoops"][s] = Wording["snoops"][t]
        BY <1>3, <3>5
      <4>1. SnoopWord(s) = SnoopWord(t)
        BY <4>0, SnackWord, SnoopsWord
      <4>2. SnoopWord(s).drid = SnoopWord(t).drid
        BY <4>1
      <4>3. QED BY <4>2, <1>1
    <3>6. CASE p \in {"disp", "snoop_ack", "release"}
      <4>1. \/ Wording["disp"][s] = Wording["disp"][t]
            \/ Wording["snoop_ack"][s] = Wording["snoop_ack"][t]
            \/ Wording["release"][s] = Wording["release"][t]
        BY <1>3, <3>6
      <4>2. QED BY <4>1, DispWord, AckWord, ReleaseWord
    <3>7. QED BY <3>1, <3>2, <3>3, <3>4, <3>5, <3>6 DEF Stations
  <2>2. QED BY <2>1, NumberApart
<1>4. ASSUME NEW p \in Stations, NEW s \in Slots, NEW t \in Slots, Wording'[p][s] = Wording'[p][t]
      PROVE  s = t
  <2>1. s + 1 = t + 1 \/ s = t
    <3>1. CASE p = "tag"
      <4>0. Wording'["tag"][s] = Wording'["tag"][t]
        BY <1>4, <3>1
      <4>1. StageWord(s)' = StageWord(t)'
        BY <4>0, TagWord
      <4>2. StageWord(s)'.drid = StageWord(t)'.drid
        BY <4>1
      <4>3. QED BY <4>2, <1>2
    <3>2. CASE p = "entry"
      <4>0. Wording'["entry"][s] = Wording'["entry"][t]
        BY <1>4, <3>2
      <4>1. [req |-> StageWord(s)', entry |-> TableEntry(Line(s))'] = [req |-> StageWord(t)', entry |-> TableEntry(Line(t))']
        BY <4>0, EntryWord
      <4>2. StageWord(s)' = StageWord(t)'
        BY <4>1
      <4>3. StageWord(s)'.drid = StageWord(t)'.drid
        BY <4>2
      <4>4. QED BY <4>3, <1>2
    <3>3. CASE p = "mem"
      <4>0. Wording'["mem"][s] = Wording'["mem"][t]
        BY <1>4, <3>3
      <4>1. [drid |-> s + 1, paddr |-> Line(s)', cmd |-> req_buf'[s].cmd] = [drid |-> t + 1, paddr |-> Line(t)', cmd |-> req_buf'[t].cmd]
        BY <4>0, MemWord
      <4>2. QED BY <4>1
    <3>4. CASE p = "memory"
      <4>0. Wording'["memory"][s] = Wording'["memory"][t]
        BY <1>4, <3>4
      <4>1. [drid |-> s + 1, nid |-> NoNid, paddr |-> Line(s)', ack |-> AckOf(req_buf'[s].cmd)] =
            [drid |-> t + 1, nid |-> NoNid, paddr |-> Line(t)', ack |-> AckOf(req_buf'[t].cmd)]
        BY <4>0, MemoryWord
      <4>2. QED BY <4>1
    <3>5. CASE p \in {"snack", "snoops"}
      <4>0. Wording'["snack"][s] = Wording'["snack"][t] \/ Wording'["snoops"][s] = Wording'["snoops"][t]
        BY <1>4, <3>5
      <4>1. SnoopWord(s)' = SnoopWord(t)'
        BY <4>0, SnackWord, SnoopsWord
      <4>2. SnoopWord(s)'.drid = SnoopWord(t)'.drid
        BY <4>1
      <4>3. QED BY <4>2, <1>2
    <3>6. CASE p \in {"disp", "snoop_ack", "release"}
      <4>1. \/ Wording'["disp"][s] = Wording'["disp"][t]
            \/ Wording'["snoop_ack"][s] = Wording'["snoop_ack"][t]
            \/ Wording'["release"][s] = Wording'["release"][t]
        BY <1>4, <3>6
      <4>2. QED BY <4>1, DispWord, AckWord, ReleaseWord
    <3>7. QED BY <3>1, <3>2, <3>3, <3>4, <3>5, <3>6 DEF Stations
  <2>2. QED BY <2>1, NumberApart
<1>5. Apart(Wording)
  BY <1>3 DEF Apart
<1>6. Apart(Wording)'
  BY <1>4 DEF Apart
<1>7. QED BY <1>5, <1>6

-----------------------------------------------------------------------------
(* What the invariant says of a slot and of a word.                        *)

LEMMA BoardIs ==
    /\ Board["tag"] = {r \in WordsOf(ff.tag_req) : ~r.dr_cmd}
    /\ Board["entry"] = WordsOf(ff.entry)
    /\ Board["mem"] = WordsOf(ff.mem)
    /\ Board["snack"] = {m \in WordsOf(ff.snack) : m.drid # 0}
    /\ Board["snoops"] = snoops
    /\ Board["disp"] = {d.drid : d \in disp}
    /\ Board["snoop_ack"] = snoop_ack
    /\ Board["memory"] = memory
    /\ Board["release"] = WordsOf(ff.release)
BY DEF Board

LEMMA BoardIsNext ==
    /\ Board'["tag"] = {r \in WordsOf(ff'.tag_req) : ~r.dr_cmd}
    /\ Board'["entry"] = WordsOf(ff'.entry)
    /\ Board'["mem"] = WordsOf(ff'.mem)
    /\ Board'["snack"] = {m \in WordsOf(ff'.snack) : m.drid # 0}
    /\ Board'["snoops"] = snoops'
    /\ Board'["disp"] = {d.drid : d \in disp'}
    /\ Board'["snoop_ack"] = snoop_ack'
    /\ Board'["memory"] = memory'
    /\ Board'["release"] = WordsOf(ff'.release)
BY DEF Board, WordsOf

LEMMA FlopFacts ==
    ASSUME NEW where, Inv(where)
    PROVE  /\ ff.tag_req \in Queue(Stage) /\ ff.entry \in Queue(Fetched) /\ ff.mem \in Queue(MemReq)
           /\ ff.snack \in Queue(Msg) /\ ff.disp_snack \in Queue(Msg) /\ ff.release \in Queue(Slots)
           /\ ff \in QueueFlops
<1>1. ff \in QueueFlops
  BY DEF Inv, Typed, FlopsAreTyped
<1>2. QED BY <1>1 DEF QueueFlops

LEMMA CommandFacts ==
    ASSUME NEW where, Inv(where)
    PROVE  \A r \in Commands : /\ r \in Stage /\ r \in WordsOf(ff.tag_req) /\ r.dr_cmd /\ r.drid \in Drid
                               /\ SlotOf(r.drid) \in Slots /\ r.paddr \in Lines
<1>1. WordsOf(ff.tag_req) \subseteq Stage
  BY FlopFacts, WordType
<1>2. \A r \in Commands : r \in Stage /\ r \in WordsOf(ff.tag_req) /\ r.dr_cmd
  BY <1>1 DEF Commands
<1>3. \A r \in Stage : r.drid \in Drid /\ r.paddr \in Lines
  BY DEF Stage
<1>4. QED BY <1>2, <1>3, SlotOfType

LEMMA AnswerFacts ==
    ASSUME NEW where, Inv(where)
    PROVE  \A m \in Answers : m \in Msg /\ m \in WordsOf(ff.snack) /\ m.drid = 0 /\ m.paddr \in Lines
<1>1. WordsOf(ff.snack) \subseteq Msg
  BY FlopFacts, WordType
<1>2. QED BY <1>1 DEF Answers, Msg

LEMMA SlotFacts ==
    ASSUME NEW where, Inv(where), NEW s \in Slots
    PROVE  /\ where[s] \in Places /\ Line(s) \in Lines /\ req_buf[s].next \in Drid
           /\ req_buf[s].valid \in BOOLEAN /\ Requester(s) \in Nodes /\ ~req_buf[s].found
           /\ req_buf[s].valid => Requester(s) \in Nid /\ req_buf[s].cmd \in {REQ_S, REQ_M}
           /\ where[s] # "none" => req_buf[s].valid /\ Active(s)
           /\ Active(s) => where[s] # "none"
<1>1. RegistersOK /\ where \in [Slots -> Places] /\ Resting(where) /\ SlotsMatch /\ Quiet
  BY DEF Inv, Whereabouts, Typed
<1>2. Line(s) \in Lines /\ req_buf[s].next \in Drid /\ req_buf[s].valid \in BOOLEAN /\ Requester(s) \in Nodes
  BY <1>1 DEF RegistersOK, Outstanding, Line, Requester
<1>3. /\ where[s] # "none" => req_buf[s].valid /\ Active(s)
      /\ Active(s) => where[s] # "none"
  BY <1>1 DEF Resting, Active
<1>4. req_buf[s].valid => Requester(s) \in Nid /\ req_buf[s].cmd \in {REQ_S, REQ_M}
  BY <1>1 DEF SlotsMatch
<1>5. QED BY <1>1, <1>2, <1>3, <1>4 DEF Quiet

LEMMA OneOfALine ==
    ASSUME NEW where, Inv(where)
    PROVE  \A s, t \in Slots : where[s] # "none" /\ where[t] # "none" /\ Line(s) = Line(t) => s = t
<1>1. OneHead
  BY DEF Inv, Queues
<1>2. QED BY <1>1, SlotFacts DEF OneHead, SameHash

LEMMA TagAt ==
    ASSUME NEW where, Inv(where)
    PROVE  \A r \in WordsOf(ff.tag_req) : ~r.dr_cmd => \E s \in Slots : where[s] = "tag" /\ r = StageWord(s)
<1>1. Fits(Board, Wording, where) /\ "tag" \in Stations
  BY DEF Inv, Whereabouts, Posted, Stations
<1>2. \A w \in Board["tag"] : \E s \in Slots : where[s] = "tag" /\ w = Wording["tag"][s]
  BY <1>1, OnBoard
<1>3. QED BY <1>2, BoardIs, TagWord

LEMMA EntryAt ==
    ASSUME NEW where, Inv(where)
    PROVE  \A r \in WordsOf(ff.entry) : \E s \in Slots : where[s] = "entry" /\ r = [req |-> StageWord(s), entry |-> TableEntry(Line(s))]
<1>1. Fits(Board, Wording, where) /\ "entry" \in Stations
  BY DEF Inv, Whereabouts, Posted, Stations
<1>2. \A w \in Board["entry"] : \E s \in Slots : where[s] = "entry" /\ w = Wording["entry"][s]
  BY <1>1, OnBoard
<1>3. ASSUME NEW r \in WordsOf(ff.entry)
      PROVE  \E s \in Slots : where[s] = "entry" /\ r = Wording["entry"][s]
  BY <1>2, BoardIs
<1>4. QED BY <1>3, EntryWord

LEMMA MemAt ==
    ASSUME NEW where, Inv(where)
    PROVE  \A r \in WordsOf(ff.mem) : \E s \in Slots : where[s] = "mem" /\ r = [drid |-> s + 1, paddr |-> Line(s), cmd |-> req_buf[s].cmd]
<1>1. Fits(Board, Wording, where) /\ "mem" \in Stations
  BY DEF Inv, Whereabouts, Posted, Stations
<1>2. \A w \in Board["mem"] : \E s \in Slots : where[s] = "mem" /\ w = Wording["mem"][s]
  BY <1>1, OnBoard
<1>3. ASSUME NEW r \in WordsOf(ff.mem)
      PROVE  \E s \in Slots : where[s] = "mem" /\ r = Wording["mem"][s]
  BY <1>2, BoardIs
<1>4. QED BY <1>3, MemWord

LEMMA SnackAt ==
    ASSUME NEW where, Inv(where)
    PROVE  \A r \in WordsOf(ff.snack) : r.drid # 0 => \E s \in Slots : where[s] = "snack" /\ r = SnoopWord(s)
<1>1. Fits(Board, Wording, where) /\ "snack" \in Stations
  BY DEF Inv, Whereabouts, Posted, Stations
<1>2. \A w \in Board["snack"] : \E s \in Slots : where[s] = "snack" /\ w = Wording["snack"][s]
  BY <1>1, OnBoard
<1>3. QED BY <1>2, BoardIs, SnackWord

LEMMA SnoopsAt ==
    ASSUME NEW where, Inv(where)
    PROVE  \A r \in snoops : \E s \in Slots : where[s] = "snoops" /\ r = SnoopWord(s)
<1>1. Fits(Board, Wording, where) /\ "snoops" \in Stations
  BY DEF Inv, Whereabouts, Posted, Stations
<1>2. \A w \in Board["snoops"] : \E s \in Slots : where[s] = "snoops" /\ w = Wording["snoops"][s]
  BY <1>1, OnBoard
<1>3. QED BY <1>2, BoardIs, SnoopsWord

LEMMA AckAt ==
    ASSUME NEW where, Inv(where)
    PROVE  \A r \in snoop_ack : \E s \in Slots : where[s] = "snoop_ack" /\ r = s + 1
<1>1. Fits(Board, Wording, where) /\ "snoop_ack" \in Stations
  BY DEF Inv, Whereabouts, Posted, Stations
<1>2. \A w \in Board["snoop_ack"] : \E s \in Slots : where[s] = "snoop_ack" /\ w = Wording["snoop_ack"][s]
  BY <1>1, OnBoard
<1>3. QED BY <1>2, BoardIs, AckWord

LEMMA MemoryAt ==
    ASSUME NEW where, Inv(where)
    PROVE  \A r \in memory : \E s \in Slots : where[s] = "memory" /\ r = [drid |-> s + 1, nid |-> NoNid, paddr |-> Line(s), ack |-> AckOf(req_buf[s].cmd)]
<1>1. Fits(Board, Wording, where) /\ "memory" \in Stations
  BY DEF Inv, Whereabouts, Posted, Stations
<1>2. \A w \in Board["memory"] : \E s \in Slots : where[s] = "memory" /\ w = Wording["memory"][s]
  BY <1>1, OnBoard
<1>3. QED BY <1>2, BoardIs, MemoryWord

LEMMA ReleaseAt ==
    ASSUME NEW where, Inv(where)
    PROVE  \A r \in WordsOf(ff.release) : \E s \in Slots : where[s] = "release" /\ r = s
<1>1. Fits(Board, Wording, where) /\ "release" \in Stations
  BY DEF Inv, Whereabouts, Posted, Stations
<1>2. \A w \in Board["release"] : \E s \in Slots : where[s] = "release" /\ w = Wording["release"][s]
  BY <1>1, OnBoard
<1>3. QED BY <1>2, BoardIs, ReleaseWord

LEMMA DispAt ==
    ASSUME NEW where, Inv(where)
    PROVE  \A d \in disp : \E s \in Slots : where[s] = "disp" /\ d.drid = s + 1 /\ DispSlot(d) = s
<1>1. Fits(Board, Wording, where) /\ "disp" \in Stations
  BY DEF Inv, Whereabouts, Posted, Stations
<1>2. \A w \in Board["disp"] : \E s \in Slots : where[s] = "disp" /\ w = Wording["disp"][s]
  BY <1>1, OnBoard
<1>3. \A d \in disp : d.drid \in Board["disp"]
  BY BoardIs
<1>4. QED BY <1>2, <1>3, DispWord, SlotNames DEF DispSlot

LEMMA Releasing ==
    ASSUME NEW where, Inv(where), NEW s \in Slots
    PROVE  where[s] = "release" <=> s \in WordsOf(ff.release)
<1>1. Fits(Board, Wording, where) /\ "release" \in Stations
  BY DEF Inv, Whereabouts, Posted, Stations
<1>2. where[s] = "release" => Wording["release"][s] \in Board["release"]
  BY <1>1, OnBoard
<1>3. QED BY <1>2, BoardIs, ReleaseWord, ReleaseAt

LEMMA NotYetAnswered ==
    ASSUME NEW where, Inv(where), NEW s \in Slots, where[s] # "none", where[s] # "release"
    PROVE  Unanswered(s)
BY SlotFacts, Releasing DEF Unanswered

(* The one who asks for a line does not have what it asks for.             *)
LEMMA RequesterLacks ==
    ASSUME NEW where, Inv(where), NEW s \in Slots, Unanswered(s)
    PROVE  Requester(s) \notin Owners(Line(s))
<1> DEFINE rq == RequestOf(s)
<1>1. AskedOnce /\ AskedLacks /\ HeldWasAsked /\ AnswerWasAsked /\ HeldOrAnswered
  BY DEF Inv, Asking
<1>2. rq \in asked /\ rq.nid = Requester(s) /\ rq.paddr = Line(s)
  BY <1>1 DEF HeldWasAsked, RequestOf
<1>3. copy[Requester(s)][Line(s)] # "M"
  BY <1>1, <1>2 DEF AskedLacks
<1>4. ASSUME NEW m \in Answers, m.nid = Requester(s), m.paddr = Line(s) PROVE FALSE
  <2>1. PICK o \in asked : IsAnswerTo(m, o)
    BY <1>1 DEF AnswerWasAsked
  <2>2. o.nid = rq.nid /\ o.paddr = rq.paddr
    BY <1>2, <1>4, <2>1 DEF IsAnswerTo
  <2>3. o = rq
    BY <1>1, <1>2, <2>2 DEF AskedOnce
  <2>4. QED BY <1>1, <2>1, <2>3 DEF HeldOrAnswered
<1>5. QED BY <1>3, <1>4 DEF Owners

-----------------------------------------------------------------------------
(* What stays true of what a step leaves alone.                            *)

Undisturbed(s) ==
    /\ Line(s)' = Line(s) /\ Requester(s)' = Requester(s) /\ req_buf'[s].cmd = req_buf[s].cmd
    /\ entry_buf'[s] = entry_buf[s]
    /\ Holders(Line(s))' \subseteq Holders(Line(s)) /\ Owners(Line(s))' \subseteq Owners(Line(s))
    /\ Book(Line(s))' = Book(Line(s))
    /\ Present(Line(s)) => Present(Line(s))'
    /\ \A r \in Commands' : r \in Commands \/ (s # SlotOf(r.drid) /\ Line(s) # r.paddr)
    /\ \A m \in Answers' : m \in Answers \/ Line(s) # m.paddr
    /\ \A d \in disp' : d \in disp \/ DispSlot(d) # s

LEMMA KeptStays ==
    ASSUME NEW s \in Slots, NEW place, Undisturbed(s), Kept(s, place)
    PROVE  Kept(s, place)'
<1> USE DEF Undisturbed
<1>1. /\ Line(s)' = Line(s) /\ Requester(s)' = Requester(s) /\ req_buf'[s].cmd = req_buf[s].cmd
      /\ entry_buf'[s] = entry_buf[s]
  OBVIOUS
<1>2. place \in Looking => /\ Present(Line(s))'
                           /\ \A r \in Commands' : s # SlotOf(r.drid) /\ Line(s)' # r.paddr
  BY <1>1 DEF Kept
<1>3. place \in Asked => \A m \in Answers' : Line(s)' # m.paddr
  BY <1>1 DEF Kept
<1>4. place \in Snooping => Requester(s)' \notin Known(entry_buf'[s].entry)
  BY <1>1 DEF Kept
<1>5. Others(s)' \subseteq Others(s) /\ After(s)' = After(s) /\ Who(s)' = Who(s)
  BY <1>1 DEF Others, After, Who
<1>6. Owners(Line(s))' \subseteq Owners(Line(s)) /\ Book(Line(s))' = Book(Line(s))
  OBVIOUS
<1>7. Asks(s) => Asks(s)'
  BY <1>1, <1>5, <1>6 DEF Asks
<1>8. Denied(s) => Denied(s)'
  BY <1>1, <1>5, <1>6 DEF Denied
<1>9. ASSUME NEW d \in disp, DispSlot(d) = s, Replied(d) PROVE Replied(d)'
  <2>1. Cleared(s)' = Cleared(s)
    BY <1>1 DEF Cleared
  <2>2. QED BY <1>1, <1>5, <1>6, <1>9, <2>1 DEF Replied
<1>10. place = "disp" => \A d \in disp' : DispSlot(d) = s => Replied(d)'
  BY <1>9 DEF Kept
<1>11. Alone(s) => Alone(s)'
  BY <1>1, <1>5, <1>6 DEF Alone
<1>12. QED BY <1>2, <1>3, <1>4, <1>7, <1>8, <1>10, <1>11 DEF Kept

LEMMA AllKept ==
    ASSUME NEW where, Inv(where), NEW t \in Slots, NEW to, NEW moved, moved = [where EXCEPT ![t] = to],
           \A s \in Slots : s # t /\ where[s] # "none" => Undisturbed(s), Kept(t, to)'
    PROVE  \A s \in Slots : Kept(s, moved[s])'
<1>1. where \in [Slots -> Places] /\ \A s \in Slots : Kept(s, where[s])
  BY DEF Inv, Whereabouts
<1>2. ASSUME NEW s \in Slots PROVE Kept(s, moved[s])'
  <2>1. CASE s = t
    BY <1>1, <2>1
  <2>2. CASE s # t /\ where[s] # "none"
    <3>1. moved[s] = where[s] /\ Kept(s, where[s]) /\ Undisturbed(s)
      BY <1>1, <2>2
    <3>2. QED BY <3>1, KeptStays
  <2>3. CASE s # t /\ where[s] = "none"
    <3>1. moved[s] = "none"
      BY <1>1, <2>3
    <3>2. QED BY <3>1 DEF Kept, Looking, Asked, Snooping
  <2>4. QED BY <2>1, <2>2, <2>3
<1>3. QED BY <1>2

LEMMA KeepSlots ==
    ASSUME NEW where, Inv(where), req_buf' = req_buf
    PROVE  SlotsMatch' /\ Queues' /\ (\A s \in Slots : Active(s)' = Active(s))
<1>1. SlotsMatch /\ Queues
  BY DEF Inv
<1>2. SlotsMatch'
  BY <1>1 DEF SlotsMatch, Requester
<1>3. \A s \in Slots : Active(s)' = Active(s)
  BY DEF Active, Waiting
<1>4. \A s, t \in Slots : SameHash(s, t)' = SameHash(s, t)
  BY DEF SameHash, Line
<1>5. \A s \in Slots : Last(s)' = Last(s)
  BY DEF Last
<1>6. Linked' /\ FreeUnlinked' /\ Acyclic'
  BY <1>1, SlotOfType DEF Queues, Linked, FreeUnlinked, Acyclic, Ascending, SameHash, Line
<1>7. OneHead' /\ OneLast' /\ HeadAndLast'
  BY <1>1, <1>3, <1>4, <1>5 DEF Queues, OneHead, OneLast, HeadAndLast
<1>8. QED BY <1>2, <1>3, <1>6, <1>7 DEF Queues

LEMMA StillResting ==
    ASSUME NEW where, Inv(where), req_buf' = req_buf, NEW t \in Slots, where[t] # "none",
           NEW to, to # "none", NEW moved, moved = [where EXCEPT ![t] = to]
    PROVE  Resting(moved)'
<1>1. where \in [Slots -> Places] /\ Resting(where)
  BY DEF Inv, Whereabouts
<1>2. \A s \in Slots : Active(s)' = Active(s)
  BY KeepSlots
<1>3. QED BY <1>1, <1>2 DEF Resting

LEMMA KeepQuiet ==
    ASSUME NEW where, Inv(where), req_buf' = req_buf, latch'.found_line = latch.found_line,
           latch'.snoop_rel = latch.snoop_rel, ff'.disp_snack = ff.disp_snack, ff'.pfreq = ff.pfreq
    PROVE  Quiet'
BY DEF Inv, Quiet

LEMMA KeepAsking ==
    ASSUME NEW where, Inv(where), req_buf' = req_buf, asked' = asked, copy' = copy,
           Answers' = Answers, WordsOf(ff'.release) = WordsOf(ff.release)
    PROVE  Asking'
<1>1. Asking
  BY DEF Inv
<1>2. \A s \in Slots : Unanswered(s)' = Unanswered(s) /\ RequestOf(s)' = RequestOf(s)
  BY DEF Unanswered, RequestOf, Line, Requester, WordsOf
<1>3. AskedOnce' /\ AskedLacks'
  BY <1>1 DEF Asking, AskedOnce, AskedLacks
<1>4. HeldWasAsked' /\ HeldOnce'
  BY <1>1, <1>2 DEF Asking, HeldWasAsked, HeldOnce
<1>5. AnswerWasAsked' /\ HeldOrAnswered' /\ AskedIsHeld'
  BY <1>1, <1>2 DEF Asking, AnswerWasAsked, HeldOrAnswered, AskedIsHeld
<1>6. QED BY <1>3, <1>4, <1>5 DEF Asking

LEMMA SameHolders ==
    ASSUME copy' = copy, Answers' = Answers
    PROVE  \A l \in Lines : Holders(l)' = Holders(l) /\ Owners(l)' = Owners(l)
BY DEF Holders, Owners

LEMMA SameBook ==
    ASSUME tags' = tags, entries' = entries, Commands' = Commands,
           \A r \in Commands : entry_buf'[SlotOf(r.drid)] = entry_buf[SlotOf(r.drid)]
    PROVE  /\ \A l \in Lines : Book(l)' = Book(l) /\ Present(l)' = Present(l) /\ TableEntry(l)' = TableEntry(l)
           /\ \A r \in Commands : InternalEntry(r)' = InternalEntry(r)
<1>1. \A l \in Lines : Present(l)' = Present(l) /\ TableEntry(l)' = TableEntry(l) /\ Commanded(l)' = Commanded(l)
  BY DEF Present, TableEntry, Commanded
<1>2. \A r \in Commands : InternalEntry(r)' = InternalEntry(r)
  BY DEF InternalEntry
<1>3. QED BY <1>1, <1>2 DEF Book

LEMMA Shrinks ==
    ASSUME NEW where, Inv(where), \A l \in Lines : Holders(l)' \subseteq Holders(l) /\ Owners(l)' \subseteq Owners(l),
           \A l \in Lines : Book(l)' = Book(l)
    PROVE  Tracked'
<1>1. Tracked
  BY DEF Inv
<1>2. QED BY <1>1 DEF Tracked

LEMMA KeepTables ==
    ASSUME NEW where, Inv(where), tags' = tags, entries' = entries, Commands' = Commands,
           entry_buf' = entry_buf
    PROVE  Tables'
<1>1. Tables
  BY DEF Inv
<1>2. OwnSet' /\ PointersDistinct' /\ CommandsNamed'
  BY <1>1 DEF Tables, OwnSet, PointersDistinct, CommandsNamed
<1>3. CommandsKnow'
  BY <1>1 DEF Tables, CommandsKnow, Present
<1>4. QED BY <1>2, <1>3 DEF Tables

LEMMA KeepTablesBut ==
    ASSUME NEW where, Inv(where), tags' = tags, entries' = entries, Commands' = Commands, NEW t \in Slots,
           \A s \in Slots : s # t => entry_buf'[s] = entry_buf[s],
           Distinct(entry_buf'[t].entry), \A r \in Commands : SlotOf(r.drid) # t
    PROVE  Tables'
<1>1. Tables /\ Typed
  BY DEF Inv
<1>2. \A r \in Commands : SlotOf(r.drid) \in Slots
  BY CommandFacts
<1>3. OwnSet' /\ PointersDistinct' /\ CommandsNamed'
  BY <1>1 DEF Tables, OwnSet, PointersDistinct, CommandsNamed
<1>4. CommandsKnow'
  BY <1>1, <1>2 DEF Tables, CommandsKnow, Present
<1>5. QED BY <1>3, <1>4 DEF Tables

SameRequest(s) ==
    /\ req_buf'[s].paddr = req_buf[s].paddr /\ req_buf'[s].nid = req_buf[s].nid
    /\ req_buf'[s].cmd = req_buf[s].cmd

LEMMA KeepWording ==
    ASSUME NEW where, Inv(where), NEW t, \A s \in Slots : s # t /\ where[s] # "none" => SameRequest(s),
           \A s \in Slots : s # t /\ where[s] # "none" => entry_buf'[s] = entry_buf[s],
           \A s \in Slots : s # t /\ where[s] = "entry" => TableEntry(Line(s))' = TableEntry(Line(s))
    PROVE  SameWords(where, Wording, Wording', t)
<1>1. \A s \in Slots : s # t /\ where[s] # "none" =>
        /\ Line(s)' = Line(s) /\ Requester(s)' = Requester(s) /\ req_buf'[s].cmd = req_buf[s].cmd
        /\ StageWord(s)' = StageWord(s)
  BY DEF Line, Requester, StageWord, SameRequest
<1>2. \A s \in Slots : s # t /\ where[s] # "none" => SnoopWord(s)' = SnoopWord(s)
  BY <1>1 DEF SnoopWord, Who
<1> SUFFICES ASSUME NEW p \in Stations, NEW s \in Slots, where[s] = p, s # t
             PROVE  Wording'[p][s] = Wording[p][s]
  BY DEF SameWords
<1>3. where[s] # "none"
  BY DEF Stations
<1>4. CASE p = "tag"
  <2>1. Wording'["tag"][s] = Wording["tag"][s]
    BY <1>1, <1>3, TagWord
  <2>2. QED BY <1>4, <2>1
<1>5. CASE p = "entry"
  <2>1. StageWord(s)' = StageWord(s) /\ TableEntry(Line(s))' = TableEntry(Line(s))
    BY <1>1, <1>3, <1>5
  <2>2. Wording'["entry"][s] = Wording["entry"][s]
    BY <2>1, EntryWord
  <2>3. QED BY <1>5, <2>2
<1>6. CASE p = "mem"
  <2>1. Wording'["mem"][s] = Wording["mem"][s]
    BY <1>1, <1>3, MemWord
  <2>2. QED BY <1>6, <2>1
<1>7. CASE p = "memory"
  <2>1. Wording'["memory"][s] = Wording["memory"][s]
    BY <1>1, <1>3, MemoryWord
  <2>2. QED BY <1>7, <2>1
<1>8. CASE p = "snack"
  <2>1. Wording'["snack"][s] = Wording["snack"][s]
    BY <1>2, <1>3, SnackWord
  <2>2. QED BY <1>8, <2>1
<1>9. CASE p = "snoops"
  <2>1. Wording'["snoops"][s] = Wording["snoops"][s]
    BY <1>2, <1>3, SnoopsWord
  <2>2. QED BY <1>9, <2>1
<1>10. CASE p = "disp"
  <2>1. Wording'["disp"][s] = Wording["disp"][s]
    BY DispWord
  <2>2. QED BY <1>10, <2>1
<1>11. CASE p = "snoop_ack"
  <2>1. Wording'["snoop_ack"][s] = Wording["snoop_ack"][s]
    BY AckWord
  <2>2. QED BY <1>11, <2>1
<1>12. CASE p = "release"
  <2>1. Wording'["release"][s] = Wording["release"][s]
    BY ReleaseWord
  <2>2. QED BY <1>12, <2>1
<1>13. QED BY <1>4, <1>5, <1>6, <1>7, <1>8, <1>9, <1>10, <1>11, <1>12 DEF Stations

(* The board after a request has moved, and after a step that moves none.  *)
LEMMA Moves ==
    ASSUME NEW where, Inv(where), NEW t \in Slots, SameWords(where, Wording, Wording', t),
           NEW from \in Places, where[t] = from, NEW to \in Places, from # to,
           NEW moved, moved = [where EXCEPT ![t] = to],
           Shifted(Board, Board', Wording, Wording', t, from, to)
    PROVE  moved \in [Slots -> Places] /\ Posted(moved)'
<1>1. where \in [Slots -> Places] /\ Fits(Board, Wording, where)
  BY DEF Inv, Whereabouts, Posted
<1>2. Fits(Board', Wording', moved)
  <2>1. Apart(Wording)
    BY WordingApart
  <2>2. QED BY <1>1, <2>1, Reposting
<1>3. QED BY <1>1, <1>2 DEF Posted, Fits

LEMMA Stays ==
    ASSUME NEW where, Inv(where), NEW t, \A s \in Slots : s = t => where[s] = "none",
           SameWords(where, Wording, Wording', t), \A p \in Stations : Board'[p] = Board[p]
    PROVE  where \in [Slots -> Places] /\ Posted(where)'
<1>1. where \in [Slots -> Places] /\ Fits(Board, Wording, where)
  BY DEF Inv, Whereabouts, Posted
<1>2. Fits(Board', Wording', where)
  BY <1>1, Restaying
<1>3. QED BY <1>1, <1>2 DEF Posted, Fits

-----------------------------------------------------------------------------
(* The tables.                                                             *)

LEMMA OwnTags ==
    ASSUME NEW where, Inv(where)
    PROVE  \A k, l \in Lines : SetOf[k] = SetOf[l] => k = l
BY DEF Inv, RequestsOnly

LEMMA WayOf ==
    ASSUME NEW ways, NEW hash, hash # NoTag, \A w \in Ways : ways[w] \in {NoTag, hash}
    PROVE  tag_hit(ways, hash) => ways[tag_pos_next(ways, hash)] = hash
<1> SUFFICES ASSUME tag_hit(ways, hash) PROVE ways[tag_pos_next(ways, hash)] = hash
  OBVIOUS
<1> DEFINE wanted == {w \in Ways : (ways[w] # NoTag) = tag_hit(ways, hash)}
<1>1. wanted \in SUBSET Nat /\ wanted # {} /\ \A w \in wanted : ways[w] = hash
  BY PointersAreNats DEF tag_hit
<1>2. Lowest(wanted) \in wanted
  BY <1>1, LowestIn
<1>3. QED BY <1>1, <1>2 DEF tag_pos_next

LEMMA WayTaken ==
    ASSUME NEW ways \in [Ways -> {HashOf[l] : l \in Lines} \cup {NoTag}], NEW hash, hash # NoTag,
           \A w \in Ways : ways[w] \in {NoTag, hash}, ~tag_hit(ways, hash),
           NEW way, way = tag_pos_next(ways, hash), NEW ways2, ways2 = [ways EXCEPT ![way] = hash]
    PROVE  tag_hit(ways2, hash) /\ tag_pos_next(ways2, hash) = way
<1>1. way \in Ways
  BY WayType
<1>2. ways2[way] = hash /\ \A w \in Ways : w # way => ways2[w] = NoTag
  BY <1>1 DEF tag_hit
<1>3. tag_hit(ways2, hash)
  BY <1>1, <1>2 DEF tag_hit
<1>4. {w \in Ways : (ways2[w] # NoTag) = tag_hit(ways2, hash)} = {way}
  BY <1>1, <1>2, <1>3
<1>5. Lowest({way}) = way
  BY <1>1, PointersAreNats, LowestIn
<1>6. QED BY <1>3, <1>4, <1>5 DEF tag_pos_next

(* A write of the entry of a line, with its tag if there was none.         *)
Writes(l, e) ==
    /\ tags' = IF Present(l) THEN tags
               ELSE [tags EXCEPT ![SetOf[l]][tag_pos_next(tags[SetOf[l]], HashOf[l])] = HashOf[l]]
    /\ entries' = [entries EXCEPT ![SetOf[l]][tag_pos_next(tags[SetOf[l]], HashOf[l])] = e]
Written(l, e) ==
    /\ Present(l)' /\ TableEntry(l)' = e
    /\ \A k \in Lines : k # l => Present(k)' = Present(k) /\ TableEntry(k)' = TableEntry(k)
    /\ OwnSet' /\ \A s \in Sets, w \in Ways : Distinct(entries'[s][w])

LEMMA Writing ==
    ASSUME NEW where, Inv(where), NEW l \in Lines, NEW e, Distinct(e), Writes(l, e)
    PROVE  Written(l, e)
<1> DEFINE set  == SetOf[l]
           hash == HashOf[l]
           way  == tag_pos_next(tags[set], hash)
<1>1. /\ tags \in [Sets -> [Ways -> {HashOf[k] : k \in Lines} \cup {NoTag}]]
      /\ entries \in [Sets -> [Ways -> Entry]] /\ OwnSet /\ PointersDistinct
  BY DEF Inv, Typed, RegistersOK, Tables
<1>2. set \in Sets /\ way \in Ways /\ hash # NoTag /\ \A k \in Lines : SetOf[k] \in Sets
  BY WayType, DirectoryAssumption DEF Sets
<1>3. \A w \in Ways : tags[set][w] \in {NoTag, hash}
  BY <1>1 DEF OwnSet
<1>4. \A k \in Lines : k # l => SetOf[k] # set
  BY OwnTags
<1>5. entries' = [entries EXCEPT ![set][way] = e] /\ entries'[set][way] = e
  BY <1>1, <1>2 DEF Writes
<1>6. tags' = IF Present(l) THEN tags ELSE [tags EXCEPT ![set][way] = hash]
  BY DEF Writes
<1> HIDE DEF way
<1>7. Present(l)' /\ tag_pos_next(tags'[set], hash) = way
  <2>1. CASE Present(l)
    BY <1>6, <2>1 DEF Present, way
  <2>2. CASE ~Present(l)
    <3>1. ~tag_hit(tags[set], hash) /\ tags'[set] = [tags[set] EXCEPT ![way] = hash]
      BY <1>1, <1>2, <1>6, <2>2 DEF Present
    <3>2. tags[set] \in [Ways -> {HashOf[k] : k \in Lines} \cup {NoTag}] /\ way = tag_pos_next(tags[set], hash)
      BY <1>1, <1>2 DEF way
    <3>3. tag_hit(tags'[set], hash) /\ tag_pos_next(tags'[set], hash) = way
      BY <1>2, <1>3, <3>1, <3>2, WayTaken
    <3>4. QED BY <3>3 DEF Present
  <2>3. QED BY <2>1, <2>2
<1>8. TableEntry(l)' = e
  BY <1>5, <1>7 DEF TableEntry
<1>9. \A k \in Lines : k # l => tags'[SetOf[k]] = tags[SetOf[k]] /\ entries'[SetOf[k]] = entries[SetOf[k]]
  BY <1>1, <1>2, <1>4, <1>5, <1>6
<1>10. \A k \in Lines : k # l => Present(k)' = Present(k) /\ TableEntry(k)' = TableEntry(k)
  BY <1>9 DEF Present, TableEntry
<1>11. OwnSet'
  <2>1. \A w \in Ways : tags'[set][w] \in {NoTag, hash}
    BY <1>1, <1>2, <1>3, <1>6
  <2>2. QED BY <1>1, <1>9, <2>1 DEF OwnSet
<1>12. \A s \in Sets, w \in Ways : entries'[s][w] = e \/ entries'[s][w] = entries[s][w]
  BY <1>1, <1>2, <1>5
<1>13. \A s \in Sets, w \in Ways : Distinct(entries'[s][w])
  BY <1>1, <1>12 DEF PointersDistinct
<1>14. QED BY <1>7, <1>8, <1>10, <1>11, <1>13 DEF Written

-----------------------------------------------------------------------------
(* The flops of a step that takes a word from one and puts one in another. *)

LEMMA Fresh ==
    ASSUME NEW where, Inv(where), NEW t \in Slots, NEW p \in Stations, where[t] # p
    PROVE  Wording[p][t] \notin Board[p]
<1>1. Fits(Board, Wording, where) /\ Apart(Wording)
  BY WordingApart DEF Inv, Whereabouts, Posted
<1>2. \A w \in Board[p] : \E s \in Slots : where[s] = p /\ w = Wording[p][s]
  BY <1>1, OnBoard
<1>3. QED BY <1>1, <1>2 DEF Apart

LEMMA There ==
    ASSUME NEW where, Inv(where), NEW t \in Slots, NEW p \in Stations, where[t] = p
    PROVE  Wording[p][t] \in Board[p]
<1>1. Fits(Board, Wording, where)
  BY DEF Inv, Whereabouts, Posted
<1>2. QED BY <1>1, OnBoard

LEMMA TagGet ==
    ASSUME NEW where, Inv(where), ff.tag_req # << >>, ff'.tag_req = Tail(ff.tag_req),
           NEW r, r = Head(ff.tag_req)
    PROVE  /\ r \in Stage /\ r \in WordsOf(ff.tag_req) /\ r \notin WordsOf(ff'.tag_req)
           /\ WordsOf(ff.tag_req) = WordsOf(ff'.tag_req) \cup {r}
           /\ \A c \in WordsOf(ff'.tag_req) : c.dr_cmd => c.paddr # r.paddr /\ c.drid # r.drid
           /\ NoDouble(ff'.tag_req) /\ CommandOrder'
<1>1. ff.tag_req \in Queue(Stage) /\ NoDouble(ff.tag_req) /\ CommandOrder
  BY FlopFacts DEF Inv, Orders, NoDoubles
<1> DEFINE q2 == ff'.tag_req
<1>2. q2 = Tail(ff.tag_req)
  OBVIOUS
<1> HIDE DEF q2
<1>3. /\ r \in Stage /\ r \in WordsOf(ff.tag_req) /\ Len(q2) # 2
      /\ WordsOf(ff.tag_req) = WordsOf(q2) \cup {r}
      /\ \A w \in WordsOf(q2) : Len(ff.tag_req) = 2 /\ ff.tag_req[1] = r /\ ff.tag_req[2] = w
      /\ r \notin WordsOf(q2) /\ NoDouble(q2)
  <2>1. r \in Stage /\ TakenFrom(ff.tag_req, q2, r)
    BY <1>1, <1>2, Getting
  <2>2. QED BY <1>1, <2>1 DEF TakenFrom
<1>4. \A c \in WordsOf(q2) : c.dr_cmd => c.paddr # r.paddr /\ c.drid # r.drid
  BY <1>1, <1>3 DEF CommandOrder
<1>5. CommandOrder'
  BY <1>3 DEF CommandOrder, q2
<1>6. QED BY <1>3, <1>4, <1>5 DEF q2

LEMMA SnackGet ==
    ASSUME NEW where, Inv(where), ff.snack # << >>, ff'.snack = Tail(ff.snack),
           NEW r, r = Head(ff.snack)
    PROVE  /\ r \in Msg /\ r \in WordsOf(ff.snack) /\ r \notin WordsOf(ff'.snack)
           /\ WordsOf(ff.snack) = WordsOf(ff'.snack) \cup {r}
           /\ \A c \in WordsOf(ff'.snack) : c.drid = 0 => c.paddr # r.paddr
           /\ NoDouble(ff'.snack) /\ AnswerOrder'
<1>1. ff.snack \in Queue(Msg) /\ NoDouble(ff.snack) /\ AnswerOrder
  BY FlopFacts DEF Inv, Orders, NoDoubles
<1> DEFINE q2 == ff'.snack
<1>2. q2 = Tail(ff.snack)
  OBVIOUS
<1> HIDE DEF q2
<1>3. /\ r \in Msg /\ r \in WordsOf(ff.snack) /\ Len(q2) # 2
      /\ WordsOf(ff.snack) = WordsOf(q2) \cup {r}
      /\ \A w \in WordsOf(q2) : Len(ff.snack) = 2 /\ ff.snack[1] = r /\ ff.snack[2] = w
      /\ r \notin WordsOf(q2) /\ NoDouble(q2)
  <2>1. r \in Msg /\ TakenFrom(ff.snack, q2, r)
    BY <1>1, <1>2, Getting
  <2>2. QED BY <1>1, <2>1 DEF TakenFrom
<1>4. \A c \in WordsOf(q2) : c.drid = 0 => c.paddr # r.paddr
  BY <1>1, <1>3 DEF AnswerOrder
<1>5. AnswerOrder'
  BY <1>3 DEF AnswerOrder, q2
<1>6. QED BY <1>3, <1>4, <1>5 DEF q2

LEMMA TagPut ==
    ASSUME NEW where, Inv(where), NEW x \in Stage, Room(ff.tag_req), ff'.tag_req = Append(ff.tag_req, x),
           x \notin WordsOf(ff.tag_req),
           x.dr_cmd => \A c \in WordsOf(ff.tag_req) : c.paddr # x.paddr /\ c.drid # x.drid
    PROVE  /\ WordsOf(ff'.tag_req) = WordsOf(ff.tag_req) \cup {x}
           /\ NoDouble(ff'.tag_req) /\ CommandOrder'
<1>1. ff.tag_req \in Queue(Stage)
  BY FlopFacts
<1> DEFINE q2 == ff'.tag_req
<1>2. q2 = Append(ff.tag_req, x)
  OBVIOUS
<1> HIDE DEF q2
<1>3. /\ WordsOf(q2) = WordsOf(ff.tag_req) \cup {x} /\ NoDouble(q2)
      /\ Len(q2) = 2 => q2[2] = x /\ q2[1] \in WordsOf(ff.tag_req)
  <2>1. PutOn(ff.tag_req, q2, x)
    BY <1>1, <1>2, Putting
  <2>2. QED BY <2>1 DEF PutOn
<1>4. CommandOrder'
  BY <1>3 DEF CommandOrder, q2
<1>5. QED BY <1>3, <1>4 DEF q2

LEMMA SnackPut ==
    ASSUME NEW where, Inv(where), NEW x \in Msg, Room(ff.snack), ff'.snack = Append(ff.snack, x),
           x \notin WordsOf(ff.snack),
           x.drid = 0 => \A c \in WordsOf(ff.snack) : c.paddr # x.paddr
    PROVE  /\ WordsOf(ff'.snack) = WordsOf(ff.snack) \cup {x}
           /\ NoDouble(ff'.snack) /\ AnswerOrder'
<1>1. ff.snack \in Queue(Msg)
  BY FlopFacts
<1> DEFINE q2 == ff'.snack
<1>2. q2 = Append(ff.snack, x)
  OBVIOUS
<1> HIDE DEF q2
<1>3. /\ WordsOf(q2) = WordsOf(ff.snack) \cup {x} /\ NoDouble(q2)
      /\ Len(q2) = 2 => q2[2] = x /\ q2[1] \in WordsOf(ff.snack)
  <2>1. PutOn(ff.snack, q2, x)
    BY <1>1, <1>2, Putting
  <2>2. QED BY <2>1 DEF PutOn
<1>4. AnswerOrder'
  BY <1>3 DEF AnswerOrder, q2
<1>5. QED BY <1>3, <1>4 DEF q2

(* A word taken from, or put in, a flop whose words have no order.         *)
LEMMA PlainGet ==
    ASSUME NEW S, NEW q \in Queue(S), NoDouble(q), q # << >>, NEW q2, q2 = Tail(q), NEW h, h = Head(q)
    PROVE  h \in S /\ h \in WordsOf(q) /\ WordsOf(q2) = WordsOf(q) \ {h} /\ NoDouble(q2)
<1>1. h \in S /\ TakenFrom(q, q2, h)
  BY Getting
<1>2. QED BY <1>1 DEF TakenFrom

LEMMA PlainPut ==
    ASSUME NEW S, NEW q \in Queue(S), Room(q), NEW x \in S, x \notin WordsOf(q), NEW q2, q2 = Append(q, x)
    PROVE  WordsOf(q2) = WordsOf(q) \cup {x} /\ NoDouble(q2)
<1>1. PutOn(q, q2, x)
  BY Putting
<1>2. QED BY <1>1 DEF PutOn

-----------------------------------------------------------------------------
(* Entries: what they know of after each change.                           *)

LEMMA NewKnows ==
    ASSUME NEW n \in Nid, NEW b \in BOOLEAN
    PROVE  Known(NewEntry(n, b)) = {n} /\ Distinct(NewEntry(n, b))
<1> DEFINE e == NewEntry(n, b)
<1>1. e.nid = [p \in Pointers |-> IF p = 0 THEN n ELSE NoNid]
  BY PointersAreNats DEF NewEntry, EmptyEntry
<1>2. n # NoNid /\ 0 \in Pointers
  BY SizeAssumption, PointersAreNats
<1>3. Used(e) = {0} /\ e.nid[0] = n
  BY <1>1, <1>2 DEF Used
<1> HIDE DEF e
<1>4. QED BY <1>3 DEF Known, Distinct, e

LEMMA KnownNodes == ASSUME NEW e \in Entry PROVE Known(e) \subseteq Nid
BY DEF Known, Used, Entry

LEMMA WithoutKnows ==
    ASSUME NEW e \in Entry, NEW p \in Pointers, Distinct(e), NEW f, f = WithoutPointer(e, p)
    PROVE  /\ f \in Entry /\ Distinct(f) /\ Used(f) = Used(e) \ {p}
           /\ \A q \in Used(f) : f.nid[q] = e.nid[q]
           /\ Known(f) = Known(e) \ (IF p \in Used(e) THEN {e.nid[p]} ELSE {})
<1>1. f \in Entry /\ f.nid = [e.nid EXCEPT ![p] = NoNid] /\ e.nid \in [Pointers -> Nid \cup {NoNid}]
  BY WithoutPointerType DEF WithoutPointer, Entry
<1>2. Used(f) = Used(e) \ {p} /\ \A q \in Used(f) : f.nid[q] = e.nid[q]
  BY <1>1 DEF Used
<1>3. Distinct(f)
  BY <1>2 DEF Distinct
<1>4. Known(f) = Known(e) \ (IF p \in Used(e) THEN {e.nid[p]} ELSE {})
  <2>1. Known(f) = {e.nid[q] : q \in Used(e) \ {p}}
    BY <1>2 DEF Known
  <2>2. CASE p \in Used(e)
    BY <2>1, <2>2 DEF Known, Distinct
  <2>3. CASE p \notin Used(e)
    BY <2>1, <2>3 DEF Known
  <2>4. QED BY <2>2, <2>3
<1>5. QED BY <1>1, <1>2, <1>3, <1>4

LEMMA DroppedKnows ==
    ASSUME NEW e \in Entry, NEW n \in Nid, Distinct(e), NEW f, f = WithoutRequester(e, n)
    PROVE  f \in Entry /\ Distinct(f) /\ Known(f) = Known(e) \ {n}
<1> DEFINE own == {p \in Pointers : e.nid[p] = n}
<1>1. n # NoNid
  BY SizeAssumption
<1>2. CASE own = {}
  <2>1. f = e
    BY <1>2 DEF WithoutRequester
  <2>2. n \notin Known(e)
    BY <1>2 DEF Known, Used
  <2>3. QED BY <2>1, <2>2
<1>3. CASE own # {}
  <2> DEFINE p == Lowest(own)
  <2>1. p \in own
    BY <1>3, PointersAreNats, LowestIn
  <2>2. p \in Pointers /\ e.nid[p] = n /\ p \in Used(e)
    BY <1>1, <2>1 DEF Used
  <2>3. f = WithoutPointer(e, p)
    BY <1>3 DEF WithoutRequester
  <2> HIDE DEF p
  <2>4. f \in Entry /\ Distinct(f) /\ Known(f) = Known(e) \ (IF p \in Used(e) THEN {e.nid[p]} ELSE {})
    BY <2>2, <2>3, WithoutKnows
  <2>5. QED BY <2>2, <2>4
<1>4. QED BY <1>2, <1>3

LEMMA FreePointer ==
    ASSUME NEW e \in Entry, Distinct(e), NEW n \in Nid, n \notin Known(e),
           IsFiniteSet(Nid), Cardinality(Nid) <= NumPointers
    PROVE  Pointers \ Used(e) # {}
<1> SUFFICES ASSUME Used(e) = Pointers PROVE FALSE
  BY DEF Used
<1>1. IsFiniteSet(Nid \ {n}) /\ Cardinality(Nid \ {n}) = Cardinality(Nid) - 1 /\ Cardinality(Nid) \in Nat
  BY FS_RemoveElement, FS_CardinalityType
<1>2. NumPointers \in Nat \ {0}
  BY Positive
<1>3. IsFiniteSet(Pointers) /\ Cardinality(Pointers) = NumPointers
  BY <1>2, FS_Interval DEF Pointers
<1>4. e.nid \in [Pointers -> Nid \ {n}]
  BY KnownNodes DEF Known, Entry
<1>5. Cardinality(Nid \ {n}) < Cardinality(Pointers)
  BY <1>1, <1>2, <1>3
<1>6. \E p, q \in Pointers : p # q /\ e.nid[p] = e.nid[q]
  BY <1>1, <1>3, <1>4, <1>5, FS_PigeonHole
<1>7. QED BY <1>6 DEF Distinct

LEMMA UpdatedKnows ==
    ASSUME NEW e \in Entry, Distinct(e), NEW n \in Nid, n \notin Known(e), NEW f, f = UpdatedEntry(e, n),
           IsFiniteSet(Nid), Cardinality(Nid) <= NumPointers
    PROVE  Known(f) = Known(e) \cup {n} /\ Distinct(f)
<1> DEFINE free == Pointers \ Used(e)
           p == Lowest(free)
<1>1. free # {} /\ n # NoNid
  BY FreePointer, SizeAssumption
<1>2. p \in free
  BY <1>1, PointersAreNats, LowestIn
<1>3. f.nid = [e.nid EXCEPT ![p] = n] /\ e.nid \in [Pointers -> Nid \cup {NoNid}]
  BY <1>1, <1>2 DEF UpdatedEntry, Entry
<1>4. p \in Pointers /\ p \notin Used(e)
  BY <1>2
<1> HIDE DEF p, free
<1>5. Used(f) = Used(e) \cup {p} /\ f.nid[p] = n /\ \A q \in Used(e) : f.nid[q] = e.nid[q]
  BY <1>1, <1>3, <1>4 DEF Used
<1>6. Known(f) = Known(e) \cup {n}
  BY <1>4, <1>5 DEF Known
<1>7. Distinct(f)
  BY <1>4, <1>5 DEF Distinct, Known
<1>8. QED BY <1>6, <1>7

LEMMA AnswersToNodes ==
    ASSUME NEW where, Inv(where)
    PROVE  \A m \in Answers : m.nid \in Nid /\ m.nid \in Holders(m.paddr)
<1>1. AnswerWasAsked /\ asked \subseteq Request
  BY DEF Inv, Asking, Typed, PeersOK
<1>2. \A m \in Answers : m.nid \in Nid
  BY <1>1 DEF AnswerWasAsked, IsAnswerTo, Request
<1>3. QED BY <1>2 DEF Holders

LEMMA OwnersHold == \A l \in Lines : Owners(l) \subseteq Holders(l)
BY DEF Owners, Holders

-----------------------------------------------------------------------------
(* The flops whose words have no order to keep.                            *)

LEMMA MemPut ==
    ASSUME NEW where, Inv(where), NEW x \in MemReq, Room(ff.mem), x \notin WordsOf(ff.mem),
           ff'.mem = Append(ff.mem, x)
    PROVE  WordsOf(ff'.mem) = WordsOf(ff.mem) \cup {x} /\ NoDouble(ff'.mem)
<1> PICK q2 : q2 = ff'.mem
  OBVIOUS
<1>1. ff.mem \in Queue(MemReq)
  BY FlopFacts
<1>2. PutOn(ff.mem, q2, x)
  BY <1>1, Putting
<1>3. QED BY <1>2 DEF PutOn

LEMMA MemGet ==
    ASSUME NEW where, Inv(where), ff.mem # << >>, ff'.mem = Tail(ff.mem), NEW h, h = Head(ff.mem)
    PROVE  /\ h \in MemReq /\ h \in WordsOf(ff.mem)
           /\ WordsOf(ff'.mem) = WordsOf(ff.mem) \ {h} /\ NoDouble(ff'.mem)
<1> PICK q2 : q2 = ff'.mem
  OBVIOUS
<1>1. ff.mem \in Queue(MemReq) /\ NoDouble(ff.mem)
  BY FlopFacts DEF Inv, Orders, NoDoubles
<1>2. h \in MemReq /\ TakenFrom(ff.mem, q2, h)
  BY <1>1, Getting
<1>3. QED BY <1>1, <1>2 DEF TakenFrom

LEMMA EntryPut ==
    ASSUME NEW where, Inv(where), NEW x \in Fetched, Room(ff.entry), x \notin WordsOf(ff.entry),
           ff'.entry = Append(ff.entry, x)
    PROVE  WordsOf(ff'.entry) = WordsOf(ff.entry) \cup {x} /\ NoDouble(ff'.entry)
<1> PICK q2 : q2 = ff'.entry
  OBVIOUS
<1>1. ff.entry \in Queue(Fetched)
  BY FlopFacts
<1>2. PutOn(ff.entry, q2, x)
  BY <1>1, Putting
<1>3. QED BY <1>2 DEF PutOn

LEMMA EntryGet ==
    ASSUME NEW where, Inv(where), ff.entry # << >>, ff'.entry = Tail(ff.entry), NEW h, h = Head(ff.entry)
    PROVE  /\ h \in Fetched /\ h \in WordsOf(ff.entry)
           /\ WordsOf(ff'.entry) = WordsOf(ff.entry) \ {h} /\ NoDouble(ff'.entry)
<1> PICK q2 : q2 = ff'.entry
  OBVIOUS
<1>1. ff.entry \in Queue(Fetched) /\ NoDouble(ff.entry)
  BY FlopFacts DEF Inv, Orders, NoDoubles
<1>2. h \in Fetched /\ TakenFrom(ff.entry, q2, h)
  BY <1>1, Getting
<1>3. QED BY <1>1, <1>2 DEF TakenFrom

LEMMA ReleasePut ==
    ASSUME NEW where, Inv(where), NEW x \in Slots, Room(ff.release), x \notin WordsOf(ff.release),
           ff'.release = Append(ff.release, x)
    PROVE  WordsOf(ff'.release) = WordsOf(ff.release) \cup {x} /\ NoDouble(ff'.release)
<1> PICK q2 : q2 = ff'.release
  OBVIOUS
<1>1. ff.release \in Queue(Slots)
  BY FlopFacts
<1>2. PutOn(ff.release, q2, x)
  BY <1>1, Putting
<1>3. QED BY <1>2 DEF PutOn

LEMMA ReleaseGet ==
    ASSUME NEW where, Inv(where), ff.release # << >>, ff'.release = Tail(ff.release), NEW h, h = Head(ff.release)
    PROVE  /\ h \in Slots /\ h \in WordsOf(ff.release)
           /\ WordsOf(ff'.release) = WordsOf(ff.release) \ {h} /\ NoDouble(ff'.release)
<1> PICK q2 : q2 = ff'.release
  OBVIOUS
<1>1. ff.release \in Queue(Slots) /\ NoDouble(ff.release)
  BY FlopFacts DEF Inv, Orders, NoDoubles
<1>2. h \in Slots /\ TakenFrom(ff.release, q2, h)
  BY <1>1, Getting
<1>3. QED BY <1>1, <1>2 DEF TakenFrom

(* What a write of the entry of a line changes.                            *)
LEMMA WrittenBook ==
    ASSUME NEW where, Inv(where), NEW l \in Lines, NEW e, Written(l, e), entry_buf' = entry_buf,
           \A c \in Commands' : c \in Commands /\ c.paddr # l,
           \A c \in Commands : c \in Commands' \/ c.paddr = l
    PROVE  /\ Book(l)' = Known(e) \cap Nid
           /\ \A k \in Lines : k # l => Book(k)' = Book(k)
<1>1. \A k \in Lines : k # l => Commanded(k)' = Commanded(k)
  BY DEF Commanded
<1>2. ~Commanded(l)'
  BY DEF Commanded
<1>3. \A c \in Commands : InternalEntry(c)' = InternalEntry(c)
  BY DEF InternalEntry, tag_miss_entry
<1>4. Book(l)' = {n \in Nid : Present(l)' /\ n \in Known(TableEntry(l)')}
  BY <1>2 DEF Book
<1>5. Book(l)' = Known(e) \cap Nid
  BY <1>4 DEF Written
<1>6. ASSUME NEW k \in Lines, k # l PROVE Book(k)' = Book(k)
  <2>1. Present(k)' = Present(k) /\ TableEntry(k)' = TableEntry(k) /\ Commanded(k)' = Commanded(k)
    BY <1>1, <1>6 DEF Written
  <2>2. \A n : (\E c \in Commands' : c.paddr = k /\ n \in Known(InternalEntry(c)'))
               <=> (\E c \in Commands : c.paddr = k /\ n \in Known(InternalEntry(c)))
    BY <1>3, <1>6
  <2>3. QED BY <2>1, <2>2 DEF Book
<1>7. QED BY <1>5, <1>6

LEMMA WrittenTables ==
    ASSUME NEW where, Inv(where), NEW l \in Lines, NEW e, Written(l, e), entry_buf' = entry_buf,
           Commands' \subseteq Commands
    PROVE  Tables'
<1>1. Tables
  BY DEF Inv
<1>2. PointersDistinct' /\ CommandsNamed' /\ OwnSet'
  BY <1>1 DEF Tables, PointersDistinct, CommandsNamed, Written
<1>3. ASSUME NEW c \in Commands'
      PROVE  /\ Present(c.paddr)'
             /\ c.cmd = DR_CMD_UPDATE_ENTRY => c.nid \notin Known(entry_buf'[SlotOf(c.drid)].entry)
  <2>1. c \in Commands /\ c.paddr \in Lines
    BY CommandFacts
  <2>2. Present(c.paddr) /\ (c.cmd = DR_CMD_UPDATE_ENTRY => c.nid \notin Known(entry_buf[SlotOf(c.drid)].entry))
    BY <1>1, <2>1 DEF Tables, CommandsKnow
  <2>3. PICK k \in Lines : k = c.paddr
    BY <2>1
  <2>4. Present(k)'
    BY <2>2, <2>3 DEF Written
  <2>5. QED BY <2>2, <2>3, <2>4 DEF Present
<1>4. CommandsKnow'
  BY <1>3 DEF CommandsKnow
<1>5. QED BY <1>2, <1>4 DEF Tables

LEMMA WrittenTracked ==
    ASSUME NEW where, Inv(where), NEW l \in Lines, \A k \in Lines : k # l => Book(k)' = Book(k),
           \A k \in Lines : Holders(k)' = Holders(k) /\ Owners(k)' = Owners(k),
           Holders(l) \subseteq Book(l)', \A n \in Owners(l) : Book(l)' \subseteq {n}
    PROVE  Tracked'
<1>1. Tracked
  BY DEF Inv
<1>2. QED BY <1>1 DEF Tracked

-----------------------------------------------------------------------------
(* What a step does to the other lines, and so to the other requests.      *)

Spared(k) ==
    /\ Holders(k)' \subseteq Holders(k) /\ Owners(k)' \subseteq Owners(k)
    /\ Book(k)' = Book(k) /\ (Present(k) => Present(k)')

LEMMA SparedIs ==
    ASSUME NEW k, NEW s, k = Line(s), Line(s)' = Line(s), Spared(k)
    PROVE  /\ Holders(Line(s))' \subseteq Holders(Line(s)) /\ Owners(Line(s))' \subseteq Owners(Line(s))
           /\ Book(Line(s))' = Book(Line(s)) /\ (Present(Line(s)) => Present(Line(s))')
<1>1. /\ Holders(k)' \subseteq Holders(k) /\ Owners(k)' \subseteq Owners(k)
      /\ Book(k)' = Book(k) /\ (Present(k) => Present(k)')
  BY DEF Spared
<1>2. Holders(Line(s))' = Holders(k)' /\ Owners(Line(s))' = Owners(k)'
  BY DEF Holders, Owners
<1>3. Book(Line(s))' = Book(k)' /\ Present(Line(s))' = Present(k)'
  BY DEF Book, Present, TableEntry, Commanded
<1>4. QED BY <1>1, <1>2, <1>3

LEMMA Elsewhere ==
    ASSUME NEW where, Inv(where), NEW t \in Slots, NEW l, l = Line(t), where[t] # "none",
           \A s \in Slots : s # t /\ where[s] # "none" => SameRequest(s) /\ entry_buf'[s] = entry_buf[s],
           \A k \in Lines : k # l => Spared(k),
           \A c \in Commands' : c \in Commands \/ (c.paddr = l /\ SlotOf(c.drid) = t),
           \A m \in Answers' : m \in Answers \/ m.paddr = l,
           \A d \in disp' : d \in disp \/ DispSlot(d) = t
    PROVE  \A s \in Slots : s # t /\ where[s] # "none" => Undisturbed(s)
<1> SUFFICES ASSUME NEW s \in Slots, s # t, where[s] # "none" PROVE Undisturbed(s)
  OBVIOUS
<1>1. /\ Line(s) # l /\ Line(s) \in Lines /\ Line(s)' = Line(s) /\ Requester(s)' = Requester(s)
      /\ req_buf'[s].cmd = req_buf[s].cmd /\ entry_buf'[s] = entry_buf[s]
  BY OneOfALine, SlotFacts DEF Line, Requester, SameRequest
<1> PICK k \in Lines : k = Line(s)
  BY <1>1
<1>2. /\ Holders(Line(s))' \subseteq Holders(Line(s)) /\ Owners(Line(s))' \subseteq Owners(Line(s))
      /\ Book(Line(s))' = Book(Line(s)) /\ (Present(Line(s)) => Present(Line(s))')
  BY <1>1, SparedIs
<1>3. QED BY <1>1, <1>2 DEF Undisturbed

LEMMA Everywhere ==
    ASSUME NEW where, Inv(where),
           \A s \in Slots : where[s] # "none" => SameRequest(s) /\ entry_buf'[s] = entry_buf[s],
           \A k \in Lines : Spared(k), Commands' \subseteq Commands, Answers' \subseteq Answers,
           disp' \subseteq disp
    PROVE  \A s \in Slots : where[s] # "none" => Undisturbed(s)
<1> SUFFICES ASSUME NEW s \in Slots, where[s] # "none" PROVE Undisturbed(s)
  OBVIOUS
<1>1. /\ Line(s) \in Lines /\ Line(s)' = Line(s) /\ Requester(s)' = Requester(s)
      /\ req_buf'[s].cmd = req_buf[s].cmd /\ entry_buf'[s] = entry_buf[s]
  BY SlotFacts DEF Line, Requester, SameRequest
<1> PICK k \in Lines : k = Line(s)
  BY <1>1
<1>2. /\ Holders(Line(s))' \subseteq Holders(Line(s)) /\ Owners(Line(s))' \subseteq Owners(Line(s))
      /\ Book(Line(s))' = Book(Line(s)) /\ (Present(Line(s)) => Present(Line(s))')
  BY <1>1, SparedIs
<1>3. QED BY <1>1, <1>2 DEF Undisturbed

LEMMA AllStay ==
    ASSUME NEW where, Inv(where), \A s \in Slots : where[s] # "none" => Undisturbed(s)
    PROVE  \A s \in Slots : Kept(s, where[s])'
<1>1. where \in [Slots -> Places] /\ \A s \in Slots : Kept(s, where[s])
  BY DEF Inv, Whereabouts
<1>2. ASSUME NEW s \in Slots PROVE Kept(s, where[s])'
  <2>1. CASE where[s] # "none"
    BY <1>1, <2>1, KeptStays
  <2>2. CASE where[s] = "none"
    BY <2>2 DEF Kept, Looking, Asked, Snooping
  <2>3. QED BY <2>1, <2>2
<1>3. QED BY <1>2

LEMMA SparedAll ==
    ASSUME tags' = tags, entries' = entries, Commands' = Commands, copy' = copy, Answers' = Answers,
           \A r \in Commands : entry_buf'[SlotOf(r.drid)] = entry_buf[SlotOf(r.drid)]
    PROVE  \A k \in Lines : Spared(k)
BY SameBook, SameHolders DEF Spared

(* No command names a slot whose request is looking its line up.           *)
LEMMA NoCommandFor ==
    ASSUME NEW where, Inv(where), NEW t \in Slots, where[t] \in Looking
    PROVE  /\ Present(Line(t)) /\ ~Commanded(Line(t))
           /\ \A c \in Commands : SlotOf(c.drid) # t /\ c.paddr # Line(t)
<1>1. Kept(t, where[t])
  BY DEF Inv, Whereabouts
<1>2. QED BY <1>1 DEF Kept, Commanded

(* The word a request has at a station is nowhere else.                    *)
LEMMA NewSnoop ==
    ASSUME NEW where, Inv(where), NEW t \in Slots, where[t] # "snack", NEW x, x.drid = t + 1
    PROVE  x \notin WordsOf(ff.snack)
<1> SUFFICES ASSUME x \in WordsOf(ff.snack) PROVE FALSE
  OBVIOUS
<1>1. PICK s \in Slots : where[s] = "snack" /\ x = SnoopWord(s)
  BY SnackAt, SlotNames
<1>2. x.drid = s + 1
  BY <1>1 DEF SnoopWord, Snoop
<1>3. QED BY <1>1, <1>2, NumberApart

LEMMA SameStation ==
    /\ ff'.tag_req = ff.tag_req => Board'["tag"] = Board["tag"]
    /\ ff'.entry = ff.entry => Board'["entry"] = Board["entry"]
    /\ ff'.mem = ff.mem => Board'["mem"] = Board["mem"]
    /\ ff'.snack = ff.snack => Board'["snack"] = Board["snack"]
    /\ snoops' = snoops => Board'["snoops"] = Board["snoops"]
    /\ disp' = disp => Board'["disp"] = Board["disp"]
    /\ snoop_ack' = snoop_ack => Board'["snoop_ack"] = Board["snoop_ack"]
    /\ memory' = memory => Board'["memory"] = Board["memory"]
    /\ ff'.release = ff.release => Board'["release"] = Board["release"]
BY BoardIs, BoardIsNext

(* The rest of a step that moves a request from one station to another and *)
(* leaves the slots, the tables, the commands and the answers alone.       *)
Quietly ==
    /\ req_buf' = req_buf /\ tags' = tags /\ entries' = entries
    /\ latch'.found_line = latch.found_line /\ latch'.snoop_rel = latch.snoop_rel
    /\ ff'.tag_req = ff.tag_req /\ ff'.disp_snack = ff.disp_snack /\ ff'.pfreq = ff.pfreq
    /\ Answers' = Answers /\ AnswerOrder' /\ NoDoubles'

LEMMA QuietStep ==
    ASSUME NEW where, Inv(where), Typed', Quietly, NEW t \in Slots, where[t] # "none",
           NEW to, to # "none", NEW moved, moved = [where EXCEPT ![t] = to],
           moved \in [Slots -> Places], Posted(moved)', \A s \in Slots : Kept(s, moved[s])',
           RepliesMatch', Asking', Tables', Tracked'
    PROVE  IInv'
<1>1. Resting(moved)' /\ SlotsMatch' /\ Queues' /\ Quiet'
  BY StillResting, KeepSlots, KeepQuiet DEF Quietly
<1>2. Orders'
  BY DEF Quietly, Inv, Orders, CommandOrder
<1>3. RequestsOnly'
  BY DEF Inv, RequestsOnly
<1>4. QED BY <1>1, <1>2, <1>3 DEF Inv, IInv, Whereabouts

LEMMA ClearedIs ==
    ASSUME NEW where, Inv(where), NEW t \in Slots, NEW e, e = entry_buf[t].entry,
           NEW f, f = Cleared(t), NEW pos, pos = entry_buf[t].pos
    PROVE  /\ e \in Entry /\ f \in Entry /\ Distinct(e) /\ Distinct(f) /\ pos \in Pointers
           /\ Known(f) = Known(e) \ (IF pos \in Used(e) THEN {e.nid[pos]} ELSE {})
           /\ Used(f) = Used(e) \ {pos} /\ \A q \in Used(f) : f.nid[q] = e.nid[q]
           /\ Later(f, pos) = Later(e, pos) /\ After(t) = {f.nid[p] : p \in Later(f, pos)}
           /\ After(t) \subseteq Known(f)
<1>1. e \in Entry /\ pos \in Pointers /\ Distinct(e)
  BY DEF Inv, Typed, RegistersOK, SnoopState, Tables, PointersDistinct
<1>2. f = WithoutPointer(e, pos)
  BY DEF Cleared
<1>3. /\ f \in Entry /\ Distinct(f) /\ Used(f) = Used(e) \ {pos}
      /\ \A q \in Used(f) : f.nid[q] = e.nid[q]
      /\ Known(f) = Known(e) \ (IF pos \in Used(e) THEN {e.nid[pos]} ELSE {})
  BY <1>1, <1>2, WithoutKnows
<1>4. Later(f, pos) = Later(e, pos)
  <2>1. pos \in Nat /\ ~(pos > pos)
    BY <1>1, PointersAreNats
  <2>2. QED BY <1>3, <2>1 DEF Later
<1>5. After(t) = {e.nid[p] : p \in Later(e, pos)}
  BY DEF After
<1>6. \A p \in Later(f, pos) : p \in Used(f) /\ f.nid[p] = e.nid[p]
  BY <1>3 DEF Later
<1>7. After(t) = {f.nid[p] : p \in Later(f, pos)}
  BY <1>4, <1>5, <1>6
<1>8. After(t) \subseteq Known(f)
  BY <1>6, <1>7 DEF Known
<1>9. QED BY <1>1, <1>3, <1>4, <1>7, <1>8

(* What a new command changes.                                             *)
LEMMA PostedBook ==
    ASSUME NEW where, Inv(where), NEW t \in Slots, NEW l \in Lines, NEW c0, NEW f,
           c0.paddr = l, SlotOf(c0.drid) = t, f = InternalEntry(c0)',
           tags' = tags, entries' = entries, Commands' = Commands \cup {c0},
           \A c \in Commands : c.paddr # l /\ SlotOf(c.drid) # t,
           \A s \in Slots : s # t => entry_buf'[s] = entry_buf[s]
    PROVE  /\ Book(l)' = Known(f) \cap Nid
           /\ \A k \in Lines : k # l => Book(k)' = Book(k)
           /\ \A k \in Lines : Present(k)' = Present(k)
<1>1. \A k \in Lines : Present(k)' = Present(k) /\ TableEntry(k)' = TableEntry(k)
  BY DEF Present, TableEntry
<1>2. \A c \in Commands : InternalEntry(c)' = InternalEntry(c)
  BY CommandFacts DEF InternalEntry, tag_miss_entry
<1>3. Book(l)' = Known(f) \cap Nid
  <2>1. Commanded(l)'
    BY DEF Commanded
  <2>2. \A n : (\E c \in Commands' : c.paddr = l /\ n \in Known(InternalEntry(c)')) <=> n \in Known(f)
    <3>1. \A c \in Commands' : c.paddr = l <=> c = c0
      OBVIOUS
    <3>2. c0 \in Commands'
      OBVIOUS
    <3>3. QED BY <3>1, <3>2
  <2>3. QED BY <2>1, <2>2 DEF Book
<1>4. ASSUME NEW k \in Lines, k # l PROVE Book(k)' = Book(k)
  <2>1. Commanded(k)' = Commanded(k)
    BY <1>4 DEF Commanded
  <2>2. \A n : (\E c \in Commands' : c.paddr = k /\ n \in Known(InternalEntry(c)'))
               <=> (\E c \in Commands : c.paddr = k /\ n \in Known(InternalEntry(c)))
    BY <1>2, <1>4
  <2>3. QED BY <1>1, <2>1, <2>2 DEF Book
<1>5. QED BY <1>1, <1>3, <1>4

LEMMA PostedTables ==
    ASSUME NEW where, Inv(where), NEW t \in Slots, NEW c0, SlotOf(c0.drid) = t,
           c0.drid # 0, c0.nid \in Nid, Present(c0.paddr),
           c0.cmd = DR_CMD_UPDATE_ENTRY => c0.nid \notin Known(entry_buf'[t].entry),
           tags' = tags, entries' = entries, Commands' = Commands \cup {c0},
           \A c \in Commands : SlotOf(c.drid) # t,
           \A s \in Slots : s # t => entry_buf'[s] = entry_buf[s], Distinct(entry_buf'[t].entry)
    PROVE  Tables'
<1>1. Tables /\ Typed
  BY DEF Inv
<1>2. \A c \in Commands : SlotOf(c.drid) \in Slots
  BY CommandFacts
<1>3. OwnSet' /\ PointersDistinct' /\ CommandsNamed'
  BY <1>1 DEF Tables, OwnSet, PointersDistinct, CommandsNamed
<1>4. Present(c0.paddr)' /\ \A c \in Commands : Present(c.paddr)'
  BY <1>1 DEF Tables, CommandsKnow, Present
<1>5. CommandsKnow'
  BY <1>1, <1>2, <1>4 DEF Tables, CommandsKnow
<1>6. QED BY <1>3, <1>5 DEF Tables

(* A word with the line of a slot at none of the stations before the tags. *)
LEMMA CommandMayFollow ==
    ASSUME NEW where, Inv(where), NEW t \in Slots, where[t] \in Looking
    PROVE  \A c \in WordsOf(ff.tag_req) : c.paddr # Line(t) /\ c.drid # t + 1
<1> SUFFICES ASSUME NEW c \in WordsOf(ff.tag_req) PROVE c.paddr # Line(t) /\ c.drid # t + 1
  OBVIOUS
<1>0. where[t] # "none" /\ where[t] # "tag"
  BY DEF Looking
<1>1. CASE c.dr_cmd
  <2>1. c \in Commands
    BY <1>1 DEF Commands
  <2>2. QED BY <2>1, NoCommandFor, SlotNames
<1>2. CASE ~c.dr_cmd
  <2>1. PICK s \in Slots : where[s] = "tag" /\ c = StageWord(s)
    BY <1>2, TagAt
  <2>2. c.paddr = Line(s) /\ c.drid = s + 1
    BY <2>1 DEF StageWord, StageOf
  <2>3. QED BY <1>0, <2>1, <2>2, OneOfALine, NumberApart
<1>3. QED BY <1>1, <1>2

-----------------------------------------------------------------------------
(* The tag stage.                                                          *)

LEMMA MissStep ==
    ASSUME NEW where, Inv(where), Typed', TagMiss
    PROVE  IInv'
<1> PICK r : r = Head(ff.tag_req)
  OBVIOUS
<1> PICK x : x = [drid |-> r.drid, paddr |-> r.paddr, cmd |-> r.cmd]
  OBVIOUS
<1>1. /\ ff.tag_req # << >> /\ Room(ff.mem) /\ ~r.dr_cmd /\ ~TagHit(r)
      /\ tags' = TagsAfter(r) /\ entries' = EntriesWith(r, tag_miss_entry(r))
      /\ ff' = [ff EXCEPT !.tag_req = Tail(@), !.mem = Append(@, x)]
      /\ req_buf' = req_buf /\ entry_buf' = entry_buf /\ latch' = latch /\ copy' = copy
      /\ asked' = asked /\ snoops' = snoops /\ disp' = disp /\ snoop_ack' = snoop_ack
      /\ memory' = memory
  BY DEF TagMiss, l2
<1>2. /\ ff'.tag_req = Tail(ff.tag_req) /\ ff'.mem = Append(ff.mem, x) /\ ff'.entry = ff.entry
      /\ ff'.snack = ff.snack /\ ff'.disp_snack = ff.disp_snack /\ ff'.release = ff.release
      /\ ff'.pfreq = ff.pfreq
  BY <1>1, FlopFacts DEF QueueFlops
<1>3. /\ r \in Stage /\ r \in WordsOf(ff.tag_req) /\ r \notin WordsOf(ff'.tag_req)
      /\ WordsOf(ff.tag_req) = WordsOf(ff'.tag_req) \cup {r}
      /\ NoDouble(ff'.tag_req) /\ CommandOrder'
  BY <1>1, <1>2, TagGet
<1>4. PICK t \in Slots : where[t] = "tag" /\ r = StageWord(t)
  BY <1>1, <1>3, TagAt
<1>5. r.drid = t + 1 /\ r.paddr = Line(t) /\ r.cmd = req_buf[t].cmd /\ r.nid = Requester(t)
  BY <1>4 DEF StageWord, StageOf
<1>6. /\ Line(t) \in Lines /\ Requester(t) \in Nid /\ req_buf[t].cmd \in {REQ_S, REQ_M} /\ t + 1 \in Drid
      /\ where[t] # "none"
  BY <1>4, SlotFacts, SlotNames
<1>7. x = [drid |-> t + 1, paddr |-> Line(t), cmd |-> req_buf[t].cmd] /\ x \in MemReq
  BY <1>5, <1>6 DEF MemReq, REQ_S, REQ_M
<1>8. Wording["tag"][t] = r /\ Wording["mem"][t] = x /\ Wording'["mem"][t] = x
  BY <1>1, <1>4, <1>7, TagWord, MemWord DEF Line
<1>9. WordsOf(ff'.mem) = WordsOf(ff.mem) \cup {x} /\ NoDouble(ff'.mem)
  <2>1. x \notin WordsOf(ff.mem)
    BY <1>4, <1>8, Fresh, BoardIs DEF Stations
  <2>2. QED BY <1>1, <1>2, <1>7, <2>1, MemPut
<1> PICK moved : moved = [where EXCEPT ![t] = "mem"]
  OBVIOUS
<1> PICK l \in Lines : l = Line(t)
  BY <1>6
<1> PICK e : e = tag_miss_entry(r)
  OBVIOUS
<1>10. Known(e) = {Requester(t)} /\ Distinct(e)
  BY <1>5, <1>6, NewKnows DEF tag_miss_entry
<1>11. ~Present(l)
  BY <1>1, <1>5 DEF TagHit, TagSet, Present
<1>12. Written(l, e)
  <2>1. Writes(l, e)
    BY <1>1, <1>5, <1>11 DEF TagsAfter, EntriesWith, TagSet, TagWay, TagHit, Present, Writes
  <2>2. QED BY <1>10, <2>1, Writing
<1>13. Commands' = Commands /\ Answers' = Answers
  BY <1>1, <1>2, <1>3 DEF Commands, Answers
<1>14. \A k \in Lines : Holders(k)' = Holders(k) /\ Owners(k)' = Owners(k)
  BY <1>1, <1>13, SameHolders
<1>15. \A c \in Commands : c.paddr # l
  BY <1>11 DEF Inv, Tables, CommandsKnow
<1>16. Book(l) = {} /\ Holders(l) = {} /\ Owners(l) = {}
  <2>1. Book(l) = {}
    BY <1>11, <1>15 DEF Book, Commanded
  <2>2. QED BY <2>1, OwnersHold DEF Inv, Tracked
<1>17. Book(l)' = {Requester(t)} /\ \A k \in Lines : k # l => Book(k)' = Book(k)
  <2>1. Book(l)' = Known(e) \cap Nid /\ \A k \in Lines : k # l => Book(k)' = Book(k)
    BY <1>1, <1>12, <1>13, <1>15, WrittenBook
  <2>2. QED BY <1>6, <1>10, <2>1
<1>18. moved \in [Slots -> Places] /\ Posted(moved)'
  <2>1. ASSUME NEW s \in Slots, s # t, where[s] = "entry" PROVE TableEntry(Line(s))' = TableEntry(Line(s))
    <3>1. Line(s) # l /\ Line(s) \in Lines /\ Line(s)' = Line(s)
      BY <1>1, <1>6, <2>1, OneOfALine, SlotFacts DEF Line
    <3>2. PICK k \in Lines : k = Line(s) /\ k # l
      BY <3>1
    <3>3. TableEntry(k)' = TableEntry(k)
      BY <1>12, <3>2 DEF Written
    <3>4. QED BY <3>1, <3>2, <3>3 DEF TableEntry
  <2>2. SameWords(where, Wording, Wording', t)
    BY <1>1, <2>1, KeepWording DEF SameRequest
  <2>3. Shifted(Board, Board', Wording, Wording', t, "tag", "mem")
    <3>1. Board'["tag"] = Board["tag"] \ {r}
      BY <1>1, <1>3, BoardIs, BoardIsNext
    <3>2. Board'["mem"] = Board["mem"] \cup {x}
      BY <1>9, BoardIs, BoardIsNext
    <3>3. \A p \in Stations : p # "tag" /\ p # "mem" => Board'[p] = Board[p]
      BY <1>1, <1>2, SameStation DEF Stations
    <3>4. QED BY <1>8, <3>1, <3>2, <3>3 DEF Shifted
  <2>4. "tag" \in Places /\ "mem" \in Places
    BY DEF Places, Stations
  <2>5. QED BY <1>4, <2>2, <2>3, <2>4, Moves
<1>19. Kept(t, "mem")'
  <2>1. Line(t)' = Line(t) /\ Requester(t)' = Requester(t)
    BY <1>1 DEF Line, Requester
  <2>2. \A m \in Answers' : Line(t)' # m.paddr
    BY <1>13, <1>16, <2>1, AnswersToNodes
  <2>3. Holders(Line(t))' = {} /\ Owners(Line(t))' = {} /\ Book(Line(t))' = {Requester(t)}
    BY <1>14, <1>16, <1>17, <2>1 DEF Holders, Owners, Book, Present, TableEntry, Commanded
  <2>4. Alone(t)'
    BY <2>1, <2>3 DEF Alone, Others
  <2>5. QED BY <2>2, <2>4 DEF Kept, Looking, Snooping
<1>20. \A s \in Slots : Kept(s, moved[s])'
  <2>1. \A k \in Lines : k # l => Spared(k)
    BY <1>12, <1>14, <1>17 DEF Written, Spared
  <2>2. \A s \in Slots : s # t /\ where[s] # "none" => Undisturbed(s)
    BY <1>1, <1>6, <1>13, <2>1, Elsewhere DEF SameRequest
  <2>3. QED BY <1>19, <2>2, AllKept
<1>21. Tables'
  BY <1>1, <1>12, <1>13, WrittenTables
<1>22. Tracked'
  BY <1>14, <1>16, <1>17, WrittenTracked
<1>23. Resting(moved)' /\ SlotsMatch' /\ Queues' /\ Quiet' /\ Asking'
  <2>1. WordsOf(ff'.release) = WordsOf(ff.release)
    BY <1>2
  <2>2. QED BY <1>1, <1>2, <1>6, <1>13, <2>1, StillResting, KeepSlots, KeepQuiet, KeepAsking
<1>24. Orders' /\ RepliesMatch'
  BY <1>1, <1>2, <1>3, <1>9 DEF Inv, Orders, NoDoubles, AnswerOrder, RepliesMatch, DispSlot
<1>25. RequestsOnly'
  BY DEF Inv, RequestsOnly
<1>26. QED
  BY <1>18, <1>20, <1>21, <1>22, <1>23, <1>24, <1>25 DEF Inv, IInv, Whereabouts

LEMMA HitStep ==
    ASSUME NEW where, Inv(where), Typed', TagHitRequest
    PROVE  IInv'
<1> PICK r : r = Head(ff.tag_req)
  OBVIOUS
<1> PICK x : x = [req |-> r, entry |-> entries[TagSet(r)][TagWay(r)]]
  OBVIOUS
<1>1. /\ ff.tag_req # << >> /\ Room(ff.entry) /\ ~r.dr_cmd /\ TagHit(r)
      /\ ff' = [ff EXCEPT !.tag_req = Tail(@), !.entry = Append(@, x)]
      /\ req_buf' = req_buf /\ entry_buf' = entry_buf /\ tags' = tags /\ entries' = entries
      /\ latch' = latch /\ copy' = copy /\ asked' = asked /\ snoops' = snoops /\ disp' = disp
      /\ snoop_ack' = snoop_ack /\ memory' = memory
  BY DEF TagHitRequest, l2
<1>2. /\ ff'.tag_req = Tail(ff.tag_req) /\ ff'.entry = Append(ff.entry, x) /\ ff'.mem = ff.mem
      /\ ff'.snack = ff.snack /\ ff'.disp_snack = ff.disp_snack /\ ff'.release = ff.release
      /\ ff'.pfreq = ff.pfreq
  BY <1>1, FlopFacts DEF QueueFlops
<1>3. /\ r \in Stage /\ r \in WordsOf(ff.tag_req) /\ r \notin WordsOf(ff'.tag_req)
      /\ WordsOf(ff.tag_req) = WordsOf(ff'.tag_req) \cup {r}
      /\ \A c \in WordsOf(ff'.tag_req) : c.dr_cmd => c.paddr # r.paddr /\ c.drid # r.drid
      /\ NoDouble(ff'.tag_req) /\ CommandOrder'
  BY <1>1, <1>2, TagGet
<1>4. PICK t \in Slots : where[t] = "tag" /\ r = StageWord(t)
  BY <1>1, <1>3, TagAt
<1> PICK l \in Lines : l = Line(t)
  BY SlotFacts
<1> PICK moved : moved = [where EXCEPT ![t] = "entry"]
  OBVIOUS
<1>5. r.drid = t + 1 /\ r.paddr = l /\ where[t] # "none"
  BY <1>4 DEF StageWord, StageOf
<1>6. Present(l) /\ x = [req |-> StageWord(t), entry |-> TableEntry(l)] /\ x \in Fetched
  <2>1. TableEntry(l) \in Entry
    BY WayType DEF Inv, Typed, RegistersOK, TableEntry, Sets
  <2>2. Present(l) /\ x = [req |-> StageWord(t), entry |-> TableEntry(l)]
    BY <1>1, <1>4, <1>5 DEF TagHit, TagSet, TagWay, Present, TableEntry
  <2>3. QED BY <1>3, <1>4, <2>1, <2>2 DEF Fetched
<1>7. Wording["tag"][t] = r /\ Wording["entry"][t] = x /\ Wording'["entry"][t] = x
  BY <1>1, <1>4, <1>6, TagWord, EntryWord DEF Line, StageWord, TableEntry, Requester
<1>8. WordsOf(ff'.entry) = WordsOf(ff.entry) \cup {x} /\ NoDouble(ff'.entry)
  <2>1. x \notin WordsOf(ff.entry)
    BY <1>4, <1>7, Fresh, BoardIs DEF Stations
  <2>2. QED BY <1>1, <1>2, <1>6, <2>1, EntryPut
<1>9. Commands' = Commands /\ Answers' = Answers
  BY <1>1, <1>2, <1>3 DEF Commands, Answers
<1>10. \A k \in Lines : Spared(k)
  BY <1>1, <1>9, SparedAll
<1>11. moved \in [Slots -> Places] /\ Posted(moved)'
  <2>1. SameWords(where, Wording, Wording', t)
    BY <1>1, KeepWording DEF SameRequest, Line, TableEntry
  <2>2. Shifted(Board, Board', Wording, Wording', t, "tag", "entry")
    <3>1. Board'["tag"] = Board["tag"] \ {r}
      BY <1>1, <1>3, BoardIs, BoardIsNext
    <3>2. Board'["entry"] = Board["entry"] \cup {x}
      BY <1>8, BoardIs, BoardIsNext
    <3>3. \A p \in Stations : p # "tag" /\ p # "entry" => Board'[p] = Board[p]
      BY <1>1, <1>2, SameStation DEF Stations
    <3>4. QED BY <1>7, <3>1, <3>2, <3>3 DEF Shifted
  <2>3. "tag" \in Places /\ "entry" \in Places
    BY DEF Places, Stations
  <2>4. QED BY <1>4, <2>1, <2>2, <2>3, Moves
<1>12. Kept(t, "entry")'
  <2>1. Line(t)' = l /\ Present(Line(t))'
    BY <1>1, <1>6 DEF Line, Present
  <2>2. ASSUME NEW c \in Commands' PROVE t # SlotOf(c.drid) /\ l # c.paddr
    <3>1. c \in WordsOf(ff'.tag_req) /\ c.dr_cmd /\ c.drid # 0 /\ c.drid \in Drid
      BY <1>9, CommandFacts DEF Commands, Inv, Tables, CommandsNamed
    <3>2. c.paddr # l /\ c.drid # t + 1
      BY <1>3, <1>5, <3>1
    <3>3. QED BY <3>1, <3>2, SlotNames, NamesOneSlot
  <2>3. QED BY <2>1, <2>2 DEF Kept, Asked, Snooping
<1>13. \A s \in Slots : Kept(s, moved[s])'
  <2>1. \A s \in Slots : s # t /\ where[s] # "none" => Undisturbed(s)
    BY <1>1, <1>5, <1>9, <1>10, Elsewhere DEF SameRequest
  <2>2. QED BY <1>12, <2>1, AllKept
<1>14. Tables' /\ Tracked'
  BY <1>1, <1>9, <1>10, KeepTables, Shrinks DEF Spared
<1>15. Resting(moved)' /\ SlotsMatch' /\ Queues' /\ Quiet' /\ Asking'
  <2>1. WordsOf(ff'.release) = WordsOf(ff.release)
    BY <1>2
  <2>2. QED BY <1>1, <1>2, <1>5, <1>9, <2>1, StillResting, KeepSlots, KeepQuiet, KeepAsking
<1>16. Orders' /\ RepliesMatch'
  BY <1>1, <1>2, <1>3, <1>8 DEF Inv, Orders, NoDoubles, AnswerOrder, RepliesMatch, DispSlot
<1>17. RequestsOnly'
  BY DEF Inv, RequestsOnly
<1>18. QED
  BY <1>11, <1>13, <1>14, <1>15, <1>16, <1>17 DEF Inv, IInv, Whereabouts

(* The bank's own command writes what the book says of the line already.   *)
LEMMA InternalStep ==
    ASSUME NEW where, Inv(where), Typed', TagInternal
    PROVE  IInv'
<1> PICK r : r = Head(ff.tag_req)
  OBVIOUS
<1> PICK e : e = InternalEntry(r)
  OBVIOUS
<1>1. /\ ff.tag_req # << >> /\ r.dr_cmd
      /\ tags' = TagsAfter(r) /\ entries' = EntriesWith(r, e)
      /\ ff' = [ff EXCEPT !.tag_req = Tail(@)]
      /\ req_buf' = req_buf /\ entry_buf' = entry_buf /\ latch' = latch /\ copy' = copy
      /\ asked' = asked /\ snoops' = snoops /\ disp' = disp /\ snoop_ack' = snoop_ack
      /\ memory' = memory
  BY DEF TagInternal, l2
<1>2. /\ ff'.tag_req = Tail(ff.tag_req) /\ ff'.entry = ff.entry /\ ff'.mem = ff.mem
      /\ ff'.snack = ff.snack /\ ff'.disp_snack = ff.disp_snack /\ ff'.release = ff.release
      /\ ff'.pfreq = ff.pfreq
  BY <1>1, FlopFacts DEF QueueFlops
<1>3. /\ r \in Stage /\ r \in WordsOf(ff.tag_req) /\ r \notin WordsOf(ff'.tag_req)
      /\ WordsOf(ff.tag_req) = WordsOf(ff'.tag_req) \cup {r}
      /\ \A c \in WordsOf(ff'.tag_req) : c.dr_cmd => c.paddr # r.paddr /\ c.drid # r.drid
      /\ NoDouble(ff'.tag_req) /\ CommandOrder'
  BY <1>1, <1>2, TagGet
<1> PICK l \in Lines : l = r.paddr
  BY <1>3 DEF Stage
<1>4. r \in Commands /\ r.nid \in Nid /\ Present(l) /\ SlotOf(r.drid) \in Slots
      /\ (r.cmd = DR_CMD_UPDATE_ENTRY => r.nid \notin Known(entry_buf[SlotOf(r.drid)].entry))
  <2>1. r \in Commands
    BY <1>1, <1>3 DEF Commands
  <2>2. QED BY <2>1, CommandFacts DEF Inv, Tables, CommandsNamed, CommandsKnow
<1>5. Distinct(e) /\ Known(e) \subseteq Nid
  <2>1. CASE r.cmd = DR_CMD_UPDATE_ENTRY
    <3> PICK f : f = entry_buf[SlotOf(r.drid)].entry
      OBVIOUS
    <3>1. f \in Entry /\ Distinct(f) /\ r.nid \notin Known(f) /\ e = UpdatedEntry(f, r.nid)
      BY <1>4, <2>1 DEF Inv, Typed, RegistersOK, SnoopState, Tables, PointersDistinct, InternalEntry
    <3>2. Known(e) = Known(f) \cup {r.nid} /\ Distinct(e)
      BY <1>4, <3>1, UpdatedKnows DEF Inv, RequestsOnly
    <3>3. QED BY <1>4, <3>1, <3>2, KnownNodes
  <2>2. CASE r.cmd # DR_CMD_UPDATE_ENTRY
    <3>1. e = NewEntry(r.nid, r.cmd # REQ_M)
      BY <2>2 DEF InternalEntry, tag_miss_entry
    <3>2. QED BY <1>4, <3>1, NewKnows
  <2>3. QED BY <2>1, <2>2
<1>6. Written(l, e)
  <2>1. Writes(l, e)
    BY <1>1, <1>4 DEF TagsAfter, EntriesWith, TagSet, TagWay, TagHit, Present, Writes
  <2>2. QED BY <1>5, <2>1, Writing
<1>7. Commands' = Commands \ {r} /\ Answers' = Answers
  BY <1>1, <1>2, <1>3 DEF Commands, Answers
<1>8. \A c \in Commands : c.paddr = l => c = r
  BY <1>3 DEF Commands
<1>9. \A k \in Lines : Book(k)' = Book(k)
  <2>1. Book(l)' = Known(e) \cap Nid /\ \A k \in Lines : k # l => Book(k)' = Book(k)
    BY <1>1, <1>6, <1>7, <1>8, WrittenBook
  <2>2. Book(l) = Known(e) \cap Nid
    BY <1>4, <1>8 DEF Book, Commanded
  <2>3. QED BY <2>1, <2>2
<1>10. \A k \in Lines : Spared(k)
  <2>1. \A k \in Lines : Holders(k)' = Holders(k) /\ Owners(k)' = Owners(k)
    BY <1>1, <1>7, SameHolders
  <2>2. \A k \in Lines : Present(k) => Present(k)'
    BY <1>6 DEF Written
  <2>3. QED BY <1>9, <2>1, <2>2 DEF Spared
<1>11. where \in [Slots -> Places] /\ Posted(where)'
  <2>1. ASSUME NEW s \in Slots, where[s] = "entry" PROVE TableEntry(Line(s))' = TableEntry(Line(s))
    <3>1. Line(s) \in Lines /\ Line(s)' = Line(s) /\ Line(s) # l
      BY <1>1, <1>4, <2>1, SlotFacts, NoCommandFor DEF Line, Looking
    <3>2. PICK k \in Lines : k = Line(s) /\ k # l
      BY <3>1
    <3>3. TableEntry(k)' = TableEntry(k)
      BY <1>6, <3>2 DEF Written
    <3>4. QED BY <3>1, <3>2, <3>3 DEF TableEntry
  <2>2. PICK t : t = NumSlots
    OBVIOUS
  <2>3. \A s \in Slots : s # t
    BY <2>2, Positive DEF Slots
  <2>4. SameWords(where, Wording, Wording', t)
    BY <1>1, <2>1, KeepWording DEF SameRequest
  <2>5. \A p \in Stations : Board'[p] = Board[p]
    <3>1. Board'["tag"] = Board["tag"]
      BY <1>1, <1>3, BoardIs, BoardIsNext
    <3>2. \A p \in Stations : p # "tag" => Board'[p] = Board[p]
      BY <1>1, <1>2, SameStation DEF Stations
    <3>3. QED BY <3>1, <3>2
  <2>6. QED BY <2>3, <2>4, <2>5, Stays
<1>12. \A s \in Slots : Kept(s, where[s])'
  <2>1. \A s \in Slots : where[s] # "none" => Undisturbed(s)
    BY <1>1, <1>7, <1>10, Everywhere DEF SameRequest
  <2>2. QED BY <2>1, AllStay
<1>13. Tables' /\ Tracked'
  BY <1>1, <1>6, <1>7, <1>10, WrittenTables, Shrinks DEF Spared
<1>14. Resting(where)' /\ SlotsMatch' /\ Queues' /\ Quiet' /\ Asking'
  <2>1. WordsOf(ff'.release) = WordsOf(ff.release)
    BY <1>2
  <2>2. \A s \in Slots : Active(s)' = Active(s)
    BY <1>1, KeepSlots
  <2>3. Resting(where)'
    BY <2>2 DEF Inv, Whereabouts, Resting
  <2>4. QED BY <1>1, <1>2, <1>7, <2>1, <2>3, KeepSlots, KeepQuiet, KeepAsking
<1>15. Orders' /\ RepliesMatch'
  BY <1>1, <1>2, <1>3 DEF Inv, Orders, NoDoubles, AnswerOrder, RepliesMatch, DispSlot
<1>16. RequestsOnly'
  BY DEF Inv, RequestsOnly
<1>17. QED
  BY <1>11, <1>12, <1>13, <1>14, <1>15, <1>16 DEF Inv, IInv, Whereabouts

-----------------------------------------------------------------------------
(* Snoops.                                                                 *)

LEMMA SnoopStep ==
    ASSUME NEW where, Inv(where), Typed', EntrySnoop
    PROVE  IInv'
<1>h. PICK h : h = Head(ff.entry)
  OBVIOUS
<1>e. PICK e : e = WithoutRequester(h.entry, h.req.nid)
  OBVIOUS
<1>start. PICK start : start = IF Used(e) = {} THEN latch.entry_pos_start ELSE Lowest(Used(e))
  OBVIOUS
<1>who. PICK who : who = IF Used(e) = {} THEN h.req.nid ELSE e.nid[start]
  OBVIOUS
<1>x. PICK x : x = Snoop(h.req.drid, who, h.req.paddr, h.req.cmd)
  OBVIOUS
<1>1. /\ ff.entry # << >> /\ Room(ff.snack)
      /\ ff' = [ff EXCEPT !.entry = Tail(@), !.snack = Append(@, x)]
      /\ entry_buf' = [entry_buf EXCEPT ![SlotOf(h.req.drid)] = [pos |-> start, entry |-> e]]
      /\ latch' = [latch EXCEPT !.entry_pos_start = start]
      /\ req_buf' = req_buf /\ tags' = tags /\ entries' = entries
      /\ copy' = copy /\ asked' = asked /\ snoops' = snoops /\ disp' = disp
      /\ snoop_ack' = snoop_ack /\ memory' = memory
  BY <1>h, <1>e, <1>start, <1>who, <1>x DEF EntrySnoop, l2
<1>2. /\ ff'.entry = Tail(ff.entry) /\ ff'.snack = Append(ff.snack, x) /\ ff'.tag_req = ff.tag_req
      /\ ff'.mem = ff.mem /\ ff'.disp_snack = ff.disp_snack /\ ff'.release = ff.release
      /\ ff'.pfreq = ff.pfreq /\ latch'.found_line = latch.found_line
      /\ latch'.snoop_rel = latch.snoop_rel
  BY <1>1, FlopFacts DEF QueueFlops, Inv, Typed, RegistersOK, Latches
<1>3. /\ h \in Fetched /\ h \in WordsOf(ff.entry)
      /\ WordsOf(ff'.entry) = WordsOf(ff.entry) \ {h} /\ NoDouble(ff'.entry)
  BY <1>1, <1>2, <1>h, EntryGet
<1>4. PICK t \in Slots : where[t] = "entry" /\ h = [req |-> StageWord(t), entry |-> TableEntry(Line(t))]
  BY <1>3, EntryAt
<1> PICK l \in Lines : l = Line(t)
  BY SlotFacts
<1>f. PICK f : f = TableEntry(l)
  OBVIOUS
<1> PICK moved : moved = [where EXCEPT ![t] = "snack"]
  OBVIOUS
<1>5. /\ Requester(t) \in Nid /\ req_buf[t].cmd \in {REQ_S, REQ_M} /\ t + 1 \in Drid /\ t + 1 # 0
      /\ SlotOf(t + 1) = t /\ where[t] # "none"
  BY <1>4, SlotFacts, SlotNames
<1>6. /\ h.req.drid = t + 1 /\ h.req.nid = Requester(t) /\ h.req.paddr = l
      /\ h.req.cmd = req_buf[t].cmd /\ h.entry = f
  <2>1. h.req = StageWord(t) /\ h.entry = f
    BY <1>4, <1>f DEF TableEntry
  <2>2. QED BY <2>1 DEF StageWord, StageOf
<1>7. f \in Entry /\ Distinct(f)
  BY <1>f, WayType DEF Inv, Typed, RegistersOK, TableEntry, Sets, Tables, PointersDistinct
<1>8. e \in Entry /\ Distinct(e) /\ Known(e) = Known(f) \ {Requester(t)}
  BY <1>5, <1>6, <1>7, <1>e, DroppedKnows
<1>9. start \in Pointers /\ (Used(e) # {} => start \in Used(e) /\ \A p \in Used(e) : start <= p)
  <2>1. latch.entry_pos_start \in Pointers
    BY DEF Inv, Typed, RegistersOK, Latches
  <2>2. Used(e) \subseteq Pointers /\ Used(e) \subseteq Nat
    BY <1>8, UsedPointers
  <2>3. Used(e) # {} => Lowest(Used(e)) \in Used(e) /\ \A p \in Used(e) : Lowest(Used(e)) <= p
    BY <2>2, LowestIn
  <2>4. QED BY <1>start, <2>1, <2>2, <2>3
<1>10. who \in Nid /\ (Used(e) # {} => who \in Known(e))
  BY <1>5, <1>6, <1>8, <1>9, <1>who, KnownNodes DEF Known
<1>11. x = Snoop(t + 1, who, l, req_buf[t].cmd) /\ x \in Msg /\ x.drid = t + 1
  BY <1>5, <1>6, <1>10, <1>x DEF Snoop, SnoopFor, Msg, Nodes, Snack
<1>12. x \notin WordsOf(ff.snack)
  BY <1>4, <1>11, NewSnoop
<1>13. /\ WordsOf(ff'.snack) = WordsOf(ff.snack) \cup {x} /\ NoDouble(ff'.snack) /\ AnswerOrder'
  BY <1>1, <1>2, <1>5, <1>11, <1>12, SnackPut
<1>14. /\ entry_buf'[t] = [pos |-> start, entry |-> e]
       /\ \A s \in Slots : s # t => entry_buf'[s] = entry_buf[s]
  BY <1>1, <1>5, <1>6 DEF Inv, Typed, RegistersOK
<1>15. Wording["entry"][t] = h /\ Wording'["snack"][t] = x
  <2>1. Wording["entry"][t] = h
    BY <1>4, EntryWord
  <2>2. SnoopWord(t)' = x
    BY <1>1, <1>6, <1>11, <1>14, <1>who DEF SnoopWord, Who, Requester, Line
  <2>3. QED BY <2>1, <2>2, SnackWord
<1>16. Commands' = Commands /\ Answers' = Answers
  BY <1>2, <1>5, <1>11, <1>13 DEF Commands, Answers
<1>17. Present(l) /\ ~Commanded(l) /\ \A c \in Commands : SlotOf(c.drid) # t /\ c.paddr # l
  BY <1>4, NoCommandFor DEF Looking
<1>18. \A k \in Lines : Spared(k)
  BY <1>1, <1>14, <1>16, <1>17, CommandFacts, SparedAll
<1>19. moved \in [Slots -> Places] /\ Posted(moved)'
  <2>1. SameWords(where, Wording, Wording', t)
    BY <1>1, <1>14, KeepWording DEF SameRequest, Line, TableEntry
  <2>2. Shifted(Board, Board', Wording, Wording', t, "entry", "snack")
    <3>1. Board'["entry"] = Board["entry"] \ {h}
      BY <1>3, BoardIs, BoardIsNext
    <3>2. Board'["snack"] = Board["snack"] \cup {x}
      BY <1>5, <1>11, <1>13, BoardIs, BoardIsNext
    <3>3. \A p \in Stations : p # "entry" /\ p # "snack" => Board'[p] = Board[p]
      BY <1>1, <1>2, SameStation DEF Stations
    <3>4. QED BY <1>15, <3>1, <3>2, <3>3 DEF Shifted
  <2>3. "entry" \in Places /\ "snack" \in Places
    BY DEF Places, Stations
  <2>4. QED BY <1>4, <2>1, <2>2, <2>3, Moves
<1>20. Kept(t, "snack")'
  <2>1. /\ Line(t)' = l /\ Requester(t)' = Requester(t) /\ Present(Line(t))' /\ entry_buf'[t].entry = e
        /\ entry_buf'[t].pos = start
    BY <1>1, <1>14, <1>17 DEF Line, Requester, Present
  <2>2. Holders(Line(t))' = Holders(l) /\ Owners(Line(t))' = Owners(l)
    BY <1>1, <1>16, <2>1 DEF Holders, Owners
  <2>3. Book(l) = Known(f)
    BY <1>7, <1>17, <1>f, KnownNodes DEF Book, Commanded
  <2>4. Holders(l) \ {Requester(t)} \subseteq Known(e)
    BY <1>8, <2>3 DEF Inv, Tracked
  <2>5. After(t)' = {e.nid[p] : p \in Later(e, start)} /\ (Used(e) # {} => Who(t)' = e.nid[start])
    BY <2>1 DEF After, Who
  <2>6. Known(e) \subseteq After(t)' \cup (IF Used(e) = {} THEN {} ELSE {Who(t)'})
    <3>1. ASSUME NEW p \in Used(e) PROVE e.nid[p] \in After(t)' \/ (Used(e) # {} /\ e.nid[p] = Who(t)')
      <4>1. p = start \/ p > start
        BY <1>8, <1>9, UsedPointers
      <4>2. QED BY <2>5, <4>1 DEF Later
    <3>2. QED BY <3>1 DEF Known
  <2>7. ASSUME NEW o \in Owners(l) PROVE Known(e) = {o}
    <3>1. Book(l) = {o} /\ o # Requester(t)
      BY <1>4, <1>5, OwnersHold, NotYetAnswered, RequesterLacks DEF Inv, Tracked
    <3>2. QED BY <1>8, <2>3, <3>1
  <2>8. Asks(t)'
    BY <1>9, <2>1, <2>2, <2>4, <2>6, <2>7 DEF Asks, Others
  <2>9. Requester(t)' \notin Known(entry_buf'[t].entry)
    BY <1>8, <2>1
  <2>10. \A c \in Commands' : t # SlotOf(c.drid) /\ Line(t)' # c.paddr
    BY <1>16, <1>17, <2>1
  <2>11. QED BY <2>1, <2>8, <2>9, <2>10 DEF Kept, Asked
<1>21. \A s \in Slots : Kept(s, moved[s])'
  <2>1. \A s \in Slots : s # t /\ where[s] # "none" => Undisturbed(s)
    BY <1>1, <1>5, <1>14, <1>16, <1>18, Elsewhere DEF SameRequest
  <2>2. QED BY <1>20, <2>1, AllKept
<1>22. Tables' /\ Tracked'
  <2>1. Tables'
    BY <1>1, <1>8, <1>14, <1>16, <1>17, KeepTablesBut
  <2>2. QED BY <1>18, <2>1, Shrinks DEF Spared
<1>23. Asking'
  BY <1>1, <1>2, <1>16, KeepAsking
<1>24. RepliesMatch' /\ Quietly
  BY <1>1, <1>2, <1>3, <1>13, <1>16 DEF Inv, Orders, NoDoubles, RepliesMatch, DispSlot, Quietly
<1>25. QED BY <1>5, <1>19, <1>21, <1>22, <1>23, <1>24, QuietStep

LEMMA AskNextStep ==
    ASSUME NEW where, Inv(where), Typed', SnoopNext
    PROVE  IInv'
<1>drid. PICK drid \in snoop_ack :
      LET s == SlotOf(drid) IN
      /\ Remaining(s) # {} /\ Room(ff.snack)
      /\ LET p == Lowest(Remaining(s)) IN
         /\ ff' = [ff EXCEPT !.release = LatchedRelease(s),
                      !.snack = Append(@, Snoop(drid, Cleared(s).nid[p],
                                                req_buf[s].paddr, req_buf[s].cmd))]
         /\ entry_buf' = [entry_buf EXCEPT ![s] = [pos |-> p, entry |-> Cleared(s)]]
      /\ snoop_ack' = snoop_ack \ {drid}
      /\ UNCHANGED <<req_buf, tags, entries, latch, l2, disp, memory>>
  BY DEF SnoopNext
<1>4. PICK t \in Slots : where[t] = "snoop_ack" /\ drid = t + 1
  BY AckAt
<1>5. /\ Requester(t) \in Nid /\ req_buf[t].cmd \in {REQ_S, REQ_M} /\ t + 1 \in Drid /\ t + 1 # 0
      /\ SlotOf(t + 1) = t /\ where[t] # "none"
  BY <1>4, SlotFacts, SlotNames
<1> PICK l \in Lines : l = Line(t)
  BY SlotFacts
<1>e. PICK e : e = Cleared(t)
  OBVIOUS
<1>old. PICK old : old = entry_buf[t].entry
  OBVIOUS
<1>pos. PICK pos : pos = entry_buf[t].pos
  OBVIOUS
<1>p. PICK p : p = Lowest(Remaining(t))
  OBVIOUS
<1>x. PICK x : x = Snoop(t + 1, e.nid[p], l, req_buf[t].cmd)
  OBVIOUS
<1> PICK moved : moved = [where EXCEPT ![t] = "snack"]
  OBVIOUS
<1>1. /\ Room(ff.snack) /\ Remaining(t) # {}
      /\ ff' = [ff EXCEPT !.release = LatchedRelease(t), !.snack = Append(@, x)]
      /\ entry_buf' = [entry_buf EXCEPT ![t] = [pos |-> p, entry |-> e]]
      /\ latch' = latch /\ req_buf' = req_buf /\ tags' = tags /\ entries' = entries
      /\ copy' = copy /\ asked' = asked /\ snoops' = snoops /\ disp' = disp
      /\ snoop_ack' = snoop_ack \ {t + 1} /\ memory' = memory
  BY <1>drid, <1>4, <1>5, <1>e, <1>p, <1>x DEF l2, Line
<1>2. /\ ff'.entry = ff.entry /\ ff'.snack = Append(ff.snack, x) /\ ff'.tag_req = ff.tag_req
      /\ ff'.mem = ff.mem /\ ff'.disp_snack = ff.disp_snack /\ ff'.release = ff.release
      /\ ff'.pfreq = ff.pfreq
  <2>1. LatchedRelease(t) = ff.release
    BY DEF LatchedRelease, Inv, Quiet
  <2>2. QED BY <1>1, <2>1, FlopFacts DEF QueueFlops
<1>3. /\ old \in Entry /\ e \in Entry /\ Distinct(e) /\ pos \in Pointers
      /\ Known(e) \subseteq Known(old) /\ Later(e, pos) \subseteq Used(e)
      /\ After(t) = {e.nid[q] : q \in Later(e, pos)}
  BY <1>e, <1>old, <1>pos, ClearedIs DEF Later
<1>6. p \in Later(e, pos) /\ p \in Used(e) /\ p \in Pointers /\ \A q \in Later(e, pos) : p <= q
  <2>1. Remaining(t) = Later(e, pos)
    BY <1>e, <1>pos DEF Remaining
  <2>2. Later(e, pos) \subseteq Nat /\ Used(e) \subseteq Pointers
    BY <1>3, UsedPointers
  <2>3. QED BY <1>1, <1>3, <1>p, <2>1, <2>2, LowestIn
<1>7. e.nid[p] \in Nid
  BY <1>3, <1>6, KnownNodes DEF Known
<1>8. Kept(t, "snoop_ack") /\ Denied(t) /\ Present(l) /\ Requester(t) \notin Known(old)
  BY <1>4, <1>old DEF Inv, Whereabouts, Kept, Looking, Snooping
<1>11. x \in Msg /\ x.drid = t + 1
  BY <1>5, <1>7, <1>x DEF Snoop, SnoopFor, Msg, Nodes, Snack
<1>12. x \notin WordsOf(ff.snack)
  BY <1>4, <1>11, NewSnoop
<1>13. /\ WordsOf(ff'.snack) = WordsOf(ff.snack) \cup {x} /\ NoDouble(ff'.snack) /\ AnswerOrder'
  BY <1>1, <1>2, <1>5, <1>11, <1>12, SnackPut
<1>14. /\ entry_buf'[t] = [pos |-> p, entry |-> e]
       /\ \A s \in Slots : s # t => entry_buf'[s] = entry_buf[s]
  BY <1>1, <1>5 DEF Inv, Typed, RegistersOK
<1>15. Wording["snoop_ack"][t] = t + 1 /\ Wording'["snack"][t] = x
  <2>1. Who(t)' = e.nid[p]
    BY <1>6, <1>14 DEF Who
  <2>2. SnoopWord(t)' = x
    BY <1>1, <1>x, <2>1 DEF SnoopWord, Line
  <2>3. QED BY <2>2, SnackWord, AckWord
<1>16. Commands' = Commands /\ Answers' = Answers
  BY <1>2, <1>5, <1>11, <1>13 DEF Commands, Answers
<1>17. \A c \in Commands : SlotOf(c.drid) # t /\ c.paddr # l
  BY <1>4, NoCommandFor DEF Looking
<1>18. \A k \in Lines : Spared(k)
  BY <1>1, <1>14, <1>16, <1>17, CommandFacts, SparedAll
<1>19. moved \in [Slots -> Places] /\ Posted(moved)'
  <2>1. SameWords(where, Wording, Wording', t)
    BY <1>1, <1>14, KeepWording DEF SameRequest, Line, TableEntry
  <2>2. Shifted(Board, Board', Wording, Wording', t, "snoop_ack", "snack")
    <3>1. Board'["snoop_ack"] = Board["snoop_ack"] \ {t + 1}
      BY <1>1, BoardIs, BoardIsNext
    <3>2. Board'["snack"] = Board["snack"] \cup {x}
      BY <1>5, <1>11, <1>13, BoardIs, BoardIsNext
    <3>3. \A q \in Stations : q # "snoop_ack" /\ q # "snack" => Board'[q] = Board[q]
      BY <1>1, <1>2, SameStation DEF Stations
    <3>4. QED BY <1>15, <3>1, <3>2, <3>3 DEF Shifted
  <2>3. "snoop_ack" \in Places /\ "snack" \in Places
    BY DEF Places, Stations
  <2>4. QED BY <1>4, <2>1, <2>2, <2>3, Moves
<1>20. Kept(t, "snack")'
  <2>1. /\ Line(t)' = l /\ Requester(t)' = Requester(t) /\ entry_buf'[t].entry = e
        /\ entry_buf'[t].pos = p
    BY <1>1, <1>14 DEF Line, Requester
  <2>2. Holders(Line(t))' = Holders(l) /\ Owners(Line(t))' = Owners(l)
    BY <1>1, <1>16, <2>1 DEF Holders, Owners
  <2>3. Present(Line(t))'
    BY <1>1, <1>8, <2>1 DEF Present
  <2>4. Others(t)' \subseteq After(t) /\ Owners(Line(t))' = {}
    BY <1>8, <2>1, <2>2 DEF Denied, Others
  <2>5. After(t)' = {e.nid[q] : q \in Later(e, p)} /\ Who(t)' = e.nid[p]
    BY <1>6, <2>1 DEF After, Who
  <2>6. After(t) \subseteq After(t)' \cup {Who(t)'}
    <3>1. ASSUME NEW q \in Later(e, pos) PROVE e.nid[q] \in After(t)' \/ e.nid[q] = Who(t)'
      <4>1. q \in Nat /\ p \in Nat /\ p <= q /\ q \in Used(e)
        BY <1>3, <1>6, UsedPointers
      <4>2. q = p \/ q > p
        BY <4>1
      <4>3. QED BY <2>5, <4>1, <4>2 DEF Later
    <3>2. QED BY <1>3, <3>1
  <2>7. Asks(t)'
    BY <1>6, <2>1, <2>4, <2>6 DEF Asks
  <2>8. Requester(t)' \notin Known(entry_buf'[t].entry)
    BY <1>3, <1>8, <2>1
  <2>9. \A c \in Commands' : t # SlotOf(c.drid) /\ Line(t)' # c.paddr
    BY <1>16, <1>17, <2>1
  <2>10. QED BY <2>3, <2>7, <2>8, <2>9 DEF Kept, Asked
<1>21. \A s \in Slots : Kept(s, moved[s])'
  <2>1. \A s \in Slots : s # t /\ where[s] # "none" => Undisturbed(s)
    BY <1>1, <1>5, <1>14, <1>16, <1>18, Elsewhere DEF SameRequest
  <2>2. QED BY <1>20, <2>1, AllKept
<1>22. Tables' /\ Tracked'
  <2>1. \A s \in Slots : s # t => entry_buf'[s] = entry_buf[s]
    BY <1>14
  <2>2. Distinct(entry_buf'[t].entry)
    BY <1>3, <1>14
  <2>3. Tables'
    BY <1>1, <1>16, <1>17, <2>1, <2>2, KeepTablesBut
  <2>4. QED BY <1>18, <2>3, Shrinks DEF Spared
<1>23. Asking'
  BY <1>1, <1>2, <1>16, KeepAsking
<1>24. RepliesMatch' /\ Quietly
  BY <1>1, <1>2, <1>3, <1>13, <1>16 DEF Inv, Orders, NoDoubles, RepliesMatch, DispSlot, Quietly
<1>25. QED BY <1>5, <1>19, <1>21, <1>22, <1>23, <1>24, QuietStep

LEMMA DeniedStep ==
    ASSUME NEW where, Inv(where), Typed', SnoopsDenied
    PROVE  IInv'
<1>drid. PICK drid \in snoop_ack :
      LET s == SlotOf(drid) IN
      /\ Remaining(s) = {} /\ ~req_buf[s].found
      /\ Room(ff.tag_req) /\ Room(ff.mem)
      /\ ff' = [ff EXCEPT !.release = LatchedRelease(s),
                   !.tag_req = Append(@, Internal(s, drid, DR_CMD_NEW_ENTRY)),
                   !.mem = Append(@, [drid |-> drid, paddr |-> req_buf[s].paddr,
                                      cmd |-> req_buf[s].cmd])]
      /\ snoop_ack' = snoop_ack \ {drid}
      /\ UNCHANGED <<req_buf, entry_buf, tags, entries, latch, l2, disp, memory>>
  BY DEF SnoopsDenied
<1>4. PICK t \in Slots : where[t] = "snoop_ack" /\ drid = t + 1
  BY AckAt
<1>5. /\ Requester(t) \in Nid /\ req_buf[t].cmd \in {REQ_S, REQ_M} /\ t + 1 \in Drid /\ t + 1 # 0
      /\ SlotOf(t + 1) = t /\ where[t] # "none"
  BY <1>4, SlotFacts, SlotNames
<1> PICK l \in Lines : l = Line(t)
  BY SlotFacts
<1>c. PICK c0 : c0 = Internal(t, t + 1, DR_CMD_NEW_ENTRY)
  OBVIOUS
<1>x. PICK x : x = [drid |-> t + 1, paddr |-> l, cmd |-> req_buf[t].cmd]
  OBVIOUS
<1>e. PICK e : e = Cleared(t)
  OBVIOUS
<1> PICK moved : moved = [where EXCEPT ![t] = "mem"]
  OBVIOUS
<1>1. /\ Room(ff.tag_req) /\ Room(ff.mem) /\ Remaining(t) = {}
      /\ ff' = [ff EXCEPT !.release = LatchedRelease(t), !.tag_req = Append(@, c0), !.mem = Append(@, x)]
      /\ entry_buf' = entry_buf
      /\ latch' = latch /\ req_buf' = req_buf /\ tags' = tags /\ entries' = entries
      /\ copy' = copy /\ asked' = asked /\ snoops' = snoops /\ disp' = disp
      /\ snoop_ack' = snoop_ack \ {t + 1} /\ memory' = memory
  BY <1>drid, <1>4, <1>5, <1>c, <1>x DEF l2, Line
<1>2. /\ ff'.entry = ff.entry /\ ff'.snack = ff.snack /\ ff'.tag_req = Append(ff.tag_req, c0)
      /\ ff'.mem = Append(ff.mem, x) /\ ff'.disp_snack = ff.disp_snack /\ ff'.release = ff.release
      /\ ff'.pfreq = ff.pfreq
  <2>1. LatchedRelease(t) = ff.release
    BY DEF LatchedRelease, Inv, Quiet
  <2>2. QED BY <1>1, <2>1, FlopFacts DEF QueueFlops
<1>3. /\ c0.dr_cmd /\ c0.cmd = DR_CMD_NEW_ENTRY /\ c0.paddr = l /\ c0.nid = Requester(t)
      /\ c0.drid = t + 1 /\ c0 \in Stage
  <2>1. c0 = StageOf(TRUE, DR_CMD_NEW_ENTRY, l, Requester(t), t + 1)
    BY <1>c DEF Internal, Line, Requester
  <2>2. QED BY <1>5, <2>1 DEF StageOf, Stage, Nodes, DR_CMD_NEW_ENTRY
<1>6. \A c \in WordsOf(ff.tag_req) : c.paddr # c0.paddr /\ c.drid # c0.drid
  BY <1>3, <1>4, CommandMayFollow DEF Looking
<1>7. /\ WordsOf(ff'.tag_req) = WordsOf(ff.tag_req) \cup {c0} /\ NoDouble(ff'.tag_req) /\ CommandOrder'
  BY <1>1, <1>2, <1>3, <1>6, TagPut
<1>8. Wording["snoop_ack"][t] = t + 1 /\ Wording["mem"][t] = x /\ Wording'["mem"][t] = x /\ x \in MemReq
  BY <1>1, <1>5, <1>x, AckWord, MemWord DEF Line, MemReq, REQ_S, REQ_M
<1>9. WordsOf(ff'.mem) = WordsOf(ff.mem) \cup {x} /\ NoDouble(ff'.mem)
  <2>1. x \notin WordsOf(ff.mem)
    BY <1>4, <1>8, Fresh, BoardIs DEF Stations
  <2>2. QED BY <1>1, <1>2, <1>8, <2>1, MemPut
<1>10. Kept(t, "snoop_ack") /\ Denied(t) /\ Present(l) /\ \A m \in Answers : l # m.paddr
  BY <1>4 DEF Inv, Whereabouts, Kept, Looking, Asked
<1>11. Others(t) = {} /\ Owners(l) = {}
  <2>1. After(t) = {}
    BY <1>1, <1>e, ClearedIs DEF Remaining
  <2>2. QED BY <1>10, <2>1 DEF Denied
<1>12. Commands' = Commands \cup {c0} /\ Answers' = Answers
  BY <1>2, <1>3, <1>7 DEF Commands, Answers
<1>13. \A c \in Commands : c.paddr # l /\ SlotOf(c.drid) # t
  BY <1>4, NoCommandFor DEF Looking
<1>14. /\ Book(l)' = {Requester(t)} /\ \A k \in Lines : k # l => Book(k)' = Book(k)
       /\ \A k \in Lines : Present(k)' = Present(k)
  <2>f. PICK f : f = InternalEntry(c0)'
    OBVIOUS
  <2>1. Known(f) = {Requester(t)}
    <3>1. f = NewEntry(c0.nid, c0.cmd # REQ_M)
      BY <1>3, <2>f DEF InternalEntry, tag_miss_entry, DR_CMD_NEW_ENTRY, DR_CMD_UPDATE_ENTRY
    <3>2. QED BY <1>3, <1>5, <3>1, NewKnows
  <2>2. /\ Book(l)' = Known(f) \cap Nid /\ \A k \in Lines : k # l => Book(k)' = Book(k)
        /\ \A k \in Lines : Present(k)' = Present(k)
    BY <1>1, <1>3, <1>5, <1>12, <1>13, <2>f, PostedBook
  <2>3. QED BY <1>5, <2>1, <2>2
<1>15. \A k \in Lines : Holders(k)' = Holders(k) /\ Owners(k)' = Owners(k)
  BY <1>1, <1>12, SameHolders
<1>16. moved \in [Slots -> Places] /\ Posted(moved)'
  <2>1. SameWords(where, Wording, Wording', t)
    BY <1>1, KeepWording DEF SameRequest, Line, TableEntry
  <2>2. Shifted(Board, Board', Wording, Wording', t, "snoop_ack", "mem")
    <3>1. Board'["snoop_ack"] = Board["snoop_ack"] \ {t + 1}
      BY <1>1, BoardIs, BoardIsNext
    <3>2. Board'["mem"] = Board["mem"] \cup {x}
      BY <1>9, BoardIs, BoardIsNext
    <3>3. Board'["tag"] = Board["tag"]
      BY <1>3, <1>7, BoardIs, BoardIsNext
    <3>4. \A q \in Stations : q # "snoop_ack" /\ q # "mem" /\ q # "tag" => Board'[q] = Board[q]
      BY <1>1, <1>2, SameStation DEF Stations
    <3>5. QED BY <1>8, <3>1, <3>2, <3>3, <3>4 DEF Shifted
  <2>3. "snoop_ack" \in Places /\ "mem" \in Places
    BY DEF Places, Stations
  <2>4. QED BY <1>4, <2>1, <2>2, <2>3, Moves
<1>17. Kept(t, "mem")'
  <2>1. Line(t)' = l /\ Requester(t)' = Requester(t)
    BY <1>1 DEF Line, Requester
  <2>2. Holders(Line(t))' = Holders(l)' /\ Owners(Line(t))' = Owners(l)' /\ Book(Line(t))' = Book(l)'
    BY <2>1 DEF Holders, Owners, Book, Present, TableEntry, Commanded
  <2>3. Others(t)' = {} /\ Owners(Line(t))' = {} /\ Book(Line(t))' = {Requester(t)'}
    BY <1>11, <1>14, <1>15, <2>1, <2>2 DEF Others
  <2>4. QED BY <1>10, <1>12, <2>1, <2>3 DEF Kept, Looking, Snooping, Alone
<1>18. \A s \in Slots : Kept(s, moved[s])'
  <2>1. \A k \in Lines : k # l => Spared(k)
    BY <1>14, <1>15 DEF Spared
  <2>2. \A c \in Commands' : c \in Commands \/ (c.paddr = l /\ SlotOf(c.drid) = t)
    BY <1>3, <1>5, <1>12
  <2>3. \A s \in Slots : s # t /\ where[s] # "none" => Undisturbed(s)
    BY <1>1, <1>5, <1>12, <2>1, <2>2, Elsewhere DEF SameRequest
  <2>4. QED BY <1>17, <2>3, AllKept
<1>19. Tables'
  <2>1. Distinct(entry_buf'[t].entry)
    BY <1>1 DEF Inv, Tables, PointersDistinct
  <2>2. c0.cmd # DR_CMD_UPDATE_ENTRY
    BY <1>3 DEF DR_CMD_NEW_ENTRY, DR_CMD_UPDATE_ENTRY
  <2>3. QED BY <1>1, <1>3, <1>5, <1>10, <1>12, <1>13, <2>1, <2>2, PostedTables
<1>20. Tracked'
  <2>1. Holders(l) \subseteq {Requester(t)}
    BY <1>11 DEF Others
  <2>2. QED BY <1>11, <1>14, <1>15, <2>1, WrittenTracked
<1>21. Asking'
  BY <1>1, <1>2, <1>12, KeepAsking
<1>22. Resting(moved)' /\ SlotsMatch' /\ Queues' /\ Quiet'
  BY <1>1, <1>2, <1>5, StillResting, KeepSlots, KeepQuiet
<1>23. Orders' /\ RepliesMatch'
  BY <1>1, <1>2, <1>7, <1>9 DEF Inv, Orders, NoDoubles, AnswerOrder, RepliesMatch, DispSlot
<1>24. RequestsOnly'
  BY DEF Inv, RequestsOnly
<1>25. QED
  BY <1>16, <1>18, <1>19, <1>20, <1>21, <1>22, <1>23, <1>24 DEF Inv, IInv, Whereabouts

-----------------------------------------------------------------------------
(* Answers.                                                                *)

(* The request of slot t is answered and its slot put up for release.      *)
Answering(t, m) ==
    /\ m = Answer(t, Line(t), AckOf(req_buf[t].cmd))
    /\ Room(ff.snack) /\ ff'.snack = Append(ff.snack, m)
    /\ Room(ff.release) /\ ff'.release = Append(ff.release, t)
    /\ req_buf' = req_buf /\ copy' = copy /\ asked' = asked

Answered(t, m) ==
    /\ WordsOf(ff'.snack) = WordsOf(ff.snack) \cup {m} /\ m.drid = 0 /\ m.paddr = Line(t)
    /\ Answers' = Answers \cup {m}
    /\ WordsOf(ff'.release) = WordsOf(ff.release) \cup {t}
    /\ NoDouble(ff'.snack) /\ NoDouble(ff'.release) /\ AnswerOrder'
    /\ \A k \in Lines : k # Line(t) => Holders(k)' = Holders(k) /\ Owners(k)' = Owners(k)
    /\ \A k \in Lines : k = Line(t) => Holders(k)' = Holders(k) \cup {Requester(t)}
    /\ \A k \in Lines : k = Line(t) =>
          Owners(k)' = Owners(k) \cup (IF req_buf[t].cmd = REQ_M THEN {Requester(t)} ELSE {})
    /\ Asking'

LEMMA AnswerStep ==
    ASSUME NEW where, Inv(where), NEW t \in Slots, where[t] \in {"disp", "memory"},
           NEW m, Answering(t, m)
    PROVE  Answered(t, m)
<1>1. /\ where[t] # "none" /\ where[t] # "release" /\ where[t] \in Asked /\ where[t] # "snack"
      /\ Kept(t, where[t])
  BY DEF Asked, Inv, Whereabouts
<1>2. /\ req_buf[t].valid /\ Requester(t) \in Nid /\ req_buf[t].cmd \in {REQ_S, REQ_M}
      /\ Line(t) \in Lines /\ Unanswered(t)
  BY <1>1, SlotFacts, NotYetAnswered
<1> PICK l \in Lines : l = Line(t)
  BY <1>2
<1>3. /\ m.drid = 0 /\ m.nid = Requester(t) /\ m.l2id = req_buf[t].l2id /\ m.paddr = l
      /\ m.snack = AckOf(req_buf[t].cmd)
  BY DEF Answering, Answer, Requester
<1>4. m \in Msg
  <2>1. req_buf[t].l2id \in L2id \cup {0}
    BY DEF Inv, Typed, RegistersOK, Outstanding
  <2>2. 0 \in Drid
    BY Positive DEF Drid
  <2>3. m = [drid |-> 0, nid |-> Requester(t), l2id |-> req_buf[t].l2id, paddr |-> l,
             snack |-> AckOf(req_buf[t].cmd)]
    BY DEF Answering, Answer, Requester
  <2>4. QED BY <1>2, <2>1, <2>2, <2>3 DEF Msg, Nodes, Snack, AckOf
<1>5. \A c \in WordsOf(ff.snack) : c.paddr # l
  <2>1. ASSUME NEW c \in WordsOf(ff.snack), c.drid = 0 PROVE c.paddr # l
    BY <1>1, <2>1 DEF Kept, Answers
  <2>2. ASSUME NEW c \in WordsOf(ff.snack), c.drid # 0 PROVE c.paddr # l
    <3>1. PICK s \in Slots : where[s] = "snack" /\ c = SnoopWord(s)
      BY <2>2, SnackAt
    <3>2. c.paddr = Line(s)
      BY <3>1 DEF SnoopWord, Snoop
    <3>3. QED BY <1>1, <3>1, <3>2, OneOfALine
  <2>3. QED BY <2>1, <2>2
<1>6. WordsOf(ff'.snack) = WordsOf(ff.snack) \cup {m} /\ NoDouble(ff'.snack) /\ AnswerOrder'
  <2>1. Room(ff.snack) /\ ff'.snack = Append(ff.snack, m) /\ m \notin WordsOf(ff.snack)
    BY <1>3, <1>5 DEF Answering
  <2>2. QED BY <1>3, <1>4, <1>5, <2>1, SnackPut
<1>7. WordsOf(ff'.release) = WordsOf(ff.release) \cup {t} /\ NoDouble(ff'.release)
  <2>1. Room(ff.release) /\ ff'.release = Append(ff.release, t) /\ t \notin WordsOf(ff.release)
    BY <1>1, Releasing DEF Answering
  <2>2. QED BY <2>1, ReleasePut
<1>8. Answers' = Answers \cup {m}
  BY <1>3, <1>6 DEF Answers
<1>9. copy' = copy /\ asked' = asked /\ req_buf' = req_buf
  BY DEF Answering
<1>10. \A k \in Lines : k # l => Holders(k)' = Holders(k) /\ Owners(k)' = Owners(k)
  BY <1>3, <1>8, <1>9 DEF Holders, Owners
<1>11. Holders(l)' = Holders(l) \cup {Requester(t)}
  BY <1>2, <1>3, <1>8, <1>9 DEF Holders
<1>12. Owners(l)' = Owners(l) \cup (IF req_buf[t].cmd = REQ_M THEN {Requester(t)} ELSE {})
  <2>1. m.snack = "ACK_M" <=> req_buf[t].cmd = REQ_M
    BY <1>2, <1>3 DEF AckOf, REQ_S, REQ_M
  <2>2. QED BY <1>2, <1>3, <1>8, <1>9, <2>1 DEF Owners
<1>13. /\ \A s \in Slots : Unanswered(s)' <=> Unanswered(s) /\ s # t
       /\ \A s \in Slots : RequestOf(s)' = RequestOf(s)
  BY <1>7, <1>9 DEF Unanswered, RequestOf, Requester, Line
<1>14. Asking
  BY DEF Inv
<1>rq. PICK rq : rq = RequestOf(t)
  OBVIOUS
<1>15. rq \in asked /\ IsAnswerTo(m, rq)
  <2>1. rq.nid = Requester(t) /\ rq.l2id = req_buf[t].l2id /\ rq.paddr = l /\ rq.cmd = req_buf[t].cmd
    BY <1>rq DEF RequestOf
  <2>2. rq \in asked
    BY <1>2, <1>14, <1>rq DEF Asking, HeldWasAsked
  <2>3. QED BY <1>3, <2>1, <2>2 DEF IsAnswerTo
<1>16. AskedOnce' /\ AskedLacks' /\ HeldWasAsked' /\ HeldOnce'
  BY <1>9, <1>13, <1>14 DEF Asking, AskedOnce, AskedLacks, HeldWasAsked, HeldOnce
<1>17. AnswerWasAsked'
  BY <1>8, <1>9, <1>14, <1>15 DEF Asking, AnswerWasAsked
<1>18. ASSUME NEW s \in Slots, Unanswered(s), s # t PROVE ~IsAnswerTo(m, RequestOf(s))
  <2> SUFFICES ASSUME IsAnswerTo(m, RequestOf(s)) PROVE FALSE
    OBVIOUS
  <2>o. PICK o : o = RequestOf(s)
    OBVIOUS
  <2>1. o \in asked /\ o.nid = rq.nid /\ o.l2id = rq.l2id
    BY <1>14, <1>15, <1>18, <2>o DEF Asking, HeldWasAsked, IsAnswerTo
  <2>2. o = rq
    BY <1>14, <1>15, <2>1 DEF Asking, AskedOnce
  <2>3. QED BY <1>2, <1>14, <1>18, <1>rq, <2>o, <2>2 DEF Asking, HeldOnce
<1>19. HeldOrAnswered'
  BY <1>8, <1>13, <1>14, <1>18 DEF Asking, HeldOrAnswered
<1>20. AskedIsHeld'
  <2>1. ASSUME NEW o \in asked
        PROVE  \/ \E s \in Slots : Unanswered(s)' /\ RequestOf(s)' = o
               \/ \E a \in Answers' : IsAnswerTo(a, o)
    <3>1. CASE \E s \in Slots : Unanswered(s) /\ RequestOf(s) = o
      BY <1>8, <1>13, <1>15, <1>rq, <3>1
    <3>2. CASE \E a \in Answers : IsAnswerTo(a, o)
      BY <1>8, <3>2
    <3>3. QED BY <1>14, <3>1, <3>2 DEF Asking, AskedIsHeld
  <2>2. QED BY <1>9, <2>1 DEF AskedIsHeld
<1>21. Asking'
  BY <1>16, <1>17, <1>19, <1>20 DEF Asking
<1>22. QED BY <1>3, <1>6, <1>7, <1>8, <1>10, <1>11, <1>12, <1>21 DEF Answered

LEMMA MemAckStep ==
    ASSUME NEW where, Inv(where), Typed', MemAck
    PROVE  IInv'
<1>m. PICK m \in memory :
      LET s == SlotOf(m.drid) IN
      /\ Room(ff.snack) /\ (m.drid # 0 => Room(ff.release))
      /\ ff' = IF m.drid = 0
               THEN [ff EXCEPT !.snack = Append(@, [drid |-> 0, nid |-> m.nid, l2id |-> 0,
                                                    paddr |-> m.paddr, snack |-> m.ack])]
               ELSE [ff EXCEPT !.snack = Append(@, Answer(s, req_buf[s].paddr, m.ack)),
                               !.release = Append(@, s)]
      /\ memory' = memory \ {m}
      /\ UNCHANGED <<req_buf, entry_buf, tags, entries, latch, l2, disp, snoop_ack>>
  BY DEF MemAck
<1>4. PICK t \in Slots : where[t] = "memory" /\ m = [drid |-> t + 1, nid |-> NoNid, paddr |-> Line(t),
                                                     ack |-> AckOf(req_buf[t].cmd)]
  BY MemoryAt
<1>5. Requester(t) \in Nid /\ t + 1 # 0 /\ SlotOf(t + 1) = t /\ where[t] # "none"
  BY <1>4, SlotFacts, SlotNames
<1> PICK l \in Lines : l = Line(t)
  BY SlotFacts
<1>a. PICK a : a = Answer(t, Line(t), AckOf(req_buf[t].cmd))
  OBVIOUS
<1> PICK moved : moved = [where EXCEPT ![t] = "release"]
  OBVIOUS
<1>1. /\ Room(ff.snack) /\ Room(ff.release)
      /\ ff' = [ff EXCEPT !.snack = Append(@, a), !.release = Append(@, t)]
      /\ entry_buf' = entry_buf
      /\ latch' = latch /\ req_buf' = req_buf /\ tags' = tags /\ entries' = entries
      /\ copy' = copy /\ asked' = asked /\ snoops' = snoops /\ disp' = disp
      /\ snoop_ack' = snoop_ack /\ memory' = memory \ {m}
  <2>1. m.drid = t + 1 /\ m.ack = AckOf(req_buf[t].cmd) /\ req_buf[t].paddr = Line(t)
    BY <1>4 DEF Line
  <2>2. QED BY <1>m, <1>5, <1>a, <2>1 DEF l2
<1>2. /\ ff'.entry = ff.entry /\ ff'.snack = Append(ff.snack, a) /\ ff'.tag_req = ff.tag_req
      /\ ff'.mem = ff.mem /\ ff'.disp_snack = ff.disp_snack /\ ff'.release = Append(ff.release, t)
      /\ ff'.pfreq = ff.pfreq
  BY <1>1, FlopFacts DEF QueueFlops
<1>3. Answered(t, a)
  <2>1. Answering(t, a)
    BY <1>1, <1>2, <1>a DEF Answering
  <2>2. QED BY <1>4, <2>1, AnswerStep
<1>6. Others(t) = {} /\ Owners(l) = {} /\ Book(l) = {Requester(t)}
  BY <1>4 DEF Inv, Whereabouts, Kept, Alone
<1>7. Commands' = Commands
  BY <1>2 DEF Commands
<1>8. /\ \A k \in Lines : Book(k)' = Book(k) /\ Present(k)' = Present(k)
  BY <1>1, <1>7, SameBook
<1>9. \A k \in Lines : k # l => Holders(k)' = Holders(k) /\ Owners(k)' = Owners(k)
  BY <1>3 DEF Answered
<1>10. Holders(l)' \subseteq {Requester(t)} /\ Owners(l)' \subseteq {Requester(t)}
  <2>1. Holders(l) \subseteq {Requester(t)}
    BY <1>6 DEF Others
  <2>2. QED BY <1>3, <1>6, <2>1 DEF Answered
<1>11. moved \in [Slots -> Places] /\ Posted(moved)'
  <2>1. SameWords(where, Wording, Wording', t)
    BY <1>1, KeepWording DEF SameRequest, Line, TableEntry
  <2>2. Wording["memory"][t] = m /\ Wording'["release"][t] = t
    BY <1>4, MemoryWord, ReleaseWord
  <2>3. Shifted(Board, Board', Wording, Wording', t, "memory", "release")
    <3>1. Board'["memory"] = Board["memory"] \ {m}
      BY <1>1, BoardIs, BoardIsNext
    <3>2. Board'["release"] = Board["release"] \cup {t}
      BY <1>3, BoardIs, BoardIsNext DEF Answered
    <3>3. Board'["snack"] = Board["snack"]
      BY <1>3, BoardIs, BoardIsNext DEF Answered
    <3>4. \A q \in Stations : q # "memory" /\ q # "release" /\ q # "snack" => Board'[q] = Board[q]
      BY <1>1, <1>2, SameStation DEF Stations
    <3>5. QED BY <2>2, <3>1, <3>2, <3>3, <3>4 DEF Shifted
  <2>4. "memory" \in Places /\ "release" \in Places
    BY DEF Places, Stations
  <2>5. QED BY <1>4, <2>1, <2>3, <2>4, Moves
<1>12. \A s \in Slots : Kept(s, moved[s])'
  <2>1. \A k \in Lines : k # l => Spared(k)
    BY <1>8, <1>9 DEF Spared
  <2>2. \A n \in Answers' : n \in Answers \/ n.paddr = l
    BY <1>3 DEF Answered
  <2>3. \A s \in Slots : s # t /\ where[s] # "none" => Undisturbed(s)
    BY <1>1, <1>5, <1>7, <2>1, <2>2, Elsewhere DEF SameRequest
  <2>4. Kept(t, "release")'
    BY DEF Kept, Looking, Asked, Snooping
  <2>5. QED BY <2>3, <2>4, AllKept
<1>13. Tables'
  BY <1>1, <1>7, KeepTables
<1>14. Tracked'
  <2>1. Tracked
    BY DEF Inv
  <2>2. QED BY <1>6, <1>8, <1>9, <1>10, <2>1 DEF Tracked
<1>15. Resting(moved)' /\ SlotsMatch' /\ Queues' /\ Quiet'
  BY <1>1, <1>2, <1>5, StillResting, KeepSlots, KeepQuiet
<1>16. Orders' /\ RepliesMatch' /\ Asking'
  BY <1>1, <1>2, <1>3 DEF Inv, Orders, NoDoubles, CommandOrder, RepliesMatch, DispSlot, Answered
<1>17. RequestsOnly'
  BY DEF Inv, RequestsOnly
<1>18. QED
  BY <1>11, <1>12, <1>13, <1>14, <1>15, <1>16, <1>17 DEF Inv, IInv, Whereabouts

(* A displacement that answers a snoop and ends the request: the line goes *)
(* to the requester, and the command says who has it now.                  *)
Closing(d, t, c0) ==
    /\ d \in disp /\ disp' = disp \ {d}
    /\ c0.drid = t + 1 /\ c0.paddr = Line(t) /\ c0.nid = Requester(t) /\ c0.dr_cmd
    /\ Room(ff.tag_req) /\ ff'.tag_req = Append(ff.tag_req, c0)
    /\ ff'.entry = ff.entry /\ ff'.mem = ff.mem /\ ff'.disp_snack = ff.disp_snack
    /\ ff'.pfreq = ff.pfreq
    /\ req_buf' = req_buf /\ tags' = tags /\ entries' = entries /\ latch' = latch
    /\ copy' = copy /\ asked' = asked /\ snoops' = snoops /\ snoop_ack' = snoop_ack
    /\ memory' = memory
    /\ \A s \in Slots : s # t => entry_buf'[s] = entry_buf[s]
    /\ Distinct(entry_buf'[t].entry)

LEMMA ClosingStep ==
    ASSUME NEW where, Inv(where), Typed', NEW d, NEW t \in Slots, where[t] = "disp", d.drid = t + 1,
           NEW c0 \in Stage, NEW a, Closing(d, t, c0), Answering(t, a),
           c0.cmd = DR_CMD_UPDATE_ENTRY => c0.nid \notin Known(entry_buf'[t].entry),
           NEW f, f = InternalEntry(c0)', NEW l \in Lines, l = Line(t),
           Others(t) \cup {Requester(t)} \subseteq Known(f), Owners(l) = {},
           req_buf[t].cmd = REQ_M => Known(f) = {Requester(t)}
    PROVE  IInv'
<1>1. /\ Requester(t) \in Nid /\ t + 1 \in Drid /\ t + 1 # 0 /\ SlotOf(t + 1) = t
      /\ where[t] # "none" /\ where[t] \in Looking
  BY SlotFacts, SlotNames DEF Looking
<1>2. /\ d \in disp /\ disp' = disp \ {d}
      /\ c0.drid = t + 1 /\ c0.paddr = l /\ c0.nid = Requester(t) /\ c0.dr_cmd
      /\ Room(ff.tag_req) /\ ff'.tag_req = Append(ff.tag_req, c0)
      /\ ff'.entry = ff.entry /\ ff'.mem = ff.mem /\ ff'.disp_snack = ff.disp_snack
      /\ ff'.pfreq = ff.pfreq
      /\ req_buf' = req_buf /\ tags' = tags /\ entries' = entries /\ latch' = latch
      /\ copy' = copy /\ asked' = asked /\ snoops' = snoops /\ snoop_ack' = snoop_ack
      /\ memory' = memory
      /\ \A s \in Slots : s # t => entry_buf'[s] = entry_buf[s]
      /\ Distinct(entry_buf'[t].entry)
  BY DEF Closing
<1> PICK moved : moved = [where EXCEPT ![t] = "release"]
  OBVIOUS
<1>3. Answered(t, a)
  BY AnswerStep
<1>4. \A c \in WordsOf(ff.tag_req) : c.paddr # c0.paddr /\ c.drid # c0.drid
  BY <1>1, <1>2, CommandMayFollow
<1>5. /\ WordsOf(ff'.tag_req) = WordsOf(ff.tag_req) \cup {c0} /\ NoDouble(ff'.tag_req) /\ CommandOrder'
  BY <1>2, <1>4, TagPut
<1>6. Commands' = Commands \cup {c0}
  BY <1>2, <1>5 DEF Commands
<1>7. Present(l) /\ \A c \in Commands : c.paddr # l /\ SlotOf(c.drid) # t
  BY <1>1, NoCommandFor
<1>8. /\ Book(l)' = Known(f) \cap Nid /\ \A k \in Lines : k # l => Book(k)' = Book(k)
      /\ \A k \in Lines : Present(k)' = Present(k)
  BY <1>1, <1>2, <1>6, <1>7, PostedBook
<1>9. \A k \in Lines : k # l => Holders(k)' = Holders(k) /\ Owners(k)' = Owners(k)
  BY <1>3 DEF Answered
<1>10. Holders(l)' \subseteq Book(l)' /\ \A n \in Owners(l)' : Book(l)' \subseteq {n}
  <2>1. Holders(l)' = Holders(l) \cup {Requester(t)}
    BY <1>3 DEF Answered
  <2>2. Holders(l) \subseteq Others(t) \cup {Requester(t)} /\ Holders(l) \subseteq Nid
    BY DEF Others, Holders
  <2>3. Holders(l)' \subseteq Book(l)'
    BY <1>1, <1>8, <2>1, <2>2
  <2>4. Owners(l)' = IF req_buf[t].cmd = REQ_M THEN {Requester(t)} ELSE {}
    BY <1>3 DEF Answered
  <2>5. QED BY <1>8, <2>3, <2>4
<1>11. moved \in [Slots -> Places] /\ Posted(moved)'
  <2>1. SameWords(where, Wording, Wording', t)
    BY <1>2, KeepWording DEF SameRequest, Line, TableEntry
  <2>2. Wording["disp"][t] = t + 1 /\ Wording'["release"][t] = t
    BY DispWord, ReleaseWord
  <2>3. Shifted(Board, Board', Wording, Wording', t, "disp", "release")
    <3>1. Board'["disp"] = Board["disp"] \ {t + 1}
      <4>1. \A o \in disp : o.drid = t + 1 => o = d
        BY <1>2 DEF Inv, RepliesMatch
      <4>2. {o.drid : o \in disp'} = {o.drid : o \in disp} \ {t + 1}
        BY <1>2, <4>1
      <4>3. QED BY <4>2, BoardIs, BoardIsNext
    <3>2. Board'["release"] = Board["release"] \cup {t}
      BY <1>3, BoardIs, BoardIsNext DEF Answered
    <3>3. Board'["snack"] = Board["snack"]
      BY <1>3, BoardIs, BoardIsNext DEF Answered
    <3>4. Board'["tag"] = Board["tag"]
      BY <1>2, <1>5, BoardIs, BoardIsNext
    <3>5. \A q \in Stations : q # "disp" /\ q # "release" /\ q # "snack" /\ q # "tag" => Board'[q] = Board[q]
      BY <1>2, SameStation DEF Stations
    <3>6. QED BY <2>2, <3>1, <3>2, <3>3, <3>4, <3>5 DEF Shifted
  <2>4. "disp" \in Places /\ "release" \in Places
    BY DEF Places, Stations
  <2>5. QED BY <2>1, <2>3, <2>4, Moves
<1>12. \A s \in Slots : Kept(s, moved[s])'
  <2>1. \A k \in Lines : k # l => Spared(k)
    BY <1>8, <1>9 DEF Spared
  <2>2. /\ \A n \in Answers' : n \in Answers \/ n.paddr = l
        /\ \A c \in Commands' : c \in Commands \/ (c.paddr = l /\ SlotOf(c.drid) = t)
    BY <1>1, <1>2, <1>3, <1>6 DEF Answered
  <2>3. \A s \in Slots : s # t /\ where[s] # "none" => Undisturbed(s)
    BY <1>1, <1>2, <2>1, <2>2, Elsewhere DEF SameRequest
  <2>4. Kept(t, "release")'
    BY DEF Kept, Looking, Asked, Snooping
  <2>5. QED BY <2>3, <2>4, AllKept
<1>13. Tables'
  BY <1>1, <1>2, <1>6, <1>7, PostedTables
<1>14. Tracked'
  <2>1. Tracked
    BY DEF Inv
  <2>2. QED BY <1>8, <1>9, <1>10, <2>1 DEF Tracked
<1>15. Resting(moved)' /\ SlotsMatch' /\ Queues' /\ Quiet'
  BY <1>1, <1>2, StillResting, KeepSlots, KeepQuiet
<1>16. Orders' /\ RepliesMatch' /\ Asking'
  BY <1>2, <1>3, <1>5 DEF Inv, Orders, NoDoubles, RepliesMatch, DispSlot, Answered
<1>17. RequestsOnly'
  BY DEF Inv, RequestsOnly
<1>18. QED
  BY <1>11, <1>12, <1>13, <1>14, <1>15, <1>16, <1>17 DEF Inv, IInv, Whereabouts

(* What the data of a node leaves of the slot's copy of the entry.         *)
LEMMA EntryAfter ==
    ASSUME NEW where, Inv(where), NEW d \in disp, NEW t \in Slots, DispSlot(d) = t,
           entry_buf' = EntryBufAfter(d),
           NEW e, e = IF d.dcmd = "WI" THEN Cleared(t) ELSE entry_buf[t].entry
    PROVE  /\ entry_buf'[t].entry = e /\ e \in Entry /\ Distinct(e)
           /\ Known(e) \subseteq Known(entry_buf[t].entry)
           /\ \A s \in Slots : s # t => entry_buf'[s] = entry_buf[s]
<1>1. entry_buf \in [Slots -> SnoopState]
  BY DEF Inv, Typed, RegistersOK
<1>2. e \in Entry /\ Distinct(e) /\ Known(e) \subseteq Known(entry_buf[t].entry)
  <2>1. /\ entry_buf[t].entry \in Entry /\ Cleared(t) \in Entry
        /\ Distinct(entry_buf[t].entry) /\ Distinct(Cleared(t))
        /\ Known(Cleared(t)) \subseteq Known(entry_buf[t].entry)
    BY ClearedIs
  <2>2. QED BY <2>1
<1>3. /\ entry_buf'[t].entry = e
      /\ \A s \in Slots : s # t => entry_buf'[s] = entry_buf[s]
  <2>1. CASE d.dcmd # "WI"
    BY <2>1 DEF EntryBufAfter
  <2>2. CASE d.dcmd = "WI"
    <3>1. \E pos : entry_buf' = [entry_buf EXCEPT ![t] = [pos |-> pos, entry |-> e]]
      BY <2>2 DEF EntryBufAfter
    <3>2. QED BY <1>1, <3>1
  <2>3. QED BY <2>1, <2>2
<1>4. QED BY <1>2, <1>3

LEMMA SharedStep ==
    ASSUME NEW where, Inv(where), Typed', DispShared
    PROVE  IInv'
<1>d. PICK d \in disp :
      LET s == DispSlot(d) IN
      /\ d.drid # 0 /\ req_buf[s].cmd = REQ_S /\ d.dcmd \in {"WI", "WS"}
      /\ Room(ff.snack) /\ Room(ff.tag_req) /\ Room(ff.release)
      /\ ~entry_buf[s].entry.shared => Room(ff.wb)
      /\ ff' = [ff EXCEPT !.dack = DackIfRoom(@, d), !.wb = WritebackIfPrivate(s, d),
                      !.snack = Append(@, Answer(s, req_buf[s].paddr, "ACK_S")),
                      !.tag_req = Append(@, Internal(s, d.drid, DR_CMD_UPDATE_ENTRY)),
                      !.release = Append(@, s)]
      /\ entry_buf' = EntryBufAfter(d) /\ req_buf' = ReqBufAfter(d, FALSE)
      /\ disp' = disp \ {d}
      /\ UNCHANGED <<tags, entries, latch, l2, snoop_ack, memory>>
  BY DEF DispShared
<1>4. PICK t \in Slots : where[t] = "disp" /\ d.drid = t + 1 /\ DispSlot(d) = t
  BY DispAt
<1>5. /\ Requester(t) \in Nid /\ t + 1 \in Drid /\ where[t] # "none" /\ req_buf[t].cmd = REQ_S
  BY <1>d, <1>4, SlotFacts, SlotNames
<1> PICK l \in Lines : l = Line(t)
  BY SlotFacts
<1>a. PICK a : a = Answer(t, Line(t), AckOf(req_buf[t].cmd))
  OBVIOUS
<1>c. PICK c0 : c0 = Internal(t, t + 1, DR_CMD_UPDATE_ENTRY)
  OBVIOUS
<1>e. PICK e : e = IF d.dcmd = "WI" THEN Cleared(t) ELSE entry_buf[t].entry
  OBVIOUS
<1>1. /\ Room(ff.snack) /\ Room(ff.tag_req) /\ Room(ff.release)
      /\ ff' = [ff EXCEPT !.dack = DackIfRoom(@, d), !.wb = WritebackIfPrivate(t, d),
                      !.snack = Append(@, a), !.tag_req = Append(@, c0), !.release = Append(@, t)]
      /\ entry_buf' = EntryBufAfter(d) /\ req_buf' = req_buf
      /\ disp' = disp \ {d}
      /\ latch' = latch /\ tags' = tags /\ entries' = entries
      /\ copy' = copy /\ asked' = asked /\ snoops' = snoops /\ snoop_ack' = snoop_ack
      /\ memory' = memory
  <2>1. AckOf(req_buf[t].cmd) = "ACK_S" /\ req_buf[t].paddr = Line(t)
    BY <1>5 DEF AckOf, Line
  <2>2. ReqBufAfter(d, FALSE) = req_buf
    BY DEF ReqBufAfter, Inv, Quiet
  <2>3. QED BY <1>d, <1>4, <1>a, <1>c, <2>1, <2>2 DEF l2
<1>2. /\ ff'.entry = ff.entry /\ ff'.snack = Append(ff.snack, a) /\ ff'.tag_req = Append(ff.tag_req, c0)
      /\ ff'.mem = ff.mem /\ ff'.disp_snack = ff.disp_snack /\ ff'.release = Append(ff.release, t)
      /\ ff'.pfreq = ff.pfreq
  BY <1>1, FlopFacts DEF QueueFlops
<1>3. /\ c0.dr_cmd /\ c0.cmd = DR_CMD_UPDATE_ENTRY /\ c0.paddr = l /\ c0.nid = Requester(t)
      /\ c0.drid = t + 1 /\ c0 \in Stage
  <2>1. c0 = StageOf(TRUE, DR_CMD_UPDATE_ENTRY, l, Requester(t), t + 1)
    BY <1>c DEF Internal, Line, Requester
  <2>2. QED BY <1>5, <2>1 DEF StageOf, Stage, Nodes, DR_CMD_UPDATE_ENTRY
<1>6. /\ entry_buf'[t].entry = e /\ e \in Entry /\ Distinct(e)
      /\ Known(e) \subseteq Known(entry_buf[t].entry)
      /\ \A s \in Slots : s # t => entry_buf'[s] = entry_buf[s]
  BY <1>1, <1>4, <1>e, EntryAfter
<1>7. Replied(d) /\ Requester(t) \notin Known(entry_buf[t].entry)
  BY <1>4 DEF Inv, Whereabouts, Kept, Snooping
<1>8. Owners(l) = {} /\ Others(t) \subseteq Known(e)
  BY <1>4, <1>7, <1>e DEF Replied
<1>f. PICK f : f = InternalEntry(c0)'
  OBVIOUS
<1>9. Known(f) = Known(e) \cup {Requester(t)}
  <2>1. SlotOf(c0.drid) = t
    BY <1>3, SlotNames
  <2>2. f = UpdatedEntry(e, Requester(t))
    BY <1>3, <1>6, <1>f, <2>1 DEF InternalEntry
  <2>3. QED BY <1>5, <1>6, <1>7, <2>2, UpdatedKnows DEF Inv, RequestsOnly
<1>10. Closing(d, t, c0) /\ Answering(t, a)
  BY <1>1, <1>2, <1>3, <1>6, <1>a DEF Closing, Answering
<1>11. /\ c0.cmd = DR_CMD_UPDATE_ENTRY => c0.nid \notin Known(entry_buf'[t].entry)
       /\ Others(t) \cup {Requester(t)} \subseteq Known(f)
       /\ req_buf[t].cmd = REQ_M => Known(f) = {Requester(t)}
  BY <1>3, <1>5, <1>6, <1>7, <1>8, <1>9 DEF REQ_S, REQ_M
<1>12. QED BY <1>3, <1>4, <1>8, <1>10, <1>11, <1>f, ClosingStep

LEMMA OwnerStep ==
    ASSUME NEW where, Inv(where), Typed', DispOwner
    PROVE  IInv'
<1>d. PICK d \in disp :
      LET s == DispSlot(d) IN
      /\ d.drid # 0 /\ req_buf[s].cmd = REQ_M /\ d.dcmd = "WI"
      /\ Used(Cleared(s)) = {} /\ ~req_buf[s].found
      /\ Room(ff.snack) /\ Room(ff.tag_req) /\ Room(ff.release) /\ Room(ff.wb)
      /\ ff' = [ff EXCEPT !.dack = DackIfRoom(@, d), !.wb = Append(@, d.paddr),
                      !.snack = Append(@, Answer(s, req_buf[s].paddr, "ACK_M")),
                      !.tag_req = Append(@, Internal(s, d.drid, DR_CMD_NEW_ENTRY)),
                      !.release = Append(@, s)]
      /\ entry_buf' = EntryBufAfter(d) /\ req_buf' = ReqBufAfter(d, FALSE)
      /\ disp' = disp \ {d}
      /\ UNCHANGED <<tags, entries, latch, l2, snoop_ack, memory>>
  BY DEF DispOwner
<1>4. PICK t \in Slots : where[t] = "disp" /\ d.drid = t + 1 /\ DispSlot(d) = t
  BY DispAt
<1>5. /\ Requester(t) \in Nid /\ t + 1 \in Drid /\ where[t] # "none" /\ req_buf[t].cmd = REQ_M
  BY <1>d, <1>4, SlotFacts, SlotNames
<1> PICK l \in Lines : l = Line(t)
  BY SlotFacts
<1>a. PICK a : a = Answer(t, Line(t), AckOf(req_buf[t].cmd))
  OBVIOUS
<1>c. PICK c0 : c0 = Internal(t, t + 1, DR_CMD_NEW_ENTRY)
  OBVIOUS
<1>e. PICK e : e = IF d.dcmd = "WI" THEN Cleared(t) ELSE entry_buf[t].entry
  OBVIOUS
<1>1. /\ Room(ff.snack) /\ Room(ff.tag_req) /\ Room(ff.release)
      /\ ff' = [ff EXCEPT !.dack = DackIfRoom(@, d), !.wb = Append(@, d.paddr),
                      !.snack = Append(@, a), !.tag_req = Append(@, c0), !.release = Append(@, t)]
      /\ entry_buf' = EntryBufAfter(d) /\ req_buf' = req_buf
      /\ disp' = disp \ {d}
      /\ latch' = latch /\ tags' = tags /\ entries' = entries
      /\ copy' = copy /\ asked' = asked /\ snoops' = snoops /\ snoop_ack' = snoop_ack
      /\ memory' = memory
  <2>1. AckOf(req_buf[t].cmd) = "ACK_M" /\ req_buf[t].paddr = Line(t)
    BY <1>5 DEF AckOf, Line, REQ_S, REQ_M
  <2>2. ReqBufAfter(d, FALSE) = req_buf
    BY DEF ReqBufAfter, Inv, Quiet
  <2>3. QED BY <1>d, <1>4, <1>a, <1>c, <2>1, <2>2 DEF l2
<1>2. /\ ff'.entry = ff.entry /\ ff'.snack = Append(ff.snack, a) /\ ff'.tag_req = Append(ff.tag_req, c0)
      /\ ff'.mem = ff.mem /\ ff'.disp_snack = ff.disp_snack /\ ff'.release = Append(ff.release, t)
      /\ ff'.pfreq = ff.pfreq
  BY <1>1, FlopFacts DEF QueueFlops
<1>3. /\ c0.dr_cmd /\ c0.cmd = DR_CMD_NEW_ENTRY /\ c0.paddr = l /\ c0.nid = Requester(t)
      /\ c0.drid = t + 1 /\ c0 \in Stage
  <2>1. c0 = StageOf(TRUE, DR_CMD_NEW_ENTRY, l, Requester(t), t + 1)
    BY <1>c DEF Internal, Line, Requester
  <2>2. QED BY <1>5, <2>1 DEF StageOf, Stage, Nodes, DR_CMD_NEW_ENTRY
<1>6. /\ entry_buf'[t].entry = e /\ e \in Entry /\ Distinct(e)
      /\ Known(e) \subseteq Known(entry_buf[t].entry)
      /\ \A s \in Slots : s # t => entry_buf'[s] = entry_buf[s]
  BY <1>1, <1>4, <1>e, EntryAfter
<1>7. Replied(d)
  BY <1>4 DEF Inv, Whereabouts, Kept
<1>8. Owners(l) = {} /\ Others(t) = {}
  BY <1>4, <1>5, <1>7 DEF Replied
<1>f. PICK f : f = InternalEntry(c0)'
  OBVIOUS
<1>9. Known(f) = {Requester(t)}
  <2>1. f = NewEntry(c0.nid, c0.cmd # REQ_M)
    BY <1>3, <1>f DEF InternalEntry, tag_miss_entry, DR_CMD_NEW_ENTRY, DR_CMD_UPDATE_ENTRY
  <2>2. QED BY <1>3, <1>5, <2>1, NewKnows
<1>10. Closing(d, t, c0) /\ Answering(t, a)
  BY <1>1, <1>2, <1>3, <1>6, <1>a DEF Closing, Answering
<1>11. /\ c0.cmd = DR_CMD_UPDATE_ENTRY => c0.nid \notin Known(entry_buf'[t].entry)
       /\ Others(t) \cup {Requester(t)} \subseteq Known(f)
  BY <1>3, <1>8, <1>9 DEF DR_CMD_NEW_ENTRY, DR_CMD_UPDATE_ENTRY
<1>12. QED BY <1>3, <1>4, <1>8, <1>9, <1>10, <1>11, <1>f, ClosingStep

-----------------------------------------------------------------------------
(* Memory and the L2s.                                                     *)

LEMMA MemTakesStep ==
    ASSUME NEW where, Inv(where), Typed', MemTakesRequest
    PROVE  IInv'
<1>h. PICK h : h = Head(ff.mem)
  OBVIOUS
<1>y. PICK y : \E n \in Nodes : /\ h.drid # 0 => n = NoNid
                                /\ y = [drid |-> h.drid, nid |-> n, paddr |-> h.paddr, ack |-> AckOf(h.cmd)]
                                /\ memory' = memory \cup {y}
  BY <1>h DEF MemTakesRequest
<1>1. /\ ff.mem # << >> /\ ff' = [ff EXCEPT !.mem = Tail(@)] /\ memory' = memory \cup {y}
      /\ entry_buf' = entry_buf
      /\ latch' = latch /\ req_buf' = req_buf /\ tags' = tags /\ entries' = entries
      /\ copy' = copy /\ asked' = asked /\ snoops' = snoops /\ disp' = disp
      /\ snoop_ack' = snoop_ack
  BY <1>y DEF MemTakesRequest, l2
<1>2. /\ ff'.entry = ff.entry /\ ff'.snack = ff.snack /\ ff'.tag_req = ff.tag_req
      /\ ff'.mem = Tail(ff.mem) /\ ff'.disp_snack = ff.disp_snack /\ ff'.release = ff.release
      /\ ff'.pfreq = ff.pfreq
  BY <1>1, FlopFacts DEF QueueFlops
<1>3. /\ h \in WordsOf(ff.mem) /\ WordsOf(ff'.mem) = WordsOf(ff.mem) \ {h} /\ NoDouble(ff'.mem)
  BY <1>1, <1>2, <1>h, MemGet
<1>4. PICK t \in Slots : where[t] = "mem" /\ h = [drid |-> t + 1, paddr |-> Line(t), cmd |-> req_buf[t].cmd]
  BY <1>3, MemAt
<1>5. t + 1 # 0 /\ where[t] # "none"
  BY <1>4, SlotNames
<1> PICK l \in Lines : l = Line(t)
  BY SlotFacts
<1> PICK moved : moved = [where EXCEPT ![t] = "memory"]
  OBVIOUS
<1>6. y = [drid |-> t + 1, nid |-> NoNid, paddr |-> Line(t), ack |-> AckOf(req_buf[t].cmd)]
  BY <1>4, <1>5, <1>y
<1>7. Commands' = Commands /\ Answers' = Answers
  BY <1>2 DEF Commands, Answers
<1>8. \A k \in Lines : Spared(k)
  BY <1>1, <1>7, SparedAll
<1>9. moved \in [Slots -> Places] /\ Posted(moved)'
  <2>1. SameWords(where, Wording, Wording', t)
    BY <1>1, KeepWording DEF SameRequest, Line, TableEntry
  <2>2. Wording["mem"][t] = h /\ Wording'["memory"][t] = y
    <3>1. Line(t)' = Line(t) /\ req_buf'[t].cmd = req_buf[t].cmd
      BY <1>1 DEF Line
    <3>2. QED BY <1>4, <1>6, <3>1, MemoryWord, MemWord
  <2>3. Shifted(Board, Board', Wording, Wording', t, "mem", "memory")
    <3>1. Board'["mem"] = Board["mem"] \ {h}
      BY <1>3, BoardIs, BoardIsNext
    <3>2. Board'["memory"] = Board["memory"] \cup {y}
      BY <1>1, BoardIs, BoardIsNext
    <3>3. \A q \in Stations : q # "mem" /\ q # "memory" => Board'[q] = Board[q]
      BY <1>1, <1>2, SameStation DEF Stations
    <3>4. QED BY <2>2, <3>1, <3>2, <3>3 DEF Shifted
  <2>4. "mem" \in Places /\ "memory" \in Places
    BY DEF Places, Stations
  <2>5. QED BY <1>4, <2>1, <2>3, <2>4, Moves
<1>10. Kept(t, "memory")'
  <2>1. Kept(t, "mem")
    BY <1>4 DEF Inv, Whereabouts
  <2>2. Line(t)' = Line(t) /\ Requester(t)' = Requester(t)
    BY <1>1 DEF Line, Requester
  <2>3. Holders(Line(t))' = Holders(Line(t)) /\ Owners(Line(t))' = Owners(Line(t))
    BY <1>1, <1>7, <2>2 DEF Holders, Owners
  <2>4. Book(Line(t))' = Book(Line(t))
    BY <1>1, <1>7, <2>2 DEF Book, Commanded, Present, TableEntry, InternalEntry, tag_miss_entry
  <2>5. Alone(t)'
    BY <2>1, <2>2, <2>3, <2>4 DEF Kept, Alone, Others
  <2>6. QED BY <1>7, <2>1, <2>2, <2>5 DEF Kept, Looking, Snooping, Asked
<1>11. \A s \in Slots : Kept(s, moved[s])'
  <2>1. \A s \in Slots : s # t /\ where[s] # "none" => Undisturbed(s)
    BY <1>1, <1>5, <1>7, <1>8, Elsewhere DEF SameRequest
  <2>2. QED BY <1>10, <2>1, AllKept
<1>12. Tables' /\ Tracked'
  BY <1>1, <1>7, <1>8, KeepTables, Shrinks DEF Spared
<1>13. Asking'
  BY <1>1, <1>2, <1>7, KeepAsking
<1>14. RepliesMatch' /\ Quietly
  BY <1>1, <1>2, <1>3, <1>7 DEF Inv, Orders, NoDoubles, AnswerOrder, RepliesMatch, DispSlot, Quietly
<1>15. QED BY <1>5, <1>9, <1>11, <1>12, <1>13, <1>14, QuietStep

(* The node a slot snoops is one of the nodes.                             *)
LEMMA WhoIsNode ==
    ASSUME NEW where, Inv(where), NEW t \in Slots, where[t] \in {"snack", "snoops"}
    PROVE  Who(t) \in Nid
<1>1. Asks(t) /\ Requester(t) \in Nid
  BY SlotFacts DEF Inv, Whereabouts, Kept
<1>e. PICK e : e = entry_buf[t].entry
  OBVIOUS
<1>2. e \in Entry
  BY <1>e DEF Inv, Typed, RegistersOK, SnoopState
<1>3. CASE Used(e) = {}
  BY <1>1, <1>3, <1>e DEF Who
<1>4. CASE Used(e) # {}
  <2>1. Who(t) = e.nid[entry_buf[t].pos] /\ entry_buf[t].pos \in Used(e)
    BY <1>1, <1>4, <1>e DEF Who, Asks
  <2>2. Who(t) \in Known(e)
    BY <2>1 DEF Known
  <2>3. QED BY <1>2, <2>2, KnownNodes
<1>5. QED BY <1>3, <1>4

LEMMA TakesSnoopStep ==
    ASSUME NEW where, Inv(where), Typed', L2TakesSnoop
    PROVE  IInv'
<1>h. PICK h : h = Head(ff.snack)
  OBVIOUS
<1>1. /\ ff.snack # << >> /\ h.drid # 0 /\ ff' = [ff EXCEPT !.snack = Tail(@)]
      /\ snoops' = IF h.nid \in Nid THEN snoops \cup {h} ELSE snoops
      /\ entry_buf' = entry_buf
      /\ latch' = latch /\ req_buf' = req_buf /\ tags' = tags /\ entries' = entries
      /\ copy' = copy /\ asked' = asked /\ memory' = memory /\ disp' = disp
      /\ snoop_ack' = snoop_ack
  BY <1>h DEF L2TakesSnoop
<1>2. /\ ff'.entry = ff.entry /\ ff'.snack = Tail(ff.snack) /\ ff'.tag_req = ff.tag_req
      /\ ff'.mem = ff.mem /\ ff'.disp_snack = ff.disp_snack /\ ff'.release = ff.release
      /\ ff'.pfreq = ff.pfreq
  BY <1>1, FlopFacts DEF QueueFlops
<1>3. /\ h \in WordsOf(ff.snack) /\ h \notin WordsOf(ff'.snack)
      /\ WordsOf(ff.snack) = WordsOf(ff'.snack) \cup {h} /\ NoDouble(ff'.snack) /\ AnswerOrder'
      /\ \A c \in WordsOf(ff'.snack) : c.drid = 0 => c.paddr # h.paddr
  BY <1>1, <1>2, <1>h, SnackGet
<1>4. PICK t \in Slots : where[t] = "snack" /\ h = SnoopWord(t)
  BY <1>1, <1>3, SnackAt
<1>5. t + 1 # 0 /\ where[t] # "none" /\ h.paddr = Line(t) /\ h.nid = Who(t) /\ h.drid = t + 1
  BY <1>4, SlotNames DEF SnoopWord, Snoop
<1>6. snoops' = snoops \cup {h}
  BY <1>1, <1>4, <1>5, WhoIsNode
<1> PICK l \in Lines : l = Line(t)
  BY SlotFacts
<1> PICK moved : moved = [where EXCEPT ![t] = "snoops"]
  OBVIOUS
<1>7. Commands' = Commands /\ Answers' = Answers
  BY <1>1, <1>2, <1>3 DEF Commands, Answers
<1>8. \A k \in Lines : Spared(k)
  BY <1>1, <1>7, SparedAll
<1>9. moved \in [Slots -> Places] /\ Posted(moved)'
  <2>1. SameWords(where, Wording, Wording', t)
    BY <1>1, KeepWording DEF SameRequest, Line, TableEntry
  <2>2. Wording["snack"][t] = h /\ Wording'["snoops"][t] = h
    <3>1. SnoopWord(t)' = SnoopWord(t)
      BY <1>1 DEF SnoopWord, Who, Line, Requester
    <3>2. QED BY <1>4, <3>1, SnackWord, SnoopsWord
  <2>3. Shifted(Board, Board', Wording, Wording', t, "snack", "snoops")
    <3>1. Board'["snack"] = Board["snack"] \ {h}
      BY <1>3, BoardIs, BoardIsNext
    <3>2. Board'["snoops"] = Board["snoops"] \cup {h}
      BY <1>6, BoardIs, BoardIsNext
    <3>3. \A q \in Stations : q # "snack" /\ q # "snoops" => Board'[q] = Board[q]
      BY <1>1, <1>2, SameStation DEF Stations
    <3>4. QED BY <2>2, <3>1, <3>2, <3>3 DEF Shifted
  <2>4. "snack" \in Places /\ "snoops" \in Places
    BY DEF Places, Stations
  <2>5. QED BY <1>4, <2>1, <2>3, <2>4, Moves
<1>10. Kept(t, "snoops")'
  <2>1. Kept(t, "snack")
    BY <1>4 DEF Inv, Whereabouts
  <2>2. Undisturbed(t)
    <3>1. Line(t)' = Line(t) /\ Requester(t)' = Requester(t)
      BY <1>1 DEF Line, Requester
    <3>2. Spared(l)
      BY <1>8
    <3>3. QED BY <1>1, <1>7, <3>1, <3>2, SparedIs DEF Undisturbed
  <2>3. Kept(t, "snack")'
    BY <2>1, <2>2, KeptStays
  <2>4. \A m \in Answers' : Line(t)' # m.paddr
    BY <1>3, <1>5, <2>2 DEF Answers, Undisturbed
  <2>5. QED BY <2>3, <2>4 DEF Kept, Looking, Snooping, Asked
<1>11. \A s \in Slots : Kept(s, moved[s])'
  <2>1. \A s \in Slots : s # t /\ where[s] # "none" => Undisturbed(s)
    BY <1>1, <1>5, <1>7, <1>8, Elsewhere DEF SameRequest
  <2>2. QED BY <1>10, <2>1, AllKept
<1>12. Tables' /\ Tracked'
  BY <1>1, <1>7, <1>8, KeepTables, Shrinks DEF Spared
<1>13. Asking'
  BY <1>1, <1>2, <1>7, KeepAsking
<1>14. RepliesMatch' /\ Quietly
  BY <1>1, <1>2, <1>3, <1>7 DEF Inv, Orders, NoDoubles, RepliesMatch, DispSlot, Quietly
<1>15. QED BY <1>5, <1>9, <1>11, <1>12, <1>13, <1>14, QuietStep

(* A step that moves no request and leaves the bank's registers alone.     *)
Unmoved ==
    /\ req_buf' = req_buf /\ entry_buf' = entry_buf /\ tags' = tags /\ entries' = entries
    /\ latch' = latch
    /\ ff'.tag_req = ff.tag_req /\ ff'.entry = ff.entry /\ ff'.mem = ff.mem
    /\ ff'.disp_snack = ff.disp_snack /\ ff'.release = ff.release /\ ff'.pfreq = ff.pfreq
    /\ snoops' = snoops /\ disp' = disp /\ snoop_ack' = snoop_ack /\ memory' = memory

LEMMA StayStep ==
    ASSUME NEW where, Inv(where), Typed', Unmoved, NoDouble(ff'.snack), AnswerOrder',
           Board'["snack"] = Board["snack"], Answers' \subseteq Answers, Asking',
           \A l \in Lines : Holders(l)' \subseteq Holders(l) /\ Owners(l)' \subseteq Owners(l)
    PROVE  IInv'
<1>1. /\ req_buf' = req_buf /\ entry_buf' = entry_buf /\ tags' = tags /\ entries' = entries
      /\ latch' = latch
      /\ ff'.tag_req = ff.tag_req /\ ff'.entry = ff.entry /\ ff'.mem = ff.mem
      /\ ff'.disp_snack = ff.disp_snack /\ ff'.release = ff.release /\ ff'.pfreq = ff.pfreq
      /\ snoops' = snoops /\ disp' = disp /\ snoop_ack' = snoop_ack /\ memory' = memory
  BY DEF Unmoved
<1>2. Commands' = Commands
  BY <1>1 DEF Commands
<1>3. \A k \in Lines : Spared(k)
  BY <1>1, <1>2, SameBook DEF Spared
<1>4. where \in [Slots -> Places] /\ Posted(where)'
  <2>1. PICK t : t = NumSlots
    OBVIOUS
  <2>2. \A s \in Slots : s # t
    BY <2>1, Positive DEF Slots
  <2>3. SameWords(where, Wording, Wording', t)
    BY <1>1, KeepWording DEF SameRequest, Line, TableEntry
  <2>4. \A p \in Stations : Board'[p] = Board[p]
    BY <1>1, SameStation DEF Stations
  <2>5. QED BY <2>2, <2>3, <2>4, Stays
<1>5. \A s \in Slots : Kept(s, where[s])'
  <2>1. \A s \in Slots : where[s] # "none" => Undisturbed(s)
    BY <1>1, <1>2, <1>3, Everywhere DEF SameRequest
  <2>2. QED BY <2>1, AllStay
<1>6. Tables' /\ Tracked'
  BY <1>1, <1>2, <1>3, KeepTables, Shrinks DEF Spared
<1>7. Resting(where)' /\ SlotsMatch' /\ Queues' /\ Quiet'
  <2>1. \A s \in Slots : Active(s)' = Active(s)
    BY <1>1, KeepSlots
  <2>2. Resting(where)'
    BY <2>1 DEF Inv, Whereabouts, Resting
  <2>3. QED BY <1>1, <2>2, KeepSlots, KeepQuiet
<1>8. Orders' /\ RepliesMatch'
  BY <1>1 DEF Inv, Orders, NoDoubles, CommandOrder, RepliesMatch, DispSlot
<1>9. RequestsOnly'
  BY DEF Inv, RequestsOnly
<1>10. QED
  BY <1>4, <1>5, <1>6, <1>7, <1>8, <1>9 DEF Inv, IInv, Whereabouts

LEMMA TakesAnswerStep ==
    ASSUME NEW where, Inv(where), Typed', L2TakesAnswer
    PROVE  IInv'
<1>m. PICK m : m = Head(ff.snack)
  OBVIOUS
<1>1. /\ ff.snack # << >> /\ m.drid = 0 /\ ff' = [ff EXCEPT !.snack = Tail(@)]
      /\ m.nid \in Nid => /\ asked' = asked \ AnswersTo(m)
                          /\ copy' = [copy EXCEPT ![m.nid][m.paddr] = CopyAfter(m)]
      /\ entry_buf' = entry_buf
      /\ latch' = latch /\ req_buf' = req_buf /\ tags' = tags /\ entries' = entries
      /\ snoops' = snoops /\ memory' = memory /\ disp' = disp /\ snoop_ack' = snoop_ack
  BY <1>m DEF L2TakesAnswer
<1>2. /\ ff'.entry = ff.entry /\ ff'.snack = Tail(ff.snack) /\ ff'.tag_req = ff.tag_req
      /\ ff'.mem = ff.mem /\ ff'.disp_snack = ff.disp_snack /\ ff'.release = ff.release
      /\ ff'.pfreq = ff.pfreq
  BY <1>1, FlopFacts DEF QueueFlops
<1>3. /\ m \in Msg /\ m \in WordsOf(ff.snack) /\ m \notin WordsOf(ff'.snack)
      /\ WordsOf(ff.snack) = WordsOf(ff'.snack) \cup {m} /\ NoDouble(ff'.snack) /\ AnswerOrder'
  BY <1>1, <1>2, <1>m, SnackGet
<1>4. m \in Answers /\ Answers' = Answers \ {m}
  BY <1>1, <1>3 DEF Answers
<1>5. Asking /\ asked \subseteq Request
  BY DEF Inv, Typed, PeersOK
<1>6. PICK rq \in asked : IsAnswerTo(m, rq)
  BY <1>4, <1>5 DEF Asking, AnswerWasAsked
<1>7. /\ rq \in Request /\ rq.nid \in Nid /\ rq.paddr \in Lines /\ rq.cmd \in {REQ_S, REQ_M}
      /\ m.nid = rq.nid /\ m.l2id = rq.l2id /\ m.paddr = rq.paddr /\ m.snack = AckOf(rq.cmd)
  BY <1>5, <1>6 DEF Request, IsAnswerTo, Inv, RequestsOnly
<1>8. AnswersTo(m) = {rq}
  <2>1. \A o \in asked : o.nid = m.nid /\ o.l2id = m.l2id => o = rq
    BY <1>5, <1>6, <1>7 DEF Asking, AskedOnce
  <2>2. QED BY <1>6, <1>7, <2>1 DEF AnswersTo
<1>c. PICK c : c = CopyAfter(m)
  OBVIOUS
<1>9. asked' = asked \ {rq} /\ copy' = [copy EXCEPT ![rq.nid][rq.paddr] = c]
  BY <1>1, <1>7, <1>8, <1>c
<1>10. c = IF rq.cmd = REQ_S THEN "S" ELSE "M"
  BY <1>7, <1>c DEF CopyAfter, AckOf, REQ_S, REQ_M
<1>11. \A n \in Nid, l \in Lines :
          copy'[n][l] = IF n = rq.nid /\ l = rq.paddr THEN c ELSE copy[n][l]
  BY <1>7, <1>9 DEF Inv, Typed, PeersOK
<1>12. \A l \in Lines : Holders(l)' \subseteq Holders(l) /\ Owners(l)' \subseteq Owners(l)
  <2> SUFFICES ASSUME NEW l \in Lines PROVE Holders(l)' \subseteq Holders(l) /\ Owners(l)' \subseteq Owners(l)
    OBVIOUS
  <2>1. c = "M" => m.snack = "ACK_M"
    BY <1>7, <1>10 DEF AckOf, REQ_S, REQ_M
  <2>2. ASSUME NEW n \in Nid, copy'[n][l] # "I"
        PROVE  copy[n][l] # "I" \/ \E a \in Answers : a.nid = n /\ a.paddr = l
    BY <1>4, <1>7, <1>11, <2>2
  <2>3. ASSUME NEW n \in Nid, copy'[n][l] = "M"
        PROVE  copy[n][l] = "M" \/ \E a \in Answers : a.nid = n /\ a.paddr = l /\ a.snack = "ACK_M"
    BY <1>4, <1>7, <1>11, <2>1, <2>3
  <2>4. QED BY <1>4, <2>2, <2>3 DEF Holders, Owners
<1>13. \A o \in asked' : o \in asked /\ ~(o.nid = rq.nid /\ o.paddr = rq.paddr) /\ ~IsAnswerTo(m, o)
  BY <1>5, <1>6, <1>9 DEF Asking, AskedOnce, IsAnswerTo
<1>14. AskedOnce'
  BY <1>5, <1>9 DEF Asking, AskedOnce
<1>15. AskedLacks'
  <2>1. ASSUME NEW o \in asked' PROVE copy'[o.nid][o.paddr] = copy[o.nid][o.paddr]
    <3>1. o.nid \in Nid /\ o.paddr \in Lines
      BY <1>5, <1>13 DEF Request
    <3>2. QED BY <1>11, <1>13, <3>1
  <2>2. QED BY <1>5, <1>13, <2>1 DEF Asking, AskedLacks
<1>16. \A s \in Slots : Unanswered(s)' = Unanswered(s) /\ RequestOf(s)' = RequestOf(s)
  BY <1>1, <1>2 DEF Unanswered, RequestOf, Line, Requester, WordsOf
<1>17. HeldWasAsked'
  <2>1. ASSUME NEW s \in Slots, Unanswered(s) PROVE RequestOf(s) \in asked \ {rq}
    BY <1>4, <1>5, <1>6, <2>1 DEF Asking, HeldWasAsked, HeldOrAnswered
  <2>2. QED BY <1>9, <1>16, <2>1 DEF HeldWasAsked
<1>18. AnswerWasAsked'
  <2>1. ASSUME NEW a \in Answers, a # m PROVE \E o \in asked \ {rq} : IsAnswerTo(a, o)
    <3>1. PICK o \in asked : IsAnswerTo(a, o)
      BY <1>5, <2>1 DEF Asking, AnswerWasAsked
    <3>2. ASSUME o = rq PROVE FALSE
      <4>1. a \in Msg /\ m \in Msg
        BY <1>3, AnswerFacts
      <4>2. a.drid = m.drid /\ a.nid = m.nid /\ a.l2id = m.l2id /\ a.paddr = m.paddr /\ a.snack = m.snack
        BY <1>6, <3>1, <3>2 DEF IsAnswerTo
      <4>3. a = m
        BY <4>1, <4>2 DEF Msg
      <4>4. QED BY <2>1, <4>3
    <3>3. QED BY <3>1, <3>2
  <2>2. QED BY <1>4, <1>9, <2>1 DEF AnswerWasAsked
<1>19. HeldOnce' /\ HeldOrAnswered'
  BY <1>4, <1>5, <1>16 DEF Asking, HeldOnce, HeldOrAnswered
<1>20. AskedIsHeld'
  <2>1. ASSUME NEW o \in asked'
        PROVE  (\E s \in Slots : Unanswered(s) /\ RequestOf(s) = o) \/ (\E a \in Answers \ {m} : IsAnswerTo(a, o))
    BY <1>5, <1>13 DEF Asking, AskedIsHeld
  <2>2. QED BY <1>4, <1>16, <2>1 DEF AskedIsHeld
<1>21. Asking'
  BY <1>14, <1>15, <1>17, <1>18, <1>19, <1>20 DEF Asking
<1>22. Board'["snack"] = Board["snack"]
  BY <1>1, <1>3, BoardIs, BoardIsNext
<1>23. Unmoved
  BY <1>1, <1>2 DEF Unmoved
<1>24. QED BY <1>3, <1>4, <1>12, <1>21, <1>22, <1>23, StayStep

(* A node gives up a line, or the right to write it.                       *)
Falls(n, l, c) ==
    /\ c \in {"I", "S"} /\ (copy[n][l] = "I" => c = "I")
    /\ copy' = [copy EXCEPT ![n][l] = c] /\ asked' = asked /\ req_buf' = req_buf /\ ff' = ff

LEMMA Falling ==
    ASSUME NEW where, Inv(where), NEW n \in Nid, NEW l \in Lines, NEW c, Falls(n, l, c)
    PROVE  /\ Asking' /\ Answers' = Answers /\ Commands' = Commands
           /\ \A k \in Lines : Holders(k)' \subseteq Holders(k) /\ Owners(k)' \subseteq Owners(k)
           /\ (\A m \in Answers : m.paddr # l) => n \notin Owners(l)' /\ (c = "I" => n \notin Holders(l)')
<1>1. /\ c \in {"I", "S"} /\ (copy[n][l] = "I" => c = "I")
      /\ copy' = [copy EXCEPT ![n][l] = c] /\ asked' = asked /\ req_buf' = req_buf /\ ff' = ff
  BY DEF Falls
<1>2. \A o \in Nid, k \in Lines : copy'[o][k] = IF o = n /\ k = l THEN c ELSE copy[o][k]
  BY <1>1 DEF Inv, Typed, PeersOK
<1>3. Answers' = Answers /\ Commands' = Commands
  BY <1>1 DEF Answers, Commands
<1>4. \A k \in Lines : Holders(k)' \subseteq Holders(k) /\ Owners(k)' \subseteq Owners(k)
  BY <1>1, <1>2, <1>3 DEF Holders, Owners
<1>5. (\A m \in Answers : m.paddr # l) => n \notin Owners(l)' /\ (c = "I" => n \notin Holders(l)')
  BY <1>1, <1>2, <1>3 DEF Holders, Owners
<1>6. Asking /\ asked \subseteq Request
  BY DEF Inv, Typed, PeersOK
<1>7. AskedLacks'
  <2>1. ASSUME NEW rq \in asked
        PROVE  IF rq.cmd = REQ_S THEN copy'[rq.nid][rq.paddr] = "I" ELSE copy'[rq.nid][rq.paddr] # "M"
    <3>1. rq.nid \in Nid /\ rq.paddr \in Lines
      BY <1>6 DEF Request
    <3>2. IF rq.cmd = REQ_S THEN copy[rq.nid][rq.paddr] = "I" ELSE copy[rq.nid][rq.paddr] # "M"
      BY <1>6 DEF Asking, AskedLacks
    <3>3. QED BY <1>1, <1>2, <3>1, <3>2
  <2>2. QED BY <1>1, <2>1 DEF AskedLacks
<1>8. \A s \in Slots : Unanswered(s)' = Unanswered(s) /\ RequestOf(s)' = RequestOf(s)
  BY <1>1 DEF Unanswered, RequestOf, Line, Requester, WordsOf
<1>9. AskedOnce' /\ HeldWasAsked' /\ HeldOnce'
  BY <1>1, <1>6, <1>8 DEF Asking, AskedOnce, HeldWasAsked, HeldOnce
<1>10. AnswerWasAsked' /\ HeldOrAnswered' /\ AskedIsHeld'
  BY <1>1, <1>3, <1>6, <1>8 DEF Asking, AnswerWasAsked, HeldOrAnswered, AskedIsHeld
<1>11. QED BY <1>3, <1>4, <1>5, <1>7, <1>9, <1>10 DEF Asking

LEMMA DropsStep ==
    ASSUME NEW where, Inv(where), Typed', L2Drops
    PROVE  IInv'
<1>1. PICK n \in Nid, l \in Lines : /\ copy' = [copy EXCEPT ![n][l] = "I"]
                                   /\ UNCHANGED <<dir, asked, sent, snoops, disp, snoop_ack, memory>>
  BY DEF L2Drops
<1>c. PICK c : c = "I"
  OBVIOUS
<1>2. Falls(n, l, c) /\ Unmoved
  BY <1>1, <1>c DEF Falls, Unmoved, dir
<1>3. /\ Asking' /\ Answers' = Answers
      /\ \A k \in Lines : Holders(k)' \subseteq Holders(k) /\ Owners(k)' \subseteq Owners(k)
  BY <1>2, Falling
<1>4. ff' = ff
  BY <1>1 DEF dir
<1>5. NoDouble(ff'.snack) /\ AnswerOrder' /\ Board'["snack"] = Board["snack"]
  BY <1>4, SameStation DEF Inv, Orders, NoDoubles, AnswerOrder
<1>6. QED BY <1>2, <1>3, <1>5, StayStep

(* What a snoop that is answered meets.                                    *)
LEMMA AnsweredSnoop ==
    ASSUME NEW where, Inv(where), NEW sn \in snoops
    PROVE  \E t \in Slots : /\ where[t] = "snoops" /\ sn = SnoopWord(t) /\ sn.nid = Who(t) /\ sn.nid \in Nid
                            /\ sn.paddr = Line(t) /\ sn.drid = t + 1 /\ sn.snack = SnoopFor(req_buf[t].cmd)
                            /\ Asks(t) /\ \A m \in Answers : m.paddr # Line(t)
<1>1. PICK t \in Slots : where[t] = "snoops" /\ sn = SnoopWord(t)
  BY SnoopsAt
<1>2. sn.nid = Who(t) /\ sn.paddr = Line(t) /\ sn.drid = t + 1 /\ sn.snack = SnoopFor(req_buf[t].cmd)
  BY <1>1 DEF SnoopWord, Snoop
<1>3. Who(t) \in Nid
  BY <1>1, WhoIsNode
<1>4. Asks(t) /\ \A m \in Answers : m.paddr # Line(t)
  BY <1>1 DEF Inv, Whereabouts, Kept, Asked
<1>5. QED BY <1>1, <1>2, <1>3, <1>4

(* An L2 answers a snoop: the rest of the step.                            *)
LEMMA ReplyStep ==
    ASSUME NEW where, Inv(where), Typed', NEW t \in Slots, where[t] = "snoops", NEW sn \in snoops,
           sn = SnoopWord(t), NEW n \in Nid, NEW l \in Lines, l = Line(t), NEW c, Falls(n, l, c),
           UNCHANGED <<entry_buf, tags, entries, latch, memory>>, snoops' = snoops \ {sn},
           NEW to \in {"disp", "snoop_ack"}, Board'[to] = Board[to] \cup {t + 1},
           to # "disp" => disp' = disp, to # "snoop_ack" => snoop_ack' = snoop_ack,
           \A d \in disp' : d \in disp \/ DispSlot(d) = t,
           RepliesMatch', Kept(t, to)'
    PROVE  IInv'
<1>1. /\ Asking' /\ Answers' = Answers /\ Commands' = Commands /\ req_buf' = req_buf /\ ff' = ff
      /\ \A k \in Lines : Holders(k)' \subseteq Holders(k) /\ Owners(k)' \subseteq Owners(k)
  BY Falling DEF Falls
<1>2. entry_buf' = entry_buf /\ tags' = tags /\ entries' = entries /\ latch' = latch /\ memory' = memory
  OBVIOUS
<1> PICK moved : moved = [where EXCEPT ![t] = to]
  OBVIOUS
<1>3. \A k \in Lines : Spared(k)
  BY <1>1, <1>2, SameBook DEF Spared
<1>4. moved \in [Slots -> Places] /\ Posted(moved)'
  <2>1. SameWords(where, Wording, Wording', t)
    BY <1>1, <1>2, KeepWording DEF SameRequest, Line, TableEntry
  <2>2. Wording["snoops"][t] = sn /\ Wording'[to][t] = t + 1
    BY SnoopsWord, DispWord, AckWord
  <2>3. Shifted(Board, Board', Wording, Wording', t, "snoops", to)
    <3>1. Board'["snoops"] = Board["snoops"] \ {sn}
      BY BoardIs, BoardIsNext
    <3>2. \A q \in Stations : q # "snoops" /\ q # to => Board'[q] = Board[q]
      BY <1>1, <1>2, SameStation DEF Stations
    <3>3. QED BY <2>2, <3>1, <3>2 DEF Shifted
  <2>4. "snoops" \in Places /\ to \in Places /\ to # "snoops"
    BY DEF Places, Stations
  <2>5. QED BY <2>1, <2>3, <2>4, Moves
<1>5. \A s \in Slots : Kept(s, moved[s])'
  <2>1. \A s \in Slots : s # t /\ where[s] # "none" => Undisturbed(s)
    BY <1>1, <1>2, <1>3, Elsewhere DEF SameRequest
  <2>2. QED BY <2>1, AllKept
<1>6. Tables' /\ Tracked'
  BY <1>1, <1>2, <1>3, KeepTables, Shrinks DEF Spared
<1>7. Quietly
  BY <1>1, <1>2 DEF Inv, Orders, NoDoubles, AnswerOrder, Quietly
<1>8. to # "none" /\ where[t] # "none"
  OBVIOUS
<1>9. QED BY <1>1, <1>4, <1>5, <1>6, <1>7, <1>8, QuietStep

(* What is left of the holders of a line once the node asked has answered. *)
LEMMA AfterReply ==
    ASSUME NEW where, Inv(where), NEW t \in Slots, where[t] = "snoops",
           NEW n \in Nid, n = Who(t), NEW l \in Lines, l = Line(t), NEW c, Falls(n, l, c),
           NEW e, e = entry_buf[t].entry
    PROVE  /\ Owners(l)' = {} /\ Line(t)' = l
           /\ c = "I" => Others(t)' \subseteq After(t)
           /\ Others(t)' \subseteq Known(e)
           /\ copy[n][l] = "M" => Used(e) \subseteq {entry_buf[t].pos} /\ After(t) = {}
<1>p. PICK pos : pos = entry_buf[t].pos
  OBVIOUS
<1>f. PICK f : f = Cleared(t)
  OBVIOUS
<1>1. Asks(t) /\ \A m \in Answers : m.paddr # l
  BY DEF Inv, Whereabouts, Kept, Asked
<1>2. /\ Used(e) # {} => pos \in Used(e)
      /\ Others(t) \subseteq After(t) \cup (IF Used(e) = {} THEN {} ELSE {n})
      /\ \A o \in Owners(l) : Known(e) = {o}
  BY <1>1, <1>p DEF Asks
<1>3. /\ Holders(l)' \subseteq Holders(l) /\ Owners(l)' \subseteq Owners(l)
      /\ n \notin Owners(l)' /\ (c = "I" => n \notin Holders(l)')
  BY <1>1, Falling
<1>4. req_buf' = req_buf
  BY DEF Falls
<1>5. Line(t)' = l /\ Requester(t)' = Requester(t)
  BY <1>4 DEF Line, Requester
<1>6. Others(t) = Holders(l) \ {Requester(t)} /\ Others(t)' = Holders(l)' \ {Requester(t)}
  BY <1>5 DEF Others, Holders
<1>7. Used(e) # {} => n = e.nid[pos] /\ n \in Known(e)
  BY <1>2, <1>p DEF Who, Known
<1>8. Owners(l)' = {}
  <2> SUFFICES ASSUME NEW o \in Owners(l)' PROVE FALSE
    OBVIOUS
  <2>1. Known(e) = {o}
    BY <1>2, <1>3
  <2>2. Used(e) # {}
    BY <2>1 DEF Known
  <2>3. QED BY <1>3, <1>7, <2>1, <2>2
<1>9. /\ After(t) \subseteq Known(f) /\ Known(f) \subseteq Known(e) /\ Distinct(e)
      /\ After(t) = {f.nid[p] : p \in Later(f, pos)} /\ Used(f) = Used(e) \ {pos}
  BY <1>f, <1>p, ClearedIs
<1>10. c = "I" => Others(t)' \subseteq After(t)
  BY <1>2, <1>3, <1>6
<1>11. Others(t)' \subseteq Known(e)
  BY <1>2, <1>3, <1>6, <1>7, <1>9
<1>12. ASSUME copy[n][l] = "M" PROVE Used(e) \subseteq {pos} /\ After(t) = {}
  <2>1. n \in Owners(l)
    BY <1>12 DEF Owners
  <2>2. Known(e) = {n}
    BY <1>2, <2>1
  <2>3. Used(e) # {}
    BY <2>2 DEF Known
  <2>4. pos \in Used(e) /\ e.nid[pos] = n
    BY <1>2, <1>7, <2>3
  <2>5. \A q \in Used(e) : e.nid[q] = n
    BY <2>2 DEF Known
  <2>6. Used(e) \subseteq {pos}
    BY <1>9, <2>4, <2>5 DEF Distinct
  <2>7. Later(f, pos) \subseteq Used(f)
    BY DEF Later
  <2>8. QED BY <1>9, <2>6, <2>7
<1>13. QED BY <1>5, <1>8, <1>10, <1>11, <1>12, <1>p

LEMMA DeniesStep ==
    ASSUME NEW where, Inv(where), Typed', L2Denies
    PROVE  IInv'
<1>1. PICK sn \in snoops : /\ copy[sn.nid][sn.paddr] # "M"
                          /\ snoop_ack' = snoop_ack \cup {sn.drid}
                          /\ copy' = [copy EXCEPT ![sn.nid][sn.paddr] = "I"]
                          /\ snoops' = snoops \ {sn}
                          /\ UNCHANGED <<dir, asked, sent, disp, memory>>
  BY DEF L2Denies
<1>2. PICK t \in Slots : /\ where[t] = "snoops" /\ sn = SnoopWord(t) /\ sn.nid = Who(t) /\ sn.nid \in Nid
                        /\ sn.paddr = Line(t) /\ sn.drid = t + 1
  BY AnsweredSnoop
<1> PICK n \in Nid : n = sn.nid
  BY <1>2
<1> PICK l \in Lines : l = Line(t)
  BY SlotFacts
<1>c. PICK c : c = "I"
  OBVIOUS
<1>e. PICK e : e = entry_buf[t].entry
  OBVIOUS
<1>3. /\ snoop_ack' = snoop_ack \cup {t + 1} /\ snoops' = snoops \ {sn} /\ disp' = disp
      /\ copy' = [copy EXCEPT ![n][l] = c] /\ asked' = asked /\ memory' = memory
      /\ req_buf' = req_buf /\ entry_buf' = entry_buf /\ tags' = tags /\ entries' = entries
      /\ ff' = ff /\ latch' = latch
  BY <1>1, <1>2, <1>c DEF dir
<1>4. Falls(n, l, c)
  BY <1>3, <1>c DEF Falls
<1>5. Owners(l)' = {} /\ Line(t)' = l /\ Others(t)' \subseteq After(t)
  BY <1>2, <1>4, <1>c, <1>e, AfterReply
<1>6. Board'["snoop_ack"] = Board["snoop_ack"] \cup {t + 1}
  BY <1>3, BoardIs, BoardIsNext
<1>7. RepliesMatch'
  BY <1>3 DEF Inv, RepliesMatch, DispSlot
<1>8. Kept(t, "snoop_ack")'
  <2>1. Kept(t, "snoops")
    BY <1>2 DEF Inv, Whereabouts
  <2>2. Requester(t)' = Requester(t) /\ After(t)' = After(t) /\ Present(Line(t))' = Present(Line(t))
    BY <1>3 DEF Requester, After, Present, Line
  <2>3. Commands' = Commands /\ Answers' = Answers
    BY <1>3 DEF Commands, Answers
  <2>4. Owners(Line(t))' = Owners(l)'
    BY <1>5 DEF Owners
  <2>5. Denied(t)'
    BY <1>5, <2>2, <2>4 DEF Denied
  <2>6. QED BY <1>3, <1>5, <2>1, <2>2, <2>3, <2>5 DEF Kept, Looking, Snooping, Asked
<1>9. \A d \in disp' : d \in disp \/ DispSlot(d) = t
  BY <1>3
<1>w. PICK to \in {"disp", "snoop_ack"} : to = "snoop_ack"
  OBVIOUS
<1>10. Board'[to] = Board[to] \cup {t + 1} /\ Kept(t, to)'
  BY <1>6, <1>8, <1>w
<1>11. (to # "disp" => disp' = disp) /\ (to # "snoop_ack" => snoop_ack' = snoop_ack)
  BY <1>3, <1>w
<1>12. UNCHANGED <<entry_buf, tags, entries, latch, memory>>
  BY <1>3
<1>13. QED BY <1>2, <1>3, <1>4, <1>7, <1>9, <1>10, <1>11, <1>12, ReplyStep

LEMMA ReturnsDataStep ==
    ASSUME NEW where, Inv(where), Typed', L2ReturnsData
    PROVE  IInv'
<1>1. PICK sn \in snoops, dcmd \in {"WI", "WS", "I", "NC"} :
          /\ copy[sn.nid][sn.paddr] = "M"
             \/ (copy[sn.nid][sn.paddr] = "S" /\ (sn.snack = "WS" \/ SharersReturnData))
          /\ dcmd = "WI" \/ (dcmd = "WS" /\ sn.snack = "WS") \/ FaultyReplies
          /\ disp' = disp \cup {Displaced(sn.drid, sn.nid, sn.paddr, dcmd)}
          /\ copy' = DisplacedCopy(sn.nid, sn.paddr, dcmd)
          /\ snoops' = snoops \ {sn}
          /\ UNCHANGED <<dir, asked, sent, snoop_ack, memory>>
  BY DEF L2ReturnsData
<1>2. PICK t \in Slots : /\ where[t] = "snoops" /\ sn = SnoopWord(t) /\ sn.nid = Who(t) /\ sn.nid \in Nid
                        /\ sn.paddr = Line(t) /\ sn.drid = t + 1 /\ sn.snack = SnoopFor(req_buf[t].cmd)
  BY AnsweredSnoop
<1> PICK n \in Nid : n = sn.nid
  BY <1>2
<1> PICK l \in Lines : l = Line(t)
  BY SlotFacts
<1>c. PICK c : c = IF dcmd = "WS" THEN "S" ELSE "I"
  OBVIOUS
<1>e. PICK e : e = entry_buf[t].entry
  OBVIOUS
<1>d. PICK d0 : d0 = Displaced(t + 1, n, l, dcmd)
  OBVIOUS
<1>3. ~SharersReturnData /\ ~FaultyReplies
  BY DEF Inv, RequestsOnly
<1>4. /\ dcmd \in {"WI", "WS"} /\ (dcmd = "WS" => sn.snack = "WS") /\ copy[n][l] # "I"
      /\ sn.snack # "WS" => copy[n][l] = "M"
  BY <1>1, <1>2, <1>3
<1>5. req_buf[t].cmd \in {REQ_S, REQ_M} /\ (sn.snack = "WS" <=> req_buf[t].cmd = REQ_S)
  <2>1. req_buf[t].cmd \in {REQ_S, REQ_M}
    BY <1>2, SlotFacts
  <2>2. QED BY <1>2, <2>1 DEF SnoopFor
<1>6. /\ disp' = disp \cup {d0} /\ snoops' = snoops \ {sn} /\ snoop_ack' = snoop_ack
      /\ copy' = [copy EXCEPT ![n][l] = c] /\ asked' = asked /\ memory' = memory
      /\ req_buf' = req_buf /\ entry_buf' = entry_buf /\ tags' = tags /\ entries' = entries
      /\ ff' = ff /\ latch' = latch
  BY <1>1, <1>2, <1>4, <1>c, <1>d DEF dir, DisplacedCopy
<1>7. Falls(n, l, c)
  BY <1>4, <1>6, <1>c DEF Falls
<1>8. /\ Owners(l)' = {} /\ Line(t)' = l
      /\ c = "I" => Others(t)' \subseteq After(t)
      /\ Others(t)' \subseteq Known(e)
      /\ copy[n][l] = "M" => Used(e) \subseteq {entry_buf[t].pos} /\ After(t) = {}
  BY <1>2, <1>7, <1>e, AfterReply
<1>9. d0.drid = t + 1 /\ d0.dcmd = dcmd /\ DispSlot(d0) = t
  BY <1>d, SlotNames DEF Displaced, DispSlot
<1>10. \A d \in disp : d.drid # t + 1 /\ DispSlot(d) # t
  BY <1>2, DispAt, NumberApart
<1>11. Board'["disp"] = Board["disp"] \cup {t + 1}
  <2>1. Board'["disp"] = {d.drid : d \in disp \cup {d0}}
    BY <1>6, BoardIsNext
  <2>2. Board["disp"] = {d.drid : d \in disp}
    BY BoardIs
  <2>3. QED BY <1>9, <2>1, <2>2
<1>12. RepliesMatch'
  <2>1. RepliesMatch
    BY DEF Inv
  <2>2. \A d, o \in disp' : d.drid = o.drid => d = o
    BY <1>6, <1>9, <1>10, <2>1 DEF RepliesMatch
  <2>3. ASSUME NEW d \in disp' PROVE d.dcmd = "WI" \/ (d.dcmd = "WS" /\ req_buf'[DispSlot(d)].cmd = REQ_S)
    <3>1. CASE d \in disp
      BY <1>6, <2>1, <3>1 DEF RepliesMatch
    <3>2. CASE d = d0
      BY <1>4, <1>5, <1>6, <1>9, <3>2
    <3>3. QED BY <1>6, <3>1, <3>2
  <2>4. QED BY <2>2, <2>3 DEF RepliesMatch, DispSlot
<1>13. Replied(d0)'
  <2>1. DispSlot(d0)' = t /\ d0.dcmd = dcmd
    BY <1>9 DEF DispSlot
  <2>2. entry_buf'[t].entry = e /\ Cleared(t)' = Cleared(t) /\ req_buf'[t].cmd = req_buf[t].cmd
        /\ entry_buf'[t].pos = entry_buf[t].pos
    BY <1>6, <1>e DEF Cleared
  <2>3. Owners(Line(t))' = {}
    BY <1>8 DEF Owners
  <2>4. ASSUME req_buf[t].cmd = REQ_M PROVE Used(e) \subseteq {entry_buf[t].pos} /\ Others(t)' = {}
    <3>1. sn.snack # "WS"
      BY <1>5, <2>4 DEF REQ_S, REQ_M
    <3>2. copy[n][l] = "M" /\ c = "I"
      BY <1>4, <1>c, <3>1
    <3>3. QED BY <1>8, <3>2
  <2>5. Others(t)' \subseteq (IF dcmd = "WI" THEN Known(Cleared(t)) ELSE Known(e))
    <3>1. After(t) \subseteq Known(Cleared(t))
      BY ClearedIs
    <3>2. QED BY <1>8, <1>c, <3>1
  <2>6. /\ req_buf'[t].cmd = REQ_M => Used(entry_buf'[t].entry) \subseteq {entry_buf'[t].pos} /\ Others(t)' = {}
        /\ Others(t)' \subseteq (IF d0.dcmd = "WI" THEN Known(Cleared(t)') ELSE Known(entry_buf'[t].entry))
    BY <2>1, <2>2, <2>4, <2>5
  <2>7. QED BY <2>1, <2>3, <2>6 DEF Replied
<1>14. Kept(t, "disp")'
  <2>1. Kept(t, "snoops")
    BY <1>2 DEF Inv, Whereabouts
  <2>2. Requester(t)' = Requester(t) /\ Present(Line(t))' = Present(Line(t))
    BY <1>6 DEF Requester, Present, Line
  <2>3. Commands' = Commands /\ Answers' = Answers
    BY <1>6 DEF Commands, Answers
  <2>4. \A d \in disp' : DispSlot(d)' = t => d = d0
    BY <1>6, <1>10 DEF DispSlot
  <2>5. \A d \in disp' : DispSlot(d)' = t => Replied(d)'
    BY <1>13, <2>4
  <2>6. QED BY <1>6, <1>8, <2>1, <2>2, <2>3, <2>5 DEF Kept, Looking, Snooping, Asked
<1>15. \A d \in disp' : d \in disp \/ DispSlot(d) = t
  BY <1>6, <1>9
<1>w. PICK to \in {"disp", "snoop_ack"} : to = "disp"
  OBVIOUS
<1>16. Board'[to] = Board[to] \cup {t + 1} /\ Kept(t, to)'
  BY <1>11, <1>14, <1>w
<1>17. (to # "disp" => disp' = disp) /\ (to # "snoop_ack" => snoop_ack' = snoop_ack)
  BY <1>6, <1>w
<1>18. UNCHANGED <<entry_buf, tags, entries, latch, memory>>
  BY <1>6
<1>19. QED BY <1>2, <1>6, <1>7, <1>12, <1>15, <1>16, <1>17, <1>18, ReplyStep

(* A step of the words nobody waits for: write-backs, acknowledgements.    *)
LEMMA IdleStep ==
    ASSUME NEW where, Inv(where), Typed', Unmoved, ff'.snack = ff.snack, copy' = copy, asked' = asked
    PROVE  IInv'
<1>1. Answers' = Answers /\ Board'["snack"] = Board["snack"]
  BY SameStation DEF Answers
<1>2. NoDouble(ff'.snack) /\ AnswerOrder'
  BY DEF Inv, Orders, NoDoubles, AnswerOrder
<1>3. Asking'
  BY <1>1, KeepAsking DEF Unmoved
<1>4. \A l \in Lines : Holders(l)' \subseteq Holders(l) /\ Owners(l)' \subseteq Owners(l)
  BY <1>1, SameHolders
<1>5. QED BY <1>1, <1>2, <1>3, <1>4, StayStep

LEMMA IdleSteps ==
    ASSUME NEW where, Inv(where), Typed', DispRefused \/ MemTakesWriteback \/ L2TakesDack \/ UNCHANGED vars
    PROVE  IInv'
<1>1. Unmoved /\ ff'.snack = ff.snack /\ copy' = copy /\ asked' = asked
  <2>1. CASE UNCHANGED vars
    BY <2>1 DEF vars, dir, l2, Unmoved
  <2>2. CASE DispRefused
    <3>1. PICK d \in disp : /\ ff' = [ff EXCEPT !.dack = Append(@, d.nid)]
                            /\ UNCHANGED <<req_buf, entry_buf, tags, entries, latch, l2, disp, snoop_ack, memory>>
      BY <2>2 DEF DispRefused
    <3>2. QED BY <3>1, FlopFacts DEF Unmoved, QueueFlops, l2
  <2>3. CASE MemTakesWriteback
    <3>1. /\ ff' = [ff EXCEPT !.wb = Tail(@)]
          /\ UNCHANGED <<req_buf, entry_buf, tags, entries, latch, l2, disp, snoop_ack, memory>>
      BY <2>3 DEF MemTakesWriteback
    <3>2. QED BY <3>1, FlopFacts DEF Unmoved, QueueFlops, l2
  <2>4. CASE L2TakesDack
    <3>1. /\ ff' = [ff EXCEPT !.dack = Tail(@)]
          /\ UNCHANGED <<req_buf, entry_buf, tags, entries, latch, l2, disp, snoop_ack, memory>>
      BY <2>4 DEF L2TakesDack
    <3>2. QED BY <3>1, FlopFacts DEF Unmoved, QueueFlops, l2
  <2>5. QED BY <2>1, <2>2, <2>3, <2>4
<1>2. QED BY <1>1, IdleStep

(* What no state of that traffic enables: no line is found before the last *)
(* sharer is asked, no displacement comes unasked, no reply is ignored.    *)
LEMMA NeverFound ==
    ASSUME NEW where, Inv(where)
    PROVE  ~SnoopsDoneFound /\ ~SnoopAckIdle /\ ~DispFoundMore /\ ~DispFoundLast
<1>1. Quiet
  BY DEF Inv
<1>2. \A d \in disp : DispSlot(d) \in Slots
  BY DispAt
<1>3. \A drid \in snoop_ack : SlotOf(drid) \in Slots
  BY AckAt, SlotNames
<1>4. ~SnoopsDoneFound
  BY <1>1, <1>3 DEF SnoopsDoneFound, Quiet
<1>5. ~SnoopAckIdle
  BY <1>1 DEF SnoopAckIdle, Quiet
<1>6. ~DispFoundMore
  BY <1>1, <1>2 DEF DispFoundMore, Quiet
<1>7. ~DispFoundLast
  BY <1>1, <1>2 DEF DispFoundLast, Quiet
<1>8. QED BY <1>4, <1>5, <1>6, <1>7

LEMMA NeverMore ==
    ASSUME NEW where, Inv(where)
    PROVE  ~DispFoundFirst
<1> SUFFICES ASSUME DispFoundFirst PROVE FALSE
  OBVIOUS
<1>1. PICK d \in disp : req_buf[DispSlot(d)].cmd = REQ_M /\ Used(Cleared(DispSlot(d))) # {}
  BY DEF DispFoundFirst
<1>2. PICK s \in Slots : where[s] = "disp" /\ DispSlot(d) = s
  BY DispAt
<1>3. Replied(d)
  BY <1>2 DEF Inv, Whereabouts, Kept
<1>4. Used(entry_buf[s].entry) \subseteq {entry_buf[s].pos}
  BY <1>1, <1>2, <1>3 DEF Replied
<1>5. Used(Cleared(s)) = Used(entry_buf[s].entry) \ {entry_buf[s].pos}
  BY ClearedIs
<1>6. QED BY <1>1, <1>2, <1>4, <1>5

LEMMA NeverIgnored ==
    ASSUME NEW where, Inv(where)
    PROVE  ~DispNonCacheable /\ ~DispIgnored /\ ~OwnWriteback /\ ~OwnInvalidation
<1>1. \A d \in disp : d.dcmd = "WI" \/ (d.dcmd = "WS" /\ req_buf[DispSlot(d)].cmd = REQ_S)
  BY DEF Inv, RepliesMatch
<1>2. \A d \in disp : d.drid # 0
  BY DispAt, SlotNames
<1>3. ~DispNonCacheable
  BY <1>1 DEF DispNonCacheable
<1>4. ~DispIgnored
  <2> SUFFICES ASSUME DispIgnored PROVE FALSE
    OBVIOUS
  <2>1. PICK d \in disp : \/ (req_buf[DispSlot(d)].cmd = REQ_S /\ d.dcmd = "I")
                         \/ (req_buf[DispSlot(d)].cmd = REQ_M /\ d.dcmd \in {"I", "WS"})
    BY DEF DispIgnored
  <2>2. REQ_S # REQ_M
    BY DEF REQ_S, REQ_M
  <2>3. QED BY <1>1, <2>1, <2>2
<1>5. ~OwnWriteback
  BY <1>2 DEF OwnWriteback
<1>6. ~OwnInvalidation
  BY <1>2 DEF OwnInvalidation
<1>7. QED BY <1>3, <1>4, <1>5, <1>6

LEMMA NeverUnasked ==
    ASSUME NEW where, Inv(where)
    PROVE  ~SecondSnack /\ ~AcceptPrefetch /\ ~MemTakesPrefetch /\ ~L2Displaces
<1>1. ~SecondSnack
  BY DEF Inv, Quiet, SecondSnack
<1>2. ~AcceptPrefetch
  BY DEF Inv, RequestsOnly, AcceptPrefetch
<1>3. ~MemTakesPrefetch
  BY DEF Inv, Quiet, MemTakesPrefetch
<1>4. ~L2Displaces
  BY DEF Inv, RequestsOnly, L2Displaces
<1>5. QED BY <1>1, <1>2, <1>3, <1>4

-----------------------------------------------------------------------------
(* A request takes a free slot.                                            *)

LEMMA FreeIsNowhere ==
    ASSUME NEW where, Inv(where), NEW s \in Slots, ~req_buf[s].valid
    PROVE  where[s] = "none" /\ req_buf[s].next = 0 /\ s \notin WordsOf(ff.release) /\ ~Waiting(s)
<1>1. where[s] = "none"
  BY SlotFacts
<1>2. req_buf[s].next = 0
  BY DEF Inv, Queues, FreeUnlinked
<1>3. s \notin WordsOf(ff.release)
  BY <1>1, Releasing
<1>4. ASSUME NEW t \in Slots, req_buf[t].valid, req_buf[t].next = s + 1 PROVE FALSE
  <2>1. req_buf[t].next # 0 /\ SlotOf(req_buf[t].next) = s
    BY <1>4, SlotNames
  <2>2. Linked
    BY DEF Inv, Queues
  <2>3. req_buf[s].valid
    BY <1>4, <2>1, <2>2 DEF Linked
  <2>4. QED BY <2>3
<1>5. QED BY <1>1, <1>2, <1>3, <1>4 DEF Waiting

Tenant(rq) == [valid |-> TRUE, cmd |-> rq.cmd, paddr |-> rq.paddr, nid |-> rq.nid,
               l2id |-> rq.l2id, found |-> FALSE, next |-> 0]

LEMMA AllocatedIs ==
    ASSUME NEW where, Inv(where), NEW s \in Slots, NEW port \in Slots, NEW rq \in Request,
           NEW b, b = Allocated(s, rq, port)
    PROVE  b \in [Slots -> Outstanding] /\ b[s] = Tenant(rq) /\ \A u \in Slots : u # s => b[u] = req_buf[u]
<1>1. RegistersOK /\ req_buf \in [Slots -> Outstanding] /\ \A u \in Slots : req_buf[u].found = FALSE
  <2>1. RegistersOK /\ Quiet
    BY DEF Inv, Typed
  <2>2. \A u \in Slots : req_buf[u].found \in BOOLEAN
    BY <2>1 DEF RegistersOK, Outstanding
  <2>3. QED BY <2>1, <2>2 DEF RegistersOK, Quiet
<1>2. b \in [Slots -> Outstanding]
  BY <1>1, ReqBufTypes
<1>a. PICK a : a = [req_buf EXCEPT ![s] =
                      [valid |-> TRUE, cmd |-> rq.cmd, paddr |-> rq.paddr, nid |-> rq.nid,
                       l2id |-> rq.l2id, found |-> @.found, next |-> 0]]
  OBVIOUS
<1>3. b = [a EXCEPT ![port].found = FALSE]
  BY <1>a DEF Allocated
<1>4. a[s] = Tenant(rq) /\ (\A u \in Slots : u # s => a[u] = req_buf[u]) /\ DOMAIN a = Slots
  BY <1>1, <1>a DEF Tenant
<1>5. a[port].found = FALSE
  BY <1>1, <1>4 DEF Tenant
<1>6. b[port] = a[port]
  <2>1. b[port] = [a[port] EXCEPT !.found = FALSE]
    BY <1>3, <1>4
  <2>2. CASE port = s
    BY <1>4, <2>1, <2>2 DEF Tenant
  <2>3. CASE port # s
    <3>1. a[port] \in Outstanding
      BY <1>1, <1>4, <2>3
    <3>2. QED BY <1>5, <2>1, <3>1 DEF Outstanding
  <2>4. QED BY <2>2, <2>3
<1>7. \A u \in Slots : u # port => b[u] = a[u]
  BY <1>3, <1>4
<1>8. QED BY <1>2, <1>4, <1>6, <1>7

SameTenant(u) ==
    /\ req_buf'[u].valid = req_buf[u].valid /\ req_buf'[u].cmd = req_buf[u].cmd
    /\ req_buf'[u].paddr = req_buf[u].paddr /\ req_buf'[u].nid = req_buf[u].nid
    /\ req_buf'[u].l2id = req_buf[u].l2id
Enters(s, rq) ==
    /\ ~req_buf[s].valid /\ req_buf'[s] = Tenant(rq)
    /\ \A u \in Slots : ~req_buf'[u].found
    /\ \A u \in Slots : u # s => SameTenant(u)
Questions(rq) ==
    /\ \A o \in asked : o.nid = rq.nid => o.l2id # rq.l2id /\ o.paddr # rq.paddr
    /\ IF rq.cmd = REQ_S THEN copy[rq.nid][rq.paddr] = "I" ELSE copy[rq.nid][rq.paddr] # "M"
    /\ asked' = asked \cup {rq}

LEMMA SendIs ==
    ASSUME NEW where, Inv(where), NEW rq \in Request, Send(rq)
    PROVE  Questions(rq) /\ rq.cmd \in {REQ_S, REQ_M} /\ rq.nid \in Nid /\ rq.paddr \in Lines
<1>1. rq.cmd \in {REQ_S, REQ_M}
  BY DEF Inv, RequestsOnly, Request
<1>2. IF rq.cmd = REQ_S THEN copy[rq.nid][rq.paddr] = "I" ELSE copy[rq.nid][rq.paddr] # "M"
  BY <1>1 DEF Send, MayAsk
<1>3. QED BY <1>1, <1>2 DEF Questions, Send, MayAsk, Request

LEMMA EnterAsking ==
    ASSUME NEW where, Inv(where), NEW s \in Slots, NEW rq \in Request, Enters(s, rq), Questions(rq),
           copy' = copy, Answers' = Answers, WordsOf(ff'.release) = WordsOf(ff.release)
    PROVE  Asking'
<1>1. /\ \A o \in asked : o.nid = rq.nid => o.l2id # rq.l2id /\ o.paddr # rq.paddr
      /\ IF rq.cmd = REQ_S THEN copy[rq.nid][rq.paddr] = "I" ELSE copy[rq.nid][rq.paddr] # "M"
      /\ asked' = asked \cup {rq}
  BY DEF Questions
<1>2. Asking
  BY DEF Inv
<1>3. ~Unanswered(s) /\ Unanswered(s)' /\ RequestOf(s)' = rq
  <2>1. ~req_buf[s].valid /\ req_buf'[s] = Tenant(rq)
    BY DEF Enters
  <2>2. s \notin WordsOf(ff.release)
    BY <2>1, FreeIsNowhere
  <2>3. WordsOf(ff.release)' = WordsOf(ff.release)
    BY DEF WordsOf
  <2>4. RequestOf(s)' = [nid |-> rq.nid, l2id |-> rq.l2id, paddr |-> rq.paddr, cmd |-> rq.cmd]
    BY <2>1 DEF RequestOf, Requester, Line, Tenant
  <2>5. RequestOf(s)' = rq
    BY <2>4 DEF Request
  <2>6. QED BY <2>1, <2>2, <2>3, <2>5 DEF Unanswered, Tenant
<1>4. \A u \in Slots : u # s => Unanswered(u)' = Unanswered(u) /\ RequestOf(u)' = RequestOf(u)
  BY DEF Enters, SameTenant, Unanswered, RequestOf, Line, Requester, WordsOf
<1>5. rq \notin asked
  BY <1>1
<1>6. AskedOnce' /\ AskedLacks'
  <2>1. AskedOnce'
    BY <1>1, <1>2 DEF Asking, AskedOnce
  <2>2. AskedLacks'
    BY <1>1, <1>2 DEF Asking, AskedLacks
  <2>3. QED BY <2>1, <2>2
<1>7. HeldWasAsked'
  BY <1>1, <1>2, <1>3, <1>4 DEF Asking, HeldWasAsked
<1>8. AnswerWasAsked'
  BY <1>1, <1>2 DEF Asking, AnswerWasAsked
<1>9. HeldOnce'
  <2>1. \A u \in Slots : u # s /\ Unanswered(u) => RequestOf(u) # rq
    BY <1>2, <1>5 DEF Asking, HeldWasAsked
  <2>2. QED BY <1>2, <1>3, <1>4, <2>1 DEF Asking, HeldOnce
<1>10. HeldOrAnswered'
  <2>1. \A m \in Answers : ~IsAnswerTo(m, rq)
    BY <1>1, <1>2 DEF Asking, AnswerWasAsked, IsAnswerTo
  <2>2. \A u \in Slots, m \in Answers : Unanswered(u)' => ~IsAnswerTo(m, RequestOf(u)')
    BY <1>2, <1>3, <1>4, <2>1 DEF Asking, HeldOrAnswered
  <2>3. QED BY <2>2 DEF HeldOrAnswered
<1>11. AskedIsHeld'
  <2>1. ASSUME NEW o \in asked
        PROVE  (\E u \in Slots : u # s /\ Unanswered(u) /\ RequestOf(u) = o) \/ (\E m \in Answers : IsAnswerTo(m, o))
    BY <1>2, <1>3, <2>1 DEF Asking, AskedIsHeld
  <2>2. ASSUME NEW o \in asked'
        PROVE  (\E u \in Slots : Unanswered(u)' /\ RequestOf(u)' = o) \/ (\E m \in Answers' : IsAnswerTo(m, o))
    BY <1>1, <1>3, <1>4, <2>1, <2>2
  <2>3. QED BY <2>2 DEF AskedIsHeld
<1>12. QED BY <1>6, <1>7, <1>8, <1>9, <1>10, <1>11 DEF Asking

(* The links of the queues, by slot.                                       *)
Follows(u, t) == req_buf[u].valid /\ req_buf[u].next = t + 1
Chained ==
    /\ \A u, t \in Slots : Follows(u, t) => req_buf[t].valid /\ SameHash(u, t)
    /\ \A u, v, t \in Slots : Follows(u, t) /\ Follows(v, t) => u = v
Rising(rank) == \A u, t \in Slots : Follows(u, t) => rank[u] < rank[t]

LEMMA ChainedIs == RegistersOK => (Linked <=> Chained) /\ \A rank : Ascending(rank) <=> Rising(rank)
<1> SUFFICES ASSUME RegistersOK PROVE (Linked <=> Chained) /\ \A rank : Ascending(rank) <=> Rising(rank)
  OBVIOUS
<1>1. \A u \in Slots : req_buf[u].next \in Drid
  BY SlotTypes
<1>2. \A u, t \in Slots : Follows(u, t) <=> req_buf[u].valid /\ req_buf[u].next # 0 /\ SlotOf(req_buf[u].next) = t
  BY <1>1, SlotNames, NamesOneSlot DEF Follows
<1>3. \A u \in Slots : SlotOf(req_buf[u].next) \in Slots
  BY <1>1, SlotOfType
<1>4. \A u, v \in Slots : req_buf[u].next # 0 /\ req_buf[v].next # 0 =>
                              (req_buf[u].next = req_buf[v].next <=> SlotOf(req_buf[u].next) = SlotOf(req_buf[v].next))
  BY <1>1, NamesOneSlot
<1>5. \A rank : Ascending(rank) <=> Rising(rank)
  BY <1>2, <1>3 DEF Ascending, Rising
<1>6. Linked <=> Chained
  <2>1. ASSUME Linked PROVE Chained
    BY <1>2, <1>4, <2>1 DEF Linked, Chained
  <2>2. ASSUME Chained, NEW u \in Slots, req_buf[u].valid, req_buf[u].next # 0, NEW t, t = SlotOf(req_buf[u].next)
        PROVE  /\ req_buf[t].valid /\ SameHash(u, t)
               /\ \A v \in Slots : req_buf[v].valid /\ req_buf[v].next = req_buf[u].next => v = u
    <3>1. t \in Slots /\ Follows(u, t)
      BY <1>2, <1>3, <2>2
    <3>2. \A v \in Slots : req_buf[v].valid /\ req_buf[v].next = req_buf[u].next => Follows(v, t)
      BY <1>2, <2>2, <3>1
    <3>3. QED BY <2>2, <3>1, <3>2 DEF Chained
  <2>3. QED BY <2>1, <2>2 DEF Linked
<1>7. QED BY <1>5, <1>6

LEMMA ChainedNext == RegistersOK' => (Linked' <=> Chained') /\ \A rank : Ascending(rank)' <=> Rising(rank)'
<1>1. (RegistersOK => (Linked <=> Chained) /\ \A rank : Ascending(rank) <=> Rising(rank))'
  BY ChainedIs, PTL
<1>2. QED BY <1>1

LEMMA WaitingIs == \A t : Waiting(t) <=> \E u \in Slots : Follows(u, t)
BY DEF Waiting, Follows

LEMMA WaitingNext == \A t : Waiting(t)' <=> \E u \in Slots : Follows(u, t)'
BY DEF Waiting, Follows

LEMMA QueueFacts ==
    ASSUME NEW where, Inv(where)
    PROVE  /\ Chained /\ OneHead /\ OneLast /\ HeadAndLast /\ FreeUnlinked
           /\ \E rank \in [Slots -> Nat] : Rising(rank)
<1>1. Queues /\ RegistersOK
  BY DEF Inv, Typed
<1>2. QED BY <1>1, ChainedIs DEF Queues, Acyclic

(* The first request of a hash starts a queue of its own.                  *)
LEMMA EnterFirst ==
    ASSUME NEW where, Inv(where), Typed', NEW s \in Slots, NEW rq \in Request, Enters(s, rq),
           Conflicts(rq.paddr) = {}, \A u \in Slots : u # s => req_buf'[u].next = req_buf[u].next
    PROVE  Queues' /\ Active(s)' /\ \A u \in Slots : u # s => Active(u)' = Active(u)
<1>1. /\ ~req_buf[s].valid /\ req_buf'[s].valid /\ req_buf'[s].next = 0 /\ Line(s)' = rq.paddr
      /\ \A u \in Slots : u # s => req_buf'[u].valid = req_buf[u].valid /\ Line(u)' = Line(u)
  BY DEF Enters, SameTenant, Line, Tenant
<1>2. \A u, t \in Slots : Follows(u, t)' = Follows(u, t)
  BY <1>1, SlotNames DEF Follows
<1>3. \A t \in Slots : Waiting(t)' = Waiting(t)
  BY <1>2, WaitingIs, WaitingNext
<1>4. ~Waiting(s)
  BY <1>1, FreeIsNowhere
<1>5. Active(s)' /\ \A u \in Slots : u # s => Active(u)' = Active(u)
  BY <1>1, <1>3, <1>4 DEF Active
<1>6. \A u, v \in Slots : u # s /\ v # s => SameHash(u, v)' = SameHash(u, v)
  BY <1>1 DEF SameHash
<1>7. Last(s)' /\ \A u \in Slots : u # s => Last(u)' = Last(u)
  BY <1>1 DEF Last
<1>8. \A u \in Slots : u # s /\ req_buf[u].valid => HashOf[Line(u)] # HashOf[rq.paddr]
  <2> SUFFICES ASSUME NEW u \in Slots, req_buf[u].valid, HashOf[Line(u)] = HashOf[rq.paddr] PROVE FALSE
    OBVIOUS
  <2>1. PICK v \in Slots : Last(v) /\ SameHash(u, v)
    BY QueueFacts DEF HeadAndLast
  <2>2. v \in Conflicts(rq.paddr)
    BY <2>1 DEF Conflicts, Last, SameHash, Line
  <2>3. QED BY <2>2
<1>9. \A u \in Slots : u # s /\ req_buf[u].valid => ~SameHash(u, s)' /\ ~SameHash(s, u)'
  BY <1>1, <1>8 DEF SameHash
<1>10. Linked' /\ Acyclic'
  <2>0. RegistersOK'
    BY DEF Typed
  <2>1. Chained'
    <3>1. \A u, t \in Slots : Follows(u, t) => u # s /\ t # s
      BY <1>1, <1>4, WaitingIs DEF Follows
    <3>2. QED BY <1>1, <1>2, <1>6, <3>1, QueueFacts DEF Chained
  <2>2. \E rank \in [Slots -> Nat] : Rising(rank)'
    BY <1>2, QueueFacts DEF Rising
  <2>3. QED BY <2>0, <2>1, <2>2, ChainedNext DEF Acyclic
<1>11. OneHead'
  BY <1>1, <1>5, <1>6, <1>9, QueueFacts DEF OneHead, Active
<1>12. OneLast'
  BY <1>1, <1>6, <1>7, <1>9, QueueFacts DEF OneLast, Last
<1>13. HeadAndLast'
  <2>1. SameHash(s, s)'
    BY DEF SameHash
  <2>2. ASSUME NEW u \in Slots, u # s, req_buf'[u].valid
        PROVE  (\E t \in Slots : Active(t)' /\ SameHash(u, t)') /\ (\E t \in Slots : Last(t)' /\ SameHash(u, t)')
    <3>1. PICK h \in Slots : Active(h) /\ SameHash(u, h)
      BY <1>1, <2>2, QueueFacts DEF HeadAndLast
    <3>2. PICK l \in Slots : Last(l) /\ SameHash(u, l)
      BY <1>1, <2>2, QueueFacts DEF HeadAndLast
    <3>3. h # s /\ l # s
      BY <1>1, <3>1, <3>2 DEF Active, Last
    <3>4. QED BY <1>5, <1>6, <1>7, <2>2, <3>1, <3>2, <3>3
  <2>3. QED BY <1>5, <1>7, <2>1, <2>2 DEF HeadAndLast
<1>14. FreeUnlinked'
  BY <1>1, QueueFacts DEF FreeUnlinked
<1>15. QED BY <1>5, <1>10, <1>11, <1>12, <1>13, <1>14 DEF Queues

(* A request whose hash has a queue enters it at its end.                  *)
LEMMA EnterBehind ==
    ASSUME NEW where, Inv(where), Typed', NEW s \in Slots, NEW rq \in Request, Enters(s, rq),
           NEW last \in Conflicts(rq.paddr), req_buf'[last].next = s + 1,
           \A u \in Slots : u # s /\ u # last => req_buf'[u].next = req_buf[u].next
    PROVE  Queues' /\ \A u \in Slots : Active(u)' = Active(u)
<1>1. /\ ~req_buf[s].valid /\ req_buf'[s].valid /\ req_buf'[s].next = 0 /\ Line(s)' = rq.paddr
      /\ \A u \in Slots : u # s => req_buf'[u].valid = req_buf[u].valid /\ Line(u)' = Line(u)
  BY DEF Enters, SameTenant, Line, Tenant
<1>2. /\ last \in Slots /\ req_buf[last].valid /\ req_buf[last].next = 0 /\ last # s
      /\ HashOf[Line(last)] = HashOf[rq.paddr] /\ Last(last)
  BY <1>1 DEF Conflicts, Last, Line
<1>3. ~Waiting(s) /\ \A u \in Slots : ~Follows(u, s)
  BY <1>1, FreeIsNowhere, WaitingIs
<1>4. \A u, t \in Slots : Follows(u, t)' <=> Follows(u, t) \/ (u = last /\ t = s)
  <2>1. \A t \in Slots : Follows(last, t)' <=> t = s
    BY <1>1, <1>2, NumberApart DEF Follows
  <2>2. \A t \in Slots : ~Follows(last, t) /\ ~Follows(s, t) /\ ~Follows(s, t)'
    BY <1>1, <1>2, SlotNames DEF Follows
  <2>3. \A u, t \in Slots : u # s /\ u # last => Follows(u, t)' = Follows(u, t)
    BY <1>1 DEF Follows
  <2>4. QED BY <2>1, <2>2, <2>3
<1>5. Waiting(s)' /\ \A t \in Slots : t # s => Waiting(t)' = Waiting(t)
  BY <1>2, <1>4, WaitingIs, WaitingNext
<1>6. \A u \in Slots : Active(u)' = Active(u)
  BY <1>1, <1>5 DEF Active
<1>7. \A u, v \in Slots : u # s /\ v # s => SameHash(u, v)' = SameHash(u, v)
  BY <1>1 DEF SameHash
<1>8. \A u \in Slots : u # s => SameHash(u, s)' = SameHash(u, last) /\ SameHash(s, u)' = SameHash(last, u)
  BY <1>1, <1>2 DEF SameHash
<1>9. Last(s)' /\ ~Last(last)' /\ \A u \in Slots : u # s /\ u # last => Last(u)' = Last(u)
  BY <1>1, <1>2, SlotNames DEF Last
<1>10. Linked' /\ Acyclic'
  <2>0. RegistersOK'
    BY DEF Typed
  <2>1. Chained'
    <3>1. \A u, t \in Slots : Follows(u, t) => u # s /\ t # s /\ u # last
      BY <1>1, <1>2, <1>3, SlotNames DEF Follows
    <3>2. \A u, t \in Slots : Follows(u, t)' => req_buf'[t].valid /\ SameHash(u, t)'
      <4>1. SameHash(last, s)'
        BY <1>1, <1>2 DEF SameHash
      <4>2. \A u, t \in Slots : Follows(u, t) => req_buf[t].valid /\ SameHash(u, t)
        BY QueueFacts DEF Chained
      <4>3. QED BY <1>1, <1>4, <1>7, <3>1, <4>1, <4>2
    <3>3. \A u, v, t \in Slots : Follows(u, t)' /\ Follows(v, t)' => u = v
      <4>1. \A u, v, t \in Slots : Follows(u, t) /\ Follows(v, t) => u = v
        BY QueueFacts DEF Chained
      <4>2. QED BY <1>4, <3>1, <4>1
    <3>4. QED BY <3>2, <3>3 DEF Chained
  <2>2. \E rank \in [Slots -> Nat] : Rising(rank)'
    <3>1. PICK rank \in [Slots -> Nat] : Rising(rank)
      BY QueueFacts
    <3>2. PICK rank2 : rank2 = [rank EXCEPT ![s] = rank[last] + 1]
      OBVIOUS
    <3>3. rank2 \in [Slots -> Nat] /\ rank2[s] = rank[last] + 1 /\ \A u \in Slots : u # s => rank2[u] = rank[u]
      BY <1>2, <3>2
    <3>4. \A u, t \in Slots : Follows(u, t) => u # s /\ t # s /\ rank[u] < rank[t]
      BY <1>1, <1>3, <3>1 DEF Follows, Rising
    <3>5. rank2[last] < rank2[s]
      BY <1>2, <3>3
    <3>6. Rising(rank2)'
      BY <1>4, <3>3, <3>4, <3>5 DEF Rising
    <3>7. QED BY <3>3, <3>6
  <2>3. QED BY <2>0, <2>1, <2>2, ChainedNext DEF Acyclic
<1>11. OneHead'
  <2>1. \A u \in Slots : Active(u)' => u # s
    BY <1>1, <1>6 DEF Active
  <2>2. QED BY <1>6, <1>7, <2>1, QueueFacts DEF OneHead
<1>12. OneLast'
  <2>1. ASSUME NEW u \in Slots, u # s, Last(u)', SameHash(u, s)' \/ SameHash(s, u)' PROVE FALSE
    <3>1. Last(u) /\ u # last
      BY <1>9, <2>1
    <3>2. SameHash(u, last)
      BY <1>8, <2>1 DEF SameHash
    <3>3. QED BY <1>2, <3>1, <3>2, QueueFacts DEF OneLast
  <2>2. ASSUME NEW u \in Slots, NEW v \in Slots, u # s, v # s, Last(u)', Last(v)', SameHash(u, v)' PROVE u = v
    BY <1>7, <1>9, <2>2, QueueFacts DEF OneLast
  <2>3. QED BY <2>1, <2>2 DEF OneLast
<1>13. HeadAndLast'
  <2>1. ASSUME NEW u \in Slots, req_buf'[u].valid PROVE \E t \in Slots : Active(t)' /\ SameHash(u, t)'
    <3>1. PICK v \in Slots : v # s /\ req_buf[v].valid /\ \A t \in Slots : t # s => SameHash(u, t)' = SameHash(v, t)
      BY <1>1, <1>2, <1>7, <1>8, <2>1
    <3>2. PICK h \in Slots : Active(h) /\ SameHash(v, h)
      BY <3>1, QueueFacts DEF HeadAndLast
    <3>3. h # s
      BY <1>1, <3>2 DEF Active
    <3>4. QED BY <1>6, <3>1, <3>2, <3>3
  <2>2. ASSUME NEW u \in Slots, req_buf'[u].valid PROVE \E t \in Slots : Last(t)' /\ SameHash(u, t)'
    <3>1. CASE u = s
      BY <1>9, <3>1 DEF SameHash
    <3>2. CASE u # s
      <4>1. PICK l \in Slots : Last(l) /\ SameHash(u, l)
        BY <1>1, <2>2, <3>2, QueueFacts DEF HeadAndLast
      <4>2. l # s
        BY <1>1, <4>1 DEF Last
      <4>3. CASE l = last
        BY <1>8, <1>9, <3>2, <4>1, <4>3
      <4>4. CASE l # last
        BY <1>7, <1>9, <3>2, <4>1, <4>2, <4>4
      <4>5. QED BY <4>3, <4>4
    <3>3. QED BY <3>1, <3>2
  <2>3. QED BY <2>1, <2>2 DEF HeadAndLast
<1>14. FreeUnlinked'
  BY <1>1, <1>2, QueueFacts DEF FreeUnlinked
<1>15. QED BY <1>6, <1>10, <1>11, <1>12, <1>13, <1>14 DEF Queues

(* The rest of a step that accepts a request.                              *)
LEMMA EnterStep ==
    ASSUME NEW where, Inv(where), Typed', NEW s \in Slots, NEW rq \in Request, Enters(s, rq), Questions(rq),
           rq.cmd \in {REQ_S, REQ_M}, rq.nid \in Nid,
           UNCHANGED <<entry_buf, tags, entries, latch, copy, snoops, disp, snoop_ack, memory>>,
           ff'.entry = ff.entry, ff'.mem = ff.mem, ff'.snack = ff.snack, ff'.disp_snack = ff.disp_snack,
           ff'.release = ff.release, ff'.pfreq = ff.pfreq,
           Commands' = Commands, NoDouble(ff'.tag_req), CommandOrder', Queues',
           NEW to \in {"tag", "none"}, NEW moved, moved = [where EXCEPT ![s] = to],
           moved \in [Slots -> Places], Posted(moved)', Resting(moved)'
    PROVE  IInv'
<1>1. where[s] = "none"
  BY FreeIsNowhere DEF Enters
<1>2. Answers' = Answers
  BY DEF Answers
<1>3. \A u \in Slots : where[u] # "none" => SameRequest(u) /\ entry_buf'[u] = entry_buf[u]
  BY <1>1 DEF Enters, SameTenant, SameRequest
<1>4. \A k \in Lines : Spared(k)
  BY <1>2, SparedAll
<1>5. \A u \in Slots : Kept(u, moved[u])'
  <2>1. \A u \in Slots : where[u] # "none" => Undisturbed(u)
    BY <1>2, <1>3, <1>4, Everywhere
  <2>2. Kept(s, to)'
    BY DEF Kept, Looking, Asked, Snooping
  <2>3. QED BY <2>1, <2>2, AllKept
<1>6. Tables' /\ Tracked'
  BY <1>4, KeepTables, Shrinks DEF Spared
<1>7. Asking'
  BY <1>2, EnterAsking
<1>8. Quiet'
  BY DEF Inv, Quiet, Enters
<1>9. SlotsMatch'
  BY DEF Inv, SlotsMatch, Enters, SameTenant, Tenant, Requester
<1>10. RepliesMatch'
  <2>1. \A d \in disp : DispSlot(d) \in Slots /\ DispSlot(d) # s
    BY <1>1, DispAt
  <2>2. \A d \in disp : req_buf'[DispSlot(d)].cmd = req_buf[DispSlot(d)].cmd
    BY <2>1 DEF Enters, SameTenant
  <2>3. QED BY <2>2 DEF Inv, RepliesMatch, DispSlot
<1>11. Orders'
  BY DEF Inv, Orders, NoDoubles, AnswerOrder
<1>12. RequestsOnly'
  BY DEF Inv, RequestsOnly
<1>13. QED
  BY <1>5, <1>6, <1>7, <1>8, <1>9, <1>10, <1>11, <1>12 DEF Inv, IInv, Whereabouts

LEMMA AcceptStep ==
    ASSUME NEW where, Inv(where), Typed', AcceptRequest
    PROVE  IInv'
<1>1. PICK rq \in Request, s \in Slots, port \in Slots :
        /\ Send(rq)
        /\ FreeSlot(s) /\ Conflicts(rq.paddr) = {} /\ Room(ff.tag_req)
        /\ req_buf' = Allocated(s, rq, port)
        /\ ff' = [ff EXCEPT !.tag_req =
                     Append(@, StageOf(FALSE, rq.cmd, rq.paddr, rq.nid, s + 1))]
        /\ UNCHANGED <<entry_buf, tags, entries, latch, copy, snoops, disp, snoop_ack, memory>>
  BY DEF AcceptRequest
<1>x. PICK x : x = StageOf(FALSE, rq.cmd, rq.paddr, rq.nid, s + 1)
  OBVIOUS
<1>2. /\ entry_buf' = entry_buf /\ tags' = tags /\ entries' = entries /\ latch' = latch /\ copy' = copy
      /\ snoops' = snoops /\ disp' = disp /\ snoop_ack' = snoop_ack /\ memory' = memory
  BY <1>1
<1>3. /\ ff'.entry = ff.entry /\ ff'.snack = ff.snack /\ ff'.tag_req = Append(ff.tag_req, x)
      /\ ff'.mem = ff.mem /\ ff'.disp_snack = ff.disp_snack /\ ff'.release = ff.release
      /\ ff'.pfreq = ff.pfreq
  BY <1>1, <1>x, FlopFacts DEF QueueFlops
<1>4. ~req_buf[s].valid /\ where[s] = "none"
  BY <1>1, FreeIsNowhere DEF FreeSlot
<1>5. req_buf'[s] = Tenant(rq) /\ \A u \in Slots : u # s => req_buf'[u] = req_buf[u]
  BY <1>1, AllocatedIs
<1>6. Questions(rq) /\ rq.cmd \in {REQ_S, REQ_M} /\ rq.nid \in Nid /\ rq.paddr \in Lines
  BY <1>1, SendIs
<1>7. Enters(s, rq)
  <2>1. \A u \in Slots : ~req_buf'[u].found
    BY <1>5 DEF Inv, Quiet, Tenant
  <2>2. QED BY <1>4, <1>5, <2>1 DEF Enters, SameTenant
<1>8. Queues' /\ Active(s)' /\ \A u \in Slots : u # s => Active(u)' = Active(u)
  BY <1>1, <1>5, <1>7, EnterFirst
<1>9. x \in Stage /\ ~x.dr_cmd /\ x.drid = s + 1
  <2>1. rq.cmd \in 0 .. 2 /\ rq.nid \in Nodes /\ s + 1 \in Drid /\ FALSE \in BOOLEAN
    BY <1>6, SlotNames DEF REQ_S, REQ_M, Nodes
  <2>2. StageOf(FALSE, rq.cmd, rq.paddr, rq.nid, s + 1) \in Stage
    BY <1>6, <2>1, WordTypes
  <2>3. QED BY <1>x, <2>2 DEF StageOf
<1>10. x \notin WordsOf(ff.tag_req)
  <2> SUFFICES ASSUME x \in WordsOf(ff.tag_req) PROVE FALSE
    OBVIOUS
  <2>1. PICK u \in Slots : where[u] = "tag" /\ x = StageWord(u)
    BY <1>9, TagAt
  <2>2. x.drid = u + 1
    BY <2>1 DEF StageWord, StageOf
  <2>3. QED BY <1>4, <1>9, <2>1, <2>2, NumberApart
<1>11. /\ WordsOf(ff'.tag_req) = WordsOf(ff.tag_req) \cup {x}
       /\ NoDouble(ff'.tag_req) /\ CommandOrder'
  BY <1>1, <1>3, <1>9, <1>10, TagPut
<1>12. Commands' = Commands
  BY <1>9, <1>11 DEF Commands
<1> PICK moved : moved = [where EXCEPT ![s] = "tag"]
  OBVIOUS
<1>13. moved \in [Slots -> Places] /\ Posted(moved)'
  <2>1. SameWords(where, Wording, Wording', s)
    BY <1>2, <1>5, KeepWording DEF SameRequest, TableEntry, Line
  <2>2. Wording'["tag"][s] = x
    <3>1. StageWord(s)' = x
      BY <1>5, <1>x DEF StageWord, Line, Requester, Tenant
    <3>2. QED BY <3>1, TagWord
  <2>3. Shifted(Board, Board', Wording, Wording', s, "none", "tag")
    <3>1. Board'["tag"] = Board["tag"] \cup {x}
      BY <1>9, <1>11, BoardIs, BoardIsNext
    <3>2. \A q \in Stations : q # "tag" => Board'[q] = Board[q]
      BY <1>2, <1>3, SameStation DEF Stations
    <3>3. "none" \notin Stations
      BY DEF Stations
    <3>4. QED BY <2>2, <3>1, <3>2, <3>3 DEF Shifted
  <2>4. "none" \in Places /\ "tag" \in Places
    BY DEF Places, Stations
  <2>5. QED BY <1>4, <2>1, <2>3, <2>4, Moves
<1>14. Resting(moved)'
  <2>1. where \in [Slots -> Places] /\ Resting(where)
    BY DEF Inv, Whereabouts
  <2>2. QED BY <1>8, <2>1 DEF Resting
<1>15. QED
  BY <1>2, <1>3, <1>6, <1>7, <1>8, <1>11, <1>12, <1>13, <1>14, EnterStep

LEMMA ConflictingStep ==
    ASSUME NEW where, Inv(where), Typed', AcceptConflicting
    PROVE  IInv'
<1>1. PICK rq \in Request, s \in Slots, port \in Slots :
        /\ Send(rq)
        /\ FreeSlot(s) /\ Conflicts(rq.paddr) # {}
        /\ req_buf' = Queued(s, rq, port)
        /\ UNCHANGED <<entry_buf, tags, entries, ff, latch, copy, snoops, disp, snoop_ack, memory>>
  BY DEF AcceptConflicting
<1>a. PICK a : a = Allocated(s, rq, port)
  OBVIOUS
<1>l. PICK last : last = Lowest(Conflicts(rq.paddr))
  OBVIOUS
<1>2. /\ entry_buf' = entry_buf /\ tags' = tags /\ entries' = entries /\ latch' = latch /\ copy' = copy
      /\ snoops' = snoops /\ disp' = disp /\ snoop_ack' = snoop_ack /\ memory' = memory /\ ff' = ff
  BY <1>1
<1>3. last \in Conflicts(rq.paddr) /\ last \in Slots /\ req_buf[last].valid
  <2>1. Conflicts(rq.paddr) \in SUBSET Nat /\ Conflicts(rq.paddr) \in SUBSET Slots
    BY Positive DEF Conflicts, Slots
  <2>2. last \in Conflicts(rq.paddr)
    BY <1>1, <1>l, <2>1, LowestIn
  <2>3. QED BY <2>1, <2>2 DEF Conflicts
<1>4. ~req_buf[s].valid /\ where[s] = "none"
  BY <1>1, FreeIsNowhere DEF FreeSlot
<1>5. a \in [Slots -> Outstanding] /\ a[s] = Tenant(rq) /\ \A u \in Slots : u # s => a[u] = req_buf[u]
  BY <1>a, AllocatedIs
<1>6. /\ req_buf'[last] = [a[last] EXCEPT !.next = s + 1]
      /\ \A u \in Slots : u # last => req_buf'[u] = a[u]
  BY <1>1, <1>3, <1>5, <1>a, <1>l DEF Queued
<1>7. /\ req_buf'[last].valid = req_buf[last].valid /\ req_buf'[last].cmd = req_buf[last].cmd
      /\ req_buf'[last].paddr = req_buf[last].paddr /\ req_buf'[last].nid = req_buf[last].nid
      /\ req_buf'[last].l2id = req_buf[last].l2id /\ req_buf'[last].found = req_buf[last].found
      /\ req_buf'[last].next = s + 1 /\ last # s
  <2>1. last # s /\ a[last] = req_buf[last] /\ a[last] \in Outstanding
    BY <1>3, <1>4, <1>5
  <2>2. QED BY <1>6, <2>1 DEF Outstanding
<1>8. Questions(rq) /\ rq.cmd \in {REQ_S, REQ_M} /\ rq.nid \in Nid /\ rq.paddr \in Lines
  BY <1>1, SendIs
<1>9. Enters(s, rq)
  <2>1. \A u \in Slots : ~req_buf'[u].found
    <3>1. \A u \in Slots : ~req_buf[u].found
      BY DEF Inv, Quiet
    <3>2. \A u \in Slots : ~a[u].found
      BY <1>5, <3>1 DEF Tenant
    <3>3. ~req_buf'[last].found
      BY <1>3, <1>7, <3>1
    <3>4. \A u \in Slots : u # last => ~req_buf'[u].found
      BY <1>6, <3>2
    <3>5. QED BY <3>3, <3>4
  <2>2. req_buf'[s] = Tenant(rq)
    BY <1>5, <1>6, <1>7
  <2>3. \A u \in Slots : u # s => SameTenant(u)
    BY <1>5, <1>6, <1>7 DEF SameTenant
  <2>4. QED BY <1>4, <2>1, <2>2, <2>3 DEF Enters
<1>10. Queues' /\ \A u \in Slots : Active(u)' = Active(u)
  <2>1. \A u \in Slots : u # s /\ u # last => req_buf'[u].next = req_buf[u].next
    BY <1>5, <1>6
  <2>2. QED BY <1>3, <1>7, <1>9, <2>1, EnterBehind
<1>11. Commands' = Commands /\ NoDouble(ff'.tag_req) /\ CommandOrder'
  BY <1>2 DEF Inv, Orders, NoDoubles, CommandOrder, Commands
<1> PICK moved : moved = [where EXCEPT ![s] = "none"]
  OBVIOUS
<1>12. moved = where
  <2>1. where \in [Slots -> Places]
    BY DEF Inv, Whereabouts
  <2>2. QED BY <1>4, <2>1
<1>13. moved \in [Slots -> Places] /\ Posted(moved)'
  <2>1. SameWords(where, Wording, Wording', s)
    <3>1. \A u \in Slots : u # s => SameRequest(u)
      BY <1>9 DEF Enters, SameTenant, SameRequest
    <3>2. \A u \in Slots : u # s => TableEntry(Line(u))' = TableEntry(Line(u))
      BY <1>2, <3>1 DEF SameRequest, TableEntry, Line
    <3>3. QED BY <1>2, <3>1, <3>2, KeepWording
  <2>2. \A q \in Stations : Board'[q] = Board[q]
    BY <1>2, SameStation DEF Stations
  <2>3. where \in [Slots -> Places] /\ Posted(where)'
    BY <1>4, <2>1, <2>2, Stays
  <2>4. QED BY <1>12, <2>3
<1>14. Resting(moved)'
  <2>1. Resting(where)
    BY DEF Inv, Whereabouts
  <2>2. QED BY <1>10, <1>12, <2>1 DEF Resting
<1>15. QED
  BY <1>2, <1>8, <1>9, <1>10, <1>11, <1>13, <1>14, EnterStep

-----------------------------------------------------------------------------
(* A request leaves its slot, and the one behind it starts.                *)

(* Nobody is left in a queue whose first request is its last.              *)
LEMMA AloneInQueue ==
    ASSUME NEW where, Inv(where), NEW s \in Slots, Active(s), req_buf[s].next = 0,
           NEW v \in Slots, req_buf[v].valid, SameHash(s, v)
    PROVE  v = s
<1> SUFFICES ASSUME v # s PROVE FALSE
  OBVIOUS
<1>1. PICK rank \in [Slots -> Nat] : Rising(rank)
  BY QueueFacts
<1> DEFINE rest == {w \in Slots : req_buf[w].valid /\ SameHash(s, w) /\ w # s}
<1>2. {rank[w] : w \in rest} \in SUBSET Nat /\ {rank[w] : w \in rest} # {}
  BY <1>1
<1>3. PICK m \in {rank[w] : w \in rest} : \A k \in {rank[w] : w \in rest} : m <= k
  BY <1>2, LeastNat
<1>4. PICK w \in rest : m = rank[w]
  BY <1>3
<1>5. ~Active(w)
  BY <1>4, QueueFacts DEF OneHead
<1>6. PICK t \in Slots : Follows(t, w)
  BY <1>4, <1>5, WaitingIs DEF Active
<1>7. t \in rest
  <2>1. SameHash(t, w)
    BY <1>4, <1>6, QueueFacts DEF Chained
  <2>2. t # s
    BY <1>4, <1>6, SlotNames DEF Follows
  <2>3. QED BY <1>4, <1>6, <2>1, <2>2 DEF Follows, SameHash
<1>8. rank[t] < rank[w] /\ rank[t] \in Nat /\ rank[w] \in Nat
  BY <1>1, <1>4, <1>6 DEF Rising
<1>9. rank[w] <= rank[t]
  BY <1>3, <1>4, <1>7
<1>10. QED BY <1>8, <1>9

LEMMA LeavesQueue ==
    ASSUME NEW where, Inv(where), Typed', NEW s \in Slots, Active(s), req_buf'[s] = EmptySlot,
           \A u \in Slots : u # s => req_buf'[u] = req_buf[u]
    PROVE  Queues' /\ \A v \in Slots : Active(v)' <=> v # s /\ (Active(v) \/ Follows(s, v))
<1>1. ~req_buf'[s].valid /\ req_buf'[s].next = 0 /\ \A u \in Slots : u # s => Line(u)' = Line(u)
  BY DEF EmptySlot, Line
<1>2. \A u, t \in Slots : Follows(u, t)' <=> Follows(u, t) /\ u # s
  BY <1>1 DEF Follows
<1>3. \A u \in Slots : ~Follows(u, s)
  BY WaitingIs DEF Active
<1>4. \A u, t \in Slots : Follows(u, t) => req_buf[t].valid /\ SameHash(u, t) /\ t # s
  BY <1>3, QueueFacts DEF Chained
<1>5. \A t \in Slots : Waiting(t)' <=> Waiting(t) /\ ~Follows(s, t)
  <2> SUFFICES ASSUME NEW t \in Slots PROVE Waiting(t)' <=> Waiting(t) /\ ~Follows(s, t)
    OBVIOUS
  <2>1. \A u, v \in Slots : Follows(u, t) /\ Follows(v, t) => u = v
    BY QueueFacts DEF Chained
  <2>2. QED BY <1>2, <2>1, WaitingIs, WaitingNext
<1>6. \A v \in Slots : Active(v)' <=> v # s /\ (Active(v) \/ Follows(s, v))
  BY <1>1, <1>4, <1>5 DEF Active
<1>7. \A u, v \in Slots : u # s /\ v # s => SameHash(u, v)' = SameHash(u, v)
  BY <1>1 DEF SameHash
<1>8. Linked' /\ Acyclic'
  <2>0. RegistersOK'
    BY DEF Typed
  <2>1. Chained'
    <3>1. \A u, v, t \in Slots : Follows(u, t) /\ Follows(v, t) => u = v
      BY QueueFacts DEF Chained
    <3>2. \A u, t \in Slots : Follows(u, t)' => req_buf'[t].valid /\ SameHash(u, t)'
      BY <1>2, <1>4, <1>7
    <3>3. \A u, v, t \in Slots : Follows(u, t)' /\ Follows(v, t)' => u = v
      BY <1>2, <3>1
    <3>4. QED BY <3>2, <3>3 DEF Chained
  <2>2. \E rank \in [Slots -> Nat] : Rising(rank)'
    BY <1>2, QueueFacts DEF Rising
  <2>3. QED BY <2>0, <2>1, <2>2, ChainedNext DEF Acyclic
<1>9. OneHead'
  <2> SUFFICES ASSUME NEW u \in Slots, NEW v \in Slots, Active(u)', Active(v)', SameHash(u, v)' PROVE u = v
    BY DEF OneHead
  <2>1. /\ u # s /\ v # s /\ SameHash(u, v)
        /\ (Active(u) \/ Follows(s, u)) /\ (Active(v) \/ Follows(s, v))
    BY <1>6, <1>7
  <2>2. CASE Active(u) /\ Active(v)
    BY <2>1, <2>2, QueueFacts DEF OneHead
  <2>3. CASE Follows(s, u) /\ Follows(s, v)
    BY <2>3, NumberApart DEF Follows
  <2>4. CASE Active(u) /\ Follows(s, v)
    <3>1. SameHash(u, s)
      BY <1>4, <2>1, <2>4 DEF SameHash
    <3>2. QED BY <2>1, <2>4, <3>1, QueueFacts DEF OneHead
  <2>5. CASE Follows(s, u) /\ Active(v)
    <3>1. SameHash(v, s)
      BY <1>4, <2>1, <2>5 DEF SameHash
    <3>2. QED BY <2>1, <2>5, <3>1, QueueFacts DEF OneHead
  <2>6. QED BY <1>6, <2>2, <2>3, <2>4, <2>5
<1>10. OneLast'
  <2>1. \A u \in Slots : Last(u)' => u # s /\ Last(u)
    BY <1>1 DEF Last
  <2>2. QED BY <1>7, <2>1, QueueFacts DEF OneLast
<1>11. HeadAndLast'
  <2> SUFFICES ASSUME NEW u \in Slots, req_buf'[u].valid
               PROVE  (\E t \in Slots : Active(t)' /\ SameHash(u, t)') /\ (\E t \in Slots : Last(t)' /\ SameHash(u, t)')
    BY DEF HeadAndLast
  <2>1. u # s /\ req_buf[u].valid
    BY <1>1
  <2>2. PICK h \in Slots : Active(h) /\ SameHash(u, h)
    BY <2>1, QueueFacts DEF HeadAndLast
  <2>3. PICK l \in Slots : Last(l) /\ SameHash(u, l)
    BY <2>1, QueueFacts DEF HeadAndLast
  <2>4. SameHash(s, u) => req_buf[s].next # 0
    BY <2>1, AloneInQueue
  <2>5. l # s
    BY <2>3, <2>4 DEF Last, SameHash
  <2>6. Last(l)' /\ SameHash(u, l)'
    BY <1>7, <2>1, <2>3, <2>5 DEF Last
  <2>7. CASE h # s
    BY <1>6, <1>7, <2>1, <2>2, <2>6, <2>7
  <2>8. CASE h = s
    <3>1. req_buf[s].next # 0 /\ req_buf[s].valid /\ req_buf[s].next \in Drid
      BY <2>2, <2>4, <2>8, SlotFacts DEF SameHash, Active
    <3>2. PICK t \in Slots : Follows(s, t)
      BY <3>1, NamesOneSlot DEF Follows
    <3>3. t # s /\ SameHash(u, t)
      BY <1>4, <2>2, <2>8, <3>2 DEF SameHash
    <3>4. QED BY <1>6, <1>7, <2>1, <2>6, <3>2, <3>3
  <2>9. QED BY <2>7, <2>8
<1>12. FreeUnlinked'
  BY <1>1, QueueFacts DEF FreeUnlinked
<1>13. QED BY <1>6, <1>8, <1>9, <1>10, <1>11, <1>12 DEF Queues

(* The requests the L2s wait for are those they waited for.                *)
LEMMA LeaveAsking ==
    ASSUME NEW where, Inv(where), NEW s \in Slots, req_buf'[s] = EmptySlot, s \in WordsOf(ff.release),
           WordsOf(ff'.release) = WordsOf(ff.release) \ {s},
           \A u \in Slots : u # s => req_buf'[u] = req_buf[u],
           asked' = asked, copy' = copy, Answers' = Answers
    PROVE  Asking'
<1>1. Asking
  BY DEF Inv
<1>2. ~Unanswered(s) /\ ~Unanswered(s)'
  BY DEF Unanswered, EmptySlot
<1>3. \A u \in Slots : u # s => Unanswered(u)' = Unanswered(u) /\ RequestOf(u)' = RequestOf(u)
  <2>1. WordsOf(ff.release)' = WordsOf(ff.release) \ {s}
    BY DEF WordsOf
  <2>2. QED BY <2>1 DEF Unanswered, RequestOf, Line, Requester
<1>4. AskedOnce' /\ AskedLacks' /\ AnswerWasAsked'
  BY <1>1 DEF Asking, AskedOnce, AskedLacks, AnswerWasAsked
<1>5. HeldWasAsked' /\ HeldOnce'
  BY <1>1, <1>2, <1>3 DEF Asking, HeldWasAsked, HeldOnce
<1>6. HeldOrAnswered' /\ AskedIsHeld'
  BY <1>1, <1>2, <1>3 DEF Asking, HeldOrAnswered, AskedIsHeld
<1>7. QED BY <1>4, <1>5, <1>6 DEF Asking

(* The rest of the release of a slot.                                      *)
LEMMA LeaveStep ==
    ASSUME NEW where, Inv(where), Typed', NEW s \in Slots, where[s] = "release",
           req_buf'[s] = EmptySlot, \A u \in Slots : u # s => req_buf'[u] = req_buf[u],
           UNCHANGED <<entry_buf, tags, entries, latch, copy, asked, snoops, disp, snoop_ack, memory>>,
           ff'.entry = ff.entry, ff'.mem = ff.mem, ff'.snack = ff.snack, ff'.disp_snack = ff.disp_snack,
           ff'.pfreq = ff.pfreq, WordsOf(ff'.release) = WordsOf(ff.release) \ {s}, NoDouble(ff'.release),
           Commands' = Commands, NoDouble(ff'.tag_req), CommandOrder', Queues',
           NEW moved \in [Slots -> Places], Posted(moved)', Resting(moved)', moved[s] = "none",
           \A u \in Slots : u # s /\ moved[u] # where[u] => moved[u] = "tag"
    PROVE  IInv'
<1>1. Answers' = Answers
  BY DEF Answers
<1>2. s \in WordsOf(ff.release)
  BY Releasing
<1>3. Asking'
  BY <1>1, <1>2, LeaveAsking
<1>4. Quiet'
  BY DEF Inv, Quiet, EmptySlot
<1>5. SlotsMatch'
  BY DEF Inv, SlotsMatch, Requester, EmptySlot
<1>6. RepliesMatch'
  <2>1. \A d \in disp : DispSlot(d) \in Slots /\ DispSlot(d) # s
    BY DispAt
  <2>2. QED BY <2>1 DEF Inv, RepliesMatch, DispSlot
<1> PICK l \in Lines : l = Line(s)
  BY SlotFacts
<1>7. \A k \in Lines : Spared(k)
  BY <1>1, SparedAll
<1>8. \A v \in Slots : v # s /\ where[v] # "none" => Undisturbed(v)
  BY <1>1, <1>7, Elsewhere DEF SameRequest
<1>9. \A v \in Slots : Kept(v, moved[v])'
  <2> SUFFICES ASSUME NEW v \in Slots PROVE Kept(v, moved[v])'
    OBVIOUS
  <2>1. CASE moved[v] \in {"none", "tag"}
    BY <2>1 DEF Kept, Looking, Asked, Snooping
  <2>2. CASE moved[v] \notin {"none", "tag"}
    <3>1. v # s /\ moved[v] = where[v]
      BY <2>2
    <3>2. Undisturbed(v) /\ Kept(v, moved[v])
      BY <1>8, <2>2, <3>1 DEF Inv, Whereabouts
    <3>3. QED BY <3>2, KeptStays
  <2>3. QED BY <2>1, <2>2
<1>10. Tables' /\ Tracked'
  BY <1>7, KeepTables, Shrinks DEF Spared
<1>11. Orders'
  BY DEF Inv, Orders, NoDoubles, AnswerOrder
<1>12. RequestsOnly'
  BY DEF Inv, RequestsOnly
<1>13. QED
  BY <1>3, <1>4, <1>5, <1>6, <1>9, <1>10, <1>11, <1>12 DEF Inv, IInv, Whereabouts

LEMMA ReleaseStep ==
    ASSUME NEW where, Inv(where), Typed', Release
    PROVE  IInv'
<1>s. PICK s : s = Head(ff.release)
  OBVIOUS
<1>1. /\ ff.release # << >> /\ (req_buf[s].next # 0 => Room(ff.tag_req)) /\ req_buf' = Released(s)
      /\ ff' = [ff EXCEPT !.release = Tail(@), !.tag_req = Started(s)]
      /\ UNCHANGED <<entry_buf, tags, entries, latch, copy, asked, snoops, disp, snoop_ack, memory>>
  BY <1>s DEF Release, l2
<1>2. /\ ff'.entry = ff.entry /\ ff'.snack = ff.snack /\ ff'.tag_req = Started(s)
      /\ ff'.mem = ff.mem /\ ff'.disp_snack = ff.disp_snack /\ ff'.release = Tail(ff.release)
      /\ ff'.pfreq = ff.pfreq
  BY <1>1, FlopFacts DEF QueueFlops
<1>3. /\ s \in Slots /\ s \in WordsOf(ff.release) /\ NoDouble(ff'.release)
      /\ WordsOf(ff'.release) = WordsOf(ff.release) \ {s}
  BY <1>1, <1>2, <1>s, ReleaseGet
<1>4. where[s] = "release" /\ Active(s) /\ req_buf[s].valid
  BY <1>3, Releasing, SlotFacts
<1>5. req_buf'[s] = EmptySlot /\ \A u \in Slots : u # s => req_buf'[u] = req_buf[u]
  BY <1>1, <1>3 DEF Released, Inv, Typed, RegistersOK
<1>6. Queues' /\ \A v \in Slots : Active(v)' <=> v # s /\ (Active(v) \/ Follows(s, v))
  BY <1>3, <1>4, <1>5, LeavesQueue
<1>l. PICK left : left = [where EXCEPT ![s] = "none"]
  OBVIOUS
<1>b. PICK board : board = [p \in Stations |-> IF p = "release" THEN Board[p] \ {s} ELSE Board[p]]
  OBVIOUS
<1>7. left \in [Slots -> Places] /\ left[s] = "none" /\ \A u \in Slots : u # s => left[u] = where[u]
  <2>1. where \in [Slots -> Places] /\ "none" \in Places
    BY DEF Inv, Whereabouts, Places
  <2>2. QED BY <1>3, <1>l, <2>1
<1>8. Fits(board, Wording', left)
  <2>1. SameWords(where, Wording, Wording', s)
    BY <1>1, <1>5, KeepWording DEF SameRequest, TableEntry, Line
  <2>2. Shifted(Board, board, Wording, Wording', s, "release", "none")
    <3>1. Wording["release"][s] = s
      BY <1>3, ReleaseWord
    <3>2. "none" \notin Stations
      BY DEF Stations
    <3>3. QED BY <1>b, <3>1, <3>2 DEF Shifted
  <2>3. "none" \in Places /\ "release" \in Places
    BY DEF Places, Stations
  <2>4. where \in [Slots -> Places] /\ Fits(Board, Wording, where) /\ Apart(Wording)
    BY WordingApart DEF Inv, Whereabouts, Posted
  <2>5. QED BY <1>3, <1>4, <1>l, <2>1, <2>2, <2>3, <2>4, Reposting
<1>9. Resting(where)
  BY DEF Inv, Whereabouts
<1>10. \A q \in Stations : q # "tag" => Board'[q] = board[q]
  <2>1. Board'["release"] = Board["release"] \ {s}
    BY <1>3, BoardIs, BoardIsNext
  <2>2. \A q \in Stations : q # "tag" /\ q # "release" => Board'[q] = Board[q]
    BY <1>1, <1>2, SameStation DEF Stations
  <2>3. QED BY <1>b, <2>1, <2>2
<1>11. CASE req_buf[s].next = 0
  <2>1. ff'.tag_req = ff.tag_req
    BY <1>2, <1>11 DEF Started
  <2>2. Commands' = Commands /\ NoDouble(ff'.tag_req) /\ CommandOrder'
    BY <2>1 DEF Inv, Orders, NoDoubles, CommandOrder, Commands
  <2>3. Posted(left)'
    <3>1. Board'["tag"] = board["tag"]
      BY <1>b, <2>1, SameStation DEF Stations
    <3>2. \A q \in Stations : Board'[q] = board[q]
      BY <1>10, <3>1
    <3>3. Fits(Board', Wording', left)
      BY <1>8, <3>2 DEF Fits
    <3>4. QED BY <3>3 DEF Posted, Fits
  <2>4. Resting(left)'
    <3>1. \A v \in Slots : ~Follows(s, v)
      BY <1>11, SlotNames DEF Follows
    <3>2. QED BY <1>6, <1>7, <1>9, <3>1 DEF Resting
  <2>5. QED
    BY <1>1, <1>2, <1>3, <1>4, <1>5, <1>6, <1>7, <2>2, <2>3, <2>4, LeaveStep
<1>12. CASE req_buf[s].next # 0
  <2>1. req_buf[s].next \in Drid
    BY <1>3, SlotFacts
  <2>2. PICK u \in Slots : req_buf[s].next = u + 1 /\ SlotOf(req_buf[s].next) = u
    BY <1>12, <2>1, NamesOneSlot
  <2>3. Follows(s, u) /\ \A v \in Slots : Follows(s, v) => v = u
    BY <1>4, <2>2, NumberApart DEF Follows
  <2>4. req_buf[u].valid /\ ~Active(u) /\ u # s /\ where[u] = "none"
    <3>1. req_buf[u].valid /\ Waiting(u)
      BY <1>3, <2>3, QueueFacts, WaitingIs DEF Chained
    <3>2. QED BY <1>4, <1>9, <3>1 DEF Active, Resting
  <2>x. PICK x : x = StageWord(u)
    OBVIOUS
  <2>5. ff'.tag_req = Append(ff.tag_req, x) /\ Room(ff.tag_req)
    BY <1>1, <1>2, <1>12, <2>2, <2>x DEF Started, StageWord, Line, Requester
  <2>6. x \in Stage /\ ~x.dr_cmd /\ x.drid = u + 1
    <3>1. req_buf[u].cmd \in 0 .. 2 /\ Line(u) \in Lines /\ Requester(u) \in Nodes /\ u + 1 \in Drid /\ FALSE \in BOOLEAN
      BY SlotFacts, SlotNames, SlotTypes DEF Inv, Typed, RegistersOK, Outstanding
    <3>2. StageWord(u) \in Stage
      BY <3>1, WordTypes DEF StageWord
    <3>3. QED BY <2>x, <3>2 DEF StageWord, StageOf
  <2>7. x \notin WordsOf(ff.tag_req)
    <3> SUFFICES ASSUME x \in WordsOf(ff.tag_req) PROVE FALSE
      OBVIOUS
    <3>1. PICK v \in Slots : where[v] = "tag" /\ x = StageWord(v)
      BY <2>6, TagAt
    <3>2. x.drid = v + 1
      BY <3>1 DEF StageWord, StageOf
    <3>3. QED BY <2>4, <2>6, <3>1, <3>2, NumberApart
  <2>8. /\ WordsOf(ff'.tag_req) = WordsOf(ff.tag_req) \cup {x}
        /\ NoDouble(ff'.tag_req) /\ CommandOrder'
    BY <2>5, <2>6, <2>7, TagPut
  <2>9. Commands' = Commands
    BY <2>6, <2>8 DEF Commands
  <2>m. PICK moved : moved = [left EXCEPT ![u] = "tag"]
    OBVIOUS
  <2>10. /\ moved \in [Slots -> Places] /\ moved[u] = "tag" /\ moved[s] = "none"
         /\ \A v \in Slots : v # s /\ v # u => moved[v] = where[v]
    <3>1. "tag" \in Places
      BY DEF Places, Stations
    <3>2. QED BY <1>7, <2>4, <2>m, <3>1
  <2>11. Posted(moved)'
    <3>1. Shifted(board, Board', Wording', Wording', u, "none", "tag")
      <4>1. Wording'["tag"][u] = x
        <5>1. StageWord(u)' = StageWord(u)
          BY <1>5, <2>4 DEF StageWord, Line, Requester
        <5>2. QED BY <2>x, <5>1, TagWord
      <4>2. Board'["tag"] = Board["tag"] \cup {x}
        BY <2>6, <2>8, BoardIs, BoardIsNext
      <4>3. board["tag"] = Board["tag"] /\ "none" \notin Stations
        BY <1>b DEF Stations
      <4>4. QED BY <1>10, <4>1, <4>2, <4>3 DEF Shifted
    <3>2. SameWords(left, Wording', Wording', u)
      BY DEF SameWords
    <3>3. "none" \in Places /\ "tag" \in Places /\ left[u] = "none"
      BY <1>7, <2>4 DEF Places, Stations
    <3>4. Apart(Wording')
      BY WordingApart DEF Apart
    <3>5. Fits(Board', Wording', moved)
      BY <1>7, <1>8, <2>m, <3>1, <3>2, <3>3, <3>4, Reposting
    <3>6. QED BY <3>5 DEF Posted, Fits
  <2>12. Resting(moved)'
    BY <1>6, <1>9, <2>3, <2>4, <2>10 DEF Resting
  <2>13. QED
    BY <1>1, <1>2, <1>3, <1>4, <1>5, <1>6, <2>8, <2>9, <2>10, <2>11, <2>12, LeaveStep
<1>13. QED BY <1>11, <1>12

-----------------------------------------------------------------------------
(* The invariant holds at the start and after every step.                  *)

LEMMA InitInvariant == RequestsOnly /\ Init => IInv
<1> SUFFICES ASSUME RequestsOnly, Init PROVE IInv
  OBVIOUS
<1>1. PICK where : where = [s \in Slots |-> "none"]
  OBVIOUS
<1>2. where \in [Slots -> Places] /\ \A s \in Slots : where[s] = "none"
  BY <1>1 DEF Places
<1>3. \A s \in Slots : req_buf[s] = EmptySlot /\ ~req_buf[s].valid /\ req_buf[s].next = 0 /\ ~req_buf[s].found
  BY DEF Init, EmptySlot
<1>4. /\ WordsOf(ff.tag_req) = {} /\ WordsOf(ff.entry) = {} /\ WordsOf(ff.mem) = {}
      /\ WordsOf(ff.snack) = {} /\ WordsOf(ff.release) = {}
  BY EmptyQueue DEF Init
<1>5. Commands = {} /\ Answers = {}
  BY <1>4 DEF Commands, Answers
<1>6. Typed
  BY InitTyped
<1>7. Quiet
  BY <1>3 DEF Init, Quiet
<1>8. SlotsMatch /\ RepliesMatch
  BY <1>3 DEF SlotsMatch, RepliesMatch, Init
<1>9. Orders
  BY EmptyQueue DEF Init, Orders, NoDoubles, NoDouble, CommandOrder, AnswerOrder
<1>10. Queues
  <2>1. [s \in Slots |-> 0] \in [Slots -> Nat]
    OBVIOUS
  <2>2. Acyclic
    BY <1>3, <2>1 DEF Acyclic, Ascending
  <2>3. QED BY <1>3, <2>2 DEF Queues, Linked, OneHead, OneLast, HeadAndLast, FreeUnlinked, Active, Last
<1>11. Asking
  BY <1>3, <1>5 DEF Init, Asking, AskedOnce, AskedLacks, HeldWasAsked, AnswerWasAsked, HeldOnce,
                    HeldOrAnswered, AskedIsHeld, Unanswered
<1>12. Tables
  <2>1. Used(EmptyEntry) = {}
    BY DEF Used, EmptyEntry
  <2>2. Distinct(EmptyEntry)
    BY <2>1 DEF Distinct
  <2>3. PointersDistinct
    BY <2>2 DEF Init, PointersDistinct
  <2>4. OwnSet
    BY DEF Init, OwnSet, Sets
  <2>5. QED BY <1>5, <2>3, <2>4 DEF Tables, CommandsNamed, CommandsKnow
<1>13. Tracked
  BY <1>5 DEF Init, Tracked, Holders, Owners
<1>14. Posted(where)
  <2>1. \A p \in Stations : Board[p] = {}
    BY <1>4, BoardIs DEF Init, Stations
  <2>2. \A p \in Stations : At(where, p) = {}
    BY <1>2 DEF At, Stations
  <2>3. QED BY <2>1, <2>2 DEF Posted, Fits
<1>15. Whereabouts(where)
  BY <1>2, <1>3, <1>14 DEF Whereabouts, Resting, Active, Kept, Looking, Asked, Snooping
<1>16. QED
  BY <1>6, <1>7, <1>8, <1>9, <1>10, <1>11, <1>12, <1>13, <1>15 DEF IInv, Inv

LEMMA NextInvariant == IInv /\ [Next]_vars => IInv'
<1> SUFFICES ASSUME IInv, [Next]_vars PROVE IInv'
  OBVIOUS
<1>1. PICK where : Inv(where)
  BY DEF IInv
<1>2. Typed'
  BY <1>1, TypedStep DEF Inv
<1>3. CASE Requests
  BY <1>1, <1>2, <1>3, AcceptStep, ConflictingStep, NeverUnasked DEF Requests
<1>4. CASE TagStage
  BY <1>1, <1>2, <1>4, MissStep, HitStep, InternalStep DEF TagStage
<1>5. CASE EntrySnoop
  BY <1>1, <1>2, <1>5, SnoopStep
<1>6. CASE SnoopAck \/ SnoopAckIdle
  BY <1>1, <1>2, <1>6, AskNextStep, DeniedStep, NeverFound DEF SnoopAck
<1>7. CASE DispReply
  BY <1>1, <1>2, <1>7, SharedStep, OwnerStep, NeverFound, NeverMore, NeverIgnored DEF DispReply
<1>8. CASE DispOwn \/ SecondSnack
  BY <1>1, <1>8, NeverIgnored, NeverUnasked DEF DispOwn
<1>9. CASE DispRefused \/ MemTakesWriteback \/ L2TakesDack \/ UNCHANGED vars
  BY <1>1, <1>2, <1>9, IdleSteps
<1>10. CASE MemAck
  BY <1>1, <1>2, <1>10, MemAckStep
<1>11. CASE Release
  BY <1>1, <1>2, <1>11, ReleaseStep
<1>12. CASE MemTakesRequest \/ MemTakesPrefetch
  BY <1>1, <1>2, <1>12, MemTakesStep, NeverUnasked
<1>13. CASE L2TakesAnswer \/ L2TakesSnoop
  BY <1>1, <1>2, <1>13, TakesAnswerStep, TakesSnoopStep
<1>14. CASE L2ReturnsData \/ L2Denies
  BY <1>1, <1>2, <1>14, ReturnsDataStep, DeniesStep
<1>15. CASE L2Drops \/ L2Displaces
  BY <1>1, <1>2, <1>15, DropsStep, NeverUnasked
<1>16. QED
  BY <1>3, <1>4, <1>5, <1>6, <1>7, <1>8, <1>9, <1>10, <1>11, <1>12, <1>13, <1>14, <1>15
     DEF Next, Directory, Memory, L2

-----------------------------------------------------------------------------
(* What the invariant says of the properties that the runs check.          *)

LEMMA WritersAreAlone ==
    ASSUME NEW where, Inv(where)
    PROVE  SingleWriter
<1> SUFFICES ASSUME NEW n \in Nid, NEW l \in Lines, copy[n][l] = "M", NEW o \in Nid \ {n}
             PROVE  copy[o][l] = "I"
  BY DEF SingleWriter
<1>1. n \in Owners(l) /\ (copy[o][l] # "I" => o \in Holders(l))
  BY DEF Owners, Holders
<1>2. Holders(l) \subseteq Book(l) /\ Book(l) \subseteq {n}
  BY <1>1 DEF Inv, Tracked
<1>3. QED BY <1>1, <1>2

LEMMA HoldersInEntry ==
    ASSUME NEW where, Inv(where)
    PROVE  HoldersTracked
<1> SUFFICES ASSUME NEW l \in Lines, NEW n \in Nid, Settled(l), copy[n][l] # "I"
             PROVE  \E w \in Ways : /\ tags[SetOf[l]][w] = HashOf[l]
                                    /\ \E p \in Pointers : entries[SetOf[l]][w].nid[p] = n
  BY DEF HoldersTracked
<1>1. n \in Book(l)
  BY DEF Inv, Tracked, Holders
<1>2. \A r \in Commands : r.paddr # l
  BY DEF Settled, Commands, WordsOf
<1>3. Present(l) /\ n \in Known(TableEntry(l))
  BY <1>1, <1>2 DEF Book
<1> DEFINE way == tag_pos_next(tags[SetOf[l]], HashOf[l])
<1>4. way \in Ways
  BY WayType
<1>5. tags[SetOf[l]][way] = HashOf[l]
  BY <1>3, WayOf, DirectoryAssumption DEF Inv, Tables, OwnSet, Present
<1>6. PICK p \in Pointers : entries[SetOf[l]][way].nid[p] = n
  BY <1>3 DEF Known, Used, TableEntry
<1>7. QED BY <1>4, <1>5, <1>6

LEMMA AnswersAreExpected ==
    ASSUME NEW where, Inv(where)
    PROVE  NoUnexpectedAnswer
<1>1. AnswerWasAsked
  BY DEF Inv, Asking
<1>2. \A i \in DOMAIN ff.snack : ff.snack[i].drid = 0 => ff.snack[i] \in Answers
  BY DEF Answers, WordsOf
<1>3. QED BY <1>1, <1>2 DEF AnswerWasAsked, NoUnexpectedAnswer

-----------------------------------------------------------------------------
(* Counting: a word that is in one place of one queue counts as one.       *)

LEMMA CountSingle ==
    ASSUME NEW I, \A i, k \in I : i = k
    PROVE  Cardinality(I) = IF I = {} THEN 0 ELSE 1
<1>1. CASE I = {}
  BY <1>1, FS_EmptySet
<1>2. CASE I # {}
  <2>1. PICK k : k \in I
    BY <1>2
  <2>2. I = {k}
    BY <2>1
  <2>3. QED BY <1>2, <2>2, FS_Singleton
<1>3. QED BY <1>1, <1>2

LEMMA OnePlace ==
    ASSUME NEW S, NEW q \in Queue(S), NoDouble(q), NEW I, I \subseteq DOMAIN q, NEW x, \A i \in I : q[i] = x
    PROVE  \A i, k \in I : i = k
<1>1. q \in Seq(S) /\ Len(q) \in Nat /\ Len(q) <= 2 /\ DOMAIN q = 1 .. Len(q)
  BY DEF Queue
<1>2. DOMAIN q \subseteq {1, 2} /\ (2 \in DOMAIN q => Len(q) = 2)
  BY <1>1
<1>3. QED BY <1>2 DEF NoDouble

LEMMA AnswersOnce ==
    ASSUME NEW where, Inv(where)
    PROVE  AnsweredOnce
<1> SUFFICES ASSUME NEW rq \in asked
             PROVE  Cardinality(Holding(rq)) + Positions(ff.snack, LAMBDA m : IsAnswerTo(m, rq)) = 1
  BY DEF AnsweredOnce
<1>1. PICK I : I = {i \in DOMAIN ff.snack : IsAnswerTo(ff.snack[i], rq)}
  OBVIOUS
<1>2. PICK H : H = {s \in Slots : Unanswered(s) /\ RequestOf(s) = rq}
  OBVIOUS
<1>3. Holding(rq) = H
  <2>1. rq = [nid |-> rq.nid, l2id |-> rq.l2id, paddr |-> rq.paddr, cmd |-> rq.cmd]
    BY DEF Inv, Typed, PeersOK, Request
  <2>2. \A s \in Slots : RequestOf(s) = rq <=> /\ req_buf[s].nid = rq.nid /\ req_buf[s].l2id = rq.l2id
                                               /\ req_buf[s].paddr = rq.paddr /\ req_buf[s].cmd = rq.cmd
    BY <2>1 DEF RequestOf, Requester, Line
  <2>3. \A s \in Slots : ~req_buf[s].found
    BY DEF Inv, Quiet
  <2>4. \A s \in Slots : Unanswered(s) <=> req_buf[s].valid /\ \A i \in DOMAIN ff.release : ff.release[i] # s
    BY DEF Unanswered, WordsOf
  <2>5. QED BY <1>2, <2>2, <2>3, <2>4 DEF Holding
<1>4. Asking /\ NoDouble(ff.snack) /\ ff.snack \in Queue(Msg)
  BY FlopFacts DEF Inv, Orders, NoDoubles
<1>5. \A i \in I : ff.snack[i] \in Answers /\ IsAnswerTo(ff.snack[i], rq)
  BY <1>1 DEF Answers, WordsOf, IsAnswerTo
<1>6. PICK x : x = [drid |-> 0, nid |-> rq.nid, l2id |-> rq.l2id, paddr |-> rq.paddr, snack |-> AckOf(rq.cmd)]
  OBVIOUS
<1>7. \A i \in I : ff.snack[i] = x
  <2> SUFFICES ASSUME NEW i \in I PROVE ff.snack[i] = x
    OBVIOUS
  <2>1. PICK m : m = ff.snack[i]
    OBVIOUS
  <2>2. m \in Msg /\ IsAnswerTo(m, rq)
    BY <1>5, <2>1, AnswerFacts
  <2>3. m = x
    BY <1>6, <2>2 DEF Msg, IsAnswerTo
  <2>4. QED BY <2>1, <2>3
<1>8. I # {} <=> \E m \in Answers : IsAnswerTo(m, rq)
  BY <1>1, <1>5 DEF Answers, WordsOf
<1>9. I # {} => H = {}
  BY <1>2, <1>4, <1>8 DEF Asking, HeldOrAnswered
<1>10. I = {} => H # {}
  BY <1>2, <1>4, <1>8 DEF Asking, AskedIsHeld
<1>11. \A s, t \in H : s = t
  BY <1>2, <1>4 DEF Asking, HeldOnce
<1>12. Cardinality(H) = IF H = {} THEN 0 ELSE 1
  BY <1>11, CountSingle
<1>13. \A i, k \in I : i = k
  <2>1. PICK q : q = ff.snack
    OBVIOUS
  <2>2. q \in Queue(Msg) /\ NoDouble(q) /\ I \subseteq DOMAIN q /\ \A i \in I : q[i] = x
    BY <1>1, <1>4, <1>7, <2>1
  <2>3. QED BY <2>2, OnePlace
<1>14. Cardinality(I) = IF I = {} THEN 0 ELSE 1
  BY <1>13, CountSingle
<1>15. Positions(ff.snack, LAMBDA m : IsAnswerTo(m, rq)) = Cardinality(I)
  BY <1>1 DEF Positions
<1>16. QED BY <1>3, <1>9, <1>10, <1>12, <1>14, <1>15

-----------------------------------------------------------------------------
(* Every station counts one for the request that is there, and nothing for *)
(* the others.                                                             *)

LEMMA CountQueue ==
    ASSUME NEW S, NEW q \in Queue(S), NoDouble(q), NEW I, I \subseteq DOMAIN q, NEW x, NEW A, NEW B,
           \A i \in I : q[i] = x /\ A = B, A = B => I # {}
    PROVE  Cardinality(I) = IF A = B THEN 1 ELSE 0
<1>1. \A i, k \in I : i = k
  BY OnePlace
<1>2. Cardinality(I) = IF I = {} THEN 0 ELSE 1
  BY <1>1, CountSingle
<1>3. I = {} <=> A # B
  OBVIOUS
<1>4. QED BY <1>2, <1>3

LEMMA CountSet ==
    ASSUME NEW I, NEW A, NEW B, \A i, k \in I : i = k, \A i \in I : A = B, A = B => I # {}
    PROVE  Cardinality(I) = IF A = B THEN 1 ELSE 0
<1>1. Cardinality(I) = IF I = {} THEN 0 ELSE 1
  BY CountSingle
<1>2. I = {} <=> A # B
  OBVIOUS
<1>3. QED BY <1>1, <1>2

LEMMA OneWordEach ==
    ASSUME NEW where, Inv(where)
    PROVE  NoDouble(ff.tag_req) /\ NoDouble(ff.entry) /\ NoDouble(ff.mem) /\ NoDouble(ff.snack) /\ NoDouble(ff.release)
BY DEF Inv, Orders, NoDoubles

LEMMA TagCount ==
    ASSUME NEW where, Inv(where), NEW s \in Slots
    PROVE  Positions(ff.tag_req, LAMBDA r : ~r.dr_cmd /\ r.drid = s + 1) = IF where[s] = "tag" THEN 1 ELSE 0
<1>1. PICK I : I = {i \in DOMAIN ff.tag_req : ~ff.tag_req[i].dr_cmd /\ ff.tag_req[i].drid = s + 1}
  OBVIOUS
<1>2. PICK q : q = ff.tag_req
  OBVIOUS
<1>3. ASSUME NEW i \in I PROVE q[i] = StageWord(s) /\ where[s] = "tag"
  <2>1. q[i] \in WordsOf(ff.tag_req) /\ ~q[i].dr_cmd /\ q[i].drid = s + 1
    BY <1>1, <1>2 DEF WordsOf
  <2>2. PICK t \in Slots : where[t] = "tag" /\ q[i] = StageWord(t)
    BY <2>1, TagAt
  <2>3. s = t
    BY <2>1, <2>2, NumberApart DEF StageWord, StageOf
  <2>4. QED BY <2>2, <2>3
<1>4. where[s] = "tag" => I # {}
  <2> SUFFICES ASSUME where[s] = "tag" PROVE I # {}
    OBVIOUS
  <2>1. StageWord(s) \in WordsOf(ff.tag_req) /\ ~StageWord(s).dr_cmd /\ StageWord(s).drid = s + 1
    BY There, TagWord, BoardIs DEF Stations, StageWord, StageOf
  <2>2. QED BY <1>1, <2>1 DEF WordsOf
<1>5. q \in Queue(Stage) /\ NoDouble(q) /\ I \subseteq DOMAIN q
  BY <1>1, <1>2, FlopFacts, OneWordEach
<1>6. Cardinality(I) = IF where[s] = "tag" THEN 1 ELSE 0
  BY <1>3, <1>4, <1>5, CountQueue
<1>7. QED BY <1>1, <1>6 DEF Positions

LEMMA EntryCount ==
    ASSUME NEW where, Inv(where), NEW s \in Slots
    PROVE  Positions(ff.entry, LAMBDA e : e.req.drid = s + 1) = IF where[s] = "entry" THEN 1 ELSE 0
<1>1. PICK I : I = {i \in DOMAIN ff.entry : ff.entry[i].req.drid = s + 1}
  OBVIOUS
<1>2. PICK q : q = ff.entry
  OBVIOUS
<1> DEFINE word(t) == [req |-> StageWord(t), entry |-> TableEntry(Line(t))]
<1>3. ASSUME NEW i \in I PROVE q[i] = word(s) /\ where[s] = "entry"
  <2>1. q[i] \in WordsOf(ff.entry) /\ q[i].req.drid = s + 1
    BY <1>1, <1>2 DEF WordsOf
  <2>2. PICK t \in Slots : where[t] = "entry" /\ q[i] = word(t)
    BY <2>1, EntryAt
  <2>3. s = t
    BY <2>1, <2>2, NumberApart DEF StageWord, StageOf
  <2>4. QED BY <2>2, <2>3
<1>4. where[s] = "entry" => I # {}
  <2> SUFFICES ASSUME where[s] = "entry" PROVE I # {}
    OBVIOUS
  <2>1. word(s) \in WordsOf(ff.entry)
    BY There, EntryWord, BoardIs DEF Stations
  <2>2. word(s).req.drid = s + 1
    BY DEF StageWord, StageOf
  <2>3. QED BY <1>1, <2>1, <2>2 DEF WordsOf
<1>5. q \in Queue(Fetched) /\ NoDouble(q) /\ I \subseteq DOMAIN q
  BY <1>1, <1>2, FlopFacts, OneWordEach
<1> HIDE DEF word
<1>6. Cardinality(I) = IF where[s] = "entry" THEN 1 ELSE 0
  BY <1>3, <1>4, <1>5, CountQueue
<1>7. QED BY <1>1, <1>6 DEF Positions

LEMMA MemCount ==
    ASSUME NEW where, Inv(where), NEW s \in Slots
    PROVE  Positions(ff.mem, LAMBDA m : m.drid = s + 1) = IF where[s] = "mem" THEN 1 ELSE 0
<1>1. PICK I : I = {i \in DOMAIN ff.mem : ff.mem[i].drid = s + 1}
  OBVIOUS
<1>2. PICK q : q = ff.mem
  OBVIOUS
<1> DEFINE word(t) == [drid |-> t + 1, paddr |-> Line(t), cmd |-> req_buf[t].cmd]
<1>3. ASSUME NEW i \in I PROVE q[i] = word(s) /\ where[s] = "mem"
  <2>1. q[i] \in WordsOf(ff.mem) /\ q[i].drid = s + 1
    BY <1>1, <1>2 DEF WordsOf
  <2>2. PICK t \in Slots : where[t] = "mem" /\ q[i] = word(t)
    BY <2>1, MemAt
  <2>3. s = t
    BY <2>1, <2>2, NumberApart
  <2>4. QED BY <2>2, <2>3
<1>4. where[s] = "mem" => I # {}
  <2> SUFFICES ASSUME where[s] = "mem" PROVE I # {}
    OBVIOUS
  <2>1. word(s) \in WordsOf(ff.mem)
    BY There, MemWord, BoardIs DEF Stations
  <2>2. word(s).drid = s + 1
    OBVIOUS
  <2>3. QED BY <1>1, <2>1, <2>2 DEF WordsOf
<1>5. q \in Queue(MemReq) /\ NoDouble(q) /\ I \subseteq DOMAIN q
  BY <1>1, <1>2, FlopFacts, OneWordEach
<1> HIDE DEF word
<1>6. Cardinality(I) = IF where[s] = "mem" THEN 1 ELSE 0
  BY <1>3, <1>4, <1>5, CountQueue
<1>7. QED BY <1>1, <1>6 DEF Positions

LEMMA SnackCount ==
    ASSUME NEW where, Inv(where), NEW s \in Slots
    PROVE  Positions(ff.snack, LAMBDA m : m.drid = s + 1) = IF where[s] = "snack" THEN 1 ELSE 0
<1>1. PICK I : I = {i \in DOMAIN ff.snack : ff.snack[i].drid = s + 1}
  OBVIOUS
<1>2. PICK q : q = ff.snack
  OBVIOUS
<1>3. ASSUME NEW i \in I PROVE q[i] = SnoopWord(s) /\ where[s] = "snack"
  <2>1. q[i] \in WordsOf(ff.snack) /\ q[i].drid = s + 1 /\ q[i].drid # 0
    BY <1>1, <1>2, SlotNames DEF WordsOf
  <2>2. PICK t \in Slots : where[t] = "snack" /\ q[i] = SnoopWord(t)
    BY <2>1, SnackAt
  <2>3. s = t
    BY <2>1, <2>2, NumberApart DEF SnoopWord, Snoop
  <2>4. QED BY <2>2, <2>3
<1>4. where[s] = "snack" => I # {}
  <2> SUFFICES ASSUME where[s] = "snack" PROVE I # {}
    OBVIOUS
  <2>1. SnoopWord(s) \in WordsOf(ff.snack) /\ SnoopWord(s).drid = s + 1
    BY There, SnackWord, BoardIs DEF Stations, SnoopWord, Snoop
  <2>2. QED BY <1>1, <2>1 DEF WordsOf
<1>5. q \in Queue(Msg) /\ NoDouble(q) /\ I \subseteq DOMAIN q
  BY <1>1, <1>2, FlopFacts, OneWordEach
<1>6. Cardinality(I) = IF where[s] = "snack" THEN 1 ELSE 0
  BY <1>3, <1>4, <1>5, CountQueue
<1>7. QED BY <1>1, <1>6 DEF Positions

LEMMA ReleaseCount ==
    ASSUME NEW where, Inv(where), NEW s \in Slots
    PROVE  Positions(ff.release, LAMBDA r : r = s) = IF where[s] = "release" THEN 1 ELSE 0
<1>1. PICK I : I = {i \in DOMAIN ff.release : ff.release[i] = s}
  OBVIOUS
<1>2. PICK q : q = ff.release
  OBVIOUS
<1>3. \A i \in I : q[i] = s /\ where[s] = "release"
  BY <1>1, <1>2, Releasing DEF WordsOf
<1>4. where[s] = "release" => I # {}
  BY <1>1, Releasing DEF WordsOf
<1>5. q \in Queue(Slots) /\ NoDouble(q) /\ I \subseteq DOMAIN q
  BY <1>1, <1>2, FlopFacts, OneWordEach
<1>6. \A i, k \in I : i = k
  BY <1>3, <1>5, OnePlace
<1>7. Cardinality(I) = IF where[s] = "release" THEN 1 ELSE 0
  BY <1>3, <1>4, <1>6, CountSet
<1>8. QED BY <1>1, <1>7 DEF Positions

LEMMA MessageCount ==
    ASSUME NEW where, Inv(where), NEW s \in Slots
    PROVE  /\ Cardinality({m \in snoops : m.drid = s + 1}) = IF where[s] = "snoops" THEN 1 ELSE 0
           /\ Cardinality({d \in disp : d.drid = s + 1}) = IF where[s] = "disp" THEN 1 ELSE 0
           /\ Cardinality({m \in memory : m.drid = s + 1}) = IF where[s] = "memory" THEN 1 ELSE 0
           /\ Cardinality({d \in snoop_ack : d = s + 1}) = IF where[s] = "snoop_ack" THEN 1 ELSE 0
<1>1. Cardinality({m \in snoops : m.drid = s + 1}) = IF where[s] = "snoops" THEN 1 ELSE 0
  <2>1. PICK I : I = {m \in snoops : m.drid = s + 1}
    OBVIOUS
  <2>2. ASSUME NEW m \in I PROVE m = SnoopWord(s) /\ where[s] = "snoops"
    <3>1. PICK t \in Slots : where[t] = "snoops" /\ m = SnoopWord(t) /\ m.drid = s + 1
      BY <2>1, SnoopsAt
    <3>2. s = t
      BY <3>1, NumberApart DEF SnoopWord, Snoop
    <3>3. QED BY <3>1, <3>2
  <2>3. where[s] = "snoops" => SnoopWord(s) \in I
    BY <2>1, There, SnoopsWord, BoardIs DEF Stations, SnoopWord, Snoop
  <2>4. (\A i, k \in I : i = k) /\ (\A i \in I : where[s] = "snoops") /\ (where[s] = "snoops" => I # {})
    BY <2>2, <2>3
  <2>5. Cardinality(I) = IF where[s] = "snoops" THEN 1 ELSE 0
    BY <2>4, CountSet
  <2>6. QED BY <2>1, <2>5
<1>2. Cardinality({d \in disp : d.drid = s + 1}) = IF where[s] = "disp" THEN 1 ELSE 0
  <2>1. PICK I : I = {d \in disp : d.drid = s + 1}
    OBVIOUS
  <2>2. \A d, o \in I : d = o
    BY <2>1 DEF Inv, RepliesMatch
  <2>3. ASSUME NEW d \in I PROVE where[s] = "disp"
    BY <2>1, DispAt, NumberApart
  <2>4. where[s] = "disp" => I # {}
    BY <2>1, There, DispWord, BoardIs DEF Stations
  <2>5. Cardinality(I) = IF where[s] = "disp" THEN 1 ELSE 0
    BY <2>2, <2>3, <2>4, CountSet
  <2>6. QED BY <2>1, <2>5
<1>3. Cardinality({m \in memory : m.drid = s + 1}) = IF where[s] = "memory" THEN 1 ELSE 0
  <2>1. PICK I : I = {m \in memory : m.drid = s + 1}
    OBVIOUS
  <2> DEFINE word(t) == [drid |-> t + 1, nid |-> NoNid, paddr |-> Line(t), ack |-> AckOf(req_buf[t].cmd)]
  <2>2. ASSUME NEW m \in I PROVE m = word(s) /\ where[s] = "memory"
    <3>1. PICK t \in Slots : where[t] = "memory" /\ m = word(t) /\ m.drid = s + 1
      BY <2>1, MemoryAt
    <3>2. s = t
      BY <3>1, NumberApart
    <3>3. QED BY <3>1, <3>2
  <2>3. where[s] = "memory" => word(s) \in I
    BY <2>1, There, MemoryWord, BoardIs DEF Stations
  <2> HIDE DEF word
  <2>4. (\A i, k \in I : i = k) /\ (\A i \in I : where[s] = "memory") /\ (where[s] = "memory" => I # {})
    BY <2>2, <2>3
  <2>5. Cardinality(I) = IF where[s] = "memory" THEN 1 ELSE 0
    BY <2>4, CountSet
  <2>6. QED BY <2>1, <2>5
<1>4. Cardinality({d \in snoop_ack : d = s + 1}) = IF where[s] = "snoop_ack" THEN 1 ELSE 0
  <2>1. PICK I : I = {d \in snoop_ack : d = s + 1}
    OBVIOUS
  <2>2. ASSUME NEW d \in I PROVE d = s + 1 /\ where[s] = "snoop_ack"
    BY <2>1, AckAt, NumberApart
  <2>3. where[s] = "snoop_ack" => s + 1 \in I
    BY <2>1, There, AckWord, BoardIs DEF Stations
  <2>4. (\A i, k \in I : i = k) /\ (\A i \in I : where[s] = "snoop_ack") /\ (where[s] = "snoop_ack" => I # {})
    BY <2>2, <2>3
  <2>5. Cardinality(I) = IF where[s] = "snoop_ack" THEN 1 ELSE 0
    BY <2>4, CountSet
  <2>6. QED BY <2>1, <2>5
<1>5. QED BY <1>1, <1>2, <1>3, <1>4

LEMMA NoSecondSnack ==
    ASSUME NEW where, Inv(where), NEW s \in Slots
    PROVE  Positions(ff.disp_snack, LAMBDA m : m.drid = s + 1) = 0
<1>1. DOMAIN ff.disp_snack = {}
  BY DEF Inv, Quiet
<1>2. {i \in DOMAIN ff.disp_snack : ff.disp_snack[i].drid = s + 1} = {}
  BY <1>1
<1>3. QED BY <1>2, FS_EmptySet DEF Positions

LEMMA OneToken ==
    ASSUME NEW where, Inv(where)
    PROVE  OneTokenEach
<1> SUFFICES ASSUME NEW s \in Slots PROVE Tokens(s) = IF Active(s) THEN 1 ELSE 0
  BY DEF OneTokenEach
<1>1. where[s] \in Places /\ (where[s] = "none" <=> ~Active(s))
  BY SlotFacts DEF Inv, Whereabouts, Resting
<1> DEFINE at(p) == IF where[s] = p THEN 1 ELSE 0
<1>2. Tokens(s) = at("tag") + at("entry") + at("mem") + at("snack") + 0 + at("release")
                  + at("snoops") + at("disp") + at("memory") + at("snoop_ack")
  BY TagCount, EntryCount, MemCount, SnackCount, NoSecondSnack, ReleaseCount, MessageCount DEF Tokens
<1>3. CASE where[s] = "none"
  BY <1>1, <1>2, <1>3
<1>4. CASE where[s] # "none"
  BY <1>1, <1>2, <1>4 DEF Places, Stations
<1>5. QED BY <1>3, <1>4

LEMMA OneQueue ==
    ASSUME NEW where, Inv(where)
    PROVE  OneQueuePerHash
<1> SUFFICES ASSUME NEW s \in Slots, req_buf[s].valid, NEW same,
                    same = {t \in Slots : req_buf[t].valid /\ HashOf[req_buf[t].paddr] = HashOf[req_buf[s].paddr]}
             PROVE  /\ Cardinality({t \in same : ~Waiting(t)}) = 1
                    /\ Cardinality({t \in same : req_buf[t].next = 0}) = 1
                    /\ \A t \in same : req_buf[t].next # 0 =>
                           /\ SlotOf(req_buf[t].next) \in same
                           /\ \A u \in same \ {t} : req_buf[u].next # req_buf[t].next
  BY DEF OneQueuePerHash
<1>1. OneHead /\ OneLast /\ HeadAndLast /\ Linked
  BY DEF Inv, Queues
<1>2. \A t \in same : t \in Slots /\ req_buf[t].valid /\ SameHash(s, t)
  BY DEF SameHash, Line
<1>3. \A t \in Slots : req_buf[t].valid /\ SameHash(s, t) => t \in same
  BY DEF SameHash, Line
<1>4. \A t, u \in same : SameHash(t, u)
  BY <1>2 DEF SameHash
<1>5. Cardinality({t \in same : ~Waiting(t)}) = 1
  <2>1. PICK I : I = {t \in same : ~Waiting(t)}
    OBVIOUS
  <2>2. \A t, u \in I : t = u
    BY <1>1, <1>2, <1>4, <2>1 DEF OneHead, Active
  <2>3. I # {}
    BY <1>1, <1>3, <2>1 DEF HeadAndLast, Active
  <2>4. Cardinality(I) = 1
    BY <2>2, <2>3, CountSingle
  <2>5. QED BY <2>1, <2>4
<1>6. Cardinality({t \in same : req_buf[t].next = 0}) = 1
  <2>1. PICK I : I = {t \in same : req_buf[t].next = 0}
    OBVIOUS
  <2>2. \A t, u \in I : t = u
    BY <1>1, <1>2, <1>4, <2>1 DEF OneLast, Last
  <2>3. I # {}
    BY <1>1, <1>3, <2>1 DEF HeadAndLast, Last
  <2>4. Cardinality(I) = 1
    BY <2>2, <2>3, CountSingle
  <2>5. QED BY <2>1, <2>4
<1>7. ASSUME NEW t \in same, req_buf[t].next # 0
      PROVE  /\ SlotOf(req_buf[t].next) \in same
             /\ \A u \in same \ {t} : req_buf[u].next # req_buf[t].next
  <2>1. PICK v : v = SlotOf(req_buf[t].next)
    OBVIOUS
  <2>2. v \in Slots
    BY <1>2, <2>1, SlotFacts, SlotOfType
  <2>3. /\ req_buf[v].valid /\ SameHash(t, v)
        /\ \A u \in Slots : req_buf[u].valid /\ req_buf[u].next = req_buf[t].next => u = t
    BY <1>1, <1>2, <1>7, <2>1 DEF Linked
  <2>4. v \in same
    BY <1>2, <1>3, <2>2, <2>3 DEF SameHash
  <2>5. QED BY <1>2, <2>1, <2>3, <2>4
<1>8. QED BY <1>5, <1>6, <1>7

-----------------------------------------------------------------------------
(* The inductive invariant of a bank under the traffic of RequestsOnly:    *)
(* where the request of every slot is, how requests of one hash queue up,  *)
(* what the L2s wait for, and that the tables know who has which line.     *)
THEOREM Invariance == RequestsOnly => (Spec => []IInv)
BY InitInvariant, NextInvariant, PTL DEF Spec

(* While one L2 has a line modified no other one has it at all, however    *)
(* handlers, L2s and memory interleave under that traffic: a writer is     *)
(* answered after its sharers ("we want to invalidate our sharers",        *)
(* directory_bank.v:1149) have given the line up.                          *)
THEOREM Coherence == RequestsOnly => (Spec => []SingleWriter)
<1>1. IInv => SingleWriter
  BY WritersAreAlone DEF IInv
<1>2. QED BY <1>1, Invariance, PTL

(* The entry of a line at rest names every node that has it, so that the   *)
(* next request snoops them all (directory_bank.v:1064-1120).              *)
THEOREM NobodyForgotten == RequestsOnly => (Spec => []HoldersTracked)
<1>1. IInv => HoldersTracked
  BY HoldersInEntry DEF IInv
<1>2. QED BY <1>1, Invariance, PTL

(* No L2 gets an answer it does not wait for, which the testbench calls    *)
(* "unexpected drtol2 snack" (tests/directory_bank_wp_tb.cpp:725).         *)
THEOREM AnswersExpected == RequestsOnly => (Spec => []NoUnexpectedAnswer)
<1>1. IInv => NoUnexpectedAnswer
  BY AnswersAreExpected DEF IInv
<1>2. QED BY <1>1, Invariance, PTL

(* Every request an L2 waits for is held by one slot or answered by one    *)
(* message, never both: none is lost and none is answered twice.           *)
THEOREM AnsweredExactlyOnce == RequestsOnly => (Spec => []AnsweredOnce)
<1>1. IInv => AnsweredOnce
  BY AnswersOnce DEF IInv
<1>2. QED BY <1>1, Invariance, PTL

(* The request buffer, the flops and the messages agree: no flop holds     *)
(* more than two words, each request is in one place, and the requests of  *)
(* a hash form one queue (directory_bank.v:162-177, 1532-1592).            *)
THEOREM BuffersAgree == RequestsOnly => (Spec => []BuffersConsistent)
<1>1. IInv => OneTokenEach /\ OneQueuePerHash
  BY OneToken, OneQueue DEF IInv
<1>2. IInv => TypeOK
  BY TypedIsTypeOK DEF IInv, Inv
<1>3. IInv => BuffersConsistent
  BY <1>1, <1>2 DEF BuffersConsistent
<1>4. QED BY <1>3, Invariance, PTL
=============================================================================
