--------------------------- MODULE DirectoryBank ----------------------------
(***************************************************************************)
(* A directory bank: rtl/directory_bank.v as it is built, that is without  *)
(* DR_PASSTHROUGH.  It takes line requests from the L2 caches, keeps them  *)
(* in a buffer of NumSlots outstanding requests, looks the line up in its  *)
(* tags and entries, fetches it from memory or snoops the nodes that hold  *)
(* it one after the other, and answers.                                    *)
(*                                                                         *)
(* A step is one handler taking its input: what the handler drives at that *)
(* clock edge.  The elastic flops between handlers are queues of two       *)
(* places (module Fflop implements them); a handler that drives several    *)
(* flops waits until all of them have room.  The arbiters choose among     *)
(* handlers that are ready; here any of them may go first.                 *)
(*                                                                         *)
(* The L2 caches and the memory are the environment: copy is what each L2  *)
(* holds, asked the requests it waits for, memory the answers memory owes. *)
(* The directory reads none of them.                                       *)
(***************************************************************************)
EXTENDS DirectoryOps, Sequences, FiniteSets

CONSTANTS L2id,           \* ids an L2 gives its requests, nonzero
          Lines, Line0,   \* line addresses; Line0 is the address zero
          SetOf, HashOf,  \* Lines -> set index and 8-bit tag hash
          NumSlots,       \* 1 << OUTSTANDING_REQUEST_BITS, 4 in the code
          Cmds,           \* commands the L2s use
          Displacements,  \* commands of displacements L2s start on their own
          Prefetches,     \* whether L2s prefetch
          SharersReturnData, \* whether a clean sharer may answer WI with data
          SilentDrops,    \* whether L2s drop clean copies without a word
          FaultyReplies,  \* whether nodes answer snoops against the protocol
          DackOnValid,    \* which driver of drtol2_dack_next_valid the build keeps
          MaxReq          \* bound: requests, displacements and prefetches sent

REQ_S  == 0
REQ_M  == 1
REQ_NC == 2
DR_CMD_NEW_ENTRY    == 0
DR_CMD_UPDATE_ENTRY == 1

ASSUME DirectoryAssumption ==
    /\ Line0 \in Lines
    /\ SetOf \in [Lines -> Nat] /\ DOMAIN HashOf = Lines
    /\ \A l \in Lines : HashOf[l] # NoTag
    /\ NumSlots \in Nat \ {0} /\ L2id \subseteq Nat \ {0}
    /\ Cmds \subseteq {REQ_S, REQ_M, REQ_NC}
    /\ Displacements \subseteq {"WI", "WS", "I", "NC"}
    /\ Prefetches \in BOOLEAN /\ SharersReturnData \in BOOLEAN
    /\ SilentDrops \in BOOLEAN /\ FaultyReplies \in BOOLEAN /\ DackOnValid \in BOOLEAN
    /\ MaxReq \in Nat

VARIABLES req_buf,    \* the outstanding requests
          entry_buf,  \* the entry each of them is snooping, and the position
          tags, entries,
          ff,         \* the elastic flops, oldest word first
          latch,      \* signals the always_comb blocks do not always assign
          copy, asked, sent, snoops, disp, snoop_ack,
          memory

dir  == <<req_buf, entry_buf, tags, entries, ff, latch>>
l2   == <<copy, asked, sent, snoops>>
vars == <<dir, l2, disp, snoop_ack, memory>>

Slots == 0 .. NumSlots - 1
Drid  == 0 .. NumSlots          \* zero names no outstanding request
Sets  == {SetOf[l] : l \in Lines}

(* mutant: the slot is indexed by the drid itself *)
SlotOfDrid(drid) == drid % NumSlots

(* drid - 1 in OUTSTANDING_REQUEST_BITS bits: the drid zero wraps. *)
SlotOf(drid) == (drid + NumSlots - 1) % NumSlots

Nodes == Nid \cup {NoNid}
Snack == {"ACK_S", "ACK_M", "ACK_OTHERI", "ACK_PS", "WI", "WS"}
Stage == [dr_cmd : BOOLEAN, cmd : 0..2, paddr : Lines, nid : Nodes, drid : Drid]
Msg   == [drid : Drid, nid : Nodes, l2id : L2id \cup {0}, paddr : Lines, snack : Snack]
Reply == [drid : Drid, nid : Nodes, paddr : Lines, dcmd : {"WI", "WS", "I", "NC"}]
Request == [nid : Nid, l2id : L2id, paddr : Lines, cmd : Cmds]
MemReq  == [drid : Drid, paddr : Lines, cmd : 0..2]

EmptySlot == [valid |-> FALSE, cmd |-> REQ_S, paddr |-> Line0, nid |-> NoNid,
              l2id |-> 0, found |-> FALSE, next |-> 0]

(* mutant: the retry comes a word too late *)
RoomLate(queue) == Len(queue) < 3

(* An elastic flop refuses its producer while its shadow is valid. *)
Room(queue) == Len(queue) < 2

Outstanding == [valid : BOOLEAN, cmd : 0..2, paddr : Lines, nid : Nodes,
                l2id : L2id \cup {0}, found : BOOLEAN, next : Drid]
SnoopState == [pos : Pointers, entry : Entry]
Flops   == [tag_req : Seq(Stage), entry : Seq([req : Stage, entry : Entry]),
            mem : Seq(MemReq), snack : Seq(Msg), disp_snack : Seq(Msg), wb : Seq(Lines),
            dack : Seq(Nodes), release : Seq(Slots), pfreq : Seq([nid : Nid, paddr : Lines])]
Latches == [entry_pos_start : Pointers, found_line : BOOLEAN, snoop_rel : BOOLEAN]
MemAnswer == [drid : Drid, nid : Nodes, paddr : Lines, ack : Snack]

FlopsOK == ff \in Flops /\ \A q \in DOMAIN ff : Len(ff[q]) <= 2

TypeOK ==
    /\ req_buf \in [Slots -> Outstanding] /\ entry_buf \in [Slots -> SnoopState]
    /\ tags \in [Sets -> [Ways -> {HashOf[l] : l \in Lines} \cup {NoTag}]]
    /\ entries \in [Sets -> [Ways -> Entry]]
    /\ FlopsOK /\ latch \in Latches
    /\ copy \in [Nid -> [Lines -> {"I", "S", "M"}]]
    /\ asked \subseteq Request /\ sent \in 0 .. MaxReq
    /\ snoops \subseteq Msg /\ disp \subseteq Reply /\ snoop_ack \subseteq Drid
    /\ memory \subseteq MemAnswer

Init ==
    /\ req_buf = [s \in Slots |-> EmptySlot]
    /\ entry_buf = [s \in Slots |-> [pos |-> 0, entry |-> EmptyEntry]]
    /\ tags = [s \in Sets |-> [w \in Ways |-> NoTag]]
    /\ entries = [s \in Sets |-> [w \in Ways |-> EmptyEntry]]
    /\ ff = [tag_req |-> << >>, entry |-> << >>, mem |-> << >>, snack |-> << >>,
             disp_snack |-> << >>, wb |-> << >>, dack |-> << >>, release |-> << >>,
             pfreq |-> << >>]
    /\ latch = [entry_pos_start |-> 0, found_line |-> FALSE, snoop_rel |-> FALSE]
    /\ copy = [n \in Nid |-> [l \in Lines |-> "I"]]
    /\ asked = {} /\ sent = 0 /\ snoops = {} /\ disp = {} /\ snoop_ack = {}
    /\ memory = {}

-----------------------------------------------------------------------------
(* Requests.  The slot is the first free one.  A request for a line whose  *)
(* hash an outstanding request has already is only queued behind the last  *)
(* of those; its handler is the release of that one.                       *)

FreeSlot(s) == ~req_buf[s].valid /\ \A t \in Slots : t < s => req_buf[t].valid

(* mutant: the whole buffer is searched, also slots that have a successor *)
ConflictsAnywhere(paddr) ==
    {s \in Slots : req_buf[s].valid /\ HashOf[req_buf[s].paddr] = HashOf[paddr]}

Conflicts(paddr) ==
    {s \in Slots : /\ req_buf[s].valid /\ req_buf[s].next = 0
                   /\ HashOf[req_buf[s].paddr] = HashOf[paddr]}

(* The found bit that is reset is that of the slot the displacement port   *)
(* points at, whether a displacement is there or not.                      *)
Allocated(s, rq, atPort) ==
    LET filled == [req_buf EXCEPT ![s] =
                      [valid |-> TRUE, cmd |-> rq.cmd, paddr |-> rq.paddr, nid |-> rq.nid,
                       l2id |-> rq.l2id, found |-> @.found, next |-> 0]]
    IN [filled EXCEPT ![atPort].found = FALSE]

(* An L2 asks for what it does not hold, once at a time for each line. *)
MayAsk(rq) ==
    /\ sent < MaxReq
    /\ \A o \in asked : o.nid = rq.nid => o.l2id # rq.l2id /\ o.paddr # rq.paddr
    /\ rq.cmd = REQ_S => copy[rq.nid][rq.paddr] = "I"
    /\ rq.cmd = REQ_M => copy[rq.nid][rq.paddr] # "M"

Send(rq) ==
    /\ MayAsk(rq)
    /\ asked' = asked \cup {rq} /\ sent' = sent + 1

StageOf(dr_cmd, cmd, paddr, nid, drid) ==
    [dr_cmd |-> dr_cmd, cmd |-> cmd, paddr |-> paddr, nid |-> nid, drid |-> drid]

AcceptRequest ==
    \E rq \in Request, s, atPort \in Slots :
        /\ Send(rq)
        /\ FreeSlot(s) /\ Conflicts(rq.paddr) = {} /\ Room(ff.tag_req)
        /\ req_buf' = Allocated(s, rq, atPort)
        /\ ff' = [ff EXCEPT !.tag_req =
                     Append(@, StageOf(FALSE, rq.cmd, rq.paddr, rq.nid, s + 1))]
        /\ UNCHANGED <<entry_buf, tags, entries, latch, copy, snoops, disp, snoop_ack,
                       memory>>

(* mutant: the conflict is seen but the request is not linked *)
QueuedUnlinked(s, rq, atPort) == Allocated(s, rq, atPort)

Queued(s, rq, atPort) ==
    [Allocated(s, rq, atPort) EXCEPT ![Lowest(Conflicts(rq.paddr))].next = s + 1]

AcceptConflicting ==
    \E rq \in Request, s, atPort \in Slots :
        /\ Send(rq)
        /\ FreeSlot(s) /\ Conflicts(rq.paddr) # {}
        /\ req_buf' = Queued(s, rq, atPort)
        /\ UNCHANGED <<entry_buf, tags, entries, ff, latch, copy, snoops, disp, snoop_ack,
                       memory>>

-----------------------------------------------------------------------------
(* The tag stage.  A miss takes a way and starts a memory request; a hit   *)
(* reads the entry; the commands of the directory itself write the entry.  *)

TagSet(r) == SetOf[r.paddr]
TagHit(r) == tag_hit(tags[TagSet(r)], HashOf[r.paddr])
TagWay(r) == tag_pos_next(tags[TagSet(r)], HashOf[r.paddr])

(* mutant: the hash is written on a hit as well *)
TagsAfterAlways(r) == [tags EXCEPT ![TagSet(r)][TagWay(r)] = HashOf[r.paddr]]

TagsAfter(r) ==
    IF TagHit(r) THEN tags ELSE [tags EXCEPT ![TagSet(r)][TagWay(r)] = HashOf[r.paddr]]

EntriesWith(r, e) == [entries EXCEPT ![TagSet(r)][TagWay(r)] = e]

tag_miss_entry(r) == NewEntry(r.nid, r.cmd # REQ_M)

TagMiss ==
    /\ ff.tag_req # << >> /\ Room(ff.mem)
    /\ LET r == Head(ff.tag_req) IN
       /\ ~r.dr_cmd /\ ~TagHit(r)
       /\ tags' = TagsAfter(r) /\ entries' = EntriesWith(r, tag_miss_entry(r))
       /\ ff' = [ff EXCEPT !.tag_req = Tail(@),
                    !.mem = Append(@, [drid |-> r.drid, paddr |-> r.paddr, cmd |-> r.cmd])]
    /\ UNCHANGED <<req_buf, entry_buf, latch, l2, disp, snoop_ack, memory>>

TagHitRequest ==
    /\ ff.tag_req # << >> /\ Room(ff.entry)
    /\ LET r == Head(ff.tag_req) IN
       /\ ~r.dr_cmd /\ TagHit(r)
       /\ ff' = [ff EXCEPT !.tag_req = Tail(@),
                    !.entry = Append(@, [req |-> r, entry |-> entries[TagSet(r)][TagWay(r)]])]
    /\ UNCHANGED <<req_buf, entry_buf, tags, entries, latch, l2, disp, snoop_ack,
                   memory>>

(* mutant: the update is lost *)
InternalEntryLost(r) == entry_buf[SlotOf(r.drid)].entry

InternalEntry(r) ==
    IF r.cmd = DR_CMD_UPDATE_ENTRY
    THEN UpdatedEntry(entry_buf[SlotOf(r.drid)].entry, r.nid)
    ELSE tag_miss_entry(r)

TagInternal ==
    /\ ff.tag_req # << >>
    /\ LET r == Head(ff.tag_req) IN
       /\ r.dr_cmd
       /\ tags' = TagsAfter(r) /\ entries' = EntriesWith(r, InternalEntry(r))
       /\ ff' = [ff EXCEPT !.tag_req = Tail(@)]
    /\ UNCHANGED <<req_buf, entry_buf, latch, l2, disp, snoop_ack, memory>>

-----------------------------------------------------------------------------
(* Snoops.  The first one is sent from the entry stage, the next ones by   *)
(* the answer to the one before.  A request that finds only itself in the  *)
(* entry snoops itself.                                                    *)

SnoopFor(cmd) == IF cmd = REQ_S THEN "WS" ELSE "WI"

Snoop(drid, nid, paddr, cmd) ==
    [drid |-> drid, nid |-> nid, l2id |-> 0, paddr |-> paddr, snack |-> SnoopFor(cmd)]

EntrySnoop ==
    /\ ff.entry # << >> /\ Room(ff.snack)
    /\ LET r     == Head(ff.entry).req
           e     == WithoutRequester(Head(ff.entry).entry, r.nid)
           start == IF Used(e) = {} THEN latch.entry_pos_start ELSE Lowest(Used(e))
           who   == IF Used(e) = {} THEN r.nid ELSE e.nid[start] IN
       /\ ff' = [ff EXCEPT !.entry = Tail(@),
                           !.snack = Append(@, Snoop(r.drid, who, r.paddr, r.cmd))]
       /\ entry_buf' = [entry_buf EXCEPT ![SlotOf(r.drid)] = [pos |-> start, entry |-> e]]
       /\ latch' = [latch EXCEPT !.entry_pos_start = start]
    /\ UNCHANGED <<req_buf, tags, entries, l2, disp, snoop_ack, memory>>

(* The entry of a slot without the node that has just answered, and the    *)
(* pointers that remain to be asked.                                       *)
Cleared(s) == WithoutPointer(entry_buf[s].entry, entry_buf[s].pos)

Remaining(s) == Later(Cleared(s), entry_buf[s].pos)

(* The internal command that a snoop's answer puts in front of the tags. *)
Internal(s, drid, cmd) == StageOf(TRUE, cmd, req_buf[s].paddr, req_buf[s].nid, drid)

(* snoop_ack_gen_rel_valid keeps its value unless the found branch is      *)
(* evaluated: while it is high every answer releases the slot it names.    *)
LatchedRelease(s) ==
    IF latch.snoop_rel /\ Room(ff.release) THEN Append(ff.release, s) ELSE ff.release

SnoopNext ==
    \E drid \in snoop_ack :
        LET s == SlotOf(drid) IN
        /\ Remaining(s) # {} /\ Room(ff.snack)
        /\ LET p == Lowest(Remaining(s)) IN
           /\ ff' = [ff EXCEPT !.release = LatchedRelease(s),
                        !.snack = Append(@, Snoop(drid, Cleared(s).nid[p],
                                                  req_buf[s].paddr, req_buf[s].cmd))]
           /\ entry_buf' = [entry_buf EXCEPT ![s] = [pos |-> p, entry |-> Cleared(s)]]
        /\ snoop_ack' = snoop_ack \ {drid}
        /\ UNCHANGED <<req_buf, tags, entries, latch, l2, disp, memory>>

(* Nobody has the line: it is a miss after all. *)
SnoopsDenied ==
    \E drid \in snoop_ack :
        LET s == SlotOf(drid) IN
        /\ Remaining(s) = {} /\ ~req_buf[s].found
        /\ Room(ff.tag_req) /\ Room(ff.mem)
        /\ ff' = [ff EXCEPT !.release = LatchedRelease(s),
                     !.tag_req = Append(@, Internal(s, drid, DR_CMD_NEW_ENTRY)),
                     !.mem = Append(@, [drid |-> drid, paddr |-> req_buf[s].paddr,
                                        cmd |-> req_buf[s].cmd])]
        /\ snoop_ack' = snoop_ack \ {drid}
        /\ UNCHANGED <<req_buf, entry_buf, tags, entries, latch, l2, disp, memory>>

(* The data was found at an earlier node.  snoop_ack_gen_req_valid does    *)
(* not look at found: a memory request leaves if memory has room for it.   *)
SnoopsDoneFound ==
    \E drid \in snoop_ack :
        LET s == SlotOf(drid) IN
        /\ Remaining(s) = {} /\ req_buf[s].found /\ Room(ff.tag_req)
        /\ Room(ff.release) \/ Room(ff.mem)
        /\ LET taken == Room(ff.release) IN
           /\ ff' = [ff EXCEPT
                 !.tag_req = IF taken THEN Append(@, Internal(s, drid, DR_CMD_NEW_ENTRY)) ELSE @,
                 !.release = IF taken THEN Append(@, s) ELSE @,
                 !.mem = IF Room(@) THEN Append(@, [drid |-> drid, paddr |-> req_buf[s].paddr,
                                                    cmd |-> req_buf[s].cmd])
                         ELSE @]
           /\ snoop_ack' = IF taken THEN snoop_ack \ {drid} ELSE snoop_ack
        /\ latch' = [latch EXCEPT !.snoop_rel = TRUE]
        /\ UNCHANGED <<req_buf, entry_buf, tags, entries, l2, disp, memory>>

(* An idle cycle of the snoop ack port: the latch falls if the found       *)
(* branch is evaluated, otherwise the slot on the wires is released.       *)
SnoopAckIdle ==
    /\ latch.snoop_rel
    /\ \/ latch' = [latch EXCEPT !.snoop_rel = FALSE] /\ UNCHANGED ff
       \/ \E s \in Slots : /\ ~req_buf[s].found /\ Room(ff.release)
                           /\ ff' = [ff EXCEPT !.release = Append(@, s)]
                           /\ UNCHANGED latch
    /\ UNCHANGED <<req_buf, entry_buf, tags, entries, l2, disp, snoop_ack, memory>>

-----------------------------------------------------------------------------
(* Displacements.  With a drid a displacement is the data a snoop brought  *)
(* back, with drid zero the L2 gives a line up on its own.                 *)

DispSlot(d) == SlotOf(d.drid)

(* entry_buf after a displacement: every WI clears the pointer at the      *)
(* position of the slot the drid points at.                                *)
EntryBufAfter(d) ==
    LET s    == DispSlot(d)
        rest == Later(Cleared(s), entry_buf[s].pos)
    IN IF d.dcmd # "WI" THEN entry_buf
       ELSE [entry_buf EXCEPT ![s] =
                [pos |-> IF rest = {} THEN @.pos ELSE Lowest(rest), entry |-> Cleared(s)]]

(* found_line is only ever assigned 1: from then on every displacement     *)
(* marks the slot it points at.                                            *)
ReqBufAfter(d, foundNow) ==
    IF foundNow \/ latch.found_line
    THEN [req_buf EXCEPT ![DispSlot(d)].found = TRUE] ELSE req_buf

(* dack_next_valid follows the bare valid of the port whenever the         *)
(* displacement answers a snoop: the data is acknowledged if there is room. *)
DackIfRoom(queue, d) == IF Room(queue) THEN Append(queue, d.nid) ELSE queue

(* mutant: the id of the L2's request is not copied to the answer *)
AnswerWithoutId(s, paddr, snack) ==
    [drid |-> 0, nid |-> req_buf[s].nid, l2id |-> 0, paddr |-> paddr, snack |-> snack]

Answer(s, paddr, snack) ==
    [drid |-> 0, nid |-> req_buf[s].nid, l2id |-> req_buf[s].l2id, paddr |-> paddr,
     snack |-> snack]

AckFor(cmd) == IF cmd = REQ_S THEN "ACK_S" ELSE "ACK_M"

(* A line the entry calls private is written back when it becomes shared. *)
WritebackIfPrivate(s, d) ==
    IF entry_buf[s].entry.shared THEN ff.wb ELSE Append(ff.wb, d.paddr)

(* Data for REQ_S: forward it, add the requester to the entry, release. *)
DispShared ==
    \E d \in disp :
        LET s == DispSlot(d) IN
        /\ d.drid # 0 /\ req_buf[s].cmd = REQ_S /\ d.dcmd \in {"WI", "WS"}
        /\ Room(ff.snack) /\ Room(ff.tag_req) /\ Room(ff.release)
        /\ ~entry_buf[s].entry.shared => Room(ff.wb)
        /\ ff' = [ff EXCEPT !.dack = DackIfRoom(@, d), !.wb = WritebackIfPrivate(s, d),
                        !.snack = Append(@, Answer(s, req_buf[s].paddr, "ACK_S")),
                        !.tag_req = Append(@, Internal(s, d.drid, DR_CMD_UPDATE_ENTRY)),
                        !.release = Append(@, s)]
        /\ entry_buf' = EntryBufAfter(d) /\ req_buf' = ReqBufAfter(d, FALSE)
        /\ disp' = disp \ {d}
        /\ UNCHANGED <<tags, entries, latch, l2, snoop_ack, memory>>

(* Data for REQ_M from the last node asked: forward it, write it back,     *)
(* replace the entry, release.                                             *)
DispOwner ==
    \E d \in disp :
        LET s == DispSlot(d) IN
        /\ d.drid # 0 /\ req_buf[s].cmd = REQ_M /\ d.dcmd = "WI"
        /\ Used(Cleared(s)) = {} /\ ~req_buf[s].found
        /\ Room(ff.snack) /\ Room(ff.tag_req) /\ Room(ff.release) /\ Room(ff.wb)
        /\ ff' = [ff EXCEPT !.dack = DackIfRoom(@, d), !.wb = Append(@, d.paddr),
                        !.snack = Append(@, Answer(s, req_buf[s].paddr, "ACK_M")),
                        !.tag_req = Append(@, Internal(s, d.drid, DR_CMD_NEW_ENTRY)),
                        !.release = Append(@, s)]
        /\ entry_buf' = EntryBufAfter(d) /\ req_buf' = ReqBufAfter(d, FALSE)
        /\ disp' = disp \ {d}
        /\ UNCHANGED <<tags, entries, latch, l2, snoop_ack, memory>>

(* The snoop for the next sharer; to nobody if there is none after pos. *)
NextInvalidation(d) ==
    LET s    == DispSlot(d)
        rest == Remaining(s)
    IN [drid |-> d.drid, nid |-> IF rest = {} THEN NoNid ELSE Cleared(s).nid[Lowest(rest)],
        l2id |-> 0, paddr |-> req_buf[s].paddr, snack |-> "WI"]

(* The first data for REQ_M while there are more sharers: answer at once   *)
(* and go on invalidating through a second snack flop.                     *)
DispFoundFirst ==
    \E d \in disp :
        LET s == DispSlot(d) IN
        /\ d.drid # 0 /\ req_buf[s].cmd = REQ_M /\ d.dcmd = "WI"
        /\ Used(Cleared(s)) # {} /\ ~req_buf[s].found
        /\ Room(ff.snack) /\ Room(ff.disp_snack)
        /\ ff' = [ff EXCEPT !.dack = DackIfRoom(@, d),
                        !.snack = Append(@, Answer(s, req_buf[s].paddr, "ACK_M")),
                        !.disp_snack = Append(@, NextInvalidation(d))]
        /\ latch' = [latch EXCEPT !.found_line = TRUE]
        /\ entry_buf' = EntryBufAfter(d) /\ req_buf' = ReqBufAfter(d, TRUE)
        /\ disp' = disp \ {d}
        /\ UNCHANGED <<tags, entries, l2, snoop_ack, memory>>

(* Further data while there are more sharers: only go on invalidating. *)
DispFoundMore ==
    \E d \in disp :
        LET s == DispSlot(d) IN
        /\ d.drid # 0 /\ req_buf[s].cmd = REQ_M /\ d.dcmd = "WI"
        /\ Used(Cleared(s)) # {} /\ req_buf[s].found /\ Room(ff.snack)
        /\ ff' = [ff EXCEPT !.dack = DackIfRoom(@, d), !.snack = Append(@, NextInvalidation(d))]
        /\ entry_buf' = EntryBufAfter(d) /\ req_buf' = ReqBufAfter(d, FALSE)
        /\ disp' = disp \ {d}
        /\ UNCHANGED <<tags, entries, latch, l2, snoop_ack, memory>>

(* The last data after the line was found.  The port's retry does not      *)
(* listen to the tag stage: without room there, the new entry and the      *)
(* release are lost.  It listens to the second snack flop, which it does   *)
(* not use, and repeats both if that one has no room.                      *)
DispFoundLast ==
    \E d \in disp :
        LET s     == DispSlot(d)
            taken == Room(ff.disp_snack)
            done  == Room(ff.tag_req) IN
        /\ d.drid # 0 /\ req_buf[s].cmd = REQ_M /\ d.dcmd = "WI"
        /\ Used(Cleared(s)) = {} /\ req_buf[s].found
        /\ Room(ff.snack) /\ Room(ff.release) /\ (taken \/ done)
        /\ ff' = [ff EXCEPT !.dack = DackIfRoom(@, d),
                        !.snack = IF taken THEN Append(@, NextInvalidation(d)) ELSE @,
                        !.tag_req = IF done THEN Append(@, Internal(s, d.drid, DR_CMD_NEW_ENTRY))
                                    ELSE @,
                        !.release = IF done THEN Append(@, s) ELSE @]
        /\ entry_buf' = IF taken THEN EntryBufAfter(d) ELSE entry_buf
        /\ req_buf' = IF taken THEN ReqBufAfter(d, FALSE) ELSE req_buf
        /\ disp' = IF taken THEN disp \ {d} ELSE disp
        /\ UNCHANGED <<tags, entries, latch, l2, snoop_ack, memory>>

(* A snoop answered with non-cacheable data: answer and release. *)
DispNonCacheable ==
    \E d \in disp :
        LET s == DispSlot(d) IN
        /\ d.drid # 0 /\ req_buf[s].cmd \in {REQ_S, REQ_M} /\ d.dcmd = "NC"
        /\ Room(ff.snack) /\ Room(ff.release)
        /\ ff' = [ff EXCEPT !.dack = DackIfRoom(@, d), !.release = Append(@, s),
                        !.snack = Append(@, Answer(s, req_buf[s].paddr, AckFor(req_buf[s].cmd)))]
        /\ req_buf' = ReqBufAfter(d, FALSE) /\ disp' = disp \ {d}
        /\ UNCHANGED <<entry_buf, tags, entries, latch, l2, snoop_ack, memory>>

(* "Error state, ignore this disp": the snoop has no answer. *)
DispIgnored ==
    \E d \in disp :
        LET s == DispSlot(d) IN
        /\ d.drid # 0
        /\ \/ req_buf[s].cmd = REQ_S /\ d.dcmd = "I"
           \/ req_buf[s].cmd = REQ_M /\ d.dcmd \in {"I", "WS"}
        /\ ff' = [ff EXCEPT !.dack = DackIfRoom(@, d)]
        /\ req_buf' = ReqBufAfter(d, FALSE) /\ disp' = disp \ {d}
        /\ UNCHANGED <<entry_buf, tags, entries, latch, l2, snoop_ack, memory>>

(* The snack of all zeros that leaves with every WI, WS and NC of drid     *)
(* zero when the snack flop has room and nothing else wants it.            *)
ZeroSnack == [drid |-> 0, nid |-> NoNid, l2id |-> 0, paddr |-> Line0, snack |-> "ACK_S"]
MayZeroSnack(queue) == IF Room(queue) THEN {queue, Append(queue, ZeroSnack)} ELSE {queue}

(* The internal request of a WI or I is all zeros too: a request, not one  *)
(* of the directory's own commands, for the line at address zero.          *)
ZeroRequest == StageOf(FALSE, REQ_S, Line0, NoNid, 0)

OwnWriteback ==
    \E d \in disp :
        /\ d.drid = 0 /\ d.dcmd \in {"WI", "WS", "NC"}
        /\ Room(ff.wb) /\ Room(ff.dack) /\ (d.dcmd = "WI" => Room(ff.tag_req))
        /\ \E snack \in MayZeroSnack(ff.snack) :
              ff' = [ff EXCEPT !.snack = snack, !.wb = Append(@, d.paddr),
                        !.dack = Append(@, d.nid),
                        !.tag_req = IF d.dcmd = "WI" THEN Append(@, ZeroRequest) ELSE @]
        /\ entry_buf' = EntryBufAfter(d) /\ req_buf' = ReqBufAfter(d, FALSE)
        /\ disp' = disp \ {d}
        /\ UNCHANGED <<tags, entries, latch, l2, snoop_ack, memory>>

OwnInvalidation ==
    \E d \in disp :
        /\ d.drid = 0 /\ d.dcmd = "I" /\ Room(ff.dack) /\ Room(ff.tag_req)
        /\ ff' = [ff EXCEPT !.dack = Append(@, d.nid), !.tag_req = Append(@, ZeroRequest)]
        /\ req_buf' = ReqBufAfter(d, FALSE) /\ disp' = disp \ {d}
        /\ UNCHANGED <<entry_buf, tags, entries, latch, l2, snoop_ack, memory>>

(* A displacement that its handler does not take in a cycle is on the      *)
(* wires all the same.  dack_next_valid is driven by two always_comb       *)
(* blocks; where the bare valid of the port wins (DackOnValid for a drid   *)
(* of zero, always for the answer of a snoop), it is acknowledged.         *)
DispRefused ==
    \E d \in disp :
        /\ d.drid # 0 \/ DackOnValid
        /\ Room(ff.dack)
        /\ ff' = [ff EXCEPT !.dack = Append(@, d.nid)]
        /\ UNCHANGED <<req_buf, entry_buf, tags, entries, latch, l2, disp, snoop_ack,
                       memory>>

-----------------------------------------------------------------------------
(* Answers of memory, releases, and the flops that only pass words on. *)

(* Drid zero is the answer to a prefetch, for the node memory names. *)
MemAck ==
    \E m \in memory :
        LET s == SlotOf(m.drid) IN
        /\ Room(ff.snack) /\ (m.drid # 0 => Room(ff.release))
        /\ ff' = IF m.drid = 0
                 THEN [ff EXCEPT !.snack = Append(@, [drid |-> 0, nid |-> m.nid, l2id |-> 0,
                                                      paddr |-> m.paddr, snack |-> m.ack])]
                 ELSE [ff EXCEPT !.snack = Append(@, Answer(s, req_buf[s].paddr, m.ack)),
                                 !.release = Append(@, s)]
        /\ memory' = memory \ {m}
        /\ UNCHANGED <<req_buf, entry_buf, tags, entries, latch, l2, disp, snoop_ack>>

(* mutant: only the valid bit of the slot is cleared *)
ReleasedKeepsRest(s) == [req_buf EXCEPT ![s].valid = FALSE, ![s].next = 0]

Released(s) == [req_buf EXCEPT ![s] = EmptySlot]

(* mutant: the successor is forgotten *)
ReleasedAlone(s) == ff.tag_req

(* The request queued behind slot s, if any, starts when s is released. *)
Started(s) ==
    LET drid == req_buf[s].next
        next == req_buf[SlotOf(drid)]
    IN IF drid = 0 THEN ff.tag_req
       ELSE Append(ff.tag_req, StageOf(FALSE, next.cmd, next.paddr, next.nid, drid))

Release ==
    /\ ff.release # << >>
    /\ LET s == Head(ff.release) IN
       /\ req_buf[s].next # 0 => Room(ff.tag_req)
       /\ req_buf' = Released(s)
       /\ ff' = [ff EXCEPT !.release = Tail(@), !.tag_req = Started(s)]
    /\ UNCHANGED <<entry_buf, tags, entries, latch, l2, disp, snoop_ack, memory>>

SecondSnack ==
    /\ ff.disp_snack # << >> /\ Room(ff.snack)
    /\ ff' = [ff EXCEPT !.disp_snack = Tail(@), !.snack = Append(@, Head(ff.disp_snack))]
    /\ UNCHANGED <<req_buf, entry_buf, tags, entries, latch, l2, disp, snoop_ack,
                   memory>>

AcceptPrefetch ==
    \E n \in Nid, l \in Lines :
        /\ Prefetches /\ sent < MaxReq /\ copy[n][l] = "I" /\ Room(ff.pfreq)
        /\ ff' = [ff EXCEPT !.pfreq = Append(@, [nid |-> n, paddr |-> l])]
        /\ sent' = sent + 1
        /\ UNCHANGED <<req_buf, entry_buf, tags, entries, latch, copy, asked, snoops, disp,
                       snoop_ack, memory>>

-----------------------------------------------------------------------------
(* The environment: memory. *)

AckOf(cmd) == IF cmd = REQ_S THEN "ACK_S" ELSE IF cmd = REQ_M THEN "ACK_M" ELSE "ACK_OTHERI"

MemTakesRequest ==
    /\ ff.mem # << >>
    /\ LET m == Head(ff.mem) IN
       \E n \in Nodes :
          /\ m.drid # 0 => n = NoNid
          /\ memory' = memory \cup {[drid |-> m.drid, nid |-> n, paddr |-> m.paddr,
                                     ack |-> AckOf(m.cmd)]}
    /\ ff' = [ff EXCEPT !.mem = Tail(@)]
    /\ UNCHANGED <<req_buf, entry_buf, tags, entries, latch, l2, disp, snoop_ack>>

(* A prefetch is answered or dropped. *)
MemTakesPrefetch ==
    /\ ff.pfreq # << >>
    /\ LET p == Head(ff.pfreq) IN
       memory' \in {memory, memory \cup {[drid |-> 0, nid |-> p.nid, paddr |-> p.paddr,
                                          ack |-> "ACK_PS"]}}
    /\ ff' = [ff EXCEPT !.pfreq = Tail(@)]
    /\ UNCHANGED <<req_buf, entry_buf, tags, entries, latch, l2, disp, snoop_ack>>

MemTakesWriteback ==
    /\ ff.wb # << >>
    /\ ff' = [ff EXCEPT !.wb = Tail(@)]
    /\ UNCHANGED <<req_buf, entry_buf, tags, entries, latch, l2, disp, snoop_ack, memory>>

(* The environment: the L2 caches. *)

AnswersTo(m) == {rq \in asked : rq.nid = m.nid /\ rq.l2id = m.l2id}

CopyAfter(m) ==
    CASE m.snack = "ACK_S" -> "S" [] m.snack = "ACK_M" -> "M"
      [] m.snack = "ACK_PS" -> IF copy[m.nid][m.paddr] = "M" THEN "M" ELSE "S"
      [] OTHER -> copy[m.nid][m.paddr]

L2TakesAnswer ==
    /\ ff.snack # << >> /\ Head(ff.snack).drid = 0
    /\ LET m == Head(ff.snack) IN
       IF m.nid \in Nid
       THEN /\ asked' = asked \ AnswersTo(m)
            /\ copy' = [copy EXCEPT ![m.nid][m.paddr] = CopyAfter(m)]
       ELSE UNCHANGED <<asked, copy>>
    /\ ff' = [ff EXCEPT !.snack = Tail(@)]
    /\ UNCHANGED <<req_buf, entry_buf, tags, entries, latch, sent, snoops, disp, snoop_ack,
                   memory>>

L2TakesSnoop ==
    /\ ff.snack # << >> /\ Head(ff.snack).drid # 0
    /\ snoops' = IF Head(ff.snack).nid \in Nid THEN snoops \cup {Head(ff.snack)} ELSE snoops
    /\ ff' = [ff EXCEPT !.snack = Tail(@)]
    /\ UNCHANGED <<req_buf, entry_buf, tags, entries, latch, copy, asked, sent, disp,
                   snoop_ack, memory>>

L2TakesDack ==
    /\ ff.dack # << >>
    /\ ff' = [ff EXCEPT !.dack = Tail(@)]
    /\ UNCHANGED <<req_buf, entry_buf, tags, entries, latch, l2, disp, snoop_ack,
                   memory>>

Displaced(drid, n, l, dcmd) == [drid |-> drid, nid |-> n, paddr |-> l, dcmd |-> dcmd]

DisplacedCopy(n, l, dcmd) ==
    IF dcmd = "NC" THEN copy ELSE [copy EXCEPT ![n][l] = IF dcmd = "WS" THEN "S" ELSE "I"]

(* A node with data answers a snoop with the data; it may keep the line    *)
(* shared if it was asked WS.  A faulty one sends any displacement.        *)
L2ReturnsData ==
    \E sn \in snoops, dcmd \in {"WI", "WS", "I", "NC"} :
        LET n == sn.nid  l == sn.paddr IN
        /\ copy[n][l] = "M" \/ (copy[n][l] = "S" /\ (sn.snack = "WS" \/ SharersReturnData))
        /\ dcmd = "WI" \/ (dcmd = "WS" /\ sn.snack = "WS") \/ FaultyReplies
        /\ disp' = disp \cup {Displaced(sn.drid, n, l, dcmd)}
        /\ copy' = DisplacedCopy(n, l, dcmd)
        /\ snoops' = snoops \ {sn}
        /\ UNCHANGED <<dir, asked, sent, snoop_ack, memory>>

(* A node without the line, or with a clean copy it gives up, returns no data. *)
L2Denies ==
    \E sn \in snoops :
        /\ copy[sn.nid][sn.paddr] # "M"
        /\ snoop_ack' = snoop_ack \cup {sn.drid}
        /\ copy' = [copy EXCEPT ![sn.nid][sn.paddr] = "I"]
        /\ snoops' = snoops \ {sn}
        /\ UNCHANGED <<dir, asked, sent, disp, memory>>

(* A clean copy is dropped in silence. *)
L2Drops ==
    \E n \in Nid, l \in Lines :
        /\ SilentDrops /\ copy[n][l] = "S"
        /\ copy' = [copy EXCEPT ![n][l] = "I"]
        /\ UNCHANGED <<dir, asked, sent, snoops, disp, snoop_ack, memory>>

(* A displacement of the L2's own. *)
L2Displaces ==
    \E n \in Nid, l \in Lines, dcmd \in Displacements :
        /\ sent < MaxReq /\ sent' = sent + 1
        /\ \/ dcmd = "NC"
           \/ dcmd = "WS" /\ copy[n][l] = "M"
           \/ dcmd = "WI" /\ copy[n][l] # "I"
           \/ dcmd = "I" /\ copy[n][l] = "S"
        /\ copy' = DisplacedCopy(n, l, dcmd)
        /\ disp' = disp \cup {Displaced(0, n, l, dcmd)}
        /\ UNCHANGED <<dir, asked, snoops, snoop_ack, memory>>

-----------------------------------------------------------------------------
Requests  == AcceptRequest \/ AcceptConflicting \/ AcceptPrefetch
TagStage  == TagMiss \/ TagHitRequest \/ TagInternal
SnoopAck  == SnoopNext \/ SnoopsDenied \/ SnoopsDoneFound
DispReply == \/ DispShared \/ DispOwner \/ DispFoundFirst \/ DispFoundMore
             \/ DispFoundLast \/ DispNonCacheable \/ DispIgnored
DispOwn   == OwnWriteback \/ OwnInvalidation

Directory == \/ Requests \/ TagStage \/ EntrySnoop \/ SnoopAck \/ SnoopAckIdle
             \/ DispReply \/ DispOwn \/ DispRefused \/ MemAck \/ Release \/ SecondSnack

Memory == MemTakesRequest \/ MemTakesPrefetch \/ MemTakesWriteback
L2     == \/ L2TakesAnswer \/ L2TakesSnoop \/ L2TakesDack
          \/ L2ReturnsData \/ L2Denies \/ L2Drops \/ L2Displaces

Next == Directory \/ Memory \/ L2

Spec == Init /\ [][Next]_vars

(* Every handler with an input and room goes on, memory answers, and the   *)
(* L2s take what they are sent and answer snoops.  Nobody has to ask.      *)
FairSpec ==
    /\ Spec
    /\ WF_vars(TagStage) /\ WF_vars(EntrySnoop) /\ WF_vars(SnoopAck)
    /\ WF_vars(DispReply) /\ WF_vars(DispOwn) /\ WF_vars(MemAck)
    /\ WF_vars(Release) /\ WF_vars(SecondSnack)
    /\ WF_vars(MemTakesRequest) /\ WF_vars(MemTakesWriteback)
    /\ WF_vars(L2TakesAnswer) /\ WF_vars(L2TakesSnoop)
    /\ WF_vars(L2ReturnsData \/ L2Denies)

-----------------------------------------------------------------------------
Positions(queue, P(_)) == Cardinality({i \in DOMAIN queue : P(queue[i])})

Waiting(s) == \E t \in Slots : req_buf[t].valid /\ req_buf[t].next = s + 1
Active(s)  == req_buf[s].valid /\ ~Waiting(s)

(* Everything that can move the request of slot s on: its place in a       *)
(* stage, a snoop, an answer of a node or of memory, or its release.       *)
Tokens(s) ==
    LET mine(m) == m.drid = s + 1 IN
    Positions(ff.tag_req, LAMBDA r : ~r.dr_cmd /\ mine(r))
    + Positions(ff.entry, LAMBDA e : mine(e.req))
    + Positions(ff.mem, mine) + Positions(ff.snack, mine) + Positions(ff.disp_snack, mine)
    + Positions(ff.release, LAMBDA r : r = s)
    + Cardinality({m \in snoops : mine(m)}) + Cardinality({d \in disp : mine(d)})
    + Cardinality({m \in memory : mine(m)}) + Cardinality({d \in snoop_ack : d = s + 1})

(* A request that is not queued behind another is in exactly one place, a  *)
(* queued one is nowhere else, and nothing names a slot that is free: no   *)
(* message is lost or doubled between two handlers, no slot is released    *)
(* under a request that goes on, no late answer hits a slot's next tenant. *)
OneTokenEach == \A s \in Slots : Tokens(s) = IF Active(s) THEN 1 ELSE 0

IsAnswerTo(m, rq) ==
    /\ m.drid = 0 /\ m.nid = rq.nid /\ m.l2id = rq.l2id /\ m.paddr = rq.paddr
    /\ m.snack = AckOf(rq.cmd)

Holding(rq) ==
    {s \in Slots : /\ req_buf[s].valid /\ ~req_buf[s].found
                   /\ \A i \in DOMAIN ff.release : ff.release[i] # s
                   /\ req_buf[s].nid = rq.nid /\ req_buf[s].l2id = rq.l2id
                   /\ req_buf[s].paddr = rq.paddr /\ req_buf[s].cmd = rq.cmd}

(* Every request an L2 waits for is held by one slot or answered by one    *)
(* message, never both, and with the state it asked for.                   *)
AnsweredOnce ==
    \A rq \in asked :
        Cardinality(Holding(rq)) + Positions(ff.snack, LAMBDA m : IsAnswerTo(m, rq)) = 1

(* A slot is marked found only for a request whose data is on its way. *)
FoundMeansAnswered ==
    \A s \in Slots : req_buf[s].valid /\ req_buf[s].found =>
        \A rq \in asked : rq.nid = req_buf[s].nid /\ rq.l2id = req_buf[s].l2id =>
            \E i \in DOMAIN ff.snack : IsAnswerTo(ff.snack[i], rq)

(* No L2 gets an answer it does not wait for: the testbench calls that     *)
(* "unexpected drtol2 snack" (tests/directory_bank_wp_tb.cpp:725).         *)
NoUnexpectedAnswer ==
    \A i \in DOMAIN ff.snack :
        ff.snack[i].drid = 0 /\ ff.snack[i].snack # "ACK_PS"
            => \E rq \in asked : IsAnswerTo(ff.snack[i], rq)

(* The requests of one hash form one queue: one of them is being served,   *)
(* one is the last, and no two have the same successor.                    *)
OneQueuePerHash ==
    \A s \in Slots : req_buf[s].valid =>
        LET same == {t \in Slots : req_buf[t].valid
                                   /\ HashOf[req_buf[t].paddr] = HashOf[req_buf[s].paddr]} IN
        /\ Cardinality({t \in same : ~Waiting(t)}) = 1
        /\ Cardinality({t \in same : req_buf[t].next = 0}) = 1
        /\ \A t \in same : req_buf[t].next # 0 =>
               /\ SlotOf(req_buf[t].next) \in same
               /\ \A u \in same \ {t} : req_buf[u].next # req_buf[t].next

(* The request buffer, the flops and the messages agree, however handlers, *)
(* L2s and memory interleave: no flop holds more than its two places, each *)
(* request is in one place, and those of a hash form one queue             *)
(* (directory_bank.v:162-177, 1532-1592).                                  *)
BuffersConsistent == TypeOK /\ OneTokenEach /\ OneQueuePerHash

(* While one L2 has a line modified no other one has it at all: the L2s    *)
(* keep a "Normal MESI coherence protocol" (rtl/l2cache_pipe.v:13).         *)
SingleWriter ==
    \A n \in Nid, l \in Lines : copy[n][l] = "M" => \A o \in Nid \ {n} : copy[o][l] = "I"

(* A tag is in one way of its set at most: the comparison "should always   *)
(* result in a one-hot encoding result or nothing" (directory_bank.v:441).  *)
TagsOneHot ==
    \A s \in Sets, v, w \in Ways : tags[s][v] = tags[s][w] /\ tags[s][v] # NoTag => v = w

Settled(l) ==
    /\ \A s \in Slots : req_buf[s].valid => HashOf[req_buf[s].paddr] # HashOf[l]
    /\ \A i \in DOMAIN ff.tag_req : ff.tag_req[i].paddr # l

(* The entry of a line at rest names every node that has it. *)
HoldersTracked ==
    \A l \in Lines, n \in Nid : Settled(l) /\ copy[n][l] # "I" =>
        \E w \in Ways : /\ tags[SetOf[l]][w] = HashOf[l]
                        /\ \E p \in Pointers : entries[SetOf[l]][w].nid[p] = n

(* Every request is answered. *)
EventuallyAnswered == \A rq \in Request : rq \in asked ~> rq \notin asked
=============================================================================
