--------------------------- MODULE L2Passthrough ----------------------------
(***************************************************************************)
(* The L2 as it is built by default: rtl/l2cache_pipe.v without            *)
(* L2_COMPLETE.  It holds no lines.  A request of the L1 carries no        *)
(* physical address; it waits at its port until the L2TLB forwards a       *)
(* translation with the same l1id, and the two leave together for the      *)
(* directory.  A displacement waits in the same way; one that does not     *)
(* cover the whole line also asks the directory for the line and merges.   *)
(*                                                                         *)
(* Clock is one clock edge with everything the always_comb blocks drive    *)
(* before it.  The six output flops are queues of two places (module       *)
(* Fflop).  Signals that the blocks set and never clear keep their value:  *)
(* again and dack stand for them.                                          *)
(*                                                                         *)
(* The L1, the L2TLB and the directory are the environment.  acc lists the *)
(* accesses of the L1 in program order.  Requests and displacements reach  *)
(* the L2 in this order on ports of their own and translations on a third, *)
(* each port at its own pace.  up is the access presented on each port,    *)
(* took the last one the L2 accepted from it, both as positions in acc; at *)
(* is the position of the access a request is for, which no circuit reads. *)
(***************************************************************************)
EXTENDS Naturals, Sequences, FiniteSets

CONSTANTS ReadIds, DispIds,   \* l1ids of requests and of displacements
          Lines,              \* physical line addresses
          Masks,              \* which displacements the L1 makes
          MaxReads, MaxDisps, MaxPrefetches, \* bounds of a behaviour
          MaxAccesses,        \* reads, displacements and prefetches together
          MaxSnacks           \* snoops and answers together

ASSUME L2Assumption ==
    /\ ReadIds \subseteq Nat \ {0} /\ DispIds \subseteq Nat \ {0}
    /\ ReadIds \cap DispIds = {}
    /\ Masks \subseteq {"full", "partial"}
    /\ Lines \subseteq Nat \ {0} /\ Lines # {}
    /\ {MaxReads, MaxDisps, MaxPrefetches, MaxSnacks, MaxAccesses} \subseteq Nat

VARIABLES acc, up, took,      \* the L1 and its translations
          busy,               \* l1ids of reads without an answer
          snack, snoop_ack,   \* what the directory and the L1 present
          ff,                 \* the output flops, oldest word first
          again, dack,        \* the latched request and acknowledgement
          asked,              \* the flag of a displacement that asked for its line
          at_dr, got,         \* requests the directory holds; reads it took
          serial, seen        \* number of the last snack sent, and taken by the L1

vars == <<acc, up, took, busy, snack, snoop_ack, ff, again, dack, asked,
          at_dr, got, serial, seen>>

Access   == [op : {"read", "disp", "prefetch"}, l1id : ReadIds \cup DispIds \cup {0},
             paddr : Lines, mask : Masks \cup {"none"}]
Request  == [l2id : ReadIds \cup DispIds, paddr : Lines, at : Nat]
NoReq    == [l2id |-> 0, paddr |-> 0, at |-> 0]
Serial   == 0 .. MaxSnacks    \* snacks are numbered
Snack    == [l2id : ReadIds \cup DispIds \cup {0}, paddr : Lines \cup {0}, serial : Serial]
NoSnack  == [l2id |-> 0, paddr |-> 0, serial |-> 0]
Ports    == {"req", "disp", "fwd"}

Init ==
    /\ acc = << >> /\ up = [p \in Ports |-> 0] /\ took = [p \in Ports |-> 0]
    /\ busy = {} /\ snack = NoSnack /\ snoop_ack = FALSE
    /\ ff = [req |-> << >>, snack |-> << >>, ack |-> << >>,
             pfreq |-> << >>, disp |-> << >>, dack |-> << >>]
    /\ again = NoReq /\ dack = 0 /\ asked = FALSE
    /\ at_dr = {} /\ got = << >> /\ serial = 0 /\ seen = 0

-----------------------------------------------------------------------------
(* The combinational signals of a cycle. *)

Room(q) == Len(ff[q]) < 2

Valid(p) == up[p] # 0
Req  == acc[up["req"]]
Disp == acc[up["disp"]]
Fwd  == acc[up["fwd"]]

ReadMatch == Valid("req") /\ Valid("fwd") /\ Fwd.l1id = Req.l1id

(* mutant: the translation at the port is taken to be the displacement's *)
DispMatchAny == Valid("disp") /\ Valid("fwd")

DispMatch == Valid("disp") /\ Valid("fwd") /\ Fwd.l1id = Disp.l1id

SnackValid == snack # NoSnack
DrAck      == SnackValid /\ snack.l2id # 0
Full       == Valid("disp") /\ Disp.mask = "full"
Partial    == Valid("disp") /\ Disp.mask # "full"

(* The cases of a displacement that does not cover its line. *)
AskLine   == Partial /\ ~DrAck /\ DispMatch
Merges    == Partial /\ DrAck /\ DispMatch /\ snack.paddr = Fwd.paddr
OtherLine == Partial /\ DrAck /\ DispMatch /\ snack.paddr # Fwd.paddr

DispLeaves == (Full /\ DispMatch) \/ Merges

(* competitor1, the request of a partial displacement; it is not withdrawn *)
Again == IF AskLine /\ ~asked THEN [l2id |-> Disp.l1id, paddr |-> Fwd.paddr, at |-> up["disp"]]
         ELSE again

(* mutant: the L1's request is accepted though the flop refuses it *)
CompetitorRetryBlind == Again # NoReq /\ ReadMatch

CompetitorRetry == (Again # NoReq /\ ReadMatch) \/ ~Room("req")

ReqTaken == ReadMatch /\ ~CompetitorRetry

(* mutant: a translation is held only while it has nothing to match *)
FwdTakenAtOnce == Valid("fwd") /\ (ReadMatch \/ DispMatch)

FwdTaken ==
    /\ Valid("fwd") /\ (ReadMatch \/ DispMatch)
    /\ ~AskLine /\ ~OtherLine
    /\ Room("pfreq") /\ ~CompetitorRetry

DispTaken == (DispLeaves \/ OtherLine) /\ Room("disp") /\ Room("dack")

(* mutant: a line is taken from the directory though the L1 has no room *)
SnackTakenBlind == SnackValid /\ ~(Partial /\ DrAck /\ ~DispMatch)

SnackTaken == SnackValid /\ ~(Partial /\ DrAck /\ ~DispMatch) /\ Room("snack")

AckTaken == snoop_ack /\ Room("ack")

-----------------------------------------------------------------------------
(* What each flop captures: a word if its valid is high and it has room. *)

Captured(q, valid, word) == IF valid /\ Room(q) THEN Append(ff[q], word) ELSE ff[q]

ReadRequest == [l2id |-> Req.l1id, paddr |-> Fwd.paddr, at |-> up["req"]]
Dack        == IF DispLeaves THEN Disp.l1id ELSE dack

Flops ==
    [req   |-> Captured("req", Again # NoReq \/ ReadMatch,
                        IF Again # NoReq THEN Again ELSE ReadRequest),
     snack |-> Captured("snack", SnackValid, snack),
     ack   |-> Captured("ack", snoop_ack, 0),
     pfreq |-> Captured("pfreq", Valid("fwd") /\ Fwd.op = "prefetch", Fwd.paddr),
     disp  |-> Captured("disp", DispLeaves, [l2id |-> Disp.l1id, paddr |-> Fwd.paddr]),
     dack  |-> Captured("dack", Dack # 0, Dack)]

Taken(p) == CASE p = "req"  -> ReqTaken
              [] p = "disp" -> DispTaken
              [] p = "fwd"  -> FwdTaken

Clock ==
    /\ ff' = Flops
    /\ up' = [p \in Ports |-> IF Taken(p) THEN 0 ELSE up[p]]
    /\ took' = [p \in Ports |-> IF Taken(p) THEN up[p] ELSE took[p]]
    /\ snack' = IF SnackTaken THEN NoSnack ELSE snack
    /\ snoop_ack' = (snoop_ack /\ ~AckTaken)
    /\ again' = Again /\ dack' = Dack
    /\ asked' = (AskLine \/ (asked /\ ~Merges))
    /\ UNCHANGED <<acc, busy, at_dr, got, serial, seen>>

-----------------------------------------------------------------------------
(* The L1.  A read uses the lowest l1id whose last read was answered, a    *)
(* displacement one that no displacement had.  Accesses are presented in   *)
(* order; prefetches are only translated, with the l1id zero.              *)

Count(op) == Cardinality({i \in DOMAIN acc : acc[i].op = op})

Starts(op, id, line, mask) ==
    /\ Len(acc) < MaxAccesses
    /\ acc' = Append(acc, [op |-> op, l1id |-> id, paddr |-> line, mask |-> mask])
    /\ UNCHANGED <<up, took, snack, snoop_ack, ff, again, dack, asked, at_dr, got,
                   serial, seen>>

L1Reads(id, line) ==
    /\ Count("read") < MaxReads
    /\ id \notin busy /\ \A free \in ReadIds \ busy : id <= free
    /\ busy' = busy \cup {id}
    /\ Starts("read", id, line, "none")

L1Displaces(id, line, mask) ==
    /\ Count("disp") < MaxDisps
    /\ \A i \in DOMAIN acc : acc[i].op = "disp" => acc[i].l1id < id
    /\ Starts("disp", id, line, mask) /\ UNCHANGED busy

(* The address of a prefetch is compared with nothing here. *)
L1Prefetches ==
    /\ Count("prefetch") < MaxPrefetches
    /\ Starts("prefetch", 0, CHOOSE line \in Lines : TRUE, "none") /\ UNCHANGED busy

(* The accesses that a port carries. *)
Carried(p) == CASE p = "req"  -> {i \in DOMAIN acc : acc[i].op = "read"}
                [] p = "disp" -> {i \in DOMAIN acc : acc[i].op = "disp"}
                [] p = "fwd"  -> DOMAIN acc

Presents(p) ==
    /\ ~Valid(p)
    /\ \E i \in Carried(p) :
           /\ i > took[p] /\ \A k \in Carried(p) : k > took[p] => i <= k
           /\ up' = [up EXCEPT ![p] = i]
    /\ UNCHANGED <<acc, took, busy, snack, snoop_ack, ff, again, dack, asked, at_dr, got,
                   serial, seen>>

(* A snack with the l2id zero is a snoop; the L1 acknowledges it. *)
L1TakesSnack ==
    /\ ff.snack # << >>
    /\ LET s == Head(ff.snack) IN
       /\ s.l2id = 0 => ~snoop_ack
       /\ snoop_ack' = (snoop_ack \/ s.l2id = 0)
       /\ busy' = busy \ {s.l2id}
       /\ seen' = s.serial
    /\ ff' = [ff EXCEPT !.snack = Tail(@)]
    /\ UNCHANGED <<acc, up, took, snack, again, dack, asked, at_dr, got, serial>>

L1TakesDack ==
    /\ ff.dack # << >>
    /\ ff' = [ff EXCEPT !.dack = Tail(@)]
    /\ UNCHANGED <<acc, up, took, busy, snack, snoop_ack, again, dack, asked, at_dr, got,
                   serial, seen>>

-----------------------------------------------------------------------------
(* The directory takes requests, answers them in any order and snoops. *)

DrTakesReq ==
    /\ ff.req # << >>
    /\ LET r == Head(ff.req) IN
       /\ at_dr' = at_dr \cup {[l2id |-> r.l2id, paddr |-> r.paddr]}
       /\ got' = IF r.l2id \in ReadIds THEN Append(got, r) ELSE got
    /\ ff' = [ff EXCEPT !.req = Tail(@)]
    /\ UNCHANGED <<acc, up, took, busy, snack, snoop_ack, again, dack, asked, serial, seen>>

Sends(l2id, line) ==
    /\ ~SnackValid
    /\ serial < MaxSnacks /\ serial' = serial + 1
    /\ snack' = [l2id |-> l2id, paddr |-> line, serial |-> serial']
    /\ UNCHANGED <<acc, up, took, busy, snoop_ack, ff, again, dack, asked, got, seen>>

DrAnswers(r) == at_dr' = at_dr \ {r} /\ Sends(r.l2id, r.paddr)

(* The address of a snoop is compared with nothing here. *)
DrSnoops == Sends(0, 0) /\ UNCHANGED at_dr

DrTakes(q) ==
    /\ ff[q] # << >>
    /\ ff' = [ff EXCEPT ![q] = Tail(@)]
    /\ UNCHANGED <<acc, up, took, busy, snack, snoop_ack, again, dack, asked, at_dr, got,
                   serial, seen>>

Next ==
    \/ Clock
    \/ \E id \in ReadIds, line \in Lines : L1Reads(id, line)
    \/ \E id \in DispIds, line \in Lines, m \in Masks : L1Displaces(id, line, m)
    \/ L1Prefetches
    \/ \E p \in Ports : Presents(p)
    \/ L1TakesSnack \/ L1TakesDack
    \/ DrTakesReq
    \/ \E r \in at_dr : DrAnswers(r)
    \/ DrSnoops
    \/ \E q \in {"disp", "pfreq", "ack"} : DrTakes(q)

Spec == Init /\ [][Next]_vars

(* The clock runs; the L1, the L2TLB and the directory take and present    *)
(* words in the end.  Nobody has to start an access or a snoop.            *)
FairSpec ==
    /\ Spec
    /\ WF_vars(Clock) /\ WF_vars(Presents("req")) /\ WF_vars(Presents("fwd"))
    /\ WF_vars(DrTakesReq)

-----------------------------------------------------------------------------
IsRead(r) == r.l2id \in ReadIds

\* The accesses whose requests left for the directory, first those it has.
Left ==
    {got[n].at : n \in DOMAIN got} \cup {ff.req[n].at : n \in {m \in DOMAIN ff.req : IsRead(ff.req[m])}}

\* A request has the l1id and the translation of the access it is for.
OwnTranslation(r) ==
    /\ r.at \in DOMAIN acc /\ acc[r.at].op = "read"
    /\ r.l2id = acc[r.at].l1id /\ r.paddr = acc[r.at].paddr

(* Each read that the L1's port let go leaves for the directory once, in   *)
(* program order, with its own translation, although requests and          *)
(* translations come on ports that are refused at different times and      *)
(* l1ids are used again (rtl/l2cache_pipe.v:195-212).                      *)
ReadsInOrder ==
    /\ \A n \in DOMAIN got : OwnTranslation(got[n])
    /\ \A n \in DOMAIN ff.req : IsRead(ff.req[n]) => OwnTranslation(ff.req[n])
    /\ \A m, n \in DOMAIN got : m < n => got[m].at < got[n].at
    /\ \A m, n \in DOMAIN ff.req :
          m < n /\ IsRead(ff.req[m]) /\ IsRead(ff.req[n]) => ff.req[m].at < ff.req[n].at
    /\ \A m \in DOMAIN got, n \in DOMAIN ff.req : IsRead(ff.req[n]) => got[m].at < ff.req[n].at
    /\ Left = {i \in DOMAIN acc : i <= took["req"] /\ acc[i].op = "read"}

(* What the L1 took last, what waits for it and what the directory         *)
(* presents carry consecutive numbers: no snack is lost or overtaken while *)
(* displacements hold back some of them.  A snack held for a partial       *)
(* displacement is captured in each cycle, so only then one may repeat     *)
(* (rtl/l2cache_pipe.v:226-237, 435).                                      *)
SnacksInOrder ==
    LET MayRepeat == \E i \in DOMAIN acc : acc[i].mask = "partial"
        Follows(m, n) == n = m + 1 \/ (n = m /\ MayRepeat)
        Last == IF ff.snack = << >> THEN seen ELSE ff.snack[Len(ff.snack)].serial
    IN  /\ ff.snack # << >> => Follows(seen, Head(ff.snack).serial)
        /\ \A n \in 1 .. Len(ff.snack) - 1 : Follows(ff.snack[n].serial, ff.snack[n + 1].serial)
        /\ IF SnackValid THEN Follows(Last, snack.serial) /\ snack.serial = serial ELSE Last = serial

(* A line leaves under the address of its own access, also when several    *)
(* displacements and reads wait for translations and a partial one merges  *)
(* with an answer of the directory (rtl/l2cache_pipe.v:396-418, 438).      *)
DispsOwnAddress ==
    \A n \in DOMAIN ff.disp : \E i \in DOMAIN acc :
        /\ acc[i].op = "disp"
        /\ acc[i].l1id = ff.disp[n].l2id /\ acc[i].paddr = ff.disp[n].paddr

(* An L1 is told that its line left in the cycle in which the line leaves  *)
(* (rtl/l2cache_pipe.v:362, "Send l2tol1_dack and l2todr_disp at the same  *)
(* time").                                                                 *)
DackWithDisp ==
    [][Len(ff'.dack) > Len(ff.dack) => Len(ff'.disp) > Len(ff.disp)]_vars

(* As long as the L1 makes neither displacements nor prefetches, the reads *)
(* it starts reach the directory: requests and translations that wait for  *)
(* each other always meet (rtl/l2cache_pipe.v:195-212, 942-947).           *)
EventuallyRequested ==
    [](Count("read") = Len(acc)) =>
        (Len(got) < Count("read") ~> Len(got) = Count("read"))

=============================================================================
