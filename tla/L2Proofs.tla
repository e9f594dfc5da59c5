------------------------------ MODULE L2Proofs -------------------------------
(***************************************************************************)
(* Theorems about the default L2, for every set of l1ids and lines and     *)
(* every number of accesses, prefetches and snacks.                        *)
(*                                                                         *)
(* The argument for the reads: a request and its translation leave their   *)
(* ports in the same cycle, so both ports have let the same reads go, and  *)
(* the next of one is the next of the other (SamePast).  A translation     *)
(* could stay behind when the flop of prefetches is full, but then a       *)
(* prefetch is at its port, which nothing lets go (PfreqBlocked).          *)
(***************************************************************************)
EXTENDS L2Passthrough, SequenceTheorems, TLAPS

AccOK ==
    /\ acc \in Seq(Access)
    /\ \A i \in DOMAIN acc :
          /\ acc[i].op = "read" => acc[i].l1id \in ReadIds
          /\ acc[i].op = "disp" => acc[i].l1id \in DispIds /\ acc[i].mask \in Masks
          /\ acc[i].op = "prefetch" => acc[i].l1id = 0

\* What is presented on a port is the first access it carries that it has
\* not let go.
IsNext(p, i) ==
    /\ i \in Carried(p) /\ i > took[p]
    /\ \A k \in Carried(p) : k > took[p] => i <= k

PortsOK ==
    /\ up \in [Ports -> Nat] /\ took \in [Ports -> Nat]
    /\ \A p \in Ports : took[p] <= Len(acc) /\ (up[p] # 0 => IsNext(p, up[p]))

AnySnack == [l2id : ReadIds \cup DispIds \cup {0}, paddr : Lines \cup {0}, serial : Nat]
DispWord == [l2id : DispIds, paddr : Lines]
Flop == [req : Seq(Request), snack : Seq(AnySnack), ack : Seq({0}), pfreq : Seq(Lines),
         disp : Seq(DispWord), dack : Seq(Nat)]

FlopsOK ==
    /\ ff \in Flop
    /\ again = NoReq \/ again \in [l2id : DispIds, paddr : Lines, at : Nat]
    /\ dack \in Nat
    /\ got \in Seq(Request) /\ \A n \in DOMAIN got : IsRead(got[n])
    /\ at_dr \subseteq [l2id : ReadIds \cup DispIds, paddr : Lines]
    /\ snack \in AnySnack
    /\ serial \in Nat /\ seen \in Nat /\ snoop_ack \in BOOLEAN

SamePast ==
    \A i \in DOMAIN acc : acc[i].op = "read" => (i <= took["req"] <=> i <= took["fwd"])

PfreqBlocked == ff.pfreq # << >> => Valid("fwd") /\ Fwd.op = "prefetch"

IInv ==
    /\ AccOK /\ PortsOK /\ FlopsOK /\ SamePast /\ PfreqBlocked
    /\ ReadsInOrder /\ SnacksInOrder /\ DispsOwnAddress

-----------------------------------------------------------------------------
LEMMA SeqFacts ==
    ASSUME NEW D, NEW s \in Seq(D)
    PROVE  Len(s) \in Nat /\ DOMAIN s = 1..Len(s) /\ \A i \in 1..Len(s) : s[i] \in D
BY LenProperties

LEMMA AppendFacts ==
    ASSUME NEW D, NEW s \in Seq(D), NEW e \in D
    PROVE  /\ Append(s, e) \in Seq(D) /\ Append(s, e) # << >>
           /\ Len(Append(s, e)) = Len(s) + 1 /\ DOMAIN Append(s, e) = 1..(Len(s) + 1)
           /\ \A i \in 1..Len(s) : Append(s, e)[i] = s[i]
           /\ Append(s, e)[Len(s) + 1] = e
BY AppendProperties, LenProperties

LEMMA TailFacts ==
    ASSUME NEW D, NEW s \in Seq(D), s # << >>
    PROVE  /\ Len(s) >= 1 /\ Head(s) = s[1] /\ s[1] \in D
           /\ Tail(s) \in Seq(D) /\ Len(Tail(s)) = Len(s) - 1 /\ DOMAIN Tail(s) = 1..(Len(s) - 1)
           /\ \A i \in 1..(Len(s) - 1) : Tail(s)[i] = s[i + 1]
BY HeadTailProperties, LenProperties

\* What the ports carry, without the cases.
LEMMA CarriedIs ==
    /\ Carried("req") = {i \in DOMAIN acc : acc[i].op = "read"}
    /\ Carried("disp") = {i \in DOMAIN acc : acc[i].op = "disp"}
    /\ Carried("fwd") = DOMAIN acc
BY DEF Carried

LEMMA PortFacts ==
    ASSUME AccOK, PortsOK
    PROVE  /\ DOMAIN acc = 1..Len(acc) /\ Len(acc) \in Nat
           /\ took["req"] \in Nat /\ took["fwd"] \in Nat /\ up["req"] \in Nat /\ up["fwd"] \in Nat /\ up["disp"] \in Nat
           /\ took["req"] <= Len(acc) /\ took["fwd"] <= Len(acc)
           /\ Valid("req") => /\ up["req"] \in DOMAIN acc /\ Req.op = "read" /\ Req.l1id \in ReadIds
                              /\ up["req"] > took["req"]
                              /\ \A k \in DOMAIN acc : acc[k].op = "read" /\ k > took["req"] => up["req"] <= k
           /\ Valid("fwd") => /\ up["fwd"] \in DOMAIN acc /\ up["fwd"] > took["fwd"]
                              /\ \A k \in DOMAIN acc : k > took["fwd"] => up["fwd"] <= k
                              /\ Fwd.op \in {"read", "disp", "prefetch"} /\ Fwd.paddr \in Lines
           /\ Valid("disp") => /\ up["disp"] \in DOMAIN acc /\ Disp.op = "disp" /\ Disp.l1id \in DispIds
                               /\ Disp.mask \in {"full", "partial"}
<1>1. DOMAIN acc = 1..Len(acc) /\ Len(acc) \in Nat /\ \A i \in DOMAIN acc : acc[i] \in Access
  BY SeqFacts DEF AccOK
<1>2. {"req", "disp", "fwd"} = Ports
  BY DEF Ports
<1>3. \A p \in {"req", "disp", "fwd"} : up[p] \in Nat /\ took[p] \in Nat /\ took[p] <= Len(acc)
  BY <1>2 DEF PortsOK
<1>4. Valid("req") => IsNext("req", up["req"])
  BY <1>2 DEF PortsOK, Valid
<1>5. Valid("fwd") => IsNext("fwd", up["fwd"])
  BY <1>2 DEF PortsOK, Valid
<1>6. Valid("disp") => IsNext("disp", up["disp"])
  BY <1>2 DEF PortsOK, Valid
<1>7. Valid("req") => /\ up["req"] \in DOMAIN acc /\ Req.op = "read" /\ Req.l1id \in ReadIds
                      /\ up["req"] > took["req"]
                      /\ \A k \in DOMAIN acc : acc[k].op = "read" /\ k > took["req"] => up["req"] <= k
  BY <1>4, CarriedIs DEF IsNext, Req, AccOK
<1>8. Valid("fwd") => /\ up["fwd"] \in DOMAIN acc /\ up["fwd"] > took["fwd"]
                      /\ \A k \in DOMAIN acc : k > took["fwd"] => up["fwd"] <= k
  BY <1>5, CarriedIs DEF IsNext
<1>9. Valid("fwd") => Fwd.op \in {"read", "disp", "prefetch"} /\ Fwd.paddr \in Lines
  BY <1>1, <1>8 DEF Fwd, Access
<1>10. Valid("disp") => up["disp"] \in DOMAIN acc /\ Disp.op = "disp" /\ Disp.l1id \in DispIds /\ Disp.mask \in Masks
  BY <1>6, CarriedIs DEF IsNext, Disp, AccOK
<1>11. QED BY <1>1, <1>3, <1>7, <1>8, <1>9, <1>10, L2Assumption

-----------------------------------------------------------------------------
(* The signals of a cycle. *)
LEMMA Matches ==
    ASSUME AccOK, PortsOK, SamePast
    PROVE  /\ ReadMatch => Fwd.op = "read" /\ up["fwd"] = up["req"] /\ ~DispMatch
           /\ DispMatch => Fwd.op = "disp" /\ Fwd.l1id = Disp.l1id
<1>1. Valid("fwd") => /\ Fwd.op = "read" => Fwd.l1id \in ReadIds
                      /\ Fwd.op = "disp" => Fwd.l1id \in DispIds
                      /\ Fwd.op = "prefetch" => Fwd.l1id = 0
  BY PortFacts DEF AccOK, Fwd
<1>2. 0 \notin ReadIds /\ 0 \notin DispIds /\ ReadIds \cap DispIds = {}
  BY L2Assumption
<1>3. ReadMatch => Fwd.op = "read"
  BY <1>1, <1>2, PortFacts DEF ReadMatch
<1>4. DispMatch => Fwd.op = "disp"
  BY <1>1, <1>2, PortFacts DEF DispMatch
<1>5. ReadMatch => up["fwd"] = up["req"]
  <2> SUFFICES ASSUME ReadMatch PROVE up["fwd"] = up["req"]
    OBVIOUS
  <2>1. Valid("req") /\ Valid("fwd") /\ acc[up["fwd"]].op = "read" /\ acc[up["req"]].op = "read"
    BY <1>3, PortFacts DEF ReadMatch, Fwd, Req
  <2>2. up["fwd"] > took["req"] /\ up["req"] > took["fwd"]
    BY <2>1, PortFacts DEF SamePast
  <2>3. up["fwd"] <= up["req"] /\ up["req"] <= up["fwd"]
    BY <2>1, <2>2, PortFacts
  <2>4. QED BY <2>3, PortFacts
<1>6. QED BY <1>3, <1>4, <1>5 DEF DispMatch

\* A request leaves its port in the very cycle its translation leaves.
LEMMA LeaveTogether ==
    ASSUME AccOK, PortsOK, SamePast, FlopsOK, PfreqBlocked
    PROVE  /\ ReqTaken <=> ReadMatch /\ FwdTaken
           /\ FwdTaken => Fwd.op # "prefetch"
<1>1. ReadMatch \/ DispMatch => Room("pfreq")
  <2> SUFFICES ASSUME ReadMatch \/ DispMatch PROVE Room("pfreq")
    OBVIOUS
  <2>1. ff.pfreq = << >>
    BY Matches DEF PfreqBlocked
  <2>2. QED BY <2>1 DEF Room
<1>2. ReadMatch => Valid("fwd") /\ ~DispMatch
  BY Matches DEF ReadMatch
<1>3. QED BY <1>1, <1>2, Matches DEF ReqTaken, FwdTaken, AskLine, OtherLine

-----------------------------------------------------------------------------
(* What each part of the invariant depends on. *)
LEMMA AccStays == ASSUME AccOK, UNCHANGED acc PROVE AccOK'
BY DEF AccOK

LEMMA PortsStay == ASSUME PortsOK, SamePast, UNCHANGED <<acc, up, took>> PROVE PortsOK' /\ SamePast'
BY DEF PortsOK, IsNext, Carried, SamePast

LEMMA FlopsStay ==
    ASSUME FlopsOK, UNCHANGED <<ff, again, dack, got, at_dr, snack, serial, seen, snoop_ack>>
    PROVE  FlopsOK'
BY DEF FlopsOK, IsRead

LEMMA ReadsStay ==
    ASSUME ReadsInOrder, UNCHANGED <<acc, took, got>>, ff'.req = ff.req
    PROVE  ReadsInOrder'
BY DEF ReadsInOrder, Left, IsRead, OwnTranslation

LEMMA SnacksStay ==
    ASSUME SnacksInOrder, UNCHANGED <<acc, snack, serial, seen>>, ff'.snack = ff.snack
    PROVE  SnacksInOrder'
BY DEF SnacksInOrder, SnackValid

LEMMA DispsStay == ASSUME DispsOwnAddress, UNCHANGED acc, ff'.disp = ff.disp PROVE DispsOwnAddress'
BY DEF DispsOwnAddress

LEMMA PfreqStays ==
    ASSUME PfreqBlocked, UNCHANGED <<acc, up>>, ff'.pfreq = ff.pfreq \/ ff.pfreq # << >>
    PROVE  PfreqBlocked'
BY DEF PfreqBlocked, Valid, Fwd

-----------------------------------------------------------------------------
(* The L1 starts an access, which no port has let go. *)
LEMMA StartsKeeps ==
    ASSUME IInv, NEW op, NEW id, NEW line, NEW mask, Starts(op, id, line, mask),
           [op |-> op, l1id |-> id, paddr |-> line, mask |-> mask] \in Access,
           op = "read" => id \in ReadIds, op = "disp" => id \in DispIds /\ mask \in Masks,
           op = "prefetch" => id = 0
    PROVE  IInv'
<1> DEFINE a == [op |-> op, l1id |-> id, paddr |-> line, mask |-> mask]
<1>1. acc' = Append(acc, a) /\ UNCHANGED <<up, took, snack, snoop_ack, ff, again, dack, asked, at_dr, got, serial, seen>>
  BY DEF Starts
<1>2. /\ acc' \in Seq(Access) /\ Len(acc) \in Nat /\ Len(acc') = Len(acc) + 1
      /\ DOMAIN acc = 1..Len(acc) /\ DOMAIN acc' = 1..(Len(acc) + 1)
      /\ \A i \in DOMAIN acc : acc'[i] = acc[i]
      /\ acc'[Len(acc) + 1] = a
  BY <1>1, AppendFacts, SeqFacts DEF IInv, AccOK
<1>3. a.op = op /\ a.l1id = id /\ a.mask = mask
  OBVIOUS
<1> HIDE DEF a
<1>4. AccOK'
  BY <1>2, <1>3 DEF IInv, AccOK
<1>5. PortsOK'
  <2>1. \A p \in Ports : took[p] \in Nat /\ took[p] <= Len(acc')
    BY <1>2 DEF IInv, PortsOK
  <2>2. ASSUME NEW p \in Ports, up[p] # 0 PROVE IsNext(p, up[p])'
    <3>1. IsNext(p, up[p]) /\ took[p] \in Nat /\ took[p] <= Len(acc) /\ up[p] \in Nat
      BY <2>2 DEF IInv, PortsOK
    <3>2. p \in {"req", "disp", "fwd"}
      BY DEF Ports
    <3>3. /\ Carried(p) \subseteq DOMAIN acc
          /\ Carried(p) \subseteq Carried(p)' /\ Carried(p)' \subseteq Carried(p) \cup {Len(acc) + 1}
      BY <1>2, <3>2 DEF Carried
    <3>4. QED BY <1>1, <1>2, <3>1, <3>3 DEF IsNext
  <2>3. QED BY <1>1, <2>1, <2>2 DEF IInv, PortsOK
<1>6. FlopsOK'
  BY <1>1 DEF IInv, FlopsOK, IsRead
<1>7. SamePast'
  BY <1>1, <1>2, PortFacts DEF IInv, SamePast
<1>8. PfreqBlocked'
  BY <1>1, <1>2, PortFacts DEF IInv, PfreqBlocked, Valid, Fwd
<1>9. ReadsInOrder'
  <2>1. {i \in DOMAIN acc' : i <= took["req"] /\ acc'[i].op = "read"} = {i \in DOMAIN acc : i <= took["req"] /\ acc[i].op = "read"}
    BY <1>2, PortFacts DEF IInv
  <2>2. QED BY SMTT(30), <1>1, <1>2, <2>1 DEF IInv, ReadsInOrder, Left, IsRead, OwnTranslation
<1>10. SnacksInOrder'
  BY <1>1, <1>2 DEF IInv, SnacksInOrder, SnackValid
<1>11. DispsOwnAddress'
  BY <1>1, <1>2 DEF IInv, DispsOwnAddress
<1>12. QED BY <1>4, <1>5, <1>6, <1>7, <1>8, <1>9, <1>10, <1>11 DEF IInv

LEMMA PresentsKeeps == ASSUME IInv, NEW p \in Ports, Presents(p) PROVE IInv'
<1>1. PICK i \in Carried(p) :
        /\ i > took[p] /\ \A k \in Carried(p) : k > took[p] => i <= k
        /\ up' = [up EXCEPT ![p] = i] /\ ~Valid(p)
        /\ UNCHANGED <<acc, took, busy, snack, snoop_ack, ff, again, dack, asked, at_dr, got, serial, seen>>
  BY DEF Presents
<1>2. IsNext(p, i) /\ i \in Nat
  BY <1>1, CarriedIs, PortFacts DEF IsNext, IInv, Ports
<1>3. PortsOK'
  <2>1. \A q \in Ports : up'[q] = IF q = p THEN i ELSE up[q]
    BY <1>1 DEF IInv, PortsOK
  <2>2. up' \in [Ports -> Nat]
    BY <1>1, <1>2 DEF IInv, PortsOK
  <2>3. \A q \in Ports : up'[q] # 0 => IsNext(q, up'[q])
    BY <1>2, <2>1 DEF IInv, PortsOK
  <2>4. \A q \in Ports : up'[q] # 0 => IsNext(q, up[q])' 
    BY <1>1, <2>3 DEF IsNext, Carried
  <2>5. \A q \in Ports : took'[q] \in Nat /\ took'[q] <= Len(acc')
    BY <1>1 DEF IInv, PortsOK
  <2>6. QED BY <1>1, <2>2, <2>4, <2>5 DEF IInv, PortsOK
<1>4. PfreqBlocked'
  BY <1>1, PortFacts DEF IInv, PfreqBlocked, Valid, Fwd, PortsOK, Ports
<1>5. SamePast'
  BY <1>1 DEF IInv, SamePast
<1>6. QED BY <1>1, <1>3, <1>4, <1>5, AccStays, FlopsStay, ReadsStay, SnacksStay, DispsStay DEF IInv

-----------------------------------------------------------------------------
(* The consumers of the flops. *)
LEMMA L1TakesSnackKeeps == ASSUME IInv, L1TakesSnack PROVE IInv'
<1>1. /\ ff.snack # << >> /\ seen' = Head(ff.snack).serial /\ snoop_ack' \in BOOLEAN
      /\ ff' = [ff EXCEPT !.snack = Tail(ff.snack)]
      /\ UNCHANGED <<acc, up, took, snack, again, dack, asked, at_dr, got, serial>>
  BY DEF L1TakesSnack, IInv, FlopsOK
<1>2. ff \in Flop
  BY DEF IInv, FlopsOK
<1>3. /\ Len(ff.snack) \in Nat /\ Len(ff.snack) >= 1 /\ Head(ff.snack) = ff.snack[1] /\ ff.snack[1] \in AnySnack
      /\ Tail(ff.snack) \in Seq(AnySnack) /\ Len(Tail(ff.snack)) = Len(ff.snack) - 1
      /\ \A i \in 1..(Len(ff.snack) - 1) : Tail(ff.snack)[i] = ff.snack[i + 1]
  BY <1>1, <1>2, TailFacts, SeqFacts DEF Flop
<1>4. ff' \in Flop /\ ff'.snack = Tail(ff.snack) /\ ff'.req = ff.req /\ ff'.disp = ff.disp /\ ff'.pfreq = ff.pfreq
  BY <1>1, <1>2, <1>3 DEF Flop
<1>5. FlopsOK'
  BY <1>1, <1>3, <1>4 DEF IInv, FlopsOK, AnySnack, IsRead
<1>6. SnacksInOrder'
  <2> DEFINE n == Len(ff.snack)
             MayRepeat == \E i \in DOMAIN acc : acc[i].mask = "partial"
             Follows(k, m) == m = k + 1 \/ (m = k /\ MayRepeat)
  <2>1. /\ \A m \in 1..(n - 1) : Follows(ff.snack[m].serial, ff.snack[m + 1].serial)
        /\ IF SnackValid THEN Follows(ff.snack[n].serial, snack.serial) /\ snack.serial = serial
           ELSE ff.snack[n].serial = serial
    BY <1>1 DEF IInv, SnacksInOrder
  <2>2. /\ ff'.snack = << >> <=> n = 1
        /\ ff'.snack # << >> => /\ Head(ff'.snack) = ff.snack[2] /\ n - 1 = Len(ff'.snack)
                                /\ ff'.snack[n - 1] = ff.snack[n]
    <3>1. ff'.snack \in Seq(AnySnack) /\ Len(ff'.snack) = n - 1 /\ n \in Nat /\ n >= 1
      BY <1>3, <1>4
    <3>2. ff'.snack = << >> <=> n - 1 = 0
      BY <3>1, EmptySeq
    <3>3. n > 1 => Head(ff'.snack) = ff'.snack[1] /\ 1 \in 1..(n - 1) /\ (n - 1) \in 1..(n - 1)
      BY <3>1
    <3>4. QED BY <1>3, <1>4, <3>1, <3>2, <3>3
  <2>3. \A m \in 1..(Len(ff'.snack) - 1) : Follows(ff'.snack[m].serial, ff'.snack[m + 1].serial)
    <3> SUFFICES ASSUME NEW m \in 1..(n - 2) PROVE Follows(Tail(ff.snack)[m].serial, Tail(ff.snack)[m + 1].serial)
      BY <1>3, <1>4
    <3>1. m \in 1..(n - 1) /\ m + 1 \in 1..(n - 1)
      BY <1>3
    <3>2. QED BY <1>3, <2>1, <3>1
  <2>4. ff'.snack # << >> => Follows(seen', Head(ff'.snack).serial)
    <3> SUFFICES ASSUME ff'.snack # << >> PROVE Follows(seen', Head(ff'.snack).serial)
      OBVIOUS
    <3>1. 1 \in 1..(n - 1)
      BY <1>3, <2>2
    <3>2. Follows(ff.snack[1].serial, ff.snack[1 + 1].serial)
      BY <2>1, <3>1
    <3>3. 1 + 1 = 2
      OBVIOUS
    <3>4. QED BY <1>1, <1>3, <2>2, <3>2, <3>3
  <2>5. (MayRepeat)' = MayRepeat /\ SnackValid' = SnackValid
    BY <1>1 DEF SnackValid
  <2> HIDE DEF MayRepeat
  <2>6. n = 1 => Head(ff.snack) = ff.snack[n]
    BY <1>3
  <2>7. LET last == IF ff'.snack = << >> THEN seen' ELSE ff'.snack[Len(ff'.snack)].serial
        IN  IF SnackValid THEN Follows(last, snack.serial) /\ snack.serial = serial ELSE last = serial
    BY <1>1, <2>1, <2>2, <2>6
  <2>8. QED BY <1>1, <2>3, <2>4, <2>5, <2>7 DEF SnacksInOrder, MayRepeat
<1>7. QED BY <1>1, <1>2, <1>4, <1>5, <1>6, AccStays, PortsStay, ReadsStay, DispsStay, PfreqStays DEF IInv

LEMMA L1TakesDackKeeps == ASSUME IInv, L1TakesDack PROVE IInv'
<1>1. /\ ff.dack # << >> /\ ff' = [ff EXCEPT !.dack = Tail(ff.dack)] /\ ff \in Flop
      /\ UNCHANGED <<acc, up, took, busy, snack, snoop_ack, again, dack, asked, at_dr, got, serial, seen>>
  BY DEF L1TakesDack, IInv, FlopsOK
<1>2. Tail(ff.dack) \in Seq(Nat)
  BY <1>1, TailFacts DEF Flop
<1>3. ff' \in Flop /\ ff'.snack = ff.snack /\ ff'.req = ff.req /\ ff'.disp = ff.disp /\ ff'.pfreq = ff.pfreq
  BY <1>1, <1>2 DEF Flop
<1>4. FlopsOK'
  BY <1>1, <1>3 DEF IInv, FlopsOK, IsRead
<1>5. QED BY <1>1, <1>3, <1>4, AccStays, PortsStay, ReadsStay, SnacksStay, DispsStay, PfreqStays DEF IInv

LEMMA DrTakesKeeps == ASSUME IInv, NEW q \in {"disp", "pfreq", "ack"}, DrTakes(q) PROVE IInv'
<1>1. /\ ff[q] # << >> /\ ff' = [ff EXCEPT ![q] = Tail(ff[q])] /\ ff \in Flop
      /\ UNCHANGED <<acc, up, took, busy, snack, snoop_ack, again, dack, asked, at_dr, got, serial, seen>>
  BY DEF DrTakes, IInv, FlopsOK
<1>2. /\ q = "disp" => Tail(ff.disp) \in Seq(DispWord)
      /\ q = "pfreq" => Tail(ff.pfreq) \in Seq(Lines)
      /\ q = "ack" => Tail(ff.ack) \in Seq({0})
  BY <1>1, TailFacts DEF Flop
<1>3. /\ ff' \in Flop /\ ff'.snack = ff.snack /\ ff'.req = ff.req
      /\ ff'.pfreq = ff.pfreq \/ ff.pfreq # << >>
      /\ ff'.disp = ff.disp \/ (ff.disp # << >> /\ ff'.disp = Tail(ff.disp))
  BY <1>1, <1>2 DEF Flop
<1>4. FlopsOK'
  BY <1>1, <1>3 DEF IInv, FlopsOK, IsRead
<1>5. DispsOwnAddress'
  <2>1. CASE ff'.disp = ff.disp
    BY <1>1, <2>1, DispsStay DEF IInv
  <2>2. CASE ff.disp # << >> /\ ff'.disp = Tail(ff.disp)
    <3>1. /\ ff.disp \in Seq(DispWord) /\ DOMAIN ff.disp = 1..Len(ff.disp) /\ Len(ff.disp) \in Nat
          /\ DOMAIN ff'.disp = 1..(Len(ff.disp) - 1)
          /\ \A n \in 1..(Len(ff.disp) - 1) : ff'.disp[n] = ff.disp[n + 1]
      BY <1>1, <2>2, TailFacts, SeqFacts DEF Flop
    <3>2. \A n \in DOMAIN ff'.disp : n + 1 \in DOMAIN ff.disp /\ ff'.disp[n] = ff.disp[n + 1]
      BY <3>1
    <3>3. QED BY <1>1, <3>2 DEF IInv, DispsOwnAddress
  <2>3. QED BY <1>3, <2>1, <2>2
<1>6. QED BY <1>1, <1>3, <1>4, <1>5, AccStays, PortsStay, ReadsStay, SnacksStay, PfreqStays DEF IInv

(* The directory answers or snoops; at_dr is none of the proof's concern.  *)
LEMMA SendsKeeps ==
    ASSUME IInv, NEW l2id \in ReadIds \cup DispIds \cup {0}, NEW line \in Lines \cup {0}, Sends(l2id, line),
           at_dr' \subseteq at_dr
    PROVE  IInv'
<1>1. /\ ~SnackValid /\ serial' = serial + 1
      /\ snack' = [l2id |-> l2id, paddr |-> line, serial |-> serial']
      /\ UNCHANGED <<acc, up, took, busy, snoop_ack, ff, again, dack, asked, got, seen>>
  BY DEF Sends
<1>2. serial' \in Nat /\ serial' # 0 /\ snack' \in AnySnack /\ snack'.serial = serial'
  BY <1>1 DEF IInv, FlopsOK, AnySnack
<1>3. SnackValid'
  BY <1>1, <1>2 DEF SnackValid, NoSnack
<1>4. FlopsOK'
  BY <1>1, <1>2 DEF IInv, FlopsOK, IsRead
<1>5. SnacksInOrder'
  BY <1>1, <1>2, <1>3 DEF IInv, SnacksInOrder
<1>6. ff \in Flop /\ ff' = ff
  BY <1>1 DEF IInv, FlopsOK
<1>7. QED BY <1>1, <1>4, <1>5, <1>6, AccStays, PortsStay, ReadsStay, DispsStay, PfreqStays DEF IInv

LEMMA DrTakesReqKeeps == ASSUME IInv, DrTakesReq PROVE IInv'
<1> DEFINE r == ff.req[1]
           line == [l2id |-> r.l2id, paddr |-> r.paddr]
           n == Len(ff.req)
<1>1. /\ ff.req # << >> /\ at_dr' = at_dr \cup {[l2id |-> Head(ff.req).l2id, paddr |-> Head(ff.req).paddr]}
      /\ got' = IF Head(ff.req).l2id \in ReadIds THEN Append(got, Head(ff.req)) ELSE got
      /\ ff' = [ff EXCEPT !.req = Tail(ff.req)] /\ ff \in Flop
      /\ UNCHANGED <<acc, up, took, busy, snack, snoop_ack, again, dack, asked, serial, seen>>
  BY DEF DrTakesReq, IInv, FlopsOK
<1>2. /\ n \in Nat /\ n >= 1 /\ Head(ff.req) = r /\ r \in Request
      /\ Tail(ff.req) \in Seq(Request) /\ DOMAIN Tail(ff.req) = 1..(n - 1) /\ DOMAIN ff.req = 1..n
      /\ \A i \in 1..(n - 1) : Tail(ff.req)[i] = ff.req[i + 1]
  BY <1>1, TailFacts, SeqFacts DEF Flop
<1>3. ff' \in Flop /\ ff'.req = Tail(ff.req) /\ ff'.snack = ff.snack /\ ff'.disp = ff.disp /\ ff'.pfreq = ff.pfreq
  BY <1>1, <1>2 DEF Flop
<1>4. /\ got' = IF IsRead(r) THEN Append(got, r) ELSE got
      /\ at_dr' = at_dr \cup {line}
  BY <1>1, <1>2 DEF IsRead
<1>5. line \in [l2id : ReadIds \cup DispIds, paddr : Lines]
  BY <1>2 DEF Request
<1>6. got \in Seq(Request) /\ DOMAIN got = 1..Len(got) /\ Len(got) \in Nat
  BY SeqFacts DEF IInv, FlopsOK
<1>7. IsRead(r) => /\ got' \in Seq(Request) /\ DOMAIN got' = 1..(Len(got) + 1)
                   /\ \A i \in DOMAIN got : got'[i] = got[i]
                   /\ got'[Len(got) + 1] = r
  BY <1>2, <1>4, <1>6, AppendFacts
<1> HIDE DEF r, line, n
<1>8. FlopsOK'
  BY <1>1, <1>3, <1>4, <1>5, <1>6, <1>7 DEF IInv, FlopsOK, IsRead
<1>9. /\ DOMAIN ff'.req = 1..(n - 1) /\ \A i \in DOMAIN ff'.req : i + 1 \in DOMAIN ff.req /\ ff'.req[i] = ff.req[i + 1]
      /\ 1 \in DOMAIN ff.req /\ ff.req[1] = r
  BY <1>2, <1>3 DEF r
<1>10. \A i \in DOMAIN ff.req : i = 1 \/ (i - 1 \in DOMAIN ff'.req /\ ff'.req[i - 1] = ff.req[i])
  BY <1>2, <1>9
<1>11. ASSUME IsRead(r) PROVE ReadsInOrder'
  <2>1. Left' = Left
    <3>1. \A i \in DOMAIN got' : got'[i].at \in Left
      BY <1>6, <1>7, <1>9, <1>11 DEF Left
    <3>2. \A i \in DOMAIN ff'.req : IsRead(ff'.req[i]) => ff'.req[i].at \in Left
      BY <1>9 DEF Left
    <3>3. \A i \in DOMAIN got : got[i].at \in Left'
      BY <1>6, <1>7, <1>11 DEF Left
    <3>4. r.at \in Left'
      BY <1>6, <1>7, <1>11 DEF Left
    <3>5. \A i \in DOMAIN ff.req : IsRead(ff.req[i]) => ff.req[i].at \in Left'
      BY <1>9, <1>10, <3>4 DEF Left, IsRead
    <3>6. Left' \subseteq Left
      BY <3>1, <3>2 DEF Left, IsRead
    <3>7. Left \subseteq Left'
      BY <3>3, <3>5 DEF Left, IsRead
    <3>8. QED BY <3>6, <3>7
  <2>2. /\ \A i \in DOMAIN got : OwnTranslation(got[i])
        /\ \A i \in DOMAIN ff.req : IsRead(ff.req[i]) => OwnTranslation(ff.req[i])
        /\ \A i, k \in DOMAIN got : i < k => got[i].at < got[k].at
        /\ \A i, k \in DOMAIN ff.req : i < k /\ IsRead(ff.req[i]) /\ IsRead(ff.req[k]) => ff.req[i].at < ff.req[k].at
        /\ \A i \in DOMAIN got, k \in DOMAIN ff.req : IsRead(ff.req[k]) => got[i].at < ff.req[k].at
        /\ Left = {i \in DOMAIN acc : i <= took["req"] /\ acc[i].op = "read"}
    BY DEF IInv, ReadsInOrder
  <2>3. OwnTranslation(r)
    BY <1>9, <1>11, <2>2
  <2>4. \A i \in DOMAIN got' : OwnTranslation(got'[i])
    BY <1>6, <1>7, <1>11, <2>2, <2>3
  <2>5. \A i \in DOMAIN ff'.req : IsRead(ff'.req[i]) => OwnTranslation(ff'.req[i])
    BY <1>9, <2>2
  <2>6. \A i, k \in DOMAIN got' : i < k => got'[i].at < got'[k].at
    <3> SUFFICES ASSUME NEW i \in DOMAIN got', NEW k \in DOMAIN got', i < k PROVE got'[i].at < got'[k].at
      OBVIOUS
    <3>1. i \in DOMAIN got /\ got'[i] = got[i]
      BY <1>6, <1>7, <1>11
    <3>2. CASE k \in DOMAIN got
      BY <1>7, <1>11, <2>2, <3>1, <3>2
    <3>3. CASE k = Len(got) + 1
      BY <1>7, <1>9, <1>11, <2>2, <3>1, <3>3
    <3>4. QED BY <1>6, <1>7, <1>11, <3>2, <3>3
  <2>7. \A i, k \in DOMAIN ff'.req : i < k /\ IsRead(ff'.req[i]) /\ IsRead(ff'.req[k]) => ff'.req[i].at < ff'.req[k].at
    <3> SUFFICES ASSUME NEW i \in DOMAIN ff'.req, NEW k \in DOMAIN ff'.req, i < k, IsRead(ff'.req[i]), IsRead(ff'.req[k])
                 PROVE  ff'.req[i].at < ff'.req[k].at
      OBVIOUS
    <3>1. i + 1 < k + 1 /\ i + 1 \in DOMAIN ff.req /\ k + 1 \in DOMAIN ff.req
      BY <1>2, <1>9
    <3>2. QED BY <1>9, <2>2, <3>1
  <2>8. \A i \in DOMAIN got', k \in DOMAIN ff'.req : IsRead(ff'.req[k]) => got'[i].at < ff'.req[k].at
    <3> SUFFICES ASSUME NEW i \in DOMAIN got', NEW k \in DOMAIN ff'.req, IsRead(ff'.req[k]) PROVE got'[i].at < ff'.req[k].at
      OBVIOUS
    <3>1. k + 1 \in DOMAIN ff.req /\ ff'.req[k] = ff.req[k + 1] /\ 1 < k + 1
      BY <1>2, <1>9
    <3>2. CASE i \in DOMAIN got
      BY <1>7, <1>11, <2>2, <3>1, <3>2
    <3>3. CASE i = Len(got) + 1
      BY <1>7, <1>9, <1>11, <2>2, <3>1, <3>3
    <3>4. QED BY <1>6, <1>7, <1>11, <3>2, <3>3
  <2>9. \A q : OwnTranslation(q)' = OwnTranslation(q)
    BY <1>1 DEF OwnTranslation
  <2>10. QED
    BY <1>1, <2>1, <2>2, <2>4, <2>5, <2>6, <2>7, <2>8, <2>9 DEF ReadsInOrder, IsRead
<1>12. ASSUME ~IsRead(r) PROVE ReadsInOrder'
  <2>1. got' = got
    BY <1>4, <1>12
  <2>2. \A i \in DOMAIN ff.req : IsRead(ff.req[i]) => i - 1 \in DOMAIN ff'.req /\ ff'.req[i - 1] = ff.req[i]
    BY <1>9, <1>10, <1>12
  <2>3. Left' \subseteq Left
    BY <1>9, <2>1 DEF Left, IsRead
  <2>4. Left \subseteq Left'
    BY <2>1, <2>2 DEF Left, IsRead
  <2>5. \A i, k \in DOMAIN ff'.req : i < k => i + 1 < k + 1
    BY <1>2, <1>9
  <2>6. \A q : OwnTranslation(q)' = OwnTranslation(q)
    BY <1>1 DEF OwnTranslation
  <2>7. /\ \A i \in DOMAIN ff'.req : IsRead(ff'.req[i]) => OwnTranslation(ff'.req[i])
        /\ \A i, k \in DOMAIN ff'.req :
              i < k /\ IsRead(ff'.req[i]) /\ IsRead(ff'.req[k]) => ff'.req[i].at < ff'.req[k].at
        /\ \A i \in DOMAIN got, k \in DOMAIN ff'.req : IsRead(ff'.req[k]) => got[i].at < ff'.req[k].at
    BY <1>9, <2>5 DEF IInv, ReadsInOrder
  <2>8. QED BY <1>1, <2>1, <2>3, <2>4, <2>6, <2>7 DEF IInv, ReadsInOrder, IsRead
<1>13. ReadsInOrder'
  BY <1>11, <1>12 DEF IsRead
<1>14. QED BY <1>1, <1>3, <1>8, <1>13, AccStays, PortsStay, SnacksStay, DispsStay, PfreqStays DEF IInv

-----------------------------------------------------------------------------
(* The clock edge. *)
ReqWord == IF Again # NoReq THEN Again ELSE ReadRequest

LEMMA AgainFacts ==
    ASSUME IInv
    PROVE  /\ Again = NoReq \/ Again \in [l2id : DispIds, paddr : Lines, at : Nat]
           /\ Again # NoReq => Again \in Request /\ ~IsRead(Again)
           /\ ReadMatch => ReadRequest \in Request /\ IsRead(ReadRequest)
<1>1. AskLine => Disp.l1id \in DispIds /\ Fwd.paddr \in Lines /\ up["disp"] \in Nat
  BY PortFacts DEF IInv, AskLine, DispMatch
<1>2. Again = NoReq \/ Again \in [l2id : DispIds, paddr : Lines, at : Nat]
  BY <1>1 DEF Again, IInv, FlopsOK
<1>3. Again # NoReq => Again \in Request /\ ~IsRead(Again)
  BY <1>2, L2Assumption DEF Request, IsRead
<1>4. ReadMatch => Req.l1id \in ReadIds /\ Fwd.paddr \in Lines /\ up["req"] \in Nat
  BY PortFacts DEF IInv, ReadMatch
<1>5. ReadMatch => ReadRequest \in Request /\ IsRead(ReadRequest)
  BY <1>4 DEF ReadRequest, Request, IsRead
<1>6. QED BY <1>2, <1>3, <1>5

LEMMA ClockFlops ==
    ASSUME IInv, Clock
    PROVE  /\ FlopsOK'
           /\ ff'.req = (IF (Again # NoReq \/ ReadMatch) /\ Room("req") THEN Append(ff.req, ReqWord) ELSE ff.req)
           /\ ff'.snack = (IF SnackValid /\ Room("snack") THEN Append(ff.snack, snack) ELSE ff.snack)
           /\ ff'.disp = (IF DispLeaves /\ Room("disp")
                          THEN Append(ff.disp, [l2id |-> Disp.l1id, paddr |-> Fwd.paddr]) ELSE ff.disp)
           /\ ff'.pfreq # << >> => ff.pfreq # << >> \/ (Valid("fwd") /\ Fwd.op = "prefetch")
           /\ DispLeaves => DispMatch /\ Disp.l1id \in DispIds /\ Fwd.paddr \in Lines
<1> DEFINE word == [l2id |-> Disp.l1id, paddr |-> Fwd.paddr]
<1>1. ff' = Flops /\ ff \in Flop
  BY DEF Clock, IInv, FlopsOK
<1>2. DispLeaves => DispMatch /\ Disp.l1id \in DispIds /\ Fwd.paddr \in Lines
  BY PortFacts DEF IInv, DispLeaves, Merges, Full, DispMatch
<1>3. Again # NoReq \/ ReadMatch => ReqWord \in Request
  BY AgainFacts DEF ReqWord
<1>4. DispLeaves => word \in DispWord
  BY <1>2 DEF DispWord
<1>5. Dack \in Nat
  BY <1>2, L2Assumption DEF Dack, IInv, FlopsOK
<1>6. Valid("fwd") => Fwd.paddr \in Lines
  BY PortFacts DEF IInv
<1>7. snack \in AnySnack
  BY DEF IInv, FlopsOK
<1> HIDE DEF word
<1> DEFINE req == IF (Again # NoReq \/ ReadMatch) /\ Room("req") THEN Append(ff.req, ReqWord) ELSE ff.req
           snk == IF SnackValid /\ Room("snack") THEN Append(ff.snack, snack) ELSE ff.snack
           ack == IF snoop_ack /\ Room("ack") THEN Append(ff.ack, 0) ELSE ff.ack
           pfreq == IF (Valid("fwd") /\ Fwd.op = "prefetch") /\ Room("pfreq") THEN Append(ff.pfreq, Fwd.paddr)
                    ELSE ff.pfreq
           disp == IF DispLeaves /\ Room("disp") THEN Append(ff.disp, word) ELSE ff.disp
           dck == IF Dack # 0 /\ Room("dack") THEN Append(ff.dack, Dack) ELSE ff.dack
<1>8. Flops = [req |-> req, snack |-> snk, ack |-> ack, pfreq |-> pfreq, disp |-> disp, dack |-> dck]
  BY DEF Flops, Captured, ReqWord, word
<1>9. /\ req \in Seq(Request) /\ snk \in Seq(AnySnack) /\ ack \in Seq({0})
      /\ pfreq \in Seq(Lines) /\ disp \in Seq(DispWord) /\ dck \in Seq(Nat)
  BY <1>1, <1>3, <1>4, <1>5, <1>6, <1>7, AppendFacts DEF Flop
<1> HIDE DEF req, snk, ack, pfreq, disp, dck
<1>10. /\ ff' \in Flop /\ ff'.req = req /\ ff'.snack = snk /\ ff'.disp = disp /\ ff'.pfreq = pfreq
  BY <1>1, <1>8, <1>9 DEF Flop
<1>11. FlopsOK'
  <2>1. again' = Again /\ dack' = Dack
    BY DEF Clock
  <2>2. snack' \in AnySnack
    BY <1>7 DEF Clock, NoSnack, AnySnack
  <2>3. snoop_ack' \in BOOLEAN /\ UNCHANGED <<at_dr, got, serial, seen>>
    BY DEF Clock
  <2>4. QED BY <1>5, <1>10, <2>1, <2>2, <2>3, AgainFacts DEF IInv, FlopsOK, IsRead
<1>12. QED BY <1>2, <1>10, <1>11 DEF req, snk, disp, pfreq, word

LEMMA ClockPorts == ASSUME IInv, Clock PROVE PortsOK' /\ SamePast' /\ PfreqBlocked'
<1>1. /\ acc' = acc
      /\ up' = [p \in Ports |-> IF Taken(p) THEN 0 ELSE up[p]]
      /\ took' = [p \in Ports |-> IF Taken(p) THEN up[p] ELSE took[p]]
  BY DEF Clock
<1>2. ASSUME NEW p \in Ports
      PROVE  /\ up[p] \in Nat /\ took[p] \in Nat /\ took[p] <= Len(acc) /\ up[p] <= Len(acc)
             /\ up[p] # 0 => IsNext(p, up[p])
  <2>1. up[p] \in Nat /\ took[p] \in Nat /\ took[p] <= Len(acc) /\ (up[p] # 0 => IsNext(p, up[p]))
    BY DEF IInv, PortsOK
  <2>2. Carried(p) \subseteq DOMAIN acc
    BY DEF Carried, Ports
  <2>3. DOMAIN acc = 1..Len(acc) /\ Len(acc) \in Nat
    BY PortFacts DEF IInv
  <2>4. QED BY <2>1, <2>2, <2>3 DEF IsNext
<1>3. up' \in [Ports -> Nat] /\ took' \in [Ports -> Nat]
  BY <1>1, <1>2
<1>4. \A p \in Ports : took'[p] <= Len(acc')
  BY <1>1, <1>2
<1>5. ASSUME NEW p \in Ports, up'[p] # 0 PROVE IsNext(p, up[p])'
  <2>1. up'[p] = up[p] /\ took'[p] = took[p]
    BY <1>1, <1>5
  <2>2. Carried(p)' = Carried(p)
    BY <1>1 DEF Carried
  <2>3. QED BY <1>2, <1>5, <2>1, <2>2 DEF IsNext
<1>6. PortsOK'
  BY <1>3, <1>4, <1>5 DEF PortsOK
<1>7. /\ "req" \in Ports /\ "fwd" \in Ports /\ Taken("req") = ReqTaken /\ Taken("fwd") = FwdTaken
  BY DEF Ports, Taken
<1>8. /\ took'["req"] = (IF ReqTaken THEN up["req"] ELSE took["req"])
      /\ took'["fwd"] = (IF FwdTaken THEN up["fwd"] ELSE took["fwd"])
      /\ up'["fwd"] = (IF FwdTaken THEN 0 ELSE up["fwd"])
  BY <1>1, <1>7
<1>9. (ReqTaken <=> ReadMatch /\ FwdTaken) /\ (FwdTaken => Fwd.op # "prefetch")
  BY LeaveTogether DEF IInv
<1>10. SamePast'
  <2> SUFFICES ASSUME NEW i \in DOMAIN acc, acc[i].op = "read" PROVE i <= took'["req"] <=> i <= took'["fwd"]
    BY <1>1 DEF SamePast
  <2>1. i <= took["req"] <=> i <= took["fwd"]
    BY DEF IInv, SamePast
  <2>2. CASE ReqTaken
    BY <1>8, <1>9, <2>2, Matches DEF IInv
  <2>3. CASE ~ReqTaken /\ ~FwdTaken
    BY <1>8, <2>1, <2>3
  <2>4. CASE ~ReqTaken /\ FwdTaken
    <3>1. DispMatch /\ Valid("fwd") /\ ~ReadMatch
      BY <1>9, <2>4 DEF FwdTaken
    <3>2. acc[up["fwd"]].op = "disp" /\ up["fwd"] # i
      BY <3>1, Matches DEF IInv, Fwd
    <3>3. i \in Nat /\ up["fwd"] > took["fwd"] /\ (i > took["fwd"] => up["fwd"] <= i)
      BY <3>1, PortFacts DEF IInv
    <3>4. QED BY <1>8, <2>1, <2>4, <3>2, <3>3, PortFacts DEF IInv
  <2>5. QED BY <2>2, <2>3, <2>4
<1>11. PfreqBlocked'
  <2> SUFFICES ASSUME ff'.pfreq # << >> PROVE up'["fwd"] # 0 /\ acc[up'["fwd"]].op = "prefetch"
    BY <1>1 DEF PfreqBlocked, Valid, Fwd
  <2>1. Valid("fwd") /\ Fwd.op = "prefetch"
    BY ClockFlops DEF IInv, PfreqBlocked
  <2>2. QED BY <1>8, <1>9, <2>1 DEF Valid, Fwd
<1>12. QED BY <1>6, <1>10, <1>11

\* A request for a displacement is none of the reads.
LEMMA OtherRequest ==
    ASSUME IInv, NEW w \in Request, ~IsRead(w), ff'.req = Append(ff.req, w), UNCHANGED <<acc, got>>,
           took'["req"] = took["req"]
    PROVE  ReadsInOrder'
<1>1. /\ DOMAIN ff.req = 1..Len(ff.req) /\ DOMAIN ff'.req = 1..(Len(ff.req) + 1) /\ Len(ff.req) \in Nat
      /\ \A n \in DOMAIN ff.req : ff'.req[n] = ff.req[n]
      /\ ff'.req[Len(ff.req) + 1] = w
  BY AppendFacts, SeqFacts DEF IInv, FlopsOK, Flop
<1>2. \A n \in DOMAIN ff'.req : IsRead(ff'.req[n]) => n \in DOMAIN ff.req /\ ff'.req[n] = ff.req[n]
  BY <1>1
<1>3. Left' \subseteq Left
  BY <1>2 DEF Left, IsRead
<1>4. Left \subseteq Left'
  BY <1>1 DEF Left, IsRead
<1>5. \A q : OwnTranslation(q)' = OwnTranslation(q)
  BY DEF OwnTranslation
<1>6. QED BY <1>2, <1>3, <1>4, <1>5 DEF IInv, ReadsInOrder, IsRead

\* A read is later than those that left before, and the next of its port.
LEMMA ReadLeaves ==
    ASSUME IInv, ReadMatch, ff'.req = Append(ff.req, ReadRequest), UNCHANGED <<acc, got>>,
           took'["req"] = up["req"]
    PROVE  ReadsInOrder'
<1> DEFINE w == ReadRequest
           last == Len(ff.req) + 1
<1>1. w \in Request /\ IsRead(w) /\ w.at = up["req"] /\ OwnTranslation(w)
  <2>1. up["req"] \in DOMAIN acc /\ Req.op = "read"
    BY PortFacts DEF IInv, ReadMatch
  <2>2. w.at = up["req"] /\ w.l2id = Req.l1id /\ w.paddr = Fwd.paddr
    BY DEF ReadRequest
  <2>3. up["fwd"] = up["req"]
    BY Matches DEF IInv
  <2>4. QED BY <2>1, <2>2, <2>3, AgainFacts DEF OwnTranslation, Req, Fwd
<1>2. /\ DOMAIN ff.req = 1..Len(ff.req) /\ DOMAIN ff'.req = 1..last /\ Len(ff.req) \in Nat
      /\ \A n \in DOMAIN ff.req : ff'.req[n] = ff.req[n]
      /\ ff'.req[last] = w
  BY <1>1, AppendFacts, SeqFacts DEF IInv, FlopsOK, Flop
<1> HIDE DEF w, last
<1>3. last \in DOMAIN ff'.req /\ \A n \in DOMAIN ff'.req : n \in DOMAIN ff.req \/ n = last
  BY <1>2 DEF last
<1>4. \A n \in DOMAIN ff.req : n < last /\ n \in DOMAIN ff'.req
  BY <1>2 DEF last
<1>5. \A q : OwnTranslation(q)' = OwnTranslation(q)
  BY DEF OwnTranslation
<1>6. \A k \in Left : k < w.at
  <2>1. \A k \in Left : k \in DOMAIN acc /\ k <= took["req"]
    BY DEF IInv, ReadsInOrder
  <2>2. up["req"] > took["req"] /\ DOMAIN acc \subseteq Nat /\ up["req"] \in Nat /\ took["req"] \in Nat
    BY PortFacts DEF IInv, ReadMatch
  <2>3. QED BY <1>1, <2>1, <2>2
<1>7. /\ \A n \in DOMAIN got : got[n].at < w.at
      /\ \A n \in DOMAIN ff.req : IsRead(ff.req[n]) => ff.req[n].at < w.at
  BY <1>6 DEF Left
<1>8. Left' = Left \cup {w.at}
  <2>1. Left' \subseteq Left \cup {w.at}
    BY <1>2, <1>3 DEF Left, IsRead
  <2>2. Left \subseteq Left'
    BY <1>2, <1>4 DEF Left, IsRead
  <2>3. w.at \in Left'
    BY <1>1, <1>2, <1>3 DEF Left, IsRead
  <2>4. QED BY <2>1, <2>2, <2>3
<1>9. {i \in DOMAIN acc : i <= took'["req"] /\ acc[i].op = "read"} = Left'
  <2>1. Left = {i \in DOMAIN acc : i <= took["req"] /\ acc[i].op = "read"}
    BY DEF IInv, ReadsInOrder
  <2>2. /\ up["req"] \in DOMAIN acc /\ acc[up["req"]].op = "read" /\ up["req"] > took["req"]
        /\ \A k \in DOMAIN acc : acc[k].op = "read" /\ k > took["req"] => up["req"] <= k
        /\ DOMAIN acc \subseteq Nat /\ took["req"] \in Nat
    BY PortFacts DEF IInv, ReadMatch, Req
  <2>3. \A i \in DOMAIN acc : acc[i].op = "read" => (i <= up["req"] <=> i <= took["req"] \/ i = up["req"])
    BY <2>2
  <2>4. QED BY <1>1, <1>8, <2>1, <2>2, <2>3
<1>10. \A n \in DOMAIN ff'.req : IsRead(ff'.req[n]) => OwnTranslation(ff'.req[n])
  BY <1>1, <1>2, <1>3 DEF IInv, ReadsInOrder
<1>11. \A m, n \in DOMAIN ff'.req : m < n /\ IsRead(ff'.req[m]) /\ IsRead(ff'.req[n]) => ff'.req[m].at < ff'.req[n].at
  <2> SUFFICES ASSUME NEW m \in DOMAIN ff'.req, NEW n \in DOMAIN ff'.req, m < n, IsRead(ff'.req[m]), IsRead(ff'.req[n])
               PROVE  ff'.req[m].at < ff'.req[n].at
    OBVIOUS
  <2>1. m \in DOMAIN ff.req /\ ff'.req[m] = ff.req[m]
    BY <1>2 DEF last
  <2>2. CASE n \in DOMAIN ff.req
    BY <1>2, <2>1, <2>2 DEF IInv, ReadsInOrder
  <2>3. CASE n = last
    BY <1>2, <1>7, <2>1, <2>3
  <2>4. QED BY <1>3, <2>2, <2>3
<1>12. \A m \in DOMAIN got, n \in DOMAIN ff'.req : IsRead(ff'.req[n]) => got[m].at < ff'.req[n].at
  <2> SUFFICES ASSUME NEW m \in DOMAIN got, NEW n \in DOMAIN ff'.req, IsRead(ff'.req[n]) PROVE got[m].at < ff'.req[n].at
    OBVIOUS
  <2>1. CASE n \in DOMAIN ff.req
    BY <1>2, <2>1 DEF IInv, ReadsInOrder
  <2>2. CASE n = last
    BY <1>2, <1>7, <2>2
  <2>3. QED BY <1>3, <2>1, <2>2
<1>13. QED BY <1>5, <1>9, <1>10, <1>11, <1>12 DEF IInv, ReadsInOrder, IsRead

LEMMA ClockReads == ASSUME IInv, Clock PROVE ReadsInOrder'
<1>1. acc' = acc /\ got' = got /\ took'["req"] = IF ReqTaken THEN up["req"] ELSE took["req"]
  BY DEF Clock, Taken, Ports
<1>2. ff'.req = IF (Again # NoReq \/ ReadMatch) /\ Room("req") THEN Append(ff.req, ReqWord) ELSE ff.req
  BY ClockFlops
<1>3. CASE Again # NoReq /\ Room("req")
  <2>1. ~ReqTaken /\ ff'.req = Append(ff.req, Again)
    BY <1>2, <1>3 DEF ReqTaken, CompetitorRetry, ReqWord
  <2>2. QED BY <1>1, <1>3, <2>1, AgainFacts, OtherRequest
<1>4. CASE Again = NoReq /\ ReadMatch /\ Room("req")
  <2>1. ReqTaken /\ ff'.req = Append(ff.req, ReadRequest)
    BY <1>2, <1>4 DEF ReqTaken, CompetitorRetry, ReqWord
  <2>2. QED BY <1>1, <1>4, <2>1, ReadLeaves
<1>5. CASE ~((Again # NoReq \/ ReadMatch) /\ Room("req"))
  <2>1. ~ReqTaken /\ ff'.req = ff.req
    BY <1>2, <1>5 DEF ReqTaken, CompetitorRetry
  <2>2. \A q : OwnTranslation(q)' = OwnTranslation(q)
    BY <1>1 DEF OwnTranslation
  <2>3. QED BY <1>1, <2>1, <2>2 DEF IInv, ReadsInOrder, Left, IsRead
<1>6. QED BY <1>3, <1>4, <1>5

LEMMA ClockSnacks == ASSUME IInv, Clock PROVE SnacksInOrder'
<1> DEFINE MayRepeat == \E i \in DOMAIN acc : acc[i].mask = "partial"
           Follows(m, n) == n = m + 1 \/ (n = m /\ MayRepeat)
           Last == IF ff.snack = << >> THEN seen ELSE ff.snack[Len(ff.snack)].serial
<1>1. acc' = acc /\ serial' = serial /\ seen' = seen /\ snack' = (IF SnackTaken THEN NoSnack ELSE snack)
  BY DEF Clock
<1>2. ff'.snack = IF SnackValid /\ Room("snack") THEN Append(ff.snack, snack) ELSE ff.snack
  BY ClockFlops
<1>3. /\ ff.snack # << >> => Follows(seen, Head(ff.snack).serial)
      /\ \A n \in 1 .. Len(ff.snack) - 1 : Follows(ff.snack[n].serial, ff.snack[n + 1].serial)
      /\ IF SnackValid THEN Follows(Last, snack.serial) /\ snack.serial = serial ELSE Last = serial
  BY DEF IInv, SnacksInOrder
<1>4. SnackValid /\ ~SnackTaken /\ Room("snack") => MayRepeat
  <2> SUFFICES ASSUME SnackValid, ~SnackTaken, Room("snack") PROVE MayRepeat
    OBVIOUS
  <2>1. Valid("disp") /\ Disp.mask # "full"
    BY DEF SnackTaken, Partial
  <2>2. up["disp"] \in DOMAIN acc /\ Disp.mask = "partial"
    BY <2>1, PortFacts DEF IInv
  <2>3. QED BY <2>2 DEF Disp
<1>5. SnackTaken => SnackValid /\ Room("snack")
  BY DEF SnackTaken
<1> HIDE DEF MayRepeat
<1>6. CASE ~(SnackValid /\ Room("snack"))
  <2>1. ff'.snack = ff.snack /\ snack' = snack
    BY <1>1, <1>2, <1>5, <1>6
  <2>2. QED BY <1>1, <2>1, SnacksStay DEF IInv
<1>7. CASE SnackValid /\ Room("snack")
  <2> DEFINE n == Len(ff.snack)
  <2>1. /\ ff'.snack = Append(ff.snack, snack) /\ ff'.snack # << >>
        /\ n \in Nat /\ Len(ff'.snack) = n + 1
        /\ \A i \in 1..n : ff'.snack[i] = ff.snack[i]
        /\ ff'.snack[n + 1] = snack
        /\ ff'.snack \in Seq(AnySnack)
        /\ ff.snack = << >> <=> n = 0
        /\ ff.snack # << >> => Head(ff.snack) = ff.snack[1]
    BY SMTT(30), <1>2, <1>7, AppendFacts, SeqFacts, TailFacts, EmptySeq DEF IInv, FlopsOK, Flop
  <2>2. Head(ff'.snack) = ff'.snack[1]
    BY <2>1, TailFacts
  <2> HIDE DEF n
  <2>3. Follows(seen, Head(ff'.snack).serial)
    <3>1. CASE n = 0
      BY <1>3, <1>7, <2>1, <2>2, <3>1
    <3>2. CASE n # 0
      BY <1>3, <2>1, <2>2, <3>2
    <3>3. QED BY <3>1, <3>2
  <2>4. \A i \in 1..n : Follows(ff'.snack[i].serial, ff'.snack[i + 1].serial)
    <3> SUFFICES ASSUME NEW i \in 1..n PROVE Follows(ff'.snack[i].serial, ff'.snack[i + 1].serial)
      OBVIOUS
    <3>1. CASE i = n
      BY <1>3, <1>7, <2>1, <3>1 DEF n
    <3>2. CASE i # n
      <4>1. i \in 1..(n - 1) /\ i + 1 \in 1..n
        BY <2>1, <3>2
      <4>2. Follows(ff.snack[i].serial, ff.snack[i + 1].serial)
        BY <1>3, <4>1 DEF n
      <4>3. QED BY <2>1, <4>1, <4>2
    <3>3. QED BY <3>1, <3>2
  <2>5. (MayRepeat)' = MayRepeat
    BY <1>1 DEF MayRepeat
  <2>6. CASE SnackTaken
    <3>1. ~SnackValid' /\ snack.serial = serial
      BY <1>1, <1>3, <1>7, <2>6 DEF SnackValid
    <3>2. QED BY <1>1, <2>1, <2>3, <2>4, <2>5, <3>1 DEF SnacksInOrder, MayRepeat
  <2>7. CASE ~SnackTaken
    <3>1. SnackValid' /\ snack' = snack /\ snack.serial = serial /\ MayRepeat
      BY <1>1, <1>3, <1>4, <1>7, <2>7 DEF SnackValid
    <3>2. Follows(ff'.snack[n + 1].serial, snack'.serial) /\ Len(ff'.snack) - 1 = n
      BY <2>1, <3>1
    <3>3. (MayRepeat)' /\ Len(ff'.snack) = n + 1
      BY <2>1, <2>5, <3>1
    <3>4. QED BY <1>1, <2>1, <2>3, <2>4, <2>5, <3>1, <3>2, <3>3 DEF SnacksInOrder, MayRepeat
  <2>8. QED BY <2>6, <2>7
<1>8. QED BY <1>6, <1>7

LEMMA ClockDisps == ASSUME IInv, Clock PROVE DispsOwnAddress'
<1> DEFINE w == [l2id |-> Disp.l1id, paddr |-> Fwd.paddr]
<1>1. acc' = acc
  BY DEF Clock
<1>2. ff'.disp = IF DispLeaves /\ Room("disp") THEN Append(ff.disp, w) ELSE ff.disp
  BY ClockFlops
<1>3. CASE ~(DispLeaves /\ Room("disp"))
  BY <1>1, <1>2, <1>3, DispsStay DEF IInv
<1>4. CASE DispLeaves /\ Room("disp")
  <2>1. DispMatch /\ w \in DispWord
    BY <1>4, ClockFlops DEF DispWord
  <2>2. /\ up["fwd"] \in DOMAIN acc /\ acc[up["fwd"]].op = "disp"
        /\ acc[up["fwd"]].l1id = w.l2id /\ acc[up["fwd"]].paddr = w.paddr
    BY <2>1, Matches, PortFacts DEF IInv, DispMatch, Fwd
  <2> HIDE DEF w
  <2>3. /\ DOMAIN ff.disp = 1..Len(ff.disp) /\ DOMAIN ff'.disp = 1..(Len(ff.disp) + 1) /\ Len(ff.disp) \in Nat
        /\ \A n \in DOMAIN ff.disp : ff'.disp[n] = ff.disp[n]
        /\ ff'.disp[Len(ff.disp) + 1] = w
    BY <1>2, <1>4, <2>1, AppendFacts, SeqFacts DEF IInv, FlopsOK, Flop
  <2>4. \A n \in DOMAIN ff'.disp : n \in DOMAIN ff.disp \/ n = Len(ff.disp) + 1
    BY <2>3
  <2>5. QED BY <1>1, <2>2, <2>3, <2>4 DEF IInv, DispsOwnAddress
<1>5. QED BY <1>3, <1>4

LEMMA ClockKeeps == ASSUME IInv, Clock PROVE IInv'
<1>1. acc' = acc
  BY DEF Clock
<1>2. QED BY <1>1, AccStays, ClockFlops, ClockPorts, ClockReads, ClockSnacks, ClockDisps DEF IInv

-----------------------------------------------------------------------------
LEMMA InitIInv == Init => IInv
<1> SUFFICES ASSUME Init PROVE IInv
  OBVIOUS
<1>1. /\ acc = << >> /\ got = << >> /\ DOMAIN acc = {} /\ DOMAIN got = {} /\ Len(acc) = 0
      /\ ff \in Flop /\ ff.req = << >> /\ ff.snack = << >> /\ ff.disp = << >> /\ ff.pfreq = << >>
  BY DEF Init, Flop
<1>2. AccOK /\ SamePast /\ PortsOK /\ PfreqBlocked
  BY <1>1 DEF Init, AccOK, SamePast, PortsOK, PfreqBlocked
<1>3. FlopsOK
  <2>1. snack \in AnySnack
    BY DEF Init, NoSnack, AnySnack
  <2>2. got \in Seq(Request) /\ \A n \in DOMAIN got : IsRead(got[n])
    BY <1>1
  <2>3. QED BY <1>1, <2>1, <2>2 DEF Init, FlopsOK
<1>4. ReadsInOrder
  BY <1>1 DEF ReadsInOrder, Left
<1>5. SnacksInOrder
  BY <1>1 DEF Init, SnacksInOrder, SnackValid
<1>6. DispsOwnAddress
  BY <1>1 DEF DispsOwnAddress
<1>7. QED BY <1>2, <1>3, <1>4, <1>5, <1>6 DEF IInv

LEMMA NextIInv == IInv /\ [Next]_vars => IInv'
<1> SUFFICES ASSUME IInv, [Next]_vars PROVE IInv'
  OBVIOUS
<1>1. CASE Clock
  BY <1>1, ClockKeeps
<1>2. ASSUME NEW id \in ReadIds, NEW line \in Lines, L1Reads(id, line) PROVE IInv'
  <2>1. [op |-> "read", l1id |-> id, paddr |-> line, mask |-> "none"] \in Access
    BY DEF Access
  <2>2. QED BY <1>2, <2>1, StartsKeeps DEF L1Reads
<1>3. ASSUME NEW id \in DispIds, NEW line \in Lines, NEW m \in Masks, L1Displaces(id, line, m) PROVE IInv'
  <2>1. [op |-> "disp", l1id |-> id, paddr |-> line, mask |-> m] \in Access
    BY DEF Access
  <2>2. QED BY <1>3, <2>1, StartsKeeps DEF L1Displaces
<1>4. CASE L1Prefetches
  <2>1. PICK line : Starts("prefetch", 0, line, "none") /\ line = CHOOSE l \in Lines : TRUE
    BY <1>4 DEF L1Prefetches
  <2>2. line \in Lines
    BY <2>1, L2Assumption
  <2>3. [op |-> "prefetch", l1id |-> 0, paddr |-> line, mask |-> "none"] \in Access
    BY <2>2 DEF Access
  <2>4. QED BY <2>1, <2>3, StartsKeeps
<1>5. ASSUME NEW p \in Ports, Presents(p) PROVE IInv'
  BY <1>5, PresentsKeeps
<1>6. CASE L1TakesSnack \/ L1TakesDack
  BY <1>6, L1TakesSnackKeeps, L1TakesDackKeeps
<1>7. CASE DrTakesReq
  BY <1>7, DrTakesReqKeeps
<1>8. ASSUME NEW r \in at_dr, DrAnswers(r) PROVE IInv'
  <2>1. r.l2id \in ReadIds \cup DispIds /\ r.paddr \in Lines
    BY DEF IInv, FlopsOK
  <2>2. QED BY <1>8, <2>1, SendsKeeps DEF DrAnswers
<1>9. CASE DrSnoops
  BY <1>9, SendsKeeps DEF DrSnoops
<1>10. ASSUME NEW q \in {"disp", "pfreq", "ack"}, DrTakes(q) PROVE IInv'
  BY <1>10, DrTakesKeeps
<1>11. CASE UNCHANGED vars
  <2>1. UNCHANGED <<acc, up, took, snack, snoop_ack, ff, again, dack, at_dr, got, serial, seen>>
    BY <1>11 DEF vars
  <2>2. QED BY <2>1, AccStays, PortsStay, FlopsStay, ReadsStay, SnacksStay, DispsStay, PfreqStays DEF IInv
<1>12. QED BY <1>1, <1>2, <1>3, <1>4, <1>5, <1>6, <1>7, <1>8, <1>9, <1>10, <1>11 DEF Next

THEOREM Invariance == Spec => []IInv
BY InitIInv, NextIInv, PTL DEF Spec

(* Each read that the L1's port let go leaves once, in program order and   *)
(* with its own translation, however the ports, the directory and          *)
(* displacements hold each other up (rtl/l2cache_pipe.v:195-212, 942-947). *)
THEOREM EveryReadItsTranslation == Spec => []ReadsInOrder
<1>1. IInv => ReadsInOrder
  BY DEF IInv
<1>2. QED BY <1>1, Invariance, PTL

(* No snack of the directory is lost or overtaken, and one repeats only    *)
(* while a partial displacement holds it (rtl/l2cache_pipe.v:226-237).     *)
THEOREM NoSnackLost == Spec => []SnacksInOrder
<1>1. IInv => SnacksInOrder
  BY DEF IInv
<1>2. QED BY <1>1, Invariance, PTL

(* A line is written back under an address its own access was translated   *)
(* to (rtl/l2cache_pipe.v:396-418).                                        *)
THEOREM LinesKeepTheirAddress == Spec => []DispsOwnAddress
<1>1. IInv => DispsOwnAddress
  BY DEF IInv
<1>2. QED BY <1>1, Invariance, PTL
=============================================================================
