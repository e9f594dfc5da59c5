---------------------------- MODULE MachineProofs ----------------------------
(* What the runs of MCMachine check on a few programs, for every program,    *)
(* every number of harts, every length of turn and every word size: the      *)
(* privilege stack returns where it was trapped, a store-conditional that    *)
(* succeeds is atomic, messages between host and hart are kept, and instret  *)
(* is exact.                                                                 *)
(*                                                                           *)
(* The inductive invariant IInv says of each hart, with its ghost, that its  *)
(* mailboxes, its reservation and its stack agree with what happened         *)
(* (HartInv) and that its counter does once the instructions of the loop     *)
(* under way are credited (CountInv); of all harts, that only the one whose  *)
(* turn it is holds a reservation (Alone); and of the scheduler, that the    *)
(* host comes in between whole turns (SchedInv).                             *)
EXTENDS Machine, SequenceTheorems, TLAPS

HartFields ==
  {"run", "pc", "mstatus", "mepc", "mcause", "mbadaddr", "mscratch", "sepc", "scause", "sbadaddr", "sscratch",
   "stvec", "sptbr", "mip", "mie", "mtimecmp", "minstret", "suinstret_delta", "sutime_delta", "serialized",
   "load_reservation", "tohost", "fromhost"}
StatusFields == {"prv", "ie", "prv1", "ie1", "prv2", "ie2", "fs", "mprv", "vm"}
GhostFields == {"frames", "clean", "count", "late", "exact", "inbox", "outbox", "again"}
FrameFields == {"pc", "prv", "ie", "cause", "saved"}

IsHart(q) ==
  /\ DOMAIN q = HartFields /\ DOMAIN q.mstatus = StatusFields
  /\ q.mstatus.prv \in Privileges /\ q.mstatus.prv1 \in Privileges /\ q.mstatus.prv2 \in Privileges
\* What is fetched again: nothing, or a CSR instruction.
Refetched(i) == i = NoInsn \/ (i.op = "csr" /\ \E p \in Programs : i \in p.insns)
IsGhost(h) == DOMAIN h = GhostFields /\ Refetched(h.again)

-----------------------------------------------------------------------------
(* The fields an operator leaves alone. *)
Same(q, q2, changed) == DOMAIN q2 = HartFields /\ \A f \in HartFields \ changed : q2[f] = q[f]

\* The fields of a reset hart are those of every hart.
LEMMA ResetIsHart ==
  ASSUME NEW run
  PROVE  LET q == state_reset(run)
         IN  /\ IsHart(q) /\ q.run = run
             /\ q.load_reservation = NoWord /\ q.tohost = 0 /\ q.fromhost = 0
             /\ q.minstret = 0 /\ q.suinstret_delta = 0 /\ q.serialized = FALSE
<1> DEFINE q == state_reset(run)
<1>1. DOMAIN q = HartFields
  BY DEF state_reset, HartFields
<1>2. /\ DOMAIN q.mstatus = StatusFields
      /\ q.mstatus.prv = "M" /\ q.mstatus.prv1 = "U" /\ q.mstatus.prv2 = "U"
  BY DEF state_reset, StatusFields
<1>3. /\ q.run = run /\ q.load_reservation = NoWord /\ q.tohost = 0 /\ q.fromhost = 0
      /\ q.minstret = 0 /\ q.suinstret_delta = 0 /\ q.serialized = FALSE
  BY DEF state_reset
<1> QED
  BY <1>1, <1>2, <1>3 DEF IsHart, Privileges

\* A write to mstatus: illegal fields keep their value (set_csr).
LEMMA SetStatus ==
  ASSUME NEW q, NEW val, IsHart(q), DOMAIN val = StatusFields
  PROVE  LET q2 == set_mstatus(q, val)
         IN  /\ IsHart(q2) /\ Same(q, q2, {"mstatus"})
             /\ \A f \in {"prv", "prv1", "prv2"} : val[f] \in Privileges => q2.mstatus[f] = val[f]
             /\ \A f \in {"prv", "prv1", "prv2"} : val[f] \notin Privileges => q2.mstatus[f] = q.mstatus[f]
             /\ \A f \in {"ie", "ie1", "ie2"} : q2.mstatus[f] = val[f]
<1> DEFINE m == [val EXCEPT !.prv = Legal(Privileges, @, q.mstatus.prv), !.prv1 = Legal(Privileges, @, q.mstatus.prv1),
                            !.prv2 = Legal(Privileges, @, q.mstatus.prv2), !.vm = Legal(VmModes, @, q.mstatus.vm)]
           q2 == set_mstatus(q, val)
<1>1. /\ DOMAIN m = StatusFields
      /\ m.prv = Legal(Privileges, val.prv, q.mstatus.prv)
      /\ m.prv1 = Legal(Privileges, val.prv1, q.mstatus.prv1)
      /\ m.prv2 = Legal(Privileges, val.prv2, q.mstatus.prv2)
      /\ m.ie = val.ie /\ m.ie1 = val.ie1 /\ m.ie2 = val.ie2
  BY DEF StatusFields
<1>2. q2 = [q EXCEPT !.mstatus = m]
  BY DEF set_mstatus
<1> HIDE DEF m
<1>3. DOMAIN q2 = HartFields /\ q2.mstatus = m /\ \A f \in HartFields \ {"mstatus"} : q2[f] = q[f]
  BY <1>2 DEF IsHart, HartFields
<1> HIDE DEF q2
<1>4. IsHart(q2)
  BY <1>1, <1>3 DEF IsHart, Legal
<1>5. \A f \in {"prv", "prv1", "prv2"} : m[f] = Legal(Privileges, val[f], q.mstatus[f])
  BY <1>1
<1> QED
  BY <1>1, <1>3, <1>4, <1>5 DEF Same, Legal, q2

\* The privilege stack goes down by one level.
LEMMA PushStatus ==
  ASSUME NEW q, IsHart(q)
  PROVE  LET q2 == push_privilege_stack(q)
         IN  /\ IsHart(q2) /\ Same(q, q2, {"mstatus"})
             /\ q2.mstatus.prv = "M" /\ q2.mstatus.prv1 = q.mstatus.prv /\ q2.mstatus.prv2 = q.mstatus.prv1
             /\ q2.mstatus.ie1 = q.mstatus.ie /\ q2.mstatus.ie2 = q.mstatus.ie1
<1> DEFINE m == q.mstatus
           val == [m EXCEPT !.prv2 = m.prv1, !.ie2 = m.ie1, !.prv1 = m.prv, !.ie1 = m.ie,
                            !.prv = "M", !.mprv = FALSE, !.ie = FALSE]
<1>1. DOMAIN m = StatusFields /\ m.prv \in Privileges /\ m.prv1 \in Privileges
  BY DEF IsHart
<1>2. push_privilege_stack(q) = set_mstatus(q, val)
  BY DEF push_privilege_stack
<1> HIDE DEF m
<1>3. /\ DOMAIN val = StatusFields
      /\ val.prv = "M" /\ val.prv1 = m.prv /\ val.prv2 = m.prv1 /\ val.ie1 = m.ie /\ val.ie2 = m.ie1
  BY <1>1 DEF StatusFields
<1> HIDE DEF val
<1>4. "M" \in Privileges
  BY DEF Privileges
<1> QED
  BY <1>1, <1>2, <1>3, <1>4, SetStatus DEF m

\* The privilege stack goes up by one level.
LEMMA PopStatus ==
  ASSUME NEW q, IsHart(q)
  PROVE  LET q2 == pop_privilege_stack(q)
         IN  /\ IsHart(q2) /\ Same(q, q2, {"mstatus"})
             /\ q2.mstatus.prv = q.mstatus.prv1 /\ q2.mstatus.prv1 = q.mstatus.prv2
             /\ q2.mstatus.ie1 = q.mstatus.ie2
<1> DEFINE m == q.mstatus
           val == [m EXCEPT !.prv = m.prv1, !.ie = m.ie1, !.prv1 = m.prv2, !.ie1 = m.ie2, !.prv2 = "U", !.ie2 = TRUE]
<1>1. DOMAIN m = StatusFields /\ m.prv1 \in Privileges /\ m.prv2 \in Privileges
  BY DEF IsHart
<1>2. pop_privilege_stack(q) = set_mstatus(q, val)
  BY DEF pop_privilege_stack
<1> HIDE DEF m
<1>3. /\ DOMAIN val = StatusFields
      /\ val.prv = m.prv1 /\ val.prv1 = m.prv2 /\ val.prv2 = "U" /\ val.ie1 = m.ie2
  BY <1>1 DEF StatusFields
<1> HIDE DEF val
<1> QED
  BY <1>1, <1>2, <1>3, SetStatus DEF m

-----------------------------------------------------------------------------
(* Traps and returns: where they leave what a handler and sret look for. *)
LEMMA TakeTrap ==
  ASSUME NEW q, NEW t, NEW epc, IsHart(q)
  PROVE  LET q2 == take_trap(q, t, epc)
         IN  /\ IsHart(q2)
             /\ Same(q, q2, {"mstatus", "load_reservation", "pc", "mcause", "mepc", "mbadaddr"})
             /\ q2.load_reservation = NoWord /\ q2.mepc = epc /\ q2.mcause = t.cause
             /\ q2.mstatus.prv = "M" /\ q2.mstatus.prv1 = q.mstatus.prv /\ q2.mstatus.prv2 = q.mstatus.prv1
             /\ q2.mstatus.ie1 = q.mstatus.ie /\ q2.mstatus.ie2 = q.mstatus.ie1
<1> DEFINE u == push_privilege_stack(q)
           q2 == take_trap(q, t, epc)
<1>1. /\ IsHart(u) /\ Same(q, u, {"mstatus"})
      /\ u.mstatus.prv = "M" /\ u.mstatus.prv1 = q.mstatus.prv /\ u.mstatus.prv2 = q.mstatus.prv1
      /\ u.mstatus.ie1 = q.mstatus.ie /\ u.mstatus.ie2 = q.mstatus.ie1
  BY PushStatus
<1>2. PICK pc, bad : q2 = [[u EXCEPT !.load_reservation = NoWord] EXCEPT
                             !.pc = pc, !.mcause = t.cause, !.mepc = epc, !.mbadaddr = bad]
  BY DEF take_trap, yield_load_reservation
<1>3. DOMAIN u = HartFields
  BY <1>1 DEF IsHart
<1> HIDE DEF u, q2
<1>4. /\ DOMAIN q2 = HartFields
      /\ q2.load_reservation = NoWord /\ q2.mepc = epc /\ q2.mcause = t.cause /\ q2.mstatus = u.mstatus
      /\ \A f \in HartFields \ {"load_reservation", "pc", "mcause", "mepc", "mbadaddr"} : q2[f] = u[f]
  BY <1>2, <1>3 DEF HartFields
<1>5. IsHart(q2)
  BY <1>1, <1>4 DEF IsHart
<1>6. Same(q, q2, {"mstatus", "load_reservation", "pc", "mcause", "mepc", "mbadaddr"})
  BY <1>1, <1>4 DEF Same
<1> QED
  BY <1>1, <1>4, <1>5, <1>6 DEF q2

LEMMA Sreturn ==
  ASSUME NEW q, IsHart(q)
  PROVE  LET q2 == sret(q)
         IN  /\ IsHart(q2) /\ Same(q, q2, {"mstatus", "pc"})
             /\ q2.mstatus.prv = q.mstatus.prv1 /\ q2.mstatus.prv1 = q.mstatus.prv2
             /\ q2.mstatus.ie1 = q.mstatus.ie2
<1> DEFINE u == pop_privilege_stack(q)
           q2 == sret(q)
<1>1. /\ IsHart(u) /\ Same(q, u, {"mstatus"})
      /\ u.mstatus.prv = q.mstatus.prv1 /\ u.mstatus.prv1 = q.mstatus.prv2 /\ u.mstatus.ie1 = q.mstatus.ie2
  BY PopStatus
<1>2. PICK pc : q2 = [u EXCEPT !.pc = pc]
  BY DEF sret
<1>3. DOMAIN u = HartFields
  BY <1>1 DEF IsHart
<1> HIDE DEF u, q2
<1>4. DOMAIN q2 = HartFields /\ q2.mstatus = u.mstatus /\ \A f \in HartFields \ {"pc"} : q2[f] = u[f]
  BY <1>2, <1>3 DEF HartFields
<1>5. IsHart(q2)
  BY <1>1, <1>4 DEF IsHart
<1>6. Same(q, q2, {"mstatus", "pc"})
  BY <1>1, <1>4 DEF Same
<1> QED
  BY <1>1, <1>4, <1>5, <1>6 DEF q2

LEMMA Redirect ==
  ASSUME NEW q, IsHart(q)
  PROVE  LET q2 == mrts(q)
         IN  /\ IsHart(q2) /\ Same(q, q2, {"mstatus", "pc", "sbadaddr", "scause", "sepc"})
             /\ q2.sepc = q.mepc /\ q2.scause = q.mcause /\ q2.mstatus.prv = "S"
             /\ q2.mstatus.prv1 = q.mstatus.prv1 /\ q2.mstatus.prv2 = q.mstatus.prv2
             /\ q2.mstatus.ie1 = q.mstatus.ie1 /\ q2.mstatus.ie2 = q.mstatus.ie2
<1> DEFINE m == q.mstatus
           val == [m EXCEPT !.prv = "S"]
           u == set_mstatus(q, val)
           q2 == mrts(q)
<1>1. DOMAIN m = StatusFields /\ m.prv1 \in Privileges /\ m.prv2 \in Privileges
  BY DEF IsHart
<1>2. q2 = [u EXCEPT !.sbadaddr = q.mbadaddr, !.scause = q.mcause, !.sepc = q.mepc, !.pc = q.stvec]
  BY DEF mrts
<1> HIDE DEF m
<1>3. /\ DOMAIN val = StatusFields
      /\ val.prv = "S" /\ val.prv1 = m.prv1 /\ val.prv2 = m.prv2 /\ val.ie1 = m.ie1 /\ val.ie2 = m.ie2
  BY <1>1 DEF StatusFields
<1> HIDE DEF val
<1>4. "S" \in Privileges
  BY DEF Privileges
<1>5. /\ IsHart(u) /\ Same(q, u, {"mstatus"})
      /\ u.mstatus.prv = "S" /\ u.mstatus.prv1 = m.prv1 /\ u.mstatus.prv2 = m.prv2
      /\ u.mstatus.ie1 = m.ie1 /\ u.mstatus.ie2 = m.ie2
  BY <1>1, <1>3, <1>4, SetStatus DEF m
<1>6. DOMAIN u = HartFields
  BY <1>5 DEF IsHart
<1> HIDE DEF u, q2
<1>7. /\ DOMAIN q2 = HartFields /\ q2.mstatus = u.mstatus /\ q2.sepc = q.mepc /\ q2.scause = q.mcause
      /\ \A f \in HartFields \ {"pc", "sbadaddr", "scause", "sepc"} : q2[f] = u[f]
  BY <1>2, <1>6 DEF HartFields
<1>8. IsHart(q2)
  BY <1>5, <1>7 DEF IsHart
<1>9. Same(q, q2, {"mstatus", "pc", "sbadaddr", "scause", "sepc"})
  BY <1>5, <1>7 DEF Same
<1> QED
  BY <1>5, <1>7, <1>8, <1>9 DEF q2, m

-----------------------------------------------------------------------------
(* The two levels of the stack and the contexts they interrupted. *)
Level1(q, a) ==
  /\ DOMAIN a = FrameFields
  /\ q.mstatus.prv1 = a.prv /\ q.mstatus.ie1 = a.ie
  /\ a.saved => Resumes(q, q.mstatus.prv, a)
Level2(q, a, b) ==
  /\ DOMAIN b = FrameFields
  /\ q.mstatus.prv2 = b.prv /\ q.mstatus.ie2 = b.ie
  /\ b.saved => Resumes(q, a.prv, b)
Stacked(q, f) ==
  \/ f = <<>>
  \/ \E a : f = <<a>> /\ Level1(q, a)
  \/ \E a, b : f = <<a, b>> /\ Level1(q, a) /\ Level2(q, a, b)

LEMMA TupleFacts ==
  ASSUME NEW a, NEW b
  PROVE  /\ <<a>> \o <<>> = <<a>> /\ <<a>> \o <<b>> = <<a, b>>
         /\ <<a>> # <<>> /\ <<a>>[1] = a /\ Tail(<<a>>) = <<>> /\ Len(<<a>>) = 1 /\ DOMAIN <<a>> = {1}
         /\ <<a, b>> # <<>> /\ <<a, b>>[1] = a /\ <<a, b>>[2] = b /\ Tail(<<a, b>>) = <<b>> /\ Len(<<a, b>>) = 2
         /\ DOMAIN <<a, b>> = {1, 2}
<1>1. <<a>> \in Seq({a, b}) /\ <<b>> \in Seq({a, b}) /\ <<a, b>> \in Seq({a, b})
  OBVIOUS
<1>2. <<a>> \o <<>> = <<a>> /\ <<a>> \o <<b>> = <<a, b>>
  <2>1. <<a>> \o <<>> = <<a>>
    BY <1>1, ConcatEmptySeq
  <2>2. /\ <<a>> \o <<b>> \in Seq({a, b}) /\ Len(<<a>> \o <<b>>) = 2
        /\ (<<a>> \o <<b>>)[1] = a /\ (<<a>> \o <<b>>)[2] = b
    BY <1>1
  <2>3. <<a, b>>[1] = a /\ <<a, b>>[2] = b /\ Len(<<a, b>>) = 2
    OBVIOUS
  <2>4. \A i \in 1 .. Len(<<a>> \o <<b>>) : (<<a>> \o <<b>>)[i] = <<a, b>>[i]
    <3> SUFFICES ASSUME NEW i \in 1 .. 2 PROVE (<<a>> \o <<b>>)[i] = <<a, b>>[i]
      BY <2>2
    <3>1. i = 1 \/ i = 2
      OBVIOUS
    <3> QED
      BY <3>1, <2>2, <2>3
  <2>5. <<a>> \o <<b>> = <<a, b>>
    BY <2>2, <2>3, <2>4, <1>1, SeqEqual
  <2> QED
    BY <2>1, <2>5
<1>3. Tail(<<a>>) = <<>> /\ Tail(<<a, b>>) = <<b>>
  OBVIOUS
<1>4. DOMAIN <<a>> = {1} /\ DOMAIN <<a, b>> = {1, 2}
  OBVIOUS
<1> QED
  BY <1>2, <1>3, <1>4

\* A context stays described by a hart of which nothing it depends on changed.
LEMMA StackedSame ==
  ASSUME NEW q, NEW q2, NEW f, Stacked(q, f), q2.mstatus = q.mstatus,
         q2.mepc = q.mepc, q2.mcause = q.mcause, q2.sepc = q.sepc, q2.scause = q.scause
  PROVE  Stacked(q2, f)
<1>1. \A prv, a : Resumes(q2, prv, a) = Resumes(q, prv, a)
  BY DEF Resumes
<1>2. \A a, b : Level1(q2, a) = Level1(q, a) /\ Level2(q2, a, b) = Level2(q, a, b)
  BY <1>1 DEF Level1, Level2
<1> QED
  BY <1>2 DEF Stacked

\* The context below a trap: unsaved, unless the trap is taken in S.
LEMMA BelowIs ==
  ASSUME NEW a, NEW prv, DOMAIN a = FrameFields
  PROVE  \E b : /\ Below(<<a>>, prv) = <<b>> /\ DOMAIN b = FrameFields /\ b.prv = a.prv /\ b.ie = a.ie
                /\ b.saved => prv = "S" /\ b = a
<1> DEFINE c == [a EXCEPT !.saved = FALSE]
<1>1. DOMAIN c = FrameFields /\ c.prv = a.prv /\ c.ie = a.ie /\ c.saved = FALSE
  BY DEF FrameFields
<1> HIDE DEF c
<1>2. Below(<<a>>, prv) = <<IF prv = "S" THEN a ELSE c>>
  BY TupleFacts DEF Below, c
<1>3. CASE prv = "S"
  BY <1>2, <1>3
<1>4. CASE prv # "S"
  <2>1. Below(<<a>>, prv) = <<c>>
    BY <1>2, <1>4
  <2> QED
    BY <2>1, <1>1
<1> QED
  BY <1>3, <1>4

LEMMA BelowTwo ==
  ASSUME NEW a, NEW b, NEW prv
  PROVE  Below(<<a, b>>, prv) = Below(<<a>>, prv)
<1>1. <<a, b>> # <<>> /\ <<a>> # <<>> /\ <<a, b>>[1] = a /\ <<a>>[1] = a
  BY TupleFacts
<1> QED
  BY <1>1 DEF Below

LEMMA StackedTrap ==
  ASSUME NEW q, NEW t, NEW f, IsHart(q), Stacked(q, f)
  PROVE  Stacked(take_trap(q, t, q.pc), Push(q, t.cause, f))
<1> DEFINE q2 == take_trap(q, t, q.pc)
           new == [pc |-> q.pc, prv |-> q.mstatus.prv, ie |-> q.mstatus.ie, cause |-> t.cause, saved |-> TRUE]
<1>1. /\ q2.mepc = q.pc /\ q2.mcause = t.cause /\ q2.sepc = q.sepc /\ q2.scause = q.scause
      /\ q2.mstatus.prv = "M" /\ q2.mstatus.prv1 = q.mstatus.prv /\ q2.mstatus.prv2 = q.mstatus.prv1
      /\ q2.mstatus.ie1 = q.mstatus.ie /\ q2.mstatus.ie2 = q.mstatus.ie1
  BY TakeTrap DEF Same, HartFields
<1>2. /\ DOMAIN new = FrameFields /\ new.pc = q.pc /\ new.prv = q.mstatus.prv /\ new.ie = q.mstatus.ie
      /\ new.cause = t.cause
  BY DEF FrameFields
<1>3. Push(q, t.cause, f) = <<new>> \o Below(f, q.mstatus.prv)
  BY DEF Push
<1> HIDE DEF q2, new
<1>4. Level1(q2, new)
  BY <1>1, <1>2 DEF Level1, Resumes
<1>5. CASE f = <<>>
  <2>1. Push(q, t.cause, f) = <<new>>
    BY <1>3, <1>5, TupleFacts DEF Below
  <2> QED
    BY <2>1, <1>4 DEF Stacked, q2
<1>6. ASSUME NEW a, Level1(q, a), Below(f, q.mstatus.prv) = Below(<<a>>, q.mstatus.prv)
      PROVE  Stacked(q2, Push(q, t.cause, f))
  <2>1. DOMAIN a = FrameFields /\ q.mstatus.prv1 = a.prv /\ q.mstatus.ie1 = a.ie
    BY <1>6 DEF Level1
  <2>2. PICK b : /\ Below(<<a>>, q.mstatus.prv) = <<b>> /\ DOMAIN b = FrameFields /\ b.prv = a.prv /\ b.ie = a.ie
                 /\ b.saved => q.mstatus.prv = "S" /\ b = a
    BY <2>1, BelowIs
  <2>3. Push(q, t.cause, f) = <<new, b>>
    BY <1>3, <1>6, <2>2, TupleFacts
  <2>4. b.saved => Resumes(q2, new.prv, b)
    BY <1>1, <1>2, <1>6, <2>2 DEF Level1, Resumes
  <2>5. Level2(q2, new, b)
    BY <1>1, <2>1, <2>2, <2>4 DEF Level2
  <2> QED
    BY <2>3, <2>5, <1>4 DEF Stacked
<1>7. CASE \E a : f = <<a>> /\ Level1(q, a)
  BY <1>6, <1>7 DEF q2
<1>8. CASE \E a, b : f = <<a, b>> /\ Level1(q, a) /\ Level2(q, a, b)
  BY <1>6, <1>8, BelowTwo DEF q2
<1> QED
  BY <1>5, <1>7, <1>8 DEF Stacked

\* sret goes back to the context on top.
LEMMA StackedSret ==
  ASSUME NEW q, NEW f, IsHart(q), Stacked(q, f)
  PROVE  Stacked(sret(q), IF f = <<>> THEN f ELSE Tail(f))
<1> DEFINE q2 == sret(q)
<1>1. /\ q2.mepc = q.mepc /\ q2.mcause = q.mcause /\ q2.sepc = q.sepc /\ q2.scause = q.scause
      /\ q2.mstatus.prv = q.mstatus.prv1 /\ q2.mstatus.prv1 = q.mstatus.prv2 /\ q2.mstatus.ie1 = q.mstatus.ie2
  BY Sreturn DEF Same, HartFields
<1> HIDE DEF q2
<1>2. CASE f = <<>> \/ \E a : f = <<a>> /\ Level1(q, a)
  <2>1. (IF f = <<>> THEN f ELSE Tail(f)) = <<>>
    BY <1>2, TupleFacts
  <2> QED
    BY <2>1 DEF Stacked
<1>3. ASSUME NEW a, NEW b, f = <<a, b>>, Level1(q, a), Level2(q, a, b)
      PROVE  Stacked(q2, IF f = <<>> THEN f ELSE Tail(f))
  <2>1. (IF f = <<>> THEN f ELSE Tail(f)) = <<b>>
    BY <1>3, TupleFacts
  <2>2. Level1(q2, b)
    BY <1>1, <1>3 DEF Level1, Level2, Resumes
  <2> QED
    BY <2>1, <2>2 DEF Stacked
<1> QED
  BY <1>2, <1>3 DEF Stacked, q2

\* mrts moves the context on top from machine to supervisor mode.
LEMMA StackedMrts ==
  ASSUME NEW q, NEW f, IsHart(q), Stacked(q, f), q.mstatus.prv = "M"
  PROVE  Stacked(mrts(q), IF f = <<>> THEN f ELSE <<f[1]>> \o Below(Tail(f), "M"))
<1> DEFINE q2 == mrts(q)
           g2 == IF f = <<>> THEN f ELSE <<f[1]>> \o Below(Tail(f), "M")
<1>1. /\ q2.sepc = q.mepc /\ q2.scause = q.mcause /\ q2.mstatus.prv = "S"
      /\ q2.mstatus.prv1 = q.mstatus.prv1 /\ q2.mstatus.prv2 = q.mstatus.prv2
      /\ q2.mstatus.ie1 = q.mstatus.ie1 /\ q2.mstatus.ie2 = q.mstatus.ie2
  BY Redirect
<1>2. \A a : Level1(q, a) => Level1(q2, a)
  BY <1>1 DEF Level1, Resumes
<1> HIDE DEF q2
<1>3. CASE f = <<>>
  BY <1>3 DEF Stacked
<1>4. ASSUME NEW a, f = <<a>>, Level1(q, a)
      PROVE  Stacked(q2, g2)
  <2>1. g2 = <<a>>
    BY <1>4, TupleFacts DEF Below
  <2> QED
    BY <2>1, <1>2, <1>4 DEF Stacked
<1>5. ASSUME NEW a, NEW b, f = <<a, b>>, Level1(q, a), Level2(q, a, b)
      PROVE  Stacked(q2, g2)
  <2>1. DOMAIN b = FrameFields /\ q.mstatus.prv2 = b.prv /\ q.mstatus.ie2 = b.ie
    BY <1>5 DEF Level2
  <2>2. PICK c : /\ Below(<<b>>, "M") = <<c>> /\ DOMAIN c = FrameFields /\ c.prv = b.prv /\ c.ie = b.ie
                 /\ c.saved => "M" = "S" /\ c = b
    BY <2>1, BelowIs
  <2>3. g2 = <<a, c>>
    <3>1. f # <<>> /\ f[1] = a /\ Tail(f) = <<b>>
      BY <1>5, TupleFacts
    <3>2. g2 = <<a>> \o <<c>>
      BY <3>1, <2>2
    <3> QED
      BY <3>2, TupleFacts
  <2>4. Level2(q2, a, c)
    BY <1>1, <2>1, <2>2 DEF Level2
  <2> QED
    BY <2>3, <2>4, <1>2, <1>5 DEF Stacked
<1> QED
  BY <1>3, <1>4, <1>5 DEF Stacked, q2

\* Whatever software writes to the registers of the stack is what it means.
NewFrame(x, prv, ie, kept) == [x EXCEPT !.prv = prv, !.ie = ie, !.saved = IF kept THEN @ ELSE FALSE]
LEMMA NewFrameIs ==
  ASSUME NEW x, NEW prv, NEW ie, NEW kept, DOMAIN x = FrameFields
  PROVE  LET c == NewFrame(x, prv, ie, kept)
         IN  /\ DOMAIN c = FrameFields /\ c.prv = prv /\ c.ie = ie /\ c.pc = x.pc /\ c.cause = x.cause
             /\ c.saved => x.saved /\ kept
BY DEF NewFrame, FrameFields

Means(kept, q, q2) == kept \in BOOLEAN /\ (kept <=> Kept(q, q2))
Empty == <<>>
One(a) == <<a>>
Two(a, b) == <<a, b>>
LEMMA RewrittenIs ==
  ASSUME NEW q, NEW q2, NEW a, NEW b, NEW kept, Means(kept, q, q2)
  PROVE  /\ Rewritten(Empty, q, q2) = Empty
         /\ Rewritten(One(a), q, q2) = One(NewFrame(a, q2.mstatus.prv1, q2.mstatus.ie1, kept))
         /\ Rewritten(Two(a, b), q, q2) = Two(NewFrame(a, q2.mstatus.prv1, q2.mstatus.ie1, kept),
                                              NewFrame(b, q2.mstatus.prv2, q2.mstatus.ie2, kept))
<1> DEFINE R(f) == Rewritten(f, q, q2)
           A == NewFrame(a, q2.mstatus.prv1, q2.mstatus.ie1, kept)
           B == NewFrame(b, q2.mstatus.prv2, q2.mstatus.ie2, kept)
<1>1. ASSUME NEW f
      PROVE  R(f) = [k \in DOMAIN f |->
                       NewFrame(f[k], IF k = 1 THEN q2.mstatus.prv1 ELSE q2.mstatus.prv2,
                                IF k = 1 THEN q2.mstatus.ie1 ELSE q2.mstatus.ie2, kept)]
  BY DEF Rewritten, NewFrame, Means
<1> HIDE DEF R
<1>2. R(<<>>) = <<>>
  BY <1>1
<1>3. R(<<a>>) = <<A>>
  <2>1. DOMAIN <<a>> = 1 .. 1 /\ <<a>>[1] = a
    OBVIOUS
  <2>2. R(<<a>>) = [k \in 1 .. 1 |-> A]
    BY <2>1, <1>1
  <2> HIDE DEF A
  <2>3. [k \in 1 .. 1 |-> A] = <<A>>
    OBVIOUS
  <2> QED
    BY <2>2, <2>3
<1>4. R(<<a, b>>) = <<A, B>>
  <2>1. DOMAIN <<a, b>> = 1 .. 2 /\ <<a, b>>[1] = a /\ <<a, b>>[2] = b
    OBVIOUS
  <2>2. R(<<a, b>>) = [k \in 1 .. 2 |-> IF k = 1 THEN A ELSE B]
    BY <2>1, <1>1
  <2> HIDE DEF A, B
  <2>3. [k \in 1 .. 2 |-> IF k = 1 THEN A ELSE B] = <<A, B>>
    OBVIOUS
  <2> QED
    BY <2>2, <2>3
<1> QED
  BY <1>2, <1>3, <1>4 DEF R, Empty, One, Two

LEMMA StackedRewritten ==
  ASSUME NEW q, NEW q2, NEW f, Stacked(q, f)
  PROVE  Stacked(q2, Rewritten(f, q, q2))
<1> DEFINE m == q2.mstatus
<1>0. PICK kept : Means(kept, q, q2)
  <2>1. \E kept \in BOOLEAN : kept <=> Kept(q, q2)
    OBVIOUS
  <2> QED
    BY <2>1 DEF Means
<1>1. CASE f = <<>>
  <2>1. Rewritten(f, q, q2) = <<>>
    BY <1>0, <1>1, RewrittenIs DEF Empty
  <2> QED
    BY <2>1 DEF Stacked
<1>2. ASSUME NEW a, Level1(q, a)
      PROVE  Level1(q2, NewFrame(a, m.prv1, m.ie1, kept))
  <2> DEFINE c == NewFrame(a, m.prv1, m.ie1, kept)
  <2>1. DOMAIN a = FrameFields /\ (a.saved => Resumes(q, q.mstatus.prv, a))
    BY <1>2 DEF Level1
  <2>2. /\ DOMAIN c = FrameFields /\ c.prv = m.prv1 /\ c.ie = m.ie1 /\ c.pc = a.pc /\ c.cause = a.cause
        /\ c.saved => a.saved /\ kept
    BY <2>1, NewFrameIs
  <2> HIDE DEF c
  <2>3. kept /\ Resumes(q, q.mstatus.prv, a) => Resumes(q2, q2.mstatus.prv, c)
    BY <1>0, <2>2 DEF Means, Kept, Resumes
  <2> QED
    BY <2>1, <2>2, <2>3 DEF Level1, c
<1>3. ASSUME NEW a, NEW b, Level1(q, a), Level2(q, a, b)
      PROVE  Level2(q2, NewFrame(a, m.prv1, m.ie1, kept), NewFrame(b, m.prv2, m.ie2, kept))
  <2> DEFINE c == NewFrame(a, m.prv1, m.ie1, kept)
             d == NewFrame(b, m.prv2, m.ie2, kept)
  <2>1. DOMAIN b = FrameFields /\ (b.saved => Resumes(q, a.prv, b)) /\ DOMAIN a = FrameFields /\ a.prv = q.mstatus.prv1
    BY <1>3 DEF Level1, Level2
  <2>2. /\ DOMAIN d = FrameFields /\ d.prv = m.prv2 /\ d.ie = m.ie2 /\ d.pc = b.pc /\ d.cause = b.cause
        /\ d.saved => b.saved /\ kept
    BY <2>1, NewFrameIs
  <2>3. c.prv = m.prv1
    BY <2>1, NewFrameIs
  <2> HIDE DEF c, d
  <2>4. kept /\ Resumes(q, a.prv, b) => Resumes(q2, c.prv, d)
    BY <1>0, <2>1, <2>2, <2>3 DEF Means, Kept, Resumes
  <2> QED
    BY <2>1, <2>2, <2>4 DEF Level2, c, d
<1>4. CASE \E a : f = <<a>> /\ Level1(q, a)
  <2>1. PICK a : f = <<a>> /\ Level1(q, a)
    BY <1>4
  <2>2. Rewritten(One(a), q, q2) = One(NewFrame(a, m.prv1, m.ie1, kept))
    BY <1>0, RewrittenIs
  <2>3. Rewritten(f, q, q2) = <<NewFrame(a, m.prv1, m.ie1, kept)>>
    BY <2>1, <2>2 DEF One
  <2> QED
    BY <2>1, <2>3, <1>2 DEF Stacked
<1>5. CASE \E a, b : f = <<a, b>> /\ Level1(q, a) /\ Level2(q, a, b)
  <2>1. PICK a, b : f = <<a, b>> /\ Level1(q, a) /\ Level2(q, a, b)
    BY <1>5
  <2>2. Rewritten(Two(a, b), q, q2) = Two(NewFrame(a, m.prv1, m.ie1, kept), NewFrame(b, m.prv2, m.ie2, kept))
    BY <1>0, RewrittenIs
  <2>3. Rewritten(f, q, q2) = <<NewFrame(a, m.prv1, m.ie1, kept), NewFrame(b, m.prv2, m.ie2, kept)>>
    BY <2>1, <2>2 DEF Two
  <2> QED
    BY <2>1, <2>3, <1>2, <1>3 DEF Stacked
<1> QED
  BY <1>1, <1>4, <1>5 DEF Stacked

-----------------------------------------------------------------------------
(* Registers. *)
LEMMA OneField ==
  ASSUME NEW q, NEW q2, NEW f \in HartFields \ {"mstatus"}, NEW val, IsHart(q), q2 = [q EXCEPT ![f] = val]
  PROVE  IsHart(q2) /\ Same(q, q2, {f}) /\ q2[f] = val
<1>1. DOMAIN q2 = HartFields /\ q2[f] = val /\ \A x \in HartFields \ {f} : q2[x] = q[x]
  BY DEF IsHart
<1>2. q2.mstatus = q.mstatus
  BY <1>1 DEF HartFields
<1> QED
  BY <1>1, <1>2 DEF IsHart, Same

CsrFields == {"mstatus", "mip", "mie", "suinstret_delta", "sutime_delta", "mtimecmp", "tohost", "fromhost"} \cup Plain

NewDelta(q, val) == (val - q.minstret) % Wrap

\* What a write to a register changes, whatever the register and the value.
SetsCsr(q, q2, which, val) ==
  /\ IsHart(q2) /\ Same(q, q2, CsrFields)
  /\ q2.tohost = IF which = "mtohost" /\ q.tohost = 0 THEN val ELSE q.tohost
  /\ q2.fromhost = IF which = "mfromhost" THEN val ELSE q.fromhost
  /\ q2.suinstret_delta = IF which \in {"cyclew", "instretw"} THEN NewDelta(q, val) ELSE q.suinstret_delta
LEMMA SetCsr ==
  ASSUME NEW q, NEW which, NEW val, NEW time, IsHart(q), which = "mstatus" => DOMAIN val = StatusFields
  PROVE  SetsCsr(q, set_csr(q, which, val, time), which, val)
<1> DEFINE q2 == set_csr(q, which, val, time)
<1> HIDE DEF q2
<1> SUFFICES SetsCsr(q, q2, which, val)
  BY DEF q2
<1>1. ASSUME NEW f \in {"mip", "mie", "sutime_delta", "mtimecmp"} \cup Plain, NEW v, q2 = [q EXCEPT ![f] = v],
             which \notin {"mtohost", "mfromhost", "cyclew", "instretw"}
      PROVE  SetsCsr(q, q2, which, val)
  <2>1. f \in HartFields \ {"mstatus"} /\ f \in CsrFields /\ f \notin {"tohost", "fromhost", "suinstret_delta"}
    BY DEF HartFields, CsrFields, Plain
  <2>2. IsHart(q2) /\ Same(q, q2, {f})
    BY <1>1, <2>1, OneField
  <2>3. Same(q, q2, CsrFields)
    BY <2>1, <2>2 DEF Same
  <2>4. q2.tohost = q.tohost /\ q2.fromhost = q.fromhost /\ q2.suinstret_delta = q.suinstret_delta
    BY <2>1, <2>2 DEF Same, HartFields
  <2> QED
    BY <1>1, <2>2, <2>3, <2>4 DEF SetsCsr
<1>2. ASSUME NEW m, q2 = set_mstatus(q, m), DOMAIN m = StatusFields,
             which \notin {"mtohost", "mfromhost", "cyclew", "instretw"}
      PROVE  SetsCsr(q, q2, which, val)
  <2>2. IsHart(q2) /\ Same(q, q2, {"mstatus"})
    BY <1>2, SetStatus
  <2>3. Same(q, q2, CsrFields)
    BY <2>2 DEF Same, CsrFields
  <2>4. q2.tohost = q.tohost /\ q2.fromhost = q.fromhost /\ q2.suinstret_delta = q.suinstret_delta
    BY <2>2 DEF Same, HartFields
  <2> QED
    BY <1>2, <2>2, <2>3, <2>4 DEF SetsCsr
<1>3. CASE which = "mstatus"
  BY <1>2, <1>3 DEF q2, set_csr, Plain
<1>4. CASE which = "sstatus"
  <2> DEFINE m == [q.mstatus EXCEPT !.ie = val.ie, !.ie1 = val.pie, !.prv1 = IF val.ps THEN "S" ELSE "U",
                                    !.fs = val.fs, !.mprv = val.mprv]
  <2>1. DOMAIN m = StatusFields
    BY DEF IsHart
  <2>2. q2 = set_mstatus(q, m)
    BY <1>4 DEF q2, set_csr, Plain
  <2> HIDE DEF m
  <2> QED
    BY <1>2, <1>4, <2>1, <2>2
<1>5. CASE which \in {"mip", "mipi", "sip"}
  <2>1. \E v : q2 = [q EXCEPT !.mip = v]
    BY <1>5 DEF q2, set_csr, Plain
  <2> QED
    BY <1>1, <1>5, <2>1
<1>6. CASE which \in {"mie", "sie"}
  <2>1. \E v : q2 = [q EXCEPT !.mie = v]
    BY <1>6 DEF q2, set_csr, Plain
  <2> QED
    BY <1>1, <1>6, <2>1
<1>7. CASE which \in {"cyclew", "instretw"}
  <2> DEFINE v == NewDelta(q, val)
  <2>1. q2 = [q EXCEPT !.suinstret_delta = v]
    BY <1>7 DEF q2, set_csr, Plain, NewDelta
  <2> HIDE DEF v
  <2>0. "suinstret_delta" \in HartFields \ {"mstatus"}
    BY DEF HartFields
  <2>2. IsHart(q2) /\ Same(q, q2, {"suinstret_delta"}) /\ q2.suinstret_delta = v
    BY <2>0, <2>1, OneField
  <2>3. Same(q, q2, CsrFields) /\ q2.tohost = q.tohost /\ q2.fromhost = q.fromhost
    BY <2>2 DEF Same, HartFields, CsrFields
  <2> QED
    BY <1>7, <2>2, <2>3 DEF SetsCsr, v
<1>8. CASE which = "timew"
  <2>1. \E v : q2 = [q EXCEPT !.sutime_delta = v]
    BY <1>8 DEF q2, set_csr, Plain
  <2> QED
    BY <1>1, <1>8, <2>1
<1>9. CASE which = "mtimecmp"
  <2> DEFINE u == [q EXCEPT !.mip = @ \ {"MTIP"}]
  <2>1. q2 = [u EXCEPT !.mtimecmp = val]
    BY <1>9 DEF q2, set_csr, Plain, IsHart, HartFields
  <2>0. "mip" \in HartFields \ {"mstatus"}
    BY DEF HartFields
  <2>2. IsHart(u) /\ Same(q, u, {"mip"})
    BY <2>0, OneField DEF HartFields
  <2> HIDE DEF u
  <2>3. IsHart(q2) /\ Same(u, q2, {"mtimecmp"})
    BY <2>1, <2>2, OneField DEF HartFields
  <2>4. Same(q, q2, CsrFields) /\ q2.tohost = q.tohost /\ q2.fromhost = q.fromhost
        /\ q2.suinstret_delta = q.suinstret_delta
    BY <2>2, <2>3 DEF Same, HartFields, CsrFields
  <2> QED
    BY <1>9, <2>3, <2>4 DEF SetsCsr
<1>10. ASSUME q2 = q, which \notin {"mfromhost", "cyclew", "instretw"}, which = "mtohost" => q.tohost # 0
       PROVE  SetsCsr(q, q2, which, val)
  BY <1>10 DEF SetsCsr, Same, IsHart
<1>11. CASE which = "mtohost"
  <2>1. q2 = PostToHost(q, val)
    BY <1>11 DEF q2, set_csr, Plain
  <2>2. CASE q.tohost = 0
    <3>1. q2 = [q EXCEPT !.tohost = val]
      BY <2>1, <2>2 DEF PostToHost
    <3>2. IsHart(q2) /\ Same(q, q2, {"tohost"}) /\ q2.tohost = val
      BY <3>1, OneField DEF HartFields
    <3>3. Same(q, q2, CsrFields) /\ q2.fromhost = q.fromhost /\ q2.suinstret_delta = q.suinstret_delta
      BY <3>2 DEF Same, HartFields, CsrFields
    <3> QED
      BY <1>11, <2>2, <3>2, <3>3 DEF SetsCsr
  <2>3. CASE q.tohost # 0
    <3>1. q2 = q
      BY <2>1, <2>3 DEF PostToHost
    <3> QED
      BY <1>10, <1>11, <2>3, <3>1
  <2> QED
    BY <2>2, <2>3
<1>12. CASE which = "mfromhost"
  <2>1. q2 = [q EXCEPT !.fromhost = val]
    BY <1>12 DEF q2, set_csr, Plain
  <2>0. "fromhost" \in HartFields \ {"mstatus"}
    BY DEF HartFields
  <2>2. IsHart(q2) /\ Same(q, q2, {"fromhost"}) /\ q2.fromhost = val
    BY <2>0, <2>1, OneField
  <2>3. Same(q, q2, CsrFields) /\ q2.tohost = q.tohost /\ q2.suinstret_delta = q.suinstret_delta
    BY <2>2 DEF Same, HartFields, CsrFields
  <2> QED
    BY <1>12, <2>2, <2>3 DEF SetsCsr
<1>13. CASE which \in Plain
  <2>1. q2 = [q EXCEPT ![which] = val]
    BY <1>13 DEF q2, set_csr, Plain
  <2>2. which \notin {"mtohost", "mfromhost", "cyclew", "instretw"}
    BY <1>13 DEF Plain
  <2> QED
    BY <1>1, <1>13, <2>1, <2>2
<1>14. CASE which \notin {"mstatus", "sstatus", "mip", "mipi", "sip", "mie", "sie", "cyclew", "instretw", "timew",
                          "mtimecmp", "mtohost", "mfromhost"} \cup Plain
  <2>1. q2 = q
    BY <1>14 DEF q2, set_csr, Plain
  <2> QED
    BY <1>10, <1>14, <2>1
<1> QED
  BY <1>3, <1>4, <1>5, <1>6, <1>7, <1>8, <1>9, <1>11, <1>12, <1>13, <1>14

-----------------------------------------------------------------------------
(* The inductive invariant. *)
\* Of a hart and its ghost.
HartInv(q, h) ==
  /\ IsHart(q) /\ IsGhost(h)
  /\ q.tohost = h.outbox /\ q.fromhost = h.inbox
  /\ q.load_reservation \in {NoWord, h.clean}
  /\ Stacked(q, h.frames)
\* Of its counter, with k instructions retired but yet to be credited; a CSR
\* instruction that has serialized is still the next one, with none to credit,
\* unless an interrupt came in between.
CountInv(q, h, k) ==
  /\ q.minstret \in Int /\ q.suinstret_delta \in Int /\ h.count \in 0 .. Wrap - 1
  /\ h.exact => h.count = (q.minstret + k + q.suinstret_delta) % Wrap
  /\ q.serialized /\ ~h.late => k = 0 /\ h.again.op = "csr"
\* Of all of them, hart c being the one whose turn it is.
Harts(ss, gh, H) ==
  DOMAIN ss = H /\ DOMAIN gh = H /\ \A h \in H : HartInv(ss[h], gh[h])
Counts(ss, gh, H, c, k) == \A h \in H : CountInv(ss[h], gh[h], IF h = c THEN k ELSE 0)
Alone(ss, H, c) == \A h \in H : h # c => ss[h].load_reservation = NoWord
Idle(ss, H) == \A h \in H : ss[h].load_reservation = NoWord
\* Of the scheduler.
SchedInv ==
  /\ current_step \in 0 .. Interleave - 1 /\ left \in Nat /\ instret \in Nat /\ n \in Nat /\ instret <= n
  /\ phase \notin {"top", "loop", "exit"} => n = 0
  /\ phase \notin {"loop", "exit"} => instret = 0
  /\ mode \in {"tick", "prompt", "run_loop", "until"}
  /\ phase \in {"tick", "prompt", "run_loop", "until", "exit", "step", "top", "loop"}
  /\ phase \in {"step", "top", "loop"} /\ mode = "tick" => current_step = 0 /\ left = Interleave
  /\ phase = "tick" => mode = "tick" /\ (done \/ (current_step = 0 /\ Idle(state, procs)))
\* Of what is observed.
Observed(o) ==
  /\ o.what = "sc" => o.due
  /\ o.what \in {"instret", "tohost", "fromhost"} => o.got = o.due
IInv ==
  /\ program \in Programs /\ current_proc \in procs
  /\ Harts(state, ghost, procs)
  /\ Counts(state, ghost, procs, current_proc, instret)
  /\ Alone(state, procs, current_proc)
  /\ SchedInv
  /\ Observed(observed)

-----------------------------------------------------------------------------
(* Counting modulo Wrap. *)
\* v is q times W and r.
Divides(W, v, q, r) == q \in Int /\ r \in 0 .. W - 1 /\ v = W * q + r
IsSum(c, a, b) == c = a + b

LEMMA DivMod ==
  ASSUME NEW W \in Nat \ {0}, NEW a \in Int
  PROVE  Divides(W, a, a \div W, a % W)
BY DEF Divides

LEMMA AtLeast ==
  ASSUME NEW W \in Nat \ {0}, NEW x \in Int, x >= 1
  PROVE  W * x >= W
OBVIOUS

LEMMA UniqueRest ==
  ASSUME NEW W \in Nat \ {0}, NEW k \in Int, NEW r \in 0 .. W - 1, NEW t \in 0 .. W - 1, r = W * k + t
  PROVE  r = t
<1>1. CASE k >= 1
  BY <1>1, AtLeast
<1>2. CASE k <= -1
  <2>1. W * (-k) >= W
    BY <1>2, AtLeast
  <2>2. W * (-k) = -(W * k)
    OBVIOUS
  <2> QED
    BY <2>1, <2>2
<1>3. CASE k = 0
  BY <1>3
<1> QED
  BY <1>1, <1>2, <1>3

LEMMA SameRest ==
  ASSUME NEW W \in Nat \ {0}, NEW p, NEW q, NEW u, NEW r, NEW x, NEW y,
         NEW a \in Int, NEW b \in Int, NEW c \in Int, NEW d \in Int,
         Divides(W, a, p, r), Divides(W, c, q, x), Divides(W, d, u, y), IsSum(c, r, b), IsSum(d, a, b)
  PROVE  x = y
<1>1. p \in Int /\ q \in Int /\ u \in Int /\ r \in Int /\ x \in 0 .. W - 1 /\ y \in 0 .. W - 1
  BY DEF Divides
<1>2. y = W * (p + q - u) + x
  <2>1. W * (p + q - u) = W * p + W * q - W * u
    BY <1>1
  <2>2. W * p \in Int /\ W * q \in Int /\ W * u \in Int
    BY <1>1
  <2> QED
    BY <2>1, <2>2, <1>1 DEF Divides, IsSum
<1>3. p + q - u \in Int
  BY <1>1
<1> QED
  BY <1>1, <1>2, <1>3, UniqueRest

LEMMA ModAdd ==
  ASSUME NEW W \in Nat \ {0}, NEW a \in Int, NEW b \in Int
  PROVE  ((a % W) + b) % W = (a + b) % W
<1> DEFINE r == a % W
<1>1. r \in Int /\ Divides(W, a, a \div W, r)
  BY DivMod DEF Divides
<1> HIDE DEF r
<1> DEFINE c == r + b
           d == a + b
<1>2. c \in Int /\ d \in Int /\ IsSum(c, r, b) /\ IsSum(d, a, b)
  BY <1>1 DEF IsSum
<1> HIDE DEF c, d
<1>3. Divides(W, c, c \div W, c % W) /\ Divides(W, d, d \div W, d % W)
  BY <1>2, DivMod
<1>4. c % W = d % W
  BY <1>1, <1>2, <1>3, SameRest
<1> QED
  BY <1>4 DEF r, c, d

LEMMA ModAddW ==
  ASSUME NEW a \in Int, NEW b \in Int, NEW c, NEW d \in Int, c = a % Wrap, IsSum(d, a, b)
  PROVE  (c + b) % Wrap = d % Wrap
<1>1. Wrap \in Nat \ {0}
  BY MachineAssumption
<1> QED
  BY <1>1, ModAdd DEF IsSum

\* What counting an instruction, crediting the loop's and writing the counter rely on.
LEMMA Counting ==
  ASSUME NEW m \in Int, NEW k \in Int, NEW d \in Int
  PROVE  /\ (((m + k + d) % Wrap) + 1) % Wrap = (m + (k + 1) + d) % Wrap
         /\ (((m + k) % Wrap) + 0 + d) % Wrap = (m + k + d) % Wrap
         /\ (m + k) % Wrap \in 0 .. Wrap - 1
<1>1. Wrap \in Nat \ {0}
  BY MachineAssumption
<1>2. \A a \in Int : a % Wrap \in 0 .. Wrap - 1
  BY <1>1
<1>3. (((m + k + d) % Wrap) + 1) % Wrap = (m + (k + 1) + d) % Wrap
  <2> DEFINE a == m + k + d
             c == a % Wrap
             e == m + (k + 1) + d
  <2>1. a \in Int /\ e \in Int /\ IsSum(e, a, 1)
    BY DEF IsSum
  <2> HIDE DEF a, e
  <2>2. (c + 1) % Wrap = e % Wrap
    BY <2>1, ModAddW
  <2> QED
    BY <2>2 DEF a, e
<1>4. (((m + k) % Wrap) + 0 + d) % Wrap = (m + k + d) % Wrap
  <2> DEFINE a == m + k
             c == a % Wrap
             e == m + k + d
  <2>1. a \in Int /\ e \in Int /\ IsSum(e, a, d)
    BY DEF IsSum
  <2> HIDE DEF a, e
  <2>2. (c + d) % Wrap = e % Wrap
    BY <2>1, ModAddW
  <2>3. c + 0 + d = c + d
    BY <1>2, <2>1
  <2> QED
    BY <2>2, <2>3 DEF a, e
<1>6. (m + k) % Wrap \in 0 .. Wrap - 1
  BY <1>2
<1> QED
  BY <1>3, <1>4, <1>6

IsDelta(d, val, m) == d = (val - m) % Wrap
LEMMA CountingWrite ==
  ASSUME NEW m \in Int, NEW val \in 0 .. Wrap - 1, NEW d, IsDelta(d, val, m)
  PROVE  (m + 0 + d) % Wrap = val /\ d \in Int
<1>1. Wrap \in Nat \ {0}
  BY MachineAssumption
<1>2. \A a \in Int : a % Wrap \in 0 .. Wrap - 1
  BY <1>1
<1> DEFINE a == val - m
<1>3. a \in Int /\ val \in Int /\ IsSum(val, a, m) /\ d = a % Wrap
  BY <1>1 DEF IsSum, IsDelta
<1> HIDE DEF a
<1>4. d \in Int
  BY <1>2, <1>3
<1>5. (d + m) % Wrap = val % Wrap
  BY <1>3, ModAddW
<1>6. m + 0 + d = d + m
  BY <1>4
<1>7. val % Wrap = val
  BY <1>1
<1> QED
  BY <1>4, <1>5, <1>6, <1>7

-----------------------------------------------------------------------------
(* One hart, one change at a time. *)
Agree(q, q2) ==
  /\ q2.mstatus = q.mstatus /\ q2.mepc = q.mepc /\ q2.mcause = q.mcause /\ q2.sepc = q.sepc /\ q2.scause = q.scause
  /\ q2.tohost = q.tohost /\ q2.fromhost = q.fromhost /\ q2.load_reservation = q.load_reservation
AgreeGhost(h, h2) ==
  IsGhost(h2) /\ h2.frames = h.frames /\ h2.outbox = h.outbox /\ h2.inbox = h.inbox /\ h2.clean = h.clean
LEMMA HartSame ==
  ASSUME NEW q, NEW h, NEW q2, NEW h2, HartInv(q, h), IsHart(q2), Agree(q, q2), AgreeGhost(h, h2)
  PROVE  HartInv(q2, h2)
<1>1. Stacked(q2, h.frames)
  BY StackedSame DEF HartInv, Agree
<1> QED
  BY <1>1 DEF HartInv, Agree, AgreeGhost

AgreeCount(q, q2) ==
  /\ q2.minstret = q.minstret /\ q2.suinstret_delta = q.suinstret_delta
  /\ q2.serialized = q.serialized \/ q2.serialized = FALSE
LEMMA CountSame ==
  ASSUME NEW q, NEW h, NEW q2, NEW h2, NEW k, CountInv(q, h, k), AgreeCount(q, q2),
         h2.count = h.count, h2.exact = h.exact, h2.late = h.late, h2.again = h.again
  PROVE  CountInv(q2, h2, k)
BY DEF CountInv, AgreeCount

\* A field nothing is said about.
Unspoken == {"run", "pc", "mbadaddr", "mscratch", "sbadaddr", "sscratch", "stvec", "sptbr", "mip", "mie", "mtimecmp",
             "sutime_delta"}
LEMMA UnspokenField ==
  ASSUME NEW q, NEW h, NEW k, NEW f \in Unspoken, NEW val, NEW q2, q2 = [q EXCEPT ![f] = val], HartInv(q, h), CountInv(q, h, k)
  PROVE  HartInv(q2, h) /\ CountInv(q2, h, k) /\ q2.load_reservation = q.load_reservation
<1>1. f \in HartFields \ {"mstatus"}
  BY DEF Unspoken, HartFields
<1>2. IsHart(q) /\ IsGhost(h)
  BY DEF HartInv
<1>3. IsHart(q2) /\ Same(q, q2, {f})
  BY <1>1, <1>2, OneField
<1>4. Agree(q, q2) /\ AgreeCount(q, q2) /\ q2.load_reservation = q.load_reservation
  BY <1>3 DEF Same, Agree, AgreeCount, HartFields, Unspoken
<1>5. AgreeGhost(h, h)
  BY <1>2 DEF AgreeGhost
<1>6. HartInv(q2, h)
  BY <1>3, <1>4, <1>5, HartSame
<1>7. CountInv(q2, h, k)
  BY <1>4, CountSame
<1> QED
  BY <1>4, <1>6, <1>7

Unprepared(q, h) == ~(q.serialized /\ ~h.late)
LEMMA WrapIs == 0 \in 0 .. Wrap - 1 /\ \A a \in Int : a % Wrap \in 0 .. Wrap - 1 /\ a % Wrap \in Int
<1>1. Wrap \in Nat \ {0}
  BY MachineAssumption
<1> QED
  BY <1>1

LEMMA CountedOk ==
  ASSUME NEW q, NEW h, NEW k \in Nat, HartInv(q, h), CountInv(q, h, k), Unprepared(q, h)
  PROVE  HartInv(q, Counted(h)) /\ CountInv(q, Counted(h), k + 1)
<1> DEFINE h2 == Counted(h)
<1>1. DOMAIN h = GhostFields /\ IsHart(q) /\ h.count \in Int
  BY DEF HartInv, CountInv, IsGhost
<1>2. /\ DOMAIN h2 = GhostFields /\ h2.count = (h.count + 1) % Wrap
      /\ \A f \in GhostFields \ {"count"} : h2[f] = h[f]
  BY <1>1 DEF Counted, GhostFields
<1> HIDE DEF h2
<1>3. Agree(q, q) /\ AgreeGhost(h, h2)
  BY <1>2 DEF Agree, AgreeGhost, HartInv, IsGhost, GhostFields
<1>4. HartInv(q, h2)
  BY <1>1, <1>3, HartSame
<1>5. h2.exact = h.exact /\ h2.late = h.late
  BY <1>2 DEF GhostFields
<1>6. h2.count \in 0 .. Wrap - 1
  <2>1. h.count + 1 \in Int
    BY <1>1
  <2> QED
    BY <2>1, <1>2, WrapIs
<1>7. q.minstret \in Int /\ q.suinstret_delta \in Int
  BY DEF CountInv
<1>8. (((q.minstret + k + q.suinstret_delta) % Wrap) + 1) % Wrap = (q.minstret + (k + 1) + q.suinstret_delta) % Wrap
  <2>1. k \in Int
    OBVIOUS
  <2> QED
    BY <2>1, <1>7, Counting
<1>9. h2.exact => h2.count = (q.minstret + (k + 1) + q.suinstret_delta) % Wrap
  BY <1>2, <1>5, <1>8 DEF CountInv
<1>10. CountInv(q, h2, k + 1)
  BY <1>5, <1>6, <1>7, <1>9 DEF CountInv, Unprepared
<1> QED
  BY <1>4, <1>10 DEF h2

LEMMA CreditOk ==
  ASSUME NEW q, NEW h, NEW k \in Nat, HartInv(q, h), CountInv(q, h, k),
         NEW q2, q2 = [q EXCEPT !.minstret = (@ + k) % Wrap]
  PROVE  HartInv(q2, h) /\ CountInv(q2, h, 0) /\ q2.load_reservation = q.load_reservation
<1>1. IsHart(q) /\ IsGhost(h) /\ "minstret" \in HartFields \ {"mstatus"}
  BY DEF HartInv, HartFields
<1>2. IsHart(q2) /\ Same(q, q2, {"minstret"}) /\ q2.minstret = (q.minstret + k) % Wrap
  <2> DEFINE v == (q.minstret + k) % Wrap
  <2>1. q2 = [q EXCEPT !["minstret"] = v]
    OBVIOUS
  <2> HIDE DEF v
  <2>2. IsHart(q2) /\ Same(q, q2, {"minstret"}) /\ q2.minstret = v
    BY <1>1, <2>1, OneField
  <2> QED
    BY <2>2 DEF v
<1>3. /\ Agree(q, q2) /\ AgreeGhost(h, h) /\ q2.load_reservation = q.load_reservation
      /\ q2.suinstret_delta = q.suinstret_delta /\ q2.serialized = q.serialized
  BY <1>1, <1>2 DEF Same, Agree, AgreeGhost, HartFields
<1>4. HartInv(q2, h)
  BY <1>2, <1>3, HartSame
<1>5. q.minstret \in Int /\ q.suinstret_delta \in Int /\ 0 \in 0 .. Wrap - 1
  BY WrapIs DEF CountInv
<1>6. /\ (q.minstret + k) % Wrap \in 0 .. Wrap - 1
      /\ (((q.minstret + k) % Wrap) + 0 + q.suinstret_delta) % Wrap = (q.minstret + k + q.suinstret_delta) % Wrap
  <2>1. k \in Int
    OBVIOUS
  <2> QED
    BY <1>5, <2>1, Counting
<1>7. q2.minstret \in Int
  BY <1>2, <1>6
<1>8. h.exact => h.count = (q2.minstret + 0 + q2.suinstret_delta) % Wrap
  BY <1>2, <1>3, <1>6 DEF CountInv
<1>9. CountInv(q2, h, 0)
  BY <1>3, <1>5, <1>7, <1>8 DEF CountInv
<1> QED
  BY <1>3, <1>4, <1>9

LEMMA TrapOk ==
  ASSUME NEW q, NEW h, NEW t, NEW k, HartInv(q, h), CountInv(q, h, k)
  PROVE  LET q2 == take_trap(q, t, q.pc)
             h2 == [h EXCEPT !.frames = Push(q, t.cause, @)]
         IN  HartInv(q2, h2) /\ CountInv(q2, h2, k) /\ q2.load_reservation = NoWord /\ q2.serialized = q.serialized
<1> DEFINE q2 == take_trap(q, t, q.pc)
           h2 == [h EXCEPT !.frames = Push(q, t.cause, @)]
<1>1. IsHart(q) /\ DOMAIN h = GhostFields /\ Stacked(q, h.frames)
  BY DEF HartInv, IsGhost
<1>2. /\ IsHart(q2) /\ Same(q, q2, {"mstatus", "load_reservation", "pc", "mcause", "mepc", "mbadaddr"})
      /\ q2.load_reservation = NoWord
  BY <1>1, TakeTrap
<1>3. Stacked(q2, Push(q, t.cause, h.frames))
  BY <1>1, StackedTrap
<1>4. DOMAIN h2 = GhostFields /\ h2.frames = Push(q, t.cause, h.frames) /\ \A f \in GhostFields \ {"frames"} : h2[f] = h[f]
  BY <1>1 DEF GhostFields
<1> HIDE DEF q2, h2
<1>5. /\ q2.tohost = q.tohost /\ q2.fromhost = q.fromhost
      /\ AgreeCount(q, q2) /\ q2.serialized = q.serialized
  BY <1>2 DEF Same, HartFields, AgreeCount
<1>6. /\ h2.outbox = h.outbox /\ h2.inbox = h.inbox /\ h2.count = h.count /\ h2.exact = h.exact
      /\ h2.late = h.late /\ h2.again = h.again
  BY <1>4 DEF GhostFields
<1>7. HartInv(q2, h2)
  BY <1>2, <1>3, <1>4, <1>5, <1>6 DEF HartInv, IsGhost
<1>8. CountInv(q2, h2, k)
  BY <1>5, <1>6, CountSame
<1> QED
  BY <1>2, <1>5, <1>7, <1>8 DEF q2, h2

LEMMA DeserializedOk ==
  ASSUME NEW q, NEW h, NEW k, HartInv(q, h), CountInv(q, h, k),
         NEW q2, q2 = [q EXCEPT !.serialized = FALSE]
  PROVE  HartInv(q2, h) /\ CountInv(q2, h, k) /\ q2.serialized = FALSE /\ q2.load_reservation = q.load_reservation
<1>1. IsHart(q) /\ IsGhost(h) /\ "serialized" \in HartFields \ {"mstatus"}
  BY DEF HartInv, HartFields
<1>2. IsHart(q2) /\ Same(q, q2, {"serialized"}) /\ q2.serialized = FALSE
  BY <1>1, OneField
<1>3. Agree(q, q2) /\ AgreeCount(q, q2) /\ AgreeGhost(h, h) /\ q2.load_reservation = q.load_reservation
  BY <1>1, <1>2 DEF Same, Agree, AgreeCount, AgreeGhost, HartFields
<1>4. HartInv(q2, h)
  BY <1>2, <1>3, HartSame
<1>5. CountInv(q2, h, k)
  BY <1>3, CountSame
<1> QED
  BY <1>2, <1>3, <1>4, <1>5

\* What is noted of the next instruction matters only to a hart that has serialized.
LEMMA NotedOk ==
  ASSUME NEW q, NEW h, NEW k, NEW late, NEW again, HartInv(q, h), CountInv(q, h, k),
         NEW h2, h2 = [h EXCEPT !.late = late, !.again = again],
         q.serialized /\ ~late => FALSE, Refetched(again)
  PROVE  HartInv(q, h2) /\ CountInv(q, h2, k)
<1>1. IsHart(q) /\ DOMAIN h = GhostFields
  BY DEF HartInv, IsGhost
<1>2. /\ DOMAIN h2 = GhostFields /\ h2.late = late /\ h2.again = again
      /\ \A f \in GhostFields \ {"late", "again"} : h2[f] = h[f]
  BY <1>1 DEF GhostFields
<1>3. Agree(q, q) /\ AgreeGhost(h, h2) /\ h2.count = h.count /\ h2.exact = h.exact
  BY <1>2 DEF Agree, AgreeGhost, IsGhost, GhostFields
<1>4. HartInv(q, h2)
  BY <1>1, <1>3, HartSame
<1>5. CountInv(q, h2, k)
  BY <1>2, <1>3 DEF CountInv
<1> QED
  BY <1>4, <1>5

\* The contexts and the registers that hold them change together.
LEMMA FramesOk ==
  ASSUME NEW q, NEW h, NEW k, HartInv(q, h), CountInv(q, h, k), NEW f, NEW q2, NEW h2,
         h2 = [h EXCEPT !.frames = f], IsHart(q2), Stacked(q2, f), q2.tohost = q.tohost, q2.fromhost = q.fromhost,
         q2.load_reservation = q.load_reservation, AgreeCount(q, q2)
  PROVE  HartInv(q2, h2) /\ CountInv(q2, h2, k)
<1>1. DOMAIN h = GhostFields
  BY DEF HartInv, IsGhost
<1>2. DOMAIN h2 = GhostFields /\ h2.frames = f /\ \A x \in GhostFields \ {"frames"} : h2[x] = h[x]
  BY <1>1 DEF GhostFields
<1>3. /\ h2.outbox = h.outbox /\ h2.inbox = h.inbox /\ h2.clean = h.clean /\ h2.count = h.count
      /\ h2.exact = h.exact /\ h2.late = h.late /\ h2.again = h.again
  BY <1>2 DEF GhostFields
<1>4. HartInv(q2, h2)
  BY <1>2, <1>3 DEF HartInv, IsGhost
<1>5. CountInv(q2, h2, k)
  BY <1>3, CountSame
<1> QED
  BY <1>4, <1>5

LEMMA SretOk ==
  ASSUME NEW q, NEW h, NEW k, HartInv(q, h), CountInv(q, h, k)
  PROVE  LET q2 == sret(q)
             h2 == [h EXCEPT !.frames = IF @ = <<>> THEN @ ELSE Tail(@)]
         IN  HartInv(q2, h2) /\ CountInv(q2, h2, k) /\ q2.serialized = q.serialized
<1> DEFINE q2 == sret(q)
           f == IF h.frames = <<>> THEN h.frames ELSE Tail(h.frames)
           h2 == [h EXCEPT !.frames = IF @ = <<>> THEN @ ELSE Tail(@)]
<1>1. IsHart(q) /\ Stacked(q, h.frames)
  BY DEF HartInv
<1>2. IsHart(q2) /\ Same(q, q2, {"mstatus", "pc"})
  BY <1>1, Sreturn
<1>3. Stacked(q2, f)
  BY <1>1, StackedSret
<1>4. h2 = [h EXCEPT !.frames = f]
  OBVIOUS
<1> HIDE DEF q2, h2, f
<1>5. /\ q2.tohost = q.tohost /\ q2.fromhost = q.fromhost /\ q2.load_reservation = q.load_reservation
      /\ AgreeCount(q, q2) /\ q2.serialized = q.serialized
  BY <1>2 DEF Same, HartFields, AgreeCount
<1>6. HartInv(q2, h2) /\ CountInv(q2, h2, k)
  BY <1>2, <1>3, <1>4, <1>5, FramesOk
<1> QED
  BY <1>5, <1>6 DEF q2, h2

LEMMA MrtsOk ==
  ASSUME NEW q, NEW h, NEW k, HartInv(q, h), CountInv(q, h, k), q.mstatus.prv = "M"
  PROVE  LET q2 == mrts(q)
             h2 == [h EXCEPT !.frames = IF @ = <<>> THEN @ ELSE <<@[1]>> \o Below(Tail(@), "M")]
         IN  HartInv(q2, h2) /\ CountInv(q2, h2, k) /\ q2.serialized = q.serialized
<1> DEFINE q2 == mrts(q)
           f == IF h.frames = <<>> THEN h.frames ELSE <<h.frames[1]>> \o Below(Tail(h.frames), "M")
           h2 == [h EXCEPT !.frames = IF @ = <<>> THEN @ ELSE <<@[1]>> \o Below(Tail(@), "M")]
<1>1. IsHart(q) /\ Stacked(q, h.frames)
  BY DEF HartInv
<1>2. IsHart(q2) /\ Same(q, q2, {"mstatus", "pc", "sbadaddr", "scause", "sepc"})
  BY <1>1, Redirect
<1>3. Stacked(q2, f)
  BY <1>1, StackedMrts
<1>4. h2 = [h EXCEPT !.frames = f]
  OBVIOUS
<1> HIDE DEF q2, h2, f
<1>5. /\ q2.tohost = q.tohost /\ q2.fromhost = q.fromhost /\ q2.load_reservation = q.load_reservation
      /\ AgreeCount(q, q2) /\ q2.serialized = q.serialized
  BY <1>2 DEF Same, HartFields, AgreeCount
<1>6. HartInv(q2, h2) /\ CountInv(q2, h2, k)
  BY <1>2, <1>3, <1>4, <1>5, FramesOk
<1> QED
  BY <1>5, <1>6 DEF q2, h2

\* A reservation and the word it is for, or none.
LEMMA ReservedOk ==
  ASSUME NEW q, NEW h, NEW k, NEW word, NEW clean, HartInv(q, h), CountInv(q, h, k),
         NEW q2, NEW h2, q2 = [q EXCEPT !.load_reservation = word], h2 = [h EXCEPT !.clean = clean],
         word \in {NoWord, clean}
  PROVE  HartInv(q2, h2) /\ CountInv(q2, h2, k) /\ q2.serialized = q.serialized /\ q2.load_reservation = word
<1>1. IsHart(q) /\ DOMAIN h = GhostFields /\ "load_reservation" \in HartFields \ {"mstatus"}
  BY DEF HartInv, IsGhost, HartFields
<1>2. IsHart(q2) /\ Same(q, q2, {"load_reservation"}) /\ q2.load_reservation = word
  BY <1>1, OneField
<1>3. DOMAIN h2 = GhostFields /\ h2.clean = clean /\ \A x \in GhostFields \ {"clean"} : h2[x] = h[x]
  BY <1>1 DEF GhostFields
<1>4. /\ q2.mstatus = q.mstatus /\ q2.mepc = q.mepc /\ q2.mcause = q.mcause /\ q2.sepc = q.sepc /\ q2.scause = q.scause
      /\ q2.tohost = q.tohost /\ q2.fromhost = q.fromhost /\ AgreeCount(q, q2) /\ q2.serialized = q.serialized
  BY <1>2 DEF Same, HartFields, AgreeCount
<1>5. /\ h2.outbox = h.outbox /\ h2.inbox = h.inbox /\ h2.frames = h.frames /\ h2.count = h.count
      /\ h2.exact = h.exact /\ h2.late = h.late /\ h2.again = h.again
  BY <1>3 DEF GhostFields
<1>6. Stacked(q2, h2.frames)
  BY <1>4, <1>5, StackedSame DEF HartInv
<1>7. HartInv(q2, h2)
  BY <1>2, <1>3, <1>4, <1>5, <1>6 DEF HartInv, IsGhost
<1>8. CountInv(q2, h2, k)
  BY <1>4, <1>5, CountSame
<1> QED
  BY <1>2, <1>4, <1>7, <1>8

LEMMA CountingDelta ==
  ASSUME NEW q, NEW val \in 0 .. Wrap - 1, q.minstret \in Int
  PROVE  NewDelta(q, val) \in Int /\ (q.minstret + 0 + NewDelta(q, val)) % Wrap = val
<1> DEFINE m == q.minstret
           d == NewDelta(q, val)
<1>1. IsDelta(d, val, m) /\ m \in Int
  BY DEF NewDelta, IsDelta
<1> HIDE DEF m, d
<1>2. d \in Int /\ (m + 0 + d) % Wrap = val
  BY <1>1, CountingWrite
<1> QED
  BY <1>2 DEF m, d

\* A write to a register, and what it means for the ghost.
LEMMA WroteOk ==
  ASSUME NEW q, NEW h, NEW k \in Nat, NEW which, NEW val, NEW time, NEW exact, HartInv(q, h), CountInv(q, h, k),
         which = "mstatus" => DOMAIN val = StatusFields,
         which \in {"cyclew", "instretw"} => val \in 0 .. Wrap - 1 /\ (exact => k = 0)
  PROVE  LET q2 == set_csr(q, which, val, time)
             h2 == Wrote(h, q, q2, which, val, exact)
         IN  /\ HartInv(q2, h2) /\ CountInv(q2, h2, k)
             /\ q2.serialized = q.serialized /\ q2.load_reservation = q.load_reservation
             /\ h2.late = h.late /\ h2.again = h.again
<1> DEFINE q2 == set_csr(q, which, val, time)
           h2 == Wrote(h, q, q2, which, val, exact)
           written == which \in {"cyclew", "instretw"}
<1>1. IsHart(q) /\ DOMAIN h = GhostFields /\ Stacked(q, h.frames) /\ q.tohost = h.outbox /\ q.fromhost = h.inbox
      /\ q.load_reservation \in {NoWord, h.clean}
  BY DEF HartInv, IsGhost
<1>2. SetsCsr(q, q2, which, val)
  BY <1>1, SetCsr
<1>3. Stacked(q2, Rewritten(h.frames, q, q2))
  BY <1>1, StackedRewritten
<1> HIDE DEF q2
<1>4. /\ DOMAIN h2 = GhostFields /\ h2.frames = Rewritten(h.frames, q, q2)
      /\ h2.exact = (IF written THEN exact ELSE h.exact) /\ h2.count = (IF written THEN val ELSE h.count)
      /\ h2.inbox = (IF which = "mfromhost" THEN val ELSE h.inbox)
      /\ h2.outbox = (IF which = "mtohost" /\ h.outbox = 0 THEN val ELSE h.outbox)
      /\ h2.late = h.late /\ h2.again = h.again /\ h2.clean = h.clean
  BY <1>1 DEF Wrote, GhostFields
<1>5. /\ IsHart(q2) /\ q2.minstret = q.minstret /\ q2.serialized = q.serialized /\ q2.load_reservation = q.load_reservation
      /\ q2.tohost = (IF which = "mtohost" /\ q.tohost = 0 THEN val ELSE q.tohost)
      /\ q2.fromhost = (IF which = "mfromhost" THEN val ELSE q.fromhost)
      /\ q2.suinstret_delta = (IF written THEN NewDelta(q, val) ELSE q.suinstret_delta)
  BY <1>2 DEF SetsCsr, Same, CsrFields, Plain, HartFields
<1> HIDE DEF h2
<1>6. HartInv(q2, h2)
  BY <1>1, <1>3, <1>4, <1>5 DEF HartInv, IsGhost
<1>7. CountInv(q2, h2, k)
  <2>1. CASE ~written
    <3>1. /\ AgreeCount(q, q2) /\ h2.count = h.count /\ h2.exact = h.exact
      BY <2>1, <1>4, <1>5 DEF AgreeCount
    <3> QED
      BY <3>1, <1>4, CountSame
  <2>2. CASE written
    <3>1. /\ q2.minstret = q.minstret /\ q2.suinstret_delta = NewDelta(q, val) /\ h2.count = val /\ h2.exact = exact
          /\ q.minstret \in Int /\ val \in 0 .. Wrap - 1 /\ (exact => k = 0)
      BY <2>2, <1>4, <1>5 DEF CountInv
    <3>3. NewDelta(q, val) \in Int /\ (q.minstret + 0 + NewDelta(q, val)) % Wrap = val
      BY <3>1, CountingDelta
    <3>4. exact => val = (q.minstret + k + NewDelta(q, val)) % Wrap
      BY <3>1, <3>3
    <3>5. q2.serialized /\ ~h2.late => k = 0 /\ h2.again.op = "csr"
      BY <1>4, <1>5 DEF CountInv
    <3> QED
      BY <3>1, <3>3, <3>4, <3>5 DEF CountInv
  <2> HIDE DEF written
  <2> QED
    BY <2>1, <2>2
<1> QED
  BY <1>4, <1>5, <1>6, <1>7 DEF q2, h2

-----------------------------------------------------------------------------
(* The host. *)
LEMMA LostOk ==
  ASSUME NEW q, NEW h, NEW k, HartInv(q, h), CountInv(q, h, k), q.load_reservation = NoWord,
         NEW h2, h2 = [h EXCEPT !.clean = NoWord]
  PROVE  HartInv(q, h2) /\ CountInv(q, h2, k)
<1>1. DOMAIN h = GhostFields
  BY DEF HartInv, IsGhost
<1>2. DOMAIN h2 = GhostFields /\ \A x \in GhostFields \ {"clean"} : h2[x] = h[x]
  BY <1>1 DEF GhostFields
<1>3. /\ h2.outbox = h.outbox /\ h2.inbox = h.inbox /\ h2.frames = h.frames /\ h2.count = h.count
      /\ h2.exact = h.exact /\ h2.late = h.late /\ h2.again = h.again
  BY <1>2 DEF GhostFields
<1>4. HartInv(q, h2)
  BY <1>2, <1>3 DEF HartInv, IsGhost
<1>5. CountInv(q, h2, k)
  BY <1>3 DEF CountInv
<1> QED
  BY <1>4, <1>5

\* A mailbox gets the message the ghost does.
LEMMA TohostOk ==
  ASSUME NEW q, NEW h, NEW k, NEW val, HartInv(q, h), CountInv(q, h, k),
         NEW q2, NEW h2, q2 = [q EXCEPT !.tohost = val], h2 = [h EXCEPT !.outbox = val]
  PROVE  HartInv(q2, h2) /\ CountInv(q2, h2, k) /\ q2.load_reservation = q.load_reservation
<1>1. IsHart(q) /\ DOMAIN h = GhostFields /\ "tohost" \in HartFields \ {"mstatus"}
  BY DEF HartInv, IsGhost, HartFields
<1>2. IsHart(q2) /\ Same(q, q2, {"tohost"}) /\ q2.tohost = val
  BY <1>1, OneField
<1>3. DOMAIN h2 = GhostFields /\ h2.outbox = val /\ \A x \in GhostFields \ {"outbox"} : h2[x] = h[x]
  BY <1>1 DEF GhostFields
<1>4. /\ q2.mstatus = q.mstatus /\ q2.mepc = q.mepc /\ q2.mcause = q.mcause /\ q2.sepc = q.sepc /\ q2.scause = q.scause
      /\ q2.load_reservation = q.load_reservation /\ q2.fromhost = q.fromhost /\ AgreeCount(q, q2)
  BY <1>2 DEF Same, HartFields, AgreeCount
<1>5. /\ h2.clean = h.clean /\ h2.inbox = h.inbox /\ h2.frames = h.frames /\ h2.count = h.count
      /\ h2.exact = h.exact /\ h2.late = h.late /\ h2.again = h.again
  BY <1>3 DEF GhostFields
<1>6. Stacked(q2, h2.frames)
  BY <1>4, <1>5, StackedSame DEF HartInv
<1>7. HartInv(q2, h2)
  BY <1>2, <1>3, <1>4, <1>5, <1>6 DEF HartInv, IsGhost
<1>8. CountInv(q2, h2, k)
  BY <1>4, <1>5, CountSame
<1> QED
  BY <1>4, <1>7, <1>8

LEMMA FromhostOk ==
  ASSUME NEW q, NEW h, NEW k, NEW val, HartInv(q, h), CountInv(q, h, k),
         NEW q2, NEW h2, q2 = [q EXCEPT !.fromhost = val], h2 = [h EXCEPT !.inbox = val]
  PROVE  HartInv(q2, h2) /\ CountInv(q2, h2, k) /\ q2.load_reservation = q.load_reservation
<1>1. IsHart(q) /\ DOMAIN h = GhostFields /\ "fromhost" \in HartFields \ {"mstatus"}
  BY DEF HartInv, IsGhost, HartFields
<1>2. IsHart(q2) /\ Same(q, q2, {"fromhost"}) /\ q2.fromhost = val
  BY <1>1, OneField
<1>3. DOMAIN h2 = GhostFields /\ h2.inbox = val /\ \A x \in GhostFields \ {"inbox"} : h2[x] = h[x]
  BY <1>1 DEF GhostFields
<1>4. /\ q2.mstatus = q.mstatus /\ q2.mepc = q.mepc /\ q2.mcause = q.mcause /\ q2.sepc = q.sepc /\ q2.scause = q.scause
      /\ q2.load_reservation = q.load_reservation /\ q2.tohost = q.tohost /\ AgreeCount(q, q2)
  BY <1>2 DEF Same, HartFields, AgreeCount
<1>5. /\ h2.clean = h.clean /\ h2.outbox = h.outbox /\ h2.frames = h.frames /\ h2.count = h.count
      /\ h2.exact = h.exact /\ h2.late = h.late /\ h2.again = h.again
  BY <1>3 DEF GhostFields
<1>6. Stacked(q2, h2.frames)
  BY <1>4, <1>5, StackedSame DEF HartInv
<1>7. HartInv(q2, h2)
  BY <1>2, <1>3, <1>4, <1>5, <1>6 DEF HartInv, IsGhost
<1>8. CountInv(q2, h2, k)
  BY <1>4, <1>5, CountSame
<1> QED
  BY <1>4, <1>7, <1>8

\* A hart as it is after reset has counted nothing.
LEMMA ResetOk ==
  ASSUME NEW run, NEW exact, NEW k, exact => k = 0
  PROVE  LET q == state_reset(run)
             h == [Fresh EXCEPT !.exact = exact]
         IN  HartInv(q, h) /\ CountInv(q, h, k) /\ q.load_reservation = NoWord
<1> DEFINE q == state_reset(run)
           h == [Fresh EXCEPT !.exact = exact]
<1>1. /\ IsHart(q) /\ q.load_reservation = NoWord /\ q.tohost = 0 /\ q.fromhost = 0
      /\ q.minstret = 0 /\ q.suinstret_delta = 0 /\ q.serialized = FALSE
  BY ResetIsHart
<1>2. /\ DOMAIN h = GhostFields /\ h.frames = <<>> /\ h.count = 0 /\ h.exact = exact /\ h.inbox = 0 /\ h.outbox = 0
      /\ h.again = NoInsn
  BY DEF Fresh, GhostFields
<1> HIDE DEF q, h
<1>3. HartInv(q, h)
  BY <1>1, <1>2 DEF HartInv, IsGhost, Refetched, Stacked
<1>4. 0 \in 0 .. Wrap - 1
  BY WrapIs
<1>5. (0 + 0 + 0) % Wrap = 0
  <2>1. Wrap \in Nat \ {0}
    BY MachineAssumption
  <2> QED
    BY <2>1
<1>6. h.exact => h.count = (q.minstret + k + q.suinstret_delta) % Wrap
  BY <1>1, <1>2, <1>5
<1>7. CountInv(q, h, k)
  BY <1>1, <1>2, <1>4, <1>6 DEF CountInv
<1> QED
  BY <1>1, <1>3, <1>7 DEF q, h

-----------------------------------------------------------------------------
(* All harts. *)
All(ss, gh, H, c, k) == Harts(ss, gh, H) /\ Counts(ss, gh, H, c, k) /\ Alone(ss, H, c)

LEMMA OneHart ==
  ASSUME NEW ss, NEW gh, NEW H, NEW c, NEW k, NEW k2, All(ss, gh, H, c, k), NEW x \in H, x = c \/ k2 = k,
         NEW q2, NEW h2, HartInv(q2, h2), CountInv(q2, h2, IF x = c THEN k2 ELSE 0), x = c \/ q2.load_reservation = NoWord
  PROVE  All([ss EXCEPT ![x] = q2], [gh EXCEPT ![x] = h2], H, c, k2)
<1> DEFINE S == [ss EXCEPT ![x] = q2]
           G == [gh EXCEPT ![x] = h2]
<1>1. /\ DOMAIN S = H /\ DOMAIN G = H /\ S[x] = q2 /\ G[x] = h2
      /\ \A y \in H \ {x} : S[y] = ss[y] /\ G[y] = gh[y]
  BY DEF All, Harts
<1> HIDE DEF S, G
<1>2. Harts(S, G, H)
  BY <1>1 DEF All, Harts
<1>3. Counts(S, G, H, c, k2)
  BY <1>1 DEF All, Counts
<1>4. Alone(S, H, c)
  BY <1>1 DEF All, Alone
<1> QED
  BY <1>2, <1>3, <1>4 DEF All, S, G

LEMMA OneHartIdle ==
  ASSUME NEW ss, NEW H, NEW x \in H, NEW q2, DOMAIN ss = H, Idle(ss, H), q2.load_reservation = NoWord,
         NEW ss2, ss2 = [ss EXCEPT ![x] = q2]
  PROVE  Idle(ss2, H)
BY DEF Idle

LEMMA PostOk ==
  ASSUME NEW q, NEW h, NEW k, NEW val, HartInv(q, h), CountInv(q, h, k), NEW q2, NEW h2,
         q2 = PostFromHost(q, val), h2 = [h EXCEPT !.inbox = IF q.fromhost = 0 THEN val ELSE @]
  PROVE  HartInv(q2, h2) /\ CountInv(q2, h2, k) /\ q2.load_reservation = q.load_reservation
<1>1. CASE q.fromhost = 0
  <2>1. q2 = [q EXCEPT !.fromhost = val] /\ h2 = [h EXCEPT !.inbox = val]
    BY <1>1 DEF PostFromHost
  <2> QED
    BY <2>1, FromhostOk
<1>2. CASE q.fromhost # 0
  <2>1. q2 = q /\ h2 = [h EXCEPT !.inbox = @]
    BY <1>2 DEF PostFromHost
  <2>2. IsHart(q) /\ DOMAIN h = GhostFields
    BY DEF HartInv, IsGhost
  <2>3. DOMAIN h2 = GhostFields /\ \A x \in GhostFields : h2[x] = h[x]
    BY <2>1, <2>2 DEF GhostFields
  <2>4. /\ Agree(q, q2) /\ AgreeGhost(h, h2) /\ AgreeCount(q, q2)
        /\ h2.count = h.count /\ h2.exact = h.exact /\ h2.late = h.late /\ h2.again = h.again
    BY <2>1, <2>3 DEF Agree, AgreeGhost, AgreeCount, HartInv, IsGhost, GhostFields
  <2> QED
    BY <2>1, <2>2, <2>4, HartSame, CountSame
<1> QED
  BY <1>1, <1>2

\* Nothing else is seen.
LEMMA NothingSeen == Observed(Nothing)
BY DEF Observed, Nothing, Saw

Ticking(t, ss, gh) ==
  /\ All(t.ss, t.gh, procs, current_proc, instret) /\ Observed(t.saw)
  /\ Idle(ss, procs) => Idle(t.ss, procs)
LEMMA TickOnceOk ==
  ASSUME program \in Programs, instret \in Nat, NEW p \in program.packets, NEW ss, NEW gh,
         All(ss, gh, procs, current_proc, instret), phase \in {"tick", "top"} => Idle(ss, procs)
  PROVE  Ticking(tick_once(p, ss, gh), ss, gh)
<1> DEFINE t == tick_once(p, ss, gh)
           none == [ss |-> ss, gh |-> gh, reset |-> htifReset, saw |-> Nothing]
           x == p.hart
           k == IF x = current_proc THEN instret ELSE 0
<1>1. /\ p.cmd \in {"read", "write_mem", "tohost", "fromhost", "reset"}
      /\ p.cmd \in {"tohost", "fromhost", "reset"} => x \in procs
  BY MachineAssumption DEF procs
<1>2. DOMAIN ss = procs /\ DOMAIN gh = procs
  BY DEF All, Harts
<1>3. \A y \in procs : /\ HartInv(ss[y], gh[y]) /\ CountInv(ss[y], gh[y], IF y = current_proc THEN instret ELSE 0)
                       /\ y # current_proc => ss[y].load_reservation = NoWord
  BY DEF All, Harts, Counts, Alone
<1> HIDE DEF t
<1> SUFFICES Ticking(t, ss, gh)
  BY DEF t
<1>4. CASE p.cmd = "read"
  <2>1. t.ss = ss /\ t.gh = gh /\ t.saw = Nothing
    BY <1>4 DEF t, tick_once
  <2> QED
    BY <2>1, NothingSeen DEF Ticking
<1>5. CASE p.cmd = "write_mem"
  <2>1. t.ss = ss /\ t.saw = Nothing /\ t.gh = IF phase \in {"tick", "top"} THEN Lost(gh, p.word) ELSE gh
    BY <1>5 DEF t, tick_once
  <2>2. CASE phase \notin {"tick", "top"}
    <3>1. t.gh = gh
      BY <2>1, <2>2
    <3> QED
      BY <2>1, <3>1, NothingSeen DEF Ticking
  <2>3. CASE phase \in {"tick", "top"}
    <3>1. t.gh = Lost(gh, p.word)
      BY <2>1, <2>3
    <3>2. DOMAIN t.gh = procs
      BY <3>1 DEF Lost
    <3>3. ASSUME NEW y \in procs
          PROVE  HartInv(ss[y], t.gh[y]) /\ CountInv(ss[y], t.gh[y], IF y = current_proc THEN instret ELSE 0)
      <4>1. ss[y].load_reservation = NoWord
        BY <2>3 DEF Idle
      <4>2. t.gh[y] = gh[y] \/ t.gh[y] = [gh[y] EXCEPT !.clean = NoWord]
        BY <3>1 DEF Lost
      <4> QED
        BY <4>1, <4>2, <1>3, LostOk
    <3>4. All(ss, t.gh, procs, current_proc, instret)
      BY <3>2, <3>3, <1>2 DEF All, Harts, Counts
    <3> QED
      BY <2>1, <3>4, NothingSeen DEF Ticking
  <2> QED
    BY <2>2, <2>3
<1>6. CASE p.cmd = "tohost"
  <2> DEFINE q2 == [ss[x] EXCEPT !.tohost = p.val]
             h2 == [gh[x] EXCEPT !.outbox = p.val]
  <2>0. x \in procs
    BY <1>1, <1>6
  <2>1. /\ t.ss = [ss EXCEPT ![x] = q2] /\ t.gh = [gh EXCEPT ![x] = h2]
        /\ t.saw = Saw("tohost", ss[x].tohost, gh[x].outbox)
    BY <1>6 DEF t, tick_once
  <2>2. HartInv(q2, h2) /\ CountInv(q2, h2, k) /\ q2.load_reservation = ss[x].load_reservation
    <3>1. HartInv(ss[x], gh[x]) /\ CountInv(ss[x], gh[x], k)
      BY <2>0, <1>3
    <3> QED
      BY <3>1, TohostOk
  <2>3. ss[x].tohost = gh[x].outbox
    BY <2>0, <1>3 DEF HartInv
  <2>4. Observed(t.saw)
    BY <2>1, <2>3 DEF Observed, Saw
  <2> HIDE DEF q2, h2
  <2>5. x = current_proc \/ q2.load_reservation = NoWord
    BY <2>0, <2>2, <1>3
  <2>6. All(t.ss, t.gh, procs, current_proc, instret)
    BY <2>0, <2>1, <2>2, <2>5, OneHart
  <2>7. Idle(ss, procs) => Idle(t.ss, procs)
    <3> SUFFICES ASSUME Idle(ss, procs) PROVE Idle(t.ss, procs)
      OBVIOUS
    <3>1. q2.load_reservation = NoWord
      BY <2>0, <2>2 DEF Idle
    <3> QED
      BY <3>1, <2>0, <2>1, <1>2, OneHartIdle
  <2> QED
    BY <2>4, <2>6, <2>7 DEF Ticking
<1>7. CASE p.cmd = "fromhost"
  <2> DEFINE q2 == PostFromHost(ss[x], p.val)
             h2 == [gh[x] EXCEPT !.inbox = IF ss[x].fromhost = 0 THEN p.val ELSE @]
  <2>0. x \in procs
    BY <1>1, <1>7
  <2>1. t.ss = [ss EXCEPT ![x] = q2] /\ t.gh = [gh EXCEPT ![x] = h2] /\ t.saw = Nothing
    BY <1>7 DEF t, tick_once
  <2>2. HartInv(q2, h2) /\ CountInv(q2, h2, k) /\ q2.load_reservation = ss[x].load_reservation
    BY <2>0, <1>3, PostOk
  <2> HIDE DEF q2, h2
  <2>5. x = current_proc \/ q2.load_reservation = NoWord
    BY <2>0, <2>2, <1>3
  <2>6. All(t.ss, t.gh, procs, current_proc, instret)
    BY <2>0, <2>1, <2>2, <2>5, OneHart
  <2>7. Idle(ss, procs) => Idle(t.ss, procs)
    <3> SUFFICES ASSUME Idle(ss, procs) PROVE Idle(t.ss, procs)
      OBVIOUS
    <3>1. q2.load_reservation = NoWord
      BY <2>0, <2>2 DEF Idle
    <3> QED
      BY <3>1, <2>0, <2>1, <1>2, OneHartIdle
  <2> QED
    BY <2>1, <2>6, <2>7, NothingSeen DEF Ticking
<1>8. CASE p.cmd = "reset"
  <2> DEFINE q2 == reset(ss[x], p.value)
             h2 == IF ss[x].run = ~p.value THEN gh[x] ELSE Afresh(x)
  <2>0. x \in procs
    BY <1>1, <1>8
  <2>1. t.ss = [ss EXCEPT ![x] = q2] /\ t.gh = [gh EXCEPT ![x] = h2] /\ t.saw = Nothing
    BY <1>8 DEF t, tick_once
  <2>2. HartInv(q2, h2) /\ CountInv(q2, h2, k) /\ (q2.load_reservation = NoWord \/ q2.load_reservation = ss[x].load_reservation)
    <3>1. CASE ss[x].run = ~p.value
      <4>1. q2 = ss[x] /\ h2 = gh[x]
        BY <3>1 DEF reset
      <4> QED
        BY <4>1, <2>0, <1>3
    <3>2. CASE ss[x].run # ~p.value
      <4>0. PICK exact : exact \in BOOLEAN /\ exact = (x # current_proc \/ instret = 0)
        OBVIOUS
      <4>1. q2 = state_reset(~p.value) /\ h2 = [Fresh EXCEPT !.exact = exact]
        BY <3>2, <4>0 DEF reset, Afresh
      <4>2. exact => k = 0
        BY <4>0
      <4> QED
        BY <4>1, <4>2, ResetOk
    <3> QED
      BY <3>1, <3>2
  <2> HIDE DEF q2, h2
  <2>5. x = current_proc \/ q2.load_reservation = NoWord
    BY <2>0, <2>2, <1>3
  <2>6. All(t.ss, t.gh, procs, current_proc, instret)
    BY <2>0, <2>1, <2>2, <2>5, OneHart
  <2>7. Idle(ss, procs) => Idle(t.ss, procs)
    <3> SUFFICES ASSUME Idle(ss, procs) PROVE Idle(t.ss, procs)
      OBVIOUS
    <3>1. q2.load_reservation = NoWord
      BY <2>0, <2>2 DEF Idle
    <3> QED
      BY <3>1, <2>0, <2>1, <1>2, OneHartIdle
  <2> QED
    BY <2>1, <2>6, <2>7, NothingSeen DEF Ticking
<1> QED
  BY <1>1, <1>4, <1>5, <1>6, <1>7, <1>8

\* Whatever the host does.
LEMMA TicksOk ==
  ASSUME program \in Programs, instret \in Nat, NEW ss, NEW gh, NEW t \in Ticks(ss, gh) \cup {NoPacket(ss, gh)},
         All(ss, gh, procs, current_proc, instret), phase \in {"tick", "top"} => Idle(ss, procs)
  PROVE  Ticking(t, ss, gh)
<1>1. CASE t = NoPacket(ss, gh)
  <2>1. t.ss = ss /\ t.gh = gh /\ t.saw = Nothing
    BY <1>1 DEF NoPacket
  <2> QED
    BY <2>1, NothingSeen DEF Ticking
<1>2. CASE \E p \in program.packets : t = tick_once(p, ss, gh)
  BY <1>2, TickOnceOk
<1> QED
  BY <1>1, <1>2 DEF Ticks

-----------------------------------------------------------------------------
(* The hart whose turn it is. *)
HartsNext == All(state', ghost', procs, current_proc', instret') /\ Observed(observed')

LEMMA Current ==
  ASSUME IInv
  PROVE  /\ program \in Programs /\ current_proc \in procs /\ All(state, ghost, procs, current_proc, instret)
         /\ HartInv(s, g) /\ CountInv(s, g, instret) /\ instret \in Nat /\ SchedInv
<1>1. current_proc \in procs /\ Harts(state, ghost, procs) /\ Counts(state, ghost, procs, current_proc, instret)
  BY DEF IInv
<1>2. HartInv(s, g) /\ CountInv(s, g, instret)
  BY <1>1 DEF Harts, Counts, s, g
<1> QED
  BY <1>2 DEF IInv, SchedInv, All

LEMMA BecomeOk ==
  ASSUME IInv, NEW q2, NEW h2, Become(q2, h2), UNCHANGED current_proc, HartInv(q2, h2), CountInv(q2, h2, instret')
  PROVE  All(state', ghost', procs, current_proc', instret')
<1> DEFINE k2 == instret'
<1>1. current_proc \in procs /\ All(state, ghost, procs, current_proc, instret)
  BY Current
<1>2. state' = [state EXCEPT ![current_proc] = q2] /\ ghost' = [ghost EXCEPT ![current_proc] = h2]
  BY DEF Become
<1>3. CountInv(q2, h2, IF current_proc = current_proc THEN k2 ELSE 0)
  OBVIOUS
<1> HIDE DEF k2
<1>4. All([state EXCEPT ![current_proc] = q2], [ghost EXCEPT ![current_proc] = h2], procs, current_proc, k2)
  BY <1>1, <1>3, OneHart
<1> QED
  BY <1>2, <1>4 DEF k2

LEMMA RetireOk ==
  ASSUME IInv, NEW q2, NEW h2, Retire(q2, h2), HartInv(q2, h2), CountInv(q2, h2, instret), Unprepared(q2, h2)
  PROVE  All(state', ghost', procs, current_proc', instret')
<1>1. Become(q2, Counted(h2)) /\ instret' = instret + 1 /\ UNCHANGED current_proc
  BY DEF Retire, Go, Machine0
<1>2. instret \in Nat
  BY Current
<1>3. HartInv(q2, Counted(h2)) /\ CountInv(q2, Counted(h2), instret + 1)
  BY <1>2, CountedOk
<1> QED
  BY <1>1, <1>3, BecomeOk

LEMMA LeaveOk ==
  ASSUME IInv, NEW q2, NEW h2, Leave(q2, h2), HartInv(q2, h2), CountInv(q2, h2, instret)
  PROVE  All(state', ghost', procs, current_proc', instret')
<1> DEFINE q3 == [q2 EXCEPT !.minstret = (@ + instret) % Wrap]
<1>1. Become(q3, h2) /\ instret' = 0 /\ UNCHANGED current_proc
  BY DEF Leave, Machine0
<1>2. instret \in Nat
  BY Current
<1>3. HartInv(q3, h2) /\ CountInv(q3, h2, 0)
  BY <1>2, CreditOk
<1> HIDE DEF q3
<1> QED
  BY <1>1, <1>3, BecomeOk

LEMMA TrapStepOk ==
  ASSUME IInv, NEW q2, NEW h2, NEW t, Trap(q2, t, h2), HartInv(q2, h2), CountInv(q2, h2, instret)
  PROVE  HartsNext
<1> DEFINE q3 == take_trap(q2, t, q2.pc)
           h3 == [h2 EXCEPT !.frames = Push(q2, t.cause, @)]
<1>1. Leave(q3, h3) /\ observed' = Nothing
  BY DEF Trap
<1>2. HartInv(q3, h3) /\ CountInv(q3, h3, instret)
  BY TrapOk
<1> HIDE DEF q3, h3
<1>3. All(state', ghost', procs, current_proc', instret')
  BY <1>1, <1>2, LeaveOk
<1> QED
  BY <1>1, <1>3, NothingSeen DEF HartsNext

\* A hart that has serialized executes the same CSR instruction again.
LEMMA NotPrepared ==
  ASSUME IInv, NEW op, At(op), op # "csr"
  PROVE  Unprepared(s, g)
<1> SUFFICES ASSUME s.serialized, ~g.late PROVE FALSE
  BY DEF Unprepared
<1>1. g.again.op = "csr"
  BY Current DEF CountInv
<1>2. NoInsn.op = "none"
  BY DEF NoInsn
<1>3. Fetched = {g.again}
  BY <1>1, <1>2 DEF Fetched
<1>4. Executing(op) = {}
  BY <1>1, <1>3 DEF Executing
<1> QED
  BY <1>4 DEF At

\* The pc of the next instruction.
LEMMA MoveOk ==
  ASSUME NEW q, NEW h, NEW k, NEW pc, HartInv(q, h), CountInv(q, h, k), NEW q2, q2 = [q EXCEPT !.pc = pc]
  PROVE  HartInv(q2, h) /\ CountInv(q2, h, k) /\ q2.serialized = q.serialized /\ q2.load_reservation = q.load_reservation
<1>1. "pc" \in Unspoken
  BY DEF Unspoken
<1>2. DOMAIN q = HartFields
  BY DEF HartInv, IsHart
<1>3. q2.serialized = q.serialized
  BY <1>2 DEF HartFields
<1> QED
  BY <1>1, <1>3, UnspokenField

LEMMA OtherHarts ==
  ASSUME IInv, Other
  PROVE  HartsNext
<1>1. PICK pc : Retire([s EXCEPT !.pc = pc], g)
  BY DEF Other
<1> DEFINE q2 == [s EXCEPT !.pc = pc]
<1>2. Unprepared(s, g)
  BY NotPrepared DEF Other
<1>3. HartInv(s, g) /\ CountInv(s, g, instret)
  BY Current
<1>4. HartInv(q2, g) /\ CountInv(q2, g, instret) /\ q2.serialized = s.serialized
  BY <1>3, MoveOk
<1>5. Retire(q2, g)
  BY <1>1
<1> HIDE DEF q2
<1>6. Unprepared(q2, g)
  BY <1>2, <1>4 DEF Unprepared
<1>7. All(state', ghost', procs, current_proc', instret')
  BY <1>4, <1>5, <1>6, RetireOk
<1> QED
  BY <1>7, NothingSeen DEF Other, HartsNext

LEMMA TrappingHarts ==
  ASSUME IInv, Scall \/ Fault \/ Unprivileged \/ CsrLoadFails
  PROVE  HartsNext
<1>1. \E t : Trap(s, t, g)
  BY DEF Scall, Fault, Unprivileged, CsrLoadFails
<1> QED
  BY <1>1, Current, TrapStepOk

LEMMA SretHarts ==
  ASSUME IInv, Sret
  PROVE  HartsNext
<1> DEFINE q2 == sret(s)
           h2 == [g EXCEPT !.frames = IF @ = <<>> THEN @ ELSE Tail(@)]
<1>1. Retire(q2, h2) /\ observed' = Nothing
  BY DEF Sret
<1>2. Unprepared(s, g)
  BY NotPrepared DEF Sret
<1>3. HartInv(s, g) /\ CountInv(s, g, instret)
  BY Current
<1>4. HartInv(q2, h2) /\ CountInv(q2, h2, instret) /\ q2.serialized = s.serialized
  BY <1>3, SretOk
<1>5. h2.late = g.late
  BY <1>3 DEF HartInv, IsGhost, GhostFields
<1> HIDE DEF q2, h2
<1>6. Unprepared(q2, h2)
  BY <1>2, <1>4, <1>5 DEF Unprepared
<1> QED
  BY <1>1, <1>4, <1>6, RetireOk, NothingSeen DEF HartsNext

LEMMA MrtsHarts ==
  ASSUME IInv, Mrts
  PROVE  HartsNext
<1> DEFINE q2 == mrts(s)
           h2 == [g EXCEPT !.frames = IF @ = <<>> THEN @ ELSE <<@[1]>> \o Below(Tail(@), "M")]
<1>1. Retire(q2, h2) /\ observed' = Nothing /\ s.mstatus.prv = "M"
  BY DEF Mrts
<1>2. Unprepared(s, g)
  BY NotPrepared DEF Mrts
<1>3. HartInv(s, g) /\ CountInv(s, g, instret)
  BY Current
<1>4. HartInv(q2, h2) /\ CountInv(q2, h2, instret) /\ q2.serialized = s.serialized
  BY <1>1, <1>3, MrtsOk
<1>5. h2.late = g.late
  BY <1>3 DEF HartInv, IsGhost, GhostFields
<1> HIDE DEF q2, h2
<1>6. Unprepared(q2, h2)
  BY <1>2, <1>4, <1>5 DEF Unprepared
<1> QED
  BY <1>1, <1>4, <1>6, RetireOk, NothingSeen DEF HartsNext

\* What is fetched is of some program.
LEMMA FetchedIs ==
  ASSUME IInv, NEW op, NEW i \in Executing(op)
  PROVE  i.op = op /\ \E p \in Programs : i \in p.insns
<1>1. program \in Programs /\ Refetched(g.again)
  BY Current DEF HartInv, IsGhost
<1>2. i.op = op /\ (i \in program.insns \/ (g.again # NoInsn /\ i = g.again))
  BY DEF Executing, Fetched
<1> QED
  BY <1>1, <1>2 DEF Refetched

LEMMA LrHarts ==
  ASSUME IInv, Lr
  PROVE  HartsNext
<1>1. PICK i, pc : Retire([lr(s, i.word) EXCEPT !.pc = pc], [g EXCEPT !.clean = i.word])
  BY DEF Lr
<1> DEFINE q1 == [s EXCEPT !.load_reservation = i.word]
           q2 == [q1 EXCEPT !.pc = pc]
           h2 == [g EXCEPT !.clean = i.word]
<1>2. Unprepared(s, g)
  BY NotPrepared DEF Lr
<1>3. HartInv(s, g) /\ CountInv(s, g, instret)
  BY Current
<1>4. HartInv(q1, h2) /\ CountInv(q1, h2, instret) /\ q1.serialized = s.serialized
  BY <1>3, ReservedOk
<1>5. Retire(q2, h2)
  BY <1>1 DEF lr
<1>6. h2.late = g.late
  BY <1>3 DEF HartInv, IsGhost, GhostFields
<1> HIDE DEF q1, h2
<1>7. HartInv(q2, h2) /\ CountInv(q2, h2, instret) /\ q2.serialized = q1.serialized
  BY <1>4, MoveOk
<1> HIDE DEF q2
<1>8. Unprepared(q2, h2)
  BY <1>2, <1>4, <1>6, <1>7 DEF Unprepared
<1> QED
  BY <1>5, <1>7, <1>8, RetireOk, NothingSeen DEF Lr, HartsNext

LEMMA StoresOk ==
  ASSUME IInv, NEW word, NEW q2, Stores(word, q2), HartInv(q2, g), CountInv(q2, g, instret), Unprepared(q2, g)
  PROVE  All(state', ghost', procs, current_proc', instret')
<1> DEFINE k2 == instret + 1
<1>1. /\ current_proc \in procs /\ All(state, ghost, procs, current_proc, instret) /\ instret \in Nat
      /\ current_proc' = current_proc /\ instret' = k2
  BY Current DEF Stores, Go, Machine0
<1>2. state' = [state EXCEPT ![current_proc] = q2]
  BY DEF Stores
<1>3. ghost' = [h \in procs |-> IF h = current_proc THEN Counted(g) ELSE Lost(ghost, word)[h]]
  BY DEF Stores
<1>4. HartInv(q2, Counted(g)) /\ CountInv(q2, Counted(g), k2)
  BY <1>1, CountedOk
<1> HIDE DEF k2
<1>5. /\ DOMAIN state' = procs /\ DOMAIN ghost' = procs
      /\ state'[current_proc] = q2 /\ ghost'[current_proc] = Counted(g)
      /\ \A y \in procs \ {current_proc} : state'[y] = state[y] /\ ghost'[y] = Lost(ghost, word)[y]
  BY <1>1, <1>2, <1>3 DEF All, Harts
<1>6. ASSUME NEW y \in procs \ {current_proc}
      PROVE  HartInv(state'[y], ghost'[y]) /\ CountInv(state'[y], ghost'[y], 0) /\ state'[y].load_reservation = NoWord
  <2>1. HartInv(state[y], ghost[y]) /\ CountInv(state[y], ghost[y], 0) /\ state[y].load_reservation = NoWord
    BY <1>1 DEF All, Harts, Counts, Alone
  <2>2. ghost'[y] = ghost[y] \/ ghost'[y] = [ghost[y] EXCEPT !.clean = NoWord]
    BY <1>5 DEF Lost
  <2> QED
    BY <2>1, <2>2, <1>5, LostOk
<1>7. Harts(state', ghost', procs)
  BY <1>4, <1>5, <1>6 DEF Harts
<1>8. Counts(state', ghost', procs, current_proc, k2)
  BY <1>4, <1>5, <1>6 DEF Counts
<1>9. Alone(state', procs, current_proc)
  BY <1>6 DEF Alone
<1> QED
  BY <1>1, <1>7, <1>8, <1>9 DEF All

LEMMA StoreHarts ==
  ASSUME IInv, Store \/ Sc
  PROVE  HartsNext
<1>1. Unprepared(s, g)
  BY NotPrepared DEF Store, Sc
<1>2. HartInv(s, g) /\ CountInv(s, g, instret)
  BY Current
<1>3. ASSUME NEW pc
      PROVE  LET q2 == [s EXCEPT !.pc = pc] IN HartInv(q2, g) /\ CountInv(q2, g, instret) /\ Unprepared(q2, g)
  BY <1>1, <1>2, MoveOk DEF Unprepared
<1>4. ASSUME NEW word, NEW pc, Stores(word, [s EXCEPT !.pc = pc])
      PROVE  All(state', ghost', procs, current_proc', instret')
  <2> DEFINE q2 == [s EXCEPT !.pc = pc]
  <2>1. HartInv(q2, g) /\ CountInv(q2, g, instret) /\ Unprepared(q2, g) /\ Stores(word, q2)
    BY <1>3, <1>4
  <2> HIDE DEF q2
  <2> QED
    BY <2>1, StoresOk
<1>5. CASE Store
  BY <1>4, <1>5, NothingSeen DEF Store, HartsNext
<1>6. CASE Sc
  <2>1. PICK i \in Executing("sc"), pc \in NextPcs :
          IF Succeeds(s, i.word)
          THEN Stores(i.word, [s EXCEPT !.pc = pc]) /\ observed' = Saw("sc", TRUE, g.clean = i.word)
          ELSE Retire([s EXCEPT !.pc = pc], g) /\ observed' = Nothing
    BY <1>6 DEF Sc
  <2>2. CASE Succeeds(s, i.word)
    <3>1. i.word # NoWord
      <4>1. i.op = "sc" /\ \E p \in Programs : i \in p.insns
        BY FetchedIs
      <4> QED
        BY <4>1, MachineAssumption
    <3>2. g.clean = i.word
      BY <2>2, <3>1, <1>2 DEF HartInv, Succeeds
    <3>3. PICK b \in BOOLEAN : b = (g.clean = i.word)
      OBVIOUS
    <3>4. observed' = Saw("sc", TRUE, b)
      BY <2>1, <2>2, <3>3
    <3>5. Observed(observed')
      BY <3>2, <3>3, <3>4 DEF Observed, Saw
    <3> QED
      BY <2>1, <2>2, <3>5, <1>4 DEF HartsNext
  <2>3. CASE ~Succeeds(s, i.word)
    <3> DEFINE q2 == [s EXCEPT !.pc = pc]
    <3>1. HartInv(q2, g) /\ CountInv(q2, g, instret) /\ Unprepared(q2, g)
      BY <1>3
    <3>2. Retire(q2, g) /\ observed' = Nothing
      BY <2>1, <2>3
    <3> HIDE DEF q2
    <3> QED
      BY <3>1, <3>2, RetireOk, NothingSeen DEF HartsNext
  <2> QED
    BY <2>2, <2>3
<1> QED
  BY <1>5, <1>6

\* A CSR instruction that serializes ends the loop, and is fetched again.
LEMMA SerializedOk ==
  ASSUME NEW q, NEW h, NEW i, HartInv(q, h), CountInv(q, h, 0), i.op = "csr", Refetched(i),
         NEW q2, NEW h2, q2 = [q EXCEPT !.serialized = TRUE], h2 = [h EXCEPT !.again = i]
  PROVE  HartInv(q2, h2) /\ CountInv(q2, h2, 0)
<1>1. IsHart(q) /\ DOMAIN h = GhostFields /\ "serialized" \in HartFields \ {"mstatus"}
  BY DEF HartInv, IsGhost, HartFields
<1>2. IsHart(q2) /\ Same(q, q2, {"serialized"})
  BY <1>1, OneField
<1>3. DOMAIN h2 = GhostFields /\ h2.again = i /\ \A x \in GhostFields \ {"again"} : h2[x] = h[x]
  BY <1>1 DEF GhostFields
<1>4. Agree(q, q2) /\ q2.minstret = q.minstret /\ q2.suinstret_delta = q.suinstret_delta
  BY <1>2 DEF Same, Agree, HartFields
<1>5. AgreeGhost(h, h2) /\ h2.count = h.count /\ h2.exact = h.exact
  BY <1>3 DEF AgreeGhost, IsGhost, GhostFields
<1>6. HartInv(q2, h2)
  BY <1>2, <1>4, <1>5, HartSame
<1>7. CountInv(q2, h2, 0)
  BY <1>3, <1>4, <1>5 DEF CountInv
<1> QED
  BY <1>6, <1>7

LEMMA CsrSerializesHarts ==
  ASSUME IInv, CsrSerializes
  PROVE  HartsNext
<1>1. PICK i \in Executing("csr") : Leave(Serialize(s), [g EXCEPT !.again = i])
  BY DEF CsrSerializes
<1> DEFINE q1 == [s EXCEPT !.minstret = (@ + instret) % Wrap]
           q2 == [[s EXCEPT !.serialized = TRUE] EXCEPT !.minstret = (@ + instret) % Wrap]
           q3 == [q1 EXCEPT !.serialized = TRUE]
           h2 == [g EXCEPT !.again = i]
<1>2. HartInv(s, g) /\ CountInv(s, g, instret) /\ instret \in Nat
  BY Current
<1>3. HartInv(q1, g) /\ CountInv(q1, g, 0)
  BY <1>2, CreditOk
<1>4. q2 = q3
  <2> DEFINE v == (s.minstret + instret) % Wrap
  <2>1. DOMAIN s = HartFields
    BY <1>2 DEF HartInv, IsHart
  <2>2. q2 = [[s EXCEPT !.serialized = TRUE] EXCEPT !.minstret = v]
    BY <2>1 DEF HartFields
  <2>3. q3 = [[s EXCEPT !.minstret = v] EXCEPT !.serialized = TRUE]
    OBVIOUS
  <2> HIDE DEF v, q2, q3
  <2> QED
    BY <2>1, <2>2, <2>3 DEF HartFields
<1>5. Become(q2, h2) /\ instret' = 0 /\ UNCHANGED current_proc
  BY <1>1 DEF Leave, Machine0, Serialize
<1>6. i.op = "csr" /\ Refetched(i)
  BY FetchedIs DEF Refetched
<1> HIDE DEF q1, q2, h2
<1>7. HartInv(q3, h2) /\ CountInv(q3, h2, 0)
  BY <1>3, <1>6, SerializedOk DEF h2
<1> HIDE DEF q3
<1>8. All(state', ghost', procs, current_proc', instret')
  BY <1>4, <1>5, <1>7, BecomeOk
<1> QED
  BY <1>8, NothingSeen DEF CsrSerializes, HartsNext

LEMMA CsrRefusedHarts ==
  ASSUME IInv, CsrRefused
  PROVE  HartsNext
<1> DEFINE q2 == [s EXCEPT !.serialized = FALSE]
           h2 == [g EXCEPT !.late = FALSE, !.again = NoInsn]
<1>1. Trap(q2, IllegalInstruction, h2)
  BY DEF CsrRefused
<1>2. HartInv(s, g) /\ CountInv(s, g, instret)
  BY Current
<1>3. HartInv(q2, g) /\ CountInv(q2, g, instret) /\ q2.serialized = FALSE
  BY <1>2, DeserializedOk
<1> HIDE DEF q2
<1>4. HartInv(q2, h2) /\ CountInv(q2, h2, instret)
  BY <1>3, NotedOk DEF Refetched
<1> HIDE DEF h2
<1> QED
  BY <1>1, <1>4, TrapStepOk

LEMMA EndOfLoopHarts ==
  ASSUME IInv, EndOfLoop
  PROVE  HartsNext
<1> DEFINE q2 == [s EXCEPT !.minstret = (@ + instret) % Wrap]
<1>1. Become(q2, g) /\ instret' = 0 /\ UNCHANGED current_proc /\ observed' = Nothing
  BY DEF EndOfLoop, Machine0
<1>2. HartInv(s, g) /\ CountInv(s, g, instret) /\ instret \in Nat
  BY Current
<1>3. HartInv(q2, g) /\ CountInv(q2, g, 0)
  BY <1>2, CreditOk
<1> HIDE DEF q2
<1>4. All(state', ghost', procs, current_proc', instret')
  BY <1>1, <1>3, BecomeOk
<1> QED
  BY <1>1, <1>4, NothingSeen DEF HartsNext

LEMMA TopHarts ==
  ASSUME IInv, Top
  PROVE  HartsNext
<1> DEFINE q == check_timer(s, rtc)
           cause == take_interrupt(q)
           q2 == take_trap(q, trap_t(cause), q.pc)
           h2 == [g EXCEPT !.frames = Push(q, cause, @), !.late = @ \/ q.serialized, !.again = NoInsn]
<1>1. /\ Become(q, g) \/ Become(q2, h2)
      /\ instret' = 0 /\ observed' = Nothing /\ UNCHANGED current_proc /\ phase = "top"
  BY DEF Top, Machine0
<1>2. HartInv(s, g) /\ CountInv(s, g, instret) /\ instret = 0
  BY <1>1, Current DEF SchedInv
<1>3. HartInv(q, g) /\ CountInv(q, g, 0)
  <2>1. q = s \/ q = [s EXCEPT !.mip = @ \cup {"MTIP"}]
    BY DEF check_timer
  <2>2. CASE q = s
    BY <2>2, <1>2
  <2>3. CASE q = [s EXCEPT !.mip = @ \cup {"MTIP"}]
    <3>1. "mip" \in Unspoken
      BY DEF Unspoken
    <3>2. \E v : q = [s EXCEPT !["mip"] = v]
      BY <2>3
    <3> HIDE DEF q
    <3> QED
      BY <3>1, <3>2, <1>2, UnspokenField
  <2> QED
    BY <2>1, <2>2, <2>3
<1> HIDE DEF q, cause
<1>4. HartInv(q2, h2) /\ CountInv(q2, h2, 0)
  <2> DEFINE t == trap_t(cause)
             h1 == [g EXCEPT !.frames = Push(q, t.cause, @)]
  <2>1. HartInv(q2, h1) /\ CountInv(q2, h1, 0) /\ q2.serialized = q.serialized
    BY <1>3, TrapOk
  <2>2. PICK late \in BOOLEAN : late = (g.late \/ q.serialized)
    OBVIOUS
  <2>3. t.cause = cause
    BY DEF trap_t
  <2>4. h2 = [h1 EXCEPT !.late = late, !.again = NoInsn]
    BY <2>2, <2>3
  <2>5. q2.serialized /\ ~late => FALSE
    BY <2>1, <2>2
  <2> HIDE DEF q2, h1, h2
  <2> QED
    BY <2>1, <2>4, <2>5, NotedOk DEF Refetched
<1> HIDE DEF q2, h2
<1>5. All(state', ghost', procs, current_proc', instret')
  BY <1>1, <1>3, <1>4, BecomeOk
<1> QED
  BY <1>1, <1>5, NothingSeen DEF HartsNext

-----------------------------------------------------------------------------
(* Registers, read and written by instructions. *)
\* What a tick leaves to be serialized.
Quiet(t, ss, gh) ==
  \A y \in procs : \/ t.ss[y].serialized = FALSE
                   \/ t.ss[y].serialized = ss[y].serialized /\ t.gh[y].late = gh[y].late
LEMMA TickOnceQuiet ==
  ASSUME program \in Programs, NEW p \in program.packets, NEW ss, NEW gh,
         All(ss, gh, procs, current_proc, instret), phase \notin {"tick", "top"}
  PROVE  Quiet(tick_once(p, ss, gh), ss, gh)
<1> DEFINE t == tick_once(p, ss, gh)
           x == p.hart
<1>1. /\ p.cmd \in {"read", "write_mem", "tohost", "fromhost", "reset"}
      /\ p.cmd \in {"tohost", "fromhost", "reset"} => x \in procs
  BY MachineAssumption DEF procs
<1>2. DOMAIN ss = procs /\ DOMAIN gh = procs
  BY DEF All, Harts
<1>3. \A y \in procs : DOMAIN ss[y] = HartFields /\ DOMAIN gh[y] = GhostFields
  BY DEF All, Harts, HartInv, IsHart, IsGhost
<1> HIDE DEF t
<1> SUFFICES Quiet(t, ss, gh)
  BY DEF t
<1>4. CASE p.cmd \in {"read", "write_mem"}
  <2>1. t.ss = ss /\ t.gh = gh
    BY <1>4 DEF t, tick_once
  <2> QED
    BY <2>1 DEF Quiet
<1>5. ASSUME NEW q2, NEW h2, x \in procs, t.ss = [ss EXCEPT ![x] = q2], t.gh = [gh EXCEPT ![x] = h2],
             q2.serialized = FALSE \/ (q2.serialized = ss[x].serialized /\ h2.late = gh[x].late)
      PROVE  Quiet(t, ss, gh)
  <2>1. t.ss[x] = q2 /\ t.gh[x] = h2 /\ \A y \in procs \ {x} : t.ss[y] = ss[y] /\ t.gh[y] = gh[y]
    BY <1>2, <1>5
  <2> QED
    BY <2>1, <1>5 DEF Quiet
<1>6. CASE p.cmd = "tohost"
  <2> DEFINE q2 == [ss[x] EXCEPT !.tohost = p.val]
             h2 == [gh[x] EXCEPT !.outbox = p.val]
  <2>1. t.ss = [ss EXCEPT ![x] = q2] /\ t.gh = [gh EXCEPT ![x] = h2]
    BY <1>6 DEF t, tick_once
  <2>2. q2.serialized = ss[x].serialized /\ h2.late = gh[x].late
    BY <1>1, <1>3, <1>6 DEF HartFields, GhostFields
  <2> HIDE DEF q2, h2
  <2> QED
    BY <2>1, <2>2, <1>1, <1>5, <1>6
<1>7. CASE p.cmd = "fromhost"
  <2> DEFINE q2 == PostFromHost(ss[x], p.val)
             h2 == [gh[x] EXCEPT !.inbox = IF ss[x].fromhost = 0 THEN p.val ELSE @]
  <2>1. t.ss = [ss EXCEPT ![x] = q2] /\ t.gh = [gh EXCEPT ![x] = h2]
    BY <1>7 DEF t, tick_once
  <2>2. q2.serialized = ss[x].serialized /\ h2.late = gh[x].late
    BY <1>1, <1>3, <1>7 DEF HartFields, GhostFields, PostFromHost
  <2> HIDE DEF q2, h2
  <2> QED
    BY <2>1, <2>2, <1>1, <1>5, <1>7
<1>8. CASE p.cmd = "reset"
  <2> DEFINE q2 == reset(ss[x], p.value)
             h2 == IF ss[x].run = ~p.value THEN gh[x] ELSE Afresh(x)
  <2>1. t.ss = [ss EXCEPT ![x] = q2] /\ t.gh = [gh EXCEPT ![x] = h2]
    BY <1>8 DEF t, tick_once
  <2>2. q2.serialized = FALSE \/ (q2.serialized = ss[x].serialized /\ h2.late = gh[x].late)
    BY ResetIsHart DEF reset
  <2> HIDE DEF q2, h2
  <2> QED
    BY <2>1, <2>2, <1>1, <1>5, <1>8
<1> QED
  BY <1>1, <1>4, <1>6, <1>7, <1>8

LEMMA CsrTicksOk ==
  ASSUME IInv, phase = "loop", NEW which, NEW ss, NEW t \in CsrTicks(which, ss), All(ss, ghost, procs, current_proc, instret)
  PROVE  /\ Ticking(t, ss, ghost) /\ Quiet(t, ss, ghost)
         /\ which \notin Mailboxes => t.ss = ss /\ t.gh = ghost
<1>1. program \in Programs /\ instret \in Nat
  BY Current
<1>2. t \in Ticks(ss, ghost) \cup {NoPacket(ss, ghost)}
  BY DEF CsrTicks
<1>3. Ticking(t, ss, ghost)
  BY <1>1, <1>2, TicksOk
<1>4. CASE t = NoPacket(ss, ghost)
  <2>1. t.ss = ss /\ t.gh = ghost
    BY <1>4 DEF NoPacket
  <2> QED
    BY <2>1, <1>3 DEF Quiet
<1>5. CASE t # NoPacket(ss, ghost)
  <2>1. which \in Mailboxes
    BY <1>5 DEF CsrTicks
  <2>2. PICK p \in program.packets : t = tick_once(p, ss, ghost)
    BY <1>2, <1>5 DEF Ticks
  <2>3. Quiet(t, ss, ghost)
    BY <2>2, <1>1, TickOnceQuiet
  <2> QED
    BY <2>1, <2>3, <1>3
<1> QED
  BY <1>4, <1>5

LEMMA GetCsr ==
  ASSUME NEW q, NEW which
  PROVE  /\ which \in Retired => get_csr(q, which, rtc) = (q.minstret + q.suinstret_delta) % Wrap
         /\ which = "mfromhost" => get_csr(q, which, rtc) = q.fromhost
         /\ which = "mstatus" => get_csr(q, which, rtc) = q.mstatus
<1>1. which \in Retired => get_csr(q, which, rtc) = (q.minstret + q.suinstret_delta) % Wrap
  BY DEF get_csr, Retired, RealTime, Fields, Constant
<1>2. which = "mfromhost" => get_csr(q, which, rtc) = q.fromhost
  BY DEF get_csr, Retired, RealTime, Fields, Constant
<1>3. which = "mstatus" => get_csr(q, which, rtc) = q.mstatus
  BY DEF get_csr, Retired, RealTime, Fields, Constant
<1> QED
  BY <1>1, <1>2, <1>3

\* A counter with nothing to credit reads as what was counted.
LEMMA ReadOk ==
  ASSUME NEW q, NEW h, NEW k, NEW which, HartInv(q, h), CountInv(q, h, k), which \in Retired /\ ~h.late => k = 0
  PROVE  Observed(Read(which, get_csr(q, which, rtc), h))
<1> DEFINE old == get_csr(q, which, rtc)
<1>1. CASE which \in Retired /\ ~h.late /\ h.exact
  <2>1. h.count = (q.minstret + 0 + q.suinstret_delta) % Wrap /\ q.minstret \in Int /\ q.suinstret_delta \in Int
    BY <1>1 DEF CountInv
  <2>2. q.minstret + 0 + q.suinstret_delta = q.minstret + q.suinstret_delta
    BY <2>1
  <2>3. old = h.count
    BY <1>1, <2>1, <2>2, GetCsr
  <2>4. which # "mfromhost"
    BY <1>1 DEF Retired
  <2> HIDE DEF old
  <2>5. Read(which, old, h) = Saw("instret", old, h.count)
    BY <1>1, <2>4 DEF Read
  <2> QED
    BY <2>3, <2>5 DEF Observed, Saw, old
<1>2. CASE ~(which \in Retired /\ ~h.late /\ h.exact) /\ which = "mfromhost"
  <2>1. old = h.inbox
    BY <1>2, GetCsr DEF HartInv
  <2> HIDE DEF old
  <2>2. Read(which, old, h) = Saw("fromhost", old, h.inbox)
    BY <1>2 DEF Read
  <2> QED
    BY <2>1, <2>2 DEF Observed, Saw, old
<1>3. CASE ~(which \in Retired /\ ~h.late /\ h.exact) /\ which # "mfromhost"
  <2> HIDE DEF old
  <2>1. Read(which, old, h) = Nothing
    BY <1>3 DEF Read
  <2> QED
    BY <2>1, NothingSeen DEF old
<1> QED
  BY <1>1, <1>2, <1>3

\* The state of one hart changes, and its ghost does not.
LEMMA OneState ==
  ASSUME NEW ss, NEW gh, NEW H, NEW c \in H, NEW k, All(ss, gh, H, c, k), NEW q2,
         HartInv(q2, gh[c]), CountInv(q2, gh[c], k)
  PROVE  All([ss EXCEPT ![c] = q2], gh, H, c, k)
<1> DEFINE S == [ss EXCEPT ![c] = q2]
<1>1. DOMAIN S = H /\ S[c] = q2 /\ \A y \in H \ {c} : S[y] = ss[y]
  BY DEF All, Harts
<1> HIDE DEF S
<1>2. Harts(S, gh, H)
  BY <1>1 DEF All, Harts
<1>3. Counts(S, gh, H, c, k)
  BY <1>1 DEF All, Counts
<1>4. Alone(S, H, c)
  BY <1>1 DEF All, Alone
<1> QED
  BY <1>2, <1>3, <1>4 DEF All, S

\* The value written is one of the register.
LEMMA NewValueOk ==
  ASSUME NEW p \in Programs, NEW i \in p.insns, i.op = "csr", NEW q, NEW h, NEW k, HartInv(q, h), CountInv(q, h, k)
  PROVE  LET new == NewValue(i, get_csr(q, i.which, rtc))
         IN  /\ i.which = "mstatus" => DOMAIN new = StatusFields
             /\ i.which \in {"cyclew", "instretw"} => new \in 0 .. Wrap - 1
<1> DEFINE old == get_csr(q, i.which, rtc)
           new == NewValue(i, old)
<1>1. /\ i.how \in {"csrr", "csrrw", "csrrs", "csrrc"}
      /\ i.how = "csrrw" => IsValue(i.which, i.val)
      /\ i.which \in Retired => i.how \in {"csrr", "csrrw"}
  BY MachineAssumption
<1>2. i.how = "csrrw" =>
        /\ i.which = "mstatus" => DOMAIN i.val = StatusFields
        /\ i.which \in {"cyclew", "instretw"} => i.val \in 0 .. Wrap - 1
  BY <1>1, ResetIsHart DEF IsValue, IsHart
<1>3. ASSUME i.which = "mstatus" PROVE DOMAIN new = StatusFields
  <2>1. DOMAIN old = StatusFields
    BY <1>3, GetCsr DEF HartInv, IsHart
  <2> HIDE DEF old
  <2>2. \A bit : DOMAIN SetBits(i, old, bit) = StatusFields
    BY <2>1 DEF SetBits
  <2>3. CASE i.how = "csrr"
    BY <2>1, <2>3 DEF NewValue
  <2>4. CASE i.how = "csrrw"
    BY <1>2, <1>3, <2>4 DEF NewValue
  <2>5. CASE i.how = "csrrs"
    <3>1. new = SetBits(i, old, TRUE)
      BY <1>3, <2>5 DEF NewValue
    <3> QED
      BY <3>1, <2>2
  <2>6. CASE i.how = "csrrc"
    <3>1. new = SetBits(i, old, FALSE)
      BY <1>3, <2>6 DEF NewValue
    <3> QED
      BY <3>1, <2>2
  <2> QED
    BY <1>1, <2>3, <2>4, <2>5, <2>6
<1>4. ASSUME i.which \in {"cyclew", "instretw"} PROVE new \in 0 .. Wrap - 1
  <2>1. i.which \in Retired
    BY <1>4 DEF Retired
  <2>2. q.minstret + q.suinstret_delta \in Int
    BY DEF CountInv
  <2>3. old \in 0 .. Wrap - 1
    BY <2>1, <2>2, GetCsr, WrapIs
  <2> HIDE DEF old
  <2>4. CASE i.how = "csrr"
    BY <2>3, <2>4 DEF NewValue
  <2>5. CASE i.how = "csrrw"
    BY <1>2, <1>4, <2>5 DEF NewValue
  <2> QED
    BY <1>1, <2>1, <2>4, <2>5
<1> QED
  BY <1>3, <1>4

\* What a CSR instruction does once it has read its register.
CsrDoes(i, pc, t) ==
  LET q == t.ss[current_proc]
      h == t.gh[current_proc]
      old == get_csr(q, i.which, rtc)
      new == NewValue(i, old)
      q2 == set_csr(q, i.which, new, rtc)
      exact == ~h.late /\ (i.how = "csrrw" \/ h.exact)
  IN  /\ state' = [t.ss EXCEPT ![current_proc] = [q2 EXCEPT !.pc = pc]]
      /\ ghost' = [t.gh EXCEPT ![current_proc] =
                      Counted([Wrote(h, q, q2, i.which, new, exact) EXCEPT !.late = FALSE, !.again = NoInsn])]
      /\ observed' = IF t.saw = Nothing THEN Read(i.which, old, h) ELSE t.saw
LEMMA CsrHarts ==
  ASSUME IInv, Csr
  PROVE  HartsNext
<1> DEFINE q1 == [s EXCEPT !.serialized = FALSE]
           ss == [state EXCEPT ![current_proc] = q1]
<1>1. PICK i \in Executing("csr"), pc \in NextPcs : \E t \in CsrTicks(i.which, ss) : CsrDoes(i, pc, t)
  BY DEF Csr, CsrDoes, s
<1>0. PICK t \in CsrTicks(i.which, ss) : CsrDoes(i, pc, t)
  BY <1>1
<1>2. /\ phase = "loop" /\ s.serialized
      /\ current_proc' = current_proc /\ instret' = instret + 1
  BY DEF Csr, At, Go
<1>3. /\ program \in Programs /\ current_proc \in procs /\ All(state, ghost, procs, current_proc, instret)
      /\ HartInv(s, g) /\ CountInv(s, g, instret) /\ instret \in Nat
  BY Current
<1>4. HartInv(q1, g) /\ CountInv(q1, g, instret) /\ q1.serialized = FALSE
  BY <1>3, DeserializedOk
<1> HIDE DEF q1
<1>5. All(ss, ghost, procs, current_proc, instret)
  BY <1>3, <1>4, OneState DEF g
<1>6. ss[current_proc] = q1
  BY <1>3 DEF All, Harts
<1> HIDE DEF ss
<1> DEFINE q == t.ss[current_proc]
           h == t.gh[current_proc]
           old == get_csr(q, i.which, rtc)
           new == NewValue(i, old)
           q2 == set_csr(q, i.which, new, rtc)
<1>7. PICK exact \in BOOLEAN : exact = (~h.late /\ (i.how = "csrrw" \/ h.exact))
  OBVIOUS
<1> DEFINE h2 == Wrote(h, q, q2, i.which, new, exact)
           h3 == [h2 EXCEPT !.late = FALSE, !.again = NoInsn]
           q3 == [q2 EXCEPT !.pc = pc]
<1>8. /\ state' = [t.ss EXCEPT ![current_proc] = q3]
      /\ ghost' = [t.gh EXCEPT ![current_proc] = Counted(h3)]
      /\ observed' = IF t.saw = Nothing THEN Read(i.which, old, h) ELSE t.saw
  BY <1>0, <1>7 DEF CsrDoes
<1>9. /\ Ticking(t, ss, ghost) /\ Quiet(t, ss, ghost)
      /\ i.which \notin Mailboxes => t.ss = ss /\ t.gh = ghost
  BY <1>2, <1>5, CsrTicksOk
<1>10. /\ All(t.ss, t.gh, procs, current_proc, instret) /\ Observed(t.saw)
       /\ HartInv(q, h) /\ CountInv(q, h, instret)
  BY <1>3, <1>9 DEF Ticking, All, Harts, Counts
<1>11. q.serialized = FALSE
  BY <1>3, <1>4, <1>6, <1>9 DEF Quiet
<1>12. i.which \in Retired \/ i.which \in {"cyclew", "instretw"} => (~h.late => instret = 0)
  <2>1. i.which \in Retired \/ i.which \in {"cyclew", "instretw"} => h = g
    BY <1>9 DEF Retired, Mailboxes, g
  <2> QED
    BY <2>1, <1>2, <1>3 DEF CountInv
<1>13. /\ i.which = "mstatus" => DOMAIN new = StatusFields
       /\ i.which \in {"cyclew", "instretw"} => new \in 0 .. Wrap - 1
  <2>1. PICK p \in Programs : i \in p.insns /\ i.op = "csr"
    BY FetchedIs
  <2> QED
    BY <2>1, <1>10, NewValueOk
<1>14. exact => ~h.late
  BY <1>7
<1> HIDE DEF q, h
<1>15. Observed(Read(i.which, old, h))
  BY <1>10, <1>12, ReadOk
<1>16. Observed(observed')
  BY <1>8, <1>10, <1>15
<1> HIDE DEF new, old
<1>17. HartInv(q2, h2) /\ CountInv(q2, h2, instret) /\ q2.serialized = q.serialized
  BY <1>3, <1>10, <1>12, <1>13, <1>14, WroteOk
<1> HIDE DEF q2, h2
<1>18. HartInv(q2, h3) /\ CountInv(q2, h3, instret)
  BY <1>11, <1>17, NotedOk DEF Refetched
<1> HIDE DEF h3
<1>19. HartInv(q3, h3) /\ CountInv(q3, h3, instret) /\ q3.serialized = q2.serialized
  BY <1>18, MoveOk
<1> HIDE DEF q3
<1>20. HartInv(q3, Counted(h3)) /\ CountInv(q3, Counted(h3), instret + 1)
  <2>1. Unprepared(q3, h3)
    BY <1>11, <1>17, <1>19 DEF Unprepared
  <2> QED
    BY <2>1, <1>3, <1>19, CountedOk
<1>21. All(state', ghost', procs, current_proc', instret')
  <2> DEFINE k2 == instret + 1
             h4 == Counted(h3)
  <2>1. CountInv(q3, h4, IF current_proc = current_proc THEN k2 ELSE 0) /\ HartInv(q3, h4)
    BY <1>20
  <2> HIDE DEF k2, h4
  <2>2. All([t.ss EXCEPT ![current_proc] = q3], [t.gh EXCEPT ![current_proc] = h4], procs, current_proc, k2)
    BY <2>1, <1>3, <1>10, OneHart
  <2> QED
    BY <2>2, <1>2, <1>8 DEF k2, h4
<1> QED
  BY <1>16, <1>21 DEF HartsNext

\* A register as a device: of any hart, and without serialization.
LEMMA ListedInsn ==
  ASSUME IInv, NEW op, op # "csr", NEW i \in Executing(op)
  PROVE  i.op = op /\ i \in program.insns
<1>1. Refetched(g.again) /\ i.op = op /\ (i \in program.insns \/ (g.again # NoInsn /\ i = g.again))
  BY Current DEF HartInv, IsGhost, Executing, Fetched
<1> QED
  BY <1>1 DEF Refetched

LEMMA LastStep ==
  ASSUME IInv, NEW ss, NEW gh, NEW pc, All(ss, gh, procs, current_proc, instret),
         Unprepared(ss[current_proc], gh[current_proc]),
         state' = [ss EXCEPT ![current_proc].pc = pc], ghost' = [gh EXCEPT ![current_proc] = Counted(@)],
         instret' = instret + 1, current_proc' = current_proc
  PROVE  All(state', ghost', procs, current_proc', instret')
<1> DEFINE c == current_proc
           q == ss[c]
           h == gh[c]
           q2 == [q EXCEPT !.pc = pc]
           h2 == Counted(h)
           k2 == instret + 1
<1>1. c \in procs /\ instret \in Nat
  BY Current
<1>2. HartInv(q, h) /\ CountInv(q, h, instret)
  BY <1>1 DEF All, Harts, Counts
<1>3. state' = [ss EXCEPT ![c] = q2] /\ ghost' = [gh EXCEPT ![c] = h2]
  OBVIOUS
<1>4. HartInv(q2, h) /\ CountInv(q2, h, instret) /\ q2.serialized = q.serialized
  BY <1>2, MoveOk
<1>5. Unprepared(q2, h)
  BY <1>4 DEF Unprepared
<1> HIDE DEF q2
<1>6. HartInv(q2, h2) /\ CountInv(q2, h2, k2)
  BY <1>1, <1>4, <1>5, CountedOk
<1> HIDE DEF h2, k2, h, q
<1>7. CountInv(q2, h2, IF c = c THEN k2 ELSE 0)
  BY <1>6
<1>8. All([ss EXCEPT ![c] = q2], [gh EXCEPT ![c] = h2], procs, c, k2)
  BY <1>1, <1>6, <1>7, OneHart
<1> QED
  BY <1>3, <1>8 DEF k2

LEMMA CsrLoadHarts ==
  ASSUME IInv, CsrLoad
  PROVE  HartsNext
<1>1. PICK i \in Executing("load csr"), pc \in NextPcs : \E t \in CsrTicks(i.which, state) :
        /\ state' = [t.ss EXCEPT ![current_proc].pc = pc]
        /\ ghost' = [t.gh EXCEPT ![current_proc] = Counted(@)]
        /\ observed' = IF t.saw = Nothing /\ i.which \in Mailboxes
                       THEN Read(i.which, get_csr(t.ss[i.hart], i.which, rtc), t.gh[i.hart]) ELSE t.saw
  BY DEF CsrLoad
<1>2. PICK t \in CsrTicks(i.which, state) :
        /\ state' = [t.ss EXCEPT ![current_proc].pc = pc]
        /\ ghost' = [t.gh EXCEPT ![current_proc] = Counted(@)]
        /\ observed' = IF t.saw = Nothing /\ i.which \in Mailboxes
                       THEN Read(i.which, get_csr(t.ss[i.hart], i.which, rtc), t.gh[i.hart]) ELSE t.saw
  BY <1>1
<1>3. phase = "loop" /\ current_proc' = current_proc /\ instret' = instret + 1 /\ At("load csr")
  BY DEF CsrLoad, At, Go
<1>4. program \in Programs /\ current_proc \in procs /\ All(state, ghost, procs, current_proc, instret)
  BY Current
<1>5. Ticking(t, state, ghost) /\ Quiet(t, state, ghost)
  BY <1>3, <1>4, CsrTicksOk
<1>6. All(t.ss, t.gh, procs, current_proc, instret) /\ Observed(t.saw)
  BY <1>5 DEF Ticking
<1>7. Unprepared(t.ss[current_proc], t.gh[current_proc])
  <2>1. Unprepared(state[current_proc], ghost[current_proc])
    BY <1>3, NotPrepared DEF s, g
  <2> QED
    BY <2>1, <1>4, <1>5 DEF Quiet, Unprepared
<1>8. All(state', ghost', procs, current_proc', instret')
  BY <1>2, <1>3, <1>6, <1>7, LastStep
<1>9. i.hart \in procs
  <2>1. i.op = "load csr" /\ i \in program.insns
    BY ListedInsn
  <2> QED
    BY <2>1, <1>4, MachineAssumption DEF procs
<1>10. i.which \in Mailboxes => Observed(Read(i.which, get_csr(t.ss[i.hart], i.which, rtc), t.gh[i.hart]))
  <2> DEFINE q == t.ss[i.hart]
             h == t.gh[i.hart]
             k == IF i.hart = current_proc THEN instret ELSE 0
  <2>1. HartInv(q, h) /\ CountInv(q, h, k)
    BY <1>6, <1>9 DEF All, Harts, Counts
  <2> HIDE DEF q, h, k
  <2>2. i.which \in Mailboxes => i.which \notin Retired
    BY DEF Mailboxes, Retired
  <2>3. i.which \in Mailboxes => Observed(Read(i.which, get_csr(q, i.which, rtc), h))
    BY <2>1, <2>2, ReadOk
  <2> QED
    BY <2>3 DEF q, h
<1>11. Observed(observed')
  BY <1>2, <1>6, <1>10
<1> QED
  BY <1>8, <1>11 DEF HartsNext

DeviceValue(which, val) ==
  /\ which = "mstatus" => DOMAIN val = StatusFields
  /\ which \in {"cyclew", "instretw"} => val \in 0 .. Wrap - 1
StillFine(q, h, k, q2, h2) ==
  /\ HartInv(q2, h2) /\ CountInv(q2, h2, k)
  /\ q2.serialized = q.serialized /\ q2.load_reservation = q.load_reservation /\ h2.late = h.late

\* A store to a register does to any hart what an instruction does to its own.
LEMMA WroteDevice ==
  ASSUME NEW q, NEW h, NEW k \in Nat, NEW which, NEW val, NEW time, NEW no \in BOOLEAN, ~no,
         HartInv(q, h), CountInv(q, h, k), DeviceValue(which, val),
         NEW q2, NEW h2, q2 = set_csr(q, which, val, time), h2 = Wrote(h, q, q2, which, val, no)
  PROVE  StillFine(q, h, k, q2, h2)
<1>1. /\ which = "mstatus" => DOMAIN val = StatusFields
      /\ which \in {"cyclew", "instretw"} => val \in 0 .. Wrap - 1 /\ (no => k = 0)
  BY DEF DeviceValue
<1> QED
  BY <1>1, WroteOk DEF StillFine

LEMMA CsrStoreHarts ==
  ASSUME IInv, CsrStore
  PROVE  HartsNext
<1>1. PICK i \in Executing("store csr"), pc \in NextPcs :
        LET q == state[i.hart]
            q2 == set_csr(q, i.which, i.val, rtc)
            told == [ghost EXCEPT ![i.hart] = Wrote(@, q, q2, i.which, i.val, FALSE)]
        IN  /\ state' = [[state EXCEPT ![i.hart] = q2] EXCEPT ![current_proc].pc = pc]
            /\ ghost' = [told EXCEPT ![current_proc] = Counted(@)]
  BY DEF CsrStore
<1>2. current_proc' = current_proc /\ instret' = instret + 1 /\ At("store csr") /\ observed' = Nothing
  BY DEF CsrStore, Go, Machine0
<1>3. /\ program \in Programs /\ current_proc \in procs /\ All(state, ghost, procs, current_proc, instret)
      /\ instret \in Nat
  BY Current
<1>4. /\ i.hart \in procs
      /\ i.which = "mstatus" => DOMAIN i.val = StatusFields
      /\ i.which \in {"cyclew", "instretw"} => i.val \in 0 .. Wrap - 1
  <2>1. i.op = "store csr" /\ i \in program.insns
    BY ListedInsn
  <2>2. i.hart \in procs /\ IsValue(i.which, i.val)
    BY <2>1, <1>3, MachineAssumption DEF procs
  <2> QED
    BY <2>2, ResetIsHart DEF IsValue, IsHart
<1> DEFINE x == i.hart
<1>0. PICK q, h, k, which, val :
        /\ q = state[x] /\ h = ghost[x] /\ k = (IF x = current_proc THEN instret ELSE 0)
        /\ which = i.which /\ val = i.val
  OBVIOUS
<1>13. PICK no \in BOOLEAN : no = FALSE
  OBVIOUS
<1> DEFINE q2 == set_csr(q, which, val, rtc)
           h2 == Wrote(h, q, q2, which, val, no)
           ss == [state EXCEPT ![x] = q2]
           gh == [ghost EXCEPT ![x] = h2]
<1>5. /\ state' = [ss EXCEPT ![current_proc].pc = pc]
      /\ ghost' = [gh EXCEPT ![current_proc] = Counted(@)]
  BY <1>0, <1>1, <1>13
<1>6. HartInv(q, h) /\ CountInv(q, h, k) /\ k \in Nat /\ (x # current_proc => q.load_reservation = NoWord)
  BY <1>0, <1>3, <1>4 DEF All, Harts, Counts, Alone
<1>7. Unprepared(state[current_proc], ghost[current_proc])
  BY <1>2, NotPrepared DEF s, g
<1>8. DOMAIN state = procs /\ DOMAIN ghost = procs
  BY <1>3 DEF All, Harts
<1>14. q2 = set_csr(q, which, val, rtc) /\ h2 = Wrote(h, q, q2, which, val, no)
  OBVIOUS
<1> HIDE DEF q2, h2
<1>9. StillFine(q, h, k, q2, h2)
  <2>1. DeviceValue(which, val)
    BY <1>0, <1>4 DEF DeviceValue
  <2>2. ~no
    BY <1>13
  <2>3. HartInv(q, h) /\ CountInv(q, h, k) /\ k \in Nat
    BY <1>6
  <2> QED
    BY <2>1, <2>2, <2>3, <1>14, WroteDevice
<1>10. All(ss, gh, procs, current_proc, instret)
  <2>1. CountInv(q2, h2, IF x = current_proc THEN instret ELSE 0)
    BY <1>0, <1>9 DEF StillFine
  <2>2. x = current_proc \/ q2.load_reservation = NoWord
    BY <1>6, <1>9 DEF StillFine
  <2> QED
    BY <2>1, <2>2, <1>3, <1>4, <1>9, OneHart DEF StillFine
<1>11. Unprepared(ss[current_proc], gh[current_proc])
  BY <1>0, <1>3, <1>4, <1>7, <1>8, <1>9 DEF Unprepared, StillFine
<1> HIDE DEF ss, gh
<1>12. All(state', ghost', procs, current_proc', instret')
  BY <1>2, <1>5, <1>10, <1>11, LastStep
<1> QED
  BY <1>2, <1>12, NothingSeen DEF HartsNext

-----------------------------------------------------------------------------
(* The host and the scheduler. *)
\* Nothing happens to the harts.
LEMMA StayHarts ==
  ASSUME IInv, UNCHANGED <<state, ghost, current_proc, instret>>, observed' = Nothing
  PROVE  HartsNext
<1>1. All(state, ghost, procs, current_proc, instret)
  BY Current
<1> QED
  BY <1>1, NothingSeen DEF HartsNext

\* The host sends a packet, or none.
LEMMA TickHarts ==
  ASSUME IInv, NEW t \in Ticks(state, ghost) \cup {NoPacket(state, ghost)}, Ticked(t), observed' = t.saw,
         UNCHANGED <<current_proc, instret>>, phase # "top", ~done \/ phase # "tick"
  PROVE  HartsNext /\ (Idle(state, procs) => Idle(state', procs))
<1>1. program \in Programs /\ instret \in Nat /\ All(state, ghost, procs, current_proc, instret) /\ SchedInv
  BY Current
<1>2. phase \in {"tick", "top"} => Idle(state, procs)
  BY <1>1 DEF SchedInv
<1>3. Ticking(t, state, ghost)
  BY <1>1, <1>2, TicksOk
<1> QED
  BY <1>3 DEF Ticking, Ticked, HartsNext

\* Between two turns no hart has a reservation nor anything to be credited
\* with: whose turn it was does not matter.
LEMMA IdleHarts ==
  ASSUME NEW ss, NEW gh, NEW H, NEW c, NEW c2, All(ss, gh, H, c, 0), Idle(ss, H)
  PROVE  All(ss, gh, H, c2, 0)
<1>1. Harts(ss, gh, H) /\ Counts(ss, gh, H, c, 0)
  BY DEF All
<1>2. \A h \in H : CountInv(ss[h], gh[h], 0)
  <2> TAKE h \in H
  <2>1. (IF h = c THEN 0 ELSE 0) = 0
    OBVIOUS
  <2> QED
    BY <1>1, <2>1 DEF Counts
<1>3. Counts(ss, gh, H, c2, 0)
  <2> SUFFICES ASSUME NEW h \in H PROVE CountInv(ss[h], gh[h], IF h = c2 THEN 0 ELSE 0)
    BY DEF Counts
  <2>1. (IF h = c2 THEN 0 ELSE 0) = 0
    OBVIOUS
  <2> QED
    BY <1>2, <2>1
<1>4. Alone(ss, H, c2)
  BY DEF Alone, Idle
<1> QED
  BY <1>1, <1>3, <1>4 DEF All

\* A hart gives its reservation up.
LEMMA YieldOk ==
  ASSUME NEW q, NEW h, NEW k, HartInv(q, h), CountInv(q, h, k), NEW q2, q2 = YieldAtSwitch(q)
  PROVE  HartInv(q2, h) /\ CountInv(q2, h, k) /\ q2.load_reservation = NoWord
<1>1. q2 = [q EXCEPT !.load_reservation = NoWord] /\ IsHart(q)
  BY DEF YieldAtSwitch, yield_load_reservation, HartInv
<1>2. "load_reservation" \in HartFields \ {"mstatus"}
  BY DEF HartFields
<1>3. IsHart(q2) /\ Same(q, q2, {"load_reservation"}) /\ q2.load_reservation = NoWord
  BY <1>1, <1>2, OneField
<1>4. /\ q2.mstatus = q.mstatus /\ q2.mepc = q.mepc /\ q2.mcause = q.mcause /\ q2.sepc = q.sepc /\ q2.scause = q.scause
      /\ q2.tohost = q.tohost /\ q2.fromhost = q.fromhost /\ AgreeCount(q, q2)
  BY <1>3 DEF Same, HartFields, AgreeCount
<1>5. Stacked(q2, h.frames)
  BY <1>4, StackedSame DEF HartInv
<1>6. HartInv(q2, h)
  BY <1>3, <1>4, <1>5 DEF HartInv
<1>7. CountInv(q2, h, k)
  BY <1>4, CountSame
<1> QED
  BY <1>3, <1>6, <1>7

\* The end of a turn: the hart whose turn it was gives its reservation up
\* before the host comes in and the next one goes on.
LEMMA SwitchHarts ==
  ASSUME IInv, SwitchProc
  PROVE  HartsNext /\ Idle(state', procs) /\ current_proc' \in procs
<1> DEFINE c == current_proc
           q2 == YieldAtSwitch(s)
           ss == [state EXCEPT ![c] = q2]
<1>1. /\ phase = "top" /\ UNCHANGED instret /\ current_proc' = NextProc
      /\ \E t \in Ticks([state EXCEPT ![current_proc] = YieldAtSwitch(@)], ghost) : Ticked(t) /\ observed' = t.saw
  BY DEF SwitchProc, ProcDone
<1>2. /\ program \in Programs /\ c \in procs /\ All(state, ghost, procs, c, instret)
      /\ HartInv(s, g) /\ CountInv(s, g, instret) /\ instret = 0
  BY <1>1, Current DEF SchedInv
<1>3. ss = [state EXCEPT ![current_proc] = YieldAtSwitch(@)]
  BY DEF s
<1>4. HartInv(q2, g) /\ CountInv(q2, g, 0) /\ q2.load_reservation = NoWord
  BY <1>2, YieldOk
<1> HIDE DEF q2
<1>5. DOMAIN state = procs /\ \A h \in procs \ {c} : state[h].load_reservation = NoWord
  BY <1>2 DEF All, Harts, Alone
<1>6. DOMAIN ss = procs /\ ss[c] = q2 /\ \A h \in procs \ {c} : ss[h] = state[h]
  BY <1>2, <1>5
<1> HIDE DEF ss
<1>7. Idle(ss, procs)
  BY <1>4, <1>5, <1>6 DEF Idle
<1>8. All(ss, ghost, procs, c, 0)
  <2>1. Harts(ss, ghost, procs)
    BY <1>2, <1>4, <1>6 DEF All, Harts, g
  <2>2. Counts(ss, ghost, procs, c, 0)
    <3>1. CountInv(ss[c], ghost[c], 0) /\ (IF c = c THEN 0 ELSE 0) = 0
      BY <1>4, <1>6 DEF g
    <3>2. \A h \in procs : (IF h = c THEN 0 ELSE 0) = 0
      OBVIOUS
    <3>3. \A h \in procs \ {c} : CountInv(state[h], ghost[h], 0)
      BY <1>2 DEF All, Counts
    <3> QED
      BY <1>6, <3>1, <3>2, <3>3 DEF Counts
  <2>3. Alone(ss, procs, c)
    BY <1>7 DEF Alone, Idle
  <2> QED
    BY <2>1, <2>2, <2>3 DEF All
<1>9. PICK t \in Ticks(ss, ghost) : Ticked(t) /\ observed' = t.saw
  BY <1>1, <1>3
<1>10. Ticking(t, ss, ghost)
  BY <1>2, <1>7, <1>8, <1>9, TicksOk
<1>11. Idle(t.ss, procs) /\ All(t.ss, t.gh, procs, c, 0) /\ Observed(t.saw)
  BY <1>2, <1>7, <1>10 DEF Ticking
<1>12. state' = t.ss /\ ghost' = t.gh /\ instret' = 0 /\ observed' = t.saw
  BY <1>1, <1>2, <1>9 DEF Ticked
<1>13. All(t.ss, t.gh, procs, NextProc, 0)
  BY <1>11, IdleHarts
<1>14. NextProc \in procs
  <2>1. program.procs \in Nat \ {0}
    BY <1>2, MachineAssumption
  <2> QED
    BY <1>2, <2>1 DEF NextProc, procs
<1> QED
  BY <1>1, <1>11, <1>12, <1>13, <1>14 DEF HartsNext

-----------------------------------------------------------------------------
(* Every step. *)
\* What an instruction does to the loop of processor_t::step.
LEMMA InstructionLoop ==
  ASSUME IInv, Instruction
  PROVE  /\ phase = "loop" /\ instret < n
         /\ UNCHANGED <<program, mode, left, current_step, current_proc>>
         /\ \/ instret' = instret + 1 /\ n' = n /\ phase' = "loop"
            \/ instret' = 0 /\ n' = n - instret /\ phase' = "top"
<1> DEFINE Loop == /\ phase = "loop" /\ instret < n
                   /\ UNCHANGED <<program, mode, left, current_step, current_proc>>
                   /\ \/ instret' = instret + 1 /\ n' = n /\ phase' = "loop"
                      \/ instret' = 0 /\ n' = n - instret /\ phase' = "top"
<1>1. ASSUME NEW op, At(op), Go, UNCHANGED <<program, mode, left, current_step, current_proc>> PROVE Loop
  BY <1>1 DEF At, Go
<1>2. ASSUME NEW op, At(op), NEW q, NEW h, Retire(q, h) PROVE Loop
  BY <1>2 DEF At, Retire, Go, Machine0
<1>3. ASSUME NEW op, At(op), NEW q, NEW h, Leave(q, h) PROVE Loop
  BY <1>3 DEF At, Leave, Machine0
<1>4. ASSUME NEW op, At(op), NEW q, NEW t, NEW h, Trap(q, t, h) PROVE Loop
  BY <1>4, <1>3 DEF Trap
<1>5. ASSUME NEW op, At(op), NEW word, NEW q, Stores(word, q) PROVE Loop
  BY <1>5 DEF At, Stores, Go, Machine0
<1> HIDE DEF Loop
<1>6. CASE Other \/ Sret \/ Mrts \/ Lr
  BY <1>2, <1>6 DEF Other, Sret, Mrts, Lr, Loop
<1>7. CASE Scall \/ Fault \/ Unprivileged \/ CsrRefused \/ CsrLoadFails
  BY <1>4, <1>7 DEF Scall, Fault, Unprivileged, CsrRefused, CsrLoadFails, Loop
<1>8. CASE Sc \/ Store
  BY <1>2, <1>5, <1>8 DEF Sc, Store, Loop
<1>9. CASE CsrSerializes
  BY <1>3, <1>9 DEF CsrSerializes, Loop
<1>10. CASE Csr \/ CsrLoad \/ CsrStore
  BY <1>1, <1>10 DEF Csr, CsrLoad, CsrStore, Machine0, Loop
<1> QED
  BY <1>6, <1>7, <1>8, <1>9, <1>10 DEF Instruction, Loop

\* The harts after any step.
LEMMA NextHarts ==
  ASSUME IInv, Next
  PROVE  HartsNext /\ program' = program /\ current_proc' \in procs
<1>1. program \in Programs /\ current_proc \in procs /\ SchedInv
  BY Current
<1>2. CASE Instruction
  <2>1. HartsNext
    BY <1>2, OtherHarts, TrappingHarts, SretHarts, MrtsHarts, LrHarts, StoreHarts, CsrSerializesHarts,
       CsrRefusedHarts, CsrHarts, CsrLoadHarts, CsrStoreHarts DEF Instruction
  <2> QED
    BY <1>1, <1>2, <2>1, InstructionLoop
<1>3. CASE Top \/ EndOfLoop
  BY <1>1, <1>3, TopHarts, EndOfLoopHarts DEF Top, EndOfLoop, Machine0
<1>4. CASE SwitchProc
  BY <1>4, SwitchHarts DEF SwitchProc
<1>5. CASE RunTick
  BY <1>1, <1>5, TickHarts DEF RunTick
<1>6. CASE UntilLoop
  BY <1>1, <1>6, TickHarts DEF UntilLoop, Resume
<1>7. CASE interactive_reg
  BY <1>1, <1>7, TickHarts DEF interactive_reg
<1>8. CASE Exit \/ StepProc \/ SameTurn \/ CtrlC \/ Enter \/ interactive_run \/ RunLoop \/ interactive_until \/ LeaveDebugger
  <2>1. UNCHANGED <<program, state, ghost, current_proc, instret>> /\ observed' = Nothing
    BY <1>8 DEF Exit, StepProc, SameTurn, CtrlC, Enter, interactive_run, RunLoop, interactive_until, LeaveDebugger,
                Resume, Harts0
  <2> QED
    BY <1>1, <2>1, StayHarts
<1> QED
  BY <1>2, <1>3, <1>4, <1>5, <1>6, <1>7, <1>8 DEF Next, Debugger

\* Whether there is anything left to run.
LEMMA DoneSame ==
  ASSUME UNCHANGED <<program, state, htifReset>>
  PROVE  (done' <=> done) /\ (Idle(state, procs) => Idle(state', procs'))
BY DEF done, running, procs

\* The turns of the scheduler after any step: sim_t::run steps a whole turn at
\* a time, so the host comes in between turns only.
LEMMA NextSched ==
  ASSUME IInv, Next
  PROVE  SchedInv'
<1>1. SchedInv /\ Interleave \in Nat \ {0} /\ procs' = procs
  <2>1. program' = program
    BY NextHarts
  <2> QED
    BY <2>1, Current, MachineAssumption DEF procs
<1>2. /\ current_step \in 0 .. Interleave - 1 /\ left \in Nat /\ instret \in Nat /\ n \in Nat /\ instret <= n
      /\ phase \notin {"top", "loop", "exit"} => n = 0
      /\ phase \notin {"loop", "exit"} => instret = 0
      /\ mode \in {"tick", "prompt", "run_loop", "until"}
      /\ phase \in {"step", "top", "loop"} /\ mode = "tick" => current_step = 0 /\ left = Interleave
  BY <1>1 DEF SchedInv
<1>3. CASE Instruction
  BY <1>1, <1>2, <1>3, InstructionLoop DEF SchedInv
<1>4. CASE Top
  BY <1>1, <1>2, <1>4 DEF Top, Machine0, SchedInv
<1>5. CASE EndOfLoop
  BY <1>1, <1>2, <1>5 DEF EndOfLoop, Machine0, SchedInv
<1>6. Steps \in Nat /\ Steps <= left /\ current_step + Steps <= Interleave
  BY <1>1, <1>2 DEF Steps
<1>7. CASE StepProc
  BY <1>1, <1>2, <1>6, <1>7 DEF StepProc, SchedInv
<1>8. mode = "tick" /\ phase = "top" => TurnOver /\ Return = "tick"
  BY <1>1, <1>2 DEF TurnOver, Return, Steps
<1>9. Return \in {"step", mode} /\ (Return = "step" /\ phase = "top" => mode # "tick")
  BY <1>1, <1>8 DEF Return
<1>10. CASE SameTurn
  BY <1>1, <1>2, <1>6, <1>8, <1>9, <1>10 DEF SameTurn, ProcDone, TurnOver, SchedInv
<1>11. CASE SwitchProc
  <2>1. Idle(state', procs')
    BY <1>1, <1>11, SwitchHarts
  <2> QED
    BY <1>1, <1>2, <1>6, <1>9, <1>11, <2>1 DEF SwitchProc, ProcDone, SchedInv
<1>12. CASE RunTick
  <2>1. phase = "tick" /\ ~done /\ current_step = 0 /\ Idle(state, procs) /\ mode = "tick"
    BY <1>1, <1>12 DEF RunTick, SchedInv
  <2>2. Idle(state', procs')
    BY <1>1, <1>12, <2>1, TickHarts DEF RunTick
  <2> QED
    BY <1>1, <1>2, <1>12, <2>1, <2>2 DEF RunTick, SchedInv
<1>13. CASE UntilLoop
  BY <1>1, <1>2, <1>13 DEF UntilLoop, Resume, SchedInv
<1>14. CASE interactive_reg
  BY <1>1, <1>2, <1>14 DEF interactive_reg, SchedInv
<1>15. CASE CtrlC
  <2>1. UNCHANGED <<program, state, htifReset>>
    BY <1>15 DEF CtrlC
  <2> QED
    BY <1>1, <1>2, <1>15, <2>1, DoneSame DEF CtrlC, SchedInv
<1>16. CASE Exit
  BY <1>1, <1>2, <1>16 DEF Exit, SchedInv
<1>17. CASE LeaveDebugger
  <2>1. UNCHANGED <<program, state, htifReset>>
    BY <1>17 DEF LeaveDebugger
  <2> QED
    BY <1>1, <1>2, <1>17, <2>1, DoneSame DEF LeaveDebugger, SchedInv
<1>18. CASE Enter \/ interactive_run \/ RunLoop \/ interactive_until
  BY <1>1, <1>2, <1>18 DEF Enter, interactive_run, RunLoop, interactive_until, Resume, SchedInv
<1> QED
  BY <1>3, <1>4, <1>5, <1>7, <1>10, <1>11, <1>12, <1>13, <1>14, <1>15, <1>16, <1>17, <1>18 DEF Next, Debugger

LEMMA Initially == Init => IInv
<1> SUFFICES ASSUME Init PROVE IInv
  OBVIOUS
<1>1. /\ program \in Programs /\ state = [h \in procs |-> state_reset(FALSE)] /\ ghost = [h \in procs |-> Fresh]
      /\ htifReset = TRUE /\ phase = "tick" /\ mode = "tick"
      /\ left = 0 /\ current_step = 0 /\ current_proc = 0 /\ n = 0 /\ instret = 0 /\ observed = Nothing
  BY DEF Init, procs
<1>2. /\ program.procs \in Nat \ {0} /\ Interleave \in Nat \ {0} /\ current_proc \in procs
  <2>1. program.procs \in Nat \ {0} /\ Interleave \in Nat \ {0}
    BY <1>1, MachineAssumption
  <2> QED
    BY <1>1, <2>1 DEF procs
<1>3. HartInv(state_reset(FALSE), Fresh) /\ CountInv(state_reset(FALSE), Fresh, 0) /\ state_reset(FALSE).load_reservation = NoWord
  <2>1. Fresh = [Fresh EXCEPT !.exact = TRUE]
    <3>1. Fresh = [x \in DOMAIN Fresh |-> Fresh[x]] /\ "exact" \in DOMAIN Fresh /\ Fresh.exact = TRUE
      BY DEF Fresh
    <3> QED
      BY <3>1
  <2>2. HartInv(state_reset(FALSE), [Fresh EXCEPT !.exact = TRUE]) /\ CountInv(state_reset(FALSE), [Fresh EXCEPT !.exact = TRUE], 0)
        /\ state_reset(FALSE).load_reservation = NoWord
    BY ResetOk
  <2> QED
    BY <2>1, <2>2
<1>4. \A h \in procs : state[h] = state_reset(FALSE) /\ ghost[h] = Fresh /\ (IF h = current_proc THEN instret ELSE 0) = 0
  BY <1>1
<1>5. Harts(state, ghost, procs)
  BY <1>1, <1>3, <1>4 DEF Harts
<1>6. Counts(state, ghost, procs, current_proc, instret)
  BY <1>3, <1>4 DEF Counts
<1>7. Idle(state, procs) /\ Alone(state, procs, current_proc)
  BY <1>3, <1>4 DEF Idle, Alone
<1>8. SchedInv
  BY <1>1, <1>2, <1>7 DEF SchedInv
<1> QED
  BY <1>1, <1>2, <1>5, <1>6, <1>7, <1>8, NothingSeen DEF IInv

LEMMA Inductive == IInv /\ [Next]_vars => IInv'
<1>1. ASSUME IInv, Next PROVE IInv'
  <2>1. HartsNext /\ program' = program /\ current_proc' \in procs /\ SchedInv'
    BY <1>1, NextHarts, NextSched
  <2>2. procs' = procs /\ program \in Programs
    BY <2>1, <1>1 DEF procs, IInv
  <2> QED
    BY <2>1, <2>2 DEF IInv, HartsNext, All
<1>2. ASSUME IInv, UNCHANGED vars PROVE IInv'
  BY <1>2 DEF vars, IInv, SchedInv, procs, done, running
<1> QED
  BY <1>1, <1>2

LEMMA Returns == IInv => ReturnsWhereTrapped
<1> SUFFICES ASSUME IInv, NEW h \in procs
             PROVE  LET q == state[h]
                        f == ghost[h].frames
                    IN  /\ f # <<>> => /\ q.mstatus.prv1 = f[1].prv /\ q.mstatus.ie1 = f[1].ie
                                       /\ f[1].saved => Resumes(q, q.mstatus.prv, f[1])
                        /\ Len(f) = 2 => /\ q.mstatus.prv2 = f[2].prv /\ q.mstatus.ie2 = f[2].ie
                                         /\ f[2].saved => Resumes(q, f[1].prv, f[2])
  BY DEF ReturnsWhereTrapped
<1> DEFINE q == state[h]
           f == ghost[h].frames
<1>1. Stacked(q, f)
  BY DEF IInv, Harts, HartInv
<1> HIDE DEF q, f
<1>2. /\ f # <<>> => /\ q.mstatus.prv1 = f[1].prv /\ q.mstatus.ie1 = f[1].ie
                     /\ f[1].saved => Resumes(q, q.mstatus.prv, f[1])
      /\ Len(f) = 2 => /\ q.mstatus.prv2 = f[2].prv /\ q.mstatus.ie2 = f[2].ie
                       /\ f[2].saved => Resumes(q, f[1].prv, f[2])
  <2>1. CASE f = <<>>
    BY <2>1, TupleFacts
  <2>2. CASE \E a : f = One(a) /\ Level1(q, a)
    <3>1. PICK a : f = One(a) /\ Level1(q, a)
      BY <2>2
    <3>2. f[1] = a /\ Len(f) = 1
      BY <3>1, TupleFacts DEF One
    <3> QED
      BY <3>1, <3>2 DEF Level1
  <2>3. CASE \E a, b : f = Two(a, b) /\ Level1(q, a) /\ Level2(q, a, b)
    <3>1. PICK a, b : f = Two(a, b) /\ Level1(q, a) /\ Level2(q, a, b)
      BY <2>3
    <3>2. f[1] = a /\ f[2] = b
      BY <3>1, TupleFacts DEF Two
    <3> QED
      BY <3>1, <3>2 DEF Level2, Level1
  <2> QED
    BY <1>1, <2>1, <2>2, <2>3 DEF Stacked, One, Two
<1> QED
  BY <1>2 DEF q, f

-----------------------------------------------------------------------------
\* The inductive invariant: the stack of each hart, its counter, its mailboxes
\* and its reservation agree with what happened, and the host and the harts
\* take turns as sim_t::run and sim_t::step have it.
THEOREM Invariance == Spec => []IInv
BY Initially, Inductive, PTL DEF Spec

\* For any programs of any number of harts, turns of any length and counters of
\* any width, each level of the privilege stack describes the context it
\* interrupted, and a handler finds where to resume it and why it was
\* interrupted (take_trap, sret.h, mrts.h, set_csr).
THEOREM TrapsReturn == Spec => []ReturnsWhereTrapped
BY Invariance, Returns, PTL

\* A store-conditional only succeeds when no other hart, nor the host between
\* two turns, has written its word since the load-reserved (sc_w.h,
\* yield_load_reservation in sim_t::step).
THEOREM ReservationsHold == Spec => []ScAtomic
<1>1. IInv => ScAtomic
  BY DEF IInv, Observed, ScAtomic
<1> QED
  BY <1>1, Invariance, PTL

\* instret reads as the number of instructions retired, modulo the width of
\* the counter, whatever is written to it and however often the loop of
\* processor_t::step is left early.
THEOREM InstretCounts == Spec => []InstretExact
<1>1. IInv => InstretExact
  BY DEF IInv, Observed, InstretExact
<1> QED
  BY <1>1, Invariance, PTL

\* A message in mtohost or mfromhost stays until the other side has taken it,
\* whichever of the host's packets come between the steps of the harts and
\* inside the reads of the registers themselves.
THEOREM MailboxesKeep == Spec => []MessagesKept
<1>1. IInv => MessagesKept
  BY DEF IInv, Observed, MessagesKept
<1> QED
  BY <1>1, Invariance, PTL
=============================================================================
