-------------------------------- MODULE Hart --------------------------------
(* The privileged state of one hart of the instruction set simulator         *)
(* (processor.h state_t) and the functions that change it (processor.cc,     *)
(* insns/csr*.h, sret.h, mrts.h, lr_w.h, sc_w.h): operators from a state     *)
(* record to the next, composed into the simulator by Machine.               *)
(*                                                                           *)
(* The hart is RV64 with no coprocessor.  What MPRV, VM and sptbr do to a    *)
(* translation, and the flushes of a write to mstatus, are in Mmu; fflags,   *)
(* frm, fcsr and the state of the floating-point unit are in Fpu.  Addresses *)
(* written to sptbr, stvec and the pcs are aligned.  Counters count modulo   *)
(* Wrap.                                                                     *)
EXTENDS Integers, FiniteSets

CONSTANTS Wrap, NoWord

Privileges == {"U", "S", "M"}
Level(prv) == CASE prv = "U" -> 0 [] prv = "S" -> 1 [] prv = "M" -> 3
Interrupts == {"MSIP", "MTIP", "SSIP", "STIP"}
\* VM_MBARE, VM_SV39 and VM_SV48: what validate_vm lets through.
VmModes == {"mbare", "sv39", "sv48"}
Zero == "0"
\* DEFAULT_MTVEC + 0x40 * PRV, and the address after reset.
Vector(prv) == CASE prv = "U" -> "vectorU" [] prv = "S" -> "vectorS" [] prv = "M" -> "vectorM"
ResetPc == "reset"

\* state_t::reset, with the hart running or held.
state_reset(run) ==
  [run |-> run, pc |-> ResetPc,
   mstatus |-> [prv |-> "M", ie |-> FALSE, prv1 |-> "U", ie1 |-> FALSE, prv2 |-> "U", ie2 |-> FALSE,
                fs |-> 0, mprv |-> FALSE, vm |-> "mbare"],
   mepc |-> Zero, mcause |-> Zero, mbadaddr |-> Zero, mscratch |-> Zero,
   sepc |-> Zero, scause |-> Zero, sbadaddr |-> Zero, sscratch |-> Zero, stvec |-> Zero,
   sptbr |-> Zero,
   mip |-> {}, mie |-> {}, mtimecmp |-> 0, minstret |-> 0, suinstret_delta |-> 0, sutime_delta |-> 0,
   serialized |-> FALSE, load_reservation |-> NoWord, tohost |-> 0, fromhost |-> 0]
\* processor_t::reset; nothing happens if the hart already is as asked.
reset(s, value) == IF s.run = ~value THEN s ELSE state_reset(~value)

yield_load_reservation(s) == [s EXCEPT !.load_reservation = NoWord]

(* mutant: the reservation survives the end of the quantum *)
YieldNothing(s) == s

YieldAtSwitch(s) == yield_load_reservation(s)

-----------------------------------------------------------------------------
(* The privilege stack, traps and interrupts. *)
\* Fields of mstatus that only take legal values keep the old one otherwise.
Legal(set, new, old) == IF new \in set THEN new ELSE old
set_mstatus(s, val) ==
  [s EXCEPT !.mstatus =
     [val EXCEPT !.prv = Legal(Privileges, @, s.mstatus.prv), !.prv1 = Legal(Privileges, @, s.mstatus.prv1),
                 !.prv2 = Legal(Privileges, @, s.mstatus.prv2), !.vm = Legal(VmModes, @, s.mstatus.vm)]]

push_privilege_stack(s) ==
  LET m == s.mstatus
  IN  set_mstatus(s, [m EXCEPT !.prv2 = m.prv1, !.ie2 = m.ie1, !.prv1 = m.prv, !.ie1 = m.ie,
                               !.prv = "M", !.mprv = FALSE, !.ie = FALSE])

(* mutant: the innermost level is popped without the one below it *)
pop_privilege_stackTop(s) ==
  LET m == s.mstatus
  IN  set_mstatus(s, [m EXCEPT !.prv = m.prv1, !.ie = m.ie1, !.prv1 = m.prv2, !.ie1 = TRUE])

pop_privilege_stack(s) ==
  LET m == s.mstatus
  IN  set_mstatus(s, [m EXCEPT !.prv = m.prv1, !.ie = m.ie1, !.prv1 = m.prv2, !.ie1 = m.ie2,
                               !.prv2 = "U", !.ie2 = TRUE])

\* A trap_t, and a mem_trap_t, which also has the address.
trap_t(cause) == [cause |-> cause]
mem_trap_t(cause, badvaddr) == [cause |-> cause, badvaddr |-> badvaddr]
IllegalInstruction == trap_t("illegal instruction")

take_trap(s, t, epc) ==
  [yield_load_reservation(push_privilege_stack(s)) EXCEPT
     !.pc = Vector(s.mstatus.prv), !.mcause = t.cause, !.mepc = epc,
     !.mbadaddr = IF "badvaddr" \in DOMAIN t THEN t.badvaddr ELSE @]

check_timer(s, rtc) == IF rtc >= s.mtimecmp THEN [s EXCEPT !.mip = @ \cup {"MTIP"}] ELSE s

(* mutant: the enable bit is asked for at every privilege *)
MachineEnabledBit(s) == s.mstatus.ie

\* Whether interrupts to machine mode, and to supervisor mode, can be taken.
MachineEnabled(s) == s.mstatus.prv # "M" \/ s.mstatus.ie
SupervisorEnabled(s) == s.mstatus.prv = "U" \/ (s.mstatus.prv = "S" /\ s.mstatus.ie)

\* The cause of the interrupt raised, the most urgent one, or none.
NoInterrupt == "no interrupt"
take_interrupt(s) ==
  LET interrupts == s.mie \cap s.mip
      machine == MachineEnabled(s)
      supervisor == SupervisorEnabled(s)
  IN  IF machine /\ "MSIP" \in interrupts THEN "soft"
      ELSE IF machine /\ "MTIP" \in interrupts THEN "timer"
      ELSE IF machine /\ s.fromhost # 0 THEN "host"
      ELSE IF supervisor /\ "SSIP" \in interrupts THEN "soft"
      ELSE IF supervisor /\ "STIP" \in interrupts THEN "timer"
      ELSE NoInterrupt

-----------------------------------------------------------------------------
(* Control and status registers, by their names in encoding.h. *)
\* Held by the field of their name, and which of these software may write as they are.
Fields == {"mepc", "mscratch", "mcause", "mbadaddr", "sepc", "sscratch", "stvec", "sptbr", "scause",
           "sbadaddr", "mstatus", "mip", "mie", "mtimecmp"}
Plain == {"mepc", "mscratch", "mcause", "mbadaddr", "sepc", "sscratch", "stvec", "sptbr"}
RealTime == {"mtime", "stime", "stimew"}
Constant == {"mcpuid", "mimpid", "mhartid", "mtvec", "mtdeleg", "miobase", "sasid", "uarch"}
Retired == {"cycle", "instret", "cyclew", "instretw"}
Mailboxes == {"mtohost", "mfromhost"}
\* The numbers get_csr knows; on the others it throws.
Csrs == Fields \cup RealTime \cup Constant \cup Retired \cup Mailboxes
        \cup {"sstatus", "sip", "sie", "mipi", "time", "timew"}

Field(old, new, mask) == (old \ mask) \cup (new \cap mask)

(* mutant: a message the host has not taken is overwritten *)
PostToHostAlways(s, val) == [s EXCEPT !.tohost = val]

PostToHost(s, val) == IF s.tohost = 0 THEN [s EXCEPT !.tohost = val] ELSE s

set_csr(s, which, val, rtc) ==
  CASE which = "mstatus" -> set_mstatus(s, val)
       \* PS has one bit, PRV1 two: machine mode is written back as supervisor mode.
    [] which = "sstatus" ->
         set_mstatus(s, [s.mstatus EXCEPT !.ie = val.ie, !.ie1 = val.pie, !.prv1 = IF val.ps THEN "S" ELSE "U",
                                          !.fs = val.fs, !.mprv = val.mprv])
    [] which = "mip" -> [s EXCEPT !.mip = Field(@, val, {"SSIP", "MSIP", "STIP"})]
    [] which = "mipi" -> [s EXCEPT !.mip = Field(@, val, {"MSIP"})]
    [] which = "mie" -> [s EXCEPT !.mie = Field(@, val, Interrupts)]
    [] which = "sip" -> [s EXCEPT !.mip = Field(@, val, {"SSIP"})]
    [] which = "sie" -> [s EXCEPT !.mie = Field(@, val, {"SSIP", "STIP"})]
    [] which \in {"cyclew", "instretw"} -> [s EXCEPT !.suinstret_delta = (val - s.minstret) % Wrap]
    [] which = "timew" -> [s EXCEPT !.sutime_delta = (val - rtc) % Wrap]
    [] which = "mtimecmp" -> [s EXCEPT !.mip = @ \ {"MTIP"}, !.mtimecmp = val]
    [] which = "mtohost" -> PostToHost(s, val)
    [] which = "mfromhost" -> [s EXCEPT !.fromhost = val]
    [] which \in Plain -> [s EXCEPT ![which] = val]
    [] OTHER -> s

get_csr(s, which, rtc) ==
  CASE which = "sstatus" ->
         [ie |-> s.mstatus.ie, pie |-> s.mstatus.ie1, ps |-> s.mstatus.prv1 # "U", fs |-> s.mstatus.fs,
          mprv |-> s.mstatus.mprv]
    [] which = "sip" -> s.mip \cap {"SSIP", "STIP"}
    [] which = "sie" -> s.mie \cap {"SSIP", "STIP"}
    [] which = "mipi" -> {}
    [] which \in RealTime -> rtc
    [] which \in {"time", "timew"} -> (rtc + s.sutime_delta) % Wrap
    [] which \in Retired -> (s.minstret + s.suinstret_delta) % Wrap
    [] which = "mtohost" -> s.tohost
    [] which = "mfromhost" -> s.fromhost
    [] which \in Fields -> s[which]
    [] which \in Constant -> Zero

\* The least privilege that bits 9 and 8 of the number allow (stimew asks for H),
\* and whether bits 11 and 10 make it read-only (validate_csr).
CsrPrivilege(which) ==
  CASE which \in {"cycle", "time", "instret", "uarch"} -> "U"
    [] which \in {"sstatus", "stvec", "sie", "sscratch", "sepc", "sip", "sptbr", "sasid", "cyclew", "timew", "instretw",
                  "stime", "scause", "sbadaddr"} -> "S"
    [] OTHER -> "M"
ReadOnly == {"cycle", "time", "instret", "uarch", "stime", "scause", "sbadaddr", "mcpuid", "mimpid", "mhartid"}
Allowed(s, which, write) ==
  Level(s.mstatus.prv) >= Level(CsrPrivilege(which)) /\ ~(write /\ which \in ReadOnly)

-----------------------------------------------------------------------------
(* Instructions that only concern the hart. *)
sret(s) == [pop_privilege_stack(s) EXCEPT !.pc = IF s.mstatus.prv = "S" THEN s.sepc ELSE s.mepc]
mrts(s) ==
  [set_mstatus(s, [s.mstatus EXCEPT !.prv = "S"]) EXCEPT
     !.sbadaddr = s.mbadaddr, !.scause = s.mcause, !.sepc = s.mepc, !.pc = s.stvec]
scall(s) == CASE s.mstatus.prv = "U" -> trap_t("user ecall")
              [] s.mstatus.prv = "S" -> trap_t("supervisor ecall")
              [] s.mstatus.prv = "M" -> trap_t("machine ecall")
lr(s, word) == [s EXCEPT !.load_reservation = word]
Succeeds(s, word) == s.load_reservation = word
=============================================================================
