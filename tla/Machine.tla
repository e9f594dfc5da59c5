------------------------------- MODULE Machine -------------------------------
(* The instruction set simulator as a whole: one thread that gives the harts *)
(* turns of Interleave instructions (sim.cc), runs each one through its      *)
(* fetch loop (execute.cc), exchanges packets with the host between turns    *)
(* and inside some CSR reads (htif.cc), and that ctrl-c turns into an        *)
(* interactive debugger (interactive.cc).                                    *)
(*                                                                           *)
(* What the harts execute and what the host sends is a program: any          *)
(* interleaving of the instructions and packets it lists.                    *)
EXTENDS Hart, Sequences

CONSTANTS
  Programs,     \* records [procs, insns, packets, code, debug, debugger]; code[prv] are pcs
  Interleave,   \* instructions of a turn (INTERLEAVE)
  MaxRtc        \* bound: the real-time clock stops here

\* What software writes to a register is a value of that register.
IsValue(which, val) ==
  /\ which = "mstatus" => DOMAIN val = DOMAIN state_reset(TRUE).mstatus
  /\ which \in {"cyclew", "instretw"} => val \in 0 .. Wrap - 1

\* Harts that exist (sim_t::get_core), aligned words, and registers written as such.
ASSUME MachineAssumption ==
  /\ Wrap \in Nat \ {0} /\ Interleave \in Nat \ {0} /\ MaxRtc \in Nat
  /\ \A p \in Programs :
       /\ p.procs \in Nat \ {0}
       /\ \A k \in p.packets :
            /\ k.cmd \in {"read", "write_mem", "tohost", "fromhost", "reset"}
            /\ k.cmd \in {"tohost", "fromhost", "reset"} => k.hart \in 0 .. p.procs - 1
            /\ k.cmd = "reset" => k.value \in BOOLEAN
       /\ \A i \in p.insns :
            /\ i.op # "none"
            /\ i.op \in {"lr", "sc", "store"} => i.word # NoWord
            /\ i.op \in {"load csr", "store csr"} => i.hart \in 0 .. p.procs - 1
            /\ i.op = "store csr" => IsValue(i.which, i.val)
            /\ i.op = "csr" => i.how \in {"csrr", "csrrw", "csrrs", "csrrc"}
            /\ i.op = "csr" /\ i.how = "csrrw" => IsValue(i.which, i.val)
            /\ i.op = "csr" /\ i.which \in Retired => i.how \in {"csrr", "csrrw"}

VARIABLES
  program,
  state,          \* state_t and run of each hart
  htifReset,      \* htif_isasim_t::reset
  rtc,
  phase,          \* where the thread of the simulator is
  mode,           \* where sim_t::step returns to: tick, prompt, run_loop or until
  ctrlc,          \* ctrlc_pressed
  left,           \* sim_t::step: instructions left
  current_step,
  current_proc,
  n, instret,     \* processor_t::step
  (* What happened, for the properties. *)
  ghost,          \* per hart: frames, clean, count, late, exact, inbox, outbox
  observed        \* what the last step saw, and what was due
vars == <<program, state, htifReset, rtc, phase, mode, ctrlc, left, current_step, current_proc, n, instret, ghost,
          observed>>

procs == 0 .. program.procs - 1
s == state[current_proc]
Saw(what, got, due) == [what |-> what, got |-> got, due |-> due]
Nothing == Saw("nothing", 0, 0)
NoInsn == [op |-> "none"]

(* Per hart: the interrupted contexts, innermost first; the word loaded by   *)
(* lr and not stored to since; the value of the instret CSR; whether an      *)
(* interrupt came between a CSR instruction and its serialization; whether   *)
(* the last write of instret was exact; the messages under way; the          *)
(* instruction at the pc, if it has been fetched before and only serialized. *)
Fresh == [frames |-> <<>>, clean |-> NoWord, count |-> 0, late |-> FALSE, exact |-> TRUE, inbox |-> 0, outbox |-> 0,
          again |-> NoInsn]

-----------------------------------------------------------------------------
(* The host. *)
running == \E h \in procs : state[h].run
done == ~htifReset /\ ~running

Lost(gh, word) == [h \in procs |-> IF gh[h].clean = word THEN [gh[h] EXCEPT !.clean = NoWord] ELSE gh[h]]

\* A hart reset in the middle of its own loop, by a packet that a read lets in,
\* is yet to be credited with what it retired before.
Afresh(h) == [Fresh EXCEPT !.exact = h # current_proc \/ instret = 0]

PostFromHost(q, val) == IF q.fromhost = 0 THEN [q EXCEPT !.fromhost = val] ELSE q

\* tick_once: one packet, from the harts' states ss and ghosts gh.
tick_once(p, ss, gh) ==
  LET none == [ss |-> ss, gh |-> gh, reset |-> htifReset, saw |-> Nothing]
  IN CASE p.cmd = "read" -> none
       \* Between turns: a write let in by a CSR read is left to software.
       [] p.cmd = "write_mem" -> [none EXCEPT !.gh = IF phase \in {"tick", "top"} THEN Lost(gh, p.word) ELSE gh]
       \* The host writes tohost when it has read the message there.
       [] p.cmd = "tohost" ->
            [none EXCEPT !.ss = [ss EXCEPT ![p.hart].tohost = p.val], !.gh = [gh EXCEPT ![p.hart].outbox = p.val],
                         !.saw = Saw("tohost", ss[p.hart].tohost, gh[p.hart].outbox)]
       \* The old value tells the host whether its message was taken in.
       [] p.cmd = "fromhost" ->
            [none EXCEPT !.ss = [ss EXCEPT ![p.hart] = PostFromHost(@, p.val)],
                         !.gh = [gh EXCEPT ![p.hart].inbox = IF ss[p.hart].fromhost = 0 THEN p.val ELSE @]]
       [] p.cmd = "reset" ->
            [none EXCEPT !.reset = htifReset /\ p.value, !.ss = [ss EXCEPT ![p.hart] = reset(@, p.value)],
                         !.gh = [gh EXCEPT ![p.hart] = IF ss[p.hart].run = ~p.value THEN @ ELSE Afresh(p.hart)]]

\* What htif_isasim_t::tick can do outside of reset: nothing, or one packet.
NoPacket(ss, gh) == [ss |-> ss, gh |-> gh, reset |-> htifReset, saw |-> Nothing]
Ticks(ss, gh) == IF done THEN {NoPacket(ss, gh)} ELSE {tick_once(p, ss, gh) : p \in program.packets}
Ticked(t) == state' = t.ss /\ ghost' = t.gh /\ htifReset' = t.reset

-----------------------------------------------------------------------------
(* sim_t::run and sim_t::step. *)
RunTick ==
  /\ phase = "tick" /\ ~done
  /\ \E t \in Ticks(state, ghost) : Ticked(t) /\ observed' = t.saw
  /\ phase' = IF htifReset' THEN "tick" ELSE IF program.debug \/ ctrlc THEN "prompt" ELSE "step"
  /\ left' = IF phase' = "step" THEN Interleave ELSE 0
  /\ UNCHANGED <<program, rtc, mode, ctrlc, current_step, current_proc, n, instret>>

Exit ==
  /\ phase = "tick" /\ done
  /\ phase' = "exit" /\ observed' = Nothing
  /\ UNCHANGED <<program, state, htifReset, rtc, mode, ctrlc, left, current_step, current_proc, n, instret, ghost>>

Steps == IF left < Interleave - current_step THEN left ELSE Interleave - current_step

StepProc ==
  /\ phase = "step"
  /\ n' = Steps /\ phase' = "top" /\ observed' = Nothing
  /\ UNCHANGED <<program, state, htifReset, rtc, mode, ctrlc, left, current_step, current_proc, instret, ghost>>

TurnOver == current_step + Steps = Interleave

(* mutant: only the first hart gets turns *)
NextProcFirst == 0

NextProc == IF current_proc + 1 = program.procs THEN 0 ELSE current_proc + 1

\* Where sim_t::step goes, and returns to.
Return == IF left > Steps THEN "step" ELSE mode

ProcDone == phase = "top" /\ ~(s.run /\ n > 0)

SameTurn ==
  /\ ProcDone /\ ~TurnOver
  /\ current_step' = current_step + Steps
  /\ left' = left - Steps /\ phase' = Return /\ n' = 0 /\ observed' = Nothing
  /\ UNCHANGED <<program, state, htifReset, rtc, mode, ctrlc, current_proc, instret, ghost>>

\* The reservation is given up before the next hart and the host go on.
SwitchProc ==
  /\ ProcDone /\ TurnOver
  /\ current_step' = 0 /\ current_proc' = NextProc
  /\ rtc' = IF NextProc = 0 /\ rtc < MaxRtc THEN rtc + 1 ELSE rtc
  /\ \E t \in Ticks([state EXCEPT ![current_proc] = YieldAtSwitch(@)], ghost) : Ticked(t) /\ observed' = t.saw
  /\ left' = left - Steps /\ phase' = Return /\ n' = 0
  /\ UNCHANGED <<program, mode, ctrlc, instret>>

-----------------------------------------------------------------------------
(* The debugger (phase prompt; modes one, run_loop and until): once entered, *)
(* it is left only when no hart runs or the user quits.                      *)
CtrlC ==
  /\ program.debugger /\ phase # "exit"
  /\ ctrlc' = TRUE /\ phase' = IF ctrlc THEN "exit" ELSE phase
  /\ observed' = Nothing
  /\ UNCHANGED <<program, state, htifReset, rtc, mode, left, current_step, current_proc, n, instret, ghost>>

Resume(m, loop) ==
  /\ mode' = m /\ phase' = loop
  /\ left' = IF loop = "step" THEN 1 ELSE 0
  /\ UNCHANGED <<program, rtc, current_step, current_proc, n, instret>>
Harts0 == UNCHANGED <<state, ghost, htifReset>> /\ observed' = Nothing

Enter == phase = "prompt" /\ ~done /\ Resume("prompt", "step") /\ Harts0 /\ UNCHANGED ctrlc
interactive_run == phase = "prompt" /\ ~done /\ Resume("run_loop", "run_loop") /\ Harts0 /\ ctrlc' = FALSE
\* The count asked for may run out.
RunLoop ==
  /\ phase = "run_loop"
  /\ \/ Resume("prompt", "prompt")
     \/ ~ctrlc /\ ~done /\ Resume("run_loop", "step")
  /\ Harts0 /\ UNCHANGED ctrlc
interactive_until == phase = "prompt" /\ ~done /\ Resume("until", "until") /\ Harts0 /\ ctrlc' = FALSE
\* The value looked for may come up at any step, and looking for it in a mailbox
\* lets the host in.  Neither done nor, when the read traps, ctrl-c is asked for.
UntilLoop ==
  /\ phase = "until"
  /\ \E t \in Ticks(state, ghost) \cup {NoPacket(state, ghost)} : Ticked(t) /\ observed' = t.saw
  /\ Resume("prompt", "prompt") \/ Resume("until", "step")
  /\ UNCHANGED ctrlc
\* Reading mtohost or mfromhost by name lets the host in.
interactive_reg ==
  /\ phase = "prompt" /\ ~done
  /\ \E t \in Ticks(state, ghost) : Ticked(t) /\ observed' = t.saw
  /\ UNCHANGED <<program, rtc, phase, mode, ctrlc, left, current_step, current_proc, n, instret>>
LeaveDebugger ==
  /\ phase = "prompt"
  /\ \/ done /\ phase' = "tick"
     \/ ~done /\ phase' = "exit"       \* interactive_quit
  /\ mode' = "tick" /\ ctrlc' = FALSE /\ observed' = Nothing
  /\ UNCHANGED <<program, state, htifReset, rtc, left, current_step, current_proc, n, instret, ghost>>

-----------------------------------------------------------------------------
(* processor_t::step. *)
Become(q, g) == state' = [state EXCEPT ![current_proc] = q] /\ ghost' = [ghost EXCEPT ![current_proc] = g]
Machine0 == UNCHANGED <<program, htifReset, rtc, mode, ctrlc, left, current_step, current_proc>>
g == ghost[current_proc]

\* The context a trap interrupts, and why; the one below stays where sret will
\* look for it if the trap is taken in S, which is resumed from sepc.
Below(frames, prv) ==
  IF frames = <<>> THEN <<>> ELSE <<IF prv = "S" THEN frames[1] ELSE [frames[1] EXCEPT !.saved = FALSE]>>
Push(q, cause, frames) ==
  <<[pc |-> q.pc, prv |-> q.mstatus.prv, ie |-> q.mstatus.ie, cause |-> cause, saved |-> TRUE]>>
  \o Below(frames, q.mstatus.prv)

Top ==
  /\ phase = "top" /\ s.run /\ n > 0
  /\ LET q == check_timer(s, rtc)
         cause == take_interrupt(q)
     IN  IF cause = NoInterrupt THEN Become(q, g) /\ phase' = "loop"
         ELSE /\ Become(take_trap(q, trap_t(cause), q.pc),
                        [g EXCEPT !.frames = Push(q, cause, @), !.late = @ \/ q.serialized, !.again = NoInsn])
              /\ phase' = "top"
  /\ instret' = 0 /\ observed' = Nothing /\ UNCHANGED n /\ Machine0

EndOfLoop ==
  /\ phase = "loop" /\ instret = n
  /\ Become([s EXCEPT !.minstret = (@ + instret) % Wrap], g)
  /\ n' = 0 /\ instret' = 0 /\ phase' = "top" /\ observed' = Nothing /\ Machine0

\* An instruction that ends the loop early: minstret gets what was counted.
Leave(q, h) ==
  /\ Become([q EXCEPT !.minstret = (@ + instret) % Wrap], h)
  /\ n' = n - instret /\ instret' = 0 /\ phase' = "top" /\ Machine0
Trap(q, t, h) ==
  /\ Leave(take_trap(q, t, q.pc), [h EXCEPT !.frames = Push(q, t.cause, @)])
  /\ observed' = Nothing

(* mutant: an instruction that serializes counts *)
SerializeCounted(q) == [q EXCEPT !.serialized = TRUE, !.minstret = (@ + 1) % Wrap]

Serialize(q) == [q EXCEPT !.serialized = TRUE]

Counted(h) == [h EXCEPT !.count = (@ + 1) % Wrap]
Go == instret' = instret + 1 /\ UNCHANGED <<n, phase>>
Retire(q, h) == Become(q, Counted(h)) /\ Go /\ Machine0
\* The address of the next instruction, after a branch or not.
NextPcs == program.code[s.mstatus.prv]
Fetched == IF g.again = NoInsn THEN program.insns ELSE {g.again}
Executing(op) == {i \in Fetched : i.op = op}
At(op) == phase = "loop" /\ instret < n /\ Executing(op) # {}

\* An instruction that changes nothing of this.
Other ==
  /\ At("plain")
  /\ \E pc \in NextPcs : Retire([s EXCEPT !.pc = pc], g)
  /\ observed' = Nothing

Scall == At("scall") /\ Trap(s, scall(s), g)
\* An instruction, or its fetch, that faults.
Fault == At("fault") /\ \E i \in Executing("fault") : Trap(s, i.trap, g)

Sret ==
  /\ At("sret") /\ s.mstatus.prv # "U"
  /\ Retire(sret(s), [g EXCEPT !.frames = IF @ = <<>> THEN @ ELSE Tail(@)])
  /\ observed' = Nothing
\* A supervisor's own sepc is overwritten: software saves it before.
Mrts ==
  /\ At("mrts") /\ s.mstatus.prv = "M"
  /\ Retire(mrts(s), [g EXCEPT !.frames = IF @ = <<>> THEN @ ELSE <<@[1]>> \o Below(Tail(@), "M")])
  /\ observed' = Nothing
\* require_privilege
Unprivileged ==
  /\ \/ At("sret") /\ s.mstatus.prv = "U"
     \/ At("mrts") /\ s.mstatus.prv # "M"
  /\ Trap(s, IllegalInstruction, g)

Lr ==
  /\ At("lr") /\ \E i \in Executing("lr"), pc \in NextPcs :
       Retire([lr(s, i.word) EXCEPT !.pc = pc], [g EXCEPT !.clean = i.word])
  /\ observed' = Nothing
\* A store or a successful sc by one hart dirties the word for the others.
Stores(word, q) ==
  /\ state' = [state EXCEPT ![current_proc] = q]
  /\ ghost' = [h \in procs |-> IF h = current_proc THEN Counted(g) ELSE Lost(ghost, word)[h]]
  /\ Go /\ Machine0
Sc ==
  /\ At("sc")
  /\ \E i \in Executing("sc"), pc \in NextPcs :
       IF Succeeds(s, i.word)
       THEN Stores(i.word, [s EXCEPT !.pc = pc]) /\ observed' = Saw("sc", TRUE, g.clean = i.word)
       ELSE Retire([s EXCEPT !.pc = pc], g) /\ observed' = Nothing
Store ==
  /\ At("store")
  /\ \E i \in Executing("store"), pc \in NextPcs : Stores(i.word, [s EXCEPT !.pc = pc])
  /\ observed' = Nothing

-----------------------------------------------------------------------------
(* CSR instructions (validate_csr, get_csr, set_csr), and the same registers *)
(* as memory-mapped devices, of any hart (processor_t::load and store).      *)
\* A csrr is a csrrs of x0, the only one that does not ask to write.
Writes(i) == i.how # "csrr"
\* The value written, back or anew; in the status registers i.val are bits.
SetBits(i, old, bit) == [f \in DOMAIN old |-> IF f \in i.val THEN bit ELSE old[f]]
NewValue(i, old) ==
  CASE i.how = "csrr" -> old
    [] i.how = "csrrw" -> i.val
    [] i.how = "csrrs" -> IF i.which \in {"mstatus", "sstatus"} THEN SetBits(i, old, TRUE) ELSE old \cup i.val
    [] i.how = "csrrc" -> IF i.which \in {"mstatus", "sstatus"} THEN SetBits(i, old, FALSE) ELSE old \ i.val

CsrSerializes ==
  /\ At("csr") /\ ~s.serialized
  /\ \E i \in Executing("csr") : Leave(Serialize(s), [g EXCEPT !.again = i])
  /\ observed' = Nothing

CsrRefused ==
  /\ At("csr") /\ s.serialized
  /\ \E i \in Executing("csr") : ~Allowed(s, i.which, Writes(i)) \/ i.which \notin Csrs
  /\ Trap([s EXCEPT !.serialized = FALSE], IllegalInstruction, [g EXCEPT !.late = FALSE, !.again = NoInsn])

\* The contexts of a hart q that software has made q2: what it writes of the
\* stack it means, and where a context is saved it may have written too.
Kept(q, q2) ==
  /\ q2.mstatus.prv = q.mstatus.prv /\ q2.mstatus.prv1 = q.mstatus.prv1
  /\ \A f \in {"mepc", "mcause", "sepc", "scause"} : q2[f] = q[f]
Rewritten(frames, q, q2) ==
  [k \in DOMAIN frames |->
     [frames[k] EXCEPT !.prv = IF k = 1 THEN q2.mstatus.prv1 ELSE q2.mstatus.prv2,
                       !.ie = IF k = 1 THEN q2.mstatus.ie1 ELSE q2.mstatus.ie2,
                       !.saved = IF Kept(q, q2) THEN @ ELSE FALSE]]
Wrote(h, q, q2, which, new, exact) ==
  [h EXCEPT !.frames = Rewritten(@, q, q2),
            !.exact = IF which \in {"cyclew", "instretw"} THEN exact ELSE @,
            !.count = IF which \in {"cyclew", "instretw"} THEN new ELSE @,
            !.inbox = IF which = "mfromhost" THEN new ELSE @,
            !.outbox = IF which = "mtohost" /\ @ = 0 THEN new ELSE @]

\* What a read finds, and should find.
Read(which, old, h) ==
  CASE which \in Retired /\ ~h.late /\ h.exact -> Saw("instret", old, h.count)
    [] which = "mfromhost" -> Saw("fromhost", old, h.inbox)
    [] OTHER -> Nothing

\* Reading mtohost or mfromhost lets the host in before the value is taken.
CsrTicks(which, ss) == IF which \in Mailboxes THEN Ticks(ss, ghost) ELSE {NoPacket(ss, ghost)}

Csr ==
  /\ At("csr") /\ s.serialized
  /\ \E i \in Executing("csr"), pc \in NextPcs :
       /\ Allowed(s, i.which, Writes(i)) /\ i.which \in Csrs
       /\ \E t \in CsrTicks(i.which, [state EXCEPT ![current_proc].serialized = FALSE]) :
            LET q == t.ss[current_proc]
                h == t.gh[current_proc]
                old == get_csr(q, i.which, rtc)
                new == NewValue(i, old)
                q2 == set_csr(q, i.which, new, rtc)
                exact == ~h.late /\ (i.how = "csrrw" \/ h.exact)
            IN  /\ state' = [t.ss EXCEPT ![current_proc] = [q2 EXCEPT !.pc = pc]]
                /\ ghost' = [t.gh EXCEPT ![current_proc] =
                                Counted([Wrote(h, q, q2, i.which, new, exact) EXCEPT !.late = FALSE, !.again = NoInsn])]
                /\ htifReset' = t.reset
                /\ observed' = IF t.saw = Nothing THEN Read(i.which, old, h) ELSE t.saw
  /\ Go
  /\ UNCHANGED <<program, rtc, mode, ctrlc, left, current_step, current_proc>>

\* A load or a store of a CSR of hart i.hart: neither privilege nor serialization matter.
CsrLoad ==
  /\ At("load csr")
  /\ \E i \in Executing("load csr"), pc \in NextPcs :
       /\ i.which \in Csrs
       /\ \E t \in CsrTicks(i.which, state) :
            /\ state' = [t.ss EXCEPT ![current_proc].pc = pc]
            /\ ghost' = [t.gh EXCEPT ![current_proc] = Counted(@)]
            /\ htifReset' = t.reset
            /\ observed' = IF t.saw = Nothing /\ i.which \in Mailboxes
                           THEN Read(i.which, get_csr(t.ss[i.hart], i.which, rtc), t.gh[i.hart]) ELSE t.saw
  /\ Go
  /\ UNCHANGED <<program, rtc, mode, ctrlc, left, current_step, current_proc>>
CsrLoadFails ==
  /\ At("load csr")
  /\ \E i \in Executing("load csr") : i.which \notin Csrs /\ Trap(s, mem_trap_t("load access fault", i.which), g)
CsrStore ==
  /\ At("store csr")
  /\ \E i \in Executing("store csr"), pc \in NextPcs :
       LET q == state[i.hart]
           q2 == set_csr(q, i.which, i.val, rtc)
           told == [ghost EXCEPT ![i.hart] = Wrote(@, q, q2, i.which, i.val, FALSE)]
       IN  /\ state' = [[state EXCEPT ![i.hart] = q2] EXCEPT ![current_proc].pc = pc]
           /\ ghost' = [told EXCEPT ![current_proc] = Counted(@)]
  /\ observed' = Nothing /\ Go /\ Machine0

-----------------------------------------------------------------------------
Init ==
  /\ program \in Programs
  /\ state = [h \in 0 .. program.procs - 1 |-> state_reset(FALSE)]
  /\ ghost = [h \in 0 .. program.procs - 1 |-> Fresh]
  /\ htifReset = TRUE /\ rtc = 0 /\ phase = "tick" /\ mode = "tick" /\ ctrlc = FALSE
  /\ left = 0 /\ current_step = 0 /\ current_proc = 0 /\ n = 0 /\ instret = 0
  /\ observed = Nothing

Instruction ==
  \/ Other \/ Scall \/ Fault \/ Sret \/ Mrts \/ Unprivileged
  \/ Lr \/ Sc \/ Store
  \/ CsrSerializes \/ CsrRefused \/ Csr \/ CsrLoad \/ CsrLoadFails \/ CsrStore
Debugger ==
  CtrlC \/ Enter \/ interactive_run \/ RunLoop \/ interactive_until \/ UntilLoop \/ interactive_reg \/ LeaveDebugger
Next == RunTick \/ Exit \/ StepProc \/ SameTurn \/ SwitchProc \/ Top \/ EndOfLoop \/ Instruction \/ Debugger

\* The thread goes on: the host answers every recv and the user every prompt.
Spec == Init /\ [][Next]_vars /\ WF_vars(Next)

-----------------------------------------------------------------------------
\* However traps, interrupts, mrts and sret follow one another on the two
\* levels of the privilege stack (push_privilege_stack, pop_privilege_stack,
\* mrts.h), each level describes the context it interrupted, and the pc to
\* resume it and the cause are where its handler and sret will look for them:
\* in mepc and mcause for M, in sepc and scause for S.
Resumes(q, prv, f) ==
  CASE prv = "M" -> q.mepc = f.pc /\ q.mcause = f.cause
    [] prv = "S" -> q.sepc = f.pc /\ q.scause = f.cause
    [] OTHER -> FALSE
ReturnsWhereTrapped ==
  \A h \in procs :
    LET q == state[h]
        f == ghost[h].frames
    IN  /\ f # <<>> => /\ q.mstatus.prv1 = f[1].prv /\ q.mstatus.ie1 = f[1].ie
                       /\ f[1].saved => Resumes(q, q.mstatus.prv, f[1])
        /\ Len(f) = 2 => /\ q.mstatus.prv2 = f[2].prv /\ q.mstatus.ie2 = f[2].ie
                         /\ f[2].saved => Resumes(q, f[1].prv, f[2])

\* A store-conditional that succeeds finds its word unwritten by the other
\* harts, and by the host between turns, since the load-reserved (lr_w.h,
\* sc_w.h, sim_t::step); a packet that a read of mtohost lets in is excepted.
ScAtomic == observed.what = "sc" => observed.due

\* instret reads as the number of instructions retired, although minstret is
\* only brought up to date at the end of the loop (PC_SERIALIZE), unless an
\* interrupt came between the serialization and the read or the hart was reset
\* in the middle of its loop.
InstretExact == observed.what = "instret" => observed.got = observed.due

\* Messages between host and hart are neither lost nor overwritten: each side
\* finds the last message the other was told to have delivered (htif.cc,
\* set_csr, get_csr).
MessagesKept == observed.what \in {"tohost", "fromhost"} => observed.got = observed.due

\* The thread stays in one call of processor_t::step for ever, where no
\* instruction retires: its handler traps at once, again and again.
TrapLoop == <>[](phase \in {"top", "loop"}) /\ <>[][instret' <= instret]_vars

\* A hart in user mode whose timer interrupt is enabled and due does not stay
\* there (check_timer, take_interrupt at the top of the loop of step).
TimerDue(h) ==
  /\ h \in procs /\ state[h].run /\ state[h].mstatus.prv = "U"
  /\ "MTIP" \in state[h].mie /\ rtc >= state[h].mtimecmp
Stopped == phase \in {"exit", "prompt"} \/ htifReset
TimerTaken == TrapLoop \/ \A h \in 0 .. 1 : TimerDue(h) ~> (Stopped \/ ~TimerDue(h))

\* Each hart gets its turn again and again.
TurnsForAll == TrapLoop \/ \A h \in 0 .. 1 : []<>(Stopped \/ current_proc = h \/ h \notin procs)
=============================================================================
