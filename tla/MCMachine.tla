------------------------------ MODULE MCMachine ------------------------------
(* Programs for Machine: each concentrates on a few mechanisms, so that all  *)
(* the interleavings of what it lists stay within reach.                     *)
EXTENDS Machine

CONSTANTS x, y

Op(op) == [op |-> op]
CsrOp(how, which, val) == [op |-> "csr", how |-> how, which |-> which, val |-> val]
On(op, word) == [op |-> op, word |-> word]
Bus(op, h, which, val) == [op |-> op, hart |-> h, which |-> which, val |-> val]
Release(h) == [cmd |-> "reset", hart |-> h, value |-> FALSE]
Hold(h) == [cmd |-> "reset", hart |-> h, value |-> TRUE]
\* Where the code of each privilege lies.
Common == [prv \in Privileges |-> {"0"}]
Separate == [U |-> {"0"}, S |-> {"s"}, M |-> {"0"}]
ReadPacket == [cmd |-> "read"]

\* Traps at every privilege, returns and redirection.
Nesting ==
  [procs |-> 1, code |-> Separate, debug |-> FALSE, debugger |-> FALSE,
   packets |-> {Release(0), ReadPacket},
   insns |-> {Op("plain"), Op("scall"), Op("sret"), Op("mrts")}]
\* A supervisor that enables interrupts for the context it returns to.
Enabling ==
  [Nesting EXCEPT !.insns = {Op("scall"), Op("sret"), CsrOp("csrrs", "sstatus", {"pie"})}]
\* The timer and the counter of instructions, which both interrupt and read.
Timer ==
  [procs |-> 1, code |-> Common, debug |-> FALSE, debugger |-> FALSE,
   packets |-> {Release(0), ReadPacket},
   insns |-> {Op("plain"), Op("sret"), CsrOp("csrr", "instret", 0), CsrOp("csrrw", "instretw", 1),
              CsrOp("csrrw", "mtimecmp", MaxRtc), CsrOp("csrrs", "mie", {"MTIP"}), CsrOp("csrrc", "mie", {"MTIP"})}]
\* Two harts and the host on two words, with the debugger.
Atomics ==
  [procs |-> 2, code |-> Common, debug |-> FALSE, debugger |-> TRUE,
   packets |-> {Release(0), Release(1), ReadPacket, [cmd |-> "write_mem", word |-> x]},
   insns |-> {Op("plain"), On("lr", x), On("lr", y), On("sc", x), On("store", x)}]
\* The mailboxes, and harts held and released by the host.
Host ==
  [procs |-> 2, code |-> Common, debug |-> FALSE, debugger |-> FALSE,
   packets |-> {Release(0), Release(1), Hold(0), ReadPacket, [cmd |-> "tohost", hart |-> 0, val |-> 0],
                [cmd |-> "fromhost", hart |-> 0, val |-> 1], [cmd |-> "fromhost", hart |-> 0, val |-> 2]},
   insns |-> {Op("plain"), CsrOp("csrrw", "mfromhost", 0), CsrOp("csrr", "mfromhost", 0), CsrOp("csrrw", "mtohost", 1),
              CsrOp("csrrw", "mtohost", 2), CsrOp("csrr", "instretw", 0)}]
\* Software interrupts to machine and supervisor mode.
Software ==
  [procs |-> 1, code |-> Common, debug |-> FALSE, debugger |-> FALSE,
   packets |-> {Release(0), ReadPacket},
   insns |-> {Op("plain"), Op("sret"), CsrOp("csrrw", "mipi", {"MSIP"}), CsrOp("csrr", "mipi", {}),
              CsrOp("csrrs", "mie", {"MSIP"}), CsrOp("csrrs", "sie", {"SSIP"}), CsrOp("csrrs", "sip", {"SSIP"}),
              CsrOp("csrrc", "mip", {"SSIP"}), CsrOp("csrrw", "mhartid", Zero)}]
\* Two harts that read and write each other's registers through the bus.
Posted ==
  [procs |-> 2, code |-> Common, debug |-> FALSE, debugger |-> FALSE,
   packets |-> {Release(0), Release(1), ReadPacket, [cmd |-> "fromhost", hart |-> 0, val |-> 1]},
   insns |-> {Bus("store csr", 1, "mipi", {"MSIP"}), Bus("load csr", 0, "mfromhost", 0),
              CsrOp("csrrs", "mie", {"MSIP"}), [op |-> "fault", trap |-> mem_trap_t("store access fault", x)]}]
\* A register that the window does not have.
Refused ==
  [Posted EXCEPT !.insns = {Bus("store csr", 1, "mipi", {"MSIP"}), Bus("load csr", 0, "mtimecmph", 0)}]
MCPrograms ==
  {Nesting, Enabling, Timer, Atomics, [Atomics EXCEPT !.debug = TRUE], Host, Software, Posted, Refused}
=============================================================================
