------------------------------- MODULE RamPort -------------------------------
(***************************************************************************)
(* The one-port memories of the design: rtl/ram_1port_dense.v, used for    *)
(* tags and directory entries, and rtl/ram_1port_fast.v, used for the DRID *)
(* table.  Both put an asynchronous array (rtl/async_ram_1port.v) behind   *)
(* elastic flops; the dense one adds a second flop and the last_busy bit, which    *)
(* keeps the port idle in the cycle after a request.                       *)
(*                                                                         *)
(* req is the request on the wires in the current cycle.  The requester    *)
(* follows the handshake of the testbenches: a refused request stays on    *)
(* the wires (tests/ram_1port_dense_wp_tb.cpp:83-91).  This matters: the   *)
(* array is written whenever a write is on the wires, refused or not.      *)
(*                                                                         *)
(* golden is the memory as the handshakes define it, written only when a   *)
(* write is accepted; owed is the list of answers to the accepted reads,   *)
(* read from golden.  Neither is read by the RAM.                          *)
(***************************************************************************)
EXTENDS FflopOps

CONSTANTS Pos,       \* the addresses
          Data,      \* the words
          X,         \* an undriven word; the arrays have no reset
          NoRequest  \* req when req_valid is low

VARIABLES Dense,     \* which of the two RAMs this is: TRUE for ram_1port_dense
          req, data, last_busy, f1, f2, golden, owed

vars == <<Dense, req, data, last_busy, f1, f2, golden, owed>>

Wire == Data \cup {X}

Reads   == [we : {FALSE}, pos : Pos, data : {X}]
Writes  == [we : {TRUE}, pos : Pos, data : Data]
Request == Reads \cup Writes

-----------------------------------------------------------------------------
req_valid == req # NoRequest
Writing   == req_valid /\ req.we
Reading   == req_valid /\ ~req.we

(* A write does not need the flop: "token consumed". *)
req_retry == (dinRetry(f1) /\ ~Writing) \/ last_busy

Accepted == req_valid /\ ~req_retry

(* mutant: a refused read is captured as well *)
f1ValidWhileBusy == Reading

f1Valid == Reading /\ ~last_busy

(* The array in this cycle: a write goes through without waiting for the   *)
(* clock, and the port answers 0 while it writes.                          *)
ack_data_next == IF Reading THEN data[req.pos] ELSE X

(* mutant: a write waits for the answer flop, but is accepted all the same *)
arrayBlocked ==
    IF Writing /\ ~dinRetry(f1) THEN [data EXCEPT ![req.pos] = req.data] ELSE data

array == IF Writing THEN [data EXCEPT ![req.pos] = req.data] ELSE data

Init ==
    /\ Dense \in BOOLEAN
    /\ req \in Request \cup {NoRequest}
    /\ data = [p \in Pos |-> X] /\ golden = data
    /\ last_busy = FALSE
    /\ f1 = FflopAfterReset(X) /\ f2 = FflopAfterReset(X)
    /\ owed = << >>

(* mutant: the port is marked busy for ever once it is used *)
nextBusyForever == Dense /\ (last_busy \/ req_valid)

nextBusy == Dense /\ ~last_busy /\ req_valid

(* The flop the requester reads answers from. *)
Answer == IF Dense THEN f2 ELSE f1

Clock(ack_retry) ==
    /\ Dense' = Dense
    /\ data' = array
    /\ last_busy' = nextBusy
    /\ f1' = Clocked(f1, ack_data_next, f1Valid, IF Dense THEN dinRetry(f2) ELSE ack_retry)
    /\ f2' = IF Dense THEN Clocked(f2, f1.q, f1.qValid, ack_retry) ELSE f2
    /\ golden' = IF Accepted /\ Writing THEN [golden EXCEPT ![req.pos] = req.data] ELSE golden
    /\ LET left == IF Delivers(Answer, ack_retry) THEN Tail(owed) ELSE owed IN
       owed' = left \o Word(Accepted /\ Reading, golden[req.pos])

(* What the requester puts on the wires next. *)
Hold == req_valid /\ ~Accepted /\ req' = req
Ask  == (~req_valid \/ Accepted) /\ req' \in Request
Rest == (~req_valid \/ Accepted) /\ req' = NoRequest

Step(ack_retry) == Clock(ack_retry) /\ (Hold \/ Ask \/ Rest)

Next == \E ack_retry \in BOOLEAN : Step(ack_retry)

Spec == Init /\ [][Next]_vars

(* The consumer takes an answer again and again. *)
FairSpec == Spec /\ WF_vars(Step(FALSE))

-----------------------------------------------------------------------------
(* The answers in flight are exactly those owed, in order: every accepted  *)
(* read is answered once, with the value of the last write accepted before *)
(* it, although writes reach the array before they are accepted and reads  *)
(* leave two flops later.                                                  *)
AnswersInOrder ==
    owed = (IF Dense THEN Contents(f2) ELSE << >>) \o Contents(f1)

(* The array runs ahead of the accepted writes by the request on the wires *)
(* only.                                                                   *)
ArrayMatchesAccepted ==
    \A p \in Pos : data[p] # golden[p] => Writing /\ req.pos = p /\ req.data = data[p]

(* Every request is accepted, also when the port is used back to back. *)
EventuallyAccepted == req_valid ~> Accepted
=============================================================================
