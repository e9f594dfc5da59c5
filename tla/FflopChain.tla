------------------------------ MODULE FflopChain ------------------------------
(***************************************************************************)
(* rtl/fflop_understand.v: four elastic flops in a row, the qRetry of each *)
(* driven by the dinRetry of the next.  This is the shape of every wire of *)
(* the design that crosses a block: refusals travel backwards one flop per *)
(* cycle while words travel forwards.                                      *)
(***************************************************************************)
EXTENDS FflopOps

CONSTANTS Data,      \* the words: [15:0]
          X,         \* an undriven word
          MaxSent    \* bound on the words sent

VARIABLES in1_r1, in1_r2, in1_r3, out1,   \* the four flops
          sent, received                  \* history of the two handshakes

vars == <<in1_r1, in1_r2, in1_r3, out1, sent, received>>

Wire == Data \cup {X}

Init ==
    /\ in1_r1 = FflopAfterReset(X) /\ in1_r2 = FflopAfterReset(X)
    /\ in1_r3 = FflopAfterReset(X) /\ out1 = FflopAfterReset(X)
    /\ sent = << >> /\ received = << >>

(* mutant: the dinValid port of a stage is left unconnected *)
LinkedUnconnected(from, to, dinValid, din) == Clocked(from, din, FALSE, dinRetry(to))

(* A stage between its neighbours: it is refused when the next one is full. *)
Linked(from, to, dinValid, din) == Clocked(from, din, dinValid, dinRetry(to))

Clock(in1, in1_valid, out1_retry) ==
    /\ in1_valid => Len(sent) < MaxSent
    /\ in1_r1' = Linked(in1_r1, in1_r2, in1_valid, in1)
    /\ in1_r2' = Linked(in1_r2, in1_r3, in1_r1.qValid, in1_r1.q)
    /\ in1_r3' = Linked(in1_r3, out1, in1_r2.qValid, in1_r2.q)
    /\ out1' = Clocked(out1, in1_r3.q, in1_r3.qValid, out1_retry)
    /\ sent' = sent \o Word(Accepts(in1_r1, in1_valid), in1)
    /\ received' = received \o Word(Delivers(out1, out1_retry), out1.q)

Offer == \E in1 \in Data, out1_retry \in BOOLEAN : Clock(in1, TRUE, out1_retry)
Idle  == \E out1_retry \in BOOLEAN : Clock(X, FALSE, out1_retry)

Next == Offer \/ Idle

Spec == Init /\ [][Next]_vars

Consume == Clock(X, FALSE, FALSE) \/ \E in1 \in Data : Clock(in1, TRUE, FALSE)

FairSpec == Spec /\ WF_vars(Consume)

-----------------------------------------------------------------------------
(* The words in flight, the oldest first. *)
InFlight == Contents(out1) \o Contents(in1_r3) \o Contents(in1_r2) \o Contents(in1_r1)

(* The chain implements a queue of eight places that holds exactly the     *)
(* words its handshakes took and did not give.                             *)
Fifo == INSTANCE BoundedFifo WITH Capacity <- 8, queue <- InFlight
FifoSpec == Fifo!Spec

(* Words keep moving: an empty place ahead of a word is filled, so the      *)
(* first word and the last come out however the refusals were spread over  *)
(* the flops, and by FifoSpec those between them.                      *)
EventuallyDelivered ==
    \A n \in {1, MaxSent} : (Len(sent) >= n) ~> (Len(received) >= n)
=============================================================================
