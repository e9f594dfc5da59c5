-------------------------------- MODULE Fflop --------------------------------
(***************************************************************************)
(* One elastic flop (rtl/fflop.v) between a producer and a consumer.       *)
(*                                                                         *)
(* A step is one rising edge of clk.  The producer and the consumer are    *)
(* the most general ones: in every cycle din, dinValid and qRetry are      *)
(* chosen freely, so a producer that withdraws a refused word, and a       *)
(* consumer that changes its mind every cycle, are included.               *)
(*                                                                         *)
(* sent and received record, since the last reset, the words the producer  *)
(* saw taken (dinValid high, dinRetry low) and the words the consumer took *)
(* (qValid high, qRetry low).  They are history: no equation reads them.   *)
(*                                                                         *)
(* X is whatever a data wire or register carries when nothing drives it:   *)
(* din in a cycle without dinValid, and q and shadowq after power-up,      *)
(* which reset does not initialise.                                        *)
(***************************************************************************)
EXTENDS FflopOps

CONSTANTS Data,      \* the words: [Size-1:0]
          X,         \* an undriven word
          MaxSent    \* bound on the words sent between two resets

ASSUME FflopAssumption ==
    /\ X \notin Data
    /\ MaxSent \in Nat

VARIABLES flop, sent, received

vars == <<flop, sent, received>>

Wire == Data \cup {X}

(* The histories hold words only: X is never delivered. *)
TypeOK ==
    /\ flop \in FflopState(Wire)
    /\ sent \in Seq(Data)
    /\ received \in Seq(Data)

Init ==
    /\ flop = FflopAfterReset(X)
    /\ sent = << >>
    /\ received = << >>

Clock(din, dinValid, qRetry) ==
    /\ dinValid => Len(sent) < MaxSent
    /\ flop' = Clocked(flop, din, dinValid, qRetry)
    /\ sent' = sent \o Word(Accepts(flop, dinValid), din)
    /\ received' = received \o Word(Delivers(flop, qRetry), flop.q)

Reset(din, qRetry) ==
    /\ flop' = ClockedInReset(flop, din, qRetry)
    /\ sent' = << >>
    /\ received' = << >>

Offer   == \E din \in Data, qRetry \in BOOLEAN : Clock(din, TRUE, qRetry)
Idle    == \E qRetry \in BOOLEAN : Clock(X, FALSE, qRetry)
InReset == \E din \in Wire, qRetry \in BOOLEAN : Reset(din, qRetry)

Next == Offer \/ Idle \/ InReset

Spec == Init /\ [][Next]_vars

-----------------------------------------------------------------------------
(* The consumer lets a word go again and again, as the testbenches do      *)
(* (tests/fork_fflop_tb.cpp:80-99 refuses for a random but bounded time).  *)
(* The producer owes nothing, and reset may come at any time.              *)
Consume == Clock(X, FALSE, FALSE) \/ \E din \in Data : Clock(din, TRUE, FALSE)

FairSpec == Spec /\ WF_vars(Consume)

-----------------------------------------------------------------------------
(* Nothing is lost, duplicated or reordered: what was received, followed   *)
(* by what the flop holds, is exactly what was sent.                       *)
Elastic == sent = received \o Contents(flop)

(* The shadow register is only used behind an occupied output, so that the *)
(* dinRetry it drives never blocks an empty flop.                          *)
ShadowBehindOutput == WellFormed(flop)

(* A word offered to the consumer and not taken stays offered, unchanged,  *)
(* whatever the producer drives meanwhile; only reset withdraws it.        *)
StableUntilTaken ==
    [][(flop.qValid /\ received' = received /\ ~InReset)
         => (flop'.qValid /\ flop'.q = flop.q)]_vars

(* Every word the producer saw taken reaches the consumer, unless a reset  *)
(* forgets it.                                                             *)
EventuallyDelivered ==
    \A n \in 1..MaxSent : (Len(sent) >= n) ~> (Len(received) >= n \/ Len(sent) < n)

(* The flop implements a two-place queue, and what is in the queue is what *)
(* the two handshakes say: a word the producer saw taken is not dropped at *)
(* the edge, and none appears that nobody sent.                            *)
Fifo == INSTANCE BoundedFifo WITH Capacity <- 2, queue <- Contents(flop)
FifoSpec == Fifo!Spec
=============================================================================
