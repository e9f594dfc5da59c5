------------------------------ MODULE ForkFflop ------------------------------
(***************************************************************************)
(* rtl/fork_fflop.v: one producer feeds two elastic flops, whose consumers *)
(* refuse independently.  A word must enter both flops or neither, though  *)
(* each flop decides alone whether it has room: the valid of each branch   *)
(* is masked by the refusal of the other.                                  *)
(***************************************************************************)
EXTENDS FflopOps

CONSTANTS Data,      \* the words: logic [7:0]
          X,         \* an undriven word
          MaxSent    \* bound on the words sent

VARIABLES ff_a, ff_b,                    \* the two flops
          sent, received_a, received_b   \* history of the three handshakes

vars == <<ff_a, ff_b, sent, received_a, received_b>>

Wire == Data \cup {X}

inp_aRetry == dinRetry(ff_a)
inp_bRetry == dinRetry(ff_b)
inp_Retry  == inp_aRetry \/ inp_bRetry

(* mutant: branch a does not wait for branch b *)
inp_aValidAlone(inp_Valid) == inp_Valid

inp_aValid(inp_Valid) == inp_Valid /\ ~inp_bRetry
inp_bValid(inp_Valid) == inp_Valid /\ ~inp_aRetry

Init ==
    /\ ff_a = FflopAfterReset(X) /\ ff_b = FflopAfterReset(X)
    /\ sent = << >> /\ received_a = << >> /\ received_b = << >>

Clock(inp, inp_Valid, out_aRetry, out_bRetry) ==
    /\ inp_Valid => Len(sent) < MaxSent
    /\ ff_a' = Clocked(ff_a, inp, inp_aValid(inp_Valid), out_aRetry)
    /\ ff_b' = Clocked(ff_b, inp, inp_bValid(inp_Valid), out_bRetry)
    /\ sent' = sent \o Word(inp_Valid /\ ~inp_Retry, inp)
    /\ received_a' = received_a \o Word(Delivers(ff_a, out_aRetry), ff_a.q)
    /\ received_b' = received_b \o Word(Delivers(ff_b, out_bRetry), ff_b.q)

Offer == \E inp \in Data, aRetry, bRetry \in BOOLEAN : Clock(inp, TRUE, aRetry, bRetry)
Idle  == \E aRetry, bRetry \in BOOLEAN : Clock(X, FALSE, aRetry, bRetry)

Next == Offer \/ Idle

Spec == Init /\ [][Next]_vars

(* Each consumer lets a word go again and again, each at times of its own. *)
AnyInput(aRetry, bRetry) ==
    Clock(X, FALSE, aRetry, bRetry) \/ \E inp \in Data : Clock(inp, TRUE, aRetry, bRetry)
ConsumeA == \E bRetry \in BOOLEAN : AnyInput(FALSE, bRetry)
ConsumeB == \E aRetry \in BOOLEAN : AnyInput(aRetry, FALSE)

FairSpec == Spec /\ WF_vars(ConsumeA) /\ WF_vars(ConsumeB)

-----------------------------------------------------------------------------
(* Both branches carry the very words the producer saw taken, in order: a  *)
(* word never enters one flop only (rtl/fork_fflop.v:24-31).               *)
SameOnBothBranches ==
    /\ sent = received_a \o Contents(ff_a)
    /\ sent = received_b \o Contents(ff_b)

(* A word taken reaches both consumers, though each may make the other wait. *)
EventuallyOnBoth ==
    \A n \in 1..MaxSent :
        (Len(sent) >= n) ~> (Len(received_a) >= n /\ Len(received_b) >= n)
=============================================================================
