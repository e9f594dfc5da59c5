------------------------------ MODULE JoinFadd ------------------------------
(***************************************************************************)
(* rtl/join_fadd.v (LAZY_OPTION not defined): two producers meet in an     *)
(* adder; the sum leaves through two elastic flops in a row.  An operand   *)
(* is taken only in a cycle in which both are offered and the first flop   *)
(* has room.  A producer may withdraw a refused operand or change it.      *)
(***************************************************************************)
EXTENDS FflopOps

CONSTANTS Width,     \* of an operand and of the sum, 8 in the code
          X,         \* an undriven word
          MaxSent    \* bound on the pairs of operands sent

VARIABLES f1, f2,                    \* the two flops
          sent_a, sent_b, received   \* history of the three handshakes

vars == <<f1, f2, sent_a, sent_b, received>>

Operands == 0 .. 2^Width - 1
Wire == Operands \cup {X}

(* inp_a + inp_b in Width bits; undriven if an operand is *)
Sum(a, b) == IF X \in {a, b} THEN X ELSE (a + b) % 2^Width

inpRetry == dinRetry(f1)
inpValid(aValid, bValid) == aValid /\ bValid

(* mutant: an operand is taken though the other is missing *)
TakenAlone(valid, bothValid) == valid /\ ~inpRetry

(* An operand is taken unless its Retry is raised. *)
Taken(valid, bothValid) == valid /\ ~(inpRetry \/ (~bothValid /\ valid))

Init ==
    /\ f1 = FflopAfterReset(X) /\ f2 = FflopAfterReset(X)
    /\ sent_a = << >> /\ sent_b = << >> /\ received = << >>

Clock(a, aValid, b, bValid, sumRetry) ==
    LET both == inpValid(aValid, bValid) IN
    /\ aValid => Len(sent_a) < MaxSent
    /\ bValid => Len(sent_b) < MaxSent
    /\ f1' = Clocked(f1, Sum(a, b), both, dinRetry(f2))
    /\ f2' = Clocked(f2, f1.q, f1.qValid, sumRetry)
    /\ sent_a' = sent_a \o Word(Taken(aValid, both), a)
    /\ sent_b' = sent_b \o Word(Taken(bValid, both), b)
    /\ received' = received \o Word(Delivers(f2, sumRetry), f2.q)

OfferBoth == \E a, b \in Operands, sumRetry \in BOOLEAN : Clock(a, TRUE, b, TRUE, sumRetry)
OfferA == \E a \in Operands, sumRetry \in BOOLEAN : Clock(a, TRUE, X, FALSE, sumRetry)
OfferB == \E b \in Operands, sumRetry \in BOOLEAN : Clock(X, FALSE, b, TRUE, sumRetry)
Idle   == \E sumRetry \in BOOLEAN : Clock(X, FALSE, X, FALSE, sumRetry)

Next == OfferBoth \/ OfferA \/ OfferB \/ Idle

Spec == Init /\ [][Next]_vars

-----------------------------------------------------------------------------
(* The sums delivered and in flight, the oldest first. *)
Sums == received \o Contents(f2) \o Contents(f1)

(* The n-th sum is that of the n-th operand of each side, modulo 2^Width:  *)
(* no operand is taken alone, and none is paired with a later one.         *)
PairwiseSums ==
    /\ Len(sent_a) = Len(sent_b)
    /\ Sums = [i \in 1..Len(sent_a) |-> (sent_a[i] + sent_b[i]) % 2^Width]
=============================================================================
