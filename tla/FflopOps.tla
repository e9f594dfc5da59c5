------------------------------ MODULE FflopOps ------------------------------
(***************************************************************************)
(* The combinational equations of the elastic flop `fflop`                 *)
(* (rtl/fflop.v, the USE_SELF_W2R1 branch, the one `define selects).       *)
(*                                                                         *)
(* An fflop is the unit of storage every handshake of this design is       *)
(* built from: a producer offers din with dinValid, a consumer refuses q   *)
(* with qRetry, and the flop refuses the producer with dinRetry.  It has   *)
(* two places: q, which the consumer sees, and shadowq, which catches the  *)
(* word already in flight when the consumer starts to refuse.              *)
(*                                                                         *)
(* The operators are functions of one flop, a record, so that a module     *)
(* holding several flops clocks each of them with the same equations.      *)
(***************************************************************************)
EXTENDS Naturals, Sequences

FflopState(Data) ==
    [q : Data, qValid : BOOLEAN, shadowq : Data, shadowValid : BOOLEAN]

(* Reset clears the valid bits; the data registers keep whatever they hold. *)
FflopAfterReset(garbage) ==
    [q |-> garbage, qValid |-> FALSE, shadowq |-> garbage, shadowValid |-> FALSE]

(* A word is held at the output: valid and refused. *)
c1(f, qRetry) == f.qValid /\ qRetry

(* mutant: the shadow is forgotten when q moves on *)
c2NoShadow(f, dinValid) == dinValid

(* Something is waiting to move into q: a new word or the shadow. *)
c2(f, dinValid) == dinValid \/ f.shadowValid

s_enable(f) == ~f.shadowValid

dinRetry(f) == f.shadowValid

(* mutant: q reloads from din even when the shadow comes first *)
ClockedSkipsShadow(f, din, dinValid, qRetry) ==
    [ shadowValid |-> c1(f, qRetry) /\ c2(f, dinValid),
      qValid      |-> c1(f, qRetry) \/ c2(f, dinValid),
      shadowq     |-> IF s_enable(f) THEN din ELSE f.shadowq,
      q           |-> IF c1(f, qRetry) THEN f.q ELSE din ]

(* mutant: q is enabled by the shadow alone *)
ClockedOverwrites(f, din, dinValid, qRetry) ==
    [ shadowValid |-> c1(f, qRetry) /\ c2(f, dinValid),
      qValid      |-> c1(f, qRetry) \/ c2(f, dinValid),
      shadowq     |-> IF s_enable(f) THEN din ELSE f.shadowq,
      q           |-> IF s_enable(f) /\ dinValid THEN din
                      ELSE IF c1(f, qRetry) THEN f.q
                      ELSE IF s_enable(f) THEN din ELSE f.shadowq ]

(* mutant: the shadow register is never used *)
ClockedOnePlace(f, din, dinValid, qRetry) ==
    [ shadowValid |-> FALSE,
      qValid      |-> c1(f, qRetry) \/ c2(f, dinValid),
      shadowq     |-> din,
      q           |-> IF c1(f, qRetry) THEN f.q ELSE din ]

(* One rising edge of clk with reset low. *)
Clocked(f, din, dinValid, qRetry) ==
    [ shadowValid |-> c1(f, qRetry) /\ c2(f, dinValid),
      qValid      |-> c1(f, qRetry) \/ c2(f, dinValid),
      shadowq     |-> IF s_enable(f) THEN din ELSE f.shadowq,
      q           |-> IF c1(f, qRetry) THEN f.q
                      ELSE IF s_enable(f) THEN din ELSE f.shadowq ]

(* mutant: the reset of shadowValid is missing *)
ClockedInResetKeepsShadow(f, din, qRetry) ==
    [ Clocked(f, din, FALSE, qRetry) EXCEPT !.qValid = FALSE ]

(* One rising edge with reset high: only the valid bits are reset. *)
ClockedInReset(f, din, qRetry) ==
    [ Clocked(f, din, FALSE, qRetry) EXCEPT !.qValid      = FALSE,
                                            !.shadowValid = FALSE ]

(* The transfers that happen at an edge on either side of the flop. *)
Accepts(f, dinValid) == dinValid /\ ~dinRetry(f)
Delivers(f, qRetry)  == f.qValid /\ ~qRetry

(* The words a flop holds, the oldest first. *)
Contents(f) ==
    IF ~f.qValid THEN << >>
    ELSE IF f.shadowValid THEN <<f.q, f.shadowq>> ELSE <<f.q>>

(* A shadow word never waits behind an empty output. *)
WellFormed(f) == f.shadowValid => f.qValid

(* The words a transfer adds to a sequence of words. *)
Word(happens, w) == IF happens THEN <<w>> ELSE << >>
=============================================================================
