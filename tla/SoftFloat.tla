------------------------------ MODULE SoftFloat ------------------------------
(* The floating-point library of the instruction set simulator: SoftFloat    *)
(* with the RISC-V specialization.  The two formats are parameters: words of *)
(* eb exponent and fb fraction bits, and g guard bits below the last place   *)
(* while a significand is worked on, so that a significand word has          *)
(* fb + g + 2 bits (8, 23, 7 and 32 for float32_t, 11, 52, 10 and 64 for     *)
(* float64_t).  The code's shift counts and exponent constants are written   *)
(* in terms of them; numbers are the words the code computes with.           *)
(*                                                                           *)
(* An operation returns its word z and the flags it raises.                  *)
EXTENDS Integers, FiniteSets

CONSTANTS F32, F64,    \* the formats, records of eb, fb and g
          I32Guard     \* guard bits of the conversions to 32-bit integers (7)

SigBits(f) == f.fb + f.g + 2
WI == SigBits(F32)     \* bits of uint32_t
WL == SigBits(F64)     \* bits of uint64_t

MaxExp(f) == 2 ^ f.eb - 1
Bias(f) == 2 ^ (f.eb - 1) - 1
Hidden(f) == 2 ^ f.fb
SignBit(f) == 2 ^ (f.eb + f.fb)
Words(f) == 0 .. 2 * SignBit(f) - 1

SignOf(f, a) == a \div SignBit(f)
ExpOf(f, a) == (a \div Hidden(f)) % 2 ^ f.eb
FracOf(f, a) == a % Hidden(f)
PackTo(f, sign, exp, sig) == sign * SignBit(f) + exp * Hidden(f) + sig
Opposite(s, t) == (s + t) % 2     \* exclusive or of two signs

IsNaN(f, a) == ExpOf(f, a) = MaxExp(f) /\ FracOf(f, a) # 0
IsSigNaN(f, a) == IsNaN(f, a) /\ FracOf(f, a) < Hidden(f) \div 2
IsZero(f, a) == a % SignBit(f) = 0
DefaultNaN(f) == PackTo(f, 0, MaxExp(f), Hidden(f) \div 2)
Infinity(f, sign) == PackTo(f, sign, MaxExp(f), 0)

Exactly(word) == [z |-> word, flags |-> {}]
Raising(word, flag) == [z |-> word, flags |-> {flag}]
InvalidNaN(f) == Raising(DefaultNaN(f), "invalid")
ZeroOfSum(f, rm) == Exactly(PackTo(f, IF rm = "min" THEN 1 ELSE 0, 0, 0))

PropagateNaN(f, uiA, uiB) ==
  [z |-> DefaultNaN(f),
   flags |-> IF IsSigNaN(f, uiA) \/ IsSigNaN(f, uiB) THEN {"invalid"} ELSE {}]
softfloat_propagateNaNF32UI(uiA, uiB) == PropagateNaN(F32, uiA, uiB)
softfloat_propagateNaNF64UI(uiA, uiB) == PropagateNaN(F64, uiA, uiB)

-----------------------------------------------------------------------------
(* Shifts that keep a trace of what they shift off in the lowest bit.        *)
Jam(x, lost) == IF lost /\ x % 2 = 0 THEN x + 1 ELSE x

(* mutant: what is shifted off is forgotten *)
ShiftRightNoJam(a, count) == IF count < 31 THEN a \div 2 ^ count ELSE 0

ShiftRightJam(a, count) ==
  IF count < 31 THEN Jam(a \div 2 ^ count, a % 2 ^ count # 0)
  ELSE IF a = 0 THEN 0 ELSE 1

\* The part shifted off, as a fraction of bits bits: half the word and more.
ShiftRightJam64Extra(a, count) ==
  IF count < WL
  THEN [v |-> a \div 2 ^ count, extra |-> (a % 2 ^ count) * 2 ^ (WL - count)]
  ELSE [v |-> 0, extra |-> IF count = WL THEN a ELSE IF a = 0 THEN 0 ELSE 1]

BitLength(x) == CHOOSE n \in 0 .. 30 : x < 2 ^ n /\ (n = 0 \/ 2 ^ (n - 1) <= x)
CountLeadingZeros(bits, x) == bits - BitLength(x)

NormSubnormal(f, sig) ==
  LET shift == f.fb + 1 - BitLength(sig)
  IN  [exp |-> 1 - shift, sig |-> sig * 2 ^ shift]
softfloat_normSubnormalF32Sig(sig) == NormSubnormal(F32, sig)
softfloat_normSubnormalF64Sig(sig) == NormSubnormal(F64, sig)

\* Exponent and significand, hidden bit in place, of a finite number not zero.
Unpacked(f, a) ==
  IF ExpOf(f, a) = 0 THEN NormSubnormal(f, FracOf(f, a))
  ELSE [exp |-> ExpOf(f, a), sig |-> Hidden(f) + FracOf(f, a)]

-----------------------------------------------------------------------------
(* Rounding.                                                                 *)
RoundIncrement(rm, sign, half) ==
  IF rm \in {"near_even", "near_maxMag"} THEN half
  ELSE IF rm = (IF sign = 1 THEN "min" ELSE "max") THEN 2 * half - 1 ELSE 0

\* (sig + increment) >> guard, and to even on a tie.
RoundedShift(rm, sign, sig, half) ==
  LET up == (sig + RoundIncrement(rm, sign, half)) \div (2 * half)
  IN  IF rm = "near_even" /\ sig % (2 * half) = half THEN up - (up % 2) ELSE up

(* mutant: a result is tiny by its exponent before rounding *)
IsTinyBefore(f, rm, sign, exp, sig) == exp < 0

IsTiny(f, rm, sign, exp, sig) ==
  exp < 0 /\ (exp < -1 \/ sig + RoundIncrement(rm, sign, 2 ^ (f.g - 1)) < 2 ^ (f.fb + f.g + 1))

RoundPack(f, rm, sign, exp, sig) ==
  LET half == 2 ^ (f.g - 1)
      inc  == RoundIncrement(rm, sign, half)
      top  == MaxExp(f) - 2
      s    == IF exp < 0 THEN ShiftRightJam(sig, -exp) ELSE sig
      z    == RoundedShift(rm, sign, s, half)
      lost == s % (2 * half) # 0
  IN  IF exp > top \/ (exp = top /\ sig + inc >= 2 ^ (f.fb + f.g + 1))
      THEN [z |-> Infinity(f, sign) - (IF inc = 0 THEN 1 ELSE 0), flags |-> {"overflow", "inexact"}]
      ELSE [z |-> PackTo(f, sign, IF z = 0 \/ exp < 0 THEN 0 ELSE exp, z),
            flags |-> (IF lost THEN {"inexact"} ELSE {})
                      \cup (IF lost /\ IsTiny(f, rm, sign, exp, sig) THEN {"underflow"} ELSE {})]
softfloat_roundPackToF32(rm, sign, exp, sig) == RoundPack(F32, rm, sign, exp, sig)
softfloat_roundPackToF64(rm, sign, exp, sig) == RoundPack(F64, rm, sign, exp, sig)

NormRoundPack(f, rm, sign, exp, sig) ==
  LET shift == SigBits(f) - BitLength(sig) - 1
      e     == exp - shift
  IN  IF shift >= f.g /\ e \in 0 .. MaxExp(f) - 3
      THEN Exactly(PackTo(f, sign, IF sig = 0 THEN 0 ELSE e, sig * 2 ^ (shift - f.g)))
      ELSE RoundPack(f, rm, sign, e, sig * 2 ^ shift)
softfloat_normRoundPackToF32(rm, sign, exp, sig) == NormRoundPack(F32, rm, sign, exp, sig)
softfloat_normRoundPackToF64(rm, sign, exp, sig) == NormRoundPack(F64, rm, sign, exp, sig)

-----------------------------------------------------------------------------
(* Sums of magnitudes.                                                       *)

\* The smaller operand's significand under the larger's exponent.
Aligned(f, a, diff, guard) ==
  LET sig == FracOf(f, a) * 2 ^ guard
  IN  ShiftRightJam(IF ExpOf(f, a) = 0 THEN 2 * sig ELSE Hidden(f) * 2 ^ guard + sig, diff)

AddMags(f, rm, uiA, uiB, signZ) ==
  LET expA == ExpOf(f, uiA)
      expB == ExpOf(f, uiB)
      exp  == IF expA < expB THEN expB ELSE expA
      big  == IF expA < expB THEN uiB ELSE uiA
      tiny == IF expA < expB THEN uiA ELSE uiB
      one  == Hidden(f) * 2 ^ (f.g - 1)
      sig  == one + FracOf(f, big) * 2 ^ (f.g - 1) + Aligned(f, tiny, 2 * exp - expA - expB, f.g - 1)
  IN  IF exp = MaxExp(f)
      THEN IF IsNaN(f, uiA) \/ IsNaN(f, uiB) THEN PropagateNaN(f, uiA, uiB)
           ELSE Exactly(Infinity(f, signZ))
      ELSE IF exp = 0 THEN Exactly(PackTo(f, signZ, 0, (uiA + uiB) % SignBit(f)))
      ELSE IF expA = expB
      THEN RoundPack(f, rm, signZ, exp, 2 * one + (FracOf(f, uiA) + FracOf(f, uiB)) * 2 ^ (f.g - 1))
      ELSE IF sig < 2 * one THEN RoundPack(f, rm, signZ, exp - 1, 2 * sig)
      ELSE RoundPack(f, rm, signZ, exp, sig)
softfloat_addMagsF32(rm, uiA, uiB, signZ) == AddMags(F32, rm, uiA, uiB, signZ)
softfloat_addMagsF64(rm, uiA, uiB, signZ) == AddMags(F64, rm, uiA, uiB, signZ)

SubMags(f, rm, uiA, uiB, signZ) ==
  LET expA == ExpOf(f, uiA)
      expB == ExpOf(f, uiB)
      exp  == IF expA < expB THEN expB ELSE expA
      bBig == uiA % SignBit(f) < uiB % SignBit(f)
      sign == IF bBig THEN 1 - signZ ELSE signZ
      big  == IF bBig THEN uiB ELSE uiA
      tiny == IF bBig THEN uiA ELSE uiB
      diff == 2 * exp - expA - expB
      \* equal exponents, both zero included, need no hidden bit
      sig  == IF diff = 0 THEN (FracOf(f, big) - FracOf(f, tiny)) * 2 ^ f.g
              ELSE (Hidden(f) + FracOf(f, big)) * 2 ^ f.g - Aligned(f, tiny, diff, f.g)
  IN  IF exp = MaxExp(f)
      THEN IF IsNaN(f, uiA) \/ IsNaN(f, uiB) THEN PropagateNaN(f, uiA, uiB)
           ELSE IF expA = expB THEN InvalidNaN(f)
           ELSE Exactly(Infinity(f, sign))
      ELSE IF diff = 0 /\ sig = 0 THEN ZeroOfSum(f, rm)
      ELSE NormRoundPack(f, rm, sign, (IF exp = 0 THEN 1 ELSE exp) - 1, sig)
softfloat_subMagsF32(rm, uiA, uiB, signZ) == SubMags(F32, rm, uiA, uiB, signZ)
softfloat_subMagsF64(rm, uiA, uiB, signZ) == SubMags(F64, rm, uiA, uiB, signZ)

Add(f, rm, a, b) ==
  IF SignOf(f, a) = SignOf(f, b) THEN AddMags(f, rm, a, b, SignOf(f, a))
  ELSE SubMags(f, rm, a, b, SignOf(f, a))
Sub(f, rm, a, b) ==
  IF SignOf(f, a) = SignOf(f, b) THEN SubMags(f, rm, a, b, SignOf(f, a))
  ELSE AddMags(f, rm, a, b, SignOf(f, a))
f32_add(rm, a, b) == Add(F32, rm, a, b)
f64_add(rm, a, b) == Add(F64, rm, a, b)
f32_sub(rm, a, b) == Sub(F32, rm, a, b)
f64_sub(rm, a, b) == Sub(F64, rm, a, b)
=============================================================================
