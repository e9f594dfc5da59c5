-------------------------- MODULE SoftFloatConvert --------------------------
(* SoftFloat's comparisons and classes, rounding to an integral value, and   *)
(* the conversions between the formats and the integers of WI and WL bits.   *)
(* The flag exact of the conversions is TRUE, as the simulator passes it.    *)
EXTENDS SoftFloat

Eq(f, a, b) == ~IsNaN(f, a) /\ ~IsNaN(f, b) /\ (a = b \/ (IsZero(f, a) /\ IsZero(f, b)))

(* mutant: negative numbers are ordered as positive ones *)
BelowUnsigned(f, a, b) ==
  IF SignOf(f, a) # SignOf(f, b) THEN SignOf(f, a) = 1 /\ ~(IsZero(f, a) /\ IsZero(f, b)) ELSE a < b

Below(f, a, b) ==
  IF SignOf(f, a) # SignOf(f, b) THEN SignOf(f, a) = 1 /\ ~(IsZero(f, a) /\ IsZero(f, b))
  ELSE a # b /\ (SignOf(f, a) = 1) # (a < b)
Lt(f, a, b) == ~IsNaN(f, a) /\ ~IsNaN(f, b) /\ Below(f, a, b)
Le(f, a, b) ==
  /\ ~IsNaN(f, a) /\ ~IsNaN(f, b)
  /\ IF SignOf(f, a) # SignOf(f, b) THEN SignOf(f, a) = 1 \/ (IsZero(f, a) /\ IsZero(f, b))
     ELSE a = b \/ (SignOf(f, a) = 1) # (a < b)
Quiet(f, a, b, z) ==
  [z |-> z, flags |-> IF IsSigNaN(f, a) \/ IsSigNaN(f, b) THEN {"invalid"} ELSE {}]
Signaling(f, a, b, z) ==
  [z |-> z, flags |-> IF IsNaN(f, a) \/ IsNaN(f, b) THEN {"invalid"} ELSE {}]

f32_eq(a, b) == Quiet(F32, a, b, Eq(F32, a, b))
f64_eq(a, b) == Quiet(F64, a, b, Eq(F64, a, b))
f32_eq_signaling(a, b) == Signaling(F32, a, b, Eq(F32, a, b))
f64_eq_signaling(a, b) == Signaling(F64, a, b, Eq(F64, a, b))
f32_le(a, b) == Signaling(F32, a, b, Le(F32, a, b))
f64_le(a, b) == Signaling(F64, a, b, Le(F64, a, b))
f32_le_quiet(a, b) == Quiet(F32, a, b, Le(F32, a, b))
f64_le_quiet(a, b) == Quiet(F64, a, b, Le(F64, a, b))
f32_lt(a, b) == Signaling(F32, a, b, Lt(F32, a, b))
f64_lt(a, b) == Signaling(F64, a, b, Lt(F64, a, b))
f32_lt_quiet(a, b) == Quiet(F32, a, b, Lt(F32, a, b))
f64_lt_quiet(a, b) == Quiet(F64, a, b, Lt(F64, a, b))

\* The bits that are set in the result.
Classes(f, a) ==
  LET side(neg, pos) == IF SignOf(f, a) = 1 THEN neg ELSE pos
      zero == IsZero(f, a)
      low  == ExpOf(f, a) = 0
      high == ExpOf(f, a) = MaxExp(f)
      inf  == high /\ FracOf(f, a) = 0
  IN  {side(0, 7) : x \in {y \in {1} : inf}}
      \cup {side(1, 6) : x \in {y \in {1} : ~high /\ ~low}}
      \cup {side(2, 5) : x \in {y \in {1} : low /\ ~zero}}
      \cup {side(3, 4) : x \in {y \in {1} : zero}}
      \cup {IF IsSigNaN(f, a) THEN 8 ELSE 9 : x \in {y \in {1} : IsNaN(f, a)}}
f32_classify(a) == Classes(F32, a)
f64_classify(a) == Classes(F64, a)

-----------------------------------------------------------------------------
Inexact(word, lost) == [z |-> word, flags |-> IF lost THEN {"inexact"} ELSE {}]

\* Below one: which of the two integers next to a.
TinyToInt(f, rm, a) ==
  LET sign == SignOf(f, a)
      one  == \/ /\ rm = "near_even" /\ FracOf(f, a) # 0 /\ ExpOf(f, a) = Bias(f) - 1
              \/ /\ rm = "near_maxMag" /\ ExpOf(f, a) = Bias(f) - 1
              \/ rm = "min" /\ sign = 1
              \/ rm = "max" /\ sign = 0
  IN  Inexact(PackTo(f, sign, IF one THEN Bias(f) ELSE 0, 0), TRUE)

\* Works on the whole word: a carry out of the fraction raises the exponent.
RoundToInt(f, rm, a) ==
  LET unit == 2 ^ (Bias(f) + f.fb - ExpOf(f, a))
      up   == a + (IF rm \in {"near_maxMag", "near_even"} THEN unit \div 2
                   ELSE IF rm # "minMag" /\ (SignOf(f, a) = 1) # (rm = "max") THEN unit - 1 ELSE 0)
      down == up - (up % unit)
      z    == IF rm = "near_even" /\ up % unit = 0 /\ (up \div unit) % 2 = 1 THEN down - unit ELSE down
  IN  IF IsNaN(f, a) THEN PropagateNaN(f, a, 0)
      ELSE IF IsZero(f, a) \/ ExpOf(f, a) >= Bias(f) + f.fb THEN Exactly(a)
      ELSE IF ExpOf(f, a) < Bias(f) THEN TinyToInt(f, rm, a)
      ELSE Inexact(z, z # a)
f32_roundToInt(rm, a) == RoundToInt(F32, rm, a)
f64_roundToInt(rm, a) == RoundToInt(F64, rm, a)

-----------------------------------------------------------------------------
(* Between the formats.                                                      *)
f32_to_f64(a) ==
  LET sign == SignOf(F32, a)
      u    == IF ExpOf(F32, a) = 0 THEN NormSubnormal(F32, FracOf(F32, a))
              ELSE [exp |-> ExpOf(F32, a) + 1, sig |-> FracOf(F32, a)]
  IN  IF IsNaN(F32, a)
      THEN [z |-> DefaultNaN(F64), flags |-> IF IsSigNaN(F32, a) THEN {"invalid"} ELSE {}]
      ELSE IF ExpOf(F32, a) = MaxExp(F32) THEN Exactly(Infinity(F64, sign))
      ELSE IF IsZero(F32, a) THEN Exactly(PackTo(F64, sign, 0, 0))
      \* a hidden bit that normalization left in place raises the exponent
      ELSE Exactly(PackTo(F64, sign, u.exp - 1 + Bias(F64) - Bias(F32), u.sig * 2 ^ (F64.fb - F32.fb)))

(* mutant: the significand keeps no trace of the bits cut off *)
Shortened32NoJam(a) == FracOf(F64, a) \div 2 ^ (F64.fb + 2 - WI)

Shortened32(a) == ShiftRightJam(FracOf(F64, a), F64.fb + 2 - WI)

f64_to_f32(rm, a) ==
  LET sign == SignOf(F64, a)
      exp  == ExpOf(F64, a)
      sig  == Shortened32(a)
  IN  IF IsNaN(F64, a)
      THEN [z |-> DefaultNaN(F32), flags |-> IF IsSigNaN(F64, a) THEN {"invalid"} ELSE {}]
      ELSE IF exp = MaxExp(F64) THEN Exactly(Infinity(F32, sign))
      ELSE IF exp = 0 /\ sig = 0 THEN Exactly(PackTo(F32, sign, 0, 0))
      ELSE RoundPack(F32, rm, sign, exp - (Bias(F64) - Bias(F32) + 1), 2 ^ (WI - 2) + sig)

-----------------------------------------------------------------------------
(* To integers of w bits.  signed tells int from uint.                       *)
IntMax(w, signed) == 2 ^ (IF signed THEN w - 1 ELSE w) - 1
IntMin(w, signed) == IF signed THEN -(2 ^ (w - 1)) ELSE 0
Twos(w, x) == LET m == x % 2 ^ w IN IF m >= 2 ^ (w - 1) THEN m - 2 ^ w ELSE m

Saturated(w, signed, sign) == Raising(IF sign = 1 THEN IntMin(w, signed) ELSE IntMax(w, signed), "invalid")
InvalidInt(f, a, w, signed) == Saturated(w, signed, IF IsNaN(f, a) THEN 0 ELSE SignOf(f, a))

\* A NaN converts with the sign of the positive overflow.
SignToInt(f, a) == IF IsNaN(f, a) THEN 0 ELSE SignOf(f, a)
SigToInt(f, a) == FracOf(f, a) + (IF ExpOf(f, a) = 0 THEN 0 ELSE Hidden(f))

\* A magnitude given its sign, unless the integer type cannot hold it.
Signed(w, signed, sign, sig, lost) ==
  LET z == IF signed THEN Twos(w, IF sign = 1 THEN -sig ELSE sig) ELSE sig
  IN  IF z # 0 /\ (IF signed THEN (z < 0) # (sign = 1) ELSE sign = 1)
      THEN Saturated(w, signed, sign) ELSE Inexact(z, lost)

RoundPackTo32(signed, sign, sig, rm) ==
  LET half == 2 ^ (I32Guard - 1)
  IN  IF sig + RoundIncrement(rm, sign, half) >= 2 ^ (WI + I32Guard) THEN Saturated(WI, signed, sign)
      ELSE Signed(WI, signed, sign, RoundedShift(rm, sign, sig, half), sig % (2 * half) # 0)
softfloat_roundPackToI32(sign, sig, rm) == RoundPackTo32(TRUE, sign, sig, rm)
softfloat_roundPackToUI32(sign, sig, rm) == RoundPackTo32(FALSE, sign, sig, rm)

RoundPackTo64(signed, sign, sig, extra, rm) ==
  LET half == 2 ^ (WL - 1)
      up   == IF rm \in {"near_even", "near_maxMag"} THEN extra >= half
              ELSE rm = (IF sign = 1 THEN "min" ELSE "max") /\ extra # 0
      tie  == up /\ rm = "near_even" /\ extra = half /\ sig % 2 = 0     \* made odd by the increment
      z    == IF up /\ ~tie THEN sig + 1 ELSE sig
  IN  IF z = 2 ^ WL THEN Saturated(WL, signed, sign) ELSE Signed(WL, signed, sign, z, extra # 0)
softfloat_roundPackToI64(sign, sig, extra, rm) == RoundPackTo64(TRUE, sign, sig, extra, rm)
softfloat_roundPackToUI64(sign, sig, extra, rm) == RoundPackTo64(FALSE, sign, sig, extra, rm)

F32To32(a) == ShiftRightJam(SigToInt(F32, a) * 2 ^ WI,
                LET d == Bias(F32) + F32.fb + WI - I32Guard - ExpOf(F32, a) IN IF d > 0 THEN d ELSE 0)
f32_to_i32(rm, a) == softfloat_roundPackToI32(SignToInt(F32, a), F32To32(a), rm)
f32_to_ui32(rm, a) == softfloat_roundPackToUI32(SignToInt(F32, a), F32To32(a), rm)

F64To32(a) == ShiftRightJam(SigToInt(F64, a),
                LET d == Bias(F64) + F64.fb - I32Guard - ExpOf(F64, a) IN IF d > 0 THEN d ELSE 0)
f64_to_i32(rm, a) == softfloat_roundPackToI32(SignToInt(F64, a), F64To32(a), rm)
f64_to_ui32(rm, a) == softfloat_roundPackToUI32(SignToInt(F64, a), F64To32(a), rm)

F32To64(rm, a, signed) ==
  LET shift == Bias(F32) + WL - 1 - ExpOf(F32, a)
      sig   == SigToInt(F32, a) * 2 ^ (WL - 1 - F32.fb)
      x     == ShiftRightJam64Extra(sig, shift)
  IN  IF shift < 0 THEN InvalidInt(F32, a, WL, signed)
      ELSE RoundPackTo64(signed, SignOf(F32, a), IF shift = 0 THEN sig ELSE x.v, IF shift = 0 THEN 0 ELSE x.extra, rm)
f32_to_i64(rm, a) == F32To64(rm, a, TRUE)
f32_to_ui64(rm, a) == F32To64(rm, a, FALSE)

F64To64(rm, a, signed) ==
  LET shift == Bias(F64) + F64.fb - ExpOf(F64, a)
      sig   == SigToInt(F64, a)
      x     == ShiftRightJam64Extra(sig, shift)
  IN  IF shift < -(WL - 1 - F64.fb) THEN InvalidInt(F64, a, WL, signed)
      ELSE IF shift <= 0 THEN RoundPackTo64(signed, SignOf(F64, a), sig * 2 ^ (-shift), 0, rm)
      ELSE RoundPackTo64(signed, SignOf(F64, a), x.v, x.extra, rm)
f64_to_i64(rm, a) == F64To64(rm, a, TRUE)
f64_to_ui64(rm, a) == F64To64(rm, a, FALSE)

-----------------------------------------------------------------------------
(* To integers, toward zero: without the rounding step.                      *)
WithSign(sign, z, lost) == Inexact(IF sign = 1 THEN -z ELSE z, lost)
ZeroOrTiny(f, a) == Inexact(0, ~IsZero(f, a))

\* The significand as a word of w bits, its leading bit at the top.
F32MinMag(a, w, signed) ==
  LET sign  == SignOf(F32, a)
      shift == Bias(F32) + w - 1 - ExpOf(F32, a)
      sig   == (Hidden(F32) + FracOf(F32, a)) * 2 ^ (w - 1 - F32.fb)
  IN  IF shift >= w THEN ZeroOrTiny(F32, a)
      ELSE IF signed /\ a = PackTo(F32, 1, Bias(F32) + w - 1, 0) THEN Exactly(IntMin(w, TRUE))
      ELSE IF (IF signed THEN shift <= 0 ELSE sign = 1 \/ shift < 0) THEN InvalidInt(F32, a, w, signed)
      ELSE WithSign(sign, sig \div 2 ^ shift, sig % 2 ^ shift # 0)
f32_to_i32_r_minMag(a) == F32MinMag(a, WI, TRUE)
f32_to_ui32_r_minMag(a) == F32MinMag(a, WI, FALSE)
f32_to_i64_r_minMag(a) == F32MinMag(a, WL, TRUE)
f32_to_ui64_r_minMag(a) == F32MinMag(a, WL, FALSE)

F64Shift(a) == Bias(F64) + F64.fb - ExpOf(F64, a)
F64Cut(a) ==
  LET sig   == Hidden(F64) + FracOf(F64, a)
      shift == F64Shift(a)
  IN  IF shift <= 0 THEN WithSign(SignOf(F64, a), sig * 2 ^ (-shift), FALSE)
      ELSE WithSign(SignOf(F64, a), sig \div 2 ^ shift, sig % 2 ^ shift # 0)
\* -2^31 and the fractions below it, which the exponent alone would refuse
IsI32Min(a) ==
  SignOf(F64, a) = 1 /\ ExpOf(F64, a) = Bias(F64) + WI - 1 /\ FracOf(F64, a) < 2 ^ (F64.fb + 1 - WI)

f64_to_i32_r_minMag(a) ==
  IF F64Shift(a) >= F64.fb + 1 THEN ZeroOrTiny(F64, a)
  ELSE IF F64Shift(a) >= F64.fb + 2 - WI THEN F64Cut(a)
  ELSE IF IsI32Min(a) THEN Inexact(IntMin(WI, TRUE), FracOf(F64, a) # 0)
  ELSE InvalidInt(F64, a, WI, TRUE)
f64_to_ui32_r_minMag(a) ==
  IF F64Shift(a) >= F64.fb + 1 THEN ZeroOrTiny(F64, a)
  ELSE IF SignOf(F64, a) = 1 \/ F64Shift(a) < F64.fb + 1 - WI THEN InvalidInt(F64, a, WI, FALSE)
  ELSE F64Cut(a)
f64_to_i64_r_minMag(a) ==
  IF F64Shift(a) >= F64.fb + 1 THEN ZeroOrTiny(F64, a)
  ELSE IF F64Shift(a) >= -(WL - 2 - F64.fb) THEN F64Cut(a)
  ELSE IF a = PackTo(F64, 1, Bias(F64) + WL - 1, 0) THEN Exactly(IntMin(WL, TRUE))
  ELSE InvalidInt(F64, a, WL, TRUE)
f64_to_ui64_r_minMag(a) ==
  IF F64Shift(a) >= F64.fb + 1 THEN ZeroOrTiny(F64, a)
  ELSE IF SignOf(F64, a) = 1 \/ F64Shift(a) < -(WL - 1 - F64.fb) THEN InvalidInt(F64, a, WL, FALSE)
  ELSE F64Cut(a)

-----------------------------------------------------------------------------
(* From integers.                                                            *)
Sign(i) == IF i < 0 THEN 1 ELSE 0
Abs(i) == IF i < 0 THEN -i ELSE i

\* Same width: a word with its top bit set has no room for the hidden bit.
SignedToSame(f, rm, i) ==
  IF i = 0 THEN Exactly(0)
  ELSE IF i = IntMin(SigBits(f), TRUE) THEN Exactly(PackTo(f, 1, Bias(f) + SigBits(f) - 1, 0))
  ELSE NormRoundPack(f, rm, Sign(i), Bias(f) + SigBits(f) - 3, Abs(i))
UnsignedToSame(f, rm, i) ==
  IF i = 0 THEN Exactly(0)
  ELSE IF i >= 2 ^ (SigBits(f) - 1) THEN RoundPack(f, rm, 0, Bias(f) + SigBits(f) - 2, ShiftRightJam(i, 1))
  ELSE NormRoundPack(f, rm, 0, Bias(f) + SigBits(f) - 3, i)
i32_to_f32(rm, i) == SignedToSame(F32, rm, i)
i64_to_f64(rm, i) == SignedToSame(F64, rm, i)
ui32_to_f32(rm, i) == UnsignedToSame(F32, rm, i)
ui64_to_f64(rm, i) == UnsignedToSame(F64, rm, i)

Int32ToF64(i) ==
  LET shift == CountLeadingZeros(WI, Abs(i)) + F64.fb + 1 - WI
  IN  Exactly(IF i = 0 THEN 0 ELSE PackTo(F64, Sign(i), Bias(F64) + F64.fb - 1 - shift, Abs(i) * 2 ^ shift))
i32_to_f64(i) == Int32ToF64(i)
ui32_to_f64(i) == Int32ToF64(i)

Int64ToF32(rm, i) ==
  LET shift == CountLeadingZeros(WL, Abs(i)) - (WL - 1 - F32.fb)
      s     == shift + F32.g
  IN  IF i = 0 THEN Exactly(0)
      ELSE IF shift >= 0 THEN Exactly(PackTo(F32, Sign(i), Bias(F32) + F32.fb - 1 - shift, Abs(i) * 2 ^ shift))
      ELSE RoundPack(F32, rm, Sign(i), Bias(F32) + WI - 3 - s,
                     IF s < 0 THEN ShiftRightJam(Abs(i), -s) ELSE Abs(i) * 2 ^ s)
i64_to_f32(rm, i) == Int64ToF32(rm, i)
ui64_to_f32(rm, i) == Int64ToF32(rm, i)
=============================================================================
