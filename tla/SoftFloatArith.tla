--------------------------- MODULE SoftFloatArith ---------------------------
(* Products, quotients, roots, fused multiply-add, rounding to an integer,   *)
(* comparisons and classes of SoftFloat.  The estimates of a square root     *)
(* that the code refines are abstracted to the root they approach, with a    *)
(* trace of the remainder; the quotient of 64-bit numbers is computed as the *)
(* code computes it, from a reciprocal of half the word.                     *)
EXTENDS SoftFloat

IsInf(f, a) == a % SignBit(f) = MaxExp(f) * Hidden(f)

Mul(f, rm, a, b) ==
  LET signZ == Opposite(SignOf(f, a), SignOf(f, b))
      ua    == Unpacked(f, a)
      ub    == Unpacked(f, b)
      exp   == ua.exp + ub.exp - Bias(f)
      sig   == ShiftRightJam((ua.sig * 2 ^ f.g) * (ub.sig * 2 ^ (f.g + 1)), SigBits(f))
  IN  IF IsNaN(f, a) \/ IsNaN(f, b) THEN PropagateNaN(f, a, b)
      ELSE IF IsInf(f, a) \/ IsInf(f, b)
      THEN IF IsZero(f, a) \/ IsZero(f, b) THEN InvalidNaN(f) ELSE Exactly(Infinity(f, signZ))
      ELSE IF IsZero(f, a) \/ IsZero(f, b) THEN Exactly(PackTo(f, signZ, 0, 0))
      ELSE IF sig < 2 ^ (f.fb + f.g) THEN RoundPack(f, rm, signZ, exp - 1, 2 * sig)
      ELSE RoundPack(f, rm, signZ, exp, sig)
f32_mul(rm, a, b) == Mul(F32, rm, a, b)
f64_mul(rm, a, b) == Mul(F64, rm, a, b)

(* The significand of a quotient; sigA is already shifted so that it has     *)
(* its leading bit at its place.                                             *)
Quotient32(sigA, sigB) ==
  LET q == sigA \div sigB
  IN  IF q % 2 ^ (F32.g - 1) = 0 THEN Jam(q, sigB * q # sigA) ELSE q

approxRecip32_1(a) == (2 ^ (WL - 1) - 1) \div a

(* mutant: the second estimate is taken to be exact *)
Quotient64NoCheck(sigA, b) ==
  LET h      == WL \div 2
      sigB   == b * 2 ^ (F64.g + 1)
      recip  == approxRecip32_1(sigB \div 2 ^ h) - 2
      first  == ((sigA \div 2 ^ h) * recip) \div 2 ^ h
      rem    == ((sigA - 2 * first * (sigB \div 2 ^ h)) * 2 ^ (h - 4)
                 - 2 * first * ((sigB % 2 ^ h) \div 16)) % 2 ^ WL
  IN  first * 2 ^ h + 16 * (((rem \div 2 ^ h) * recip) \div 2 ^ h + 4)

\* Two estimates of half a word each, never above what is left; the low bits
\* of their sum are made exact when they could decide the rounding.
Quotient64(sigA, b) ==
  LET h      == WL \div 2
      sigB   == b * 2 ^ (F64.g + 1)
      hi     == sigB \div 2 ^ h
      recip  == approxRecip32_1(hi) - 2
      Rem(left, double) ==
        ((left - double * hi) * 2 ^ (h - 4) - double * ((sigB % 2 ^ h) \div 16)) % 2 ^ WL
      first  == ((sigA \div 2 ^ h) * recip) \div 2 ^ h
      rem    == Rem(sigA, 2 * first)
      q      == ((rem \div 2 ^ h) * recip) \div 2 ^ h + 4
      sig    == first * 2 ^ h + 16 * q
      down   == sig - (sig % 2 ^ 7)
      left   == Rem(rem, 2 * (q - (q % 8)))
  IN  IF sig % 2 ^ 9 >= 4 * 16 THEN sig
      ELSE IF left >= 2 ^ (WL - 1) THEN down - 2 ^ 7
      ELSE Jam(down, left # 0)

Div(f, rm, a, b, Quotient(_, _)) ==
  LET signZ == Opposite(SignOf(f, a), SignOf(f, b))
      ua    == Unpacked(f, a)
      ub    == Unpacked(f, b)
      less  == ua.sig < ub.sig
  IN  IF IsNaN(f, a) \/ IsNaN(f, b) THEN PropagateNaN(f, a, b)
      ELSE IF IsInf(f, a)
      THEN IF IsInf(f, b) THEN InvalidNaN(f) ELSE Exactly(Infinity(f, signZ))
      ELSE IF IsInf(f, b) THEN Exactly(PackTo(f, signZ, 0, 0))
      ELSE IF IsZero(f, b)
      THEN IF IsZero(f, a) THEN InvalidNaN(f) ELSE Raising(Infinity(f, signZ), "infinite")
      ELSE IF IsZero(f, a) THEN Exactly(PackTo(f, signZ, 0, 0))
      ELSE RoundPack(f, rm, signZ, ua.exp - ub.exp + Bias(f) - (IF less THEN 2 ELSE 1),
                     Quotient(IF less THEN 2 * ua.sig ELSE ua.sig, ub.sig))
f32_div(rm, a, b) ==
  LET Q(sigA, sigB) == Quotient32(sigA * 2 ^ (F32.fb + F32.g), sigB) IN Div(F32, rm, a, b, Q)
f64_div(rm, a, b) ==
  LET Q(sigA, sigB) == Quotient64(sigA * 2 ^ F64.g, sigB) IN Div(F64, rm, a, b, Q)

\* The integer root of n, with a trace of the remainder.
RootJam(n) ==
  LET r == CHOOSE r \in 0 .. 2 ^ ((BitLength(n) + 1) \div 2) : r * r <= n /\ n < (r + 1) * (r + 1)
  IN  Jam(r, r * r # n)

Sqrt(f, rm, a) ==
  LET ua  == Unpacked(f, a)
      odd == ua.exp % 2        \* the significand counts for 1 to 2, else for 2 to 4
  IN  IF IsNaN(f, a) THEN PropagateNaN(f, a, 0)
      ELSE IF IsZero(f, a) \/ a = Infinity(f, 0) THEN Exactly(a)
      ELSE IF SignOf(f, a) = 1 THEN InvalidNaN(f)
      ELSE RoundPack(f, rm, 0, ((ua.exp - Bias(f)) \div 2) + Bias(f) - 1,
                     RootJam(ua.sig * 2 ^ (f.fb + 2 * f.g + 1 - odd)))
f32_sqrt(rm, a) == Sqrt(F32, rm, a)
f64_sqrt(rm, a) == Sqrt(F64, rm, a)

(* The remainder after division by b, with a quotient that is the nearest    *)
(* integer.  The loops that find the quotient from a reciprocal, 29 bits at  *)
(* a time, are abstracted to the integer quotient.                           *)

(* mutant: halfway, the quotient is rounded down *)
NearerRemDown(alt, q, sigB) == IF 2 * alt > sigB THEN alt - sigB ELSE alt

\* Of the remainders of q and of q + 1, the nearer, or that of the even one.
NearerRem(alt, q, sigB) ==
  LET rem  == alt - sigB
      mean == rem + alt
  IN  IF mean < 0 \/ (mean = 0 /\ (q + 1) % 2 = 1) THEN alt ELSE rem

Rem(f, rm, a, b) ==
  LET ua   == Unpacked(f, a)
      ub   == Unpacked(f, b)
      diff == ua.exp - ub.exp
      sigB == ub.sig * 2 ^ (f.g - 1)
      sigA == IF diff < 0 THEN ua.sig * 2 ^ (f.g - 2) ELSE ua.sig * 2 ^ (f.g - 1 + diff)
      rem  == NearerRem(sigA % sigB, sigA \div sigB, sigB)
      sign == IF rem < 0 THEN Opposite(SignOf(f, a), 1) ELSE SignOf(f, a)
  IN  IF IsNaN(f, a) \/ IsNaN(f, b) THEN PropagateNaN(f, a, b)
      ELSE IF IsInf(f, a) THEN InvalidNaN(f)
      ELSE IF IsInf(f, b) THEN Exactly(a)
      ELSE IF IsZero(f, b) THEN InvalidNaN(f)
      ELSE IF IsZero(f, a) \/ diff < -1 THEN Exactly(a)
      ELSE NormRoundPack(f, rm, sign, ub.exp, IF rem < 0 THEN -rem ELSE rem)
f32_rem(rm, a, b) == Rem(F32, rm, a, b)
f64_rem(rm, a, b) == Rem(F64, rm, a, b)

-----------------------------------------------------------------------------
(* Fused multiply-add.  Sum(rm, sign, exp, sigProd, c) adds c to a product   *)
(* that is not zero, of the given exponent and double-length significand.    *)

MulAdd(f, rm, a, b, c, Sum(_, _, _, _, _)) ==
  LET signProd == Opposite(SignOf(f, a), SignOf(f, b))
      ua    == Unpacked(f, a)
      ub    == Unpacked(f, b)
      exp   == ua.exp + ub.exp - Bias(f) + 1
      prod  == (ua.sig * 2 ^ f.g) * (ub.sig * 2 ^ f.g)
      \* propagateNaN_ABC, propagateNaN_ZC: the flags of both steps
      nan(x, y) == [z |-> DefaultNaN(f),
                    flags |-> PropagateNaN(f, x, y).flags \cup PropagateNaN(f, DefaultNaN(f), c).flags]
  IN  IF IsNaN(f, a) \/ IsNaN(f, b) THEN nan(a, b)
      ELSE IF IsInf(f, a) \/ IsInf(f, b)
      THEN IF IsZero(f, a) \/ IsZero(f, b) THEN InvalidNaN(f)
           ELSE IF IsNaN(f, c) THEN PropagateNaN(f, Infinity(f, signProd), c)
           ELSE IF IsInf(f, c) /\ SignOf(f, c) # signProd THEN InvalidNaN(f)
           ELSE Exactly(Infinity(f, signProd))
      ELSE IF IsNaN(f, c) THEN PropagateNaN(f, 0, c)
      ELSE IF IsInf(f, c) THEN Exactly(c)
      ELSE IF IsZero(f, a) \/ IsZero(f, b)
      THEN IF IsZero(f, c) /\ SignOf(f, c) # signProd THEN ZeroOfSum(f, rm) ELSE Exactly(c)
      ELSE IF prod < 2 ^ (2 * SigBits(f) - 3) THEN Sum(rm, signProd, exp - 1, 2 * prod, c)
      ELSE Sum(rm, signProd, exp, prod, c)

\* A significand of two words, its leading bit moved to its place.
NormTwoWords(f, rm, sign, exp, sig) ==
  LET shift == 2 * SigBits(f) - BitLength(sig) - 1 - SigBits(f)
  IN  RoundPack(f, rm, sign, exp - shift - SigBits(f),
                IF shift < 0 THEN ShiftRightJam(sig, -shift) ELSE sig * 2 ^ shift)

Product32(rm, signProd, exp, prod, c) ==
  LET signC == SignOf(F32, c)
      uc    == Unpacked(F32, c)
      sigC  == uc.sig * 2 ^ (F32.g - 1)
      longC == sigC * 2 ^ WI
      diff  == exp - uc.exp
      sum   == IF diff <= 0 THEN sigC + ShiftRightJam(prod, WI - diff)
               ELSE ShiftRightJam(prod + ShiftRightJam(longC, diff), WI)
      expZ  == IF diff <= 0 THEN uc.exp ELSE exp
  IN  IF IsZero(F32, c)
      THEN RoundPack(F32, rm, signProd, exp - 1, ShiftRightJam(prod, WI - 1))
      ELSE IF signProd = signC
      THEN IF sum < 2 ^ (WI - 2) THEN RoundPack(F32, rm, signProd, expZ - 1, 2 * sum)
           ELSE RoundPack(F32, rm, signProd, expZ, sum)
      ELSE IF diff < 0
      THEN NormTwoWords(F32, rm, signC, uc.exp, longC - ShiftRightJam(prod, -diff))
      ELSE IF diff = 0
      THEN IF prod = longC THEN ZeroOfSum(F32, rm)
           ELSE IF prod < longC THEN NormTwoWords(F32, rm, signC, exp, longC - prod)
           ELSE NormTwoWords(F32, rm, signProd, exp, prod - longC)
      ELSE NormTwoWords(F32, rm, signProd, exp, prod - ShiftRightJam(longC, diff))

\* The high word of a two-word significand, the rest of it jammed.
HighJam(sig) == Jam(sig \div 2 ^ WL, sig % 2 ^ WL # 0)
LowWord(sig) == sig % 2 ^ WL

\* A product below c: only its high word is shifted, unless a subtraction
\* needs the one bit it would lose.
ShiftedProduct(prod, diff, same) ==
  IF same \/ diff > 1 THEN ShiftRightJam(prod \div 2 ^ WL, diff) * 2 ^ WL + LowWord(prod)
  ELSE ShiftRightJam(prod, 1)

\* The normalization of a difference; a high word of zero is skipped first.
NormHigh(rm, sign, exp, sig) ==
  LET high  == sig \div 2 ^ WL
      word  == IF high = 0 THEN LowWord(sig) ELSE high
      shift == CountLeadingZeros(WL, word) - 1
      long  == IF high = 0 THEN word * 2 ^ WL ELSE sig
  IN  RoundPack(F64, rm, sign, exp - shift - (IF high = 0 THEN WL ELSE 0),
                IF shift < 0 THEN Jam(ShiftRightJam(word, -shift), high # 0 /\ LowWord(sig) # 0)
                ELSE HighJam(long * 2 ^ shift))

Product64(rm, signProd, exp, prod, c) ==
  LET signC == SignOf(F64, c)
      uc    == Unpacked(F64, c)
      longC == (uc.sig * 2 ^ (F64.g - 1)) * 2 ^ WL
      diff  == exp - uc.exp
      same  == signProd = signC
      p     == IF diff < 0 THEN ShiftedProduct(prod, -diff, same) ELSE prod
      q     == IF diff > 0 THEN ShiftRightJam(longC, diff) ELSE longC
      expZ  == IF diff < 0 THEN uc.exp ELSE exp
      sum   == HighJam(p + q)
  IN  IF IsZero(F64, c)
      THEN RoundPack(F64, rm, signProd, exp - 1, HighJam(2 * prod))
      ELSE IF same
      THEN IF sum < 2 ^ (WL - 2) THEN RoundPack(F64, rm, signProd, expZ - 1, 2 * sum)
           ELSE RoundPack(F64, rm, signProd, expZ, sum)
      ELSE IF p = q THEN ZeroOfSum(F64, rm)
      ELSE IF p < q THEN NormHigh(rm, signC, expZ, q - p)
      ELSE NormHigh(rm, signProd, expZ, p - q)

softfloat_mulAddF32(rm, a, b, c) == MulAdd(F32, rm, a, b, c, Product32)
softfloat_mulAddF64(rm, a, b, c) == MulAdd(F64, rm, a, b, c, Product64)
f32_mulAdd(rm, a, b, c) == softfloat_mulAddF32(rm, a, b, c)
f64_mulAdd(rm, a, b, c) == softfloat_mulAddF64(rm, a, b, c)
=============================================================================
