--------------------------- MODULE FloatReference ---------------------------
(* What IEEE 754 and the RISC-V instruction set ask of an operation, stated  *)
(* on exact numbers: the reference the library is compared with.  A finite   *)
(* word of format f is its magnitude in units of the least subnormal, and a  *)
(* positive real num / den * 2^s rounds to the word whose binade and         *)
(* significand it falls on.                                                  *)
EXTENDS Integers

Half2(f) == 2 ^ (f.eb - 1) + f.fb - 2           \* log2 of one, in units
Sgn(f, a) == a \div 2 ^ (f.eb + f.fb)
Body(f, a) == a % 2 ^ (f.eb + f.fb)
Top(f) == (2 ^ f.eb - 1) * 2 ^ f.fb             \* the body of an infinity
NaNWord(f) == Top(f) + 2 ^ (f.fb - 1)
Word(f, sign, body) == sign * 2 ^ (f.eb + f.fb) + body
IsNaNWord(f, a) == Body(f, a) > Top(f)
IsInfWord(f, a) == Body(f, a) = Top(f)
Signals(f, a) == IsNaNWord(f, a) /\ Body(f, a) < NaNWord(f)
Finite(f, a) == Body(f, a) < Top(f)
Flip(f, a) == Word(f, 1 - Sgn(f, a), Body(f, a))

\* A finite magnitude is Sig * 2^Exp2.
Sig(f, a) ==
  IF Body(f, a) < 2 ^ f.fb THEN Body(f, a) ELSE 2 ^ f.fb + (Body(f, a) % 2 ^ f.fb)
Binade(f, a) == IF Body(f, a) < 2 ^ f.fb THEN 0 ELSE (Body(f, a) \div 2 ^ f.fb) - 1
Mag(f, a) == Sig(f, a) * 2 ^ Binade(f, a)
Val(f, a) == IF Sgn(f, a) = 1 THEN -Mag(f, a) ELSE Mag(f, a)

Len(x) == CHOOSE n \in 0 .. 30 : x < 2 ^ n /\ (n = 0 \/ 2 ^ (n - 1) <= x)

\* num / den rounded to an integer, of a number with the given sign.
Nearest(rm, sign, num, den) ==
  LET q == num \div den
      r == num % den
      away == CASE rm = "near_even" -> 2 * r > den \/ (2 * r = den /\ q % 2 = 1)
                [] rm = "near_maxMag" -> 2 * r >= den
                [] rm = "min" -> r # 0 /\ sign = 1
                [] rm = "max" -> r # 0 /\ sign = 0
                [] rm = "minMag" -> FALSE
  IN  IF away THEN q + 1 ELSE q

\* num / den * 2^s units; s is zero unless num / den fills a significand.
Round(f, rm, sign, num, den, s) ==
  LET width == Len(num \div den)
      cut   == IF width > f.fb + 1 THEN width - f.fb - 1 ELSE 0
      body  == (cut + s) * 2 ^ f.fb + Nearest(rm, sign, num, den * 2 ^ cut)
      exact == num % (den * 2 ^ cut) = 0
      \* rounded with an unbounded exponent it is below the least normal number
      tiny  == s = 0 /\ num < den * 2 ^ f.fb /\ Nearest(rm, sign, 2 * num, den) < 2 ^ (f.fb + 1)
      inf   == rm \in {"near_even", "near_maxMag"} \/ rm = (IF sign = 1 THEN "min" ELSE "max")
  IN  IF body >= Top(f)
      THEN [z |-> Word(f, sign, IF inf THEN Top(f) ELSE Top(f) - 1), flags |-> {"overflow", "inexact"}]
      ELSE [z |-> Word(f, sign, body),
            flags |-> IF exact THEN {} ELSE IF tiny THEN {"inexact", "underflow"} ELSE {"inexact"}]

Plain(word) == [z |-> word, flags |-> {}]
Invalid(f) == [z |-> NaNWord(f), flags |-> {"invalid"}]
QuietNaN(f, words) == IF \E a \in words : Signals(f, a) THEN Invalid(f) ELSE Plain(NaNWord(f))
Xor(s, t) == IF s = t THEN 0 ELSE 1

\* A sum n / den of terms with the signs s and t.
Total(f, rm, n, den, s, t) ==
  IF n = 0 THEN Plain(Word(f, IF s = t THEN s ELSE IF rm = "min" THEN 1 ELSE 0, 0))
  ELSE Round(f, rm, IF n < 0 THEN 1 ELSE 0, IF n < 0 THEN -n ELSE n, den, 0)

RefAdd(f, rm, a, b) ==
  IF IsNaNWord(f, a) \/ IsNaNWord(f, b) THEN QuietNaN(f, {a, b})
  ELSE IF IsInfWord(f, a) THEN IF b = Flip(f, a) THEN Invalid(f) ELSE Plain(a)
  ELSE IF IsInfWord(f, b) THEN Plain(b)
  ELSE Total(f, rm, Val(f, a) + Val(f, b), 1, Sgn(f, a), Sgn(f, b))

RefMul(f, rm, a, b) ==
  LET sign == Xor(Sgn(f, a), Sgn(f, b))
  IN  IF IsNaNWord(f, a) \/ IsNaNWord(f, b) THEN QuietNaN(f, {a, b})
      ELSE IF {Body(f, a), Body(f, b)} = {0, Top(f)} THEN Invalid(f)
      ELSE IF IsInfWord(f, a) \/ IsInfWord(f, b) THEN Plain(Word(f, sign, Top(f)))
      ELSE Round(f, rm, sign, Mag(f, a) * Mag(f, b), 2 ^ Half2(f), 0)

RefDiv(f, rm, a, b) ==
  LET sign == Xor(Sgn(f, a), Sgn(f, b))
  IN  IF IsNaNWord(f, a) \/ IsNaNWord(f, b) THEN QuietNaN(f, {a, b})
      ELSE IF Body(f, a) = Body(f, b) /\ Body(f, a) \in {0, Top(f)} THEN Invalid(f)
      ELSE IF IsInfWord(f, a) THEN Plain(Word(f, sign, Top(f)))
      ELSE IF IsInfWord(f, b) THEN Plain(Word(f, sign, 0))
      ELSE IF Body(f, b) = 0 THEN [z |-> Word(f, sign, Top(f)), flags |-> {"infinite"}]
      ELSE Round(f, rm, sign, Mag(f, a) * 2 ^ Half2(f), Mag(f, b), 0)

RefFma(f, rm, a, b, c) ==
  LET sign == Xor(Sgn(f, a), Sgn(f, b))
      prod == Mag(f, a) * Mag(f, b)
  IN  IF ~IsNaNWord(f, a) /\ ~IsNaNWord(f, b) /\ {Body(f, a), Body(f, b)} = {0, Top(f)} THEN Invalid(f)
      ELSE IF IsNaNWord(f, a) \/ IsNaNWord(f, b) \/ IsNaNWord(f, c) THEN QuietNaN(f, {a, b, c})
      ELSE IF IsInfWord(f, a) \/ IsInfWord(f, b)
      THEN IF c = Word(f, 1 - sign, Top(f)) THEN Invalid(f) ELSE Plain(Word(f, sign, Top(f)))
      ELSE IF IsInfWord(f, c) THEN Plain(c)
      ELSE Total(f, rm, (IF sign = 1 THEN -prod ELSE prod) + Val(f, c) * 2 ^ Half2(f), 2 ^ Half2(f),
                 sign, Sgn(f, c))

\* What is left of a after the nearest multiple of b, the even one of two.
RefRem(f, a, b) ==
  LET left == Mag(f, a) - Nearest("near_even", 0, Mag(f, a), Mag(f, b)) * Mag(f, b)
      sign == IF left < 0 THEN 1 - Sgn(f, a) ELSE Sgn(f, a)
  IN  IF IsNaNWord(f, a) \/ IsNaNWord(f, b) THEN QuietNaN(f, {a, b})
      ELSE IF IsInfWord(f, a) \/ Body(f, b) = 0 THEN Invalid(f)
      ELSE IF IsInfWord(f, b) THEN Plain(a)
      ELSE Round(f, "near_even", sign, IF left < 0 THEN -left ELSE left, 1, 0)

\* The square root to 6 binary places more, and whether it is more than that.
Root(n) == CHOOSE r \in 0 .. 2 ^ ((Len(n) + 1) \div 2) : r * r <= n /\ n < (r + 1) * (r + 1)
RefSqrt(f, rm, a) ==
  LET n == Mag(f, a) * 2 ^ (Half2(f) + 12)
      r == Root(n)
  IN  IF IsNaNWord(f, a) THEN QuietNaN(f, {a})
      ELSE IF Body(f, a) = 0 \/ a = Top(f) THEN Plain(a)
      ELSE IF Sgn(f, a) = 1 THEN Invalid(f)
      ELSE Round(f, rm, 0, 2 * r + (IF r * r = n THEN 0 ELSE 1), 2 ^ 7, 0)

-----------------------------------------------------------------------------
(* Order.  Infinities are beyond every finite number.                        *)
Order(f, a) == IF Sgn(f, a) = 1 THEN -Body(f, a) ELSE Body(f, a)
Ordered(f, a, b) == ~IsNaNWord(f, a) /\ ~IsNaNWord(f, b)
RefCompare(f, a, b, holds, signaling) ==
  [z |-> Ordered(f, a, b) /\ holds,
   flags |-> IF Signals(f, a) \/ Signals(f, b) \/ (signaling /\ ~Ordered(f, a, b)) THEN {"invalid"} ELSE {}]
RefLt(f, a, b) == RefCompare(f, a, b, Order(f, a) < Order(f, b), TRUE)
RefLe(f, a, b) == RefCompare(f, a, b, Order(f, a) <= Order(f, b), TRUE)
RefEq(f, a, b) == RefCompare(f, a, b, Order(f, a) = Order(f, b), FALSE)

-----------------------------------------------------------------------------
(* Conversions.  A finite word is Sig * 2^Power2.                            *)
Power2(f, a) == Binade(f, a) - Half2(f)
Capped(n, most) == IF n > most THEN most ELSE n

\* To an integer of w bits; beyond 2^most or below 2^-24 the size is enough.
RefToInt(f, rm, a, w, signed, most) ==
  LET sign == IF IsNaNWord(f, a) THEN 0 ELSE Sgn(f, a)
      p   == Power2(f, a)
      num == Sig(f, a) * 2 ^ (IF p > 0 THEN Capped(p, most) ELSE 0)
      den == 2 ^ (IF p < 0 THEN Capped(-p, 24) ELSE 0)
      n   == Nearest(rm, sign, num, den)
      low == IF signed THEN -(2 ^ (w - 1)) ELSE 0
      high == 2 ^ (IF signed THEN w - 1 ELSE w) - 1
      z   == IF sign = 1 THEN -n ELSE n
  IN  IF ~Finite(f, a) \/ z < low \/ z > high
      THEN [z |-> IF sign = 1 THEN low ELSE high, flags |-> {"invalid"}]
      ELSE [z |-> z, flags |-> IF num % den = 0 THEN {} ELSE {"inexact"}]

RefFromInt(f, rm, i) ==
  IF i = 0 THEN Plain(0)
  ELSE Round(f, rm, IF i < 0 THEN 1 ELSE 0, (IF i < 0 THEN -i ELSE i) * 2 ^ f.fb, 1, Half2(f) - f.fb)

\* Between formats, whichever is wider.
RefConvert(f, g, rm, a) ==
  LET s == Power2(f, a) + Half2(g)
      \* a subnormal of f is made to fill a significand of g
      n == Sig(f, a)
  IN  IF IsNaNWord(f, a) THEN [z |-> NaNWord(g), flags |-> IF Signals(f, a) THEN {"invalid"} ELSE {}]
      ELSE IF IsInfWord(f, a) THEN Plain(Word(g, Sgn(f, a), Top(g)))
      ELSE IF n = 0 THEN Plain(Word(g, Sgn(f, a), 0))
      ELSE IF s < 0 THEN Round(g, rm, Sgn(f, a), n, 2 ^ Capped(-s, 20), 0)
      ELSE IF s <= g.fb THEN Round(g, rm, Sgn(f, a), n * 2 ^ s, 1, 0)
      ELSE Round(g, rm, Sgn(f, a), n * 2 ^ g.fb, 1, s - g.fb)

\* To the nearest integral value, as a word.
RefToIntegral(f, rm, a) ==
  LET one == 2 ^ Half2(f)
      n   == Nearest(rm, Sgn(f, a), Mag(f, a), one)
  IN  IF IsNaNWord(f, a) THEN QuietNaN(f, {a})
      ELSE IF IsInfWord(f, a) THEN Plain(a)
      ELSE [z |-> IF n = 0 THEN Word(f, Sgn(f, a), 0) ELSE Round(f, rm, Sgn(f, a), n * one, 1, 0).z,
            flags |-> IF Mag(f, a) % one = 0 THEN {} ELSE {"inexact"}]
=============================================================================
