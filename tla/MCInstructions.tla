--------------------------- MODULE MCInstructions ---------------------------
(* The instructions of the simulator against exact arithmetic.  A behaviour  *)
(* is of one of these kinds: one floating-point instruction on small formats *)
(* with all or many operands (arith), one conversion between formats and     *)
(* integers of different ranges (convert), two harts that share the library  *)
(* (harts), the integer instructions of one pair of registers (integer), or  *)
(* the loads, stores and atomics of one memory word (memory).                *)
EXTENDS FloatReference, FiniteSets

CONSTANTS Harts, Kinds

VARIABLES kind, pick, fs, frm, fflags, roundingMode, exceptionFlags, last, raised
vars == <<kind, pick, fs, frm, fflags, roundingMode, exceptionFlags, last, raised>>

Modes == {"near_even", "minMag", "min", "max", "near_maxMag"}

\* Small formats: the words of S are all tried, those of D by their fractions.
\* A second operand that only turns the sign of a result is positive.
\* Quotients of D need the ten guard bits of float64_t.
S == [eb |-> 3, fb |-> 3, g |-> 3]
D == [eb |-> 3, fb |-> 4, g |-> 10]
\* For conversions: both formats exceed both integer types, 7 and 14 bits.
CS == [eb |-> 5, fb |-> 2, g |-> 3]
CD == [eb |-> 6, fb |-> 9, g |-> 3]

A == INSTANCE Fpu WITH F32 <- S, F64 <- D, I32Guard <- 2
C == INSTANCE Fpu WITH F32 <- CS, F64 <- CD, I32Guard <- 2

WordsOf(f, signs, fractions) ==
  {s * 2 ^ (f.eb + f.fb) + e * 2 ^ f.fb + m : s \in signs, e \in 0 .. 2 ^ f.eb - 1, m \in fractions}
AllS == WordsOf(S, {0, 1}, 0 .. 7)
SomeS == WordsOf(S, {0, 1}, {0, 1, 4, 7})
SomeD == WordsOf(D, {0, 1}, {0, 1, 8, 15})
SomeCD == WordsOf(CD, {0, 1}, {0, 1, 3, 4, 7, 8, 63, 64, 65, 127, 128, 129, 192, 255, 256, 257, 320, 383, 384, 385,
                               448, 449, 503, 504, 509, 510, 511})
AllCS == WordsOf(CS, {0, 1}, 0 .. 3)
\* Integers of 14 bits: the small ones, and those next to a power of two.
SomeX == {x \in -8192 .. 8191 : \E s \in {1, -1}, p \in 0 .. 13, d \in -3 .. 3 : x = s * (2 ^ p + d)}
         \cup -300 .. 300 \cup {x * 37 : x \in -220 .. 220}

Binary == {"fadd_s", "fsub_s", "fmul_s", "fdiv_s", "fadd_d", "fsub_d", "fmul_d", "fdiv_d"}
Unary == {"fsqrt_s", "fsqrt_d"}
Fused == {"fmadd_s", "fmsub_s", "fnmadd_s", "fnmsub_s", "fmadd_d", "fmsub_d", "fnmadd_d", "fnmsub_d"}
Library == {"f32_roundToInt", "f64_roundToInt"}
Remainders == {"f32_rem", "f64_rem"}
LibraryCompare == {"f32_eq_signaling", "f64_eq_signaling"}
MinMag == {"f32_to_i32_r_minMag", "f32_to_ui32_r_minMag", "f32_to_i64_r_minMag", "f32_to_ui64_r_minMag",
           "f64_to_i32_r_minMag", "f64_to_ui32_r_minMag", "f64_to_i64_r_minMag", "f64_to_ui64_r_minMag"}
OfS == {"fadd_s", "fsub_s", "fmul_s", "fdiv_s", "fsqrt_s", "fmadd_s", "fmsub_s", "fnmadd_s", "fnmsub_s", "feq_s",
        "flt_s", "fle_s", "fmin_s", "fmax_s", "fsgnj_s", "fsgnjn_s", "fsgnjx_s", "fclass_s", "fmv_x_s",
        "fcvt_d_s", "fcvt_w_s", "fcvt_wu_s", "fcvt_l_s", "fcvt_lu_s", "f32_roundToInt", "f32_eq_signaling", "f32_rem",
        "f32_to_i32_r_minMag", "f32_to_ui32_r_minMag", "f32_to_i64_r_minMag", "f32_to_ui64_r_minMag"}
FromX == {"fcvt_s_w", "fcvt_s_wu", "fcvt_s_l", "fcvt_s_lu", "fcvt_d_w", "fcvt_d_wu", "fcvt_d_l", "fcvt_d_lu",
          "fmv_s_x", "fmv_d_x"}
Converting == (A!Rounded \ (Binary \cup Unary \cup Fused)) \cup {"fmv_x_s", "fmv_x_d", "fmv_s_x", "fmv_d_x"}

Fmt(op) == IF op \in OfS THEN S ELSE D
Adding == {"fmadd_s", "fmadd_d"}
ModesOf(op) ==
  CASE op \in Fused \ Adding -> {"near_even", "max"}
    [] op \in A!Rounded \cup Library -> Modes
    [] OTHER -> {"near_even"}

First(op) ==
  CASE op \in Adding -> WordsOf(Fmt(op), {0}, {0, 1, 2 ^ Fmt(op).fb - 1})
    [] op \in Fused -> WordsOf(Fmt(op), {0}, {0, 3})
    [] op \in FromX -> SomeX
    [] op \in Converting \cup MinMag -> IF op \in OfS THEN AllCS ELSE SomeCD
    [] op \in OfS -> AllS
    [] OTHER -> SomeD
Positive(f, words) == {w \in words : w < 2 ^ (f.eb + f.fb)}
Second(op) ==
  CASE op \in Converting \cup MinMag \cup Unary \cup Library \cup {"fclass_s", "fclass_d"} -> {0}
    [] op \in Fused -> WordsOf(Fmt(op), {0}, {1, 2 ^ Fmt(op).fb - 1})
    [] op \in {"fadd_s", "fadd_d"} -> First(op)
    [] op \in Binary -> Positive(Fmt(op), First(op))
    [] op \in OfS -> SomeS
    [] OTHER -> SomeD
Third(op) ==
  IF op \notin Fused THEN {0}
  ELSE WordsOf(Fmt(op), {0, 1}, {0, IF op \in Adding THEN 2 ^ Fmt(op).fb - 2 ELSE 3})

\* Integer registers of 8 bits (words of 4): each with the small, the large and
\* those at a boundary, and all pairs of the sign-extended ones for RV32.  A byte
\* of memory has one bit.
N == INSTANCE IntegerReference WITH ByteBits <- 1, LuiShift <- 2
Extensions == {{"C", "M", "A", "F", "D"}, {}}
RegsOf(xlen) == IF xlen = 8 THEN 0 .. 255 ELSE 0 .. 7 \cup 248 .. 255
SecondRegs(xlen) ==
  IF xlen = 8 THEN 0 .. 20 \cup 31 .. 33 \cup 62 .. 65 \cup {85} \cup 124 .. 132 \cup {170, 200} \cup 238 .. 255
  ELSE RegsOf(xlen)
Operands(k, xlen, a, b, m, ext) ==
  [xlen |-> xlen, rs1 |-> a, rs2 |-> b, imm |-> IF k = "memory" THEN 0 ELSE b, pc |-> 4 * (a % 2), len |-> 4,
   ext |-> ext, sp |-> b % 2 = 0, x0 |-> FALSE, fs |-> TRUE, mem |-> [i \in 0 .. 7 |-> (m \div 2 ^ i) % 2]]

Ops(k) ==
  CASE k = "arith" -> (A!Insns \ Converting) \cup Library \cup LibraryCompare \cup Remainders
    [] k = "convert" -> Converting \cup MinMag

-----------------------------------------------------------------------------
Init == A!Init /\ kind \in Kinds /\ pick = [op |-> "none"]

\* The instruction, its mode and its first operand, with the unit switched on.
Pick ==
  /\ kind \in {"arith", "convert"} /\ pick.op = "none"
  /\ \E op \in Ops(kind) : \E rm \in ModesOf(op), a \in First(op) :
       pick' = [op |-> op, rm |-> rm, a |-> a]
  /\ A!WriteFs(CHOOSE h \in Harts : TRUE, "initial")
  /\ UNCHANGED kind

Arith ==
  /\ kind = "arith" /\ pick.op \in A!Insns /\ last.op = "none"
  /\ \E h \in Harts, b \in Second(pick.op), c \in Third(pick.op) :
       fs[h] # "off" /\ A!Execute(h, pick.op, pick.rm, pick.a, b, c)
  /\ UNCHANGED <<kind, pick>>

Convert ==
  /\ kind = "convert" /\ pick.op \in C!Insns /\ last.op = "none"
  /\ \E h \in Harts : fs[h] # "off" /\ C!Execute(h, pick.op, pick.rm, pick.a, 0, 0)
  /\ UNCHANGED <<kind, pick>>

\* Entry points of the library that no instruction uses.
LibraryResult(op, rm, a, b) ==
  CASE op = "f32_roundToInt" -> A!f32_roundToInt(rm, a)
    [] op = "f64_roundToInt" -> A!f64_roundToInt(rm, a)
    [] op = "f32_rem" -> A!f32_rem(rm, a, b)
    [] op = "f64_rem" -> A!f64_rem(rm, a, b)
    [] op = "f32_eq_signaling" -> A!f32_eq_signaling(a, b)
    [] op = "f64_eq_signaling" -> A!f64_eq_signaling(a, b)
    [] op = "f32_to_i32_r_minMag" -> C!f32_to_i32_r_minMag(a)
    [] op = "f32_to_ui32_r_minMag" -> C!f32_to_ui32_r_minMag(a)
    [] op = "f32_to_i64_r_minMag" -> C!f32_to_i64_r_minMag(a)
    [] op = "f32_to_ui64_r_minMag" -> C!f32_to_ui64_r_minMag(a)
    [] op = "f64_to_i32_r_minMag" -> C!f64_to_i32_r_minMag(a)
    [] op = "f64_to_ui32_r_minMag" -> C!f64_to_ui32_r_minMag(a)
    [] op = "f64_to_i64_r_minMag" -> C!f64_to_i64_r_minMag(a)
    [] op = "f64_to_ui64_r_minMag" -> C!f64_to_ui64_r_minMag(a)

CallLibrary ==
  /\ pick.op \in Library \cup LibraryCompare \cup Remainders \cup MinMag /\ last.op = "none"
  /\ \E b \in Second(pick.op) : \E r \in {LibraryResult(pick.op, pick.rm, pick.a, b)} :
       last' = [op |-> pick.op, rm |-> pick.rm, a |-> pick.a, b |-> b, c |-> 0, z |-> r.z, flags |-> r.flags]
  /\ UNCHANGED <<kind, pick, fs, frm, fflags, roundingMode, exceptionFlags, raised>>

\* Two harts: zero or a signaling NaN with one, and a tie to be rounded.
HartOps == {"fdiv_s", "flt_s", "fmin_s"}
HartWords == {0, 57}
HartModes == {"near_even", "max", "reserved"}
HartStep ==
  /\ kind = "harts"
  /\ \E h \in Harts :
       \/ \E op \in HartOps, a \in HartWords :
            A!Trap(h, op, "dynamic") \/ A!Execute(h, op, "dynamic", a, 24, 0)
       \/ \E a \in {15936} : C!Execute(h, "fcvt_s_d", "dynamic", a, 0, 0)
       \/ A!WriteFflags(h, {})
       \/ \E m \in HartModes : A!WriteFrm(h, m)
       \/ \E state \in {"off", "initial"} : A!WriteFs(h, state)
  /\ UNCHANGED <<kind, pick>>

\* One pair of registers: for memory, an address and the value to store.
PickOperand ==
  /\ kind \in {"integer", "memory"} /\ pick.op = "none"
  /\ \E xlen \in {8, 4} : \E ext \in IF xlen = 8 THEN {{"C", "M", "A", "F", "D"}} ELSE Extensions :
       \E a \in IF kind = "memory" THEN 0 .. 7 ELSE RegsOf(xlen) :
         pick' = [op |-> kind, xlen |-> xlen, a |-> a, ext |-> ext]
  /\ UNCHANGED <<kind, fs, frm, fflags, roundingMode, exceptionFlags, last, raised>>
ExecuteInteger ==
  /\ pick.op \in {"integer", "memory"} /\ last.op = "none"
  /\ \E b \in IF kind = "memory" THEN RegsOf(pick.xlen) ELSE SecondRegs(pick.xlen) :
       \E m \in IF kind = "memory" THEN {0, 255, 165, 26} \cup {b} ELSE {0} :
         last' = [op |-> kind, a |-> Operands(kind, pick.xlen, pick.a, b, m, pick.ext)]
  /\ UNCHANGED <<kind, pick, fs, frm, fflags, roundingMode, exceptionFlags, raised>>

Next == PickOperand \/ ExecuteInteger \/ Pick \/ Arith \/ Convert \/ CallLibrary \/ HartStep
Spec == Init /\ [][Next]_vars

-----------------------------------------------------------------------------
Done == last.op \notin {"none", "trap"}
Is(ops) == Done /\ last.op \in ops
Same(r) == last.z = r.z /\ last.flags = r.flags

(* A sum, a difference, a product, a quotient, a remainder or a root is the  *)
(* exact result rounded once, by the mode of the instruction or of the frm   *)
(* of its own hart, whatever mode another hart left in the library; and it   *)
(* raises inexact, overflow, underflow, divide by zero and invalid exactly   *)
(* when IEEE 754 says (f32_add ... f64_sqrt and what they are made of).      *)
ArithmeticRounded ==
  /\ Is({"fadd_s", "fadd_d"}) => Same(RefAdd(Fmt(last.op), last.rm, last.a, last.b))
  /\ Is({"fsub_s", "fsub_d"}) => Same(RefAdd(Fmt(last.op), last.rm, last.a, Flip(Fmt(last.op), last.b)))
  /\ Is({"fmul_s", "fmul_d"}) => Same(RefMul(Fmt(last.op), last.rm, last.a, last.b))
  /\ Is({"fdiv_s", "fdiv_d"}) => Same(RefDiv(Fmt(last.op), last.rm, last.a, last.b))
  /\ Is({"fsqrt_s", "fsqrt_d"}) => Same(RefSqrt(Fmt(last.op), last.rm, last.a))
  /\ (kind = "harts" /\ Is({"fcvt_s_d"})) => Same(RefConvert(CD, CS, last.rm, last.a))
  /\ Is(Remainders) => Same(RefRem(Fmt(last.op), last.a, last.b))
  /\ Is(Library) => Same(RefToIntegral(Fmt(last.op), last.rm, last.a))

(* A fused multiply-add is rounded once, with its product kept exact: no     *)
(* bit of the product or the addend that the code's shifts cut off changes   *)
(* the result or its flags (softfloat_mulAddF32, softfloat_mulAddF64).       *)
MulAddRounded ==
  LET f == Fmt(last.op)
      a == IF Is({"fnmadd_s", "fnmadd_d", "fnmsub_s", "fnmsub_d"}) THEN Flip(f, last.a) ELSE last.a
      c == IF Is({"fmsub_s", "fmsub_d", "fnmadd_s", "fnmadd_d"}) THEN Flip(f, last.c) ELSE last.c
  IN  Is(Fused) => Same(RefFma(f, last.rm, a, last.b, c))

\* The register's integer, when the instruction reads it as w bits.
AsInt(x, w, signed) ==
  LET m == x % 2 ^ w IN IF signed /\ m >= 2 ^ (w - 1) THEN m - 2 ^ w ELSE m
ToX(r) == Same([z |-> AsInt(r.z, 14, TRUE), flags |-> r.flags])
ToW(r) == Same([z |-> AsInt(r.z, 7, TRUE), flags |-> r.flags])

(* Conversions give the rounded value and its flags: saturated at both ends  *)
(* of the integer types, a NaN as the greatest integer, integers exact when  *)
(* the format can hold them (f32_to_i32 ... ui64_to_f64, f64_to_f32).        *)
ConversionsRounded ==
  LET Near(f, w, signed) == RefToInt(f, last.rm, last.a, w, signed, 14)
      Cut(f, w, signed) == RefToInt(f, "minMag", last.a, w, signed, 14)
      From(f, w, signed) == RefFromInt(f, last.rm, AsInt(last.a, w, signed))
  IN  (kind = "convert" /\ Done) =>
        CASE last.op = "fcvt_s_d" -> Same(RefConvert(CD, CS, last.rm, last.a))
          [] last.op = "fcvt_d_s" -> Same(RefConvert(CS, CD, last.rm, last.a))
          [] last.op = "fcvt_w_s" -> ToW(Near(CS, 7, TRUE))
          [] last.op = "fcvt_wu_s" -> ToW(Near(CS, 7, FALSE))
          [] last.op = "fcvt_l_s" -> ToX(Near(CS, 14, TRUE))
          [] last.op = "fcvt_lu_s" -> ToX(Near(CS, 14, FALSE))
          [] last.op = "fcvt_w_d" -> ToW(Near(CD, 7, TRUE))
          [] last.op = "fcvt_wu_d" -> ToW(Near(CD, 7, FALSE))
          [] last.op = "fcvt_l_d" -> ToX(Near(CD, 14, TRUE))
          [] last.op = "fcvt_lu_d" -> ToX(Near(CD, 14, FALSE))
          [] last.op = "fcvt_s_w" -> Same(From(CS, 7, TRUE))
          [] last.op = "fcvt_s_wu" -> Same(From(CS, 7, FALSE))
          [] last.op = "fcvt_s_l" -> Same(From(CS, 14, TRUE))
          [] last.op = "fcvt_s_lu" -> Same(From(CS, 14, FALSE))
          [] last.op = "fcvt_d_w" -> Same(From(CD, 7, TRUE))
          [] last.op = "fcvt_d_wu" -> Same(From(CD, 7, FALSE))
          [] last.op = "fcvt_d_l" -> Same(From(CD, 14, TRUE))
          [] last.op = "fcvt_d_lu" -> Same(From(CD, 14, FALSE))
          [] last.op = "f32_to_i32_r_minMag" -> Same(Cut(CS, 7, TRUE))
          [] last.op = "f32_to_ui32_r_minMag" -> Same(Cut(CS, 7, FALSE))
          [] last.op = "f32_to_i64_r_minMag" -> Same(Cut(CS, 14, TRUE))
          [] last.op = "f32_to_ui64_r_minMag" -> Same(Cut(CS, 14, FALSE))
          [] last.op = "f64_to_i32_r_minMag" -> Same(Cut(CD, 7, TRUE))
          [] last.op = "f64_to_ui32_r_minMag" -> Same(Cut(CD, 7, FALSE))
          [] last.op = "f64_to_i64_r_minMag" -> Same(Cut(CD, 14, TRUE))
          [] last.op = "f64_to_ui64_r_minMag" -> Same(Cut(CD, 14, FALSE))
          [] OTHER -> last.z = IF last.op \in {"fmv_x_s", "fmv_x_d"}
                               THEN AsInt(last.a, IF last.op = "fmv_x_s" THEN 8 ELSE 16, TRUE)
                               ELSE AsInt(last.a, IF last.op = "fmv_s_x" THEN 8 ELSE 16, FALSE)

\* One bit per class, from the least to the greatest and the NaNs.
Class(f, a) ==
  LET v == Order(f, a)
  IN  CASE Signals(f, a) -> 8
        [] IsNaNWord(f, a) -> 9
        [] v = -Top(f) -> 0
        [] v > -Top(f) /\ v <= -(2 ^ f.fb) -> 1
        [] v > -(2 ^ f.fb) /\ v < 0 -> 2
        [] v = 0 -> IF Sgn(f, a) = 1 THEN 3 ELSE 4
        [] v > 0 /\ v < 2 ^ f.fb -> 5
        [] v >= 2 ^ f.fb /\ v < Top(f) -> 6
        [] v = Top(f) -> 7

(* Comparisons order the words as the numbers they stand for, zeros equal    *)
(* and NaNs unordered; minimum and maximum agree with that order, prefer a   *)
(* number to a NaN, and give one of the operands; a word is of exactly the   *)
(* one class its value has (feq, flt, fle, fmin, fmax, fclass).              *)
ComparisonsAgree ==
  LET f == Fmt(last.op)
      least(x, y) == IF IsNaNWord(f, y) THEN last.z = x
                     ELSE IF IsNaNWord(f, x) THEN last.z = y
                     ELSE last.z \in {x, y} /\ Order(f, last.z) <= Order(f, x) /\ Order(f, last.z) <= Order(f, y)
      greatest(x, y) == IF IsNaNWord(f, y) THEN last.z = x
                        ELSE IF IsNaNWord(f, x) THEN last.z = y
                        ELSE last.z \in {x, y} /\ Order(f, last.z) >= Order(f, x) /\ Order(f, last.z) >= Order(f, y)
  IN  /\ Is({"feq_s", "feq_d"}) => Same(RefEq(f, last.a, last.b))
      /\ Is({"flt_s", "flt_d"}) => Same(RefLt(f, last.a, last.b))
      /\ Is({"fle_s", "fle_d"}) => Same(RefLe(f, last.a, last.b))
      /\ Is(LibraryCompare) => Same(RefCompare(f, last.a, last.b, Order(f, last.a) = Order(f, last.b), TRUE))
      /\ Is({"fmin_s", "fmin_d"}) => least(last.a, last.b)
      /\ Is({"fmax_s", "fmax_d"}) => greatest(last.a, last.b)
      /\ Is({"fclass_s", "fclass_d"}) => last.z = {Class(f, last.a)}

(* Every integer, multiply, divide and branch instruction gives what exact   *)
(* integers give, cut to the register and kept sign-extended when the hart   *)
(* has 32 bits, at the boundaries of signed division and of high products    *)
(* too; and a compressed instruction does what its expansion does            *)
(* (add ... remuw, beq ... jalr, mulhi.h, c_add ... c_jal).  A load, a store *)
(* or an atomic touches the bytes of its own aligned access and no other,    *)
(* extends as its name says, and an atomic returns the old value whatever it *)
(* stores (mmu.h load_func and store_func, lb ... sd, amoadd_w ...           *)
(* amomaxu_d, c_lw ... c_fsdsp).                                             *)
IntegerExact ==
  /\ (kind = "integer" /\ Done) =>
       /\ N!Sums(last.a) /\ N!Orders(last.a) /\ N!Shifts(last.a) /\ N!Logic(last.a, last.a.rs1, last.a.rs2)
       /\ N!Products(last.a) /\ N!Quotients(last.a) /\ N!Branches(last.a) /\ N!Expansions(last.a)
  /\ (kind = "memory" /\ Done) => N!LoadsAndStores(last.a) /\ N!Atomics(last.a)

(* The flags in a hart's fcsr are those of its own instructions since its    *)
(* program wrote it, although they pass through a global of the simulator    *)
(* (set_fp_exceptions, decode.h:187).                                        *)
FlagsOfOwnInstructions == \A h \in Harts : fflags[h] = raised[h]

(* Every floating-point instruction, and every entry point of the library    *)
(* that none uses, gives the word and raises the flags that exact arithmetic *)
(* and one rounding give (softfloat/, insns/f*.h): arithmetic, fused         *)
(* multiply-adds, conversions, comparisons; and harts that share the library *)
(* keep their flags apart.                                                   *)
FloatExact ==
  /\ ArithmeticRounded /\ MulAddRounded /\ ConversionsRounded /\ ComparisonsAgree
  /\ FlagsOfOwnInstructions
=============================================================================
