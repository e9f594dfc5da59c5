--------------------------------- MODULE Fpu ---------------------------------
(* The floating-point instructions of the simulated harts, on SoftFloat.     *)
(* The library's rounding mode and exception flags are globals of the        *)
(* simulator, shared by its harts; fcsr and the FS field of mstatus belong   *)
(* to a hart.  Registers are abstracted: an operand is any word, and the     *)
(* result of the last instruction is kept in last.  Extensions and xlen are  *)
(* those of RV64IMAFD.                                                       *)
EXTENDS SoftFloatArith, SoftFloatConvert

CONSTANTS Harts

VARIABLES fs,               \* the FS field of mstatus
          frm, fflags,      \* the parts of fcsr
          roundingMode,     \* softfloat_roundingMode
          exceptionFlags,   \* softfloat_exceptionFlags
          last,             \* the last instruction and its result
          raised            \* history: the flags each hart's instructions raised or wrote
vars == <<fs, frm, fflags, roundingMode, exceptionFlags, last, raised>>

Modes == {"near_even", "minMag", "min", "max", "near_maxMag"}
WordBits(f) == f.eb + f.fb + 1
XWord(x) == Twos(WL, x)          \* the content of an integer register
SextW(x) == Twos(WI, x)

-----------------------------------------------------------------------------
(* What an instruction computes from its operands: z and flags.              *)
Negate(f, a) == (a + SignBit(f)) % (2 * SignBit(f))

fadd_s(rm, a, b) == f32_add(rm, a, b)
fadd_d(rm, a, b) == f64_add(rm, a, b)
fsub_s(rm, a, b) == f32_sub(rm, a, b)
fsub_d(rm, a, b) == f64_sub(rm, a, b)
fmul_s(rm, a, b) == f32_mul(rm, a, b)
fmul_d(rm, a, b) == f64_mul(rm, a, b)
fdiv_s(rm, a, b) == f32_div(rm, a, b)
fdiv_d(rm, a, b) == f64_div(rm, a, b)
fsqrt_s(rm, a) == f32_sqrt(rm, a)
fsqrt_d(rm, a) == f64_sqrt(rm, a)
fmadd_s(rm, a, b, c) == f32_mulAdd(rm, a, b, c)
fmadd_d(rm, a, b, c) == f64_mulAdd(rm, a, b, c)
fmsub_s(rm, a, b, c) == f32_mulAdd(rm, a, b, Negate(F32, c))
fmsub_d(rm, a, b, c) == f64_mulAdd(rm, a, b, Negate(F64, c))
fnmadd_s(rm, a, b, c) == f32_mulAdd(rm, Negate(F32, a), b, Negate(F32, c))
fnmadd_d(rm, a, b, c) == f64_mulAdd(rm, Negate(F64, a), b, Negate(F64, c))
fnmsub_s(rm, a, b, c) == f32_mulAdd(rm, Negate(F32, a), b, c)
fnmsub_d(rm, a, b, c) == f64_mulAdd(rm, Negate(F64, a), b, c)

\* The first operand when test says so, with the flags test raises.
FirstIf(isNaN, test, a, b) ==
  IF isNaN THEN Exactly(a) ELSE [z |-> IF test.z THEN a ELSE b, flags |-> test.flags]
fmin_s(a, b) == FirstIf(IsNaN(F32, b), f32_lt_quiet(a, b), a, b)
fmin_d(a, b) == FirstIf(IsNaN(F64, b), f64_lt_quiet(a, b), a, b)
fmax_s(a, b) == FirstIf(IsNaN(F32, b), f32_le_quiet(b, a), a, b)
fmax_d(a, b) == FirstIf(IsNaN(F64, b), f64_le_quiet(b, a), a, b)

WithSignOf(f, a, sign) == Exactly((a % SignBit(f)) + sign * SignBit(f))
fsgnj_s(a, b) == WithSignOf(F32, a, SignOf(F32, b))
fsgnj_d(a, b) == WithSignOf(F64, a, SignOf(F64, b))
fsgnjn_s(a, b) == WithSignOf(F32, a, 1 - SignOf(F32, b))
fsgnjn_d(a, b) == WithSignOf(F64, a, 1 - SignOf(F64, b))
fsgnjx_s(a, b) == WithSignOf(F32, a, Opposite(SignOf(F32, a), SignOf(F32, b)))
fsgnjx_d(a, b) == WithSignOf(F64, a, Opposite(SignOf(F64, a), SignOf(F64, b)))

feq_s(a, b) == f32_eq(a, b)
feq_d(a, b) == f64_eq(a, b)
flt_s(a, b) == f32_lt(a, b)
flt_d(a, b) == f64_lt(a, b)
fle_s(a, b) == f32_le(a, b)
fle_d(a, b) == f64_le(a, b)
fclass_s(a) == Exactly(f32_classify(a))
fclass_d(a) == Exactly(f64_classify(a))

InRegister(r) == [r EXCEPT !.z = XWord(r.z)]
Extended(r) == [r EXCEPT !.z = SextW(r.z)]
fcvt_s_d(rm, a) == f64_to_f32(rm, a)
fcvt_d_s(rm, a) == f32_to_f64(a)
fcvt_w_s(rm, a) == Extended(f32_to_i32(rm, a))
fcvt_wu_s(rm, a) == Extended(f32_to_ui32(rm, a))
fcvt_l_s(rm, a) == f32_to_i64(rm, a)
fcvt_lu_s(rm, a) == InRegister(f32_to_ui64(rm, a))
fcvt_w_d(rm, a) == Extended(f64_to_i32(rm, a))
fcvt_wu_d(rm, a) == Extended(f64_to_ui32(rm, a))
fcvt_l_d(rm, a) == f64_to_i64(rm, a)
fcvt_lu_d(rm, a) == InRegister(f64_to_ui64(rm, a))
fcvt_s_w(rm, x) == i32_to_f32(rm, SextW(x))
fcvt_s_wu(rm, x) == ui32_to_f32(rm, x % 2 ^ WI)
fcvt_s_l(rm, x) == i64_to_f32(rm, x)
fcvt_s_lu(rm, x) == ui64_to_f32(rm, x % 2 ^ WL)
fcvt_d_w(rm, x) == i32_to_f64(SextW(x))
fcvt_d_wu(rm, x) == ui32_to_f64(x % 2 ^ WI)
fcvt_d_l(rm, x) == i64_to_f64(rm, x)
fcvt_d_lu(rm, x) == ui64_to_f64(rm, x % 2 ^ WL)

fmv_x_s(a) == Exactly(Twos(WordBits(F32), a))
fmv_x_d(a) == Exactly(Twos(WordBits(F64), a))
fmv_s_x(x) == Exactly(x % 2 ^ WordBits(F32))
fmv_d_x(x) == Exactly(x % 2 ^ WordBits(F64))

-----------------------------------------------------------------------------
(* The instructions by what they do besides computing.                       *)

\* Round by the instruction's mode or frm.
RoundedToF == {"fadd_s", "fadd_d", "fsub_s", "fsub_d", "fmul_s", "fmul_d", "fdiv_s", "fdiv_d",
               "fsqrt_s", "fsqrt_d", "fmadd_s", "fmadd_d", "fmsub_s", "fmsub_d", "fnmadd_s",
               "fnmadd_d", "fnmsub_s", "fnmsub_d", "fcvt_s_d", "fcvt_d_s", "fcvt_s_w", "fcvt_s_wu",
               "fcvt_s_l", "fcvt_s_lu", "fcvt_d_w", "fcvt_d_wu", "fcvt_d_l", "fcvt_d_lu"}
RoundedToX == {"fcvt_w_s", "fcvt_wu_s", "fcvt_l_s", "fcvt_lu_s", "fcvt_w_d", "fcvt_wu_d", "fcvt_l_d", "fcvt_lu_d"}
Rounded == RoundedToF \cup RoundedToX
Comparing == {"feq_s", "feq_d", "flt_s", "flt_d", "fle_s", "fle_d"}
MinMax == {"fmin_s", "fmin_d", "fmax_s", "fmax_d"}
Moving == {"fsgnj_s", "fsgnj_d", "fsgnjn_s", "fsgnjn_d", "fsgnjx_s", "fsgnjx_d", "fmv_s_x", "fmv_d_x"}
Reading == {"fclass_s", "fclass_d", "fmv_x_s", "fmv_x_d"}
Insns == Rounded \cup Comparing \cup MinMax \cup Moving \cup Reading

WritesF == RoundedToF \cup MinMax \cup Moving

(* mutant: a conversion to an integer takes its mode from the instruction, a
   conversion between the formats forgets to *)
SetsModeNotCvt(op) == op \in Rounded \ {"fcvt_s_d"}

\* The instructions that begin with softfloat_roundingMode = RM.
SetsMode(op) == op \in Rounded
(* mutant: a minimum or a maximum leaves its flags in the library *)
SetsFlagsNotMinMax(op) == op \in Rounded \cup Comparing

\* The instructions that end with set_fp_exceptions.
SetsFlags(op) == op \in Rounded \cup Comparing \cup MinMax

Result(op, rm, a, b, c) ==
  CASE op = "fadd_s" -> fadd_s(rm, a, b) [] op = "fadd_d" -> fadd_d(rm, a, b)
    [] op = "fsub_s" -> fsub_s(rm, a, b) [] op = "fsub_d" -> fsub_d(rm, a, b)
    [] op = "fmul_s" -> fmul_s(rm, a, b) [] op = "fmul_d" -> fmul_d(rm, a, b)
    [] op = "fdiv_s" -> fdiv_s(rm, a, b) [] op = "fdiv_d" -> fdiv_d(rm, a, b)
    [] op = "fsqrt_s" -> fsqrt_s(rm, a) [] op = "fsqrt_d" -> fsqrt_d(rm, a)
    [] op = "fmadd_s" -> fmadd_s(rm, a, b, c) [] op = "fmadd_d" -> fmadd_d(rm, a, b, c)
    [] op = "fmsub_s" -> fmsub_s(rm, a, b, c) [] op = "fmsub_d" -> fmsub_d(rm, a, b, c)
    [] op = "fnmadd_s" -> fnmadd_s(rm, a, b, c) [] op = "fnmadd_d" -> fnmadd_d(rm, a, b, c)
    [] op = "fnmsub_s" -> fnmsub_s(rm, a, b, c) [] op = "fnmsub_d" -> fnmsub_d(rm, a, b, c)
    [] op = "fmin_s" -> fmin_s(a, b) [] op = "fmin_d" -> fmin_d(a, b)
    [] op = "fmax_s" -> fmax_s(a, b) [] op = "fmax_d" -> fmax_d(a, b)
    [] op = "fsgnj_s" -> fsgnj_s(a, b) [] op = "fsgnj_d" -> fsgnj_d(a, b)
    [] op = "fsgnjn_s" -> fsgnjn_s(a, b) [] op = "fsgnjn_d" -> fsgnjn_d(a, b)
    [] op = "fsgnjx_s" -> fsgnjx_s(a, b) [] op = "fsgnjx_d" -> fsgnjx_d(a, b)
    [] op = "feq_s" -> feq_s(a, b) [] op = "feq_d" -> feq_d(a, b)
    [] op = "flt_s" -> flt_s(a, b) [] op = "flt_d" -> flt_d(a, b)
    [] op = "fle_s" -> fle_s(a, b) [] op = "fle_d" -> fle_d(a, b)
    [] op = "fclass_s" -> fclass_s(a) [] op = "fclass_d" -> fclass_d(a)
    [] op = "fcvt_s_d" -> fcvt_s_d(rm, a) [] op = "fcvt_d_s" -> fcvt_d_s(rm, a)
    [] op = "fcvt_w_s" -> fcvt_w_s(rm, a) [] op = "fcvt_wu_s" -> fcvt_wu_s(rm, a)
    [] op = "fcvt_l_s" -> fcvt_l_s(rm, a) [] op = "fcvt_lu_s" -> fcvt_lu_s(rm, a)
    [] op = "fcvt_w_d" -> fcvt_w_d(rm, a) [] op = "fcvt_wu_d" -> fcvt_wu_d(rm, a)
    [] op = "fcvt_l_d" -> fcvt_l_d(rm, a) [] op = "fcvt_lu_d" -> fcvt_lu_d(rm, a)
    [] op = "fcvt_s_w" -> fcvt_s_w(rm, a) [] op = "fcvt_s_wu" -> fcvt_s_wu(rm, a)
    [] op = "fcvt_s_l" -> fcvt_s_l(rm, a) [] op = "fcvt_s_lu" -> fcvt_s_lu(rm, a)
    [] op = "fcvt_d_w" -> fcvt_d_w(rm, a) [] op = "fcvt_d_wu" -> fcvt_d_wu(rm, a)
    [] op = "fcvt_d_l" -> fcvt_d_l(rm, a) [] op = "fcvt_d_lu" -> fcvt_d_lu(rm, a)
    [] op = "fmv_x_s" -> fmv_x_s(a) [] op = "fmv_x_d" -> fmv_x_d(a)
    [] op = "fmv_s_x" -> fmv_s_x(a) [] op = "fmv_d_x" -> fmv_d_x(a)

-----------------------------------------------------------------------------
Init ==
  /\ fs = [h \in Harts |-> "off"]
  /\ frm = [h \in Harts |-> "near_even"]
  /\ fflags = [h \in Harts |-> {}]
  /\ roundingMode = "near_even"
  /\ exceptionFlags = {}
  /\ last = [op |-> "none"]
  /\ raised = [h \in Harts |-> {}]

\* The mode of an instruction: its own, or that of frm.
RM(h, rm) == IF rm = "dynamic" THEN frm[h] ELSE rm

Illegal(h, op, rm) == fs[h] = "off" \/ (op \in Rounded /\ RM(h, rm) \notin Modes)

Trap(h, op, rm) ==
  /\ Illegal(h, op, rm)
  /\ last' = [op |-> "trap"]
  /\ UNCHANGED <<fs, frm, fflags, roundingMode, exceptionFlags, raised>>

Execute(h, op, rm, a, b, c) ==
  /\ ~Illegal(h, op, rm)
  /\ \E mode \in {IF SetsMode(op) THEN RM(h, rm) ELSE roundingMode} :
     \E r \in {Result(op, mode, a, b, c)} :
       /\ roundingMode' = mode
       /\ IF SetsFlags(op)
          THEN /\ fflags' = [fflags EXCEPT ![h] = @ \cup exceptionFlags \cup r.flags]
               /\ exceptionFlags' = {}
          ELSE /\ exceptionFlags' = exceptionFlags \cup r.flags
               /\ UNCHANGED fflags
       /\ last' = [op |-> op, rm |-> RM(h, rm), a |-> a, b |-> b, c |-> c, z |-> r.z, flags |-> r.flags]
       /\ raised' = [raised EXCEPT ![h] = @ \cup r.flags]
  /\ fs' = IF op \in WritesF THEN [fs EXCEPT ![h] = "dirty"] ELSE fs
  /\ UNCHANGED frm

\* csrw to fcsr, fflags or frm: set_csr after the get_csr that needs FS.
WriteFcsr(h, flags, mode) ==
  /\ fs[h] # "off"
  /\ fflags' = [fflags EXCEPT ![h] = flags]
  /\ frm' = [frm EXCEPT ![h] = mode]
  /\ fs' = [fs EXCEPT ![h] = "dirty"]
  /\ raised' = [raised EXCEPT ![h] = flags]
  /\ UNCHANGED <<roundingMode, exceptionFlags, last>>
WriteFflags(h, flags) == WriteFcsr(h, flags, frm[h])
WriteFrm(h, mode) ==
  /\ fs[h] # "off"
  /\ frm' = [frm EXCEPT ![h] = mode]
  /\ fs' = [fs EXCEPT ![h] = "dirty"]
  /\ UNCHANGED <<fflags, roundingMode, exceptionFlags, last, raised>>

\* The supervisor writes the FS field of mstatus.
WriteFs(h, state) ==
  /\ fs' = [fs EXCEPT ![h] = state]
  /\ UNCHANGED <<frm, fflags, roundingMode, exceptionFlags, last, raised>>
=============================================================================
