---------------------------- MODULE IntegerInsns ----------------------------
(* The integer, multiply, memory, atomic, branch and compressed instructions *)
(* of the instruction set simulator (insns/ *.h, mulhi.h, decode.h), for     *)
(* bytes of ByteBits bits: a register has eight bytes, a word four.          *)
(*                                                                           *)
(* An operand record o has the fields xlen (L or W), rs1, rs2, imm, pc, len  *)
(* (length of the instruction), mem (the eight bytes at addresses 0 to 7)    *)
(* and ext (the extensions of the hart).  Register numbers are abstracted to *)
(* o.x0: the register field that a compressed instruction may not have zero  *)
(* is zero; o.sp: its destination is the stack pointer; and o.fs: the float  *)
(* registers are switched on.                                                *)
EXTENDS Integers, Bitwise

CONSTANTS ByteBits,
          LuiShift     \* the 12 of an upper immediate

L == 8 * ByteBits
W == 4 * ByteBits
Low(x, w) == x % 2 ^ w
Signed(x, w) == IF Low(x, w) >= 2 ^ (w - 1) THEN Low(x, w) - 2 ^ w ELSE Low(x, w)
Reg(x) == Low(x, L)
sreg(x) == Signed(x, L)
sext32(x) == Reg(Signed(x, W))
zext32(x) == Low(x, W)
sext_xlen(o, x) == Reg(Signed(x, o.xlen))
zext_xlen(o, x) == Low(x, o.xlen)
Bool(b) == IF b THEN 1 ELSE 0
Complement(x) == Reg(-1 - x)
SHAMT(o) == o.imm % L
AllOnes == Reg(-1)
\* The quotient of C, truncated; and its remainder.
Trunc(l, r) ==
  LET q == (IF l < 0 THEN -l ELSE l) \div (IF r < 0 THEN -r ELSE r)
  IN  IF (l < 0) # (r < 0) THEN -q ELSE q
Remainder(l, r) == l - r * Trunc(l, r)

-----------------------------------------------------------------------------
(* Results in the destination register. *)
add(o) == sext_xlen(o, o.rs1 + o.rs2)
addi(o) == sext_xlen(o, o.rs1 + o.imm)
addiw(o) == sext32(o.imm + o.rs1)
addw(o) == sext32(o.rs1 + o.rs2)
sub(o) == sext_xlen(o, o.rs1 - o.rs2)
subw(o) == sext32(o.rs1 - o.rs2)
and(o) == o.rs1 & o.rs2
andi(o) == o.imm & o.rs1
or(o) == o.rs1 | o.rs2
ori(o) == o.imm | o.rs1
xor(o) == o.rs1 ^^ o.rs2
xori(o) == o.imm ^^ o.rs1
auipc(o) == sext_xlen(o, o.imm + o.pc)
lui(o) == o.imm
slt(o) == Bool(sreg(o.rs1) < sreg(o.rs2))
slti(o) == Bool(sreg(o.rs1) < sreg(o.imm))
sltu(o) == Bool(o.rs1 < o.rs2)
sltiu(o) == Bool(o.rs1 < o.imm)
sll(o) == sext_xlen(o, o.rs1 * 2 ^ (o.rs2 % o.xlen))
slli(o) == sext_xlen(o, o.rs1 * 2 ^ SHAMT(o))
sllw(o) == sext32(o.rs1 * 2 ^ (o.rs2 % W))
slliw(o) == sext32(o.rs1 * 2 ^ SHAMT(o))
srl(o) == sext_xlen(o, zext_xlen(o, o.rs1) \div 2 ^ (o.rs2 % o.xlen))
srli(o) == sext_xlen(o, zext_xlen(o, o.rs1) \div 2 ^ SHAMT(o))
srlw(o) == sext32(zext32(o.rs1) \div 2 ^ (o.rs2 % W))
srliw(o) == sext32(zext32(o.rs1) \div 2 ^ SHAMT(o))
sra(o) == sext_xlen(o, sreg(sext_xlen(o, o.rs1)) \div 2 ^ (o.rs2 % o.xlen))
srai(o) == sext_xlen(o, sreg(sext_xlen(o, o.rs1)) \div 2 ^ SHAMT(o))
sraw(o) == sext32(Signed(o.rs1, W) \div 2 ^ (o.rs2 % W))
sraiw(o) == sext32(Signed(o.rs1, W) \div 2 ^ SHAMT(o))

\* mulhi.h: the high half of a product of registers, from their halves.
mulhu64(a, b) ==
  LET t == (a \div 2 ^ W) * Low(b, W) + ((Low(a, W) * Low(b, W)) \div 2 ^ W)
      s == Low(a, W) * (b \div 2 ^ W) + Low(t, W)
  IN  Reg((a \div 2 ^ W) * (b \div 2 ^ W) + (t \div 2 ^ W) + (s \div 2 ^ W))
Magnitude(a) == IF sreg(a) < 0 THEN Reg(-a) ELSE a

(* mutant: the high half of a negative product never takes the carry *)
NegatedNoCarry(negate, res, a, b) == IF negate THEN Complement(res) ELSE res

\* Two's complement of the whole product: a carry leaves a low half of zero.
Negated(negate, res, a, b) == IF negate THEN Reg(Complement(res) + Bool(Reg(a * b) = 0)) ELSE res
mulh64(a, b) == Negated((sreg(a) < 0) # (sreg(b) < 0), mulhu64(Magnitude(a), Magnitude(b)), a, b)
mulhsu64(a, b) == Negated(sreg(a) < 0, mulhu64(Magnitude(a), b), a, b)

mul(o) == sext_xlen(o, o.rs1 * o.rs2)
mulw(o) == sext32(o.rs1 * o.rs2)
mulh(o) == IF o.xlen = L THEN mulh64(o.rs1, o.rs2)
           ELSE sext32((Signed(o.rs1, W) * Signed(o.rs2, W)) \div 2 ^ W)
mulhu(o) == IF o.xlen = L THEN mulhu64(o.rs1, o.rs2)
            ELSE sext32((zext32(o.rs1) * zext32(o.rs2)) \div 2 ^ W)
mulhsu(o) == IF o.xlen = L THEN mulhsu64(o.rs1, o.rs2)
             ELSE sext32(Reg(Signed(o.rs1, W) * zext32(o.rs2)) \div 2 ^ W)

Lhs(o) == sreg(sext_xlen(o, o.rs1))
Rhs(o) == sreg(sext_xlen(o, o.rs2))
Overflows(o) == Lhs(o) = -(2 ^ (L - 1)) /\ Rhs(o) = -1
div(o) == IF Rhs(o) = 0 THEN AllOnes ELSE IF Overflows(o) THEN Reg(Lhs(o))
          ELSE sext_xlen(o, Trunc(Lhs(o), Rhs(o)))
rem(o) == IF Rhs(o) = 0 THEN Reg(Lhs(o)) ELSE IF Overflows(o) THEN 0
          ELSE sext_xlen(o, Remainder(Lhs(o), Rhs(o)))
divu(o) == IF zext_xlen(o, o.rs2) = 0 THEN AllOnes
           ELSE sext_xlen(o, zext_xlen(o, o.rs1) \div zext_xlen(o, o.rs2))
remu(o) == IF zext_xlen(o, o.rs2) = 0 THEN sext_xlen(o, o.rs1)
           ELSE sext_xlen(o, zext_xlen(o, o.rs1) % zext_xlen(o, o.rs2))
divw(o) == IF zext32(o.rs2) = 0 THEN AllOnes ELSE sext32(Trunc(Signed(o.rs1, W), Signed(o.rs2, W)))
remw(o) == IF zext32(o.rs2) = 0 THEN sext32(o.rs1) ELSE sext32(Remainder(Signed(o.rs1, W), Signed(o.rs2, W)))
divuw(o) == IF zext32(o.rs2) = 0 THEN AllOnes ELSE sext32(zext32(o.rs1) \div zext32(o.rs2))
remuw(o) == IF zext32(o.rs2) = 0 THEN sext32(o.rs1) ELSE sext32(zext32(o.rs1) % zext32(o.rs2))

-----------------------------------------------------------------------------
(* Where the next instruction is; set_pc refuses an address that is not a    *)
(* multiple of four without compressed instructions.                         *)
Misaligned == -1
Target(o, x) == IF (x \div 2) % 2 = 1 /\ "C" \notin o.ext THEN Misaligned ELSE sext_xlen(o, x)
Fallthrough(o) == sext_xlen(o, o.pc + o.len)
Branch(o, taken) == IF taken THEN Target(o, Reg(o.pc + o.imm)) ELSE Fallthrough(o)
beq(o) == Branch(o, o.rs1 = o.rs2)
bne(o) == Branch(o, o.rs1 # o.rs2)
blt(o) == Branch(o, sreg(o.rs1) < sreg(o.rs2))
bge(o) == Branch(o, sreg(o.rs1) >= sreg(o.rs2))
bltu(o) == Branch(o, o.rs1 < o.rs2)
bgeu(o) == Branch(o, o.rs1 >= o.rs2)
jal(o) == Target(o, Reg(o.pc + o.imm))
jalr(o) == Target(o, Reg(o.rs1 + o.imm) - (Reg(o.rs1 + o.imm) % 2))

-----------------------------------------------------------------------------
(* Memory.  An access gives the register (or NoValue) and the bytes, or a    *)
(* misaligned access trap.                                                   *)
NoValue == -1
Trapped(o) == [rd |-> NoValue, mem |-> o.mem, trap |-> TRUE]
Bytes(m, at, n) ==
  LET sum[i \in 0 .. n] == IF i = 0 THEN 0 ELSE sum[i - 1] + m[at + i - 1] * 2 ^ (ByteBits * (i - 1))
  IN  sum[n]
Written(m, at, n, x) ==
  [a \in DOMAIN m |-> IF a \in at .. at + n - 1 THEN (x \div 2 ^ (ByteBits * (a - at))) % 2 ^ ByteBits ELSE m[a]]
Loaded(o, at, n, signed) ==
  IF at % n # 0 THEN Trapped(o)
  ELSE [rd |-> IF signed THEN Reg(Signed(Bytes(o.mem, at, n), n * ByteBits)) ELSE Bytes(o.mem, at, n),
        mem |-> o.mem, trap |-> FALSE]
Stored(o, at, n, x) ==
  IF at % n # 0 THEN Trapped(o) ELSE [rd |-> NoValue, mem |-> Written(o.mem, at, n, x), trap |-> FALSE]
At(o) == Reg(o.rs1 + o.imm)
lb(o) == Loaded(o, At(o), 1, TRUE)
lbu(o) == Loaded(o, At(o), 1, FALSE)
lh(o) == Loaded(o, At(o), 2, TRUE)
lhu(o) == Loaded(o, At(o), 2, FALSE)
lw(o) == Loaded(o, At(o), 4, TRUE)
lwu(o) == Loaded(o, At(o), 4, FALSE)
ld(o) == Loaded(o, At(o), 8, TRUE)
sb(o) == Stored(o, At(o), 1, o.rs2)
sh(o) == Stored(o, At(o), 2, o.rs2)
sw(o) == Stored(o, At(o), 4, o.rs2)
sd(o) == Stored(o, At(o), 8, o.rs2)
\* A float register has 64 bits: flw extends a single by zero, c.flw by sign.
flw(o) == Loaded(o, At(o), 4, FALSE)
fld(o) == Loaded(o, At(o), 8, TRUE)
fsw(o) == Stored(o, At(o), 4, o.rs2)
fsd(o) == Stored(o, At(o), 8, o.rs2)

Least(a, b) == IF a < b THEN a ELSE b
Greatest(a, b) == IF a < b THEN b ELSE a
\* An atomic operation loads n bytes, stores new and gives the old value.
Amo(o, n, signed, New(_)) ==
  LET old == Loaded(o, o.rs1, n, signed)
  IN  IF old.trap THEN Trapped(o)
      ELSE [Stored(o, o.rs1, n, New(old.rd)) EXCEPT !.rd = sreg(old.rd) % 2 ^ L]
amoadd_w(o) == Amo(o, 4, TRUE, LAMBDA v : Reg(o.rs2 + v))
amoand_w(o) == Amo(o, 4, TRUE, LAMBDA v : o.rs2 & v)
amoor_w(o) == Amo(o, 4, TRUE, LAMBDA v : o.rs2 | v)
amoxor_w(o) == Amo(o, 4, TRUE, LAMBDA v : o.rs2 ^^ v)
amoswap_w(o) == Amo(o, 4, TRUE, LAMBDA v : o.rs2)
amomin_w(o) == Amo(o, 4, TRUE, LAMBDA v : Reg(Least(Signed(o.rs2, W), Signed(v, W))))
amomax_w(o) == Amo(o, 4, TRUE, LAMBDA v : Reg(Greatest(Signed(o.rs2, W), Signed(v, W))))

(* mutant: the minimum of unsigned words compares whole registers *)
amominu_wWide(o) == Amo(o, 4, TRUE, LAMBDA v : Least(o.rs2, zext32(v)))

amominu_w(o) == Amo(o, 4, TRUE, LAMBDA v : Least(zext32(o.rs2), zext32(v)))
amomaxu_w(o) == Amo(o, 4, TRUE, LAMBDA v : Greatest(zext32(o.rs2), zext32(v)))
amoadd_d(o) == Amo(o, 8, FALSE, LAMBDA v : Reg(o.rs2 + v))
amoand_d(o) == Amo(o, 8, FALSE, LAMBDA v : o.rs2 & v)
amoor_d(o) == Amo(o, 8, FALSE, LAMBDA v : o.rs2 | v)
amoxor_d(o) == Amo(o, 8, FALSE, LAMBDA v : o.rs2 ^^ v)
amoswap_d(o) == Amo(o, 8, FALSE, LAMBDA v : o.rs2)
amomin_d(o) == Amo(o, 8, TRUE, LAMBDA v : Reg(Least(sreg(o.rs2), sreg(v))))
amomax_d(o) == Amo(o, 8, TRUE, LAMBDA v : Reg(Greatest(sreg(o.rs2), sreg(v))))
amominu_d(o) == Amo(o, 8, FALSE, LAMBDA v : Least(o.rs2, v))
amomaxu_d(o) == Amo(o, 8, FALSE, LAMBDA v : Greatest(o.rs2, v))

-----------------------------------------------------------------------------
(* Compressed instructions; rs1 and rs2 are the registers they name, the     *)
(* stack pointer where they imply it.                                        *)
c_add(o) == sext_xlen(o, o.rs1 + o.rs2)
c_addi(o) == sext_xlen(o, o.rs1 + o.imm)
c_addi4spn(o) == sext_xlen(o, o.rs1 + o.imm)
c_addw(o) == sext32(o.rs1 + o.rs2)
c_and(o) == o.rs1 & o.rs2
c_andi(o) == o.rs1 & o.imm
c_or(o) == o.rs1 | o.rs2
c_xor(o) == o.rs1 ^^ o.rs2
c_sub(o) == sext_xlen(o, o.rs1 - o.rs2)
c_subw(o) == sext32(o.rs1 - o.rs2)
c_mv(o) == o.rs2
c_li(o) == o.imm
c_lui(o) == IF o.sp THEN sext_xlen(o, o.rs1 + o.imm) ELSE Reg(o.imm * 2 ^ LuiShift)
c_slli(o) == sext_xlen(o, o.rs1 * 2 ^ SHAMT(o))
c_srli(o) == sext_xlen(o, zext_xlen(o, o.rs1) \div 2 ^ SHAMT(o))
c_srai(o) == sext_xlen(o, sreg(sext_xlen(o, o.rs1)) \div 2 ^ SHAMT(o))
c_beqz(o) == Branch(o, o.rs1 = 0)
c_bnez(o) == Branch(o, o.rs1 # 0)
c_j(o) == Target(o, Reg(o.pc + o.imm))
c_jr(o) == Target(o, o.rs1 - (o.rs1 % 2))
c_jalr(o) == Target(o, o.rs1 - (o.rs1 % 2))
\* c.jal of RV32 is c.addiw of RV64: the link or sum, and the target.
c_jal(o) == IF o.xlen = W THEN [rd |-> Fallthrough(o), npc |-> Target(o, Reg(o.pc + o.imm))]
            ELSE [rd |-> sext32(o.rs1 + o.imm), npc |-> Fallthrough(o)]
c_lw(o) == Loaded(o, At(o), 4, TRUE)
c_lwsp(o) == Loaded(o, At(o), 4, TRUE)
c_sw(o) == Stored(o, At(o), 4, o.rs2)
c_swsp(o) == Stored(o, At(o), 4, o.rs2)
\* Accesses of float registers of RV32 are accesses of registers of RV64.
c_flw(o) == IF o.xlen = W THEN Loaded(o, At(o), 4, TRUE) ELSE Loaded(o, At(o), 8, TRUE)
c_flwsp(o) == IF o.xlen = W THEN Loaded(o, At(o), 4, TRUE) ELSE Loaded(o, At(o), 8, TRUE)
c_fsw(o) == IF o.xlen = W THEN Stored(o, At(o), 4, o.rs2) ELSE Stored(o, At(o), 8, o.rs2)
c_fswsp(o) == IF o.xlen = W THEN Stored(o, At(o), 4, o.rs2) ELSE Stored(o, At(o), 8, o.rs2)
c_fld(o) == Loaded(o, At(o), 8, TRUE)
c_fldsp(o) == Loaded(o, At(o), 8, TRUE)
c_fsd(o) == Stored(o, At(o), 8, o.rs2)
c_fsdsp(o) == Stored(o, At(o), 8, o.rs2)

-----------------------------------------------------------------------------
(* The require lines at the head of an instruction, and the encoding's mask  *)
(* that keeps the shifts of a word below W.                                  *)
Compressed == {"c_add", "c_addi", "c_addi4spn", "c_addw", "c_and", "c_andi", "c_or", "c_xor", "c_sub", "c_subw",
  "c_mv", "c_li", "c_lui", "c_slli", "c_srli", "c_srai", "c_beqz", "c_bnez", "c_j", "c_jr", "c_jalr", "c_jal",
  "c_lw", "c_lwsp", "c_sw", "c_swsp", "c_flw", "c_flwsp", "c_fsw", "c_fswsp", "c_fld", "c_fldsp", "c_fsd", "c_fsdsp"}
MulDiv == {"mul", "mulh", "mulhu", "mulhsu", "mulw", "div", "divu", "divw", "divuw", "rem", "remu", "remw", "remuw"}
AmoW == {"amoadd_w", "amoand_w", "amoor_w", "amoxor_w", "amoswap_w", "amomin_w", "amomax_w", "amominu_w", "amomaxu_w"}
AmoD == {"amoadd_d", "amoand_d", "amoor_d", "amoxor_d", "amoswap_d", "amomin_d", "amomax_d", "amominu_d", "amomaxu_d"}
Rv64 == {"addiw", "addw", "subw", "sllw", "slliw", "srlw", "srliw", "sraw", "sraiw", "mulw", "divw", "divuw", "remw",
         "remuw", "lwu", "ld", "sd", "c_addw", "c_subw"} \cup AmoD
Singles == {"flw", "fsw", "c_flw", "c_flwsp", "c_fsw", "c_fswsp"}
Doubles == {"fld", "fsd", "c_fld", "c_fldsp", "c_fsd", "c_fsdsp"}
NotX0 == {"c_add", "c_mv", "c_li", "c_jr", "c_jalr", "c_lwsp"}
ImmNot0 == {"c_addi4spn"}
Legal(op, o) ==
  /\ op \in Compressed => "C" \in o.ext
  /\ op \in MulDiv => "M" \in o.ext
  /\ op \in AmoW \cup AmoD => "A" \in o.ext
  /\ op \in Rv64 => o.xlen = L
  /\ op \in NotX0 => ~o.x0
  /\ (op \in {"c_jal", "c_flwsp"} /\ o.xlen = L) => ~o.x0
  /\ (op \in Singles /\ (op \in Compressed => o.xlen = W)) => "F" \in o.ext /\ o.fs
  /\ op \in Doubles => "D" \in o.ext /\ o.fs
  /\ op = "c_lui" => IF o.sp THEN o.imm # 0 ELSE ~o.x0
  /\ op \in ImmNot0 => o.imm # 0
  /\ op \in {"slli", "srli", "srai", "c_slli", "c_srli", "c_srai"} => SHAMT(o) < o.xlen
  /\ op \in {"slliw", "srliw", "sraiw"} => SHAMT(o) < W
=============================================================================
