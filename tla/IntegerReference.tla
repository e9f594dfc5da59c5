-------------------------- MODULE IntegerReference --------------------------
(* What the instruction set asks of the integer and memory instructions,     *)
(* stated on integers and on single bytes: the reference IntegerInsns is     *)
(* compared with.  A register of xlen bits is kept sign-extended.            *)
EXTENDS IntegerInsns

S(o, x) == Signed(x, o.xlen)
U(o, x) == Low(x, o.xlen)
\* The register that holds the integer x, cut to w bits.
Fit(x, w) == Reg(Signed(x, w))
X(o, x) == Fit(x, o.xlen)

\* q and r are the quotient rounded to zero and the remainder of l by d.
Divides(l, d, q, r) ==
  /\ q * d + r = l
  /\ (r >= 0 /\ l >= 0) \/ (r <= 0 /\ l <= 0)
  /\ (r < d /\ r > -d) \/ (r < -d /\ r > d)
\* By zero all bits are set and nothing is taken away; the one quotient that
\* does not fit wraps.
Division(o, w, l, d, q, r) ==
  IF d = 0 THEN q = AllOnes /\ r = Fit(l, w)
  ELSE IF l = -(2 ^ (w - 1)) /\ d = -1 THEN q = Fit(l, w) /\ r = 0
  ELSE /\ q = Fit(q, w) /\ r = Fit(r, w)
       /\ IF l < 0 \/ d < 0 THEN Divides(l, d, Signed(q, w), Signed(r, w))
          ELSE Divides(l, d, Low(q, w), Low(r, w))

\* Bit i of a word.
Bit(x, i) == (x \div 2 ^ i) % 2
Bits(z, F(_)) == \A i \in 0 .. L - 1 : Bit(z, i) = F(i)
Logic(o, x, y) ==
  /\ Bits(and(o), LAMBDA i : Bit(x, i) * Bit(y, i))
  /\ Bits(or(o), LAMBDA i : Bool(Bit(x, i) + Bit(y, i) > 0))
  /\ Bits(xor(o), LAMBDA i : Bool(Bit(x, i) # Bit(y, i)))

\* o.imm is the second operand of the immediate forms.
Sums(o) ==
  /\ add(o) = X(o, S(o, o.rs1) + S(o, o.rs2)) /\ sub(o) = X(o, S(o, o.rs1) - S(o, o.rs2))
  /\ addi(o) = X(o, S(o, o.rs1) + S(o, o.imm)) /\ auipc(o) = X(o, o.pc + S(o, o.imm))
  /\ addw(o) = Fit(o.rs1 + o.rs2, W) /\ subw(o) = Fit(o.rs1 - o.rs2, W)
  /\ addiw(o) = Fit(o.rs1 + o.imm, W) /\ lui(o) = X(o, o.imm)
Orders(o) ==
  /\ slt(o) = Bool(S(o, o.rs1) < S(o, o.rs2)) /\ sltu(o) = Bool(U(o, o.rs1) < U(o, o.rs2))
  /\ slti(o) = Bool(S(o, o.rs1) < S(o, o.imm)) /\ sltiu(o) = Bool(U(o, o.rs1) < U(o, o.imm))
Shifts(o) ==
  LET n == o.rs2 % o.xlen
      m == o.rs2 % W
      i == SHAMT(o)
  IN  /\ sll(o) = X(o, U(o, o.rs1) * 2 ^ n) /\ srl(o) = X(o, U(o, o.rs1) \div 2 ^ n)
      /\ sra(o) = X(o, S(o, o.rs1) \div 2 ^ n)
      /\ Legal("slli", o) => /\ slli(o) = X(o, U(o, o.rs1) * 2 ^ i) /\ srli(o) = X(o, U(o, o.rs1) \div 2 ^ i)
                             /\ srai(o) = X(o, S(o, o.rs1) \div 2 ^ i)
      /\ sllw(o) = Fit(o.rs1 * 2 ^ m, W) /\ srlw(o) = Fit(Low(o.rs1, W) \div 2 ^ m, W)
      /\ sraw(o) = Fit(Signed(o.rs1, W) \div 2 ^ m, W)
      /\ Legal("slliw", o) => /\ slliw(o) = Fit(o.rs1 * 2 ^ i, W) /\ srliw(o) = Fit(Low(o.rs1, W) \div 2 ^ i, W)
                              /\ sraiw(o) = Fit(Signed(o.rs1, W) \div 2 ^ i, W)
Products(o) ==
  /\ mul(o) = X(o, o.rs1 * o.rs2) /\ mulw(o) = Fit(o.rs1 * o.rs2, W)
  /\ mulh(o) = X(o, (S(o, o.rs1) * S(o, o.rs2)) \div 2 ^ o.xlen)
  /\ mulhu(o) = X(o, (U(o, o.rs1) * U(o, o.rs2)) \div 2 ^ o.xlen)
  /\ mulhsu(o) = X(o, (S(o, o.rs1) * U(o, o.rs2)) \div 2 ^ o.xlen)
Quotients(o) ==
  /\ Division(o, o.xlen, S(o, o.rs1), S(o, o.rs2), div(o), rem(o))
  /\ Division(o, o.xlen, U(o, o.rs1), U(o, o.rs2), divu(o), remu(o))
  /\ Legal("divw", o) => /\ Division(o, W, Signed(o.rs1, W), Signed(o.rs2, W), divw(o), remw(o))
                          /\ Division(o, W, Low(o.rs1, W), Low(o.rs2, W), divuw(o), remuw(o))
Branches(o) ==
  LET there == Target(o, Reg(o.pc + o.imm))
      next  == Fallthrough(o)
      goes(b) == IF b THEN there ELSE next
  IN  /\ beq(o) = goes(S(o, o.rs1) = S(o, o.rs2)) /\ bne(o) = goes(S(o, o.rs1) # S(o, o.rs2))
      /\ blt(o) = goes(S(o, o.rs1) < S(o, o.rs2)) /\ bge(o) = goes(S(o, o.rs1) >= S(o, o.rs2))
      /\ bltu(o) = goes(U(o, o.rs1) < U(o, o.rs2)) /\ bgeu(o) = goes(U(o, o.rs1) >= U(o, o.rs2))
      /\ jal(o) = there /\ jalr(o) = Target(o, 2 * (Reg(o.rs1 + o.imm) \div 2))

\* Each compressed instruction is one of the others, with the operands it names.
Zero(o) == [o EXCEPT !.rs2 = 0]
Imm0(o) == [o EXCEPT !.imm = 0]
Expansions(o) ==
  /\ c_add(o) = add(o) /\ c_addi(o) = addi(o) /\ c_addi4spn(o) = addi(o) /\ c_addw(o) = addw(o)
  /\ c_and(o) = and(o) /\ c_andi(o) = andi(o) /\ c_or(o) = or(o) /\ c_xor(o) = xor(o)
  /\ c_sub(o) = sub(o) /\ c_subw(o) = subw(o) /\ c_mv(o) = add([o EXCEPT !.rs1 = 0])
  /\ c_li(o) = addi([o EXCEPT !.rs1 = 0])
  /\ c_lui(o) = IF o.sp THEN addi(o) ELSE lui([o EXCEPT !.imm = Reg(o.imm * 2 ^ LuiShift)])
  /\ Legal("c_slli", o) => c_slli(o) = slli(o) /\ c_srli(o) = srli(o) /\ c_srai(o) = srai(o)
  /\ c_beqz(o) = beq(Zero(o)) /\ c_bnez(o) = bne(Zero(o)) /\ c_j(o) = jal(o)
  /\ c_jr(o) = jalr(Imm0(o)) /\ c_jalr(o) = jalr(Imm0(o))
  /\ c_jal(o) = IF o.xlen = W THEN [rd |-> Fallthrough(o), npc |-> jal(o)]
                ELSE [rd |-> addiw(o), npc |-> Fallthrough(o)]

-----------------------------------------------------------------------------
(* Memory, byte by byte. *)
Value(o, at, n) == LET v[i \in 0 .. n] == IF i = 0 THEN 0 ELSE o.mem[at + n - i] + 2 ^ ByteBits * v[i - 1] IN v[n]
\* The access is as wide as n bytes at a multiple of n.
Reads(o, n, signed, r) ==
  IF At(o) % n # 0 THEN r = Trapped(o)
  ELSE /\ ~r.trap /\ r.mem = o.mem
       /\ r.rd = IF signed THEN Fit(Value(o, At(o), n), n * ByteBits) ELSE Value(o, At(o), n)
Writes(o, at, n, x, mem) ==
  \A a \in DOMAIN mem :
    mem[a] = IF a < at \/ a >= at + n THEN o.mem[a] ELSE (Low(x, L) \div 2 ^ (ByteBits * (a - at))) % 2 ^ ByteBits
Keeps(o, n, r) ==
  IF At(o) % n # 0 THEN r = Trapped(o) ELSE ~r.trap /\ r.rd = NoValue /\ Writes(o, At(o), n, o.rs2, r.mem)
LoadsAndStores(o) ==
  /\ Reads(o, 1, TRUE, lb(o)) /\ Reads(o, 1, FALSE, lbu(o)) /\ Reads(o, 2, TRUE, lh(o)) /\ Reads(o, 2, FALSE, lhu(o))
  /\ Reads(o, 4, TRUE, lw(o)) /\ Reads(o, 4, FALSE, lwu(o)) /\ Reads(o, 8, TRUE, ld(o))
  /\ Keeps(o, 1, sb(o)) /\ Keeps(o, 2, sh(o)) /\ Keeps(o, 4, sw(o)) /\ Keeps(o, 8, sd(o))
  /\ Reads(o, 4, FALSE, flw(o)) /\ Reads(o, 8, TRUE, fld(o)) /\ Keeps(o, 4, fsw(o)) /\ Keeps(o, 8, fsd(o))
  /\ c_lw(o) = lw(o) /\ c_lwsp(o) = lw(o) /\ c_sw(o) = sw(o) /\ c_swsp(o) = sw(o)
  /\ c_fld(o) = fld(o) /\ c_fldsp(o) = fld(o) /\ c_fsd(o) = fsd(o) /\ c_fsdsp(o) = fsd(o)
  /\ o.xlen = L => /\ c_flw(o) = ld(o) /\ c_flwsp(o) = ld(o) /\ c_fsw(o) = sd(o) /\ c_fswsp(o) = sd(o)
  /\ o.xlen = W => c_fsw(o) = fsw(o) /\ c_fswsp(o) = fsw(o)
\* One step: the old value into the register, new of it and rs2 into memory.
Atomic(o, n, r, New(_, _)) ==
  IF o.rs1 % n # 0 THEN r = Trapped(o)
  ELSE LET old == Signed(Value(o, o.rs1, n), n * ByteBits)
       IN  ~r.trap /\ r.rd = Reg(old) /\ Writes(o, o.rs1, n, New(old, Signed(o.rs2, n * ByteBits)), r.mem)
Unsigned(x, n) == Low(x, n * ByteBits)
Swap(o, n, swap, plus, min, max, minu, maxu) ==
  /\ Atomic(o, n, swap, LAMBDA x, y : y) /\ Atomic(o, n, plus, LAMBDA x, y : x + y)
  /\ Atomic(o, n, min, LAMBDA x, y : IF x < y THEN x ELSE y) /\ Atomic(o, n, max, LAMBDA x, y : IF x < y THEN y ELSE x)
  /\ Atomic(o, n, minu, LAMBDA x, y : IF Unsigned(x, n) < Unsigned(y, n) THEN x ELSE y)
  /\ Atomic(o, n, maxu, LAMBDA x, y : IF Unsigned(x, n) < Unsigned(y, n) THEN y ELSE x)
\* Bit by bit: all of both, any of them, one other than the other.
Combine(o, n, all, any, other) ==
  o.rs1 % n = 0 =>
    LET x == Value(o, o.rs1, n)
        y == Unsigned(o.rs2, n)
        new(r) == Value([mem |-> r.mem], o.rs1, n)
    IN  \A i \in 0 .. n * ByteBits - 1 :
          /\ Bit(new(all), i) = Bit(x, i) * Bit(y, i) /\ Bit(new(any), i) = Bool(Bit(x, i) + Bit(y, i) > 0)
          /\ Bit(new(other), i) = Bool(Bit(x, i) # Bit(y, i))
Atomics(o) ==
  /\ Swap(o, 4, amoswap_w(o), amoadd_w(o), amomin_w(o), amomax_w(o), amominu_w(o), amomaxu_w(o))
  /\ Combine(o, 4, amoand_w(o), amoor_w(o), amoxor_w(o))
  /\ Legal("amoswap_d", o) => /\ Swap(o, 8, amoswap_d(o), amoadd_d(o), amomin_d(o), amomax_d(o), amominu_d(o), amomaxu_d(o))
                               /\ Combine(o, 8, amoand_d(o), amoor_d(o), amoxor_d(o))
=============================================================================
