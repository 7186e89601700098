---------------------------- MODULE BranchProofs ----------------------------
(***************************************************************************)
(* The emulation of one branch, proved for every width of a machine word,  *)
(* every instruction and every state of registers and memory.              *)
(***************************************************************************)
EXTENDS BranchEval, TLAPS

\* The flags are those of the last comparison, and until the branch is emulated
\* the saved state is the processor's.
Linked ==
    /\ pc = "guest" => state = before
    /\ pc # "guest" => \A f \in Flags : before.flags[f] = CmpFlags(cmp[1], cmp[2])[f]
    /\ pc = "eval" => state = before

----------------------------------------------------------------------------
(* Words and flags.                                                        *)

\* Sizes of a word, a half word and a quarter word.
LEMMA Words ==
    /\ N \in Nat \ {0} /\ N \div 2 = 2 ^ (W - 1) /\ N \div 4 = 2 ^ (W - 2)
    /\ 2 ^ (W - 1) \in Nat \ {0} /\ 2 ^ (W - 2) \in Nat \ {0} /\ N = 2 * (N \div 2)
    /\ Minus1 \in Vals /\ 0 \in Vals /\ InsnSz \in Vals /\ N >= 4
  <1> DEFINE q == 2 ^ (W - 2)
             h == 2 ^ (W - 1)
  <1>1. q \in Nat \ {0} /\ h = 2 * q /\ N = 2 * h
    BY PowersOfTwo
  <1> HIDE DEF q, h
  <1>2. N \in Nat \ {0} /\ N \div 2 = h /\ N \div 4 = q /\ N >= 4
    BY <1>1
  <1>3. Minus1 \in Vals /\ 0 \in Vals
    BY <1>2 DEF Minus1, Vals
  <1>4. InsnSz \in Vals
    BY BranchAssumption
  <1> QED BY <1>1, <1>2, <1>3, <1>4 DEF q, h

\* Reduction modulo the size of a word gives a word.
LEMMA ModWord ==
    ASSUME NEW x \in Int
    PROVE  x % N \in Vals
  BY Words DEF Vals

\* The difference of two words wraps at most once.
LEMMA WrapOnce ==
    ASSUME NEW a \in Vals, NEW b \in Vals
    PROVE  (a - b) % N = IF a >= b THEN a - b ELSE a - b + N
  <1>1. N \in Nat \ {0} /\ a \in 0 .. (N - 1) /\ b \in 0 .. (N - 1)
    BY Words DEF Vals
  <1>2. CASE a >= b
    BY <1>1, <1>2
  <1>3. CASE a < b
    BY <1>1, <1>3
  <1> QED BY <1>1, <1>2, <1>3

\* The flags cmp leaves.
LEMMA FlagValues ==
    ASSUME NEW a, NEW b
    PROVE  /\ CmpFlags(a, b)["zf"] = ((a - b) % N = 0)
           /\ CmpFlags(a, b)["cf"] = (a < b)
           /\ CmpFlags(a, b)["sf"] = (2 * ((a - b) % N) >= N)
           /\ CmpFlags(a, b)["of"] = (Signed((a - b) % N) # Signed(a) - Signed(b))
           /\ CmpFlags(a, b)["pf"] = (Ones((a - b) % N) % 2 = 0)
  BY Zenon DEF CmpFlags, Flags

\* They are truth values.
LEMMA FlagsTyped ==
    ASSUME NEW a, NEW b
    PROVE  CmpFlags(a, b) \in [Flags -> BOOLEAN]
  <1>1. /\ CmpFlags(a, b)["zf"] \in BOOLEAN /\ CmpFlags(a, b)["cf"] \in BOOLEAN
        /\ CmpFlags(a, b)["sf"] \in BOOLEAN /\ CmpFlags(a, b)["of"] \in BOOLEAN
        /\ CmpFlags(a, b)["pf"] \in BOOLEAN
    <2>1. /\ ((a - b) % N = 0) \in BOOLEAN /\ (a < b) \in BOOLEAN
          /\ (2 * ((a - b) % N) >= N) \in BOOLEAN
          /\ (Signed((a - b) % N) # Signed(a) - Signed(b)) \in BOOLEAN
          /\ (Ones((a - b) % N) % 2 = 0) \in BOOLEAN
      BY SMT
    <2> QED BY <2>1, FlagValues, Zenon
  <1>2. \A f \in Flags : CmpFlags(a, b)[f] \in BOOLEAN
    BY <1>1, Zenon DEF Flags
  <1> DEFINE Val(f) == CASE f = "zf" -> (a - b) % N = 0
                        [] f = "cf" -> a < b
                        [] f = "sf" -> 2 * ((a - b) % N) >= N
                        [] f = "of" -> Signed((a - b) % N) # Signed(a) - Signed(b)
                        [] f = "pf" -> Ones((a - b) % N) % 2 = 0
  <1>3. CmpFlags(a, b) = [f \in Flags |-> Val(f)]
    BY Zenon DEF CmpFlags
  <1> HIDE DEF Val
  <1>4. \A f \in Flags : Val(f) \in BOOLEAN
    <2> TAKE f \in Flags
    <2>1. CmpFlags(a, b)[f] \in BOOLEAN
      BY <1>2, Zenon
    <2>2. CmpFlags(a, b)[f] = Val(f)
      BY <1>3, Zenon
    <2> QED BY <2>1, <2>2, Zenon
  <1> QED BY <1>3, <1>4, Zenon

\* What the combinations of flags that is_jmp_taken tests say about the numbers.
LEMMA FlagsMean ==
    ASSUME NEW a \in Vals, NEW b \in Vals
    PROVE  /\ CmpFlags(a, b)["zf"] <=> a = b
           /\ CmpFlags(a, b)["cf"] <=> a < b
           /\ CmpFlags(a, b)["sf"] <=> Signed((a - b) % N) < 0
           /\ (CmpFlags(a, b)["sf"] <=> CmpFlags(a, b)["of"]) <=> Signed(a) >= Signed(b)
           /\ Signed(a) = Signed(b) <=> a = b
           /\ Signed(a) \in Int /\ Signed(b) \in Int /\ a \in Int /\ b \in Int
           /\ Signed((a - b) % N) \in Int
  <1> DEFINE r == (a - b) % N
             h == N \div 2
  <1>1. N \in Nat \ {0} /\ h \in Nat /\ N = 2 * h
    BY Words
  <1>2. a \in 0 .. (N - 1) /\ b \in 0 .. (N - 1)
    BY DEF Vals
  <1>3. r = IF a >= b THEN a - b ELSE a - b + N
    BY WrapOnce
  <1>4. /\ Signed(a) = IF a >= h THEN a - N ELSE a
        /\ Signed(b) = IF b >= h THEN b - N ELSE b
        /\ Signed(r) = IF r >= h THEN r - N ELSE r
        /\ (2 * r >= N) <=> r >= h
    <2> HIDE DEF h
    <2>1. r \in Int
      BY <1>1, <1>2, <1>3
    <2> HIDE DEF r
    <2> QED BY <1>1, <1>2, <2>1 DEF Signed
  <1> HIDE DEF r, h
  <1>5. r = 0 <=> a = b
    BY <1>1, <1>2, <1>3
  <1>6. (2 * r >= N) <=> Signed(r) < 0
    BY <1>1, <1>2, <1>3, <1>4
  <1>7. ((2 * r >= N) <=> (Signed(r) # Signed(a) - Signed(b))) <=> Signed(a) >= Signed(b)
    BY <1>1, <1>2, <1>3, <1>4
  <1>8. Signed(a) = Signed(b) <=> a = b
    BY <1>1, <1>2, <1>4
  <1>9. Signed(a) \in Int /\ Signed(b) \in Int /\ Signed(r) \in Int
    BY <1>1, <1>2, <1>3, <1>4
  <1>10. /\ CmpFlags(a, b)["zf"] = (r = 0) /\ CmpFlags(a, b)["cf"] = (a < b)
         /\ CmpFlags(a, b)["sf"] = (2 * r >= N)
         /\ CmpFlags(a, b)["of"] = (Signed(r) # Signed(a) - Signed(b))
    BY FlagValues, Zenon DEF r
  <1>11. /\ CmpFlags(a, b)["zf"] <=> a = b
         /\ CmpFlags(a, b)["cf"] <=> a < b
         /\ CmpFlags(a, b)["sf"] <=> Signed(r) < 0
    BY <1>5, <1>6, <1>10, Zenon
  <1>12. (CmpFlags(a, b)["sf"] <=> CmpFlags(a, b)["of"]) <=> Signed(a) >= Signed(b)
    BY <1>7, <1>10, Zenon
  <1>13. a \in Int /\ b \in Int
    BY <1>1, <1>2
  <1> QED BY <1>8, <1>9, <1>11, <1>12, <1>13 DEF r

----------------------------------------------------------------------------
(* Which jumps are taken.                                                  *)

\* is_jmp_taken decides every jump as the numbers compared before it say.
LEMMA TakenIffHolds ==
    ASSUME NEW a \in Vals, NEW b \in Vals, NEW id \in Known, before \in States,
           \A f \in Flags : before.flags[f] = CmpFlags(a, b)[f]
    PROVE  IsJmpTaken(before, id) <=> Holds(id, a, b)
  <1> DEFINE zf == before.flags["zf"]
             cf == before.flags["cf"]
             sf == before.flags["sf"]
             of == before.flags["of"]
  <1>1. /\ zf = CmpFlags(a, b)["zf"] /\ cf = CmpFlags(a, b)["cf"]
        /\ sf = CmpFlags(a, b)["sf"] /\ of = CmpFlags(a, b)["of"]
    BY Zenon DEF Flags
  <1>2. sf \in BOOLEAN /\ of \in BOOLEAN
    <2>1. CmpFlags(a, b) \in [Flags -> BOOLEAN]
      BY FlagsTyped, Zenon
    <2>2. "sf" \in Flags /\ "of" \in Flags
      BY DEF Flags
    <2>3. CmpFlags(a, b)["sf"] \in BOOLEAN /\ CmpFlags(a, b)["of"] \in BOOLEAN
      BY <2>1, <2>2, Zenon
    <2> QED BY <1>1, <2>3, Zenon
  <1>3. /\ zf <=> a = b
        /\ cf <=> a < b
        /\ sf <=> Signed((a - b) % N) < 0
        /\ (sf <=> of) <=> Signed(a) >= Signed(b)
        /\ (sf = of) <=> Signed(a) >= Signed(b)
    <2>1. (sf = of) <=> (sf <=> of)
      BY <1>2, Zenon
    <2> QED BY <1>1, <2>1, FlagsMean, Zenon
  <1>4. /\ a > b <=> ~(a < b) /\ ~(a = b)
        /\ a >= b <=> ~(a < b)
        /\ a <= b <=> a < b \/ a = b
        /\ Signed((a - b) % N) >= 0 <=> ~(Signed((a - b) % N) < 0)
        /\ Signed(a) > Signed(b) <=> ~(a = b) /\ Signed(a) >= Signed(b)
        /\ Signed(a) < Signed(b) <=> ~(Signed(a) >= Signed(b))
        /\ Signed(a) <= Signed(b) <=> a = b \/ ~(Signed(a) >= Signed(b))
    <2>1. /\ Signed(a) = Signed(b) <=> a = b
          /\ Signed(a) \in Int /\ Signed(b) \in Int /\ a \in Int /\ b \in Int
          /\ Signed((a - b) % N) \in Int
      BY FlagsMean, Zenon
    <2> QED BY <2>1, SMT
  <1>5. /\ IsJmpTaken(before, "je") <=> zf
        /\ IsJmpTaken(before, "jne") <=> ~zf
        /\ IsJmpTaken(before, "ja") <=> ~cf /\ ~zf
        /\ IsJmpTaken(before, "jae") <=> ~cf
        /\ IsJmpTaken(before, "jb") <=> cf
        /\ IsJmpTaken(before, "jbe") <=> cf \/ zf
    BY Zenon DEF IsJmpTaken, IsSet
  <1>6. /\ IsJmpTaken(before, "jg") <=> ~zf /\ sf = of
        /\ IsJmpTaken(before, "jge") <=> sf = of
        /\ IsJmpTaken(before, "jl") <=> sf # of
        /\ IsJmpTaken(before, "jle") <=> zf \/ sf # of
        /\ IsJmpTaken(before, "js") <=> sf
        /\ IsJmpTaken(before, "jns") <=> ~sf
    BY Zenon DEF IsJmpTaken, IsSet
  <1>7. /\ Holds("je", a, b) <=> a = b
        /\ Holds("jne", a, b) <=> a # b
        /\ Holds("ja", a, b) <=> a > b
        /\ Holds("jae", a, b) <=> a >= b
        /\ Holds("jb", a, b) <=> a < b
        /\ Holds("jbe", a, b) <=> a <= b
    BY Zenon DEF Holds
  <1>8. /\ Holds("jg", a, b) <=> Signed(a) > Signed(b)
        /\ Holds("jge", a, b) <=> Signed(a) >= Signed(b)
        /\ Holds("jl", a, b) <=> Signed(a) < Signed(b)
        /\ Holds("jle", a, b) <=> Signed(a) <= Signed(b)
        /\ Holds("js", a, b) <=> Signed((a - b) % N) < 0
        /\ Holds("jns", a, b) <=> Signed((a - b) % N) >= 0
    BY Zenon DEF Holds
  <1>9. CASE id \in {"je", "jne", "ja", "jae", "jb", "jbe"}
    BY <1>3, <1>4, <1>5, <1>7, <1>9, Zenon
  <1>10. CASE id \in {"jg", "jge", "jl", "jle", "js", "jns"}
    BY <1>3, <1>4, <1>6, <1>8, <1>10, Zenon
  <1>11. CASE id \in {"jcxz", "jecxz", "jrcxz"}
    <2>1. /\ IsJmpTaken(before, "jcxz") <=> before.regs["rcx"] % 2 ^ (W - 2) = 0
          /\ IsJmpTaken(before, "jecxz") <=> before.regs["rcx"] % 2 ^ (W - 1) = 0
          /\ IsJmpTaken(before, "jrcxz") <=> before.regs["rcx"] = 0
      BY Zenon DEF IsJmpTaken, ReadReg, Regs64, NoReg
    <2>2. /\ Holds("jcxz", a, b) <=> before.regs["rcx"] % (N \div 4) = 0
          /\ Holds("jecxz", a, b) <=> before.regs["rcx"] % (N \div 2) = 0
          /\ Holds("jrcxz", a, b) <=> before.regs["rcx"] = 0
      BY Zenon DEF Holds
    <2>3. N \div 2 = 2 ^ (W - 1) /\ N \div 4 = 2 ^ (W - 2)
      BY Words
    <2> QED BY <1>11, <2>1, <2>2, <2>3, Zenon
  <1>12. CASE id \in {"jo", "jno", "jp", "jnp", "jmp"}
    BY <1>12, Zenon DEF Holds
  <1> QED BY <1>9, <1>10, <1>11, <1>12, Zenon DEF Known

----------------------------------------------------------------------------
(* Operands.                                                               *)

\* The processor's reading of an operand, the last case of CpuTarget.
CpuOperand(op) ==
    CASE op.type = "reg" -> before.regs[op.reg]
      [] op.type = "imm" -> (before.regs["rip"] + op.imm) % N
      [] op.type = "mem" -> before.mem[CpuAddr(op)]

\* The fields of a state hold words.
LEMMA StateWords ==
    ASSUME NEW s \in States
    PROVE  /\ \A k \in Regs64 : s.regs[k] \in Vals
           /\ \A a \in Vals : s.mem[a] \in Vals
           /\ s.fsbase \in Vals
  BY DEF States

\* The forms an operand that is evaluated can have.
LEMMA OperandForms ==
    ASSUME NEW op \in Operands, op.type # "ret"
    PROVE  \/ op.type = "reg" /\ op.reg \in Regs64
           \/ op.type = "imm" /\ op.imm \in Vals
           \/ /\ op.type = "mem"
              /\ op.base \in Regs64 \cup {NoReg} /\ op.index \in Regs64 \cup {NoReg}
              /\ op.scale \in {1, 2} /\ op.disp \in Vals
  BY DEF Operands

\* read_reg of a register the operand has is a word, and of none it is -1.
LEMMA ReadRegValues ==
    ASSUME NEW s \in States
    PROVE  /\ \A k \in Regs64 : ReadReg(s, k) = s.regs[k] /\ ReadReg(s, k) \in Vals
           /\ ReadReg(s, NoReg) = Minus1
           /\ NoReg \notin Regs64
  <1>1. \A k \in Regs64 : ReadReg(s, k) = s.regs[k]
    BY Zenon DEF ReadReg, Regs64, NoReg
  <1>2. ReadReg(s, NoReg) = Minus1 /\ NoReg \notin Regs64
    BY Zenon DEF ReadReg, Regs64, NoReg
  <1>3. \A k \in Regs64 : s.regs[k] \in Vals
    BY StateWords
  <1> QED BY <1>1, <1>2, <1>3

\* The address of a memory operand is a word.
LEMMA AddressWord ==
    ASSUME NEW base \in Vals, NEW next \in Vals, NEW index \in Vals, NEW scale \in {1, 2},
           NEW disp \in Vals
    PROVE  /\ (base + next + index * scale + disp) % N \in Vals
           /\ base + next + index * scale + disp + 0 = base + next + index * scale + disp
  <1>1. base \in Int /\ next \in Int /\ index \in Int /\ disp \in Int /\ scale \in Int
    BY Words DEF Vals
  <1>2. index * scale \in Int
    BY <1>1
  <1>3. base + next + index * scale + disp \in Int
    BY <1>1, <1>2
  <1> QED BY <1>3, ModWord

\* The operand of a taken branch is a word: the one the processor reads, if
\* the state agrees with the processor's on what the operand names and there
\* is no segment; or -1, if a register is missing or holds -1.
LEMMA OperandMatches ==
    ASSUME NEW s \in States, before \in States, NEW op \in Operands, op.type # "ret"
    PROVE  /\ EvalOperand(s, op) \in Vals
           /\ ( /\ op.type = "mem" => op.seg = "none"
                /\ op.type = "reg" => s.regs[op.reg] = before.regs[op.reg]
                /\ s.regs["rip"] = before.regs["rip"]
                /\ op.type = "mem" =>
                      /\ \A k \in {op.base, op.index} \cap Regs64 : s.regs[k] = before.regs[k]
                      /\ s.mem[CpuAddr(op)] = before.mem[CpuAddr(op)] ) =>
              \/ EvalOperand(s, op) = CpuOperand(op)
              \/ /\ EvalOperand(s, op) = Minus1 /\ op.type = "mem"
                 /\ \/ op.base = NoReg
                    \/ Minus1 \in {CpuReg(op.base), CpuReg(op.index)}
  <1>1. CASE op.type = "reg" /\ op.reg \in Regs64
    <2>1. EvalOperand(s, op) = ReadReg(s, op.reg) /\ CpuOperand(op) = before.regs[op.reg]
      BY <1>1, Zenon DEF EvalOperand, CpuOperand
    <2>2. ReadReg(s, op.reg) = s.regs[op.reg] /\ ReadReg(s, op.reg) \in Vals
      BY <1>1, ReadRegValues
    <2> QED BY <1>1, <2>1, <2>2, Zenon
  <1>2. CASE op.type = "imm" /\ op.imm \in Vals
    <2>1. /\ EvalOperand(s, op) = (op.imm + s.regs["rip"]) % N
          /\ CpuOperand(op) = (before.regs["rip"] + op.imm) % N
      BY <1>2, Zenon DEF EvalOperand, CpuOperand
    <2>2. s.regs["rip"] \in Vals /\ before.regs["rip"] \in Vals
      BY StateWords DEF Regs64
    <2>3. /\ op.imm + s.regs["rip"] \in Int
          /\ op.imm + s.regs["rip"] = s.regs["rip"] + op.imm
      BY <1>2, <2>2, Words DEF Vals
    <2>4. (op.imm + s.regs["rip"]) % N \in Vals
      BY <2>3, ModWord
    <2> QED BY <1>2, <2>1, <2>3, <2>4, Zenon
  <1>3. CASE /\ op.type = "mem"
             /\ op.base \in Regs64 \cup {NoReg} /\ op.index \in Regs64 \cup {NoReg}
             /\ op.scale \in {1, 2} /\ op.disp \in Vals
    <2> DEFINE base  == ReadReg(s, op.base)
               index == IF op.index = NoReg THEN 0 ELSE ReadReg(s, op.index)
               next  == IF op.base = "rip" THEN InsnSz ELSE 0
               addr  == (base + next + index * op.scale + op.disp) % N
    <2>1. /\ EvalOperand(s, op) = (IF base = Minus1 \/ index = Minus1 THEN Minus1 ELSE s.mem[addr])
          /\ CpuOperand(op) = before.mem[CpuAddr(op)]
      BY <1>3, Zenon DEF EvalOperand, CpuOperand, MemTarget
    <2>2. base \in Vals /\ index \in Vals /\ next \in Vals
      BY <1>3, ReadRegValues, Words
    <2>3. addr \in Vals
      BY <1>3, <2>2, AddressWord
    <2>4. s.mem[addr] \in Vals
      BY <2>3, StateWords
    <2>5. EvalOperand(s, op) \in Vals
      BY <2>1, <2>4, Words, Zenon
    <2>6. ASSUME op.seg = "none", base # Minus1, index # Minus1,
                 \A k \in {op.base, op.index} \cap Regs64 : s.regs[k] = before.regs[k]
          PROVE  CpuAddr(op) = addr
      <3>1. op.base \in Regs64
        BY <1>3, <2>6, ReadRegValues
      <3>2. base = CpuReg(op.base) /\ index = CpuReg(op.index)
        BY <1>3, <3>1, <2>6, ReadRegValues DEF CpuReg
      <3>3. CpuAddr(op) = (base + next + index * op.scale + op.disp + 0) % N
        BY <3>2, <2>6, Zenon DEF CpuAddr
      <3>4. base + next + index * op.scale + op.disp + 0 = base + next + index * op.scale + op.disp
        <4> HIDE DEF base, index, next
        <4> QED BY <1>3, <2>2, AddressWord
      <3> QED BY <3>3, <3>4, Zenon
    <2>7. ASSUME base = Minus1 \/ index = Minus1,
                 \A k \in {op.base, op.index} \cap Regs64 : s.regs[k] = before.regs[k]
          PROVE  op.base = NoReg \/ Minus1 \in {CpuReg(op.base), CpuReg(op.index)}
      BY <1>3, <2>7, ReadRegValues, Words DEF CpuReg, Minus1
    <2> HIDE DEF base, index, next, addr
    <2> QED BY <1>3, <2>1, <2>5, <2>6, <2>7, Zenon
  <1> QED BY <1>1, <1>2, <1>3, OperandForms

\* So is the one the processor computes, without a segment.
LEMMA CpuAddrWord ==
    ASSUME before \in States, NEW op \in Operands, op.type = "mem", op.seg = "none"
    PROVE  CpuAddr(op) \in Vals
  <1> DEFINE next == IF op.base = "rip" THEN InsnSz ELSE 0
  <1>1. /\ op.base \in Regs64 \cup {NoReg} /\ op.index \in Regs64 \cup {NoReg}
        /\ op.scale \in {1, 2} /\ op.disp \in Vals
    BY OperandForms
  <1>2. CpuReg(op.base) \in Vals /\ CpuReg(op.index) \in Vals /\ next \in Vals
    BY <1>1, StateWords, Words DEF CpuReg
  <1>3. CpuAddr(op) = (CpuReg(op.base) + next + CpuReg(op.index) * op.scale + op.disp + 0) % N
    BY Zenon DEF CpuAddr
  <1> HIDE DEF next
  <1> DEFINE sum == CpuReg(op.base) + next + CpuReg(op.index) * op.scale + op.disp
  <1>4. sum % N \in Vals /\ sum + 0 = sum
    BY <1>1, <1>2, AddressWord
  <1> HIDE DEF sum
  <1>5. CpuAddr(op) = (sum + 0) % N
    BY <1>3 DEF sum
  <1> QED BY <1>4, <1>5, Zenon

\* A call pushes one word: rsp goes down one slot, which gets the address behind
\* the call, and nothing else changes.
LEMMA PushedState ==
    ASSUME NEW s \in States
    PROVE  LET sp == (s.regs["rsp"] - 1) % N
           IN  /\ Pushed(s) \in States /\ sp \in Vals
               /\ Pushed(s).regs["rsp"] = sp
               /\ \A k \in Regs64 \ {"rsp"} : Pushed(s).regs[k] = s.regs[k]
               /\ Pushed(s).mem[sp] = (s.regs["rip"] + InsnSz) % N
               /\ \A a \in Vals \ {sp} : Pushed(s).mem[a] = s.mem[a]
               /\ (sp + 1) % N = s.regs["rsp"]
  <1> DEFINE sp == (s.regs["rsp"] - 1) % N
             ret == (s.regs["rip"] + InsnSz) % N
  <1>1. s.regs["rsp"] \in Vals /\ s.regs["rip"] \in Vals
    BY StateWords DEF Regs64
  <1>2. s.regs["rsp"] - 1 \in Int /\ s.regs["rip"] + InsnSz \in Int
    BY <1>1, Words DEF Vals
  <1>3. sp \in Vals /\ ret \in Vals
    BY <1>2, ModWord
  <1>4. (sp + 1) % N = s.regs["rsp"]
    <2> DEFINE x == s.regs["rsp"]
    <2>1. x \in 0 .. (N - 1) /\ N \in Nat \ {0}
      BY <1>1, Words DEF Vals
    <2> HIDE DEF x
    <2>2. (x - 1) % N = IF x = 0 THEN N - 1 ELSE x - 1
      BY <2>1
    <2>3. (((x - 1) % N) + 1) % N = x
      BY <2>1, <2>2
    <2> QED BY <2>3 DEF x
  <1>5. Pushed(s) = [s EXCEPT !.regs["rsp"] = sp, !.mem[sp] = ret]
    BY DEF Pushed
  <1> HIDE DEF sp, ret
  <1>6. /\ Pushed(s) \in States
        /\ Pushed(s).regs["rsp"] = sp
        /\ \A k \in Regs64 \ {"rsp"} : Pushed(s).regs[k] = s.regs[k]
        /\ Pushed(s).mem[sp] = ret
        /\ \A a \in Vals \ {sp} : Pushed(s).mem[a] = s.mem[a]
    <2> DEFINE regs == [s.regs EXCEPT !["rsp"] = sp]
               mem == [s.mem EXCEPT ![sp] = ret]
    <2>1. Pushed(s) = [regs |-> regs, flags |-> s.flags, fsbase |-> s.fsbase, mem |-> mem]
      <3>1. s = [regs |-> s.regs, flags |-> s.flags, fsbase |-> s.fsbase, mem |-> s.mem]
        BY DEF States
      <3>2. [s EXCEPT !.regs["rsp"] = sp]
              = [regs |-> regs, flags |-> s.flags, fsbase |-> s.fsbase, mem |-> s.mem]
        BY <3>1
      <3> QED BY <1>5, <3>2
    <2>2. s.regs \in [Regs64 -> Vals] /\ s.mem \in [Vals -> Vals]
      BY DEF States
    <2>3. /\ regs \in [Regs64 -> Vals] /\ mem \in [Vals -> Vals]
          /\ regs["rsp"] = sp
          /\ \A k \in Regs64 \ {"rsp"} : regs[k] = s.regs[k]
          /\ mem[sp] = ret
          /\ \A a \in Vals \ {sp} : mem[a] = s.mem[a]
      BY <1>3, <2>2 DEF Regs64
    <2> HIDE DEF regs, mem
    <2> QED BY <2>1, <2>3 DEF States
  <1> QED BY <1>3, <1>4, <1>6 DEF sp, ret

----------------------------------------------------------------------------
(* One step.                                                               *)

\* The inductive invariant: the properties, and the link that lets the flags be
\* read as the comparison.
IInv == TypeOK /\ Linked /\ GoesWhereCpuGoes /\ RefusedForReason /\ CallFrames

\* Where the processor goes, in terms of its reading of the operand.
CpuTargetIs ==
    CpuTarget = IF insn.id = "ret" THEN before.mem[before.regs["rsp"]]
                ELSE IF insn.id # "call" /\ ~Holds(insn.id, cmp[1], cmp[2])
                THEN (before.regs["rip"] + InsnSz) % N
                ELSE CpuOperand(insn.op)

\* It follows from the definitions.
LEMMA CpuTargetUnfolds == CpuTargetIs
  BY Zenon DEF CpuTargetIs, CpuTarget, CpuOperand

\* What the processor does is fixed once the comparison is made.
LEMMA CpuFixed ==
    ASSUME insn' = insn, cmp' = cmp, before' = before
    PROVE  /\ CpuTarget' = CpuTarget
           /\ Plain' = Plain
           /\ \A k : CpuReg(k)' = CpuReg(k)
  <1>1. \A k : CpuReg(k)' = CpuReg(k)
    BY Zenon DEF CpuReg
  <1>2. \A op : CpuAddr(op)' = CpuAddr(op)
    BY Zenon DEF CpuAddr, CpuReg
  <1>3. Plain' = Plain
    BY Zenon DEF Plain, CpuAddr, CpuReg
  <1>4. Holds(insn.id, cmp[1], cmp[2])' = Holds(insn.id, cmp[1], cmp[2])
    BY Zenon DEF Holds
  <1>5. CpuTarget' = CpuTarget
    <2>1. CpuOperand(insn.op)' = CpuOperand(insn.op)
      BY <1>2, Zenon DEF CpuOperand, CpuAddr, CpuReg
    <2>2. CpuTargetIs'
      BY CpuTargetUnfolds, PTL
    <2>3. CpuTarget' = IF insn.id = "ret" THEN before.mem[before.regs["rsp"]]
                       ELSE IF insn.id # "call" /\ ~(Holds(insn.id, cmp[1], cmp[2])')
                       THEN (before.regs["rip"] + InsnSz) % N
                       ELSE CpuOperand(insn.op)'
      BY <2>2, Zenon DEF CpuTargetIs
    <2> QED BY <1>4, <2>1, <2>3, CpuTargetUnfolds, Zenon DEF CpuTargetIs
  <1> QED BY <1>1, <1>3, <1>5

\* A jump: taken as the comparison says, to the operand or behind the jump.
LEMMA JmpStep ==
    ASSUME IInv, EmulateJmp
    PROVE  IInv'
  <1> DEFINE taken == IsJmpTaken(before, insn.id)
             t == IF taken THEN EvalOperand(before, insn.op) ELSE (before.regs["rip"] + InsnSz) % N
  <1>1. /\ insn \in Insns /\ before \in States /\ cmp \in Vals \X Vals
        /\ state \in States /\ pc = "eval" /\ insn.id \in Known
        /\ insn' = insn /\ cmp' = cmp /\ before' = before /\ state' = state
    BY Zenon DEF IInv, TypeOK, EmulateJmp
  <1>2. state = before /\ \A f \in Flags : before.flags[f] = CmpFlags(cmp[1], cmp[2])[f]
    BY <1>1 DEF IInv, Linked
  <1>3. target' = t /\ pc' = IF t = Minus1 THEN "fatal" ELSE "done"
    BY <1>2, Zenon DEF EmulateJmp, Arrive
  <1>4. cmp[1] \in Vals /\ cmp[2] \in Vals
    BY <1>1
  <1>5. taken <=> Holds(insn.id, cmp[1], cmp[2])
    BY <1>1, <1>2, <1>4, TakenIffHolds, Zenon
  <1>6. insn.id # "ret" /\ insn.id # "call"
    BY <1>1 DEF Known
  <1>7. insn.op \in Operands /\ insn.op.type # "ret"
    BY <1>1, <1>6, BranchAssumption
  <1>8. t \in Vals
    <2>1. EvalOperand(before, insn.op) \in Vals
      BY <1>1, <1>7, OperandMatches, Zenon
    <2>2. before.regs["rip"] \in Vals
      BY <1>1, StateWords DEF Regs64
    <2>3. before.regs["rip"] + InsnSz \in Int
      BY <2>2, Words DEF Vals
    <2>4. (before.regs["rip"] + InsnSz) % N \in Vals
      BY <2>3, ModWord
    <2> QED BY <2>1, <2>4, Zenon
  <1>9. Plain => \/ t = CpuTarget
                 \/ /\ t = Minus1 /\ insn.op.type = "mem"
                    /\ \/ insn.op.base = NoReg
                       \/ Minus1 \in {CpuReg(insn.op.base), CpuReg(insn.op.index)}
    <2> HAVE Plain
    <2>1. insn.op.type = "mem" => insn.op.seg = "none"
      BY DEF Plain
    <2>2. \/ EvalOperand(before, insn.op) = CpuOperand(insn.op)
          \/ /\ EvalOperand(before, insn.op) = Minus1 /\ insn.op.type = "mem"
             /\ \/ insn.op.base = NoReg
                \/ Minus1 \in {CpuReg(insn.op.base), CpuReg(insn.op.index)}
      BY <1>1, <1>7, <2>1, OperandMatches, Zenon
    <2>3. CpuTarget = IF taken THEN CpuOperand(insn.op) ELSE (before.regs["rip"] + InsnSz) % N
      BY <1>5, <1>6, CpuTargetUnfolds, Zenon DEF CpuTargetIs
    <2> QED BY <2>2, <2>3, Zenon
  <1>10. /\ CpuTarget' = CpuTarget /\ Plain' = Plain
         /\ \A k : CpuReg(k)' = CpuReg(k)
    BY <1>1, CpuFixed
  <1> HIDE DEF taken, t
  <1>11. pc' \in {"done", "fatal"} /\ (pc' = "done" <=> t # Minus1)
    BY <1>3
  <1>12. TypeOK'
    BY <1>1, <1>3, <1>8, <1>11, Zenon DEF TypeOK
  <1>13. Linked'
    BY <1>1, <1>2, <1>11 DEF Linked
  <1>14. GoesWhereCpuGoes'
    BY <1>3, <1>9, <1>10, <1>11, Zenon DEF GoesWhereCpuGoes
  <1>15. RefusedForReason'
    <2>1. CpuReg(insn.op.base)' = CpuReg(insn.op.base) /\ CpuReg(insn.op.index)' = CpuReg(insn.op.index)
      BY <1>1, <1>10 DEF CpuReg
    <2> QED BY <1>1, <1>9, <1>10, <1>11, <2>1, Zenon DEF RefusedForReason
  <1>16. CallFrames'
    BY <1>1, <1>2, <1>6, Zenon DEF CallFrames
  <1> QED BY <1>12, <1>13, <1>14, <1>15, <1>16 DEF IInv

\* A call: the push comes first, and a plain operand does not see it.
LEMMA CallStep ==
    ASSUME IInv, EmulateCall
    PROVE  IInv'
  <1> DEFINE sp == (before.regs["rsp"] - 1) % N
             t == EvalOperand(Pushed(before), insn.op)
  <1>1. /\ insn \in Insns /\ before \in States /\ cmp \in Vals \X Vals
        /\ pc = "eval" /\ insn.id = "call"
        /\ insn' = insn /\ cmp' = cmp /\ before' = before
    BY Zenon DEF IInv, TypeOK, EmulateCall
  <1>2. state = before /\ \A f \in Flags : before.flags[f] = CmpFlags(cmp[1], cmp[2])[f]
    BY <1>1 DEF IInv, Linked
  <1>3. state' = Pushed(before) /\ target' = t /\ pc' = IF t = Minus1 THEN "fatal" ELSE "done"
    BY <1>2, Zenon DEF EmulateCall, Arrive
  <1>4. /\ Pushed(before) \in States /\ sp \in Vals
        /\ Pushed(before).regs["rsp"] = sp
        /\ \A k \in Regs64 \ {"rsp"} : Pushed(before).regs[k] = before.regs[k]
        /\ Pushed(before).mem[sp] = (before.regs["rip"] + InsnSz) % N
        /\ \A a \in Vals \ {sp} : Pushed(before).mem[a] = before.mem[a]
        /\ (sp + 1) % N = before.regs["rsp"]
    BY <1>1, PushedState, Zenon
  <1>5. insn.op \in Operands /\ insn.op.type # "ret"
    BY <1>1, BranchAssumption
  <1>6. t \in Vals
    BY <1>1, <1>4, <1>5, OperandMatches, Zenon
  <1>7. Plain => \/ t = CpuTarget
                 \/ /\ t = Minus1 /\ insn.op.type = "mem"
                    /\ \/ insn.op.base = NoReg
                       \/ Minus1 \in {CpuReg(insn.op.base), CpuReg(insn.op.index)}
    <2> HAVE Plain
    <2> DEFINE s == Pushed(before)
    <2>1. insn.op.type = "mem" => insn.op.seg = "none"
      BY DEF Plain
    <2>2. s.regs["rip"] = before.regs["rip"]
      BY <1>4 DEF Regs64
    <2>3. insn.op.type = "reg" => s.regs[insn.op.reg] = before.regs[insn.op.reg]
      <3>1. insn.op.type = "reg" => insn.op.reg \in Regs64 \ {"rsp"}
        BY <1>1, <1>5, OperandForms DEF Plain
      <3> QED BY <1>4, <3>1
    <2>4. insn.op.type = "mem" =>
            \A k \in {insn.op.base, insn.op.index} \cap Regs64 : s.regs[k] = before.regs[k]
      <3>1. insn.op.type = "mem" => "rsp" \notin {insn.op.base, insn.op.index}
        BY <1>1 DEF Plain
      <3> QED BY <1>4, <3>1
    <2>5. insn.op.type = "mem" => s.mem[CpuAddr(insn.op)] = before.mem[CpuAddr(insn.op)]
      <3> HAVE insn.op.type = "mem"
      <3>1. CpuAddr(insn.op) # sp
        BY <1>1 DEF Plain
      <3>2. CpuAddr(insn.op) \in Vals
        BY <1>1, <1>5, <2>1, CpuAddrWord
      <3> QED BY <1>4, <3>1, <3>2
    <2>6. \/ t = CpuOperand(insn.op)
          \/ /\ t = Minus1 /\ insn.op.type = "mem"
             /\ \/ insn.op.base = NoReg
                \/ Minus1 \in {CpuReg(insn.op.base), CpuReg(insn.op.index)}
      BY <1>1, <1>4, <1>5, <2>1, <2>2, <2>3, <2>4, <2>5, OperandMatches, Zenon
    <2>7. CpuTarget = CpuOperand(insn.op)
      BY <1>1, CpuTargetUnfolds, Zenon DEF CpuTargetIs
    <2> QED BY <2>6, <2>7, Zenon
  <1>8. /\ CpuTarget' = CpuTarget /\ Plain' = Plain
        /\ \A k : CpuReg(k)' = CpuReg(k)
    BY <1>1, CpuFixed
  <1> HIDE DEF t
  <1>9. pc' \in {"done", "fatal"} /\ (pc' = "done" <=> t # Minus1)
    BY <1>3
  <1>10. TypeOK'
    BY <1>1, <1>3, <1>4, <1>6, <1>9, Zenon DEF TypeOK
  <1>11. Linked'
    BY <1>1, <1>2, <1>9 DEF Linked
  <1>12. GoesWhereCpuGoes'
    BY <1>3, <1>7, <1>8, <1>9, Zenon DEF GoesWhereCpuGoes
  <1>13. RefusedForReason'
    <2>1. CpuReg(insn.op.base)' = CpuReg(insn.op.base) /\ CpuReg(insn.op.index)' = CpuReg(insn.op.index)
      BY <1>1, <1>8 DEF CpuReg
    <2> QED BY <1>1, <1>7, <1>8, <1>9, <2>1, Zenon DEF RefusedForReason
  <1>14. CallFrames'
    <2> HIDE DEF sp
    <2>1. \A a \in Vals : a # sp => state'.mem[a] = before'.mem[a]
      BY <1>1, <1>3, <1>4
    <2>2. state'.regs["rsp"] = sp /\ state'.mem[sp] = (before.regs["rip"] + InsnSz) % N
      BY <1>3, <1>4 DEF sp
    <2> QED BY <1>1, <1>4, <2>1, <2>2, Zenon DEF CallFrames
  <1> QED BY <1>10, <1>11, <1>12, <1>13, <1>14 DEF IInv

\* A return: to the word rsp points at, and rsp goes up one slot.
LEMMA RetStep ==
    ASSUME IInv, EmulateRet
    PROVE  IInv'
  <1> DEFINE x == before.regs["rsp"]
             up == (x + 1) % N
             t == before.mem[x]
  <1>1. /\ insn \in Insns /\ before \in States /\ cmp \in Vals \X Vals
        /\ pc = "eval" /\ insn.id = "ret"
        /\ insn' = insn /\ cmp' = cmp /\ before' = before
    BY Zenon DEF IInv, TypeOK, EmulateRet
  <1>2. state = before /\ \A f \in Flags : before.flags[f] = CmpFlags(cmp[1], cmp[2])[f]
    BY <1>1 DEF IInv, Linked
  <1>3. /\ state' = [before EXCEPT !.regs["rsp"] = up]
        /\ target' = t /\ pc' = IF t = Minus1 THEN "fatal" ELSE "done"
    BY <1>2, Zenon DEF EmulateRet, Arrive
  <1>4. x \in Vals /\ t \in Vals
    BY <1>1, StateWords DEF Regs64
  <1>5. up \in Vals /\ (up - 1) % N = x
    <2>1. N \in Nat \ {0} /\ x \in 0 .. (N - 1)
      BY <1>4, Words DEF Vals
    <2> HIDE DEF x
    <2>2. up = IF x = N - 1 THEN 0 ELSE x + 1
      BY <2>1
    <2> HIDE DEF up
    <2>3. (up - 1) % N = x
      BY <2>1, <2>2
    <2> QED BY <2>1, <2>2, <2>3 DEF Vals
  <1>6. t = CpuTarget
    BY <1>1, CpuTargetUnfolds, Zenon DEF CpuTargetIs
  <1>7. CpuTarget' = CpuTarget /\ Plain' = Plain
    BY <1>1, CpuFixed
  <1> HIDE DEF t, up
  <1>8. state' \in States /\ state'.regs["rsp"] = up /\ state'.mem = before.mem
    BY <1>1, <1>3, <1>5 DEF States, Regs64
  <1>9. pc' \in {"done", "fatal"} /\ (pc' = "done" <=> t # Minus1)
    BY <1>3
  <1>10. TypeOK'
    BY <1>1, <1>3, <1>4, <1>8, <1>9, Zenon DEF TypeOK
  <1>11. Linked'
    BY <1>1, <1>2, <1>9 DEF Linked
  <1>12. GoesWhereCpuGoes'
    BY <1>3, <1>6, <1>7, Zenon DEF GoesWhereCpuGoes
  <1>13. RefusedForReason'
    BY <1>6, <1>7, <1>9, Zenon DEF RefusedForReason
  <1>14. CallFrames'
    <2>1. insn'.id # "call" /\ (state'.regs["rsp"] - 1) % N = before'.regs["rsp"]
      BY <1>1, <1>5, <1>8
    <2>2. \A a \in Vals : state'.mem[a] = before'.mem[a]
      BY <1>1, <1>8
    <2> QED BY <2>1, <2>2, Zenon DEF CallFrames
  <1> QED BY <1>10, <1>11, <1>12, <1>13, <1>14 DEF IInv

\* The guest's comparison sets the flags and nothing else.
LEMMA CompareStep ==
    ASSUME IInv, NEW a \in Vals, NEW b \in Vals, Compare(a, b)
    PROVE  IInv'
  <1>1. /\ insn' = insn /\ cmp' = <<a, b>> /\ state' = before' /\ target' = target
        /\ pc' = "eval" /\ before' = [before EXCEPT !.flags = CmpFlags(a, b)]
    BY DEF Compare
  <1>2. CmpFlags(a, b) \in [Flags -> BOOLEAN]
    BY FlagsTyped
  <1>3. before \in States /\ insn \in Insns /\ target \in Vals
    BY DEF IInv, TypeOK
  <1>4. before' \in States /\ before'.flags = CmpFlags(a, b)
    BY <1>1, <1>2, <1>3 DEF States
  <1>5. cmp' \in Vals \X Vals /\ cmp'[1] = a /\ cmp'[2] = b
    BY <1>1
  <1>6. TypeOK'
    BY <1>1, <1>3, <1>4, <1>5, Zenon DEF TypeOK
  <1>7. Linked'
    BY <1>1, <1>4, <1>5, Zenon DEF Linked
  <1>8. GoesWhereCpuGoes' /\ RefusedForReason' /\ CallFrames'
    <2>1. pc' # "done" /\ pc' # "fatal"
      BY <1>1
    <2> QED BY <2>1, Zenon DEF GoesWhereCpuGoes, RefusedForReason, CallFrames
  <1> QED BY <1>6, <1>7, <1>8 DEF IInv

\* An instruction that is not emulated ends the engine.
LEMMA UnknownStep ==
    ASSUME IInv, Unknown
    PROVE  IInv'
  <1>1. /\ insn' = insn /\ cmp' = cmp /\ before' = before /\ state' = state /\ target' = target
        /\ pc = "eval" /\ pc' = "fatal" /\ insn.id \notin Known \cup {"call", "ret"}
    BY DEF Unknown
  <1>2. TypeOK'
    BY <1>1, Zenon DEF IInv, TypeOK
  <1>3. Linked'
    BY <1>1 DEF IInv, Linked
  <1>4. GoesWhereCpuGoes' /\ CallFrames'
    <2>1. pc' # "done"
      BY <1>1
    <2> QED BY <2>1, Zenon DEF GoesWhereCpuGoes, CallFrames
  <1>5. RefusedForReason'
    BY <1>1, Zenon DEF RefusedForReason
  <1> QED BY <1>2, <1>3, <1>4, <1>5 DEF IInv

\* Nothing changes when nothing happens.
LEMMA BranchStutter ==
    ASSUME IInv, UNCHANGED vars
    PROVE  IInv'
  <1>1. /\ insn' = insn /\ cmp' = cmp /\ before' = before /\ state' = state /\ target' = target
        /\ pc' = pc
    BY DEF vars
  <1>2. TypeOK' /\ Linked'
    BY <1>1, Zenon DEF IInv, TypeOK, Linked
  <1>3. CpuTarget' = CpuTarget /\ Plain' = Plain
    BY <1>1, CpuFixed
  <1>4. GoesWhereCpuGoes' /\ CallFrames'
    BY <1>1, <1>3, Zenon DEF IInv, GoesWhereCpuGoes, CallFrames
  <1>5. RefusedForReason'
    <2>1. CpuReg(insn.op.base)' = CpuReg(insn.op.base) /\ CpuReg(insn.op.index)' = CpuReg(insn.op.index)
      BY <1>1 DEF CpuReg
    <2> QED BY <1>1, <1>3, <2>1, Zenon DEF IInv, RefusedForReason
  <1> QED BY <1>2, <1>4, <1>5 DEF IInv

----------------------------------------------------------------------------
(* The theorems.                                                           *)

\* The invariant holds when the guest is about to compare.
LEMMA BranchInit == Init => IInv
  <1> SUFFICES ASSUME Init PROVE IInv
    OBVIOUS
  <1>1. /\ insn \in Insns /\ before \in States /\ state = before /\ cmp = <<0, 0>> /\ target = 0
        /\ pc = "guest"
    BY BranchAssumption DEF Init
  <1>2. TypeOK
    BY <1>1, Words DEF TypeOK
  <1>3. Linked
    BY <1>1 DEF Linked
  <1>4. pc # "done" /\ pc # "fatal"
    BY <1>1
  <1>5. GoesWhereCpuGoes /\ RefusedForReason /\ CallFrames
    BY <1>4, Zenon DEF GoesWhereCpuGoes, RefusedForReason, CallFrames
  <1> QED BY <1>2, <1>3, <1>5 DEF IInv

\* Every step keeps the invariant.
LEMMA BranchInductive == IInv /\ [Next]_vars => IInv'
  <1> SUFFICES ASSUME IInv, [Next]_vars PROVE IInv'
    OBVIOUS
  <1>1. CASE \E a, b \in Vals : Compare(a, b)
    BY <1>1, CompareStep
  <1>2. CASE EmulateJmp
    BY <1>2, JmpStep
  <1>3. CASE EmulateCall
    BY <1>3, CallStep
  <1>4. CASE EmulateRet
    BY <1>4, RetStep
  <1>5. CASE Unknown
    BY <1>5, UnknownStep
  <1>6. CASE Ended
    BY <1>6, BranchStutter DEF Ended
  <1>7. CASE UNCHANGED vars
    BY <1>7, BranchStutter
  <1> QED BY <1>1, <1>2, <1>3, <1>4, <1>5, <1>6, <1>7 DEF Next

\* Registers, memory and targets stay machine words.
THEOREM BranchTyped == Spec => []TypeOK
  <1>1. IInv => TypeOK
    BY DEF IInv
  <1> QED BY <1>1, BranchInit, BranchInductive, PTL DEF Spec

\* Every emulated branch with a plain operand goes where the processor would:
\* each conditional jump as the comparison before it says, for all operands.
THEOREM JumpsWhereCpuGoes == Spec => []GoesWhereCpuGoes
  <1>1. IInv => GoesWhereCpuGoes
    BY DEF IInv
  <1> QED BY <1>1, BranchInit, BranchInductive, PTL DEF Spec

\* The engine refuses a branch only for one of the four reasons.
THEOREM AlwaysRefusedForReason == Spec => []RefusedForReason
  <1>1. IInv => RefusedForReason
    BY DEF IInv
  <1> QED BY <1>1, BranchInit, BranchInductive, PTL DEF Spec

\* A call and a return are inverse on the stack and touch nothing else.
THEOREM AlwaysCallFrames == Spec => []CallFrames
  <1>1. IInv => CallFrames
    BY DEF IInv
  <1> QED BY <1>1, BranchInit, BranchInductive, PTL DEF Spec

=============================================================================
