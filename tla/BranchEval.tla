----------------------------- MODULE BranchEval -----------------------------
(***************************************************************************)
(* The emulation of one control-flow instruction: is_jmp_taken, read_reg   *)
(* and the jump, call and return cases of __eval_target, on machine words  *)
(* of W bits (src/src/analysis.c, src/src/state_runt.c).  System calls are *)
(* in modules HookEngine and Tls.  A stack slot is one address.            *)
(***************************************************************************)
EXTENDS Integers, FiniteSets

CONSTANTS
    W,          \* bits of a machine word
    InsnSz,     \* insn->size
    Insns,      \* instructions to emulate
    Starts      \* registers and memory before them

N     == 2 ^ W
Vals  == 0 .. (N - 1)
Minus1 == N - 1             \* (uint64_t)-1

\* X86_REG_INVALID is "none": the operand has no such register.
Regs64  == {"rbx", "rcx", "rsp", "rip"}
NoReg   == "none"
Flags   == {"cf", "pf", "zf", "sf", "of"}

\* An instruction and its first operand, as capstone delivers them.  The
\* immediate of a direct branch is decoded at address 0: it is relative.  Far
\* branches and 32-bit address registers are left out.
Operands ==
    [type : {"reg"}, reg : Regs64] \cup [type : {"imm"}, imm : Vals]
      \cup [type : {"mem"}, base : Regs64 \cup {NoReg}, index : Regs64 \cup {NoReg},
            scale : {1, 2}, disp : Vals, seg : {"none", "fs"}]
      \cup [type : {"ret"}, imm : Vals]

States == [regs : [Regs64 -> Vals], flags : [Flags -> BOOLEAN], fsbase : Vals,
           mem : [Vals -> Vals]]

ASSUME BranchAssumption ==
    /\ W \in Nat \ {0, 1} /\ InsnSz \in Vals
    /\ \A i \in Insns : i.op \in Operands /\ (i.op.type = "ret" <=> i.id = "ret")
    /\ Starts \subseteq States

\* Arithmetic the provers do not know: what halving and quartering a word means.
ASSUME PowersOfTwo ==
    /\ 2 ^ (W - 2) \in Nat \ {0}
    /\ 2 ^ (W - 1) = 2 * 2 ^ (W - 2) /\ N = 2 * 2 ^ (W - 1)

VARIABLES insn, cmp, before, state, target, pc

vars == <<insn, cmp, before, state, target, pc>>

Init ==
    /\ insn \in Insns
    /\ before \in Starts
    /\ state = before
    /\ cmp = <<0, 0>>
    /\ target = 0
    /\ pc = "guest"

----------------------------------------------------------------------------
(* The processor: cmp a, b and the flags it leaves.                        *)

Signed(v) == IF 2 * v >= N THEN v - N ELSE v
Ones(v)   == Cardinality({i \in 0 .. (W - 1) : (v \div 2 ^ i) % 2 = 1})

CmpFlags(a, b) ==
    LET r == (a - b) % N
    IN  [f \in Flags |->
            CASE f = "zf" -> r = 0
              [] f = "cf" -> a < b
              [] f = "sf" -> 2 * r >= N
              [] f = "of" -> Signed(r) # Signed(a) - Signed(b)
              [] f = "pf" -> Ones(r) % 2 = 0]

Compare(a, b) ==
    /\ pc = "guest"
    /\ cmp' = <<a, b>>
    /\ before' = [before EXCEPT !.flags = CmpFlags(a, b)]
    /\ state' = before'
    /\ pc' = "eval"
    /\ UNCHANGED <<insn, target>>

----------------------------------------------------------------------------
(* The emulation.                                                          *)

\* read_reg: a part of a register is masked out of the saved one, and a key
\* that is no general register reads as -1.
ReadReg(s, key) ==
    CASE key \in Regs64 -> s.regs[key]
      [] key = "ecx"    -> s.regs["rcx"] % 2 ^ (W - 1)
      [] key = "cx"     -> s.regs["rcx"] % 2 ^ (W - 2)
      [] key = NoReg    -> Minus1

\* is_set
IsSet(s, f) == s.flags[f]

\* is_jmp_taken knows these; loop, loope and loopne are fatal.
Known == {"je", "jne", "ja", "jae", "jb", "jbe", "jcxz", "jecxz", "jrcxz", "jg", "jge",
          "jl", "jle", "jo", "jno", "jp", "jnp", "js", "jns", "jmp"}

IsJmpTaken(s, id) ==
    CASE id = "je"    -> IsSet(s, "zf")
      [] id = "jne"   -> ~IsSet(s, "zf")
      [] id = "ja"    -> ~IsSet(s, "cf") /\ ~IsSet(s, "zf")
      [] id = "jae"   -> ~IsSet(s, "cf")
      [] id = "jb"    -> IsSet(s, "cf")
      [] id = "jbe"   -> IsSet(s, "cf") \/ IsSet(s, "zf")
      [] id = "jcxz"  -> ReadReg(s, "cx") = 0
      [] id = "jecxz" -> ReadReg(s, "ecx") = 0
      [] id = "jrcxz" -> ReadReg(s, "rcx") = 0
      [] id = "jg"    -> ~IsSet(s, "zf") /\ IsSet(s, "sf") = IsSet(s, "of")
      [] id = "jge"   -> IsSet(s, "sf") = IsSet(s, "of")
      [] id = "jl"    -> IsSet(s, "sf") # IsSet(s, "of")
      [] id = "jle"   -> IsSet(s, "zf") \/ IsSet(s, "sf") # IsSet(s, "of")
      [] id = "jo"    -> IsSet(s, "of")
      [] id = "jno"   -> ~IsSet(s, "of")
      [] id = "jp"    -> IsSet(s, "pf")
      [] id = "jnp"   -> ~IsSet(s, "pf")
      [] id = "js"    -> IsSet(s, "sf")
      [] id = "jns"   -> ~IsSet(s, "sf")
      [] id = "jmp"   -> TRUE

\* Mutant: rip is the address of the instruction, not of the next one.
MemTargetAtInsn(s, op) ==
    LET base  == ReadReg(s, op.base)
        index == IF op.index = NoReg THEN 0 ELSE ReadReg(s, op.index)
    IN  IF base = Minus1 \/ index = Minus1 THEN Minus1
        ELSE s.mem[(base + index * op.scale + op.disp) % N]

\* Mutant: a missing index reads as -1, like any register that is none.
MemTargetNoIndex(s, op) ==
    LET base  == ReadReg(s, op.base)
        index == ReadReg(s, op.index)
        next  == IF op.base = "rip" THEN InsnSz ELSE 0
    IN  IF base = Minus1 \/ index = Minus1 THEN Minus1
        ELSE s.mem[(base + next + index * op.scale + op.disp) % N]

\* The operand of a taken branch.  -1 as a base or an index is taken for a
\* failure of read_reg; a segment override is not looked at.
MemTarget(s, op) ==
    LET base  == ReadReg(s, op.base)
        index == IF op.index = NoReg THEN 0 ELSE ReadReg(s, op.index)
        next  == IF op.base = "rip" THEN InsnSz ELSE 0
    IN  IF base = Minus1 \/ index = Minus1 THEN Minus1
        ELSE s.mem[(base + next + index * op.scale + op.disp) % N]

EvalOperand(s, op) ==
    CASE op.type = "reg" -> ReadReg(s, op.reg)
      [] op.type = "imm" -> (op.imm + s.regs["rip"]) % N
      [] op.type = "mem" -> MemTarget(s, op)

\* br_emulation: -1 is fatal.
Arrive(t) == target' = t /\ pc' = IF t = Minus1 THEN "fatal" ELSE "done"

EmulateJmp ==
    /\ pc = "eval" /\ insn.id \in Known
    /\ Arrive(IF IsJmpTaken(state, insn.id) THEN EvalOperand(state, insn.op)
              ELSE (state.regs["rip"] + InsnSz) % N)
    /\ UNCHANGED <<insn, cmp, before, state>>

\* Mutant: rsp does not wrap.
PushedNoWrap(s) ==
    LET sp == (s.regs["rsp"] - 1) % N
    IN  [s EXCEPT !.regs["rsp"] = s.regs["rsp"] - 1, !.mem[sp] = (s.regs["rip"] + InsnSz) % N]

\* The return address is pushed first, then the operand is evaluated.
Pushed(s) ==
    LET sp == (s.regs["rsp"] - 1) % N
    IN  [s EXCEPT !.regs["rsp"] = sp, !.mem[sp] = (s.regs["rip"] + InsnSz) % N]

EmulateCall ==
    /\ pc = "eval" /\ insn.id = "call"
    /\ state' = Pushed(state)
    /\ Arrive(EvalOperand(Pushed(state), insn.op))
    /\ UNCHANGED <<insn, cmp, before>>

\* Mutant: rsp is left on the return address.
EmulateRetStays ==
    /\ pc = "eval" /\ insn.id = "ret"
    /\ Arrive(state.mem[state.regs["rsp"]])
    /\ UNCHANGED <<insn, cmp, before, state>>

\* The immediate of ret is not looked at.
EmulateRet ==
    /\ pc = "eval" /\ insn.id = "ret"
    /\ state' = [state EXCEPT !.regs["rsp"] = (state.regs["rsp"] + 1) % N]
    /\ Arrive(state.mem[state.regs["rsp"]])
    /\ UNCHANGED <<insn, cmp, before>>

\* "not found cflow"
Unknown ==
    /\ pc = "eval" /\ insn.id \notin Known \cup {"call", "ret"}
    /\ pc' = "fatal"
    /\ UNCHANGED <<insn, cmp, before, state, target>>

Ended == pc \in {"done", "fatal"} /\ UNCHANGED vars

Next == \/ \E a, b \in Vals : Compare(a, b)
        \/ EmulateJmp \/ EmulateCall \/ EmulateRet \/ Unknown \/ Ended

Spec == Init /\ [][Next]_vars

----------------------------------------------------------------------------
(* What must hold.                                                         *)

\* Type correctness.
TypeOK ==
    /\ insn \in Insns /\ state \in States /\ before \in States
    /\ cmp \in Vals \X Vals /\ target \in Vals
    /\ pc \in {"guest", "eval", "done", "fatal"}

\* The number comparison each conditional jump stands for after cmp a, b.
Holds(id, a, b) ==
    CASE id = "je"  -> a = b                    [] id = "jne" -> a # b
      [] id = "ja"  -> a > b                    [] id = "jae" -> a >= b
      [] id = "jb"  -> a < b                    [] id = "jbe" -> a <= b
      [] id = "jg"  -> Signed(a) > Signed(b)    [] id = "jge" -> Signed(a) >= Signed(b)
      [] id = "jl"  -> Signed(a) < Signed(b)    [] id = "jle" -> Signed(a) <= Signed(b)
      [] id = "js"  -> Signed((a - b) % N) < 0  [] id = "jns" -> Signed((a - b) % N) >= 0
      [] id = "jcxz"  -> before.regs["rcx"] % (N \div 4) = 0
      [] id = "jecxz" -> before.regs["rcx"] % (N \div 2) = 0
      [] id = "jrcxz" -> before.regs["rcx"] = 0
      [] OTHER -> IsJmpTaken(before, id)

\* What the processor does with an operand: registers are read before the
\* instruction changes them, and a missing register counts 0.
CpuReg(key) == IF key = NoReg THEN 0 ELSE before.regs[key]
CpuAddr(op) ==
    (CpuReg(op.base) + (IF op.base = "rip" THEN InsnSz ELSE 0) + CpuReg(op.index) * op.scale
        + op.disp + (IF op.seg = "fs" THEN before.fsbase ELSE 0)) % N
CpuTarget ==
    IF insn.id = "ret" THEN before.mem[before.regs["rsp"]]
    ELSE IF insn.id # "call" /\ ~Holds(insn.id, cmp[1], cmp[2])
    THEN (before.regs["rip"] + InsnSz) % N
    ELSE CASE insn.op.type = "reg" -> before.regs[insn.op.reg]
           [] insn.op.type = "imm" -> (before.regs["rip"] + insn.op.imm) % N
           [] insn.op.type = "mem" -> before.mem[CpuAddr(insn.op)]

\* An operand that __eval_target reads as the processor does: no segment, and
\* for a call neither through rsp nor in the slot the call pushes to.
Plain ==
    /\ insn.op.type = "mem" => insn.op.seg = "none"
    /\ insn.id = "call" /\ insn.op.type = "mem" =>
          /\ "rsp" \notin {insn.op.base, insn.op.index}
          /\ CpuAddr(insn.op) # (before.regs["rsp"] - 1) % N
    /\ insn.id = "call" /\ insn.op.type = "reg" => insn.op.reg # "rsp"

\* A conditional jump goes where the comparison before it says, for every pair
\* of operands at the sign and carry boundaries, and every other branch with a
\* plain operand where the processor would go (is_jmp_taken, __eval_target).  The
\* jumps on overflow and parity have no meaning but the flag itself.
GoesWhereCpuGoes == pc = "done" /\ Plain => target = CpuTarget

\* An instruction is refused only if it is not emulated at all, lacks a base
\* register, or has all ones as a target or in an address register.
RefusedForReason ==
    pc = "fatal" =>
        \/ insn.id \notin Known \cup {"call", "ret"}
        \/ insn.op.type = "mem" /\ (insn.op.base = NoReg
              \/ Minus1 \in {CpuReg(insn.op.base), CpuReg(insn.op.index)})
        \/ Plain /\ CpuTarget = Minus1
        \/ ~Plain

\* A call and the return at its end leave the stack as it was: the slot a call
\* fills is the one a return takes its target from, and nothing else changes
\* (__eval_target).  A return that pops arguments, ret n, is not among them: the
\* code does not add its immediate to rsp.
CallFrames ==
    pc = "done" =>
        LET sp == state.regs["rsp"]
        IN  /\ insn.id = "call" => /\ (sp + 1) % N = before.regs["rsp"]
                                   /\ state.mem[sp] = (before.regs["rip"] + InsnSz) % N
            /\ insn.id = "ret" /\ insn.op.imm = 0 => (sp - 1) % N = before.regs["rsp"]
            /\ \A a \in Vals : insn.id # "call" \/ a # sp => state.mem[a] = before.mem[a]

----------------------------------------------------------------------------
(* What the comment says.                                                  *)

\* src/src/analysis.c:597, eval_target "returns the actual target for the
\* control flow instruction".
ActualTarget == pc = "done" => target = CpuTarget

=============================================================================
