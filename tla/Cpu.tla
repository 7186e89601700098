-------------------------------- MODULE Cpu --------------------------------
(***************************************************************************)
(* The processor the guest program runs on, reduced to what the engine of  *)
(* dryadalis can get wrong.  It is external to the repository: the engine  *)
(* runs the guest's straight-line code on it natively and re-implements    *)
(* its control-flow instructions in software.                              *)
(*                                                                         *)
(* Memory is a function from addresses to cells; one cell holds one        *)
(* instruction or one word of data.  Kind and Arg decode a cell, Word      *)
(* encodes an address as data (a return address on the stack).  The        *)
(* register file keeps the registers that the engine treats differently:   *)
(* the program counter, rax (saved and restored by the hooks themselves),  *)
(* the zero flag and rsp (saved and restored by the stubs).                *)
(***************************************************************************)
EXTENDS Integers

CONSTANTS
    Lo, Hi,     \* the mapped addresses are Lo .. Hi
    Cell,       \* what a memory cell (or rax) may hold
    Kind,       \* Cell -> Kinds, the decoded opcode
    Arg,        \* Cell -> Pc, the operand: a branch target or data address
    Word,       \* Pc -> Cell, an address as a word of data
    SysRet,     \* Cell -> Cell, the kernel's answer to a system call number
    KData,      \* what the kernel stores in a system call's buffer
    ExitNr      \* the number of exit / exit_group

Addr == Lo .. Hi
Pc   == Lo .. (Hi + 1)          \* Hi + 1 stands for every unmapped address

\* int n and int3, which is_cflow takes for system calls too, have no kind of their
\* own: no program compiled for x86-64 enters the kernel by them.
Straight == {"nop", "mov", "load", "store", "test"}
Cflow    == {"jmp", "jcc", "jmpr", "call", "ret", "sys", "priv"}
Kinds    == Straight \cup Cflow \cup {"data", "hook"}

ASSUME CpuAssumption ==
    /\ Lo \in Nat \ {0} /\ Hi \in Nat /\ Lo <= Hi
    /\ Kind \in [Cell -> Kinds]
    /\ Arg \in [Cell -> Pc]
    /\ Word \in [Pc -> Cell]
    /\ \A a \in Pc : Arg[Word[a]] = a /\ Kind[Word[a]] = "data"
    /\ SysRet \in [Cell -> Cell]
    /\ KData \in Cell /\ ExitNr \in Cell

Regs == [pc : Pc, rax : Cell, zf : BOOLEAN, rsp : Pc]

Op(m, r)      == Kind[m[r.pc]]
Operand(m, r) == Arg[m[r.pc]]

\* The instruction at r.pc cannot complete: the process gets a signal.
Faults(m, r) ==
    r.pc \in Addr =>
        \/ Op(m, r) \in {"priv", "data", "hook"}
        \/ Op(m, r) \in {"load", "store"} /\ Operand(m, r) \notin Addr
        \/ Op(m, r) = "call" /\ r.rsp - 1 \notin Addr
        \/ Op(m, r) = "ret" /\ r.rsp \notin Addr

Exits(m, r) == Op(m, r) = "sys" /\ r.rax = ExitNr

\* Data addresses the instruction at r.pc reads and writes.
Reads(m, r) ==
    {a \in Addr : \/ Op(m, r) = "load" /\ a = Operand(m, r)
                  \/ Op(m, r) = "ret"  /\ a = r.rsp}

Writes(m, r) ==
    {a \in Addr : \/ Op(m, r) \in {"store", "sys"} /\ a = Operand(m, r)
                  \/ Op(m, r) = "call" /\ a = r.rsp - 1}

Stored(m, r) ==
    IF Op(m, r) = "store" THEN r.rax
    ELSE IF Op(m, r) = "call" THEN Word[r.pc + 1]
    ELSE KData

NextMem(m, r) ==
    [a \in Addr |-> IF a \in Writes(m, r) THEN Stored(m, r) ELSE m[a]]

\* Is control transferred to the operand of the instruction?
Jumps(m, r) == Op(m, r) \in {"jmp", "call"} \/ (Op(m, r) = "jcc" /\ r.zf)

NextPc(m, r) ==
    IF Jumps(m, r) THEN Operand(m, r)
    ELSE IF Op(m, r) = "jmpr" THEN Arg[r.rax]
    ELSE IF Op(m, r) = "ret" THEN Arg[m[r.rsp]]
    ELSE r.pc + 1

NextRax(m, r) ==
    IF Op(m, r) = "mov" THEN Word[Operand(m, r)]
    ELSE IF Op(m, r) = "load" THEN m[Operand(m, r)]
    ELSE IF Op(m, r) = "sys" THEN SysRet[r.rax]
    ELSE r.rax

NextZf(m, r) == IF Op(m, r) = "test" THEN r.rax = Word[Lo] ELSE r.zf

NextRsp(m, r) ==
    IF Op(m, r) = "call" THEN r.rsp - 1
    ELSE IF Op(m, r) = "ret" THEN r.rsp + 1
    ELSE r.rsp

NextRegs(m, r) ==
    [pc |-> NextPc(m, r), rax |-> NextRax(m, r),
     zf |-> NextZf(m, r), rsp |-> NextRsp(m, r)]

=============================================================================
