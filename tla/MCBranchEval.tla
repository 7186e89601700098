---------------------------- MODULE MCBranchEval ----------------------------
(***************************************************************************)
(* Words of three bits: every conditional jump after every comparison, and *)
(* jumps, calls and returns with every form of operand.                    *)
(***************************************************************************)
EXTENDS BranchEval

MCMemOps == [type : {"mem"}, base : Regs64 \cup {NoReg}, index : {NoReg, "rbx", "rsp"},
             scale : {1, 2}, disp : {2}, seg : {"none", "fs"}]
MCOps    == MCMemOps \cup [type : {"reg"}, reg : {"rbx", "rsp"}] \cup [type : {"imm"}, imm : {3}]

MCInsns == [id : Known \cup {"loop"}, op : [type : {"imm"}, imm : {3}]]
             \cup [id : {"jmp", "call"}, op : MCOps]
             \cup [id : {"ret"}, op : [type : {"ret"}, imm : {0, 1}]]

MCStarts ==
    {[regs   |-> [r \in Regs64 |-> CASE r = "rbx" -> b [] r = "rcx" -> c
                                     [] r = "rsp" -> s [] r = "rip" -> 4],
      flags  |-> [f \in Flags |-> FALSE],
      fsbase |-> 1,
      mem    |-> [a \in Vals |-> (3 * a + 1) % N]] : b \in {3, 7}, c \in {0, 2, 4, 7}, s \in {0, 5}}

=============================================================================
