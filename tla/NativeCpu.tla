----------------------------- MODULE NativeCpu -----------------------------
(***************************************************************************)
(* What instrumentation promises: the guest behaves as if it ran alone on  *)
(* the processor, one instruction per step, its system calls answered once *)
(* each.  HookEngine is shown to implement this specification.             *)
(*                                                                         *)
(* The promise ends when broken becomes TRUE: the engine patches the       *)
(* guest's own memory, and a guest that reads or writes the patched cells  *)
(* while they are patched leaves the contract.                             *)
(***************************************************************************)
EXTENDS Cpu

CONSTANT Boot       \* initial registers

VARIABLES
    mem,        \* the guest's memory
    regs,       \* the guest's registers
    nsys,       \* parity of the number of system calls the kernel has run
    halted,     \* the guest has called exit
    broken      \* the guest has left the contract

vars == <<mem, regs, nsys, halted, broken>>

Init ==
    /\ mem \in [Addr -> Cell]        \* whatever program was loaded
    /\ regs = Boot
    /\ nsys = 0
    /\ halted = FALSE
    /\ broken = FALSE

Exit ==
    /\ Exits(mem, regs)
    /\ halted' = TRUE
    /\ UNCHANGED <<mem, regs, nsys>>

Execute ==
    /\ ~Exits(mem, regs)
    /\ regs' = NextRegs(mem, regs)
    /\ mem' = NextMem(mem, regs)
    /\ nsys' = IF Op(mem, regs) = "sys" THEN 1 - nsys ELSE nsys
    /\ UNCHANGED halted

Step ==
    /\ ~halted
    /\ ~Faults(mem, regs)
    /\ Exit \/ Execute
    /\ UNCHANGED broken

Next == broken' \/ Step

Spec == Init /\ [][Next]_vars

=============================================================================
