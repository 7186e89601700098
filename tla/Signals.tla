------------------------------ MODULE Signals ------------------------------
(***************************************************************************)
(* Signal handlers of the guest under the dispatch cycle.  hook_rt_sigaction *)
(* passes the guest's handler to the kernel as it is, so the kernel calls  *)
(* it directly, at any point: in a block of the guest, but also inside     *)
(* _dispatcher, between two instructions of the scan and between two cells *)
(* of a copy, with a hook saved and not yet written, half written or half  *)
(* put back.  The handler runs natively and returns by rt_sigreturn, which *)
(* has no hook.                                                            *)
(*                                                                         *)
(* While it runs, the variables of HookEngine keep what was interrupted.   *)
(* It has a stack of its own (sigaltstack), and the kernel sets the        *)
(* registers it starts with.                                               *)
(***************************************************************************)
EXTENDS HookEngine

CONSTANTS
    SigactionNr, SigreturnNr,   \* system call numbers
    HandlerRegs                 \* registers at the entry of the handler

ASSUME SignalAssumption ==
    /\ SigactionNr \in Handled \ {ExitNr}
    /\ SigreturnNr \in Cell \ Handled
    /\ HandlerRegs \in Regs

VARIABLES
    installed,  \* the guest has installed its handler
    sig         \* the handler: st is "off", "on", "exited" or "killed"

sigvars == <<vars, installed, sig>>

Off == [st |-> "off", regs |-> HandlerRegs]

SigInit == Init /\ installed = FALSE /\ sig = Off

\* The number of the system call the guest or a hook is making.
SysNr == IF phase = "guest" THEN cpu.rax ELSE state.rax

\* Guest and engine go on, by one instruction of the guest, one instruction of
\* the scan or one cell of a copy, when no handler runs.  A call of rt_sigaction
\* goes through hook_rt_sigaction (SyscallHooked).
Resume ==
    /\ sig.st = "off"
    /\ Next
    /\ installed' = (installed \/ (nsys' # nsys /\ SysNr = SigactionNr))
    /\ UNCHANGED sig

----------------------------------------------------------------------------
(* The kernel and the handler.                                             *)

Deliver ==
    /\ installed /\ sig.st = "off" /\ phase \notin Over
    /\ sig' = [Off EXCEPT !.st = "on"]
    /\ UNCHANGED <<vars, installed>>

\* Cells that hold a byte of a hook right now.
Patched == At(dump.jmp, DumpIn) \cup At(restore.jmp, RestoreIn)

\* Bytes of the hooks that are saved and not yet hidden under the hook, or put
\* back and not yet compared by mem_write.
DumpHeld ==
    {i \in DumpIdx : \/ phase \in {"save_dump", "undump"} /\ i \in copied
                     \/ phase = "write_dump" /\ i \notin copied}

RestoreHeld ==
    {i \in RestoreIdx : \/ phase \in {"save_restore", "dispatch"} /\ i \in copied
                        \/ phase = "write_restore" /\ i \notin copied}

\* Cells the engine has in hand: those, and the branch eval_target has read and
\* __eval_target is about to act on.
InHand == At(dump.jmp, DumpHeld) \cup At(restore.jmp, RestoreHeld)
            \cup (IF phase = "emulate" THEN {curr_hook} ELSE {})

\* The block as opcodes_cflow has found it or, during the scan, all it has been
\* through or may have copied.
Known ==
    IF phase = "instrument" THEN base_bbl .. (scan + PageSz - 1)
    ELSE base_bbl .. (dump.jmp - 1)

Returns == Op(mem, sig.regs) = "sys" /\ sig.regs.rax = SigreturnNr

\* The handler's next instruction is its own and does not fault.
Able == sig.st = "on" /\ sig.regs.pc \notin Patched /\ ~Faults(mem, sig.regs)

\* rt_sigreturn
Return ==
    /\ Able /\ Returns
    /\ sig' = Off
    /\ UNCHANGED <<vars, installed>>

HandlerExit ==
    /\ Able /\ ~Returns /\ Exits(mem, sig.regs)
    /\ sig' = [sig EXCEPT !.st = "exited"]
    /\ UNCHANGED <<vars, installed>>

HandlerStep ==
    /\ Able /\ ~Returns /\ ~Exits(mem, sig.regs)
    /\ sig' = [sig EXCEPT !.regs = NextRegs(mem, sig.regs)]
    /\ mem' = NextMem(mem, sig.regs)
    /\ nsys' = IF Op(mem, sig.regs) = "sys" THEN 1 - nsys ELSE nsys
    /\ touched' = (touched \/ Reads(mem, sig.regs) \cap Patched # {}
                           \/ Writes(mem, sig.regs) \cap (Patched \cup InHand) # {})
    /\ selfmod' = selfmod \cup (Writes(mem, sig.regs) \cap Known)
    /\ UNCHANGED <<cpu, state, dump, restore, curr_hook, curr_syscall, base_bbl,
                   scan, copied, insn, started, phase, lost, installed>>

HandlerFault ==
    /\ sig.st = "on" /\ sig.regs.pc \notin Patched /\ Faults(mem, sig.regs)
    /\ sig' = [sig EXCEPT !.st = "killed"]
    /\ UNCHANGED <<vars, installed>>

\* The handler runs into a hook: dump_hook would save its registers over the
\* guest's and start a second dispatch on the first one's stack.  What happens
\* then is not modelled further.
HandlerWild ==
    /\ sig.st = "on" /\ sig.regs.pc \in Patched
    /\ sig' = [sig EXCEPT !.st = "killed"]
    /\ touched' = TRUE
    /\ UNCHANGED <<mem, cpu, state, dump, restore, curr_hook, curr_syscall,
                   base_bbl, scan, copied, insn, started, phase, nsys, selfmod,
                   lost, installed>>

Ended == sig.st \in {"exited", "killed"} /\ UNCHANGED sigvars

SigNext == \/ Resume \/ Deliver \/ Return \/ HandlerExit \/ HandlerStep
           \/ HandlerFault \/ HandlerWild \/ Ended

SigSpec == SigInit /\ [][SigNext]_sigvars

----------------------------------------------------------------------------
(* What must hold.                                                         *)

NativeS == INSTANCE NativeSig WITH
    mem <- View, regs <- GuestRegs, halted <- Halted, broken <- OffContract

\* Instrumentation stays transparent under signals: a handler may interrupt
\* _dispatcher in the scan of a block and half-way through saving, writing or
\* putting back a hook, and change any cell that is not patched or in hand at
\* that moment, with the same result as without the engine (opcodes_cflow,
\* write_hook, restore_bytes).
SigTransparent == NativeS!SigSpec

\* A handler never finds or leaves a torn hook: at every moment, also half-way
\* through a copy, each patched cell holds its byte of the hook and each cell
\* saved and not yet hidden, or put back and not yet compared, still holds what
\* was saved; and when the guest goes on both hooks are complete (write_hook,
\* restore_bytes).
SigHooksComplete ==
    /\ ~touched =>
          /\ Holds(mem, dump.jmp, DumpIn, DumpCode)
          /\ Holds(mem, restore.jmp, RestoreIn, RestoreCode)
          /\ Holds(mem, dump.jmp, DumpHeld, dump.orig)
          /\ Holds(mem, restore.jmp, RestoreHeld, restore.orig)
    /\ sig.st = "off" => HooksComplete

\* Control stays inside the scanned block also when a handler ran between the
\* scan and the resumption of the guest (opcodes_cflow, continue_exec).
SigConfined == sig.st = "off" => Confined

=============================================================================
