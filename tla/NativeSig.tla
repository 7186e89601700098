----------------------------- MODULE NativeSig -----------------------------
(***************************************************************************)
(* The guest alone on the processor, with a signal handler: what Signals   *)
(* is shown to implement.  Once the guest has installed its handler, the   *)
(* kernel may interrupt it between any two instructions, run the handler   *)
(* and put it back (the signal is blocked meanwhile).                      *)
(***************************************************************************)
EXTENDS NativeCpu

CONSTANTS
    SigactionNr, SigreturnNr,   \* system call numbers
    HandlerRegs                 \* registers at the entry of the handler

VARIABLES
    installed,  \* rt_sigaction has been called
    sig         \* the handler: st is "off", "on", "exited" or "killed"

sigvars == <<vars, installed, sig>>

Off == [st |-> "off", regs |-> HandlerRegs]

SigInit == Init /\ installed = FALSE /\ sig = Off

Guest ==
    /\ sig.st = "off"
    /\ Step
    /\ installed' = (installed \/ (nsys' # nsys /\ regs.rax = SigactionNr))
    /\ UNCHANGED sig

Deliver ==
    /\ installed /\ sig.st = "off" /\ ~halted
    /\ sig' = [Off EXCEPT !.st = "on"]
    /\ UNCHANGED <<vars, installed>>

Returns == Op(mem, sig.regs) = "sys" /\ sig.regs.rax = SigreturnNr

Return ==
    /\ sig.st = "on" /\ ~Faults(mem, sig.regs) /\ Returns
    /\ sig' = Off
    /\ UNCHANGED <<vars, installed>>

HandlerExit ==
    /\ sig.st = "on" /\ ~Faults(mem, sig.regs) /\ ~Returns
    /\ Exits(mem, sig.regs)
    /\ sig' = [sig EXCEPT !.st = "exited"]
    /\ UNCHANGED <<vars, installed>>

HandlerStep ==
    /\ sig.st = "on" /\ ~Faults(mem, sig.regs) /\ ~Returns
    /\ ~Exits(mem, sig.regs)
    /\ sig' = [sig EXCEPT !.regs = NextRegs(mem, sig.regs)]
    /\ mem' = NextMem(mem, sig.regs)
    /\ nsys' = IF Op(mem, sig.regs) = "sys" THEN 1 - nsys ELSE nsys
    /\ UNCHANGED <<regs, halted, broken, installed>>

HandlerFault ==
    /\ sig.st = "on" /\ Faults(mem, sig.regs)
    /\ sig' = [sig EXCEPT !.st = "killed"]
    /\ UNCHANGED <<vars, installed>>

SigNext == broken' \/ Guest \/ Deliver \/ Return \/ HandlerExit \/ HandlerStep
                   \/ HandlerFault

SigSpec == SigInit /\ [][SigNext]_sigvars

=============================================================================
