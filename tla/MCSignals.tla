----------------------------- MODULE MCSignals -----------------------------
(***************************************************************************)
(* A guest at 5 .. 9 that installs a handler and then runs any of six and  *)
(* any of four instructions, and  a handler at 15 whose first instruction  *)
(* is any of a few: it may read the guest's code, store a jump into its    *)
(* code or data, make a system call or branch into the guest's code.       *)
(***************************************************************************)
EXTENDS Signals

I(k, a) == [k |-> k, a |-> a]

MCLo == 2
MCHi == 20

MCInsns == {I("nop", 2), I("mov", 4), I("jcc", 8), I("call", 8), I("ret", 2),
            I("sys", 13)}
MCLast  == {I("jcc", 8), I("call", 8), I("ret", 2), I("sys", 13)}
MCFirst == {I("load", 8), I("store", 8), I("store", 9), I("store", 3), I("store", 13),
            I("sys", 14), I("jmp", 7), I("priv", 2)}
MCCell == MCInsns \cup MCFirst \cup {I("mov", 5), I("mov", 6)}
            \cup {I("data", a) : a \in 2 .. 21}
            \cup {I("hook", a) : a \in 18 .. 21}
MCKind == [c \in MCCell |-> c.k]
MCArg  == [c \in MCCell |-> c.a]
MCWord == [a \in 2 .. 21 |-> I("data", a)]

\* System calls: 4 is exit, 5 rt_sigaction, 6 rt_sigreturn, 2 and the rest have
\* no hook.
MCSysRet   == [c \in MCCell |-> IF c = I("data", 5) THEN I("data", 7) ELSE I("data", 2)]
MCHandled  == {I("data", 4), I("data", 5), I("data", 7)}
MCExitNr   == I("data", 4)
MCSigactionNr == I("data", 5)
MCSigreturnNr == I("data", 6)
MCErrnos   == {}
MCMinusOne == I("data", 8)
MCDumpCode    == [i \in 0 .. 1 |-> I("hook", 21 - i)]
MCRestoreCode == [i \in 0 .. 1 |-> I("hook", 19 - i)]

MCImages ==
    {[a \in 2 .. 20 |->
        CASE a = 5          -> I("mov", 5)
          [] a = 6          -> I("sys", 13)
          [] a \in 7 .. 8   -> p[a]
          [] a = 9          -> IF p[7].k = "nop" THEN I("sys", 13) ELSE I("nop", 2)
          [] a = 10         -> I("ret", 2)
          [] a \in 11 .. 13 -> I("data", 7)
          [] a = 15         -> h
          [] a = 16         -> I("mov", 6)
          [] a = 17         -> I("sys", 14)
          [] OTHER          -> I("nop", 2)] :
        p \in {q \in [7 .. 8 -> MCInsns] : q[8] \in MCLast}, h \in MCFirst}

MCKData == I("nop", 2)
MCJunk  == I("data", 21)
MCBoot  == [pc |-> 5, rax |-> I("data", 2), zf |-> FALSE, rsp |-> 12]
MCHandlerRegs == [pc |-> 15, rax |-> I("jmp", 7), zf |-> FALSE, rsp |-> 19]

=============================================================================
