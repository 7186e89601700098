---------------------------- MODULE MCHookEngine ----------------------------
(***************************************************************************)
(* Every program of four instructions over a small instruction set, the    *)
(* last of them out of eight, at addresses 5 .. 8 of a 16-cell memory:     *)
(* cells 2 .. 4 leave room for a restore hook, 9 .. 11 hold a fixed tail,  *)
(* 12 .. 13 the stack, and a last page lets the scan read ahead.           *)
(***************************************************************************)
EXTENDS HookEngine

I(k, a) == [k |-> k, a |-> a]

MCLo == 2
MCHi == 15

MCInsns == {I("nop", 2), I("mov", 4), I("load", 11), I("store", 8), I("store", 12),
            I("test", 2), I("jcc", 8), I("jmpr", 2), I("call", 8), I("ret", 2),
            I("sys", 7), I("priv", 2)}
MCCell == MCInsns \cup {I("data", a) : a \in 2 .. 16}
            \cup {I("hook", 16), I("hook", 15), I("hook", 14), I("hook", 13)}
MCKind == [c \in MCCell |-> c.k]
MCArg  == [c \in MCCell |-> c.a]
MCWord == [a \in 2 .. 16 |-> I("data", a)]

\* System call numbers: the words 4 (exit) and 5 have a hook, and the cell the
\* load fetches, which fails with error 3; the word 2 and the rest have none.
MCFails    == I("sys", 7)
MCSysRet   == [c \in MCCell |-> CASE c = I("data", 2) -> I("data", 5)
                                  [] c = MCFails -> I("data", 3)
                                  [] OTHER -> I("data", 2)]
MCErrnos   == {I("data", 3)}
MCMinusOne == I("data", 7)
MCHandled  == {I("data", 4), I("data", 5), MCFails}
MCExitNr   == I("data", 4)
MCDumpCode == [i \in 0 .. 1 |-> I("hook", 16 - i)]
MCRestoreCode == [i \in 0 .. 1 |-> I("hook", 14 - i)]

MCLast == MCInsns \ {I("nop", 2), I("load", 11), I("test", 2), I("priv", 2)}

MCImages ==
    {[a \in 2 .. 15 |->
        CASE a \in 5 .. 8   -> p[a]
          [] a \in {9, 11}   -> I("sys", 7)
          [] a = 10         -> I("jmpr", 2)
          [] a \in 12 .. 13 -> I("data", 6)
          [] OTHER          -> I("nop", 2)] : p \in {q \in [5 .. 8 -> MCInsns] : q[8] \in MCLast}}

MCKData == I("nop", 2)
MCJunk  == I("data", 16)
MCBoot == [pc |-> 5, rax |-> I("data", 2), zf |-> FALSE, rsp |-> 14]

=============================================================================
