--------------------------------- MODULE Brk ---------------------------------
(***************************************************************************)
(* The guest's heap, kept by hook_brk (src/src/syscall_hook.c) instead of  *)
(* the kernel: a break that only grows, and only when the request leaves   *)
(* the page it is in, over pages mapped with MAP_FIXED.                    *)
(***************************************************************************)
EXTENDS Integers

CONSTANTS
    P,          \* PAGE_SZ
    Top,        \* addresses 0 .. Top - 1
    U,          \* 2^32: the size is a uint32_t
    Starts      \* the break map_load leaves behind

ASSUME BrkAssumption ==
    /\ P \in Nat \ {0} /\ Top \in Nat /\ U \in Nat \ {0}
    /\ U % P = 0
    /\ Starts \subseteq P .. (Top - 1)

VARIABLES
    start,      \* the break the program starts with
    vbrk,       \* dbi_handler->vbrk
    mapped,     \* heap pages that are mapped
    held,       \* heap pages that still hold what the guest wrote
    written,    \* heap pages the guest has written
    rax,        \* what the last brk returned
    ragged,     \* the break has been off a page boundary, or moved by U or more
    pc

vars == <<start, vbrk, mapped, held, written, rax, ragged, pc>>

PageOf(a) == a \div P
Offt(a)   == a % P
Align(a)  == a - Offt(a)                \* PAGE_ALIGN
Round(a)  == Align(a) + P - 1           \* PAGE_ROUND
PagesIn(a, len) == {p \in 0 .. PageOf(Top) : p * P < a + len /\ (p + 1) * P > a}

Init ==
    /\ start \in Starts
    /\ vbrk = start
    /\ mapped = {PageOf(start) - 1}     \* the end of the data segment
    /\ held = {} /\ written = {}
    /\ rax = 0
    /\ ragged = (Offt(start) # 0)
    /\ pc = "guest"

----------------------------------------------------------------------------
(* hook_brk.                                                               *)

\* brk(0)
Query ==
    /\ pc = "guest"
    /\ rax' = vbrk
    /\ UNCHANGED <<start, vbrk, mapped, held, written, ragged, pc>>

\* Mutant: no assertion.
AbortsNever(a) == a = 0

\* assert(state->rdi > _brk_base)
Aborts(a) == a <= vbrk

Abort(a) ==
    /\ pc = "guest"
    /\ Aborts(a)
    /\ pc' = "abort"
    /\ UNCHANGED <<start, vbrk, mapped, held, written, rax, ragged>>

BrkSize(a) == (a - vbrk) % U
Grows(a)   == BrkSize(a) + Offt(vbrk) > P

\* Within the page of the break: it stays, and that is what the guest is told.
Refuse(a) ==
    /\ pc = "guest"
    /\ ~Aborts(a) /\ ~Grows(a)
    /\ rax' = vbrk
    /\ UNCHANGED <<start, vbrk, mapped, held, written, ragged, pc>>

\* The length is a uint32_t too, and mmap refuses a length of 0.
MapLen(a) == (Round(BrkSize(a)) + 1) % U

\* Mutant: from the page of the last byte of the heap on.
NewPagesBelow(a) == PagesIn(Align(vbrk - 1), MapLen(a))

\* Fresh pages from the page of the old break on.
NewPages(a) == PagesIn(Align(vbrk), MapLen(a))

\* Mutant: the new break is reported but not recorded.
GrowForgets(a) ==
    /\ pc = "guest"
    /\ ~Aborts(a) /\ Grows(a) /\ MapLen(a) # 0
    /\ mapped' = mapped \cup NewPages(a)
    /\ held' = held \ NewPages(a)
    /\ rax' = a
    /\ ragged' = (ragged \/ Offt(a) # 0 \/ a - vbrk >= U)
    /\ UNCHANGED <<start, vbrk, written, pc>>

Grow(a) ==
    /\ pc = "guest"
    /\ ~Aborts(a) /\ Grows(a) /\ MapLen(a) # 0
    /\ mapped' = mapped \cup NewPages(a)
    /\ held' = held \ NewPages(a)
    /\ vbrk' = a
    /\ rax' = a
    /\ ragged' = (ragged \/ Offt(a) # 0 \/ a - vbrk >= U)
    /\ UNCHANGED <<start, written, pc>>

\* mmap fails, for its length or for want of memory: fatal_dump.
GrowFails(a) ==
    /\ pc = "guest"
    /\ ~Aborts(a) /\ Grows(a)
    /\ pc' = "fatal"
    /\ UNCHANGED <<start, vbrk, mapped, held, written, rax, ragged>>

----------------------------------------------------------------------------
(* The guest uses its heap, up to the break.                               *)

GuestWrite(a) ==
    /\ pc = "guest"
    /\ a \in start .. (vbrk - 1)
    /\ IF PageOf(a) \in mapped
       THEN /\ held' = held \cup {PageOf(a)} /\ written' = written \cup {PageOf(a)}
            /\ UNCHANGED pc
       ELSE pc' = "segv" /\ UNCHANGED <<held, written>>
    /\ UNCHANGED <<start, vbrk, mapped, rax, ragged>>

Dead == pc # "guest" /\ UNCHANGED vars

Next ==
    \/ Query \/ Dead
    \/ \E a \in 1 .. (Top - 1) : Abort(a) \/ Refuse(a) \/ Grow(a) \/ GrowFails(a)
                              \/ GuestWrite(a)

Spec == Init /\ [][Next]_vars

----------------------------------------------------------------------------
(* What must hold.                                                         *)

\* Type correctness.
TypeOK ==
    /\ start \in Starts /\ vbrk \in start .. (Top - 1)
    /\ mapped \subseteq 0 .. PageOf(Top)
    /\ held \subseteq written /\ written \subseteq mapped
    /\ rax \in 0 .. (Top - 1)
    /\ ragged \in BOOLEAN
    /\ pc \in {"guest", "abort", "fatal", "segv"}

\* While the break moves by whole pages, by less than 4 GiB at a time, the heap
\* is all there: every byte below the break is mapped and no growth takes away
\* a page the guest has written (hook_brk over MAP_FIXED).
HeapIntact ==
    ~ragged => /\ \A a \in start .. (vbrk - 1) : PageOf(a) \in mapped
               /\ written = held
               /\ pc # "segv"

\* The break the guest is told is the one that is kept, so a later request is
\* measured from where the guest believes the heap ends; it never moves back.
BreakAgrees == [][/\ vbrk' >= vbrk
                  /\ rax' # rax => rax' = vbrk']_vars

----------------------------------------------------------------------------
(* What the code says about itself.                                        *)

\* src/src/syscall_hook.c:51, "nothing to do except if it allocates a page, if
\* this is the case we allocate one more page": pages are only added.
OnlyAdds == [][held \subseteq held']_vars

=============================================================================
