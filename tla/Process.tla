------------------------------ MODULE Process ------------------------------
(***************************************************************************)
(* From the command line to the first calls of brk: map_binary (Loader),   *)
(* setup_stack (GuestStack) and the heap that hook_brk (Brk) grows behind  *)
(* the image the loader has mapped.                                        *)
(***************************************************************************)
EXTENDS Loader, GuestStack

CONSTANTS
    Commands,       \* ways to start the engine: argv and envp of the guest,
                    \* and the descriptor open returns for its file
    U,              \* 2^32: a heap size is a uint32_t
    Requests,       \* sizes the guest asks the heap to grow by
    Random, Arch    \* addresses of _random and s_arch

ASSUME ProcessAssumption ==
    /\ U \in Nat \ {0} /\ Requests \subseteq Nat \ {0}
    /\ Random \in Nat \ {0} /\ Arch \in Nat \ {0}
    /\ Commands \subseteq [argv : Seq(Nat \ {0}), envp : Seq(Nat \ {0}), fd : Nat]
    /\ \A c \in Commands : c.argv # <<>>

VARIABLES
    argv, envp,     \* what the engine was started with, from argv[1] on
    fd,             \* s_binary->fd
    rsp,            \* state->rsp of the guest is set
    stack,          \* the words of the guest's stack
    added,          \* calls of add_auxvt so far
    grown           \* the bytes of the heap

pvars == <<lvars, argv, envp, fd, rsp, stack, added, grown>>

Init ==
    /\ LoadInit
    /\ \E c \in Commands : argv = c.argv /\ envp = c.envp /\ fd = c.fd
    /\ rsp = FALSE
    /\ stack = Fresh /\ added = 0
    /\ grown = {}

Load == LoadNext /\ UNCHANGED <<argv, envp, fd, rsp, stack, added, grown>>

----------------------------------------------------------------------------
(* setup_stack and the start.                                              *)

\* Mutant: the interpreter's program headers.
AuxCallsInterp ==
    LET b == IF linked THEN base["interp"] ELSE base["main"] IN
    << <<9, EntryOf("main")>>, <<2, fd>>, <<4, 56>>, <<5, Len(guest.main.ph)>>,
       <<7, b>>, <<25, Random>>, <<3, b + guest.main.phoff>>, <<15, Arch>>,
       <<14, 1000>>, <<12, 1000>>, <<13, 1000>>, <<11, 1000>>,
       <<6, PageSz>>, <<31, argv[1]>>, <<23, 0>>, <<0, 0>> >>

\* The calls of add_auxvt: AT_ENTRY, AT_EXECFD, AT_PHENT, AT_PHNUM, AT_BASE,
\* AT_RANDOM, AT_PHDR, AT_PLATFORM, AT_EGID, AT_EUID, AT_GID, AT_UID, AT_PAGESZ,
\* AT_EXECFN, AT_SECURE, AT_NULL.
AuxCalls ==
    LET b == IF linked THEN base["interp"] ELSE base["main"] IN
    << <<9, EntryOf("main")>>, <<2, fd>>, <<4, 56>>, <<5, Len(guest.main.ph)>>,
       <<7, b>>, <<25, Random>>, <<3, base["main"] + guest.main.phoff>>, <<15, Arch>>,
       <<14, 1000>>, <<12, 1000>>, <<13, 1000>>, <<11, 1000>>,
       <<6, PageSz>>, <<31, argv[1]>>, <<23, 0>>, <<0, 0>> >>

\* map_binary goes on to setup_stack: a stack with argc, argv and envp ...
SetupStack ==
    /\ phase = "mapped" /\ Fits(argv, envp, AuxCalls)
    /\ stack' = Copied(argv, envp)
    /\ rsp' = TRUE
    /\ phase' = "aux"
    /\ UNCHANGED <<guest, mem, prot, base, vbrk, linked, cur, idx, argv, envp, fd,
                   added, grown>>

\* ... and the auxiliary vector, one call of add_auxvt after the other.  Behind the
\* last, map_binary goes on to exec_entry, main to instrument.
AddAux ==
    /\ phase = "aux"
    /\ LET call == AuxCalls[added + 1]
       IN stack' = AddAuxvt(stack, AuxAt(argv, envp), call[1], call[2])
    /\ added' = added + 1
    /\ phase' = IF added + 1 = Len(AuxCalls) THEN "run" ELSE "aux"
    /\ UNCHANGED <<guest, mem, prot, base, vbrk, linked, cur, idx, argv, envp, fd,
                   rsp, grown>>

\* The words above the mapping belong to nobody; where another mapping happens to
\* follow, the code would overwrite it.
StackOverflow ==
    /\ phase = "mapped" /\ ~Fits(argv, envp, AuxCalls)
    /\ phase' = "segv"
    /\ UNCHANGED <<guest, mem, prot, base, vbrk, linked, cur, idx, argv, envp, fd,
                   rsp, stack, added, grown>>

\* map_stack fails: map_binary does not look at the result, and the guest starts
\* without a stack, on which it does not get as far as brk.
StackFails ==
    /\ phase = "mapped"
    /\ phase' = "run"
    /\ UNCHANGED <<guest, mem, prot, base, vbrk, linked, cur, idx, argv, envp, fd,
                   rsp, stack, added, grown>>

----------------------------------------------------------------------------
(* The guest asks for memory.                                              *)

Heap == INSTANCE Brk WITH
    P <- PageSz, Starts <- Addr, start <- vbrk, mapped <- {}, held <- {},
    written <- {}, rax <- vbrk, ragged <- FALSE, pc <- "guest"

\* hook_brk: new pages from the page of the break on, whatever is there (the stubs
\* and stack of the engine are taken to be out of its reach).
Sbrk(a) ==
    /\ phase = "run" /\ rsp /\ vbrk # 0 /\ a < Top
    /\ ~Heap!Aborts(a) /\ Heap!Grows(a) /\ Heap!MapLen(a) # 0
    /\ LET at == Align(vbrk)
           end == at + Heap!MapLen(a)
       IN /\ end <= Top
          /\ mem' = SetZero(mem, at, end)
          /\ prot' = SetProt(prot, at, end, {"r", "w"})
          /\ grown' = grown \cup Bytes(vbrk, a)
    /\ vbrk' = a
    /\ UNCHANGED <<guest, base, linked, cur, idx, phase, argv, envp, fd, rsp, stack,
                   added>>

Over == phase \in {"failed", "bus", "segv", "run"} /\ UNCHANGED pvars

Next ==
    \/ Load
    \/ SetupStack \/ AddAux \/ StackOverflow \/ StackFails
    \/ \E n \in Requests : Sbrk(vbrk + n)
    \/ Over

Spec == Init /\ [][Next]_pvars

----------------------------------------------------------------------------
(* What must hold.                                                         *)

\* Type correctness.
TypeOK ==
    /\ guest \in Programs
    /\ mem \in [Addr -> (Files \X Nat) \cup {Zero, Gone}]
    /\ prot \in [Pages -> SUBSET {"r", "w", "x"}]
    /\ base \in [Files -> Addr]
    /\ vbrk \in 0 .. (Top + 1)
    /\ linked \in BOOLEAN /\ cur \in Files
    /\ idx \in [Files -> Nat \ {0}]
    /\ phase \in Phases
    /\ [argv |-> argv, envp |-> envp, fd |-> fd] \in Commands
    /\ rsp \in BOOLEAN
    /\ stack \in [0 .. (StackWords - 1) -> Nat] /\ added \in 0 .. 16
    /\ grown \subseteq Addr

\* The segments of a file that are mapped by now, by header.
Segs(f) == {i \in 1 .. (idx[f] - 1) : i \in DOMAIN guest[f].ph
                                        /\ guest[f].ph[i].type = "load"}
First(f) == Min(Segs(f))
SegAt(f, i) == guest[f].ph[i].vaddr + (IF guest[f].pie THEN base[f] ELSE 0)
SegEnd(f, i) == SegAt(f, i) + guest[f].ph[i].memsz

\* What the file says must be at byte x of segment i.
Wanted(f, i, x) ==
    LET s == guest[f].ph[i]
        o == x - SegAt(f, i)
    IN IF o < s.filesz THEN <<f, s.offset + o>> ELSE Zero

\* The pages a file takes: every segment with the two pages the rounding may add
\* behind it, and the heap with one.
Extent(f) == UNION {PagesOf(SegAt(f, i), SegEnd(f, i) + 2 * PageSz) : i \in Segs(f)}
HeapPages == UNION {{PageOf(x), PageOf(x) + 1} : x \in grown}
Apart == (Extent("main") \cup HeapPages) \cap Extent("interp") = {}

\* A segment without a bss whose bytes touch one page more than its size alone
\* would: the break lies inside it.
BreakInside ==
    \E i \in Segs("main") : LET s == guest.main.ph[i] IN
        /\ i # First("main") /\ s.memsz = s.filesz /\ "w" \in s.flags
        /\ Past(Offt(s.vaddr) + s.filesz - 1) > Past(s.filesz)

\* A writable segment is at or behind segment i: map_load has put the break there.
Followed(i) == \E j \in Segs("main") : j >= i /\ "w" \in guest.main.ph[j].flags

\* The heap cannot reach segment i of a file.
OutOfReach(f, i) == f = "interp" \/ grown = {} \/ (~BreakInside /\ Followed(i))

\* The image is exact: every mapped segment of both files has its file bytes and
\* its zeroes in place, although every mapping of map_load is up to two pages too
\* long and MAP_FIXED takes what was there, with the segment's permissions (the
\* last page may keep more); and the heap leaves it alone.  Not so for a bss of
\* the first segment, for two files whose bases are too close, and for the heap
\* when the break lies inside the last segment or no writable segment follows.
ImageExact ==
    \A f \in Files : \A i \in Segs(f) :
        LET s == guest[f].ph[i] IN
        Apart /\ OutOfReach(f, i) =>
            /\ \A x \in Bytes(SegAt(f, i), SegEnd(f, i)) :
                  mem[x] = Wanted(f, i, x) \/ (i = First(f) /\ x >= SegAt(f, i) + s.filesz)
            /\ \A p \in PagesOf(SegAt(f, i), SegEnd(f, i)) :
                  /\ ({"r"} \cup s.flags) \subseteq prot[p]
                  /\ p < PageOf(SegEnd(f, i) - 1) => prot[p] = {"r"} \cup s.flags

\* The first break is behind the guest's image, so that the heap starts in pages
\* of its own (map_load, hook_brk), while the two files are apart.
BreakBehind ==
    phase = "run" /\ vbrk # 0 /\ ~BreakInside /\ Apart =>
        \A i \in Segs("main") :
            Followed(i) => PageOf(SegEnd("main", i) - 1) < PageOf(vbrk)

\* The guest reads from its stack what it was started with: argc, argv, envp and
\* one pair for every call of add_auxvt (setup_stack), whatever their numbers,
\* unless its file is descriptor 0.
StackReadsBack ==
    phase = "run" /\ rsp /\ fd # 0 =>
        /\ stack[0] = Len(argv)
        /\ Strings(stack, 1) = argv
        /\ Strings(stack, Len(argv) + 2) = envp
        /\ AuxPairs(stack) = {AuxCalls[n] : n \in 1 .. (Len(AuxCalls) - 1)}

\* What the auxiliary vector and exec_entry say is in memory: the program headers
\* at AT_PHDR, the entry points at AT_ENTRY and at the start (setup_stack,
\* map_binary), while the two files are apart and the heap is behind.
AuxTrue ==
    (/\ phase = "run" /\ rsp /\ fd # 0 /\ Apart
     /\ \A i \in Segs("main") : OutOfReach("main", i)) =>
        LET Val(id) == (CHOOSE q \in AuxPairs(stack) : q[1] = id)[2]
            start == IF linked THEN "interp" ELSE "main"
        IN /\ mem[Val(3)] = <<"main", guest.main.phoff>>
           /\ mem[Val(9)] = <<"main", guest.main.entryoff>>
           /\ mem[ExecEntry] = <<start, guest[start].entryoff>>
           /\ "x" \in prot[PageOf(ExecEntry)]

=============================================================================
