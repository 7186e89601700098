------------------------------- MODULE Loader -------------------------------
(***************************************************************************)
(* The user-land loader: map_binary maps the PT_LOAD segments of the guest *)
(* and of its interpreter by hand, segment by segment, with mmap, memset   *)
(* and mprotect, and leaves the program break behind                       *)
(* (src/src/core_mapper.c, src/src/elf_parsing.c).                         *)
(*                                                                         *)
(* Memory is kept byte by byte: a byte holds <<f, o>>, byte o of file f,   *)
(* or Zero, or is Gone (unmapped, or a page past the end of its file).     *)
(***************************************************************************)
EXTENDS Integers, Sequences

CONSTANTS
    PageSz,     \* PAGE_SZ
    Top,        \* addresses 0 .. Top - 1
    Programs,   \* the guests, each with its interpreter
    Bases       \* what base_address may return, for each of the two

Files == {"main", "interp"}
Addr  == 0 .. (Top - 1)
Pages == 0 .. (Top \div PageSz - 1)

Offt(a)   == a % PageSz                 \* PAGE_OFFT
Align(a)  == a - Offt(a)                \* PAGE_ALIGN
PageOf(a) == a \div PageSz
Past(a)   == Align(a) + PageSz          \* PAGE_ROUND(a) + 1

\* The bytes and the pages from address a up to b.
Bytes(a, b)  == a .. (b - 1)
PagesOf(a, b) == {p \in Pages : p * PageSz < b /\ (p + 1) * PageSz > a}

Headers == [type : {"load", "interp", "other"}, vaddr : Nat, offset : Nat,
            filesz : Nat, memsz : Nat, flags : SUBSET {"r", "w", "x"}]

Images == [elf : BOOLEAN, pie : BOOLEAN, entry : Nat, entryoff : Nat, phoff : Nat,
           len : Nat, ph : Seq(Headers)]

Loads(f) == {i \in DOMAIN f.ph : f.ph[i].type = "load"}

\* What a linker writes: whatever else a segment is, its address and its offset
\* agree in the page, its bytes are in the file, and segments come in order and
\* share no page; none is empty.  The first one starts in the first page of the
\* file and holds the program headers; a position-independent file starts at
\* address 0.  The entry point is a byte of the file, in an executable segment.
IsImage(f) ==
    /\ \A i \in Loads(f) : LET s == f.ph[i] IN
            /\ Offt(s.vaddr) = Offt(s.offset)
            /\ s.memsz > 0 /\ s.filesz <= s.memsz /\ s.offset + s.filesz <= f.len
            /\ \A j \in Loads(f) : j < i => f.ph[j].vaddr + f.ph[j].memsz <= Align(s.vaddr)
            /\ (\A j \in Loads(f) : i <= j)
                  => /\ s.offset < PageSz /\ (f.pie => s.vaddr = 0)
                     /\ f.phoff \in s.offset .. (s.offset + s.filesz - 1)
    /\ \E i \in Loads(f) : LET s == f.ph[i] IN
            /\ "x" \in s.flags /\ f.entry \in s.vaddr .. (s.vaddr + s.filesz - 1)
            /\ f.entryoff = s.offset + f.entry - s.vaddr

\* An interpreter has none itself.
ASSUME LoaderAssumption ==
    /\ PageSz \in Nat \ {0, 1} /\ Top \in Nat \ {0} /\ Top % PageSz = 0
    /\ Programs \subseteq [main : Images, interp : Images]
    /\ \A g \in Programs :
          /\ IsImage(g.main) /\ IsImage(g.interp)
          /\ \A i \in DOMAIN g.interp.ph : g.interp.ph[i].type # "interp"
    /\ \A f \in Files : \A b \in Bases[f] : b \in Nat /\ Offt(b) = 0

VARIABLES
    guest,      \* the two files
    mem,        \* the bytes of the address space
    prot,       \* the permissions of its pages, {} where nothing is mapped
    base,       \* s_binary->base of each file, 0 for NULL
    vbrk,       \* dbi_handler->vbrk of the guest, 0 before it is set
    linked,     \* s_binary->interp is set
    cur,        \* the file being mapped
    idx,        \* the program header each file is at
    phase

lvars == <<guest, mem, prot, base, vbrk, linked, cur, idx, phase>>

Zero == <<"zero", 0>>
Gone == <<"gone", 0>>

\* "open": init_analysis; "map": the loop of map_binary; "mapped": every header
\* is done; "aux": the calls of add_auxvt; "failed": -1 goes up to main, or
\* fatal_dump; "bus": SIGBUS.
Phases == {"open", "map", "mapped", "aux", "failed", "bus", "run", "segv"}

LoadInit ==
    /\ guest \in Programs
    /\ mem = [a \in Addr |-> Gone]
    /\ prot = [p \in Pages |-> {}]
    /\ base = [f \in Files |-> 0]
    /\ vbrk = 0
    /\ linked = FALSE
    /\ cur = "main"
    /\ idx = [f \in Files |-> 1]
    /\ phase = "open"

File == guest[cur]
Seg  == File.ph[idx[cur]]

----------------------------------------------------------------------------
(* mmap with MAP_FIXED, memset and mprotect.                               *)

\* Byte o of a mapped file.
FileByte(o) ==
    IF o < File.len THEN <<cur, o>>
    ELSE IF o < Past(File.len - 1) THEN Zero ELSE Gone

MapFile(m, a, b, offset) ==
    [x \in Addr |-> IF x \in Bytes(a, b) THEN FileByte(offset + x - a) ELSE m[x]]

SetZero(m, a, b) == [x \in Addr |-> IF x \in Bytes(a, b) THEN Zero ELSE m[x]]

SetProt(q, a, b, rights) ==
    [p \in Pages |-> IF p \in PagesOf(a, b) THEN rights ELSE q[p]]

\* Rights of the file mapping, which is always writable, and of the segment.
FileRights == {"r", "w"} \cup (Seg.flags \cap {"x"})
Rights     == {"r"} \cup Seg.flags

\* The kernel takes no unaligned address with MAP_FIXED, and not page 0.
MayMap(a) == Offt(a) = 0 /\ a # 0

----------------------------------------------------------------------------
(* init_analysis and the loop of map_binary.                               *)

\* The file is there, is an ELF file, and the decoder starts.
InitAnalysis ==
    /\ phase = "open" /\ File.elf
    /\ phase' = "map"
    /\ UNCHANGED <<guest, mem, prot, base, vbrk, linked, cur, idx>>

InitFails ==
    /\ phase = "open"
    /\ phase' = "failed"
    /\ UNCHANGED <<guest, mem, prot, base, vbrk, linked, cur, idx>>

AtHeader(t) == phase = "map" /\ idx[cur] <= Len(File.ph) /\ Seg.type = t

Advance == idx' = [idx EXCEPT ![cur] = @ + 1]

\* Where in the file load_interp looks for the interpreter's name.
NamePlace == IF File.pie THEN Seg.vaddr ELSE Seg.offset

\* load_interp: map_binary on the interpreter, without arguments.  Elsewhere
\* than at the name there is no name of a file.
LoadInterp ==
    /\ AtHeader("interp")
    /\ IF NamePlace = Seg.offset
       THEN cur' = "interp" /\ phase' = "open"
       ELSE phase' = "failed" /\ UNCHANGED cur
    /\ UNCHANGED <<guest, mem, prot, base, vbrk, linked, idx>>

\* Any other header.
Skip ==
    /\ AtHeader("other")
    /\ Advance
    /\ UNCHANGED <<guest, mem, prot, base, vbrk, linked, cur, phase>>

\* Only the guest's own handler is ever asked for the break.
SetBreak(b) == vbrk' = IF cur = "main" THEN b ELSE vbrk

\* mprotect of PAGE_ROUND(p_memsz), which the kernel rounds up.
ProtectEnd(a) == a + Past(Seg.memsz)

\* mprotect stops at the first page that is not mapped.
Protects(q, a) ==
    /\ ProtectEnd(a) <= Top
    /\ \A p \in PagesOf(a, ProtectEnd(a)) : q[p] # {}

\* map_load on the first PT_LOAD: curr_map stays 0, so a bss is neither cleared
\* nor mapped.
MapFirst(b) ==
    /\ AtHeader("load") /\ base[cur] = 0
    /\ LET at   == IF File.pie THEN b ELSE Seg.vaddr
           end  == at + Past(Seg.filesz)
           q    == SetProt(prot, at, end, FileRights)
       IN /\ MayMap(at) /\ end <= Top /\ Protects(q, at)
          /\ base' = [base EXCEPT ![cur] = at]
          /\ mem' = MapFile(mem, at, end, Align(Seg.offset))
          /\ prot' = SetProt(q, at, ProtectEnd(at), Rights)
          /\ IF "w" \in Seg.flags THEN SetBreak(end + 1) ELSE UNCHANGED vbrk
    /\ Advance
    /\ UNCHANGED <<guest, linked, cur, phase>>

\* A later PT_LOAD, at its address: the file mapping up to MapEnd, the bss
\* cleared up to there and mapped from there on.
CurrMap == IF File.pie THEN base[cur] + Seg.vaddr ELSE Seg.vaddr
FileEnd == CurrMap + Seg.filesz
MapEnd  == Past(FileEnd)
HasBss  == Seg.memsz > Seg.filesz
BssEnd  == Past(CurrMap + Seg.memsz)
BssMap  == HasBss /\ BssEnd > MapEnd

\* The end of the anonymous mapping: PAGE_ROUND of a multiple of the page size
\* takes one page more.
BssMapEnd == MapEnd + Past(BssEnd - MapEnd)

\* Mutant: the bss is not cleared up to its first page.
ClearedNone(m) == m

Cleared(m) == IF HasBss THEN SetZero(m, FileEnd, MapEnd) ELSE m

MappedBss(m) == IF BssMap THEN SetZero(m, MapEnd, BssMapEnd) ELSE m

\* Mutant: where the bss ends, not where its mapping does.
BreakAtBss ==
    IF BssMap THEN CurrMap + Seg.memsz
    ELSE IF HasBss THEN MapEnd ELSE Align(CurrMap) + Past(Seg.filesz) + 1

\* The break map_load leaves behind.  Without a bss it counts from the page of
\* the segment, and one byte more.
BreakAt ==
    IF BssMap THEN BssMapEnd
    ELSE IF HasBss THEN MapEnd ELSE Align(CurrMap) + Past(Seg.filesz) + 1

MapNext ==
    /\ AtHeader("load") /\ base[cur] # 0
    /\ LET at == Align(CurrMap)
           m  == MapFile(mem, at, MapEnd, Align(Seg.offset))
           q  == SetProt(prot, at, MapEnd, FileRights)
           qb == IF BssMap THEN SetProt(q, MapEnd, BssMapEnd, Rights) ELSE q
       IN /\ MayMap(at) /\ MapEnd <= Top /\ (BssMap => BssMapEnd <= Top)
          /\ IF HasBss /\ \E x \in Bytes(FileEnd, MapEnd) : m[x] = Gone
             THEN /\ phase' = "bus"
                  /\ UNCHANGED <<mem, prot, vbrk, idx>>
             ELSE /\ Protects(qb, at)
                  /\ mem' = MappedBss(Cleared(m))
                  /\ prot' = SetProt(qb, at, ProtectEnd(at), Rights)
                  /\ IF BssMap \/ "w" \in Seg.flags
                     THEN SetBreak(BreakAt) ELSE UNCHANGED vbrk
                  /\ Advance /\ UNCHANGED phase
    /\ UNCHANGED <<guest, base, linked, cur>>

\* Mutant: MAP_FAILED is stored and not looked at.
MapFailsUnseen ==
    /\ AtHeader("load")
    /\ base' = [base EXCEPT ![cur] = -1]
    /\ Advance
    /\ UNCHANGED <<guest, mem, prot, vbrk, linked, cur, phase>>

\* Any of the calls of map_load fails.  What it mapped before that goes with
\* the process.
MapFails ==
    /\ AtHeader("load")
    /\ phase' = "failed"
    /\ UNCHANGED <<guest, mem, prot, base, vbrk, linked, cur, idx>>

\* The last header: the interpreter returns to load_interp, the guest is mapped.
MapDone ==
    /\ phase = "map" /\ idx[cur] > Len(File.ph)
    /\ IF cur = "interp"
       THEN /\ cur' = "main" /\ linked' = TRUE
            /\ idx' = [idx EXCEPT !["main"] = @ + 1]
            /\ UNCHANGED phase
       ELSE phase' = "mapped" /\ UNCHANGED <<cur, linked, idx>>
    /\ UNCHANGED <<guest, mem, prot, base, vbrk>>

LoadNext ==
    \/ InitAnalysis \/ InitFails
    \/ LoadInterp \/ Skip \/ MapDone
    \/ \E b \in Bases[cur] : MapFirst(b)
    \/ MapNext \/ MapFails

\* exec_entry: where the processor starts, and the entry the interpreter finds
\* in the auxiliary vector.
EntryOf(f) == IF guest[f].pie THEN base[f] + guest[f].entry ELSE guest[f].entry
ExecEntry  == IF linked THEN EntryOf("interp") ELSE EntryOf("main")

=============================================================================
