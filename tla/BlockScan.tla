------------------------------ MODULE BlockScan ------------------------------
(***************************************************************************)
(* opcodes_cflow of src/src/analysis.c: disassemble from the base of a     *)
(* block, a page's worth of bytes at a time, up to its first control-flow  *)
(* instruction.  mem_read returns the size of its last chunk, so a read    *)
(* that crosses into a new page at offset o reports only o bytes, and the  *)
(* function recurses, a page-sized buffer per frame on the host stack,     *)
(* long before it reaches the end of what it has read.                     *)
(***************************************************************************)
EXTENDS Integers

CONSTANTS
    P, LogP,    \* PAGE_SZ, and its logarithm
    Top,        \* addresses 0 .. Top - 1 are mapped
    MaxSz,      \* INSTRUCTION_MAX_SZ
    Frames,     \* buffers that fit on the host stack of map_stack
    Blocks      \* what may be in memory: [text, base, curr_syscall, sealed]

Addr == 0 .. (Top - 1)

PageOf(a) == a \div P
Offt(a)   == a % P

\* The instruction that starts at an address: straight-line, control flow
\* (is_cflow of one of its groups), or bytes that do not decode.
Insn == [len : 1 .. MaxSz, kind : {"straight", "cflow", "bad"}]

\* sealed: the pages whose protections mprotect refuses to set.
Layouts == [text : [Addr -> Insn], base : Addr, curr_syscall : BOOLEAN,
            sealed : SUBSET {PageOf(a) : a \in Addr}]

ASSUME ScanAssumption ==
    /\ Top \in Nat /\ Frames \in Nat \ {0} /\ LogP \in Nat
    /\ P = 2 ^ LogP /\ MaxSz \in 1 .. P
    /\ Blocks \subseteq Layouts

\* Arithmetic the provers do not know.
ASSUME PowersOfTwo ==
    2 ^ 0 = 1 /\ \A k \in 0 .. LogP : 2 ^ k \in Nat /\ 2 ^ (k + 1) = 2 * 2 ^ k

VARIABLES
    block,          \* the block under analysis
    addr, n,        \* saved_addr and n of the innermost call
    saved_size,     \* what mem_read returned to it
    beg,            \* its flag: no instruction stepped over yet
    depth,          \* calls on the stack
    curr_syscall,   \* the global: the first instruction is to be re-run
    pc

vars == <<block, addr, n, saved_size, beg, depth, curr_syscall, pc>>

Init ==
    /\ block \in Blocks
    /\ addr = block.base
    /\ n = 0 /\ saved_size = P /\ beg = TRUE /\ depth = 1
    /\ curr_syscall = block.curr_syscall
    /\ pc = "read"

\* Mutants: a page-aligned read counts nothing; success counts one.
LastChunkOfft(a) == Offt(a)
LastChunkFlag(a) == 1

\* The last chunk of mem_read(addr, PAGE_SZ).
LastChunk(a) == IF Offt(a) = 0 THEN P ELSE Offt(a)

\* What mem_read(addr, PAGE_SZ) returns.  round_read copies a chunk before mprotect
\* may refuse to set the protections back: refused in the second page, the bytes
\* are there and those of the first page are counted.
Counted(a) ==
    IF Offt(a) # 0 /\ PageOf(a) + 1 \in block.sealed THEN P - Offt(a) ELSE LastChunk(a)

Refused == addr \in Addr /\ PageOf(addr) \in block.sealed

\* get_prot and is_mapped never object: reading past the mapped bytes is fatal.
Read ==
    /\ pc = "read" /\ ~Refused
    /\ addr + P - 1 \in Addr
    /\ saved_size' = Counted(addr)
    /\ pc' = "loop"
    /\ UNCHANGED <<block, addr, n, beg, depth, curr_syscall>>

\* Refused in the first page: mem_read returns -1, or 0 if there is a second one.
\* fatal_dump either way.
ReadRefused ==
    /\ pc = "read" /\ Refused
    /\ pc' = "refused"
    /\ UNCHANGED <<block, addr, n, saved_size, beg, depth, curr_syscall>>

ReadFault ==
    /\ pc = "read" /\ ~Refused
    /\ addr + P - 1 \notin Addr
    /\ pc' = "fault"
    /\ UNCHANGED <<block, addr, n, saved_size, beg, depth, curr_syscall>>

At == block.text[addr + n]

\* Mutant: only the bytes counted by mem_read are disassembled.
DecodesCounted == n < saved_size /\ At.kind # "bad" /\ n + At.len <= saved_size

\* cs_disasm_iter delivers an instruction: it is whole in the buffer.
Decodes == n < saved_size /\ At.kind # "bad" /\ n + At.len <= P

\* is_cflow, except for the system call that is being re-run.
IsEnd == At.kind = "cflow" /\ ~(beg /\ curr_syscall)

\* Mutant: the request to re-run a system call stays up.
StepOverKeeps ==
    /\ pc = "loop" /\ Decodes /\ ~IsEnd
    /\ n' = n + At.len
    /\ beg' = FALSE
    /\ UNCHANGED <<block, addr, saved_size, depth, curr_syscall, pc>>

StepOver ==
    /\ pc = "loop" /\ Decodes /\ ~IsEnd
    /\ n' = n + At.len
    /\ beg' = FALSE
    /\ curr_syscall' = FALSE
    /\ UNCHANGED <<block, addr, saved_size, depth, pc>>

Found ==
    /\ pc = "loop" /\ Decodes /\ IsEnd
    /\ pc' = "found"
    /\ UNCHANGED <<block, addr, n, saved_size, beg, depth, curr_syscall>>

\* "recurr call": go on from the first byte not stepped over.
Recurse ==
    /\ pc = "loop" /\ ~Decodes /\ n # 0
    /\ depth < Frames
    /\ addr' = addr + n
    /\ n' = 0 /\ beg' = TRUE /\ depth' = depth + 1
    /\ pc' = "read"
    /\ UNCHANGED <<block, saved_size, curr_syscall>>

Overflow ==
    /\ pc = "loop" /\ ~Decodes /\ n # 0
    /\ depth = Frames
    /\ pc' = "overflow"
    /\ UNCHANGED <<block, addr, n, saved_size, beg, depth, curr_syscall>>

\* "FATAL found nothing"
FoundNothing ==
    /\ pc = "loop" /\ ~Decodes /\ n = 0
    /\ pc' = "fatal"
    /\ UNCHANGED <<block, addr, n, saved_size, beg, depth, curr_syscall>>

\* _instrument_bbl asks insn_len for the length of what was found, in a page that
\* the search has read.
InsnLen ==
    /\ pc = "found"
    /\ pc' = IF addr + n + MaxSz - 1 \in Addr THEN "done" ELSE "fault"
    /\ UNCHANGED <<block, addr, n, saved_size, beg, depth, curr_syscall>>

Ended == pc \in {"done", "fault", "fatal", "refused", "overflow"} /\ UNCHANGED vars

Next == \/ Read \/ ReadRefused \/ ReadFault \/ StepOver \/ Found \/ Recurse \/ Overflow
        \/ FoundNothing \/ InsnLen \/ Ended

Spec == Init /\ [][Next]_vars

----------------------------------------------------------------------------
(* What must hold.                                                         *)

\* Type correctness.
TypeOK ==
    /\ block \in Layouts
    /\ addr \in 0 .. Top /\ n \in 0 .. P /\ saved_size \in 1 .. P
    /\ beg \in BOOLEAN /\ curr_syscall \in BOOLEAN
    /\ depth \in 1 .. Frames
    /\ pc \in {"read", "loop", "found", "done", "fault", "fatal", "refused",
              "overflow"}

\* The reference: sweep the text linearly, instruction by instruction.
None == -1
Sweep(text) ==
    LET sweep[a \in 0 .. (Top + P)] ==
            IF a \notin Addr \/ text[a].kind = "bad" THEN None
            ELSE IF text[a].kind = "cflow" THEN a
            ELSE sweep[a + text[a].len]
    IN  sweep

Reruns   == block.curr_syscall /\ block.text[block.base].kind = "cflow"
BlockEnd == Sweep(block.text)[block.base + IF Reruns THEN block.text[block.base].len ELSE 0]

\* However the bytes fall into chunks and frames, the result is the first
\* control-flow instruction of the block, not counting the system call that is
\* re-run, and the request to re-run it has been consumed (what HookEngine's
\* ScanStep and ScanEnd take for granted).
FindsBlockEnd ==
    pc \in {"found", "done"} => addr + n = BlockEnd /\ ~curr_syscall

\* It gives up only if the block runs into bytes that do not decode, ends within a
\* page of unmapped memory, or reaches a page that mprotect does not let it read
\* (HookEngine's InstrumentFail).
FailsForReason ==
    /\ pc \in {"fault", "fatal"} => BlockEnd = None \/ BlockEnd + P - 1 \notin Addr
    /\ pc = "refused" =>
          \E a \in Addr : /\ block.base <= a /\ (BlockEnd = None \/ a <= BlockEnd)
                         /\ PageOf(a) \in block.sealed

\* Offsets at least double from frame to frame, so a page costs at most
\* log2(PAGE_SZ) + 1 of them and the stack bounds the length of a block.
StackBound == depth <= (PageOf(addr) - PageOf(block.base) + 1) * (LogP + 1)

=============================================================================
