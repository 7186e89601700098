------------------------------- MODULE MemCopy -------------------------------
(***************************************************************************)
(* How hook bytes get in and out of guest memory: mem_read and mem_write   *)
(* of src/src/memory.c, page by page, as write_hook, restore_bytes and     *)
(* opcodes_cflow of the engine call them.                                  *)
(*                                                                         *)
(* is_mapped and get_prot ask nobody any more: every address counts as     *)
(* mapped and every page as read-write-execute.  A copy that needs a       *)
(* protection the page does not have is a SIGSEGV in the engine, and the   *)
(* mprotect after each chunk makes the page read-write-execute.            *)
(***************************************************************************)
EXTENDS Integers

CONSTANTS
    P,          \* PAGE_SZ
    NPages,     \* pages 0 .. NPages - 1 may be mapped
    L,          \* hook->length
    Code,       \* hook->code
    Val,        \* byte values
    Zero,       \* the buffers are calloc'ed or zero-initialised
    Images,     \* contents of memory to start from
    Stored      \* bytes the guest stores

VARIABLES
    mem,        \* the guest's bytes
    backing,    \* how each page is mapped
    prot,       \* its protections
    clean,      \* the guest's bytes as they would be without hooks
    hooked,     \* the hook is in memory: the guest runs, else the engine
    jmp, orig,  \* hook->jmp, hook->orig_bytes
    buf,        \* insn_buffer of opcodes_cflow
    pc, op,     \* control, and on whose behalf it copies
    at, k, sz, count, ret,  \* the locals of mem_read and mem_write
    native      \* protections changed, by a call without a hook, under this hook

vars == <<mem, backing, prot, clean, hooked, jmp, orig, buf, pc, op, at, k, sz,
          count, ret, native>>
copy == <<at, k, sz, count, ret>>

Addr  == 0 .. (P * NPages - 1)
Pages == 0 .. NPages            \* the last one is never mapped

ASSUME CopyAssumption ==
    /\ P \in Nat \ {0} /\ NPages \in Nat \ {0}
    /\ L \in 1 .. P
    /\ Zero \in Val /\ Stored \subseteq Val
    /\ Code \in [0 .. (L - 1) -> Val]
    /\ Images \subseteq [Addr -> Val]

Rwx   == {"r", "w", "x"}
Prots == {{}, {"r"}, {"r", "x"}, {"r", "w"}, Rwx}

\* "shared" is a read-only file mapping that mprotect cannot make writable.
Backings == {"private", "shared", "none"}

PageOf(a) == a \div P           \* PAGE_ALIGN
Offt(a)   == a % P              \* PAGE_OFFT
Size      == IF op = "scan" THEN P ELSE L
Here      == PageOf(at + k)

\* mprotect(page, PAGE_SZ, PROT_READ | PROT_WRITE | PROT_EXEC), with the
\* protections get_prot claims the page had.
CanProtect(p) == backing[p] = "private"
\* Mutant: the protections the page really has are set back.
KeepProt(p)   == prot' = [prot EXCEPT ![p] = prot[p]]

MakeRwx(p)    == prot' = [prot EXCEPT ![p] = Rwx]

Init ==
    /\ backing \in [Pages -> Backings] /\ backing[NPages] = "none"
    /\ prot \in [Pages -> Prots]
    /\ \A p \in Pages : /\ backing[p] = "none" => prot[p] = {}
                        /\ backing[p] = "shared" => "w" \notin prot[p]
    /\ mem \in Images
    /\ clean = mem
    /\ hooked = FALSE
    /\ jmp = 0 /\ orig = [i \in 0 .. (L - 1) |-> Zero]
    /\ buf = [i \in 0 .. (P - 1) |-> Zero]
    /\ pc = "idle" /\ op = "none"
    /\ at = 0 /\ k = 0 /\ sz = 0 /\ count = 0 /\ ret = 0
    /\ native = FALSE

----------------------------------------------------------------------------
(* mem_read.                                                               *)

InOnePage(a, size) == size <= P - Offt(a)

StartRead(a, o, size) ==
    /\ pc' = "read" /\ op' = o /\ at' = a
    /\ k' = 0 /\ count' = 0 /\ ret' = 0
    /\ sz' = IF InOnePage(a, size) THEN size ELSE P - Offt(a)

\* opcodes_cflow reads a page's worth of code ahead.
Scan(a) ==
    /\ pc = "idle" /\ ~hooked
    /\ StartRead(a, "scan", P)
    /\ UNCHANGED <<mem, backing, prot, clean, hooked, jmp, orig, buf, native>>

\* Mutant: the hook goes right after the instruction.
WriteHookAfter(a) ==
    /\ pc = "idle" /\ ~hooked
    /\ jmp' = a + 1
    /\ StartRead(a, "save", L)
    /\ native' = FALSE
    /\ UNCHANGED <<mem, backing, prot, clean, hooked, orig, buf>>

\* write_hook saves the bytes under the hook first.
WriteHook(a) ==
    /\ pc = "idle" /\ ~hooked
    /\ jmp' = a
    /\ StartRead(a, "save", L)
    /\ native' = FALSE
    /\ UNCHANGED <<mem, backing, prot, clean, hooked, orig, buf>>

\* Mutant: the source is not advanced with the destination.
IntoFromStart(b, lo, n) ==
    [i \in DOMAIN b |-> IF i \in lo .. (lo + n - 1) THEN mem[at + i - lo] ELSE b[i]]

\* The bytes of the chunk land in the buffer.
Into(b, lo, n) ==
    [i \in DOMAIN b |-> IF i \in lo .. (lo + n - 1) THEN mem[at + i] ELSE b[i]]

\* round_read copies first; then it sets the protections.
ReadFault ==
    /\ pc = "read"
    /\ "r" \notin prot[Here]
    /\ pc' = "segv"
    /\ UNCHANGED <<mem, backing, prot, clean, hooked, jmp, orig, buf, op, copy, native>>

ReadRound ==
    /\ pc = "read"
    /\ "r" \in prot[Here]
    /\ IF op = "scan" THEN buf' = Into(buf, k, sz) /\ UNCHANGED orig
                      ELSE orig' = Into(orig, k, sz) /\ UNCHANGED buf
    /\ CanProtect(Here)
    /\ MakeRwx(Here)
    /\ count' = count + sz
    /\ k' = k + sz
    /\ sz' = IF PageOf(at + k + sz) = PageOf(at + Size) THEN Size - (k + sz) ELSE P
    /\ ret' = sz
    /\ pc' = IF k + sz = Size THEN "readret" ELSE "read"
    /\ UNCHANGED <<mem, backing, clean, hooked, jmp, op, at, native>>

\* round_read returns 0: -1 from a read inside one page, the bytes counted so
\* far from a longer one.
ReadRefused ==
    /\ pc = "read"
    /\ "r" \in prot[Here]
    /\ IF op = "scan" THEN buf' = Into(buf, k, sz) /\ UNCHANGED orig
                      ELSE orig' = Into(orig, k, sz) /\ UNCHANGED buf
    /\ ~CanProtect(Here)
    /\ ret' = IF InOnePage(at, Size) THEN -1 ELSE count
    /\ pc' = "readret"
    /\ UNCHANGED <<mem, backing, prot, clean, hooked, jmp, op, at, k, sz, count, native>>

\* Back in the caller.  The scan's buffer is dead once the block's end is known.
ReadReturn ==
    /\ pc = "readret"
    /\ IF ret = -1 THEN pc' = "fatal" /\ UNCHANGED <<op, copy, buf>>
       ELSE IF op = "scan"
       THEN /\ pc' = "idle" /\ op' = "none"
            /\ at' = 0 /\ k' = 0 /\ sz' = 0 /\ count' = 0 /\ ret' = 0
            /\ buf' = [i \in 0 .. (P - 1) |-> Zero]
       ELSE /\ pc' = "write" /\ op' = "hook"
            /\ k' = 0 /\ sz' = 0 /\ count' = 0 /\ ret' = 0
            /\ UNCHANGED <<at, buf>>
    /\ UNCHANGED <<mem, backing, prot, clean, hooked, jmp, orig, native>>

----------------------------------------------------------------------------
(* mem_write.                                                              *)

\* restore_bytes: _dispatcher takes the hook out.
RestoreBytes ==
    /\ pc = "idle" /\ hooked
    /\ pc' = "write" /\ op' = "unhook" /\ at' = jmp
    /\ k' = 0 /\ sz' = 0 /\ count' = 0 /\ ret' = 0
    /\ UNCHANGED <<mem, backing, prot, clean, hooked, jmp, orig, buf, native>>

Chunk == IF P - Offt(at + k) < Size - k THEN P - Offt(at + k) ELSE Size - k
Bytes == IF op = "hook" THEN Code ELSE orig

\* memmove of nothing touches nothing.
WriteFault ==
    /\ pc = "write"
    /\ Chunk > 0 /\ "w" \notin prot[Here]
    /\ pc' = "segv"
    /\ UNCHANGED <<mem, backing, prot, clean, hooked, jmp, orig, buf, op, copy, native>>

\* Mutant: the source is not advanced with the destination.
WriteChunkFromStart ==
    mem' = [a \in Addr |-> IF a \in (at + k) .. (at + k + Chunk - 1)
                           THEN Bytes[a - at - k] ELSE mem[a]]

WriteChunk ==
    mem' = [a \in Addr |-> IF a \in (at + k) .. (at + k + Chunk - 1)
                           THEN Bytes[a - at] ELSE mem[a]]

\* Mutant: the exit test misses the last round.
WriteDonePast == k > Size

\* The loop leaves only at k = size, after one more, empty, round.
WriteDone == k = Size

\* Mutant: code pages are made read-execute again after the write.
WriteRoundSetBack ==
    /\ pc = "write"
    /\ Chunk > 0 => "w" \in prot[Here]
    /\ WriteChunk
    /\ CanProtect(Here)
    /\ prot' = [prot EXCEPT ![Here] = IF WriteDone THEN {"r", "x"} ELSE Rwx]
    /\ IF WriteDone
       THEN /\ pc' = "idle" /\ op' = "none" /\ hooked' = (op = "hook")
            /\ at' = 0 /\ k' = 0
       ELSE /\ k' = k + Chunk
            /\ UNCHANGED <<pc, op, hooked, at>>
    /\ UNCHANGED <<backing, clean, jmp, orig, buf, sz, count, ret, native>>

WriteRound ==
    /\ pc = "write"
    /\ Chunk > 0 => "w" \in prot[Here]
    /\ WriteChunk
    /\ CanProtect(Here)
    /\ MakeRwx(Here)
    /\ IF WriteDone
       THEN /\ pc' = "idle" /\ op' = "none" /\ hooked' = (op = "hook")
            /\ at' = 0 /\ k' = 0
       ELSE /\ k' = k + Chunk
            /\ UNCHANGED <<pc, op, hooked, at>>
    /\ UNCHANGED <<backing, clean, jmp, orig, buf, sz, count, ret, native>>

WriteRefused ==
    /\ pc = "write"
    /\ Chunk > 0 => "w" \in prot[Here]
    /\ WriteChunk
    /\ ~CanProtect(Here)
    /\ pc' = "fatal"
    /\ UNCHANGED <<backing, prot, clean, hooked, jmp, orig, buf, op, copy, native>>

----------------------------------------------------------------------------
(* The guest.                                                              *)

HookWin == jmp .. (jmp + L - 1)

\* A native store, clear of the hook.
GuestStore(a, v) ==
    /\ pc = "idle" /\ hooked
    /\ a \notin HookWin /\ "w" \in prot[PageOf(a)]
    /\ mem' = [mem EXCEPT ![a] = v]
    /\ clean' = [clean EXCEPT ![a] = v]
    /\ UNCHANGED <<backing, prot, hooked, jmp, orig, buf, pc, op, copy, native>>

\* mprotect has a hook (hook_mprotect): it runs while no hook is in memory.
\* pkey_mprotect has none: it runs natively, between the hooks.
GuestProtect(p, q) ==
    /\ pc = "idle"
    /\ backing[p] # "none" /\ (backing[p] = "shared" => "w" \notin q)
    /\ prot' = [prot EXCEPT ![p] = q]
    /\ native' = (native \/ hooked)
    /\ UNCHANGED <<mem, backing, clean, hooked, jmp, orig, buf, pc, op, copy>>

Dead == pc \in {"segv", "fatal"} /\ UNCHANGED vars

Next ==
    \/ \E a \in Addr : Scan(a) \/ WriteHook(a)
    \/ ReadFault \/ ReadRound \/ ReadRefused \/ ReadReturn
    \/ RestoreBytes \/ WriteFault \/ WriteRound \/ WriteRefused
    \/ \E a \in Addr, v \in Stored : GuestStore(a, v)
    \/ \E p \in Pages, q \in Prots : GuestProtect(p, q)
    \/ Dead

Spec == Init /\ [][Next]_vars

\* The engine runs on one thread and no call here blocks.
Host == ReadFault \/ ReadRound \/ ReadRefused \/ ReadReturn
            \/ WriteFault \/ WriteRound \/ WriteRefused
FairSpec == Spec /\ WF_vars(Host)

----------------------------------------------------------------------------
(* What must hold.                                                         *)

\* Type correctness.
TypeOK ==
    /\ mem \in [Addr -> Val] /\ clean \in [Addr -> Val]
    /\ backing \in [Pages -> Backings] /\ prot \in [Pages -> SUBSET Rwx]
    /\ hooked \in BOOLEAN /\ native \in BOOLEAN
    /\ jmp \in Addr /\ at \in Addr
    /\ orig \in [0 .. (L - 1) -> Val] /\ buf \in [0 .. (P - 1) -> Val]
    /\ pc \in {"idle", "read", "readret", "write", "segv", "fatal"}
    /\ op \in {"none", "scan", "save", "hook", "unhook"}
    /\ k \in 0 .. P /\ sz \in 0 .. P /\ count \in 0 .. P /\ ret \in -1 .. P

\* Between operations memory is exactly what it would be without hooks, or that
\* with the hook's bytes over it: nothing is lost at a page boundary, by a read
\* cut short whose return value write_hook takes for success, or by protections
\* changed since the last write (write_hook, restore_bytes).
RoundTrip ==
    pc = "idle" =>
        mem = [a \in Addr |-> IF hooked /\ a \in HookWin THEN Code[a - jmp] ELSE clean[a]]

\* A read that is not cut short delivers every byte (mem_read's own assertion,
\* and what the scan of a block relies on).
ReadExact ==
    pc = "readret" /\ k = Size =>
        \A i \in 0 .. (Size - 1) : (IF op = "scan" THEN buf ELSE orig)[i] = mem[at + i]

\* Pages a copy of n bytes at a depends on.
Needs(a, n) == {PageOf(x) : x \in a .. (a + n - 1)}

\* Placing a hook succeeds only where the page of the byte after the hook can
\* be made writable too, and once it is placed, taking it out cannot fail: the
\* read of write_hook is what made the pages writable, for mem_write itself
\* asks get_prot, which never says no.
Removable ==
    /\ hooked => \A p \in Needs(jmp, L + 1) : CanProtect(p)
    /\ op = "unhook" /\ pc \in {"segv", "fatal"} => native

\* The engine dies in a copy only if a page it needs is missing, unreadable or
\* cannot be made writable.
DiesForReason ==
    pc \in {"segv", "fatal"} =>
        \/ native
        \/ \E p \in Needs(at, Size + 1) : backing[p] # "private" \/ "r" \notin prot[p]

\* Every copy that is started ends: both loops stop only on k = size exactly.
CopiesEnd == pc \in {"read", "write"} ~> pc \in {"idle", "segv", "fatal"}

=============================================================================
