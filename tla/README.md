# A TLA+ model of dryadalis

dryadalis is a dynamic binary instrumentation engine for x86-64 ELF programs. It
maps the program (the *guest*) into its own address space and lets it run
natively, one basic block at a time: the control-flow instruction at the end of
a block is overwritten by a *dump hook*; when the guest reaches it, the engine
saves the registers, calls the user's callback, takes its hooks out of memory,
emulates the instruction in software, hooks the next block and resumes the guest
through a *restore hook* written just below that block.

Guest and engine share one thread, one address space, one pair of segment bases
and one set of vector registers. Everything that can go wrong is in how they
take turns on these, and that is what the modules here are about.

## Inventory

| Part | State | Operations | What makes it correct |
|---|---|---|---|
| dispatch engine (`engine.c`) | the two `hook_t`, `*curr_hook`, `state`, patched guest memory | `instrument`, `_dispatcher`, `instrument_request`, `write_hook`, `restore_bytes`, `continue_exec` | the guest cannot tell that it is instrumented; the engine always gets control back |
| context switch stubs (`engine.c`, `exec_binary`) | live registers, `state`, the engine's stack | `dump_hook`, `craft_hook`, `craft_restore_stub`, `restore_hook` | no register of the guest is lost, its stack is not used |
| memory access (`memory.c`) | page protections, the bytes under a hook | `mem_read`, `mem_write`, `get_prot` | hooks go in and out at any offset without losing a byte |
| block scan (`analysis.c`) | `curr_syscall`, a page-sized buffer per frame | `opcodes_cflow`, `insn_len` | finds the first control-flow instruction, within the stack it has |
| branch emulation (`analysis.c`, `state_runt.c`) | `state` | `eval_target`, `is_jmp_taken`, `read_reg` | goes where the processor would go |
| segment bases (`engine.c`, `syscall_hook.c`) | `$fs`, `$gs`, `instrumented_fs/gs`, `host_state` | `set_fs_gs`, `save_fs_gs`, `do_syscall`, `hook_arch_prctl` | each side runs on its own thread-local storage |
| program break (`syscall_hook.c`) | `vbrk`, the heap's pages | `hook_brk` | the heap below the break is mapped and keeps its contents |
| pass-through hooks (`syscall_hook.c`) | none of their own | `get_syscall_hook`, about 70 hooks around `do_syscall` | arguments and result reach kernel and guest unchanged |
| signal handlers (`hook_rt_sigaction`, then the kernel) | whatever the handler interrupts | delivery, the handler's own steps, `rt_sigreturn` | a handler may come at any point of the dispatch cycle |
| loader (`core_mapper.c`), ELF set-up (`elf_parsing.c`) | segments, permissions, stack, auxiliary vector, first break | `init_analysis`, `map_binary`, `load_interp`, `map_load`, `setup_stack`, `add_auxvt` | the process image is the one the kernel would build |
| memory map list (`core_mapper.c`) | a list of maps | not called any more: `is_mapped` answers true | |
| logging, `main.c`, `plugin.py` | `bbl_count` | output, one request | |

Calls go down this table: `_dispatcher` calls the scan, the emulation and the
memory functions; the emulation of a system call calls a hook; each of them
switches the segment bases. The loader runs before all of them and leaves them
the image, the stack and the first break. There are no messages and no timers.
What is hard is the order of small steps by parties that do not know of each
other (a guest that reads or rewrites its own code, a system call that has no
hook and must be run by the guest exactly once, a signal handler that runs while
the engine has one hook in and one out), boundaries (pages, chunks, machine
words, the stack), and errors half-way. `PROJECT.json` lists these as hazards,
each at its line.

## Modules

`Cpu` - the processor (external): memory as cells that each hold an instruction
or a word, registers `pc`, `rax`, a flag and `rsp`, and what an instruction does
to them. `rax` is there because only the hooks themselves save and reload it,
the flag and `rsp` because the stubs do.

`NativeCpu` - the abstract specification: the guest alone on the processor, one
instruction per step, the system calls counted (modulo 2). Its variable
`broken` says that the guest has left the contract, after which nothing is
promised.

`HookEngine` - the dispatch cycle. `phase` says where control is; the actions
follow `_dispatcher` top to bottom:

| Action | Code |
|---|---|
| `GuestStep`, `GuestFault`, `GuestWild` | the guest natively; into a fault; into hook bytes that are not an intact dump hook |
| `DumpHook` | `dump_hook`, `craft_hook`: registers to `state`, `rip` from `*curr_hook` |
| `RestoreRestore`, `RestoreDump` | the two `restore_bytes` of `_dispatcher`: `mem_write` (`MemWrite`) cell by cell in any order, then its assertion |
| `Decode` | `eval_target` reads the branch |
| `EmulateJmp`, `EmulateCall`, `EmulateRet`, `EmulateFail` | `__eval_target` |
| `SyscallHooked`, `SyscallUnhandled`, `SyscallExit` | its system call cases; no hook means: next block starts at the instruction itself, with `curr_syscall` set |
| `ScanStep`, `ScanEnd` | `opcodes_cflow`, one instruction after the other, and `dump->jmp` |
| `SaveDump`, `WriteDump` | `write_hook(dump)`: `mem_read` into `orig_bytes`, then `mem_write`, each cell by cell; then `*curr_hook` and `restore->jmp` |
| `InstrumentFail` | nothing found, or a read or the hook leaves mapped memory |
| `SaveRestore`, `WriteRestore`, `WriteRestoreFail` | `write_hook(restore)` in the same way, or its failure; then `state->rip` |
| `Launch`, `Continue`, `RestoreHook` | `exec_binary`; `continue_exec` with the restore stub; `restore_hook` |

`touched`, `selfmod` and `lost` are history: the guest accessed a patched cell;
the cells of its block that were written since the scan began; a hooked system
call failed, and its error code is gone (see findings). `scan`, `copied` and `insn`
are the places where the engine can be interrupted: how far the scan is, which
cells of a hook are copied, and the branch that is read but not yet emulated.

`Context` - the stubs, instruction by instruction. `DumpCode` and `RestoreCode`
are the stubs as sequences; one action per kind of instruction executes them.
Values carry who made them, so that a register restored from the wrong place
shows. Three vector registers stand for sixteen. Processor classes: sse, avx,
avx2, avx512f, as `init_analysis` tells them apart.

`MemCopy` - `mem_read` and `mem_write` chunk by chunk, over pages that are
private, read-only shared or unmapped, with any protection, as `write_hook`,
`restore_bytes` and the scan call them. Between two operations the guest stores
natively and changes protections.

`BlockScan` - `opcodes_cflow` with its frames and its page-sized reads, over memory
in which `mprotect` refuses some pages (`sealed`): `mem_read` then fails in the
first page it reads (`ReadRefused`) and counts the bytes of the first page only when
the second one refuses (`Counted`). `insn_len` reads where the search has read, so it
meets no refusal of its own. What `ScanStep` and `ScanEnd` of `HookEngine` take for
granted (one instruction after the other, up to the block's end, the re-run request
consumed by the first) is its property `FindsBlockEnd`; what `InstrumentFail` allows
is `FailsForReason`.

`BranchEval` - `is_jmp_taken`, `read_reg` and `__eval_target` on words of `W`
bits, against the processor's own rule.

`Tls` - who runs on whose `$fs` and `$gs`. `gfs` and `ggs` are the bases the
guest would have without the engine.

`Syscalls` - extends `Tls` by the system call itself: the guest comes with a
number and six argument registers, `get_syscall_hook` chooses a hook, the hook
hands registers to `do_syscall`. The hooks are a table of rows (`Files` to
`Nets`, in the order of the source); the actions `PassOn`, `NoKernelCall`,
`ArchPrctl` and `Exit` are the four kinds of hook, the others are those of `Tls`
with the call carried along.

`Brk` - `hook_brk` over `MAP_FIXED` mappings, with `uint32_t` sizes.

`NativeSig`, `Signals` - `NativeCpu` and `HookEngine`, each with a signal
handler. `Signals` interleaves the handler with every step of `HookEngine`
(`Resume`): the kernel delivers (`Deliver`) between two instructions of the guest or
of the scan and between two cells of a copy, so with a hook saved and not yet
written, half written or half put back. The handler runs natively and may read and
write everything, and returns by `rt_sigreturn` (`Return`), exits or faults. It
leaves the contract when it touches a cell that holds a byte of a hook just then
(`Patched`), or writes one the engine has in hand (`InHand`): saved and not yet
hidden, where its store would be undone a block later; put back and not yet
compared, where it fails the assertion of `mem_write`; and the branch that has been
read and is about to be emulated. A store into the block, or into the page that the
scan has read ahead (`Known`), is within the contract, but counts in `selfmod`:
memory and registers stay those of the bare processor, and control may leave the
block, as `Confined` says. What the scan decodes there may be the old bytes or the
new (`Sees`), and the assertion of `mem_read` may end the process.

`Loader` - `map_binary` one program header at a time, on bytes: a byte of memory
is byte `o` of a file, a zero, or not there.

| Action | Code |
|---|---|
| `InitAnalysis`, `InitFails` | `init_analysis`: the file opens and is an ELF file, or not |
| `LoadInterp`, `MapDone` | `load_interp`: `map_binary` on the interpreter, and the way back |
| `MapFirst`, `MapNext` | `map_load` for the segment that sets the base, and for later ones: file mapping, `memset`, anonymous mapping, `mprotect`, break |
| `MapFails`, `Skip` | a failing call in it; other headers |

`GuestStack` - what `setup_stack`, `map_val` and `add_auxvt` do to the words of the
stack, and how the guest's start-up code reads them back.

`Process` - composes them: the command line, `Loader`, `setup_stack`, then calls
of `brk` on the memory the loader left, with the guards and lengths of `Brk`
(an instance of it whose break is the loader's).

| Action | Code |
|---|---|
| `Load` | a step of `map_binary` |
| `SetupStack`, `AddAux` | `setup_stack`: argc, argv and envp; then one call of `add_auxvt` after the other, `added` of sixteen so far |
| `StackOverflow`, `StackFails` | the words do not fit on the mapping; there is no mapping |
| `Sbrk` | `hook_brk`, as the guest makes it grow |

`EngineProofs` (of `HookEngine` and `Signals`), `ContextProofs`, `SyscallsProofs`,
`BrkProofs`, `MemCopyProofs`, `BranchProofs`, `BlockScanProofs` and `ProcessProofs`
(of `Loader`, `GuestStack` and `Process`) - the proofs. `MC*` modules only give
constants their values.

## Runs

| Run | Checks | Bounds, and why they are enough |
|---|---|---|
| `hook_engine` | `TypeOK`, `HooksComplete`, `Confined`, `Transparent`, `Recaptured` | all programs of four cells, three of twelve instructions of every class and a last one of eight, a fixed tail, hooks of two cells: hooks overlap the program, the block before and the stack's neighbourhood; system calls with a hook, without, failing and exiting; self-modifying stores |
| `context` | `TypeOK`, `DumpsCovered`, `Resumed`, `OwnStack` | all four processor classes, two generations of guest values, every depth of the engine's stack of 6 words |
| `mem_copy` | `TypeOK`, `RoundTrip`, `ReadExact`, `Removable`, `DiesForReason`, `CopiesEnd` | two pages of 3 bytes (the next one unmapped), a hook of 2 bytes at every offset, all protections: hooks within a page, across, ending at a boundary |
| `block_scan` | `TypeOK`, `FindsBlockEnd`, `FailsForReason`, `StackBound` | pages of 4 bytes, instructions of 1 and 3 bytes in every order up to 11 bytes, at each offset, with none or any one of the pages refused by `mprotect`: instructions straddle chunks, pages and frames |
| `branch_eval` | `TypeOK`, `GoesWhereCpuGoes`, `RefusedForReason`, `CallFrames` | words of 3 bits: all pairs compared, all operand forms, stack pointer at the wrap |
| `syscalls` | `TypeOK`, `HostTls`, `GuestTls`, `KernelSeesGuest`, `SameCall` | every call that has a hook, one without, and a branch; the host's two bases, one of the guest's own, one the kernel refuses; registers by name, with `rcx` equal to `r10` or not and `r9` fitting an `int` or not |
| `brk` | `TypeOK`, `HeapIntact`, `BreakAgrees` | pages of 4, 32-bit arithmetic as modulo 16, 30 addresses, aligned and unaligned first break |
| `process` | `TypeOK`, `ImageExact`, `BreakBehind`, `StackReadsBack`, `AuxTrue` | pages of 4, 60 addresses; about 660 layouts, nearly all of them a text and a data segment: data at offset 0, 1, 3 of its page, ending before, on and past a page, with no bss, one inside the last page and one past it, at the end of the file or not, writable or not, position-independent or not, with and without an interpreter; bases close together and apart; a bss in the first segment that ends in the interpreter's pages and a read-only segment behind the data; three command lines, the longest too long for the 40 words of the stack; heap requests below, on and above a page |
| `signals` | `SigHooksComplete`, `SigConfined`, `SigTransparent` | a guest that installs a handler and runs one of six and one of four instructions, before a system call or not; a handler that starts with a load, a store into code ahead, data, hook or stack, a system call, a branch into guest code, a fault, delivered at every step; hooks of two cells |

`Transparent` is the refinement `HookEngine => NativeCpu`, under the mapping
`View` (memory with both hooks taken out), `GuestRegs` (live registers, or the
saved ones while the engine runs) and `OffContract`. A step of the guest or an
emulation is one step of `NativeCpu`; everything else stutters. `SigTransparent`
is the same for `Signals => NativeSig`; there the handler's steps are steps on
both sides, so that what it changes while the engine holds guest code in its
hands must commute with what the engine does next. `SigHooksComplete` speaks of every
state, also half-way through a copy: a patched cell holds its byte of the hook, and a
cell that is saved and not yet hidden, or put back and not yet compared, holds what
was saved.

The exceptions that a property spells out are the boundary of what the code
gets right. `ImageExact` leaves out a bss in the first segment, two files whose
bases are too close (`Apart`) and, once the heap grows, a break inside the last
segment (`BreakInside`) and segments that no writable one follows (`Followed`);
`StackReadsBack` a guest file with descriptor 0; `SameCall` four hooks that drop arguments, two
that make another call, and `mmap` where `rcx` is not `r10`. Each is described
below.

Fairness: `hook_engine` and `mem_copy` assume, for `Recaptured` and `CopiesEnd`,
that the one thread keeps taking steps: the next step is the only one there is, and
the engine's own code waits for nothing. A system call that the guest runs natively,
or a hook runs for it, may block in the kernel; it is assumed to return. The other runs assume none. Deadlock is checked in every run; ends of
the process are explicit stuttering actions.

### Findings

Three runs expect a violation: each checks what a comment or the README says, and
finds that the code does otherwise.

- `rax_is_return` - a failing hooked system call gives the guest -1, not -errno.
- `actual_target` - calls through `rsp` and branches through a segment override
  are emulated wrongly.
- `brk_only_adds` - growing the break from inside a page wipes that page.
  (`HeapIntact` holds for the sequences that stay on page boundaries and below
  4 GiB per request.)

Other places where code and comments part are in the models as the code has
them, without a run of their own:

- `mem_read` (`memory.c:156` "returns the number of bytes readen") returns the
  size of its last chunk; the comment at `analysis.c:151` expects the scan to
  recurse on the next page, but for this reason it recurses inside a page.
  `StackBound` says what that costs: at most log2(page size) + 1 frames per
  page, of about forty that the stack of `map_stack` holds.
- `mem_read` "reads all the mapped datas" only as long as all are mapped: it
  faults on the first unmapped page (`ReadFault` of `MemCopy`).
- the protections that are "set back" (`memory.c:148`) are read-write-execute,
  whatever they were, for `get_prot` does not look (`MakeRwx`).
- a memory operand without a base register is refused, though `analysis.c:522`
  says an invalid register reads as 0 (`RefusedForReason`).
- `brk` at or below the break fails the assertion at `syscall_hook.c:62`
  (`Abort` of `Brk`); a request for exactly one more page is answered with the
  old break (`Refuse`).
- with AVX but not AVX2 the high halves of the vector registers are not saved
  (`engine.c:139`), and `vzeroall` clears them; without AVX, `vzeroall` itself is
  an illegal instruction (phase `sigill` of `Context`).
- a refused `ARCH_SET_FS` leaves the guest on the engine's `$fs` (`engine.c:900`;
  `ArchSetFs` of `Tls`).
- `map_load`: the last page of a segment keeps the rights of the file mapping,
  although `core_mapper.c:107` says "set the right permissions" (`ProtectEnd`);
  the bss of the first segment is neither cleared nor mapped (`MapFirst`); the
  break of a data segment without a bss may lie inside its last page, one byte
  past a rounded size, so that the first growth wipes that page (`BreakInside`);
  clearing a bss whose file image ends with the file on a page boundary is a
  SIGBUS (`MapNext`).
- only a writable segment, or a bss that is mapped, moves the break: a read-only
  segment behind the data is above it, and the heap grows over it (`Followed`).
- a bss of the first segment that is longer than its file mapping goes through
  only when `mprotect` finds the pages of the other file behind it (`MapFirst`);
  its break is then in front of its end.
- `load_interp` looks the interpreter's name up by address in a
  position-independent file, which fails when address and offset differ.
- `add_auxvt` looks for two zero words, so an entry with value 0 is overlapped by
  the next; with descriptor 0 for `AT_EXECFD` the rest of the vector is shifted.
  `AT_RANDOM` and `AT_PLATFORM` are the addresses of pointers.
- `map_binary` does not look at the result of `setup_stack` (`StackFails`).
- `hook_mmap` takes its flags from `rcx`, not `r10`, and its offset as an `int`,
  and ends the process when the call fails; `futex`, `fadvise64`,
  `fanotify_mark` and `clone` pass too few arguments; `getppid` gets the hook of
  `getpid`, and `vfork`'s hook forks; `close(1)` is not made; the exit status of
  the guest is lost, for the destructor exits with 0 (`Syscalls`).
- `ret` with an immediate is emulated as one without (`analysis.c:557`), so the
  arguments it should drop stay on the stack; `CallFrames` is about the plain one.
- `int n` and `int3` are in the group that `analysis.c:560` takes for system calls
  and would be emulated as one. Programs for x86-64 use `syscall`; `Cpu` has that one
  only.
- `length_cflow`, which `_instrument_bbl` records, is not used: the emulation takes the
  length from the instruction `eval_target` decodes.
- a handler that interrupts the engine runs on the engine's `$fs`.

## Proofs

Each theorem states a property that a run checks, for every value of the
constants that satisfies the named assumptions of its module.

| Module | Theorems | For every |
|---|---|---|
| `EngineProofs` | `TypeCorrect`, `HooksAlwaysComplete`, `AlwaysConfined`, `Transparency` | memory size, instruction encoding, program, hook length, system call table |
| | `SigHooksAlwaysComplete`, `SigAlwaysConfined`, `SigTransparency` | the same, and every handler |
| `ContextProofs` | `ContextTyped`, `DumpsAlwaysCovered`, `AlwaysResumed`, `AlwaysOwnStack` | size of the engine's stack, set of vector features |
| `SyscallsProofs` | `SyscallsImplementTls`, `BasesTyped`, `EngineKeepsItsTls`, `GuestKeepsItsTls`, `KernelAlwaysSeesGuest`, `AlwaysSameCall` | set of bases, calls and arguments |
| `BrkProofs` | `BreakTyped`, `BreakAlwaysAgrees`, `HeapAlwaysIntact` | page size, memory size, width of a size, first break |
| `MemCopyProofs` | `CopiesTyped`, `AlwaysRoundTrip`, `ReadsExact`, `AlwaysRemovable`, `AlwaysDiesForReason` | page size, number of pages, hook length |
| `BranchProofs` | `BranchTyped`, `JumpsWhereCpuGoes`, `AlwaysRefusedForReason`, `AlwaysCallFrames` | width of a word, instruction, registers and memory |
| `BlockScanProofs` | `ScanTyped`, `AlwaysFindsBlockEnd`, `AlwaysFailsForReason`, `AlwaysStackBound` | page size, memory size, stack size, text |
| `ProcessProofs` | `ProcessTyped`, `ImageAlwaysExact`, `BreakAlwaysBehind`, `StackAlwaysReadsBack`, `AuxAlwaysTrue` | page size, address space, guest and interpreter with any number of segments, base, command line, heap request |

**Assumptions.** `CpuAssumption` and `EngineAssumption` ask that a word decodes to
the address it encodes and is no instruction, that `exit` has a hook, that hooks
are not empty, and that the constants have their types. `LoaderAssumption` asks that
both files are as a linker writes them (`IsImage`: see *Abstractions*), that an
interpreter has none itself and that bases are aligned; `ProcessAssumption` that
there is a first argument and that no pointer in it is NULL. The other assumptions
are types and sizes, and, of `BrkAssumption`, that 2^32 is a multiple of the page size.
`PowersOfTwo`, in `BranchEval` and in `BlockScan`, states facts of arithmetic the
provers do not have, that one more bit doubles a power of two; TLC evaluates them
like every other assumption.

**Dispatch cycle.** `HooksComplete` and `Confined` are not inductive. The inductive
invariant `IInv` of `EngineProofs` adds, phase by phase:

- `Layout` - where the hooks are; `restore.jmp + R = base_bbl <= dump.jmp`;
- `Files` - how live and saved registers relate, in particular that `state.pc`
  is `curr_hook` while the engine runs, which is what makes relative branches
  right;
- `Whole` - the hooks are whole while the guest keeps to the contract;
- `Held` - what the engine has in hand is what is in memory: cells saved and not yet
  hidden, cells put back, and the branch that was read. It is what makes a copy that
  stands half-way invisible: the cell written next changes hands between `mem` and
  the saved bytes with the same contents;
- `Idle` - no cell is counted as copied between two copies;
- `Rerun` - a pending re-run points at a system call, so that the instruction the
  scan steps over is one;
- `Body` - no branch between the program counter (or, during the scan, the start of
  the block) and the dump hook (or how far the scan is).

The lemma `NextIInv` has one step per action. For the refinement, `QuietStutters`
and `CopyStutters` show that the engine's own steps, each cell of a copy among them,
leave `View` and `GuestRegs` alone, `EmulateSteps` and `GuestSteps` that the others
are steps of `NativeCpu`.

**Signals.** The same invariant, with what is known of the handler, is kept by the
handler's steps (`HandlerIInv`). `Whole` and `Held` speak of cells a handler may
write, so they are promised only while the contract holds, and every cell they speak
of is in `Patched` or `InHand`. `Rerun` and `Body` speak of code that a handler may
change within the contract; they are promised while `selfmod` is empty.

**System calls.** Every action of `Syscalls` is one of `Tls` or leaves its variables
alone, which gives `SyscallsImplementTls`; what is proved of `Tls` then holds of it.
`AlwaysSameCall` goes through the table of hooks row by row.

**Heap.** `HeapIntact` needs `Heap`: while nothing ragged has happened, the break is
on a page boundary and every page written lies below it, so that a mapping that
starts at the page of the break meets none of them.

**Copies.** The invariant of `MemCopyProofs` follows a copy from chunk to chunk:
`Shape` (a copy stands at its start, at the one page boundary it can meet, or at
its end), `Perms` (a page that is not private never becomes writable), `Owner`
(whose bytes are copied, and where to), `Contents` (what memory holds between and
during the copies), `Kept` (what `write_hook` takes for a whole read is one, or the
page cannot be written) and `Secured` (what is to be put back is writable). A hook
is at most a page long.

**Branches.** `Linked` says that the flags are those of the last comparison.
`FlagsMean` proves what the combinations of flags say about the two numbers, signed
and unsigned, and `TakenIffHolds` from it that `is_jmp_taken` decides each jump as
the numbers say. `OperandMatches` compares the evaluation of an operand with the
processor's, `PushedState` gives what a call does to the stack.

**Scan.** `Sweep` is a recursive function. `SetInduction` states induction for sets,
from the theorem that the naturals are well ordered; `SweepExists` builds the
function place by place from the end of memory, and `SweepUnfolds` and
`SweepGoesOn` follow. The invariant `OnPath` says that the search never leaves the
path of the sweep. For the bound on the stack, `Doubles` says that the offset has
doubled with every call in this page and `Leaves` that the next step leaves the
page or ends the search: a call that did not double its offset stopped at bytes
that do not decode or at an instruction that does not fit the buffer, and can
happen only once in a page. A read cut short by a page that refuses (`Counted`)
stops at the page boundary, so that the next call is in that page.

**Stubs.** `DumpAt` and `RestoreAt` give the instruction at each place of the two
stubs, which differ by processor class. The invariant says, for each of them and
each place in it, which registers are saved or loaded by then: `DumpRegs` and
`BackRegs` for the live registers, `DumpState` for the saved ones, `DumpStack` and
`BackStack` for what is on the engine's stack, of which `rsp` names the top. A
stub of fifty instructions is a handful of lemmas: one for the run of stores
(`DumpSaves`), one each for the vector registers of a class, one for the loads
(`RestoreLoads`), and one for the pushes and pops around the call.

**Image and heap.** The first part of the invariant, `Loaded`, has five conjuncts
about memory:

- `Based` - a file is mapped from its base on, an aligned address, where its first
  segment starts with byte 0 of the file;
- every segment ends within the address space;
- `Exact` - `ImageExact` for one segment, under the same exceptions;
- `Accounted` - a page that is mapped is in the extent of one of the two files (its
  segments with two pages more each) or in the heap. It is needed for the first
  segment: where its bss exceeds the mapping, `mprotect` succeeds only if somebody
  else's page is there, and then the files are not apart;
- `Behind` - every segment that a writable one follows ends at or below the page of
  the break, in every phase.

`Control` says which headers are done in which phase, and that the interpreter is
mapped while the guest's own header is no `PT_LOAD`. `MapFirstDoes` and
`MapNextDoes` reduce the two ways through `map_load` to one (`Step`): the segment is
exact, nothing further than two pages behind it changes, and the break is behind
it, unless the break is inside or the other file is near. That the pages in front
are safe is in `Placed`: a segment starts in a page behind the end of the one
before, so that the two pages of the mapping before it that are too many are the
ones the next mapping replaces. `HeapGrows` says that `hook_brk` maps pages of the
heap only, from the page of the break on. Two hypotheses of the properties,
`Followed` and that `BreakBehind` needs `Apart`, come from steps of this proof that
could not be made; TLC then found both cases once such files were among its
layouts.

**Stack.** The second part, `StackInv`, says with `Filled(n)` what the stack holds
after `n` calls of `add_auxvt`. Up to the fourteenth pair no word of a pair is 0,
which takes that bases, entry points and the number of headers are not 0
(`AllMapped`), so the first place with two zeroes is behind the last pair
(`FreePlace`). The value of `AT_SECURE` is 0: `AT_NULL` starts at that word, one
early, which changes nothing because all it writes is 0. `ReadsBack` reads the words
as the start-up code does.

TLC has checked this invariant, `Loaded` and `StackInv`, on the bounds of run
`process` before it was proved.

**Only model-checked:** the liveness properties `Recaptured` and `CopiesEnd`, for the
prover has no fairness. Every other property of a passing run has its theorem.

## Abstractions

- One cell is one instruction; lengths and straddling are in `BlockScan`, bytes
  and pages in `MemCopy`.
- `WriteOk` in `HookEngine` asks for the cell after the hook as well, which is
  `MemCopy!Removable`.
- Capstone and keystone decode and assemble correctly. The kernel and libc are
  what the calls in the code use of them.
- `Loader` takes what a linker writes (`IsImage`): addresses and offsets of a
  segment agree in the page, segments are not empty, come in order and share no
  page; the first one holds the program headers, and the entry point is a byte of
  an executable one. `base_address` may return any base of a given set.
- `Syscalls` follows arguments by the register they come from, not by value, and
  lets every call succeed or fail as `Tls` does; a child of `clone` with
  `CLONE_VM` is not followed.
- `Decode` reads one cell. `eval_target` reads sixteen bytes, and when they cross a
  page `mem_read` compares them again: a handler that stores between the two into
  the bytes behind the branch would end the process there, which is left out.
- `__eval_target` is one step after `Decode`: registers and stack are the engine's
  copy and the guest's own memory, and a handler has its own stack.
- `Tls` leaves out the first `set_fs_gs` of `do_syscall`, which repeats the one before
  the hook with the same result.
- `BranchEval` has the operand forms of near branches with 64-bit registers; far
  branches and 32-bit address registers are left out. `jo`, `jno`, `jp` and `jnp` have no
  meaning in terms of the numbers compared beyond overflow and parity, so for these
  four `GoesWhereCpuGoes` compares with the flag itself.
- `StackOverflow` of `Process` is a clean fault; in the process the words may run into a
  neighbouring mapping first. `Sbrk` does not know of the engine's own stubs at fixed
  addresses, which a heap that grew that far would replace.
- A signal handler has a stack of its own, is entered with fixed registers and
  is not interrupted itself; one that runs into a hook is not followed
  (`HandlerWild`). Which `$fs` it runs on is not in the model.
- The callback observes only, as the one of `main.c` does.
- `is_mapped` is constantly true, so `map_page` and `to_unmap` are dead code, and
  so are the instrumentation modes that are commented out.

## Not modelled

Left out for good:

- A second thread of the guest. `hook_clone` passes through, so parent and child
  run `_dispatcher` on the same `state`, hooks and engine stack without any
  exclusion; nothing in the code limits what they do to each other, and there is
  no property to check.
- The memory-map list, which is not called any more, and `kernel_list.h`
  (third-party).
- `end_analysis`, `search_pt_dyn`, `search_base_addr` and the section header
  functions of `elf_parsing.c`, and `map_auxvt`, `auxvt`: not called.
- Printing, and the debugger helper `plugin.py`.
- Of the registers, x87 state and the direction flag (which the engine's compiled
  code inherits from the guest).
