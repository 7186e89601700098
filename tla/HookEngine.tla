----------------------------- MODULE HookEngine -----------------------------
(***************************************************************************)
(* The dispatch cycle of dryadalis (src/src/engine.c with the emulation of *)
(* src/src/analysis.c).  The guest runs a basic block natively up to a     *)
(* dump hook written over its control-flow instruction; the hook saves the *)
(* registers and enters _dispatcher, which takes both hooks out of memory, *)
(* emulates the instruction, patches the next block and resumes the guest  *)
(* through a restore hook written just below that block.                   *)
(*                                                                         *)
(* cpu is the live register file, state the saved one (state.pc is the     *)
(* code's state->rip).  A signal handler may come between any two steps    *)
(* (module Signals), so the scan goes instruction by instruction and hook  *)
(* bytes are saved, written and put back cell by cell.  The pages, chunks  *)
(* and protections of these copies are module MemCopy, the buffers of the  *)
(* scan BlockScan, the switch of $fs and $gs Tls.                          *)
(***************************************************************************)
EXTENDS Cpu

CONSTANTS
    D, R,                   \* hook lengths: dump->length, restore->length
    DumpCode, RestoreCode,  \* hook bytes: dump->code, restore->code
    Handled,                \* system call numbers get_syscall_hook knows
    PageSz,                 \* bytes read ahead by opcodes_cflow
    Errnos, MinusOne,       \* the kernel's error returns; libc's -1
    Junk,                   \* what host code leaves in rax
    Images, Boot            \* loaded programs, registers set by exec_binary

DumpIdx    == 0 .. (D - 1)
RestoreIdx == 0 .. (R - 1)

ASSUME EngineAssumption ==
    /\ D \in Nat \ {0} /\ R \in Nat \ {0} /\ PageSz \in Nat \ {0}
    /\ DumpCode \in [DumpIdx -> Cell]
    /\ RestoreCode \in [RestoreIdx -> Cell]
    /\ Handled \subseteq Cell /\ ExitNr \in Handled
    /\ Errnos \subseteq Cell /\ MinusOne \in Cell
    /\ Junk \in Cell
    /\ Images \subseteq [Addr -> Cell]
    /\ Boot \in Regs

VARIABLES
    mem,            \* the address space shared by guest and engine
    cpu,            \* live registers
    state,          \* dbi_handler->state, the saved guest registers
    dump,           \* dbi_handler->dump: where it is written, what it hides
    restore,        \* dbi_handler->restore
    curr_hook,      \* *dbi_handler->curr_hook
    curr_syscall,   \* the global of analysis.c
    base_bbl,       \* the block being prepared or run
    scan,           \* the address opcodes_cflow decodes next
    copied,         \* bytes of the hook the memmove under way has copied
    insn,           \* the instruction eval_target has read
    started,        \* exec_binary has been reached
    phase,          \* where control is
    nsys,           \* parity of the number of system calls run by the kernel
    touched,        \* the guest accessed a cell while it was patched
    selfmod,        \* the cells of its block the guest has written since the scan
    lost            \* a hooked system call failed and its error was lost

vars == <<mem, cpu, state, dump, restore, curr_hook, curr_syscall, base_bbl,
          scan, copied, insn, started, phase, nsys, touched, selfmod, lost>>

Phases == {"guest",     \* guest code, native
           "dispatch",  \* _dispatcher entered: restore_bytes(restore)
           "undump",    \* restore_bytes(dump)
           "decode",    \* both taken out: _get_bbl_base, eval_target
           "emulate",   \* the branch has been read: __eval_target
           "instrument",    \* instrument_request: opcodes_cflow
           "save_dump", "write_dump",           \* write_hook(dump)
           "save_restore", "write_restore",     \* write_hook(restore)
           "launch",    \* first block ready, exec_binary
           "continue",  \* later block ready, continue_exec
           "entry",     \* live registers loaded, at the restore hook
           "exited",    \* the guest's exit reached its hook
           "exit_native",   \* the guest's exit reached the kernel directly
           "killed",    \* a fault of the guest, or an assertion of a copy
           "fatal_emul", "fatal_bbl", "fatal_restore"}  \* fatal_dump

Over == {"exited", "exit_native", "killed", "fatal_emul", "fatal_bbl", "fatal_restore"}

\* The cells of a hook written at a, by their index in the hook.
At(a, idx)  == {x \in Addr : x - a \in idx}
DumpWin     == At(dump.jmp, DumpIdx)
RestoreWin  == At(restore.jmp, RestoreIdx)

Holds(m, a, idx, code) == \A x \in At(a, idx) : m[x] = code[x - a]

\* write_hook succeeds: mem_read needs the bytes, and mem_write's last round
\* needs the page of the byte after them.
WriteOk(a, len) == a \in Addr /\ a + len \in Addr

Init ==
    /\ mem \in Images
    /\ cpu = Boot
    /\ state = Boot
    /\ dump = [jmp |-> 0, orig |-> DumpCode]
    /\ restore = [jmp |-> 0, orig |-> RestoreCode]
    /\ curr_hook = 0
    /\ curr_syscall = FALSE
    /\ base_bbl = Boot.pc
    /\ scan = Boot.pc
    /\ copied = {}
    /\ insn = Junk
    /\ started = FALSE
    /\ phase = "instrument"
    /\ nsys = 0
    /\ touched = FALSE
    /\ selfmod = {}
    /\ lost = FALSE

----------------------------------------------------------------------------
(* The guest on the processor.                                             *)

\* One native instruction, outside the hooks.  It is usually straight-line
\* code; control flow runs here when the block was changed after its scan,
\* and a system call without a hook runs here as the first of its block.
GuestStep ==
    /\ phase = "guest"
    /\ cpu.pc \notin DumpWin \cup RestoreWin
    /\ ~Faults(mem, cpu)
    /\ IF Exits(mem, cpu)
       THEN phase' = "exit_native" /\ UNCHANGED <<mem, cpu, nsys, touched, selfmod>>
       ELSE /\ cpu' = NextRegs(mem, cpu)
            /\ mem' = NextMem(mem, cpu)
            /\ nsys' = IF Op(mem, cpu) = "sys" THEN 1 - nsys ELSE nsys
            /\ touched' = (touched \/ (Reads(mem, cpu) \cup Writes(mem, cpu))
                                        \cap (DumpWin \cup RestoreWin) # {})
            /\ selfmod' = selfmod \cup (Writes(mem, cpu)
                                            \cap (base_bbl .. (dump.jmp - 1)))
            /\ UNCHANGED phase
    /\ UNCHANGED <<state, dump, restore, curr_hook, curr_syscall, base_bbl, scan,
                   copied, insn, started, lost>>

\* A fault kills the process: no signal handler is installed.
GuestFault ==
    /\ phase = "guest"
    /\ cpu.pc \notin DumpWin \cup RestoreWin
    /\ Faults(mem, cpu)
    /\ phase' = "killed"
    /\ UNCHANGED <<mem, cpu, state, dump, restore, curr_hook, curr_syscall,
                   base_bbl, scan, copied, insn, started, nsys, touched, selfmod,
                   lost>>

\* The guest executes hook bytes other than an intact dump hook from its
\* start; what happens then is not modelled further.
GuestWild ==
    /\ phase = "guest"
    /\ cpu.pc \in DumpWin \cup RestoreWin
    /\ ~(cpu.pc = dump.jmp /\ Holds(mem, dump.jmp, DumpIdx, DumpCode))
    /\ phase' = "killed"
    /\ touched' = TRUE
    /\ UNCHANGED <<mem, cpu, state, dump, restore, curr_hook, curr_syscall,
                   base_bbl, scan, copied, insn, started, nsys, selfmod, lost>>

\* dump_hook and the dump stub of craft_hook: every register is saved, rip is
\* taken from *curr_hook, and control is in _dispatcher on the host stack.
DumpHook ==
    /\ phase = "guest"
    /\ cpu.pc = dump.jmp
    /\ Holds(mem, dump.jmp, DumpIdx, DumpCode)
    /\ state' = [cpu EXCEPT !.pc = curr_hook]
    /\ phase' = "dispatch"
    /\ UNCHANGED <<mem, cpu, dump, restore, curr_hook, curr_syscall, base_bbl,
                   scan, copied, insn, started, nsys, touched, selfmod, lost>>

\* restore_hook: reload rax and fall through to the block.
RestoreHook ==
    /\ phase = "entry"
    /\ Holds(mem, cpu.pc, RestoreIdx, RestoreCode)
    /\ cpu' = [cpu EXCEPT !.rax = state.rax, !.pc = cpu.pc + R]
    /\ phase' = "guest"
    /\ UNCHANGED <<mem, state, dump, restore, curr_hook, curr_syscall, base_bbl,
                   scan, copied, insn, started, nsys, touched, selfmod, lost>>

----------------------------------------------------------------------------
(* _dispatcher.                                                            *)

\* mem_write: the memmove, a cell at a time and in any order, then the assertion
\* that compares what was written.
MemWrite(a, idx, code, next) ==
    \/ /\ \E i \in idx \ copied :
             /\ mem' = [mem EXCEPT ![a + i] = code[i]]
             /\ copied' = copied \cup {i}
       /\ UNCHANGED phase
    \/ /\ copied = idx
       /\ copied' = {}
       /\ phase' = IF Holds(mem, a, idx, code) THEN next ELSE "killed"
       /\ UNCHANGED mem

\* The callback only observes the guest; restore_bytes(restore) follows.
RestoreRestore ==
    /\ phase = "dispatch"
    /\ MemWrite(restore.jmp, IF restore.jmp = 0 THEN {} ELSE RestoreIdx, restore.orig,
                "undump")
    /\ UNCHANGED <<cpu, state, dump, restore, curr_hook, curr_syscall, base_bbl,
                   scan, insn, started, nsys, touched, selfmod, lost>>

RestoreDump ==
    /\ phase = "undump"
    /\ MemWrite(dump.jmp, DumpIdx, dump.orig, "decode")
    /\ UNCHANGED <<cpu, state, dump, restore, curr_hook, curr_syscall, base_bbl,
                   scan, insn, started, nsys, touched, selfmod, lost>>

\* Mutant: the branch is taken from the bytes that were saved.
DecodeSaved ==
    /\ phase = "decode"
    /\ insn' = dump.orig[0]
    /\ phase' = "emulate"
    /\ UNCHANGED <<mem, cpu, state, dump, restore, curr_hook, curr_syscall, base_bbl,
                   scan, copied, started, nsys, touched, selfmod, lost>>

\* eval_target: the branch is read from memory at curr_hook.
Decode ==
    /\ phase = "decode"
    /\ insn' = mem[curr_hook]
    /\ phase' = "emulate"
    /\ UNCHANGED <<mem, cpu, state, dump, restore, curr_hook, curr_syscall, base_bbl,
                   scan, copied, started, nsys, touched, selfmod, lost>>

\* __eval_target.  An immediate is relative to the instruction; it is added to
\* state->rip.
Target == (Arg[insn] - curr_hook) + state.pc

\* instrument_request(t) starts with opcodes_cflow(t).
GoTo(t) ==
    /\ base_bbl' = t /\ scan' = t /\ selfmod' = {}
    /\ phase' = "instrument"

IsTaken == Kind[insn] # "jcc" \/ state.zf

EmulateJmp ==
    /\ phase = "emulate"
    /\ Kind[insn] \in {"jmp", "jcc", "jmpr"}
    /\ GoTo(IF ~IsTaken THEN curr_hook + 1
            ELSE IF Kind[insn] = "jmpr" THEN Arg[state.rax]
            ELSE Target)
    /\ UNCHANGED <<mem, cpu, state, dump, restore, curr_hook, curr_syscall,
                   copied, insn, started, nsys, touched, lost>>

\* Mutant: the return address is the call itself.
EmulateCallAgain ==
    /\ phase = "emulate"
    /\ Kind[insn] = "call"
    /\ state.rsp - 1 \in Addr
    /\ state' = [state EXCEPT !.rsp = state.rsp - 1]
    /\ mem' = [mem EXCEPT ![state.rsp - 1] = Word[state.pc]]
    /\ GoTo(Target)
    /\ UNCHANGED <<cpu, dump, restore, curr_hook, curr_syscall, copied, insn,
                   started, nsys, touched, lost>>

EmulateCall ==
    /\ phase = "emulate"
    /\ Kind[insn] = "call"
    /\ state.rsp - 1 \in Addr
    /\ state' = [state EXCEPT !.rsp = state.rsp - 1]
    /\ mem' = [mem EXCEPT ![state.rsp - 1] = Word[state.pc + 1]]
    /\ GoTo(Target)
    /\ UNCHANGED <<cpu, dump, restore, curr_hook, curr_syscall, copied, insn,
                   started, nsys, touched, lost>>

\* Mutant: rsp is advanced like a pointer, by eight words instead of eight bytes.
EmulateRetWords ==
    /\ phase = "emulate"
    /\ Kind[insn] = "ret"
    /\ state.rsp \in Addr
    /\ state' = [state EXCEPT !.rsp = state.rsp + 8]
    /\ GoTo(Arg[mem[state.rsp]])
    /\ UNCHANGED <<mem, cpu, dump, restore, curr_hook, curr_syscall, copied, insn,
                   started, nsys, touched, lost>>

EmulateRet ==
    /\ phase = "emulate"
    /\ Kind[insn] = "ret"
    /\ state.rsp \in Addr
    /\ state' = [state EXCEPT !.rsp = state.rsp + 1]
    /\ GoTo(Arg[mem[state.rsp]])
    /\ UNCHANGED <<mem, cpu, dump, restore, curr_hook, curr_syscall, copied, insn,
                   started, nsys, touched, lost>>

\* do_syscall: a hook of syscall_hook.c makes the call for the guest, through
\* libc's syscall(), which turns every error into -1.
LibcRet(nr) == IF SysRet[nr] \in Errnos THEN MinusOne ELSE SysRet[nr]

SyscallHooked ==
    /\ phase = "emulate"
    /\ Kind[insn] = "sys"
    /\ state.rax \in Handled \ {ExitNr}
    /\ state' = [state EXCEPT !.rax = LibcRet(state.rax)]
    /\ lost' = (lost \/ SysRet[state.rax] \in Errnos)
    /\ mem' = IF Arg[insn] \in Addr THEN [mem EXCEPT ![Arg[insn]] = KData] ELSE mem
    /\ nsys' = 1 - nsys
    /\ GoTo(curr_hook + 1)
    /\ UNCHANGED <<cpu, dump, restore, curr_hook, curr_syscall, copied, insn,
                   started, touched>>

\* No hook: the next block starts at the instruction itself, which the scan
\* must step over so that the guest runs it natively.
SyscallUnhandled ==
    /\ phase = "emulate"
    /\ Kind[insn] = "sys"
    /\ state.rax \notin Handled
    /\ curr_syscall' = TRUE
    /\ GoTo(curr_hook)
    /\ UNCHANGED <<mem, cpu, state, dump, restore, curr_hook, copied, insn,
                   started, nsys, touched, lost>>

SyscallExit ==
    /\ phase = "emulate"
    /\ Kind[insn] = "sys"
    /\ state.rax = ExitNr
    /\ phase' = "exited"
    /\ UNCHANGED <<mem, cpu, state, dump, restore, curr_hook, curr_syscall,
                   base_bbl, scan, copied, insn, started, nsys, touched, selfmod,
                   lost>>

\* "unhandled instruction", or a push or pop outside the mapped stack.
EmulateFail ==
    /\ phase = "emulate"
    /\ \/ Kind[insn] \notin Cflow \ {"priv"}
       \/ Kind[insn] = "call" /\ state.rsp - 1 \notin Addr
       \/ Kind[insn] = "ret" /\ state.rsp \notin Addr
    /\ phase' = "fatal_emul"
    /\ UNCHANGED <<mem, cpu, state, dump, restore, curr_hook, curr_syscall,
                   base_bbl, scan, copied, insn, started, nsys, touched, selfmod,
                   lost>>

----------------------------------------------------------------------------
(* instrument_request.                                                     *)

\* opcodes_cflow decodes a page it has copied: where a handler has stored into that
\* meanwhile, what it decodes may be anything.
Sees(kinds) == scan \in selfmod \/ Kind[mem[scan]] \in kinds

\* Mutant: the first instruction is always stepped over.
StepsOverFirst == Sees(Straight) \/ (scan = base_bbl /\ Sees(Cflow))

\* opcodes_cflow steps over straight-line code, and over the first instruction
\* when that is a system call to be re-run.
StepsOver == Sees(Straight) \/ (curr_syscall /\ Sees(Cflow))

\* The first chunk is read at base_bbl, later ones anywhere up to the cursor.
Decodable ==
    /\ phase = "instrument" /\ scan \in Addr
    /\ base_bbl + PageSz - 1 \in Addr

ScanStep ==
    /\ Decodable
    /\ StepsOver
    /\ scan' = scan + 1
    /\ curr_syscall' = FALSE
    /\ UNCHANGED <<mem, cpu, state, dump, restore, curr_hook, base_bbl, copied,
                   insn, started, phase, nsys, touched, selfmod, lost>>

\* _instrument_bbl: the end of the block is found.
ScanEnd ==
    /\ Decodable
    /\ ~curr_syscall /\ Sees(Cflow)
    /\ dump' = [dump EXCEPT !.jmp = scan]
    /\ phase' = "save_dump"
    /\ UNCHANGED <<mem, cpu, state, restore, curr_hook, curr_syscall, base_bbl,
                   scan, copied, insn, started, nsys, touched, selfmod, lost>>

\* Mutant: a partial read is taken for success.
SaveDumpPartial ==
    /\ phase = "save_dump"
    /\ WriteOk(dump.jmp, D)
    /\ \/ \E i \in DumpIdx \ copied :
             /\ dump' = [dump EXCEPT !.orig = [@ EXCEPT ![i] = mem[dump.jmp + i]]]
             /\ copied' = copied \cup {i}
             /\ UNCHANGED phase
       \/ copied # {} /\ copied' = {} /\ phase' = "write_dump" /\ UNCHANGED dump
    /\ UNCHANGED <<mem, cpu, state, restore, curr_hook, curr_syscall, base_bbl,
                   scan, insn, started, nsys, touched, selfmod, lost>>

\* write_hook(dump): mem_read saves the bytes, mem_write hides them.  mem_read
\* compares what it has read, but only when the hook crosses a page.
SaveDump ==
    /\ phase = "save_dump"
    /\ WriteOk(dump.jmp, D)
    /\ \/ \E i \in DumpIdx \ copied :
             /\ dump' = [dump EXCEPT !.orig = [@ EXCEPT ![i] = mem[dump.jmp + i]]]
             /\ copied' = copied \cup {i}
             /\ UNCHANGED phase
       \/ /\ copied = DumpIdx
          /\ copied' = {}
          /\ \/ phase' = "write_dump"
             \/ ~Holds(mem, dump.jmp, DumpIdx, dump.orig) /\ phase' = "killed"
          /\ UNCHANGED dump
    /\ UNCHANGED <<mem, cpu, state, restore, curr_hook, curr_syscall, base_bbl,
                   scan, insn, started, nsys, touched, selfmod, lost>>

\* Mutant: the restore hook reaches one cell into the block.
RestoreAtBase == base_bbl - R + 1

\* The restore hook goes just below the block.
RestoreAt == base_bbl - R

WriteDump ==
    /\ phase = "write_dump"
    /\ MemWrite(dump.jmp, DumpIdx, DumpCode, "save_restore")
    /\ curr_hook' = IF phase' = "save_restore" THEN dump.jmp ELSE curr_hook
    /\ restore' = IF phase' = "save_restore" THEN [restore EXCEPT !.jmp = RestoreAt]
                  ELSE restore
    /\ UNCHANGED <<cpu, state, dump, curr_syscall, base_bbl, scan, insn, started,
                   nsys, touched, selfmod, lost>>

\* Nothing found, or a page-sized read or the hook leaves mapped memory.  The
\* read of the last chunk starts between base_bbl and the block's end, so
\* within PageSz of the top of memory either outcome is allowed.  And mem_read
\* compares what it has read: a handler's store into it can end the process.
InstrumentFail ==
    /\ \/ /\ phase = "instrument"
          /\ ~(/\ scan \in Addr /\ scan + PageSz - 1 \in Addr
               /\ Kind[mem[scan]] \in Straight \cup Cflow /\ selfmod = {})
       \/ phase = "save_dump" /\ ~WriteOk(dump.jmp, D)
    /\ phase' = "fatal_bbl"
    /\ UNCHANGED <<mem, cpu, state, dump, restore, curr_hook, curr_syscall,
                   base_bbl, scan, copied, insn, started, nsys, touched, selfmod,
                   lost>>

\* write_hook(restore)
SaveRestore ==
    /\ phase = "save_restore"
    /\ WriteOk(restore.jmp, R)
    /\ \/ \E i \in RestoreIdx \ copied :
             /\ restore' = [restore EXCEPT !.orig = [@ EXCEPT ![i] = mem[restore.jmp + i]]]
             /\ copied' = copied \cup {i}
             /\ UNCHANGED phase
       \/ /\ copied = RestoreIdx
          /\ copied' = {}
          /\ \/ phase' = "write_restore"
             \/ ~Holds(mem, restore.jmp, RestoreIdx, restore.orig) /\ phase' = "killed"
          /\ UNCHANGED restore
    /\ UNCHANGED <<mem, cpu, state, dump, curr_hook, curr_syscall, base_bbl, scan,
                   insn, started, nsys, touched, selfmod, lost>>

\* The guest will resume at the restore hook; its first block it enters directly.
WriteRestore ==
    /\ phase = "write_restore"
    /\ MemWrite(restore.jmp, RestoreIdx, RestoreCode,
                IF started THEN "continue" ELSE "launch")
    /\ state' = CASE phase' = "continue" -> [state EXCEPT !.pc = base_bbl - R]
                  [] phase' = "launch"   -> [state EXCEPT !.pc = base_bbl]
                  [] OTHER               -> state
    /\ UNCHANGED <<cpu, dump, restore, curr_hook, curr_syscall, base_bbl, scan,
                   insn, started, nsys, touched, selfmod, lost>>

WriteRestoreFail ==
    /\ phase = "save_restore"
    /\ ~WriteOk(restore.jmp, R)
    /\ phase' = "fatal_restore"
    /\ UNCHANGED <<mem, cpu, state, dump, restore, curr_hook, curr_syscall,
                   base_bbl, scan, copied, insn, started, nsys, touched, selfmod,
                   lost>>

\* exec_binary enters the first block directly.
Launch ==
    /\ phase = "launch"
    /\ cpu' = state
    /\ started' = TRUE
    /\ phase' = "guest"
    /\ UNCHANGED <<mem, state, dump, restore, curr_hook, curr_syscall, base_bbl,
                   scan, copied, insn, nsys, touched, selfmod, lost>>

\* continue_exec and the restore stub: everything but rax is reloaded.
Continue ==
    /\ phase = "continue"
    /\ cpu' = [state EXCEPT !.rax = Junk]
    /\ phase' = "entry"
    /\ UNCHANGED <<mem, state, dump, restore, curr_hook, curr_syscall, base_bbl,
                   scan, copied, insn, started, nsys, touched, selfmod, lost>>

Finished == phase \in Over /\ UNCHANGED vars

Emulate == \/ EmulateJmp \/ EmulateCall \/ EmulateRet
           \/ SyscallHooked \/ SyscallUnhandled \/ SyscallExit \/ EmulateFail

Next == \/ GuestStep \/ GuestFault \/ GuestWild \/ DumpHook \/ RestoreHook
        \/ RestoreRestore \/ RestoreDump \/ Decode \/ Emulate
        \/ ScanStep \/ ScanEnd \/ SaveDump \/ WriteDump \/ InstrumentFail
        \/ SaveRestore \/ WriteRestore \/ WriteRestoreFail
        \/ Launch \/ Continue \/ Finished

Spec == Init /\ [][Next]_vars

\* One thread: whoever has control takes its next step, and a system call returns.
FairSpec == Spec /\ WF_vars(Next)

----------------------------------------------------------------------------
(* What must hold.                                                         *)

\* The bytes of the hooks that are in memory, also half-way through a copy.
DumpIn ==
    {i \in DumpIdx :
        \/ phase \in {"save_restore", "write_restore", "launch", "continue", "entry",
                      "guest", "dispatch", "exit_native", "killed", "fatal_restore"}
        \/ phase = "write_dump" /\ i \in copied
        \/ phase = "undump" /\ i \notin copied}

RestoreIn ==
    {i \in RestoreIdx :
        \/ phase \in {"launch", "continue", "entry", "guest", "exit_native", "killed"}
        \/ phase = "write_restore" /\ i \in copied
        \/ phase = "dispatch" /\ i \notin copied}

\* The guest's memory as it would be without the engine.
View ==
    LET d == DumpIn
        r == RestoreIn
    IN  [x \in Addr |-> IF x - dump.jmp \in d THEN dump.orig[x - dump.jmp]
                        ELSE IF x - restore.jmp \in r THEN restore.orig[x - restore.jmp]
                        ELSE mem[x]]

\* The guest's registers as they would be without the engine.
GuestRegs ==
    IF phase \in {"guest", "exit_native", "killed"} THEN cpu
    ELSE IF phase \in {"dispatch", "undump", "decode", "emulate", "exited",
                       "fatal_emul"} THEN state
    ELSE [state EXCEPT !.pc = base_bbl]

Halted == phase \in {"exited", "exit_native"}

\* What the engine does not promise to hide: the patched cells, and the error
\* code of a system call made by a hook.
OffContract == touched \/ lost

Native == INSTANCE NativeCpu WITH
    mem <- View, regs <- GuestRegs, halted <- Halted, broken <- OffContract

\* Instrumentation is transparent: hooking, emulating, re-running system calls
\* and resuming through the stubs is, to a guest that leaves the patched cells
\* alone and whose hooked system calls succeed, the same as running on the
\* processor (_dispatcher, __eval_target).
Transparent == Native!Spec

\* Type correctness.
TypeOK ==
    /\ mem \in [Addr -> Cell]
    /\ cpu \in Regs /\ state \in Regs
    /\ dump \in [jmp : {0} \cup Addr, orig : [DumpIdx -> Cell]]
    /\ restore \in [jmp : Int, orig : [RestoreIdx -> Cell]]
    /\ curr_hook \in {0} \cup Addr
    /\ curr_syscall \in BOOLEAN
    /\ base_bbl \in Pc /\ scan \in Pc
    /\ copied \subseteq DumpIdx \cup RestoreIdx
    /\ insn \in Cell
    /\ started \in BOOLEAN
    /\ phase \in Phases
    /\ nsys \in {0, 1}
    /\ touched \in BOOLEAN
    /\ selfmod \in SUBSET Addr
    /\ lost \in BOOLEAN

\* Whenever guest code can run, both hooks are complete in memory, they do not
\* overlap the block or each other, and curr_hook, dump->jmp and the place
\* where the guest resumes agree (write_hook, instrument_request).
HooksComplete ==
    phase \in {"guest", "entry"} /\ ~touched =>
        /\ Holds(mem, dump.jmp, DumpIdx, DumpCode)
        /\ Holds(mem, restore.jmp, RestoreIdx, RestoreCode)
        /\ restore.jmp \in Addr /\ dump.jmp + D \in Addr
        /\ restore.jmp + R = base_bbl /\ base_bbl <= dump.jmp
        /\ curr_hook = dump.jmp
        /\ phase = "entry" => cpu.pc = restore.jmp

\* Control stays inside the scanned block: unless the guest changed the block
\* under its feet, no branch is left for the processor between the program
\* counter and the dump hook, except a system call re-run at the block's
\* first cell (opcodes_cflow with curr_syscall).
Confined ==
    phase = "guest" /\ ~touched /\ selfmod = {} =>
        /\ cpu.pc \in base_bbl .. dump.jmp
        /\ \A x \in cpu.pc .. (dump.jmp - 1) :
               Kind[mem[x]] \in Straight \/ (x = base_bbl /\ Kind[mem[x]] = "sys")

\* The engine always gets control back: every stretch of native execution ends
\* in the emulation of a branch or in the end of the process.
Recaptured ==
    phase = "guest" /\ selfmod = {}
        ~> phase \in {"emulate"} \cup Over \/ touched \/ selfmod # {}

\* src/src/syscall_hook.c:34, do_syscall "updates state->rax with the syscall's
\* return value": the guest gets what the kernel returned.
RaxIsReturn == [][SyscallHooked => state'.rax = SysRet[state.rax]]_vars

=============================================================================
