---------------------------- MODULE EngineProofs ----------------------------
(***************************************************************************)
(* The dispatch cycle, proved for every program: type correctness and the  *)
(* safety invariants of HookEngine, that HookEngine implements NativeCpu,  *)
(* and the same with signal handlers, for every handler and every point of *)
(* interruption (Signals, NativeSig).                                      *)
(***************************************************************************)
EXTENDS Signals, TLAPS

HostPhases == {"dispatch", "undump", "decode", "emulate"}

\* Where the hooks are and how they lie around the block, in every phase that
\* still depends on it.
Layout ==
    /\ phase = "instrument" => base_bbl <= scan
    /\ phase \notin {"instrument", "fatal_bbl"} =>
          dump.jmp \in Addr /\ base_bbl \in Addr /\ base_bbl <= dump.jmp
    /\ phase \notin {"instrument", "fatal_bbl", "save_dump"} => dump.jmp + D \in Addr
    /\ phase \notin {"instrument", "fatal_bbl", "save_dump", "write_dump", "killed"} =>
          curr_hook = dump.jmp /\ restore.jmp + R = base_bbl
    /\ phase \notin {"instrument", "fatal_bbl", "save_dump", "write_dump", "killed",
                     "save_restore", "fatal_restore"} => restore.jmp \in Addr

\* Between two copies nothing is counted as copied.
Idle ==
    phase \in {"guest", "decode", "emulate", "instrument", "launch", "continue", "entry"}
        => copied = {}

\* The two register files.
Files ==
    /\ phase \in HostPhases => state.pc = curr_hook
    /\ phase = "launch" => state.pc = base_bbl
    /\ phase = "continue" => state.pc = restore.jmp
    /\ phase = "entry" => cpu = [pc |-> restore.jmp, rax |-> Junk,
                                 zf |-> state.zf, rsp |-> state.rsp]

\* While the guest has kept to the contract every patched cell holds its byte of
\* the hook.
Whole ==
    ~touched => /\ Holds(mem, dump.jmp, DumpIn, DumpCode)
                /\ Holds(mem, restore.jmp, RestoreIn, RestoreCode)

\* And what the engine has in hand is what is in memory.
Held ==
    ~touched => /\ Holds(mem, dump.jmp, DumpHeld, dump.orig)
                /\ Holds(mem, restore.jmp, RestoreHeld, restore.orig)
                /\ phase = "emulate" => insn = mem[curr_hook]

\* A pending re-run points at its system call.
Rerun ==
    curr_syscall =>
        /\ phase \in {"instrument", "fatal_bbl"}
        /\ scan = base_bbl /\ base_bbl \in Addr
        /\ phase = "instrument" /\ ~touched /\ selfmod = {} => Kind[mem[base_bbl]] = "sys"

\* The block under preparation or under way has no branch before its hook.
Scanned(from, to) ==
    \A x \in from .. (to - 1) :
        Kind[mem[x]] \in Straight \/ (x = base_bbl /\ Kind[mem[x]] = "sys")

Prepared == {"save_dump", "write_dump", "save_restore", "write_restore", "launch",
             "continue", "entry"}

Body ==
    ~touched /\ selfmod = {} =>
        /\ phase = "instrument" => Scanned(base_bbl, scan)
        /\ phase \in Prepared => Scanned(base_bbl, dump.jmp)
        /\ phase = "guest" =>
              cpu.pc \in base_bbl .. dump.jmp /\ Scanned(cpu.pc, dump.jmp)

IInv == TypeOK /\ Layout /\ Idle /\ Files /\ Whole /\ Held /\ Rerun /\ Body

\* An instruction that does not fault leaves registers and memory well typed.
LEMMA CpuTypes ==
    ASSUME NEW m \in [Addr -> Cell], NEW r \in Regs, ~Faults(m, r)
    PROVE  NextRegs(m, r) \in Regs /\ NextMem(m, r) \in [Addr -> Cell]
  <1>1. NextMem(m, r) \in [Addr -> Cell]
    <2>1. r.pc \in Addr /\ r.pc + 1 \in Pc /\ r.rax \in Cell
      BY CpuAssumption DEF Faults, Regs, Pc, Addr
    <2>2. Word[r.pc + 1] \in Cell /\ KData \in Cell
      BY <2>1, CpuAssumption
    <2>3. Stored(m, r) \in Cell
      BY <2>1, <2>2, Zenon DEF Stored
    <2> QED BY <2>3, Zenon DEF NextMem
  <1>2. NextPc(m, r) \in Pc
    BY CpuAssumption DEF NextPc, Jumps, Faults, Op, Operand, Regs, Pc, Addr
  <1>3. NextRax(m, r) \in Cell
    BY CpuAssumption DEF NextRax, Faults, Op, Operand, Regs, Pc, Addr
  <1>4. NextZf(m, r) \in BOOLEAN
    BY Zenon DEF NextZf, Regs
  <1>5. NextRsp(m, r) \in Pc
    BY CpuAssumption DEF NextRsp, Faults, Op, Operand, Regs, Pc, Addr
  <1> QED BY <1>1, <1>2, <1>3, <1>4, <1>5 DEF NextRegs, Regs

\* Updating one register keeps the register file well typed.
LEMMA RegsUpdate ==
    ASSUME NEW r \in Regs, NEW p \in Pc
    PROVE  /\ [r EXCEPT !.pc = p] \in Regs
           /\ [r EXCEPT !.rsp = p] \in Regs
           /\ \A c \in Cell : [r EXCEPT !.rax = c, !.pc = p] \in Regs
  BY DEF Regs

\* A cell of memory written by memmove: that cell changes and no other.
LEMMA CellWritten ==
    ASSUME NEW m \in [Addr -> Cell], NEW a \in Int, NEW i \in Int, NEW c \in Cell,
           a + i \in Addr
    PROVE  /\ [m EXCEPT ![a + i] = c] \in [Addr -> Cell]
           /\ \A x \in Addr : [m EXCEPT ![a + i] = c][x] = IF x - a = i THEN c ELSE m[x]
  BY CpuAssumption DEF Addr

\* The types the proofs about hooks start from.
LEMMA HookTypes ==
    ASSUME IInv
    PROVE  /\ mem \in [Addr -> Cell] /\ dump.jmp \in Int /\ restore.jmp \in Int
           /\ dump.orig \in [DumpIdx -> Cell] /\ restore.orig \in [RestoreIdx -> Cell]
           /\ DumpCode \in [DumpIdx -> Cell] /\ RestoreCode \in [RestoreIdx -> Cell]
           /\ base_bbl \in Int /\ scan \in Int /\ D \in Nat \ {0} /\ R \in Nat \ {0}
  BY CpuAssumption, EngineAssumption DEF IInv, TypeOK, Pc, Addr

\* The two windows do not overlap, and the restore hook lies below the block.
LEMMA Disjoint ==
    ASSUME IInv, restore.jmp + R = base_bbl, base_bbl <= dump.jmp
    PROVE  \A x \in Addr :
              /\ x - dump.jmp \in DumpIdx => x - restore.jmp \notin RestoreIdx
              /\ x - restore.jmp \in RestoreIdx => x < base_bbl
  <1>1. /\ dump.jmp \in Int /\ restore.jmp \in Int /\ base_bbl \in Int
        /\ D \in Nat /\ R \in Nat
    BY HookTypes
  <1> SUFFICES ASSUME NEW x \in Addr
               PROVE  /\ x - dump.jmp \in DumpIdx => x - restore.jmp \notin RestoreIdx
                      /\ x - restore.jmp \in RestoreIdx => x < base_bbl
    OBVIOUS
  <1>2. x \in Int
    BY CpuAssumption DEF Addr
  <1>3. x - dump.jmp \in DumpIdx => x >= dump.jmp
    BY <1>1, <1>2 DEF DumpIdx
  <1>4. x - restore.jmp \in RestoreIdx => x < restore.jmp + R
    BY <1>1, <1>2 DEF RestoreIdx
  <1> QED BY <1>1, <1>2, <1>3, <1>4

\* A step that leaves memory and hooks alone, and takes no further byte into the
\* hooks or in hand, keeps what is known of them.
LEMMA HooksFrame ==
    ASSUME Whole, Held, mem' = mem, dump' = dump, restore' = restore,
           touched' = touched, phase' # "emulate",
           DumpIn' \subseteq DumpIn, RestoreIn' \subseteq RestoreIn,
           DumpHeld' \subseteq DumpHeld, RestoreHeld' \subseteq RestoreHeld
    PROVE  Whole' /\ Held'
  BY DEF Whole, Held, Holds, At

\* The state built by instrument() satisfies the inductive invariant.
LEMMA InitIInv == Init => IInv
  <1> SUFFICES ASSUME Init PROVE IInv
    OBVIOUS
  <1>1. TypeOK
    <2>1. Boot.pc \in Pc
      BY EngineAssumption DEF Regs
    <2>2. dump \in [jmp : {0} \cup Addr, orig : [DumpIdx -> Cell]]
      BY EngineAssumption DEF Init
    <2>3. restore \in [jmp : Int, orig : [RestoreIdx -> Cell]]
      BY EngineAssumption DEF Init
    <2>4. curr_hook \in {0} \cup Addr /\ phase \in Phases /\ nsys \in {0, 1}
      BY DEF Init, Phases
    <2> QED BY <2>1, <2>2, <2>3, <2>4, EngineAssumption, Zenon DEF Init, TypeOK
  <1>2. Layout /\ Idle /\ Files /\ Rerun
    <2>1. Boot.pc \in Int
      BY CpuAssumption, EngineAssumption DEF Regs, Pc, Addr
    <2> QED BY <2>1 DEF Init, Layout, Idle, Files, Rerun, HostPhases
  <1>3. Whole /\ Held
    BY DEF Init, Whole, Held, Holds, At, DumpIn, RestoreIn, DumpHeld, RestoreHeld
  <1>4. Body
    <2>1. Boot.pc \in Int
      BY CpuAssumption, EngineAssumption DEF Regs, Pc, Addr
    <2> QED BY <2>1 DEF Init, Body, Scanned, Prepared
  <1> QED BY <1>1, <1>2, <1>3, <1>4 DEF IInv

----------------------------------------------------------------------------
(* The guest's steps, and the steps that only move registers.              *)

\* A fault, a run into hook bytes or the end of the process.
LEMMA EndsIInv ==
    ASSUME IInv, GuestFault \/ GuestWild \/ SyscallExit \/ EmulateFail
                   \/ InstrumentFail \/ WriteRestoreFail
    PROVE  IInv'
  <1>0. /\ UNCHANGED <<mem, cpu, state, dump, restore, curr_hook, curr_syscall,
                       base_bbl, scan, copied, insn, started, nsys, selfmod, lost>>
        /\ phase' \in {"killed", "exited", "fatal_emul", "fatal_bbl", "fatal_restore"}
        /\ touched' \in BOOLEAN
    BY Zenon DEF GuestFault, GuestWild, SyscallExit, EmulateFail, InstrumentFail,
      WriteRestoreFail, IInv, TypeOK
  <1>1. TypeOK'
    <2>1. phase' \in Phases
      BY <1>0 DEF Phases
    <2> QED BY <1>0, <2>1, Zenon DEF IInv, TypeOK
  <1>2. /\ phase' = "killed" => phase = "guest"
        /\ phase' \in {"exited", "fatal_emul"} => phase = "emulate"
        /\ phase' = "fatal_bbl" => phase \in {"instrument", "save_dump"}
        /\ phase' = "fatal_restore" => phase = "save_restore"
        /\ touched' \/ touched' = touched
    BY DEF GuestFault, GuestWild, SyscallExit, EmulateFail, InstrumentFail,
      WriteRestoreFail
  <1>3. Layout' /\ Idle' /\ Files' /\ Rerun' /\ Body'
    BY <1>0, <1>2 DEF IInv, Layout, Idle, Files, HostPhases, Rerun, Body, Prepared
  <1>4. Whole' /\ Held'
    <2>1. CASE touched'
      BY <2>1 DEF Whole, Held
    <2>2. CASE touched' = touched
      <3>1. DumpIn' \subseteq DumpIn /\ RestoreIn' \subseteq RestoreIn
        BY <1>0, <1>2 DEF DumpIn, RestoreIn
      <3>2. DumpHeld' = {} /\ RestoreHeld' = {}
        BY <1>0 DEF DumpHeld, RestoreHeld
      <3> QED BY <1>0, <2>2, <3>1, <3>2, HooksFrame DEF IInv
    <2> QED BY <1>2, <2>1, <2>2
  <1> QED BY <1>1, <1>3, <1>4 DEF IInv

\* Entering _dispatcher, starting and resuming the guest.
LEMMA SwitchIInv ==
    ASSUME IInv, DumpHook \/ RestoreHook \/ Launch \/ Continue
    PROVE  IInv'
  <1>0. /\ UNCHANGED <<mem, dump, restore, curr_hook, curr_syscall, base_bbl, scan,
                       copied, insn, nsys, touched, selfmod, lost>>
        /\ phase \in {"guest", "entry", "launch", "continue"}
        /\ phase' \in {"guest", "dispatch", "entry"}
        /\ phase' = "dispatch" => phase = "guest"
        /\ started' \in BOOLEAN
    BY Zenon DEF DumpHook, RestoreHook, Launch, Continue, IInv, TypeOK
  <1>1. Whole' /\ Held'
    <2>1. copied' = {}
      BY <1>0 DEF IInv, Idle
    <2>2. /\ DumpIn' \subseteq DumpIn /\ RestoreIn' \subseteq RestoreIn
          /\ DumpHeld' = {} /\ RestoreHeld' = {}
      BY <1>0, <2>1 DEF DumpIn, RestoreIn, DumpHeld, RestoreHeld
    <2> QED BY <1>0, <2>2, HooksFrame DEF IInv
  <1>2. Layout' /\ Idle' /\ Rerun'
    BY <1>0 DEF IInv, Layout, Idle, Rerun
  <1>3. phase' \in Phases
    BY <1>0 DEF Phases
  <1>4. CASE DumpHook
    <2>1. state' \in Regs /\ cpu' = cpu
      BY <1>4, CpuAssumption DEF DumpHook, IInv, TypeOK, Layout, Regs, Pc, Addr
    <2>2. TypeOK'
      BY <1>0, <1>3, <2>1, Zenon DEF IInv, TypeOK
    <2>3. Files' /\ Body'
      BY <1>4 DEF DumpHook, IInv, TypeOK, Regs, Files, HostPhases, Body, Prepared
    <2> QED BY <1>1, <1>2, <2>2, <2>3 DEF IInv
  <1>5. CASE RestoreHook
    <2>0. cpu.pc = restore.jmp /\ restore.jmp + R = base_bbl
      BY <1>5 DEF RestoreHook, IInv, Layout, Files
    <2>1. cpu' = [cpu EXCEPT !.rax = state.rax, !.pc = base_bbl]
      BY <1>5, <2>0, Zenon DEF RestoreHook
    <2>2. cpu' \in Regs /\ state' = state /\ cpu'.pc = base_bbl
      BY <1>5, <2>1 DEF RestoreHook, IInv, TypeOK, Regs
    <2>3. TypeOK'
      BY <1>0, <1>3, <2>2, Zenon DEF IInv, TypeOK
    <2>4. Files'
      BY <1>5 DEF RestoreHook, Files, HostPhases
    <2>5. Body'
      <3>1. base_bbl \in base_bbl .. dump.jmp
        BY <1>5, HookTypes DEF RestoreHook, IInv, Layout
      <3> QED BY <1>0, <1>5, <2>2, <3>1 DEF RestoreHook, IInv, Body, Scanned, Prepared
    <2> QED BY <1>1, <1>2, <2>3, <2>4, <2>5 DEF IInv
  <1>6. CASE Launch
    <2>1. cpu' = state /\ state' = state /\ cpu'.pc = base_bbl
      BY <1>6 DEF Launch, IInv, Files
    <2>2. TypeOK'
      BY <1>0, <1>3, <2>1, Zenon DEF IInv, TypeOK
    <2>3. Files'
      BY <1>6 DEF Launch, Files, HostPhases
    <2>4. Body'
      <3>1. base_bbl \in base_bbl .. dump.jmp
        BY <1>6, HookTypes DEF Launch, IInv, Layout
      <3> QED BY <1>0, <1>6, <2>1, <3>1 DEF Launch, IInv, Body, Scanned, Prepared
    <2> QED BY <1>1, <1>2, <2>2, <2>3, <2>4 DEF IInv
  <1>7. CASE Continue
    <2>1. /\ cpu' = [pc |-> state.pc, rax |-> Junk, zf |-> state.zf, rsp |-> state.rsp]
          /\ cpu' \in Regs /\ state' = state
      BY <1>7, EngineAssumption DEF Continue, IInv, TypeOK, Regs
    <2>2. TypeOK'
      BY <1>0, <1>3, <2>1, Zenon DEF IInv, TypeOK
    <2>3. Files'
      BY <1>7, <2>1 DEF Continue, IInv, Files, HostPhases
    <2>4. Body'
      BY <1>0, <1>7 DEF Continue, IInv, Body, Scanned, Prepared
    <2> QED BY <1>1, <1>2, <2>2, <2>3, <2>4 DEF IInv
  <1> QED BY <1>4, <1>5, <1>6, <1>7

\* One instruction of the guest.
LEMMA GuestIInv ==
    ASSUME IInv, GuestStep
    PROVE  IInv'
  <1>0. /\ phase = "guest"
        /\ UNCHANGED <<state, dump, restore, curr_hook, curr_syscall, base_bbl, scan,
                       copied, insn, started, lost>>
    BY DEF GuestStep
  <1>1. CASE Exits(mem, cpu)
    <2>0. phase' = "exit_native" /\ UNCHANGED <<mem, cpu, nsys, touched, selfmod>>
      BY <1>1 DEF GuestStep
    <2>1. TypeOK'
      <3>1. phase' \in Phases
        BY <2>0 DEF Phases
      <3> QED BY <1>0, <2>0, <3>1, Zenon DEF IInv, TypeOK
    <2>2. Layout' /\ Idle' /\ Files' /\ Rerun' /\ Body'
      BY <1>0, <2>0 DEF IInv, Layout, Idle, Files, HostPhases, Rerun, Body, Prepared
    <2>3. /\ DumpIn' \subseteq DumpIn /\ RestoreIn' \subseteq RestoreIn
          /\ DumpHeld' = {} /\ RestoreHeld' = {}
      BY <1>0, <2>0 DEF DumpIn, RestoreIn, DumpHeld, RestoreHeld
    <2>4. Whole' /\ Held'
      BY <1>0, <2>0, <2>3, HooksFrame DEF IInv
    <2> QED BY <2>1, <2>2, <2>4 DEF IInv
  <1>2. CASE ~Exits(mem, cpu)
    <2> DEFINE W == Writes(mem, cpu)
    <2>0. phase' = "guest" /\ mem' = NextMem(mem, cpu) /\ cpu' = NextRegs(mem, cpu)
      BY <1>0, <1>2 DEF GuestStep
    <2>1. TypeOK'
      <3>1. cpu' \in Regs /\ mem' \in [Addr -> Cell]
        BY <2>0, CpuTypes DEF GuestStep, IInv, TypeOK
      <3>2. nsys' \in {0, 1}
        BY <1>2 DEF GuestStep, IInv, TypeOK
      <3>3. touched' \in BOOLEAN
        BY <1>2, Zenon DEF GuestStep
      <3>5. selfmod' \in SUBSET Addr
        BY <1>2 DEF GuestStep, Writes, IInv, TypeOK
      <3>4. phase' \in Phases
        BY <2>0 DEF Phases
      <3> QED BY <1>0, <3>1, <3>2, <3>3, <3>4, <3>5, Zenon DEF IInv, TypeOK
    <2>2. Layout' /\ Idle' /\ Files' /\ Rerun'
      BY <1>0, <2>0 DEF IInv, Layout, Idle, Files, Rerun, HostPhases
    <2>3. \A x \in Addr : x \notin W => mem'[x] = mem[x]
      BY <2>0 DEF NextMem
    <2>4. ~touched' => ~touched /\ W \cap (DumpWin \cup RestoreWin) = {}
      BY <1>2 DEF GuestStep
    <2>5. selfmod' = {} => selfmod = {} /\ W \cap (base_bbl .. (dump.jmp - 1)) = {}
      BY <1>2 DEF GuestStep
    <2> HIDE DEF W
    <2>6. Whole' /\ Held'
      <3>1. /\ DumpIn' = DumpIdx /\ RestoreIn' = RestoreIdx
            /\ DumpIn = DumpIdx /\ RestoreIn = RestoreIdx
            /\ DumpHeld' = {} /\ RestoreHeld' = {}
        BY <1>0, <2>0 DEF DumpIn, RestoreIn, DumpHeld, RestoreHeld
      <3> QED BY <1>0, <2>0, <2>3, <2>4, <3>1
            DEF IInv, Whole, Held, Holds, DumpWin, RestoreWin, At
    <2>7. Body'
      <3> SUFFICES ASSUME ~touched', selfmod' = {}
                   PROVE  cpu'.pc \in base_bbl .. dump.jmp /\ Scanned(cpu.pc, dump.jmp)'
        BY <1>0, <2>0 DEF Body, Prepared
      <3>0. /\ dump.jmp \in Addr /\ dump.jmp \in Int /\ base_bbl \in Addr
            /\ base_bbl \in Int /\ base_bbl <= dump.jmp
        BY <1>0, HookTypes DEF IInv, Layout
      <3>1. cpu.pc \in base_bbl .. dump.jmp /\ Scanned(cpu.pc, dump.jmp)
        BY <1>0, <2>4, <2>5 DEF IInv, Body
      <3>2. cpu.pc # dump.jmp
        <4>1. dump.jmp \in DumpWin
          BY <3>0, HookTypes DEF DumpWin, At, DumpIdx
        <4> QED BY <4>1 DEF GuestStep
      <3>3. cpu.pc \in Int /\ cpu.pc \in base_bbl .. (dump.jmp - 1)
        BY <3>0, <3>1, <3>2
      <3>4. Op(mem, cpu) \in Straight \cup {"sys"}
        <4>1. cpu.pc \in cpu.pc .. (dump.jmp - 1)
          BY <3>0, <3>3
        <4> QED BY <3>1, <4>1 DEF Scanned, Op
      <3>5. cpu'.pc = cpu.pc + 1
        BY <2>0, <3>4 DEF NextRegs, NextPc, Jumps, Straight
      <3>6. cpu'.pc \in base_bbl .. dump.jmp
        BY <3>0, <3>3, <3>5
      <3>7. \A x \in base_bbl .. (dump.jmp - 1) : mem'[x] = mem[x]
        <4>1. base_bbl .. (dump.jmp - 1) \subseteq Addr
          BY <3>0, CpuAssumption DEF Addr
        <4> QED BY <2>3, <2>5, <4>1
      <3>8. cpu'.pc .. (dump.jmp - 1) \subseteq cpu.pc .. (dump.jmp - 1)
        BY <3>0, <3>3, <3>5
      <3>9. cpu.pc .. (dump.jmp - 1) \subseteq base_bbl .. (dump.jmp - 1)
        BY <3>0, <3>3
      <3>10. Scanned(cpu.pc, dump.jmp)'
        BY <1>0, <3>1, <3>7, <3>8, <3>9 DEF Scanned
      <3> QED BY <3>6, <3>10
    <2> QED BY <2>1, <2>2, <2>6, <2>7 DEF IInv
  <1> QED BY <1>1, <1>2

----------------------------------------------------------------------------
(* _dispatcher: the hooks are taken out and the branch is emulated.         *)

\* restore_bytes(restore), up to and with its assertion.
LEMMA RestoreRestoreIInv ==
    ASSUME IInv, RestoreRestore
    PROVE  IInv'
  <1>0. /\ phase = "dispatch" /\ ~curr_syscall
        /\ UNCHANGED <<cpu, state, dump, restore, curr_hook, curr_syscall, base_bbl,
                       scan, insn, started, nsys, touched, selfmod, lost>>
    BY DEF RestoreRestore, IInv, Rerun
  <1>1. /\ restore.jmp \in Addr /\ restore.jmp + R = base_bbl /\ base_bbl \in Addr
        /\ base_bbl <= dump.jmp
    BY <1>0 DEF IInv, Layout
  <1>2. MemWrite(restore.jmp, RestoreIdx, restore.orig, "undump")
    <2>1. restore.jmp # 0
      BY <1>1, CpuAssumption DEF Addr
    <2> QED BY <2>1 DEF RestoreRestore
  <1>3. CASE \E i \in RestoreIdx \ copied :
               /\ mem' = [mem EXCEPT ![restore.jmp + i] = restore.orig[i]]
               /\ copied' = copied \cup {i} /\ phase' = phase
    <2>1. PICK i \in RestoreIdx \ copied :
               /\ mem' = [mem EXCEPT ![restore.jmp + i] = restore.orig[i]]
               /\ copied' = copied \cup {i} /\ phase' = "dispatch"
      BY <1>0, <1>3
    <2>2. i \in Int /\ restore.jmp + i \in Addr /\ restore.orig[i] \in Cell
      BY <1>1, HookTypes, CpuAssumption DEF RestoreIdx, Addr
    <2>3. /\ mem' \in [Addr -> Cell]
          /\ \A x \in Addr :
                mem'[x] = IF x - restore.jmp = i THEN restore.orig[i] ELSE mem[x]
      BY <2>1, <2>2, HookTypes, CellWritten
    <2>4. TypeOK'
      <3>1. copied' \subseteq DumpIdx \cup RestoreIdx
        BY <2>1 DEF IInv, TypeOK
      <3> QED BY <1>0, <2>1, <2>3, <3>1, Zenon DEF IInv, TypeOK, Phases
    <2>5. Layout' /\ Idle' /\ Files' /\ Rerun' /\ Body'
      BY <1>0, <2>1 DEF IInv, Layout, Idle, Files, HostPhases, Rerun, Body, Prepared
    <2>6. Whole' /\ Held'
      <3>1. /\ DumpIn' = DumpIdx /\ DumpIn = DumpIdx /\ DumpHeld' = {}
            /\ RestoreIn' = RestoreIn \ {i} /\ RestoreHeld' = RestoreHeld \cup {i}
        BY <1>0, <2>1 DEF DumpIn, RestoreIn, DumpHeld, RestoreHeld
      <3>2. \A x \in Addr : x - dump.jmp \in DumpIdx => x - restore.jmp # i
        BY <1>1, Disjoint
      <3> QED BY <1>0, <2>1, <2>3, <3>1, <3>2 DEF IInv, Whole, Held, Holds, At
    <2> QED BY <2>4, <2>5, <2>6 DEF IInv
  <1>4. CASE /\ copied = RestoreIdx /\ copied' = {} /\ mem' = mem
             /\ phase' = IF Holds(mem, restore.jmp, RestoreIdx, restore.orig)
                         THEN "undump" ELSE "killed"
    <2>1. phase' = "undump" \/ (phase' = "killed" /\ touched)
      <3>1. RestoreHeld = RestoreIdx
        BY <1>0, <1>4 DEF RestoreHeld
      <3> QED BY <1>4, <3>1 DEF IInv, Held
    <2>2. TypeOK'
      <3>1. phase' \in Phases
        BY <2>1 DEF Phases
      <3> QED BY <1>0, <1>4, <3>1, Zenon DEF IInv, TypeOK
    <2>3. Layout' /\ Idle' /\ Files' /\ Rerun' /\ Body'
      BY <1>0, <2>1 DEF IInv, Layout, Idle, Files, HostPhases, Rerun, Body, Prepared
    <2>4. Whole' /\ Held'
      <3>1. CASE touched
        BY <1>0, <3>1 DEF Whole, Held
      <3>2. CASE phase' = "undump"
        <4>1. /\ DumpIn' \subseteq DumpIn /\ RestoreIn' = {}
              /\ DumpHeld' = {} /\ RestoreHeld' = {}
          BY <1>0, <1>4, <3>2 DEF DumpIn, RestoreIn, DumpHeld, RestoreHeld
        <4> QED BY <1>0, <1>4, <3>2, <4>1, HooksFrame DEF IInv
      <3> QED BY <2>1, <3>1, <3>2
    <2> QED BY <2>2, <2>3, <2>4 DEF IInv
  <1> QED BY <1>2, <1>3, <1>4 DEF MemWrite

\* restore_bytes(dump), up to and with its assertion.
LEMMA RestoreDumpIInv ==
    ASSUME IInv, RestoreDump
    PROVE  IInv'
  <1>0. /\ phase = "undump" /\ ~curr_syscall
        /\ UNCHANGED <<cpu, state, dump, restore, curr_hook, curr_syscall, base_bbl,
                       scan, insn, started, nsys, touched, selfmod, lost>>
    BY DEF RestoreDump, IInv, Rerun
  <1>1. dump.jmp \in Addr /\ dump.jmp + D \in Addr
    BY <1>0 DEF IInv, Layout
  <1>2. MemWrite(dump.jmp, DumpIdx, dump.orig, "decode")
    BY DEF RestoreDump
  <1>3. CASE \E i \in DumpIdx \ copied :
               /\ mem' = [mem EXCEPT ![dump.jmp + i] = dump.orig[i]]
               /\ copied' = copied \cup {i} /\ phase' = phase
    <2>1. PICK i \in DumpIdx \ copied :
               /\ mem' = [mem EXCEPT ![dump.jmp + i] = dump.orig[i]]
               /\ copied' = copied \cup {i} /\ phase' = "undump"
      BY <1>0, <1>3
    <2>a. dump.orig[i] \in Cell
      BY HookTypes
    <2>2. i \in Int /\ dump.jmp + i \in Addr /\ dump.orig[i] \in Cell
      BY <1>1, <2>a, HookTypes, CpuAssumption DEF DumpIdx, Addr
    <2>3. /\ mem' \in [Addr -> Cell]
          /\ \A x \in Addr : mem'[x] = IF x - dump.jmp = i THEN dump.orig[i] ELSE mem[x]
      BY <2>1, <2>2, HookTypes, CellWritten
    <2>4. TypeOK'
      <3>1. copied' \subseteq DumpIdx \cup RestoreIdx
        BY <2>1 DEF IInv, TypeOK
      <3> QED BY <1>0, <2>1, <2>3, <3>1, Zenon DEF IInv, TypeOK, Phases
    <2>5. Layout' /\ Idle' /\ Files' /\ Rerun' /\ Body'
      BY <1>0, <2>1 DEF IInv, Layout, Idle, Files, HostPhases, Rerun, Body, Prepared
    <2>6. Whole' /\ Held'
      <3>1. /\ RestoreIn' = {} /\ RestoreHeld' = {}
            /\ DumpIn' = DumpIn \ {i} /\ DumpHeld' = DumpHeld \cup {i}
        BY <1>0, <2>1 DEF DumpIn, RestoreIn, DumpHeld, RestoreHeld
      <3> QED BY <1>0, <2>1, <2>3, <3>1 DEF IInv, Whole, Held, Holds, At
    <2> QED BY <2>4, <2>5, <2>6 DEF IInv
  <1>4. CASE /\ copied = DumpIdx /\ copied' = {} /\ mem' = mem
             /\ phase' = IF Holds(mem, dump.jmp, DumpIdx, dump.orig)
                         THEN "decode" ELSE "killed"
    <2>1. phase' = "decode" \/ (phase' = "killed" /\ touched)
      <3>1. DumpHeld = DumpIdx
        BY <1>0, <1>4 DEF DumpHeld
      <3> QED BY <1>4, <3>1 DEF IInv, Held
    <2>2. TypeOK'
      <3>1. phase' \in Phases
        BY <2>1 DEF Phases
      <3> QED BY <1>0, <1>4, <3>1, Zenon DEF IInv, TypeOK
    <2>3. Layout' /\ Idle' /\ Files' /\ Rerun' /\ Body'
      BY <1>0, <1>4, <2>1 DEF IInv, Layout, Idle, Files, HostPhases, Rerun, Body, Prepared
    <2>4. Whole' /\ Held'
      <3>1. CASE touched
        BY <1>0, <3>1 DEF Whole, Held
      <3>2. CASE phase' = "decode"
        <4>1. DumpIn' = {} /\ RestoreIn' = {} /\ DumpHeld' = {} /\ RestoreHeld' = {}
          BY <3>2 DEF DumpIn, RestoreIn, DumpHeld, RestoreHeld
        <4> QED BY <1>0, <1>4, <3>2, <4>1, HooksFrame DEF IInv
      <3> QED BY <2>1, <3>1, <3>2
    <2> QED BY <2>2, <2>3, <2>4 DEF IInv
  <1> QED BY <1>2, <1>3, <1>4 DEF MemWrite

\* eval_target reads the branch.
LEMMA DecodeIInv ==
    ASSUME IInv, Decode
    PROVE  IInv'
  <1>0. /\ phase = "decode" /\ phase' = "emulate" /\ insn' = mem[curr_hook]
        /\ UNCHANGED <<mem, cpu, state, dump, restore, curr_hook, curr_syscall,
                       base_bbl, scan, copied, started, nsys, touched, selfmod, lost>>
    BY DEF Decode
  <1>1. TypeOK'
    <2>1. insn' \in Cell
      BY <1>0 DEF IInv, Layout, TypeOK
    <2>2. phase' \in Phases
      BY <1>0 DEF Phases
    <2> QED BY <1>0, <2>1, <2>2, Zenon DEF IInv, TypeOK
  <1>2. Layout' /\ Idle' /\ Files' /\ Rerun' /\ Body'
    BY <1>0 DEF IInv, Layout, Idle, Files, HostPhases, Rerun, Body, Prepared
  <1>3. DumpIn' = {} /\ RestoreIn' = {} /\ DumpHeld' = {} /\ RestoreHeld' = {}
    BY <1>0 DEF DumpIn, RestoreIn, DumpHeld, RestoreHeld
  <1>4. Whole' /\ Held'
    BY <1>0, <1>3 DEF Whole, Held, Holds, At
  <1> QED BY <1>1, <1>2, <1>4 DEF IInv

\* __eval_target, when it finds the next block.
LEMMA EmulateIInv ==
    ASSUME IInv, EmulateJmp \/ EmulateCall \/ EmulateRet \/ SyscallHooked
                   \/ SyscallUnhandled
    PROVE  IInv'
  <1>0. /\ phase = "emulate" /\ phase' = "instrument"
        /\ scan' = base_bbl' /\ selfmod' = {}
        /\ UNCHANGED <<cpu, dump, restore, curr_hook, copied, insn, started, touched>>
    BY DEF EmulateJmp, EmulateCall, EmulateRet, SyscallHooked, SyscallUnhandled, GoTo
  <1>1. /\ curr_hook \in Addr /\ state.pc = curr_hook /\ insn \in Cell /\ ~curr_syscall
        /\ copied = {} /\ state \in Regs /\ mem \in [Addr -> Cell] /\ state.rax \in Cell
    BY <1>0 DEF IInv, TypeOK, Layout, Files, HostPhases, Rerun, Idle, Regs
  <1>2. Target \in Pc /\ curr_hook + 1 \in Pc /\ curr_hook \in Pc
    BY <1>1, CpuAssumption DEF Target, Pc, Addr
  <1>3. base_bbl' \in Pc
    <2>1. CASE EmulateJmp
      BY <1>1, <1>2, <2>1, CpuAssumption DEF EmulateJmp, GoTo
    <2>2. CASE EmulateCall \/ SyscallHooked \/ SyscallUnhandled
      BY <1>2, <2>2 DEF EmulateCall, SyscallHooked, SyscallUnhandled, GoTo
    <2>3. CASE EmulateRet
      BY <1>1, <2>3, CpuAssumption DEF EmulateRet, GoTo
    <2> QED BY <2>1, <2>2, <2>3
  <1>4. state' \in Regs
    <2>1. CASE EmulateJmp \/ SyscallUnhandled
      BY <1>1, <2>1 DEF EmulateJmp, SyscallUnhandled
    <2>2. CASE EmulateCall
      <3>1. state.rsp - 1 \in Pc
        BY <2>2, CpuAssumption DEF EmulateCall, Pc, Addr
      <3> QED BY <1>1, <2>2, <3>1, RegsUpdate DEF EmulateCall
    <2>3. CASE EmulateRet
      <3>1. state.rsp + 1 \in Pc
        BY <2>3, CpuAssumption DEF EmulateRet, Pc, Addr
      <3> QED BY <1>1, <2>3, <3>1, RegsUpdate DEF EmulateRet
    <2>4. CASE SyscallHooked
      BY <1>1, <2>4, CpuAssumption, EngineAssumption DEF SyscallHooked, LibcRet, Regs
    <2> QED BY <2>1, <2>2, <2>3, <2>4
  <1>5. mem' \in [Addr -> Cell]
    <2>1. CASE EmulateJmp \/ EmulateRet \/ SyscallUnhandled
      BY <1>1, <2>1 DEF EmulateJmp, EmulateRet, SyscallUnhandled
    <2>2. CASE EmulateCall
      BY <1>1, <1>2, <2>2, CpuAssumption DEF EmulateCall
    <2>3. CASE SyscallHooked
      BY <1>1, <2>3, CpuAssumption DEF SyscallHooked
    <2> QED BY <2>1, <2>2, <2>3
  <1>6. nsys' \in {0, 1}
    BY DEF EmulateJmp, EmulateCall, EmulateRet, SyscallHooked, SyscallUnhandled,
      IInv, TypeOK
  <1>7. curr_syscall' \in BOOLEAN /\ lost' \in BOOLEAN
    BY Zenon DEF EmulateJmp, EmulateCall, EmulateRet, SyscallHooked, SyscallUnhandled,
      IInv, TypeOK
  <1>8. TypeOK'
    <2>1. phase' \in Phases
      BY <1>0 DEF Phases
    <2>2. selfmod' \in SUBSET Addr /\ scan' \in Pc
      BY <1>0, <1>3, Zenon
    <2> QED BY <1>0, <1>3, <1>4, <1>5, <1>6, <1>7, <2>1, <2>2, Zenon DEF IInv, TypeOK
  <1>9. Layout' /\ Idle' /\ Files'
    <2>1. base_bbl' \in Int
      BY <1>3, CpuAssumption DEF Pc
    <2> QED BY <1>0, <1>1, <2>1 DEF Layout, Idle, Files, HostPhases
  <1>10. Whole' /\ Held'
    <2>1. DumpIn' = {} /\ RestoreIn' = {} /\ DumpHeld' = {} /\ RestoreHeld' = {}
      BY <1>0 DEF DumpIn, RestoreIn, DumpHeld, RestoreHeld
    <2> QED BY <1>0, <2>1 DEF Whole, Held, Holds, At
  <1>11. Rerun'
    <2>1. CASE SyscallUnhandled
      <3>1. ~touched => Kind[mem[curr_hook]] = "sys"
        BY <1>0, <2>1 DEF SyscallUnhandled, IInv, Held
      <3> QED BY <1>0, <1>1, <2>1, <3>1 DEF SyscallUnhandled, GoTo, Rerun
    <2>2. CASE ~SyscallUnhandled
      <3>1. curr_syscall' = curr_syscall
        BY <2>2 DEF EmulateJmp, EmulateCall, EmulateRet, SyscallHooked
      <3> QED BY <1>1, <3>1 DEF Rerun
    <2> QED BY <2>1, <2>2
  <1>12. Body'
    <2>1. base_bbl' \in Int
      BY <1>3, CpuAssumption DEF Pc
    <2>2. scan' = base_bbl'
      BY <1>0, Zenon
    <2>3. base_bbl' .. (scan' - 1) = {}
      <3>1. \A b \in Int : b .. (b - 1) = {}
        OBVIOUS
      <3> QED BY <2>1, <2>2, <3>1, Zenon
    <2>4. Scanned(base_bbl, scan)'
      BY <2>3, Zenon DEF Scanned
    <2> QED BY <1>0, <2>4, Zenon DEF Body, Prepared
  <1> QED BY <1>8, <1>9, <1>10, <1>11, <1>12 DEF IInv

----------------------------------------------------------------------------
(* instrument_request: the block is scanned and the hooks are written.      *)

\* opcodes_cflow goes over one instruction.
LEMMA ScanStepIInv ==
    ASSUME IInv, ScanStep
    PROVE  IInv'
  <1>0. /\ phase = "instrument" /\ phase' = "instrument" /\ scan \in Addr
        /\ scan' = scan + 1 /\ curr_syscall' = FALSE /\ StepsOver
        /\ UNCHANGED <<mem, cpu, state, dump, restore, curr_hook, base_bbl, copied,
                       insn, started, nsys, touched, selfmod, lost>>
    BY DEF ScanStep, Decodable
  <1>1. TypeOK'
    <2>1. scan' \in Pc
      BY <1>0, CpuAssumption DEF Pc, Addr
    <2>2. curr_syscall' \in BOOLEAN
      BY <1>0, Zenon
    <2> QED BY <1>0, <2>1, <2>2, Zenon DEF IInv, TypeOK
  <1>2. Layout' /\ Idle' /\ Files' /\ Rerun'
    BY <1>0, HookTypes DEF IInv, Layout, Idle, Files, HostPhases, Rerun
  <1>3. Whole' /\ Held'
    <2>1. DumpIn' = {} /\ RestoreIn' = {} /\ DumpHeld' = {} /\ RestoreHeld' = {}
      BY <1>0 DEF DumpIn, RestoreIn, DumpHeld, RestoreHeld
    <2> QED BY <1>0, <2>1, HooksFrame DEF IInv
  <1>4. Body'
    <2> SUFFICES ASSUME ~touched, selfmod = {} PROVE Scanned(base_bbl, scan)'
      BY <1>0 DEF Body, Prepared
    <2>1. Scanned(base_bbl, scan)
      BY <1>0 DEF IInv, Body
    <2>2. \/ Kind[mem[scan]] \in Straight
          \/ scan = base_bbl /\ Kind[mem[scan]] = "sys"
      BY <1>0 DEF StepsOver, Sees, IInv, Rerun
    <2>3. \A x \in base_bbl .. (scan' - 1) : x \in base_bbl .. (scan - 1) \/ x = scan
      BY <1>0, HookTypes
    <2> QED BY <1>0, <2>1, <2>2, <2>3 DEF Scanned
  <1> QED BY <1>1, <1>2, <1>3, <1>4 DEF IInv

\* opcodes_cflow has found the end of the block.
LEMMA ScanEndIInv ==
    ASSUME IInv, ScanEnd
    PROVE  IInv'
  <1>0. /\ phase = "instrument" /\ phase' = "save_dump" /\ scan \in Addr
        /\ dump' = [dump EXCEPT !.jmp = scan] /\ ~curr_syscall
        /\ UNCHANGED <<mem, cpu, state, restore, curr_hook, curr_syscall, base_bbl,
                       scan, copied, insn, started, nsys, touched, selfmod, lost>>
    BY DEF ScanEnd, Decodable, StepsOver
  <1>1. /\ dump' \in [jmp : {0} \cup Addr, orig : [DumpIdx -> Cell]]
        /\ dump'.jmp = scan
    BY <1>0 DEF IInv, TypeOK
  <1>2. TypeOK'
    <2>1. phase' \in Phases
      BY <1>0 DEF Phases
    <2> QED BY <1>0, <1>1, <2>1, Zenon DEF IInv, TypeOK
  <1>3. base_bbl \in Addr /\ base_bbl <= scan
    BY <1>0, CpuAssumption DEF IInv, TypeOK, Layout, Pc, Addr
  <1>4. Layout' /\ Idle' /\ Files' /\ Rerun'
    BY <1>0, <1>1, <1>3 DEF Layout, Idle, Files, HostPhases, Rerun
  <1>5. Whole' /\ Held'
    <2>1. DumpIn' = {} /\ RestoreIn' = {} /\ DumpHeld' = {} /\ RestoreHeld' = {}
      BY <1>0 DEF DumpIn, RestoreIn, DumpHeld, RestoreHeld, IInv, Idle
    <2> QED BY <1>0, <2>1 DEF Whole, Held, Holds, At
  <1>6. Body'
    BY <1>0, <1>1 DEF IInv, Body, Scanned, Prepared
  <1> QED BY <1>2, <1>4, <1>5, <1>6 DEF IInv

\* write_hook(dump): the bytes under the hook are saved.
LEMMA SaveDumpIInv ==
    ASSUME IInv, SaveDump
    PROVE  IInv'
  <1>0. /\ phase = "save_dump" /\ ~curr_syscall /\ WriteOk(dump.jmp, D)
        /\ UNCHANGED <<mem, cpu, state, restore, curr_hook, curr_syscall, base_bbl,
                       scan, insn, started, nsys, touched, selfmod, lost>>
    BY DEF SaveDump, IInv, Rerun
  <1>1. CASE \E i \in DumpIdx \ copied :
               /\ dump' = [dump EXCEPT !.orig = [@ EXCEPT ![i] = mem[dump.jmp + i]]]
               /\ copied' = copied \cup {i} /\ phase' = phase
    <2>1. PICK i \in DumpIdx \ copied :
               /\ dump' = [dump EXCEPT !.orig = [@ EXCEPT ![i] = mem[dump.jmp + i]]]
               /\ copied' = copied \cup {i} /\ phase' = "save_dump"
      BY <1>0, <1>1
    <2>2. dump.jmp + i \in Addr
      BY <1>0, HookTypes, CpuAssumption DEF WriteOk, DumpIdx, Addr
    <2>3. /\ dump' \in [jmp : {0} \cup Addr, orig : [DumpIdx -> Cell]]
          /\ dump'.jmp = dump.jmp
          /\ \A k \in DumpIdx :
                dump'.orig[k] = IF k = i THEN mem[dump.jmp + i] ELSE dump.orig[k]
      BY <2>1, <2>2 DEF IInv, TypeOK
    <2>4. TypeOK'
      <3>1. copied' \subseteq DumpIdx \cup RestoreIdx
        BY <2>1 DEF IInv, TypeOK
      <3> QED BY <1>0, <2>1, <2>3, <3>1, Zenon DEF IInv, TypeOK, Phases
    <2>5. Layout' /\ Idle' /\ Files' /\ Rerun'
      BY <1>0, <2>1, <2>3 DEF IInv, Layout, Idle, Files, HostPhases, Rerun
    <2>6. Whole' /\ Held'
      <3>1. /\ DumpIn' = {} /\ RestoreIn' = {} /\ RestoreHeld' = {}
            /\ DumpHeld' = DumpHeld \cup {i} /\ DumpHeld \subseteq DumpIdx
        BY <1>0, <2>1 DEF DumpIn, RestoreIn, DumpHeld, RestoreHeld
      <3>2. \A x \in Addr : x - dump.jmp = i => x = dump.jmp + i
        BY HookTypes, CpuAssumption DEF Addr
      <3> QED BY <1>0, <2>1, <2>3, <3>1, <3>2 DEF IInv, Whole, Held, Holds, At
    <2>7. Body'
      BY <1>0, <2>1, <2>3 DEF IInv, Body, Scanned, Prepared
    <2> QED BY <2>4, <2>5, <2>6, <2>7 DEF IInv
  <1>2. CASE /\ copied = DumpIdx /\ copied' = {} /\ dump' = dump
             /\ \/ phase' = "write_dump"
                \/ ~Holds(mem, dump.jmp, DumpIdx, dump.orig) /\ phase' = "killed"
    <2>0. DumpHeld = DumpIdx
      BY <1>0, <1>2 DEF DumpHeld
    <2>1. phase' = "write_dump" \/ (phase' = "killed" /\ touched)
      BY <1>2, <2>0 DEF IInv, Held
    <2>2. TypeOK'
      <3>1. phase' \in Phases
        BY <2>1 DEF Phases
      <3> QED BY <1>0, <1>2, <3>1, Zenon DEF IInv, TypeOK
    <2>3. Layout' /\ Idle' /\ Files' /\ Rerun'
      BY <1>0, <1>2, <2>1 DEF IInv, Layout, Idle, Files, HostPhases, Rerun, WriteOk
    <2>4. Whole' /\ Held'
      <3>1. CASE touched
        BY <1>0, <3>1 DEF Whole, Held
      <3>2. CASE phase' = "write_dump"
        <4>1. /\ DumpIn' = {} /\ RestoreIn' = {}
              /\ DumpHeld' \subseteq DumpHeld /\ RestoreHeld' = {}
          BY <1>0, <1>2, <2>0, <3>2 DEF DumpIn, RestoreIn, DumpHeld, RestoreHeld
        <4> QED BY <1>0, <1>2, <3>2, <4>1, HooksFrame DEF IInv
      <3> QED BY <2>1, <3>1, <3>2
    <2>5. Body'
      BY <1>0, <1>2, <2>1 DEF IInv, Body, Scanned, Prepared
    <2> QED BY <2>2, <2>3, <2>4, <2>5 DEF IInv
  <1> QED BY <1>1, <1>2 DEF SaveDump

\* write_hook(dump): the hook is written, and the restore hook placed.
LEMMA WriteDumpIInv ==
    ASSUME IInv, WriteDump
    PROVE  IInv'
  <1>0. /\ phase = "write_dump" /\ ~curr_syscall
        /\ UNCHANGED <<cpu, state, dump, curr_syscall, base_bbl, scan, insn, started,
                       nsys, touched, selfmod, lost>>
    BY DEF WriteDump, IInv, Rerun
  <1>1. /\ dump.jmp \in Addr /\ dump.jmp + D \in Addr /\ base_bbl \in Addr
        /\ base_bbl <= dump.jmp
    BY <1>0 DEF IInv, Layout
  <1>2. MemWrite(dump.jmp, DumpIdx, DumpCode, "save_restore")
    BY DEF WriteDump
  <1>3. CASE \E i \in DumpIdx \ copied :
               /\ mem' = [mem EXCEPT ![dump.jmp + i] = DumpCode[i]]
               /\ copied' = copied \cup {i} /\ phase' = phase
    <2>1. PICK i \in DumpIdx \ copied :
               /\ mem' = [mem EXCEPT ![dump.jmp + i] = DumpCode[i]]
               /\ copied' = copied \cup {i} /\ phase' = "write_dump"
      BY <1>0, <1>3
    <2>a. curr_hook' = curr_hook /\ restore' = restore
      BY <2>1 DEF WriteDump
    <2>2. i \in Int /\ dump.jmp + i \in Addr /\ DumpCode[i] \in Cell
      BY <1>1, HookTypes, CpuAssumption DEF DumpIdx, Addr
    <2>3. /\ mem' \in [Addr -> Cell]
          /\ \A x \in Addr : mem'[x] = IF x - dump.jmp = i THEN DumpCode[i] ELSE mem[x]
      BY <2>1, <2>2, HookTypes, CellWritten
    <2>4. TypeOK'
      <3>1. copied' \subseteq DumpIdx \cup RestoreIdx
        BY <2>1 DEF IInv, TypeOK
      <3> QED BY <1>0, <2>1, <2>a, <2>3, <3>1, Zenon DEF IInv, TypeOK, Phases
    <2>5. Layout' /\ Idle' /\ Files' /\ Rerun'
      BY <1>0, <2>1, <2>a DEF IInv, Layout, Idle, Files, HostPhases, Rerun
    <2>6. Whole' /\ Held'
      <3>1. /\ RestoreIn' = {} /\ RestoreHeld' = {}
            /\ DumpIn' = DumpIn \cup {i} /\ DumpHeld' = DumpHeld \ {i}
        BY <1>0, <2>1 DEF DumpIn, RestoreIn, DumpHeld, RestoreHeld
      <3> QED BY <1>0, <2>1, <2>3, <3>1 DEF IInv, Whole, Held, Holds, At
    <2>7. Body'
      <3>1. \A x \in base_bbl .. (dump.jmp - 1) : x \in Addr /\ x - dump.jmp # i
        BY <1>1, HookTypes, CpuAssumption DEF DumpIdx, Addr
      <3>2. \A x \in base_bbl .. (dump.jmp - 1) : mem'[x] = mem[x]
        BY <2>3, <3>1
      <3> QED BY <1>0, <2>1, <3>2 DEF IInv, Body, Scanned, Prepared
    <2> QED BY <2>4, <2>5, <2>6, <2>7 DEF IInv
  <1>4. CASE /\ copied = DumpIdx /\ copied' = {} /\ mem' = mem
             /\ phase' = IF Holds(mem, dump.jmp, DumpIdx, DumpCode)
                         THEN "save_restore" ELSE "killed"
    <2>0. DumpIn = DumpIdx
      BY <1>0, <1>4 DEF DumpIn
    <2>1. phase' = "save_restore" \/ (phase' = "killed" /\ touched)
      BY <1>4, <2>0 DEF IInv, Whole
    <2>2. /\ restore' \in [jmp : Int, orig : [RestoreIdx -> Cell]]
          /\ curr_hook' \in {0} \cup Addr
          /\ phase' = "save_restore" =>
                curr_hook' = dump.jmp /\ restore'.jmp + R = base_bbl
      <3>1. RestoreAt \in Int /\ RestoreAt + R = base_bbl
        BY HookTypes DEF RestoreAt
      <3> HIDE DEF RestoreAt
      <3>2. CASE phase' = "save_restore"
        <4>1. curr_hook' = dump.jmp /\ restore' = [restore EXCEPT !.jmp = RestoreAt]
          BY <3>2 DEF WriteDump
        <4> QED BY <1>1, <3>1, <4>1 DEF IInv, TypeOK
      <3>3. CASE phase' = "killed"
        BY <3>3 DEF WriteDump, IInv, TypeOK
      <3> QED BY <2>1, <3>2, <3>3
    <2>3. TypeOK'
      <3>1. phase' \in Phases
        BY <2>1 DEF Phases
      <3> QED BY <1>0, <1>4, <2>2, <3>1, Zenon DEF IInv, TypeOK
    <2>4. Layout' /\ Idle' /\ Files' /\ Rerun'
      BY <1>0, <1>1, <2>1, <2>2 DEF Layout, Idle, Files, HostPhases, Rerun
    <2>5. Whole' /\ Held'
      <3>1. CASE touched
        BY <1>0, <3>1 DEF Whole, Held
      <3>2. CASE phase' = "save_restore"
        <4>1. DumpIn' = DumpIn /\ RestoreIn' = {} /\ DumpHeld' = {} /\ RestoreHeld' = {}
          BY <1>0, <1>4, <2>0, <3>2 DEF DumpIn, RestoreIn, DumpHeld, RestoreHeld
        <4> QED BY <1>0, <1>4, <3>2, <4>1 DEF IInv, Whole, Held, Holds, At
      <3> QED BY <2>1, <3>1, <3>2
    <2>6. Body'
      BY <1>0, <1>4, <2>1 DEF IInv, Body, Scanned, Prepared
    <2> QED BY <2>3, <2>4, <2>5, <2>6 DEF IInv
  <1> QED BY <1>2, <1>3, <1>4 DEF MemWrite

\* write_hook(restore): the bytes below the block are saved.
LEMMA SaveRestoreIInv ==
    ASSUME IInv, SaveRestore
    PROVE  IInv'
  <1>0. /\ phase = "save_restore" /\ ~curr_syscall /\ WriteOk(restore.jmp, R)
        /\ UNCHANGED <<mem, cpu, state, dump, curr_hook, curr_syscall, base_bbl, scan,
                       insn, started, nsys, touched, selfmod, lost>>
    BY DEF SaveRestore, IInv, Rerun
  <1>1. CASE \E i \in RestoreIdx \ copied :
               /\ restore' = [restore EXCEPT
                                !.orig = [@ EXCEPT ![i] = mem[restore.jmp + i]]]
               /\ copied' = copied \cup {i} /\ phase' = phase
    <2>1. PICK i \in RestoreIdx \ copied :
               /\ restore' = [restore EXCEPT
                                !.orig = [@ EXCEPT ![i] = mem[restore.jmp + i]]]
               /\ copied' = copied \cup {i} /\ phase' = "save_restore"
      BY <1>0, <1>1
    <2>2. restore.jmp + i \in Addr
      BY <1>0, HookTypes, CpuAssumption DEF WriteOk, RestoreIdx, Addr
    <2>3. /\ restore' \in [jmp : Int, orig : [RestoreIdx -> Cell]]
          /\ restore'.jmp = restore.jmp
          /\ \A k \in RestoreIdx :
                restore'.orig[k] = IF k = i THEN mem[restore.jmp + i] ELSE restore.orig[k]
      BY <2>1, <2>2 DEF IInv, TypeOK
    <2>4. TypeOK'
      <3>1. copied' \subseteq DumpIdx \cup RestoreIdx
        BY <2>1 DEF IInv, TypeOK
      <3> QED BY <1>0, <2>1, <2>3, <3>1, Zenon DEF IInv, TypeOK, Phases
    <2>5. Layout' /\ Idle' /\ Files' /\ Rerun' /\ Body'
      BY <1>0, <2>1, <2>3 DEF IInv, Layout, Idle, Files, HostPhases, Rerun, Body,
        Scanned, Prepared
    <2>6. Whole' /\ Held'
      <3>1. /\ DumpIn' = DumpIn /\ RestoreIn' = {} /\ DumpHeld' = {}
            /\ RestoreHeld' = RestoreHeld \cup {i} /\ RestoreHeld \subseteq RestoreIdx
        BY <1>0, <2>1 DEF DumpIn, RestoreIn, DumpHeld, RestoreHeld
      <3>2. \A x \in Addr : x - restore.jmp = i => x = restore.jmp + i
        BY HookTypes, CpuAssumption DEF Addr
      <3> QED BY <1>0, <2>1, <2>3, <3>1, <3>2 DEF IInv, Whole, Held, Holds, At
    <2> QED BY <2>4, <2>5, <2>6 DEF IInv
  <1>2. CASE /\ copied = RestoreIdx /\ copied' = {} /\ restore' = restore
             /\ \/ phase' = "write_restore"
                \/ ~Holds(mem, restore.jmp, RestoreIdx, restore.orig) /\ phase' = "killed"
    <2>0. RestoreHeld = RestoreIdx
      BY <1>0, <1>2 DEF RestoreHeld
    <2>1. phase' = "write_restore" \/ (phase' = "killed" /\ touched)
      BY <1>2, <2>0 DEF IInv, Held
    <2>2. TypeOK'
      <3>1. phase' \in Phases
        BY <2>1 DEF Phases
      <3> QED BY <1>0, <1>2, <3>1, Zenon DEF IInv, TypeOK
    <2>3. Layout' /\ Idle' /\ Files' /\ Rerun' /\ Body'
      BY <1>0, <1>2, <2>1 DEF IInv, Layout, Idle, Files, HostPhases, Rerun, Body,
        Scanned, Prepared, WriteOk
    <2>4. Whole' /\ Held'
      <3>1. CASE touched
        BY <1>0, <3>1 DEF Whole, Held
      <3>2. CASE phase' = "write_restore"
        <4>1. /\ DumpIn' = DumpIn /\ RestoreIn' = {}
              /\ DumpHeld' = {} /\ RestoreHeld' \subseteq RestoreHeld
          BY <1>0, <1>2, <2>0, <3>2 DEF DumpIn, RestoreIn, DumpHeld, RestoreHeld
        <4> QED BY <1>0, <1>2, <3>2, <4>1, HooksFrame DEF IInv
      <3> QED BY <2>1, <3>1, <3>2
    <2> QED BY <2>2, <2>3, <2>4 DEF IInv
  <1> QED BY <1>1, <1>2 DEF SaveRestore

\* write_hook(restore): the hook is written, and rip set to it.
LEMMA WriteRestoreIInv ==
    ASSUME IInv, WriteRestore
    PROVE  IInv'
  <1>0. /\ phase = "write_restore" /\ ~curr_syscall
        /\ UNCHANGED <<cpu, dump, restore, curr_hook, curr_syscall, base_bbl, scan,
                       insn, started, nsys, touched, selfmod, lost>>
    BY DEF WriteRestore, IInv, Rerun
  <1>1. /\ restore.jmp \in Addr /\ restore.jmp + R = base_bbl /\ base_bbl \in Addr
        /\ dump.jmp \in Addr /\ base_bbl <= dump.jmp
    BY <1>0 DEF IInv, Layout
  <1>2. MemWrite(restore.jmp, RestoreIdx, RestoreCode,
                 IF started THEN "continue" ELSE "launch")
    BY DEF WriteRestore
  <1>3. CASE \E i \in RestoreIdx \ copied :
               /\ mem' = [mem EXCEPT ![restore.jmp + i] = RestoreCode[i]]
               /\ copied' = copied \cup {i} /\ phase' = phase
    <2>1. PICK i \in RestoreIdx \ copied :
               /\ mem' = [mem EXCEPT ![restore.jmp + i] = RestoreCode[i]]
               /\ copied' = copied \cup {i} /\ phase' = "write_restore"
      BY <1>0, <1>3
    <2>a. state' = state
      BY <2>1 DEF WriteRestore
    <2>2. i \in Int /\ restore.jmp + i \in Addr /\ RestoreCode[i] \in Cell
      BY <1>1, HookTypes, CpuAssumption DEF RestoreIdx, Addr
    <2>3. /\ mem' \in [Addr -> Cell]
          /\ \A x \in Addr :
                mem'[x] = IF x - restore.jmp = i THEN RestoreCode[i] ELSE mem[x]
      BY <2>1, <2>2, HookTypes, CellWritten
    <2>4. TypeOK'
      <3>1. copied' \subseteq DumpIdx \cup RestoreIdx
        BY <2>1 DEF IInv, TypeOK
      <3> QED BY <1>0, <2>1, <2>a, <2>3, <3>1, Zenon DEF IInv, TypeOK, Phases
    <2>5. Layout' /\ Idle' /\ Files' /\ Rerun'
      BY <1>0, <2>1, <2>a DEF IInv, Layout, Idle, Files, HostPhases, Rerun
    <2>6. Whole' /\ Held'
      <3>1. /\ DumpIn' = DumpIdx /\ DumpIn = DumpIdx /\ DumpHeld' = {}
            /\ RestoreIn' = RestoreIn \cup {i} /\ RestoreHeld' = RestoreHeld \ {i}
        BY <1>0, <2>1 DEF DumpIn, RestoreIn, DumpHeld, RestoreHeld
      <3>2. \A x \in Addr : x - dump.jmp \in DumpIdx => x - restore.jmp # i
        BY <1>1, Disjoint
      <3> QED BY <1>0, <2>1, <2>3, <3>1, <3>2 DEF IInv, Whole, Held, Holds, At
    <2>7. Body'
      <3>1. \A x \in base_bbl .. (dump.jmp - 1) : x \in Addr /\ x - restore.jmp # i
        BY <1>1, HookTypes, CpuAssumption DEF RestoreIdx, Addr
      <3>2. \A x \in base_bbl .. (dump.jmp - 1) : mem'[x] = mem[x]
        BY <2>3, <3>1
      <3> QED BY <1>0, <2>1, <3>2 DEF IInv, Body, Scanned, Prepared
    <2> QED BY <2>4, <2>5, <2>6, <2>7 DEF IInv
  <1>4. CASE /\ copied = RestoreIdx /\ copied' = {} /\ mem' = mem
             /\ phase' = IF Holds(mem, restore.jmp, RestoreIdx, RestoreCode)
                         THEN IF started THEN "continue" ELSE "launch"
                         ELSE "killed"
    <2>0. RestoreIn = RestoreIdx
      BY <1>0, <1>4 DEF RestoreIn
    <2>1. phase' \in {"continue", "launch"} \/ (phase' = "killed" /\ touched)
      BY <1>4, <2>0 DEF IInv, Whole
    <2>2. /\ state' \in Regs
          /\ phase' = "continue" => state'.pc = restore.jmp
          /\ phase' = "launch" => state'.pc = base_bbl
      <3>1. base_bbl - R = restore.jmp /\ restore.jmp \in Pc /\ base_bbl \in Pc
        BY <1>1, HookTypes, CpuAssumption DEF Pc, Addr
      <3>2. CASE phase' = "continue"
        <4>1. state' = [state EXCEPT !.pc = restore.jmp]
          BY <3>1, <3>2 DEF WriteRestore
        <4> QED BY <3>1, <3>2, <4>1 DEF IInv, TypeOK, Regs
      <3>3. CASE phase' = "launch"
        <4>1. state' = [state EXCEPT !.pc = base_bbl]
          BY <3>3 DEF WriteRestore
        <4> QED BY <3>1, <3>3, <4>1 DEF IInv, TypeOK, Regs
      <3>4. CASE phase' = "killed"
        BY <3>4 DEF WriteRestore, IInv, TypeOK
      <3> QED BY <2>1, <3>2, <3>3, <3>4
    <2>3. TypeOK'
      <3>1. phase' \in Phases
        BY <2>1 DEF Phases
      <3> QED BY <1>0, <1>4, <2>2, <3>1, Zenon DEF IInv, TypeOK
    <2>4. Layout' /\ Idle' /\ Files' /\ Rerun'
      BY <1>0, <1>4, <2>1, <2>2 DEF IInv, Layout, Idle, Files, HostPhases, Rerun
    <2>5. Whole' /\ Held'
      <3>1. CASE touched
        BY <1>0, <3>1 DEF Whole, Held
      <3>2. CASE phase' \in {"continue", "launch"}
        <4>1. DumpIn' = DumpIn /\ RestoreIn' = RestoreIn /\ DumpHeld' = {}
                /\ RestoreHeld' = {}
          BY <1>0, <1>4, <2>0, <3>2 DEF DumpIn, RestoreIn, DumpHeld, RestoreHeld
        <4> QED BY <1>0, <1>4, <3>2, <4>1, HooksFrame DEF IInv
      <3> QED BY <2>1, <3>1, <3>2
    <2>6. Body'
      BY <1>0, <1>4, <2>1 DEF IInv, Body, Scanned, Prepared
    <2> QED BY <2>3, <2>4, <2>5, <2>6 DEF IInv
  <1> QED BY <1>2, <1>3, <1>4 DEF MemWrite

\* A step that changes nothing.
LEMMA SameIInv ==
    ASSUME IInv, UNCHANGED vars
    PROVE  IInv'
  <1>1. TypeOK'
    BY Zenon DEF vars, IInv, TypeOK
  <1>2. Layout' /\ Idle' /\ Files' /\ Rerun'
    BY DEF vars, IInv, Layout, Idle, Files, Rerun, HostPhases
  <1>3. /\ DumpIn' = DumpIn /\ RestoreIn' = RestoreIn
        /\ DumpHeld' = DumpHeld /\ RestoreHeld' = RestoreHeld
    BY DEF vars, DumpIn, RestoreIn, DumpHeld, RestoreHeld
  <1>4. Whole' /\ Held' /\ Body'
    BY <1>3 DEF vars, IInv, Whole, Held, Body, Holds, At, Scanned, Prepared
  <1> QED BY <1>1, <1>2, <1>4 DEF IInv

\* Every step of guest or engine preserves the inductive invariant.
LEMMA NextIInv == IInv /\ [Next]_vars => IInv'
  <1> SUFFICES ASSUME IInv, [Next]_vars PROVE IInv'
    OBVIOUS
  <1>1. CASE GuestFault \/ GuestWild \/ SyscallExit \/ EmulateFail
               \/ InstrumentFail \/ WriteRestoreFail
    BY <1>1, EndsIInv
  <1>2. CASE DumpHook \/ RestoreHook \/ Launch \/ Continue
    BY <1>2, SwitchIInv
  <1>3. CASE GuestStep
    BY <1>3, GuestIInv
  <1>4. CASE RestoreRestore
    BY <1>4, RestoreRestoreIInv
  <1>5. CASE RestoreDump
    BY <1>5, RestoreDumpIInv
  <1>6. CASE Decode
    BY <1>6, DecodeIInv
  <1>7. CASE EmulateJmp \/ EmulateCall \/ EmulateRet \/ SyscallHooked
               \/ SyscallUnhandled
    BY <1>7, EmulateIInv
  <1>8. CASE ScanStep
    BY <1>8, ScanStepIInv
  <1>9. CASE ScanEnd
    BY <1>9, ScanEndIInv
  <1>10. CASE SaveDump
    BY <1>10, SaveDumpIInv
  <1>11. CASE WriteDump
    BY <1>11, WriteDumpIInv
  <1>12. CASE SaveRestore
    BY <1>12, SaveRestoreIInv
  <1>13. CASE WriteRestore
    BY <1>13, WriteRestoreIInv
  <1>14. CASE Finished \/ UNCHANGED vars
    BY <1>14, SameIInv DEF Finished
  <1> QED
    BY <1>1, <1>2, <1>3, <1>4, <1>5, <1>6, <1>7, <1>8, <1>9, <1>10, <1>11, <1>12,
       <1>13, <1>14 DEF Next, Emulate

\* The inductive invariant holds in every reachable state.
LEMMA Invariance == Spec => []IInv
  BY InitIInv, NextIInv, PTL DEF Spec

\* Every variable of the engine keeps its type.
THEOREM TypeCorrect == Spec => []TypeOK
  BY Invariance, PTL DEF IInv

\* Whenever guest code can run, both hooks written by write_hook are whole and
\* lie around the block as instrument_request placed them, for every guest that
\* has kept away from the patched cells.
THEOREM HooksAlwaysComplete == Spec => []HooksComplete
  <1>1. IInv => HooksComplete
    <2>1. phase \in {"guest", "entry"} => DumpIn = DumpIdx /\ RestoreIn = RestoreIdx
      BY DEF DumpIn, RestoreIn
    <2> QED BY <2>1 DEF IInv, TypeOK, Layout, Files, Whole, HooksComplete
  <1> QED BY <1>1, Invariance, PTL

\* Between two entries of _dispatcher the guest runs no control-flow instruction
\* natively, except a system call re-run once, unless it rewrites its own block.
THEOREM AlwaysConfined == Spec => []Confined
  <1>1. IInv => Confined
    BY DEF IInv, Body, Scanned, Confined
  <1> QED BY <1>1, Invariance, PTL

----------------------------------------------------------------------------
(* HookEngine implements NativeCpu.  Under the mapping of HookEngine (View, *)
(* GuestRegs) a native instruction and the emulation of a branch are steps  *)
(* of NativeCpu; scanning, saving, writing and removing each byte of the    *)
(* hooks, saving and reloading registers are stuttering steps.              *)

\* What a stuttering step of the guest leaves alone.
Stutter ==
    /\ View' = View /\ GuestRegs' = GuestRegs /\ nsys' = nsys
    /\ Halted' = Halted /\ OffContract' = OffContract

USE DEF OffContract

\* The guest's memory, cell by cell.
LEMMA ViewCell ==
    /\ View = [x \in Addr |-> View[x]]
    /\ \A x \in Addr : View[x] = IF x - dump.jmp \in DumpIn THEN dump.orig[x - dump.jmp]
                                 ELSE IF x - restore.jmp \in RestoreIn
                                 THEN restore.orig[x - restore.jmp] ELSE mem[x]
    /\ View' = [x \in Addr |-> View'[x]]
    /\ \A x \in Addr : View'[x] = IF x - dump'.jmp \in DumpIn' THEN dump'.orig[x - dump'.jmp]
                                  ELSE IF x - restore'.jmp \in RestoreIn'
                                  THEN restore'.orig[x - restore'.jmp] ELSE mem'[x]
  BY DEF View

\* A step that puts no byte of a hook in memory or out of it, and changes no
\* saved byte that is needed, does not show.
LEMMA ViewFrame ==
    ASSUME mem' = mem, DumpIn' = DumpIn, RestoreIn' = RestoreIn,
           dump' = dump \/ DumpIn = {}, restore' = restore \/ RestoreIn = {}
    PROVE  View' = View
  <1>1. \A x \in Addr : View'[x] = View[x]
    BY ViewCell
  <1> QED BY <1>1, ViewCell

\* Steps of the engine that copy nothing.
LEMMA QuietStutters ==
    ASSUME IInv, IInv', ~OffContract',
           DumpHook \/ RestoreHook \/ Decode \/ SyscallUnhandled \/ EmulateFail
             \/ GuestFault \/ ScanStep \/ ScanEnd \/ SaveDump \/ SaveRestore
             \/ InstrumentFail \/ WriteRestoreFail \/ Launch \/ Continue \/ Finished
    PROVE  Stutter
  <1>1. CASE DumpHook
    <2>1. state' = cpu
      BY <1>1 DEF DumpHook, IInv, TypeOK, Layout, Regs
    <2>2. GuestRegs' = GuestRegs
      BY <1>1, <2>1 DEF DumpHook, GuestRegs
    <2>3. DumpIn' = DumpIn /\ RestoreIn' = RestoreIn
      BY <1>1 DEF DumpHook, IInv, Idle, DumpIn, RestoreIn
    <2>4. View' = View
      BY <1>1, <2>3, ViewFrame DEF DumpHook
    <2> QED BY <1>1, <2>2, <2>4 DEF DumpHook, Stutter, Halted
  <1>2. CASE RestoreHook
    <2>1. cpu.pc + R = base_bbl
      <3>1. cpu.pc = restore.jmp /\ restore.jmp + R = base_bbl
        BY <1>2 DEF RestoreHook, IInv, Layout, Files
      <3> QED BY <3>1
    <2>2. cpu' = [pc |-> base_bbl, rax |-> state.rax, zf |-> state.zf, rsp |-> state.rsp]
      <3>1. cpu = [pc |-> restore.jmp, rax |-> Junk, zf |-> state.zf, rsp |-> state.rsp]
        BY <1>2 DEF RestoreHook, IInv, Files
      <3>2. cpu' = [cpu EXCEPT !.rax = state.rax, !.pc = base_bbl]
        BY <1>2, <2>1 DEF RestoreHook
      <3> QED BY <3>1, <3>2
    <2>3. cpu' = [state EXCEPT !.pc = base_bbl]
      BY <2>2 DEF IInv, TypeOK, Regs
    <2>4. GuestRegs' = GuestRegs
      BY <1>2, <2>3 DEF RestoreHook, GuestRegs
    <2>5. DumpIn' = DumpIn /\ RestoreIn' = RestoreIn
      BY <1>2 DEF RestoreHook, DumpIn, RestoreIn
    <2>6. View' = View
      BY <1>2, <2>5, ViewFrame DEF RestoreHook
    <2> QED BY <1>2, <2>4, <2>6 DEF RestoreHook, Stutter, Halted
  <1>3. CASE Decode
    <2>1. DumpIn' = DumpIn /\ RestoreIn' = RestoreIn
      BY <1>3 DEF Decode, DumpIn, RestoreIn
    <2>2. View' = View
      BY <1>3, <2>1, ViewFrame DEF Decode
    <2> QED BY <1>3, <2>2 DEF Decode, Stutter, Halted, GuestRegs
  <1>4. CASE SyscallUnhandled
    <2>1. [state EXCEPT !.pc = curr_hook] = state
      BY <1>4 DEF SyscallUnhandled, IInv, TypeOK, Files, HostPhases, Regs
    <2>2. GuestRegs' = GuestRegs
      BY <1>4, <2>1 DEF SyscallUnhandled, GoTo, GuestRegs
    <2>3. DumpIn' = DumpIn /\ RestoreIn' = RestoreIn
      BY <1>4 DEF SyscallUnhandled, GoTo, DumpIn, RestoreIn
    <2>4. View' = View
      BY <1>4, <2>3, ViewFrame DEF SyscallUnhandled
    <2> QED BY <1>4, <2>2, <2>4 DEF SyscallUnhandled, GoTo, Stutter, Halted
  <1>5. CASE EmulateFail \/ GuestFault \/ InstrumentFail \/ WriteRestoreFail
    <2>1. DumpIn' = DumpIn /\ RestoreIn' = RestoreIn
      BY <1>5 DEF EmulateFail, GuestFault, InstrumentFail, WriteRestoreFail, DumpIn,
        RestoreIn
    <2>2. View' = View
      BY <1>5, <2>1, ViewFrame
      DEF EmulateFail, GuestFault, InstrumentFail, WriteRestoreFail
    <2> QED BY <1>5, <2>2
          DEF EmulateFail, GuestFault, InstrumentFail, WriteRestoreFail, Stutter, Halted,
            GuestRegs
  <1>6. CASE ScanStep \/ ScanEnd
    <2>1. DumpIn' = {} /\ DumpIn = {} /\ RestoreIn' = {} /\ RestoreIn = {}
      BY <1>6 DEF ScanStep, ScanEnd, Decodable, DumpIn, RestoreIn
    <2>2. View' = View
      BY <1>6, <2>1, ViewFrame DEF ScanStep, ScanEnd
    <2> QED BY <1>6, <2>2 DEF ScanStep, ScanEnd, Decodable, Stutter, Halted, GuestRegs
  <1>7. CASE SaveDump
    <2>1. phase = "save_dump" /\ phase' \in {"save_dump", "write_dump"}
      <3>1. copied = DumpIdx => DumpHeld = DumpIdx
        BY <1>7 DEF SaveDump, DumpHeld
      <3> QED BY <1>7, <3>1 DEF SaveDump, IInv, Held
    <2>2. DumpIn' = {} /\ DumpIn = {} /\ RestoreIn' = {} /\ RestoreIn = {}
      <3>1. phase' = "write_dump" => copied' = {}
        BY <1>7 DEF SaveDump
      <3> QED BY <2>1, <3>1 DEF DumpIn, RestoreIn
    <2>3. View' = View
      BY <1>7, <2>2, ViewFrame DEF SaveDump
    <2> QED BY <1>7, <2>1, <2>3 DEF SaveDump, Stutter, Halted, GuestRegs
  <1>8. CASE SaveRestore
    <2>1. phase = "save_restore" /\ phase' \in {"save_restore", "write_restore"}
      <3>1. copied = RestoreIdx => RestoreHeld = RestoreIdx
        BY <1>8 DEF SaveRestore, RestoreHeld
      <3> QED BY <1>8, <3>1 DEF SaveRestore, IInv, Held
    <2>2. DumpIn' = DumpIn /\ RestoreIn' = {} /\ RestoreIn = {}
      <3>1. phase' = "write_restore" => copied' = {}
        BY <1>8 DEF SaveRestore
      <3> QED BY <2>1, <3>1 DEF DumpIn, RestoreIn
    <2>3. View' = View
      BY <1>8, <2>2, ViewFrame DEF SaveRestore
    <2> QED BY <1>8, <2>1, <2>3 DEF SaveRestore, Stutter, Halted, GuestRegs
  <1>9. CASE Launch
    <2>1. [state EXCEPT !.pc = base_bbl] = state
      BY <1>9 DEF Launch, IInv, TypeOK, Files, Regs
    <2>2. DumpIn' = DumpIn /\ RestoreIn' = RestoreIn
      BY <1>9 DEF Launch, DumpIn, RestoreIn
    <2>3. View' = View
      BY <1>9, <2>2, ViewFrame DEF Launch
    <2> QED BY <1>9, <2>1, <2>3 DEF Launch, Stutter, Halted, GuestRegs
  <1>10. CASE Continue
    <2>1. DumpIn' = DumpIn /\ RestoreIn' = RestoreIn
      BY <1>10 DEF Continue, DumpIn, RestoreIn
    <2>2. View' = View
      BY <1>10, <2>1, ViewFrame DEF Continue
    <2> QED BY <1>10, <2>2 DEF Continue, Stutter, Halted, GuestRegs
  <1>11. CASE Finished
    <2>1. DumpIn' = DumpIn /\ RestoreIn' = RestoreIn
      BY <1>11 DEF Finished, vars, DumpIn, RestoreIn
    <2>2. View' = View
      BY <1>11, <2>1, ViewFrame DEF Finished, vars
    <2> QED BY <1>11, <2>2 DEF Finished, vars, Stutter, Halted, GuestRegs
  <1> QED BY <1>1, <1>2, <1>3, <1>4, <1>5, <1>6, <1>7, <1>8, <1>9, <1>10, <1>11

\* A cell put back by restore_bytes, or hidden by write_hook, does not show: the
\* saved byte is what the cell holds when the hook's byte is not there.
LEMMA CopyStutters ==
    ASSUME IInv, IInv', ~OffContract',
           RestoreRestore \/ RestoreDump \/ WriteDump \/ WriteRestore
    PROVE  Stutter
  <1>0. ~touched
    BY DEF RestoreRestore, RestoreDump, WriteDump, WriteRestore
  <1>1. CASE RestoreRestore
    <2>0. /\ phase = "dispatch" /\ restore.jmp + R = base_bbl /\ base_bbl <= dump.jmp
          /\ restore.jmp # 0
      BY <1>1, CpuAssumption DEF RestoreRestore, IInv, Layout, Addr
    <2>1. MemWrite(restore.jmp, RestoreIdx, restore.orig, "undump")
      BY <1>1, <2>0 DEF RestoreRestore
    <2>2. View' = View /\ phase' \in {"dispatch", "undump"}
      <3>1. CASE \E i \in RestoreIdx \ copied :
                   /\ mem' = [mem EXCEPT ![restore.jmp + i] = restore.orig[i]]
                   /\ copied' = copied \cup {i} /\ phase' = phase
        <4>1. PICK i \in RestoreIdx \ copied :
                   /\ mem' = [mem EXCEPT ![restore.jmp + i] = restore.orig[i]]
                   /\ copied' = copied \cup {i} /\ phase' = "dispatch"
          BY <2>0, <3>1
        <4>2. \A x \in Addr : mem'[x] = IF x - restore.jmp = i THEN restore.orig[i]
                                        ELSE mem[x]
          BY <4>1, HookTypes, CpuAssumption DEF RestoreIdx, Addr
        <4>3. /\ DumpIn' = DumpIdx /\ DumpIn = DumpIdx
              /\ RestoreIn' = RestoreIn \ {i} /\ i \in RestoreIn
          BY <2>0, <4>1 DEF DumpIn, RestoreIn
        <4>4. \A x \in Addr : x - restore.jmp = i => x - dump.jmp \notin DumpIdx
          BY <2>0, Disjoint
        <4>5. \A x \in Addr : View'[x] = View[x]
          BY <1>1, <4>2, <4>3, <4>4, ViewCell DEF RestoreRestore
        <4> QED BY <4>1, <4>5, ViewCell
      <3>2. CASE /\ copied = RestoreIdx /\ mem' = mem
                 /\ phase' = IF Holds(mem, restore.jmp, RestoreIdx, restore.orig)
                             THEN "undump" ELSE "killed"
                 /\ copied' = {}
        <4>1. phase' = "undump"
          <5>1. RestoreHeld = RestoreIdx
            BY <2>0, <3>2 DEF RestoreHeld
          <5> QED BY <1>0, <3>2, <5>1 DEF IInv, Held
        <4>2. DumpIn' = DumpIn /\ RestoreIn' = RestoreIn
          BY <2>0, <3>2, <4>1 DEF DumpIn, RestoreIn
        <4> QED BY <1>1, <3>2, <4>1, <4>2, ViewFrame DEF RestoreRestore
      <3> QED BY <2>1, <3>1, <3>2 DEF MemWrite
    <2> QED BY <1>1, <2>0, <2>2 DEF RestoreRestore, Stutter, Halted, GuestRegs
  <1>2. CASE RestoreDump
    <2>0. phase = "undump"
      BY <1>2 DEF RestoreDump
    <2>1. MemWrite(dump.jmp, DumpIdx, dump.orig, "decode")
      BY <1>2 DEF RestoreDump
    <2>2. View' = View /\ phase' \in {"undump", "decode"}
      <3>1. CASE \E i \in DumpIdx \ copied :
                   /\ mem' = [mem EXCEPT ![dump.jmp + i] = dump.orig[i]]
                   /\ copied' = copied \cup {i} /\ phase' = phase
        <4>1. PICK i \in DumpIdx \ copied :
                   /\ mem' = [mem EXCEPT ![dump.jmp + i] = dump.orig[i]]
                   /\ copied' = copied \cup {i} /\ phase' = "undump"
          BY <2>0, <3>1
        <4>2. \A x \in Addr : mem'[x] = IF x - dump.jmp = i THEN dump.orig[i] ELSE mem[x]
          BY <4>1, HookTypes, CpuAssumption DEF DumpIdx, Addr
        <4>3. /\ RestoreIn' = {} /\ RestoreIn = {}
              /\ DumpIn' = DumpIn \ {i} /\ i \in DumpIn
          BY <2>0, <4>1 DEF DumpIn, RestoreIn
        <4>5. \A x \in Addr : View'[x] = View[x]
          BY <1>2, <4>2, <4>3, ViewCell DEF RestoreDump
        <4> QED BY <4>1, <4>5, ViewCell
      <3>2. CASE /\ copied = DumpIdx /\ mem' = mem
                 /\ phase' = IF Holds(mem, dump.jmp, DumpIdx, dump.orig)
                             THEN "decode" ELSE "killed"
                 /\ copied' = {}
        <4>1. phase' = "decode"
          <5>1. DumpHeld = DumpIdx
            BY <2>0, <3>2 DEF DumpHeld
          <5> QED BY <1>0, <3>2, <5>1 DEF IInv, Held
        <4>2. DumpIn' = DumpIn /\ RestoreIn' = RestoreIn
          BY <2>0, <3>2, <4>1 DEF DumpIn, RestoreIn
        <4> QED BY <1>2, <3>2, <4>1, <4>2, ViewFrame DEF RestoreDump
      <3> QED BY <2>1, <3>1, <3>2 DEF MemWrite
    <2> QED BY <1>2, <2>0, <2>2 DEF RestoreDump, Stutter, Halted, GuestRegs
  <1>3. CASE WriteDump
    <2>0. phase = "write_dump"
      BY <1>3 DEF WriteDump
    <2>1. MemWrite(dump.jmp, DumpIdx, DumpCode, "save_restore")
      BY <1>3 DEF WriteDump
    <2>2. View' = View /\ phase' \in {"write_dump", "save_restore"}
      <3>1. CASE \E i \in DumpIdx \ copied :
                   /\ mem' = [mem EXCEPT ![dump.jmp + i] = DumpCode[i]]
                   /\ copied' = copied \cup {i} /\ phase' = phase
        <4>1. PICK i \in DumpIdx \ copied :
                   /\ mem' = [mem EXCEPT ![dump.jmp + i] = DumpCode[i]]
                   /\ copied' = copied \cup {i} /\ phase' = "write_dump"
          BY <2>0, <3>1
        <4>2. \A x \in Addr : mem'[x] = IF x - dump.jmp = i THEN DumpCode[i] ELSE mem[x]
          BY <4>1, HookTypes, CpuAssumption DEF DumpIdx, Addr
        <4>3. /\ RestoreIn' = {} /\ RestoreIn = {}
              /\ DumpIn' = DumpIn \cup {i} /\ i \notin DumpIn /\ i \in DumpHeld
          BY <2>0, <4>1 DEF DumpIn, RestoreIn, DumpHeld
        <4>4. \A x \in Addr : x - dump.jmp = i => mem[x] = dump.orig[i]
          BY <1>0, <4>3 DEF IInv, Held, Holds, At
        <4>5. \A x \in Addr : View'[x] = View[x]
          BY <1>3, <4>2, <4>3, <4>4, ViewCell DEF WriteDump
        <4> QED BY <4>1, <4>5, ViewCell
      <3>2. CASE /\ copied = DumpIdx /\ mem' = mem
                 /\ phase' = IF Holds(mem, dump.jmp, DumpIdx, DumpCode)
                             THEN "save_restore" ELSE "killed"
                 /\ copied' = {}
        <4>1. phase' = "save_restore"
          <5>1. DumpIn = DumpIdx
            BY <2>0, <3>2 DEF DumpIn
          <5> QED BY <1>0, <3>2, <5>1 DEF IInv, Whole
        <4>2. DumpIn' = DumpIn /\ RestoreIn' = RestoreIn /\ RestoreIn = {}
          BY <2>0, <3>2, <4>1 DEF DumpIn, RestoreIn
        <4> QED BY <1>3, <3>2, <4>1, <4>2, ViewFrame DEF WriteDump
      <3> QED BY <2>1, <3>1, <3>2 DEF MemWrite
    <2> QED BY <1>3, <2>0, <2>2 DEF WriteDump, Stutter, Halted, GuestRegs
  <1>4. CASE WriteRestore
    <2>0. phase = "write_restore" /\ restore.jmp + R = base_bbl /\ base_bbl <= dump.jmp
      BY <1>4 DEF WriteRestore, IInv, Layout
    <2>1. MemWrite(restore.jmp, RestoreIdx, RestoreCode,
                   IF started THEN "continue" ELSE "launch")
      BY <1>4 DEF WriteRestore
    <2>2. View' = View /\ phase' \in {"write_restore", "continue", "launch"}
      <3>1. CASE \E i \in RestoreIdx \ copied :
                   /\ mem' = [mem EXCEPT ![restore.jmp + i] = RestoreCode[i]]
                   /\ copied' = copied \cup {i} /\ phase' = phase
        <4>1. PICK i \in RestoreIdx \ copied :
                   /\ mem' = [mem EXCEPT ![restore.jmp + i] = RestoreCode[i]]
                   /\ copied' = copied \cup {i} /\ phase' = "write_restore"
          BY <2>0, <3>1
        <4>2. \A x \in Addr : mem'[x] = IF x - restore.jmp = i THEN RestoreCode[i]
                                        ELSE mem[x]
          BY <4>1, HookTypes, CpuAssumption DEF RestoreIdx, Addr
        <4>3. /\ DumpIn' = DumpIdx /\ DumpIn = DumpIdx /\ i \in RestoreHeld
              /\ RestoreIn' = RestoreIn \cup {i} /\ i \notin RestoreIn
          BY <2>0, <4>1 DEF DumpIn, RestoreIn, RestoreHeld
        <4>4. \A x \in Addr : x - restore.jmp = i =>
                 x - dump.jmp \notin DumpIdx /\ mem[x] = restore.orig[i]
          BY <1>0, <2>0, <4>3, Disjoint DEF IInv, Held, Holds, At
        <4>5. \A x \in Addr : View'[x] = View[x]
          BY <1>4, <4>2, <4>3, <4>4, ViewCell DEF WriteRestore
        <4> QED BY <4>1, <4>5, ViewCell
      <3>2. CASE /\ copied = RestoreIdx /\ mem' = mem
                 /\ phase' = IF Holds(mem, restore.jmp, RestoreIdx, RestoreCode)
                             THEN IF started THEN "continue" ELSE "launch"
                             ELSE "killed"
                 /\ copied' = {}
        <4>1. phase' \in {"continue", "launch"}
          <5>1. RestoreIn = RestoreIdx
            BY <2>0, <3>2 DEF RestoreIn
          <5> QED BY <1>0, <3>2, <5>1 DEF IInv, Whole
        <4>2. DumpIn' = DumpIn /\ RestoreIn' = RestoreIn
          BY <2>0, <3>2, <4>1 DEF DumpIn, RestoreIn
        <4> QED BY <1>4, <3>2, <4>1, <4>2, ViewFrame DEF WriteRestore
      <3> QED BY <2>1, <3>1, <3>2 DEF MemWrite
    <2>3. [state' EXCEPT !.pc = base_bbl] = [state EXCEPT !.pc = base_bbl]
      BY <1>4 DEF WriteRestore, IInv, TypeOK, Regs
    <2>4. GuestRegs' = GuestRegs
      BY <1>4, <2>0, <2>2, <2>3 DEF WriteRestore, GuestRegs
    <2> QED BY <1>4, <2>0, <2>2, <2>4 DEF WriteRestore, Stutter, Halted
  <1> QED BY <1>1, <1>2, <1>3, <1>4

\* While the branch is emulated the guest's memory is the memory, its registers
\* are the saved ones, and afterwards it is at the new block.
LEMMA EmulateView ==
    ASSUME IInv, phase = "emulate"
    PROVE  /\ View = mem /\ GuestRegs = state /\ state.pc = curr_hook
           /\ curr_hook \in Addr
           /\ phase' = "instrument" /\ mem' \in [Addr -> Cell] =>
                 View' = mem' /\ GuestRegs' = [state' EXCEPT !.pc = base_bbl']
  <1>1. GuestRegs = state /\ state.pc = curr_hook /\ curr_hook \in Addr
    BY DEF IInv, Layout, Files, HostPhases, GuestRegs
  <1>2. View = mem
    <2>1. DumpIn = {} /\ RestoreIn = {} /\ mem \in [Addr -> Cell]
      BY DEF DumpIn, RestoreIn, IInv, TypeOK
    <2> QED BY <2>1 DEF View
  <1>3. ASSUME phase' = "instrument", mem' \in [Addr -> Cell]
        PROVE  View' = mem' /\ GuestRegs' = [state' EXCEPT !.pc = base_bbl']
    <2>1. DumpIn' = {} /\ RestoreIn' = {}
      BY <1>3 DEF DumpIn, RestoreIn
    <2> QED BY <1>3, <2>1 DEF View, GuestRegs
  <1> QED BY <1>1, <1>2, <1>3

\* The emulation of a branch or of a hooked system call is one instruction.
LEMMA EmulateSteps ==
    ASSUME IInv, IInv', ~OffContract',
           EmulateJmp \/ EmulateCall \/ EmulateRet \/ SyscallHooked \/ SyscallExit
    PROVE  Native!Step
  <1> USE DEF Native!Op, Native!Operand, Native!Exits
  <1>0. /\ phase = "emulate" /\ OffContract' = OffContract /\ ~Halted
        /\ View = mem /\ GuestRegs = state /\ state.pc = curr_hook
        /\ curr_hook \in Addr /\ Native!Op(View, GuestRegs) = Kind[insn]
        /\ Native!Operand(View, GuestRegs) = Arg[insn] /\ Target = Arg[insn]
        /\ state \in Regs /\ mem \in [Addr -> Cell] /\ Arg[insn] \in Pc
        /\ mem' \in [Addr -> Cell]
    <2>1. phase = "emulate" /\ OffContract' = OffContract
      <3>1. phase = "emulate" /\ touched' = touched
        BY Zenon DEF EmulateJmp, EmulateCall, EmulateRet, SyscallHooked, SyscallExit
      <3>2. ~touched' /\ ~lost'
        OBVIOUS
      <3>3. CASE SyscallHooked
        <4>1. lost \in BOOLEAN /\ lost' = (lost \/ SysRet[state.rax] \in Errnos)
          BY <3>3, Zenon DEF SyscallHooked, IInv, TypeOK
        <4>2. ~lost
          BY <3>2, <4>1, SMT
        <4> QED BY <3>1, <3>2, <4>2, Zenon
      <3>4. CASE ~SyscallHooked
        <4>1. lost' = lost
          BY <3>4, Zenon DEF EmulateJmp, EmulateCall, EmulateRet, SyscallExit
        <4> QED BY <3>1, <4>1, Zenon
      <3> QED BY <3>3, <3>4
    <2>2. /\ View = mem /\ GuestRegs = state /\ state.pc = curr_hook
          /\ curr_hook \in Addr /\ state \in Regs /\ mem \in [Addr -> Cell]
      BY <2>1, EmulateView DEF IInv, TypeOK
    <2>3. Arg[insn] \in Pc /\ insn = mem[curr_hook] /\ mem' \in [Addr -> Cell]
      BY <2>1, CpuAssumption DEF IInv, TypeOK, Held
    <2>4. Target = Arg[insn]
      BY <2>2, <2>3, CpuAssumption DEF Target, Pc, Addr
    <2> QED BY <2>1, <2>2, <2>3, <2>4 DEF Halted
  <1>1. CASE EmulateJmp
    <2>1. ~Native!Faults(View, GuestRegs)
      BY <1>0, <1>1 DEF EmulateJmp, Native!Faults, Native!Addr, Addr
    <2>2. ~Native!Exits(View, GuestRegs)
      BY <1>0, <1>1 DEF EmulateJmp
    <2>3. GuestRegs' = Native!NextRegs(View, GuestRegs)
      <3>1. Native!NextPc(View, GuestRegs) = base_bbl'
        BY <1>0, <1>1 DEF EmulateJmp, GoTo, IsTaken, Native!NextPc, Native!Jumps
      <3>2. /\ Native!NextRax(View, GuestRegs) = state.rax
            /\ Native!NextRsp(View, GuestRegs) = state.rsp
        BY <1>0, <1>1 DEF EmulateJmp, Native!NextRax, Native!NextRsp
      <3>3. Native!NextZf(View, GuestRegs) = state.zf
        BY <1>0, <1>1, Zenon DEF EmulateJmp, Native!NextZf
      <3>4. GuestRegs' = [state EXCEPT !.pc = base_bbl']
        BY <1>0, <1>1, EmulateView DEF EmulateJmp, GoTo
      <3>5. [state EXCEPT !.pc = base_bbl'] =
              [pc |-> base_bbl', rax |-> state.rax, zf |-> state.zf, rsp |-> state.rsp]
        BY <1>0 DEF Regs
      <3> QED BY <3>1, <3>2, <3>3, <3>4, <3>5 DEF Native!NextRegs
    <2>4. View' = Native!NextMem(View, GuestRegs)
      <3>1. Native!Writes(View, GuestRegs) = {}
        BY <1>0, <1>1 DEF EmulateJmp, Native!Writes
      <3>2. View' = mem
        BY <1>0, <1>1, EmulateView DEF EmulateJmp, GoTo
      <3> QED BY <1>0, <3>1, <3>2 DEF Native!NextMem, Native!Addr, Addr
    <2> QED BY <1>0, <1>1, <2>1, <2>2, <2>3, <2>4
          DEF EmulateJmp, GoTo, Halted, Native!Step, Native!Execute
  <1>2. CASE EmulateCall
    <2>1. ~Native!Faults(View, GuestRegs)
      BY <1>0, <1>2 DEF EmulateCall, Native!Faults, Native!Addr, Addr
    <2>2. ~Native!Exits(View, GuestRegs)
      BY <1>0, <1>2 DEF EmulateCall
    <2>3. GuestRegs' = Native!NextRegs(View, GuestRegs)
      <3>1. Native!NextPc(View, GuestRegs) = base_bbl'
        BY <1>0, <1>2 DEF EmulateCall, GoTo, Native!NextPc, Native!Jumps
      <3>2. /\ Native!NextRax(View, GuestRegs) = state.rax
            /\ Native!NextRsp(View, GuestRegs) = state.rsp - 1
        BY <1>0, <1>2 DEF EmulateCall, Native!NextRax, Native!NextRsp
      <3>3. Native!NextZf(View, GuestRegs) = state.zf
        BY <1>0, <1>2, Zenon DEF EmulateCall, Native!NextZf
      <3>4. GuestRegs' = [state' EXCEPT !.pc = base_bbl']
        BY <1>0, <1>2, EmulateView DEF EmulateCall, GoTo
      <3>5. state' = [state EXCEPT !.rsp = state.rsp - 1]
        BY <1>2 DEF EmulateCall
      <3>6. GuestRegs' = [pc |-> base_bbl', rax |-> state.rax,
                          zf |-> state.zf, rsp |-> state.rsp - 1]
        BY <1>0, <3>4, <3>5 DEF Regs
      <3> QED BY <3>1, <3>2, <3>3, <3>6 DEF Native!NextRegs
    <2>4. View' = Native!NextMem(View, GuestRegs)
      <3>1. /\ Native!Writes(View, GuestRegs) = {state.rsp - 1}
            /\ Native!Stored(View, GuestRegs) = Word[state.pc + 1]
        BY <1>0, <1>2 DEF EmulateCall, Native!Writes, Native!Stored, Native!Addr, Addr
      <3>2. View' = [mem EXCEPT ![state.rsp - 1] = Word[state.pc + 1]]
        BY <1>0, <1>2, EmulateView DEF EmulateCall, GoTo
      <3> QED BY <1>0, <3>1, <3>2 DEF Native!NextMem, Native!Addr, Addr
    <2> QED BY <1>0, <1>2, <2>1, <2>2, <2>3, <2>4
          DEF EmulateCall, GoTo, Halted, Native!Step, Native!Execute
  <1>3. CASE EmulateRet
    <2>1. ~Native!Faults(View, GuestRegs)
      BY <1>0, <1>3 DEF EmulateRet, Native!Faults, Native!Addr, Addr
    <2>2. ~Native!Exits(View, GuestRegs)
      BY <1>0, <1>3 DEF EmulateRet
    <2>3. GuestRegs' = Native!NextRegs(View, GuestRegs)
      <3>1. Native!NextPc(View, GuestRegs) = base_bbl'
        BY <1>0, <1>3 DEF EmulateRet, GoTo, Native!NextPc, Native!Jumps
      <3>2. /\ Native!NextRax(View, GuestRegs) = state.rax
            /\ Native!NextRsp(View, GuestRegs) = state.rsp + 1
        BY <1>0, <1>3 DEF EmulateRet, Native!NextRax, Native!NextRsp
      <3>3. Native!NextZf(View, GuestRegs) = state.zf
        BY <1>0, <1>3, Zenon DEF EmulateRet, Native!NextZf
      <3>4. GuestRegs' = [state' EXCEPT !.pc = base_bbl']
        BY <1>0, <1>3, EmulateView DEF EmulateRet, GoTo
      <3>5. state' = [state EXCEPT !.rsp = state.rsp + 1]
        BY <1>3 DEF EmulateRet
      <3>6. GuestRegs' = [pc |-> base_bbl', rax |-> state.rax,
                          zf |-> state.zf, rsp |-> state.rsp + 1]
        BY <1>0, <3>4, <3>5 DEF Regs
      <3> QED BY <3>1, <3>2, <3>3, <3>6 DEF Native!NextRegs
    <2>4. View' = Native!NextMem(View, GuestRegs)
      <3>1. Native!Writes(View, GuestRegs) = {}
        BY <1>0, <1>3 DEF EmulateRet, Native!Writes
      <3>2. View' = mem
        BY <1>0, <1>3, EmulateView DEF EmulateRet, GoTo
      <3> QED BY <1>0, <3>1, <3>2 DEF Native!NextMem, Native!Addr, Addr
    <2> QED BY <1>0, <1>3, <2>1, <2>2, <2>3, <2>4
          DEF EmulateRet, GoTo, Halted, Native!Step, Native!Execute
  <1>4. CASE SyscallHooked
    <2>1. ~Native!Faults(View, GuestRegs)
      BY <1>0, <1>4 DEF SyscallHooked, Native!Faults, Native!Addr, Addr
    <2>2. ~Native!Exits(View, GuestRegs)
      BY <1>0, <1>4 DEF SyscallHooked
    <2>3. GuestRegs' = Native!NextRegs(View, GuestRegs)
      <3>1. Native!NextPc(View, GuestRegs) = base_bbl'
        BY <1>0, <1>4 DEF SyscallHooked, GoTo, Native!NextPc, Native!Jumps
      <3>2. /\ Native!NextRax(View, GuestRegs) = SysRet[state.rax]
            /\ Native!NextRsp(View, GuestRegs) = state.rsp
        BY <1>0, <1>4 DEF SyscallHooked, Native!NextRax, Native!NextRsp
      <3>3. Native!NextZf(View, GuestRegs) = state.zf
        BY <1>0, <1>4, Zenon DEF SyscallHooked, Native!NextZf
      <3>4. GuestRegs' = [state' EXCEPT !.pc = base_bbl']
        BY <1>0, <1>4, EmulateView DEF SyscallHooked, GoTo
      <3>5. state' = [state EXCEPT !.rax = SysRet[state.rax]]
        BY <1>4 DEF SyscallHooked, LibcRet, OffContract
      <3>6. GuestRegs' = [pc |-> base_bbl', rax |-> SysRet[state.rax],
                          zf |-> state.zf, rsp |-> state.rsp]
        BY <1>0, <3>4, <3>5 DEF Regs
      <3> QED BY <3>1, <3>2, <3>3, <3>6 DEF Native!NextRegs
    <2>4. View' = Native!NextMem(View, GuestRegs)
      <3>1. /\ Native!Writes(View, GuestRegs) = {Arg[insn]} \cap Addr
            /\ Native!Stored(View, GuestRegs) = KData
        BY <1>0, <1>4 DEF SyscallHooked, Native!Writes, Native!Stored, Native!Addr, Addr
      <3>2. View' = IF Arg[insn] \in Addr THEN [mem EXCEPT ![Arg[insn]] = KData] ELSE mem
        BY <1>0, <1>4, EmulateView DEF SyscallHooked, GoTo
      <3> QED BY <1>0, <3>1, <3>2 DEF Native!NextMem, Native!Addr, Addr
    <2> QED BY <1>0, <1>4, <2>1, <2>2, <2>3, <2>4
          DEF SyscallHooked, GoTo, Halted, Native!Step, Native!Execute
  <1>5. CASE SyscallExit
    <2>1. DumpIn' = DumpIn /\ RestoreIn' = RestoreIn
      BY <1>5 DEF SyscallExit, DumpIn, RestoreIn
    <2>2. View' = View
      BY <1>5, <2>1, ViewFrame DEF SyscallExit
    <2>3. GuestRegs' = GuestRegs
      BY <1>5 DEF SyscallExit, GuestRegs
    <2>4. ~Native!Faults(View, GuestRegs) /\ Native!Exits(View, GuestRegs)
      BY <1>0, <1>5 DEF SyscallExit, Native!Faults, Native!Addr, Addr
    <2> QED BY <1>0, <1>5, <2>2, <2>3, <2>4
          DEF SyscallExit, Halted, Native!Step, Native!Exit
  <1> QED BY <1>1, <1>2, <1>3, <1>4, <1>5

\* A native instruction of a guest that leaves the patched cells alone is the
\* same instruction on the guest's own memory.
LEMMA GuestSteps ==
    ASSUME IInv, ~OffContract', GuestStep
    PROVE  Native!Step
  <1> DEFINE Win == DumpWin \cup RestoreWin
  <1>0. /\ phase = "guest" /\ cpu \in Regs /\ mem \in [Addr -> Cell]
        /\ cpu.pc \notin Win /\ ~Faults(mem, cpu) /\ GuestRegs = cpu
        /\ cpu.pc \in Addr /\ ~touched
    BY DEF GuestStep, IInv, TypeOK, GuestRegs, Faults
  <1>1. DumpIn = DumpIdx /\ RestoreIn = RestoreIdx
    BY <1>0 DEF DumpIn, RestoreIn
  <1>2. \A x \in Addr : x \notin Win => View[x] = mem[x]
    BY <1>1, ViewCell DEF DumpWin, RestoreWin, At
  <1>3. View[cpu.pc] = mem[cpu.pc]
    BY <1>0, <1>2
  <1>4. /\ Native!Op(View, GuestRegs) = Op(mem, cpu)
        /\ Native!Operand(View, GuestRegs) = Operand(mem, cpu)
    BY <1>0, <1>3 DEF Native!Op, Native!Operand, Op, Operand
  <1>5. ~Native!Faults(View, GuestRegs)
    BY <1>0, <1>4 DEF Native!Faults, Faults, Native!Addr, Addr
  <1>6. CASE Exits(mem, cpu)
    <2>1. Native!Exits(View, GuestRegs)
      BY <1>0, <1>4, <1>6 DEF Native!Exits, Exits
    <2>2. DumpIn' = DumpIn /\ RestoreIn' = RestoreIn
      BY <1>0, <1>6 DEF GuestStep, DumpIn, RestoreIn
    <2>3. View' = View /\ GuestRegs' = GuestRegs
      BY <1>0, <1>6, <2>2, ViewFrame DEF GuestStep, GuestRegs
    <2> QED BY <1>0, <1>5, <1>6, <2>1, <2>3 DEF GuestStep, Halted, Native!Step, Native!Exit
  <1>7. CASE ~Exits(mem, cpu)
    <2>1. ~Native!Exits(View, GuestRegs)
      BY <1>0, <1>4, <1>7 DEF Native!Exits, Exits
    <2>2. /\ phase' = "guest" /\ cpu' = NextRegs(mem, cpu) /\ mem' = NextMem(mem, cpu)
          /\ nsys' = IF Op(mem, cpu) = "sys" THEN 1 - nsys ELSE nsys
          /\ dump' = dump /\ restore' = restore
          /\ (Reads(mem, cpu) \cup Writes(mem, cpu)) \cap Win = {}
      BY <1>0, <1>7 DEF GuestStep
    <2>3. /\ Native!Writes(View, GuestRegs) = Writes(mem, cpu)
          /\ Native!Stored(View, GuestRegs) = Stored(mem, cpu)
      BY <1>0, <1>4 DEF Native!Writes, Writes, Native!Stored, Stored, Native!Addr, Addr
    <2>4. View' = Native!NextMem(View, GuestRegs)
      <3>1. DumpIn' = DumpIdx /\ RestoreIn' = RestoreIdx
        BY <2>2 DEF DumpIn, RestoreIn
      <3>2. Native!NextMem(View, GuestRegs) =
              [x \in Addr |-> IF x \in Writes(mem, cpu) THEN Stored(mem, cpu) ELSE View[x]]
        BY <2>3 DEF Native!NextMem, Native!Addr, Addr
      <3>3. \A x \in Addr : View'[x] = IF x \in Writes(mem, cpu) THEN Stored(mem, cpu)
                                       ELSE View[x]
        <4>1. \A x \in Addr : mem'[x] = IF x \in Writes(mem, cpu) THEN Stored(mem, cpu)
                                         ELSE mem[x]
          BY <2>2 DEF NextMem
        <4> QED BY <1>1, <2>2, <3>1, <4>1, ViewCell DEF DumpWin, RestoreWin, At
      <3> QED BY <3>2, <3>3, ViewCell
    <2>5. GuestRegs' = Native!NextRegs(View, GuestRegs)
      <3>1. Native!NextPc(View, GuestRegs) = NextPc(mem, cpu)
        <4>1. Op(mem, cpu) = "ret" => View[cpu.rsp] = mem[cpu.rsp]
          BY <1>0, <1>2, <2>2 DEF Reads, Faults
        <4> QED BY <1>0, <1>4, <4>1 DEF Native!NextPc, NextPc, Native!Jumps, Jumps
      <3>2. Native!NextRax(View, GuestRegs) = NextRax(mem, cpu)
        <4>1. Op(mem, cpu) = "load" => View[Operand(mem, cpu)] = mem[Operand(mem, cpu)]
          BY <1>0, <1>2, <2>2 DEF Reads, Faults
        <4> QED BY <1>0, <1>4, <4>1 DEF Native!NextRax, NextRax
      <3>3. Native!NextZf(View, GuestRegs) = NextZf(mem, cpu)
        BY <1>0, <1>4, Zenon DEF Native!NextZf, NextZf
      <3>4. Native!NextRsp(View, GuestRegs) = NextRsp(mem, cpu)
        BY <1>0, <1>4 DEF Native!NextRsp, NextRsp
      <3>5. GuestRegs' = NextRegs(mem, cpu)
        BY <2>2 DEF GuestRegs
      <3> QED BY <3>1, <3>2, <3>3, <3>4, <3>5 DEF Native!NextRegs, NextRegs
    <2>6. OffContract' = OffContract /\ ~Halted /\ Halted' = Halted
      <3>1. ~touched /\ ~touched' /\ lost' = lost
        BY <1>0, <2>2 DEF GuestStep
      <3>2. OffContract' = OffContract
        BY <3>1, Zenon
      <3> QED BY <1>0, <2>2, <3>2 DEF Halted
    <2> QED BY <1>0, <1>4, <1>5, <2>1, <2>2, <2>4, <2>5, <2>6
          DEF Native!Step, Native!Execute
  <1> QED BY <1>6, <1>7

\* The loaded program, before anything is patched, is a start of the native one.
LEMMA InitNative == Init => Native!Init
  <1> SUFFICES ASSUME Init PROVE Native!Init
    OBVIOUS
  <1>1. View = mem /\ mem \in [Addr -> Cell]
    <2>1. DumpIn = {} /\ RestoreIn = {} /\ mem \in [Addr -> Cell]
      BY EngineAssumption DEF Init, DumpIn, RestoreIn
    <2> QED BY <2>1 DEF View
  <1>2. GuestRegs = Boot
    BY EngineAssumption DEF Init, GuestRegs, Regs
  <1> QED BY <1>1, <1>2 DEF Init, Halted, Native!Init, Native!Addr, Addr

\* What the mapping makes of a step that leaves the engine's variables alone.
LEMMA SameView ==
    ASSUME UNCHANGED vars
    PROVE  Stutter
  <1>1. DumpIn' = DumpIn /\ RestoreIn' = RestoreIn
    BY DEF vars, DumpIn, RestoreIn
  <1>2. View' = View
    BY <1>1, ViewFrame DEF vars
  <1> QED BY <1>2 DEF vars, Stutter, Halted, GuestRegs

\* Every step of the engine is a native instruction or invisible to the guest.
LEMMA NextNative == IInv /\ IInv' /\ [Next]_vars => [Native!Next]_(Native!vars)
  <1> SUFFICES ASSUME IInv, IInv', [Next]_vars, ~OffContract'
               PROVE  Native!Step \/ Stutter
    BY DEF Native!Next, Native!vars, Stutter
  <1>1. CASE GuestStep
    BY <1>1, GuestSteps
  <1>2. CASE GuestWild
    BY <1>2 DEF GuestWild
  <1>3. CASE EmulateJmp \/ EmulateCall \/ EmulateRet \/ SyscallHooked \/ SyscallExit
    BY <1>3, EmulateSteps
  <1>4. CASE DumpHook \/ RestoreHook \/ Decode \/ SyscallUnhandled \/ EmulateFail
               \/ GuestFault \/ ScanStep \/ ScanEnd \/ SaveDump \/ SaveRestore
               \/ InstrumentFail \/ WriteRestoreFail \/ Launch \/ Continue \/ Finished
    BY <1>4, QuietStutters
  <1>5. CASE RestoreRestore \/ RestoreDump \/ WriteDump \/ WriteRestore
    BY <1>5, CopyStutters
  <1>6. CASE UNCHANGED vars
    BY <1>6, SameView
  <1> QED BY <1>1, <1>2, <1>3, <1>4, <1>5, <1>6 DEF Next, Emulate

\* Instrumentation by _dispatcher and its hooks is transparent to every guest
\* that does not access the cells currently patched, whatever the program and
\* the lengths of the hooks.
THEOREM Transparency == Spec => Transparent
  BY InitNative, NextNative, Invariance, PTL DEF Spec, Transparent, Native!Spec

----------------------------------------------------------------------------
(* Signal handlers: the inductive invariant of the engine survives the      *)
(* handler's steps, and Signals implements NativeSig.                       *)

\* The two variables of the kernel are well typed.
SigTyped ==
    /\ installed \in BOOLEAN
    /\ sig \in [st : {"off", "on", "exited", "killed"}, regs : Regs]

\* A handler runs only while the process lives.
OnAlive == sig.st = "on" => phase \notin Over

SInv == IInv /\ SigTyped /\ OnAlive

----------------------------------------------------------------------------
(* The invariant of the engine while a handler runs.                       *)

\* A cell a handler of the contract does not write stays as it is.
LEMMA HandlerKeeps ==
    ASSUME HandlerStep, NEW x \in Addr, x \notin Writes(mem, sig.regs)
    PROVE  mem'[x] = mem[x]
  BY DEF HandlerStep, NextMem

\* One instruction of the handler keeps the engine's invariant.
LEMMA HandlerIInv ==
    ASSUME SInv, HandlerStep
    PROVE  SInv'
  <1> DEFINE W == Writes(mem, sig.regs)
  <1>0. /\ sig.regs \in Regs /\ mem \in [Addr -> Cell] /\ ~Faults(mem, sig.regs)
        /\ phase' = phase /\ dump' = dump /\ restore' = restore /\ cpu' = cpu
        /\ state' = state /\ curr_hook' = curr_hook /\ base_bbl' = base_bbl
        /\ curr_syscall' = curr_syscall /\ copied' = copied /\ insn' = insn /\ scan' = scan
    BY DEF SInv, IInv, TypeOK, SigTyped, HandlerStep, Able
  <1>1. NextRegs(mem, sig.regs) \in Regs /\ NextMem(mem, sig.regs) \in [Addr -> Cell]
    BY <1>0, CpuTypes
  <1>2. TypeOK'
    <2>1. nsys' \in {0, 1}
      BY DEF HandlerStep, SInv, IInv, TypeOK
    <2>2. touched' \in BOOLEAN
      BY Zenon DEF HandlerStep
    <2>3. selfmod' \in SUBSET Addr
      BY DEF HandlerStep, Writes, SInv, IInv, TypeOK
    <2> QED BY <1>1, <2>1, <2>2, <2>3, Zenon DEF HandlerStep, SInv, IInv, TypeOK
  <1>3. SigTyped'
    BY <1>1 DEF HandlerStep, SInv, SigTyped
  <1>o. OnAlive'
    BY DEF HandlerStep, SInv, OnAlive, SigTyped
  <1>4. Layout' /\ Idle' /\ Files'
    BY <1>0 DEF SInv, IInv, Layout, Idle, Files, HostPhases
  <1>5. ~touched' => ~touched /\ W \cap (Patched \cup InHand) = {}
    BY Zenon DEF HandlerStep
  <1>6. selfmod' = {} => selfmod = {} /\ W \cap Known = {}
    BY Zenon DEF HandlerStep
  <1>7. \A x \in Addr : x \notin W => mem'[x] = mem[x]
    BY HandlerKeeps
  <1> HIDE DEF W
  <1>8. Whole' /\ Held'
    <2>1. /\ DumpIn' = DumpIn /\ RestoreIn' = RestoreIn
          /\ DumpHeld' = DumpHeld /\ RestoreHeld' = RestoreHeld
      BY <1>0 DEF DumpIn, RestoreIn, DumpHeld, RestoreHeld
    <2>2. Whole'
      BY <1>0, <1>5, <1>7, <2>1 DEF SInv, IInv, Whole, Holds, Patched, At
    <2>3. ~touched' => /\ Holds(mem', dump.jmp, DumpHeld, dump.orig)
                       /\ Holds(mem', restore.jmp, RestoreHeld, restore.orig)
      BY <1>0, <1>5, <1>7 DEF SInv, IInv, Held, Holds, InHand, At
    <2>4. ~touched' /\ phase = "emulate" => insn = mem'[curr_hook]
      <3> SUFFICES ASSUME ~touched', phase = "emulate" PROVE insn = mem'[curr_hook]
        OBVIOUS
      <3>1. curr_hook \in Addr /\ insn = mem[curr_hook]
        BY <1>5 DEF SInv, IInv, Layout, Held
      <3>2. curr_hook \notin W
        BY <1>5 DEF InHand
      <3> QED BY <1>7, <3>1, <3>2
    <2> QED BY <1>0, <2>1, <2>2, <2>3, <2>4 DEF Held
  <1>9. Rerun'
    <2> SUFFICES ASSUME curr_syscall PROVE
          /\ phase \in {"instrument", "fatal_bbl"}
          /\ scan = base_bbl /\ base_bbl \in Addr
          /\ phase = "instrument" /\ ~touched' /\ selfmod' = {} => Kind[mem'[base_bbl]] = "sys"
      BY <1>0 DEF Rerun
    <2>1. /\ phase \in {"instrument", "fatal_bbl"}
          /\ scan = base_bbl /\ base_bbl \in Addr
          /\ phase = "instrument" /\ ~touched /\ selfmod = {} => Kind[mem[base_bbl]] = "sys"
      BY DEF SInv, IInv, Rerun
    <2>2. phase = "instrument" /\ selfmod' = {} => base_bbl \notin W
      <3>1. base_bbl \in base_bbl .. (scan + PageSz - 1)
        BY <2>1, CpuAssumption, EngineAssumption DEF Addr
      <3> QED BY <1>6, <3>1 DEF Known
    <2> QED BY <1>5, <1>6, <1>7, <2>1, <2>2
  <1>10. Body'
    <2> SUFFICES ASSUME ~touched', selfmod' = {} PROVE
          /\ phase = "instrument" => Scanned(base_bbl, scan)'
          /\ phase \in Prepared => Scanned(base_bbl, dump.jmp)'
          /\ phase = "guest" =>
                cpu.pc \in base_bbl .. dump.jmp /\ Scanned(cpu.pc, dump.jmp)'
      BY <1>0 DEF Body
    <2>1. ~touched /\ selfmod = {}
      BY <1>5, <1>6
    <2>2. /\ base_bbl \in Int /\ scan \in Int /\ dump.jmp \in Int
          /\ base_bbl \in Pc /\ scan \in Pc
      BY HookTypes DEF SInv, IInv, TypeOK
    <2>3. ASSUME phase = "instrument" PROVE Scanned(base_bbl, scan)'
      <3>1. Scanned(base_bbl, scan)
        BY <2>1, <2>3 DEF SInv, IInv, Body
      <3>2. base_bbl .. (scan - 1) \subseteq Addr
        BY <2>2, CpuAssumption DEF Pc, Addr
      <3>3. base_bbl .. (scan - 1) \subseteq base_bbl .. (scan + PageSz - 1)
        BY <2>2, CpuAssumption, EngineAssumption DEF Pc
      <3>4. \A x \in base_bbl .. (scan - 1) : mem'[x] = mem[x]
        BY <1>6, <1>7, <2>3, <3>2, <3>3 DEF Known
      <3> QED BY <1>0, <3>1, <3>4 DEF Scanned
    <2>4. ASSUME phase \in Prepared \cup {"guest"}
          PROVE  \A x \in base_bbl .. (dump.jmp - 1) : mem'[x] = mem[x]
      <3>1. base_bbl \in Addr /\ dump.jmp \in Addr
        BY <2>4 DEF SInv, IInv, Layout, Prepared
      <3>2. base_bbl .. (dump.jmp - 1) \subseteq Addr
        BY <3>1, CpuAssumption DEF Addr
      <3> QED BY <1>6, <1>7, <2>4, <3>2 DEF Known, Prepared
    <2>5. ASSUME phase \in Prepared PROVE Scanned(base_bbl, dump.jmp)'
      BY <1>0, <2>1, <2>4, <2>5 DEF SInv, IInv, Body, Scanned
    <2>6. ASSUME phase = "guest"
          PROVE  cpu.pc \in base_bbl .. dump.jmp /\ Scanned(cpu.pc, dump.jmp)'
      <3>1. cpu.pc \in base_bbl .. dump.jmp /\ Scanned(cpu.pc, dump.jmp)
        BY <2>1, <2>6 DEF SInv, IInv, Body
      <3>2. cpu.pc .. (dump.jmp - 1) \subseteq base_bbl .. (dump.jmp - 1)
        BY <2>2, <3>1
      <3> QED BY <1>0, <2>4, <2>6, <3>1, <3>2 DEF Scanned
    <2> QED BY <2>3, <2>5, <2>6
  <1> QED BY <1>2, <1>3, <1>o, <1>4, <1>8, <1>9, <1>10 DEF SInv, IInv

\* Every step of guest, engine, kernel or handler keeps the invariant.
LEMMA SigNextInv == SInv /\ [SigNext]_sigvars => SInv'
  <1> SUFFICES ASSUME SInv, [SigNext]_sigvars PROVE SInv'
    OBVIOUS
  <1>a. HandlerRegs \in Regs
    BY SignalAssumption
  <1>b. ASSUME UNCHANGED vars PROVE IInv' /\ phase' = phase
    BY <1>b, SameIInv DEF SInv, vars
  <1>1. CASE Resume
    <2>1. IInv'
      BY <1>1, NextIInv DEF Resume, SInv
    <2>2. installed' \in BOOLEAN /\ sig' = sig /\ sig.st = "off"
      BY <1>1, Zenon DEF Resume
    <2> QED BY <2>1, <2>2 DEF SInv, SigTyped, OnAlive
  <1>2. CASE Deliver
    BY <1>2, <1>a, <1>b DEF Deliver, Off, SInv, SigTyped, OnAlive
  <1>3. CASE Return
    BY <1>3, <1>a, <1>b DEF Return, Off, SInv, SigTyped, OnAlive
  <1>4. CASE HandlerExit
    BY <1>4, <1>b DEF HandlerExit, SInv, SigTyped, OnAlive
  <1>5. CASE HandlerStep
    BY <1>5, HandlerIInv
  <1>6. CASE HandlerFault
    BY <1>6, <1>b DEF HandlerFault, SInv, SigTyped, OnAlive
  <1>7. CASE HandlerWild
    <2>1. TypeOK'
      BY <1>7, Zenon DEF HandlerWild, SInv, IInv, TypeOK
    <2>2. Layout' /\ Idle' /\ Files' /\ Whole' /\ Held' /\ Rerun' /\ Body'
      BY <1>7 DEF HandlerWild, SInv, IInv, Layout, Idle, Files, HostPhases, Whole,
        Held, Rerun, Body
    <2>3. SigTyped' /\ OnAlive'
      BY <1>7 DEF HandlerWild, SInv, SigTyped, OnAlive
    <2> QED BY <2>1, <2>2, <2>3 DEF SInv, IInv
  <1>8. CASE Ended \/ UNCHANGED sigvars
    BY <1>8, <1>b DEF Ended, sigvars, SInv, SigTyped, OnAlive
  <1> QED BY <1>1, <1>2, <1>3, <1>4, <1>5, <1>6, <1>7, <1>8 DEF SigNext

\* The invariant holds in every reachable state.
LEMMA SigInvariance == SigSpec => []SInv
  <1>1. SigInit => SInv
    <2>1. SigInit => IInv
      BY InitIInv DEF SigInit
    <2>2. SigInit => installed \in BOOLEAN
      BY Zenon DEF SigInit
    <2>3. SigInit => sig \in [st : {"off", "on", "exited", "killed"}, regs : Regs]
                       /\ sig.st # "on"
      BY SignalAssumption DEF SigInit, Off
    <2> QED BY <2>1, <2>2, <2>3 DEF SInv, SigTyped, OnAlive
  <1> QED BY <1>1, SigNextInv, PTL DEF SigSpec

\* Whatever a handler that keeps off the cells patched or in hand did, and also
\* when it came half-way through saving, writing or putting back a hook, every
\* byte of a hook in memory and every saved byte is right, and the hooks are
\* whole when the guest goes on.
THEOREM SigHooksAlwaysComplete == SigSpec => []SigHooksComplete
  <1>1. SInv => SigHooksComplete
    <2>1. phase \in {"guest", "entry"} => DumpIn = DumpIdx /\ RestoreIn = RestoreIdx
      BY DEF DumpIn, RestoreIn
    <2> QED BY <2>1 DEF SInv, IInv, TypeOK, Layout, Files, Whole, Held,
              SigHooksComplete, HooksComplete
  <1> QED BY <1>1, SigInvariance, PTL

\* Whatever a handler did during the scan of a block and from there to its
\* execution, the guest runs no branch natively, unless the part of the block
\* that was already scanned was written to.
THEOREM SigAlwaysConfined == SigSpec => []SigConfined
  <1>1. SInv => SigConfined
    BY DEF SInv, IInv, Body, Scanned, SigConfined, Confined
  <1> QED BY <1>1, SigInvariance, PTL

----------------------------------------------------------------------------
(* Signals implements NativeSig.                                           *)

\* Outside the cells patched right now the guest's memory is the memory.
LEMMA ViewAgrees ==
    ASSUME IInv, NEW x \in Addr, x \notin Patched
    PROVE  View[x] = mem[x]
  BY ViewCell DEF Patched, At

\* The two instances of the processor are the same.
LEMMA SameStep == Native!Step => NativeS!Step
  <1> USE DEF Native!Op, NativeS!Op, Native!Operand, NativeS!Operand,
              Native!Addr, NativeS!Addr
  <1>1. Native!Faults(View, GuestRegs) <=> NativeS!Faults(View, GuestRegs)
    BY DEF Native!Faults, NativeS!Faults
  <1>2. Native!Exits(View, GuestRegs) <=> NativeS!Exits(View, GuestRegs)
    BY DEF Native!Exits, NativeS!Exits
  <1>3. Native!NextMem(View, GuestRegs) = NativeS!NextMem(View, GuestRegs)
    BY DEF Native!NextMem, NativeS!NextMem, Native!Writes, NativeS!Writes,
      Native!Stored, NativeS!Stored
  <1>4. Native!NextRegs(View, GuestRegs) = NativeS!NextRegs(View, GuestRegs)
    BY DEF Native!NextRegs, NativeS!NextRegs, Native!NextPc, NativeS!NextPc,
      Native!Jumps, NativeS!Jumps, Native!NextRax, NativeS!NextRax,
      Native!NextZf, NativeS!NextZf, Native!NextRsp, NativeS!NextRsp
  <1> QED BY <1>1, <1>2, <1>3, <1>4
        DEF Native!Step, NativeS!Step, Native!Exit, NativeS!Exit,
          Native!Execute, NativeS!Execute

\* What the handler finds at its program counter is what it would find without
\* the engine.
LEMMA HandlerSees ==
    ASSUME SInv, sig.regs.pc \notin Patched
    PROVE  /\ NativeS!Faults(View, sig.regs) <=> Faults(mem, sig.regs)
           /\ ~Faults(mem, sig.regs) =>
                 /\ NativeS!Op(View, sig.regs) = Op(mem, sig.regs)
                 /\ NativeS!Operand(View, sig.regs) = Operand(mem, sig.regs)
                 /\ NativeS!Returns <=> Returns
                 /\ NativeS!Exits(View, sig.regs) <=> Exits(mem, sig.regs)
  <1>1. CASE sig.regs.pc \notin Addr
    BY <1>1 DEF NativeS!Faults, Faults, NativeS!Addr, Addr
  <1>2. CASE sig.regs.pc \in Addr
    <2>1. View[sig.regs.pc] = mem[sig.regs.pc]
      BY <1>2, ViewAgrees DEF SInv
    <2>2. /\ NativeS!Op(View, sig.regs) = Op(mem, sig.regs)
          /\ NativeS!Operand(View, sig.regs) = Operand(mem, sig.regs)
      BY <2>1 DEF NativeS!Op, NativeS!Operand, Op, Operand
    <2>3. NativeS!Faults(View, sig.regs) <=> Faults(mem, sig.regs)
      BY <2>2 DEF NativeS!Faults, Faults, NativeS!Addr, Addr
    <2>4. NativeS!Returns <=> Returns
      BY <2>2 DEF NativeS!Returns, Returns
    <2>5. NativeS!Exits(View, sig.regs) <=> Exits(mem, sig.regs)
      BY <2>2 DEF NativeS!Exits, Exits
    <2> QED BY <2>2, <2>3, <2>4, <2>5
  <1> QED BY <1>1, <1>2

\* One instruction of a handler that keeps off the patched cells is the same
\* instruction without the engine, whichever hooks are in memory at that moment.
LEMMA HandlerSteps ==
    ASSUME SInv, HandlerStep, ~OffContract'
    PROVE  NativeS!HandlerStep
  <1> DEFINE r == sig.regs
             W == Writes(mem, r)
  <1>0. /\ sig.st = "on" /\ r.pc \notin Patched /\ ~Faults(mem, r) /\ ~Returns
        /\ ~Exits(mem, r) /\ r \in Regs /\ mem \in [Addr -> Cell] /\ r.pc \in Addr
    BY DEF HandlerStep, Able, SInv, IInv, TypeOK, SigTyped, Faults
  <1>1. /\ ~NativeS!Faults(View, r) /\ ~NativeS!Returns /\ ~NativeS!Exits(View, r)
        /\ NativeS!Op(View, r) = Op(mem, r) /\ NativeS!Operand(View, r) = Operand(mem, r)
    BY <1>0, HandlerSees
  <1>2. ~touched /\ ~touched' /\ Reads(mem, r) \cap Patched = {} /\ W \cap Patched = {}
    BY Zenon DEF HandlerStep
  <1>3. \A x \in Addr : x \notin Patched => View[x] = mem[x]
    BY ViewAgrees DEF SInv
  <1>4. NativeS!Writes(View, r) = W /\ NativeS!Stored(View, r) = Stored(mem, r)
    BY <1>1 DEF NativeS!Writes, Writes, NativeS!Stored, Stored, NativeS!Addr, Addr
  <1>5. View' = NativeS!NextMem(View, r)
    <2>1. NativeS!NextMem(View, r) =
            [x \in Addr |-> IF x \in W THEN Stored(mem, r) ELSE View[x]]
      BY <1>4 DEF NativeS!NextMem, NativeS!Addr, Addr
    <2>2. /\ mem' = NextMem(mem, r) /\ dump' = dump /\ restore' = restore
          /\ DumpIn' = DumpIn /\ RestoreIn' = RestoreIn
      BY DEF HandlerStep, DumpIn, RestoreIn
    <2>3. \A x \in Addr : View'[x] = IF x \in W THEN Stored(mem, r) ELSE View[x]
      <3> TAKE x \in Addr
      <3>1. mem'[x] = IF x \in W THEN Stored(mem, r) ELSE mem[x]
        BY <2>2 DEF NextMem
      <3>2. CASE x \in Patched
        <4>1. x \notin W
          BY <1>2, <3>2
        <4>2. View'[x] = View[x]
          BY <2>2, <3>1, <4>1, ViewCell
        <4> QED BY <4>1, <4>2
      <3>3. CASE x \notin Patched
        <4>1. View'[x] = mem'[x]
          BY <2>2, <3>3, ViewCell DEF Patched, At
        <4> QED BY <1>3, <3>1, <3>3, <4>1
      <3> QED BY <3>2, <3>3
    <2> QED BY <2>1, <2>3, ViewCell
  <1>6. NativeS!NextRegs(View, r) = NextRegs(mem, r)
    <2>1. NativeS!NextPc(View, r) = NextPc(mem, r)
      <3>1. Op(mem, r) = "ret" => View[r.rsp] = mem[r.rsp]
        BY <1>0, <1>2, <1>3 DEF Reads, Faults
      <3> QED BY <1>1, <3>1 DEF NativeS!NextPc, NextPc, NativeS!Jumps, Jumps
    <2>2. NativeS!NextRax(View, r) = NextRax(mem, r)
      <3>1. Op(mem, r) = "load" => View[Operand(mem, r)] = mem[Operand(mem, r)]
        BY <1>0, <1>2, <1>3 DEF Reads, Faults
      <3> QED BY <1>1, <3>1 DEF NativeS!NextRax, NextRax
    <2>3. NativeS!NextZf(View, r) = NextZf(mem, r)
      BY <1>1, Zenon DEF NativeS!NextZf, NextZf
    <2>4. NativeS!NextRsp(View, r) = NextRsp(mem, r)
      BY <1>1 DEF NativeS!NextRsp, NextRsp
    <2> QED BY <2>1, <2>2, <2>3, <2>4 DEF NativeS!NextRegs, NextRegs
  <1>7. GuestRegs' = GuestRegs /\ Halted' = Halted /\ installed' = installed
    BY DEF HandlerStep, GuestRegs, Halted
  <1>8. OffContract' = OffContract
    <2>1. lost' = lost
      BY DEF HandlerStep
    <2> QED BY <1>2, <2>1, Zenon
  <1> QED BY <1>0, <1>1, <1>5, <1>6, <1>7, <1>8 DEF HandlerStep, NativeS!HandlerStep

\* A step of guest or engine is, to the guest, one instruction or invisible, and
\* only a system call can install the handler.
LEMMA ResumeSteps ==
    ASSUME SInv, SInv', Resume, ~OffContract'
    PROVE  NativeS!Guest \/ UNCHANGED NativeS!sigvars
  <1>0. /\ sig.st = "off" /\ sig' = sig /\ Next /\ IInv /\ IInv'
        /\ installed' = (installed \/ (nsys' # nsys /\ SysNr = SigactionNr))
    BY Zenon DEF Resume, SInv
  <1>1. CASE GuestStep
    <2>1. NativeS!Step
      BY <1>0, <1>1, GuestSteps, SameStep
    <2>2. SysNr = GuestRegs.rax
      BY <1>1 DEF GuestStep, SysNr, GuestRegs
    <2> QED BY <1>0, <2>1, <2>2, Zenon DEF NativeS!Guest
  <1>2. CASE EmulateJmp \/ EmulateCall \/ EmulateRet \/ SyscallHooked \/ SyscallExit
    <2>1. NativeS!Step
      BY <1>0, <1>2, EmulateSteps, SameStep
    <2>2. phase = "emulate"
      BY <1>2 DEF EmulateJmp, EmulateCall, EmulateRet, SyscallHooked, SyscallExit
    <2>3. SysNr = GuestRegs.rax
      BY <2>2 DEF SysNr, GuestRegs
    <2> QED BY <1>0, <2>1, <2>3, Zenon DEF NativeS!Guest
  <1>3. CASE DumpHook \/ RestoreHook \/ Decode \/ SyscallUnhandled \/ EmulateFail
               \/ GuestFault \/ ScanStep \/ ScanEnd \/ SaveDump \/ SaveRestore
               \/ InstrumentFail \/ WriteRestoreFail \/ Launch \/ Continue \/ Finished
               \/ RestoreRestore \/ RestoreDump \/ WriteDump \/ WriteRestore
    <2>1. Stutter
      BY <1>0, <1>3, QuietStutters, CopyStutters
    <2>2. installed \in BOOLEAN
      BY DEF SInv, SigTyped
    <2>3. installed' = installed
      <3>1. ~(nsys' # nsys)
        BY <2>1 DEF Stutter
      <3>2. installed' = (installed \/ FALSE)
        BY <1>0, <3>1, Zenon
      <3> QED BY <2>2, <3>2, Zenon
    <2> QED BY <1>0, <2>1, <2>3 DEF Stutter, NativeS!sigvars, NativeS!vars
  <1>4. CASE GuestWild
    BY <1>4 DEF GuestWild
  <1> QED BY <1>0, <1>1, <1>2, <1>3, <1>4 DEF Next, Emulate

\* Instrumentation stays transparent to every guest with a signal handler: the
\* kernel may interrupt _dispatcher between two instructions of its scan and
\* between two cells of a copy, and the result is one the guest could have seen
\* without the engine, as long as the handler keeps off the cells that are
\* patched or in hand at that moment.
THEOREM SigTransparency == SigSpec => SigTransparent
  <1>1. SigInit => NativeS!SigInit
    <2> SUFFICES ASSUME SigInit PROVE NativeS!SigInit
      OBVIOUS
    <2>1. Native!Init
      BY InitNative DEF SigInit
    <2> QED BY <2>1 DEF SigInit, Off, NativeS!SigInit, NativeS!Off, NativeS!Init,
              Native!Init, NativeS!Addr, Native!Addr
  <1>2. SInv /\ SInv' /\ [SigNext]_sigvars => [NativeS!SigNext]_(NativeS!sigvars)
    <2> SUFFICES ASSUME SInv, SInv', [SigNext]_sigvars, ~OffContract'
                 PROVE  NativeS!SigNext \/ UNCHANGED NativeS!sigvars
      BY DEF NativeS!SigNext
    <2>0. ASSUME UNCHANGED <<vars, installed>>
          PROVE  UNCHANGED <<NativeS!vars, installed>>
      BY <2>0, SameView DEF Stutter, NativeS!vars
    <2>1. CASE Resume
      BY <2>1, ResumeSteps DEF NativeS!SigNext
    <2>2. CASE Deliver
      <3>1. NativeS!Deliver
        BY <2>2, <2>0 DEF Deliver, NativeS!Deliver, Off, NativeS!Off, Over, Halted
      <3> QED BY <3>1 DEF NativeS!SigNext
    <2>3. CASE Return
      <3>1. NativeS!Return
        BY <2>3, <2>0, HandlerSees DEF Return, Able, NativeS!Return, Off, NativeS!Off
      <3> QED BY <3>1 DEF NativeS!SigNext
    <2>4. CASE HandlerExit
      <3>1. NativeS!HandlerExit
        BY <2>4, <2>0, HandlerSees DEF HandlerExit, Able, NativeS!HandlerExit
      <3> QED BY <3>1 DEF NativeS!SigNext
    <2>5. CASE HandlerStep
      BY <2>5, HandlerSteps DEF NativeS!SigNext
    <2>6. CASE HandlerFault
      <3>1. NativeS!HandlerFault
        BY <2>6, <2>0, HandlerSees DEF HandlerFault, NativeS!HandlerFault
      <3> QED BY <3>1 DEF NativeS!SigNext
    <2>7. CASE HandlerWild
      BY <2>7 DEF HandlerWild
    <2>8. CASE Ended \/ UNCHANGED sigvars
      BY <2>8, <2>0 DEF Ended, sigvars, NativeS!sigvars
    <2> QED BY <2>1, <2>2, <2>3, <2>4, <2>5, <2>6, <2>7, <2>8 DEF SigNext
  <1> QED BY <1>1, <1>2, SigInvariance, PTL DEF SigSpec, SigTransparent, NativeS!SigSpec

=============================================================================
