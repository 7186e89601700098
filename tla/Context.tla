------------------------------ MODULE Context ------------------------------
(***************************************************************************)
(* The switch of the processor between guest and engine, instruction by    *)
(* instruction: the dump hook and the stub of craft_hook, the restore stub *)
(* of craft_restore_stub and the restore hook (src/src/engine.c).  Both    *)
(* stubs move everything through rax, which only the hooks save and        *)
(* reload, and between them the engine's compiled code runs on a stack of  *)
(* its own.                                                                *)
(*                                                                         *)
(* A value is <<who made it, number>>; the engine's stack pointer is       *)
(* <<"host", slot>>.  A vector register is a low and a high half.          *)
(***************************************************************************)
EXTENDS Integers, Sequences

CONSTANTS
    Slots,      \* words of the engine's stack, above which is host_rsp
    Feature     \* what the processor has: one of Levels, the lower ones too

VARIABLES
    feature,
    cpu,        \* live registers
    state,      \* dbi_handler->state, with the global mxcsr of engine.c
    want,       \* the registers the guest is to have
    hstack,     \* the engine's stack
    spilled,    \* the engine has pushed to the guest's stack
    gen,        \* 0 or 1: which values the guest computed last
    phase, ip   \* the code that runs, and its next instruction

vars == <<feature, cpu, state, want, hstack, spilled, gen, phase, ip>>

Levels == {"sse", "avx", "avx2", "avx512f"}

\* init_analysis allocates one of sse, avx2 and avx512.
Mode == CASE feature \in {"sse", "avx"} -> "sse"
          [] feature = "avx2"           -> "avx2"
          [] feature = "avx512f"        -> "avx512"

ASSUME ContextAssumption == Slots \in Nat /\ Slots > 3 /\ Feature \subseteq Levels

\* In the order of craft_hook and of craft_restore_stub.
Extra   == <<"r8", "r9", "r10", "r11", "r12", "r13", "r14", "r15">>
Saved   == <<"rbx", "rcx", "rdx", "rsi", "rdi", "rbp", "es", "gs", "fs", "cs", "ss", "ds">>
             \o Extra
Loaded  == <<"rbx", "rcx", "rdx", "rdi", "rsi", "rbp", "es", "ss", "ds">> \o Extra
Low     == <<"xmm0", "xmm1", "xmm15">>      \* the others are treated like xmm1
High    == <<"ymm0", "ymm1", "ymm15">>
All     == Saved \o Low \o High \o <<"rax", "rsp", "rip", "rflags", "mxcsr">>

Elems(s) == {s[i] : i \in DOMAIN s}
Regs     == Elems(All)
Number   == [r \in Regs |-> CHOOSE i \in DOMAIN All : All[i] = r]
Fixed    == {"fs", "gs", "cs"}              \* selectors; module Tls has the bases

Zero   == <<"zero", 0>>
Junk   == <<"junk", 0>>
Host(n) == <<"host", n>>
Of(g)  == [r \in Regs |-> <<IF r \in Fixed THEN "fixed" ELSE g, Number[r]>>]
Guest  == <<"first", "second">>
Values == ({"first", "second", "fixed", "emulated"} \X (DOMAIN All))
            \cup {Zero, Junk} \cup {Host(n) : n \in 0 .. Slots}

----------------------------------------------------------------------------
(* The code.                                                               *)

I(op, r) == [op |-> op, r |-> r]

\* "mov rax, r; movabs [&state->r], rax" and its inverse.
ToRax(r)   == I("torax", r)
Store(r)   == I("store", r)
Load(r)    == I("load", r)
FromRax(r) == I("fromrax", r)

\* Both for each register of s.
SaveEach(s) == [i \in 1 .. (2 * Len(s)) |->
                  IF i % 2 = 1 THEN ToRax(s[(i + 1) \div 2]) ELSE Store(s[i \div 2])]
LoadEach(s) == [i \in 1 .. (2 * Len(s)) |->
                  IF i % 2 = 1 THEN Load(s[(i + 1) \div 2]) ELSE FromRax(s[i \div 2])]

\* Mutant: rax is used as scratch before it is saved.
DumpHookLate == <<I("imm", "rax"), Store("rax")>>

\* movabs [&state->rax], rax; mov rax, dump_stub; jmp rax
DumpHook == <<Store("rax"), I("imm", "rax")>>

\* Mutant: the flags are pushed before the stack is switched.
SaveStackLate == <<ToRax("rsp"), Store("rsp"), I("push", "rflags"), I("pop", "rax"),
                   Store("rflags"), I("switch", "rsp")>>

SaveStack == <<ToRax("rsp"), Store("rsp"), I("switch", "rsp"),
               I("push", "rflags"), I("pop", "rax"), Store("rflags")>>

\* With sse, every register but xmm0 is moved through xmm0; with avx2, mxcsr
\* goes first, and by a call.
SaveVectors ==
    IF Mode = "sse"
    THEN <<I("vstore", "xmm0"), I("vmove", "xmm1"), I("vstore", "xmm1"),
           I("vmove", "xmm15"), I("vstore", "xmm15")>>
    ELSE <<I("save_mxcsr", "mxcsr"), I("vstore", "xmm0"), I("vstore", "xmm1"),
           I("vstore", "xmm15")>>

\* Into _dispatcher(s_binary), with 0 as the address to return to (no register of
\* the guest is in what is pushed here or by the calls below).
CallDispatcher == <<I("imm", "rdi"), I("imm", "rax"), I("push", "rax"), I("push", "rax"),
                    I("load_hook", "rax"), Store("rip"), I("dispatch", "rip")>>

DumpCode == DumpHook \o SaveStack \o SaveEach(Saved) \o SaveVectors
              \o CallDispatcher

LoadVectors ==
    <<I("vload", "xmm0"), I("vload", "xmm1"), I("vload", "xmm15")>>
      \o IF Mode = "avx2" THEN <<I("restore_mxcsr", "mxcsr")>> ELSE <<>>

\* Mutant: the stack is switched before the flags are popped.
LoadStackEarly == <<Load("rflags"), I("push", "rax"), Load("rsp"), I("push", "rax"),
                    I("pop", "rsp"), I("pop", "rflags")>>

LoadStack == <<Load("rsp"), I("push", "rax"), Load("rflags"), I("push", "rax"),
               I("pop", "rflags"), I("pop", "rsp")>>

\* The jump, and the restore hook it leads to.
RestoreHook == <<Load("rip"), I("jmp", "rax"), Load("rax"), I("resume", "rip")>>

RestoreCode == LoadVectors \o LoadEach(Loaded) \o LoadStack \o RestoreHook

----------------------------------------------------------------------------
(* The processor in the hooks and stubs.                                   *)

Code == IF phase = "dump" THEN DumpCode ELSE RestoreCode

At(op)  == phase \in {"dump", "restore"} /\ Code[ip].op = op
R       == Code[ip].r
HighOf(x) == High[CHOOSE i \in DOMAIN Low : Low[i] = x]

Step == ip' = ip + 1 /\ UNCHANGED <<feature, want, gen, phase>>
Set(r, v) == cpu' = [cpu EXCEPT ![r] = v] /\ UNCHANGED <<state, hstack, spilled>>

MovToRax   == At("torax")   /\ Set("rax", cpu[R])  /\ Step
MovFromRax == At("fromrax") /\ Set(R, cpu.rax)     /\ Step
MovImm     == At("imm")     /\ Set(R, Junk)        /\ Step
MovStack   == At("switch")  /\ Set("rsp", Host(Slots)) /\ Step
LoadRax    == At("load")    /\ Set("rax", state[R]) /\ Step
LoadHook   == At("load_hook") /\ Set("rax", want.rip) /\ Step    \* *curr_hook

StoreRax ==
    /\ At("store")
    /\ state' = [state EXCEPT ![R] = cpu.rax]
    /\ UNCHANGED <<cpu, hstack, spilled>>
    /\ Step

OnHost == cpu.rsp[1] = "host"

\* Mutant: eight words are pushed instead of eight bytes.
PushWords ==
    /\ At("push")
    /\ cpu' = [cpu EXCEPT !.rsp = IF OnHost THEN Host(cpu.rsp[2] - 8) ELSE cpu.rsp]
    /\ hstack' = IF OnHost THEN [hstack EXCEPT ![cpu.rsp[2] - 8] = cpu[R]] ELSE hstack
    /\ spilled' = (spilled \/ ~OnHost)
    /\ UNCHANGED state
    /\ Step

Push ==
    /\ At("push")
    /\ cpu' = [cpu EXCEPT !.rsp = IF OnHost THEN Host(cpu.rsp[2] - 1) ELSE cpu.rsp]
    /\ hstack' = IF OnHost THEN [hstack EXCEPT ![cpu.rsp[2] - 1] = cpu[R]] ELSE hstack
    /\ spilled' = (spilled \/ ~OnHost)
    /\ UNCHANGED state
    /\ Step

\* "pop rsp" leaves the word it popped.
Pop ==
    /\ At("pop")
    /\ cpu' = IF OnHost
              THEN [[cpu EXCEPT !.rsp = Host(cpu.rsp[2] + 1)] EXCEPT ![R] = hstack[cpu.rsp[2]]]
              ELSE [cpu EXCEPT ![R] = Junk]
    /\ UNCHANGED <<state, hstack, spilled>>
    /\ Step

\* movaps xmm0, xmmN keeps the high half.
VMove == At("vmove") /\ Set("xmm0", cpu[R]) /\ Step

\* movaps stores the low half, vmovups both; rax holds the address.
VStore ==
    /\ At("vstore")
    /\ LET via == IF Mode = "sse" THEN "xmm0" ELSE R
       IN  state' = [[state EXCEPT ![R] = cpu[via]] EXCEPT
                        ![HighOf(R)] = IF Mode = "avx2" THEN cpu[HighOf(R)] ELSE @]
    /\ cpu' = [cpu EXCEPT !.rax = Junk]
    /\ UNCHANGED <<hstack, spilled>>
    /\ Step

VLoad ==
    /\ At("vload")
    /\ cpu' = [[cpu EXCEPT ![R] = state[R], !.rax = Junk] EXCEPT
                  ![HighOf(R)] = IF Mode = "avx2" THEN state[HighOf(R)] ELSE @]
    /\ UNCHANGED <<state, hstack, spilled>>
    /\ Step

\* The calls: compiled code that pushes its return address and uses rax.
SaveMxcsr ==
    /\ At("save_mxcsr")
    /\ state' = [state EXCEPT !.mxcsr = cpu.mxcsr]
    /\ cpu' = [cpu EXCEPT !.rax = Junk]
    /\ spilled' = (spilled \/ ~OnHost)
    /\ UNCHANGED hstack
    /\ Step

RestoreMxcsr ==
    /\ At("restore_mxcsr")
    /\ cpu' = [cpu EXCEPT !.mxcsr = state.mxcsr, !.rax = Junk]
    /\ spilled' = (spilled \/ ~OnHost)
    /\ UNCHANGED <<state, hstack>>
    /\ Step

Jmp == At("jmp") /\ Set("rip", cpu.rax) /\ Step

\* ret pops the address of _dispatcher.
EnterDispatcher ==
    /\ At("dispatch")
    /\ cpu' = [cpu EXCEPT !.rsp = IF OnHost THEN Host(cpu.rsp[2] + 1) ELSE cpu.rsp]
    /\ phase' = "host" /\ ip' = 1
    /\ UNCHANGED <<feature, state, want, hstack, spilled, gen>>

Resume ==
    /\ At("resume")
    /\ phase' = "guest" /\ ip' = 1
    /\ UNCHANGED <<feature, cpu, state, want, hstack, spilled, gen>>

----------------------------------------------------------------------------
(* Guest and engine.                                                       *)

Init ==
    /\ feature \in Feature
    /\ cpu = [r \in Regs |-> IF r \in Fixed THEN <<"fixed", Number[r]>> ELSE Junk]
    /\ state = [r \in Regs |-> Zero]
    /\ want = cpu
    /\ hstack = [n \in 0 .. Slots |-> Zero]
    /\ spilled = FALSE
    /\ gen = 1
    /\ phase = "craft" /\ ip = 1

\* instrument: neither stub can be made for avx512.
Craft ==
    /\ phase = "craft"
    /\ phase' = IF Mode = "avx512" THEN "fatal" ELSE "launch"
    /\ UNCHANGED <<feature, cpu, state, want, hstack, spilled, gen, ip>>

HasVzeroall == feature # "sse"
Cleared     == Elems(Low) \cup Elems(High)

\* exec_binary: general registers, flags and vectors are zero; mxcsr and the
\* selectors stay.
Launch ==
    /\ phase = "launch"
    /\ IF HasVzeroall
       THEN /\ cpu' = [r \in Regs |-> IF r \in Fixed \cup {"es", "ss", "ds", "mxcsr"}
                                      THEN cpu[r] ELSE Zero]
            /\ want' = cpu' /\ phase' = "guest"
       ELSE phase' = "sigill" /\ UNCHANGED <<cpu, want>>
    /\ UNCHANGED <<feature, state, hstack, spilled, gen, ip>>

\* A basic block gives every register a new value and runs into the dump hook.
GuestBlock ==
    /\ phase = "guest"
    /\ gen' = 3 - gen
    /\ cpu' = Of(Guest[gen])
    /\ want' = cpu'
    /\ phase' = "dump"
    /\ UNCHANGED <<feature, state, hstack, spilled, ip>>

\* _dispatcher emulates the branch on state and goes d words down its stack;
\* compiled code leaves anything in the registers, continue_exec zeros vectors.
Dispatcher(d, mxcsr) ==
    /\ phase = "host" /\ OnHost
    /\ cpu.rsp[2] - d >= 2
    /\ \E emulated \in SUBSET {"rax", "rsp"} :
        /\ state' = [r \in Regs |-> IF r \in emulated \cup {"rip"}
                                    THEN <<"emulated", Number[r]>> ELSE state[r]]
        /\ want'  = [r \in Regs |-> IF r \in emulated \cup {"rip"}
                                    THEN <<"emulated", Number[r]>> ELSE want[r]]
    /\ cpu' = [r \in Regs |->
                 CASE r \in Fixed \cup {"es", "ss", "ds"} -> cpu[r]
                   [] r \in Cleared -> Zero
                   [] r = "rsp"     -> Host(cpu.rsp[2] - d)
                   [] r = "mxcsr"   -> mxcsr
                   [] OTHER         -> Junk]
    /\ hstack' = [n \in 0 .. Slots |-> Junk]
    /\ phase' = IF HasVzeroall THEN "restore" ELSE "sigill"
    /\ UNCHANGED <<feature, spilled, gen, ip>>

Dead == phase \in {"fatal", "sigill"} /\ UNCHANGED vars

Next ==
    \/ Craft \/ Launch \/ GuestBlock \/ Dead
    \/ \E d \in 0 .. Slots, m \in {cpu.mxcsr, Junk} : Dispatcher(d, m)
    \/ MovToRax \/ MovFromRax \/ MovImm \/ MovStack \/ LoadRax \/ LoadHook \/ StoreRax
    \/ Push \/ Pop \/ VMove \/ VStore \/ VLoad \/ SaveMxcsr \/ RestoreMxcsr
    \/ Jmp \/ EnterDispatcher \/ Resume

Spec == Init /\ [][Next]_vars

----------------------------------------------------------------------------
(* What must hold.                                                         *)

\* Type correctness.
TypeOK ==
    /\ feature \in Levels
    /\ cpu \in [Regs -> Values] /\ state \in [Regs -> Values] /\ want \in [Regs -> Values]
    /\ hstack \in [0 .. Slots -> Values]
    /\ spilled \in BOOLEAN /\ gen \in {1, 2}
    /\ phase \in {"craft", "launch", "guest", "dump", "host", "restore", "fatal", "sigill"}
    /\ ip \in 1 .. Len(DumpCode) + Len(RestoreCode)

\* What the stubs for sse leave out.
Uncovered == IF Mode = "sse" THEN Elems(High) \cup {"mxcsr"} ELSE {}

\* _dispatcher and the callback see the guest's registers as they were at the
\* hook, though rax, rsp and xmm0 are scratch in the code that saves them.
DumpsCovered == phase = "host" => \A r \in Regs \ Uncovered : state[r] = want[r]

\* The guest resumes with its own registers and what emulation made of them,
\* whatever the engine's code left in the processor (craft_restore_stub,
\* restore_hook).
Resumed == phase = "guest" => \A r \in Regs \ Uncovered : cpu[r] = want[r]

\* The stubs never push to the guest's stack, whose red zone is in use, and each
\* dispatch starts at the same place of the engine's: frames of _dispatcher,
\* which never returns, do not pile up.
OwnStack == ~spilled /\ (phase = "host" => cpu.rsp = Host(Slots - 1))

=============================================================================
