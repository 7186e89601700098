--------------------------- MODULE SyscallsProofs ---------------------------
(***************************************************************************)
(* Segment bases and system calls, proved for every set of bases and of    *)
(* argument registers.  Syscalls only adds the call to what Tls does, so   *)
(* it implements Tls; what Tls promises of the bases holds in it, and the  *)
(* call itself follows from the tables.                                    *)
(***************************************************************************)
EXTENDS Syscalls, TLAPS

----------------------------------------------------------------------------
(* The segment bases.                                                      *)

\* Whose bases the processor has, and where the guest's are kept meanwhile.
Bases ==
    /\ phase \in {"guest", "entry"} /\ ~refused => fs = gfs /\ gs = ggs
    /\ phase \in {"host", "resume"} => fs = HostFs /\ gs = HostGs
    /\ phase = "hook" /\ ~refused => fs = gfs /\ gs = ggs
    /\ phase \notin {"guest", "entry"} /\ ~refused => ifs = gfs /\ igs = ggs

TInv == TypeOK /\ Bases

\* instrument leaves guest and engine on the same bases.
LEMMA InitTInv == Init => TInv
  BY TlsAssumption DEF Init, TInv, TypeOK, Bases, Phases

\* Every switch of the segment bases preserves it.
LEMMA NextTInv == TInv /\ [Next]_vars => TInv'
  <1> SUFFICES ASSUME TInv, [Next]_vars PROVE TInv'
    OBVIOUS
  <1> USE TlsAssumption DEF TInv, TypeOK, Bases, Phases
  <1>1. ASSUME NEW v \in Good, GuestWriteBase(v) PROVE TInv'
    BY <1>1 DEF GuestWriteBase
  <1>2. CASE DumpHook
    BY <1>2 DEF DumpHook
  <1>3. CASE Dispatch
    BY <1>3 DEF Dispatch, SetFsGs
  <1>4. CASE Emulate
    BY <1>4 DEF Emulate
  <1>5. CASE EnterHook
    BY <1>5 DEF EnterHook, SetFsGs
  <1>6. CASE PlainHook
    BY <1>6 DEF PlainHook
  <1>7. CASE DoSyscall
    BY <1>7 DEF DoSyscall, SetFsGs
  <1>8. CASE LeaveHook
    BY <1>8 DEF LeaveHook, SetFsGs
  <1>9. ASSUME NEW a \in Good \cup Bad, ArchSetFs(a) PROVE TInv'
    BY <1>9 DEF ArchSetFs, SetFsGs
  <1>10. ASSUME NEW a \in Good \cup Bad, ArchSetGs(a) PROVE TInv'
    BY <1>10 DEF ArchSetGs
  <1>11. CASE ContinueExec
    BY <1>11 DEF ContinueExec, SetFsGs
  <1>12. CASE UNCHANGED vars
    BY <1>12 DEF vars
  <1> QED BY <1>1, <1>2, <1>3, <1>4, <1>5, <1>6, <1>7, <1>8, <1>9, <1>10, <1>11, <1>12
        DEF Next

----------------------------------------------------------------------------
(* Syscalls implements Tls.                                                *)

\* Each step with a call is a step of Tls, or leaves the bases alone.
LEMMA SysStepIsTlsStep == [SysNext]_svars => [Next]_vars
  <1> SUFFICES ASSUME [SysNext]_svars PROVE [Next]_vars
    OBVIOUS
  <1>1. CASE SysGuest
    BY <1>1 DEF SysGuest, Next
  <1>2. ASSUME NEW n, NEW r, SysDump(n, r) PROVE Next
    BY <1>2 DEF SysDump, Next
  <1>3. CASE SysDispatch \/ SysEmulate \/ SysEnterHook \/ PassOn \/ NoKernelCall
               \/ SysLeaveHook \/ SysContinue
    BY <1>3 DEF SysDispatch, SysEmulate, SysEnterHook, PassOn, NoKernelCall,
                SysLeaveHook, SysContinue, Next
  <1>4. ASSUME NEW a \in Good \cup Bad, ArchPrctl(a) PROVE Next
    BY <1>4 DEF ArchPrctl, Next
  <1>5. CASE Exit \/ Ended \/ UNCHANGED svars
    BY <1>5 DEF Exit, Ended, svars
  <1> QED BY <1>1, <1>2, <1>3, <1>4, <1>5 DEF SysNext

\* The hooks with their calls do to the segment bases nothing that the switches
\* of _dispatcher, __eval_target, do_syscall and continue_exec do not.
THEOREM SyscallsImplementTls == SysSpec => Spec
  <1>1. SysInit => Init
    BY DEF SysInit
  <1> QED BY <1>1, SysStepIsTlsStep, PTL DEF SysSpec, Spec

\* The bases' invariant holds under every sequence of system calls.
LEMMA TlsInvariance == SysSpec => []TInv
  BY SyscallsImplementTls, InitTInv, NextTInv, PTL DEF Spec

\* Every segment base is one the kernel accepts, and every variable keeps its type.
THEOREM BasesTyped == SysSpec => []TypeOK
  BY TlsInvariance, PTL DEF TInv

\* Callback, emulation and patching run on the engine's own bases, whatever bases
\* the guest has set and whichever hook ran last.
THEOREM EngineKeepsItsTls == SysSpec => []HostTls
  <1>1. TInv => HostTls
    BY DEF TInv, Bases, HostTls
  <1> QED BY <1>1, TlsInvariance, PTL

\* The guest never loses a base it has set, however often it is dispatched.
THEOREM GuestKeepsItsTls == SysSpec => []GuestTls
  <1>1. TInv => GuestTls
    BY DEF TInv, Bases, GuestTls
  <1> QED BY <1>1, TlsInvariance, PTL

\* Every hook that calls the kernel does so on the guest's bases.
THEOREM KernelAlwaysSeesGuest == SysSpec => []KernelSeesGuest
  <1>1. TInv => KernelSeesGuest
    BY DEF TInv, Bases, KernelSeesGuest
  <1> QED BY <1>1, TlsInvariance, PTL

----------------------------------------------------------------------------
(* The call.                                                               *)

\* Between the hook and its return, the call made is the one of its table.
CInv ==
    /\ args \in RegFiles
    /\ phase = "done" /\ nr \in PassedOn => Pretends \/ call = Made

\* No system call is both passed on and treated by a hook of its own.
LEMMA OwnNotPassedOn == Own \cap PassedOn = {}
  BY DEF Own, PassedOn, FirstCases, LastCases, Files, Setup, Procs, Stats, Waits, Nets

\* No call is recorded before a hook runs.
LEMMA InitCInv == SysInit => CInv
  BY RegAssumption DEF SysInit, Init, CInv, Idle

\* Every step keeps the recorded call that of the table.
LEMMA NextCInv == CInv /\ [SysNext]_svars => CInv'
  <1> SUFFICES ASSUME CInv, [SysNext]_svars PROVE CInv'
    OBVIOUS
  <1> USE DEF CInv
  <1>1. CASE SysGuest
    BY <1>1 DEF SysGuest, GuestWriteBase
  <1>2. ASSUME NEW n, NEW r \in RegFiles, SysDump(n, r) PROVE CInv'
    BY <1>2 DEF SysDump, DumpHook
  <1>3. CASE SysDispatch \/ SysEmulate \/ SysEnterHook
    BY <1>3 DEF SysDispatch, SysEmulate, SysEnterHook, Dispatch, Emulate, EnterHook
  <1>4. CASE PassOn
    <2>1. call' = Made /\ nr' = nr /\ args' = args
      BY <1>4 DEF PassOn
    <2> QED BY <2>1 DEF Made
  <1>5. CASE NoKernelCall
    <2>1. CASE Pretends
      BY <1>5, <2>1 DEF NoKernelCall, Pretends
    <2>2. CASE nr = "brk"
      BY <1>5, <2>2, OwnNotPassedOn DEF NoKernelCall, Own
    <2> QED BY <1>5, <2>1, <2>2 DEF NoKernelCall
  <1>6. CASE Exit
    BY <1>6 DEF Exit, vars
  <1>7. ASSUME NEW a \in Good \cup Bad, ArchPrctl(a) PROVE CInv'
    BY <1>7, OwnNotPassedOn DEF ArchPrctl, Own
  <1>8. CASE SysLeaveHook
    BY <1>8, RegAssumption DEF SysLeaveHook, LeaveHook, Idle
  <1>9. CASE SysContinue
    BY <1>9, RegAssumption DEF SysContinue, ContinueExec, Idle
  <1>10. CASE Ended \/ UNCHANGED svars
    BY <1>10 DEF Ended, svars, vars, Pretends, Made
  <1> QED BY <1>1, <1>2, <1>3, <1>4, <1>5, <1>6, <1>7, <1>8, <1>9, <1>10 DEF SysNext

\* The recorded call is the table's in every reachable state.
LEMMA CallInvariance == SysSpec => []CInv
  BY InitCInv, NextCInv, PTL DEF SysSpec

\* The first n argument registers of the convention.
LEMMA FirstIs ==
    ASSUME NEW n \in 0 .. 6
    PROVE  Len(First(n)) = n /\ \A i \in 1 .. n : First(n)[i] = Convention[i]
  BY DEF First, Convention

\* A call without arguments takes none of them.
LEMMA FirstNone == First(0) = <<>>
  <1>1. Convention \in Seq({"rdi", "rsi", "rdx", "r10", "r8", "r9"})
    BY DEF Convention
  <1> QED BY <1>1 DEF First

\* Everything a row of a table has to say: the call's own name, and every
\* argument the kernel reads, from its register.
Row(c, t) == \E n \in 0 .. 6 : t = First(n) /\ n >= Arity(c)

\* The rows of table Files.
LEMMA FilesRows == \A c \in DOMAIN Files : c = "mmap" \/ Row(c, Files[c])
  BY DEF Files, Row, Arity

\* The rows of table Setup.
LEMMA SetupRows == \A c \in DOMAIN Setup : Row(c, Setup[c])
  BY DEF Setup, Row, Arity

\* The rows of table Procs.
LEMMA ProcsRows == \A c \in DOMAIN Procs : c \in CutShort \cup {"fork"} \/ Row(c, Procs[c])
  BY FirstNone DEF Procs, Row, Arity, CutShort

\* The rows of table Stats.
LEMMA StatsRows == \A c \in DOMAIN Stats : c \in CutShort \/ Row(c, Stats[c])
  BY FirstNone DEF Stats, Row, Arity, CutShort

\* The rows of table Waits.
LEMMA WaitsRows == \A c \in DOMAIN Waits : c \in CutShort \/ Row(c, Waits[c])
  BY DEF Waits, Row, Arity, CutShort

\* The rows of table Nets.
LEMMA NetsRows == \A c \in DOMAIN Nets : Row(c, Nets[c])
  BY DEF Nets, Row, Arity

\* No call is in two tables.
LEMMA TablesApart ==
    /\ DOMAIN Files \cap (DOMAIN Setup \cup DOMAIN Procs \cup DOMAIN Stats
                            \cup DOMAIN Waits \cup DOMAIN Nets) = {}
    /\ DOMAIN Setup \cap (DOMAIN Procs \cup DOMAIN Stats \cup DOMAIN Waits
                            \cup DOMAIN Nets) = {}
    /\ DOMAIN Procs \cap (DOMAIN Stats \cup DOMAIN Waits \cup DOMAIN Nets) = {}
    /\ DOMAIN Stats \cap (DOMAIN Waits \cup DOMAIN Nets) = {}
    /\ DOMAIN Waits \cap DOMAIN Nets = {}
  BY DEF Files, Setup, Procs, Stats, Waits, Nets

\* Every row a hook passes on whole.
LEMMA PassesRows ==
    ASSUME NEW c \in PassedOn \ (CutShort \cup Replaced), c # "mmap"
    PROVE  CallOf(c) = c /\ Row(c, Passes(c))
  <1>1. CallOf(c) = c
    BY DEF CallOf, Replaced
  <1>2. c \in (DOMAIN Files \cup DOMAIN Setup \cup (DOMAIN Procs \ {"fork"}))
             \cup DOMAIN Stats \cup DOMAIN Waits \cup DOMAIN Nets
    BY DEF PassedOn, FirstCases, LastCases, Replaced
  <1>3. CASE c \in DOMAIN Files
    <2>1. /\ c \notin DOMAIN Setup /\ c \notin DOMAIN Procs
          /\ c \notin DOMAIN Stats /\ c \notin DOMAIN Waits
      BY <1>3, TablesApart
    <2>2. Passes(c) = Files[c]
      BY <1>3, <2>1, Zenon DEF Passes
    <2> QED BY <1>1, <1>3, <2>2, FilesRows
  <1>4. CASE c \in DOMAIN Setup
    <2>1. /\ c \notin DOMAIN Files /\ c \notin DOMAIN Procs
          /\ c \notin DOMAIN Stats /\ c \notin DOMAIN Waits
      BY <1>4, TablesApart
    <2>2. Passes(c) = Setup[c]
      BY <1>4, <2>1, Zenon DEF Passes
    <2> QED BY <1>1, <1>4, <2>2, SetupRows
  <1>5. CASE c \in DOMAIN Procs \ {"fork"}
    <2>1. /\ c \notin DOMAIN Files /\ c \notin DOMAIN Setup
          /\ c \notin DOMAIN Stats /\ c \notin DOMAIN Waits
      BY <1>5, TablesApart
    <2>2. Passes(c) = Procs[c]
      BY <1>5, <2>1, Zenon DEF Passes
    <2> QED BY <1>1, <1>5, <2>2, ProcsRows
  <1>6. CASE c \in DOMAIN Stats
    <2>1. /\ c \notin DOMAIN Files /\ c \notin DOMAIN Setup
          /\ c \notin DOMAIN Procs /\ c \notin DOMAIN Waits
      BY <1>6, TablesApart
    <2>2. Passes(c) = Stats[c]
      BY <1>6, <2>1, Zenon DEF Passes
    <2> QED BY <1>1, <1>6, <2>2, StatsRows
  <1>7. CASE c \in DOMAIN Waits
    <2>1. /\ c \notin DOMAIN Files /\ c \notin DOMAIN Setup
          /\ c \notin DOMAIN Procs /\ c \notin DOMAIN Stats
      BY <1>7, TablesApart
    <2>2. Passes(c) = Waits[c]
      BY <1>7, <2>1, Zenon DEF Passes
    <2> QED BY <1>1, <1>7, <2>2, WaitsRows
  <1>8. CASE c \in DOMAIN Nets
    <2>1. /\ c \notin DOMAIN Files /\ c \notin DOMAIN Setup
          /\ c \notin DOMAIN Procs /\ c \notin DOMAIN Stats /\ c \notin DOMAIN Waits
      BY <1>8, TablesApart
    <2>2. Passes(c) = Nets[c]
      BY <1>8, <2>1, Zenon DEF Passes
    <2> QED BY <1>1, <1>8, <2>2, NetsRows
  <1> QED BY <1>2, <1>3, <1>4, <1>5, <1>6, <1>7, <1>8

\* The row of mmap takes its flags from rcx, and its offset as an int.
LEMMA MmapRow == CallOf("mmap") = "mmap" /\ Passes("mmap") = Files.mmap
  <1>1. "mmap" \in DOMAIN Files
    BY DEF Files
  <1>2. /\ "mmap" \notin DOMAIN Setup /\ "mmap" \notin DOMAIN Procs
        /\ "mmap" \notin DOMAIN Stats /\ "mmap" \notin DOMAIN Waits
    BY <1>1, TablesApart
  <1>3. Passes("mmap") = Files["mmap"]
    BY <1>1, <1>2, Zenon DEF Passes
  <1> QED BY <1>3 DEF CallOf

\* The call of a table is the call the guest asked for.
LEMMA CInvSameCall == CInv => SameCall
  <1> SUFFICES ASSUME CInv, phase = "done", nr \in PassedOn \ (CutShort \cup Replaced),
                      ~Pretends,
                      ~(nr = "mmap" /\ (args.rcx # args.r10 \/ args["r9.int"] # args.r9))
               PROVE  /\ call.nr = nr
                      /\ Len(call.args) >= Arity(nr)
                      /\ \A i \in 1 .. Arity(nr) : call.args[i] = args[Convention[i]]
    BY DEF SameCall
  <1>0. call = Made
    BY DEF CInv
  <1>1. CASE nr # "mmap"
    <2>1. PICK n \in 0 .. 6 : Passes(nr) = First(n) /\ n >= Arity(nr)
      BY <1>1, PassesRows DEF Row
    <2>2. call = [nr |-> nr, args |-> [i \in 1 .. n |-> args[First(n)[i]]]]
      BY <1>0, <1>1, <2>1, PassesRows, FirstIs DEF Made
    <2>3. Arity(nr) \in Nat
      BY Zenon DEF Arity
    <2>4. Len(call.args) = n
      BY <2>2
    <2> QED BY <2>1, <2>2, <2>3, <2>4, FirstIs
  <1>2. CASE nr = "mmap"
    <2>1. Passes("mmap") = <<"rdi", "rsi", "rdx", "rcx", "r8", "r9.int">>
      BY MmapRow DEF Files
    <2>2. call = [nr |-> nr, args |-> [i \in 1 .. 6 |-> args[Passes("mmap")[i]]]]
      BY <1>0, <1>2, <2>1, MmapRow DEF Made
    <2>3. Arity(nr) = 6
      BY <1>2 DEF Arity
    <2> QED BY <1>2, <2>1, <2>2, <2>3 DEF Convention
  <1> QED BY <1>1, <1>2

\* Whatever system call the guest makes and whatever its registers hold, a hook
\* that passes it on asks the kernel for that call with the arguments it reads,
\* except for the hooks SameCall names.
THEOREM AlwaysSameCall == SysSpec => []SameCall
  BY CallInvariance, CInvSameCall, PTL

=============================================================================
