--------------------------------- MODULE Tls ---------------------------------
(***************************************************************************)
(* Who runs on whose $fs and $gs.  Guest and engine share one thread and   *)
(* one pair of segment bases, and each has its thread-local storage        *)
(* behind them: _dispatcher saves the guest's bases and loads the host's,  *)
(* a system call hook runs on the guest's, continue_exec loads the guest's *)
(* again (src/src/engine.c, src/src/analysis.c, src/src/syscall_hook.c).   *)
(***************************************************************************)

CONSTANTS
    Good, Bad,      \* bases arch_prctl accepts and refuses
    HostFs, HostGs  \* host_state->fs, host_state->gs

ASSUME TlsAssumption ==
    /\ Good \cap Bad = {}
    /\ HostFs \in Good /\ HostGs \in Good

VARIABLES
    fs, gs,         \* the bases the processor uses
    ifs, igs,       \* instrumented_fs, instrumented_gs
    gfs, ggs,       \* the bases the guest would have without the engine
    refused,        \* the guest has asked for a base the kernel refuses
    phase

vars == <<fs, gs, ifs, igs, gfs, ggs, refused, phase>>

\* "host": callback and emulation; "hook": in a hook of syscall_hook.c;
\* "done": it has returned; "resume": next block prepared, continue_exec.
Phases == {"guest", "entry", "host", "hook", "done", "resume"}

\* Mutant: the bases are loaded without asking the kernel.
SetFsGsUnchecked(f, g) == fs' = f /\ gs' = g

\* set_fs_gs: ARCH_SET_GS is not tried when ARCH_SET_FS fails, and the result
\* is 0 or 1, so no caller that compares it with -1 sees a failure.
SetFsGs(f, g) ==
    /\ fs' = IF f \in Good THEN f ELSE fs
    /\ gs' = IF f \in Good /\ g \in Good THEN g ELSE gs

\* instrument: the host's bases are saved; the guest starts on them, for
\* instrumented_fs is still 0.
Init ==
    /\ fs = HostFs /\ gs = HostGs
    /\ ifs = 0 /\ igs = 0
    /\ gfs = HostFs /\ ggs = HostGs
    /\ refused = FALSE
    /\ phase = "guest"

----------------------------------------------------------------------------
(* The guest may move its bases itself (wrfsbase, wrgsbase).               *)

GuestWriteBase(v) ==
    /\ phase = "guest"
    /\ \/ fs' = v /\ gfs' = v /\ UNCHANGED <<gs, ggs>>
       \/ gs' = v /\ ggs' = v /\ UNCHANGED <<fs, gfs>>
    /\ UNCHANGED <<ifs, igs, refused, phase>>

\* The dump hook is reached.
DumpHook ==
    /\ phase = "guest"
    /\ phase' = "entry"
    /\ UNCHANGED <<fs, gs, ifs, igs, gfs, ggs, refused>>

\* _dispatcher: save_fs_gs, then set_fs_gs of the host's.
Dispatch ==
    /\ phase = "entry"
    /\ ifs' = fs /\ igs' = gs
    /\ SetFsGs(HostFs, HostGs)
    /\ phase' = "host"
    /\ UNCHANGED <<gfs, ggs, refused>>

\* The callback, the emulation of a branch or of a system call without a hook,
\* and the next block: all on the host's.
Emulate ==
    /\ phase = "host"
    /\ phase' = "resume"
    /\ UNCHANGED <<fs, gs, ifs, igs, gfs, ggs, refused>>

\* Mutant: the hook starts on the host's bases.
EnterHookOnHost ==
    /\ phase = "host"
    /\ phase' = "hook"
    /\ UNCHANGED <<fs, gs, ifs, igs, gfs, ggs, refused>>

\* __eval_target on a system call that has a hook.
EnterHook ==
    /\ phase = "host"
    /\ SetFsGs(ifs, igs)
    /\ phase' = "hook"
    /\ UNCHANGED <<ifs, igs, gfs, ggs, refused>>

\* hook_brk, hook_close and the rest that call no do_syscall.
PlainHook ==
    /\ phase = "hook"
    /\ phase' = "done"
    /\ UNCHANGED <<fs, gs, ifs, igs, gfs, ggs, refused>>

\* do_syscall: the guest's bases once more (what EnterHook did, with the same
\* result), the call, the host's.
DoSyscall ==
    /\ phase = "hook"
    /\ SetFsGs(HostFs, HostGs)
    /\ phase' = "done"
    /\ UNCHANGED <<ifs, igs, gfs, ggs, refused>>

\* Mutant: the new base is not recorded.
ArchSetFsForgets(a) ==
    /\ phase = "hook"
    /\ SetFsGs(HostFs, HostGs)
    /\ IF a \in Good THEN gfs' = a /\ UNCHANGED refused
                     ELSE refused' = TRUE /\ UNCHANGED gfs
    /\ phase' = "done"
    /\ UNCHANGED <<ifs, igs, ggs>>

\* hook_arch_prctl with ARCH_SET_FS: recorded before it is tried, and the
\* host's bases are loaded after it.
ArchSetFs(a) ==
    /\ phase = "hook"
    /\ ifs' = a
    /\ SetFsGs(HostFs, HostGs)
    /\ IF a \in Good THEN gfs' = a /\ UNCHANGED refused
                     ELSE refused' = TRUE /\ UNCHANGED gfs
    /\ phase' = "done"
    /\ UNCHANGED <<igs, ggs>>

\* ARCH_SET_GS: the new base stays loaded.
ArchSetGs(a) ==
    /\ phase = "hook"
    /\ igs' = a
    /\ IF a \in Good THEN gs' = a /\ ggs' = a /\ UNCHANGED refused
                     ELSE refused' = TRUE /\ UNCHANGED <<gs, ggs>>
    /\ phase' = "done"
    /\ UNCHANGED <<fs, ifs, gfs>>

\* Mutant: the hook is trusted to have loaded the host's bases.
LeaveHookAsIs ==
    /\ phase = "done"
    /\ phase' = "resume"
    /\ UNCHANGED <<fs, gs, ifs, igs, gfs, ggs, refused>>

\* __eval_target after the hook; the next block follows.
LeaveHook ==
    /\ phase = "done"
    /\ SetFsGs(HostFs, HostGs)
    /\ phase' = "resume"
    /\ UNCHANGED <<ifs, igs, gfs, ggs, refused>>

\* continue_exec: a failure is reported and ignored.
ContinueExec ==
    /\ phase = "resume"
    /\ SetFsGs(ifs, igs)
    /\ phase' = "guest"
    /\ UNCHANGED <<ifs, igs, gfs, ggs, refused>>

Next ==
    \/ \E v \in Good : GuestWriteBase(v)
    \/ DumpHook \/ Dispatch \/ Emulate
    \/ EnterHook \/ PlainHook \/ DoSyscall \/ LeaveHook
    \/ \E a \in Good \cup Bad : ArchSetFs(a) \/ ArchSetGs(a)
    \/ ContinueExec

Spec == Init /\ [][Next]_vars

----------------------------------------------------------------------------
(* What must hold.                                                         *)

\* Type correctness.
TypeOK ==
    /\ fs \in Good /\ gs \in Good /\ gfs \in Good /\ ggs \in Good
    /\ ifs \in Good \cup Bad \cup {0} /\ igs \in Good \cup Bad \cup {0}
    /\ refused \in BOOLEAN
    /\ phase \in Phases

\* The engine's own code runs on the host's thread-local storage, whatever the
\* guest did to its bases and whichever hook ran (_dispatcher, __eval_target).
HostTls == phase \in {"host", "resume"} => fs = HostFs /\ gs = HostGs

\* The guest runs on its own bases: neither a dispatch nor a hook loses a base
\* it set, by arch_prctl or by itself (save_fs_gs, continue_exec), as long as
\* it asks the kernel for nothing the kernel refuses.
GuestTls == phase = "guest" /\ ~refused => fs = gfs /\ gs = ggs

\* A hook makes its system call on the guest's bases, so that the kernel reports
\* (ARCH_GET_FS) and inherits (clone) the guest's.
KernelSeesGuest == phase = "hook" /\ ~refused => fs = gfs /\ gs = ggs

=============================================================================
