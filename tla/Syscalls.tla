------------------------------ MODULE Syscalls ------------------------------
(***************************************************************************)
(* The system calls of the guest, as the hooks of src/src/syscall_hook.c   *)
(* make them for it: which hook get_syscall_hook chooses, which registers  *)
(* of the guest it hands to the kernel, on whose segment bases (Tls), and  *)
(* the hooks that make no call or do not return.                           *)
(*                                                                         *)
(* A hook is a row of a table: the registers it passes, in order.  Beside  *)
(* the registers of the convention there are "rcx" and "r9.int", r9 cut    *)
(* down to an int.                                                         *)
(***************************************************************************)
EXTENDS Tls, Integers, Sequences

CONSTANT RegFiles   \* argument registers the guest may come with

\* The convention (src/include/dryadalis_x86.h), and its first arguments.
Convention == <<"rdi", "rsi", "rdx", "r10", "r8", "r9">>
First(n) == SubSeq(Convention, 1, n)

ASSUME RegAssumption ==
    RegFiles # {} /\ \A r \in RegFiles : DOMAIN r = {"rdi", "rsi", "rdx", "r10", "r8", "r9",
                                     "rcx", "r9.int"}

VARIABLES
    nr,         \* the system call at the end of the block, "none" for a branch
    args,       \* the guest's argument registers
    call,       \* what the kernel was asked: number and arguments
    over        \* "no", or how the process ended

svars == <<vars, nr, args, call, over>>

\* Registers between two system calls, of no concern.
Idle   == CHOOSE r \in RegFiles : TRUE
NoCall == [nr |-> "none", args |-> <<>>]

----------------------------------------------------------------------------
(* The arguments of do_syscall in each hook.                               *)

Files == [access |-> First(2),
          mmap |-> <<"rdi", "rsi", "rdx", "rcx", "r8", "r9.int">>,
          writev |-> First(3), openat |-> First(4), fstat |-> First(2),
          close |-> First(1), read |-> First(3), mprotect |-> First(3)]

Setup == [pread64 |-> First(4), munmap |-> First(2), set_tid_address |-> First(1),
          set_robust_list |-> First(2), rt_sigaction |-> First(4),
          rt_sigprocmask |-> First(4), prlimit64 |-> First(4), statfs |-> First(2),
          stat |-> First(2), getuid |-> First(1), geteuid |-> First(1),
          getegid |-> First(1), getgid |-> First(1)]

\* Mutant: hook_connect without its last argument.
ProcsShort ==
         [futex |-> First(3), getpid |-> <<>>, gettid |-> <<>>, tgkill |-> First(3),
          socket |-> First(3), connect |-> First(2), write |-> First(3),
          sigaltstack |-> First(2), newfstatat |-> First(5), ioctl |-> First(3),
          execve |-> First(3), fork |-> <<>>, uname |-> First(1)]

Procs == [futex |-> First(3), getpid |-> <<>>, gettid |-> <<>>, tgkill |-> First(3),
          socket |-> First(3), connect |-> First(3), write |-> First(3),
          sigaltstack |-> First(2), newfstatat |-> First(5), ioctl |-> First(3),
          execve |-> First(3), fork |-> <<>>, uname |-> First(1)]

Stats == [fcntl |-> First(3), getpgrp |-> <<>>, setpgid |-> First(2),
          getdents64 |-> First(3), statx |-> First(5), lgetxattr |-> First(4),
          fadvise64 |-> First(2), readlink |-> First(3), setitimer |-> First(3),
          readv |-> First(3), lseek |-> First(3), gettimeofday |-> First(2),
          clone |-> First(4)]

Waits == [wait4 |-> First(4), lstat |-> First(2), fanotify_mark |-> First(2),
          msgsnd |-> First(4), seccomp |-> First(3), io_submit |-> First(3),
          time |-> First(1), clock_getres |-> First(2), clock_gettime |-> First(2),
          epoll_create1 |-> First(1), eventfd2 |-> First(2), pipe2 |-> First(2),
          getcwd |-> First(2), chdir |-> First(1)]

Nets == [umask |-> First(1), mkdir |-> First(2), bind |-> First(3), listen |-> First(2),
         setsockopt |-> First(5), accept4 |-> First(4), poll |-> First(3),
         shmat |-> First(3), shutdown |-> First(2)]

\* Every call a hook makes by do_syscall.
Passes(c) ==
    CASE c \in DOMAIN Files -> Files[c]
      [] c \in DOMAIN Setup -> Setup[c]
      [] c \in DOMAIN Procs -> Procs[c]
      [] c \in DOMAIN Stats -> Stats[c]
      [] c \in DOMAIN Waits -> Waits[c]
      [] OTHER              -> Nets[c]

\* get_syscall_hook: the cases up to uname, and the rest.  getppid gets getpid's
\* hook, and vfork's hook forks.
FirstCases == DOMAIN Files \cup DOMAIN Setup \cup (DOMAIN Procs \ {"fork"})
                \cup {"getppid", "vfork"}
LastCases  == DOMAIN Stats \cup DOMAIN Waits \cup DOMAIN Nets
PassedOn   == FirstCases \cup LastCases
Own        == {"brk", "arch_prctl", "exit", "exit_group"}
Hooked     == PassedOn \cup Own

\* The call the chosen hook makes.
CallOf(n) == CASE n = "getppid" -> "getpid" [] n = "vfork" -> "fork" [] OTHER -> n

----------------------------------------------------------------------------

SysInit == Init /\ nr = "none" /\ args = Idle /\ call = NoCall /\ over = "no"

\* A block ends in system call n, one without a hook ("other"), or a branch.
SysDump(n, r) ==
    /\ DumpHook
    /\ nr' = n /\ args' = r
    /\ UNCHANGED <<call, over>>

SysGuest ==
    /\ \E v \in Good : GuestWriteBase(v)
    /\ UNCHANGED <<nr, args, call, over>>

SysDispatch == Dispatch /\ UNCHANGED <<nr, args, call, over>>

\* A branch, or a system call the guest is left to make itself.
SysEmulate ==
    /\ nr \notin Hooked
    /\ Emulate
    /\ UNCHANGED <<nr, args, call, over>>

SysEnterHook ==
    /\ nr \in Hooked
    /\ EnterHook
    /\ UNCHANGED <<nr, args, call, over>>

\* hook_close on stdout: the guest is told it worked.
Pretends == nr = "close" /\ args.rdi = "stdout"

Made == [nr |-> CallOf(nr),
         args |-> [i \in 1 .. Len(Passes(CallOf(nr))) |-> args[Passes(CallOf(nr))[i]]]]

PassOn ==
    /\ nr \in PassedOn /\ ~Pretends
    /\ DoSyscall
    /\ call' = Made
    /\ over' \in {"no"} \cup (IF nr = "execve" THEN {"exec"} ELSE {})
                        \cup (IF nr = "mmap" THEN {"fatal"} ELSE {})
    /\ UNCHANGED <<nr, args>>

\* hook_close on stdout and hook_brk.
NoKernelCall ==
    /\ Pretends \/ nr = "brk"
    /\ PlainHook
    /\ UNCHANGED <<nr, args, call, over>>

\* hook_exit, hook_exit_grp: the destructor ends the process with status 0.
Exit ==
    /\ nr \in {"exit", "exit_group"} /\ phase = "hook" /\ over = "no"
    /\ over' = "exit"
    /\ UNCHANGED <<vars, nr, args, call>>

\* hook_arch_prctl: ARCH_SET_FS, ARCH_SET_GS, and the codes that set nothing.
ArchPrctl(a) ==
    /\ nr = "arch_prctl"
    /\ ArchSetFs(a) \/ ArchSetGs(a) \/ PlainHook
    /\ call' = [nr |-> nr, args |-> <<args.rdi, args.rsi>>]
    /\ UNCHANGED <<nr, args, over>>

SysLeaveHook ==
    /\ LeaveHook
    /\ nr' = "none" /\ args' = Idle /\ call' = NoCall
    /\ UNCHANGED over

SysContinue ==
    /\ ContinueExec
    /\ nr' = "none" /\ args' = Idle
    /\ UNCHANGED <<call, over>>

Ended == over # "no" /\ UNCHANGED svars

SysNext ==
    \/ Ended
    \/ /\ over = "no"
       /\ \/ SysGuest
          \/ \E n \in Hooked \cup {"none", "other"}, r \in RegFiles : SysDump(n, r)
          \/ SysDispatch \/ SysEmulate \/ SysEnterHook
          \/ PassOn \/ NoKernelCall \/ Exit
          \/ \E a \in Good \cup Bad : ArchPrctl(a)
          \/ SysLeaveHook \/ SysContinue

SysSpec == SysInit /\ [][SysNext]_svars

----------------------------------------------------------------------------
(* What must hold.                                                         *)

\* How many arguments the kernel reads (external).
Arity(n) ==
    CASE n \in {"getuid", "geteuid", "getegid", "getgid", "getpid", "gettid",
                "getppid", "getpgrp", "vfork"} -> 0
      [] n \in {"close", "set_tid_address", "uname", "chdir", "umask",
                "epoll_create1", "time"} -> 1
      [] n \in {"access", "fstat", "munmap", "set_robust_list", "statfs", "stat",
                "sigaltstack", "setpgid", "gettimeofday", "lstat", "clock_getres",
                "clock_gettime", "eventfd2", "pipe2", "getcwd", "mkdir", "listen",
                "shutdown"} -> 2
      [] n \in {"openat", "pread64", "rt_sigaction", "rt_sigprocmask", "prlimit64",
                "newfstatat", "lgetxattr", "fadvise64", "wait4", "msgsnd",
                "accept4"} -> 4
      [] n \in {"statx", "fanotify_mark", "clone", "setsockopt"} -> 5
      [] n \in {"mmap", "futex"} -> 6
      [] OTHER -> 3

\* Hooks that pass too little, or make another call; close of stdout.
CutShort == {"futex", "fadvise64", "fanotify_mark", "clone"}
Replaced == {"getppid", "vfork"}

\* The kernel is asked what the guest asked: the same call, with every argument
\* it reads, from the registers the convention gives it.  hook_mmap does so when
\* the guest has its flags in rcx as well and an offset that fits in an int.
\* Known exceptions: four hooks that drop arguments, two that make another call,
\* and close of stdout.
SameCall ==
    phase = "done" /\ nr \in PassedOn \ (CutShort \cup Replaced) =>
        \/ /\ call.nr = nr
           /\ Len(call.args) >= Arity(nr)
           /\ \A i \in 1 .. Arity(nr) : call.args[i] = args[Convention[i]]
        \/ nr = "mmap" /\ (args.rcx # args.r10 \/ args["r9.int"] # args.r9)
        \/ Pretends

=============================================================================
