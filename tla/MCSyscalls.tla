----------------------------- MODULE MCSyscalls -----------------------------
(***************************************************************************)
(* The host's two bases, one more the guest may choose, one the kernel     *)
(* refuses; every system call that has a hook; rdi is stdout or not, rcx   *)
(* holds what r10 does or not, r9 fits in an int or not.                   *)
(***************************************************************************)
EXTENDS Syscalls

MCGood == 1 .. 3

MCRegFiles ==
    {[r \in {"rdi", "rsi", "rdx", "r10", "r8", "r9", "rcx", "r9.int"} |->
        CASE r = "rdi" -> d
          [] r = "rcx" -> c
          [] r = "r9.int" -> i
          [] OTHER -> r] :
       d \in {"stdout", "rdi"}, c \in {"r10", "rcx"}, i \in {"r9", "cut"}}

=============================================================================
