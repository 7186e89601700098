----------------------------- MODULE GuestStack -----------------------------
(***************************************************************************)
(* The first stack of the guest, word by word: setup_stack copies the      *)
(* arguments and the environment and appends the auxiliary vector with     *)
(* add_auxvt (src/src/core_mapper.c, src/src/elf_parsing.c); the guest's   *)
(* C library reads it back.                                                *)
(***************************************************************************)
EXTENDS Integers, Sequences, FiniteSetsExt

CONSTANT StackWords     \* words from rsp up to the end of the mapping

ASSUME StackAssumption == StackWords \in Nat \ {0}

\* map_stack: fresh pages.
Fresh == [i \in 0 .. (StackWords - 1) |-> 0]

\* map_val: seq (without its terminating NULL) at word k.
MapVal(stack, k, seq) ==
    [i \in DOMAIN stack |-> IF i \in k .. (k + Len(seq) - 1) THEN seq[i - k + 1]
                            ELSE stack[i]]

\* add_auxvt: the first place, word by word, where two words are 0.
AuxFree(stack, k) ==
    CHOOSE i \in k .. (StackWords - 2) :
        /\ stack[i] = 0 /\ stack[i + 1] = 0
        /\ \A j \in k .. (i - 1) : stack[j] # 0 \/ stack[j + 1] # 0

AddAuxvt(stack, k, id, val) ==
    LET i == AuxFree(stack, k) IN [stack EXCEPT ![i] = id, ![i + 1] = val]

\* Mutant: the environment right behind the last argument.
EnvAtNoNull(argv) == Len(argv) + 1

\* The word of the first environment variable, and of the auxiliary vector.
EnvAt(argv) == Len(argv) + 2
AuxAt(argv, envp) == EnvAt(argv) + Len(envp) + 1

\* All of it is on the mapping.
Fits(argv, envp, aux) == AuxAt(argv, envp) + 2 * Len(aux) <= StackWords

\* setup_stack up to the auxiliary vector.  argv and envp are what the guest is
\* to get: argc - 1 of the engine's arguments from argv[1] on, and the environment
\* behind them.
Copied(argv, envp) ==
    MapVal(MapVal([Fresh EXCEPT ![0] = Len(argv)], 1, argv), EnvAt(argv), envp)

----------------------------------------------------------------------------
(* What the start-up code of the guest finds (external): argc, then words  *)
(* up to a NULL twice, then pairs up to the one of type AT_NULL.           *)

NullFrom(stack, k) == Min({i \in k .. (StackWords - 1) : stack[i] = 0})

Strings(stack, k) == SubSeq([i \in 1 .. (StackWords - 1) |-> stack[i]],
                            k, NullFrom(stack, k) - 1)

AuxStart(stack) == NullFrom(stack, NullFrom(stack, 1) + 1) + 1

\* The pairs, as a set: one of each type.
AuxPairs(stack) ==
    LET k   == AuxStart(stack)
        At(n) == k + 2 * n
        end == Min({n \in 0 .. ((StackWords - 2 - k) \div 2) : stack[At(n)] = 0})
    IN {<<stack[At(n)], stack[At(n) + 1]>> : n \in 0 .. (end - 1)}

=============================================================================
