----------------------------- MODULE MCBlockScan -----------------------------
(***************************************************************************)
(* Pages of four bytes; blocks of every sequence of instruction lengths 1  *)
(* and 3 up to MaxBytes bytes, at every offset in the first page, ending   *)
(* in control flow or in bytes that do not decode, or running to the top   *)
(* of memory, with and without a system call to re-run in front, and with  *)
(* none or one of the pages refused by mprotect.                           *)
(***************************************************************************)
EXTENDS BlockScan, Sequences, SequencesExt, FiniteSetsExt

MaxBytes == 11

\* starts[k]: the sets of instruction starts of the sequences of k bytes.
MCStarts ==
    LET starts[k \in 0 .. MaxBytes] ==
            IF k = 0 THEN {{}}
            ELSE {s \cup {k - 1} : s \in starts[k - 1]}
                 \cup (IF k < 3 THEN {} ELSE {s \cup {k - 3} : s \in starts[k - 3]})
    IN  starts

Text(b, k, s, end, sys) ==
    [a \in Addr |->
        CASE a - b \in s -> [len  |-> IF a - b + 1 \in s \cup {k} THEN 1 ELSE 3,
                             kind |-> IF sys /\ a = b THEN "cflow" ELSE "straight"]
          [] a - b = k   -> [len |-> 1, kind |-> end]
          [] OTHER       -> [len |-> 1, kind |-> "straight"]]

MCBlocks ==
    UNION {{[text |-> Text(b, k, s, e, y), base |-> b, curr_syscall |-> y, sealed |-> z] :
                s \in MCStarts[k], e \in {"cflow", "bad", "straight"}, y \in BOOLEAN,
                z \in {{}, {0}, {1}, {2}}} :
            b \in 0 .. 3, k \in 1 .. MaxBytes}

=============================================================================
