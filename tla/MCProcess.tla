----------------------------- MODULE MCProcess -----------------------------
(***************************************************************************)
(* Pages of 4 bytes.  The guest has a text segment and a data segment that *)
(* starts anywhere in its page, ends on or off a page boundary, with and   *)
(* without a bss of up to two pages, at the end of the file or before it;  *)
(* a few guests have one segment, a writable text, or a file that is no    *)
(* ELF file.                                                               *)
(***************************************************************************)
EXTENDS Process

MCTop == 60

Header(t, v, o, fs, ms, fl) ==
    [type |-> t, vaddr |-> v, offset |-> o, filesz |-> fs, memsz |-> ms, flags |-> fl]

Note == Header("other", 0, 0, 0, 0, {})

\* The interpreter's name at offset 2: in place, or moved to another address.
Interp(at) == Header("interp", at, 2, 1, 1, {})

MCInterp == [elf |-> TRUE, pie |-> TRUE, entry |-> 1, entryoff |-> 1, phoff |-> 0,
             len |-> 5,
             ph |-> <<Header("load", 0, 0, 3, 3, {"x"}),
                      Header("load", 4, 4, 1, 2, {"w"})>>]

Image(pie, name, text, data, len) ==
    LET org == IF pie THEN 0 ELSE 8 IN
    [elf |-> TRUE, pie |-> pie, entry |-> org + 2, entryoff |-> 2, phoff |-> 1,
     len |-> len,
     ph |-> name \o <<Header("load", org, 0, text.filesz, text.memsz, text.flags)>>
                 \o [n \in 1 .. Len(data) |-> [data[n] EXCEPT !.vaddr = org + @]]]

Text == [filesz |-> 4, memsz |-> 4, flags |-> {"x"}]

Data(o, fs, bss, fl) == Header("load", 8 + o, 4 + o, fs, fs + bss, fl)

\* With and without an interpreter, and a name load_interp does not find.
Names == {<<>>, <<Note, Interp(2)>>, <<Interp(6)>>}

Ordinary ==
    {Image(pie, name, Text, <<Data(o, fs, bss, fl)>>, 4 + o + fs + tail) :
        pie \in BOOLEAN, name \in Names, o \in {0, 1, 3}, fs \in {1, 4, 6},
        bss \in {0, 3, 7}, fl \in {{}, {"w"}}, tail \in {0, 5}}

\* One segment, writable, with or without a bss; a text that ends off its page;
\* an address that is not that of a page; a bss of the first segment that reaches
\* the interpreter; a read-only segment behind the writable one.
Odd ==
    {Image(pie, <<>>, [filesz |-> fs, memsz |-> fs + bss, flags |-> {"x", "w"}], <<>>, 8) :
        pie \in BOOLEAN, fs \in {3, 4}, bss \in {0, 1, 5}}
    \cup {[Image(FALSE, <<>>, Text, <<>>, 8) EXCEPT
              !.ph = <<Header("load", 9, 1, 3, 3, {"x"})>>],
          [Image(TRUE, <<>>, Text, <<>>, 8) EXCEPT !.elf = FALSE],
          Image(TRUE, <<Note, Interp(2)>>, [filesz |-> 3, memsz |-> 8, flags |-> {"x", "w"}],
                <<>>, 8),
          Image(TRUE, <<>>, [Text EXCEPT !.flags = {"x", "w"}], <<Data(0, 4, 0, {})>>, 8)}

MCPrograms == {[main |-> m, interp |-> MCInterp] : m \in Ordinary \cup Odd}

MCBases == [main |-> {0, 4}, interp |-> {8, 24, 44}]

MCCommands ==
    {[argv |-> <<100, 101>>, envp |-> <<200, 201>>, fd |-> 3],
     [argv |-> <<100>>, envp |-> <<200>>, fd |-> 0],
     [argv |-> <<100, 101, 102>>, envp |-> <<200, 201, 202>>, fd |-> 3]}

=============================================================================
