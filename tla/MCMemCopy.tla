------------------------------ MODULE MCMemCopy ------------------------------
(***************************************************************************)
(* Two pages of a few bytes, each mapped or not and protected in every    *)
(* way, and a hook one byte shorter than a page at every address; the      *)
(* bytes of the image are all different, so that one landing in the wrong  *)
(* place shows.                                                            *)
(***************************************************************************)
EXTENDS MemCopy

MCCode   == [i \in 0 .. (L - 1) |-> 10 + i]
MCVal    == 0 .. 22
MCImages == {[a \in Addr |-> a]}

=============================================================================
