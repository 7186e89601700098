---------------------------- MODULE MemCopyProofs ----------------------------
(***************************************************************************)
(* The page-by-page copies of mem_read and mem_write, proved for every     *)
(* page size, every hook that fits a page and every way the pages are      *)
(* mapped and protected.                                                   *)
(***************************************************************************)
EXTENDS MemCopy, TLAPS

\* Bytes left in the page a copy starts in.
Cut == P - Offt(at)

\* What mem_read is filling.
Dest == IF op = "scan" THEN buf ELSE orig

\* Where the loops can be: at the start, at the one page boundary a copy of at
\* most a page can meet, or at the end.
Shape ==
    /\ pc = "idle" => op = "none"
    /\ pc \in {"read", "readret"} => op \in {"scan", "save"} /\ k <= Size
    /\ pc = "read" =>
          /\ count = k
          /\ \/ k = 0 /\ sz = IF Size <= Cut THEN Size ELSE Cut
             \/ k = Cut /\ Cut < Size /\ sz = Size - Cut
    /\ pc = "write" => /\ op \in {"hook", "unhook"}
                       /\ k = 0 \/ (k = Cut /\ Cut < L) \/ k = L

\* A page that is not private never becomes writable, and the one past the end
\* of memory is not mapped.
Perms ==
    /\ backing[NPages] = "none"
    /\ \A p \in Pages : /\ backing[p] = "none" => prot[p] = {}
                        /\ backing[p] = "shared" => "w" \notin prot[p]

\* Whose bytes are being copied, and where to.
Owner ==
    /\ pc \in {"read", "readret"} => ~hooked
    /\ pc = "write" => (hooked <=> op = "unhook")
    /\ pc \in {"read", "readret", "write"} /\ op # "scan" => at = jmp

\* Memory between and during the copies.
Contents ==
    /\ pc = "idle" => \A a \in Addr : mem[a] = IF hooked /\ a \in HookWin
                                              THEN Code[a - jmp] ELSE clean[a]
    /\ pc \in {"read", "readret"} => \A a \in Addr : mem[a] = clean[a]
    /\ pc = "write" /\ op = "hook" =>
          \A a \in Addr : mem[a] = IF a \in at .. (at + k - 1)
                                   THEN Code[a - at] ELSE clean[a]
    /\ pc = "write" /\ op = "unhook" =>
          \A a \in Addr : mem[a] = IF a \in (at + k) .. (at + L - 1)
                                   THEN Code[a - at] ELSE clean[a]

\* The first n bytes at a were saved in orig.
Saved(a, n) == \A i \in 0 .. (n - 1) : a + i \in Addr /\ orig[i] = clean[a + i]

\* The first n bytes were read.
Got(n) == \A i \in 0 .. (n - 1) : at + i \in Addr /\ Dest[i] = mem[at + i]

\* What write_hook takes for a whole read is one, or the page cannot be written.
Kept ==
    /\ pc \in {"idle", "write"} /\ hooked => Saved(jmp, L)
    /\ pc = "write" /\ op = "hook" => Saved(at, L) \/ ~CanProtect(PageOf(at))
    /\ pc \in {"read", "readret"} => Got(k)
    /\ pc = "readret" => Got(Size) \/ ~CanProtect(PageOf(at))

Writable(a, b) == \A x \in a .. b : "w" \in prot[PageOf(x)]
Private(a, b)  == \A x \in a .. b : CanProtect(PageOf(x))

\* What has been copied is writable, and so is what has to be put back.
Secured ==
    /\ pc = "read" => Writable(at, at + k - 1)
    /\ pc = "write" /\ op = "hook" => /\ Private(at, at + k - 1)
                                      /\ Writable(at, at + k - 1)
    /\ hooked => Private(jmp, jmp + L)
    /\ hooked /\ ~native => Writable(jmp, jmp + L)
    /\ pc = "readret" => Writable(at, at + Size - 1) \/ ~Private(at, at + Size)
    /\ pc = "write" /\ op = "hook" =>
          Writable(at, at + L - 1) \/ ~Private(at, at + L)
    /\ pc = "readret" /\ ret = -1 => ~CanProtect(PageOf(at))
    /\ pc \in {"segv", "fatal"} /\ op = "unhook" => native

IInv == /\ TypeOK /\ Shape /\ Perms /\ Owner /\ Contents /\ Kept /\ Secured
        /\ DiesForReason

----------------------------------------------------------------------------
(* Pages.                                                                  *)

\* An address is its page and its offset.
LEMMA DivMod ==
    ASSUME NEW n \in Nat \ {0}, NEW a \in Nat
    PROVE  /\ a \div n \in Nat /\ a % n \in 0 .. (n - 1)
           /\ a = n * (a \div n) + (a % n)
  OBVIOUS

\* The page of an address is the one whose bounds it lies within.
LEMMA DivUnique ==
    ASSUME NEW n \in Nat \ {0}, NEW a \in Nat, NEW q \in Nat, n * q <= a, a < n * q + n
    PROVE  a \div n = q
  <1>1. q * n <= a /\ a < (q + 1) * n
    OBVIOUS
  <1> QED BY <1>1

\* Addresses up to a page past the end of memory lie on the pages of the model,
\* and the ones not on the last of these lie in memory.
LEMMA PageInRange ==
    ASSUME NEW x \in Nat, x < P * NPages + P
    PROVE  PageOf(x) \in Pages /\ (PageOf(x) # NPages => x \in Addr)
  <1> DEFINE q == x \div P
             e == P * q
             t == P * NPages
  <1>1. P \in Nat \ {0} /\ NPages \in Nat \ {0}
    BY CopyAssumption
  <1>2. q \in Nat /\ (x % P) \in 0 .. (P - 1) /\ x = P * q + (x % P)
    BY <1>1, DivMod
  <1>3. q <= NPages
    <2>1. P * q < P * (NPages + 1)
      <3>1. P * (NPages + 1) = P * NPages + P
        BY <1>1
      <3> QED BY <1>1, <1>2, <3>1
    <2> QED BY <1>1, <1>2, <2>1
  <1>4. ASSUME q # NPages PROVE x < P * NPages
    <2>1. q + 1 <= NPages
      BY <1>1, <1>2, <1>3, <1>4
    <2>2. P * (q + 1) <= P * NPages
      BY <1>1, <1>2, <2>1
    <2>3. P * (q + 1) = P * q + P
      BY <1>1, <1>2
    <2> QED BY <1>1, <1>2, <2>2, <2>3
  <1>5. P * NPages \in Nat
    BY <1>1
  <1> QED BY <1>1, <1>2, <1>3, <1>4, <1>5 DEF PageOf, Pages, Addr

\* Up to the end of its page every byte is on the same page.
LEMMA SamePage ==
    ASSUME NEW y \in Nat, NEW x \in y .. (y + (P - Offt(y)) - 1)
    PROVE  PageOf(x) = PageOf(y)
  <1> DEFINE q == y \div P
  <1>1. P \in Nat \ {0}
    BY CopyAssumption
  <1>2. q \in Nat /\ (y % P) \in 0 .. (P - 1) /\ y = P * q + (y % P) /\ P * q \in Nat
    BY <1>1, DivMod
  <1>3. x \in Nat /\ P * q <= x /\ x < P * q + P
    BY <1>1, <1>2 DEF Offt
  <1>4. x \div P = q
    BY <1>1, <1>2, <1>3, DivUnique
  <1> QED BY <1>4 DEF PageOf

\* The first byte of the next page is a page boundary, and a copy of at most a
\* page that leaves its first page ends in the next.
LEMMA NextPage ==
    ASSUME NEW y \in Nat, NEW n \in 0 .. P, P - Offt(y) <= n
    PROVE  /\ Offt(y + (P - Offt(y))) = 0
           /\ PageOf(y + (P - Offt(y))) = PageOf(y + n)
  <1> DEFINE q == y \div P
             b == y + (P - Offt(y))
  <1>1. P \in Nat \ {0}
    BY CopyAssumption
  <1>2. q \in Nat /\ (y % P) \in 0 .. (P - 1) /\ y = P * q + (y % P) /\ P * q \in Nat
    BY <1>1, DivMod
  <1>3. b = P * (q + 1) /\ b \in Nat /\ P * (q + 1) = P * q + P
    BY <1>1, <1>2 DEF Offt
  <1>4. b \div P = q + 1
    BY <1>1, <1>2, <1>3, DivUnique
  <1>5. b % P = 0
    <2>1. b = P * (b \div P) + (b % P) /\ (b % P) \in 0 .. (P - 1)
      BY <1>1, <1>3, DivMod
    <2>2. b = b + (b % P)
      BY <1>3, <1>4, <2>1
    <2> QED BY <1>3, <2>1, <2>2
  <1>6. (y + n) \div P = q + 1
    <2>0. y + n \in Nat /\ q + 1 \in Nat
      BY <1>1, <1>2
    <2>1. P * q + P <= y + n
      BY <1>1, <1>2 DEF Offt
    <2>2. y + n < P * q + P + P
      BY <1>1, <1>2
    <2>3. P * (q + 1) <= y + n /\ y + n < P * (q + 1) + P
      BY <1>3, <2>1, <2>2
    <2> QED BY <1>1, <2>0, <2>3, DivUnique
  <1> QED BY <1>4, <1>5, <1>6 DEF PageOf, Offt

----------------------------------------------------------------------------
(* The chunks of a copy.                                                   *)

\* What every step needs to know of sizes and addresses.
LEMMA Sizes ==
    ASSUME TypeOK
    PROVE  /\ P \in Nat \ {0} /\ NPages \in Nat \ {0} /\ L \in 1 .. P
           /\ P * NPages \in Nat /\ at \in Nat /\ at < P * NPages
           /\ jmp \in Nat /\ jmp < P * NPages
           /\ Offt(at) \in 0 .. (P - 1) /\ Cut \in 1 .. P /\ Size \in 1 .. P
  <1>1. P \in Nat \ {0} /\ NPages \in Nat \ {0} /\ L \in 1 .. P
    BY CopyAssumption
  <1>2. P * NPages \in Nat
    BY <1>1
  <1>3. at \in Nat /\ at < P * NPages /\ jmp \in Nat /\ jmp < P * NPages
    BY <1>2 DEF TypeOK, Addr
  <1>4. Offt(at) \in 0 .. (P - 1)
    BY <1>1, <1>3, DivMod DEF Offt
  <1>5. Cut \in 1 .. P /\ Size \in 1 .. P
    BY <1>1, <1>4 DEF Cut, Size
  <1> QED BY <1>1, <1>2, <1>3, <1>4, <1>5

\* Every byte of a copy lies on a page of the model, and in memory when that
\* page is mapped.
LEMMA Reach ==
    ASSUME TypeOK, NEW b \in Addr, NEW x \in b .. (b + P)
    PROVE  x \in Nat /\ PageOf(x) \in Pages /\ (PageOf(x) # NPages => x \in Addr)
  <1>1. x \in Nat /\ x < P * NPages + P
    BY Sizes DEF Addr
  <1> QED BY <1>1, PageInRange

\* A round of mem_read copies a part of one page, and ends the read or the page.
LEMMA ReadGeo ==
    ASSUME TypeOK, Shape, pc = "read"
    PROVE  /\ k \in 0 .. (Size - 1) /\ sz \in 1 .. P /\ k + sz \in 1 .. Size
           /\ \A x \in (at + k) .. (at + k + sz - 1) : PageOf(x) = Here
           /\ Here \in Pages /\ at + k \in at .. (at + Size)
           /\ k + sz # Size => /\ k = 0 /\ sz = Cut /\ Cut < Size
                               /\ PageOf(at + k + sz) = PageOf(at + Size)
           /\ k # 0 => k + sz = Size
  <1>1. /\ k \in Nat /\ at \in Nat /\ P \in Nat \ {0} /\ Cut \in 1 .. P
        /\ Size \in 1 .. P /\ Offt(at) \in 0 .. (P - 1) /\ Cut = P - Offt(at)
        /\ at \in Addr
    BY Sizes DEF TypeOK, Cut
  <1>2. Offt(at + Cut) = 0 /\ (Cut <= Size => PageOf(at + Cut) = PageOf(at + Size))
    <2>1. Offt(at + Cut) = 0
      <3>1. P \in 0 .. P /\ P - Offt(at) <= P
        BY <1>1
      <3> QED BY <1>1, <3>1, NextPage
    <2>2. ASSUME Cut <= Size PROVE PageOf(at + Cut) = PageOf(at + Size)
      <3>1. Size \in 0 .. P /\ P - Offt(at) <= Size
        BY <1>1, <2>2
      <3> QED BY <1>1, <3>1, NextPage
    <2> QED BY <2>1, <2>2
  <1>3. \/ k = 0 /\ Size <= Cut /\ sz = Size
        \/ k = 0 /\ Cut < Size /\ sz = Cut
        \/ k = Cut /\ Cut < Size /\ sz = Size - Cut
    BY <1>1 DEF Shape
  <1>4. k \in 0 .. (Size - 1) /\ sz \in 1 .. P /\ k + sz \in 1 .. Size
    BY <1>1, <1>3
  <1>5. sz <= P - Offt(at + k)
    <2>1. at + 0 = at
      BY <1>1
    <2>2. CASE k = 0
      BY <1>1, <1>3, <2>1, <2>2
    <2>3. CASE k = Cut
      BY <1>1, <1>2, <1>4, <2>3
    <2> QED BY <1>3, <2>2, <2>3
  <1>6. ASSUME NEW x \in (at + k) .. (at + k + sz - 1) PROVE PageOf(x) = Here
    <2>1. at + k \in Nat /\ Offt(at + k) \in Int
      <3>1. at + k \in Nat
        BY <1>1
      <3>2. (at + k) % P \in 0 .. (P - 1)
        BY <1>1, <3>1, DivMod
      <3> QED BY <1>1, <3>1, <3>2 DEF Offt
    <2>2. x \in (at + k) .. ((at + k) + (P - Offt(at + k)) - 1)
      BY <1>1, <1>4, <1>5, <2>1
    <2> QED BY <2>1, <2>2, SamePage DEF Here
  <1>7. Here \in Pages
    <2>1. at + k \in at .. (at + P)
      BY <1>1, <1>4
    <2> QED BY <1>1, <2>1, Reach DEF Here
  <1>8. k + sz # Size => /\ k = 0 /\ sz = Cut /\ Cut < Size
                         /\ PageOf(at + k + sz) = PageOf(at + Size)
    <2> SUFFICES ASSUME k + sz # Size
                 PROVE  /\ k = 0 /\ sz = Cut /\ Cut < Size
                        /\ PageOf(at + k + sz) = PageOf(at + Size)
      OBVIOUS
    <2>1. k = 0 /\ sz = Cut /\ Cut < Size /\ at + k + sz = at + Cut
      BY <1>1, <1>3
    <2> QED BY <1>1, <1>2, <2>1
  <1> QED BY <1>1, <1>3, <1>4, <1>6, <1>7, <1>8

\* A round of mem_write copies a part of one page, and ends the write or the
\* page; only the last round is empty.
LEMMA WriteGeo ==
    ASSUME TypeOK, Shape, pc = "write"
    PROVE  /\ Size = L /\ k \in 0 .. L /\ Chunk \in 0 .. P /\ k + Chunk \in k .. L
           /\ \/ k = 0 /\ k + Chunk = Cut /\ Cut < L
              \/ k + Chunk = L
           /\ (k = L <=> Chunk = 0)
           /\ \A x \in (at + k) .. (at + k + Chunk - 1) : PageOf(x) = Here
           /\ Here \in Pages /\ at + k \in at .. (at + L)
  <1>1. /\ at \in Nat /\ P \in Nat \ {0} /\ Cut \in 1 .. P /\ L \in 1 .. P
        /\ Offt(at) \in 0 .. (P - 1) /\ Cut = P - Offt(at) /\ at \in Addr
    BY Sizes DEF TypeOK, Cut
  <1>2. Offt(at + Cut) = 0
    <2>1. P \in 0 .. P /\ P - Offt(at) <= P
      BY <1>1
    <2> QED BY <1>1, <2>1, NextPage
  <1>3. k = 0 \/ (k = Cut /\ Cut < L) \/ k = L
    BY DEF Shape
  <1>4. Size = L
    BY DEF Shape, Size
  <1>5. at + k \in Nat /\ Offt(at + k) \in 0 .. (P - 1) /\ k \in 0 .. L
    <2>1. k \in 0 .. L /\ at + k \in Nat
      BY <1>1, <1>3
    <2>2. (at + k) % P \in 0 .. (P - 1)
      BY <1>1, <2>1, DivMod
    <2> QED BY <2>1, <2>2 DEF Offt
  <1>6. /\ Chunk \in 0 .. P /\ k + Chunk \in k .. L /\ (k = L <=> Chunk = 0)
        /\ Chunk <= P - Offt(at + k)
    BY <1>1, <1>4, <1>5 DEF Chunk
  <1>7. (k = 0 /\ k + Chunk = Cut /\ Cut < L) \/ k + Chunk = L
    <2>1. CASE k = 0
      <3>1. at + k = at
        BY <1>1, <2>1
      <3> QED BY <1>1, <1>4, <2>1, <3>1 DEF Chunk
    <2>2. CASE k = Cut /\ Cut < L
      BY <1>1, <1>2, <1>4, <2>2 DEF Chunk
    <2>3. CASE k = L
      BY <1>1, <1>5, <1>6, <2>3
    <2> QED BY <1>3, <2>1, <2>2, <2>3
  <1>8. ASSUME NEW x \in (at + k) .. (at + k + Chunk - 1) PROVE PageOf(x) = Here
    <2>1. x \in (at + k) .. ((at + k) + (P - Offt(at + k)) - 1)
      BY <1>1, <1>5, <1>6
    <2> QED BY <1>5, <2>1, SamePage DEF Here
  <1>9. Here \in Pages /\ at + k \in at .. (at + L)
    <2>1. at + k \in at .. (at + P) /\ at + k \in at .. (at + L)
      BY <1>1, <1>5
    <2> QED BY <1>1, <2>1, Reach DEF Here
  <1> QED BY <1>4, <1>5, <1>6, <1>7, <1>8, <1>9

----------------------------------------------------------------------------
(* mem_read.                                                               *)

\* A chunk that can be read lies in memory and lands in the buffer, behind the
\* chunks before it.
LEMMA ChunkRead ==
    ASSUME IInv, pc = "read", "r" \in prot[Here], mem' = mem, at' = at, op' = op,
           IF op = "scan" THEN buf' = Into(buf, k, sz) /\ UNCHANGED orig
                          ELSE orig' = Into(orig, k, sz) /\ UNCHANGED buf
    PROVE  /\ buf' \in [0 .. (P - 1) -> Val] /\ orig' \in [0 .. (L - 1) -> Val]
           /\ \A i \in 0 .. (k + sz - 1) : at + i \in Addr /\ Dest'[i] = mem[at + i]
  <1>1. /\ k \in 0 .. (Size - 1) /\ sz \in 1 .. P /\ k + sz \in 1 .. Size
        /\ \A x \in (at + k) .. (at + k + sz - 1) : PageOf(x) = Here
        /\ Here \in Pages
    BY ReadGeo DEF IInv
  <1>2. /\ P \in Nat \ {0} /\ L \in 1 .. P /\ Size \in 1 .. P /\ at \in Nat /\ at \in Addr
        /\ op \in {"scan", "save"}
    BY Sizes DEF IInv, TypeOK, Shape
  <1>3. Here # NPages
    BY <1>1 DEF IInv, Perms
  <1>4. ASSUME NEW i \in k .. (k + sz - 1) PROVE at + i \in Addr
    <2>1. at + i \in (at + k) .. (at + k + sz - 1) /\ at + i \in at .. (at + P)
      BY <1>1, <1>2
    <2>2. PageOf(at + i) = Here
      BY <1>1, <2>1
    <2> QED BY <1>2, <1>3, <2>1, <2>2, Reach DEF IInv
  <1>5. \A i \in k .. (k + sz - 1) : mem[at + i] \in Val
    BY <1>4 DEF IInv, TypeOK
  <1>6. ASSUME NEW n \in Nat, NEW b \in [0 .. (n - 1) -> Val]
        PROVE  Into(b, k, sz) \in [0 .. (n - 1) -> Val]
    BY <1>5 DEF Into
  <1>7. buf' \in [0 .. (P - 1) -> Val] /\ orig' \in [0 .. (L - 1) -> Val]
    <2>1. /\ buf \in [0 .. (P - 1) -> Val] /\ orig \in [0 .. (L - 1) -> Val]
          /\ P \in Nat /\ L \in Nat
      BY <1>2 DEF IInv, TypeOK
    <2>2. Into(buf, k, sz) \in [0 .. (P - 1) -> Val]
      BY <1>6, <2>1
    <2>3. Into(orig, k, sz) \in [0 .. (L - 1) -> Val]
      BY <1>6, <2>1
    <2> QED BY <2>1, <2>2, <2>3
  <1>8. Dest' = Into(Dest, k, sz) /\ DOMAIN Dest = 0 .. (Size - 1)
    BY <1>2 DEF Dest, Size, IInv, TypeOK
  <1>9. ASSUME NEW i \in 0 .. (k + sz - 1)
        PROVE  at + i \in Addr /\ Dest'[i] = mem[at + i]
    <2>1. i \in 0 .. (Size - 1)
      BY <1>1, <1>2
    <2>2. CASE i \in k .. (k + sz - 1)
      BY <1>4, <1>8, <2>1, <2>2 DEF Into
    <2>3. CASE i \notin k .. (k + sz - 1)
      <3>1. i \in 0 .. (k - 1)
        BY <1>1, <2>1, <2>3
      <3>2. at + i \in Addr /\ Dest[i] = mem[at + i]
        BY <3>1 DEF IInv, Kept, Got
      <3> QED BY <1>8, <2>1, <2>3, <3>2 DEF Into
    <2> QED BY <2>2, <2>3
  <1> QED BY <1>7, <1>9

\* A round of mem_read keeps the invariant.
LEMMA ReadRoundInv ==
    ASSUME IInv, ReadRound
    PROVE  IInv'
  <1> USE DEF IInv
  <1>0. /\ pc = "read" /\ "r" \in prot[Here] /\ CanProtect(Here)
        /\ prot' = [prot EXCEPT ![Here] = Rwx] /\ count' = count + sz /\ k' = k + sz
        /\ sz' = IF PageOf(at + k + sz) = PageOf(at + Size) THEN Size - (k + sz) ELSE P
        /\ ret' = sz /\ pc' = IF k + sz = Size THEN "readret" ELSE "read"
        /\ mem' = mem /\ backing' = backing /\ clean' = clean /\ hooked' = hooked
        /\ jmp' = jmp /\ op' = op /\ at' = at /\ native' = native
    BY DEF ReadRound, MakeRwx
  <1>1. /\ k \in 0 .. (Size - 1) /\ sz \in 1 .. P /\ k + sz \in 1 .. Size
        /\ \A x \in (at + k) .. (at + k + sz - 1) : PageOf(x) = Here
        /\ Here \in Pages /\ at + k \in at .. (at + Size)
        /\ k + sz # Size => /\ k = 0 /\ sz = Cut /\ Cut < Size
                            /\ PageOf(at + k + sz) = PageOf(at + Size)
    BY <1>0, ReadGeo
  <1>2. /\ P \in Nat \ {0} /\ L \in 1 .. P /\ Size \in 1 .. P /\ at \in Nat
        /\ Cut \in 1 .. P /\ op \in {"scan", "save"} /\ count = k /\ ~hooked
    BY <1>0, Sizes DEF Shape, Owner
  <1>3. /\ buf' \in [0 .. (P - 1) -> Val] /\ orig' \in [0 .. (L - 1) -> Val]
        /\ \A i \in 0 .. (k + sz - 1) : at + i \in Addr /\ Dest'[i] = mem[at + i]
    BY <1>0, ChunkRead DEF ReadRound
  <1>4. Size' = Size /\ Cut' = Cut
    BY <1>0 DEF Size, Cut, Offt
  <1>5. sz' = Size - (k + sz)
    BY <1>0, <1>1, <1>2
  <1>6. prot' \in [Pages -> SUBSET Rwx] /\ \A p \in Pages : prot[p] \subseteq prot'[p]
    BY <1>0, <1>1 DEF TypeOK, Rwx
  <1>7. TypeOK'
    <2>1. /\ k' \in 0 .. P /\ sz' \in 0 .. P /\ count' \in 0 .. P /\ ret' \in -1 .. P
          /\ pc' \in {"idle", "read", "readret", "write", "segv", "fatal"}
      BY <1>0, <1>1, <1>2, <1>5
    <2> QED BY <1>0, <1>3, <1>6, <2>1, Zenon DEF TypeOK
  <1>8. Shape'
    <2>1. pc' = "read" => k' = Cut /\ Cut < Size /\ sz' = Size - Cut /\ count' = k'
      BY <1>0, <1>1, <1>2, <1>5
    <2> QED BY <1>0, <1>1, <1>2, <1>4, <2>1 DEF Shape
  <1>9. Perms'
    BY <1>0, <1>1 DEF Perms, TypeOK, CanProtect
  <1>10. Owner'
    BY <1>0, <1>2 DEF Owner
  <1>11. Contents'
    BY <1>0 DEF Contents
  <1>12. Got(k)'
    BY <1>0, <1>1, <1>2, <1>3 DEF Got, Dest, Addr
  <1>13. Kept'
    <2>1. pc' = "readret" => Got(Size)'
      BY <1>0, <1>4, <1>12 DEF Got
    <2> QED BY <1>0, <1>2, <1>12, <2>1 DEF Kept
  <1>14. Writable(at, at + k - 1)'
    <2> SUFFICES ASSUME NEW x \in at .. (at + (k + sz) - 1) PROVE "w" \in prot'[PageOf(x)]
      BY <1>0 DEF Writable, PageOf
    <2>1. PageOf(x) \in Pages
      <3>1. x \in at .. (at + P)
        BY <1>1, <1>2
      <3> QED BY <3>1, Reach DEF TypeOK
    <2>2. CASE x \in at .. (at + k - 1)
      <3>1. "w" \in prot[PageOf(x)]
        BY <1>0, <2>2 DEF Secured, Writable
      <3> QED BY <1>6, <2>1, <3>1
    <2>3. CASE x \notin at .. (at + k - 1)
      <3>1. x \in (at + k) .. (at + k + sz - 1)
        BY <1>1, <1>2, <2>3
      <3> QED BY <1>0, <1>1, <2>1, <3>1 DEF TypeOK, Rwx
    <2> QED BY <2>2, <2>3
  <1>15. Secured'
    <2>1. pc' = "readret" => Writable(at, at + Size - 1)'
      BY <1>0, <1>4, <1>14 DEF Writable
    <2>2. ret' # -1
      BY <1>0, <1>1, <1>2
    <2> QED BY <1>0, <1>2, <1>14, <2>1, <2>2 DEF Secured
  <1>16. DiesForReason'
    BY <1>0 DEF DiesForReason
  <1> QED BY <1>7, <1>8, <1>9, <1>10, <1>11, <1>13, <1>15, <1>16

\* So does a round whose mprotect is refused: the page read was not private.
LEMMA ReadRefusedInv ==
    ASSUME IInv, ReadRefused
    PROVE  IInv'
  <1> USE DEF IInv
  <1>0. /\ pc = "read" /\ "r" \in prot[Here] /\ ~CanProtect(Here)
        /\ ret' = IF InOnePage(at, Size) THEN -1 ELSE count
        /\ pc' = "readret" /\ k' = k /\ sz' = sz /\ count' = count /\ prot' = prot
        /\ mem' = mem /\ backing' = backing /\ clean' = clean /\ hooked' = hooked
        /\ jmp' = jmp /\ op' = op /\ at' = at /\ native' = native
    BY DEF ReadRefused
  <1>1. /\ k \in 0 .. (Size - 1) /\ sz \in 1 .. P /\ k + sz \in 1 .. Size
        /\ Here \in Pages /\ at + k \in at .. (at + Size)
        /\ k # 0 => k + sz = Size
    BY <1>0, ReadGeo
  <1>2. /\ P \in Nat \ {0} /\ L \in 1 .. P /\ Size \in 1 .. P /\ at \in Nat
        /\ Cut \in 1 .. P /\ op \in {"scan", "save"} /\ count = k /\ ~hooked
        /\ k = 0 \/ (k = Cut /\ Cut < Size)
    BY <1>0, Sizes DEF Shape, Owner
  <1>3. /\ buf' \in [0 .. (P - 1) -> Val] /\ orig' \in [0 .. (L - 1) -> Val]
        /\ \A i \in 0 .. (k + sz - 1) : at + i \in Addr /\ Dest'[i] = mem[at + i]
    BY <1>0, ChunkRead DEF ReadRefused
  <1>4. Size' = Size /\ k = 0 => Here = PageOf(at)
    BY <1>2 DEF Here
  <1>s. Size' = Size
    BY <1>0 DEF Size
  <1>7. TypeOK'
    <2>1. ret' \in -1 .. P
      BY <1>0, <1>1, <1>2
    <2> QED BY <1>0, <1>3, <2>1, Zenon DEF TypeOK
  <1>8. Shape'
    BY <1>0, <1>1, <1>2, <1>s DEF Shape
  <1>9. Perms' /\ Owner' /\ Contents' /\ DiesForReason'
    BY <1>0, <1>2 DEF Perms, Owner, Contents, DiesForReason
  <1>10. Kept'
    <2>1. Got(k)'
      <3>1. \A i \in 0 .. (k - 1) : i \in 0 .. (k + sz - 1)
        BY <1>1, <1>2
      <3>2. \A i \in 0 .. (k - 1) : at + i \in Addr /\ Dest'[i] = mem[at + i]
        BY <1>3, <3>1, Zenon
      <3> QED BY <1>0, <3>2 DEF Got
    <2>2. CASE k = 0
      <3>1. ~CanProtect(PageOf(at))'
        BY <1>0, <1>4, <1>s, <2>2 DEF CanProtect, PageOf
      <3> QED BY <1>0, <1>2, <2>1, <3>1 DEF Kept
    <2>3. CASE k # 0
      <3>1. Got(Size)'
        BY <1>0, <1>1, <1>3, <1>s, <2>3 DEF Got
      <3> QED BY <1>0, <1>2, <2>1, <3>1 DEF Kept
    <2> QED BY <2>2, <2>3
  <1>11. Secured'
    <2>1. ~Private(at, at + Size)'
      BY <1>0, <1>1, <1>s DEF Private, Here, CanProtect, PageOf
    <2>2. ret' = -1 => ~CanProtect(PageOf(at))'
      <3>1. ASSUME InOnePage(at, Size) PROVE k = 0
        BY <1>2, <3>1 DEF InOnePage, Cut
      <3>2. ASSUME ~InOnePage(at, Size) PROVE ret' # -1
        BY <1>0, <1>1, <1>2, <3>2
      <3> QED BY <1>0, <1>4, <1>s, <3>1, <3>2 DEF CanProtect, PageOf
    <2> QED BY <1>0, <1>2, <2>1, <2>2 DEF Secured
  <1> QED BY <1>7, <1>8, <1>9, <1>10, <1>11

----------------------------------------------------------------------------
(* mem_write.                                                              *)

\* A chunk that is written leaves bytes in memory and the rest alone.
LEMMA ChunkWritten ==
    ASSUME IInv, pc = "write", WriteChunk
    PROVE  /\ mem' \in [Addr -> Val]
           /\ \A a \in Addr : mem'[a] = IF a \in (at + k) .. (at + k + Chunk - 1)
                                        THEN Bytes[a - at] ELSE mem[a]
  <1>1. /\ k \in 0 .. L /\ Chunk \in 0 .. P /\ k + Chunk \in k .. L
        /\ at \in Nat /\ L \in Nat /\ P \in Nat /\ P * NPages \in Nat
    BY WriteGeo, Sizes DEF IInv
  <1>2. Bytes \in [0 .. (L - 1) -> Val]
    BY CopyAssumption DEF Bytes, IInv, TypeOK
  <1>3. \A a \in Addr : a \in (at + k) .. (at + k + Chunk - 1) => a - at \in 0 .. (L - 1)
    BY <1>1 DEF Addr
  <1> QED BY <1>2, <1>3 DEF WriteChunk, IInv, TypeOK

\* Making a page read-write-execute takes no protection away.
LEMMA ProtGrows ==
    ASSUME IInv, NEW p \in Pages, prot' = [prot EXCEPT ![p] = Rwx], NEW b \in Addr,
           NEW n \in 0 .. P, Writable(b, b + n)
    PROVE  \A x \in b .. (b + n) : "w" \in prot'[PageOf(x)]
  <1> SUFFICES ASSUME NEW x \in b .. (b + n) PROVE "w" \in prot'[PageOf(x)]
    OBVIOUS
  <1>1. x \in b .. (b + P)
    BY Sizes DEF IInv, Addr
  <1>2. PageOf(x) \in Pages
    BY <1>1, Reach DEF IInv
  <1> QED BY <1>2 DEF Writable, IInv, TypeOK, Rwx

\* A round of mem_write that does not end it keeps the invariant.
LEMMA WriteOnInv ==
    ASSUME IInv, WriteRound, ~WriteDone
    PROVE  IInv'
  <1> USE DEF IInv
  <1>0. /\ pc = "write" /\ WriteChunk /\ CanProtect(Here)
        /\ prot' = [prot EXCEPT ![Here] = Rwx] /\ k' = k + Chunk
        /\ pc' = pc /\ op' = op /\ hooked' = hooked /\ at' = at /\ backing' = backing
        /\ clean' = clean /\ jmp' = jmp /\ orig' = orig /\ buf' = buf /\ sz' = sz
        /\ count' = count /\ ret' = ret /\ native' = native
    BY DEF WriteRound, MakeRwx
  <1>1. /\ Size = L /\ k \in 0 .. L /\ Chunk \in 0 .. P /\ k + Chunk \in k .. L
        /\ \/ k = 0 /\ k + Chunk = Cut /\ Cut < L
           \/ k + Chunk = L
        /\ \A x \in (at + k) .. (at + k + Chunk - 1) : PageOf(x) = Here
        /\ Here \in Pages
    BY <1>0, WriteGeo
  <1>2. /\ P \in Nat \ {0} /\ L \in 1 .. P /\ at \in Nat /\ at = jmp /\ at \in Addr
        /\ P * NPages \in Nat
        /\ op \in {"hook", "unhook"} /\ (hooked <=> op = "unhook") /\ k # L
    BY <1>0, <1>1, Sizes DEF Shape, Owner, WriteDone, TypeOK
  <1>3. /\ mem' \in [Addr -> Val]
        /\ \A a \in Addr : mem'[a] = IF a \in (at + k) .. (at + k + Chunk - 1)
                                     THEN Bytes[a - at] ELSE mem[a]
    BY <1>0, ChunkWritten
  <1>4. Cut' = Cut /\ Size' = Size
    BY <1>0 DEF Cut, Size, Offt
  <1>5. TypeOK'
    <2>1. prot' \in [Pages -> SUBSET Rwx] /\ k' \in 0 .. P
      BY <1>0, <1>1, <1>2 DEF TypeOK, Rwx
    <2> QED BY <1>0, <1>3, <2>1, Zenon DEF TypeOK
  <1>6. Shape'
    BY <1>0, <1>1, <1>2, <1>4 DEF Shape
  <1>7. Perms'
    BY <1>0, <1>1 DEF Perms, TypeOK, CanProtect
  <1>8. Owner'
    BY <1>0, <1>2 DEF Owner
  <1>9. Contents'
    <2>1. CASE op = "hook"
      <3>1. \A a \in Addr : mem'[a] = IF a \in at .. (at + (k + Chunk) - 1)
                                      THEN Code[a - at] ELSE clean[a]
        <4> TAKE a \in Addr
        <4>1. mem[a] = IF a \in at .. (at + k - 1) THEN Code[a - at] ELSE clean[a]
          BY <1>0, <2>1 DEF Contents
        <4>2. Bytes[a - at] = Code[a - at]
          BY <2>1 DEF Bytes
        <4>3. a \in Int
          BY <1>2 DEF Addr
        <4> QED BY <1>1, <1>2, <1>3, <4>1, <4>2, <4>3
      <3> QED BY <1>0, <2>1, <3>1 DEF Contents
    <2>2. CASE op = "unhook"
      <3>1. \A a \in Addr : mem'[a] = IF a \in (at + (k + Chunk)) .. (at + L - 1)
                                      THEN Code[a - at] ELSE clean[a]
        <4> TAKE a \in Addr
        <4>1. mem[a] = IF a \in (at + k) .. (at + L - 1) THEN Code[a - at] ELSE clean[a]
          BY <1>0, <2>2 DEF Contents
        <4>2. a \in Int
          BY <1>2 DEF Addr
        <4>3. a \in (at + k) .. (at + k + Chunk - 1) => Bytes[a - at] = clean[a]
          <5> SUFFICES ASSUME a \in (at + k) .. (at + k + Chunk - 1)
                       PROVE  Bytes[a - at] = clean[a]
            OBVIOUS
          <5>1. a - at \in 0 .. (L - 1) /\ at + (a - at) = a
            BY <1>1, <1>2, <4>2
          <5>2. orig[a - at] = clean[jmp + (a - at)]
            BY <1>0, <1>2, <2>2, <5>1 DEF Kept, Saved
          <5> QED BY <1>2, <2>2, <5>1, <5>2 DEF Bytes
        <4> QED BY <1>1, <1>2, <1>3, <4>1, <4>2, <4>3
      <3> QED BY <1>0, <2>2, <3>1 DEF Contents
    <2> QED BY <1>2, <2>1, <2>2
  <1>10. Kept'
    <2>1. CanProtect(PageOf(at))' = CanProtect(PageOf(at))
      BY <1>0 DEF CanProtect, PageOf
    <2> QED BY <1>0, <2>1 DEF Kept, Saved
  <1>11. Secured'
    <2>1. \A a, b : Private(a, b)' <=> Private(a, b)
      BY <1>0 DEF Private, CanProtect
    <2>2. op = "hook" => Private(at, at + k - 1)' /\ Writable(at, at + k - 1)'
      <3> SUFFICES ASSUME op = "hook", NEW x \in at .. (at + (k + Chunk) - 1)
                   PROVE  CanProtect(PageOf(x)) /\ "w" \in prot'[PageOf(x)]
        BY <1>0 DEF Private, Writable, CanProtect
      <3>1. PageOf(x) \in Pages
        <4>1. x \in at .. (at + P)
          BY <1>1, <1>2
        <4> QED BY <1>2, <4>1, Reach
      <3>2. CASE x \in at .. (at + k - 1)
        <4>1. CanProtect(PageOf(x)) /\ "w" \in prot[PageOf(x)]
          BY <1>0, <3>2 DEF Secured, Private, Writable
        <4> QED BY <1>0, <1>1, <3>1, <4>1 DEF TypeOK, Rwx
      <3>3. CASE x \notin at .. (at + k - 1)
        <4>1. PageOf(x) = Here
          BY <1>1, <1>2, <3>3
        <4> QED BY <1>0, <3>1, <4>1 DEF TypeOK, Rwx
      <3> QED BY <3>2, <3>3
    <2>3. Writable(jmp, jmp + L) => Writable(jmp, jmp + L)'
      <3> SUFFICES ASSUME Writable(jmp, jmp + L) PROVE Writable(jmp, jmp + L)'
        OBVIOUS
      <3>1. L \in 0 .. P /\ jmp \in Addr
        BY <1>2
      <3>2. \A x \in jmp .. (jmp + L) : "w" \in prot'[PageOf(x)]
        BY <1>0, <1>1, <3>1, ProtGrows
      <3> QED BY <1>0, <3>2 DEF Writable, PageOf
    <2>4. Writable(at, at + L - 1) => Writable(at, at + L - 1)'
      <3>1. L - 1 \in 0 .. P /\ at + (L - 1) = at + L - 1
        BY <1>2
      <3> QED BY <1>0, <1>1, <1>2, <3>1, ProtGrows DEF Writable
    <2> QED BY <1>0, <1>2, <2>1, <2>2, <2>3, <2>4 DEF Secured
  <1>12. DiesForReason'
    BY <1>0 DEF DiesForReason
  <1> QED BY <1>5, <1>6, <1>7, <1>8, <1>9, <1>10, <1>11, <1>12

\* The last, empty, round ends the write with the hook whole or gone.
LEMMA WriteDoneInv ==
    ASSUME IInv, WriteRound, WriteDone
    PROVE  IInv'
  <1> USE DEF IInv
  <1>0. /\ pc = "write" /\ WriteChunk /\ CanProtect(Here)
        /\ prot' = [prot EXCEPT ![Here] = Rwx] /\ k' = 0 /\ at' = 0
        /\ pc' = "idle" /\ op' = "none" /\ hooked' = (op = "hook") /\ backing' = backing
        /\ clean' = clean /\ jmp' = jmp /\ orig' = orig /\ buf' = buf /\ sz' = sz
        /\ count' = count /\ ret' = ret /\ native' = native
    BY DEF WriteRound, MakeRwx
  <1>1. Size = L /\ k = L /\ Chunk = 0 /\ Here \in Pages
    BY <1>0, WriteGeo DEF WriteDone
  <1>2. /\ P \in Nat \ {0} /\ L \in 1 .. P /\ at \in Nat /\ at = jmp /\ at \in Addr
        /\ P * NPages \in Nat /\ 0 \in Addr
        /\ op \in {"hook", "unhook"} /\ (hooked <=> op = "unhook")
    BY <1>0, <1>1, Sizes DEF Shape, Owner, TypeOK, Addr
  <1>3. mem' \in [Addr -> Val] /\ \A a \in Addr : mem'[a] = mem[a]
    <2>1. /\ mem' \in [Addr -> Val]
          /\ \A a \in Addr : mem'[a] = IF a \in (at + k) .. (at + k + Chunk - 1)
                                       THEN Bytes[a - at] ELSE mem[a]
      BY <1>0, ChunkWritten
    <2>2. (at + k) .. (at + k + Chunk - 1) = {}
      BY <1>1, <1>2
    <2> QED BY <2>1, <2>2
  <1>4. TypeOK'
    <2>1. prot' \in [Pages -> SUBSET Rwx] /\ k' \in 0 .. P /\ at' \in Addr
      BY <1>0, <1>1, <1>2 DEF TypeOK, Rwx
    <2>2. hooked' \in BOOLEAN
      BY <1>0, Zenon
    <2> QED BY <1>0, <1>3, <2>1, <2>2, Zenon DEF TypeOK
  <1>5. Shape' /\ Owner' /\ DiesForReason'
    BY <1>0 DEF Shape, Owner, DiesForReason
  <1>6. Perms'
    BY <1>0, <1>1 DEF Perms, TypeOK, CanProtect
  <1>7. CASE op = "hook"
    <2>h. hooked' = TRUE
      BY <1>0, <1>7
    <2>1. Contents'
      <3>1. \A a \in Addr : mem'[a] = IF a \in jmp .. (jmp + L - 1)
                                      THEN Code[a - jmp] ELSE clean[a]
        BY <1>0, <1>1, <1>2, <1>3, <1>7 DEF Contents
      <3> QED BY <1>0, <2>h, <3>1 DEF Contents, HookWin
    <2>2. Private(jmp, jmp + L) /\ "w" \in prot'[Here] /\ Here = PageOf(jmp + L)
      <3>1. Here = PageOf(jmp + L) /\ "w" \in prot'[Here]
        BY <1>0, <1>1, <1>2 DEF Here, TypeOK, Rwx
      <3>2. \A x \in jmp .. (jmp + L) : x \in jmp .. (jmp + L - 1) \/ x = jmp + L
        BY <1>2
      <3>3. Private(jmp, jmp + L - 1)
        BY <1>0, <1>1, <1>2, <1>7 DEF Secured
      <3> QED BY <1>0, <3>1, <3>2, <3>3 DEF Private
    <2>3. Kept'
      <3>1. CanProtect(PageOf(at))
        BY <1>2, <2>2 DEF Private
      <3>2. Saved(jmp, L)
        BY <1>0, <1>2, <1>7, <3>1 DEF Kept
      <3> QED BY <1>0, <3>2 DEF Kept, Saved
    <2>4. Secured'
      <3>1. Private(jmp, jmp + L)'
        BY <1>0, <2>2 DEF Private, CanProtect, PageOf
      <3>2. Writable(jmp, jmp + (L - 1))
        <4>1. jmp + (L - 1) = jmp + L - 1
          BY <1>2
        <4> QED BY <1>0, <1>1, <1>2, <1>7, <4>1 DEF Secured
      <3>3. \A x \in jmp .. (jmp + (L - 1)) : "w" \in prot'[PageOf(x)]
        <4>1. L - 1 \in 0 .. P /\ jmp \in Addr
          BY <1>2
        <4> QED BY <1>0, <1>1, <3>2, <4>1, ProtGrows
      <3>4. \A x \in jmp .. (jmp + L) : x \in jmp .. (jmp + (L - 1)) \/ x = jmp + L
        BY <1>2
      <3>5. Writable(jmp, jmp + L)'
        BY <1>0, <2>2, <3>3, <3>4 DEF Writable, PageOf
      <3> QED BY <1>0, <3>1, <3>5 DEF Secured
    <2> QED BY <1>4, <1>5, <1>6, <2>1, <2>3, <2>4
  <1>8. CASE op = "unhook"
    <2>h. hooked' = FALSE
      BY <1>0, <1>8
    <2>1. Contents'
      <3>1. (at + k) .. (at + L - 1) = {}
        BY <1>1, <1>2
      <3>2. \A a \in Addr : mem'[a] = clean[a]
        BY <1>0, <1>3, <1>8, <3>1 DEF Contents
      <3> QED BY <1>0, <2>h, <3>2 DEF Contents
    <2>2. Kept' /\ Secured'
      BY <1>0, <2>h DEF Kept, Secured
    <2> QED BY <1>4, <1>5, <1>6, <2>1, <2>2
  <1> QED BY <1>2, <1>7, <1>8

\* A write dies only before the hook is placed, or for a protection the guest
\* changed natively.
LEMMA WriteDiesInv ==
    ASSUME IInv, WriteFault \/ WriteRefused
    PROVE  IInv'
  <1> USE DEF IInv
  <1>0. /\ pc = "write" /\ pc' \in {"segv", "fatal"} /\ prot' = prot /\ backing' = backing
        /\ clean' = clean /\ hooked' = hooked /\ jmp' = jmp /\ orig' = orig
        /\ buf' = buf /\ op' = op /\ at' = at /\ k' = k /\ sz' = sz /\ count' = count
        /\ ret' = ret /\ native' = native
    BY DEF WriteFault, WriteRefused, copy
  <1>1. /\ Size = L /\ k \in 0 .. L /\ (k = L <=> Chunk = 0) /\ Chunk \in 0 .. P
        /\ Here \in Pages /\ at + k \in at .. (at + L)
    BY <1>0, WriteGeo
  <1>2. /\ L \in 1 .. P /\ P \in Nat /\ at \in Nat /\ at = jmp
        /\ op \in {"hook", "unhook"} /\ (hooked <=> op = "unhook")
    BY <1>0, <1>1, Sizes DEF Shape, Owner
  <1>3. mem' \in [Addr -> Val]
    BY <1>0, ChunkWritten DEF WriteFault, WriteRefused, TypeOK
  <1>4. TypeOK'
    <2>1. pc' \in {"idle", "read", "readret", "write", "segv", "fatal"}
      BY <1>0
    <2> QED BY <1>0, <1>3, <2>1, Zenon DEF TypeOK
  <1>5. Shape' /\ Owner' /\ Contents' /\ Kept' /\ Perms'
    BY <1>0 DEF Shape, Owner, Contents, Kept, Perms
  <1>6. op = "unhook" => native
    <2> SUFFICES ASSUME op = "unhook", ~native PROVE FALSE
      OBVIOUS
    <2>1. "w" \in prot[Here] /\ CanProtect(Here)
      BY <1>1, <1>2 DEF Secured, Writable, Private, Here
    <2> QED BY <2>1 DEF WriteFault, WriteRefused
  <1>7. Secured'
    <2>1. /\ Private(jmp, jmp + L) => Private(jmp, jmp + L)'
          /\ Writable(jmp, jmp + L) => Writable(jmp, jmp + L)'
      BY <1>0 DEF Private, Writable, CanProtect, PageOf
    <2> QED BY <1>0, <1>6, <2>1 DEF Secured
  <1>8. DiesForReason'
    <2>1. native \/ \E x \in at .. (at + L) : ~CanProtect(PageOf(x))
      <3>1. CASE op = "unhook"
        BY <1>6, <3>1
      <3>2. CASE WriteRefused
        BY <1>1, <3>2 DEF WriteRefused, Here
      <3>3. CASE op = "hook" /\ WriteFault
        <4>1. at + k \in at .. (at + L - 1)
          BY <1>1, <1>2, <3>3 DEF WriteFault
        <4>2. ~Writable(at, at + L - 1)
          BY <3>3, <4>1 DEF WriteFault, Writable, Here
        <4> QED BY <1>0, <3>3, <4>2 DEF Secured, Private
      <3> QED BY <1>2, <3>1, <3>2, <3>3
    <2>2. native \/ \E p \in Needs(at, Size + 1) : backing[p] # "private"
      <3>1. at + L = at + (Size + 1) - 1
        BY <1>1, <1>2
      <3> QED BY <2>1, <3>1 DEF Needs, CanProtect
    <2>3. Needs(at, Size + 1)' = Needs(at, Size + 1)
      BY <1>0 DEF Needs, Size, PageOf
    <2> QED BY <1>0, <2>2, <2>3 DEF DiesForReason
  <1> QED BY <1>4, <1>5, <1>7, <1>8

----------------------------------------------------------------------------
(* The invariant and what follows from it.                                 *)

\* Before the first copy the invariant holds.
LEMMA InitIInv == Init => IInv
  <1> SUFFICES ASSUME Init PROVE IInv
    OBVIOUS
  <1> USE DEF Init
  <1>1. 0 \in Addr /\ P \in Nat \ {0} /\ L \in 1 .. P
    <2>1. P \in Nat \ {0} /\ NPages \in Nat \ {0} /\ L \in 1 .. P
      BY CopyAssumption
    <2>2. P * NPages \in Nat /\ P * NPages >= 1
      BY <2>1
    <2> QED BY <2>1, <2>2 DEF Addr
  <1>2. TypeOK
    <2>1. /\ orig \in [0 .. (L - 1) -> Val] /\ buf \in [0 .. (P - 1) -> Val]
          /\ mem \in [Addr -> Val] /\ clean \in [Addr -> Val]
      BY CopyAssumption
    <2>2. prot \in [Pages -> SUBSET Rwx]
      <3>1. Prots \subseteq SUBSET Rwx
        BY DEF Prots, Rwx
      <3> QED BY <3>1
    <2>3. /\ k \in 0 .. P /\ sz \in 0 .. P /\ count \in 0 .. P /\ ret \in -1 .. P
          /\ jmp \in Addr /\ at \in Addr
      BY <1>1
    <2>4. hooked \in BOOLEAN /\ native \in BOOLEAN
      BY Zenon
    <2> QED BY <2>1, <2>2, <2>3, <2>4 DEF TypeOK
  <1>3. Shape /\ Perms /\ Owner /\ Contents /\ Kept /\ Secured /\ DiesForReason
    BY DEF Shape, Perms, Owner, Contents, Kept, Secured, DiesForReason
  <1> QED BY <1>2, <1>3 DEF IInv

\* The start of a read, for the scan or for write_hook, keeps the invariant.
LEMMA StartReadInv ==
    ASSUME IInv, NEW a \in Addr, Scan(a) \/ WriteHook(a)
    PROVE  IInv'
  <1> USE DEF IInv
  <1>0. /\ pc = "idle" /\ ~hooked /\ pc' = "read" /\ at' = a /\ k' = 0 /\ count' = 0
        /\ ret' = 0 /\ mem' = mem /\ backing' = backing /\ prot' = prot
        /\ clean' = clean /\ hooked' = hooked /\ orig' = orig /\ buf' = buf
        /\ \/ op' = "scan" /\ jmp' = jmp /\ native' = native
           \/ op' = "save" /\ jmp' = a /\ native' = FALSE
    BY DEF Scan, WriteHook, StartRead
  <1>1. Size' \in 1 .. P /\ P \in Nat \ {0} /\ L \in 1 .. P
    BY CopyAssumption DEF Size
  <1>2. sz' = IF Size' <= P - Offt(a) THEN Size' ELSE P - Offt(a)
    BY DEF Scan, WriteHook, StartRead, InOnePage, Size
  <1>3. Offt(a) \in 0 .. (P - 1)
    <2>1. a \in Nat
      BY Sizes DEF Addr
    <2> QED BY <1>1, <2>1, DivMod DEF Offt
  <1>4. TypeOK'
    <2>1. sz' \in 0 .. P /\ k' \in 0 .. P /\ count' \in 0 .. P /\ ret' \in -1 .. P
      BY <1>0, <1>1, <1>2, <1>3
    <2>2. jmp' \in Addr /\ op' \in {"none", "scan", "save", "hook", "unhook"}
      BY <1>0 DEF TypeOK
    <2>3. native' \in BOOLEAN
      BY <1>0, Zenon DEF TypeOK
    <2> QED BY <1>0, <2>1, <2>2, <2>3, Zenon DEF TypeOK
  <1>5. Shape'
    <2>1. Cut' = P - Offt(a)
      BY <1>0 DEF Cut, Offt
    <2> QED BY <1>0, <1>1, <1>2, <2>1 DEF Shape
  <1>6. Perms' /\ Owner' /\ DiesForReason'
    BY <1>0 DEF Perms, Owner, DiesForReason
  <1>7. Contents'
    BY <1>0 DEF Contents
  <1>8. Kept' /\ Secured'
    <2>1. 0 .. (k' - 1) = {} /\ a .. (a + k' - 1) = {}
      <3>1. a \in Nat
        BY Sizes DEF Addr
      <3> QED BY <1>0, <3>1
    <2>2. Got(k)' /\ Writable(at, at + k - 1)'
      BY <1>0, <2>1 DEF Got, Writable
    <2> QED BY <1>0, <2>2 DEF Kept, Secured
  <1> QED BY <1>4, <1>5, <1>6, <1>7, <1>8

\* So does the return of mem_read to its caller: an error ends the process, a
\* read cut short goes on as if it were whole.
LEMMA ReadReturnInv ==
    ASSUME IInv, ReadReturn
    PROVE  IInv'
  <1> USE DEF IInv
  <1>0. /\ pc = "readret" /\ mem' = mem /\ backing' = backing /\ prot' = prot
        /\ clean' = clean /\ hooked' = hooked /\ jmp' = jmp /\ orig' = orig
        /\ native' = native /\ ~hooked /\ op \in {"scan", "save"}
    BY DEF ReadReturn, Shape, Owner
  <1>1. P \in Nat \ {0} /\ L \in 1 .. P /\ at \in Nat /\ Size \in 1 .. P /\ 0 \in Addr
    BY Sizes DEF Addr
  <1>2. CASE ret = -1
    <2>0. /\ pc' = "fatal" /\ op' = op /\ at' = at /\ k' = k /\ sz' = sz
          /\ count' = count /\ ret' = ret /\ buf' = buf
      BY <1>2 DEF ReadReturn, copy
    <2>1. TypeOK'
      BY <1>0, <2>0, Zenon DEF TypeOK
    <2>2. Shape' /\ Perms' /\ Owner' /\ Contents' /\ Kept' /\ Secured'
      BY <1>0, <2>0 DEF Shape, Perms, Owner, Contents, Kept, Secured
    <2>3. DiesForReason'
      <3>1. PageOf(at) \in Needs(at, Size + 1) /\ backing[PageOf(at)] # "private"
        <4>1. at \in at .. (at + (Size + 1) - 1)
          BY <1>1
        <4> QED BY <1>0, <1>2, <4>1 DEF Needs, Secured, CanProtect
      <3>2. Needs(at, Size + 1)' = Needs(at, Size + 1)
        BY <2>0 DEF Needs, Size, PageOf
      <3> QED BY <1>0, <3>1, <3>2 DEF DiesForReason
    <2> QED BY <2>1, <2>2, <2>3
  <1>3. CASE ret # -1 /\ op = "scan"
    <2>0. /\ pc' = "idle" /\ op' = "none" /\ at' = 0 /\ k' = 0 /\ sz' = 0
          /\ count' = 0 /\ ret' = 0 /\ buf' = [i \in 0 .. (P - 1) |-> Zero]
      BY <1>3 DEF ReadReturn
    <2>1. TypeOK'
      <3>1. /\ buf' \in [0 .. (P - 1) -> Val] /\ k' \in 0 .. P /\ sz' \in 0 .. P
            /\ count' \in 0 .. P /\ ret' \in -1 .. P /\ at' \in Addr
        BY <1>1, <2>0, CopyAssumption
      <3> QED BY <1>0, <2>0, <3>1, Zenon DEF TypeOK
    <2>2. Shape' /\ Perms' /\ Owner' /\ Contents' /\ Kept' /\ Secured' /\ DiesForReason'
      BY <1>0, <2>0 DEF Shape, Perms, Owner, Contents, Kept, Secured, DiesForReason
    <2> QED BY <2>1, <2>2
  <1>4. CASE ret # -1 /\ op = "save"
    <2>0. /\ pc' = "write" /\ op' = "hook" /\ at' = at /\ k' = 0 /\ sz' = 0
          /\ count' = 0 /\ ret' = 0 /\ buf' = buf /\ Size = L /\ at = jmp
      BY <1>0, <1>4 DEF ReadReturn, Size, Owner
    <2>1. TypeOK'
      <3>1. k' \in 0 .. P /\ sz' \in 0 .. P /\ count' \in 0 .. P /\ ret' \in -1 .. P
        BY <1>1, <2>0
      <3> QED BY <1>0, <2>0, <3>1, Zenon DEF TypeOK
    <2>2. Shape' /\ Perms' /\ Owner' /\ DiesForReason'
      BY <1>0, <2>0 DEF Shape, Perms, Owner, DiesForReason
    <2>3. at .. (at + 0 - 1) = {}
      BY <1>1
    <2>4. Contents'
      BY <1>0, <2>0, <2>3 DEF Contents
    <2>5. Kept'
      <3>1. Got(Size) => Saved(at, L)
        BY <1>0, <1>4, <2>0 DEF Got, Saved, Dest, Contents
      <3>2. Saved(at, L) \/ ~CanProtect(PageOf(at))
        BY <1>0, <3>1 DEF Kept
      <3>3. Saved(at, L)' \/ ~CanProtect(PageOf(at))'
        BY <1>0, <2>0, <3>2 DEF Saved, CanProtect, PageOf
      <3> QED BY <1>0, <2>0, <3>3 DEF Kept
    <2>6. Secured'
      <3>1. Private(at, at + k - 1)' /\ Writable(at, at + k - 1)'
        BY <2>0, <2>3 DEF Private, Writable
      <3>2. Writable(at, at + L - 1) \/ ~Private(at, at + L)
        BY <1>0, <2>0 DEF Secured
      <3>3. Writable(at, at + L - 1)' \/ ~Private(at, at + L)'
        BY <1>0, <2>0, <3>2 DEF Writable, Private, CanProtect, PageOf
      <3> QED BY <1>0, <2>0, <3>1, <3>3 DEF Secured
    <2> QED BY <2>1, <2>2, <2>4, <2>5, <2>6
  <1> QED BY <1>0, <1>2, <1>3, <1>4

\* Every step of the copies and of the guest keeps the invariant.
LEMMA NextIInv == IInv /\ [Next]_vars => IInv'
  <1> SUFFICES ASSUME IInv, [Next]_vars PROVE IInv'
    OBVIOUS
  <1> USE DEF IInv
  <1>1. ASSUME NEW a \in Addr, Scan(a) \/ WriteHook(a) PROVE IInv'
    BY <1>1, StartReadInv
  <1>2. CASE ReadFault
    <2>0. /\ pc = "read" /\ pc' = "segv" /\ mem' = mem /\ backing' = backing
          /\ prot' = prot /\ clean' = clean /\ hooked' = hooked /\ jmp' = jmp
          /\ orig' = orig /\ buf' = buf /\ op' = op /\ at' = at /\ k' = k /\ sz' = sz
          /\ count' = count /\ ret' = ret /\ native' = native
      BY <1>2 DEF ReadFault, copy
    <2>1. TypeOK'
      BY <2>0, Zenon DEF TypeOK
    <2>2. Shape' /\ Perms' /\ Owner' /\ Contents' /\ Kept' /\ Secured'
      BY <2>0 DEF Shape, Perms, Owner, Contents, Kept, Secured
    <2>3. DiesForReason'
      <3>1. at + k \in at .. (at + (Size + 1) - 1)
        BY <2>0, ReadGeo, Sizes
      <3>2. Here \in Needs(at, Size + 1) /\ "r" \notin prot[Here]
        BY <1>2, <3>1 DEF Needs, Here, ReadFault
      <3>3. Needs(at, Size + 1)' = Needs(at, Size + 1)
        BY <2>0 DEF Needs, Size, PageOf
      <3> QED BY <2>0, <3>2, <3>3 DEF DiesForReason
    <2> QED BY <2>1, <2>2, <2>3
  <1>3. CASE ReadRound
    BY <1>3, ReadRoundInv
  <1>4. CASE ReadRefused
    BY <1>4, ReadRefusedInv
  <1>5. CASE ReadReturn
    BY <1>5, ReadReturnInv
  <1>6. CASE RestoreBytes
    <2>0. /\ pc = "idle" /\ hooked /\ pc' = "write" /\ op' = "unhook" /\ at' = jmp
          /\ k' = 0 /\ sz' = 0 /\ count' = 0 /\ ret' = 0 /\ mem' = mem
          /\ backing' = backing /\ prot' = prot /\ clean' = clean /\ hooked' = hooked
          /\ jmp' = jmp /\ orig' = orig /\ buf' = buf /\ native' = native
      BY <1>6 DEF RestoreBytes
    <2>1. TypeOK'
      <3>1. /\ k' \in 0 .. P /\ sz' \in 0 .. P /\ count' \in 0 .. P /\ ret' \in -1 .. P
            /\ at' \in Addr
        BY <2>0, Sizes DEF TypeOK
      <3> QED BY <2>0, <3>1, Zenon DEF TypeOK
    <2>2. Shape' /\ Perms' /\ Owner' /\ DiesForReason'
      BY <2>0 DEF Shape, Perms, Owner, DiesForReason
    <2>3. Contents'
      <3>1. jmp + 0 = jmp
        BY Sizes
      <3> QED BY <2>0, <3>1 DEF Contents, HookWin
    <2>4. Kept' /\ Secured'
      BY <2>0 DEF Kept, Saved, Secured, Private, Writable, CanProtect, PageOf
    <2> QED BY <2>1, <2>2, <2>3, <2>4
  <1>7. CASE WriteFault \/ WriteRefused
    BY <1>7, WriteDiesInv
  <1>8. CASE WriteRound
    BY <1>8, WriteOnInv, WriteDoneInv
  <1>9. ASSUME NEW a \in Addr, NEW v \in Stored, GuestStore(a, v) PROVE IInv'
    <2>0. /\ pc = "idle" /\ hooked /\ a \notin HookWin /\ pc' = pc
          /\ mem' = [mem EXCEPT ![a] = v] /\ clean' = [clean EXCEPT ![a] = v]
          /\ backing' = backing /\ prot' = prot /\ hooked' = hooked /\ jmp' = jmp
          /\ orig' = orig /\ buf' = buf /\ op' = op /\ at' = at /\ k' = k /\ sz' = sz
          /\ count' = count /\ ret' = ret /\ native' = native
      BY <1>9 DEF GuestStore, copy
    <2>1. TypeOK'
      <3>1. mem' \in [Addr -> Val] /\ clean' \in [Addr -> Val]
        BY <2>0, CopyAssumption DEF TypeOK
      <3> QED BY <2>0, <3>1, Zenon DEF TypeOK
    <2>2. Shape' /\ Perms' /\ Owner' /\ DiesForReason'
      BY <2>0 DEF Shape, Perms, Owner, DiesForReason
    <2>3. Contents'
      BY <2>0 DEF Contents, HookWin, TypeOK
    <2>4. Kept'
      <3>1. \A i \in 0 .. (L - 1) : jmp + i \in HookWin
        BY Sizes DEF HookWin
      <3> QED BY <2>0, <3>1 DEF Kept, Saved, TypeOK
    <2>5. Secured'
      BY <2>0 DEF Secured, Private, Writable, CanProtect, PageOf
    <2> QED BY <2>1, <2>2, <2>3, <2>4, <2>5
  <1>10. ASSUME NEW p \in Pages, NEW q \in Prots, GuestProtect(p, q) PROVE IInv'
    <2>0. /\ pc = "idle" /\ pc' = pc /\ backing[p] # "none"
          /\ backing[p] = "shared" => "w" \notin q
          /\ prot' = [prot EXCEPT ![p] = q] /\ mem' = mem /\ clean' = clean
          /\ backing' = backing /\ hooked' = hooked /\ jmp' = jmp
          /\ orig' = orig /\ buf' = buf /\ op' = op /\ at' = at /\ k' = k /\ sz' = sz
          /\ count' = count /\ ret' = ret
      BY <1>10 DEF GuestProtect, copy
    <2>n. native' \in BOOLEAN /\ (hooked => native')
      BY <1>10, Zenon DEF GuestProtect
    <2>1. TypeOK'
      <3>1. prot' \in [Pages -> SUBSET Rwx]
        BY <2>0 DEF TypeOK, Prots, Rwx
      <3> QED BY <2>0, <2>n, <3>1, Zenon DEF TypeOK
    <2>2. Shape' /\ Owner' /\ Contents' /\ DiesForReason'
      BY <2>0 DEF Shape, Owner, Contents, DiesForReason, HookWin
    <2>3. Perms'
      BY <2>0 DEF Perms, TypeOK
    <2>4. Kept' /\ Secured'
      BY <2>0, <2>n DEF Kept, Saved, Secured, Private, CanProtect, PageOf
    <2> QED BY <2>1, <2>2, <2>3, <2>4
  <1>11. CASE Dead \/ UNCHANGED vars
    <2>0. UNCHANGED vars
      BY <1>11 DEF Dead
    <2>1. TypeOK'
      BY <2>0, Zenon DEF vars, TypeOK
    <2>2. Shape' /\ Perms' /\ Owner' /\ Contents' /\ DiesForReason'
      BY <2>0 DEF vars, Shape, Perms, Owner, Contents, DiesForReason, HookWin, Cut,
        Size, Offt, Needs, PageOf
    <2>3. Kept' /\ Secured'
      BY <2>0 DEF vars, Kept, Saved, Got, Dest, Secured, Private, Writable, CanProtect,
        PageOf, Size
    <2> QED BY <2>1, <2>2, <2>3
  <1> QED BY <1>1, <1>2, <1>3, <1>4, <1>5, <1>6, <1>7, <1>8, <1>9, <1>10, <1>11 DEF Next

\* The invariant holds in every reachable state.
LEMMA Invariance == Spec => []IInv
  BY InitIInv, NextIInv, PTL DEF Spec

\* Every variable of the copies keeps its type: no chunk runs past its buffer.
THEOREM CopiesTyped == Spec => []TypeOK
  BY Invariance, PTL DEF IInv

\* Whatever page boundaries a hook straddles and however often it is placed and
\* removed, memory between the operations is what it would be without hooks, or
\* that with exactly the hook over it.
THEOREM AlwaysRoundTrip == Spec => []RoundTrip
  <1>1. IInv => RoundTrip
    <2> SUFFICES ASSUME IInv, pc = "idle"
                 PROVE  mem = [a \in Addr |-> IF hooked /\ a \in HookWin
                                              THEN Code[a - jmp] ELSE clean[a]]
      BY DEF RoundTrip
    <2>1. mem = [a \in Addr |-> mem[a]]
      BY DEF IInv, TypeOK
    <2>2. \A a \in Addr : mem[a] = IF hooked /\ a \in HookWin
                                   THEN Code[a - jmp] ELSE clean[a]
      BY DEF IInv, Contents
    <2> QED BY <2>1, <2>2
  <1> QED BY <1>1, Invariance, PTL

\* A read of mem_read that runs to its end delivers every byte.
THEOREM ReadsExact == Spec => []ReadExact
  <1>1. IInv => ReadExact
    BY DEF IInv, Kept, Got, Dest, ReadExact
  <1> QED BY <1>1, Invariance, PTL

\* A hook that was placed can be taken out again, unless the guest changed the
\* protections without a hook in between.
THEOREM AlwaysRemovable == Spec => []Removable
  <1>1. IInv => Removable
    <2> SUFFICES ASSUME IInv PROVE Removable
      OBVIOUS
    <2>1. jmp + L = jmp + (L + 1) - 1
      BY Sizes DEF IInv
    <2> QED BY <2>1 DEF IInv, Secured, Private, Removable, Needs
  <1> QED BY <1>1, Invariance, PTL

\* The engine dies in a copy only for a page that is missing, unreadable or not
\* private, or for a protection changed natively.
THEOREM AlwaysDiesForReason == Spec => []DiesForReason
  BY Invariance, PTL DEF IInv

=============================================================================
