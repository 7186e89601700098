--------------------------- MODULE ProcessProofs ---------------------------
(***************************************************************************)
(* From the command line to the first calls of brk, proved for every guest *)
(* and interpreter a linker writes, every page size, every base and every  *)
(* number of arguments and environment variables.                          *)
(***************************************************************************)
EXTENDS Process, WellFoundedInduction, TLAPS

----------------------------------------------------------------------------
(* Pages.                                                                  *)

\* The first byte of a page.
Lo(p) == p * PageSz

LEMMA Consts == PageSz \in Nat /\ PageSz > 1 /\ Top \in Nat
  BY LoaderAssumption

LEMMA TopAligned == Offt(Top) = 0
  BY LoaderAssumption DEF Offt

LEMMA DivMod ==
    ASSUME NEW n \in Nat \ {0}, NEW a \in Nat
    PROVE  /\ a \div n \in Nat /\ a % n \in 0 .. (n - 1)
           /\ a = n * (a \div n) + (a % n)
  OBVIOUS

LEMMA DivModPage ==
    ASSUME NEW a \in Nat
    PROVE  /\ a \div PageSz \in Nat /\ a % PageSz \in 0 .. (PageSz - 1)
           /\ a = PageSz * (a \div PageSz) + (a % PageSz)
  <1>1. PageSz \in Nat \ {0}
    BY Consts
  <1> QED BY <1>1, DivMod, Zenon

LEMMA DivUnique ==
    ASSUME NEW n \in Nat \ {0}, NEW a \in Nat, NEW q \in Nat, q * n <= a, a < (q + 1) * n
    PROVE  a \div n = q
  OBVIOUS

LEMMA MultipleMod ==
    ASSUME NEW n \in Nat \ {0}, NEW k \in Nat
    PROVE  (k * n) % n = 0
  OBVIOUS

\* The first byte of a page is aligned, and pages are a page apart.
LEMMA LoIs ==
    ASSUME NEW p \in Nat
    PROVE  Lo(p) \in Nat /\ Offt(Lo(p)) = 0 /\ Lo(p + 1) = Lo(p) + PageSz
  <1>1. p * PageSz \in Nat /\ (p * PageSz) % PageSz = 0
    BY Consts, MultipleMod
  <1>2. (p + 1) * PageSz = p * PageSz + PageSz
    BY Consts
  <1> QED BY <1>1, <1>2 DEF Lo, Offt

LEMMA LoLess ==
    ASSUME NEW p \in Nat, NEW q \in Nat, p < q
    PROVE  Lo(p) + PageSz <= Lo(q)
  <1>1. PICK n \in Nat : q = p + 1 + n
    <2>1. q - (p + 1) \in Nat /\ q = p + 1 + (q - (p + 1))
      OBVIOUS
    <2> QED BY <2>1
  <1>2. (p + 1 + n) * PageSz = (p + 1) * PageSz + n * PageSz /\ n * PageSz >= 0
    BY Consts
  <1>3. (p + 1) * PageSz = p * PageSz + PageSz
    BY Consts
  <1>4. p * PageSz \in Nat /\ n * PageSz \in Nat
    BY Consts
  <1> QED BY <1>1, <1>2, <1>3, <1>4, Consts DEF Lo

\* An address is in the page it is in.
LEMMA PageIs ==
    ASSUME NEW x \in Nat, NEW p \in Nat
    PROVE  PageOf(x) = p <=> Lo(p) <= x /\ x < Lo(p) + PageSz
  <1>1. ASSUME Lo(p) <= x, x < Lo(p) + PageSz PROVE PageOf(x) = p
    <2>1. (p + 1) * PageSz = p * PageSz + PageSz
      BY Consts
    <2>2. x \div PageSz = p
      BY <1>1, <2>1, Consts, DivUnique DEF Lo
    <2> QED BY <2>2 DEF PageOf
  <1>2. ASSUME PageOf(x) = p PROVE Lo(p) <= x /\ x < Lo(p) + PageSz
    <2>1. x = PageSz * p + (x % PageSz) /\ x % PageSz \in 0 .. (PageSz - 1)
      BY <1>2, DivModPage DEF PageOf
    <2>2. PageSz * p = p * PageSz /\ p * PageSz \in Nat
      BY Consts
    <2> QED BY <2>1, <2>2, Consts DEF Lo
  <1> QED BY <1>1, <1>2

\* An address is the first of its page and its offset.
LEMMA AlignIs ==
    ASSUME NEW a \in Nat
    PROVE  /\ Offt(a) \in Nat /\ Offt(a) < PageSz /\ a = Align(a) + Offt(a)
           /\ Align(a) \in Nat /\ Align(a) <= a /\ a < Align(a) + PageSz
           /\ PageOf(a) \in Nat /\ Align(a) = Lo(PageOf(a)) /\ Offt(Align(a)) = 0
           /\ Past(a) = Align(a) + PageSz /\ Past(a) \in Nat /\ Offt(Past(a)) = 0
  <1>1. /\ a \div PageSz \in Nat /\ a % PageSz \in 0 .. (PageSz - 1)
        /\ a = PageSz * (a \div PageSz) + (a % PageSz)
    BY DivModPage
  <1>2. PageOf(a) \in Nat /\ Offt(a) \in 0 .. (PageSz - 1)
    BY <1>1 DEF PageOf, Offt
  <1>3. PageSz * (a \div PageSz) = (a \div PageSz) * PageSz
    BY <1>1, Consts
  <1>4. a = Lo(PageOf(a)) + Offt(a)
    BY <1>1, <1>3 DEF Lo, PageOf, Offt
  <1>5. /\ Lo(PageOf(a)) \in Nat /\ Offt(Lo(PageOf(a))) = 0
        /\ Lo(PageOf(a) + 1) = Lo(PageOf(a)) + PageSz /\ Offt(Lo(PageOf(a) + 1)) = 0
    BY <1>2, LoIs
  <1>6. Align(a) = Lo(PageOf(a))
    BY <1>2, <1>4, <1>5 DEF Align
  <1> QED BY <1>2, <1>4, <1>5, <1>6, Consts DEF Past

\* An aligned address is the first of its page.
LEMMA Aligned ==
    ASSUME NEW a \in Nat, Offt(a) = 0
    PROVE  Align(a) = a /\ a = Lo(PageOf(a))
  BY AlignIs DEF Align

\* Aligned addresses are a page apart.
LEMMA Gap ==
    ASSUME NEW a \in Nat, NEW b \in Nat, Offt(a) = 0, Offt(b) = 0, a < b
    PROVE  a + PageSz <= b
  <1>1. PageOf(a) \in Nat /\ PageOf(b) \in Nat /\ a = Lo(PageOf(a)) /\ b = Lo(PageOf(b))
    BY Aligned, AlignIs
  <1>2. PageOf(a) < PageOf(b)
    <2>1. CASE PageOf(a) = PageOf(b)
      BY <1>1, <2>1
    <2>2. CASE PageOf(b) < PageOf(a)
      BY <1>1, <2>2, LoLess, Consts
    <2> QED BY <1>1, <2>1, <2>2
  <1> QED BY <1>1, <1>2, LoLess

\* Adding an aligned address moves the page and keeps the offset.
LEMMA AlignSum ==
    ASSUME NEW a \in Nat, NEW b \in Nat, Offt(a) = 0
    PROVE  Align(a + b) = a + Align(b) /\ Offt(a + b) = Offt(b)
  <1>1. PageOf(a) \in Nat /\ a = Lo(PageOf(a))
    BY Aligned, AlignIs
  <1>2. /\ PageOf(b) \in Nat /\ b = Lo(PageOf(b)) + Offt(b) /\ Align(b) = Lo(PageOf(b))
        /\ Offt(b) \in Nat /\ Offt(b) < PageSz
    BY AlignIs
  <1>3. Lo(PageOf(a) + PageOf(b)) = Lo(PageOf(a)) + Lo(PageOf(b))
    BY <1>1, <1>2, Consts DEF Lo
  <1> DEFINE q == PageOf(a) + PageOf(b)
  <1>4. q \in Nat /\ Lo(q) \in Nat /\ Lo(PageOf(a)) \in Nat /\ Lo(PageOf(b)) \in Nat
    BY <1>1, <1>2, LoIs
  <1>5. a + b \in Nat /\ a + b = Lo(q) + Offt(b)
    BY <1>1, <1>2, <1>3, <1>4
  <1> HIDE DEF q
  <1>6. PageOf(a + b) = q
    BY <1>2, <1>4, <1>5, PageIs, Consts
  <1>7. Align(a + b) = Lo(q) /\ a + b = Align(a + b) + Offt(a + b) /\ Offt(a + b) \in Nat
    BY <1>5, <1>6, AlignIs
  <1>8. Lo(q) = a + Align(b)
    BY <1>1, <1>2, <1>3 DEF q
  <1> QED BY <1>2, <1>4, <1>5, <1>7, <1>8

\* The difference of two aligned addresses is aligned.
LEMMA AlignDiff ==
    ASSUME NEW a \in Nat, NEW b \in Nat, Offt(a) = 0, Offt(b) = 0, a <= b
    PROVE  Offt(b - a) = 0
  <1>1. b - a \in Nat /\ a + (b - a) = b
    OBVIOUS
  <1> QED BY <1>1, AlignSum

\* What lies below an aligned address lies in a page below it.
LEMMA Below ==
    ASSUME NEW a \in Nat, NEW b \in Nat, Offt(b) = 0
    PROVE  /\ a < b => Past(a) <= b
           /\ b <= a => b <= Align(a)
  <1>1. /\ Align(a) \in Nat /\ Align(a) <= a /\ a < Align(a) + PageSz /\ Offt(Align(a)) = 0
        /\ Past(a) = Align(a) + PageSz
    BY AlignIs
  <1>2. a < b => Past(a) <= b
    BY <1>1, Gap, Consts
  <1>3. ASSUME b <= a, Align(a) < b PROVE FALSE
    BY <1>1, <1>3, Gap, Consts
  <1> QED BY <1>1, <1>2, <1>3

\* Rounding keeps the order.
LEMMA AlignMono ==
    ASSUME NEW a \in Nat, NEW b \in Nat, a <= b
    PROVE  Align(a) <= Align(b) /\ Past(a) <= Past(b) /\ PageOf(a) <= PageOf(b)
  <1>1. /\ Align(a) \in Nat /\ Align(a) <= a /\ Offt(Align(a)) = 0
        /\ Past(a) = Align(a) + PageSz /\ Past(b) = Align(b) + PageSz /\ Align(b) \in Nat
        /\ PageOf(a) \in Nat /\ PageOf(b) \in Nat
        /\ Align(a) = Lo(PageOf(a)) /\ Align(b) = Lo(PageOf(b))
    BY AlignIs
  <1>2. Align(a) <= Align(b)
    BY <1>1, Below
  <1>3. ASSUME PageOf(b) < PageOf(a) PROVE FALSE
    BY <1>1, <1>2, <1>3, LoLess, Consts
  <1> QED BY <1>1, <1>2, <1>3, Consts

\* The pages of the address space.
LEMMA PagesAre ==
    /\ \A p \in Pages : p \in Nat /\ Lo(p) \in Nat /\ Offt(Lo(p)) = 0 /\ Lo(p) + PageSz <= Top
    /\ \A x \in Addr : x \in Nat /\ x < Top /\ PageOf(x) \in Pages
  <1>1. Top \in Nat /\ Offt(Top) = 0 /\ PageOf(Top) \in Nat /\ Top = Lo(PageOf(Top))
    <2>1. Top \in Nat /\ Offt(Top) = 0
      BY Consts, TopAligned
    <2> QED BY <2>1, AlignIs, Aligned
  <1>2. Pages = 0 .. (PageOf(Top) - 1)
    BY DEF Pages, PageOf
  <1>3. ASSUME NEW p \in Pages
        PROVE  p \in Nat /\ Lo(p) \in Nat /\ Offt(Lo(p)) = 0 /\ Lo(p) + PageSz <= Top
    <2>1. p \in Nat /\ p < PageOf(Top)
      BY <1>1, <1>2
    <2> QED BY <2>1, <1>1, LoIs, LoLess
  <1>4. ASSUME NEW x \in Addr PROVE x \in Nat /\ x < Top /\ PageOf(x) \in Pages
    <2>1. x \in Nat /\ x < Top
      BY <1>1 DEF Addr
    <2>2. PageOf(x) \in Nat /\ Lo(PageOf(x)) <= x /\ Lo(PageOf(x)) \in Nat
      BY <2>1, AlignIs
    <2>3. PageOf(x) < PageOf(Top)
      <3>1. CASE PageOf(Top) = PageOf(x)
        BY <3>1, <1>1, <2>1, <2>2
      <3>2. CASE PageOf(Top) < PageOf(x)
        <4>1. Lo(PageOf(Top)) + PageSz <= Lo(PageOf(x))
          BY <3>2, <1>1, <2>2, LoLess
        <4> QED BY <4>1, <1>1, <2>1, <2>2, Consts
      <3> QED BY <1>1, <2>2, <3>1, <3>2
    <2> QED BY <2>1, <2>2, <2>3, <1>1, <1>2
  <1> QED BY <1>3, <1>4

\* The pages from one address up to another.
LEMMA InPages ==
    ASSUME NEW a, NEW b, NEW p
    PROVE  p \in PagesOf(a, b) <=> p \in Pages /\ Lo(p) < b /\ Lo(p) + PageSz > a
  <1>1. \A q \in Pages : (q + 1) * PageSz = q * PageSz + PageSz
    <2> TAKE q \in Pages
    <2>1. q \in Nat
      BY PagesAre
    <2> QED BY <2>1, Consts
  <1> QED BY <1>1 DEF PagesOf, Lo

\* The page of a byte between two addresses is between them.
LEMMA ByteInPages ==
    ASSUME NEW a \in Nat, NEW b \in Nat, NEW x \in Addr, a <= x, x < b
    PROVE  PageOf(x) \in PagesOf(a, b)
  <1>1. x \in Nat /\ PageOf(x) \in Pages
    BY PagesAre
  <1>2. Lo(PageOf(x)) <= x /\ x < Lo(PageOf(x)) + PageSz /\ Lo(PageOf(x)) \in Nat
    BY <1>1, AlignIs
  <1> QED BY <1>1, <1>2, InPages, Consts

----------------------------------------------------------------------------
(* Files and segments.                                                     *)

\* The two files of a guest are as a linker writes them.
LEMMA GuestIs ==
    ASSUME guest \in Programs, NEW f \in Files
    PROVE  guest[f] \in Images /\ IsImage(guest[f])
  <1>1. guest \in [main : Images, interp : Images] /\ IsImage(guest.main) /\ IsImage(guest.interp)
    BY LoaderAssumption
  <1>2. CASE f = "main"
    BY <1>1, <1>2
  <1>3. CASE f = "interp"
    BY <1>1, <1>3
  <1> QED BY <1>2, <1>3 DEF Files

\* A segment of a file: its numbers, its place and its permissions.
LEMMA LoadIs ==
    ASSUME NEW f \in Images, IsImage(f), NEW i \in Loads(f)
    PROVE  /\ i \in Nat /\ i > 0 /\ i \in DOMAIN f.ph /\ i <= Len(f.ph) /\ f.ph[i].type = "load"
           /\ f.ph[i].vaddr \in Nat /\ f.ph[i].offset \in Nat
           /\ f.ph[i].filesz \in Nat /\ f.ph[i].memsz \in Nat
           /\ f.ph[i].flags \subseteq {"r", "w", "x"} /\ f.len \in Nat /\ f.pie \in BOOLEAN
           /\ Offt(f.ph[i].vaddr) = Offt(f.ph[i].offset)
           /\ f.ph[i].memsz > 0 /\ f.ph[i].filesz <= f.ph[i].memsz
           /\ f.ph[i].offset + f.ph[i].filesz <= f.len
           /\ \A j \in Loads(f) : j < i => f.ph[j].vaddr + f.ph[j].memsz <= Align(f.ph[i].vaddr)
           /\ (\A j \in Loads(f) : i <= j)
                => f.ph[i].offset < PageSz /\ (f.pie => f.ph[i].vaddr = 0)
  <1>1. i \in DOMAIN f.ph /\ f.ph \in Seq(Headers) /\ f.ph[i].type = "load" /\ f.len \in Nat
        /\ f.pie \in BOOLEAN
    BY DEF Loads, Images
  <1>2. i \in 1 .. Len(f.ph) /\ Len(f.ph) \in Nat /\ f.ph[i] \in Headers
    BY <1>1
  <1>3. /\ f.ph[i].vaddr \in Nat /\ f.ph[i].offset \in Nat
        /\ f.ph[i].filesz \in Nat /\ f.ph[i].memsz \in Nat
        /\ f.ph[i].flags \subseteq {"r", "w", "x"}
    BY <1>2 DEF Headers
  <1>4. i \in Nat /\ i > 0 /\ i <= Len(f.ph)
    BY <1>2
  <1>5. /\ Offt(f.ph[i].vaddr) = Offt(f.ph[i].offset)
        /\ f.ph[i].memsz > 0 /\ f.ph[i].filesz <= f.ph[i].memsz
        /\ f.ph[i].offset + f.ph[i].filesz <= f.len
        /\ \A j \in Loads(f) : j < i => f.ph[j].vaddr + f.ph[j].memsz <= Align(f.ph[i].vaddr)
        /\ (\A j \in Loads(f) : i <= j)
                => f.ph[i].offset < PageSz /\ (f.pie => f.ph[i].vaddr = 0)
    BY Zenon DEF IsImage
  <1> QED BY <1>1, <1>3, <1>4, <1>5

\* The mapped segments are the first ones of the file.
LEMMA SegsAre ==
    ASSUME guest \in Programs, NEW f \in Files, idx \in [Files -> Nat \ {0}]
    PROVE  Segs(f) = {i \in Loads(guest[f]) : i < idx[f]}
  <1>1. guest[f] \in Images /\ idx[f] \in Nat
    BY GuestIs
  <1>2. \A i \in DOMAIN guest[f].ph : i \in Nat /\ i >= 1
    BY <1>1 DEF Images
  <1>3. \A i : i \in 1 .. (idx[f] - 1) <=> i \in Nat /\ i >= 1 /\ i < idx[f]
    BY <1>1
  <1> QED BY <1>2, <1>3 DEF Segs, Loads

\* A set of numbers has a first one.
LEMMA LeastIs ==
    ASSUME NEW S, S \subseteq Nat, S # {}
    PROVE  \E i \in S : \A j \in S : i <= j
  <1> DEFINE R == OpToRel(<, Nat)
  <1>1. IsWellFoundedOn(R, Nat)
    BY NatLessThanWellFounded, Zenon
  <1>2. \A x, y \in Nat : <<x, y>> \in R <=> x < y
    <2>1. R = {ss \in Nat \X Nat : ss[1] < ss[2]}
      BY Zenon DEF OpToRel
    <2> HIDE DEF R
    <2> QED BY <2>1
  <1> HIDE DEF R
  <1>3. PICK x \in S : \A y \in S : ~(<<y, x>> \in R)
    BY <1>1, WFMin, Zenon
  <1>4. \A y \in S : x \in Nat /\ y \in Nat /\ ~(y < x)
    BY <1>2, <1>3
  <1>5. \A y \in S : x <= y
    BY <1>4
  <1> QED BY <1>5

\* The first of a set of numbers.
LEMMA MinIs ==
    ASSUME NEW S, S \subseteq Nat, NEW i \in S, \A j \in S : i <= j
    PROVE  Min(S) = i
  <1>1. \A x \in S : (\A y \in S : x <= y) => x = i
    <2> SUFFICES ASSUME NEW x \in S, \A y \in S : x <= y PROVE x = i
      OBVIOUS
    <2>1. x <= i /\ i <= x /\ x \in Nat /\ i \in Nat
      OBVIOUS
    <2> QED BY <2>1
  <1>2. Min(S) \in S /\ \A y \in S : Min(S) <= y
    BY DEF Min
  <1> QED BY <1>1, <1>2

\* Every mapped file starts at its base, which is the address of a page and holds
\* the first byte of the file.
Based(f) ==
    /\ base[f] \in Nat /\ Offt(base[f]) = 0
    /\ base[f] = 0 <=> Segs(f) = {}
    /\ \A i \in Segs(f) : (\A j \in Segs(f) : i <= j)
          => SegAt(f, i) = base[f] /\ guest[f].ph[i].offset = 0

\* Where a segment is, and that the ones in front of it end before its page.
LEMMA Placed ==
    ASSUME guest \in Programs, NEW f \in Files, NEW b \in Nat, Offt(b) = 0,
           NEW i \in Loads(guest[f])
    PROVE  LET at(j) == guest[f].ph[j].vaddr + (IF guest[f].pie THEN b ELSE 0)
           IN /\ at(i) \in Nat /\ Offt(at(i)) = Offt(guest[f].ph[i].offset)
              /\ Offt(at(i)) = Offt(guest[f].ph[i].vaddr)
              /\ at(i) - Align(at(i)) = guest[f].ph[i].offset - Align(guest[f].ph[i].offset)
              /\ \A j \in Loads(guest[f]) :
                    j < i => at(j) + guest[f].ph[j].memsz <= Align(at(i))
  <1> DEFINE F == guest[f]
             o == IF F.pie THEN b ELSE 0
             at(j) == F.ph[j].vaddr + o
  <1>1. F \in Images /\ IsImage(F)
    BY GuestIs
  <1>2. /\ F.ph[i].vaddr \in Nat /\ F.ph[i].offset \in Nat
        /\ Offt(F.ph[i].vaddr) = Offt(F.ph[i].offset)
        /\ \A j \in Loads(F) : j < i => F.ph[j].vaddr + F.ph[j].memsz <= Align(F.ph[i].vaddr)
    BY <1>1, LoadIs, Zenon
  <1>3. o \in Nat /\ Offt(o) = 0
    <2>1. Offt(0) = 0
      BY LoIs, Consts DEF Lo
    <2> QED BY <2>1
  <1>4. \A j \in Loads(F) : F.ph[j].vaddr \in Nat /\ F.ph[j].memsz \in Nat
    BY <1>1, LoadIs
  <1> HIDE DEF o, F
  <1>5. at(i) = o + F.ph[i].vaddr /\ at(i) \in Nat
    BY <1>2, <1>3
  <1>6. Align(at(i)) = o + Align(F.ph[i].vaddr) /\ Offt(at(i)) = Offt(F.ph[i].vaddr)
    BY <1>2, <1>3, <1>5, AlignSum
  <1>7. /\ at(i) = Align(at(i)) + Offt(at(i)) /\ Align(at(i)) \in Nat /\ Offt(at(i)) \in Nat
        /\ F.ph[i].offset = Align(F.ph[i].offset) + Offt(F.ph[i].offset)
        /\ Align(F.ph[i].offset) \in Nat /\ Align(F.ph[i].vaddr) \in Nat
    BY <1>2, <1>5, AlignIs
  <1>8. ASSUME NEW j \in Loads(F), j < i PROVE at(j) + F.ph[j].memsz <= Align(at(i))
    <2>1. F.ph[j].vaddr + F.ph[j].memsz <= Align(F.ph[i].vaddr)
      BY <1>2, <1>8
    <2> QED BY <2>1, <1>3, <1>4, <1>6, <1>7
  <1>9. at(i) - Align(at(i)) = F.ph[i].offset - Align(F.ph[i].offset)
    BY <1>2, <1>6, <1>7
  <1> QED BY <1>2, <1>5, <1>6, <1>8, <1>9 DEF o, F

----------------------------------------------------------------------------
(* What map_load does to memory.                                           *)

Content == (Files \X Nat) \cup {Zero, Gone}
Perms   == SUBSET {"r", "w", "x"}

\* The segment at hand is put at address at: it is exact, and nothing further than
\* two pages behind it changes.
Maps(at) ==
    LET end  == at + Seg.memsz
        near == PagesOf(at, end + 2 * PageSz)
    IN /\ end <= Top
       /\ mem' \in [Addr -> Content] /\ prot' \in [Pages -> Perms]
       /\ \A x \in Addr : PageOf(x) \notin near => mem'[x] = mem[x]
       /\ \A p \in Pages : p \notin near => prot'[p] = prot[p]
       /\ \A x \in Bytes(at, end) :
             \/ mem'[x] = IF x - at < Seg.filesz THEN <<cur, Seg.offset + (x - at)>> ELSE Zero
             \/ base[cur] = 0 /\ x >= at + Seg.filesz
       /\ \A p \in PagesOf(at, end) :
             /\ ({"r"} \cup Seg.flags) \subseteq prot'[p]
             /\ p < PageOf(end - 1) => prot'[p] = {"r"} \cup Seg.flags

\* The header at hand.
LEMMA AtLoad ==
    ASSUME TypeOK, AtHeader("load")
    PROVE  /\ cur \in Files /\ File \in Images /\ IsImage(File) /\ File = guest[cur]
           /\ idx[cur] \in Loads(File) /\ Seg = File.ph[idx[cur]]
           /\ Segs(cur) = {i \in Loads(File) : i < idx[cur]}
  <1>1. cur \in Files /\ guest \in Programs /\ idx \in [Files -> Nat \ {0}]
    BY DEF TypeOK
  <1>2. File \in Images /\ IsImage(File) /\ File = guest[cur]
    BY <1>1, GuestIs DEF File
  <1>3. Segs(cur) = {i \in Loads(File) : i < idx[cur]}
    BY <1>1, <1>2, SegsAre
  <1>4. idx[cur] \in Nat /\ idx[cur] <= Len(File.ph) /\ Seg.type = "load" /\ File.ph \in Seq(Headers)
    BY <1>1, <1>2 DEF AtHeader, Images
  <1>5. idx[cur] # 0
    BY <1>1
  <1>6. idx[cur] \in DOMAIN File.ph
    BY <1>4, <1>5
  <1> QED BY <1>1, <1>2, <1>3, <1>4, <1>6 DEF Loads, Seg

\* A mapped byte is one of the file, zero, or gone.
LEMMA FileByteIs ==
    ASSUME NEW o \in Nat, cur \in Files, File.len \in Nat
    PROVE  /\ FileByte(o) \in Content
           /\ o < File.len => FileByte(o) = <<cur, o>>
  BY DEF FileByte, Content

\* The address of the first segment.
FirstAt(b) == IF File.pie THEN b ELSE Seg.vaddr

\* map_load on the first segment: the file mapping, which is all there is, holds
\* what the segment needs of the file.  The break, if any, is behind that mapping;
\* a bss that reaches further than the mapping finds a page of somebody else.
LEMMA MapFirstDoes ==
    ASSUME TypeOK, Based(cur), NEW b \in Bases[cur], MapFirst(b)
    PROVE  LET at == FirstAt(b) IN
           /\ at \in Nat /\ at # 0 /\ Offt(at) = 0 /\ at < Top
           /\ base' = [base EXCEPT ![cur] = at]
           /\ Seg.offset = 0 /\ Seg.vaddr + (IF File.pie THEN at ELSE 0) = at
           /\ Segs(cur) = {} /\ \A j \in Loads(File) : idx[cur] <= j
           /\ Maps(at)
           /\ at + Past(Seg.filesz) <= Top
           /\ vbrk' = IF "w" \in Seg.flags /\ cur = "main" THEN at + Past(Seg.filesz) + 1
                      ELSE vbrk
           /\ Past(Seg.memsz) > Past(Seg.filesz) =>
                \E p \in PagesOf(at, at + Seg.memsz + 2 * PageSz) : prot[p] # {}
  <1> DEFINE at == FirstAt(b)
             s == Seg
             end == at + Past(s.filesz)
             q == SetProt(prot, at, end, FileRights)
             stop == at + Past(s.memsz)
             near == PagesOf(at, at + s.memsz + 2 * PageSz)
  <1>1. /\ AtHeader("load") /\ base[cur] = 0
        /\ MayMap(at) /\ end <= Top /\ Protects(q, at)
        /\ base' = [base EXCEPT ![cur] = at]
        /\ mem' = MapFile(mem, at, end, Align(s.offset))
        /\ prot' = SetProt(q, at, stop, Rights)
        /\ IF "w" \in s.flags THEN SetBreak(end + 1) ELSE UNCHANGED vbrk
    BY DEF MapFirst, FirstAt, ProtectEnd
  <1>2. /\ cur \in Files /\ File \in Images /\ IsImage(File) /\ File = guest[cur]
        /\ idx[cur] \in Loads(File) /\ s = File.ph[idx[cur]]
        /\ Segs(cur) = {i \in Loads(File) : i < idx[cur]}
    BY <1>1, AtLoad, Zenon
  <1>3. /\ s.vaddr \in Nat /\ s.offset \in Nat /\ s.filesz \in Nat /\ s.memsz \in Nat
        /\ s.flags \subseteq {"r", "w", "x"} /\ File.len \in Nat /\ File.pie \in BOOLEAN
        /\ Offt(s.vaddr) = Offt(s.offset)
        /\ s.memsz > 0 /\ s.filesz <= s.memsz /\ s.offset + s.filesz <= File.len
        /\ (\A j \in Loads(File) : idx[cur] <= j)
             => s.offset < PageSz /\ (File.pie => s.vaddr = 0)
    BY <1>2, LoadIs, Zenon
  <1>4. Segs(cur) = {}
    BY <1>1 DEF Based
  <1>5. \A j \in Loads(File) : idx[cur] <= j
    <2>1. idx[cur] \in Nat /\ \A j \in Loads(File) : j \in Nat
      BY <1>2, LoadIs
    <2> QED BY <2>1, <1>2, <1>4
  <1>6. at \in Nat /\ at # 0 /\ Offt(at) = 0
    <2>1. \A x \in Bases[cur] : x \in Nat
      BY <1>2, LoaderAssumption
    <2> QED BY <2>1, <1>1, <1>3 DEF MayMap, FirstAt
  <1>7. s.offset = 0 /\ s.vaddr + (IF File.pie THEN at ELSE 0) = at
    <2>1. s.offset < PageSz /\ (File.pie => s.vaddr = 0)
      BY <1>3, <1>5
    <2>2. s.vaddr + (IF File.pie THEN at ELSE 0) = at
      BY <2>1, <1>3, <1>6 DEF FirstAt
    <2>3. Offt(0) = 0
      BY LoIs, Consts DEF Lo
    <2>4. Offt(s.vaddr) = 0
      BY <2>1, <2>3, <1>3, <1>6 DEF FirstAt
    <2>5. s.offset = 0
      <3>1. ASSUME s.offset > 0 PROVE FALSE
        <4>1. 0 + PageSz <= s.offset
          BY <3>1, <2>3, <2>4, <1>3, Gap
        <4> QED BY <4>1, <2>1, <1>3, Consts
      <3> QED BY <3>1, <1>3
    <2> QED BY <2>2, <2>5
  <1> HIDE DEF at, s, q
  <1>8. /\ Past(s.filesz) \in Nat /\ Past(s.filesz) > s.filesz /\ Past(s.filesz) <= s.filesz + PageSz
        /\ Past(s.memsz) \in Nat /\ Past(s.memsz) > s.memsz /\ Past(s.memsz) <= s.memsz + PageSz
        /\ Offt(Past(s.filesz)) = 0 /\ Offt(Past(s.memsz)) = 0
    <2>1. \A a \in Nat : /\ Past(a) \in Nat /\ Past(a) > a /\ Past(a) <= a + PageSz
                         /\ Offt(Past(a)) = 0
      <3> TAKE a \in Nat
      <3>1. /\ Align(a) \in Nat /\ Align(a) <= a /\ a < Align(a) + PageSz
            /\ Past(a) = Align(a) + PageSz /\ Past(a) \in Nat /\ Offt(Past(a)) = 0
        BY AlignIs
      <3> QED BY <3>1, Consts
    <2> QED BY <2>1, <1>3
  <1>9. end \in Nat /\ stop \in Nat /\ end <= Top /\ stop <= Top /\ at < end /\ at + s.memsz < stop
    <2>1. stop <= Top
      BY <1>1 DEF Protects, ProtectEnd, s
    <2> QED BY <2>1, <1>1, <1>3, <1>6, <1>8
  <1>10. PagesOf(at, end) \subseteq near /\ PagesOf(at, stop) \subseteq near
    <2>1. end <= at + s.memsz + 2 * PageSz /\ stop <= at + s.memsz + 2 * PageSz
      BY <1>3, <1>6, <1>8, Consts
    <2>2. \A p \in Pages : Lo(p) \in Nat
      BY PagesAre
    <2>3. ASSUME NEW e \in Nat, e <= at + s.memsz + 2 * PageSz PROVE PagesOf(at, e) \subseteq near
      <3> SUFFICES ASSUME NEW p \in PagesOf(at, e) PROVE p \in near
        OBVIOUS
      <3>1. p \in Pages /\ Lo(p) < e /\ Lo(p) + PageSz > at /\ Lo(p) \in Nat
        BY <2>2, InPages
      <3>2. Lo(p) < at + s.memsz + 2 * PageSz
        BY <3>1, <2>3, <1>3, <1>6, Consts
      <3> QED BY <3>1, <3>2, InPages
    <2> QED BY <2>1, <2>3, <1>9
  <1>11. \A x \in Addr : mem'[x] = IF x \in Bytes(at, end) THEN FileByte(x - at) ELSE mem[x]
    <2>1. Align(s.offset) = 0
      BY <1>7, AlignIs, Aligned
    <2>2. \A x \in Addr : 0 + x - at = x - at
      BY <1>6, PagesAre
    <2> QED BY <2>1, <2>2, <1>1 DEF MapFile
  <1>12. \A x \in Addr : x \in Bytes(at, end) => x - at \in Nat /\ FileByte(x - at) \in Content
    <2> SUFFICES ASSUME NEW x \in Addr, x \in Bytes(at, end)
                 PROVE  x - at \in Nat /\ FileByte(x - at) \in Content
      OBVIOUS
    <2>1. x - at \in Nat
      BY <1>6, <1>9, PagesAre DEF Bytes
    <2> QED BY <2>1, <1>2, <1>3, FileByteIs
  <1>13. mem' \in [Addr -> Content]
    <2>1. mem' = [x \in Addr |-> mem'[x]]
      BY <1>1 DEF MapFile
    <2>2. mem \in [Addr -> Content]
      BY DEF TypeOK, Content
    <2>3. \A x \in Addr : mem'[x] \in Content
      BY <1>11, <1>12, <2>2
    <2> QED BY <2>1, <2>3
  <1>14. \A p \in Pages : prot'[p] = IF p \in PagesOf(at, stop) THEN Rights
                                     ELSE IF p \in PagesOf(at, end) THEN FileRights ELSE prot[p]
    BY <1>1 DEF SetProt, q
  <1>15. prot' \in [Pages -> Perms]
    <2>1. prot' = [p \in Pages |-> prot'[p]]
      BY <1>1 DEF SetProt
    <2>2. prot \in [Pages -> Perms] /\ Rights \in Perms /\ FileRights \in Perms
      BY <1>3 DEF TypeOK, Perms, Rights, FileRights, s
    <2>3. \A p \in Pages : prot'[p] \in Perms
      BY <1>14, <2>2
    <2> QED BY <2>1, <2>3
  <1>16. \A x \in Addr : PageOf(x) \notin near => mem'[x] = mem[x]
    <2> SUFFICES ASSUME NEW x \in Addr, x \in Bytes(at, end) PROVE PageOf(x) \in near
      BY <1>11
    <2>1. at <= x /\ x < end
      BY <1>6, <1>9 DEF Bytes
    <2> QED BY <2>1, <1>6, <1>9, <1>10, ByteInPages
  <1>17. \A p \in Pages : p \notin near => prot'[p] = prot[p]
    BY <1>10, <1>14
  <1>18. ASSUME NEW x \in Bytes(at, at + s.memsz)
         PROVE  \/ mem'[x] = IF x - at < s.filesz THEN <<cur, s.offset + (x - at)>> ELSE Zero
                \/ base[cur] = 0 /\ x >= at + s.filesz
    <2>1. x \in Nat /\ at <= x /\ x < at + s.memsz
      BY <1>3, <1>6 DEF Bytes
    <2>2. CASE x < at + s.filesz
      <3>1. x \in Addr /\ x \in Bytes(at, end) /\ x - at \in Nat /\ x - at < s.filesz
        BY <2>1, <2>2, <1>3, <1>6, <1>8, <1>9, Consts DEF Bytes, Addr
      <3>2. x - at < File.len /\ s.offset + (x - at) = x - at
        BY <3>1, <1>3, <1>7
      <3>3. FileByte(x - at) = <<cur, x - at>>
        BY <3>1, <3>2, <1>2, <1>3, FileByteIs
      <3> QED BY <3>1, <3>2, <3>3, <1>11
    <2>3. CASE x >= at + s.filesz
      BY <2>3, <1>1
    <2> QED BY <2>1, <2>2, <2>3, <1>3, <1>6
  <1>19. \A p \in PagesOf(at, at + s.memsz) : prot'[p] = {"r"} \cup s.flags
    <2> TAKE p \in PagesOf(at, at + s.memsz)
    <2>1. p \in Pages /\ Lo(p) < at + s.memsz /\ Lo(p) + PageSz > at
      BY InPages
    <2>2. Lo(p) < stop
      BY <2>1, <1>3, <1>6, <1>9, PagesAre
    <2>3. p \in PagesOf(at, stop)
      BY <2>1, <2>2, InPages
    <2> QED BY <2>1, <2>3, <1>14 DEF Rights, s
  <1>20. Maps(at)
    <2>1. at + s.memsz <= Top
      BY <1>3, <1>6, <1>9, Consts
    <2> QED BY <2>1, <1>13, <1>15, <1>16, <1>17, <1>18, <1>19 DEF Maps, s
  <1>21. vbrk' = IF "w" \in s.flags /\ cur = "main" THEN at + Past(s.filesz) + 1 ELSE vbrk
    BY <1>1 DEF SetBreak
  <1>22. ASSUME Past(s.memsz) > Past(s.filesz) PROVE \E p \in near : prot[p] # {}
    <2> DEFINE p == PageOf(end)
    <2>1. Offt(end) = 0 /\ end < stop
      BY <1>6, <1>8, <1>22, AlignSum
    <2>2. p \in Nat /\ Lo(p) = end /\ end \in Addr
      BY <2>1, <1>9, Aligned, AlignIs, Consts DEF Addr
    <2>3. p \in Pages
      BY <2>2, PagesAre
    <2> HIDE DEF p
    <2>4. p \in PagesOf(at, stop) /\ p \notin PagesOf(at, end)
      BY <2>1, <2>2, <2>3, <1>6, <1>9, InPages, Consts
    <2>5. q[p] # {}
      BY <2>4, <1>1 DEF Protects, ProtectEnd, s
    <2>6. q[p] = prot[p]
      BY <2>3, <2>4 DEF q, SetProt
    <2> QED BY <2>4, <2>5, <2>6, <1>10
  <1>23. at < Top
    BY <1>6, <1>9, Consts
  <1> QED BY <1>1, <1>4, <1>5, <1>6, <1>7, <1>9, <1>20, <1>21, <1>22, <1>23 DEF at, s

\* Rounding up goes up, and by a page at most.
LEMMA PastIs ==
    ASSUME NEW a \in Nat
    PROVE  /\ Past(a) \in Nat /\ Past(a) > a /\ Past(a) <= a + PageSz /\ Offt(Past(a)) = 0
  <1>1. /\ Align(a) \in Nat /\ Align(a) <= a /\ a < Align(a) + PageSz
        /\ Past(a) = Align(a) + PageSz /\ Past(a) \in Nat /\ Offt(Past(a)) = 0
    BY AlignIs
  <1> QED BY <1>1, Consts

\* The addresses map_load computes for a later segment: the file mapping and the
\* mapping of the bss cover it, and end two pages behind it at most.
LEMMA NextPlaces ==
    ASSUME TypeOK, Based(cur), AtHeader("load")
    PROVE  LET al == Align(CurrMap) IN
           /\ CurrMap = Seg.vaddr + (IF File.pie THEN base[cur] ELSE 0)
           /\ CurrMap \in Nat /\ al \in Nat /\ Offt(al) = 0 /\ al <= CurrMap /\ CurrMap < al + PageSz
           /\ CurrMap - al = Seg.offset - Align(Seg.offset)
           /\ CurrMap = al + Offt(Seg.vaddr) /\ Offt(Seg.vaddr) \in Nat
           /\ Seg.filesz \in Nat /\ Seg.memsz \in Nat /\ Seg.memsz > 0 /\ Seg.filesz <= Seg.memsz
           /\ Seg.offset \in Nat /\ Align(Seg.offset) \in Nat /\ File.len \in Nat
           /\ Seg.offset + Seg.filesz <= File.len /\ Seg.flags \subseteq {"r", "w", "x"}
           /\ FileEnd = CurrMap + Seg.filesz /\ MapEnd \in Nat /\ Offt(MapEnd) = 0
           /\ FileEnd < MapEnd /\ MapEnd <= FileEnd + PageSz
           /\ HasBss <=> Seg.memsz > Seg.filesz
           /\ BssEnd \in Nat /\ Offt(BssEnd) = 0
           /\ BssEnd > CurrMap + Seg.memsz /\ BssEnd <= CurrMap + Seg.memsz + PageSz
           /\ BssMap => BssEnd > MapEnd /\ BssMapEnd = BssEnd + PageSz
           /\ ProtectEnd(al) \in Nat /\ ProtectEnd(al) <= CurrMap + Seg.memsz + PageSz
           /\ ProtectEnd(al) > al + Seg.memsz
           /\ al + Past(Seg.filesz) \in Nat /\ al + Past(Seg.filesz) <= MapEnd
           /\ Offt(al + Past(Seg.filesz)) = 0
  <1> DEFINE s == Seg
             al == Align(CurrMap)
  <1>1. /\ cur \in Files /\ File \in Images /\ IsImage(File) /\ File = guest[cur]
        /\ idx[cur] \in Loads(File) /\ s = File.ph[idx[cur]] /\ guest \in Programs
    BY AtLoad DEF TypeOK
  <1>2. /\ s.vaddr \in Nat /\ s.offset \in Nat /\ s.filesz \in Nat /\ s.memsz \in Nat
        /\ s.flags \subseteq {"r", "w", "x"} /\ File.len \in Nat /\ File.pie \in BOOLEAN
        /\ s.memsz > 0 /\ s.filesz <= s.memsz /\ s.offset + s.filesz <= File.len
    BY <1>1, LoadIs, Zenon
  <1>3. base[cur] \in Nat /\ Offt(base[cur]) = 0
    BY DEF Based
  <1>4. CurrMap = s.vaddr + (IF File.pie THEN base[cur] ELSE 0)
    BY <1>2, <1>3 DEF CurrMap
  <1>5. /\ CurrMap \in Nat /\ Offt(CurrMap) = Offt(s.vaddr)
        /\ CurrMap - al = s.offset - Align(s.offset)
    BY <1>1, <1>3, <1>4, Placed
  <1> HIDE DEF al, s
  <1>6. /\ al \in Nat /\ Offt(al) = 0 /\ al <= CurrMap /\ CurrMap < al + PageSz
        /\ CurrMap = al + Offt(s.vaddr) /\ Offt(s.vaddr) \in Nat /\ Align(s.offset) \in Nat
    BY <1>2, <1>5, AlignIs DEF al
  <1>7. FileEnd = CurrMap + s.filesz /\ FileEnd \in Nat /\ (HasBss <=> s.memsz > s.filesz)
    BY <1>2, <1>5 DEF FileEnd, HasBss, s
  <1>8. MapEnd \in Nat /\ Offt(MapEnd) = 0 /\ FileEnd < MapEnd /\ MapEnd <= FileEnd + PageSz
    BY <1>7, PastIs DEF MapEnd
  <1>9. /\ BssEnd \in Nat /\ Offt(BssEnd) = 0
        /\ BssEnd > CurrMap + s.memsz /\ BssEnd <= CurrMap + s.memsz + PageSz
    <2>1. CurrMap + s.memsz \in Nat
      BY <1>2, <1>5
    <2> QED BY <2>1, PastIs DEF BssEnd, s
  <1>10. ASSUME BssMap PROVE BssEnd > MapEnd /\ BssMapEnd = BssEnd + PageSz
    <2>1. BssEnd > MapEnd
      BY <1>10 DEF BssMap
    <2>2. BssEnd - MapEnd \in Nat /\ Offt(BssEnd - MapEnd) = 0
      BY <2>1, <1>8, <1>9, AlignDiff
    <2>3. Past(BssEnd - MapEnd) = BssEnd - MapEnd + PageSz
      BY <2>2, Aligned, AlignIs
    <2> QED BY <2>1, <2>2, <2>3, <1>8, <1>9, Consts DEF BssMapEnd
  <1>11. /\ ProtectEnd(al) \in Nat /\ ProtectEnd(al) <= CurrMap + s.memsz + PageSz
         /\ ProtectEnd(al) > al + s.memsz
    <2>1. Past(s.memsz) \in Nat /\ Past(s.memsz) > s.memsz /\ Past(s.memsz) <= s.memsz + PageSz
      BY <1>2, PastIs
    <2>2. ProtectEnd(al) = al + Past(s.memsz)
      BY DEF ProtectEnd, s
    <2> QED BY <2>1, <2>2, <1>2, <1>5, <1>6, Consts
  <1>12. /\ al + Past(s.filesz) \in Nat /\ al + Past(s.filesz) <= MapEnd
         /\ Offt(al + Past(s.filesz)) = 0
    <2>1. /\ Align(s.filesz) \in Nat /\ Align(s.filesz) <= s.filesz
          /\ Past(s.filesz) = Align(s.filesz) + PageSz /\ Past(s.filesz) \in Nat
          /\ Offt(Past(s.filesz)) = 0 /\ Offt(Align(s.filesz)) = 0
      BY <1>2, AlignIs
    <2>2. Offt(al + Align(s.filesz)) = 0 /\ Offt(al + Past(s.filesz)) = 0
      BY <2>1, <1>6, AlignSum
    <2>3. al + Align(s.filesz) \in Nat /\ al + Align(s.filesz) <= FileEnd
      BY <2>1, <1>2, <1>5, <1>6, <1>7
    <2>4. al + Align(s.filesz) <= Align(FileEnd)
      BY <2>2, <2>3, <1>7, Below
    <2>5. MapEnd = Align(FileEnd) + PageSz /\ Align(FileEnd) \in Nat
      BY <1>7, AlignIs DEF MapEnd
    <2> QED BY <2>1, <2>2, <2>4, <2>5, <1>6, Consts
  <1> QED BY <1>2, <1>4, <1>5, <1>6, <1>7, <1>8, <1>9, <1>10, <1>11, <1>12 DEF al, s

\* map_load on a later segment, when memset does not run into a page that is gone:
\* the segment is exact, and the break is left alone or lies behind the segment,
\* unless a writable segment without a bss touches a page more than its size.
LEMMA MapNextDoes ==
    ASSUME TypeOK, Based(cur), MapNext, phase' # "bus"
    PROVE  /\ Maps(CurrMap) /\ base[cur] # 0 /\ base' = base
           /\ CurrMap = Seg.vaddr + (IF File.pie THEN base[cur] ELSE 0)
           /\ Advance /\ phase' = phase
           /\ \/ vbrk' = vbrk /\ (cur = "interp" \/ "w" \notin Seg.flags)
              \/ /\ cur = "main" /\ vbrk' \in Nat /\ vbrk' # 0 /\ vbrk' <= Top + 1
                 /\ \/ CurrMap + Seg.memsz <= Align(vbrk')
                    \/ /\ Seg.memsz = Seg.filesz /\ "w" \in Seg.flags
                       /\ Past(Offt(Seg.vaddr) + Seg.filesz - 1) > Past(Seg.filesz)
  <1> DEFINE at == CurrMap
             al == Align(CurrMap)
             s == Seg
             end == at + s.memsz
             stop == ProtectEnd(al)
             m == MapFile(mem, al, MapEnd, Align(s.offset))
             q == SetProt(prot, al, MapEnd, FileRights)
             qb == IF BssMap THEN SetProt(q, MapEnd, BssMapEnd, Rights) ELSE q
             near == PagesOf(at, end + 2 * PageSz)
  <1>1. /\ AtHeader("load") /\ base[cur] # 0 /\ base' = base
        /\ MapEnd <= Top /\ (BssMap => BssMapEnd <= Top)
        /\ Protects(qb, al)
        /\ mem' = MappedBss(Cleared(m))
        /\ prot' = SetProt(qb, al, stop, Rights)
        /\ IF BssMap \/ "w" \in s.flags THEN SetBreak(BreakAt) ELSE UNCHANGED vbrk
        /\ Advance /\ phase' = phase
    BY DEF MapNext
  <1>2. /\ at = s.vaddr + (IF File.pie THEN base[cur] ELSE 0)
        /\ at \in Nat /\ al \in Nat /\ Offt(al) = 0 /\ al <= at /\ at < al + PageSz
        /\ at - al = s.offset - Align(s.offset)
        /\ at = al + Offt(s.vaddr) /\ Offt(s.vaddr) \in Nat
        /\ s.filesz \in Nat /\ s.memsz \in Nat /\ s.memsz > 0 /\ s.filesz <= s.memsz
        /\ s.offset \in Nat /\ Align(s.offset) \in Nat /\ File.len \in Nat
        /\ s.offset + s.filesz <= File.len /\ s.flags \subseteq {"r", "w", "x"}
        /\ FileEnd = at + s.filesz /\ MapEnd \in Nat /\ Offt(MapEnd) = 0
        /\ FileEnd < MapEnd /\ MapEnd <= FileEnd + PageSz
        /\ HasBss <=> s.memsz > s.filesz
        /\ BssEnd \in Nat /\ Offt(BssEnd) = 0
        /\ BssEnd > at + s.memsz /\ BssEnd <= at + s.memsz + PageSz
        /\ BssMap => BssEnd > MapEnd /\ BssMapEnd = BssEnd + PageSz
        /\ stop \in Nat /\ stop <= at + s.memsz + PageSz /\ stop > al + s.memsz
        /\ al + Past(s.filesz) \in Nat /\ al + Past(s.filesz) <= MapEnd
        /\ Offt(al + Past(s.filesz)) = 0
    BY <1>1, NextPlaces
  <1>3. cur \in Files /\ (HasBss /\ BssEnd > MapEnd => BssMap) /\ (BssMap => HasBss)
    BY DEF TypeOK, BssMap
  <1> HIDE DEF at, al, s, m, q, qb, stop
  <1>4. end \in Nat /\ end <= Top
    BY <1>1, <1>2, <1>3, Consts
  <1>5. ASSUME NEW a \in Nat, NEW e \in Nat, al <= a, e <= end + 2 * PageSz, Offt(a) = 0
        PROVE  PagesOf(a, e) \subseteq near
    <2> SUFFICES ASSUME NEW p \in PagesOf(a, e) PROVE p \in near
      OBVIOUS
    <2>1. p \in Pages /\ Lo(p) < e /\ Lo(p) + PageSz > a /\ Lo(p) \in Nat /\ Offt(Lo(p)) = 0
      BY InPages, PagesAre
    <2>2. a <= Lo(p)
      BY <2>1, <1>5, Gap, Consts
    <2>3. Lo(p) < end + 2 * PageSz /\ Lo(p) + PageSz > at
      BY <2>1, <2>2, <1>2, <1>4, <1>5, Consts
    <2> QED BY <2>1, <2>3, InPages
  <1>6. /\ PagesOf(al, MapEnd) \subseteq near /\ PagesOf(al, stop) \subseteq near
        /\ BssMap => PagesOf(MapEnd, BssMapEnd) \subseteq near
    <2>1. /\ MapEnd <= end + 2 * PageSz /\ stop <= end + 2 * PageSz /\ al <= MapEnd
          /\ BssMap => BssMapEnd \in Nat /\ BssMapEnd <= end + 2 * PageSz
      BY <1>2, <1>4, Consts
    <2> QED BY <2>1, <1>2, <1>5
  <1>7. \A x \in Addr : mem'[x] =
           IF BssMap /\ x \in Bytes(MapEnd, BssMapEnd) THEN Zero
           ELSE IF HasBss /\ x \in Bytes(FileEnd, MapEnd) THEN Zero
           ELSE IF x \in Bytes(al, MapEnd) THEN FileByte(Align(s.offset) + x - al) ELSE mem[x]
    BY <1>1 DEF MappedBss, Cleared, SetZero, MapFile, m
  <1>8. mem' = [x \in Addr |-> mem'[x]]
    BY <1>1 DEF MappedBss, Cleared, SetZero, MapFile, m
  <1>9. \A p \in Pages : prot'[p] =
           IF p \in PagesOf(al, stop) THEN Rights
           ELSE IF BssMap /\ p \in PagesOf(MapEnd, BssMapEnd) THEN Rights
           ELSE IF p \in PagesOf(al, MapEnd) THEN FileRights ELSE prot[p]
    BY <1>1 DEF SetProt, q, qb
  <1>10. \A x \in Addr : x \in Bytes(al, MapEnd)
           => Align(s.offset) + x - al \in Nat /\ FileByte(Align(s.offset) + x - al) \in Content
    <2> SUFFICES ASSUME NEW x \in Addr, x \in Bytes(al, MapEnd)
                 PROVE  /\ Align(s.offset) + x - al \in Nat
                        /\ FileByte(Align(s.offset) + x - al) \in Content
      OBVIOUS
    <2>1. Align(s.offset) + x - al \in Nat
      BY <1>2, PagesAre DEF Bytes
    <2> QED BY <2>1, <1>2, <1>3, FileByteIs
  <1>11. mem' \in [Addr -> Content]
    <2>1. mem \in [Addr -> Content] /\ Zero \in Content
      BY DEF TypeOK, Content
    <2>2. \A x \in Addr : mem'[x] \in Content
      BY <1>7, <1>10, <2>1
    <2> QED BY <1>8, <2>2
  <1>12. prot' \in [Pages -> Perms]
    <2>1. prot' = [p \in Pages |-> prot'[p]]
      BY <1>1 DEF SetProt
    <2>2. prot \in [Pages -> Perms] /\ Rights \in Perms /\ FileRights \in Perms
      BY <1>2 DEF TypeOK, Perms, Rights, FileRights, s
    <2>3. \A p \in Pages : prot'[p] \in Perms
      BY <1>9, <2>2
    <2> QED BY <2>1, <2>3
  <1>13. ASSUME NEW x \in Addr, PageOf(x) \notin near PROVE mem'[x] = mem[x]
    <2>1. x \in Nat
      BY PagesAre
    <2>2. x \notin Bytes(al, MapEnd)
      <3>1. ASSUME x \in Bytes(al, MapEnd) PROVE PageOf(x) \in PagesOf(al, MapEnd)
        BY <3>1, <1>2, ByteInPages DEF Bytes
      <3> QED BY <3>1, <1>6, <1>13
    <2>3. BssMap => x \notin Bytes(MapEnd, BssMapEnd)
      <3>1. ASSUME BssMap, x \in Bytes(MapEnd, BssMapEnd) PROVE PageOf(x) \in PagesOf(MapEnd, BssMapEnd)
        <4>1. BssMapEnd \in Nat
          BY <3>1, <1>2, Consts
        <4> QED BY <4>1, <3>1, <1>2, ByteInPages DEF Bytes
      <3> QED BY <3>1, <1>6, <1>13
    <2>4. HasBss => x \notin Bytes(FileEnd, MapEnd)
      BY <2>1, <2>2, <1>2 DEF Bytes
    <2> QED BY <2>2, <2>3, <2>4, <1>7
  <1>14. \A p \in Pages : p \notin near => prot'[p] = prot[p]
    BY <1>6, <1>9
  <1>15. ASSUME NEW x \in Bytes(at, end)
         PROVE  mem'[x] = IF x - at < s.filesz THEN <<cur, s.offset + (x - at)>> ELSE Zero
    <2>1. x \in Nat /\ at <= x /\ x < end /\ x \in Addr
      BY <1>2, <1>4, Consts DEF Bytes, Addr
    <2>2. CASE x < at + s.filesz
      <3>1. /\ x - at < s.filesz /\ x \in Bytes(al, MapEnd) /\ x \notin Bytes(FileEnd, MapEnd)
            /\ BssMap => x \notin Bytes(MapEnd, BssMapEnd)
        BY <2>1, <2>2, <1>2, Consts DEF Bytes
      <3>2. Align(s.offset) + x - al = s.offset + (x - at) /\ s.offset + (x - at) \in Nat
            /\ s.offset + (x - at) < File.len
        BY <2>1, <2>2, <1>2
      <3>3. FileByte(s.offset + (x - at)) = <<cur, s.offset + (x - at)>>
        BY <3>2, <1>2, <1>3, FileByteIs
      <3> QED BY <2>1, <3>1, <3>2, <3>3, <1>7
    <2>3. CASE x >= at + s.filesz
      <3>1. ~(x - at < s.filesz) /\ HasBss
        BY <2>1, <2>3, <1>2
      <3>2. CASE x < MapEnd
        <4>1. x \in Bytes(FileEnd, MapEnd)
          BY <2>1, <2>3, <3>2, <1>2 DEF Bytes
        <4> QED BY <2>1, <3>1, <4>1, <1>7
      <3>3. CASE x >= MapEnd
        <4>1. BssMap
          BY <2>1, <3>1, <3>3, <1>2, <1>3
        <4>2. x \in Bytes(MapEnd, BssMapEnd)
          BY <2>1, <3>3, <4>1, <1>2, Consts DEF Bytes
        <4> QED BY <2>1, <3>1, <4>1, <4>2, <1>7
      <3> QED BY <2>1, <3>2, <3>3, <1>2
    <2> QED BY <2>1, <2>2, <2>3, <1>2
  <1>16. ASSUME NEW p \in PagesOf(at, end)
         PROVE  /\ ({"r"} \cup s.flags) \subseteq prot'[p]
                /\ p < PageOf(end - 1) => prot'[p] = {"r"} \cup s.flags
    <2>1. p \in Pages /\ Lo(p) < end /\ Lo(p) + PageSz > at /\ Lo(p) \in Nat /\ p \in Nat
      BY InPages, PagesAre
    <2>2. p \in PagesOf(al, stop) <=> Lo(p) < stop
      BY <2>1, <1>2, InPages, Consts
    <2>3. p \in PagesOf(al, MapEnd) <=> Lo(p) < MapEnd
      BY <2>1, <1>2, InPages, Consts
    <2>4. Lo(p) >= MapEnd => BssMap /\ p \in PagesOf(MapEnd, BssMapEnd)
      <3>1. ASSUME Lo(p) >= MapEnd PROVE BssMap
        BY <2>1, <3>1, <1>2, <1>3
      <3>2. ASSUME Lo(p) >= MapEnd PROVE p \in PagesOf(MapEnd, BssMapEnd)
        BY <2>1, <3>1, <3>2, <1>2, InPages, Consts
      <3> QED BY <3>1, <3>2
    <2>5. ({"r"} \cup s.flags) \subseteq Rights /\ ({"r"} \cup s.flags) \subseteq FileRights
          /\ Rights = {"r"} \cup s.flags
      BY <1>2 DEF Rights, FileRights, s
    <2>6. prot'[p] = Rights \/ prot'[p] = FileRights
      BY <2>1, <2>3, <2>4, <1>2, <1>9
    <2>7. ASSUME p < PageOf(end - 1) PROVE Lo(p) < stop
      <3>1. end - 1 \in Nat
        BY <1>2, <1>4
      <3>2. PageOf(end - 1) \in Nat /\ Lo(PageOf(end - 1)) <= end - 1 /\ Lo(PageOf(end - 1)) \in Nat
        BY <3>1, AlignIs
      <3>3. Lo(p) + PageSz <= Lo(PageOf(end - 1))
        BY <2>1, <2>7, <3>2, LoLess
      <3>4. Lo(p) + PageSz <= end - 1
        BY <2>1, <3>2, <3>3, <1>4, Consts
      <3> QED BY <2>1, <3>4, <1>2, <1>4, Consts
    <2> QED BY <2>1, <2>2, <2>5, <2>6, <2>7, <1>9
  <1>17. Maps(at)
    BY <1>4, <1>11, <1>12, <1>13, <1>14, <1>15, <1>16 DEF Maps, s
  <1>18. /\ BreakAt \in Nat /\ BreakAt # 0 /\ BreakAt <= Top + 1
         /\ \/ end <= Align(BreakAt)
            \/ /\ s.memsz = s.filesz /\ ~BssMap
               /\ Past(Offt(s.vaddr) + s.filesz - 1) > Past(s.filesz)
    <2>1. CASE BssMap
      <3>1. BreakAt = BssEnd + PageSz /\ BreakAt \in Nat /\ BreakAt <= Top /\ BreakAt # 0
        BY <2>1, <1>1, <1>2, Consts DEF BreakAt
      <3>2. Align(BreakAt) >= BssEnd
        BY <3>1, <1>2, Below, Consts
      <3>3. Align(BreakAt) \in Nat
        BY <3>1, AlignIs
      <3> QED BY <3>1, <3>2, <3>3, <1>2, <1>4, Consts
    <2>2. CASE ~BssMap /\ HasBss
      <3>1. BreakAt = MapEnd /\ BssEnd <= MapEnd
        BY <2>2, <1>2, <1>3 DEF BreakAt
      <3>2. Align(BreakAt) = MapEnd
        BY <3>1, <1>2, Aligned
      <3> QED BY <3>1, <3>2, <1>1, <1>2, <1>4, Consts
    <2>3. CASE ~BssMap /\ ~HasBss
      <3> DEFINE e == al + Past(s.filesz)
      <3>1. BreakAt = e + 1 /\ s.memsz = s.filesz
        BY <2>3, <1>2 DEF BreakAt, al, s
      <3>2. e \in Nat /\ Offt(e) = 0 /\ e <= MapEnd
        BY <1>2
      <3>3. e <= Align(e + 1) /\ Align(e + 1) \in Nat
        BY <3>2, Below, AlignIs
      <3>4. Offt(s.vaddr) + s.filesz - 1 \in Nat
        BY <3>1, <1>2
      <3>5. /\ Past(Offt(s.vaddr) + s.filesz - 1) > Offt(s.vaddr) + s.filesz - 1
            /\ Past(Offt(s.vaddr) + s.filesz - 1) \in Nat /\ Past(s.filesz) \in Nat
        BY <3>4, <1>2, PastIs
      <3>6. CASE Past(Offt(s.vaddr) + s.filesz - 1) > Past(s.filesz)
        BY <2>3, <3>1, <3>2, <3>6, <1>1, <1>2, Consts
      <3>7. CASE Past(Offt(s.vaddr) + s.filesz - 1) <= Past(s.filesz)
        <4>1. end <= e
          BY <3>1, <3>4, <3>5, <3>7, <1>2
        <4> QED BY <3>1, <3>2, <3>3, <4>1, <1>1, <1>2, <1>4, Consts
      <3> QED BY <3>5, <3>6, <3>7
    <2> QED BY <2>1, <2>2, <2>3
  <1>19. \/ vbrk' = vbrk /\ (cur = "interp" \/ "w" \notin s.flags)
         \/ cur = "main" /\ vbrk' = BreakAt /\ (BssMap \/ "w" \in s.flags)
    BY <1>1, <1>3 DEF SetBreak, Files
  <1> QED BY <1>1, <1>2, <1>17, <1>18, <1>19 DEF at, s

----------------------------------------------------------------------------
(* The inductive invariant of the image and the heap.                      *)

\* Segment i of file f is in memory as the file says.
Exact(f, i) ==
    LET s == guest[f].ph[i] IN
    /\ \A x \in Bytes(SegAt(f, i), SegEnd(f, i)) :
          mem[x] = Wanted(f, i, x) \/ (i = First(f) /\ x >= SegAt(f, i) + s.filesz)
    /\ \A p \in PagesOf(SegAt(f, i), SegEnd(f, i)) :
          /\ ({"r"} \cup s.flags) \subseteq prot[p]
          /\ p < PageOf(SegEnd(f, i) - 1) => prot[p] = {"r"} \cup s.flags

\* Nothing is mapped that the extents do not account for: what the mapping of a
\* first segment finds behind itself is the other file.
Accounted ==
    \A p \in Pages : prot[p] # {} => p \in Extent("main") \cup Extent("interp") \cup HeapPages

\* BreakBehind in every phase, for whole pages.
Behind ==
    vbrk # 0 /\ ~BreakInside /\ Apart =>
        \A i \in Segs("main") : Followed(i) => SegEnd("main", i) <= Align(vbrk)

Control ==
    /\ grown # {} => phase = "run"
    /\ phase \in {"mapped", "aux", "run", "segv"} => idx["main"] > Len(guest["main"].ph)
    /\ linked => idx["interp"] > Len(guest["interp"].ph)
    /\ cur = "interp" => guest["main"].ph[idx["main"]].type # "load"

\* The parts of the invariant that speak of the image.
Image ==
    /\ \A f \in Files : Based(f)
    /\ \A f \in Files : \A i \in Segs(f) : SegEnd(f, i) <= Top
    /\ \A f \in Files : \A i \in Segs(f) : Apart /\ OutOfReach(f, i) => Exact(f, i)
    /\ Accounted /\ Behind

\* What holds of the loader and the heap.
Loaded == TypeOK /\ Image /\ Control

\* A mapped segment.
LEMMA SegIs ==
    ASSUME TypeOK, NEW f \in Files, Based(f), NEW i \in Segs(f)
    PROVE  /\ i \in Loads(guest[f]) /\ i \in Nat /\ i < idx[f]
           /\ SegAt(f, i) \in Nat /\ SegEnd(f, i) \in Nat /\ SegAt(f, i) < SegEnd(f, i)
           /\ SegEnd(f, i) = SegAt(f, i) + guest[f].ph[i].memsz
           /\ guest[f].ph[i].filesz \in Nat /\ guest[f].ph[i].memsz \in Nat
           /\ guest[f].ph[i].filesz <= guest[f].ph[i].memsz
           /\ \A j \in Segs(f) : j < i => SegEnd(f, j) <= Align(SegAt(f, i))
  <1>1. guest \in Programs /\ idx \in [Files -> Nat \ {0}] /\ base[f] \in Nat /\ Offt(base[f]) = 0
    BY DEF TypeOK, Based
  <1>2. Segs(f) = {j \in Loads(guest[f]) : j < idx[f]}
    BY <1>1, SegsAre
  <1>3. guest[f] \in Images /\ IsImage(guest[f])
    BY <1>1, GuestIs
  <1>4. /\ i \in Nat /\ guest[f].ph[i].filesz \in Nat /\ guest[f].ph[i].memsz \in Nat
        /\ guest[f].ph[i].memsz > 0 /\ guest[f].ph[i].filesz <= guest[f].ph[i].memsz
    BY <1>2, <1>3, LoadIs, Zenon
  <1>5. /\ SegAt(f, i) \in Nat
        /\ \A j \in Loads(guest[f]) : j < i => SegEnd(f, j) <= Align(SegAt(f, i))
    BY <1>1, <1>2, Placed DEF SegAt, SegEnd
  <1>6. SegEnd(f, i) = SegAt(f, i) + guest[f].ph[i].memsz
    BY DEF SegEnd
  <1> QED BY <1>2, <1>4, <1>5, <1>6

\* The first mapped segment.
LEMMA FirstIs ==
    ASSUME TypeOK, NEW f \in Files, NEW i \in Segs(f), \A j \in Segs(f) : i <= j
    PROVE  First(f) = i
  <1>1. guest \in Programs /\ idx \in [Files -> Nat \ {0}]
    BY DEF TypeOK
  <1>2. guest[f] \in Images /\ IsImage(guest[f]) /\ Segs(f) \subseteq Loads(guest[f])
    BY <1>1, GuestIs, SegsAre
  <1>3. Segs(f) \subseteq Nat
    BY <1>2, LoadIs
  <1> QED BY <1>3, MinIs DEF First

LEMMA FirstIn ==
    ASSUME TypeOK, NEW f \in Files, Segs(f) # {}
    PROVE  First(f) \in Segs(f) /\ \A j \in Segs(f) : First(f) <= j
  <1>1. Segs(f) \subseteq Nat
    BY DEF Segs, TypeOK
  <1>2. PICK i \in Segs(f) : \A j \in Segs(f) : i <= j
    BY <1>1, LeastIs
  <1> QED BY <1>2, FirstIs

\* What is in the reach of a mapped segment.
LEMMA InExtent ==
    ASSUME NEW f, NEW i \in Segs(f)
    PROVE  PagesOf(SegAt(f, i), SegEnd(f, i) + 2 * PageSz) \subseteq Extent(f)
  BY DEF Extent

LEMMA OwnPages ==
    ASSUME TypeOK, NEW f \in Files, Based(f), NEW i \in Segs(f)
    PROVE  PagesOf(SegAt(f, i), SegEnd(f, i)) \subseteq Extent(f)
  <1> SUFFICES ASSUME NEW p \in PagesOf(SegAt(f, i), SegEnd(f, i)) PROVE p \in Extent(f)
    OBVIOUS
  <1>1. p \in Pages /\ Lo(p) < SegEnd(f, i) /\ Lo(p) + PageSz > SegAt(f, i) /\ Lo(p) \in Nat
    BY InPages, PagesAre
  <1>2. SegEnd(f, i) \in Nat
    BY SegIs
  <1>3. Lo(p) < SegEnd(f, i) + 2 * PageSz
    BY <1>1, <1>2, Consts
  <1>4. p \in PagesOf(SegAt(f, i), SegEnd(f, i) + 2 * PageSz)
    BY <1>1, <1>3, InPages
  <1> QED BY <1>4, InExtent

----------------------------------------------------------------------------
(* One more segment.                                                       *)

\* What both ways through map_load come to.
Step(at) ==
    /\ AtHeader("load") /\ Maps(at) /\ Advance
    /\ UNCHANGED <<guest, linked, cur, phase, argv, envp, fd, rsp, stack, added, grown>>
    /\ base' \in [Files -> Addr] /\ base'[cur] # 0 /\ Offt(base'[cur]) = 0
    /\ \A f \in Files : (f # cur \/ Segs(f) # {}) => base'[f] = base[f]
    /\ at \in Nat /\ at = Seg.vaddr + (IF File.pie THEN base'[cur] ELSE 0)
    /\ Segs(cur) = {} => at = base'[cur] /\ Seg.offset = 0
    /\ base[cur] = 0 <=> Segs(cur) = {}
    /\ \/ vbrk' = vbrk /\ (cur = "interp" \/ "w" \notin Seg.flags)
       \/ /\ cur = "main" /\ vbrk' \in Nat /\ vbrk' # 0 /\ vbrk' <= Top + 1
          /\ \/ at + Seg.memsz <= Align(vbrk')
             \/ /\ Segs(cur) # {} /\ Seg.memsz = Seg.filesz /\ "w" \in Seg.flags
                /\ Past(Offt(Seg.vaddr) + Seg.filesz - 1) > Past(Seg.filesz)
             \/ /\ Segs(cur) = {}
                /\ \E p \in PagesOf(at, at + Seg.memsz + 2 * PageSz) : prot[p] # {}

Rest == UNCHANGED <<argv, envp, fd, rsp, stack, added, grown>>

LEMMA FirstIsStep ==
    ASSUME TypeOK, Based(cur), NEW b \in Bases[cur], MapFirst(b), Rest
    PROVE  Step(FirstAt(b))
  <1> DEFINE at == FirstAt(b)
  <1>1. /\ at \in Nat /\ at # 0 /\ Offt(at) = 0 /\ at < Top
        /\ base' = [base EXCEPT ![cur] = at]
        /\ Seg.offset = 0 /\ Seg.vaddr + (IF File.pie THEN at ELSE 0) = at
        /\ Segs(cur) = {} /\ Maps(at)
        /\ at + Past(Seg.filesz) <= Top
        /\ vbrk' = IF "w" \in Seg.flags /\ cur = "main" THEN at + Past(Seg.filesz) + 1
                   ELSE vbrk
        /\ Past(Seg.memsz) > Past(Seg.filesz) =>
             \E p \in PagesOf(at, at + Seg.memsz + 2 * PageSz) : prot[p] # {}
    BY MapFirstDoes, Zenon
  <1> HIDE DEF at
  <1>2. cur \in Files /\ base \in [Files -> Addr] /\ at \in Addr
    BY <1>1, Consts DEF TypeOK, Addr
  <1>3. /\ AtHeader("load") /\ Advance /\ base[cur] = 0
        /\ UNCHANGED <<guest, linked, cur, phase, argv, envp, fd, rsp, stack, added, grown>>
    BY DEF MapFirst, Rest
  <1>4. Seg.filesz \in Nat /\ Seg.memsz \in Nat
    BY <1>3, NextPlaces
  <1>5. /\ base' \in [Files -> Addr] /\ base'[cur] = at
        /\ \A f \in Files : (f # cur \/ Segs(f) # {}) => base'[f] = base[f]
    BY <1>1, <1>2
  <1>6. /\ Past(Seg.filesz) \in Nat /\ Past(Seg.memsz) \in Nat /\ Past(Seg.memsz) > Seg.memsz
        /\ Offt(Past(Seg.filesz)) = 0
    BY <1>4, PastIs
  <1> DEFINE e == at + Past(Seg.filesz)
  <1>7. e \in Nat /\ Offt(e) = 0 /\ e <= Align(e + 1) /\ Align(e + 1) \in Nat
    <2>1. e \in Nat /\ Offt(e) = 0
      BY <1>1, <1>6, AlignSum
    <2> QED BY <2>1, Below, AlignIs
  <1>8. CASE vbrk' = vbrk /\ (cur = "interp" \/ "w" \notin Seg.flags)
    BY <1>1, <1>3, <1>5, <1>8 DEF Step, at
  <1>9. CASE vbrk' = e + 1 /\ cur = "main" /\ Past(Seg.memsz) > Past(Seg.filesz)
    <2>1. vbrk' \in Nat /\ vbrk' # 0 /\ vbrk' <= Top + 1
      BY <1>1, <1>7, <1>9, Consts
    <2> QED BY <2>1, <1>1, <1>3, <1>5, <1>9 DEF Step, at
  <1>10. CASE vbrk' = e + 1 /\ cur = "main" /\ Past(Seg.memsz) <= Past(Seg.filesz)
    <2>1. vbrk' \in Nat /\ vbrk' # 0 /\ vbrk' <= Top + 1
      BY <1>1, <1>7, <1>10, Consts
    <2>2. at + Seg.memsz <= Align(vbrk')
      BY <1>1, <1>4, <1>6, <1>7, <1>10
    <2> QED BY <2>1, <2>2, <1>1, <1>3, <1>5, <1>10 DEF Step, at
  <1> QED BY <1>1, <1>2, <1>6, <1>8, <1>9, <1>10 DEF Files

LEMMA NextIsStep ==
    ASSUME TypeOK, Based(cur), MapNext, phase' # "bus", Rest
    PROVE  Step(CurrMap)
  <1>1. /\ Maps(CurrMap) /\ base[cur] # 0 /\ base' = base
        /\ CurrMap = Seg.vaddr + (IF File.pie THEN base[cur] ELSE 0)
        /\ Advance /\ phase' = phase
        /\ \/ vbrk' = vbrk /\ (cur = "interp" \/ "w" \notin Seg.flags)
           \/ /\ cur = "main" /\ vbrk' \in Nat /\ vbrk' # 0 /\ vbrk' <= Top + 1
              /\ \/ CurrMap + Seg.memsz <= Align(vbrk')
                 \/ /\ Seg.memsz = Seg.filesz /\ "w" \in Seg.flags
                    /\ Past(Offt(Seg.vaddr) + Seg.filesz - 1) > Past(Seg.filesz)
    BY MapNextDoes, Zenon
  <1>2. base \in [Files -> Addr] /\ Offt(base[cur]) = 0 /\ Segs(cur) # {}
    BY <1>1 DEF TypeOK, Based
  <1>3. /\ AtHeader("load")
        /\ UNCHANGED <<guest, linked, cur, argv, envp, fd, rsp, stack, added, grown>>
    BY DEF MapNext, Rest
  <1>4. CurrMap \in Nat
    BY <1>3, NextPlaces
  <1> QED BY <1>1, <1>2, <1>3, <1>4 DEF Step

\* The segments after the step: one more, behind the others, and none has moved.
LEMMA StepSegs ==
    ASSUME TypeOK, \A f \in Files : Based(f), NEW at, Step(at),
           NEW c, c = cur, NEW k, k = idx[cur]
    PROVE  /\ c \in Files /\ k \in Loads(guest[c]) /\ k \in Nat /\ Seg = guest[c].ph[k]
           /\ \A f \in Files : Segs(f)' = IF f = c THEN Segs(f) \cup {k} ELSE Segs(f)
           /\ \A f \in Files : \A i \in Segs(f) :
                 SegAt(f, i)' = SegAt(f, i) /\ SegEnd(f, i)' = SegEnd(f, i)
           /\ SegAt(c, k)' = at /\ SegEnd(c, k)' = at + Seg.memsz
           /\ \A i \in Segs(c) : i < k /\ SegEnd(c, i) <= Align(at)
           /\ Seg.memsz \in Nat /\ Seg.memsz > 0 /\ Seg.filesz \in Nat
  <1>1. /\ c \in Files /\ File \in Images /\ IsImage(File) /\ File = guest[c]
        /\ k \in Loads(File) /\ Seg = File.ph[k]
    BY AtLoad DEF Step
  <1>2. guest \in Programs /\ idx \in [Files -> Nat \ {0}] /\ base \in [Files -> Addr]
    BY DEF TypeOK
  <1>3. /\ guest' = guest /\ cur' = cur /\ idx' = [idx EXCEPT ![c] = k + 1]
        /\ base' \in [Files -> Addr]
        /\ \A f \in Files : (f # c \/ Segs(f) # {}) => base'[f] = base[f]
        /\ at = Seg.vaddr + (IF File.pie THEN base'[c] ELSE 0) /\ Offt(base'[c]) = 0
    BY DEF Step, Advance
  <1>4. k \in Nat /\ Seg.memsz \in Nat /\ Seg.memsz > 0 /\ Seg.filesz \in Nat
    BY <1>1, LoadIs, Zenon
  <1>5. \A f \in Files : Segs(f) = {i \in Loads(guest[f]) : i < idx[f]}
    BY <1>2, SegsAre
  <1>6. ASSUME NEW f \in Files PROVE Segs(f)' = {i \in Loads(guest[f]) : i < idx'[f]}
    <2>1. guest[f] \in Images /\ idx'[f] \in Nat
      BY <1>1, <1>2, <1>3, GuestIs
    <2>2. \A i \in DOMAIN guest[f].ph : i \in Nat /\ i >= 1
      BY <2>1 DEF Images
    <2>3. \A i : i \in 1 .. (idx'[f] - 1) <=> i \in Nat /\ i >= 1 /\ i < idx'[f]
      BY <2>1
    <2> QED BY <2>2, <2>3, <1>3 DEF Segs, Loads
  <1>7. ASSUME NEW f \in Files PROVE Segs(f)' = IF f = c THEN Segs(f) \cup {k} ELSE Segs(f)
    <2>1. CASE f = c
      <3>1. \A i \in Loads(File) : i \in Nat
        BY <1>1, LoadIs
      <3>2. \A i \in Loads(File) : i < k + 1 <=> (i < k \/ i = k)
        BY <3>1, <1>4
      <3>3. idx'[f] = k + 1
        BY <2>1, <1>2, <1>3
      <3> QED BY <2>1, <3>2, <3>3, <1>1, <1>5, <1>6
    <2>2. CASE f # c
      BY <2>2, <1>2, <1>3, <1>5, <1>6
    <2> QED BY <2>1, <2>2
  <1>8. ASSUME NEW f \in Files, NEW i \in Segs(f)
        PROVE  SegAt(f, i)' = SegAt(f, i) /\ SegEnd(f, i)' = SegEnd(f, i)
    <2>1. base'[f] = base[f]
      BY <1>3
    <2> QED BY <2>1, <1>3 DEF SegAt, SegEnd
  <1>9. SegAt(c, k)' = at /\ SegEnd(c, k)' = at + Seg.memsz
    BY <1>1, <1>3 DEF SegAt, SegEnd
  <1>10. ASSUME NEW i \in Segs(c) PROVE i < k /\ SegEnd(c, i) <= Align(at)
    <2>1. i < k /\ i \in Loads(File)
      BY <1>1, <1>5
    <2>2. base'[c] = base[c] /\ base[c] \in Nat
      BY <1>1, <1>2, <1>3, PagesAre
    <2>3. /\ at = guest[c].ph[k].vaddr + (IF guest[c].pie THEN base[c] ELSE 0)
          /\ Offt(base[c]) = 0
      BY <2>2, <1>1, <1>3
    <2>4. \A j \in Loads(guest[c]) : j < k =>
             guest[c].ph[j].vaddr + (IF guest[c].pie THEN base[c] ELSE 0) + guest[c].ph[j].memsz
                <= Align(guest[c].ph[k].vaddr + (IF guest[c].pie THEN base[c] ELSE 0))
      BY <2>2, <2>3, <1>1, <1>2, Placed
    <2>5. SegEnd(c, i) <= Align(at)
      BY <2>1, <2>3, <2>4, <1>1 DEF SegEnd, SegAt
    <2> QED BY <2>1, <2>5
  <1> QED BY <1>1, <1>4, <1>7, <1>8, <1>9, <1>10

\* The extents only grow, by the pages near the new segment; so files that are
\* apart afterwards were apart before.
LEMMA StepExtent ==
    ASSUME TypeOK, \A f \in Files : Based(f), NEW at, Step(at),
           NEW c, c = cur, NEW k, k = idx[cur]
    PROVE  /\ \A f \in Files : Extent(f) \subseteq Extent(f)'
           /\ PagesOf(at, at + Seg.memsz + 2 * PageSz) \subseteq Extent(c)'
           /\ HeapPages' = HeapPages
           /\ Apart' => Apart
           /\ BreakInside => BreakInside'
  <1>1. /\ c \in Files /\ k \in Nat /\ Seg = guest[c].ph[k]
        /\ \A f \in Files : Segs(f)' = IF f = c THEN Segs(f) \cup {k} ELSE Segs(f)
        /\ \A f \in Files : \A i \in Segs(f) :
              SegAt(f, i)' = SegAt(f, i) /\ SegEnd(f, i)' = SegEnd(f, i)
        /\ SegAt(c, k)' = at /\ SegEnd(c, k)' = at + Seg.memsz
        /\ \A i \in Segs(c) : i < k /\ SegEnd(c, i) <= Align(at)
        /\ Seg.memsz \in Nat /\ Seg.memsz > 0 /\ Seg.filesz \in Nat
    BY StepSegs, Zenon
  <1>2. guest' = guest /\ grown' = grown
    BY DEF Step
  <1>3. \A f \in Files : \A p : p \in Extent(f) <=>
           \E i \in Segs(f) : p \in PagesOf(SegAt(f, i), SegEnd(f, i) + 2 * PageSz)
    BY DEF Extent
  <1>4. \A f \in Files : \A p : p \in Extent(f)' <=>
           \E i \in Segs(f)' : p \in PagesOf(SegAt(f, i)', SegEnd(f, i)' + 2 * PageSz)
    BY DEF Extent
  <1>5. ASSUME NEW f \in Files PROVE Extent(f) \subseteq Extent(f)'
    BY <1>1, <1>3, <1>4
  <1>6. PagesOf(at, at + Seg.memsz + 2 * PageSz) \subseteq Extent(c)'
    BY <1>1, <1>4
  <1>7. HeapPages' = HeapPages
    BY <1>2 DEF HeapPages
  <1>8. Apart' => Apart
    BY <1>5, <1>7 DEF Apart, Files
  <1>9. ASSUME BreakInside PROVE BreakInside'
    <2>1. PICK i \in Segs("main") :
             /\ i # First("main") /\ guest.main.ph[i].memsz = guest.main.ph[i].filesz
             /\ "w" \in guest.main.ph[i].flags
             /\ Past(Offt(guest.main.ph[i].vaddr) + guest.main.ph[i].filesz - 1)
                   > Past(guest.main.ph[i].filesz)
      BY <1>9 DEF BreakInside
    <2>2. "main" \in Files
      BY DEF Files
    <2>3. First("main") \in Segs("main") /\ \A j \in Segs("main") : First("main") <= j
      BY <2>1, <2>2, FirstIn
    <2>4. PICK m \in Segs("main") : m = First("main")
      BY <2>3
    <2>5. Segs("main")' \subseteq Nat /\ i \in Segs("main")' /\ m \in Segs("main")'
          /\ \A j \in Segs("main")' : m <= j
      <3>1. \A j \in Segs("main") : j \in Nat
        BY <2>2, SegIs
      <3>2. c = "main" => m < k
        BY <1>1, <2>4
      <3> QED BY <3>1, <3>2, <2>2, <2>3, <2>4, <1>1
    <2>6. First("main")' = m
      BY <2>5, MinIs DEF First
    <2> QED BY <2>1, <2>4, <2>5, <2>6, <1>2 DEF BreakInside
  <1> QED BY <1>5, <1>6, <1>7, <1>8, <1>9

\* No page of a segment that is mapped already is near the new one.
LEMMA StepFar ==
    ASSUME TypeOK, \A f \in Files : Based(f), NEW at, Step(at),
           NEW c, c = cur, NEW k, k = idx[cur], Apart',
           NEW f \in Files, NEW i \in Segs(f), NEW p \in PagesOf(SegAt(f, i), SegEnd(f, i))
    PROVE  p \notin PagesOf(at, at + Seg.memsz + 2 * PageSz)
  <1>1. /\ c \in Files /\ \A j \in Segs(c) : j < k /\ SegEnd(c, j) <= Align(at)
        /\ \A g \in Files : \A j \in Segs(g) :
              SegAt(g, j)' = SegAt(g, j) /\ SegEnd(g, j)' = SegEnd(g, j)
    BY StepSegs, Zenon
  <1>2. /\ \A g \in Files : Extent(g) \subseteq Extent(g)'
        /\ PagesOf(at, at + Seg.memsz + 2 * PageSz) \subseteq Extent(c)'
    BY StepExtent, Zenon
  <1>3. CASE f = c
    <2>1. /\ p \in Pages /\ Lo(p) < SegEnd(f, i) /\ Lo(p) \in Nat /\ Offt(Lo(p)) = 0
          /\ SegEnd(f, i) \in Nat /\ SegEnd(f, i) <= Align(at)
      BY <1>1, <1>3, InPages, PagesAre, SegIs
    <2>2. at \in Nat /\ Align(at) \in Nat /\ Align(at) <= at /\ Offt(Align(at)) = 0
      <3>1. at \in Nat
        BY DEF Step
      <3> QED BY <3>1, AlignIs
    <2>3. Lo(p) + PageSz <= Align(at)
      BY <2>1, <2>2, Gap
    <2> QED BY <2>1, <2>2, <2>3, InPages, Consts
  <1>4. CASE f # c
    <2>1. p \in Extent(f)
      BY OwnPages
    <2>2. p \in Extent(f)'
      BY <2>1, <1>2
    <2>3. Extent(f)' \cap Extent(c)' = {}
      BY <1>1, <1>4 DEF Apart, Files
    <2> QED BY <2>2, <2>3, <1>2
  <1> QED BY <1>3, <1>4

\* Every file still starts at its base.
LEMMA StepBased ==
    ASSUME TypeOK, \A f \in Files : Based(f), NEW at, Step(at), NEW f \in Files
    PROVE  Based(f)'
  <1>1. PICK c : c = cur
    OBVIOUS
  <1>2. PICK k : k = idx[cur]
    OBVIOUS
  <1>3. /\ c \in Files /\ k \in Nat /\ Seg = guest[c].ph[k]
        /\ \A g \in Files : Segs(g)' = IF g = c THEN Segs(g) \cup {k} ELSE Segs(g)
        /\ \A g \in Files : \A i \in Segs(g) :
              SegAt(g, i)' = SegAt(g, i) /\ SegEnd(g, i)' = SegEnd(g, i)
        /\ SegAt(c, k)' = at
        /\ \A i \in Segs(c) : i < k
    BY <1>1, <1>2, StepSegs, Zenon
  <1>4. /\ guest' = guest /\ base' \in [Files -> Addr] /\ base'[c] # 0 /\ Offt(base'[c]) = 0
        /\ \A g \in Files : (g # c \/ Segs(g) # {}) => base'[g] = base[g]
        /\ Segs(c) = {} => at = base'[c] /\ Seg.offset = 0
    BY <1>1 DEF Step
  <1>5. base'[f] \in Nat
    BY <1>4, PagesAre
  <1>6. CASE f # c
    BY <1>3, <1>4, <1>5, <1>6 DEF Based
  <1>7. CASE f = c /\ Segs(c) = {}
    <2>1. Segs(f)' = {k}
      BY <1>3, <1>7
    <2> QED BY <2>1, <1>3, <1>4, <1>5, <1>7 DEF Based
  <1>8. CASE f = c /\ Segs(c) # {}
    <2>1. base'[f] = base[f] /\ base[f] # 0 /\ Segs(f)' # {}
      BY <1>3, <1>4, <1>8
    <2>2. ASSUME NEW i \in Segs(f)', \A j \in Segs(f)' : i <= j
          PROVE  SegAt(f, i)' = base'[f] /\ guest'[f].ph[i].offset = 0
      <3>1. i \in Segs(f) /\ \A j \in Segs(f) : i <= j
        <4>1. PICK j \in Segs(f) : j < k /\ i <= j
          BY <1>3, <1>8, <2>2
        <4>2. \A n \in Segs(f) : n \in Nat
          BY SegIs
        <4>3. i # k
          BY <4>1, <4>2, <1>3
        <4> QED BY <4>3, <1>3, <1>8, <2>2
      <3> QED BY <3>1, <2>1, <1>3, <1>4 DEF Based
    <2> QED BY <2>1, <2>2, <1>4, <1>5, <1>8 DEF Based
  <1> QED BY <1>6, <1>7, <1>8

\* Every segment is exact after the step, the new one included.
LEMMA StepExact ==
    ASSUME TypeOK, \A f \in Files : Based(f),
           \A f \in Files : \A i \in Segs(f) : SegEnd(f, i) <= Top,
           \A f \in Files : \A i \in Segs(f) : Apart => Exact(f, i),
           NEW at, Step(at), Apart', NEW f \in Files, NEW i \in Segs(f)'
    PROVE  Exact(f, i)'
  <1>1. PICK c : c = cur
    OBVIOUS
  <1>2. PICK k : k = idx[cur]
    OBVIOUS
  <1>3. /\ c \in Files /\ k \in Nat /\ Seg = guest[c].ph[k]
        /\ \A g \in Files : Segs(g)' = IF g = c THEN Segs(g) \cup {k} ELSE Segs(g)
        /\ \A g \in Files : \A j \in Segs(g) :
              SegAt(g, j)' = SegAt(g, j) /\ SegEnd(g, j)' = SegEnd(g, j)
        /\ SegAt(c, k)' = at /\ SegEnd(c, k)' = at + Seg.memsz
        /\ \A j \in Segs(c) : j < k
    BY <1>1, <1>2, StepSegs, Zenon
  <1>4. guest' = guest /\ Maps(at) /\ (base[c] = 0 <=> Segs(c) = {})
    BY <1>1 DEF Step
  <1>5. Apart
    BY <1>1, <1>2, StepExtent, Zenon
  <1>6. CASE i \in Segs(f)
    <2>1. Exact(f, i)
      BY <1>5, <1>6
    <2>2. /\ SegAt(f, i) \in Nat /\ SegEnd(f, i) \in Nat /\ SegEnd(f, i) <= Top
          /\ SegAt(f, i)' = SegAt(f, i) /\ SegEnd(f, i)' = SegEnd(f, i)
      BY <1>3, <1>6, SegIs
    <2> DEFINE near == PagesOf(at, at + Seg.memsz + 2 * PageSz)
    <2>3. \A p \in PagesOf(SegAt(f, i), SegEnd(f, i)) : p \notin near
      BY <1>1, <1>2, <1>6, StepFar
    <2>4. /\ \A x \in Addr : PageOf(x) \notin near => mem'[x] = mem[x]
          /\ \A p \in Pages : p \notin near => prot'[p] = prot[p]
      BY <1>4 DEF Maps
    <2> HIDE DEF near
    <2>5. \A x \in Bytes(SegAt(f, i), SegEnd(f, i)) : mem'[x] = mem[x]
      <3> TAKE x \in Bytes(SegAt(f, i), SegEnd(f, i))
      <3>1. x \in Addr /\ SegAt(f, i) <= x /\ x < SegEnd(f, i)
        BY <2>2, Consts DEF Bytes, Addr
      <3>2. PageOf(x) \in PagesOf(SegAt(f, i), SegEnd(f, i))
        BY <3>1, <2>2, ByteInPages
      <3> QED BY <3>1, <3>2, <2>3, <2>4
    <2>6. \A p \in PagesOf(SegAt(f, i), SegEnd(f, i)) : prot'[p] = prot[p]
      <3> TAKE p \in PagesOf(SegAt(f, i), SegEnd(f, i))
      <3>1. p \in Pages
        BY InPages
      <3> QED BY <3>1, <2>3, <2>4
    <2>7. i = First(f) => i = First(f)'
      <3> SUFFICES ASSUME i = First(f) PROVE First(f)' = i
        OBVIOUS
      <3>1. \A j \in Segs(f) : j \in Nat /\ i <= j
        BY <1>6, FirstIn, SegIs
      <3>2. Segs(f)' \subseteq Nat /\ i \in Segs(f)' /\ \A j \in Segs(f)' : i <= j
        BY <3>1, <1>3, <1>6
      <3> QED BY <3>2, MinIs DEF First
    <2>8. \A x : Wanted(f, i, x)' = Wanted(f, i, x)
      BY <2>2, <1>4 DEF Wanted
    <2> QED BY <2>1, <2>2, <2>5, <2>6, <2>7, <2>8, <1>4 DEF Exact
  <1>7. CASE i \notin Segs(f)
    <2>1. f = c /\ i = k
      BY <1>3, <1>7
    <2>2. /\ SegAt(f, i)' = at /\ SegEnd(f, i)' = at + Seg.memsz /\ Seg = guest[f].ph[i]
      BY <2>1, <1>3
    <2>3. base[c] = 0 => i = First(f)'
      <3> SUFFICES ASSUME base[c] = 0 PROVE First(f)' = i
        OBVIOUS
      <3>1. Segs(f)' = {i}
        BY <2>1, <1>3, <1>4
      <3>2. Min({i}) = i
        BY <2>1, <1>3, MinIs
      <3> QED BY <3>1, <3>2 DEF First
    <2>4. \A x \in Bytes(at, at + Seg.memsz) :
             \/ mem'[x] = IF x - at < Seg.filesz THEN <<cur, Seg.offset + (x - at)>> ELSE Zero
             \/ base[cur] = 0 /\ x >= at + Seg.filesz
      BY <1>4 DEF Maps
    <2>5. \A p \in PagesOf(at, at + Seg.memsz) :
             /\ ({"r"} \cup Seg.flags) \subseteq prot'[p]
             /\ p < PageOf((at + Seg.memsz) - 1) => prot'[p] = {"r"} \cup Seg.flags
      BY <1>4, Zenon DEF Maps
    <2>6. \A x : Wanted(f, i, x)' = IF x - at < Seg.filesz THEN <<f, Seg.offset + (x - at)>> ELSE Zero
      BY <2>2, <1>4 DEF Wanted
    <2>7. f = cur
      BY <2>1, <1>1
    <2>8. \A x \in Bytes(at, at + Seg.memsz) :
             mem'[x] = Wanted(f, i, x)' \/ (i = First(f)' /\ x >= at + Seg.filesz)
      BY <2>3, <2>4, <2>6, <2>7, <1>1
    <2>9. \A x \in Bytes(SegAt(f, i)', SegEnd(f, i)') :
             mem'[x] = Wanted(f, i, x)' \/ (i = First(f)' /\ x >= SegAt(f, i)' + guest'[f].ph[i].filesz)
      BY <2>2, <2>8, <1>4
    <2>10. \A p \in PagesOf(SegAt(f, i)', SegEnd(f, i)') :
              /\ ({"r"} \cup guest'[f].ph[i].flags) \subseteq prot'[p]
              /\ p < PageOf(SegEnd(f, i)' - 1) => prot'[p] = {"r"} \cup guest'[f].ph[i].flags
      BY <2>2, <2>5, <1>4, Zenon
    <2> QED BY <2>9, <2>10, Zenon DEF Exact
  <1> QED BY <1>6, <1>7

LEMMA StepTyped ==
    ASSUME TypeOK, NEW at, Step(at)
    PROVE  TypeOK'
  <1>1. /\ mem' \in [Addr -> Content] /\ prot' \in [Pages -> Perms] /\ base' \in [Files -> Addr]
        /\ UNCHANGED <<guest, linked, cur, phase, argv, envp, fd, rsp, stack, added, grown>>
        /\ idx' = [idx EXCEPT ![cur] = @ + 1]
    BY DEF Step, Maps, Advance
  <1>2. idx' \in [Files -> Nat \ {0}]
    BY <1>1 DEF TypeOK
  <1>3. vbrk' \in 0 .. (Top + 1)
    BY Consts DEF TypeOK, Step
  <1> QED BY <1>1, <1>2, <1>3 DEF TypeOK, Content, Perms

LEMMA StepAccounted ==
    ASSUME TypeOK, \A f \in Files : Based(f), Accounted, NEW at, Step(at)
    PROVE  Accounted'
  <1>1. PICK c : c = cur
    OBVIOUS
  <1>2. PICK k : k = idx[cur]
    OBVIOUS
  <1>3. /\ \A f \in Files : Extent(f) \subseteq Extent(f)'
        /\ PagesOf(at, at + Seg.memsz + 2 * PageSz) \subseteq Extent(c)'
        /\ HeapPages' = HeapPages
    BY <1>1, <1>2, StepExtent, Zenon
  <1>4. c \in Files
    BY <1>1 DEF TypeOK
  <1>5. \A p \in Pages : p \notin PagesOf(at, at + Seg.memsz + 2 * PageSz) => prot'[p] = prot[p]
    BY DEF Step, Maps
  <1>6. ASSUME NEW p \in Pages, prot'[p] # {}
        PROVE  p \in Extent("main")' \cup Extent("interp")' \cup HeapPages'
    <2>1. CASE p \in PagesOf(at, at + Seg.memsz + 2 * PageSz)
      BY <2>1, <1>3, <1>4 DEF Files
    <2>2. CASE p \notin PagesOf(at, at + Seg.memsz + 2 * PageSz)
      BY <2>2, <1>3, <1>5, <1>6 DEF Accounted, Files
    <2> QED BY <2>1, <2>2
  <1> QED BY <1>6 DEF Accounted

LEMMA StepBehind ==
    ASSUME TypeOK, \A f \in Files : Based(f), Accounted, Behind, Control, NEW at, Step(at)
    PROVE  Behind'
  <1>1. PICK c : c = cur
    OBVIOUS
  <1>2. PICK k : k = idx[cur]
    OBVIOUS
  <1>3. /\ c \in Files /\ k \in Nat /\ Seg = guest[c].ph[k]
        /\ \A g \in Files : Segs(g)' = IF g = c THEN Segs(g) \cup {k} ELSE Segs(g)
        /\ \A g \in Files : \A j \in Segs(g) : SegEnd(g, j)' = SegEnd(g, j)
        /\ SegEnd(c, k)' = at + Seg.memsz
        /\ \A j \in Segs(c) : j < k /\ SegEnd(c, j) <= Align(at)
        /\ Seg.memsz \in Nat
    BY <1>1, <1>2, StepSegs, Zenon
  <1>4. /\ \A f \in Files : Extent(f) \subseteq Extent(f)'
        /\ PagesOf(at, at + Seg.memsz + 2 * PageSz) \subseteq Extent(c)'
        /\ Apart' => Apart
        /\ BreakInside => BreakInside'
    BY <1>1, <1>2, StepExtent, Zenon
  <1>5. guest' = guest /\ at \in Nat /\ "main" \in Files /\ "interp" \in Files
    BY DEF Step, Files
  <1>6. SUFFICES ASSUME vbrk' # 0, ~BreakInside', Apart', NEW i \in Segs("main")', Followed(i)'
                 PROVE  SegEnd("main", i)' <= Align(vbrk')
    BY DEF Behind
  <1>7. PICK j \in Segs("main")' : j >= i /\ "w" \in guest["main"].ph[j].flags
    BY <1>5, <1>6 DEF Followed
  <1>8. \A n \in Segs("main") : n \in Nat
    BY <1>5, SegIs
  <1>9. CASE vbrk' = vbrk /\ (c = "interp" \/ "w" \notin Seg.flags)
    <2>1. j \in Segs("main")
      BY <1>3, <1>5, <1>7, <1>9
    <2>2. i \in Segs("main")
      <3>1. ASSUME c = "main", i = k PROVE FALSE
        BY <2>1, <3>1, <1>3, <1>7, <1>8
      <3> QED BY <3>1, <1>3, <1>5
    <2>3. Followed(i)
      BY <2>1, <1>7 DEF Followed
    <2>4. SegEnd("main", i) <= Align(vbrk)
      BY <2>2, <2>3, <1>4, <1>6, <1>9 DEF Behind
    <2> QED BY <2>2, <2>4, <1>3, <1>5, <1>9
  <1>10. CASE c = "main" /\ vbrk' \in Nat /\ at + Seg.memsz <= Align(vbrk')
    <2>1. CASE i = k
      BY <2>1, <1>3, <1>10
    <2>2. CASE i # k
      <3>1. i \in Segs("main")
        BY <2>2, <1>3, <1>5, <1>10
      <3>2. /\ SegEnd("main", i)' = SegEnd("main", i) /\ SegEnd("main", i) <= Align(at)
            /\ SegEnd("main", i) \in Nat
        BY <3>1, <1>3, <1>5, <1>10, SegIs
      <3>3. Align(at) \in Nat /\ Align(at) <= at /\ Align(vbrk') \in Nat
        BY <1>5, <1>10, AlignIs
      <3> QED BY <3>2, <3>3, <1>3, <1>5, <1>10
    <2> QED BY <2>1, <2>2
  <1>11. CASE /\ c = "main" /\ Segs(c) # {} /\ Seg.memsz = Seg.filesz /\ "w" \in Seg.flags
              /\ Past(Offt(Seg.vaddr) + Seg.filesz - 1) > Past(Seg.filesz)
    <2>1. k \in Segs("main")' /\ Segs("main")' \subseteq Nat /\ Segs("main")' # {}
      BY <1>3, <1>5, <1>8, <1>11
    <2>2. First("main")' # k
      <3>1. PICK n \in Segs("main")' : \A y \in Segs("main")' : n <= y
        BY <2>1, LeastIs
      <3>2. First("main")' = n
        BY <2>1, <3>1, MinIs DEF First
      <3>3. PICK y \in Segs("main") : y < k
        BY <1>3, <1>11
      <3>4. n <= y /\ n \in Nat /\ y \in Nat
        BY <2>1, <3>1, <3>3, <1>3, <1>5, <1>8
      <3> QED BY <3>2, <3>3, <3>4, <1>3
    <2>3. BreakInside'
      BY <2>1, <2>2, <1>3, <1>5, <1>11 DEF BreakInside
    <2> QED BY <2>3, <1>6
  <1>12. CASE /\ c = "main" /\ Segs(c) = {}
              /\ \E p \in PagesOf(at, at + Seg.memsz + 2 * PageSz) : prot[p] # {}
    <2>1. PICK p \in PagesOf(at, at + Seg.memsz + 2 * PageSz) : prot[p] # {}
      BY <1>12
    <2>2. p \in Pages
      BY InPages
    <2>3. grown = {}
      BY DEF Step, AtHeader, Control
    <2>4. HeapPages = {} /\ Extent("main") = {}
      BY <2>3, <1>12 DEF HeapPages, Extent
    <2>5. p \in Extent("interp")
      BY <2>1, <2>2, <2>4 DEF Accounted
    <2>6. p \in Extent("interp")' /\ p \in Extent("main")'
      BY <2>1, <2>5, <1>4, <1>5, <1>12
    <2> QED BY <2>6, <1>6 DEF Apart
  <1> QED BY <1>1, <1>9, <1>10, <1>11, <1>12 DEF Step

\* One more segment keeps the invariant.
LEMMA StepLoaded ==
    ASSUME Loaded, NEW at, Step(at)
    PROVE  Loaded'
  <1>0. /\ TypeOK /\ Accounted /\ Behind /\ Control /\ \A f \in Files : Based(f)
        /\ \A f \in Files : \A i \in Segs(f) : SegEnd(f, i) <= Top
    BY DEF Loaded, Image
  <1>1. grown = {} /\ phase = "map" /\ phase' = "map" /\ grown' = {}
    BY <1>0 DEF Step, AtHeader, Control
  <1>2. \A f \in Files : \A i \in Segs(f) : Apart => Exact(f, i)
    BY <1>1 DEF Loaded, Image, OutOfReach
  <1>3. TypeOK'
    BY <1>0, StepTyped
  <1>4. \A f \in Files : Based(f)'
    BY <1>0, StepBased
  <1>5. ASSUME NEW f \in Files, NEW i \in Segs(f)' PROVE SegEnd(f, i)' <= Top
    <2>1. PICK c : c = cur
      OBVIOUS
    <2>2. PICK k : k = idx[cur]
      OBVIOUS
    <2>3. /\ \A g \in Files : Segs(g)' = IF g = c THEN Segs(g) \cup {k} ELSE Segs(g)
          /\ \A g \in Files : \A j \in Segs(g) : SegEnd(g, j)' = SegEnd(g, j)
          /\ SegEnd(c, k)' = at + Seg.memsz
      BY <1>0, <2>1, <2>2, StepSegs, Zenon
    <2>4. at + Seg.memsz <= Top
      BY DEF Step, Maps
    <2> QED BY <1>0, <2>3, <2>4
  <1>6. ASSUME NEW f \in Files, NEW i \in Segs(f)', Apart' PROVE Exact(f, i)'
    BY <1>0, <1>2, <1>6, StepExact, Zenon
  <1>7. Accounted' /\ Behind'
    BY <1>0, StepAccounted, StepBehind, Zenon
  <1>8. Control'
    <2>1. linked' = linked /\ guest' = guest /\ idx' = [idx EXCEPT ![cur] = @ + 1]
      BY DEF Step, Advance
    <2>2. idx["interp"] \in Nat /\ idx'["interp"] \in Nat /\ idx'["interp"] >= idx["interp"]
      BY <2>1, <1>0 DEF TypeOK, Files
    <2>3. guest["interp"].ph \in Seq(Headers)
      BY <1>0, GuestIs DEF TypeOK, Files, Images
    <2>4. Len(guest["interp"].ph) \in Nat
      BY <2>3
    <2>5. cur = "interp" => idx'["main"] = idx["main"]
      BY <2>1, <1>0 DEF TypeOK, Files
    <2>6. cur' = cur
      BY DEF Step
    <2> QED BY <2>1, <2>2, <2>4, <2>5, <2>6, <1>0, <1>1 DEF Control
  <1> QED BY <1>3, <1>4, <1>5, <1>6, <1>7, <1>8 DEF Loaded, Image

----------------------------------------------------------------------------
(* The steps that leave the image alone, and the heap.                     *)

LEMMA SamePlaces ==
    ASSUME guest' = guest, base' = base, \A f \in Files : Segs(f)' = Segs(f)
    PROVE  /\ \A f \in Files : \A i : SegAt(f, i)' = SegAt(f, i) /\ SegEnd(f, i)' = SegEnd(f, i)
           /\ \A f \in Files : First(f)' = First(f) /\ Extent(f)' = Extent(f)
           /\ \A f \in Files : Based(f)' <=> Based(f)
           /\ BreakInside' <=> BreakInside
           /\ \A i : Followed(i)' <=> Followed(i)
  <1>1. \A f \in Files : \A i : SegAt(f, i)' = SegAt(f, i) /\ SegEnd(f, i)' = SegEnd(f, i)
    BY DEF SegAt, SegEnd
  <1>2. \A f \in Files : First(f)' = First(f)
    BY DEF First
  <1>3. \A f \in Files : Extent(f)' = Extent(f)
    BY <1>1 DEF Extent
  <1>4. \A f \in Files : Based(f)' <=> Based(f)
    BY <1>1 DEF Based
  <1>5. "main" \in Files
    BY DEF Files
  <1>6. BreakInside' <=> BreakInside
    BY <1>2, <1>5 DEF BreakInside
  <1>7. \A i : Followed(i)' <=> Followed(i)
    BY <1>5 DEF Followed
  <1> QED BY <1>1, <1>2, <1>3, <1>4, <1>6, <1>7

LEMMA SameImage ==
    ASSUME Image, guest' = guest, base' = base, mem' = mem, prot' = prot, vbrk' = vbrk,
           grown' = grown, \A f \in Files : Segs(f)' = Segs(f)
    PROVE  Image'
  <1>1. /\ \A f \in Files : \A i : SegAt(f, i)' = SegAt(f, i) /\ SegEnd(f, i)' = SegEnd(f, i)
        /\ \A f \in Files : First(f)' = First(f) /\ Extent(f)' = Extent(f)
        /\ \A f \in Files : Based(f)' <=> Based(f)
        /\ BreakInside' <=> BreakInside
        /\ \A i : Followed(i)' <=> Followed(i)
    BY SamePlaces, Zenon
  <1>2. HeapPages' = HeapPages /\ "main" \in Files /\ "interp" \in Files
    BY DEF HeapPages, Files
  <1>3. Apart' <=> Apart
    BY <1>1, <1>2 DEF Apart
  <1>4. \A f \in Files : \A i : OutOfReach(f, i)' <=> OutOfReach(f, i)
    BY <1>1 DEF OutOfReach
  <1>5. \A f \in Files : \A i, x : Wanted(f, i, x)' = Wanted(f, i, x)
    BY <1>1 DEF Wanted
  <1>6. \A f \in Files : \A i : Exact(f, i)' <=> Exact(f, i)
    BY <1>1, <1>5 DEF Exact
  <1>7. Accounted'
    BY <1>1, <1>2 DEF Image, Accounted
  <1>8. Behind'
    BY <1>1, <1>2, <1>3 DEF Image, Behind
  <1> QED BY <1>1, <1>3, <1>4, <1>6, <1>7, <1>8 DEF Image

\* A segment stays exact where its pages are left alone.
LEMMA ExactKept ==
    ASSUME TypeOK, NEW f \in Files, Based(f), NEW i \in Segs(f), SegEnd(f, i) <= Top, Exact(f, i),
           guest' = guest, base' = base, Segs(f)' = Segs(f),
           \A x \in Addr : PageOf(x) \in PagesOf(SegAt(f, i), SegEnd(f, i)) => mem'[x] = mem[x],
           \A p \in PagesOf(SegAt(f, i), SegEnd(f, i)) : prot'[p] = prot[p]
    PROVE  Exact(f, i)'
  <1>1. SegAt(f, i)' = SegAt(f, i) /\ SegEnd(f, i)' = SegEnd(f, i) /\ First(f)' = First(f)
    BY DEF SegAt, SegEnd, First
  <1>2. SegAt(f, i) \in Nat /\ SegEnd(f, i) \in Nat
    BY SegIs
  <1>3. \A x \in Bytes(SegAt(f, i), SegEnd(f, i)) : mem'[x] = mem[x]
    <2> TAKE x \in Bytes(SegAt(f, i), SegEnd(f, i))
    <2>1. x \in Addr /\ SegAt(f, i) <= x /\ x < SegEnd(f, i)
      BY <1>2, Consts DEF Bytes, Addr
    <2>2. PageOf(x) \in PagesOf(SegAt(f, i), SegEnd(f, i))
      BY <2>1, <1>2, ByteInPages
    <2> QED BY <2>1, <2>2
  <1>4. \A x : Wanted(f, i, x)' = Wanted(f, i, x)
    BY <1>1 DEF Wanted
  <1> QED BY <1>1, <1>3, <1>4 DEF Exact

LEMMA ModLess ==
    ASSUME NEW n \in Nat \ {0}, NEW a \in Nat
    PROVE  a % n \in Nat /\ a % n <= a
  OBVIOUS

\* hook_brk maps no more than the pages from the old break to the new one, and one
\* page more: pages of the heap.
LEMMA HeapGrows ==
    ASSUME TypeOK, NEW a \in Nat, Sbrk(a)
    PROVE  LET at == Align(vbrk)
               end == at + Heap!MapLen(a)
           IN /\ at \in Nat /\ end \in Nat /\ end <= Top /\ vbrk \in Nat /\ vbrk < a /\ a < Top
              /\ PagesOf(at, end) \subseteq HeapPages'
              /\ HeapPages \subseteq HeapPages' /\ grown' # {} /\ grown' \subseteq Addr
  <1> DEFINE at == Align(vbrk)
             len == Heap!MapLen(a)
             end == at + len
             top == at + Align(a - vbrk)
  <1>1. /\ vbrk \in Nat /\ a < Top /\ ~(a <= vbrk) /\ end <= Top
        /\ grown' = grown \cup Bytes(vbrk, a) /\ grown \subseteq Addr
    BY Consts DEF Sbrk, TypeOK, Heap!Aborts
  <1>2. a - vbrk \in Nat /\ vbrk < a
    BY <1>1
  <1>3. U \in Nat \ {0}
    BY ProcessAssumption
  <1> DEFINE size == (a - vbrk) % U
  <1>4. size \in Nat /\ size <= a - vbrk
    BY <1>2, <1>3, ModLess
  <1>5. len = Past(size) % U
    <2>1. Heap!Align(size) = Align(size)
      BY DEF Heap!Align, Heap!Offt, Align, Offt
    <2>2. Align(size) \in Nat /\ Past(size) = Align(size) + PageSz
      BY <1>4, AlignIs
    <2>3. Heap!Round(size) = Align(size) + PageSz - 1
      BY <2>1 DEF Heap!Round
    <2>4. Heap!Round(size) + 1 = Past(size)
      BY <2>2, <2>3, Consts
    <2>5. Heap!BrkSize(a) = size
      BY DEF Heap!BrkSize
    <2> HIDE DEF size
    <2> QED BY <2>4, <2>5 DEF Heap!MapLen
  <1> HIDE DEF len, size
  <1>6. len \in Nat /\ len <= Past(size)
    BY <1>3, <1>4, <1>5, PastIs, ModLess
  <1>7. Past(size) <= Align(a - vbrk) + PageSz /\ Past(size) \in Nat
    BY <1>2, <1>4, AlignMono, AlignIs
  <1>8. /\ at \in Nat /\ Offt(at) = 0 /\ at <= vbrk /\ vbrk < at + PageSz
        /\ Align(a - vbrk) \in Nat /\ Align(a - vbrk) <= a - vbrk /\ Offt(Align(a - vbrk)) = 0
    BY <1>1, <1>2, AlignIs
  <1>9. /\ end \in Nat /\ top \in Nat /\ Offt(top) = 0 /\ top <= a /\ end <= top + PageSz
        /\ Offt(top + PageSz) = 0
    <2>1. Offt(top) = 0 /\ top \in Nat
      BY <1>8, AlignSum
    <2>2. Past(top) = top + PageSz /\ Offt(Past(top)) = 0
      BY <2>1, AlignIs, Aligned
    <2> QED BY <2>1, <2>2, <1>1, <1>2, <1>6, <1>7, <1>8, Consts
  <1> HIDE DEF at, end, top
  <1>10. \A x \in Bytes(vbrk, a) : PageOf(x) \in HeapPages' /\ PageOf(x) + 1 \in HeapPages'
    BY <1>1 DEF HeapPages
  <1>11. ASSUME NEW p \in PagesOf(at, end) PROVE p \in HeapPages'
    <2>1. p \in Pages /\ Lo(p) < end /\ Lo(p) + PageSz > at /\ p \in Nat /\ Lo(p) \in Nat /\ Offt(Lo(p)) = 0
      BY InPages, PagesAre
    <2>2. at <= Lo(p)
      BY <2>1, <1>8, Gap, Consts
    <2>3. Lo(p) + PageSz <= top + PageSz
      BY <2>1, <1>9, Gap, Consts
    <2>4. Lo(p) <= a
      BY <2>1, <2>3, <1>9, Consts
    <2>5. CASE Lo(p) < a /\ vbrk <= Lo(p)
      <3>1. Lo(p) \in Bytes(vbrk, a)
        BY <2>1, <2>5, <1>1 DEF Bytes
      <3>2. PageOf(Lo(p)) = p
        BY <2>1, PageIs, Consts
      <3> QED BY <3>1, <3>2, <1>10
    <2>6. CASE Lo(p) < vbrk
      <3>1. vbrk \in Bytes(vbrk, a)
        BY <1>1, <1>2 DEF Bytes
      <3>2. PageOf(vbrk) = p
        BY <2>1, <2>2, <2>6, <1>1, <1>8, PageIs, Consts
      <3> QED BY <3>1, <3>2, <1>10
    <2>7. CASE Lo(p) = a
      <3>1. a - 1 \in Bytes(vbrk, a) /\ a - 1 \in Nat
        BY <1>1, <1>2 DEF Bytes
      <3>2. p # 0
        BY <2>7, <1>1, Consts DEF Lo
      <3>3. p - 1 \in Nat /\ Lo(p) = Lo(p - 1) + PageSz /\ Lo(p - 1) \in Nat
        <4>1. p - 1 \in Nat /\ (p - 1) + 1 = p
          BY <2>1, <3>2
        <4> QED BY <4>1, LoIs
      <3>4. PageOf(a - 1) = p - 1
        BY <2>7, <3>1, <3>3, PageIs, Consts
      <3>5. (p - 1) + 1 = p
        BY <2>1
      <3> QED BY <3>1, <3>4, <3>5, <1>10
    <2> QED BY <2>1, <2>4, <2>5, <2>6, <2>7, <1>1
  <1>12. HeapPages \subseteq HeapPages'
    BY <1>1 DEF HeapPages
  <1>13. grown' # {} /\ grown' \subseteq Addr
    <2>1. vbrk \in Bytes(vbrk, a)
      BY <1>1, <1>2 DEF Bytes
    <2>2. Bytes(vbrk, a) \subseteq Addr
      BY <1>1, Consts DEF Bytes, Addr
    <2> QED BY <2>1, <2>2, <1>1
  <1> QED BY <1>1, <1>2, <1>8, <1>9, <1>11, <1>12, <1>13 DEF at, end, len

\* A larger heap leaves alone every segment that is out of its reach.
LEMMA SbrkImage ==
    ASSUME TypeOK, Image, NEW a \in Nat, Sbrk(a)
    PROVE  TypeOK' /\ Image'
  <1> DEFINE at == Align(vbrk)
             end == at + Heap!MapLen(a)
             W == PagesOf(at, end)
  <1>1. /\ at \in Nat /\ end \in Nat /\ end <= Top /\ vbrk \in Nat /\ vbrk < a /\ a < Top
        /\ W \subseteq HeapPages'
        /\ HeapPages \subseteq HeapPages' /\ grown' # {} /\ grown' \subseteq Addr
    BY HeapGrows, Zenon
  <1>2. /\ mem' = SetZero(mem, at, end) /\ prot' = SetProt(prot, at, end, {"r", "w"}) /\ vbrk' = a
        /\ UNCHANGED <<guest, base, linked, cur, idx, phase, argv, envp, fd, rsp, stack, added>>
        /\ vbrk # 0
    BY DEF Sbrk
  <1> HIDE DEF at, end
  <1>3. \A x \in Addr : mem'[x] = IF x \in Bytes(at, end) THEN Zero ELSE mem[x]
    BY <1>2 DEF SetZero
  <1>4. \A p \in Pages : prot'[p] = IF p \in W THEN {"r", "w"} ELSE prot[p]
    BY <1>2 DEF SetProt
  <1>5. TypeOK'
    <2>1. mem' \in [Addr -> Content]
      <3>1. mem \in [Addr -> Content] /\ Zero \in Content
        BY DEF TypeOK, Content
      <3> QED BY <3>1, <1>2 DEF SetZero
    <2>2. prot' \in [Pages -> Perms]
      <3>1. prot \in [Pages -> Perms] /\ {"r", "w"} \in Perms
        BY DEF TypeOK, Perms
      <3> QED BY <3>1, <1>2 DEF SetProt
    <2>3. vbrk' \in 0 .. (Top + 1)
      BY <1>1, <1>2, Consts
    <2> QED BY <2>1, <2>2, <2>3, <1>1, <1>2 DEF TypeOK, Content, Perms
  <1>6. \A f \in Files : Segs(f)' = Segs(f)
    BY <1>2 DEF Segs
  <1>7. /\ \A f \in Files : \A i : SegAt(f, i)' = SegAt(f, i) /\ SegEnd(f, i)' = SegEnd(f, i)
        /\ \A f \in Files : First(f)' = First(f) /\ Extent(f)' = Extent(f)
        /\ \A f \in Files : Based(f)' <=> Based(f)
        /\ BreakInside' <=> BreakInside
        /\ \A i : Followed(i)' <=> Followed(i)
    BY <1>2, <1>6, SamePlaces, Zenon
  <1>8. "main" \in Files /\ "interp" \in Files /\ \A f \in Files : f = "main" \/ f = "interp"
    BY DEF Files
  <1>9. Apart' => Apart
    BY <1>1, <1>7, <1>8 DEF Apart
  <1>10. /\ Offt(at) = 0 /\ Align(vbrk) = at /\ at <= Align(vbrk')
    BY <1>1, <1>2, AlignIs, AlignMono DEF at
  <1>11. ASSUME NEW f \in Files, NEW i \in Segs(f), Apart', OutOfReach(f, i)'
         PROVE  \A p \in PagesOf(SegAt(f, i), SegEnd(f, i)) : p \notin W
    <2> TAKE p \in PagesOf(SegAt(f, i), SegEnd(f, i))
    <2>1. CASE f = "interp"
      <3>1. p \in Extent("interp")
        BY <2>1, OwnPages DEF Image
      <3> QED BY <3>1, <1>1, <1>7, <1>8, <1>11 DEF Apart
    <2>2. CASE f # "interp"
      <3>1. f = "main" /\ ~BreakInside /\ Followed(i)
        BY <2>2, <1>1, <1>7, <1>8, <1>11 DEF OutOfReach
      <3>2. SegEnd("main", i) <= at
        BY <3>1, <1>2, <1>9, <1>10, <1>11 DEF Image, Behind
      <3>3. p \in Pages /\ Lo(p) < SegEnd(f, i) /\ Lo(p) \in Nat /\ Offt(Lo(p)) = 0
        BY InPages, PagesAre
      <3>4. SegEnd(f, i) \in Nat
        BY SegIs DEF Image
      <3>5. Lo(p) + PageSz <= at
        BY <3>1, <3>2, <3>3, <3>4, <1>1, <1>10, Gap
      <3> QED BY <3>3, <3>5, <1>1, InPages, Consts
    <2> QED BY <2>1, <2>2
  <1>12. ASSUME NEW f \in Files, NEW i \in Segs(f), Apart', OutOfReach(f, i)'
         PROVE  Exact(f, i)'
    <2>1. Based(f) /\ SegEnd(f, i) <= Top
      BY DEF Image
    <2>2. OutOfReach(f, i)
      BY <1>1, <1>7, <1>12 DEF OutOfReach
    <2>3. Exact(f, i)
      BY <2>2, <1>9, <1>12 DEF Image
    <2>4. \A p \in PagesOf(SegAt(f, i), SegEnd(f, i)) : p \notin W
      BY <1>11, <1>12
    <2>5. \A p \in PagesOf(SegAt(f, i), SegEnd(f, i)) : prot'[p] = prot[p]
      <3> TAKE p \in PagesOf(SegAt(f, i), SegEnd(f, i))
      <3>1. p \in Pages
        BY InPages
      <3> QED BY <3>1, <2>4, <1>4
    <2>6. \A x \in Addr : PageOf(x) \in PagesOf(SegAt(f, i), SegEnd(f, i)) => mem'[x] = mem[x]
      <3> SUFFICES ASSUME NEW x \in Addr, PageOf(x) \notin W PROVE mem'[x] = mem[x]
        BY <2>4
      <3>1. x \notin Bytes(at, end)
        <4>1. ASSUME x \in Bytes(at, end) PROVE PageOf(x) \in W
          BY <4>1, <1>1, ByteInPages DEF Bytes
        <4> QED BY <4>1
      <3> QED BY <3>1, <1>3
    <2> QED BY <2>1, <2>3, <2>5, <2>6, <1>2, <1>6, ExactKept
  <1>13. Accounted'
    <2> SUFFICES ASSUME NEW p \in Pages, prot'[p] # {}
                 PROVE  p \in Extent("main")' \cup Extent("interp")' \cup HeapPages'
      BY DEF Accounted
    <2>1. CASE p \in W
      BY <2>1, <1>1
    <2>2. CASE p \notin W
      BY <2>2, <1>1, <1>4, <1>7, <1>8 DEF Image, Accounted
    <2> QED BY <2>1, <2>2
  <1>14. Behind'
    <2> SUFFICES ASSUME ~BreakInside', Apart', NEW i \in Segs("main")', Followed(i)'
                 PROVE  SegEnd("main", i)' <= Align(vbrk')
      BY DEF Behind
    <2>1. i \in Segs("main") /\ Followed(i) /\ SegEnd("main", i)' = SegEnd("main", i)
      BY <1>6, <1>7, <1>8
    <2>2. SegEnd("main", i) <= at
      BY <2>1, <1>2, <1>7, <1>9, <1>10 DEF Image, Behind
    <2>3. SegEnd("main", i) \in Nat /\ Align(vbrk') \in Nat
      <3>1. SegEnd("main", i) \in Nat
        BY <2>1, <1>8, SegIs DEF Image
      <3> QED BY <3>1, <1>2, AlignIs
    <2> QED BY <2>1, <2>2, <2>3, <1>1, <1>10
  <1> QED BY <1>5, <1>6, <1>7, <1>12, <1>13, <1>14 DEF Image

----------------------------------------------------------------------------
(* The stack.                                                              *)

Stacks == [0 .. (StackWords - 1) -> Nat]

\* The command line is sequences of pointers that are not NULL.
LEMMA CommandIs ==
    ASSUME TypeOK
    PROVE  /\ argv \in Seq(Nat \ {0}) /\ envp \in Seq(Nat \ {0}) /\ fd \in Nat
           /\ Len(argv) \in Nat /\ Len(argv) > 0 /\ Len(envp) \in Nat
           /\ \A i \in 1 .. Len(argv) : argv[i] \in Nat /\ argv[i] # 0
           /\ \A i \in 1 .. Len(envp) : envp[i] \in Nat /\ envp[i] # 0
  <1> DEFINE c == [argv |-> argv, envp |-> envp, fd |-> fd]
  <1>1. c \in Commands
    BY DEF TypeOK
  <1>2. c.argv = argv /\ c.envp = envp /\ c.fd = fd
    OBVIOUS
  <1> HIDE DEF c
  <1>3. c \in [argv : Seq(Nat \ {0}), envp : Seq(Nat \ {0}), fd : Nat] /\ c.argv # <<>>
    BY <1>1, ProcessAssumption
  <1>4. argv \in Seq(Nat \ {0}) /\ envp \in Seq(Nat \ {0}) /\ fd \in Nat /\ argv # <<>>
    BY <1>2, <1>3
  <1>5. /\ Len(argv) \in Nat /\ Len(argv) > 0 /\ Len(envp) \in Nat
    BY <1>4
  <1>6. \A i \in 1 .. Len(argv) : argv[i] \in Nat \ {0}
    BY <1>4
  <1>7. \A i \in 1 .. Len(envp) : envp[i] \in Nat \ {0}
    BY <1>4
  <1> QED BY <1>4, <1>5, <1>6, <1>7

\* Once every header is done, every segment of the file is mapped, and its base
\* and its entry are not NULL.
LEMMA AllMapped ==
    ASSUME TypeOK, NEW f \in Files, Based(f), idx[f] > Len(guest[f].ph)
    PROVE  /\ Segs(f) = Loads(guest[f]) /\ Segs(f) # {}
           /\ base[f] \in Nat /\ base[f] # 0
           /\ EntryOf(f) \in Nat /\ EntryOf(f) # 0
           /\ Len(guest[f].ph) \in Nat /\ Len(guest[f].ph) # 0
           /\ guest[f].phoff \in Nat
  <1>1. guest \in Programs /\ idx \in [Files -> Nat \ {0}]
    BY DEF TypeOK
  <1>2. guest[f] \in Images /\ IsImage(guest[f])
    BY <1>1, GuestIs
  <1>3. guest[f].ph \in Seq(Headers) /\ guest[f].phoff \in Nat /\ guest[f].entry \in Nat
        /\ guest[f].pie \in BOOLEAN
    BY <1>2 DEF Images
  <1>4. Len(guest[f].ph) \in Nat /\ idx[f] \in Nat
    BY <1>1, <1>3
  <1>5. \A i \in Loads(guest[f]) : i \in Nat /\ i > 0 /\ i <= Len(guest[f].ph) /\ i < idx[f]
    <2> TAKE i \in Loads(guest[f])
    <2>1. i \in Nat /\ i > 0 /\ i <= Len(guest[f].ph)
      BY <1>2, LoadIs
    <2> QED BY <2>1, <1>4
  <1>6. Segs(f) = Loads(guest[f])
    BY <1>1, <1>5, SegsAre
  <1>7. PICK e \in Loads(guest[f]) :
           guest[f].entry \in guest[f].ph[e].vaddr .. (guest[f].ph[e].vaddr + guest[f].ph[e].filesz - 1)
    BY <1>2 DEF IsImage
  <1>8. Len(guest[f].ph) # 0
    BY <1>4, <1>5, <1>7
  <1>9. Segs(f) # {} /\ base[f] \in Nat /\ base[f] # 0
    BY <1>6, <1>7 DEF Based
  <1>10. EntryOf(f) \in Nat /\ EntryOf(f) # 0
    <2>1. CASE guest[f].pie
      BY <2>1, <1>3, <1>9 DEF EntryOf
    <2>2. CASE ~guest[f].pie
      <3>1. EntryOf(f) = guest[f].entry
        BY <2>2 DEF EntryOf
      <3>2. SegAt(f, e) = guest[f].ph[e].vaddr /\ SegAt(f, e) \in Nat
        <4>1. guest[f].ph[e].vaddr \in Nat
          BY <1>2, LoadIs
        <4> QED BY <2>2, <4>1 DEF SegAt
      <3>3. guest[f].entry >= SegAt(f, e)
        <4>1. guest[f].ph[e].vaddr \in Nat /\ guest[f].ph[e].filesz \in Nat
          BY <1>2, LoadIs
        <4> QED BY <3>2, <4>1, <1>7
      <3>4. First(f) \in Segs(f) /\ \A j \in Segs(f) : First(f) <= j
        BY <1>9, FirstIn
      <3>5. SegAt(f, First(f)) = base[f]
        BY <3>4 DEF Based
      <3>6. SegAt(f, e) >= base[f]
        <4>1. CASE e = First(f)
          BY <4>1, <3>2, <3>5, <1>9
        <4>2. CASE e # First(f)
          <5>1. First(f) < e /\ e \in Segs(f)
            BY <4>2, <3>4, <1>5, <1>6
          <5>2. /\ SegEnd(f, First(f)) <= Align(SegAt(f, e)) /\ SegEnd(f, First(f)) \in Nat
                /\ SegAt(f, First(f)) < SegEnd(f, First(f))
            BY <5>1, <3>4, SegIs
          <5>3. Align(SegAt(f, e)) \in Nat /\ Align(SegAt(f, e)) <= SegAt(f, e)
            BY <3>2, AlignIs
          <5> QED BY <5>2, <5>3, <3>2, <3>5, <1>9
        <4> QED BY <4>1, <4>2
      <3> QED BY <3>1, <3>2, <3>3, <3>6, <1>3, <1>9
    <2> QED BY <2>1, <2>2, <1>3
  <1> QED BY <1>3, <1>4, <1>6, <1>8, <1>9, <1>10

\* Everything is mapped that the auxiliary vector speaks of.
Ready == idx["main"] > Len(guest["main"].ph) /\ (linked => idx["interp"] > Len(guest["interp"].ph))

\* The calls of add_auxvt: pairs of numbers, of which none is 0 in the first 14
\* unless the guest's file is descriptor 0.
LEMMA AuxCallsAre ==
    ASSUME TypeOK, \A f \in Files : Based(f), Ready
    PROVE  /\ Len(AuxCalls) = 16
           /\ \A j \in 1 .. 16 : AuxCalls[j] = <<AuxCalls[j][1], AuxCalls[j][2]>>
                                 /\ AuxCalls[j][1] \in Nat /\ AuxCalls[j][2] \in Nat
           /\ fd # 0 => \A j \in 1 .. 14 : AuxCalls[j][1] # 0 /\ AuxCalls[j][2] # 0
           /\ AuxCalls[15] = <<23, 0>> /\ AuxCalls[16] = <<0, 0>>
           /\ AuxCalls[1] = <<9, EntryOf("main")>>
           /\ AuxCalls[7] = <<3, base["main"] + guest["main"].phoff>>
           /\ \A j \in 1 .. 15 : (AuxCalls[j][1] = 9 => j = 1) /\ (AuxCalls[j][1] = 3 => j = 7)
  <1> DEFINE b == IF linked THEN base["interp"] ELSE base["main"]
             e == EntryOf("main")
             n == Len(guest["main"].ph)
             h == base["main"] + guest["main"].phoff
             a == argv[1]
  <1>1. "main" \in Files /\ "interp" \in Files
    BY DEF Files
  <1>2. /\ base["main"] \in Nat /\ base["main"] # 0 /\ e \in Nat /\ e # 0 /\ n \in Nat /\ n # 0
        /\ guest["main"].phoff \in Nat
    BY <1>1, AllMapped DEF Ready
  <1>3. linked => base["interp"] \in Nat /\ base["interp"] # 0
    BY <1>1, AllMapped DEF Ready
  <1>4. /\ e \in Nat \ {0} /\ n \in Nat \ {0} /\ b \in Nat \ {0} /\ h \in Nat \ {0}
        /\ a \in Nat \ {0} /\ fd \in Nat
    BY <1>2, <1>3, CommandIs
  <1>5. Random \in Nat \ {0} /\ Arch \in Nat \ {0} /\ PageSz \in Nat \ {0}
    BY ProcessAssumption, Consts
  <1>6. AuxCalls = << <<9, e>>, <<2, fd>>, <<4, 56>>, <<5, n>>,
                      <<7, b>>, <<25, Random>>, <<3, h>>, <<15, Arch>>,
                      <<14, 1000>>, <<12, 1000>>, <<13, 1000>>, <<11, 1000>>,
                      <<6, PageSz>>, <<31, a>>, <<23, 0>>, <<0, 0>> >>
    BY DEF AuxCalls
  <1> HIDE DEF e, n, b, h, a
  <1>7. /\ Len(AuxCalls) = 16
        /\ AuxCalls[1] = <<9, e>> /\ AuxCalls[2] = <<2, fd>> /\ AuxCalls[3] = <<4, 56>>
        /\ AuxCalls[4] = <<5, n>> /\ AuxCalls[5] = <<7, b>> /\ AuxCalls[6] = <<25, Random>>
        /\ AuxCalls[7] = <<3, h>> /\ AuxCalls[8] = <<15, Arch>> /\ AuxCalls[9] = <<14, 1000>>
        /\ AuxCalls[10] = <<12, 1000>> /\ AuxCalls[11] = <<13, 1000>> /\ AuxCalls[12] = <<11, 1000>>
        /\ AuxCalls[13] = <<6, PageSz>> /\ AuxCalls[14] = <<31, a>>
        /\ AuxCalls[15] = <<23, 0>> /\ AuxCalls[16] = <<0, 0>>
    BY <1>6
  <1>8. \A j \in 1 .. 16 : \/ j = 1 \/ j = 2 \/ j = 3 \/ j = 4 \/ j = 5 \/ j = 6 \/ j = 7 \/ j = 8
                           \/ j = 9 \/ j = 10 \/ j = 11 \/ j = 12 \/ j = 13 \/ j = 14 \/ j = 15
                           \/ j = 16
    OBVIOUS
  <1>9. \A j \in 1 .. 16 : AuxCalls[j] = <<AuxCalls[j][1], AuxCalls[j][2]>>
                           /\ AuxCalls[j][1] \in Nat /\ AuxCalls[j][2] \in Nat
    BY <1>4, <1>5, <1>7, <1>8
  <1>10. fd # 0 => \A j \in 1 .. 14 : AuxCalls[j][1] # 0 /\ AuxCalls[j][2] # 0
    <2> SUFFICES ASSUME fd # 0, NEW j \in 1 .. 14 PROVE AuxCalls[j][1] # 0 /\ AuxCalls[j][2] # 0
      OBVIOUS
    <2>1. \/ j = 1 \/ j = 2 \/ j = 3 \/ j = 4 \/ j = 5 \/ j = 6 \/ j = 7 \/ j = 8
          \/ j = 9 \/ j = 10 \/ j = 11 \/ j = 12 \/ j = 13 \/ j = 14
      OBVIOUS
    <2> QED BY <2>1, <1>4, <1>5, <1>7
  <1>11. \A j \in 1 .. 15 : (AuxCalls[j][1] = 9 => j = 1) /\ (AuxCalls[j][1] = 3 => j = 7)
    <2> TAKE j \in 1 .. 15
    <2>1. \/ j = 1 \/ j = 2 \/ j = 3 \/ j = 4 \/ j = 5 \/ j = 6 \/ j = 7 \/ j = 8
          \/ j = 9 \/ j = 10 \/ j = 11 \/ j = 12 \/ j = 13 \/ j = 14 \/ j = 15
      OBVIOUS
    <2> QED BY <2>1, <1>7
  <1> QED BY <1>7, <1>9, <1>10, <1>11 DEF e, h

\* add_auxvt writes two numbers, wherever that is.
LEMMA AddTyped ==
    ASSUME NEW s \in Stacks, NEW k, NEW id \in Nat, NEW val \in Nat
    PROVE  AddAuxvt(s, k, id, val) \in Stacks
  <1> DEFINE i == AuxFree(s, k)
  <1>1. AddAuxvt(s, k, id, val) = [s EXCEPT ![i] = id, ![i + 1] = val]
    BY DEF AddAuxvt
  <1> HIDE DEF i
  <1> QED BY <1>1 DEF Stacks

\* add_auxvt writes at the first place where two words are 0.
LEMMA AddsAt ==
    ASSUME NEW s \in Stacks, NEW k \in Nat, NEW f \in k .. (StackWords - 2),
           NEW id \in Nat, NEW val \in Nat,
           s[f] = 0, s[f + 1] = 0, \A j \in k .. (f - 1) : s[j] # 0 \/ s[j + 1] # 0
    PROVE  \A j \in 0 .. (StackWords - 1) :
              AddAuxvt(s, k, id, val)[j] = IF j = f THEN id ELSE IF j = f + 1 THEN val ELSE s[j]
  <1> DEFINE P(i) == /\ s[i] = 0 /\ s[i + 1] = 0
                     /\ \A j \in k .. (i - 1) : s[j] # 0 \/ s[j + 1] # 0
  <1>0. StackWords \in Nat
    BY StackAssumption
  <1>1. P(f)
    OBVIOUS
  <1>2. ASSUME NEW i \in k .. (StackWords - 2), P(i) PROVE i = f
    <2>1. CASE i < f
      <3>1. i \in k .. (f - 1)
        BY <2>1, <1>0
      <3> QED BY <3>1, <1>2
    <2>2. CASE f < i
      <3>1. f \in k .. (i - 1)
        BY <2>2, <1>0
      <3> QED BY <3>1, <1>2
    <2> QED BY <2>1, <2>2, <1>0
  <1>3. AuxFree(s, k) = CHOOSE i \in k .. (StackWords - 2) : P(i)
    BY DEF AuxFree
  <1> HIDE DEF P
  <1>4. AuxFree(s, k) = f
    BY <1>1, <1>2, <1>3
  <1>5. AddAuxvt(s, k, id, val) = [s EXCEPT ![f] = id, ![f + 1] = val]
    BY <1>4 DEF AddAuxvt
  <1>6. f \in Nat
    BY <1>0
  <1> QED BY <1>5, <1>6 DEF Stacks

\* setup_stack: argc, the arguments, NULL, the environment, and zeroes.
LEMMA CopiedIs ==
    ASSUME NEW a \in Seq(Nat \ {0}), NEW e \in Seq(Nat \ {0}),
           AuxAt(a, e) < StackWords
    PROVE  LET c == Copied(a, e)
               n == Len(a)
           IN /\ c \in Stacks
              /\ c[0] = n
              /\ \A i \in 1 .. n : c[i] = a[i]
              /\ c[n + 1] = 0
              /\ \A i \in 1 .. Len(e) : c[n + 1 + i] = e[i]
              /\ \A i \in (n + 2 + Len(e)) .. (StackWords - 1) : c[i] = 0
  <1> DEFINE n == Len(a)
             m == Len(e)
             c0 == [Fresh EXCEPT ![0] = n]
             c1 == MapVal(c0, 1, a)
             c2 == MapVal(c1, n + 2, e)
             W == 0 .. (StackWords - 1)
  <1>1. n \in Nat /\ m \in Nat /\ StackWords \in Nat /\ n + m + 3 < StackWords
    BY StackAssumption DEF AuxAt, EnvAt
  <1>2. /\ \A i \in 1 .. n : a[i] \in Nat
        /\ \A i \in 1 .. m : e[i] \in Nat
    OBVIOUS
  <1>3. Copied(a, e) = c2
    BY DEF Copied, EnvAt
  <1>4. c0 = [i \in W |-> IF i = 0 THEN n ELSE 0]
    BY DEF Fresh
  <1>5. c1 = [i \in W |-> IF i \in 1 .. (1 + n - 1) THEN a[i - 1 + 1] ELSE c0[i]]
    BY <1>4 DEF MapVal
  <1> HIDE DEF c0
  <1>6. c2 = [i \in W |-> IF i \in (n + 2) .. (n + 2 + m - 1) THEN e[i - (n + 2) + 1] ELSE c1[i]]
    BY <1>5 DEF MapVal
  <1> HIDE DEF c1, c2
  <1>7. \A i \in W : c0[i] \in Nat /\ (i # 0 => c0[i] = 0)
    BY <1>1, <1>4
  <1>8. \A i \in W : c1[i] \in Nat /\ (i \in 1 .. n => c1[i] = a[i]) /\ (i \notin 1 .. n => c1[i] = c0[i])
    BY <1>1, <1>2, <1>5, <1>7
  <1>9. \A i \in W : /\ c2[i] \in Nat
                     /\ i \in (n + 2) .. (n + 1 + m) => c2[i] = e[i - n - 1]
                     /\ i \notin (n + 2) .. (n + 1 + m) => c2[i] = c1[i]
    BY <1>1, <1>2, <1>6, <1>8
  <1>10. c2 \in Stacks
    BY <1>6, <1>9 DEF Stacks
  <1> HIDE DEF n, m
  <1>11. c2[0] = n
    <2>1. 0 \in W /\ 0 \notin 1 .. n /\ 0 \notin (n + 2) .. (n + 1 + m)
      BY <1>1
    <2> QED BY <2>1, <1>4, <1>8, <1>9
  <1>12. \A i \in 1 .. n : c2[i] = a[i]
    <2> TAKE i \in 1 .. n
    <2>1. i \in W /\ i \notin (n + 2) .. (n + 1 + m)
      BY <1>1
    <2> QED BY <2>1, <1>8, <1>9
  <1>13. \A i \in W : i = n + 1 \/ i >= n + 2 + m => c2[i] = 0
    <2> SUFFICES ASSUME NEW i \in W, i = n + 1 \/ i >= n + 2 + m PROVE c2[i] = 0
      OBVIOUS
    <2>1. i # 0 /\ i \notin 1 .. n /\ i \notin (n + 2) .. (n + 1 + m)
      BY <1>1
    <2> QED BY <2>1, <1>7, <1>8, <1>9
  <1>14. \A i \in 1 .. m : c2[n + 1 + i] = e[i]
    <2> TAKE i \in 1 .. m
    <2>1. n + 1 + i \in W /\ n + 1 + i \in (n + 2) .. (n + 1 + m) /\ (n + 1 + i) - n - 1 = i
      BY <1>1
    <2> QED BY <2>1, <1>9
  <1>15. n + 1 \in W /\ \A i \in (n + 2 + m) .. (StackWords - 1) : i \in W /\ i >= n + 2 + m
    BY <1>1
  <1> QED BY <1>3, <1>10, <1>11, <1>12, <1>13, <1>14, <1>15 DEF n, m

\* The stack after n calls of add_auxvt.  AT_SECURE ends with a word of 0, which the
\* last call, AT_NULL, takes for the first of its own two.
Filled(n) ==
    LET k == AuxAt(argv, envp) IN
    /\ stack[0] = Len(argv) /\ stack[Len(argv) + 1] = 0 /\ stack[k - 1] = 0
    /\ \A i \in 1 .. Len(argv) : stack[i] = argv[i]
    /\ \A i \in 1 .. Len(envp) : stack[Len(argv) + 1 + i] = envp[i]
    /\ \A j \in 1 .. 15 : j <= n => /\ stack[k + 2 * j - 2] = AuxCalls[j][1]
                                    /\ stack[k + 2 * j - 1] = AuxCalls[j][2]
    /\ \A i \in k .. (StackWords - 1) : i >= k + 2 * n \/ i >= k + 30 => stack[i] = 0

\* How far setup_stack is.
StackInv ==
    /\ phase \in {"open", "map", "mapped"} => added = 0 /\ ~rsp
    /\ phase = "aux" => rsp /\ added < 16
    /\ rsp => phase \in {"aux", "run"} /\ Fits(argv, envp, AuxCalls)
    /\ phase = "run" /\ rsp => added = 16
    /\ rsp /\ fd # 0 => Filled(added)

\* The inductive invariant.
IInv == Loaded /\ StackInv

\* As long as there is no stack, nothing is to be kept but that.
LEMMA NoStackYet ==
    ASSUME StackInv, phase \in {"open", "map", "mapped"}, phase' # "aux",
           rsp' = rsp, added' = added
    PROVE  StackInv'
  <1>1. added = 0 /\ ~rsp
    BY DEF StackInv
  <1> QED BY <1>1 DEF StackInv

\* Once there is one, nothing but add_auxvt changes it.
LEMMA SameStack ==
    ASSUME StackInv, phase' = phase,
           UNCHANGED <<guest, base, linked, argv, envp, fd, rsp, stack, added>>
    PROVE  StackInv'
  <1>1. AuxCalls' = AuxCalls
    BY DEF AuxCalls, EntryOf
  <1>2. Filled(added)' <=> Filled(added)
    BY <1>1 DEF Filled
  <1>3. Fits(argv, envp, AuxCalls)' <=> Fits(argv, envp, AuxCalls)
    BY <1>1 DEF Fits
  <1> QED BY <1>2, <1>3 DEF StackInv

LEMMA ReadyWhen ==
    ASSUME Loaded, phase \in {"mapped", "aux", "run", "segv"}
    PROVE  Ready /\ TypeOK /\ \A f \in Files : Based(f)
  BY DEF Loaded, Control, Ready, Image

\* Where the auxiliary vector is.
LEMMA AuxPlace ==
    ASSUME TypeOK, \A f \in Files : Based(f), Ready, Fits(argv, envp, AuxCalls)
    PROVE  /\ AuxAt(argv, envp) \in Nat /\ AuxAt(argv, envp) = Len(argv) + Len(envp) + 3
           /\ AuxAt(argv, envp) + 32 <= StackWords /\ StackWords \in Nat
           /\ Len(argv) \in Nat /\ Len(envp) \in Nat
  <1>1. Len(AuxCalls) = 16
    BY AuxCallsAre
  <1>2. Len(argv) \in Nat /\ Len(envp) \in Nat
    BY CommandIs
  <1>3. AuxAt(argv, envp) = Len(argv) + Len(envp) + 3
    BY <1>2 DEF AuxAt, EnvAt
  <1> QED BY <1>1, <1>2, <1>3, StackAssumption DEF Fits

\* setup_stack: everything but the auxiliary vector.
LEMMA SetupFills ==
    ASSUME IInv, SetupStack
    PROVE  StackInv' /\ stack' \in Stacks
  <1>1. /\ phase = "mapped" /\ Fits(argv, envp, AuxCalls) /\ stack' = Copied(argv, envp)
        /\ rsp' = TRUE /\ phase' = "aux" /\ added' = added
        /\ UNCHANGED <<guest, base, linked, argv, envp, fd>>
    BY DEF SetupStack
  <1>2. Ready /\ TypeOK /\ \A f \in Files : Based(f)
    BY <1>1, ReadyWhen DEF IInv
  <1>3. added = 0
    BY <1>1 DEF IInv, StackInv
  <1> DEFINE k == AuxAt(argv, envp)
             n == Len(argv)
             m == Len(envp)
  <1>4. k \in Nat /\ k = n + m + 3 /\ k + 32 <= StackWords /\ StackWords \in Nat /\ n \in Nat /\ m \in Nat
    BY <1>1, <1>2, AuxPlace
  <1>5. argv \in Seq(Nat \ {0}) /\ envp \in Seq(Nat \ {0})
    BY <1>2, CommandIs
  <1>6. k < StackWords
    BY <1>4
  <1>7. /\ stack' \in Stacks /\ stack'[0] = n /\ \A i \in 1 .. n : stack'[i] = argv[i]
        /\ stack'[n + 1] = 0 /\ \A i \in 1 .. m : stack'[n + 1 + i] = envp[i]
        /\ \A i \in (n + 2 + m) .. (StackWords - 1) : stack'[i] = 0
    BY <1>1, <1>5, <1>6, CopiedIs
  <1>8. AuxCalls' = AuxCalls
    BY <1>1 DEF AuxCalls, EntryOf
  <1>9. Filled(added)'
    <2> HIDE DEF k, n, m
    <2>1. k - 1 \in (n + 2 + m) .. (StackWords - 1)
      BY <1>4
    <2>2. \A i \in k .. (StackWords - 1) : i \in (n + 2 + m) .. (StackWords - 1)
      BY <1>4
    <2>3. \A j \in 1 .. 15 : ~(j <= 0)
      OBVIOUS
    <2>4. AuxAt(argv, envp)' = k
      BY <1>1 DEF k, AuxAt, EnvAt
    <2>5. added' = 0
      BY <1>1, <1>3
    <2> QED BY <2>1, <2>2, <2>3, <2>4, <2>5, <1>1, <1>7 DEF Filled, n, m
  <1>10. Fits(argv, envp, AuxCalls)'
    BY <1>1, <1>8 DEF Fits, AuxAt, EnvAt
  <1> QED BY <1>1, <1>3, <1>7, <1>9, <1>10 DEF StackInv

\* The first place where two words are 0 is the one behind the pairs so far, and for
\* AT_NULL the last word of AT_SECURE.
LEMMA FreePlace ==
    ASSUME TypeOK, \A f \in Files : Based(f), Ready, Fits(argv, envp, AuxCalls), fd # 0,
           NEW n \in 0 .. 15, Filled(n)
    PROVE  LET k == AuxAt(argv, envp)
               f == IF n = 15 THEN k + 29 ELSE k + 2 * n
           IN /\ f \in k .. (StackWords - 2) /\ stack[f] = 0 /\ stack[f + 1] = 0
              /\ \A j \in k .. (f - 1) : stack[j] # 0 \/ stack[j + 1] # 0
  <1> DEFINE k == AuxAt(argv, envp)
             f == IF n = 15 THEN k + 29 ELSE k + 2 * n
  <1>1. k \in Nat /\ k + 32 <= StackWords /\ StackWords \in Nat
    BY AuxPlace
  <1>2. /\ \A j \in 1 .. 14 : AuxCalls[j][1] # 0 /\ AuxCalls[j][2] # 0
        /\ AuxCalls[15] = <<23, 0>>
    BY AuxCallsAre
  <1>3. /\ \A j \in 1 .. 15 : j <= n => /\ stack[k + 2 * j - 2] = AuxCalls[j][1]
                                        /\ stack[k + 2 * j - 1] = AuxCalls[j][2]
        /\ \A i \in k .. (StackWords - 1) : i >= k + 2 * n \/ i >= k + 30 => stack[i] = 0
    BY DEF Filled
  <1> HIDE DEF k
  <1>4. f \in k .. (StackWords - 2) /\ f \in Nat /\ f + 1 \in k .. (StackWords - 1)
    BY <1>1
  <1>5. n = 15 => stack[k + 28] = 23 /\ stack[k + 29] = 0
    <2>1. 15 \in 1 .. 15 /\ k + 2 * 15 - 2 = k + 28 /\ k + 2 * 15 - 1 = k + 29
      BY <1>1
    <2> QED BY <2>1, <1>2, <1>3
  <1>6. stack[f] = 0 /\ stack[f + 1] = 0
    <2>1. CASE n = 15
      <3>1. k + 30 \in k .. (StackWords - 1) /\ f = k + 29 /\ f + 1 = k + 30
        BY <2>1, <1>1
      <3> QED BY <2>1, <3>1, <1>1, <1>3, <1>5
    <2>2. CASE n # 15
      <3>1. f = k + 2 * n /\ f >= k + 2 * n /\ f + 1 >= k + 2 * n /\ f \in k .. (StackWords - 1)
        BY <2>2, <1>1, <1>4
      <3> QED BY <3>1, <1>3, <1>4
    <2> QED BY <2>1, <2>2
  <1>7. ASSUME NEW j \in k .. (f - 1) PROVE stack[j] # 0 \/ stack[j + 1] # 0
    <2>1. CASE n = 15 /\ j = k + 28
      BY <2>1, <1>5
    <2>2. CASE ~(n = 15 /\ j = k + 28)
      <3>1. PICK i \in 1 .. 14 : i <= n /\ (j = k + 2 * i - 2 \/ j = k + 2 * i - 1)
        <4> DEFINE i == ((j - k) \div 2) + 1
        <4>1. j - k \in Nat /\ j - k < 2 * n /\ j - k < 28
          BY <2>2, <1>1
        <4>2. (j - k) \div 2 \in Nat /\ (j - k = 2 * ((j - k) \div 2) \/ j - k = 2 * ((j - k) \div 2) + 1)
          BY <4>1
        <4>3. i \in 1 .. 14 /\ i <= n /\ (j = k + 2 * i - 2 \/ j = k + 2 * i - 1)
          BY <4>1, <4>2, <1>1
        <4> QED BY <4>3
      <3>2. i \in 1 .. 15
        OBVIOUS
      <3> QED BY <3>1, <3>2, <1>2, <1>3
    <2> QED BY <2>1, <2>2
  <1> QED BY <1>4, <1>6, <1>7 DEF k

\* One more call of add_auxvt.
LEMMA AddFills ==
    ASSUME IInv, AddAux
    PROVE  StackInv' /\ stack' \in Stacks /\ added' \in 0 .. 16
  <1> DEFINE k == AuxAt(argv, envp)
             n == added
  <1>1. /\ phase = "aux" /\ added' = n + 1
        /\ stack' = AddAuxvt(stack, k, AuxCalls[n + 1][1], AuxCalls[n + 1][2])
        /\ phase' = IF n + 1 = Len(AuxCalls) THEN "run" ELSE "aux"
        /\ UNCHANGED <<guest, base, linked, argv, envp, fd, rsp>>
    BY DEF AddAux
  <1>2. Ready /\ TypeOK /\ \A f \in Files : Based(f)
    BY <1>1, ReadyWhen DEF IInv
  <1>3. /\ rsp /\ n < 16 /\ Fits(argv, envp, AuxCalls) /\ (fd # 0 => Filled(n))
        /\ n \in 0 .. 16 /\ stack \in Stacks
    BY <1>1, <1>2 DEF IInv, StackInv, TypeOK, Stacks
  <1>4. n \in 0 .. 15 /\ n + 1 \in 1 .. 16
    BY <1>3
  <1>5. k \in Nat /\ k + 32 <= StackWords /\ StackWords \in Nat
        /\ k = Len(argv) + Len(envp) + 3 /\ Len(argv) \in Nat /\ Len(envp) \in Nat
    BY <1>2, <1>3, AuxPlace
  <1>6. /\ Len(AuxCalls) = 16 /\ AuxCalls[16] = <<0, 0>>
        /\ AuxCalls[n + 1][1] \in Nat /\ AuxCalls[n + 1][2] \in Nat
    BY <1>2, <1>4, AuxCallsAre
  <1>7. stack' \in Stacks
    BY <1>1, <1>3, <1>6, AddTyped
  <1>8. AuxCalls' = AuxCalls /\ AuxAt(argv, envp)' = k
    BY <1>1 DEF AuxCalls, EntryOf, AuxAt, EnvAt
  <1>9. ASSUME fd # 0 PROVE Filled(added)'
    <2> DEFINE f == IF n = 15 THEN k + 29 ELSE k + 2 * n
               c == AuxCalls
    <2>1. /\ f \in k .. (StackWords - 2) /\ stack[f] = 0 /\ stack[f + 1] = 0
          /\ \A j \in k .. (f - 1) : stack[j] # 0 \/ stack[j + 1] # 0
      BY <1>2, <1>3, <1>4, <1>9, FreePlace
    <2>2. Filled(n)
      BY <1>3, <1>9
    <2> HIDE DEF f, k, n
    <2>3. \A j \in 0 .. (StackWords - 1) :
             stack'[j] = IF j = f THEN c[n + 1][1] ELSE IF j = f + 1 THEN c[n + 1][2] ELSE stack[j]
      <3>1. PICK id \in Nat, val \in Nat : id = c[n + 1][1] /\ val = c[n + 1][2]
        BY <1>6
      <3>2. stack \in Stacks /\ k \in Nat
        BY <1>3, <1>5
      <3>3. \A j \in 0 .. (StackWords - 1) :
               AddAuxvt(stack, k, id, val)[j] = IF j = f THEN id ELSE IF j = f + 1 THEN val ELSE stack[j]
        BY <2>1, <3>2, AddsAt
      <3>4. stack' = AddAuxvt(stack, k, id, val)
        BY <3>1, <1>1
      <3> QED BY <3>1, <3>3, <3>4
    <2>4. /\ stack[0] = Len(argv) /\ stack[Len(argv) + 1] = 0 /\ stack[k - 1] = 0
          /\ \A i \in 1 .. Len(argv) : stack[i] = argv[i]
          /\ \A i \in 1 .. Len(envp) : stack[Len(argv) + 1 + i] = envp[i]
          /\ \A j \in 1 .. 15 : j <= n => /\ stack[k + 2 * j - 2] = c[j][1]
                                          /\ stack[k + 2 * j - 1] = c[j][2]
          /\ \A i \in k .. (StackWords - 1) : i >= k + 2 * n \/ i >= k + 30 => stack[i] = 0
      BY <2>2 DEF Filled, k
    <2> HIDE DEF c
    <2>5. f >= k /\ f \in Nat /\ (n # 15 => f = k + 2 * n) /\ (n = 15 => f = k + 29) /\ n \in Nat /\ n <= 15
      BY <2>1, <1>4, <1>5 DEF f
    <2>6. \A j \in 0 .. (k - 1) : j \in 0 .. (StackWords - 1) /\ stack'[j] = stack[j]
      BY <2>3, <2>5, <1>5
    <2>7. stack'[0] = Len(argv) /\ stack'[Len(argv) + 1] = 0 /\ stack'[k - 1] = 0
      <3>1. 0 \in 0 .. (k - 1) /\ Len(argv) + 1 \in 0 .. (k - 1) /\ k - 1 \in 0 .. (k - 1)
        BY <1>5
      <3> QED BY <3>1, <2>4, <2>6
    <2>8. \A i \in 1 .. Len(argv) : stack'[i] = argv[i]
      BY <2>4, <2>6, <1>5
    <2>9. \A i \in 1 .. Len(envp) : stack'[Len(argv) + 1 + i] = envp[i]
      <3> TAKE i \in 1 .. Len(envp)
      <3>1. Len(argv) + 1 + i \in 0 .. (k - 1)
        BY <1>5
      <3> QED BY <3>1, <2>4, <2>6
    <2>10. n = 15 => c[n + 1][1] = 0 /\ c[n + 1][2] = 0
      BY <1>6, <2>5 DEF c
    <2>11. ASSUME NEW j \in 1 .. 15, j <= n + 1
           PROVE  stack'[k + 2 * j - 2] = c[j][1] /\ stack'[k + 2 * j - 1] = c[j][2]
      <3>1. k + 2 * j - 2 \in 0 .. (StackWords - 1) /\ k + 2 * j - 1 \in 0 .. (StackWords - 1)
        BY <1>5
      <3>2. CASE j <= n /\ n # 15
        <4>1. k + 2 * j - 2 # f /\ k + 2 * j - 2 # f + 1 /\ k + 2 * j - 1 # f /\ k + 2 * j - 1 # f + 1
          BY <3>2, <2>5, <1>5
        <4> QED BY <4>1, <3>1, <3>2, <2>3, <2>4
      <3>3. CASE n = 15
        <4>1. stack'[f] = stack[f] /\ stack'[f + 1] = stack[f + 1]
          BY <3>3, <2>1, <2>3, <2>5, <2>10, <1>5
        <4>2. \A i \in 0 .. (StackWords - 1) : stack'[i] = stack[i]
          BY <4>1, <2>3
        <4>3. j <= n
          BY <3>3
        <4>4. stack[k + 2 * j - 2] = c[j][1] /\ stack[k + 2 * j - 1] = c[j][2]
          BY <4>3, <2>4
        <4> QED BY <4>2, <4>4, <3>1
      <3>4. CASE j = n + 1 /\ n # 15
        <4>1. k + 2 * j - 2 = f /\ k + 2 * j - 1 = f + 1
          BY <3>4, <2>5, <1>5
        <4> QED BY <4>1, <3>1, <3>4, <2>3, <2>5
      <3> QED BY <2>5, <2>11, <3>2, <3>3, <3>4
    <2>12. ASSUME NEW i \in k .. (StackWords - 1), i >= k + 2 * (n + 1) \/ i >= k + 30
           PROVE  stack'[i] = 0
      <3>1. i \in 0 .. (StackWords - 1)
        BY <1>5
      <3>2. i >= k + 2 * n \/ i >= k + 30
        BY <2>5, <2>12, <1>5
      <3>3. CASE n = 15
        BY <3>1, <3>2, <3>3, <2>3, <2>4, <2>10
      <3>4. CASE n # 15
        <4>1. i # f /\ i # f + 1
          BY <3>4, <2>5, <2>12, <1>5
        <4> QED BY <4>1, <3>1, <3>2, <2>3, <2>4
      <3> QED BY <3>3, <3>4
    <2>13. AuxCalls' = c /\ AuxAt(argv, envp)' = k /\ added' = n + 1 /\ argv' = argv /\ envp' = envp
      BY <1>1, <1>8 DEF c, n
    <2> QED BY <2>7, <2>8, <2>9, <2>11, <2>12, <2>13 DEF Filled
  <1>10. Fits(argv, envp, AuxCalls)'
    BY <1>3, <1>8 DEF Fits
  <1>11. added' \in 0 .. 16 /\ (phase' = "run" => added' = 16) /\ (phase' = "aux" => added' < 16)
         /\ phase' \in {"aux", "run"}
    BY <1>1, <1>4, <1>6
  <1> QED BY <1>1, <1>3, <1>7, <1>9, <1>10, <1>11 DEF StackInv

----------------------------------------------------------------------------
(* The invariant holds.                                                    *)

\* A step that moves on in the file, or from one phase to the next.
LEMMA MovesOn ==
    ASSUME Loaded, UNCHANGED <<guest, mem, prot, base, vbrk, argv, envp, fd, grown>>,
           linked' \in BOOLEAN, cur' \in Files, idx' \in [Files -> Nat \ {0}], phase' \in Phases,
           rsp' \in BOOLEAN, stack' \in Stacks, added' \in 0 .. 16,
           \A f \in Files : Segs(f)' = Segs(f), Control'
    PROVE  Loaded'
  <1>1. Image'
    BY SameImage DEF Loaded
  <1>2. TypeOK'
    BY DEF Loaded, TypeOK, Stacks
  <1> QED BY <1>1, <1>2 DEF Loaded

\* A step that only goes from one phase to the next.
LEMMA PhaseMoves ==
    ASSUME Loaded, UNCHANGED <<guest, mem, prot, base, vbrk, linked, cur, idx, argv, envp, fd, grown>>,
           phase' \in Phases, phase # "run",
           phase' \in {"mapped", "aux", "run", "segv"} => idx["main"] > Len(guest["main"].ph),
           rsp' \in BOOLEAN, stack' \in Stacks, added' \in 0 .. 16
    PROVE  Loaded'
  <1>1. \A f \in Files : Segs(f)' = Segs(f)
    BY DEF Segs
  <1>2. Control'
    BY DEF Loaded, Control
  <1>3. linked' \in BOOLEAN /\ cur' \in Files /\ idx' \in [Files -> Nat \ {0}]
    BY DEF Loaded, TypeOK
  <1> QED BY <1>1, <1>2, <1>3, MovesOn

\* Going past a header that is no PT_LOAD maps nothing.
LEMMA PassesBy ==
    ASSUME TypeOK, NEW c \in Files, guest' = guest, idx' = [idx EXCEPT ![c] = @ + 1],
           guest[c].ph[idx[c]].type # "load"
    PROVE  /\ \A f \in Files : Segs(f)' = Segs(f)
           /\ idx' \in [Files -> Nat \ {0}]
  <1>1. idx \in [Files -> Nat \ {0}]
    BY DEF TypeOK
  <1>2. idx' \in [Files -> Nat \ {0}]
    BY <1>1
  <1>3. ASSUME NEW f \in Files PROVE Segs(f)' = Segs(f)
    <2>1. CASE f # c
      <3>1. idx'[f] = idx[f]
        BY <2>1, <1>1
      <3> QED BY <3>1 DEF Segs
    <2>2. CASE f = c
      <3>1. idx'[f] = idx[f] + 1 /\ idx[f] \in Nat
        BY <2>2, <1>1
      <3>2. \A i : i \in 1 .. (idx'[f] - 1) => i \in 1 .. (idx[f] - 1) \/ i = idx[f]
        BY <3>1
      <3>3. \A i : i \in 1 .. (idx[f] - 1) => i \in 1 .. (idx'[f] - 1)
        BY <3>1
      <3>4. guest[f].ph[idx[f]].type # "load"
        BY <2>2
      <3> QED BY <3>2, <3>3, <3>4, Zenon DEF Segs
    <2> QED BY <2>1, <2>2
  <1> QED BY <1>2, <1>3

LEMMA InitHolds == Init => IInv
  <1> SUFFICES ASSUME Init PROVE IInv
    OBVIOUS
  <1>1. /\ guest \in Programs /\ mem = [a \in Addr |-> Gone] /\ prot = [p \in Pages |-> {}]
        /\ base = [f \in Files |-> 0] /\ vbrk = 0 /\ linked = FALSE /\ cur = "main"
        /\ idx = [f \in Files |-> 1] /\ phase = "open"
        /\ rsp = FALSE /\ stack = Fresh /\ added = 0 /\ grown = {}
    BY DEF Init, LoadInit
  <1>2. [argv |-> argv, envp |-> envp, fd |-> fd] \in Commands
    <2>1. PICK c \in Commands : argv = c.argv /\ envp = c.envp /\ fd = c.fd
      BY DEF Init
    <2>2. c \in [argv : Seq(Nat \ {0}), envp : Seq(Nat \ {0}), fd : Nat]
      BY ProcessAssumption
    <2>3. c = [argv |-> c.argv, envp |-> c.envp, fd |-> c.fd]
      BY <2>2
    <2> QED BY <2>1, <2>3
  <1>3. 0 \in Addr /\ "main" \in Files /\ "interp" \in Files
    BY LoaderAssumption DEF Addr, Files
  <1>4. TypeOK
    <2>1. mem \in [Addr -> (Files \X Nat) \cup {Zero, Gone}]
      BY <1>1
    <2>2. prot \in [Pages -> SUBSET {"r", "w", "x"}]
      BY <1>1
    <2>3. base \in [Files -> Addr] /\ idx \in [Files -> Nat \ {0}]
      BY <1>1, <1>3
    <2>4. vbrk \in 0 .. (Top + 1) /\ phase \in Phases /\ added \in 0 .. 16
      BY <1>1, Consts DEF Phases
    <2>5. stack \in [0 .. (StackWords - 1) -> Nat]
      BY <1>1 DEF Fresh
    <2> QED BY <2>1, <2>2, <2>3, <2>4, <2>5, <1>1, <1>2, <1>3 DEF TypeOK
  <1>5. \A f \in Files : Segs(f) = {} /\ base[f] = 0
    BY <1>1 DEF Segs
  <1>6. \A f \in Files : Based(f)
    <2>1. Offt(0) = 0
      BY LoIs, Consts DEF Lo
    <2> QED BY <2>1, <1>5 DEF Based
  <1>7. Accounted /\ Behind
    BY <1>1 DEF Accounted, Behind
  <1>8. Image
    BY <1>5, <1>6, <1>7 DEF Image
  <1>9. Control /\ StackInv
    BY <1>1 DEF Control, StackInv
  <1> QED BY <1>4, <1>8, <1>9 DEF IInv, Loaded

\* map_binary keeps the invariant.
LEMMA LoadKeeps == IInv /\ Load => IInv'
  <1> SUFFICES ASSUME IInv, Load PROVE IInv'
    OBVIOUS
  <1>1. LoadNext /\ Rest
    BY DEF Load, Rest
  <1>2. /\ Loaded /\ StackInv /\ TypeOK /\ Image /\ Control /\ cur \in Files
        /\ guest \in Programs /\ idx \in [Files -> Nat \ {0}] /\ Based(cur)
    BY DEF IInv, Loaded, Image, TypeOK
  <1>3. /\ UNCHANGED <<argv, envp, fd, rsp, stack, added, grown>>
        /\ rsp' \in BOOLEAN /\ stack' \in Stacks /\ added' \in 0 .. 16
    BY <1>1, <1>2 DEF Rest, TypeOK, Stacks
  <1>4. "main" \in Files /\ "interp" \in Files /\ \A f \in Files : f = "main" \/ f = "interp"
    BY DEF Files
  <1>5. CASE InitAnalysis \/ InitFails \/ MapFails
    <2>1. /\ phase \in {"open", "map"} /\ phase' \in {"map", "failed"}
          /\ UNCHANGED <<guest, mem, prot, base, vbrk, linked, cur, idx>>
      BY <1>5 DEF InitAnalysis, InitFails, MapFails, AtHeader
    <2>2. Loaded'
      BY <2>1, <1>2, <1>3, PhaseMoves DEF Phases
    <2>3. StackInv'
      BY <2>1, <1>2, <1>3, NoStackYet
    <2> QED BY <2>2, <2>3 DEF IInv
  <1>6. CASE LoadInterp
    <2>1. /\ AtHeader("interp") /\ phase = "map" /\ phase' \in {"open", "failed"}
          /\ cur' = cur \/ cur' = "interp"
          /\ UNCHANGED <<guest, mem, prot, base, vbrk, linked, idx>>
      BY <1>6 DEF LoadInterp, AtHeader
    <2>2. guest[cur].ph[idx[cur]].type = "interp" /\ idx[cur] \in DOMAIN guest[cur].ph
      <3>1. guest[cur].ph \in Seq(Headers)
        BY <1>2, GuestIs DEF Images
      <3>2. idx[cur] \in Nat \ {0} /\ idx[cur] <= Len(guest[cur].ph)
        BY <2>1, <1>2 DEF AtHeader, File
      <3>3. idx[cur] \in DOMAIN guest[cur].ph
        BY <3>1, <3>2
      <3> QED BY <2>1, <3>3 DEF AtHeader, Seg, File
    <2>3. cur = "main"
      <3>1. \A i \in DOMAIN guest["interp"].ph : guest["interp"].ph[i].type # "interp"
        BY <1>2, LoaderAssumption
      <3> QED BY <2>2, <3>1, <1>2, <1>4
    <2>4. \A f \in Files : Segs(f)' = Segs(f)
      BY <2>1 DEF Segs
    <2>5. Control'
      <3>1. guest["main"].ph[idx["main"]].type # "load"
        BY <2>2, <2>3
      <3> QED BY <2>1, <3>1, <1>2, <1>3 DEF Control
    <2>6. linked' \in BOOLEAN /\ cur' \in Files /\ idx' \in [Files -> Nat \ {0}] /\ phase' \in Phases
      BY <2>1, <1>2, <1>4 DEF TypeOK, Phases
    <2>7. Loaded'
      BY <2>1, <2>4, <2>5, <2>6, <1>2, <1>3, MovesOn
    <2>8. StackInv'
      BY <2>1, <1>2, <1>3, NoStackYet
    <2> QED BY <2>7, <2>8 DEF IInv
  <1>7. CASE Skip
    <2>1. /\ phase = "map" /\ phase' = "map" /\ guest[cur].ph[idx[cur]].type # "load"
          /\ idx' = [idx EXCEPT ![cur] = @ + 1]
          /\ UNCHANGED <<guest, mem, prot, base, vbrk, linked, cur>>
      BY <1>7 DEF Skip, AtHeader, Advance, Seg, File
    <2>2. (\A f \in Files : Segs(f)' = Segs(f)) /\ idx' \in [Files -> Nat \ {0}]
      <3>1. PICK c \in Files : c = cur
        BY <1>2
      <3> QED BY <2>1, <3>1, <1>2, PassesBy
    <2>3. Control'
      <3>1. cur = "interp" => idx'["main"] = idx["main"]
        BY <2>1, <1>2, <1>4
      <3>2. linked => idx'["interp"] > Len(guest["interp"].ph)
        <4>1. idx["interp"] \in Nat /\ idx'["interp"] \in Nat /\ idx'["interp"] >= idx["interp"]
          BY <2>1, <1>2, <1>4
        <4>2. guest["interp"].ph \in Seq(Headers)
          BY <1>2, <1>4, GuestIs DEF Images
        <4>3. Len(guest["interp"].ph) \in Nat
          BY <4>2
        <4> QED BY <4>1, <4>3, <1>2 DEF Control
      <3> QED BY <2>1, <3>1, <3>2, <1>2, <1>3 DEF Control
    <2>4. linked' \in BOOLEAN /\ cur' \in Files /\ phase' \in Phases
      BY <2>1, <1>2 DEF TypeOK, Phases
    <2>5. Loaded'
      BY <2>1, <2>2, <2>3, <2>4, <1>2, <1>3, MovesOn
    <2>6. StackInv'
      BY <2>1, <1>2, <1>3, NoStackYet
    <2> QED BY <2>5, <2>6 DEF IInv
  <1>8. CASE MapDone
    <2>1. /\ phase = "map" /\ phase' \in {"map", "mapped"} /\ idx[cur] > Len(guest[cur].ph)
          /\ UNCHANGED <<guest, mem, prot, base, vbrk>>
      BY <1>8 DEF MapDone, File
    <2>2. StackInv'
      BY <2>1, <1>2, <1>3, NoStackYet
    <2>3. CASE cur = "interp"
      <3>1. /\ cur' = "main" /\ linked' = TRUE /\ phase' = "map"
            /\ idx' = [idx EXCEPT !["main"] = @ + 1]
        BY <2>1, <2>3, <1>8 DEF MapDone
      <3>2. guest["main"].ph[idx["main"]].type # "load"
        BY <2>3, <1>2 DEF Control
      <3>3. (\A f \in Files : Segs(f)' = Segs(f)) /\ idx' \in [Files -> Nat \ {0}]
        BY <2>1, <3>1, <3>2, <1>2, <1>4, PassesBy
      <3>4. idx'["interp"] = idx["interp"]
        BY <3>1, <1>2, <1>4
      <3>5. Control'
        BY <2>1, <2>3, <3>1, <3>4, <1>2, <1>3 DEF Control
      <3>6. linked' \in BOOLEAN /\ cur' \in Files /\ phase' \in Phases
        BY <3>1, <1>4 DEF Phases
      <3>7. Loaded'
        BY <2>1, <3>3, <3>5, <3>6, <1>2, <1>3, MovesOn
      <3> QED BY <2>2, <3>7 DEF IInv
    <2>4. CASE cur # "interp"
      <3>1. cur = "main" /\ phase' = "mapped" /\ UNCHANGED <<cur, linked, idx>>
        BY <2>4, <1>2, <1>4, <1>8 DEF MapDone
      <3>2. Loaded'
        BY <2>1, <3>1, <1>2, <1>3, PhaseMoves DEF Phases
      <3> QED BY <2>2, <3>2 DEF IInv
    <2> QED BY <2>3, <2>4
  <1>9. ASSUME NEW b \in Bases[cur], MapFirst(b) PROVE IInv'
    <2>1. PICK at : at = FirstAt(b)
      OBVIOUS
    <2>2. Step(at)
      BY <2>1, <1>1, <1>2, <1>9, FirstIsStep
    <2>3. Loaded'
      BY <2>2, <1>2, StepLoaded
    <2>4. phase = "map" /\ phase' = "map"
      BY <1>9 DEF MapFirst, AtHeader
    <2>5. StackInv'
      BY <2>4, <1>2, <1>3, NoStackYet
    <2> QED BY <2>3, <2>5 DEF IInv
  <1>10. CASE MapNext
    <2>1. phase = "map" /\ phase' \in {"map", "bus"}
      BY <1>10 DEF MapNext, AtHeader
    <2>2. StackInv'
      BY <2>1, <1>2, <1>3, NoStackYet
    <2>3. CASE phase' = "bus"
      <3>1. UNCHANGED <<guest, mem, prot, base, vbrk, linked, cur, idx>>
        BY <2>1, <2>3, <1>10 DEF MapNext
      <3>2. Loaded'
        BY <2>1, <2>3, <3>1, <1>2, <1>3, PhaseMoves DEF Phases
      <3> QED BY <2>2, <3>2 DEF IInv
    <2>4. CASE phase' # "bus"
      <3>1. PICK at : at = CurrMap
        OBVIOUS
      <3>2. Step(at)
        BY <2>4, <3>1, <1>1, <1>2, <1>10, NextIsStep
      <3>3. Loaded'
        BY <3>2, <1>2, StepLoaded
      <3> QED BY <2>2, <3>3 DEF IInv
    <2> QED BY <2>3, <2>4
  <1> QED BY <1>1, <1>5, <1>6, <1>7, <1>8, <1>9, <1>10 DEF LoadNext

\* Every step keeps the invariant.
LEMMA NextKeeps == IInv /\ [Next]_pvars => IInv'
  <1> SUFFICES ASSUME IInv, [Next]_pvars PROVE IInv'
    OBVIOUS
  <1>1. Loaded /\ StackInv /\ TypeOK /\ Image /\ Control
    BY DEF IInv, Loaded
  <1>2. CASE Load
    BY <1>2, LoadKeeps
  <1>3. CASE SetupStack
    <2>1. StackInv' /\ stack' \in Stacks
      BY <1>3, SetupFills
    <2>2. /\ phase = "mapped" /\ phase' = "aux" /\ rsp' = TRUE /\ added' = added
          /\ UNCHANGED <<guest, mem, prot, base, vbrk, linked, cur, idx, argv, envp, fd, grown>>
      BY <1>3 DEF SetupStack
    <2>3. idx["main"] > Len(guest["main"].ph) /\ added' \in 0 .. 16
      BY <2>2, <1>1 DEF Control, TypeOK
    <2>4. Loaded'
      BY <2>1, <2>2, <2>3, <1>1, PhaseMoves DEF Phases
    <2> QED BY <2>1, <2>4 DEF IInv
  <1>4. CASE AddAux
    <2>1. StackInv' /\ stack' \in Stacks /\ added' \in 0 .. 16
      BY <1>4, AddFills
    <2>2. /\ phase = "aux" /\ phase' \in {"aux", "run"} /\ rsp' = rsp
          /\ UNCHANGED <<guest, mem, prot, base, vbrk, linked, cur, idx, argv, envp, fd, grown>>
      BY <1>4 DEF AddAux
    <2>3. idx["main"] > Len(guest["main"].ph) /\ rsp' \in BOOLEAN
      BY <2>2, <1>1 DEF Control, TypeOK
    <2>4. Loaded'
      BY <2>1, <2>2, <2>3, <1>1, PhaseMoves DEF Phases
    <2> QED BY <2>1, <2>4 DEF IInv
  <1>5. CASE StackOverflow \/ StackFails
    <2>1. /\ phase = "mapped" /\ phase' \in {"segv", "run"}
          /\ UNCHANGED <<guest, mem, prot, base, vbrk, linked, cur, idx, argv, envp, fd, rsp,
                         stack, added, grown>>
      BY <1>5 DEF StackOverflow, StackFails
    <2>2. /\ idx["main"] > Len(guest["main"].ph)
          /\ rsp' \in BOOLEAN /\ stack' \in Stacks /\ added' \in 0 .. 16
      BY <2>1, <1>1 DEF Control, TypeOK, Stacks
    <2>3. Loaded'
      BY <2>1, <2>2, <1>1, PhaseMoves DEF Phases
    <2>4. StackInv'
      BY <2>1, <1>1, NoStackYet
    <2> QED BY <2>3, <2>4 DEF IInv
  <1>6. ASSUME NEW n \in Requests, Sbrk(vbrk + n) PROVE IInv'
    <2>1. n \in Nat /\ vbrk \in Nat
      BY <1>1, ProcessAssumption, Consts DEF TypeOK
    <2>2. PICK a \in Nat : a = vbrk + n
      BY <2>1
    <2>3. Sbrk(a)
      BY <2>2, <1>6
    <2>4. TypeOK' /\ Image'
      BY <2>3, <1>1, SbrkImage
    <2>5. /\ phase = "run" /\ phase' = phase
          /\ UNCHANGED <<guest, base, linked, cur, idx, argv, envp, fd, rsp, stack, added>>
      BY <2>3 DEF Sbrk
    <2>6. Control'
      BY <2>5, <1>1 DEF Control
    <2>7. StackInv'
      BY <2>5, <1>1, SameStack
    <2> QED BY <2>4, <2>6, <2>7 DEF IInv, Loaded
  <1>7. CASE Over \/ UNCHANGED pvars
    <2>1. /\ UNCHANGED <<guest, mem, prot, base, vbrk, linked, cur, idx, phase>>
          /\ UNCHANGED <<argv, envp, fd, rsp, stack, added, grown>>
      BY <1>7 DEF Over, pvars, lvars
    <2>2. StackInv'
      BY <2>1, <1>1, SameStack
    <2>3. \A f \in Files : Segs(f)' = Segs(f)
      BY <2>1 DEF Segs
    <2>4. Control'
      BY <2>1, <1>1 DEF Control
    <2>5. Loaded'
      BY <2>1, <2>3, <2>4, <1>1, MovesOn DEF TypeOK, Stacks
    <2> QED BY <2>2, <2>5 DEF IInv
  <1> QED BY <1>2, <1>3, <1>4, <1>5, <1>6, <1>7 DEF Next

LEMMA Invariant == Spec => []IInv
  BY InitHolds, NextKeeps, PTL DEF Spec

\* Type correctness, for every guest and every command line.
THEOREM ProcessTyped == Spec => []TypeOK
  <1>1. IInv => TypeOK
    BY DEF IInv, Loaded
  <1> QED BY <1>1, Invariant, PTL

\* map_load puts every segment of both files in place, and hook_brk leaves it alone.
THEOREM ImageAlwaysExact == Spec => []ImageExact
  <1>1. IInv => ImageExact
    BY DEF IInv, Loaded, Image, Exact, ImageExact
  <1> QED BY <1>1, Invariant, PTL

\* The heap starts in a page of its own, behind every segment that a writable one
\* follows (map_load, hook_brk).
THEOREM BreakAlwaysBehind == Spec => []BreakBehind
  <1>1. ASSUME IInv PROVE BreakBehind
    <2> SUFFICES ASSUME vbrk # 0, ~BreakInside, Apart, NEW i \in Segs("main"), Followed(i)
                 PROVE  PageOf(SegEnd("main", i) - 1) < PageOf(vbrk)
      BY DEF BreakBehind
    <2> DEFINE e == SegEnd("main", i)
    <2>1. TypeOK /\ Based("main") /\ Behind
      BY <1>1 DEF IInv, Loaded, Image, Files
    <2>2. e <= Align(vbrk)
      BY <2>1 DEF Behind
    <2>3. e \in Nat /\ SegAt("main", i) \in Nat /\ SegAt("main", i) < e
      BY <2>1, SegIs DEF Files
    <2>4. vbrk \in Nat /\ e - 1 \in Nat
      BY <2>1, <2>3, Consts DEF TypeOK
    <2> HIDE DEF e
    <2>5. /\ Align(vbrk) = Lo(PageOf(vbrk)) /\ PageOf(vbrk) \in Nat /\ Align(vbrk) \in Nat
          /\ Align(e - 1) = Lo(PageOf(e - 1)) /\ PageOf(e - 1) \in Nat
          /\ Align(e - 1) <= e - 1 /\ Align(e - 1) \in Nat
      BY <2>4, AlignIs
    <2>6. Lo(PageOf(e - 1)) < Lo(PageOf(vbrk))
      BY <2>2, <2>3, <2>5
    <2>7. CASE PageOf(vbrk) < PageOf(e - 1)
      BY <2>5, <2>6, <2>7, LoLess, Consts
    <2>8. PageOf(e - 1) # PageOf(vbrk)
      BY <2>5, <2>6
    <2> QED BY <2>5, <2>7, <2>8 DEF e
  <1> QED BY <1>1, Invariant, PTL

----------------------------------------------------------------------------
(* What the guest reads from its stack.                                    *)

\* The first NULL from word k on.
LEMMA NullIs ==
    ASSUME NEW s \in Stacks, NEW k \in Nat, NEW e \in k .. (StackWords - 1), s[e] = 0,
           \A i \in k .. (e - 1) : s[i] # 0
    PROVE  NullFrom(s, k) = e
  <1> DEFINE S == {i \in k .. (StackWords - 1) : s[i] = 0}
  <1>1. StackWords \in Nat
    BY StackAssumption
  <1>2. S \subseteq Nat /\ e \in S
    BY <1>1
  <1>3. \A j \in S : e <= j
    <2> SUFFICES ASSUME NEW j \in S, ~(e <= j) PROVE FALSE
      OBVIOUS
    <2>1. j \in k .. (e - 1)
      BY <1>1
    <2> QED BY <2>1
  <1>4. NullFrom(s, k) = Min(S)
    BY DEF NullFrom
  <1> HIDE DEF S
  <1> QED BY <1>2, <1>3, <1>4, MinIs

\* The strings from word k on are the sequence that is there.
LEMMA StringsAre ==
    ASSUME NEW s \in Stacks, NEW k \in Nat \ {0}, NEW q \in Seq(Nat \ {0}),
           k + Len(q) < StackWords, s[k + Len(q)] = 0,
           \A i \in 1 .. Len(q) : s[k - 1 + i] = q[i]
    PROVE  Strings(s, k) = q /\ NullFrom(s, k) = k + Len(q)
  <1> DEFINE n == Len(q)
             t == [i \in 1 .. (StackWords - 1) |-> s[i]]
  <1>1. StackWords \in Nat /\ n \in Nat /\ \A i \in 1 .. n : q[i] # 0
    BY StackAssumption
  <1>2. NullFrom(s, k) = k + n
    <2>1. k + n \in k .. (StackWords - 1)
      BY <1>1
    <2>2. \A i \in k .. (k + n - 1) : s[i] # 0
      <3> TAKE i \in k .. (k + n - 1)
      <3>1. i - k + 1 \in 1 .. n /\ k - 1 + (i - k + 1) = i
        BY <1>1
      <3>2. s[i] = q[i - k + 1]
        BY <3>1
      <3> QED BY <3>1, <3>2, <1>1
    <2> QED BY <2>1, <2>2, NullIs
  <1>3. Strings(s, k) = SubSeq(t, k, k + n - 1)
    BY <1>2 DEF Strings
  <1>4. SubSeq(t, k, k + n - 1) = [i \in 1 .. n |-> t[i + k - 1]]
    <2>1. (k + n - 1) - k + 1 = n
      BY <1>1
    <2>2. t \in Seq(Nat)
      <3>1. \A i \in 1 .. (StackWords - 1) : s[i] \in Nat
        BY <1>1 DEF Stacks
      <3>2. StackWords - 1 \in Nat
        BY <1>1, StackAssumption
      <3> QED BY <3>1, <3>2
    <2> QED BY <2>1, <2>2, <1>1
  <1>5. \A i \in 1 .. n : t[i + k - 1] = q[i]
    <2> TAKE i \in 1 .. n
    <2>1. i + k - 1 \in 1 .. (StackWords - 1) /\ k - 1 + i = i + k - 1
      BY <1>1
    <2> QED BY <2>1
  <1>6. q = [i \in 1 .. n |-> q[i]]
    OBVIOUS
  <1> HIDE DEF t
  <1>7. [i \in 1 .. n |-> t[i + k - 1]] = q
    BY <1>5, <1>6
  <1> QED BY <1>2, <1>3, <1>4, <1>7

\* What setup_stack has left, read back.
LEMMA ReadsBack ==
    ASSUME IInv, phase = "run", rsp, fd # 0
    PROVE  /\ stack[0] = Len(argv)
           /\ Strings(stack, 1) = argv
           /\ Strings(stack, Len(argv) + 2) = envp
           /\ AuxPairs(stack) = {AuxCalls[n] : n \in 1 .. 15}
           /\ Len(AuxCalls) = 16
  <1> DEFINE k == AuxAt(argv, envp)
             n == Len(argv)
             m == Len(envp)
             c == AuxCalls
  <1>1. Ready /\ TypeOK /\ \A f \in Files : Based(f)
    BY ReadyWhen DEF IInv
  <1>2. Fits(argv, envp, c) /\ added = 16 /\ Filled(16)
    BY DEF IInv, StackInv
  <1>3. /\ k \in Nat /\ k = n + m + 3 /\ k + 32 <= StackWords /\ StackWords \in Nat
        /\ n \in Nat /\ m \in Nat
    BY <1>1, <1>2, AuxPlace
  <1>4. stack \in Stacks /\ argv \in Seq(Nat \ {0}) /\ envp \in Seq(Nat \ {0})
    BY <1>1, CommandIs DEF TypeOK, Stacks
  <1>5. /\ stack[0] = n /\ stack[n + 1] = 0 /\ stack[k - 1] = 0
        /\ \A i \in 1 .. n : stack[i] = argv[i]
        /\ \A i \in 1 .. m : stack[n + 1 + i] = envp[i]
        /\ \A j \in 1 .. 15 : j <= 16 => /\ stack[k + 2 * j - 2] = c[j][1]
                                         /\ stack[k + 2 * j - 1] = c[j][2]
        /\ \A i \in k .. (StackWords - 1) : i >= k + 2 * 16 \/ i >= k + 30 => stack[i] = 0
    BY <1>2 DEF Filled
  <1>6. /\ Len(c) = 16 /\ \A j \in 1 .. 16 : c[j] = <<c[j][1], c[j][2]>>
        /\ \A j \in 1 .. 14 : c[j][1] # 0 /\ c[j][2] # 0
        /\ c[15] = <<23, 0>>
    BY <1>1, AuxCallsAre
  <1> HIDE DEF k, c
  <1>7. Strings(stack, 1) = argv /\ NullFrom(stack, 1) = n + 1
    <2>1. 1 + n < StackWords /\ 1 + n = n + 1
      BY <1>3
    <2>2. \A i \in 1 .. n : stack[1 - 1 + i] = argv[i]
      BY <1>3, <1>5
    <2>3. 1 \in Nat \ {0} /\ stack[1 + n] = 0
      BY <2>1, <1>5
    <2>4. Strings(stack, 1) = argv /\ NullFrom(stack, 1) = 1 + n
      BY <2>1, <2>2, <2>3, <1>4, StringsAre, Zenon
    <2> QED BY <2>1, <2>4
  <1>8. Strings(stack, n + 2) = envp /\ NullFrom(stack, n + 2) = k - 1
    <2>1. n + 2 \in Nat \ {0} /\ n + 2 + m < StackWords /\ n + 2 + m = k - 1 /\ n + 2 - 1 = n + 1
      BY <1>3
    <2>2. \A i \in 1 .. m : stack[n + 2 - 1 + i] = envp[i]
      BY <2>1, <1>5
    <2>3. stack[n + 2 + m] = 0
      BY <2>1, <1>5
    <2> QED BY <2>1, <2>2, <2>3, <1>4, StringsAre
  <1>9. AuxStart(stack) = k
    <2>1. n + 1 + 1 = n + 2 /\ k - 1 + 1 = k
      BY <1>3
    <2> QED BY <2>1, <1>7, <1>8 DEF AuxStart
  <1>10. \A j \in 1 .. 15 : c[j][1] # 0
    <2> TAKE j \in 1 .. 15
    <2>1. j \in 1 .. 14 \/ j = 15
      OBVIOUS
    <2> QED BY <2>1, <1>6
  <1> DEFINE E == {j \in 0 .. ((StackWords - 2 - k) \div 2) : stack[k + 2 * j] = 0}
  <1>11. Min(E) = 15
    <2> DEFINE d == (StackWords - 2 - k) \div 2
    <2>1. d \in Nat /\ d >= 15
      BY <1>3
    <2> HIDE DEF d
    <2>2. 15 \in E
      <3>1. k + 2 * 15 \in k .. (StackWords - 1) /\ k + 2 * 15 >= k + 30
        BY <1>3
      <3>2. stack[k + 2 * 15] = 0
        BY <3>1, <1>5
      <3> QED BY <2>1, <3>2 DEF d
    <2>3. E \subseteq Nat
      BY <2>1 DEF d
    <2>4. \A j \in E : 15 <= j
      <3> SUFFICES ASSUME NEW j \in E, ~(15 <= j) PROVE FALSE
        OBVIOUS
      <3>1. j \in Nat /\ stack[k + 2 * j] = 0
        BY <2>3
      <3>2. j + 1 \in 1 .. 15 /\ k + 2 * (j + 1) - 2 = k + 2 * j
        BY <3>1, <1>3
      <3>3. PICK i \in 1 .. 15 : k + 2 * i - 2 = k + 2 * j
        BY <3>2
      <3>4. i <= 16
        OBVIOUS
      <3>5. stack[k + 2 * i - 2] = c[i][1]
        BY <3>4, <1>5, Zenon
      <3> QED BY <3>1, <3>3, <3>5, <1>10
    <2> HIDE DEF E
    <2> QED BY <2>2, <2>3, <2>4, MinIs
  <1>12. AuxPairs(stack) = {<<stack[k + 2 * j], stack[k + 2 * j + 1]>> : j \in 0 .. 14}
    <2>1. AuxPairs(stack) = {<<stack[k + 2 * j], stack[k + 2 * j + 1]>> : j \in 0 .. (Min(E) - 1)}
      BY <1>9 DEF AuxPairs
    <2> HIDE DEF E
    <2> QED BY <2>1, <1>11
  <1>13. \A j \in 0 .. 14 : <<stack[k + 2 * j], stack[k + 2 * j + 1]>> = c[j + 1]
    <2> TAKE j \in 0 .. 14
    <2>1. j + 1 \in 1 .. 15 /\ j + 1 \in 1 .. 16 /\ j + 1 <= 16
          /\ k + 2 * (j + 1) - 2 = k + 2 * j /\ k + 2 * (j + 1) - 1 = k + 2 * j + 1
      BY <1>3
    <2>2. stack[k + 2 * j] = c[j + 1][1] /\ stack[k + 2 * j + 1] = c[j + 1][2]
      BY <2>1, <1>5
    <2> QED BY <2>1, <2>2, <1>6
  <1>14. AuxPairs(stack) = {c[j] : j \in 1 .. 15}
    <2>1. ASSUME NEW x \in AuxPairs(stack) PROVE x \in {c[j] : j \in 1 .. 15}
      <3>1. PICK j \in 0 .. 14 : x = c[j + 1]
        BY <1>12, <1>13, Zenon
      <3>2. j + 1 \in 1 .. 15
        OBVIOUS
      <3> QED BY <3>1, <3>2
    <2>2. ASSUME NEW j \in 1 .. 15 PROVE c[j] \in AuxPairs(stack)
      <3>1. PICK i \in 0 .. 14 : i + 1 = j
        <4>1. j - 1 \in 0 .. 14 /\ (j - 1) + 1 = j
          OBVIOUS
        <4> QED BY <4>1
      <3> QED BY <3>1, <1>12, <1>13, Zenon
    <2> QED BY <2>1, <2>2
  <1> QED BY <1>5, <1>6, <1>7, <1>8, <1>14 DEF c

\* The guest reads from its stack what it was started with, for every number of
\* arguments and environment variables that fits (setup_stack, add_auxvt).
THEOREM StackAlwaysReadsBack == Spec => []StackReadsBack
  <1>1. ASSUME IInv PROVE StackReadsBack
    <2> SUFFICES ASSUME phase = "run", rsp, fd # 0
                 PROVE  /\ stack[0] = Len(argv)
                        /\ Strings(stack, 1) = argv
                        /\ Strings(stack, Len(argv) + 2) = envp
                        /\ AuxPairs(stack) = {AuxCalls[n] : n \in 1 .. (Len(AuxCalls) - 1)}
      BY DEF StackReadsBack
    <2>1. /\ stack[0] = Len(argv) /\ Strings(stack, 1) = argv
          /\ Strings(stack, Len(argv) + 2) = envp
          /\ AuxPairs(stack) = {AuxCalls[n] : n \in 1 .. 15}
          /\ Len(AuxCalls) = 16
      BY <1>1, ReadsBack, Zenon
    <2>2. 16 - 1 = 15
      OBVIOUS
    <2> QED BY <2>1, <2>2
  <1> QED BY <1>1, Invariant, PTL

\* A byte of the file is where its segment puts it.
LEMMA ByteThere ==
    ASSUME TypeOK, NEW f \in Files, Based(f), NEW i \in Segs(f), SegEnd(f, i) <= Top, Exact(f, i),
           NEW o \in Nat, o < guest[f].ph[i].filesz
    PROVE  /\ mem[SegAt(f, i) + o] = <<f, guest[f].ph[i].offset + o>>
           /\ guest[f].ph[i].flags \subseteq prot[PageOf(SegAt(f, i) + o)]
  <1> DEFINE s == guest[f].ph[i]
             at == SegAt(f, i)
             end == SegEnd(f, i)
             x == at + o
  <1>1. /\ at \in Nat /\ end \in Nat /\ end = at + s.memsz
        /\ s.filesz \in Nat /\ s.memsz \in Nat /\ s.filesz <= s.memsz
    BY SegIs
  <1>2. end <= Top /\ Top \in Nat /\ o < s.filesz
    BY Consts
  <1> HIDE DEF s, at, end
  <1>3. x \in Nat /\ x < end /\ at <= x /\ x < at + s.filesz /\ x - at = o /\ x \in Addr /\ x \in Bytes(at, end)
    BY <1>1, <1>2 DEF Addr, Bytes
  <1>4. PageOf(x) \in PagesOf(at, end)
    BY <1>1, <1>3, ByteInPages
  <1>5. /\ mem[x] = Wanted(f, i, x) \/ (i = First(f) /\ x >= at + s.filesz)
        /\ ({"r"} \cup s.flags) \subseteq prot[PageOf(x)]
    BY <1>3, <1>4 DEF Exact, s, at, end
  <1>6. mem[x] = Wanted(f, i, x)
    BY <1>1, <1>3, <1>5
  <1>7. Wanted(f, i, x) = <<f, s.offset + o>>
    BY <1>2, <1>3 DEF Wanted, s, at
  <1> QED BY <1>5, <1>6, <1>7 DEF s, at

\* The entry point and the program headers of a file of which every segment is mapped.
LEMMA EntryThere ==
    ASSUME TypeOK, Image, NEW f \in Files, idx[f] > Len(guest[f].ph),
           \A i \in Segs(f) : Exact(f, i)
    PROVE  /\ mem[EntryOf(f)] = <<f, guest[f].entryoff>>
           /\ "x" \in prot[PageOf(EntryOf(f))]
           /\ mem[base[f] + guest[f].phoff] = <<f, guest[f].phoff>>
  <1> DEFINE F == guest[f]
  <1>1. Based(f) /\ \A i \in Segs(f) : SegEnd(f, i) <= Top
    BY DEF Image
  <1>2. /\ Segs(f) = Loads(F) /\ Segs(f) # {} /\ base[f] \in Nat /\ F.phoff \in Nat
    BY <1>1, AllMapped
  <1>3. F \in Images /\ IsImage(F)
    BY GuestIs DEF TypeOK
  <1>4. F.entry \in Nat /\ F.pie \in BOOLEAN
    BY <1>3 DEF Images
  <1>5. PICK i \in Loads(F) :
           /\ "x" \in F.ph[i].flags
           /\ F.entry \in F.ph[i].vaddr .. (F.ph[i].vaddr + F.ph[i].filesz - 1)
           /\ F.entryoff = F.ph[i].offset + F.entry - F.ph[i].vaddr
    BY <1>3 DEF IsImage
  <1>6. F.ph[i].vaddr \in Nat /\ F.ph[i].filesz \in Nat /\ F.ph[i].offset \in Nat
    BY <1>3, LoadIs
  <1>7. mem[EntryOf(f)] = <<f, F.entryoff>> /\ "x" \in prot[PageOf(EntryOf(f))]
    <2> DEFINE o == F.entry - F.ph[i].vaddr
    <2>1. o \in Nat /\ o < F.ph[i].filesz /\ F.ph[i].offset + o = F.entryoff
      BY <1>4, <1>5, <1>6
    <2>2. SegAt(f, i) + o = EntryOf(f)
      <3>1. CASE F.pie
        BY <3>1, <1>2, <1>4, <1>6 DEF SegAt, EntryOf
      <3>2. CASE ~F.pie
        BY <3>2, <1>4, <1>6 DEF SegAt, EntryOf
      <3> QED BY <3>1, <3>2
    <2>3. i \in Segs(f)
      BY <1>2
    <2> HIDE DEF o
    <2>4. /\ mem[SegAt(f, i) + o] = <<f, F.ph[i].offset + o>>
          /\ F.ph[i].flags \subseteq prot[PageOf(SegAt(f, i) + o)]
      BY <2>1, <2>3, <1>1, ByteThere
    <2> QED BY <2>1, <2>2, <2>4, <1>5
  <1>8. mem[base[f] + F.phoff] = <<f, F.phoff>>
    <2> DEFINE n == First(f)
    <2>1. n \in Segs(f) /\ \A j \in Segs(f) : n <= j
      BY <1>2, FirstIn
    <2>2. SegAt(f, n) = base[f] /\ F.ph[n].offset = 0
      BY <2>1, <1>1 DEF Based
    <2>3. F.phoff \in F.ph[n].offset .. (F.ph[n].offset + F.ph[n].filesz - 1)
      BY <2>1, <1>2, <1>3 DEF IsImage
    <2>4. F.ph[n].filesz \in Nat
      BY <2>1, <1>2, <1>3, LoadIs
    <2>5. F.phoff < F.ph[n].filesz /\ 0 + F.phoff = F.phoff
      BY <2>2, <2>3, <2>4, <1>2
    <2>6. mem[SegAt(f, n) + F.phoff] = <<f, F.ph[n].offset + F.phoff>>
      BY <2>1, <2>5, <1>1, <1>2, ByteThere
    <2> QED BY <2>2, <2>5, <2>6
  <1> QED BY <1>7, <1>8

\* What the auxiliary vector and exec_entry say is in memory (setup_stack, map_binary).
THEOREM AuxAlwaysTrue == Spec => []AuxTrue
  <1>1. ASSUME IInv PROVE AuxTrue
    <2> DEFINE Val(id) == (CHOOSE q \in AuxPairs(stack) : q[1] = id)[2]
               start == IF linked THEN "interp" ELSE "main"
    <2> SUFFICES ASSUME phase = "run", rsp, fd # 0, Apart,
                        \A i \in Segs("main") : OutOfReach("main", i)
                 PROVE  /\ mem[Val(3)] = <<"main", guest["main"].phoff>>
                        /\ mem[Val(9)] = <<"main", guest["main"].entryoff>>
                        /\ mem[ExecEntry] = <<start, guest[start].entryoff>>
                        /\ "x" \in prot[PageOf(ExecEntry)]
      BY DEF AuxTrue
    <2>1. Ready /\ TypeOK /\ Image /\ \A f \in Files : Based(f)
      BY <1>1, ReadyWhen DEF IInv, Loaded
    <2>2. "main" \in Files /\ "interp" \in Files
      BY DEF Files
    <2>3. \A f \in Files : \A i \in Segs(f) : Exact(f, i)
      <3> TAKE f \in Files
      <3> TAKE i \in Segs(f)
      <3>1. OutOfReach(f, i)
        <4>1. f = "main" \/ f = "interp"
          BY DEF Files
        <4>2. CASE f = "main"
          BY <4>2
        <4>3. CASE f = "interp"
          BY <4>3 DEF OutOfReach
        <4> QED BY <4>1, <4>2, <4>3
      <3> QED BY <3>1, <2>1 DEF Image
    <2>4. /\ mem[EntryOf("main")] = <<"main", guest["main"].entryoff>>
          /\ "x" \in prot[PageOf(EntryOf("main"))]
          /\ mem[base["main"] + guest["main"].phoff] = <<"main", guest["main"].phoff>>
      BY <2>1, <2>2, <2>3, EntryThere DEF Ready
    <2>5. linked => /\ mem[EntryOf("interp")] = <<"interp", guest["interp"].entryoff>>
                    /\ "x" \in prot[PageOf(EntryOf("interp"))]
      BY <2>1, <2>2, <2>3, EntryThere DEF Ready
    <2>6. mem[ExecEntry] = <<start, guest[start].entryoff>> /\ "x" \in prot[PageOf(ExecEntry)]
      BY <2>4, <2>5 DEF ExecEntry
    <2> DEFINE c == AuxCalls
    <2>7. AuxPairs(stack) = {c[j] : j \in 1 .. 15}
      BY <1>1, ReadsBack, Zenon
    <2>8. /\ c[1] = <<9, EntryOf("main")>>
          /\ c[7] = <<3, base["main"] + guest["main"].phoff>>
          /\ \A j \in 1 .. 15 : (c[j][1] = 9 => j = 1) /\ (c[j][1] = 3 => j = 7)
      BY <2>1, AuxCallsAre
    <2> HIDE DEF c
    <2>9. Val(3) = c[7][2]
      <3>1. c[7] \in AuxPairs(stack) /\ c[7][1] = 3
        BY <2>7, <2>8
      <3>2. \A q \in AuxPairs(stack) : q[1] = 3 => q = c[7]
        BY <2>7, <2>8, Zenon
      <3> QED BY <3>1, <3>2
    <2>10. Val(9) = c[1][2]
      <3>1. c[1] \in AuxPairs(stack) /\ c[1][1] = 9
        BY <2>7, <2>8
      <3>2. \A q \in AuxPairs(stack) : q[1] = 9 => q = c[1]
        BY <2>7, <2>8, Zenon
      <3> QED BY <3>1, <3>2
    <2>11. Val(3) = base["main"] + guest["main"].phoff /\ Val(9) = EntryOf("main")
      BY <2>8, <2>9, <2>10
    <2> HIDE DEF Val, start
    <2> QED BY <2>4, <2>6, <2>11
  <1> QED BY <1>1, Invariant, PTL

=============================================================================
