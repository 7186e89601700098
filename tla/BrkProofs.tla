------------------------------ MODULE BrkProofs ------------------------------
(***************************************************************************)
(* The heap hook_brk keeps, proved for every page size, every width of the *)
(* size and every first break.                                             *)
(***************************************************************************)
EXTENDS Brk, TLAPS

----------------------------------------------------------------------------
(* Pages and offsets.                                                      *)

\* An address is its page and its offset.
LEMMA DivMod ==
    ASSUME NEW n \in Nat \ {0}, NEW a \in Nat
    PROVE  /\ a \div n \in Nat /\ a % n \in 0 .. (n - 1)
           /\ a = n * (a \div n) + (a % n)
  OBVIOUS

\* The page of an address is the one whose bounds it lies within.
LEMMA DivUnique ==
    ASSUME NEW n \in Nat \ {0}, NEW a \in Nat, NEW q \in Nat, q * n <= a, a < (q + 1) * n
    PROVE  a \div n = q
  OBVIOUS

\* A higher address is on the same page or a higher one.
LEMMA DivMono ==
    ASSUME NEW n \in Nat \ {0}, NEW a \in Nat, NEW b \in Nat, a <= b
    PROVE  a \div n <= b \div n
  OBVIOUS

\* What is smaller than the modulus stays as it is.
LEMMA SmallMod ==
    ASSUME NEW n \in Nat \ {0}, NEW a \in Nat, a < n
    PROVE  a % n = a
  OBVIOUS

\* A page boundary is its page number of pages.
LEMMA Boundary ==
    ASSUME NEW n \in Nat \ {0}, NEW a \in Nat, a % n = 0
    PROVE  a \div n \in Nat /\ a = (a \div n) * n
  <1>1. a \div n \in Nat /\ a = n * (a \div n) + (a % n)
    BY DivMod
  <1>2. n * (a \div n) = (a \div n) * n
    BY <1>1
  <1> QED BY <1>1, <1>2

\* Page boundaries are a page apart, and the difference of two is one.
LEMMA Multiples ==
    ASSUME NEW n \in Nat \ {0}, NEW a \in Nat, NEW b \in Nat,
           a % n = 0, b % n = 0, a < b
    PROVE  a + n <= b /\ (b - a) % n = 0
  <1> DEFINE q == a \div n
             r == b \div n
  <1>1. q \in Nat /\ r \in Nat /\ a = q * n /\ b = r * n
    BY Boundary
  <1> HIDE DEF q, r
  <1>2. q < r
    BY <1>1
  <1>3. (q + 1) * n <= r * n
    BY <1>1, <1>2
  <1>4. b - a = (r - q) * n /\ r - q \in Nat
    BY <1>1, <1>2
  <1>5. ((r - q) * n) % n = 0
    <2>1. ASSUME NEW k \in Nat PROVE (k * n) % n = 0
      OBVIOUS
    <2> QED BY <1>4, <2>1
  <1>6. (q + 1) * n = q * n + n
    BY <1>1
  <1> QED BY <1>1, <1>3, <1>4, <1>5, <1>6

----------------------------------------------------------------------------
(* Type correctness.                                                       *)

\* What every step needs to know of the constants.
LEMMA Consts ==
    ASSUME start \in Starts
    PROVE  /\ P \in Nat \ {0} /\ Top \in Nat /\ U \in Nat \ {0} /\ U % P = 0
           /\ start \in Nat /\ P <= start /\ start <= Top - 1
  BY BrkAssumption

\* An address of the model is on a page of the model.
LEMMA PageInRange ==
    ASSUME NEW a \in 0 .. (Top - 1)
    PROVE  PageOf(a) \in 0 .. PageOf(Top)
  <1>1. P \in Nat \ {0} /\ Top \in Nat /\ a \in Nat /\ a <= Top
    BY BrkAssumption
  <1>2. a \div P \in Nat /\ Top \div P \in Nat /\ a \div P <= Top \div P
    BY <1>1, DivMod, DivMono
  <1> QED BY <1>2 DEF PageOf

\* Any sequence of requests and writes keeps the variables in their types: what
\* is written stays mapped, and the break stays at or above where it started.
THEOREM BreakTyped == Spec => []TypeOK
  <1>1. Init => TypeOK
    <2> SUFFICES ASSUME Init PROVE TypeOK
      OBVIOUS
    <2>1. start \in Starts
      BY DEF Init
    <2>2. start \in 0 .. (Top - 1)
      BY <2>1, Consts
    <2>3. PageOf(start) \in 0 .. PageOf(Top)
      BY <2>2, PageInRange
    <2>4. PageOf(start) >= 1
      <3>1. P \div P <= start \div P
        BY <2>1, Consts, DivMono
      <3>2. P \div P = 1
        BY <2>1, Consts, DivUnique
      <3>3. start \div P \in Nat
        BY <2>1, Consts, DivMod
      <3> QED BY <3>1, <3>2, <3>3 DEF PageOf
    <2>5. PageOf(start) - 1 \in 0 .. PageOf(Top)
      <3>1. Top \div P \in Nat
        BY <2>1, Consts, DivMod
      <3> QED BY <2>3, <2>4, <3>1 DEF PageOf
    <2>6. vbrk \in start .. (Top - 1) /\ rax \in 0 .. (Top - 1)
      BY <2>1, <2>2, Consts DEF Init
    <2> QED BY <2>1, <2>5, <2>6 DEF Init, TypeOK
  <1>2. TypeOK /\ [Next]_vars => TypeOK'
    <2> SUFFICES ASSUME TypeOK, [Next]_vars PROVE TypeOK'
      OBVIOUS
    <2>c. /\ start \in Nat /\ vbrk \in Nat /\ Top \in Nat
          /\ vbrk \in 0 .. (Top - 1) /\ start \in Starts
      BY Consts DEF TypeOK
    <2>1. CASE UNCHANGED vars
      BY <2>1 DEF TypeOK, vars
    <2>2. CASE Query
      BY <2>2, <2>c DEF TypeOK, Query
    <2>3. CASE Dead
      BY <2>3 DEF TypeOK, Dead, vars
    <2>4. ASSUME NEW a \in 1 .. (Top - 1),
                 Abort(a) \/ Refuse(a) \/ Grow(a) \/ GrowFails(a) \/ GuestWrite(a)
          PROVE  TypeOK'
      <3>1. CASE Abort(a)
        BY <3>1 DEF TypeOK, Abort
      <3>2. CASE Refuse(a)
        BY <3>2, <2>c DEF TypeOK, Refuse
      <3>3. CASE Grow(a)
        <4>1. a \in start .. (Top - 1) /\ a \in 0 .. (Top - 1)
          BY <3>3, <2>c DEF TypeOK, Grow, Aborts
        <4>2. mapped' \subseteq 0 .. PageOf(Top) /\ mapped \subseteq mapped'
          BY <3>3 DEF TypeOK, Grow, NewPages, PagesIn
        <4> QED BY <3>3, <4>1, <4>2 DEF TypeOK, Grow
      <3>4. CASE GrowFails(a)
        BY <3>4 DEF TypeOK, GrowFails
      <3>5. CASE GuestWrite(a)
        BY <3>5 DEF TypeOK, GuestWrite
      <3> QED BY <2>4, <3>1, <3>2, <3>3, <3>4, <3>5
    <2> QED BY <2>1, <2>2, <2>3, <2>4 DEF Next
  <1> QED BY <1>1, <1>2, PTL DEF Spec

\* What the guest is told is what hook_brk keeps, and the break never moves back.
THEOREM BreakAlwaysAgrees == Spec => BreakAgrees
  <1>1. TypeOK /\ [Next]_vars => [vbrk' >= vbrk /\ (rax' # rax => rax' = vbrk')]_vars
    <2> SUFFICES ASSUME TypeOK, Next PROVE vbrk' >= vbrk /\ (rax' # rax => rax' = vbrk')
      OBVIOUS
    <2>c. vbrk \in Nat /\ Top \in Nat
      BY Consts DEF TypeOK
    <2>1. CASE Query
      BY <2>1, <2>c DEF Query
    <2>2. CASE Dead
      BY <2>2, <2>c DEF Dead, vars
    <2>3. ASSUME NEW a \in 1 .. (Top - 1),
                 Abort(a) \/ Refuse(a) \/ Grow(a) \/ GrowFails(a) \/ GuestWrite(a)
          PROVE  vbrk' >= vbrk /\ (rax' # rax => rax' = vbrk')
      BY <2>3, <2>c DEF Abort, Refuse, Grow, Aborts, GrowFails, GuestWrite
    <2> QED BY <2>1, <2>2, <2>3 DEF Next
  <1> QED BY <1>1, BreakTyped, PTL DEF Spec, BreakAgrees

----------------------------------------------------------------------------
(* The heap is all there.                                                  *)

\* HeapIntact with what keeps it: the break lies on a page boundary, so the
\* pages that were written all lie below the first page a growth maps.
Heap ==
    ~ragged => /\ Offt(vbrk) = 0
               /\ \A a \in start .. (vbrk - 1) : PageOf(a) \in mapped
               /\ written = held
               /\ \A p \in written : p < PageOf(vbrk)
               /\ pc # "segv"

\* A growth by whole pages and by less than U maps the pages from the old break
\* on, and none below it.
LEMMA GrowByPages ==
    ASSUME TypeOK, NEW a \in 1 .. (Top - 1), Grow(a), Offt(vbrk) = 0,
           Offt(a) = 0, a - vbrk < U
    PROVE  /\ \A x \in vbrk .. (a - 1) : PageOf(x) \in NewPages(a)
           /\ \A p \in NewPages(a) : p >= PageOf(vbrk)
           /\ PageOf(vbrk) <= PageOf(a)
  <1> DEFINE d == a - vbrk
             b == vbrk \div P
  <1>1. /\ P \in Nat \ {0} /\ Top \in Nat /\ U \in Nat \ {0} /\ U % P = 0
        /\ vbrk \in Nat /\ a \in Nat /\ vbrk < a /\ a < Top
        /\ d \in Nat \ {0} /\ d < U /\ vbrk % P = 0 /\ a % P = 0
    BY Consts DEF TypeOK, Grow, Aborts, Offt
  <1>2. b \in Nat /\ vbrk = b * P
    BY <1>1, Boundary
  <1>3. d % P = 0
    BY <1>1, Multiples
  <1>4. d % U = d
    BY <1>1, SmallMod
  <1>5. MapLen(a) = (d + P) % U
    BY <1>1, <1>3, <1>4 DEF MapLen, Round, Align, Offt, BrkSize
  <1>6. d + P <= U
    BY <1>1, <1>3, Multiples
  <1>7. d + P # U
    <2>1. U % U = 0
      BY <1>1
    <2> QED BY <1>5, <2>1 DEF Grow
  <1>8. MapLen(a) = d + P
    <2>1. d + P \in Nat /\ d + P < U
      BY <1>1, <1>6, <1>7
    <2> QED BY <1>1, <1>5, <2>1, SmallMod
  <1>9. NewPages(a) = {p \in 0 .. PageOf(Top) : p * P < a + P /\ (p + 1) * P > vbrk}
    <2>1. Align(vbrk) = vbrk /\ vbrk + (d + P) = a + P
      BY <1>1 DEF Align, Offt
    <2> QED BY <1>8, <2>1 DEF NewPages, PagesIn
  <1>10. ASSUME NEW x \in vbrk .. (a - 1) PROVE PageOf(x) \in NewPages(a)
    <2> DEFINE q == x \div P
    <2>1. x \in Nat /\ x \in 0 .. (Top - 1) /\ vbrk <= x /\ x < a
      BY <1>1
    <2>2. q \in 0 .. PageOf(Top)
      BY <2>1, PageInRange DEF PageOf
    <2>3. q \in Nat /\ (x % P) \in 0 .. (P - 1) /\ x = P * q + (x % P)
      BY <1>1, <2>1, DivMod
    <2>4. q * P = P * q /\ (q + 1) * P = P * q + P /\ P * q \in Nat
      BY <1>1, <2>3
    <2>5. q * P < a + P /\ (q + 1) * P > vbrk
      BY <1>1, <2>1, <2>3, <2>4
    <2> QED BY <1>9, <2>2, <2>5 DEF PageOf
  <1>11. ASSUME NEW p \in NewPages(a) PROVE p >= PageOf(vbrk)
    <2>1. p \in Nat /\ (p + 1) * P > b * P
      <3>1. PageOf(Top) \in Nat
        BY <1>1, DivMod DEF PageOf
      <3> QED BY <1>2, <1>9, <3>1
    <2>2. p + 1 > b
      BY <1>1, <1>2, <2>1
    <2> QED BY <1>2, <2>1, <2>2 DEF PageOf
  <1>12. PageOf(vbrk) <= PageOf(a)
    BY <1>1, DivMono DEF PageOf
  <1> QED BY <1>10, <1>11, <1>12

\* While the break moves by whole pages, every byte below it is mapped and every
\* page the guest wrote still holds what it wrote, however often it grows.
THEOREM HeapAlwaysIntact == Spec => []HeapIntact
  <1>1. Init /\ TypeOK => Heap
    <2> SUFFICES ASSUME Init, TypeOK PROVE Heap
      OBVIOUS
    <2>1. start \in Nat
      BY Consts DEF TypeOK
    <2>2. start .. (vbrk - 1) = {}
      BY <2>1 DEF Init
    <2> QED BY <2>2 DEF Init, Heap
  <1>2. TypeOK /\ Heap /\ [Next]_vars => Heap'
    <2> SUFFICES ASSUME TypeOK, Heap, [Next]_vars PROVE Heap'
      OBVIOUS
    <2>c. /\ start \in Nat /\ vbrk \in Nat /\ Top \in Nat /\ P \in Nat \ {0}
          /\ vbrk < Top /\ ragged \in BOOLEAN
      BY Consts DEF TypeOK
    <2>1. CASE UNCHANGED vars
      BY <2>1 DEF Heap, vars, Offt, PageOf
    <2>2. CASE Query
      BY <2>2 DEF Heap, Query, Offt, PageOf
    <2>3. CASE Dead
      BY <2>3 DEF Heap, Dead, vars, Offt, PageOf
    <2>4. ASSUME NEW a \in 1 .. (Top - 1),
                 Abort(a) \/ Refuse(a) \/ Grow(a) \/ GrowFails(a) \/ GuestWrite(a)
          PROVE  Heap'
      <3>1. CASE Abort(a)
        BY <3>1 DEF Heap, Abort, Offt, PageOf
      <3>2. CASE Refuse(a)
        BY <3>2 DEF Heap, Refuse, Offt, PageOf
      <3>3. CASE Grow(a)
        <4> SUFFICES ASSUME ~ragged' PROVE
              /\ Offt(a) = 0
              /\ \A x \in start .. (a - 1) : PageOf(x) \in mapped'
              /\ written = held'
              /\ \A p \in written : p < PageOf(a)
              /\ pc' # "segv"
          BY <3>3 DEF Heap, Grow, Offt, PageOf
        <4>1. /\ ~ragged /\ Offt(a) = 0 /\ ~(a - vbrk >= U) /\ a \in Nat
              /\ U \in Nat
          <5>1. ~ragged /\ Offt(a) = 0 /\ ~(a - vbrk >= U)
            BY <3>3, Zenon DEF Grow
          <5> QED BY <5>1, BrkAssumption
        <4>2. a - vbrk < U
          BY <4>1, <2>c
        <4>3. /\ Offt(vbrk) = 0 /\ written = held
              /\ \A x \in start .. (vbrk - 1) : PageOf(x) \in mapped
              /\ \A p \in written : p < PageOf(vbrk)
          BY <4>1 DEF Heap
        <4>4. /\ \A x \in vbrk .. (a - 1) : PageOf(x) \in NewPages(a)
              /\ \A p \in NewPages(a) : p >= PageOf(vbrk)
              /\ PageOf(vbrk) <= PageOf(a)
          BY <3>3, <4>1, <4>2, <4>3, GrowByPages
        <4>5. \A x \in start .. (a - 1) : PageOf(x) \in mapped'
          <5> TAKE x \in start .. (a - 1)
          <5>1. x \in start .. (vbrk - 1) \/ x \in vbrk .. (a - 1)
            BY <4>1, <2>c
          <5> QED BY <5>1, <4>3, <4>4, <3>3 DEF Grow
        <4>n. /\ \A p \in written : p \in Int
              /\ PageOf(vbrk) \in Int /\ PageOf(a) \in Int
          <5>1. PageOf(Top) \in Nat /\ PageOf(vbrk) \in Nat /\ PageOf(a) \in Nat
            BY <2>c, <4>1, DivMod DEF PageOf
          <5> QED BY <5>1 DEF TypeOK
        <4>6. \A p \in written : p \notin NewPages(a) /\ p < PageOf(a)
          BY <4>3, <4>4, <4>n
        <4>7. written = held'
          BY <4>3, <4>6, <3>3 DEF Grow
        <4>8. pc' # "segv"
          BY <3>3 DEF Grow
        <4> QED BY <4>1, <4>5, <4>6, <4>7, <4>8
      <3>4. CASE GrowFails(a)
        BY <3>4 DEF Heap, GrowFails, Offt, PageOf
      <3>5. CASE GuestWrite(a)
        <4> SUFFICES ASSUME ~ragged PROVE Heap'
          BY <3>5 DEF GuestWrite, Heap
        <4>1. PageOf(a) \in mapped
          BY <3>5 DEF Heap, GuestWrite
        <4>2. PageOf(a) < PageOf(vbrk)
          <5> DEFINE q == a \div P
                     b == vbrk \div P
          <5>1. a \in Nat /\ a < vbrk
            BY <3>5, <2>c DEF GuestWrite
          <5>2. q \in Nat /\ (a % P) \in 0 .. (P - 1) /\ a = P * q + (a % P)
            BY <5>1, <2>c, DivMod
          <5>3. b \in Nat /\ vbrk = b * P
            BY <2>c, Boundary DEF Heap, Offt
          <5>4. P * q = q * P /\ q * P < b * P
            BY <5>1, <5>2, <5>3, <2>c
          <5>5. q < b
            BY <5>2, <5>3, <5>4, <2>c
          <5> QED BY <5>5 DEF PageOf
        <4> QED BY <3>5, <4>1, <4>2 DEF Heap, GuestWrite, Offt, PageOf
      <3> QED BY <2>4, <3>1, <3>2, <3>3, <3>4, <3>5
    <2> QED BY <2>1, <2>2, <2>3, <2>4 DEF Next
  <1>3. Heap => HeapIntact
    BY DEF Heap, HeapIntact
  <1> QED BY <1>1, <1>2, <1>3, BreakTyped, PTL DEF Spec

=============================================================================
