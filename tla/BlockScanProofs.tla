-------------------------- MODULE BlockScanProofs --------------------------
(***************************************************************************)
(* The search for the end of a block, proved for every page size, every    *)
(* memory and every block: it finds what a linear sweep finds.  The sweep  *)
(* is a recursive function; that it is well defined, and what it returns,  *)
(* is proved by induction in the form of sets.                             *)
(***************************************************************************)
EXTENDS BlockScan, WellFoundedInduction, TLAPS

----------------------------------------------------------------------------
(* The sweep.                                                              *)

\* Induction over the naturals, for a set.
LEMMA SetInduction ==
    ASSUME NEW S, 0 \in S, \A k \in Nat : k \in S => k + 1 \in S
    PROVE  \A k \in Nat : k \in S
  <1> DEFINE R == OpToRel(<, Nat)
             T == Nat \ S
  <1>1. IsWellFoundedOn(R, Nat)
    BY NatLessThanWellFounded, Zenon
  <1>2. \A x, y \in Nat : <<x, y>> \in R <=> x < y
    <2>1. R = {ss \in Nat \X Nat : ss[1] < ss[2]}
      BY Zenon DEF OpToRel
    <2> HIDE DEF R
    <2> QED BY <2>1
  <1> HIDE DEF R
  <1>3. SUFFICES ASSUME T # {} PROVE FALSE
    OBVIOUS
  <1>4. PICK x \in T : \A y \in T : ~(<<y, x>> \in R)
    BY <1>1, <1>3, WFMin, Zenon
  <1>5. x \in Nat /\ x # 0
    OBVIOUS
  <1>6. x - 1 \in Nat /\ x - 1 < x /\ (x - 1) + 1 = x
    BY <1>5
  <1>7. x - 1 \in T
    BY <1>6
  <1> QED BY <1>2, <1>4, <1>5, <1>6, <1>7

\* The places a sweep can be at, and one step of it.
Places == 0 .. (Top + P)
SweepStep(text, f, a) ==
    IF a \notin Addr \/ text[a].kind = "bad" THEN None
    ELSE IF text[a].kind = "cflow" THEN a
    ELSE f[a + text[a].len]

\* f is a sweep of the text from k on.
Solves(text, f, k) ==
    f \in [Places -> Int] /\ \A a \in Places : a >= k => f[a] = SweepStep(text, f, a)

\* Sizes.
LEMMA Sizes ==
    /\ P \in Nat \ {0} /\ Top \in Nat /\ MaxSz \in 1 .. P /\ Frames \in Nat \ {0}
    /\ LogP \in Nat /\ 2 ^ LogP = P
  <1>1. 2 ^ LogP \in Nat
    BY ScanAssumption, PowersOfTwo
  <1>2. P \in Nat /\ MaxSz \in 1 .. P
    BY <1>1, ScanAssumption
  <1> QED BY <1>2, ScanAssumption

\* An instruction of a text, and the place behind it.
LEMMA InsnAt ==
    ASSUME NEW text \in [Addr -> Insn], NEW a \in Addr
    PROVE  /\ text[a].len \in 1 .. MaxSz /\ text[a].kind \in {"straight", "cflow", "bad"}
           /\ a \in Nat /\ a < Top /\ a \in Places /\ a + text[a].len \in Places
           /\ a + text[a].len > a
  <1>1. text[a].len \in 1 .. MaxSz /\ text[a].kind \in {"straight", "cflow", "bad"}
    BY DEF Insn
  <1>2. a \in Nat /\ a < Top /\ text[a].len \in 1 .. P
    BY <1>1, Sizes DEF Addr
  <1> QED BY <1>1, <1>2, Sizes DEF Places

\* One more place can be added to a sweep.
LEMMA SolveOneMore ==
    ASSUME NEW text \in [Addr -> Insn], NEW k \in Places, NEW f, Solves(text, f, k + 1)
    PROVE  \E g : Solves(text, g, k)
  <1> DEFINE v == SweepStep(text, f, k)
             g == [f EXCEPT ![k] = v]
  <1>1. f \in [Places -> Int] /\ k \in Int /\ Places \subseteq Int
    BY Sizes DEF Solves, Places
  <1>2. v \in Int
    <2>1. CASE k \notin Addr \/ text[k].kind \in {"bad", "cflow"}
      BY <2>1, <1>1 DEF SweepStep, None
    <2>2. CASE k \in Addr /\ text[k].kind \notin {"bad", "cflow"}
      <3>1. k + text[k].len \in Places
        BY <2>2, InsnAt
      <3> QED BY <1>1, <2>2, <3>1 DEF SweepStep
    <2> QED BY <2>1, <2>2
  <1>3. g \in [Places -> Int] /\ g[k] = v /\ \A a \in Places : a # k => g[a] = f[a]
    BY <1>1, <1>2
  <1> HIDE DEF v, g
  <1>4. ASSUME NEW a \in Places, a >= k
        PROVE  SweepStep(text, g, a) = SweepStep(text, f, a)
    <2>1. CASE a \in Addr
      <3>1. a + text[a].len \in Places /\ a + text[a].len # k
        BY <1>1, <1>4, <2>1, InsnAt
      <3>2. g[a + text[a].len] = f[a + text[a].len]
        BY <1>3, <3>1
      <3> QED BY <3>2 DEF SweepStep
    <2>2. CASE a \notin Addr
      BY <2>2 DEF SweepStep
    <2> QED BY <2>1, <2>2
  <1>5. ASSUME NEW a \in Places, a >= k
        PROVE  g[a] = SweepStep(text, g, a)
    <2>1. CASE a = k
      BY <1>3, <1>4, <1>5, <2>1 DEF v
    <2>2. CASE a # k
      <3>1. a >= k + 1
        BY <1>1, <1>5, <2>2
      <3>2. f[a] = SweepStep(text, f, a)
        BY <3>1 DEF Solves
      <3> QED BY <1>3, <1>4, <1>5, <2>2, <3>2
    <2> QED BY <2>1, <2>2
  <1>6. Solves(text, g, k)
    BY <1>3, <1>5 DEF Solves
  <1> QED BY <1>6

\* Every text has a sweep.
LEMMA SweepExists ==
    ASSUME NEW text \in [Addr -> Insn]
    PROVE  \E f : Solves(text, f, 0)
  <1> DEFINE S == {j \in Nat : j <= Top + P + 1 => \E f : Solves(text, f, Top + P + 1 - j)}
  <1>1. 0 \in S
    <2> DEFINE f == [a \in Places |-> None]
    <2>1. f \in [Places -> Int]
      BY DEF None
    <2>2. \A a \in Places : ~(a >= Top + P + 1)
      BY Sizes DEF Places
    <2>3. Solves(text, f, Top + P + 1)
      BY <2>1, <2>2 DEF Solves
    <2>4. Top + P + 1 - 0 = Top + P + 1
      BY Sizes
    <2> QED BY <2>3, <2>4
  <1>2. ASSUME NEW j \in Nat, j \in S
        PROVE  j + 1 \in S
    <2> SUFFICES ASSUME j + 1 <= Top + P + 1
                 PROVE  \E f : Solves(text, f, Top + P + 1 - (j + 1))
      OBVIOUS
    <2> DEFINE k == Top + P + 1 - (j + 1)
    <2>1. k \in Places /\ Top + P + 1 - j = k + 1 /\ j <= Top + P + 1
      BY Sizes DEF Places
    <2>2. PICK f : Solves(text, f, Top + P + 1 - j)
      BY <1>2, <2>1
    <2>3. Solves(text, f, k + 1)
      BY <2>1, <2>2
    <2> HIDE DEF k
    <2>4. \E g : Solves(text, g, k)
      BY <2>1, <2>3, SolveOneMore
    <2> QED BY <2>4 DEF k
  <1>3. \A j \in Nat : j \in S
    <2> HIDE DEF S
    <2> QED BY <1>1, <1>2, SetInduction
  <1>4. Top + P + 1 \in Nat /\ Top + P + 1 - (Top + P + 1) = 0
    BY Sizes
  <1>5. Top + P + 1 \in S
    BY <1>3, <1>4
  <1> QED BY <1>4, <1>5

\* The sweep is what its definition says.
LEMMA SweepUnfolds ==
    ASSUME NEW text \in [Addr -> Insn]
    PROVE  \A a \in Places : Sweep(text)[a] = SweepStep(text, Sweep(text), a)
  <1> DEFINE Is(f) == f = [a \in Places |-> SweepStep(text, f, a)]
  <1>1. PICK f : Solves(text, f, 0)
    BY SweepExists
  <1>2. \A a \in Places : a >= 0
    BY Sizes DEF Places
  <1>3. Is(f)
    BY <1>1, <1>2 DEF Solves
  <1>4. Sweep(text) = CHOOSE g : Is(g)
    BY Zenon DEF Sweep, SweepStep, Places
  <1>5. Is(Sweep(text))
    <2> HIDE DEF Is
    <2> QED BY <1>3, <1>4, Zenon
  <1> QED BY <1>5, Zenon

\* It returns None or a place not before the one it starts at.
LEMMA SweepGoesOn ==
    ASSUME NEW text \in [Addr -> Insn]
    PROVE  \A a \in Places : Sweep(text)[a] = None \/ (Sweep(text)[a] \in Nat /\ Sweep(text)[a] >= a)
  <1> DEFINE f == Sweep(text)
             Good(a) == f[a] = None \/ (f[a] \in Nat /\ f[a] >= a)
             S == {j \in Nat : \A a \in Places : a >= Top + P + 1 - j => Good(a)}
  <1>1. \A a \in Places : f[a] = SweepStep(text, f, a)
    BY SweepUnfolds, Zenon
  <1>2. Places \subseteq Nat /\ \A a \in Places : a < Top + P + 1
    BY Sizes DEF Places
  <1> HIDE DEF f
  <1>3. 0 \in S
    <2>1. \A a \in Places : ~(a >= Top + P + 1 - 0)
      BY Sizes, <1>2
    <2> QED BY <2>1
  <1>4. ASSUME NEW j \in Nat, j \in S
        PROVE  j + 1 \in S
    <2> SUFFICES ASSUME NEW a \in Places, a >= Top + P + 1 - (j + 1)
                 PROVE  Good(a)
      OBVIOUS
    <2>1. f[a] = SweepStep(text, f, a)
      BY <1>1
    <2>2. CASE a \notin Addr \/ text[a].kind = "bad"
      BY <2>1, <2>2 DEF SweepStep
    <2>3. CASE a \in Addr /\ text[a].kind = "cflow"
      <3>1. f[a] = a
        BY <2>1, <2>3 DEF SweepStep
      <3> QED BY <3>1, <1>2
    <2>4. CASE a \in Addr /\ text[a].kind \notin {"cflow", "bad"}
      <3> DEFINE b == a + text[a].len
      <3>1. f[a] = f[b]
        BY <2>1, <2>4 DEF SweepStep
      <3>2. b \in Places /\ b > a
        BY <2>4, InsnAt
      <3> HIDE DEF b
      <3>3. b >= Top + P + 1 - j /\ b \in Nat /\ a \in Nat
        BY <1>2, <3>2, Sizes
      <3>4. Good(b)
        BY <1>4, <3>2, <3>3
      <3> QED BY <3>1, <3>2, <3>3, <3>4
    <2> QED BY <2>2, <2>3, <2>4
  <1>5. \A j \in Nat : j \in S
    <2> HIDE DEF S
    <2> QED BY <1>3, <1>4, SetInduction
  <1>6. Top + P + 1 \in S /\ Top + P + 1 - (Top + P + 1) = 0
    BY <1>5, Sizes
  <1>7. \A a \in Places : Good(a)
    BY <1>2, <1>6
  <1> QED BY <1>7 DEF f

----------------------------------------------------------------------------
(* The inductive invariant.                                                *)

\* Where the innermost call stands: not before the base, what it has read is mapped,
\* and the first instruction it has stepped over was whole.
Placed ==
    /\ block.base <= addr
    /\ pc = "read" => n = 0
    /\ pc \in {"loop", "found"} =>
          /\ addr + P - 1 \in Addr
          /\ saved_size = Counted(addr)
          /\ n # 0 => block.text[addr].kind # "bad" /\ n >= block.text[addr].len
    /\ pc = "found" => n < P

\* The search never leaves the path of the sweep: the system call in front is
\* still to be stepped over, or the sweep from here ends where the block does.
OnPath ==
    /\ curr_syscall => /\ beg /\ n = 0 /\ addr = block.base /\ block.curr_syscall
                       /\ pc \notin {"found", "done"}
    /\ ~curr_syscall => Sweep(block.text)[addr + n] = BlockEnd
    /\ pc \in {"found", "done"} => addr + n = BlockEnd

\* Calls in the pages before this one, and the pages since the start.
Gone  == PageOf(addr) - PageOf(block.base)
Spent == Gone * (LogP + 1)

\* Either the offset has doubled with every call in this page, or the next step
\* leaves the page or ends the search.
Doubles ==
    \E k \in 0 .. LogP : depth <= Spent + k + 1 /\ (k = 0 \/ 2 ^ k <= Offt(addr))
Leaves ==
    /\ depth <= Spent + LogP + 1
    /\ addr \in Addr
    /\ block.text[addr].kind = "bad" \/ Offt(addr) + block.text[addr].len >= P

IInv == /\ TypeOK /\ Placed /\ OnPath /\ FailsForReason
        /\ Gone \in Nat /\ (Doubles \/ Leaves)

----------------------------------------------------------------------------
(* Pages and frames.                                                       *)

\* A number is its quotient times the divisor, and its remainder; they are
\* the only ones.
LEMMA Division ==
    ASSUME NEW d \in Nat \ {0}, NEW a \in Nat
    PROVE  /\ a \div d \in Nat /\ a % d \in 0 .. (d - 1)
           /\ a = d * (a \div d) + (a % d)
           /\ \A q \in Nat : q * d <= a /\ a < (q + 1) * d => a \div d = q
  OBVIOUS

\* A step of at most a page stays in the page, or goes to the next one.
LEMMA PageStep ==
    ASSUME NEW a \in Nat, NEW m \in 0 .. P
    PROVE  /\ Offt(a) \in 0 .. (P - 1) /\ PageOf(a) \in Nat
           /\ Offt(a) + m < P => PageOf(a + m) = PageOf(a) /\ Offt(a + m) = Offt(a) + m
           /\ Offt(a) + m >= P => PageOf(a + m) = PageOf(a) + 1
  <1> DEFINE q == a \div P
             o == a % P
             b == a + m
  <1>1. P \in Nat \ {0} /\ b \in Nat /\ m \in Nat /\ m <= P
    BY Sizes
  <1>2. q \in Nat /\ o \in 0 .. (P - 1) /\ a = P * q + o
    BY <1>1, Division
  <1>3. /\ b = P * (b \div P) + (b % P)
        /\ \A k \in Nat : k * P <= b /\ b < (k + 1) * P => b \div P = k
    BY <1>1, Division
  <1> HIDE DEF q, o
  <1>4. b = P * q + o + m
    BY <1>1, <1>2
  <1> HIDE DEF b
  <1>5. P * q = q * P /\ (q + 1) * P = q * P + P /\ (q + 1 + 1) * P = q * P + P + P
        /\ q * P \in Nat
    BY <1>1, <1>2
  <1>6. o + m < P => b \div P = q
    <2> HAVE o + m < P
    <2>1. q * P <= b /\ b < (q + 1) * P
      BY <1>1, <1>2, <1>4, <1>5
    <2> QED BY <1>2, <1>3, <2>1
  <1>7. o + m >= P => b \div P = q + 1
    <2> HAVE o + m >= P
    <2>1. (q + 1) * P <= b /\ b < (q + 1 + 1) * P
      BY <1>1, <1>2, <1>4, <1>5
    <2>2. q + 1 \in Nat
      BY <1>2
    <2> QED BY <1>3, <2>1, <2>2
  <1>8. o + m < P => b % P = o + m
    <2> HAVE o + m < P
    <2>1. b = P * q + (b % P)
      BY <1>3, <1>6
    <2>2. b % P \in Int
      BY <1>1
    <2> QED BY <1>1, <1>2, <1>4, <1>5, <2>1, <2>2
  <1> QED BY <1>2, <1>6, <1>7, <1>8 DEF q, o, b, PageOf, Offt

\* A new page pays for LogP + 1 calls.
LEMMA NewPage ==
    ASSUME NEW g \in Nat
    PROVE  g * (LogP + 1) \in Nat /\ (g + 1) * (LogP + 1) = g * (LogP + 1) + LogP + 1
  BY Sizes

\* The parts of a block.
LEMMA BlockParts ==
    ASSUME block \in Layouts
    PROVE  /\ block.text \in [Addr -> Insn] /\ block.base \in Addr
           /\ block.curr_syscall \in BOOLEAN
           /\ block.base \in Nat /\ block.base < Top
  BY Sizes DEF Layouts, Addr

\* Fields of the type invariant.
LEMMA Typed ==
    ASSUME TypeOK
    PROVE  /\ addr \in Nat /\ addr <= Top /\ n \in Nat /\ n <= P /\ n \in 0 .. P
           /\ depth \in Nat /\ depth >= 1 /\ depth <= Frames /\ saved_size \in 1 .. P
           /\ addr + n \in Places
  BY Sizes DEF TypeOK, Places

\* The calls are bounded either way.
LEMMA BoundedEitherWay ==
    ASSUME TypeOK, Gone \in Nat, Doubles \/ Leaves
    PROVE  Spent \in Nat /\ depth <= Spent + LogP + 1
  <1>1. Spent \in Nat
    BY NewPage DEF Spent
  <1>2. CASE Leaves
    BY <1>1, <1>2 DEF Leaves
  <1>3. CASE Doubles
    <2>1. PICK k \in 0 .. LogP : depth <= Spent + k + 1
      BY <1>3 DEF Doubles
    <2>2. k \in Nat /\ k <= LogP /\ LogP \in Nat /\ depth \in Nat
      BY Sizes, Typed
    <2> QED BY <1>1, <2>1, <2>2
  <1> QED BY <1>1, <1>2, <1>3

\* What depends on the block, the address and the depth alone stays with them.
LEMMA FrameKept ==
    ASSUME block' = block, addr' = addr, depth' = depth, Gone \in Nat, Doubles \/ Leaves
    PROVE  Gone' \in Nat /\ (Doubles' \/ Leaves')
  BY DEF Gone, Spent, Doubles, Leaves, PageOf, Offt

\* The end of the block is a matter of the block.
LEMMA EndKept ==
    ASSUME block' = block
    PROVE  BlockEnd' = BlockEnd
  BY Zenon DEF BlockEnd, Reruns

----------------------------------------------------------------------------
(* One step.                                                               *)

\* mem_read delivers a page and counts the last chunk of it.
LEMMA ReadStep ==
    ASSUME IInv, Read
    PROVE  IInv'
  <1>1. /\ block' = block /\ addr' = addr /\ n' = n /\ beg' = beg /\ depth' = depth
        /\ curr_syscall' = curr_syscall /\ pc = "read" /\ pc' = "loop"
        /\ saved_size' = Counted(addr) /\ addr + P - 1 \in Addr
    BY DEF Read
  <1>2. Counted(addr) \in 1 .. P
    <2>1. addr \in Nat /\ 0 \in 0 .. P
      BY Typed, Sizes DEF IInv
    <2>2. Offt(addr) \in 0 .. (P - 1)
      BY <2>1, PageStep
    <2> QED BY <2>2, Sizes DEF Counted, LastChunk
  <1>3. TypeOK'
    BY <1>1, <1>2, Zenon DEF IInv, TypeOK
  <1>4. Placed'
    <2>1. n = 0
      BY <1>1 DEF IInv, Placed
    <2>2. Counted(addr)' = Counted(addr)
      BY <1>1 DEF Counted, LastChunk, Offt, PageOf
    <2> QED BY <1>1, <2>1, <2>2 DEF IInv, Placed
  <1>5. OnPath'
    <2>1. BlockEnd' = BlockEnd
      BY <1>1, EndKept
    <2> QED BY <1>1, <2>1, Zenon DEF IInv, OnPath
  <1>6. FailsForReason'
    BY <1>1 DEF FailsForReason
  <1>7. Gone' \in Nat /\ (Doubles' \/ Leaves')
    BY <1>1, FrameKept DEF IInv
  <1> QED BY <1>3, <1>4, <1>5, <1>6, <1>7 DEF IInv

\* The block ends nowhere or not before the place of the search.
LEMMA EndAhead ==
    ASSUME IInv
    PROVE  BlockEnd = None \/ (BlockEnd \in Nat /\ BlockEnd >= addr + n)
  <1>1. block.text \in [Addr -> Insn] /\ block.base \in Addr
    BY BlockParts DEF IInv, TypeOK
  <1>2. addr + n \in Places
    BY Typed DEF IInv
  <1>3. CASE ~curr_syscall
    BY <1>1, <1>2, <1>3, SweepGoesOn DEF IInv, OnPath
  <1>4. CASE curr_syscall
    <2> DEFINE b == block.base + IF Reruns THEN block.text[block.base].len ELSE 0
    <2>1. addr = block.base /\ n = 0
      BY <1>4 DEF IInv, OnPath
    <2>2. /\ block.text[block.base].len \in Nat /\ block.base \in Nat /\ block.base \in Places
          /\ block.base + block.text[block.base].len \in Places
      <3>1. MaxSz \in Nat
        BY Sizes
      <3> QED BY <1>1, <3>1, InsnAt
    <2>3. b \in Places /\ b >= block.base /\ b \in Nat
      BY <2>2
    <2>4. BlockEnd = Sweep(block.text)[b]
      BY Zenon DEF BlockEnd
    <2> HIDE DEF b
    <2>5. BlockEnd = None \/ (BlockEnd \in Nat /\ BlockEnd >= b)
      BY <1>1, <2>3, <2>4, SweepGoesOn
    <2> QED BY <2>1, <2>2, <2>3, <2>5
  <1> QED BY <1>3, <1>4

\* A read that runs into unmapped memory.
LEMMA ReadFaultStep ==
    ASSUME IInv, ReadFault
    PROVE  IInv'
  <1>1. /\ block' = block /\ addr' = addr /\ n' = n /\ beg' = beg /\ depth' = depth
        /\ curr_syscall' = curr_syscall /\ saved_size' = saved_size
        /\ pc = "read" /\ pc' = "fault" /\ addr + P - 1 \notin Addr
    BY DEF ReadFault
  <1>2. TypeOK'
    BY <1>1, Zenon DEF IInv, TypeOK
  <1>3. Placed'
    BY <1>1 DEF IInv, Placed
  <1>4. BlockEnd' = BlockEnd
    BY <1>1, EndKept
  <1>5. OnPath'
    <2>1. pc' \notin {"found", "done"}
      BY <1>1
    <2> QED BY <1>1, <1>4, <2>1, Zenon DEF IInv, OnPath
  <1>6. FailsForReason'
    <2>1. n = 0 /\ addr \in Nat
      BY <1>1, Typed DEF IInv, Placed
    <2>2. addr + P - 1 >= Top
      BY <1>1, <2>1, Sizes DEF Addr
    <2>3. BlockEnd = None \/ (BlockEnd \in Nat /\ BlockEnd >= addr + n)
      BY EndAhead
    <2>4. BlockEnd = None \/ BlockEnd + P - 1 \notin Addr
      BY <2>1, <2>2, <2>3, Sizes DEF Addr
    <2> QED BY <1>1, <1>4, <2>4 DEF FailsForReason
  <1>7. Gone' \in Nat /\ (Doubles' \/ Leaves')
    BY <1>1, FrameKept DEF IInv
  <1> QED BY <1>2, <1>3, <1>5, <1>6, <1>7 DEF IInv

\* A page that mprotect refuses.
LEMMA ReadRefusedStep ==
    ASSUME IInv, ReadRefused
    PROVE  IInv'
  <1>1. /\ block' = block /\ addr' = addr /\ n' = n /\ beg' = beg /\ depth' = depth
        /\ curr_syscall' = curr_syscall /\ saved_size' = saved_size
        /\ pc = "read" /\ pc' = "refused" /\ addr \in Addr /\ PageOf(addr) \in block.sealed
    BY DEF ReadRefused, Refused
  <1>2. TypeOK'
    BY <1>1, Zenon DEF IInv, TypeOK
  <1>3. Placed'
    BY <1>1 DEF IInv, Placed
  <1>4. BlockEnd' = BlockEnd
    BY <1>1, EndKept
  <1>5. OnPath'
    <2>1. pc' \notin {"found", "done"}
      BY <1>1
    <2> QED BY <1>1, <1>4, <2>1, Zenon DEF IInv, OnPath
  <1>6. FailsForReason'
    <2>1. n = 0 /\ addr \in Nat /\ addr + n = addr /\ block.base <= addr
      BY <1>1, Typed DEF IInv, Placed
    <2>2. BlockEnd = None \/ addr <= BlockEnd
      BY <2>1, EndAhead
    <2> QED BY <1>1, <1>4, <2>1, <2>2 DEF FailsForReason, PageOf
  <1>7. Gone' \in Nat /\ (Doubles' \/ Leaves')
    BY <1>1, FrameKept DEF IInv
  <1> QED BY <1>2, <1>3, <1>5, <1>6, <1>7 DEF IInv

\* The instruction the loop is at, while there are counted bytes.
LEMMA InLoop ==
    ASSUME IInv, pc \in {"loop", "found"}
    PROVE  /\ block.text \in [Addr -> Insn] /\ addr \in Addr
           /\ n < P => /\ addr + n \in Addr
                       /\ At.len \in 1 .. P /\ At.kind \in {"straight", "cflow", "bad"}
                       /\ addr + n \in Places /\ addr + n + At.len \in Places
  <1>1. block.text \in [Addr -> Insn]
    BY BlockParts DEF IInv, TypeOK
  <1>2. addr + P - 1 \in Addr
    BY DEF IInv, Placed
  <1>3. addr \in Nat /\ n \in Nat /\ P \in Nat \ {0} /\ Top \in Nat
    BY Typed, Sizes DEF IInv
  <1>4. addr \in Addr /\ (n < P => addr + n \in Addr)
    BY <1>2, <1>3 DEF Addr
  <1>5. ASSUME n < P
        PROVE  /\ At.len \in 1 .. P /\ At.kind \in {"straight", "cflow", "bad"}
               /\ addr + n \in Places /\ addr + n + At.len \in Places
    <2>1. /\ block.text[addr + n].len \in 1 .. MaxSz
          /\ block.text[addr + n].kind \in {"straight", "cflow", "bad"}
          /\ addr + n \in Places /\ addr + n + block.text[addr + n].len \in Places
      BY <1>1, <1>4, <1>5, InsnAt
    <2>2. block.text[addr + n].len \in 1 .. P
      BY <2>1, Sizes
    <2> QED BY <2>1, <2>2 DEF At
  <1> QED BY <1>1, <1>4, <1>5

\* One step of the sweep from where the loop is.
LEMMA SweepHere ==
    ASSUME IInv, pc = "loop", n < P
    PROVE  /\ At.kind = "bad" => Sweep(block.text)[addr + n] = None
           /\ At.kind = "cflow" => Sweep(block.text)[addr + n] = addr + n
           /\ At.kind = "straight" =>
                 Sweep(block.text)[addr + n] = Sweep(block.text)[addr + n + At.len]
  <1>1. block.text \in [Addr -> Insn] /\ addr + n \in Addr /\ addr + n \in Places
    BY InLoop
  <1>2. Sweep(block.text)[addr + n] = SweepStep(block.text, Sweep(block.text), addr + n)
    BY <1>1, SweepUnfolds
  <1> QED BY <1>1, <1>2 DEF SweepStep, At

\* An instruction is stepped over.
LEMMA StepOverStep ==
    ASSUME IInv, StepOver
    PROVE  IInv'
  <1>1. /\ block' = block /\ addr' = addr /\ n' = n + At.len /\ beg' = FALSE /\ depth' = depth
        /\ curr_syscall' = FALSE /\ saved_size' = saved_size /\ pc = "loop" /\ pc' = "loop"
    BY DEF StepOver
  <1>2. n < saved_size /\ At.kind # "bad" /\ n + At.len <= P
    BY DEF StepOver, Decodes
  <1>3. At.kind = "cflow" => beg /\ curr_syscall
    BY DEF StepOver, IsEnd
  <1>4. n \in Nat /\ n < P /\ addr \in Nat /\ P \in Nat
    BY <1>2, Typed, Sizes DEF IInv
  <1>5. At.len \in 1 .. P /\ At.kind \in {"straight", "cflow", "bad"}
    BY <1>1, <1>4, InLoop
  <1>6. n' \in 0 .. P
    BY <1>1, <1>2, <1>4, <1>5
  <1>7. TypeOK'
    BY <1>1, <1>6, Zenon DEF IInv, TypeOK
  <1>8. BlockEnd' = BlockEnd
    BY <1>1, EndKept
  <1>9. Placed'
    <2>1. Counted(addr)' = Counted(addr)
      BY <1>1 DEF Counted, LastChunk, Offt, PageOf
    <2>2. addr + P - 1 \in Addr /\ saved_size = Counted(addr) /\ block.base <= addr
      BY <1>1 DEF IInv, Placed
    <2>3. block.text[addr].kind # "bad" /\ n' >= block.text[addr].len
      <3>1. CASE n = 0
        <4>1. addr + n = addr /\ n' = At.len
          BY <1>1, <1>4, <1>5, <3>1
        <4> QED BY <1>2, <1>5, <4>1 DEF At
      <3>2. CASE n # 0
        <4>1. block.text[addr].kind # "bad" /\ n >= block.text[addr].len
          BY <1>1, <3>2 DEF IInv, Placed
        <4>2. block.text[addr].len \in Nat
          <5>1. block.text \in [Addr -> Insn] /\ addr \in Addr
            BY <1>1, InLoop
          <5> QED BY <5>1, InsnAt, Sizes
        <4> QED BY <1>1, <1>4, <1>5, <4>1, <4>2
      <3> QED BY <3>1, <3>2
    <2> QED BY <1>1, <2>1, <2>2, <2>3 DEF Placed
  <1>10. OnPath'
    <2>1. addr + (n + At.len) = addr + n + At.len
      BY <1>4, <1>5
    <2>2. Sweep(block.text)[addr + n + At.len] = BlockEnd
      <3>1. CASE At.kind = "straight" /\ ~curr_syscall
        <4>1. Sweep(block.text)[addr + n] = BlockEnd
          BY <3>1 DEF IInv, OnPath
        <4> QED BY <1>1, <1>4, <3>1, <4>1, SweepHere
      <3>2. CASE At.kind = "straight" /\ curr_syscall
        <4>1. n = 0 /\ addr = block.base
          BY <3>2 DEF IInv, OnPath
        <4>2. addr + n = block.base /\ block.base + 0 = block.base
          BY <1>4, <4>1
        <4>3. ~Reruns
          BY <3>2, <4>2 DEF Reruns, At
        <4>4. BlockEnd = Sweep(block.text)[block.base]
          BY <4>2, <4>3, Zenon DEF BlockEnd
        <4> QED BY <1>1, <1>4, <3>2, <4>2, <4>4, SweepHere
      <3>3. CASE At.kind = "cflow"
        <4>1. n = 0 /\ addr = block.base /\ block.curr_syscall
          BY <1>3, <3>3 DEF IInv, OnPath
        <4>2. addr + n = block.base
          BY <1>4, <4>1
        <4>3. Reruns
          BY <3>3, <4>1, <4>2 DEF Reruns, At
        <4>4. BlockEnd = Sweep(block.text)[block.base + block.text[block.base].len]
          BY <4>3, Zenon DEF BlockEnd
        <4> QED BY <4>2, <4>4 DEF At
      <3> QED BY <1>2, <1>5, <3>1, <3>2, <3>3
    <2>3. addr' + n' = addr + n + At.len
      BY <1>1, <2>1
    <2>4. Sweep(block.text)'[addr' + n'] = BlockEnd'
      BY <1>1, <1>8, <2>2, <2>3
    <2> QED BY <1>1, <2>4 DEF OnPath
  <1>11. FailsForReason'
    BY <1>1 DEF FailsForReason
  <1>12. Gone' \in Nat /\ (Doubles' \/ Leaves')
    BY <1>1, FrameKept DEF IInv
  <1> QED BY <1>7, <1>9, <1>10, <1>11, <1>12 DEF IInv

\* Control flow is found.
LEMMA FoundStep ==
    ASSUME IInv, Found
    PROVE  IInv'
  <1>1. /\ block' = block /\ addr' = addr /\ n' = n /\ beg' = beg /\ depth' = depth
        /\ curr_syscall' = curr_syscall /\ saved_size' = saved_size
        /\ pc = "loop" /\ pc' = "found"
    BY DEF Found
  <1>2. n < saved_size /\ At.kind = "cflow" /\ ~(beg /\ curr_syscall)
    BY DEF Found, Decodes, IsEnd
  <1>3. n < P
    BY <1>2, Typed, Sizes DEF IInv
  <1>4. ~curr_syscall
    BY <1>2 DEF IInv, OnPath
  <1>5. BlockEnd' = BlockEnd
    BY <1>1, EndKept
  <1>6. TypeOK'
    BY <1>1, Zenon DEF IInv, TypeOK
  <1>7. Placed'
    <2>1. Counted(addr)' = Counted(addr)
      BY <1>1 DEF Counted, LastChunk, Offt, PageOf
    <2> QED BY <1>1, <1>3, <2>1 DEF IInv, Placed
  <1>8. OnPath'
    <2>1. Sweep(block.text)[addr + n] = BlockEnd
      BY <1>4 DEF IInv, OnPath
    <2>2. addr + n = BlockEnd
      BY <1>1, <1>2, <1>3, <2>1, SweepHere
    <2> QED BY <1>1, <1>4, <1>5, <2>1, <2>2 DEF OnPath
  <1>9. FailsForReason'
    BY <1>1 DEF FailsForReason
  <1>10. Gone' \in Nat /\ (Doubles' \/ Leaves')
    BY <1>1, FrameKept DEF IInv
  <1> QED BY <1>6, <1>7, <1>8, <1>9, <1>10 DEF IInv

\* Nothing decodes, or a frame too many: the search ends.
LEMMA FoundNothingStep ==
    ASSUME IInv, FoundNothing
    PROVE  IInv'
  <1>1. /\ block' = block /\ addr' = addr /\ n' = n /\ beg' = beg /\ depth' = depth
        /\ curr_syscall' = curr_syscall /\ saved_size' = saved_size
        /\ pc = "loop" /\ pc' = "fatal" /\ n = 0 /\ ~Decodes
    BY DEF FoundNothing
  <1>2. n < saved_size /\ n < P /\ addr + n = addr
    BY <1>1, Typed, Sizes DEF IInv
  <1>3. At.kind = "bad"
    <2>1. At.len \in 1 .. P
      BY <1>1, <1>2, InLoop
    <2>2. n + At.len <= P
      BY <1>1, <2>1, Sizes
    <2> QED BY <1>1, <1>2, <2>2 DEF Decodes
  <1>4. BlockEnd' = BlockEnd
    BY <1>1, EndKept
  <1>5. TypeOK'
    BY <1>1, Zenon DEF IInv, TypeOK
  <1>6. Placed'
    BY <1>1 DEF IInv, Placed
  <1>7. OnPath'
    <2>1. pc' \notin {"found", "done"}
      BY <1>1
    <2> QED BY <1>1, <1>4, <2>1, Zenon DEF IInv, OnPath
  <1>8. FailsForReason'
    <2>1. Sweep(block.text)[addr + n] = None
      BY <1>1, <1>2, <1>3, SweepHere
    <2>2. BlockEnd = None
      <3>1. CASE ~curr_syscall
        BY <2>1, <3>1 DEF IInv, OnPath
      <3>2. CASE curr_syscall
        <4>1. addr = block.base
          BY <3>2 DEF IInv, OnPath
        <4>2. ~Reruns
          BY <1>2, <1>3, <4>1 DEF Reruns, At
        <4>3. block.base + 0 = block.base /\ addr + n = block.base
          BY <1>2, <4>1, Typed DEF IInv
        <4> QED BY <2>1, <4>2, <4>3, Zenon DEF BlockEnd
      <3> QED BY <3>1, <3>2
    <2> QED BY <1>1, <1>4, <2>2 DEF FailsForReason
  <1>9. Gone' \in Nat /\ (Doubles' \/ Leaves')
    BY <1>1, FrameKept DEF IInv
  <1> QED BY <1>5, <1>6, <1>7, <1>8, <1>9 DEF IInv

\* The stack of the host is full.
LEMMA OverflowStep ==
    ASSUME IInv, Overflow
    PROVE  IInv'
  <1>1. /\ block' = block /\ addr' = addr /\ n' = n /\ beg' = beg /\ depth' = depth
        /\ curr_syscall' = curr_syscall /\ saved_size' = saved_size
        /\ pc' = "overflow"
    BY DEF Overflow
  <1>2. TypeOK'
    BY <1>1, Zenon DEF IInv, TypeOK
  <1>3. Placed' /\ FailsForReason'
    BY <1>1 DEF IInv, Placed, FailsForReason
  <1>4. OnPath'
    <2>1. pc' \notin {"found", "done"}
      BY <1>1
    <2>2. BlockEnd' = BlockEnd
      BY <1>1, EndKept
    <2> QED BY <1>1, <2>1, <2>2, Zenon DEF IInv, OnPath
  <1>5. Gone' \in Nat /\ (Doubles' \/ Leaves')
    BY <1>1, FrameKept DEF IInv
  <1> QED BY <1>2, <1>3, <1>4, <1>5 DEF IInv

\* insn_len reads what was found, or runs into unmapped memory.
LEMMA InsnLenStep ==
    ASSUME IInv, InsnLen
    PROVE  IInv'
  <1>1. /\ block' = block /\ addr' = addr /\ n' = n /\ beg' = beg /\ depth' = depth
        /\ curr_syscall' = curr_syscall /\ saved_size' = saved_size /\ pc = "found"
        /\ pc' = IF addr + n + MaxSz - 1 \in Addr THEN "done" ELSE "fault"
    BY DEF InsnLen
  <1>2. pc' \in {"done", "fault"} /\ (pc' = "fault" => addr + n + MaxSz - 1 \notin Addr)
    BY <1>1
  <1>3. addr + n = BlockEnd /\ ~curr_syscall
    BY <1>1 DEF IInv, OnPath
  <1>4. BlockEnd' = BlockEnd
    BY <1>1, EndKept
  <1>5. TypeOK'
    BY <1>1, <1>2, Zenon DEF IInv, TypeOK
  <1>6. Placed'
    BY <1>1, <1>2 DEF IInv, Placed
  <1>7. OnPath'
    BY <1>1, <1>3, <1>4, Zenon DEF IInv, OnPath
  <1>8. FailsForReason'
    <2> SUFFICES ASSUME pc' = "fault"
                 PROVE  BlockEnd' + P - 1 \notin Addr
      BY <1>2 DEF FailsForReason
    <2>1. addr \in Nat /\ n \in Nat /\ MaxSz \in 1 .. P /\ P \in Nat /\ Top \in Nat
      BY Typed, Sizes DEF IInv
    <2>2. addr + n + P - 1 \notin Addr
      BY <1>2, <2>1 DEF Addr
    <2> QED BY <1>3, <1>4, <2>2
  <1>9. Gone' \in Nat /\ (Doubles' \/ Leaves')
    BY <1>1, FrameKept DEF IInv
  <1> QED BY <1>5, <1>6, <1>7, <1>8, <1>9 DEF IInv

\* A call from offset o of a page leads to the next page, or to twice the offset
\* at least, or to an instruction that leaves the page or does not decode.
LEMMA RecurseFrames ==
    ASSUME IInv, Recurse
    PROVE  Gone' \in Nat /\ (Doubles' \/ Leaves')
  <1> DEFINE o == Offt(addr)
             q == PageOf(addr)
  <1>1. /\ block' = block /\ addr' = addr + n /\ depth' = depth + 1
        /\ pc = "loop" /\ n # 0 /\ ~Decodes
    BY DEF Recurse
  <1>2. /\ addr \in Nat /\ n \in Nat /\ n > 0 /\ n <= P /\ n \in 0 .. P /\ depth \in Nat
        /\ LogP \in Nat /\ P \in Nat \ {0} /\ 2 ^ LogP = P
    BY <1>1, Typed, Sizes DEF IInv
  <1>3. /\ o \in 0 .. (P - 1) /\ q \in Nat
        /\ o + n < P => PageOf(addr + n) = q /\ Offt(addr + n) = o + n
        /\ o + n >= P => PageOf(addr + n) = q + 1
    BY <1>2, PageStep
  <1>4. saved_size = P - o \/ saved_size = IF o = 0 THEN P ELSE o
    BY <1>1 DEF IInv, Placed, Counted, LastChunk
  <1>5. block.text[addr].kind # "bad" /\ n >= block.text[addr].len
    BY <1>1 DEF IInv, Placed
  <1>6. Gone \in Nat /\ Spent \in Nat /\ depth <= Spent + LogP + 1
    BY BoundedEitherWay DEF IInv
  <1>7. block.text \in [Addr -> Insn] /\ addr \in Addr /\ block.base \in Nat
    BY <1>1, InLoop, BlockParts DEF IInv, TypeOK
  <1>8. PageOf(block.base) \in Nat
    <2>1. 0 \in 0 .. P
      BY Sizes
    <2> QED BY <1>7, <2>1, PageStep
  <1>9. block.text[addr].len \in Nat
    BY <1>7, InsnAt, Sizes
  <1>10. CASE o + n >= P
    <2>1. Gone' = Gone + 1
      BY <1>1, <1>3, <1>8, <1>10 DEF Gone, PageOf
    <2>2. Gone' \in Nat
      BY <1>6, <2>1
    <2>3. Spent' = Spent + LogP + 1
      BY <1>6, <2>1, NewPage DEF Spent
    <2>4. depth' <= Spent' + 0 + 1 /\ 0 \in 0 .. LogP
      BY <1>1, <1>2, <1>6, <2>3
    <2>5. Doubles'
      BY <2>4 DEF Doubles
    <2> QED BY <2>2, <2>5
  <1>11. CASE o + n < P
    <2>1. Gone' = Gone /\ Spent' = Spent /\ Offt(addr)' = o + n
      BY <1>1, <1>3, <1>11 DEF Gone, Spent, PageOf, Offt
    <2>2. PICK k \in 0 .. LogP : depth <= Spent + k + 1 /\ (k = 0 \/ 2 ^ k <= o)
      <3>1. ~Leaves
        BY <1>2, <1>3, <1>5, <1>9, <1>11 DEF Leaves
      <3> QED BY <3>1 DEF IInv, Doubles
    <2>3. k < LogP
      <3>1. CASE k = 0
        <4>1. P > 1
          BY <1>2, <1>3, <1>11
        <4>2. LogP # 0
          <5>1. LogP = 0 => P = 1
            BY <1>2, PowersOfTwo, Zenon
          <5> QED BY <4>1, <5>1
        <4> QED BY <1>2, <3>1, <4>2
      <3>2. CASE k # 0
        <4>1. k # LogP
          BY <1>2, <1>3, <2>2, <3>2
        <4> QED BY <1>2, <4>1
      <3> QED BY <3>1, <3>2
    <2>4. CASE n >= saved_size
      <3>1. o > 0 /\ n >= o
        BY <1>2, <1>3, <1>4, <1>11, <2>4
      <3>2. 2 ^ k \in Nat /\ 2 ^ (k + 1) = 2 * 2 ^ k /\ 2 ^ k <= o
        <4>1. 2 ^ k \in Nat /\ 2 ^ (k + 1) = 2 * 2 ^ k
          BY PowersOfTwo
        <4>2. k = 0 => 2 ^ k = 1
          BY PowersOfTwo
        <4> QED BY <1>3, <2>2, <3>1, <4>1, <4>2
      <3>3. 2 ^ (k + 1) <= o + n
        <4> DEFINE e == 2 ^ k
        <4>1. e \in Nat /\ e <= o /\ 2 ^ (k + 1) = 2 * e
          BY <3>2
        <4> HIDE DEF e
        <4>2. 2 * e <= o + n
          BY <1>2, <1>3, <3>1, <4>1
        <4> QED BY <4>1, <4>2
      <3>4. k + 1 \in 0 .. LogP /\ depth' <= Spent' + (k + 1) + 1
        BY <1>1, <1>2, <1>6, <2>1, <2>2, <2>3
      <3>5. Doubles'
        BY <2>1, <3>3, <3>4 DEF Doubles
      <3> QED BY <1>6, <2>1, <3>5
    <2>5. CASE n < saved_size
      <3>1. n < P
        BY <1>2, <1>11, <1>3
      <3>2. /\ addr + n \in Addr /\ At.len \in 1 .. P
        BY <1>1, <3>1, InLoop
      <3>3. At.kind = "bad" \/ n + At.len > P
        BY <1>1, <1>2, <2>5, <3>2 DEF Decodes
      <3>4. At.kind = "bad" \/ o + n + At.len >= P
        BY <1>2, <1>3, <3>2, <3>3
      <3>5. block'.text[addr'] = At
        BY <1>1 DEF At
      <3>6. depth' <= Spent' + LogP + 1
        BY <1>1, <1>2, <1>6, <2>1, <2>2, <2>3
      <3>7. Leaves'
        BY <1>1, <2>1, <3>2, <3>4, <3>5, <3>6 DEF Leaves
      <3> QED BY <1>6, <2>1, <3>7
    <2>6. saved_size \in Int
      BY <1>2, <1>3, <1>4
    <2> QED BY <1>2, <2>4, <2>5, <2>6
  <1> QED BY <1>2, <1>3, <1>10, <1>11

\* The search goes on in a call of its own.
LEMMA RecurseStep ==
    ASSUME IInv, Recurse
    PROVE  IInv'
  <1>1. /\ block' = block /\ addr' = addr + n /\ n' = 0 /\ beg' = TRUE /\ depth' = depth + 1
        /\ curr_syscall' = curr_syscall /\ saved_size' = saved_size
        /\ pc = "loop" /\ pc' = "read" /\ n # 0 /\ depth < Frames
    BY DEF Recurse
  <1>2. /\ addr \in Nat /\ n \in Nat /\ n <= P /\ depth \in Nat /\ Frames \in Nat
        /\ P \in Nat /\ Top \in Nat
    BY Typed, Sizes DEF IInv
  <1>3. TypeOK'
    <2>1. addr + P - 1 \in Addr
      BY <1>1 DEF IInv, Placed
    <2>2. addr' \in 0 .. Top
      BY <1>1, <1>2, <2>1 DEF Addr
    <2>3. n' \in 0 .. P /\ depth' \in 1 .. Frames
      BY <1>1, <1>2
    <2> QED BY <1>1, <2>2, <2>3, Zenon DEF IInv, TypeOK
  <1>4. Placed' /\ FailsForReason'
    <2>1. block.base \in Nat /\ block.base <= addr
      BY BlockParts DEF IInv, TypeOK, Placed
    <2>2. block.base <= addr'
      BY <1>1, <1>2, <2>1
    <2> QED BY <1>1, <2>2 DEF Placed, FailsForReason
  <1>5. OnPath'
    <2>1. ~curr_syscall
      BY <1>1 DEF IInv, OnPath
    <2>2. BlockEnd' = BlockEnd /\ Sweep(block.text)[addr + n] = BlockEnd
      BY <1>1, <2>1, EndKept DEF IInv, OnPath
    <2>3. addr' + n' = addr + n
      BY <1>1, <1>2
    <2> QED BY <1>1, <2>1, <2>2, <2>3 DEF OnPath
  <1>6. Gone' \in Nat /\ (Doubles' \/ Leaves')
    BY RecurseFrames
  <1> QED BY <1>3, <1>4, <1>5, <1>6 DEF IInv

\* Nothing changes when nothing happens.
LEMMA ScanStutter ==
    ASSUME IInv, UNCHANGED vars
    PROVE  IInv'
  <1>1. /\ block' = block /\ addr' = addr /\ n' = n /\ beg' = beg /\ depth' = depth
        /\ curr_syscall' = curr_syscall /\ saved_size' = saved_size /\ pc' = pc
    BY DEF vars
  <1>2. BlockEnd' = BlockEnd
    BY <1>1, EndKept
  <1>3. TypeOK'
    BY <1>1, Zenon DEF IInv, TypeOK
  <1>4. Placed'
    BY <1>1 DEF IInv, Placed, Counted, LastChunk, Offt, PageOf
  <1>5. OnPath' /\ FailsForReason'
    BY <1>1, <1>2, Zenon DEF IInv, OnPath, FailsForReason
  <1>6. Gone' \in Nat /\ (Doubles' \/ Leaves')
    BY <1>1, FrameKept DEF IInv
  <1> QED BY <1>3, <1>4, <1>5, <1>6 DEF IInv

----------------------------------------------------------------------------
(* The theorems.                                                           *)

\* The invariant holds at the base of a block.
LEMMA ScanInit == Init => IInv
  <1> SUFFICES ASSUME Init PROVE IInv
    OBVIOUS
  <1>1. /\ block \in Layouts /\ addr = block.base /\ n = 0 /\ saved_size = P /\ beg = TRUE
        /\ depth = 1 /\ curr_syscall = block.curr_syscall /\ pc = "read"
    BY ScanAssumption DEF Init
  <1>2. block.base \in Addr /\ block.base \in Nat /\ block.base < Top
        /\ block.curr_syscall \in BOOLEAN
    BY <1>1, BlockParts
  <1>3. TypeOK
    <2>1. addr \in 0 .. Top /\ n \in 0 .. P /\ saved_size \in 1 .. P /\ depth \in 1 .. Frames
      BY <1>1, <1>2, Sizes
    <2> QED BY <1>1, <1>2, <2>1, Zenon DEF TypeOK
  <1>4. Placed /\ FailsForReason
    BY <1>1, <1>2 DEF Placed, FailsForReason
  <1>5. OnPath
    <2>1. ~curr_syscall => Sweep(block.text)[addr + n] = BlockEnd
      <3>1. ~curr_syscall => ~Reruns
        BY <1>1 DEF Reruns
      <3> QED BY <1>1, <3>1, Zenon DEF BlockEnd
    <2> QED BY <1>1, <2>1 DEF OnPath
  <1>6. Gone \in Nat /\ Doubles
    <2>1. 0 \in 0 .. P /\ LogP \in Nat
      BY Sizes
    <2>2. PageOf(addr) \in Nat
      BY <1>1, <1>2, <2>1, PageStep
    <2>3. Gone = 0
      BY <1>1, <2>2 DEF Gone
    <2>4. Spent = 0
      BY <2>1, <2>3 DEF Spent
    <2> QED BY <1>1, <2>1, <2>3, <2>4 DEF Doubles
  <1> QED BY <1>3, <1>4, <1>5, <1>6 DEF IInv

\* Every step keeps the invariant.
LEMMA ScanInductive == IInv /\ [Next]_vars => IInv'
  <1> SUFFICES ASSUME IInv, [Next]_vars PROVE IInv'
    OBVIOUS
  <1>1. CASE Read
    BY <1>1, ReadStep
  <1>2. CASE ReadFault
    BY <1>2, ReadFaultStep
  <1>11. CASE ReadRefused
    BY <1>11, ReadRefusedStep
  <1>3. CASE StepOver
    BY <1>3, StepOverStep
  <1>4. CASE Found
    BY <1>4, FoundStep
  <1>5. CASE Recurse
    BY <1>5, RecurseStep
  <1>6. CASE Overflow
    BY <1>6, OverflowStep
  <1>7. CASE FoundNothing
    BY <1>7, FoundNothingStep
  <1>8. CASE InsnLen
    BY <1>8, InsnLenStep
  <1>9. CASE Ended
    BY <1>9, ScanStutter DEF Ended
  <1>10. CASE UNCHANGED vars
    BY <1>10, ScanStutter
  <1> QED BY <1>1, <1>2, <1>3, <1>4, <1>5, <1>6, <1>7, <1>8, <1>9, <1>10, <1>11
           DEF Next

\* Offsets stay within a page and calls within the stack.
THEOREM ScanTyped == Spec => []TypeOK
  <1>1. IInv => TypeOK
    BY DEF IInv
  <1> QED BY <1>1, ScanInit, ScanInductive, PTL DEF Spec

\* opcodes_cflow finds the first control-flow instruction of any block, however
\* the bytes fall into pages and calls, and consumes the request to re-run.
THEOREM AlwaysFindsBlockEnd == Spec => []FindsBlockEnd
  <1>1. IInv => FindsBlockEnd
    BY DEF IInv, OnPath, FindsBlockEnd
  <1> QED BY <1>1, ScanInit, ScanInductive, PTL DEF Spec

\* It gives up only on a block that does not decode, that ends within a page of
\* unmapped memory, or that reaches a page mprotect refuses.
THEOREM AlwaysFailsForReason == Spec => []FailsForReason
  <1>1. IInv => FailsForReason
    BY DEF IInv
  <1> QED BY <1>1, ScanInit, ScanInductive, PTL DEF Spec

\* The calls on the host stack: log2 of the page size, and one, for every page of
\* the block.
THEOREM AlwaysStackBound == Spec => []StackBound
  <1>1. IInv => StackBound
    <2> SUFFICES ASSUME IInv PROVE StackBound
      OBVIOUS
    <2>1. Gone \in Nat /\ depth <= Spent + LogP + 1
      BY BoundedEitherWay DEF IInv
    <2>2. (Gone + 1) * (LogP + 1) = Spent + LogP + 1
      BY <2>1, NewPage DEF Spent
    <2>3. PageOf(addr) - PageOf(block.base) + 1 = Gone + 1
      BY DEF Gone
    <2> QED BY <2>1, <2>2, <2>3 DEF StackBound
  <1> QED BY <1>1, ScanInit, ScanInductive, PTL DEF Spec

=============================================================================
