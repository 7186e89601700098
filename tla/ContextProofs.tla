---------------------------- MODULE ContextProofs ----------------------------
(***************************************************************************)
(* The hooks and stubs of module Context, proved for every size of the     *)
(* engine's stack and every processor.                                     *)
(***************************************************************************)
EXTENDS Context, TLAPS

----------------------------------------------------------------------------
(* The registers.                                                          *)

SavedRegs  == {"rbx", "rcx", "rdx", "rsi", "rdi", "rbp", "es", "gs", "fs", "cs", "ss", "ds",
               "r8", "r9", "r10", "r11", "r12", "r13", "r14", "r15"}
LoadedRegs == SavedRegs \ {"gs", "fs", "cs"}
LowRegs    == {"xmm0", "xmm1", "xmm15"}
HighRegs   == {"ymm0", "ymm1", "ymm15"}
OtherRegs  == {"rax", "rsp", "rip", "rflags", "mxcsr"}

LEMMA SavedAre ==
    /\ Len(Saved) = 20
    /\ \A k \in 1 .. 20 : Saved[k] \in SavedRegs
    /\ \A r \in SavedRegs : \E k \in 1 .. 20 : Saved[k] = r
  <1>1. /\ Saved[1] = "rbx" /\ Saved[2] = "rcx" /\ Saved[3] = "rdx" /\ Saved[4] = "rsi"
        /\ Saved[5] = "rdi" /\ Saved[6] = "rbp" /\ Saved[7] = "es" /\ Saved[8] = "gs"
        /\ Saved[9] = "fs" /\ Saved[10] = "cs" /\ Saved[11] = "ss" /\ Saved[12] = "ds"
    BY DEF Saved, Extra
  <1>2. /\ Saved[13] = "r8" /\ Saved[14] = "r9" /\ Saved[15] = "r10" /\ Saved[16] = "r11"
        /\ Saved[17] = "r12" /\ Saved[18] = "r13" /\ Saved[19] = "r14" /\ Saved[20] = "r15"
        /\ Len(Saved) = 20
    BY DEF Saved, Extra
  <1>3. 1 .. 20 = {1, 2, 3, 4, 5, 6, 7, 8, 9, 10, 11, 12, 13, 14, 15, 16, 17, 18, 19, 20}
    OBVIOUS
  <1> QED BY <1>1, <1>2, <1>3 DEF SavedRegs

LEMMA LoadedAre ==
    /\ Len(Loaded) = 17
    /\ \A k \in 1 .. 17 : Loaded[k] \in LoadedRegs
    /\ \A r \in LoadedRegs : \E k \in 1 .. 17 : Loaded[k] = r
  <1>1. /\ Loaded[1] = "rbx" /\ Loaded[2] = "rcx" /\ Loaded[3] = "rdx" /\ Loaded[4] = "rdi"
        /\ Loaded[5] = "rsi" /\ Loaded[6] = "rbp" /\ Loaded[7] = "es" /\ Loaded[8] = "ss"
        /\ Loaded[9] = "ds"
    BY DEF Loaded, Extra
  <1>2. /\ Loaded[10] = "r8" /\ Loaded[11] = "r9" /\ Loaded[12] = "r10" /\ Loaded[13] = "r11"
        /\ Loaded[14] = "r12" /\ Loaded[15] = "r13" /\ Loaded[16] = "r14" /\ Loaded[17] = "r15"
        /\ Len(Loaded) = 17
    BY DEF Loaded, Extra
  <1>3. 1 .. 17 = {1, 2, 3, 4, 5, 6, 7, 8, 9, 10, 11, 12, 13, 14, 15, 16, 17}
    OBVIOUS
  <1> QED BY <1>1, <1>2, <1>3 DEF LoadedRegs, SavedRegs

LEMMA SeqsOfRegs ==
    /\ Saved \in Seq(SavedRegs) /\ Loaded \in Seq(SavedRegs)
  <1>1. Saved = [i \in 1 .. 20 |-> Saved[i]]
    BY DEF Saved, Extra
  <1>2. Loaded = [i \in 1 .. 17 |-> Loaded[i]]
    BY DEF Loaded, Extra
  <1> QED BY <1>1, <1>2, SavedAre, LoadedAre DEF LoadedRegs

\* A sequence of n members of S, and one that is a and then b.
Is(s, n, S) == s \in Seq(S) /\ Len(s) = n
Joined(e, a, b, m, n) ==
    /\ \A k \in 1 .. m : e[k] = a[k]
    /\ \A k \in 1 .. n : e[m + k] = b[k]

LEMMA CatAt ==
    ASSUME NEW S, NEW m \in Nat, NEW n \in Nat, NEW a, NEW b, Is(a, m, S), Is(b, n, S)
    PROVE  Is(a \o b, m + n, S) /\ Joined(a \o b, a, b, m, n)
  BY DEF Is, Joined

LEMMA AllAre ==
    /\ Len(All) = 31 /\ DOMAIN All = 1 .. 31
    /\ \A k \in 1 .. 20 : All[k] = Saved[k]
    /\ All[21] = "xmm0" /\ All[22] = "xmm1" /\ All[23] = "xmm15"
    /\ All[24] = "ymm0" /\ All[25] = "ymm1" /\ All[26] = "ymm15"
    /\ All[27] = "rax" /\ All[28] = "rsp" /\ All[29] = "rip"
    /\ All[30] = "rflags" /\ All[31] = "mxcsr"
  <1> DEFINE S == SavedRegs \cup LowRegs \cup HighRegs \cup OtherRegs
             rest == <<"rax", "rsp", "rip", "rflags", "mxcsr">>
             a == Saved \o Low
             b == a \o High
  <1>1. Is(Saved, 20, S)
    BY SavedAre, SeqsOfRegs DEF Is
  <1>2. Is(Low, 3, S) /\ Is(High, 3, S)
    BY DEF Is, Low, High, LowRegs, HighRegs
  <1>3. Is(rest, 5, S)
    BY DEF Is, OtherRegs
  <1>4. /\ 20 \in Nat /\ 3 \in Nat /\ 23 \in Nat /\ 26 \in Nat /\ 5 \in Nat
        /\ 20 + 3 = 23 /\ 23 + 3 = 26 /\ 26 + 5 = 31
    OBVIOUS
  <1>5. All = b \o rest
    BY DEF All
  <1> HIDE DEF S, rest
  <1>6. Is(a, 23, S) /\ Joined(a, Saved, Low, 20, 3)
    BY <1>1, <1>2, <1>4, CatAt, Zenon
  <1>7. Is(b, 26, S) /\ Joined(b, a, High, 23, 3)
    BY <1>2, <1>4, <1>6, CatAt, Zenon
  <1>8. Is(All, 31, S) /\ Joined(All, b, rest, 26, 5)
    BY <1>3, <1>4, <1>5, <1>7, CatAt, Zenon
  <1> HIDE DEF a, b
  <1>9. \A k \in 1 .. 23 : All[k] = a[k]
    BY <1>7, <1>8 DEF Joined
  <1>10. \A k \in 1 .. 20 : All[k] = Saved[k]
    BY <1>6, <1>9 DEF Joined
  <1>11. All[21] = Low[1] /\ All[22] = Low[2] /\ All[23] = Low[3]
    BY <1>6, <1>9 DEF Joined
  <1>12. All[24] = High[1] /\ All[25] = High[2] /\ All[26] = High[3]
    BY <1>7, <1>8 DEF Joined
  <1>13. /\ All[27] = rest[1] /\ All[28] = rest[2] /\ All[29] = rest[3]
         /\ All[30] = rest[4] /\ All[31] = rest[5]
    BY <1>8 DEF Joined
  <1>14. Len(All) = 31 /\ DOMAIN All = 1 .. 31
    BY <1>8 DEF Is
  <1> QED BY <1>10, <1>11, <1>12, <1>13, <1>14 DEF Low, High, rest

LEMMA RegsAre == Regs = SavedRegs \cup LowRegs \cup HighRegs \cup OtherRegs
  <1> DEFINE S == SavedRegs \cup LowRegs \cup HighRegs \cup OtherRegs
  <1>1. ASSUME NEW k \in 1 .. 31 PROVE All[k] \in S
    <2>1. k \in 1 .. 20 \/ k \in {21, 22, 23, 24, 25, 26, 27, 28, 29, 30, 31}
      OBVIOUS
    <2>2. CASE k \in 1 .. 20
      BY <2>2, AllAre, SavedAre
    <2>3. CASE k \in {21, 22, 23, 24, 25, 26, 27, 28, 29, 30, 31}
      BY <2>3, AllAre DEF LowRegs, HighRegs, OtherRegs
    <2> QED BY <2>1, <2>2, <2>3
  <1>2. ASSUME NEW r \in S PROVE \E k \in 1 .. 31 : All[k] = r
    <2>1. CASE r \in SavedRegs
      <3>1. PICK k \in 1 .. 20 : Saved[k] = r
        BY <2>1, SavedAre
      <3>2. k \in 1 .. 31 /\ All[k] = r
        BY <3>1, AllAre
      <3> QED BY <3>2
    <2>2. CASE r \in LowRegs \cup HighRegs \cup OtherRegs
      <3>1. \A n \in {21, 22, 23, 24, 25, 26, 27, 28, 29, 30, 31} : n \in 1 .. 31
        OBVIOUS
      <3> QED BY <2>2, <3>1, AllAre DEF LowRegs, HighRegs, OtherRegs
    <2> QED BY <2>1, <2>2
  <1> QED BY <1>1, <1>2, AllAre DEF Regs, Elems

LEMMA SetsAre ==
    /\ Elems(Low) = LowRegs /\ Elems(High) = HighRegs
    /\ HighOf("xmm0") = "ymm0" /\ HighOf("xmm1") = "ymm1" /\ HighOf("xmm15") = "ymm15"
  <1>1. /\ DOMAIN Low = {1, 2, 3} /\ Low[1] = "xmm0" /\ Low[2] = "xmm1" /\ Low[3] = "xmm15"
        /\ DOMAIN High = {1, 2, 3} /\ High[1] = "ymm0" /\ High[2] = "ymm1" /\ High[3] = "ymm15"
    BY DEF Low, High
  <1>2. Elems(Low) = LowRegs /\ Elems(High) = HighRegs
    BY <1>1 DEF Elems, LowRegs, HighRegs
  <1>3. \A x \in LowRegs : /\ (CHOOSE i \in DOMAIN Low : Low[i] = x) \in DOMAIN Low
                           /\ Low[CHOOSE i \in DOMAIN Low : Low[i] = x] = x
    BY <1>1 DEF LowRegs
  <1>4. ASSUME NEW x \in LowRegs, NEW n \in DOMAIN Low, Low[n] = x PROVE HighOf(x) = High[n]
    BY <1>1, <1>3, <1>4 DEF HighOf, LowRegs
  <1> QED BY <1>1, <1>2, <1>4 DEF LowRegs

----------------------------------------------------------------------------
(* The code, place by place.                                               *)

Ops == {"torax", "store", "load", "fromrax", "imm", "push", "pop", "switch", "load_hook",
        "vstore", "vload", "vmove", "save_mxcsr", "restore_mxcsr", "dispatch", "jmp", "resume"}
Instr == [op : Ops, r : SavedRegs \cup LowRegs \cup HighRegs \cup OtherRegs]

LEMMA EachAt ==
    ASSUME NEW s \in Seq(SavedRegs)
    PROVE  /\ SaveEach(s) \in Seq(Instr) /\ Len(SaveEach(s)) = 2 * Len(s)
           /\ LoadEach(s) \in Seq(Instr) /\ Len(LoadEach(s)) = 2 * Len(s)
           /\ \A k \in 1 .. Len(s) : /\ SaveEach(s)[2 * k - 1] = ToRax(s[k])
                                     /\ SaveEach(s)[2 * k] = Store(s[k])
                                     /\ LoadEach(s)[2 * k - 1] = Load(s[k])
                                     /\ LoadEach(s)[2 * k] = FromRax(s[k])
  <1>1. \A k \in 1 .. Len(s) : s[k] \in SavedRegs
    OBVIOUS
  <1>2. ASSUME NEW i \in 1 .. (2 * Len(s))
        PROVE  /\ i % 2 = 1 => (i + 1) \div 2 \in 1 .. Len(s)
               /\ i % 2 # 1 => i \div 2 \in 1 .. Len(s)
    <2>1. Len(s) \in Nat OBVIOUS
    <2> QED BY <2>1
  <1>3. \A i \in 1 .. (2 * Len(s)) : SaveEach(s)[i] \in Instr /\ LoadEach(s)[i] \in Instr
    <2> TAKE i \in 1 .. (2 * Len(s))
    <2>1. CASE i % 2 = 1
      <3>1. SaveEach(s)[i] = ToRax(s[(i + 1) \div 2]) /\ LoadEach(s)[i] = Load(s[(i + 1) \div 2])
        BY <2>1 DEF SaveEach, LoadEach
      <3>2. s[(i + 1) \div 2] \in SavedRegs
        BY <2>1, <1>1, <1>2
      <3> QED BY <3>1, <3>2 DEF Instr, Ops, I, ToRax, Load
    <2>2. CASE i % 2 # 1
      <3>1. SaveEach(s)[i] = Store(s[i \div 2]) /\ LoadEach(s)[i] = FromRax(s[i \div 2])
        BY <2>2 DEF SaveEach, LoadEach
      <3>2. s[i \div 2] \in SavedRegs
        BY <2>2, <1>1, <1>2
      <3> QED BY <3>1, <3>2 DEF Instr, Ops, I, Store, FromRax
    <2> QED BY <2>1, <2>2
  <1>4. \A k \in 1 .. Len(s) : /\ (2 * k) % 2 = 0 /\ (2 * k) \div 2 = k
                               /\ (2 * k - 1) % 2 = 1 /\ (2 * k - 1 + 1) \div 2 = k
                               /\ 2 * k \in 1 .. (2 * Len(s)) /\ 2 * k - 1 \in 1 .. (2 * Len(s))
    <2>1. Len(s) \in Nat OBVIOUS
    <2> QED BY <2>1
  <1>5. 2 * Len(s) \in Nat OBVIOUS
  <1>6. /\ SaveEach(s) \in Seq(Instr) /\ Len(SaveEach(s)) = 2 * Len(s)
        /\ LoadEach(s) \in Seq(Instr) /\ Len(LoadEach(s)) = 2 * Len(s)
    BY <1>3, <1>5 DEF SaveEach, LoadEach
  <1> QED BY <1>4, <1>6 DEF SaveEach, LoadEach

\* Where the code that calls _dispatcher starts.
CallAt == IF Mode = "sse" THEN 53 ELSE 52

LEMMA DumpAt ==
    /\ Len(DumpCode) = CallAt + 7
    /\ DumpCode[1] = Store("rax") /\ DumpCode[2] = I("imm", "rax")
    /\ DumpCode[3] = ToRax("rsp") /\ DumpCode[4] = Store("rsp")
    /\ DumpCode[5] = I("switch", "rsp") /\ DumpCode[6] = I("push", "rflags")
    /\ DumpCode[7] = I("pop", "rax") /\ DumpCode[8] = Store("rflags")
    /\ \A k \in 1 .. 20 : /\ DumpCode[7 + 2 * k] = ToRax(Saved[k])
                          /\ DumpCode[8 + 2 * k] = Store(Saved[k])
    /\ \A k \in 1 .. (CallAt - 48) : DumpCode[48 + k] = SaveVectors[k]
    /\ \A k \in 1 .. 7 : DumpCode[CallAt + k] = CallDispatcher[k]
  <1>1. Is(DumpHook, 2, Instr)
    BY DEF Is, DumpHook, Instr, Ops, I, Store, OtherRegs
  <1>2. Is(SaveStack, 6, Instr)
    BY DEF Is, SaveStack, Instr, Ops, I, ToRax, Store, OtherRegs
  <1>3. Is(SaveEach(Saved), 40, Instr)
    <2>1. SaveEach(Saved) \in Seq(Instr) /\ Len(SaveEach(Saved)) = 2 * Len(Saved)
      BY EachAt, SeqsOfRegs
    <2> QED BY <2>1, SavedAre DEF Is
  <1>4. Is(SaveVectors, CallAt - 48, Instr)
    <2>1. CASE Mode = "sse"
      <3>1. SaveVectors = <<I("vstore", "xmm0"), I("vmove", "xmm1"), I("vstore", "xmm1"),
                            I("vmove", "xmm15"), I("vstore", "xmm15")>>
        BY <2>1 DEF SaveVectors
      <3>2. Is(SaveVectors, 5, Instr)
        BY <3>1 DEF Is, Instr, Ops, I, LowRegs
      <3> QED BY <2>1, <3>2 DEF CallAt
    <2>2. CASE Mode # "sse"
      <3>1. SaveVectors = <<I("save_mxcsr", "mxcsr"), I("vstore", "xmm0"),
                            I("vstore", "xmm1"), I("vstore", "xmm15")>>
        BY <2>2 DEF SaveVectors
      <3>2. Is(SaveVectors, 4, Instr)
        BY <3>1 DEF Is, Instr, Ops, I, LowRegs, OtherRegs
      <3> QED BY <2>2, <3>2 DEF CallAt
    <2> QED BY <2>1, <2>2
  <1>5. Is(CallDispatcher, 7, Instr)
    <2>1. Len(CallDispatcher) = 7
      BY DEF CallDispatcher
    <2>2. CallDispatcher \in Seq(Instr)
      BY DEF CallDispatcher, Instr, Ops, I, Store, SavedRegs, OtherRegs
    <2> QED BY <2>1, <2>2 DEF Is
  <1>6. /\ 2 \in Nat /\ 6 \in Nat /\ 8 \in Nat /\ 40 \in Nat /\ 48 \in Nat /\ 7 \in Nat
        /\ 2 + 6 = 8 /\ 8 + 40 = 48
    OBVIOUS
  <1>7. /\ CallAt \in {52, 53} /\ CallAt - 48 \in Nat /\ CallAt \in Nat
        /\ 48 + (CallAt - 48) = CallAt
    BY DEF CallAt
  <1> DEFINE a == DumpHook \o SaveStack
             b == SaveEach(Saved)
             ab == a \o b
             abc == ab \o SaveVectors
  <1>8. Is(a, 8, Instr) /\ Joined(a, DumpHook, SaveStack, 2, 6)
    BY <1>1, <1>2, <1>6, CatAt, Zenon
  <1>9. Is(ab, 48, Instr) /\ Joined(ab, a, b, 8, 40)
    BY <1>3, <1>8, <1>6, CatAt, Zenon
  <1>10. Is(abc, CallAt, Instr) /\ Joined(abc, ab, SaveVectors, 48, CallAt - 48)
    <2> HIDE DEF ab
    <2>1. /\ Is(ab \o SaveVectors, 48 + (CallAt - 48), Instr)
          /\ Joined(ab \o SaveVectors, ab, SaveVectors, 48, CallAt - 48)
      BY <1>4, <1>9, <1>6, <1>7, CatAt, Zenon
    <2> QED BY <2>1, <1>7, Zenon
  <1>11. DumpCode = abc \o CallDispatcher
    BY DEF DumpCode
  <1>12. Is(DumpCode, CallAt + 7, Instr) /\ Joined(DumpCode, abc, CallDispatcher, CallAt, 7)
    BY <1>5, <1>10, <1>6, <1>7, <1>11, CatAt, Zenon
  <1> HIDE DEF a, b, ab, abc
  <1>13. \A k \in 1 .. 48 : DumpCode[k] = ab[k]
    BY <1>7, <1>10, <1>12 DEF Joined
  <1>14. \A k \in 1 .. (CallAt - 48) : DumpCode[48 + k] = SaveVectors[k]
    BY <1>7, <1>10, <1>12 DEF Joined
  <1>15. \A k \in 1 .. 8 : DumpCode[k] = a[k]
    BY <1>9, <1>13 DEF Joined
  <1>16. \A k \in 1 .. 40 : DumpCode[8 + k] = b[k]
    BY <1>9, <1>13 DEF Joined
  <1>17. \A k \in 1 .. 20 : /\ DumpCode[7 + 2 * k] = ToRax(Saved[k])
                            /\ DumpCode[8 + 2 * k] = Store(Saved[k])
    <2> TAKE k \in 1 .. 20
    <2>1. 2 * k - 1 \in 1 .. 40 /\ 2 * k \in 1 .. 40 /\ 7 + 2 * k = 8 + (2 * k - 1)
      OBVIOUS
    <2>2. b[2 * k - 1] = ToRax(Saved[k]) /\ b[2 * k] = Store(Saved[k])
      BY EachAt, SavedAre, SeqsOfRegs DEF b
    <2> QED BY <2>1, <2>2, <1>16
  <1>18. /\ DumpCode[1] = Store("rax") /\ DumpCode[2] = I("imm", "rax")
         /\ DumpCode[3] = ToRax("rsp") /\ DumpCode[4] = Store("rsp")
         /\ DumpCode[5] = I("switch", "rsp") /\ DumpCode[6] = I("push", "rflags")
         /\ DumpCode[7] = I("pop", "rax") /\ DumpCode[8] = Store("rflags")
    <2>1. DumpHook[1] = Store("rax") /\ DumpHook[2] = I("imm", "rax")
      BY DEF DumpHook
    <2>2. /\ SaveStack[1] = ToRax("rsp") /\ SaveStack[2] = Store("rsp")
          /\ SaveStack[3] = I("switch", "rsp") /\ SaveStack[4] = I("push", "rflags")
          /\ SaveStack[5] = I("pop", "rax") /\ SaveStack[6] = Store("rflags")
      BY DEF SaveStack
    <2>3. /\ a[1] = DumpHook[1] /\ a[2] = DumpHook[2] /\ a[3] = SaveStack[1]
          /\ a[4] = SaveStack[2] /\ a[5] = SaveStack[3] /\ a[6] = SaveStack[4]
          /\ a[7] = SaveStack[5] /\ a[8] = SaveStack[6]
      BY <1>8 DEF Joined
    <2> QED BY <2>1, <2>2, <2>3, <1>15
  <1>19. /\ Len(DumpCode) = CallAt + 7
         /\ \A k \in 1 .. 7 : DumpCode[CallAt + k] = CallDispatcher[k]
    BY <1>12 DEF Is, Joined
  <1> QED BY <1>14, <1>17, <1>18, <1>19

\* Where the code that reloads the registers starts.
LoadAt == IF Mode = "avx2" THEN 4 ELSE 3

LEMMA RestoreAt ==
    /\ Len(RestoreCode) = LoadAt + 44
    /\ RestoreCode[1] = I("vload", "xmm0") /\ RestoreCode[2] = I("vload", "xmm1")
    /\ RestoreCode[3] = I("vload", "xmm15")
    /\ Mode = "avx2" => RestoreCode[4] = I("restore_mxcsr", "mxcsr")
    /\ \A k \in 1 .. 17 : /\ RestoreCode[LoadAt + 2 * k - 1] = Load(Loaded[k])
                          /\ RestoreCode[LoadAt + 2 * k] = FromRax(Loaded[k])
    /\ \A k \in 1 .. 6 : RestoreCode[LoadAt + 34 + k] = LoadStack[k]
    /\ \A k \in 1 .. 4 : RestoreCode[LoadAt + 40 + k] = RestoreHook[k]
  <1>1. /\ Is(LoadVectors, LoadAt, Instr)
        /\ LoadVectors[1] = I("vload", "xmm0") /\ LoadVectors[2] = I("vload", "xmm1")
        /\ LoadVectors[3] = I("vload", "xmm15")
        /\ Mode = "avx2" => LoadVectors[4] = I("restore_mxcsr", "mxcsr")
    <2> DEFINE v == <<I("vload", "xmm0"), I("vload", "xmm1"), I("vload", "xmm15")>>
               m == <<I("restore_mxcsr", "mxcsr")>>
    <2>1. Is(v, 3, Instr) /\ Is(m, 1, Instr)
      BY DEF Is, Instr, Ops, I, LowRegs, OtherRegs
    <2>2. /\ v[1] = I("vload", "xmm0") /\ v[2] = I("vload", "xmm1")
          /\ v[3] = I("vload", "xmm15") /\ m[1] = I("restore_mxcsr", "mxcsr")
      OBVIOUS
    <2>3. 3 \in Nat /\ 1 \in Nat /\ 3 + 1 = 4
      OBVIOUS
    <2>4. CASE Mode = "avx2"
      <3>1. LoadVectors = v \o m
        BY <2>4 DEF LoadVectors
      <3> HIDE DEF v, m
      <3>2. Is(LoadVectors, 4, Instr) /\ Joined(LoadVectors, v, m, 3, 1)
        BY <3>1, <2>1, <2>3, CatAt, Zenon
      <3>3. LoadVectors[1] = v[1] /\ LoadVectors[2] = v[2] /\ LoadVectors[3] = v[3]
        BY <3>2 DEF Joined
      <3>4. LoadVectors[4] = m[1]
        BY <3>2 DEF Joined
      <3> QED BY <3>2, <3>3, <3>4, <2>2, <2>4 DEF LoadAt
    <2>5. CASE Mode # "avx2"
      <3>1. LoadVectors = v \o <<>>
        BY <2>5 DEF LoadVectors
      <3>2. v \o <<>> = v
        OBVIOUS
      <3> QED BY <3>1, <3>2, <2>1, <2>5 DEF LoadAt
    <2> QED BY <2>4, <2>5
  <1>2. Is(LoadEach(Loaded), 34, Instr)
    <2>1. LoadEach(Loaded) \in Seq(Instr) /\ Len(LoadEach(Loaded)) = 2 * Len(Loaded)
      BY EachAt, SeqsOfRegs
    <2> QED BY <2>1, LoadedAre DEF Is
  <1>3. Is(LoadStack, 6, Instr)
    BY DEF Is, LoadStack, Instr, Ops, I, Load, OtherRegs
  <1>4. Is(RestoreHook, 4, Instr)
    BY DEF Is, RestoreHook, Instr, Ops, I, Load, OtherRegs
  <1>5. /\ LoadAt \in {3, 4} /\ LoadAt \in Nat /\ LoadAt + 34 \in Nat /\ LoadAt + 40 \in Nat
        /\ 34 \in Nat /\ 6 \in Nat /\ 4 \in Nat
        /\ (LoadAt + 34) + 6 = LoadAt + 40 /\ (LoadAt + 40) + 4 = LoadAt + 44
    BY DEF LoadAt
  <1> DEFINE b == LoadEach(Loaded)
             ab == LoadVectors \o b
             abc == ab \o LoadStack
  <1>6. Is(ab, LoadAt + 34, Instr) /\ Joined(ab, LoadVectors, b, LoadAt, 34)
    BY <1>1, <1>2, <1>5, CatAt, Zenon
  <1>7. Is(abc, LoadAt + 40, Instr) /\ Joined(abc, ab, LoadStack, LoadAt + 34, 6)
    BY <1>3, <1>5, <1>6, CatAt, Zenon
  <1>8. RestoreCode = abc \o RestoreHook
    BY DEF RestoreCode
  <1>9. /\ Is(RestoreCode, LoadAt + 44, Instr)
        /\ Joined(RestoreCode, abc, RestoreHook, LoadAt + 40, 4)
    BY <1>4, <1>5, <1>7, <1>8, CatAt, Zenon
  <1> HIDE DEF b, ab, abc
  <1>10. \A k \in 1 .. (LoadAt + 34) : RestoreCode[k] = ab[k]
    BY <1>5, <1>7, <1>9 DEF Joined
  <1>11. \A k \in 1 .. 6 : RestoreCode[LoadAt + 34 + k] = LoadStack[k]
    BY <1>5, <1>7, <1>9 DEF Joined
  <1>12. \A k \in 1 .. LoadAt : RestoreCode[k] = LoadVectors[k]
    BY <1>5, <1>6, <1>10 DEF Joined
  <1>13. \A k \in 1 .. 34 : RestoreCode[LoadAt + k] = b[k]
    BY <1>5, <1>6, <1>10 DEF Joined
  <1>14. \A k \in 1 .. 17 : /\ RestoreCode[LoadAt + 2 * k - 1] = Load(Loaded[k])
                            /\ RestoreCode[LoadAt + 2 * k] = FromRax(Loaded[k])
    <2> TAKE k \in 1 .. 17
    <2>1. 2 * k - 1 \in 1 .. 34 /\ 2 * k \in 1 .. 34
          /\ LoadAt + 2 * k - 1 = LoadAt + (2 * k - 1)
      BY <1>5
    <2>2. b[2 * k - 1] = Load(Loaded[k]) /\ b[2 * k] = FromRax(Loaded[k])
      BY EachAt, LoadedAre, SeqsOfRegs DEF b
    <2> QED BY <2>1, <2>2, <1>13
  <1>15. /\ Len(RestoreCode) = LoadAt + 44
         /\ \A k \in 1 .. 4 : RestoreCode[LoadAt + 40 + k] = RestoreHook[k]
    BY <1>9 DEF Is, Joined
  <1>16. /\ RestoreCode[1] = LoadVectors[1] /\ RestoreCode[2] = LoadVectors[2]
         /\ RestoreCode[3] = LoadVectors[3] /\ (LoadAt = 4 => RestoreCode[4] = LoadVectors[4])
    BY <1>5, <1>12
  <1> QED BY <1>1, <1>11, <1>14, <1>15, <1>16 DEF LoadAt

----------------------------------------------------------------------------
(* The inductive invariant.                                                *)

\* r has been saved.
Kept(r) == state[r] = want[r]
\* r has, or has again, the guest's value.
Own(r) == cpu[r] = want[r]

\* The values, apart from where the code is.
Typed ==
    /\ feature \in Levels
    /\ cpu \in [Regs -> Values] /\ state \in [Regs -> Values] /\ want \in [Regs -> Values]
    /\ hstack \in [0 .. Slots -> Values]
    /\ spilled = FALSE /\ gen \in {1, 2}
    /\ phase \in {"craft", "launch", "guest", "dump", "host", "restore", "fatal", "sigill"}
    /\ phase \notin {"craft", "fatal"} => Mode \in {"sse", "avx2"}
    /\ phase \notin {"dump", "restore"} => ip = 1
    /\ \A r \in Fixed : Own(r)

\* In the dump code: registers still untouched, and what passes through rax and
\* xmm0.
DumpRegs ==
    /\ \A r \in Regs \ {"rax", "rsp", "rdi", "xmm0"} : Own(r)
    /\ ip <= 2 => Own("rax")
    /\ ip <= 5 => Own("rsp")
    /\ (ip <= 50 \/ Mode = "avx2") => Own("xmm0")
    /\ ip <= CallAt => Own("rdi")
    /\ ip = 4 => cpu["rax"] = want["rsp"]
    /\ ip = 8 => cpu["rax"] = want["rflags"]
    /\ \A k \in 1 .. 20 : ip = 8 + 2 * k => cpu["rax"] = want[Saved[k]]
    /\ Mode = "sse" /\ ip = 51 => cpu["xmm0"] = want["xmm1"]
    /\ Mode = "sse" /\ ip = 53 => cpu["xmm0"] = want["xmm15"]
    /\ ip = CallAt + 6 => cpu["rax"] = want["rip"]

\* The engine's stack under the dump code.
DumpStack ==
    /\ ip = 7 => cpu["rsp"] = Host(Slots - 1) /\ hstack[Slots - 1] = want["rflags"]
    /\ (ip = 6 \/ ip \in 8 .. (CallAt + 3)) => cpu["rsp"] = Host(Slots)
    /\ ip = CallAt + 4 => cpu["rsp"] = Host(Slots - 1)
    /\ ip >= CallAt + 5 => cpu["rsp"] = Host(Slots - 2)

\* What it has saved by now.
DumpState ==
    /\ ip > 1 => Kept("rax")
    /\ ip > 4 => Kept("rsp")
    /\ ip > 8 => Kept("rflags")
    /\ \A k \in 1 .. 20 : ip > 8 + 2 * k => Kept(Saved[k])
    /\ Mode = "sse" => /\ ip > 49 => Kept("xmm0")
                       /\ ip > 51 => Kept("xmm1")
                       /\ ip > 53 => Kept("xmm15")
    /\ Mode = "avx2" => /\ ip > 49 => Kept("mxcsr")
                        /\ ip > 50 => Kept("xmm0") /\ Kept("ymm0")
                        /\ ip > 51 => Kept("xmm1") /\ Kept("ymm1")
                        /\ ip > 52 => Kept("xmm15") /\ Kept("ymm15")
    /\ ip > CallAt + 6 => Kept("rip")

Dumping == ip \in 1 .. (CallAt + 7) /\ DumpRegs /\ DumpStack /\ DumpState

Covered == \A r \in Regs \ Uncovered : Kept(r)

\* In the restore code: the registers that are back.
BackRegs ==
    /\ ip > 1 => Own("xmm0") /\ (Mode = "avx2" => Own("ymm0"))
    /\ ip > 2 => Own("xmm1") /\ (Mode = "avx2" => Own("ymm1"))
    /\ ip > 3 => Own("xmm15") /\ (Mode = "avx2" => Own("ymm15"))
    /\ Mode = "avx2" /\ ip > 4 => Own("mxcsr")
    /\ \A k \in 1 .. 17 : /\ ip = LoadAt + 2 * k => cpu["rax"] = want[Loaded[k]]
                          /\ ip > LoadAt + 2 * k => Own(Loaded[k])
    /\ ip = LoadAt + 36 => cpu["rax"] = want["rsp"]
    /\ ip = LoadAt + 38 => cpu["rax"] = want["rflags"]
    /\ ip > LoadAt + 39 => Own("rflags")
    /\ ip > LoadAt + 40 => Own("rsp")
    /\ ip = LoadAt + 42 => cpu["rax"] = want["rip"]
    /\ ip > LoadAt + 42 => Own("rip")
    /\ ip > LoadAt + 43 => Own("rax")

\* The engine's stack under the restore code.
BackStack ==
    /\ ip <= LoadAt + 36 => \E n \in 2 .. Slots : cpu["rsp"] = Host(n)
    /\ ip \in {LoadAt + 37, LoadAt + 38} =>
          \E n \in 1 .. Slots : cpu["rsp"] = Host(n) /\ hstack[n] = want["rsp"]
    /\ ip = LoadAt + 39 =>
          \E n \in 0 .. (Slots - 1) : /\ cpu["rsp"] = Host(n) /\ hstack[n] = want["rflags"]
                                      /\ hstack[n + 1] = want["rsp"]
    /\ ip = LoadAt + 40 =>
          \E n \in 0 .. Slots : cpu["rsp"] = Host(n) /\ hstack[n] = want["rsp"]

Restoring == ip \in 1 .. (LoadAt + 44) /\ Covered /\ BackRegs /\ BackStack

IInv ==
    /\ Typed
    /\ phase = "dump" => Dumping
    /\ phase = "host" => Covered /\ cpu["rsp"] = Host(Slots - 1)
    /\ phase = "restore" => Restoring
    /\ phase = "guest" => \A r \in Regs \ Uncovered : Own(r)

----------------------------------------------------------------------------
(* Facts the cases need.                                                   *)

\* Every register by its name.
LEMMA Named ==
    /\ SavedRegs \subseteq Regs /\ LoadedRegs \subseteq SavedRegs
    /\ "rax" \in Regs /\ "rsp" \in Regs /\ "rip" \in Regs /\ "rflags" \in Regs /\ "mxcsr" \in Regs
    /\ "xmm0" \in Regs /\ "xmm1" \in Regs /\ "xmm15" \in Regs
    /\ "ymm0" \in Regs /\ "ymm1" \in Regs /\ "ymm15" \in Regs /\ "rdi" \in Regs
    /\ Fixed \subseteq SavedRegs /\ SavedRegs \cap {"rax", "rsp", "rip", "rflags", "mxcsr"} = {}
    /\ SavedRegs \cap (LowRegs \cup HighRegs) = {}
  BY RegsAre DEF LoadedRegs, SavedRegs, LowRegs, HighRegs, OtherRegs, Fixed

LEMMA ValuesAre ==
    /\ Zero \in Values /\ Junk \in Values
    /\ \A n \in 0 .. Slots : Host(n) \in Values /\ Host(n)[1] = "host" /\ Host(n)[2] = n
    /\ Host(Slots) \in Values /\ Host(Slots - 1) \in Values /\ Host(Slots - 2) \in Values
    /\ \A g \in {"first", "second", "fixed", "emulated"}, r \in Regs :
          <<g, Number[r]>> \in Values
  <1>1. ASSUME NEW r \in Regs PROVE Number[r] \in DOMAIN All
    BY DEF Number, Regs, Elems
  <1>2. Slots \in 0 .. Slots /\ Slots - 1 \in 0 .. Slots /\ Slots - 2 \in 0 .. Slots
    BY ContextAssumption
  <1>3. \A n \in 0 .. Slots : Host(n) \in Values /\ Host(n)[1] = "host" /\ Host(n)[2] = n
    BY DEF Values, Host
  <1> QED BY <1>1, <1>2, <1>3 DEF Values

\* An instruction is executed by the action for it.
LEMMA Executes ==
    ASSUME Next, phase \in {"dump", "restore"}
    PROVE  /\ Code[ip].op = "torax" => MovToRax
           /\ Code[ip].op = "fromrax" => MovFromRax
           /\ Code[ip].op = "imm" => MovImm
           /\ Code[ip].op = "switch" => MovStack
           /\ Code[ip].op = "load" => LoadRax
           /\ Code[ip].op = "load_hook" => LoadHook
           /\ Code[ip].op = "store" => StoreRax
           /\ Code[ip].op = "push" => Push
           /\ Code[ip].op = "pop" => Pop
           /\ Code[ip].op = "vmove" => VMove
           /\ Code[ip].op = "vstore" => VStore
           /\ Code[ip].op = "vload" => VLoad
           /\ Code[ip].op = "save_mxcsr" => SaveMxcsr
           /\ Code[ip].op = "restore_mxcsr" => RestoreMxcsr
           /\ Code[ip].op = "jmp" => Jmp
           /\ Code[ip].op = "dispatch" => EnterDispatcher
           /\ Code[ip].op = "resume" => Resume
  <1> DEFINE op == Code[ip].op
  <1>1. \/ MovToRax \/ MovFromRax \/ MovImm \/ MovStack \/ LoadRax \/ LoadHook \/ StoreRax
        \/ Push \/ Pop \/ VMove \/ VStore \/ VLoad \/ SaveMxcsr \/ RestoreMxcsr
        \/ Jmp \/ EnterDispatcher \/ Resume
    BY DEF Next, Craft, Launch, GuestBlock, Dead, Dispatcher
  <1>2. /\ MovToRax => op = "torax"
        /\ MovFromRax => op = "fromrax"
        /\ MovImm => op = "imm"
    BY DEF MovToRax, MovFromRax, MovImm, At
  <1>3. /\ MovStack => op = "switch"
        /\ LoadRax => op = "load"
        /\ LoadHook => op = "load_hook"
        /\ StoreRax => op = "store"
    BY DEF MovStack, LoadRax, LoadHook, StoreRax, At
  <1>4. /\ Push => op = "push"
        /\ Pop => op = "pop"
        /\ VMove => op = "vmove"
        /\ VStore => op = "vstore"
        /\ VLoad => op = "vload"
    BY DEF Push, Pop, VMove, VStore, VLoad, At
  <1>5. /\ SaveMxcsr => op = "save_mxcsr"
        /\ RestoreMxcsr => op = "restore_mxcsr"
        /\ Jmp => op = "jmp"
        /\ EnterDispatcher => op = "dispatch"
        /\ Resume => op = "resume"
    BY DEF SaveMxcsr, RestoreMxcsr, Jmp, EnterDispatcher, Resume, At
  <1> HIDE DEF op
  <1> QED BY <1>1, <1>2, <1>3, <1>4, <1>5 DEF op

----------------------------------------------------------------------------
(* The dump code, instruction by instruction.                              *)

\* Modes and places do not change.
LEMMA SameMode ==
    ASSUME feature' = feature
    PROVE  Mode' = Mode /\ CallAt' = CallAt /\ LoadAt' = LoadAt /\ Uncovered' = Uncovered
  BY DEF Mode, CallAt, LoadAt, Uncovered

\* A step that gives a register other than a selector a value, or saves one.
LEMMA TypedSet ==
    ASSUME Typed, Step, phase \in {"dump", "restore"}, NEW r \in Regs \ Fixed, NEW v \in Values,
           cpu' = [cpu EXCEPT ![r] = v], state' = state, hstack' = hstack, spilled' = spilled
    PROVE  Typed'
  BY SameMode, Named DEF Typed, Step, Own

LEMMA TypedStore ==
    ASSUME Typed, Step, phase \in {"dump", "restore"}, NEW r \in Regs, NEW v \in Values,
           state' = [state EXCEPT ![r] = v], cpu' = cpu, hstack' = hstack, spilled' = spilled
    PROVE  Typed'
  BY SameMode, Named DEF Typed, Step, Own

LEMMA TypedPush ==
    ASSUME Typed, Step, phase \in {"dump", "restore"},
           NEW n \in 0 .. Slots, NEW m \in 0 .. Slots, NEW v \in Values,
           cpu' = [cpu EXCEPT !["rsp"] = Host(n)], hstack' = [hstack EXCEPT ![m] = v],
           state' = state, spilled' = spilled
    PROVE  Typed'
  <1>1. Host(n) \in Values
    BY ValuesAre
  <1>2. cpu' \in [Regs -> Values] /\ hstack' \in [0 .. Slots -> Values]
    BY <1>1 DEF Typed
  <1> QED BY <1>2, SameMode, Named DEF Typed, Step, Own

LEMMA TypedPop ==
    ASSUME Typed, Step, phase \in {"dump", "restore"},
           NEW n \in 0 .. Slots, NEW r \in Regs \ Fixed, NEW v \in Values,
           cpu' = [[cpu EXCEPT !["rsp"] = Host(n)] EXCEPT ![r] = v], hstack' = hstack,
           state' = state, spilled' = spilled
    PROVE  Typed'
  <1>1. Host(n) \in Values
    BY ValuesAre
  <1>2. cpu' \in [Regs -> Values]
    BY <1>1 DEF Typed
  <1> QED BY <1>2, SameMode, Named DEF Typed, Step, Own

\* What is left to show of a step inside the dump code.
LEMMA DumpGoesOn ==
    ASSUME Typed', phase = "dump", phase' = phase, Dumping'
    PROVE  IInv'
  BY DEF IInv

LEMMA DumpStarts ==
    ASSUME IInv, phase = "dump", Next, ip <= 8
    PROVE  IInv'
  <1>0. Typed /\ Dumping /\ phase = "dump" /\ Mode \in {"sse", "avx2"}
    BY DEF IInv, Typed
  <1>9. /\ CallAt \in {52, 53} /\ (Step => CallAt' = CallAt /\ Mode' = Mode)
    BY SameMode DEF CallAt, Step
  <1>1. CASE ip = 1
    <2>1. Code[ip] = Store("rax")
      BY <1>1, <1>0, DumpAt DEF Code
    <2>2. StoreRax /\ R = "rax"
      BY <2>1, <1>0, Executes DEF R, ToRax, Store, Load, FromRax, I
    <2>4. /\ state' = [state EXCEPT !["rax"] = cpu["rax"]] /\ cpu' = cpu
          /\ hstack' = hstack /\ spilled' = spilled /\ Step
      BY <2>2 DEF StoreRax, Set
    <2>5. Typed'
      BY <2>4, <1>0, TypedStore, Named DEF Typed
    <2>6. Dumping'
      BY <1>1, <2>4, <1>0, <1>9, SavedAre, Named, ContextAssumption
      DEF Dumping, DumpRegs, DumpStack, DumpState, Own, Kept, Typed, Step
    <2> QED BY <2>4, <2>5, <2>6, <1>0, DumpGoesOn DEF Step
  <1>2. CASE ip = 2
    <2>1. Code[ip] = I("imm", "rax")
      BY <1>2, <1>0, DumpAt DEF Code
    <2>2. MovImm /\ R = "rax"
      BY <2>1, <1>0, Executes DEF R, ToRax, Store, Load, FromRax, I
    <2>4. /\ cpu' = [cpu EXCEPT !["rax"] = Junk] /\ state' = state
          /\ hstack' = hstack /\ spilled' = spilled /\ Step
      BY <2>2 DEF MovImm, Set
    <2>5. Typed'
      BY <2>4, <1>0, TypedSet, Named, ValuesAre, ContextAssumption DEF Typed, Fixed
    <2>6. Dumping'
      BY <1>2, <2>4, <1>0, <1>9, SavedAre, Named, ContextAssumption
      DEF Dumping, DumpRegs, DumpStack, DumpState, Own, Kept, Typed, Step
    <2> QED BY <2>4, <2>5, <2>6, <1>0, DumpGoesOn DEF Step
  <1>3. CASE ip = 3
    <2>1. Code[ip] = ToRax("rsp")
      BY <1>3, <1>0, DumpAt DEF Code
    <2>2. MovToRax /\ R = "rsp"
      BY <2>1, <1>0, Executes DEF R, ToRax, Store, Load, FromRax, I
    <2>4. /\ cpu' = [cpu EXCEPT !["rax"] = cpu["rsp"]] /\ state' = state
          /\ hstack' = hstack /\ spilled' = spilled /\ Step
      BY <2>2 DEF MovToRax, Set
    <2>5. Typed'
      BY <2>4, <1>0, TypedSet, Named, ValuesAre, ContextAssumption DEF Typed, Fixed
    <2>6. Dumping'
      BY <1>3, <2>4, <1>0, <1>9, SavedAre, Named, ContextAssumption
      DEF Dumping, DumpRegs, DumpStack, DumpState, Own, Kept, Typed, Step
    <2> QED BY <2>4, <2>5, <2>6, <1>0, DumpGoesOn DEF Step
  <1>4. CASE ip = 4
    <2>1. Code[ip] = Store("rsp")
      BY <1>4, <1>0, DumpAt DEF Code
    <2>2. StoreRax /\ R = "rsp"
      BY <2>1, <1>0, Executes DEF R, ToRax, Store, Load, FromRax, I
    <2>4. /\ state' = [state EXCEPT !["rsp"] = cpu["rax"]] /\ cpu' = cpu
          /\ hstack' = hstack /\ spilled' = spilled /\ Step
      BY <2>2 DEF StoreRax, Set
    <2>5. Typed'
      BY <2>4, <1>0, TypedStore, Named DEF Typed
    <2>6. Dumping'
      BY <1>4, <2>4, <1>0, <1>9, SavedAre, Named, ContextAssumption
      DEF Dumping, DumpRegs, DumpStack, DumpState, Own, Kept, Typed, Step
    <2> QED BY <2>4, <2>5, <2>6, <1>0, DumpGoesOn DEF Step
  <1>5. CASE ip = 5
    <2>1. Code[ip] = I("switch", "rsp")
      BY <1>5, <1>0, DumpAt DEF Code
    <2>2. MovStack /\ R = "rsp"
      BY <2>1, <1>0, Executes DEF R, ToRax, Store, Load, FromRax, I
    <2>4. /\ cpu' = [cpu EXCEPT !["rsp"] = Host(Slots)] /\ state' = state
          /\ hstack' = hstack /\ spilled' = spilled /\ Step
      BY <2>2 DEF MovStack, Set
    <2>5. Typed'
      BY <2>4, <1>0, TypedSet, Named, ValuesAre, ContextAssumption DEF Typed, Fixed
    <2>6. Dumping'
      BY <1>5, <2>4, <1>0, <1>9, SavedAre, Named, ContextAssumption
      DEF Dumping, DumpRegs, DumpStack, DumpState, Own, Kept, Typed, Step
    <2> QED BY <2>4, <2>5, <2>6, <1>0, DumpGoesOn DEF Step
  <1>6. CASE ip = 6
    <2>1. Code[ip] = I("push", "rflags")
      BY <1>6, <1>0, DumpAt DEF Code
    <2>2. Push /\ R = "rflags"
      BY <2>1, <1>0, Executes DEF R, ToRax, Store, Load, FromRax, I
    <2>3. OnHost /\ cpu["rsp"][2] = Slots
      BY <1>6, <1>0, ValuesAre, ContextAssumption DEF OnHost, Dumping, DumpRegs, DumpStack, DumpState, Own, Kept
    <2>4. /\ cpu' = [cpu EXCEPT !["rsp"] = Host(Slots - 1)] /\ state' = state
          /\ hstack' = [hstack EXCEPT ![Slots - 1] = cpu["rflags"]]
          /\ spilled' = spilled /\ Step
      BY <2>2, <2>3, <1>0 DEF Push, Typed
    <2>5. Typed'
      <3>1. Slots - 1 \in 0 .. Slots /\ cpu["rflags"] \in Values
        BY <1>0, Named, ContextAssumption DEF Typed
      <3> QED BY <2>4, <3>1, <1>0, TypedPush
    <2>7. /\ hstack'[Slots - 1] = cpu["rflags"] /\ cpu'["rsp"] = Host(Slots - 1)
          /\ \A x \in Regs \ {"rsp"} : cpu'[x] = cpu[x]
          /\ state' = state /\ Step
      BY <2>4, <1>0, Named, ContextAssumption DEF Typed
    <2>6. Dumping'
      <3>1. ip' = 7 /\ cpu["rflags"] = want["rflags"] /\ want' = want
        BY <1>6, <2>7, <1>0, Named DEF Dumping, DumpRegs, Own, Step
      <3>0. CallAt' \in {52, 53} /\ CallAt' = CallAt /\ Mode' = Mode
        BY <2>7, <1>9
      <3>2. DumpStack'
        BY <3>0, <3>1, <2>7 DEF DumpStack
      <3>3. DumpRegs'
        BY <1>6, <2>7, <3>1, <1>0, <1>9, Named DEF Dumping, DumpRegs, Own, Step
      <3>4. DumpState'
        BY <1>6, <2>7, <3>1, <3>0, <1>0 DEF Dumping, DumpState, Kept
      <3> QED BY <3>0, <3>1, <3>2, <3>3, <3>4 DEF Dumping
    <2> QED BY <2>4, <2>5, <2>6, <1>0, DumpGoesOn DEF Step
  <1>7. CASE ip = 7
    <2>1. Code[ip] = I("pop", "rax")
      BY <1>7, <1>0, DumpAt DEF Code
    <2>2. Pop /\ R = "rax"
      BY <2>1, <1>0, Executes DEF R, ToRax, Store, Load, FromRax, I
    <2>3. OnHost /\ cpu["rsp"][2] = Slots - 1 /\ cpu["rsp"][2] + 1 = Slots
      BY <1>7, <1>0, ValuesAre, ContextAssumption DEF OnHost, Dumping, DumpRegs, DumpStack, DumpState, Own, Kept
    <2>4. /\ cpu' = [[cpu EXCEPT !["rsp"] = Host(Slots)] EXCEPT !["rax"] = want["rflags"]]
          /\ state' = state /\ hstack' = hstack /\ spilled' = spilled /\ Step
      BY <1>7, <2>2, <2>3, <1>0, ContextAssumption DEF Pop, Dumping, DumpRegs, DumpStack, DumpState, Own, Kept
    <2>5. Typed'
      <3>1. Slots \in 0 .. Slots /\ want["rflags"] \in Values /\ "rax" \in Regs \ Fixed
        BY <1>0, Named, ContextAssumption DEF Typed, Fixed
      <3> QED BY <2>4, <3>1, <1>0, TypedPop
    <2>6. Dumping'
      BY <1>7, <2>4, <1>0, <1>9, SavedAre, Named, ContextAssumption
      DEF Dumping, DumpRegs, DumpStack, DumpState, Own, Kept, Typed, Step
    <2> QED BY <2>4, <2>5, <2>6, <1>0, DumpGoesOn DEF Step
  <1>8. CASE ip = 8
    <2>1. Code[ip] = Store("rflags")
      BY <1>8, <1>0, DumpAt DEF Code
    <2>2. StoreRax /\ R = "rflags"
      BY <2>1, <1>0, Executes DEF R, ToRax, Store, Load, FromRax, I
    <2>4. /\ state' = [state EXCEPT !["rflags"] = cpu["rax"]] /\ cpu' = cpu
          /\ hstack' = hstack /\ spilled' = spilled /\ Step
      BY <2>2 DEF StoreRax, Set
    <2>5. Typed'
      BY <2>4, <1>0, TypedStore, Named DEF Typed
    <2>6. Dumping'
      BY <1>8, <2>4, <1>0, <1>9, SavedAre, Named, ContextAssumption
      DEF Dumping, DumpRegs, DumpStack, DumpState, Own, Kept, Typed, Step
    <2> QED BY <2>4, <2>5, <2>6, <1>0, DumpGoesOn DEF Step
  <1> QED BY <1>0, <1>1, <1>2, <1>3, <1>4, <1>5, <1>6, <1>7, <1>8 DEF Dumping

LEMMA DumpSaves ==
    ASSUME IInv, phase = "dump", Next, ip > 8, ip <= 48
    PROVE  IInv'
  <1>0. Typed /\ Dumping /\ phase = "dump" /\ Mode \in {"sse", "avx2"} /\ ip \in Nat
    BY DEF IInv, Typed, Dumping
  <1>9. /\ CallAt \in {52, 53} /\ (Step => CallAt' = CallAt /\ Mode' = Mode)
    BY SameMode DEF CallAt, Step
  <1>1. \E k \in 1 .. 20 : ip = 7 + 2 * k \/ ip = 8 + 2 * k
    <2>1. CASE ip % 2 = 1
      <3>1. (ip - 7) \div 2 \in 1 .. 20 /\ ip = 7 + 2 * ((ip - 7) \div 2)
        BY <2>1, <1>0
      <3> QED BY <3>1
    <2>2. CASE ip % 2 # 1
      <3>1. (ip - 8) \div 2 \in 1 .. 20 /\ ip = 8 + 2 * ((ip - 8) \div 2)
        BY <2>2, <1>0
      <3> QED BY <3>1
    <2> QED BY <2>1, <2>2
  <1>2. PICK k \in 1 .. 20 : ip = 7 + 2 * k \/ ip = 8 + 2 * k
    BY <1>1
  <1>3. Saved[k] \in SavedRegs /\ Saved[k] \in Regs \ {"rax", "rsp", "xmm0"}
    BY SavedAre, Named DEF LowRegs
  <1>4. CASE ip = 7 + 2 * k
    <2>1. Code[ip] = ToRax(Saved[k])
      BY <1>4, <1>0, DumpAt DEF Code
    <2>2. MovToRax /\ R = Saved[k]
      BY <2>1, <1>0, Executes DEF R, ToRax, I
    <2>3. /\ cpu' = [cpu EXCEPT !["rax"] = cpu[Saved[k]]] /\ state' = state
          /\ hstack' = hstack /\ spilled' = spilled /\ Step
      BY <2>2 DEF MovToRax, Set
    <2>4. cpu[Saved[k]] = want[Saved[k]] /\ cpu[Saved[k]] \in Values
      BY <1>0, <1>3, <1>9 DEF Dumping, DumpRegs, Own, Typed
    <2>5. Typed'
      BY <2>3, <2>4, <1>0, TypedSet, Named DEF Fixed
    <2>6. \A j \in 1 .. 20 : ip + 1 = 8 + 2 * j => j = k
      BY <1>4
    <2>7. \A j \in 1 .. 20 : ip + 1 > 8 + 2 * j => ip > 8 + 2 * j
      BY <1>4
    <2>8. Dumping'
      BY <1>4, <2>3, <2>4, <2>6, <2>7, <1>0, <1>9, Named
      DEF Dumping, DumpRegs, DumpStack, DumpState, Own, Kept, Typed, Step
    <2> QED BY <2>3, <2>5, <2>8, <1>0, DumpGoesOn DEF Step
  <1>5. CASE ip = 8 + 2 * k
    <2>1. Code[ip] = Store(Saved[k])
      BY <1>5, <1>0, DumpAt DEF Code
    <2>2. StoreRax /\ R = Saved[k]
      BY <2>1, <1>0, Executes DEF R, Store, I
    <2>3. /\ state' = [state EXCEPT ![Saved[k]] = cpu["rax"]] /\ cpu' = cpu
          /\ hstack' = hstack /\ spilled' = spilled /\ Step
      BY <2>2 DEF StoreRax
    <2>4. cpu["rax"] = want[Saved[k]] /\ cpu["rax"] \in Values
      BY <1>0, <1>5, Named DEF Dumping, DumpRegs, Typed
    <2>5. Typed'
      BY <2>3, <2>4, <1>0, <1>3, TypedStore
    <2>6. \A r \in Regs : (state[r] = want[r] \/ r = Saved[k]) => state'[r] = want[r]
      BY <2>3, <2>4, <1>0 DEF Typed
    <2>7. \A j \in 1 .. 20 : /\ ip + 1 # 8 + 2 * j
                             /\ ip + 1 > 8 + 2 * j => ip > 8 + 2 * j \/ j = k
                             /\ Saved[j] \in Regs
      BY <1>5, SavedAre, Named
    <2>8. Dumping'
      <3>1. DumpRegs' /\ DumpStack'
        BY <1>5, <2>3, <2>7, <1>0, <1>9, Named DEF Dumping, DumpRegs, DumpStack, Own, Step
      <3>2. DumpState'
        BY <1>5, <2>3, <2>6, <2>7, <1>0, <1>9, Named DEF Dumping, DumpState, Kept, Step
      <3> QED BY <3>1, <3>2, <1>5, <1>9, <2>3 DEF Dumping, Step
    <2> QED BY <2>3, <2>5, <2>8, <1>0, DumpGoesOn DEF Step
  <1> QED BY <1>2, <1>4, <1>5

\* vmovups and movaps: what a vector store does.
LEMMA VStored ==
    ASSUME Typed, phase = "dump", VStore, R \in LowRegs
    PROVE  /\ Typed' /\ hstack' = hstack /\ Step
           /\ \A r \in Regs \ {"rax"} : cpu'[r] = cpu[r]
           /\ \A r \in Regs \ {R, HighOf(R)} : state'[r] = state[r]
           /\ Mode = "sse" => state'[R] = cpu["xmm0"] /\ state'[HighOf(R)] = state[HighOf(R)]
           /\ Mode = "avx2" => state'[R] = cpu[R] /\ state'[HighOf(R)] = cpu[HighOf(R)]
  <1> DEFINE h == HighOf(R)
             w == IF Mode = "sse" THEN cpu["xmm0"] ELSE cpu[R]
             x == IF Mode = "avx2" THEN cpu[h] ELSE state[h]
  <1>1. R \in Regs /\ h \in Regs /\ R # h /\ h # "rax"
    BY SetsAre, Named DEF LowRegs
  <1>2. /\ state' = [[state EXCEPT ![R] = w] EXCEPT ![h] = x]
        /\ cpu' = [cpu EXCEPT !["rax"] = Junk] /\ hstack' = hstack /\ spilled' = spilled /\ Step
    <2>1. [state EXCEPT ![R] = w][h] = state[h]
      BY <1>1 DEF Typed
    <2> QED BY <1>1, <2>1 DEF VStore, Typed
  <1>3. w \in Values /\ x \in Values /\ Junk \in Values
    BY <1>1, Named, ValuesAre DEF Typed
  <1> HIDE DEF h, w, x
  <1>4. /\ cpu' \in [Regs -> Values] /\ state' \in [Regs -> Values]
        /\ \A r \in Regs \ {"rax"} : cpu'[r] = cpu[r]
        /\ \A r \in Regs \ {R, h} : state'[r] = state[r]
        /\ state'[R] = w /\ state'[h] = x
    BY <1>1, <1>2, <1>3 DEF Typed
  <1>5. Typed'
    BY <1>2, <1>4, SameMode, Named DEF Typed, Step, Own
  <1>6. Mode = "sse" => w = cpu["xmm0"] /\ x = state[h]
    BY DEF w, x
  <1>7. Mode = "avx2" => w = cpu[R] /\ x = cpu[h]
    BY DEF w, x
  <1> QED BY <1>2, <1>4, <1>5, <1>6, <1>7 DEF h

LEMMA DumpSse ==
    ASSUME IInv, phase = "dump", Next, Mode = "sse", ip > 48, ip <= 53
    PROVE  IInv'
  <1>0. Typed /\ Dumping /\ phase = "dump" /\ ip \in Nat
    BY DEF IInv, Dumping
  <1>9. /\ CallAt = 53 /\ (Step => CallAt' = CallAt /\ Mode' = Mode)
    BY SameMode DEF CallAt, Step
  <1>10. \A k \in 1 .. 20 : /\ ip # 8 + 2 * k /\ ip + 1 # 8 + 2 * k
                             /\ ip > 8 + 2 * k /\ ip + 1 > 8 + 2 * k
                             /\ Saved[k] \in Regs \ {"xmm0", "xmm1", "xmm15", "ymm0", "ymm1", "ymm15", "mxcsr"}
    BY <1>0, SavedAre, Named DEF LowRegs, HighRegs
  <1>1. CASE ip = 49
    <2>1. Code[ip] = I("vstore", "xmm0")
      <3>1. DumpCode[48 + 1] = SaveVectors[1]
        BY <1>9, DumpAt
      <3> QED BY <1>1, <1>0, <3>1 DEF Code, SaveVectors
    <2>2. VStore /\ R = "xmm0"
      BY <2>1, <1>0, Executes DEF R, I
    <2>3. HighOf("xmm0") = "ymm0"
      BY SetsAre
    <2>4. /\ Typed' /\ hstack' = hstack /\ Step
          /\ \A x \in Regs \ {"rax"} : cpu'[x] = cpu[x]
          /\ \A x \in Regs \ {"xmm0", "ymm0"} : state'[x] = state[x]
          /\ state'["xmm0"] = cpu["xmm0"]
          /\ state'["ymm0"] = state["ymm0"]
      BY <2>2, <2>3, <1>0, VStored DEF LowRegs
    <2>5. Dumping'
      BY <1>1, <2>4, <1>0, <1>9, <1>10, Named
      DEF Dumping, DumpRegs, DumpStack, DumpState, Own, Kept, Step
    <2> QED BY <2>4, <2>5, <1>0, DumpGoesOn DEF Step
  <1>2. CASE ip = 50
    <2>1. Code[ip] = I("vmove", "xmm1")
      <3>1. DumpCode[48 + 2] = SaveVectors[2]
        BY <1>9, DumpAt
      <3> QED BY <1>2, <1>0, <3>1 DEF Code, SaveVectors
    <2>2. VMove /\ R = "xmm1"
      BY <2>1, <1>0, Executes DEF R, I
    <2>3. /\ cpu' = [cpu EXCEPT !["xmm0"] = cpu["xmm1"]] /\ state' = state
          /\ hstack' = hstack /\ spilled' = spilled /\ Step
      BY <2>2 DEF VMove, Set
    <2>4. Typed' /\ cpu'["xmm0"] = cpu["xmm1"] /\ (\A x \in Regs \ {"xmm0"} : cpu'[x] = cpu[x])
          /\ state' = state /\ hstack' = hstack /\ Step
      BY <2>3, <1>0, TypedSet, Named DEF Typed, Fixed
    <2>5. Dumping'
      BY <1>2, <2>4, <1>0, <1>9, <1>10, Named
      DEF Dumping, DumpRegs, DumpStack, DumpState, Own, Kept, Step
    <2> QED BY <2>4, <2>5, <1>0, DumpGoesOn DEF Step
  <1>3. CASE ip = 51
    <2>1. Code[ip] = I("vstore", "xmm1")
      <3>1. DumpCode[48 + 3] = SaveVectors[3]
        BY <1>9, DumpAt
      <3> QED BY <1>3, <1>0, <3>1 DEF Code, SaveVectors
    <2>2. VStore /\ R = "xmm1"
      BY <2>1, <1>0, Executes DEF R, I
    <2>3. HighOf("xmm1") = "ymm1"
      BY SetsAre
    <2>4. /\ Typed' /\ hstack' = hstack /\ Step
          /\ \A x \in Regs \ {"rax"} : cpu'[x] = cpu[x]
          /\ \A x \in Regs \ {"xmm1", "ymm1"} : state'[x] = state[x]
          /\ state'["xmm1"] = cpu["xmm0"]
          /\ state'["ymm1"] = state["ymm1"]
      BY <2>2, <2>3, <1>0, VStored DEF LowRegs
    <2>5. Dumping'
      BY <1>3, <2>4, <1>0, <1>9, <1>10, Named
      DEF Dumping, DumpRegs, DumpStack, DumpState, Own, Kept, Step
    <2> QED BY <2>4, <2>5, <1>0, DumpGoesOn DEF Step
  <1>4. CASE ip = 52
    <2>1. Code[ip] = I("vmove", "xmm15")
      <3>1. DumpCode[48 + 4] = SaveVectors[4]
        BY <1>9, DumpAt
      <3> QED BY <1>4, <1>0, <3>1 DEF Code, SaveVectors
    <2>2. VMove /\ R = "xmm15"
      BY <2>1, <1>0, Executes DEF R, I
    <2>3. /\ cpu' = [cpu EXCEPT !["xmm0"] = cpu["xmm15"]] /\ state' = state
          /\ hstack' = hstack /\ spilled' = spilled /\ Step
      BY <2>2 DEF VMove, Set
    <2>4. Typed' /\ cpu'["xmm0"] = cpu["xmm15"] /\ (\A x \in Regs \ {"xmm0"} : cpu'[x] = cpu[x])
          /\ state' = state /\ hstack' = hstack /\ Step
      BY <2>3, <1>0, TypedSet, Named DEF Typed, Fixed
    <2>5. Dumping'
      BY <1>4, <2>4, <1>0, <1>9, <1>10, Named
      DEF Dumping, DumpRegs, DumpStack, DumpState, Own, Kept, Step
    <2> QED BY <2>4, <2>5, <1>0, DumpGoesOn DEF Step
  <1>5. CASE ip = 53
    <2>1. Code[ip] = I("vstore", "xmm15")
      <3>1. DumpCode[48 + 5] = SaveVectors[5]
        BY <1>9, DumpAt
      <3> QED BY <1>5, <1>0, <3>1 DEF Code, SaveVectors
    <2>2. VStore /\ R = "xmm15"
      BY <2>1, <1>0, Executes DEF R, I
    <2>3. HighOf("xmm15") = "ymm15"
      BY SetsAre
    <2>4. /\ Typed' /\ hstack' = hstack /\ Step
          /\ \A x \in Regs \ {"rax"} : cpu'[x] = cpu[x]
          /\ \A x \in Regs \ {"xmm15", "ymm15"} : state'[x] = state[x]
          /\ state'["xmm15"] = cpu["xmm0"]
          /\ state'["ymm15"] = state["ymm15"]
      BY <2>2, <2>3, <1>0, VStored DEF LowRegs
    <2>5. Dumping'
      BY <1>5, <2>4, <1>0, <1>9, <1>10, Named
      DEF Dumping, DumpRegs, DumpStack, DumpState, Own, Kept, Step
    <2> QED BY <2>4, <2>5, <1>0, DumpGoesOn DEF Step
  <1> QED BY <1>0, <1>1, <1>2, <1>3, <1>4, <1>5

LEMMA DumpAvx ==
    ASSUME IInv, phase = "dump", Next, Mode = "avx2", ip > 48, ip <= 52
    PROVE  IInv'
  <1>0. Typed /\ Dumping /\ phase = "dump" /\ ip \in Nat
    BY DEF IInv, Dumping
  <1>9. /\ CallAt = 52 /\ (Step => CallAt' = CallAt /\ Mode' = Mode)
    BY SameMode DEF CallAt, Step
  <1>10. \A k \in 1 .. 20 : /\ ip # 8 + 2 * k /\ ip + 1 # 8 + 2 * k
                             /\ ip > 8 + 2 * k /\ ip + 1 > 8 + 2 * k
                             /\ Saved[k] \in Regs \ {"xmm0", "xmm1", "xmm15", "ymm0", "ymm1", "ymm15", "mxcsr"}
    BY <1>0, SavedAre, Named DEF LowRegs, HighRegs
  <1>1. CASE ip = 49
    <2>1. Code[ip] = I("save_mxcsr", "mxcsr")
      <3>1. DumpCode[48 + 1] = SaveVectors[1]
        BY <1>9, DumpAt
      <3> QED BY <1>1, <1>0, <3>1 DEF Code, SaveVectors
    <2>2. SaveMxcsr /\ R = "mxcsr"
      BY <2>1, <1>0, Executes DEF R, I
    <2>3. OnHost
      BY <1>1, <1>0, <1>9, ValuesAre, ContextAssumption DEF OnHost, Dumping, DumpStack
    <2>7. /\ state' = [state EXCEPT !["mxcsr"] = cpu["mxcsr"]] /\ hstack' = hstack
          /\ cpu' = [cpu EXCEPT !["rax"] = Junk] /\ spilled' = FALSE /\ Step
      BY <2>2, <2>3, <1>0 DEF SaveMxcsr, Typed
    <2>4. /\ Typed' /\ hstack' = hstack /\ Step
          /\ \A x \in Regs \ {"rax"} : cpu'[x] = cpu[x]
          /\ \A x \in Regs \ {"mxcsr"} : state'[x] = state[x]
          /\ state'["mxcsr"] = cpu["mxcsr"]
      <3>1. cpu' \in [Regs -> Values] /\ state' \in [Regs -> Values]
        BY <2>7, <1>0, Named, ValuesAre DEF Typed
      <3> QED BY <2>7, <3>1, <1>0, SameMode, Named DEF Typed, Step, Own
    <2>5. Dumping'
      BY <1>1, <2>4, <1>0, <1>9, <1>10, Named
      DEF Dumping, DumpRegs, DumpStack, DumpState, Own, Kept, Step
    <2> QED BY <2>4, <2>5, <1>0, DumpGoesOn DEF Step
  <1>2. CASE ip = 50
    <2>1. Code[ip] = I("vstore", "xmm0")
      <3>1. DumpCode[48 + 2] = SaveVectors[2]
        BY <1>9, DumpAt
      <3> QED BY <1>2, <1>0, <3>1 DEF Code, SaveVectors
    <2>2. VStore /\ R = "xmm0"
      BY <2>1, <1>0, Executes DEF R, I
    <2>3. HighOf("xmm0") = "ymm0"
      BY SetsAre
    <2>4. /\ Typed' /\ hstack' = hstack /\ Step
          /\ \A x \in Regs \ {"rax"} : cpu'[x] = cpu[x]
          /\ \A x \in Regs \ {"xmm0", "ymm0"} : state'[x] = state[x]
          /\ state'["xmm0"] = cpu["xmm0"]
          /\ state'["ymm0"] = cpu["ymm0"]
      BY <2>2, <2>3, <1>0, VStored DEF LowRegs
    <2>5. Dumping'
      BY <1>2, <2>4, <1>0, <1>9, <1>10, Named
      DEF Dumping, DumpRegs, DumpStack, DumpState, Own, Kept, Step
    <2> QED BY <2>4, <2>5, <1>0, DumpGoesOn DEF Step
  <1>3. CASE ip = 51
    <2>1. Code[ip] = I("vstore", "xmm1")
      <3>1. DumpCode[48 + 3] = SaveVectors[3]
        BY <1>9, DumpAt
      <3> QED BY <1>3, <1>0, <3>1 DEF Code, SaveVectors
    <2>2. VStore /\ R = "xmm1"
      BY <2>1, <1>0, Executes DEF R, I
    <2>3. HighOf("xmm1") = "ymm1"
      BY SetsAre
    <2>4. /\ Typed' /\ hstack' = hstack /\ Step
          /\ \A x \in Regs \ {"rax"} : cpu'[x] = cpu[x]
          /\ \A x \in Regs \ {"xmm1", "ymm1"} : state'[x] = state[x]
          /\ state'["xmm1"] = cpu["xmm1"]
          /\ state'["ymm1"] = cpu["ymm1"]
      BY <2>2, <2>3, <1>0, VStored DEF LowRegs
    <2>5. Dumping'
      BY <1>3, <2>4, <1>0, <1>9, <1>10, Named
      DEF Dumping, DumpRegs, DumpStack, DumpState, Own, Kept, Step
    <2> QED BY <2>4, <2>5, <1>0, DumpGoesOn DEF Step
  <1>4. CASE ip = 52
    <2>1. Code[ip] = I("vstore", "xmm15")
      <3>1. DumpCode[48 + 4] = SaveVectors[4]
        BY <1>9, DumpAt
      <3> QED BY <1>4, <1>0, <3>1 DEF Code, SaveVectors
    <2>2. VStore /\ R = "xmm15"
      BY <2>1, <1>0, Executes DEF R, I
    <2>3. HighOf("xmm15") = "ymm15"
      BY SetsAre
    <2>4. /\ Typed' /\ hstack' = hstack /\ Step
          /\ \A x \in Regs \ {"rax"} : cpu'[x] = cpu[x]
          /\ \A x \in Regs \ {"xmm15", "ymm15"} : state'[x] = state[x]
          /\ state'["xmm15"] = cpu["xmm15"]
          /\ state'["ymm15"] = cpu["ymm15"]
      BY <2>2, <2>3, <1>0, VStored DEF LowRegs
    <2>5. Dumping'
      BY <1>4, <2>4, <1>0, <1>9, <1>10, Named
      DEF Dumping, DumpRegs, DumpStack, DumpState, Own, Kept, Step
    <2> QED BY <2>4, <2>5, <1>0, DumpGoesOn DEF Step
  <1> QED BY <1>0, <1>1, <1>2, <1>3, <1>4

LEMMA DumpCalls ==
    ASSUME IInv, phase = "dump", Next, ip > CallAt
    PROVE  IInv'
  <1>0. Typed /\ Dumping /\ phase = "dump" /\ Mode \in {"sse", "avx2"} /\ ip \in Nat
    BY DEF IInv, Typed, Dumping, CallAt
  <1>9. /\ CallAt \in {52, 53} /\ (Mode = "sse" => CallAt = 53)
        /\ (Step => CallAt' = CallAt /\ Mode' = Mode)
    BY SameMode DEF CallAt, Step
  <1>10. \A k \in 1 .. 20 : /\ ip # 8 + 2 * k /\ ip + 1 # 8 + 2 * k
                            /\ ip > 8 + 2 * k /\ ip + 1 > 8 + 2 * k
                            /\ Saved[k] \in Regs \ {"rip"}
    BY <1>0, <1>9, SavedAre, Named
  <1>1. CASE ip = CallAt + 1
    <2>1. Code[ip] = I("imm", "rdi")
      <3>1. DumpCode[CallAt + 1] = CallDispatcher[1]
        BY <1>9, DumpAt
      <3> QED BY <1>1, <1>0, <3>1 DEF Code, CallDispatcher
    <2>2. MovImm /\ R = "rdi"
      BY <2>1, <1>0, Executes DEF R, Store, I
    <2>4. /\ cpu' = [cpu EXCEPT !["rdi"] = Junk] /\ state' = state
          /\ hstack' = hstack /\ spilled' = spilled /\ Step
      BY <2>2 DEF MovImm, Set
    <2>5. Typed'
      <3>1. Junk \in Values /\ "rdi" \in Regs \ Fixed
        BY <1>0, Named, ValuesAre DEF Typed, Fixed
      <3> QED BY <2>4, <3>1, <1>0, TypedSet
    <2>6. /\ cpu'["rdi"] = Junk /\ state' = state /\ hstack' = hstack /\ Step
          /\ \A x \in Regs \ {"rdi"} : cpu'[x] = cpu[x]
      BY <2>4, <1>0, Named DEF Typed
    <2>7. Dumping'
      <3>1. CallAt' = CallAt /\ Mode' = Mode /\ want' = want /\ ip' = ip + 1
        BY <2>6, <1>9 DEF Step
      <3>2. DumpRegs'
        BY <1>1, <2>6, <3>1, <1>0, <1>9, <1>10, Named DEF Dumping, DumpRegs, Own
      <3>3. DumpStack'
        BY <1>1, <2>6, <3>1, <1>0, <1>9, Named DEF Dumping, DumpStack
      <3>4. DumpState'
        BY <1>1, <2>6, <3>1, <1>0, <1>9, <1>10, Named DEF Dumping, DumpRegs, DumpState, Kept
      <3> QED BY <1>1, <3>1, <3>2, <3>3, <3>4, <1>0, <1>9 DEF Dumping
    <2> QED BY <2>5, <2>6, <2>7, <1>0, DumpGoesOn DEF Step
  <1>2. CASE ip = CallAt + 2
    <2>1. Code[ip] = I("imm", "rax")
      <3>1. DumpCode[CallAt + 2] = CallDispatcher[2]
        BY <1>9, DumpAt
      <3> QED BY <1>2, <1>0, <3>1 DEF Code, CallDispatcher
    <2>2. MovImm /\ R = "rax"
      BY <2>1, <1>0, Executes DEF R, Store, I
    <2>4. /\ cpu' = [cpu EXCEPT !["rax"] = Junk] /\ state' = state
          /\ hstack' = hstack /\ spilled' = spilled /\ Step
      BY <2>2 DEF MovImm, Set
    <2>5. Typed'
      <3>1. Junk \in Values /\ "rax" \in Regs \ Fixed
        BY <1>0, Named, ValuesAre DEF Typed, Fixed
      <3> QED BY <2>4, <3>1, <1>0, TypedSet
    <2>6. /\ cpu'["rax"] = Junk /\ state' = state /\ hstack' = hstack /\ Step
          /\ \A x \in Regs \ {"rax"} : cpu'[x] = cpu[x]
      BY <2>4, <1>0, Named DEF Typed
    <2>7. Dumping'
      <3>1. CallAt' = CallAt /\ Mode' = Mode /\ want' = want /\ ip' = ip + 1
        BY <2>6, <1>9 DEF Step
      <3>2. DumpRegs'
        BY <1>2, <2>6, <3>1, <1>0, <1>9, <1>10, Named DEF Dumping, DumpRegs, Own
      <3>3. DumpStack'
        BY <1>2, <2>6, <3>1, <1>0, <1>9, Named DEF Dumping, DumpStack
      <3>4. DumpState'
        BY <1>2, <2>6, <3>1, <1>0, <1>9, <1>10, Named DEF Dumping, DumpRegs, DumpState, Kept
      <3> QED BY <1>2, <3>1, <3>2, <3>3, <3>4, <1>0, <1>9 DEF Dumping
    <2> QED BY <2>5, <2>6, <2>7, <1>0, DumpGoesOn DEF Step
  <1>3. CASE ip = CallAt + 3
    <2>1. Code[ip] = I("push", "rax")
      <3>1. DumpCode[CallAt + 3] = CallDispatcher[3]
        BY <1>9, DumpAt
      <3> QED BY <1>3, <1>0, <3>1 DEF Code, CallDispatcher
    <2>2. Push /\ R = "rax"
      BY <2>1, <1>0, Executes DEF R, Store, I
    <2>3. OnHost /\ cpu["rsp"][2] = Slots /\ cpu["rsp"][2] - 1 = Slots - 1
      BY <1>3, <1>0, <1>9, ValuesAre, ContextAssumption DEF OnHost, Dumping, DumpStack
    <2>4. /\ cpu' = [cpu EXCEPT !["rsp"] = Host(Slots - 1)] /\ state' = state
          /\ hstack' = [hstack EXCEPT ![Slots - 1] = cpu["rax"]]
          /\ spilled' = spilled /\ Step
      BY <2>2, <2>3, <1>0 DEF Push, Typed
    <2>5. Typed'
      <3>1. Slots - 1 \in 0 .. Slots /\ cpu["rax"] \in Values
        BY <1>0, Named, ContextAssumption DEF Typed
      <3> QED BY <2>4, <3>1, <1>0, TypedPush
    <2>6. /\ cpu'["rsp"] = Host(Slots - 1) /\ state' = state /\ Step
          /\ \A x \in Regs \ {"rsp"} : cpu'[x] = cpu[x]
      BY <2>4, <1>0, Named DEF Typed
    <2>7. Dumping'
      <3>1. CallAt' = CallAt /\ Mode' = Mode /\ want' = want /\ ip' = ip + 1
        BY <2>6, <1>9 DEF Step
      <3>2. DumpRegs'
        BY <1>3, <2>6, <3>1, <1>0, <1>9, <1>10, Named DEF Dumping, DumpRegs, Own
      <3>3. DumpStack'
        BY <1>3, <2>6, <3>1, <1>0, <1>9, Named DEF Dumping, DumpStack
      <3>4. DumpState'
        BY <1>3, <2>6, <3>1, <1>0, <1>9, <1>10, Named DEF Dumping, DumpRegs, DumpState, Kept
      <3> QED BY <1>3, <3>1, <3>2, <3>3, <3>4, <1>0, <1>9 DEF Dumping
    <2> QED BY <2>5, <2>6, <2>7, <1>0, DumpGoesOn DEF Step
  <1>4. CASE ip = CallAt + 4
    <2>1. Code[ip] = I("push", "rax")
      <3>1. DumpCode[CallAt + 4] = CallDispatcher[4]
        BY <1>9, DumpAt
      <3> QED BY <1>4, <1>0, <3>1 DEF Code, CallDispatcher
    <2>2. Push /\ R = "rax"
      BY <2>1, <1>0, Executes DEF R, Store, I
    <2>3. OnHost /\ cpu["rsp"][2] = Slots - 1 /\ cpu["rsp"][2] - 1 = Slots - 2
      BY <1>4, <1>0, <1>9, ValuesAre, ContextAssumption DEF OnHost, Dumping, DumpStack
    <2>4. /\ cpu' = [cpu EXCEPT !["rsp"] = Host(Slots - 2)] /\ state' = state
          /\ hstack' = [hstack EXCEPT ![Slots - 2] = cpu["rax"]]
          /\ spilled' = spilled /\ Step
      BY <2>2, <2>3, <1>0 DEF Push, Typed
    <2>5. Typed'
      <3>1. Slots - 2 \in 0 .. Slots /\ cpu["rax"] \in Values
        BY <1>0, Named, ContextAssumption DEF Typed
      <3> QED BY <2>4, <3>1, <1>0, TypedPush
    <2>6. /\ cpu'["rsp"] = Host(Slots - 2) /\ state' = state /\ Step
          /\ \A x \in Regs \ {"rsp"} : cpu'[x] = cpu[x]
      BY <2>4, <1>0, Named DEF Typed
    <2>7. Dumping'
      <3>1. CallAt' = CallAt /\ Mode' = Mode /\ want' = want /\ ip' = ip + 1
        BY <2>6, <1>9 DEF Step
      <3>2. DumpRegs'
        BY <1>4, <2>6, <3>1, <1>0, <1>9, <1>10, Named DEF Dumping, DumpRegs, Own
      <3>3. DumpStack'
        BY <1>4, <2>6, <3>1, <1>0, <1>9, Named DEF Dumping, DumpStack
      <3>4. DumpState'
        BY <1>4, <2>6, <3>1, <1>0, <1>9, <1>10, Named DEF Dumping, DumpRegs, DumpState, Kept
      <3> QED BY <1>4, <3>1, <3>2, <3>3, <3>4, <1>0, <1>9 DEF Dumping
    <2> QED BY <2>5, <2>6, <2>7, <1>0, DumpGoesOn DEF Step
  <1>5. CASE ip = CallAt + 5
    <2>1. Code[ip] = I("load_hook", "rax")
      <3>1. DumpCode[CallAt + 5] = CallDispatcher[5]
        BY <1>9, DumpAt
      <3> QED BY <1>5, <1>0, <3>1 DEF Code, CallDispatcher
    <2>2. LoadHook /\ R = "rax"
      BY <2>1, <1>0, Executes DEF R, Store, I
    <2>4. /\ cpu' = [cpu EXCEPT !["rax"] = want["rip"]] /\ state' = state
          /\ hstack' = hstack /\ spilled' = spilled /\ Step
      BY <2>2 DEF LoadHook, Set
    <2>5. Typed'
      <3>1. want["rip"] \in Values /\ "rax" \in Regs \ Fixed
        BY <1>0, Named, ValuesAre DEF Typed, Fixed
      <3> QED BY <2>4, <3>1, <1>0, TypedSet
    <2>6. /\ cpu'["rax"] = want["rip"] /\ state' = state /\ hstack' = hstack /\ Step
          /\ \A x \in Regs \ {"rax"} : cpu'[x] = cpu[x]
      BY <2>4, <1>0, Named DEF Typed
    <2>7. Dumping'
      <3>1. CallAt' = CallAt /\ Mode' = Mode /\ want' = want /\ ip' = ip + 1
        BY <2>6, <1>9 DEF Step
      <3>2. DumpRegs'
        BY <1>5, <2>6, <3>1, <1>0, <1>9, <1>10, Named DEF Dumping, DumpRegs, Own
      <3>3. DumpStack'
        BY <1>5, <2>6, <3>1, <1>0, <1>9, Named DEF Dumping, DumpStack
      <3>4. DumpState'
        BY <1>5, <2>6, <3>1, <1>0, <1>9, <1>10, Named DEF Dumping, DumpRegs, DumpState, Kept
      <3> QED BY <1>5, <3>1, <3>2, <3>3, <3>4, <1>0, <1>9 DEF Dumping
    <2> QED BY <2>5, <2>6, <2>7, <1>0, DumpGoesOn DEF Step
  <1>6. CASE ip = CallAt + 6
    <2>1. Code[ip] = Store("rip")
      <3>1. DumpCode[CallAt + 6] = CallDispatcher[6]
        BY <1>9, DumpAt
      <3> QED BY <1>6, <1>0, <3>1 DEF Code, CallDispatcher
    <2>2. StoreRax /\ R = "rip"
      BY <2>1, <1>0, Executes DEF R, Store, I
    <2>4. /\ state' = [state EXCEPT !["rip"] = cpu["rax"]] /\ cpu' = cpu
          /\ hstack' = hstack /\ spilled' = spilled /\ Step
      BY <2>2 DEF StoreRax, Set
    <2>5. Typed'
      BY <2>4, <1>0, TypedStore, Named DEF Typed
    <2>6. /\ cpu' = cpu /\ hstack' = hstack /\ Step
          /\ \A x \in Regs \ {"rip"} : state'[x] = state[x]
          /\ state'["rip"] = cpu["rax"]
      BY <2>4, <1>0, Named DEF Typed
    <2>7. Dumping'
      <3>1. CallAt' = CallAt /\ Mode' = Mode /\ want' = want /\ ip' = ip + 1
        BY <2>6, <1>9 DEF Step
      <3>2. DumpRegs'
        BY <1>6, <2>6, <3>1, <1>0, <1>9, <1>10, Named DEF Dumping, DumpRegs, Own
      <3>3. DumpStack'
        BY <1>6, <2>6, <3>1, <1>0, <1>9, Named DEF Dumping, DumpStack
      <3>4. DumpState'
        BY <1>6, <2>6, <3>1, <1>0, <1>9, <1>10, Named DEF Dumping, DumpRegs, DumpState, Kept
      <3> QED BY <1>6, <3>1, <3>2, <3>3, <3>4, <1>0, <1>9 DEF Dumping
    <2> QED BY <2>5, <2>6, <2>7, <1>0, DumpGoesOn DEF Step
  <1>7. CASE ip = CallAt + 7
    <2>1. Code[ip] = I("dispatch", "rip")
      <3>1. DumpCode[CallAt + 7] = CallDispatcher[7]
        BY <1>9, DumpAt
      <3> QED BY <1>7, <1>0, <3>1 DEF Code, CallDispatcher
    <2>2. EnterDispatcher
      BY <2>1, <1>0, Executes DEF I
    <2>3. OnHost /\ cpu["rsp"][2] = Slots - 2 /\ cpu["rsp"][2] + 1 = Slots - 1
      BY <1>7, <1>0, <1>9, ValuesAre, ContextAssumption DEF OnHost, Dumping, DumpStack
    <2>4. /\ cpu' = [cpu EXCEPT !["rsp"] = Host(Slots - 1)] /\ phase' = "host" /\ ip' = 1
          /\ feature' = feature /\ state' = state /\ want' = want /\ hstack' = hstack
          /\ spilled' = spilled /\ gen' = gen
      BY <2>2, <2>3 DEF EnterDispatcher
    <2>5. cpu' \in [Regs -> Values] /\ cpu'["rsp"] = Host(Slots - 1)
          /\ \A x \in Regs \ {"rsp"} : cpu'[x] = cpu[x]
      BY <2>4, <1>0, Named, ValuesAre DEF Typed
    <2>6. Typed'
      BY <2>4, <2>5, <1>0, SameMode, Named DEF Typed, Own
    <2>7. Covered'
      <3>1. \A r \in Regs \ Uncovered : Kept(r)
        <4>1. \A r \in SavedRegs : Kept(r)
          BY <1>7, <1>0, <1>10, SavedAre DEF Dumping, DumpState
        <4>2. Kept("rax") /\ Kept("rsp") /\ Kept("rflags") /\ Kept("rip")
          BY <1>7, <1>0, <1>9 DEF Dumping, DumpState
        <4>3. CASE Mode = "sse"
          <5>1. Kept("xmm0") /\ Kept("xmm1") /\ Kept("xmm15")
            BY <4>3, <1>7, <1>0, <1>9 DEF Dumping, DumpState
          <5>2. Uncovered = HighRegs \cup {"mxcsr"}
            BY <4>3, SetsAre DEF Uncovered
          <5> QED BY <4>1, <4>2, <5>1, <5>2, RegsAre DEF LowRegs, OtherRegs
        <4>4. CASE Mode = "avx2"
          <5>1. /\ Kept("xmm0") /\ Kept("xmm1") /\ Kept("xmm15")
                /\ Kept("ymm0") /\ Kept("ymm1") /\ Kept("ymm15") /\ Kept("mxcsr")
            BY <4>4, <1>7, <1>0, <1>9 DEF Dumping, DumpState
          <5> QED BY <4>1, <4>2, <5>1, RegsAre DEF LowRegs, HighRegs, OtherRegs
        <4> QED BY <4>3, <4>4, <1>0
      <3> QED BY <3>1, <2>4, SameMode DEF Covered, Kept
    <2> QED BY <2>4, <2>5, <2>6, <2>7 DEF IInv
  <1>8. ip \in 1 .. (CallAt + 7)
    BY <1>0 DEF Dumping
  <1> QED BY <1>0, <1>8, <1>9, <1>1, <1>2, <1>3, <1>4, <1>5, <1>6, <1>7

LEMMA DumpSteps ==
    ASSUME IInv, phase = "dump", Next
    PROVE  IInv'
  <1>1. ip \in 1 .. (CallAt + 7) /\ Mode \in {"sse", "avx2"}
    BY DEF IInv, Dumping, Typed
  <1>2. Mode = "sse" => CallAt = 53
    BY DEF CallAt
  <1>3. Mode = "avx2" => CallAt = 52
    BY DEF CallAt
  <1>4. CASE ip <= 8
    BY <1>4, DumpStarts
  <1>5. CASE ip > 8 /\ ip <= 48
    BY <1>5, DumpSaves
  <1>6. CASE ip > 48 /\ ip <= CallAt
    BY <1>1, <1>2, <1>3, <1>6, DumpSse, DumpAvx
  <1>7. CASE ip > CallAt
    BY <1>7, DumpCalls
  <1> QED BY <1>1, <1>2, <1>3, <1>4, <1>5, <1>6, <1>7

----------------------------------------------------------------------------
(* The restore code, instruction by instruction.                           *)

\* What is left to show of a step inside the restore code.
LEMMA RestoreGoesOn ==
    ASSUME IInv, phase = "restore", Typed', Step, state' = state, ip < LoadAt + 44,
           BackRegs', BackStack'
    PROVE  IInv'
  <1>1. Covered' /\ ip' \in 1 .. (LoadAt' + 44)
    BY SameMode DEF IInv, Restoring, Covered, Kept, Step, LoadAt
  <1> QED BY <1>1 DEF IInv, Restoring, Step

\* vmovups and movaps: what a vector load does.
LEMMA VLoaded ==
    ASSUME Typed, phase = "restore", VLoad, R \in LowRegs
    PROVE  /\ Typed' /\ state' = state /\ hstack' = hstack /\ Step
           /\ \A r \in Regs \ {"rax", R, HighOf(R)} : cpu'[r] = cpu[r]
           /\ cpu'[R] = state[R]
           /\ Mode = "avx2" => cpu'[HighOf(R)] = state[HighOf(R)]
  <1> DEFINE h == HighOf(R)
             x == IF Mode = "avx2" THEN state[h] ELSE cpu[h]
  <1>1. R \in Regs \ Fixed /\ h \in Regs \ Fixed /\ R # h /\ h # "rax" /\ R # "rax"
    BY SetsAre, Named DEF LowRegs, Fixed
  <1>2. /\ cpu' = [[cpu EXCEPT ![R] = state[R], !["rax"] = Junk] EXCEPT ![h] = x]
        /\ state' = state /\ hstack' = hstack /\ spilled' = spilled /\ Step
    <2>1. [cpu EXCEPT ![R] = state[R], !["rax"] = Junk][h] = cpu[h]
      BY <1>1, Named DEF Typed
    <2> QED BY <1>1, <2>1 DEF VLoad, Typed
  <1>3. x \in Values /\ Junk \in Values /\ state[R] \in Values
    BY <1>1, Named, ValuesAre DEF Typed
  <1>4. Mode = "avx2" => x = state[h]
    OBVIOUS
  <1> HIDE DEF h, x
  <1>5. /\ cpu' \in [Regs -> Values]
        /\ \A r \in Regs \ {"rax", R, h} : cpu'[r] = cpu[r]
        /\ cpu'[R] = state[R] /\ cpu'[h] = x
    BY <1>1, <1>2, <1>3, Named DEF Typed
  <1>6. Typed'
    <2>1. \A r \in Fixed : r \in Regs \ {"rax", R, h}
      BY <1>1, Named
    <2> QED BY <1>2, <1>5, <2>1, SameMode DEF Typed, Step, Own
  <1> QED BY <1>2, <1>4, <1>5, <1>6 DEF h

LEMMA RestoreVectors ==
    ASSUME IInv, phase = "restore", Next, ip <= LoadAt
    PROVE  IInv'
  <1>0. Typed /\ Restoring /\ phase = "restore" /\ Mode \in {"sse", "avx2"} /\ ip \in Nat
    BY DEF IInv, Typed, Restoring, LoadAt
  <1>9. /\ LoadAt \in {3, 4} /\ (LoadAt = 4 <=> Mode = "avx2")
        /\ (Step => LoadAt' = LoadAt /\ Mode' = Mode)
    BY SameMode DEF LoadAt, Step
  <1>10. \A r \in Regs \ {"mxcsr", "ymm0", "ymm1", "ymm15"} : state[r] = want[r]
    BY <1>0, SetsAre DEF Restoring, Covered, Kept, Uncovered, HighRegs
  <1>11. Mode = "avx2" => \A r \in Regs : state[r] = want[r]
    BY <1>0 DEF Restoring, Covered, Kept, Uncovered
  <1>12. \A k \in 1 .. 17 : ip # LoadAt + 2 * k /\ ip + 1 # LoadAt + 2 * k
                            /\ ~(ip > LoadAt + 2 * k) /\ ~(ip + 1 > LoadAt + 2 * k)
    BY <1>0, <1>9
  <1>1. CASE ip = 1
    <2>1. Code[ip] = I("vload", "xmm0")
      BY <1>1, <1>0, RestoreAt DEF Code
    <2>2. VLoad /\ R = "xmm0"
      BY <2>1, <1>0, Executes DEF R, I
    <2>3. HighOf("xmm0") = "ymm0"
      BY SetsAre
    <2>4. /\ Typed' /\ state' = state /\ hstack' = hstack /\ Step
          /\ \A x \in Regs \ {"rax", "xmm0", "ymm0"} : cpu'[x] = cpu[x]
          /\ cpu'["xmm0"] = want["xmm0"]
          /\ Mode = "avx2" => cpu'["ymm0"] = want["ymm0"]
      BY <2>2, <2>3, <1>0, <1>10, <1>11, VLoaded, Named DEF LowRegs
    <2>5. BackRegs'
      BY <1>1, <2>4, <1>0, <1>9, <1>12, Named DEF Restoring, BackRegs, Own, Step
    <2>6. BackStack'
      BY <1>1, <2>4, <1>0, <1>9, Named DEF Restoring, BackStack, Step
    <2> QED BY <1>1, <2>4, <2>5, <2>6, <1>9, RestoreGoesOn
  <1>2. CASE ip = 2
    <2>1. Code[ip] = I("vload", "xmm1")
      BY <1>2, <1>0, RestoreAt DEF Code
    <2>2. VLoad /\ R = "xmm1"
      BY <2>1, <1>0, Executes DEF R, I
    <2>3. HighOf("xmm1") = "ymm1"
      BY SetsAre
    <2>4. /\ Typed' /\ state' = state /\ hstack' = hstack /\ Step
          /\ \A x \in Regs \ {"rax", "xmm1", "ymm1"} : cpu'[x] = cpu[x]
          /\ cpu'["xmm1"] = want["xmm1"]
          /\ Mode = "avx2" => cpu'["ymm1"] = want["ymm1"]
      BY <2>2, <2>3, <1>0, <1>10, <1>11, VLoaded, Named DEF LowRegs
    <2>5. BackRegs'
      BY <1>2, <2>4, <1>0, <1>9, <1>12, Named DEF Restoring, BackRegs, Own, Step
    <2>6. BackStack'
      BY <1>2, <2>4, <1>0, <1>9, Named DEF Restoring, BackStack, Step
    <2> QED BY <1>2, <2>4, <2>5, <2>6, <1>9, RestoreGoesOn
  <1>3. CASE ip = 3
    <2>1. Code[ip] = I("vload", "xmm15")
      BY <1>3, <1>0, RestoreAt DEF Code
    <2>2. VLoad /\ R = "xmm15"
      BY <2>1, <1>0, Executes DEF R, I
    <2>3. HighOf("xmm15") = "ymm15"
      BY SetsAre
    <2>4. /\ Typed' /\ state' = state /\ hstack' = hstack /\ Step
          /\ \A x \in Regs \ {"rax", "xmm15", "ymm15"} : cpu'[x] = cpu[x]
          /\ cpu'["xmm15"] = want["xmm15"]
          /\ Mode = "avx2" => cpu'["ymm15"] = want["ymm15"]
      BY <2>2, <2>3, <1>0, <1>10, <1>11, VLoaded, Named DEF LowRegs
    <2>5. BackRegs'
      BY <1>3, <2>4, <1>0, <1>9, <1>12, Named DEF Restoring, BackRegs, Own, Step
    <2>6. BackStack'
      BY <1>3, <2>4, <1>0, <1>9, Named DEF Restoring, BackStack, Step
    <2> QED BY <1>3, <2>4, <2>5, <2>6, <1>9, RestoreGoesOn
  <1>4. CASE ip = 4
    <2>0. Mode = "avx2" /\ LoadAt = 4
      BY <1>4, <1>9
    <2>1. Code[ip] = I("restore_mxcsr", "mxcsr")
      BY <1>4, <2>0, <1>0, RestoreAt DEF Code
    <2>2. RestoreMxcsr
      BY <2>1, <1>0, Executes DEF I
    <2>3. OnHost
      BY <1>4, <1>0, <1>9, ValuesAre, ContextAssumption DEF OnHost, Restoring, BackStack
    <2>4. /\ cpu' = [cpu EXCEPT !["mxcsr"] = state["mxcsr"], !["rax"] = Junk]
          /\ state' = state /\ hstack' = hstack /\ spilled' = FALSE /\ Step
      BY <2>2, <2>3, <1>0 DEF RestoreMxcsr, Typed
    <2>5. /\ cpu' \in [Regs -> Values] /\ cpu'["mxcsr"] = want["mxcsr"]
          /\ \A x \in Regs \ {"rax", "mxcsr"} : cpu'[x] = cpu[x]
      BY <2>4, <2>0, <1>0, <1>11, Named, ValuesAre DEF Typed
    <2>6. Typed'
      BY <2>4, <2>5, <1>0, SameMode, Named DEF Typed, Step, Own
    <2>7. BackRegs'
      BY <1>4, <2>0, <2>4, <2>5, <1>0, <1>9, <1>12, Named DEF Restoring, BackRegs, Own, Step
    <2>8. BackStack'
      BY <1>4, <2>4, <2>5, <1>0, <1>9, Named DEF Restoring, BackStack, Step
    <2> QED BY <1>4, <2>4, <2>6, <2>7, <2>8, <1>9, RestoreGoesOn
  <1>5. ip \in {1, 2, 3, 4}
    BY <1>0, <1>9 DEF Restoring
  <1> QED BY <1>1, <1>2, <1>3, <1>4, <1>5

LEMMA RestoreLoads ==
    ASSUME IInv, phase = "restore", Next, ip > LoadAt, ip <= LoadAt + 34
    PROVE  IInv'
  <1>0. Typed /\ Restoring /\ phase = "restore" /\ Mode \in {"sse", "avx2"} /\ ip \in Nat
    BY DEF IInv, Typed, Restoring, LoadAt
  <1>9. /\ LoadAt \in {3, 4} /\ (LoadAt = 4 <=> Mode = "avx2")
        /\ (Step => LoadAt' = LoadAt /\ Mode' = Mode)
    BY SameMode DEF LoadAt, Step
  <1>10. \A r \in Regs \ {"mxcsr", "ymm0", "ymm1", "ymm15"} : state[r] = want[r]
    BY <1>0, SetsAre DEF Restoring, Covered, Kept, Uncovered, HighRegs
  <1>11. Mode = "avx2" => \A r \in Regs : state[r] = want[r]
    BY <1>0 DEF Restoring, Covered, Kept, Uncovered
  <1>1. \E k \in 1 .. 17 : ip = LoadAt + 2 * k - 1 \/ ip = LoadAt + 2 * k
    <2>1. CASE (ip - LoadAt) % 2 = 1
      <3>1. (ip - LoadAt + 1) \div 2 \in 1 .. 17 /\ ip = LoadAt + 2 * ((ip - LoadAt + 1) \div 2) - 1
        BY <2>1, <1>0, <1>9
      <3> QED BY <3>1
    <2>2. CASE (ip - LoadAt) % 2 # 1
      <3>1. (ip - LoadAt) \div 2 \in 1 .. 17 /\ ip = LoadAt + 2 * ((ip - LoadAt) \div 2)
        BY <2>2, <1>0, <1>9
      <3> QED BY <3>1
    <2> QED BY <2>1, <2>2
  <1>2. PICK k \in 1 .. 17 : ip = LoadAt + 2 * k - 1 \/ ip = LoadAt + 2 * k
    BY <1>1
  <1>3. /\ Loaded[k] \in SavedRegs
        /\ Loaded[k] \in Regs \ {"rax", "rsp", "rip", "rflags", "mxcsr", "xmm0", "xmm1", "xmm15",
                                 "ymm0", "ymm1", "ymm15"}
        /\ Loaded[k] \notin Fixed
    BY LoadedAre, Named DEF LowRegs, HighRegs, LoadedRegs, Fixed
  <1>4. CASE ip = LoadAt + 2 * k - 1
    <2>1. Code[ip] = Load(Loaded[k])
      BY <1>4, <1>0, RestoreAt DEF Code
    <2>2. LoadRax /\ R = Loaded[k]
      BY <2>1, <1>0, Executes DEF R, Load, I
    <2>3. /\ cpu' = [cpu EXCEPT !["rax"] = state[Loaded[k]]] /\ state' = state
          /\ hstack' = hstack /\ spilled' = spilled /\ Step
      BY <2>2 DEF LoadRax, Set
    <2>4. state[Loaded[k]] = want[Loaded[k]] /\ state[Loaded[k]] \in Values
      BY <1>0, <1>3, <1>10 DEF Typed
    <2>5. Typed'
      BY <2>3, <2>4, <1>0, TypedSet, Named DEF Fixed
    <2>6. /\ cpu'["rax"] = want[Loaded[k]]
          /\ \A x \in Regs \ {"rax"} : cpu'[x] = cpu[x]
      BY <2>3, <2>4, <1>0, Named DEF Typed
    <2>7. \A j \in 1 .. 17 : /\ ip + 1 = LoadAt + 2 * j => j = k
                             /\ ip + 1 > LoadAt + 2 * j => ip > LoadAt + 2 * j
                             /\ Loaded[j] \in Regs \ {"rax"}
      BY <1>4, <1>9, LoadedAre, Named
    <2>8. BackRegs'
      BY <1>4, <2>3, <2>6, <2>7, <1>0, <1>9, Named DEF Restoring, BackRegs, Own, Step
    <2>9. BackStack'
      BY <1>4, <2>3, <2>6, <1>0, <1>9, Named DEF Restoring, BackStack, Step
    <2> QED BY <1>4, <2>3, <2>5, <2>8, <2>9, <1>9, RestoreGoesOn
  <1>5. CASE ip = LoadAt + 2 * k
    <2>1. Code[ip] = FromRax(Loaded[k])
      BY <1>5, <1>0, RestoreAt DEF Code
    <2>2. MovFromRax /\ R = Loaded[k]
      BY <2>1, <1>0, Executes DEF R, FromRax, I
    <2>3. /\ cpu' = [cpu EXCEPT ![Loaded[k]] = cpu["rax"]] /\ state' = state
          /\ hstack' = hstack /\ spilled' = spilled /\ Step
      BY <2>2 DEF MovFromRax, Set
    <2>4. cpu["rax"] = want[Loaded[k]] /\ cpu["rax"] \in Values
      BY <1>0, <1>5, Named DEF Restoring, BackRegs, Typed
    <2>5. Typed'
      BY <2>3, <2>4, <1>0, <1>3, TypedSet
    <2>6. /\ cpu'[Loaded[k]] = want[Loaded[k]]
          /\ \A x \in Regs \ {Loaded[k]} : cpu'[x] = cpu[x]
      BY <2>3, <2>4, <1>0, <1>3 DEF Typed
    <2>7. \A j \in 1 .. 17 : /\ ip + 1 # LoadAt + 2 * j
                             /\ ip + 1 > LoadAt + 2 * j => ip > LoadAt + 2 * j \/ j = k
                             /\ Loaded[j] \in Regs
      BY <1>5, <1>9, LoadedAre, Named
    <2>8. \A j \in 1 .. 17 : ip + 1 > LoadAt + 2 * j => cpu'[Loaded[j]] = want[Loaded[j]]
      BY <2>6, <2>7, <1>0 DEF Restoring, BackRegs, Own
    <2>9. BackRegs'
      BY <1>5, <2>3, <2>6, <2>7, <2>8, <1>0, <1>3, <1>9, Named DEF Restoring, BackRegs, Own, Step
    <2>10. BackStack'
      BY <1>5, <2>3, <2>6, <1>0, <1>3, <1>9, Named DEF Restoring, BackStack, Step
    <2> QED BY <1>5, <2>3, <2>5, <2>9, <2>10, <1>9, RestoreGoesOn
  <1> QED BY <1>2, <1>4, <1>5

LEMMA RestoreEnds ==
    ASSUME IInv, phase = "restore", Next, ip > LoadAt + 34
    PROVE  IInv'
  <1>0. Typed /\ Restoring /\ phase = "restore" /\ Mode \in {"sse", "avx2"} /\ ip \in Nat
    BY DEF IInv, Typed, Restoring, LoadAt
  <1>9. /\ LoadAt \in {3, 4} /\ (LoadAt = 4 <=> Mode = "avx2")
        /\ (Step => LoadAt' = LoadAt /\ Mode' = Mode)
    BY SameMode DEF LoadAt, Step
  <1>10. \A r \in Regs \ {"mxcsr", "ymm0", "ymm1", "ymm15"} : state[r] = want[r]
    BY <1>0, SetsAre DEF Restoring, Covered, Kept, Uncovered, HighRegs
  <1>11. Mode = "avx2" => \A r \in Regs : state[r] = want[r]
    BY <1>0 DEF Restoring, Covered, Kept, Uncovered
  <1>12. \A k \in 1 .. 17 : /\ ip # LoadAt + 2 * k /\ ip + 1 # LoadAt + 2 * k
                            /\ ip > LoadAt + 2 * k /\ ip + 1 > LoadAt + 2 * k
                            /\ Loaded[k] \in Regs \ {"rax", "rsp", "rip", "rflags"}
    BY <1>0, <1>9, LoadedAre, Named
  <1>13. ASSUME NEW k \in 1 .. 6, ip = LoadAt + 34 + k PROVE Code[ip] = LoadStack[k]
    BY <1>13, <1>0, RestoreAt DEF Code
  <1>14. ASSUME NEW k \in 1 .. 4, ip = LoadAt + 40 + k PROVE Code[ip] = RestoreHook[k]
    BY <1>14, <1>0, RestoreAt DEF Code
  <1>1. CASE ip = LoadAt + 35
    <2>1. Code[ip] = Load("rsp")
      <3>1. ip = LoadAt + 34 + 1
        BY <1>1, <1>9
      <3>2. Code[ip] = LoadStack[1]
        BY <3>1, <1>13
      <3> QED BY <3>2 DEF LoadStack
    <2>2. LoadRax /\ R = "rsp"
      BY <2>1, <1>0, Executes DEF R, Load, I
    <2>3. /\ cpu' = [cpu EXCEPT !["rax"] = state["rsp"]] /\ state' = state
          /\ hstack' = hstack /\ spilled' = spilled /\ Step
      BY <2>2 DEF LoadRax, Set
    <2>4. state["rsp"] = want["rsp"] /\ state["rsp"] \in Values
      BY <1>1, <1>0, <1>9, <1>10, Named DEF Typed, Restoring, BackRegs
    <2>5. Typed'
      BY <2>3, <2>4, <1>0, TypedSet, Named DEF Fixed
    <2>6. /\ cpu'["rax"] = want["rsp"] /\ state' = state /\ hstack' = hstack /\ Step
          /\ \A x \in Regs \ {"rax"} : cpu'[x] = cpu[x]
      BY <2>3, <2>4, <1>0, Named DEF Typed
    <2>7. BackRegs'
      BY <1>1, <2>6, <1>0, <1>9, <1>12, Named DEF Restoring, BackRegs, Own, Step
    <2>8. BackStack'
      BY <1>1, <2>6, <1>0, <1>9, Named DEF Restoring, BackStack, Step
    <2> QED BY <1>1, <2>5, <2>6, <2>7, <2>8, <1>9, RestoreGoesOn
  <1>2. CASE ip = LoadAt + 36
    <2>1. Code[ip] = I("push", "rax")
      <3>1. ip = LoadAt + 34 + 2
        BY <1>2, <1>9
      <3>2. Code[ip] = LoadStack[2]
        BY <3>1, <1>13
      <3> QED BY <3>2 DEF LoadStack
    <2>2. Push /\ R = "rax"
      BY <2>1, <1>0, Executes DEF R, Load, I
    <2>3. PICK n \in 2 .. Slots : cpu["rsp"] = Host(n)
      BY <1>2, <1>0, <1>9 DEF Restoring, BackStack
    <2>4. OnHost /\ cpu["rsp"][2] = n /\ n \in 0 .. Slots /\ n - 1 \in 0 .. Slots
      BY <2>3, ValuesAre, ContextAssumption DEF OnHost
    <2>5. /\ cpu' = [cpu EXCEPT !["rsp"] = Host(n - 1)] /\ state' = state
          /\ hstack' = [hstack EXCEPT ![n - 1] = cpu["rax"]] /\ spilled' = spilled /\ Step
      BY <2>2, <2>4, <1>0 DEF Push, Typed
    <2>6. cpu["rax"] = want["rsp"] /\ cpu["rax"] \in Values
      BY <1>2, <1>0, <1>9, Named DEF Typed, Restoring, BackRegs
    <2>7. Typed'
      BY <2>4, <2>5, <2>6, <1>0, TypedPush
    <2>8. /\ cpu'["rsp"] = Host(n - 1) /\ state' = state /\ Step
          /\ hstack'[n - 1] = want["rsp"] /\ hstack'[n] = hstack[n]
          /\ \A x \in Regs \ {"rsp"} : cpu'[x] = cpu[x]
      BY <2>4, <2>5, <2>6, <1>0, Named, ContextAssumption DEF Typed
    <2>9. BackRegs'
      BY <1>2, <2>8, <1>0, <1>9, <1>12, Named DEF Restoring, BackRegs, Own, Step
    <2>10. BackStack'
      <3>1. n - 1 \in 1 .. Slots /\ (n - 1) + 1 = n
        BY <2>3, ContextAssumption
      <3>2. ip' = LoadAt' + 37 /\ LoadAt' = LoadAt /\ want' = want
        BY <1>2, <2>8, <1>9 DEF Step
      <3> QED BY <2>3, <2>8, <3>1, <3>2, <1>9 DEF BackStack
    <2> QED BY <1>2, <2>7, <2>8, <2>9, <2>10, <1>9, RestoreGoesOn
  <1>3. CASE ip = LoadAt + 37
    <2>1. Code[ip] = Load("rflags")
      <3>1. ip = LoadAt + 34 + 3
        BY <1>3, <1>9
      <3>2. Code[ip] = LoadStack[3]
        BY <3>1, <1>13
      <3> QED BY <3>2 DEF LoadStack
    <2>2. LoadRax /\ R = "rflags"
      BY <2>1, <1>0, Executes DEF R, Load, I
    <2>3. /\ cpu' = [cpu EXCEPT !["rax"] = state["rflags"]] /\ state' = state
          /\ hstack' = hstack /\ spilled' = spilled /\ Step
      BY <2>2 DEF LoadRax, Set
    <2>4. state["rflags"] = want["rflags"] /\ state["rflags"] \in Values
      BY <1>3, <1>0, <1>9, <1>10, Named DEF Typed, Restoring, BackRegs
    <2>5. Typed'
      BY <2>3, <2>4, <1>0, TypedSet, Named DEF Fixed
    <2>6. /\ cpu'["rax"] = want["rflags"] /\ state' = state /\ hstack' = hstack /\ Step
          /\ \A x \in Regs \ {"rax"} : cpu'[x] = cpu[x]
      BY <2>3, <2>4, <1>0, Named DEF Typed
    <2>7. BackRegs'
      BY <1>3, <2>6, <1>0, <1>9, <1>12, Named DEF Restoring, BackRegs, Own, Step
    <2>8. BackStack'
      BY <1>3, <2>6, <1>0, <1>9, Named DEF Restoring, BackStack, Step
    <2> QED BY <1>3, <2>5, <2>6, <2>7, <2>8, <1>9, RestoreGoesOn
  <1>4. CASE ip = LoadAt + 38
    <2>1. Code[ip] = I("push", "rax")
      <3>1. ip = LoadAt + 34 + 4
        BY <1>4, <1>9
      <3>2. Code[ip] = LoadStack[4]
        BY <3>1, <1>13
      <3> QED BY <3>2 DEF LoadStack
    <2>2. Push /\ R = "rax"
      BY <2>1, <1>0, Executes DEF R, Load, I
    <2>3. PICK n \in 1 .. Slots : cpu["rsp"] = Host(n) /\ hstack[n] = want["rsp"]
      BY <1>4, <1>0, <1>9 DEF Restoring, BackStack
    <2>4. OnHost /\ cpu["rsp"][2] = n /\ n \in 0 .. Slots /\ n - 1 \in 0 .. Slots
      BY <2>3, ValuesAre, ContextAssumption DEF OnHost
    <2>5. /\ cpu' = [cpu EXCEPT !["rsp"] = Host(n - 1)] /\ state' = state
          /\ hstack' = [hstack EXCEPT ![n - 1] = cpu["rax"]] /\ spilled' = spilled /\ Step
      BY <2>2, <2>4, <1>0 DEF Push, Typed
    <2>6. cpu["rax"] = want["rflags"] /\ cpu["rax"] \in Values
      BY <1>4, <1>0, <1>9, Named DEF Typed, Restoring, BackRegs
    <2>7. Typed'
      BY <2>4, <2>5, <2>6, <1>0, TypedPush
    <2>8. /\ cpu'["rsp"] = Host(n - 1) /\ state' = state /\ Step
          /\ hstack'[n - 1] = want["rflags"] /\ hstack'[n] = hstack[n]
          /\ \A x \in Regs \ {"rsp"} : cpu'[x] = cpu[x]
      BY <2>4, <2>5, <2>6, <1>0, Named, ContextAssumption DEF Typed
    <2>9. BackRegs'
      BY <1>4, <2>8, <1>0, <1>9, <1>12, Named DEF Restoring, BackRegs, Own, Step
    <2>10. BackStack'
      <3>1. n - 1 \in 0 .. (Slots - 1) /\ (n - 1) + 1 = n
        BY <2>3, ContextAssumption
      <3>2. ip' = LoadAt' + 39 /\ LoadAt' = LoadAt /\ want' = want
        BY <1>4, <2>8, <1>9 DEF Step
      <3> QED BY <2>3, <2>8, <3>1, <3>2, <1>9 DEF BackStack
    <2> QED BY <1>4, <2>7, <2>8, <2>9, <2>10, <1>9, RestoreGoesOn
  <1>5. CASE ip = LoadAt + 39
    <2>1. Code[ip] = I("pop", "rflags")
      <3>1. ip = LoadAt + 34 + 5
        BY <1>5, <1>9
      <3>2. Code[ip] = LoadStack[5]
        BY <3>1, <1>13
      <3> QED BY <3>2 DEF LoadStack
    <2>2. Pop /\ R = "rflags"
      BY <2>1, <1>0, Executes DEF R, Load, I
    <2>3. PICK n \in 0 .. (Slots - 1) :
              /\ cpu["rsp"] = Host(n) /\ hstack[n] = want["rflags"]
              /\ hstack[n + 1] = want["rsp"]
      BY <1>5, <1>0, <1>9 DEF Restoring, BackStack
    <2>4. OnHost /\ cpu["rsp"][2] = n /\ n \in 0 .. Slots /\ n + 1 \in 0 .. Slots
      BY <2>3, ValuesAre, ContextAssumption DEF OnHost
    <2>5. /\ cpu' = [[cpu EXCEPT !["rsp"] = Host(n + 1)] EXCEPT !["rflags"] = want["rflags"]]
          /\ state' = state /\ hstack' = hstack /\ spilled' = spilled /\ Step
      BY <2>2, <2>3, <2>4, <1>0, Named DEF Pop, Typed
    <2>6. want["rflags"] \in Values /\ "rflags" \in Regs \ Fixed
      BY <1>0, Named DEF Typed, Fixed
    <2>7. /\ cpu'["rsp"] = Host(n + 1) /\ cpu'["rflags"] = want["rflags"]
          /\ state' = state /\ hstack' = hstack /\ Step
          /\ \A x \in Regs \ {"rsp", "rflags"} : cpu'[x] = cpu[x]
      BY <2>5, <1>0, Named DEF Typed
    <2>8. Typed'
      BY <2>4, <2>5, <2>6, <1>0, TypedPop
    <2>9. BackRegs'
      BY <1>5, <2>7, <1>0, <1>9, <1>12, Named DEF Restoring, BackRegs, Own, Step
    <2>10. BackStack'
      <3>1. ip' = LoadAt' + 40 /\ LoadAt' = LoadAt /\ want' = want
        BY <1>5, <2>7, <1>9 DEF Step
      <3> QED BY <2>3, <2>4, <2>7, <3>1, <1>9 DEF BackStack
    <2> QED BY <1>5, <2>7, <2>8, <2>9, <2>10, <1>9, RestoreGoesOn
  <1>6. CASE ip = LoadAt + 40
    <2>1. Code[ip] = I("pop", "rsp")
      <3>1. ip = LoadAt + 34 + 6
        BY <1>6, <1>9
      <3>2. Code[ip] = LoadStack[6]
        BY <3>1, <1>13
      <3> QED BY <3>2 DEF LoadStack
    <2>2. Pop /\ R = "rsp"
      BY <2>1, <1>0, Executes DEF R, Load, I
    <2>3. PICK n \in 0 .. Slots : cpu["rsp"] = Host(n) /\ hstack[n] = want["rsp"]
      BY <1>6, <1>0, <1>9 DEF Restoring, BackStack
    <2>4. OnHost /\ cpu["rsp"][2] = n /\ n \in 0 .. Slots /\ n + 1 \in Nat
      BY <2>3, ValuesAre, ContextAssumption DEF OnHost
    <2>5. /\ cpu' = [cpu EXCEPT !["rsp"] = want["rsp"]]
          /\ state' = state /\ hstack' = hstack /\ spilled' = spilled /\ Step
      BY <2>2, <2>3, <2>4, <1>0, Named DEF Pop, Typed
    <2>6. want["rsp"] \in Values /\ "rsp" \in Regs \ Fixed
      BY <1>0, Named DEF Typed, Fixed
    <2>7. /\ cpu'["rsp"] = want["rsp"] /\ state' = state /\ hstack' = hstack /\ Step
          /\ \A x \in Regs \ {"rsp"} : cpu'[x] = cpu[x]
      BY <2>5, <1>0, Named DEF Typed
    <2>8. Typed'
      BY <2>5, <2>6, <1>0, TypedSet
    <2>9. BackRegs'
      BY <1>6, <2>7, <1>0, <1>9, <1>12, Named DEF Restoring, BackRegs, Own, Step
    <2>10. BackStack'
      <3>1. ip' = LoadAt' + 41 /\ LoadAt' = LoadAt /\ want' = want
        BY <1>6, <2>7, <1>9 DEF Step
      <3> QED BY <2>3, <2>4, <2>7, <3>1, <1>9 DEF BackStack
    <2> QED BY <1>6, <2>7, <2>8, <2>9, <2>10, <1>9, RestoreGoesOn
  <1>7. CASE ip = LoadAt + 41
    <2>1. Code[ip] = Load("rip")
      <3>1. ip = LoadAt + 40 + 1
        BY <1>7, <1>9
      <3>2. Code[ip] = RestoreHook[1]
        BY <3>1, <1>14
      <3> QED BY <3>2 DEF RestoreHook
    <2>2. LoadRax /\ R = "rip"
      BY <2>1, <1>0, Executes DEF R, Load, I
    <2>3. /\ cpu' = [cpu EXCEPT !["rax"] = state["rip"]] /\ state' = state
          /\ hstack' = hstack /\ spilled' = spilled /\ Step
      BY <2>2 DEF LoadRax, Set
    <2>4. state["rip"] = want["rip"] /\ state["rip"] \in Values
      BY <1>7, <1>0, <1>9, <1>10, Named DEF Typed, Restoring, BackRegs
    <2>5. Typed'
      BY <2>3, <2>4, <1>0, TypedSet, Named DEF Fixed
    <2>6. /\ cpu'["rax"] = want["rip"] /\ state' = state /\ hstack' = hstack /\ Step
          /\ \A x \in Regs \ {"rax"} : cpu'[x] = cpu[x]
      BY <2>3, <2>4, <1>0, Named DEF Typed
    <2>7. BackRegs'
      BY <1>7, <2>6, <1>0, <1>9, <1>12, Named DEF Restoring, BackRegs, Own, Step
    <2>8. BackStack'
      BY <1>7, <2>6, <1>0, <1>9, Named DEF Restoring, BackStack, Step
    <2> QED BY <1>7, <2>5, <2>6, <2>7, <2>8, <1>9, RestoreGoesOn
  <1>8. CASE ip = LoadAt + 42
    <2>1. Code[ip] = I("jmp", "rax")
      <3>1. ip = LoadAt + 40 + 2
        BY <1>8, <1>9
      <3>2. Code[ip] = RestoreHook[2]
        BY <3>1, <1>14
      <3> QED BY <3>2 DEF RestoreHook
    <2>2. Jmp /\ R = "rax"
      BY <2>1, <1>0, Executes DEF R, Load, I
    <2>3. /\ cpu' = [cpu EXCEPT !["rip"] = cpu["rax"]] /\ state' = state
          /\ hstack' = hstack /\ spilled' = spilled /\ Step
      BY <2>2 DEF Jmp, Set
    <2>4. cpu["rax"] = want["rip"] /\ cpu["rax"] \in Values
      BY <1>8, <1>0, <1>9, <1>10, Named DEF Typed, Restoring, BackRegs
    <2>5. Typed'
      BY <2>3, <2>4, <1>0, TypedSet, Named DEF Fixed
    <2>6. /\ cpu'["rip"] = want["rip"] /\ state' = state /\ hstack' = hstack /\ Step
          /\ \A x \in Regs \ {"rip"} : cpu'[x] = cpu[x]
      BY <2>3, <2>4, <1>0, Named DEF Typed
    <2>7. BackRegs'
      BY <1>8, <2>6, <1>0, <1>9, <1>12, Named DEF Restoring, BackRegs, Own, Step
    <2>8. BackStack'
      BY <1>8, <2>6, <1>0, <1>9, Named DEF Restoring, BackStack, Step
    <2> QED BY <1>8, <2>5, <2>6, <2>7, <2>8, <1>9, RestoreGoesOn
  <1>15. CASE ip = LoadAt + 43
    <2>1. Code[ip] = Load("rax")
      <3>1. ip = LoadAt + 40 + 3
        BY <1>15, <1>9
      <3>2. Code[ip] = RestoreHook[3]
        BY <3>1, <1>14
      <3> QED BY <3>2 DEF RestoreHook
    <2>2. LoadRax /\ R = "rax"
      BY <2>1, <1>0, Executes DEF R, Load, I
    <2>3. /\ cpu' = [cpu EXCEPT !["rax"] = state["rax"]] /\ state' = state
          /\ hstack' = hstack /\ spilled' = spilled /\ Step
      BY <2>2 DEF LoadRax, Set
    <2>4. state["rax"] = want["rax"] /\ state["rax"] \in Values
      BY <1>15, <1>0, <1>9, <1>10, Named DEF Typed, Restoring, BackRegs
    <2>5. Typed'
      BY <2>3, <2>4, <1>0, TypedSet, Named DEF Fixed
    <2>6. /\ cpu'["rax"] = want["rax"] /\ state' = state /\ hstack' = hstack /\ Step
          /\ \A x \in Regs \ {"rax"} : cpu'[x] = cpu[x]
      BY <2>3, <2>4, <1>0, Named DEF Typed
    <2>7. BackRegs'
      BY <1>15, <2>6, <1>0, <1>9, <1>12, Named DEF Restoring, BackRegs, Own, Step
    <2>8. BackStack'
      BY <1>15, <2>6, <1>0, <1>9, Named DEF Restoring, BackStack, Step
    <2> QED BY <1>15, <2>5, <2>6, <2>7, <2>8, <1>9, RestoreGoesOn
  <1>16. CASE ip = LoadAt + 44
    <2>1. Code[ip] = I("resume", "rip")
      <3>1. ip = LoadAt + 40 + 4
        BY <1>16, <1>9
      <3>2. Code[ip] = RestoreHook[4]
        BY <3>1, <1>14
      <3> QED BY <3>2 DEF RestoreHook
    <2>2. Resume
      BY <2>1, <1>0, Executes DEF I
    <2>3. /\ phase' = "guest" /\ ip' = 1 /\ feature' = feature /\ cpu' = cpu /\ state' = state
          /\ want' = want /\ hstack' = hstack /\ spilled' = spilled /\ gen' = gen
      BY <2>2 DEF Resume
    <2>4. Typed'
      BY <2>3, <1>0, SameMode DEF Typed, Own
    <2>5. \A r \in Regs \ Uncovered : cpu[r] = want[r]
      <3>1. \A r \in LoadedRegs : cpu[r] = want[r]
        BY <1>0, <1>12, LoadedAre DEF Restoring, BackRegs, Own
      <3>2. \A r \in SavedRegs : cpu[r] = want[r]
        BY <3>1, <1>0 DEF LoadedRegs, Fixed, Typed, Own
      <3>3. /\ cpu["rax"] = want["rax"] /\ cpu["rsp"] = want["rsp"]
            /\ cpu["rip"] = want["rip"] /\ cpu["rflags"] = want["rflags"]
            /\ cpu["xmm0"] = want["xmm0"] /\ cpu["xmm1"] = want["xmm1"]
            /\ cpu["xmm15"] = want["xmm15"]
        BY <1>16, <1>0, <1>9 DEF Restoring, BackRegs, Own
      <3>4. CASE Mode = "sse"
        <4>1. Uncovered = HighRegs \cup {"mxcsr"}
          BY <3>4, SetsAre DEF Uncovered
        <4> QED BY <3>2, <3>3, <4>1, RegsAre DEF LowRegs, OtherRegs
      <3>5. CASE Mode = "avx2"
        <4>1. /\ cpu["ymm0"] = want["ymm0"] /\ cpu["ymm1"] = want["ymm1"]
              /\ cpu["ymm15"] = want["ymm15"] /\ cpu["mxcsr"] = want["mxcsr"]
          BY <3>5, <1>16, <1>0, <1>9 DEF Restoring, BackRegs, Own
        <4> QED BY <3>2, <3>3, <4>1, RegsAre DEF LowRegs, HighRegs, OtherRegs
      <3> QED BY <3>4, <3>5, <1>0
    <2> QED BY <2>3, <2>4, <2>5, SameMode DEF IInv, Own
  <1>17. ip \in 1 .. (LoadAt + 44)
    BY <1>0 DEF Restoring
  <1> QED BY <1>0, <1>9, <1>17, <1>1, <1>2, <1>3, <1>4, <1>5, <1>6, <1>7, <1>8, <1>15, <1>16

LEMMA RestoreSteps ==
    ASSUME IInv, phase = "restore", Next
    PROVE  IInv'
  <1>1. ip \in 1 .. (LoadAt + 44) /\ LoadAt \in {3, 4}
    BY DEF IInv, Restoring, LoadAt
  <1>2. CASE ip <= LoadAt
    BY <1>2, RestoreVectors
  <1>3. CASE ip > LoadAt /\ ip <= LoadAt + 34
    BY <1>3, RestoreLoads
  <1>4. CASE ip > LoadAt + 34
    BY <1>4, RestoreEnds
  <1> QED BY <1>1, <1>2, <1>3, <1>4

----------------------------------------------------------------------------
(* Guest and engine, and the theorems.                                     *)

LEMMA InitIInv == Init => IInv
  <1> SUFFICES ASSUME Init PROVE IInv
    OBVIOUS
  <1>1. cpu \in [Regs -> Values]
    BY ValuesAre DEF Init
  <1>2. state \in [Regs -> Values] /\ want \in [Regs -> Values] /\ hstack \in [0 .. Slots -> Values]
    BY <1>1, ValuesAre DEF Init
  <1> QED BY <1>1, <1>2, ContextAssumption DEF Init, IInv, Typed, Own

\* The dispatcher, with the registers it emulates.
LEMMA DispatcherIInv ==
    ASSUME IInv, NEW d \in 0 .. Slots, NEW m \in {cpu.mxcsr, Junk}, Dispatcher(d, m)
    PROVE  IInv'
  <1>0. /\ Typed /\ phase = "host" /\ Covered /\ cpu["rsp"] = Host(Slots - 1)
        /\ cpu["rsp"][2] = Slots - 1 /\ Mode \in {"sse", "avx2"} /\ ip = 1
    BY ValuesAre, ContextAssumption DEF IInv, Dispatcher, Typed
  <1>1. /\ feature' = feature /\ spilled' = spilled /\ gen' = gen /\ ip' = ip
        /\ phase' \in {"restore", "sigill"} /\ hstack' = [n \in 0 .. Slots |-> Junk]
    BY DEF Dispatcher
  <1>2. PICK emulated \in SUBSET {"rax", "rsp"} :
           /\ state' = [r \in Regs |-> IF r \in emulated \cup {"rip"}
                                       THEN <<"emulated", Number[r]>> ELSE state[r]]
           /\ want'  = [r \in Regs |-> IF r \in emulated \cup {"rip"}
                                       THEN <<"emulated", Number[r]>> ELSE want[r]]
    BY DEF Dispatcher
  <1>3. /\ state' \in [Regs -> Values] /\ want' \in [Regs -> Values]
        /\ hstack' \in [0 .. Slots -> Values]
    BY <1>0, <1>1, <1>2, ValuesAre DEF Typed
  <1>4. Slots - 1 - d \in 2 .. Slots
    BY <1>0, ContextAssumption DEF Dispatcher
  <1>5. cpu' = [r \in Regs |->
                 CASE r \in Fixed \cup {"es", "ss", "ds"} -> cpu[r]
                   [] r \in Cleared -> Zero
                   [] r = "rsp"     -> Host(Slots - 1 - d)
                   [] r = "mxcsr"   -> m
                   [] OTHER         -> Junk]
    BY <1>0 DEF Dispatcher
  <1>6. m \in Values /\ Host(Slots - 1 - d) \in Values
    BY <1>0, <1>4, Named, ValuesAre DEF Typed
  <1>7. cpu' \in [Regs -> Values]
    BY <1>0, <1>5, <1>6, ValuesAre DEF Typed
  <1>8. "rsp" \notin Fixed \cup {"es", "ss", "ds"} /\ "rsp" \notin Cleared
    BY SetsAre DEF Fixed, Cleared, LowRegs, HighRegs
  <1>9. cpu'["rsp"] = Host(Slots - 1 - d)
    <2>1. \A r \in Regs : r = "rsp" /\ r \notin Fixed \cup {"es", "ss", "ds"} /\ r \notin Cleared
             => cpu'[r] = Host(Slots - 1 - d)
      BY <1>5
    <2> QED BY <2>1, <1>8, Named
  <1>10. \A r \in Fixed : cpu'[r] = cpu[r]
    <2>1. \A r \in Fixed : r \in Regs /\ r \notin Cleared /\ r \notin {"rsp", "mxcsr"}
      BY Named, SetsAre DEF Fixed, Cleared, LowRegs, HighRegs
    <2>2. \A r \in Regs : r \in Fixed /\ r \notin Cleared /\ r \notin {"rsp", "mxcsr"}
             => cpu'[r] = cpu[r]
      BY <1>5
    <2> QED BY <2>1, <2>2
  <1>11. \A r \in Fixed : want'[r] = want[r] /\ r \in Regs
    BY <1>2, Named DEF Fixed
  <1>12. Mode' = Mode /\ LoadAt' = LoadAt /\ LoadAt \in {3, 4} /\ Uncovered' = Uncovered
    BY <1>1, SameMode DEF LoadAt
  <1>13. Typed'
    BY <1>0, <1>1, <1>3, <1>7, <1>10, <1>11, <1>12 DEF Typed, Own
  <1>14. Covered'
    BY <1>0, <1>2, <1>12 DEF Covered, Kept
  <1>15. BackRegs'
    <2>1. ip' = 1
      BY <1>0, <1>1
    <2> QED BY <2>1, <1>12 DEF BackRegs
  <1>16. BackStack'
    <2>1. ip' = 1
      BY <1>0, <1>1
    <2> QED BY <2>1, <1>4, <1>9, <1>12 DEF BackStack
  <1>17. phase' = "restore" => Restoring'
    BY <1>0, <1>1, <1>12, <1>14, <1>15, <1>16 DEF Restoring
  <1> QED BY <1>1, <1>13, <1>17 DEF IInv

LEMMA NextIInv == IInv /\ [Next]_vars => IInv'
  <1> SUFFICES ASSUME IInv, [Next]_vars PROVE IInv'
    OBVIOUS
  <1>0. Typed
    BY DEF IInv
  <1>1. CASE UNCHANGED vars
    <2>1. /\ Mode' = Mode /\ CallAt' = CallAt /\ LoadAt' = LoadAt /\ Uncovered' = Uncovered
      BY <1>1, SameMode DEF vars
    <2> QED BY <1>1, <2>1 DEF vars, IInv, Typed, Dumping, DumpRegs, DumpStack, DumpState, Restoring,
                              Covered, BackRegs, BackStack, Own, Kept
  <1>2. CASE phase = "dump" /\ Next
    BY <1>2, DumpSteps
  <1>3. CASE phase = "restore" /\ Next
    BY <1>3, RestoreSteps
  <1>4. CASE Craft
    <2>1. /\ phase' = (IF Mode = "avx512" THEN "fatal" ELSE "launch") /\ phase = "craft"
          /\ feature' = feature /\ cpu' = cpu /\ state' = state /\ want' = want
          /\ hstack' = hstack /\ spilled' = spilled /\ gen' = gen /\ ip' = ip
      BY <1>4 DEF Craft
    <2>2. Mode \in {"sse", "avx2", "avx512"}
      BY <1>0 DEF Mode, Typed, Levels
    <2> QED BY <2>1, <2>2, <1>0, SameMode DEF IInv, Typed, Own
  <1>5. CASE Launch
    <2>1. /\ feature' = feature /\ state' = state /\ phase = "launch"
          /\ hstack' = hstack /\ spilled' = spilled /\ gen' = gen /\ ip' = ip
      BY <1>5 DEF Launch
    <2>2. CASE HasVzeroall
      <3>1. /\ cpu' = [r \in Regs |-> IF r \in Fixed \cup {"es", "ss", "ds", "mxcsr"}
                                      THEN cpu[r] ELSE Zero]
            /\ want' = cpu' /\ phase' = "guest"
        BY <1>5, <2>2 DEF Launch
      <3>2. cpu' \in [Regs -> Values]
        BY <3>1, <1>0, ValuesAre DEF Typed
      <3> QED BY <2>1, <3>1, <3>2, <1>0, SameMode DEF IInv, Typed, Own
    <2>3. CASE ~HasVzeroall
      <3>1. phase' = "sigill" /\ cpu' = cpu /\ want' = want
        BY <1>5, <2>3 DEF Launch
      <3> QED BY <2>1, <3>1, <1>0, SameMode DEF IInv, Typed, Own
    <2> QED BY <2>2, <2>3
  <1>6. CASE GuestBlock
    <2>1. /\ feature' = feature /\ state' = state /\ phase = "guest" /\ phase' = "dump"
          /\ hstack' = hstack /\ spilled' = spilled /\ gen' = 3 - gen /\ ip' = ip /\ ip = 1
          /\ cpu' = Of(Guest[gen]) /\ want' = cpu'
      BY <1>6, <1>0 DEF GuestBlock, Typed
    <2>2. Guest[gen] \in {"first", "second"} /\ 3 - gen \in {1, 2}
      BY <1>0 DEF Typed, Guest
    <2>3. cpu' \in [Regs -> Values]
      BY <2>1, <2>2, ValuesAre DEF Of
    <2>4. Typed'
      BY <2>1, <2>2, <2>3, <1>0, SameMode DEF Typed, Own
    <2>5. Dumping'
      <3>1. /\ ip' = 1 /\ CallAt' = CallAt /\ CallAt \in {52, 53}
            /\ \A r \in Regs : cpu'[r] = want'[r]
        BY <2>1, SameMode DEF CallAt
      <3>2. DumpRegs' /\ DumpStack' /\ DumpState'
        BY <3>1, Named DEF DumpRegs, DumpStack, DumpState, Own
      <3> QED BY <3>1, <3>2 DEF Dumping
    <2> QED BY <2>1, <2>4, <2>5 DEF IInv
  <1>7. CASE \E d \in 0 .. Slots, m \in {cpu.mxcsr, Junk} : Dispatcher(d, m)
    BY <1>7, DispatcherIInv
  <1>8. CASE Dead
    <2>1. UNCHANGED vars
      BY <1>8 DEF Dead
    <2> QED BY <1>1, <2>1
  <1>9. Next /\ phase \notin {"dump", "restore"} =>
            \/ Craft \/ Launch \/ GuestBlock \/ Dead
            \/ \E d \in 0 .. Slots, m \in {cpu.mxcsr, Junk} : Dispatcher(d, m)
    BY DEF Next, MovToRax, MovFromRax, MovImm, MovStack, LoadRax, LoadHook, StoreRax, Push, Pop,
           VMove, VStore, VLoad, SaveMxcsr, RestoreMxcsr, Jmp, EnterDispatcher, Resume, At
  <1> QED BY <1>1, <1>2, <1>3, <1>4, <1>5, <1>6, <1>7, <1>8, <1>9

LEMMA Invariance == Spec => []IInv
  BY InitIInv, NextIInv, PTL DEF Spec

\* Type correctness: every register holds a value of the model, and the code never
\* runs past its end.
THEOREM ContextTyped == Spec => []TypeOK
  <1>1. IInv => TypeOK
    <2> SUFFICES ASSUME IInv PROVE TypeOK
      OBVIOUS
    <2>1. Len(DumpCode) = CallAt + 7 /\ CallAt \in {52, 53}
      BY DumpAt DEF CallAt
    <2>2. Len(RestoreCode) = LoadAt + 44 /\ LoadAt \in {3, 4}
      BY RestoreAt DEF LoadAt
    <2>3. ip \in 1 .. (CallAt + 7) \/ ip \in 1 .. (LoadAt + 44)
      <3>1. CASE phase = "dump"
        BY <3>1 DEF IInv, Dumping
      <3>2. CASE phase = "restore"
        BY <3>2 DEF IInv, Restoring
      <3>3. CASE phase \notin {"dump", "restore"}
        BY <3>3, <2>1 DEF IInv, Typed
      <3> QED BY <3>1, <3>2, <3>3
    <2>4. ip \in 1 .. (Len(DumpCode) + Len(RestoreCode))
      BY <2>1, <2>2, <2>3
    <2> QED BY <2>4 DEF IInv, Typed, TypeOK
  <1> QED BY <1>1, Invariance, PTL

\* Whenever _dispatcher starts, the saved state has every register of the guest as
\* it was at the hook (craft_hook, dump_hook).
THEOREM DumpsAlwaysCovered == Spec => []DumpsCovered
  <1>1. IInv => DumpsCovered
    BY DEF IInv, Covered, Kept, DumpsCovered
  <1> QED BY <1>1, Invariance, PTL

\* Whenever the guest goes on, the processor has its registers and what emulation
\* made of them (craft_restore_stub, restore_hook).
THEOREM AlwaysResumed == Spec => []Resumed
  <1>1. IInv => Resumed
    BY DEF IInv, Own, Resumed
  <1> QED BY <1>1, Invariance, PTL

\* The stubs keep off the guest's stack, and every dispatch starts at the same
\* place of the engine's, however often it has been entered.
THEOREM AlwaysOwnStack == Spec => []OwnStack
  <1>1. IInv => OwnStack
    BY DEF IInv, Typed, OwnStack
  <1> QED BY <1>1, Invariance, PTL

=============================================================================
