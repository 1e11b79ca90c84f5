--------------------------- MODULE EmmallocProofs ---------------------------
(***************************************************************************)
(* Theorems about Emmalloc, for any threads, sizes, alignments and heap    *)
(* sizes, and with it the step simulation of HeapAllocator.                *)
(***************************************************************************)
EXTENDS EmmallocHeapProofs

-----------------------------------------------------------------------------
(***************************************************************************)
(* The blocks of the program                                               *)
(***************************************************************************)
\* The blocks that the program holds are the regions in use, as large and as
\* aligned as it asked for.
HeldOK(h, S, hd) ==
    /\ DOMAIN hd \subseteq Nat
    /\ \A p \in DOMAIN hd : /\ p - 1 \in UsedIn(h, S)
                            /\ hd[p].size \in Nat
                            /\ hd[p].size + Header <= SizeOf(h.words, p - 1)
                            /\ p % hd[p].align = 0
    /\ \A r \in UsedIn(h, S) : r + 1 \in DOMAIN hd

\* The blocks but p are the program's still, and none has less room.
Keeping(h, hd, c, hd2, p) ==
    \A q \in DOMAIN hd \ {p} : /\ q \in DOMAIN hd2 /\ hd2[q] = hd[q]
                               /\ SizeOf(c.words, q - 1) >= SizeOf(h.words, q - 1)

\* What a step may do to a heap and the blocks in it: nothing, or to one block.
StepOK(h, hd, c, hd2) ==
    /\ \E T : HeapOK(c, T) /\ HeldOK(c, T, hd2)
    /\ \/ /\ hd2 = hd
          /\ \A q \in DOMAIN hd : SizeOf(c.words, q - 1) = SizeOf(h.words, q - 1)
       \/ \E p \in DOMAIN hd2 \ DOMAIN hd :
             DOMAIN hd2 = DOMAIN hd \union {p} /\ Keeping(h, hd, c, hd2, p)
       \/ \E p \in DOMAIN hd : DOMAIN hd2 = DOMAIN hd \ {p} /\ Keeping(h, hd, c, hd2, p)
       \/ \E p \in DOMAIN hd : DOMAIN hd2 = DOMAIN hd /\ Keeping(h, hd, c, hd2, p)

\* A block in use is a region.
LEMMA UsedIs ==
  ASSUME NEW h, NEW S, HeapOK(h, S), NEW r \in UsedIn(h, S)
  PROVE  r \in S /\ r \in Nat /\ SizeOf(h.words, r) \in Nat /\ SizeOf(h.words, r) >= 4
<1>1. Tiles(h.words, S, Begins(h.roots), Ends(h.roots))
  BY HeapFacts
<1>2. r \in S
  BY DEF UsedIn, Used
<1> QED
  BY <1>1, <1>2, Neighbours

\* Steps that leave the blocks alone.
LEMMA SameBlocks ==
  ASSUME NEW h, NEW S, HeapOK(h, S), NEW hd, HeldOK(h, S, hd), NEW c, NEW T,
         KeepsBlocks(h, S, c, T)
  PROVE  StepOK(h, hd, c, hd)
<1>1. HeapOK(c, T) /\ UsedIn(c, T) = UsedIn(h, S)
  BY DEF KeepsBlocks
<1>2. \A q \in DOMAIN hd : SizeOf(c.words, q - 1) = SizeOf(h.words, q - 1)
  BY DEF KeepsBlocks, HeldOK
<1>3. HeldOK(c, T, hd)
  BY <1>1, <1>2 DEF HeldOK
<1> QED
  BY <1>1, <1>2, <1>3 DEF StepOK

\* A block more.
LEMMA HeldMore ==
  ASSUME NEW h, NEW S, HeapOK(h, S), NEW hd, HeldOK(h, S, hd), NEW r \in Nat,
         NEW align \in Nat \ {0}, NEW size \in Nat, NEW c,
         Carved(h, S, r, align, size, c)
  PROVE  StepOK(h, hd, c, With(hd, Payload(r, align), size, align))
<1> DEFINE p == Payload(r, align)
           v == [size |-> size, align |-> align]
           hd2 == With(hd, p, size, align)
<1>1. p \in Nat /\ p % align = 0
  <2>1. r + 1 \in Nat
    OBVIOUS
  <2> QED
    BY <2>1, Aligned DEF Payload
<1>2. DOMAIN hd2 = {p} \union DOMAIN hd /\ hd2[p] = v /\ \A q \in DOMAIN hd \ {p} : hd2[q] = hd[q]
  BY DEF With
<1>3. PICK T : /\ HeapOK(c, T) /\ p - 1 \notin UsedIn(h, S)
               /\ UsedIn(c, T) = UsedIn(h, S) \union {p - 1}
               /\ SizeOf(c.words, p - 1) >= size + Header
               /\ \A u \in UsedIn(h, S) : SizeOf(c.words, u) >= SizeOf(h.words, u)
  BY DEF Carved
<1> HIDE DEF p, hd2
<1>4. p \notin DOMAIN hd
  BY <1>3 DEF HeldOK
<1>5. Keeping(h, hd, c, hd2, p)
  BY <1>2, <1>3 DEF Keeping, HeldOK
<1>6. HeldOK(c, T, hd2)
  <2>1. DOMAIN hd2 \subseteq Nat
    BY <1>1, <1>2 DEF HeldOK
  <2>2. ASSUME NEW q \in DOMAIN hd2
        PROVE  /\ q - 1 \in UsedIn(c, T) /\ hd2[q].size \in Nat
               /\ hd2[q].size + Header <= SizeOf(c.words, q - 1)
               /\ q % hd2[q].align = 0
    <3>1. SizeOf(c.words, q - 1) \in Nat \/ q - 1 \notin UsedIn(c, T)
      BY <1>3, UsedIs
    <3>2. CASE q = p
      BY <1>1, <1>2, <1>3, <3>1, <3>2 DEF Header
    <3>3. CASE q # p
      <4>1. q \in DOMAIN hd /\ hd2[q] = hd[q] /\ q - 1 \in UsedIn(h, S)
        BY <1>2, <3>3 DEF HeldOK
      <4>2. /\ hd[q].size \in Nat /\ hd[q].size + Header <= SizeOf(h.words, q - 1)
            /\ q % hd[q].align = 0
        BY <4>1 DEF HeldOK
      <4>3. SizeOf(h.words, q - 1) \in Nat /\ SizeOf(c.words, q - 1) >= SizeOf(h.words, q - 1)
        BY <1>3, <4>1, UsedIs
      <4> QED
        BY <1>3, <3>1, <4>1, <4>2, <4>3 DEF Header
    <3> QED
      BY <3>2, <3>3
  <2>3. ASSUME NEW u \in UsedIn(c, T)
        PROVE  u + 1 \in DOMAIN hd2
    <3>1. u = p - 1 => u + 1 = p
      BY <1>1
    <3>2. u \in UsedIn(h, S) => u + 1 \in DOMAIN hd
      BY DEF HeldOK
    <3> QED
      BY <1>2, <1>3, <3>1, <3>2
  <2> QED
    BY <2>1, <2>2, <2>3 DEF HeldOK
<1>7. DOMAIN hd2 = DOMAIN hd \union {p} /\ p \in DOMAIN hd2 \ DOMAIN hd
  BY <1>2, <1>4
<1>8. StepOK(h, hd, c, hd2)
  BY <1>3, <1>5, <1>6, <1>7 DEF StepOK
<1> QED
  BY <1>8 DEF hd2, p

\* A block less.
LEMMA HeldLess ==
  ASSUME NEW h, NEW S, HeapOK(h, S), NEW hd, HeldOK(h, S, hd), NEW p \in DOMAIN hd
  PROVE  StepOK(h, hd, Release(h, p), [q \in DOMAIN hd \ {p} |-> hd[q]])
<1> DEFINE c == Release(h, p)
           hd2 == [q \in DOMAIN hd \ {p} |-> hd[q]]
<1>1. p \in Nat /\ p - 1 \in UsedIn(h, S)
  BY DEF HeldOK
<1>2. PICK T : /\ HeapOK(c, T) /\ UsedIn(c, T) = UsedIn(h, S) \ {p - 1}
               /\ \A u \in UsedIn(c, T) : SizeOf(c.words, u) = SizeOf(h.words, u)
  BY <1>1, ReleaseStep
<1>3. DOMAIN hd2 = DOMAIN hd \ {p} /\ \A q \in DOMAIN hd2 : hd2[q] = hd[q]
  OBVIOUS
<1> HIDE DEF c, hd2
<1>4. \A q \in DOMAIN hd2 : q \in Nat /\ q # p /\ q - 1 \in UsedIn(c, T)
  <2>1. \A q \in DOMAIN hd2 : q \in Nat /\ q # p /\ q - 1 \in UsedIn(h, S)
    BY <1>3 DEF HeldOK
  <2> QED
    BY <1>1, <1>2, <2>1
<1>5. HeldOK(c, T, hd2)
  <2>1. \A r \in UsedIn(c, T) : r + 1 \in DOMAIN hd2
    <3>1. \A r \in UsedIn(c, T) : r \in Nat /\ r + 1 \in DOMAIN hd /\ r # p - 1
      BY <1>2, UsedIs DEF HeldOK
    <3> QED
      BY <1>1, <1>3, <3>1
  <2> QED
    BY <1>2, <1>3, <1>4, <2>1 DEF HeldOK
<1>6. \A q \in DOMAIN hd2 : SizeOf(c.words, q - 1) >= SizeOf(h.words, q - 1)
  <2> TAKE q \in DOMAIN hd2
  <2>1. SizeOf(c.words, q - 1) = SizeOf(h.words, q - 1) /\ SizeOf(c.words, q - 1) \in Nat
    BY <1>2, <1>4, UsedIs
  <2> QED
    BY <2>1
<1>7. Keeping(h, hd, c, hd2, p)
  BY <1>3, <1>6 DEF Keeping
<1>8. StepOK(h, hd, c, hd2)
  BY <1>2, <1>3, <1>5, <1>7 DEF StepOK
<1> QED
  BY <1>8 DEF c, hd2

\* A block of another size.
LEMMA HeldResized ==
  ASSUME NEW h, NEW S, HeapOK(h, S), NEW hd, HeldOK(h, S, hd), NEW p \in DOMAIN hd,
         NEW align \in Nat \ {0}, p % align = 0, NEW size \in Nat, size >= Header,
         Resize(h, p - 1, size + Header).ok
  PROVE  StepOK(h, hd, Resize(h, p - 1, size + Header).heap,
                With(hd, p, size, align))
<1> DEFINE x == Resize(h, p - 1, size + Header)
           c == x.heap
           v == [size |-> size, align |-> align]
           hd2 == With(hd, p, size, align)
<1>1. p \in Nat /\ p - 1 \in UsedIn(h, S)
  BY DEF HeldOK
<1>2. Resized(h, S, p - 1, size + Header, x)
  <2>1. size + Header \in Nat /\ size + Header >= Region
    BY DEF Header, Region
  <2> QED
    BY <1>1, <2>1, ResizeStep
<1> HIDE DEF x
<1>3. PICK T : /\ Leaves(h, S, c, T, {p - 1}) /\ UsedIn(c, T) = UsedIn(h, S)
               /\ SizeOf(c.words, p - 1) >= size + Header
  <2>1. x.ok
    BY DEF x
  <2> QED
    BY <1>2, <2>1 DEF Resized
<1>4. /\ HeapOK(c, T)
      /\ \A u \in UsedIn(h, S) \ {p - 1} : SizeOf(c.words, u) = SizeOf(h.words, u)
  BY <1>3 DEF Leaves
<1>5. DOMAIN hd2 = {p} \union DOMAIN hd /\ hd2[p] = v /\ \A q \in DOMAIN hd \ {p} : hd2[q] = hd[q]
  BY DEF With
<1>6. DOMAIN hd2 = DOMAIN hd
  BY <1>5
<1> HIDE DEF c, hd2
<1>7. \A q \in DOMAIN hd \ {p} : /\ q - 1 \in UsedIn(h, S)
                                 /\ SizeOf(c.words, q - 1) = SizeOf(h.words, q - 1)
                                 /\ SizeOf(c.words, q - 1) >= SizeOf(h.words, q - 1)
  <2> TAKE q \in DOMAIN hd \ {p}
  <2>1. q \in Nat /\ q - 1 \in UsedIn(h, S) /\ q - 1 # p - 1
    BY <1>1 DEF HeldOK
  <2>2. SizeOf(c.words, q - 1) = SizeOf(h.words, q - 1) /\ SizeOf(h.words, q - 1) \in Nat
    BY <1>4, <2>1, UsedIs
  <2> QED
    BY <2>1, <2>2
<1>8. HeldOK(c, T, hd2)
  <2>1. SizeOf(c.words, p - 1) \in Nat
    BY <1>1, <1>3, <1>4, UsedIs
  <2>2. /\ hd2[p].size \in Nat /\ hd2[p].size + Header <= SizeOf(c.words, p - 1)
        /\ p % hd2[p].align = 0
    BY <1>3, <1>5, <2>1 DEF Header
  <2>3. \A q \in DOMAIN hd2 \ {p} :
           /\ hd2[q].size \in Nat /\ hd2[q].size + Header <= SizeOf(c.words, q - 1)
           /\ q % hd2[q].align = 0
    BY <1>5, <1>6, <1>7 DEF HeldOK
  <2> QED
    BY <1>1, <1>3, <1>6, <1>7, <2>2, <2>3 DEF HeldOK
<1>9. Keeping(h, hd, c, hd2, p)
  BY <1>5, <1>6, <1>7 DEF Keeping
<1>10. StepOK(h, hd, c, hd2)
  BY <1>4, <1>6, <1>8, <1>9 DEF StepOK
<1> QED
  BY <1>10 DEF c, hd2, x

-----------------------------------------------------------------------------
(***************************************************************************)
(* The calls                                                               *)
(***************************************************************************)
\* A call knows what it was asked for.
CallOK(c) ==
    \/ c = Idle
    \/ /\ c \in [at : {"search", "claim", "copied", "dropping"}, align : Nat, size : Nat,
                 old : Nat, claims : Nat]
       /\ c.align >= MallocAlign /\ c.size >= Header
       /\ c.at \in {"copied", "dropping"} => c.old # 0

\* A block that a call is to free is the program's, and no other call's.
CallsOK(cl, hd) ==
    /\ cl = [t \in Threads |-> cl[t]]
    /\ \A t \in Threads :
          /\ CallOK(cl[t])
          /\ cl[t].old # 0 => /\ cl[t].old \in DOMAIN hd
                              /\ \A u \in Threads \ {t} : cl[u].old # cl[t].old

\* Thread t goes on to c.
Moves(cl, cl2, t, c) ==
    /\ cl2 = [u \in Threads |-> cl2[u]] /\ cl2[t] = c
    /\ \A u \in Threads \ {t} : cl2[u] = cl[u]

\* One call goes on, and the others keep their blocks.
LEMMA CallMoves ==
  ASSUME NEW cl, NEW hd, CallsOK(cl, hd), NEW t \in Threads, NEW c, NEW cl2, NEW hd2,
         Moves(cl, cl2, t, c), CallOK(c),
         \A u \in Threads \ {t} : cl[u].old # 0 => cl[u].old \in DOMAIN hd2,
         c.old # 0 => /\ c.old \in DOMAIN hd2
                      /\ \A u \in Threads \ {t} : cl[u].old # c.old
  PROVE  CallsOK(cl2, hd2)
BY Zenon DEF Moves, CallsOK

\* No call goes on.
LEMMA CallsStay ==
  ASSUME NEW cl, NEW hd, CallsOK(cl, hd), NEW hd2,
         \A u \in Threads : cl[u].old # 0 => cl[u].old \in DOMAIN hd2
  PROVE  CallsOK(cl, hd2)
BY Zenon DEF CallsOK

\* The larger of two numbers.
LEMMA LargerIs ==
  ASSUME NEW a \in Nat, NEW b \in Nat
  PROVE  Max({a, b}) \in Nat /\ Max({a, b}) >= a /\ Max({a, b}) >= b
<1>1. \E x \in {a, b} : \A y \in {a, b} : x >= y
  OBVIOUS
<1>2. /\ Max({a, b}) \in {a, b}
      /\ \A y \in {a, b} : Max({a, b}) >= y
  BY <1>1 DEF Max
<1> QED
  BY <1>2

\* What the program may ask for.
LEMMA Asked ==
  /\ \A a \in Aligns : Max({a, MallocAlign}) \in Nat /\ Max({a, MallocAlign}) >= MallocAlign
  /\ \A n \in Sizes : ValidSize(n) \in Nat /\ ValidSize(n) >= Header
<1>1. ASSUME NEW a \in Aligns
      PROVE  Max({a, MallocAlign}) \in Nat /\ Max({a, MallocAlign}) >= MallocAlign
  <2>1. PICK k \in 0..20 : a = 2 ^ k
    BY EmmallocAssumption
  <2>2. k \in 0..30
    OBVIOUS
  <2>3. a = Power[k]
    BY <2>1, <2>2, PowerIs, Zenon
  <2>4. a \in Nat
    BY <2>2, <2>3, Doubles
  <2> QED
    BY <2>4, LargerIs DEF MallocAlign
<1>2. ASSUME NEW n \in Sizes
      PROVE  ValidSize(n) \in Nat /\ ValidSize(n) >= Header
  <2>1. n \in Nat
    BY EmmallocAssumption
  <2>2. AlignUp(n, 4) \in Nat
    BY <2>1, Aligned
  <2>3. AlignUp(n, 4) \div 4 \in Nat
    BY <2>2
  <2> QED
    BY <2>3, LargerIs DEF ValidSize, Header
<1> QED
  BY <1>1, <1>2

\* Heaps with the same headers.
LEMMA SameWords ==
  ASSUME NEW h, NEW g, g.words = h.words, NEW hd, NEW c, NEW hd2, StepOK(g, hd, c, hd2)
  PROVE  StepOK(h, hd, c, hd2)
BY DEF StepOK, Keeping

\* What every step finds.
StateOK(S) == HeapOK(heap, S) /\ HeldOK(heap, S, held) /\ CallsOK(call, held)
Steps == StepOK(heap, held, heap', held') /\ CallsOK(call', held')

\* A call gets its block.
LEMMA ServeStep ==
  ASSUME NEW S, StateOK(S), NEW t \in Threads, call[t].at \in {"search", "claim"},
         NEW h, HeapOK(h, S), h.words = heap.words, h.roots = heap.roots,
         NEW r \in Frees(h.words, S), Fits(h, r, call[t].align, call[t].size), Serve(t, h, r)
  PROVE  Steps
<1> DEFINE c == call[t]
           p == Payload(r, c.align)
<1>1. /\ CallOK(c) /\ c # Idle /\ c.align \in Nat \ {0} /\ c.size \in Nat /\ c.size >= Header
      /\ c.old \in Nat /\ c.claims \in Nat
      /\ c \in [at : {"search", "claim", "copied", "dropping"}, align : Nat, size : Nat,
                old : Nat, claims : Nat]
  BY DEF StateOK, CallsOK, CallOK, Idle, MallocAlign
<1>2. HeldOK(h, S, held)
  BY DEF StateOK, HeldOK, UsedIn
<1>3. r \in Nat
  <2>1. Tiles(h.words, S, Begins(h.roots), Ends(h.roots))
    BY HeapFacts
  <2> QED
    BY <2>1 DEF Tiles, Frees
<1>4. heap' = Carve(h, r, c.align, c.size) /\ held' = With(held, p, c.size, c.align)
  BY DEF Serve, Hold
<1>5. StepOK(heap, held, heap', held')
  <2> HIDE DEF c
  <2>1. Carved(h, S, r, c.align, c.size, Carve(h, r, c.align, c.size))
    BY <1>1, CarveStep DEF c
  <2>2. StepOK(h, held, heap', held')
    BY <1>1, <1>2, <1>3, <1>4, <2>1, HeldMore
  <2> QED
    BY <2>2, SameWords
<1>6. CallsOK(call', held')
  <2>1. DOMAIN held \subseteq DOMAIN held'
    BY <1>4 DEF With
  <2>2. \A u \in Threads : call[u].old # 0 => call[u].old \in DOMAIN held'
    BY <2>1 DEF StateOK, CallsOK
  <2>3. CASE c.old = 0
    <3>1. Moves(call, call', t, Idle)
      BY <2>3 DEF Serve, Return, Moves, StateOK, CallsOK
    <3>2. CallOK(Idle) /\ Idle.old = 0
      BY DEF CallOK, Idle
    <3> QED
      BY <2>2, <3>1, <3>2, CallMoves DEF StateOK
  <2>4. CASE c.old # 0
    <3> DEFINE d == [c EXCEPT !.at = "copied"]
    <3>1. Moves(call, call', t, d)
      BY <2>4 DEF Serve, Goto, Moves, StateOK, CallsOK
    <3>2. CallOK(d) /\ d.old = c.old
      BY <1>1, <2>4 DEF CallOK, Idle
    <3>3. \A u \in Threads \ {t} : call[u].old # c.old
      BY <2>4 DEF StateOK, CallsOK
    <3> HIDE DEF d, c
    <3>4. c.old \in DOMAIN held'
      BY <2>2, <2>4 DEF c
    <3> QED
      BY <2>2, <3>1, <3>2, <3>3, <3>4, CallMoves DEF StateOK
  <2> QED
    BY <2>3, <2>4
<1> QED
  BY <1>5, <1>6 DEF Steps

\* A step that changes no block.
LEMMA StillStep ==
  ASSUME NEW S, StateOK(S), held' = held, NEW T, KeepsBlocks(heap, S, heap', T),
         CallsOK(call', held)
  PROVE  Steps
BY SameBlocks DEF StateOK, Steps

\* A heap that does not change keeps its blocks.
LEMMA UnchangedHeap ==
  ASSUME NEW S, StateOK(S)
  PROVE  KeepsBlocks(heap, S, heap, S)
BY DEF StateOK, KeepsBlocks

\* A call begins.
LEMMA MemalignStep ==
  ASSUME NEW S, StateOK(S), NEW t \in Threads, Memalign(t)
  PROVE  Steps
<1>1. PICK a \in Aligns, n \in Sizes :
         call' = [call EXCEPT ![t] = [at |-> "search", align |-> Max({a, MallocAlign}),
                                      size |-> ValidSize(n), old |-> 0, claims |-> 0]]
  BY DEF Memalign
<1> DEFINE c == [at |-> "search", align |-> Max({a, MallocAlign}),
                 size |-> ValidSize(n), old |-> 0, claims |-> 0]
<1>2. CallOK(c) /\ c.old = 0
  BY Asked DEF CallOK
<1>3. Moves(call, call', t, c)
  BY <1>1 DEF Moves, StateOK, CallsOK
<1>4. \A u \in Threads : call[u].old # 0 => call[u].old \in DOMAIN held
  BY DEF StateOK, CallsOK
<1> HIDE DEF c
<1>5. CallsOK(call', held)
  BY <1>2, <1>3, <1>4, CallMoves DEF StateOK
<1>6. heap' = heap /\ held' = held
  BY DEF Memalign
<1> QED
  BY <1>5, <1>6, StillStep, UnchangedHeap

\* A search finds a region, or goes on to claim memory.
LEMMA SearchStep ==
  ASSUME NEW S, StateOK(S), NEW t \in Threads, Search(t)
  PROVE  Steps
<1> DEFINE c == call[t]
           h == AfterScan(heap, c.align, c.size)
           found == Found(heap, c.align, c.size)
<1>1. HeapOK(heap, S) /\ c.at = "search"
  BY DEF StateOK, Search, InCall
<1>2. HeapOK(h, S) /\ h.words = heap.words /\ h.roots = heap.roots /\ h.brk = heap.brk
  BY <1>1, ScanStep
<1>3. CASE found # {}
  <2>1. PICK r \in found : Serve(t, h, r)
    BY <1>3 DEF Search
  <2>2. r \in Frees(heap.words, S) /\ Fits(heap, r, c.align, c.size)
    BY <1>1, FoundFits
  <2> HIDE DEF h
  <2>3. r \in Frees(h.words, S) /\ Fits(h, r, c.align, c.size)
    BY <1>2, <2>2 DEF Fits
  <2> QED
    BY <1>1, <1>2, <2>1, <2>3, ServeStep
<1>4. CASE found = {}
  <2>1. heap' = h /\ Goto(t, "claim") /\ held' = held
    BY <1>4 DEF Search
  <2> HIDE DEF h, found
  <2>2. KeepsBlocks(heap, S, heap', S)
    BY <1>2, <2>1 DEF KeepsBlocks, UsedIn
  <2> DEFINE d == [c EXCEPT !.at = "claim"]
  <2>3. CallOK(c) /\ c # Idle
    BY <1>1 DEF StateOK, CallsOK, Idle
  <2>4. CallOK(d) /\ d.old = c.old
    BY <2>3 DEF CallOK, Idle
  <2>5. Moves(call, call', t, d)
    BY <2>1 DEF Moves, StateOK, CallsOK, Goto
  <2>6. \A u \in Threads : call[u].old # 0 => call[u].old \in DOMAIN held
    BY DEF StateOK, CallsOK
  <2>7. c.old # 0 => \A u \in Threads \ {t} : call[u].old # c.old
    BY DEF StateOK, CallsOK
  <2>8. c.old # 0 => c.old \in DOMAIN held
    BY <2>6
  <2> HIDE DEF d, c
  <2>9. CallsOK(call', held)
    BY <2>4, <2>5, <2>6, <2>7, <2>8, CallMoves DEF StateOK
  <2> QED
    BY <2>1, <2>2, <2>9, StillStep
<1> QED
  BY <1>3, <1>4

\* How much is claimed: enough for the root region and its sentinels.
LEMMA ClaimIs ==
  ASSUME NEW align \in Nat, align >= MallocAlign, NEW size \in Nat
  PROVE  LET n == AlignUp(ToClaim(align, size), MallocAlign)
         IN  /\ n \in Nat /\ n >= 12
             /\ n - 8 >= size + 4 + IF align > 2 THEN align ELSE 0
<1>1. ToClaim(align, size) = size + 12 + IF align > 2 THEN align ELSE 0
  BY DEF ToClaim, Region, MallocAlign
<1>2. ToClaim(align, size) \in Nat
  BY <1>1
<1>3. /\ AlignUp(ToClaim(align, size), 2) \in Nat
      /\ ToClaim(align, size) <= AlignUp(ToClaim(align, size), 2)
  BY <1>2, Aligned
<1> QED
  BY <1>1, <1>2, <1>3 DEF MallocAlign

\* A claim succeeds, or the call looks at the rest of the largest bucket.
LEMMA ClaimMoreStep ==
  ASSUME NEW S, StateOK(S), NEW t \in Threads, ClaimMore(t)
  PROVE  Steps
<1> DEFINE c == call[t]
           n == AlignUp(ToClaim(c.align, c.size), MallocAlign)
           fit == FirstFit(heap, LastTries(heap), c.align, c.size)
<1>1. HeapOK(heap, S) /\ c.at = "claim"
  BY DEF StateOK, ClaimMore, InCall
<1>2. CallOK(c) /\ c # Idle
  BY <1>1 DEF StateOK, CallsOK, Idle
<1>3. \A u \in Threads : call[u].old # 0 => /\ call[u].old \in DOMAIN held
                                            /\ \A v \in Threads \ {u} : call[v].old # call[u].old
  BY DEF StateOK, CallsOK
<1>4. CASE ~SbrkFails(heap, n)
  <2>1. /\ heap' = Claim(heap, n) /\ held' = held
        /\ call' = [call EXCEPT ![t].at = "search", ![t].claims = @ + 1]
    BY <1>4 DEF ClaimMore
  <2>2. n \in Nat /\ n >= 12
    <3>1. c.align \in Nat /\ c.align >= MallocAlign /\ c.size \in Nat
      BY <1>2 DEF CallOK
    <3> HIDE DEF c
    <3> QED
      BY <3>1, ClaimIs
  <2> DEFINE d == [c EXCEPT !.at = "search", !.claims = @ + 1]
  <2>3. CallOK(d) /\ d.old = c.old
    <3> HIDE DEF c
    <3>1. /\ c \in [at : {"search", "claim", "copied", "dropping"}, align : Nat, size : Nat,
                    old : Nat, claims : Nat]
          /\ c.align >= MallocAlign /\ c.size >= Header
      BY <1>2 DEF CallOK
    <3>2. c.claims + 1 \in Nat
      BY <3>1
    <3>3. d \in [at : {"search", "claim", "copied", "dropping"}, align : Nat, size : Nat,
                 old : Nat, claims : Nat]
      BY <3>1, <3>2
    <3>4. d.at = "search" /\ d.old = c.old /\ d.align = c.align /\ d.size = c.size
      BY <3>1
    <3> QED
      BY <3>1, <3>3, <3>4 DEF CallOK
  <2>4. Moves(call, call', t, d)
    BY <2>1 DEF Moves, StateOK, CallsOK
  <2> HIDE DEF n, d
  <2>5. heap.brk + n <= HeapMax
    <3>1. heap.brk \in Nat /\ HeapMax \in Nat
      BY <1>1, BelowBreak, EmmallocAssumption
    <3> QED
      BY <1>4, <2>2, <3>1 DEF SbrkFails
  <2>6. PICK T : KeepsBlocks(heap, S, heap', T)
    BY <1>1, <2>1, <2>2, <2>5, ClaimStep DEF Claimed
  <2> HIDE DEF c
  <2>7. CallsOK(call', held)
    BY <1>3, <2>3, <2>4, CallMoves DEF StateOK, c
  <2> QED
    BY <2>1, <2>6, <2>7, StillStep
<1>5. CASE SbrkFails(heap, n) /\ fit # {}
  <2>1. PICK r \in fit : Serve(t, heap, r)
    BY <1>5 DEF ClaimMore
  <2>2. r \in Frees(heap.words, S) /\ Fits(heap, r, c.align, c.size)
    BY <1>1, FoundFits
  <2> QED
    BY <1>1, <2>1, <2>2, ServeStep
<1>6. CASE SbrkFails(heap, n) /\ fit = {}
  <2>1. Return(t) /\ heap' = heap /\ held' = held
    BY <1>6 DEF ClaimMore
  <2>2. Moves(call, call', t, Idle)
    BY <2>1 DEF Moves, StateOK, CallsOK, Return
  <2>3. CallOK(Idle) /\ Idle.old = 0
    BY DEF CallOK, Idle
  <2>4. CallsOK(call', held)
    BY <1>3, <2>2, <2>3, CallMoves DEF StateOK
  <2> QED
    BY <2>1, <2>4, StillStep, UnchangedHeap
<1> QED
  BY <1>4, <1>5, <1>6

\* free.
LEMMA FreeStep ==
  ASSUME NEW S, StateOK(S), NEW t \in Threads, Free(t)
  PROVE  Steps
<1>1. PICK p \in DOMAIN held : MayUse(p) /\ heap' = Release(heap, p) /\ Drop(p)
  BY DEF Free
<1>2. call' = call
  BY DEF Free
<1>3. held' = [q \in DOMAIN held \ {p} |-> held[q]]
  BY <1>1 DEF Drop
<1>4. StepOK(heap, held, heap', held')
  BY <1>1, <1>3, HeldLess DEF StateOK
<1>5. \A u \in Threads : call[u].old # 0 => call[u].old \in DOMAIN held'
  <2>1. \A u \in Threads : call[u].old # 0 => call[u].old \in DOMAIN held \ {p}
    BY <1>1 DEF MayUse, StateOK, CallsOK
  <2> QED
    BY <1>3, <2>1
<1>6. CallsOK(call', held')
  BY <1>2, <1>5, CallsStay DEF StateOK
<1> QED
  BY <1>4, <1>6 DEF Steps

\* A reallocation frees the old block.
LEMMA FreeOldStep ==
  ASSUME NEW S, StateOK(S), NEW t \in Threads, FreeOld(t)
  PROVE  Steps
<1> DEFINE c == call[t]
           p == c.old
<1>1. /\ c.at \in {"copied", "dropping"} /\ heap' = Release(heap, p)
      /\ held' = [q \in DOMAIN held \ {p} |-> held[q]]
      /\ IF c.at = "copied" THEN Return(t)
         ELSE call' = [call EXCEPT ![t].at = "search", ![t].old = 0]
  BY DEF FreeOld, Drop
<1>2. CallOK(c) /\ c # Idle /\ p # 0
  BY <1>1 DEF StateOK, CallsOK, CallOK, Idle
<1>3. p \in DOMAIN held /\ \A u \in Threads \ {t} : call[u].old # p
  BY <1>2 DEF StateOK, CallsOK
<1>4. StepOK(heap, held, heap', held')
  <2> HIDE DEF p
  <2> QED
    BY <1>1, <1>3, HeldLess DEF StateOK
<1>5. \A u \in Threads \ {t} : call[u].old # 0 => call[u].old \in DOMAIN held'
  <2>1. \A u \in Threads \ {t} : call[u].old # 0 => call[u].old \in DOMAIN held \ {p}
    BY <1>3 DEF StateOK, CallsOK
  <2> HIDE DEF p
  <2> QED
    BY <1>1, <2>1
<1>6. \E d : CallOK(d) /\ d.old = 0 /\ Moves(call, call', t, d)
  <2>1. CASE c.at = "copied"
    <3>1. Moves(call, call', t, Idle)
      BY <1>1, <2>1 DEF Moves, StateOK, CallsOK, Return
    <3>2. CallOK(Idle) /\ Idle.old = 0
      BY DEF CallOK, Idle
    <3> QED
      BY <3>1, <3>2
  <2>2. CASE c.at # "copied"
    <3> DEFINE d == [c EXCEPT !.at = "search", !.old = 0]
    <3>1. CallOK(d) /\ d.old = 0
      BY <1>2 DEF CallOK, Idle
    <3>2. Moves(call, call', t, d)
      BY <1>1, <2>2 DEF Moves, StateOK, CallsOK
    <3> HIDE DEF d
    <3> QED
      BY <3>1, <3>2
  <2> QED
    BY <2>1, <2>2
<1>7. CallsOK(call', held')
  BY <1>5, <1>6, CallMoves DEF StateOK
<1> QED
  BY <1>4, <1>7 DEF Steps

\* A block is resized in place, or a reallocation begins that has to move it.
LEMMA ReallocateStep ==
  ASSUME NEW S, StateOK(S), NEW t \in Threads, Reallocate(t)
  PROVE  Steps
<1>1. PICK p \in DOMAIN held, a \in Aligns, n \in Sizes \ {0} :
         LET align == Max({a, MallocAlign})
             size == ValidSize(n)
             resized == Resize(heap, p - 1, size + Header)
         IN  /\ MayUse(p) /\ p % align = 0
             /\ IF resized.ok
                THEN heap' = resized.heap /\ Hold(p, size, align) /\ UNCHANGED call
                ELSE /\ Cardinality(DOMAIN held) + Cardinality(Pending) < MaxBlocks
                     /\ \E at \in {"search", "dropping"} :
                           call' = [call EXCEPT ![t] = [at |-> at, align |-> align,
                                       size |-> size, old |-> p, claims |-> 0]]
                     /\ UNCHANGED <<heap, held>>
  BY DEF Reallocate
<1> DEFINE align == Max({a, MallocAlign})
           size == ValidSize(n)
           resized == Resize(heap, p - 1, size + Header)
<1>2. align \in Nat /\ align >= MallocAlign /\ size \in Nat /\ size >= Header
  BY Asked
<1>3. \A u \in Threads : call[u].old # p
  BY <1>1 DEF MayUse
<1>4. \A u \in Threads : call[u].old # 0 => call[u].old \in DOMAIN held
  BY DEF StateOK, CallsOK
<1>5. p \in Nat /\ p # 0
  BY UsedIs DEF StateOK, HeldOK
<1>6. CASE resized.ok
  <2>1. heap' = resized.heap /\ held' = With(held, p, size, align) /\ call' = call
    BY <1>1, <1>6 DEF Hold
  <2>2. p % align = 0
    BY <1>1
  <2> HIDE DEF size, align
  <2>3. StepOK(heap, held, heap', held')
    <3>1. align \in Nat \ {0}
      BY <1>2 DEF MallocAlign
    <3> QED
      BY <1>2, <1>6, <2>1, <2>2, <3>1, HeldResized DEF StateOK
  <2>4. DOMAIN held' = DOMAIN held
    BY <2>1 DEF With
  <2>5. CallsOK(call', held')
    BY <1>4, <2>1, <2>4, CallsStay DEF StateOK
  <2> QED
    BY <2>3, <2>5 DEF Steps
<1>7. CASE ~resized.ok
  <2>1. /\ heap' = heap /\ held' = held
        /\ \E at \in {"search", "dropping"} :
              call' = [call EXCEPT ![t] = [at |-> at, align |-> align,
                          size |-> size, old |-> p, claims |-> 0]]
    BY <1>1, <1>7
  <2> HIDE DEF size, align, resized
  <2>2. PICK at \in {"search", "dropping"} :
           call' = [call EXCEPT ![t] = [at |-> at, align |-> align,
                       size |-> size, old |-> p, claims |-> 0]]
    BY <2>1
  <2> DEFINE d == [at |-> at, align |-> align, size |-> size, old |-> p, claims |-> 0]
  <2>3. CallOK(d) /\ d.old = p
    BY <1>2, <1>5 DEF CallOK
  <2>4. Moves(call, call', t, d)
    BY <2>2 DEF Moves, StateOK, CallsOK
  <2> HIDE DEF d
  <2>5. CallsOK(call', held)
    BY <1>3, <1>4, <2>3, <2>4, CallMoves DEF StateOK
  <2> QED
    BY <2>1, <2>5, StillStep, UnchangedHeap
<1> QED
  BY <1>6, <1>7

\* Each call of malloc_trim that gives memory back has a safe argument: at least
\* a header is left, and not exactly a word less than the last region has.
TrimsSafe ==
    \A bytes \in Pads :
       LET pad == AlignUp(bytes, 4) \div 4
       IN  Contiguous(heap) /\ Shrink(heap, pad) # 0
              => pad >= Header /\ pad + 1 # SizeOf(heap.words, LastRegion(heap))

\* malloc_trim, with a safe argument.
LEMMA TrimsStep ==
  ASSUME NEW S, StateOK(S), TrimsSafe, NEW t \in Threads, Trim(t)
  PROVE  Steps
<1>1. PICK bytes \in Pads :
         LET pad == AlignUp(bytes, 4) \div 4
         IN  Shrink(heap, pad) # 0 /\ heap' = Trimmed(heap, pad)
  BY DEF Trim
<1> DEFINE pad == AlignUp(bytes, 4) \div 4
<1>2. pad \in Nat
  <2>1. bytes \in Nat
    BY EmmallocAssumption
  <2>2. AlignUp(bytes, 4) \in Nat
    BY <2>1, Aligned
  <2> QED
    BY <2>2
<1>3. Contiguous(heap) /\ held' = held /\ call' = call
  BY DEF Trim, Contiguous
<1>4. Shrink(heap, pad) # 0 /\ heap' = Trimmed(heap, pad)
  BY <1>1
<1>5. pad >= 2 /\ pad + 1 # SizeOf(heap.words, LastRegion(heap))
  BY <1>3, <1>4 DEF TrimsSafe, Header
<1> HIDE DEF pad
<1>6. PICK T : KeepsBlocks(heap, S, heap', T)
  BY <1>2, <1>3, <1>5, <1>4, TrimStep DEF StateOK
<1>7. CallsOK(call', held)
  BY <1>3 DEF StateOK
<1> QED
  BY <1>3, <1>6, <1>7, StillStep

\* An sbrk() of other code.
LEMMA ForeignSbrkStep ==
  ASSUME NEW S, StateOK(S), ForeignSbrk
  PROVE  Steps
<1>1. heap' = [heap EXCEPT !.brk = @ + ForeignSize] /\ held' = held /\ call' = call
  BY DEF ForeignSbrk
<1>2. KeepsBlocks(heap, S, heap', S)
  <2>1. ForeignSize \in Nat
    BY DEF ForeignSize
  <2> QED
    BY <1>1, <2>1, ForeignStep DEF StateOK
<1>3. CallsOK(call', held)
  BY <1>1 DEF StateOK
<1> QED
  BY <1>1, <1>2, <1>3, StillStep

\* emmalloc_blank_slate_from_orbit.
LEMMA BlankSlateStep ==
  ASSUME NEW S, StateOK(S), NEW t \in Threads, BlankSlate(t)
  PROVE  Steps
<1>1. held = <<>> /\ heap' = Initialize(heap.brk) /\ held' = held /\ call' = call
  BY DEF BlankSlate
<1>2. UsedIn(heap, S) = {}
  <2>1. DOMAIN held = {}
    BY <1>1
  <2> QED
    BY <2>1 DEF StateOK, HeldOK
<1>3. heap.brk \in Nat
  BY BelowBreak DEF StateOK
<1>4. PICK T : HeapOK(heap', T) /\ UsedIn(heap', T) = {}
  BY <1>1, <1>3, InitializeStep
<1>5. KeepsBlocks(heap, S, heap', T)
  BY <1>2, <1>4 DEF KeepsBlocks
<1>6. CallsOK(call', held)
  BY <1>1 DEF StateOK
<1> QED
  BY <1>1, <1>5, <1>6, StillStep

\* The inductive invariant: the heap is tiled, its regions in use are the blocks
\* that the program holds, and the calls know theirs.
HeapInv == \E S : StateOK(S)

\* Every step does what StepOK says, and leaves the calls their blocks.
LEMMA NextSteps ==
  ASSUME HeapInv, TrimsSafe, Next
  PROVE  Steps
<1>1. PICK S : StateOK(S)
  BY DEF HeapInv
<1>2. CASE ForeignSbrk
  BY <1>1, <1>2, ForeignSbrkStep
<1>3. ASSUME NEW t \in Threads, \/ Memalign(t) \/ Search(t) \/ ClaimMore(t) \/ Free(t)
                                \/ FreeOld(t) \/ Trim(t) \/ Reallocate(t) \/ BlankSlate(t)
      PROVE  Steps
  <2>1. CASE Memalign(t)
    BY <1>1, <2>1, MemalignStep
  <2>2. CASE Search(t)
    BY <1>1, <2>2, SearchStep
  <2>3. CASE ClaimMore(t)
    BY <1>1, <2>3, ClaimMoreStep
  <2>4. CASE Free(t)
    BY <1>1, <2>4, FreeStep
  <2>5. CASE FreeOld(t)
    BY <1>1, <2>5, FreeOldStep
  <2>6. CASE Trim(t)
    BY <1>1, <2>6, TrimsStep
  <2>7. CASE Reallocate(t)
    BY <1>1, <2>7, ReallocateStep
  <2>8. CASE BlankSlate(t)
    BY <1>1, <2>8, BlankSlateStep
  <2> QED
    BY <1>3, <2>1, <2>2, <2>3, <2>4, <2>5, <2>6, <2>7, <2>8
<1> QED
  BY <1>2, <1>3 DEF Next

\* The heap is well formed at the start.
LEMMA HeapInvInit == Init => HeapInv
<1> SUFFICES ASSUME Init PROVE HeapInv
  OBVIOUS
<1>1. HeapBase \in Nat
  BY EmmallocAssumption
<1>2. PICK T : HeapOK(heap, T) /\ UsedIn(heap, T) = {}
  BY <1>1, InitializeStep DEF Init
<1>3. HeldOK(heap, T, held)
  <2>1. DOMAIN held = {}
    BY DEF Init
  <2> QED
    BY <1>2, <2>1 DEF HeldOK
<1>4. CallsOK(call, held)
  BY DEF Init, CallsOK, CallOK, Idle
<1> QED
  BY <1>2, <1>3, <1>4 DEF HeapInv, StateOK

\* Every step keeps it.
LEMMA HeapInvStep == HeapInv /\ TrimsSafe /\ [Next]_vars => HeapInv'
<1> SUFFICES ASSUME HeapInv, TrimsSafe, [Next]_vars PROVE HeapInv'
  OBVIOUS
<1>1. CASE Next
  <2>1. Steps
    BY <1>1, NextSteps
  <2>2. PICK T : HeapOK(heap', T) /\ HeldOK(heap', T, held')
    BY <2>1 DEF Steps, StepOK
  <2> QED
    BY <2>1, <2>2 DEF HeapInv, StateOK, Steps
<1>2. CASE UNCHANGED vars
  BY <1>2 DEF HeapInv, StateOK, vars, HeapOK, HeldOK, CallsOK
<1> QED
  BY <1>1, <1>2

-----------------------------------------------------------------------------
(***************************************************************************)
(* The properties                                                          *)
(***************************************************************************)
\* What the headers in memory describe is the tiling.
LEMMA TilingShows == HeapInv => RegionsTile
<1> SUFFICES ASSUME HeapInv PROVE RegionsTile
  OBVIOUS
<1>1. PICK S : HeapOK(heap, S)
  BY DEF HeapInv, StateOK
<1> DEFINE ws == heap.words
           roots == heap.roots
<1>2. Tiles(ws, S, Begins(roots), Ends(roots)) /\ RootsOK(roots, heap.brk)
  BY <1>1, HeapFacts
<1>3. ASSUME NEW i \in DOMAIN roots
      PROVE  roots[i].start \in Nat /\ roots[i].end \in Nat
  <2>1. i \in 1..Len(roots) /\ roots \in Seq([start : Nat, end : Nat])
    BY <1>2 DEF RootsOK
  <2>2. roots[i] \in [start : Nat, end : Nat]
    BY <2>1, ElementOfSeq
  <2> QED
    BY <2>2
<1>4. ASSUME NEW root \in AllRoots
      PROVE  LET rs == Regions(heap, root)
             IN  /\ root.end \in rs /\ root.end <= heap.brk
                 /\ \A r \in rs \ {root.end} :
                       /\ Consistent(ws, r)
                       /\ SizeOf(ws, r) >= Region
                       /\ (r = root.start \/ NextRegion(ws, r) = root.end) => ~IsFree(ws, r)
  <2>1. PICK i \in DOMAIN roots : root = roots[i]
    BY DEF AllRoots, Range
  <2>2. Regions(heap, root) = From(S, root.start, root.end)
    BY <1>1, RegionsAre DEF AllRoots
  <2>3. root.end <= heap.brk /\ root.start \in Begins(roots) /\ root.end \in Ends(roots)
    BY <1>2, <2>1 DEF RootsOK, Begins, Ends
  <2>4. ASSUME NEW r \in S
        PROVE  /\ Consistent(ws, r) /\ SizeOf(ws, r) >= Region
               /\ (r = root.start \/ NextRegion(ws, r) = root.end) => ~IsFree(ws, r)
    <3>1. RegionOK(ws, r)
      BY <1>2 DEF Tiles
    <3>2. r = root.start => ~IsFree(ws, r)
      BY <1>2, <2>3 DEF Tiles
    <3>3. NextRegion(ws, r) = root.end => ~IsFree(ws, r)
      BY <1>2, <2>3, Neighbours
    <3> QED
      BY <3>1, <3>2, <3>3 DEF RegionOK
  <2> HIDE DEF ws, roots
  <2> QED
    BY <2>2, <2>3, <2>4 DEF From
<1>5. \A i, j \in DOMAIN roots : i < j => roots[j].end <= roots[i].start
  <2>1. \A i, j \in DOMAIN roots : i < j => roots[j].end < roots[i].start
    BY <1>2 DEF RootsOK
  <2> QED
    BY <1>3, <2>1
<1> QED
  BY <1>4, <1>5 DEF RegionsTile

\* The regions of the program's blocks and the free ones.
LEMMA InnerIs ==
  ASSUME NEW S, HeapOK(heap, S)
  PROVE  \A r : /\ r \in FreeRegions <=> r \in Frees(heap.words, S)
                /\ r \in UsedRegions <=> r \in UsedIn(heap, S)
<1> DEFINE ws == heap.words
           roots == heap.roots
           B == Begins(roots)
           E == Ends(roots)
<1>1. Tiles(ws, S, B, E) /\ RootsOK(roots, heap.brk)
  BY HeapFacts
<1>2. \A i \in DOMAIN roots : Regions(heap, roots[i]) = From(S, roots[i].start, roots[i].end)
  BY RegionsAre DEF Range
<1>3. \A i \in DOMAIN roots : roots[i].start \in Nat /\ roots[i].end \in Nat
  <2> TAKE i \in DOMAIN roots
  <2>1. i \in 1..Len(roots) /\ roots \in Seq([start : Nat, end : Nat])
    BY <1>1 DEF RootsOK
  <2>2. roots[i] \in [start : Nat, end : Nat]
    BY <2>1, ElementOfSeq
  <2> QED
    BY <2>2
<1>4. \A r \in S : r \in Nat /\ NextRegion(ws, r) \in Nat /\ r < NextRegion(ws, r)
  BY <1>1, Neighbours
<1>5. \A i, j \in DOMAIN roots : i = j \/ i < j \/ j < i
  BY <1>1 DEF RootsOK
<1>6. \A i, j \in DOMAIN roots : i < j => roots[j].end < roots[i].start
  BY <1>1 DEF RootsOK
<1>7. \A i \in DOMAIN roots : roots[i].start < roots[i].end
  BY <1>1 DEF RootsOK
<1>8. \A r \in S : \E i \in DOMAIN roots : roots[i].start <= r /\ NextRegion(ws, r) <= roots[i].end
  BY <1>1, InRoot
<1> HIDE DEF ws
<1>9. ASSUME NEW r, NEW i \in DOMAIN roots, r \in From(S, roots[i].start, roots[i].end),
             r # roots[i].start, r # roots[i].end, NextRegion(ws, r) # roots[i].end
      PROVE  r \in S \ B /\ NextRegion(ws, r) \notin E
  <2>1. r \in S /\ roots[i].start <= r /\ r < roots[i].end
    BY <1>9 DEF From
  <2>2. PICK k \in DOMAIN roots : roots[k].start <= r /\ NextRegion(ws, r) <= roots[k].end
    BY <1>8, <2>1
  <2> HIDE DEF roots
  <2>3. k = i
    BY <1>3, <1>4, <1>5, <1>6, <1>7, <2>1, <2>2
  <2>4. r \notin B
    <3>1. ASSUME NEW j \in DOMAIN roots, r = roots[j].start
          PROVE  FALSE
      <4>1. j = i
        BY <1>3, <1>4, <1>5, <1>6, <1>7, <2>1, <3>1
      <4> QED
        BY <1>9, <3>1, <4>1
    <3> QED
      BY <3>1 DEF Begins
  <2>5. NextRegion(ws, r) \notin E
    <3>1. ASSUME NEW j \in DOMAIN roots, NextRegion(ws, r) = roots[j].end
          PROVE  FALSE
      <4>1. j = i
        BY <1>3, <1>4, <1>5, <1>6, <1>7, <2>1, <2>2, <2>3, <3>1
      <4> QED
        BY <1>9, <3>1, <4>1
    <3> QED
      BY <3>1 DEF Ends
  <2> QED
    BY <2>1, <2>4, <2>5
<1>10. ASSUME NEW r \in S \ B, NextRegion(ws, r) \notin E
       PROVE  \E i \in DOMAIN roots :
                 /\ r \in From(S, roots[i].start, roots[i].end) /\ r # roots[i].start
                 /\ r # roots[i].end /\ NextRegion(ws, r) # roots[i].end
  <2>1. PICK k \in DOMAIN roots : roots[k].start <= r /\ NextRegion(ws, r) <= roots[k].end
    BY <1>8
  <2>2. r # roots[k].start /\ NextRegion(ws, r) # roots[k].end
    BY <1>10 DEF Begins, Ends
  <2> HIDE DEF roots
  <2>3. r < roots[k].end
    BY <1>3, <1>4, <2>1
  <2>4. r \in From(S, roots[k].start, roots[k].end) /\ r # roots[k].end
    BY <1>3, <1>4, <2>1, <2>3 DEF From
  <2> QED
    BY <2>1, <2>2, <2>4
<1>11. \A r : r \in InnerRegions <=>
          \E i \in DOMAIN roots :
             /\ r \in From(S, roots[i].start, roots[i].end) /\ r # roots[i].start
             /\ r # roots[i].end /\ NextRegion(ws, r) # roots[i].end
  <2> DEFINE Inner(root) == {r \in Regions(heap, root) :
                               /\ r # root.start /\ r # root.end
                               /\ NextRegion(ws, r) # root.end}
  <2>1. InnerRegions = UNION {Inner(root) : root \in AllRoots}
    BY DEF InnerRegions, ws
  <2>2. AllRoots = {roots[i] : i \in DOMAIN roots}
    BY DEF AllRoots, Range
  <2>3. \A r : \A i \in DOMAIN roots : r \in Inner(roots[i]) <=>
           /\ r \in From(S, roots[i].start, roots[i].end) /\ r # roots[i].start
           /\ r # roots[i].end /\ NextRegion(ws, r) # roots[i].end
    <3> HIDE DEF roots
    <3> QED
      BY <1>2
  <2> HIDE DEF roots, Inner
  <2>4. \A r : r \in InnerRegions <=> \E i \in DOMAIN roots : r \in Inner(roots[i])
    BY <2>1, <2>2
  <2> QED
    BY <2>3, <2>4, Zenon
<1>12. \A r : r \in InnerRegions <=> r \in S \ B /\ NextRegion(ws, r) \notin E
  BY <1>9, <1>10, <1>11
<1>13. \A r \in S : IsFree(ws, r) => r \notin B /\ NextRegion(ws, r) \notin E
  <2>1. \A e \in E : e \notin S
    BY <1>1 DEF Tiles
  <2>2. \A r \in S : IsFree(ws, r) => r \notin B /\ NextRegion(ws, r) \in S
    BY <1>1, Neighbours DEF ws
  <2> QED
    BY <2>1, <2>2
<1>14. \A r : r \in FreeRegions <=> r \in S /\ IsFree(ws, r)
  BY <1>12, <1>13 DEF FreeRegions, ws
<1>15. \A r : r \in UsedRegions <=> r \in S \ B /\ NextRegion(ws, r) \notin E /\ ~IsFree(ws, r)
  BY <1>12 DEF UsedRegions, ws
<1> QED
  BY <1>14, <1>15 DEF Frees, UsedIn, Used, ws

\* Free regions have no free neighbours.
LEMMA TilingMerged == HeapInv => NoFreeNeighbours
<1> SUFFICES ASSUME HeapInv, NEW r \in FreeRegions
             PROVE  NextRegion(heap.words, r) \notin FreeRegions
  BY DEF NoFreeNeighbours
<1>1. PICK S : HeapOK(heap, S)
  BY DEF HeapInv, StateOK
<1>2. \A x : x \in FreeRegions <=> x \in Frees(heap.words, S)
  BY <1>1, InnerIs
<1>3. \A x \in S : IsFree(heap.words, x) => ~IsFree(heap.words, NextRegion(heap.words, x))
  BY <1>1 DEF HeapOK, Tiles
<1> QED
  BY <1>2, <1>3 DEF Frees

\* The heap stays well formed, as long as malloc_trim is called with safe
\* arguments: EmmallocTrim shows what becomes of it otherwise.
THEOREM HeapInvariant == Spec /\ []TrimsSafe => []HeapInv
BY HeapInvInit, HeapInvStep, PTL DEF Spec

\* Following the sizes from the start of a root region, the headers lead to its
\* end, whatever is allocated, freed, resized, claimed and trimmed.
THEOREM HeapTiled == Spec /\ []TrimsSafe => []RegionsTile
BY HeapInvariant, TilingShows, PTL

\* Whichever of free, realloc, malloc_trim and a claim makes two free regions
\* neighbours merges them.
THEOREM FreeMerged == Spec /\ []TrimsSafe => []NoFreeNeighbours
BY HeapInvariant, TilingMerged, PTL

\* The free lists are exact: Listed is what every step keeps of them.
LEMMA ListsShow == HeapInv => FreeListsExact
<1> SUFFICES ASSUME HeapInv PROVE FreeListsExact
  OBVIOUS
<1>1. PICK S : HeapOK(heap, S)
  BY DEF HeapInv, StateOK
<1> DEFINE ws == heap.words
           F == Frees(ws, S)
           lists == heap.lists
<1>2. /\ Tiles(ws, S, Begins(heap.roots), Ends(heap.roots))
      /\ \A r \in S : NextRegion(ws, r) <= HeapMax
      /\ HeapMax \in Nat
      /\ Lists(heap, ws, F)
  BY <1>1, HeapFacts
<1>3. \A r : r \in FreeRegions <=> r \in F
  BY <1>1, InnerIs
<1>4. ASSUME NEW r \in F
      PROVE  Bucket(SizeOf(ws, r)) \in Buckets /\ SizeOf(ws, r) \in Nat /\ SizeOf(ws, r) >= 4
  <2>1. r \in S
    BY DEF Frees
  <2>2. /\ r \in Nat /\ SizeOf(ws, r) \in Nat /\ SizeOf(ws, r) >= 4
        /\ NextRegion(ws, r) = r + SizeOf(ws, r) /\ NextRegion(ws, r) <= HeapMax
    BY <1>2, <2>1, Neighbours
  <2> HIDE DEF ws
  <2>3. SizeOf(ws, r) \in Region..HeapMax
    BY <1>2, <2>2 DEF Region
  <2> QED
    BY <2>2, <2>3 DEF Buckets
<1>5. \A b \in Buckets : /\ lists[b] \in Seq(F) /\ Once(lists[b])
                         /\ \A r \in F : On(r, lists[b]) <=> Bucket(SizeOf(ws, r)) = b
  BY <1>2 DEF Lists, Listed
<1>6. \A b \in Buckets : lists[b] # <<>> => b \in heap.used
  BY <1>2 DEF Lists
<1> HIDE DEF F, lists, ws
<1>7. \A b \in Buckets : \A i \in DOMAIN lists[b] : lists[b][i] \in F
  BY <1>5, ElementOfSeq
<1>8. UNION {Range(lists[b]) : b \in Buckets} = FreeRegions
  <2>1. ASSUME NEW x, x \in UNION {Range(lists[b]) : b \in Buckets}
        PROVE  x \in F
    <3>1. PICK b \in Buckets : x \in Range(lists[b])
      BY <2>1
    <3> QED
      BY <1>7, <3>1 DEF Range
  <2>2. ASSUME NEW x \in F
        PROVE  x \in UNION {Range(lists[b]) : b \in Buckets}
    <3> DEFINE b == Bucket(SizeOf(ws, x))
    <3>1. b \in Buckets /\ On(x, lists[b])
      BY <1>4, <1>5
    <3>2. x \in Range(lists[b])
      BY <3>1 DEF On, Range
    <3> HIDE DEF b
    <3> QED
      BY <3>1, <3>2
  <2> QED
    BY <1>3, <2>1, <2>2
<1>9. ASSUME NEW b \in Buckets, NEW i \in DOMAIN lists[b]
      PROVE  LET bytes == 4 * (SizeOf(ws, lists[b][i]) - Header)
             IN  /\ BucketLow[b + 1] <= bytes /\ (b < 63 => bytes < BucketLow[b + 2])
                 /\ \A j \in DOMAIN lists[b] : lists[b][i] = lists[b][j] => i = j
  <2> DEFINE r == lists[b][i]
  <2>1. r \in F /\ On(r, lists[b])
    BY <1>7 DEF On
  <2>2. Bucket(SizeOf(ws, r)) = b
    BY <1>5, <2>1
  <2>3. InBucket(Bucket(SizeOf(ws, r)), 4 * (SizeOf(ws, r) - 2))
    BY <1>4, <2>1, BucketOf
  <2>4. InBucket(b, 4 * (SizeOf(ws, r) - 2))
    BY <2>2, <2>3
  <2>5. \A j \in DOMAIN lists[b] : lists[b][i] = lists[b][j] => i = j
    BY <1>5 DEF Once
  <2> QED
    BY <2>4, <2>5, Zenon DEF InBucket, Header
<1> QED
  BY <1>6, <1>8, <1>9, Zenon DEF FreeListsExact, lists, ws

\* The free lists hold the free regions, once, each in the bucket that the
\* table at emmalloc.c:180 gives its size.
THEOREM ListsExact == Spec /\ []TrimsSafe => []FreeListsExact
BY HeapInvariant, ListsShow, PTL

-----------------------------------------------------------------------------
(***************************************************************************)
(* A claim suffices                                                        *)
(***************************************************************************)
\* Who claims has the lock, and who has claimed finds a region that serves it.
ClaimOK(cl, l, h, t) ==
    /\ cl[t].claims \in {0, 1}
    /\ cl[t].at \in {"claim", "dropping"} => cl[t].claims = 0
    /\ cl[t].at = "claim" => l = t
    /\ cl[t].at = "search" /\ cl[t].claims # 0
          => l = t /\ Serving(h, cl[t].align, cl[t].size) # {}
LockInv == \A t \in Threads : ClaimOK(call, lock, heap, t)

\* The first region of its bucket, as large as what was claimed, serves the call.
LEMMA ClaimServes ==
  ASSUME NEW h, NEW S, HeapOK(h, S), NEW align \in Nat, align >= MallocAlign,
         NEW size \in Nat, size >= Header, NEW f,
         FirstFree(h, S, f, AlignUp(ToClaim(align, size), MallocAlign) - 8)
  PROVE  Serving(h, align, size) # {}
<1> DEFINE n == AlignUp(ToClaim(align, size), MallocAlign)
           have == SizeOf(h.words, f)
           b == Bucket(have)
<1>1. n \in Nat /\ n - 8 >= size + 4 + IF align > 2 THEN align ELSE 0
  BY ClaimIs
<1>2. /\ f \in Frees(h.words, S) /\ have >= n - 8
      /\ b \in h.used /\ h.lists[b] # <<>> /\ Head(h.lists[b]) = f
  BY DEF FirstFree
<1>3. f \in Nat /\ have \in Nat /\ have >= 4
  <2>1. Tiles(h.words, S, Begins(h.roots), Ends(h.roots)) /\ f \in S
    BY <1>2, HeapFacts DEF Frees
  <2> QED
    BY <2>1, Neighbours
<1> HIDE DEF n, have
<1>4. Fits(h, f, align, size)
  <2>1. Payload(f, align) \in Nat /\ Payload(f, align) < f + 1 + align
    <3>1. f + 1 \in Nat /\ align \in Nat \ {0}
      BY <1>3 DEF MallocAlign
    <3> QED
      BY <3>1, Aligned DEF Payload
  <2>2. Payload(f, align) + size <= f + have - 1
    <3>1. CASE align > 2
      BY <1>1, <1>2, <1>3, <2>1, <3>1
    <3>2. CASE align = 2
      BY <1>1, <1>2, <1>3, <2>1, <3>2
    <3> QED
      BY <3>1, <3>2 DEF MallocAlign
  <2> QED
    BY <2>2 DEF Fits, have
<1>5. b >= compute_free_list_bucket(4 * size)
  <2> DEFINE k == compute_free_list_bucket(4 * size)
  <2>1. InBucket(b, 4 * (have - 2)) /\ b \in 0..63
    BY <1>3, BucketOf
  <2>2. InBucket(k, 4 * size)
    BY WhichBucket DEF Header
  <2>3. 4 * size \in Nat /\ 4 * (have - 2) \in Nat /\ 4 * size <= 4 * (have - 2)
    BY <1>1, <1>2, <1>3
  <2>4. k \in 0..63
    BY <2>2 DEF InBucket
  <2> HIDE DEF k, b
  <2>5. k <= b
    BY <2>1, <2>2, <2>3, BucketsRise
  <2> QED
    BY <2>1, <2>4, <2>5 DEF k
<1>6. b \in Serving(h, align, size)
  BY <1>2, <1>4, <1>5 DEF Serving, Candidates
<1> QED
  BY <1>6

\* A call that gets a block has made one claim at most.
LEMMA ServeClaim ==
  ASSUME NEW t \in Threads, CallOK(call[t]), call = [u \in Threads |-> call[u]],
         call[t].claims \in {0, 1}, NEW h, NEW r, Serve(t, h, r)
  PROVE  ClaimOK(call', lock', heap', t)
<1>1. CASE call[t].old = 0
  BY <1>1 DEF Serve, Return, ClaimOK, Idle
<1>2. CASE call[t].old # 0
  <2>1. call[t] # Idle
    BY <1>2 DEF Idle
  <2>2. call'[t].at = "copied" /\ call'[t].claims = call[t].claims
    BY <1>2, <2>1 DEF Serve, Goto, CallOK
  <2> QED
    BY <2>2 DEF ClaimOK
<1> QED
  BY <1>1, <1>2

\* A call without claims that is not claiming has nothing to keep.
LEMMA NoClaim ==
  ASSUME NEW cl, NEW l, NEW h, NEW t, cl[t].claims = 0, cl[t].at # "claim"
  PROVE  ClaimOK(cl, l, h, t)
BY DEF ClaimOK

\* Without the lock nothing but the count of claims matters.
LEMMA NotLocked ==
  ASSUME NEW cl, NEW l, NEW h, NEW u, ClaimOK(cl, l, h, u), l # u
  PROVE  \A m, g : ClaimOK(cl, m, g, u)
BY DEF ClaimOK

\* Every step keeps LockInv: only the thread that has the lock claims memory.
LEMMA LockStep ==
  ASSUME HeapInv, LockInv, Next
  PROVE  LockInv'
<1>1. PICK S : StateOK(S)
  BY DEF HeapInv
<1>2. /\ HeapOK(heap, S) /\ call = [u \in Threads |-> call[u]]
      /\ \A u \in Threads : CallOK(call[u])
  BY <1>1 DEF StateOK, CallsOK
<1>3. \A u \in Threads : ClaimOK(call, lock, heap, u)
  BY DEF LockInv
<1>4. None \notin Threads
  BY EmmallocAssumption
<1>5. ASSUME NEW t \in Threads, lock = None \/ lock = t,
             \A u \in Threads \ {t} : call'[u] = call[u], ClaimOK(call', lock', heap', t)
      PROVE  LockInv'
  <2>1. ASSUME NEW u \in Threads, u # t
        PROVE  ClaimOK(call', lock', heap', u)
    <3>1. \A m, g : ClaimOK(call, m, g, u)
      BY <1>3, <1>4, <1>5, <2>1, NotLocked
    <3> QED
      BY <1>5, <2>1, <3>1 DEF ClaimOK
  <2> QED
    BY <1>5, <2>1 DEF LockInv
<1>6. ASSUME lock = None, call' = call
      PROVE  LockInv'
  BY <1>3, <1>4, <1>6, NotLocked DEF LockInv
<1>7. ASSUME NEW t \in Threads, Memalign(t)
      PROVE  LockInv'
  <2>1. /\ heap' = heap /\ lock' = lock
        /\ call'[t].claims = 0 /\ call'[t].at = "search"
        /\ \A u \in Threads \ {t} : call'[u] = call[u]
    BY <1>2, <1>7 DEF Memalign
  <2>2. ClaimOK(call', lock', heap', t)
    BY <2>1, NoClaim
  <2>3. ASSUME NEW u \in Threads, u # t
        PROVE  ClaimOK(call', lock', heap', u)
    BY <1>3, <2>1, <2>3 DEF ClaimOK
  <2> QED
    BY <2>2, <2>3 DEF LockInv
<1>8. ASSUME NEW t \in Threads, Search(t)
      PROVE  LockInv'
  <2> DEFINE c == call[t]
             found == Found(heap, c.align, c.size)
             h == AfterScan(heap, c.align, c.size)
  <2>1. c.at = "search" /\ (lock = None \/ lock = t)
    BY <1>8 DEF Search, InCall, Unlocked
  <2>2. CASE found # {}
    <3>1. PICK r \in found : Serve(t, h, r)
      BY <1>8, <2>2 DEF Search
    <3> HIDE DEF h, found
    <3>2. ClaimOK(call', lock', heap', t)
      <4>1. call[t].claims \in {0, 1}
        BY <1>3 DEF ClaimOK
      <4> QED
        BY <1>2, <3>1, <4>1, ServeClaim
    <3>3. \A u \in Threads \ {t} : call'[u] = call[u]
      BY <1>2, <3>1 DEF Serve, Return, Goto
    <3> QED
      BY <1>5, <2>1, <3>2, <3>3
  <2>3. CASE found = {}
    <3>1. Goto(t, "claim") /\ lock' = t
      BY <1>8, <2>3 DEF Search
    <3>2. c.claims = 0
      <4>1. Serving(heap, c.align, c.size) = {}
        BY <2>3 DEF Found
      <4> QED
        BY <1>3, <2>1, <4>1 DEF ClaimOK
    <3>3. c # Idle
      BY <2>1 DEF Idle
    <3>4. call'[t].at = "claim" /\ call'[t].claims = 0
      BY <1>2, <3>1, <3>2, <3>3 DEF Goto, CallOK
    <3>5. \A u \in Threads \ {t} : call'[u] = call[u]
      BY <1>2, <3>1 DEF Goto
    <3>6. ClaimOK(call', lock', heap', t)
      BY <3>1, <3>4 DEF ClaimOK
    <3> QED
      BY <1>5, <2>1, <3>5, <3>6
  <2> QED
    BY <2>2, <2>3
<1>9. ASSUME NEW t \in Threads, ClaimMore(t)
      PROVE  LockInv'
  <2> DEFINE c == call[t]
             n == AlignUp(ToClaim(c.align, c.size), MallocAlign)
             fit == FirstFit(heap, LastTries(heap), c.align, c.size)
  <2>1. c.at = "claim" /\ c # Idle
    BY <1>9 DEF ClaimMore, InCall, Idle
  <2>2. lock = t /\ c.claims = 0
    BY <1>3, <2>1 DEF ClaimOK
  <2>3. c.align \in Nat /\ c.align >= MallocAlign /\ c.size \in Nat /\ c.size >= Header
    BY <1>2, <2>1 DEF CallOK
  <2>4. CASE ~SbrkFails(heap, n)
    <3>1. /\ heap' = Claim(heap, n) /\ lock' = lock
          /\ call' = [call EXCEPT ![t].at = "search", ![t].claims = @ + 1]
      BY <1>9, <2>4 DEF ClaimMore
    <3>2. /\ call'[t].at = "search" /\ call'[t].claims = 1
          /\ call'[t].align = c.align /\ call'[t].size = c.size
      <4>1. c \in [at : {"search", "claim", "copied", "dropping"}, align : Nat, size : Nat,
                   old : Nat, claims : Nat]
        BY <1>2, <2>1 DEF CallOK
      <4>2. call'[t] = [c EXCEPT !.at = "search", !.claims = @ + 1]
        BY <1>2, <3>1
      <4> HIDE DEF c
      <4>3. /\ call'[t].at = "search" /\ call'[t].claims = c.claims + 1
            /\ call'[t].align = c.align /\ call'[t].size = c.size
        BY <4>1, <4>2
      <4> QED
        BY <2>2, <4>3
    <3>3. n \in Nat /\ n >= 12
      <4> HIDE DEF c
      <4> QED
        BY <2>3, ClaimIs
    <3>4. heap.brk + n <= HeapMax
      <4> HIDE DEF n
      <4>1. heap.brk \in Nat /\ HeapMax \in Nat
        BY <1>2, BelowBreak, EmmallocAssumption
      <4> QED
        BY <2>4, <3>3, <4>1 DEF SbrkFails
    <3>5. PICK T, f : HeapOK(heap', T) /\ FirstFree(heap', T, f, n - 8)
      <4> HIDE DEF n
      <4> QED
        BY <1>2, <3>1, <3>3, <3>4, ClaimStep DEF Claimed, KeepsBlocks
    <3>6. Serving(heap', c.align, c.size) # {}
      <4> HIDE DEF c
      <4> QED
        BY <2>3, <3>5, ClaimServes
    <3>7. \A u \in Threads \ {t} : call'[u] = call[u]
      BY <1>2, <3>1
    <3>8. ClaimOK(call', lock', heap', t)
      <4> HIDE DEF c, n
      <4> QED
        BY <2>2, <3>1, <3>2, <3>6 DEF ClaimOK
    <3> QED
      BY <1>5, <2>2, <3>7, <3>8
  <2>5. CASE SbrkFails(heap, n) /\ fit # {}
    <3>1. PICK r \in fit : Serve(t, heap, r)
      BY <1>9, <2>5 DEF ClaimMore
    <3> HIDE DEF fit, n
    <3>2. ClaimOK(call', lock', heap', t)
      BY <1>2, <2>2, <3>1, ServeClaim
    <3>3. \A u \in Threads \ {t} : call'[u] = call[u]
      BY <1>2, <3>1 DEF Serve, Return, Goto
    <3> QED
      BY <1>5, <2>2, <3>2, <3>3
  <2>6. CASE SbrkFails(heap, n) /\ fit = {}
    <3>1. Return(t)
      BY <1>9, <2>6 DEF ClaimMore
    <3>2. call'[t] = Idle /\ \A u \in Threads \ {t} : call'[u] = call[u]
      BY <1>2, <3>1 DEF Return
    <3>3. ClaimOK(call', lock', heap', t)
      BY <3>2, NoClaim DEF Idle
    <3> QED
      BY <1>5, <2>2, <3>2, <3>3
  <2> QED
    BY <2>4, <2>5, <2>6
<1>10. ASSUME NEW t \in Threads, FreeOld(t)
       PROVE  LockInv'
  <2>1. /\ lock = None /\ call[t].at \in {"copied", "dropping"}
        /\ IF call[t].at = "copied" THEN Return(t)
           ELSE call' = [call EXCEPT ![t].at = "search", ![t].old = 0]
    BY <1>10 DEF FreeOld
  <2>2. \A u \in Threads \ {t} : call'[u] = call[u]
    BY <1>2, <2>1 DEF Return
  <2>3. call'[t].claims = 0 /\ call'[t].at # "claim"
    <3>1. CASE call[t].at = "copied"
      BY <1>2, <2>1, <3>1 DEF Return, Idle
    <3>2. CASE call[t].at = "dropping"
      <4>1. call[t] # Idle /\ call[t].claims = 0
        BY <1>3, <3>2 DEF Idle, ClaimOK
      <4> QED
        BY <1>2, <2>1, <3>2, <4>1 DEF CallOK
    <3> QED
      BY <2>1, <3>1, <3>2
  <2>4. ClaimOK(call', lock', heap', t)
    BY <2>3, NoClaim
  <2> QED
    BY <1>5, <2>1, <2>2, <2>4
<1>11. ASSUME NEW t \in Threads, Reallocate(t)
       PROVE  LockInv'
  <2>1. lock = None
    BY <1>11 DEF Reallocate
  <2>2. \/ call' = call
        \/ \E c : call' = [call EXCEPT ![t] = c] /\ c.claims = 0 /\ c.at # "claim"
    <3>1. PICK p \in DOMAIN held, a \in Aligns, n \in Sizes \ {0} :
             \/ call' = call
             \/ \E at \in {"search", "dropping"} :
                   call' = [call EXCEPT ![t] = [at |-> at, align |-> Max({a, MallocAlign}),
                               size |-> ValidSize(n), old |-> p, claims |-> 0]]
      BY <1>11 DEF Reallocate
    <3> DEFINE c(at) == [at |-> at, align |-> Max({a, MallocAlign}),
                         size |-> ValidSize(n), old |-> p, claims |-> 0]
    <3>2. \A at \in {"search", "dropping"} : c(at).claims = 0 /\ c(at).at # "claim"
      OBVIOUS
    <3>3. call' = call \/ \E at \in {"search", "dropping"} : call' = [call EXCEPT ![t] = c(at)]
      BY <3>1
    <3> HIDE DEF c
    <3> QED
      BY <3>2, <3>3
  <2>3. ASSUME NEW c, call' = [call EXCEPT ![t] = c], c.claims = 0, c.at # "claim"
        PROVE  LockInv'
    <3>1. call'[t] = c /\ \A u \in Threads \ {t} : call'[u] = call[u]
      BY <1>2, <2>3
    <3>2. ClaimOK(call', lock', heap', t)
      BY <2>3, <3>1, NoClaim
    <3> QED
      BY <1>5, <2>1, <3>1, <3>2
  <2> QED
    BY <1>6, <2>1, <2>2, <2>3
<1>12. ASSUME NEW t \in Threads, BlankSlate(t)
       PROVE  LockInv'
  <2>1. \A u \in Threads : call'[u].claims = 0 /\ call'[u].at # "claim"
    BY <1>12 DEF BlankSlate, Idle
  <2> QED
    BY <2>1, NoClaim DEF LockInv
<1>13. CASE ForeignSbrk
  <2>1. heap' = [heap EXCEPT !.brk = @ + ForeignSize] /\ lock' = lock /\ call' = call
    BY <1>13 DEF ForeignSbrk
  <2>2. heap'.words = heap.words /\ heap'.lists = heap.lists /\ heap'.used = heap.used
    BY <1>2, <2>1 DEF HeapOK, IsHeap
  <2>3. \A align, size : Serving(heap', align, size) = Serving(heap, align, size)
    BY <2>2 DEF Serving, Candidates, Fits
  <2> QED
    BY <1>3, <2>1, <2>3 DEF LockInv, ClaimOK
<1>14. ASSUME NEW t \in Threads, Free(t) \/ Trim(t)
       PROVE  LockInv'
  BY <1>6, <1>14 DEF Free, Trim
<1> QED
  BY <1>7, <1>8, <1>9, <1>10, <1>11, <1>12, <1>13, <1>14, Zenon DEF Next

\* Nobody claims memory at first.
LEMMA LockInit == Init => LockInv
BY DEF Init, LockInv, ClaimOK, Idle

\* LockInv is kept, stuttering included.
LEMMA LockInvStep == HeapInv /\ LockInv /\ [Next]_vars => LockInv'
<1> SUFFICES ASSUME HeapInv, LockInv, [Next]_vars PROVE LockInv'
  OBVIOUS
<1>1. CASE Next
  BY <1>1, LockStep
<1>2. CASE UNCHANGED vars
  BY <1>2 DEF LockInv, ClaimOK, vars
<1> QED
  BY <1>1, <1>2

\* LockInv implies the property.
LEMMA LockShows == LockInv => ClaimSuffices
BY DEF LockInv, ClaimOK, ClaimSuffices

\* A call never claims memory twice: what claim_more_memory adds holds the
\* block, whatever the alignment and the regions around (emmalloc.c:776).
THEOREM OneClaimEnough == Spec /\ []TrimsSafe => []ClaimSuffices
BY HeapInvariant, LockInit, LockInvStep, LockShows, PTL DEF Spec

-----------------------------------------------------------------------------
(***************************************************************************)
(* The refinement                                                          *)
(***************************************************************************)
\* The blocks as the headers say they are are the blocks the program holds.
RoomOK == room = [p \in DOMAIN held |-> SizeOf(heap.words, p - 1) - Header]

\* The used regions are the blocks that the program holds.
LEMMA RoomIs == HeapInv => RoomOK
<1> SUFFICES ASSUME HeapInv PROVE RoomOK
  OBVIOUS
<1>1. PICK S : HeapOK(heap, S) /\ HeldOK(heap, S, held)
  BY DEF HeapInv, StateOK
<1>2. \A r : r \in UsedRegions <=> r \in UsedIn(heap, S)
  BY <1>1, InnerIs
<1>3. \A p \in DOMAIN held : p \in Nat /\ p - 1 \in UsedIn(heap, S)
  BY <1>1 DEF HeldOK
<1>4. \A r \in UsedIn(heap, S) : r + 1 \in DOMAIN held
  BY <1>1 DEF HeldOK
<1>5. {r + 1 : r \in UsedRegions} = DOMAIN held
  <2>1. ASSUME NEW p \in DOMAIN held
        PROVE  p \in {r + 1 : r \in UsedRegions}
    <3>1. p - 1 \in UsedRegions /\ p = (p - 1) + 1
      BY <1>2, <1>3
    <3> QED
      BY <3>1
  <2> QED
    BY <1>2, <1>4, <2>1
<1> QED
  BY <1>5 DEF RoomOK, room

\* Blocks lie apart, and are as large and as aligned as the program asked for.
LEMMA WellFormedBlocks == HeapInv => Allocator!WellFormed
<1> SUFFICES ASSUME HeapInv PROVE Allocator!WellFormed
  OBVIOUS
<1>1. PICK S : HeapOK(heap, S) /\ HeldOK(heap, S, held)
  BY DEF HeapInv, StateOK
<1> DEFINE ws == heap.words
<1>2. room = [p \in DOMAIN held |-> SizeOf(ws, p - 1) - Header]
  BY RoomIs DEF RoomOK
<1>3. ASSUME NEW p \in DOMAIN held
      PROVE  /\ p \in Nat /\ p - 1 \in S /\ p - 1 \in Nat /\ SizeOf(ws, p - 1) \in Nat
             /\ held[p].size \in Nat /\ held[p].size + Header <= SizeOf(ws, p - 1)
             /\ p % held[p].align = 0 /\ NextRegion(ws, p - 1) = (p - 1) + SizeOf(ws, p - 1)
  <2>1. p \in Nat /\ p - 1 \in UsedIn(heap, S)
    BY <1>1 DEF HeldOK
  <2>2. p - 1 \in S /\ p - 1 \in Nat /\ SizeOf(ws, p - 1) \in Nat
    BY <1>1, <2>1, UsedIs
  <2> QED
    BY <1>1, <2>1, <2>2 DEF HeldOK, NextRegion
<1>4. \A r, s \in S : r < s => NextRegion(ws, r) <= s
  BY <1>1 DEF HeapOK, Tiles
<1> HIDE DEF ws
<1>5. ASSUME NEW p \in DOMAIN held
      PROVE  room[p] >= held[p].size /\ p % held[p].align = 0
  BY <1>2, <1>3 DEF Header
<1>6. ASSUME NEW p \in DOMAIN held, NEW q \in DOMAIN held, p < q
      PROVE  p + room[p] + 2 <= q
  <2>1. p - 1 < q - 1
    BY <1>3, <1>6
  <2>2. NextRegion(ws, p - 1) <= q - 1
    BY <1>3, <1>4, <2>1
  <2> QED
    BY <1>2, <1>3, <2>2 DEF Header
<1> QED
  BY <1>2, <1>5, <1>6 DEF Allocator!WellFormed, Allocator!Blocks

\* A step of the allocator is a step of the abstract one, or changes no block.
LEMMA StepMaps ==
  ASSUME HeapInv, HeapInv', RoomOK, RoomOK', Allocator!WellFormed', Steps
  PROVE  [Allocator!Next]_(Allocator!vars)
<1> DEFINE ws == heap.words
           w == heap'.words
<1>1. /\ room = [p \in DOMAIN held |-> SizeOf(ws, p - 1) - Header]
      /\ room' = [p \in DOMAIN held' |-> SizeOf(w, p - 1) - Header]
  BY DEF RoomOK
<1>2. \A p \in DOMAIN held : SizeOf(ws, p - 1) \in Nat
  <2>1. PICK S : HeapOK(heap, S) /\ HeldOK(heap, S, held)
    BY DEF HeapInv, StateOK
  <2> QED
    BY <2>1, UsedIs DEF HeldOK
<1>3. \A p \in DOMAIN held' : SizeOf(w, p - 1) \in Nat
  <2>1. PICK S : HeapOK(heap', S) /\ HeldOK(heap', S, held')
    BY DEF HeapInv, StateOK
  <2> QED
    BY <2>1, UsedIs DEF HeldOK
<1>4. ASSUME NEW p, Keeping(heap, held, heap', held', p)
      PROVE  Allocator!KeepsAllBut(p)
  <2>1. \A q \in DOMAIN held \ {p} : /\ q \in DOMAIN held' /\ held'[q] = held[q]
                                     /\ SizeOf(w, q - 1) >= SizeOf(ws, q - 1)
    BY <1>4 DEF Keeping
  <2> HIDE DEF w, ws
  <2>2. \A q \in DOMAIN held \ {p} : room'[q] >= room[q]
    BY <1>1, <1>2, <1>3, <2>1 DEF Header
  <2> QED
    BY <2>1, <2>2 DEF Allocator!KeepsAllBut, Allocator!Blocks
<1>5. CASE /\ held' = held
           /\ \A q \in DOMAIN held : SizeOf(w, q - 1) = SizeOf(ws, q - 1)
  <2> HIDE DEF w, ws
  <2>1. room' = room
    BY <1>1, <1>5
  <2> QED
    BY <1>5, <2>1 DEF Allocator!vars
<1>6. CASE \E p \in DOMAIN held' \ DOMAIN held :
              /\ DOMAIN held' = DOMAIN held \union {p}
              /\ Keeping(heap, held, heap', held', p)
  <2>1. Allocator!Allocate
    BY <1>4, <1>6 DEF Allocator!Allocate, Allocator!Blocks
  <2> QED
    BY <2>1 DEF Allocator!Next
<1>7. CASE \E p \in DOMAIN held : /\ DOMAIN held' = DOMAIN held \ {p}
                                  /\ Keeping(heap, held, heap', held', p)
  <2>1. Allocator!Release
    BY <1>4, <1>7 DEF Allocator!Release, Allocator!Blocks
  <2> QED
    BY <2>1 DEF Allocator!Next
<1>8. CASE \E p \in DOMAIN held : /\ DOMAIN held' = DOMAIN held
                                  /\ Keeping(heap, held, heap', held', p)
  <2>1. Allocator!Resize
    BY <1>4, <1>8 DEF Allocator!Resize, Allocator!Blocks
  <2> QED
    BY <2>1 DEF Allocator!Next
<1> QED
  BY <1>5, <1>6, <1>7, <1>8 DEF Steps, StepOK

\* The same for every step.
LEMMA NextMaps ==
  ASSUME HeapInv, HeapInv', RoomOK, RoomOK', Allocator!WellFormed', TrimsSafe, [Next]_vars
  PROVE  [Allocator!Next]_(Allocator!vars)
<1>1. CASE Next
  <2>1. Steps
    BY <1>1, NextSteps
  <2> QED
    BY <2>1, StepMaps
<1>2. CASE UNCHANGED vars
  <2>1. heap' = heap /\ held' = held
    BY <1>2 DEF vars
  <2> QED
    BY <2>1 DEF RoomOK, Allocator!vars
<1> QED
  BY <1>1, <1>2

\* The program holds no block at first.
LEMMA InitMaps == Init => Allocator!Init
<1> SUFFICES ASSUME Init PROVE Allocator!Init
  OBVIOUS
<1>1. Allocator!WellFormed
  BY HeapInvInit, WellFormedBlocks
<1>2. DOMAIN held = {}
  BY DEF Init
<1> QED
  BY <1>1, <1>2 DEF Allocator!Init, Allocator!Blocks

\* The program sees an allocator: a block it holds is as large and as aligned
\* as it asked for, apart from the others, and no call on another block takes
\* any of it away (HeapAllocator).
THEOREM AllocatorImplemented == Spec /\ []TrimsSafe => ImplementsAllocator
<1>1. HeapInv' => RoomOK' /\ Allocator!WellFormed'
  BY RoomIs, WellFormedBlocks, PTL
<1>2. HeapInv /\ TrimsSafe /\ [Next]_vars => [Allocator!Next]_(Allocator!vars)
  BY <1>1, HeapInvStep, RoomIs, NextMaps
<1> QED
  BY <1>2, HeapInvariant, InitMaps, PTL DEF Spec, ImplementsAllocator, Allocator!Spec

-----------------------------------------------------------------------------
(***************************************************************************)
(* Programs for which every malloc_trim is safe                            *)
(***************************************************************************)
\* The program asks malloc_trim for a pad of 5 to 8 bytes, or never calls it.
HeaderPads == \A bytes \in Pads : AlignUp(bytes, 4) \div 4 = Header

\* The last region is large enough for such a pad.
LEMMA HeaderPadsSafe ==
  ASSUME HeaderPads
  PROVE  HeapInv => TrimsSafe
<1> SUFFICES ASSUME HeapInv, Contiguous(heap)
             PROVE  Header + 1 # SizeOf(heap.words, LastRegion(heap))
  BY DEF TrimsSafe, HeaderPads, Header
<1>1. PICK S : HeapOK(heap, S)
  BY DEF HeapInv, StateOK
<1>2. /\ SizeOf(heap.words, heap.brk - 1) = 4
      /\ PrevRegion(heap.words, heap.brk - 4) \in S
  BY <1>1, Top
<1>3. LastRegion(heap) \in S
  BY <1>2 DEF LastRegion, Contiguous
<1>4. RegionOK(heap.words, LastRegion(heap))
  BY <1>1, <1>3, HeapFacts DEF Tiles
<1> QED
  BY <1>4 DEF RegionOK, Region, Header

\* For those programs the allocator is correct without a condition on its states:
\* the heap is tiled, free neighbours are merged, the lists are exact, one claim is
\* enough for a call, and the program sees what HeapAllocator promises.
THEOREM AllocatorCorrect ==
  ASSUME HeaderPads
  PROVE  Spec => /\ [](RegionsTile /\ NoFreeNeighbours /\ FreeListsExact /\ ClaimSuffices)
                 /\ ImplementsAllocator
<1>1. HeapInv => TrimsSafe
  BY HeaderPadsSafe
<1>2. HeapInv /\ [Next]_vars => HeapInv'
  BY <1>1, HeapInvStep
<1>3. Spec => []TrimsSafe
  BY <1>1, <1>2, HeapInvInit, PTL DEF Spec
<1> QED
  BY <1>3, HeapTiled, FreeMerged, ListsExact, OneClaimEnough, AllocatorImplemented, PTL
=============================================================================
