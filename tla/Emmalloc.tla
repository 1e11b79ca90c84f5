----------------------------- MODULE Emmalloc -----------------------------
(***************************************************************************)
(* The allocator of system/lib/emmalloc.c over the sbrk() of               *)
(* system/lib/libc/sbrk.c, in 32-bit builds.  Addresses and sizes count    *)
(* words of sizeof(size_t) = 4 bytes: a header is 2 words,                 *)
(* sizeof(Region) is 4, MALLOC_ALIGNMENT is 2.                             *)
(*                                                                         *)
(* heap.words holds the headers only: the word at the bottom and the word  *)
(* at the ceiling of each region.  Every other word is payload or what an  *)
(* old header left behind, which the program may overwrite; the allocator  *)
(* has no business reading it, and reads 0 there in this model.            *)
(*                                                                         *)
(* An operation that holds the spinlock all along is one step, except that *)
(* claiming more memory is a step of its own: sbrk() does not take the     *)
(* lock, so other code may call it in between.  realloc releases the lock  *)
(* before it allocates and before it frees.                                *)
(***************************************************************************)
EXTENDS Integers, Sequences, FiniteSets, FiniteSetsExt, Functions, TLC

CONSTANTS
    Threads,
    HeapBase,       \* where the program break starts
    HeapMax,        \* how far emscripten_resize_heap lets it go
    Sizes,          \* the sizes asked for, in bytes
    Aligns,         \* the alignments asked for
    Pads,           \* the arguments of malloc_trim, in bytes
    SmallBuckets,   \* how many buckets are too small for more than one try: 30
    MaxTries,       \* maxRegionsToTryBeforeGivingUp: 99
    MaxBlocks,      \* bound: the blocks the program holds at a time
    MaxForeign      \* bound: the sbrk() calls of other code

Header == 2
Region == 4
MallocAlign == 2
ForeignSize == 2

None == "none"

ASSUME EmmallocAssumption ==
    /\ None \notin Threads
    /\ HeapBase \in Nat \ {0} /\ HeapBase % MallocAlign = 0
    /\ HeapMax \in 0..2 ^ 30 /\ {SmallBuckets, MaxTries, MaxForeign} \subseteq Nat
    /\ Sizes \subseteq Nat /\ Pads \subseteq Nat
    /\ \A a \in Aligns : \E k \in 0..20 : a = 2 ^ k

VARIABLES
    heap,           \* headers, free lists, their bits, root regions, program break
    lock,           \* the thread that holds multithreadingLock, or None
    call,           \* call[t]: the call a thread is in, or Idle
    held,           \* held[p]: the size and alignment the program asked for at p
    foreign         \* how often other code has called sbrk()

vars == <<heap, lock, call, held, foreign>>

Idle == [at |-> "idle", align |-> 0, size |-> 0, old |-> 0, claims |-> 0]

AlignUp(x, a) == ((x + a - 1) \div a) * a
AlignDown(x, a) == (x \div a) * a

\* What the program asks for, in words.
ValidSize(bytes) == Max({Header, AlignUp(bytes, 4) \div 4})

Log2(n) == CHOOSE k \in 0..30 : 2 ^ k <= n /\ (k = 30 \/ n < 2 ^ (k + 1))

\* In bytes.  29 - clz is Log2 - 2, and the xor takes the leading bit away.
compute_free_list_bucket(bytes) ==
    IF bytes < 128 THEN bytes \div 8 - 1
    ELSE IF bytes >= 2 ^ 27 THEN 63
    ELSE LET k == Log2(bytes)
         IN  IF k < 12 THEN 4 * k - 14 + (bytes \div 2 ^ (k - 2) - 4)
             ELSE 2 * k + 9 + (bytes \div 2 ^ (k - 1) - 2)

\* Mutant: counts the headers as payload.
Bucket_MutantHeaders(size) == compute_free_list_bucket(4 * size)

\* The bucket of a region.
Bucket(size) == compute_free_list_bucket(4 * (size - Header))
Buckets == {Bucket(n) : n \in Region..HeapMax}

-----------------------------------------------------------------------------
(* Regions *)

Word(ws, a) == IF a \in DOMAIN ws THEN ws[a] ELSE [size |-> 0, free |-> FALSE]
SizeOf(ws, r) == Word(ws, r).size
NextRegion(ws, r) == r + SizeOf(ws, r)
PrevRegion(ws, r) == r - SizeOf(ws, r - 1)
Ceiling(ws, r) == Word(ws, NextRegion(ws, r) - 1)
IsFree(ws, r) == Ceiling(ws, r).free
Consistent(ws, r) == SizeOf(ws, r) = Ceiling(ws, r).size

\* Write the two headers of a region; what it covers stops to be headers.
WriteRegion(ws, r, size, free) ==
    [a \in (DOMAIN ws \ (r..(r + size - 1))) \union {r, r + size - 1} |->
        IF a = r THEN [size |-> size, free |-> FALSE]
        ELSE IF a = r + size - 1 THEN [size |-> size, free |-> free] ELSE ws[a]]

CreateUsed(h, r, size) == [h EXCEPT !.words = WriteRegion(@, r, size, FALSE)]
CreateFree(h, r, size) == [h EXCEPT !.words = WriteRegion(@, r, size, TRUE)]

\* A free list without region r.
Without(list, r) ==
    IF \E i \in DOMAIN list : list[i] = r
    THEN LET i == CHOOSE i \in DOMAIN list : list[i] = r
         IN  SubSeq(list, 1, i - 1) \o SubSeq(list, i + 1, Len(list))
    ELSE list

\* The doubly linked list is left by its neighbours, whatever bucket it is in.
Unlink(h, r) == [h EXCEPT !.lists = [b \in Buckets |-> Without(h.lists[b], r)]]

Link(h, r) ==
    LET b == Bucket(SizeOf(h.words, r))
    IN  [h EXCEPT !.lists[b] = <<r>> \o @, !.used = @ \union {b}]

CreateAndLink(h, r, size) == Link(CreateFree(h, r, size), r)

-----------------------------------------------------------------------------
(* claim_more_memory *)

SbrkFails(h, n) == h.brk + n > HeapMax

\* Mutant: takes memory after a gap for more of the last root region.
Contiguous_MutantGap(h) == h.roots # <<>> /\ Head(h.roots).end <= h.brk

Contiguous(h) == h.roots # <<>> /\ Head(h.roots).end = h.brk

\* The sbrk() succeeds; n is aligned like the break.
Claim(h, n) ==
    LET start == h.brk
        end == start + n
        h1 == CreateUsed([h EXCEPT !.brk = end], end - Region, Region)
        last == PrevRegion(h1.words, PrevRegion(h1.words, start))
        h2 == [h1 EXCEPT !.roots[1].end = end]
        h3 == [CreateUsed(h1, start, Region) EXCEPT
                  !.roots = <<[start |-> start, end |-> end]>> \o @]
    IN  IF Contiguous(h) /\ IsFree(h1.words, last)
        THEN CreateAndLink(Unlink(h2, last), last, end - Region - last)
        ELSE IF Contiguous(h)
        THEN CreateAndLink(h2, start - Region, end - start)
        ELSE CreateAndLink(h3, start + Region, end - start - 2 * Region)

-----------------------------------------------------------------------------
(* allocate_memory *)

Payload(r, align) == AlignUp(r + 1, align)

\* Mutant: leaves no room for the alignment.
Fits_MutantUnaligned(h, r, align, size) == Header + size <= SizeOf(h.words, r)

Fits(h, r, align, size) ==
    Payload(r, align) + size <= r + SizeOf(h.words, r) - 1

\* attempt_allocate, when the free region r fits.
Carve(h, r, align, size) ==
    LET bump == Payload(r, align) - (r + 1)
        prev == PrevRegion(h.words, r)
        room == SizeOf(h.words, r) - bump
        new == r + bump
        h1 == Unlink(h, r)
        h2 == IF bump = 0 THEN h1 ELSE CreateUsed(h1, prev, SizeOf(h.words, prev) + bump)
    IN  IF Region + Header + size <= room
        THEN CreateUsed(CreateAndLink(h2, new + Header + size, room - size - Header),
                        new, size + Header)
        ELSE CreateUsed(h2, new, room)

\* The buckets that may hold a region of the size, the ones where the first
\* region serves the call, and the ones looked at before that.
Candidates(h, size) == {b \in h.used : b >= compute_free_list_bucket(4 * size)}
Serving(h, align, size) ==
    {b \in Candidates(h, size) : /\ h.lists[b] # <<>>
                                 /\ Fits(h, Head(h.lists[b]), align, size)}
Passed(h, align, size) ==
    {b \in Candidates(h, size) : \A s \in Serving(h, align, size) : b < s}

\* A region that does not fit goes to the end of its list, and the bit of an
\* empty bucket is cleared.
AfterScan(h, align, size) ==
    LET passed == Passed(h, align, size)
    IN  [h EXCEPT
           !.lists = [b \in Buckets |->
                        IF b \in passed /\ h.lists[b] # <<>>
                        THEN Append(Tail(h.lists[b]), Head(h.lists[b])) ELSE h.lists[b]],
           !.used = {b \in @ : ~(b \in passed /\ h.lists[b] = <<>>)}]

\* The regions of the largest bucket in use.
Largest(h) == IF h.used = {} THEN <<>> ELSE h.lists[Max(h.used)]
LooksAtMore(h) == \E b \in h.used : b >= SmallBuckets

\* The first region of a list that fits: a set of at most one.
FirstFit(h, rs, align, size) ==
    {rs[i] : i \in {i \in DOMAIN rs : /\ Fits(h, rs[i], align, size)
                                    /\ \A j \in 1..(i - 1) : ~Fits(h, rs[j], align, size)}}

\* The first regions of that bucket, tried before more memory is claimed, and
\* the rest, tried when none can be claimed.
FirstTries(h) ==
    IF LooksAtMore(h) THEN SubSeq(Largest(h), 1, Min({MaxTries, Len(Largest(h))})) ELSE <<>>
LastTries(h) == SubSeq(Largest(h), Len(FirstTries(h)) + 1, Len(Largest(h)))

\* The region that serves the call without claiming memory: a set of at most one.
Found(h, align, size) ==
    LET s == Serving(h, align, size)
    IN  IF s # {} THEN {Head(h.lists[Min(s)])}
        ELSE FirstFit(h, FirstTries(AfterScan(h, align, size)), align, size)

\* Mutant: leaves no room for the alignment.
ToClaim_MutantUnaligned(align, size) == size + 3 * Region

ToClaim(align, size) ==
    size + 3 * Region + IF align > MallocAlign THEN align ELSE 0

-----------------------------------------------------------------------------
(* free and resize *)

\* Mutant: looks for the flag in the header at the bottom.
LeftIsFree_MutantBottom(ws, r) == Word(ws, PrevRegion(ws, r)).free

LeftIsFree(ws, r) == Word(ws, r - 1).free

Release(h, p) ==
    LET r == p - 1
        ws == h.words
        prev == PrevRegion(ws, r)
        next == NextRegion(ws, r)
        left == LeftIsFree(ws, r)
        right == IsFree(ws, next)
        h1 == IF left THEN Unlink(h, prev) ELSE h
        h2 == IF right THEN Unlink(h1, next) ELSE h1
        start == IF left THEN prev ELSE r
        end == IF right THEN NextRegion(ws, next) ELSE next
    IN  CreateAndLink(h2, start, end - start)

\* attempt_region_resize: the heap it leaves and whether it succeeds.
Resize(h, r, size) ==
    LET ws == h.words
        next == NextRegion(ws, r)
        end == NextRegion(ws, next)
    IN  IF IsFree(ws, next) /\ r + size + Region <= end
        THEN [ok |-> TRUE,
              heap |-> CreateUsed(CreateAndLink(Unlink(h, next), r + size, end - r - size),
                                  r, size)]
        ELSE IF IsFree(ws, next) /\ r + size <= end
        THEN [ok |-> TRUE, heap |-> CreateUsed(Unlink(h, next), r, end - r)]
        ELSE IF ~IsFree(ws, next) /\ size + Region <= SizeOf(ws, r)
        THEN [ok |-> TRUE,
              heap |-> CreateAndLink(CreateUsed(h, r, size), r + size, SizeOf(ws, r) - size)]
        ELSE [ok |-> ~IsFree(ws, next) /\ size <= SizeOf(ws, r), heap |-> h]

-----------------------------------------------------------------------------
(* malloc_trim *)

Wrap(x) == x % 2 ^ 30   \* size_t, in words
LastRegion(h) ==
    LET end == Head(h.roots).end
    IN  PrevRegion(h.words, end - SizeOf(h.words, end - 1))

\* The words that malloc_trim gives back; 0 when it returns early.
Shrink(h, pad) ==
    LET size == SizeOf(h.words, LastRegion(h))
    IN  IF ~IsFree(h.words, LastRegion(h)) \/ pad >= size THEN 0
        ELSE AlignDown(Wrap(size - pad - Header), MallocAlign)

\* A negative break is refused, and the sentinel reaches up to where it is.
Trimmed(h, pad) ==
    LET last == LastRegion(h)
        n == Shrink(h, pad)
        left == Wrap(SizeOf(h.words, last) - n)
        brk == IF n <= h.brk THEN h.brk - n ELSE h.brk
        h1 == Unlink(h, last)
        h2 == IF left >= Region THEN CreateAndLink(h1, last, left) ELSE h1
        h3 == [h2 EXCEPT !.brk = brk, !.roots[1].end = brk,
                         !.words = [a \in {b \in DOMAIN @ : b < brk} |-> @[a]]]
        sentinel == last + IF left >= Region THEN left ELSE 0
    IN  CreateUsed(h3, sentinel, brk - sentinel)

-----------------------------------------------------------------------------
(* The calls *)

NoHeap(brk) ==
    [words |-> <<>>, lists |-> [b \in Buckets |-> <<>>], used |-> {}, roots |-> <<>>,
     brk |-> brk]

\* initialize_emmalloc_heap
Initialize(brk) ==
    IF SbrkFails(NoHeap(brk), 3 * Region) THEN NoHeap(brk) ELSE Claim(NoHeap(brk), 3 * Region)

Init ==
    /\ heap = Initialize(HeapBase)
    /\ lock = None
    /\ call = [t \in Threads |-> Idle]
    /\ held = <<>>
    /\ foreign = 0

Unlocked(t) == lock \in {None, t}
InCall(t, at) == call[t].at = at /\ Unlocked(t)
Return(t) == call' = [call EXCEPT ![t] = Idle]
Goto(t, at) == call' = [call EXCEPT ![t].at = at]

\* The program touches a block only while no call of another thread has it.
MayUse(p) == p \in DOMAIN held /\ \A t \in Threads : call[t].old # p
Pending == {t \in Threads : call[t].at \in {"resize", "search", "claim"}}
With(hd, p, size, align) ==
    [q \in DOMAIN hd \union {p} |-> IF q = p THEN [size |-> size, align |-> align] ELSE hd[q]]
Hold(p, size, align) == held' = With(held, p, size, align)
Drop(p) == held' = [q \in DOMAIN held \ {p} |-> held[q]]

\* malloc, memalign, calloc, posix_memalign and aligned_alloc come here.
Memalign(t) ==
    /\ call[t] = Idle
    /\ Cardinality(DOMAIN held) + Cardinality(Pending) < MaxBlocks
    /\ \E a \in Aligns, n \in Sizes :
          call' = [call EXCEPT ![t] = [at |-> "search", align |-> Max({a, MallocAlign}),
                                       size |-> ValidSize(n), old |-> 0, claims |-> 0]]
    /\ UNCHANGED <<heap, lock, held, foreign>>

\* The call gets the block that the free region r makes.
Serve(t, h, r) ==
    /\ heap' = Carve(h, r, call[t].align, call[t].size)
    /\ Hold(Payload(r, call[t].align), call[t].size, call[t].align)
    /\ lock' = None
    /\ IF call[t].old = 0 THEN Return(t) ELSE Goto(t, "copied")

Search(t) ==
    /\ InCall(t, "search")
    /\ LET c == call[t]
           h == AfterScan(heap, c.align, c.size)
           found == Found(heap, c.align, c.size)
       IN  IF found # {} THEN \E r \in found : Serve(t, h, r)
           ELSE /\ heap' = h /\ lock' = t /\ Goto(t, "claim") /\ UNCHANGED held
    /\ UNCHANGED foreign

ClaimMore(t) ==
    /\ InCall(t, "claim")
    /\ LET c == call[t]
           n == AlignUp(ToClaim(c.align, c.size), MallocAlign)
           fit == FirstFit(heap, LastTries(heap), c.align, c.size)
       IN  IF ~SbrkFails(heap, n)
           THEN /\ heap' = Claim(heap, n)
                /\ call' = [call EXCEPT ![t].at = "search", ![t].claims = @ + 1]
                /\ UNCHANGED <<lock, held>>
           ELSE IF fit # {} THEN \E r \in fit : Serve(t, heap, r)
           ELSE lock' = None /\ Return(t) /\ UNCHANGED <<heap, held>>
    /\ UNCHANGED foreign

Free(t) ==
    /\ call[t] = Idle /\ lock = None
    /\ \E p \in DOMAIN held : MayUse(p) /\ heap' = Release(heap, p) /\ Drop(p)
    /\ UNCHANGED <<lock, call, foreign>>

\* realloc, realloc_try or realloc_uninitialized of a block at an alignment it
\* has: it is resized in place, or else realloc allocates before it frees and
\* realloc_uninitialized frees first; realloc_try gives up.
Reallocate(t) ==
    /\ call[t] = Idle /\ lock = None
    /\ \E p \in DOMAIN held, a \in Aligns, n \in Sizes \ {0} :
          LET align == Max({a, MallocAlign})
              size == ValidSize(n)
              resized == Resize(heap, p - 1, size + Header)
          IN  /\ MayUse(p) /\ p % align = 0
              /\ IF resized.ok
                 THEN heap' = resized.heap /\ Hold(p, size, align) /\ UNCHANGED call
                 ELSE /\ Cardinality(DOMAIN held) + Cardinality(Pending) < MaxBlocks
                      /\ \E at \in {"search", "dropping"} :
                            call' = [call EXCEPT ![t] = [at |-> at, align |-> align,
                                        size |-> size, old |-> p, claims |-> 0]]
                      /\ UNCHANGED <<heap, held>>
    /\ UNCHANGED <<lock, foreign>>

\* The contents are copied, or not to be kept, and the old block is freed.
FreeOld(t) ==
    /\ call[t].at \in {"copied", "dropping"} /\ lock = None
    /\ heap' = Release(heap, call[t].old)
    /\ Drop(call[t].old)
    /\ IF call[t].at = "copied" THEN Return(t)
       ELSE call' = [call EXCEPT ![t].at = "search", ![t].old = 0]
    /\ UNCHANGED <<lock, foreign>>

\* No sbrk() of other code may have come last: malloc_trim asserts it.
Trim(t) ==
    /\ call[t] = Idle /\ lock = None
    /\ heap.roots # <<>> /\ Head(heap.roots).end = heap.brk
    /\ \E bytes \in Pads :
          LET pad == AlignUp(bytes, 4) \div 4
          IN  Shrink(heap, pad) # 0 /\ heap' = Trimmed(heap, pad)
    /\ UNCHANGED <<lock, call, held, foreign>>

ForeignSbrk ==
    /\ foreign < MaxForeign /\ ~SbrkFails(heap, ForeignSize)
    /\ heap' = [heap EXCEPT !.brk = @ + ForeignSize]
    /\ foreign' = foreign + 1
    /\ UNCHANGED <<lock, call, held>>

\* emmalloc_blank_slate_from_orbit, when the program holds no block.
BlankSlate(t) ==
    /\ call = [u \in Threads |-> Idle] /\ held = <<>>
    /\ heap' = Initialize(heap.brk)
    /\ UNCHANGED <<lock, call, held, foreign>>

Next ==
    \/ \E t \in Threads :
          \/ Memalign(t) \/ Search(t) \/ ClaimMore(t) \/ Free(t) \/ FreeOld(t) \/ Trim(t)
          \/ Reallocate(t) \/ BlankSlate(t)
    \/ ForeignSbrk

Spec == Init /\ [][Next]_vars

-----------------------------------------------------------------------------
(* Properties *)

\* Where the regions of a root region start, by the sizes at their bottoms.
Regions(h, root) ==
    LET from[a \in root.start..root.end] ==
            LET size == SizeOf(h.words, a)
            IN  {a} \union IF size \in 1..(root.end - a) THEN from[a + size] ELSE {}
    IN  from[root.start]

AllRoots == Range(heap.roots)

\* The regions of the program's blocks: not the ones a root region begins and
\* ends with.
InnerRegions ==
    UNION {{r \in Regions(heap, root) :
               /\ r # root.start /\ r # root.end
               /\ NextRegion(heap.words, r) # root.end} : root \in AllRoots}
FreeRegions == {r \in InnerRegions : IsFree(heap.words, r)}
UsedRegions == {r \in InnerRegions : ~IsFree(heap.words, r)}

\* "Acquired memory blocks are subdivided into disjoint regions that lie next
\* to each other" (emmalloc.c:22): from the start of a root region the sizes
\* lead to its end, through regions whose two headers agree, that are large
\* enough for a Region and of which the first and the last are in use.  Root
\* regions do not overlap and end at the break at most.
RegionsTile ==
    /\ \A root \in AllRoots :
          LET rs == Regions(heap, root)
          IN  /\ root.end \in rs /\ root.end <= heap.brk
              /\ \A r \in rs \ {root.end} :
                    /\ Consistent(heap.words, r)
                    /\ SizeOf(heap.words, r) >= Region
                    /\ (r = root.start \/ NextRegion(heap.words, r) = root.end)
                          => ~IsFree(heap.words, r)
    /\ \A i, j \in DOMAIN heap.roots : i < j => heap.roots[j].end <= heap.roots[i].start

\* "Used regions may be adjacent [...] but not two unused ones - they would be
\* merged" (emmalloc.c:25), whichever of free, realloc, trim and a claim made
\* them neighbours.
NoFreeNeighbours ==
    LET rs == FreeRegions IN \A r \in rs : NextRegion(heap.words, r) \notin rs

\* The bounds of the buckets, as the comment at emmalloc.c:180 documents them.
BucketLow ==
    <<8, 16, 24, 32, 40, 48, 56, 64, 72, 80, 88, 96, 104, 112, 120, 160, 192, 224, 256,
      320, 384, 448, 512, 640, 768, 896, 1024, 1280, 1536, 1792, 2048, 2560, 3072, 3584,
      6144, 8192, 12288, 16384, 24576, 32768, 49152, 65536, 98304, 131072, 196608,
      262144, 393216, 524288, 786432, 1048576, 1572864, 2097152, 3145728, 4194304,
      6291456, 8388608, 12582912, 16777216, 25165824, 33554432, 50331648, 67108864,
      100663296, 134217728>>

\* The free lists hold every free region, once, in the bucket the table gives
\* its payload, and nothing else; a bucket that holds a region has its bit.
FreeListsExact ==
    /\ UNION {Range(heap.lists[b]) : b \in Buckets} = FreeRegions
    /\ \A b \in Buckets :
          /\ heap.lists[b] # <<>> => b \in heap.used
          /\ \A i \in DOMAIN heap.lists[b] :
                LET bytes == 4 * (SizeOf(heap.words, heap.lists[b][i]) - Header)
                IN  /\ BucketLow[b + 1] <= bytes /\ (b < 63 => bytes < BucketLow[b + 2])
                    /\ \A j \in DOMAIN heap.lists[b] : heap.lists[b][i] = heap.lists[b][j] => i = j

\* What a call claims is enough for it: once it has more memory, its second
\* search succeeds, whatever the alignment and the regions around (the comment
\* at emmalloc.c:776).
ClaimSuffices ==
    \A t \in Threads : /\ call[t].claims <= 1
                       /\ call[t].at = "claim" => call[t].claims = 0

\* The blocks as the headers in memory say they are.
room == [p \in {r + 1 : r \in UsedRegions} |-> SizeOf(heap.words, p - 1) - Header]
Allocator == INSTANCE HeapAllocator WITH need <- held

\* Whatever the headers say, the program sees an allocator: see HeapAllocator.
ImplementsAllocator == Allocator!Spec

=============================================================================
