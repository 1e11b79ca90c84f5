------------------------- MODULE EmmallocHeapProofs -------------------------
(***************************************************************************)
(* Lemmas about the heap of Emmalloc, for any heap: the regions that its   *)
(* headers describe tile the root regions, its lists hold the free ones,   *)
(* and every operation keeps that and the blocks it is not about.  A heap  *)
(* is given by the set S of the addresses at which its regions start.      *)
(***************************************************************************)
EXTENDS Emmalloc, SequenceTheorems, WellFoundedInduction, TLAPS

\* The two headers of a region agree.
RegionOK(ws, r) ==
    /\ SizeOf(ws, r) \in Nat /\ SizeOf(ws, r) >= Region
    /\ Consistent(ws, r) /\ IsFree(ws, r) \in BOOLEAN

\* The regions that start at S tile the root regions that start at B and end at E.
Tiles(ws, S, B, E) ==
    /\ S \subseteq Nat /\ B \subseteq S /\ E \subseteq Nat
    /\ \A r \in S : RegionOK(ws, r) /\ NextRegion(ws, r) \in (S \ B) \union E
    /\ \A r \in S \ B : \E p \in S : NextRegion(ws, p) = r
    /\ \A r, s \in S : r < s => NextRegion(ws, r) <= s
    /\ \A r \in B : ~IsFree(ws, r)
    /\ \A e \in E : /\ e \notin S /\ e - Region \in S \ B
                    /\ SizeOf(ws, e - Region) = Region /\ ~IsFree(ws, e - Region)
    /\ \A r \in S : IsFree(ws, r) => ~IsFree(ws, NextRegion(ws, r))

\* The headers of region r are the same in both memories.
Keeps(ws, w, r) == SizeOf(w, r) = SizeOf(ws, r) /\ Ceiling(w, r) = Ceiling(ws, r)

-----------------------------------------------------------------------------
\* What create_used_region and create_free_region write, and what they leave.
LEMMA WordsWritten ==
  ASSUME NEW ws, NEW r \in Nat, NEW n \in Nat, n >= 2, NEW f
  PROVE  /\ Word(WriteRegion(ws, r, n, f), r) = [size |-> n, free |-> FALSE]
         /\ Word(WriteRegion(ws, r, n, f), r + n - 1) = [size |-> n, free |-> f]
         /\ \A a \in Int : a < r \/ a >= r + n
               => Word(WriteRegion(ws, r, n, f), a) = Word(ws, a)
<1> DEFINE D == (DOMAIN ws \ (r..(r + n - 1))) \union {r, r + n - 1}
           w == WriteRegion(ws, r, n, f)
<1>1. w = [a \in D |-> IF a = r THEN [size |-> n, free |-> FALSE]
                       ELSE IF a = r + n - 1 THEN [size |-> n, free |-> f] ELSE ws[a]]
  BY DEF WriteRegion
<1>2. DOMAIN w = D /\ r \in D /\ r + n - 1 \in D /\ r + n - 1 # r
  BY <1>1
<1>3. w[r] = [size |-> n, free |-> FALSE] /\ w[r + n - 1] = [size |-> n, free |-> f]
  BY <1>1, <1>2
<1>4. ASSUME NEW a \in Int, a < r \/ a >= r + n
      PROVE  Word(w, a) = Word(ws, a)
  <2>1. (a \in D <=> a \in DOMAIN ws) /\ a # r /\ a # r + n - 1
    BY <1>4
  <2>2. a \in D => w[a] = ws[a]
    BY <1>1, <2>1
  <2> HIDE DEF w, D
  <2> QED
    BY <1>2, <2>1, <2>2 DEF Word
<1> HIDE DEF w, D
<1> QED
  BY <1>2, <1>3, <1>4 DEF Word, w

\* Regions beside one that is written are kept.
LEMMA Written ==
  ASSUME NEW ws, NEW r \in Nat, NEW n \in Nat, n >= Region, NEW f
  PROVE  \A s \in Nat : RegionOK(ws, s) /\ (s >= r + n \/ NextRegion(ws, s) <= r)
            => Keeps(ws, WriteRegion(ws, r, n, f), s)
<1> DEFINE w == WriteRegion(ws, r, n, f)
<1>1. n >= 2
  BY DEF Region
<1>2. /\ Word(w, r) = [size |-> n, free |-> FALSE]
      /\ Word(w, r + n - 1) = [size |-> n, free |-> f]
      /\ \A a \in Int : a < r \/ a >= r + n => Word(w, a) = Word(ws, a)
  BY <1>1, WordsWritten
<1> HIDE DEF w
<1>5. ASSUME NEW s \in Nat, RegionOK(ws, s), s >= r + n \/ NextRegion(ws, s) <= r
      PROVE  Keeps(ws, w, s)
  <2>1. SizeOf(ws, s) \in Nat /\ SizeOf(ws, s) >= 4 /\ NextRegion(ws, s) = s + SizeOf(ws, s)
    BY <1>5 DEF RegionOK, Region, NextRegion
  <2>2. Word(w, s) = Word(ws, s)
    BY <1>2, <1>5, <2>1
  <2>3. Word(w, NextRegion(ws, s) - 1) = Word(ws, NextRegion(ws, s) - 1)
    BY <1>2, <1>5, <2>1
  <2> QED
    BY <2>2, <2>3 DEF Keeps, SizeOf, Ceiling, NextRegion
<1> QED
  BY <1>5 DEF w

\* The same for a region that is free, and for one in use.
LEMMA WrittenFree ==
  ASSUME NEW ws, NEW r \in Nat, NEW n \in Nat, n >= Region
  PROVE  LET w == WriteRegion(ws, r, n, TRUE)
         IN  RegionOK(w, r) /\ SizeOf(w, r) = n /\ NextRegion(w, r) = r + n /\ IsFree(w, r)
<1>1. n >= 2
  BY DEF Region
<1> DEFINE w == WriteRegion(ws, r, n, TRUE)
<1>2. /\ Word(w, r) = [size |-> n, free |-> FALSE]
      /\ Word(w, r + n - 1) = [size |-> n, free |-> TRUE]
  <2>1. \A f : /\ Word(WriteRegion(ws, r, n, f), r) = [size |-> n, free |-> FALSE]
               /\ Word(WriteRegion(ws, r, n, f), r + n - 1) = [size |-> n, free |-> f]
    BY <1>1, WordsWritten
  <2> QED
    BY <2>1, Zenon
<1> HIDE DEF w
<1>3. SizeOf(w, r) = n /\ NextRegion(w, r) = r + n
  BY <1>2 DEF SizeOf, NextRegion
<1>4. Ceiling(w, r).size = n /\ Ceiling(w, r).free = TRUE
  BY <1>2, <1>3 DEF Ceiling
<1>5. RegionOK(w, r) /\ IsFree(w, r)
  BY <1>3, <1>4 DEF RegionOK, Consistent, IsFree
<1> QED
  BY <1>3, <1>5 DEF w

\* The same for a region in use.
LEMMA WrittenUsed ==
  ASSUME NEW ws, NEW r \in Nat, NEW n \in Nat, n >= Region
  PROVE  LET w == WriteRegion(ws, r, n, FALSE)
         IN  RegionOK(w, r) /\ SizeOf(w, r) = n /\ NextRegion(w, r) = r + n /\ ~IsFree(w, r)
<1>1. n >= 2
  BY DEF Region
<1> DEFINE w == WriteRegion(ws, r, n, FALSE)
<1>2. /\ Word(w, r) = [size |-> n, free |-> FALSE]
      /\ Word(w, r + n - 1) = [size |-> n, free |-> FALSE]
  <2>1. \A f : /\ Word(WriteRegion(ws, r, n, f), r) = [size |-> n, free |-> FALSE]
               /\ Word(WriteRegion(ws, r, n, f), r + n - 1) = [size |-> n, free |-> f]
    BY <1>1, WordsWritten
  <2> QED
    BY <2>1, Zenon
<1> HIDE DEF w
<1>3. SizeOf(w, r) = n /\ NextRegion(w, r) = r + n
  BY <1>2 DEF SizeOf, NextRegion
<1>4. Ceiling(w, r).size = n /\ Ceiling(w, r).free = FALSE
  BY <1>2, <1>3 DEF Ceiling
<1>5. RegionOK(w, r) /\ ~IsFree(w, r)
  BY <1>3, <1>4 DEF RegionOK, Consistent, IsFree
<1> QED
  BY <1>3, <1>5 DEF w

\* What is kept of a region.
LEMMA KeptRegion ==
  ASSUME NEW ws, NEW w, NEW r, Keeps(ws, w, r)
  PROVE  /\ SizeOf(w, r) = SizeOf(ws, r) /\ NextRegion(w, r) = NextRegion(ws, r)
         /\ IsFree(w, r) = IsFree(ws, r)
         /\ RegionOK(ws, r) => RegionOK(w, r)
BY DEF Keeps, NextRegion, IsFree, RegionOK, Consistent

\* Two writes: what the second keeps of what the first kept.
LEMMA KeptTwice ==
  ASSUME NEW ws, NEW w, NEW v, NEW r, Keeps(ws, w, r), Keeps(w, v, r)
  PROVE  Keeps(ws, v, r)
BY DEF Keeps

\* The region after a free one, and before one that does not begin a root region.
LEMMA Neighbours ==
  ASSUME NEW ws, NEW S, NEW B, NEW E, Tiles(ws, S, B, E), NEW r \in S
  PROVE  /\ r \in Nat /\ SizeOf(ws, r) \in Nat /\ SizeOf(ws, r) >= 4
         /\ NextRegion(ws, r) = r + SizeOf(ws, r) /\ NextRegion(ws, r) \in Nat
         /\ r < NextRegion(ws, r)
         /\ NextRegion(ws, r) \in E => r = NextRegion(ws, r) - Region /\ ~IsFree(ws, r)
         /\ IsFree(ws, r) => /\ r \notin B /\ NextRegion(ws, r) \in S \ B
                             /\ ~IsFree(ws, NextRegion(ws, r))
         /\ NextRegion(ws, r) \in S => /\ PrevRegion(ws, NextRegion(ws, r)) = r
                                       /\ LeftIsFree(ws, NextRegion(ws, r)) = IsFree(ws, r)
<1>1. /\ r \in Nat /\ SizeOf(ws, r) \in Nat /\ SizeOf(ws, r) >= 4
      /\ NextRegion(ws, r) = r + SizeOf(ws, r) /\ NextRegion(ws, r) \in Nat
      /\ r < NextRegion(ws, r) /\ NextRegion(ws, r) \in (S \ B) \union E
  BY DEF Tiles, RegionOK, Region, NextRegion
<1>2. ASSUME NextRegion(ws, r) \in E
      PROVE  r = NextRegion(ws, r) - Region /\ ~IsFree(ws, r)
  <2> DEFINE e == NextRegion(ws, r)
  <2>1. e - 4 \in S /\ ~IsFree(ws, e - 4) /\ SizeOf(ws, e - 4) = 4
    BY <1>2 DEF Tiles, Region
  <2>2. NextRegion(ws, e - 4) = e
    BY <1>1, <2>1 DEF NextRegion
  <2>3. r < e - 4 => e <= e - 4
    BY <2>1 DEF Tiles
  <2>4. e - 4 < r => e <= r
    BY <2>1, <2>2 DEF Tiles
  <2>5. r = e - 4
    <3> HIDE DEF e
    <3>1. r \in Nat /\ e \in Nat /\ r < e
      BY <1>1 DEF e
    <3> QED
      BY <2>3, <2>4, <3>1
  <2> QED
    BY <2>1, <2>5 DEF Region
<1>3. IsFree(ws, r) => /\ r \notin B /\ NextRegion(ws, r) \in S \ B
                       /\ ~IsFree(ws, NextRegion(ws, r))
  BY <1>1, <1>2 DEF Tiles
<1>4. /\ PrevRegion(ws, NextRegion(ws, r)) = r
      /\ LeftIsFree(ws, NextRegion(ws, r)) = IsFree(ws, r)
  <2>1. SizeOf(ws, r) = SizeOf(ws, NextRegion(ws, r) - 1)
    BY DEF Tiles, RegionOK, Consistent, Ceiling, SizeOf
  <2> QED
    BY <1>1, <2>1 DEF PrevRegion, LeftIsFree, IsFree, Ceiling
<1> QED
  BY <1>1, <1>2, <1>3, <1>4

\* The regions of New take the place of the regions of Old, between a and b.
Replaces(ws, w, S, B, Old, New, a, b) ==
    /\ Old \subseteq S /\ New \subseteq Nat /\ a \in Old \intersect New /\ b \in S \ B
    /\ \A r \in S : r \in Old <=> a <= r /\ r < b
    /\ \A r \in Old : NextRegion(ws, r) \in Old \union {b} /\ (r \in B => r = a)
    /\ \A r \in S \ Old : Keeps(ws, w, r)
    /\ \A r \in New : /\ RegionOK(w, r) /\ a <= r /\ NextRegion(w, r) <= b
                      /\ NextRegion(w, r) \in New \union {b}
    /\ \A r \in New \ {a} : \E p \in New : NextRegion(w, p) = r
    /\ \E p \in New : NextRegion(w, p) = b
    /\ \A r, s \in New : r < s => NextRegion(w, r) <= s

\* No two free regions become neighbours, and what begins a root region stays in use.
NoNewPair(ws, w, S, B, Old, New, a, b) ==
    /\ a \in B => ~IsFree(w, a)
    /\ \A p \in S \ Old : NextRegion(ws, p) = a /\ IsFree(ws, p) => ~IsFree(w, a)
    /\ \A r \in New : IsFree(w, r) =>
          IF NextRegion(w, r) = b THEN ~IsFree(ws, b) ELSE ~IsFree(w, NextRegion(w, r))

\* The free regions, and the regions of the program's blocks.
Frees(ws, S) == {r \in S : IsFree(ws, r)}
InUse(ws, S) == {r \in S : ~IsFree(ws, r)}
Used(ws, S, B, E) == {r \in S \ B : ~IsFree(ws, r) /\ NextRegion(ws, r) \notin E}

\* T is the tiling after that.
Retiled(ws, w, S, B, E, Old, New, T) ==
    /\ Tiles(w, T, B, E)
    /\ Frees(w, T) = (Frees(ws, S) \ Old) \union Frees(w, New)
    /\ Used(w, T, B, E) = (Used(ws, S, B, E) \ Old) \union InUse(w, New \ B)

\* Whole regions inside a root region may be replaced by others.
LEMMA Retile ==
  ASSUME NEW ws, NEW w, NEW S, NEW B, NEW E, NEW Old, NEW New, NEW a, NEW b,
         Tiles(ws, S, B, E), Replaces(ws, w, S, B, Old, New, a, b),
         NoNewPair(ws, w, S, B, Old, New, a, b)
  PROVE  Retiled(ws, w, S, B, E, Old, New, (S \ Old) \union New)
<1>0. /\ Old \subseteq S /\ New \subseteq Nat /\ a \in Old /\ a \in New /\ b \in S \ B
      /\ \A r \in S : r \in Old <=> a <= r /\ r < b
      /\ \A r \in Old : NextRegion(ws, r) \in Old \union {b} /\ (r \in B => r = a)
      /\ \A r \in S \ Old : Keeps(ws, w, r)
      /\ \A r \in New : /\ RegionOK(w, r) /\ a <= r /\ NextRegion(w, r) <= b
                        /\ NextRegion(w, r) \in New \union {b}
      /\ \A r \in New \ {a} : \E p \in New : NextRegion(w, p) = r
      /\ \E p \in New : NextRegion(w, p) = b
      /\ \A r, s \in New : r < s => NextRegion(w, r) <= s
      /\ a \in B => ~IsFree(w, a)
      /\ \A p \in S \ Old : NextRegion(ws, p) = a /\ IsFree(ws, p) => ~IsFree(w, a)
      /\ \A r \in New : IsFree(w, r) =>
            IF NextRegion(w, r) = b THEN ~IsFree(ws, b) ELSE ~IsFree(w, NextRegion(w, r))
  BY DEF Replaces, NoNewPair
<1> DEFINE R == S \ Old
           T == R \union New
<1>1. /\ S \subseteq Nat /\ B \subseteq S /\ E \subseteq Nat
      /\ \A e \in E : e \notin S /\ e - Region \in S \ B
      /\ \A r \in S \ B : \E p \in S : NextRegion(ws, p) = r
      /\ \A r, s \in S : r < s => NextRegion(ws, r) <= s
  BY DEF Tiles
<1>2. \A r \in S : /\ r \in Nat /\ NextRegion(ws, r) \in Nat /\ r < NextRegion(ws, r)
                   /\ NextRegion(ws, r) \in (S \ B) \union E /\ RegionOK(ws, r)
  <2> TAKE r \in S
  <2>1. RegionOK(ws, r) /\ NextRegion(ws, r) \in (S \ B) \union E
    BY DEF Tiles
  <2> QED
    BY <2>1, Neighbours
<1>3. a \in Nat /\ b \in Nat /\ a < b /\ b \in R
  BY <1>0, <1>1
<1>4. \A r \in R : /\ RegionOK(w, r) /\ NextRegion(w, r) = NextRegion(ws, r)
                   /\ SizeOf(w, r) = SizeOf(ws, r) /\ IsFree(w, r) = IsFree(ws, r)
  <2> TAKE r \in R
  <2>1. Keeps(ws, w, r) /\ RegionOK(ws, r)
    BY <1>0, <1>2
  <2> QED
    BY <2>1, KeptRegion
<1>5. \A r \in New : r \in Nat /\ NextRegion(w, r) \in Nat /\ r < NextRegion(w, r)
  BY <1>0 DEF RegionOK, NextRegion, Region
<1>6. \A r \in R : r < a => NextRegion(ws, r) <= a
  BY <1>0, <1>1
<1>7. \A r \in R : r < a \/ b <= r
  BY <1>0, <1>1, <1>3
<1>8. \A r \in R : NextRegion(ws, r) \in Old => NextRegion(ws, r) = a
  BY <1>0, <1>1, <1>2, <1>3, <1>6, <1>7
<1>9. \A r \in Old : NextRegion(ws, r) \in R => NextRegion(ws, r) = b
  BY <1>0
<1>10. \A r \in New : a <= r /\ r < b
  BY <1>0, <1>1, <1>3, <1>5
<1>11. T \subseteq Nat /\ B \subseteq T
  BY <1>0, <1>1
<1>12. ASSUME NEW r \in T
       PROVE  RegionOK(w, r) /\ NextRegion(w, r) \in (T \ B) \union E
  <2>1. CASE r \in R
    <3>1. NextRegion(ws, r) \in (S \ B) \union E
      BY <1>0, <2>1, <1>2
    <3>2. CASE NextRegion(ws, r) \in Old
      BY <1>0, <1>4, <1>8, <2>1, <3>1, <3>2, <1>1
    <3>3. CASE NextRegion(ws, r) \notin Old
      BY <1>0, <1>4, <2>1, <3>1, <3>3
    <3> QED
      BY <1>0, <3>2, <3>3
  <2>2. CASE r \in New
    <3>1. NextRegion(w, r) \in New \union {b} /\ NextRegion(w, r) # a
      BY <1>0, <1>3, <1>5, <2>2
    <3>2. \A s \in New : s \in B => s = a
      BY <1>0, <1>1, <1>10
    <3> QED
      BY <1>0, <1>3, <2>2, <3>1, <3>2
  <2> QED
    BY <1>0, <2>1, <2>2
<1>13. ASSUME NEW r \in T \ B
       PROVE  \E p \in T : NextRegion(w, p) = r
  <2>1. CASE r \in New /\ r # a
    BY <1>0, <2>1
  <2>2. CASE r = a
    <3>1. PICK p \in S : NextRegion(ws, p) = a
      BY <1>0, <1>1, <2>2
    <3>2. p \in R
      BY <1>0, <1>1, <1>2, <1>3, <3>1
    <3> QED
      BY <1>0, <2>2, <3>1, <3>2, <1>4
  <2>3. CASE r \in R
    <3>1. PICK p \in S : NextRegion(ws, p) = r
      BY <1>0, <1>1, <2>3
    <3>2. CASE p \in Old
      BY <1>0, <1>9, <2>3, <3>1, <3>2
    <3>3. CASE p \in R
      BY <1>0, <1>4, <3>1, <3>3
    <3> QED
      BY <1>0, <3>2, <3>3
  <2> QED
    BY <1>0, <2>1, <2>2, <2>3
<1>14. ASSUME NEW r \in T, NEW s \in T, r < s
       PROVE  NextRegion(w, r) <= s
  <2>1. CASE r \in R /\ s \in R
    BY <1>0, <2>1, <1>1, <1>4, <1>14
  <2>2. CASE r \in New /\ s \in New
    BY <1>0, <2>2, <1>14
  <2>3. CASE r \in R /\ s \in New
    <3>1. r < a
      BY <1>0, <1>1, <1>3, <1>7, <1>10, <1>14, <2>3
    <3>2. NextRegion(w, r) <= a /\ NextRegion(w, r) \in Nat /\ a <= s /\ s \in Nat
      BY <1>0, <1>2, <1>4, <1>6, <1>5, <1>10, <2>3, <3>1
    <3> QED
      BY <1>0, <1>3, <3>2
  <2>4. CASE r \in New /\ s \in R
    <3>1. b <= s
      BY <1>0, <1>1, <1>3, <1>7, <1>10, <1>14, <2>4
    <3>2. NextRegion(w, r) <= b /\ NextRegion(w, r) \in Nat /\ s \in Nat
      BY <1>0, <1>5, <1>1, <2>4
    <3> QED
      BY <1>0, <1>3, <3>1, <3>2
  <2> QED
    BY <1>0, <2>1, <2>2, <2>3, <2>4
<1>15. ASSUME NEW r \in B
       PROVE  ~IsFree(w, r)
  <2>1. r \in Old => r = a
    BY <1>0
  <2>2. r \in R => ~IsFree(w, r)
    BY <1>0, <1>4, <1>15 DEF Tiles
  <2> QED
    BY <1>0, <2>1, <2>2, <1>1, <1>15
<1>16. ASSUME NEW e \in E
       PROVE  /\ e \notin T /\ e - Region \in T \ B
              /\ SizeOf(w, e - Region) = Region /\ ~IsFree(w, e - Region)
  <2>1. /\ e \notin S /\ e - Region \in S \ B
        /\ SizeOf(ws, e - Region) = Region /\ ~IsFree(ws, e - Region)
    BY <1>0, <1>16 DEF Tiles
  <2>2. NextRegion(ws, e - Region) = e
    BY <1>0, <2>1, <1>1, <1>16 DEF NextRegion, Region
  <2>3. e - Region \in R
    BY <1>0, <2>1, <2>2
  <2>4. ~(a < e /\ e < b)
    <3>1. e - Region < a \/ b <= e - Region
      BY <1>0, <1>7, <2>3
    <3>2. e - Region < a => e <= a
      BY <1>0, <1>6, <2>2, <2>3
    <3> QED
      BY <1>0, <1>1, <1>3, <1>16, <3>1, <3>2 DEF Region
  <2>5. e # a
    BY <1>0, <2>1
  <2>6. e \notin New
    BY <1>0, <1>1, <1>3, <1>10, <2>4, <2>5
  <2> QED
    BY <1>0, <1>4, <2>1, <2>3, <2>6
<1>17. ASSUME NEW r \in T, IsFree(w, r)
       PROVE  ~IsFree(w, NextRegion(w, r))
  <2>1. CASE r \in New
    BY <1>0, <1>3, <1>4, <1>17, <2>1
  <2>2. CASE r \in R
    <3>1. IsFree(ws, r) /\ ~IsFree(ws, NextRegion(ws, r)) /\ NextRegion(ws, r) \in S
      BY <1>4, <1>17, <2>2, Neighbours
    <3>2. CASE NextRegion(ws, r) \in Old
      BY <1>0, <1>4, <1>8, <2>2, <3>1, <3>2
    <3>3. CASE NextRegion(ws, r) \in R
      BY <1>0, <1>4, <2>2, <3>1, <3>3
    <3> QED
      BY <1>0, <3>1, <3>2, <3>3
  <2> QED
    BY <1>0, <2>1, <2>2
<1> HIDE DEF R, T
<1>18. Tiles(w, T, B, E)
  BY <1>1, <1>11, <1>12, <1>13, <1>14, <1>15, <1>16, <1>17 DEF Tiles
<1>19. Frees(w, T) = (Frees(ws, S) \ Old) \union Frees(w, New)
  BY <1>4 DEF R, T, Frees
<1>20. Used(w, T, B, E) = (Used(ws, S, B, E) \ Old) \union InUse(w, New \ B)
  <2>1. \A r \in New : NextRegion(w, r) \notin E
    BY <1>0, <1>3, <1>16 DEF T
  <2>2. \A r \in R : NextRegion(w, r) = NextRegion(ws, r) /\ IsFree(w, r) = IsFree(ws, r)
    BY <1>4
  <2> QED
    BY <2>1, <2>2 DEF R, T, Used, InUse
<1> QED
  BY <1>18, <1>19, <1>20 DEF T, R, Retiled

-----------------------------------------------------------------------------
(***************************************************************************)
(* The free lists                                                          *)
(***************************************************************************)
On(r, list) == \E i \in DOMAIN list : list[i] = r
Once(list) == \A i, j \in DOMAIN list : list[i] = list[j] => i = j

\* The lists hold the regions of F, once, each in the bucket of its size.
Listed(lists, ws, F) ==
    /\ lists = [b \in Buckets |-> lists[b]]
    /\ \A b \in Buckets :
          /\ lists[b] \in Seq(F) /\ Once(lists[b])
          /\ \A r \in F : On(r, lists[b]) <=> Bucket(SizeOf(ws, r)) = b

\* A list that a region has left holds the others.
LEMMA WithoutOne ==
  ASSUME NEW F, NEW list \in Seq(F), Once(list), NEW r
  PROVE  /\ Without(list, r) \in Seq(F \ {r}) /\ Once(Without(list, r))
         /\ \A x : On(x, Without(list, r)) <=> On(x, list) /\ x # r
<1>1. /\ Len(list) \in Nat /\ DOMAIN list = 1..Len(list)
      /\ \A i \in 1..Len(list) : list[i] \in F
  BY LenProperties, ElementOfSeq
<1>2. CASE ~On(r, list)
  <2>1. Without(list, r) = list
    BY <1>2 DEF Without, On
  <2>2. \A i \in 1..Len(list) : list[i] \in F \ {r}
    BY <1>1, <1>2 DEF On
  <2>3. list \in Seq(F \ {r})
    BY <1>1, <2>2
  <2>4. \A x : On(x, list) => x # r
    BY <1>2
  <2> QED
    BY <2>1, <2>3, <2>4
<1>3. CASE On(r, list)
  <2> DEFINE k == CHOOSE i \in DOMAIN list : list[i] = r
             s == SubSeq(list, 1, k - 1)
             t == SubSeq(list, k + 1, Len(list))
             n == Len(list)
  <2>1. k \in 1..n /\ list[k] = r
    BY <1>1, <1>3 DEF On
  <2>2. Without(list, r) = s \o t
    BY <1>3 DEF Without, On
  <2> HIDE DEF k
  <2>3. \A i \in 1..n : i # k => list[i] \in F \ {r}
    BY <1>1, <2>1 DEF Once
  <2>4. /\ s \in Seq(F \ {r}) /\ Len(s) = k - 1
        /\ \A i \in 1..(k - 1) : s[i] = list[i]
    <3>1. \A i \in 1..(k - 1) : list[i] \in F \ {r}
      BY <1>1, <2>1, <2>3
    <3>2. 1 \in Int /\ k - 1 \in Int /\ (k - 1) - 1 + 1 = k - 1
      BY <2>1
    <3>3. /\ s \in Seq(F \ {r}) /\ Len(s) = IF 1 <= k - 1 THEN (k - 1) - 1 + 1 ELSE 0
          /\ \A i \in 1..((k - 1) - 1 + 1) : s[i] = list[1 + i - 1]
      BY <3>1, <3>2, SubSeqProperties
    <3> HIDE DEF s
    <3> QED
      BY <2>1, <3>2, <3>3
  <2>5. /\ t \in Seq(F \ {r}) /\ Len(t) = n - k
        /\ \A i \in 1..(n - k) : t[i] = list[k + i]
    <3>1. \A i \in (k + 1)..n : list[i] \in F \ {r}
      BY <1>1, <2>1, <2>3
    <3>2. k + 1 \in Int /\ n \in Int /\ n - (k + 1) + 1 = n - k
      BY <1>1, <2>1
    <3>3. /\ t \in Seq(F \ {r}) /\ Len(t) = IF k + 1 <= n THEN n - (k + 1) + 1 ELSE 0
          /\ \A i \in 1..(n - (k + 1) + 1) : t[i] = list[(k + 1) + i - 1]
      BY <3>1, <3>2, SubSeqProperties
    <3> HIDE DEF t
    <3>4. Len(t) = n - k
      <4>1. n \in Nat /\ k \in 1..n
        BY <1>1, <2>1
      <4>2. Len(t) = IF k + 1 <= n THEN n - (k + 1) + 1 ELSE 0
        BY <3>3
      <4> HIDE DEF n
      <4> QED
        BY <4>1, <4>2
    <3>5. \A i \in 1..(n - k) : (k + 1) + i - 1 = k + i
      BY <1>1, <2>1
    <3> QED
      BY <3>2, <3>3, <3>4, <3>5
  <2> HIDE DEF s, t
  <2> DEFINE u == s \o t
  <2>6. /\ u \in Seq(F \ {r}) /\ Len(u) = n - 1 /\ DOMAIN u = 1..(n - 1)
        /\ \A i \in 1..(n - 1) : u[i] = IF i < k THEN list[i] ELSE list[i + 1]
    <3>1. /\ u \in Seq(F \ {r}) /\ Len(u) = Len(s) + Len(t)
          /\ \A i \in 1..(Len(s) + Len(t)) :
                u[i] = IF i <= Len(s) THEN s[i] ELSE t[i - Len(s)]
      BY <2>4, <2>5, ConcatProperties
    <3> HIDE DEF u
    <3>2. Len(u) = n - 1 /\ DOMAIN u = 1..(n - 1)
      BY <1>1, <2>1, <2>4, <2>5, <3>1
    <3>3. ASSUME NEW i \in 1..(n - 1)
          PROVE  u[i] = IF i < k THEN list[i] ELSE list[i + 1]
      <4>1. CASE i < k
        BY <1>1, <2>1, <2>4, <2>5, <3>1, <4>1
      <4>2. CASE ~(i < k)
        <5>1. /\ i - Len(s) \in 1..(n - k) /\ k + (i - Len(s)) = i + 1 /\ ~(i <= Len(s))
              /\ i \in 1..(Len(s) + Len(t))
          BY <1>1, <2>1, <2>4, <2>5, <4>2
        <5> QED
          BY <2>5, <3>1, <4>2, <5>1
      <4> QED
        BY <4>1, <4>2
    <3> QED
      BY <3>1, <3>2, <3>3
  <2> HIDE DEF u
  <2>7. Once(u)
    <3> SUFFICES ASSUME NEW i \in 1..(n - 1), NEW j \in 1..(n - 1), u[i] = u[j]
                 PROVE  i = j
      BY <2>6 DEF Once
    <3> DEFINE p == IF i < k THEN i ELSE i + 1
               q == IF j < k THEN j ELSE j + 1
    <3>1. p \in 1..n /\ q \in 1..n /\ (p = q => i = j)
      BY <1>1, <2>1
    <3>2. list[p] = list[q]
      BY <2>6
    <3> QED
      BY <1>1, <3>1, <3>2 DEF Once
  <2>8. ASSUME NEW x
        PROVE  On(x, u) <=> On(x, list) /\ x # r
    <3>1. ASSUME NEW i \in 1..(n - 1)
          PROVE  On(u[i], list) /\ u[i] # r
      <4> DEFINE p == IF i < k THEN i ELSE i + 1
      <4>1. p \in 1..n /\ p # k
        BY <1>1, <2>1
      <4>2. u[i] = list[p]
        BY <2>6
      <4> QED
        BY <1>1, <2>1, <4>1, <4>2 DEF On, Once
    <3>2. ASSUME NEW p \in 1..n, list[p] # r
          PROVE  On(list[p], u)
      <4> DEFINE i == IF p < k THEN p ELSE p - 1
      <4>1. i \in 1..(n - 1) /\ p = IF i < k THEN i ELSE i + 1
        BY <1>1, <2>1, <3>2
      <4>2. u[i] = list[p]
        BY <2>6, <4>1
      <4> QED
        BY <2>6, <4>1, <4>2 DEF On
    <3> QED
      BY <1>1, <2>6, <3>1, <3>2 DEF On
  <2> QED
    BY <2>2, <2>6, <2>7, <2>8 DEF u
<1> QED
  BY <1>2, <1>3

\* unlink_from_free_list.
LEMMA Unlinked ==
  ASSUME NEW h, NEW ws, NEW F, NEW r, Listed(h.lists, ws, F)
  PROVE  Listed([b \in Buckets |-> Without(h.lists[b], r)], ws, F \ {r})
<1>1. ASSUME NEW b \in Buckets
      PROVE  /\ Without(h.lists[b], r) \in Seq(F \ {r}) /\ Once(Without(h.lists[b], r))
             /\ \A x \in F \ {r} : On(x, Without(h.lists[b], r)) <=> Bucket(SizeOf(ws, x)) = b
  <2>1. /\ h.lists[b] \in Seq(F) /\ Once(h.lists[b])
        /\ \A x \in F : On(x, h.lists[b]) <=> Bucket(SizeOf(ws, x)) = b
    BY <1>1 DEF Listed
  <2> QED
    BY <2>1, WithoutOne
<1> QED
  BY <1>1 DEF Listed

\* The lists depend on the sizes of their regions only.
LEMMA ListedKept ==
  ASSUME NEW lists, NEW ws, NEW w, NEW F, Listed(lists, ws, F),
         \A r \in F : SizeOf(w, r) = SizeOf(ws, r)
  PROVE  Listed(lists, w, F)
BY DEF Listed

\* prepend_to_free_list.
LEMMA Linked ==
  ASSUME NEW lists, NEW w, NEW F, NEW r, Listed(lists, w, F), r \notin F,
         NEW b \in Buckets, Bucket(SizeOf(w, r)) = b
  PROVE  Listed([lists EXCEPT ![b] = <<r>> \o lists[b]], w, F \union {r})
<1> DEFINE new == [lists EXCEPT ![b] = <<r>> \o lists[b]]
           G == F \union {r}
<1>1. /\ lists = [c \in Buckets |-> lists[c]]
      /\ \A c \in Buckets : /\ lists[c] \in Seq(F) /\ Once(lists[c])
                            /\ \A x \in F : On(x, lists[c]) <=> Bucket(SizeOf(w, x)) = c
  BY DEF Listed
<1>2. /\ new = [c \in Buckets |-> new[c]] /\ new[b] = <<r>> \o lists[b]
      /\ \A c \in Buckets \ {b} : new[c] = lists[c]
  BY <1>1
<1>3. \A c \in Buckets : /\ lists[c] \in Seq(G) /\ Len(lists[c]) \in Nat
                         /\ DOMAIN lists[c] = 1..Len(lists[c])
                         /\ \A i \in 1..Len(lists[c]) : lists[c][i] \in F
  BY <1>1, LenProperties, ElementOfSeq
<1> HIDE DEF new
<1>4. ASSUME NEW c \in Buckets, c # b
      PROVE  /\ new[c] \in Seq(G) /\ Once(new[c])
             /\ \A x \in G : On(x, new[c]) <=> Bucket(SizeOf(w, x)) = c
  <2>1. ~On(r, lists[c])
    BY <1>3 DEF On
  <2> QED
    BY <1>1, <1>2, <1>3, <1>4, <2>1
<1>5. /\ new[b] \in Seq(G) /\ Once(new[b])
      /\ \A x \in G : On(x, new[b]) <=> Bucket(SizeOf(w, x)) = b
  <2> DEFINE l == lists[b]
             n == Len(l)
             m == new[b]
  <2>1. <<r>> \in Seq(G) /\ Len(<<r>>) = 1 /\ <<r>>[1] = r
    OBVIOUS
  <2>2. /\ m \in Seq(G) /\ Len(m) = 1 + n
        /\ \A i \in 1..(1 + n) : m[i] = IF i <= 1 THEN r ELSE l[i - 1]
    <3>1. /\ <<r>> \o l \in Seq(G) /\ Len(<<r>> \o l) = Len(<<r>>) + n
          /\ \A i \in 1..(Len(<<r>>) + n) :
                (<<r>> \o l)[i] = IF i <= Len(<<r>>) THEN <<r>>[i] ELSE l[i - Len(<<r>>)]
      BY <1>3, <2>1, ConcatProperties
    <3>2. \A i \in 1..(1 + n) : i <= 1 => i = 1
      BY <1>3
    <3> QED
      BY <1>2, <2>1, <3>1, <3>2
  <2>3. n \in Nat /\ DOMAIN l = 1..n /\ \A i \in 1..n : l[i] \in F
    BY <1>3
  <2>4. DOMAIN m = 1..(1 + n) /\ m[1] = r /\ \A i \in 1..n : m[i + 1] = l[i]
    <3>1. \A i \in 1..n : i + 1 \in 1..(1 + n) /\ ~(i + 1 <= 1) /\ i + 1 - 1 = i
      BY <2>3
    <3>2. 1 \in 1..(1 + n)
      BY <2>3
    <3> QED
      BY <2>2, <3>1, <3>2
  <2>5. \A i \in DOMAIN m : i = 1 \/ (i - 1 \in 1..n /\ m[i] = l[i - 1])
    <3> TAKE i \in DOMAIN m
    <3>1. i = 1 \/ (i - 1 \in 1..n /\ ~(i <= 1) /\ i \in 1..(1 + n))
      BY <2>3, <2>4
    <3> QED
      BY <2>2, <3>1
  <2> HIDE DEF m, n, l
  <2>6. Once(l) /\ \A x \in F : On(x, l) <=> Bucket(SizeOf(w, x)) = b
    BY <1>1 DEF l
  <2>7. Once(m)
    <3> SUFFICES ASSUME NEW i \in DOMAIN m, NEW j \in DOMAIN m, m[i] = m[j]
                 PROVE  i = j
      BY DEF Once
    <3>1. i \in Nat /\ j \in Nat
      BY <2>3, <2>4
    <3> QED
      BY <2>3, <2>4, <2>5, <2>6, <3>1 DEF Once
  <2>8. On(r, m)
    BY <2>3, <2>4 DEF On
  <2>9. \A x \in F : On(x, m) <=> On(x, l)
    <3>1. \A i \in 1..n : i + 1 \in DOMAIN m
      BY <2>3, <2>4
    <3> TAKE x \in F
    <3>2. x # r
      OBVIOUS
    <3>3. ASSUME On(x, m) PROVE On(x, l)
      BY <2>3, <2>4, <2>5, <3>2, <3>3 DEF On
    <3>4. ASSUME On(x, l) PROVE On(x, m)
      BY <2>3, <2>4, <3>1, <3>4 DEF On
    <3> QED
      BY <3>3, <3>4
  <2> QED
    BY <2>2, <2>6, <2>7, <2>8, <2>9 DEF m
<1>6. \A c \in Buckets : /\ new[c] \in Seq(G) /\ Once(new[c])
                         /\ \A x \in G : On(x, new[c]) <=> Bucket(SizeOf(w, x)) = c
  BY <1>4, <1>5
<1> QED
  BY <1>2, <1>6 DEF Listed, new

-----------------------------------------------------------------------------
(***************************************************************************)
(* The heap                                                                *)
(***************************************************************************)
\* Root regions lie apart, the latest first, and below the break.
RootsOK(roots, brk) ==
    /\ roots \in Seq([start : Nat, end : Nat]) /\ brk \in Nat
    /\ \A i \in DOMAIN roots : /\ roots[i].start < roots[i].end
                               /\ roots[i].end <= brk /\ roots[i].end <= HeapMax
    /\ \A i, j \in DOMAIN roots : i < j => roots[j].end < roots[i].start

Begins(roots) == {roots[i].start : i \in DOMAIN roots}
Ends(roots) == {roots[i].end : i \in DOMAIN roots}

\* The lists of a heap and the bits of the buckets.
Lists(h, ws, F) ==
    /\ Listed(h.lists, ws, F)
    /\ h.used \subseteq Buckets
    /\ \A b \in Buckets : h.lists[b] # <<>> => b \in h.used

IsHeap(h) == DOMAIN h = {"words", "lists", "used", "roots", "brk"}

\* A heap with the regions that start at S.
HeapOK(h, S) ==
    /\ IsHeap(h) /\ RootsOK(h.roots, h.brk)
    /\ Tiles(h.words, S, Begins(h.roots), Ends(h.roots))
    /\ Lists(h, h.words, Frees(h.words, S))

\* A set of numbers that is not empty has a least one.
LEMMA LeastNumber ==
    ASSUME NEW W \in SUBSET Nat, W # {}
    PROVE  \E k \in W : \A j \in W : k <= j
<1> DEFINE R == OpToRel(<, Nat)
<1>1. IsWellFoundedOn(R, Nat)
  BY NatLessThanWellFounded, Zenon
<1>2. PICK k \in W : \A j \in W : <<j, k>> \notin R
  <2> HIDE DEF R
  <2> QED BY <1>1, WFMin
<1>3. ASSUME NEW j \in W PROVE k <= j
  <2>1. j \in Nat /\ k \in Nat
    OBVIOUS
  <2>2. ~(j < k)
    BY <1>2, <2>1 DEF OpToRel
  <2> QED BY <2>1, <2>2
<1> QED BY <1>3

\* Each region lies in a root region.
LEMMA InRoot ==
  ASSUME NEW ws, NEW S, NEW roots, NEW brk, RootsOK(roots, brk),
         Tiles(ws, S, Begins(roots), Ends(roots))
  PROVE  \A r \in S : \E i \in DOMAIN roots :
            roots[i].start <= r /\ NextRegion(ws, r) <= roots[i].end
<1> DEFINE In(r, i) == roots[i].start <= r /\ NextRegion(ws, r) <= roots[i].end
           W == {r \in S : \A i \in DOMAIN roots : ~In(r, i)}
<1>1. /\ S \subseteq Nat /\ \A r \in S \ Begins(roots) : \E p \in S : NextRegion(ws, p) = r
      /\ \A r, s \in S : r < s => NextRegion(ws, r) <= s
      /\ \A e \in Ends(roots) : e \notin S /\ e \in Nat /\ e - 4 \in S /\ SizeOf(ws, e - 4) = 4
  BY DEF Tiles, Region
<1>2. \A r \in S : r \in Nat /\ NextRegion(ws, r) \in Nat /\ r < NextRegion(ws, r)
  BY Neighbours
<1>3. \A i \in DOMAIN roots : /\ roots[i].start \in Nat /\ roots[i].end \in Nat
                              /\ roots[i].start < roots[i].end /\ roots[i].end \in Ends(roots)
  <2> TAKE i \in DOMAIN roots
  <2>1. i \in 1..Len(roots) /\ roots \in Seq([start : Nat, end : Nat])
    BY DEF RootsOK
  <2>2. roots[i] \in [start : Nat, end : Nat]
    BY <2>1, ElementOfSeq
  <2> QED
    BY <2>2 DEF RootsOK, Ends
<1>4. ASSUME NEW r \in S, NEW e \in Ends(roots), r < e
      PROVE  NextRegion(ws, r) <= e
  <2>1. NextRegion(ws, e - 4) = e
    BY <1>1, <1>4 DEF NextRegion
  <2>2. r < e - 4 => NextRegion(ws, r) <= e - 4
    BY <1>1, <1>4
  <2>3. e - 4 < r => e <= r
    BY <1>1, <1>4, <2>1
  <2>4. r \in Nat /\ e \in Nat /\ NextRegion(ws, r) \in Nat
    BY <1>1, <1>2, <1>4
  <2> QED
    BY <1>4, <2>1, <2>2, <2>3, <2>4
<1>5. W = {}
  <2> SUFFICES ASSUME W # {} PROVE FALSE
    OBVIOUS
  <2>1. PICK r \in W : \A s \in W : r <= s
    <3>1. W \in SUBSET Nat
      BY <1>1
    <3> HIDE DEF W
    <3> QED
      BY <3>1, LeastNumber
  <2>2. r \in S /\ \A i \in DOMAIN roots : ~In(r, i)
    BY <2>1
  <2>3. CASE r \in Begins(roots)
    <3>1. PICK i \in DOMAIN roots : r = roots[i].start
      BY <2>3 DEF Begins
    <3>2. r < roots[i].end /\ r <= roots[i].start
      BY <1>3, <3>1
    <3> QED
      BY <1>3, <1>4, <2>2, <3>1, <3>2
  <2>4. CASE r \notin Begins(roots)
    <3>1. PICK p \in S : NextRegion(ws, p) = r
      BY <1>1, <2>2, <2>4
    <3>2. p < r /\ p \in Nat /\ r \in Nat
      BY <1>1, <1>2, <2>2, <3>1
    <3>3. p \notin W
      BY <2>1, <3>2
    <3>4. PICK i \in DOMAIN roots : In(p, i)
      BY <3>1, <3>3
    <3>5. r # roots[i].end
      BY <1>1, <1>3, <2>2
    <3>6. r < roots[i].end /\ roots[i].start <= r
      BY <1>3, <3>1, <3>2, <3>4, <3>5
    <3> QED
      BY <1>3, <1>4, <2>2, <3>6
  <2> QED
    BY <2>3, <2>4
<1> QED
  BY <1>5

\* unlink_from_free_list of a heap.
LEMMA UnlinkStep ==
  ASSUME NEW h, NEW ws, NEW F, NEW r, IsHeap(h), Lists(h, ws, F)
  PROVE  /\ IsHeap(Unlink(h, r)) /\ Lists(Unlink(h, r), ws, F \ {r})
         /\ Unlink(h, r).words = h.words /\ Unlink(h, r).roots = h.roots
         /\ Unlink(h, r).brk = h.brk
<1> DEFINE new == [b \in Buckets |-> Without(h.lists[b], r)]
           u == Unlink(h, r)
<1>1. Listed(new, ws, F \ {r})
  BY Unlinked DEF Lists
<1>2. \A b \in Buckets : new[b] # <<>> => h.lists[b] # <<>>
  <2> TAKE b \in Buckets
  <2>1. h.lists[b] = <<>> => Without(h.lists[b], r) = <<>>
    BY DEF Without
  <2> QED
    BY <2>1
<1>3. /\ IsHeap(u) /\ u.words = h.words /\ u.lists = new /\ u.used = h.used
      /\ u.roots = h.roots /\ u.brk = h.brk
  BY DEF IsHeap, Unlink
<1> HIDE DEF new, u
<1> QED
  BY <1>1, <1>2, <1>3 DEF Lists, u

\* create_used_region of a heap, beside the free regions.
LEMMA CreateUsedStep ==
  ASSUME NEW h, NEW F, NEW r \in Nat, NEW n \in Nat, n >= Region, IsHeap(h),
         Lists(h, h.words, F),
         \A s \in F : /\ s \in Nat /\ RegionOK(h.words, s)
                      /\ s >= r + n \/ NextRegion(h.words, s) <= r
  PROVE  LET c == CreateUsed(h, r, n)
         IN  /\ IsHeap(c) /\ Lists(c, c.words, F)
             /\ c.words = WriteRegion(h.words, r, n, FALSE) /\ c.roots = h.roots
             /\ c.brk = h.brk
<1> DEFINE c == CreateUsed(h, r, n)
           w == WriteRegion(h.words, r, n, FALSE)
<1>1. /\ IsHeap(c) /\ c.words = w /\ c.lists = h.lists /\ c.used = h.used
      /\ c.roots = h.roots /\ c.brk = h.brk
  BY DEF IsHeap, CreateUsed
<1>2. \A s \in F : SizeOf(w, s) = SizeOf(h.words, s)
  <2> TAKE s \in F
  <2>1. Keeps(h.words, w, s)
    BY Written
  <2> QED
    BY <2>1 DEF Keeps
<1> HIDE DEF c, w
<1>3. Listed(h.lists, w, F)
  BY <1>2, ListedKept DEF Lists
<1>4. Lists(c, c.words, F)
  BY <1>1, <1>3 DEF Lists
<1> QED
  BY <1>1, <1>4 DEF c, w

\* create_free_region and link_to_free_list.
LEMMA CreateAndLinkStep ==
  ASSUME NEW h, NEW F, NEW r \in Nat, NEW n \in Nat, n >= Region, n <= HeapMax, IsHeap(h),
         Lists(h, h.words, F), r \notin F,
         \A s \in F : /\ s \in Nat /\ RegionOK(h.words, s)
                      /\ s >= r + n \/ NextRegion(h.words, s) <= r
  PROVE  LET c == CreateAndLink(h, r, n)
         IN  /\ IsHeap(c) /\ Lists(c, c.words, F \union {r})
             /\ c.words = WriteRegion(h.words, r, n, TRUE) /\ c.roots = h.roots
             /\ c.brk = h.brk
             /\ Bucket(n) \in c.used /\ c.lists[Bucket(n)] # <<>> /\ Head(c.lists[Bucket(n)]) = r
<1> DEFINE c == CreateAndLink(h, r, n)
           w == WriteRegion(h.words, r, n, TRUE)
           b == Bucket(n)
           new == [h.lists EXCEPT ![b] = <<r>> \o h.lists[b]]
<1>1. SizeOf(w, r) = n
  BY WrittenFree
<1>2. n \in Region..HeapMax
  BY DEF EmmallocAssumption, Region, EmmallocAssumption
<1>3. b \in Buckets
  BY <1>2 DEF Buckets
<1>4. /\ IsHeap(c) /\ c.words = w /\ c.lists = new /\ c.used = h.used \union {b}
      /\ c.roots = h.roots /\ c.brk = h.brk
  BY <1>1 DEF IsHeap, CreateAndLink, CreateFree, Link
<1>5. \A s \in F : SizeOf(w, s) = SizeOf(h.words, s)
  <2> TAKE s \in F
  <2>1. Keeps(h.words, w, s)
    BY Written
  <2> QED
    BY <2>1 DEF Keeps
<1> HIDE DEF w
<1>6. Listed(h.lists, w, F)
  BY <1>5, ListedKept DEF Lists
<1>7. Listed(new, w, F \union {r})
  BY <1>1, <1>3, <1>6, Linked
<1>8. /\ h.used \union {b} \subseteq Buckets
      /\ \A d \in Buckets : new[d] # <<>> => d \in h.used \union {b}
  BY <1>3 DEF Lists, Listed
<1>9. new[b] # <<>> /\ Head(new[b]) = r
  <2>1. new[b] = <<r>> \o h.lists[b] /\ h.lists[b] \in Seq(F)
    BY <1>3 DEF Lists, Listed
  <2>2. new[b] \in Seq(F \union {r}) /\ Len(new[b]) = 1 + Len(h.lists[b]) /\ new[b][1] = r
    <3>1. /\ <<r>> \in Seq(F \union {r}) /\ h.lists[b] \in Seq(F \union {r})
          /\ Len(<<r>>) = 1 /\ <<r>>[1] = r /\ Len(h.lists[b]) \in Nat
      BY <2>1
    <3> DEFINE l == h.lists[b]
               one == <<r>>
    <3>2. 1 \in 1..(Len(one) + Len(l)) /\ 1 <= Len(one)
      BY <3>1
    <3>3. /\ one \o l \in Seq(F \union {r}) /\ Len(one \o l) = Len(one) + Len(l)
          /\ \A i \in 1..(Len(one) + Len(l)) :
                (one \o l)[i] = IF i <= Len(one) THEN one[i] ELSE l[i - Len(one)]
      BY <3>1, ConcatProperties
    <3> HIDE DEF new, b
    <3> QED
      BY <2>1, <3>1, <3>2, <3>3
  <2> HIDE DEF new
  <2> QED
    BY <2>1, <2>2
<1> HIDE DEF new, b, c
<1> QED
  BY <1>4, <1>7, <1>8, <1>9 DEF Lists, c, w, b

\* A free region is created and put first in its bucket.
Linkable(h, F, r, n) ==
    /\ r \in Nat /\ n \in Nat /\ n >= Region /\ n <= HeapMax
    /\ IsHeap(h) /\ Lists(h, h.words, F) /\ r \notin F
    /\ \A s \in F : /\ s \in Nat /\ RegionOK(h.words, s)
                    /\ s >= r + n \/ NextRegion(h.words, s) <= r

LinkedFirst(h, F, r, n, c) ==
    /\ IsHeap(c) /\ Lists(c, c.words, F \union {r})
    /\ c.words = WriteRegion(h.words, r, n, TRUE) /\ c.roots = h.roots
    /\ c.brk = h.brk
    /\ Bucket(n) \in c.used /\ c.lists[Bucket(n)] # <<>> /\ Head(c.lists[Bucket(n)]) = r

\* CreateAndLinkStep, as one fact.
LEMMA LinkFirst ==
  ASSUME NEW h, NEW F, NEW r, NEW n, Linkable(h, F, r, n)
  PROVE  LinkedFirst(h, F, r, n, CreateAndLink(h, r, n))
<1>1. /\ r \in Nat /\ n \in Nat /\ n >= Region /\ n <= HeapMax
      /\ IsHeap(h) /\ Lists(h, h.words, F) /\ r \notin F
      /\ \A s \in F : /\ s \in Nat /\ RegionOK(h.words, s)
                      /\ s >= r + n \/ NextRegion(h.words, s) <= r
  BY DEF Linkable
<1> DEFINE c == CreateAndLink(h, r, n)
<1>2. /\ IsHeap(c) /\ Lists(c, c.words, F \union {r})
      /\ c.words = WriteRegion(h.words, r, n, TRUE) /\ c.roots = h.roots
      /\ c.brk = h.brk
      /\ Bucket(n) \in c.used /\ c.lists[Bucket(n)] # <<>> /\ Head(c.lists[Bucket(n)]) = r
  BY <1>1, CreateAndLinkStep
<1> HIDE DEF c
<1>3. LinkedFirst(h, F, r, n, c)
  BY <1>2 DEF LinkedFirst
<1> QED
  BY <1>3 DEF c

\* A region in use is created beside the free ones.
Usable(h, F, r, n) ==
    /\ r \in Nat /\ n \in Nat /\ n >= Region /\ IsHeap(h) /\ Lists(h, h.words, F)
    /\ \A s \in F : /\ s \in Nat /\ RegionOK(h.words, s)
                    /\ s >= r + n \/ NextRegion(h.words, s) <= r

CreatedUsed(h, F, r, n, c) ==
    /\ IsHeap(c) /\ Lists(c, c.words, F)
    /\ c.words = WriteRegion(h.words, r, n, FALSE) /\ c.roots = h.roots /\ c.brk = h.brk

\* CreateUsedStep, as one fact.
LEMMA CreateOne ==
  ASSUME NEW h, NEW F, NEW r, NEW n, Usable(h, F, r, n)
  PROVE  CreatedUsed(h, F, r, n, CreateUsed(h, r, n))
<1>1. /\ r \in Nat /\ n \in Nat /\ n >= Region /\ IsHeap(h) /\ Lists(h, h.words, F)
      /\ \A s \in F : /\ s \in Nat /\ RegionOK(h.words, s)
                      /\ s >= r + n \/ NextRegion(h.words, s) <= r
  BY DEF Usable
<1> DEFINE c == CreateUsed(h, r, n)
<1>2. /\ IsHeap(c) /\ Lists(c, c.words, F)
      /\ c.words = WriteRegion(h.words, r, n, FALSE) /\ c.roots = h.roots /\ c.brk = h.brk
  BY <1>1, CreateUsedStep
<1> HIDE DEF c
<1>3. CreatedUsed(h, F, r, n, c)
  BY <1>2 DEF CreatedUsed
<1> QED
  BY <1>3 DEF c

-----------------------------------------------------------------------------
(***************************************************************************)
(* free, and resizing in place                                             *)
(***************************************************************************)
UsedIn(h, S) == Used(h.words, S, Begins(h.roots), Ends(h.roots))

\* What every operation needs of a heap.
LEMMA HeapFacts ==
  ASSUME NEW h, NEW S, HeapOK(h, S)
  PROVE  /\ IsHeap(h) /\ RootsOK(h.roots, h.brk)
         /\ Tiles(h.words, S, Begins(h.roots), Ends(h.roots))
         /\ Lists(h, h.words, Frees(h.words, S))
         /\ \A r \in S : NextRegion(h.words, r) <= HeapMax
         /\ HeapMax \in Nat
<1>1. /\ IsHeap(h) /\ RootsOK(h.roots, h.brk)
      /\ Tiles(h.words, S, Begins(h.roots), Ends(h.roots))
      /\ Lists(h, h.words, Frees(h.words, S))
  BY DEF HeapOK
<1>2. HeapMax \in Nat
  BY EmmallocAssumption
<1>3. ASSUME NEW r \in S
      PROVE  NextRegion(h.words, r) <= HeapMax
  <2>1. PICK i \in DOMAIN h.roots : NextRegion(h.words, r) <= h.roots[i].end
    BY <1>1, InRoot
  <2>2. NextRegion(h.words, r) \in Nat
    BY <1>1, Neighbours
  <2>3. h.roots[i].end <= HeapMax /\ h.roots[i].end \in Nat
    <3>1. i \in 1..Len(h.roots) /\ h.roots \in Seq([start : Nat, end : Nat])
      BY <1>1, <2>1 DEF RootsOK
    <3>2. h.roots[i] \in [start : Nat, end : Nat]
      BY <3>1, ElementOfSeq
    <3> QED
      BY <1>1, <2>1, <3>2 DEF RootsOK
  <2> QED
    BY <1>2, <2>1, <2>2, <2>3
<1> QED
  BY <1>1, <1>2, <1>3

\* The regions from a up to b.
Inside(S, a, b) == {s \in S : a <= s /\ s < b}

\* The other regions end before a or begin after b.
LEMMA Outside ==
  ASSUME NEW ws, NEW S, NEW B, NEW E, Tiles(ws, S, B, E), NEW a \in S, NEW b \in S, a < b
  PROVE  \A s \in S \ Inside(S, a, b) :
            /\ s \in Nat /\ RegionOK(ws, s)
            /\ s < a \/ b <= s
            /\ s >= b \/ NextRegion(ws, s) <= a
<1>1. \A s, t \in S : s < t => NextRegion(ws, s) <= t
  BY DEF Tiles
<1>2. \A s \in S : s \in Nat /\ RegionOK(ws, s)
  BY DEF Tiles
<1> QED
  BY <1>1, <1>2 DEF Inside

\* One region takes the place from its start to its end.
LEMMA OneInside ==
  ASSUME NEW ws, NEW S, NEW B, NEW E, Tiles(ws, S, B, E), NEW a \in S
  PROVE  Inside(S, a, NextRegion(ws, a)) = {a}
<1>1. S \subseteq Nat /\ \A s, t \in S : s < t => NextRegion(ws, s) <= t
  BY DEF Tiles
<1>2. a < NextRegion(ws, a) /\ NextRegion(ws, a) \in Nat
  BY Neighbours
<1>3. ASSUME NEW s \in S, a <= s, s < NextRegion(ws, a)
      PROVE  s = a
  BY <1>1, <1>2, <1>3
<1>4. a <= a
  BY <1>1
<1> QED
  BY <1>2, <1>3, <1>4 DEF Inside

\* Two regions side by side.
LEMMA TwoInside ==
  ASSUME NEW ws, NEW S, NEW B, NEW E, Tiles(ws, S, B, E), NEW a \in S, NEW b,
         NEW q \in S, NextRegion(ws, a) = q, NextRegion(ws, q) = b
  PROVE  Inside(S, a, b) = {a, q}
<1>1. S \subseteq Nat /\ \A s, t \in S : s < t => NextRegion(ws, s) <= t
  BY DEF Tiles
<1>2. a < q /\ q < b /\ b \in Nat
  BY Neighbours
<1>3. ASSUME NEW s \in S, a <= s, s < b
      PROVE  s = a \/ s = q
  BY <1>1, <1>2, <1>3
<1>4. a <= a /\ a < b /\ a <= q
  BY <1>1, <1>2
<1> QED
  BY <1>2, <1>3, <1>4 DEF Inside

\* The regions of New lie side by side from a up to b.
Lays(w, New, a, b) ==
    /\ New \subseteq Nat /\ a \in New
    /\ \A r \in New : /\ RegionOK(w, r) /\ a <= r /\ NextRegion(w, r) <= b
                      /\ NextRegion(w, r) \in New \union {b}
    /\ \A r \in New \ {a} : \E p \in New : NextRegion(w, p) = r
    /\ \E p \in New : NextRegion(w, p) = b
    /\ \A r, s \in New : r < s => NextRegion(w, r) <= s

\* Heap c is heap h with the regions of New from a up to b.
Relays(h, S, c, New, a, b) ==
    LET ws == h.words
        w == c.words
        B == Begins(h.roots)
        Old == Inside(S, a, b)
    IN  /\ a \in S /\ b \in S \ B /\ a < b
        /\ \A r \in Old : NextRegion(ws, r) \in Old \union {b} /\ (r \in B => r = a)
        /\ \A r \in S \ Old : Keeps(ws, w, r)
        /\ Lays(w, New, a, b)
        /\ NoNewPair(ws, w, S, B, Old, New, a, b)
        /\ IsHeap(c) /\ c.roots = h.roots /\ c.brk = h.brk
        /\ Lists(c, w, (Frees(ws, S) \ Old) \union Frees(w, New))

\* What becomes of a heap then.
Relaid(h, S, c, New, a, b, T) ==
    /\ HeapOK(c, T)
    /\ UsedIn(c, T) = (UsedIn(h, S) \ Inside(S, a, b))
                         \union InUse(c.words, New \ Begins(h.roots))
    /\ \A u \in S \ Inside(S, a, b) : SizeOf(c.words, u) = SizeOf(h.words, u)
    /\ c.roots = h.roots /\ c.brk = h.brk

\* Such a heap is well formed, and the regions in use elsewhere are as they were.
LEMMA HeapRelaid ==
  ASSUME NEW h, NEW S, HeapOK(h, S), NEW c, NEW New, NEW a, NEW b,
         Relays(h, S, c, New, a, b)
  PROVE  Relaid(h, S, c, New, a, b, (S \ Inside(S, a, b)) \union New)
<1> DEFINE ws == h.words
           w == c.words
           B == Begins(h.roots)
           E == Ends(h.roots)
           Old == Inside(S, a, b)
           T == (S \ Old) \union New
<1>1. /\ a \in S /\ b \in S \ B /\ a < b
      /\ \A r \in Old : NextRegion(ws, r) \in Old \union {b} /\ (r \in B => r = a)
      /\ \A r \in S \ Old : Keeps(ws, w, r)
      /\ Lays(w, New, a, b)
      /\ NoNewPair(ws, w, S, B, Old, New, a, b)
      /\ IsHeap(c) /\ c.roots = h.roots /\ c.brk = h.brk
      /\ Lists(c, w, (Frees(ws, S) \ Old) \union Frees(w, New))
  BY DEF Relays
<1>2. Tiles(ws, S, B, E) /\ RootsOK(h.roots, h.brk)
  BY HeapFacts
<1> HIDE DEF ws, w, B, E
<1>3. a \in Nat
  BY <1>1, <1>2, Neighbours
<1>4. Old \subseteq S /\ a \in Old /\ \A r \in S : r \in Old <=> a <= r /\ r < b
  BY <1>1, <1>3 DEF Inside
<1> HIDE DEF Old
<1>5. Replaces(ws, w, S, B, Old, New, a, b)
  BY <1>1, <1>4 DEF Replaces, Lays
<1> HIDE DEF T
<1>6. Retiled(ws, w, S, B, E, Old, New, T)
  BY <1>1, <1>2, <1>5, Retile DEF T
<1>7. Tiles(w, T, B, E) /\ Frees(w, T) = (Frees(ws, S) \ Old) \union Frees(w, New)
  BY <1>6 DEF Retiled
<1>8. HeapOK(c, T)
  BY <1>1, <1>2, <1>7 DEF HeapOK, w, B, E
<1>9. UsedIn(c, T) = (UsedIn(h, S) \ Old) \union InUse(w, New \ B)
  BY <1>1, <1>6 DEF Retiled, UsedIn, ws, w, B, E
<1>10. \A u \in S \ Old : SizeOf(w, u) = SizeOf(ws, u)
  BY <1>1 DEF Keeps
<1> QED
  BY <1>1, <1>8, <1>9, <1>10 DEF T, Old, ws, w, B, Relaid

\* free merges a block with the free regions on its sides: no other block changes.
LEMMA ReleaseStep ==
  ASSUME NEW h, NEW S, HeapOK(h, S), NEW p, p - 1 \in UsedIn(h, S)
  PROVE  LET c == Release(h, p)
         IN  \E T : /\ HeapOK(c, T) /\ UsedIn(c, T) = UsedIn(h, S) \ {p - 1}
                    /\ c.roots = h.roots /\ c.brk = h.brk
                    /\ \A u \in UsedIn(c, T) : SizeOf(c.words, u) = SizeOf(h.words, u)
<1> DEFINE r == p - 1
           ws == h.words
           B == Begins(h.roots)
           E == Ends(h.roots)
           F == Frees(ws, S)
           next == NextRegion(ws, r)
           prev == PrevRegion(ws, r)
           left == LeftIsFree(ws, r)
           right == IsFree(ws, next)
           h1 == IF left THEN Unlink(h, prev) ELSE h
           h2 == IF right THEN Unlink(h1, next) ELSE h1
           a == IF left THEN prev ELSE r
           b == IF right THEN NextRegion(ws, next) ELSE next
           c == CreateAndLink(h2, a, b - a)
           Old == Inside(S, a, b)
           New == {a}
           w == c.words
<1>1. /\ Tiles(ws, S, B, E) /\ IsHeap(h) /\ Lists(h, ws, F)
      /\ HeapMax \in Nat /\ \A s \in S : NextRegion(ws, s) <= HeapMax
      /\ RootsOK(h.roots, h.brk)
  BY HeapFacts
<1>2. r \in S /\ r \notin B /\ ~IsFree(ws, r) /\ next \notin E
  BY DEF UsedIn, Used
<1>3. c = Release(h, p)
  BY DEF Release
<1> HIDE DEF r, ws, B, E, F, next, prev, left, right, h1, h2, a, b, c, w
<1>4. /\ r \in Nat /\ next \in Nat /\ r + 4 <= next /\ next \in S \ B
      /\ NextRegion(ws, r) = next
  <2>1. next \in (S \ B) \union E
    BY <1>1, <1>2 DEF Tiles, next
  <2> QED
    BY <1>1, <1>2, <2>1, Neighbours DEF next
<1>5. /\ prev \in S /\ NextRegion(ws, prev) = r /\ prev \in Nat /\ prev + 4 <= r
      /\ left <=> IsFree(ws, prev)
      /\ left => prev \notin B
  <2>1. PICK pr \in S : NextRegion(ws, pr) = r
    BY <1>1, <1>2 DEF Tiles
  <2>2. prev = pr /\ (left <=> IsFree(ws, pr)) /\ pr \in Nat /\ pr + 4 <= r
    BY <1>1, <1>2, <2>1, Neighbours DEF prev, left
  <2> QED
    BY <1>1, <2>1, <2>2, Neighbours
<1>24. right <=> IsFree(ws, next)
  BY DEF right
<1>6. right => /\ NextRegion(ws, next) \in S \ B /\ ~IsFree(ws, NextRegion(ws, next))
               /\ NextRegion(ws, next) \in Nat /\ next + 4 <= NextRegion(ws, next)
  BY <1>1, <1>4, <1>24, Neighbours
<1>7. /\ a \in Nat /\ b \in Nat /\ a + 4 <= b /\ a \in S \ B /\ b \in S \ B
      /\ ~IsFree(ws, b)
  BY <1>2, <1>4, <1>5, <1>6, <1>24 DEF a, b
<1>8. \A s, t \in S : s < t => NextRegion(ws, s) <= t
  BY <1>1 DEF Tiles
<1>9. \A s \in S : s \in Nat /\ NextRegion(ws, s) \in Nat
  BY <1>1, Neighbours
<1>10. Old = {r} \union (IF left THEN {prev} ELSE {}) \union (IF right THEN {next} ELSE {})
  <2>1. ASSUME NEW s \in Old, s < r
        PROVE  left /\ s = prev
    BY <1>4, <1>5, <1>8, <1>9, <2>1 DEF a, Inside
  <2>2. ASSUME NEW s \in Old, r < s
        PROVE  right /\ s = next
    <3>0. s \in S
      BY DEF Inside
    <3>1. next <= s /\ s \in Nat /\ s < b
      BY <1>2, <1>4, <1>8, <1>9, <2>2 DEF Inside
    <3>2. right
      BY <1>4, <3>1 DEF b
    <3>3. next < s => b <= s
      BY <1>4, <1>8, <3>0, <3>2 DEF b
    <3> QED
      BY <1>4, <1>6, <3>1, <3>2, <3>3 DEF b
  <2>3. r \in Old /\ (left => prev \in Old) /\ (right => next \in Old)
    BY <1>2, <1>4, <1>5, <1>6 DEF a, b, Inside
  <2>4. \A s \in Old : s = r \/ s < r \/ r < s
    BY <1>4, <1>9 DEF Inside
  <2> QED
    BY <2>1, <2>2, <2>3, <2>4
<1>11. /\ IsHeap(h2) /\ Lists(h2, ws, F \ Old)
       /\ h2.words = ws /\ h2.roots = h.roots /\ h2.brk = h.brk
  <2>1. r \notin F
    BY <1>2 DEF F, Frees
  <2>2. /\ IsHeap(h1) /\ Lists(h1, ws, IF left THEN F \ {prev} ELSE F)
        /\ h1.words = ws /\ h1.roots = h.roots /\ h1.brk = h.brk
    BY <1>1, UnlinkStep DEF h1, ws
  <2>3. /\ IsHeap(h2) /\ h2.words = ws /\ h2.roots = h.roots /\ h2.brk = h.brk
        /\ Lists(h2, ws, IF right THEN (IF left THEN F \ {prev} ELSE F) \ {next}
                         ELSE IF left THEN F \ {prev} ELSE F)
    BY <2>2, UnlinkStep DEF h2
  <2>4. F \ Old = IF right THEN (IF left THEN F \ {prev} ELSE F) \ {next}
                  ELSE IF left THEN F \ {prev} ELSE F
    BY <1>10, <2>1
  <2> QED
    BY <2>3, <2>4
<1>12. \A s \in S \ Old : /\ s \in Nat /\ RegionOK(ws, s)
                          /\ s >= b \/ NextRegion(ws, s) <= a
  <2>1. a \in S /\ b \in S /\ a < b
    BY <1>7
  <2> QED
    BY <1>1, <2>1, Outside
<1>14. b - a \in Nat /\ b - a >= Region /\ b - a <= HeapMax /\ a + (b - a) = b
  <2>1. b <= HeapMax
    <3>1. NextRegion(ws, next) <= HeapMax /\ NextRegion(ws, r) <= HeapMax
      BY <1>1, <1>2, <1>4
    <3> QED
      BY <3>1, <1>4 DEF b
  <2> QED
    BY <1>1, <1>7, <2>1 DEF Region
<1>15. F \subseteq S
  BY DEF F, Frees
<1>16. /\ IsHeap(c) /\ Lists(c, w, (F \ Old) \union {a})
       /\ w = WriteRegion(ws, a, b - a, TRUE) /\ c.roots = h.roots /\ c.brk = h.brk
  <2>1. a \in Old
    BY <1>7 DEF Inside
  <2>2. \A s \in F \ Old : /\ s \in Nat /\ RegionOK(h2.words, s)
                           /\ s >= a + (b - a) \/ NextRegion(h2.words, s) <= a
    BY <1>11, <1>12, <1>14, <1>15
  <2> DEFINE G == F \ Old
             n == b - a
  <2>3. /\ a \in Nat /\ n \in Nat /\ n >= Region /\ n <= HeapMax /\ IsHeap(h2)
        /\ Lists(h2, h2.words, G) /\ a \notin G
        /\ \A s \in G : /\ s \in Nat /\ RegionOK(h2.words, s)
                        /\ s >= a + n \/ NextRegion(h2.words, s) <= a
    BY <1>7, <1>11, <1>14, <2>1, <2>2
  <2>4. c = CreateAndLink(h2, a, n)
    BY DEF c
  <2> HIDE DEF G, n
  <2>5. /\ IsHeap(c) /\ Lists(c, c.words, G \union {a})
        /\ c.words = WriteRegion(h2.words, a, n, TRUE) /\ c.roots = h2.roots
        /\ c.brk = h2.brk
    BY <2>3, <2>4, CreateAndLinkStep
  <2> QED
    BY <1>11, <2>5 DEF w, G, n
<1>17. /\ RegionOK(w, a) /\ SizeOf(w, a) = b - a /\ IsFree(w, a)
       /\ \A s \in S \ Old : Keeps(ws, w, s)
  <2>1. \A s \in Nat : RegionOK(ws, s) /\ (s >= b \/ NextRegion(ws, s) <= a) => Keeps(ws, w, s)
    BY <1>7, <1>14, <1>16, Written
  <2>2. RegionOK(w, a) /\ SizeOf(w, a) = b - a /\ IsFree(w, a)
    BY <1>7, <1>14, <1>16, WrittenFree
  <2> QED
    BY <1>12, <2>1, <2>2
<1>18. NextRegion(w, a) = b
  BY <1>7, <1>17 DEF NextRegion
<1>19. NoNewPair(ws, w, S, B, Old, New, a, b)
  <2>1. ASSUME NEW q \in S \ Old, NextRegion(ws, q) = a, IsFree(ws, q)
        PROVE  FALSE
    <3>1. ~IsFree(ws, a)
      BY <1>1, <2>1, Neighbours
    <3>2. ~left /\ a = r
      BY <1>5, <3>1 DEF a
    <3>3. q = prev
      BY <1>1, <1>5, <2>1, <3>2, Neighbours
    <3> QED
      BY <1>5, <2>1, <3>2, <3>3
  <2> QED
    BY <1>7, <1>18, <2>1 DEF NoNewPair
<1>20. Lays(w, New, a, b) /\ Frees(w, New) = {a} /\ InUse(w, New \ B) = {}
  <2>1. a \in Nat /\ b \in Nat /\ a <= a /\ b <= b
    BY <1>7
  <2> QED
    BY <1>17, <1>18, <2>1 DEF Lays, Frees, InUse
<1>21. Relays(h, S, c, New, a, b)
  <2>1. \A s \in Old : NextRegion(ws, s) \in Old \union {b}
    BY <1>4, <1>5, <1>6, <1>10 DEF a, b
  <2>2. \A s \in Old : s \notin B
    BY <1>2, <1>4, <1>5, <1>10
  <2>3. a < b
    BY <1>7
  <2> HIDE DEF Old, New
  <2> QED
    BY <1>7, <1>16, <1>17, <1>19, <1>20, <2>1, <2>2, <2>3 DEF Relays, ws, w, B, F, Old
<1> DEFINE T == (S \ Old) \union New
<1>22. /\ HeapOK(c, T)
       /\ UsedIn(c, T) = (UsedIn(h, S) \ Old) \union InUse(w, New \ B)
       /\ \A u \in S \ Old : SizeOf(w, u) = SizeOf(ws, u)
  <2> HIDE DEF New, T
  <2>1. Relaid(h, S, c, New, a, b, T)
    BY <1>21, HeapRelaid DEF T, Old
  <2> QED
    BY <2>1 DEF Relaid, ws, w, B
<1>23. UsedIn(c, T) = UsedIn(h, S) \ {r} /\ UsedIn(c, T) \subseteq S \ Old
  <2>1. \A s \in Old : s # r => s \notin UsedIn(h, S)
    BY <1>5, <1>24, <1>10 DEF UsedIn, Used, ws
  <2>2. r \in Old /\ UsedIn(h, S) \subseteq S
    BY <1>10 DEF UsedIn, Used
  <2> QED
    BY <1>20, <1>22, <2>1, <2>2
<1>25. \A u \in UsedIn(c, T) : SizeOf(w, u) = SizeOf(ws, u)
  BY <1>22, <1>23
<1>26. HeapOK(c, T) /\ UsedIn(c, T) = UsedIn(h, S) \ {p - 1}
  BY <1>22, <1>23 DEF r
<1> HIDE DEF T
<1> QED
  BY <1>3, <1>16, <1>25, <1>26 DEF ws, w

-----------------------------------------------------------------------------
(***************************************************************************)
(* Writing regions one after the other                                     *)
(***************************************************************************)
\* Heap g is heap h without its regions from a up to b, and with those of New there.
Writes(h, S, g, New, a, b) ==
    LET ws == h.words
        w == g.words
        Old == Inside(S, a, b)
    IN  /\ IsHeap(g) /\ g.roots = h.roots /\ g.brk = h.brk
        /\ \A s \in S \ Old : Keeps(ws, w, s)
        /\ New \subseteq Nat
        /\ \A r \in New : RegionOK(w, r) /\ a <= r /\ NextRegion(w, r) <= b
        /\ Lists(g, w, (Frees(ws, S) \ Old) \union Frees(w, New))

\* There is room for n words at m.
HasRoom(h, S, g, New, a, b, m, n) ==
    /\ a \in S /\ b \in S /\ a < b /\ Writes(h, S, g, New, a, b)
    /\ m \in Nat /\ n \in Nat /\ n >= Region /\ a <= m /\ m + n <= b
    /\ \A r \in New : r >= m + n \/ NextRegion(g.words, r) <= m

\* Heap c has a region more, and the others.
HasOneMore(h, S, g, New, a, b, m, n, c) ==
    /\ Writes(h, S, c, New \union {m}, a, b)
    /\ NextRegion(c.words, m) = m + n /\ SizeOf(c.words, m) = n
    /\ \A r \in New : Keeps(g.words, c.words, r)

\* One more region, beside the others.
LEMMA WriteOne ==
  ASSUME NEW h, NEW S, HeapOK(h, S), NEW a, NEW b, NEW g, NEW New, NEW m, NEW n,
         HasRoom(h, S, g, New, a, b, m, n)
  PROVE  /\ LET c == CreateUsed(g, m, n)
            IN  HasOneMore(h, S, g, New, a, b, m, n, c) /\ ~IsFree(c.words, m)
         /\ LET c == CreateAndLink(g, m, n)
            IN  HasOneMore(h, S, g, New, a, b, m, n, c) /\ IsFree(c.words, m)
<1>0. /\ a \in S /\ b \in S /\ a < b /\ Writes(h, S, g, New, a, b)
      /\ m \in Nat /\ n \in Nat /\ n >= Region /\ a <= m /\ m + n <= b
      /\ \A r \in New : r >= m + n \/ NextRegion(g.words, r) <= m
  BY DEF HasRoom
<1> DEFINE ws == h.words
           v == g.words
           Old == Inside(S, a, b)
           G == (Frees(ws, S) \ Old) \union Frees(v, New)
<1>1. /\ IsHeap(g) /\ g.roots = h.roots /\ g.brk = h.brk
      /\ \A s \in S \ Old : Keeps(ws, v, s)
      /\ New \subseteq Nat
      /\ \A r \in New : RegionOK(v, r) /\ a <= r /\ NextRegion(v, r) <= b
      /\ Lists(g, v, G)
  BY <1>0 DEF Writes
<1>2. /\ Tiles(ws, S, Begins(h.roots), Ends(h.roots)) /\ HeapMax \in Nat
      /\ \A s \in S : NextRegion(ws, s) <= HeapMax
  BY HeapFacts
<1>3. a \in Nat /\ b \in Nat /\ b <= HeapMax
  <2>1. a \in Nat /\ b \in Nat /\ b < NextRegion(ws, b) /\ NextRegion(ws, b) \in Nat
    BY <1>0, <1>2, Neighbours
  <2> QED
    BY <1>0, <1>2, <2>1
<1>4. \A s \in S \ Old : /\ s \in Nat /\ RegionOK(ws, s)
                         /\ s >= b \/ NextRegion(ws, s) <= a
  BY <1>0, <1>2, Outside
<1>5. \A s \in S \ Old : /\ RegionOK(v, s)
                         /\ s \in Nat /\ (s >= m + n \/ NextRegion(v, s) <= m)
                         /\ IsFree(v, s) = IsFree(ws, s)
  <2> TAKE s \in S \ Old
  <2>1. Keeps(ws, v, s)
    BY <1>0, <1>1
  <2>2. RegionOK(v, s) /\ NextRegion(v, s) = NextRegion(ws, s) /\ IsFree(v, s) = IsFree(ws, s)
    BY <1>0, <1>4, <2>1, KeptRegion
  <2>3. NextRegion(v, s) \in Nat
    BY <1>0, <1>4, <2>2 DEF RegionOK, NextRegion
  <2> QED
    BY <1>0, <1>3, <1>4, <2>2, <2>3
<1>6. \A s \in G : /\ s \in Nat /\ RegionOK(v, s)
                   /\ s >= m + n \/ NextRegion(v, s) <= m
  BY <1>0, <1>1, <1>5 DEF Frees
<1>7. m \notin G
  <2>1. \A s \in G : NextRegion(v, s) \in Nat /\ s < NextRegion(v, s)
    BY <1>0, <1>6 DEF RegionOK, NextRegion, Region
  <2> QED
    BY <1>0, <1>6, <2>1 DEF Region
<1>8. n <= HeapMax
  BY <1>0, <1>2, <1>3
<1> HIDE DEF ws, v, Old
<1>9. ASSUME NEW c, NEW f, c.words = WriteRegion(v, m, n, f),
             RegionOK(c.words, m), NextRegion(c.words, m) = m + n, SizeOf(c.words, m) = n,
             IsHeap(c), c.roots = g.roots, c.brk = g.brk,
             Lists(c, c.words, G \union Frees(c.words, {m}))
      PROVE  HasOneMore(h, S, g, New, a, b, m, n, c)
  <2> DEFINE w == c.words
  <2>1. \A s \in Nat : RegionOK(v, s) /\ (s >= m + n \/ NextRegion(v, s) <= m)
           => Keeps(v, w, s)
    BY <1>0, <1>9, Written
  <2>2. \A s \in S \ Old : Keeps(v, w, s)
    BY <1>0, <1>5, <2>1
  <2>3. \A s \in S \ Old : Keeps(ws, w, s)
    BY <1>0, <1>1, <2>2, KeptTwice
  <2>4. \A r \in New : Keeps(v, w, r)
    BY <1>0, <1>1, <2>1 DEF v
  <2>5. \A r \in New : /\ RegionOK(w, r) /\ NextRegion(w, r) = NextRegion(v, r)
                       /\ IsFree(w, r) = IsFree(v, r)
    BY <1>0, <1>1, <2>4, KeptRegion
  <2>6. G \union Frees(w, {m}) = (Frees(ws, S) \ Old) \union Frees(w, New \union {m})
    BY <1>0, <2>5 DEF Frees
  <2> HIDE DEF w, G
  <2>7. \A r \in New \union {m} : RegionOK(w, r) /\ a <= r /\ NextRegion(w, r) <= b
    BY <1>0, <1>1, <1>9, <2>5 DEF w
  <2>8. Lists(c, w, (Frees(ws, S) \ Old) \union Frees(w, New \union {m}))
    BY <1>0, <1>9, <2>6 DEF w
  <2>9. New \union {m} \subseteq Nat
    BY <1>0, <1>1
  <2> QED
    BY <1>0, <1>1, <1>9, <2>3, <2>4, <2>7, <2>8, <2>9 DEF Writes, w, ws, Old, v, HasOneMore
<1> HIDE DEF G
<1>10. LET c == CreateUsed(g, m, n)
       IN  HasOneMore(h, S, g, New, a, b, m, n, c) /\ ~IsFree(c.words, m)
  <2> DEFINE c == CreateUsed(g, m, n)
  <2>1. /\ IsHeap(c) /\ Lists(c, c.words, G)
        /\ c.words = WriteRegion(v, m, n, FALSE) /\ c.roots = g.roots
        /\ c.brk = g.brk
    BY <1>0, <1>1, <1>6, CreateUsedStep DEF v
  <2> DEFINE w == c.words
  <2> HIDE DEF c, w
  <2>6. w = WriteRegion(v, m, n, FALSE)
    BY <1>0, <2>1 DEF w
  <2>7. RegionOK(w, m) /\ NextRegion(w, m) = m + n /\ SizeOf(w, m) = n /\ ~IsFree(w, m)
    BY <1>0, <2>6, WrittenUsed
  <2>2. /\ RegionOK(c.words, m) /\ NextRegion(c.words, m) = m + n
        /\ SizeOf(c.words, m) = n /\ ~IsFree(c.words, m)
    BY <1>0, <2>7 DEF w
  <2>3. G \union Frees(c.words, {m}) = G
    BY <1>0, <2>2 DEF Frees
  <2>4. \A f : c.words = WriteRegion(v, m, n, f) =>
           HasOneMore(h, S, g, New, a, b, m, n, c)
    BY <1>0, <1>9, <2>1, <2>2, <2>3
  <2>5. HasOneMore(h, S, g, New, a, b, m, n, c)
    BY <1>0, <2>1, <2>4, Zenon
  <2> QED
    BY <1>0, <2>2, <2>5 DEF c
<1>11. LET c == CreateAndLink(g, m, n)
       IN  HasOneMore(h, S, g, New, a, b, m, n, c) /\ IsFree(c.words, m)
  <2> DEFINE c == CreateAndLink(g, m, n)
  <2>1. /\ IsHeap(c) /\ Lists(c, c.words, G \union {m})
        /\ c.words = WriteRegion(v, m, n, TRUE) /\ c.roots = g.roots
        /\ c.brk = g.brk
    <3>1. Linkable(g, G, m, n)
      BY <1>0, <1>1, <1>6, <1>7, <1>8 DEF Linkable, v
    <3> HIDE DEF c
    <3>2. LinkedFirst(g, G, m, n, c)
      BY <3>1, LinkFirst DEF c
    <3> QED
      BY <3>2 DEF LinkedFirst, v
  <2> DEFINE w == c.words
  <2> HIDE DEF c, w
  <2>6. w = WriteRegion(v, m, n, TRUE)
    BY <1>0, <2>1 DEF w
  <2>7. RegionOK(w, m) /\ NextRegion(w, m) = m + n /\ SizeOf(w, m) = n /\ IsFree(w, m)
    BY <1>0, <2>6, WrittenFree
  <2>2. /\ RegionOK(c.words, m) /\ NextRegion(c.words, m) = m + n
        /\ SizeOf(c.words, m) = n /\ IsFree(c.words, m)
    BY <1>0, <2>7 DEF w
  <2>3. Frees(c.words, {m}) = {m}
    BY <1>0, <2>2 DEF Frees
  <2>4. \A f : c.words = WriteRegion(v, m, n, f) =>
           HasOneMore(h, S, g, New, a, b, m, n, c)
    BY <1>0, <1>9, <2>1, <2>2, <2>3
  <2>5. HasOneMore(h, S, g, New, a, b, m, n, c)
    BY <1>0, <2>1, <2>4, Zenon
  <2> QED
    BY <1>0, <2>2, <2>5 DEF c
<1> QED
  BY <1>0, <1>10, <1>11 DEF v

\* Writing that leaves no gap makes a heap.
LEMMA Rewritten ==
  ASSUME NEW h, NEW S, HeapOK(h, S), NEW a \in S, NEW b \in S \ Begins(h.roots), a < b,
         NEW c, NEW New, Writes(h, S, c, New, a, b), a \in New, ~IsFree(c.words, a),
         \A r \in Inside(S, a, b) : /\ NextRegion(h.words, r) \in Inside(S, a, b) \union {b}
                                    /\ r \in Begins(h.roots) => r = a,
         \A r \in New : NextRegion(c.words, r) \in New \union {b},
         \A r \in New \ {a} : \E p \in New : NextRegion(c.words, p) = r,
         \E p \in New : NextRegion(c.words, p) = b,
         \A r, s \in New : r < s => NextRegion(c.words, r) <= s,
         \A r \in New : IsFree(c.words, r) => NextRegion(c.words, r) = b /\ ~IsFree(h.words, b)
  PROVE  Relaid(h, S, c, New, a, b, (S \ Inside(S, a, b)) \union New)
<1> DEFINE ws == h.words
           w == c.words
           B == Begins(h.roots)
           Old == Inside(S, a, b)
<1>1. /\ IsHeap(c) /\ c.roots = h.roots /\ c.brk = h.brk
      /\ \A s \in S \ Old : Keeps(ws, w, s)
      /\ New \subseteq Nat
      /\ \A r \in New : RegionOK(w, r) /\ a <= r /\ NextRegion(w, r) <= b
      /\ Lists(c, w, (Frees(ws, S) \ Old) \union Frees(w, New))
  BY DEF Writes
<1>2. NoNewPair(ws, w, S, B, Old, New, a, b)
  BY DEF NoNewPair
<1>3. Lays(w, New, a, b)
  BY <1>1 DEF Lays
<1>4. Relays(h, S, c, New, a, b)
  BY <1>1, <1>2, <1>3 DEF Relays
<1> QED
  BY <1>4, HeapRelaid

\* What a step leaves of the blocks that are not in X: the step keeps them.
Leaves(h, S, c, T, X) ==
    /\ HeapOK(c, T) /\ c.roots = h.roots /\ c.brk = h.brk
    /\ \A u \in UsedIn(h, S) \ X : u \in UsedIn(c, T) /\ SizeOf(c.words, u) = SizeOf(h.words, u)

\* A block is resized in place, or nothing happens: no other block changes.
Resized(h, S, r, size, x) ==
    \E T : /\ Leaves(h, S, x.heap, T, {r}) /\ UsedIn(x.heap, T) = UsedIn(h, S)
           /\ x.ok \in BOOLEAN
           /\ x.ok => SizeOf(x.heap.words, r) >= size
           /\ ~x.ok => x.heap = h

\* attempt_region_resize.
LEMMA ResizeStep ==
  ASSUME NEW h, NEW S, HeapOK(h, S), NEW r \in UsedIn(h, S), NEW size \in Nat, size >= Region
  PROVE  Resized(h, S, r, size, Resize(h, r, size))
<1> DEFINE ws == h.words
           B == Begins(h.roots)
           E == Ends(h.roots)
           F == Frees(ws, S)
           next == NextRegion(ws, r)
           end == NextRegion(ws, next)
           x == Resize(h, r, size)
<1> SUFFICES Resized(h, S, r, size, x)
  OBVIOUS
<1>1. /\ Tiles(ws, S, B, E) /\ IsHeap(h) /\ Lists(h, ws, F)
      /\ HeapMax \in Nat /\ \A s \in S : NextRegion(ws, s) <= HeapMax
      /\ RootsOK(h.roots, h.brk)
  BY HeapFacts
<1>2. r \in S /\ r \notin B /\ ~IsFree(ws, r) /\ next \notin E
  BY DEF UsedIn, Used
<1> HIDE DEF ws, B, E, F, next, end, x
<1>3. /\ r \in Nat /\ next \in Nat /\ r + 4 <= next /\ next \in S \ B
      /\ next = r + SizeOf(ws, r) /\ SizeOf(ws, r) \in Nat
      /\ NextRegion(ws, r) = next
  <2>1. next \in (S \ B) \union E
    BY <1>1, <1>2 DEF Tiles, next
  <2> QED
    BY <1>1, <1>2, <2>1, Neighbours DEF next
<1>4. IsFree(ws, next) => /\ end \in S \ B /\ ~IsFree(ws, end)
                          /\ end \in Nat /\ next + 4 <= end
  BY <1>1, <1>3, Neighbours DEF end
<1>5. F \subseteq S /\ r \notin F /\ (next \in F <=> IsFree(ws, next))
  BY <1>2, <1>3 DEF F, Frees
<1>6. Inside(S, r, next) = {r}
  BY <1>1, <1>2, OneInside DEF next
<1>7. IsFree(ws, next) => Inside(S, r, end) = {r, next}
  BY <1>1, <1>2, <1>3, TwoInside DEF end
\* With the next region when it is free.
<1>8. ASSUME IsFree(ws, next)
      PROVE  LET g == Unlink(h, next)
             IN  Writes(h, S, g, {}, r, end)
  <2> DEFINE g == Unlink(h, next)
  <2>1. /\ IsHeap(g) /\ Lists(g, ws, F \ {next})
        /\ g.words = ws /\ g.roots = h.roots /\ g.brk = h.brk
    BY <1>1, UnlinkStep DEF ws
  <2> HIDE DEF g
  <2>2. (F \ Inside(S, r, end)) \union Frees(ws, {}) = F \ {next}
    BY <1>5, <1>7, <1>8 DEF Frees
  <2>3. \A s \in S : Keeps(ws, ws, s)
    BY DEF Keeps
  <2>4. Lists(g, ws, (F \ Inside(S, r, end)) \union Frees(ws, {}))
    BY <2>1, <2>2
  <2> QED
    BY <2>1, <2>3, <2>4 DEF Writes, F, g, ws
<1>9. Writes(h, S, h, {}, r, next)
  <2>2. (F \ Inside(S, r, next)) \union Frees(ws, {}) = F
    BY <1>5, <1>6 DEF Frees
  <2>3. \A s \in S : Keeps(ws, ws, s)
    BY DEF Keeps
  <2>4. Lists(h, ws, (F \ Inside(S, r, next)) \union Frees(ws, {}))
    BY <1>1, <2>2
  <2> QED
    BY <1>1, <2>3, <2>4 DEF Writes, F, ws
\* What each way of resizing leaves.
<1>10. ASSUME NEW c, NEW New, NEW b \in S \ B, r < b, ~IsFree(ws, b),
              Writes(h, S, c, New, r, b),
              b = next \/ (IsFree(ws, next) /\ b = end),
              ~IsFree(c.words, r), SizeOf(c.words, r) >= size,
              \/ New = {r} /\ NextRegion(c.words, r) = b
              \/ /\ New = {r, r + size} /\ NextRegion(c.words, r) = r + size
                 /\ IsFree(c.words, r + size) /\ NextRegion(c.words, r + size) = b,
              x = [ok |-> TRUE, heap |-> c]
       PROVE  Resized(h, S, r, size, x)
  <2> DEFINE T == (S \ Inside(S, r, b)) \union New
             Old == Inside(S, r, b)
  <2>1. /\ Old = IF b = next THEN {r} ELSE {r, next}
        /\ \A s \in Old : /\ NextRegion(ws, s) \in Old \union {b} /\ (s \in B => s = r)
                          /\ s # r => IsFree(ws, s)
    BY <1>2, <1>3, <1>6, <1>7, <1>10 DEF end
  <2> HIDE DEF Old
  <2>2. /\ r \in New /\ \A s \in New : NextRegion(c.words, s) \in New \union {b}
        /\ \A s \in New \ {r} : \E p \in New : NextRegion(c.words, p) = s
        /\ \E p \in New : NextRegion(c.words, p) = b
        /\ \A s \in New : IsFree(c.words, s) => NextRegion(c.words, s) = b
    BY <1>10
  <2>3. \A s, t \in New : s < t => NextRegion(c.words, s) <= t
    BY <1>3, <1>10 DEF Region
  <2> HIDE DEF T
  <2>4. Relaid(h, S, c, New, r, b, T)
    BY <1>2, <1>10, <2>1, <2>2, <2>3, Rewritten DEF T, Old, ws, B
  <2>5. InUse(c.words, New \ B) = {r}
    BY <1>2, <1>10 DEF InUse
  <2>6. /\ HeapOK(c, T) /\ UsedIn(c, T) = (UsedIn(h, S) \ Old) \union {r}
        /\ \A u \in S \ Old : SizeOf(c.words, u) = SizeOf(ws, u)
        /\ c.roots = h.roots /\ c.brk = h.brk
    BY <2>4, <2>5 DEF Relaid, ws, B, Old
  <2>7. \A s \in Old : s # r => s \notin UsedIn(h, S)
    BY <2>1 DEF UsedIn, Used, ws
  <2>8. UsedIn(c, T) = UsedIn(h, S) /\ UsedIn(h, S) \subseteq S
    <3>1. UsedIn(h, S) \subseteq S /\ r \in UsedIn(h, S)
      BY DEF UsedIn, Used
    <3> QED
      BY <2>6, <2>7, <3>1
  <2>9. Leaves(h, S, c, T, {r})
    BY <2>6, <2>7, <2>8 DEF Leaves, ws
  <2> QED
    BY <1>10, <2>8, <2>9 DEF Resized
<1>11. CASE IsFree(ws, next) /\ r + size + Region <= end
  <2> DEFINE g == Unlink(h, next)
             m == r + size
             n == end - r - size
             d == CreateAndLink(g, m, n)
             c == CreateUsed(d, r, size)
  <2>1. x = [ok |-> TRUE, heap |-> c]
    BY <1>11 DEF x, Resize, ws, next, end
  <2>2. /\ r < end /\ end \in S \ B /\ ~IsFree(ws, end) /\ end \in Nat /\ end = m + n
        /\ m \in Nat /\ n \in Nat /\ n >= Region /\ r <= m /\ m + n <= end
        /\ r + size <= end /\ m >= r + size /\ r \in S /\ end \in S
    BY <1>2, <1>3, <1>4, <1>11 DEF Region
  <2>3. Writes(h, S, g, {}, r, end)
    BY <1>8, <1>11
  <2> HIDE DEF g, m, n
  <2>4. Writes(h, S, d, {m}, r, end) /\ NextRegion(d.words, m) = m + n /\ IsFree(d.words, m)
    <3>1. {} \union {m} = {m}
      OBVIOUS
    <3>2. HasRoom(h, S, g, {}, r, end, m, n)
      BY <2>2, <2>3 DEF HasRoom
    <3>3. HasOneMore(h, S, g, {}, r, end, m, n, d) /\ IsFree(d.words, m)
      BY <3>2, WriteOne
    <3> QED
      BY <3>1, <3>3 DEF HasOneMore
  <2> HIDE DEF d
  <2>5. /\ Writes(h, S, c, {m} \union {r}, r, end) /\ NextRegion(c.words, r) = r + size
        /\ ~IsFree(c.words, r) /\ Keeps(d.words, c.words, m)
    <3>1. r <= r
      BY <1>3
    <3>2. HasRoom(h, S, d, {m}, r, end, r, size)
      BY <1>3, <2>2, <2>4, <3>1 DEF HasRoom
    <3>3. HasOneMore(h, S, d, {m}, r, end, r, size, c) /\ ~IsFree(c.words, r)
      BY <3>2, WriteOne
    <3> QED
      BY <3>3 DEF HasOneMore
  <2> HIDE DEF c
  <2>6. NextRegion(c.words, m) = end /\ IsFree(c.words, m)
    BY <2>2, <2>4, <2>5, KeptRegion
  <2>7. SizeOf(c.words, r) >= size
    <3>1. RegionOK(c.words, r)
      BY <2>5 DEF Writes
    <3> QED
      BY <1>3, <2>5, <3>1 DEF NextRegion, RegionOK
  <2>8. {m} \union {r} = {r, r + size} /\ m = r + size
    BY DEF m
  <2> QED
    BY <1>10, <1>11, <2>1, <2>2, <2>5, <2>6, <2>7, <2>8
<1>12. CASE IsFree(ws, next) /\ ~(r + size + Region <= end) /\ r + size <= end
  <2> DEFINE g == Unlink(h, next)
             n == end - r
             c == CreateUsed(g, r, n)
  <2>1. x = [ok |-> TRUE, heap |-> c]
    BY <1>12 DEF x, Resize, ws, next, end
  <2>2. /\ r < end /\ end \in S \ B /\ ~IsFree(ws, end) /\ end \in Nat /\ end = r + n
        /\ n \in Nat /\ n >= Region /\ n >= size /\ r <= r /\ r + n <= end
        /\ r \in S /\ end \in S
    BY <1>2, <1>3, <1>4, <1>12 DEF Region
  <2>3. Writes(h, S, g, {}, r, end)
    BY <1>8, <1>12
  <2> HIDE DEF g, n
  <2>4. Writes(h, S, c, {r}, r, end) /\ NextRegion(c.words, r) = end /\ ~IsFree(c.words, r)
    <3>1. {} \union {r} = {r}
      OBVIOUS
    <3>2. HasRoom(h, S, g, {}, r, end, r, n)
      BY <1>3, <2>2, <2>3 DEF HasRoom
    <3>3. HasOneMore(h, S, g, {}, r, end, r, n, c) /\ ~IsFree(c.words, r)
      BY <3>2, WriteOne
    <3> QED
      BY <2>2, <3>1, <3>3 DEF HasOneMore
  <2> HIDE DEF c
  <2>5. SizeOf(c.words, r) >= size
    <3>1. RegionOK(c.words, r)
      BY <2>4 DEF Writes
    <3> QED
      BY <1>3, <2>2, <2>4, <3>1 DEF NextRegion, RegionOK
  <2> QED
    BY <1>10, <1>12, <2>1, <2>2, <2>4, <2>5
<1>13. CASE ~IsFree(ws, next) /\ size + Region <= SizeOf(ws, r)
  <2> DEFINE m == r + size
             n == SizeOf(ws, r) - size
             d == CreateUsed(h, r, size)
             c == CreateAndLink(d, m, n)
  <2>1. x = [ok |-> TRUE, heap |-> c]
    BY <1>13 DEF x, Resize, ws, next
  <2>2. /\ r < next /\ next \in S \ B /\ next = m + n
        /\ m \in Nat /\ n \in Nat /\ n >= Region /\ r <= m /\ m + n <= next
        /\ r + size <= next /\ r + size <= m /\ r \in S /\ next \in S /\ r <= r
    BY <1>2, <1>3, <1>13 DEF Region
  <2> HIDE DEF m, n
  <2>4. Writes(h, S, d, {r}, r, next) /\ NextRegion(d.words, r) = r + size /\ ~IsFree(d.words, r)
    <3>1. {} \union {r} = {r}
      OBVIOUS
    <3>2. HasRoom(h, S, h, {}, r, next, r, size)
      BY <1>3, <1>9, <2>2 DEF HasRoom
    <3>3. HasOneMore(h, S, h, {}, r, next, r, size, d) /\ ~IsFree(d.words, r)
      BY <3>2, WriteOne
    <3> QED
      BY <3>1, <3>3 DEF HasOneMore
  <2> HIDE DEF d
  <2>5. /\ Writes(h, S, c, {r} \union {m}, r, next) /\ NextRegion(c.words, m) = m + n
        /\ IsFree(c.words, m) /\ Keeps(d.words, c.words, r)
    <3>2. HasRoom(h, S, d, {r}, r, next, m, n)
      BY <2>2, <2>4 DEF HasRoom
    <3>3. HasOneMore(h, S, d, {r}, r, next, m, n, c) /\ IsFree(c.words, m)
      BY <3>2, WriteOne
    <3> QED
      BY <3>3 DEF HasOneMore
  <2> HIDE DEF c
  <2>6. NextRegion(c.words, r) = r + size /\ ~IsFree(c.words, r)
    BY <2>4, <2>5, KeptRegion
  <2>7. SizeOf(c.words, r) >= size
    <3>1. RegionOK(c.words, r)
      BY <2>5 DEF Writes
    <3> QED
      BY <1>3, <2>6, <3>1 DEF NextRegion, RegionOK
  <2>8. {r} \union {m} = {r, r + size} /\ m = r + size
    BY DEF m
  <2> QED
    BY <1>10, <1>13, <2>1, <2>2, <2>5, <2>6, <2>7, <2>8
<1>14. CASE /\ ~(IsFree(ws, next) /\ r + size <= end)
            /\ ~(~IsFree(ws, next) /\ size + Region <= SizeOf(ws, r))
  <2>1. r + size + Region <= end /\ IsFree(ws, next) => r + size <= end
    BY <1>3, <1>4 DEF Region
  <2>2. x = [ok |-> ~IsFree(ws, next) /\ size <= SizeOf(ws, r), heap |-> h]
    BY <1>14, <2>1 DEF x, Resize, ws, next, end
  <2>3. x.heap = h /\ x.ok \in BOOLEAN /\ (x.ok => size <= SizeOf(ws, r))
    BY <2>2
  <2>4. Leaves(h, S, h, S, {r})
    BY DEF Leaves
  <2> QED
    BY <1>3, <2>3, <2>4 DEF ws, Resized
<1>15. r + size + Region <= end => r + size <= end \/ ~IsFree(ws, next)
  BY <1>3, <1>4 DEF Region
<1> QED
  BY <1>11, <1>12, <1>13, <1>14, <1>15

-----------------------------------------------------------------------------
(***************************************************************************)
(* Allocation                                                              *)
(***************************************************************************)
\* The payload of a region, and the multiple of the alignment it starts at.
LEMMA Aligned ==
  ASSUME NEW x \in Nat, NEW a \in Nat \ {0}
  PROVE  /\ AlignUp(x, a) \in Nat /\ x <= AlignUp(x, a) /\ AlignUp(x, a) < x + a
         /\ AlignUp(x, a) % a = 0
<1> DEFINE q == (x + a - 1) \div a
<1>1. q \in Nat /\ q * a <= x + a - 1 /\ x + a - 1 < q * a + a
  OBVIOUS
<1>2. AlignUp(x, a) = q * a
  BY DEF AlignUp
<1> HIDE DEF q
<1>3. (q * a) % a = 0 /\ q * a \in Nat
  BY <1>1
<1> QED
  BY <1>1, <1>2, <1>3

\* A block more, of the size and the alignment asked for.  The other blocks
\* stay; the one before may grow.
Carved(h, S, r, align, size, c) ==
    \E T : /\ HeapOK(c, T) /\ c.roots = h.roots /\ c.brk = h.brk
           /\ Payload(r, align) - 1 \notin UsedIn(h, S)
           /\ UsedIn(c, T) = UsedIn(h, S) \union {Payload(r, align) - 1}
           /\ SizeOf(c.words, Payload(r, align) - 1) >= size + Header
           /\ \A u \in UsedIn(h, S) : SizeOf(c.words, u) >= SizeOf(h.words, u)

\* attempt_allocate, in a free region that fits.
LEMMA CarveStep ==
  ASSUME NEW h, NEW S, HeapOK(h, S), NEW r \in Frees(h.words, S), NEW align \in Nat \ {0},
         NEW size \in Nat, size >= Header, Fits(h, r, align, size)
  PROVE  Carved(h, S, r, align, size, Carve(h, r, align, size))
<1> DEFINE ws == h.words
           B == Begins(h.roots)
           E == Ends(h.roots)
           F == Frees(ws, S)
           b == NextRegion(ws, r)
           p == Payload(r, align)
           bump == p - (r + 1)
           prev == PrevRegion(ws, r)
           room_ == SizeOf(ws, r) - bump
           new == r + bump
           g == Unlink(h, r)
           h2 == IF bump = 0 THEN g ELSE CreateUsed(g, prev, SizeOf(ws, prev) + bump)
           m == new + Header + size
           n == room_ - size - Header
           c == Carve(h, r, align, size)
           a == IF bump = 0 THEN r ELSE prev
           Old == Inside(S, a, b)
           New2 == IF bump = 0 THEN {} ELSE {prev}
<1> SUFFICES Carved(h, S, r, align, size, c)
  OBVIOUS
<1>1. /\ Tiles(ws, S, B, E) /\ IsHeap(h) /\ Lists(h, ws, F)
  BY HeapFacts
<1>2. r \in S /\ IsFree(ws, r)
  BY DEF Frees
<1>3. c = IF Region + Header + size <= room_
          THEN CreateUsed(CreateAndLink(h2, m, n), new, size + Header)
          ELSE CreateUsed(h2, new, room_)
  BY DEF Carve
<1>4. p + size <= r + SizeOf(ws, r) - 1
  BY DEF Fits
<1> HIDE DEF ws, B, E, F, b, prev, room_, g, h2, c, a, Old, New2
<1>5. /\ r \in Nat /\ b = r + SizeOf(ws, r) /\ SizeOf(ws, r) \in Nat /\ b \in S \ B
      /\ r \notin B /\ ~IsFree(ws, b) /\ b \in Nat /\ r + 4 <= b
      /\ NextRegion(ws, r) = b
  BY <1>1, <1>2, Neighbours DEF b
<1>6. /\ p \in Nat /\ r + 1 <= p /\ p + size + 1 <= b /\ bump \in Nat
      /\ new = p - 1 /\ new \in Nat /\ r <= new /\ room_ = b - new /\ new < b
  <2>1. p \in Nat /\ r + 1 <= p
    <3>1. r + 1 \in Nat /\ p = AlignUp(r + 1, align)
      BY <1>5 DEF Payload
    <3> HIDE DEF p
    <3>2. p \in Nat /\ r + 1 <= p
      BY <3>1, Aligned
    <3> QED
      BY <3>2
  <2> HIDE DEF p
  <2> QED
    BY <1>4, <1>5, <2>1 DEF room_
<1> HIDE DEF p
<1>7. /\ prev \in S /\ NextRegion(ws, prev) = r /\ prev \in Nat /\ prev + 4 <= r
      /\ ~IsFree(ws, prev) /\ r = prev + SizeOf(ws, prev) /\ SizeOf(ws, prev) \in Nat
      /\ SizeOf(ws, prev) >= 4
  <2>1. PICK pr \in S : NextRegion(ws, pr) = r
    BY <1>1, <1>2, <1>5 DEF Tiles
  <2>2. /\ prev = pr /\ pr \in Nat /\ pr + 4 <= r /\ r = pr + SizeOf(ws, pr)
        /\ SizeOf(ws, pr) \in Nat /\ SizeOf(ws, pr) >= 4 /\ ~IsFree(ws, pr)
    BY <1>1, <1>2, <2>1, Neighbours DEF prev
  <2> QED
    BY <2>1, <2>2
<1>8. /\ a \in S /\ a \in Nat /\ a <= r /\ a < b
      /\ a <= new
  BY <1>2, <1>5, <1>6, <1>7 DEF a
<1>9. Old = IF bump = 0 THEN {r} ELSE {prev, r}
  <2>1. Inside(S, r, b) = {r}
    BY <1>1, <1>2, OneInside DEF b
  <2>2. Inside(S, prev, b) = {prev, r}
    BY <1>1, <1>2, <1>5, <1>7, TwoInside
  <2> QED
    BY <2>1, <2>2 DEF Old, a
<1>10. Writes(h, S, g, {}, a, b)
  <2>1. /\ IsHeap(g) /\ Lists(g, ws, F \ {r})
        /\ g.words = ws /\ g.roots = h.roots /\ g.brk = h.brk
    BY <1>1, UnlinkStep DEF ws, g
  <2>2. (F \ Old) \union Frees(ws, {}) = F \ {r}
    BY <1>7, <1>9 DEF Frees, F
  <2>3. \A s \in S : Keeps(ws, ws, s)
    BY DEF Keeps
  <2>4. Lists(g, ws, (F \ Old) \union Frees(ws, {}))
    BY <2>1, <2>2
  <2> QED
    BY <2>1, <2>3, <2>4 DEF Writes, F, ws, Old
<1>11. /\ Writes(h, S, h2, New2, a, b)
       /\ bump # 0 => /\ NextRegion(h2.words, prev) = new /\ ~IsFree(h2.words, prev)
                      /\ SizeOf(h2.words, prev) = SizeOf(ws, prev) + bump
  <2>1. CASE bump = 0
    BY <1>10, <2>1 DEF h2, New2
  <2>2. CASE bump # 0
    <3> DEFINE k == SizeOf(ws, prev) + bump
    <3>1. /\ a = prev /\ k \in Nat /\ k >= Region /\ prev + k = new /\ prev <= prev
          /\ new <= b
      BY <1>5, <1>6, <1>7, <2>2 DEF a, Region
    <3>2. h2 = CreateUsed(g, prev, k) /\ New2 = {prev}
      BY <2>2 DEF h2, New2
    <3> HIDE DEF k, new, bump
    <3>3. HasRoom(h, S, g, {}, a, b, prev, k)
      BY <1>5, <1>7, <1>8, <1>10, <3>1 DEF HasRoom
    <3>4. HasOneMore(h, S, g, {}, a, b, prev, k, h2) /\ ~IsFree(h2.words, prev)
      BY <3>2, <3>3, WriteOne
    <3>5. {} \union {prev} = {prev}
      OBVIOUS
    <3> QED
      BY <3>1, <3>2, <3>4, <3>5 DEF HasOneMore, k
  <2> QED
    BY <2>1, <2>2
<1>12. ~IsFree(h2.words, a) \/ bump = 0
  BY <1>11 DEF a
\* What is left when the region is split, and when it is not.
<1>13. ASSUME NEW New, Writes(h, S, c, New, a, b), ~IsFree(c.words, new),
              \A s \in New2 : Keeps(h2.words, c.words, s),
              SizeOf(c.words, new) >= size + Header,
              \/ New = New2 \union {new} /\ NextRegion(c.words, new) = b
              \/ /\ New = New2 \union {new, m} /\ NextRegion(c.words, new) = m
                 /\ NextRegion(c.words, m) = b /\ IsFree(c.words, m) /\ m < b /\ new < m
       PROVE  Carved(h, S, r, align, size, c)
  <2> DEFINE T == (S \ Old) \union New
  <2>1. bump # 0 => /\ NextRegion(c.words, prev) = new /\ ~IsFree(c.words, prev)
                    /\ SizeOf(c.words, prev) = SizeOf(ws, prev) + bump
                    /\ a = prev /\ New2 = {prev} /\ prev < new
    <3>1. bump # 0 => Keeps(h2.words, c.words, prev)
      BY <1>13 DEF New2
    <3>2. bump # 0 => a = prev /\ New2 = {prev} /\ prev < new
      BY <1>6, <1>7 DEF a, New2
    <3> HIDE DEF bump, new
    <3> QED
      BY <1>11, <3>1, <3>2, KeptRegion
  <2>2. bump = 0 => a = new /\ New2 = {}
    BY <1>5 DEF a, New2
  <2>3. m \in Nat /\ new \in Nat /\ prev \in Nat /\ b \in Nat
    BY <1>5, <1>6, <1>7 DEF Header
  <2> HIDE DEF m
  <2>4. /\ \A s \in Old : /\ NextRegion(ws, s) \in Old \union {b} /\ (s \in B => s = a)
    BY <1>5, <1>7, <1>9 DEF a
  <2> HIDE DEF new, bump
  <2>5. /\ a \in New /\ ~IsFree(c.words, a)
        /\ \A s \in New : NextRegion(c.words, s) \in New \union {b}
        /\ \E s \in New : NextRegion(c.words, s) = b
    BY <1>13, <2>1, <2>2
  <2>6. \A s \in New \ {a} : \E q \in New : NextRegion(c.words, q) = s
    BY <1>13, <2>1, <2>2
  <2>7. \A s \in New : IsFree(c.words, s) => NextRegion(c.words, s) = b
    BY <1>13, <2>1, <2>2
  <2>8. \A s, t \in New : s < t => NextRegion(c.words, s) <= t
    <3> SUFFICES ASSUME NEW s \in New, NEW t \in New, s < t
                 PROVE  NextRegion(c.words, s) <= t
      OBVIOUS
    <3>1. s \in {prev, new, m} /\ t \in {prev, new, m}
      BY <1>13, <2>1, <2>2
    <3>2. (s = prev /\ s # new /\ s # m) => bump # 0
      BY <1>13, <2>1, <2>2
    <3>3. s = m \/ t = m => \/ NextRegion(c.words, new) = m /\ m < b /\ new < m
                            \/ m \in New2 \union {new}
      BY <1>13
    <3>4. CASE bump = 0
      BY <1>13, <2>2, <2>3, <3>4
    <3>5. CASE bump # 0
      BY <1>13, <2>1, <2>3, <3>5
    <3> QED
      BY <3>4, <3>5
  <2> HIDE DEF T
  <2>9. Relaid(h, S, c, New, a, b, T)
    BY <1>5, <1>8, <1>13, <2>4, <2>5, <2>6, <2>7, <2>8, Rewritten DEF T, Old, ws, B
  <2>10. /\ HeapOK(c, T) /\ UsedIn(c, T) = (UsedIn(h, S) \ Old) \union InUse(c.words, New \ B)
         /\ \A u \in S \ Old : SizeOf(c.words, u) = SizeOf(ws, u)
         /\ c.roots = h.roots /\ c.brk = h.brk
    BY <2>9 DEF Relaid, Old, ws, B
  <2>11. new \notin UsedIn(h, S) /\ new \notin B
    <3>1. \A s, t \in S : s < t => NextRegion(ws, s) <= t
      BY <1>1 DEF Tiles
    <3>2. new \in S => new = r
      BY <1>2, <1>5, <1>6, <3>1
    <3>3. B \subseteq S /\ UsedIn(h, S) \subseteq S /\ r \notin UsedIn(h, S)
      BY <1>1, <1>2 DEF Tiles, UsedIn, Used, ws
    <3> QED
      BY <1>5, <3>2, <3>3
  <2>12. bump # 0 => (prev \in UsedIn(h, S) <=> prev \notin B)
    <3>1. r \notin E
      BY <1>1, <1>2 DEF Tiles
    <3> QED
      BY <1>7, <3>1 DEF UsedIn, Used, ws, B, E
  <2>13. InUse(c.words, New \ B) = {new} \union (New2 \ B)
    <3>1. new \in New /\ New2 \subseteq New
      BY <1>13
    <3>2. \A s \in New : s = new \/ s \in New2 \/ IsFree(c.words, s)
      BY <1>13
    <3>3. \A s \in New2 : ~IsFree(c.words, s)
      BY <2>1, <2>2
    <3> QED
      BY <1>13, <2>11, <3>1, <3>2, <3>3 DEF InUse
  <2>14. UsedIn(c, T) = UsedIn(h, S) \union {new}
    <3>1. r \notin UsedIn(h, S)
      BY <1>2 DEF UsedIn, Used, ws
    <3>2. Old = IF bump = 0 THEN {r} ELSE {prev, r}
      BY <1>9
    <3> QED
      BY <2>1, <2>2, <2>10, <2>12, <2>13, <3>1, <3>2
  <2>15. \A u \in UsedIn(h, S) : SizeOf(c.words, u) >= SizeOf(ws, u)
    <3> TAKE u \in UsedIn(h, S)
    <3>1. u \in S /\ u # r
      BY <1>2 DEF UsedIn, Used, ws
    <3>2. SizeOf(ws, u) \in Nat
      BY <1>1, <3>1, Neighbours
    <3>3. u \in Old => u = prev /\ bump # 0
      BY <1>9, <3>1
    <3>4. u \notin Old => SizeOf(c.words, u) = SizeOf(ws, u)
      BY <2>10, <3>1
    <3> QED
      BY <1>6, <2>1, <3>2, <3>3, <3>4
  <2>16. new = p - 1
    BY <1>6
  <2> QED
    BY <1>13, <2>10, <2>11, <2>14, <2>15, <2>16 DEF Carved, p, ws
<1>14. CASE Region + Header + size <= room_
  <2> DEFINE d == CreateAndLink(h2, m, n)
  <2>1. c = CreateUsed(d, new, size + Header)
    BY <1>3, <1>14
  <2>2. /\ m \in Nat /\ n \in Nat /\ n >= Region /\ a <= m /\ m + n = b /\ m + n <= b
        /\ size + Header \in Nat /\ size + Header >= Region /\ new + (size + Header) = m
        /\ m <= b /\ new <= m /\ b \in S /\ m < b /\ new < m /\ new <= new
    BY <1>5, <1>6, <1>8, <1>14 DEF Region, Header
  <2>3. \A s \in New2 : NextRegion(h2.words, s) <= m /\ NextRegion(h2.words, s) = new
    BY <1>11, <2>2 DEF New2
  <2> HIDE DEF m, n, new, bump
  <2>4. HasRoom(h, S, h2, New2, a, b, m, n)
    BY <1>8, <1>11, <2>2, <2>3 DEF HasRoom
  <2>5. HasOneMore(h, S, h2, New2, a, b, m, n, d) /\ IsFree(d.words, m)
    BY <2>4, WriteOne
  <2> HIDE DEF d
  <2>6. /\ Writes(h, S, d, New2 \union {m}, a, b) /\ NextRegion(d.words, m) = b
        /\ \A s \in New2 : Keeps(h2.words, d.words, s) /\ NextRegion(d.words, s) = new
    <3>1. \A s \in New2 : Keeps(h2.words, d.words, s)
      BY <2>5 DEF HasOneMore
    <3> QED
      BY <2>2, <2>3, <2>5, <3>1, KeptRegion DEF HasOneMore
  <2>7. \A s \in New2 \union {m} : s >= new + (size + Header) \/ NextRegion(d.words, s) <= new
    BY <1>6, <2>2, <2>6
  <2> DEFINE k == size + Header
  <2> HIDE DEF k
  <2>8. HasRoom(h, S, d, New2 \union {m}, a, b, new, k)
    BY <1>6, <1>8, <2>2, <2>6, <2>7 DEF HasRoom, k
  <2>9. HasOneMore(h, S, d, New2 \union {m}, a, b, new, k, c) /\ ~IsFree(c.words, new)
    BY <2>1, <2>8, WriteOne DEF k
  <2>10. /\ Writes(h, S, c, (New2 \union {m}) \union {new}, a, b)
         /\ NextRegion(c.words, new) = m /\ SizeOf(c.words, new) = k
         /\ \A s \in New2 \union {m} : Keeps(d.words, c.words, s)
    BY <2>2, <2>9 DEF HasOneMore, k
  <2>11. \A s \in New2 : Keeps(h2.words, c.words, s)
    BY <2>6, <2>10, KeptTwice
  <2>12. NextRegion(c.words, m) = b /\ IsFree(c.words, m)
    BY <2>5, <2>6, <2>10, KeptRegion
  <2>13. (New2 \union {m}) \union {new} = New2 \union {new, m}
    OBVIOUS
  <2>14. SizeOf(c.words, new) >= size + Header
    BY <2>2, <2>10 DEF k
  <2> QED
    BY <1>13, <2>2, <2>9, <2>10, <2>11, <2>12, <2>13, <2>14
<1>15. CASE ~(Region + Header + size <= room_)
  <2>1. c = CreateUsed(h2, new, room_)
    BY <1>3, <1>15
  <2>2. /\ room_ \in Nat /\ room_ >= Region /\ room_ >= size + Header
        /\ new + room_ = b /\ new + room_ <= b /\ b \in S /\ new <= new
    BY <1>5, <1>6, <1>8 DEF Region, Header
  <2>3. \A s \in New2 : NextRegion(h2.words, s) <= new
    BY <1>6, <1>11 DEF New2
  <2> HIDE DEF new, bump
  <2>4. HasRoom(h, S, h2, New2, a, b, new, room_)
    BY <1>6, <1>8, <1>11, <2>2, <2>3 DEF HasRoom
  <2>5. HasOneMore(h, S, h2, New2, a, b, new, room_, c) /\ ~IsFree(c.words, new)
    BY <2>1, <2>4, WriteOne
  <2> QED
    BY <1>13, <2>2, <2>5 DEF HasOneMore
<1> QED
  BY <1>14, <1>15

-----------------------------------------------------------------------------
(***************************************************************************)
(* The end of the latest root region                                       *)
(***************************************************************************)
\* What is below the break when the latest root region ends there.
LEMMA Top ==
  ASSUME NEW h, NEW S, HeapOK(h, S), Contiguous(h)
  PROVE  LET ws == h.words
             e == h.brk
             last == PrevRegion(ws, e - 4)
         IN  /\ e \in Ends(h.roots) /\ e \in Nat /\ e <= HeapMax /\ e - 4 \in Nat
             /\ e - 4 \in S \ Begins(h.roots) /\ SizeOf(ws, e - 4) = 4
             /\ NextRegion(ws, e - 4) = e /\ ~IsFree(ws, e - 4)
             /\ SizeOf(ws, e - 1) = 4
             /\ \A s \in S : NextRegion(ws, s) <= e
             /\ \A x \in Ends(h.roots) : x <= e
             /\ last \in S /\ NextRegion(ws, last) = e - 4
             /\ 1 \in DOMAIN h.roots /\ h.roots[1].end = e
             /\ \A i \in DOMAIN h.roots : i # 1 => h.roots[i].end < h.roots[1].start
<1> DEFINE ws == h.words
           e == h.brk
           E == Ends(h.roots)
           B == Begins(h.roots)
           roots == h.roots
<1>1. Tiles(ws, S, B, E) /\ RootsOK(roots, h.brk)
  BY HeapFacts
<1>2. roots # <<>> /\ Head(roots).end = e
  BY DEF Contiguous
<1>3. /\ roots \in Seq([start : Nat, end : Nat]) /\ e \in Nat
      /\ \A i \in DOMAIN roots : /\ roots[i].start < roots[i].end
                                 /\ roots[i].end <= e /\ roots[i].end <= HeapMax
      /\ \A i, j \in DOMAIN roots : i < j => roots[j].end < roots[i].start
  BY <1>1 DEF RootsOK
<1> HIDE DEF roots
<1>4. /\ Len(roots) \in Nat /\ DOMAIN roots = 1..Len(roots) /\ Len(roots) # 0
      /\ Head(roots) = roots[1]
  BY <1>2, <1>3
<1>5. 1 \in DOMAIN roots /\ roots[1].end = e
  BY <1>2, <1>4
<1>6. \A i \in DOMAIN roots : i # 1 => roots[i].end < roots[1].start
  BY <1>3, <1>4
<1>7. \A i \in DOMAIN roots : roots[i].start \in Nat /\ roots[i].end \in Nat
  <2> TAKE i \in DOMAIN roots
  <2>1. roots[i] \in [start : Nat, end : Nat]
    BY <1>3, <1>4, ElementOfSeq
  <2> QED
    BY <2>1
<1> HIDE DEF e
<1>8. e \in E /\ \A x \in E : x <= e
  BY <1>3, <1>5 DEF E, Ends, roots
<1> HIDE DEF ws, E, B
<1>9. e - 4 \in S \ B /\ SizeOf(ws, e - 4) = 4 /\ ~IsFree(ws, e - 4) /\ S \subseteq Nat
  BY <1>1, <1>8 DEF Tiles, Region
<1>10. NextRegion(ws, e - 4) = e
  BY <1>3, <1>9 DEF NextRegion
<1>11. SizeOf(ws, e - 1) = 4
  <2>1. Consistent(ws, e - 4)
    BY <1>1, <1>9 DEF Tiles, RegionOK
  <2> QED
    BY <1>9, <1>10, <2>1 DEF Consistent, Ceiling, SizeOf
<1>12. \A s \in S : NextRegion(ws, s) <= e
  <2> TAKE s \in S
  <2>1. PICK i \in DOMAIN roots : NextRegion(ws, s) <= roots[i].end
    BY <1>1, InRoot DEF E, B, roots
  <2>2. NextRegion(ws, s) \in Nat
    BY <1>1, Neighbours
  <2> QED
    BY <1>3, <1>7, <2>1, <2>2
<1>13. PrevRegion(ws, e - 4) \in S /\ NextRegion(ws, PrevRegion(ws, e - 4)) = e - 4
  <2>1. PICK p \in S : NextRegion(ws, p) = e - 4
    BY <1>1, <1>9 DEF Tiles
  <2>2. PrevRegion(ws, e - 4) = p
    BY <1>1, <1>9, <2>1, Neighbours
  <2> QED
    BY <2>1, <2>2
<1>14. e <= HeapMax
  BY <1>3, <1>5
<1> QED
  BY <1>3, <1>5, <1>6, <1>8, <1>9, <1>10, <1>11, <1>12, <1>13, <1>14 DEF roots, ws, e, E, B

\* The latest root region ends somewhere else.
LEMMA NewEnd ==
  ASSUME NEW roots, NEW brk, RootsOK(roots, brk), 1 \in DOMAIN roots, roots[1].end = brk,
         NEW end \in Nat, end <= HeapMax, roots[1].start < end
  PROVE  LET new == [roots EXCEPT ![1].end = end]
         IN  /\ RootsOK(new, end) /\ Begins(new) = Begins(roots)
             /\ Ends(new) = (Ends(roots) \ {brk}) \union {end}
<1> DEFINE new == [roots EXCEPT ![1].end = end]
<1>1. /\ roots \in Seq([start : Nat, end : Nat]) /\ brk \in Nat
      /\ \A i \in DOMAIN roots : /\ roots[i].start < roots[i].end
                                 /\ roots[i].end <= brk /\ roots[i].end <= HeapMax
      /\ \A i, j \in DOMAIN roots : i < j => roots[j].end < roots[i].start
  BY DEF RootsOK
<1>2. Len(roots) \in Nat /\ DOMAIN roots = 1..Len(roots)
  BY <1>1
<1>3. \A i \in DOMAIN roots : /\ roots[i] \in [start : Nat, end : Nat]
                              /\ roots[i].start \in Nat /\ roots[i].end \in Nat
  <2> TAKE i \in DOMAIN roots
  <2>1. roots[i] \in [start : Nat, end : Nat]
    BY <1>1, <1>2, ElementOfSeq
  <2> QED
    BY <2>1
<1>4. /\ DOMAIN new = DOMAIN roots
      /\ \A i \in DOMAIN roots : i # 1 => new[i] = roots[i]
      /\ new[1].start = roots[1].start /\ new[1].end = end
      /\ new[1] \in [start : Nat, end : Nat]
  BY <1>3
<1>5. new \in Seq([start : Nat, end : Nat])
  <2>1. new = [i \in 1..Len(roots) |-> new[i]]
    BY <1>2
  <2>2. \A i \in 1..Len(roots) : new[i] \in [start : Nat, end : Nat]
    BY <1>2, <1>3, <1>4
  <2> HIDE DEF new
  <2> QED
    BY <1>2, <2>1, <2>2, SeqDef
<1> HIDE DEF new
<1>6. \A i \in DOMAIN roots : i # 1 => roots[i].end < roots[1].start
  BY <1>1, <1>2
<1>7. ASSUME NEW i \in DOMAIN roots
      PROVE  new[i].start < new[i].end /\ new[i].end <= end /\ new[i].end <= HeapMax
  <2>1. CASE i = 1
    <3>1. new[i].start < new[i].end /\ new[i].end = end
      BY <1>4, <2>1
    <3> QED
      BY <3>1
  <2>2. CASE i # 1
    <3>1. new[i] = roots[i] /\ roots[i].end < roots[1].start
      BY <1>4, <1>6, <2>2
    <3>2. roots[i].end \in Nat /\ roots[1].start \in Nat
      BY <1>3
    <3>3. roots[i].start < roots[i].end /\ roots[i].end <= HeapMax
      BY <1>1
    <3> QED
      BY <3>1, <3>2, <3>3
  <2> QED
    BY <2>1, <2>2
<1>8. ASSUME NEW i \in DOMAIN roots, NEW j \in DOMAIN roots, i < j
      PROVE  new[j].end < new[i].start
  <2>1. j # 1
    BY <1>2, <1>8
  <2>2. new[j] = roots[j] /\ new[i].start = roots[i].start
    BY <1>4, <2>1
  <2> QED
    BY <1>1, <1>8, <2>2
<1>9. RootsOK(new, end)
  BY <1>4, <1>5, <1>7, <1>8 DEF RootsOK
<1>10. Begins(new) = Begins(roots)
  BY <1>4 DEF Begins
<1>11. Ends(new) = (Ends(roots) \ {brk}) \union {end}
  <2>1. \A i \in DOMAIN roots : i # 1 => roots[i].end # brk
    BY <1>1, <1>3, <1>6
  <2> QED
    BY <1>4, <2>1 DEF Ends
<1> QED
  BY <1>9, <1>10, <1>11 DEF new

\* The regions from a to the end e of the latest root region give way to a free
\* region at a and an end sentinel before the new end.
Retops(ws, w, S, B, E, e, a, end) ==
    /\ e \in E /\ a \in S \ B /\ a < e /\ end \in Nat /\ a + 4 <= end - 4
    /\ \A s \in S : NextRegion(ws, s) <= e
    /\ \A x \in E : x <= e
    /\ \A s \in Inside(S, a, e) : /\ NextRegion(ws, s) \in Inside(S, a, e) \union {e}
                                 /\ s \notin B
    /\ \A s \in S : NextRegion(ws, s) = a => ~IsFree(ws, s)
    /\ \A s \in S \ Inside(S, a, e) : Keeps(ws, w, s)
    /\ RegionOK(w, a) /\ NextRegion(w, a) = end - 4 /\ IsFree(w, a)
    /\ RegionOK(w, end - 4) /\ SizeOf(w, end - 4) = 4 /\ ~IsFree(w, end - 4)

\* What is tiled then.
LEMMA Retop ==
  ASSUME NEW ws, NEW w, NEW S, NEW B, NEW E, Tiles(ws, S, B, E),
         NEW e, NEW a, NEW end, Retops(ws, w, S, B, E, e, a, end)
  PROVE  LET T == (S \ Inside(S, a, e)) \union {a, end - 4}
             E2 == (E \ {e}) \union {end}
         IN  /\ Tiles(w, T, B, E2)
             /\ \A s \in S \ Inside(S, a, e) :
                   /\ IsFree(w, s) <=> IsFree(ws, s)
                   /\ NextRegion(w, s) \in E2 <=> NextRegion(ws, s) \in E
<1>0. /\ e \in E /\ a \in S \ B /\ a < e /\ end \in Nat /\ a + 4 <= end - 4
      /\ \A s \in S : NextRegion(ws, s) <= e
      /\ \A x \in E : x <= e
      /\ \A s \in Inside(S, a, e) : /\ NextRegion(ws, s) \in Inside(S, a, e) \union {e}
                                   /\ s \notin B
      /\ \A s \in S : NextRegion(ws, s) = a => ~IsFree(ws, s)
      /\ \A s \in S \ Inside(S, a, e) : Keeps(ws, w, s)
      /\ RegionOK(w, a) /\ NextRegion(w, a) = end - 4 /\ IsFree(w, a)
      /\ RegionOK(w, end - 4) /\ SizeOf(w, end - 4) = 4 /\ ~IsFree(w, end - 4)
  BY DEF Retops
<1> DEFINE Old == Inside(S, a, e)
           R == S \ Old
           T == R \union {a, end - 4}
           E2 == (E \ {e}) \union {end}
<1>1. /\ S \subseteq Nat /\ B \subseteq S /\ E \subseteq Nat
      /\ \A r \in S : RegionOK(ws, r) /\ NextRegion(ws, r) \in (S \ B) \union E
      /\ \A r \in S \ B : \E p \in S : NextRegion(ws, p) = r
      /\ \A r, s \in S : r < s => NextRegion(ws, r) <= s
      /\ \A r \in B : ~IsFree(ws, r)
      /\ \A x \in E : /\ x \notin S /\ x - 4 \in S \ B
                      /\ SizeOf(ws, x - 4) = 4 /\ ~IsFree(ws, x - 4)
      /\ \A r \in S : IsFree(ws, r) => ~IsFree(ws, NextRegion(ws, r))
  BY DEF Tiles, Region
<1>2. \A r \in S : /\ r \in Nat /\ NextRegion(ws, r) \in Nat /\ r < NextRegion(ws, r)
  BY Neighbours
<1>3. \A r \in R : /\ r \in Nat /\ r < a /\ NextRegion(ws, r) <= a
  <2> TAKE r \in R
  <2>1. r \in S /\ r < e
    BY <1>0, <1>1, <1>2
  <2>2. r < a
    BY <1>0, <1>1, <2>1 DEF Inside
  <2> QED
    BY <1>0, <1>1, <2>1, <2>2
<1>4. a \in Old /\ Old \subseteq S /\ \A s \in Old : a <= s /\ s < e
  BY <1>0, <1>1 DEF Inside
<1>5. \A s \in Old : NextRegion(ws, s) \in Old \union {e} /\ s \notin B
  BY <1>0
<1>6. \A s \in R : /\ RegionOK(w, s) /\ NextRegion(w, s) = NextRegion(ws, s)
                   /\ SizeOf(w, s) = SizeOf(ws, s) /\ IsFree(w, s) = IsFree(ws, s)
  <2> TAKE s \in R
  <2>1. Keeps(ws, w, s) /\ RegionOK(ws, s)
    BY <1>0, <1>1
  <2> QED
    BY <1>0, <2>1, KeptRegion
<1>7. a \in Nat /\ e \in Nat /\ end - 4 \in Nat /\ a < end - 4 /\ end - 4 < end /\ a # end - 4
  BY <1>0, <1>1
<1>8. NextRegion(w, end - 4) = end
  BY <1>0 DEF NextRegion
<1> HIDE DEF Old
<1>9. T \subseteq Nat /\ B \subseteq T /\ E2 \subseteq Nat
  BY <1>0, <1>1, <1>5, <1>7
<1>10. end - 4 \notin B /\ a \notin B /\ \A r \in R : r # a /\ r # end - 4 /\ r # end
  BY <1>0, <1>1, <1>3, <1>4, <1>5, <1>7
<1>11. \A r \in R : NextRegion(ws, r) \in Old => NextRegion(ws, r) = a
  BY <1>0, <1>1, <1>2, <1>3, <1>4, <1>7
<1>12. \A r \in R : NextRegion(ws, r) # e
  BY <1>0, <1>1, <1>2, <1>3, <1>7
<1>13. ASSUME NEW r \in T
       PROVE  RegionOK(w, r) /\ NextRegion(w, r) \in (T \ B) \union E2
  <2>1. CASE r \in R
    BY <1>0, <1>1, <1>6, <1>10, <1>11, <1>12, <2>1
  <2>2. CASE r = a
    BY <1>0, <1>10, <2>2
  <2>3. CASE r = end - 4
    BY <1>0, <1>8, <2>3
  <2> QED
    BY <1>0, <2>1, <2>2, <2>3
<1>14. ASSUME NEW r \in T \ B
       PROVE  \E p \in T : NextRegion(w, p) = r
  <2>1. CASE r = end - 4
    BY <1>0, <2>1
  <2>2. CASE r = a
    <3>1. PICK p \in S : NextRegion(ws, p) = a
      BY <1>0, <1>1
    <3>2. p \in R
      BY <1>0, <1>1, <1>2, <1>4, <1>7, <3>1
    <3> QED
      BY <1>0, <1>6, <2>2, <3>1, <3>2
  <2>3. CASE r \in R
    <3>1. PICK p \in S : NextRegion(ws, p) = r
      BY <1>0, <1>1, <1>10, <2>3
    <3>2. p \in R
      BY <1>0, <1>3, <1>5, <1>1, <2>3, <3>1
    <3> QED
      BY <1>0, <1>6, <2>3, <3>1, <3>2
  <2> QED
    BY <1>0, <2>1, <2>2, <2>3
<1>15. ASSUME NEW r \in T, NEW s \in T, r < s
       PROVE  NextRegion(w, r) <= s
  <2>1. CASE r \in R /\ s \in R
    BY <1>0, <1>1, <1>6, <1>15, <2>1
  <2>2. CASE r \in R /\ s \notin R
    <3>1. NextRegion(w, r) <= a /\ NextRegion(w, r) \in Nat
      BY <1>0, <1>2, <1>3, <1>6, <2>2
    <3>2. s = a \/ s = end - 4
      BY <1>0, <2>2
    <3> QED
      BY <1>0, <1>7, <3>1, <3>2
  <2>3. CASE r \notin R
    <3>1. r = a \/ r = end - 4
      BY <1>0, <2>3
    <3>2. s = end - 4 /\ r = a
      BY <1>0, <1>3, <1>7, <1>15, <3>1
    <3> QED
      BY <1>0, <1>7, <3>2
  <2> QED
    BY <1>0, <2>1, <2>2, <2>3
<1>16. \A r \in B : ~IsFree(w, r)
  BY <1>0, <1>1, <1>5, <1>6
<1>17. ASSUME NEW x \in E2
       PROVE  /\ x \notin T /\ x - 4 \in T \ B /\ SizeOf(w, x - 4) = 4 /\ ~IsFree(w, x - 4)
  <2>1. CASE x = end
    BY <1>0, <1>7, <1>10, <2>1
  <2>2. CASE x # end
    <3>1. /\ x \in E /\ x # e /\ x \in Nat /\ x \notin S /\ x - 4 \in S \ B
          /\ SizeOf(ws, x - 4) = 4 /\ ~IsFree(ws, x - 4)
      BY <1>0, <1>1, <2>2
    <3>2. NextRegion(ws, x - 4) = x
      BY <1>0, <3>1 DEF NextRegion
    <3>3. x - 4 \in R
      BY <1>0, <1>4, <1>5, <3>1, <3>2
    <3>4. x <= a
      BY <1>0, <1>3, <3>2, <3>3
    <3>5. x \notin T
      BY <1>0, <1>4, <1>7, <3>1, <3>4
    <3> QED
      BY <1>0, <1>6, <3>1, <3>3, <3>5
  <2> QED
    BY <1>0, <2>1, <2>2
<1>18. ASSUME NEW r \in T, IsFree(w, r)
       PROVE  ~IsFree(w, NextRegion(w, r))
  <2>1. CASE r = a
    BY <1>0, <2>1
  <2>2. CASE r = end - 4
    BY <1>0, <1>18, <2>2
  <2>3. CASE r \in R
    <3>1. IsFree(ws, r) /\ NextRegion(ws, r) \in S /\ ~IsFree(ws, NextRegion(ws, r))
      <4>1. IsFree(ws, r)
        BY <1>0, <1>6, <1>18, <2>3
      <4>2. Tiles(ws, S, B, E) /\ r \in S
        BY <1>0, <2>3
      <4> QED
        BY <1>0, <4>1, <4>2, Neighbours
    <3>2. NextRegion(ws, r) # a
      BY <1>0, <2>3, <3>1
    <3>3. NextRegion(ws, r) \in R
      BY <1>0, <1>11, <2>3, <3>1, <3>2
    <3> QED
      BY <1>0, <1>6, <2>3, <3>1, <3>3
  <2> QED
    BY <1>0, <2>1, <2>2, <2>3
<1>19. \A s \in R : NextRegion(w, s) \in E2 <=> NextRegion(ws, s) \in E
  <2> TAKE s \in R
  <2>1. NextRegion(w, s) = NextRegion(ws, s) /\ NextRegion(ws, s) # e
    BY <1>0, <1>6, <1>12
  <2>2. NextRegion(ws, s) <= a /\ NextRegion(ws, s) \in Nat
    BY <1>0, <1>2, <1>3
  <2>3. NextRegion(ws, s) # end
    BY <1>0, <1>7, <2>2
  <2> QED
    BY <1>0, <2>1, <2>3
<1> HIDE DEF T, E2, R
<1>20. Tiles(w, T, B, E2)
  BY <1>0, <1>9, <1>13, <1>14, <1>15, <1>16, <1>17, <1>18 DEF Tiles, Region
<1> QED
  BY <1>0, <1>6, <1>19, <1>20 DEF T, E2, R, Old

\* What a step leaves when it changes no block.
KeepsBlocks(h, S, c, T) ==
    /\ HeapOK(c, T) /\ UsedIn(c, T) = UsedIn(h, S)
    /\ \A u \in UsedIn(h, S) : SizeOf(c.words, u) = SizeOf(h.words, u)

\* A heap whose latest root region gets another end is well formed, and no block changes.
LEMMA HeapRetop ==
  ASSUME NEW h, NEW S, HeapOK(h, S), Contiguous(h),
         NEW a \in S \ Begins(h.roots), a < h.brk,
         NEW end \in Nat, end <= HeapMax, a + 4 <= end - 4,
         \A s \in Inside(S, a, h.brk) :
            /\ NextRegion(h.words, s) \in Inside(S, a, h.brk) \union {h.brk}
            /\ s \notin Begins(h.roots) /\ s \notin UsedIn(h, S),
         \A s \in S : NextRegion(h.words, s) = a => ~IsFree(h.words, s),
         NEW c, IsHeap(c), c.roots = [h.roots EXCEPT ![1].end = end], c.brk = end,
         \A s \in S \ Inside(S, a, h.brk) : Keeps(h.words, c.words, s),
         RegionOK(c.words, a), NextRegion(c.words, a) = end - 4, IsFree(c.words, a),
         RegionOK(c.words, end - 4), SizeOf(c.words, end - 4) = 4, ~IsFree(c.words, end - 4),
         Lists(c, c.words, (Frees(h.words, S) \ Inside(S, a, h.brk)) \union {a})
  PROVE  KeepsBlocks(h, S, c, (S \ Inside(S, a, h.brk)) \union {a, end - 4})
<1> DEFINE ws == h.words
           w == c.words
           e == h.brk
           B == Begins(h.roots)
           E == Ends(h.roots)
           Old == Inside(S, a, e)
           T == (S \ Old) \union {a, end - 4}
           E2 == (E \ {e}) \union {end}
<1>1. Tiles(ws, S, B, E) /\ RootsOK(h.roots, e)
  BY HeapFacts
<1>2. /\ e \in E /\ e \in Nat /\ \A s \in S : NextRegion(ws, s) <= e
      /\ \A x \in E : x <= e
      /\ 1 \in DOMAIN h.roots /\ h.roots[1].end = e
  BY Top
<1>3. h.roots[1].start < end
  <2>1. h.roots[1].start \in B
    BY <1>2 DEF B, Begins
  <2>2. h.roots[1].start \in S /\ h.roots[1].start \in Nat /\ a \in Nat
    BY <1>1, <2>1 DEF Tiles
  <2>3. h.roots[1].start < e
    BY <1>1, <1>2 DEF RootsOK
  <2>4. ~(a <= h.roots[1].start)
    BY <2>1, <2>2, <2>3 DEF Inside
  <2> QED
    BY <2>2, <2>4
<1>4. RootsOK(c.roots, end) /\ Begins(c.roots) = B /\ Ends(c.roots) = E2
  BY <1>1, <1>2, <1>3, NewEnd
<1> HIDE DEF ws, w, e, B, E, E2, T, Old
<1>5. /\ Tiles(w, T, B, E2)
      /\ \A s \in S \ Old : /\ IsFree(w, s) <=> IsFree(ws, s)
                            /\ NextRegion(w, s) \in E2 <=> NextRegion(ws, s) \in E
  <2>1. Retops(ws, w, S, B, E, e, a, end)
    BY <1>2 DEF Retops, ws, w, e, B
  <2> QED
    BY <1>1, <2>1, Retop DEF Old, T, E2
<1>6. a \in Old /\ Old \subseteq S /\ end - 4 \notin B
  <2>1. a \in Nat /\ B \subseteq S
    BY <1>1 DEF Tiles
  <2>2. \A s \in S : s \in Nat /\ s < NextRegion(ws, s) /\ NextRegion(ws, s) \in Nat
    BY <1>1, Neighbours
  <2>3. end - 4 \in B => end - 4 \in Old
    BY <1>2, <2>1, <2>2 DEF Inside, Old, e, ws
  <2> QED
    BY <2>1, <2>3 DEF Inside, Old, e, B
<1>7. Frees(w, T) = (Frees(ws, S) \ Old) \union {a}
  BY <1>5 DEF Frees, T, w
<1>8. Used(w, T, B, E2) = Used(ws, S, B, E)
  <2>1. \A s \in Old : s \notin Used(ws, S, B, E)
    BY DEF UsedIn, Old, e, ws, B, E
  <2>2. NextRegion(w, end - 4) \in E2
    <3>1. NextRegion(w, end - 4) = end
      BY DEF NextRegion, w
    <3> QED
      BY <3>1 DEF E2
  <2> QED
    BY <1>5, <1>6, <2>1, <2>2 DEF Used, T, w
<1>9. HeapOK(c, T)
  BY <1>4, <1>5, <1>7 DEF HeapOK, w, Old, ws, e
<1>10. UsedIn(c, T) = UsedIn(h, S)
  BY <1>4, <1>8 DEF UsedIn, w, ws, B, E
<1>11. \A u \in UsedIn(h, S) : SizeOf(w, u) = SizeOf(ws, u)
  <2>1. \A u \in UsedIn(h, S) : u \in S \ Old
    BY DEF UsedIn, Used, Old, e
  <2> QED
    BY <2>1 DEF Keeps, Old, e, w, ws
<1> QED
  BY <1>9, <1>10, <1>11 DEF KeepsBlocks, T, Old, e, w, ws

\* A new root region above the others.
RootAt(w, start, end) ==
    /\ RegionOK(w, start) /\ NextRegion(w, start) = start + 4 /\ ~IsFree(w, start)
    /\ RegionOK(w, start + 4) /\ NextRegion(w, start + 4) = end - 4 /\ IsFree(w, start + 4)
    /\ RegionOK(w, end - 4) /\ SizeOf(w, end - 4) = 4 /\ ~IsFree(w, end - 4)

Rooted(ws, w, S, B, E, start, end, T) ==
    /\ Tiles(w, T, B \union {start}, E \union {end})
    /\ Frees(w, T) = Frees(ws, S) \union {start + 4}
    /\ Used(w, T, B \union {start}, E \union {end}) = Used(ws, S, B, E)

\* The regions after a root region is added.
LEMMA NewRootRegion ==
  ASSUME NEW ws, NEW w, NEW S, NEW B, NEW E, Tiles(ws, S, B, E),
         NEW start \in Nat, NEW end \in Nat, start + 12 <= end,
         \A s \in S : NextRegion(ws, s) <= start, \A x \in E : x < start,
         \A s \in S : Keeps(ws, w, s), RootAt(w, start, end)
  PROVE  Rooted(ws, w, S, B, E, start, end, S \union {start, start + 4, end - 4})
<1> DEFINE m == start + 4
           z == end - 4
           B2 == B \union {start}
           E2 == E \union {end}
           T == S \union {start, m, z}
<1>1. /\ S \subseteq Nat /\ B \subseteq S /\ E \subseteq Nat
      /\ \A r \in S : RegionOK(ws, r) /\ NextRegion(ws, r) \in (S \ B) \union E
      /\ \A r \in S \ B : \E p \in S : NextRegion(ws, p) = r
      /\ \A r, s \in S : r < s => NextRegion(ws, r) <= s
      /\ \A r \in B : ~IsFree(ws, r)
      /\ \A x \in E : /\ x \notin S /\ x - 4 \in S \ B
                      /\ SizeOf(ws, x - 4) = 4 /\ ~IsFree(ws, x - 4)
      /\ \A r \in S : IsFree(ws, r) => ~IsFree(ws, NextRegion(ws, r))
  BY DEF Tiles, Region
<1>2. \A r \in S : /\ r \in Nat /\ NextRegion(ws, r) \in Nat /\ r < NextRegion(ws, r)
                   /\ r < start /\ NextRegion(ws, r) <= start
  <2> TAKE r \in S
  <2>1. r \in Nat /\ NextRegion(ws, r) \in Nat /\ r < NextRegion(ws, r)
    BY Neighbours
  <2> QED
    BY <2>1
<1>3. \A s \in S : /\ RegionOK(w, s) /\ NextRegion(w, s) = NextRegion(ws, s)
                   /\ SizeOf(w, s) = SizeOf(ws, s) /\ IsFree(w, s) = IsFree(ws, s)
  <2> TAKE s \in S
  <2>1. Keeps(ws, w, s) /\ RegionOK(ws, s)
    BY <1>1
  <2> QED
    BY <2>1, KeptRegion
<1>4. /\ m \in Nat /\ z \in Nat /\ start < m /\ m < z /\ z < end /\ m <= z
      /\ start # m /\ m # z /\ start # z
  OBVIOUS
<1>5. NextRegion(w, z) = end
  BY DEF NextRegion, RootAt
<1>6. /\ RegionOK(w, start) /\ NextRegion(w, start) = m /\ ~IsFree(w, start)
      /\ RegionOK(w, m) /\ NextRegion(w, m) = z /\ IsFree(w, m)
      /\ RegionOK(w, z) /\ SizeOf(w, z) = 4 /\ ~IsFree(w, z)
  BY DEF RootAt
<1>7. m = start + 4 /\ z = end - 4
  OBVIOUS
<1> HIDE DEF m, z
<1>8. start \notin S /\ m \notin S /\ z \notin S /\ end \notin T
  BY <1>2, <1>4
<1>9. T \subseteq Nat /\ B2 \subseteq T /\ E2 \subseteq Nat
  BY <1>1, <1>4
<1>10. ASSUME NEW r \in T
       PROVE  RegionOK(w, r) /\ NextRegion(w, r) \in (T \ B2) \union E2
  <2>1. CASE r \in S
    <3>1. NextRegion(ws, r) \in (S \ B) \union E
      BY <1>1, <2>1
    <3> QED
      BY <1>3, <1>8, <2>1, <3>1
  <2>2. CASE r \notin S
    BY <1>1, <1>4, <1>5, <1>6, <1>8, <2>2
  <2> QED
    BY <2>1, <2>2
<1>11. ASSUME NEW r \in T \ B2
       PROVE  \E p \in T : NextRegion(w, p) = r
  BY <1>1, <1>3, <1>6, <1>11
<1>12. ASSUME NEW r \in T, NEW s \in T, r < s
       PROVE  NextRegion(w, r) <= s
  <2>1. CASE r \in S /\ s \in S
    BY <1>1, <1>3, <1>12, <2>1
  <2>2. CASE r \in S /\ s \notin S
    <3>1. NextRegion(w, r) \in Nat /\ NextRegion(w, r) <= start /\ s \in {start, m, z}
      BY <1>2, <1>3, <2>2
    <3> QED
      BY <1>4, <3>1
  <2>3. CASE r \notin S
    <3>1. r \in {start, m, z} /\ s \notin S
      BY <1>2, <1>4, <1>12, <2>3
    <3> QED
      BY <1>4, <1>6, <1>12, <3>1
  <2> QED
    BY <2>1, <2>2, <2>3
<1>13. \A r \in B2 : ~IsFree(w, r)
  BY <1>1, <1>3, <1>6
<1>14. ASSUME NEW x \in E2
       PROVE  /\ x \notin T /\ x - 4 \in T \ B2 /\ SizeOf(w, x - 4) = 4 /\ ~IsFree(w, x - 4)
  <2>1. CASE x = end
    BY <1>1, <1>4, <1>6, <1>7, <1>8, <2>1
  <2>2. CASE x \in E
    <3>1. x < start /\ x \notin S /\ x \in Nat
      BY <1>1, <2>2
    <3>2. x - 4 \in S \ B /\ SizeOf(ws, x - 4) = 4 /\ ~IsFree(ws, x - 4)
      BY <1>1, <2>2
    <3> QED
      BY <1>3, <1>4, <1>8, <3>1, <3>2
  <2> QED
    BY <2>1, <2>2
<1>15. ASSUME NEW r \in T, IsFree(w, r)
       PROVE  ~IsFree(w, NextRegion(w, r))
  <2>1. CASE r \in S
    <3>1. IsFree(ws, r)
      BY <1>3, <1>15, <2>1
    <3>2. NextRegion(ws, r) \in S /\ ~IsFree(ws, NextRegion(ws, r))
      BY <2>1, <3>1, Neighbours
    <3> QED
      BY <1>3, <2>1, <3>2
  <2>2. CASE r \notin S
    BY <1>6, <1>15, <2>2
  <2> QED
    BY <2>1, <2>2
<1>16. Frees(w, T) = Frees(ws, S) \union {m}
  BY <1>3, <1>6 DEF Frees
<1>17. \A s \in S : NextRegion(w, s) \in E2 <=> NextRegion(ws, s) \in E
  <2> TAKE s \in S
  <2>1. NextRegion(ws, s) # end
    BY <1>2, <1>4
  <2> QED
    BY <1>3, <2>1
<1>18. Used(w, T, B2, E2) = Used(ws, S, B, E)
  BY <1>3, <1>5, <1>6, <1>8, <1>17 DEF Used
<1> HIDE DEF T, B2, E2
<1>19. Tiles(w, T, B2, E2)
  BY <1>9, <1>10, <1>11, <1>12, <1>13, <1>14, <1>15 DEF Tiles, Region
<1> QED
  BY <1>16, <1>18, <1>19 DEF T, B2, E2, m, z, Rooted

\* The root regions with one more.
LEMMA NewRootsOK ==
  ASSUME NEW roots, NEW brk, RootsOK(roots, brk), NEW end \in Nat, end <= HeapMax, brk < end,
         \A i \in DOMAIN roots : roots[i].end # brk
  PROVE  LET new == <<[start |-> brk, end |-> end]>> \o roots
         IN  /\ RootsOK(new, end) /\ Begins(new) = Begins(roots) \union {brk}
             /\ Ends(new) = Ends(roots) \union {end}
             /\ \A x \in Ends(roots) : x < brk
<1> DEFINE one == [start |-> brk, end |-> end]
           new == <<one>> \o roots
           n == Len(roots)
           Roots == [start : Nat, end : Nat]
<1>1. /\ roots \in Seq(Roots) /\ brk \in Nat
      /\ \A i \in DOMAIN roots : /\ roots[i].start < roots[i].end
                                 /\ roots[i].end <= brk /\ roots[i].end <= HeapMax
      /\ \A i, j \in DOMAIN roots : i < j => roots[j].end < roots[i].start
  BY DEF RootsOK
<1>2. n \in Nat /\ DOMAIN roots = 1..n
  BY <1>1
<1>3. \A i \in 1..n : roots[i].start \in Nat /\ roots[i].end \in Nat
  <2> TAKE i \in 1..n
  <2>1. roots[i] \in Roots
    BY <1>1, <1>2, ElementOfSeq
  <2> QED
    BY <2>1
<1>5. one \in Roots /\ one.start = brk /\ one.end = end
  BY <1>1
<1> HIDE DEF one, n, Roots
<1>4. \A i \in 1..n : roots[i].end < brk
  BY <1>1, <1>2, <1>3
<1>6. new \in Seq(Roots) /\ DOMAIN new = 1..(n + 1) /\ new[1] = one
      /\ \A i \in 1..n : new[i + 1] = roots[i]
  <2>1. /\ <<one>> \in Seq(Roots) /\ Len(<<one>>) = 1 /\ <<one>>[1] = one
    BY <1>5
  <2>2. /\ new \in Seq(Roots) /\ Len(new) = 1 + n
        /\ \A i \in 1..(1 + n) : new[i] = IF i <= 1 THEN <<one>>[i] ELSE roots[i - 1]
    BY <1>1, <2>1, ConcatProperties DEF n
  <2> HIDE DEF new
  <2>3. DOMAIN new = 1..(n + 1)
    BY <1>2, <2>2
  <2>4. \A i \in 1..n : i + 1 \in 1..(1 + n) /\ ~(i + 1 <= 1) /\ i + 1 - 1 = i
    BY <1>2
  <2>5. 1 \in 1..(1 + n) /\ 1 <= 1
    BY <1>2
  <2> QED
    BY <2>1, <2>2, <2>3, <2>4, <2>5
<1> HIDE DEF new
<1>7. \A i \in DOMAIN new : i = 1 \/ (i - 1 \in 1..n /\ new[i] = roots[i - 1])
  <2> TAKE i \in DOMAIN new
  <2>1. i = 1 \/ (i - 1 \in 1..n /\ (i - 1) + 1 = i)
    BY <1>2, <1>6
  <2> QED
    BY <1>6, <2>1
<1>8. \A i \in DOMAIN new : /\ new[i].start < new[i].end /\ new[i].end <= end
                            /\ new[i].end <= HeapMax
  <2> TAKE i \in DOMAIN new
  <2>1. CASE i = 1
    BY <1>5, <1>6, <2>1
  <2>2. CASE i # 1
    <3>1. i - 1 \in 1..n /\ new[i] = roots[i - 1]
      BY <1>7, <2>2
    <3>2. /\ roots[i - 1].end < brk /\ roots[i - 1].start < roots[i - 1].end
          /\ roots[i - 1].end <= HeapMax /\ roots[i - 1].end \in Nat
      BY <1>1, <1>2, <1>3, <1>4, <3>1
    <3> QED
      BY <1>1, <3>1, <3>2
  <2> QED
    BY <2>1, <2>2
<1>9. ASSUME NEW i \in DOMAIN new, NEW j \in DOMAIN new, i < j
      PROVE  new[j].end < new[i].start
  <2>0. i \in Nat /\ j \in Nat
    BY <1>2, <1>6
  <2>1. j # 1 /\ j - 1 \in 1..n /\ new[j] = roots[j - 1]
    <3>1. j # 1
      BY <1>2, <1>6, <1>9
    <3> QED
      BY <1>7, <3>1
  <2>2. CASE i = 1
    BY <1>4, <1>5, <1>6, <2>1, <2>2
  <2>3. CASE i # 1
    <3>1. i - 1 \in 1..n /\ new[i] = roots[i - 1]
      BY <1>7, <2>3
    <3>2. i - 1 < j - 1
      BY <1>9, <2>0
    <3> QED
      BY <1>1, <1>2, <2>1, <3>1, <3>2
  <2> QED
    BY <2>2, <2>3
<1>10. RootsOK(new, end)
  BY <1>6, <1>8, <1>9 DEF RootsOK, Roots
<1>11. 1 \in DOMAIN new /\ \A i \in 1..n : i + 1 \in DOMAIN new
  BY <1>2, <1>6
<1>12. Begins(new) = Begins(roots) \union {brk} /\ Ends(new) = Ends(roots) \union {end}
  <2>1. \A i \in 1..n : /\ i + 1 \in DOMAIN new /\ new[i + 1].start = roots[i].start
                        /\ new[i + 1].end = roots[i].end
    BY <1>6, <1>11
  <2>2. \A i \in DOMAIN new : \/ i = 1
                              \/ \E j \in 1..n : /\ new[i].start = roots[j].start
                                                /\ new[i].end = roots[j].end
    BY <1>7
  <2>3. 1 \in DOMAIN new /\ new[1].start = brk /\ new[1].end = end
    BY <1>5, <1>6, <1>11
  <2>4. DOMAIN roots = 1..n
    BY <1>2
  <2>5. \A x : x \in Begins(new) <=> x \in Begins(roots) \/ x = brk
    BY <2>1, <2>2, <2>3, <2>4 DEF Begins
  <2>6. \A x : x \in Ends(new) <=> x \in Ends(roots) \/ x = end
    BY <2>1, <2>2, <2>3, <2>4 DEF Ends
  <2> QED
    BY <2>5, <2>6
<1>13. \A x \in Ends(roots) : x < brk
  BY <1>2, <1>4 DEF Ends
<1> QED
  BY <1>10, <1>12, <1>13 DEF new, one

-----------------------------------------------------------------------------
(***************************************************************************)
(* Claiming memory                                                         *)
(***************************************************************************)
LEMMA BelowBreak ==
  ASSUME NEW h, NEW S, HeapOK(h, S)
  PROVE  h.brk \in Nat /\ \A s \in S : NextRegion(h.words, s) <= h.brk
<1>1. /\ RootsOK(h.roots, h.brk)
      /\ Tiles(h.words, S, Begins(h.roots), Ends(h.roots))
  BY HeapFacts
<1>2. /\ h.roots \in Seq([start : Nat, end : Nat]) /\ h.brk \in Nat
      /\ \A i \in DOMAIN h.roots : h.roots[i].end <= h.brk
  BY <1>1 DEF RootsOK
<1>3. ASSUME NEW s \in S
      PROVE  NextRegion(h.words, s) <= h.brk
  <2>1. PICK i \in DOMAIN h.roots : NextRegion(h.words, s) <= h.roots[i].end
    BY <1>1, InRoot
  <2>2. i \in 1..Len(h.roots)
    BY <1>2, <2>1
  <2>3. h.roots[i] \in [start : Nat, end : Nat]
    BY <1>2, <2>2, ElementOfSeq
  <2>4. NextRegion(h.words, s) \in Nat
    BY <1>1, Neighbours
  <2> QED
    BY <1>2, <2>1, <2>3, <2>4
<1> QED
  BY <1>2, <1>3

\* Region f is free, at least n words long, and first in its bucket.
FirstFree(c, T, f, n) ==
    LET b == Bucket(SizeOf(c.words, f))
    IN  /\ f \in Frees(c.words, T) /\ SizeOf(c.words, f) >= n
        /\ b \in c.used /\ c.lists[b] # <<>> /\ Head(c.lists[b]) = f

Claimed(h, S, n, c) ==
    \E T : /\ KeepsBlocks(h, S, c, T) /\ c.brk = h.brk + n
           /\ \E f : FirstFree(c, T, f, n - 8)

\* claim_more_memory.
LEMMA ClaimStep ==
  ASSUME NEW h, NEW S, HeapOK(h, S), NEW n \in Nat, n >= 12, h.brk + n <= HeapMax
  PROVE  Claimed(h, S, n, Claim(h, n))
<1> DEFINE ws == h.words
           B == Begins(h.roots)
           E == Ends(h.roots)
           F == Frees(ws, S)
           start == h.brk
           end == start + n
           z == end - 4
           h0 == [h EXCEPT !.brk = end]
           h1 == CreateUsed(h0, z, 4)
           w1 == h1.words
           last == PrevRegion(w1, PrevRegion(w1, start))
           h2 == [h1 EXCEPT !.roots[1].end = end]
           d == CreateUsed(h1, start, 4)
           h3 == [d EXCEPT !.roots = <<[start |-> start, end |-> end]>> \o @]
           c == Claim(h, n)
<1> SUFFICES Claimed(h, S, n, c)
  OBVIOUS
<1>1. c = IF Contiguous(h) /\ IsFree(w1, last)
          THEN CreateAndLink(Unlink(h2, last), last, end - 4 - last)
          ELSE IF Contiguous(h)
          THEN CreateAndLink(h2, start - 4, end - start)
          ELSE CreateAndLink(h3, start + 4, end - start - 2 * 4)
  BY DEF Claim, Region
<1>2. /\ Tiles(ws, S, B, E) /\ IsHeap(h) /\ Lists(h, ws, F) /\ RootsOK(h.roots, h.brk)
      /\ HeapMax \in Nat
  BY HeapFacts
<1>3. start \in Nat /\ \A s \in S : NextRegion(ws, s) <= start
  BY BelowBreak
<1>4. \A s \in S : s \in Nat /\ RegionOK(ws, s) /\ NextRegion(ws, s) \in Nat
  BY <1>2, Neighbours DEF Tiles
<1>5. /\ IsHeap(h0) /\ h0.words = ws /\ h0.roots = h.roots /\ h0.brk = end
      /\ Lists(h0, ws, F)
  <2>1. h0.lists = h.lists /\ h0.used = h.used
    BY <1>2 DEF IsHeap
  <2> QED
    BY <1>2, <2>1 DEF IsHeap, Lists
<1>6. end \in Nat /\ z \in Nat /\ z >= start + 8 /\ end <= HeapMax /\ z + 4 = end /\ end = start + n
  BY <1>3
<1> HIDE DEF ws, B, E, F, start, h0, c, z, end
<1>7. F \subseteq S
  BY DEF F, Frees
<1>8. /\ IsHeap(h1) /\ Lists(h1, w1, F) /\ w1 = WriteRegion(ws, z, 4, FALSE)
      /\ h1.roots = h.roots /\ h1.brk = end
  <2>1. \A s \in F : /\ s \in Nat /\ RegionOK(h0.words, s)
                     /\ s >= z + 4 \/ NextRegion(h0.words, s) <= z
    BY <1>3, <1>4, <1>5, <1>6, <1>7
  <2>2. 4 \in Nat /\ 4 >= Region
    BY DEF Region
  <2> HIDE DEF h1
  <2>3. h1 = CreateUsed(h0, z, 4)
    BY DEF h1
  <2>4. /\ IsHeap(h1) /\ Lists(h1, h1.words, F) /\ h1.words = WriteRegion(h0.words, z, 4, FALSE)
        /\ h1.roots = h0.roots /\ h1.brk = h0.brk
    <3>1. Usable(h0, F, z, 4)
      BY <1>5, <1>6, <2>1, <2>2 DEF Usable
    <3>2. CreatedUsed(h0, F, z, 4, h1)
      BY <2>3, <3>1, CreateOne
    <3> QED
      BY <3>2 DEF CreatedUsed
  <2> QED
    BY <1>5, <2>4
<1> HIDE DEF h1, w1
<1>9. /\ RegionOK(w1, z) /\ SizeOf(w1, z) = 4 /\ NextRegion(w1, z) = end /\ ~IsFree(w1, z)
      /\ \A s \in S : Keeps(ws, w1, s)
  <2>1. 4 \in Nat /\ 4 >= Region
    BY DEF Region
  <2>2. RegionOK(w1, z) /\ SizeOf(w1, z) = 4 /\ NextRegion(w1, z) = z + 4 /\ ~IsFree(w1, z)
    BY <1>6, <1>8, <2>1, WrittenUsed
  <2>3. \A s \in Nat : RegionOK(ws, s) /\ (s >= z + 4 \/ NextRegion(ws, s) <= z)
           => Keeps(ws, w1, s)
    BY <1>6, <1>8, <2>1, Written
  <2> QED
    BY <1>3, <1>4, <1>6, <2>2, <2>3
<1>10. \A s \in S : /\ RegionOK(w1, s) /\ NextRegion(w1, s) = NextRegion(ws, s)
                    /\ SizeOf(w1, s) = SizeOf(ws, s) /\ IsFree(w1, s) = IsFree(ws, s)
  BY <1>4, <1>9, KeptRegion
\* The latest root region grows.
<1>11. ASSUME Contiguous(h), NEW a \in S \ B, a < start, a + 4 <= z, NEW g,
              \A s \in Inside(S, a, start) :
                 /\ NextRegion(ws, s) \in Inside(S, a, start) \union {start}
                 /\ s \notin B /\ s \notin UsedIn(h, S),
              \A s \in S : NextRegion(ws, s) = a => ~IsFree(ws, s),
              IsHeap(g), g.words = w1, Lists(g, w1, F \ Inside(S, a, start)), g.brk = end,
              g.roots = [h.roots EXCEPT ![1].end = end],
              c = CreateAndLink(g, a, z - a), z - a >= n - 8
       PROVE  Claimed(h, S, n, c)
  <2> DEFINE Old == Inside(S, a, start)
             k == z - a
             w == c.words
  <2>1. /\ a \in Nat /\ k \in Nat /\ k >= Region /\ k <= HeapMax /\ a + k = z
    BY <1>2, <1>4, <1>6, <1>11 DEF Region
  <2>2. \A s \in S \ Old : s \in Nat /\ RegionOK(ws, s) /\ NextRegion(ws, s) <= a
    <3>1. \A s, t \in S : s < t => NextRegion(ws, s) <= t
      BY <1>2 DEF Tiles
    <3>2. \A s \in S : s < NextRegion(ws, s)
      BY <1>2, Neighbours
    <3> QED
      BY <1>3, <1>4, <1>11, <3>1, <3>2 DEF Inside
  <2>3. a \in Old
    BY <1>4, <1>11 DEF Inside
  <2>4. \A s \in F \ Old : /\ s \in Nat /\ RegionOK(w1, s)
                           /\ s >= a + k \/ NextRegion(w1, s) <= a
    BY <1>7, <1>10, <2>2
  <2> DEFINE G == F \ Old
  <2> HIDE DEF Old, k, w, G
  <2>5. /\ IsHeap(c) /\ Lists(c, c.words, G \union {a})
        /\ c.words = WriteRegion(g.words, a, k, TRUE) /\ c.roots = g.roots
        /\ c.brk = g.brk
        /\ Bucket(k) \in c.used /\ c.lists[Bucket(k)] # <<>> /\ Head(c.lists[Bucket(k)]) = a
    <3>1. c = CreateAndLink(g, a, k) /\ Lists(g, g.words, G) /\ a \notin G
      BY <1>11, <2>3 DEF k, G, Old
    <3>2. \A s \in G : /\ s \in Nat /\ RegionOK(g.words, s)
                       /\ s >= a + k \/ NextRegion(g.words, s) <= a
      BY <1>11, <2>4 DEF G
    <3>3. Linkable(g, G, a, k)
      BY <1>11, <2>1, <3>1, <3>2 DEF Linkable
    <3>4. LinkedFirst(g, G, a, k, c)
      BY <3>1, <3>3, LinkFirst
    <3> QED
      BY <3>4 DEF LinkedFirst
  <2>6. w = WriteRegion(w1, a, k, TRUE)
    BY <1>11, <2>5 DEF w
  <2>7. RegionOK(w, a) /\ SizeOf(w, a) = k /\ NextRegion(w, a) = z /\ IsFree(w, a)
    BY <2>1, <2>6, WrittenFree
  <2>8. \A s \in Nat : RegionOK(w1, s) /\ (s >= a + k \/ NextRegion(w1, s) <= a)
           => Keeps(w1, w, s)
    BY <2>1, <2>6, Written
  <2>9. Keeps(w1, w, z) /\ \A s \in S \ Old : Keeps(ws, w, s)
    <3>1. z >= a + k
      BY <1>6, <2>1
    <3>2. \A s \in S \ Old : Keeps(w1, w, s)
      BY <1>10, <2>2, <2>8
    <3> QED
      BY <1>6, <1>9, <2>8, <3>1, <3>2, KeptTwice
  <2>10. RegionOK(w, z) /\ SizeOf(w, z) = 4 /\ ~IsFree(w, z)
    BY <1>9, <2>9, KeptRegion
  <2> DEFINE T == (S \ Old) \union {a, end - 4}
  <2>11. KeepsBlocks(h, S, c, T)
    <3>1. end - 4 = z
      BY DEF z
    <3>2. c.roots = [h.roots EXCEPT ![1].end = end] /\ c.brk = end
      BY <1>11, <2>5
    <3>3. Lists(c, c.words, (Frees(ws, S) \ Old) \union {a})
      BY <2>5 DEF G, F
    <3> QED
      BY <1>6, <1>11, <2>5, <2>7, <2>9, <2>10, <3>1, <3>2, <3>3, HeapRetop
        DEF T, Old, w, ws, B, start
  <2>12. FirstFree(c, T, a, n - 8)
    <3>1. a \in Frees(w, T)
      BY <2>7 DEF Frees
    <3> HIDE DEF T
    <3> QED
      BY <1>11, <2>5, <2>7, <3>1 DEF FirstFree, w, k
  <2>13. c.brk = h.brk + n
    BY <1>6, <1>11, <2>5 DEF start
  <2> HIDE DEF T
  <2> QED
    BY <2>11, <2>12, <2>13 DEF Claimed
<1>12. Contiguous(h) => /\ IsHeap(h2) /\ h2.words = w1 /\ Lists(h2, w1, F) /\ h2.brk = end
                        /\ h2.roots = [h.roots EXCEPT ![1].end = end]
  <2>1. /\ IsHeap(h2) /\ h2.words = w1 /\ h2.lists = h1.lists /\ h2.used = h1.used
        /\ h2.brk = end /\ h2.roots = [h.roots EXCEPT ![1].end = end]
    BY <1>8 DEF IsHeap, w1
  <2> QED
    BY <1>8, <2>1 DEF Lists
<1> HIDE DEF h2
<1>13. ASSUME Contiguous(h)
       PROVE  /\ start - 4 \in S \ B /\ NextRegion(ws, start - 4) = start
              /\ last \in S /\ NextRegion(ws, last) = start - 4
              /\ ~IsFree(ws, start - 4) /\ start \in E
  <2>1. /\ start - 4 \in S \ B /\ NextRegion(ws, start - 4) = start /\ ~IsFree(ws, start - 4)
        /\ SizeOf(ws, start - 4) = 4 /\ start \in E
        /\ PrevRegion(ws, start - 4) \in S
        /\ NextRegion(ws, PrevRegion(ws, start - 4)) = start - 4
    BY <1>13, Top DEF start, ws, B, E
  <2>2. Consistent(w1, start - 4) /\ NextRegion(w1, start - 4) = start /\ SizeOf(w1, start - 4) = 4
    BY <1>10, <2>1 DEF RegionOK
  <2>3. PrevRegion(w1, start) = start - 4
    BY <2>2 DEF PrevRegion, Consistent, Ceiling, SizeOf
  <2>4. PrevRegion(w1, start - 4) = PrevRegion(ws, start - 4)
    <3> DEFINE p == PrevRegion(ws, start - 4)
    <3>1. p \in S /\ NextRegion(ws, p) = start - 4
      BY <2>1
    <3> HIDE DEF p
    <3>2. Keeps(ws, w1, p) /\ NextRegion(w1, p) = start - 4
      BY <1>9, <1>10, <3>1
    <3>3. Word(w1, start - 4 - 1) = Word(ws, start - 4 - 1)
      BY <3>1, <3>2 DEF Keeps, Ceiling
    <3> QED
      BY <3>3 DEF PrevRegion, SizeOf
  <2> QED
    BY <2>1, <2>3, <2>4
<1> HIDE DEF last
<1>14. CASE Contiguous(h) /\ IsFree(w1, last)
  <2>1. /\ last \in S \ B /\ last \in Nat /\ last + 4 <= start - 4 /\ IsFree(ws, last)
    BY <1>2, <1>4, <1>10, <1>13, <1>14, Neighbours
  <2>2. Inside(S, last, start) = {last, start - 4}
    BY <1>2, <1>13, <1>14, TwoInside
  <2>3. start - 4 \notin UsedIn(h, S) /\ last \notin UsedIn(h, S)
    BY <1>13, <1>14, <2>1 DEF UsedIn, Used, ws, E
  <2>4. \A s \in S : NextRegion(ws, s) = last => ~IsFree(ws, s)
    BY <1>2, <2>1, Neighbours
  <2> DEFINE g == Unlink(h2, last)
  <2>5. /\ IsHeap(g) /\ Lists(g, w1, F \ {last}) /\ g.words = w1
        /\ g.roots = [h.roots EXCEPT ![1].end = end] /\ g.brk = end
    BY <1>12, <1>14, UnlinkStep
  <2>6. F \ Inside(S, last, start) = F \ {last}
    BY <1>13, <1>14, <2>2 DEF F, Frees
  <2>7. c = CreateAndLink(g, last, z - last)
    BY <1>1, <1>14 DEF z
  <2> HIDE DEF g
  <2>8. last < start /\ last + 4 <= z /\ z - last >= n - 8
    BY <1>3, <1>6, <2>1
  <2>9. \A s \in Inside(S, last, start) :
           /\ NextRegion(ws, s) \in Inside(S, last, start) \union {start}
           /\ s \notin B /\ s \notin UsedIn(h, S)
    BY <1>13, <1>14, <2>1, <2>2, <2>3
  <2>10. Lists(g, w1, F \ Inside(S, last, start))
    BY <2>5, <2>6
  <2> QED
    BY <1>11, <1>14, <2>1, <2>4, <2>5, <2>7, <2>8, <2>9, <2>10
<1>15. CASE Contiguous(h) /\ ~IsFree(w1, last)
  <2> DEFINE a == start - 4
  <2>1. Inside(S, a, start) = {a}
    <3>1. a \in S /\ NextRegion(ws, a) = start
      BY <1>13, <1>15
    <3> QED
      BY <1>2, <3>1, OneInside
  <2>2. a \in S \ B /\ a \notin UsedIn(h, S) /\ ~IsFree(ws, a) /\ NextRegion(ws, a) = start
    BY <1>13, <1>15 DEF UsedIn, Used, ws, E
  <2>3. \A s \in S : NextRegion(ws, s) = a => ~IsFree(ws, s)
    <3> TAKE s \in S
    <3>1. HAVE NextRegion(ws, s) = a
    <3>2. /\ PrevRegion(ws, a) = s /\ last \in S /\ NextRegion(ws, last) = a
          /\ PrevRegion(ws, a) = last
      BY <1>2, <1>13, <1>15, <2>2, <3>1, Neighbours
    <3> QED
      BY <1>10, <1>15, <3>2
  <2>4. F \ Inside(S, a, start) = F
    BY <2>1, <2>2 DEF F, Frees
  <2>5. a < start /\ a + 4 <= z /\ z - a >= n - 8 /\ end - start = z - a /\ a = start - 4
    BY <1>3, <1>6
  <2>6. c = CreateAndLink(h2, a, z - a)
    BY <1>1, <1>15, <2>5
  <2> HIDE DEF a
  <2>7. \A s \in Inside(S, a, start) :
           /\ NextRegion(ws, s) \in Inside(S, a, start) \union {start}
           /\ s \notin B /\ s \notin UsedIn(h, S)
    BY <2>1, <2>2
  <2>8. Lists(h2, w1, F \ Inside(S, a, start))
    BY <1>12, <1>15, <2>4
  <2> QED
    BY <1>11, <1>12, <1>15, <2>2, <2>3, <2>5, <2>6, <2>7, <2>8
<1>16. CASE ~Contiguous(h)
  <2> DEFINE roots == <<[start |-> start, end |-> end]>> \o h.roots
  <2>1. \A i \in DOMAIN h.roots : h.roots[i].end # start
    <3>1. /\ h.roots \in Seq([start : Nat, end : Nat])
          /\ \A i \in DOMAIN h.roots : /\ h.roots[i].start < h.roots[i].end
                                       /\ h.roots[i].end <= start
          /\ \A i, j \in DOMAIN h.roots : i < j => h.roots[j].end < h.roots[i].start
      BY <1>2 DEF RootsOK, start
    <3>2. Len(h.roots) \in Nat /\ DOMAIN h.roots = 1..Len(h.roots)
      BY <3>1
    <3> TAKE i \in DOMAIN h.roots
    <3>3. h.roots # <<>> /\ 1 \in DOMAIN h.roots
      BY <3>2
    <3>4. h.roots[1].end # start
      <4>1. Head(h.roots) = h.roots[1]
        BY <3>1, <3>3
      <4> QED
        BY <1>16, <3>3, <4>1, Zenon DEF Contiguous, start
    <3>5. /\ h.roots[i] \in [start : Nat, end : Nat] /\ h.roots[1] \in [start : Nat, end : Nat]
      BY <3>1, <3>2, <3>3, ElementOfSeq
    <3>6. i # 1 => h.roots[i].end < h.roots[1].start
      <4>1. i # 1 => 1 < i
        BY <3>2
      <4> QED
        BY <3>1, <3>3, <4>1
    <3>7. /\ h.roots[1].start < h.roots[1].end /\ h.roots[1].end <= start
          /\ h.roots[1].start \in Nat /\ h.roots[1].end \in Nat /\ h.roots[i].end \in Nat
      BY <3>1, <3>3, <3>5
    <3> QED
      BY <1>3, <3>4, <3>6, <3>7
  <2>2. /\ RootsOK(roots, end) /\ Begins(roots) = B \union {start}
        /\ Ends(roots) = E \union {end} /\ \A x \in E : x < start
    <3>1. RootsOK(h.roots, start) /\ start < end
      BY <1>2, <1>3, <1>6 DEF start
    <3> QED
      BY <1>6, <2>1, <3>1, NewRootsOK DEF B, E
  <2> HIDE DEF roots
  <2>3. /\ IsHeap(d) /\ Lists(d, d.words, F) /\ d.words = WriteRegion(w1, start, 4, FALSE)
        /\ d.roots = h.roots /\ d.brk = end
    <3>1. \A s \in F : /\ s \in Nat /\ RegionOK(h1.words, s)
                       /\ s >= start + 4 \/ NextRegion(h1.words, s) <= start
      BY <1>3, <1>4, <1>7, <1>10 DEF w1
    <3>2. 4 \in Nat /\ 4 >= Region /\ Lists(h1, h1.words, F)
      BY <1>8 DEF Region, w1
    <3>3. d = CreateUsed(h1, start, 4)
      OBVIOUS
    <3> HIDE DEF d
    <3>4. /\ IsHeap(d) /\ Lists(d, d.words, F)
          /\ d.words = WriteRegion(h1.words, start, 4, FALSE)
          /\ d.roots = h1.roots /\ d.brk = h1.brk
      BY <1>3, <1>8, <3>1, <3>2, <3>3, CreateUsedStep
    <3> QED
      BY <1>8, <3>4 DEF w1
  <2> HIDE DEF d
  <2> DEFINE w2 == d.words
  <2>4. /\ IsHeap(h3) /\ h3.words = w2 /\ Lists(h3, w2, F) /\ h3.brk = end
        /\ h3.roots = roots
    <3>1. /\ IsHeap(h3) /\ h3.words = w2 /\ h3.lists = d.lists /\ h3.used = d.used
          /\ h3.brk = end /\ h3.roots = roots
      BY <2>3 DEF IsHeap, roots
    <3> QED
      BY <2>3, <3>1 DEF Lists
  <2> HIDE DEF h3
  <2>5. w2 = WriteRegion(w1, start, 4, FALSE)
    BY <2>3
  <2> HIDE DEF w2
  <2>6. /\ RegionOK(w2, start) /\ NextRegion(w2, start) = start + 4 /\ ~IsFree(w2, start)
        /\ \A s \in S : Keeps(w1, w2, s)
        /\ Keeps(w1, w2, z)
    <3>1. 4 \in Nat /\ 4 >= Region
      BY DEF Region
    <3>2. RegionOK(w2, start) /\ NextRegion(w2, start) = start + 4 /\ ~IsFree(w2, start)
      BY <1>3, <2>5, <3>1, WrittenUsed
    <3>3. \A s \in Nat : RegionOK(w1, s) /\ (s >= start + 4 \/ NextRegion(w1, s) <= start)
             => Keeps(w1, w2, s)
      BY <1>3, <2>5, <3>1, Written
    <3>4. z >= start + 4
      BY <1>3, <1>6
    <3> QED
      BY <1>3, <1>4, <1>6, <1>9, <1>10, <3>2, <3>3, <3>4
  <2> DEFINE m == start + 4
             k == n - 8
             w == c.words
  <2>7. m \in Nat /\ k \in Nat /\ k >= Region /\ k <= HeapMax /\ m + k = z /\ m # start
    BY <1>2, <1>3, <1>6 DEF Region
  <2>8. c = CreateAndLink(h3, m, k)
    <3>1. end - start - 2 * 4 = k
      BY <1>3, <1>6
    <3> QED
      BY <1>1, <1>16, <3>1
  <2>9. \A s \in S : /\ RegionOK(w2, s) /\ NextRegion(w2, s) = NextRegion(ws, s)
                     /\ s \in Nat /\ NextRegion(w2, s) <= start
    BY <1>3, <1>4, <1>10, <2>6, KeptRegion
  <2>10. m \notin F
    <3>1. \A s \in S : s < NextRegion(ws, s)
      BY <1>2, Neighbours
    <3> QED
      BY <1>3, <1>4, <1>7, <3>1
  <2>11. \A s \in F : /\ s \in Nat /\ RegionOK(h3.words, s)
                      /\ s >= m + k \/ NextRegion(h3.words, s) <= m
    <3>1. \A s \in F : s \in Nat /\ RegionOK(w2, s) /\ NextRegion(w2, s) <= start
      BY <1>7, <2>9
    <3>2. \A s \in F : NextRegion(w2, s) \in Nat
      BY <1>4, <1>7, <2>9
    <3> QED
      BY <1>3, <2>4, <3>1, <3>2
  <2>17. RegionOK(w2, z) /\ NextRegion(w2, start) = m
    BY <1>9, <2>6, KeptRegion
  <2> HIDE DEF m, k, w
  <2>12. /\ IsHeap(c) /\ Lists(c, c.words, F \union {m})
         /\ c.words = WriteRegion(h3.words, m, k, TRUE) /\ c.roots = h3.roots
         /\ c.brk = h3.brk
         /\ Bucket(k) \in c.used /\ c.lists[Bucket(k)] # <<>> /\ Head(c.lists[Bucket(k)]) = m
    <3>1. Linkable(h3, F, m, k)
      BY <2>4, <2>7, <2>10, <2>11 DEF Linkable
    <3>2. LinkedFirst(h3, F, m, k, c)
      BY <2>8, <3>1, LinkFirst
    <3> QED
      BY <3>2 DEF LinkedFirst
  <2>13. w = WriteRegion(w2, m, k, TRUE)
    BY <2>4, <2>12 DEF w
  <2>14. RegionOK(w, m) /\ SizeOf(w, m) = k /\ NextRegion(w, m) = z /\ IsFree(w, m)
    BY <2>7, <2>13, WrittenFree
  <2>15. \A s \in Nat : RegionOK(w2, s) /\ (s >= m + k \/ NextRegion(w2, s) <= m)
            => Keeps(w2, w, s)
    BY <2>7, <2>13, Written
  <2>16. Keeps(w2, w, z) /\ Keeps(w2, w, start) /\ \A s \in S : Keeps(w2, w, s)
    <3>1. z >= m + k /\ NextRegion(w2, start) <= m
      BY <1>6, <2>7, <2>17
    <3>2. \A s \in S : NextRegion(w2, s) <= m
      <4>1. \A s \in S : NextRegion(w2, s) \in Nat /\ NextRegion(w2, s) <= start
        BY <1>4, <2>9
      <4> QED
        BY <1>3, <4>1 DEF m
    <3> QED
      BY <1>3, <1>6, <2>6, <2>9, <2>15, <2>17, <3>1, <3>2
  <2>18. /\ \A s \in S : Keeps(ws, w, s)
         /\ RegionOK(w, start) /\ NextRegion(w, start) = start + 4 /\ ~IsFree(w, start)
         /\ RegionOK(w, z) /\ SizeOf(w, z) = 4 /\ ~IsFree(w, z)
    <3>1. \A s \in S : Keeps(ws, w, s)
      BY <1>9, <2>6, <2>16, KeptTwice
    <3>2. Keeps(w1, w, z)
      BY <2>6, <2>16, KeptTwice
    <3> QED
      BY <1>9, <2>6, <2>16, <3>1, <3>2, KeptRegion
  <2> DEFINE T == S \union {start, start + 4, end - 4}
  <2>19. /\ Tiles(w, T, B \union {start}, E \union {end})
         /\ Frees(w, T) = F \union {m}
         /\ Used(w, T, B \union {start}, E \union {end}) = Used(ws, S, B, E)
    <3>1. end - 4 = z /\ m = start + 4 /\ start + 12 <= end
      BY <1>3, <1>6 DEF z, m
    <3>2. /\ RegionOK(w, start + 4) /\ NextRegion(w, start + 4) = end - 4 /\ IsFree(w, start + 4)
          /\ RegionOK(w, end - 4) /\ SizeOf(w, end - 4) = 4 /\ ~IsFree(w, end - 4)
      BY <2>14, <2>18, <3>1
    <3>3. RootAt(w, start, end)
      BY <2>18, <3>2 DEF RootAt
    <3> HIDE DEF T
    <3>4. T = S \union {start, start + 4, end - 4}
      BY DEF T
    <3>5. Rooted(ws, w, S, B, E, start, end, T)
      BY <1>2, <1>3, <1>6, <2>2, <2>18, <3>1, <3>3, <3>4, NewRootRegion
    <3> QED
      BY <3>1, <3>5 DEF F, Rooted
  <2> HIDE DEF T
  <2>20. HeapOK(c, T)
    BY <2>2, <2>4, <2>12, <2>19 DEF HeapOK, w
  <2>21. UsedIn(c, T) = UsedIn(h, S)
    BY <2>2, <2>4, <2>12, <2>19 DEF UsedIn, w, ws, B, E
  <2>22. \A u \in UsedIn(h, S) : SizeOf(w, u) = SizeOf(ws, u)
    <3>1. UsedIn(h, S) \subseteq S
      BY DEF UsedIn, Used
    <3> QED
      BY <2>18, <3>1 DEF Keeps
  <2>23. KeepsBlocks(h, S, c, T)
    BY <2>20, <2>21, <2>22 DEF KeepsBlocks, w, ws
  <2>24. FirstFree(c, T, m, n - 8)
    <3>1. m \in Frees(c.words, T) /\ SizeOf(c.words, m) = k
      BY <2>14, <2>19 DEF w
    <3>2. k >= n - 8
      BY DEF k
    <3> QED
      BY <2>12, <3>1, <3>2 DEF FirstFree
  <2>25. c.brk = h.brk + n
    BY <1>6, <2>4, <2>12 DEF start
  <2> QED
    BY <2>23, <2>24, <2>25 DEF Claimed
<1> QED
  BY <1>14, <1>15, <1>16

-----------------------------------------------------------------------------
(***************************************************************************)
(* The buckets                                                             *)
(***************************************************************************)
Power == [k \in 0..30 |-> 2 ^ k]

\* What the prover knows of powers of two it knows of this function.
LEMMA PowerIs ==
  \A k \in 0..30 : Power[k] = 2 ^ k
BY DEF Power

\* Its values.
LEMMA PowerTable ==
  /\ Power[0] = 1 /\ Power[1] = 2 /\ Power[2] = 4 /\ Power[3] = 8 /\ Power[4] = 16
  /\ Power[5] = 32 /\ Power[6] = 64 /\ Power[7] = 128 /\ Power[8] = 256 /\ Power[9] = 512
  /\ Power[10] = 1024 /\ Power[11] = 2048 /\ Power[12] = 4096 /\ Power[13] = 8192
  /\ Power[14] = 16384 /\ Power[15] = 32768 /\ Power[16] = 65536 /\ Power[17] = 131072
  /\ Power[18] = 262144 /\ Power[19] = 524288 /\ Power[20] = 1048576
  /\ Power[21] = 2097152 /\ Power[22] = 4194304 /\ Power[23] = 8388608
  /\ Power[24] = 16777216 /\ Power[25] = 33554432 /\ Power[26] = 67108864
  /\ Power[27] = 134217728 /\ Power[28] = 268435456 /\ Power[29] = 536870912
  /\ Power[30] = 1073741824
BY SMT DEF Power

\* The next power of two is twice as large, and all are positive.
LEMMA Doubles ==
  /\ \A k \in 0..30 : Power[k] \in Nat /\ Power[k] >= 1
  /\ \A k \in 0..29 : Power[k + 1] = 2 * Power[k]
<1>1. ASSUME NEW k \in 0..29
      PROVE  Power[k + 1] = 2 * Power[k]
  <2>1. \/ k = 0 \/ k = 1 \/ k = 2 \/ k = 3 \/ k = 4 \/ k = 5 \/ k = 6 \/ k = 7
        \/ k = 8 \/ k = 9 \/ k = 10 \/ k = 11 \/ k = 12 \/ k = 13 \/ k = 14 \/ k = 15
        \/ k = 16 \/ k = 17 \/ k = 18 \/ k = 19 \/ k = 20 \/ k = 21 \/ k = 22 \/ k = 23
        \/ k = 24 \/ k = 25 \/ k = 26 \/ k = 27 \/ k = 28 \/ k = 29
    OBVIOUS
  <2> QED
    BY SMT, <2>1, PowerTable
<1>2. ASSUME NEW k \in 0..30
      PROVE  Power[k] \in Nat /\ Power[k] >= 1
  <2>1. \/ k = 0 \/ k = 1 \/ k = 2 \/ k = 3 \/ k = 4 \/ k = 5 \/ k = 6 \/ k = 7
        \/ k = 8 \/ k = 9 \/ k = 10 \/ k = 11 \/ k = 12 \/ k = 13 \/ k = 14 \/ k = 15
        \/ k = 16 \/ k = 17 \/ k = 18 \/ k = 19 \/ k = 20 \/ k = 21 \/ k = 22 \/ k = 23
        \/ k = 24 \/ k = 25 \/ k = 26 \/ k = 27 \/ k = 28 \/ k = 29 \/ k = 30
    OBVIOUS
  <2> QED
    BY SMT, <2>1, PowerTable
<1> QED
  BY <1>1, <1>2

\* Log2 of the sizes whose buckets are not 8 bytes wide.
LEMMA Log2Is ==
  ASSUME NEW n \in Nat, Power[7] <= n, n < Power[27]
  PROVE  \E k \in 7..26 : Log2(n) = k /\ Power[k] <= n /\ n < 2 * Power[k]
<1> DEFINE In(j) == 2 ^ j <= n /\ (j = 30 \/ n < 2 ^ (j + 1))
           Is(j) == Power[j] <= n /\ (j = 30 \/ n < Power[j + 1])
<1>1. \E k \in 7..26 : Power[k] <= n /\ n < Power[k + 1]
  BY SMT, PowerTable
<1>2. PICK k \in 7..26 : Power[k] <= n /\ n < Power[k + 1]
  BY <1>1
<1>3. k \in 0..29 /\ k \in 0..30 /\ n < 2 * Power[k]
  <2>1. k \in 0..29 /\ k \in 0..30
    OBVIOUS
  <2> QED
    BY <1>2, <2>1, Doubles
<1>4. ASSUME NEW j \in 0..30
      PROVE  In(j) <=> Is(j)
  <2>1. Power[j] = 2 ^ j
    BY PowerIs, Zenon
  <2>2. j = 30 \/ Power[j + 1] = 2 ^ (j + 1)
    <3>1. j = 30 \/ j + 1 \in 0..30
      OBVIOUS
    <3> QED
      BY <3>1, PowerIs, Zenon
  <2> QED
    BY <2>1, <2>2, Zenon
<1>5. ASSUME NEW j \in 0..30, Is(j)
      PROVE  j = k
  <2>1. \/ j = 0 \/ j = 1 \/ j = 2 \/ j = 3 \/ j = 4 \/ j = 5 \/ j = 6 \/ j = 7
        \/ j = 8 \/ j = 9 \/ j = 10 \/ j = 11 \/ j = 12 \/ j = 13 \/ j = 14 \/ j = 15
        \/ j = 16 \/ j = 17 \/ j = 18 \/ j = 19 \/ j = 20 \/ j = 21 \/ j = 22 \/ j = 23
        \/ j = 24 \/ j = 25 \/ j = 26 \/ j = 27 \/ j = 28 \/ j = 29 \/ j = 30
    OBVIOUS
  <2>2. \/ k = 7 \/ k = 8 \/ k = 9 \/ k = 10 \/ k = 11 \/ k = 12 \/ k = 13 \/ k = 14
        \/ k = 15 \/ k = 16 \/ k = 17 \/ k = 18 \/ k = 19 \/ k = 20 \/ k = 21 \/ k = 22
        \/ k = 23 \/ k = 24 \/ k = 25 \/ k = 26
    OBVIOUS
  <2> QED
    BY SMT, <1>2, <1>5, <2>1, <2>2, PowerTable
<1>6. Is(k)
  BY <1>2
<1>7. Log2(n) = k
  <2>1. Log2(n) = CHOOSE j \in 0..30 : In(j)
    BY DEF Log2
  <2> HIDE DEF In, Is
  <2> QED
    BY <1>3, <1>4, <1>5, <1>6, <2>1
<1> QED
  BY <1>2, <1>3, <1>7

\* What a division leaves.
LEMMA Quotient ==
  ASSUME NEW x \in Nat, NEW m \in Nat, m >= 1
  PROVE  /\ x \div m \in Nat /\ (x \div m) * m <= x /\ x < (x \div m) * m + m
OBVIOUS

\* The bounds of the buckets are numbers,
LEMMA TableNumbers ==
  ASSUME NEW i \in 1..64
  PROVE  BucketLow[i] \in Nat
<1>1. \/ i = 1 \/ i = 2 \/ i = 3 \/ i = 4 \/ i = 5 \/ i = 6 \/ i = 7 \/ i = 8
      \/ i = 9 \/ i = 10 \/ i = 11 \/ i = 12 \/ i = 13 \/ i = 14 \/ i = 15 \/ i = 16
      \/ i = 17 \/ i = 18 \/ i = 19 \/ i = 20 \/ i = 21 \/ i = 22 \/ i = 23 \/ i = 24
      \/ i = 25 \/ i = 26 \/ i = 27 \/ i = 28 \/ i = 29 \/ i = 30 \/ i = 31 \/ i = 32
      \/ i = 33 \/ i = 34 \/ i = 35 \/ i = 36 \/ i = 37 \/ i = 38 \/ i = 39 \/ i = 40
      \/ i = 41 \/ i = 42 \/ i = 43 \/ i = 44 \/ i = 45 \/ i = 46 \/ i = 47 \/ i = 48
      \/ i = 49 \/ i = 50 \/ i = 51 \/ i = 52 \/ i = 53 \/ i = 54 \/ i = 55 \/ i = 56
      \/ i = 57 \/ i = 58 \/ i = 59 \/ i = 60 \/ i = 61 \/ i = 62 \/ i = 63 \/ i = 64
  OBVIOUS
<1> QED
  BY SMT, <1>1 DEF BucketLow

\* The table, where four buckets share a power of two, and where two do.
LEMMA TableQuarters ==
  ASSUME NEW k \in 7..11, NEW q \in 4..7
  PROVE  /\ BucketLow[4 * k - 17 + q] <= q * Power[k - 2]
         /\ BucketLow[4 * k - 16 + q] >= q * Power[k - 2] + Power[k - 2]
<1>1. k = 7 \/ k = 8 \/ k = 9 \/ k = 10 \/ k = 11
  OBVIOUS
<1>2. q = 4 \/ q = 5 \/ q = 6 \/ q = 7
  OBVIOUS
<1>3. CASE k = 7 \/ k = 8
  BY SMT, <1>2, <1>3, PowerTable DEF BucketLow
<1>4. CASE k = 9 \/ k = 10
  BY SMT, <1>2, <1>4, PowerTable DEF BucketLow
<1>5. CASE k = 11
  BY SMT, <1>2, <1>5, PowerTable DEF BucketLow
<1> QED
  BY <1>1, <1>3, <1>4, <1>5

\* The table, where two buckets share a power of two.
LEMMA TableHalves ==
  ASSUME NEW k \in 12..26, NEW q \in 2..3
  PROVE  /\ BucketLow[2 * k + 8 + q] <= q * Power[k - 1]
         /\ BucketLow[2 * k + 9 + q] >= q * Power[k - 1] + Power[k - 1]
<1>1. \/ k = 12 \/ k = 13 \/ k = 14 \/ k = 15 \/ k = 16 \/ k = 17 \/ k = 18 \/ k = 19
      \/ k = 20 \/ k = 21 \/ k = 22 \/ k = 23 \/ k = 24 \/ k = 25 \/ k = 26
  OBVIOUS
<1>2. q = 2 \/ q = 3
  OBVIOUS
<1> QED
  BY SMT, <1>1, <1>2, PowerTable DEF BucketLow

\* The bucket of a size is the one in whose bounds it is.
InBucket(b, n) == /\ b \in 0..63 /\ BucketLow[b + 1] <= n
                  /\ b < 63 => n < BucketLow[b + 2]

\* compute_free_list_bucket puts every size that a free region can have in the
\* bucket of the table at emmalloc.c:180.
THEOREM WhichBucket ==
  ASSUME NEW n \in Nat, n >= 8
  PROVE  InBucket(compute_free_list_bucket(n), n)
<1> DEFINE b == compute_free_list_bucket(n)
           k == Log2(n)
<1>1. n < 128 => b = n \div 8 - 1
  BY SMT DEF compute_free_list_bucket
<1>2. 128 <= n /\ 134217728 <= n => b = 63
  <2>1. 2 ^ 27 = 134217728
    BY SMT
  <2> QED
    BY SMT, <2>1 DEF compute_free_list_bucket
<1>3. 128 <= n /\ n < 134217728
         => b = IF k < 12 THEN 4 * k - 14 + (n \div 2 ^ (k - 2) - 4)
                ELSE 2 * k + 9 + (n \div 2 ^ (k - 1) - 2)
  <2>1. 2 ^ 27 = 134217728
    BY SMT
  <2> HIDE DEF k
  <2> QED
    BY SMT, <2>1 DEF compute_free_list_bucket, k
<1> HIDE DEF b, k
<1>4. CASE n < 128
  <2> DEFINE q == n \div 8
  <2>1. q \in 1..15 /\ 8 * q <= n /\ n < 8 * q + 8 /\ b = q - 1
    BY SMT, <1>1, <1>4
  <2> HIDE DEF q
  <2>2. \/ q = 1 \/ q = 2 \/ q = 3 \/ q = 4 \/ q = 5 \/ q = 6 \/ q = 7 \/ q = 8
        \/ q = 9 \/ q = 10 \/ q = 11 \/ q = 12 \/ q = 13 \/ q = 14 \/ q = 15
    BY <2>1
  <2>3. BucketLow[q] = 8 * q /\ 8 * q + 8 <= BucketLow[q + 1]
        /\ BucketLow[q + 1] \in Nat
    BY SMT, <2>2 DEF BucketLow
  <2>4. b + 1 = q /\ b + 2 = q + 1 /\ b \in 0..63
    BY <2>1
  <2> QED
    BY SMT, <2>1, <2>3, <2>4 DEF InBucket, b
<1>5. CASE 128 <= n /\ 134217728 <= n
  <2>1. BucketLow[64] = 134217728
    BY SMT DEF BucketLow
  <2> QED
    BY SMT, <1>2, <1>5, <2>1 DEF InBucket, b
<1>6. CASE 128 <= n /\ n < 134217728
  <2>1. Power[7] <= n /\ n < Power[27]
    BY SMT, <1>6, PowerTable
  <2>2. k \in 7..26 /\ Power[k] <= n /\ n < 2 * Power[k]
    BY SMT, <2>1, Log2Is DEF k
  <2>3. CASE k < 12
    <3> DEFINE m == Power[k - 2]
               q == n \div m
    <3>1. k - 2 \in 0..29 /\ k - 2 \in 0..30 /\ k - 1 \in 0..29 /\ k - 2 + 1 = k - 1 /\ k - 1 + 1 = k
      BY SMT, <2>2, <2>3
    <3>2. m \in Nat /\ m >= 1 /\ Power[k] = 4 * m /\ m = 2 ^ (k - 2)
      <4>1. m \in Nat /\ m >= 1 /\ Power[k - 1] = 2 * m /\ Power[k] = 2 * Power[k - 1]
        BY <3>1, Doubles
      <4>2. m = 2 ^ (k - 2)
        BY <3>1, PowerIs
      <4> HIDE DEF m
      <4> QED
        BY <4>1, <4>2
    <3> HIDE DEF m
    <3>3. q \in Nat /\ q * m <= n /\ n < q * m + m
      BY <3>2, Quotient
    <3> HIDE DEF q
    <3>4. q \in 4..7
      BY SMT, <2>2, <3>2, <3>3
    <3>5. b = 4 * k - 14 + (q - 4)
      BY SMT, <1>3, <1>6, <2>3, <3>2 DEF q
    <3>6. BucketLow[4 * k - 17 + q] <= q * m /\ BucketLow[4 * k - 16 + q] >= q * m + m
      <4>1. k \in 7..11
        BY SMT, <2>2, <2>3
      <4> QED
        BY SMT, <3>4, <4>1, TableQuarters DEF m
    <3>7. b + 1 = 4 * k - 17 + q /\ b + 2 = 4 * k - 16 + q /\ b \in 0..62
      BY SMT, <2>2, <2>3, <3>4, <3>5
    <3>9. BucketLow[b + 1] \in Nat /\ BucketLow[b + 2] \in Nat
      <4>1. b + 1 \in 1..64 /\ b + 2 \in 1..64
        BY SMT, <3>7
      <4> QED
        BY <4>1, TableNumbers
    <3>10. BucketLow[b + 1] <= q * m /\ BucketLow[b + 2] >= q * m + m
      BY SMT, <3>6, <3>7
    <3>11. q * m \in Nat
      BY SMT, <3>2, <3>3
    <3> DEFINE lo == BucketLow[b + 1]
               hi == BucketLow[b + 2]
    <3>12. lo <= n /\ n < hi
      <4>1. /\ lo \in Nat /\ hi \in Nat /\ lo <= q * m /\ hi >= q * m + m
        BY <3>9, <3>10
      <4> HIDE DEF lo, hi
      <4> QED
        BY SMT, <3>2, <3>3, <3>11, <4>1
    <3> QED
      BY SMT, <3>7, <3>12 DEF InBucket, b
  <2>4. CASE ~(k < 12)
    <3> DEFINE m == Power[k - 1]
               q == n \div m
    <3>1. k - 1 \in 0..29 /\ k - 1 \in 0..30 /\ k - 1 + 1 = k
      BY SMT, <2>2, <2>4
    <3>2. m \in Nat /\ m >= 1 /\ Power[k] = 2 * m /\ m = 2 ^ (k - 1)
      <4>1. m \in Nat /\ m >= 1 /\ Power[k] = 2 * m
        BY <3>1, Doubles
      <4>2. m = 2 ^ (k - 1)
        BY <3>1, PowerIs
      <4> QED
        BY <4>1, <4>2
    <3> HIDE DEF m
    <3>3. q \in Nat /\ q * m <= n /\ n < q * m + m
      BY <3>2, Quotient
    <3> HIDE DEF q
    <3>4. q \in 2..3
      BY SMT, <2>2, <3>2, <3>3
    <3>5. b = 2 * k + 9 + (q - 2)
      BY SMT, <1>3, <1>6, <2>4, <3>2 DEF q
    <3>6. BucketLow[2 * k + 8 + q] <= q * m /\ BucketLow[2 * k + 9 + q] >= q * m + m
      <4>1. k \in 12..26
        BY SMT, <2>2, <2>4
      <4> QED
        BY SMT, <3>4, <4>1, TableHalves DEF m
    <3>7. b + 1 = 2 * k + 8 + q /\ b + 2 = 2 * k + 9 + q /\ b \in 0..62
      BY SMT, <2>2, <2>4, <3>4, <3>5
    <3>9. BucketLow[b + 1] \in Nat /\ BucketLow[b + 2] \in Nat
      <4>1. b + 1 \in 1..64 /\ b + 2 \in 1..64
        BY SMT, <3>7
      <4> QED
        BY <4>1, TableNumbers
    <3>10. BucketLow[b + 1] <= q * m /\ BucketLow[b + 2] >= q * m + m
      BY SMT, <3>6, <3>7
    <3>11. q * m \in Nat
      BY SMT, <3>2, <3>3
    <3> DEFINE lo == BucketLow[b + 1]
               hi == BucketLow[b + 2]
    <3>12. lo <= n /\ n < hi
      <4>1. /\ lo \in Nat /\ hi \in Nat /\ lo <= q * m /\ hi >= q * m + m
        BY <3>9, <3>10
      <4> HIDE DEF lo, hi
      <4> QED
        BY SMT, <3>2, <3>3, <3>11, <4>1
    <3> QED
      BY SMT, <3>7, <3>12 DEF InBucket, b
  <2> QED
    BY <2>3, <2>4
<1> QED
  BY SMT, <1>4, <1>5, <1>6

\* and they rise.
LEMMA TableRises ==
  ASSUME NEW i \in 1..64, NEW j \in 1..64, i < j
  PROVE  BucketLow[i] < BucketLow[j]
<1> DEFINE W == {x \in 1..64 : i < x /\ ~(BucketLow[i] < BucketLow[x])}
<1>1. ASSUME NEW x \in 1..63
      PROVE  BucketLow[x] < BucketLow[x + 1]
  <2>1. \/ x = 1 \/ x = 2 \/ x = 3 \/ x = 4 \/ x = 5 \/ x = 6 \/ x = 7 \/ x = 8
        \/ x = 9 \/ x = 10 \/ x = 11 \/ x = 12 \/ x = 13 \/ x = 14 \/ x = 15 \/ x = 16
        \/ x = 17 \/ x = 18 \/ x = 19 \/ x = 20 \/ x = 21 \/ x = 22 \/ x = 23 \/ x = 24
        \/ x = 25 \/ x = 26 \/ x = 27 \/ x = 28 \/ x = 29 \/ x = 30 \/ x = 31 \/ x = 32
        \/ x = 33 \/ x = 34 \/ x = 35 \/ x = 36 \/ x = 37 \/ x = 38 \/ x = 39 \/ x = 40
        \/ x = 41 \/ x = 42 \/ x = 43 \/ x = 44 \/ x = 45 \/ x = 46 \/ x = 47 \/ x = 48
        \/ x = 49 \/ x = 50 \/ x = 51 \/ x = 52 \/ x = 53 \/ x = 54 \/ x = 55 \/ x = 56
        \/ x = 57 \/ x = 58 \/ x = 59 \/ x = 60 \/ x = 61 \/ x = 62 \/ x = 63
    OBVIOUS
  <2> QED
    BY SMT, <2>1 DEF BucketLow
<1>2. W = {}
  <2> SUFFICES ASSUME W # {} PROVE FALSE
    OBVIOUS
  <2>1. W \in SUBSET Nat
    OBVIOUS
  <2> HIDE DEF W
  <2>2. PICK k \in W : \A x \in W : k <= x
    BY <2>1, LeastNumber
  <2>3. k \in 1..64 /\ i < k /\ ~(BucketLow[i] < BucketLow[k])
    BY <2>2 DEF W
  <2>4. k - 1 \in 1..63 /\ k - 1 \in 1..64 /\ k - 1 + 1 = k /\ i <= k - 1 /\ ~(k <= k - 1)
    BY <2>3
  <2>5. BucketLow[k - 1] < BucketLow[k]
    BY <1>1, <2>4
  <2>6. i = k - 1 \/ BucketLow[i] < BucketLow[k - 1]
    BY <2>2, <2>4 DEF W
  <2>7. BucketLow[i] \in Nat /\ BucketLow[k - 1] \in Nat /\ BucketLow[k] \in Nat
    BY <2>3, <2>4, TableNumbers
  <2> QED
    BY <2>3, <2>5, <2>6, <2>7
<1> QED
  BY <1>2

\* A larger size is in the same bucket or in a later one.
LEMMA BucketsRise ==
  ASSUME NEW n \in Nat, NEW m \in Nat, n <= m, NEW b, NEW c, InBucket(b, n), InBucket(c, m)
  PROVE  b <= c
<1>1. /\ b \in 0..63 /\ BucketLow[b + 1] <= n /\ (b < 63 => n < BucketLow[b + 2])
      /\ c \in 0..63 /\ BucketLow[c + 1] <= m /\ (c < 63 => m < BucketLow[c + 2])
  BY DEF InBucket
<1> SUFFICES ASSUME c < b PROVE FALSE
  BY <1>1
<1>2. /\ c + 2 \in 1..64 /\ b + 1 \in 1..64 /\ c < 63
      /\ (c + 2 = b + 1 \/ c + 2 < b + 1)
  BY <1>1
<1>3. BucketLow[c + 2] \in Nat /\ BucketLow[b + 1] \in Nat
  BY <1>2, TableNumbers
<1>4. BucketLow[c + 2] = BucketLow[b + 1] \/ BucketLow[c + 2] < BucketLow[b + 1]
  BY <1>2, TableRises
<1> DEFINE x == BucketLow[c + 2]
           y == BucketLow[b + 1]
<1>5. x \in Nat /\ y \in Nat /\ m < x /\ (x = y \/ x < y) /\ y <= n
  BY <1>1, <1>2, <1>3, <1>4, Zenon
<1> HIDE DEF x, y
<1> QED
  BY <1>5

\* The bucket of a region.
LEMMA BucketOf ==
  ASSUME NEW n \in Nat, n >= 4
  PROVE  InBucket(Bucket(n), 4 * (n - 2)) /\ Bucket(n) \in 0..63
<1>1. 4 * (n - 2) \in Nat /\ 4 * (n - 2) >= 8
  OBVIOUS
<1>2. Bucket(n) = compute_free_list_bucket(4 * (n - 2))
  BY DEF Bucket, Header
<1> QED
  BY <1>1, <1>2, WhichBucket DEF InBucket

\* There are 64 buckets.
LEMMA BucketsAre ==
  Buckets \subseteq 0..63
BY BucketOf, EmmallocAssumption DEF Buckets, Region

-----------------------------------------------------------------------------
(***************************************************************************)
(* Looking for a region                                                    *)
(***************************************************************************)
\* A list whose head goes to its end holds the same regions.
LEMMA Rotated ==
  ASSUME NEW F, NEW list \in Seq(F), Once(list), list # <<>>
  PROVE  LET new == Append(Tail(list), Head(list))
         IN  /\ new \in Seq(F) /\ Once(new) /\ new # <<>>
             /\ \A x : On(x, new) <=> On(x, list)
<1> DEFINE n == Len(list)
           new == Append(Tail(list), Head(list))
<1>1. /\ n \in Nat /\ n >= 1 /\ DOMAIN list = 1..n
      /\ Tail(list) \in Seq(F) /\ Len(Tail(list)) = n - 1
      /\ \A i \in 1..(n - 1) : Tail(list)[i] = list[i + 1]
      /\ Head(list) = list[1] /\ Head(list) \in F
  OBVIOUS
<1>2. new \in Seq(F) /\ Len(new) = n /\ DOMAIN new = 1..n
  BY <1>1
<1>3. \A i \in 1..n : new[i] = IF i = n THEN list[1] ELSE list[i + 1]
  <2> DEFINE t == Tail(list)
             x == Head(list)
  <2>1. /\ t \in Seq(F) /\ Len(t) = n - 1 /\ x \in F /\ x = list[1]
        /\ \A i \in 1..(n - 1) : t[i] = list[i + 1]
    BY <1>1
  <2> HIDE DEF t, x, n
  <2>2. \A i \in 1..n : Append(t, x)[i] = IF i <= n - 1 THEN t[i] ELSE x
    BY <1>1, <2>1, AppendProperties
  <2>3. \A i \in 1..n : IF i = n THEN ~(i <= n - 1) ELSE i \in 1..(n - 1) /\ i <= n - 1
    BY <1>1
  <2>4. new = Append(t, x)
    BY DEF t, x
  <2> HIDE DEF new
  <2> QED
    BY <2>1, <2>2, <2>3, <2>4
<1> HIDE DEF new, n
<1>4. Once(new)
  <2> SUFFICES ASSUME NEW i \in 1..n, NEW j \in 1..n, new[i] = new[j]
               PROVE  i = j
    BY <1>2 DEF Once
  <2> DEFINE p == IF i = n THEN 1 ELSE i + 1
             q == IF j = n THEN 1 ELSE j + 1
  <2>1. p \in 1..n /\ q \in 1..n /\ (p = q => i = j)
    BY <1>1
  <2>2. list[p] = list[q]
    BY <1>3
  <2> HIDE DEF p, q
  <2> QED
    BY <1>1, <2>1, <2>2 DEF Once
<1>5. ASSUME NEW x
      PROVE  On(x, new) <=> On(x, list)
  <2>1. ASSUME NEW i \in 1..n, list[i] = x
        PROVE  On(x, new)
    <3> DEFINE j == IF i = 1 THEN n ELSE i - 1
    <3>1. j \in 1..n /\ (j = n => i = 1 \/ n + 1 = i) /\ (j # n => j + 1 = i)
      BY <1>1
    <3>2. new[j] = list[i]
      BY <1>1, <1>3, <3>1
    <3> HIDE DEF j
    <3> QED
      BY <1>2, <2>1, <3>1, <3>2 DEF On
  <2>2. ASSUME NEW i \in 1..n, new[i] = x
        PROVE  On(x, list)
    <3>1. (i = n /\ 1 \in 1..n) \/ i + 1 \in 1..n
      BY <1>1
    <3>2. CASE i = n
      BY <1>1, <1>3, <2>2, <3>1, <3>2 DEF On
    <3>3. CASE i # n
      BY <1>1, <1>3, <2>2, <3>1, <3>3 DEF On
    <3> QED
      BY <3>2, <3>3
  <2> QED
    BY <1>1, <1>2, <2>1, <2>2 DEF On
<1>6. new # <<>>
  BY <1>1, <1>2
<1> QED
  BY <1>2, <1>4, <1>5, <1>6 DEF new

\* The scan changes the order of the regions in the lists, and no region.
LEMMA ScanStep ==
  ASSUME NEW h, NEW S, HeapOK(h, S), NEW align, NEW size
  PROVE  LET c == AfterScan(h, align, size)
         IN  HeapOK(c, S) /\ c.words = h.words /\ c.roots = h.roots /\ c.brk = h.brk
<1> DEFINE F == Frees(h.words, S)
           P == Passed(h, align, size)
           c == AfterScan(h, align, size)
           new == [b \in Buckets |-> IF b \in P /\ h.lists[b] # <<>>
                                     THEN Append(Tail(h.lists[b]), Head(h.lists[b]))
                                     ELSE h.lists[b]]
           used == {b \in h.used : ~(b \in P /\ h.lists[b] = <<>>)}
<1>1. /\ IsHeap(h) /\ RootsOK(h.roots, h.brk)
      /\ Tiles(h.words, S, Begins(h.roots), Ends(h.roots))
      /\ Lists(h, h.words, F)
  BY HeapFacts
<1>2. /\ IsHeap(c) /\ c.words = h.words /\ c.lists = new /\ c.used = used
      /\ c.roots = h.roots /\ c.brk = h.brk
  BY <1>1 DEF IsHeap, AfterScan
<1> HIDE DEF F, P, c
<1>3. ASSUME NEW b \in Buckets
      PROVE  /\ new[b] \in Seq(F) /\ Once(new[b])
             /\ \A r \in F : On(r, new[b]) <=> Bucket(SizeOf(h.words, r)) = b
             /\ new[b] # <<>> => h.lists[b] # <<>>
  <2> DEFINE list == h.lists[b]
  <2>1. /\ list \in Seq(F) /\ Once(list)
        /\ \A r \in F : On(r, list) <=> Bucket(SizeOf(h.words, r)) = b
    BY <1>1 DEF Lists, Listed
  <2> HIDE DEF list
  <2>2. CASE b \in P /\ list # <<>>
    <3>1. new[b] = Append(Tail(list), Head(list))
      BY <2>2 DEF list
    <3> HIDE DEF new
    <3>2. /\ new[b] \in Seq(F) /\ Once(new[b])
          /\ \A r : On(r, new[b]) <=> On(r, list)
      BY <2>1, <2>2, <3>1, Rotated
    <3> QED
      BY <2>1, <2>2, <3>2 DEF list
  <2>3. CASE ~(b \in P /\ list # <<>>)
    <3>1. new[b] = list
      BY <2>3 DEF list
    <3> HIDE DEF new
    <3> QED
      BY <2>1, <3>1 DEF list
  <2> QED
    BY <2>2, <2>3
<1>4. Listed(new, h.words, F)
  BY <1>3 DEF Listed
<1>5. used \subseteq Buckets /\ \A b \in Buckets : new[b] # <<>> => b \in used
  BY <1>1, <1>3 DEF Lists
<1> HIDE DEF new, used
<1>6. Lists(c, h.words, F)
  BY <1>2, <1>4, <1>5 DEF Lists
<1>7. HeapOK(c, S)
  BY <1>1, <1>2, <1>6 DEF HeapOK, F
<1> QED
  BY <1>2, <1>7 DEF c

\* Part of a list.
LEMMA PartOf ==
  ASSUME NEW F, NEW list \in Seq(F), NEW m \in Nat \ {0}, NEW n \in Nat, n <= Len(list),
         NEW i \in DOMAIN SubSeq(list, m, n)
  PROVE  SubSeq(list, m, n)[i] \in F
<1>1. /\ Len(list) \in Nat /\ DOMAIN list = 1..Len(list)
      /\ \A j \in 1..Len(list) : list[j] \in F
  BY LenProperties, ElementOfSeq
<1>2. \A j \in m..n : list[j] \in F
  BY <1>1
<1>3. SubSeq(list, m, n) \in Seq(F)
  BY <1>2, SubSeqProperties
<1> HIDE DEF SubSeq
<1> QED
  BY <1>3, ElementOfSeq, LenProperties

\* The largest bucket in use is one of the buckets.
LEMMA LargestList ==
  ASSUME NEW h, NEW S, HeapOK(h, S)
  PROVE  Largest(h) \in Seq(Frees(h.words, S))
<1>1. /\ h.used \subseteq Buckets
      /\ \A b \in Buckets : h.lists[b] \in Seq(Frees(h.words, S))
  BY HeapFacts DEF Lists, Listed
<1>2. CASE h.used = {}
  BY <1>2 DEF Largest
<1>3. CASE h.used # {}
  <2> DEFINE W == {63 - b : b \in h.used}
  <2>1. \A b \in h.used : b \in 0..63
    BY <1>1, BucketsAre
  <2>2. W \in SUBSET Nat /\ W # {}
    BY <1>3, <2>1
  <2> HIDE DEF W
  <2>3. PICK k \in W : \A j \in W : k <= j
    BY <2>2, LeastNumber
  <2>4. PICK b \in h.used : k = 63 - b
    BY <2>3 DEF W
  <2>5. \A d \in h.used : b >= d
    <3> TAKE d \in h.used
    <3>1. 63 - d \in W
      BY DEF W
    <3>2. 63 - b <= 63 - d
      BY <2>3, <2>4, <3>1
    <3> QED
      BY <2>1, <3>2
  <2>6. Max(h.used) \in h.used
    BY <2>5 DEF Max
  <2> QED
    BY <1>1, <1>3, <2>6 DEF Largest
<1> QED
  BY <1>2, <1>3

\* What is tried is free.
LEMMA Tried ==
  ASSUME NEW h, NEW S, HeapOK(h, S)
  PROVE  /\ \A i \in DOMAIN FirstTries(h) : FirstTries(h)[i] \in Frees(h.words, S)
         /\ \A i \in DOMAIN LastTries(h) : LastTries(h)[i] \in Frees(h.words, S)
<1> DEFINE F == Frees(h.words, S)
           list == Largest(h)
           n == Len(list)
           few == Min({MaxTries, n})
<1>1. list \in Seq(F) /\ n \in Nat /\ MaxTries \in Nat
  <2>1. list \in Seq(F)
    BY LargestList
  <2> HIDE DEF list
  <2> QED
    BY <2>1, EmmallocAssumption
<1>2. few \in Nat /\ few <= n
  <2> HIDE DEF n
  <2>1. \E x \in {MaxTries, n} : \A y \in {MaxTries, n} : x <= y
    BY <1>1
  <2>2. few \in {MaxTries, n} /\ \A y \in {MaxTries, n} : few <= y
    BY <2>1 DEF Min
  <2> QED
    BY <1>1, <2>2
<1>3. FirstTries(h) = IF LooksAtMore(h) THEN SubSeq(list, 1, few) ELSE <<>>
  BY DEF FirstTries
<1> HIDE DEF few, F, list, n
<1>4. Len(FirstTries(h)) \in Nat
  BY <1>1, <1>2, <1>3 DEF n
<1>5. LastTries(h) = SubSeq(list, Len(FirstTries(h)) + 1, n)
  BY DEF LastTries, list, n
<1>6. \A i \in DOMAIN LastTries(h) : LastTries(h)[i] \in F
  BY <1>1, <1>4, <1>5, PartOf DEF n
<1>7. \A i \in DOMAIN FirstTries(h) : FirstTries(h)[i] \in F
  BY <1>1, <1>2, <1>3, PartOf DEF n
<1> QED
  BY <1>6, <1>7 DEF F

\* What is found is free and fits.
LEMMA FoundFits ==
  ASSUME NEW h, NEW S, HeapOK(h, S), NEW align, NEW size
  PROVE  /\ \A r \in Found(h, align, size) :
               r \in Frees(h.words, S) /\ Fits(h, r, align, size)
         /\ \A r \in FirstFit(h, LastTries(h), align, size) :
               r \in Frees(h.words, S) /\ Fits(h, r, align, size)
<1> DEFINE c == AfterScan(h, align, size)
           F == Frees(h.words, S)
           s == Serving(h, align, size)
<1>1. HeapOK(c, S) /\ c.words = h.words
  BY ScanStep
<1>2. \A rs : (\A i \in DOMAIN rs : rs[i] \in F)
         => \A r \in FirstFit(h, rs, align, size) : r \in F /\ Fits(h, r, align, size)
  BY DEF FirstFit
<1> HIDE DEF c
<1>3. \A r \in FirstFit(h, FirstTries(c), align, size) : r \in F /\ Fits(h, r, align, size)
  <2>1. \A i \in DOMAIN FirstTries(c) : FirstTries(c)[i] \in F
    BY <1>1, Tried
  <2> HIDE DEF F
  <2> QED
    BY <1>2, <2>1
<1>4. \A r \in FirstFit(h, LastTries(h), align, size) : r \in F /\ Fits(h, r, align, size)
  <2>1. \A i \in DOMAIN LastTries(h) : LastTries(h)[i] \in F
    BY Tried
  <2> HIDE DEF F
  <2> QED
    BY <1>2, <2>1
<1>5. s # {} => LET r == Head(h.lists[Min(s)]) IN r \in F /\ Fits(h, r, align, size)
  <2> SUFFICES ASSUME s # {}
               PROVE  Head(h.lists[Min(s)]) \in F /\ Fits(h, Head(h.lists[Min(s)]), align, size)
    OBVIOUS
  <2>1. /\ h.used \subseteq Buckets /\ \A b \in Buckets : h.lists[b] \in Seq(F)
    BY HeapFacts DEF Lists, Listed
  <2>2. s \subseteq h.used
    BY DEF Serving, Candidates
  <2>3. \A b \in s : h.lists[b] # <<>> /\ Fits(h, Head(h.lists[b]), align, size)
    BY DEF Serving
  <2> HIDE DEF s
  <2>4. s \in SUBSET Nat
    <3>1. h.used \subseteq 0..63
      BY <2>1, BucketsAre
    <3> QED
      BY <2>2, <3>1
  <2>5. \E b \in s : \A d \in s : b <= d
    BY <2>4, LeastNumber
  <2>6. Min(s) \in s
    BY <2>5 DEF Min
  <2>7. h.lists[Min(s)] \in Seq(F) /\ h.lists[Min(s)] # <<>>
    BY <2>1, <2>2, <2>3, <2>6
  <2> QED
    BY <2>3, <2>6, <2>7
<1>6. Found(h, align, size) = IF s # {} THEN {Head(h.lists[Min(s)])}
                              ELSE FirstFit(h, FirstTries(c), align, size)
  BY DEF Found, c
<1> HIDE DEF s
<1> QED
  BY <1>3, <1>4, <1>5, <1>6 DEF F

-----------------------------------------------------------------------------
(***************************************************************************)
(* The other steps of the heap                                             *)
(***************************************************************************)
LEMMA ForeignStep ==
  ASSUME NEW h, NEW S, HeapOK(h, S), NEW n \in Nat
  PROVE  KeepsBlocks(h, S, [h EXCEPT !.brk = @ + n], S)
<1> DEFINE c == [h EXCEPT !.brk = @ + n]
<1>1. /\ IsHeap(h) /\ RootsOK(h.roots, h.brk)
      /\ Tiles(h.words, S, Begins(h.roots), Ends(h.roots))
      /\ Lists(h, h.words, Frees(h.words, S))
  BY HeapFacts
<1>2. /\ IsHeap(c) /\ c.words = h.words /\ c.lists = h.lists /\ c.used = h.used
      /\ c.roots = h.roots /\ c.brk = h.brk + n
  BY <1>1 DEF IsHeap
<1> HIDE DEF c
<1>3. RootsOK(c.roots, c.brk)
  <2>1. /\ h.roots \in Seq([start : Nat, end : Nat]) /\ h.brk \in Nat
        /\ \A i \in DOMAIN h.roots : /\ h.roots[i].start < h.roots[i].end
                                     /\ h.roots[i].end <= h.brk /\ h.roots[i].end <= HeapMax
        /\ \A i, j \in DOMAIN h.roots : i < j => h.roots[j].end < h.roots[i].start
    BY <1>1 DEF RootsOK
  <2>2. ASSUME NEW i \in DOMAIN h.roots
        PROVE  h.roots[i].end <= h.brk + n
    <3>1. i \in 1..Len(h.roots)
      BY <2>1
    <3>2. h.roots[i] \in [start : Nat, end : Nat]
      BY <2>1, <3>1, ElementOfSeq
    <3> QED
      BY <2>1, <3>2
  <2> QED
    BY <1>2, <2>1, <2>2 DEF RootsOK
<1>4. Lists(c, h.words, Frees(h.words, S))
  BY <1>1, <1>2 DEF Lists
<1>5. HeapOK(c, S)
  BY <1>1, <1>2, <1>3, <1>4 DEF HeapOK
<1> QED
  BY <1>2, <1>5 DEF KeepsBlocks, UsedIn, c

\* Before initialize_emmalloc_heap: a heap without root regions.
LEMMA NoHeapOK ==
  ASSUME NEW brk \in Nat
  PROVE  HeapOK(NoHeap(brk), {}) /\ UsedIn(NoHeap(brk), {}) = {} /\ NoHeap(brk).brk = brk
<1> DEFINE h == NoHeap(brk)
           none == [b \in Buckets |-> <<>>]
<1>1. /\ IsHeap(h) /\ h.words = <<>> /\ h.lists = none /\ h.used = {} /\ h.roots = <<>>
      /\ h.brk = brk
  BY DEF NoHeap, IsHeap
<1> HIDE DEF h
<1>2. Begins(h.roots) = {} /\ Ends(h.roots) = {} /\ RootsOK(h.roots, h.brk)
  BY <1>1 DEF Begins, Ends, RootsOK
<1>3. Tiles(h.words, {}, {}, {}) /\ Frees(h.words, {}) = {}
  BY DEF Tiles, Frees
<1>4. Lists(h, h.words, {})
  <2>1. \A b \in Buckets : none[b] = <<>> /\ <<>> \in Seq({}) /\ Once(<<>>)
    BY DEF Once
  <2>2. Listed(none, h.words, {})
    BY <2>1 DEF Listed
  <2> QED
    BY <1>1, <2>2 DEF Lists
<1>5. HeapOK(h, {})
  BY <1>1, <1>2, <1>3, <1>4 DEF HeapOK
<1>6. UsedIn(h, {}) = {}
  BY DEF UsedIn, Used
<1> QED
  BY <1>1, <1>5, <1>6 DEF h

\* initialize_emmalloc_heap: no block is in use.
LEMMA InitializeStep ==
  ASSUME NEW brk \in Nat
  PROVE  \E T : HeapOK(Initialize(brk), T) /\ UsedIn(Initialize(brk), T) = {}
<1> DEFINE h == NoHeap(brk)
<1>1. HeapOK(h, {}) /\ UsedIn(h, {}) = {} /\ h.brk = brk
  BY NoHeapOK
<1>2. Initialize(brk) = IF SbrkFails(h, 12) THEN h ELSE Claim(h, 12)
  BY DEF Initialize, Region
<1> HIDE DEF h
<1>3. CASE SbrkFails(h, 12)
  BY <1>1, <1>2, <1>3
<1>4. CASE ~SbrkFails(h, 12)
  <2>1. h.brk + 12 <= HeapMax
    BY <1>1, <1>4, EmmallocAssumption DEF SbrkFails
  <2>2. 12 \in Nat /\ 12 >= 12
    OBVIOUS
  <2>3. Claimed(h, {}, 12, Claim(h, 12))
    BY <1>1, <2>1, <2>2, ClaimStep
  <2> QED
    BY <1>1, <1>2, <1>4, <2>3 DEF Claimed, KeepsBlocks
<1> QED
  BY <1>3, <1>4

-----------------------------------------------------------------------------
(***************************************************************************)
(* malloc_trim                                                             *)
(***************************************************************************)
\* What lies below the new break is kept.
LEMMA Truncated ==
  ASSUME NEW w, NEW brk \in Nat
  PROVE  LET v == [a \in {b \in DOMAIN w : b < brk} |-> w[a]]
         IN  \A r \in Nat : RegionOK(w, r) /\ NextRegion(w, r) <= brk => Keeps(w, v, r)
<1> DEFINE v == [a \in {b \in DOMAIN w : b < brk} |-> w[a]]
<1>1. \A a : a < brk => Word(v, a) = Word(w, a)
  BY DEF Word
<1> HIDE DEF v
<1>2. ASSUME NEW r \in Nat, RegionOK(w, r), NextRegion(w, r) <= brk
      PROVE  Keeps(w, v, r)
  <2>1. SizeOf(w, r) \in Nat /\ SizeOf(w, r) >= 4 /\ NextRegion(w, r) = r + SizeOf(w, r)
    BY <1>2 DEF RegionOK, Region, NextRegion
  <2>2. r < brk /\ NextRegion(w, r) - 1 < brk
    BY <1>2, <2>1
  <2>3. Word(v, r) = Word(w, r) /\ Word(v, NextRegion(w, r) - 1) = Word(w, NextRegion(w, r) - 1)
    BY <1>1, <2>2
  <2> QED
    BY <2>3 DEF Keeps, SizeOf, Ceiling, NextRegion
<1> QED
  BY <1>2 DEF v

\* How much is given back.
LEMMA ShrinkIs ==
  ASSUME NEW size \in Nat, NEW pad \in Nat, pad < size, pad + 1 # size, size < 1073741824
  PROVE  LET n == AlignDown(Wrap(size - pad - 2), 2)
         IN  n \in Nat /\ n <= size - pad - 2 /\ Wrap(size - n) = size - n
<1> DEFINE x == size - pad - 2
           n == (x \div 2) * 2
<1>0. 2 ^ 30 = 1073741824
  BY SMT
<1>1. x \in Nat /\ x < 1073741824
  BY SMT
<1> HIDE DEF x
<1>2. Wrap(x) = x
  BY SMT, <1>0, <1>1 DEF Wrap
<1>3. AlignDown(Wrap(x), 2) = n
  BY <1>2 DEF AlignDown
<1>4. n \in Nat /\ n <= x
  BY SMT, <1>1
<1> HIDE DEF n
<1>5. size - n \in Nat /\ size - n < 1073741824
  BY SMT, <1>4 DEF x
<1>6. Wrap(size - n) = size - n
  <2> DEFINE y == size - n
  <2>1. y \in Nat /\ y < 1073741824
    BY <1>5
  <2> HIDE DEF y
  <2>2. Wrap(y) = y
    BY SMT, <1>0, <2>1 DEF Wrap
  <2> QED
    BY <2>2 DEF y
<1> QED
  BY <1>3, <1>4, <1>6 DEF x

\* The last region is free, and some of it is given back: all pads but those
\* within a header of its size.
LEMMA TrimStep ==
  ASSUME NEW h, NEW S, HeapOK(h, S), Contiguous(h), NEW pad \in Nat, pad >= 2,
         pad + 1 # SizeOf(h.words, LastRegion(h)), Shrink(h, pad) # 0
  PROVE  \E T : KeepsBlocks(h, S, Trimmed(h, pad), T)
<1> DEFINE ws == h.words
           e == h.brk
           B == Begins(h.roots)
           E == Ends(h.roots)
           F == Frees(ws, S)
           last == LastRegion(h)
           size == SizeOf(ws, last)
           n == Shrink(h, pad)
           left == Wrap(size - n)
           brk == IF n <= e THEN e - n ELSE e
           h1 == Unlink(h, last)
           h2 == IF left >= Region THEN CreateAndLink(h1, last, left) ELSE h1
           h3 == [h2 EXCEPT !.brk = brk, !.roots[1].end = brk,
                            !.words = [a \in {b \in DOMAIN @ : b < brk} |-> @[a]]]
           z == last + IF left >= Region THEN left ELSE 0
           c == Trimmed(h, pad)
<1>1. c = CreateUsed(h3, z, brk - z)
  BY DEF Trimmed
<1>2. n = IF ~IsFree(ws, last) \/ pad >= size THEN 0 ELSE AlignDown(Wrap(size - pad - 2), 2)
  BY DEF Shrink, Header, MallocAlign
<1>3. n # 0 /\ pad + 1 # size
  OBVIOUS
<1>4. /\ Tiles(ws, S, B, E) /\ IsHeap(h) /\ Lists(h, ws, F) /\ RootsOK(h.roots, h.brk)
      /\ HeapMax \in Nat
  BY HeapFacts
<1>5. /\ e \in E /\ e \in Nat /\ e <= HeapMax /\ e - 4 \in Nat
      /\ e - 4 \in S \ B /\ SizeOf(ws, e - 4) = 4
      /\ NextRegion(ws, e - 4) = e /\ ~IsFree(ws, e - 4)
      /\ SizeOf(ws, e - 1) = 4
      /\ \A s \in S : NextRegion(ws, s) <= e
      /\ PrevRegion(ws, e - 4) \in S /\ NextRegion(ws, PrevRegion(ws, e - 4)) = e - 4
  BY Top
<1>6. last = PrevRegion(ws, e - 4)
  <2>1. Head(h.roots).end = e
    BY DEF Contiguous
  <2> QED
    BY <1>5, <2>1 DEF LastRegion
<1> HIDE DEF ws, e, B, E, F, last, c, n, size
<1>7. /\ last \in S /\ NextRegion(ws, last) = e - 4 /\ last \in Nat
      /\ size \in Nat /\ last + size = e - 4
  BY <1>4, <1>5, <1>6, Neighbours DEF size
<1>8. IsFree(ws, last) /\ pad < size
  BY <1>2, <1>3, <1>7
<1>9. /\ n \in Nat /\ n <= size - pad - 2 /\ left = size - n
  <2>1. HeapMax <= 1073741824
    BY SMT, EmmallocAssumption
  <2>2. size < 1073741824
    BY SMT, <1>4, <1>5, <1>7, <2>1
  <2>3. n = AlignDown(Wrap(size - pad - 2), 2)
    BY <1>2, <1>3, <1>8
  <2> QED
    BY <1>3, <1>7, <1>8, <2>2, <2>3, ShrinkIs
<1> HIDE DEF left
<1>10. left \in Nat /\ left >= 4 /\ last + left = brk - 4 /\ brk = e - n /\ z = last + left
       /\ brk \in Nat /\ brk <= HeapMax /\ brk <= e
  BY <1>4, <1>5, <1>7, <1>9 DEF Region
<1> HIDE DEF brk, z
<1>11. /\ last \in S \ B /\ IsFree(ws, last)
       /\ \A s \in S : NextRegion(ws, s) = last => ~IsFree(ws, s)
  <2>1. last \notin B
    BY <1>4, <1>7, <1>8, Neighbours
  <2>2. \A s \in S : NextRegion(ws, s) = last => ~IsFree(ws, s)
    BY <1>4, <1>7, <1>8, Neighbours
  <2> QED
    BY <1>7, <1>8, <2>1, <2>2
<1> DEFINE Old == Inside(S, last, e)
           G == F \ {last}
<1>12. Old = {last, e - 4}
  BY <1>4, <1>5, <1>7, TwoInside
<1>13. \A s \in S \ Old : /\ s \in Nat /\ RegionOK(ws, s) /\ NextRegion(ws, s) <= last
                          /\ NextRegion(ws, s) \in Nat
  <2>1. \A s, t \in S : s < t => NextRegion(ws, s) <= t
    BY <1>4 DEF Tiles
  <2>2. \A s \in S : s \in Nat /\ s < NextRegion(ws, s) /\ RegionOK(ws, s)
                     /\ NextRegion(ws, s) \in Nat
    BY <1>4, Neighbours DEF Tiles
  <2> QED
    BY <1>5, <1>7, <2>1, <2>2 DEF Inside
<1>14. G \subseteq S \ Old /\ F \ Old = G /\ last \notin G
  BY <1>5, <1>12 DEF F, Frees
<1> HIDE DEF Old, G
<1>15. /\ IsHeap(h1) /\ Lists(h1, ws, G) /\ h1.words = ws
       /\ h1.roots = h.roots /\ h1.brk = e
  BY <1>4, UnlinkStep DEF G, ws, e
<1> HIDE DEF h1
<1>16. LinkedFirst(h1, G, last, left, h2)
  <2>1. \A s \in G : /\ s \in Nat /\ RegionOK(h1.words, s)
                     /\ s >= last + left \/ NextRegion(h1.words, s) <= last
    BY <1>13, <1>14, <1>15
  <2>2. Linkable(h1, G, last, left)
    BY <1>4, <1>7, <1>10, <1>14, <1>15, <2>1 DEF Linkable, Region
  <2>3. h2 = CreateAndLink(h1, last, left)
    BY <1>10 DEF Region
  <2> HIDE DEF h2
  <2> QED
    BY <2>2, <2>3, LinkFirst
<1> HIDE DEF h2
<1> DEFINE w1 == WriteRegion(ws, last, left, TRUE)
           w2 == [a \in {b \in DOMAIN w1 : b < brk} |-> w1[a]]
           w3 == WriteRegion(w2, z, 4, FALSE)
<1>17. /\ IsHeap(h2) /\ Lists(h2, w1, G \union {last}) /\ h2.words = w1
       /\ h2.roots = h.roots
  BY <1>15, <1>16 DEF LinkedFirst
<1>18. /\ IsHeap(h3) /\ h3.words = w2 /\ h3.lists = h2.lists /\ h3.used = h2.used
       /\ h3.brk = brk /\ h3.roots = [h.roots EXCEPT ![1].end = brk]
  BY <1>17 DEF IsHeap
<1> HIDE DEF h3
<1>19. /\ RegionOK(w1, last) /\ SizeOf(w1, last) = left /\ NextRegion(w1, last) = z
       /\ IsFree(w1, last) /\ \A s \in S \ Old : Keeps(ws, w1, s)
  <2>1. left >= Region
    BY <1>10 DEF Region
  <2>2. /\ RegionOK(w1, last) /\ SizeOf(w1, last) = left /\ NextRegion(w1, last) = last + left
        /\ IsFree(w1, last)
    BY <1>7, <1>10, <2>1, WrittenFree
  <2>3. \A s \in Nat : RegionOK(ws, s) /\ (s >= last + left \/ NextRegion(ws, s) <= last)
           => Keeps(ws, w1, s)
    BY <1>7, <1>10, <2>1, Written
  <2> HIDE DEF w1
  <2> QED
    BY <1>10, <1>13, <2>2, <2>3
<1> HIDE DEF w1
<1>20. \A s \in Nat : RegionOK(w1, s) /\ NextRegion(w1, s) <= brk => Keeps(w1, w2, s)
  BY <1>10, Truncated
<1> HIDE DEF w2
<1>21. Keeps(w1, w2, last) /\ \A s \in S \ Old : Keeps(ws, w2, s)
  <2>1. z <= brk /\ last <= brk
    BY <1>7, <1>10
  <2>2. \A s \in S \ Old : /\ RegionOK(w1, s) /\ NextRegion(w1, s) <= brk
                           /\ s \in Nat
    <3> TAKE s \in S \ Old
    <3>1. RegionOK(w1, s) /\ NextRegion(w1, s) = NextRegion(ws, s)
      BY <1>13, <1>19, KeptRegion
    <3> QED
      BY <1>7, <1>10, <1>13, <2>1, <3>1
  <2>3. \A s \in S \ Old : Keeps(w1, w2, s)
    BY <1>20, <2>2
  <2> QED
    BY <1>7, <1>19, <1>20, <2>1, <2>3, KeptTwice
<1>22. /\ RegionOK(w2, last) /\ SizeOf(w2, last) = left /\ NextRegion(w2, last) = z
       /\ IsFree(w2, last)
       /\ \A s \in S \ Old : /\ RegionOK(w2, s) /\ NextRegion(w2, s) = NextRegion(ws, s)
                             /\ SizeOf(w2, s) = SizeOf(w1, s)
  <2>1. \A s \in S \ Old : SizeOf(w1, s) = SizeOf(ws, s)
    BY <1>19 DEF Keeps
  <2> QED
    BY <1>13, <1>19, <1>21, <2>1, KeptRegion
<1>23. \A s \in G \union {last} : /\ s \in Nat /\ RegionOK(w2, s) /\ NextRegion(w2, s) <= z
                                  /\ SizeOf(w2, s) = SizeOf(w1, s)
  <2>1. last <= z /\ z \in Nat
    BY <1>7, <1>10
  <2>2. \A s \in G : /\ s \in Nat /\ RegionOK(w2, s) /\ NextRegion(w2, s) <= z
                     /\ SizeOf(w2, s) = SizeOf(w1, s)
    <3> TAKE s \in G
    <3>1. s \in S \ Old
      BY <1>14
    <3> QED
      BY <1>7, <1>13, <1>22, <2>1, <3>1
  <2> QED
    BY <1>7, <1>19, <1>22, <2>1, <2>2
<1>24. Lists(h3, w2, G \union {last})
  <2>1. Listed(h2.lists, w2, G \union {last})
    BY <1>17, <1>23, ListedKept DEF Lists
  <2> QED
    BY <1>17, <1>18, <2>1 DEF Lists
<1>25. /\ IsHeap(c) /\ Lists(c, c.words, G \union {last}) /\ c.words = w3
       /\ c.roots = [h.roots EXCEPT ![1].end = brk] /\ c.brk = brk
  <2> DEFINE H == G \union {last}
  <2>1. \A s \in H : /\ s \in Nat /\ RegionOK(h3.words, s)
                     /\ s >= z + 4 \/ NextRegion(h3.words, s) <= z
    BY <1>18, <1>23
  <2>2. 4 \in Nat /\ 4 >= Region /\ z \in Nat /\ Lists(h3, h3.words, H)
    BY <1>7, <1>10, <1>18, <1>24 DEF Region
  <2>3. c = CreateUsed(h3, z, 4)
    BY <1>1, <1>7, <1>10
  <2> HIDE DEF H, w3
  <2>4. /\ IsHeap(c) /\ Lists(c, c.words, H)
        /\ c.words = WriteRegion(h3.words, z, 4, FALSE)
        /\ c.roots = h3.roots /\ c.brk = h3.brk
    <3>0. IsHeap(h3)
      BY <1>18
    <3>1. Usable(h3, H, z, 4)
      BY <2>1, <2>2, <3>0 DEF Usable
    <3>2. CreatedUsed(h3, H, z, 4, c)
      BY <2>3, <3>1, CreateOne
    <3> QED
      BY <3>2 DEF CreatedUsed
  <2> QED
    BY <1>18, <2>4 DEF H, w3
<1>26. /\ RegionOK(w3, z) /\ SizeOf(w3, z) = 4 /\ ~IsFree(w3, z)
       /\ Keeps(w2, w3, last) /\ \A s \in S \ Old : Keeps(ws, w3, s)
  <2>1. 4 \in Nat /\ 4 >= Region /\ z \in Nat
    BY <1>7, <1>10 DEF Region
  <2>2. RegionOK(w3, z) /\ SizeOf(w3, z) = 4 /\ ~IsFree(w3, z)
    BY <2>1, WrittenUsed
  <2>3. \A s \in Nat : RegionOK(w2, s) /\ (s >= z + 4 \/ NextRegion(w2, s) <= z)
           => Keeps(w2, w3, s)
    BY <2>1, Written
  <2> HIDE DEF w3
  <2>4. Keeps(w2, w3, last)
    BY <1>7, <1>22, <2>1, <2>3
  <2>5. \A s \in S \ Old : Keeps(w2, w3, s)
    <3> TAKE s \in S \ Old
    <3>1. NextRegion(w2, s) <= z
      BY <1>7, <1>10, <1>13, <1>22
    <3> QED
      BY <1>13, <1>22, <2>3, <3>1
  <2> QED
    BY <1>21, <2>2, <2>4, <2>5, KeptTwice
<1> HIDE DEF w3
<1>27. RegionOK(w3, last) /\ NextRegion(w3, last) = z /\ IsFree(w3, last)
  BY <1>22, <1>26, KeptRegion
<1>28. KeepsBlocks(h, S, c, (S \ Old) \union {last, brk - 4})
  <2>1. z = brk - 4 /\ last + 4 <= brk - 4 /\ last < e
    BY <1>5, <1>7, <1>10
  <2>2. \A s \in Old : /\ NextRegion(ws, s) \in Old \union {e}
                       /\ s \notin B /\ s \notin UsedIn(h, S)
    BY <1>5, <1>7, <1>11, <1>12 DEF UsedIn, Used, ws, E
  <2>3. Lists(c, c.words, (F \ Old) \union {last})
    BY <1>14, <1>25
  <2> QED
    BY <1>4, <1>5, <1>10, <1>11, <1>25, <1>26, <1>27, <2>1, <2>2, <2>3, HeapRetop
      DEF Old, ws, e, B, F
<1> QED
  BY <1>28 DEF c

-----------------------------------------------------------------------------
(***************************************************************************)
(* The regions that the headers in memory describe                         *)
(***************************************************************************)
\* Walks the headers of a root region: the equation of from in Regions.
Walk(ws, start, end, f) ==
    f = [a \in start..end |->
            {a} \union IF SizeOf(ws, a) \in 1..(end - a) THEN f[a + SizeOf(ws, a)] ELSE {}]

\* There is such a function: the addresses that every closed set has to have.
LEMMA WalkExists ==
  ASSUME NEW ws, NEW start \in Nat, NEW end \in Nat
  PROVE  \E f : Walk(ws, start, end, f)
<1> DEFINE D == start..end
           Go(a) == SizeOf(ws, a) \in 1..(end - a)
           next(a) == a + SizeOf(ws, a)
           Closed(Z) == \A y \in Z : Go(y) => next(y) \in Z
           g == [a \in D |-> {x \in D : \A Z \in SUBSET D : a \in Z /\ Closed(Z) => x \in Z}]
<1>1. \A a \in D : Go(a) => next(a) \in D
  OBVIOUS
<1> HIDE DEF D, Go, next
<1>2. ASSUME NEW a \in D
      PROVE  g[a] = {a} \union IF Go(a) THEN g[next(a)] ELSE {}
  <2>1. CASE Go(a)
    <3> DEFINE Z == {a} \union g[next(a)]
    <3>1. next(a) \in D
      BY <1>1, <2>1
    <3>2. Z \in SUBSET D
      BY <3>1
    <3>3. ASSUME NEW y \in g[next(a)], Go(y)
          PROVE  next(y) \in g[next(a)]
      <4>1. y \in D /\ next(y) \in D
        BY <1>1, <3>1, <3>3
      <4> QED
        BY <3>1, <3>3, <4>1
    <3>4. next(a) \in g[next(a)]
      BY <3>1
    <3>5. Closed(Z)
      BY <3>3, <3>4
    <3>6. g[a] \subseteq Z
      BY <3>2, <3>5
    <3>7. a \in g[a] /\ g[next(a)] \subseteq g[a]
      BY <2>1, <3>1
    <3> QED
      BY <2>1, <3>6, <3>7
  <2>2. CASE ~Go(a)
    <3>1. {a} \in SUBSET D /\ Closed({a})
      BY <2>2
    <3>2. g[a] \subseteq {a}
      BY <3>1
    <3>3. a \in g[a]
      OBVIOUS
    <3> QED
      BY <2>2, <3>2, <3>3
  <2> QED
    BY <2>1, <2>2
<1>3. g = [a \in D |-> g[a]]
  OBVIOUS
<1> HIDE DEF g
<1>4. g = [a \in D |-> {a} \union IF Go(a) THEN g[next(a)] ELSE {}]
  BY <1>2, <1>3
<1>5. Walk(ws, start, end, g)
  BY <1>4 DEF Walk, D, Go, next
<1> QED
  BY <1>5

\* The part of a root region from s on.
From(S, s, end) == {t \in S : s <= t /\ t < end} \union {end}

\* Where the next region begins, inside a root region.
LEMMA NextInRoot ==
  ASSUME NEW h, NEW S, HeapOK(h, S), NEW i \in DOMAIN h.roots,
         NEW s \in S, h.roots[i].start <= s, s < h.roots[i].end
  PROVE  /\ NextRegion(h.words, s) <= h.roots[i].end
         /\ NextRegion(h.words, s) \in S \/ NextRegion(h.words, s) = h.roots[i].end
<1> DEFINE ws == h.words
           roots == h.roots
           n == NextRegion(ws, s)
           start == roots[i].start
           end == roots[i].end
<1>1. /\ Tiles(ws, S, Begins(roots), Ends(roots)) /\ RootsOK(roots, h.brk)
  BY HeapFacts
<1>2. s \in Nat /\ n \in Nat /\ s < n /\ n \in S \union Ends(roots)
  BY <1>1, Neighbours DEF Tiles
<1>3. \A j \in DOMAIN roots : /\ roots[j].start \in Nat /\ roots[j].end \in Nat
                              /\ roots[j].start < roots[j].end
  <2> TAKE j \in DOMAIN roots
  <2>1. j \in 1..Len(roots) /\ roots \in Seq([start : Nat, end : Nat])
    BY <1>1 DEF RootsOK
  <2>2. roots[j] \in [start : Nat, end : Nat]
    BY <2>1, ElementOfSeq
  <2> QED
    BY <1>1, <2>2 DEF RootsOK
<1>4. \A j, k \in DOMAIN roots : j = k \/ j < k \/ k < j
  BY <1>1 DEF RootsOK
<1>5. \A j, k \in DOMAIN roots : j < k => roots[k].end < roots[j].start
  BY <1>1 DEF RootsOK
<1>6. PICK j \in DOMAIN roots : roots[j].start <= s /\ n <= roots[j].end
  BY <1>1, InRoot
<1> HIDE DEF ws, roots, n
<1>7. j = i
  BY <1>2, <1>3, <1>4, <1>5, <1>6 DEF roots
<1>8. ASSUME n \in Ends(roots)
      PROVE  n = end
  <2>1. PICK k \in DOMAIN roots : n = roots[k].end
    BY <1>8 DEF Ends
  <2>2. k = i
    BY <1>2, <1>3, <1>4, <1>5, <1>6, <1>7, <2>1 DEF roots
  <2> QED
    BY <2>1, <2>2
<1> QED
  BY <1>2, <1>6, <1>7, <1>8 DEF n, ws, roots

\* From the start of a root region, the walk reaches its regions and its end.
LEMMA WalkIs ==
  ASSUME NEW h, NEW S, HeapOK(h, S), NEW i \in DOMAIN h.roots,
         NEW f, Walk(h.words, h.roots[i].start, h.roots[i].end, f)
  PROVE  f[h.roots[i].start] = From(S, h.roots[i].start, h.roots[i].end)
<1> DEFINE ws == h.words
           start == h.roots[i].start
           end == h.roots[i].end
           W == {k \in 0..(end - start) : /\ end - k \in S \union {end}
                                          /\ f[end - k] # From(S, end - k, end)}
<1>1. /\ Tiles(ws, S, Begins(h.roots), Ends(h.roots)) /\ RootsOK(h.roots, h.brk)
  BY HeapFacts
<1>2. start \in Nat /\ end \in Nat /\ start < end /\ start \in S
  <2>1. i \in 1..Len(h.roots) /\ h.roots \in Seq([start : Nat, end : Nat])
    BY <1>1 DEF RootsOK
  <2>2. h.roots[i] \in [start : Nat, end : Nat]
    BY <2>1, ElementOfSeq
  <2>3. start \in S
    BY <1>1 DEF Tiles, Begins
  <2> QED
    BY <1>1, <2>2, <2>3 DEF RootsOK
<1>3. \A s \in S : start <= s /\ s < end =>
         /\ NextRegion(ws, s) <= end
         /\ NextRegion(ws, s) \in S \/ NextRegion(ws, s) = end
  BY NextInRoot
<1>4. Walk(ws, start, end, f)
  OBVIOUS
<1> HIDE DEF ws, start, end
<1>5. \A a \in start..end :
         f[a] = {a} \union IF SizeOf(ws, a) \in 1..(end - a) THEN f[a + SizeOf(ws, a)] ELSE {}
  <2>1. f = [a \in start..end |->
               {a} \union IF SizeOf(ws, a) \in 1..(end - a) THEN f[a + SizeOf(ws, a)] ELSE {}]
    BY <1>4 DEF Walk
  <2> QED
    BY <2>1
<1>6. W = {}
  <2> SUFFICES ASSUME W # {} PROVE FALSE
    OBVIOUS
  <2>1. PICK k \in W : \A j \in W : k <= j
    <3>1. W \in SUBSET Nat
      BY <1>2
    <3> HIDE DEF W
    <3> QED
      BY <3>1, LeastNumber
  <2> DEFINE s == end - k
  <2>2. k \in 0..(end - start) /\ s \in S \union {end} /\ f[s] # From(S, s, end)
    BY <2>1
  <2>3. s \in start..end /\ k = end - s
    BY <1>2, <2>2
  <2>4. CASE k = 0
    <3>1. s = end /\ ~(SizeOf(ws, s) \in 1..(end - s))
      BY <1>2, <2>4
    <3>2. f[s] = {end}
      BY <1>5, <2>3, <3>1
    <3>3. From(S, end, end) = {end}
      <4>1. \A t \in S : t \in Nat
        BY <1>1 DEF Tiles
      <4>2. \A t \in S : ~(end <= t /\ t < end)
        BY <1>2, <4>1
      <4> QED
        BY <4>2 DEF From
    <3> QED
      BY <2>2, <3>1, <3>2, <3>3
  <2>5. CASE k # 0
    <3> DEFINE n == NextRegion(ws, s)
    <3>1. s \in S /\ s < end /\ start <= s /\ s \in Nat
      BY <1>2, <2>2, <2>3, <2>5
    <3>2. /\ SizeOf(ws, s) \in Nat /\ SizeOf(ws, s) >= 4 /\ n = s + SizeOf(ws, s)
          /\ n <= end /\ n \in S \union {end} /\ n \in Nat
      BY <1>1, <1>2, <1>3, <3>1, Neighbours
    <3> HIDE DEF s, n
    <3>3. SizeOf(ws, s) \in 1..(end - s)
      BY <1>2, <3>1, <3>2
    <3>4. f[s] = {s} \union f[n]
      BY <1>5, <2>3, <3>2, <3>3
    <3>5. end - n \in 0..(end - start) /\ ~(k <= end - n) /\ end - (end - n) = n
      BY <1>2, <2>3, <3>1, <3>2
    <3>6. f[n] = From(S, n, end)
      <4> DEFINE x == end - n
      <4>1. x \notin W
        BY <2>1, <3>5
      <4>2. x \in 0..(end - start) /\ end - x = n /\ end - x \in S \union {end}
        BY <3>2, <3>5
      <4> HIDE DEF x
      <4>3. f[end - x] = From(S, end - x, end)
        BY <4>1, <4>2
      <4> QED
        BY <4>2, <4>3
    <3>7. From(S, s, end) = {s} \union From(S, n, end)
      <4>1. /\ \A t \in S : t \in Nat
            /\ \A t, u \in S : t < u => NextRegion(ws, t) <= u
        BY <1>1 DEF Tiles
      <4>2. ASSUME NEW t \in S
            PROVE  s <= t <=> t = s \/ n <= t
        <5>1. t \in Nat /\ (s < t => n <= t)
          BY <3>1, <4>1 DEF n
        <5> QED
          BY <3>1, <3>2, <5>1
      <4> QED
        BY <3>1, <4>2 DEF From
    <3> QED
      BY <2>2, <3>4, <3>6, <3>7 DEF s
  <2> QED
    BY <2>4, <2>5
<1>7. end - start \in 0..(end - start) /\ end - (end - start) = start
  BY <1>2
<1>8. f[start] = From(S, start, end)
  BY <1>2, <1>6, <1>7
<1> QED
  BY <1>8 DEF start, end

\* So does Regions.
LEMMA RegionsAre ==
  ASSUME NEW h, NEW S, HeapOK(h, S), NEW root \in Range(h.roots)
  PROVE  Regions(h, root) = From(S, root.start, root.end)
<1>1. PICK i \in DOMAIN h.roots : root = h.roots[i]
  BY DEF Range
<1>2. root.start \in Nat /\ root.end \in Nat
  <2>1. RootsOK(h.roots, h.brk)
    BY HeapFacts
  <2>2. i \in 1..Len(h.roots) /\ h.roots \in Seq([start : Nat, end : Nat])
    BY <1>1, <2>1 DEF RootsOK
  <2>3. h.roots[i] \in [start : Nat, end : Nat]
    BY <2>2, ElementOfSeq
  <2> QED
    BY <1>1, <2>3
<1>3. \E f : Walk(h.words, root.start, root.end, f)
  BY <1>2, WalkExists
<1>4. \A f : Walk(h.words, root.start, root.end, f)
         => f[root.start] = From(S, root.start, root.end)
  <2>1. \A f : Walk(h.words, h.roots[i].start, h.roots[i].end, f)
           => f[h.roots[i].start] = From(S, h.roots[i].start, h.roots[i].end)
    BY WalkIs
  <2> QED
    BY <1>1, <2>1
<1> DEFINE Eq(f) == Walk(h.words, root.start, root.end, f)
           from[a \in root.start..root.end] ==
              LET size == SizeOf(h.words, a)
              IN  {a} \union IF size \in 1..(root.end - a) THEN from[a + size] ELSE {}
<1>5. from = CHOOSE f : Eq(f)
  BY DEF from, Walk
<1>6. from[root.start] = From(S, root.start, root.end)
  <2>1. \E f : Eq(f)
    BY <1>3
  <2>2. \A f : Eq(f) => f[root.start] = From(S, root.start, root.end)
    BY <1>4
  <2> HIDE DEF Eq, from
  <2> QED
    BY <1>5, <2>1, <2>2
<1>7. Regions(h, root) = from[root.start]
  BY DEF Regions, from
<1> HIDE DEF from
<1> QED
  BY <1>6, <1>7
=============================================================================
