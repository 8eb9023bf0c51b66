----------------------------- MODULE StableSort -----------------------------
(***************************************************************************)
(* How Do sorts volumes, mounts and variables: sort.SliceStable of Go's    *)
(* standard library (external), with a comparison that is false unless     *)
(* both elements are injected.  Elements of the user's compare equal to    *)
(* all others, so that this is no weak order, and what comes of a list is  *)
(* the doing of the algorithm: insertion sort of blocks, which SymMerge    *)
(* then merges in pairs.  Places in a list are counted from 0 here, as in  *)
(* the library, where they are passed on as numbers.                       *)
(***************************************************************************)
EXTENDS Integers, FiniteSets, Sequences, Functions

\* The length of the blocks.
BlockSize == 20

\* The elements of s at the places in at, in the order before: the first is
\* the one that no other comes before.  Lists are filtered and sorted by it.
Arranged(s, at, before) ==
  LET Place(i) == 1 + Cardinality({j \in at : <<j, i>> \in before})
  IN  [p \in 1..Cardinality(at) |-> s[CHOOSE i \in at : Place(i) = p]]

\* Nothing of the user's is at i, at j or between them.
SameRun(s, injected, i, j) == \A h \in (i..j) \cup (j..i) : s[h] \in injected

\* In an insertion sort an element only moves left, past greater ones next to
\* it: each run of consecutive injected elements is sorted by name, and
\* nothing moves past the user's.
InsertionSort(s, injected) ==
  LET Before(j, i) ==
        IF SameRun(s, injected, i, j) /\ s[j].name # s[i].name
        THEN s[j].name < s[i].name
        ELSE j < i
  IN  Arranged(s, DOMAIN s,
               {ji \in (DOMAIN s) \X (DOMAIN s) : Before(ji[1], ji[2])})

\* Where a binary search from lo to hi ends that continues behind a place in
\* passed, and before any other.
Search(lo, hi, passed) ==
  LET Between[i, j \in Nat] ==
        LET h == (i + j) \div 2
        IN  IF i >= j THEN i
            ELSE IF h \in passed THEN Between[h + 1, j] ELSE Between[i, h]
  IN  Between[lo, hi]

\* The neighbours s[a], ..., s[m - 1] and s[m], ..., s[b - 1] change places.
Rotate(s, a, m, b) ==
  SubSeq(s, 1, a) \o SubSeq(s, m + 1, b) \o SubSeq(s, a + 1, m)
    \o SubSeq(s, b + 1, Len(s))

\* The sorted lists s[a], ..., s[m - 1] and s[m], ..., s[b - 1] become one.
SymMerge(s, injected, a, m, b) ==
  LET Less(t, i, j) == /\ {t[i + 1], t[j + 1]} \subseteq injected
                       /\ t[i + 1].name < t[j + 1].name
      Merge[t \in Seq(Range(s)), l, c, r \in Nat] ==
        LET mid == (l + r) \div 2
            from == IF c > mid THEN mid + c - r ELSE l
            to == IF c > mid THEN mid ELSE c
            start == Search(from, to,
                       {i \in from..(to - 1) : ~Less(t, mid + c - 1 - i, i)})
            end == mid + c - start
            rotated == IF start < c /\ c < end THEN Rotate(t, start, c, end) ELSE t
            left == IF l < start /\ start < mid
                    THEN Merge[rotated, l, start, mid] ELSE rotated
        IN  CASE c - l = 1 ->
                   Rotate(t, l, c, Search(c, r, {i \in c..(r - 1) : Less(t, i, l)}))
              [] c - l # 1 /\ r - c = 1 ->
                   Rotate(t, Search(l, c, {i \in l..(c - 1) : ~Less(t, c, i)}), c, r)
              [] c - l # 1 /\ r - c # 1 ->
                   IF mid < end /\ end < r THEN Merge[left, mid, end, r] ELSE left
  IN  Merge[s, a, m, b]

\* Blocks are sorted, then merged in pairs into blocks of twice the length.
MergeSort(s, injected) ==
  LET Lesser(i, j) == IF i < j THEN i ELSE j
      block == [k \in 0..(Len(s) \div BlockSize) |->
                  InsertionSort(SubSeq(s, k * BlockSize + 1,
                                       Lesser((k + 1) * BlockSize, Len(s))),
                                injected)]
      sorted == [i \in DOMAIN s |->
                   block[(i - 1) \div BlockSize][((i - 1) % BlockSize) + 1]]
      Pairs[t \in Seq(Range(s)), size, a \in Nat] ==
        IF a + size >= Len(s) THEN t
        ELSE Pairs[SymMerge(t, injected, a, a + size, Lesser(a + 2 * size, Len(s))),
                   size, a + 2 * size]
      Blocks[t \in Seq(Range(s)), size \in Nat] ==
        IF size >= Len(s) THEN t ELSE Blocks[Pairs[t, size, 0], 2 * size]
  IN  Blocks[sorted, BlockSize]

\* Mutant of SortInjected: what is appended stays where it is.
SortNothing(s, injected) == s

\* The elements of s, of which those in injected are sorted.
SortInjected(s, injected) ==
  IF Len(s) <= BlockSize THEN InsertionSort(s, injected) ELSE MergeSort(s, injected)
=============================================================================
