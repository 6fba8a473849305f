------------------------ MODULE MerkleMountainRange ------------------------
(***************************************************************************)
(* The Merkle mountain range of chunks as the reference library and the    *)
(* contract (libraries/MMR.sol) compute it.  A hash is the term of what    *)
(* was hashed, so two are equal only if their preimages are.  Chunks are a *)
(* sequence; leaf i is its element i + 1.                                  *)
(***************************************************************************)
EXTENDS Naturals, SequencesExt, FiniteSetsExt

CONSTANTS
  MaxHeight,       \* 63
  DigitBase        \* 256: a digest is a sequence of digits

ASSUME RangeAssumption == MaxHeight \in Nat /\ DigitBase \in Nat \ {0}

Leaf(chunk) == <<"leaf", chunk>>
Node(left, right) == <<"node", left, right>>
Root(n, peaks) == <<"root", n, peaks>>

Heights == 0..MaxHeight
Bit(n, h) == (n \div 2^h) % 2

\* A set of heights, tallest first.
Descending(S) ==
  LET Down[j \in 0..MaxHeight + 1] ==
        IF j = 0 THEN <<>>
        ELSE IF MaxHeight + 1 - j \in S THEN Append(Down[j - 1], MaxHeight + 1 - j)
        ELSE Down[j - 1]
  IN Down[MaxHeight + 1]
PeakHeights(n) == Descending({h \in Heights : Bit(n, h) = 1})

\* The maximal aligned perfect subtrees of m leaves appended after leaf n, by height.
Decompose(n, m) ==
  LET Rest[remaining \in 0..m] ==
        IF remaining = 0 THEN <<>>
        ELSE LET pos == n + m - remaining
                 h == Max({g \in Heights : 2^g <= remaining /\ pos % 2^g = 0})
             IN <<h>> \o Rest[remaining - 2^h]
  IN Rest[m]

(***************************************************************************)
(* Perfect subtrees over chunks, and the peaks and paths made of them.     *)
(***************************************************************************)

SubtreeRoot(chunks, start, height) ==
  LET Sub[h \in 0..height] ==
        [s \in Nat |-> IF h = 0 THEN Leaf(chunks[s + 1])
                       ELSE Node(Sub[h - 1][s], Sub[h - 1][s + 2^(h - 1)])]
  IN Sub[height][start]

\* The first leaf of each subtree of a sequence of heights, and of what would come next.
Starts(heights) ==
  LET Start[k \in 1..Len(heights) + 1] ==
        IF k = 1 THEN 0 ELSE Start[k - 1] + 2^heights[k - 1]
  IN Start

SubtreeRoots(heights, chunks) ==
  [k \in DOMAIN heights |-> SubtreeRoot(chunks, Starts(heights)[k], heights[k])]

\* What a declaration of these chunks, appended after leaf n, has to declare.
UpdateSubtreeRoots(n, chunks) == SubtreeRoots(Decompose(n, Len(chunks)), chunks)

\* The peaks of any earlier leaf count, from the chunks alone.
PeaksAt(chunks, n) == SubtreeRoots(PeakHeights(n), chunks)

Locate(i, n) ==
  LET heights == PeakHeights(n)
      starts == Starts(heights)
      k == CHOOSE k \in DOMAIN heights : starts[k] <= i /\ i < starts[k] + 2^heights[k]
  IN [peak |-> k, start |-> starts[k], height |-> heights[k]]

ProveUncle(chunks, i, n) ==   \* mutant
  LET at == Locate(i, n) IN
  [l \in 1..at.height |-> SubtreeRoot(chunks, at.start, l - 1)]
\* The siblings of leaf i, bottom level first.
Prove(chunks, i, n) ==
  LET at == Locate(i, n)
      Sibling(l) == LET s == (i - at.start) \div 2^l IN IF s % 2 = 0 THEN s + 1 ELSE s - 1
  IN [l \in 1..at.height |-> SubtreeRoot(chunks, at.start + Sibling(l - 1) * 2^(l - 1), l - 1)]

VerifyEitherSide(chunk, i, path, n, peaks) ==   \* mutant
  LET at == Locate(i, n)
      Climbs[l \in 0..Len(path)] ==
        IF l = 0 THEN {Leaf(chunk)}
        ELSE UNION {{Node(acc, path[l]), Node(path[l], acc)} : acc \in Climbs[l - 1]}
  IN i < n /\ Len(path) = at.height /\ peaks[at.peak] \in Climbs[Len(path)]
Verify(chunk, i, path, n, peaks) ==
  LET at == Locate(i, n)
      Climb[l \in 0..Len(path)] ==
        IF l = 0 THEN Leaf(chunk)
        ELSE IF Bit(i - at.start, l - 1) = 0 THEN Node(Climb[l - 1], path[l])
        ELSE Node(path[l], Climb[l - 1])
  IN
  /\ i < n
  /\ Len(path) = at.height /\ Len(peaks) = Len(PeakHeights(n))
  /\ Climb[Len(path)] = peaks[at.peak]

(***************************************************************************)
(* The update.  The Rust side keeps a map of the peaks by height; the      *)
(* contract a table whose entries count where the leaf count has a bit.    *)
(***************************************************************************)

FromState(n, peaks) ==
  LET heights == PeakHeights(n) IN
  [leafCount |-> n,
   byHeight |-> [h \in ToSet(heights) |-> peaks[CHOOSE k \in DOMAIN heights : heights[k] = h]]]

Peaks(mmr) ==
  LET heights == Descending(DOMAIN mmr.byHeight) IN
  [k \in DOMAIN heights |-> mmr.byHeight[heights[k]]]

\* A peak of older leaves is the left child.
CarryRight(byHeight, h, free, peak) ==   \* mutant
  LET Up[g \in h..free] == IF g = h THEN peak ELSE Node(Up[g - 1], byHeight[g - 1])
  IN Up[free]
Carry(byHeight, h, free, peak) ==
  LET Up[g \in h..free] == IF g = h THEN peak ELSE Node(byHeight[g - 1], Up[g - 1])
  IN Up[free]

Merge(mmr, h, peak) ==
  LET free == Min({g \in Heights : g >= h /\ g \notin DOMAIN mmr.byHeight})
      carried == Carry(mmr.byHeight, h, free, peak)
      kept == DOMAIN mmr.byHeight \ (h..free)
  IN [leafCount |-> mmr.leafCount + 2^h,
      byHeight |-> [g \in kept \cup {free} |-> IF g = free THEN carried ELSE mmr.byHeight[g]]]

ApplyUpdate(mmr, subtreePeaks, m) ==
  LET heights == Decompose(mmr.leafCount, m)
      After[k \in 0..Len(heights)] ==
        IF k = 0 THEN mmr ELSE Merge(After[k - 1], heights[k], subtreePeaks[k])
  IN After[Len(heights)]

MergeInTable(acc, h, peak) ==
  LET free == Min({g \in Heights : g >= h /\ Bit(acc.count, g) = 0}) IN
  [count |-> acc.count + 2^h,
   table |-> [acc.table EXCEPT ![free] = Carry(acc.table, h, free, peak)]]

ContractApplyUpdate(peaks, n, subtreePeaks, heights) ==
  LET before == PeakHeights(n)
      scattered == [h \in Heights |->
        IF h \in ToSet(before) THEN peaks[CHOOSE k \in DOMAIN before : before[k] = h] ELSE <<>>]
      After[k \in 0..Len(heights)] ==
        IF k = 0 THEN [count |-> n, table |-> scattered]
        ELSE MergeInTable(After[k - 1], heights[k], subtreePeaks[k])
      merged == After[Len(heights)]
      after == PeakHeights(merged.count)
  IN [k \in DOMAIN after |-> merged.table[after[k]]]

-----------------------------------------------------------------------------

\* The position a digest samples: its digits are streamed through one remainder.
SampleIndexUnshifted(digits, n) == FoldLeft(LAMBDA rem, d : (rem + d) % n, 0, digits)   \* mutant
SampleIndex(digits, n) ==
  LET rem[k \in 0..Len(digits)] ==
        IF k = 0 THEN 0 ELSE (rem[k - 1] * DigitBase + digits[k]) % n
  IN rem[Len(digits)]

=============================================================================
