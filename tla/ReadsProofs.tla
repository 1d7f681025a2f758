------------------------------ MODULE ReadsProofs ------------------------------
(***************************************************************************)
(* Proofs about the reads of a query.  How they are merged (MergeRanges):  *)
(* for every block list, gap, block size and word size; only               *)
(* MergedAlwaysAsAllowed, about what is joined, needs that the join test   *)
(* does not wrap, as a wrap only makes reads smaller.  How they are        *)
(* pipelined (StreamReads): for every set of objects and reads, every      *)
(* size, limit, concurrency and number of threads.                         *)
(***************************************************************************)
EXTENDS MergeRanges, StreamReads, FiniteSetTheorems, TLAPS

-----------------------------------------------------------------------------
(* Merging: the inductive invariant *)

(* What each value of pc says of the loop variable. *)
Phase ==
  /\ pc = "sort" => i = 1 /\ runs = <<>>
  /\ pc = "done" => i = n + 1
  /\ pc = "error" => i \in 2 .. n /\ ~Before(items[i - 1], items[i])

(* After the sort no item is followed by a smaller one. *)
Ascending == pc # "sort" => \A k \in 1 .. n - 1 : ~Before(items[k + 1], items[k])

(* The items placed so far are strictly increasing. *)
Placed == \A x, y \in 1 .. n : x < y /\ y < i => Before(items[x], items[y])

(* The runs start at the first item and follow each other. *)
RunStarts ==
  /\ m = 0 <=> i = 1
  /\ m > 0 => runs[1].start = 1
  /\ \A k \in 1 .. m : runs[k].start < i
  /\ \A k, l \in 1 .. m : k < l => runs[k].start < runs[l].start

(* A run records the chunk of its items and its first and last block. *)
RunEnds ==
  \A k \in 1 .. m :
    /\ items[runs[k].start].block = runs[k].first
    /\ items[ItemEnd(k)].block = runs[k].last
    /\ \A x \in ItemsOf(k) : items[x].chunk = runs[k].chunk

AllPlaced == \A x \in 1 .. i - 1 : \E k \in 1 .. m : x \in ItemsOf(k)

MergeInv ==
  /\ MergeTypeOK
  /\ Phase
  /\ Ascending
  /\ Placed
  /\ RunStarts
  /\ RunEnds
  /\ AllPlaced
  /\ GapRespected

RunType == [chunk : Nat, first : Nat, last : Nat, start : 1 .. n]

-----------------------------------------------------------------------------
(* The order of items *)

(* Before is a strict total order on items. *)
LEMMA BeforeIsAnOrder ==
  /\ \A a \in Item : ~Before(a, a)
  /\ \A a, b, c \in Item : Before(a, b) /\ Before(b, c) => Before(a, c)
  /\ \A a, b \in Item : Before(a, b) \/ Before(b, a) \/ a = b
  BY DEF Before, Item

(* The sort returns a list of the same length whose items do not descend. *)
LEMMA SortAscends ==
  ASSUME NEW s \in Seq(Item), NEW t \in LexSort(s)
  PROVE  /\ t \in Seq(Item)
         /\ Len(t) = Len(s)
         /\ \A k \in 1 .. Len(t) - 1 : ~Before(t[k + 1], t[k])
<1>1. PICK p \in Bijection(1 .. Len(s), 1 .. Len(s)) : t = Arranged(s, p)
  BY DEF LexSort
<1>2. p \in [1 .. Len(s) -> 1 .. Len(s)]
  BY DEF Bijection, Injection
<1>3. t = [k \in 1 .. Len(s) |-> s[p[k]]]
  BY <1>1 DEF Arranged
<1>4. \A k \in 1 .. Len(s) : s[p[k]] \in Item
  BY <1>2
<1>5. Len(s) \in Nat /\ t \in [1 .. Len(s) -> Item]
  BY <1>3, <1>4
<1>6. t \in Seq(Item) /\ Len(t) = Len(s)
  BY <1>5
<1>7. \A k \in 1 .. Len(t) - 1 : ~Before(t[k + 1], t[k])
  BY DEF LexSort
<1> QED
  BY <1>6, <1>7

-----------------------------------------------------------------------------
(* The join test *)

(* A sum that wraps around only becomes smaller, so an item that passes    *)
(* the join test is as close as the gap asks for.                          *)
LEMMA Wrapped ==
  ASSUME NEW a \in Nat, NEW b \in Nat, NEW g \in Nat, NEW w \in Nat \ {0},
         b <= (a + g + 1) % w
  PROVE  b - a <= g + 1
<1> DEFINE c == a + g + 1
<1>1. c \in Nat
  OBVIOUS
<1>2. b <= c % w
  OBVIOUS
<1> HIDE DEF c
<1>3. c % w <= c /\ c % w \in Nat
  BY <1>1
<1>4. b <= c
  BY <1>1, <1>2, <1>3
<1> QED
  BY <1>4 DEF c

(* Block offsets grow with the block id. *)
LEMMA OffsetsGrow ==
  ASSUME NEW a \in Nat, NEW b \in Nat, a <= b
  PROVE  Base + a * BlockSize <= Base + b * BlockSize
<1>1. PICK d \in Nat : b = a + d
  <2>1. b - a \in Nat /\ b = a + (b - a)
    OBVIOUS
  <2> QED
    BY <2>1
<1>2. b * BlockSize = a * BlockSize + d * BlockSize
  BY <1>1, LayoutAssumption
<1>3. a * BlockSize \in Nat /\ d * BlockSize \in Nat
  BY LayoutAssumption
<1> QED
  BY <1>2, <1>3, LayoutAssumption

-----------------------------------------------------------------------------
(* The inductive steps *)

LEMMA InitMergeInv == MergeInit => MergeInv
<1> SUFFICES ASSUME MergeInit PROVE MergeInv
  OBVIOUS
<1>1. items \in Seq(Item) /\ n \in Nat /\ m = 0
  BY InputsAssumption DEF MergeInit, n, m
<1>2. MergeTypeOK
  BY <1>1 DEF MergeInit, MergeTypeOK
<1> QED
  BY <1>1, <1>2 DEF MergeInit, MergeInv, Phase, Ascending, Placed, RunStarts, RunEnds,
    AllPlaced, GapRespected, n

(* The list is sorted, and its first item opens the first run. *)
LEMMA SortStep ==
  ASSUME MergeInv, Sort
  PROVE  MergeInv'
<1>1. /\ items' \in Seq(Item) /\ n' = n /\ n \in Nat
      /\ \A k \in 1 .. n' - 1 : ~Before(items'[k + 1], items'[k])
  <2>1. CASE StrictlyIncreasing(items)
    <3>1. items' = items
      BY <2>1 DEF Sort
    <3>2. \A k \in 1 .. n - 1 : items[k] \in Item /\ items[k + 1] \in Item
      BY DEF MergeInv, MergeTypeOK, n
    <3> QED
      BY <2>1, <3>1, <3>2, BeforeIsAnOrder DEF StrictlyIncreasing, n, MergeInv, MergeTypeOK
  <2>2. CASE ~StrictlyIncreasing(items)
    BY <2>2, SortAscends DEF Sort, n, MergeInv, MergeTypeOK
  <2> QED
    BY <2>1, <2>2
<1>2. i = 1 /\ runs = <<>> /\ gap \in Gaps /\ gap' = gap /\ pc = "sort"
  BY DEF Sort, MergeInv, Phase, MergeTypeOK
<1>3. CASE n = 0
  <2>1. pc' = "done" /\ i' = 1 /\ runs' = <<>>
    BY <1>2, <1>3 DEF Sort, Open
  <2> QED
    BY <1>1, <1>2, <1>3, <2>1 DEF MergeInv, MergeTypeOK, Phase, Ascending, Placed,
      RunStarts, RunEnds, AllPlaced, GapRespected, m, n
<1>4. CASE n # 0
  <2>1. pc' = "scan" /\ i' = 2 /\ runs' = <<RunAt(1)'>>
    BY <1>4 DEF Sort, Open
  <2>2. items'[1] \in Item
    BY <1>1, <1>4 DEF n
  <2>3. /\ RunAt(1)' \in RunType'
        /\ RunAt(1)'.start = 1 /\ RunAt(1)'.chunk = items'[1].chunk
        /\ RunAt(1)'.first = items'[1].block /\ RunAt(1)'.last = items'[1].block
    BY <1>1, <1>4, <2>2 DEF RunAt, RunType, Item
  <2>4. m' = 1 /\ runs'[1] = RunAt(1)' /\ runs' \in Seq(RunType')
    BY <2>1, <2>3 DEF m
  <2>5. ItemsOf(1)' = {1} /\ ItemEnd(1)' = 1
    BY <2>1, <2>3, <2>4 DEF ItemsOf, ItemEnd
  <2>6. MergeTypeOK'
    BY <1>1, <1>2, <1>4, <2>1, <2>4 DEF MergeTypeOK, RunType, n
  <2>7. Phase' /\ Ascending' /\ Placed'
    BY <1>1, <2>1 DEF Phase, Ascending, Placed
  <2>8. RunStarts' /\ RunEnds' /\ AllPlaced'
    BY <2>1, <2>3, <2>4, <2>5 DEF RunStarts, RunEnds, AllPlaced
  <2>9. GapRespected'
    BY <2>4, <2>5 DEF GapRespected
  <2> QED
    BY <2>6, <2>7, <2>8, <2>9 DEF MergeInv
<1> QED
  BY <1>3, <1>4

(* What the loop sees when it looks at the next item. *)
LEMMA LoopFacts ==
  ASSUME MergeInv, Scanning
  PROVE  /\ n \in Nat /\ m \in Nat /\ m >= 1 /\ i \in 2 .. n
         /\ runs \in Seq(RunType) /\ Len(runs) = m
         /\ \A k \in 1 .. m : /\ runs[k] \in RunType
                              /\ runs[k].start \in Nat /\ runs[k].start < i
                              /\ runs[k].last \in Nat
         /\ \A x \in 1 .. n : items[x] \in Item
         /\ items[i] \in Item /\ items[i - 1] \in Item
         /\ ItemEnd(m) = i - 1
<1>1. runs \in Seq(RunType) /\ m \in Nat /\ n \in Nat
  BY DEF MergeInv, MergeTypeOK, RunType, m, n
<1>2. i \in 2 .. n /\ m >= 1
  BY <1>1 DEF MergeInv, MergeTypeOK, Scanning, RunStarts
<1>3. \A x \in 1 .. n : items[x] \in Item
  BY <1>1 DEF MergeInv, MergeTypeOK, n
<1>4. \A k \in 1 .. m : runs[k] \in RunType
  BY <1>1 DEF m
<1>5. \A k \in 1 .. m : runs[k].start \in Nat /\ runs[k].start < i /\ runs[k].last \in Nat
  BY <1>1, <1>4 DEF RunType, MergeInv, RunStarts
<1> QED
  BY <1>1, <1>2, <1>3, <1>4, <1>5 DEF ItemEnd, m

(* Placing the next item keeps the placed items strictly increasing. *)
LEMMA PlacedStep ==
  ASSUME MergeInv, Scanning, Before(items[i - 1], items[i]), items' = items, i' = i + 1
  PROVE  Placed'
<1>1. n' = n
  BY DEF n
<1> SUFFICES ASSUME NEW x \in 1 .. n, NEW y \in 1 .. n, x < y, y < i + 1
             PROVE  Before(items[x], items[y])
  BY <1>1 DEF Placed
<1>2. CASE y < i
  BY <1>2 DEF MergeInv, Placed
<1>3. CASE y = i /\ x = i - 1
  BY <1>3
<1>4. CASE y = i /\ x < i - 1
  <2>1. Before(items[x], items[i - 1])
    BY <1>4, LoopFacts DEF MergeInv, Placed
  <2> QED
    BY <1>4, <2>1, LoopFacts, BeforeIsAnOrder
<1> QED
  BY <1>2, <1>3, <1>4, LoopFacts

(* The next item extends the last run. *)
LEMMA ExtendStep ==
  ASSUME MergeInv, Extend
  PROVE  MergeInv'
<1> DEFINE r == [runs[m] EXCEPT !.last = items[i].block]
<1>0. Scanning
  BY DEF Extend
<1>1. /\ items' = items /\ gap' = gap /\ pc' = pc /\ i' = i + 1
      /\ runs' = [runs EXCEPT ![m] = r] /\ n' = n
  BY DEF Extend, n
<1>a. /\ n \in Nat /\ m \in Nat /\ m >= 1 /\ i \in 2 .. n /\ m \in 1 .. m
      /\ runs \in Seq(RunType) /\ Len(runs) = m
      /\ \A k \in 1 .. m : /\ runs[k] \in RunType
                           /\ runs[k].start \in Nat /\ runs[k].start < i
                           /\ runs[k].last \in Nat
      /\ \A x \in 1 .. n : items[x] \in Item
      /\ ItemEnd(m) = i - 1
  BY <1>0, LoopFacts
<1>2. r \in RunType /\ r.chunk = runs[m].chunk /\ r.first = runs[m].first
      /\ r.start = runs[m].start /\ r.last = items[i].block
  <2>1. items[i].block \in Nat
    BY <1>a DEF Item
  <2>2. runs[m] \in [chunk : Nat, first : Nat, last : Nat, start : 1 .. n]
    BY <1>a DEF RunType
  <2> QED
    BY <2>1, <2>2 DEF RunType
<1> HIDE DEF r
<1>3. runs' \in Seq(RunType) /\ Len(runs') = m /\ runs'[m] = r
      /\ \A k \in 1 .. m : k # m => runs'[k] = runs[k]
  BY <1>a, <1>1, <1>2
<1>b. m' = m
  BY <1>3 DEF m
<1>4. \A k \in 1 .. m : /\ runs'[k].start = runs[k].start
                        /\ runs'[k].chunk = runs[k].chunk
                        /\ runs'[k].first = runs[k].first
  BY <1>2, <1>3
<1>5. \A k \in 1 .. m : k # m => /\ ItemEnd(k)' = ItemEnd(k)
                                 /\ ItemsOf(k)' = ItemsOf(k)
  <2> SUFFICES ASSUME NEW k \in 1 .. m, k # m
               PROVE  ItemEnd(k)' = ItemEnd(k) /\ ItemsOf(k)' = ItemsOf(k)
    OBVIOUS
  <2>1. k < m /\ k + 1 \in 1 .. m
    BY <1>a
  <2>2. ItemEnd(k)' = ItemEnd(k)
    BY <1>4, <1>b, <2>1 DEF ItemEnd
  <2> QED
    BY <1>4, <2>2 DEF ItemsOf
<1>6. \A k \in 1 .. m : k = m => /\ ItemEnd(k)' = i
                                 /\ ItemsOf(k)' = ItemsOf(k) \cup {i}
                                 /\ ItemsOf(k) = runs[k].start .. i - 1
  <2> SUFFICES ASSUME NEW k \in 1 .. m, k = m
               PROVE  /\ ItemEnd(k)' = i
                      /\ ItemsOf(k)' = ItemsOf(k) \cup {i}
                      /\ ItemsOf(k) = runs[k].start .. i - 1
    OBVIOUS
  <2>1. ItemEnd(k)' = i
    BY <1>a, <1>1, <1>b DEF ItemEnd
  <2>2. ItemsOf(k)' = runs[k].start .. i
    BY <1>4, <2>1 DEF ItemsOf
  <2>3. ItemsOf(k) = runs[k].start .. i - 1
    BY <1>a DEF ItemsOf
  <2>4. runs[k].start \in Nat /\ runs[k].start < i /\ i \in Nat
    BY <1>a
  <2> QED
    BY <2>1, <2>2, <2>3, <2>4
<1>7. MergeTypeOK'
  <2>1. runs' \in Seq([chunk : Nat, first : Nat, last : Nat, start : 1 .. n])
    BY <1>3 DEF RunType
  <2>2. runs' # <<>>
    BY <1>3, <1>a
  <2> QED
    BY <1>a, <1>1, <2>1, <2>2 DEF MergeInv, MergeTypeOK
<1>8. Phase' /\ Ascending'
  BY <1>0, <1>1 DEF MergeInv, Phase, Ascending, Scanning
<1>9. Placed'
  BY <1>0, <1>1, PlacedStep DEF Extend
<1>10. RunStarts'
  <2>1. /\ m > 0 => runs[1].start = 1
        /\ \A k, l \in 1 .. m : k < l => runs[k].start < runs[l].start
    BY DEF MergeInv, RunStarts
  <2>2. m' > 0 => runs'[1].start = 1
    BY <1>a, <1>b, <1>4, <2>1
  <2>3. \A k \in 1 .. m' : runs'[k].start < i'
    BY <1>a, <1>b, <1>1, <1>4
  <2>4. \A k, l \in 1 .. m' : k < l => runs'[k].start < runs'[l].start
    BY <1>b, <1>4, <2>1
  <2>5. ~(m' = 0) /\ ~(i' = 1)
    BY <1>a, <1>b, <1>1
  <2> QED
    BY <2>2, <2>3, <2>4, <2>5 DEF RunStarts
<1>11. RunEnds'
  <2> SUFFICES ASSUME NEW k \in 1 .. m
               PROVE  /\ items[runs'[k].start].block = runs'[k].first
                      /\ items[ItemEnd(k)'].block = runs'[k].last
                      /\ \A x \in ItemsOf(k)' : items[x].chunk = runs'[k].chunk
    BY <1>1, <1>b DEF RunEnds
  <2>0. /\ items[runs[k].start].block = runs[k].first
        /\ items[ItemEnd(k)].block = runs[k].last
        /\ \A x \in ItemsOf(k) : items[x].chunk = runs[k].chunk
    BY DEF MergeInv, RunEnds
  <2>1. CASE k # m
    BY <1>3, <1>5, <2>0, <2>1
  <2>2. CASE k = m
    <3>1. items[i].chunk = runs[k].chunk
      BY <2>2 DEF Extend, Joins
    <3>2. runs'[k].last = items[i].block
      BY <1>2, <1>3, <2>2
    <3> QED
      BY <1>4, <1>6, <2>0, <2>2, <3>1, <3>2
  <2> QED
    BY <2>1, <2>2
<1>12. AllPlaced'
  <2> SUFFICES ASSUME NEW x \in 1 .. i
               PROVE  \E k \in 1 .. m : x \in ItemsOf(k)'
    BY <1>a, <1>1, <1>b DEF AllPlaced
  <2>1. CASE x = i
    <3>1. m \in 1 .. m
      BY <1>a
    <3>2. PICK k \in 1 .. m : k = m
      BY <3>1
    <3> QED
      BY <1>6, <2>1, <3>2
  <2>2. CASE x # i
    <3>1. x \in 1 .. i - 1
      BY <1>a, <2>2
    <3>2. PICK k \in 1 .. m : x \in ItemsOf(k)
      BY <3>1 DEF MergeInv, AllPlaced
    <3>3. x \in ItemsOf(k)'
      BY <1>5, <1>6, <3>2
    <3> QED
      BY <3>3
  <2> QED
    BY <2>1, <2>2
<1>13. GapRespected'
  <2> SUFFICES ASSUME NEW k \in 1 .. m, NEW x \in ItemsOf(k)', NEW y \in ItemsOf(k)',
                      y = x + 1
               PROVE  items[y].block - items[x].block <= gap + 1
    BY <1>1, <1>b DEF GapRespected
  <2>1. CASE y \in ItemsOf(k) /\ x \in ItemsOf(k)
    BY <2>1 DEF MergeInv, GapRespected
  <2>2. CASE k = m /\ y = i /\ x = i - 1
    <3>1. items[i - 1].block = runs[m].last
      BY <1>a DEF MergeInv, RunEnds
    <3>a. items[i] \in Item
      BY <1>a
    <3>2. items[i].block <= (runs[m].last + gap + 1) % WordSize
      BY DEF Extend, Joins
    <3>3. /\ runs[m].last \in Nat /\ gap \in Nat /\ items[i].block \in Nat
      BY <1>a, <3>a, GapsAssumption DEF Item, MergeInv, MergeTypeOK
    <3> QED
      BY <2>2, <3>1, <3>2, <3>3, Wrapped, LayoutAssumption
  <2>3. CASE k = m /\ y # i
    <3>1. ItemsOf(k) = runs[k].start .. i - 1 /\ runs[k].start \in Nat /\ i \in Nat
      BY <1>a, <1>6, <2>3
    <3>2. x \in ItemsOf(k) \cup {i} /\ y \in ItemsOf(k) \cup {i}
      BY <1>6, <2>3
    <3> QED
      BY <2>1, <2>3, <3>1, <3>2
  <2>4. CASE k = m /\ y = i /\ x # i - 1
    <3>1. x \in Nat
      BY <1>a, <1>6, <2>4
    <3> QED
      BY <1>a, <2>4, <3>1
  <2>5. CASE k # m
    BY <1>5, <2>1, <2>5
  <2> QED
    BY <2>2, <2>3, <2>4, <2>5
<1> QED
  BY <1>7, <1>8, <1>9, <1>10, <1>11, <1>12, <1>13 DEF MergeInv

(* The next item starts a run of its own. *)
LEMMA StartRunStep ==
  ASSUME MergeInv, StartRun
  PROVE  MergeInv'
<1>0. Scanning
  BY DEF StartRun
<1>1. /\ items' = items /\ gap' = gap /\ pc' = pc /\ i' = i + 1
      /\ runs' = Append(runs, RunAt(i)) /\ n' = n
  BY DEF StartRun, n
<1>a. /\ n \in Nat /\ m \in Nat /\ m >= 1 /\ i \in 2 .. n /\ m \in 1 .. m
      /\ runs \in Seq(RunType) /\ Len(runs) = m
      /\ \A k \in 1 .. m : /\ runs[k] \in RunType
                           /\ runs[k].start \in Nat /\ runs[k].start < i
                           /\ runs[k].last \in Nat
      /\ \A x \in 1 .. n : items[x] \in Item
      /\ ItemEnd(m) = i - 1
  BY <1>0, LoopFacts
<1>2. RunAt(i) \in RunType /\ RunAt(i).chunk = items[i].chunk
      /\ RunAt(i).first = items[i].block /\ RunAt(i).last = items[i].block
      /\ RunAt(i).start = i
  <2>1. items[i].block \in Nat /\ items[i].chunk \in Nat
    BY <1>a DEF Item
  <2> QED
    BY <1>a, <2>1 DEF RunType, RunAt
<1>3. /\ runs' \in Seq(RunType) /\ Len(runs') = m + 1 /\ runs'[m + 1] = RunAt(i)
      /\ \A k \in 1 .. m : runs'[k] = runs[k]
  BY <1>a, <1>1, <1>2
<1>4. m' = m + 1
  BY <1>3 DEF m
<1>5. \A k \in 1 .. m : ItemEnd(k)' = ItemEnd(k) /\ ItemsOf(k)' = ItemsOf(k)
  <2> SUFFICES ASSUME NEW k \in 1 .. m
               PROVE  ItemEnd(k)' = ItemEnd(k) /\ ItemsOf(k)' = ItemsOf(k)
    OBVIOUS
  <2>1. CASE k = m
    <3>1. ItemEnd(k)' = runs'[k + 1].start - 1
      BY <1>a, <1>4, <2>1 DEF ItemEnd
    <3>2. ItemEnd(k)' = ItemEnd(k)
      BY <1>a, <1>2, <1>3, <2>1, <3>1
    <3> QED
      BY <1>3, <3>2 DEF ItemsOf
  <2>2. CASE k # m
    <3>1. k < m /\ k < m + 1 /\ k + 1 \in 1 .. m
      BY <1>a, <2>2
    <3>2. ItemEnd(k)' = ItemEnd(k)
      BY <1>3, <1>4, <3>1 DEF ItemEnd
    <3> QED
      BY <1>3, <3>2 DEF ItemsOf
  <2> QED
    BY <2>1, <2>2
<1>6. \A k \in 1 .. m + 1 : k = m + 1 => ItemEnd(k)' = i /\ ItemsOf(k)' = {i}
  <2> SUFFICES ASSUME NEW k \in 1 .. m + 1, k = m + 1
               PROVE  ItemEnd(k)' = i /\ ItemsOf(k)' = {i}
    OBVIOUS
  <2>1. ItemEnd(k)' = i
    BY <1>a, <1>1, <1>4 DEF ItemEnd
  <2> QED
    BY <1>a, <1>2, <1>3, <2>1 DEF ItemsOf
<1>b. \A k \in 1 .. m' : k \in 1 .. m \/ k = m + 1
  BY <1>a, <1>4
<1>c. m' = m + 1 /\ m + 1 \in 1 .. m + 1
  BY <1>a, <1>4
<1>7. MergeTypeOK'
  <2>1. runs' \in Seq([chunk : Nat, first : Nat, last : Nat, start : 1 .. n])
    BY <1>3 DEF RunType
  <2>2. runs' # <<>>
    BY <1>3, <1>a
  <2> QED
    BY <1>a, <1>1, <2>1, <2>2 DEF MergeInv, MergeTypeOK
<1>8. Phase' /\ Ascending'
  BY <1>0, <1>1 DEF MergeInv, Phase, Ascending, Scanning
<1>9. Placed'
  BY <1>0, <1>1, PlacedStep DEF StartRun
<1>10. RunStarts'
  <2>1. /\ m > 0 => runs[1].start = 1
        /\ \A k, l \in 1 .. m : k < l => runs[k].start < runs[l].start
    BY DEF MergeInv, RunStarts
  <2>2. m' > 0 => runs'[1].start = 1
    BY <1>a, <1>3, <2>1
  <2>3. \A k \in 1 .. m' : runs'[k].start < i'
    BY <1>a, <1>b, <1>1, <1>2, <1>3
  <2>4. \A k, l \in 1 .. m' : k < l => runs'[k].start < runs'[l].start
    <3> SUFFICES ASSUME NEW k \in 1 .. m', NEW l \in 1 .. m', k < l
                 PROVE  runs'[k].start < runs'[l].start
      OBVIOUS
    <3>1. k \in 1 .. m
      BY <1>a, <1>c
    <3>2. CASE l = m + 1
      BY <1>a, <1>2, <1>3, <3>1, <3>2
    <3>3. CASE l # m + 1
      BY <1>b, <1>3, <2>1, <3>1, <3>3
    <3> QED
      BY <3>2, <3>3
  <2>5. ~(m' = 0) /\ ~(i' = 1)
    BY <1>a, <1>4, <1>1
  <2> QED
    BY <2>2, <2>3, <2>4, <2>5 DEF RunStarts
<1>11. RunEnds'
  <2> SUFFICES ASSUME NEW k \in 1 .. m'
               PROVE  /\ items[runs'[k].start].block = runs'[k].first
                      /\ items[ItemEnd(k)'].block = runs'[k].last
                      /\ \A x \in ItemsOf(k)' : items[x].chunk = runs'[k].chunk
    BY <1>1 DEF RunEnds
  <2>1. CASE k \in 1 .. m
    <3>1. /\ items[runs[k].start].block = runs[k].first
          /\ items[ItemEnd(k)].block = runs[k].last
          /\ \A x \in ItemsOf(k) : items[x].chunk = runs[k].chunk
      BY <2>1 DEF MergeInv, RunEnds
    <3> QED
      BY <1>3, <1>5, <2>1, <3>1
  <2>2. CASE k = m + 1
    BY <1>2, <1>3, <1>c, <1>6, <2>2
  <2> QED
    BY <1>b, <2>1, <2>2
<1>d. 1 .. i' - 1 = 1 .. i
  BY <1>a, <1>1
<1>12. AllPlaced'
  <2> SUFFICES ASSUME NEW x \in 1 .. i
               PROVE  \E k \in 1 .. m' : x \in ItemsOf(k)'
    BY <1>d DEF AllPlaced
  <2>1. CASE x = i
    <3>1. PICK k \in 1 .. m + 1 : k = m + 1
      BY <1>c
    <3>2. x \in ItemsOf(k)'
      BY <1>6, <2>1, <3>1
    <3> QED
      BY <1>c, <3>2
  <2>2. CASE x # i
    <3>1. x \in 1 .. i - 1
      BY <1>a, <2>2
    <3>2. PICK k \in 1 .. m : x \in ItemsOf(k)
      BY <3>1 DEF MergeInv, AllPlaced
    <3>3. x \in ItemsOf(k)' /\ k \in 1 .. m'
      BY <1>a, <1>c, <1>5, <3>2
    <3> QED
      BY <3>3
  <2> QED
    BY <2>1, <2>2
<1>13. GapRespected'
  <2> SUFFICES ASSUME NEW k \in 1 .. m', NEW x \in ItemsOf(k)', NEW y \in ItemsOf(k)',
                      y = x + 1
               PROVE  items[y].block - items[x].block <= gap + 1
    BY <1>1 DEF GapRespected
  <2>1. CASE k \in 1 .. m
    BY <1>5, <2>1 DEF MergeInv, GapRespected
  <2>2. CASE k = m + 1
    <3>1. x = i /\ y = i /\ i \in Nat
      BY <1>a, <1>c, <1>6, <2>2
    <3> QED
      BY <3>1
  <2> QED
    BY <1>b, <2>1, <2>2
<1> QED
  BY <1>7, <1>8, <1>9, <1>10, <1>11, <1>12, <1>13 DEF MergeInv

(* The loop ends, refuses the list, or nothing happens at all: only pc     *)
(* can change.                                                             *)
LEMMA EndStep ==
  ASSUME MergeInv, OutOfOrder \/ Return \/ UNCHANGED mergeVars
  PROVE  MergeInv'
<1>1. /\ items' = items /\ gap' = gap /\ i' = i /\ runs' = runs /\ n' = n /\ m' = m
  BY DEF OutOfOrder, Return, mergeVars, n, m
<1>2. /\ \A k \in 1 .. m : ItemEnd(k)' = ItemEnd(k)
      /\ \A k \in 1 .. m : ItemsOf(k)' = ItemsOf(k)
  BY <1>1 DEF ItemEnd, ItemsOf
<1>3. Placed' /\ RunStarts' /\ RunEnds' /\ AllPlaced' /\ GapRespected'
  BY <1>1, <1>2 DEF MergeInv, Placed, RunStarts, RunEnds, AllPlaced, GapRespected
<1>4. n \in Nat /\ i \in 1 .. n + 1
  BY DEF MergeInv, MergeTypeOK, n
<1>5. MergeTypeOK' /\ Phase' /\ Ascending'
  <2>1. CASE OutOfOrder
    <3>1. i \in 2 .. n /\ pc = "scan" /\ pc' = "error" /\ ~Before(items[i - 1], items[i])
      BY <1>4, <2>1 DEF OutOfOrder, Scanning, MergeInv, MergeTypeOK
    <3> QED
      BY <1>1, <3>1 DEF MergeInv, MergeTypeOK, Phase, Ascending
  <2>2. CASE Return
    <3>1. i = n + 1 /\ pc = "scan" /\ pc' = "done"
      BY <1>4, <2>2 DEF Return
    <3> QED
      BY <1>1, <3>1 DEF MergeInv, MergeTypeOK, Phase, Ascending
  <2>3. CASE UNCHANGED mergeVars
    BY <1>1, <2>3 DEF MergeInv, MergeTypeOK, Phase, Ascending, mergeVars
  <2> QED
    BY <2>1, <2>2, <2>3
<1> QED
  BY <1>3, <1>5 DEF MergeInv

(* The invariant holds in every reachable state. *)
THEOREM MergeInvariance == MergeSpec => []MergeInv
<1>1. MergeInv /\ [MergeNext]_mergeVars => MergeInv'
  BY SortStep, ExtendStep, StartRunStep, EndStep DEF MergeNext
<1> QED
  BY <1>1, InitMergeInv, PTL DEF MergeSpec

-----------------------------------------------------------------------------
(* What the invariant implies *)

(* The types of the list and the runs, as the lemmas below use them.       *)
LEMMA Shape ==
  ASSUME MergeInv
  PROVE  n \in Nat /\ i \in 1 .. n + 1 /\ m \in Nat /\ Len(runs) = m
         /\ runs \in Seq(RunType)
  BY DEF MergeInv, MergeTypeOK, n, m, RunType

(* The items of a read lie between its first and its last block.           *)
LEMMA CoveredFromInvariant == MergeInv => ItemsCovered
<1> SUFFICES ASSUME MergeInv, NEW k \in 1 .. m, NEW x \in ItemsOf(k)
             PROVE  /\ items[x].chunk = runs[k].chunk
                    /\ ReadStart(k) <= Base + items[x].block * BlockSize
                    /\ Base + (items[x].block + 1) * BlockSize <= ReadEnd(k)
  BY DEF ItemsCovered
<1>1. n \in Nat /\ i \in 1 .. n + 1 /\ m \in Nat /\ Len(runs) = m
      /\ runs \in Seq(RunType)
  BY Shape
<1>2. runs[k] \in RunType
  BY <1>1
<1>3. runs[k].start \in 1 .. n /\ runs[k].first \in Nat /\ runs[k].last \in Nat
  BY <1>2 DEF RunType
<1>4. ItemEnd(k) \in Nat /\ ItemEnd(k) < i /\ ItemEnd(k) <= n
  <2>1. CASE k < m
    <3>1. k + 1 \in 1 .. m
      BY <1>1, <2>1
    <3>2. runs[k + 1] \in RunType
      BY <1>1, <3>1
    <3>3. runs[k + 1].start \in 1 .. n /\ runs[k + 1].start < i
      BY <3>1, <3>2 DEF RunType, MergeInv, RunStarts
    <3> QED
      BY <1>1, <2>1, <3>3 DEF ItemEnd
  <2>2. CASE ~(k < m)
    BY <1>1, <2>2 DEF ItemEnd
  <2> QED
    BY <2>1, <2>2
<1>5. x \in runs[k].start .. ItemEnd(k) /\ x \in 1 .. n /\ x < i
      /\ runs[k].start \in 1 .. n /\ ItemEnd(k) \in 1 .. n
  BY <1>1, <1>3, <1>4 DEF ItemsOf
<1>6. \A y \in 1 .. n : items[y] \in Item
  BY <1>1 DEF MergeInv, MergeTypeOK, n
<1>7. \A y \in 1 .. n : items[y].block \in Nat /\ items[y].chunk \in Nat
  BY <1>6 DEF Item
<1>8. /\ items[runs[k].start].block = runs[k].first
      /\ items[ItemEnd(k)].block = runs[k].last
      /\ \A y \in ItemsOf(k) : items[y].chunk = runs[k].chunk
  BY DEF MergeInv, RunEnds
<1>9. runs[k].start \in ItemsOf(k) /\ ItemEnd(k) \in ItemsOf(k)
  BY <1>5 DEF ItemsOf
<1>10. runs[k].first <= items[x].block
  <2>1. CASE x = runs[k].start
    BY <1>8, <1>7, <1>5, <2>1
  <2>2. CASE runs[k].start < x
    <3>1. Before(items[runs[k].start], items[x])
      BY <1>4, <1>5, <2>2 DEF MergeInv, Placed
    <3>2. items[runs[k].start].chunk = items[x].chunk
      BY <1>8, <1>9
    <3> QED
      BY <1>5, <1>7, <1>8, <3>1, <3>2 DEF Before
  <2> QED
    BY <1>5, <2>1, <2>2
<1>11. items[x].block <= runs[k].last
  <2>1. CASE x = ItemEnd(k)
    BY <1>8, <1>7, <1>5, <2>1
  <2>2. CASE x < ItemEnd(k)
    <3>1. Before(items[x], items[ItemEnd(k)])
      BY <1>4, <1>5, <2>2 DEF MergeInv, Placed
    <3>2. items[ItemEnd(k)].chunk = items[x].chunk
      BY <1>8, <1>9
    <3> QED
      BY <1>5, <1>7, <1>8, <3>1, <3>2 DEF Before
  <2> QED
    BY <1>5, <2>1, <2>2
<1>12. items[x].block \in Nat /\ items[x].block + 1 \in Nat /\ runs[k].last + 1 \in Nat
       /\ items[x].block + 1 <= runs[k].last + 1
  BY <1>3, <1>5, <1>7, <1>11
<1>13. ReadStart(k) <= Base + items[x].block * BlockSize
  <2>1. runs[k].first \in Nat /\ items[x].block \in Nat /\ runs[k].first <= items[x].block
    BY <1>3, <1>10, <1>12
  <2>2. Base + runs[k].first * BlockSize <= Base + items[x].block * BlockSize
    BY <2>1, OffsetsGrow
  <2> QED
    BY <2>2 DEF ReadStart
<1>14. Base + (items[x].block + 1) * BlockSize <= ReadEnd(k)
  <2>1. Base + (items[x].block + 1) * BlockSize <= Base + (runs[k].last + 1) * BlockSize
    BY <1>12, OffsetsGrow
  <2> QED
    BY <2>1 DEF ReadEnd
<1>15. items[x].chunk = runs[k].chunk
  BY <1>8
<1> QED
  BY <1>13, <1>14, <1>15

(* The reads of one chunk follow each other without sharing a byte.        *)
LEMMA DisjointFromInvariant == MergeInv => ReadsDisjoint
<1> SUFFICES ASSUME MergeInv, NEW k \in 1 .. m, NEW l \in 1 .. m, k < l,
                    runs[k].chunk = runs[l].chunk
             PROVE  ReadEnd(k) <= ReadStart(l)
  BY DEF ReadsDisjoint
<1>1. n \in Nat /\ i \in 1 .. n + 1 /\ m \in Nat /\ Len(runs) = m
      /\ runs \in Seq(RunType)
  BY Shape
<1>2. \A q \in 1 .. m : runs[q] \in RunType
  BY <1>1
<1>3. \A q \in 1 .. m : /\ runs[q].start \in 1 .. n /\ runs[q].start < i
                        /\ runs[q].first \in Nat /\ runs[q].last \in Nat
  BY <1>2 DEF RunType, MergeInv, RunStarts
<1>4. k + 1 \in 1 .. m /\ k < m
  BY <1>1
<1>5. runs[k].start < runs[k + 1].start
  BY <1>1, <1>4 DEF MergeInv, RunStarts
<1>6. runs[k + 1].start <= runs[l].start
  <2>1. CASE l = k + 1
    BY <1>3, <2>1
  <2>2. CASE k + 1 < l
    BY <1>3, <1>4, <2>2 DEF MergeInv, RunStarts
  <2> QED
    BY <1>1, <2>1, <2>2
<1>7. ItemEnd(k) = runs[k + 1].start - 1
  BY <1>4 DEF ItemEnd
<1>8. ItemEnd(k) \in 1 .. n /\ ItemEnd(k) < runs[l].start /\ ItemEnd(k) \in ItemsOf(k)
  BY <1>1, <1>3, <1>4, <1>5, <1>6, <1>7 DEF ItemsOf
<1>9. Before(items[ItemEnd(k)], items[runs[l].start])
  BY <1>3, <1>8 DEF MergeInv, Placed
<1>10. runs[l].start \in ItemsOf(l)
  <2>1. CASE l < m
    <3>1. l + 1 \in 1 .. m
      BY <1>1, <2>1
    <3>2. runs[l].start < runs[l + 1].start
      BY <1>1, <3>1 DEF MergeInv, RunStarts
    <3>3. ItemEnd(l) = runs[l + 1].start - 1
      BY <2>1 DEF ItemEnd
    <3>4. runs[l].start \in Nat /\ runs[l + 1].start \in Nat
      BY <1>3, <3>1
    <3> QED
      BY <3>2, <3>3, <3>4 DEF ItemsOf
  <2>2. CASE ~(l < m)
    BY <1>1, <1>3, <2>2 DEF ItemsOf, ItemEnd
  <2> QED
    BY <2>1, <2>2
<1>11. /\ items[ItemEnd(k)].block = runs[k].last
       /\ items[ItemEnd(k)].chunk = runs[k].chunk
       /\ items[runs[l].start].block = runs[l].first
       /\ items[runs[l].start].chunk = runs[l].chunk
  BY <1>8, <1>10 DEF MergeInv, RunEnds
<1>12. items[ItemEnd(k)].chunk \in Nat
  <2>1. items[ItemEnd(k)] \in Item
    BY <1>1, <1>8 DEF MergeInv, MergeTypeOK, n
  <2> QED
    BY <2>1 DEF Item
<1>13. runs[k].last < runs[l].first
  BY <1>9, <1>11, <1>12 DEF Before
<1>14. runs[k].last + 1 <= runs[l].first /\ runs[k].last + 1 \in Nat
  BY <1>3, <1>13
<1>15. Base + (runs[k].last + 1) * BlockSize <= Base + runs[l].first * BlockSize
  BY <1>3, <1>14, OffsetsGrow
<1> QED
  BY <1>15 DEF ReadStart, ReadEnd

(* Every placed item is in one read and in no other. *)
LEMMA PartitionFromInvariant == MergeInv => ItemsPartitioned
<1> SUFFICES ASSUME MergeInv PROVE ItemsPartitioned
  OBVIOUS
<1>1. n \in Nat /\ i \in 1 .. n + 1 /\ m \in Nat /\ Len(runs) = m
      /\ runs \in Seq(RunType)
  BY Shape
<1>2. \A q \in 1 .. m : runs[q].start \in 1 .. n
  <2>1. \A q \in 1 .. m : runs[q] \in RunType
    BY <1>1
  <2> QED
    BY <2>1 DEF RunType
<1>3. ASSUME NEW k \in 1 .. m, NEW l \in 1 .. m, k < l
      PROVE  ItemsOf(k) \cap ItemsOf(l) = {}
  <2>1. k + 1 \in 1 .. m /\ k < m
    BY <1>1, <1>3
  <2>2. runs[k + 1].start <= runs[l].start
    <3>1. CASE l = k + 1
      BY <1>2, <3>1
    <3>2. CASE k + 1 < l
      BY <1>2, <2>1, <3>2 DEF MergeInv, RunStarts
    <3> QED
      BY <1>1, <1>3, <3>1, <3>2
  <2>3. ItemEnd(k) = runs[k + 1].start - 1
    BY <2>1 DEF ItemEnd
  <2>4. ItemEnd(k) < runs[l].start /\ ItemEnd(k) \in Nat /\ runs[l].start \in Nat
        /\ runs[k].start \in Nat
    BY <1>2, <2>1, <2>2, <2>3
  <2>5. \A x \in ItemsOf(k) : x \in Nat /\ x <= ItemEnd(k)
    BY <2>4 DEF ItemsOf
  <2>6. \A x \in ItemsOf(l) : runs[l].start <= x
    BY <2>4 DEF ItemsOf
  <2> QED
    BY <2>4, <2>5, <2>6
<1>4. \A k, l \in 1 .. m : k # l => ItemsOf(k) \cap ItemsOf(l) = {}
  <2> SUFFICES ASSUME NEW k \in 1 .. m, NEW l \in 1 .. m, k # l
               PROVE  ItemsOf(k) \cap ItemsOf(l) = {}
    OBVIOUS
  <2>1. k < l \/ l < k
    BY <1>1
  <2> QED
    BY <1>3, <2>1
<1> QED
  BY <1>4 DEF MergeInv, AllPlaced, Phase, ItemsPartitioned

(* A refused list repeats an item, and an accepted one does not. *)
LEMMA RepeatsFromInvariant == MergeInv => OnlyRepeatsFail
<1> SUFFICES ASSUME MergeInv PROVE OnlyRepeatsFail
  OBVIOUS
<1>1. n \in Nat /\ i \in Nat /\ \A x \in 1 .. n : items[x] \in Item
  BY DEF MergeInv, MergeTypeOK, n
<1>2. ASSUME pc = "error" PROVE Repeats
  <2>1. i \in 2 .. n /\ ~Before(items[i - 1], items[i])
    BY <1>2 DEF MergeInv, Phase
  <2>2. i - 1 \in 1 .. n - 1 /\ i - 1 \in 1 .. n /\ i \in 1 .. n /\ (i - 1) + 1 = i
    BY <1>1, <2>1
  <2>3. ~Before(items[(i - 1) + 1], items[i - 1])
    BY <1>2, <2>2 DEF MergeInv, Ascending
  <2>4. items[i - 1] = items[i]
    BY <1>1, <2>1, <2>2, <2>3, BeforeIsAnOrder
  <2> QED
    BY <1>1, <2>2, <2>4 DEF Repeats
<1>3. ASSUME pc = "done" PROVE ~Repeats
  <2>1. i = n + 1
    BY <1>3 DEF MergeInv, Phase
  <2>2. ASSUME NEW x \in 1 .. n, NEW y \in 1 .. n, x < y
        PROVE  items[x] # items[y]
    <3>1. Before(items[x], items[y])
      BY <1>1, <2>1, <2>2 DEF MergeInv, Placed
    <3> QED
      BY <1>1, <3>1, BeforeIsAnOrder
  <2>3. \A x, y \in 1 .. n : x # y => x < y \/ y < x
    BY <1>1
  <2> QED
    BY <2>2, <2>3 DEF Repeats
<1> QED
  BY <1>2, <1>3 DEF OnlyRepeatsFail

(* A run starts at its first item. *)
LEMMA StartIsItem ==
  ASSUME MergeInv, NEW l \in 1 .. m
  PROVE  /\ runs[l].start \in 1 .. n /\ runs[l].start < i
         /\ runs[l].first \in Nat /\ runs[l].last \in Nat /\ runs[l].chunk \in Nat
         /\ items[runs[l].start].block = runs[l].first
         /\ items[runs[l].start].chunk = runs[l].chunk
<1>1. n \in Nat /\ i \in 1 .. n + 1 /\ m \in Nat /\ Len(runs) = m
      /\ runs \in Seq(RunType)
  BY Shape
<1>2. \A q \in 1 .. m : runs[q] \in RunType
  BY <1>1
<1>3. \A q \in 1 .. m : runs[q].start \in 1 .. n /\ runs[q].start < i
  BY <1>2 DEF RunType, MergeInv, RunStarts
<1>4. runs[l].start \in ItemsOf(l)
  <2>1. CASE l < m
    <3>1. l + 1 \in 1 .. m
      BY <1>1, <2>1
    <3>2. runs[l].start < runs[l + 1].start
      BY <1>1, <3>1 DEF MergeInv, RunStarts
    <3>3. ItemEnd(l) = runs[l + 1].start - 1
      BY <2>1 DEF ItemEnd
    <3> QED
      BY <1>3, <3>1, <3>2, <3>3 DEF ItemsOf
  <2>2. CASE ~(l < m)
    BY <1>1, <1>3, <2>2 DEF ItemsOf, ItemEnd
  <2> QED
    BY <2>1, <2>2
<1>5. runs[l].first \in Nat /\ runs[l].last \in Nat /\ runs[l].chunk \in Nat
  BY <1>2 DEF RunType
<1> QED
  BY <1>3, <1>4, <1>5 DEF MergeInv, RunEnds

-----------------------------------------------------------------------------
(* Merging, where no sum of the join test wraps around *)

NoWrap ==
  \A s \in Inputs : \A x \in 1 .. Len(s) : \A g \in Gaps : s[x].block + g + 1 < WordSize

BlocksFit == \A x \in 1 .. n : \A g \in Gaps : items[x].block + g + 1 < WordSize

(* A run starts farther than the gap from the one before. *)
Split(k) == runs[k].chunk = runs[k + 1].chunk => runs[k + 1].first > runs[k].last + gap + 1
FarApart == \A k \in 1 .. m - 1 : Split(k)

(* Sorting brings no block into the list. *)
LEMMA SortKeepsBlocks ==
  ASSUME MergeInv, BlocksFit, Sort
  PROVE  BlocksFit'
<1>1. CASE StrictlyIncreasing(items)
  BY <1>1 DEF Sort, BlocksFit, n
<1>2. CASE ~StrictlyIncreasing(items)
  <2>1. PICK p \in Bijection(1 .. n, 1 .. n) : items' = Arranged(items, p)
    BY <1>2 DEF Sort, LexSort, n
  <2>2. p \in [1 .. n -> 1 .. n]
    BY <2>1 DEF Bijection, Injection
  <2>3. n' = n /\ \A x \in 1 .. n : items'[x] = items[p[x]] /\ p[x] \in 1 .. n
    BY <1>2, <2>1, <2>2, SortAscends DEF Sort, MergeInv, MergeTypeOK, n, Arranged
  <2> QED
    BY <2>3 DEF BlocksFit
<1> QED
  BY <1>1, <1>2

LEMMA FarApartStep ==
  ASSUME MergeInv, BlocksFit, FarApart, [MergeNext]_mergeVars
  PROVE  BlocksFit' /\ FarApart'
<1>1. CASE Sort
  <2>1. runs' = <<>> \/ runs' = <<RunAt(1)'>>
    BY <1>1 DEF Sort, Open, MergeInv, Phase
  <2>2. m' - 1 = 0 \/ m' - 1 = -1
    BY <2>1 DEF m
  <2>3. FarApart'
    BY <2>2 DEF FarApart
  <2> QED
    BY <1>1, <2>3, SortKeepsBlocks
<1>2. CASE Extend
  <2>1. /\ m \in Nat /\ m >= 1 /\ runs \in Seq(RunType) /\ Len(runs) = m
        /\ runs[m] \in RunType
    BY <1>2, LoopFacts DEF Extend
  <2>2. items' = items /\ gap' = gap /\ m' = m /\ n' = n
        /\ runs' = [runs EXCEPT ![m].last = items[i].block]
    BY <1>2, <2>1 DEF Extend, m, n
  <2>3. \A k \in 1 .. m : /\ runs'[k].chunk = runs[k].chunk /\ runs'[k].first = runs[k].first
                          /\ k < m => runs'[k].last = runs[k].last
    BY <2>1, <2>2 DEF RunType
  <2>4. \A k \in 1 .. m - 1 : Split(k)'
    BY <2>1, <2>2, <2>3 DEF Split, FarApart
  <2> QED
    BY <2>2, <2>4 DEF FarApart, BlocksFit
<1>3. CASE StartRun
  <2>1. /\ m \in Nat /\ m >= 1 /\ runs \in Seq(RunType) /\ Len(runs) = m
        /\ \A k \in 1 .. m : runs[k] \in RunType /\ runs[k].last \in Nat
        /\ i \in 2 .. n /\ n \in Nat /\ items[i] \in Item
        /\ ItemEnd(m) = i - 1
    BY <1>3, LoopFacts DEF StartRun
  <2>2. items' = items /\ gap' = gap /\ n' = n /\ gap \in Gaps /\ gap \in Nat
        /\ m' = m + 1 /\ runs'[m + 1] = RunAt(i)
        /\ \A k \in 1 .. m : runs'[k] = runs[k]
    BY <1>3, <2>1, GapsAssumption DEF StartRun, m, n, MergeInv, MergeTypeOK
  <2>3. ASSUME NEW k \in 1 .. m, k < m
        PROVE  Split(k)'
    <3>1. k + 1 \in 1 .. m /\ k \in 1 .. m - 1
      BY <2>1, <2>3
    <3> QED
      BY <2>2, <3>1 DEF FarApart, Split
  <2>4. ASSUME runs[m].chunk = items[i].chunk
        PROVE  items[i].block > runs[m].last + gap + 1
    <3>1. items[i - 1].block = runs[m].last /\ i - 1 \in 1 .. n
      BY <2>1 DEF MergeInv, RunEnds
    <3>2. runs[m].last + gap + 1 < WordSize
      BY <2>2, <3>1 DEF BlocksFit
    <3>3. (runs[m].last + gap + 1) % WordSize = runs[m].last + gap + 1
      <4> DEFINE s == runs[m].last + gap + 1
      <4>1. s \in Nat /\ s < WordSize /\ WordSize \in Nat
        BY <2>1, <2>2, <3>2, LayoutAssumption
      <4> HIDE DEF s
      <4>2. s % WordSize = s
        BY <4>1
      <4> QED
        BY <4>2 DEF s
    <3>4. ~(items[i].block <= runs[m].last + gap + 1)
      BY <1>3, <2>4, <3>3 DEF StartRun, Joins
    <3> QED
      BY <2>1, <2>2, <3>4 DEF Item
  <2>5. ASSUME NEW k \in 1 .. m, k = m
        PROVE  Split(k)'
    <3>1. /\ runs'[k] = runs[m] /\ runs'[k + 1].chunk = items[i].chunk
          /\ runs'[k + 1].first = items[i].block
      BY <2>1, <2>2, <2>5 DEF RunAt
    <3> QED
      BY <2>2, <2>4, <3>1 DEF Split
  <2>6. FarApart'
    <3> SUFFICES ASSUME NEW k \in 1 .. m PROVE Split(k)'
      BY <2>1, <2>2 DEF FarApart
    <3> QED
      BY <2>1, <2>3, <2>5
  <2> QED
    BY <2>2, <2>6 DEF BlocksFit
<1>4. CASE OutOfOrder \/ Return \/ UNCHANGED mergeVars
  BY <1>4 DEF OutOfOrder, Return, mergeVars, BlocksFit, FarApart, Split, m, n
<1> QED
  BY <1>1, <1>2, <1>3, <1>4 DEF MergeNext

(* Between two runs of a chunk lie runs of that chunk only. *)
LEMMA MergedFromInvariant == MergeInv /\ FarApart => MergedAsAllowed
<1> SUFFICES ASSUME MergeInv, FarApart, NEW k \in 1 .. m, NEW l \in 1 .. m, k < l,
                    runs[k].chunk = runs[l].chunk
             PROVE  runs[l].first - runs[k].last - 1 > gap
  BY DEF MergedAsAllowed, ReadsMerged, MergeInv
<1>1. m \in Nat /\ k + 1 \in 1 .. m /\ k \in 1 .. m - 1 /\ gap \in Nat
  <2>1. m \in Nat
    BY Shape
  <2>2. gap \in Nat
    BY GapsAssumption DEF MergeInv, MergeTypeOK
  <2> QED
    BY <2>1, <2>2
<1>2. /\ runs[k].last \in Nat /\ runs[l].first \in Nat /\ runs[k + 1].first \in Nat
      /\ runs[k].chunk \in Nat /\ runs[k + 1].chunk \in Nat
  BY <1>1, StartIsItem
<1>3. l = k + 1 \/ (k + 1 < l /\ Before(items[runs[k].start], items[runs[k + 1].start])
                              /\ Before(items[runs[k + 1].start], items[runs[l].start]))
  <2>1. ASSUME NEW a \in 1 .. m, NEW b \in 1 .. m, a < b
        PROVE  Before(items[runs[a].start], items[runs[b].start])
    <3>1. runs[a].start < runs[b].start
      BY <2>1 DEF MergeInv, RunStarts
    <3> QED
      BY <3>1, StartIsItem DEF MergeInv, Placed
  <2> QED
    BY <1>1, <2>1
<1>4. runs[k + 1].chunk = runs[k].chunk /\ runs[k + 1].first <= runs[l].first
  <2>1. CASE l = k + 1
    BY <1>2, <2>1
  <2>2. CASE l # k + 1
    BY <1>1, <1>2, <1>3, <2>2, StartIsItem DEF Before
  <2> QED
    BY <2>1, <2>2
<1>5. runs[k + 1].first > runs[k].last + gap + 1
  BY <1>1, <1>4 DEF FarApart, Split
<1> QED
  BY <1>1, <1>2, <1>4, <1>5

-----------------------------------------------------------------------------
(* The theorems *)

(* The loop variable stays in the list and a run is open while it runs.    *)
THEOREM MergeTypeCorrect == MergeSpec => []MergeTypeOK
<1>1. MergeInv => MergeTypeOK
  BY DEF MergeInv
<1> QED
  BY <1>1, MergeInvariance, PTL

(* Every listed block lies in the bytes of the read that holds it.         *)
THEOREM ItemsAlwaysCovered == MergeSpec => []ItemsCovered
  BY MergeInvariance, CoveredFromInvariant, PTL

(* No block is left out and none belongs to two reads.                     *)
THEOREM ItemsAlwaysPartitioned == MergeSpec => []ItemsPartitioned
  BY MergeInvariance, PartitionFromInvariant, PTL

(* No byte is downloaded twice, even when the join test wraps around.      *)
THEOREM ReadsAlwaysDisjoint == MergeSpec => []ReadsDisjoint
  BY MergeInvariance, DisjointFromInvariant, PTL

(* No read skips more blocks in a row than merge_gap_blocks allows, even   *)
(* when the join test wraps around.                                        *)
THEOREM GapAlwaysRespected == MergeSpec => []GapRespected
<1>1. MergeInv => GapRespected
  BY DEF MergeInv
<1> QED
  BY <1>1, MergeInvariance, PTL

(* The merge refuses exactly the lists that name a block twice.            *)
THEOREM OnlyRepeatsEverFail == MergeSpec => []OnlyRepeatsFail
  BY MergeInvariance, RepeatsFromInvariant, PTL

(* Reads are merged over every gap that is allowed and over no other,      *)
(* unless the join test wraps around.                                      *)
THEOREM MergedAlwaysAsAllowed == NoWrap /\ MergeSpec => []MergedAsAllowed
<1>1. NoWrap /\ MergeInit => BlocksFit /\ FarApart
  BY DEF NoWrap, MergeInit, BlocksFit, FarApart, n, m
<1>2. NoWrap /\ MergeSpec => [](BlocksFit /\ FarApart)
  BY <1>1, FarApartStep, MergeInvariance, PTL DEF MergeSpec
<1> QED
  BY <1>2, MergeInvariance, MergedFromInvariant, PTL

-----------------------------------------------------------------------------
(* Counting bytes *)

(* The bytes of one read are as many as its size. *)
LEMMA BytesOfOneRead ==
  ASSUME NEW r \in Reads
  PROVE  IsFiniteSet(BytesOf(r)) /\ Cardinality(BytesOf(r)) = Size[r]
<1> DEFINE size == Size[r]
           f == [k \in 1 .. size |-> <<r, k>>]
<1>1. size \in Nat
  BY ReadsAssumption
<1>2. f \in Bijection(1 .. size, BytesOf(r))
  BY DEF BytesOf, Bijection, Injection, IsInjective, Surjection
<1>3. ExistsBijection(1 .. size, BytesOf(r))
  BY <1>2 DEF ExistsBijection
<1>4. IsFiniteSet(1 .. size) /\ Cardinality(1 .. size) = size
  BY <1>1, FS_Interval
<1> QED
  BY <1>3, <1>4, FS_Bijection

(* No read, no bytes; and as every read asks for bytes, no bytes, no read. *)
LEMMA BytesOfNone ==
  /\ IsFiniteSet(Bytes({}))
  /\ Cardinality(Bytes({})) = 0
  /\ \A S \in SUBSET Reads :
       IsFiniteSet(Bytes(S)) /\ Cardinality(Bytes(S)) = 0 => S = {}
<1>1. Bytes({}) = {}
  BY DEF Bytes
<1>2. ASSUME NEW S \in SUBSET Reads, Bytes(S) = {}
      PROVE  S = {}
  <2>1. ASSUME NEW r \in S
        PROVE  FALSE
    <3>1. <<r, 1>> \in BytesOf(r)
      BY ReadsAssumption DEF BytesOf
    <3>2. <<r, 1>> \in Bytes(S)
      BY <3>1 DEF Bytes
    <3> QED
      BY <1>2, <3>2
  <2> QED
    BY <2>1
<1> QED
  BY <1>1, <1>2, FS_EmptySet

(* A read that joins a set of reads adds exactly its size. *)
LEMMA BytesAdd ==
  ASSUME NEW S \in SUBSET Reads, NEW r \in Reads, r \notin S,
         IsFiniteSet(Bytes(S))
  PROVE  /\ IsFiniteSet(Bytes(S \cup {r}))
         /\ Cardinality(Bytes(S \cup {r})) = Cardinality(Bytes(S)) + Size[r]
<1>1. Bytes(S \cup {r}) = Bytes(S) \cup BytesOf(r)
  BY DEF Bytes
<1>2. Bytes(S) \cap BytesOf(r) = {}
  BY DEF Bytes, BytesOf
<1>3. Cardinality(Bytes(S)) \in Nat
  BY FS_CardinalityType
<1>4. Size[r] \in Nat /\ IsFiniteSet(BytesOf(r)) /\ Cardinality(BytesOf(r)) = Size[r]
  BY ReadsAssumption, BytesOfOneRead
<1>5. /\ IsFiniteSet(Bytes(S) \cup BytesOf(r))
      /\ Cardinality(Bytes(S) \cup BytesOf(r)) =
           Cardinality(Bytes(S)) + Cardinality(BytesOf(r))
             - Cardinality(Bytes(S) \cap BytesOf(r))
  BY <1>4, FS_Union
<1>6. Cardinality(Bytes(S) \cap BytesOf(r)) = 0
  BY <1>2, FS_EmptySet
<1>7. Cardinality(Bytes(S) \cup BytesOf(r)) = Cardinality(Bytes(S)) + Size[r]
  BY <1>3, <1>4, <1>5, <1>6
<1> QED
  BY <1>1, <1>5, <1>7, Zenon

(* A read that leaves takes exactly its size away. *)
LEMMA BytesRemove ==
  ASSUME NEW S \in SUBSET Reads, NEW r \in S, IsFiniteSet(Bytes(S))
  PROVE  /\ IsFiniteSet(Bytes(S \ {r}))
         /\ Cardinality(Bytes(S)) = Cardinality(Bytes(S \ {r})) + Size[r]
<1> DEFINE T == S \ {r}
<1>1. T \in SUBSET Reads /\ r \in Reads /\ r \notin T /\ T \cup {r} = S
  OBVIOUS
<1>2. Bytes(T) \in SUBSET Bytes(S)
  BY DEF Bytes
<1>3. IsFiniteSet(Bytes(T))
  BY <1>2, FS_Subset
<1> HIDE DEF T
<1>4. Cardinality(Bytes(T \cup {r})) = Cardinality(Bytes(T)) + Size[r]
  BY <1>1, <1>3, BytesAdd
<1> QED
  BY <1>1, <1>3, <1>4 DEF T

-----------------------------------------------------------------------------
(* The tasks *)

(* No task of a read exists before its object is planned, so that planning *)
(* an object never restarts a read that holds bytes.                       *)
ReadsAfterPlan ==
  \A r \in Reads :
    ost[Owner[r]] \in {"queued", "fetching", "planning"} => rst[r] = "none"

TasksInv == TypeOK /\ ReadsAfterPlan

LEMMA InitTasks == Init => TasksInv
BY DEF Init, TasksInv, TypeOK, ReadsAfterPlan, ObjectStates, ReadStates

-----------------------------------------------------------------------------
(* What a step does to the budget *)

(* The three ways a step can treat the budget: it leaves it alone, ending  *)
(* at most one read that holds nothing and putting only reads to sleep     *)
(* that cannot be let in; it admits a read; or a read that holds bytes     *)
(* gives them back.                                                        *)
Leaves ==
  /\ Gone' = Gone \/ \E r \in Reads : r \notin Holding \cup Gone /\ Gone' = Gone \cup {r}
  /\ used' = used /\ peak' = peak /\ Holding' = Holding
  /\ \A r \in Reads : rst'[r] = "waiting" => rst[r] = "waiting" \/ ~CanHold(r)

Admits(r) ==
  /\ r \notin Holding \cup Gone /\ CanHold(r)
  /\ Gone' = Gone
  /\ Holding' = Holding \cup {r}
  /\ used' = used + Size[r]
  /\ peak' = Larger(peak, used + Size[r])
  /\ \A x \in Reads : rst'[x] = "waiting" => rst[x] = "waiting"

GivesBack(r) ==
  /\ r \in Holding
  /\ Gone' = Gone \cup {r}
  /\ Holding' = Holding \ {r}
  /\ used' = used - Size[r]
  /\ peak' = peak
  /\ \A x \in Reads : rst'[x] # "waiting"

LEMMA ReleaseGivesBack ==
  ASSUME TypeOK, NEW r \in Reads, rst[r] \in HoldStates,
         NEW outcome \in Over, Release(r, outcome)
  PROVE  GivesBack(r)
<1>1. /\ \A x \in Reads : rst'[x] = IF x = r THEN outcome
                                    ELSE IF rst[x] = "waiting" THEN "notified"
                                    ELSE rst[x]
      /\ used' = used - Size[r] /\ peak' = peak
  BY DEF Release
<1> QED
  BY <1>1 DEF TypeOK, GivesBack, Holding, HoldStates, Gone, Over

(* Every step treats the budget in one of the three ways. *)
LEMMA BudgetStep ==
  ASSUME TasksInv, [Next]_vars
  PROVE  Leaves \/ \E r \in Reads : Admits(r) \/ GivesBack(r)
<1> USE DEF TasksInv, TypeOK, Holding, HoldStates, Gone, Over
<1>1. ASSUME NEW o \in Objects, ObjectStep(o)
      PROVE  Leaves
  <2>1. CASE FetchObject(o) \/ ObjectArrives(o) \/ EndObject(o) \/ UnwindObject(o)
    BY <2>1 DEF FetchObject, ObjectArrives, EndObject, UnwindObject, Leaves
  <2>2. CASE PlanObject(o)
    <3>1. CASE UNCHANGED rst
      BY <2>2, <3>1 DEF PlanObject, Leaves
    <3>2. CASE rst' = [r \in Reads |-> IF r \in ReadsOf(o) THEN "start" ELSE rst[r]]
      <4>1. \A r \in ReadsOf(o) : rst[r] = "none"
        BY <2>2 DEF PlanObject, ObjectGoes, ReadsAfterPlan, ReadsOf
      <4> QED
        BY <2>2, <3>2, <4>1 DEF PlanObject, Leaves
    <3> QED
      BY <2>2, <3>1, <3>2 DEF PlanObject
  <2> QED
    BY <1>1, <2>1, <2>2 DEF ObjectStep
<1>2. ASSUME NEW r \in Reads, ReadStep(r)
      PROVE  Leaves \/ Admits(r) \/ GivesBack(r)
  <2>1. CASE Acquire(r)
    <3>1. CASE CanHold(r)
      BY <2>1, <3>1 DEF Acquire, ReadGoes, Admit, Admits
    <3>2. CASE ~CanHold(r)
      BY <2>1, <3>2 DEF Acquire, ReadGoes, Leaves
    <3> QED
      BY <3>1, <3>2
  <2>2. CASE FetchRange(r) \/ RangeArrives(r)
    BY <2>2 DEF FetchRange, RangeArrives, ReadGoes, Leaves
  <2>3. CASE RangeFails(r)
    BY <2>3, ReleaseGivesBack DEF RangeFails, ReadGoes, Over
  <2>4. CASE Resume(r)
    BY <2>4, ReleaseGivesBack DEF Resume, ReadGoes, Over
  <2>5. CASE UnwindRead(r)
    <3>1. CASE rst[r] \in {"start", "waiting", "notified"}
      BY <2>5, <3>1 DEF UnwindRead, Leaves
    <3>2. CASE rst[r] \in HoldStates
      BY <2>5, <3>2, ReleaseGivesBack DEF UnwindRead, Over
    <3> QED
      BY <2>5, <3>1, <3>2 DEF UnwindRead
  <2> QED
    BY <1>2, <2>1, <2>2, <2>3, <2>4, <2>5 DEF ReadStep
<1>3. ASSUME NEW r \in Reads, PoolStep(r)
      PROVE  Leaves
  BY <1>3 DEF PoolStep, Decode, DecodeEnds, Leaves
<1>4. CASE EndQuery \/ Cancel \/ Finished
  BY <1>4 DEF EndQuery, Cancel, Finished, vars, Leaves
<1>5. CASE UNCHANGED vars
  BY <1>5 DEF vars, Leaves
<1> QED
  BY <1>1, <1>2, <1>3, <1>4, <1>5 DEF Next

-----------------------------------------------------------------------------
(* Type correctness *)

LEMMA TypeStep ==
  ASSUME TypeOK, [Next]_vars, used' \in Nat
  PROVE  TypeOK'
<1> USE DEF TypeOK, ObjectStates, ReadStates
<1>1. ASSUME NEW o \in Objects, ObjectStep(o)
      PROVE  TypeOK'
  BY <1>1 DEF ObjectStep, FetchObject, ObjectArrives, PlanObject, EndObject,
              UnwindObject
<1>2. ASSUME NEW r \in Reads, ReadStep(r)
      PROVE  TypeOK'
  <2>1. CASE Acquire(r)
    BY <2>1, ReadsAssumption DEF Acquire, Admit, Larger
  <2>2. CASE FetchRange(r) \/ RangeArrives(r)
    BY <2>2 DEF FetchRange, RangeArrives
  <2>3. CASE RangeFails(r) \/ Resume(r) \/ UnwindRead(r)
    BY <2>3 DEF RangeFails, Resume, UnwindRead, Release
  <2> QED
    BY <1>2, <2>1, <2>2, <2>3 DEF ReadStep
<1>3. ASSUME NEW r \in Reads, PoolStep(r)
      PROVE  TypeOK'
  BY <1>3 DEF PoolStep, Decode, DecodeEnds
<1>4. CASE EndQuery
  BY <1>4 DEF EndQuery
<1>5. CASE Cancel
  BY <1>5 DEF Cancel
<1>6. CASE UNCHANGED vars
  BY <1>6 DEF vars
<1> QED
  BY <1>1, <1>2, <1>3, <1>4, <1>5, <1>6 DEF Next, Finished

LEMMA PlanStep ==
  ASSUME TasksInv, [Next]_vars
  PROVE  ReadsAfterPlan'
<1> USE DEF TasksInv, TypeOK, ReadsAfterPlan, HoldStates
<1>1. ASSUME NEW o \in Objects, ObjectStep(o)
      PROVE  ReadsAfterPlan'
  BY <1>1, ObjectsAssumption DEF ObjectStep, FetchObject, ObjectArrives,
       PlanObject, EndObject, UnwindObject, ObjectGoes, ReadsOf, Over
<1>2. ASSUME NEW r \in Reads, ReadStep(r)
      PROVE  ReadsAfterPlan'
  <2>1. CASE Acquire(r) \/ FetchRange(r) \/ RangeArrives(r)
    BY <2>1 DEF Acquire, Admit, FetchRange, RangeArrives, ReadGoes
  <2>2. CASE RangeFails(r) \/ Resume(r) \/ UnwindRead(r)
    BY <2>2 DEF RangeFails, Resume, UnwindRead, Release, ReadGoes
  <2> QED
    BY <1>2, <2>1, <2>2 DEF ReadStep
<1>3. ASSUME NEW r \in Reads, PoolStep(r)
      PROVE  ReadsAfterPlan'
  BY <1>3 DEF PoolStep, Decode, DecodeEnds
<1>4. CASE EndQuery \/ Cancel \/ Finished \/ UNCHANGED vars
  BY <1>4 DEF EndQuery, Cancel, Finished, vars
<1> QED
  BY <1>1, <1>2, <1>3, <1>4 DEF Next

-----------------------------------------------------------------------------
(* The inductive invariant *)

(* Balanced books say what used is, so every bound on used is a bound on   *)
(* the bytes held; the limit and the peak then follow from the predicate   *)
(* under which a read is admitted, and a sleeping read stays too large     *)
(* because used only shrinks in a step that wakes every sleeper.           *)
Books == IsFiniteSet(Bytes(Holding)) /\ BooksBalance
IInv == TasksInv /\ Books /\ LimitHolds /\ PeakBound /\ NoLostWakeup

LEMMA BooksStep ==
  ASSUME TasksInv, Books, [Next]_vars
  PROVE  Books'
<1> USE DEF Books, BooksBalance, HeldBytes, ByteCount
<1>1. Holding \in SUBSET Reads
  BY DEF Holding
<1>2. CASE Leaves
  BY <1>2 DEF Leaves, Bytes, BytesOf
<1>3. ASSUME NEW r \in Reads, Admits(r)
      PROVE  Books'
  BY <1>1, <1>3, BytesAdd DEF Admits
<1>4. ASSUME NEW r \in Reads, GivesBack(r)
      PROVE  Books'
  <2>1. /\ IsFiniteSet(Bytes(Holding \ {r}))
        /\ Cardinality(Bytes(Holding)) = Cardinality(Bytes(Holding \ {r})) + Size[r]
    BY <1>1, <1>4, BytesRemove DEF GivesBack
  <2>2. Cardinality(Bytes(Holding \ {r})) \in Nat /\ Size[r] \in Nat
    BY <2>1, FS_CardinalityType, ReadsAssumption
  <2>3. used - Size[r] = Cardinality(Bytes(Holding \ {r}))
    BY <2>1, <2>2
  <2>4. Holding' = Holding \ {r} /\ used' = used - Size[r]
    BY <1>4 DEF GivesBack
  <2> QED
    BY <2>1, <2>3, <2>4
<1> QED
  BY <1>2, <1>3, <1>4, BudgetStep

LEMMA BudgetFacts ==
  ASSUME TasksInv, Books
  PROVE  /\ used = 0 <=> Holding = {}
         /\ \A r \in Holding : Size[r] \in Nat /\ Size[r] > 0 /\ Size[r] <= used
<1> USE DEF Books, BooksBalance, HeldBytes, ByteCount
<1>1. Holding \in SUBSET Reads
  BY DEF Holding
<1>2. used = 0 <=> Holding = {}
  BY <1>1, BytesOfNone
<1>3. ASSUME NEW r \in Holding
      PROVE  Size[r] \in Nat /\ Size[r] > 0 /\ Size[r] <= used
  <2>1. /\ IsFiniteSet(Bytes(Holding \ {r}))
        /\ Cardinality(Bytes(Holding)) = Cardinality(Bytes(Holding \ {r})) + Size[r]
    BY <1>1, BytesRemove
  <2>2. Cardinality(Bytes(Holding \ {r})) \in Nat
    BY <2>1, FS_CardinalityType
  <2> QED
    BY <1>1, <2>1, <2>2, ReadsAssumption
<1> QED
  BY <1>2, <1>3

LEMMA LimitStep ==
  ASSUME IInv, Books', [Next]_vars
  PROVE  LimitHolds'
<1> USE DEF IInv
<1>1. HeldBytes = used /\ HeldBytes' = used'
  BY DEF Books, BooksBalance
<1>2. used \in Nat
  BY DEF TasksInv, TypeOK
<1>3. CASE Limit = NoLimit
  BY <1>3 DEF LimitHolds
<1>4. CASE Limit \in Nat
  <2> SUFFICES \/ used' <= Limit
               \/ \E r \in Reads : Holding' = {r} /\ Size[r] > Limit
    BY <1>1 DEF LimitHolds
  <2>1. Limit # NoLimit
    BY <1>4, LimitAssumption
  <2>2. \/ used <= Limit
        \/ \E r \in Reads : Holding = {r} /\ Size[r] > Limit
    BY <1>1, <2>1 DEF LimitHolds
  <2>3. CASE Leaves
    BY <2>2, <2>3 DEF Leaves
  <2>4. ASSUME NEW r \in Reads, Admits(r)
        PROVE  \/ used' <= Limit
               \/ \E x \in Reads : Holding' = {x} /\ Size[x] > Limit
    <3>1. Size[r] \in Nat
      BY ReadsAssumption
    <3>2. CASE used = 0
      <4>1. Holding' = {r} /\ used' = Size[r]
        BY <2>4, <3>1, <3>2, BudgetFacts DEF Admits
      <4> QED
        BY <1>4, <3>1, <4>1
    <3>3. CASE used + Size[r] <= Limit
      BY <2>4, <3>3 DEF Admits
    <3> QED
      BY <2>1, <2>4, <3>2, <3>3 DEF Admits, CanHold
  <2>5. ASSUME NEW r \in Reads, GivesBack(r)
        PROVE  used' <= Limit
    <3>1. Size[r] \in Nat /\ used' = used - Size[r] /\ r \in Holding
      BY <2>5, ReadsAssumption DEF GivesBack
    <3>2. CASE used <= Limit
      BY <1>2, <1>4, <3>1, <3>2
    <3>3. ASSUME NEW x \in Reads, Holding = {x}
          PROVE  used' <= Limit
      <4>1. Holding' = {}
        BY <2>5, <3>3 DEF GivesBack
      <4>2. used' = 0
        BY <4>1, <1>1, BytesOfNone DEF HeldBytes, ByteCount
      <4> QED
        BY <1>4, <4>2
    <3> QED
      BY <2>2, <3>2, <3>3
  <2> QED
    BY <2>3, <2>4, <2>5, BudgetStep
<1> QED
  BY <1>3, <1>4, LimitAssumption

LEMMA PeakStep ==
  ASSUME IInv, [Next]_vars
  PROVE  PeakBound'
<1> USE DEF IInv
<1>1. used \in Nat /\ peak \in Nat
  BY DEF TasksInv, TypeOK
<1>2. CASE Leaves
  BY <1>2 DEF Leaves, PeakBound
<1>3. ASSUME NEW r \in Reads, Admits(r)
      PROVE  PeakBound'
  <2>1. Size[r] \in Nat
    BY ReadsAssumption
  <2>2. /\ used' = used + Size[r]
        /\ (peak' = peak /\ used' <= peak) \/ peak' = used'
    BY <1>1, <1>3, <2>1 DEF Admits, Larger
  <2>3. used' <= peak'
    BY <1>1, <2>1, <2>2
  <2>4. Limit = NoLimit \/ used' <= Limit \/ used' = Size[r]
    BY <1>1, <1>3, <2>1 DEF Admits, CanHold
  <2> QED
    BY <2>2, <2>3, <2>4 DEF PeakBound
<1>4. ASSUME NEW r \in Reads, GivesBack(r)
      PROVE  PeakBound'
  <2>1. Size[r] \in Nat /\ used' = used - Size[r] /\ peak' = peak
    BY <1>4, ReadsAssumption DEF GivesBack
  <2>2. used' <= peak
    BY <1>1, <2>1 DEF PeakBound
  <2> QED
    BY <2>1, <2>2 DEF PeakBound
<1> QED
  BY <1>2, <1>3, <1>4, BudgetStep

LEMMA WakeupStep ==
  ASSUME IInv, [Next]_vars
  PROVE  NoLostWakeup'
<1> USE DEF IInv
<1>1. used \in Nat
  BY DEF TasksInv, TypeOK
<1>2. CASE Leaves
  <2>1. ASSUME NEW x \in Reads, rst'[x] = "waiting"
        PROVE  ~CanHold(x)
    BY <1>2, <2>1 DEF Leaves, NoLostWakeup
  <2> QED
    BY <1>2, <2>1 DEF Leaves, NoLostWakeup, CanHold
<1>3. ASSUME NEW r \in Reads, Admits(r)
      PROVE  NoLostWakeup'
  <2>1. ASSUME NEW x \in Reads, rst'[x] = "waiting"
        PROVE  ~CanHold(x)'
    <3>1. Limit # NoLimit /\ used # 0 /\ ~(used + Size[x] <= Limit)
      BY <1>3, <2>1 DEF Admits, NoLostWakeup, CanHold
    <3>2. Limit \in Nat /\ Size[x] \in Nat /\ Size[r] \in Nat
      BY <3>1, LimitAssumption, ReadsAssumption
    <3>3. used' = used + Size[r]
      BY <1>3 DEF Admits
    <3>4. used' # 0 /\ ~(used' + Size[x] <= Limit)
      BY <1>1, <3>1, <3>2, <3>3
    <3> QED
      BY <3>1, <3>4 DEF CanHold
  <2> QED
    BY <2>1 DEF NoLostWakeup
<1>4. ASSUME NEW r \in Reads, GivesBack(r)
      PROVE  NoLostWakeup'
  BY <1>4 DEF GivesBack, NoLostWakeup
<1> QED
  BY <1>2, <1>3, <1>4, BudgetStep

LEMMA InitBudget == Init => IInv
<1> SUFFICES ASSUME Init PROVE IInv
  OBVIOUS
<1>1. TasksInv
  BY InitTasks
<1>2. Holding = {} /\ used = 0 /\ peak = 0
  BY DEF Init, Holding, HoldStates
<1>3. Books
  BY <1>2, BytesOfNone DEF Books, BooksBalance, HeldBytes, ByteCount
<1>4. LimitHolds
  <2>1. HeldBytes = 0
    BY <1>2, <1>3, BytesOfNone DEF HeldBytes, ByteCount
  <2> QED
    BY <2>1, LimitAssumption DEF LimitHolds
<1>5. PeakBound
  BY <1>2, LimitAssumption DEF PeakBound
<1>6. NoLostWakeup
  BY DEF Init, NoLostWakeup
<1> QED
  BY <1>1, <1>3, <1>4, <1>5, <1>6 DEF IInv

LEMMA Inductive ==
  ASSUME IInv, [Next]_vars
  PROVE  IInv'
<1>1. Books'
  BY BooksStep DEF IInv
<1>2. used' \in Nat
  BY <1>1, FS_CardinalityType DEF Books, BooksBalance, HeldBytes, ByteCount
<1>3. TasksInv'
  BY <1>2, TypeStep, PlanStep DEF IInv, TasksInv
<1> QED
  BY <1>1, <1>3, LimitStep, PeakStep, WakeupStep DEF IInv

-----------------------------------------------------------------------------
(* The theorems *)

LEMMA BudgetInvariant == Spec => []IInv
BY InitBudget, Inductive, PTL DEF Spec

(* Every variable of a query keeps its type: in particular no sequence of  *)
(* releases makes ByteBudget.used negative.                                *)
THEOREM TypeCorrect == Spec => []TypeOK
<1>1. IInv => TypeOK
  BY DEF IInv, TasksInv
<1> QED
  BY <1>1, BudgetInvariant, PTL

(* ByteBudget.used is always the bytes of the reads between acquire and    *)
(* release, whatever failed or was cancelled.                              *)
THEOREM BooksAlwaysBalance == Spec => []BooksBalance
<1>1. IInv => BooksBalance
  BY DEF IInv, Books
<1> QED
  BY <1>1, BudgetInvariant, PTL

(* max_inflight_bytes is kept: held bytes fit, or one large read is alone. *)
THEOREM LimitAlwaysHolds == Spec => []LimitHolds
<1>1. IInv => LimitHolds
  BY DEF IInv
<1> QED
  BY <1>1, BudgetInvariant, PTL

(* peak_inflight_bytes is at least every amount held and at most the limit *)
(* or the size of a single read.                                           *)
THEOREM PeakAlwaysBound == Spec => []PeakBound
<1>1. IInv => PeakBound
  BY DEF IInv
<1> QED
  BY <1>1, BudgetInvariant, PTL

(* No read sleeps in the condition although the budget would let it in.    *)
THEOREM NeverALostWakeup == Spec => []NoLostWakeup
<1>1. IInv => NoLostWakeup
  BY DEF IInv
<1> QED
  BY <1>1, BudgetInvariant, PTL

(* The tasks implement ByteLimit: what a read does to the budget is a step *)
(* that max_inflight_bytes promises, or no step at all.                    *)
THEOREM ImplementsPromise == Spec => Promise!LSafe
<1>1. ASSUME Init
      PROVE  Promise!LInit
  BY <1>1 DEF Promise!LInit, Init, Holding, HoldStates, Gone, Over
<1>2. ASSUME IInv, IInv', [Next]_vars
      PROVE  [Promise!LNext]_(Promise!lvars)
  <2> USE DEF Promise!lvars
  <2>1. CASE Leaves
    BY <2>1 DEF Leaves, Promise!LNext, Promise!Abandon
  <2>2. ASSUME NEW r \in Reads, Admits(r)
        PROVE  Promise!Take(r)
    <3>1. HeldBytes' = used'
      BY <1>2 DEF IInv, Books, BooksBalance
    <3>2. ByteCount(Holding \cup {r}) = used'
      BY <2>2, <3>1 DEF Admits, HeldBytes, ByteCount, Bytes, BytesOf
    <3>3. Holding = {} \/ Promise!Fits(Holding \cup {r})
      BY <1>2, <2>2, <3>2, BudgetFacts
      DEF IInv, Admits, CanHold, Promise!Fits
    <3> QED
      BY <2>2, <3>3 DEF Admits, Promise!Take
  <2>3. ASSUME NEW r \in Reads, GivesBack(r)
        PROVE  Promise!Give(r)
    BY <2>3 DEF GivesBack, Promise!Give
  <2> QED
    BY <1>2, <2>1, <2>2, <2>3, BudgetStep DEF IInv, Promise!LNext
<1> QED
  BY <1>1, <1>2, BudgetInvariant, PTL DEF Spec, Promise!LSafe

-----------------------------------------------------------------------------
(* The result *)

(* Tasks that are done stay done, an object is done once its reads are,    *)
(* and a query returns once its objects are.                               *)
Gathered ==
  /\ \A r \in Reads : ost[Owner[r]] = "done" => rst[r] = "done"
  /\ query = "returned" => \A o \in Objects : ost[o] = "done"

LEMMA GatheredStep ==
  ASSUME TasksInv, Gathered, [Next]_vars
  PROVE  Gathered'
<1> USE ObjectsAssumption DEF TasksInv, TypeOK, Gathered
<1>1. ASSUME NEW o \in Objects, ObjectStep(o)
      PROVE  Gathered'
  <2>1. CASE FetchObject(o) \/ ObjectArrives(o)
    BY <2>1 DEF FetchObject, ObjectArrives, ObjectGoes
  <2>2. CASE PlanObject(o)
    BY <2>2 DEF PlanObject, ObjectGoes, ReadsOf
  <2>3. CASE EndObject(o)
    BY <2>3 DEF EndObject, ObjectGoes, ReadsOf
  <2>4. CASE UnwindObject(o)
    BY <2>4 DEF UnwindObject, Over
  <2> QED
    BY <1>1, <2>1, <2>2, <2>3, <2>4 DEF ObjectStep
<1>2. ASSUME NEW r \in Reads, ReadStep(r)
      PROVE  Gathered'
  <2>1. CASE Acquire(r) \/ FetchRange(r) \/ RangeArrives(r)
    BY <2>1 DEF Acquire, Admit, FetchRange, RangeArrives, ReadGoes
  <2>2. CASE RangeFails(r) \/ Resume(r) \/ UnwindRead(r)
    BY <2>2 DEF RangeFails, Resume, UnwindRead, Release, ReadGoes, HoldStates
  <2> QED
    BY <1>2, <2>1, <2>2 DEF ReadStep
<1>3. ASSUME NEW r \in Reads, PoolStep(r)
      PROVE  Gathered'
  BY <1>3 DEF PoolStep, Decode, DecodeEnds
<1>4. CASE EndQuery
  BY <1>4 DEF EndQuery
<1>5. CASE Cancel \/ Finished \/ UNCHANGED vars
  BY <1>5 DEF Cancel, Finished, vars
<1> QED
  BY <1>1, <1>2, <1>3, <1>4, <1>5 DEF Next

(* A count is never partial: a query that returns has counted every read   *)
(* of every object, though failed reads leave others running.              *)
THEOREM NeverAPartialResult == Spec => []NoPartialResult
<1>1. Init => Gathered
  BY ObjectsAssumption DEF Init, Gathered
<1>2. IInv => TasksInv
  BY DEF IInv
<1>3. Gathered => NoPartialResult
  BY ObjectsAssumption DEF Gathered, NoPartialResult
<1>4. Spec => []Gathered
  BY <1>1, <1>2, GatheredStep, BudgetInvariant, PTL DEF Spec
<1> QED
  BY <1>3, <1>4, PTL
=============================================================================
