--------------------------- MODULE LayeredReadProofs ---------------------------
(***************************************************************************)
(* Proofs about LayeredRead, for every layout, list of blocks and options. *)
(***************************************************************************)
EXTENDS LayeredRead, Lemmas

-----------------------------------------------------------------------------
(* Greatest elements *)

(* A set of numbers up to d has a greatest element. *)
LEMMA GreatestExists ==
  ASSUME NEW d \in Nat, NEW T, T \subseteq 1 .. d, T # {}
  PROVE  Max(T) \in T /\ \A x \in T : x <= Max(T)
<1> DEFINE back == {d - x : x \in T}
<1>1. back \subseteq Nat /\ back # {}
  <2>1. PICK y \in T : TRUE
    OBVIOUS
  <2>2. \A x \in T : d - x \in Nat
    OBVIOUS
  <2>3. d - y \in back
    BY <2>1
  <2> QED
    BY <2>2, <2>3
<1>2. PICK b \in back : \A c \in back : b <= c
  <2> HIDE DEF back
  <2> QED
    BY <1>1, LeastExists
<1>3. PICK x \in T : b = d - x
  BY <1>2
<1>4. ASSUME NEW y \in T PROVE x >= y
  <2>1. d - y \in back
    OBVIOUS
  <2>2. d - x <= d - y
    BY <1>2, <1>3, <2>1
  <2> QED
    BY <2>2
<1>5. Max(T) \in T /\ \A y \in T : Max(T) >= y
  BY <1>4 DEF Max
<1> QED
  BY <1>5

-----------------------------------------------------------------------------
(* The listed blocks *)

(* Sets of listed blocks are finite. *)
LEMMA BlocksFinite ==
  ASSUME NEW A, IsFiniteSet(A), NEW B, IsFiniteSet(B)
  PROVE  IsFiniteSet([chunk : A, block : B])
<1> DEFINE S == [chunk : A, block : B]
           f == [e \in S |-> <<e.chunk, e.block>>]
<1>1. IsFiniteSet(A \X B)
  BY FS_Product
<1>2. f \in Injection(S, A \X B)
  <2>1. f \in [S -> A \X B]
    OBVIOUS
  <2>2. \A d, e \in S : f[d] = f[e] => d = e
    OBVIOUS
  <2> QED
    BY <2>1, <2>2 DEF Injection, IsInjective
<1> HIDE DEF f, S
<1>3. IsFiniteSet(S)
  BY <1>1, <1>2, FS_Injection
<1> QED
  BY <1>3 DEF S

Typed ==
  /\ layout \in Layouts
  /\ opts \in [layer : Layers(layout), gap : Gaps, maxRequests : MaxChunkRequests, batch : BatchSizes]
  /\ \E want \in Wants : items = InOrder(want)

(* What Typed says of the options. *)
LEMMA OptionsAre ==
  ASSUME Typed
  PROVE  /\ IsLayout(layout)
         /\ opts.layer \in 1 .. nLayers(layout) /\ opts.layer \in Layers(layout)
         /\ opts.gap \in Nat /\ opts.maxRequests \in Nat \ {0} /\ opts.batch \in Nat \ {0}
         /\ nBlocks(layout) \in Nat \ {0}
<1>1. IsLayout(layout)
  BY ArrayAssumption DEF Typed
<1>2. Layers(layout) = 1 .. nLayers(layout) /\ nBlocks(layout) \in Nat \ {0}
  BY <1>1, LayersAre, RecordPlaces
<1> QED
  BY <1>1, <1>2, LimitsAssumption DEF Typed

(* And of the list. *)
LEMMA ItemsAre ==
  ASSUME Typed
  PROVE  /\ n \in Nat /\ DOMAIN items = 1 .. n /\ Len(items) = n
         /\ \A i \in 1 .. n : /\ items[i].chunk \in Chunks /\ items[i].chunk \in Nat
                               /\ items[i].block \in 0 .. nBlocks(layout) - 1
                               /\ items[i].block \in Nat
         /\ \A i, j \in 1 .. n : i < j => Before(items[i], items[j])
<1>1. PICK want \in Wants : items = InOrder(want)
  BY DEF Typed
<1> DEFINE B == 0 .. nBlocks(layout) - 1
<1>2. want \in SUBSET [chunk : Chunks, block : B]
  BY ArrayAssumption DEF Typed
<1>3. nBlocks(layout) \in Nat
  BY OptionsAre
<1>4. IsFiniteSet(B)
  BY <1>3, FS_Interval
<1>5. \A b \in B : b \in Nat
  BY <1>3
<1> HIDE DEF B
<1>6. Chunks \subseteq Nat /\ IsFiniteSet(Chunks)
  BY ArrayAssumption
<1>7. IsFiniteSet(want)
  <2>1. IsFiniteSet([chunk : Chunks, block : B])
    BY <1>4, <1>6, BlocksFinite
  <2> QED
    BY <1>2, <2>1, FS_Subset
<1>8. \A e \in want : /\ e.chunk \in Chunks /\ e.chunk \in Nat /\ e.block \in B /\ e.block \in Nat
                      /\ e = [chunk |-> e.chunk, block |-> e.block]
  <2> SUFFICES ASSUME NEW e \in want
               PROVE  /\ e.chunk \in Chunks /\ e.chunk \in Nat /\ e.block \in B /\ e.block \in Nat
                      /\ e = [chunk |-> e.chunk, block |-> e.block]
    OBVIOUS
  <2>1. e \in [chunk : Chunks, block : B]
    BY <1>2
  <2>2. e = [chunk |-> e.chunk, block |-> e.block]
    BY <2>1
  <2>3. e.chunk \in Chunks /\ e.block \in B
    BY <2>1
  <2> QED
    BY <1>5, <1>6, <2>2, <2>3
<1>9. Placed(want)
  BY <1>7, <1>8 DEF Placed
<1>10. /\ Cardinality(want) \in Nat
       /\ items \in [1 .. Cardinality(want) -> want] /\ DOMAIN items = 1 .. Cardinality(want)
       /\ Len(items) = Cardinality(want)
       /\ \A k, l \in 1 .. Cardinality(want) : k < l <=> Before(items[k], items[l])
  BY <1>1, <1>9, Ranks, ListInOrder, ListAscends
<1>11. \A i \in 1 .. Cardinality(want) : items[i] \in want
  BY <1>10
<1> QED
  BY <1>8, <1>10, <1>11 DEF n, B

(* Chunks follow each other in the list, and blocks in a chunk. *)
LEMMA ItemsAscend ==
  ASSUME Typed, NEW i \in 1 .. n, NEW j \in 1 .. n, i <= j
  PROVE  /\ items[i].chunk <= items[j].chunk
         /\ items[i].chunk = items[j].chunk => items[i].block <= items[j].block
         /\ items[i].chunk = items[j].chunk /\ i # j => items[i].block < items[j].block
<1>1. /\ items[i].chunk \in Nat /\ items[j].chunk \in Nat
      /\ items[i].block \in Nat /\ items[j].block \in Nat /\ n \in Nat
  BY ItemsAre
<1>2. i < j => Before(items[i], items[j])
  BY ItemsAre
<1>3. i = j \/ i < j
  BY <1>1
<1> QED
  BY <1>1, <1>2, <1>3 DEF Before

ItemRuns == Runs(items, opts.gap)

(* A read's items are of one chunk. *)
LEMMA RunsAre ==
  ASSUME Typed, NEW r \in ItemRuns
  PROVE  /\ r.from \in 1 .. n /\ r.to \in 1 .. n /\ r.from <= r.to
         /\ r = [from |-> r.from, to |-> r.to]
         /\ \A i \in r.from .. r.to : i \in 1 .. n /\ items[i].chunk = items[r.from].chunk
<1>1. n \in Nat /\ DOMAIN items = 1 .. n
  BY ItemsAre
<1>2. /\ r.from \in 1 .. n /\ r.to \in 1 .. n /\ r.from <= r.to
      /\ r = [from |-> r.from, to |-> r.to]
      /\ \A k \in r.from + 1 .. r.to : ~StartsRun(items, opts.gap, k)
  BY <1>1 DEF ItemRuns, Runs
<1> DEFINE T == {i \in r.from .. r.to : items[i].chunk # items[r.from].chunk}
<1>3. T = {}
  <2> SUFFICES ASSUME T # {} PROVE FALSE
    OBVIOUS
  <2>1. T \subseteq Nat
    BY <1>2
  <2>2. PICK i \in T : \A j \in T : i <= j
    <3> HIDE DEF T
    <3> QED
      BY <2>1, LeastExists
  <2>3. i \in r.from .. r.to /\ i # r.from
    BY <2>2
  <2>4. /\ i - 1 \in r.from .. r.to /\ ~(i <= i - 1) /\ i \in r.from + 1 .. r.to
    BY <1>2, <2>3
  <2>5. i - 1 \notin T
    <3> HIDE DEF T
    <3> QED
      BY <2>2, <2>4
  <2>6. items[i - 1].chunk = items[r.from].chunk
    BY <2>4, <2>5
  <2>7. items[i].chunk = items[i - 1].chunk
    BY <1>2, <2>4 DEF StartsRun
  <2> QED
    BY <2>2, <2>6, <2>7
<1>4. \A i \in r.from .. r.to : i \in 1 .. n
  BY <1>1, <1>2
<1> QED
  BY <1>2, <1>3, <1>4

(* Two reads of a layer have no item in common. *)
LEMMA RunsApart ==
  ASSUME Typed, NEW q \in ItemRuns, NEW r \in ItemRuns, q # r
  PROVE  q.to < r.from \/ r.to < q.from
<1>1. n \in Nat /\ DOMAIN items = 1 .. n /\ Len(items) = n
  BY ItemsAre
<1>2. /\ q.from \in 1 .. n /\ q.to \in 1 .. n /\ q.from <= q.to
      /\ r.from \in 1 .. n /\ r.to \in 1 .. n /\ r.from <= r.to
  BY RunsAre
<1>3. ASSUME NEW k \in 1 .. n, k \in q.from .. q.to, k \in r.from .. r.to PROVE FALSE
  <2>1. \A a, b \in ItemRuns : k \in a.from .. a.to /\ k \in b.from .. b.to => a = b
    BY <1>1, OneRunEach DEF ItemRuns
  <2> QED
    BY <1>3, <2>1
<1>4. ~(q.from \in r.from .. r.to) /\ ~(r.from \in q.from .. q.to)
  BY <1>2, <1>3
<1> QED
  BY <1>2, <1>4

(* Every item is in one. *)
LEMMA RunOfItem ==
  ASSUME Typed, NEW i \in 1 .. n
  PROVE  \E r \in ItemRuns : i \in r.from .. r.to
<1>1. n \in Nat /\ DOMAIN items = 1 .. n /\ Len(items) = n
  BY ItemsAre
<1> QED
  BY <1>1, OneRunEach DEF ItemRuns

(* They are finitely many. *)
LEMMA RunsFinite ==
  ASSUME Typed
  PROVE  IsFiniteSet(ItemRuns)
<1> DEFINE N == 1 .. n
           f == [r \in ItemRuns |-> <<r.from, r.to>>]
<1>1. IsFiniteSet(N)
  <2>1. n \in Nat
    BY ItemsAre
  <2> QED
    BY <2>1, FS_Interval
<1>2. \A r \in ItemRuns : r.from \in N /\ r.to \in N /\ r = [from |-> r.from, to |-> r.to]
  BY RunsAre
<1> HIDE DEF N
<1>3. IsFiniteSet(N \X N)
  BY <1>1, FS_Product
<1>4. f \in Injection(ItemRuns, N \X N)
  <2>1. f \in [ItemRuns -> N \X N]
    BY <1>2
  <2>2. \A q, r \in ItemRuns : f[q] = f[r] => q = r
    BY <1>2
  <2> QED
    BY <2>1, <2>2 DEF Injection, IsInjective
<1> HIDE DEF f
<1> QED
  BY <1>3, <1>4, FS_Injection
-----------------------------------------------------------------------------
(* The requests *)

(* What a read of a layer is. *)
LEMMA PerLayerAre ==
  ASSUME Typed, NEW q \in PerLayer
  PROVE  /\ \E r \in ItemRuns : q = LayerRead(q.layer, r) /\ q.from = r.from /\ q.to = r.to
         /\ q.layer \in 1 .. opts.layer /\ q.layer \in Layers(layout)
         /\ q.from \in 1 .. n /\ q.to \in 1 .. n /\ q.from <= q.to
         /\ \A i \in q.from .. q.to : i \in 1 .. n /\ items[i].chunk = q.chunk
         /\ q.first = items[q.from].block
         /\ q.start = LayerStart(layout, q.layer)
                        + items[q.from].block * layout.bytes[q.layer]
         /\ q.end = LayerStart(layout, q.layer)
                      + (items[q.to].block + 1) * layout.bytes[q.layer]
<1>1. PICK j \in 1 .. opts.layer, r \in ItemRuns : q = LayerRead(j, r)
  BY DEF PerLayer, ItemRuns
<1>2. /\ r.from \in 1 .. n /\ r.to \in 1 .. n /\ r.from <= r.to
      /\ \A i \in r.from .. r.to : i \in 1 .. n /\ items[i].chunk = items[r.from].chunk
  BY RunsAre
<1>3. /\ q.chunk = items[r.from].chunk /\ q.layer = j /\ q.from = r.from /\ q.to = r.to
      /\ q.first = items[r.from].block
      /\ q.start = LayerStart(layout, j) + items[r.from].block * layout.bytes[j]
      /\ q.end = LayerStart(layout, j) + (items[r.to].block + 1) * layout.bytes[j]
  BY <1>1 DEF LayerRead
<1>4. j \in Layers(layout)
  <2>1. /\ opts.layer \in 1 .. nLayers(layout) /\ Layers(layout) = 1 .. nLayers(layout)
        /\ nLayers(layout) \in Nat
    BY OptionsAre, LayersAre
  <2> QED
    BY <2>1
<1> QED
  BY <1>1, <1>2, <1>3, <1>4

(* The reads of the layers are finitely many. *)
LEMMA PerLayerFinite ==
  ASSUME Typed
  PROVE  IsFiniteSet(PerLayer)
<1> DEFINE J == 1 .. opts.layer
           T == J \X ItemRuns
           f == [t \in T |-> LayerRead(t[1], t[2])]
<1>1. IsFiniteSet(J)
  <2>1. opts.layer \in Int
    <3>1. opts.layer \in 1 .. nLayers(layout)
      BY OptionsAre
    <3> QED
      BY <3>1
  <2> QED
    BY <2>1, FS_Interval
<1>2. PerLayer = {LayerRead(j, r) : j \in J, r \in ItemRuns}
  BY DEF PerLayer, ItemRuns
<1> HIDE DEF J
<1>3. IsFiniteSet(T)
  BY <1>1, RunsFinite, FS_Product
<1>4. f \in Surjection(T, PerLayer)
  <2>1. f \in [T -> PerLayer]
    BY <1>2
  <2>2. \A q \in PerLayer : \E t \in T : f[t] = q
    <3> SUFFICES ASSUME NEW q \in PerLayer PROVE \E t \in T : f[t] = q
      OBVIOUS
    <3>1. PICK j \in J, r \in ItemRuns : q = LayerRead(j, r)
      BY <1>2
    <3>2. <<j, r>> \in T /\ f[<<j, r>>] = q
      BY <3>1
    <3> QED
      BY <3>2
  <2> QED
    BY <2>1, <2>2 DEF Surjection
<1> HIDE DEF f, T
<1> QED
  BY <1>3, <1>4, FS_Surjection

(* The items of a chunk that is read whole. *)
LEMMA DenseAre ==
  ASSUME Typed, NEW c \in Dense
  PROVE  LET mine == {i \in 1 .. n : items[i].chunk = c}
         IN  /\ mine # {} /\ Min(mine) \in mine /\ Max(mine) \in mine
             /\ \A i \in mine : Min(mine) <= i /\ i <= Max(mine)
<1> DEFINE mine == {i \in 1 .. n : items[i].chunk = c}
           of == {r \in PerLayer : r.chunk = c}
<1>1. Cardinality(of) > opts.maxRequests /\ c \in Chunks
  BY DEF Dense
<1>2. of # {}
  <2>1. of = {} => Cardinality(of) = 0
    BY FS_EmptySet
  <2>2. opts.maxRequests \in Nat
    BY OptionsAre
  <2> HIDE DEF of
  <2> QED
    BY <1>1, <2>1, <2>2
<1>3. PICK r \in PerLayer : r.chunk = c
  BY <1>2
<1>4. r.from \in mine
  <2>1. r.from \in 1 .. n /\ r.from <= r.to /\ r.to \in 1 .. n
        /\ \A i \in r.from .. r.to : items[i].chunk = r.chunk
    BY PerLayerAre
  <2>2. r.from \in r.from .. r.to
    BY <2>1
  <2> QED
    BY <1>3, <2>1, <2>2
<1>5. mine \subseteq 1 .. n /\ n \in Nat
  BY ItemsAre
<1> HIDE DEF mine
<1>6. \E x \in mine : \A y \in mine : x <= y
  <2>1. mine \subseteq Nat /\ mine # {}
    BY <1>4, <1>5
  <2> QED
    BY <2>1, LeastExists
<1>7. Min(mine) \in mine /\ \A y \in mine : Min(mine) <= y
  BY <1>6 DEF Min
<1>8. Max(mine) \in mine /\ \A y \in mine : y <= Max(mine)
  BY <1>4, <1>5, GreatestExists
<1> QED
  BY <1>4, <1>7, <1>8 DEF mine

(* Which chunk an item between those of one chunk is of. *)
LEMMA WholeChunkAre ==
  ASSUME Typed, NEW c \in Dense
  PROVE  LET q == WholeChunk(c)
         IN  /\ q.chunk = c /\ q.layer = Whole /\ q.first = 0 /\ q.start = 0 /\ q.end = PrefixEnd
             /\ q.from \in 1 .. n /\ q.to \in 1 .. n
             /\ items[q.from].chunk = c
             /\ \A i \in 1 .. n : q.from <= i /\ i <= q.to <=> items[i].chunk = c
<1> DEFINE mine == {i \in 1 .. n : items[i].chunk = c}
           q == WholeChunk(c)
<1>1. /\ q.chunk = c /\ q.layer = Whole /\ q.first = 0 /\ q.start = 0 /\ q.end = PrefixEnd
      /\ q.from = Min(mine) /\ q.to = Max(mine)
  BY DEF WholeChunk
<1>2. /\ Min(mine) \in mine /\ Max(mine) \in mine
      /\ \A i \in mine : Min(mine) <= i /\ i <= Max(mine)
  BY DenseAre
<1>3. /\ q.from \in 1 .. n /\ items[q.from].chunk = c
      /\ q.to \in 1 .. n /\ items[q.to].chunk = c
      /\ \A i \in 1 .. n : items[i].chunk = c => q.from <= i /\ i <= q.to
  BY <1>1, <1>2
<1> HIDE DEF mine, q
<1>4. ASSUME NEW i \in 1 .. n, q.from <= i, i <= q.to PROVE items[i].chunk = c
  <2>1. items[q.from].chunk <= items[i].chunk
    BY <1>3, <1>4, ItemsAscend
  <2>2. items[i].chunk <= items[q.to].chunk
    BY <1>3, <1>4, ItemsAscend
  <2>3. items[i].chunk \in Nat /\ c \in Nat
    BY <1>3, ItemsAre
  <2> QED
    BY <1>3, <2>1, <2>2, <2>3
<1> QED
  BY <1>1, <1>3, <1>4 DEF q

(* Every request is a read of a layer of a chunk that is not read whole,   *)
(* or of a whole chunk.                                                    *)
LEMMA ChosenAre ==
  ASSUME Typed, NEW q \in Chosen
  PROVE  \/ q \in PerLayer /\ q.chunk \notin Dense /\ q.layer # Whole /\ q.layer \in 1 .. opts.layer
         \/ q.chunk \in Dense /\ q = WholeChunk(q.chunk) /\ q.layer = Whole
<1>1. opts.layer \in Nat
  <2>1. opts.layer \in 1 .. nLayers(layout)
    BY OptionsAre
  <2> QED
    BY <2>1
<1>2. CASE q \in PerLayer /\ q.chunk \notin Dense
  <2>1. q.layer \in 1 .. opts.layer
    BY <1>2, PerLayerAre
  <2>2. q.layer # Whole
    BY <1>1, <2>1 DEF Whole
  <2> QED
    BY <1>2, <2>1, <2>2
<1>3. CASE \E c \in Dense : q = WholeChunk(c)
  <2>1. PICK c \in Dense : q = WholeChunk(c)
    BY <1>3
  <2>2. q.chunk = c /\ q.layer = Whole
    BY <2>1, WholeChunkAre
  <2> QED
    BY <2>1, <2>2
<1> QED
  BY <1>2, <1>3 DEF Chosen

(* Their layer and first item tell requests apart. *)
LEMMA ChosenApart ==
  ASSUME Typed, NEW q \in Chosen, NEW r \in Chosen, q.layer = r.layer, q.from = r.from
  PROVE  q = r
<1>1. CASE q.layer = Whole
  <2>1. /\ q.chunk \in Dense /\ q = WholeChunk(q.chunk)
        /\ r.chunk \in Dense /\ r = WholeChunk(r.chunk)
    BY <1>1, ChosenAre
  <2>2. items[q.from].chunk = q.chunk
    <3> DEFINE c == q.chunk
    <3>1. c \in Dense /\ q = WholeChunk(c)
      BY <2>1
    <3> HIDE DEF c
    <3>2. items[q.from].chunk = c
      BY <3>1, WholeChunkAre
    <3> QED
      BY <3>2 DEF c
  <2>3. items[r.from].chunk = r.chunk
    <3> DEFINE c == r.chunk
    <3>1. c \in Dense /\ r = WholeChunk(c)
      BY <2>1
    <3> HIDE DEF c
    <3>2. items[r.from].chunk = c
      BY <3>1, WholeChunkAre
    <3> QED
      BY <3>2 DEF c
  <2>4. q.chunk = r.chunk
    BY <2>2, <2>3
  <2> QED
    BY <2>1, <2>4
<1>2. CASE q.layer # Whole
  <2>1. q \in PerLayer /\ r \in PerLayer
    BY <1>2, ChosenAre
  <2>2. PICK a \in ItemRuns : q = LayerRead(q.layer, a) /\ q.from = a.from /\ q.to = a.to
    BY <2>1, PerLayerAre
  <2>3. PICK b \in ItemRuns : r = LayerRead(r.layer, b) /\ r.from = b.from /\ r.to = b.to
    BY <2>1, PerLayerAre
  <2>4. a = b
    <3>1. SUFFICES ASSUME a # b PROVE FALSE
      OBVIOUS
    <3>2. a.to < b.from \/ b.to < a.from
      BY <3>1, RunsApart
    <3>3. /\ a.from \in 1 .. n /\ a.to \in 1 .. n /\ a.from <= a.to
          /\ b.from \in 1 .. n /\ b.to \in 1 .. n /\ b.from <= b.to
          /\ n \in Nat
      BY RunsAre, ItemsAre
    <3>4. a.from = b.from
      BY <2>2, <2>3
    <3> QED
      BY <3>2, <3>3, <3>4
  <2> QED
    BY <2>2, <2>3, <2>4
<1> QED
  BY <1>1, <1>2

(* They are finitely many, and a chunk's no more than its limit. *)
LEMMA ChosenFew ==
  ASSUME Typed
  PROVE  /\ IsFiniteSet(Chosen)
         /\ \A c \in Chunks : /\ IsFiniteSet({q \in Chosen : q.chunk = c})
                             /\ Cardinality({q \in Chosen : q.chunk = c}) <= opts.maxRequests
<1>1. IsFiniteSet(PerLayer)
  BY PerLayerFinite
<1>2. IsFiniteSet(Chosen)
  <2> DEFINE A == {r \in PerLayer : r.chunk \notin Dense}
             B == {WholeChunk(c) : c \in Dense}
             f == [c \in Dense |-> WholeChunk(c)]
  <2>1. IsFiniteSet(A)
    <3>1. A \in SUBSET PerLayer
      OBVIOUS
    <3> HIDE DEF A
    <3> QED
      BY <1>1, <3>1, FS_Subset
  <2>2. IsFiniteSet(Dense)
    <3>1. Dense \in SUBSET Chunks /\ IsFiniteSet(Chunks)
      BY ArrayAssumption DEF Dense
    <3> QED
      BY <3>1, FS_Subset
  <2>3. IsFiniteSet(B)
    <3>1. f \in Surjection(Dense, B)
      BY DEF Surjection
    <3> HIDE DEF f, B
    <3> QED
      BY <2>2, <3>1, FS_Surjection
  <2> HIDE DEF A, B
  <2>4. IsFiniteSet(A \cup B)
    BY <2>1, <2>3, FS_Union
  <2> QED
    BY <2>4 DEF Chosen, A, B
<1>3. ASSUME NEW c \in Chunks
      PROVE  /\ IsFiniteSet({q \in Chosen : q.chunk = c})
             /\ Cardinality({q \in Chosen : q.chunk = c}) <= opts.maxRequests
  <2> DEFINE S == {q \in Chosen : q.chunk = c}
             L == {q \in PerLayer : q.chunk = c}
  <2>1. opts.maxRequests \in Nat \ {0}
    BY OptionsAre
  <2>2. CASE c \in Dense
    <3>1. S \in SUBSET {WholeChunk(c)}
      BY <2>2, ChosenAre
    <3> HIDE DEF S
    <3>2. IsFiniteSet({WholeChunk(c)}) /\ Cardinality({WholeChunk(c)}) = 1
      BY FS_Singleton
    <3>3. IsFiniteSet(S) /\ Cardinality(S) <= 1
      BY <3>1, <3>2, FS_Subset
    <3>4. Cardinality(S) \in Nat
      BY <3>3, FS_CardinalityType
    <3> QED
      BY <2>1, <3>3, <3>4 DEF S
  <2>3. CASE c \notin Dense
    <3>1. S \in SUBSET L
      BY <2>3, ChosenAre
    <3>2. IsFiniteSet(L)
      <4>1. L \in SUBSET PerLayer
        OBVIOUS
      <4> HIDE DEF L
      <4> QED
        BY <1>1, <4>1, FS_Subset
    <3>3. ~(Cardinality(L) > opts.maxRequests)
      BY <2>3 DEF Dense
    <3> HIDE DEF S, L
    <3>4. IsFiniteSet(S) /\ Cardinality(S) <= Cardinality(L)
      BY <3>1, <3>2, FS_Subset
    <3>5. Cardinality(S) \in Nat /\ Cardinality(L) \in Nat
      BY <3>2, <3>4, FS_CardinalityType
    <3> QED
      BY <2>1, <3>3, <3>4, <3>5 DEF S
  <2> QED
    BY <2>2, <2>3
<1> QED
  BY <1>2, <1>3

-----------------------------------------------------------------------------
(* The list of the requests *)

(* Requests compare as blocks of a list do, by layer and first item. *)
Key(r) == [chunk |-> r.layer, block |-> r.from]

(* As many requests are ahead of one as keys are before its key. *)
LEMMA AheadByKey ==
  ASSUME NEW all, IsFiniteSet(all), \A r \in all : r.layer \in Int /\ r.from \in Int,
         \A q, r \in all : q.layer = r.layer /\ q.from = r.from => q = r
  PROVE  /\ Placed({Key(r) : r \in all}) /\ Cardinality({Key(r) : r \in all}) = Cardinality(all)
         /\ \A r \in all : Cardinality({q \in all : Ahead(q, r)})
                            = PlaceIn({Key(q) : q \in all}, Key(r))
<1> DEFINE S == {Key(r) : r \in all}
           h == [r \in all |-> Key(r)]
<1>1. \A q, r \in all : Key(q) = Key(r) => q = r
  BY DEF Key
<1>2. h \in Bijection(all, S)
  <2> HIDE DEF S
  <2>1. h \in [all -> S] /\ \A e \in S : \E r \in all : h[r] = e
    BY DEF S
  <2>2. \A q, r \in all : h[q] = h[r] => q = r
    BY <1>1
  <2> HIDE DEF h
  <2> QED
    BY <2>1, <2>2 DEF Bijection, Injection, Surjection, IsInjective
<1>3. IsFiniteSet(S) /\ Cardinality(S) = Cardinality(all)
  <2> HIDE DEF S, h
  <2> QED
    BY <1>2, AsMany
<1>4. Placed(S)
  <2>1. \A e \in S : e.chunk \in Int /\ e.block \in Int
    BY DEF Key
  <2>2. \A d, e \in S : d.chunk = e.chunk /\ d.block = e.block => d = e
    BY DEF Key
  <2> HIDE DEF S
  <2> QED
    BY <1>3, <2>1, <2>2 DEF Placed
<1>5. \A q, r : Ahead(q, r) <=> Before(Key(q), Key(r))
  BY DEF Ahead, Before, Key
<1>6. ASSUME NEW r \in all
      PROVE  Cardinality({q \in all : Ahead(q, r)}) = PlaceIn(S, Key(r))
  <2> DEFINE A == {q \in all : Ahead(q, r)}
             B == AllBefore(S, Key(r))
             g == [q \in A |-> Key(q)]
  <2>1. IsFiniteSet(A)
    <3>1. A \in SUBSET all
      OBVIOUS
    <3> HIDE DEF A
    <3> QED
      BY <3>1, FS_Subset
  <2>2. \A q \in A : Key(q) \in B
    BY <1>5 DEF AllBefore
  <2>3. \A e \in B : \E q \in A : Key(q) = e
    BY <1>5 DEF AllBefore
  <2>4. \A p, q \in A : Key(p) = Key(q) => p = q
    BY <1>1
  <2> HIDE DEF A, B
  <2>5. g \in Bijection(A, B)
    BY <2>2, <2>3, <2>4 DEF Bijection, Injection, Surjection, IsInjective
  <2> HIDE DEF g
  <2>6. Cardinality(B) = Cardinality(A)
    BY <2>1, <2>5, AsMany
  <2> QED
    BY <2>6 DEF A, B, PlaceIn
<1> QED
  BY <1>3, <1>4, <1>6

(* The requests are listed each once, none left out. *)
LEMMA RequestsListAll ==
  ASSUME Typed
  PROVE  /\ Cardinality(Chosen) \in Nat /\ DOMAIN Requests = 1 .. Cardinality(Chosen)
         /\ Len(Requests) = Cardinality(Chosen)
         /\ \A k \in DOMAIN Requests : Requests[k] \in Chosen
         /\ \A k, l \in DOMAIN Requests : Requests[k] = Requests[l] => k = l
         /\ \A q \in Chosen : \E k \in DOMAIN Requests : Requests[k] = q
<1> DEFINE all == Chosen
           S == {Key(r) : r \in all}
           m == Cardinality(all)
           PlaceOf(r) == Cardinality({q \in all : Ahead(q, r)})
<1>1. \A r \in all : r.layer \in Int /\ r.from \in Int
  <2> SUFFICES ASSUME NEW r \in all PROVE r.layer \in Int /\ r.from \in Int
    OBVIOUS
  <2>1. n \in Nat /\ opts.layer \in Nat
    <3>1. opts.layer \in 1 .. nLayers(layout)
      BY OptionsAre
    <3> QED
      BY <3>1, ItemsAre
  <2>2. CASE r \in PerLayer
    BY <2>1, <2>2, PerLayerAre
  <2>3. CASE r.chunk \in Dense /\ r = WholeChunk(r.chunk) /\ r.layer = Whole
    <3> DEFINE c == r.chunk
    <3>1. c \in Dense /\ r = WholeChunk(c)
      BY <2>3
    <3> HIDE DEF c
    <3>2. r.from \in 1 .. n
      BY <3>1, WholeChunkAre
    <3> QED
      BY <2>1, <2>3, <3>2 DEF Whole
  <2> QED
    BY <2>2, <2>3, ChosenAre
<1>2. \A q, r \in all : q.layer = r.layer /\ q.from = r.from => q = r
  BY ChosenApart
<1>3. IsFiniteSet(all)
  BY ChosenFew
<1>4. Requests = [k \in 1 .. m |-> CHOOSE r \in all : PlaceOf(r) = k - 1]
  BY DEF Requests
<1> HIDE DEF all
<1>5. Placed(S) /\ Cardinality(S) = m /\ \A r \in all : PlaceOf(r) = PlaceIn(S, Key(r))
  BY <1>1, <1>2, <1>3, AheadByKey
<1>6. \A e \in S : \E r \in all : e = Key(r)
  OBVIOUS
<1>7. \A r \in all : Key(r) \in S
  OBVIOUS
<1> HIDE DEF S, PlaceOf
<1>8. /\ m \in Nat
      /\ \A e \in S : PlaceIn(S, e) \in 0 .. m - 1
  BY <1>5, Ranks
<1> HIDE DEF m
<1>9. ASSUME NEW k \in 1 .. m
      PROVE  Requests[k] \in all /\ PlaceOf(Requests[k]) = k - 1
  <2>1. k - 1 \in 0 .. Cardinality(S) - 1
    BY <1>5, <1>8
  <2>2. PICK e \in S : PlaceIn(S, e) = k - 1
    BY <1>5, <2>1, EveryRank
  <2>3. PICK r \in all : e = Key(r)
    BY <1>6
  <2>4. PlaceOf(r) = k - 1
    BY <1>5, <2>2, <2>3
  <2>5. Requests[k] = CHOOSE q \in all : PlaceOf(q) = k - 1
    BY <1>4
  <2> QED
    BY <2>4, <2>5
<1>10. DOMAIN Requests = 1 .. m
  BY <1>4
<1>11. \A k, l \in 1 .. m : Requests[k] = Requests[l] => k = l
  <2> SUFFICES ASSUME NEW k \in 1 .. m, NEW l \in 1 .. m, Requests[k] = Requests[l] PROVE k = l
    OBVIOUS
  <2>1. k - 1 = l - 1
    BY <1>9
  <2> QED
    BY <2>1
<1>12. ASSUME NEW q \in all PROVE \E k \in 1 .. m : Requests[k] = q
  <2> DEFINE k == PlaceOf(q) + 1
  <2>1. PlaceOf(q) \in 0 .. m - 1
    BY <1>5, <1>7, <1>8
  <2>2. k \in 1 .. m /\ k - 1 = PlaceOf(q)
    BY <1>8, <2>1
  <2> HIDE DEF k
  <2>3. Requests[k] \in all /\ PlaceOf(Requests[k]) = PlaceOf(q)
    BY <1>9, <2>2
  <2>4. Key(Requests[k]) = Key(q)
    <3>1. Key(Requests[k]) \in S /\ Key(q) \in S
      BY <1>7, <2>3
    <3>2. PlaceIn(S, Key(Requests[k])) = PlaceIn(S, Key(q))
      BY <1>5, <2>3
    <3> QED
      BY <1>5, <3>1, <3>2, Ranks
  <2>5. Requests[k] = q
    BY <1>2, <2>3, <2>4 DEF Key
  <2> QED
    BY <2>2, <2>5
<1>13. Len(Requests) = m
  <2>1. Requests \in [1 .. m -> all]
    BY <1>9, <1>10, <1>4
  <2>2. Requests \in Seq(all)
    BY <1>8, <2>1
  <2>3. Len(Requests) \in Nat /\ DOMAIN Requests = 1 .. Len(Requests)
    BY <2>2
  <2> DEFINE a == Len(Requests)
  <2>4. a \in Nat /\ m \in Nat /\ 1 .. a = 1 .. m
    BY <1>8, <1>10, <2>3
  <2> HIDE DEF a
  <2>5. a = m
    BY <2>4
  <2> QED
    BY <2>5 DEF a
<1> QED
  BY <1>8, <1>9, <1>10, <1>11, <1>12, <1>13 DEF all, m

-----------------------------------------------------------------------------
(* The bytes of a row *)

(* The arithmetic of a part: where a byte of a block lies in a read that   *)
(* starts with block f and ends after block t.                             *)
LEMMA ByteInRead ==
  ASSUME NEW base \in Nat, NEW b \in Nat, NEW f \in Nat, NEW x \in Nat, NEW t \in Nat,
         NEW e \in 0 .. b - 1, f <= x, x <= t
  PROVE  /\ (base + f * b) + ((x - f) * b + e) = base + x * b + e
         /\ base + x * b + e < base + (t + 1) * b
<1>1. (x - f) * b = x * b - f * b /\ (t + 1) * b = t * b + b
  OBVIOUS
<1>2. x * b <= t * b
  BY ProductGrows
<1>3. x * b \in Nat /\ t * b \in Nat /\ f * b \in Nat /\ (x - f) * b \in Int
  OBVIOUS
<1> DEFINE u == x * b
           v == t * b
           w == f * b
           y == (x - f) * b
           z == (t + 1) * b
<1>4. /\ u \in Nat /\ v \in Nat /\ w \in Nat /\ y = u - w /\ z = v + b /\ u <= v
  BY <1>1, <1>2, <1>3
<1> HIDE DEF u, v, w, y, z
<1>5. (base + w) + (y + e) = base + u + e /\ base + u + e < base + z
  BY <1>4
<1> QED
  BY <1>5 DEF u, v, w, y, z

(* Layers lie after each other in a chunk. *)
LEMMA LayersApart ==
  ASSUME NEW lay, IsLayout(lay)
  PROVE  /\ \A j \in 1 .. nLayers(lay) + 1 : LayerStart(lay, j) \in Nat
         /\ \A i, j \in 1 .. nLayers(lay) + 1 : i <= j => LayerStart(lay, i) <= LayerStart(lay, j)
         /\ \A j \in Layers(lay) :
              LayerStart(lay, j + 1) = LayerStart(lay, j) + nBlocks(lay) * lay.bytes[j]
<1> DEFINE N == nBlocks(lay)
           m == nLayers(lay)
<1>1. N \in Nat
  BY RecordPlaces
<1>2. /\ m \in Nat /\ Layers(lay) = 1 .. m
      /\ \A j \in Layers(lay) : lay.bytes[j] \in Nat
  BY LayersAre
<1>3. /\ \A j \in 1 .. m + 1 : Cut(lay, j) \in Nat
      /\ \A j \in Layers(lay) : Cut(lay, j + 1) = Cut(lay, j) + lay.bytes[j]
      /\ \A i, j \in 1 .. m + 1 : i <= j => Cut(lay, i) <= Cut(lay, j)
  BY CutsAscend
<1>4. \A j : LayerStart(lay, j) = Cut(lay, j) * N
  BY DEF LayerStart
<1> HIDE DEF N, m
<1>5. ASSUME NEW j \in 1 .. m + 1 PROVE LayerStart(lay, j) \in Nat
  <2>1. Cut(lay, j) \in Nat
    BY <1>3
  <2>2. Cut(lay, j) * N \in Nat
    BY <1>1, <2>1
  <2> QED
    BY <1>4, <2>2
<1>6. ASSUME NEW i \in 1 .. m + 1, NEW j \in 1 .. m + 1, i <= j
      PROVE  LayerStart(lay, i) <= LayerStart(lay, j)
  <2>1. Cut(lay, i) \in Nat /\ Cut(lay, j) \in Nat /\ Cut(lay, i) <= Cut(lay, j)
    BY <1>3, <1>6
  <2>2. Cut(lay, i) * N <= Cut(lay, j) * N
    BY <1>1, <2>1, ProductGrows
  <2> QED
    BY <1>4, <2>2
<1>7. ASSUME NEW j \in Layers(lay)
      PROVE  LayerStart(lay, j + 1) = LayerStart(lay, j) + N * lay.bytes[j]
  <2> DEFINE b == lay.bytes[j]
             c == Cut(lay, j)
  <2>1. c \in Nat /\ b \in Nat /\ Cut(lay, j + 1) = c + b
    <3>1. j \in 1 .. m + 1
      BY <1>2
    <3> QED
      BY <1>2, <1>3, <3>1
  <2> HIDE DEF b, c
  <2>2. (c + b) * N = c * N + N * b
    BY <1>1, <2>1
  <2> QED
    BY <1>4, <2>1, <2>2 DEF b, c
<1> QED
  BY <1>5, <1>6, <1>7 DEF N, m

(* Byte e of layer j of an item's block, found in the part of a request    *)
(* that covers the item: a read of the layer or of the whole chunk.        *)
LEMMA PlaceInRequest ==
  ASSUME Typed, reqs = Requests, NEW i \in 1 .. n, NEW j \in 1 .. opts.layer,
         NEW e \in 0 .. layout.bytes[j] - 1, NEW r \in Fills(i, j)
  PROVE  /\ reqs[r].chunk = items[i].chunk
         /\ reqs[r].start + (PlaceInPart(r, i, j) + e)
              = LayerStart(layout, j) + items[i].block * layout.bytes[j] + e
         /\ reqs[r].start + (PlaceInPart(r, i, j) + e) < reqs[r].end
<1> DEFINE q == reqs[r]
           b == layout.bytes[j]
           x == items[i].block
           base == LayerStart(layout, j)
           m == nLayers(layout)
<1>1. r \in DOMAIN Requests /\ q.from <= i /\ i <= q.to /\ q.layer \in {j, Whole}
  BY DEF Fills
<1>2. q \in Chosen
  BY <1>1, RequestsListAll
<1>3. /\ IsLayout(layout) /\ opts.layer \in 1 .. m /\ m \in Nat
      /\ Layers(layout) = 1 .. m /\ \A l \in Layers(layout) : layout.bytes[l] \in Nat \ {0}
  BY OptionsAre, LayersAre
<1>4. j \in Layers(layout) /\ b \in Nat /\ j \in 1 .. m + 1 /\ j + 1 \in 1 .. m + 1
      /\ opts.layer + 1 \in 1 .. m + 1 /\ j + 1 <= opts.layer + 1 /\ j # Whole
  BY <1>3 DEF Whole
<1>5. /\ base \in Nat /\ LayerStart(layout, j + 1) = base + nBlocks(layout) * b
      /\ LayerStart(layout, j + 1) <= LayerStart(layout, opts.layer + 1)
      /\ LayerStart(layout, j + 1) \in Nat /\ LayerStart(layout, opts.layer + 1) \in Nat
  BY <1>3, <1>4, LayersApart
<1>6. x \in 0 .. nBlocks(layout) - 1 /\ x \in Nat /\ nBlocks(layout) \in Nat /\ n \in Nat
  BY ItemsAre, OptionsAre
<1>7. CASE q.layer = Whole
  <2>1. q.chunk \in Dense /\ q = WholeChunk(q.chunk)
    BY <1>2, <1>7, ChosenAre
  <2> DEFINE c == q.chunk
  <2>2. c \in Dense /\ q = WholeChunk(c)
    BY <2>1
  <2> HIDE DEF c
  <2>3. /\ q.start = 0 /\ q.end = PrefixEnd
        /\ \A k \in 1 .. n : q.from <= k /\ k <= q.to <=> items[k].chunk = c
    BY <2>2, WholeChunkAre
  <2>4. items[i].chunk = c
    BY <1>1, <2>3
  <2>5. PlaceInPart(r, i, j) = base + x * b
    BY <1>7 DEF PlaceInPart
  <2>6. q.end = LayerStart(layout, opts.layer + 1)
    BY <2>3 DEF PrefixEnd, LayerStart
  <2> HIDE DEF b, x, base, q
  <2>7. x * b + e \in 0 .. nBlocks(layout) * b - 1
    BY <1>4, <1>6, TwoDigits DEF b
  <2>8. x * b \in Nat /\ nBlocks(layout) * b \in Nat /\ e \in Nat
    BY <1>4, <1>6 DEF b
  <2>9. /\ 0 + (base + x * b + e) = base + x * b + e
        /\ base + x * b + e < base + nBlocks(layout) * b
    BY <1>5, <2>7, <2>8
  <2>10. /\ q.start + (PlaceInPart(r, i, j) + e) = base + x * b + e
         /\ q.start + (PlaceInPart(r, i, j) + e) < q.end
    BY <1>5, <2>3, <2>5, <2>6, <2>8, <2>9
  <2> QED
    BY <2>4, <2>10 DEF c, q, b, x, base
<1>8. CASE q.layer # Whole
  <2>1. q \in PerLayer /\ q.layer = j
    BY <1>1, <1>2, <1>8, ChosenAre
  <2>2. /\ q.from \in 1 .. n /\ q.to \in 1 .. n
        /\ \A k \in q.from .. q.to : k \in 1 .. n /\ items[k].chunk = q.chunk
        /\ q.first = items[q.from].block
        /\ q.start = base + items[q.from].block * b
        /\ q.end = base + (items[q.to].block + 1) * b
    BY <2>1, PerLayerAre
  <2> DEFINE f == items[q.from].block
             t == items[q.to].block
  <2>3. /\ items[i].chunk = q.chunk
        /\ items[q.from].chunk = q.chunk /\ items[q.to].chunk = q.chunk
    <3>1. i \in q.from .. q.to /\ q.from \in q.from .. q.to /\ q.to \in q.from .. q.to
      BY <1>1, <1>6, <2>2
    <3> QED
      BY <2>2, <3>1
  <2>4. f \in Nat /\ t \in Nat
    BY <2>2, ItemsAre
  <2>5. f <= x
    BY <1>1, <2>2, <2>3, ItemsAscend
  <2>6. x <= t
    BY <1>1, <2>2, <2>3, ItemsAscend
  <2>7. PlaceInPart(r, i, j) = (x - f) * b
    BY <1>8, <2>2 DEF PlaceInPart
  <2>8. q.start = base + f * b /\ q.end = base + (t + 1) * b
    BY <2>2
  <2> HIDE DEF f, t, q, x, base, b
  <2>9. /\ (base + f * b) + ((x - f) * b + e) = base + x * b + e
        /\ base + x * b + e < base + (t + 1) * b
    BY <1>4, <1>5, <1>6, <2>4, <2>5, <2>6, ByteInRead DEF b
  <2>10. /\ q.start + (PlaceInPart(r, i, j) + e) = base + x * b + e
         /\ q.start + (PlaceInPart(r, i, j) + e) < q.end
    BY <2>7, <2>8, <2>9, Zenon
  <2> QED
    BY <2>3, <2>10 DEF q, b, x, base
<1> QED
  BY <1>7, <1>8

(* Some request covers every layer of every item. *)
LEMMA EveryByteRequested ==
  ASSUME Typed, reqs = Requests, NEW i \in 1 .. n, NEW j \in 1 .. opts.layer
  PROVE  /\ Fills(i, j) # {} /\ Fills(i, j) \subseteq DOMAIN reqs
         /\ Max(Fills(i, j)) \in Fills(i, j)
<1> DEFINE c == items[i].chunk
<1>1. /\ Cardinality(Chosen) \in Nat /\ DOMAIN Requests = 1 .. Cardinality(Chosen)
      /\ \A k \in DOMAIN Requests : Requests[k] \in Chosen
      /\ \A k, l \in DOMAIN Requests : Requests[k] = Requests[l] => k = l
      /\ \A q \in Chosen : \E k \in DOMAIN Requests : Requests[k] = q
  BY RequestsListAll
<1>2. ASSUME NEW q \in Chosen, q.from <= i, i <= q.to, q.layer \in {j, Whole}
      PROVE  Fills(i, j) # {}
  <2>1. PICK k \in DOMAIN Requests : Requests[k] = q
    BY <1>1
  <2> QED
    BY <1>2, <2>1 DEF Fills
<1>3. Fills(i, j) # {}
  <2>1. CASE c \in Dense
    <3> DEFINE q == WholeChunk(c)
    <3>1. q \in Chosen
      BY <2>1 DEF Chosen
    <3> HIDE DEF c
    <3>2. /\ q.layer = Whole
          /\ \A k \in 1 .. n : q.from <= k /\ k <= q.to <=> items[k].chunk = c
      BY <2>1, WholeChunkAre
    <3>3. q.from <= i /\ i <= q.to
      BY <3>2 DEF c
    <3> QED
      BY <1>2, <3>1, <3>2, <3>3
  <2>2. CASE c \notin Dense
    <3>1. PICK r \in ItemRuns : i \in r.from .. r.to
      BY RunOfItem
    <3> DEFINE q == LayerRead(j, r)
    <3>2. q \in PerLayer
      BY DEF PerLayer, ItemRuns
    <3>3. q.layer = j /\ q.from = r.from /\ q.to = r.to /\ q.chunk = items[r.from].chunk
      BY DEF LayerRead
    <3> HIDE DEF q
    <3>4. /\ \A k \in r.from .. r.to : items[k].chunk = items[r.from].chunk
          /\ r.from \in 1 .. n /\ r.to \in 1 .. n /\ n \in Nat
      BY RunsAre, ItemsAre
    <3>5. q.chunk = c
      BY <3>1, <3>3, <3>4
    <3>6. q \in Chosen
      BY <2>2, <3>2, <3>5 DEF Chosen
    <3>7. q.from <= i /\ i <= q.to
      BY <3>1, <3>3, <3>4
    <3> QED
      BY <1>2, <3>3, <3>6, <3>7
  <2> QED
    BY <2>1, <2>2
<1>4. Fills(i, j) \subseteq DOMAIN reqs /\ Fills(i, j) \subseteq 1 .. Cardinality(Chosen)
  BY <1>1 DEF Fills
<1>5. Max(Fills(i, j)) \in Fills(i, j)
  BY <1>1, <1>3, <1>4, GreatestExists
<1> QED
  BY <1>3, <1>4, <1>5

-----------------------------------------------------------------------------
(* The inductive invariant *)

(* Once planned, the requests are those of the plan. *)
Planned == reqs = IF pc = "plan" THEN <<>> ELSE Requests

(* What has arrived stands at its request's place, and all of the batches  *)
(* that are over has arrived.                                              *)
Gathered ==
  /\ DOMAIN st = DOMAIN reqs /\ DOMAIN parts = DOMAIN reqs
  /\ \A r \in DOMAIN reqs : st[r] = "arrived" => parts[r] = r
  /\ read \in Nat /\ \A r \in DOMAIN reqs : r <= read => st[r] = "arrived"
  /\ pc = "plan" => read = 0

IInv == Typed /\ Planned /\ Gathered /\ RowsRight

(* The rows are right when all parts are there. *)
LEMMA RowsAreRight ==
  ASSUME Typed, reqs = Requests, Gathered, read = Len(reqs),
         NEW i \in 1 .. n, NEW k \in 0 .. Cut(layout, opts.layer + 1) - 1,
         NEW x \in Blocks(layout), RecordPlace(layout, x) = items[i].block
  PROVE  RowByte(i, k) = [chunk |-> items[i].chunk, at |-> [block |-> x, byte |-> k]]
<1> DEFINE Of(l) == Cut(layout, l) <= k /\ k < Cut(layout, l + 1)
           j == CHOOSE l \in 1 .. opts.layer : Of(l)
           r == Max(Fills(i, j))
           e == k - Cut(layout, j)
           q == reqs[r]
<1>1. IsLayout(layout) /\ opts.layer \in Layers(layout) /\ opts.layer \in 1 .. nLayers(layout)
      /\ nLayers(layout) \in Nat /\ Layers(layout) = 1 .. nLayers(layout)
  BY OptionsAre, LayersAre
<1>2. j \in 1 .. opts.layer /\ Of(j)
  <2>1. \E l \in 1 .. opts.layer : Of(l)
    BY <1>1, LayerOfByte
  <2> HIDE DEF Of
  <2> QED
    BY <2>1
<1>3. RowByte(i, k) = IF Fills(i, j) = {} THEN Unset
                      ELSE PartByte(r, PlaceInPart(r, i, j) + k - Cut(layout, j))
  BY DEF RowByte
<1> HIDE DEF j
<1>4. j \in Layers(layout) /\ j \in 1 .. nLayers(layout) + 1
  BY <1>1, <1>2
<1>5. /\ Cut(layout, j) \in Nat /\ Cut(layout, j + 1) = Cut(layout, j) + layout.bytes[j]
      /\ layout.bytes[j] \in Nat /\ Cut(layout, opts.layer + 1) \in Nat
  <2>1. opts.layer + 1 \in 1 .. nLayers(layout) + 1
    BY <1>1
  <2> QED
    BY <1>1, <1>4, <2>1, CutsAscend, LayersAre
<1>6. e \in 0 .. layout.bytes[j] - 1 /\ Cut(layout, j) + e = k /\ k \in Nat
  BY <1>2, <1>5
<1>7. Fills(i, j) # {} /\ r \in Fills(i, j) /\ r \in DOMAIN reqs
  BY <1>2, EveryByteRequested
<1>8. parts[r] = r
  <2>1. /\ Cardinality(Chosen) \in Nat /\ DOMAIN reqs = 1 .. Cardinality(Chosen)
        /\ Len(reqs) = Cardinality(Chosen)
    BY RequestsListAll
  <2>2. r <= read
    BY <1>7, <2>1
  <2> HIDE DEF r
  <2> QED
    BY <1>7, <2>2 DEF Gathered
<1> HIDE DEF r, e
<1>9. /\ q.chunk = items[i].chunk
      /\ q.start + (PlaceInPart(r, i, j) + e)
           = LayerStart(layout, j) + items[i].block * layout.bytes[j] + e
      /\ q.start + (PlaceInPart(r, i, j) + e) < q.end
  BY <1>2, <1>6, <1>7, PlaceInRequest
<1>10. PlaceInPart(r, i, j) + k - Cut(layout, j) = PlaceInPart(r, i, j) + e
  <2>1. PlaceInPart(r, i, j) \in Int
    <3> DEFINE b == layout.bytes[j]
               y == items[i].block
    <3>1. b \in Nat /\ y \in Nat /\ LayerStart(layout, j) \in Nat
      BY <1>1, <1>4, <1>5, ItemsAre, LayersApart
    <3>2. reqs[r].layer = Whole \/ reqs[r].first \in Nat
      <4>1. q \in Chosen
        BY <1>7, RequestsListAll
      <4>2. q.layer = Whole \/ q \in PerLayer
        BY <4>1, ChosenAre
      <4>3. q \in PerLayer => q.first \in Nat
        <5> SUFFICES ASSUME q \in PerLayer PROVE q.first \in Nat
          OBVIOUS
        <5>1. q.from \in 1 .. n /\ q.first = items[q.from].block
          BY PerLayerAre
        <5> HIDE DEF q
        <5> QED
          BY <5>1, ItemsAre
      <4> QED
        BY <4>2, <4>3
    <3>3. PlaceInPart(r, i, j) = IF reqs[r].layer = Whole THEN LayerStart(layout, j) + y * b
                                 ELSE (y - reqs[r].first) * b
      BY DEF PlaceInPart
    <3> HIDE DEF b, y
    <3> QED
      BY <3>1, <3>2, <3>3
  <2> QED
    BY <1>5, <1>6, <2>1 DEF e
<1>11. PartByte(r, PlaceInPart(r, i, j) + e)
         = [chunk |-> items[i].chunk,
            at |-> Stored(layout, LayerStart(layout, j) + items[i].block * layout.bytes[j] + e)]
  BY <1>8, <1>9 DEF PartByte
<1>12. Stored(layout, LayerStart(layout, j) + RecordPlace(layout, x) * layout.bytes[j] + e)
         = [block |-> x, byte |-> Cut(layout, j) + e]
  <2>1. BlocksInPlace(layout)
    BY <1>1, EveryBlockInPlace
  <2> QED
    BY <1>4, <1>6, <2>1 DEF BlocksInPlace
<1>13. Stored(layout, LayerStart(layout, j) + items[i].block * layout.bytes[j] + e)
         = [block |-> x, byte |-> k]
  BY <1>6, <1>12, Zenon
<1> QED
  BY <1>3, <1>7, <1>10, <1>11, <1>13, Zenon

(* It holds at first. *)
LEMMA InitIInv == Init => IInv
<1> SUFFICES ASSUME Init PROVE IInv
  OBVIOUS
<1>1. Typed
  BY DEF Init, Typed
<1>2. Planned /\ RowsRight
  BY DEF Init, Planned, RowsRight
<1>3. Gathered
  BY DEF Init, Gathered
<1> QED
  BY <1>1, <1>2, <1>3 DEF IInv

(* Every step keeps the inputs typed. *)
LEMMA NextTyped ==
  ASSUME Typed, [Next]_vars
  PROVE  Typed' /\ UNCHANGED <<layout, opts, items>>
<1>1. UNCHANGED <<layout, opts, items>>
  BY DEF Next, vars, Plan, Fetch, Arrive, Fail, EndBatch, Assemble
<1> QED
  BY <1>1 DEF Typed

(* The requests of a plan do not change with what is read. *)
LEMMA NextPlanned ==
  ASSUME IInv, [Next]_vars
  PROVE  Planned'
<1>1. UNCHANGED <<layout, opts, items>>
  BY NextTyped DEF IInv
<1>2. Requests' = Requests
  BY <1>1 DEF Requests, Chosen, Ahead, PerLayer, LayerRead, Dense, WholeChunk, Whole, PrefixEnd, n
<1>3. CASE Plan
  BY <1>2, <1>3 DEF Plan, Planned
<1>4. ASSUME NEW r \in DOMAIN reqs, Fetch(r) \/ Arrive(r) \/ Fail(r) PROVE Planned'
  BY <1>2, <1>4 DEF IInv, Planned, Fetch, Arrive, Fail
<1>5. CASE EndBatch
  BY <1>2, <1>5 DEF IInv, Planned, EndBatch
<1>6. CASE Assemble
  BY <1>2, <1>6 DEF IInv, Planned, Assemble
<1>7. CASE UNCHANGED vars
  BY <1>2, <1>7 DEF IInv, Planned, vars
<1> QED
  BY <1>3, <1>4, <1>5, <1>6, <1>7 DEF Next

(* Parts stay at their places, and a batch ends when all of it is there. *)
LEMMA NextGathered ==
  ASSUME IInv, [Next]_vars
  PROVE  Gathered'
<1>1. Gathered /\ Planned /\ Typed
  BY DEF IInv
<1>2. CASE Plan
  <2>1. /\ read' = 0 /\ reqs' = Requests /\ pc' = "read"
        /\ st' = [r \in DOMAIN reqs' |-> "queued"] /\ parts' = [r \in DOMAIN reqs' |-> Unset]
    BY <1>1, <1>2 DEF Plan, Gathered
  <2>2. \A r \in DOMAIN Requests : ~(r <= 0)
    <3>1. DOMAIN Requests = 1 .. Cardinality(Chosen) /\ Cardinality(Chosen) \in Nat
      BY <1>1, RequestsListAll
    <3> QED
      BY <3>1
  <2> QED
    BY <2>1, <2>2 DEF Gathered
<1>3. ASSUME NEW r \in DOMAIN reqs, Fetch(r) PROVE Gathered'
  BY <1>1, <1>3 DEF Gathered, Fetch
<1>4. ASSUME NEW r \in DOMAIN reqs, Arrive(r) PROVE Gathered'
  BY <1>1, <1>4 DEF Gathered, Arrive
<1>5. ASSUME NEW r \in DOMAIN reqs, Fail(r) PROVE Gathered'
  BY <1>1, <1>5 DEF Gathered, Fail
<1>6. CASE EndBatch
  <2>1. /\ pc = "read" /\ Batch # {} /\ (\A r \in Batch : st[r] = "arrived") /\ read' = Max(Batch)
        /\ UNCHANGED <<layout, opts, items, pc, reqs, st, parts, rows>>
    BY <1>6 DEF EndBatch
  <2>2. reqs = Requests
    BY <1>1, <2>1 DEF Planned
  <2>3. DOMAIN reqs = 1 .. Cardinality(Chosen) /\ Cardinality(Chosen) \in Nat
    BY <1>1, <2>2, RequestsListAll
  <2>4. Batch \subseteq 1 .. Cardinality(Chosen)
    BY <2>3 DEF Batch
  <2>5. Max(Batch) \in Batch
    BY <2>1, <2>3, <2>4, GreatestExists
  <2>6. read' \in Nat /\ read' <= read + opts.batch
    <3> DEFINE b == Max(Batch)
    <3>1. b \in 1 .. Cardinality(Chosen) /\ b \in Batch /\ read' = b
      BY <2>1, <2>4, <2>5
    <3> HIDE DEF b
    <3>2. b <= read + opts.batch
      BY <3>1 DEF Batch
    <3> QED
      BY <2>3, <3>1, <3>2
  <2>7. ASSUME NEW r \in DOMAIN reqs, r <= read' PROVE st[r] = "arrived"
    <3>1. CASE r <= read
      BY <1>1, <3>1 DEF Gathered
    <3>2. CASE ~(r <= read)
      <4>1. read < r /\ r <= read + opts.batch
        <5>1. r \in Nat /\ read \in Nat /\ opts.batch \in Nat
          BY <1>1, <2>3, OptionsAre DEF Gathered
        <5> QED
          BY <2>6, <2>7, <3>2, <5>1
      <4> QED
        BY <2>1, <4>1 DEF Batch
    <3> QED
      BY <3>1, <3>2
  <2> QED
    BY <1>1, <2>1, <2>6, <2>7 DEF Gathered
<1>7. CASE Assemble
  BY <1>1, <1>7 DEF Gathered, Assemble
<1>8. CASE UNCHANGED vars
  BY <1>1, <1>8 DEF Gathered, vars
<1> QED
  BY <1>2, <1>3, <1>4, <1>5, <1>6, <1>7, <1>8 DEF Next

(* Rows are put together only when all parts are there. *)
LEMMA NextRows ==
  ASSUME IInv, [Next]_vars
  PROVE  RowsRight'
<1>1. Gathered /\ Planned /\ Typed /\ RowsRight
  BY DEF IInv
<1>2. CASE Assemble
  <2>1. /\ pc = "read" /\ read = Len(reqs)
        /\ rows' = [i \in 1 .. n |->
                       [k \in 0 .. Cut(layout, opts.layer + 1) - 1 |-> RowByte(i, k)]]
        /\ UNCHANGED <<layout, opts, items>>
    BY <1>2 DEF Assemble
  <2>2. reqs = Requests
    BY <1>1, <2>1 DEF Planned
  <2>3. n' = n
    BY <2>1 DEF n
  <2> SUFFICES ASSUME NEW i \in 1 .. n
               PROVE  LET x == CHOOSE y \in Blocks(layout) :
                                 RecordPlace(layout, y) = items[i].block
                      IN  rows'[i] = [k \in 0 .. Cut(layout, opts.layer + 1) - 1 |->
                                        [chunk |-> items[i].chunk,
                                         at |-> [block |-> x, byte |-> k]]]
    BY <2>1, <2>3 DEF RowsRight
  <2> DEFINE x == CHOOSE y \in Blocks(layout) : RecordPlace(layout, y) = items[i].block
             K == 0 .. Cut(layout, opts.layer + 1) - 1
  <2>4. x \in Blocks(layout) /\ RecordPlace(layout, x) = items[i].block
    <3>1. items[i].block \in 0 .. nBlocks(layout) - 1 /\ IsLayout(layout)
      BY <1>1, ItemsAre, OptionsAre
    <3>2. \E y \in Blocks(layout) : RecordPlace(layout, y) = items[i].block
      BY <3>1, RecordPlaces
    <3> QED
      BY <3>2
  <2> HIDE DEF x
  <2>5. \A k \in K : RowByte(i, k) = [chunk |-> items[i].chunk, at |-> [block |-> x, byte |-> k]]
    BY <1>1, <2>1, <2>2, <2>4, RowsAreRight
  <2>6. rows'[i] = [k \in K |-> RowByte(i, k)]
    BY <2>1
  <2> HIDE DEF K
  <2>7. [k \in K |-> RowByte(i, k)]
          = [k \in K |-> [chunk |-> items[i].chunk, at |-> [block |-> x, byte |-> k]]]
    BY <2>5
  <2> QED
    BY <2>6, <2>7 DEF x, K
<1>3. CASE Plan
  BY <1>3 DEF Plan, RowsRight
<1>4. ASSUME NEW r \in DOMAIN reqs, Fetch(r) \/ Arrive(r) \/ Fail(r) PROVE RowsRight'
  BY <1>4 DEF RowsRight, Fetch, Arrive, Fail
<1>5. CASE EndBatch
  BY <1>5 DEF RowsRight, EndBatch
<1>6. CASE UNCHANGED vars
  BY <1>1, <1>6 DEF RowsRight, n, vars
<1> QED
  BY <1>2, <1>3, <1>4, <1>5, <1>6 DEF Next

(* The invariant is one. *)
LEMMA Invariance == Spec => []IInv
<1>1. IInv /\ [Next]_vars => IInv'
  <2> SUFFICES ASSUME IInv, [Next]_vars PROVE IInv'
    OBVIOUS
  <2> QED
    BY NextTyped, NextPlanned, NextGathered, NextRows DEF IInv
<1> QED
  BY InitIInv, <1>1, PTL DEF Spec

-----------------------------------------------------------------------------
(* The theorems *)

(* RowsRight, for every layout, list of blocks, gap, limit of a chunk's    *)
(* reads, batch size and order of arrival: what is decoded for a listed    *)
(* block is the stream of the block whose record was classified.           *)
THEOREM RowsAlwaysRight == Spec => []RowsRight
<1>1. IInv => RowsRight
  BY DEF IInv
<1> QED
  BY Invariance, <1>1, PTL

(* What a read of a layer takes lies in the layer. *)
LEMMA ReadInLayer ==
  ASSUME Typed, NEW q \in PerLayer
  PROVE  /\ q.start \in Nat /\ q.end \in Nat
         /\ LayerStart(layout, q.layer) <= q.start
         /\ q.end <= LayerStart(layout, q.layer + 1)
<1> DEFINE j == q.layer
           b == layout.bytes[j]
           N == nBlocks(layout)
           f == items[q.from].block
           t == items[q.to].block
           base == LayerStart(layout, j)
<1>1. /\ q.layer \in Layers(layout) /\ q.from \in 1 .. n /\ q.to \in 1 .. n
      /\ q.start = base + f * b /\ q.end = base + (t + 1) * b
  BY PerLayerAre
<1>2. IsLayout(layout) /\ N \in Nat
  BY OptionsAre
<1>3. b \in Nat /\ base \in Nat /\ LayerStart(layout, j + 1) = base + N * b
  <2>1. j \in 1 .. nLayers(layout) + 1 /\ b \in Nat
    BY <1>1, <1>2, LayersAre
  <2> QED
    BY <1>1, <1>2, <2>1, LayersApart
<1>4. f \in Nat /\ t \in Nat /\ t + 1 \in Int /\ t + 1 <= N
  <2>1. t \in 0 .. N - 1 /\ f \in 0 .. N - 1
    BY <1>1, ItemsAre
  <2> QED
    BY <1>2, <2>1
<1> HIDE DEF b, N, f, t, base
<1>5. (t + 1) * b <= N * b
  BY <1>2, <1>3, <1>4, ProductGrows
<1>6. f * b \in Nat /\ (t + 1) * b \in Nat /\ N * b \in Nat
  BY <1>2, <1>3, <1>4
<1> DEFINE u == f * b
           v == (t + 1) * b
           w == N * b
<1>7. u \in Nat /\ v \in Nat /\ w \in Nat /\ v <= w /\ q.start = base + u /\ q.end = base + v
      /\ LayerStart(layout, j + 1) = base + w
  BY <1>1, <1>3, <1>5, <1>6
<1> HIDE DEF u, v, w
<1>8. /\ q.start \in Nat /\ q.end \in Nat /\ base <= q.start
      /\ q.end <= LayerStart(layout, j + 1)
  BY <1>3, <1>7
<1> QED
  BY <1>8 DEF base

(* Two reads of one chunk take no byte twice. *)
LEMMA ReadsApart ==
  ASSUME Typed, NEW q \in PerLayer, NEW r \in PerLayer, q # r, q.chunk = r.chunk
  PROVE  q.end <= r.start \/ r.end <= q.start
<1> DEFINE b(p) == layout.bytes[p.layer]
           N == nLayers(layout)
<1>1. /\ IsLayout(layout) /\ N \in Nat /\ Layers(layout) = 1 .. N
      /\ \A j \in Layers(layout) : layout.bytes[j] \in Nat
  BY OptionsAre, LayersAre
<1>2. \A p \in PerLayer :
        /\ p.layer \in 1 .. N /\ p.start \in Nat /\ p.end \in Nat
        /\ LayerStart(layout, p.layer) <= p.start /\ p.end <= LayerStart(layout, p.layer + 1)
  BY <1>1, PerLayerAre, ReadInLayer
<1>3. ASSUME NEW p \in PerLayer, NEW s \in PerLayer, p.layer < s.layer
      PROVE  p.end <= s.start
  <2>1. /\ p.layer + 1 \in 1 .. N + 1 /\ s.layer \in 1 .. N + 1 /\ p.layer + 1 <= s.layer
    BY <1>1, <1>2, <1>3
  <2>2. /\ LayerStart(layout, p.layer + 1) <= LayerStart(layout, s.layer)
        /\ LayerStart(layout, p.layer + 1) \in Nat /\ LayerStart(layout, s.layer) \in Nat
    BY <1>1, <2>1, LayersApart
  <2> QED
    BY <1>2, <2>2
<1>4. ASSUME NEW p \in PerLayer, NEW s \in PerLayer, p.layer = s.layer, p.chunk = s.chunk,
             p.to < s.from
      PROVE  p.end <= s.start
  <2> DEFINE t == items[p.to].block
             f == items[s.from].block
             a == layout.bytes[s.layer]
             base == LayerStart(layout, s.layer)
  <2>1. /\ p.to \in 1 .. n /\ p.from \in 1 .. n /\ p.from <= p.to
        /\ \A i \in p.from .. p.to : items[i].chunk = p.chunk
        /\ p.end = base + (t + 1) * a
    BY <1>4, PerLayerAre
  <2>2. /\ s.from \in 1 .. n /\ s.to \in 1 .. n /\ s.from <= s.to
        /\ \A i \in s.from .. s.to : items[i].chunk = s.chunk
        /\ s.start = base + f * a
    BY PerLayerAre
  <2>3. n \in Nat
    BY ItemsAre
  <2>4. items[p.to].chunk = items[s.from].chunk
    <3>1. p.to \in p.from .. p.to /\ s.from \in s.from .. s.to
      BY <2>1, <2>2, <2>3
    <3> QED
      BY <1>4, <2>1, <2>2, <3>1
  <2>5. p.to <= s.from /\ p.to # s.from
    BY <1>4, <2>1, <2>2, <2>3
  <2>6. t < f
    BY <2>1, <2>2, <2>4, <2>5, ItemsAscend
  <2>7. t \in Nat /\ f \in Nat /\ a \in Nat
    <3>1. s.layer \in Layers(layout)
      BY <1>1, <1>2
    <3> QED
      BY <1>1, <2>1, <2>2, <3>1, ItemsAre
  <2>8. base \in Nat
    <3>1. s.layer \in 1 .. N + 1
      BY <1>1, <1>2
    <3> QED
      BY <1>1, <3>1, LayersApart
  <2> HIDE DEF t, f, a, base
  <2>9. (t + 1) * a <= f * a
    <3>1. t + 1 \in Int /\ t + 1 <= f
      BY <2>6, <2>7
    <3> QED
      BY <2>7, <3>1, ProductGrows
  <2>10. (t + 1) * a \in Int /\ f * a \in Int
    BY <2>7
  <2> QED
    BY <2>1, <2>2, <2>8, <2>9, <2>10
<1>5. q.layer = r.layer => q.to < r.from \/ r.to < q.from
  <2> SUFFICES ASSUME q.layer = r.layer PROVE q.to < r.from \/ r.to < q.from
    OBVIOUS
  <2>1. PICK a \in ItemRuns : q = LayerRead(q.layer, a) /\ q.from = a.from /\ q.to = a.to
    BY PerLayerAre
  <2>2. PICK d \in ItemRuns : r = LayerRead(r.layer, d) /\ r.from = d.from /\ r.to = d.to
    BY PerLayerAre
  <2>3. a # d
    <3>1. a = d => LayerRead(q.layer, a) = LayerRead(r.layer, d)
      OBVIOUS
    <3> QED
      BY <2>1, <2>2, <3>1, Zenon
  <2>4. a.to < d.from \/ d.to < a.from
    BY <2>3, RunsApart
  <2> QED
    BY <2>1, <2>2, <2>4
<1>6. q.layer < r.layer \/ r.layer < q.layer \/ q.layer = r.layer
  BY <1>1, <1>2
<1> QED
  BY <1>3, <1>4, <1>5, <1>6

(* The reads of a plan are few, disjoint and within the chosen layer. *)
LEMMA PlanIsTight ==
  ASSUME Typed, Planned
  PROVE  RequestsTight
<1>1. CASE pc = "plan"
  <2>1. reqs = <<>> /\ DOMAIN reqs = {}
    BY <1>1 DEF Planned
  <2>2. RequestsBounded
    <3>1. \A c : {r \in DOMAIN reqs : reqs[r].chunk = c} = {}
      BY <2>1
    <3>2. Cardinality({}) <= opts.maxRequests
      <4>1. Cardinality({}) = 0 /\ opts.maxRequests \in Nat
        BY FS_EmptySet, OptionsAre
      <4> QED
        BY <4>1
    <3> QED
      BY <3>1, <3>2 DEF RequestsBounded
  <2>3. NoByteTwice /\ PrefixOnly
    BY <2>1 DEF NoByteTwice, PrefixOnly
  <2> QED
    BY <2>2, <2>3 DEF RequestsTight
<1>2. CASE pc # "plan"
  <2>1. reqs = Requests
    BY <1>2 DEF Planned
  <2>2. /\ \A k \in DOMAIN reqs : reqs[k] \in Chosen
        /\ \A k, l \in DOMAIN reqs : reqs[k] = reqs[l] => k = l
    BY <2>1, RequestsListAll
  <2>3. ASSUME NEW c \in Chunks
        PROVE  Cardinality({r \in DOMAIN reqs : reqs[r].chunk = c}) <= opts.maxRequests
    <3> DEFINE A == {r \in DOMAIN reqs : reqs[r].chunk = c}
               B == {q \in Chosen : q.chunk = c}
               f == [r \in A |-> reqs[r]]
    <3>1. IsFiniteSet(B) /\ Cardinality(B) <= opts.maxRequests /\ opts.maxRequests \in Nat
      BY ChosenFew, OptionsAre
    <3>2. f \in [A -> B]
      BY <2>2
    <3>3. \A k, l \in A : f[k] = f[l] => k = l
      BY <2>2
    <3> HIDE DEF A, B
    <3>4. f \in Injection(A, B)
      BY <3>2, <3>3 DEF Injection, IsInjective
    <3> HIDE DEF f
    <3>5. IsFiniteSet(A) /\ Cardinality(A) <= Cardinality(B)
      BY <3>1, <3>4, FS_Injection
    <3>6. Cardinality(A) \in Nat /\ Cardinality(B) \in Nat
      BY <3>1, <3>5, FS_CardinalityType
    <3> QED
      BY <3>1, <3>5, <3>6 DEF A
  <2>4. ASSUME NEW k \in DOMAIN reqs, NEW l \in DOMAIN reqs, k # l, reqs[k].chunk = reqs[l].chunk
        PROVE  reqs[k].end <= reqs[l].start \/ reqs[l].end <= reqs[k].start
    <3> DEFINE q == reqs[k]
               r == reqs[l]
    <3>1. q \in Chosen /\ r \in Chosen /\ q # r /\ q.chunk = r.chunk
      BY <2>2, <2>4
    <3> HIDE DEF q, r
    <3>2. CASE q.chunk \in Dense
      <4>1. q = WholeChunk(q.chunk) /\ r = WholeChunk(r.chunk)
        BY <3>1, <3>2, ChosenAre
      <4> QED
        BY <3>1, <4>1
    <3>3. CASE q.chunk \notin Dense
      <4>1. q \in PerLayer /\ r \in PerLayer
        BY <3>1, <3>3, ChosenAre
      <4> QED
        BY <3>1, <4>1, ReadsApart DEF q, r
    <3> QED
      BY <3>2, <3>3
  <2>5. ASSUME NEW k \in DOMAIN reqs, NEW o \in reqs[k].start .. reqs[k].end - 1
        PROVE  o < LayerStart(layout, opts.layer + 1)
    <3> DEFINE q == reqs[k]
               last == LayerStart(layout, opts.layer + 1)
    <3>1. q \in Chosen /\ o \in q.start .. q.end - 1
      BY <2>2
    <3>2. /\ IsLayout(layout) /\ opts.layer \in 1 .. nLayers(layout) /\ nLayers(layout) \in Nat
      BY OptionsAre, LayersAre
    <3>3. last \in Nat
      <4>1. opts.layer + 1 \in 1 .. nLayers(layout) + 1
        BY <3>2
      <4> QED
        BY <3>2, <4>1, LayersApart
    <3>4. q.start \in Nat /\ q.end \in Nat /\ q.end <= last
      <4>1. CASE q \in PerLayer
        <5> HIDE DEF q, last
        <5>1. /\ q.layer \in 1 .. opts.layer /\ q.start \in Nat /\ q.end \in Nat
              /\ q.end <= LayerStart(layout, q.layer + 1)
          BY <4>1, PerLayerAre, ReadInLayer
        <5>2. /\ q.layer + 1 \in 1 .. nLayers(layout) + 1
              /\ opts.layer + 1 \in 1 .. nLayers(layout) + 1 /\ q.layer + 1 <= opts.layer + 1
          BY <3>2, <5>1
        <5>3. /\ LayerStart(layout, q.layer + 1) <= last
              /\ LayerStart(layout, q.layer + 1) \in Nat
          BY <3>2, <5>2, LayersApart DEF last
        <5> QED
          BY <3>3, <5>1, <5>3
      <4>2. CASE q.chunk \in Dense /\ q = WholeChunk(q.chunk)
        <5> DEFINE c == q.chunk
        <5>1. c \in Dense /\ q = WholeChunk(c)
          BY <4>2
        <5> HIDE DEF c
        <5>2. q.start = 0 /\ q.end = PrefixEnd
          BY <5>1, WholeChunkAre
        <5>3. PrefixEnd = last
          BY DEF PrefixEnd, LayerStart
        <5> HIDE DEF q, last
        <5> QED
          BY <3>3, <5>2, <5>3
      <4> HIDE DEF q
      <4> QED
        BY <3>1, <4>1, <4>2, ChosenAre
    <3> HIDE DEF q, last
    <3>5. o < last
      BY <3>1, <3>3, <3>4
    <3> QED
      BY <3>5 DEF last
  <2> QED
    BY <2>3, <2>4, <2>5 DEF RequestsTight, RequestsBounded, NoByteTwice, PrefixOnly
<1> QED
  BY <1>1, <1>2

(* RequestsTight, for every query: no chunk takes more reads than          *)
(* max_chunk_requests over all layers, no byte is read twice, and none     *)
(* above the chosen layer.                                                 *)
THEOREM RequestsAlwaysTight == Spec => []RequestsTight
<1>1. IInv => RequestsTight
  BY PlanIsTight DEF IInv
<1> QED
  BY Invariance, <1>1, PTL

(* ChunksReadBack, for every layout that __post_init__ and validate let    *)
(* through: unpack gives every block the stream that pack stored, and zone *)
(* map records, stored chunks and queries agree on where it lies.          *)
THEOREM ChunksAlwaysReadBack == Spec => []ChunksReadBack
<1>1. Typed => ChunksReadBack
  BY OptionsAre, EveryBlockInPlace, EveryBlockUnpacked DEF ChunksReadBack, ReadsBack, PlacesAgree
<1>2. IInv => ChunksReadBack
  BY <1>1 DEF IInv
<1> QED
  BY Invariance, <1>2, PTL
=============================================================================
