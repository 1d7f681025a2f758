---------------------------------- MODULE Lemmas ------------------------------
(***************************************************************************)
(* What the proofs of several modules need of the library: division,       *)
(* induction over finite sets, sums (SumFunctionOnSet of the community     *)
(* module Functions) and joined lists (FlattenSeq of SequencesExt); and    *)
(* what they need of ChunkLayout and BlockList: how blocks are numbered,   *)
(* and which blocks a list has, in which order and in which read.          *)
(*                                                                         *)
(* The library's induction theorems take an operator as a parameter.  Here *)
(* what is proved by induction is a set of sets, which is no operator, and *)
(* the least set that would not be in it is looked for.                    *)
(***************************************************************************)
EXTENDS ChunkLayout, BlockList, Integers, SequencesExt, FiniteSetTheorems, WellFoundedInduction, TLAPS

-----------------------------------------------------------------------------
(* Numbers *)

(* Quotient and remainder are unique. *)
LEMMA Division ==
  ASSUME NEW d \in Nat \ {0}, NEW q \in Nat, NEW r \in 0 .. d - 1
  PROVE  /\ (q * d + r) \div d = q
         /\ (q * d + r) % d = r
  OBVIOUS

(* A number is its quotient times the divisor, and its remainder. *)
LEMMA DivisionOf ==
  ASSUME NEW d \in Nat \ {0}, NEW n \in Nat
  PROVE  /\ n \div d \in Nat
         /\ n % d \in 0 .. d - 1
         /\ n = (n \div d) * d + (n % d)
  OBVIOUS

(* A product of positive numbers is positive. *)
LEMMA Positive ==
  ASSUME NEW a \in Nat \ {0}, NEW b \in Nat \ {0}
  PROVE  a * b \in Nat \ {0}
  OBVIOUS

(* Products keep order. *)
LEMMA ProductGrows ==
  ASSUME NEW a \in Int, NEW b \in Int, NEW k \in Nat, a <= b
  PROVE  a * k <= b * k
  OBVIOUS

(* Two digits make a number. *)
LEMMA TwoDigits ==
  ASSUME NEW g \in Nat, NEW d \in Nat, NEW a \in 0 .. g - 1, NEW b \in 0 .. d - 1
  PROVE  a * d + b \in 0 .. g * d - 1
<1>1. (a + 1) * d <= g * d
  BY ProductGrows
<1>2. (a + 1) * d = a * d + d /\ a * d \in Nat /\ g * d \in Nat
  OBVIOUS
<1> QED
  BY <1>1, <1>2

(* Division keeps order: below a multiple, and from it on. *)
LEMMA DivisionOrder ==
  ASSUME NEW s \in Nat \ {0}, NEW k \in Nat, NEW n \in Nat
  PROVE  /\ n < k * s => n \div s < k
         /\ k * s <= n => k <= n \div s
<1> DEFINE q == n \div s
<1>1. q \in Nat /\ n % s \in 0 .. s - 1 /\ n = q * s + (n % s)
  BY DivisionOf
<1> HIDE DEF q
<1>2. n < k * s => q < k
  <2> SUFFICES ASSUME n < k * s, k <= q PROVE FALSE
    BY <1>1
  <2>1. k * s <= q * s
    BY <1>1, ProductGrows
  <2> DEFINE a == k * s
             b == q * s
  <2>2. a \in Nat /\ b \in Nat /\ a <= b /\ n < a /\ n = b + (n % s)
    BY <1>1, <2>1
  <2> HIDE DEF a, b
  <2> QED
    BY <1>1, <2>2
<1>3. k * s <= n => k <= q
  <2> SUFFICES ASSUME k * s <= n, q + 1 <= k PROVE FALSE
    BY <1>1
  <2>1. (q + 1) * s <= k * s
    BY <1>1, ProductGrows
  <2> DEFINE a == k * s
             b == q * s
  <2>2. a \in Nat /\ b \in Nat /\ b + s <= a /\ a <= n /\ n = b + (n % s)
    <3>1. (q + 1) * s = q * s + s
      BY <1>1
    <3> QED
      BY <1>1, <2>1, <3>1
  <2> HIDE DEF a, b
  <2> QED
    BY <1>1, <2>2
<1> QED
  BY <1>2, <1>3 DEF q

(* Division keeps order. *)
LEMMA QuotientsOrdered ==
  ASSUME NEW s \in Nat \ {0}, NEW a \in Nat, NEW b \in Nat, a <= b
  PROVE  a \div s <= b \div s
<1> DEFINE k == a \div s
           x == k * s
<1>1. k \in Nat /\ x <= a /\ x \in Nat
  BY DivisionOf
<1>2. x <= b
  <2> HIDE DEF x
  <2> QED
    BY <1>1
<1> HIDE DEF k
<1> QED
  BY <1>1, <1>2, DivisionOrder DEF k

(* Dividing twice divides by the product. *)
LEMMA DividedTwice ==
  ASSUME NEW k \in Nat, NEW m \in Nat \ {0}, NEW r \in Nat \ {0}
  PROVE  k \div (m * r) = (k \div m) \div r
<1> DEFINE q == k \div m
           s == q \div r
           e == k % m
           f == q % r
           rest == f * m + e
           d == m * r
<1>1. q \in Nat /\ e \in 0 .. m - 1 /\ k = q * m + e
  BY DivisionOf
<1> HIDE DEF q, e
<1>2. s \in Nat /\ f \in 0 .. r - 1 /\ q = s * r + f
  BY <1>1, DivisionOf
<1> HIDE DEF s, f
<1>3. rest \in 0 .. r * m - 1
  BY <1>1, <1>2, TwoDigits
<1>4. d \in Nat \ {0} /\ d = r * m
  BY Positive
<1>5. k = s * d + rest
  <2>1. q * m = (s * r) * m + f * m
    BY <1>2
  <2>2. (s * r) * m = s * d
    BY <1>2
  <2>3. s * d \in Nat /\ f * m \in Nat /\ e \in Nat
    BY <1>1, <1>2, <1>4
  <2> HIDE DEF d
  <2> QED
    BY <1>1, <2>1, <2>2, <2>3
<1> HIDE DEF d, rest
<1>6. k \div d = s
  <2>1. rest \in 0 .. d - 1
    BY <1>3, <1>4
  <2>2. (s * d + rest) \div d = s
    BY <1>2, <1>4, <2>1, Division
  <2> QED
    BY <1>5, <2>2
<1> QED
  BY <1>6 DEF d, s, q

-----------------------------------------------------------------------------
(* Induction *)

(* A set of natural numbers has a least element. *)
LEMMA LeastExists ==
  ASSUME NEW T, T \subseteq Nat, T # {}
  PROVE  \E x \in T : \A y \in T : x <= y
<1>1. PICK x \in T : \A y \in T : ~(<<y, x>> \in OpToRel(<, Nat))
  BY WFMin, NatLessThanWellFounded, Zenon
<1>2. \A y \in T : ~(y < x)
  <2> SUFFICES ASSUME NEW y \in T, y < x PROVE FALSE
    OBVIOUS
  <2>1. <<y, x>> \in OpToRel(<, Nat)
    BY DEF OpToRel
  <2> QED
    BY <1>1, <2>1
<1> QED
  BY <1>2

(* Of a family of finite sets one has no other member of it inside. *)
LEMMA SmallestSet ==
  ASSUME NEW S, IsFiniteSet(S), NEW F \in SUBSET SUBSET S, F # {}
  PROVE  \E T \in F : \A U \in SUBSET T : U # T => U \notin F
<1> DEFINE Sizes == {Cardinality(T) : T \in F}
<1>1. \A T \in F : IsFiniteSet(T) /\ Cardinality(T) \in Nat
  BY FS_Subset, FS_CardinalityType, Zenon
<1>2. Sizes \subseteq Nat /\ Sizes # {}
  BY <1>1
<1>3. PICK n \in Sizes : \A m \in Sizes : n <= m
  <2> HIDE DEF Sizes
  <2> QED
    BY <1>2, LeastExists
<1>4. PICK T \in F : Cardinality(T) = n
  BY <1>3
<1>5. ASSUME NEW U \in SUBSET T, U # T, U \in F PROVE FALSE
  <2>1. Cardinality(U) <= Cardinality(T) /\ Cardinality(U) # Cardinality(T)
    <3>1. IsFiniteSet(T) /\ U \in SUBSET T
      BY <1>1, <1>4
    <3> QED
      BY <1>5, <3>1, FS_Subset
  <2>2. n <= Cardinality(U) /\ Cardinality(U) \in Nat /\ n \in Nat
    BY <1>1, <1>2, <1>3, <1>5
  <2> QED
    BY <1>4, <2>1, <2>2
<1> QED
  BY <1>4, <1>5

(* What the empty set has, and keeps when an element joins, every finite   *)
(* set has.                                                                *)
LEMMA SetInduction ==
  ASSUME NEW S, IsFiniteSet(S), NEW P, {} \in P,
         \A T \in SUBSET S : \A x \in S : T \in P /\ x \notin T => T \cup {x} \in P
  PROVE  S \in P
<1> SUFFICES ASSUME S \notin P PROVE FALSE
  OBVIOUS
<1> DEFINE F == {T \in SUBSET S : T \notin P}
<1>1. F \in SUBSET SUBSET S /\ F # {}
  OBVIOUS
<1>2. PICK T \in F : \A U \in SUBSET T : U # T => U \notin F
  <2> HIDE DEF F
  <2> QED
    BY <1>1, SmallestSet
<1>3. PICK x \in T : TRUE
  BY <1>2
<1>4. T \ {x} \in SUBSET S /\ T \ {x} \in P /\ x \in S /\ (T \ {x}) \cup {x} = T
  BY <1>2, <1>3
<1>5. T \in P
  BY <1>4
<1> QED
  BY <1>2, <1>5

-----------------------------------------------------------------------------
(* Least and greatest *)

Numbers(S) == IsFiniteSet(S) /\ S \subseteq Int /\ S # {}

(* A finite set of numbers has a least and a greatest one. *)
LEMMA LeastGreatest ==
  ASSUME NEW S, Numbers(S)
  PROVE  /\ Min(S) \in S /\ \A x \in S : Min(S) <= x
         /\ Max(S) \in S /\ \A x \in S : x <= Max(S)
<1> DEFINE P == {T \in SUBSET S : T = {} \/ \E a, b \in T : \A x \in T : a <= x /\ x <= b}
<1>1. {} \in P
  OBVIOUS
<1>2. ASSUME NEW T \in SUBSET S, NEW x \in S, T \in P PROVE T \cup {x} \in P
  <2>1. T \cup {x} \subseteq Int /\ T \cup {x} \in SUBSET S
    BY DEF Numbers
  <2>2. CASE T = {}
    BY <2>1, <2>2
  <2>3. CASE T # {}
    <3>1. PICK a \in T, b \in T : \A y \in T : a <= y /\ y <= b
      BY <1>2, <2>3
    <3> DEFINE l == IF x <= a THEN x ELSE a
               g == IF b <= x THEN x ELSE b
    <3>2. l \in T \cup {x} /\ g \in T \cup {x}
      OBVIOUS
    <3>3. \A y \in T \cup {x} : l <= y /\ y <= g
      BY <2>1, <3>1
    <3> HIDE DEF l, g
    <3> QED
      BY <2>1, <3>2, <3>3
  <2> QED
    BY <2>2, <2>3
<1>3. S \in P
  <2>1. IsFiniteSet(S) /\ \A T \in SUBSET S : \A x \in S : T \in P /\ x \notin T => T \cup {x} \in P
    BY <1>2 DEF Numbers
  <2> HIDE DEF P
  <2> QED
    BY <1>1, <2>1, SetInduction
<1>4. PICK a \in S, b \in S : \A x \in S : a <= x /\ x <= b
  BY <1>3 DEF Numbers
<1>5. \A x \in S : x \in Int
  BY DEF Numbers
<1>6. Min(S) \in S /\ \A x \in S : Min(S) <= x
  BY <1>4 DEF Min
<1>7. Max(S) \in S /\ \A x \in S : x <= Max(S)
  <2>1. \A x \in S : b >= x
    BY <1>4, <1>5
  <2>2. Max(S) \in S /\ \A x \in S : Max(S) >= x
    BY <2>1 DEF Max
  <2> QED
    BY <1>5, <2>2
<1> QED
  BY <1>6, <1>7

(* The lesser of two numbers. *)
LEMMA LesserOfTwo ==
  ASSUME NEW a \in Int, NEW b \in Int
  PROVE  Min({a, b}) \in {a, b} /\ Min({a, b}) <= a /\ Min({a, b}) <= b
<1> DEFINE T == {a, b}
<1>1. IsFiniteSet({a}) /\ T = {a} \cup {b}
  BY FS_Singleton
<1>2. IsFiniteSet({a} \cup {b})
  BY <1>1, FS_AddElement
<1>3. a \in T /\ b \in T /\ \A x \in T : x \in Int
  OBVIOUS
<1>4. IsFiniteSet(T)
  BY <1>1, <1>2, Zenon
<1>5. Numbers(T)
  BY <1>3, <1>4 DEF Numbers
<1> HIDE DEF T
<1>6. Min(T) \in T /\ \A x \in T : Min(T) <= x
  BY <1>5, LeastGreatest
<1>7. Min(T) \in T /\ Min(T) <= a /\ Min(T) <= b
  BY <1>3, <1>6
<1> QED
  BY <1>7 DEF T

(* The elements of a function on a finite set are finite. *)
LEMMA ImageFinite ==
  ASSUME NEW S, IsFiniteSet(S), NEW f
  PROVE  IsFiniteSet({f[x] : x \in S})
<1> DEFINE T == {f[x] : x \in S}
           g == [x \in S |-> f[x]]
<1>1. g \in [S -> T] /\ \A e \in T : \E x \in S : g[x] = e
  OBVIOUS
<1> HIDE DEF T, g
<1>2. g \in Surjection(S, T)
  BY <1>1 DEF Surjection
<1>3. IsFiniteSet(T)
  BY <1>2, FS_Surjection
<1> QED
  BY <1>3 DEF T

(* What is chosen of a set for each element of it are numbers. *)
LEMMA ImageNumbers ==
  ASSUME NEW S, IsFiniteSet(S), S # {}, NEW f, \A x \in S : f[x] \in Int
  PROVE  Numbers({f[x] : x \in S})
<1>1. IsFiniteSet({f[x] : x \in S})
  BY ImageFinite
<1> QED
  BY <1>1 DEF Numbers

-----------------------------------------------------------------------------
(* The sum is well defined *)

Pick(s) == CHOOSE x \in s : TRUE

(* g adds up f over every subset of S, one picked element at a time. *)
AddsUp(f, S, g) ==
  g = [s \in SUBSET S |-> IF s = {} THEN 0 ELSE f[Pick(s)] + g[s \ {Pick(s)}]]

(* What the community module defines. *)
LEMMA SumIsChosen ==
  ASSUME NEW f, NEW S
  PROVE  SumFunctionOnSet(f, S) = (CHOOSE g : AddsUp(f, S, g))[S]
  BY Zenon DEF SumFunctionOnSet, FoldFunctionOnSet, MapThenFoldSet, AddsUp, Pick

(* What is picked is an element. *)
LEMMA PickIsElement ==
  ASSUME NEW s, s # {}
  PROVE  Pick(s) \in s
  BY DEF Pick

(* One step of adding up. *)
LEMMA AddsUpStep ==
  ASSUME NEW f, NEW S, NEW g, AddsUp(f, S, g), NEW s \in SUBSET S
  PROVE  /\ s = {} => g[s] = 0
         /\ s # {} => g[s] = f[Pick(s)] + g[s \ {Pick(s)}]
<1>1. g = [r \in SUBSET S |-> IF r = {} THEN 0 ELSE f[Pick(r)] + g[r \ {Pick(r)}]]
  BY DEF AddsUp
<1> DEFINE h == [r \in SUBSET S |-> IF r = {} THEN 0 ELSE f[Pick(r)] + g[r \ {Pick(r)}]]
<1>2. h[s] = IF s = {} THEN 0 ELSE f[Pick(s)] + g[s \ {Pick(s)}]
  OBVIOUS
<1>3. g = h
  BY <1>1
<1> QED
  BY <1>2, <1>3, Zenon

(* Two functions that add up agree wherever both do. *)
LEMMA AddsUpOnce ==
  ASSUME NEW f, NEW S, NEW T, NEW g, NEW h, AddsUp(f, S, g), AddsUp(f, T, h),
         NEW s, s \subseteq S, s \subseteq T, IsFiniteSet(s)
  PROVE  g[s] = h[s]
<1> DEFINE F == {r \in SUBSET s : g[r] # h[r]}
<1> SUFFICES ASSUME F # {} PROVE FALSE
  OBVIOUS
<1>1. PICK r \in F : \A u \in SUBSET r : u # r => u \notin F
  <2>1. F \in SUBSET SUBSET s
    OBVIOUS
  <2> HIDE DEF F
  <2> QED
    BY <2>1, SmallestSet
<1>2. r \in SUBSET S /\ r \in SUBSET T
  BY <1>1
<1>3. /\ r = {} => g[r] = 0
      /\ r # {} => g[r] = f[Pick(r)] + g[r \ {Pick(r)}]
  BY <1>2, AddsUpStep
<1>4. /\ r = {} => h[r] = 0
      /\ r # {} => h[r] = f[Pick(r)] + h[r \ {Pick(r)}]
  BY <1>2, AddsUpStep
<1>5. r # {} => g[r \ {Pick(r)}] = h[r \ {Pick(r)}]
  <2> SUFFICES ASSUME r # {} PROVE g[r \ {Pick(r)}] = h[r \ {Pick(r)}]
    OBVIOUS
  <2>1. Pick(r) \in r
    BY PickIsElement
  <2> DEFINE u == r \ {Pick(r)}
  <2>2. u \in SUBSET r /\ u # r
    BY <2>1
  <2>3. u \in SUBSET s
    BY <1>1, <2>2
  <2> HIDE DEF u
  <2>4. g[u] = h[u]
    BY <1>1, <2>2, <2>3
  <2> QED
    BY <2>4 DEF u
<1>6. g[r] = h[r]
  BY <1>3, <1>4, <1>5
<1> QED
  BY <1>1, <1>6

(* Over a finite set some function adds up. *)
LEMMA AddsUpExists ==
  ASSUME NEW f, NEW S, IsFiniteSet(S)
  PROVE  \E g : AddsUp(f, S, g)
<1> DEFINE F == {D \in SUBSET S : ~\E g : AddsUp(f, D, g)}
<1> SUFFICES ASSUME F # {} PROVE FALSE
  OBVIOUS
<1>1. PICK D \in F : \A U \in SUBSET D : U # D => U \notin F
  <2>1. F \in SUBSET SUBSET S
    OBVIOUS
  <2> HIDE DEF F
  <2> QED
    BY <2>1, SmallestSet
<1> DEFINE G(U) == CHOOSE g : AddsUp(f, U, g)
           Less(s) == s \ {Pick(s)}
           h == [s \in SUBSET D |-> IF s = {} THEN 0 ELSE f[Pick(s)] + G(Less(s))[Less(s)]]
<1>2. ASSUME NEW U \in SUBSET D, U # D PROVE AddsUp(f, U, G(U))
  <2>1. \E g : AddsUp(f, U, g)
    BY <1>1, <1>2
  <2> QED
    BY <2>1, Zenon
<1>3. ASSUME NEW s \in SUBSET D, s # {}
      PROVE  Less(s) \in SUBSET D /\ Less(s) # D /\ IsFiniteSet(Less(s))
  <2>1. Pick(s) \in s
    BY <1>3, PickIsElement
  <2>2. Less(s) \in SUBSET S /\ Less(s) \in SUBSET D /\ Less(s) # D
    BY <1>1, <2>1
  <2> HIDE DEF Less
  <2>3. IsFiniteSet(Less(s))
    BY <2>2, FS_Subset
  <2> QED
    BY <2>2, <2>3
<1> HIDE DEF G
<1>4. ASSUME NEW s \in SUBSET D, s # {}
      PROVE  h[Less(s)] = G(Less(s))[Less(s)]
  <2> DEFINE r == Less(s)
  <2>1. r \in SUBSET D /\ r # D /\ IsFiniteSet(r) /\ r \in SUBSET r
    BY <1>3, <1>4, Zenon
  <2>2. AddsUp(f, r, G(r))
    BY <1>2, <2>1
  <2> HIDE DEF Less, r
  <2>3. h[r] = IF r = {} THEN 0 ELSE f[Pick(r)] + G(Less(r))[Less(r)]
    BY <2>1
  <2>4. /\ r = {} => G(r)[r] = 0
        /\ r # {} => G(r)[r] = f[Pick(r)] + G(r)[r \ {Pick(r)}]
    <3> DEFINE g == G(r)
    <3>1. AddsUp(f, r, g) /\ r \in SUBSET r
      BY <2>1, <2>2
    <3> HIDE DEF g
    <3>2. /\ r = {} => g[r] = 0
          /\ r # {} => g[r] = f[Pick(r)] + g[r \ {Pick(r)}]
      BY <3>1, AddsUpStep
    <3> QED
      BY <3>2 DEF g
  <2>5. r # {} => G(Less(r))[Less(r)] = G(r)[Less(r)]
    <3> SUFFICES ASSUME r # {} PROVE G(Less(r))[Less(r)] = G(r)[Less(r)]
      OBVIOUS
    <3>1. Less(r) \in SUBSET D /\ Less(r) # D /\ IsFiniteSet(Less(r))
      BY <1>3, <2>1
    <3>2. AddsUp(f, Less(r), G(Less(r)))
      BY <1>2, <3>1
    <3>3. Less(r) \subseteq r /\ Less(r) \subseteq Less(r)
      BY DEF Less
    <3> DEFINE u == Less(r)
               g1 == G(u)
               g2 == G(r)
    <3>4. /\ AddsUp(f, u, g1) /\ AddsUp(f, r, g2)
          /\ u \subseteq u /\ u \subseteq r /\ IsFiniteSet(u)
      BY <2>2, <3>1, <3>2, <3>3
    <3> HIDE DEF u, g1, g2
    <3>5. g1[u] = g2[u]
      BY <3>4, AddsUpOnce
    <3> QED
      BY <3>5 DEF u, g1, g2
  <2>6. r \ {Pick(r)} = Less(r)
    BY DEF Less
  <2>7. h[r] = G(r)[r]
    BY <2>3, <2>4, <2>5, <2>6, Zenon
  <2> QED
    BY <2>7 DEF r
<1>5. h = [s \in SUBSET D |-> IF s = {} THEN 0 ELSE f[Pick(s)] + h[Less(s)]]
  <2> DEFINE k == [s \in SUBSET D |-> IF s = {} THEN 0 ELSE f[Pick(s)] + h[Less(s)]]
  <2>1. ASSUME NEW s \in SUBSET D PROVE h[s] = k[s]
    <3>1. h[s] = IF s = {} THEN 0 ELSE f[Pick(s)] + G(Less(s))[Less(s)]
      OBVIOUS
    <3>2. s # {} => h[Less(s)] = G(Less(s))[Less(s)]
      BY <1>4
    <3> HIDE DEF h
    <3>3. k[s] = IF s = {} THEN 0 ELSE f[Pick(s)] + h[Less(s)]
      OBVIOUS
    <3> QED
      BY <3>1, <3>2, <3>3, Zenon
  <2>2. h = k
    BY <2>1, Zenon
  <2> QED
    BY <2>2
<1>6. AddsUp(f, D, h)
  <2> HIDE DEF h
  <2> QED
    BY <1>5, Zenon DEF AddsUp
<1> HIDE DEF h
<1> QED
  BY <1>1, <1>6, Zenon

-----------------------------------------------------------------------------
(* What a sum is *)

(* The sum of f over a set S of its domain, and that its summands are integers. *)
SumOf(f, S) == SumFunctionOnSet(f, S)
Integers(f, S) == \A x \in S : f[x] \in Int

(* Nothing adds up to nothing; a set to what is picked and the rest. *)
LEMMA SumStep ==
  ASSUME NEW f, NEW S, IsFiniteSet(S)
  PROVE  /\ S = {} => SumOf(f, S) = 0
         /\ S # {} => SumOf(f, S) = f[Pick(S)] + SumOf(f, S \ {Pick(S)})
<1> DEFINE g == CHOOSE h : AddsUp(f, S, h)
<1>1. AddsUp(f, S, g)
  BY AddsUpExists, Zenon
<1>2. SumOf(f, S) = g[S]
  BY SumIsChosen DEF SumOf
<1> HIDE DEF g
<1>3. /\ S = {} => g[S] = 0
      /\ S # {} => g[S] = f[Pick(S)] + g[S \ {Pick(S)}]
  BY <1>1, AddsUpStep
<1>4. g[S \ {Pick(S)}] = SumOf(f, S \ {Pick(S)})
  <2> DEFINE r == S \ {Pick(S)}
             h == CHOOSE k : AddsUp(f, r, k)
  <2>1. IsFiniteSet(r) /\ r \subseteq S /\ r \subseteq r
    BY FS_Subset
  <2> HIDE DEF r
  <2>2. AddsUp(f, r, h)
    BY <2>1, AddsUpExists, Zenon
  <2>3. SumOf(f, r) = h[r]
    BY SumIsChosen DEF SumOf
  <2> HIDE DEF h
  <2>4. g[r] = h[r]
    BY <1>1, <2>1, <2>2, AddsUpOnce
  <2> QED
    BY <2>3, <2>4 DEF r
<1> QED
  BY <1>2, <1>3, <1>4

(* A sum of integers is one, and any element may be taken out first. *)
LEMMA SumTakesAny ==
  ASSUME NEW f, NEW S, IsFiniteSet(S), Integers(f, S)
  PROVE  /\ SumOf(f, S) \in Int
         /\ \A x \in S : SumOf(f, S) = f[x] + SumOf(f, S \ {x})
<1> DEFINE Good(T) == /\ SumOf(f, T) \in Int
                      /\ \A x \in T : SumOf(f, T) = f[x] + SumOf(f, T \ {x})
           F == {T \in SUBSET S : ~Good(T)}
<1> SUFFICES ASSUME F # {} PROVE FALSE
  <2>1. S \in SUBSET S
    OBVIOUS
  <2> QED
    BY <2>1
<1>1. PICK T \in F : \A U \in SUBSET T : U # T => U \notin F
  <2>1. F \in SUBSET SUBSET S
    OBVIOUS
  <2> HIDE DEF F
  <2> QED
    BY <2>1, SmallestSet
<1>2. \A U \in SUBSET T : U # T => Good(U)
  BY <1>1
<1>3. T \in SUBSET S /\ ~Good(T)
  BY <1>1
<1> HIDE DEF F
<1>4. IsFiniteSet(T) /\ \A U \in SUBSET T : IsFiniteSet(U)
  <2>1. IsFiniteSet(T)
    BY <1>3, FS_Subset
  <2> QED
    BY <2>1, FS_Subset
<1>5. CASE T = {}
  <2>1. SumOf(f, T) = 0
    BY <1>4, <1>5, SumStep
  <2>2. Good(T)
    BY <1>5, <2>1
  <2> QED
    BY <1>3, <2>2
<1>6. CASE T # {}
  <2> DEFINE p == Pick(T)
             R == T \ {p}
  <2>1. p \in T /\ R \in SUBSET T /\ R # T /\ IsFiniteSet(R)
    <3>1. p \in T
      BY <1>6, PickIsElement
    <3> QED
      BY <1>4, <3>1
  <2>2. SumOf(f, T) = f[p] + SumOf(f, R)
    BY <1>4, <1>6, SumStep
  <2> HIDE DEF p
  <2>3. Good(R) /\ f[p] \in Int
    BY <1>2, <1>3, <2>1 DEF Integers
  <2>4. ASSUME NEW x \in T PROVE SumOf(f, T) = f[x] + SumOf(f, T \ {x})
    <3>1. CASE x = p
      BY <2>2, <3>1
    <3>2. CASE x # p
      <4> DEFINE X == T \ {x}
                 RX == T \ {x, p}
      <4>1. x \in R /\ R \ {x} = RX /\ X \in SUBSET T /\ X # T /\ p \in X /\ X \ {p} = RX
        BY <2>1, <3>2
      <4>2. SumOf(f, R) = f[x] + SumOf(f, RX)
        BY <2>3, <4>1
      <4>3. Good(X)
        BY <1>2, <4>1
      <4>4. SumOf(f, X) = f[p] + SumOf(f, RX)
        BY <4>1, <4>3
      <4>5. RX \in SUBSET T /\ RX # T
        BY <4>1
      <4>6. SumOf(f, RX) \in Int
        BY <1>2, <4>5
      <4>7. f[x] \in Int
        BY <1>3 DEF Integers
      <4> HIDE DEF X, RX, R
      <4>8. SumOf(f, T) = f[x] + SumOf(f, X)
        BY <2>2, <2>3, <4>2, <4>4, <4>6, <4>7
      <4> QED
        BY <4>8 DEF X
    <3> QED
      BY <3>1, <3>2
  <2>5. SumOf(f, T) \in Int
    BY <2>2, <2>3
  <2> QED
    BY <1>3, <2>4, <2>5
<1> QED
  BY <1>5, <1>6

(* The empty sum, and the type of a sum. *)
LEMMA SumOfNone ==
  ASSUME NEW f
  PROVE  SumOf(f, {}) = 0
  BY SumStep, FS_EmptySet

(* A sum of integers is one. *)
LEMMA SumType ==
  ASSUME NEW f, NEW S, IsFiniteSet(S), Integers(f, S)
  PROVE  SumOf(f, S) \in Int
  BY SumTakesAny

(* An element joins. *)
LEMMA SumJoin ==
  ASSUME NEW f, NEW S, IsFiniteSet(S), NEW x, x \notin S, Integers(f, S \cup {x})
  PROVE  SumOf(f, S \cup {x}) = f[x] + SumOf(f, S)
<1> DEFINE T == S \cup {x}
<1>1. IsFiniteSet(T) /\ x \in T /\ T \ {x} = S
  BY FS_AddElement
<1> HIDE DEF T
<1>2. Integers(f, T)
  BY DEF T
<1>3. SumOf(f, T) = f[x] + SumOf(f, T \ {x})
  BY <1>1, <1>2, SumTakesAny
<1> QED
  BY <1>1, <1>3 DEF T

-----------------------------------------------------------------------------
(* Sums of parts *)

(* The sum over two sets that have nothing in common. *)
LEMMA SumOfTwo ==
  ASSUME NEW f, NEW S, IsFiniteSet(S), NEW T, IsFiniteSet(T), S \cap T = {},
         Integers(f, S \cup T)
  PROVE  SumOf(f, S \cup T) = SumOf(f, S) + SumOf(f, T)
<1> DEFINE P == {U \in SUBSET T : SumOf(f, S \cup U) = SumOf(f, S) + SumOf(f, U)}
<1>1. SumOf(f, S) \in Int
  <2>1. Integers(f, S)
    BY DEF Integers
  <2> QED
    BY <2>1, SumType
<1>2. {} \in P
  <2>1. S \cup {} = S /\ SumOf(f, {}) = 0
    BY SumOfNone
  <2> QED
    BY <1>1, <2>1
<1>3. ASSUME NEW U \in SUBSET T, NEW x \in T, U \in P, x \notin U
      PROVE  U \cup {x} \in P
  <2>1. IsFiniteSet(U) /\ IsFiniteSet(S \cup U)
    BY FS_Subset, FS_Union
  <2>2. x \notin S \cup U /\ (S \cup U) \cup {x} = S \cup (U \cup {x})
    BY <1>3
  <2>3. Integers(f, (S \cup U) \cup {x}) /\ Integers(f, U \cup {x}) /\ Integers(f, U)
    BY DEF Integers
  <2>4. SumOf(f, (S \cup U) \cup {x}) = f[x] + SumOf(f, S \cup U)
    BY <2>1, <2>2, <2>3, SumJoin
  <2>5. SumOf(f, U \cup {x}) = f[x] + SumOf(f, U)
    BY <1>3, <2>1, <2>3, SumJoin
  <2>6. SumOf(f, U) \in Int /\ f[x] \in Int
    BY <2>1, <2>3, SumType DEF Integers
  <2>7. SumOf(f, S \cup U) = SumOf(f, S) + SumOf(f, U)
    BY <1>3
  <2>8. SumOf(f, (S \cup U) \cup {x}) = SumOf(f, S) + SumOf(f, U \cup {x})
    BY <1>1, <2>4, <2>5, <2>6, <2>7
  <2>9. SumOf(f, S \cup (U \cup {x})) = SumOf(f, S) + SumOf(f, U \cup {x})
    BY <2>2, <2>8
  <2> QED
    BY <2>9
<1> HIDE DEF P
<1>4. T \in P
  BY <1>2, <1>3, SetInduction
<1> QED
  BY <1>4 DEF P

(* Elements that match one to one and count the same add up to the same. *)
LEMMA SumMatched ==
  ASSUME NEW S, IsFiniteSet(S), NEW T, NEW h \in Bijection(S, T),
         NEW f, NEW g, Integers(g, T), \A x \in S : f[x] = g[h[x]]
  PROVE  SumOf(f, S) = SumOf(g, T)
<1> DEFINE Image(U) == {h[x] : x \in U}
           P == {U \in SUBSET S : SumOf(f, U) = SumOf(g, Image(U))}
<1>1. /\ h \in [S -> T]
      /\ \A x, y \in S : h[x] = h[y] => x = y
      /\ \A t \in T : \E x \in S : h[x] = t
  BY DEF Bijection, Injection, Surjection, IsInjective
<1>2. {} \in P
  BY SumOfNone
<1>3. ASSUME NEW U \in SUBSET S, NEW x \in S, U \in P, x \notin U
      PROVE  U \cup {x} \in P
  <2>1. IsFiniteSet(U)
    BY FS_Subset
  <2>2. IsFiniteSet(Image(U))
    <3> DEFINE k == [u \in U |-> h[u]]
               I == Image(U)
    <3>1. k \in Surjection(U, I)
      BY DEF Surjection
    <3> HIDE DEF k, I
    <3>2. IsFiniteSet(I)
      BY <2>1, <3>1, FS_Surjection
    <3> QED
      BY <3>2 DEF I
  <2>3. Image(U \cup {x}) = Image(U) \cup {h[x]} /\ h[x] \notin Image(U)
    BY <1>1, <1>3
  <2>4. Integers(f, U \cup {x})
    BY <1>1 DEF Integers
  <2>5. Integers(g, Image(U) \cup {h[x]})
    BY <1>1 DEF Integers
  <2>6. SumOf(f, U \cup {x}) = f[x] + SumOf(f, U)
    BY <1>3, <2>1, <2>4, SumJoin
  <2> DEFINE I == Image(U)
             y == h[x]
  <2>7. IsFiniteSet(I) /\ y \notin I /\ Integers(g, I \cup {y})
    BY <2>2, <2>3, <2>5
  <2>8. f[x] = g[y] /\ SumOf(f, U) = SumOf(g, I) /\ Image(U \cup {x}) = I \cup {y}
    BY <1>3, <2>3
  <2> HIDE DEF I, y
  <2>9. SumOf(g, I \cup {y}) = g[y] + SumOf(g, I)
    BY <2>7, SumJoin
  <2>10. SumOf(f, U \cup {x}) = SumOf(g, Image(U \cup {x}))
    BY <2>6, <2>8, <2>9
  <2> QED
    BY <2>10
<1> HIDE DEF P
<1>4. S \in P
  BY <1>2, <1>3, SetInduction
<1>5. Image(S) = T
  BY <1>1
<1> QED
  BY <1>4, <1>5 DEF P

(* Only the values in the set matter. *)
LEMMA SumSame ==
  ASSUME NEW f, NEW g, NEW S, IsFiniteSet(S), Integers(g, S), \A x \in S : f[x] = g[x]
  PROVE  SumOf(f, S) = SumOf(g, S)
<1> DEFINE h == [x \in S |-> x]
<1>1. h \in Bijection(S, S) /\ \A x \in S : h[x] = x
  BY DEF Bijection, Injection, Surjection, IsInjective
<1> HIDE DEF h
<1>2. \A x \in S : f[x] = g[h[x]]
  BY <1>1
<1> QED
  BY <1>1, <1>2, SumMatched

(* The elements that a function puts in group t. *)
Group(group, S, t) == {x \in S : group[x] = t}

(* Adding up group by group. *)
LEMMA SumByGroups ==
  ASSUME NEW S, IsFiniteSet(S), NEW T, IsFiniteSet(T), NEW group \in [S -> T],
         NEW f, Integers(f, S),
         NEW F, \A t \in T : F[t] = SumOf(f, Group(group, S, t))
  PROVE  SumOf(F, T) = SumOf(f, S)
<1> USE DEF Group
<1> DEFINE In(t) == {x \in S : group[x] = t}
           Of(U) == {x \in S : group[x] \in U}
           P == {U \in SUBSET T : SumOf(F, U) = SumOf(f, Of(U))}
<1>1. ASSUME NEW t \in T PROVE F[t] \in Int
  <2> DEFINE A == In(t)
  <2>1. IsFiniteSet(A) /\ Integers(f, A) /\ F[t] = SumOf(f, A)
    BY FS_Subset DEF Integers
  <2> HIDE DEF A
  <2> QED
    BY <2>1, SumType
<1>2. {} \in P
  <2>1. Of({}) = {}
    OBVIOUS
  <2>2. SumOf(F, {}) = 0 /\ SumOf(f, {}) = 0
    BY SumOfNone
  <2> QED
    BY <2>1, <2>2
<1>3. ASSUME NEW U \in SUBSET T, NEW t \in T, U \in P, t \notin U
      PROVE  U \cup {t} \in P
  <2> DEFINE A == In(t)
             B == Of(U)
  <2>1. IsFiniteSet(U) /\ IsFiniteSet(A) /\ IsFiniteSet(B)
    BY FS_Subset
  <2>2. B \cap A = {} /\ Of(U \cup {t}) = B \cup A
    BY <1>3
  <2>3. Integers(F, U \cup {t}) /\ Integers(f, B \cup A)
    BY <1>1 DEF Integers
  <2>4. SumOf(F, U \cup {t}) = F[t] + SumOf(F, U)
    BY <1>3, <2>1, <2>3, SumJoin
  <2>5. F[t] = SumOf(f, A) /\ SumOf(F, U) = SumOf(f, B)
    BY <1>3
  <2> HIDE DEF A, B, P
  <2>6. SumOf(f, B \cup A) = SumOf(f, B) + SumOf(f, A)
    BY <2>1, <2>2, <2>3, SumOfTwo
  <2>7. SumOf(f, A) \in Int /\ SumOf(f, B) \in Int
    <3>1. Integers(f, A) /\ Integers(f, B)
      BY <2>3 DEF Integers
    <3> QED
      BY <2>1, <3>1, SumType
  <2>8. SumOf(F, U \cup {t}) = SumOf(f, Of(U \cup {t}))
    BY <2>2, <2>4, <2>5, <2>6, <2>7
  <2> QED
    BY <2>8 DEF P
<1> HIDE DEF P
<1>4. T \in P
  BY <1>2, <1>3, SetInduction
<1>5. Of(T) = S
  OBVIOUS
<1> QED
  BY <1>4, <1>5 DEF P

-----------------------------------------------------------------------------
(* Sums of numbers put together *)

(* A sum of the same numbers. *)
LEMMA SumOfEqual ==
  ASSUME NEW f, NEW S, IsFiniteSet(S), NEW c \in Int, \A x \in S : f[x] = c
  PROVE  SumOf(f, S) = c * Cardinality(S)
<1> DEFINE P == {U \in SUBSET S : SumOf(f, U) = c * Cardinality(U)}
<1>1. {} \in P
  BY SumOfNone, FS_EmptySet
<1>2. ASSUME NEW U \in SUBSET S, NEW x \in S, U \in P, x \notin U
      PROVE  U \cup {x} \in P
  <2>1. IsFiniteSet(U)
    BY FS_Subset
  <2>2. Cardinality(U) \in Nat /\ Cardinality(U \cup {x}) = Cardinality(U) + 1
    BY <1>2, <2>1, FS_CardinalityType, FS_AddElement
  <2>3. Integers(f, U \cup {x})
    BY DEF Integers
  <2>4. SumOf(f, U \cup {x}) = f[x] + SumOf(f, U)
    BY <1>2, <2>1, <2>3, SumJoin
  <2>5. c + c * Cardinality(U) = c * (Cardinality(U) + 1)
    BY <2>2
  <2> QED
    BY <1>2, <2>2, <2>4, <2>5
<1> HIDE DEF P
<1>3. S \in P
  BY <1>1, <1>2, SetInduction
<1> QED
  BY <1>3 DEF P

(* A sum of sums. *)
LEMMA SumAdds ==
  ASSUME NEW f, NEW g, NEW h, NEW S, IsFiniteSet(S), Integers(f, S), Integers(g, S),
         \A x \in S : h[x] = f[x] + g[x]
  PROVE  SumOf(h, S) = SumOf(f, S) + SumOf(g, S)
<1> DEFINE P == {U \in SUBSET S : SumOf(h, U) = SumOf(f, U) + SumOf(g, U)}
<1>1. {} \in P
  BY SumOfNone
<1>2. ASSUME NEW U \in SUBSET S, NEW x \in S, U \in P, x \notin U
      PROVE  U \cup {x} \in P
  <2>1. IsFiniteSet(U)
    BY FS_Subset
  <2>2. Integers(f, U \cup {x}) /\ Integers(g, U \cup {x}) /\ Integers(f, U) /\ Integers(g, U)
    BY DEF Integers
  <2>3. Integers(h, U \cup {x})
    BY DEF Integers
  <2>4. SumOf(f, U \cup {x}) = f[x] + SumOf(f, U)
    BY <1>2, <2>1, <2>2, SumJoin
  <2>5. SumOf(g, U \cup {x}) = g[x] + SumOf(g, U)
    BY <1>2, <2>1, <2>2, SumJoin
  <2>6. SumOf(h, U \cup {x}) = h[x] + SumOf(h, U)
    BY <1>2, <2>1, <2>3, SumJoin
  <2>7. SumOf(f, U) \in Int /\ SumOf(g, U) \in Int /\ f[x] \in Int /\ g[x] \in Int
    BY <2>1, <2>2, SumType DEF Integers
  <2> QED
    BY <1>2, <2>4, <2>5, <2>6, <2>7
<1> HIDE DEF P
<1>3. S \in P
  BY <1>1, <1>2, SetInduction
<1> QED
  BY <1>3 DEF P

(* Inequalities add up. *)
LEMMA OrderAdds ==
  ASSUME NEW a \in Int, NEW b \in Int, NEW c \in Int, NEW d \in Int,
         NEW p \in Int, NEW q \in Int, c * a <= d * p, c * b <= d * q
  PROVE  c * (a + b) <= d * (p + q)
<1>1. c * (a + b) = c * a + c * b /\ d * (p + q) = d * p + d * q
  OBVIOUS
<1>2. c * a \in Int /\ c * b \in Int /\ d * p \in Int /\ d * q \in Int
  OBVIOUS
<1> QED
  BY <1>1, <1>2

(* What holds of every term, up to a factor, holds of the sums. *)
LEMMA SumsKeep ==
  ASSUME NEW f, NEW g, NEW S, IsFiniteSet(S), Integers(f, S), Integers(g, S),
         NEW c \in Int, NEW d \in Int, \A x \in S : c * f[x] <= d * g[x]
  PROVE  c * SumOf(f, S) <= d * SumOf(g, S)
<1> DEFINE P == {U \in SUBSET S : c * SumOf(f, U) <= d * SumOf(g, U)}
<1>1. {} \in P
  BY SumOfNone
<1>2. ASSUME NEW U \in SUBSET S, NEW x \in S, U \in P, x \notin U
      PROVE  U \cup {x} \in P
  <2>1. IsFiniteSet(U)
    BY FS_Subset
  <2>2. Integers(f, U \cup {x}) /\ Integers(g, U \cup {x}) /\ Integers(f, U) /\ Integers(g, U)
    BY DEF Integers
  <2>3. SumOf(f, U \cup {x}) = f[x] + SumOf(f, U)
    BY <1>2, <2>1, <2>2, SumJoin
  <2>4. SumOf(g, U \cup {x}) = g[x] + SumOf(g, U)
    BY <1>2, <2>1, <2>2, SumJoin
  <2>5. SumOf(f, U) \in Int /\ SumOf(g, U) \in Int /\ f[x] \in Int /\ g[x] \in Int
    BY <2>1, <2>2, SumType DEF Integers
  <2>6. c * f[x] <= d * g[x] /\ c * SumOf(f, U) <= d * SumOf(g, U)
    BY <1>2
  <2>7. c * (f[x] + SumOf(f, U)) <= d * (g[x] + SumOf(g, U))
    BY <2>5, <2>6, OrderAdds
  <2>8. c * SumOf(f, U \cup {x}) <= d * SumOf(g, U \cup {x})
    BY <2>3, <2>4, <2>7, Zenon
  <2> QED
    BY <2>8
<1> HIDE DEF P
<1>3. S \in P
  BY <1>1, <1>2, SetInduction
<1> QED
  BY <1>3 DEF P

(* A sum of natural numbers is one. *)
LEMMA NaturalSum ==
  ASSUME NEW f, NEW S, IsFiniteSet(S), \A x \in S : f[x] \in Nat
  PROVE  SumOf(f, S) \in Nat
<1>1. Integers(f, S)
  BY DEF Integers
<1>2. \A x \in S : 0 * f[x] <= 1 * f[x]
  OBVIOUS
<1>3. 0 * SumOf(f, S) <= 1 * SumOf(f, S)
  BY <1>1, <1>2, SumsKeep
<1>4. SumOf(f, S) \in Int
  BY <1>1, SumType
<1> QED
  BY <1>3, <1>4

(* Sums keep the order of their terms.                                     *)
LEMMA SumsOrdered ==
  ASSUME NEW f, NEW g, NEW S, IsFiniteSet(S), Integers(f, S), Integers(g, S),
         \A x \in S : f[x] <= g[x]
  PROVE  SumOf(f, S) <= SumOf(g, S)
<1> DEFINE one == 1
<1>1. \A x \in S : one * f[x] <= one * g[x]
  BY DEF Integers
<1>2. one \in Int
  OBVIOUS
<1> HIDE DEF one
<1>3. one * SumOf(f, S) <= one * SumOf(g, S)
  BY <1>1, <1>2, SumsKeep
<1>4. SumOf(f, S) \in Int /\ SumOf(g, S) \in Int
  BY SumType
<1> QED
  BY <1>3, <1>4 DEF one

(* A list that grows by one. *)
LEMMA SumGrows ==
  ASSUME NEW d \in Nat, NEW f, NEW g, Integers(g, 1 .. d + 1), \A x \in 1 .. d : g[x] = f[x]
  PROVE  SumOf(g, 1 .. d + 1) = SumOf(f, 1 .. d) + g[d + 1]
<1>1. /\ 1 .. d + 1 = (1 .. d) \cup {d + 1} /\ d + 1 \notin 1 .. d
      /\ IsFiniteSet(1 .. d)
  BY FS_Interval
<1>2. Integers(g, (1 .. d) \cup {d + 1}) /\ Integers(g, 1 .. d) /\ Integers(f, 1 .. d)
  BY DEF Integers
<1>3. SumOf(g, (1 .. d) \cup {d + 1}) = g[d + 1] + SumOf(g, 1 .. d)
  BY <1>1, <1>2, SumJoin
<1>4. SumOf(g, 1 .. d) = SumOf(f, 1 .. d)
  BY <1>1, <1>2, SumSame
<1>5. SumOf(f, 1 .. d) \in Int /\ g[d + 1] \in Int
  BY <1>1, <1>2, SumType DEF Integers
<1>6. g[d + 1] + SumOf(g, 1 .. d) = SumOf(f, 1 .. d) + g[d + 1]
  BY <1>4, <1>5
<1> QED
  BY <1>1, <1>3, <1>6, Zenon

-----------------------------------------------------------------------------
(* Numbers of elements *)

(* As many as they are matched with. *)
LEMMA AsMany ==
  ASSUME NEW S, IsFiniteSet(S), NEW T, NEW h \in Bijection(S, T)
  PROVE  IsFiniteSet(T) /\ Cardinality(T) = Cardinality(S)
<1>1. ExistsBijection(S, T)
  BY DEF ExistsBijection
<1> QED
  BY <1>1, FS_Bijection

(* The elements of a set are those of its groups. *)
LEMMA CountByGroups ==
  ASSUME NEW S, IsFiniteSet(S), NEW T, IsFiniteSet(T), NEW group \in [S -> T],
         NEW F, \A t \in T : F[t] = Cardinality(Group(group, S, t))
  PROVE  SumOf(F, T) = Cardinality(S)
<1> DEFINE f == [x \in S |-> 1]
           Of(t) == Group(group, S, t)
<1>1. \A U \in SUBSET S : SumOf(f, U) = Cardinality(U)
  <2> SUFFICES ASSUME NEW U \in SUBSET S PROVE SumOf(f, U) = Cardinality(U)
    OBVIOUS
  <2>1. IsFiniteSet(U) /\ Cardinality(U) \in Nat
    BY FS_Subset, FS_CardinalityType
  <2>2. \A x \in U : f[x] = 1
    OBVIOUS
  <2> HIDE DEF f
  <2>3. SumOf(f, U) = 1 * Cardinality(U)
    BY <2>1, <2>2, SumOfEqual
  <2> QED
    BY <2>1, <2>3
<1>2. Integers(f, S)
  BY DEF Integers
<1>3. \A t \in T : F[t] = SumOf(f, Of(t))
  <2>1. \A t \in T : Of(t) \in SUBSET S
    BY DEF Group
  <2> HIDE DEF f
  <2> QED
    BY <1>1, <2>1
<1> HIDE DEF f
<1>4. SumOf(F, T) = SumOf(f, S)
  BY <1>2, <1>3, SumByGroups
<1>5. S \in SUBSET S
  OBVIOUS
<1> QED
  BY <1>1, <1>4, <1>5

(* Finite parts, and how their sizes add up. *)
LEMMA PartsAdd ==
  ASSUME NEW P, IsFiniteSet(P), NEW S \in SUBSET P, NEW T \in SUBSET P, S \cap T = {},
         NEW U, U = S \cup T
  PROVE  /\ Cardinality(S) \in Nat /\ Cardinality(T) \in Nat
         /\ Cardinality(U) = Cardinality(S) + Cardinality(T)
<1>1. IsFiniteSet(S) /\ IsFiniteSet(T)
  BY FS_Subset
<1>2. Cardinality(S) \in Nat /\ Cardinality(T) \in Nat
  BY <1>1, FS_CardinalityType
<1>3. Cardinality(S \cup T) = Cardinality(S) + Cardinality(T) - Cardinality(S \cap T)
  BY <1>1, FS_Union
<1>4. Cardinality(S \cap T) = 0
  BY FS_EmptySet
<1> QED
  BY <1>2, <1>3, <1>4

(* Numbers that begin at zero and leave none out below any of them are     *)
(* those below their number.                                               *)
LEMMA LowerPart ==
  ASSUME NEW m \in Nat, NEW T, T \subseteq 0 .. m - 1,
         \A d \in T : \A c \in 0 .. d : c \in T
  PROVE  /\ Cardinality(T) \in 0 .. m
         /\ T = 0 .. Cardinality(T) - 1
<1> DEFINE Out == {d \in Nat : d \notin T}
<1>1. m \in Out /\ Out \subseteq Nat
  OBVIOUS
<1>2. PICK b \in Out : \A d \in Out : b <= d
  <2> HIDE DEF Out
  <2> QED
    BY <1>1, LeastExists
<1>3. b \in 0 .. m
  BY <1>1, <1>2
<1>4. T = 0 .. b - 1
  <2>1. ASSUME NEW d \in T PROVE d \in 0 .. b - 1
    <3>1. d \in Nat
      OBVIOUS
    <3>2. CASE b <= d
      <4>1. b \in 0 .. d
        BY <1>3, <3>1, <3>2
      <4> QED
        BY <1>2, <4>1
    <3> QED
      BY <1>3, <3>1, <3>2
  <2>2. ASSUME NEW d \in 0 .. b - 1 PROVE d \in T
    BY <1>2, <1>3
  <2> QED
    BY <2>1, <2>2
<1>5. Cardinality(0 .. b - 1) = b
  <2>1. 0 \in Int /\ b - 1 \in Int
    BY <1>3
  <2>2. Cardinality(0 .. b - 1) = IF 0 > b - 1 THEN 0 ELSE b - 1 - 0 + 1
    BY <2>1, FS_Interval
  <2> QED
    BY <1>3, <2>2
<1> QED
  BY <1>3, <1>4, <1>5, Zenon

-----------------------------------------------------------------------------
(* Powers of two *)

(* Powers of two are positive. *)
LEMMA PowerType ==
  ASSUME NEW n \in Nat
  PROVE  2^n \in Nat \ {0}
<1> DEFINE S == 1 .. n
<1>1. IsFiniteSet(S) /\ Cardinality(S) = n
  <2>1. 1 \in Int /\ n \in Int
    OBVIOUS
  <2>2. IsFiniteSet(1 .. n) /\ Cardinality(1 .. n) = IF 1 > n THEN 0 ELSE n - 1 + 1
    BY <2>1, FS_Interval
  <2> QED
    BY <2>2
<1> HIDE DEF S
<1>2. IsFiniteSet(SUBSET S) /\ Cardinality(SUBSET S) = 2^n
  BY <1>1, FS_SUBSET
<1>3. Cardinality(SUBSET S) \in Nat /\ Cardinality(SUBSET S) # 0
  <2>1. S \in SUBSET S
    OBVIOUS
  <2> DEFINE U == SUBSET S
  <2>2. IsFiniteSet(U) /\ U # {}
    BY <1>2, <2>1
  <2> HIDE DEF U
  <2>3. Cardinality(U) \in Nat /\ Cardinality(U) # 0
    BY <2>2, FS_CardinalityType, FS_EmptySet
  <2> QED
    BY <2>3 DEF U
<1> QED
  BY <1>2, <1>3

(* Their product is the power of the sum. *)
LEMMA PowerSum ==
  ASSUME NEW m \in Nat, NEW n \in Nat
  PROVE  2^(m + n) = 2^m * 2^n
<1> DEFINE S == 1 .. m + n
           A == 1 .. m
           B == m + 1 .. m + n
           h == [T \in SUBSET S |-> <<T \cap A, T \cap B>>]
<1>1. /\ IsFiniteSet(S) /\ Cardinality(S) = m + n
      /\ IsFiniteSet(A) /\ Cardinality(A) = m
      /\ IsFiniteSet(B) /\ Cardinality(B) = n
  <2>1. 1 \in Int /\ m \in Int /\ m + n \in Int /\ m + 1 \in Int
    OBVIOUS
  <2>2. IsFiniteSet(1 .. m) /\ Cardinality(1 .. m) = IF 1 > m THEN 0 ELSE m - 1 + 1
    BY <2>1, FS_Interval
  <2>3. /\ IsFiniteSet(1 .. m + n)
        /\ Cardinality(1 .. m + n) = IF 1 > m + n THEN 0 ELSE m + n - 1 + 1
    BY <2>1, FS_Interval
  <2>4. /\ IsFiniteSet(m + 1 .. m + n)
        /\ Cardinality(m + 1 .. m + n) = IF m + 1 > m + n THEN 0 ELSE m + n - (m + 1) + 1
    BY <2>1, FS_Interval
  <2> QED
    BY <2>2, <2>3, <2>4
<1>2. A \cup B = S /\ A \cap B = {}
  OBVIOUS
<1> HIDE DEF S, A, B
<1>3. h \in Bijection(SUBSET S, (SUBSET A) \X (SUBSET B))
  <2>1. h \in [SUBSET S -> (SUBSET A) \X (SUBSET B)]
    OBVIOUS
  <2>2. ASSUME NEW T \in SUBSET S, NEW U \in SUBSET S, h[T] = h[U] PROVE T = U
    <3>1. T \cap A = U \cap A /\ T \cap B = U \cap B
      BY <2>2
    <3> QED
      BY <1>2, <3>1
  <2>3. ASSUME NEW e \in (SUBSET A) \X (SUBSET B) PROVE \E T \in SUBSET S : h[T] = e
    <3>1. PICK C \in SUBSET A, D \in SUBSET B : e = <<C, D>>
      BY <2>3
    <3>2. C \cup D \in SUBSET S
      BY <1>2, <3>1
    <3>3. (C \cup D) \cap A = C /\ (C \cup D) \cap B = D
      BY <1>2, <3>1
    <3>4. h[C \cup D] = <<C, D>>
      BY <3>2, <3>3
    <3> QED
      BY <3>1, <3>2, <3>4
  <2> HIDE DEF h
  <2> QED
    BY <2>1, <2>2, <2>3 DEF Bijection, Injection, Surjection, IsInjective
<1>4. /\ IsFiniteSet(SUBSET S) /\ Cardinality(SUBSET S) = 2^(m + n)
      /\ IsFiniteSet(SUBSET A) /\ Cardinality(SUBSET A) = 2^m
      /\ IsFiniteSet(SUBSET B) /\ Cardinality(SUBSET B) = 2^n
  BY <1>1, FS_SUBSET
<1>5. Cardinality((SUBSET A) \X (SUBSET B)) = 2^m * 2^n
  <2> DEFINE a == SUBSET A
             b == SUBSET B
  <2>1. IsFiniteSet(a) /\ IsFiniteSet(b)
    BY <1>4
  <2> HIDE DEF a, b
  <2>2. Cardinality(a \X b) = Cardinality(a) * Cardinality(b)
    BY <2>1, FS_Product
  <2> QED
    BY <1>4, <2>2 DEF a, b
<1>6. Cardinality((SUBSET A) \X (SUBSET B)) = Cardinality(SUBSET S)
  <2> DEFINE a == SUBSET S
             b == (SUBSET A) \X (SUBSET B)
  <2>1. IsFiniteSet(a) /\ h \in Bijection(a, b)
    BY <1>3, <1>4
  <2> HIDE DEF a, b, h
  <2>2. Cardinality(b) = Cardinality(a)
    BY <2>1, AsMany
  <2> QED
    BY <2>2 DEF a, b
<1> QED
  BY <1>4, <1>5, <1>6

-----------------------------------------------------------------------------
(* FlattenSeq of the community module SequencesExt *)

(* g joins the first lists of seqs, one, two, and so on. *)
Flattens(seqs, g) ==
  g = [i \in 1 .. Len(seqs) |-> IF i = 1 THEN seqs[i] ELSE g[i - 1] \o seqs[i]]

(* What the community module defines. *)
LEMMA FlattenIsChosen ==
  ASSUME NEW seqs, Len(seqs) # 0
  PROVE  FlattenSeq(seqs) = (CHOOSE g : Flattens(seqs, g))[Len(seqs)]
  BY Zenon DEF FlattenSeq, Flattens

(* One step of joining. *)
LEMMA FlattensStep ==
  ASSUME NEW seqs, NEW g, Flattens(seqs, g), NEW i \in 1 .. Len(seqs)
  PROVE  /\ i = 1 => g[i] = seqs[i]
         /\ i # 1 => g[i] = g[i - 1] \o seqs[i]
<1> DEFINE h == [j \in 1 .. Len(seqs) |-> IF j = 1 THEN seqs[j] ELSE g[j - 1] \o seqs[j]]
<1>1. g = h
  BY Zenon DEF Flattens
<1>2. h[i] = IF i = 1 THEN seqs[i] ELSE g[i - 1] \o seqs[i]
  BY Zenon
<1> HIDE DEF h
<1> QED
  BY <1>1, <1>2, Zenon

(* Whatever joins the lists one by one ends with the flattened list. *)
LEMMA Flattened ==
  ASSUME NEW seqs, Len(seqs) \in Nat \ {0}, NEW h, Flattens(seqs, h)
  PROVE  FlattenSeq(seqs) = h[Len(seqs)]
<1> DEFINE g == CHOOSE f : Flattens(seqs, f)
           n == Len(seqs)
           T == {i \in 1 .. n : g[i] # h[i]}
<1>1. Flattens(seqs, g)
  BY Zenon
<1>2. FlattenSeq(seqs) = g[n]
  BY FlattenIsChosen
<1> HIDE DEF g
<1>3. T = {}
  <2> SUFFICES ASSUME T # {} PROVE FALSE
    OBVIOUS
  <2>1. T \subseteq Nat
    OBVIOUS
  <2>2. PICK i \in T : \A j \in T : i <= j
    <3> HIDE DEF T
    <3> QED
      BY <2>1, LeastExists
  <2>3. i \in 1 .. n /\ g[i] # h[i]
    BY <2>2
  <2>4. /\ i = 1 => g[i] = seqs[i]
        /\ i # 1 => g[i] = g[i - 1] \o seqs[i]
    BY <1>1, <2>3, FlattensStep
  <2>5. /\ i = 1 => h[i] = seqs[i]
        /\ i # 1 => h[i] = h[i - 1] \o seqs[i]
    BY <2>3, FlattensStep
  <2>6. i # 1 => i - 1 \in 1 .. n /\ ~(i <= i - 1)
    BY <2>3
  <2>7. i # 1 => g[i - 1] = h[i - 1]
    BY <2>2, <2>6
  <2> HIDE DEF T, n
  <2> QED
    BY <2>3, <2>4, <2>5, <2>7, Zenon
<1>4. n \in 1 .. n
  OBVIOUS
<1> QED
  BY <1>2, <1>3, <1>4

-----------------------------------------------------------------------------
(* Lists in lists *)

(* Two lists joined. *)
LEMMA Joined ==
  ASSUME NEW S, NEW s \in Seq(S), NEW t \in Seq(S)
  PROVE  /\ s \o t \in Seq(S) /\ Len(s \o t) = Len(s) + Len(t)
         /\ \A i \in 1 .. Len(s) : (s \o t)[i] = s[i]
         /\ \A i \in 1 .. Len(t) : (s \o t)[Len(s) + i] = t[i]
  OBVIOUS

JoinOf(w, s, t) ==
  /\ w \in Seq(Int) /\ Len(w) = Len(s) + Len(t)
  /\ \A i \in 1 .. Len(s) : w[i] = s[i]
  /\ \A i \in 1 .. Len(t) : w[Len(s) + i] = t[i]
LEMMA JoinedNumbers ==
  ASSUME NEW s \in Seq(Int), NEW t \in Seq(Int)
  PROVE  JoinOf(s \o t, s, t)
  BY DEF JoinOf

(* Lists with the same entries are the same. *)
LEMMA SameList ==
  ASSUME NEW S, NEW s \in Seq(S), NEW t \in Seq(S), Len(s) = Len(t),
         \A i \in 1 .. Len(s) : s[i] = t[i]
  PROVE  s = t
  OBVIOUS

(* A part of a list. *)
LEMMA PartOfList ==
  ASSUME NEW S, NEW s \in Seq(S), NEW a \in 1 .. Len(s) + 1, NEW b \in a - 1 .. Len(s)
  PROVE  /\ SubSeq(s, a, b) \in Seq(S) /\ Len(SubSeq(s, a, b)) = b - a + 1
         /\ \A i \in 1 .. b - a + 1 : SubSeq(s, a, b)[i] = s[a - 1 + i]
  OBVIOUS

(* All of a list. *)
LEMMA AllOfList ==
  ASSUME NEW S, NEW s \in Seq(S)
  PROVE  SubSeq(s, 1, Len(s)) = s
  OBVIOUS

(* Joining is associative. *)
LEMMA JoinedInTurn ==
  ASSUME NEW s \in Seq(Int), NEW t \in Seq(Int), NEW u \in Seq(Int)
  PROVE  (s \o t) \o u = s \o (t \o u)
  OBVIOUS

(* A part of the first of two lists. *)
LEMMA PartOfFirst ==
  ASSUME NEW S, NEW s \in Seq(S), NEW t \in Seq(S),
         NEW a \in 1 .. Len(s) + 1, NEW b \in a - 1 .. Len(s)
  PROVE  SubSeq(s \o t, a, b) = SubSeq(s, a, b)
<1> DEFINE w == s \o t
           p == SubSeq(w, a, b)
           q == SubSeq(s, a, b)
<1>1. w \in Seq(S) /\ Len(w) = Len(s) + Len(t) /\ \A i \in 1 .. Len(s) : w[i] = s[i]
  BY Joined
<1>2. Len(s) \in Nat /\ Len(t) \in Nat
  OBVIOUS
<1> HIDE DEF w
<1>3. a \in 1 .. Len(w) + 1 /\ b \in a - 1 .. Len(w)
  BY <1>1, <1>2
<1>4. p \in Seq(S) /\ Len(p) = b - a + 1 /\ \A i \in 1 .. b - a + 1 : p[i] = w[a - 1 + i]
  BY <1>1, <1>3, PartOfList
<1>5. q \in Seq(S) /\ Len(q) = b - a + 1 /\ \A i \in 1 .. b - a + 1 : q[i] = s[a - 1 + i]
  BY PartOfList
<1> HIDE DEF p, q
<1>6. \A i \in 1 .. Len(p) : p[i] = q[i]
  <2> SUFFICES ASSUME NEW i \in 1 .. b - a + 1 PROVE p[i] = q[i]
    BY <1>4
  <2>1. a - 1 + i \in 1 .. Len(s)
    BY <1>2
  <2> QED
    BY <1>1, <1>4, <1>5, <2>1
<1>7. p = q
  BY <1>4, <1>5, <1>6, SameList
<1> QED
  BY <1>7 DEF p, q, w

(* A part of the second of two lists. *)
LEMMA PartOfSecond ==
  ASSUME NEW S, NEW s \in Seq(S), NEW t \in Seq(S),
         NEW a \in 1 .. Len(t) + 1, NEW b \in a - 1 .. Len(t)
  PROVE  SubSeq(s \o t, Len(s) + a, Len(s) + b) = SubSeq(t, a, b)
<1> DEFINE w == s \o t
           x == Len(s) + a
           y == Len(s) + b
           p == SubSeq(w, x, y)
           q == SubSeq(t, a, b)
<1>1. /\ w \in Seq(S) /\ Len(w) = Len(s) + Len(t)
      /\ \A i \in 1 .. Len(t) : w[Len(s) + i] = t[i]
  BY Joined
<1>2. Len(s) \in Nat /\ Len(t) \in Nat
  OBVIOUS
<1> HIDE DEF w
<1>3. x \in 1 .. Len(w) + 1 /\ y \in x - 1 .. Len(w) /\ y - x + 1 = b - a + 1
  BY <1>1, <1>2
<1>4. p \in Seq(S) /\ Len(p) = y - x + 1 /\ \A i \in 1 .. y - x + 1 : p[i] = w[x - 1 + i]
  <2> HIDE DEF x, y
  <2> QED
    BY <1>1, <1>3, PartOfList
<1>5. q \in Seq(S) /\ Len(q) = b - a + 1 /\ \A i \in 1 .. b - a + 1 : q[i] = t[a - 1 + i]
  BY PartOfList
<1> HIDE DEF p, q
<1>6. \A i \in 1 .. Len(p) : p[i] = q[i]
  <2> SUFFICES ASSUME NEW i \in 1 .. b - a + 1 PROVE p[i] = q[i]
    BY <1>3, <1>4
  <2>1. a - 1 + i \in 1 .. Len(t) /\ x - 1 + i = Len(s) + (a - 1 + i)
    BY <1>2
  <2>2. p[i] = w[x - 1 + i]
    BY <1>3, <1>4
  <2>3. w[Len(s) + (a - 1 + i)] = t[a - 1 + i]
    BY <1>1, <2>1
  <2>4. q[i] = t[a - 1 + i]
    BY <1>5
  <2> QED
    BY <2>1, <2>2, <2>3, <2>4
<1>7. p = q
  BY <1>3, <1>4, <1>5, <1>6, SameList
<1> QED
  BY <1>7 DEF p, q, w, x, y

(* Lists of numbers of one length, and those lists in a row. *)
Alike(seqs, n, l) ==
  /\ n \in Nat \ {0} /\ l \in Nat /\ DOMAIN seqs = 1 .. n /\ Len(seqs) = n
  /\ \A i \in 1 .. n : seqs[i] \in Seq(Int) /\ Len(seqs[i]) = l
InARow(f, seqs, n, l) ==
  /\ f \in Seq(Int) /\ Len(f) = n * l
  /\ \A i \in 1 .. n : SubSeq(f, (i - 1) * l + 1, i * l) = seqs[i]
  /\ \A i \in 1 .. n, k \in 1 .. l : f[(i - 1) * l + k] = seqs[i][k]
(* Flattening puts them in a row. *)
LEMMA FlattenedInARow ==
  ASSUME NEW seqs, NEW n, NEW l, Alike(seqs, n, l)
  PROVE  InARow(FlattenSeq(seqs), seqs, n, l)
<1> /\ n \in Nat \ {0} /\ l \in Nat /\ DOMAIN seqs = 1 .. n /\ Len(seqs) = n
    /\ \A i \in 1 .. n : seqs[i] \in Seq(Int) /\ Len(seqs[i]) = l
  BY DEF Alike
<1> DEFINE entry(x) == seqs[((x - 1) \div l) + 1][((x - 1) % l) + 1]
           h(i) == [x \in 1 .. i * l |-> entry(x)]
           g == [i \in 1 .. n |-> h(i)]
<1>0. \A i \in 0 .. n : i * l \in Nat /\ (i - 1) * l + l = i * l
  OBVIOUS
<1>1. ASSUME NEW x \in 1 .. n * l
      PROVE  entry(x) \in Int
  <2>1. l \in Nat \ {0} /\ x - 1 \in 0 .. n * l - 1
    BY <1>0
  <2> DEFINE q == (x - 1) \div l
             r == (x - 1) % l
  <2>2. q \in Nat /\ r \in 0 .. l - 1 /\ x - 1 = q * l + r
    <3> DEFINE y == x - 1
    <3>1. y \in Nat /\ l \in Nat \ {0}
      BY <1>0, <2>1
    <3> HIDE DEF y
    <3>2. y \div l \in Nat /\ y % l \in 0 .. l - 1 /\ y = (y \div l) * l + (y % l)
      BY <3>1, DivisionOf
    <3> QED
      BY <3>2 DEF y
  <2>3. q \in 0 .. n - 1
    <3> HIDE DEF q, r
    <3> SUFFICES ASSUME q >= n PROVE FALSE
      BY <2>2
    <3>1. n * l <= q * l
      BY <2>2, ProductGrows
    <3> DEFINE m == n * l
               p == q * l
    <3>2. m \in Nat /\ p \in Nat /\ m <= p /\ x - 1 \in 0 .. m - 1 /\ x - 1 = p + r /\ r \in Nat
      BY <1>0, <2>1, <2>2, <3>1
    <3> HIDE DEF m, p
    <3> QED
      BY <3>2
  <2>4. seqs[q + 1] \in Seq(Int) /\ Len(seqs[q + 1]) = l
    <3>1. q + 1 \in 1 .. n
      BY <2>3
    <3> QED
      BY <3>1
  <2>5. r + 1 \in 1 .. l
    BY <2>2
  <2> HIDE DEF q, r
  <2>6. seqs[q + 1][r + 1] \in Int
    BY <2>4, <2>5
  <2> QED
    BY <2>6 DEF q, r
<1>2. ASSUME NEW i \in 1 .. n, NEW k \in 1 .. l
      PROVE  /\ (i - 1) * l + k \in 1 .. i * l /\ entry((i - 1) * l + k) = seqs[i][k]
  <2> DEFINE q == i - 1
             r == k - 1
             x == q * l + k
  <2>1. q \in Nat /\ r \in 0 .. l - 1 /\ l \in Nat \ {0} /\ q * l \in Nat /\ q + 1 = i /\ r + 1 = k
    BY <1>0
  <2>2. x - 1 = q * l + r /\ x \in 1 .. q * l + l
    <3> DEFINE p == q * l
    <3>1. p \in Nat
      BY <2>1
    <3> HIDE DEF p
    <3>2. p + k - 1 = p + (k - 1) /\ p + k \in 1 .. p + l
      BY <3>1
    <3> QED
      BY <3>2 DEF p
  <2>3. (q * l + r) \div l = q /\ (q * l + r) % l = r
    <3> HIDE DEF q, r
    <3> QED
      BY <2>1, Division
  <2>4. entry(x) = seqs[q + 1][r + 1]
    <3> HIDE DEF q, r
    <3>1. (x - 1) \div l = q /\ (x - 1) % l = r
      BY <2>2, <2>3, Zenon
    <3> HIDE DEF x
    <3> QED
      BY <3>1, Zenon
  <2>5. q * l + l = i * l
    BY <1>0
  <2> QED
    BY <2>1, <2>2, <2>4, <2>5
<1>3. ASSUME NEW i \in 1 .. n
      PROVE  /\ h(i) \in Seq(Int) /\ Len(h(i)) = i * l
             /\ i # 1 => h(i) = h(i - 1) \o seqs[i]
             /\ i = 1 => h(i) = seqs[i]
             /\ SubSeq(h(n), (i - 1) * l + 1, i * l) = seqs[i]
  <2>1. i * l \in Nat /\ n * l \in Nat /\ i * l <= n * l /\ (i - 1) * l \in Nat /\ (i - 1) * l + l = i * l
    <3>1. i * l <= n * l
      BY ProductGrows
    <3>2. i \in 0 .. n /\ n \in 0 .. n /\ i - 1 \in 0 .. n
      OBVIOUS
    <3> QED
      BY <1>0, <3>1, <3>2
  <2>2. \A j \in 0 .. n : h(j) \in Seq(Int) /\ Len(h(j)) = j * l /\ \A x \in 1 .. j * l : h(j)[x] = entry(x)
    <3> SUFFICES ASSUME NEW j \in 0 .. n
                 PROVE  h(j) \in Seq(Int) /\ Len(h(j)) = j * l /\ \A x \in 1 .. j * l : h(j)[x] = entry(x)
      OBVIOUS
    <3>1. j * l \in Nat /\ j * l <= n * l
      BY <1>0, ProductGrows
    <3>2. \A x \in 1 .. j * l : entry(x) \in Int
      <4> SUFFICES ASSUME NEW x \in 1 .. j * l PROVE entry(x) \in Int
        OBVIOUS
      <4> DEFINE m == j * l
                 p == n * l
      <4>1. x \in 1 .. m /\ m \in Nat /\ p \in Nat /\ m <= p
        BY <2>1, <3>1
      <4> HIDE DEF m, p
      <4>2. x \in 1 .. p
        BY <4>1
      <4> HIDE DEF entry
      <4> QED
        BY <1>1, <4>2 DEF p
    <3> DEFINE m == j * l
    <3>3. m \in Nat /\ \A x \in 1 .. m : entry(x) \in Int
      BY <3>1, <3>2
    <3> HIDE DEF m, entry
    <3>4. /\ [x \in 1 .. m |-> entry(x)] \in Seq(Int) /\ Len([x \in 1 .. m |-> entry(x)]) = m
          /\ \A x \in 1 .. m : [y \in 1 .. m |-> entry(y)][x] = entry(x)
      BY <3>3
    <3> QED
      BY <3>4 DEF m
  <2>3. seqs[i] \in Seq(Int) /\ Len(seqs[i]) = l
    OBVIOUS
  <2>4. h(i) \in Seq(Int) /\ Len(h(i)) = i * l /\ \A x \in 1 .. i * l : h(i)[x] = entry(x)
    BY <2>2
  <2>5. h(i - 1) \in Seq(Int) /\ Len(h(i - 1)) = (i - 1) * l
          /\ \A x \in 1 .. (i - 1) * l : h(i - 1)[x] = entry(x)
    <3>1. i - 1 \in 0 .. n
      OBVIOUS
    <3> QED
      BY <2>2, <3>1
  <2>6. h(n) \in Seq(Int) /\ Len(h(n)) = n * l /\ \A x \in 1 .. n * l : h(n)[x] = entry(x)
    BY <2>2
  <2>7. \A k \in 1 .. l : entry((i - 1) * l + k) = seqs[i][k]
    BY <1>2
  <2> DEFINE a == h(i - 1)
             b == h(i)
             c == h(n)
             o == (i - 1) * l
             p == i * l
             q == n * l
  <2>8. /\ a \in Seq(Int) /\ Len(a) = o /\ \A x \in 1 .. o : a[x] = entry(x)
        /\ b \in Seq(Int) /\ Len(b) = p /\ \A x \in 1 .. p : b[x] = entry(x)
        /\ c \in Seq(Int) /\ Len(c) = q /\ \A x \in 1 .. q : c[x] = entry(x)
        /\ o \in Nat /\ p \in Nat /\ q \in Nat /\ o + l = p /\ p <= q
        /\ \A k \in 1 .. l : entry(o + k) = seqs[i][k]
    BY <2>1, <2>4, <2>5, <2>6, <2>7
  <2>9. i = 1 => o = 0 /\ p = l
    BY <1>0
  <2> HIDE DEF a, b, c, o, p, q, h, entry
  <2>10. b = a \o seqs[i]
    <3> DEFINE w == a \o seqs[i]
    <3>1. /\ w \in Seq(Int) /\ Len(w) = o + l /\ \A x \in 1 .. o : w[x] = a[x]
          /\ \A x \in 1 .. l : w[o + x] = seqs[i][x]
      <4> DEFINE t == seqs[i]
      <4>0. t \in Seq(Int) /\ Len(t) = l /\ a \in Seq(Int) /\ Len(a) = o
        BY <2>3, <2>8
      <4> HIDE DEF t
      <4>1. /\ w \in Seq(Int) /\ Len(w) = Len(a) + Len(t) /\ \A x \in 1 .. Len(a) : w[x] = a[x]
            /\ \A x \in 1 .. Len(t) : w[Len(a) + x] = t[x]
        <5>1. w = a \o t
          BY DEF t
        <5>2. t \in Seq(Int) /\ a \in Seq(Int)
          BY <4>0
        <5>3. a \o t \in Seq(Int) /\ Len(a \o t) = Len(a) + Len(t)
          BY <5>2, Joined
        <5>4. \A x \in 1 .. Len(a) : (a \o t)[x] = a[x]
          BY <5>2, Joined
        <5>5. ASSUME NEW x \in 1 .. Len(t) PROVE (a \o t)[Len(a) + x] = t[x]
          BY <5>2, Joined
        <5> HIDE DEF w
        <5> QED
          BY <5>1, <5>3, <5>4, <5>5, Zenon
      <4> QED
        BY <4>0, <4>1 DEF t
    <3> HIDE DEF w
    <3>2. \A x \in 1 .. Len(b) : b[x] = w[x]
      <4> SUFFICES ASSUME NEW x \in 1 .. p PROVE b[x] = w[x]
        BY <2>8
      <4>1. CASE x <= o
        BY <2>8, <3>1, <4>1
      <4>2. CASE x > o
        <5>1. x - o \in 1 .. l /\ o + (x - o) = x
          BY <2>8, <4>2
        <5>2. entry(o + (x - o)) = seqs[i][x - o] /\ w[o + (x - o)] = seqs[i][x - o]
          BY <2>8, <3>1, <5>1
        <5> QED
          BY <2>8, <5>1, <5>2
      <4> QED
        BY <2>8, <4>1, <4>2
    <3>3. b = w
      BY <2>8, <3>1, <3>2, SameList
    <3> QED
      BY <3>3 DEF w
  <2>11. i = 1 => b = seqs[i]
    <3> SUFFICES ASSUME i = 1 PROVE b = seqs[i]
      OBVIOUS
    <3>1. \A x \in 1 .. Len(b) : b[x] = seqs[i][x]
      <4> SUFFICES ASSUME NEW x \in 1 .. p PROVE b[x] = seqs[i][x]
        BY <2>8
      <4>1. x \in 1 .. l /\ o + x = x
        BY <2>8, <2>9
      <4>2. entry(o + x) = seqs[i][x]
        BY <2>8, <4>1
      <4> QED
        BY <2>8, <4>1, <4>2
    <3>2. b \in Seq(Int) /\ seqs[i] \in Seq(Int) /\ Len(b) = Len(seqs[i])
      BY <2>3, <2>8, <2>9
    <3> QED
      BY <3>1, <3>2, SameList
  <2>12. SubSeq(c, o + 1, p) = seqs[i]
    <3> DEFINE w == SubSeq(c, o + 1, p)
               y == o + 1
    <3>1. y \in 1 .. Len(c) + 1 /\ p \in y - 1 .. Len(c) /\ p - y + 1 = l /\ y - 1 = o
      BY <2>8
    <3>2. w \in Seq(Int) /\ Len(w) = l /\ \A x \in 1 .. l : w[x] = c[o + x]
      <4> HIDE DEF y
      <4>1. /\ SubSeq(c, y, p) \in Seq(Int) /\ Len(SubSeq(c, y, p)) = p - y + 1
            /\ \A x \in 1 .. p - y + 1 : SubSeq(c, y, p)[x] = c[y - 1 + x]
        <5>1. c \in Seq(Int) /\ y \in 1 .. Len(c) + 1 /\ p \in y - 1 .. Len(c)
          BY <2>8, <3>1
        <5>2. SubSeq(c, y, p) \in Seq(Int) /\ Len(SubSeq(c, y, p)) = p - y + 1
          BY <5>1, PartOfList
        <5>3. ASSUME NEW x \in 1 .. p - y + 1 PROVE SubSeq(c, y, p)[x] = c[y - 1 + x]
          BY <5>1, PartOfList
        <5> QED
          BY <5>2, <5>3
      <4>2. SubSeq(c, y, p) = w
        BY DEF y
      <4> QED
        BY <3>1, <4>1, <4>2
    <3> HIDE DEF w, y
    <3>3. \A x \in 1 .. Len(w) : w[x] = seqs[i][x]
      <4> SUFFICES ASSUME NEW x \in 1 .. l PROVE w[x] = seqs[i][x]
        BY <3>2
      <4>0. l \in Nat /\ o \in Nat /\ p \in Nat /\ q \in Nat /\ o + l = p /\ p <= q
        BY <1>0, <2>8
      <4>1. o + x \in 1 .. q
        BY <4>0
      <4>2. w[x] = c[o + x]
        BY <3>2
      <4>3. c[o + x] = entry(o + x)
        BY <2>8, <4>1
      <4>4. entry(o + x) = seqs[i][x]
        BY <2>8
      <4> QED
        BY <4>2, <4>3, <4>4
    <3>4. w = seqs[i]
      BY <2>3, <3>2, <3>3, SameList
    <3> QED
      BY <3>4 DEF w
  <2> QED
    BY <2>8, <2>10, <2>11, <2>12 DEF a, b, c, o, p, q
<1>4. Flattens(seqs, g)
  <2> DEFINE f == [i \in 1 .. n |-> IF i = 1 THEN seqs[i] ELSE g[i - 1] \o seqs[i]]
  <2>1. ASSUME NEW i \in 1 .. n PROVE g[i] = f[i]
    <3>1. CASE i = 1
      <4>1. g[i] = h(i) /\ f[i] = seqs[i]
        BY <3>1
      <4> HIDE DEF h, g, f
      <4> QED
        BY <1>3, <3>1, <4>1
    <3>2. CASE i # 1
      <4>1. i - 1 \in 1 .. n
        BY <3>2
      <4>2. g[i - 1] = h(i - 1) /\ g[i] = h(i) /\ f[i] = g[i - 1] \o seqs[i]
        <5> HIDE DEF h
        <5> QED
          BY <3>2, <4>1
      <4> HIDE DEF h, g, f
      <4> QED
        BY <1>3, <3>2, <4>2
    <3> QED
      BY <3>1, <3>2
  <2>2. g = f
    <3> HIDE DEF h
    <3>1. g = [i \in 1 .. n |-> g[i]] /\ f = [i \in 1 .. n |-> f[i]]
      OBVIOUS
    <3> HIDE DEF g, f
    <3> QED
      BY <2>1, <3>1
  <2> HIDE DEF g
  <2> QED
    BY <2>2 DEF Flattens
<1>5. FlattenSeq(seqs) = h(n)
  <2> HIDE DEF g, h
  <2>1. FlattenSeq(seqs) = g[n]
    BY <1>4, Flattened
  <2>2. g[n] = h(n)
    BY DEF g
  <2> QED
    BY <2>1, <2>2
<1>6. n \in 1 .. n
  OBVIOUS
<1>7. \A i \in 1 .. n, k \in 1 .. l : h(n)[(i - 1) * l + k] = seqs[i][k]
  <2> SUFFICES ASSUME NEW i \in 1 .. n, NEW k \in 1 .. l
               PROVE  h(n)[(i - 1) * l + k] = seqs[i][k]
    OBVIOUS
  <2>1. (i - 1) * l + k \in 1 .. i * l /\ entry((i - 1) * l + k) = seqs[i][k]
    BY <1>2
  <2>2. i * l <= n * l /\ i * l \in Nat /\ n * l \in Nat
    BY <1>0, ProductGrows
  <2> DEFINE x == (i - 1) * l + k
             m == n * l
  <2>3. x \in 1 .. m
    <3> DEFINE p == i * l
    <3>1. x \in 1 .. p /\ p <= m /\ p \in Nat /\ m \in Nat
      BY <2>1, <2>2
    <3> HIDE DEF x, p, m
    <3> QED
      BY <3>1
  <2> HIDE DEF entry
  <2>4. h(n)[x] = entry(x)
    <3> HIDE DEF x
    <3> QED
      BY <2>3 DEF m
  <2> QED
    BY <2>1, <2>4
<1> HIDE DEF h
<1> QED
  BY <1>3, <1>5, <1>6, <1>7 DEF InARow

-----------------------------------------------------------------------------
(* Lists of blocks in order *)

(* Entries that no two share a place. *)
Placed(S) ==
  /\ IsFiniteSet(S)
  /\ \A e \in S : e.chunk \in Int /\ e.block \in Int
  /\ \A d, e \in S : d.chunk = e.chunk /\ d.block = e.block => d = e

AllBefore(S, e) == {d \in S : Before(d, e)}
PlaceIn(S, e) == Cardinality(AllBefore(S, e))

(* Their order is total and strict. *)
LEMMA BeforeIsTotal ==
  ASSUME NEW S, Placed(S)
  PROVE  /\ \A d, e \in S : d = e \/ Before(d, e) \/ Before(e, d)
         /\ \A e \in S : ~Before(e, e)
         /\ \A c, d, e \in S : Before(c, d) /\ Before(d, e) => Before(c, e)
  BY DEF Placed, Before

(* Ranks are the numbers below the size, and grow with the order. *)
LEMMA Ranks ==
  ASSUME NEW S, Placed(S)
  PROVE  /\ Cardinality(S) \in Nat
         /\ \A e \in S : PlaceIn(S, e) \in 0 .. Cardinality(S) - 1
         /\ \A d, e \in S : Before(d, e) => PlaceIn(S, d) < PlaceIn(S, e)
         /\ \A d, e \in S : PlaceIn(S, d) < PlaceIn(S, e) => Before(d, e)
         /\ \A d, e \in S : PlaceIn(S, d) = PlaceIn(S, e) => d = e
<1>1. /\ \A d, e \in S : d = e \/ Before(d, e) \/ Before(e, d)
      /\ \A e \in S : ~Before(e, e)
      /\ \A c, d, e \in S : Before(c, d) /\ Before(d, e) => Before(c, e)
  BY BeforeIsTotal
<1>2. IsFiniteSet(S) /\ Cardinality(S) \in Nat
  BY FS_CardinalityType DEF Placed
<1>3. \A e \in S : IsFiniteSet(AllBefore(S, e)) /\ PlaceIn(S, e) \in Nat
  <2> SUFFICES ASSUME NEW e \in S PROVE IsFiniteSet(AllBefore(S, e)) /\ PlaceIn(S, e) \in Nat
    OBVIOUS
  <2>1. AllBefore(S, e) \in SUBSET S
    BY DEF AllBefore
  <2>2. IsFiniteSet(AllBefore(S, e))
    BY <1>2, <2>1, FS_Subset
  <2> QED
    BY <2>2, FS_CardinalityType DEF PlaceIn
<1>4. ASSUME NEW e \in S PROVE PlaceIn(S, e) < Cardinality(S)
  <2> DEFINE B == AllBefore(S, e)
  <2>1. B \in SUBSET S /\ B # S
    BY <1>1 DEF AllBefore
  <2> HIDE DEF B
  <2>2. Cardinality(B) <= Cardinality(S) /\ Cardinality(B) # Cardinality(S)
    BY <1>2, <2>1, FS_Subset
  <2> QED
    BY <1>2, <1>3, <2>2 DEF PlaceIn, B
<1>5. ASSUME NEW d \in S, NEW e \in S, Before(d, e) PROVE PlaceIn(S, d) < PlaceIn(S, e)
  <2> DEFINE B == AllBefore(S, d)
             C == AllBefore(S, e)
  <2>1. B \in SUBSET C /\ B # C /\ IsFiniteSet(C)
    <3>1. d \in C /\ d \notin B
      BY <1>1, <1>5 DEF AllBefore
    <3>2. B \in SUBSET C
      BY <1>1, <1>5 DEF AllBefore
    <3> QED
      BY <1>3, <3>1, <3>2
  <2> HIDE DEF B, C
  <2>2. Cardinality(B) <= Cardinality(C) /\ Cardinality(B) # Cardinality(C)
    BY <2>1, FS_Subset
  <2> QED
    BY <1>3, <2>2 DEF PlaceIn, B, C
<1>6. \A e \in S : PlaceIn(S, e) \in 0 .. Cardinality(S) - 1
  BY <1>2, <1>3, <1>4
<1>7. \A d, e \in S : Before(d, e) => PlaceIn(S, d) < PlaceIn(S, e)
  BY <1>5
<1> QED
  BY <1>1, <1>2, <1>3, <1>6, <1>7

(* Every number below the size is a rank. *)
LEMMA EveryRank ==
  ASSUME NEW S, Placed(S), NEW n \in 0 .. Cardinality(S) - 1
  PROVE  \E e \in S : PlaceIn(S, e) = n
<1> DEFINE N == 0 .. Cardinality(S) - 1
           f == [e \in S |-> PlaceIn(S, e)]
<1>1. IsFiniteSet(S) /\ Cardinality(S) \in Nat
  BY FS_CardinalityType DEF Placed
<1>2. f \in Injection(S, N)
  <2>1. /\ \A e \in S : PlaceIn(S, e) \in N
        /\ \A d, e \in S : PlaceIn(S, d) = PlaceIn(S, e) => d = e
    BY Ranks
  <2> HIDE DEF N
  <2> QED
    BY <2>1 DEF Injection, IsInjective
<1>3. IsFiniteSet(N) /\ Cardinality(N) = Cardinality(S)
  BY <1>1, FS_Interval
<1> HIDE DEF f, N
<1>4. f \in Surjection(S, N)
  BY <1>2, <1>3, FS_Injection
<1> QED
  BY <1>4 DEF Surjection, f, N

(* p lists A by the number of elements below each: those that key is less for. *)
ListsByRank(p, A, key, below) ==
  LET n == Cardinality(A)
  IN  /\ n \in Nat /\ p \in Bijection(1 .. n, A)
      /\ \A k \in 1 .. n : p[k] \in A /\ Cardinality(below[p[k]]) = k - 1
      /\ \A k \in 1 .. n, i \in A : Cardinality(below[i]) = k - 1 => i = p[k]
      /\ \A i \in A : \E k \in 1 .. n : i = p[k]
      /\ \A k, l \in 1 .. n : k < l => Before(key[p[k]], key[p[l]])

(* Elements that no two share a key are listed that way. *)
LEMMA Ranked ==
  ASSUME NEW A, IsFiniteSet(A), NEW key, key = [i \in A |-> key[i]],
         \A i \in A : key[i].chunk \in Int /\ key[i].block \in Int,
         \A i, j \in A : key[i].chunk = key[j].chunk /\ key[i].block = key[j].block => i = j,
         NEW below, \A i \in A : below[i] = {j \in A : Before(key[j], key[i])}
  PROVE  \E p : ListsByRank(p, A, key, below)
<1> DEFINE S == {key[i] : i \in A}
           n == Cardinality(A)
<1>1. key \in Bijection(A, S)
  <2>1. key \in [A -> S]
    <3>1. [i \in A |-> key[i]] \in [A -> S]
      OBVIOUS
    <3> QED
      BY <3>1, Zenon
  <2>2. \A i, j \in A : key[i] = key[j] => i = j
    OBVIOUS
  <2>3. \A e \in S : \E i \in A : key[i] = e
    OBVIOUS
  <2> HIDE DEF S
  <2> QED
    BY <2>1, <2>2, <2>3 DEF Bijection, Injection, Surjection, IsInjective
<1>2. IsFiniteSet(S) /\ Cardinality(S) = n
  <2> HIDE DEF S
  <2> QED
    BY <1>1, AsMany
<1>3. Placed(S)
  <2>1. \A e \in S : e.chunk \in Int /\ e.block \in Int
    OBVIOUS
  <2>2. \A d, e \in S : d.chunk = e.chunk /\ d.block = e.block => d = e
    <3> SUFFICES ASSUME NEW i \in A, NEW j \in A,
                        key[i].chunk = key[j].chunk /\ key[i].block = key[j].block
                 PROVE  key[i] = key[j]
      OBVIOUS
    <3>1. i = j
      OBVIOUS
    <3> QED
      BY <3>1
  <2> HIDE DEF S
  <2> QED
    BY <1>2, <2>1, <2>2 DEF Placed
<1>4. ASSUME NEW i \in A PROVE Cardinality(below[i]) = PlaceIn(S, key[i])
  <2> DEFINE B == {j \in A : Before(key[j], key[i])}
             C == AllBefore(S, key[i])
             h == [j \in B |-> key[j]]
  <2>1. h \in [B -> C]
    BY DEF AllBefore
  <2>2. \A j, k \in B : h[j] = h[k] => j = k
    OBVIOUS
  <2>3. \A e \in C : \E j \in B : h[j] = e
    BY DEF AllBefore
  <2>4. IsFiniteSet(B)
    <3>1. B \in SUBSET A
      OBVIOUS
    <3> HIDE DEF B
    <3> QED
      BY <3>1, FS_Subset
  <2>5. below[i] = B
    OBVIOUS
  <2> HIDE DEF B, C, h
  <2>6. h \in Bijection(B, C)
    BY <2>1, <2>2, <2>3 DEF Bijection, Injection, Surjection, IsInjective
  <2>7. Cardinality(C) = Cardinality(B)
    BY <2>4, <2>6, AsMany
  <2> QED
    BY <2>5, <2>7 DEF PlaceIn, C
<1>5. \A i \in A : key[i] \in S
  OBVIOUS
<1>6. ASSUME NEW k \in 1 .. n PROVE \E i \in A : Cardinality(below[i]) = k - 1
  <2>0. n \in Nat
    BY FS_CardinalityType
  <2>1. k - 1 \in 0 .. Cardinality(S) - 1
    BY <1>2, <2>0
  <2>2. PICK e \in S : PlaceIn(S, e) = k - 1
    <3> HIDE DEF S
    <3> QED
      BY <1>3, <2>1, EveryRank
  <2>3. PICK i \in A : key[i] = e
    BY <2>2
  <2> HIDE DEF S
  <2> QED
    BY <1>4, <2>2, <2>3
<1> DEFINE p == [k \in 1 .. n |-> CHOOSE i \in A : Cardinality(below[i]) = k - 1]
<1>7. n \in Nat
  BY FS_CardinalityType
<1>8. \A k \in 1 .. n : p[k] \in A /\ Cardinality(below[p[k]]) = k - 1
  <2> SUFFICES ASSUME NEW k \in 1 .. n PROVE p[k] \in A /\ Cardinality(below[p[k]]) = k - 1
    OBVIOUS
  <2>1. p[k] = CHOOSE i \in A : Cardinality(below[i]) = k - 1
    OBVIOUS
  <2>2. \E i \in A : Cardinality(below[i]) = k - 1
    BY <1>6
  <2> HIDE DEF p
  <2> QED
    BY <2>1, <2>2
<1>p. p \in [1 .. n -> A]
  BY <1>8
<1> HIDE DEF S, p
<1>9. \A i, j \in A : PlaceIn(S, key[i]) = PlaceIn(S, key[j]) => i = j
  <2>1. \A i, j \in A : PlaceIn(S, key[i]) = PlaceIn(S, key[j]) => key[i] = key[j]
    BY <1>3, <1>5, Ranks
  <2> QED
    BY <2>1
<1>10. \A k \in 1 .. n, i \in A : Cardinality(below[i]) = k - 1 => i = p[k]
  BY <1>4, <1>8, <1>9
<1>11. \A i \in A : \E k \in 1 .. n : i = p[k]
  <2> SUFFICES ASSUME NEW i \in A PROVE \E k \in 1 .. n : i = p[k]
    OBVIOUS
  <2>1. PlaceIn(S, key[i]) \in 0 .. n - 1
    BY <1>2, <1>3, <1>5, Ranks
  <2> DEFINE k == PlaceIn(S, key[i]) + 1
  <2>2. k \in 1 .. n /\ Cardinality(below[i]) = k - 1
    BY <1>4, <1>7, <2>1
  <2> HIDE DEF k
  <2> QED
    BY <1>10, <2>2
<1>12. \A k, l \in 1 .. n : k < l => Before(key[p[k]], key[p[l]])
  <2> SUFFICES ASSUME NEW k \in 1 .. n, NEW l \in 1 .. n, k < l
               PROVE  Before(key[p[k]], key[p[l]])
    OBVIOUS
  <2>1. PlaceIn(S, key[p[k]]) = k - 1 /\ PlaceIn(S, key[p[l]]) = l - 1 /\ p[k] \in A /\ p[l] \in A
    BY <1>4, <1>8
  <2>2. PlaceIn(S, key[p[k]]) < PlaceIn(S, key[p[l]])
    BY <1>7, <2>1
  <2> QED
    BY <1>3, <1>5, <2>1, <2>2, Ranks
<1>13. p \in Bijection(1 .. n, A)
  <2>1. \A k, l \in 1 .. n : p[k] = p[l] => k = l
    <3> SUFFICES ASSUME NEW k \in 1 .. n, NEW l \in 1 .. n, p[k] = p[l] PROVE k = l
      OBVIOUS
    <3>1. k - 1 = l - 1
      BY <1>8
    <3> QED
      BY <1>7, <3>1
  <2> QED
    BY <1>11, <1>p, <2>1 DEF Bijection, Injection, Surjection, IsInjective
<1> HIDE DEF n
<1> QED
  BY <1>7, <1>8, <1>10, <1>11, <1>12, <1>13 DEF ListsByRank, n

(* The terms that come first in a list that descends add up to the most.   *)
LEMMA LargestFirst ==
  ASSUME NEW A, IsFiniteSet(A), NEW f, Integers(f, A),
         NEW n \in Nat, NEW p \in Bijection(1 .. n, A),
         NEW u, \A k \in 1 .. n : u[k] = f[p[k]],
         \A k, l \in 1 .. n : k < l => u[l] <= u[k],
         NEW B \in SUBSET A
  PROVE  /\ Cardinality(B) \in 0 .. n /\ Integers(u, 1 .. n)
         /\ SumOf(f, B) <= SumOf(u, 1 .. Cardinality(B))
<1> DEFINE m == Cardinality(B)
           T == {p[k] : k \in 1 .. m}
           b == B \ T
           t == T \ B
           c == B \cap T
<1>1. p \in [1 .. n -> A] /\ \A k, l \in 1 .. n : p[k] = p[l] => k = l
  BY DEF Bijection, Injection, IsInjective
<1>2. \A i \in A : \E k \in 1 .. n : p[k] = i
  BY DEF Bijection, Surjection
<1>3. IsFiniteSet(1 .. n) /\ Cardinality(1 .. n) = n
  BY FS_Interval
<1>4. Cardinality(A) = n
  BY <1>3, AsMany
<1>5. IsFiniteSet(B) /\ m \in Nat /\ m <= n
  BY <1>4, FS_Subset, FS_CardinalityType
<1>6. Integers(u, 1 .. n)
  BY <1>1 DEF Integers
<1> HIDE DEF m
<1>7. T \subseteq A /\ IsFiniteSet(T) /\ Cardinality(T) = m
      /\ [k \in 1 .. m |-> p[k]] \in Bijection(1 .. m, T)
  <2> DEFINE h == [k \in 1 .. m |-> p[k]]
  <2>1. \A k \in 1 .. m : k \in 1 .. n
    BY <1>5
  <2>2. h \in [1 .. m -> T]
    OBVIOUS
  <2>3. \A k, l \in 1 .. m : h[k] = h[l] => k = l
    BY <1>1, <2>1
  <2>4. \A e \in T : \E k \in 1 .. m : h[k] = e
    OBVIOUS
  <2>5. T \subseteq A
    BY <1>1, <2>1
  <2>6. IsFiniteSet(1 .. m) /\ Cardinality(1 .. m) = m
    BY <1>5, FS_Interval
  <2> HIDE DEF T, h
  <2>7. h \in Bijection(1 .. m, T)
    BY <2>2, <2>3, <2>4 DEF Bijection, Injection, Surjection, IsInjective
  <2>8. IsFiniteSet(T) /\ Cardinality(T) = m
    BY <2>6, <2>7, AsMany
  <2> QED
    BY <2>5, <2>7, <2>8 DEF h
<1>8. SumOf(u, 1 .. m) = SumOf(f, T)
  <2> DEFINE h == [k \in 1 .. m |-> p[k]]
  <2>1. \A k \in 1 .. m : u[k] = f[h[k]]
    BY <1>5
  <2>2. Integers(f, T)
    BY <1>7 DEF Integers
  <2>3. IsFiniteSet(1 .. m)
    BY <1>5, FS_Interval
  <2>4. h \in Bijection(1 .. m, T)
    BY <1>7
  <2> DEFINE I == 1 .. m
  <2>5. IsFiniteSet(I) /\ h \in Bijection(I, T) /\ \A k \in I : u[k] = f[h[k]]
    BY <2>1, <2>3, <2>4
  <2> HIDE DEF h, T, I
  <2>6. SumOf(u, I) = SumOf(f, T)
    BY <2>2, <2>5, SumMatched
  <2> QED
    BY <2>6 DEF I
<1>9. /\ IsFiniteSet(b) /\ IsFiniteSet(t) /\ IsFiniteSet(c)
      /\ B = b \cup c /\ T = t \cup c /\ b \cap c = {} /\ t \cap c = {}
      /\ Integers(f, b \cup c) /\ Integers(f, t \cup c)
      /\ Integers(f, b) /\ Integers(f, c) /\ Integers(f, t)
  <2>1. b \in SUBSET B /\ c \in SUBSET B /\ t \in SUBSET T
    OBVIOUS
  <2>2. IsFiniteSet(b) /\ IsFiniteSet(t) /\ IsFiniteSet(c)
    <3> HIDE DEF b, c, t, T
    <3> QED
      BY <1>5, <1>7, <2>1, FS_Subset
  <2>3. B = b \cup c /\ T = t \cup c /\ b \cap c = {} /\ t \cap c = {}
    OBVIOUS
  <2>4. b \cup c \subseteq A /\ t \cup c \subseteq A
    BY <1>7
  <2> HIDE DEF b, c, t, T
  <2> QED
    BY <2>2, <2>3, <2>4 DEF Integers
<1>10. \A i \in b, j \in t : f[i] <= f[j]
  <2> SUFFICES ASSUME NEW i \in b, NEW j \in t PROVE f[i] <= f[j]
    OBVIOUS
  <2>1. PICK k \in 1 .. m : p[k] = j
    OBVIOUS
  <2>2. PICK l \in 1 .. n : p[l] = i
    BY <1>2
  <2>3. l \notin 1 .. m
    BY <2>2
  <2>4. k \in 1 .. n /\ k < l
    BY <1>5, <2>1, <2>2, <2>3
  <2>5. u[l] <= u[k] /\ u[l] = f[i] /\ u[k] = f[j]
    BY <2>1, <2>2, <2>4
  <2> QED
    BY <2>5
<1>11. Cardinality(b) = Cardinality(t)
  <2> HIDE DEF b, c, t, T
  <2>1. Cardinality(B) = Cardinality(b) + Cardinality(c) - Cardinality(b \cap c)
    BY <1>9, FS_Union
  <2>2. Cardinality(T) = Cardinality(t) + Cardinality(c) - Cardinality(t \cap c)
    BY <1>9, FS_Union
  <2>3. Cardinality(b) \in Nat /\ Cardinality(t) \in Nat /\ Cardinality(c) \in Nat
    BY <1>9, FS_CardinalityType
  <2>4. Cardinality(b \cap c) = 0 /\ Cardinality(t \cap c) = 0
    BY <1>9, FS_EmptySet
  <2> QED
    BY <1>7, <2>1, <2>2, <2>3, <2>4 DEF m
<1>12. SumOf(f, B) = SumOf(f, b) + SumOf(f, c)
  <2> HIDE DEF b, c, t, T
  <2> QED
    BY <1>9, SumOfTwo
<1>13. SumOf(f, T) = SumOf(f, t) + SumOf(f, c)
  <2> HIDE DEF b, c, t, T
  <2> QED
    BY <1>9, SumOfTwo
<1>14. SumOf(f, b) \in Int /\ SumOf(f, c) \in Int /\ SumOf(f, t) \in Int
  <2> HIDE DEF b, c, t, T
  <2> QED
    BY <1>9, SumType
<1> HIDE DEF b, c, t, T
<1>15. SumOf(f, b) <= SumOf(f, t)
  <2>1. CASE b = {}
    <3>1. Cardinality(t) = 0 /\ t = {}
      BY <1>9, <1>11, <2>1, FS_EmptySet
    <3> QED
      BY <1>14, <2>1, <3>1
  <2>2. CASE b # {}
    <3>0. t # {}
      BY <1>9, <1>11, <2>2, FS_EmptySet
    <3>1. PICK h : h \in Bijection(b, t)
      BY <1>9, <1>11, FS_SameCardinalityBij DEF ExistsBijection
    <3>2. h \in [b -> t]
      BY <3>1 DEF Bijection, Injection
    <3> DEFINE g == [i \in b |-> f[h[i]]]
    <3>3. Integers(g, b) /\ \A i \in b : f[i] <= g[i] /\ g[i] = f[h[i]]
      <4> SUFFICES ASSUME NEW i \in b
                   PROVE  g[i] \in Int /\ f[i] <= g[i] /\ g[i] = f[h[i]]
        BY DEF Integers
      <4>1. h[i] \in t /\ f[h[i]] \in Int /\ f[i] \in Int /\ f[i] <= f[h[i]]
        BY <1>9, <1>10, <3>2 DEF Integers
      <4> QED
        BY <4>1
    <3> HIDE DEF g
    <3>4. SumOf(f, b) <= SumOf(g, b)
      BY <1>9, <3>3, SumsOrdered
    <3>5. SumOf(g, b) = SumOf(f, t)
      BY <1>9, <3>1, <3>3, SumMatched
    <3> QED
      BY <1>14, <3>4, <3>5
  <2> QED
    BY <2>1, <2>2
<1>16. SumOf(f, B) <= SumOf(u, 1 .. m)
  BY <1>8, <1>12, <1>13, <1>14, <1>15
<1> QED
  BY <1>5, <1>6, <1>16 DEF m

(* A list in order holds every entry once, by rank. *)
LEMMA ListInOrder ==
  ASSUME NEW S, Placed(S)
  PROVE  /\ InOrder(S) \in [1 .. Cardinality(S) -> S]
         /\ DOMAIN InOrder(S) = 1 .. Cardinality(S)
         /\ \A k \in 1 .. Cardinality(S) : PlaceIn(S, InOrder(S)[k]) = k - 1
         /\ \A e \in S : /\ PlaceIn(S, e) + 1 \in 1 .. Cardinality(S)
                         /\ InOrder(S)[PlaceIn(S, e) + 1] = e
<1>1. Cardinality(S) \in Nat
  BY Ranks
<1>2. InOrder(S) = [k \in 1 .. Cardinality(S) |-> CHOOSE e \in S : PlaceIn(S, e) = k - 1]
  BY DEF InOrder, PlaceIn, AllBefore
<1>3. ASSUME NEW k \in 1 .. Cardinality(S)
      PROVE  InOrder(S)[k] \in S /\ PlaceIn(S, InOrder(S)[k]) = k - 1
  <2>1. k - 1 \in 0 .. Cardinality(S) - 1
    BY <1>1
  <2>2. \E e \in S : PlaceIn(S, e) = k - 1
    BY <2>1, EveryRank
  <2>3. InOrder(S)[k] = CHOOSE e \in S : PlaceIn(S, e) = k - 1
    BY <1>2
  <2> QED
    BY <2>2, <2>3
<1>4. ASSUME NEW e \in S
      PROVE  /\ PlaceIn(S, e) + 1 \in 1 .. Cardinality(S)
             /\ InOrder(S)[PlaceIn(S, e) + 1] = e
  <2> DEFINE k == PlaceIn(S, e) + 1
  <2>1. k \in 1 .. Cardinality(S) /\ k - 1 = PlaceIn(S, e)
    <3>1. PlaceIn(S, e) \in 0 .. Cardinality(S) - 1
      BY Ranks
    <3> QED
      BY <1>1, <3>1
  <2> HIDE DEF k
  <2>2. InOrder(S)[k] \in S /\ PlaceIn(S, InOrder(S)[k]) = PlaceIn(S, e)
    BY <1>3, <2>1
  <2>3. InOrder(S)[k] = e
    BY <2>2, Ranks
  <2> QED
    BY <2>1, <2>3 DEF k
<1>5. InOrder(S) \in [1 .. Cardinality(S) -> S] /\ DOMAIN InOrder(S) = 1 .. Cardinality(S)
  <2> DEFINE N == 1 .. Cardinality(S)
  <2>1. DOMAIN InOrder(S) = N /\ InOrder(S) = [k \in N |-> InOrder(S)[k]]
    BY <1>2
  <2>2. \A k \in N : InOrder(S)[k] \in S
    BY <1>3
  <2> HIDE DEF N
  <2>3. InOrder(S) \in [N -> S]
    BY <2>1, <2>2
  <2> QED
    BY <2>1, <2>3 DEF N
<1> QED
  BY <1>3, <1>4, <1>5

(* Its length, and that it ascends. *)
LEMMA ListAscends ==
  ASSUME NEW S, Placed(S)
  PROVE  /\ Len(InOrder(S)) = Cardinality(S)
         /\ \A k, l \in 1 .. Cardinality(S) : k < l <=> Before(InOrder(S)[k], InOrder(S)[l])
<1>1. Cardinality(S) \in Nat /\ DOMAIN InOrder(S) = 1 .. Cardinality(S)
  BY Ranks, ListInOrder
<1>2. InOrder(S) \in Seq(S)
  <2> DEFINE m == Cardinality(S)
  <2>1. m \in Nat /\ InOrder(S) \in [1 .. m -> S]
    BY <1>1, ListInOrder
  <2> HIDE DEF m
  <2> QED
    BY <2>1
<1>3. Len(InOrder(S)) = Cardinality(S)
  <2>1. Len(InOrder(S)) \in Nat /\ DOMAIN InOrder(S) = 1 .. Len(InOrder(S))
    BY <1>2
  <2> DEFINE a == Len(InOrder(S))
             b == Cardinality(S)
  <2>2. a \in Nat /\ b \in Nat /\ 1 .. a = 1 .. b
    BY <1>1, <2>1
  <2> HIDE DEF a, b
  <2>3. a = b
    BY <2>2
  <2> QED
    BY <2>3 DEF a, b
<1>4. ASSUME NEW k \in 1 .. Cardinality(S), NEW l \in 1 .. Cardinality(S)
      PROVE  k < l <=> Before(InOrder(S)[k], InOrder(S)[l])
  <2> DEFINE d == InOrder(S)[k]
             e == InOrder(S)[l]
  <2>1. d \in S /\ e \in S /\ PlaceIn(S, d) = k - 1 /\ PlaceIn(S, e) = l - 1
    BY ListInOrder
  <2> HIDE DEF d, e
  <2>2. k - 1 < l - 1 <=> Before(d, e)
    <3>1. /\ Before(d, e) => PlaceIn(S, d) < PlaceIn(S, e)
          /\ PlaceIn(S, d) < PlaceIn(S, e) => Before(d, e)
      BY <2>1, Ranks
    <3> QED
      BY <2>1, <3>1
  <2> QED
    BY <1>1, <2>2 DEF d, e
<1> QED
  BY <1>3, <1>4


-----------------------------------------------------------------------------
(* The reads of a list *)

(* Every item is in exactly one read. *)
LEMMA OneRunEach ==
  ASSUME NEW list, NEW gap, NEW n \in Nat, DOMAIN list = 1 .. n, Len(list) = n, NEW k \in 1 .. n
  PROVE  /\ \E r \in Runs(list, gap) : k \in r.from .. r.to
         /\ \A q, r \in Runs(list, gap) : k \in q.from .. q.to /\ k \in r.from .. r.to => q = r
<1>1. \A r \in Runs(list, gap) :
        /\ r.from \in 1 .. n /\ r.to \in 1 .. n /\ r.from <= r.to
        /\ r = [from |-> r.from, to |-> r.to]
        /\ StartsRun(list, gap, r.from) /\ \A i \in r.from + 1 .. r.to : ~StartsRun(list, gap, i)
        /\ r.to < n => StartsRun(list, gap, r.to + 1)
  BY DEF Runs
<1>2. PICK a \in 1 .. k : StartsRun(list, gap, a) /\ \A i \in a + 1 .. k : ~StartsRun(list, gap, i)
  <2> DEFINE D == {k - i : i \in {j \in 1 .. k : StartsRun(list, gap, j)}}
  <2>1. StartsRun(list, gap, 1) /\ 1 \in 1 .. k
    BY DEF StartsRun
  <2>2. D \subseteq Nat /\ D # {}
    BY <2>1
  <2>3. PICK d \in D : \A e \in D : d <= e
    <3> HIDE DEF D
    <3> QED
      BY <2>2, LeastExists
  <2>4. PICK a \in 1 .. k : StartsRun(list, gap, a) /\ d = k - a
    BY <2>3
  <2>5. ASSUME NEW i \in a + 1 .. k, StartsRun(list, gap, i) PROVE FALSE
    <3>1. a \in Int /\ k \in Int /\ i \in Int /\ a < i /\ i <= k /\ 1 <= a
      BY <2>5
    <3>2. i \in 1 .. k /\ k - i < d /\ k - i \in Int /\ d \in Int
      BY <2>4, <3>1
    <3>3. k - i \in D
      BY <2>5, <3>2
    <3> HIDE DEF D
    <3> QED
      BY <2>3, <3>2, <3>3
  <2> QED
    BY <2>4, <2>5
<1>3. PICK b \in k .. n : /\ \A i \in k + 1 .. b : ~StartsRun(list, gap, i)
                          /\ b < n => StartsRun(list, gap, b + 1)
  <2> DEFINE D == {j \in k .. n : j < n => StartsRun(list, gap, j + 1)}
  <2>1. n \in D /\ D \subseteq Nat
    OBVIOUS
  <2>2. PICK b \in D : \A e \in D : b <= e
    <3> HIDE DEF D
    <3> QED
      BY <2>1, LeastExists
  <2>3. b \in k .. n /\ (b < n => StartsRun(list, gap, b + 1))
    BY <2>2
  <2>4. ASSUME NEW i \in k + 1 .. b, StartsRun(list, gap, i) PROVE FALSE
    <3>1. i - 1 \in k .. n /\ i - 1 < b /\ (i - 1) + 1 = i
      BY <2>3
    <3>2. i - 1 \in D
      BY <2>4, <3>1
    <3> QED
      BY <2>2, <2>3, <3>1, <3>2
  <2> QED
    BY <2>3, <2>4
<1> DEFINE s == [from |-> a, to |-> b]
<1>4. s \in Runs(list, gap) /\ k \in s.from .. s.to
  <2>1. a \in DOMAIN list /\ b \in DOMAIN list /\ a <= b
    OBVIOUS
  <2>2. \A i \in a + 1 .. b : i \in a + 1 .. k \/ i \in k + 1 .. b
    OBVIOUS
  <2>3. \A i \in a + 1 .. b : ~StartsRun(list, gap, i)
    BY <1>2, <1>3, <2>2
  <2> QED
    BY <1>2, <1>3, <2>1, <2>3 DEF Runs
<1>5. ASSUME NEW q \in Runs(list, gap), NEW r \in Runs(list, gap),
             k \in q.from .. q.to, k \in r.from .. r.to
      PROVE  q = r
  <2>1. /\ q.from \in 1 .. n /\ q.to \in 1 .. n /\ r.from \in 1 .. n /\ r.to \in 1 .. n
    BY <1>1
  <2>2. ~(q.from < r.from)
    <3> SUFFICES ASSUME q.from < r.from PROVE FALSE
      OBVIOUS
    <3>1. r.from \in q.from + 1 .. q.to
      BY <1>5, <2>1
    <3> QED
      BY <1>1, <3>1
  <2>3. ~(r.from < q.from)
    <3> SUFFICES ASSUME r.from < q.from PROVE FALSE
      OBVIOUS
    <3>1. q.from \in r.from + 1 .. r.to
      BY <1>5, <2>1
    <3> QED
      BY <1>1, <3>1
  <2>4. ~(q.to < r.to)
    <3> SUFFICES ASSUME q.to < r.to PROVE FALSE
      OBVIOUS
    <3>1. q.to + 1 \in r.from + 1 .. r.to /\ q.to < n
      BY <1>5, <2>1
    <3> QED
      BY <1>1, <3>1
  <2>5. ~(r.to < q.to)
    <3> SUFFICES ASSUME r.to < q.to PROVE FALSE
      OBVIOUS
    <3>1. r.to + 1 \in q.from + 1 .. q.to /\ r.to < n
      BY <1>5, <2>1
    <3> QED
      BY <1>1, <3>1
  <2>6. q.from = r.from /\ q.to = r.to
    BY <2>1, <2>2, <2>3, <2>4, <2>5
  <2> QED
    BY <1>1, <2>6
<1> QED
  BY <1>4, <1>5

-----------------------------------------------------------------------------
(* Places in a grid *)

(* The C-order index of three coordinates, by the first of them. *)
LEMMA Place ==
  ASSUME NEW A \in Nat \ {0}, NEW B \in Nat \ {0}, NEW C \in Nat \ {0},
         NEW a \in 0 .. A - 1, NEW b \in 0 .. B - 1, NEW c \in 0 .. C - 1
  PROVE  /\ (a * B + b) * C + c = a * (B * C) + (b * C + c)
         /\ (a * B + b) * C + c \in 0 .. A * (B * C) - 1
<1>1. (a * B + b) * C + c = a * (B * C) + (b * C + c)
  OBVIOUS
<1>2. b * C + c \in 0 .. B * C - 1
  BY TwoDigits
<1>3. B * C \in Nat \ {0}
  OBVIOUS
<1>4. a * (B * C) + (b * C + c) \in 0 .. A * (B * C) - 1
  BY <1>2, <1>3, TwoDigits
<1> QED
  BY <1>1, <1>4

(* C order numbers the coordinates of a grid, each once, none left out.    *)
LEMMA RavelNumbers ==
  ASSUME NEW dims \in Shape
  PROVE  /\ Volume(dims) \in Nat \ {0}
         /\ \A x \in Coords(dims) : Ravel(x, dims) \in 0 .. Volume(dims) - 1
         /\ \A x, y \in Coords(dims) : Ravel(x, dims) = Ravel(y, dims) => x = y
         /\ \A n \in 0 .. Volume(dims) - 1 : \E x \in Coords(dims) : Ravel(x, dims) = n
<1> DEFINE A == dims[1]
           B == dims[2]
           C == dims[3]
<1>1. A \in Nat \ {0} /\ B \in Nat \ {0} /\ C \in Nat \ {0}
  BY DEF Shape
<1>2. /\ Coords(dims) = (0 .. A - 1) \X (0 .. B - 1) \X (0 .. C - 1)
      /\ Volume(dims) = A * B * C
      /\ \A x : Ravel(x, dims) = (x[1] * B + x[2]) * C + x[3]
  BY DEF Coords, Volume, Ravel
<1>3. \A x \in Coords(dims) :
        /\ x[1] \in 0 .. A - 1 /\ x[2] \in 0 .. B - 1 /\ x[3] \in 0 .. C - 1
        /\ x = <<x[1], x[2], x[3]>>
  BY <1>2
<1> HIDE DEF A, B, C
<1>4. A * B * C = A * (B * C) /\ A * B * C = (A * B) * C /\ A * B \in Nat \ {0}
      /\ B * C \in Nat \ {0} /\ A * B * C \in Nat \ {0}
  <2>1. \A a, b \in Nat \ {0} : a * b \in Nat \ {0}
    OBVIOUS
  <2>2. A * B \in Nat \ {0} /\ B * C \in Nat \ {0}
    BY <1>1, <2>1
  <2>3. (A * B) * C \in Nat \ {0}
    BY <1>1, <2>1, <2>2
  <2>4. A * (B * C) = (A * B) * C
    BY <1>1
  <2> QED
    BY <2>2, <2>3, <2>4
<1>5. \A x \in Coords(dims) : Ravel(x, dims) \in 0 .. Volume(dims) - 1
  <2> SUFFICES ASSUME NEW x \in Coords(dims) PROVE Ravel(x, dims) \in 0 .. Volume(dims) - 1
    OBVIOUS
  <2>1. (x[1] * B + x[2]) * C + x[3] \in 0 .. A * (B * C) - 1
    BY <1>1, <1>3, Place
  <2> QED
    BY <1>2, <1>4, <2>1
<1>6. ASSUME NEW x \in Coords(dims)
      PROVE  /\ Ravel(x, dims) % C = x[3]
             /\ (Ravel(x, dims) \div C) % B = x[2]
             /\ (Ravel(x, dims) \div C) \div B = x[1]
  <2>1. /\ x[1] \in Nat /\ x[2] \in 0 .. B - 1 /\ x[3] \in 0 .. C - 1
        /\ x[1] * B + x[2] \in Nat
    BY <1>1, <1>3
  <2> DEFINE q == x[1] * B + x[2]
  <2>2. q \in Nat
    BY <2>1
  <2>3. q \div B = x[1] /\ q % B = x[2]
    BY <1>1, <2>1, Division
  <2> HIDE DEF q
  <2>4. (q * C + x[3]) \div C = q /\ (q * C + x[3]) % C = x[3]
    BY <1>1, <2>1, <2>2, Division
  <2>5. Ravel(x, dims) = q * C + x[3]
    BY <1>2 DEF q
  <2> QED
    BY <2>3, <2>4, <2>5
<1>7. ASSUME NEW n \in 0 .. Volume(dims) - 1
      PROVE  \E x \in Coords(dims) : Ravel(x, dims) = n
  <2> DEFINE q == n \div C
             c == n % C
             a == q \div B
             b == q % B
  <2>1. n \in Nat /\ n < A * B * C
    BY <1>2, <1>4
  <2>2. q \in Nat /\ c \in 0 .. C - 1 /\ n = q * C + c
    BY <1>1, <2>1, DivisionOf
  <2> HIDE DEF q, c
  <2>3. a \in Nat /\ b \in 0 .. B - 1 /\ q = a * B + b
    BY <1>1, <2>2, DivisionOf
  <2> HIDE DEF a, b
  <2>4. q < A * B
    <3> DEFINE m == A * B
    <3>1. m \in Nat /\ m * C = A * B * C
      BY <1>4
    <3> HIDE DEF m
    <3>2. SUFFICES ASSUME m <= q PROVE FALSE
      BY <2>2, <3>1 DEF m
    <3>3. m * C <= q * C
      BY <1>1, <2>2, <3>1, <3>2, ProductGrows
    <3> QED
      BY <1>1, <2>1, <2>2, <3>1, <3>3
  <2>5. a < A
    <3>1. SUFFICES ASSUME A <= a PROVE FALSE
      BY <1>1, <2>3
    <3>2. A * B <= a * B
      BY <1>1, <2>3, <3>1, ProductGrows
    <3> DEFINE m == A * B
               k == a * B
    <3>3. m \in Nat /\ k \in Nat /\ m <= k /\ q = k + b /\ q < m
      BY <1>4, <2>3, <2>4, <3>2, <1>1
    <3> HIDE DEF m, k
    <3> QED
      BY <2>3, <3>3
  <2>6. <<a, b, c>> \in Coords(dims)
    BY <1>1, <1>2, <2>2, <2>3, <2>5
  <2>7. Ravel(<<a, b, c>>, dims) = n
    BY <1>2, <2>2, <2>3
  <2> QED
    BY <2>6, <2>7
<1>8. \A x, y \in Coords(dims) : Ravel(x, dims) = Ravel(y, dims) => x = y
  BY <1>3, <1>6
<1> QED
  BY <1>2, <1>4, <1>5, <1>7, <1>8

(* The coordinates of a grid are finitely many. *)
LEMMA CoordsFinite ==
  ASSUME NEW dims \in Shape
  PROVE  IsFiniteSet(Coords(dims))
<1> DEFINE N == 0 .. Volume(dims) - 1
           S == Coords(dims)
           f == [x \in S |-> Ravel(x, dims)]
<1>1. IsFiniteSet(N)
  <2>1. Volume(dims) \in Nat
    BY RavelNumbers
  <2> QED
    BY <2>1, FS_Interval
<1>2. /\ \A x \in S : Ravel(x, dims) \in N
      /\ \A x, y \in S : Ravel(x, dims) = Ravel(y, dims) => x = y
  BY RavelNumbers
<1> HIDE DEF N, S
<1>3. f \in Injection(S, N)
  BY <1>2 DEF Injection, IsInjective
<1> HIDE DEF f
<1>4. IsFiniteSet(S)
  BY <1>1, <1>3, FS_Injection
<1> QED
  BY <1>4 DEF S

(* How many parts a grid is cut into. *)
LEMMA PartsOfGrid ==
  ASSUME NEW g, NEW s, CutsInto(g, s)
  PROVE  /\ g \in Shape /\ s \in Shape /\ DivBy(g, s) \in Shape
         /\ \A d \in 1 .. 3 : g[d] = (g[d] \div s[d]) * s[d]
         /\ Volume(DivBy(g, s)) * Volume(s) = Volume(g)
<1>1. g \in Shape /\ s \in Shape /\ \A d \in 1 .. 3 : g[d] % s[d] = 0
  BY DEF CutsInto
<1>2. ASSUME NEW d \in 1 .. 3
      PROVE  g[d] = (g[d] \div s[d]) * s[d] /\ g[d] \div s[d] \in Nat \ {0}
  <2> DEFINE n == g[d]
             m == s[d]
             q == n \div m
  <2>1. n \in Nat \ {0} /\ m \in Nat \ {0} /\ n % m = 0
    BY <1>1 DEF Shape
  <2> HIDE DEF n, m
  <2>2. q \in Nat /\ n = q * m + (n % m)
    BY <2>1, DivisionOf
  <2> HIDE DEF q
  <2>3. n = q * m /\ q # 0
    BY <2>1, <2>2
  <2> QED
    BY <2>2, <2>3 DEF q, n, m
<1>3. DivBy(g, s) \in Shape
  <2>1. /\ g[1] \div s[1] \in Nat \ {0} /\ g[2] \div s[2] \in Nat \ {0}
        /\ g[3] \div s[3] \in Nat \ {0}
    BY <1>2
  <2> QED
    BY <2>1 DEF DivBy, Shape
<1>4. Volume(DivBy(g, s)) * Volume(s) = Volume(g)
  <2> DEFINE a == g[1] \div s[1]
             b == g[2] \div s[2]
             c == g[3] \div s[3]
             x == s[1]
             y == s[2]
             z == s[3]
  <2>1. /\ g[1] = a * x /\ g[2] = b * y /\ g[3] = c * z
        /\ a \in Nat /\ b \in Nat /\ c \in Nat /\ x \in Nat /\ y \in Nat /\ z \in Nat
    BY <1>1, <1>2 DEF Shape
  <2>2. /\ Volume(DivBy(g, s)) = a * b * c /\ Volume(s) = x * y * z
        /\ Volume(g) = g[1] * g[2] * g[3]
    BY DEF Volume, DivBy
  <2> HIDE DEF a, b, c, x, y, z
  <2>3. (a * b * c) * (x * y * z) = (a * x) * (b * y) * (c * z)
    BY <2>1
  <2> QED
    BY <2>1, <2>2, <2>3
<1> QED
  BY <1>1, <1>2, <1>3, <1>4

(* A coordinate splits into that of its part and that in the part. *)
LEMMA SplitInParts ==
  ASSUME NEW g, NEW s, CutsInto(g, s), NEW x \in Coords(g)
  PROVE  /\ DivBy(x, s) \in Coords(DivBy(g, s))
         /\ ModBy(x, s) \in Coords(s)
         /\ \A d \in 1 .. 3 : x[d] = (x[d] \div s[d]) * s[d] + (x[d] % s[d])
         /\ x = <<x[1], x[2], x[3]>>
<1>1. /\ \A d \in 1 .. 3 : x[d] \in 0 .. g[d] - 1
      /\ x = <<x[1], x[2], x[3]>>
  BY DEF Coords
<1>2. /\ \A d \in 1 .. 3 : g[d] \in Nat \ {0} /\ s[d] \in Nat \ {0}
      /\ \A d \in 1 .. 3 : g[d] = (g[d] \div s[d]) * s[d]
  BY PartsOfGrid DEF Shape
<1>3. ASSUME NEW d \in 1 .. 3
      PROVE  /\ x[d] = (x[d] \div s[d]) * s[d] + (x[d] % s[d])
             /\ x[d] \div s[d] \in 0 .. (g[d] \div s[d]) - 1
             /\ x[d] % s[d] \in 0 .. s[d] - 1
  <2> DEFINE n == x[d]
             m == s[d]
             l == g[d]
             k == l \div m
             q == n \div m
             r == n % m
  <2>1. n \in Nat /\ n < l /\ l \in Nat /\ m \in Nat \ {0} /\ l = k * m /\ k \in Int
    <3>1. /\ x[d] \in 0 .. g[d] - 1 /\ g[d] \in Nat \ {0} /\ s[d] \in Nat \ {0}
          /\ g[d] = (g[d] \div s[d]) * s[d]
      BY <1>1, <1>2
    <3>2. l \div m \in Nat
      BY <3>1, DivisionOf
    <3> QED
      BY <3>1, <3>2
  <2> HIDE DEF l, k, n, m
  <2>2. q \in Nat /\ r \in 0 .. m - 1 /\ n = q * m + r
    BY <2>1, DivisionOf
  <2> HIDE DEF q, r
  <2>3. q < k
    <3>1. SUFFICES ASSUME k <= q PROVE FALSE
      BY <2>1, <2>2
    <3>2. k * m <= q * m
      BY <2>1, <2>2, <3>1, ProductGrows
    <3> QED
      BY <2>1, <2>2, <3>2
  <2>4. n = q * m + r /\ q \in 0 .. k - 1 /\ r \in 0 .. m - 1
    BY <2>1, <2>2, <2>3
  <2> QED
    BY <2>4 DEF n, m, l, k, q, r
<1>4. DivBy(x, s) \in Coords(DivBy(g, s))
  BY <1>3 DEF DivBy, Coords
<1>5. ModBy(x, s) \in Coords(s)
  BY <1>3 DEF ModBy, Coords
<1> QED
  BY <1>1, <1>3, <1>4, <1>5

(* Where it is in which part tells coordinates apart. *)
LEMMA PartsApart ==
  ASSUME NEW g, NEW s, CutsInto(g, s), NEW x \in Coords(g), NEW y \in Coords(g),
         DivBy(x, s) = DivBy(y, s), ModBy(x, s) = ModBy(y, s)
  PROVE  x = y
<1>1. /\ \A d \in 1 .. 3 : x[d] = (x[d] \div s[d]) * s[d] + (x[d] % s[d])
      /\ x = <<x[1], x[2], x[3]>>
  BY SplitInParts
<1>2. /\ \A d \in 1 .. 3 : y[d] = (y[d] \div s[d]) * s[d] + (y[d] % s[d])
      /\ y = <<y[1], y[2], y[3]>>
  BY SplitInParts
<1>3. ASSUME NEW d \in 1 .. 3 PROVE x[d] = y[d]
  <2>1. x[d] \div s[d] = y[d] \div s[d]
    BY DEF DivBy
  <2>2. x[d] % s[d] = y[d] % s[d]
    BY DEF ModBy
  <2> QED
    BY <1>1, <1>2, <2>1, <2>2
<1> QED
  BY <1>1, <1>2, <1>3

(* Every coordinate of every part is one of the grid. *)
LEMMA PartsFill ==
  ASSUME NEW g, NEW s, CutsInto(g, s), NEW u \in Coords(DivBy(g, s)), NEW v \in Coords(s)
  PROVE  \E x \in Coords(g) : DivBy(x, s) = u /\ ModBy(x, s) = v
<1>1. /\ \A d \in 1 .. 3 : g[d] \in Nat /\ s[d] \in Nat \ {0} /\ g[d] \div s[d] \in Nat
      /\ \A d \in 1 .. 3 : g[d] = (g[d] \div s[d]) * s[d]
  <2>1. g \in Shape /\ s \in Shape /\ DivBy(g, s) \in Shape
        /\ \A d \in 1 .. 3 : g[d] = (g[d] \div s[d]) * s[d]
    BY PartsOfGrid
  <2>2. \A d \in 1 .. 3 : g[d] \div s[d] = DivBy(g, s)[d]
    BY DEF DivBy
  <2> QED
    BY <2>1, <2>2 DEF Shape
<1>2. /\ \A d \in 1 .. 3 : u[d] \in 0 .. (g[d] \div s[d]) - 1 /\ v[d] \in 0 .. s[d] - 1
      /\ u = <<u[1], u[2], u[3]>> /\ v = <<v[1], v[2], v[3]>>
  BY DEF Coords, DivBy
<1> DEFINE f(d) == u[d] * s[d] + v[d]
           x == <<f(1), f(2), f(3)>>
<1>3. ASSUME NEW d \in 1 .. 3
      PROVE  f(d) \in 0 .. g[d] - 1 /\ f(d) \div s[d] = u[d] /\ f(d) % s[d] = v[d]
  <2>1. /\ u[d] \in 0 .. (g[d] \div s[d]) - 1 /\ v[d] \in 0 .. s[d] - 1 /\ u[d] \in Nat
        /\ s[d] \in Nat \ {0} /\ g[d] \div s[d] \in Nat /\ g[d] = (g[d] \div s[d]) * s[d]
    BY <1>1, <1>2
  <2>2. f(d) \in 0 .. (g[d] \div s[d]) * s[d] - 1
    BY <2>1, TwoDigits
  <2>3. f(d) \div s[d] = u[d] /\ f(d) % s[d] = v[d]
    BY <2>1, Division
  <2> QED
    BY <2>1, <2>2, <2>3
<1> HIDE DEF f
<1>4. x \in Coords(g)
  BY <1>3 DEF Coords
<1>5. DivBy(x, s) = u /\ ModBy(x, s) = v
  BY <1>2, <1>3 DEF DivBy, ModBy
<1> QED
  BY <1>4, <1>5

-----------------------------------------------------------------------------
(* The bytes of the layers *)

(* What a layout says of its layers. *)
LEMMA LayersAre ==
  ASSUME NEW lay, IsLayout(lay)
  PROVE  /\ nLayers(lay) \in Nat \ {0} /\ Layers(lay) = 1 .. nLayers(lay)
         /\ \A j \in Layers(lay) : lay.bytes[j] \in Nat \ {0}
<1>1. lay.bytes \in Seq(Nat \ {0}) /\ lay.bytes # <<>>
  BY DEF IsLayout
<1>2. Len(lay.bytes) \in Nat \ {0} /\ \A j \in 1 .. Len(lay.bytes) : lay.bytes[j] \in Nat \ {0}
  BY <1>1
<1> QED
  BY <1>2 DEF nLayers, Layers

(* A layer's bytes come after those of the layers before it. *)
LEMMA CutsAscend ==
  ASSUME NEW lay, IsLayout(lay)
  PROVE  /\ Cut(lay, 1) = 0
         /\ \A j \in 1 .. nLayers(lay) + 1 : Cut(lay, j) \in Nat
         /\ \A j \in Layers(lay) : Cut(lay, j + 1) = Cut(lay, j) + lay.bytes[j]
         /\ \A i, j \in 1 .. nLayers(lay) + 1 : i <= j => Cut(lay, i) <= Cut(lay, j)
<1> DEFINE m == nLayers(lay)
           b == lay.bytes
<1>1. m \in Nat \ {0} /\ Layers(lay) = 1 .. m /\ \A j \in 1 .. m : b[j] \in Nat \ {0}
  BY LayersAre
<1>2. \A j : Cut(lay, j) = SumOf(b, 1 .. j - 1)
  BY DEF Cut, SumOf
<1> HIDE DEF m, b
<1>3. Cut(lay, 1) = 0
  <2>1. 1 .. 1 - 1 = {}
    OBVIOUS
  <2> QED
    BY <1>2, <2>1, SumOfNone
<1>4. ASSUME NEW j \in 1 .. m PROVE Cut(lay, j + 1) = Cut(lay, j) + b[j]
  <2>1. j - 1 \in Nat /\ Integers(b, 1 .. (j - 1) + 1) /\ (j - 1) + 1 = j /\ (j + 1) - 1 = j
    BY <1>1 DEF Integers
  <2>2. SumOf(b, 1 .. (j - 1) + 1) = SumOf(b, 1 .. j - 1) + b[(j - 1) + 1]
    BY <2>1, SumGrows
  <2> QED
    BY <1>2, <2>1, <2>2
<1>5. ASSUME NEW j \in 1 .. m + 1 PROVE Cut(lay, j) \in Int
  <2>1. IsFiniteSet(1 .. j - 1) /\ Integers(b, 1 .. j - 1)
    BY <1>1, FS_Interval DEF Integers
  <2> QED
    BY <1>2, <2>1, SumType
<1>6. ASSUME NEW i \in 1 .. m + 1, NEW j \in 1 .. m + 1, i <= j, Cut(lay, j) < Cut(lay, i)
      PROVE  FALSE
  <2> DEFINE T == {k \in i .. m + 1 : Cut(lay, k) < Cut(lay, i)}
  <2>1. T \subseteq Nat /\ T # {}
    BY <1>1, <1>6
  <2>2. PICK k \in T : \A l \in T : k <= l
    <3> HIDE DEF T
    <3> QED
      BY <2>1, LeastExists
  <2>3. k \in i .. m + 1 /\ k # i /\ Cut(lay, k) < Cut(lay, i)
    BY <1>5
  <2>4. k - 1 \in i .. m + 1 /\ k - 1 \in 1 .. m /\ k - 1 < k /\ (k - 1) + 1 = k
    BY <1>1, <2>3
  <2>5. ~(Cut(lay, k - 1) < Cut(lay, i))
    BY <2>2, <2>4
  <2>6. Cut(lay, k) = Cut(lay, k - 1) + b[k - 1] /\ b[k - 1] \in Nat
    BY <1>1, <1>4, <2>4
  <2>7. Cut(lay, k - 1) \in Int /\ Cut(lay, i) \in Int
    BY <1>5, <2>4
  <2> QED
    BY <2>3, <2>5, <2>6, <2>7
<1>7. \A i, j \in 1 .. m + 1 : i <= j => Cut(lay, i) <= Cut(lay, j)
  BY <1>5, <1>6
<1>8. ASSUME NEW j \in 1 .. m + 1 PROVE Cut(lay, j) \in Nat
  <2>1. 1 \in 1 .. m + 1 /\ 1 <= j
    BY <1>1
  <2> QED
    BY <1>3, <1>5, <1>7, <2>1
<1> QED
  BY <1>1, <1>3, <1>4, <1>7, <1>8 DEF m, b

(* Every byte of a block is in one of the layers up to layer l. *)
LEMMA LayerOfByte ==
  ASSUME NEW lay, IsLayout(lay), NEW l \in Layers(lay), NEW k \in 0 .. Cut(lay, l + 1) - 1
  PROVE  \E j \in 1 .. l : Cut(lay, j) <= k /\ k < Cut(lay, j + 1)
<1>1. nLayers(lay) \in Nat /\ l \in 1 .. nLayers(lay)
  BY LayersAre
<1>2. /\ Cut(lay, 1) = 0
      /\ \A j \in 1 .. nLayers(lay) + 1 : Cut(lay, j) \in Nat
  BY CutsAscend
<1> DEFINE T == {j \in 1 .. l : k < Cut(lay, j + 1)}
<1>3. l \in T /\ T \subseteq Nat
  <2>1. Cut(lay, l + 1) \in Nat
    BY <1>1, <1>2
  <2> QED
    BY <1>1, <2>1
<1>4. PICK j \in T : \A i \in T : j <= i
  <2> HIDE DEF T
  <2> QED
    BY <1>3, LeastExists
<1>5. Cut(lay, j) <= k
  <2>1. j \in 1 .. l /\ Cut(lay, j) \in Nat /\ k \in Nat
    BY <1>1, <1>2
  <2>2. CASE j = 1
    BY <1>2, <2>1, <2>2
  <2>3. CASE j # 1
    <3>1. j - 1 \in 1 .. l /\ ~(j <= j - 1) /\ (j - 1) + 1 = j
      BY <1>1, <2>1, <2>3
    <3>2. ~(k < Cut(lay, (j - 1) + 1))
      BY <1>4, <3>1
    <3> QED
      BY <2>1, <3>1, <3>2
  <2> QED
    BY <2>2, <2>3
<1> QED
  BY <1>4, <1>5

(* In one only. *)
LEMMA OneLayerEach ==
  ASSUME NEW lay, IsLayout(lay), NEW i \in Layers(lay), NEW j \in Layers(lay), NEW k \in Int,
         Cut(lay, i) <= k, k < Cut(lay, i + 1), Cut(lay, j) <= k, k < Cut(lay, j + 1)
  PROVE  i = j
<1>1. nLayers(lay) \in Nat /\ i \in 1 .. nLayers(lay) /\ j \in 1 .. nLayers(lay)
  BY LayersAre
<1>2. /\ i + 1 \in 1 .. nLayers(lay) + 1 /\ j + 1 \in 1 .. nLayers(lay) + 1
      /\ i \in 1 .. nLayers(lay) + 1 /\ j \in 1 .. nLayers(lay) + 1
      /\ i \in Int /\ j \in Int
  BY <1>1
<1>3. /\ i + 1 <= j => Cut(lay, i + 1) <= Cut(lay, j)
      /\ j + 1 <= i => Cut(lay, j + 1) <= Cut(lay, i)
      /\ Cut(lay, i) \in Nat /\ Cut(lay, j) \in Nat
      /\ Cut(lay, i + 1) \in Nat /\ Cut(lay, j + 1) \in Nat
  BY <1>2, CutsAscend
<1>4. ~(i + 1 <= j) /\ ~(j + 1 <= i)
  BY <1>3
<1> QED
  BY <1>2, <1>4
-----------------------------------------------------------------------------
(* The place of a block *)

(* A block order puts every axis somewhere. *)
LEMMA OrderIsOnto ==
  ASSUME NEW lay, IsLayout(lay)
  PROVE  /\ \A a \in 1 .. 3 : lay.order[a] \in 1 .. 3
         /\ \A d \in 1 .. 3 : \E a \in 1 .. 3 : lay.order[a] = d
<1> DEFINE o == lay.order
<1>1. \A a \in 1 .. 3 : o[a] \in 1 .. 3
  BY DEF IsLayout
<1>2. \A a, b \in 1 .. 3 : o[a] = o[b] => a = b
  BY DEF IsLayout
<1>3. o[1] \in 1 .. 3 /\ o[2] \in 1 .. 3 /\ o[3] \in 1 .. 3
  BY <1>1
<1>4. o[1] # o[2] /\ o[1] # o[3] /\ o[2] # o[3]
  BY <1>2
<1> HIDE DEF o
<1>5. \A d \in 1 .. 3 : o[1] = d \/ o[2] = d \/ o[3] = d
  BY <1>3, <1>4
<1> QED
  BY <1>1, <1>5 DEF o

(* It rearranges the coordinates of a unit, and loses none. *)
LEMMA OrderRearranges ==
  ASSUME NEW lay, IsLayout(lay)
  PROVE  /\ Permuted(lay.unit, lay.order) \in Shape
         /\ Volume(Permuted(lay.unit, lay.order)) = Volume(lay.unit)
         /\ \A x \in Coords(lay.unit) :
              Permuted(x, lay.order) \in Coords(Permuted(lay.unit, lay.order))
         /\ \A x, y \in Coords(lay.unit) :
              Permuted(x, lay.order) = Permuted(y, lay.order) => x = y
         /\ \A v \in Coords(Permuted(lay.unit, lay.order)) :
              \E x \in Coords(lay.unit) : Permuted(x, lay.order) = v
<1> DEFINE o == lay.order
           u == lay.unit
           w == Permuted(u, o)
<1>1. /\ \A a \in 1 .. 3 : o[a] \in 1 .. 3
      /\ \A d \in 1 .. 3 : \E a \in 1 .. 3 : o[a] = d
  BY OrderIsOnto
<1>2. \A a, b \in 1 .. 3 : o[a] = o[b] => a = b
  BY DEF IsLayout
<1>3. u \in Shape
  BY DEF IsLayout, CutsInto
<1> HIDE DEF o, u
<1>4. w[1] = u[o[1]] /\ w[2] = u[o[2]] /\ w[3] = u[o[3]]
  BY DEF Permuted
<1>5. \A a \in 1 .. 3 : w[a] = u[o[a]] /\ u[a] \in Nat \ {0}
  BY <1>3, <1>4 DEF Shape
<1>6. w \in Shape
  <2>1. w[1] \in Nat \ {0} /\ w[2] \in Nat \ {0} /\ w[3] \in Nat \ {0}
    BY <1>1, <1>5
  <2> QED
    BY <2>1 DEF w, Permuted, Shape
<1>7. Volume(w) = Volume(u)
  <2> DEFINE a == u[1]
             b == u[2]
             c == u[3]
  <2>1. a \in Nat /\ b \in Nat /\ c \in Nat
    BY <1>5
  <2>2. o[1] \in 1 .. 3 /\ o[2] \in 1 .. 3 /\ o[3] \in 1 .. 3
    BY <1>1
  <2>3. o[1] # o[2] /\ o[1] # o[3] /\ o[2] # o[3]
    BY <1>2
  <2>4. \/ w[1] = a /\ w[2] = b /\ w[3] = c
        \/ w[1] = a /\ w[2] = c /\ w[3] = b
        \/ w[1] = b /\ w[2] = a /\ w[3] = c
        \/ w[1] = b /\ w[2] = c /\ w[3] = a
        \/ w[1] = c /\ w[2] = a /\ w[3] = b
        \/ w[1] = c /\ w[2] = b /\ w[3] = a
    BY <1>4, <2>2, <2>3
  <2>5. Volume(w) = w[1] * w[2] * w[3] /\ Volume(u) = a * b * c
    BY DEF Volume
  <2> HIDE DEF a, b, c, w
  <2>6. /\ a * c * b = a * b * c /\ b * a * c = a * b * c /\ b * c * a = a * b * c
        /\ c * a * b = a * b * c /\ c * b * a = a * b * c
    BY <2>1
  <2> QED
    BY <2>4, <2>5, <2>6
<1>8. \A x \in Coords(u) :
        /\ x = <<x[1], x[2], x[3]>>
        /\ \A d \in 1 .. 3 : x[d] \in 0 .. u[d] - 1
        /\ \A d \in 1 .. 3 : Permuted(x, o)[d] = x[o[d]]
  BY DEF Coords, Permuted
<1>9. ASSUME NEW x \in Coords(u) PROVE Permuted(x, o) \in Coords(w)
  <2>1. \A d \in 1 .. 3 : x[o[d]] \in 0 .. w[d] - 1
    BY <1>1, <1>5, <1>8
  <2> HIDE DEF w
  <2> QED
    BY <2>1 DEF Permuted, Coords
<1>10. ASSUME NEW x \in Coords(u), NEW y \in Coords(u), Permuted(x, o) = Permuted(y, o)
       PROVE  x = y
  <2>1. \A a \in 1 .. 3 : x[o[a]] = y[o[a]]
    BY <1>8, <1>10
  <2>2. \A d \in 1 .. 3 : x[d] = y[d]
    BY <1>1, <2>1
  <2> QED
    BY <1>8, <2>2
<1>11. ASSUME NEW v \in Coords(w) PROVE \E x \in Coords(u) : Permuted(x, o) = v
  <2>1. /\ v = <<v[1], v[2], v[3]>>
        /\ \A d \in 1 .. 3 : v[d] \in 0 .. w[d] - 1
    BY DEF Coords
  <2>2. PICK a \in 1 .. 3 : o[a] = 1
    BY <1>1
  <2>3. PICK b \in 1 .. 3 : o[b] = 2
    BY <1>1
  <2>4. PICK c \in 1 .. 3 : o[c] = 3
    BY <1>1
  <2> DEFINE x == <<v[a], v[b], v[c]>>
  <2>5. x \in Coords(u)
    <3>1. v[a] \in 0 .. u[1] - 1 /\ v[b] \in 0 .. u[2] - 1 /\ v[c] \in 0 .. u[3] - 1
      BY <1>5, <2>1, <2>2, <2>3, <2>4
    <3> QED
      BY <3>1 DEF Coords
  <2>6. ASSUME NEW d \in 1 .. 3 PROVE x[o[d]] = v[d]
    <3>1. o[d] \in 1 .. 3
      BY <1>1
    <3>2. /\ o[d] = 1 => d = a
          /\ o[d] = 2 => d = b
          /\ o[d] = 3 => d = c
      BY <1>2, <2>2, <2>3, <2>4
    <3> QED
      BY <3>1, <3>2
  <2>7. x[o[1]] = v[1] /\ x[o[2]] = v[2] /\ x[o[3]] = v[3]
    BY <2>6
  <2> HIDE DEF x
  <2>8. Permuted(x, o) = v
    BY <2>1, <2>7 DEF Permuted
  <2> QED
    BY <2>5, <2>8
<1> QED
  BY <1>6, <1>7, <1>9, <1>10, <1>11 DEF o, u

(* Ranks number the blocks of a unit, each once, none left out. *)
LEMMA BlockRankNumbers ==
  ASSUME NEW lay, IsLayout(lay)
  PROVE  /\ Volume(lay.unit) \in Nat \ {0}
         /\ \A v \in Coords(lay.unit) : BlockRank(lay, v) \in 0 .. Volume(lay.unit) - 1
         /\ \A v, z \in Coords(lay.unit) : BlockRank(lay, v) = BlockRank(lay, z) => v = z
         /\ \A r \in 0 .. Volume(lay.unit) - 1 :
              \E v \in Coords(lay.unit) : BlockRank(lay, v) = r
<1> DEFINE w == Permuted(lay.unit, lay.order)
<1>1. /\ w \in Shape /\ Volume(w) = Volume(lay.unit)
      /\ \A x \in Coords(lay.unit) : Permuted(x, lay.order) \in Coords(w)
      /\ \A x, y \in Coords(lay.unit) : Permuted(x, lay.order) = Permuted(y, lay.order) => x = y
      /\ \A v \in Coords(w) : \E x \in Coords(lay.unit) : Permuted(x, lay.order) = v
  BY OrderRearranges
<1>2. \A x : BlockRank(lay, x) = Ravel(Permuted(x, lay.order), w)
  BY DEF BlockRank
<1> HIDE DEF w
<1>3. /\ Volume(w) \in Nat \ {0}
      /\ \A x \in Coords(w) : Ravel(x, w) \in 0 .. Volume(w) - 1
      /\ \A x, y \in Coords(w) : Ravel(x, w) = Ravel(y, w) => x = y
      /\ \A n0 \in 0 .. Volume(w) - 1 : \E x \in Coords(w) : Ravel(x, w) = n0
  BY <1>1, RavelNumbers
<1>4. ASSUME NEW r \in 0 .. Volume(w) - 1
      PROVE  \E v \in Coords(lay.unit) : BlockRank(lay, v) = r
  <2>1. PICK y \in Coords(w) : Ravel(y, w) = r
    BY <1>3
  <2>2. PICK x \in Coords(lay.unit) : Permuted(x, lay.order) = y
    BY <1>1
  <2> QED
    BY <1>2, <2>1, <2>2
<1> QED
  BY <1>1, <1>2, <1>3, <1>4

(* Zone map records number the blocks of a chunk, each once, none left out. *)
LEMMA RecordPlaces ==
  ASSUME NEW lay, IsLayout(lay)
  PROVE  /\ nBlocks(lay) \in Nat \ {0}
         /\ \A x \in Blocks(lay) :
              /\ RecordPlace(lay, x) \in 0 .. nBlocks(lay) - 1
              /\ RecordPlace(lay, x) \div Volume(lay.unit) = UnitIndex(lay, x)
              /\ RecordPlace(lay, x) % Volume(lay.unit) = BlockRank(lay, InUnit(lay, x))
         /\ \A x, y \in Blocks(lay) : RecordPlace(lay, x) = RecordPlace(lay, y) => x = y
         /\ \A p \in 0 .. nBlocks(lay) - 1 : \E x \in Blocks(lay) : RecordPlace(lay, x) = p
<1> DEFINE g == lay.chunk
           s == lay.unit
           N == Volume(s)
           D == DivBy(g, s)
           G == Volume(D)
<1>1. CutsInto(g, s)
  BY DEF IsLayout
<1>2. /\ g \in Shape /\ s \in Shape /\ D \in Shape /\ G * N = Volume(g)
  BY <1>1, PartsOfGrid
<1>3. /\ G \in Nat \ {0}
      /\ \A u \in Coords(D) : Ravel(u, D) \in 0 .. G - 1
      /\ \A u, v \in Coords(D) : Ravel(u, D) = Ravel(v, D) => u = v
      /\ \A m \in 0 .. G - 1 : \E u \in Coords(D) : Ravel(u, D) = m
  <2> HIDE DEF D
  <2> QED
    BY <1>2, RavelNumbers
<1>4. /\ N \in Nat \ {0}
      /\ \A v \in Coords(s) : BlockRank(lay, v) \in 0 .. N - 1
      /\ \A v, z \in Coords(s) : BlockRank(lay, v) = BlockRank(lay, z) => v = z
      /\ \A r \in 0 .. N - 1 : \E v \in Coords(s) : BlockRank(lay, v) = r
  BY BlockRankNumbers
<1>5. /\ nBlocks(lay) = G * N /\ Blocks(lay) = Coords(g)
      /\ \A x : UnitIndex(lay, x) = Ravel(DivBy(x, s), D) /\ InUnit(lay, x) = ModBy(x, s)
      /\ \A x : RecordPlace(lay, x) = UnitIndex(lay, x) * N + BlockRank(lay, InUnit(lay, x))
  BY <1>2 DEF nBlocks, Blocks, UnitIndex, InUnit, RecordPlace
<1> HIDE DEF G, N, D, g, s
<1>6. nBlocks(lay) \in Nat \ {0}
  BY <1>3, <1>4, <1>5, Positive
<1>7. \A x \in Coords(g) : DivBy(x, s) \in Coords(D) /\ ModBy(x, s) \in Coords(s)
  BY <1>1, SplitInParts DEF D
<1>8. ASSUME NEW x \in Coords(g)
      PROVE  /\ RecordPlace(lay, x) \in 0 .. G * N - 1
             /\ RecordPlace(lay, x) \div N = UnitIndex(lay, x)
             /\ RecordPlace(lay, x) % N = BlockRank(lay, InUnit(lay, x))
  <2>1. UnitIndex(lay, x) \in 0 .. G - 1 /\ BlockRank(lay, InUnit(lay, x)) \in 0 .. N - 1
    BY <1>3, <1>4, <1>5, <1>7
  <2> DEFINE q == UnitIndex(lay, x)
             r == BlockRank(lay, InUnit(lay, x))
  <2>2. q \in 0 .. G - 1 /\ r \in 0 .. N - 1 /\ q \in Nat /\ RecordPlace(lay, x) = q * N + r
    BY <1>5, <2>1
  <2> HIDE DEF q, r
  <2>3. G \in Nat /\ N \in Nat \ {0}
    BY <1>3, <1>4
  <2>4. q * N + r \in 0 .. G * N - 1
    BY <2>2, <2>3, TwoDigits
  <2>5. (q * N + r) \div N = q /\ (q * N + r) % N = r
    BY <2>2, <2>3, Division
  <2> QED
    BY <2>2, <2>4, <2>5 DEF q, r
<1>9. ASSUME NEW x \in Coords(g), NEW y \in Coords(g), RecordPlace(lay, x) = RecordPlace(lay, y)
      PROVE  x = y
  <2>1. /\ UnitIndex(lay, x) = UnitIndex(lay, y)
        /\ BlockRank(lay, InUnit(lay, x)) = BlockRank(lay, InUnit(lay, y))
    BY <1>8, <1>9
  <2>2. DivBy(x, s) = DivBy(y, s)
    BY <1>3, <1>5, <1>7, <2>1
  <2>3. ModBy(x, s) = ModBy(y, s)
    BY <1>4, <1>5, <1>7, <2>1
  <2> QED
    BY <1>1, <2>2, <2>3, PartsApart
<1>10. ASSUME NEW p \in 0 .. G * N - 1 PROVE \E x \in Coords(g) : RecordPlace(lay, x) = p
  <2> DEFINE q == p \div N
             r == p % N
  <2>1. p \in Nat /\ N \in Nat \ {0} /\ G \in Nat /\ G * N \in Nat /\ p < G * N
    BY <1>3, <1>4, <1>5, <1>6
  <2>2. q \in Nat /\ r \in 0 .. N - 1 /\ p = q * N + r
    BY <2>1, DivisionOf
  <2> HIDE DEF q, r
  <2>3. q < G
    <3>1. SUFFICES ASSUME G <= q PROVE FALSE
      BY <2>1, <2>2
    <3>2. G * N <= q * N
      BY <2>1, <2>2, <3>1, ProductGrows
    <3>3. q * N \in Nat
      BY <2>1, <2>2
    <3> QED
      BY <2>1, <2>2, <3>2, <3>3
  <2>4. PICK u \in Coords(D) : Ravel(u, D) = q
    <3>1. q \in 0 .. G - 1
      BY <2>1, <2>2, <2>3
    <3> QED
      BY <1>3, <3>1
  <2>5. PICK v \in Coords(s) : BlockRank(lay, v) = r
    BY <1>4, <2>2
  <2>6. PICK x \in Coords(g) : DivBy(x, s) = u /\ ModBy(x, s) = v
    BY <1>1, PartsFill DEF D
  <2> QED
    BY <1>5, <2>2, <2>4, <2>5, <2>6
<1>11. /\ \A x \in Blocks(lay) :
            /\ RecordPlace(lay, x) \in 0 .. nBlocks(lay) - 1
            /\ RecordPlace(lay, x) \div N = UnitIndex(lay, x)
            /\ RecordPlace(lay, x) % N = BlockRank(lay, InUnit(lay, x))
       /\ \A x, y \in Blocks(lay) : RecordPlace(lay, x) = RecordPlace(lay, y) => x = y
       /\ \A p \in 0 .. nBlocks(lay) - 1 : \E x \in Blocks(lay) : RecordPlace(lay, x) = p
  BY <1>5, <1>8, <1>9, <1>10
<1> QED
  BY <1>6, <1>11 DEF N, s

(* The row that pack puts at a block's place is the block's. *)
LEMMA RowAtPlace ==
  ASSUME NEW lay, IsLayout(lay), NEW x \in Blocks(lay)
  PROVE  RowAt(lay, RecordPlace(lay, x)) = x
<1> DEFINE N == Volume(lay.unit)
           p == RecordPlace(lay, x)
           Here(y) == UnitIndex(lay, y) = p \div N /\ BlockRank(lay, InUnit(lay, y)) = p % N
<1>1. Here(x)
  BY RecordPlaces
<1>2. ASSUME NEW y \in Blocks(lay), Here(y) PROVE y = x
  <2>1. RecordPlace(lay, y) = RecordPlace(lay, x)
    BY <1>1, <1>2 DEF RecordPlace
  <2> QED
    BY <2>1, RecordPlaces
<1>3. RowAt(lay, p) = CHOOSE y \in Blocks(lay) : Here(y)
  BY DEF RowAt
<1> HIDE DEF Here
<1> QED
  BY <1>1, <1>2, <1>3 DEF p

(* A chunk that one call encodes has its blocks in C order. *)
LEMMA PlainPlace ==
  ASSUME NEW lay, IsLayout(lay), Plain(lay), NEW x \in Blocks(lay)
  PROVE  RecordPlace(lay, x) = Ravel(x, lay.chunk)
<1> DEFINE s == lay.unit
<1>1. s = lay.chunk /\ s \in Shape /\ lay.order = <<1, 2, 3>>
  BY DEF Plain, IsLayout, CutsInto
<1>2. /\ x = <<x[1], x[2], x[3]>>
      /\ \A d \in 1 .. 3 : x[d] \in 0 .. s[d] - 1 /\ s[d] \in Nat \ {0}
  BY <1>1 DEF Blocks, Coords, Shape
<1>3. \A d \in 1 .. 3 : x[d] \div s[d] = 0 /\ x[d] % s[d] = x[d] /\ s[d] \div s[d] = 1
  BY <1>2
<1>4. DivBy(x, s) = <<0, 0, 0>> /\ DivBy(lay.chunk, s) = <<1, 1, 1>>
  BY <1>1, <1>3 DEF DivBy
<1>5. ModBy(x, s) = x
  BY <1>2, <1>3 DEF ModBy
<1>6. UnitIndex(lay, x) = 0
  BY <1>4 DEF UnitIndex, Ravel
<1>7. InUnit(lay, x) = x
  BY <1>5 DEF InUnit
<1>8. Permuted(x, lay.order) = x
  BY <1>1, <1>2 DEF Permuted
<1>9. Ravel(Permuted(x, lay.order), Permuted(s, lay.order)) = Ravel(x, s)
  BY <1>1, <1>8 DEF Permuted, Ravel
<1>10. BlockRank(lay, InUnit(lay, x)) = Ravel(x, lay.chunk)
  BY <1>1, <1>7, <1>9 DEF BlockRank
<1>11. Ravel(x, lay.chunk) \in Int /\ Volume(s) \in Nat
  <2>1. Ravel(x, s) \in 0 .. Volume(s) - 1 /\ Volume(s) \in Nat
    BY <1>1, RavelNumbers DEF Blocks
  <2> QED
    BY <1>1, <2>1
<1> QED
  BY <1>6, <1>10, <1>11 DEF RecordPlace

(* Byte k of layer j of the row at place p is found where the layer starts *)
(* and the rows before it end.                                             *)
LEMMA StoredIs ==
  ASSUME NEW lay, IsLayout(lay), NEW j \in Layers(lay), NEW p \in 0 .. nBlocks(lay) - 1,
         NEW k \in 0 .. lay.bytes[j] - 1
  PROVE  Stored(lay, LayerStart(lay, j) + p * lay.bytes[j] + k)
           = [block |-> RowAt(lay, p), byte |-> Cut(lay, j) + k]
<1> DEFINE m == nLayers(lay)
           b == lay.bytes[j]
           c == Cut(lay, j)
           N == nBlocks(lay)
           o == LayerStart(lay, j) + p * b + k
<1>1. m \in Nat \ {0} /\ Layers(lay) = 1 .. m /\ b \in Nat \ {0}
  BY LayersAre
<1>2. /\ Cut(lay, 1) = 0
      /\ \A i \in 1 .. m + 1 : Cut(lay, i) \in Nat
      /\ Cut(lay, j + 1) = c + b
      /\ \A i, l \in 1 .. m + 1 : i <= l => Cut(lay, i) <= Cut(lay, l)
  BY CutsAscend
<1>3. N \in Nat \ {0}
  BY RecordPlaces
<1>4. LayerStart(lay, j) = c * N
  BY DEF LayerStart
<1>5. c \in Nat /\ p \in Nat /\ k \in Nat /\ j \in Nat /\ j \in 1 .. m + 1
  BY <1>1, <1>2, <1>3
<1> HIDE DEF m, b, c, N
<1>6. p * b + k \in 0 .. N * b - 1
  BY <1>1, <1>3, TwoDigits DEF N, b
<1>7. c * N \in Nat /\ (c + b) * N = c * N + N * b /\ p * b \in Nat /\ N * b \in Nat
  BY <1>1, <1>3, <1>5
<1>8. o = c * N + (p * b + k) /\ c * N <= o /\ o < (c + b) * N /\ o \in Nat
  BY <1>4, <1>5, <1>6, <1>7
<1>9. (p * b + k) \div b = p /\ (p * b + k) % b = k
  BY <1>1, <1>5, Division DEF b
<1>10. CASE Plain(lay)
  <2>1. m = 1 /\ j = 1
    BY <1>1, <1>10 DEF Plain, m
  <2>2. c = 0 /\ BlockBytes(lay) = b
    BY <1>1, <1>2, <2>1 DEF BlockBytes, m, c
  <2>3. o = p * b + k
    <3>1. c * N = 0 * N
      BY <2>2
    <3>2. c * N = 0 /\ p * b + k \in Int
      BY <1>3, <1>5, <1>7, <3>1
    <3> HIDE DEF o
    <3> QED
      BY <1>8, <3>2
  <2>4. o \div BlockBytes(lay) = p /\ o % BlockBytes(lay) = k
    BY <1>9, <2>2, <2>3
  <2>5. PICK x \in Blocks(lay) : RecordPlace(lay, x) = p
    BY RecordPlaces
  <2>6. RowAt(lay, p) = x
    BY <2>5, RowAtPlace
  <2>7. (CHOOSE y \in Blocks(lay) : Ravel(y, lay.chunk) = p) = x
    <3>1. \A y \in Blocks(lay) : RecordPlace(lay, y) = Ravel(y, lay.chunk)
      BY <1>10, PlainPlace
    <3>2. Ravel(x, lay.chunk) = p
      BY <2>5, <3>1
    <3>3. \A y \in Blocks(lay) : Ravel(y, lay.chunk) = p => y = x
      BY <2>5, <3>1, RecordPlaces
    <3> QED
      BY <3>2, <3>3
  <2> HIDE DEF o
  <2>8. Stored(lay, o) = [block |-> CHOOSE y \in Blocks(lay) : Ravel(y, lay.chunk) = p,
                          byte |-> k]
    BY <1>10, <2>4 DEF Stored
  <2>9. c + k = k
    BY <1>5, <2>2
  <2> QED
    BY <2>6, <2>7, <2>8, <2>9 DEF o, b, c
<1>11. CASE ~Plain(lay)
  <2> DEFINE In(i) == Cut(lay, i) * N <= o /\ o < Cut(lay, i + 1) * N
             l == CHOOSE i \in Layers(lay) : In(i)
  <2>1. In(j)
    BY <1>2, <1>8 DEF c
  <2>2. ASSUME NEW i \in Layers(lay), In(i) PROVE i = j
    <3>1. /\ i \in 1 .. m + 1 /\ i + 1 \in 1 .. m + 1 /\ j \in 1 .. m + 1 /\ j + 1 \in 1 .. m + 1
          /\ i \in Int /\ j \in Int /\ N \in Nat
      BY <1>1, <1>3
    <3>2. /\ Cut(lay, i) \in Int /\ Cut(lay, i + 1) \in Int
          /\ Cut(lay, j) \in Int /\ Cut(lay, j + 1) \in Int
      BY <1>2, <3>1
    <3>3. ~(i + 1 <= j)
      <4>1. SUFFICES ASSUME i + 1 <= j PROVE FALSE
        OBVIOUS
      <4>2. Cut(lay, i + 1) <= Cut(lay, j)
        BY <1>2, <3>1, <4>1
      <4>3. Cut(lay, i + 1) * N <= Cut(lay, j) * N
        BY <3>1, <3>2, <4>2, ProductGrows
      <4>4. Cut(lay, i + 1) * N \in Int /\ Cut(lay, j) * N \in Int
        BY <3>1, <3>2
      <4> QED
        BY <1>8, <2>1, <2>2, <4>3, <4>4
    <3>4. ~(j + 1 <= i)
      <4>1. SUFFICES ASSUME j + 1 <= i PROVE FALSE
        OBVIOUS
      <4>2. Cut(lay, j + 1) <= Cut(lay, i)
        BY <1>2, <3>1, <4>1
      <4>3. Cut(lay, j + 1) * N <= Cut(lay, i) * N
        BY <3>1, <3>2, <4>2, ProductGrows
      <4>4. Cut(lay, j + 1) * N \in Int /\ Cut(lay, i) * N \in Int
        BY <3>1, <3>2
      <4> QED
        BY <1>8, <2>1, <2>2, <4>3, <4>4
    <3> QED
      BY <3>1, <3>3, <3>4
  <2>3. l = j
    <3> HIDE DEF In
    <3> QED
      BY <2>1, <2>2
  <2>4. o - Cut(lay, j) * N = p * b + k
    BY <1>7, <1>8, <1>5 DEF c
  <2> HIDE DEF o
  <2>5. Stored(lay, o) = [block |-> RowAt(lay, (o - Cut(lay, l) * N) \div lay.bytes[l]),
                          byte |-> Cut(lay, l) + ((o - Cut(lay, l) * N) % lay.bytes[l])]
    BY <1>11 DEF Stored, N
  <2> HIDE DEF l
  <2> QED
    BY <1>9, <2>3, <2>4, <2>5 DEF o, b, c
<1> QED
  BY <1>10, <1>11

-----------------------------------------------------------------------------
(* Chunks are read back *)

(* Every block's bytes of every layer lie at its record's place. *)
LEMMA EveryBlockInPlace ==
  ASSUME NEW lay, IsLayout(lay)
  PROVE  BlocksInPlace(lay)
<1> SUFFICES ASSUME NEW x \in Blocks(lay), NEW j \in Layers(lay),
                    NEW k \in 0 .. lay.bytes[j] - 1
             PROVE  Stored(lay, LayerStart(lay, j) + RecordPlace(lay, x) * lay.bytes[j] + k)
                      = [block |-> x, byte |-> Cut(lay, j) + k]
  BY DEF BlocksInPlace
<1> DEFINE p == RecordPlace(lay, x)
<1>1. p \in 0 .. nBlocks(lay) - 1 /\ RowAt(lay, p) = x
  BY RecordPlaces, RowAtPlace
<1> HIDE DEF p
<1>2. Stored(lay, LayerStart(lay, j) + p * lay.bytes[j] + k)
        = [block |-> RowAt(lay, p), byte |-> Cut(lay, j) + k]
  BY <1>1, StoredIs
<1> QED
  BY <1>1, <1>2 DEF p

(* Every block's stream is put together again. *)
LEMMA EveryBlockUnpacked ==
  ASSUME NEW lay, IsLayout(lay)
  PROVE  UnpackUndoesPack(lay)
<1> SUFFICES ASSUME NEW x \in Blocks(lay)
             PROVE  Unpacked(lay, x)
                      = [k \in 0 .. BlockBytes(lay) - 1 |-> [block |-> x, byte |-> k]]
  BY DEF UnpackUndoesPack
<1> DEFINE p == RecordPlace(lay, x)
           Covers(i, k) == Cut(lay, i) <= k /\ k < Cut(lay, i + 1)
           Of(k) == CHOOSE i \in Layers(lay) : Covers(i, k)
<1>1. Unpacked(lay, x) = RowBytes(lay, p)
  BY PlainPlace DEF Unpacked, RecordPlace
<1>2. p \in 0 .. nBlocks(lay) - 1 /\ nBlocks(lay) \in Nat
  BY RecordPlaces
<1>3. nLayers(lay) \in Layers(lay) /\ Layers(lay) = 1 .. nLayers(lay) /\ nLayers(lay) \in Nat
  BY LayersAre
<1>4. ASSUME NEW k \in 0 .. BlockBytes(lay) - 1
      PROVE  Stored(lay, Cut(lay, Of(k)) * nBlocks(lay) + p * lay.bytes[Of(k)] + k - Cut(lay, Of(k)))
               = [block |-> x, byte |-> k]
  <2> DEFINE j == Of(k)
  <2>1. j \in Layers(lay) /\ Covers(j, k)
    <3>1. \E i \in 1 .. nLayers(lay) : Covers(i, k)
      BY <1>3, LayerOfByte DEF BlockBytes
    <3> HIDE DEF Covers
    <3> QED
      BY <1>3, <3>1
  <2> HIDE DEF Of, j
  <2>2. /\ Cut(lay, j) \in Nat /\ Cut(lay, j + 1) = Cut(lay, j) + lay.bytes[j]
        /\ lay.bytes[j] \in Nat
    <3>1. j \in 1 .. nLayers(lay) + 1
      BY <1>3, <2>1
    <3> QED
      BY <2>1, <3>1, CutsAscend, LayersAre
  <2> DEFINE c == Cut(lay, j)
             b == lay.bytes[j]
             N == nBlocks(lay)
             e == k - c
  <2>3. k \in Nat /\ e \in 0 .. b - 1 /\ c + e = k /\ c \in Nat
    <3>1. BlockBytes(lay) \in Nat
      <4>1. nLayers(lay) + 1 \in 1 .. nLayers(lay) + 1
        BY <1>3
      <4> QED
        BY <4>1, CutsAscend DEF BlockBytes
    <3> QED
      BY <2>1, <2>2, <3>1
  <2>4. Stored(lay, LayerStart(lay, j) + p * b + e) = [block |-> x, byte |-> c + e]
    <3> HIDE DEF e, c, p
    <3>1. Stored(lay, LayerStart(lay, j) + RecordPlace(lay, x) * lay.bytes[j] + e)
            = [block |-> x, byte |-> Cut(lay, j) + e]
      <4>1. BlocksInPlace(lay)
        BY EveryBlockInPlace
      <4> QED
        BY <2>1, <2>3, <4>1 DEF BlocksInPlace
    <3> QED
      BY <3>1 DEF c, p
  <2>5. LayerStart(lay, j) + p * b + e = c * N + p * b + k - c
    <3>1. LayerStart(lay, j) = c * N
      BY DEF LayerStart
    <3> HIDE DEF p, c, b, N
    <3>2. c * N \in Int /\ p * b \in Int
      BY <1>2, <2>2, <2>3 DEF N, b, c
    <3> DEFINE u == c * N
               v == p * b
    <3>3. u \in Int /\ v \in Int /\ LayerStart(lay, j) = u
      BY <3>1, <3>2
    <3> HIDE DEF u, v
    <3>4. u + v + e = u + v + k - c
      BY <2>3, <3>3
    <3> QED
      BY <3>3, <3>4 DEF u, v
  <2> QED
    BY <2>3, <2>4, <2>5 DEF j
<1> DEFINE r == RowBytes(lay, p)
<1>5. r = [k \in 0 .. BlockBytes(lay) - 1 |->
             Stored(lay, Cut(lay, Of(k)) * nBlocks(lay) + p * lay.bytes[Of(k)] + k - Cut(lay, Of(k)))]
  BY DEF RowBytes
<1> HIDE DEF Of, p, r
<1>6. r = [k \in 0 .. BlockBytes(lay) - 1 |-> [block |-> x, byte |-> k]]
  BY <1>4, <1>5
<1> QED
  BY <1>1, <1>6 DEF r
=============================================================================
