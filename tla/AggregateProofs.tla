---------------------------- MODULE AggregateProofs ----------------------------
(***************************************************************************)
(* Proofs about the two algorithms that work in parts and then combine     *)
(* what the parts have found: the aggregates of reads and the planner's    *)
(* two parallel loops.                                                     *)
(*                                                                         *)
(* Aggregate, for every set of values, error bounds and query, every       *)
(* number of reads and blocks, and every rounding of the sums.  RoundOff   *)
(* is R and ReadValues N in the comments: with doubles R is 2^53, and N is *)
(* the number of values in the longest read.                               *)
(*                                                                         *)
(* Every addition may be off by an R-th of its result.  abs_total grows    *)
(* by |r| + eps with every value, so it bounds all sums and with them      *)
(* their roundings: the sums of t values are off by no more than           *)
(* Err(t, abs_total) (PairStep).  The slack, (n + 2) / R of abs_total for  *)
(* each read of n values, covers that error and the three roundings that   *)
(* combine itself makes (SlackCovers, WideEnough).                         *)
(*                                                                         *)
(* PlanBlocks, for every grid of units, chunk shape, block count, number   *)
(* of workers and zone map: the loops leave the list and the totals that   *)
(* one thread would.  IInv says which shares, counts, offsets and list     *)
(* entries are in place in each phase; CountsRight, proved from it, says   *)
(* what the totals count.                                                  *)
(***************************************************************************)
EXTENDS PlanBlocks, Aggregate, Lemmas

-----------------------------------------------------------------------------
(* Rounding *)

LEMMA Times ==
  ASSUME NEW a \in Int, NEW b \in Int, NEW k \in Nat, a <= b
  PROVE  k * a <= k * b
  OBVIOUS

(* A positive factor may be taken out. *)
LEMMA Cancel ==
  ASSUME NEW a \in Int, NEW b \in Int, NEW k \in Nat \ {0}, k * a <= k * b
  PROVE  a <= b
<1>1. CASE b + 1 <= a
  <2>1. k * (b + 1) <= k * a
    BY <1>1, Times
  <2>2. k * (b + 1) = k * b + k
    OBVIOUS
  <2> QED
    BY <2>1, <2>2
<1> QED
  BY <1>1

(* The sum of |x| over what is added grows at least as fast as the sums. *)
LEMMA HeightStep ==
  ASSUME NEW R \in Nat, NEW c \in 3 .. R, NEW h \in Nat, NEW a \in Nat, NEW A \in Nat,
         NEW h1 \in Nat, NEW A1 \in Nat
  PROVE  c * h <= R * A /\ R * h1 <= (R + 1) * (h + a) /\ (R - 1) * (A + a) <= R * A1
           => (c - 2) * h1 <= R * A1
<1>1. SUFFICES ASSUME c * h <= R * A, R * h1 <= (R + 1) * (h + a), (R - 1) * (A + a) <= R * A1
               PROVE  (c - 2) * h1 <= R * A1
  OBVIOUS
<1> DEFINE B == A + a
           g == h + a
<1>2. c * g <= R * B
  <2>1. c * g = c * h + a * c /\ R * B = R * A + a * R
    OBVIOUS
  <2>2. a * c <= a * R
    BY Times
  <2> QED
    BY <1>1, <2>1, <2>2
<1>3. B \in Nat /\ g \in Nat
  OBVIOUS
<1>4. R * h1 <= (R + 1) * g /\ (R - 1) * B <= R * A1
  BY <1>1, Zenon
<1> HIDE DEF B, g
<1> DEFINE first == (c * (c - 2)) * ((R + 1) * g)
           second == ((c - 2) * (R + 1)) * (R * B)
           third == (c * R) * ((R - 1) * B)
<1>5. (c * (c - 2)) * (R * h1) <= first
  <2>1. c * (c - 2) \in Nat /\ R * h1 \in Int /\ (R + 1) * g \in Int
    BY <1>3
  <2> QED
    BY <1>4, <2>1, Times
<1>6. first <= second
  <2>1. first = ((c - 2) * (R + 1)) * (c * g)
    BY <1>3
  <2>2. (c - 2) * (R + 1) \in Nat /\ c * g \in Int /\ R * B \in Int
    BY <1>3
  <2>3. ((c - 2) * (R + 1)) * (c * g) <= second
    BY <1>2, <2>2, Times
  <2> QED
    BY <2>1, <2>3, Zenon
<1>7. second <= third
  <2>1. (c - 2) * (R + 1) <= c * (R - 1)
    OBVIOUS
  <2>2. (c - 2) * (R + 1) \in Int /\ c * (R - 1) \in Int /\ R * B \in Nat
    BY <1>3
  <2>3. second <= (c * (R - 1)) * (R * B)
    BY <2>1, <2>2, ProductGrows
  <2>4. (c * (R - 1)) * (R * B) = third
    BY <1>3
  <2> QED
    BY <2>3, <2>4, Zenon
<1>8. third <= (c * R) * (R * A1)
  <2>1. c * R \in Nat /\ (R - 1) * B \in Int /\ R * A1 \in Int
    BY <1>3
  <2> QED
    BY <1>4, <2>1, Times
<1>9. (c * (c - 2)) * (R * h1) = (c * R) * ((c - 2) * h1)
  OBVIOUS
<1>10. first \in Int /\ second \in Int /\ third \in Int
  BY <1>3
<1>11. /\ c * R \in Nat \ {0} /\ (c - 2) * h1 \in Int /\ R * A1 \in Int
       /\ (c * R) * ((c - 2) * h1) \in Int /\ (c * R) * (R * A1) \in Int
  OBVIOUS
<1> HIDE DEF first, second, third
<1>12. (c * R) * ((c - 2) * h1) <= (c * R) * (R * A1)
  BY <1>5, <1>6, <1>7, <1>8, <1>9, <1>10, <1>11
<1> QED
  BY <1>11, <1>12, Cancel

(* And so does the error that is allowed for. *)
LEMMA ErrorStep ==
  ASSUME NEW R \in Nat, NEW c \in 3 .. R, NEW t \in Nat \ {0},
         NEW h \in Nat, NEW a \in Nat, NEW A \in Nat, NEW A1 \in Nat,
         NEW e \in Nat, NEW rho \in Nat
  PROVE  c * h <= R * A /\ R * rho <= h + a /\ (R - 1) * (A + a) <= R * A1 /\ c * e <= (t - 1) * A
           => (c - 2) * (e + rho) <= t * A1
<1>1. SUFFICES ASSUME c * h <= R * A, R * rho <= h + a, (R - 1) * (A + a) <= R * A1,
                      c * e <= (t - 1) * A
               PROVE  (c - 2) * (e + rho) <= t * A1
  OBVIOUS
<1> DEFINE B == A + a
           f == e + rho
<1>2. c * (h + a) <= R * B
  <2>1. c * (h + a) = c * h + a * c /\ R * B = R * A + a * R
    OBVIOUS
  <2>2. a * c <= a * R
    BY Times
  <2> QED
    BY <1>1, <2>1, <2>2
<1>3. c * rho <= B
  <2>1. c * (R * rho) <= c * (h + a)
    BY <1>1, Times
  <2>2. c * (R * rho) = R * (c * rho)
    OBVIOUS
  <2>3. R * (c * rho) <= R * B
    BY <1>2, <2>1, <2>2
  <2>4. c * rho \in Int /\ B \in Int /\ R \in Nat \ {0}
    OBVIOUS
  <2> QED
    BY <2>3, <2>4, Cancel
<1>4. c * f <= t * B
  <2>1. c * f = c * e + c * rho /\ t * B = (t - 1) * A + A + t * a
    OBVIOUS
  <2>2. t * a >= a
    OBVIOUS
  <2> QED
    BY <1>1, <1>3, <2>1, <2>2
<1>5. B \in Nat /\ f \in Nat
  OBVIOUS
<1>6. (R - 1) * B <= R * A1
  BY <1>1, Zenon
<1> HIDE DEF B, f
<1> DEFINE first == ((c - 2) * R) * (t * B)
           second == (c * t) * ((R - 1) * B)
<1>7. ((c - 2) * R) * (c * f) <= first
  <2>1. (c - 2) * R \in Nat /\ c * f \in Int /\ t * B \in Int
    BY <1>5
  <2> QED
    BY <1>4, <2>1, Times
<1>8. first <= second
  <2>1. (c - 2) * R <= c * (R - 1)
    OBVIOUS
  <2>2. (c - 2) * R \in Int /\ c * (R - 1) \in Int /\ t * B \in Nat
    BY <1>5
  <2>3. first <= (c * (R - 1)) * (t * B)
    BY <2>1, <2>2, ProductGrows
  <2>4. (c * (R - 1)) * (t * B) = second
    BY <1>5
  <2> QED
    BY <2>3, <2>4, Zenon
<1>9. second <= (c * t) * (R * A1)
  <2>1. c * t \in Nat /\ (R - 1) * B \in Int /\ R * A1 \in Int
    BY <1>5
  <2> QED
    BY <1>6, <2>1, Times
<1>10. /\ ((c - 2) * R) * (c * f) = (c * R) * ((c - 2) * f)
       /\ (c * t) * (R * A1) = (c * R) * (t * A1)
  BY <1>5
<1>11. first \in Int /\ second \in Int
  BY <1>5
<1>12. /\ c * R \in Nat \ {0} /\ (c - 2) * f \in Int /\ t * A1 \in Int
       /\ (c * R) * ((c - 2) * f) \in Int /\ (c * R) * (t * A1) \in Int
  BY <1>5
<1> HIDE DEF first, second
<1>13. (c * R) * ((c - 2) * f) <= (c * R) * (t * A1)
  BY <1>7, <1>8, <1>9, <1>10, <1>11, <1>12
<1>14. (c - 2) * f <= t * A1
  BY <1>12, <1>13, Cancel
<1> QED
  BY <1>14 DEF f

-----------------------------------------------------------------------------
(* What sums come out as *)

LEMMA AbsIs ==
  ASSUME NEW x \in Int
  PROVE  /\ Abs(x) \in Nat /\ x <= Abs(x) /\ -x <= Abs(x)
         /\ Abs(x) = x \/ Abs(x) = -x
  BY DEF Abs

(* The size of a sum. *)
LEMMA AbsOfSum ==
  ASSUME NEW x \in Int, NEW y \in Int
  PROVE  Abs(x + y) <= Abs(x) + Abs(y)
  BY DEF Abs

(* R is larger than twice the values of any read. *)
LEMMA SizeFacts ==
  /\ RoundOff \in Nat \ {0} /\ ReadValues \in Nat \ {0}
  /\ 2 * ReadValues + 3 <= RoundOff
<1>1. /\ RoundOff \in Nat \ {0} /\ ReadBlocks \in Nat \ {0} /\ ValuesPerBlock \in Nat \ {0}
  BY SizesAssumption
<1>2. ReadValues \in Nat \ {0}
  BY <1>1, Positive DEF ReadValues
<1>3. 2 * (ReadValues + 3) <= 2 * (ReadValues + 3) * (ReadValues + 3)
  <2> DEFINE b == ReadValues
  <2>1. 1 <= b + 3 /\ 2 * (b + 3) \in Nat
    BY <1>2
  <2> HIDE DEF b
  <2>2. (2 * (b + 3)) * 1 <= (2 * (b + 3)) * (b + 3)
    BY <2>1, Times, <1>2 DEF b
  <2> QED
    BY <1>2, <2>2 DEF b
<1> QED
  BY <1>1, <1>2, <1>3, RoundOffAssumption

(* A quotient is rounded down. *)
LEMMA Quotient ==
  ASSUME NEW a \in Nat, NEW d \in Nat \ {0}
  PROVE  a \div d \in Nat /\ d * (a \div d) <= a
  OBVIOUS

(* What is less than a quotient. *)
LEMMA QuotientBounds ==
  ASSUME NEW a \in Nat, NEW d \in Nat \ {0}, NEW q \in Int, d * q <= a
  PROVE  q <= a \div d
  OBVIOUS

(* A rounded number is off by no more than an R-th of itself. *)
LEMMA RoundedIs ==
  ASSUME NEW x \in Int, NEW y \in Rounded(x)
  PROVE  /\ y \in Int
         /\ RoundOff * Abs(y - x) <= Abs(x)
<1> DEFINE off == Abs(x) \div RoundOff
<1>1. off \in Nat /\ RoundOff * off <= Abs(x)
  BY AbsIs, SizeFacts, Quotient
<1>2. y \in x - off .. x + off
  <2>1. y \in {x - off, x + off} \/ y \in x - off .. x + off
    BY DEF Rounded
  <2> HIDE DEF off
  <2> QED
    BY <1>1, <2>1
<1> HIDE DEF off
<1>3. y \in Int /\ Abs(y - x) <= off
  BY <1>1, <1>2 DEF Abs
<1>4. RoundOff * Abs(y - x) <= RoundOff * off
  <2>1. Abs(y - x) \in Int
    BY <1>3, AbsIs
  <2> QED
    BY <1>1, <1>3, <2>1, SizeFacts, Times
<1>5. RoundOff * Abs(y - x) \in Int /\ RoundOff * off \in Int /\ Abs(x) \in Int
  BY <1>1, <1>3, AbsIs, SizeFacts
<1> QED
  BY <1>1, <1>3, <1>4, <1>5

(* So is a rounded sum, and adding to zero is exact. *)
LEMMA SumsIs ==
  ASSUME NEW x \in Int, NEW y \in Int, NEW z \in Sums(x, y)
  PROVE  /\ z \in Int
         /\ RoundOff * Abs(z - (x + y)) <= Abs(x + y)
         /\ x = 0 \/ y = 0 => z = x + y
<1>1. CASE x = 0 \/ y = 0
  <2>1. z = x + y
    BY <1>1 DEF Sums
  <2>2. z \in Int /\ z - (x + y) = 0
    BY <2>1
  <2>3. Abs(0) = 0
    BY DEF Abs
  <2>4. RoundOff * 0 = 0
    BY SizeFacts
  <2> QED
    BY <2>1, <2>2, <2>3, <2>4, AbsIs
<1>2. CASE ~(x = 0 \/ y = 0)
  BY <1>2, RoundedIs DEF Sums
<1> QED
  BY <1>1, <1>2

(* A sum and its mirror image are rounded alike. *)
LEMMA RoundedMirror ==
  ASSUME NEW x \in Int, NEW y \in Rounded(x)
  PROVE  -y \in Rounded(-x)
<1> DEFINE off == Abs(x) \div RoundOff
<1>1. Abs(-x) = Abs(x)
  BY DEF Abs
<1>2. off \in Nat
  BY AbsIs, SizeFacts, Quotient
<1>3. /\ ExtremesOnly => y \in {x - off, x + off}
      /\ ~ExtremesOnly => y \in x - off .. x + off
  BY DEF Rounded
<1>4. Rounded(-x) = IF ExtremesOnly THEN {-x - off, -x + off} ELSE -x - off .. -x + off
  BY <1>1 DEF Rounded
<1> HIDE DEF off
<1>5. CASE ExtremesOnly
  <2>1. -y \in {-x - off, -x + off}
    BY <1>2, <1>3, <1>5
  <2> QED
    BY <1>4, <1>5, <2>1
<1>6. CASE ~ExtremesOnly
  <2>1. -y \in -x - off .. -x + off
    BY <1>2, <1>3, <1>6
  <2> QED
    BY <1>4, <1>6, <2>1
<1> QED
  BY <1>5, <1>6

(* So is the sum of two mirror images. *)
LEMMA SumsMirror ==
  ASSUME NEW x \in Int, NEW y \in Int, NEW z \in Sums(x, y)
  PROVE  -z \in Sums(-x, -y)
<1>1. (x = 0 <=> -x = 0) /\ (y = 0 <=> -y = 0) /\ -(x + y) = -x + -y
  OBVIOUS
<1>2. CASE x = 0 \/ y = 0
  BY <1>1, <1>2 DEF Sums
<1>3. CASE ~(x = 0 \/ y = 0)
  <2>1. z \in Rounded(x + y)
    BY <1>3 DEF Sums
  <2>2. -z \in Rounded(-(x + y))
    BY <2>1, RoundedMirror
  <2> QED
    BY <1>1, <1>3, <2>2 DEF Sums
<1> QED
  BY <1>2, <1>3

-----------------------------------------------------------------------------
(* One value more *)

(* How far the sums of t values may be off when abs_total is A. *)
Err(t, A) == IF t = 0 THEN 0 ELSE ((t - 1) * A) \div (RoundOff - 2 * t)

(* Two sums of t values, x and o, are no larger than abs_total allows. *)
Bounded(t, x, o, A) ==
  /\ t = 0 => x = 0 /\ o = 0 /\ A = 0
  /\ (RoundOff - 2 * t) * (Abs(x) + Abs(o)) <= RoundOff * A

(* The error that is allowed for, without its division. *)
LEMMA ErrIs ==
  ASSUME NEW t \in 0 .. ReadValues, NEW A \in Nat
  PROVE  /\ Err(t, A) \in Nat
         /\ t # 0 => (RoundOff - 2 * t) * Err(t, A) <= (t - 1) * A
<1>1. CASE t = 0
  BY <1>1 DEF Err
<1>2. CASE t # 0
  <2>1. t - 1 \in Nat /\ RoundOff - 2 * t \in Nat \ {0}
    BY <1>2, SizeFacts
  <2>2. (t - 1) * A \in Nat
    BY <2>1
  <2>3. Err(t, A) = ((t - 1) * A) \div (RoundOff - 2 * t)
    BY <1>2 DEF Err
  <2> QED
    BY <1>2, <2>1, <2>2, <2>3, Quotient
<1> QED
  BY <1>1, <1>2

(* The sum of the sizes is rounded like the others. *)
LEMMA AbsTotalGrows ==
  ASSUME NEW A \in Nat, NEW a \in Nat, NEW A1 \in Sums(A, a)
  PROVE  A1 \in Nat /\ (RoundOff - 1) * (A + a) <= RoundOff * A1
<1>1. A1 \in Int /\ RoundOff * Abs(A1 - (A + a)) <= Abs(A + a)
  BY SumsIs
<1>2. Abs(A + a) = A + a
  BY DEF Abs
<1> DEFINE d == Abs(A1 - (A + a))
<1>3. d \in Nat /\ A + a <= A1 + d
  <2>1. A1 - (A + a) \in Int
    BY <1>1
  <2> QED
    BY <1>1, <2>1, AbsIs
<1>4. RoundOff * d <= A + a
  BY <1>1, <1>2, Zenon
<1> HIDE DEF d
<1>5. RoundOff * (A + a) <= RoundOff * (A1 + d)
  BY <1>1, <1>3, SizeFacts, Times
<1>6. /\ RoundOff * (A1 + d) = RoundOff * A1 + RoundOff * d
      /\ RoundOff * (A + a) = (RoundOff - 1) * (A + a) + (A + a)
      /\ RoundOff * A1 \in Int /\ RoundOff * d \in Int /\ (RoundOff - 1) * (A + a) \in Nat
  BY <1>1, <1>3, SizeFacts
<1>7. (RoundOff - 1) * (A + a) <= RoundOff * A1
  BY <1>4, <1>5, <1>6
<1>8. A1 \in Nat
  <2>1. RoundOff * 0 <= RoundOff * A1
    BY <1>6, <1>7, SizeFacts
  <2>2. 0 <= A1
    BY <1>1, <2>1, SizeFacts, Cancel
  <2> QED
    BY <1>1, <2>2
<1> QED
  BY <1>7, <1>8

(* One value more: two sums x and o, of which it joins one, stay in bounds, *)
(* and the error that is allowed for grows by what the additions lose.     *)
LEMMA PairStep ==
  ASSUME NEW t \in 0 .. ReadValues - 1, NEW A \in Nat, NEW x \in Int, NEW o \in Int,
         Bounded(t, x, o, A),
         NEW a \in Nat, NEW dx \in Int, NEW do \in Int, Abs(dx) + Abs(do) <= a,
         NEW A1 \in Sums(A, a), NEW x1 \in Sums(x, dx), NEW o1 \in Sums(o, do)
  PROVE  /\ Bounded(t + 1, x1, o1, A1)
         /\ Abs(x1 - (x + dx)) <= Err(t + 1, A1) - Err(t, A)
         /\ Abs((x1 + o1) - (x + o + dx + do)) <= Err(t + 1, A1) - Err(t, A)
<1>1. A1 \in Nat /\ (RoundOff - 1) * (A + a) <= RoundOff * A1
  BY AbsTotalGrows
<1>2. /\ x1 \in Int /\ RoundOff * Abs(x1 - (x + dx)) <= Abs(x + dx)
      /\ x = 0 => x1 = x + dx
      /\ o1 \in Int /\ RoundOff * Abs(o1 - (o + do)) <= Abs(o + do)
      /\ o = 0 => o1 = o + do
  BY SumsIs
<1> DEFINE h == Abs(x) + Abs(o)
           h1 == Abs(x1) + Abs(o1)
           rx == Abs(x1 - (x + dx))
           ro == Abs(o1 - (o + do))
           rho == rx + ro
           c == RoundOff - 2 * t
<1>3. /\ h \in Nat /\ h1 \in Nat /\ rx \in Nat /\ ro \in Nat /\ rho \in Nat
  <2>1. x1 - (x + dx) \in Int /\ o1 - (o + do) \in Int
    BY <1>2
  <2>2. Abs(x) \in Nat /\ Abs(o) \in Nat /\ Abs(x1) \in Nat /\ Abs(o1) \in Nat
    BY <1>2, AbsIs
  <2>3. rx \in Nat /\ ro \in Nat
    BY <2>1, AbsIs
  <2> QED
    BY <2>2, <2>3
<1>4. Abs(x + dx) + Abs(o + do) <= h + a
  <2>1. Abs(x + dx) <= Abs(x) + Abs(dx) /\ Abs(o + do) <= Abs(o) + Abs(do)
    BY AbsOfSum
  <2>2. /\ Abs(x) \in Nat /\ Abs(dx) \in Nat /\ Abs(o) \in Nat /\ Abs(do) \in Nat
        /\ Abs(x + dx) \in Nat /\ Abs(o + do) \in Nat
    BY AbsIs
  <2> QED
    BY <2>1, <2>2
<1>5. RoundOff * rho <= h + a
  <2>1. RoundOff * rx <= Abs(x + dx) /\ RoundOff * ro <= Abs(o + do)
    BY <1>2
  <2>2. RoundOff * rho = RoundOff * rx + RoundOff * ro
    BY <1>3, SizeFacts
  <2>3. /\ RoundOff * rx \in Int /\ RoundOff * ro \in Int /\ h + a \in Int
        /\ Abs(x + dx) \in Int /\ Abs(o + do) \in Int
    BY <1>3, SizeFacts, AbsIs
  <2> HIDE DEF rho, rx, ro, h
  <2> QED
    BY <1>4, <2>1, <2>2, <2>3
<1>6. h1 <= h + a + rho
  <2>1. Abs(x1) <= Abs(x + dx) + rx /\ Abs(o1) <= Abs(o + do) + ro
    BY <1>2 DEF Abs
  <2>2. Abs(x1) \in Int /\ Abs(o1) \in Int /\ Abs(x + dx) \in Int /\ Abs(o + do) \in Int
    BY <1>2, AbsIs
  <2> HIDE DEF rx, ro, h
  <2> QED
    BY <1>3, <1>4, <2>1, <2>2
<1>7. c \in 3 .. RoundOff /\ c - 2 = RoundOff - 2 * (t + 1) /\ c - 2 \in Nat \ {0}
  BY SizeFacts
<1>8. c * h <= RoundOff * A
  BY DEF Bounded
<1> HIDE DEF h, h1, rho, c
<1>9. RoundOff * h1 <= (RoundOff + 1) * (h + a)
  <2>1. h + a + rho \in Int
    BY <1>3
  <2>2. RoundOff * h1 <= RoundOff * (h + a + rho)
    BY <1>3, <1>6, <2>1, SizeFacts, Times
  <2>3. /\ RoundOff * (h + a + rho) = RoundOff * (h + a) + RoundOff * rho
        /\ (RoundOff + 1) * (h + a) = RoundOff * (h + a) + (h + a)
    BY <1>3, SizeFacts
  <2>4. /\ RoundOff * h1 \in Int /\ RoundOff * (h + a) \in Int /\ RoundOff * rho \in Int
    BY <1>3, SizeFacts
  <2> QED
    BY <1>3, <1>5, <2>2, <2>3, <2>4
<1>10. (c - 2) * h1 <= RoundOff * A1
  BY <1>1, <1>3, <1>7, <1>8, <1>9, SizeFacts, HeightStep
<1>11. Bounded(t + 1, x1, o1, A1)
  BY <1>7, <1>10 DEF Bounded, h1
<1>12. Err(t, A) \in Nat /\ Err(t + 1, A1) \in Nat
  BY <1>1, SizeFacts, ErrIs
<1>13. Err(t, A) + rho <= Err(t + 1, A1)
  <2>1. CASE t = 0
    <3>1. x1 = x + dx /\ o1 = o + do
      BY <1>2, <2>1 DEF Bounded
    <3>2. x1 - (x + dx) = 0 /\ o1 - (o + do) = 0
      BY <1>2, <3>1
    <3>3. rho = 0
      BY <3>2 DEF rho, Abs
    <3>4. Err(t, A) = 0
      BY <2>1 DEF Err
    <3> QED
      BY <1>12, <3>3, <3>4
  <2>2. CASE t # 0
    <3>0. t \in 0 .. ReadValues
      BY SizeFacts
    <3>1. c * Err(t, A) <= (t - 1) * A
      BY <2>2, <3>0, ErrIs, Zenon DEF c
    <3>2. t \in Nat \ {0}
      BY <2>2
    <3>3. (c - 2) * (Err(t, A) + rho) <= t * A1
      BY <1>1, <1>3, <1>5, <1>7, <1>8, <1>12, <3>1, <3>2, SizeFacts, ErrorStep
    <3>4. t * A1 \in Nat /\ Err(t, A) + rho \in Int
      BY <1>1, <1>3, <1>12
    <3>5. Err(t, A) + rho <= (t * A1) \div (c - 2)
      BY <1>7, <3>3, <3>4, QuotientBounds
    <3>6. Err(t + 1, A1) = (t * A1) \div (c - 2)
      BY <1>7, <3>2 DEF Err
    <3> QED
      BY <3>5, <3>6
  <2> QED
    BY <2>1, <2>2
<1>14. rho = rx + ro
  BY DEF rho
<1>15. Abs((x1 + o1) - (x + o + dx + do)) <= rx + ro
  <2>1. (x1 + o1) - (x + o + dx + do) = (x1 - (x + dx)) + (o1 - (o + do))
    BY <1>2
  <2>2. x1 - (x + dx) \in Int /\ o1 - (o + do) \in Int
    BY <1>2
  <2> QED
    BY <2>1, <2>2, AbsOfSum
<1>16. Abs((x1 + o1) - (x + o + dx + do)) \in Int
  <2>1. (x1 + o1) - (x + o + dx + do) \in Int
    BY <1>2
  <2> QED
    BY <2>1, AbsIs
<1>17. rx <= rho /\ rho = rx + ro
  BY <1>3, <1>14
<1>18. rho <= Err(t + 1, A1) - Err(t, A)
  BY <1>3, <1>12, <1>13
<1>19. /\ Abs(x1 - (x + dx)) <= Err(t + 1, A1) - Err(t, A)
       /\ Abs((x1 + o1) - (x + o + dx + do)) <= Err(t + 1, A1) - Err(t, A)
  BY <1>3, <1>12, <1>15, <1>16, <1>17, <1>18
<1> QED
  BY <1>11, <1>19

-----------------------------------------------------------------------------
(* The slack *)

(* The slack covers what adding up (e), the sums over the reads (r1, r3),  *)
(* widening (r2) and the slack's own roundings (d1, d2) may be off.        *)
LEMMA SlackCovers ==
  ASSUME NEW e \in Nat, NEW h \in Nat, NEW A \in Nat, NEW T \in Nat, NEW W \in Nat,
         NEW r1 \in Nat, NEW r2 \in Nat, NEW r3 \in Nat, NEW d1 \in Nat, NEW d2 \in Nat
  PROVE  /\ (RoundOff - 2 * ReadValues) * e <= T - 3 * A
         /\ (RoundOff - 2 * ReadValues) * h <= RoundOff * A
         /\ T <= (ReadValues + 2) * A
         /\ RoundOff * W <= T
         /\ RoundOff * (r1 + r3) <= h
         /\ RoundOff * r2 <= h + r1 + 4 * W
         /\ RoundOff * (d1 + d2) <= 3 * W
         => RoundOff * (e + r1 + r2 + r3 + d1 + d2) <= T
<1>1. SUFFICES ASSUME (RoundOff - 2 * ReadValues) * e <= T - 3 * A,
                      (RoundOff - 2 * ReadValues) * h <= RoundOff * A,
                      T <= (ReadValues + 2) * A,
                      RoundOff * W <= T,
                      RoundOff * (r1 + r3) <= h,
                      RoundOff * r2 <= h + r1 + 4 * W,
                      RoundOff * (d1 + d2) <= 3 * W
               PROVE  RoundOff * (e + r1 + r2 + r3 + d1 + d2) <= T
  OBVIOUS
<1> DEFINE R == RoundOff
           N == ReadValues
           c == R - 2 * N
           g == 2 * h + r1 + 7 * W
<1>2. /\ R \in Nat \ {0} /\ N \in Nat /\ c \in Nat \ {0} /\ c <= R /\ g \in Nat
      /\ c = R - 2 * N /\ g = 2 * h + r1 + 7 * W
  BY SizeFacts
<1>3. 2 * (N + 3) * (N + 3) <= R
  BY RoundOffAssumption
<1>4. /\ c * e <= T - 3 * A /\ c * h <= R * A /\ T <= (N + 2) * A /\ R * W <= T
      /\ R * (r1 + r3) <= h /\ R * r2 <= h + r1 + 4 * W /\ R * (d1 + d2) <= 3 * W
  BY <1>1
<1> HIDE DEF R, N, c, g
<1>5. R * (e + r1 + r2 + r3 + d1 + d2) <= R * e + g
  <2>1. R * (e + r1 + r2 + r3 + d1 + d2) = R * e + R * (r1 + r3) + R * r2 + R * (d1 + d2)
    BY <1>2
  <2>2. /\ R * e \in Int /\ R * (r1 + r3) \in Int /\ R * r2 \in Int
        /\ R * (d1 + d2) \in Int
    BY <1>2
  <2> QED
    BY <1>2, <1>4, <2>1, <2>2
<1>6. c * r1 <= A
  <2>1. R * r1 <= h
    <3>1. R * (r1 + r3) = R * r1 + R * r3 /\ R * r3 \in Nat /\ R * r1 \in Nat
      BY <1>2
    <3> QED
      BY <1>4, <3>1
  <2>2. c * (R * r1) <= c * h
    BY <1>2, <2>1, Times
  <2>3. c * (R * r1) = R * (c * r1)
    BY <1>2
  <2>4. R * (c * r1) <= R * A
    <3>1. R * (c * r1) \in Int /\ c * h \in Int /\ R * A \in Int
      BY <1>2
    <3> QED
      BY <1>4, <2>2, <2>3, <3>1
  <2>5. c * r1 \in Int
    BY <1>2
  <2> QED
    BY <1>2, <2>4, <2>5, Cancel
<1>7. c * W <= T
  <2>1. c * W <= R * W
    BY <1>2, ProductGrows
  <2>2. c * W \in Int /\ R * W \in Int
    BY <1>2
  <2> QED
    BY <1>4, <2>1, <2>2
<1>8. c * g <= 2 * (R * A) + A + 7 * T
  <2>1. c * g = 2 * (c * h) + c * r1 + 7 * (c * W)
    BY <1>2
  <2>2. c * h \in Int /\ c * r1 \in Int /\ c * W \in Int /\ R * A \in Int
    BY <1>2
  <2> QED
    BY <1>4, <1>6, <1>7, <2>1, <2>2
<1>9. c * (R * e) <= R * T - 3 * (R * A)
  <2>1. R * (c * e) <= R * (T - 3 * A)
    BY <1>2, <1>4, Times
  <2>2. R * (c * e) = c * (R * e) /\ R * (T - 3 * A) = R * T - 3 * (R * A)
    BY <1>2
  <2> QED
    BY <2>1, <2>2
<1>10. (2 * N + 7) * T + A <= R * A
  <2>1. (2 * N + 7) * T <= (2 * N + 7) * ((N + 2) * A)
    BY <1>2, <1>4, Times
  <2>2. (2 * N + 7) * ((N + 2) * A) + A = (2 * (N * N) + 11 * N + 15) * A
    BY <1>2
  <2>3. 2 * (N + 3) * (N + 3) = 2 * (N * N) + 12 * N + 18 /\ N * N \in Nat
    BY <1>2
  <2>4. 2 * (N * N) + 11 * N + 15 <= R
    BY <1>2, <1>3, <2>3
  <2>5. (2 * (N * N) + 11 * N + 15) * A <= R * A
    BY <1>2, <2>3, <2>4, ProductGrows
  <2>6. /\ (2 * N + 7) * T \in Int /\ (2 * N + 7) * ((N + 2) * A) \in Int
        /\ (2 * (N * N) + 11 * N + 15) * A \in Int /\ R * A \in Int
    BY <1>2
  <2> QED
    BY <2>1, <2>2, <2>5, <2>6
<1>11. c * (R * e + g) <= c * T
  <2>1. c * (R * e + g) = c * (R * e) + c * g
    BY <1>2
  <2>2. c * T = R * T - 2 * (N * T) /\ (2 * N + 7) * T = 2 * (N * T) + 7 * T
    BY <1>2
  <2>3. /\ c * (R * e) \in Int /\ c * g \in Int /\ R * T \in Int /\ R * A \in Int
        /\ N * T \in Int
    BY <1>2
  <2> QED
    BY <1>8, <1>9, <1>10, <2>1, <2>2, <2>3
<1>12. R * e + g <= T
  BY <1>2, <1>11, Cancel
<1>13. R * (e + r1 + r2 + r3 + d1 + d2) <= T
  <2>1. R * (e + r1 + r2 + r3 + d1 + d2) \in Int /\ R * e \in Int
    BY <1>2
  <2> QED
    BY <1>2, <1>5, <1>12, <2>1
<1> QED
  BY <1>13 DEF R

(* The lower bounds that combine makes of a sum of sure values, l, and of  *)
(* uncertain ones, o: no rounding takes them above what they stand for.    *)
LEMMA WideEnough ==
  ASSUME NEW e \in Nat, NEW A \in Nat, NEW T \in Nat, NEW l \in Int, NEW o \in Int,
         NEW l1 \in Int, NEW o1 \in Int,
         RoundOff * Abs(l1 - l) <= Abs(l), RoundOff * Abs(o1 - o) <= Abs(o),
         NEW products \in Rounded(T \div RoundOff), NEW wide \in Rounded(products),
         NEW y \in Sums(l1, -wide)
  PROVE  /\ (RoundOff - 2 * ReadValues) * e <= T - 3 * A
         /\ (RoundOff - 2 * ReadValues) * (Abs(l) + Abs(o)) <= RoundOff * A
         /\ T <= (ReadValues + 2) * A
         => y \in Int /\ y <= l - e /\ y + o1 <= l + o - e
<1>1. SUFFICES ASSUME (RoundOff - 2 * ReadValues) * e <= T - 3 * A,
                      (RoundOff - 2 * ReadValues) * (Abs(l) + Abs(o)) <= RoundOff * A,
                      T <= (ReadValues + 2) * A
               PROVE  y \in Int /\ y <= l - e /\ y + o1 <= l + o - e
  OBVIOUS
<1> DEFINE W == T \div RoundOff
           h == Abs(l) + Abs(o)
           r1 == Abs(l1 - l)
           r3 == Abs(o1 - o)
           r2 == Abs(y - (l1 + -wide))
           d1 == Abs(products - W)
           d2 == Abs(wide - products)
<1>2. W \in Nat /\ RoundOff * W <= T
  BY SizeFacts, Quotient
<1>3. products \in Int /\ RoundOff * d1 <= Abs(W)
  BY <1>2, RoundedIs
<1>4. wide \in Int /\ RoundOff * d2 <= Abs(products)
  BY <1>3, RoundedIs
<1>5. y \in Int /\ RoundOff * r2 <= Abs(l1 + -wide)
  BY <1>4, SumsIs
<1>6. /\ h \in Nat /\ Abs(l) \in Nat /\ Abs(o) \in Nat
      /\ r1 \in Nat /\ r2 \in Nat /\ r3 \in Nat /\ d1 \in Nat /\ d2 \in Nat
  <2>1. /\ l1 - l \in Int /\ o1 - o \in Int /\ y - (l1 + -wide) \in Int
        /\ products - W \in Int /\ wide - products \in Int
    BY <1>2, <1>3, <1>4, <1>5
  <2>2. Abs(l) \in Nat /\ Abs(o) \in Nat
    BY AbsIs
  <2> QED
    BY <2>1, <2>2, AbsIs
<1>7. /\ Abs(W) = W
      /\ Abs(products) <= W + d1 /\ Abs(wide) <= Abs(products) + d2
      /\ Abs(l1 + -wide) <= Abs(l) + r1 + Abs(wide)
  BY <1>2, <1>3, <1>4 DEF Abs
<1>8. /\ l1 - l <= r1 /\ o1 - o <= r3 /\ y - (l1 - wide) <= r2
      /\ W - products <= d1 /\ products - wide <= d2
  BY <1>2, <1>3, <1>4, <1>5 DEF Abs
<1>9. RoundOff * r1 <= Abs(l) /\ RoundOff * r3 <= Abs(o)
  BY Zenon
<1>10. /\ Abs(W) \in Int /\ Abs(products) \in Int /\ Abs(wide) \in Int
       /\ Abs(l1 + -wide) \in Int
  <2>1. l1 + -wide \in Int
    BY <1>4
  <2> QED
    BY <1>2, <1>3, <1>4, <2>1, AbsIs
<1>11. h = Abs(l) + Abs(o)
  OBVIOUS
<1> HIDE DEF W, h, r1, r2, r3, d1, d2
<1>12. RoundOff * (r1 + r3) <= h
  <2>1. RoundOff * (r1 + r3) = RoundOff * r1 + RoundOff * r3
    BY <1>6, SizeFacts
  <2>2. RoundOff * r1 \in Int /\ RoundOff * r3 \in Int
    BY <1>6, SizeFacts
  <2> QED
    BY <1>6, <1>9, <1>11, <2>1, <2>2
<1>13. d1 <= W /\ RoundOff * d1 <= W
  <2>1. d1 <= RoundOff * d1 /\ RoundOff * d1 \in Int
    <3>1. 1 <= RoundOff /\ 1 * d1 = d1
      BY <1>6, SizeFacts
    <3>2. 1 * d1 <= RoundOff * d1
      BY <1>6, <3>1, SizeFacts, ProductGrows
    <3> QED
      BY <1>6, <3>1, <3>2, SizeFacts
  <2> QED
    BY <1>2, <1>3, <1>6, <1>7, <2>1
<1>14. d2 <= 2 * W /\ RoundOff * d2 <= 2 * W
  <2>1. d2 <= RoundOff * d2 /\ RoundOff * d2 \in Int
    <3>1. 1 <= RoundOff /\ 1 * d2 = d2
      BY <1>6, SizeFacts
    <3>2. 1 * d2 <= RoundOff * d2
      BY <1>6, <3>1, SizeFacts, ProductGrows
    <3> QED
      BY <1>6, <3>1, <3>2, SizeFacts
  <2> QED
    BY <1>2, <1>4, <1>6, <1>7, <1>10, <1>13, <2>1
<1>15. RoundOff * (d1 + d2) <= 3 * W
  <2>1. RoundOff * (d1 + d2) = RoundOff * d1 + RoundOff * d2
    BY <1>6, SizeFacts
  <2>2. RoundOff * d1 \in Int /\ RoundOff * d2 \in Int
    BY <1>6, SizeFacts
  <2> QED
    BY <1>2, <1>13, <1>14, <2>1, <2>2
<1>16. RoundOff * r2 <= h + r1 + 4 * W
  <2>1. RoundOff * r2 \in Int
    BY <1>6, SizeFacts
  <2> QED
    BY <2>1, <1>2, <1>5, <1>6, <1>7, <1>10, <1>11, <1>13, <1>14
<1>17. (RoundOff - 2 * ReadValues) * h <= RoundOff * A
  BY <1>1, <1>11, Zenon
<1> DEFINE all == e + r1 + r2 + r3 + d1 + d2
<1>18. RoundOff * all <= T
  BY <1>1, <1>2, <1>6, <1>12, <1>15, <1>16, <1>17, SlackCovers
<1>19. all \in Int
  BY <1>6
<1>20. all <= W
  <2> HIDE DEF all
  <2>1. all <= T \div RoundOff
    BY <1>18, <1>19, SizeFacts, QuotientBounds
  <2> QED
    BY <2>1 DEF W
<1> QED
  BY <1>2, <1>3, <1>4, <1>5, <1>6, <1>8, <1>20

-----------------------------------------------------------------------------
(* The invariant *)

AccType ==
  [abs_total : Nat, rec_count : Nat,
   sure_count : Nat, sure_sum_lo : Int, sure_sum_hi : Int,
   maybe_count : Nat, maybe_sum_neg : Int, maybe_sum_pos : Int,
   maybe_min : Int, maybe_max : Int]

PartType == [acc : AccType, size : 1 .. ReadBlocks]

(* The totals that are added up. *)
Counts == {"abs_total", "rec_count", "sure_count", "maybe_count"}
Summed == {"sure_sum_lo", "sure_sum_hi", "maybe_sum_neg", "maybe_sum_pos"}

AggregateType ==
  /\ lo \in LowBounds /\ hi \in HighBounds
  /\ block \in {None} \cup [eps : Errors, in_block : BOOLEAN, seen : 0 .. ValuesPerBlock]
  /\ acc \in AccType
  /\ size \in 0 .. ReadBlocks
  /\ block # None => size # 0
  /\ parts \in Seq(PartType)
  /\ truth \in [count : Nat, sum : Int]

(* Values of the current read. *)
Added == IF block = None THEN size * ValuesPerBlock ELSE (size - 1) * ValuesPerBlock + block.seen

(* Totals and errors of all reads, the current one included. *)
All(f) == Total(f) + acc[f]
PartErr == [k \in DOMAIN parts |-> Err(parts[k].size * ValuesPerBlock, parts[k].acc.abs_total)]
AllErr == SumFunction(PartErr) + Err(Added, acc.abs_total)

(* No sum is too large for its slack. *)
Fits(t, a) ==
  /\ Bounded(t, a.sure_sum_lo, a.maybe_sum_neg, a.abs_total)
  /\ Bounded(t, a.sure_sum_hi, a.maybe_sum_pos, a.abs_total)

SumsFit ==
  /\ Fits(Added, acc)
  /\ \A k \in DOMAIN parts : Fits(parts[k].size * ValuesPerBlock, parts[k].acc)

(* The decoded values that match are counted between the sure ones and all. *)
DecodedBetween ==
  /\ All("sure_count") <= All("rec_count")
  /\ All("rec_count") <= All("sure_count") + All("maybe_count")

SumBetween ==
  /\ All("sure_sum_lo") + All("maybe_sum_neg") - AllErr <= truth.sum
  /\ truth.sum <= All("sure_sum_hi") + All("maybe_sum_pos") + AllErr

(* Values that match and are not sure. *)
Others == truth.count - All("sure_count")

(* The sum, when none of the others is below x or above y. *)
BelowOthers(x) == x <= acc.maybe_min /\ \A k \in DOMAIN parts : x <= parts[k].acc.maybe_min
AboveOthers(y) == acc.maybe_max <= y /\ \A k \in DOMAIN parts : parts[k].acc.maybe_max <= y

OthersBetween ==
  /\ \A x \in Int : BelowOthers(x) =>
       /\ All("sure_sum_lo") - AllErr + Others * x <= truth.sum
       /\ All("sure_count") = 0 => Others * x <= truth.sum
  /\ \A y \in Int : AboveOthers(y) =>
       /\ truth.sum <= All("sure_sum_hi") + AllErr + Others * y
       /\ All("sure_count") = 0 => truth.sum <= Others * y

AnswerStays == answer # None => block = None /\ size = 0

NothingYet == size = 0 => acc = Empty

BoundsInv ==
  /\ AggregateType /\ NothingYet /\ SumsFit
  /\ CountEnclosed /\ DecodedBetween /\ SumBetween /\ OthersBetween
  /\ AnswerStays /\ DecodedInside /\ SumEnclosed /\ MeanEnclosed

-----------------------------------------------------------------------------
(* Totals *)

LEMMA PartsAre ==
  ASSUME AggregateType
  PROVE  /\ Len(parts) \in Nat /\ DOMAIN parts = 1 .. Len(parts)
         /\ IsFiniteSet(DOMAIN parts)
         /\ \A k \in DOMAIN parts : parts[k] \in PartType
<1>1. parts \in Seq(PartType)
  BY DEF AggregateType
<1>2. Len(parts) \in Nat /\ DOMAIN parts = 1 .. Len(parts)
  BY <1>1
<1>3. IsFiniteSet(1 .. Len(parts))
  BY <1>2, FS_Interval
<1> QED
  BY <1>1, <1>2, <1>3

(* The fields of the totals by their kinds. *)
LEMMA FieldIs ==
  ASSUME NEW a \in AccType
  PROVE  /\ \A f \in Counts : a[f] \in Nat
         /\ \A f \in Summed : a[f] \in Int
         /\ a.abs_total = a["abs_total"] /\ a.sure_count = a["sure_count"]
         /\ a.sure_sum_lo = a["sure_sum_lo"]
  BY DEF AccType, Counts, Summed

(* The total of a field over all reads that are done. *)
LEMMA TotalIs ==
  ASSUME AggregateType
  PROVE  /\ \A f \in Counts : Total(f) \in Nat
         /\ \A f \in Summed : Total(f) \in Int
<1>1. ASSUME NEW f PROVE Total(f) = SumOf([k \in DOMAIN parts |-> parts[k].acc[f]], DOMAIN parts)
  BY DEF Total, SumFunction, SumOf
<1>2. \A k \in DOMAIN parts : parts[k].acc \in AccType
  BY PartsAre DEF PartType
<1>3. ASSUME NEW f \in Counts PROVE Total(f) \in Nat
  <2> DEFINE g == [k \in DOMAIN parts |-> parts[k].acc[f]]
  <2>1. \A k \in DOMAIN parts : g[k] \in Nat
    BY <1>2, <1>3, FieldIs
  <2> HIDE DEF g
  <2>2. SumOf(g, DOMAIN parts) \in Nat
    BY <2>1, PartsAre, NaturalSum
  <2> QED
    BY <1>1, <2>2 DEF g
<1>4. ASSUME NEW f \in Summed PROVE Total(f) \in Int
  <2> DEFINE g == [k \in DOMAIN parts |-> parts[k].acc[f]]
  <2>1. Integers(g, DOMAIN parts)
    BY <1>2, <1>4, FieldIs DEF Integers
  <2> HIDE DEF g
  <2>2. SumOf(g, DOMAIN parts) \in Int
    BY <2>1, PartsAre, SumType
  <2> QED
    BY <1>1, <2>2 DEF g
<1> QED
  BY <1>3, <1>4

(* No read holds more than ReadValues values. *)
LEMMA AddedIs ==
  ASSUME AggregateType
  PROVE  /\ Added \in 0 .. ReadValues
         /\ block # None /\ block.seen < ValuesPerBlock => Added < ReadValues
         /\ \A k \in DOMAIN parts : parts[k].size * ValuesPerBlock \in 1 .. ReadValues
<1>1. ValuesPerBlock \in Nat \ {0} /\ ReadBlocks \in Nat \ {0}
  BY SizesAssumption
<1>2. ASSUME NEW b \in 0 .. ReadBlocks
      PROVE  /\ b * ValuesPerBlock \in 0 .. ReadValues
             /\ b # 0 => /\ (b - 1) * ValuesPerBlock + ValuesPerBlock = b * ValuesPerBlock
                         /\ (b - 1) * ValuesPerBlock \in Nat
  <2>1. b * ValuesPerBlock <= ReadBlocks * ValuesPerBlock
    BY <1>1, ProductGrows
  <2>2. b * ValuesPerBlock \in Nat /\ ReadBlocks * ValuesPerBlock \in Nat
    BY <1>1
  <2>3. b # 0 => /\ (b - 1) * ValuesPerBlock + ValuesPerBlock = b * ValuesPerBlock
                 /\ (b - 1) * ValuesPerBlock \in Nat
    BY <1>1
  <2> QED
    BY <2>1, <2>2, <2>3 DEF ReadValues
<1>3. size \in 0 .. ReadBlocks
  BY DEF AggregateType
<1>4. \A k \in DOMAIN parts : parts[k].size * ValuesPerBlock \in 1 .. ReadValues
  <2> SUFFICES ASSUME NEW k \in DOMAIN parts
               PROVE  parts[k].size * ValuesPerBlock \in 1 .. ReadValues
    OBVIOUS
  <2>1. parts[k].size \in 1 .. ReadBlocks
    BY PartsAre DEF PartType
  <2>2. parts[k].size \in Nat \ {0}
    BY <2>1
  <2>3. parts[k].size * ValuesPerBlock \in Nat \ {0}
    BY <1>1, <2>2, Positive
  <2>4. parts[k].size * ValuesPerBlock \in 0 .. ReadValues
    BY <1>2, <2>1
  <2> QED
    BY <2>3, <2>4, SizeFacts
<1>5. /\ Added \in 0 .. ReadValues
      /\ block # None /\ block.seen < ValuesPerBlock => Added < ReadValues
  <2>1. CASE block = None
    BY <2>1, <1>2, <1>3 DEF Added
  <2>2. CASE block # None
    <3>1. size # 0 /\ block.seen \in 0 .. ValuesPerBlock
      BY <2>2 DEF AggregateType
    <3>2. Added = (size - 1) * ValuesPerBlock + block.seen
      BY <2>2 DEF Added
    <3>3. /\ size * ValuesPerBlock \in 0 .. ReadValues
          /\ (size - 1) * ValuesPerBlock + ValuesPerBlock = size * ValuesPerBlock
          /\ (size - 1) * ValuesPerBlock \in Nat
      BY <1>2, <1>3, <3>1
    <3> QED
      BY <1>1, <3>1, <3>2, <3>3, SizeFacts
  <2> QED
    BY <2>1, <2>2
<1> QED
  BY <1>4, <1>5

-----------------------------------------------------------------------------
(* A value joins the totals *)

Low(r) == Larger(r - block.eps, lo)
High(r) == Smaller(r + block.eps, hi)
Uncertain(r) == ~Sure(r) /\ ~Never(r)

(* What the value r says of the original value x. *)
LEMMA ValueIs ==
  ASSUME AggregateType, block # None, NEW r \in Values, block.in_block => Matches(r),
         NEW x \in Originals(r)
  PROVE  /\ {r, x, lo, hi, Low(r), High(r)} \subseteq Int /\ block.eps \in Nat
         /\ Sure(r) \/ Uncertain(r) => Abs(Low(r)) <= Abs(r) + block.eps
                                     /\ Abs(High(r)) <= Abs(r) + block.eps
         /\ Sure(r) => Matches(x) /\ (block.in_block \/ in_range(r))
         /\ ~Sure(r) /\ ~Uncertain(r) => ~Matches(x) /\ ~(block.in_block \/ in_range(r))
         /\ Matches(x) => Low(r) <= x /\ x <= High(r)
<1>1. r \in Int /\ lo \in Int /\ hi \in Int
  BY ValuesAssumption DEF AggregateType
<1>2. block.eps \in Nat /\ block.in_block \in BOOLEAN
  BY ValuesAssumption DEF AggregateType
<1>3. /\ x \in Int /\ r - block.eps <= x /\ x <= r + block.eps
      /\ block.in_block => Matches(x)
  BY <1>1, <1>2 DEF Originals
<1>4. Low(r) \in Int /\ High(r) \in Int
  BY <1>1, <1>2 DEF Low, High, Larger, Smaller
<1>5. Sure(r) \/ Uncertain(r) => /\ Abs(Low(r)) <= Abs(r) + block.eps
                                 /\ Abs(High(r)) <= Abs(r) + block.eps
  <2>1. CASE block.in_block
    BY <1>1, <1>2, <2>1 DEF Low, High, Larger, Smaller, Abs, Matches
  <2>2. CASE ~block.in_block
    BY <1>1, <1>2, <2>2 DEF Low, High, Larger, Smaller, Abs, Sure, Uncertain, Never
  <2> QED
    BY <1>2, <2>1, <2>2
<1>6. Sure(r) => Matches(x) /\ (block.in_block \/ in_range(r))
  BY <1>1, <1>2, <1>3 DEF Sure, Matches, in_range
<1>7. ~Sure(r) /\ ~Uncertain(r) => ~Matches(x) /\ ~(block.in_block \/ in_range(r))
  BY <1>1, <1>2, <1>3 DEF Sure, Uncertain, Never, Matches, in_range
<1>8. Matches(x) => Low(r) <= x /\ x <= High(r)
  BY <1>1, <1>2, <1>3 DEF Matches, Low, High, Larger, Smaller
<1> QED
  BY <1>1, <1>2, <1>3, <1>4, <1>5, <1>6, <1>7, <1>8

(* The smaller and the larger of two numbers. *)
LEMMA SmallerIs ==
  ASSUME NEW x \in Int, NEW y \in Int
  PROVE  /\ Smaller(x, y) \in Int /\ Smaller(x, y) <= x /\ Smaller(x, y) <= y
         /\ Smaller(x, y) = x \/ Smaller(x, y) = y
         /\ Larger(x, y) \in Int /\ x <= Larger(x, y) /\ y <= Larger(x, y)
         /\ Larger(x, y) = x \/ Larger(x, y) = y
  BY DEF Smaller, Larger

(* What one value adds, whatever it is: s, u, w and q say whether it is    *)
(* sure, uncertain, whether it matches and whether the original does; v is *)
(* what the original adds to the sum, dl and dh, dn and dp what is added   *)
(* for it below and above, if it is sure and if it is uncertain.           *)
Adds(a, dl, dh, dn, dp, v, s, u, w, q) ==
  /\ acc' \in AccType
  /\ acc'.abs_total \in Sums(acc.abs_total, a)
  /\ acc'.sure_sum_lo \in Sums(acc.sure_sum_lo, dl)
  /\ acc'.sure_sum_hi \in Sums(acc.sure_sum_hi, dh)
  /\ acc'.maybe_sum_neg \in Sums(acc.maybe_sum_neg, dn)
  /\ acc'.maybe_sum_pos \in Sums(acc.maybe_sum_pos, dp)
  /\ acc'.rec_count = acc.rec_count + w
  /\ acc'.sure_count = acc.sure_count + s
  /\ acc'.maybe_count = acc.maybe_count + u
  /\ truth' = [count |-> truth.count + q, sum |-> truth.sum + v]
  /\ Abs(dl) + Abs(dn) <= a /\ Abs(dh) + Abs(dp) <= a
  /\ dl + dn <= v /\ v <= dh + dp
  /\ s <= q /\ q <= s + u /\ s <= w /\ w <= s + u
  /\ s = 0 => dl = 0 /\ dh = 0
  /\ acc'.maybe_min \in Int /\ acc'.maybe_min <= acc.maybe_min
  /\ acc'.maybe_max \in Int /\ acc.maybe_max <= acc'.maybe_max
  /\ q - s = 1 => dl + acc'.maybe_min <= v /\ v <= dh + acc'.maybe_max
  /\ q - s = 0 => dl <= v /\ v <= dh

(* Whatever aggregate_block does with a value, it is one of these. *)
LEMMA ValueAdds ==
  ASSUME AggregateType, NEW r \in Values, AddValue(r)
  PROVE  \E a \in Nat : \E dl, dh, dn, dp, v \in Int : \E s, u, w, q \in 0 .. 1 :
           Adds(a, dl, dh, dn, dp, v, s, u, w, q)
<1>1. block # None /\ (block.in_block => Matches(r)) /\ Add(r)
  BY DEF AddValue
<1>2. PICK x \in Originals(r) :
        truth' = IF Matches(x) THEN [count |-> truth.count + 1, sum |-> truth.sum + x] ELSE truth
  BY DEF AddValue
<1> DEFINE low == Low(r)
           high == High(r)
           sure == Sure(r)
           maybe == Uncertain(r)
           matches == block.in_block \/ in_range(r)
           a == Abs(r) + block.eps
           dl == IF sure THEN low ELSE 0
           dh == IF sure THEN high ELSE 0
           dn == IF maybe THEN Smaller(low, 0) ELSE 0
           dp == IF maybe THEN Larger(high, 0) ELSE 0
           v == IF Matches(x) THEN x ELSE 0
           s == IF sure THEN 1 ELSE 0
           u == IF maybe THEN 1 ELSE 0
           w == IF matches THEN 1 ELSE 0
           q == IF Matches(x) THEN 1 ELSE 0
<1>3. /\ {r, x, lo, hi, low, high} \subseteq Int /\ block.eps \in Nat
      /\ sure \/ maybe => Abs(low) <= a /\ Abs(high) <= a
      /\ sure => Matches(x) /\ matches
      /\ ~sure /\ ~maybe => ~Matches(x) /\ ~matches
      /\ Matches(x) => low <= x /\ x <= high
  BY <1>1, ValueIs
<1>4. ~(sure /\ maybe)
  BY DEF Uncertain
<1>5. acc \in AccType /\ truth \in [count : Nat, sum : Int]
  BY DEF AggregateType
<1>6. Abs(r) \in Nat
  BY <1>3, AbsIs
<1>7. PICK ab \in Sums(acc.abs_total, a),
           sureLo \in (IF sure THEN Sums(acc.sure_sum_lo, low) ELSE {acc.sure_sum_lo}),
           sureHi \in (IF sure THEN Sums(acc.sure_sum_hi, high) ELSE {acc.sure_sum_hi}),
           neg \in (IF maybe THEN Sums(acc.maybe_sum_neg, Smaller(low, 0))
                    ELSE {acc.maybe_sum_neg}),
           pos \in (IF maybe THEN Sums(acc.maybe_sum_pos, Larger(high, 0))
                    ELSE {acc.maybe_sum_pos}) :
        acc' = [abs_total |-> ab,
                rec_count |-> acc.rec_count + (IF matches THEN 1 ELSE 0),
                sure_count |-> acc.sure_count + (IF sure THEN 1 ELSE 0),
                sure_sum_lo |-> sureLo,
                sure_sum_hi |-> sureHi,
                maybe_count |-> acc.maybe_count + (IF maybe THEN 1 ELSE 0),
                maybe_sum_neg |-> neg,
                maybe_sum_pos |-> pos,
                maybe_min |-> IF maybe THEN Smaller(acc.maybe_min, low) ELSE acc.maybe_min,
                maybe_max |-> IF maybe THEN Larger(acc.maybe_max, high) ELSE acc.maybe_max]
  BY <1>1, Zenon DEF Add, Low, High, Uncertain
<1>8. /\ acc.sure_sum_lo \in Int /\ acc.sure_sum_hi \in Int
      /\ acc.maybe_sum_neg \in Int /\ acc.maybe_sum_pos \in Int
      /\ acc.maybe_min \in Int /\ acc.maybe_max \in Int
  BY <1>5 DEF AccType
<1>9. ASSUME NEW y \in Int PROVE Sums(y, 0) = {y}
  BY DEF Sums
<1>10. /\ acc'.abs_total = ab /\ acc'.sure_sum_lo = sureLo /\ acc'.sure_sum_hi = sureHi
       /\ acc'.maybe_sum_neg = neg /\ acc'.maybe_sum_pos = pos
       /\ acc'.rec_count = acc.rec_count + w /\ acc'.sure_count = acc.sure_count + s
       /\ acc'.maybe_count = acc.maybe_count + u
       /\ acc'.maybe_min = IF maybe THEN Smaller(acc.maybe_min, low) ELSE acc.maybe_min
       /\ acc'.maybe_max = IF maybe THEN Larger(acc.maybe_max, high) ELSE acc.maybe_max
  BY <1>7
<1> HIDE DEF low, high, sure, maybe, matches
<1>11. low \in Int /\ high \in Int /\ x \in Int
  BY <1>3
<1>12. /\ Smaller(low, 0) \in Int /\ Smaller(low, 0) <= low /\ Smaller(low, 0) <= 0
       /\ Larger(high, 0) \in Int /\ high <= Larger(high, 0) /\ 0 <= Larger(high, 0)
  BY <1>11, SmallerIs
<1>13. /\ a \in Nat /\ dl \in Int /\ dh \in Int /\ dn \in Int /\ dp \in Int /\ v \in Int
       /\ s \in 0 .. 1 /\ u \in 0 .. 1 /\ w \in 0 .. 1 /\ q \in 0 .. 1
  <2>1. a \in Nat
    BY <1>3, <1>6
  <2> QED
    BY <1>11, <1>12, <2>1
<1>14. /\ acc'.abs_total \in Sums(acc.abs_total, a)
       /\ acc'.sure_sum_lo \in Sums(acc.sure_sum_lo, dl)
       /\ acc'.sure_sum_hi \in Sums(acc.sure_sum_hi, dh)
       /\ acc'.maybe_sum_neg \in Sums(acc.maybe_sum_neg, dn)
       /\ acc'.maybe_sum_pos \in Sums(acc.maybe_sum_pos, dp)
  <2> HIDE DEF a
  <2>1. acc'.sure_sum_lo \in Sums(acc.sure_sum_lo, dl)
    BY <1>7, <1>8, <1>9, <1>10
  <2>2. acc'.sure_sum_hi \in Sums(acc.sure_sum_hi, dh)
    BY <1>7, <1>8, <1>9, <1>10
  <2>3. acc'.maybe_sum_neg \in Sums(acc.maybe_sum_neg, dn)
    BY <1>7, <1>8, <1>9, <1>10
  <2>4. acc'.maybe_sum_pos \in Sums(acc.maybe_sum_pos, dp)
    BY <1>7, <1>8, <1>9, <1>10
  <2> QED
    BY <1>7, <1>10, <2>1, <2>2, <2>3, <2>4
<1>15. truth' = [count |-> truth.count + q, sum |-> truth.sum + v]
  <2>1. CASE Matches(x)
    BY <1>2, <2>1
  <2>2. CASE ~Matches(x)
    <3>1. truth.count + q = truth.count /\ truth.sum + v = truth.sum
      BY <1>5, <2>2
    <3>2. truth = [count |-> truth.count, sum |-> truth.sum]
      BY <1>5
    <3> QED
      BY <1>2, <2>2, <3>1, <3>2
  <2> QED
    BY <2>1, <2>2
<1>16. Abs(0) = 0
  BY DEF Abs
<1>17. /\ Abs(dl) + Abs(dn) <= a /\ Abs(dh) + Abs(dp) <= a
  <2>1. /\ Abs(low) \in Nat /\ Abs(high) \in Nat
    BY <1>3, AbsIs
  <2>2. Abs(Smaller(low, 0)) <= Abs(low) /\ Abs(Larger(high, 0)) <= Abs(high)
    BY <1>3 DEF Smaller, Larger, Abs
  <2>3. Abs(Smaller(low, 0)) \in Nat /\ Abs(Larger(high, 0)) \in Nat
    BY <1>12, AbsIs
  <2>4. CASE sure
    BY <1>3, <1>4, <1>13, <1>16, <2>1, <2>4
  <2>5. CASE maybe
    BY <1>3, <1>4, <1>13, <1>16, <2>1, <2>2, <2>3, <2>5
  <2>6. CASE ~sure /\ ~maybe
    BY <1>3, <1>13, <1>16, <2>6
  <2> QED
    BY <2>4, <2>5, <2>6
<1>18. /\ dl + dn <= v /\ v <= dh + dp
       /\ s <= q /\ q <= s + u /\ s <= w /\ w <= s + u
       /\ s = 0 => dl = 0 /\ dh = 0
       /\ q - s = 0 => dl <= v /\ v <= dh
  <2>1. CASE sure
    BY <1>3, <1>4, <1>11, <1>12, <2>1
  <2>2. CASE maybe
    BY <1>3, <1>4, <1>11, <1>12, <2>2
  <2>3. CASE ~sure /\ ~maybe
    BY <1>3, <2>3
  <2> QED
    BY <2>1, <2>2, <2>3
<1>19. /\ acc'.maybe_min \in Int /\ acc'.maybe_min <= acc.maybe_min
       /\ acc'.maybe_max \in Int /\ acc.maybe_max <= acc'.maybe_max
       /\ q - s = 1 => dl + acc'.maybe_min <= v /\ v <= dh + acc'.maybe_max
  <2>1. /\ Smaller(acc.maybe_min, low) \in Int /\ Smaller(acc.maybe_min, low) <= low
        /\ Smaller(acc.maybe_min, low) <= acc.maybe_min
        /\ Larger(acc.maybe_max, high) \in Int /\ high <= Larger(acc.maybe_max, high)
        /\ acc.maybe_max <= Larger(acc.maybe_max, high)
    BY <1>8, <1>11, SmallerIs
  <2>2. q - s = 1 => maybe /\ ~sure /\ Matches(x)
    BY <1>3, <1>4
  <2> QED
    BY <1>3, <1>8, <1>10, <1>11, <2>1, <2>2
<1>20. acc' \in AccType
  <2>1. /\ sureLo \in Int /\ sureHi \in Int /\ neg \in Int /\ pos \in Int
    BY <1>8, <1>10, <1>13, <1>14, SumsIs
  <2>2. ab \in Nat
    <3>1. acc.abs_total \in Nat
      BY <1>5 DEF AccType
    <3> QED
      BY <1>13, <3>1, AbsTotalGrows
  <2>3. /\ acc.rec_count + w \in Nat /\ acc.sure_count + s \in Nat
        /\ acc.maybe_count + u \in Nat
    BY <1>5, <1>13 DEF AccType
  <2> HIDE DEF a, dl, dh, dn, dp, v
  <2>4. acc' = [abs_total |-> ab, rec_count |-> acc.rec_count + w,
                sure_count |-> acc.sure_count + s,
                sure_sum_lo |-> sureLo, sure_sum_hi |-> sureHi,
                maybe_count |-> acc.maybe_count + u,
                maybe_sum_neg |-> neg, maybe_sum_pos |-> pos,
                maybe_min |-> acc'.maybe_min, maybe_max |-> acc'.maybe_max]
    BY <1>7, <1>10, Zenon
  <2> HIDE DEF s, u, w, q
  <2> QED
    BY <1>19, <2>1, <2>2, <2>3, <2>4 DEF AccType
<1> HIDE DEF a, dl, dh, dn, dp, v, s, u, w, q
<1>21. Adds(a, dl, dh, dn, dp, v, s, u, w, q)
  BY <1>10, <1>14, <1>15, <1>17, <1>18, <1>19, <1>20, Zenon DEF Adds
<1> QED
  BY <1>13, <1>21

(* A block record is not None. *)
LEMMA BlockIsNone ==
  ASSUME NEW b \in [eps : Errors, in_block : BOOLEAN, seen : 0 .. ValuesPerBlock]
  PROVE  b # None
<1>1. DOMAIN b = {"eps", "in_block", "seen"} /\ DOMAIN None = {"kind"}
  BY DEF None
<1> QED
  BY <1>1

(* A block's next value. *)
LEMMA NextValue ==
  ASSUME NEW b \in [eps : Errors, in_block : BOOLEAN, seen : 0 .. ValuesPerBlock],
         b.seen < ValuesPerBlock
  PROVE  /\ [b EXCEPT !.seen = @ + 1] \in
              [eps : Errors, in_block : BOOLEAN, seen : 0 .. ValuesPerBlock]
         /\ [b EXCEPT !.seen = @ + 1].seen = b.seen + 1
  BY SizesAssumption

(* Totals of the reads that are done do not depend on the current one. *)
LEMMA TotalStays ==
  ASSUME parts' = parts
  PROVE  /\ \A f : Total(f)' = Total(f)
         /\ SumFunction(PartErr)' = SumFunction(PartErr)
<1>1. PartErr' = PartErr
  BY DEF PartErr
<1> QED
  BY <1>1 DEF Total

(* The errors of the reads that are done. *)
LEMMA PartErrIs ==
  ASSUME AggregateType
  PROVE  SumFunction(PartErr) \in Nat
<1>1. SumFunction(PartErr) = SumOf(PartErr, DOMAIN parts)
  BY DEF SumFunction, SumOf, PartErr
<1>2. ASSUME NEW k \in DOMAIN parts PROVE PartErr[k] \in Nat
  <2>1. parts[k].size * ValuesPerBlock \in 0 .. ReadValues
    BY AddedIs
  <2>2. parts[k].acc.abs_total \in Nat
    BY PartsAre DEF PartType, AccType
  <2>3. Err(parts[k].size * ValuesPerBlock, parts[k].acc.abs_total) \in Nat
    BY <2>1, <2>2, ErrIs
  <2> QED
    BY <2>3 DEF PartErr
<1> QED
  BY <1>1, <1>2, PartsAre, NaturalSum

(* AddValue keeps the invariant. *)
LEMMA AddValueStep ==
  ASSUME BoundsInv, NEW r \in Values, AddValue(r)
  PROVE  BoundsInv'
<1>1. AggregateType
  BY DEF BoundsInv
<1>2. PICK a \in Nat, dl \in Int, dh \in Int, dn \in Int, dp \in Int, v \in Int,
           s \in 0 .. 1, u \in 0 .. 1, w \in 0 .. 1, q \in 0 .. 1 :
        Adds(a, dl, dh, dn, dp, v, s, u, w, q)
  BY <1>1, ValueAdds
<1>3. /\ block # None /\ block.seen < ValuesPerBlock
      /\ block' = [block EXCEPT !.seen = @ + 1]
      /\ UNCHANGED <<lo, hi, size, parts, answer>>
  BY DEF AddValue
<1>4. block \in [eps : Errors, in_block : BOOLEAN, seen : 0 .. ValuesPerBlock] /\ size # 0
  BY <1>1, <1>3 DEF AggregateType
<1>5. /\ block' \in [eps : Errors, in_block : BOOLEAN, seen : 0 .. ValuesPerBlock]
      /\ block'.seen = block.seen + 1
  BY <1>3, <1>4, NextValue
<1>6. block' # None
  BY <1>5, BlockIsNone
<1>7. acc' \in AccType /\ acc \in AccType
  BY <1>1, <1>2 DEF Adds, AggregateType
<1>8. truth \in [count : Nat, sum : Int] /\ truth' \in [count : Nat, sum : Int]
  <2>1. truth \in [count : Nat, sum : Int]
    BY <1>1 DEF AggregateType
  <2>2. truth' = [count |-> truth.count + q, sum |-> truth.sum + v]
    BY <1>2, Zenon DEF Adds
  <2>3. truth.count + q \in Nat /\ truth.sum + v \in Int
    BY <2>1
  <2> QED
    BY <2>1, <2>2, <2>3
<1>9. AggregateType'
  BY <1>1, <1>3, <1>4, <1>5, <1>7, <1>8 DEF AggregateType
<1>10. answer = None /\ answer' = None
  BY <1>3, <1>4 DEF BoundsInv, AnswerStays
<1>11. AnswerStays' /\ DecodedInside' /\ SumEnclosed' /\ MeanEnclosed' /\ NothingYet'
  BY <1>3, <1>4, <1>10 DEF AnswerStays, DecodedInside, SumEnclosed, MeanEnclosed, NothingYet
<1> DEFINE t == Added
<1>12. Added' = t + 1 /\ t \in 0 .. ReadValues - 1
  <2>1. ValuesPerBlock \in Nat /\ size \in Nat
    BY <1>1, SizesAssumption DEF AggregateType
  <2>2. (size - 1) * ValuesPerBlock \in Int /\ block.seen \in Int
    BY <1>4, <2>1
  <2>3. Added = (size - 1) * ValuesPerBlock + block.seen
    BY <1>3 DEF Added
  <2>4. Added' = (size - 1) * ValuesPerBlock + (block.seen + 1)
    BY <1>3, <1>5, <1>6 DEF Added
  <2>5. Added \in 0 .. ReadValues - 1
    BY <1>1, <1>3, AddedIs, SizeFacts
  <2> QED
    BY <2>2, <2>3, <2>4, <2>5
<1> HIDE DEF t
<1>13. Bounded(t, acc.sure_sum_lo, acc.maybe_sum_neg, acc.abs_total)
  BY DEF BoundsInv, SumsFit, Fits, t
<1>14. Bounded(t, acc.sure_sum_hi, acc.maybe_sum_pos, acc.abs_total)
  BY DEF BoundsInv, SumsFit, Fits, t
<1>15. /\ acc.abs_total \in Nat /\ acc.sure_sum_lo \in Int /\ acc.sure_sum_hi \in Int
       /\ acc.maybe_sum_neg \in Int /\ acc.maybe_sum_pos \in Int
       /\ acc'.abs_total \in Nat /\ acc'.sure_sum_lo \in Int /\ acc'.sure_sum_hi \in Int
       /\ acc'.maybe_sum_neg \in Int /\ acc'.maybe_sum_pos \in Int
       /\ acc.sure_count \in Nat /\ acc.maybe_count \in Nat /\ acc.rec_count \in Nat
       /\ acc.maybe_min \in Int /\ acc.maybe_max \in Int
       /\ acc'.maybe_min \in Int /\ acc'.maybe_max \in Int
  BY <1>7 DEF AccType
<1> DEFINE more == Err(t + 1, acc'.abs_total) - Err(t, acc.abs_total)
<1>16. /\ acc'.abs_total \in Sums(acc.abs_total, a)
       /\ acc'.sure_sum_lo \in Sums(acc.sure_sum_lo, dl)
       /\ acc'.sure_sum_hi \in Sums(acc.sure_sum_hi, dh)
       /\ acc'.maybe_sum_neg \in Sums(acc.maybe_sum_neg, dn)
       /\ acc'.maybe_sum_pos \in Sums(acc.maybe_sum_pos, dp)
       /\ Abs(dl) + Abs(dn) <= a /\ Abs(dh) + Abs(dp) <= a
  BY <1>2, Zenon DEF Adds
<1>17. /\ Bounded(t + 1, acc'.sure_sum_lo, acc'.maybe_sum_neg, acc'.abs_total)
       /\ Abs(acc'.sure_sum_lo - (acc.sure_sum_lo + dl)) <= more
       /\ Abs((acc'.sure_sum_lo + acc'.maybe_sum_neg)
              - (acc.sure_sum_lo + acc.maybe_sum_neg + dl + dn)) <= more
  BY <1>12, <1>13, <1>15, <1>16, PairStep
<1>18. /\ Bounded(t + 1, acc'.sure_sum_hi, acc'.maybe_sum_pos, acc'.abs_total)
       /\ Abs(acc'.sure_sum_hi - (acc.sure_sum_hi + dh)) <= more
       /\ Abs((acc'.sure_sum_hi + acc'.maybe_sum_pos)
              - (acc.sure_sum_hi + acc.maybe_sum_pos + dh + dp)) <= more
  BY <1>12, <1>14, <1>15, <1>16, PairStep
<1>19. SumsFit'
  <2>1. \A k \in DOMAIN parts : Fits(parts[k].size * ValuesPerBlock, parts[k].acc)
    BY DEF BoundsInv, SumsFit
  <2>2. \A k \in DOMAIN parts' : Fits(parts'[k].size * ValuesPerBlock, parts'[k].acc)
    BY <1>3, <2>1
  <2>3. Fits(Added', acc')
    BY <1>12, <1>17, <1>18 DEF Fits
  <2> QED
    BY <2>2, <2>3 DEF SumsFit
<1>20. /\ Total("sure_sum_lo") \in Int /\ Total("sure_sum_hi") \in Int
       /\ Total("maybe_sum_neg") \in Int /\ Total("maybe_sum_pos") \in Int
       /\ Total("sure_count") \in Nat /\ Total("maybe_count") \in Nat /\ Total("rec_count") \in Nat
  BY <1>1, TotalIs DEF Counts, Summed
<1>21. /\ All("sure_sum_lo") = Total("sure_sum_lo") + acc.sure_sum_lo
       /\ All("sure_sum_hi") = Total("sure_sum_hi") + acc.sure_sum_hi
       /\ All("maybe_sum_neg") = Total("maybe_sum_neg") + acc.maybe_sum_neg
       /\ All("maybe_sum_pos") = Total("maybe_sum_pos") + acc.maybe_sum_pos
       /\ All("sure_count") = Total("sure_count") + acc.sure_count
       /\ All("maybe_count") = Total("maybe_count") + acc.maybe_count
       /\ All("rec_count") = Total("rec_count") + acc.rec_count
  BY DEF All
<1>22. /\ All("sure_sum_lo")' = Total("sure_sum_lo") + acc'.sure_sum_lo
       /\ All("sure_sum_hi")' = Total("sure_sum_hi") + acc'.sure_sum_hi
       /\ All("maybe_sum_neg")' = Total("maybe_sum_neg") + acc'.maybe_sum_neg
       /\ All("maybe_sum_pos")' = Total("maybe_sum_pos") + acc'.maybe_sum_pos
       /\ All("sure_count")' = Total("sure_count") + acc'.sure_count
       /\ All("maybe_count")' = Total("maybe_count") + acc'.maybe_count
       /\ All("rec_count")' = Total("rec_count") + acc'.rec_count
  BY <1>3, TotalStays DEF All
<1>23. /\ truth'.count = truth.count + q /\ truth'.sum = truth.sum + v
       /\ truth.count \in Nat /\ truth.sum \in Int
       /\ acc'.rec_count = acc.rec_count + w /\ acc'.sure_count = acc.sure_count + s
       /\ acc'.maybe_count = acc.maybe_count + u
       /\ s <= q /\ q <= s + u /\ s <= w /\ w <= s + u
       /\ dl + dn <= v /\ v <= dh + dp
       /\ s = 0 => dl = 0 /\ dh = 0
       /\ acc'.maybe_min <= acc.maybe_min /\ acc.maybe_max <= acc'.maybe_max
       /\ q - s = 1 => dl + acc'.maybe_min <= v /\ v <= dh + acc'.maybe_max
       /\ q - s = 0 => dl <= v /\ v <= dh
  <2>1. truth' = [count |-> truth.count + q, sum |-> truth.sum + v]
    BY <1>2, Zenon DEF Adds
  <2>2. truth'.count = truth.count + q /\ truth'.sum = truth.sum + v
    BY <2>1
  <2>3. truth.count \in Nat /\ truth.sum \in Int
    BY <1>8
  <2> QED
    BY <1>2, <2>2, <2>3, Zenon DEF Adds
<1> DEFINE pe == SumFunction(PartErr)
           err == Err(t, acc.abs_total)
           err1 == Err(t + 1, acc'.abs_total)
<1>24. AllErr = pe + err /\ AllErr' = pe + err1 /\ more = err1 - err
  BY <1>3, <1>12, TotalStays DEF AllErr, t
<1>25. pe \in Nat /\ err \in Nat /\ err1 \in Nat
  <2>1. t \in 0 .. ReadValues /\ t + 1 \in 0 .. ReadValues
    BY <1>12, SizeFacts
  <2> QED
    BY <1>1, <1>15, <2>1, PartErrIs, ErrIs
<1> HIDE DEF pe, err, err1, more
<1>26. more \in Int
  BY <1>24, <1>25
<1>27. CountEnclosed' /\ DecodedBetween'
  <2>1. CountEnclosed /\ DecodedBetween
    BY DEF BoundsInv
  <2>2. All("sure_count") <= truth.count /\ truth.count <= All("sure_count") + All("maybe_count")
    BY <1>15, <1>20, <1>21, <1>23, <2>1 DEF CountEnclosed
  <2>3. /\ All("sure_count")' <= truth'.count
        /\ truth'.count <= All("sure_count")' + All("maybe_count")'
    BY <1>15, <1>20, <1>21, <1>22, <1>23, <2>2
  <2>4. /\ All("sure_count") <= All("rec_count")
        /\ All("rec_count") <= All("sure_count") + All("maybe_count")
    BY <2>1 DEF DecodedBetween
  <2>5. /\ All("sure_count")' <= All("rec_count")'
        /\ All("rec_count")' <= All("sure_count")' + All("maybe_count")'
    BY <1>15, <1>20, <1>21, <1>22, <1>23, <2>4
  <2> QED
    BY <2>3, <2>5 DEF CountEnclosed, DecodedBetween, All
<1>28. /\ acc'.sure_sum_lo <= acc.sure_sum_lo + dl + more
       /\ acc'.sure_sum_lo + acc'.maybe_sum_neg
            <= acc.sure_sum_lo + acc.maybe_sum_neg + dl + dn + more
       /\ acc.sure_sum_hi + dh - more <= acc'.sure_sum_hi
       /\ acc.sure_sum_hi + acc.maybe_sum_pos + dh + dp - more
            <= acc'.sure_sum_hi + acc'.maybe_sum_pos
  BY <1>15, <1>17, <1>18, <1>26 DEF Abs
<1>29. SumBetween'
  <2>1. SumBetween
    BY DEF BoundsInv
  <2>2. /\ All("sure_sum_lo") + All("maybe_sum_neg") - AllErr <= truth.sum
        /\ truth.sum <= All("sure_sum_hi") + All("maybe_sum_pos") + AllErr
    BY <2>1 DEF SumBetween
  <2>3. All("sure_sum_lo")' + All("maybe_sum_neg")' - AllErr' <= truth'.sum
    BY <1>15, <1>20, <1>21, <1>22, <1>23, <1>24, <1>25, <1>28, <2>2
  <2>4. truth'.sum <= All("sure_sum_hi")' + All("maybe_sum_pos")' + AllErr'
    BY <1>15, <1>20, <1>21, <1>22, <1>23, <1>24, <1>25, <1>28, <2>2
  <2> QED
    BY <2>3, <2>4 DEF SumBetween
<1>30. OthersBetween'
  <2>1. OthersBetween
    BY DEF BoundsInv
  <2>2. /\ Others \in Int /\ Others' \in Int
        /\ q - s = 0 => Others' = Others
        /\ q - s = 1 => Others' = Others + 1
        /\ q - s = 0 \/ q - s = 1
    <3>1. Others = truth.count - All("sure_count") /\ Others' = truth'.count - All("sure_count")'
      BY DEF Others
    <3>2. q - s = 0 \/ q - s = 1
      BY <1>23
    <3>3. All("sure_count") \in Int /\ All("sure_count")' = All("sure_count") + s
      BY <1>15, <1>20, <1>21, <1>22, <1>23
    <3>4. truth'.count = truth.count + q /\ truth.count \in Int
      BY <1>23
    <3>5. Others' = Others + (q - s) /\ Others \in Int
      BY <3>1, <3>3, <3>4
    <3> HIDE DEF Others
    <3> QED
      BY <3>2, <3>5
  <2>3. All("sure_count")' = 0 => All("sure_count") = 0 /\ s = 0
    BY <1>15, <1>20, <1>21, <1>22, <1>23
  <2>4. ASSUME NEW x \in Int, BelowOthers(x)'
        PROVE  /\ All("sure_sum_lo")' - AllErr' + Others' * x <= truth'.sum
               /\ All("sure_count")' = 0 => Others' * x <= truth'.sum
    <3>1. x <= acc'.maybe_min /\ \A k \in DOMAIN parts : x <= parts[k].acc.maybe_min
      BY <1>3, <2>4 DEF BelowOthers
    <3>2. BelowOthers(x)
      BY <1>15, <1>23, <3>1 DEF BelowOthers
    <3>3. /\ All("sure_sum_lo") - AllErr + Others * x <= truth.sum
          /\ All("sure_count") = 0 => Others * x <= truth.sum
      BY <2>1, <3>2 DEF OthersBetween
    <3> DEFINE old == Others * x
               new == Others' * x
    <3>4. /\ old \in Int /\ new \in Int
          /\ q - s = 0 => new = old
          /\ q - s = 1 => new = old + x
      <4>1. (Others + 1) * x = Others * x + x /\ Others * x \in Int /\ Others' * x \in Int
        BY <2>2
      <4> QED
        BY <2>2, <4>1, Zenon
    <3>5. /\ All("sure_sum_lo") - AllErr + old <= truth.sum
          /\ All("sure_count") = 0 => old <= truth.sum
      BY <3>3
    <3> HIDE DEF old, new
    <3>6. All("sure_sum_lo")' - AllErr' + new <= truth'.sum
      BY <1>15, <1>20, <1>21, <1>22, <1>23, <1>24, <1>25, <1>28, <2>2, <3>1, <3>4, <3>5
    <3>7. All("sure_count")' = 0 => new <= truth'.sum
      BY <1>15, <1>23, <2>2, <2>3, <3>1, <3>4, <3>5
    <3> QED
      BY <3>6, <3>7 DEF new
  <2>5. ASSUME NEW y \in Int, AboveOthers(y)'
        PROVE  /\ truth'.sum <= All("sure_sum_hi")' + AllErr' + Others' * y
               /\ All("sure_count")' = 0 => truth'.sum <= Others' * y
    <3>1. acc'.maybe_max <= y /\ \A k \in DOMAIN parts : parts[k].acc.maybe_max <= y
      BY <1>3, <2>5 DEF AboveOthers
    <3>2. AboveOthers(y)
      BY <1>15, <1>23, <3>1 DEF AboveOthers
    <3>3. /\ truth.sum <= All("sure_sum_hi") + AllErr + Others * y
          /\ All("sure_count") = 0 => truth.sum <= Others * y
      BY <2>1, <3>2 DEF OthersBetween
    <3> DEFINE old == Others * y
               new == Others' * y
    <3>4. /\ old \in Int /\ new \in Int
          /\ q - s = 0 => new = old
          /\ q - s = 1 => new = old + y
      <4>1. (Others + 1) * y = Others * y + y /\ Others * y \in Int /\ Others' * y \in Int
        BY <2>2
      <4> QED
        BY <2>2, <4>1, Zenon
    <3>5. /\ truth.sum <= All("sure_sum_hi") + AllErr + old
          /\ All("sure_count") = 0 => truth.sum <= old
      BY <3>3
    <3> HIDE DEF old, new
    <3>6. truth'.sum <= All("sure_sum_hi")' + AllErr' + new
      BY <1>15, <1>20, <1>21, <1>22, <1>23, <1>24, <1>25, <1>28, <2>2, <3>1, <3>4, <3>5
    <3>7. All("sure_count")' = 0 => truth'.sum <= new
      BY <1>15, <1>23, <2>2, <2>3, <3>1, <3>4, <3>5
    <3> QED
      BY <3>6, <3>7 DEF new
  <2> QED
    BY <2>4, <2>5 DEF OthersBetween
<1> QED
  BY <1>9, <1>11, <1>19, <1>27, <1>29, <1>30 DEF BoundsInv

-----------------------------------------------------------------------------
(* The other steps *)

(* What is added up does not change. *)
LEMMA FrameParts ==
  ASSUME BoundsInv, Added' = Added, UNCHANGED <<acc, parts, truth>>
  PROVE  SumsFit' /\ CountEnclosed' /\ DecodedBetween' /\ SumBetween' /\ OthersBetween'
<1>1. /\ \A f : Total(f)' = Total(f)
      /\ SumFunction(PartErr)' = SumFunction(PartErr)
  BY TotalStays
<1>2. \A f : All(f)' = All(f)
  BY <1>1 DEF All
<1>3. AllErr' = AllErr
  BY <1>1 DEF AllErr
<1>4. Others' = Others
  BY <1>2 DEF Others
<1>5. SumsFit'
  BY DEF BoundsInv, SumsFit
<1>6. CountEnclosed'
  BY <1>1 DEF BoundsInv, CountEnclosed
<1>7. DecodedBetween'
  BY <1>2 DEF BoundsInv, DecodedBetween
<1>8. SumBetween'
  BY <1>2, <1>3 DEF BoundsInv, SumBetween
<1>9. OthersBetween'
  BY <1>2, <1>3, <1>4 DEF BoundsInv, OthersBetween, BelowOthers, AboveOthers
<1> QED
  BY <1>5, <1>6, <1>7, <1>8, <1>9

(* Nor does the answer. *)
LEMMA FrameStep ==
  ASSUME BoundsInv, AggregateType', NothingYet', answer = None, Added' = Added,
         UNCHANGED <<acc, parts, truth, answer>>
  PROVE  BoundsInv'
<1>1. /\ SumsFit' /\ CountEnclosed' /\ DecodedBetween' /\ SumBetween' /\ OthersBetween'
  BY FrameParts
<1>2. AnswerStays' /\ DecodedInside' /\ SumEnclosed' /\ MeanEnclosed'
  BY DEF AnswerStays, DecodedInside, SumEnclosed, MeanEnclosed
<1> QED
  BY <1>1, <1>2 DEF BoundsInv

(* StartBlock keeps the invariant. *)
LEMMA StartBlockStep ==
  ASSUME BoundsInv, StartBlock
  PROVE  BoundsInv'
<1>1. AggregateType /\ NothingYet
  BY DEF BoundsInv
<1>2. /\ block = None /\ answer = None /\ size < ReadBlocks /\ size' = size + 1
      /\ UNCHANGED <<lo, hi, acc, parts, truth, answer>>
  BY DEF StartBlock
<1>3. PICK eps \in Errors, in \in BOOLEAN : block' = [eps |-> eps, in_block |-> in, seen |-> 0]
  BY DEF StartBlock
<1>4. ReadBlocks \in Nat \ {0} /\ ValuesPerBlock \in Nat \ {0} /\ size \in Nat
  BY <1>1, SizesAssumption DEF AggregateType
<1>5. /\ block' \in [eps : Errors, in_block : BOOLEAN, seen : 0 .. ValuesPerBlock]
      /\ block'.seen = 0
  BY <1>3, <1>4
<1>6. block' # None
  BY <1>5, BlockIsNone
<1>7. size' \in 0 .. ReadBlocks /\ size' # 0 /\ size' - 1 = size
  BY <1>2, <1>4
<1>8. AggregateType'
  BY <1>1, <1>2, <1>5, <1>7 DEF AggregateType
<1>9. NothingYet'
  BY <1>7 DEF NothingYet
<1>10. Added' = Added
  <2>1. Added' = size * ValuesPerBlock + 0
    BY <1>5, <1>6, <1>7 DEF Added
  <2>2. Added = size * ValuesPerBlock
    BY <1>2 DEF Added
  <2> QED
    BY <1>4, <2>1, <2>2
<1> QED
  BY <1>2, <1>8, <1>9, <1>10, FrameStep

(* EndBlock keeps the invariant. *)
LEMMA EndBlockStep ==
  ASSUME BoundsInv, EndBlock
  PROVE  BoundsInv'
<1>1. AggregateType /\ NothingYet /\ AnswerStays
  BY DEF BoundsInv
<1>2. /\ block # None /\ block.seen = ValuesPerBlock /\ block' = None
      /\ UNCHANGED <<lo, hi, acc, size, parts, truth, answer>>
  BY DEF EndBlock
<1>3. answer = None
  BY <1>1, <1>2 DEF AnswerStays
<1>4. AggregateType' /\ NothingYet'
  BY <1>1, <1>2 DEF AggregateType, NothingYet
<1>5. Added' = Added
  <2>1. ValuesPerBlock \in Nat /\ size \in Nat
    BY <1>1, SizesAssumption DEF AggregateType
  <2>2. Added' = size * ValuesPerBlock
    BY <1>2 DEF Added
  <2>3. Added = (size - 1) * ValuesPerBlock + ValuesPerBlock
    BY <1>2 DEF Added
  <2> QED
    BY <2>1, <2>2, <2>3
<1> QED
  BY <1>2, <1>3, <1>4, <1>5, FrameStep

(* The totals of a read join those of the reads before. *)
LEMMA PartJoins ==
  ASSUME AggregateType, size # 0, parts' = Append(parts, [acc |-> acc, size |-> size])
  PROVE  /\ \A f \in Counts \cup Summed : Total(f)' = Total(f) + acc[f]
         /\ SumFunction(PartErr)'
              = SumFunction(PartErr) + Err(size * ValuesPerBlock, acc.abs_total)
         /\ parts' \in Seq(PartType)
         /\ DOMAIN parts' = (DOMAIN parts) \cup {Len(parts) + 1}
         /\ \A k \in DOMAIN parts : parts'[k] = parts[k]
         /\ parts'[Len(parts) + 1] = [acc |-> acc, size |-> size]
<1> DEFINE d == Len(parts)
           part == [acc |-> acc, size |-> size]
<1>1. acc \in AccType /\ size \in 1 .. ReadBlocks /\ parts \in Seq(PartType)
  BY DEF AggregateType
<1>2. part \in PartType /\ part.acc = acc /\ part.size = size
  BY <1>1 DEF PartType
<1> HIDE DEF part
<1>3. parts' = Append(parts, part)
  BY DEF part
<1>4. /\ parts' \in Seq(PartType) /\ DOMAIN parts' = 1 .. d + 1 /\ DOMAIN parts = 1 .. d
      /\ d \in Nat /\ \A k \in 1 .. d : parts'[k] = parts[k]
      /\ parts'[d + 1] = part
  BY <1>1, <1>2, <1>3
<1>5. \A k \in 1 .. d + 1 : parts'[k] \in PartType
  BY <1>4
<1>6. ASSUME NEW f \in Counts \cup Summed PROVE Total(f)' = Total(f) + acc[f]
  <2> DEFINE old == [k \in DOMAIN parts |-> parts[k].acc[f]]
             new == [k \in DOMAIN parts' |-> parts'[k].acc[f]]
  <2>1. \A k \in 1 .. d + 1 : parts'[k].acc \in AccType
    BY <1>5 DEF PartType
  <2>2. Integers(new, 1 .. d + 1)
    BY <1>4, <1>6, <2>1, FieldIs DEF Integers
  <2>3. \A k \in 1 .. d : new[k] = old[k]
    BY <1>4
  <2>4. new[d + 1] = acc[f]
    BY <1>2, <1>4
  <2>5. Total(f) = SumOf(old, 1 .. d)
    BY <1>4 DEF Total, SumFunction, SumOf
  <2>6. Total(f)' = SumOf(new, 1 .. d + 1)
    BY <1>4 DEF Total, SumFunction, SumOf
  <2> HIDE DEF old, new, d
  <2>7. SumOf(new, 1 .. d + 1) = SumOf(old, 1 .. d) + new[d + 1]
    BY <1>4, <2>2, <2>3, SumGrows
  <2> QED
    BY <2>4, <2>5, <2>6, <2>7, Zenon
<1>7. SumFunction(PartErr)' = SumFunction(PartErr) + Err(size * ValuesPerBlock, acc.abs_total)
  <2> DEFINE new == [k \in DOMAIN parts' |->
                       Err(parts'[k].size * ValuesPerBlock, parts'[k].acc.abs_total)]
  <2>1. ASSUME NEW b \in 1 .. ReadBlocks, NEW A \in Nat
        PROVE  Err(b * ValuesPerBlock, A) \in Int
    <3>1. ValuesPerBlock \in Nat \ {0} /\ ReadBlocks \in Nat \ {0}
      BY SizesAssumption
    <3>2. b * ValuesPerBlock <= ReadBlocks * ValuesPerBlock
      BY <3>1, ProductGrows
    <3>3. b * ValuesPerBlock \in Nat /\ ReadBlocks * ValuesPerBlock \in Nat
      BY <3>1
    <3>4. b * ValuesPerBlock \in 0 .. ReadValues
      BY <3>2, <3>3 DEF ReadValues
    <3> QED
      BY <3>4, ErrIs
  <2>2. \A k \in 1 .. d + 1 : parts'[k].size \in 1 .. ReadBlocks /\ parts'[k].acc.abs_total \in Nat
    BY <1>5 DEF PartType, AccType
  <2>3. Integers(new, 1 .. d + 1)
    BY <1>4, <2>1, <2>2 DEF Integers
  <2>4. \A k \in 1 .. d : new[k] = PartErr[k]
    BY <1>4 DEF PartErr
  <2>5. new[d + 1] = Err(size * ValuesPerBlock, acc.abs_total)
    BY <1>2, <1>4
  <2>6. SumFunction(PartErr) = SumOf(PartErr, 1 .. d)
    BY <1>4 DEF SumFunction, SumOf, PartErr
  <2>7. SumFunction(PartErr)' = SumOf(new, 1 .. d + 1)
    BY <1>4 DEF SumFunction, SumOf, PartErr
  <2> HIDE DEF new, d
  <2>8. SumOf(new, 1 .. d + 1) = SumOf(PartErr, 1 .. d) + new[d + 1]
    BY <1>4, <2>3, <2>4, SumGrows
  <2> QED
    BY <2>5, <2>6, <2>7, <2>8, Zenon
<1>8. 1 .. d + 1 = (1 .. d) \cup {d + 1}
  BY <1>4
<1> QED
  BY <1>4, <1>6, <1>7, <1>8 DEF part

(* The totals before the first value of a read. *)
LEMMA EmptyIs ==
  /\ Empty \in AccType /\ \A f \in Counts \cup Summed : Empty[f] = 0
  /\ Fits(0, Empty) /\ Err(0, Empty.abs_total) = 0
  /\ Empty.maybe_min = Infinity /\ Empty.maybe_max = MinusInfinity
<1>1. Empty \in AccType /\ Empty.maybe_min = Infinity /\ Empty.maybe_max = MinusInfinity
  BY ValuesAssumption DEF Empty, AccType
<1>2. \A f \in Counts \cup Summed : Empty[f] = 0
  BY DEF Empty, Counts, Summed
<1>3. /\ Empty.sure_sum_lo = 0 /\ Empty.sure_sum_hi = 0 /\ Empty.abs_total = 0
      /\ Empty.maybe_sum_neg = 0 /\ Empty.maybe_sum_pos = 0
  BY DEF Empty
<1>4. Abs(0) = 0 /\ (RoundOff - 2 * 0) * (0 + 0) <= RoundOff * 0
  BY SizeFacts DEF Abs
<1>5. Bounded(0, 0, 0, 0)
  BY <1>4 DEF Bounded
<1>6. Fits(0, Empty)
  BY <1>3, <1>5 DEF Fits
<1> QED
  BY <1>1, <1>2, <1>6 DEF Err

(* The invariant holds at first. *)
LEMMA BoundsInit ==
  ASSUME AggregateInit
  PROVE  BoundsInv
<1>1. /\ lo \in LowBounds /\ hi \in HighBounds /\ block = None /\ acc = Empty /\ size = 0
      /\ parts = <<>> /\ truth = [count |-> 0, sum |-> 0] /\ answer = None
  BY DEF AggregateInit
<1>2. AggregateType
  BY <1>1, EmptyIs, SizesAssumption DEF AggregateType
<1>3. ASSUME NEW f PROVE Total(f) = 0
  <2>1. DOMAIN parts = {}
    BY <1>1
  <2> DEFINE g == [k \in DOMAIN parts |-> parts[k].acc[f]]
  <2>2. Total(f) = SumOf(g, {})
    BY <2>1 DEF Total, SumFunction, SumOf
  <2> HIDE DEF g
  <2> QED
    BY <2>2, SumOfNone
<1>4. SumFunction(PartErr) = 0
  <2>1. DOMAIN PartErr = {}
    BY <1>1 DEF PartErr
  <2>2. SumFunction(PartErr) = SumOf(PartErr, {})
    BY <2>1 DEF SumFunction, SumOf
  <2> QED
    BY <2>2, SumOfNone
<1>5. Added = 0
  BY <1>1, SizesAssumption DEF Added
<1>6. \A f \in Counts \cup Summed : All(f) = 0
  BY <1>1, <1>3, EmptyIs DEF All
<1>7. /\ All("sure_count") = 0 /\ All("rec_count") = 0 /\ All("maybe_count") = 0
      /\ All("sure_sum_lo") = 0 /\ All("sure_sum_hi") = 0
      /\ All("maybe_sum_neg") = 0 /\ All("maybe_sum_pos") = 0
  BY <1>6 DEF Counts, Summed
<1>8. AllErr = 0 /\ truth.count = 0 /\ truth.sum = 0
  BY <1>1, <1>4, <1>5, EmptyIs DEF AllErr
<1>9. Others = 0
  BY <1>7, <1>8 DEF Others
<1>10. SumsFit
  BY <1>1, <1>5, EmptyIs DEF SumsFit
<1>11. CountEnclosed /\ DecodedBetween /\ SumBetween
  BY <1>7, <1>8 DEF CountEnclosed, DecodedBetween, SumBetween, All
<1>12. OthersBetween
  <2>1. \A x \in Int : 0 * x = 0
    OBVIOUS
  <2> QED
    BY <1>7, <1>8, <1>9, <2>1 DEF OthersBetween
<1> QED
  BY <1>1, <1>2, <1>10, <1>11, <1>12
  DEF BoundsInv, NothingYet, AnswerStays, DecodedInside, SumEnclosed, MeanEnclosed

(* EndRead keeps the invariant: what the read added moves to parts. *)
LEMMA EndReadStep ==
  ASSUME BoundsInv, EndRead
  PROVE  BoundsInv'
<1>1. AggregateType /\ AnswerStays
  BY DEF BoundsInv
<1>2. /\ block = None /\ size > 0 /\ acc' = Empty /\ size' = 0
      /\ parts' = Append(parts, [acc |-> acc, size |-> size])
      /\ UNCHANGED <<lo, hi, block, truth, answer>>
  BY DEF EndRead
<1>3. size # 0 /\ answer = None /\ answer' = None
  BY <1>1, <1>2 DEF AnswerStays
<1>4. /\ \A f \in Counts \cup Summed : Total(f)' = Total(f) + acc[f]
      /\ SumFunction(PartErr)' = SumFunction(PartErr) + Err(size * ValuesPerBlock, acc.abs_total)
      /\ parts' \in Seq(PartType)
      /\ DOMAIN parts' = (DOMAIN parts) \cup {Len(parts) + 1}
      /\ \A k \in DOMAIN parts : parts'[k] = parts[k]
      /\ parts'[Len(parts) + 1] = [acc |-> acc, size |-> size]
  BY <1>1, <1>2, <1>3, PartJoins
<1>5. AggregateType' /\ NothingYet'
  <2>1. size' \in 0 .. ReadBlocks
    BY <1>2, SizesAssumption
  <2> QED
    BY <1>1, <1>2, <1>4, <2>1, EmptyIs DEF AggregateType, NothingYet
<1>6. Added = size * ValuesPerBlock /\ Added' = 0
  BY <1>2, SizesAssumption DEF Added
<1>7. acc \in AccType
  BY <1>1 DEF AggregateType
<1>8. \A f \in Counts \cup Summed : All(f)' = All(f)
  <2> SUFFICES ASSUME NEW f \in Counts \cup Summed PROVE All(f)' = All(f)
    OBVIOUS
  <2>1. All(f)' = Total(f) + acc[f] + 0
    BY <1>2, <1>4, EmptyIs DEF All
  <2>2. Total(f) \in Int /\ acc[f] \in Int
    BY <1>1, <1>7, TotalIs, FieldIs
  <2> QED
    BY <2>1, <2>2 DEF All
<1>9. AllErr' = AllErr
  <2>1. SumFunction(PartErr) \in Int
    BY <1>1, PartErrIs
  <2>2. Err(Added, acc.abs_total) \in Nat
    BY <1>1, <1>7, AddedIs, ErrIs DEF AccType
  <2>3. AllErr' = SumFunction(PartErr) + Err(Added, acc.abs_total) + 0
    BY <1>2, <1>4, <1>6, EmptyIs DEF AllErr
  <2> QED
    BY <2>1, <2>2, <2>3 DEF AllErr
<1>10. /\ All("sure_count")' = All("sure_count") /\ All("rec_count")' = All("rec_count")
       /\ All("maybe_count")' = All("maybe_count")
       /\ All("sure_sum_lo")' = All("sure_sum_lo") /\ All("sure_sum_hi")' = All("sure_sum_hi")
       /\ All("maybe_sum_neg")' = All("maybe_sum_neg")
       /\ All("maybe_sum_pos")' = All("maybe_sum_pos")
  BY <1>8 DEF Counts, Summed
<1>11. SumsFit'
  <2>1. /\ Fits(Added, acc)
        /\ \A k \in DOMAIN parts : Fits(parts[k].size * ValuesPerBlock, parts[k].acc)
    BY DEF BoundsInv, SumsFit
  <2>2. ASSUME NEW k \in DOMAIN parts' PROVE Fits(parts'[k].size * ValuesPerBlock, parts'[k].acc)
    <3>1. CASE k \in DOMAIN parts
      BY <1>4, <2>1, <3>1
    <3>2. CASE k = Len(parts) + 1
      <4>1. parts'[k].size = size /\ parts'[k].acc = acc
        BY <1>4, <3>2
      <4> QED
        BY <1>6, <2>1, <4>1
    <3> QED
      BY <1>4, <3>1, <3>2
  <2> QED
    BY <1>2, <1>6, <2>2, EmptyIs DEF SumsFit
<1>12. CountEnclosed'
  <2>1. All("sure_count") <= truth.count /\ truth.count <= All("sure_count") + All("maybe_count")
    BY DEF BoundsInv, CountEnclosed, All
  <2>2. /\ All("sure_count")' <= truth'.count
        /\ truth'.count <= All("sure_count")' + All("maybe_count")'
    BY <1>2, <1>10, <2>1
  <2> QED
    BY <2>2 DEF CountEnclosed, All
<1>13. DecodedBetween' /\ SumBetween'
  BY <1>2, <1>9, <1>10 DEF BoundsInv, DecodedBetween, SumBetween
<1>14. Others' = Others
  BY <1>2, <1>10 DEF Others
<1>15. ASSUME NEW x \in Int
       PROVE  (BelowOthers(x)' => BelowOthers(x)) /\ (AboveOthers(x)' => AboveOthers(x))
  <2>1. \A k \in DOMAIN parts : k \in DOMAIN parts' /\ parts'[k] = parts[k]
    BY <1>4
  <2>2. Len(parts) + 1 \in DOMAIN parts' /\ parts'[Len(parts) + 1].acc = acc
    BY <1>4
  <2>3. BelowOthers(x)' => BelowOthers(x)
    BY <2>1, <2>2 DEF BelowOthers
  <2>4. AboveOthers(x)' => AboveOthers(x)
    BY <2>1, <2>2 DEF AboveOthers
  <2> QED
    BY <2>3, <2>4
<1>16. OthersBetween'
  <2>1. OthersBetween
    BY DEF BoundsInv
  <2> QED
    BY <1>2, <1>9, <1>10, <1>14, <1>15, <2>1 DEF OthersBetween
<1>17. AnswerStays' /\ DecodedInside' /\ SumEnclosed' /\ MeanEnclosed'
  BY <1>3 DEF AnswerStays, DecodedInside, SumEnclosed, MeanEnclosed
<1> QED
  BY <1>5, <1>11, <1>12, <1>13, <1>16, <1>17 DEF BoundsInv

-----------------------------------------------------------------------------
(* Means *)

(* A mean of a known sum and K more values lies between the one without    *)
(* any more and the one with M more.                                       *)
LEMMA MeanArith ==
  ASSUME NEW l \in Int, NEW mn \in Int, NEW S \in Nat, NEW M \in Nat, NEW K \in 0 .. M
  PROVE  /\ l <= mn * S => l * (S + K) <= (l + K * mn) * S
         /\ mn * S <= l => (l + M * mn) * (S + K) <= (l + K * mn) * (S + M)
<1> DEFINE p == mn * S
<1>1. p \in Int
  OBVIOUS
<1>2. l * (S + K) = l * S + K * l /\ (l + K * mn) * S = l * S + K * p
  OBVIOUS
<1>3. /\ (l + M * mn) * (S + K) = l * S + M * (mn * K) + K * l + M * p
      /\ (l + K * mn) * (S + M) = l * S + M * (mn * K) + M * l + K * p
  OBVIOUS
<1> HIDE DEF p
<1>4. l <= p => K * l <= K * p
  BY <1>1, Times
<1>5. p <= l => (M - K) * p <= (M - K) * l
  BY <1>1, Times
<1>6. /\ (M - K) * p = M * p - K * p /\ (M - K) * l = M * l - K * l
      /\ M * p \in Int /\ K * p \in Int /\ M * l \in Int /\ K * l \in Int
      /\ l * S \in Int /\ M * (mn * K) \in Int
  BY <1>1
<1>7. l <= p => l * (S + K) <= (l + K * mn) * S
  BY <1>2, <1>4, <1>6
<1>8. p <= l => (l + M * mn) * (S + K) <= (l + K * mn) * (S + M)
  BY <1>3, <1>5, <1>6
<1> QED
  BY <1>7, <1>8 DEF p

(* The lower bound of the mean: the smaller of both is below all between. *)
LEMMA MeanBelow ==
  ASSUME NEW l \in Int, NEW mn \in Int, NEW S \in Nat \ {0}, NEW M \in Nat \ {0},
         NEW K \in 0 .. M, NEW t \in Int
  PROVE  l + K * mn <= t
         => Leq(Lower(Over(l, S), Over(l + M * mn, S + M)), Over(t, S + K))
<1>1. SUFFICES ASSUME l + K * mn <= t
               PROVE  Leq(Lower(Over(l, S), Over(l + M * mn, S + M)), Over(t, S + K))
  OBVIOUS
<1>2. /\ l <= mn * S => l * (S + K) <= (l + K * mn) * S
      /\ mn * S <= l => (l + M * mn) * (S + K) <= (l + K * mn) * (S + M)
  BY MeanArith
<1>3. (l + K * mn) * S <= t * S /\ (l + K * mn) * (S + M) <= t * (S + M)
  <2>1. l + K * mn \in Int /\ S + M \in Nat
    OBVIOUS
  <2> QED
    BY <1>1, <2>1, ProductGrows
<1>4. /\ l * (S + K) \in Int /\ (l + K * mn) * S \in Int /\ t * S \in Int /\ mn * S \in Int
      /\ (l + M * mn) * (S + K) \in Int /\ (l + K * mn) * (S + M) \in Int
      /\ t * (S + M) \in Int
  OBVIOUS
<1>5. l <= mn * S => l * (S + K) <= t * S
  BY <1>2, <1>3, <1>4
<1>6. mn * S <= l => (l + M * mn) * (S + K) <= t * (S + M)
  BY <1>2, <1>3, <1>4
<1>7. l * (S + M) <= (l + M * mn) * S <=> l <= mn * S
  <2>1. l * (S + M) = l * S + M * l /\ (l + M * mn) * S = l * S + M * (mn * S)
    OBVIOUS
  <2>2. l * S \in Int /\ M * l \in Int /\ M * (mn * S) \in Int
    OBVIOUS
  <2>3. M * l <= M * (mn * S) <=> l <= mn * S
    <3>1. l <= mn * S => M * l <= M * (mn * S)
      BY <1>4, Times
    <3>2. M * l <= M * (mn * S) => l <= mn * S
      BY <1>4, Cancel
    <3> QED
      BY <3>1, <3>2
  <2> QED
    BY <2>1, <2>2, <2>3
<1>8. CASE l <= mn * S
  <2>1. Lower(Over(l, S), Over(l + M * mn, S + M)) = Over(l, S)
    BY <1>7, <1>8 DEF Lower, Leq, Over
  <2> QED
    BY <1>5, <1>8, <2>1 DEF Leq, Over
<1>9. CASE ~(l <= mn * S)
  <2>1. Lower(Over(l, S), Over(l + M * mn, S + M)) = Over(l + M * mn, S + M)
    BY <1>7, <1>9 DEF Lower, Leq, Over
  <2>2. mn * S <= l
    BY <1>4, <1>9
  <2> QED
    BY <1>6, <2>1, <2>2 DEF Leq, Over
<1> QED
  BY <1>8, <1>9

(* And the upper bound. *)
LEMMA MeanAbove ==
  ASSUME NEW h \in Int, NEW mx \in Int, NEW S \in Nat \ {0}, NEW M \in Nat \ {0},
         NEW K \in 0 .. M, NEW t \in Int
  PROVE  t <= h + K * mx
         => Leq(Over(t, S + K), Upper(Over(h, S), Over(h + M * mx, S + M)))
<1>1. SUFFICES ASSUME t <= h + K * mx
               PROVE  Leq(Over(t, S + K), Upper(Over(h, S), Over(h + M * mx, S + M)))
  OBVIOUS
<1>2. /\ mx * S <= h => (h + K * mx) * S <= h * (S + K)
      /\ h <= mx * S => (h + K * mx) * (S + M) <= (h + M * mx) * (S + K)
  <2> DEFINE l == -h
             mn == -mx
  <2>1. /\ l <= mn * S => l * (S + K) <= (l + K * mn) * S
        /\ mn * S <= l => (l + M * mn) * (S + K) <= (l + K * mn) * (S + M)
    <3>1. l \in Int /\ mn \in Int
      OBVIOUS
    <3> HIDE DEF l, mn
    <3> QED
      BY <3>1, MeanArith
  <2>2. /\ mn * S = -(mx * S) /\ l * (S + K) = -(h * (S + K))
        /\ (l + K * mn) * S = -((h + K * mx) * S)
        /\ (l + M * mn) * (S + K) = -((h + M * mx) * (S + K))
        /\ (l + K * mn) * (S + M) = -((h + K * mx) * (S + M))
    OBVIOUS
  <2>3. /\ mx * S \in Int /\ h * (S + K) \in Int /\ (h + K * mx) * S \in Int
        /\ (h + M * mx) * (S + K) \in Int /\ (h + K * mx) * (S + M) \in Int
    OBVIOUS
  <2>4. l = -h
    OBVIOUS
  <2> HIDE DEF l, mn
  <2> QED
    BY <2>1, <2>2, <2>3, <2>4
<1>3. t * S <= (h + K * mx) * S /\ t * (S + M) <= (h + K * mx) * (S + M)
  <2>1. h + K * mx \in Int /\ S + M \in Nat
    OBVIOUS
  <2> QED
    BY <1>1, <2>1, ProductGrows
<1>4. /\ h * (S + K) \in Int /\ (h + K * mx) * S \in Int /\ t * S \in Int /\ mx * S \in Int
      /\ (h + M * mx) * (S + K) \in Int /\ (h + K * mx) * (S + M) \in Int
      /\ t * (S + M) \in Int
  OBVIOUS
<1>5. mx * S <= h => t * S <= h * (S + K)
  BY <1>2, <1>3, <1>4
<1>6. h <= mx * S => t * (S + M) <= (h + M * mx) * (S + K)
  BY <1>2, <1>3, <1>4
<1>7. h * (S + M) <= (h + M * mx) * S <=> h <= mx * S
  <2>1. h * (S + M) = h * S + M * h /\ (h + M * mx) * S = h * S + M * (mx * S)
    OBVIOUS
  <2>2. h * S \in Int /\ M * h \in Int /\ M * (mx * S) \in Int
    OBVIOUS
  <2>3. M * h <= M * (mx * S) <=> h <= mx * S
    <3>1. h <= mx * S => M * h <= M * (mx * S)
      BY <1>4, Times
    <3>2. M * h <= M * (mx * S) => h <= mx * S
      BY <1>4, Cancel
    <3> QED
      BY <3>1, <3>2
  <2> QED
    BY <2>1, <2>2, <2>3
<1>8. CASE h <= mx * S
  <2>1. Upper(Over(h, S), Over(h + M * mx, S + M)) = Over(h + M * mx, S + M)
    BY <1>7, <1>8 DEF Upper, Leq, Over
  <2> QED
    BY <1>6, <1>8, <2>1 DEF Leq, Over
<1>9. CASE ~(h <= mx * S)
  <2>1. Upper(Over(h, S), Over(h + M * mx, S + M)) = Over(h, S)
    BY <1>7, <1>9 DEF Upper, Leq, Over
  <2>2. mx * S <= h
    BY <1>4, <1>9
  <2> QED
    BY <1>5, <2>1, <2>2 DEF Leq, Over
<1> QED
  BY <1>8, <1>9

-----------------------------------------------------------------------------
(* The least and the greatest *)

(* c and the values of g on S. *)
Among(c, g, S) == {c} \cup {g[k] : k \in S}

(* One of them is the least. *)
LEMMA LeastAmong ==
  ASSUME NEW S, IsFiniteSet(S), NEW g, Integers(g, S), NEW c \in Int
  PROVE  \E z \in Among(c, g, S) : \A y \in Among(c, g, S) : z <= y
<1> DEFINE P == {U \in SUBSET S : \E z \in Among(c, g, U) : \A y \in Among(c, g, U) : z <= y}
<1>1. {} \in P
  BY DEF Among
<1>2. ASSUME NEW U \in SUBSET S, NEW x \in S, U \in P, x \notin U
      PROVE  U \cup {x} \in P
  <2>1. PICK z \in Among(c, g, U) : \A y \in Among(c, g, U) : z <= y
    BY <1>2
  <2>2. Among(c, g, U \cup {x}) = Among(c, g, U) \cup {g[x]}
    BY DEF Among
  <2>3. \A y \in Among(c, g, U) \cup {g[x]} : y \in Int
    BY DEF Among, Integers
  <2>4. \E w \in Among(c, g, U) \cup {g[x]} : \A y \in Among(c, g, U) \cup {g[x]} : w <= y
    <3>1. CASE z <= g[x]
      BY <2>1, <2>3, <3>1
    <3>2. CASE ~(z <= g[x])
      <4>1. \A y \in Among(c, g, U) \cup {g[x]} : g[x] <= y
        BY <2>1, <2>3, <3>2
      <4> QED
        BY <4>1
    <3> QED
      BY <3>1, <3>2
  <2> QED
    BY <2>2, <2>4
<1> HIDE DEF P
<1>3. S \in P
  BY <1>1, <1>2, SetInduction
<1> QED
  BY <1>3 DEF P

(* One of them is the greatest. *)
LEMMA GreatestAmong ==
  ASSUME NEW S, IsFiniteSet(S), NEW g, Integers(g, S), NEW c \in Int
  PROVE  \E z \in Among(c, g, S) : \A y \in Among(c, g, S) : z >= y
<1> DEFINE f == [k \in S |-> -g[k]]
           b == -c
<1>1. Integers(f, S) /\ b \in Int
  BY DEF Integers
<1>2. \A k \in S : f[k] = -g[k] /\ g[k] \in Int
  BY DEF Integers
<1>3. b = -c
  OBVIOUS
<1> HIDE DEF f, b
<1>4. PICK z \in Among(b, f, S) : \A y \in Among(b, f, S) : z <= y
  BY <1>1, LeastAmong
<1>5. -z \in Among(c, g, S)
  BY <1>2, <1>3 DEF Among
<1>6. \A y \in Among(c, g, S) : y \in Int /\ -y \in Among(b, f, S)
  BY <1>2, <1>3 DEF Among
<1>7. z \in Int
  BY <1>2, <1>3 DEF Among
<1>8. \A y \in Among(c, g, S) : -z >= y
  <2> SUFFICES ASSUME NEW y \in Among(c, g, S) PROVE -z >= y
    OBVIOUS
  <2>1. z <= -y /\ y \in Int
    BY <1>4, <1>6
  <2> QED
    BY <1>7, <2>1
<1> QED
  BY <1>5, <1>8

(* maybe_min and maybe_max are beyond those of every read. *)
LEMMA ExtremesAre ==
  ASSUME AggregateType
  PROVE  /\ maybe_min \in Int /\ maybe_min <= Infinity
         /\ \A k \in DOMAIN parts : maybe_min <= parts[k].acc.maybe_min
         /\ maybe_max \in Int /\ MinusInfinity <= maybe_max
         /\ \A k \in DOMAIN parts : parts[k].acc.maybe_max <= maybe_max
<1> DEFINE D == DOMAIN parts
           low == [k \in D |-> parts[k].acc.maybe_min]
           high == [k \in D |-> parts[k].acc.maybe_max]
           L == Among(Infinity, low, D)
           H == Among(MinusInfinity, high, D)
<1>1. IsFiniteSet(D) /\ Infinity \in Int /\ MinusInfinity \in Int
  BY PartsAre, ValuesAssumption
<1>2. \A k \in D : parts[k].acc.maybe_min \in Int /\ parts[k].acc.maybe_max \in Int
  BY PartsAre DEF PartType, AccType
<1>3. Integers(low, D) /\ Integers(high, D)
  BY <1>2 DEF Integers
<1>4. {Infinity} \cup {parts[k].acc.maybe_min : k \in DOMAIN parts} = L
  BY DEF Among
<1>5. {MinusInfinity} \cup {parts[k].acc.maybe_max : k \in DOMAIN parts} = H
  BY DEF Among
<1>6. maybe_min = Min(L) /\ maybe_max = Max(H)
  BY <1>4, <1>5 DEF maybe_min, maybe_max
<1>7. (\E z \in L : \A y \in L : z <= y) /\ (\E z \in H : \A y \in H : z >= y)
  <2> HIDE DEF low, high, D
  <2> QED
    BY <1>1, <1>3, LeastAmong, GreatestAmong
<1>8. /\ L \subseteq Int /\ Infinity \in L /\ \A k \in D : parts[k].acc.maybe_min \in L
      /\ H \subseteq Int /\ MinusInfinity \in H /\ \A k \in D : parts[k].acc.maybe_max \in H
  BY <1>1, <1>2 DEF Among
<1> HIDE DEF L, H
<1>9. maybe_min \in L /\ \A y \in L : maybe_min <= y
  BY <1>6, <1>7, Zenon DEF Min
<1>10. maybe_max \in H /\ \A y \in H : maybe_max >= y
  BY <1>6, <1>7, Zenon DEF Max
<1> QED
  BY <1>8, <1>9, <1>10

-----------------------------------------------------------------------------
(* The sums of all reads *)

(* The sum of f is no larger than that of its absolute values. *)
LEMMA AbsOfSums ==
  ASSUME NEW S, IsFiniteSet(S), NEW f, Integers(f, S), NEW g, \A x \in S : g[x] = Abs(f[x])
  PROVE  SumOf(g, S) \in Int /\ SumOf(f, S) \in Int /\ Abs(SumOf(f, S)) <= SumOf(g, S)
<1> DEFINE a == SumOf(f, S)
           b == SumOf(g, S)
<1>1. Integers(g, S)
  BY AbsIs DEF Integers
<1>2. a \in Int /\ b \in Int
  <2> HIDE DEF a, b
  <2> QED
    BY <1>1, SumType DEF a, b
<1>3. \A x \in S : 1 * f[x] <= 1 * g[x] /\ (-1) * f[x] <= 1 * g[x]
  BY AbsIs DEF Integers
<1>4. 1 * SumOf(f, S) <= 1 * SumOf(g, S)
  BY <1>1, <1>3, SumsKeep
<1>5. (-1) * SumOf(f, S) <= 1 * SumOf(g, S)
  BY <1>1, <1>3, SumsKeep
<1>6. 1 * a <= 1 * b /\ (-1) * a <= 1 * b
  BY <1>4, <1>5
<1> HIDE DEF a, b
<1>7. Abs(a) <= b
  BY <1>2, <1>6 DEF Abs
<1> QED
  BY <1>2, <1>7 DEF a, b

(* Values of a read, and the terms of the slack. *)
Held(k) == parts[k].size * ValuesPerBlock
Terms == [k \in DOMAIN parts |-> (Held(k) + 2) * parts[k].acc.abs_total]

(* No read holds too many values for R. *)
LEMMA HeldIs ==
  ASSUME AggregateType, NEW k \in DOMAIN parts
  PROVE  /\ Held(k) \in 1 .. ReadValues /\ Held(k) \in Nat /\ Held(k) - 1 \in Nat
         /\ parts[k].acc.abs_total \in Nat
         /\ RoundOff - 2 * ReadValues \in Nat \ {0}
         /\ RoundOff - 2 * ReadValues <= RoundOff - 2 * Held(k)
<1>1. Held(k) \in 1 .. ReadValues
  BY AddedIs DEF Held
<1>2. parts[k].acc.abs_total \in Nat
  BY PartsAre DEF PartType, AccType
<1> QED
  BY <1>1, <1>2, SizeFacts

(* The slack covers the errors of all reads. *)
LEMMA SlackIs ==
  ASSUME AggregateType
  PROVE  LET c == RoundOff - 2 * ReadValues
             A == Total("abs_total")
             T == SumFunction(Terms)
         IN  /\ T \in Nat /\ A \in Nat
             /\ slack = T \div RoundOff
             /\ c * SumFunction(PartErr) <= T - 3 * A
             /\ T <= (ReadValues + 2) * A
<1> DEFINE c == RoundOff - 2 * ReadValues
           D == DOMAIN parts
           Ar == [k \in D |-> parts[k].acc["abs_total"]]
           Tr == [k \in D |-> (Held(k) + 2) * parts[k].acc.abs_total]
           Er == [k \in D |-> Err(Held(k), parts[k].acc.abs_total)]
           Wr == [k \in D |-> (Held(k) - 1) * parts[k].acc.abs_total]
           Br == [k \in D |-> 3 * parts[k].acc.abs_total]
           A == SumOf(Ar, D)
           T == SumOf(Tr, D)
           E == SumOf(Er, D)
<1>1. IsFiniteSet(D)
  BY PartsAre
<1>2. \A k \in D : parts[k].acc.abs_total = parts[k].acc["abs_total"]
  BY PartsAre, FieldIs DEF PartType
<1>3. /\ Total("abs_total") = A /\ SumFunction(Terms) = T /\ SumFunction(PartErr) = E
  BY DEF Total, Terms, PartErr, SumFunction, SumOf, Held
<1>4. slack = SumFunction(Terms) \div RoundOff
  BY DEF slack, Terms, Held
<1>5. ASSUME NEW k \in D
      PROVE  /\ Ar[k] \in Nat /\ Tr[k] \in Nat /\ Er[k] \in Int /\ Wr[k] \in Int /\ Br[k] \in Int
             /\ 1 * Br[k] <= 3 * Ar[k] /\ 3 * Ar[k] <= 1 * Br[k]
             /\ Tr[k] = Wr[k] + Br[k]
             /\ 1 * Tr[k] <= (ReadValues + 2) * Ar[k]
             /\ c * Er[k] <= 1 * Wr[k]
  <2> DEFINE t == Held(k)
             a == parts[k].acc.abs_total
             e == Err(t, a)
  <2>1. /\ t \in 1 .. ReadValues /\ t \in Nat /\ t - 1 \in Nat /\ a \in Nat
        /\ c \in Nat \ {0} /\ c <= RoundOff - 2 * t
    BY HeldIs
  <2>2. Ar[k] = a /\ Tr[k] = (t + 2) * a /\ Er[k] = e /\ Wr[k] = (t - 1) * a /\ Br[k] = 3 * a
    BY <1>2, <1>5
  <2> HIDE DEF t, a, Ar, Tr, Er, Wr, Br, c
  <2>3. t \in 0 .. ReadValues /\ t # 0
    BY <2>1, SizeFacts
  <2>4. e \in Nat /\ (RoundOff - 2 * t) * e <= (t - 1) * a
    BY <2>1, <2>3, ErrIs
  <2> HIDE DEF e
  <2>5. (t + 2) * a = (t - 1) * a + 3 * a /\ (t + 2) * a \in Nat /\ (t - 1) * a \in Int
    BY <2>1
  <2>6. (t + 2) * a <= (ReadValues + 2) * a
    <3>1. t + 2 <= ReadValues + 2
      BY <2>1, SizeFacts
    <3> QED
      BY <2>1, <3>1, SizeFacts, ProductGrows
  <2>7. c * e <= (t - 1) * a
    <3>1. RoundOff - 2 * t \in Int /\ c \in Int
      BY <2>1, SizeFacts
    <3>2. c * e <= (RoundOff - 2 * t) * e
      BY <2>1, <2>4, <3>1, ProductGrows
    <3>3. c * e \in Int /\ (RoundOff - 2 * t) * e \in Int
      BY <2>4, <3>1
    <3> QED
      BY <2>4, <2>5, <3>2, <3>3
  <2>8. 1 * ((t + 2) * a) = (t + 2) * a /\ 1 * ((t - 1) * a) = (t - 1) * a
    BY <2>5
  <2>9. /\ Ar[k] \in Nat /\ Tr[k] \in Nat /\ Er[k] \in Int /\ Wr[k] \in Int /\ Br[k] \in Int
        /\ 1 * Br[k] <= 3 * Ar[k] /\ 3 * Ar[k] <= 1 * Br[k]
        /\ Tr[k] = Wr[k] + Br[k]
    BY <2>1, <2>2, <2>4, <2>5
  <2>10. 1 * Tr[k] <= (ReadValues + 2) * Ar[k]
    BY <2>2, <2>6, <2>8, Zenon
  <2>11. c * Er[k] <= 1 * Wr[k]
    BY <2>2, <2>7, <2>8, Zenon
  <2> QED
    BY <2>9, <2>10, <2>11
<1>6. c \in Nat /\ ReadValues \in Nat
  BY SizeFacts
<1>7. /\ Integers(Ar, D) /\ Integers(Tr, D) /\ Integers(Er, D) /\ Integers(Wr, D)
      /\ Integers(Br, D) /\ \A k \in D : Ar[k] \in Nat /\ Tr[k] \in Nat
  BY <1>5 DEF Integers
<1> HIDE DEF D, Ar, Tr, Er, Wr, Br, c
<1>8. /\ A \in Nat /\ T \in Nat /\ E \in Int /\ SumOf(Wr, D) \in Int /\ SumOf(Br, D) \in Int
  BY <1>1, <1>7, NaturalSum, SumType
<1>9. 1 * SumOf(Br, D) <= 3 * A
  BY <1>1, <1>5, <1>7, SumsKeep
<1>10. 3 * A <= 1 * SumOf(Br, D)
  BY <1>1, <1>5, <1>7, SumsKeep
<1>11. T = SumOf(Wr, D) + SumOf(Br, D)
  BY <1>1, <1>5, <1>7, SumAdds
<1>12. 1 * T <= (ReadValues + 2) * A
  <2>1. ReadValues + 2 \in Int /\ 1 \in Int
    BY <1>6
  <2> QED
    BY <1>1, <1>5, <1>7, <2>1, SumsKeep
<1>13. c * E <= 1 * SumOf(Wr, D)
  <2>1. c \in Int /\ 1 \in Int
    BY <1>6
  <2> QED
    BY <1>1, <1>5, <1>7, <2>1, SumsKeep
<1> DEFINE w == SumOf(Wr, D)
           b == SumOf(Br, D)
<1>14. w \in Int /\ b \in Int /\ 1 * b <= 3 * A /\ 3 * A <= 1 * b /\ T = w + b /\ c * E <= 1 * w
  BY <1>8, <1>9, <1>10, <1>11, <1>13
<1>15. (ReadValues + 2) * A \in Int /\ c * E \in Int
  BY <1>6, <1>8
<1> HIDE DEF A, T, E, w, b
<1>16. T <= (ReadValues + 2) * A
  BY <1>8, <1>12, <1>15
<1>17. c * E <= T - 3 * A
  BY <1>8, <1>14, <1>15
<1> QED
  BY <1>3, <1>4, <1>8, <1>16, <1>17 DEF c

(* The sums over all reads of two fields, and their height. *)
LEMMA HeightsFit ==
  ASSUME AggregateType, NEW f \in Summed, NEW g \in Summed,
         \A k \in DOMAIN parts :
           Bounded(Held(k), parts[k].acc[f], parts[k].acc[g], parts[k].acc.abs_total)
  PROVE  (RoundOff - 2 * ReadValues) * (Abs(Total(f)) + Abs(Total(g)))
           <= RoundOff * Total("abs_total")
<1> DEFINE c == RoundOff - 2 * ReadValues
           D == DOMAIN parts
           Ar == [k \in D |-> parts[k].acc["abs_total"]]
           Fr == [k \in D |-> parts[k].acc[f]]
           Gr == [k \in D |-> parts[k].acc[g]]
           AF == [k \in D |-> Abs(parts[k].acc[f])]
           AG == [k \in D |-> Abs(parts[k].acc[g])]
           Br == [k \in D |-> Abs(parts[k].acc[f]) + Abs(parts[k].acc[g])]
           A == SumOf(Ar, D)
<1>1. IsFiniteSet(D)
  BY PartsAre
<1>2. \A k \in D : /\ parts[k].acc.abs_total = parts[k].acc["abs_total"]
                   /\ parts[k].acc[f] \in Int /\ parts[k].acc[g] \in Int
  BY PartsAre, FieldIs DEF PartType
<1>3. Total("abs_total") = A /\ Total(f) = SumOf(Fr, D) /\ Total(g) = SumOf(Gr, D)
  BY DEF Total, SumFunction, SumOf
<1>4. ASSUME NEW k \in D
      PROVE  /\ Ar[k] \in Int /\ Fr[k] \in Int /\ Gr[k] \in Int
             /\ AF[k] \in Int /\ AG[k] \in Int /\ Br[k] \in Int
             /\ AF[k] = Abs(Fr[k]) /\ AG[k] = Abs(Gr[k]) /\ Br[k] = AF[k] + AG[k]
             /\ c * Br[k] <= RoundOff * Ar[k]
  <2> DEFINE t == Held(k)
             a == parts[k].acc.abs_total
             h == Abs(parts[k].acc[f]) + Abs(parts[k].acc[g])
  <2>1. /\ t \in Nat /\ a \in Nat /\ c \in Nat \ {0} /\ c <= RoundOff - 2 * t
    BY HeldIs
  <2>2. (RoundOff - 2 * t) * h <= RoundOff * a
    BY <1>4 DEF Bounded
  <2>3. /\ Abs(parts[k].acc[f]) \in Nat /\ Abs(parts[k].acc[g]) \in Nat
    BY <1>2, <1>4, AbsIs
  <2>4. h \in Nat
    BY <2>3
  <2>5. Ar[k] = a /\ Br[k] = h
    BY <1>2, <1>4
  <2>6. /\ Ar[k] \in Int /\ Fr[k] \in Int /\ Gr[k] \in Int
        /\ AF[k] \in Int /\ AG[k] \in Int /\ Br[k] \in Int
        /\ AF[k] = Abs(Fr[k]) /\ AG[k] = Abs(Gr[k]) /\ Br[k] = AF[k] + AG[k]
    BY <1>2, <1>4, <2>1, <2>3, <2>5
  <2> HIDE DEF t, a, h, c, Ar, Br
  <2>7. c * h <= RoundOff * a
    <3>1. RoundOff - 2 * t \in Int /\ c \in Int
      BY <2>1, SizeFacts
    <3>2. c * h <= (RoundOff - 2 * t) * h
      BY <2>1, <2>4, <3>1, ProductGrows
    <3>3. c * h \in Int /\ (RoundOff - 2 * t) * h \in Int /\ RoundOff * a \in Int
      BY <2>1, <2>4, <3>1, SizeFacts
    <3> QED
      BY <2>2, <3>2, <3>3
  <2>8. c * Br[k] <= RoundOff * Ar[k]
    BY <2>5, <2>7, Zenon
  <2> QED
    BY <2>6, <2>8
<1>5. /\ Integers(Ar, D) /\ Integers(Fr, D) /\ Integers(Gr, D) /\ Integers(AF, D)
      /\ Integers(AG, D) /\ Integers(Br, D)
  BY <1>4 DEF Integers
<1>6. c \in Nat /\ c \in Int /\ RoundOff \in Int
  BY SizeFacts
<1> DEFINE F == SumOf(Fr, D)
           G == SumOf(Gr, D)
           B == SumOf(Br, D)
           p == SumOf(AF, D)
           q == SumOf(AG, D)
<1> HIDE DEF D, Ar, Fr, Gr, AF, AG, Br, c
<1>7. p \in Int /\ F \in Int /\ Abs(F) <= p
  BY <1>1, <1>4, <1>5, AbsOfSums
<1>8. q \in Int /\ G \in Int /\ Abs(G) <= q
  BY <1>1, <1>4, <1>5, AbsOfSums
<1>9. B = p + q
  BY <1>1, <1>4, <1>5, SumAdds
<1>10. c * B <= RoundOff * A
  BY <1>1, <1>4, <1>5, <1>6, SumsKeep
<1>11. A \in Int
  BY <1>1, <1>5, SumType
<1> HIDE DEF F, G, B, p, q, A
<1>12. Abs(F) \in Nat /\ Abs(G) \in Nat
  BY <1>7, <1>8, AbsIs
<1>13. Abs(F) + Abs(G) <= B /\ Abs(F) + Abs(G) \in Int /\ B \in Int
  BY <1>7, <1>8, <1>9, <1>12
<1>14. c * (Abs(F) + Abs(G)) <= c * B
  BY <1>6, <1>13, Times
<1>15. c * (Abs(F) + Abs(G)) <= RoundOff * A
  <2>1. c * (Abs(F) + Abs(G)) \in Int /\ c * B \in Int /\ RoundOff * A \in Int
    BY <1>6, <1>11, <1>13
  <2> QED
    BY <1>10, <1>14, <2>1
<1> QED
  BY <1>3, <1>15 DEF c, F, G

-----------------------------------------------------------------------------
(* The answer *)

(* With all reads done, everything is in parts. *)
LEMMA AllDone ==
  ASSUME BoundsInv, Combine
  PROVE  /\ AggregateType /\ SumsFit /\ Added = 0
         /\ \A f \in Counts \cup Summed : All(f) = Total(f)
         /\ AllErr = SumFunction(PartErr)
         /\ acc.maybe_min = Infinity /\ acc.maybe_max = MinusInfinity
<1>1. AggregateType /\ SumsFit /\ acc = Empty /\ block = None /\ size = 0
  BY DEF BoundsInv, Combine, NothingYet
<1>2. Added = 0
  BY <1>1, SizesAssumption DEF Added
<1>3. ASSUME NEW f \in Counts \cup Summed PROVE All(f) = Total(f)
  <2>1. Total(f) \in Int
    BY <1>1, TotalIs
  <2>2. acc[f] = 0
    BY <1>1, EmptyIs
  <2> QED
    BY <2>1, <2>2 DEF All
<1>4. AllErr = SumFunction(PartErr)
  <2>1. SumFunction(PartErr) \in Nat
    BY <1>1, PartErrIs
  <2>2. Err(Added, acc.abs_total) = 0
    BY <1>1, <1>2, EmptyIs
  <2> QED
    BY <2>1, <2>2 DEF AllErr
<1> QED
  BY <1>1, <1>2, <1>3, <1>4, EmptyIs

(* math.fsum *)
LEMMA fsumIs ==
  ASSUME AggregateType, NEW f \in Summed, NEW z \in fsum(f)
  PROVE  Total(f) \in Int /\ z \in Int /\ RoundOff * Abs(z - Total(f)) <= Abs(Total(f))
<1>1. Total(f) \in Int
  BY TotalIs
<1>2. CASE Len(parts) < 2
  <2>1. z = Total(f)
    BY <1>2 DEF fsum
  <2>2. z - Total(f) = 0 /\ Abs(0) = 0 /\ RoundOff * 0 = 0
    BY <1>1, <2>1, SizeFacts DEF Abs
  <2> QED
    BY <1>1, <2>1, <2>2, AbsIs
<1>3. CASE ~(Len(parts) < 2)
  <2> DEFINE x == Total(f)
  <2>1. x \in Int /\ z \in Rounded(x)
    BY <1>1, <1>3 DEF fsum
  <2> HIDE DEF x
  <2>2. z \in Int /\ RoundOff * Abs(z - x) <= Abs(x)
    BY <2>1, RoundedIs
  <2> QED
    BY <1>1, <2>2 DEF x
<1> QED
  BY <1>2, <1>3

(* What the answer says of the sums. *)
LEMMA WideAnswer ==
  ASSUME AggregateType, SumsFit,
         NEW l \in fsum("sure_sum_lo"), NEW h \in fsum("sure_sum_hi"),
         NEW neg \in fsum("maybe_sum_neg"), NEW pos \in fsum("maybe_sum_pos"),
         NEW products \in Rounded(slack), NEW wide \in Rounded(products),
         NEW sureLo \in Sums(l, -wide), NEW sureHi \in Sums(h, wide)
  PROVE  LET e == SumFunction(PartErr)
         IN  /\ sureLo \in Int /\ sureLo <= Total("sure_sum_lo") - e
             /\ sureLo + neg <= Total("sure_sum_lo") + Total("maybe_sum_neg") - e
             /\ sureHi \in Int /\ Total("sure_sum_hi") + e <= sureHi
             /\ Total("sure_sum_hi") + Total("maybe_sum_pos") + e <= sureHi + pos
             /\ neg \in Int /\ pos \in Int
<1> DEFINE e == SumFunction(PartErr)
           A == Total("abs_total")
           T == SumFunction(Terms)
           L == Total("sure_sum_lo")
           H == Total("sure_sum_hi")
           N == Total("maybe_sum_neg")
           P == Total("maybe_sum_pos")
<1>1. e \in Nat
  BY PartErrIs
<1>2. /\ T \in Nat /\ A \in Nat /\ slack = T \div RoundOff
      /\ (RoundOff - 2 * ReadValues) * e <= T - 3 * A
      /\ T <= (ReadValues + 2) * A
  BY SlackIs
<1>3. /\ "sure_sum_lo" \in Summed /\ "sure_sum_hi" \in Summed
      /\ "maybe_sum_neg" \in Summed /\ "maybe_sum_pos" \in Summed
  BY DEF Summed
<1>4. /\ L \in Int /\ l \in Int /\ RoundOff * Abs(l - L) <= Abs(L)
      /\ H \in Int /\ h \in Int /\ RoundOff * Abs(h - H) <= Abs(H)
  BY <1>3, fsumIs
<1>5. /\ N \in Int /\ neg \in Int /\ RoundOff * Abs(neg - N) <= Abs(N)
      /\ P \in Int /\ pos \in Int /\ RoundOff * Abs(pos - P) <= Abs(P)
  BY <1>3, fsumIs
<1>6. ASSUME NEW k \in DOMAIN parts
      PROVE  /\ Bounded(Held(k), parts[k].acc["sure_sum_lo"], parts[k].acc["maybe_sum_neg"],
                        parts[k].acc.abs_total)
             /\ Bounded(Held(k), parts[k].acc["sure_sum_hi"], parts[k].acc["maybe_sum_pos"],
                        parts[k].acc.abs_total)
  <2>1. /\ parts[k].acc["sure_sum_lo"] = parts[k].acc.sure_sum_lo
        /\ parts[k].acc["sure_sum_hi"] = parts[k].acc.sure_sum_hi
        /\ parts[k].acc["maybe_sum_neg"] = parts[k].acc.maybe_sum_neg
        /\ parts[k].acc["maybe_sum_pos"] = parts[k].acc.maybe_sum_pos
    OBVIOUS
  <2>2. Fits(Held(k), parts[k].acc)
    BY DEF SumsFit, Held
  <2> QED
    BY <2>1, <2>2, Zenon DEF Fits
<1>7. (RoundOff - 2 * ReadValues) * (Abs(L) + Abs(N)) <= RoundOff * A
  BY <1>3, <1>6, HeightsFit
<1>8. (RoundOff - 2 * ReadValues) * (Abs(H) + Abs(P)) <= RoundOff * A
  BY <1>3, <1>6, HeightsFit
<1>9. products \in Rounded(T \div RoundOff)
  BY <1>2
<1>10. slack \in Nat
  BY <1>2, SizeFacts, Quotient
<1>11. products \in Int
  BY <1>10, RoundedIs
<1>12. wide \in Int
  BY <1>11, RoundedIs
<1> HIDE DEF e, A, T, L, H, N, P
<1>13. sureLo \in Int /\ sureLo <= L - e /\ sureLo + neg <= L + N - e
  BY <1>1, <1>2, <1>4, <1>5, <1>7, <1>9, WideEnough
<1>14. sureHi \in Int /\ H + e <= sureHi /\ H + P + e <= sureHi + pos
  <2> DEFINE x == -h
             X == -H
             o == -pos
             O == -P
             y == -sureHi
  <2>1. sureHi \in Int
    BY <1>4, <1>12, SumsIs
  <2>2. y \in Sums(x, -wide)
    BY <1>4, <1>12, SumsMirror
  <2>3. /\ Abs(x - X) = Abs(h - H) /\ Abs(X) = Abs(H)
        /\ Abs(o - O) = Abs(pos - P) /\ Abs(O) = Abs(P)
    BY <1>4, <1>5 DEF Abs
  <2>4. x \in Int /\ X \in Int /\ o \in Int /\ O \in Int /\ y \in Int
    BY <1>4, <1>5, <2>1
  <2>5. /\ RoundOff * Abs(x - X) <= Abs(X) /\ RoundOff * Abs(o - O) <= Abs(O)
    BY <1>4, <1>5, <2>3, Zenon
  <2>6. (RoundOff - 2 * ReadValues) * (Abs(X) + Abs(O)) <= RoundOff * A
    BY <1>8, <2>3, Zenon
  <2>7. x = -h /\ X = -H /\ o = -pos /\ O = -P /\ y = -sureHi
    OBVIOUS
  <2> HIDE DEF x, X, o, O, y
  <2>8. y <= X - e /\ y + o <= X + O - e
    BY <1>1, <1>2, <1>9, <2>2, <2>4, <2>5, <2>6, WideEnough
  <2> QED
    BY <1>1, <1>4, <1>5, <2>1, <2>7, <2>8
<1> QED
  BY <1>5, <1>13, <1>14 DEF e, L, H, N, P

(* The mean that is computed from these bounds. *)
LEMMA MeanIsRight ==
  ASSUME NEW sureLo \in Int, NEW sureHi \in Int, NEW S \in Nat, NEW M \in Nat,
         S = Total("sure_count"), M = Total("maybe_count"),
         NEW mn \in Int, NEW mx \in Int, mn = maybe_min, mx = maybe_max,
         NEW K \in 0 .. M, NEW t \in Int, S + K > 0
  PROVE  /\ sureLo + K * mn <= t /\ t <= sureHi + K * mx
         /\ S = 0 => K * mn <= t /\ t <= K * mx
         => /\ Mean(sureLo, sureHi) # None
            /\ Leq(Mean(sureLo, sureHi).lo, Over(t, S + K))
            /\ Leq(Over(t, S + K), Mean(sureLo, sureHi).hi)
<1>1. SUFFICES ASSUME sureLo + K * mn <= t, t <= sureHi + K * mx,
                      S = 0 => K * mn <= t /\ t <= K * mx
               PROVE  /\ Mean(sureLo, sureHi) # None
                      /\ Leq(Mean(sureLo, sureHi).lo, Over(t, S + K))
                      /\ Leq(Over(t, S + K), Mean(sureLo, sureHi).hi)
  OBVIOUS
<1>2. ASSUME NEW p, NEW q PROVE [lo |-> p, hi |-> q] # None
  <2>1. DOMAIN [lo |-> p, hi |-> q] = {"lo", "hi"} /\ DOMAIN None = {"kind"}
    BY DEF None
  <2> QED
    BY <2>1
<1>3. CASE S > 0 /\ M = 0
  <2>1. Mean(sureLo, sureHi) = [lo |-> Over(sureLo, S), hi |-> Over(sureHi, S)]
    BY <1>3 DEF Mean
  <2>2. K = 0 /\ S + K = S /\ K * mn = 0 /\ K * mx = 0
    BY <1>3
  <2>3. sureLo <= t /\ t <= sureHi
    BY <1>1, <2>2
  <2>4. sureLo * S <= t * S /\ t * S <= sureHi * S
    BY <2>3, ProductGrows
  <2> QED
    BY <1>2, <2>1, <2>2, <2>4 DEF Leq, Over
<1>4. CASE S > 0 /\ M > 0
  <2>1. Mean(sureLo, sureHi) =
          [lo |-> Lower(Over(sureLo, S), Over(sureLo + M * mn, S + M)),
           hi |-> Upper(Over(sureHi, S), Over(sureHi + M * mx, S + M))]
    BY <1>4 DEF Mean
  <2>2. S \in Nat \ {0} /\ M \in Nat \ {0}
    BY <1>4
  <2>3. Leq(Lower(Over(sureLo, S), Over(sureLo + M * mn, S + M)), Over(t, S + K))
    BY <1>1, <2>2, MeanBelow
  <2>4. Leq(Over(t, S + K), Upper(Over(sureHi, S), Over(sureHi + M * mx, S + M)))
    BY <1>1, <2>2, MeanAbove
  <2> QED
    BY <1>2, <2>1, <2>3, <2>4
<1>5. CASE S = 0
  <2>1. M > 0 /\ S + K = K
    BY <1>5
  <2>2. Mean(sureLo, sureHi) = [lo |-> Over(mn, 1), hi |-> Over(mx, 1)]
    BY <1>5, <2>1 DEF Mean
  <2>3. mn * K <= t * 1 /\ t * 1 <= mx * K
    <3>1. mn * K = K * mn /\ mx * K = K * mx /\ t * 1 = t
      OBVIOUS
    <3> QED
      BY <1>1, <1>5, <3>1
  <2> QED
    BY <1>2, <2>1, <2>2, <2>3 DEF Leq, Over
<1> QED
  BY <1>3, <1>4, <1>5

(* Combine keeps the invariant: the answer is right. *)
LEMMA CombineStep ==
  ASSUME BoundsInv, Combine
  PROVE  BoundsInv'
<1>1. /\ AggregateType /\ SumsFit /\ Added = 0
      /\ \A f \in Counts \cup Summed : All(f) = Total(f)
      /\ AllErr = SumFunction(PartErr)
      /\ acc.maybe_min = Infinity /\ acc.maybe_max = MinusInfinity
  BY AllDone
<1>2. /\ block = None /\ size = 0 /\ UNCHANGED <<lo, hi, block, acc, size, parts, truth>>
  BY DEF Combine
<1>3. PICK l \in fsum("sure_sum_lo"), h \in fsum("sure_sum_hi"),
           neg \in fsum("maybe_sum_neg"), pos \in fsum("maybe_sum_pos") :
        \E products \in Rounded(slack) : \E wide \in Rounded(products) :
          \E sureLo \in Sums(l, -wide), sureHi \in Sums(h, wide) :
            answer' =
              [count |-> Total("rec_count"),
               original_count |-> [lo |-> Total("sure_count"),
                                   hi |-> Total("sure_count") + Total("maybe_count")],
               original_sum |-> [lo |-> sureLo + neg, hi |-> sureHi + pos],
               original_mean |-> Mean(sureLo, sureHi)]
  BY Zenon DEF Combine
<1>4. PICK products \in Rounded(slack) :
        \E wide \in Rounded(products) :
          \E sureLo \in Sums(l, -wide), sureHi \in Sums(h, wide) :
            answer' =
              [count |-> Total("rec_count"),
               original_count |-> [lo |-> Total("sure_count"),
                                   hi |-> Total("sure_count") + Total("maybe_count")],
               original_sum |-> [lo |-> sureLo + neg, hi |-> sureHi + pos],
               original_mean |-> Mean(sureLo, sureHi)]
  BY <1>3, Zenon
<1>5. PICK wide \in Rounded(products) :
        \E sureLo \in Sums(l, -wide), sureHi \in Sums(h, wide) :
          answer' =
            [count |-> Total("rec_count"),
             original_count |-> [lo |-> Total("sure_count"),
                                 hi |-> Total("sure_count") + Total("maybe_count")],
             original_sum |-> [lo |-> sureLo + neg, hi |-> sureHi + pos],
             original_mean |-> Mean(sureLo, sureHi)]
  BY <1>4, Zenon
<1>6. PICK sureLo \in Sums(l, -wide), sureHi \in Sums(h, wide) :
        answer' =
          [count |-> Total("rec_count"),
           original_count |-> [lo |-> Total("sure_count"),
                               hi |-> Total("sure_count") + Total("maybe_count")],
           original_sum |-> [lo |-> sureLo + neg, hi |-> sureHi + pos],
           original_mean |-> Mean(sureLo, sureHi)]
  BY <1>5, Zenon
<1> DEFINE e == SumFunction(PartErr)
           S == Total("sure_count")
           M == Total("maybe_count")
           C == Total("rec_count")
           L == Total("sure_sum_lo")
           H == Total("sure_sum_hi")
           N == Total("maybe_sum_neg")
           P == Total("maybe_sum_pos")
           mn == maybe_min
           mx == maybe_max
           K == truth.count - S
           t == truth.sum
<1>7. /\ sureLo \in Int /\ sureLo <= L - e /\ sureLo + neg <= L + N - e
      /\ sureHi \in Int /\ H + e <= sureHi /\ H + P + e <= sureHi + pos
      /\ neg \in Int /\ pos \in Int
  BY <1>1, WideAnswer
<1>8. /\ answer'.count = C /\ answer'.original_count.lo = S
      /\ answer'.original_count.hi = S + M
      /\ answer'.original_sum.lo = sureLo + neg /\ answer'.original_sum.hi = sureHi + pos
      /\ answer'.original_mean = Mean(sureLo, sureHi)
  BY <1>6
<1>9. /\ S \in Nat /\ M \in Nat /\ C \in Nat /\ L \in Int /\ H \in Int /\ N \in Int /\ P \in Int
      /\ e \in Nat /\ truth.count \in Nat /\ t \in Int
  <2>1. truth.count \in Nat /\ t \in Int
    BY <1>1 DEF AggregateType
  <2> QED
    BY <1>1, <2>1, TotalIs, PartErrIs DEF Counts, Summed
<1>10. /\ All("sure_count") = S /\ All("maybe_count") = M /\ All("rec_count") = C
       /\ All("sure_sum_lo") = L /\ All("sure_sum_hi") = H
       /\ All("maybe_sum_neg") = N /\ All("maybe_sum_pos") = P /\ AllErr = e
  BY <1>1 DEF Counts, Summed
<1>11. S <= truth.count /\ truth.count <= S + M
  <2>1. /\ All("sure_count") <= truth.count
        /\ truth.count <= All("sure_count") + All("maybe_count")
    BY DEF BoundsInv, CountEnclosed, All
  <2> QED
    BY <1>10, <2>1
<1>12. S <= C /\ C <= S + M
  BY <1>10 DEF BoundsInv, DecodedBetween
<1>13. L + N - e <= t /\ t <= H + P + e
  BY <1>10 DEF BoundsInv, SumBetween
<1>14. Others = K
  BY <1>10 DEF Others
<1>15. mn \in Int /\ mx \in Int /\ BelowOthers(mn) /\ AboveOthers(mx)
  BY <1>1, ExtremesAre DEF BelowOthers, AboveOthers
<1>16. /\ L - e + K * mn <= t /\ t <= H + e + K * mx
       /\ S = 0 => K * mn <= t /\ t <= K * mx
  <2>1. /\ All("sure_sum_lo") - AllErr + Others * mn <= truth.sum
        /\ truth.sum <= All("sure_sum_hi") + AllErr + Others * mx
        /\ All("sure_count") = 0 => Others * mn <= truth.sum /\ truth.sum <= Others * mx
    BY <1>15 DEF BoundsInv, OthersBetween
  <2> QED
    BY <1>10, <1>14, <2>1
<1> HIDE DEF e, L, H, N, P, C, t, K, S, M, mn, mx
<1>17. K \in 0 .. M /\ S + K = truth.count
  BY <1>9, <1>11 DEF K
<1>18. /\ sureLo + K * mn <= t /\ t <= sureHi + K * mx
       /\ sureLo + neg <= t /\ t <= sureHi + pos
  <2>1. K * mn \in Int /\ K * mx \in Int
    BY <1>15, <1>17
  <2> QED
    BY <1>7, <1>9, <1>13, <1>16, <2>1
<1>19. DecodedInside'
  <2>1. answer'.original_count.lo <= answer'.count /\ answer'.count <= answer'.original_count.hi
    BY <1>8, <1>12
  <2> QED
    BY <2>1 DEF DecodedInside
<1>20. SumEnclosed'
  <2>1. truth'.sum = t
    BY <1>2 DEF t
  <2>2. /\ answer'.original_sum.lo <= truth'.sum
        /\ truth'.sum <= answer'.original_sum.hi
    BY <1>8, <1>18, <2>1
  <2> QED
    BY <2>2 DEF SumEnclosed
<1>21. MeanEnclosed'
  <2> SUFFICES ASSUME truth'.count > 0
               PROVE  /\ answer'.original_mean # None
                      /\ Leq(answer'.original_mean.lo, Over(truth'.sum, truth'.count))
                      /\ Leq(Over(truth'.sum, truth'.count), answer'.original_mean.hi)
    BY DEF MeanEnclosed
  <2>1. truth'.count = S + K /\ truth'.sum = t /\ S + K > 0
    BY <1>2, <1>17 DEF t
  <2>2. S = Total("sure_count") /\ M = Total("maybe_count") /\ mn = maybe_min /\ mx = maybe_max
    BY DEF S, M, mn, mx
  <2>3. /\ Mean(sureLo, sureHi) # None
        /\ Leq(Mean(sureLo, sureHi).lo, Over(t, S + K))
        /\ Leq(Over(t, S + K), Mean(sureLo, sureHi).hi)
    BY <1>7, <1>9, <1>15, <1>16, <1>17, <1>18, <2>1, <2>2, MeanIsRight
  <2> QED
    BY <1>8, <2>1, <2>3, Zenon
<1>22. AnswerStays'
  BY <1>2 DEF AnswerStays
<1>23. /\ AggregateType' /\ NothingYet' /\ SumsFit' /\ CountEnclosed' /\ DecodedBetween'
       /\ SumBetween' /\ OthersBetween'
  <2>1. Added' = Added
    BY <1>2 DEF Added
  <2>2. AggregateType' /\ NothingYet'
    BY <1>1, <1>2 DEF AggregateType, NothingYet, BoundsInv
  <2> QED
    BY <1>2, <2>1, <2>2, FrameParts
<1> QED
  BY <1>19, <1>20, <1>21, <1>22, <1>23 DEF BoundsInv

-----------------------------------------------------------------------------
(* The theorem *)

(* The bounds hold in every reachable state.  BoundsInv is inductive: it adds *)
(* what the sums may be off (SumsFit, SumBetween) and what the uncertain     *)
(* values may add (OthersBetween) to the three properties.                   *)
THEOREM BoundsInvariant == AggregateSpec => []BoundsInv
<1>1. AggregateInit => BoundsInv
  BY BoundsInit
<1>2. BoundsInv /\ [AggregateNext]_aggregateVars => BoundsInv'
  <2> SUFFICES ASSUME BoundsInv, [AggregateNext]_aggregateVars PROVE BoundsInv'
    OBVIOUS
  <2>1. CASE StartBlock
    BY <2>1, StartBlockStep
  <2>2. ASSUME NEW r \in Values, AddValue(r) PROVE BoundsInv'
    BY <2>2, AddValueStep
  <2>3. CASE EndBlock
    BY <2>3, EndBlockStep
  <2>4. CASE EndRead
    BY <2>4, EndReadStep
  <2>5. CASE Combine
    BY <2>5, CombineStep
  <2>6. CASE UNCHANGED aggregateVars
    <3>1. UNCHANGED <<lo, hi, block, acc, size, parts, truth, answer>>
      BY <2>6 DEF aggregateVars
    <3>2. Added' = Added
      BY <3>1 DEF Added
    <3>3. AggregateType' /\ NothingYet'
      BY <3>1 DEF BoundsInv, AggregateType, NothingYet
    <3>4. /\ SumsFit' /\ CountEnclosed' /\ DecodedBetween' /\ SumBetween' /\ OthersBetween'
      BY <3>1, <3>2, <3>3, FrameParts
    <3>5. AnswerStays' /\ DecodedInside' /\ SumEnclosed' /\ MeanEnclosed'
      BY <3>1 DEF BoundsInv, AnswerStays, DecodedInside, SumEnclosed, MeanEnclosed
    <3> QED
      BY <3>3, <3>4, <3>5 DEF BoundsInv
  <2> QED
    BY <2>1, <2>2, <2>3, <2>4, <2>5, <2>6 DEF AggregateNext
<1> QED
  BY <1>1, <1>2, PTL DEF AggregateSpec

(* original_count always encloses the number of original values that match, *)
(* and, in the answer, the number of decoded values that do: a value is only *)
(* counted as sure or as impossible when its error bound says so           *)
(* (aggregate_block).                                                      *)
THEOREM CountsAlwaysEnclosed == AggregateSpec => []CountsEnclosed
<1>1. BoundsInv => CountsEnclosed
  BY DEF BoundsInv, CountsEnclosed
<1> QED
  BY <1>1, BoundsInvariant, PTL

(* original_sum of the answer encloses the sum of the original values that *)
(* match, for every read size, order of values and rounding of the sums: the *)
(* slack of combine is wide enough.                                        *)
THEOREM SumAlwaysEnclosed == AggregateSpec => []SumEnclosed
<1>1. BoundsInv => SumEnclosed
  BY DEF BoundsInv
<1> QED
  BY <1>1, BoundsInvariant, PTL

(* original_mean of the answer encloses the mean of the original values that *)
(* match, whichever of the uncertain ones do, and is there if any does.    *)
THEOREM MeanAlwaysEnclosed == AggregateSpec => []MeanEnclosed
<1>1. BoundsInv => MeanEnclosed
  BY DEF BoundsInv
<1> QED
  BY <1>1, BoundsInvariant, PTL

-----------------------------------------------------------------------------
(* Quotients, remainders and products *)

(* QuotientOf of a multiple. *)
LEMMA QuotientOf ==
  ASSUME NEW a \in Nat \ {0}, NEW d \in Nat \ {0}, a % d = 0
  PROVE  /\ a \div d \in Nat \ {0}
         /\ a = (a \div d) * d
  BY DivisionOf

(* QuotientOf of a number below a multiple. *)
LEMMA QuotientBound ==
  ASSUME NEW d \in Nat \ {0}, NEW g \in Nat, NEW n \in 0 .. g * d - 1
  PROVE  n \div d \in 0 .. g - 1
<1>0. n \in Nat
  OBVIOUS
<1>1. n \div d \in Nat /\ n = (n \div d) * d + (n % d) /\ n % d \in 0 .. d - 1
  BY <1>0, DivisionOf
<1>2. ASSUME n \div d >= g PROVE FALSE
  <2>1. g * d <= (n \div d) * d
    BY <1>1, <1>2, ProductGrows
  <2> QED BY <1>1, <2>1
<1> QED BY <1>1, <1>2

(* What GridAssumption says of the derived sizes. *)
LEMMA GridSizes ==
  /\ {ux, uy, uz, sx, sy, sz, gx, gy, gz, BlocksPerUnit, Workers} \subseteq Nat \ {0}
  /\ ux = gx * sx /\ uy = gy * sy /\ uz = gz * sz
  /\ {nSub, nChunk, blocksPerChunk, totalBlocks} \subseteq Nat \ {0}
<1>1. /\ {gx, gy, gz} \subseteq Nat \ {0}
      /\ ux = gx * sx /\ uy = gy * sy /\ uz = gz * sz
  BY GridAssumption, QuotientOf DEF gx, gy, gz
<1>2. sx * sy \in Nat \ {0} /\ gx * gy \in Nat \ {0}
  BY <1>1, GridAssumption, Positive
<1>3. nSub \in Nat \ {0} /\ nChunk \in Nat \ {0}
  BY <1>1, <1>2, GridAssumption, Positive DEF nSub, nChunk
<1>4. blocksPerChunk \in Nat \ {0} /\ totalBlocks \in Nat \ {0}
  BY <1>3, GridAssumption, Positive DEF blocksPerChunk, totalBlocks
<1> QED
  BY <1>1, <1>3, <1>4, GridAssumption

-----------------------------------------------------------------------------
(* The static schedule *)

(* The workers' shares lie one after the other and make up all chunks. *)
LEMMA Shares ==
  /\ FirstChunk(0) = 0 /\ FirstChunk(Workers) = nChunk
  /\ \A v \in 0 .. Workers : FirstChunk(v) \in 0 .. nChunk
  /\ \A v, w \in 0 .. Workers : v <= w => FirstChunk(v) <= FirstChunk(w)
<1> DEFINE q == nChunk \div Workers
           r == nChunk % Workers
           extra(v) == IF v < r THEN v ELSE r
<1>1. /\ nChunk \in Nat /\ Workers \in Nat \ {0}
      /\ q \in Nat /\ r \in 0 .. Workers - 1
      /\ nChunk = q * Workers + r
  BY GridSizes, DivisionOf
<1>2. \A v : FirstChunk(v) = v * q + extra(v)
  BY DEF FirstChunk
<1> HIDE DEF q, r
<1>3. ASSUME NEW v \in 0 .. Workers, NEW w \in 0 .. Workers, v <= w
      PROVE  v * q + extra(v) <= w * q + extra(w)
  <2>1. v * q <= w * q
    BY <1>1, <1>3, ProductGrows
  <2>2. extra(v) <= extra(w)
    BY <1>1, <1>3
  <2>3. v * q \in Int /\ w * q \in Int /\ extra(v) \in Int /\ extra(w) \in Int
    BY <1>1
  <2> HIDE DEF extra
  <2> QED
    BY <2>1, <2>2, <2>3
<1>4. 0 * q + extra(0) = 0
  BY <1>1
<1>5. Workers * q + extra(Workers) = nChunk
  BY <1>1
<1>6. \A v \in 0 .. Workers : v * q + extra(v) \in Int
  BY <1>1
<1>7. \A v \in 0 .. Workers : FirstChunk(v) \in Int
  BY <1>2, <1>6
<1>8. \A v, w \in 0 .. Workers : v <= w => FirstChunk(v) <= FirstChunk(w)
  BY <1>2, <1>3
<1>9. FirstChunk(0) = 0 /\ FirstChunk(Workers) = nChunk
  BY <1>2, <1>4, <1>5
<1> HIDE DEF extra
<1> QED
  BY <1>1, <1>7, <1>8, <1>9

(* Two workers never share a chunk. *)
LEMMA SharesDisjoint ==
  ASSUME NEW v \in Threads, NEW w \in Threads, v # w,
         NEW c \in FirstChunk(v) .. EndChunk(v) - 1
  PROVE  c \notin FirstChunk(w) .. EndChunk(w) - 1
<1>1. Workers \in Nat \ {0}
  BY GridSizes
<1>2. /\ v \in 0 .. Workers /\ v + 1 \in 0 .. Workers
      /\ w \in 0 .. Workers /\ w + 1 \in 0 .. Workers
  BY <1>1 DEF Threads
<1>3. /\ FirstChunk(v) \in Int /\ FirstChunk(v + 1) \in Int
      /\ FirstChunk(w) \in Int /\ FirstChunk(w + 1) \in Int
  BY <1>1, <1>2, Shares, GridSizes
<1>4. v + 1 <= w => FirstChunk(v + 1) <= FirstChunk(w)
  BY <1>2, Shares
<1>5. w + 1 <= v => FirstChunk(w + 1) <= FirstChunk(v)
  BY <1>2, Shares
<1>6. v + 1 <= w \/ w + 1 <= v
  BY <1>1 DEF Threads
<1> QED
  BY <1>3, <1>4, <1>5, <1>6 DEF EndChunk

(* Every share is one of chunks. *)
LEMMA ShareOfChunks ==
  ASSUME NEW w \in Threads
  PROVE  /\ FirstChunk(w) \in Nat /\ EndChunk(w) \in Nat
         /\ FirstChunk(w) <= EndChunk(w) /\ EndChunk(w) <= nChunk
         /\ \A c \in FirstChunk(w) .. EndChunk(w) - 1 : c \in Chunks
<1>1. Workers \in Nat \ {0} /\ nChunk \in Nat
  BY GridSizes
<1>2. w \in 0 .. Workers /\ w + 1 \in 0 .. Workers /\ w <= w + 1
  BY <1>1 DEF Threads
<1>3. FirstChunk(w) \in 0 .. nChunk /\ FirstChunk(w + 1) \in 0 .. nChunk
  BY <1>2, Shares
<1>4. FirstChunk(w) <= FirstChunk(w + 1)
  BY <1>2, Shares
<1> QED
  BY <1>1, <1>3, <1>4 DEF EndChunk, Chunks

(* Every chunk is some worker's: the one before the first whose share      *)
(* starts after it.                                                        *)
LEMMA SharesCover ==
  ASSUME NEW c \in Chunks
  PROVE  \E w \in Threads : c \in FirstChunk(w) .. EndChunk(w) - 1
<1> DEFINE Later == {v \in 0 .. Workers : c < FirstChunk(v)}
<1>1. Workers \in Nat \ {0} /\ nChunk \in Nat \ {0} /\ c \in Nat /\ c < nChunk
  BY GridSizes DEF Chunks
<1>2. Workers \in Later
  BY <1>1, Shares
<1>3. PICK v \in Later : \A u \in Later : v <= u
  <2>1. Later \subseteq Nat /\ Later # {}
    BY <1>1, <1>2
  <2> HIDE DEF Later
  <2> QED
    BY <2>1, LeastExists
<1>4. v # 0
  BY <1>1, Shares
<1>5. v - 1 \in Threads /\ v - 1 \in 0 .. Workers /\ (v - 1) + 1 = v /\ v - 1 \in Int
  BY <1>1, <1>4 DEF Threads
<1>6. v - 1 \notin Later
  BY <1>3, <1>5
<1>7. FirstChunk(v - 1) \in 0 .. nChunk /\ FirstChunk(v) \in 0 .. nChunk
  BY <1>5, Shares
<1>8. FirstChunk(v - 1) <= c
  BY <1>1, <1>5, <1>6, <1>7
<1>9. c < FirstChunk(v) /\ EndChunk(v - 1) = FirstChunk(v)
  BY <1>5 DEF EndChunk
<1> QED
  BY <1>1, <1>5, <1>7, <1>8, <1>9

-----------------------------------------------------------------------------
(* Where units are *)

(* a, b and c are the digits of number, the last two in bases B and C. *)
DigitsOf(number, A, B, C, a, b, c) ==
  /\ number \in 0 .. A * B * C - 1
  /\ number \div (B * C) = a
  /\ (number \div C) % B = b
  /\ number % C = c

(* Three digits make a number. *)
LEMMA Digits ==
  ASSUME NEW A \in Nat \ {0}, NEW B \in Nat \ {0}, NEW C \in Nat \ {0},
         NEW a \in 0 .. A - 1, NEW b \in 0 .. B - 1, NEW c \in 0 .. C - 1
  PROVE  DigitsOf((a * B + b) * C + c, A, B, C, a, b, c)
<1> DEFINE number == (a * B + b) * C + c
           low == b * C + c
<1>1. a * B + b \in 0 .. A * B - 1
  <2>1. (a + 1) * B <= A * B
    BY ProductGrows
  <2>2. (a + 1) * B = a * B + B
    OBVIOUS
  <2>3. a * B \in Nat /\ A * B \in Nat
    OBVIOUS
  <2> QED
    BY <2>1, <2>2, <2>3
<1>2. number \div C = a * B + b /\ number % C = c
  BY <1>1, Division
<1>3. (a * B + b) % B = b
  BY Division
<1>4. low \in 0 .. B * C - 1
  <2>1. (b + 1) * C <= B * C
    BY ProductGrows
  <2>2. (b + 1) * C = b * C + C
    OBVIOUS
  <2>3. b * C \in Nat /\ B * C \in Nat
    OBVIOUS
  <2> QED
    BY <2>1, <2>2, <2>3
<1>5. number = a * (B * C) + low
  OBVIOUS
<1>6. number \div (B * C) = a
  <2>1. B * C \in Nat \ {0}
    BY Positive
  <2> HIDE DEF low, number
  <2>2. (a * (B * C) + low) \div (B * C) = a
    <3> DEFINE d == B * C
    <3>1. d \in Nat \ {0} /\ low \in 0 .. d - 1
      BY <1>4, <2>1
    <3> HIDE DEF d
    <3>2. (a * d + low) \div d = a
      BY <3>1, Division
    <3> QED
      BY <3>2 DEF d
  <2> QED
    BY <1>5, <2>2
<1>7. number \in 0 .. A * B * C - 1
  <2> DEFINE m == a * B + b
             D == A * B
  <2>1. m \in 0 .. D - 1 /\ D \in Nat
    BY <1>1
  <2> HIDE DEF m, D
  <2>2. (m + 1) * C <= D * C
    BY <2>1, ProductGrows
  <2>3. (m + 1) * C = m * C + C /\ m * C \in Nat /\ D * C \in Nat
    BY <2>1
  <2>4. m * C + c \in 0 .. D * C - 1
    BY <2>2, <2>3
  <2> QED
    BY <2>4 DEF m, D
<1> QED
  BY <1>2, <1>3, <1>6, <1>7 DEF DigitsOf

(* A coordinate of a unit is that of its chunk and its place in the chunk. *)
LEMMA Coordinate ==
  ASSUME NEW g \in Nat \ {0}, NEW d \in Nat \ {0}, NEW n \in 0 .. g * d - 1
  PROVE  /\ n \div d \in 0 .. g - 1
         /\ n % d \in 0 .. d - 1
         /\ (n \div d) * d + (n % d) = n
<1>1. n \in Nat
  OBVIOUS
<1> QED
  BY <1>1, QuotientBound, DivisionOf

(* The position that the blocks of a unit have in the payload of its chunk: *)
(* the unit classified at that position is the unit.                       *)
LEMMA UnitAtPlace ==
  ASSUME NEW ix \in 0 .. ux - 1, NEW iy \in 0 .. uy - 1, NEW iz \in 0 .. uz - 1
  PROVE  LET chunk == ((ix \div sx) * gy + iy \div sy) * gz + iz \div sz
             sub == ((ix % sx) * sy + (iy % sy)) * sz + (iz % sz)
         IN  /\ chunk \in Chunks
             /\ sub \in 0 .. nSub - 1
             /\ Uid(chunk, sub) = (ix * uy + iy) * uz + iz
<1> DEFINE cx == ix \div sx
           cy == iy \div sy
           cz == iz \div sz
           px == ix % sx
           py == iy % sy
           pz == iz % sz
           chunk == (cx * gy + cy) * gz + cz
           sub == (px * sy + py) * sz + pz
<1>1. /\ gx \in Nat \ {0} /\ gy \in Nat \ {0} /\ gz \in Nat \ {0}
      /\ sx \in Nat \ {0} /\ sy \in Nat \ {0} /\ sz \in Nat \ {0}
      /\ ix \in 0 .. gx * sx - 1 /\ iy \in 0 .. gy * sy - 1 /\ iz \in 0 .. gz * sz - 1
  BY GridSizes
<1>2. cx \in 0 .. gx - 1 /\ px \in 0 .. sx - 1 /\ cx * sx + px = ix
  BY <1>1, Coordinate
<1>3. cy \in 0 .. gy - 1 /\ py \in 0 .. sy - 1 /\ cy * sy + py = iy
  BY <1>1, Coordinate
<1>4. cz \in 0 .. gz - 1 /\ pz \in 0 .. sz - 1 /\ cz * sz + pz = iz
  BY <1>1, Coordinate
<1> HIDE DEF cx, cy, cz, px, py, pz
<1>5. DigitsOf(chunk, gx, gy, gz, cx, cy, cz)
  BY <1>1, <1>2, <1>3, <1>4, Digits
<1>6. DigitsOf(sub, sx, sy, sz, px, py, pz)
  BY <1>1, <1>2, <1>3, <1>4, Digits
<1> HIDE DEF chunk, sub
<1>7. Uid(chunk, sub) = (ix * uy + iy) * uz + iz
  BY <1>2, <1>3, <1>4, <1>5, <1>6 DEF Uid, DigitsOf
<1>8. chunk \in Chunks /\ sub \in 0 .. nSub - 1
  BY <1>5, <1>6 DEF Chunks, nChunk, nSub, DigitsOf
<1> QED
  BY <1>7, <1>8 DEF chunk, sub, cx, cy, cz, px, py, pz

(* The place of a block in its unit and in its chunk. *)
LEMMA BlockAtPlace ==
  ASSUME NEW sub \in 0 .. nSub - 1, NEW b \in UnitBlocks
  PROVE  /\ sub * BlocksPerUnit + b \in ChunkBlocks
         /\ (sub * BlocksPerUnit + b) \div BlocksPerUnit = sub
         /\ (sub * BlocksPerUnit + b) % BlocksPerUnit = b
<1>1. nSub \in Nat \ {0} /\ BlocksPerUnit \in Nat \ {0} /\ b \in 0 .. BlocksPerUnit - 1
  BY GridSizes DEF UnitBlocks
<1>2. (sub + 1) * BlocksPerUnit <= nSub * BlocksPerUnit
  BY <1>1, ProductGrows
<1>3. /\ (sub + 1) * BlocksPerUnit = sub * BlocksPerUnit + BlocksPerUnit
      /\ sub * BlocksPerUnit \in Nat /\ nSub * BlocksPerUnit \in Nat
  BY <1>1
<1>4. sub * BlocksPerUnit + b \in ChunkBlocks
  BY <1>1, <1>2, <1>3 DEF ChunkBlocks, blocksPerChunk
<1>5. sub \in Nat
  BY <1>1
<1> QED
  BY <1>1, <1>4, <1>5, Division

(* A block of a chunk belongs to one of its units. *)
LEMMA UnitOfBlock ==
  ASSUME NEW b \in ChunkBlocks
  PROVE  b \div BlocksPerUnit \in 0 .. nSub - 1
  BY GridSizes, QuotientBound DEF ChunkBlocks, blocksPerChunk

-----------------------------------------------------------------------------
(* The inductive invariant *)

ToRead(c, b) == states[c][b] \in ListedClasses
Entry(c, b) == [chunk |-> c, block |-> b, state |-> states[c][b]]

(* The blocks to read among the first p of chunk c. *)
Rank(c, p) == Cardinality({b \in 0 .. p - 1 : states[c][b] \in ListedClasses})

(* Where block b of chunk c belongs in the list, once offsets are known. *)
Index(c, b) == nMaybe[c] + Rank(c, b)

(* The first s units of chunk c have been classified. *)
Right(c, s) ==
  \A b \in ChunkBlocks :
    b \div BlocksPerUnit < s =>
      states[c][b] = zoneMap[Uid(c, b \div BlocksPerUnit)][b % BlocksPerUnit]

(* Worker w has looked at block b of chunk c in pass 2. *)
Looked(w, c, b) == c < work[w].cid \/ (c = work[w].cid /\ b < work[w].pos)

Types ==
  /\ phase \in {"start", "pass1", "sum", "pass2", "done", "error"}
  /\ zoneMap \in ZoneMaps
  /\ states = [c \in Chunks |-> [b \in ChunkBlocks |-> states[c][b]]]
  /\ nMaybe = [c \in 0 .. nChunk |-> nMaybe[c]]
  /\ added \in 0 .. nChunk
  /\ work \in [Threads -> [cid : Nat, pos : Nat, k : Nat]]
  /\ list = [k \in 0 .. totalBlocks - 1 |-> list[k]]

(* Each worker is in its own share. *)
Shared ==
  /\ \A w \in Threads : work[w].cid \in FirstChunk(w) .. EndChunk(w)
  /\ combined \subseteq Threads
  /\ phase = "start" => work = LoopStart /\ combined = {}
  /\ phase = "pass1" => \A w \in combined : Finished(w)
  /\ phase = "pass1" => \A w \in Threads : work[w].pos <= nSub
  /\ phase = "pass2" => \A w \in Threads : work[w].pos < blocksPerChunk
  /\ phase = "done" => \A w \in Threads : Finished(w)

(* What the workers have left behind is classified and counted. *)
Classified ==
  /\ phase \in {"start", "pass1"} => added = 0
  /\ phase = "pass1" => \A w \in Threads :
       /\ \A c \in FirstChunk(w) .. work[w].cid - 1 :
            Right(c, nSub) /\ nMaybe[c + 1] = Rank(c, blocksPerChunk)
       /\ ~Finished(w) => Right(work[w].cid, work[w].pos)
  /\ phase \in {"sum", "pass2", "done"} => \A c \in Chunks : Right(c, nSub)

(* The counts that have been added up are offsets, the others counts. *)
Tallied ==
  /\ phase = "sum" =>
       \A c \in added .. nChunk - 1 : nMaybe[c + 1] = Rank(c, blocksPerChunk)
  /\ phase \in {"sum", "pass2", "done"} =>
       /\ nMaybe[0] = 0
       /\ \A c \in 0 .. added - 1 : nMaybe[c + 1] = Index(c, blocksPerChunk)
       /\ \A c \in 0 .. added : nMaybe[c] \in Nat /\ nMaybe[c] <= c * blocksPerChunk
       /\ \A c, d \in 0 .. added : c <= d => nMaybe[c] <= nMaybe[d]
  /\ phase \in {"pass2", "done"} => added = nChunk

(* The blocks looked at are in the list, and the list has nothing else. *)
Filled ==
  /\ phase \in {"start", "pass1", "sum"} => \A k \in 0 .. totalBlocks - 1 : list[k] = Unset
  /\ phase = "pass2" => \A w \in Threads :
       work[w].pos > 0 => work[w].k = Index(work[w].cid, work[w].pos)
  /\ phase \in {"pass2", "done"} =>
       /\ \A w \in Threads : \A c \in FirstChunk(w) .. EndChunk(w) - 1, b \in ChunkBlocks :
            ToRead(c, b) =>
              /\ Looked(w, c, b) => list[Index(c, b)] = Entry(c, b)
              /\ ~Looked(w, c, b) => list[Index(c, b)] = Unset
       /\ \A k \in nListed .. totalBlocks - 1 : list[k] = Unset

IInv == Types /\ Shared /\ Classified /\ Tallied /\ Filled

-----------------------------------------------------------------------------
(* Counting the blocks to read *)

(* Among no blocks none is to be read, and each further block adds itself. *)
LEMMA RankStep ==
  ASSUME NEW c, NEW p \in Nat
  PROVE  /\ Rank(c, p) \in Nat
         /\ Rank(c, 0) = 0
         /\ Rank(c, p + 1) = Rank(c, p) + (IF ToRead(c, p) THEN 1 ELSE 0)
<1> DEFINE Of(q) == {b \in 0 .. q - 1 : states[c][b] \in ListedClasses}
<1>1. IsFiniteSet(0 .. p - 1)
  BY FS_Interval
<1>2. IsFiniteSet(Of(p))
  BY <1>1, FS_Subset
<1>3. Of(0) = {}
  OBVIOUS
<1>4. Of(p + 1) = IF ToRead(c, p) THEN Of(p) \cup {p} ELSE Of(p)
  BY DEF ToRead
<1>5. p \notin Of(p)
  OBVIOUS
<1>6. Rank(c, p) = Cardinality(Of(p)) /\ Rank(c, 0) = Cardinality(Of(0))
        /\ Rank(c, p + 1) = Cardinality(Of(p + 1))
  BY DEF Rank
<1> HIDE DEF Of
<1>7. Cardinality(Of(p)) \in Nat
  BY <1>2, FS_CardinalityType
<1>8. Cardinality(Of(p) \cup {p}) = Cardinality(Of(p)) + 1
  BY <1>2, <1>5, FS_AddElement
<1> QED
  BY <1>3, <1>4, <1>6, <1>7, <1>8, FS_EmptySet

(* Of more blocks, as many or more are to be read. *)
LEMMA RankGrows ==
  ASSUME NEW c, NEW p \in Nat, NEW q \in Nat, p <= q
  PROVE  Rank(c, p) <= Rank(c, q)
<1> DEFINE Of(n) == {b \in 0 .. n - 1 : states[c][b] \in ListedClasses}
<1>1. IsFiniteSet(0 .. q - 1)
  BY FS_Interval
<1>2. IsFiniteSet(Of(q))
  BY <1>1, FS_Subset
<1>3. Of(p) \in SUBSET Of(q)
  OBVIOUS
<1> HIDE DEF Of
<1>4. Cardinality(Of(p)) <= Cardinality(Of(q))
  BY <1>2, <1>3, FS_Subset
<1> QED
  BY <1>4 DEF Rank, Of

(* No more blocks are to be read than there are. *)
LEMMA RankBounded ==
  ASSUME NEW c, NEW p \in Nat
  PROVE  Rank(c, p) <= p
<1> DEFINE Of == {b \in 0 .. p - 1 : states[c][b] \in ListedClasses}
<1>1. IsFiniteSet(0 .. p - 1) /\ Cardinality(0 .. p - 1) = p
  BY FS_Interval
<1>2. Of \in SUBSET (0 .. p - 1)
  OBVIOUS
<1> HIDE DEF Of
<1>3. Cardinality(Of) <= Cardinality(0 .. p - 1)
  BY <1>1, <1>2, FS_Subset
<1> QED
  BY <1>1, <1>3 DEF Rank, Of

(* What CountChunk counts. *)
LEMMA CountIsRank ==
  ASSUME NEW c
  PROVE  CountIn(c, ListedClasses) = Rank(c, blocksPerChunk)
  BY DEF CountIn, Rank, ChunkBlocks

(* Ranks depend on the classes of the chunk only. *)
LEMMA RankKept ==
  ASSUME NEW c, states'[c] = states[c], keepIn' = keepIn
  PROVE  \A p : Rank(c, p)' = Rank(c, p)
  BY DEF Rank, ListedClasses

(* Two blocks to read have places in the list in their own order, within   *)
(* the part of the list that their chunk's offsets leave it.               *)
LEMMA IndexInChunk ==
  ASSUME IInv, phase \in {"pass2", "done"},
         NEW c \in Chunks, NEW b \in ChunkBlocks, ToRead(c, b)
  PROVE  /\ Index(c, b) \in Nat
         /\ nMaybe[c] \in Nat /\ nMaybe[c + 1] \in Nat
         /\ nMaybe[c] <= Index(c, b)
         /\ Index(c, b) < nMaybe[c + 1]
         /\ nMaybe[c + 1] <= nListed /\ nListed <= totalBlocks
         /\ Index(c, b) \in 0 .. totalBlocks - 1
<1>1. nChunk \in Nat \ {0} /\ blocksPerChunk \in Nat \ {0} /\ totalBlocks \in Nat \ {0}
  BY GridSizes
<1>2. c \in Nat /\ c < nChunk /\ b \in Nat /\ b < blocksPerChunk
  BY <1>1 DEF Chunks, ChunkBlocks
<1>3. added = nChunk
  BY DEF IInv, Tallied
<1>4. /\ nMaybe[c + 1] = Index(c, blocksPerChunk)
      /\ nMaybe[c] \in Nat /\ nMaybe[c + 1] \in Nat /\ nMaybe[nChunk] \in Nat
      /\ nMaybe[c + 1] <= nMaybe[nChunk]
      /\ nMaybe[nChunk] <= nChunk * blocksPerChunk
  BY <1>1, <1>2, <1>3 DEF IInv, Tallied
<1>5. Rank(c, b) \in Nat /\ Rank(c, b + 1) = Rank(c, b) + 1
  BY <1>2, RankStep
<1>6. Rank(c, blocksPerChunk) \in Nat
  BY <1>1, RankStep
<1>7. Rank(c, b + 1) <= Rank(c, blocksPerChunk)
  BY <1>1, <1>2, RankGrows
<1>8. nListed = nMaybe[nChunk] /\ totalBlocks = nChunk * blocksPerChunk
  BY DEF nListed, totalBlocks
<1> QED
  BY <1>1, <1>4, <1>5, <1>6, <1>7, <1>8 DEF Index

(* Places are in the order of chunks and blocks. *)
LEMMA IndexOrdered ==
  ASSUME IInv, phase \in {"pass2", "done"},
         NEW c \in Chunks, NEW b \in ChunkBlocks, ToRead(c, b),
         NEW d \in Chunks, NEW e \in ChunkBlocks, ToRead(d, e),
         c < d \/ (c = d /\ b < e)
  PROVE  Index(c, b) < Index(d, e)
<1>1. nChunk \in Nat \ {0} /\ blocksPerChunk \in Nat \ {0}
  BY GridSizes
<1>2. c \in Nat /\ d \in Nat /\ d < nChunk /\ b \in Nat /\ e \in Nat
  BY <1>1 DEF Chunks, ChunkBlocks
<1>3. CASE c < d
  <2>1. nMaybe[c + 1] <= nMaybe[d]
    BY <1>1, <1>2, <1>3 DEF IInv, Tallied
  <2>2. Index(c, b) < nMaybe[c + 1] /\ Index(c, b) \in Nat /\ nMaybe[c + 1] \in Nat
    BY IndexInChunk
  <2>3. nMaybe[d] <= Index(d, e) /\ Index(d, e) \in Nat /\ nMaybe[d] \in Nat
    BY IndexInChunk
  <2> QED
    BY <2>1, <2>2, <2>3
<1>4. CASE c = d /\ b < e
  <2>1. Rank(c, b) \in Nat /\ Rank(c, b + 1) = Rank(c, b) + 1 /\ Rank(c, e) \in Nat
    BY <1>2, RankStep
  <2>2. Rank(c, b + 1) <= Rank(c, e)
    BY <1>2, <1>4, RankGrows
  <2>3. nMaybe[c] \in Nat
    BY IndexInChunk
  <2> QED
    BY <1>4, <2>1, <2>2, <2>3 DEF Index
<1> QED
  BY <1>3, <1>4

(* Different blocks have different places. *)
LEMMA IndexUnique ==
  ASSUME IInv, phase \in {"pass2", "done"},
         NEW c \in Chunks, NEW b \in ChunkBlocks, ToRead(c, b),
         NEW d \in Chunks, NEW e \in ChunkBlocks, ToRead(d, e),
         Index(c, b) = Index(d, e)
  PROVE  c = d /\ b = e
<1>1. c \in Int /\ d \in Int /\ b \in Int /\ e \in Int
  BY GridSizes DEF Chunks, ChunkBlocks
<1>2. Index(c, b) \in Nat /\ Index(d, e) \in Nat
  BY IndexInChunk
<1>3. ~(c < d \/ (c = d /\ b < e))
  BY <1>2, IndexOrdered
<1>4. ~(d < c \/ (d = c /\ e < b))
  BY <1>2, IndexOrdered
<1> QED
  BY <1>1, <1>3, <1>4

-----------------------------------------------------------------------------
(* The invariant holds at first and after every step *)

LEMMA InitIInv == Init => IInv
<1> SUFFICES ASSUME Init PROVE IInv
  OBVIOUS
<1>1. nChunk \in Nat \ {0} /\ blocksPerChunk \in Nat \ {0} /\ totalBlocks \in Nat \ {0}
  BY GridSizes
<1>2. \A w \in Threads : FirstChunk(w) \in Nat /\ FirstChunk(w) \in FirstChunk(w) .. EndChunk(w)
  BY ShareOfChunks
<1>3. Types
  <2>1. work \in [Threads -> [cid : Nat, pos : Nat, k : Nat]]
    BY <1>2 DEF Init, LoopStart
  <2> QED
    BY <1>1, <2>1 DEF Init, Types
<1>4. Shared
  BY <1>2 DEF Init, Shared, LoopStart
<1>5. Classified /\ Tallied /\ Filled
  BY DEF Init, Classified, Tallied, Filled
<1> QED
  BY <1>3, <1>4, <1>5 DEF IInv

LEMMA AllocateStep == IInv /\ Allocate => IInv'
<1> SUFFICES ASSUME IInv, Allocate PROVE IInv'
  OBVIOUS
<1> USE DEF IInv, Allocate
<1>1. nSub \in Nat \ {0}
  BY GridSizes
<1>2. \A w \in Threads : work[w].cid = FirstChunk(w) /\ work[w].pos = 0
  BY DEF Shared, LoopStart
<1>3. Types'
  BY DEF Types
<1>4. Shared'
  BY <1>1, <1>2 DEF Shared, Finished
<1>5. \A c : Right(c, 0)'
  <2>1. \A b \in ChunkBlocks : ~(b \div BlocksPerUnit < 0)
    BY UnitOfBlock, <1>1
  <2> QED
    BY <2>1 DEF Right
<1>6. Classified'
  <2>1. \A w \in Threads : FirstChunk(w) .. FirstChunk(w) - 1 = {}
    BY ShareOfChunks
  <2> QED
    BY <1>2, <1>5, <2>1 DEF Classified, Finished
<1>7. Tallied' /\ Filled'
  BY DEF Tallied, Filled
<1> QED
  BY <1>3, <1>4, <1>6, <1>7

(* Classify writes the next unit of the worker's own chunk only. *)
LEMMA ClassifyStep == ASSUME NEW w \in Threads PROVE IInv /\ Classify(w) => IInv'
<1> SUFFICES ASSUME IInv, Classify(w) PROVE IInv'
  OBVIOUS
<1> DEFINE cid == work[w].cid
           sub == work[w].pos
<1>1. /\ phase = "pass1" /\ phase' = "pass1" /\ ~Finished(w) /\ sub < nSub
      /\ states' = [states EXCEPT ![cid] =
           [b \in ChunkBlocks |->
              IF b \div BlocksPerUnit = sub
              THEN zoneMap[Uid(cid, sub)][b % BlocksPerUnit]
              ELSE states[cid][b]]]
      /\ work' = [work EXCEPT ![w].pos = sub + 1]
      /\ UNCHANGED <<zoneMap, keepIn, phase, nMaybe, added, private, combined, totals, list>>
  BY DEF Classify
<1>2. /\ Types /\ Shared /\ Classified /\ Tallied /\ Filled
  BY DEF IInv
<1>3. work[w] \in [cid : Nat, pos : Nat, k : Nat] /\ nSub \in Nat \ {0}
  BY <1>2, GridSizes DEF Types
<1>4. cid \in FirstChunk(w) .. EndChunk(w) - 1
  BY <1>1, <1>2, <1>3, ShareOfChunks DEF Shared, Finished
<1>5. cid \in Chunks
  BY <1>4, ShareOfChunks
<1>6. /\ \A v \in Threads : work'[v].cid = work[v].cid
      /\ work'[w].pos = sub + 1
      /\ \A v \in Threads : v # w => work'[v] = work[v]
  BY <1>1, <1>2 DEF Types
<1>7. /\ \A c \in Chunks : c # cid => states'[c] = states[c]
      /\ \A b \in ChunkBlocks :
           states'[cid][b] = IF b \div BlocksPerUnit = sub
                             THEN zoneMap[Uid(cid, sub)][b % BlocksPerUnit]
                             ELSE states[cid][b]
  BY <1>1, <1>2, <1>5 DEF Types
<1>8. Types'
  <2>1. states' = [c \in Chunks |-> [b \in ChunkBlocks |-> states'[c][b]]]
    BY <1>1, <1>2 DEF Types
  <2>2. work' \in [Threads -> [cid : Nat, pos : Nat, k : Nat]]
    BY <1>1, <1>2, <1>3 DEF Types
  <2> QED
    BY <1>1, <1>2, <2>1, <2>2 DEF Types
<1>9. Shared'
  <2>1. \A v \in Threads : Finished(v)' <=> Finished(v)
    BY <1>6 DEF Finished, EndChunk, FirstChunk
  <2>2. \A v \in Threads : work'[v].pos <= nSub
    BY <1>1, <1>2, <1>3, <1>6 DEF Shared
  <2> QED
    BY <1>1, <1>2, <1>6, <2>1, <2>2 DEF Shared
<1>10. Classified'
  <2>1. ASSUME NEW v \in Threads
        PROVE  /\ \A c \in FirstChunk(v) .. work[v].cid - 1 :
                    Right(c, nSub)' /\ nMaybe'[c + 1] = Rank(c, blocksPerChunk)'
               /\ v # w /\ ~Finished(v) => Right(work[v].cid, work[v].pos)'
    <3>1. work[v].cid \in FirstChunk(v) .. EndChunk(v)
      BY <1>2 DEF Shared
    <3>2. \A c \in FirstChunk(v) .. work[v].cid - 1 : c \in FirstChunk(v) .. EndChunk(v) - 1
      BY <3>1, ShareOfChunks
    <3>3. \A c \in FirstChunk(v) .. work[v].cid - 1 : c \in Chunks /\ c # cid
      BY <1>3, <1>4, <3>2, ShareOfChunks, SharesDisjoint
    <3>4. ASSUME NEW c \in FirstChunk(v) .. work[v].cid - 1
          PROVE  Right(c, nSub)' /\ nMaybe'[c + 1] = Rank(c, blocksPerChunk)'
      <4>1. states'[c] = states[c] /\ keepIn' = keepIn
        BY <1>1, <1>7, <3>3
      <4>2. Right(c, nSub) /\ nMaybe[c + 1] = Rank(c, blocksPerChunk)
        BY <1>1, <1>2 DEF Classified
      <4>3. Rank(c, blocksPerChunk)' = Rank(c, blocksPerChunk)
        BY <4>1, RankKept
      <4> QED
        BY <1>1, <4>1, <4>2, <4>3 DEF Right
    <3>5. ASSUME v # w, ~Finished(v)
          PROVE  Right(work[v].cid, work[v].pos)'
      <4>1. work[v].cid \in FirstChunk(v) .. EndChunk(v) - 1
        BY <3>1, <3>5, ShareOfChunks DEF Finished
      <4>2. work[v].cid \in Chunks /\ work[v].cid # cid
        BY <1>4, <3>5, <4>1, ShareOfChunks, SharesDisjoint
      <4>3. Right(work[v].cid, work[v].pos)
        BY <1>1, <1>2, <3>5 DEF Classified
      <4> QED
        BY <1>1, <1>6, <1>7, <3>5, <4>2, <4>3 DEF Right
    <3> QED
      BY <3>4, <3>5
  <2>2. Right(work[w].cid, work[w].pos)'
    <3>1. Right(cid, sub)
      BY <1>1, <1>2 DEF Classified
    <3>2. ASSUME NEW b \in ChunkBlocks, b \div BlocksPerUnit < sub + 1
          PROVE  states'[cid][b] = zoneMap[Uid(cid, b \div BlocksPerUnit)][b % BlocksPerUnit]
      <4>1. b \div BlocksPerUnit \in Nat
        BY UnitOfBlock, GridSizes
      <4>2. CASE b \div BlocksPerUnit = sub
        BY <1>7, <4>2
      <4>3. CASE b \div BlocksPerUnit < sub
        BY <1>7, <3>1, <4>3, <4>1, <1>3 DEF Right
      <4> QED
        BY <1>3, <3>2, <4>1, <4>2, <4>3
    <3> QED
      BY <1>1, <1>6, <3>2 DEF Right
  <2>3. /\ phase' = "pass1" /\ added' = 0
        /\ \A v \in Threads : Finished(v)' <=> Finished(v)
    BY <1>1, <1>2, <1>6 DEF Classified, Finished, EndChunk, FirstChunk
  <2>4. ASSUME NEW v \in Threads, ~Finished(v)'
        PROVE  Right(work[v].cid, work[v].pos)'
    BY <2>1, <2>2, <2>3, <2>4
  <2> QED
    BY <1>6, <2>1, <2>3, <2>4 DEF Classified
<1>11. Tallied' /\ Filled'
  BY <1>1, <1>2 DEF Tallied, Filled
<1> QED
  BY <1>8, <1>9, <1>10, <1>11 DEF IInv

(* CountChunk leaves a chunk of the worker's own share behind. *)
LEMMA CountChunkStep == ASSUME NEW w \in Threads PROVE IInv /\ CountChunk(w) => IInv'
<1> SUFFICES ASSUME IInv, CountChunk(w) PROVE IInv'
  OBVIOUS
<1> DEFINE cid == work[w].cid
<1>1. /\ phase = "pass1" /\ phase' = "pass1" /\ ~Finished(w) /\ work[w].pos = nSub
      /\ nMaybe' = [nMaybe EXCEPT ![cid + 1] = Rank(cid, blocksPerChunk)]
      /\ work' = [work EXCEPT ![w].cid = cid + 1, ![w].pos = 0]
      /\ UNCHANGED <<zoneMap, keepIn, phase, states, added, combined, totals, list>>
  BY CountIsRank DEF CountChunk
<1>2. /\ Types /\ Shared /\ Classified /\ Tallied /\ Filled
  BY DEF IInv
<1>3. work[w] \in [cid : Nat, pos : Nat, k : Nat] /\ nSub \in Nat \ {0} /\ nChunk \in Nat
  BY <1>2, GridSizes DEF Types
<1>4. cid \in FirstChunk(w) .. EndChunk(w) - 1
  BY <1>1, <1>2, <1>3, ShareOfChunks DEF Shared, Finished
<1>5. cid \in Chunks /\ cid + 1 \in 0 .. nChunk
  <2>1. cid \in Chunks
    BY <1>4, ShareOfChunks
  <2> QED
    BY <1>3, <2>1 DEF Chunks
<1>6. /\ work'[w].cid = cid + 1 /\ work'[w].pos = 0
      /\ \A v \in Threads : v # w => work'[v] = work[v]
  BY <1>1, <1>2 DEF Types
<1>7. /\ nMaybe'[cid + 1] = Rank(cid, blocksPerChunk)
      /\ \A c \in Chunks : c # cid => nMaybe'[c + 1] = nMaybe[c + 1]
  <2>1. \A c \in Chunks : c + 1 \in 0 .. nChunk /\ c \in Nat
    BY <1>3 DEF Chunks
  <2> QED
    BY <1>1, <1>2, <1>3, <1>5, <2>1 DEF Types
<1>8. Types'
  <2>1. work' \in [Threads -> [cid : Nat, pos : Nat, k : Nat]]
    BY <1>1, <1>2, <1>3 DEF Types
  <2>2. nMaybe' = [c \in 0 .. nChunk |-> nMaybe'[c]]
    BY <1>1, <1>2 DEF Types
  <2> QED
    BY <1>1, <1>2, <2>1, <2>2 DEF Types
<1>9. Shared'
  <2>1. work'[w].cid \in FirstChunk(w) .. EndChunk(w)
    BY <1>4, <1>6, ShareOfChunks
  <2>2. \A v \in Threads : work'[v].cid \in FirstChunk(v) .. EndChunk(v)
    BY <1>2, <1>6, <2>1 DEF Shared
  <2>3. \A v \in Threads : work[v].pos <= nSub
    BY <1>1, <1>2 DEF Shared
  <2>4. \A v \in Threads : work'[v].pos <= nSub
    BY <1>3, <1>6, <2>3
  <2>5. \A v \in combined : v # w /\ Finished(v)'
    BY <1>1, <1>2, <1>6 DEF Shared, Finished, EndChunk, FirstChunk
  <2> QED
    BY <1>1, <1>2, <2>2, <2>4, <2>5 DEF Shared
<1>10. \A c, n : Rank(c, n)' = Rank(c, n) /\ Right(c, n)' = Right(c, n)
  BY <1>1 DEF Rank, Right, ListedClasses
<1>11. \A c : Right(c, 0)
  <2>1. \A b \in ChunkBlocks : ~(b \div BlocksPerUnit < 0)
    BY UnitOfBlock, <1>3
  <2> QED
    BY <2>1 DEF Right
<1>12. Classified'
  <2>1. ASSUME NEW v \in Threads, NEW c \in FirstChunk(v) .. work'[v].cid - 1
        PROVE  Right(c, nSub) /\ nMaybe'[c + 1] = Rank(c, blocksPerChunk)
    <3>1. CASE v = w /\ c = cid
      <4>1. Right(cid, nSub)
        BY <1>1, <1>2 DEF Classified
      <4> QED
        BY <1>7, <3>1, <4>1
    <3>2. CASE ~(v = w /\ c = cid)
      <4>1. c \in FirstChunk(v) .. work[v].cid - 1
        BY <1>3, <1>6, <3>2, ShareOfChunks
      <4>2. Right(c, nSub) /\ nMaybe[c + 1] = Rank(c, blocksPerChunk)
        BY <1>1, <1>2, <4>1 DEF Classified
      <4>3. work[v].cid \in FirstChunk(v) .. EndChunk(v)
        BY <1>2 DEF Shared
      <4>4. c \in FirstChunk(v) .. EndChunk(v) - 1
        BY <4>1, <4>3, ShareOfChunks
      <4>5. c \in Chunks /\ c # cid
        BY <1>4, <3>2, <4>4, ShareOfChunks, SharesDisjoint
      <4> QED
        BY <1>7, <4>2, <4>5
    <3> QED
      BY <3>1, <3>2
  <2>2. ASSUME NEW v \in Threads, work'[v].cid # EndChunk(v)
        PROVE  Right(work'[v].cid, work'[v].pos)
    <3>1. CASE v = w
      BY <1>6, <1>11, <3>1
    <3>2. CASE v # w
      BY <1>1, <1>2, <1>6, <2>2, <3>2 DEF Classified, Finished
    <3> QED
      BY <3>1, <3>2
  <2>3. \A v \in Threads : Finished(v)' <=> work'[v].cid = EndChunk(v)
    BY DEF Finished, EndChunk, FirstChunk
  <2>4. phase' = "pass1" /\ added' = 0
    BY <1>1, <1>2 DEF Classified
  <2>5. \A v \in Threads : Right(work[v].cid, work[v].pos)' <=> Right(work'[v].cid, work'[v].pos)
    BY <1>1 DEF Right
  <2> QED
    BY <1>10, <2>1, <2>2, <2>3, <2>4, <2>5 DEF Classified
<1>13. Tallied' /\ Filled'
  BY <1>1, <1>2 DEF Tallied, Filled
<1> QED
  BY <1>8, <1>9, <1>12, <1>13 DEF IInv

LEMMA CombinePartStep == ASSUME NEW w \in Threads PROVE IInv /\ CombinePart(w) => IInv'
<1> SUFFICES ASSUME IInv, CombinePart(w) PROVE IInv'
  OBVIOUS
<1>1. /\ phase = "pass1" /\ phase' = "pass1" /\ Finished(w)
      /\ combined' = combined \cup {w}
      /\ UNCHANGED <<zoneMap, keepIn, phase, states, nMaybe, added, private, work, list>>
  BY DEF CombinePart
<1>2. /\ Types /\ Shared /\ Classified /\ Tallied /\ Filled
  BY DEF IInv
<1>3. Types'
  BY <1>1, <1>2 DEF Types
<1>4. \A v : Finished(v)' <=> Finished(v)
  BY <1>1 DEF Finished, EndChunk, FirstChunk
<1>5. Shared'
  BY <1>1, <1>2, <1>4 DEF Shared
<1>6. \A c, n : Rank(c, n)' = Rank(c, n) /\ Right(c, n)' = Right(c, n)
  BY <1>1 DEF Rank, Right, ListedClasses
<1>7. Classified'
  BY <1>1, <1>2, <1>4, <1>6 DEF Classified
<1>8. Tallied' /\ Filled'
  BY <1>1, <1>2 DEF Tallied, Filled
<1> QED
  BY <1>3, <1>5, <1>7, <1>8 DEF IInv

(* All workers done, all chunks are classified and counted. *)
LEMMA EndPass1Step == IInv /\ EndPass1 => IInv'
<1> SUFFICES ASSUME IInv, EndPass1 PROVE IInv'
  OBVIOUS
<1>1. /\ phase = "pass1" /\ phase' = "sum"
      /\ combined = Threads
      /\ nMaybe' = [nMaybe EXCEPT ![0] = 0]
      /\ UNCHANGED <<zoneMap, keepIn, states, added, private, combined, totals, work, list>>
  BY DEF EndPass1
<1>2. /\ Types /\ Shared /\ Classified /\ Tallied /\ Filled
  BY DEF IInv
<1>3. nChunk \in Nat \ {0} /\ blocksPerChunk \in Nat /\ added = 0
  BY <1>1, <1>2, GridSizes DEF Classified
<1>4. Types'
  <2>1. nMaybe' = [c \in 0 .. nChunk |-> nMaybe'[c]]
    BY <1>1, <1>2 DEF Types
  <2> QED
    BY <1>1, <1>2, <2>1 DEF Types
<1>5. /\ nMaybe'[0] = 0
      /\ \A c \in Chunks : nMaybe'[c + 1] = nMaybe[c + 1]
  <2>1. \A c \in Chunks : c + 1 \in 0 .. nChunk /\ c + 1 # 0
    BY <1>3 DEF Chunks
  <2>2. 0 \in 0 .. nChunk
    BY <1>3
  <2> QED
    BY <1>1, <1>2, <2>1, <2>2 DEF Types
<1>6. \A c, n : Rank(c, n)' = Rank(c, n) /\ Right(c, n)' = Right(c, n)
  BY <1>1 DEF Rank, Right, ListedClasses
<1>7. ASSUME NEW c \in Chunks
      PROVE  Right(c, nSub) /\ nMaybe[c + 1] = Rank(c, blocksPerChunk)
  <2>1. PICK w \in Threads : c \in FirstChunk(w) .. EndChunk(w) - 1
    BY SharesCover
  <2>2. c \in FirstChunk(w) .. work[w].cid - 1
    BY <1>1, <1>2, <2>1 DEF Shared, Finished
  <2> QED
    BY <1>1, <1>2, <2>2 DEF Classified
<1>8. Shared'
  BY <1>1, <1>2 DEF Shared
<1>9. Classified'
  BY <1>1, <1>6, <1>7 DEF Classified
<1>10. Tallied'
  <2>1. \A c \in 0 .. nChunk - 1 : nMaybe'[c + 1] = Rank(c, blocksPerChunk)
    BY <1>5, <1>7 DEF Chunks
  <2>2. 0 .. 0 - 1 = {} /\ 0 .. 0 = {0} /\ 0 * blocksPerChunk = 0
    BY <1>3
  <2> QED
    BY <1>1, <1>3, <1>5, <1>6, <2>1, <2>2 DEF Tallied
<1>11. Filled'
  BY <1>1, <1>2 DEF Filled
<1> QED
  BY <1>4, <1>8, <1>9, <1>10, <1>11 DEF IInv

(* AddUp makes one more count an offset. *)
LEMMA AddUpStep == IInv /\ AddUp => IInv'
<1> SUFFICES ASSUME IInv, AddUp PROVE IInv'
  OBVIOUS
<1>1. /\ phase = "sum" /\ phase' = "sum" /\ added < nChunk /\ added' = added + 1
      /\ nMaybe' = [nMaybe EXCEPT ![added + 1] = @ + nMaybe[added]]
      /\ UNCHANGED <<zoneMap, keepIn, states, private, combined, totals, work, list>>
  BY DEF AddUp
<1>2. /\ Types /\ Shared /\ Classified /\ Tallied /\ Filled
  BY DEF IInv
<1>3. /\ nChunk \in Nat \ {0} /\ blocksPerChunk \in Nat
      /\ added \in Nat /\ added + 1 \in 0 .. nChunk /\ added \in Chunks
  <2>1. nChunk \in Nat \ {0} /\ blocksPerChunk \in Nat
    BY GridSizes
  <2>2. added \in 0 .. nChunk
    BY <1>2 DEF Types
  <2> QED
    BY <1>1, <2>1, <2>2 DEF Chunks
<1>4. Types'
  <2>1. nMaybe' = [c \in 0 .. nChunk |-> nMaybe'[c]]
    BY <1>1, <1>2 DEF Types
  <2> QED
    BY <1>1, <1>2, <1>3, <2>1 DEF Types
<1>5. /\ nMaybe'[added + 1] = nMaybe[added + 1] + nMaybe[added]
      /\ \A c \in 0 .. nChunk : c # added + 1 => nMaybe'[c] = nMaybe[c]
  BY <1>1, <1>2, <1>3 DEF Types
<1>6. \A c, n : Rank(c, n)' = Rank(c, n) /\ Right(c, n)' = Right(c, n)
  BY <1>1 DEF Rank, Right, ListedClasses
<1>7. Shared' /\ Classified'
  BY <1>1, <1>2, <1>6 DEF Shared, Classified, Finished, EndChunk, FirstChunk
<1>8. nMaybe[added] \in Nat /\ nMaybe[added] <= added * blocksPerChunk
  BY <1>1, <1>2, <1>3 DEF Tallied
<1>9. /\ Rank(added, blocksPerChunk) \in Nat
      /\ Rank(added, blocksPerChunk) <= blocksPerChunk
  BY <1>3, RankStep, RankBounded
<1>10. nMaybe'[added + 1] = nMaybe[added] + Rank(added, blocksPerChunk)
  BY <1>1, <1>2, <1>3, <1>5, <1>8, <1>9 DEF Tallied
<1>11. (added + 1) * blocksPerChunk = added * blocksPerChunk + blocksPerChunk
  BY <1>3
<1>12. /\ nMaybe'[added + 1] \in Nat
       /\ nMaybe'[added + 1] <= (added + 1) * blocksPerChunk
       /\ nMaybe[added] <= nMaybe'[added + 1]
  <2>1. added * blocksPerChunk \in Nat
    BY <1>3
  <2> QED
    BY <1>3, <1>8, <1>9, <1>10, <1>11, <2>1
<1>13. Tallied'
  <2>1. \A c \in 0 .. added : nMaybe'[c] = nMaybe[c]
    BY <1>3, <1>5
  <2>2. \A c \in added + 1 .. nChunk - 1 : nMaybe'[c + 1] = Rank(c, blocksPerChunk)'
    BY <1>1, <1>2, <1>3, <1>5, <1>6 DEF Tallied
  <2>3. nMaybe'[0] = 0
    BY <1>1, <1>2, <1>3, <2>1 DEF Tallied
  <2>4. ASSUME NEW c \in 0 .. added
        PROVE  nMaybe'[c + 1] = nMaybe'[c] + Rank(c, blocksPerChunk)
    <3>1. CASE c = added
      BY <1>10, <2>1, <3>1
    <3>2. CASE c # added
      <4>1. c \in 0 .. added - 1 /\ c + 1 \in 0 .. added
        BY <1>3, <3>2
      <4> QED
        BY <1>1, <1>2, <2>1, <4>1 DEF Tallied, Index
    <3> QED
      BY <3>1, <3>2
  <2>5. \A c \in 0 .. added + 1 : nMaybe'[c] \in Nat /\ nMaybe'[c] <= c * blocksPerChunk
    <3>1. \A c \in 0 .. added : nMaybe'[c] \in Nat /\ nMaybe'[c] <= c * blocksPerChunk
      BY <1>1, <1>2, <2>1 DEF Tallied
    <3> QED
      BY <1>3, <1>12, <3>1
  <2>6. ASSUME NEW c \in 0 .. added + 1, NEW d \in 0 .. added + 1, c <= d
        PROVE  nMaybe'[c] <= nMaybe'[d]
    <3>1. CASE d # added + 1
      <4>1. c \in 0 .. added /\ d \in 0 .. added
        BY <1>3, <2>6, <3>1
      <4> QED
        BY <1>1, <1>2, <2>1, <2>6, <4>1 DEF Tallied
    <3>2. CASE d = added + 1 /\ c # added + 1
      <4>1. c \in 0 .. added /\ added \in 0 .. added /\ c <= added
        BY <1>3, <3>2
      <4>2. nMaybe[c] <= nMaybe[added] /\ nMaybe[c] \in Nat
        BY <1>1, <1>2, <4>1 DEF Tallied
      <4> QED
        BY <1>8, <1>12, <2>1, <3>2, <4>1, <4>2
    <3>3. CASE d = added + 1 /\ c = added + 1
      BY <1>12, <3>3
    <3> QED
      BY <3>1, <3>2, <3>3
  <2>7. \A c \in 0 .. added : nMaybe'[c + 1] = Index(c, blocksPerChunk)'
    BY <1>6, <2>4 DEF Index
  <2>8. 0 .. added' - 1 = 0 .. added
    BY <1>1, <1>3
  <2> QED
    BY <1>1, <2>2, <2>3, <2>5, <2>6, <2>7, <2>8 DEF Tallied
<1>14. Filled'
  BY <1>1, <1>2 DEF Filled
<1> QED
  BY <1>4, <1>7, <1>13, <1>14 DEF IInv

(* Before pass 2 no block has been looked at and no entry is set. *)
LEMMA StartPass2Step == IInv /\ StartPass2 => IInv'
<1> SUFFICES ASSUME IInv, StartPass2 PROVE IInv'
  OBVIOUS
<1>1. /\ phase = "sum" /\ phase' = "pass2" /\ added = nChunk
      /\ work' = LoopStart
      /\ UNCHANGED <<zoneMap, keepIn, states, nMaybe, added, private, combined, totals, list>>
  BY DEF StartPass2
<1>2. /\ Types /\ Shared /\ Classified /\ Tallied /\ Filled
  BY DEF IInv
<1>3. nChunk \in Nat \ {0} /\ blocksPerChunk \in Nat \ {0} /\ totalBlocks \in Nat
  BY GridSizes
<1>4. \A w \in Threads : FirstChunk(w) \in Nat /\ FirstChunk(w) \in FirstChunk(w) .. EndChunk(w)
  BY ShareOfChunks
<1>5. \A w \in Threads : work'[w].cid = FirstChunk(w) /\ work'[w].pos = 0 /\ work'[w].k = 0
  BY <1>1 DEF LoopStart
<1>6. Types'
  <2>1. work' \in [Threads -> [cid : Nat, pos : Nat, k : Nat]]
    BY <1>1, <1>4 DEF LoopStart
  <2> QED
    BY <1>1, <1>2, <2>1 DEF Types
<1>7. Shared'
  BY <1>1, <1>2, <1>3, <1>4, <1>5 DEF Shared
<1>8. \A c, n : Rank(c, n)' = Rank(c, n) /\ Right(c, n)' = Right(c, n)
  BY <1>1 DEF Rank, Right, ListedClasses
<1>9. Classified' /\ Tallied'
  BY <1>1, <1>2, <1>8 DEF Classified, Tallied, Index
<1>10. \A k \in 0 .. totalBlocks - 1 : list'[k] = Unset
  BY <1>1, <1>2 DEF Filled
<1>11. nListed' \in Nat
  BY <1>1, <1>2, <1>3 DEF nListed, Tallied
<1>12. ASSUME NEW w \in Threads, NEW c \in FirstChunk(w) .. EndChunk(w) - 1,
              NEW b \in ChunkBlocks, ToRead(c, b)'
       PROVE  ~Looked(w, c, b)' /\ list'[Index(c, b)'] = Unset
  <2>1. ~Looked(w, c, b)'
    BY <1>3, <1>4, <1>5 DEF Looked, ChunkBlocks
  <2>2. c \in Chunks
    BY ShareOfChunks
  <2>3. Index(c, b)' \in 0 .. totalBlocks - 1
    <3>1. c \in Nat /\ c < nChunk /\ b \in Nat /\ b < blocksPerChunk
      BY <1>3, <2>2 DEF Chunks, ChunkBlocks
    <3>2. /\ nMaybe[c + 1] = Index(c, blocksPerChunk)
          /\ nMaybe[c] \in Nat /\ nMaybe[c + 1] \in Nat /\ nMaybe[nChunk] \in Nat
          /\ nMaybe[c + 1] <= nMaybe[nChunk]
          /\ nMaybe[nChunk] <= nChunk * blocksPerChunk
      BY <1>1, <1>2, <1>3, <3>1 DEF Tallied
    <3>3. Rank(c, b) \in Nat /\ Rank(c, b + 1) = Rank(c, b) + 1
      BY <1>1, <1>12, <3>1, RankStep DEF ToRead, ListedClasses
    <3>4. Rank(c, b + 1) <= Rank(c, blocksPerChunk) /\ Rank(c, blocksPerChunk) \in Nat
      BY <1>3, <3>1, RankGrows, RankStep
    <3>5. Index(c, b) \in 0 .. totalBlocks - 1
      BY <1>3, <3>2, <3>3, <3>4 DEF Index, totalBlocks
    <3> QED
      BY <1>1, <1>8, <3>5 DEF Index
  <2> QED
    BY <1>10, <2>1, <2>3
<1>13. Filled'
  <2>1. \A w \in Threads : ~(work'[w].pos > 0)
    BY <1>5
  <2>2. \A k \in nListed' .. totalBlocks - 1 : list'[k] = Unset
    BY <1>10, <1>11
  <2> QED
    BY <1>1, <1>12, <2>1, <2>2 DEF Filled
<1> QED
  BY <1>6, <1>7, <1>9, <1>13 DEF IInv

(* Until the last block of a chunk, a worker's index is that of the blocks *)
(* before it.                                                              *)
LEMMA ListIndexIsIndex ==
  ASSUME IInv, phase = "pass2", NEW w \in Threads, ~Finished(w)
  PROVE  /\ work[w].cid \in FirstChunk(w) .. EndChunk(w) - 1
         /\ work[w].cid \in Chunks
         /\ work[w].pos \in ChunkBlocks
         /\ ListIndex(w) = Index(work[w].cid, work[w].pos)
<1>1. work[w] \in [cid : Nat, pos : Nat, k : Nat]
  BY DEF IInv, Types
<1>2. work[w].cid \in FirstChunk(w) .. EndChunk(w) - 1
  BY <1>1, ShareOfChunks DEF IInv, Shared, Finished
<1>3. work[w].cid \in Chunks
  BY <1>2, ShareOfChunks
<1>4. blocksPerChunk \in Nat
  BY GridSizes
<1>5. work[w].pos \in ChunkBlocks
  BY <1>1, <1>4 DEF IInv, Shared, ChunkBlocks
<1>6. CASE work[w].pos = 0
  <2>1. added = nChunk /\ nChunk \in Nat
    BY GridSizes DEF IInv, Tallied
  <2>2. nMaybe[work[w].cid] \in Nat
    BY <1>3, <2>1 DEF IInv, Tallied, Chunks
  <2>3. Rank(work[w].cid, 0) = 0
    BY RankStep
  <2> QED
    BY <1>2, <1>3, <1>5, <1>6, <2>2, <2>3 DEF ListIndex, Index
<1>7. CASE work[w].pos > 0
  BY <1>1, <1>2, <1>3, <1>5, <1>7 DEF ListIndex, IInv, Filled
<1> QED
  BY <1>1, <1>6, <1>7

(* A worker writes where nothing has been written. *)
LEMMA WritesUnset ==
  ASSUME IInv, phase = "pass2", NEW w \in Threads, ~Finished(w),
         ToRead(work[w].cid, work[w].pos)
  PROVE  list[ListIndex(w)] = Unset
<1> DEFINE cid == work[w].cid
           b == work[w].pos
<1>1. /\ cid \in FirstChunk(w) .. EndChunk(w) - 1
      /\ b \in ChunkBlocks /\ ListIndex(w) = Index(cid, b)
  BY ListIndexIsIndex
<1>2. cid \in Int /\ b \in Int
  BY DEF IInv, Types
<1>3. ~Looked(w, cid, b)
  BY <1>2 DEF Looked
<1> QED
  BY <1>1, <1>3 DEF IInv, Filled

LEMMA WriteBlockStep == ASSUME NEW w \in Threads PROVE IInv /\ WriteBlock(w) => IInv'
<1> SUFFICES ASSUME IInv, WriteBlock(w) PROVE IInv'
  OBVIOUS
<1> DEFINE cid == work[w].cid
           b == work[w].pos
           k == ListIndex(w)
           last == b = blocksPerChunk - 1
<1>1. /\ phase = "pass2" /\ phase' = "pass2" /\ ~Finished(w)
      /\ list' = IF ToRead(cid, b) THEN [list EXCEPT ![k] = Entry(cid, b)] ELSE list
      /\ work' = [work EXCEPT ![w] =
           [cid |-> IF last THEN cid + 1 ELSE cid,
            pos |-> IF last THEN 0 ELSE b + 1,
            k |-> IF ToRead(cid, b) THEN k + 1 ELSE k]]
      /\ UNCHANGED <<zoneMap, keepIn, phase, states, nMaybe, added, private, combined, totals>>
  BY DEF WriteBlock, ToRead, Entry
<1>2. /\ Types /\ Shared /\ Classified /\ Tallied /\ Filled
  BY DEF IInv
<1>3. /\ cid \in FirstChunk(w) .. EndChunk(w) - 1 /\ cid \in Chunks
      /\ b \in ChunkBlocks /\ k = Index(cid, b)
  BY <1>1, ListIndexIsIndex
<1>4. /\ nChunk \in Nat \ {0} /\ blocksPerChunk \in Nat \ {0}
      /\ totalBlocks \in Nat /\ added = nChunk
  BY <1>1, <1>2, GridSizes DEF Tallied
<1>5. cid \in Nat /\ cid < nChunk /\ b \in Nat /\ b < blocksPerChunk
  BY <1>3, <1>4 DEF Chunks, ChunkBlocks
<1>6. nMaybe[cid] \in Nat
  BY <1>1, <1>2, <1>4, <1>5 DEF Tallied
<1>7. /\ Rank(cid, b) \in Nat
      /\ Rank(cid, b + 1) = Rank(cid, b) + (IF ToRead(cid, b) THEN 1 ELSE 0)
  BY <1>5, RankStep
<1>8. k \in Nat
  BY <1>3, <1>6, <1>7 DEF Index
<1>9. /\ work'[w] = [cid |-> IF last THEN cid + 1 ELSE cid,
                     pos |-> IF last THEN 0 ELSE b + 1,
                     k |-> IF ToRead(cid, b) THEN k + 1 ELSE k]
      /\ \A v \in Threads : v # w => work'[v] = work[v]
  BY <1>1, <1>2 DEF Types
<1>10. /\ work'[w].cid = IF last THEN cid + 1 ELSE cid
       /\ work'[w].pos = IF last THEN 0 ELSE b + 1
       /\ work'[w].k = IF ToRead(cid, b) THEN k + 1 ELSE k
  BY <1>9
<1> HIDE DEF cid, b, k, last
<1>11. Types'
  <2>1. work'[w] \in [cid : Nat, pos : Nat, k : Nat]
    BY <1>5, <1>8, <1>9
  <2>2. work' \in [Threads -> [cid : Nat, pos : Nat, k : Nat]]
    BY <1>1, <1>2, <1>9, <2>1 DEF Types
  <2>3. list' = [j \in 0 .. totalBlocks - 1 |-> list'[j]]
    BY <1>1, <1>2 DEF Types
  <2> QED
    BY <1>1, <1>2, <2>2, <2>3 DEF Types
<1>12. Shared'
  <2>1. work'[w].cid \in FirstChunk(w) .. EndChunk(w)
    BY <1>3, <1>5, <1>10, ShareOfChunks DEF last
  <2>2. work'[w].pos < blocksPerChunk
    BY <1>4, <1>5, <1>10 DEF last
  <2>3. \A v \in Threads : work'[v].cid \in FirstChunk(v) .. EndChunk(v)
    BY <1>2, <1>9, <2>1 DEF Shared
  <2>4. \A v \in Threads : work'[v].pos < blocksPerChunk
    BY <1>1, <1>2, <1>9, <2>2 DEF Shared
  <2> QED
    BY <1>1, <1>2, <2>3, <2>4 DEF Shared
<1>13. /\ \A c, n : Rank(c, n)' = Rank(c, n) /\ Right(c, n)' = Right(c, n)
       /\ \A c, n : Index(c, n)' = Index(c, n) /\ ToRead(c, n)' = ToRead(c, n)
       /\ \A c, n : Entry(c, n)' = Entry(c, n)
       /\ nListed' = nListed
  BY <1>1 DEF Rank, Right, ListedClasses, Index, ToRead, Entry, nListed
<1>14. Classified' /\ Tallied'
  BY <1>1, <1>2, <1>13 DEF Classified, Tallied
<1>15. /\ ToRead(cid, b) => list'[k] = Entry(cid, b)
       /\ \A j \in 0 .. totalBlocks - 1 : j # k \/ ~ToRead(cid, b) => list'[j] = list[j]
  <2>1. ToRead(cid, b) => k \in 0 .. totalBlocks - 1
    BY <1>1, <1>3, IndexInChunk
  <2> QED
    BY <1>1, <1>2, <2>1 DEF Types
<1>16. ASSUME NEW v \in Threads, work'[v].pos > 0
       PROVE  work'[v].k = Index(work'[v].cid, work'[v].pos)
  <2>1. CASE v = w
    <3>1. ~last /\ work'[w].cid = cid /\ work'[w].pos = b + 1
      BY <1>5, <1>10, <1>16, <2>1
    <3>2. work'[w].k = nMaybe[cid] + Rank(cid, b + 1)
      BY <1>3, <1>6, <1>7, <1>10 DEF Index
    <3> QED
      BY <2>1, <3>1, <3>2 DEF Index
  <2>2. CASE v # w
    BY <1>1, <1>2, <1>9, <1>16, <2>2 DEF Filled
  <2> QED
    BY <2>1, <2>2
<1>17. ASSUME NEW v \in Threads, NEW c \in FirstChunk(v) .. EndChunk(v) - 1,
              NEW e \in ChunkBlocks, ToRead(c, e)
       PROVE  /\ Looked(v, c, e)' => list'[Index(c, e)] = Entry(c, e)
              /\ ~Looked(v, c, e)' => list'[Index(c, e)] = Unset
  <2>1. c \in Chunks /\ c \in Int /\ e \in Int /\ e < blocksPerChunk
    BY <1>4, ShareOfChunks DEF ChunkBlocks, Chunks
  <2>2. Index(c, e) \in 0 .. totalBlocks - 1
    BY <1>1, <1>17, <2>1, IndexInChunk
  <2>3. CASE c = cid /\ e = b
    <3>1. v = w
      BY <1>3, <2>3, SharesDisjoint
    <3>2. Looked(v, c, e)'
      BY <1>5, <1>10, <2>3, <3>1 DEF Looked
    <3> QED
      BY <1>3, <1>15, <1>17, <2>3, <3>2
  <2>4. CASE ~(c = cid /\ e = b)
    <3>1. ToRead(cid, b) => Index(c, e) # k
      BY <1>1, <1>3, <1>17, <2>1, <2>4, IndexUnique
    <3>2. list'[Index(c, e)] = list[Index(c, e)]
      BY <1>15, <2>2, <3>1
    <3>3. Looked(v, c, e)' <=> Looked(v, c, e)
      <4>1. CASE v = w
        <5>1. Looked(w, c, e) <=> (c < cid \/ (c = cid /\ e < b))
          BY DEF Looked, cid, b
        <5>2. Looked(w, c, e)' <=> (c < work'[w].cid \/ (c = work'[w].cid /\ e < work'[w].pos))
          BY DEF Looked
        <5>3. CASE last
          <6>1. work'[w].cid = cid + 1 /\ work'[w].pos = 0 /\ b = blocksPerChunk - 1
            BY <1>10, <5>3 DEF last
          <6>2. e >= 0
            BY <1>17 DEF ChunkBlocks
          <6>3. (c < cid + 1 \/ (c = cid + 1 /\ e < 0)) <=> (c < cid \/ (c = cid /\ e < b))
            BY <1>4, <1>5, <2>1, <2>4, <6>1, <6>2
          <6> QED
            BY <4>1, <5>1, <5>2, <6>1, <6>3
        <5>4. CASE ~last
          <6>1. work'[w].cid = cid /\ work'[w].pos = b + 1
            BY <1>10, <5>4
          <6>2. (c < cid \/ (c = cid /\ e < b + 1)) <=> (c < cid \/ (c = cid /\ e < b))
            BY <1>5, <2>1, <2>4
          <6> QED
            BY <4>1, <5>1, <5>2, <6>1, <6>2
        <5> QED
          BY <5>3, <5>4
      <4>2. CASE v # w
        BY <1>9, <4>2 DEF Looked
      <4> QED
        BY <4>1, <4>2
    <3>4. /\ Looked(v, c, e) => list[Index(c, e)] = Entry(c, e)
          /\ ~Looked(v, c, e) => list[Index(c, e)] = Unset
      BY <1>1, <1>2, <1>17 DEF Filled
    <3> QED
      BY <3>2, <3>3, <3>4
  <2> QED
    BY <2>3, <2>4
<1>18. \A j \in nListed .. totalBlocks - 1 : list'[j] = Unset
  <2>1. nListed \in Nat
    BY <1>1, <1>2, <1>4 DEF Tallied, nListed
  <2>2. ToRead(cid, b) => k < nListed
    <3> SUFFICES ASSUME ToRead(cid, b) PROVE k < nListed
      OBVIOUS
    <3>1. k < nMaybe[cid + 1] /\ nMaybe[cid + 1] <= nListed /\ nMaybe[cid + 1] \in Nat
      BY <1>1, <1>3, IndexInChunk
    <3> QED
      BY <1>8, <2>1, <3>1
  <2>3. \A j \in nListed .. totalBlocks - 1 : list[j] = Unset
    BY <1>1, <1>2 DEF Filled
  <2> QED
    BY <1>8, <1>15, <2>1, <2>2, <2>3
<1>19. Filled'
  <2>1. \A v \in Threads :
          work'[v].pos > 0 => work'[v].k = Index(work[v].cid, work[v].pos)'
    BY <1>1, <1>16 DEF Index, Rank, ListedClasses
  <2> QED
    BY <1>1, <1>13, <1>17, <1>18, <2>1 DEF Filled
<1> QED
  BY <1>11, <1>12, <1>14, <1>19 DEF IInv

(* After pass 2 all blocks have been looked at. *)
LEMMA ReturnStep == IInv /\ Return => IInv'
<1> SUFFICES ASSUME IInv, Return PROVE IInv'
  OBVIOUS
<1>1. /\ phase = "pass2" /\ phase' = "done" /\ \A w \in Threads : Finished(w)
      /\ UNCHANGED <<zoneMap, keepIn, states, nMaybe, added, private, combined, totals, work, list>>
  BY DEF Return, AtBarrier
<1>2. /\ Types /\ Shared /\ Classified /\ Tallied /\ Filled
  BY DEF IInv
<1>3. Types' /\ Shared'
  BY <1>1, <1>2 DEF Types, Shared, Finished, EndChunk, FirstChunk
<1>4. /\ \A c, n : Rank(c, n)' = Rank(c, n) /\ Right(c, n)' = Right(c, n)
      /\ \A c, n : Index(c, n)' = Index(c, n) /\ ToRead(c, n)' = ToRead(c, n)
      /\ \A c, n : Entry(c, n)' = Entry(c, n)
      /\ \A w, c, n : Looked(w, c, n)' = Looked(w, c, n)
      /\ nListed' = nListed
  BY <1>1 DEF Rank, Right, ListedClasses, Index, ToRead, Entry, nListed, Looked
<1>5. Classified' /\ Tallied'
  BY <1>1, <1>2, <1>4 DEF Classified, Tallied
<1>6. Filled'
  BY <1>1, <1>2, <1>4 DEF Filled
<1> QED
  BY <1>3, <1>5, <1>6 DEF IInv

LEMMA StutterStep == IInv /\ UNCHANGED vars => IInv'
<1> SUFFICES ASSUME IInv, UNCHANGED vars PROVE IInv'
  OBVIOUS
<1>1. UNCHANGED <<zoneMap, keepIn, phase, states, nMaybe, added, private, combined, totals,
                  work, list>>
  BY DEF vars
<1>2. Types' /\ Shared'
  BY <1>1 DEF IInv, Types, Shared, Finished, EndChunk, FirstChunk
<1>3. /\ \A c, n : Rank(c, n)' = Rank(c, n) /\ Right(c, n)' = Right(c, n)
      /\ \A c, n : Index(c, n)' = Index(c, n) /\ ToRead(c, n)' = ToRead(c, n)
      /\ \A c, n : Entry(c, n)' = Entry(c, n)
      /\ \A w, c, n : Looked(w, c, n)' = Looked(w, c, n)
      /\ nListed' = nListed
  BY <1>1 DEF Rank, Right, ListedClasses, Index, ToRead, Entry, nListed, Looked
<1>4. Classified' /\ Tallied'
  BY <1>1, <1>3 DEF IInv, Classified, Tallied, Finished, EndChunk, FirstChunk
<1>5. Filled'
  BY <1>1, <1>3 DEF IInv, Filled
<1> QED
  BY <1>2, <1>4, <1>5 DEF IInv

(* Every step keeps the invariant. *)
LEMMA Inductive == IInv /\ [Next]_vars => IInv'
  BY AllocateStep, ClassifyStep, CountChunkStep, CombinePartStep, EndPass1Step, AddUpStep,
     StartPass2Step, WriteBlockStep, ReturnStep, StutterStep, Zenon DEF Next

LEMMA Invariance == Spec => []IInv
  BY InitIInv, Inductive, PTL DEF Spec

-----------------------------------------------------------------------------
(* The theorems *)

(* The unit of every block listed is the one whose record was classified,  *)
(* for any grid of units, any chunks and any number of workers.            *)
THEOREM UnitsAlwaysPlaced == Spec => []UnitsPlaced
<1>1. IInv => UnitsPlaced
  <2> SUFFICES ASSUME IInv, phase \in {"pass2", "done"},
                      NEW ix \in 0 .. ux - 1, NEW iy \in 0 .. uy - 1, NEW iz \in 0 .. uz - 1,
                      NEW b \in UnitBlocks
               PROVE  LET unitNo == (ix * uy + iy) * uz + iz
                          chunk == ((ix \div sx) * gy + iy \div sy) * gz + iz \div sz
                          sub == ((ix % sx) * sy + (iy % sy)) * sz + (iz % sz)
                      IN  states[chunk][sub * BlocksPerUnit + b] = zoneMap[unitNo][b]
    BY DEF UnitsPlaced
  <2> DEFINE unitNo == (ix * uy + iy) * uz + iz
             chunk == ((ix \div sx) * gy + iy \div sy) * gz + iz \div sz
             sub == ((ix % sx) * sy + (iy % sy)) * sz + (iz % sz)
  <2>1. chunk \in Chunks /\ sub \in 0 .. nSub - 1 /\ Uid(chunk, sub) = unitNo
    BY UnitAtPlace
  <2> HIDE DEF unitNo, chunk, sub
  <2>2. nSub \in Nat
    BY GridSizes
  <2>3. /\ sub * BlocksPerUnit + b \in ChunkBlocks
        /\ (sub * BlocksPerUnit + b) \div BlocksPerUnit = sub
        /\ (sub * BlocksPerUnit + b) % BlocksPerUnit = b
    BY <2>1, BlockAtPlace
  <2>4. Right(chunk, nSub)
    BY <2>1 DEF IInv, Classified
  <2>5. states[chunk][sub * BlocksPerUnit + b] = zoneMap[unitNo][b]
    BY <2>1, <2>2, <2>3, <2>4 DEF Right
  <2> QED
    BY <2>5 DEF unitNo, chunk, sub
<1> QED
  BY <1>1, Invariance, PTL

(* No worker ever overwrites what it or another has written to the list.   *)
THEOREM EntriesAlwaysKept == Spec => EntriesKept
<1>1. IInv /\ [Next]_vars =>
        [\A k \in DOMAIN list : list[k] # Unset => list'[k] = list[k]]_vars
  <2> SUFFICES ASSUME IInv, Next
               PROVE  \A k \in DOMAIN list : list[k] # Unset => list'[k] = list[k]
    OBVIOUS
  <2>1. ASSUME NEW w \in Threads, WriteBlock(w)
        PROVE  \A k \in DOMAIN list : list[k] # Unset => list'[k] = list[k]
    <3>1. ~Finished(w) /\ phase = "pass2"
      BY <2>1 DEF WriteBlock
    <3>2. CASE ToRead(work[w].cid, work[w].pos)
      <4>1. list[ListIndex(w)] = Unset
        BY <3>1, <3>2, WritesUnset
      <4> QED
        BY <2>1, <3>2, <4>1 DEF WriteBlock, ToRead
    <3>3. CASE ~ToRead(work[w].cid, work[w].pos)
      BY <2>1, <3>3 DEF WriteBlock, ToRead
    <3> QED
      BY <3>2, <3>3
  <2>2. ASSUME \A w \in Threads : ~WriteBlock(w)
        PROVE  list' = list
    BY <2>2 DEF Next, Allocate, EndPass1, AddUp, StartPass2, Return, Classify, CountChunk,
               CombinePart
  <2> QED
    BY <2>1, <2>2
<1> QED
  BY <1>1, Invariance, PTL DEF Spec, EntriesKept

(* The offsets leave every chunk the room that its blocks still need.      *)
THEOREM RoomAlwaysLeft == Spec => []RoomLeft
<1>1. IInv => RoomLeft
  <2> SUFFICES ASSUME IInv, phase = "pass2", NEW w \in Threads, ~Finished(w)
               PROVE  LET cid == work[w].cid
                          left == {b \in work[w].pos .. blocksPerChunk - 1 :
                                     states[cid][b] \in ListedClasses}
                      IN  ListIndex(w) + Cardinality(left) = nMaybe[cid + 1]
    BY DEF RoomLeft
  <2> DEFINE cid == work[w].cid
             p == work[w].pos
             left == {b \in p .. blocksPerChunk - 1 : states[cid][b] \in ListedClasses}
             seen == {b \in 0 .. p - 1 : states[cid][b] \in ListedClasses}
             all == {b \in 0 .. blocksPerChunk - 1 : states[cid][b] \in ListedClasses}
  <2>1. cid \in Chunks /\ p \in ChunkBlocks /\ ListIndex(w) = Index(cid, p)
    BY ListIndexIsIndex
  <2>2. nChunk \in Nat /\ blocksPerChunk \in Nat /\ added = nChunk
    BY GridSizes DEF IInv, Tallied
  <2>3. nMaybe[cid] \in Nat /\ nMaybe[cid + 1] = nMaybe[cid] + Rank(cid, blocksPerChunk)
    BY <2>1, <2>2 DEF IInv, Tallied, Index, Chunks
  <2>4. p \in Nat /\ p < blocksPerChunk
    BY <2>1, <2>2 DEF ChunkBlocks
  <2>5. Cardinality(all) = Cardinality(seen) + Cardinality(left)
    <3>1. IsFiniteSet(0 .. blocksPerChunk - 1)
      BY <2>2, FS_Interval
    <3>2. IsFiniteSet(seen) /\ IsFiniteSet(left)
      <4>1. seen \in SUBSET (0 .. blocksPerChunk - 1) /\ left \in SUBSET (0 .. blocksPerChunk - 1)
        BY <2>2, <2>4
      <4> HIDE DEF seen, left
      <4> QED
        BY <3>1, <4>1, FS_Subset
    <3>3. all = seen \cup left /\ seen \cap left = {}
      BY <2>2, <2>4
    <3> HIDE DEF all, seen, left
    <3>4. Cardinality(seen) \in Nat /\ Cardinality(left) \in Nat
      BY <3>2, FS_CardinalityType
    <3>5. Cardinality(seen \cup left) = Cardinality(seen) + Cardinality(left) - Cardinality({})
      BY <3>2, <3>3, FS_Union
    <3> QED
      BY <3>3, <3>4, <3>5, FS_EmptySet
  <2>6. Rank(cid, blocksPerChunk) = Cardinality(all) /\ Rank(cid, p) = Cardinality(seen)
    BY DEF Rank
  <2>7. Cardinality(seen) \in Nat /\ Cardinality(all) \in Nat
    BY <2>2, <2>4, <2>6, RankStep
  <2>8. Cardinality(left) \in Nat
    <3>1. IsFiniteSet(p .. blocksPerChunk - 1)
      BY <2>2, <2>4, FS_Interval
    <3>2. left \in SUBSET (p .. blocksPerChunk - 1)
      OBVIOUS
    <3> HIDE DEF left
    <3>3. IsFiniteSet(left)
      BY <3>1, <3>2, FS_Subset
    <3> QED
      BY <3>3, FS_CardinalityType
  <2> HIDE DEF all, seen, left, cid, p
  <2>9. ListIndex(w) + Cardinality(left) = nMaybe[cid + 1]
    BY <2>1, <2>3, <2>5, <2>6, <2>7, <2>8 DEF Index
  <2> QED
    BY <2>9 DEF left, cid, p
<1> QED
  BY <1>1, Invariance, PTL

(* Every place of the list below its length is that of a block to read.    *)
LEMMA IndexOnto ==
  ASSUME IInv, phase = "done", NEW k \in 0 .. nListed - 1
  PROVE  \E c \in Chunks, b \in ChunkBlocks : ToRead(c, b) /\ Index(c, b) = k
<1>1. nChunk \in Nat \ {0} /\ blocksPerChunk \in Nat \ {0} /\ added = nChunk
  BY GridSizes DEF IInv, Tallied
<1>2. /\ nMaybe[0] = 0
      /\ \A c \in 0 .. nChunk : nMaybe[c] \in Nat
      /\ \A c \in 0 .. nChunk - 1 : nMaybe[c + 1] = nMaybe[c] + Rank(c, blocksPerChunk)
  BY <1>1 DEF IInv, Tallied, Index
<1>3. k \in Nat /\ k < nMaybe[nChunk]
  BY <1>1, <1>2 DEF nListed
<1>4. PICK c \in Chunks : nMaybe[c] <= k /\ k < nMaybe[c + 1]
  <2> DEFINE Beyond == {d \in Chunks : k < nMaybe[d + 1]}
  <2>1. nChunk - 1 \in Beyond
    BY <1>1, <1>3 DEF Chunks
  <2>2. Beyond \subseteq Nat
    BY <1>1 DEF Chunks
  <2>3. PICK c \in Beyond : \A d \in Beyond : c <= d
    <3> HIDE DEF Beyond
    <3> QED
      BY <2>1, <2>2, LeastExists
  <2>4. CASE c = 0
    BY <1>2, <1>3, <2>3, <2>4
  <2>5. CASE c # 0
    <3>1. c - 1 \in Chunks /\ ~(c <= c - 1) /\ (c - 1) + 1 = c /\ c \in 0 .. nChunk
      BY <1>1, <2>5 DEF Chunks
    <3>2. ~(k < nMaybe[c])
      BY <2>3, <3>1
    <3> QED
      BY <1>2, <1>3, <2>3, <3>1, <3>2
  <2> QED
    BY <2>4, <2>5
<1>5. /\ c \in 0 .. nChunk /\ nMaybe[c] \in Nat
      /\ nMaybe[c + 1] = nMaybe[c] + Rank(c, blocksPerChunk)
  BY <1>1, <1>2 DEF Chunks
<1> DEFINE r == k - nMaybe[c]
<1>6. r \in Nat /\ r < Rank(c, blocksPerChunk) /\ k = nMaybe[c] + r
  <2>1. Rank(c, blocksPerChunk) \in Nat
    BY <1>1, RankStep
  <2> QED
    BY <1>3, <1>4, <1>5, <2>1
<1> HIDE DEF r
<1>7. PICK b \in ChunkBlocks : Rank(c, b) <= r /\ r < Rank(c, b + 1)
  <2> DEFINE Beyond == {e \in ChunkBlocks : r < Rank(c, e + 1)}
  <2>1. blocksPerChunk - 1 \in Beyond
    <3>1. blocksPerChunk - 1 \in ChunkBlocks /\ (blocksPerChunk - 1) + 1 = blocksPerChunk
      BY <1>1 DEF ChunkBlocks
    <3> QED
      BY <1>6, <3>1
  <2>2. Beyond \subseteq Nat
    BY <1>1 DEF ChunkBlocks
  <2>3. PICK b \in Beyond : \A e \in Beyond : b <= e
    <3> HIDE DEF Beyond
    <3> QED
      BY <2>1, <2>2, LeastExists
  <2>4. CASE b = 0
    <3>1. Rank(c, 0) = 0
      BY RankStep
    <3> QED
      BY <1>6, <2>3, <2>4, <3>1
  <2>5. CASE b # 0
    <3>1. b - 1 \in ChunkBlocks /\ ~(b <= b - 1) /\ (b - 1) + 1 = b /\ b \in Nat
      BY <1>1, <2>5 DEF ChunkBlocks
    <3>2. ~(r < Rank(c, b))
      BY <2>3, <3>1
    <3>3. Rank(c, b) \in Nat
      BY <3>1, RankStep
    <3> QED
      BY <1>6, <2>3, <3>2, <3>3
  <2> QED
    BY <2>4, <2>5
<1>8. b \in Nat
  BY <1>1 DEF ChunkBlocks
<1>9. /\ Rank(c, b) \in Nat
      /\ Rank(c, b + 1) = Rank(c, b) + (IF ToRead(c, b) THEN 1 ELSE 0)
  BY <1>8, RankStep
<1>10. ToRead(c, b)
  BY <1>6, <1>7, <1>9
<1>11. Rank(c, b) = r
  BY <1>6, <1>7, <1>9, <1>10
<1> QED
  BY <1>6, <1>10, <1>11 DEF Index

(* When the planner returns, every block to read is at its place.          *)
LEMMA ListedAtIndex ==
  ASSUME IInv, phase = "done", NEW c \in Chunks, NEW b \in ChunkBlocks, ToRead(c, b)
  PROVE  list[Index(c, b)] = Entry(c, b) /\ Index(c, b) \in 0 .. nListed - 1
<1>1. PICK w \in Threads : c \in FirstChunk(w) .. EndChunk(w) - 1
  BY SharesCover
<1>2. work[w].cid = EndChunk(w)
  BY DEF IInv, Shared, Finished
<1>3. Looked(w, c, b)
  BY <1>1, <1>2, ShareOfChunks DEF Looked
<1>4. list[Index(c, b)] = Entry(c, b)
  BY <1>1, <1>3 DEF IInv, Filled
<1>5. nListed \in Nat
  BY GridSizes DEF IInv, Tallied, nListed
<1>6. Index(c, b) \in Nat /\ Index(c, b) < nMaybe[c + 1]
        /\ nMaybe[c + 1] \in Nat /\ nMaybe[c + 1] <= nListed
  BY IndexInChunk
<1> QED
  BY <1>4, <1>5, <1>6

(* The list that the planner returns has every block to read once, in      *)
(* order, with its class, and nothing else, whatever the workers' order.   *)
THEOREM ListAlwaysSorted == Spec => []ListSorted
<1>1. IInv => ListSorted
  <2> SUFFICES ASSUME IInv, phase = "done" PROVE ListSorted
    BY DEF ListSorted
  <2>1. ASSUME NEW k \in 0 .. nListed - 1
        PROVE  list[k] \in Listed /\ (list[k].state = In => keepIn)
    <3>1. PICK c \in Chunks, b \in ChunkBlocks : ToRead(c, b) /\ Index(c, b) = k
      BY IndexOnto
    <3>2. list[k] = Entry(c, b)
      BY <3>1, ListedAtIndex
    <3>3. states[c][b] \in {In, Maybe} /\ (states[c][b] = In => keepIn)
      BY <3>1 DEF ToRead, ListedClasses, In, Maybe
    <3> QED
      BY <3>2, <3>3 DEF Entry, Listed
  <2>2. ASSUME NEW k \in 1 .. nListed - 1
        PROVE  Follows(list[k - 1], list[k])
    <3>1. nListed \in Nat
      BY GridSizes DEF IInv, Tallied, nListed
    <3>2. k - 1 \in 0 .. nListed - 1 /\ k \in 0 .. nListed - 1
      BY <3>1
    <3>3. PICK c \in Chunks, b \in ChunkBlocks : ToRead(c, b) /\ Index(c, b) = k - 1
      BY <3>2, IndexOnto
    <3>4. PICK d \in Chunks, e \in ChunkBlocks : ToRead(d, e) /\ Index(d, e) = k
      BY <3>2, IndexOnto
    <3>5. list[k - 1] = Entry(c, b) /\ list[k] = Entry(d, e)
      BY <3>3, <3>4, ListedAtIndex
    <3>6. c \in Int /\ d \in Int /\ b \in Int /\ e \in Int
      BY GridSizes DEF Chunks, ChunkBlocks
    <3>7. ~(d < c \/ (d = c /\ e < b))
      <4> SUFFICES ASSUME d < c \/ (d = c /\ e < b) PROVE FALSE
        OBVIOUS
      <4>1. Index(d, e) < Index(c, b)
        BY <3>3, <3>4, IndexOrdered
      <4> QED
        BY <3>2, <3>3, <3>4, <4>1
    <3>8. ~(c = d /\ b = e)
      BY <3>2, <3>3, <3>4
    <3>9. c < d \/ (c = d /\ b < e)
      BY <3>6, <3>7, <3>8
    <3> QED
      BY <3>5, <3>9 DEF Follows, Entry
  <2>3. ASSUME NEW c \in Chunks, NEW b \in ChunkBlocks,
               states[c][b] = Maybe \/ (keepIn /\ states[c][b] = In)
        PROVE  \E k \in 0 .. nListed - 1 :
                 list[k] = [chunk |-> c, block |-> b, state |-> states[c][b]]
    <3>1. ToRead(c, b)
      BY <2>3 DEF ToRead, ListedClasses
    <3> QED
      BY <3>1, ListedAtIndex DEF Entry
  <2>4. \A k \in nListed .. totalBlocks - 1 : list[k] = Unset
    BY DEF IInv, Filled
  <2> QED
    BY <2>1, <2>2, <2>3, <2>4 DEF ListSorted
<1> QED
  BY <1>1, Invariance, PTL

-----------------------------------------------------------------------------
(* The totals *)

(* The blocks of the chunks cs that are in one of the classes. *)
BlocksIn(st, classes, cs) == {x \in cs \X ChunkBlocks : st[x[1]][x[2]] \in classes}
CountOf(st, classes, cs) == Cardinality(BlocksIn(st, classes, cs))
InChunk(st, classes, c) == {b \in ChunkBlocks : st[c][b] \in classes}

(* The chunks of the workers ws. *)
SharesOf(ws) == {c \in Chunks : \E w \in ws : c \in FirstChunk(w) .. EndChunk(w) - 1}

(* Counts, totals and offsets are those of the chunks they stand for.      *)
CountsRight ==
  /\ private \in [Threads -> [ins : Nat, outs : Nat]]
  /\ totals \in [ins : Nat, outs : Nat]
  /\ phase = "start" =>
       /\ totals.ins = 0 /\ totals.outs = 0
       /\ \A w \in Threads : private[w].ins = 0 /\ private[w].outs = 0
  /\ phase = "pass1" =>
       /\ totals.ins = CountOf(states, {In}, SharesOf(combined))
       /\ totals.outs = CountOf(states, {Out}, SharesOf(combined))
       /\ \A w \in Threads :
            /\ private[w].ins = CountOf(states, {In}, FirstChunk(w) .. work[w].cid - 1)
            /\ private[w].outs = CountOf(states, {Out}, FirstChunk(w) .. work[w].cid - 1)
  /\ phase \in {"sum", "pass2", "done"} =>
       /\ totals.ins = CountOf(states, {In}, Chunks)
       /\ totals.outs = CountOf(states, {Out}, Chunks)
       /\ \A c \in 0 .. added : nMaybe[c] = CountOf(states, ListedClasses, 0 .. c - 1)

(* Blocks of different chunks add up. *)
LEMMA AmongUnion ==
  ASSUME NEW st, NEW classes, NEW cs, NEW ds,
         cs \subseteq Chunks, ds \subseteq Chunks, cs \cap ds = {}
  PROVE  /\ CountOf(st, classes, cs) \in Nat /\ CountOf(st, classes, ds) \in Nat
         /\ CountOf(st, classes, cs \cup ds) = CountOf(st, classes, cs) + CountOf(st, classes, ds)
<1>1. IsFiniteSet(Chunks) /\ IsFiniteSet(ChunkBlocks)
  <2>1. nChunk - 1 \in Int /\ blocksPerChunk - 1 \in Int
    BY GridSizes
  <2> QED
    BY <2>1, FS_Interval DEF Chunks, ChunkBlocks
<1>2. IsFiniteSet(Chunks \X ChunkBlocks)
  BY <1>1, FS_Product
<1>3. /\ BlocksIn(st, classes, cs) \in SUBSET (Chunks \X ChunkBlocks)
      /\ BlocksIn(st, classes, ds) \in SUBSET (Chunks \X ChunkBlocks)
  BY DEF BlocksIn
<1>4. IsFiniteSet(BlocksIn(st, classes, cs)) /\ IsFiniteSet(BlocksIn(st, classes, ds))
  BY <1>2, <1>3, FS_Subset
<1>5. /\ BlocksIn(st, classes, cs \cup ds)
           = BlocksIn(st, classes, cs) \cup BlocksIn(st, classes, ds)
      /\ BlocksIn(st, classes, cs) \cap BlocksIn(st, classes, ds) = {}
  BY DEF BlocksIn
<1>6. /\ Cardinality(BlocksIn(st, classes, cs)) \in Nat
      /\ Cardinality(BlocksIn(st, classes, ds)) \in Nat
  BY <1>4, FS_CardinalityType
<1>7. Cardinality(BlocksIn(st, classes, cs) \cup BlocksIn(st, classes, ds))
        = Cardinality(BlocksIn(st, classes, cs)) + Cardinality(BlocksIn(st, classes, ds))
            - Cardinality({})
  BY <1>4, <1>5, FS_Union
<1>8. Cardinality({}) = 0
  BY FS_EmptySet
<1>9. Cardinality(BlocksIn(st, classes, cs \cup ds))
        = Cardinality(BlocksIn(st, classes, cs)) + Cardinality(BlocksIn(st, classes, ds))
  <2> DEFINE a == Cardinality(BlocksIn(st, classes, cs))
             b == Cardinality(BlocksIn(st, classes, ds))
  <2> HIDE DEF a, b
  <2>1. a + b - 0 = a + b
    BY <1>6 DEF a, b
  <2> QED
    BY <1>5, <1>7, <1>8, <2>1, Zenon DEF a, b
<1> QED
  BY <1>6, <1>9 DEF CountOf

(* No chunks have no blocks. *)
LEMMA AmongNone ==
  ASSUME NEW st, NEW classes
  PROVE  CountOf(st, classes, {}) = 0
  BY FS_EmptySet DEF CountOf, BlocksIn

(* One chunk has its own blocks. *)
LEMMA AmongOne ==
  ASSUME NEW st, NEW classes, NEW c \in Chunks
  PROVE  CountOf(st, classes, {c}) = Cardinality(InChunk(st, classes, c))
<1> DEFINE S == {b \in ChunkBlocks : st[c][b] \in classes}
           T == BlocksIn(st, classes, {c})
           f == [b \in S |-> <<c, b>>]
<1>1. f \in Bijection(S, T)
  BY DEF BlocksIn, Bijection, Injection, IsInjective, Surjection
<1>2. ExistsBijection(S, T)
  BY <1>1 DEF ExistsBijection
<1>3. IsFiniteSet(S)
  <2>1. blocksPerChunk - 1 \in Int
    BY GridSizes
  <2>2. IsFiniteSet(ChunkBlocks) /\ S \in SUBSET ChunkBlocks
    BY <2>1, FS_Interval DEF ChunkBlocks
  <2> HIDE DEF S
  <2> QED
    BY <2>2, FS_Subset
<1>4. Cardinality(T) = Cardinality(S)
  <2> HIDE DEF S, T
  <2> QED
    BY <1>2, <1>3, FS_Bijection
<1> QED
  BY <1>4 DEF CountOf, InChunk

(* One chunk more. *)
LEMMA AmongNext ==
  ASSUME NEW st, NEW classes, NEW m \in Nat, NEW c \in Chunks, m <= c, m .. c - 1 \subseteq Chunks
  PROVE  CountOf(st, classes, m .. c)
           = CountOf(st, classes, m .. c - 1) + Cardinality(InChunk(st, classes, c))
<1>1. c \in Nat
  BY GridSizes DEF Chunks
<1>2. m .. c = (m .. c - 1) \cup {c} /\ (m .. c - 1) \cap {c} = {} /\ {c} \subseteq Chunks
  BY <1>1
<1> DEFINE cs == m .. c - 1
<1> HIDE DEF cs
<1>3. CountOf(st, classes, cs \cup {c}) = CountOf(st, classes, cs) + CountOf(st, classes, {c})
  BY <1>2, AmongUnion DEF cs
<1>4. CountOf(st, classes, {c}) = Cardinality(InChunk(st, classes, c))
  BY AmongOne
<1> QED
  BY <1>2, <1>3, <1>4 DEF cs

(* What is among the chunks depends on their classes only. *)
LEMMA AmongKept ==
  ASSUME NEW st, NEW new, NEW classes, NEW cs, \A c \in cs : new[c] = st[c]
  PROVE  CountOf(new, classes, cs) = CountOf(st, classes, cs)
<1>1. BlocksIn(new, classes, cs) = BlocksIn(st, classes, cs)
  BY DEF BlocksIn
<1> QED
  BY <1>1 DEF CountOf

(* What CountChunk counts, for given classes. *)
LEMMA CountIsInChunk ==
  ASSUME NEW c, NEW classes
  PROVE  CountIn(c, classes) = Cardinality(InChunk(states, classes, c))
  BY DEF CountIn, InChunk

(* CountsRight holds at first and after every step. *)
LEMMA InitCountsRight == Init => CountsRight
  BY DEF Init, CountsRight

LEMMA AllocateCountsRight == IInv /\ CountsRight /\ Allocate => CountsRight'
<1> SUFFICES ASSUME IInv, CountsRight, Allocate PROVE CountsRight'
  OBVIOUS
<1>1. /\ phase = "start" /\ phase' \in {"pass1", "error"}
      /\ UNCHANGED <<zoneMap, keepIn, states, nMaybe, added, private, combined, totals, work, list>>
  BY DEF Allocate
<1>2. combined = {} /\ \A w \in Threads : work[w].cid = FirstChunk(w)
  BY <1>1 DEF IInv, Shared, LoopStart
<1>3. \A w \in Threads : FirstChunk(w) .. FirstChunk(w) - 1 = {}
  BY ShareOfChunks
<1>4. SharesOf({}) = {}
  BY DEF SharesOf
<1>5. \A classes : CountOf(states, classes, {}) = 0
  BY AmongNone
<1> QED
  BY <1>1, <1>2, <1>3, <1>4, <1>5 DEF CountsRight

LEMMA ClassifyCounted ==
  ASSUME NEW w \in Threads PROVE IInv /\ CountsRight /\ Classify(w) => CountsRight'
<1> SUFFICES ASSUME IInv, CountsRight, Classify(w) PROVE CountsRight'
  OBVIOUS
<1> DEFINE cid == work[w].cid
<1>1. /\ phase = "pass1" /\ phase' = "pass1" /\ ~Finished(w)
      /\ states' = [states EXCEPT ![cid] = states'[cid]]
      /\ work' = [work EXCEPT ![w].pos = work[w].pos + 1]
      /\ UNCHANGED <<zoneMap, keepIn, phase, nMaybe, added, private, combined, totals, list>>
  <2>1. cid \in Chunks
    <3>1. cid \in FirstChunk(w) .. EndChunk(w) - 1
      BY ShareOfChunks DEF IInv, Types, Shared, Finished, Classify
    <3> QED
      BY <3>1, ShareOfChunks
  <2>2. DOMAIN states = Chunks
    BY DEF IInv, Types
  <2> QED
    BY <2>1, <2>2 DEF Classify
<1>2. \A v \in Threads : work'[v].cid = work[v].cid
  BY <1>1 DEF IInv, Types
<1>3. cid \in FirstChunk(w) .. EndChunk(w) - 1 /\ cid \in Nat
  BY <1>1, ShareOfChunks DEF IInv, Types, Shared, Finished
<1>4. w \notin combined /\ combined \subseteq Threads
  BY <1>1 DEF IInv, Shared
<1>5. \A c \in SharesOf(combined) : states'[c] = states[c]
  <2>1. \A c \in SharesOf(combined) : c # cid
    BY <1>3, <1>4, SharesDisjoint DEF SharesOf
  <2>2. DOMAIN states = Chunks /\ SharesOf(combined) \subseteq Chunks
    BY DEF IInv, Types, SharesOf
  <2> QED
    BY <1>1, <2>1, <2>2
<1>6. ASSUME NEW v \in Threads, NEW c \in FirstChunk(v) .. work[v].cid - 1
      PROVE  states'[c] = states[c]
  <2>1. work[v].cid \in FirstChunk(v) .. EndChunk(v)
    BY DEF IInv, Shared
  <2>2. c \in FirstChunk(v) .. EndChunk(v) - 1
    BY <2>1, ShareOfChunks
  <2>3. c # cid
    BY <1>3, <2>2, SharesDisjoint
  <2>4. DOMAIN states = Chunks
    BY DEF IInv, Types
  <2> QED
    BY <1>1, <2>2, <2>3, <2>4, ShareOfChunks
<1>7. \A classes :
        CountOf(states', classes, SharesOf(combined)) = CountOf(states, classes, SharesOf(combined))
  BY <1>5, AmongKept
<1>8. ASSUME NEW v \in Threads
      PROVE  /\ private'[v].ins = CountOf(states', {In}, FirstChunk(v) .. work'[v].cid - 1)
             /\ private'[v].outs = CountOf(states', {Out}, FirstChunk(v) .. work'[v].cid - 1)
  <2> DEFINE cs == FirstChunk(v) .. work[v].cid - 1
  <2>1. \A c \in cs : states'[c] = states[c]
    BY <1>6
  <2> HIDE DEF cs
  <2>2. /\ CountOf(states', {In}, cs) = CountOf(states, {In}, cs)
        /\ CountOf(states', {Out}, cs) = CountOf(states, {Out}, cs)
    BY <2>1, AmongKept
  <2>3. private[v].ins = CountOf(states, {In}, cs) /\ private[v].outs = CountOf(states, {Out}, cs)
    BY <1>1 DEF CountsRight, cs
  <2>4. FirstChunk(v) .. work'[v].cid - 1 = cs
    BY <1>2 DEF cs
  <2> QED
    BY <1>1, <2>2, <2>3, <2>4
<1>9. /\ totals'.ins = CountOf(states', {In}, SharesOf(combined))
      /\ totals'.outs = CountOf(states', {Out}, SharesOf(combined))
  BY <1>1, <1>7 DEF CountsRight
<1>10. SharesOf(combined') = SharesOf(combined)
  BY <1>1
<1> QED
  BY <1>1, <1>8, <1>9, <1>10 DEF CountsRight, SharesOf, FirstChunk, EndChunk

LEMMA CountChunkCounted ==
  ASSUME NEW w \in Threads PROVE IInv /\ CountsRight /\ CountChunk(w) => CountsRight'
<1> SUFFICES ASSUME IInv, CountsRight, CountChunk(w) PROVE CountsRight'
  OBVIOUS
<1> DEFINE cid == work[w].cid
<1>1. /\ phase = "pass1" /\ phase' = "pass1" /\ ~Finished(w)
      /\ private' = [private EXCEPT
           ![w].ins = @ + CountIn(cid, {In}),
           ![w].outs = @ + CountIn(cid, {Out})]
      /\ work' = [work EXCEPT ![w].cid = cid + 1, ![w].pos = 0]
      /\ UNCHANGED <<zoneMap, keepIn, phase, states, added, combined, totals, list>>
  BY DEF CountChunk
<1>2. /\ work'[w].cid = cid + 1
      /\ \A v \in Threads : v # w => work'[v] = work[v]
  BY <1>1 DEF IInv, Types
<1>3. /\ cid \in FirstChunk(w) .. EndChunk(w) - 1 /\ cid \in Nat /\ cid \in Chunks
      /\ FirstChunk(w) \in Nat /\ FirstChunk(w) .. cid - 1 \subseteq Chunks
  <2>1. cid \in FirstChunk(w) .. EndChunk(w) - 1 /\ cid \in Nat
    BY <1>1, ShareOfChunks DEF IInv, Types, Shared, Finished
  <2>2. FirstChunk(w) .. cid - 1 \subseteq FirstChunk(w) .. EndChunk(w) - 1
    BY <2>1, ShareOfChunks
  <2> QED
    BY <2>1, <2>2, ShareOfChunks
<1>4. \A classes : CountOf(states, classes, FirstChunk(w) .. cid)
                      = CountOf(states, classes, FirstChunk(w) .. cid - 1) + CountIn(cid, classes)
  BY <1>3, AmongNext, CountIsInChunk
<1>5. /\ CountIn(cid, {In}) \in Nat /\ CountIn(cid, {Out}) \in Nat
  <2>1. \A classes : CountOf(states, classes, {cid}) = CountIn(cid, classes)
    BY <1>3, AmongOne, CountIsInChunk
  <2>2. {cid} \subseteq Chunks /\ {} \subseteq Chunks /\ {cid} \cap {} = {}
    BY <1>3
  <2>3. \A classes : CountOf(states, classes, {cid}) \in Nat
    BY <2>2, AmongUnion
  <2> QED
    BY <2>1, <2>3
<1>6. /\ private[w] \in [ins : Nat, outs : Nat]
      /\ private'[w] = [ins |-> private[w].ins + CountIn(cid, {In}),
                        outs |-> private[w].outs + CountIn(cid, {Out})]
      /\ \A v \in Threads : v # w => private'[v] = private[v]
  BY <1>1 DEF CountsRight
<1>7. private' \in [Threads -> [ins : Nat, outs : Nat]]
  <2>1. private'[w] \in [ins : Nat, outs : Nat]
    BY <1>5, <1>6
  <2> QED
    BY <1>1, <1>6, <2>1 DEF CountsRight
<1>8. ASSUME NEW v \in Threads
      PROVE  /\ private'[v].ins = CountOf(states, {In}, FirstChunk(v) .. work'[v].cid - 1)
             /\ private'[v].outs = CountOf(states, {Out}, FirstChunk(v) .. work'[v].cid - 1)
  <2>1. CASE v = w
    <3>1. FirstChunk(w) .. work'[w].cid - 1 = FirstChunk(w) .. cid
      BY <1>2, <1>3
    <3>2. /\ private[w].ins = CountOf(states, {In}, FirstChunk(w) .. cid - 1)
          /\ private[w].outs = CountOf(states, {Out}, FirstChunk(w) .. cid - 1)
      BY <1>1 DEF CountsRight
    <3>3. /\ private'[w].ins = private[w].ins + CountIn(cid, {In})
          /\ private'[w].outs = private[w].outs + CountIn(cid, {Out})
      BY <1>6
    <3> QED
      BY <1>4, <2>1, <3>1, <3>2, <3>3
  <2>2. CASE v # w
    BY <1>1, <1>2, <1>6, <2>2 DEF CountsRight
  <2> QED
    BY <2>1, <2>2
<1> QED
  BY <1>1, <1>7, <1>8 DEF CountsRight, SharesOf, FirstChunk, EndChunk

LEMMA CombinePartCounted ==
  ASSUME NEW w \in Threads PROVE IInv /\ CountsRight /\ CombinePart(w) => CountsRight'
<1> SUFFICES ASSUME IInv, CountsRight, CombinePart(w) PROVE CountsRight'
  OBVIOUS
<1>1. /\ phase = "pass1" /\ phase' = "pass1" /\ Finished(w) /\ w \notin combined
      /\ combined' = combined \cup {w}
      /\ totals' = [ins |-> totals.ins + private[w].ins, outs |-> totals.outs + private[w].outs]
      /\ UNCHANGED <<zoneMap, keepIn, phase, states, nMaybe, added, private, work, list>>
  BY DEF CombinePart
<1> DEFINE share == FirstChunk(w) .. EndChunk(w) - 1
<1>2. /\ private[w].ins = CountOf(states, {In}, share)
      /\ private[w].outs = CountOf(states, {Out}, share)
      /\ totals.ins = CountOf(states, {In}, SharesOf(combined))
      /\ totals.outs = CountOf(states, {Out}, SharesOf(combined))
  BY <1>1 DEF CountsRight, Finished
<1>3. /\ SharesOf(combined \cup {w}) = SharesOf(combined) \cup share
      /\ SharesOf(combined) \subseteq Chunks /\ share \subseteq Chunks
  BY ShareOfChunks DEF SharesOf
<1>4. SharesOf(combined) \cap share = {}
  <2>1. combined \subseteq Threads
    BY DEF IInv, Shared
  <2> QED
    BY <1>1, <2>1, SharesDisjoint DEF SharesOf
<1> HIDE DEF share
<1>5. \A classes :
        /\ CountOf(states, classes, SharesOf(combined)) \in Nat
        /\ CountOf(states, classes, share) \in Nat
        /\ CountOf(states, classes, SharesOf(combined) \cup share)
              = CountOf(states, classes, SharesOf(combined)) + CountOf(states, classes, share)
  <2> DEFINE others == SharesOf(combined)
  <2> HIDE DEF others
  <2>1. others \subseteq Chunks /\ share \subseteq Chunks /\ others \cap share = {}
    BY <1>3, <1>4 DEF others
  <2>2. \A classes : \A cs, ds \in SUBSET Chunks : cs \cap ds = {} =>
          /\ CountOf(states, classes, cs) \in Nat
          /\ CountOf(states, classes, ds) \in Nat
          /\ CountOf(states, classes, cs \cup ds)
                = CountOf(states, classes, cs) + CountOf(states, classes, ds)
    BY AmongUnion
  <2>3. others \in SUBSET Chunks /\ share \in SUBSET Chunks
    BY <2>1
  <2> QED
    BY <2>1, <2>2, <2>3, Zenon DEF others
<1>6. /\ totals' \in [ins : Nat, outs : Nat]
      /\ totals'.ins = CountOf(states, {In}, SharesOf(combined \cup {w}))
      /\ totals'.outs = CountOf(states, {Out}, SharesOf(combined \cup {w}))
  <2>1. /\ CountOf(states, {In}, SharesOf(combined)) \in Nat
        /\ CountOf(states, {In}, share) \in Nat
        /\ CountOf(states, {In}, SharesOf(combined) \cup share)
              = CountOf(states, {In}, SharesOf(combined)) + CountOf(states, {In}, share)
    BY <1>5
  <2>2. /\ CountOf(states, {Out}, SharesOf(combined)) \in Nat
        /\ CountOf(states, {Out}, share) \in Nat
        /\ CountOf(states, {Out}, SharesOf(combined) \cup share)
              = CountOf(states, {Out}, SharesOf(combined)) + CountOf(states, {Out}, share)
    BY <1>5
  <2>3. /\ totals.ins + private[w].ins = CountOf(states, {In}, SharesOf(combined \cup {w}))
        /\ totals.outs + private[w].outs = CountOf(states, {Out}, SharesOf(combined \cup {w}))
    BY <1>2, <1>3, <2>1, <2>2
  <2>4. totals.ins + private[w].ins \in Nat /\ totals.outs + private[w].outs \in Nat
    BY <1>2, <2>1, <2>2
  <2> QED
    BY <1>1, <2>3, <2>4
<1> QED
  BY <1>1, <1>6 DEF CountsRight, SharesOf, FirstChunk, EndChunk

LEMMA EndPass1Counted == IInv /\ CountsRight /\ EndPass1 => CountsRight'
<1> SUFFICES ASSUME IInv, CountsRight, EndPass1 PROVE CountsRight'
  OBVIOUS
<1>1. /\ phase = "pass1" /\ phase' = "sum" /\ combined = Threads
      /\ nMaybe' = [nMaybe EXCEPT ![0] = 0]
      /\ UNCHANGED <<zoneMap, keepIn, states, added, private, combined, totals, work, list>>
  BY DEF EndPass1
<1>2. SharesOf(Threads) = Chunks
  BY SharesCover DEF SharesOf
<1>3. added = 0 /\ nMaybe'[0] = 0
  BY <1>1, GridSizes DEF IInv, Types, Classified
<1>4. 0 .. 0 - 1 = {} /\ \A c \in 0 .. 0 : c = 0
  OBVIOUS
<1>5. \A c \in 0 .. added' : nMaybe'[c] = CountOf(states', ListedClasses', 0 .. c - 1)
  BY <1>1, <1>3, <1>4, AmongNone
<1> QED
  BY <1>1, <1>2, <1>5 DEF CountsRight

LEMMA AddUpCounted == IInv /\ CountsRight /\ AddUp => CountsRight'
<1> SUFFICES ASSUME IInv, CountsRight, AddUp PROVE CountsRight'
  OBVIOUS
<1>1. /\ phase = "sum" /\ phase' = "sum" /\ added < nChunk /\ added' = added + 1
      /\ nMaybe' = [nMaybe EXCEPT ![added + 1] = @ + nMaybe[added]]
      /\ UNCHANGED <<zoneMap, keepIn, states, private, combined, totals, work, list>>
  BY DEF AddUp
<1>2. nChunk \in Nat
  BY GridSizes
<1>3. /\ added \in Nat /\ added + 1 \in 0 .. nChunk
      /\ added \in Chunks /\ 0 .. added - 1 \subseteq Chunks
  BY <1>1, <1>2 DEF IInv, Types, Chunks
<1>4. /\ nMaybe'[added + 1] = nMaybe[added + 1] + nMaybe[added]
      /\ \A c \in 0 .. added : nMaybe'[c] = nMaybe[c]
  BY <1>1, <1>2, <1>3 DEF IInv, Types
<1>5. nMaybe[added + 1] = CountIn(added, ListedClasses)
  BY <1>1, <1>2, <1>3, CountIsRank DEF IInv, Tallied
<1>6. CountOf(states, ListedClasses, 0 .. added)
        = CountOf(states, ListedClasses, 0 .. added - 1) + CountIn(added, ListedClasses)
  BY <1>3, AmongNext, CountIsInChunk
<1>7. nMaybe[added] = CountOf(states, ListedClasses, 0 .. added - 1)
  BY <1>1, <1>3 DEF CountsRight
<1>8. /\ CountIn(added, ListedClasses) \in Nat /\ nMaybe[added] \in Nat
  <2>1. CountIn(added, ListedClasses) = Rank(added, blocksPerChunk)
    BY CountIsRank
  <2>2. Rank(added, blocksPerChunk) \in Nat
    BY GridSizes, RankStep
  <2> QED
    BY <1>1, <1>3, <2>1, <2>2 DEF IInv, Tallied
<1>9. nMaybe'[added + 1] = CountOf(states, ListedClasses, 0 .. (added + 1) - 1)
  <2>1. 0 .. (added + 1) - 1 = 0 .. added
    BY <1>3
  <2> QED
    BY <1>4, <1>5, <1>6, <1>7, <1>8, <2>1
<1>10. ASSUME NEW c \in 0 .. added + 1
       PROVE  nMaybe'[c] = CountOf(states, ListedClasses, 0 .. c - 1)
  <2>1. CASE c = added + 1
    BY <1>9, <2>1
  <2>2. CASE c \in 0 .. added
    BY <1>1, <1>4, <2>2 DEF CountsRight
  <2> QED
    BY <1>3, <2>1, <2>2
<1> QED
  BY <1>1, <1>10 DEF CountsRight, ListedClasses

LEMMA OtherCounted ==
  CountsRight /\ (StartPass2 \/ Return \/ (\E w \in Threads : WriteBlock(w)) \/ UNCHANGED vars)
    => CountsRight'
<1> SUFFICES ASSUME CountsRight,
                    StartPass2 \/ Return \/ (\E w \in Threads : WriteBlock(w)) \/ UNCHANGED vars
             PROVE  CountsRight'
  OBVIOUS
<1>1. UNCHANGED <<keepIn, states, nMaybe, added, private, combined, totals>>
  BY DEF StartPass2, Return, WriteBlock, vars
<1>2. \/ phase' = phase /\ work' = work
      \/ phase \in {"sum", "pass2"} /\ phase' \in {"pass2", "done"}
  BY DEF StartPass2, Return, WriteBlock, vars
<1> QED
  BY <1>1, <1>2 DEF CountsRight, ListedClasses, SharesOf, FirstChunk, EndChunk

(* Together with IInv, CountsRight is an invariant. *)
LEMMA CountsInvariance == Spec => []CountsRight
<1>1. IInv /\ CountsRight /\ [Next]_vars => CountsRight'
  BY AllocateCountsRight, ClassifyCounted, CountChunkCounted, CombinePartCounted, EndPass1Counted,
     AddUpCounted, OtherCounted, Zenon DEF Next
<1> QED
  BY <1>1, InitCountsRight, Invariance, PTL DEF Spec

(* Every number below A * B * C has its digits. *)
LEMMA HasDigits ==
  ASSUME NEW A \in Nat \ {0}, NEW B \in Nat \ {0}, NEW C \in Nat \ {0}, NEW n \in 0 .. A * B * C - 1
  PROVE  \E a \in 0 .. A - 1, b \in 0 .. B - 1, c \in 0 .. C - 1 :
           n = (a * B + b) * C + c /\ DigitsOf(n, A, B, C, a, b, c)
<1> DEFINE g == A * B
           m == n \div C
<1>1. g \in Nat \ {0} /\ n \in 0 .. g * C - 1
  BY Positive
<1> HIDE DEF g
<1>2. m \in 0 .. g - 1 /\ n % C \in 0 .. C - 1 /\ m * C + (n % C) = n
  BY <1>1, Coordinate
<1> HIDE DEF m
<1>3. m \div B \in 0 .. A - 1 /\ m % B \in 0 .. B - 1 /\ (m \div B) * B + (m % B) = m
  BY <1>2, Coordinate DEF g
<1> DEFINE a == m \div B
           b == m % B
           c == n % C
<1>4. a \in 0 .. A - 1 /\ b \in 0 .. B - 1 /\ c \in 0 .. C - 1 /\ n = (a * B + b) * C + c
  BY <1>2, <1>3
<1> HIDE DEF a, b, c
<1>5. DigitsOf((a * B + b) * C + c, A, B, C, a, b, c)
  BY <1>4, Digits
<1> QED
  BY <1>4, <1>5

(* The unit at a position of a chunk is one of the grid. *)
LEMMA UidIsUnit ==
  ASSUME NEW c \in Chunks, NEW sub \in 0 .. nSub - 1
  PROVE  Uid(c, sub) \in Units
<1>1. /\ gx \in Nat \ {0} /\ gy \in Nat \ {0} /\ gz \in Nat \ {0}
      /\ sx \in Nat \ {0} /\ sy \in Nat \ {0} /\ sz \in Nat \ {0}
      /\ ux \in Nat \ {0} /\ uy \in Nat \ {0} /\ uz \in Nat \ {0}
  BY GridSizes
<1>2. c \in 0 .. gx * gy * gz - 1 /\ sub \in 0 .. sx * sy * sz - 1
  BY DEF Chunks, nChunk, nSub
<1>3. PICK cx \in 0 .. gx - 1, cy \in 0 .. gy - 1, cz \in 0 .. gz - 1 :
        DigitsOf(c, gx, gy, gz, cx, cy, cz)
  BY <1>1, <1>2, HasDigits
<1>4. PICK px \in 0 .. sx - 1, py \in 0 .. sy - 1, pz \in 0 .. sz - 1 :
        DigitsOf(sub, sx, sy, sz, px, py, pz)
  BY <1>1, <1>2, HasDigits
<1> DEFINE ix == cx * sx + px
           iy == cy * sy + py
           iz == cz * sz + pz
<1>5. Uid(c, sub) = (ix * uy + iy) * uz + iz
  BY <1>3, <1>4 DEF Uid, DigitsOf
<1>6. ix \in 0 .. gx * sx - 1 /\ iy \in 0 .. gy * sy - 1 /\ iz \in 0 .. gz * sz - 1
  BY <1>1, TwoDigits
<1>7. ix \in 0 .. ux - 1 /\ iy \in 0 .. uy - 1 /\ iz \in 0 .. uz - 1
  BY <1>6, GridSizes
<1> HIDE DEF ix, iy, iz
<1>8. DigitsOf((ix * uy + iy) * uz + iz, ux, uy, uz, ix, iy, iz)
  BY <1>1, <1>7, Digits
<1> QED
  BY <1>5, <1>8 DEF DigitsOf, Units

(* The blocks of the chunks are those of the units, one for one. *)
AllBlocks == Chunks \X ChunkBlocks
UnitBlock == [x \in AllBlocks |-> <<Uid(x[1], x[2] \div BlocksPerUnit), x[2] % BlocksPerUnit>>]

(* The blocks of the chunks are as many as those of the units, so a map of *)
(* the first onto the second is one to one.                                *)
LEMMA BlocksOfChunks ==
  /\ IsFiniteSet(AllBlocks)
  /\ Cardinality(AllBlocks) = totalBlocks
  /\ UnitBlock \in Injection(AllBlocks, Units \X UnitBlocks)
  /\ UnitBlock \in Surjection(AllBlocks, Units \X UnitBlocks)
<1>1. /\ nChunk \in Nat \ {0} /\ blocksPerChunk \in Nat \ {0}
      /\ BlocksPerUnit \in Nat \ {0} /\ nSub \in Nat \ {0}
  BY GridSizes
<1>2. /\ IsFiniteSet(Chunks) /\ Cardinality(Chunks) = nChunk
      /\ IsFiniteSet(ChunkBlocks) /\ Cardinality(ChunkBlocks) = blocksPerChunk
  <2>1. 0 \in Int /\ nChunk - 1 \in Int /\ blocksPerChunk - 1 \in Int
    BY <1>1
  <2>2. IsFiniteSet(0 .. nChunk - 1) /\ Cardinality(0 .. nChunk - 1) = nChunk
    <3>1. /\ IsFiniteSet(0 .. nChunk - 1)
          /\ Cardinality(0 .. nChunk - 1) = IF 0 > nChunk - 1 THEN 0 ELSE (nChunk - 1) - 0 + 1
      BY <2>1, FS_Interval
    <3> QED
      BY <1>1, <3>1
  <2>3. /\ IsFiniteSet(0 .. blocksPerChunk - 1)
        /\ Cardinality(0 .. blocksPerChunk - 1) = blocksPerChunk
    <3>1. /\ IsFiniteSet(0 .. blocksPerChunk - 1)
          /\ Cardinality(0 .. blocksPerChunk - 1)
               = IF 0 > blocksPerChunk - 1 THEN 0 ELSE (blocksPerChunk - 1) - 0 + 1
      BY <2>1, FS_Interval
    <3> QED
      BY <1>1, <3>1
  <2> QED
    BY <2>2, <2>3 DEF Chunks, ChunkBlocks
<1>3. IsFiniteSet(AllBlocks) /\ Cardinality(AllBlocks) = totalBlocks
  BY <1>2, FS_Product DEF AllBlocks, totalBlocks
<1> DEFINE units == ux * uy * uz
<1>4. units \in Nat \ {0}
  <2>1. ux \in Nat \ {0} /\ uy \in Nat \ {0} /\ uz \in Nat \ {0}
    BY GridSizes
  <2>2. ux * uy \in Nat \ {0}
    BY <2>1, Positive
  <2> QED
    BY <2>1, <2>2, Positive
<1>5. totalBlocks = units * BlocksPerUnit
  <2>1. /\ gx \in Nat /\ gy \in Nat /\ gz \in Nat /\ sx \in Nat /\ sy \in Nat /\ sz \in Nat
        /\ BlocksPerUnit \in Nat
        /\ ux = gx * sx /\ uy = gy * sy /\ uz = gz * sz
    BY GridSizes
  <2>2. (gx * gy * gz) * ((sx * sy * sz) * BlocksPerUnit)
          = ((gx * sx) * (gy * sy) * (gz * sz)) * BlocksPerUnit
    BY <2>1
  <2> QED
    BY <2>1, <2>2 DEF totalBlocks, nChunk, blocksPerChunk, nSub
<1> HIDE DEF units
<1>6. Cardinality(Units \X UnitBlocks) = totalBlocks
  <2>1. IsFiniteSet(Units) /\ Cardinality(Units) = units
    <3>1. Units = 0 .. units - 1
      BY DEF Units, units
    <3> QED
      BY <1>4, <3>1, FS_Interval
  <2>2. IsFiniteSet(UnitBlocks) /\ Cardinality(UnitBlocks) = BlocksPerUnit
    BY <1>1, FS_Interval DEF UnitBlocks
  <2> QED
    BY <1>5, <2>1, <2>2, FS_Product
<1>7. UnitBlock \in [AllBlocks -> Units \X UnitBlocks]
  <2>1. ASSUME NEW c \in Chunks, NEW b \in ChunkBlocks
        PROVE  Uid(c, b \div BlocksPerUnit) \in Units /\ b % BlocksPerUnit \in UnitBlocks
    <3>1. b \div BlocksPerUnit \in 0 .. nSub - 1
      BY UnitOfBlock
    <3>2. b \in Nat
      BY <1>1 DEF ChunkBlocks
    <3>3. b % BlocksPerUnit \in 0 .. BlocksPerUnit - 1
      BY <1>1, <3>2, DivisionOf
    <3> QED
      BY <3>1, <3>3, UidIsUnit DEF UnitBlocks
  <2> QED
    BY <2>1 DEF UnitBlock, AllBlocks
<1>8. ASSUME NEW u \in Units, NEW i \in UnitBlocks
      PROVE  \E x \in AllBlocks : UnitBlock[x] = <<u, i>>
  <2>1. /\ ux \in Nat \ {0} /\ uy \in Nat \ {0} /\ uz \in Nat \ {0}
        /\ u \in 0 .. ux * uy * uz - 1
    BY GridSizes DEF Units
  <2>2. PICK ix \in 0 .. ux - 1, iy \in 0 .. uy - 1, iz \in 0 .. uz - 1 :
          u = (ix * uy + iy) * uz + iz /\ DigitsOf(u, ux, uy, uz, ix, iy, iz)
    BY <2>1, HasDigits
  <2>3. PICK c \in Chunks, sub \in 0 .. nSub - 1 : Uid(c, sub) = u
    BY <2>2, UnitAtPlace
  <2> DEFINE b == sub * BlocksPerUnit + i
  <2>4. b \in ChunkBlocks /\ b \div BlocksPerUnit = sub /\ b % BlocksPerUnit = i
    BY BlockAtPlace
  <2> HIDE DEF b
  <2>5. <<c, b>> \in AllBlocks /\ UnitBlock[<<c, b>>] = <<u, i>>
    BY <2>3, <2>4 DEF AllBlocks, UnitBlock
  <2> QED
    BY <2>5
<1>9. UnitBlock \in Surjection(AllBlocks, Units \X UnitBlocks)
  <2>1. \A y \in Units \X UnitBlocks : \E x \in AllBlocks : UnitBlock[x] = y
    <3> SUFFICES ASSUME NEW y \in Units \X UnitBlocks
                 PROVE  \E x \in AllBlocks : UnitBlock[x] = y
      OBVIOUS
    <3>1. y = <<y[1], y[2]>> /\ y[1] \in Units /\ y[2] \in UnitBlocks
      OBVIOUS
    <3> QED
      BY <3>1, <1>8
  <2> QED
    BY <1>7, <2>1 DEF Surjection
<1>10. UnitBlock \in Injection(AllBlocks, Units \X UnitBlocks)
  BY <1>3, <1>6, <1>9, FS_SurjSameCardinalityImpliesInj
<1> QED
  BY <1>3, <1>9, <1>10

(* Blocks of one class and blocks of other classes add up. *)
LEMMA AmongClasses ==
  ASSUME NEW st, NEW classes, NEW others, classes \cap others = {}
  PROVE  /\ CountOf(st, classes, Chunks) \in Nat /\ CountOf(st, others, Chunks) \in Nat
         /\ CountOf(st, classes \cup others, Chunks)
              = CountOf(st, classes, Chunks) + CountOf(st, others, Chunks)
<1> DEFINE A == BlocksIn(st, classes, Chunks)
           B == BlocksIn(st, others, Chunks)
<1>1. A \in SUBSET AllBlocks /\ B \in SUBSET AllBlocks
  BY DEF BlocksIn, AllBlocks
<1>2. IsFiniteSet(A) /\ IsFiniteSet(B)
  BY <1>1, BlocksOfChunks, FS_Subset
<1>3. A \cap B = {} /\ BlocksIn(st, classes \cup others, Chunks) = A \cup B
  BY DEF BlocksIn
<1> HIDE DEF A, B
<1>4. Cardinality(A) \in Nat /\ Cardinality(B) \in Nat
  BY <1>2, FS_CardinalityType
<1>5. Cardinality(A \cup B) = Cardinality(A) + Cardinality(B) - Cardinality({})
  BY <1>2, <1>3, FS_Union
<1>6. Cardinality({}) = 0
  BY FS_EmptySet
<1>7. Cardinality(A \cup B) = Cardinality(A) + Cardinality(B)
  BY <1>4, <1>5, <1>6
<1> QED
  BY <1>3, <1>4, <1>7 DEF CountOf, A, B

(* n_in and n_out are exact, and with the blocks listed they are all blocks *)
(* of the array, for any grid and any number of workers.                   *)
THEOREM TotalsAlwaysAddUp == Spec => []TotalsAddUp
<1>1. IInv /\ CountsRight => TotalsAddUp
  <2> SUFFICES ASSUME IInv, CountsRight, phase = "done" PROVE TotalsAddUp
    BY DEF TotalsAddUp
  <2>1. /\ nChunk \in Nat \ {0} /\ blocksPerChunk \in Nat \ {0} /\ totalBlocks \in Nat
        /\ added = nChunk /\ Chunks = 0 .. nChunk - 1
    BY GridSizes DEF IInv, Tallied, Chunks
  <2>2. /\ totals.ins = CountOf(states, {In}, Chunks)
        /\ totals.outs = CountOf(states, {Out}, Chunks)
        /\ nListed = CountOf(states, ListedClasses, Chunks)
    BY <2>1 DEF CountsRight, nListed
  <2>3. In # Out /\ In # Maybe /\ Out # Maybe
    BY DEF In, Out, Maybe
  <2>4. ASSUME NEW x \in AllBlocks
        PROVE  /\ states[x[1]][x[2]] = zoneMap[UnitBlock[x][1]][UnitBlock[x][2]]
               /\ states[x[1]][x[2]] \in {Out, In, Maybe}
    <3>1. x[1] \in Chunks /\ x[2] \in ChunkBlocks
      BY DEF AllBlocks
    <3>2. x[2] \div BlocksPerUnit \in 0 .. nSub - 1 /\ nSub \in Nat
      BY <3>1, UnitOfBlock, GridSizes
    <3>3. Right(x[1], nSub)
      BY <3>1 DEF IInv, Classified
    <3>4. x[2] \div BlocksPerUnit < nSub
      BY <3>2
    <3>5. states[x[1]][x[2]]
            = zoneMap[Uid(x[1], x[2] \div BlocksPerUnit)][x[2] % BlocksPerUnit]
      BY <3>1, <3>3, <3>4 DEF Right
    <3>6. UnitBlock[x] = <<Uid(x[1], x[2] \div BlocksPerUnit), x[2] % BlocksPerUnit>>
      BY DEF UnitBlock
    <3>7. UnitBlock[x] \in Units \X UnitBlocks
      BY BlocksOfChunks DEF Injection
    <3>8. zoneMap \in [Units -> [UnitBlocks -> {Out, In, Maybe}]]
      BY ZoneMapsAssumption DEF IInv, Types
    <3> QED
      BY <3>5, <3>6, <3>7, <3>8
  <2> DEFINE ins == CountOf(states, {In}, Chunks)
             outs == CountOf(states, {Out}, Chunks)
             maybes == CountOf(states, {Maybe}, Chunks)
  <2>5. ins \in Nat /\ outs \in Nat /\ maybes \in Nat /\ ins + outs + maybes = totalBlocks
    <3>1. {In} \cap {Out} = {} /\ ({In} \cup {Out}) \cap {Maybe} = {}
      BY <2>3
    <3>2. /\ ins \in Nat /\ outs \in Nat
          /\ CountOf(states, {In} \cup {Out}, Chunks) = ins + outs
      BY <3>1, AmongClasses
    <3>3. /\ maybes \in Nat
          /\ CountOf(states, ({In} \cup {Out}) \cup {Maybe}, Chunks)
               = CountOf(states, {In} \cup {Out}, Chunks) + maybes
      BY <3>1, AmongClasses
    <3>4. BlocksIn(states, ({In} \cup {Out}) \cup {Maybe}, Chunks) = AllBlocks
      BY <2>4 DEF BlocksIn, AllBlocks
    <3>5. CountOf(states, ({In} \cup {Out}) \cup {Maybe}, Chunks) = totalBlocks
      BY <3>4, BlocksOfChunks DEF CountOf
    <3> QED
      BY <3>2, <3>3, <3>5
  <2>6. nListed - (IF keepIn THEN ins ELSE 0) = maybes
    <3>1. CASE keepIn
      <4>1. ListedClasses = {In} \cup {Maybe} /\ {In} \cap {Maybe} = {}
        BY <2>3, <3>1 DEF ListedClasses
      <4>2. CountOf(states, {In} \cup {Maybe}, Chunks) = ins + maybes
        BY <4>1, AmongClasses
      <4>3. nListed = ins + maybes
        BY <2>2, <4>1, <4>2
      <4>4. (ins + maybes) - ins = maybes
        BY <2>5
      <4> QED
        BY <3>1, <4>3, <4>4
    <3>2. CASE ~keepIn
      BY <2>2, <2>5, <3>2 DEF ListedClasses
    <3> QED
      BY <3>1, <3>2
  <2>7. ins = Cardinality({x \in {<<u, b>> : u \in Units, b \in UnitBlocks} :
                            zoneMap[x[1]][x[2]] = In})
    <3> DEFINE S == BlocksIn(states, {In}, Chunks)
               T == {x \in {<<u, b>> : u \in Units, b \in UnitBlocks} : zoneMap[x[1]][x[2]] = In}
               f == [x \in S |-> UnitBlock[x]]
    <3>1. S \in SUBSET AllBlocks
      BY DEF BlocksIn, AllBlocks
    <3>2. IsFiniteSet(S)
      BY <3>1, BlocksOfChunks, FS_Subset
    <3>3. \A x \in AllBlocks : x \in S <=> zoneMap[UnitBlock[x][1]][UnitBlock[x][2]] = In
      BY <2>4 DEF BlocksIn, AllBlocks
    <3>4. \A y : y \in T <=> y \in Units \X UnitBlocks /\ zoneMap[y[1]][y[2]] = In
      OBVIOUS
    <3> HIDE DEF S, T
    <3>5. f \in [S -> T]
      BY <3>1, <3>3, <3>4, BlocksOfChunks DEF Injection
    <3>6. \A x, y \in S : f[x] = f[y] => x = y
      BY <3>1, BlocksOfChunks DEF Injection, IsInjective
    <3>7. \A y \in T : \E x \in S : f[x] = y
      BY <3>1, <3>3, <3>4, BlocksOfChunks DEF Surjection
    <3>8. f \in Bijection(S, T)
      BY <3>5, <3>6, <3>7 DEF Bijection, Injection, IsInjective, Surjection
    <3>9. Cardinality(T) = Cardinality(S)
      BY <3>2, <3>8, FS_Bijection DEF ExistsBijection
    <3> QED
      BY <3>9 DEF S, T, CountOf
  <2> HIDE DEF ins, outs, maybes
  <2> QED
    BY <2>2, <2>5, <2>6, <2>7 DEF TotalsAddUp, ins, outs, maybes
<1> QED
  BY <1>1, Invariance, CountsInvariance, PTL

(* All together: the plan of any number of workers is that of one thread.  *)
THEOREM PlanAlwaysExact == Spec => []PlanExact
  BY UnitsAlwaysPlaced, RoomAlwaysLeft, ListAlwaysSorted, TotalsAlwaysAddUp, PTL DEF PlanExact
===============================================================================
