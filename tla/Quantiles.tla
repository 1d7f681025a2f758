------------------------------ MODULE Quantiles ------------------------------
(***************************************************************************)
(* Thresholds of the experiments (common.py): the order statistics of a    *)
(* variable that does not fit in memory (quantiles), found in passes over  *)
(* its time slabs (slab_step, slabs), each of which fixes some more bits   *)
(* of the sortable key of every value that is looked for.                  *)
(*                                                                         *)
(* A float is its bits, sign first, as a number below 2^Width; data with   *)
(* NaN is refused and not modelled.  An array is the sequence of its steps *)
(* along time, a step the sequence of its values.                          *)
(***************************************************************************)
EXTENDS Integers, Sequences, FiniteSetsExt, SequencesExt, Functions

CONSTANTS
  PassBits,    (* bits of the key fixed in each pass, 16, 8 and 8           *)
  StepMultiple (* 64, what every chunk length along time divides            *)

ASSUME PassBitsAssumption ==
  PassBits \in Seq(Nat \ {0}) /\ PassBits # <<>> /\ StepMultiple \in Nat \ {0}

(* Bits behind those that pass p fixes, and of a key. *)
Shift(p) == SumFunctionOnSet(PassBits, p + 1 .. Len(PassBits))
Width == Shift(0)

(* Where the values of an array are. *)
Places(a) == UNION {{t} \X DOMAIN a[t] : t \in DOMAIN a}
Size(a) == Cardinality(Places(a))
AtPlace(a, x) == a[x[1]][x[2]]

(* Data and the wanted quantiles, as numerator and denominator. *)
AreData(a) == a \in Seq(Seq(0 .. 2^Width - 1)) /\ Places(a) # {}
AreFractions(qs) == \A q \in qs : q \in Nat \X (Nat \ {0}) /\ q[1] <= q[2]

-----------------------------------------------------------------------------
(* Slabs *)

(* Mutant: the memory limit is not rounded to whole chunks. *)
slab_stepAnyMultiple(perStep, slabBytes, step) ==
  Min({step, Max({StepMultiple, slabBytes \div perStep})})

slab_step(perStep, slabBytes, step) ==
  Min({step, Max({StepMultiple, ((slabBytes \div perStep) \div StepMultiple) * StepMultiple})})

(* (start, stop) of the slabs of n steps. *)
slabs(n, step) ==
  [i \in 1 .. (n + step - 1) \div step |-> <<(i - 1) * step, Min({i * step, n})>>]

(* The values that read_slabs yields, slab by slab. *)
read_slabs(a, step) ==
  LET spans == slabs(Len(a), step)
  IN  [i \in DOMAIN spans |-> SubSeq(a, spans[i][1] + 1, spans[i][2])]

-----------------------------------------------------------------------------
(* Keys *)

SignBit == 2^(Width - 1)

(* _sort_keys: negative values have all bits flipped, others the sign. *)
SortKey(x) == IF x >= SignBit THEN 2^Width - 1 - x ELSE x + SignBit
_key_value(k) == IF k >= SignBit THEN k - SignBit ELSE 2^Width - 1 - k

-----------------------------------------------------------------------------
(* quantiles *)

(* q of the n - 1 distances between the sorted values, rounded down, for   *)
(* q = <<numerator, denominator>>.                                         *)
Lower(q, n) == (q[1] * (n - 1)) \div q[2]
Upper(q, n) == Min({Lower(q, n) + 1, n - 1})
ranks(qs, n) == UNION {{Lower(q, n), Upper(q, n)} : q \in qs}

(* The key without the bits of pass p and later ones, and those of p. *)
Top(k, p) == k \div 2^(Shift(p) + PassBits[p])
Digit(k, p) == (k \div 2^Shift(p)) % 2^PassBits[p]

(* The values of a slab with the prefix that have digit d next. *)
InSlab(slab, p, prefix, d) ==
  Cardinality({x \in Places(slab) : /\ Top(SortKey(AtPlace(slab, x)), p) = prefix
                                    /\ Digit(SortKey(AtPlace(slab, x)), p) = d})
hist(parts, p, prefix) ==
  [d \in 0 .. 2^PassBits[p] - 1 |->
     SumFunctionOnSet([i \in DOMAIN parts |-> InSlab(parts[i], p, prefix, d)], DOMAIN parts)]

(* np.cumsum(h)[b - 1]: the values with a digit below b. *)
CountBelow(h, b) == SumFunctionOnSet(h, 0 .. b - 1)
(* searchsorted(cumsum(h), r, side="right") *)
DigitOfRank(h, r) ==
  Cardinality({d \in DOMAIN h : CountBelow(h, d + 1) <= r})

(* Mutant: the rank is looked up among all values in every pass. *)
NarrowedFromAll(parts, r, found, p) ==
  LET h == hist(parts, p, found.prefix)
      b == DigitOfRank(h, r)
  IN  [prefix |-> found.prefix * 2^PassBits[p] + b, below |-> CountBelow(h, b)]

(* One pass for rank r: found holds the bits found so far and how many     *)
(* values have a smaller prefix.                                           *)
Narrowed(parts, r, found, p) ==
  LET h == hist(parts, p, found.prefix)
      b == DigitOfRank(h, r - found.below)
  IN  [prefix |-> found.prefix * 2^PassBits[p] + b, below |-> found.below + CountBelow(h, b)]

ValueOfRank(parts, r) ==
  LET found[p \in 0 .. Len(PassBits)] ==
        IF p = 0 THEN [prefix |-> 0, below |-> 0] ELSE Narrowed(parts, r, found[p - 1], p)
  IN  _key_value(found[Len(PassBits)].prefix)

(* The pair between which the value of each q is interpolated. *)
quantiles(a, qs, step) ==
  LET parts == read_slabs(a, step)
      n == Size(a)
      value == [r \in ranks(qs, n) |-> ValueOfRank(parts, r)]
  IN  [q \in qs |-> <<value[Lower(q, n)], value[Upper(q, n)]>>]

-----------------------------------------------------------------------------
(* Properties *)

(* The number a float stands for. *)
Number(x) == IF x >= SignBit THEN SignBit - x ELSE x
Smaller(a, v) == Cardinality({x \in Places(a) : Number(AtPlace(a, x)) < Number(v)})
NotLarger(a, v) == Cardinality({x \in Places(a) : Number(AtPlace(a, x)) <= Number(v)})
IsOfRank(a, v, r) == Smaller(a, v) <= r /\ r < NotLarger(a, v)

(* Whatever the slabs, a quantile is interpolated between the two values   *)
(* of the array that its place among the sorted values lies between.       *)
OrderStatistics(a, qs, step) ==
  LET n == Size(a)
      found == quantiles(a, qs, step)
  IN  \A q \in qs : IsOfRank(a, found[q][1], Lower(q, n)) /\ IsOfRank(a, found[q][2], Upper(q, n))
=============================================================================
