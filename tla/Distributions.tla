---------------------------- MODULE Distributions ----------------------------
(***************************************************************************)
(* The distances between a reference and a comparison population that the  *)
(* drift snapshots report, for a numeric column (Kolmogorov-Smirnov, PSI   *)
(* bins, percentiles) and for a categorical one (total variation).  The    *)
(* populations grow by one row at a time, which here enumerates them.      *)
(* Fractions are integers over a common denominator, named where it is.    *)
(***************************************************************************)
EXTENDS Integers, Sequences, FiniteSets, SequencesExt, FiniteSetsExt

CONSTANTS
  Numbers,     \* values of the column
  Null,        \* missing value
  Bins,        \* quantile bins asked for
  MinimumRows, \* least rows of a population
  MinimumNonNull,
  MaxReference, MaxComparison \* bounds: rows of the populations

ASSUME NumbersAssumption == Numbers \subseteq Int
ASSUME BinsAssumption == Bins \in Nat /\ Bins >= 2
ASSUME SupportAssumption == MinimumRows \in Nat \ {0} /\ MinimumNonNull \in Nat \ {0}

VARIABLES reference, comparison \* the populations: sequences of values

populations == <<reference, comparison>>

\* The values that f gives the numbers in S, sorted.
Sorted(f, S) ==
  LET Rank(i) == Cardinality({j \in S : f[j] < f[i] \/ (f[j] = f[i] /\ j <= i)})
  IN [k \in 1 .. Cardinality(S) |-> f[CHOOSE i \in S : Rank(i) = k]]

\* _finite: the present values, sorted.
Finite(rows) == Sorted(rows, {i \in DOMAIN rows : rows[i] # Null})

-----------------------------------------------------------------------------
(* Percentiles.                                                            *)

\* The quantile i / Bins by linear interpolation, times Bins.
Percentile(s, i) ==
  LET position == (Len(s) - 1) * i
      low == s[position \div Bins + 1]
      high == s[(position + Bins - 1) \div Bins + 1]
  IN low * Bins + (high - low) * (position % Bins)

-----------------------------------------------------------------------------
(* Kolmogorov-Smirnov: one walk over both sorted populations.              *)

\* Mutation: one of several equal values is passed.
AdvanceOnce(s, i, v) == IF i < Len(s) /\ s[i + 1] <= v THEN i + 1 ELSE i

\* How far the walk has come in s once it has passed all values up to v.
Advance(s, i, v) == Max({i} \cup {k \in i .. Len(s) : \A j \in (i + 1) .. k : s[j] <= v})

AbsDifference(m, n) == IF m < n THEN n - m ELSE m - n

\* From where the walk is, past the value v in both.
Walk(l, r, at, v) ==
  LET i == Advance(l, at.i, v)
      j == Advance(r, at.j, v)
  IN [i |-> i, j |-> j, gap |-> Max({at.gap, AbsDifference(i * Len(r), j * Len(l))})]

Walked(l, r, values) == FoldLeft(LAMBDA at, v : Walk(l, r, at, v), [i |-> 0, j |-> 0, gap |-> 0], values)

\* The largest gap, times Len(l) * Len(r).
KSDistance(l, r) ==
  LET values == ToSet(l) \cup ToSet(r) IN Walked(l, r, Sorted([v \in values |-> v], values)).gap

-----------------------------------------------------------------------------
(* Population stability: the bins, not the logarithms.                     *)

\* Inner quantiles of the reference, times Bins.
Boundaries(l) ==
  {b \in {Percentile(l, i) : i \in 1 .. (Bins - 1)} : l[1] * Bins < b /\ b < l[Len(l)] * Bins}

\* A value on a boundary counts in the bin above it.
BinOf(bounds, v) == Cardinality({b \in bounds : b <= v * Bins}) + 1
Counts(bounds, s) ==
  [n \in 1 .. (Cardinality(bounds) + 1) |-> Cardinality({i \in DOMAIN s : BinOf(bounds, s[i]) = n})]

PsiStatus(l, r) ==
  CASE l = <<>> \/ r = <<>>          -> "EMPTY_NON_NULL_COHORT"
    [] Cardinality(ToSet(l)) < 2     -> "DEGENERATE_REFERENCE"
    [] Boundaries(l) = {}            -> "INSUFFICIENT_EFFECTIVE_BINS"
    [] OTHER                         -> "AVAILABLE"

NumericStatus ==
  CASE Min({Len(reference), Len(comparison)}) < MinimumRows -> "INSUFFICIENT_COHORT_ROWS"
    [] Min({Len(Finite(reference)), Len(Finite(comparison))}) < MinimumNonNull -> "INSUFFICIENT_NON_NULL_ROWS"
    [] OTHER -> PsiStatus(Finite(reference), Finite(comparison))

-----------------------------------------------------------------------------
(* Categories; a missing value is one.                                     *)

CountOf(s, c) == Cardinality({i \in DOMAIN s : s[i] = c})
Categories == ToSet(reference) \cup ToSet(comparison)
NewCategories == {c \in Categories : CountOf(reference, c) = 0}
DisappearedCategories == {c \in Categories : CountOf(comparison, c) = 0}

\* Twice the total variation distance, times both population sizes.
TotalVariation ==
  LET m == Len(reference) n == Len(comparison)
  IN MapThenSumSet(LAMBDA c : AbsDifference(CountOf(reference, c) * n, CountOf(comparison, c) * m), Categories)

-----------------------------------------------------------------------------
Empty == reference = <<>> /\ comparison = <<>>

AddReference ==
  /\ Len(reference) < MaxReference
  /\ \E v \in Numbers \cup {Null} : reference' = Append(reference, v)
  /\ UNCHANGED comparison

AddComparison ==
  /\ Len(comparison) < MaxComparison
  /\ \E v \in Numbers \cup {Null} : comparison' = Append(comparison, v)
  /\ UNCHANGED reference

PopulationsSpec == Empty /\ [][AddReference \/ AddComparison]_populations

-----------------------------------------------------------------------------
\* The difference of the distribution functions at v, times both lengths.
UpTo(s, v) == Cardinality({i \in DOMAIN s : s[i] <= v})
Gap(l, r, v) == AbsDifference(UpTo(l, v) * Len(r), UpTo(r, v) * Len(l))

\* ks_distance: the walk finds the largest difference of the two empirical
\* distribution functions, over any repeated, shared or one-sided values.
KSIsLargestGap ==
  NumericStatus \notin {"INSUFFICIENT_COHORT_ROWS", "INSUFFICIENT_NON_NULL_ROWS"} =>
    LET l == Finite(reference) r == Finite(comparison)
        gaps == {Gap(l, r, v) : v \in ToSet(l) \cup ToSet(r)}
    IN /\ KSDistance(l, r) = Max(gaps)
       /\ KSDistance(r, l) = KSDistance(l, r)

\* psi: every value is in one bin, and neither outermost bin is empty of the
\* reference it was fitted on, however its quantiles coincide.
BinsHoldReference ==
  NumericStatus = "AVAILABLE" =>
    LET l == Finite(reference)
        bounds == Boundaries(l)
        left == Counts(bounds, l)
    IN /\ left[1] > 0 /\ left[Cardinality(bounds) + 1] > 0
       /\ \A s \in {l, Finite(comparison)} :
            MapThenSumSet(LAMBDA n : Counts(bounds, s)[n], 1 .. (Cardinality(bounds) + 1)) = Len(s)

\* _percentile: quantiles lie between the extremes and do not decrease.
PercentilesOrdered ==
  LET l == Finite(reference) IN
  l # <<>> =>
    /\ \A i \in 1 .. (Bins - 2) : Percentile(l, i) <= Percentile(l, i + 1)
    /\ \A i \in 1 .. (Bins - 1) : l[1] * Bins <= Percentile(l, i) /\ Percentile(l, i) <= l[Len(l)] * Bins

\* categorical_comparison: the distance is at most one, one only between
\* populations without a common category, and at least the share of what is new.
CategoriesBalance ==
  Min({Len(reference), Len(comparison)}) >= MinimumRows =>
    LET m == Len(reference) n == Len(comparison)
        new == MapThenSumSet(LAMBDA c : CountOf(comparison, c), NewCategories)
    IN /\ TotalVariation <= 2 * m * n
       /\ TotalVariation = 2 * m * n <=> Categories = NewCategories \cup DisappearedCategories
       /\ TotalVariation >= 2 * m * new

\* The distances a drift snapshot reports are those they are called.
DistancesDefined == KSIsLargestGap /\ BinsHoldReference /\ PercentilesOrdered /\ CategoriesBalance
=============================================================================
