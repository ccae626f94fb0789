-------------------------------- MODULE Baseline --------------------------------
(***************************************************************************)
(* The analysis of an incident: its window compared with control windows   *)
(* (src/analysis/baseline.ts), other panels ranked by how much they moved  *)
(* with it (src/analysis/correlation.ts), and the verdict put together     *)
(* from both (src/analysis/summarize.ts).                                  *)
(*                                                                         *)
(* The code computes in floating point; here the same quantities are exact.*)
(* A baseline is a fraction mean / den and the square root of spread /     *)
(* den^2.  Two fractions, or their squares, are compared by their cross    *)
(* products.                                                               *)
(***************************************************************************)
EXTENDS Series

CONSTANTS
  ZThreshold,               \* standard deviations from which a window is unusual
  Epsilon                   \* the least deviation of a baseline at zero: 1e-9

ASSUME EpsilonAssumption == Epsilon \in Nat \ {0}

Abs(x) == IF x < 0 THEN -x ELSE x

\* A slip, not the code: the spread leaves out how the control means differ.
PoolWithin(stats) ==
  LET n     == FoldLeft(LAMBDA product, s : product * s.count, 1, stats)
      den   == n * Len(stats)
      mean  == FoldLeft(LAMBDA sum, s : sum + s.sum * (n \div s.count), 0, stats)
      own   == FoldLeft(LAMBDA sum, s : sum + (s.count * s.squares - s.sum * s.sum)
                                              * (n \div s.count) * (n \div s.count), 0, stats)
  IN  [mean |-> mean, den |-> den, spread |-> own * Len(stats)]

\* The controls pooled: the mean of their means, and the variance within them
\* and between their means, which is the mean of their squares less the square
\* of that mean.
Pool(stats) ==
  LET n    == FoldLeft(LAMBDA product, s : product * s.count, 1, stats)
      den  == n * Len(stats)
      mean == FoldLeft(LAMBDA sum, s : sum + s.sum * (n \div s.count), 0, stats)
      sq   == FoldLeft(LAMBDA sum, s : sum + s.squares * (n \div s.count), 0, stats)
  IN  [mean |-> mean, den |-> den, spread |-> den * sq - mean * mean]

\* effectiveStddev, squared: for a flat baseline a hundredth of the mean, and for
\* one at zero an absolute floor.
SigmaSquared(pool) ==
  CASE pool.spread # 0 -> [num |-> pool.spread, den |-> pool.den * pool.den]
    [] pool.spread = 0 /\ pool.mean # 0 -> [num |-> pool.mean * pool.mean, den |-> 10000 * pool.den * pool.den]
    [] OTHER -> [num |-> Epsilon * Epsilon, den |-> 1]

\* The square of the distance of a fraction from the mean.
Distance(num, den, pool) ==
  LET gap == num * pool.den - pool.mean * den
  IN  [num |-> gap * gap, den |-> den * den * pool.den * pool.den]

Reduced(q) == LET g == Gcd(q.num, q.den) IN [num |-> q.num \div g, den |-> q.den \div g]

\* The square of the z-score.
ZSquared(num, den, pool) ==
  LET d == Distance(num, den, pool)
      s == SigmaSquared(pool)
      a == Reduced([num |-> d.num, den |-> s.num])
      b == Reduced([num |-> s.den, den |-> d.den])
  IN  Reduced([num |-> a.num * b.num, den |-> a.den * b.den])

AtLeast(z, sigmas) == z.num >= sigmas * sigmas * z.den
Beyond(z, sigmas)  == z.num > sigmas * sigmas * z.den

\* A value outside the baseline's band of two standard deviations.
Apart(v, pool) == Beyond(ZSquared(v, 1, pool), 2)

Flat(pool) == pool.mean = 0 /\ pool.spread = 0

\* The controls that have any value.
Valid(controls) == SelectSeq([i \in DOMAIN controls |-> Stats(controls[i])], LAMBDA s : s.count > 0)

\* The runs, the earliest first.
InOrder(runs) ==
  CHOOSE p \in Permutations(DOMAIN runs) :
    \A i, j \in DOMAIN runs : i < j => runs[p[i]][1].t <= runs[p[j]][1].t
ByStart(runs) == [n \in DOMAIN runs |-> runs[InOrder(runs)[n]]]

\* compareToBaseline.  The excursions are the runs of points more than two
\* standard deviations below or above, by their first point.
Compared(incident, controls) ==
  LET own   == Stats(incident)
      valid == Valid(controls)
      pool  == Pool(valid)
      side(v) == IF v * pool.den < pool.mean THEN "below" ELSE "above"
      new     == Flat(pool) /\ own.nonZero > 0
      z       == ZSquared(own.sum, own.count, pool)
      off(where)  == {i \in DOMAIN incident :
                        LET v == incident[i].v IN v # Null /\ side(v) = where /\ Apart(v, pool)}
  IN  IF own.count = 0 \/ valid = <<>> THEN [is |-> "insufficient-data", z |-> Null, excursions |-> <<>>]
      ELSE [is |-> CASE new -> "baseline-all-zero"
                     [] ~new /\ AtLeast(z, ZThreshold) -> "statistically-unusual"
                     [] OTHER -> "common-during-normal-operations",
            z  |-> IF new THEN Null ELSE z,
            excursions |-> ByStart(Runs(incident, off("below")) \o Runs(incident, off("above")))]

\* detectOnset: the first point two standard deviations or more from the mean of
\* the window before.
Onset(points, before) ==
  LET pool == Pool(<<Stats(before)>>)
      off  == SelectSeq(Known(points), LAMBDA p : AtLeast(ZSquared(p.v, 1, pool), 2))
  IN  IF Stats(before).count = 0 \/ off = <<>> THEN Null ELSE off[1].t

--------------------------------------------------------------------------------
\* rankCorrelatedAnomalies.

Overlapping(primary, labels) ==
  Cardinality({k \in (DOMAIN primary) \cap (DOMAIN labels) : primary[k] = labels[k]})

\* Squared: the z-score, or for a signal that was never there before the share
\* of its points that show it.
Magnitude(comparison, own) ==
  CASE comparison.is = "baseline-all-zero" ->
         Reduced([num |-> ZThreshold * ZThreshold * own.nonZero * own.nonZero, den |-> own.count * own.count])
    [] comparison.is # "baseline-all-zero" /\ comparison.z = Null -> [num |-> 0, den |-> 1]
    [] OTHER -> comparison.z

\* Squared: the magnitude, by the labels shared and the nearness of the onsets.
Score(c, primary, onset) ==
  LET m   == Magnitude(Compared(c.incident, <<c.before>>), Stats(c.incident))
      o   == 1 + Overlapping(primary, c.labels)
      own == Onset(c.incident, c.before)
      lag == Abs(own - onset)
  IN  IF onset = Null \/ own = Null THEN Reduced([num |-> m.num * o * o, den |-> m.den])
      ELSE Reduced([num |-> m.num * o * o * (2 + lag) * (2 + lag), den |-> m.den * (1 + lag) * (1 + lag)])

Ranked(candidates, primary, onset) ==
  SortSeq([i \in DOMAIN candidates |->
             [candidate |-> candidates[i], score |-> Score(candidates[i], primary, onset)]],
          LAMBDA a, b : a.score.num * b.score.den > b.score.num * a.score.den)

--------------------------------------------------------------------------------
\* summarizeFindings: the verdict, by the classification, the excursions and
\* whether the alert's own threshold was crossed (or Null).

Unusual(b, crossed) == b.is = "statistically-unusual" /\ crossed # FALSE

\* A slip, not the code: a window common on the whole is common.
VerdictByMean(b, crossed) ==
  CASE b.is = "insufficient-data" -> "inconclusive"
    [] b.is = "baseline-all-zero" -> IF crossed = TRUE THEN "real-anomaly" ELSE "inconclusive"
    [] Unusual(b, crossed) -> "real-anomaly"
    [] b.is = "statistically-unusual" /\ crossed = FALSE -> "inconclusive"
    [] OTHER -> "likely-false-positive"

Verdict(b, crossed) ==
  CASE b.is = "insufficient-data" -> "inconclusive"
    [] b.is = "baseline-all-zero" -> IF crossed = TRUE THEN "real-anomaly" ELSE "inconclusive"
    [] Unusual(b, crossed) -> "real-anomaly"
    [] b.is = "statistically-unusual" /\ crossed = FALSE -> "inconclusive"
    [] OTHER -> IF b.excursions # <<>> THEN "inconclusive" ELSE "likely-false-positive"

Confidence(b, crossed, confirmed) ==
  CASE b.is = "insufficient-data" -> "low"
    [] b.is = "baseline-all-zero" -> IF crossed = TRUE \/ confirmed THEN "medium" ELSE "low"
    [] Unusual(b, crossed) -> IF crossed = TRUE THEN "high" ELSE "medium"
    [] OTHER -> IF Verdict(b, crossed) = "likely-false-positive" THEN "medium" ELSE "low"

\* What has to be disclosed: queries nobody validated, and what the baseline
\* cannot say.
Missing(b, crossed, adhoc) ==
  (IF adhoc THEN {"adhoc"} ELSE {})
    \cup (IF b.is = "insufficient-data" THEN {"baseline"} ELSE {})
    \cup (IF b.is = "baseline-all-zero" /\ crossed # TRUE THEN {"significance"} ELSE {})
================================================================================
