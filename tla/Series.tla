--------------------------------- MODULE Series ---------------------------------
(***************************************************************************)
(* The time series a query returns and what is read off them               *)
(* (src/query/executor.ts, src/query/stepReport.ts, src/analysis/runs.ts,  *)
(* computeStats of src/analysis/baseline.ts, src/security/limits.ts).      *)
(*                                                                         *)
(* A point is a record [t, v]: an instant and a value, or Null where the   *)
(* datasource has none.  Values are whole numbers of some unit, so that    *)
(* means and variances are exact fractions.                                *)
(***************************************************************************)
EXTENDS Integers, SequencesExt

CONSTANTS
  Null,
  MaxDataPoints,            \* points of a series an answer may carry
  MaxRuns                   \* MAX_RETURNED_RUNS: runs an answer may list

\* parseFrames.  A response gives each query an error or frames; a frame has the
\* types of its fields, its labels and its points.  Frames without a time are
\* passed over, frames of text told of only where a query returned nothing else.
Parsed(response) ==
  LET frames(r)  == IF response[r].error THEN {}
                    ELSE {f \in ToSet(response[r].frames) : "time" \in f.types}
      numeric(r) == {f \in frames(r) : "number" \in f.types}
      texts(r)   == {f \in frames(r) : "number" \notin f.types /\ "string" \in f.types}
  IN  [series |-> UNION {{[refId |-> r, labels |-> f.labels, points |-> f.points] :
                           f \in numeric(r)} : r \in DOMAIN response},
       errors |-> {r \in DOMAIN response :
                     response[r].error \/ (numeric(r) = {} /\ texts(r) # {})}]

\* The points of the series with another's key (its query and labels), if any.
PointsLike(all, one) ==
  LET same == {s \in all : s.refId = one.refId /\ s.labels = one.labels}
  IN  IF same = {} THEN <<>> ELSE (CHOOSE s \in same : TRUE).points

--------------------------------------------------------------------------------
Known(points)  == SelectSeq(points, LAMBDA p : p.v # Null)
Total(points, F(_)) == FoldLeft(LAMBDA sum, p : sum + F(p.v), 0, points)

\* computeStats: the mean is sum / count, the variance squares / count less the
\* square of the mean.
Stats(points) ==
  LET known == Known(points)
  IN  [count |-> Len(known), sum |-> Total(known, LAMBDA v : v), squares |-> Total(known, LAMBDA v : v * v),
       nonZero |-> Len(SelectSeq(known, LAMBDA p : p.v # 0))]

\* findThresholdRuns, given the places of the points that cross: a run is of points
\* that follow each other; one that does not cross, or has no value, ends it.
Runs(points, places) ==
  LET starts  == {i \in places : i - 1 \notin places}
      last(i) == Min({j \in places : j >= i /\ j + 1 \notin places})
  IN  [n \in 1..Cardinality(starts) |->
         LET i == SetToSortSeq(starts, <)[n] IN SubSeq(points, i, last(i))]

Crossing(v, threshold, direction) == IF direction = "below" THEN v < threshold ELSE v > threshold
ThresholdRuns(points, threshold, direction) ==
  Runs(points, {i \in DOMAIN points : points[i].v # Null /\ Crossing(points[i].v, threshold, direction)})

\* clampRunList.
Listed(runs) == SubSeq(runs, 1, Min({Len(runs), MaxRuns}))

\* clampSeriesPoints: every stride-th point, and the last.
Downsampled(points) ==
  IF Len(points) <= MaxDataPoints THEN points
  ELSE [i \in 1..MaxDataPoints |->
          points[IF i = MaxDataPoints THEN Len(points) ELSE 1 + ((i - 1) * Len(points)) \div MaxDataPoints]]

--------------------------------------------------------------------------------
\* The step, as the returned timestamps tell it.

\* The series of a response whose datasource spaces its points by a step.
Stepped(response, step) ==
  {[s EXCEPT !.points = [i \in DOMAIN s.points |-> [s.points[i] EXCEPT !.t = step * @]]] :
     s \in Parsed(response).series}

\* gcd.
Euclid[p \in Nat \X Nat] == IF p[2] = 0 THEN p[1] ELSE Euclid[<<p[2], p[1] % p[2]>>]
Gcd(x, y) == Euclid[<<x, y>>]

\* The gaps between the distinct instants of a series.
Gaps(points) ==
  LET times == {points[i].t : i \in DOMAIN points}
  IN  {x[2] - x[1] : x \in {y \in times \X times :
                              y[1] < y[2] /\ \A t \in times : ~(y[1] < t /\ t < y[2])}}

\* measureGaps, over every series.
GapGcd(all) ==
  LET gaps == SetToSeq(UNION {Gaps(s.points) : s \in all})
      gcd[i \in 0..Len(gaps)] == IF i = 0 THEN 0 ELSE Gcd(gcd[i - 1], gaps[i])
  IN  gcd[Len(gaps)]

\* A slip, not the code: the tightest spacing is taken for the step.
ConsistentByGap(all, requested) == Min(UNION {Gaps(s.points) : s \in all}) = requested

\* reportedStep: a step that does not divide every gap was not used.
Consistent(all, requested) == GapGcd(all) % requested = 0

\* describeReplayStep.
Evidence(all, requested) ==
  IF GapGcd(all) = 0 THEN "nothing measured"
  ELSE IF requested = Null THEN "none requested"
  ELSE IF Consistent(all, requested) THEN "consistent" ELSE "inconsistent"

\* replayStepWarnings.
Warned(evidence) == evidence = "inconsistent"
================================================================================
