-------------------------- MODULE MCMetricIndexCache --------------------------
(***************************************************************************)
(* Instances of the metric index: two calls in one process and one in a    *)
(* process of an older release.                                            *)
(***************************************************************************)
EXTENDS MetricIndexCache

CONSTANTS c1, c2, c3, p1, p2

TwoReleases == [c \in Caller |-> IF c = c3 THEN p2 ELSE p1]
================================================================================
