------------------------------ MODULE QueryWindows ------------------------------
(***************************************************************************)
(* The windows an incident is looked at through (src/query/windows.ts) and *)
(* their limits (windowSizeWarning of src/tools/shared.ts,                 *)
(* enforceWindowLimit of src/security/limits.ts).  A window is a record    *)
(* [label, from, to].                                                      *)
(***************************************************************************)
EXTENDS Integers, Sequences

CONSTANTS
  Buffer,                   \* the shortest pre-window, half an hour in the code
  Day,
  MaxLookback               \* MAX_LOOKBACK_HOURS

\* computeWindows: the incident, the buffer before it, and the incident moved
\* into the past by each offset.
Windows(from, to, offsets) ==
  LET length == to - from
  IN  [incident |-> [label |-> "incident", from |-> from, to |-> to],
       before   |-> [label |-> "pre-window", to |-> from,
                     from |-> from - (IF length > Buffer THEN length ELSE Buffer)],
       controls |-> [i \in DOMAIN offsets |->
                       [label |-> offsets[i].label,
                        from |-> from - offsets[i].by, to |-> to - offsets[i].by]]]

Overlap(a, b) == a.from < b.to /\ b.from < a.to

\* excludeOverlapping: the places of the controls that may be pooled.
Pooled(incident, controls) == {i \in DOMAIN controls : ~Overlap(incident, controls[i])}

\* windowSizeWarning: an end that was left out may not make the window of an old
\* alert reach to the present.
TooLong(from, omitted, to) == omitted /\ to - from > Day

Allowed(w) == w.to - w.from <= MaxLookback /\ w.to > w.from
================================================================================
