----------------------------- MODULE AuditRotation -----------------------------
(***************************************************************************)
(* The audit log (src/security/audit.ts) and its rotation at start-up      *)
(* (src/security/retention.ts).  Every tool call of every process appends  *)
(* a line to audit.jsonl, by opening the path and writing; every process   *)
(* that starts rotates the log when it is too big, by one unlink and a     *)
(* series of renames, oldest generation first, that other processes see    *)
(* one at a time.                                                          *)
(*                                                                         *)
(* A line is numbered by the order of the opens, and a file is named by    *)
(* the line whose open created it.                                         *)
(***************************************************************************)
EXTENDS Naturals, FiniteSets

CONSTANTS Rotator,     \* processes in start-up maintenance at the same time
          AuditKeep,   \* config.auditKeep
          Limit,       \* auditMaxBytes, in lines
          MaxLines,    \* bound: lines appended
          MaxAppends   \* bound: appends between their open and their write

ASSUME KeepPositive == AuditKeep \in Nat \ {0}
ASSUME SizesAreNat  == Limit \in Nat /\ MaxLines \in Nat /\ MaxAppends \in Nat

VARIABLES name,     \* which file audit.jsonl (slot 0) and audit.jsonl.g name
          file,     \* which file each line was opened on
          written,  \* the lines written
          opened,   \* how many lines were opened
          next      \* the slot each rotation handles next, or Done

logVars == <<name, file, written, opened, next>>

None == 0
Done == AuditKeep + 1

Slots == 0 .. AuditKeep
LineNumber == 1 .. MaxLines

Kept(f) == \E g \in Slots : name[g] = f

LinesOf(f) == {n \in written : file[n] = f}

LogInit ==
  /\ name = [g \in Slots |-> None]
  /\ file = [n \in LineNumber |-> None]
  /\ written = {}
  /\ opened = 0
  /\ next = [r \in Rotator |-> Done]

\* appendAuditRecord opens the log, creating it if it is not there.
OpenLog ==
  /\ opened < MaxLines
  /\ opened - Cardinality(written) < MaxAppends
  /\ opened' = opened + 1
  /\ name' = [name EXCEPT ![0] = IF @ = None THEN opened' ELSE @]
  /\ file' = [file EXCEPT ![opened'] = name'[0]]
  /\ UNCHANGED <<written, next>>

\* The line goes to the file that was opened, whatever it is called by now.
WriteLine(n) ==
  /\ n \in 1 .. opened
  /\ n \notin written
  /\ written' = written \cup {n}
  /\ UNCHANGED <<name, file, opened, next>>

\* rotateAuditLog starts when the log it stats is over the limit.
BeginRotation(r) ==
  /\ next[r] = Done
  /\ name[0] # None
  /\ Cardinality(LinesOf(name[0])) > Limit
  /\ next' = [next EXCEPT ![r] = AuditKeep]
  /\ UNCHANGED <<name, file, written, opened>>

\* The oldest generation is unlinked (a missing one is ignored).
DropOldest(r) ==
  /\ next[r] = AuditKeep
  /\ name' = [name EXCEPT ![AuditKeep] = None]
  /\ next' = [next EXCEPT ![r] = AuditKeep - 1]
  /\ UNCHANGED <<file, written, opened>>

\* Slips, not the code: the newest slots are shifted first; the loop runs one
\* slot too far.
ShiftNewestFirst(r) ==
  /\ next[r] < AuditKeep
  /\ LET g == (AuditKeep - 1) - next[r] IN
     /\ name' = IF name[g] = None THEN name
                ELSE [name EXCEPT ![g + 1] = name[g], ![g] = None]
     /\ next' = [next EXCEPT ![r] = IF @ = 0 THEN Done ELSE @ - 1]
  /\ UNCHANGED <<file, written, opened>>

\* rename(slot g, slot g + 1), the log itself being slot 0: whatever was in
\* slot g + 1 is replaced; a missing slot g is ignored.
Shift(r) ==
  /\ next[r] < AuditKeep
  /\ LET g == next[r] IN
     /\ name' = IF name[g] = None THEN name
                ELSE [name EXCEPT ![g + 1] = name[g], ![g] = None]
     /\ next' = [next EXCEPT ![r] = IF g = 0 THEN Done ELSE g - 1]
  /\ UNCHANGED <<file, written, opened>>

\* The process dies in the middle of its rotation.
DieRotating(r) ==
  /\ next[r] # Done
  /\ next' = [next EXCEPT ![r] = Done]
  /\ UNCHANGED <<name, file, written, opened>>

LogNext ==
  \/ OpenLog
  \/ \E n \in LineNumber : WriteLine(n)
  \/ \E r \in Rotator : BeginRotation(r) \/ DropOldest(r) \/ Shift(r) \/ DieRotating(r)

LogSpec == LogInit /\ [][LogNext]_logVars

--------------------------------------------------------------------------------
\* Types of the directory, of the lines and of the rotations.
LogTypeOK ==
  /\ name \in [Slots -> LineNumber \cup {None}]
  /\ file \in [LineNumber -> LineNumber \cup {None}]
  /\ written \subseteq 1 .. opened
  /\ opened \in 0 .. MaxLines
  /\ next \in [Rotator -> 0 .. Done]

\* Only the oldest history is ever lost: no rename clobbers a generation, and
\* a rotation cut short leaves gaps, never a hole in what is kept.
KeepsTheNewest ==
  \A m, n \in written : m < n /\ Kept(file[m]) => Kept(file[n])

\* The strengthening behind it: later slots hold older files; lines go to ever
\* newer files; what is kept is everything from some file on; and a rotation
\* renames into a slot it has emptied.
LogInv ==
  /\ LogTypeOK
  /\ \A g, h \in Slots : g < h /\ name[g] # None /\ name[h] # None => name[h] < name[g]
  /\ \A g \in Slots : name[g] <= opened /\ (name[g] # None => file[name[g]] = name[g])
  /\ \A n \in 1 .. opened : file[n] \in 1 .. opened
  /\ \A m, n \in 1 .. opened : m <= n => file[m] <= file[n]
  /\ \A m, n \in 1 .. opened : file[m] <= file[n] /\ Kept(file[m]) => Kept(file[n])
  /\ \A r \in Rotator : next[r] < AuditKeep => name[next[r] + 1] = None

\* Processes that rotate do so one after the other.
OneAtATime == \A r, s \in Rotator : next[r] # Done /\ next[s] # Done => r = s
================================================================================
