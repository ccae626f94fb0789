------------------------------ MODULE AtomicWrite ------------------------------
(***************************************************************************)
(* writeJsonFileAtomic (src/util/atomicWrite.ts): the content goes to a    *)
(* temporary file of the call's own name, which is then renamed over the   *)
(* target.  A step is a system call; a write of the content is two, for a  *)
(* file that is opened and not yet written is what a reader must not see.  *)
(***************************************************************************)
CONSTANT Writer     \* calls of writeJsonFileAtomic

VARIABLES path,     \* the target: its content, and whether all of it is there
          temp      \* the temporary files, by name: <<>> or <<content>>

Whole(v) == [whole |-> TRUE, value |-> v]
Torn(v)  == [whole |-> FALSE, value |-> v]

Init(v) == path = Whole(v) /\ temp = [n \in Writer |-> <<>>]

\* A slip, not the code: the pid alone, so calls of one process share a name.
TempNameByPid(w) == CHOOSE n \in Writer : TRUE

\* The pid and the per-call counter: no two calls have the same name.
TempName(w) == w

\* The file is created, or truncated if it is there.
Open(w, v) ==
  /\ temp' = [temp EXCEPT ![TempName(w)] = <<Torn(v)>>]
  /\ UNCHANGED path

Write(w, v) ==
  /\ temp[TempName(w)] # <<>>
  /\ temp' = [temp EXCEPT ![TempName(w)] = <<Whole(v)>>]
  /\ UNCHANGED path

Rename(w) ==
  /\ temp[TempName(w)] # <<>>
  /\ path' = temp[TempName(w)][1]
  /\ temp' = [temp EXCEPT ![TempName(w)] = <<>>]

\* Any of the three fails, the temporary file is unlinked; or the process
\* dies, and leaves a file whose name nobody uses again.
Abandon(w) ==
  /\ temp' = [temp EXCEPT ![TempName(w)] = <<>>]
  /\ UNCHANGED path

\* Readers only ever find whole contents.
NeverTorn == path.whole
================================================================================
