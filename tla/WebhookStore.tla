------------------------------ MODULE WebhookStore ------------------------------
(***************************************************************************)
(* The file of received alerts (src/webhook/store.ts): the listener        *)
(* appends one JSON line per webhook, and tool calls read it backwards, a  *)
(* chunk at a time, to have the newest records first.                      *)
(*                                                                         *)
(* A byte is <<n, k>>, the k-th of record n, or a newline; record n has    *)
(* Length[n] bytes, and a line parses when it is all the bytes of one      *)
(* record.  An append may reach the file in several writes, and be cut     *)
(* short by a crash or a full disk.                                        *)
(***************************************************************************)
EXTENDS Naturals, Sequences, FiniteSets, SequencesExt

CONSTANTS Records,    \* how many webhooks are received
          Length,     \* the bytes of each record, its newline left out
          ChunkBytes, \* TAIL_CHUNK_BYTES
          MaxCuts   \* bound: appends cut short

ASSUME SizesPositive ==
  /\ Records \in Nat /\ MaxCuts \in Nat
  /\ Length \in [1 .. Records -> Nat \ {0}]
  /\ ChunkBytes \in Nat \ {0}

VARIABLES alerts,   \* alerts.jsonl, byte by byte
          received, \* webhooks received so far
          writing,  \* what the append under way has not written yet
          stored,   \* the records whose append returned
          cuts,
          reading,  \* a read is under way
          size,     \* the file's size when it was opened for reading
          end,      \* the bytes before this one are not read yet
          carry,    \* bytes of a line that begins further back
          out       \* what the read has yielded

writeVars == <<alerts, received, writing, stored, cuts>>
readVars  == <<reading, size, end, carry, out>>
alertVars == <<writeVars, readVars>>

NL == <<0, 0>>

Body(n) == [k \in 1 .. Length[n] |-> <<n, k>>]

\* A slip, not the code: the record without its newline.
BareLine(n) == Body(n)

Line(n) == Append(Body(n), NL)

AlertsInit ==
  /\ alerts = <<>> /\ received = 0 /\ writing = <<>> /\ stored = {} /\ cuts = 0
  /\ reading = FALSE /\ size = 0 /\ end = 0 /\ carry = <<>> /\ out = <<>>

--------------------------------------------------------------------------------
\* storeWebhook: the listener handles one request's append at a time.
Store ==
  /\ writing = <<>>
  /\ received < Records
  /\ received' = received + 1
  /\ writing' = Line(received + 1)
  /\ UNCHANGED <<alerts, stored, cuts, readVars>>

\* A write of the append: all that is left of the line, or the first n bytes.
WriteAlert(n) ==
  /\ n \in 1 .. Len(writing)
  /\ alerts' = alerts \o SubSeq(writing, 1, n)
  /\ writing' = SubSeq(writing, n + 1, Len(writing))
  /\ stored' = IF writing' = <<>> THEN stored \cup {received} ELSE stored
  /\ UNCHANGED <<received, cuts, readVars>>

\* The append throws, or the process dies and is started again.
CutShort ==
  /\ writing # <<>>
  /\ cuts < MaxCuts
  /\ cuts' = cuts + 1
  /\ writing' = <<>>
  /\ UNCHANGED <<alerts, received, stored, readVars>>

--------------------------------------------------------------------------------
\* The records on the lines of a stretch of bytes, the last of which may lack
\* its newline; parseLine drops what does not parse.
Parsed(bytes) ==
  LET Begins(i) == i = 1 \/ bytes[i - 1] = NL
      Ends(j)   == j = Len(bytes) \/ bytes[j + 1] = NL
  IN {n \in 1 .. Records : \E i \in 1 .. Len(bytes) :
        LET j == i + Length[n] - 1 IN
        j <= Len(bytes) /\ Begins(i) /\ Ends(j) /\ SubSeq(bytes, i, j) = Body(n)}

NewestFirst(ns) ==
  CHOOSE s \in [1 .. Cardinality(ns) -> ns] : \A i, j \in DOMAIN s : i < j => s[i] > s[j]

\* readRecordsNewestFirst opens the file and takes its size, once.
OpenForRead ==
  /\ ~reading
  /\ reading' = TRUE
  /\ size' = Len(alerts)
  /\ end' = Len(alerts)
  /\ carry' = <<>>
  /\ out' = <<>>
  /\ UNCHANGED writeVars

\* A slip, not the code: the beginning of a chunk is read as a line.
ReadChunkWhole ==
  /\ reading /\ end > 0
  /\ LET start == IF end > ChunkBytes THEN end - ChunkBytes ELSE 0 IN
     /\ out' = out \o NewestFirst(Parsed(SubSeq(alerts, start + 1, end)))
     /\ end' = start
  /\ UNCHANGED <<writeVars, reading, size, carry>>

\* One step back.  Unless this is the first chunk of the file, what comes
\* before its first newline is carried over to the next step; the lines after
\* it are complete and are yielded, last one first.
ReadChunk ==
  /\ reading /\ end > 0
  /\ LET start    == IF end > ChunkBytes THEN end - ChunkBytes ELSE 0
         combined == SubSeq(alerts, start + 1, end) \o carry
         newlines == {i \in 1 .. Len(combined) : combined[i] = NL}
         cut      == IF start = 0 THEN 0
                     ELSE IF newlines = {} THEN Len(combined) + 1
                     ELSE CHOOSE i \in newlines : \A j \in newlines : i <= j
     IN /\ carry' = SubSeq(combined, 1, cut - 1)
        /\ out' = out \o NewestFirst(Parsed(SubSeq(combined, cut + 1, Len(combined))))
        /\ end' = start
  /\ UNCHANGED <<writeVars, reading, size>>

\* The caller has what it wants (the newest record, one with a fingerprint,
\* the first few), or the beginning of the file was reached.
CloseRead ==
  /\ reading
  /\ reading' = FALSE
  /\ size' = 0 /\ end' = 0 /\ carry' = <<>> /\ out' = <<>>
  /\ UNCHANGED writeVars

AlertsNext ==
  \/ Store \/ CutShort
  \/ \E n \in 1 .. Len(writing) : WriteAlert(n)
  \/ OpenForRead \/ ReadChunk \/ CloseRead

AlertsSpec == AlertsInit /\ [][AlertsNext]_alertVars

--------------------------------------------------------------------------------
\* Types of the file, of the append and of the read under way.
AlertsTypeOK ==
  LET Byte == {NL} \cup UNION {{Body(n)[k] : k \in 1 .. Length[n]} : n \in 1 .. Records} IN
  /\ alerts \in Seq(Byte) /\ writing \in Seq(Byte) /\ carry \in Seq(Byte)
  /\ received \in 0 .. Records
  /\ stored \subseteq 1 .. received
  /\ cuts \in 0 .. MaxCuts
  /\ reading \in BOOLEAN
  /\ size \in 0 .. Len(alerts) /\ end \in 0 .. size
  /\ out \in Seq(1 .. received)

\* A read yields the records that were in the file when it was opened, all of
\* them and newest first, wherever the chunks fall, whatever is appended in
\* the meantime and whatever line is truncated.
ReadsNewestFirst ==
  reading =>
    LET expected == NewestFirst(Parsed(SubSeq(alerts, 1, size))) IN
    IF end = 0 THEN out = expected ELSE IsPrefix(out, expected)

\* A truncated line costs at most the record glued to it: of the webhooks
\* acknowledged, no more are unreadable than appends were cut short.
LossIsBounded == Cardinality(stored \ Parsed(alerts)) <= cuts

\* The strengthening behind it.  Record n is on a line of its own, which ends.
Whole(n) ==
  \E i \in 1 .. Len(alerts) :
    /\ i + Length[n] <= Len(alerts)
    /\ i = 1 \/ alerts[i - 1] = NL
    /\ \A k \in 1 .. Length[n] : alerts[i + k - 1] = <<n, k>>
    /\ alerts[i + Length[n]] = NL

\* The bytes of the append under way that are in the file, and those before it.
Begun  == IF writing = <<>> THEN 0 ELSE Length[received] + 1 - Len(writing)
Before == Len(alerts) - Begun

\* The line before the append under way, or before the next one, is truncated:
\* what is appended to it is lost.
Torn == Before > 0 /\ alerts[Before] # NL

Lost == {n \in stored : ~Whole(n)}

LossInv ==
  /\ alerts \in Seq(Nat \X Nat) /\ writing \in Seq(Nat \X Nat)
  /\ received \in 0 .. Records /\ stored \subseteq 1 .. received /\ cuts \in Nat
  /\ writing # <<>> =>
       /\ received # 0 /\ received \notin stored
       /\ Begun \in Nat /\ Before \in Nat
       /\ \A k \in 1 .. Begun : alerts[Before + k] = Line(received)[k]
       /\ \A k \in 1 .. Len(writing) : writing[k] = Line(received)[Begun + k]
  /\ Cardinality(Lost) + (IF Torn THEN 1 ELSE 0) <= cuts

\* The strengthening behind ReadsNewestFirst.  The records on the lines from byte a to byte b.
RecordsIn(bytes, a, b) ==
  {n \in 1 .. Records : \E i \in a .. b :
     LET j == i + Length[n] - 1 IN
     /\ j <= b
     /\ i = a \/ bytes[i - 1] = NL
     /\ j = b \/ bytes[j + 1] = NL
     /\ \A k \in 1 .. Length[n] : bytes[i + k - 1] = <<n, k>>}

\* The file has the bytes of the records in the order in which these came, each
\* byte at most once, those of the append under way last.
InOrder ==
  /\ \A i \in 1 .. Len(alerts) : alerts[i] # NL => alerts[i][1] \in 1 .. received
  /\ \A i, j \in 1 .. Len(alerts) : i < j /\ alerts[i] # NL /\ alerts[j] # NL =>
       \/ alerts[i][1] < alerts[j][1]
       \/ alerts[i][1] = alerts[j][1] /\ alerts[i][2] < alerts[j][2]
  /\ writing # <<>> =>
       \A i \in 1 .. Len(alerts) : alerts[i] # NL /\ alerts[i][1] = received => i > Before

\* A read that has not reached the beginning carries what comes before the lines
\* it has yielded, up to their newline.
Unread == end + Len(carry)

ReadInv ==
  reading =>
    /\ size \in 0 .. Len(alerts) /\ end \in 0 .. size
    /\ carry \in Seq(Nat \X Nat) /\ Unread \in end .. size
    /\ \A k \in 1 .. Len(carry) : carry[k] = alerts[end + k]
    /\ IF end = 0 THEN out = NewestFirst(RecordsIn(alerts, 1, size))
       ELSE /\ Unread = size \/ alerts[Unread + 1] = NL
            /\ out = NewestFirst(RecordsIn(alerts, Unread + 2, size))

================================================================================
