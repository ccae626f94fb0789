--------------------------- MODULE InvestigationProofs ---------------------------
(***************************************************************************)
(* For every choice of the constants: a search of every scope leaves       *)
(* nothing out and is of the source asked for, a join reports nothing its  *)
(* whole streams would not, a query of the agent's own leaves a record     *)
(* that runs it again, windows that are compared ask alike, a step warned  *)
(* of was not used, and what lies outside the baseline is not dismissed.   *)
(***************************************************************************)
EXTENDS Investigation, FiniteSetTheorems, WellFoundedInduction, TLAPS

\* The lesser of two numbers is one of them, and neither is below it
\* (clampLogLimit takes Math.min).
LEMMA MinOfTwo ==
  ASSUME NEW a \in Nat, NEW b \in Nat
  PROVE  /\ Min({a, b}) \in Nat
         /\ Min({a, b}) <= a /\ Min({a, b}) <= b
         /\ Min({a, b}) \in {a, b}
<1>1. \E x \in {a, b} : \A y \in {a, b} : x <= y
  <2>1. CASE a <= b  BY <2>1
  <2>2. CASE b <= a  BY <2>2
  <2> QED  BY <2>1, <2>2
<1> QED  BY <1>1 DEF Min

\* What is clamped is a number of lines (limits.ts:33-39).
LEMMA ClampedIsNat ==
  ASSUME LogsAssumption, NEW given \in LogCalls
  PROVE  Clamped(given.limit) \in Nat
<1>1. CASE given.limit = Null  BY <1>1 DEF Clamped, LogsAssumption
<1>2. CASE given.limit # Null
  <2>1. given.limit \in Nat /\ MaxLogLines \in Nat  BY <1>2 DEF LogsAssumption
  <2> QED  BY <2>1, <1>2, MinOfTwo DEF Clamped
<1> QED  BY <1>1, <1>2

\* Either end of a sequence, as long as one likes.
LEMMA EndsOfASequence ==
  ASSUME NEW S, NEW s \in Seq(S), NEW n \in 0..Len(s)
  PROVE  LET first == SubSeq(s, 1, n)
             last  == SubSeq(s, Len(s) - n + 1, Len(s))
         IN  /\ DOMAIN first = 1..n /\ \A i \in 1..n : first[i] = s[i]
             /\ DOMAIN last = 1..n /\ \A i \in 1..n : last[i] = s[Len(s) - n + i]
<1>1. Len(s) \in Nat /\ n \in Nat /\ n <= Len(s)  OBVIOUS
<1>2. SubSeq(s, 1, n) = [i \in 1..(1 + n - 1) |-> s[i + 1 - 1]]
  BY <1>1
<1>3. SubSeq(s, Len(s) - n + 1, Len(s))
        = [i \in 1..(1 + Len(s) - (Len(s) - n + 1)) |-> s[i + (Len(s) - n + 1) - 1]]
  BY <1>1
<1>4. 1 + n - 1 = n /\ 1 + Len(s) - (Len(s) - n + 1) = n  BY <1>1
<1>5. \A i \in 1..n : i + 1 - 1 = i /\ i + (Len(s) - n + 1) - 1 = Len(s) - n + i  BY <1>1
<1> QED  BY <1>2, <1>3, <1>4, <1>5

\* A page holds only lines of its stream, and all of them where it is not cut
\* (adapter.ts:91-112, loki.ts:198-224).
LEMMA PagesAreParts ==
  ASSUME NEW lines \in Seq(Keys), NEW limit \in Nat, NEW type
  PROVE  LET page == Fetched(type, lines, limit)
         IN  /\ ToSet(page.keys) \subseteq ToSet(lines)
             /\ ~page.truncated => ToSet(page.keys) = ToSet(lines)
<1> DEFINE most == Min({limit, Len(lines)})
           first == SubSeq(lines, 1, most)
           last == SubSeq(lines, Len(lines) - most + 1, Len(lines))
<1>1. most \in Nat /\ most <= limit /\ most <= Len(lines) /\ most \in {limit, Len(lines)}
  BY MinOfTwo, Len(lines) \in Nat
<1> HIDE DEF most
<1>2. /\ DOMAIN first = 1..most
      /\ \A i \in 1..most : first[i] = lines[i]
  BY <1>1, EndsOfASequence DEF first
<1>3. /\ DOMAIN last = 1..most
      /\ \A i \in 1..most : last[i] = lines[Len(lines) - most + i]
  BY <1>1, EndsOfASequence DEF last
<1>4. DOMAIN lines = 1..Len(lines)  OBVIOUS
<1> HIDE DEF most, first, last
<1>5. CASE type = "graylog"
  <2>1. /\ Fetched(type, lines, limit).keys = first
        /\ Fetched(type, lines, limit).truncated = (Len(lines) > most)
    BY <1>5 DEF Fetched, GraylogPage, most, first
  <2>2. ToSet(first) \subseteq ToSet(lines)
    <3>1. \A i \in 1..most : i \in 1..Len(lines)  BY <1>1, Len(lines) \in Nat
    <3> QED  BY <1>2, <1>4, <3>1 DEF ToSet
  <2>3. ~(Len(lines) > most) => ToSet(first) = ToSet(lines)
    <3>1. SUFFICES ASSUME ~(Len(lines) > most) PROVE ToSet(first) = ToSet(lines)  OBVIOUS
    <3>2. most = Len(lines)  BY <1>1, <3>1, Len(lines) \in Nat
    <3> QED  BY <1>2, <1>4, <3>2 DEF ToSet
  <2> QED  BY <2>1, <2>2, <2>3
<1>6. CASE type # "graylog"
  <2>1. /\ Fetched(type, lines, limit).keys = last
        /\ Fetched(type, lines, limit).truncated = (most >= limit)
    BY <1>6 DEF Fetched, LokiPage, most, last
  <2>2. ToSet(last) \subseteq ToSet(lines)
    <3>1. \A i \in 1..most : Len(lines) - most + i \in 1..Len(lines)  BY <1>1, Len(lines) \in Nat
    <3> QED  BY <1>3, <1>4, <3>1 DEF ToSet
  <2>3. ~(most >= limit) => ToSet(last) = ToSet(lines)
    <3>1. SUFFICES ASSUME ~(most >= limit) PROVE ToSet(last) = ToSet(lines)  OBVIOUS
    <3>2. most = Len(lines)  BY <1>1, <3>1, Len(lines) \in Nat
    <3>3. \A i \in 1..most : Len(lines) - most + i = i  BY <3>2, <1>1
    <3> QED  BY <1>3, <1>4, <3>2, <3>3 DEF ToSet
  <2> QED  BY <2>1, <2>2, <2>3
<1> QED  BY <1>5, <1>6

\* A join of parts is a part of the join, if each stream on the right is there in
\* part, or, where what it has is taken away, as a whole (correlate.ts:46-75,
\* correlateLogs.ts:111-124).
LEMMA JoinsOfParts ==
  ASSUME NEW join \in {"and", "or", "unless"},
         NEW l, NEW left, l \subseteq left,
         NEW parts, NEW wholes,
         \A p \in parts : \E w \in wholes : p \subseteq w,
         \A w \in wholes : \E p \in parts : p \subseteq w,
         join = "unless" => parts = wholes
  PROVE  Joined(join, l, parts) \subseteq Joined(join, left, wholes)
<1>1. CASE join = "and"  BY <1>1 DEF Joined
<1>2. CASE join = "or"  BY <1>2 DEF Joined
<1>3. CASE join = "unless"  BY <1>3 DEF Joined
<1> QED  BY <1>1, <1>2, <1>3

--------------------------------------------------------------------------------
\* A call's scope, or one already searched, of a product: each of its panels is
\* among those tried or cut off, or on a connection unread or gone.
Covered(scope, products, reached, unread) ==
  \A c \in Conn : \A ref \in Related[c] :
    TierOf(ref, products) = scope => ref \in reached \/ c \in unread \/ c \notin listed

\* The listings that show one source only, the one with an id, however what could
\* not be read might complete them.
Firsts(id) ==
  {first \in [world : Worlds, over : SUBSET Conn] :
     \A w \in Completions(first.world) :
       \E s \in Sources(w, first.over) : Sources(w, first.over) = {s} /\ IdOf(s) = id}

\* A replay whose windows may ask different things: the query was edited while they
\* were read, or the variable where nothing was looked up.
Excused(replay) == "query" \in replay.edits \/ (replay.values = Null /\ "selection" \in replay.edits)

\* Unless it may not, a replay asks its windows what the next one would be asked.
ReadsAlike(replay) ==
  /\ DOMAIN replay = {"at", "plan", "values", "saved", "edits", "read", "asked"}
  /\ DOMAIN replay.saved = {"query", "selection"}
  /\ Excused(replay) \/ \A question \in replay.asked :
                           question = [query |-> replay.saved.query, hosts |-> Scope(replay.saved, replay.values)]

\* What holds of a call between its steps, by the place it is at.
CallInv ==
  /\ At("windows") => ReadsAlike(call)
  /\ At("indexes") => listed \ {Primary} \subseteq call.others
  /\ At("candidates") /\ call.scope # Null =>
       Covered(call.scope, call.products, call.refs \cup call.cut, call.unread)
  /\ call.at \in {"sources", "source", "logs"} => call.given \in LogCalls
  /\ At("source") => call.id \in Seq(STRING) /\ call.first \in Firsts(call.id) \cup {Null}
  /\ At("logs") => Certain(call)
  /\ At("logs") /\ call.given.tool = "correlate" => call.given.query # Null
  /\ At("adhoc") => \E asked \in Asks, type \in Authorized \cap Guardable, based \in BOOLEAN :
                      call.record = Recorded(asked, type, based)
  /\ At("datasource") => call.asked \in Asks

\* Every scope searched was covered for one of the products searched for.
LedgerInv ==
  /\ IsFiniteSet(ledger.products)
  /\ \A scope \in ledger.scopes : \E products \in ledger.products :
       Covered(scope, products, ledger.tried \cup ledger.cut, ledger.unread)

\* What the last answer says.
AnswerInv == SourceIsCertain /\ JoinsNeverInvent /\ AuditedReplays

StateInv == CallInv /\ LedgerInv /\ AnswerInv
IInv     == listed \subseteq Conn /\ StateInv

\* What a removal takes away need not be covered.
LEMMA CoveredStays ==
  ASSUME NEW scope, NEW products, NEW reached, NEW unread, NEW reached2, NEW unread2,
         reached \subseteq reached2, unread \subseteq unread2, listed' \subseteq listed,
         Covered(scope, products, reached, unread)
  PROVE  Covered(scope, products, reached2, unread2)'
BY DEF Covered, TierOf

\* What the answer of an ad-hoc query says of itself, it may run again.
RunsAgain(record) ==
  /\ record.based => record.links # {}
  /\ \A link \in record.links :
       /\ record.sent = Null => link.type = record.type
                                /\ link.text \in {record.asked.query, Scanned(record.asked.query)}
       /\ record.sent # Null => link = Link(record.type, record.sent.text, record.sent.how)

\* A record is replayable whether the query was refused or run, if there is an
\* address to replay it at (executeAdhocQuery.ts:397-442).
LEMMA RecordsReplay ==
  ASSUME NEW asked, NEW type \in Authorized \cap Guardable, NEW based \in BOOLEAN
  PROVE  LET record == Recorded(asked, type, based)
         IN  /\ \E sent, links : record = Record(asked, type, sent, based, links)
             /\ RunsAgain(record)
<1> DEFINE verdict == Classify(type, asked.query)
           how == Prepared(type, asked)
           text == IF verdict.allowed THEN verdict.statement ELSE asked.query
           links(h) == IF based THEN {Link(type, text, h)} ELSE {}
<1>1. verdict.allowed => verdict.statement \in {asked.query, Scanned(asked.query)}
  <2>1. CASE type = "influxdb"  BY <2>1 DEF Classify, ClassifyInfluxQL, Accepted, Refused
  <2>2. CASE type = "prometheus"  BY <2>2 DEF Classify, ClassifyPromQL, Accepted, Refused
  <2>3. CASE type = "loki"
    BY <2>3 DEF Classify, ClassifyLogQLMetric, ClassifyPromQL, Accepted, Refused
  <2> QED  BY <2>1, <2>2, <2>3 DEF Guardable
<1>2. text \in {asked.query, Scanned(asked.query)}  BY <1>1
<1>3. ASSUME NEW h PROVE (based => links(h) # {}) /\ \A link \in links(h) : link = Link(type, text, h)
  OBVIOUS
<1>4. CASE ~verdict.allowed \/ how = Null
  <2>1. Recorded(asked, type, based) = Record(asked, type, Null, based, links(Plain))
    BY <1>4 DEF Recorded
  <2>2. \A link \in links(Plain) : link.type = type /\ link.text = text  BY <1>3 DEF Link
  <2>3. based => links(Plain) # {}  BY <1>3
  <2> HIDE DEF links, text, verdict, how
  <2>4. RunsAgain(Record(asked, type, Null, based, links(Plain)))
    BY <2>2, <2>3, <1>2 DEF RunsAgain, Record
  <2> QED  BY <2>1, <2>4
<1>5. CASE ~(~verdict.allowed \/ how = Null)
  <2> DEFINE sent == [text |-> text, how |-> how]
  <2>1. Recorded(asked, type, based) = Record(asked, type, sent, based, links(how))
    BY <1>5 DEF Recorded
  <2>2. \A link \in links(how) : link = Link(type, sent.text, sent.how)  BY <1>3
  <2>3. based => links(how) # {}  BY <1>3
  <2>4. sent # Null => \A link \in links(how) : link = Link(type, sent.text, sent.how)  BY <2>2
  <2>5. \A link \in links(how) : link.type = type /\ link.text = text  BY <1>3 DEF Link
  <2> HIDE DEF sent, links, text, verdict, how
  <2>6. RunsAgain(Record(asked, type, sent, based, links(how)))
    BY <2>3, <2>4, <2>5, <1>2 DEF RunsAgain, Record
  <2> QED  BY <2>1, <2>6
<1> QED  BY <1>4, <1>5

\* Nothing has been answered or searched yet.
THEOREM InitIInv == Init => IInv
<1> SUFFICES ASSUME Init PROVE IInv  OBVIOUS
<1>1. CallInv  BY DEF Init, CallInv, Idle, At
<1>2. LedgerInv  BY FS_EmptySet DEF Init, LedgerInv, Unsearched
<1>3. AnswerInv
  BY DEF Init, Silent, AnswerInv, SourceIsCertain, JoinsNeverInvent, AuditedReplays
<1> QED  BY <1>1, <1>2, <1>3 DEF Init, IInv, StateInv

--------------------------------------------------------------------------------
\* What a step leaves as it was.

\* What a step leaves of the running call keeps the call's part of the invariant.
LEMMA CallElsewhere ==
  ASSUME call'.at \in {"idle", "variables", "answers"}
  PROVE  CallInv'
BY DEF CallInv, At

\* An answer of another tool says nothing of logs and records.
LEMMA AnswerElsewhere ==
  ASSUME answer'.tool \notin {"search", "correlate", "adhoc"}
  PROVE  AnswerInv'
BY DEF AnswerInv, SourceIsCertain, JoinsNeverInvent, AuditedReplays

\* An answer that stays stays true.
LEMMA AnswerStays ==
  ASSUME AnswerInv, answer' = answer
  PROVE  AnswerInv'
BY DEF AnswerInv, SourceIsCertain, JoinsNeverInvent, AuditedReplays

\* A step that searches nothing keeps what the ledger says.
LEMMA LedgerStays ==
  ASSUME LedgerInv, ledger' = ledger, listed' \subseteq listed
  PROVE  LedgerInv'
<1>1. IsFiniteSet(ledger'.products)  BY DEF LedgerInv
<1>2. ASSUME NEW scope \in ledger'.scopes
      PROVE  \E products \in ledger'.products :
               Covered(scope, products, ledger.tried \cup ledger.cut, ledger.unread)'
  <2>1. PICK products \in ledger.products :
               Covered(scope, products, ledger.tried \cup ledger.cut, ledger.unread)
    BY <1>2 DEF LedgerInv
  <2> QED  BY <2>1, CoveredStays
<1> QED  BY <1>1, <1>2 DEF LedgerInv

\* A fresh ledger claims nothing.
LEMMA LedgerClears ==
  ASSUME ledger' = Unsearched
  PROVE  LedgerInv'
BY FS_EmptySet DEF LedgerInv, Unsearched

\* A call that fails ends without an answer (toolErrorResult).
LEMMA Erring ==
  ASSUME Errs
  PROVE  CallInv' /\ AnswerInv'
BY CallElsewhere, AnswerElsewhere DEF Errs, Closes, Idle, Silent

--------------------------------------------------------------------------------
\* Replays leave what was searched behind.
LEMMA ReplaysKeep == IInv /\ Replays => StateInv'
<1> SUFFICES ASSUME IInv, Replays PROVE StateInv'  OBVIOUS
<1>1. ASSUME NEW tool, NEW start, NEW end, NEW offsets, ReplayStarts(tool, start, end, offsets)
      PROVE  StateInv'
  <2>1. LedgerInv'  BY <1>1, LedgerClears DEF ReplayStarts
  <2>2. call'.at \in {"idle", "variables"} /\ answer' = Silent
    <3> DEFINE to == IF end = Null THEN Now ELSE end
               wrong == to < start \/ TooLong(start, end = Null, to) \/ Primary \notin listed
    <3>1. CASE wrong
      <4>1. Errs  BY <1>1, <3>1 DEF ReplayStarts
      <4> QED  BY <4>1 DEF Errs, Closes, Idle
    <3>2. CASE ~wrong
      <4>1. call'.at = "variables" /\ answer' = Silent  BY <1>1, <3>2 DEF ReplayStarts
      <4> QED  BY <4>1
    <3> QED  BY <3>1, <3>2
  <2> QED  BY <2>1, <2>2, CallElsewhere, AnswerElsewhere DEF IInv, StateInv, Silent
<1>2. ASSUME NEW values, NEW board \in Boards, VariablesResolve(values, board)
      PROVE  StateInv'
  <2>1. LedgerInv'  BY <1>2, LedgerStays DEF VariablesResolve, IInv, StateInv
  <2>2. call' = [at |-> "windows", plan |-> call.plan, values |-> values,
                 saved |-> board, edits |-> {}, read |-> 0, asked |-> {}]
    BY <1>2 DEF VariablesResolve
  <2>3. call'.at = "windows" /\ ReadsAlike(call')  BY <2>2 DEF ReadsAlike, Boards
  <2>4. CallInv'  BY <2>3 DEF CallInv, At
  <2> QED  BY <1>2, <2>1, <2>4, AnswerStays DEF VariablesResolve, IInv, StateInv
<1>3. ASSUME WindowReads PROVE StateInv'
  <2>1. LedgerInv'  BY <1>3, LedgerStays DEF WindowReads, IInv, StateInv
  <2>2. ReadsAlike(call) /\ call.at = "windows"  BY <1>3 DEF WindowReads, Reading, At, IInv, StateInv, CallInv
  <2>3. call' = [call EXCEPT !.read = @ + 1,
                             !.asked = @ \cup {[query |-> call.saved.query, hosts |-> Scope(call.saved, call.values)]}]
    BY <1>3 DEF WindowReads
  <2>4. call'.at = "windows" /\ ReadsAlike(call')  BY <2>2, <2>3 DEF ReadsAlike, Excused
  <2>5. CallInv'  BY <2>4 DEF CallInv, At
  <2> QED  BY <1>3, <2>1, <2>5, AnswerStays DEF WindowReads, IInv, StateInv
<1>4. ASSUME NEW board \in Boards, Save(board) PROVE StateInv'
  <2>1. LedgerInv'  BY <1>4, LedgerStays DEF Save, IInv, StateInv
  <2>2. ReadsAlike(call) /\ call.at = "windows"  BY <1>4 DEF Save, Reading, At, IInv, StateInv, CallInv
  <2>3. call' = [call EXCEPT !.saved = board,
                             !.edits = @ \cup {part \in DOMAIN board : board[part] # call.saved[part]}]
    BY <1>4 DEF Save
  <2>4. DOMAIN board = {"query", "selection"}  BY DEF Boards
  <2>5. /\ call'.at = "windows" /\ DOMAIN call' = {"at", "plan", "values", "saved", "edits", "read", "asked"}
        /\ call'.saved = board /\ call'.values = call.values /\ call'.asked = call.asked
        /\ call.edits \subseteq call'.edits
        /\ board["query"] # call.saved["query"] => "query" \in call'.edits
        /\ board["selection"] # call.saved["selection"] => "selection" \in call'.edits
    BY <2>2, <2>3, <2>4 DEF ReadsAlike
  <2>6. Excused(call) => Excused(call')  BY <2>5 DEF Excused
  <2>7. ~Excused(call') => /\ board.query = call.saved.query
                           /\ Scope(board, call.values) = Scope(call.saved, call.values)
    BY <2>5 DEF Excused, Scope, Selected
  <2>8. ReadsAlike(call')  BY <2>2, <2>4, <2>5, <2>6, <2>7 DEF ReadsAlike
  <2>9. CallInv'  BY <2>5, <2>8 DEF CallInv, At
  <2> QED  BY <1>4, <2>1, <2>9, AnswerStays DEF Save, IInv, StateInv
<1>5. ASSUME WindowsAsked PROVE StateInv'
  <2>1. LedgerInv'  BY <1>5, LedgerStays DEF WindowsAsked, IInv, StateInv
  <2>2. call'.at = "answers"  BY <1>5 DEF WindowsAsked
  <2> QED  BY <1>5, <2>1, <2>2, CallElsewhere, AnswerStays DEF WindowsAsked, IInv, StateInv
<1>6. ASSUME ReplayErrs PROVE StateInv'
  BY <1>6, LedgerStays, Erring DEF ReplayErrs, IInv, StateInv
<1>7. ASSUME NEW incident, NEW controls, BaselineAnswers(incident, controls)
      PROVE  StateInv'
  <2>1. LedgerInv'  BY <1>7, LedgerStays DEF BaselineAnswers, IInv, StateInv
  <2>2. answer'.tool = "validate"
    <3>1. CASE Parsed(incident).series = {}  BY <1>7, <3>1 DEF BaselineAnswers
    <3>2. CASE Parsed(incident).series # {}
      <4> DEFINE kept == SetToSortSeq(DOMAIN controls, <)
                 pool(s) == [i \in DOMAIN kept |-> PointsLike(Parsed(controls[kept[i]]).series, s)]
                 baseline(s) == [Compared(s.points, pool(s)) EXCEPT !.excursions = Listed(@)]
      <4> HIDE DEF kept, pool, baseline
      <4>1. \E s \in Parsed(incident).series :
              answer' = [tool |-> "validate", series |-> s.points, pool |-> pool(s),
                         errors |-> Parsed(incident).errors, baseline |-> baseline(s)]
        BY <1>7, <3>2, Zenon DEF BaselineAnswers, kept, pool, baseline
      <4> QED  BY <4>1
    <3> QED  BY <3>1, <3>2
  <2>3. call' = Idle  BY <1>7 DEF BaselineAnswers
  <2> QED  BY <2>1, <2>2, <2>3, CallElsewhere, AnswerElsewhere DEF IInv, StateInv, Idle
<1>8. ASSUME NEW response, NEW floor, NEW used, NEW threshold, NEW direction,
             WindowsAnswer(response, floor, used, threshold, direction)
      PROVE  StateInv'
  <2>1. LedgerInv'  BY <1>8, LedgerStays DEF WindowsAnswer, IInv, StateInv
  <2>2. call' = Idle /\ answer'.tool = "execute"  BY <1>8 DEF WindowsAnswer
  <2> QED  BY <2>1, <2>2, CallElsewhere, AnswerElsewhere DEF IInv, StateInv, Idle
<1> QED  BY <1>1, <1>2, <1>3, <1>4, <1>5, <1>6, <1>7, <1>8 DEF Replays

--------------------------------------------------------------------------------
\* What is read of the indexes covers the scope for the products looked for:
\* each panel of it is tried or cut off, or its index was not read.
LEMMA ReadingCovers ==
  ASSUME ScopesAssumption, IInv, NEW others, NEW refs, IndexesRead(others, refs), listed' = listed
  PROVE  CallInv'
<1> DEFINE tier == Tier(call.scope, others \cup {Primary}, call.products)
           unread == IF call.scope = "all-connections" THEN call.others \ others ELSE {}
<1>1. /\ call'.at = "candidates" /\ call'.scope = call.scope /\ call'.products = call.products
      /\ call'.refs = refs /\ call'.cut = tier \ refs /\ call'.unread = unread
  BY DEF IndexesRead
<1>2. listed \ {Primary} \subseteq call.others
  BY DEF IndexesRead, IInv, StateInv, CallInv
<1>3. ASSUME NEW c \in Conn, NEW ref \in Related[c], TierOf(ref, call.products) = call.scope
      PROVE  ref \in refs \cup (tier \ refs) \/ c \in unread \/ c \notin listed
  <2>1. ref.conn = c /\ Primary \in Conn  BY <1>3 DEF ScopesAssumption
  <2>2. CASE c \in others \cup {Primary}
    <3>1. ref \in tier  BY <2>2, <1>3 DEF Tier
    <3> QED  BY <3>1
  <2>3. CASE c \notin others \cup {Primary}
    <3>1. call.scope = "all-connections"  BY <2>1, <2>3, <1>3 DEF TierOf
    <3> QED  BY <3>1, <2>3, <1>2
  <2> QED  BY <2>2, <2>3
<1> HIDE DEF tier, unread
<1>5. Covered(call.scope, call.products, call.refs \cup call.cut, call.unread)'
  BY <1>1, <1>3 DEF Covered, TierOf
<1> QED  BY <1>1, <1>5 DEF CallInv, At

\* What was tried is added to what was searched.
LEMMA SettlingAdds ==
  ASSUME IInv, NEW pairs, CandidatesSettle(pairs)
  PROVE  LedgerInv'
<1>1. listed' = listed /\ call.at = "candidates"  BY DEF CandidatesSettle, At
<1>2. CASE call.scope = Null
  <2>1. ledger' = ledger  BY <1>2 DEF CandidatesSettle
  <2> QED  BY <2>1, <1>1, LedgerStays DEF IInv, StateInv
<1>3. CASE call.scope # Null
  <2>1. /\ ledger'.scopes = ledger.scopes \cup {call.scope}
        /\ ledger'.products = ledger.products \cup {call.products}
        /\ ledger'.tried = ledger.tried \cup call.refs
        /\ ledger'.cut = ledger.cut \cup call.cut
        /\ ledger'.unread = ledger.unread \cup call.unread
    BY <1>3 DEF CandidatesSettle
  <2>2. IsFiniteSet(ledger'.products)  BY <2>1, FS_AddElement DEF IInv, StateInv, LedgerInv
  <2>3. ASSUME NEW scope \in ledger'.scopes
        PROVE  \E products \in ledger'.products :
                 Covered(scope, products, ledger.tried \cup ledger.cut, ledger.unread)'
    <3>1. CASE scope = call.scope
      <4>1. Covered(call.scope, call.products, call.refs \cup call.cut, call.unread)
        BY <1>1, <1>3 DEF IInv, StateInv, CallInv, At
      <4>2. PICK products \in ledger'.products : products = call.products  BY <2>1
      <4>3. Covered(scope, products, ledger.tried \cup ledger.cut, ledger.unread)'
        BY <4>1, <4>2, <3>1, <2>1, <1>1 DEF Covered, TierOf
      <4> QED  BY <4>3
    <3>2. CASE scope \in ledger.scopes
      <4>1. PICK products \in ledger.products :
              Covered(scope, products, ledger.tried \cup ledger.cut, ledger.unread)
        BY <3>2 DEF IInv, StateInv, LedgerInv
      <4>2. Covered(scope, products, ledger.tried \cup ledger.cut, ledger.unread)'
        BY <4>1, <2>1, <1>1 DEF Covered, TierOf
      <4> QED  BY <4>2, <2>1
    <3> QED  BY <3>1, <3>2, <2>1, <2>3
  <2> QED  BY <2>2, <2>3 DEF LedgerInv
<1> QED  BY <1>2, <1>3

\* Starting a search, reading the index and trying candidates keep the invariant
\* (detectCorrelatedAnomalies.ts:205-330).
LEMMA SearchesKeep == ScopesAssumption /\ IInv /\ Searches => StateInv'
<1> SUFFICES ASSUME ScopesAssumption, IInv, Searches PROVE StateInv'  OBVIOUS
<1>1. ASSUME NEW scope, NEW onset, NEW products, SearchStarts(scope, onset, products)
      PROVE  StateInv'
  <2>1. LedgerInv'  BY <1>1, LedgerStays DEF SearchStarts, IInv, StateInv
  <2>2. CASE Errs  BY <2>1, <2>2, Erring DEF IInv, StateInv
  <2>3. CASE ~Errs
    <3>1. /\ call'.at = "indexes" /\ call'.others = listed \ {Primary} /\ answer' = Silent
          /\ listed' = listed
      BY <1>1, <2>3 DEF SearchStarts
    <3>2. CallInv'  BY <3>1 DEF CallInv, At
    <3> QED  BY <2>1, <3>1, <3>2, AnswerElsewhere DEF IInv, StateInv, Silent
  <2> QED  BY <2>2, <2>3
<1>2. ASSUME NEW refs, NEW onset, SearchNamed(refs, onset)
      PROVE  StateInv'
  <2>1. LedgerInv'  BY <1>2, LedgerStays DEF SearchNamed, IInv, StateInv
  <2>2. CASE Errs  BY <2>1, <2>2, Erring DEF IInv, StateInv
  <2>3. CASE ~Errs
    <3>1. call'.at = "candidates" /\ call'.scope = Null /\ answer' = Silent
      BY <1>2, <2>3 DEF SearchNamed
    <3>2. CallInv'  BY <3>1 DEF CallInv, At
    <3> QED  BY <2>1, <3>1, <3>2, AnswerElsewhere DEF IInv, StateInv, Silent
  <2> QED  BY <2>2, <2>3
<1>3. ASSUME SearchErrs PROVE StateInv'
  BY <1>3, LedgerStays, Erring DEF SearchErrs, IInv, StateInv
<1>4. ASSUME NEW others, NEW refs, IndexesRead(others, refs)
      PROVE  StateInv'
  <2>1. LedgerInv'  BY <1>4, LedgerStays DEF IndexesRead, IInv, StateInv
  <2>2. CallInv'  BY <1>4, ReadingCovers DEF IndexesRead
  <2> QED  BY <1>4, <2>1, <2>2, AnswerStays DEF IndexesRead, IInv, StateInv
<1>5. ASSUME NEW pairs, CandidatesSettle(pairs)
      PROVE  StateInv'
  <2>1. LedgerInv'  BY <1>5, SettlingAdds
  <2>2. call' = Idle /\ answer'.tool = "detect"  BY <1>5 DEF CandidatesSettle
  <2> QED  BY <2>1, <2>2, CallElsewhere, AnswerElsewhere DEF IInv, StateInv, Idle
<1> QED  BY <1>1, <1>2, <1>3, <1>4, <1>5 DEF Searches

--------------------------------------------------------------------------------
\* The answer of a query of the agent's own is a record that runs it again, or of
\* a query whose datasource was never authorised.
LEMMA RecordsAnswer ==
  ASSUME NEW asked, NEW type \in Authorized \cap Guardable, NEW based \in BOOLEAN, NEW series,
         call' = Idle,
         \/ answer' = Recorded(asked, type, based)
         \/ answer' = [Recorded(asked, type, based) EXCEPT !.series = series]
  PROVE  CallInv' /\ AnswerInv'
<1>1. PICK sent, links : Recorded(asked, type, based) = Record(asked, type, sent, based, links)
  BY RecordsReplay
<1>2. RunsAgain(Record(asked, type, sent, based, links))  BY <1>1, RecordsReplay
<1>3. /\ answer'.tool = "adhoc" /\ answer'.type = type /\ answer'.asked = asked
      /\ answer'.sent = sent /\ answer'.based = based /\ answer'.links = links
  BY <1>1 DEF Record
<1>4. AuditedReplays'  BY <1>2, <1>3 DEF RunsAgain, Record, AuditedReplays
<1>5. JoinsNeverInvent' /\ SourceIsCertain'  BY <1>3 DEF JoinsNeverInvent, SourceIsCertain
<1> QED  BY <1>4, <1>5, CallElsewhere DEF Idle, AnswerInv

\* A record of a query whose datasource was never authorised sent nothing
\* (executeAdhocQuery.ts:371-383).
LEMMA Unauthorised ==
  ASSUME NEW asked, NEW sent, NEW based, NEW links, Closes(Record(asked, Null, sent, based, links))
  PROVE  CallInv' /\ AnswerInv'
BY CallElsewhere DEF Closes, Record, Idle, AnswerInv, SourceIsCertain, JoinsNeverInvent, AuditedReplays

\* The agent's own queries keep the invariant, each record being what was sent.
LEMMA OwnQueriesKeep ==
  ASSUME IInv,
         \/ \E asked \in Asks : AdhocStarts(asked)
         \/ \E type \in {Null} \cup Types : DatasourceFound(type)
         \/ DatasourcesUnread
         \/ \E response \in Responses, used \in Steps : AdhocAnswers(response, used)
  PROVE  CallInv' /\ AnswerInv'
<1> DEFINE Kept == CallInv' /\ AnswerInv'
<1>1. ASSUME NEW asked \in Asks, AdhocStarts(asked) PROVE Kept
  <2>1. CASE Closes(Record(asked, Null, Null, FALSE, {}))  BY <2>1, Unauthorised
  <2>2. CASE Goes([at |-> "datasource", asked |-> asked])
    BY <2>2, AnswerElsewhere DEF Goes, Silent, CallInv, At
  <2> QED  BY <1>1, <2>1, <2>2 DEF AdhocStarts
<1>2. ASSUME NEW type, DatasourceFound(type) PROVE Kept
  <2>1. PICK based \in BOOLEAN : based = (Primary \in listed)
    BY (Primary \in listed) \in BOOLEAN, Zenon
  <2> DEFINE record == Recorded(call.asked, type, based)
  <2>2. CASE type \notin Authorized \cap Guardable
    <3>1. Closes(Record(call.asked, Null, Null, FALSE, {}))  BY <1>2, <2>2 DEF DatasourceFound
    <3> QED  BY <3>1, Unauthorised
  <2>3. CASE type \in Authorized \cap Guardable
    <3>1. CASE Closes(record)  BY <3>1, <2>3, RecordsAnswer DEF Closes
    <3>2. CASE Goes([at |-> "adhoc", record |-> record])
      <4>1. call.asked \in Asks  BY <1>2 DEF IInv, StateInv, CallInv, DatasourceFound
      <4>2. call'.at = "adhoc" /\ call'.record = record /\ answer' = Silent  BY <3>2 DEF Goes
      <4>3. CallInv'  BY <4>1, <4>2, <2>3 DEF CallInv, At
      <4> QED  BY <4>2, <4>3, AnswerElsewhere DEF Silent
    <3> QED  BY <1>2, <2>1, <2>3, <3>1, <3>2 DEF DatasourceFound
  <2> QED  BY <2>2, <2>3
<1>3. ASSUME DatasourcesUnread PROVE Kept
  BY <1>3, Unauthorised DEF DatasourcesUnread
<1>4. ASSUME NEW response, NEW used, AdhocAnswers(response, used) PROVE Kept
  <2>1. PICK asked \in Asks, type \in Authorized \cap Guardable, based \in BOOLEAN :
          call.record = Recorded(asked, type, based)
    BY <1>4 DEF AdhocAnswers, IInv, StateInv, CallInv
  <2>2. call' = Idle /\ \/ answer' = call.record
                        \/ \E series : answer' = [call.record EXCEPT !.series = series]
    <3>1. CASE Stepped(response, used) = {}  BY <1>4, <3>1 DEF AdhocAnswers, Closes
    <3>2. CASE Stepped(response, used) # {}  BY <1>4, <3>2, Zenon DEF AdhocAnswers, Closes
    <3> QED  BY <3>1, <3>2
  <2> QED  BY <2>1, <2>2, RecordsAnswer
<1> QED  BY <1>1, <1>2, <1>3, <1>4

--------------------------------------------------------------------------------
\* An id and the uid after it: what is left of the whole when the id is cut off
\* (lokiSourceId, lokiIdSplits).
LEMMA UidAfterId ==
  ASSUME NEW id \in Seq(STRING), NEW uid \in Seq(STRING), uid # <<>>
  PROVE  /\ IsStrictPrefix(id, id \o uid)
         /\ SubSeq(id \o uid, Len(id) + 1, Len(id \o uid)) = uid
<1> DEFINE whole == id \o uid
<1>1. /\ whole \in Seq(STRING) /\ Len(whole) = Len(id) + Len(uid)
      /\ \A i \in 1..Len(id) : whole[i] = id[i]
      /\ \A i \in 1..Len(uid) : whole[Len(id) + i] = uid[i]
  OBVIOUS
<1>2. Len(id) \in Nat /\ Len(uid) \in Nat /\ Len(uid) > 0  OBVIOUS
<1> HIDE DEF whole
<1>3. SubSeq(whole, 1, Len(id)) = SubSeq(id, 1, Len(id))
  <2>1. /\ SubSeq(whole, 1, Len(id)) \in Seq(STRING) /\ Len(SubSeq(whole, 1, Len(id))) = Len(id)
        /\ \A i \in 1..Len(id) : SubSeq(whole, 1, Len(id))[i] = whole[i]
    BY <1>1, <1>2
  <2>2. /\ SubSeq(id, 1, Len(id)) \in Seq(STRING) /\ Len(SubSeq(id, 1, Len(id))) = Len(id)
        /\ \A i \in 1..Len(id) : SubSeq(id, 1, Len(id))[i] = id[i]
    BY <1>2
  <2> QED  BY <2>1, <2>2, <1>1, <1>2
<1>4. SubSeq(whole, Len(id) + 1, Len(whole)) = uid
  <2> DEFINE rest == SubSeq(whole, Len(id) + 1, Len(whole))
  <2>1. /\ rest \in Seq(STRING) /\ Len(rest) = Len(uid)
        /\ \A i \in 1..Len(uid) : rest[i] = whole[Len(id) + i]
    BY <1>1, <1>2
  <2> HIDE DEF rest
  <2>2. rest = uid  BY <2>1, <1>1, <1>2
  <2> QED  BY <2>2 DEF rest
<1>5. id # whole /\ Len(id) <= Len(whole)  BY <1>1, <1>2
<1> QED  BY <1>3, <1>4, <1>5 DEF IsStrictPrefix, IsPrefix, whole

\* What an id begins with, and the rest of it, make the id (lokiIdSplits).
LEMMA IdOfSplit ==
  ASSUME NEW id \in Seq(STRING), NEW first \in Seq(STRING), IsStrictPrefix(first, id)
  PROVE  first \o SubSeq(id, Len(first) + 1, Len(id)) = id
<1> DEFINE rest == SubSeq(id, Len(first) + 1, Len(id))
           whole == first \o rest
<1>1. Len(first) \in Nat /\ Len(id) \in Nat /\ Len(first) <= Len(id)
  BY DEF IsStrictPrefix, IsPrefix
<1>2. \A i \in 1..Len(first) : first[i] = id[i]
  <2>1. \A i \in 1..Len(first) : SubSeq(first, 1, Len(first))[i] = first[i]
                                 /\ SubSeq(id, 1, Len(first))[i] = id[i]
    BY <1>1
  <2> QED  BY <2>1 DEF IsStrictPrefix, IsPrefix
<1>3. /\ rest \in Seq(STRING) /\ Len(rest) = Len(id) - Len(first)
      /\ \A i \in 1..Len(id) - Len(first) : rest[i] = id[Len(first) + i]
  BY <1>1
<1> HIDE DEF rest
<1>4. /\ whole \in Seq(STRING) /\ Len(whole) = Len(id)
      /\ \A i \in 1..Len(first) : whole[i] = first[i]
      /\ \A i \in Len(first) + 1..Len(id) : whole[i] = rest[i - Len(first)]
  BY <1>1, <1>3
<1>5. \A i \in Len(first) + 1..Len(id) : rest[i - Len(first)] = id[i]
  <2> SUFFICES ASSUME NEW i \in Len(first) + 1..Len(id) PROVE rest[i - Len(first)] = id[i]
    OBVIOUS
  <2>1. i - Len(first) \in 1..Len(id) - Len(first) /\ Len(first) + (i - Len(first)) = i  BY <1>1
  <2> QED  BY <2>1, <1>3
<1> HIDE DEF whole
<1>6. \A i \in 1..Len(id) : whole[i] = id[i]  BY <1>1, <1>2, <1>4, <1>5
<1>7. whole = id  BY <1>4, <1>6
<1> QED  BY <1>7 DEF whole, rest

\* What a finite set is mapped to is finite.
LEMMA ImagesAreFinite ==
  ASSUME NEW S, IsFiniteSet(S), NEW f, DOMAIN f = S, NEW T, T = {f[x] : x \in S}
  PROVE  IsFiniteSet(T)
<1> DEFINE g == [x \in S |-> f[x]]
<1>1. g \in Surjection(S, T)  BY DEF Surjection
<1> QED  BY <1>1, FS_Surjection

\* There are finitely many sources of logs.
LEMMA SourcesAreFinite ==
  ASSUME SourcesAssumption, WorldsAssumption, listed \subseteq Conn, NEW world \in Worlds
  PROVE  IsFiniteSet(Sources(world, listed))
<1> DEFINE uids(c) == LokiUids(c, world)
           loki(c) == {Loki(c, uid) : uid \in uids(c)}
           graylog == {Graylog(id) : id \in world.graylog}
           all == {loki(c) : c \in listed}
<1>1. IsFiniteSet(graylog)
  <2> DEFINE f == [id \in world.graylog |-> Graylog(id)]
  <2>1. DOMAIN f = world.graylog /\ graylog = {f[x] : x \in world.graylog}  OBVIOUS
  <2>2. IsFiniteSet(world.graylog)  BY DEF WorldsAssumption
  <2> HIDE DEF f, graylog
  <2> QED  BY <2>1, <2>2, ImagesAreFinite
<1>2. ASSUME NEW c \in listed PROVE IsFiniteSet(loki(c))
  <2> DEFINE D == {d \in Datasources : world.grafana[c] # Null /\ d \in world.grafana[c] /\ d.type = "loki"}
             f == [d \in D |-> d.uid]
             h == [uid \in uids(c) |-> Loki(c, uid)]
  <2>1. IsFiniteSet(D)  BY FS_Subset DEF SourcesAssumption
  <2>2. DOMAIN f = D /\ uids(c) = {f[x] : x \in D}
    <3>1. world.grafana[c] # Null => world.grafana[c] \subseteq Datasources  BY DEF WorldsAssumption
    <3>2. CASE world.grafana[c] = Null  BY <3>2 DEF LokiUids
    <3>3. CASE world.grafana[c] # Null
      <4>1. uids(c) = {d.uid : d \in {e \in world.grafana[c] : e.type = "loki"}}  BY <3>3 DEF LokiUids
      <4>2. D = {e \in world.grafana[c] : e.type = "loki"}  BY <3>1, <3>3
      <4> QED  BY <4>1, <4>2
    <3> QED  BY <3>2, <3>3
  <2> HIDE DEF D, f, uids
  <2>3. IsFiniteSet(uids(c))  BY <2>1, <2>2, ImagesAreFinite
  <2>4. DOMAIN h = uids(c) /\ loki(c) = {h[x] : x \in uids(c)}  OBVIOUS
  <2> HIDE DEF h, loki
  <2> QED  BY <2>3, <2>4, ImagesAreFinite
<1>3. IsFiniteSet(all)
  <2> DEFINE f == [c \in listed |-> loki(c)]
  <2>1. DOMAIN f = listed /\ all = {f[x] : x \in listed}  OBVIOUS
  <2>2. IsFiniteSet(listed)  BY FS_Subset DEF SourcesAssumption
  <2> HIDE DEF f, all
  <2> QED  BY <2>1, <2>2, ImagesAreFinite
<1>4. IsFiniteSet(UNION all)
  <2>1. \A T \in all : IsFiniteSet(T)  BY <1>2
  <2> HIDE DEF all
  <2> QED  BY <2>1, <1>3, FS_UNION
<1>5. Sources(world, listed) = graylog \cup UNION all  BY DEF Sources
<1> HIDE DEF graylog, all
<1>6. IsFiniteSet(graylog \cup UNION all)  BY <1>1, <1>4, FS_Union
<1> QED  BY <1>5, <1>6

\* A completion agrees with what could be read.
LEMMA CompletionsAgree ==
  ASSUME WorldsAssumption, NEW world \in Worlds, NEW w \in Completions(world)
  PROVE  /\ w.graylog = world.graylog
         /\ w.grafana \in [Conn -> SUBSET Datasources]
         /\ \A c \in Conn : world.grafana[c] # Null => w.grafana[c] = world.grafana[c]
BY DEF Completions, WorldsAssumption

\* What the source is called, and what kind it is of.
LEMMA KindsOfSource ==
  /\ \A id : Graylog(id).type = "graylog" /\ IdOf(Graylog(id)) = id
  /\ \A c, uid : Loki(c, uid).type = "loki" /\ IdOf(Loki(c, uid)) = Segments[c] \o uid
BY DEF Graylog, Loki, IdOf

\* An id denotes one source in whatever completes the world it was read in: the
\* connections that its beginning may be the id of could all be read
\* (sources.ts:234-262).
LEMMA OneMeaning ==
  ASSUME SourcesAssumption, WorldsAssumption, listed \subseteq Conn,
         NEW world \in Worlds, NEW id \in Seq(STRING), NEW source \in Denoted(id, world),
         NEW w \in Completions(world)
  PROVE  {s \in Sources(w, listed) : IdOf(s) = id} = {source}
<1> DEFINE splits == {c \in listed : IsStrictPrefix(Segments[c], id)}
           uid(c) == SubSeq(id, Len(Segments[c]) + 1, Len(id))
           named == {c \in splits : uid(c) \in LokiUids(c, world)}
           meanings == {Graylog(i) : i \in world.graylog \cap {id}} \cup {Loki(c, uid(c)) : c \in named}
           those == {s \in Sources(w, listed) : IdOf(s) = id}
<1>1. Cardinality(meanings) = 1 /\ splits \cap Unreadable(world) = {} /\ source \in meanings
  BY DEF Denoted
<1>2. meanings = {source}
  <2>1. IsFiniteSet(named)  BY FS_Subset DEF SourcesAssumption
  <2>2. IsFiniteSet({Loki(c, uid(c)) : c \in named})
    <3> DEFINE f == [c \in named |-> Loki(c, uid(c))]
               them == {Loki(c, uid(c)) : c \in named}
    <3>1. DOMAIN f = named /\ them = {f[c] : c \in named}  OBVIOUS
    <3> HIDE DEF f, named, uid, them
    <3>2. IsFiniteSet(them)  BY <2>1, <3>1, ImagesAreFinite
    <3> QED  BY <3>2 DEF them
  <2>3. IsFiniteSet({Graylog(i) : i \in world.graylog \cap {id}})
    <3>1. {Graylog(i) : i \in world.graylog \cap {id}} \subseteq {Graylog(id)}  OBVIOUS
    <3> QED  BY <3>1, FS_Singleton, FS_Subset
  <2>4. IsFiniteSet(meanings)  BY <2>2, <2>3, FS_Union
  <2> HIDE DEF meanings
  <2> QED  BY <2>4, <1>1, FS_Singleton
<1>3. ASSUME NEW c \in splits PROVE LokiUids(c, w) = LokiUids(c, world)
  <2>1. c \in Conn /\ world.grafana[c] # Null  BY <1>1 DEF Unreadable
  <2> QED  BY <2>1, CompletionsAgree DEF LokiUids
<1>4. ASSUME NEW s \in those PROVE s \in meanings
  <2>1. CASE s \in {Graylog(i) : i \in w.graylog}
    <3>1. PICK i \in w.graylog : s = Graylog(i)  BY <2>1
    <3>2. i = id /\ i \in world.graylog  BY <3>1, <1>4, CompletionsAgree, KindsOfSource
    <3> QED  BY <3>1, <3>2
  <2>2. ASSUME NEW c \in listed, NEW u \in LokiUids(c, w), s = Loki(c, u) PROVE s \in meanings
    <3>1. u \in Seq(STRING) /\ u # <<>> /\ Segments[c] \in Seq(STRING)
      BY <2>2, CompletionsAgree DEF SourcesAssumption, LokiUids
    <3>2. Segments[c] \o u = id  BY <2>2, <1>4 DEF Loki, IdOf
    <3>3. c \in splits /\ uid(c) = u  BY <3>1, <3>2, UidAfterId
    <3>4. c \in named  BY <3>3, <1>3
    <3> QED  BY <3>3, <3>4, <2>2
  <2> QED  BY <2>1, <2>2, <1>4 DEF Sources
<1>5. ASSUME NEW s \in meanings PROVE s \in those
  <2>1. CASE s \in {Graylog(i) : i \in world.graylog \cap {id}}
    <3>1. s = Graylog(id) /\ id \in w.graylog  BY <2>1, CompletionsAgree
    <3> QED  BY <3>1, KindsOfSource DEF Sources
  <2>2. ASSUME NEW c \in named, s = Loki(c, uid(c)) PROVE s \in those
    <3>1. s \in Sources(w, listed)  BY <2>2, <1>3 DEF Sources
    <3>2. Segments[c] \o uid(c) = id  BY IdOfSplit DEF SourcesAssumption
    <3>3. s.type # "graylog" /\ IdOf(s) = Segments[c] \o uid(c)  BY <2>2 DEF Loki, IdOf
    <3> QED  BY <3>1, <3>2, <3>3
  <2> QED  BY <2>1, <2>2, <1>5
<1> HIDE DEF meanings, those
<1>6. those = {source}  BY <1>2, <1>4, <1>5
<1> QED  BY <1>6 DEF those

\* The sources are told by the Graylog connections and the uids of each other.
LEMMA SameSources ==
  ASSUME NEW w, NEW world, w.graylog = world.graylog,
         \A c \in listed : LokiUids(c, w) = LokiUids(c, world)
  PROVE  Sources(w, listed) = Sources(world, listed)
<1> DEFINE F(c) == {Loki(c, uid) : uid \in LokiUids(c, w)}
           G(c) == {Loki(c, uid) : uid \in LokiUids(c, world)}
           H == {Graylog(id) : id \in world.graylog}
<1>1. \A c \in listed : F(c) = G(c)  OBVIOUS
<1>2. Sources(w, listed) = H \cup UNION {F(c) : c \in listed}  BY DEF Sources
<1>3. Sources(world, listed) = H \cup UNION {G(c) : c \in listed}  BY DEF Sources
<1> HIDE DEF F, G, H
<1>4. {F(c) : c \in listed} = {G(c) : c \in listed}  BY <1>1
<1> QED  BY <1>2, <1>3, <1>4

\* The only source that could be listed is the only one there could be: every
\* connection could be read (sources.ts:283-309).
LEMMA SoleStaysSole ==
  ASSUME SourcesAssumption, WorldsAssumption, listed \subseteq Conn,
         NEW world \in Worlds, NEW s \in Sole(world)
  PROVE  \A w \in Completions(world) : Sources(w, listed) = {s}
<1>1. Unreadable(world) = {} /\ Cardinality(Sources(world, listed)) = 1 /\ s \in Sources(world, listed)
  BY DEF Sole
<1>2. Sources(world, listed) = {s}
  BY <1>1, SourcesAreFinite, FS_Singleton
<1> SUFFICES ASSUME NEW w \in Completions(world) PROVE Sources(w, listed) = {s}
  OBVIOUS
<1>3. \A c \in listed : LokiUids(c, w) = LokiUids(c, world)
  BY <1>1, CompletionsAgree DEF Unreadable, LokiUids
<1>4. Sources(w, listed) = Sources(world, listed)
  BY <1>3, CompletionsAgree, SameSources
<1> QED  BY <1>2, <1>4

\* What could not be read may hold nothing.
LEMMA LeastCompletion ==
  ASSUME WorldsAssumption, listed \subseteq Conn, NEW world \in Worlds
  PROVE  \E w \in Completions(world) : Sources(w, listed) = Sources(world, listed)
<1> DEFINE f == [c \in Conn |-> IF world.grafana[c] = Null THEN {} ELSE world.grafana[c]]
           w == [world EXCEPT !.grafana = f]
<1>1. f \in [Conn -> SUBSET Datasources]  BY DEF WorldsAssumption
<1>2. \A c \in Conn : world.grafana[c] # Null => f[c] = world.grafana[c]  OBVIOUS
<1>3. w.grafana = f /\ w.graylog = world.graylog  BY DEF WorldsAssumption
<1> HIDE DEF f
<1>4. w \in Completions(world)  BY <1>1, <1>2 DEF Completions
<1>5. \A c \in listed : LokiUids(c, w) = LokiUids(c, world)
  BY <1>3 DEF f, LokiUids
<1>6. Sources(w, listed) = Sources(world, listed)
  <2> HIDE DEF w
  <2> QED  BY <1>3, <1>5, SameSources
<1> QED  BY <1>4, <1>6

\* Every source has an id, a text of segments.
LEMMA SourcesHaveIds ==
  ASSUME SourcesAssumption, WorldsAssumption, listed \subseteq Conn,
         NEW world \in Worlds, NEW s \in Sources(world, listed)
  PROVE  IdOf(s) \in Seq(STRING)
<1>1. CASE s \in {Graylog(id) : id \in world.graylog}
  BY <1>1, KindsOfSource DEF WorldsAssumption
<1>2. ASSUME NEW c \in listed, NEW uid \in LokiUids(c, world), s = Loki(c, uid)
      PROVE  IdOf(s) \in Seq(STRING)
  <2>1. Segments[c] \in Seq(STRING)  BY DEF SourcesAssumption
  <2>2. PICK d \in Datasources : uid = d.uid
    <3>1. world.grafana[c] # Null /\ world.grafana[c] \subseteq Datasources
      BY DEF LokiUids, WorldsAssumption
    <3> QED  BY <3>1 DEF LokiUids
  <2>3. uid \in Seq(STRING)  BY <2>2 DEF SourcesAssumption
  <2>4. IdOf(s) = Segments[c] \o uid  BY <1>2, KindsOfSource
  <2> QED  BY <2>1, <2>3, <2>4
<1> QED  BY <1>1, <1>2 DEF Sources

\* What an id denotes is the source with that id, in every completion; and if
\* another call's only source has the id, it is that or gone.
LEMMA DenotedIsCertain ==
  ASSUME SourcesAssumption, WorldsAssumption, listed \subseteq Conn,
         NEW world \in Worlds, NEW id \in Seq(STRING), NEW source \in Denoted(id, world),
         NEW first \in Firsts(id) \cup {Null},
         NEW asked, asked.world = world, asked.over = listed, asked.id = id, asked.first = first,
         asked.source = source
  PROVE  Certain(asked)
<1>1. \A w \in Completions(world) : {s \in Sources(w, listed) : IdOf(s) = id} = {source}
  BY OneMeaning
<1>2. \A s \in Sources(world, listed) : IdOf(s) = id => s = source
  BY <1>1, LeastCompletion
<1>3. ASSUME first # Null, NEW w \in Completions(first.world)
      PROVE  LET there == Sources(w, first.over)
             IN  /\ Cardinality(there) = 1
                 /\ \A s \in there : /\ IdOf(s) = id
                                     /\ s \in Sources(world, listed) => s = source
  <2>1. PICK s : Sources(w, first.over) = {s} /\ IdOf(s) = id  BY <1>3 DEF Firsts
  <2> QED  BY <2>1, <1>2, FS_Singleton
<1> QED  BY <1>1, <1>3 DEF Certain

--------------------------------------------------------------------------------
\* A join of pages is a part of the join of the streams, and all of it where no
\* page is cut.
LEMMA JoinsHold ==
  ASSUME LogsAssumption, IInv, NEW lines \in Logs, CorrelateAnswers(lines)
  PROVE  CallInv' /\ AnswerInv'
<1> DEFINE query == call.given.query
           limit == Clamped(call.given.limit)
           fetched == [s \in {query.left} \cup query.right |->
                         Fetched(call.source.type, lines[s], limit)]
           cut == {s \in DOMAIN fetched : fetched[s].truncated}
           parts == {ToSet(fetched[s].keys) : s \in query.right}
           wholes == {ToSet(lines[s]) : s \in query.right}
           found == Joined(query.join, ToSet(fetched[query.left].keys), parts)
           whole == Joined(query.join, ToSet(lines[query.left]), wholes)
<1>1. call.given \in LogCalls /\ call.given.tool = "correlate" /\ query # Null
  BY DEF CorrelateAnswers, IInv, StateInv, CallInv, At
<1>2. /\ query.join \in {"and", "or", "unless"}
      /\ query.left \in Selectors /\ query.right \subseteq Selectors
      /\ lines \in [Selectors -> Seq(Keys)]
  BY <1>1 DEF LogsAssumption
<1>3. limit \in Nat  BY <1>1, ClampedIsNat
<1> HIDE DEF limit
<1>4. \A s \in {query.left} \cup query.right :
        /\ ToSet(fetched[s].keys) \subseteq ToSet(lines[s])
        /\ s \notin cut => ToSet(fetched[s].keys) = ToSet(lines[s])
  <2>1. ASSUME NEW s \in {query.left} \cup query.right
        PROVE  /\ ToSet(fetched[s].keys) \subseteq ToSet(lines[s])
               /\ ~fetched[s].truncated => ToSet(fetched[s].keys) = ToSet(lines[s])
    <3>1. lines[s] \in Seq(Keys)  BY <1>2
    <3>2. fetched[s] = Fetched(call.source.type, lines[s], limit)  OBVIOUS
    <3> HIDE DEF fetched
    <3> QED  BY <3>1, <3>2, <1>3, PagesAreParts
  <2>2. DOMAIN fetched = {query.left} \cup query.right  OBVIOUS
  <2> HIDE DEF fetched
  <2> QED  BY <2>1, <2>2
<1>5. CASE Unsafe(query, cut)
  <2>1. Errs  BY <1>5 DEF CorrelateAnswers, limit
  <2> QED  BY <2>1, Erring
<1>6. CASE ~Unsafe(query, cut)
  <2>1. Closes([tool |-> "correlate", asked |-> call, lines |-> lines,
                found |-> found, truncated |-> cut # {}])
    BY <1>6 DEF CorrelateAnswers, limit
  <2> HIDE DEF fetched, cut
  <2>2. ASSUME NEW p \in parts PROVE \E w \in wholes : p \subseteq w
    <3>1. PICK s \in query.right : p = ToSet(fetched[s].keys)  BY <2>2
    <3>2. p \subseteq ToSet(lines[s]) /\ ToSet(lines[s]) \in wholes  BY <3>1, <1>4
    <3> QED  BY <3>2
  <2>3. ASSUME NEW w \in wholes PROVE \E p \in parts : p \subseteq w
    <3>1. PICK s \in query.right : w = ToSet(lines[s])  BY <2>3
    <3>2. ToSet(fetched[s].keys) \subseteq w /\ ToSet(fetched[s].keys) \in parts  BY <3>1, <1>4
    <3> QED  BY <3>2
  <2>4. query.right \cap cut = {} => parts = wholes  BY <1>4
  <2>5. query.join = "unless" => parts = wholes  BY <1>6, <2>4 DEF Unsafe
  <2>6. ToSet(fetched[query.left].keys) \subseteq ToSet(lines[query.left])  BY <1>4
  <2>7. found \subseteq whole
    <3> DEFINE join == query.join
               l == ToSet(fetched[query.left].keys)
               left == ToSet(lines[query.left])
    <3>1. join \in {"and", "or", "unless"}  BY <1>2
    <3>2. l \subseteq left  BY <2>6
    <3>3. \A p \in parts : \E w \in wholes : p \subseteq w  BY <2>2
    <3>4. \A w \in wholes : \E p \in parts : p \subseteq w  BY <2>3
    <3>5. join = "unless" => parts = wholes  BY <2>5
    <3> HIDE DEF join, l, left, parts, wholes
    <3>6. Joined(join, l, parts) \subseteq Joined(join, left, wholes)
      BY <3>1, <3>2, <3>3, <3>4, <3>5, JoinsOfParts
    <3> QED  BY <3>6 DEF join, l, left
  <2> HIDE DEF query, parts, wholes
  <2>8. cut = {} => found = whole
    BY <1>4, <2>4
  <2>9. JoinsNeverInvent'
    BY <2>1, <2>7, <2>8 DEF Closes, JoinsNeverInvent, query, wholes
  <2>10. AuditedReplays'  BY <2>1 DEF Closes, AuditedReplays
  <2>11. SourceIsCertain'
    BY <2>1 DEF Closes, SourceIsCertain, CorrelateAnswers, IInv, StateInv, CallInv
  <2> QED  BY <2>1, <2>9, <2>10, <2>11, CallElsewhere DEF Closes, Idle, AnswerInv
<1> QED  BY <1>5, <1>6

\* Searches and joins of logs keep the invariant.
LEMMA LogSearchesKeep ==
  ASSUME LogsAssumption, SourcesAssumption, WorldsAssumption, IInv,
         \/ \E given \in LogCalls : LogCallStarts(given)
         \/ \E world \in Worlds : SourcesListed(world) \/ SourceResolved(world)
         \/ \E lines \in Logs : SearchAnswers(lines) \/ CorrelateAnswers(lines)
         \/ LogCallErrs
  PROVE  CallInv' /\ AnswerInv'
<1> DEFINE Kept == CallInv' /\ AnswerInv'
<1>1. ASSUME NEW given \in LogCalls, LogCallStarts(given) PROVE Kept
  <2>1. CASE Errs  BY <2>1, Erring
  <2>2. CASE ~Errs
    <3>1. call'.at \in {"sources", "source"} /\ call'.given = given /\ answer' = Silent
      BY <1>1, <2>2 DEF LogCallStarts, Goes
    <3>2. At("source")' => call'.id = given.id /\ given.id # Null /\ call'.first = Null
      BY <1>1, <2>2 DEF LogCallStarts, Goes, At
    <3>3. given.id \in Seq(STRING) \cup {Null}  BY DEF LogsAssumption
    <3>4. CallInv'  BY <3>1, <3>2, <3>3 DEF CallInv, At
    <3> QED  BY <3>1, <3>4, AnswerElsewhere DEF Silent
  <2> QED  BY <2>1, <2>2
<1>2. ASSUME NEW world \in Worlds, SourcesListed(world) PROVE Kept
  <2>1. CASE Errs  BY <2>1, Erring
  <2>2. CASE ~Errs
    <3>1. PICK s \in Sole(world) :
            Goes([at |-> "source", id |-> IdOf(s), given |-> call.given,
                  first |-> [world |-> world, over |-> listed]])
      BY <1>2, <2>2 DEF SourcesListed
    <3>4. /\ call'.at = "source" /\ call'.given = call.given /\ answer' = Silent
          /\ call'.id = IdOf(s) /\ call'.first = [world |-> world, over |-> listed]
      BY <3>1 DEF Goes
    <3>5. IdOf(s) \in Seq(STRING)  BY SourcesHaveIds DEF Sole, IInv
    <3>6. call'.first \in Firsts(IdOf(s))
      <4>1. \A w \in Completions(world) : Sources(w, listed) = {s}  BY SoleStaysSole DEF IInv
      <4> QED  BY <4>1, <3>4 DEF Firsts, IInv
    <3>2. call.given \in LogCalls  BY <1>2 DEF SourcesListed, At, IInv, StateInv, CallInv
    <3>3. CallInv'
      <4>1. (call.id \in Seq(STRING) /\ call.first \in Firsts(call.id) \cup {Null})'
        BY <3>4, <3>5, <3>6
      <4> QED  BY <4>1, <3>2, <3>4 DEF CallInv, At
    <3> QED  BY <3>4, <3>3, AnswerElsewhere DEF Silent
  <2> QED  BY <2>1, <2>2
<1>3. ASSUME NEW world \in Worlds, SourceResolved(world) PROVE Kept
  <2>1. CASE Errs  BY <2>1, Erring
  <2>2. CASE ~Errs
    <3>1. PICK s \in Denoted(call.id, world) :
            /\ Fits(call.given, s.type)
            /\ Goes([at |-> "logs", id |-> call.id, given |-> call.given, first |-> call.first,
                     source |-> s, world |-> world, over |-> listed])
      BY <1>3, <2>2 DEF SourceResolved
    <3>2. call'.at = "logs" /\ call'.given = call.given /\ answer' = Silent  BY <3>1 DEF Goes
    <3>3. call.given \in LogCalls  BY <1>3 DEF SourceResolved, At, IInv, StateInv, CallInv
    <3>4. call.given.tool = "correlate" => call.given.query # Null  BY <3>1 DEF Fits
    <3>6. /\ call'.id = call.id /\ call'.first = call.first /\ call'.source = s
          /\ call'.world = world /\ call'.over = listed
      BY <3>1 DEF Goes
    <3>7. call.id \in Seq(STRING) /\ call.first \in Firsts(call.id) \cup {Null}
      BY <1>3 DEF SourceResolved, At, IInv, StateInv, CallInv
    <3>8. Certain(call')  BY <3>6, <3>7, DenotedIsCertain DEF IInv
    <3>5. CallInv'  BY <3>2, <3>3, <3>4, <3>8 DEF CallInv, At
    <3> QED  BY <3>2, <3>5, AnswerElsewhere DEF Silent
  <2> QED  BY <2>1, <2>2
<1>4. ASSUME NEW lines, SearchAnswers(lines) PROVE Kept
  <2>1. call' = Idle /\ answer'.tool = "search" /\ answer'.asked = call
    BY <1>4 DEF SearchAnswers, Closes
  <2>2. Certain(call)  BY <1>4 DEF SearchAnswers, IInv, StateInv, CallInv
  <2>3. AnswerInv'
    BY <2>1, <2>2 DEF AnswerInv, SourceIsCertain, JoinsNeverInvent, AuditedReplays
  <2> QED  BY <2>1, <2>3, CallElsewhere DEF Idle
<1>5. ASSUME NEW lines \in Logs, CorrelateAnswers(lines) PROVE Kept
  BY <1>5, JoinsHold
<1>6. ASSUME LogCallErrs PROVE Kept
  BY <1>6, Erring DEF LogCallErrs
<1> QED  BY <1>1, <1>2, <1>3, <1>4, <1>5, <1>6

--------------------------------------------------------------------------------
\* A step keeps what is said of the call, of what was searched and of the answer.
LEMMA StepKeeps ==
  ASSUME ScopesAssumption, LogsAssumption, NullAssumption, SourcesAssumption, WorldsAssumption
  PROVE  IInv /\ [Next]_vars => StateInv'
<1> SUFFICES ASSUME IInv, [Next]_vars PROVE StateInv'  OBVIOUS
<1>1. CASE Replays  BY <1>1, ReplaysKeep
<1>2. CASE Searches  BY <1>2, SearchesKeep
<1>3. CASE Others
  <2>1. LedgerInv'  BY <1>3, LedgerClears DEF Others
  <2>2. CallInv' /\ AnswerInv'
    BY <1>3, OwnQueriesKeep, LogSearchesKeep DEF Others
  <2> QED  BY <2>1, <2>2 DEF IInv, StateInv
<1>4. ASSUME NEW crossed, NEW confirmed, NEW adhoc, Summarize(crossed, confirmed, adhoc)
      PROVE  StateInv'
  <2>1. LedgerInv'  BY <1>4, LedgerStays DEF Summarize, IInv, StateInv
  <2>2. call' = call /\ call.at = "idle" /\ answer'.tool = "summarize"  BY <1>4 DEF Summarize, At
  <2> QED  BY <2>1, <2>2, CallElsewhere, AnswerElsewhere DEF IInv, StateInv
<1>5. ASSUME listed' \subseteq listed, call' = call, answer' = answer, ledger' = ledger
      PROVE  StateInv'
  <2>1. LedgerInv'  BY <1>5, LedgerStays DEF IInv, StateInv
  <2>2. CallInv'
    <3>1. At("candidates") /\ call.scope # Null =>
            Covered(call.scope, call.products, call.refs \cup call.cut, call.unread)'
      BY <1>5 DEF IInv, StateInv, CallInv, Covered, TierOf
    <3> QED  BY <1>5, <3>1 DEF IInv, StateInv, CallInv, At
  <2> QED  BY <1>5, <2>1, <2>2, AnswerStays DEF IInv, StateInv
<1>7. ASSUME NEW c, Unlist(c) PROVE StateInv'  BY <1>7, <1>5 DEF Unlist
<1>8. CASE UNCHANGED vars  BY <1>8, <1>5 DEF vars
<1> QED  BY <1>1, <1>2, <1>3, <1>4, <1>7, <1>8 DEF Next

--------------------------------------------------------------------------------
\* What timestamps can tell of a step.

\* A set of natural numbers that is not empty has a least.
LEMMA LeastNat ==
  ASSUME NEW T \in SUBSET Nat, T # {}
  PROVE  \E n \in T : \A m \in T : n <= m
<1>1. PICK n \in T : \A m \in T : ~(<<m, n>> \in OpToRel(<, Nat))
  BY NatLessThanWellFounded, WFMin
<1>2. ASSUME NEW m \in T, m < n PROVE FALSE
  <2>1. <<m, n>> \in Nat \X Nat /\ <<m, n>>[1] < <<m, n>>[2]
    BY <1>1, <1>2
  <2>2. <<m, n>> \in OpToRel(<, Nat)
    BY <2>1, Zenon DEF OpToRel
  <2> QED
    BY <1>1, <2>2
<1> QED
  BY <1>2

\* x is a multiple of d.
Multiple(d, x) == \E k \in Int : x = d * k

\* What a division leaves is below the divisor (gcd).
LEMMA Remainders ==
  ASSUME NEW x \in Nat, NEW y \in Nat \ {0}
  PROVE  x % y \in 0..(y - 1)
OBVIOUS

\* Of two multiples of a number, dividing one by the other leaves a multiple (gcd).
LEMMA MultiplesLeave ==
  ASSUME NEW d \in Nat \ {0}, NEW x \in Nat, NEW y \in Nat \ {0}, Multiple(d, x), Multiple(d, y)
  PROVE  Multiple(d, x % y)
<1>1. PICK k \in Int, m \in Int : x = d * k /\ y = d * m
  BY DEF Multiple
<1>2. PICK q \in Int : q = x \div y
  OBVIOUS
<1>3. x % y = x - y * q
  BY <1>2
<1>4. x - y * q = d * (k - m * q)
  BY <1>1
<1>5. k - m * q \in Int
  BY <1>1, <1>2
<1> QED
  BY <1>3, <1>4, <1>5 DEF Multiple

\* A multiple leaves nothing (reportedStep).
LEMMA MultiplesLeaveNothing ==
  ASSUME NEW d \in Nat \ {0}, NEW x \in Nat, Multiple(d, x)
  PROVE  x % d = 0
<1>1. PICK k \in Int : x = d * k
  BY DEF Multiple
<1>2. PICK q \in Int : q = x \div d
  OBVIOUS
<1>8. PICK r \in Nat : r = x % d /\ r < d
  <2>1. x % d \in 0..(d - 1)
    BY Remainders
  <2> QED
    BY <2>1
<1>9. x % d = x - d * q
  BY <1>2
<1>3. PICK j \in Int : j = k - q
  BY <1>1
<1>4. d * j = r
  <2>1. d * j = d * k - d * q
    BY <1>1, <1>2, <1>3
  <2> QED
    BY <1>1, <1>8, <1>9, <2>1
<1>5. CASE j >= 1
  <2>1. d * j >= d
    BY <1>5
  <2> QED
    BY <2>1, <1>4, <1>8
<1>6. CASE j <= -1
  <2>1. d * j <= -d
    BY <1>6
  <2> QED
    BY <2>1, <1>4, <1>8
<1>7. CASE j = 0
  BY <1>4, <1>7, <1>8
<1> QED
  BY <1>5, <1>6, <1>7

\* Euclid's equation, up to a number.
Obeys(f, n) ==
  /\ f \in [Nat \X (0..n) -> Nat]
  /\ \A x \in Nat, y \in 0..n : f[<<x, y>>] = IF y = 0 THEN x ELSE f[<<y, x % y>>]

\* Two that satisfy it agree.
LEMMA ObeyingAgree ==
  ASSUME NEW m \in Nat, NEW n \in Nat, NEW f, NEW g, Obeys(f, m), Obeys(g, n),
         NEW x \in Nat, NEW y \in Nat, y <= m, y <= n
  PROVE  f[<<x, y>>] = g[<<x, y>>]
<1> DEFINE T == {b \in Nat : b <= m /\ b <= n /\ \E a \in Nat : f[<<a, b>>] # g[<<a, b>>]}
<1> SUFFICES ASSUME T # {} PROVE FALSE
  OBVIOUS
<1>1. PICK b \in T : \A c \in T : b <= c
  <2>1. T \in SUBSET Nat
    OBVIOUS
  <2> QED
    BY <2>1, LeastNat
<1>2. PICK a \in Nat : f[<<a, b>>] # g[<<a, b>>]
  OBVIOUS
<1>3. b \in 0..m /\ b \in 0..n
  OBVIOUS
<1>4. /\ f[<<a, b>>] = IF b = 0 THEN a ELSE f[<<b, a % b>>]
      /\ g[<<a, b>>] = IF b = 0 THEN a ELSE g[<<b, a % b>>]
  BY <1>2, <1>3 DEF Obeys
<1>5. b # 0
  BY <1>2, <1>4
<1>6. a % b \in 0..(b - 1)
  BY <1>3, <1>5, Remainders
<1>7. a % b \notin T /\ a % b \in Nat /\ a % b <= m /\ a % b <= n
  <2> HIDE DEF T
  <2> QED
    BY <1>1, <1>3, <1>6
<1>8. f[<<b, a % b>>] = g[<<b, a % b>>]
  BY <1>3, <1>7
<1> QED
  BY <1>2, <1>4, <1>5, <1>8

\* There is one up to any number.
LEMMA ObeyingGoesOn ==
  ASSUME NEW n \in Nat
  PROVE  \E f : Obeys(f, n)
<1> DEFINE T == {m \in Nat : ~\E f : Obeys(f, m)}
<1> SUFFICES ASSUME T # {} PROVE FALSE
  OBVIOUS
<1>1. PICK m \in T : \A c \in T : m <= c
  <2>1. T \in SUBSET Nat
    OBVIOUS
  <2> QED
    BY <2>1, LeastNat
<1>2. m # 0
  <2>1. Obeys([p \in Nat \X (0..0) |-> p[1]], 0)
    BY DEF Obeys
  <2> QED
    BY <1>1, <2>1
<1>3. m - 1 \in Nat /\ m - 1 \notin T
  <2>1. m \in Nat
    OBVIOUS
  <2> HIDE DEF T
  <2> QED
    BY <1>1, <1>2, <2>1
<1>4. PICK f : Obeys(f, m - 1)
  BY <1>3
<1>5. PICK g : g = [p \in Nat \X (0..m) |-> IF p[2] = m THEN f[<<m, p[1] % m>>] ELSE f[p]]
  OBVIOUS
<1>6. \A x \in Nat, y \in 0..m :
        /\ y = m => g[<<x, y>>] = f[<<m, x % m>>]
        /\ y # m => g[<<x, y>>] = f[<<x, y>>]
  <2> TAKE x \in Nat, y \in 0..m
  <2>1. <<x, y>> \in Nat \X (0..m) /\ <<x, y>>[1] = x /\ <<x, y>>[2] = y
    OBVIOUS
  <2> QED
    BY <1>5, <2>1
<1>7. \A x \in Nat, y \in 0..(m - 1) : f[<<x, y>>] \in Nat
  BY <1>4 DEF Obeys
<1>8. \A x \in Nat : x % m \in 0..(m - 1)
  BY <1>3, <1>2, Remainders
<1>9. g \in [Nat \X (0..m) -> Nat]
  <2>1. \A p \in Nat \X (0..m) : g[p] \in Nat
    <3> TAKE p \in Nat \X (0..m)
    <3>1. PICK x \in Nat, y \in 0..m : p = <<x, y>>
      OBVIOUS
    <3>2. y # m => y \in 0..(m - 1)
      BY <1>3
    <3> QED
      BY <1>3, <1>6, <1>7, <1>8, <3>1, <3>2
  <2> QED
    BY <1>5, <2>1
<1>10. ASSUME NEW x \in Nat, NEW y \in 0..m
       PROVE  g[<<x, y>>] = IF y = 0 THEN x ELSE g[<<y, x % y>>]
  <2>1. CASE y = m
    <3>1. x % m \in 0..m /\ x % m # m /\ m \in Nat
      BY <1>3, <1>8
    <3>2. g[<<m, x % m>>] = f[<<m, x % m>>]
      BY <1>6, <3>1
    <3> QED
      BY <1>2, <1>6, <2>1, <3>2
  <2>2. CASE y # m
    <3>1. y \in 0..(m - 1)
      BY <1>3, <2>2
    <3>2. g[<<x, y>>] = IF y = 0 THEN x ELSE f[<<y, x % y>>]
      <4>1. f[<<x, y>>] = IF y = 0 THEN x ELSE f[<<y, x % y>>]
        BY <1>4, <3>1 DEF Obeys
      <4> QED
        BY <1>6, <2>2, <4>1
    <3>3. ASSUME y # 0 PROVE g[<<y, x % y>>] = f[<<y, x % y>>]
      <4>1. x % y \in 0..(y - 1) /\ y \in Nat
        BY <3>1, <3>3, Remainders
      <4>2. x % y \in 0..m /\ x % y # m
        BY <3>1, <4>1, <1>3
      <4> QED
        BY <1>6, <4>1, <4>2
    <3> QED
      BY <3>2, <3>3
  <2> QED
    BY <2>1, <2>2
<1>11. Obeys(g, m)
  BY <1>9, <1>10 DEF Obeys
<1> QED
  BY <1>1, <1>11

\* Euclid's algorithm (gcd, stepReport.ts:11-20).
LEMMA EuclidGoesOn ==
  ASSUME NEW x \in Nat, NEW y \in Nat
  PROVE  /\ Gcd(x, y) \in Nat
         /\ Gcd(x, y) = IF y = 0 THEN x ELSE Gcd(y, x % y)
<1> DEFINE Is(f) == f = [p \in Nat \X Nat |-> IF p[2] = 0 THEN p[1] ELSE f[<<p[2], p[1] % p[2]>>]]
<1>1. PICK F : F = [n \in Nat |-> CHOOSE f : Obeys(f, n)]
  OBVIOUS
<1>2. \A n \in Nat : Obeys(F[n], n)
  BY <1>1, ObeyingGoesOn
<1>3. PICK e : e = [p \in Nat \X Nat |-> F[p[2]][p]]
  OBVIOUS
<1>4. \A a, b \in Nat : e[<<a, b>>] = F[b][<<a, b>>] /\ e[<<a, b>>] \in Nat
  <2> TAKE a, b \in Nat
  <2>1. <<a, b>> \in Nat \X Nat /\ <<a, b>>[2] = b /\ b \in 0..b
    OBVIOUS
  <2> QED
    BY <1>2, <1>3, <2>1 DEF Obeys
<1>5. \A a, b \in Nat : e[<<a, b>>] = IF b = 0 THEN a ELSE e[<<b, a % b>>]
  <2> TAKE a, b \in Nat
  <2>1. F[b][<<a, b>>] = IF b = 0 THEN a ELSE F[b][<<b, a % b>>]
    <3>1. b \in 0..b
      OBVIOUS
    <3> QED
      BY <1>2, <3>1 DEF Obeys
  <2>2. ASSUME b # 0 PROVE F[b][<<b, a % b>>] = e[<<b, a % b>>]
    <3>1. a % b \in Nat /\ a % b <= b /\ a % b <= a % b
      BY <2>2, Remainders
    <3>2. F[b][<<b, a % b>>] = F[a % b][<<b, a % b>>]
      BY <1>2, <3>1, ObeyingAgree
    <3> QED
      BY <1>4, <3>1, <3>2
  <2> QED
    BY <1>4, <2>1, <2>2
<1>6. Is(e)
  <2>1. e = [p \in Nat \X Nat |-> e[p]]
    BY <1>3
  <2>2. ASSUME NEW p \in Nat \X Nat
        PROVE  e[p] = IF p[2] = 0 THEN p[1] ELSE e[<<p[2], p[1] % p[2]>>]
    <3>1. p[1] \in Nat /\ p[2] \in Nat /\ p = <<p[1], p[2]>>
      OBVIOUS
    <3>2. e[<<p[1], p[2]>>] = IF p[2] = 0 THEN p[1] ELSE e[<<p[2], p[1] % p[2]>>]
      BY <1>5, <3>1
    <3> QED
      BY <3>1, <3>2
  <2> QED
    BY <2>1, <2>2
<1>7. Is(Euclid)
  BY <1>6 DEF Euclid
<1> HIDE DEF Is
<1>8. \A a, b \in Nat : Gcd(a, b) = IF b = 0 THEN a ELSE Gcd(b, a % b)
  <2> TAKE a, b \in Nat
  <2>1. <<a, b>> \in Nat \X Nat /\ <<a, b>>[1] = a /\ <<a, b>>[2] = b
    OBVIOUS
  <2>3. PICK p : p = <<a, b>>
    OBVIOUS
  <2>2. Euclid[p] = IF p[2] = 0 THEN p[1] ELSE Euclid[<<p[2], p[1] % p[2]>>]
    BY <1>7, <2>1, <2>3 DEF Is
  <2> QED
    BY <2>1, <2>2, <2>3 DEF Gcd
<1> DEFINE T == {b \in Nat : \E a \in Nat : Gcd(a, b) \notin Nat}
<1>9. T = {}
  <2> SUFFICES ASSUME T # {} PROVE FALSE
    OBVIOUS
  <2>1. PICK b \in T : \A c \in T : b <= c
    <3>1. T \in SUBSET Nat
      OBVIOUS
    <3> QED
      BY <3>1, LeastNat
  <2>2. PICK a \in Nat : Gcd(a, b) \notin Nat
    OBVIOUS
  <2>3. b \in Nat /\ b # 0
    BY <1>8, <2>2
  <2>4. a % b \in 0..(b - 1)
    BY <2>3, Remainders
  <2>5. a % b \in Nat /\ a % b \notin T
    <3> HIDE DEF T
    <3> QED
      BY <2>1, <2>3, <2>4
  <2> QED
    BY <1>8, <2>2, <2>3, <2>5
<1> QED
  BY <1>8, <1>9

\* What divides two numbers divides what Euclid's algorithm makes of them.
LEMMA GcdKeepsMultiples ==
  ASSUME NEW d \in Nat \ {0}, NEW x \in Nat, NEW y \in Nat, Multiple(d, x), Multiple(d, y)
  PROVE  Multiple(d, Gcd(x, y))
<1> DEFINE T == {b \in Nat : \E a \in Nat : Multiple(d, a) /\ Multiple(d, b) /\ ~Multiple(d, Gcd(a, b))}
<1> SUFFICES ASSUME T # {} PROVE FALSE
  OBVIOUS
<1>1. PICK b \in T : \A c \in T : b <= c
  <2>1. T \in SUBSET Nat
    OBVIOUS
  <2> QED
    BY <2>1, LeastNat
<1>2. PICK a \in Nat : Multiple(d, a) /\ Multiple(d, b) /\ ~Multiple(d, Gcd(a, b))
  OBVIOUS
<1>3. b \in Nat
  OBVIOUS
<1>4. b # 0
  BY <1>2, <1>3, EuclidGoesOn
<1>5. a % b \in Nat /\ ~(b <= a % b) /\ Multiple(d, a % b)
  <2>1. a % b \in 0..(b - 1)
    BY <1>3, <1>4, Remainders
  <2> QED
    BY <1>2, <1>3, <1>4, <2>1, MultiplesLeave
<1>6. ~Multiple(d, Gcd(b, a % b))
  BY <1>2, <1>3, <1>4, EuclidGoesOn
<1>7. a % b \notin T
  <2> HIDE DEF T
  <2> QED
    BY <1>1, <1>5
<1> QED
  BY <1>2, <1>3, <1>5, <1>6, <1>7

\* What goes from a value to a value, at each number.
Leads(n, V, step) == \A i \in 1..n, x \in V : step[i][x] \in V

\* Values at each number up to one, each gone to from that before.
Follows(f, n, V, v, step) ==
  f \in [0..n -> V] /\ f[0] = v /\ \A i \in 1..n : f[i] = step[i][f[i - 1]]

\* What goes from each number to the next is a function of the numbers.
LEMMA Recursion ==
  ASSUME NEW n \in Nat, NEW V, NEW v \in V, NEW step,
         Leads(n, V, step)
  PROVE  \E f : Follows(f, n, V, v, step)
<1> USE DEF Follows
<1> DEFINE Up(f, m) == Follows(f, m, V, v, step)
           T == {m \in 0..n : ~\E f : Up(f, m)}
<1> SUFFICES ASSUME T # {} PROVE FALSE
  <2>1. n \in 0..n
    OBVIOUS
  <2> QED
    BY <2>1
<1>1. PICK m \in T : \A k \in T : m <= k
  <2>1. T \in SUBSET Nat
    OBVIOUS
  <2> QED
    BY <2>1, LeastNat
<1>2. m # 0
  <2>1. Up([i \in 0..0 |-> v], 0)
    OBVIOUS
  <2> QED
    BY <1>1, <2>1
<1>3. m - 1 \in 0..n /\ m - 1 \notin T /\ m \in 1..n
  <2>1. m \in 0..n
    OBVIOUS
  <2>2. m - 1 \in 0..n /\ m \in 1..n /\ ~(m <= m - 1)
    BY <1>2, <2>1
  <2> HIDE DEF T
  <2> QED
    BY <1>1, <2>2
<1>4. PICK f : Up(f, m - 1)
  BY <1>3
<1>5. PICK g : g = [i \in 0..m |-> IF i = m THEN step[m][f[m - 1]] ELSE f[i]]
  OBVIOUS
<1>6. f[m - 1] \in V /\ step[m][f[m - 1]] \in V
  <2>1. f[m - 1] \in V
    BY <1>3, <1>4
  <2> QED
    BY <1>3, <2>1 DEF Leads
<1>7. g \in [0..m -> V] /\ g[0] = v
  BY <1>2, <1>3, <1>4, <1>5, <1>6
<1>8. ASSUME NEW i \in 1..m PROVE g[i] = step[i][g[i - 1]]
  <2>1. CASE i = m
    <3>1. g[m - 1] = f[m - 1] /\ g[m] = step[m][f[m - 1]]
      BY <1>3, <1>5
    <3> QED
      BY <2>1, <3>1
  <2>2. CASE i # m
    <3>1. i \in 1..(m - 1) /\ i - 1 \in 0..m /\ i - 1 # m /\ i \in 0..m
      BY <1>3, <2>2
    <3>2. g[i] = f[i] /\ g[i - 1] = f[i - 1]
      BY <1>5, <2>2, <3>1
    <3> QED
      BY <1>4, <3>1, <3>2
  <2> QED
    BY <2>1, <2>2
<1>9. Up(g, m)
  BY <1>7, <1>8
<1> QED
  BY <1>1, <1>9


\* A finite set is listed as a sequence of its elements (SetToSeq).
LEMMA ListsOfSets ==
  ASSUME NEW S, IsFiniteSet(S)
  PROVE  /\ Cardinality(S) \in Nat
         /\ SetToSeq(S) \in [1..Cardinality(S) -> S] /\ Len(SetToSeq(S)) = Cardinality(S)
<1>1. Cardinality(S) \in Nat
  BY FS_CardinalityType
<1>2. PICK f : f \in Bijection(1..Cardinality(S), S)
  BY FS_CardinalityType DEF ExistsBijection
<1>3. f \in [1..Cardinality(S) -> S] /\ IsInjective(f)
  BY <1>2 DEF Bijection, Injection, IsInjective
<1>4. SetToSeq(S) \in [1..Cardinality(S) -> S]
  BY <1>3 DEF SetToSeq
<1> QED
  BY <1>1, <1>4

\* What divides every gap divides what is measured (measureGaps).
LEMMA GapsAreMultiples ==
  ASSUME NEW all, NEW d \in Nat \ {0}, NEW G, G = UNION {Gaps(s.points) : s \in all},
         IsFiniteSet(G), \A gap \in G : gap \in Nat /\ Multiple(d, gap)
  PROVE  GapGcd(all) \in Nat /\ Multiple(d, GapGcd(all))
<1> DEFINE V == {x \in Nat : Multiple(d, x)}
           gaps == SetToSeq(G)
           n == Len(gaps)
           Is(f) == f = [i \in 0..n |-> IF i = 0 THEN 0 ELSE Gcd(f[i - 1], gaps[i])]
<1>1. n \in Nat /\ \A i \in 1..n : gaps[i] \in V
  <2>1. n = Cardinality(G) /\ n \in Nat /\ gaps \in [1..Cardinality(G) -> G]
    BY ListsOfSets
  <2> HIDE DEF n, gaps
  <2> QED
    BY <2>1
<1>2. GapGcd(all) = (CHOOSE f : Is(f))[n]
  BY DEF GapGcd
<1> HIDE DEF n, gaps
<1>3. 0 \in V /\ \A x, y \in V : Gcd(x, y) \in V
  <2>1. Multiple(d, 0)
    <3>1. 0 = d * 0 /\ 0 \in Int
      OBVIOUS
    <3> QED
      BY <3>1 DEF Multiple
  <2> QED
    BY <2>1, GcdKeepsMultiples, EuclidGoesOn
<1>4. PICK step : step = [i \in 1..n |-> [x \in V |-> Gcd(x, gaps[i])]]
  OBVIOUS
<1>5. \A i \in 1..n, x \in V : step[i][x] = Gcd(x, gaps[i]) /\ step[i][x] \in V
  <2> HIDE DEF V
  <2> QED
    BY <1>1, <1>3, <1>4
<1>6. PICK f : f \in [0..n -> V] /\ f[0] = 0 /\ \A i \in 1..n : f[i] = step[i][f[i - 1]]
  <2> HIDE DEF V
  <2>1. PICK W, v : W = V /\ v = 0 /\ v \in W
    BY <1>3
  <2>2. Leads(n, W, step)
    BY <1>5, <2>1 DEF Leads
  <2>4. n \in Nat
    BY <1>1
  <2>3. \E f : Follows(f, n, W, v, step)
    BY <2>1, <2>2, <2>4, Recursion
  <2> QED
    BY <2>1, <2>3 DEF Follows
<1>7. Is(f)
  <2> HIDE DEF V
  <2>1. \A i \in 1..n : f[i] = Gcd(f[i - 1], gaps[i])
    <3> TAKE i \in 1..n
    <3>1. i - 1 \in 0..n
      BY <1>1
    <3> QED
      BY <1>5, <1>6, <3>1
  <2>2. \A i \in 0..n : f[i] = IF i = 0 THEN 0 ELSE Gcd(f[i - 1], gaps[i])
    <3> TAKE i \in 0..n
    <3>1. i # 0 => i \in 1..n
      BY <1>1
    <3> QED
      BY <1>6, <2>1, <3>1
  <2>3. DOMAIN f = 0..n /\ f = [i \in DOMAIN f |-> f[i]]
    BY <1>6
  <2> QED
    BY <2>2, <2>3
<1>8. PICK g : g = CHOOSE h : Is(h)
  OBVIOUS
<1>9. Is(g) /\ GapGcd(all) = g[n]
  BY <1>2, <1>7, <1>8
<1>10. g[0] = 0 /\ \A i \in 1..n : g[i] = Gcd(g[i - 1], gaps[i])
  <2>1. \A i \in 0..n : g[i] = IF i = 0 THEN 0 ELSE Gcd(g[i - 1], gaps[i])
    BY <1>9
  <2>2. 0 \in 0..n /\ \A i \in 1..n : i \in 0..n /\ i # 0
    BY <1>1
  <2> QED
    BY <2>1, <2>2
<1> HIDE DEF Is
<1> DEFINE T == {i \in 0..n : g[i] \notin V}
<1>11. T = {}
  <2> SUFFICES ASSUME T # {} PROVE FALSE
    OBVIOUS
  <2> HIDE DEF V
  <2>1. PICK i \in T : \A k \in T : i <= k
    <3>1. T \in SUBSET Nat
      BY <1>1
    <3> QED
      BY <3>1, LeastNat
  <2>2. i \in 0..n /\ g[i] \notin V
    OBVIOUS
  <2>3. i # 0
    BY <1>3, <1>10, <2>2
  <2>4. i \in 1..n /\ i - 1 \in 0..n /\ ~(i <= i - 1)
    BY <1>1, <2>2, <2>3
  <2>5. g[i - 1] \in V
    <3>1. i - 1 \notin T
      <4> HIDE DEF T
      <4> QED
        BY <2>1, <2>4
    <3> QED
      BY <2>4, <3>1
  <2> QED
    BY <1>1, <1>3, <1>10, <2>2, <2>4, <2>5
<1>12. g[n] \in V
  <2>1. n \in 0..n
    BY <1>1
  <2> QED
    BY <1>11, <2>1
<1> QED
  BY <1>9, <1>12

\* The series of a response: finitely many, each a list of points.
LEMMA SeriesOfResponses ==
  ASSUME ResponsesAssumption, NEW response \in Responses
  PROVE  /\ IsFiniteSet(Parsed(response).series)
         /\ \A s \in Parsed(response).series : s.points \in Seq([t : Int, v : Int \cup {Null}])
<1> DEFINE numeric(r) == {f \in IF response[r].error THEN {}
                                ELSE {f \in ToSet(response[r].frames) : "time" \in f.types} : "number" \in f.types}
           of(r) == {[refId |-> r, labels |-> f.labels, points |-> f.points] : f \in numeric(r)}
           all == {of(r) : r \in DOMAIN response}
<1>1. Parsed(response).series = UNION all
  BY DEF Parsed
<1>2. ASSUME NEW r \in DOMAIN response
      PROVE  /\ numeric(r) \subseteq ToSet(response[r].frames)
             /\ response[r].frames \in Seq(ToSet(response[r].frames))
             /\ \A f \in ToSet(response[r].frames) : f.points \in Seq([t : Int, v : Int \cup {Null}])
  BY DEF ResponsesAssumption
<1>3. \A s \in Parsed(response).series : s.points \in Seq([t : Int, v : Int \cup {Null}])
  <2> SUFFICES ASSUME NEW r \in DOMAIN response, NEW s \in of(r)
               PROVE  s.points \in Seq([t : Int, v : Int \cup {Null}])
    BY <1>1
  <2>1. PICK f \in numeric(r) : s = [refId |-> r, labels |-> f.labels, points |-> f.points]
    OBVIOUS
  <2>2. s.points = f.points
    BY <2>1
  <2> HIDE DEF numeric
  <2> QED
    BY <1>2, <2>1, <2>2
<1>4. ASSUME NEW r \in DOMAIN response PROVE IsFiniteSet(of(r))
  <2> DEFINE frames == response[r].frames
             g == [f \in numeric(r) |-> [refId |-> r, labels |-> f.labels, points |-> f.points]]
  <2> HIDE DEF numeric
  <2>1. IsFiniteSet(ToSet(frames))
    <3>1. Len(frames) \in Nat /\ DOMAIN frames = 1..Len(frames)
      BY <1>2
    <3>2. IsFiniteSet(DOMAIN frames)
      BY <3>1, FS_Interval
    <3>3. ToSet(frames) = {frames[i] : i \in DOMAIN frames}
      BY DEF ToSet
    <3> HIDE DEF frames
    <3> QED
      BY <3>2, <3>3, ImagesAreFinite
  <2>2. IsFiniteSet(numeric(r))
    BY <1>2, <2>1, FS_Subset
  <2>3. DOMAIN g = numeric(r) /\ of(r) = {g[f] : f \in numeric(r)}
    OBVIOUS
  <2> HIDE DEF g, of
  <2> QED
    BY <2>2, <2>3, ImagesAreFinite
<1> HIDE DEF of
<1>5. IsFiniteSet(all)
  <2> DEFINE g == [r \in DOMAIN response |-> of(r)]
  <2>1. DOMAIN g = DOMAIN response /\ all = {g[r] : r \in DOMAIN response}
    OBVIOUS
  <2>2. IsFiniteSet(DOMAIN response)
    BY DEF ResponsesAssumption
  <2> HIDE DEF g, all
  <2> QED
    BY <2>1, <2>2, ImagesAreFinite
<1>6. \A S \in all : IsFiniteSet(S)
  BY <1>4
<1> HIDE DEF all
<1> QED
  BY <1>1, <1>3, <1>5, <1>6, FS_UNION

\* The gaps of a series are finitely many.
LEMMA GapsAreFinite ==
  ASSUME NEW points, points \in Seq([t : Int, v : Int \cup {Null}])
  PROVE  IsFiniteSet(Gaps(points))
<1> DEFINE times == {points[i].t : i \in DOMAIN points}
           f == [i \in DOMAIN points |-> points[i].t]
           g == [x \in times \X times |-> x[2] - x[1]]
           T == {g[x] : x \in times \X times}
<1>1. IsFiniteSet(times)
  <2>1. Len(points) \in Nat /\ DOMAIN points = 1..Len(points)
    OBVIOUS
  <2>2. IsFiniteSet(DOMAIN points)
    BY <2>1, FS_Interval
  <2>3. DOMAIN f = DOMAIN points /\ times = {f[i] : i \in DOMAIN points}
    OBVIOUS
  <2> HIDE DEF f, times
  <2> QED
    BY <2>2, <2>3, ImagesAreFinite
<1> HIDE DEF times
<1>2. IsFiniteSet(T)
  <2>1. IsFiniteSet(times \X times)
    BY <1>1, FS_Product
  <2>2. DOMAIN g = times \X times
    OBVIOUS
  <2> HIDE DEF g
  <2> QED
    BY <2>1, <2>2, ImagesAreFinite
<1>3. Gaps(points) \subseteq T
  BY DEF Gaps, times
<1> HIDE DEF T
<1> QED
  BY <1>2, <1>3, FS_Subset

\* What a sequence is made of.
LEMMA ElementsOf ==
  ASSUME NEW A, NEW s, s \in Seq(A)
  PROVE  Len(s) \in Nat /\ DOMAIN s = 1..Len(s) /\ \A i \in DOMAIN s : s[i] \in A
OBVIOUS

\* A list of elements of a set, put together by place.
LEMMA MadeOf ==
  ASSUME NEW A, NEW n \in Nat, NEW s, s = [i \in 1..n |-> s[i]], \A i \in 1..n : s[i] \in A
  PROVE  s \in Seq(A)
OBVIOUS

\* A datasource that spaces its points by a step leaves gaps that are multiples of it.
LEMMA SpacedByItsStep ==
  ASSUME ResponsesAssumption, NEW response \in Responses, NEW d \in Steps,
         NEW G, G = UNION {Gaps(s.points) : s \in Stepped(response, d)}
  PROVE  IsFiniteSet(G) /\ \A gap \in G : gap \in Nat /\ Multiple(d, gap)
<1> DEFINE P == Seq([t : Int, v : Int \cup {Null}])
           Spaced(s) == [s EXCEPT !.points = [i \in DOMAIN s.points |-> [s.points[i] EXCEPT !.t = d * @]]]
           series == Parsed(response).series
           gaps == {Gaps(s.points) : s \in Stepped(response, d)}
           f == [s \in series |-> Gaps(Spaced(s).points)]
<1>1. d \in Nat \ {0}
  BY DEF ResponsesAssumption
<1>2. IsFiniteSet(series) /\ \A s \in series : s.points \in P
  BY SeriesOfResponses
<1>3. gaps = {f[s] : s \in series} /\ DOMAIN f = series
  BY DEF Stepped
<1>4. ASSUME NEW s \in series
      PROVE  /\ Spaced(s).points \in P
             /\ \A i \in DOMAIN Spaced(s).points : Multiple(d, Spaced(s).points[i].t)
  <2>1. "points" \in DOMAIN s
    BY DEF Parsed
  <2>2. Spaced(s).points = [i \in DOMAIN s.points |-> [s.points[i] EXCEPT !.t = d * @]]
    BY <2>1
  <2>3. PICK p, q : p = s.points /\ q = Spaced(s).points
    OBVIOUS
  <2>4. p \in P
    BY <1>2, <2>3
  <2>5. q = [i \in DOMAIN p |-> [p[i] EXCEPT !.t = d * @]]
    BY <2>2, <2>3
  <2> HIDE DEF Spaced
  <2>6. Len(p) \in Nat /\ DOMAIN p = 1..Len(p) /\ \A i \in DOMAIN p : p[i] \in [t : Int, v : Int \cup {Null}]
    BY <2>4, ElementsOf
  <2>7. ASSUME NEW i \in DOMAIN p
        PROVE  q[i] \in [t : Int, v : Int \cup {Null}] /\ Multiple(d, q[i].t)
    <3>1. p[i] \in [t : Int, v : Int \cup {Null}]
      BY <2>6
    <3>2. q[i] = [p[i] EXCEPT !.t = d * p[i].t]
      BY <2>5
    <3>3. q[i].t = d * p[i].t /\ p[i].t \in Int /\ q[i].v = p[i].v
      BY <3>1, <3>2
    <3>4. q[i] \in [t : Int, v : Int \cup {Null}]
      <4>1. d * p[i].t \in Int
        BY <1>1, <3>3
      <4> QED
        BY <3>1, <3>2, <4>1
    <3> QED
      BY <3>3, <3>4 DEF Multiple
  <2>8. q \in P /\ DOMAIN q = DOMAIN p
    <3>1. DOMAIN q = 1..Len(p) /\ q = [i \in 1..Len(p) |-> q[i]]
      BY <2>5, <2>6
    <3> QED
      BY <2>6, <2>7, <3>1, MadeOf
  <2> QED
    BY <2>3, <2>7, <2>8
<1>5. ASSUME NEW s \in series
      PROVE  /\ IsFiniteSet(f[s])
             /\ \A gap \in f[s] : gap \in Nat /\ Multiple(d, gap)
  <2>1. PICK q : q = Spaced(s).points
    OBVIOUS
  <2>2. q \in P /\ \A i \in DOMAIN q : Multiple(d, q[i].t)
    BY <1>4, <2>1
  <2>3. f[s] = Gaps(q)
    BY <2>1
  <2> HIDE DEF Spaced, f
  <2>4. \A i \in DOMAIN q : q[i].t \in Int
    <3>1. \A i \in DOMAIN q : q[i] \in [t : Int, v : Int \cup {Null}]
      BY <2>2, ElementsOf
    <3> QED
      BY <3>1
  <2>5. ASSUME NEW gap \in Gaps(q) PROVE gap \in Nat /\ Multiple(d, gap)
    <3>1. PICK i \in DOMAIN q, j \in DOMAIN q : gap = q[j].t - q[i].t /\ q[i].t < q[j].t
      BY DEF Gaps
    <3>2. PICK m \in Int, n \in Int : q[i].t = d * m /\ q[j].t = d * n
      BY <2>2 DEF Multiple
    <3>3. gap = d * (n - m) /\ n - m \in Int
      <4>1. gap = d * n - d * m
        BY <3>1, <3>2
      <4> QED
        BY <1>1, <4>1
    <3>4. gap \in Nat
      BY <2>4, <3>1
    <3> QED
      BY <3>3, <3>4 DEF Multiple
  <2> QED
    BY <2>2, <2>3, <2>5, GapsAreFinite
<1> HIDE DEF f, series
<1>6. IsFiniteSet(gaps)
  <2> HIDE DEF gaps
  <2> QED
    BY <1>2, <1>3, ImagesAreFinite
<1>7. \A S \in gaps : IsFiniteSet(S) /\ \A gap \in S : gap \in Nat /\ Multiple(d, gap)
  BY <1>3, <1>5
<1>8. G = UNION gaps
  OBVIOUS
<1> HIDE DEF gaps
<1> QED
  BY <1>6, <1>7, <1>8, FS_UNION

\* A step that was used is not warned of (reportedStep, replayStepWarnings).
LEMMA NoFalseWarning ==
  ASSUME ResponsesAssumption, NEW response \in Responses, NEW used \in Steps
  PROVE  ~Warned(Evidence(Stepped(response, used), used))
<1>1. used \in Nat \ {0}
  BY DEF ResponsesAssumption
<1>2. PICK all : all = Stepped(response, used)
  OBVIOUS
<1>3. PICK G : G = UNION {Gaps(s.points) : s \in all}
  OBVIOUS
<1>4. IsFiniteSet(G) /\ \A gap \in G : gap \in Nat /\ Multiple(used, gap)
  BY <1>2, <1>3, SpacedByItsStep
<1>5. GapGcd(all) \in Nat /\ Multiple(used, GapGcd(all))
  BY <1>1, <1>3, <1>4, GapsAreMultiples
<1>6. Consistent(all, used)
  BY <1>1, <1>5, MultiplesLeaveNothing DEF Consistent
<1> QED
  BY <1>2, <1>6 DEF Warned, Evidence

--------------------------------------------------------------------------------
\* What a dismissed alert was compared with.

\* Where a point crosses there is a run (findThresholdRuns).
LEMMA CrossingsMakeRuns ==
  ASSUME NEW n \in Nat, NEW points, NEW places \in SUBSET (1..n)
  PROVE  /\ Len(Runs(points, places)) \in Nat
         /\ Runs(points, places) \in Seq(ToSet(Runs(points, places)))
         /\ places # {} => Len(Runs(points, places)) > 0
<1> DEFINE starts == {i \in places : i - 1 \notin places}
           s == Runs(points, places)
<1>1. IsFiniteSet(starts)
  <2>1. IsFiniteSet(1..n)
    BY FS_Interval
  <2>2. starts \in SUBSET (1..n)
    OBVIOUS
  <2> QED
    BY <2>1, <2>2, FS_Subset
<1>2. Cardinality(starts) \in Nat
  BY <1>1, FS_CardinalityType
<1>3. DOMAIN s = 1..Cardinality(starts) /\ s = [k \in 1..Cardinality(starts) |-> s[k]]
  BY DEF Runs
<1>4. ASSUME places # {} PROVE starts # {}
  <2>1. PICK i \in places : \A j \in places : i <= j
    <3>1. places \in SUBSET Nat
      OBVIOUS
    <3> QED
      BY <3>1, <1>4, LeastNat
  <2>2. i - 1 \notin places
    <3>1. i \in Nat /\ ~(i <= i - 1)
      OBVIOUS
    <3> QED
      BY <2>1, <3>1
  <2> QED
    BY <2>1, <2>2
<1> HIDE DEF s
<1>5. s \in Seq(ToSet(s))
  <2>1. \A k \in 1..Cardinality(starts) : s[k] \in ToSet(s)
    BY <1>3 DEF ToSet
  <2> HIDE DEF starts
  <2> QED
    BY <1>2, <1>3, <2>1, MadeOf
<1>6. Len(s) = Cardinality(starts)
  <2> HIDE DEF starts
  <2> QED
    BY <1>2, <1>3, <1>5
<1>7. starts # {} => Cardinality(starts) # 0
  <2> HIDE DEF starts
  <2> QED
    BY <1>1, FS_EmptySet
<1>8. Len(s) \in Nat /\ s \in Seq(ToSet(s)) /\ (places # {} => Len(s) > 0)
  <2> HIDE DEF starts
  <2> QED
    BY <1>2, <1>4, <1>5, <1>6, <1>7
<1> QED
  BY <1>8 DEF s

\* The places of the points outside a baseline's band, on one side of its mean.
OffSide(points, pool, where) ==
  {i \in DOMAIN points : LET v == points[i].v
                         IN  v # Null /\ (IF v * pool.den < pool.mean THEN "below" ELSE "above") = where /\ Apart(v, pool)}

\* A comparison of a window that has values with controls that have some lists the
\* runs on either side of the band, the earliest first (compareToBaseline).
LEMMA ExcursionsAreRuns ==
  ASSUME NEW points, NEW controls, Compared(points, controls).is # "insufficient-data"
  PROVE  LET pool == Pool(Valid(controls))
         IN  Compared(points, controls).excursions =
               ByStart(Runs(points, OffSide(points, pool, "below")) \o Runs(points, OffSide(points, pool, "above")))
BY DEF Compared, OffSide

\* Putting runs in order loses none.
LEMMA InOrderAsMany ==
  ASSUME NEW runs
  PROVE  ByStart(runs) = [k \in DOMAIN runs |-> ByStart(runs)[k]]
BY DEF ByStart

\* Where nothing is listed, nothing is outside the band.
LEMMA QuietIsInside ==
  ASSUME ResponsesAssumption, NEW A, NEW points, points \in Seq(A), NEW controls,
         Compared(points, controls).is # "insufficient-data",
         Listed(Compared(points, controls).excursions) = <<>>,
         NEW i \in DOMAIN points, points[i].v # Null
  PROVE  ~Apart(points[i].v, Pool(Valid(controls)))
<1> SUFFICES ASSUME Apart(points[i].v, Pool(Valid(controls))) PROVE FALSE
  OBVIOUS
<1>1. PICK pool : pool = Pool(Valid(controls))
  OBVIOUS
<1>2. PICK below, above : /\ below = OffSide(points, pool, "below")
                          /\ above = OffSide(points, pool, "above")
  OBVIOUS
<1>3. below # {} \/ above # {}
  BY <1>1, <1>2 DEF OffSide
<1>4. Len(points) \in Nat /\ DOMAIN points = 1..Len(points)
  OBVIOUS
<1>5. below \in SUBSET (1..Len(points)) /\ above \in SUBSET (1..Len(points))
  BY <1>2, <1>4 DEF OffSide
<1>6. PICK a, b : a = Runs(points, below) /\ b = Runs(points, above)
  OBVIOUS
<1>7. /\ Len(a) \in Nat /\ a \in Seq(ToSet(a)) /\ (below # {} => Len(a) > 0)
      /\ Len(b) \in Nat /\ b \in Seq(ToSet(b)) /\ (above # {} => Len(b) > 0)
  BY <1>4, <1>5, <1>6, CrossingsMakeRuns
<1>8. PICK n \in Nat : n > 0 /\ DOMAIN (a \o b) = 1..n
  <2>1. DOMAIN (a \o b) = 1..(Len(a) + Len(b))
    BY <1>7
  <2> QED
    BY <1>3, <1>7, <2>1
<1>9. PICK e : e = ByStart(a \o b)
  OBVIOUS
<1>10. DOMAIN e = 1..n /\ e = [k \in 1..n |-> e[k]]
  <2>1. PICK runs : runs = a \o b
    OBVIOUS
  <2>2. e = [k \in DOMAIN runs |-> e[k]]
    BY <1>9, <2>1, InOrderAsMany
  <2> QED
    BY <1>8, <2>1, <2>2
<1>11. e = Compared(points, controls).excursions
  BY <1>1, <1>2, <1>6, <1>9, ExcursionsAreRuns
<1>12. Listed(e) = <<>>
  BY <1>11
<1>13. Len(e) = n /\ e \in Seq(ToSet(e))
  <2>1. \A k \in 1..n : e[k] \in ToSet(e)
    BY <1>10 DEF ToSet
  <2>2. e \in Seq(ToSet(e))
    BY <1>10, <2>1, MadeOf
  <2> QED
    BY <1>10, <2>2
<1>14. PICK m : m = Min({n, MaxRuns}) /\ m \in Nat /\ m > 0 /\ m <= n
  <2>1. MaxRuns \in Nat \ {0}
    BY DEF ResponsesAssumption
  <2> QED
    BY <1>8, <2>1, MinOfTwo
<1>15. Listed(e) = SubSeq(e, 1, m)
  BY <1>13, <1>14 DEF Listed
<1>16. Len(Listed(e)) = m
  BY <1>13, <1>14, <1>15
<1>17. Len(Listed(e)) = 0
  BY <1>12
<1>18. m = 0
  BY <1>16, <1>17
<1>19. ~(0 > 0)
  OBVIOUS
<1> QED
  BY <1>14, <1>18, <1>19

\* A dismissal was of a comparison that found nothing (summarizeFindings).
LEMMA DismissedWasQuiet ==
  ASSUME NEW b, NEW crossed, Verdict(b, crossed) = "likely-false-positive"
  PROVE  b.is # "insufficient-data" /\ b.excursions = <<>>
BY DEF Verdict

--------------------------------------------------------------------------------
\* What an answer finds: its warning and its verdict hold, and a comparison is one of
\* the series and the controls it shows.
FoundInv ==
  /\ StepProofIsSound /\ NothingUnusualIsDismissed
  /\ answer.tool = "validate" /\ answer.series # Null =>
       /\ answer.series \in Seq([t : Int, v : Int \cup {Null}])
       /\ answer.baseline = [Compared(answer.series, answer.pool) EXCEPT !.excursions = Listed(@)]

\* An answer that stays stays so.
LEMMA FoundStays ==
  ASSUME FoundInv, answer' = answer
  PROVE  FoundInv'
BY DEF FoundInv, StepProofIsSound, NothingUnusualIsDismissed

\* validate_baseline answers with the comparison of the series it shows.
LEMMA BaselineFound ==
  ASSUME ResponsesAssumption, NEW incident \in Responses, NEW controls, BaselineAnswers(incident, controls)
  PROVE  FoundInv'
<1> DEFINE kept == SetToSortSeq(DOMAIN controls, <)
           pool(s) == [i \in DOMAIN kept |-> PointsLike(Parsed(controls[kept[i]]).series, s)]
           baseline(s) == [Compared(s.points, pool(s)) EXCEPT !.excursions = Listed(@)]
<1>1. CASE Parsed(incident).series = {}
  <2>1. answer' = [tool |-> "validate", series |-> Null, errors |-> Parsed(incident).errors]
    BY <1>1 DEF BaselineAnswers
  <2> QED
    BY <2>1 DEF FoundInv, StepProofIsSound, NothingUnusualIsDismissed
<1>2. CASE Parsed(incident).series # {}
  <2> HIDE DEF kept, pool, baseline
  <2>1. PICK s \in Parsed(incident).series :
          answer' = [tool |-> "validate", series |-> s.points, pool |-> pool(s),
                     errors |-> Parsed(incident).errors, baseline |-> baseline(s)]
    BY <1>2, Zenon DEF BaselineAnswers, kept, pool, baseline
  <2>2. s.points \in Seq([t : Int, v : Int \cup {Null}])
    BY SeriesOfResponses
  <2>3. /\ answer'.tool = "validate" /\ answer'.series = s.points /\ answer'.pool = pool(s)
        /\ answer'.baseline = baseline(s)
    BY <2>1
  <2>4. answer'.baseline = [Compared(answer'.series, answer'.pool) EXCEPT !.excursions = Listed(@)]
    BY <2>3 DEF baseline
  <2> QED
    BY <2>2, <2>3, <2>4 DEF FoundInv, StepProofIsSound, NothingUnusualIsDismissed
<1> QED
  BY <1>1, <1>2

\* execute_query_window warns of no step that was used.
LEMMA WindowsFound ==
  ASSUME ResponsesAssumption, NEW response \in Responses, NEW used \in Steps, NEW floor, NEW threshold,
         NEW direction, WindowsAnswer(response, floor, used, threshold, direction)
  PROVE  FoundInv'
<1>1. CASE Stepped(response, used) = {}
  <2>1. answer' = [tool |-> "execute", series |-> Null]
    BY <1>1 DEF WindowsAnswer
  <2> QED
    BY <2>1 DEF FoundInv, StepProofIsSound, NothingUnusualIsDismissed
<1>2. CASE Stepped(response, used) # {}
  <2>1. \E points, shown :
          answer' = [tool |-> "execute", series |-> points, requested |-> floor, used |-> used,
                     threshold |-> threshold, direction |-> direction, shown |-> shown,
                     warned |-> Warned(Evidence(Stepped(response, used), floor))]
    BY <1>2, Zenon DEF WindowsAnswer
  <2>2. /\ answer'.tool = "execute" /\ answer'.used = used /\ answer'.requested = floor
        /\ answer'.warned = Warned(Evidence(Stepped(response, used), floor))
    BY <2>1
  <2>3. answer'.warned => answer'.used # answer'.requested
    BY <2>2, NoFalseWarning
  <2> QED
    BY <2>2, <2>3 DEF FoundInv, StepProofIsSound, NothingUnusualIsDismissed
<1> QED
  BY <1>1, <1>2

\* Nor does execute_adhoc_query.
LEMMA AdhocFound ==
  ASSUME ResponsesAssumption, IInv, NEW response \in Responses, NEW used \in Steps,
         AdhocAnswers(response, used)
  PROVE  FoundInv'
<1>1. PICK asked, type, based : /\ call.record = Recorded(asked, type, based)
                               /\ type \in Authorized \cap Guardable /\ based \in BOOLEAN
  BY DEF AdhocAnswers, IInv, StateInv, CallInv
<1>2. PICK sent, links : call.record = Record(asked, type, sent, based, links)
  BY <1>1, RecordsReplay
<1>3. PICK all : all = Stepped(response, used)
  OBVIOUS
<1>4. CASE all = {}
  <2>1. answer' = call.record
    BY <1>3, <1>4 DEF AdhocAnswers, Closes
  <2>2. answer'.tool = "adhoc" /\ answer'.series = Null
    BY <1>2, <2>1 DEF Record
  <2> QED
    BY <2>2 DEF FoundInv, StepProofIsSound, NothingUnusualIsDismissed
<1>5. CASE all # {}
  <2>1. \E points, stats :
          answer' = [call.record EXCEPT !.series =
                      [points |-> points, stats |-> stats, used |-> used,
                       warned |-> Warned(Evidence(all, call.record.sent.how.step))]]
    BY <1>3, <1>5, Zenon DEF AdhocAnswers, Closes
  <2>2. call.record.sent = sent /\ {"tool", "sent", "series"} \subseteq DOMAIN call.record /\ call.record.tool = "adhoc"
    BY <1>2 DEF Record
  <2>3. /\ answer'.tool = "adhoc" /\ answer'.sent = sent /\ answer'.series.used = used
        /\ answer'.series.warned = Warned(Evidence(all, sent.how.step))
    BY <2>1, <2>2
  <2>4. answer'.series.warned => answer'.series.used # answer'.sent.how.step
    BY <1>3, <2>3, NoFalseWarning
  <2> QED
    BY <2>3, <2>4 DEF FoundInv, StepProofIsSound, NothingUnusualIsDismissed
<1> QED
  BY <1>4, <1>5

\* summarize_findings dismisses only where nothing was found.
LEMMA SummaryFound ==
  ASSUME ResponsesAssumption, FoundInv, NEW crossed, NEW confirmed, NEW adhoc,
         Summarize(crossed, confirmed, adhoc)
  PROVE  FoundInv'
<1>1. PICK points, controls : points = answer.series /\ controls = answer.pool
  OBVIOUS
<1>2. PICK A : A = [t : Int, v : Int \cup {Null}]
  OBVIOUS
<1>3. /\ points \in Seq(A)
      /\ answer.baseline = [Compared(points, controls) EXCEPT !.excursions = Listed(@)]
  BY <1>1, <1>2 DEF FoundInv, Summarize
<1>4. /\ answer'.tool = "summarize" /\ answer'.series = points /\ answer'.pool = controls
      /\ answer'.verdict = Verdict(answer.baseline, crossed)
  BY <1>1 DEF Summarize
<1>5. {"is", "excursions"} \subseteq DOMAIN Compared(points, controls)
  BY DEF Compared
<1>6. /\ answer.baseline.is = Compared(points, controls).is
      /\ answer.baseline.excursions = Listed(Compared(points, controls).excursions)
  BY <1>3, <1>5
<1>7. ASSUME answer'.verdict = "likely-false-positive", NEW i \in DOMAIN points, points[i].v # Null
      PROVE  ~Apart(points[i].v, Pool(Valid(controls)))
  <2>1. /\ Compared(points, controls).is # "insufficient-data"
        /\ Listed(Compared(points, controls).excursions) = <<>>
    BY <1>4, <1>6, <1>7, DismissedWasQuiet
  <2> QED
    BY <1>3, <1>7, <2>1, QuietIsInside
<1>8. NothingUnusualIsDismissed'
  BY <1>4, <1>7 DEF NothingUnusualIsDismissed
<1> QED
  BY <1>4, <1>8 DEF FoundInv, StepProofIsSound

\* Where the answer is silent, of another tool, or a record without a series, nothing
\* is found.
LEMMA NothingFound ==
  ASSUME \/ answer' = Silent
         \/ answer'.tool \in {"detect", "search", "correlate"}
         \/ answer'.tool = "adhoc" /\ answer'.series = Null
  PROVE  FoundInv'
BY DEF Silent, FoundInv, StepProofIsSound, NothingUnusualIsDismissed

\* The record of a query that was sent carries no series yet, and warns of nothing.
LEMMA RecordFindsNothing ==
  ASSUME NEW asked, NEW type, NEW sent, NEW based, NEW links,
         answer' = Record(asked, type, sent, based, links)
  PROVE  FoundInv'
<1>1. answer'.tool = "adhoc" /\ answer'.series = Null
  BY DEF Record
<1> QED
  BY <1>1, NothingFound

\* The replays.
LEMMA ReplaysFind ==
  ASSUME ResponsesAssumption, FoundInv, Replays
  PROVE  FoundInv'
<1>1. ASSUME NEW tool, NEW start, NEW end, NEW offsets, ReplayStarts(tool, start, end, offsets)
      PROVE  answer' = Silent
  BY <1>1 DEF ReplayStarts, Errs, Closes
<1>2. ASSUME NEW values, NEW board, VariablesResolve(values, board) PROVE answer' = answer
  BY <1>2 DEF VariablesResolve
<1>3. ASSUME WindowReads \/ WindowsAsked \/ \E board : Save(board) PROVE answer' = answer
  BY <1>3 DEF WindowReads, WindowsAsked, Save
<1>4. ASSUME ReplayErrs PROVE answer' = Silent
  BY <1>4 DEF ReplayErrs, Errs, Closes
<1>5. ASSUME NEW incident \in Responses, NEW controls, BaselineAnswers(incident, controls)
      PROVE  FoundInv'
  BY <1>5, BaselineFound
<1>6. ASSUME NEW response \in Responses, NEW floor, NEW used \in Steps, NEW threshold, NEW direction,
             WindowsAnswer(response, floor, used, threshold, direction)
      PROVE  FoundInv'
  BY <1>6, WindowsFound
<1> QED
  BY <1>1, <1>2, <1>3, <1>4, <1>5, <1>6, NothingFound, FoundStays DEF Replays

\* The searches for panels that moved.
LEMMA SearchesFind ==
  ASSUME FoundInv, Searches
  PROVE  FoundInv'
<1>1. ASSUME NEW scope, NEW onset, NEW products, SearchStarts(scope, onset, products)
      PROVE  answer' = Silent
  BY <1>1 DEF SearchStarts, Errs, Closes
<1>2. ASSUME NEW refs, NEW onset, SearchNamed(refs, onset) PROVE answer' = Silent
  BY <1>2 DEF SearchNamed, Errs, Closes
<1>3. ASSUME SearchErrs PROVE answer' = Silent
  BY <1>3 DEF SearchErrs, Errs, Closes
<1>4. ASSUME NEW others, NEW refs, IndexesRead(others, refs) PROVE answer' = answer
  BY <1>4 DEF IndexesRead
<1>5. ASSUME NEW pairs, CandidatesSettle(pairs) PROVE answer'.tool = "detect"
  BY <1>5 DEF CandidatesSettle
<1> QED
  BY <1>1, <1>2, <1>3, <1>4, <1>5, NothingFound, FoundStays DEF Searches

\* The agent's own queries, and its searches of the logs.
LEMMA OthersFind ==
  ASSUME ResponsesAssumption, IInv, FoundInv, Others
  PROVE  FoundInv'
<1>1. ASSUME NEW asked, AdhocStarts(asked) PROVE FoundInv'
  <2>1. answer' = Silent \/ answer' = Record(asked, Null, Null, FALSE, {})
    BY <1>1 DEF AdhocStarts, Closes, Goes
  <2> QED
    BY <2>1, NothingFound, RecordFindsNothing
<1>2. ASSUME NEW type, DatasourceFound(type) PROVE FoundInv'
  <2>1. CASE type \notin Authorized \cap Guardable
    <3>1. answer' = Record(call.asked, Null, Null, FALSE, {})
      BY <1>2, <2>1 DEF DatasourceFound, Closes
    <3> QED
      BY <3>1, RecordFindsNothing
  <2>2. CASE type \in Authorized \cap Guardable
    <3>1. PICK based \in BOOLEAN : based = (Primary \in listed)
      BY (Primary \in listed) \in BOOLEAN, Zenon
    <3>2. answer' = Silent \/ answer' = Recorded(call.asked, type, based)
      BY <1>2, <2>2, <3>1 DEF DatasourceFound, Closes, Goes
    <3>3. PICK sent, links : Recorded(call.asked, type, based) = Record(call.asked, type, sent, based, links)
      BY <2>2, RecordsReplay
    <3> QED
      BY <3>2, <3>3, NothingFound, RecordFindsNothing
  <2> QED
    BY <2>1, <2>2
<1>3. ASSUME DatasourcesUnread PROVE FoundInv'
  <2>1. answer' = Record(call.asked, Null, Null, FALSE, {})
    BY <1>3 DEF DatasourcesUnread, Closes
  <2> QED
    BY <2>1, RecordFindsNothing
<1>4. ASSUME NEW response \in Responses, NEW used \in Steps, AdhocAnswers(response, used) PROVE FoundInv'
  BY <1>4, AdhocFound
<1>5. ASSUME NEW given, LogCallStarts(given) PROVE answer' = Silent
  BY <1>5 DEF LogCallStarts, Errs, Closes, Goes
<1>6. ASSUME NEW world, SourcesListed(world) PROVE answer' = Silent
  BY <1>6 DEF SourcesListed, Errs, Closes, Goes
<1>7. ASSUME NEW world, SourceResolved(world) PROVE answer' = Silent
  BY <1>7 DEF SourceResolved, Errs, Closes, Goes
<1>8. ASSUME NEW lines, SearchAnswers(lines) PROVE answer'.tool = "search"
  BY <1>8 DEF SearchAnswers, Closes
<1>9. ASSUME NEW lines, CorrelateAnswers(lines) PROVE answer' = Silent \/ answer'.tool = "correlate"
  <2>1. PICK query, cut, found :
          IF Unsafe(query, cut) THEN Errs
          ELSE Closes([tool |-> "correlate", asked |-> call, lines |-> lines,
                       found |-> found, truncated |-> cut # {}])
    BY <1>9, Zenon DEF CorrelateAnswers
  <2> QED
    BY <2>1 DEF Errs, Closes
<1>10. ASSUME LogCallErrs PROVE answer' = Silent
  BY <1>10 DEF LogCallErrs, Errs, Closes
<1> QED
  BY <1>1, <1>2, <1>3, <1>4, <1>5, <1>6, <1>7, <1>8, <1>9, <1>10, NothingFound DEF Others

\* Every step keeps what its answer finds true.
LEMMA StepFound ==
  ASSUME ResponsesAssumption
  PROVE  IInv /\ FoundInv /\ [Next]_vars => FoundInv'
<1> SUFFICES ASSUME IInv, FoundInv, [Next]_vars PROVE FoundInv'
  OBVIOUS
<1>1. ASSUME NEW crossed, NEW confirmed, NEW adhoc, Summarize(crossed, confirmed, adhoc) PROVE FoundInv'
  BY <1>1, SummaryFound
<1>3. ASSUME NEW c, Unlist(c) PROVE FoundInv'
  BY <1>3, FoundStays DEF Unlist
<1>4. CASE UNCHANGED vars
  BY <1>4, FoundStays DEF vars
<1>5. CASE Replays
  BY <1>5, ReplaysFind
<1>6. CASE Searches
  BY <1>6, SearchesFind
<1>7. CASE Others
  BY <1>7, OthersFind
<1> QED
  BY <1>1, <1>3, <1>4, <1>5, <1>6, <1>7 DEF Next

\* Connections are only ever taken away.
LEMMA OnlyRemovals == [Next]_vars => listed' \subseteq listed
<1> SUFFICES ASSUME [Next]_vars PROVE listed' \subseteq listed  OBVIOUS
<1>1. CASE Replays
  BY <1>1 DEF Replays, ReplayStarts, VariablesResolve, WindowReads, Save, WindowsAsked, ReplayErrs,
     BaselineAnswers, WindowsAnswer
<1>2. CASE Searches
  BY <1>2 DEF Searches, SearchStarts, SearchNamed, SearchErrs, IndexesRead, CandidatesSettle
<1>3. CASE Others
  BY <1>3 DEF Others, AdhocStarts, DatasourceFound, DatasourcesUnread, AdhocAnswers, LogCallStarts,
     SourcesListed, SourceResolved, SearchAnswers, CorrelateAnswers, LogCallErrs
<1>4. CASE ~Replays /\ ~Searches /\ ~Others
  BY <1>4 DEF Next, Summarize, Unlist, vars
<1> QED  BY <1>1, <1>2, <1>3, <1>4

\* The invariant is inductive.
THEOREM StepIInv ==
  ASSUME ScopesAssumption, LogsAssumption, NullAssumption, SourcesAssumption, WorldsAssumption
  PROVE  IInv /\ [Next]_vars => IInv'
<1>1. IInv /\ [Next]_vars => StateInv'  BY StepKeeps
<1> QED  BY <1>1, OnlyRemovals DEF IInv

\* The invariant holds throughout.
THEOREM AlwaysIInv == Spec => []IInv
BY InitIInv, StepIInv, ScopesAssumption, LogsAssumption, NullAssumption, SourcesAssumption,
   WorldsAssumption, PTL DEF Spec

\* What the answers find is true throughout.
LEMMA AlwaysFound == Spec => []FoundInv
<1>1. Init => FoundInv
  BY DEF Init, Silent, FoundInv, StepProofIsSound, NothingUnusualIsDismissed
<1> QED
  BY <1>1, AlwaysIInv, StepFound, ResponsesAssumption, PTL DEF Spec

\* Searching one scope after another for the same product leaves nothing out: a
\* panel not tried was cut off, or its connection is gone or was not read
\* (detectCorrelatedAnomalies.ts:252-301).
THEOREM WideningCompletes == Spec => []SteadyWideningIsComplete
<1>1. IInv => SteadyWideningIsComplete
  <2> SUFFICES ASSUME IInv, ledger.scopes = Scopes, Cardinality(ledger.products) = 1,
                      NEW c \in Conn, NEW ref \in Related[c]
               PROVE  ref \in ledger.tried \cup ledger.cut \/ c \in ledger.unread \/ c \notin listed
    BY DEF SteadyWideningIsComplete
  <2>1. PICK products : ledger.products = {products}
    BY FS_CardinalityType, FS_Singleton DEF IInv, StateInv, LedgerInv
  <2>2. TierOf(ref, products) \in ledger.scopes  BY DEF TierOf, Scopes
  <2>3. Covered(TierOf(ref, products), products, ledger.tried \cup ledger.cut, ledger.unread)
    BY <2>1, <2>2 DEF IInv, StateInv, LedgerInv
  <2> QED  BY <2>3 DEF Covered
<1> QED  BY <1>1, AlwaysIInv, PTL

\* What a join reports, the whole of its streams would report; and without a
\* warning it reports all of it (correlateLogs.ts:111-154).
THEOREM JoinsStayTrue == Spec => []JoinsNeverInvent
<1>1. IInv => JoinsNeverInvent  BY DEF IInv, StateInv, AnswerInv
<1> QED  BY <1>1, AlwaysIInv, PTL

\* The audit record of a query of the agent's own, refused, failed or answered, has
\* no link but one that runs it again, and has one unless its connection was removed
\* before the link was made (executeAdhocQuery.ts:376-442).
THEOREM RecordsStayReplayable == Spec => []AuditedReplays
<1>1. IInv => AuditedReplays  BY DEF IInv, StateInv, AnswerInv
<1> QED  BY <1>1, AlwaysIInv, PTL

\* Whatever edits of the dashboard come between, the windows of one replay ask the
\* same of the same hosts, unless one of these edits was of the query, or of the
\* variable's value where the replay had not looked any up
\* (executeQueryWindow.ts:190-204).
THEOREM WindowsAskAlike == Spec => []ComparedAlike
<1>1. IInv => ComparedAlike
  <2> SUFFICES ASSUME IInv, At("windows"), ~Excused(call) PROVE Cardinality(call.asked) <= 1
    BY DEF ComparedAlike, Excused
  <2>1. PICK question : \A q \in call.asked : q = question
    BY DEF IInv, StateInv, CallInv, ReadsAlike
  <2>2. call.asked = {} \/ call.asked = {question}  BY <2>1
  <2>3. Cardinality({}) = 0  BY FS_EmptySet
  <2>4. Cardinality({question}) = 1  BY FS_Singleton
  <2> QED  BY <2>2, <2>3, <2>4
<1> QED  BY <1>1, AlwaysIInv, PTL

\* Logs are searched only in the source that the call means, whatever could not
\* be read (sources.ts:185-202).
THEOREM OnlyTheSourceMeant == Spec => []SourceIsCertain
<1>1. IInv => SourceIsCertain  BY DEF IInv, StateInv, AnswerInv
<1> QED  BY <1>1, AlwaysIInv, PTL

\* A step that is warned of was not used: the gaps between the points of whatever was
\* returned are multiples of the step that was, and so is what Euclid's algorithm makes
\* of them all (reportedStep, replayStepWarnings).
THEOREM WarningsAreProof == Spec => []StepProofIsSound
<1>1. FoundInv => StepProofIsSound  BY DEF FoundInv
<1> QED  BY <1>1, AlwaysFound, PTL

\* No alert is dismissed while a point of the incident lies outside the band of the
\* baseline it was compared with (compareToBaseline, summarizeFindings).
THEOREM NothingOutsideIsDismissed == Spec => []NothingUnusualIsDismissed
<1>1. FoundInv => NothingUnusualIsDismissed  BY DEF FoundInv
<1> QED  BY <1>1, AlwaysFound, PTL
================================================================================
