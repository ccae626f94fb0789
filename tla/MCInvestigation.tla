----------------------------- MODULE MCInvestigation -----------------------------
(***************************************************************************)
(* The instance that is checked.  The unit of time is half an hour, of     *)
(* values the least deviation that a baseline at zero is given.            *)
(***************************************************************************)
EXTENDS Investigation

Points(values) == [i \in DOMAIN values |-> [t |-> i, v |-> values[i]]]

Numbers == {"time", "number"}
Frame(types, points) == [types |-> types, labels |-> [host |-> "web"], points |-> points]
Response(frames) == ("A" :> [error |-> FALSE, frames |-> frames])

\* Flat, varying, with a peak the mean hides, with a value missing, with a point
\* missing, none at all; then rejected, only text, text beside numbers, no time.
MCResponses ==
  {Response(<<Frame(Numbers, Points(v))>>) :
     v \in {<<0, 0>>, <<1, 1>>, <<3, 3>>, <<0, 2>>, <<1, 1, 4>>, <<0, Null, 3>>, <<0, 0, 3, 0, 0>>, <<>>}}
    \cup {Response(<<Frame(Numbers, <<[t |-> 1, v |-> 1], [t |-> 3, v |-> 3]>>)>>),
          "A" :> [error |-> TRUE, frames |-> <<>>],
          Response(<<Frame({"time", "string"}, Points(<<0>>))>>),
          Response(<<Frame(Numbers, Points(<<1, 3>>)), Frame({"time", "string"}, Points(<<0>>))>>),
          Response(<<Frame({"number"}, Points(<<1>>))>>)}

MCPairs == {[before |-> Points(<<1, 1>>), incident |-> Points(<<1, 1>>)],
            [before |-> Points(<<0, 0>>), incident |-> Points(<<0, 3>>)],
            [before |-> Points(<<0, 2>>), incident |-> Points(<<1, 4>>)],
            [before |-> <<>>, incident |-> Points(<<2>>)]}

MCControls ==
  {Response(<<Frame(Numbers, Points(v))>>) : v \in {<<0, 0>>, <<1, 1>>, <<3, 3>>, <<0, 2>>}}
    \cup {"A" :> [error |-> TRUE, frames |-> <<>>]}

Ref(conn, dash, panel) == [conn |-> conn, dash |-> dash, panel |-> panel]
MCRelated ==
  ("prod" :> {Ref("prod", "disk", 2), Ref("prod", "network", 1), Ref("prod", "billing", 1),
              Ref("prod", "billing", 2)})
  @@ ("lab" :> {Ref("lab", "network", 1)})
MCLabels == [ref \in UNION {MCRelated[c] : c \in {"prod", "lab"}} |->
               IF ref.dash = "billing" THEN [host |-> "db"] ELSE [host |-> "web"]]
MCPrimaryLabels == [host |-> "web"]
MCNamed == {{}, {Ref("lab", "network", 1)}}

MCStarts  == {440, 470}
MCEnds    == {Null, 399, 440, 442, 444}
MCOffsets ==
  {<<>>, <<[label |-> "prior-hour", by |-> 2], [label |-> "same-hour-yesterday", by |-> 48],
           [label |-> "same-hour-last-week", by |-> 336]>>}
MCFloors  == {Null, 2}
MCOnsets  == {Null, 1}

Text(statements, head, into, semicolon) ==
  [closed |-> TRUE, statements |-> statements, semicolon |-> semicolon, head |-> head, into |-> into, comments |-> TRUE]
Ask(query, type, step) == [query |-> query, type |-> type, step |-> step, from |-> 440, to |-> 444]
MCAsks ==
  {Ask(Text(1, "select", FALSE, FALSE), Null, Null), Ask(Text(1, "select", TRUE, FALSE), Null, Null),
   Ask(Text(2, "select", FALSE, TRUE), Null, Null), Ask([Text(1, "rate", FALSE, FALSE) EXCEPT !.closed = FALSE], Null, 2),
   Ask(Text(1, "rate", FALSE, FALSE), Null, Null), Ask(Text(1, "rate", FALSE, FALSE), Null, 1),
   Ask(Text(1, "rate", FALSE, FALSE), "range", 2), Ask(Text(1, "rate", FALSE, FALSE), "instant", Null),
   Ask(Text(1, "{", FALSE, FALSE), "instant", Null), Ask(Text(1, "rate", FALSE, TRUE), "range", 2),
   [Ask(Text(1, "select", FALSE, FALSE), Null, Null) EXCEPT !.from = 100]}

\* Two connections, the id of one beginning that of the other, and datasources
\* whose ids coincide.
MCSegments == ("prod" :> <<"prod">>) @@ ("lab" :> <<"prod", "eu">>)
Source(type, uid) == [type |-> type, uid |-> uid]
MCDatasources ==
  {Source("loki", <<"logs">>), Source("loki", <<"eu", "logs">>), Source("prometheus", <<"eu", "logs">>)}
World(graylog, prod, lab) == [graylog |-> graylog, grafana |-> ("prod" :> prod) @@ ("lab" :> lab)]
MCWorlds ==
  {World({}, {Source("loki", <<"logs">>)}, {}), World({}, Null, {Source("loki", <<"logs">>)}),
   World({}, {Source("loki", <<"eu", "logs">>)}, {Source("loki", <<"logs">>)}),
   World({}, {Source("prometheus", <<"eu", "logs">>)}, {Source("loki", <<"logs">>)}),
   World({<<"gl">>}, {}, {}), World({<<"gl">>}, {}, Null),
   World({<<"prod", "logs">>}, {Source("loki", <<"logs">>)}, {})}

MCLogCall(tool, id, query) ==
  [tool |-> tool, id |-> id, from |-> 440, to |-> Null, limit |-> Null, stream |-> FALSE, query |-> query]
Join(join, type, right) == [join |-> join, types |-> {type}, left |-> "front", right |-> right]
MCLogCalls ==
  {MCLogCall("search", <<"prod", "eu", "logs">>, [lines |-> TRUE]), MCLogCall("search", Null, [lines |-> TRUE]),
   [MCLogCall("search", Null, [lines |-> FALSE]) EXCEPT !.stream = TRUE],
   [MCLogCall("search", <<"gl">>, [lines |-> TRUE]) EXCEPT !.to = 440],
   MCLogCall("search", <<"prod", "logs">>, [lines |-> TRUE]), MCLogCall("correlate", <<"gl">>, Null),
   [MCLogCall("correlate", Null, Join("unless", "graylog", {"back"})) EXCEPT !.limit = 9],
   [MCLogCall("correlate", Null, Join("unless", "loki", {"back"})) EXCEPT !.limit = 1],
   MCLogCall("correlate", <<"gl">>, Join("unless", "graylog", {"back", "front"})),
   MCLogCall("correlate", <<"gl">>, Join("and", "graylog", {"back"})),
   MCLogCall("correlate", <<"prod", "logs">>, Join("or", "loki", {"back"}))}
MCLogs ==
  {("front" :> f) @@ ("back" :> b) :
     f \in {<<"r1">>, <<"r1", "r2", "r3">>}, b \in {<<>>, <<"r2">>, <<"r2", "r1">>, <<"r2", "r3", "r1">>}}

=================================================================================
