------------------------------- MODULE MCToolCalls -------------------------------
(* Two calls at a time over two connections, one of which is edited. *)
EXTENDS ToolCalls

CONSTANTS c1, c2

Prod == "prod"

MCVariableOf == "$ds" :> "ds"
MCSeconds    == "10s" :> 10 @@ "5m" :> 300
MCHostOf     == [prod |-> "grafana", lab |-> "lab"]
MCAliases    == [prod |-> {"alias"}, lab |-> {}]

\* "mimir" is the uid of one datasource and the name of another.
MCDatasource == { [uid |-> "mimir", name |-> "Metrics", type |-> "prometheus"],
                  [uid |-> "old", name |-> "mimir", type |-> "prometheus"],
                  [uid |-> "tags", name |-> "Influx", type |-> "influxdb"] }

Uid(u)        == [uid |-> u, type |-> None, object |-> FALSE]
Ref(u, type)  == [uid |-> u, type |-> type, object |-> TRUE]
Target(ref)   == [refId |-> "A", datasource |-> ref, panelId |-> None, uses |-> {"host", "env"}]
Again(id)     == [Target(None) EXCEPT !.panelId = id]

Leaf(id, title, type, ref, targets) ==
  [id |-> id, title |-> title, type |-> type, datasource |-> ref, targets |-> targets,
   interval |-> None, points |-> None, panels |-> <<>>]

Row(panels) == [Leaf(90, "row", "row", None, <<>>) EXCEPT !.panels = panels]

Var(name, type, query, ref, current) ==
  [name |-> name, type |-> type, query |-> query, datasource |-> ref, current |-> current,
   allValue |-> None, options |-> <<>>]

TagValues(ref) == Var("host", "query", "SHOW TAG VALUES", ref, <<All>>)

\* Three panels share the id 9.
Estate ==
  [variables |-> <<TagValues(Ref("tags", None)), Var("env", "custom", None, None, <<All>>)>>,
   panels |-> <<Row(<<[Leaf(9, "compute", "graph", Uid("Metrics"), <<Target(None)>>)
                         EXCEPT !.interval = "10s", !.points = 50],
                      Leaf(9, "storage", "graph", None, <<Target(Ref("__expr__", "__expr__"))>>)>>),
                Leaf(2, "notes", "text", None, <<>>),
                Leaf(3, "again", "stat", Uid(MirrorRef), <<Again(9)>>),
                Leaf(9, "network", "graph", Uid("mimir"), <<Target(None)>>)>>]

Service ==
  [variables |-> <<TagValues(Uid("Influx")), Var("ds", "datasource", None, None, <<"mimir">>)>>,
   panels |-> <<[Leaf(1, "rate", "graph", Uid("$ds"), <<Target(Uid(MixedRef))>>) EXCEPT !.interval = "5m"],
                Leaf(2, "hosts", "table", None, <<Target(None), Target(Uid("Metrics"))>>),
                Leaf(3, "again", "stat", Uid(MirrorRef), <<Again(1)>>)>>]

\* Its variable's datasource gives its type, its panel's does not resolve.
Typed ==
  [variables |-> <<TagValues(Ref("tags", "influxdb"))>>,
   panels |-> <<Leaf(1, "rate", "graph", Uid("Influx"), <<Target(None)>>),
                Leaf(2, "hosts", "table", Uid("Metrics"), <<Target(None)>>)>>]

MCBoard == [estate |-> Estate, service |-> Service, typed |-> Typed]

Link(kind, host, uid, panelId, to) ==
  [kind |-> kind, host |-> host, uid |-> uid, panelId |-> panelId, to |-> to, vars |-> <<>>]

MCUrl ==
  [estate |-> [Link("dashboard", "alias", "estate", None, None) EXCEPT !.vars = [host |-> <<"h1">>]],
   short  |-> Link("short", "grafana", None, None, "estate"),
   rule   |-> Link("rule", "grafana", "service", 1, None),
   norule |-> Link("rule", "grafana", None, None, None),
   folder |-> Link("folder", "grafana", None, None, None),
   lost   |-> Link("dashboard", "elsewhere", "service", 1, None),
   solo   |-> Link("dashboard", "grafana", "typed", 2, None)]

Ask(tool, connection, url, uid, panelId, title, overrides, browser) ==
  [tool |-> tool, connection |-> connection, url |-> url, uid |-> uid, panelId |-> panelId,
   panelTitle |-> title, overrides |-> overrides, browser |-> browser, limit |-> 2]

Render(url, uid) == Ask("render", IF url = None THEN Prod ELSE None, url, uid, None, None, <<>>, TRUE)
Everything       == [host |-> <<All>>]

Two(first, second) == [c \in Call |-> IF c = c1 THEN first ELSE second]

MCPlans ==
  { Two([Render("short", None) EXCEPT !.overrides = Everything],
        [Render(None, "service") EXCEPT !.limit = 1]),
    Two(Render(None, "estate"), [Render("estate", None) EXCEPT !.limit = 1]),
    Two(Render("rule", None), Ask("png", None, "rule", None, None, None, <<>>, TRUE)),
    Two(Ask("png", None, "solo", None, None, None, <<>>, TRUE),
        Ask("png", Prod, None, "estate", 9, "network", <<>>, TRUE)),
    Two(Ask("csv", Prod, None, "typed", 2, None, <<>>, TRUE),
        Ask("csv", Prod, None, "service", 3, None, <<>>, TRUE)),
    Two(Ask("csv", None, "solo", None, 1, None, <<>>, FALSE),
        Ask("csv", Prod, None, "service", 3, None, <<>>, FALSE)),
    Two(Ask("png", Prod, None, "estate", 9, None, <<>>, TRUE),
        Ask("png", Prod, None, "estate", None, None, <<>>, TRUE)),
    Two(Render("folder", None), Render("lost", None)),
    Two(Render("norule", None), Ask("render", None, None, "estate", None, None, <<>>, TRUE)) }

MCResults == {<<>>, <<"h1", "h2">>}
================================================================================
