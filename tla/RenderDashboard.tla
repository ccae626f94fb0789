----------------------------- MODULE RenderDashboard -----------------------------
(***************************************************************************)
(* render_dashboard (src/tools/renderDashboard.ts): every panel of a       *)
(* dashboard in one answer, up to a limit of those it queries.             *)
(***************************************************************************)
EXTENDS PanelReplay

Rendering(c, place) == Awaiting(c, place) /\ call[c].req.tool = "render"

\* The window is resolved, or refused (module RenderWindow).
RenderWindowArrives(c, ok) ==
  /\ Rendering(c, "window")
  /\ IF ok THEN Becomes(c, [pc |-> "variables", at |-> 1, resolved |-> call[c].overrides]) ELSE Fails(c)
  /\ UNCHANGED <<now, listed, built, memo, fetches, entries, nextId, audit, captures, windows>>

\* The panels that are queried: those not shown again from another, up to the limit.
ToQuery(board) == Filter(PanelQueries(board), LAMBDA p : ~Mirror(p))

\* A call's limit is a number, and panels come in lists.  A panel is what its JSON
\* says of it, its place on the dashboard included, so that no two of those queried
\* are one.
ASSUME PanelsAssumption ==
  /\ \A plan \in Plans, c \in Call : plan[c].limit \in Nat
  /\ \A uid \in DOMAIN Board :
       LET panels == Board[uid].panels
           queried == ToQuery(Board[uid])
       IN  /\ panels \in Seq(ToSet(panels))
           /\ \A i \in DOMAIN panels : panels[i].panels \in Seq(ToSet(panels[i].panels))
           /\ \A i, j \in DOMAIN queried : queried[i].panel = queried[j].panel => i = j

Executable(c) == ToQuery(TheBoard(c))
Limit(c)      == Min({call[c].req.limit, Len(Executable(c))})
ToExecute(c)  == SubSeq(Executable(c), 1, Limit(c))

FanOut(c) ==
  /\ Rendering(c, "variables") /\ ~MoreToDo(c)
  /\ Resolving(c, ToExecute(c))
  /\ UNCHANGED <<now, listed, built, entries, nextId, audit, captures, windows>>

Items(panels, how) == [i \in DOMAIN panels |-> [panel |-> panels[i], how |-> how]]

\* A slip, not the code: the panels beyond the limit are told by their ids.
SkippedById(c) ==
  Filter(Executable(c), LAMBDA p :
              \A i \in 1..Limit(c) : Executable(c)[i].panel.id # p.panel.id)

\* The panels beyond the limit, by their place.
Skipped(c) == SubSeq(Executable(c), Limit(c) + 1, Len(Executable(c)))

Reported(c) ==
  LET executed == [i \in DOMAIN call[c].jobs |->
                     [panel |-> ToExecute(c)[i].panel,
                      how   |-> IF call[c].jobs[i].is = "answered" THEN "series" ELSE "error"]]
      skipped  == Skipped(c)
      mirrors  == Filter(PanelQueries(TheBoard(c)), Mirror)
      plain    == Filter(Flattened(TheBoard(c).panels), LAMBDA p : ~Queryable(p))
  IN  executed \o Items([i \in DOMAIN skipped |-> skipped[i].panel], "skipped")
               \o Items([i \in DOMAIN mirrors |-> mirrors[i].panel], "mirror")
               \o Items(plain, "plain")

\* Every query has settled: the answer is put together.
RenderAnswer(c) ==
  /\ Rendering(c, "panels") /\ Settled(c)
  /\ Becomes(c, [pc |-> "audit", panels |-> Reported(c)])
  /\ UNCHANGED <<now, listed, built, memo, fetches, entries, nextId, audit, captures, windows>>

Renders(c) ==
  \/ \E ok \in BOOLEAN : RenderWindowArrives(c, ok)
  \/ FanOut(c) \/ RenderAnswer(c)
================================================================================
