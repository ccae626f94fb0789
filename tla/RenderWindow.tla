------------------------------ MODULE RenderWindow ------------------------------
(***************************************************************************)
(* How a tool call finds the window it renders: resolveRenderWindow        *)
(* (src/tools/renderDashboard.ts), then enforceWindowLimit                 *)
(* (src/security/limits.ts).  Each bound comes from the call, else from    *)
(* its URL, else from the dashboard's saved range; the time zone and the   *)
(* first day of the week from the URL, the dashboard, the connection's     *)
(* preferences (src/grafana/preferences.ts), which are read only if they   *)
(* matter, or a default.                                                   *)
(***************************************************************************)
EXTENDS DateMath

CONSTANTS None, Unset, Browser, Unusable,
          Zone,             \* the zones the runtime knows, by name
          DefaultZone, DefaultWeek,
          WeekStarts,
          Requests,         \* what calls ask for
          Preferences,      \* what the user's and the org's preferences may say
          MaxLookback       \* MAX_LOOKBACK_HOURS, in ticks

Names == DOMAIN Zone

ASSUME NamesAssumption ==
  /\ DefaultZone \in Names /\ DefaultWeek \in WeekStarts
  /\ Names \cap {None, Unset, Browser, Unusable} = {}
  /\ WeekStarts \subseteq DOMAIN WeekStartDay /\ WeekStarts \cap {None, Unset} = {}
  /\ Unusable \notin {None, Unset, Browser}

\* The operators of an expression are a sequence, and the present is in the calendar
\* of every zone.
ASSUME RequestsAssumption ==
  \A r \in Requests :
    /\ \A e \in {r.from.url, r.from.saved, r.to.url, r.to.saved} \ {None} :
         e.math \in Seq([op : {"/", "+", "-"}, amount : Nat, unit : STRING])
    /\ r.now \in Int
    /\ \A n \in Names : InCalendar(DayOf(WallClock(Zone[n], r.now)))

VARIABLES stage,            \* "called", "reading", "ready", "done", "refused"
          req,              \* the call's request
          zone, zoneSource, ignored,
          week, weekSource,
          prefs,            \* the preferences as read
          window            \* [from, to], once resolved

windowVars == <<stage, req, zone, zoneSource, ignored, week, weekSource, prefs, window>>

\* A bound's winning expression, None for one given as a number.
Expr(bound) ==
  CASE bound.input # None -> None
    [] bound.input = None /\ bound.url # None -> bound.url
    [] OTHER -> bound.saved

NotGiven(bound) == bound.input = None /\ Expr(bound) = None

Exprs == {Expr(req.from), Expr(req.to)} \ {None}

NeedsZone == \E e \in Exprs : ZoneSensitive(e)
NeedsWeek == \E e \in Exprs : RoundsWeek(e)

WindowInit ==
  /\ stage = "called"
  /\ req \in Requests
  /\ zone = None /\ zoneSource = "url" /\ ignored = {}
  /\ week = None /\ weekSource = "dashboard"
  /\ prefs = None /\ window = None

\* A bound nobody gives, or an expression that does not parse, fails the call
\* before anything is read.
Refuse ==
  /\ stage = "called"
  /\ \/ NotGiven(req.from) \/ NotGiven(req.to)
     \/ \E e \in Exprs : ~Parses(e)
  /\ stage' = "refused"
  /\ UNCHANGED <<req, zone, zoneSource, ignored, week, weekSource, prefs, window>>

\* The zones of the call's tiers, in order, up to one the runtime knows; what
\* asks the client ("browser") says nothing here.
Normalized(found) == IF found \in {Unset, Browser} THEN None ELSE found
UsableZone(found) == IF Normalized(found) \in Names THEN found ELSE None
UsableWeek(found) == IF found \in WeekStarts THEN found ELSE None
Unknown(found) == {found} \cap {Unusable}

\* Without preferences, or after them, the defaults stand in.
Decided(z, source, w, wSource) ==
  /\ zone' = IF z = None THEN DefaultZone ELSE z
  /\ zoneSource' = IF z = None THEN "default" ELSE source
  /\ week' = IF w = None THEN DefaultWeek ELSE w
  /\ weekSource' = IF w = None THEN "default" ELSE wSource

Wants(z, w) == (NeedsZone /\ z = None) \/ (NeedsWeek /\ w = None)

WantsPreferences(z, w) == Wants(z, w)

Tiers ==
  /\ stage = "called"
  /\ ~NotGiven(req.from) /\ ~NotGiven(req.to) /\ \A e \in Exprs : Parses(e)
  /\ LET url    == UsableZone(req.urlZone)
         z      == IF url # None THEN url ELSE UsableZone(req.savedZone)
         source == IF url # None THEN "url" ELSE "dashboard"
         days   == UsableWeek(req.savedWeek)
     IN  /\ ignored' = Unknown(req.urlZone) \cup (IF url = None THEN Unknown(req.savedZone) ELSE {})
         /\ IF WantsPreferences(z, days)
            THEN /\ stage' = "reading"
                 /\ zone' = z /\ zoneSource' = source
                 /\ week' = days /\ weekSource' = "dashboard"
            ELSE /\ stage' = "ready"
                 /\ Decided(z, source, days, "dashboard")
  /\ UNCHANGED <<req, prefs, window>>

\* The user's preferences go before the org's, field by field; either may not be
\* readable.
Merged(user, org) ==
  [zone |-> IF user # None /\ user.zone # Unset THEN user.zone
            ELSE IF org # None THEN org.zone ELSE Unset,
   week |-> IF user # None /\ user.week # Unset THEN user.week
            ELSE IF org # None THEN org.week ELSE Unset]

\* What was read is not taken for nothing.
ASSUME PreferencesAssumption ==
  \A user, org \in Preferences \cup {None} : Merged(user, org) # None

\* The preferences arrive, those that could be read.
PreferencesArrive(user, org) ==
  /\ stage = "reading"
  /\ stage' = "ready"
  /\ prefs' = Merged(user, org)
  /\ Decided(IF zone # None THEN zone ELSE UsableZone(prefs'.zone),
             IF zone # None THEN zoneSource ELSE "preferences",
             IF week # None THEN week ELSE UsableWeek(prefs'.week),
             IF week # None THEN weekSource ELSE "preferences")
  /\ ignored' = ignored \cup (IF zone = None THEN Unknown(prefs'.zone) ELSE {})
  /\ UNCHANGED <<req, window>>

\* A bound in a zone; `to' rounds up.
Bound(bound, name, days, roundUp) ==
  IF bound.input # None THEN bound.input
  ELSE ParseTime(Zone[name], Expr(bound), req.now, days, roundUp)

\* enforceWindowLimit.
OverLimit(w) == w.to - w.from > MaxLookback \/ w.to <= w.from

\* The window is resolved and held against the limit.
Resolve ==
  /\ stage = "ready"
  /\ LET w == [from |-> Bound(req.from, zone, week, FALSE), to |-> Bound(req.to, zone, week, TRUE)]
     IN  /\ window' = w
         /\ stage' = IF OverLimit(w) THEN "refused" ELSE "done"
  /\ UNCHANGED <<req, zone, zoneSource, ignored, week, weekSource, prefs>>

WindowNext ==
  \/ Refuse
  \/ Tiers
  \/ \E user, org \in Preferences \cup {None} : PreferencesArrive(user, org)
  \/ Resolve

WindowSpec == WindowInit /\ [][WindowNext]_windowVars

--------------------------------------------------------------------------------
Resolved == stage \in {"done", "refused"} /\ window # None

\* Rounding names the period, in the zone the call settled on: the start of a
\* period is the first of its instants and its end the last, at any time of the
\* zone's transitions (StartOf, EndOf, ToInstant).  Said of zones that keep
\* midnights (KeepsMidnights); of hours it fails: HoursToo.
RoundingNamesThePeriod ==
  Resolved => \A u \in {"d", "w", "M", "Q", "y"} :
    LET days == WeekStartDay[week]
    IN  /\ IsFirst(Zone[zone], StartOf(Zone[zone], req.now, u, days), req.now, u, days)
        /\ IsLast(Zone[zone], EndOf(Zone[zone], req.now, u, days), req.now, u, days)

\* "The period's last millisecond" (Zone.endOf) is not before its first, of hours
\* either.  In an hour that is repeated when clocks are set back, the next hour is
\* an hour on, in the repetition, and rounded to the first of the two again.
HoursToo ==
  Resolved =>
    LET days == WeekStartDay[week]
    IN  StartOf(Zone[zone], req.now, "h", days) <= EndOf(Zone[zone], req.now, "h", days)

\* A zone or a week start that is not reported does not matter: any other would
\* have given the same window.
UnreportedIsIrrelevant ==
  Resolved =>
    \A n \in IF NeedsZone THEN {zone} ELSE Names, days \in IF NeedsWeek THEN {week} ELSE WeekStarts :
      window = [from |-> Bound(req.from, n, days, FALSE), to |-> Bound(req.to, n, days, TRUE)]

\* A setting and its source are the first of the tiers that is usable.
FirstOfTiers(tiers, value, source, usable) ==
  \E i \in DOMAIN tiers :
    /\ tiers[i] = [v |-> value, s |-> source] /\ value \in usable
    /\ \A j \in 1..(i - 1) : tiers[j].v \notin usable

\* Each setting is the first tier's that has one the runtime can use, the tier
\* named is the one it came from, and only an unknown zone is said to be ignored.
Tiered ==
  LET zones == <<[v |-> req.urlZone, s |-> "url"], [v |-> req.savedZone, s |-> "dashboard"],
                 [v |-> IF prefs = None THEN Unset ELSE prefs.zone, s |-> "preferences"],
                 [v |-> DefaultZone, s |-> "default"]>>
      weeks == <<[v |-> req.savedWeek, s |-> "dashboard"],
                 [v |-> IF prefs = None THEN Unset ELSE prefs.week, s |-> "preferences"],
                 [v |-> DefaultWeek, s |-> "default"]>>
  IN  /\ FirstOfTiers(zones, zone, zoneSource, Names)
      /\ FirstOfTiers(weeks, week, weekSource, WeekStarts)
      /\ NeedsZone /\ zoneSource = "default" => prefs # None
      /\ NeedsWeek /\ weekSource = "default" => prefs # None
      /\ Unusable \in ignored <=> \E i \in DOMAIN zones :
           zones[i].v = Unusable /\ \A j \in 1..i : zones[j].v \notin Names

FirstTier == Resolved => Tiered

\* The window is what the settings reported say, and nothing else: a setting that
\* is not reported would have changed nothing, one that is comes from the tier
\* named, and preferences are read before a default is settled for
\* (resolveRenderWindow, describeGrafanaTimeExpr, fetchConnectionPreferences).
SettingsAsReported == FirstTier /\ UnreportedIsIrrelevant
================================================================================
