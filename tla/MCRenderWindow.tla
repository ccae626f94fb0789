----------------------------- MODULE MCRenderWindow -----------------------------
(***************************************************************************)
(* Calls around the transitions of 2026 in three zones: Havana, whose      *)
(* clocks go forward at midnight and back to it, New York, whose clocks    *)
(* change at two, and Lord Howe Island, whose clocks change by half an     *)
(* hour.  The calendar runs from January 2025 to April 2028.               *)
(***************************************************************************)
EXTENDS RenderWindow

MCTicksPerHour == 2
MCWeekday0     == 3                 \* 1 January 2025 was a Wednesday

\* The day each month begins on.
Firsts ==
  <<0, 31, 59, 90, 120, 151, 181, 212, 243, 273, 304, 334, 365, 396,
    424, 455, 485, 516, 546, 577, 608, 638, 669, 699, 730, 761, 789, 820,
    850, 881, 911, 942, 973, 1003, 1034, 1064, 1095, 1126, 1155, 1186>>
MCFirstDay == [m \in 0..39 |-> Firsts[m + 1]]

\* A wall clock of 2026: month, day, ticks since midnight.
On(month, day, ticks) == (MCFirstDay[11 + month] + day - 1) * 48 + ticks
H(hours) == hours * 2

Havana   == [base |-> H(-5), jumps |-> {[at |-> On(3, 8, H(5)), offset |-> H(-4)],
                                        [at |-> On(11, 1, H(5)), offset |-> H(-5)]}]
NewYork  == [base |-> H(-5), jumps |-> {[at |-> On(3, 8, H(7)), offset |-> H(-4)],
                                        [at |-> On(11, 1, H(6)), offset |-> H(-5)]}]
LordHowe == [base |-> 22, jumps |-> {[at |-> On(4, 4, H(15)), offset |-> 21],
                                     [at |-> On(10, 3, 31), offset |-> 22]}]
MCZone == [utc |-> [base |-> 0, jumps |-> {}], havana |-> Havana, newYork |-> NewYork, lordHowe |-> LordHowe]

Now(math) == [is |-> "now", math |-> math]
Round(u)  == [op |-> "/", amount |-> 1, unit |-> u]
Back(n, u) == [op |-> "-", amount |-> n, unit |-> u]
Ahead(n, u) == [op |-> "+", amount |-> n, unit |-> u]

Nows == {On(3, 8, t) : t \in {H(3), H(5), H(7), H(12)}} \cup {On(11, 1, t) : t \in {H(4), H(5), H(6) + 1, H(7)}}
        \cup {On(4, 4, 29), On(4, 4, 30), On(10, 3, 31), On(7, 31, 46), On(12, 31, 47)}

Expressions ==
  {Now(<<>>), Now(<<Back(6, "h")>>), Now(<<Back(2, "m")>>), Now(<<Back(1, "d")>>), Now(<<Back(1, "M")>>),
   Now(<<Ahead(1, "d"), Round("d")>>), Now(<<Round("h")>>), Now(<<Round("d")>>), Now(<<Round("w")>>),
   Now(<<Round("M")>>), Now(<<Round("y")>>), Now(<<Back(1, "Q"), Round("Q")>>), Now(<<Round("w"), Back(7, "d")>>),
   [is |-> "wall", at |-> On(3, 8, H(0)), math |-> <<>>], [is |-> "instant", at |-> On(3, 1, 0), math |-> <<>>],
   [is |-> "wall", at |-> On(11, 1, H(0)), math |-> <<Ahead(1, "w")>>],
   [is |-> "wall", at |-> On(4, 5, 3), math |-> <<>>]}

Ends == {Now(<<>>), Now(<<Round("d")>>), Now(<<Round("w")>>), Now(<<Back(1, "M")>>), Now(<<Back(2, "m")>>)}

Broken == {[is |-> "text", math |-> <<>>], Now(<<[op |-> "/", amount |-> 2, unit |-> "d"]>>),
           Now(<<[op |-> "-", amount |-> 1, unit |-> "f"]>>)}

Given(url)     == [input |-> None, url |-> url, saved |-> None]
Saved(e)       == [input |-> None, url |-> None, saved |-> e]
Number(n, url) == [input |-> n, url |-> url, saved |-> None]

\* Every pair of expressions in one zone; every combination of tiers for a few
\* expressions; and bounds that come from elsewhere.
Plain(z) == [urlZone |-> z, savedZone |-> Unset, savedWeek |-> "monday"]
Settings == [urlZone : {Unset, Unusable, "havana"}, savedZone : {Unset, Browser, Unusable, "lordHowe"},
             savedWeek : {Unset, "monday"}]
Call(now, from, to, s) ==
  [now |-> now, from |-> from, to |-> to, urlZone |-> s.urlZone, savedZone |-> s.savedZone,
   savedWeek |-> s.savedWeek]
Some == On(3, 8, H(12))

MCRequests ==
  {Call(n, Given(e), Given(f), Plain(z)) : n \in Nows, e \in Expressions, f \in Ends, z \in {"havana", "lordHowe"}}
  \cup {Call(n, Given(e), Given(e), Plain("newYork")) : n \in Nows, e \in Expressions}
  \cup {Call(Some, Given(e), Saved(f), s) :
          e, f \in {Now(<<>>), Now(<<Back(6, "h")>>), Now(<<Round("d")>>), Now(<<Round("w")>>)}, s \in Settings}
  \cup {Call(Some, b, c, Plain("newYork")) :
          b, c \in {Given(e) : e \in Broken} \cup {Given(None), Number(On(3, 1, 5), Now(<<Round("w")>>)),
                     [input |-> None, url |-> Now(<<>>), saved |-> [is |-> "text", math |-> <<>>]]}}

MCPreferences == [zone : {Unset, Browser, Unusable, "newYork"}, week : {Unset, "saturday"}]
MCWeekStarts  == {"saturday", "sunday", "monday"}

ASSUME ZonesKeepMidnights == \A n \in DOMAIN MCZone : KeepsMidnights(MCZone[n])
================================================================================
