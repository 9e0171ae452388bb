---------------------------- MODULE GalaxyHistory ---------------------------
(* What is told of the past and the present of a few systems: the hourly    *)
(* history and that of a conflict, a power's days for the history tool, the *)
(* community goal's page with its fallback, Inara's links and the state of  *)
(* the caches.  The listener writes meanwhile.                              *)
(*                                                                          *)
(* Source: internal/store/cache.go, internal/httpapi/server.go,             *)
(* internal/tools/tools_galaxy_history.go                                   *)
EXTENDS Integers, FiniteSets, SequencesExt

CONSTANTS
    Goal,       \* cgSystems
    Hourly,     \* feed.powerplay_hourly: [system, hour, seen, power, reinf, under, conflict, obs], told from "seen" on
    Looks,      \* moment by moment: galaxy, current, links and feeds
    Asks,       \* [what, of, span]
    DefaultHours, ConflictHours, MaxHours, DefaultDays, MaxDays, MaxNames, Day

VARIABLES now, req
vars == <<now, req>>

Clock == DOMAIN Looks
Look  == Looks[now]
MaxOf(S) == CHOOSE x \in S : \A y \in S : y <= x
SumOver(S, Of(_)) == FoldSet(LAMBDA x, n : Of(x) + n, 0, S)

-----------------------------------------------------------------------------
(* The hours                                                                *)

\* An hour's row as it stands: it is written anew while the hour goes on.
Rows == {r \in Hourly : r.seen <= now /\ ~\E n \in Hourly : /\ n.system = r.system /\ n.hour = r.hour
                                                          /\ r.seen < n.seen /\ n.seen <= now}

\* handleEDINSystemHistory: what is not a positive number is not looked at.
Hours(what, asked) ==
    LET given == {h \in asked : h > 0}
    IN IF given = {} THEN IF what = "conflict" THEN ConflictHours ELSE DefaultHours
       ELSE CHOOSE h \in {MaxHours} \cup given : \A o \in {MaxHours} \cup given : h <= o

Within(system, hours) == {r \in Rows : r.system = system /\ r.hour >= now - hours}
ByHour(S) == SetToSortSeq(S, LAMBDA x, y : x.hour < y.hour)
Zero(v) == IF v = {} THEN 0 ELSE CHOOSE x \in v : TRUE

\* The entries of a conflict; of two of one power the later counts.
Progress(entries) ==
    [p \in {e[1] : e \in Range(entries)} |->
       entries[MaxOf({i \in DOMAIN entries : entries[i][1] = p})][2]]
Told(r) == UNION {IF c.ok /\ c.entries # <<>> THEN {Progress(c.entries)} ELSE {} : c \in r.conflict}

\* GetSystemHistory
Point(r) == [hour |-> r.hour, reinf |-> Zero(r.reinf), under |-> Zero(r.under), power |-> r.power, conflict |-> Told(r)]
Points(system, hours) == [i \in 1 .. Cardinality(Within(system, hours)) |-> Point(ByHour(Within(system, hours))[i])]

\* GetExpansionHistory: hours whose entries say something and can be read.
ConflictsMutant(system, hours) ==
    LET S == {r \in Within(system, hours) : r.conflict # {}}
    IN [i \in 1 .. Cardinality(S) |-> [hour |-> ByHour(S)[i].hour, conflict |-> Told(ByHour(S)[i])]]
Conflicts(system, hours) ==
    LET S == {r \in Within(system, hours) : Told(r) # {}}
    IN [i \in 1 .. Cardinality(S) |-> [hour |-> ByHour(S)[i].hour, conflict |-> Told(ByHour(S)[i])]]

\* GetPowerplayHistory: the hours under a power, day by day, the last day
\* first.  A day without any value of one of the two makes its MAX NULL,
\* which does not scan.
Days(asked) == IF asked = {} \/ \E d \in asked : d <= 0 THEN DefaultDays
               ELSE IF \E d \in asked : d > MaxDays THEN MaxDays ELSE CHOOSE d \in asked : TRUE
Ruled(system, days) == {r \in Within(system, days * Day) : r.power # ""}
DayOf(r) == r.hour \div Day
OfDay(S, d) == {r \in S : DayOf(r) = d}
Unread(S) == \E d \in {DayOf(r) : r \in S} : \/ \A r \in OfDay(S, d) : r.reinf = {}
                                           \/ \A r \in OfDay(S, d) : r.under = {}
DayRow(S, d) == [day |-> d, reinf |-> MaxOf(UNION {r.reinf : r \in OfDay(S, d)}), under |-> MaxOf(UNION {r.under : r \in OfDay(S, d)}),
                 power |-> (CHOOSE r \in OfDay(S, d) : \A o \in OfDay(S, d) : o.hour <= r.hour).power,
                 obs |-> SumOver(OfDay(S, d), LAMBDA r : r.obs)]
Daily(system, days) == LET S == Ruled(system, days)
                       IN SetToSortSeq({DayRow(S, d) : d \in {DayOf(r) : r \in S}}, LAMBDA x, y : x.day > y.day)

-----------------------------------------------------------------------------
(* The present                                                              *)

\* powerplaySystemMap, and a row of current_state.
GalaxyRow(g) == [system |-> g.system, updated |-> g.updated, from |-> "galaxy"]
StateRow(c)  == [system |-> c.system, updated |-> {c.updated}, from |-> "current"]
Latest(S) == IF S = {} THEN 0 ELSE MaxOf(S)
GalaxyPage(S) == [rows |-> {GalaxyRow(g) : g \in S}, last |-> Latest(UNION {g.updated : g \in S})]
\* GetAllCurrentState is asked for every system; the time is that of them all.
StatePage(S) == [rows |-> {StateRow(c) : c \in {c \in S : c.system \in Goal}}, last |-> Latest({c.updated : c \in S})]

\* GetAllInaraLinks: the link last scraped that has an id.
Links == {l \in Look.links : l.id > 0 /\ \A o \in Look.links : o.system = l.system /\ o.id > 0 => o.scraped <= l.scraped}
GoalLinks == {[system |-> l.system, id |-> l.id] : l \in {l \in Links : l.system \in Goal}}

-----------------------------------------------------------------------------
(* Requests                                                                 *)

Plan(what) == CASE what = "goal" -> <<"galaxy", "current">>
                [] what = "status" -> <<"refreshed", "systems", "updates", "kept", "scraped", "scrapes">>
                [] OTHER -> <<what>>
Empty == [q \in {} |-> {}]
Begin(a) == [what |-> a.what, of |-> a.of, span |-> a.span, pc |-> Plan(a.what), began |-> now, at |-> now, out |-> Empty, status |-> "asked"]
Init == now = 1 /\ \E a \in Asks : req = Begin(a)

Asking(q) == req.pc # <<>> /\ Head(req.pc) = q /\ UNCHANGED now
Put(q, v) == [x \in DOMAIN req.out \cup {q} |-> IF x = q THEN v ELSE req.out[x]]
Answer(v) == req' = [req EXCEPT !.pc = <<>>, !.at = now, !.out = Put(req.what, v), !.status = "answered"]
Refuse == req' = [req EXCEPT !.pc = <<>>, !.status = "error"]

ReadHistory  == Asking("history")  /\ (Answer(Points(req.of, Hours("history", req.span))) \/ Refuse)
ReadConflict == Asking("conflict") /\ (Answer(Conflicts(req.of, Hours("conflict", req.span))) \/ Refuse)

\* galaxyHistory: the first MaxNames names that are not blank, each name's days
\* for as often as it is named.
Named ==
    LET names == SelectSeq(req.of, LAMBDA n : n # "")
    IN SubSeq(names, 1, IF Len(names) > MaxNames THEN MaxNames ELSE Len(names))
ReadDays ==
    LET names == Named
        days == Days(req.span)
        told == [i \in DOMAIN names |-> Daily(names[i], days)]
        Total(i) == FoldLeft(LAMBDA n, x : n + x.obs, 0, told[i])
    IN /\ Asking("days")
       /\ IF names = <<>> \/ \E n \in Range(names) : Unread(Ruled(n, days)) THEN Refuse
          ELSE \/ Answer([names |-> names, told |-> told, total |-> SumOver(DOMAIN names, Total)])
               \/ Refuse

\* handleHIPThunderdome: current_state when galaxy.* cannot be read or is empty.
ReadGalaxy ==
    /\ Asking("galaxy")
    /\ LET S == {g \in Look.galaxy : g.system \in Goal}
       IN \/ S # {} /\ Answer(GalaxyPage(S))
          \/ req' = [req EXCEPT !.pc = Tail(@)]
ReadCurrent == Asking("current") /\ (Answer(StatePage(Look.current)) \/ Refuse)

ReadLinks == Asking("links") /\ (Answer(GoalLinks) \/ Refuse)

\* GetStatus: a query that fails leaves its number at zero.
Number(q) == CASE q = "refreshed" -> Latest({c.updated : c \in Look.current})
               [] q = "systems"   -> Cardinality(Look.current)
               [] q = "updates"   -> SumOver(Look.current, LAMBDA c : c.count)
               [] q = "kept"      -> Look.kept
               [] q = "scraped"   -> Latest({l.scraped : l \in Look.links})
               [] q = "scrapes"   -> Cardinality({l.system : l \in Look.links})
ReadNumber ==
    \E q \in Range(Plan("status")), n \in {TRUE, FALSE} :
      /\ Asking(q)
      /\ LET v == IF n THEN Number(q) ELSE 0
         IN req' = [req EXCEPT !.pc = Tail(@), !.at = now, !.out = Put(q, v), !.status = IF Len(req.pc) = 1 THEN "answered" ELSE @]

\* The listener writes and the hours pass.
Pass == now < Len(Looks) /\ now' = now + 1 /\ UNCHANGED req

Next == ReadHistory \/ ReadConflict \/ ReadDays \/ ReadGalaxy \/ ReadCurrent \/ ReadLinks \/ ReadNumber \/ Pass
Spec == Init /\ [][Next]_vars

-----------------------------------------------------------------------------
Answered(what) == req.what = what /\ req.status = "answered"
Out == req.out[req.what]

\* Types.
TypeOK == now \in Clock /\ req.at \in Clock /\ req.status \in {"asked", "answered", "error"}
          /\ (req.status # "asked") = (req.pc = <<>>) /\ (Answered("goal") => Out.last \in Nat)

\* cache.go:570, :651: the history of a conflict is what the history of the same
\* hours tells of it: no hour twice, none in one that the other leaves out.
HistoriesAgree ==
    (Answered("conflict") /\ now = req.at) =>
        LET all == Points(req.of, Hours("conflict", req.span))
        IN /\ \A i \in DOMAIN Out : \A j \in DOMAIN Out : i < j => Out[i].hour < Out[j].hour
           /\ {[hour |-> x.hour, conflict |-> x.conflict] : x \in {x \in Range(all) : x.conflict # {}}} = Range(Out)

\* cache.go:895: a day is told once, with the highest of each of what the history
\* tells of its hours under a power, and no observation is counted twice, unless a
\* system is named twice.
DaysAddUp ==
    (Answered("days") /\ now = req.at) =>
        LET S(n) == {x \in Range(Points(n, Days(req.span) * Day)) : x.power # ""}
        IN /\ \A i \in DOMAIN Out.names : LET told == Out.told[i] IN
                /\ \A j, k \in DOMAIN told : j < k => told[k].day < told[j].day
                /\ {d.day : d \in Range(told)} = {x.hour \div Day : x \in S(Out.names[i])}
                /\ \A d \in Range(told) :
                     LET hours == {x \in S(Out.names[i]) : x.hour \div Day = d.day}
                     IN d.reinf = MaxOf({x.reinf : x \in hours}) /\ d.under = MaxOf({x.under : x \in hours})
           /\ IsInjective(Out.names) => Out.total = SumOver({r \in Rows : r.system \in Range(Out.names) /\ r.power # ""
                                                                     /\ r.hour >= now - Days(req.span) * Day}, LAMBDA r : r.obs)

\* server.go:1033: the goal's page holds its systems only, each once, from one
\* of its two sources, and says of none that it changed after the last change.
GoalOnce ==
    Answered("goal") => /\ \A r \in Out.rows : r.system \in Goal /\ \A t \in r.updated : t <= Out.last
                        /\ \A r, o \in Out.rows : r.from = o.from /\ (r.system = o.system => r = o)
                        /\ \A g \in Looks[req.at].galaxy : (g.system \in Goal /\ \E r \in Out.rows : r.from = "galaxy") =>
                              \E r \in Out.rows : r.system = g.system
LinksOnce == Answered("links") => \A l, o \in Out : l.system = o.system => l = o

\* cache.go:851: read one after another, the numbers are of no one moment; but
\* while nothing is deleted each lies between the first moment's and the last's.
StatusBetween ==
    Answered("status") => /\ req.out["systems"] <= Cardinality(Looks[req.at].current)
                          /\ req.out["refreshed"] <= Latest({c.updated : c \in Looks[req.at].current})
                          /\ req.out["refreshed"] # 0 => req.out["refreshed"] >= Latest({c.updated : c \in Looks[req.began].current})
                          /\ req.out["updates"] # 0 => req.out["updates"] >= SumOver(Looks[req.began].current, LAMBDA c : c.count)
=============================================================================
