---------------------------- MODULE SystemIntel -----------------------------
(* The portal's page about a system (httpapi/kaine_systems_intel.go): what  *)
(* the feed holds of it (store/system_intel.go), section by section and     *)
(* query by query, while messages arrive and time passes; and a reader that *)
(* turns its events page by page.  Time is in hours.                        *)
EXTENDS Integers, FiniteSets, SequencesExt

CONSTANTS
    Message,     \* messages in the order they come: system, event, schema, uploader, software,
                 \* stamp, station, goods, carrier and where it jumped to
    Asked,       \* requests: the sections, {} for all of them, hours and limit, {} for none or no number
    DefaultHours, MaxHours, DefaultLimit, MaxLimit, Day, MaxDays, AllTimeDays,
    MaxListed,   \* 100 updates or jumps in a list
    MaxPoints,   \* 5000 goods of updates
    MaxClients,  \* 20 kinds of software
    Stored,      \* how many of them have come before
    MaxTime, MaxFaults

VARIABLES clock,
          feed,      \* feed.messages: the messages that have come, each with the hour it came
          ask,       \* the request at work
          page,      \* the pages its reader has turned
          faults
vars == <<clock, feed, ask, page, faults>>

Here == "here"
Upto(n, max) == IF n > max THEN max ELSE n
HoursOf(p) == IF p = {} THEN DefaultHours ELSE Upto(CHOOSE h \in p : TRUE, MaxHours)
LimitOf(p) == IF p = {} \/ \E n \in p : n <= 0 THEN DefaultLimit ELSE Upto(CHOOSE n \in p : TRUE, MaxLimit)
DaysOf(hours) == CASE hours = 0 -> AllTimeDays
                   [] hours # 0 /\ hours < Day -> 1
                   [] OTHER -> Upto(hours \div Day, MaxDays)

\* The queries in their order, and the section each is of.
Queries == <<"current", "stats", "totals", "timeline", "carriers", "activity", "market", "commodities", "count", "events", "software">>
Wanted(q, inc) ==
    \/ inc = {}
    \/ inc \cap (CASE q = "current" -> {"overview", "current"}
                   [] q \in {"stats", "totals", "timeline"} -> {"traffic", "stats"}
                   [] q \in {"market", "commodities"} -> {"market"}
                   [] q \in {"count", "events"} -> {"events"}
                   [] OTHER -> {q}) # {}

NoPage == [seen |-> {}, first |-> {}, turned |-> 0, clean |-> TRUE]
Params(inc, hours, limit, offset) ==
    [inc |-> inc, hours |-> HoursOf(hours), limit |-> LimitOf(limit), offset |-> offset,
     pc |-> SelectSeq(Queries, LAMBDA q : Wanted(q, inc)), out |-> [q \in {} |-> {}], at |-> [q \in {} |-> 0], failed |-> {}]

Init == /\ clock = 0 /\ feed = [i \in 1 .. Stored |-> [received |-> 0] @@ Message[i]] /\ faults = 0 /\ page = NoPage
        /\ \E a \in Asked : ask = Params(a.inc, a.hours, a.limit, 0)

-----------------------------------------------------------------------------
(* The queries over a feed f                                                *)

Within(f, hours) == {i \in DOMAIN f : f[i].system = Here /\ (hours <= 0 \/ f[i].received > clock - hours)}
Stamped(f, I) == {i \in I : f[i].stamp # {}}
Stamp(f, i) == CHOOSE t \in f[i].stamp : TRUE

\* The first n rows of a query: of rows that are level any may be left out.
Foremost(S, n, By(_)) == {T \in kSubset(Upto(Cardinality(S), n), S) : \A t \in T, u \in S \ T : By(t) >= By(u)}

\* What is no journal event is named after its schema; the timeline knows fewer.
Known == {"commodity", "shipyard", "outfitting", "fsssignaldiscovered"}
Type(m, known) == IF m.event # "" THEN m.event ELSE IF m.schema \in known THEN m.schema ELSE "EDDN Event"
StatType(m) == Type(m, Known \cup {"navbeaconscan", "codexentry"})
Uploaders(f, I) == Cardinality({f[i].uploader : i \in I})

EventStats(f, hours) ==
    LET I == Within(f, hours)
    IN [total |-> Cardinality(I),
        types |-> [t \in {StatType(f[i]) : i \in I} |-> Cardinality({i \in I : StatType(f[i]) = t})],
        schemas |-> [s \in {f[i].schema : i \in I} |-> Cardinality({i \in I : f[i].schema = s})]]
EventTotals(f, hours) == LET I == Within(f, hours) IN [uploaders |-> Uploaders(f, I), stamps |-> {Stamp(f, i) : i \in Stamped(f, I)}]
Timeline(f, hours) ==
    LET I == Stamped(f, Within(f, hours))
        Of(i) == <<Stamp(f, i), Type(f[i], Known)>>
    IN [b \in {Of(i) : i \in I} |->
          [events |-> Cardinality({i \in I : Of(i) = b}), uploaders |-> Uploaders(f, {i \in I : Of(i) = b})]]

\* Jumps into the system, and those the feed has under it that led elsewhere,
\* of a carrier that is named.
CarrierJumps(f, hours) ==
    LET I == {i \in DOMAIN f : /\ f[i].schema = "journal" /\ f[i].event = "CarrierJump" /\ Here \in {f[i].system, f[i].to}
                              /\ f[i].stamp # {} /\ f[i].carrier # "" /\ (hours <= 0 \/ f[i].received > clock - hours)}
    IN {{<<i, IF f[i].to = Here THEN "arrival" ELSE "departure">> : i \in T} : T \in Foremost(I, MaxListed, LAMBDA i : Stamp(f, i))}
Activity(f, days) ==
    LET I == Stamped(f, {i \in DOMAIN f : f[i].system = Here /\ f[i].received > clock - days * Day})
    IN [h \in {Stamp(f, i) : i \in I} |-> Uploaders(f, {i \in I : Stamp(f, i) = h})]

\* The newest updates of markets, and the goods of the newest of them: neither
\* list knows where the other ends.
Updates(f, hours) == {i \in Stamped(f, Within(f, hours)) : f[i].schema = "commodity" /\ f[i].station # ""}
Markets(f, hours) == Foremost(Updates(f, hours), MaxListed, LAMBDA i : Stamp(f, i))
Goods(f, hours) ==
    LET points == UNION {{<<i, g>> : g \in f[i].goods} : i \in Updates(f, hours)}
    IN {[points |-> P, names |-> {p[2] : p \in P}] : P \in Foremost(points, MaxPoints, LAMBDA p : Stamp(f, p[1]))}

\* The kinds of software that sent most.
SoftwareStats(f, hours) ==
    LET I == Within(f, hours)
        Sent(s) == Cardinality({i \in I : f[i].software = s})
    IN {[s \in T |-> Sent(s)] : T \in Foremost({f[i].software : i \in I}, MaxClients, Sent)}

\* The newest come first; of two with one stamp either does.
Newest(f, hours) ==
    {q \in SetToSeqs(Stamped(f, Within(f, hours))) : \A i, j \in DOMAIN q : i < j => Stamp(f, q[i]) >= Stamp(f, q[j])}
HasMoreMutant(offset, shown, total) == offset + shown + 1 < total
HasMore(offset, shown, total) == offset + shown < total

-----------------------------------------------------------------------------
(* The page                                                                 *)

With(f, k, v) == [x \in DOMAIN f \cup {k} |-> IF x = k THEN v ELSE f[x]]
Asking(q) == ask.pc # <<>> /\ Head(ask.pc) = q
Gets(q, v) == /\ Asking(q) /\ ask' = [ask EXCEPT !.pc = Tail(@), !.out = With(@, q, v), !.at = With(@, q, Len(feed))]
              /\ UNCHANGED <<clock, feed, page, faults>>

ReadCurrent  == \E v \in {"absent", "told"} : Gets("current", v)
ReadStats    == Gets("stats", EventStats(feed, ask.hours))
ReadTotals   == Gets("totals", EventTotals(feed, ask.hours))
ReadTimeline == Gets("timeline", Timeline(feed, ask.hours))
ReadCarriers == \E T \in CarrierJumps(feed, ask.hours) : Gets("carriers", T)
ReadActivity == Gets("activity", Activity(feed, DaysOf(ask.hours)))
ReadMarket   == \/ \E T \in Markets(feed, ask.hours) : Gets("market", T)
                \/ \E g \in Goods(feed, ask.hours) : Gets("commodities", g)
ReadSoftware == \E t \in SoftwareStats(feed, ask.hours) : Gets("software", t)
CountEvents  == Gets("count", Stamped(feed, Within(feed, ask.hours)))

\* GetRecentEvents: the count was taken before.
ReadEvents ==
    /\ Asking("events")
    /\ \E q \in Newest(feed, ask.hours) :
          LET shown == SubSeq(q, ask.offset + 1, Upto(ask.offset + ask.limit, Len(q)))
              counted == ask.out["count"]
          IN /\ ask' = [ask EXCEPT !.pc = Tail(@), !.at = With(@, "events", Len(feed)),
                           !.out = With(@, "events", [shown |-> shown, more |-> HasMore(ask.offset, Len(shown), Cardinality(counted))])]
             /\ page' = [seen |-> page.seen \cup ToSet(shown), turned |-> page.turned + 1,
                         first |-> IF page.turned = 0 THEN counted ELSE page.first,
                         clean |-> page.clean /\ ask.at["count"] = Len(feed)]
    /\ UNCHANGED <<clock, feed, faults>>

\* A section whose query fails is left out, with the other half of it.
Halves(q) == CASE q \in {"stats", "totals"} -> {"stats", "totals"}
               [] q \in {"count", "events"} -> {"count", "events"}
               [] OTHER -> {q}
QueryFails ==
    /\ ask.pc # <<>> /\ faults < MaxFaults /\ faults' = faults + 1
    /\ LET lost == Halves(Head(ask.pc))
       IN ask' = [ask EXCEPT !.pc = SelectSeq(@, LAMBDA q : q \notin lost), !.failed = @ \cup lost,
                             !.out = [q \in DOMAIN @ \ lost |-> @[q]]]
    /\ UNCHANGED <<clock, feed, page>>

\* The reader asks for the next page while there is more.
Answered == ask.pc = <<>>
More == Answered /\ "events" \in DOMAIN ask.out /\ ask.out["events"].more
TurnPage ==
    /\ More /\ ask.inc = {"events"}
    /\ ask' = [Params(ask.inc, {}, {}, ask.offset + ask.limit) EXCEPT !.hours = ask.hours, !.limit = ask.limit]
    /\ UNCHANGED <<clock, feed, page, faults>>

\* The listener stores a message; time passes.
Arrive == /\ Len(feed) < Len(Message) /\ (~Answered \/ More)
          /\ feed' = Append(feed, [received |-> clock] @@ Message[Len(feed) + 1])
          /\ UNCHANGED <<clock, ask, page, faults>>
Pass == clock < MaxTime /\ (~Answered \/ More) /\ clock' = clock + 1 /\ UNCHANGED <<feed, ask, page, faults>>

Next == \/ ReadCurrent \/ ReadStats \/ ReadTotals \/ ReadTimeline \/ ReadCarriers \/ ReadActivity \/ ReadMarket \/ ReadSoftware
        \/ CountEvents \/ ReadEvents \/ QueryFails \/ TurnPage \/ Arrive \/ Pass
Spec == Init /\ [][Next]_vars

-----------------------------------------------------------------------------

TypeOK == /\ clock \in 0 .. MaxTime /\ faults \in 0 .. MaxFaults /\ DOMAIN ask.at \subseteq ToSet(Queries)
          /\ \A i \in DOMAIN feed : feed[i].received \in 0 .. clock
          /\ ask.hours <= MaxHours /\ ask.limit \in 1 .. MaxLimit /\ ask.offset >= 0

\* kaine_systems_intel.go:91: what is asked for is told unless its own query
\* fails, and nothing else is.
SectionsTold ==
    Answered => /\ DOMAIN ask.out \cap ask.failed = {}
                /\ DOMAIN ask.out \cup ask.failed = {q \in ToSet(Queries) : Wanted(q, ask.inc)}

\* system_intel.go:142, :251, :404, :619, :687: an event is counted once in
\* every breakdown, and a later query of all time misses none, by what it sends
\* no more than by when, while the kinds of software fit in their list.  Goods
\* of a listed update are left out only at the limit of the points, for those
\* of updates at least as new; and the points are of listed updates, of those
\* that came since or of those no newer than any listed, at the list's limit.
Sum(f) == MapThenSumSet(LAMBDA x : f[x], DOMAIN f)
StatsAddUp ==
    /\ "stats" \in DOMAIN ask.out =>
         LET s == ask.out["stats"] IN s.total = Sum(s.types) /\ s.total = Sum(s.schemas)
    /\ {"stats", "timeline"} \subseteq DOMAIN ask.out /\ ask.hours <= 0 =>
         LET b == ask.out["timeline"]
             unstamped == Cardinality({i \in 1 .. ask.at["timeline"] : feed[i].system = Here /\ feed[i].stamp = {}})
         IN MapThenSumSet(LAMBDA x : b[x].events, DOMAIN b) + unstamped >= ask.out["stats"].total
    /\ {"stats", "software"} \subseteq DOMAIN ask.out /\ ask.hours <= 0 =>
         LET s == ask.out["software"] IN Cardinality(DOMAIN s) < MaxClients => Sum(s) >= ask.out["stats"].total
    /\ {"market", "commodities"} \subseteq DOMAIN ask.out /\ ask.hours <= 0 =>
         LET listed == ask.out["market"]
             told   == ask.out["commodities"].points
             NoOlder(I, i) == \A j \in I : Stamp(feed, j) >= Stamp(feed, i)
         IN /\ \A i \in listed : \A g \in feed[i].goods :
                 <<i, g>> \in told \/ (Cardinality(told) = MaxPoints /\ NoOlder({p[1] : p \in told}, i))
            /\ \A p \in told : p[1] \in listed \/ p[1] > ask.at["market"]
                               \/ (Cardinality(listed) = MaxListed /\ NoOlder(listed, p[1]))

\* system_intel.go:448: a reader that turns the pages of all time until there
\* are no more has seen every event that was there at the first and bears a
\* stamp of its own, unless one came between the count and the list of a page.
PagesWhole ==
    Answered /\ ~More /\ "events" \in DOMAIN ask.out /\ ask.inc = {"events"} /\ ask.hours <= 0 /\ page.clean =>
      \A i \in page.first : i \in page.seen \/ \E j \in Within(feed, 0) \ {i} : feed[j].stamp = feed[i].stamp
=============================================================================
