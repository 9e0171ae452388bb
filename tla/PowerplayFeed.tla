---------------------------- MODULE PowerplayFeed ---------------------------
(* What is made of the EDDN feed: the week a moment belongs to, the cycle    *)
(* tool's answer and its comparison with the week before, and the standings  *)
(* of the powers with their state counts and the gap between the first two.  *)
(*                                                                          *)
(* Source: internal/store/powerplay_cycle.go, internal/store/merit_race.go,  *)
(* internal/tools/tools_galaxy_powerplay_cycle.go, internal/httpapi/server.go*)
(*                                                                          *)
(* Time is counted in parts of a day; day 0 is a Sunday.  A message is a     *)
(* jump seen in a system with a controlling power; its reinforcement may be  *)
(* missing, and stands for the undermining, which is treated alike.  Rates   *)
(* share one denominator, so they are compared as the deltas they are of.    *)
EXTENDS Integers, FiniteSets, Sequences, FiniteSetsExt

CONSTANTS Day, Hour, Safe, Epoch,   \* parts of a day, the tick's, 90 minutes, the first tick
          System, Power, Sighting,  \* [system, power, reinf], what a message may tell
          Times, Asked, MaxMessages, MaxRequests \* bounds

VARIABLES now,      \* the clock
          feed,     \* feed.messages: Sighting with its time
          tool,     \* the cycle tool's request
          asked     \* how many there have been

vars == <<now, feed, tool, asked>>

Week == 7 * Day
Thursday == 4
Opt(S) == {{}} \cup {{x} : x \in S}
Idle == [pc |-> "idle", cycle |-> 0, compare |-> FALSE, began |-> 0, cur |-> {}, prev |-> {}, curAt |-> 0, prevAt |-> 0]

-----------------------------------------------------------------------------
(* Weeks.                                                                    *)

\* GetCurrentCycleStart: the last Thursday's tick, by the day of the week.
CycleStart(n) ==
    LET tick  == Day * (n \div Day) + Hour
        since == (((n \div Day) % 7) - Thursday) % 7
    IN  tick - Day * (IF since = 0 /\ n < tick THEN 7 ELSE since)

\* GetCycleBoundaries: the current week ends now.
Boundaries(n, offset) ==
    [from |-> CycleStart(n) + offset * Week,
     to   |-> IF offset = 0 THEN n ELSE CycleStart(n) + (offset + 1) * Week]

\* calculateCurrentTick: the week counted from the epoch, towards it.
TickNumber(n) == IF n >= Epoch THEN (n - Epoch) \div Week ELSE -((Epoch - n) \div Week)
TickStart(n)  == Epoch + Week * TickNumber(n)

\* GetCycleForTime.
CycleOf(event, n) ==
    IF event >= CycleStart(n) THEN 0 ELSE -((CycleStart(n) - event) \div Week + 1)

-----------------------------------------------------------------------------
(* GetPowerplayCycleData.                                                    *)

InCycleMutant(s, n, offset) ==
    {m \in feed : m.system = s /\ m.t >= Boundaries(n, offset).from /\ m.t < Boundaries(n, offset).to}

\* cycle_data: the first minutes after a tick are left out.
InCycle(s, n, offset) ==
    {m \in feed : m.system = s /\ m.t >= Boundaries(n, offset).from + Safe /\ m.t < Boundaries(n, offset).to}

\* aggregated: of two messages of one moment either may be the last.
Aggregates(M) ==
    LET told == {m \in M : m.reinf # {}}
        Value(m) == CHOOSE v \in m.reinf : TRUE
    IN  {[max |-> Max({Value(m) : m \in told}), start |-> Value(a), end |-> Value(b), count |-> Cardinality(M),
          from |-> Min({m.t : m \in M}), to |-> Max({m.t : m \in M})] :
         a \in {x \in told : \A y \in told : x.t <= y.t}, b \in {x \in told : \A y \in told : x.t >= y.t}}

\* A system without a value has MAX = NULL, which does not scan: the query fails.
CycleData(n, offset) ==
    LET seen == {s \in System : InCycle(s, n, offset) # {}}
    IN  {[start |-> Boundaries(n, offset).from, rows |-> f] :
         f \in {g \in [seen -> UNION {Aggregates(InCycle(s, n, offset)) : s \in seen}] :
                \A s \in seen : g[s] \in Aggregates(InCycle(s, n, offset))}}

-----------------------------------------------------------------------------
(* The tool reads the clock once for its answer and once in every query.     *)

Init == now \in Times /\ feed = {} /\ tool = Idle /\ asked = 0

Arrive ==
    /\ Cardinality(feed) < MaxMessages
    /\ \E x \in Sighting : feed' = feed \cup {[t |-> now, system |-> x.system, power |-> x.power, reinf |-> x.reinf]}
    /\ UNCHANGED <<now, tool, asked>>

Pass ==
    /\ \E t \in Times : t > now /\ now' = t
    /\ UNCHANGED <<feed, tool, asked>>

\* galaxyPowerplayCycle: what is asked is brought into -8..0.
Begin ==
    /\ tool.pc = "idle" /\ asked < MaxRequests
    /\ \E c \in Asked, b \in BOOLEAN :
         tool' = [Idle EXCEPT !.pc = "current", !.began = now, !.compare = b,
                              !.cycle = IF c > 0 THEN 0 ELSE IF c < -8 THEN -8 ELSE c]
    /\ asked' = asked + 1
    /\ UNCHANGED <<now, feed>>

ReadCycle ==
    /\ tool.pc = "current"
    /\ tool' \in {[tool EXCEPT !.cur = {d}, !.curAt = now,
                               !.pc = IF tool.compare /\ tool.cycle = 0 THEN "previous" ELSE "answer"] :
                   d \in CycleData(now, tool.cycle)} \cup {Idle}
    /\ UNCHANGED <<now, feed, asked>>

\* A comparison that cannot be read is left out of the answer.
ReadPrevious ==
    /\ tool.pc = "previous"
    /\ tool' \in {[tool EXCEPT !.prev = {d}, !.prevAt = now, !.pc = "answer"] : d \in CycleData(now, -1)}
                 \cup {[tool EXCEPT !.pc = "answer"]}
    /\ UNCHANGED <<now, feed, asked>>

Answer == tool.pc = "answer" /\ tool' = Idle /\ UNCHANGED <<now, feed, asked>>

Next == Arrive \/ Pass \/ Begin \/ ReadCycle \/ ReadPrevious \/ Answer
Spec == Init /\ [][Next]_vars

\* calculateCycleDeltas: the systems of both weeks.
Delta(s, p, q) == [system |-> s, before |-> q.rows[s], after |-> p.rows[s], change |-> p.rows[s].end - q.rows[s].end,
                   weeks |-> <<q.start, p.start>>]
Deltas == UNION {{Delta(s, p, q) : s \in (DOMAIN p.rows) \cap (DOMAIN q.rows)} : p \in tool.cur, q \in tool.prev}

-----------------------------------------------------------------------------
(* GetPowerStandingData, at the present moment.                              *)

\* bucketed_data: the messages of a bucket, those before the cutoff left out.
Bucket(t, width) == width * (t \div width)
Seen(b, p, width, hours) == {m \in feed : m.t >= now - hours /\ m.power = p /\ Bucket(m.t, width) = b}
SystemsIn(M) == {m.system : m \in M}

\* The largest value of each system, none counting as 0, added up by power.
Highest(M, s) == Max({0} \cup UNION {m.reinf : m \in {x \in M : x.system = s}})
Total(M) == MapThenSumSet(LAMBDA s : Highest(M, s), SystemsIn(M))

BucketsOf(p, width, hours) == {b \in {Bucket(m.t, width) : m \in feed} : Seen(b, p, width, hours) # {}}

\* calculatePowerSummaries: from the first to the last bucket a power is in.
Summary(width, hours) ==
    LET powers == {p \in Power : BucketsOf(p, width, hours) # {}}
        First(p) == Seen(Min(BucketsOf(p, width, hours)), p, width, hours)
        Last(p) == Seen(Max(BucketsOf(p, width, hours)), p, width, hours)
    IN  [p \in powers |-> [current |-> Total(Last(p)), first |-> Total(First(p)),
                           delta |-> Total(Last(p)) - Total(First(p)),
                           last |-> Max(BucketsOf(p, width, hours)),
                           systems |-> Cardinality(SystemsIn(Last(p))), states |-> <<>>, reinf |-> 0]]

\* normalisePowerplayState.
Label(row) ==
    IF row.expansion \/ row.state = "unoccupied" THEN "expansion"
    ELSE IF row.state \in {"contested", "exploited", "fortified", "stronghold", "homesystem", "controlled"}
    THEN row.state ELSE ""

\* incrementStateCount's occasions: contested systems count for every power in them.
Claims(row) ==
    IF Label(row) = "" THEN {}
    ELSE IF Label(row) \in {"expansion", "contested"} THEN row.powers \ {""}
    ELSE row.power \ {""}

\* applyCurrentStateSummaries: a power the feed has not shown is added.
WithCurrentState(summary, rows) ==
    LET counted == UNION {Claims(r) : r \in rows}
        Labels(p) == {Label(r) : r \in {x \in rows : p \in Claims(x)}}
        Held(p) == {r \in rows : p \in Claims(r) /\ Label(r) \notin {"expansion", "contested"}}
        Old(p) == IF p \in DOMAIN summary THEN summary[p]
                  ELSE [current |-> 0, first |-> 0, delta |-> 0, last |-> 0, systems |-> 0, states |-> <<>>, reinf |-> 0]
    IN  [p \in DOMAIN summary \cup counted |->
         IF p \notin counted THEN summary[p]
         ELSE [Old(p) EXCEPT !.states = [l \in Labels(p) |-> Cardinality({r \in rows : p \in Claims(r) /\ Label(r) = l})],
                             !.reinf = MapThenSumSet(LAMBDA r : r.reinf, Held(p))]]

\* calculateGapAnalysis: powers with one total come in any order.
Gaps(summary) ==
    LET Ahead(p, q) == summary[p].current >= summary[q].current
        Pairs == {x \in (DOMAIN summary) \X (DOMAIN summary) :
                  x[1] # x[2] /\ \A r \in DOMAIN summary : Ahead(x[1], r) /\ (r # x[1] => Ahead(x[2], r))}
    IN  {[leader |-> x[1], second |-> x[2], gap |-> summary[x[1]].current - summary[x[2]].current,
          closing |-> summary[x[2]].delta > summary[x[1]].delta /\ summary[x[1]].current > summary[x[2]].current] : x \in Pairs}
-----------------------------------------------------------------------------

\* Types.
TypeOK ==
    /\ now \in Times /\ asked \in 0 .. MaxRequests
    /\ \A m \in feed : m.t \in Times /\ m.t <= now /\ m.system \in System /\ m.power \in Power
    /\ tool.pc \in {"idle", "current", "previous", "answer"} /\ tool.cycle \in -8 .. 0
    /\ \A d \in tool.cur \cup tool.prev : DOMAIN d.rows \subseteq System

\* powerplay_cycle.go:35, server.go:1004: the week found by the day of the week
\* and the week counted from the epoch are one, and hold the moment; before
\* the epoch the count stops short and does not.
WeeksAgree ==
    \A n \in 0 .. now :
        /\ CycleStart(n) <= n /\ n < CycleStart(n) + Week
        /\ n >= Epoch => TickStart(n) = CycleStart(n)

\* powerplay_cycle.go:83: the week a moment is said to belong to holds it, but
\* for a moment at which a week begins: that is counted to the week before.
CycleHolds ==
    \A e \in 0 .. now :
        LET b == Boundaries(now, CycleOf(e, now))
        IN  IF e < CycleStart(now) /\ (CycleStart(now) - e) % Week = 0 THEN e = b.to
            ELSE b.from <= e /\ e <= b.to

\* tools_galaxy_powerplay_cycle.go:53, :57, :80: unless a week begins while the
\* tool is at work, it answers with the week it names, and compares that with
\* another; no value in its answer was seen before the tick and 90 minutes.
WeekCompared ==
    tool.pc = "answer" =>
        /\ \A d \in tool.cur \cup tool.prev : \A s \in DOMAIN d.rows :
             d.rows[s].from >= d.start + Safe /\ d.rows[s].to < d.start + Week
        /\ CycleStart(tool.began) = CycleStart(tool.curAt) =>
             \A d \in tool.cur : d.start = Boundaries(tool.began, tool.cycle).from
        /\ CycleStart(tool.curAt) = CycleStart(tool.prevAt) =>
             \A x \in Deltas : x.weeks[2] = x.weeks[1] + Week

\* merit_race.go:180, :360: whatever the buckets, a power's total is never more
\* than what its systems have shown, its systems are those of the bucket the
\* total is from, and it has a total when the feed shows it.
StandingsTell ==
    \A w \in {1, Day} : \A h \in {Day, Week} :
        LET S == Summary(w, h)
            Recent(p) == {m \in feed : m.power = p /\ m.t >= now - h}
        IN  /\ DOMAIN S = {p \in Power : Recent(p) # {}}
            /\ \A p \in DOMAIN S :
                 /\ S[p].current <= MapThenSumSet(LAMBDA s : Highest(Recent(p), s), System)
                 /\ S[p].systems = Cardinality({m.system : m \in {x \in Recent(p) : x.t >= S[p].last}})

\* merit_race.go:422: the first two are ahead of all others, also when powers
\* that only the current state knows are among them.
GapLeads(rows) ==
    LET S == WithCurrentState(Summary(1, Week), rows)
    IN  /\ (Gaps(S) = {}) = (Cardinality(DOMAIN S) < 2)
        /\ \A g \in Gaps(S) : \A p \in DOMAIN S \ {g.leader} :
             g.gap >= 0 /\ S[p].current <= S[g.leader].current - g.gap

\* merit_race.go:261: every system is counted once for each power that has a
\* claim to it, and the reinforcement of held systems is counted once in all.
StatesAddUp(rows) ==
    LET S == WithCurrentState(Summary(1, Week), rows)
        Counted(p) == MapThenSumSet(LAMBDA l : S[p].states[l], DOMAIN S[p].states)
    IN  /\ MapThenSumSet(Counted, DOMAIN S) = MapThenSumSet(LAMBDA r : Cardinality(Claims(r)), rows)
        /\ MapThenSumSet(LAMBDA p : S[p].reinf, DOMAIN S)
             = MapThenSumSet(LAMBDA r : IF Label(r) \in {"", "expansion", "contested"} THEN 0
                                        ELSE Cardinality(r.power \ {""}) * r.reinf, rows)
=============================================================================
