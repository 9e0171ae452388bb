------------------------------ MODULE MCGalaxy ------------------------------
(* Instances of PowerplayFeed, StandingsCache, PageCache, SpanshClient,     *)
(* MiningSearch, Survey, GalaxyReads, GalaxyHistory, SystemIntel and        *)
(* ExpansionTools for TLC.  They share no state, so a behaviour is of one   *)
(* of them; of the feed either the cycle tool or the standings are looked   *)
(* at.                                                                      *)
EXTENDS PageCache, Sequences, FiniteSetsExt, TLC

CONSTANTS Request,
    Batch, BatchSize, Wait, Attempts, FleetAttempts, FleetDelay, MaxBatchTime \* of SpanshClient

\* client.go:20-23, server.go:782: every call is polled at least once.
ASSUME BatchAssumption ==
    /\ Batch \in Seq([op : STRING, given : SUBSET STRING]) /\ BatchSize \in Nat /\ Wait \in Nat
    /\ Attempts \in Nat \ {0} /\ FleetAttempts \in Nat \ {0} /\ FleetDelay \in Nat /\ MaxBatchTime \in Nat

VARIABLES part,
    instant, feed, tool, asked,
    standings, req,
    last, holder, worker, job, sent, gone, results, answered,
    ruled, moods, market, search, seen, changes,
    galaxy, work,
    moment, call,
    inbox, ask, turned,
    age, query,
    hour, errand

feedVars   == <<instant, feed, tool, asked>>
cacheVars  == <<standings, req>>
pageVars   == <<power, loop, shown, failed>>
spanshVars == <<last, holder, worker, job, sent, gone, results, answered>>
searchVars == <<ruled, moods, market, search>>
surveyVars == <<galaxy, work>>
readVars   == <<moment, call>>
intelVars  == <<inbox, ask, turned>>
pastVars   == <<age, query>>
reachVars  == <<hour, errand>>

\* Hours: the last before a tick, the tick's, the next, and a week's around.
Moments == {23, 24, 25, 38, 39}
Cycles  == {-1, 0, 1}
Sights  == {[system |-> "a", power |-> "P", reinf |-> {1}], [system |-> "a", power |-> "Q", reinf |-> {}],
            [system |-> "b", power |-> "P", reinf |-> {2}], [system |-> "b", power |-> "Q", reinf |-> {3}]}

Row(s, x, c, p, v) == [state |-> s, expansion |-> x, power |-> c, powers |-> p, reinf |-> v]
RowSets == {{},
            {Row("stronghold", FALSE, {"P"}, {"P"}, 4), Row("unoccupied", FALSE, {}, {"P", "R"}, 2)},
            {Row("contested", FALSE, {"Q"}, {"P", "Q"}, 1), Row("exploited", FALSE, {}, {"Q"}, 1),
             Row("fortified", TRUE, {}, {"R"}, 2), Row("fortified", FALSE, {"Q"}, {}, 3)},
            {Row("odd", FALSE, {"P"}, {"P"}, 5), Row("controlled", FALSE, {"R"}, {"R"}, 1),
             Row("homesystem", FALSE, {"R"}, {"", "R"}, 2)}}

Calls3 == <<[op |-> "system_lookup", given |-> {"system_name"}],
            [op |-> "fleet_carrier_route", given |-> {"source_system", "destination_system"}],
            [op |-> "stations_selling", given |-> {"commodity", "max_distance"}]>>

Feed  == INSTANCE PowerplayFeed WITH Day <- 2, Hour <- 1, Safe <- 1, Epoch <- 9, System <- {"a", "b"}, Power <- {"P", "Q"},
                                     Sighting <- Sights, Times <- Moments, Asked <- Cycles, MaxMessages <- 3,
                                     MaxRequests <- 1, now <- instant
Cache == INSTANCE StandingsCache WITH Granularity <- {"6h", "odd"}, Valid <- {"1h", "6h"}, Default <- "1h", Hours <- {3},
                                      MaxHours <- 2, Ttl <- 2, MaxQuery <- 1, MaxTime <- 4, MaxFaults <- 1
Outer == INSTANCE SpanshClient WITH Call <- Batch, MaxTime <- MaxBatchTime

SearchPlace == <<<<0,0>>, <<0,20>>, <<30,0>>, <<50,0>>, <<>>, <<10,-10>>, <<0,-45>>, <<-20,-20>>>>
Ring(c, r, h, l) == [class |-> c, reserve |-> r, hot |-> h, ltd |-> l]
SearchRings == <<{}, {Ring("Icy", "Pristine", TRUE, TRUE), Ring("Icy", "Major", FALSE, FALSE)}, {Ring("Metallic", "Common", TRUE, FALSE)}, {Ring("Icy", "", TRUE, FALSE)}, {Ring("Metal Rich", "", TRUE, FALSE)}, {Ring("Icy", "Common", FALSE, FALSE)}, {Ring("Metal Rich", "Pristine", TRUE, FALSE), Ring("Icy", "", FALSE, FALSE)}, {Ring("Icy", "", FALSE, FALSE)}>>
Dock(sy, n, r, d, e, p, a) == [system |-> sy, name |-> n, ruler |-> r, depot |-> d, economies |-> e, pad |-> p, age |-> a]
Docks == <<Dock(2, "A", {"f"}, FALSE, {"Military"}, "L", {5}), Dock(2, "A", {"g"}, FALSE, {"Industrial"}, "M", {30}),
              Dock(3, "A", {"f"}, FALSE, {}, "S", {}), Dock(2, "B", {"g"}, FALSE, {"Colony"}, "", {6}), Dock(3, "D", {"f"}, TRUE, {}, "L", {1})>>
Mined == <<[system |-> 1, yields |-> {"platinum", "ltd"}], [system |-> 4, yields |-> {"osmium"}], [system |-> 5, yields |-> {"ltd"}]>>
Ruled(w, s, p) == [power |-> w, state |-> s, progress |-> p]
Rulers == {<<Ruled("Kaine", "Stronghold", {}), Ruled("", "", {0}), Ruled("", "Unoccupied", {}), Ruled("Kaine", "Fortified", {}), Ruled("", "", {}), Ruled("", "", {}), Ruled("", "", {}), Ruled("", "", {})>>,
           <<Ruled("Kaine", "Fortified", {}), Ruled("", "", {12}), Ruled("", "", {5}), Ruled("Other", "Stronghold", {}), Ruled("", "", {}), Ruled("", "Unoccupied", {}), Ruled("", "", {}), Ruled("Other", "", {})>>,
           <<Ruled("Kaine", "Exploited", {}), Ruled("Kaine", "Fortified", {}), Ruled("", "", {}), Ruled("", "Contested", {}), Ruled("", "", {}), Ruled("", "", {}), Ruled("", "", {}), Ruled("Other", "Exploited", {})>>}
Moody(f, g) == [x \in {"f", "g"} |-> IF x = "f" THEN f ELSE g]
NoMood == [x \in {} |-> {}]
MoodsHeld == {<<NoMood, Moody({"Boom"}, {}), Moody({"Boom", "Expansion"}, {}), NoMood, NoMood, NoMood, NoMood, NoMood>>, <<NoMood, Moody({"Expansion"}, {"Boom", "Expansion"}), Moody({}, {"Boom"}), NoMood, NoMood, NoMood, NoMood, NoMood>>}
Goods(p, o, l, pp, op, lp) == [platinum |-> p, osmium |-> o, ltd |-> l, platinumPrice |-> pp, osmiumPrice |-> op, ltdPrice |-> lp]
GoodsHeld == {<<Goods(4, 0, 4, 120, 0, 240), Goods(0, 3, 0, 0, 90, 0), Goods(2, 5, 1, 300, 90, 60), Goods(0, 0, 2, 0, 0, 0), Goods(4, 0, 4, 300, 0, 300)>>,
            <<Goods(0, 0, 0, 0, 0, 0), Goods(1, 4, 3, 60, 330, 120), Goods(0, 0, 0, 0, 0, 30), Goods(4, 0, 2, 120, 0, 150), Goods(4, 0, 4, 300, 0, 300)>>}

SurveyNames == <<"a", "b", "c", "d", "e", "f", "d">>
SurveyPlaces == <<<<0,0>>, <<0,20>>, <<25,0>>, <<45,0>>, <<0, -20>>, <<>>, <<40, 0>>>>
SurveyRings == <<{"Metallic"}, {"Metallic", "Icy"}, {"Metallic"}, {"Icy"}, {"Metallic"}, {"Metallic"}, {}>>
Port(s, n, k, l) == [system |-> s, name |-> n, kind |-> k, large |-> l, type |-> "Coriolis"]
Ports == {Port(1, {"A"}, "station", TRUE), Port(2, {"B"}, "station", TRUE), Port(2, {"C"}, "settlement", FALSE), Port(3, {"D"}, "station", TRUE),
             Port(4, {"E"}, "station", TRUE), Port(5, {"F"}, "carrier", TRUE), Port(7, {"G"}, "station", TRUE), Port(5, {"H"}, "station", TRUE)}
SurveyMaps == <<"a", "c", "a", "f", "z">>
Look(sh, st, p, a) == [shown |-> sh, state |-> st, population |-> p, age |-> a]
Looks == {Look(SurveyNames, <<"Stronghold", "", "Fortified", "", "", "", "">>, <<1, 1, 1, 2, 1, 1, 1>>, <<{1}, {9}, {5}, {11}, {}, {}, {9}>>),
           Look([SurveyNames EXCEPT ![2] = "x", ![4] = "b"], <<"Fortified", "", "Stronghold", "Fortified", "", "", "">>, <<0, 1, 1, 0, 1, 1, 1>>, <<{1}, {9}, {4}, {2}, {3}, {}, {9}>>),
           Look(SurveyNames, <<"Exploited", "", "", "", "", "", "">>, <<1, 1, 1, 1, 1, 1, 1>>, <<{1}, {9}, {}, {}, {3}, {}, {9}>>)}

ReadNames == <<"n1", "n2", "n3", "n4">>
Folding == [n1 |-> "f", n2 |-> "n2", n3 |-> "n3", n4 |-> "f", x |-> "n3", f |-> "f", none |-> "none"]
Slugs == [n1 |-> "n1", n2 |-> "k", n3 |-> "k", n4 |-> "n4"]
Spelt == [n1 |-> <<"a", "_">>, n2 |-> <<"a", "b", "c">>, n3 |-> <<"a", "_", "c">>, n4 |-> <<"b">>,
      dock |-> <<"a", "_">>, hub |-> <<"b", "a", "b">>, port |-> <<"a", "b">>, pier |-> <<"b", "a", "_">>]
St(i, s, n, k, l, d) == [id |-> i, system |-> s, name |-> n, kind |-> k, large |-> l, dist |-> d, carrier |-> FALSE, time |-> 1]
Held(p, s, r) == [power |-> p, state |-> s, reinforcement |-> r]
F(n, a) == [name |-> n, active |-> a]
Priced(t, g, s) == [time |-> t, goods |-> g, system |-> s]
Moored(s, m) == [system |-> s, market |-> m, time |-> 1]
Ringed(s, n, b) == [system |-> s, name |-> n, body |-> b]
Stub(s, n) == [system |-> s, name |-> n, time |-> 1]
FirstLook ==
  [known |-> {1, 2, 3}, shown |-> ReadNames, power |-> <<Held("K", "Fortified", 2), Held("K", "Exploited", 1), Held("", "Unoccupied", 0), Held("A", "Contested", 0)>>,
   factions |-> <<{F("p", TRUE), F("q", FALSE)}, {F("p", FALSE)}, {F("r", TRUE)}, {F("q", TRUE)}>>,
   stations |-> {St(10, 1, "hub", "station", TRUE, {}), St(11, 1, "port", "planetary_depot", TRUE, {5}), St(12, 2, "hub", "station", FALSE, {3})},
   stubs |-> {Stub(1, "dock"), Stub(1, "port"), Stub(1, "hub"), Stub(2, "pier")},
   settlements |-> {}, others |-> {[system |-> 1, name |-> "nav", kind |-> "installation", time |-> 1]},
   carriers |-> ("c1" :> Moored(1, 20) @@ "c2" :> Moored(1, 21) @@ "c3" :> Moored(9, 22)), strongholds |-> (1 :> [market |-> 40, time |-> 1]),
   bodies |-> <<{1}, {}, {}, {}>>, rings |-> {Ringed(1, "r1", {1}), Ringed(1, "r2", {2}), Ringed(1, "r3", {})},
   markets |-> (10 :> Priced(1, {"gold"}, "n1") @@ 20 :> Priced(1, {"tea"}, "n1") @@ 30 :> Priced(1, {}, "n3") @@ 22 :> Priced(1, {}, "n9") @@ 40 :> Priced(1, {"tea"}, "n9"))]
SecondLook == [FirstLook EXCEPT !.bodies[1] = {1, 2}, !.carriers["c1"] = Moored(2, 20), !.strongholds = (1 :> [market |-> 40, time |-> 1] @@ 2 :> [market |-> 41, time |-> 2]),
             !.stations = @ \cup {St(13, 1, "dock", "station", TRUE, {2})}, !.factions[1] = {F("p", FALSE), F("q", TRUE)},
             !.markets = (10 :> Priced(2, {"gold", "tin"}, "n1") @@ 20 :> Priced(2, {"tin"}, "n2") @@ 30 :> Priced(1, {}, "n3") @@ 13 :> Priced(2, {}, "n1") @@ 40 :> Priced(2, {}, "n9")), !.power[1] = Held("A", "Contested", 3)]
ThirdLook == [SecondLook EXCEPT !.known = {1, 2, 3, 4}, !.settlements = {[id |-> 30, system |-> 2, name |-> "pier", time |-> 3]}, !.shown[2] = "x",
             !.rings = @ \cup {Ringed(1, "r4", {2}), Ringed(1, "r5", {3})}, !.markets[10] = Priced(3, {}, "n1")]
Call(w, o) == [what |-> w, of |-> o]
Calls == {Call("full", "f"), Call("slug", "k"), Call("watch", "n1"), Call("inventory", "n1"), Call("inventory", "n2"), Call("inventory", "none"),
          Call("market", [system |-> "f", station |-> "hub"]), Call("market", [system |-> "n2", station |-> "hub"]),
          Call("carrier", "c1"), Call("carrier", "c9"), Call("carrier", "c3"), Call("owner", 22), Call("owner", 40), Call("owner", 10), Call("owner", 20), Call("owner", 30), Call("docks", "n1"), Call("docks", "n4"), Call("presence", "n4"),
          Call("search systems", <<"a", "_">>), Call("search systems", <<>>), Call("search stations", <<"a", "_">>), Call("search stations", <<"_", "_">>),
          Call("cg", {"n1", "n2", "n3"}), Call("power", "K"), Call("counts", {"n1", "x", "n4"})}
Looking == <<FirstLook, SecondLook, ThirdLook>>

\* Updates and jumps beyond the limits of their lists, one by a carrier without
\* a name; an event without a stamp.
Msg(s, e, sc, u, st) == [system |-> s, event |-> e, schema |-> sc, uploader |-> u, software |-> u, stamp |-> st,
                         station |-> "", goods |-> {}, carrier |-> "", to |-> ""]
Traded(u, st, gs) == [Msg("here", "", "commodity", u, {st}) EXCEPT !.station = "p", !.goods = gs]
Jumped(s, u, st, c, to) == [Msg(s, "CarrierJump", "journal", u, {st}) EXCEPT !.carrier = c, !.to = to]
Msgs == <<Msg("here", "Scan", "journal", "u", {3}), Msg("here", "", "codexentry", "u", {}), Traded("u", 2, {"gold"}), Traded("u", 1, {"gold", "tin"}),
          Jumped("there", "u", 2, "", "here"), Jumped("there", "u", 1, "c", "here"),
          Traded("v", 3, {"tea", "tin"}), Jumped("here", "w", 3, "c", "there")>>
Req(i, h, l) == [inc |-> i, hours |-> h, limit |-> l]
Reqs == {Req({}, {0}, {1}), Req({"stats", "activity"}, {}, {}),  Req({"events"}, {-1}, {1}), Req({"events"}, {9}, {9}), Req({"events"}, {0}, {}), Req({"market", "carriers"}, {-1}, {0}), Req({"stats", "software"}, {0}, {})}

\* The last hours of systems under a power and of one under none; hours without
\* a value of reinforcement or of undermining; a conflict told twice of a power,
\* one that cannot be read, one of nobody.
HourOf(s, h, t, p, r, u, c, o) == [system |-> s, hour |-> h, seen |-> t, power |-> p, reinf |-> r, under |-> u, conflict |-> c, obs |-> o]
Readable(es) == {[ok |-> TRUE, entries |-> es]}
Garbled == {[ok |-> FALSE, entries |-> <<>>]}
HoursHeld == {HourOf("a", -2, 0, "P", {3}, {1}, {}, 2), HourOf("a", -1, 0, "P", {}, {4}, Readable(<<<<"P", 1>>, <<"Q", 2>>, <<"P", 3>>>>), 1),
              HourOf("a", 0, 1, "", {1}, {}, Readable(<<>>), 1), HourOf("a", 1, 1, "Q", {2}, {0}, Garbled, 1),
              HourOf("a", 1, 2, "Q", {4}, {1}, Readable(<<<<"Q", 5>>>>), 3), HourOf("a", 2, 3, "P", {1}, {}, {}, 1),
              HourOf("b", 0, 1, "P", {}, {2}, {}, 1), HourOf("b", 1, 2, "P", {6}, {}, Garbled, 2), HourOf("b", 3, 3, "Q", {}, {5}, {}, 1),
              HourOf("c", -1, 0, "Q", {}, {1}, {}, 1)}
Held3(g, c, l, k) == [galaxy |-> g, current |-> c, links |-> l, kept |-> k]
Updated(s, u) == [system |-> s, updated |-> u]
Counted(s, u, n) == [system |-> s, updated |-> u, count |-> n]
Link(s, i, t) == [system |-> s, id |-> i, scraped |-> t]
Ages == <<Held3({Updated("a", {1}), Updated("z", {})}, {Counted("a", 1, 1), Counted("z", 2, 1)}, {Link("a", 0, 1)}, 1),
          Held3({Updated("a", {1}), Updated("b", {2})}, {Counted("a", 2, 2), Counted("z", 2, 1), Counted("b", 1, 1)}, {Link("a", 0, 1), Link("a", 7, 2)}, 2),
          Held3({Updated("a", {3}), Updated("b", {2}), Updated("c", {})}, {Counted("a", 3, 3), Counted("z", 5, 2), Counted("b", 1, 1)},
                {Link("a", 0, 3), Link("a", 7, 2), Link("b", 8, 3), Link("z", 9, 3)}, 4)>>
Query(w, o, s) == [what |-> w, of |-> o, span |-> s]
Queries == {Query("history", "a", {}), Query("history", "b", {-1}), Query("history", "a", {9}), Query("conflict", "a", {}), Query("conflict", "a", {1}), Query("conflict", "b", {0}),
            Query("goal", "", {}), Query("links", "", {}), Query("status", "", {}), Query("days", <<"a", "", "b", "c">>, {}), Query("days", <<"b", "b">>, {1}),
            Query("days", <<"">>, {1}), Query("days", <<"a">>, {9}), Query("days", <<"c">>, {0}), Query("days", <<"a", "d">>, {2})}

\* A power's systems on the edge of each other's reach, one of them changing
\* hands; a system that is heard of late.
ReachPlace == <<<<0,0>>, <<4,0>>, <<5,1>>, <<0,4>>, <<3,2>>, <<-3,0>>, <<8,5>>, <<6,0>>>>
Site(s, n, k) == [system |-> s, name |-> n, kinds |-> k]
Stand(p, st, pr) == [power |-> p, state |-> st, present |-> pr]
StandsFirst == <<Stand("K", "Fortified", {"K"}), Stand("K", "Stronghold", {"K"}), Stand("", "Contested", {"K", "A"}), Stand("", "", {}),
                 Stand("A", "Stronghold", {"A"}), Stand("", "Expansion", {"A"}), Stand("", "Unoccupied", {}), Stand("", "Expansion", {"K"})>>
StandsThen == [StandsFirst EXCEPT ![3] = Stand("K", "Fortified", {"K"}), ![1] = Stand("K", "Stronghold", {"K"}), ![8] = Stand("A", "Exploited", {"A"})]
SitesFirst == {Site(4, "x", {"guardian"}), Site(5, "y", {"thargoid"}), Site(7, "z", {"guardian"})}
Around == <<[known |-> 1 .. 8 \ {7}, power |-> StandsFirst, sites |-> SitesFirst],
            [known |-> 1 .. 8, power |-> StandsThen, sites |-> SitesFirst \cup {Site(1, "w", {"guardian", "ruin"})}]>>
Errand(t, s, p, r, sh, k, l) == [tool |-> t, system |-> s, power |-> p, radius |-> r, show |-> sh, kind |-> k, limit |-> l]
Errands == {Errand("check", s, p, {}, "both", {}, {}) : s \in {1, 3, 4, 6, 7, 9}, p \in {{}, {"A"}, {"N"}}}
   \cup {Errand("nearby", s, p, r, "both", {}, {}) : s \in {1, 3, 7, 9}, p \in {{}, {"A"}}, r \in {{}, {-1}, {6}, {99}}}
   \cup {Errand("frontier", s, p, {}, sh, {}, {}) : s \in {1, 2, 5, 9}, p \in {{}, {"A"}}, sh \in {"both", "inside", "outside"}}
   \cup {Errand("sites", s, {}, r, "both", k, l) : s \in {1, 7, 9}, r \in {{}, {0}, {3}, {99}}, k \in {{}, {"guardian"}, {"odd"}}, l \in {{}, {1}, {0}, {9}}}

\* Two powers of one name but for its case, a carrier that jumps, signals of a
\* type on several bodies, a faction that comes into a state.
ToolNames == ("K" :> "k" @@ "k" :> "k" @@ "A" :> "a" @@ "p" :> "p" @@ "q" :> "q" @@ "P" :> "p" @@ "c1" :> "C1" @@ "c9" :> "C9") @@ Folding
Sway(n, st, i) == [name |-> n, states |-> st, influence |-> i]
Sig(s, b, t, c) == [system |-> s, body |-> b, type |-> t, count |-> c]
ToolLook == [known |-> {1, 2, 4}, shown |-> ReadNames, powers |-> {"K", "A"}, named |-> {"p", "q"},
   power |-> <<Held("K", "Fortified", 2), Held("K", "Exploited", 1), Held("K", "Exploited", 9), Held("A", "Contested", 0)>>,
   factions |-> <<{Sway("p", {"Boom"}, 3), Sway("q", {}, 2)}, {Sway("p", {}, 1)}, {Sway("q", {"Boom", "War"}, 5)}, {}>>,
   stations |-> {St(10, 1, "hub", "station", TRUE, {})}, carriers |-> ("C1" :> Moored(1, 20) @@ "C2" :> Moored(1, 21)),
   bodies |-> <<{1}, {1, 2}, {}, {}>>, rings |-> {Ringed(1, "r1", {1}), Ringed(1, "r3", {})},
   signals |-> {Sig(1, 1, "bio", 2), Sig(1, 2, "bio", 2), Sig(1, 1, "geo", 1), Sig(2, 1, "bio", 3), Sig(9, 1, "bio", 7), Sig(2, 2, "human", 5)}]
ToolLooks == <<ToolLook, [ToolLook EXCEPT !.known = {1, 2, 3}, !.carriers["C1"] = Moored(2, 20), !.power[1] = Held("A", "Contested", 3), !.powers = @ \cup {"k"},
                !.factions[2] = {Sway("p", {"Boom"}, 4)}, !.signals = @ \cup {Sig(1, 3, "bio", 1)}, !.named = {"p", "q", "P"}]>>
Use(t, S) == {[tool |-> t, ask |-> a] : a \in S}
Nothing == [x \in {} |-> 0]
Uses == UNION {Use(t, {Nothing}) : t \in {"station", "carrier", "bodies", "signals", "power", "faction"}}
   \cup Use("station", {[market |-> 10], [market |-> 11], [name |-> <<"a">>, system |-> "f"], [system |-> "f"], [system |-> "none"]})
   \cup Use("carrier", {[carrier |-> "c1"], [carrier |-> "c9"], [system |-> "f"], [system |-> "n2"], [system |-> "none"]})
   \cup Use("bodies", {[system |-> "f", signal |-> "bio"], [system |-> "none"], [signal |-> "o"], [signal |-> "o", least |-> 2, limit |-> 2], [signal |-> "o", limit |-> 9], [signal |-> "o", least |-> 9]})
   \cup Use("signals", {[system |-> "f"], [system |-> "f", signal |-> "o"], [system |-> "none"]})
   \cup Use("power", {[power |-> "K"], [power |-> "none"], [power |-> "A", systems |-> TRUE]} \cup {[power |-> "K", systems |-> TRUE, limit |-> l] : l \in {0, 1, 9}})
   \cup Use("faction", {[faction |-> "P"], [faction |-> "none"], [faction |-> "p", systems |-> TRUE], [system |-> "n2", state |-> "Boom"], [state |-> "Boom"], [state |-> "Boom", limit |-> 2]}
                       \cup {[faction |-> "P", state |-> "Boom", limit |-> l] : l \in {0, 1}})
Words == [bio |-> {"o", "bio"}, geo |-> {"o"}, human |-> {}]

Search == INSTANCE MiningSearch WITH System <- 1 .. 8, At <- SearchPlace, Rings <- SearchRings, Station <- Docks, Mined <- Mined,
                                     Power <- Rulers, Mood <- MoodsHeld, Market <- GoodsHeld, Top <- 2, Scan <- 4, Keep <- 2,
                                     MaxChanges <- 1, power <- ruled
Scan   == INSTANCE Survey WITH System <- 1 .. 7, Name <- SurveyNames, At <- SurveyPlaces, Rings <- SurveyRings, Station <- Ports,
                               Mined <- SurveyMaps, Galaxy <- Looks, Limit <- 3, Start <- {"d", "q"}, MaxChanges <- 2
Reads  == INSTANCE GalaxyReads WITH System <- 1 .. 4, Name <- ReadNames, Folded <- Folding, Slug <- Slugs, Letters <- Spelt,
                                    History <- Looking, Asks <- Calls, Limit <- 2, Wordings <- Words, Standard <- 3, Most <- 4,
                                    now <- moment
Intel  == INSTANCE SystemIntel WITH Message <- Msgs, Asked <- Reqs, DefaultHours <- 1, MaxHours <- 3, DefaultLimit <- 1,
                                    MaxLimit <- 2, Day <- 2, MaxDays <- 2, AllTimeDays <- 2, MaxListed <- 1, MaxPoints <- 2, MaxClients <- 2, Stored <- 6, MaxTime <- 1, MaxFaults <- 1,
                                    clock <- now, feed <- inbox, page <- turned
Past   == INSTANCE GalaxyHistory WITH Goal <- {"a", "b", "c"}, Hourly <- HoursHeld, Looks <- Ages, Asks <- Queries, DefaultHours <- 2,
                                      ConflictHours <- 3, MaxHours <- 4, DefaultDays <- 2, MaxDays <- 3, MaxNames <- 2, Day <- 2,
                                      now <- age, req <- query
Reach  == INSTANCE ExpansionTools WITH System <- 1 .. 9, At <- ReachPlace, History <- Around, Asks <- Errands, OwnPower <- "K",
                                       FortRange <- 4, StrongRange <- 6, Inside <- 1, Beyond <- 2, NearLimit <- 2, EdgeLimit <- 3,
                                       Radius <- 8, MaxRadius <- 10, SiteRadius <- 7, MaxSiteRadius <- 9, SiteLimit <- 2,
                                       MaxSiteLimit <- 3, now <- hour, work <- errand
Tools  == INSTANCE GalaxyReads WITH System <- 1 .. 4, Name <- ReadNames, Folded <- ToolNames, Slug <- Slugs, Letters <- Spelt,
                                    History <- ToolLooks, Asks <- Uses, Limit <- 2, Wordings <- Words, Standard <- 3, Most <- 4,
                                    now <- moment

\* The parts a behaviour is not of begin in one way.
AnyOf(S) == CHOOSE x \in S : TRUE
MCInit ==
    /\ part \in {"weeks", "standings", "cache", "page", "spansh", "search", "survey", "reads", "tools", "intel", "past", "reach"}
    /\ Init /\ Feed!Init /\ (part \notin {"weeks", "standings"} => instant = Min(Moments))
    /\ Cache!Init /\ Outer!Init
    /\ Search!Init /\ (part # "search" => /\ search = Search!Idle("ltd")
                                        /\ <<ruled, moods, market>> = <<AnyOf(Rulers), AnyOf(MoodsHeld), AnyOf(GoodsHeld)>>)
    /\ Scan!Init /\ (part # "survey" => galaxy = AnyOf(Looks) /\ work = Scan!Idle)
    /\ IF part = "tools" THEN Tools!ToolInit
       ELSE Reads!Init /\ (part # "reads" => call = Reads!Begin(Call("power", "K")))
    /\ Intel!Init /\ (part # "intel" => ask.limit = 2)
    /\ Past!Init /\ (part # "past" => query.what = "links")
    /\ Reach!Init /\ (part # "reach" => errand = Reach!Begin(AnyOf(Errands)))

Rest == <<part, feedVars, now, faults, cacheVars, pageVars, spanshVars, searchVars, surveyVars, readVars, intelVars, pastVars, reachVars, seen, changes>>
Galaxies == <<searchVars, surveyVars, readVars, intelVars, pastVars, reachVars, seen, changes>>
Older == <<part, feedVars, cacheVars, pageVars, spanshVars>>
MCNext ==
    \/ part = "weeks" /\ Feed!Next /\ UNCHANGED <<part, now, faults, cacheVars, pageVars, spanshVars, Galaxies>>
    \/ part = "standings" /\ (Feed!Arrive \/ Feed!Pass) /\ UNCHANGED <<part, now, faults, cacheVars, pageVars, spanshVars, Galaxies>>
    \/ part = "cache" /\ Cache!Next /\ UNCHANGED <<part, feedVars, pageVars, spanshVars, Galaxies>>
    \/ part = "page" /\ Next /\ UNCHANGED <<part, feedVars, cacheVars, spanshVars, Galaxies>>
    \/ part = "spansh" /\ Outer!Next /\ UNCHANGED <<part, feedVars, faults, cacheVars, pageVars, Galaxies>>
    \/ part = "search" /\ Search!Next /\ UNCHANGED <<Older, now, faults, surveyVars, readVars, intelVars, pastVars, reachVars>>
    \/ part = "survey" /\ Scan!Next /\ UNCHANGED <<Older, now, faults, searchVars, readVars, intelVars, pastVars, reachVars>>
    \/ part = "reads" /\ Reads!Next /\ UNCHANGED <<Older, now, faults, searchVars, surveyVars, intelVars, pastVars, reachVars, seen, changes>>
    \/ part = "intel" /\ Intel!Next /\ UNCHANGED <<Older, searchVars, surveyVars, readVars, pastVars, reachVars, seen, changes>>
    \/ part = "past" /\ Past!Next /\ UNCHANGED <<Older, now, faults, searchVars, surveyVars, readVars, intelVars, reachVars, seen, changes>>
    \/ part = "tools" /\ Tools!ToolNext /\ UNCHANGED <<Older, now, faults, searchVars, surveyVars, intelVars, pastVars, reachVars, seen, changes>>
    \/ part = "reach" /\ Reach!Next /\ UNCHANGED <<Older, now, faults, searchVars, surveyVars, readVars, intelVars, pastVars, seen, changes>>
MCSpec == MCInit /\ [][MCNext]_Rest

\* powerplay_cycle.go:35, merit_race.go:360: see WeeksAgree, CycleHolds,
\* WeekCompared, StandingsTell, GapLeads and StatesAddUp of PowerplayFeed.  The
\* first two are of the clock alone, which passes whatever the feed holds.
\* server.go:1371: the standings come from a cache, see StandingsFresh of
\* StandingsCache.
PowerplayTells ==
    /\ Feed!TypeOK /\ (part = "weeks" => Feed!WeekCompared)
    /\ part = "weeks" /\ feed = {} => Feed!WeeksAgree /\ Feed!CycleHolds
    /\ part = "cache" => Cache!TypeOK /\ Cache!StandingsFresh
    /\ part = "standings" => Feed!StandingsTell /\ \A rows \in RowSets : Feed!GapLeads(rows) /\ Feed!StatesAddUp(rows)

\* spansh client.go:404, server.go:782: see Spaced and BatchWhole of
\* SpanshClient.
BatchesHold == part = "spansh" => Outer!TypeOK /\ Outer!Spaced /\ Outer!BatchWhole

\* plasmium.go:137, ltd.go:101, expansion.go:64, survey.go:60,
\* survey_route.go:45: see BuyersDue and TargetsBest of MiningSearch, ExportWhole
\* and RouteHolds of Survey.
SearchesHold ==
    /\ part = "search" => Search!TypeOK /\ Search!BuyersDue /\ Search!TargetsBest
    /\ part = "survey" => Scan!TypeOK /\ Scan!ExportWhole /\ Scan!RouteHolds

\* inventory.go:69, market.go:38, search.go:15, powerplay.go:234: see
\* FacilitiesOnce, RingsKept, GoodsNotOlder, StatesOfSystem, SearchBest and
\* PowersAddUp of GalaxyReads; cache.go:570, :895, :851, server.go:1033: see
\* HistoriesAgree, DaysAddUp, GoalOnce, LinksOnce and StatusBetween of
\* GalaxyHistory; tools_galaxy_expansion.go:95, :282, :173,
\* tools_galaxy_surface_sites.go:91: see CheckHolds, FrontierAgrees, NearbyOnce
\* and SitesTell of ExpansionTools; tools_galaxy_core.go:410, :93,
\* tools_galaxy_powerplay.go:46, :89: see SignalsAddUp, MooredThere, PowerListed
\* and FactionsTell of its tools.
ReadsHold ==
    /\ part = "reach" => Reach!TypeOK /\ Reach!CheckHolds /\ Reach!FrontierAgrees /\ Reach!NearbyOnce /\ Reach!SitesTell
    /\ part = "tools" => /\ Tools!ToolTypeOK /\ Tools!SignalsAddUp /\ Tools!PowerListed /\ Tools!FactionsTell
                         /\ Tools!MooredThere
    /\ part = "past" => /\ Past!TypeOK /\ Past!HistoriesAgree /\ Past!DaysAddUp /\ Past!GoalOnce
                        /\ Past!LinksOnce /\ Past!StatusBetween
    /\ part = "reads" => /\ Reads!TypeOK /\ Reads!FacilitiesOnce /\ Reads!RingsKept /\ Reads!GoodsNotOlder
                         /\ Reads!StatesOfSystem /\ Reads!SearchBest /\ Reads!PowersAddUp

\* kaine_systems_intel.go:91, system_intel.go:448: see SectionsTold, StatsAddUp
\* and PagesWhole of SystemIntel.
PagesTurn == part = "intel" => Intel!TypeOK /\ Intel!SectionsTold /\ Intel!StatsAddUp /\ Intel!PagesWhole

Symmetric == Permutations(Request)
=============================================================================
