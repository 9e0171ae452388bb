---------------------------- MODULE MiningSearch ----------------------------
(* What the portal's mining tools look for in galaxy.*: stations in boom    *)
(* that buy platinum or osmium near a map (plasmium.go), expanding ones     *)
(* that buy diamonds (ltd.go), and systems worth expanding to               *)
(* (expansion.go).  A search reads maps, power and stations in queries of   *)
(* their own while the listener goes on writing.                            *)
(*                                                                          *)
(* Systems are numbered in the order of their names.  Demand is counted in  *)
(* quarters of the optimal 1288 t, prices in thousands and progress in      *)
(* tenths; prices are multiples of 30, so that every bonus is whole.        *)
EXTENDS Integers, FiniteSets, SequencesExt

CONSTANTS
    System,      \* names in the catalog
    At,          \* a system's place, <<>> when the catalog has none
    Rings,       \* a system's rings
    Station,     \* a station's system, name, ruler, depot, economies, pad and age of its market data
    Mined,       \* a map's system and what it yields
    Power, Mood, Market,    \* what galaxy.* may hold of a system's power, of factions' states, of markets
    Top, Scan, Keep,        \* buyers of a map, candidates read, targets shown
    MaxChanges

VARIABLES power, moods, market,   \* galaxy.*
          search,                 \* the search at work, what it has read and answered
          seen,                   \* galaxy.* as it was at each of its queries
          changes

vars == <<power, moods, market, search, seen, changes>>

Kinds == {"plasmium", "ltd", "expansion"}
Yield(k) == IF k = "plasmium" THEN {"platinum", "osmium"} ELSE {"ltd"}

\* The queries of a search, in their order.
Plan(k) == CASE k = "plasmium"  -> <<"maps", "coords", "states", "kaine", "stations">>
             [] k = "ltd"       -> <<"maps", "kaine", "coords", "states", "stations">>
             [] k = "expansion" -> <<"kaine", "maps", "coords", "candidates">>

Idle(k) == [kind |-> k, pc |-> Plan(k), maps |-> {}, states |-> [s \in {} |-> ""], kaine |-> {}, result |-> {}]

Init == /\ power \in Power /\ moods \in Mood /\ market \in Market
        /\ \E k \in Kinds : search = Idle(k)
        /\ seen = [q \in {} |-> {}] /\ changes = 0

-----------------------------------------------------------------------------
(* Distances and scores                                                     *)

Square(x) == x * x
Dist2(s, t) == Square(At[s][1] - At[t][1]) + Square(At[s][2] - At[t][2])
Placed == {s \in System : At[s] # <<>>}
Radius(state) == IF state = "Stronghold" THEN 30 ELSE 20
Near(s, T) == IF T = {} THEN 0 ELSE Min({Dist2(s, t) : t \in T})

PlasmiumScore(m, economies) ==
    CASE m.platinum >= 4 -> 100
      [] m.platinum < 4 /\ m.osmium >= 4 -> 80
      [] m.platinum \in 1 .. 3 /\ m.osmium < 4 -> 25 * m.platinum
      [] m.platinum = 0 /\ m.osmium \in 1 .. 3 -> 20 * m.osmium
      [] OTHER -> IF economies \cap {"Military", "Colony"} # {} THEN 40 ELSE 0

LTDScore(m) == IF m.ltd >= 4 THEN 100 ELSE IF m.ltd > 0 THEN 25 * m.ltd ELSE 40

Freshness(age) == IF age = {} THEN 0
                  ELSE LET h == CHOOSE x \in age : TRUE
                       IN CASE h < 6 -> 100 [] h \in 6 .. 23 -> 75 [] h \in 24 .. 47 -> 40
                            [] h \in 48 .. 167 -> 15 [] OTHER -> 5
PadScore(pad) == CASE pad = "L" -> 50 [] pad = "M" -> 25 [] pad = "S" -> 10 [] OTHER -> 0
ProgressScore(p) == IF p = {} THEN 40
                    ELSE LET x == CHOOSE x \in p : TRUE
                         IN CASE x <= 0 -> 80 [] x \in 1 .. 4 -> 60 [] x \in 5 .. 9 -> 40
                              [] x \in 10 .. 19 -> 20 [] x \in 20 .. 49 -> 10 [] OTHER -> 0
PriceBonus(price, per) == Min({50, price \div per})

Score(k, st, m) == IF k = "plasmium" THEN PlasmiumScore(m, Station[st].economies) ELSE LTDScore(m)
Price(k, m) == IF k = "plasmium" THEN Max({m.platinumPrice, m.osmiumPrice}) ELSE m.ltdPrice

Common(st, g) == Freshness(Station[st].age) + PadScore(Station[st].pad)
                 + ProgressScore(g.power[Station[st].system].progress)
RankScore(st, g) == Common(st, g) + Score("plasmium", st, g.market[st])
                    + PriceBonus(Price("plasmium", g.market[st]), 6)
LTDRankScore(st, g) == Common(st, g) + Score("ltd", st, g.market[st]) + PriceBonus(Price("ltd", g.market[st]), 5)
                       + IF "Industrial" \in Station[st].economies THEN 20 ELSE 0
Rank(k, st, g) == IF k = "plasmium" THEN RankScore(st, g) ELSE LTDRankScore(st, g)

LocationScore(d2) == CASE d2 <= 400 -> 100 [] d2 \in 401 .. 900 -> 60 [] d2 \in 901 .. 2500 -> 20 [] OTHER -> 0
RingScore(r) ==
    LET base == CASE r.class = "Metallic" -> 30 [] r.class = "Metal Rich" -> 20
                  [] r.class = "Icy" /\ r.ltd -> 25 [] OTHER -> 0
        reserve == CASE r.reserve = "Pristine" -> 15 [] r.reserve = "Major" -> 10 [] r.reserve = "Common" -> 5 [] OTHER -> 0
        hotspot == CASE ~r.hot -> 0 [] r.hot /\ r.class = "Metallic" -> 20 [] r.hot /\ r.class = "Metal Rich" -> 15 [] OTHER -> 0
    IN IF base = 0 THEN 0 ELSE base + reserve + hotspot

-----------------------------------------------------------------------------
(* What the queries find in a state g of galaxy.*                           *)

Now == [power |-> power, moods |-> moods, market |-> market]

Targets == {"", "Unoccupied", "Expansion", "Contested"}
Stated(g, s, mood) == \E f \in DOMAIN g.moods[s] : mood \in g.moods[s][f]
Ruled(g, st, mood) == \E f \in Station[st].ruler : f \in DOMAIN g.moods[Station[st].system]
                                                    /\ mood \in g.moods[Station[st].system][f]
Sells(g, st) == /\ Station[st].system \in Placed /\ ~Station[st].depot /\ Station[st].ruler # {}
                /\ g.power[Station[st].system].state \in Targets
BoomStations(g) == {st \in DOMAIN Station : Sells(g, st) /\ Stated(g, Station[st].system, "Boom")}
ExpansionStations(g) == {st \in DOMAIN Station : Sells(g, st) /\ Ruled(g, st, "Expansion")}
Rows(k, g) == IF k = "plasmium" THEN BoomStations(g) ELSE ExpansionStations(g)

\* One row of each station name in a system is kept, the first to come.
KeyMutant(st) == <<Station[st].name>>
Key(st) == <<Station[st].system, Station[st].name>>
Firsts(R) == {F \in SUBSET R : /\ \A a, b \in F : Key(a) = Key(b) => a = b
                               /\ \A r \in R : \E a \in F : Key(a) = Key(r)}
\* It is marked as ruled by a faction in boom when any row of its name is.
Boom(g, R, st) == IF \E r \in R : Key(r) = Key(st) /\ Ruled(g, r, "Boom") THEN "controlling_faction" ELSE "system_boom"

KaineSystems(g) == {s \in Placed : g.power[s].power = "Kaine" /\ g.power[s].state \in {"Fortified", "Stronghold"}}

\* The systems in a box of 50 Ly around an anchor, taken by no power, with a
\* ring of a kind that may be of worth.
Abs(x) == IF x < 0 THEN -x ELSE x
InBox(s, a) == \A i \in 1 .. 2 : Abs(At[s][i] - At[a][i]) <= 50
Candidates(g, anchors) ==
    {s \in Placed : /\ \E a \in anchors : InBox(s, a)
                    /\ g.power[s].power = "" /\ g.power[s].state \in {"", "Unoccupied"}
                    /\ \E r \in Rings[s] : r.class \in {"Metallic", "Metal Rich", "Icy"}}
Valuable(s) == {r \in Rings[s] : r.class \in {"Metallic", "Metal Rich"} \/ (r.class = "Icy" /\ r.ltd)}

-----------------------------------------------------------------------------
(* The answers                                                              *)

\* sort.Slice leaves what compares equal in any order.
Sorted(S, Before(_, _)) == {q \in SetToSeqs(S) : \A i, j \in 1 .. Len(q) : i < j => ~Before(q[j], q[i])}
Cut(q, n) == SubSeq(q, 1, Min({n, Len(q)}))

Held(m, states) == /\ Mined[m].system \in Placed \cap DOMAIN states
                   /\ states[Mined[m].system] \in {"Fortified", "Stronghold"}
Reached(m, state, F) == {st \in F : Dist2(Mined[m].system, Station[st].system) <= Square(Radius(state))}
Buys(k, g, st) == Score(k, st, g.market[st]) > 0 /\ ~(Price(k, g.market[st]) \in 1 .. 99)

Buyers(k, m, state, F, g) ==
    LET Before(a, b) == \/ Rank(k, a, g) > Rank(k, b, g)
                        \/ /\ Rank(k, a, g) = Rank(k, b, g)
                           /\ Dist2(Mined[m].system, Station[a].system) < Dist2(Mined[m].system, Station[b].system)
    IN {Cut(q, Top) : q \in Sorted({st \in Reached(m, state, F) : Buys(k, g, st)}, Before)}

\* Maps by their best buyer, then by how many they have; of two maps alike a
\* stronghold's is first (plasmium only), then the name decides.
MapBefore(k, g, a, b) ==
    LET top(x) == IF x.buyers = <<>> THEN 0 ELSE Rank(k, x.buyers[1], g)
        name(x) == Mined[x.map].system
    IN \/ top(a) > top(b)
       \/ /\ top(a) = top(b)
          /\ \/ Len(a.buyers) > Len(b.buyers)
             \/ /\ Len(a.buyers) = Len(b.buyers)
                /\ \/ k = "plasmium" /\ a.state # b.state /\ a.state = "Stronghold"
                   \/ (k = "ltd" \/ a.state = b.state) /\ name(a) < name(b)

Entry(k, m, bs, g, kaine, R, states) ==
    [map |-> m, state |-> states[Mined[m].system], radius |-> Radius(states[Mined[m].system]), buyers |-> bs,
     toKaine |-> [i \in DOMAIN bs |-> Near(Station[bs[i]].system, kaine)],
     boom |-> [i \in DOMAIN bs |-> IF k = "plasmium" THEN Boom(g, R, bs[i]) ELSE ""]]

FoundBuyers(k, g) ==
    LET held == {m \in search.maps : Held(m, search.states)}
        R == Rows(k, g)
        Before(a, b) == MapBefore(k, g, a, b)
        state(m) == search.states[Mined[m].system]
    IN UNION {LET lists == [m \in held |-> Buyers(k, m, state(m), F, g)]
              IN UNION {Sorted({Entry(k, m, f[m], g, search.kaine, R, search.states) : m \in held}, Before) :
                        f \in {x \in [held -> UNION {lists[m] : m \in held}] : \A m \in held : x[m] \in lists[m]}} :
              F \in Firsts(R)}

Target(s) ==
    LET maps == {Mined[m].system : m \in search.maps} \cap Placed
        place == IF maps = {} THEN 0 ELSE LocationScore(Near(s, maps))
    IN [system |-> s, rings |-> Valuable(s), toAnchor |-> Near(s, search.kaine),
        score |-> place + MapThenSumSet(RingScore, Valuable(s))]

FoundTargets(g) ==
    LET all == Candidates(g, search.kaine)
        Before(a, b) == a.score > b.score \/ (a.score = b.score /\ a.toAnchor < b.toAnchor)
        read == {C \in SUBSET all : Cardinality(C) = Min({Scan, Cardinality(all)})}
    IN UNION {{Cut(q, Keep) : q \in Sorted({Target(s) : s \in {x \in C : Valuable(x) # {}}}, Before)} : C \in read}

-----------------------------------------------------------------------------
(* The search                                                               *)

Asks(q) == search.pc # <<>> /\ Head(search.pc) = q
Next1 == Tail(search.pc)
Saw(q) == seen' = [x \in DOMAIN seen \cup {q} |-> IF x = q THEN Now ELSE seen[x]]
Quiet == UNCHANGED <<power, moods, market, changes>>
Answer(a) == search' = [search EXCEPT !.pc = <<>>, !.result = {a}]

ReadMaps ==
    /\ Asks("maps") /\ Saw("maps") /\ Quiet
    /\ LET ms == {m \in DOMAIN Mined : search.kind = "expansion" \/ Mined[m].yields \cap Yield(search.kind) # {}}
       IN IF ms = {} /\ search.kind # "expansion" THEN Answer(<<>>)
          ELSE search' = [search EXCEPT !.pc = Next1, !.maps = ms]

ReadCoords == Asks("coords") /\ Saw("coords") /\ Quiet /\ search' = [search EXCEPT !.pc = Next1]

ReadStates ==
    /\ Asks("states") /\ Saw("states") /\ Quiet
    /\ search' = [search EXCEPT !.pc = Next1,
                     !.states = [s \in {Mined[m].system : m \in search.maps} \cap System |-> power[s].state]]

ReadKaine ==
    /\ Asks("kaine") /\ Saw("kaine") /\ Quiet
    /\ IF search.kind = "expansion" /\ KaineSystems(Now) = {} THEN Answer(<<>>)
       ELSE search' = [search EXCEPT !.pc = Next1, !.kaine = KaineSystems(Now)]

NoneHeld == \A m \in search.maps : ~Held(m, search.states)
ReadStations == Asks("stations") /\ ~NoneHeld /\ Saw("stations") /\ Quiet
                /\ \E a \in FoundBuyers(search.kind, Now) : Answer(a)
NothingToScan == Asks("stations") /\ NoneHeld /\ Answer(<<>>) /\ Quiet /\ UNCHANGED seen

ReadCandidates == Asks("candidates") /\ Saw("candidates") /\ Quiet /\ \E a \in FoundTargets(Now) : Answer(a)

\* A query fails and with it the search.
QueryFails == search.pc # <<>> /\ Quiet /\ search' = [search EXCEPT !.pc = <<>>] /\ UNCHANGED seen

\* The listener writes what it has heard.
Change ==
    /\ changes < MaxChanges /\ search.pc # <<>> /\ changes' = changes + 1 /\ UNCHANGED <<search, seen>>
    /\ \/ \E p \in Power : p # power /\ power' = p /\ UNCHANGED <<moods, market>>
       \/ \E m \in Mood : m # moods /\ moods' = m /\ UNCHANGED <<power, market>>
       \/ \E m \in Market : m # market /\ market' = m /\ UNCHANGED <<power, moods>>

Next == \/ ReadMaps \/ ReadCoords \/ ReadStates \/ ReadKaine \/ ReadStations \/ NothingToScan \/ ReadCandidates
        \/ QueryFails \/ Change
Spec == Init /\ [][Next]_vars

-----------------------------------------------------------------------------

TypeOK == /\ search.kind \in Kinds /\ search.kaine \subseteq Placed /\ search.maps \subseteq DOMAIN Mined
          /\ Cardinality(search.result) <= 1 /\ changes \in 0 .. MaxChanges
          /\ \E i \in 0 .. Len(Plan(search.kind)) : search.pc = SubSeq(Plan(search.kind), i + 1, Len(Plan(search.kind)))

Done(k) == search.kind = k /\ search.result # {}
Answered == CHOOSE a \in search.result : TRUE

\* A station that should be on a map's list, from what the search has seen.
Due(k, m, st) ==
    LET g == seen["stations"]
    IN /\ g.power[Station[st].system].state \in Targets /\ ~Station[st].depot /\ Station[st].system \in Placed
       /\ IF k = "plasmium" THEN Station[st].ruler # {} /\ Stated(g, Station[st].system, "Boom") ELSE Ruled(g, st, "Expansion")
       /\ Dist2(Mined[m].system, Station[st].system)
            <= IF seen["states"].power[Mined[m].system].state = "Stronghold" THEN 900 ELSE 400
       /\ Buys(k, g, st)

\* plasmium.go:137, ltd.go:101: whatever is written meanwhile, a map is listed
\* when it was Kaine's stronghold or fortified as the power was read; every
\* buyer was due as the stations were; and one that was due and is not listed
\* is either no better than any of a full list, or another of its system bears
\* its name.  A list says that a station's own ruler is in boom when one is.
BuyersDue ==
    \A k \in {"plasmium", "ltd"} : Done(k) /\ Answered # <<>> =>
      LET g == seen["stations"] a == Answered
          held == {m \in DOMAIN Mined : Mined[m].yields \cap Yield(k) # {} /\ Mined[m].system \in Placed
                                       /\ seen["states"].power[Mined[m].system].state \in {"Fortified", "Stronghold"}}
      IN /\ Len(a) = Cardinality(held) /\ {a[i].map : i \in DOMAIN a} = held
         /\ \A i \in DOMAIN a :
              LET bs == a[i].buyers
              IN /\ Len(bs) <= Top /\ \A n \in DOMAIN bs : Due(k, a[i].map, bs[n])
                 /\ \A st \in DOMAIN Station \ ToSet(bs) : Due(k, a[i].map, st) =>
                       \/ Len(bs) = Top /\ \A n \in DOMAIN bs : Rank(k, bs[n], g) >= Rank(k, st, g)
                       \/ \E tw \in DOMAIN Station \ {st} :
                            Station[tw].system = Station[st].system /\ Station[tw].name = Station[st].name
                 /\ k = "plasmium" => \A n \in DOMAIN bs : Ruled(g, bs[n], "Boom") => a[i].boom[n] = "controlling_faction"
         /\ \A i, j \in DOMAIN a : i < j /\ a[j].buyers # <<>> =>
              a[i].buyers # <<>> /\ Rank(k, a[i].buyers[1], g) >= Rank(k, a[j].buyers[1], g)

\* expansion.go:64, :254: a target is unoccupied as the candidates are read and
\* near an anchor as those were; unless there are more candidates than are
\* read, none that is left out scores more than one that is shown.
TargetsBest ==
    Done("expansion") /\ Answered # <<>> =>
      LET g == seen["candidates"] a == Answered
          due == {s \in Placed : /\ g.power[s].power = "" /\ Valuable(s) # {}
                                /\ g.power[s].state \in {"", "Unoccupied"}
                                /\ \E t \in KaineSystems(seen["kaine"]) : InBox(s, t)}
          shown == {a[i].system : i \in DOMAIN a}
      IN /\ shown \subseteq due /\ Cardinality(shown) = Len(a) /\ Len(a) <= Keep
         /\ Cardinality(Candidates(g, search.kaine)) <= Scan =>
              /\ Len(a) = Min({Keep, Cardinality(due)})
              /\ \A s \in due \ shown, i \in DOMAIN a : Target(s).score <= a[i].score
=============================================================================
