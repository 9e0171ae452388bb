---------------------------- MODULE GalaxyReads -----------------------------
(* galaxystore: what the backend reads of galaxy.* for a system, a market,  *)
(* a power or a search.  An answer is put together from several queries,    *)
(* each of a moment of its own, while the listener goes on writing: History *)
(* is what galaxy.* holds, moment by moment.  The order within a list of    *)
(* stations, factions or goods is left out.                                 *)
EXTENDS Integers, FiniteSets, SequencesExt

CONSTANTS
    System, Name,    \* rows of the catalog, their names
    Folded, Slug,    \* a name in lower case; without its blanks
    Letters,         \* a station's or system's name, letter by letter, "_" among them
    History,         \* known, shown, power, factions, stations, stubs, settlements, others,
                     \* carriers, strongholds, bodies, rings, markets, signals
    Asks,            \* calls: what is asked for, and of what
    Limit,
    Wordings,        \* the words each signal type contains
    Standard,        \* of a tool's limit: 50, for none or one that is not in 1 .. Most
    Most             \* 200

VARIABLES now,    \* the moment
          call    \* the call at work: its queries to come, the moments of those made, what it has put together
vars == <<now, call>>

G == History[now]
One(S) == CHOOSE x \in S : TRUE

Plan(what) == CASE what = "full"      -> <<"row", "factions", "stations", "carriers">>
                [] what = "slug"      -> <<"row", "factions", "stations", "carriers">>
                [] what = "watch"     -> <<"row", "factions">>
                [] what = "inventory" -> <<"row", "facilities", "bodies", "rings">>
                [] what = "market"    -> <<"header", "goods", "states">>
                [] what = "carrier"   -> <<"header", "goods">>
                [] what = "owner"     -> <<"header", "goods">>
                [] what = "docks"     -> <<"row", "docks">>
                [] what = "presence"  -> <<"row", "factions">>
                [] OTHER              -> <<what>>

Begin(a) == [what |-> a.what, of |-> a.of, pc |-> Plan(a.what), at |-> [q \in {} |-> 0], out |-> [q \in {} |-> {}], status |-> "asked"]
Init == now = 1 /\ \E a \in Asks : call = Begin(a)

-----------------------------------------------------------------------------
(* The queries                                                              *)

Shown(g, s) == g.shown[s]
InGalaxy(g) == {s \in System : s \in g.known}

\* A system is looked up by its name whatever its case, by its slug, or, when
\* its row in galaxy.system is not needed, by its very name; the first will do.
Found(g, what, n) ==
    CASE what \in {"full", "inventory"}  -> {s \in InGalaxy(g) : Folded[Name[s]] = Folded[n]}
      [] what \in {"slug", "watch"}      -> {s \in InGalaxy(g) : Slug[Name[s]] = n}
      [] what \in {"docks", "presence"}  -> {s \in System : Name[s] = n}

Factions(g, s) == g.factions[s]
Stations(g, s) == {st \in g.stations : st.system = s}
Carriers(g, s) == {c \in DOMAIN g.carriers : g.carriers[c].system = s}

\* GetStationsInSystem: stations, and what is known by name alone unless a
\* station bears it.
Docks(g, s) ==
    LET own == {st \in Stations(g, s) : st.kind = "station"}
    IN {[name |-> st.name, stub |-> FALSE, market |-> st.id \in DOMAIN g.markets] : st \in own}
       \cup {[name |-> x.name, stub |-> TRUE, market |-> FALSE] :
               x \in {x \in g.stubs : x.system = s /\ x.name \notin {st.name : st \in own}}}

\* getInventoryFacilities: a stub stands for what is neither a station nor a
\* settlement; a facility is as fresh as the freshest that is known of it.
Fresh(g, id, time) == IF id \in DOMAIN g.markets /\ g.markets[id].time > time THEN g.markets[id].time ELSE time
Facility(g, kind, x) == [kind |-> kind, id |-> {x.id}, name |-> x.name,
                         market |-> x.id \in DOMAIN g.markets, time |-> Fresh(g, x.id, x.time)]
Nameless(kind, x) == [kind |-> kind, id |-> {}, name |-> x.name, market |-> FALSE, time |-> x.time]
Settlements(g, s) == {x \in g.settlements : x.system = s}
StubsMutant(g, s) == {x \in g.stubs : x.system = s /\ \A st \in Stations(g, s) : st.name # x.name}
Stubs(g, s) == {x \in g.stubs : x.system = s /\ \A st \in Stations(g, s) \cup Settlements(g, s) : st.name # x.name}
Facilities(g, s) ==
    {Facility(g, st.kind, st) : st \in Stations(g, s)}
    \cup {Facility(g, "settlement", x) : x \in Settlements(g, s)}
    \cup {Nameless("station_stub", x) : x \in Stubs(g, s)}
    \cup {Facility(g, "fleet_carrier", [id |-> g.carriers[c].market, name |-> c, time |-> g.carriers[c].time]) : c \in Carriers(g, s)}
    \cup {Facility(g, "stronghold_carrier", [id |-> g.strongholds[x].market, name |-> "Stronghold Carrier", time |-> g.strongholds[x].time]) :
             x \in {s} \cap DOMAIN g.strongholds}
    \cup {Nameless(x.kind, x) : x \in {x \in g.others : x.system = s}}

Rings(g, s) == {r \in g.rings : r.system = s}
\* A ring goes with its body when that was among the bodies read before.
Placed(rings, bodies) == [body \in bodies |-> {r \in rings : body \in r.body}]
Unassigned(rings, bodies) == {r \in rings : r.body \cap bodies = {}}

\* Whose a market is: a station's, else a settlement's, a fleet carrier's or a
\* stronghold carrier's, and the system it is in, when that is in the catalog.
Owners(g, id) ==
    LET Own(kind, S) == {[kind |-> kind, at |-> {x} \cap System] : x \in S}
        kinds == <<UNION {Own(st.kind, {st.system}) : st \in {st \in g.stations : st.id = id}},
                   Own("settlement", {x.system : x \in {x \in g.settlements : x.id = id}}),
                   Own("fleet_carrier", {g.carriers[c].system : c \in {c \in DOMAIN g.carriers : g.carriers[c].market = id}}),
                   Own("stronghold_carrier", {x \in DOMAIN g.strongholds : g.strongholds[x].market = id})>>
        linked == SelectSeq(kinds, LAMBDA k : k # {})
    IN IF linked = <<>> THEN {[kind |-> "unlinked_market", at |-> {}]} ELSE Head(linked)

\* The header of a market: a station's by the names of both, a carrier's by its
\* id, anyone's by the market's.  It names a system, or the one the market was
\* reported in, and its own time.  Of systems of one name one is looked at.
Header(g, id, name, owner) == [id |-> id, name |-> name, owner |-> owner, time |-> g.markets[id].time]
Headers(g, what, of) ==
    CASE what = "market" ->
           LET Of(s) == {Header(g, st.id, Name[s], st.kind) :
                           st \in {st \in Stations(g, s) : st.id \in DOMAIN g.markets /\ st.name = of.station}}
               target == {s \in System : Folded[Name[s]] = Folded[of.system]}
           IN IF target = {} THEN {{}} ELSE {Of(s) : s \in target}
      [] what = "carrier" ->
           LET At(c) == {c.system} \cap System
           IN {{Header(g, c.market, IF At(c) = {} THEN g.markets[c.market].system ELSE g.shown[One(At(c))], "fleet_carrier") :
                  c \in {g.carriers[c] : c \in {c \in {of} \cap DOMAIN g.carriers : g.carriers[c].market \in DOMAIN g.markets}}}}
      [] what = "owner" ->
           {{Header(g, of, IF o.at = {} THEN g.markets[of].system ELSE Name[One(o.at)], o.kind) :
               o \in IF of \in DOMAIN g.markets THEN Owners(g, of) ELSE {}}}

\* getFactionStates: by the name a system is shown under.
States(g, n) == UNION {{f \in Factions(g, s) : f.active} : s \in {s \in InGalaxy(g) : Folded[g.shown[s]] = Folded[n]}}

\* A prefix is taken literally among systems; among stations "_" in it stands
\* for any letter, and it may be anywhere in the name.
Fits(p, w, i, wild) == \A k \in DOMAIN p : i + k <= Len(w) /\ p[k] \in {w[i + k]} \cup wild
SystemsLike(g, p) == {s \in InGalaxy(g) : Fits(p, Letters[Name[s]], 0, {})}
StationsLike(g, p) == {st \in g.stations : \E i \in 0 .. Len(Letters[st.name]) : Fits(p, Letters[st.name], i, {"_"})}
Leads(p, st) == IF Fits(p, Letters[st.name], 0, {"_"}) THEN 0 ELSE 1
Shorter(n, m) == Len(Letters[n]) < Len(Letters[m])
Best(S, Before(_, _)) == {T \in SUBSET S : /\ Cardinality(T) = IF Cardinality(S) > Limit THEN Limit ELSE Cardinality(S)
                                           /\ \A t \in T, u \in S \ T : ~Before(u, t)}

\* Powers: systems with their nearest large pad, a power's systems, how many
\* it has in each state.
Pads(g, s) == {st \in Stations(g, s) : st.large /\ ~st.carrier}
Far(st) == IF st.dist = {} THEN 999999 ELSE CHOOSE d \in st.dist : TRUE
Nearest(g, s) == {st \in Pads(g, s) : \A o \in Pads(g, s) : Far(st) <= Far(o)}
PowerRow(g, s) == [system |-> s, power |-> g.power[s].power, stations |-> Cardinality({st \in Stations(g, s) : ~st.carrier}),
                   nearest |-> IF Pads(g, s) = {} THEN {} ELSE {CHOOSE st \in Nearest(g, s) : TRUE}]
Powered(g) == {s \in InGalaxy(g) : g.power[s].state # ""}
CGSystems(g, names) == {PowerRow(g, s) : s \in {s \in Powered(g) : g.shown[s] \in names}}
PowersSystems(g, p) == {s \in Powered(g) : g.power[s].power = p}
Stronger(g, s, t) == g.power[s].reinforcement > g.power[t].reinforcement
StateCounts(g, names) ==
    LET own == {s \in Powered(g) : g.power[s].power # "" /\ g.shown[s] \in names}
    IN [p \in {g.power[s].power : s \in own} |->
          [st \in {g.power[s].state : s \in {s \in own : g.power[s].power = p}} |->
             Cardinality({s \in own : g.power[s].power = p /\ g.power[s].state = st})]]

-----------------------------------------------------------------------------
(* A call                                                                   *)

With(f, k, v) == [x \in DOMAIN f \cup {k} |-> IF x = k THEN v ELSE f[x]]
Asking(q) == call.pc # <<>> /\ Head(call.pc) = q /\ UNCHANGED now
Gets(q, v) == call' = [call EXCEPT !.pc = Tail(@), !.at = With(@, q, now), !.out = With(@, q, v),
                                   !.status = IF Len(call.pc) = 1 THEN "answered" ELSE @]
Fails(status) == call' = [call EXCEPT !.pc = <<>>, !.status = status]

LookUp ==
    /\ Asking("row")
    /\ LET found == Found(G, call.what, call.of)
       IN IF found = {} THEN Fails("not found")
          ELSE \E s \in found : Gets("row", [system |-> s, name |-> Shown(G, s), power |-> G.power[s]])

Sys == call.out["row"].system
ReadFactions   == Asking("factions")   /\ Gets("factions", Factions(G, Sys))
ReadStations   == Asking("stations")   /\ Gets("stations", Stations(G, Sys))
ReadCarriers   == Asking("carriers")   /\ Gets("carriers", Carriers(G, Sys))
ReadDocks      == Asking("docks")      /\ Gets("docks", Docks(G, Sys))
ReadFacilities == Asking("facilities") /\ Gets("facilities", Facilities(G, Sys))
ReadBodies     == Asking("bodies")     /\ Gets("bodies", G.bodies[Sys])
ReadRings      == Asking("rings")
                  /\ LET rings == Rings(G, Sys) bodies == call.out["bodies"]
                     IN Gets("rings", [placed |-> Placed(rings, bodies), unassigned |-> Unassigned(rings, bodies)])

ReadHeader ==
    /\ Asking("header")
    /\ \E heads \in Headers(G, call.what, call.of) :
          IF heads = {} THEN Fails("not found") ELSE \E h \in heads : Gets("header", h)
Market == call.out["header"]
ReadGoods  == Asking("goods") /\ Gets("goods", IF Market.id \in DOMAIN G.markets THEN G.markets[Market.id].goods ELSE {})
ReadStates == Asking("states") /\ Gets("states", States(G, Market.name))

SearchSystems ==
    /\ Asking("search systems")
    /\ \E T \in Best(SystemsLike(G, call.of), LAMBDA s, t : Shorter(Name[s], Name[t])) : Gets("search systems", T)
SearchStations ==
    /\ Asking("search stations")
    /\ LET Before(s, t) == \/ Leads(call.of, s) < Leads(call.of, t)
                           \/ Leads(call.of, s) = Leads(call.of, t) /\ Shorter(s.name, t.name)
       IN \E T \in Best(StationsLike(G, call.of), Before) : Gets("search stations", T)
ReadPower == \/ Asking("cg") /\ Gets("cg", CGSystems(G, call.of))
             \/ Asking("power") /\ \E T \in Best(PowersSystems(G, call.of), LAMBDA s, t : Stronger(G, s, t)) : Gets("power", T)
             \/ Asking("counts") /\ Gets("counts", StateCounts(G, call.of))

QueryFails == call.pc # <<>> /\ Fails("failed") /\ UNCHANGED now
Hear == now < Len(History) /\ call.pc # <<>> /\ now' = now + 1 /\ UNCHANGED call

Next == \/ LookUp \/ ReadFactions \/ ReadStations \/ ReadCarriers \/ ReadDocks \/ ReadFacilities \/ ReadBodies \/ ReadRings
        \/ ReadHeader \/ ReadGoods \/ ReadStates \/ SearchSystems \/ SearchStations \/ ReadPower \/ QueryFails \/ Hear
Spec == Init /\ [][Next]_vars

-----------------------------------------------------------------------------

TypeOK == /\ now \in 1 .. Len(History) /\ call.status \in {"asked", "answered", "not found", "failed"}
          /\ DOMAIN call.at = DOMAIN call.out /\ \A q \in DOMAIN call.at : call.at[q] <= now

Has(q) == q \in DOMAIN call.out
Then(q) == History[call.at[q]]

\* inventory.go:69: a system's inventory tells every facility that was there
\* when they were read, once: nothing that has a name of its own is told a
\* second time as a stub.
FacilitiesOnce ==
    Has("facilities") =>
      LET g == Then("facilities") fs == call.out["facilities"]
          real == {f \in fs : f.kind # "station_stub"}
      IN /\ \A st \in g.stations \cup g.settlements : st.system = Sys <=> \E f \in real : f.id = {st.id}
         /\ \A x \in g.stubs : x.system = Sys => \E f \in fs : f.name = x.name
         /\ \A f \in fs \ real : ~\E r \in real : r.name = f.name /\ r.kind \in {"station", "planetary_depot", "settlement"}
         /\ \A c \in DOMAIN g.carriers : g.carriers[c].system = Sys <=> \E f \in fs : f.kind = "fleet_carrier" /\ f.name = c
         /\ Sys \in DOMAIN g.strongholds <=> \E f \in fs : f.kind = "stronghold_carrier"

\* inventory.go:282: bodies and rings are read one after the other, and a ring
\* may be heard of in between; yet each ring is told once, with its body or by
\* itself.
RingsKept ==
    Has("rings") =>
      LET out == call.out["rings"] IN
      \A r \in Rings(Then("rings"), Sys) :
         LET with == {b \in DOMAIN out.placed : r \in out.placed[b]}
         IN /\ Cardinality(with) + (IF r \in out.unassigned THEN 1 ELSE 0) = 1
            /\ with \subseteq r.body /\ (r.body \subseteq Then("bodies").bodies[Sys] => with = r.body)

\* market.go:38, :65, inventory.go:368: a market's goods are read after its
\* header, so they are never older than that says; and the system it names is
\* one where something that has the market was when the header was read, or,
\* if there is none, the one the market was reported in.
GoodsNotOlder ==
    /\ Has("goods") => LET m == Then("goods").markets IN Market.id \in DOMAIN m => m[Market.id].time >= Market.time
    /\ Has("header") =>
         LET g == Then("header")
             Houses(s) == \/ \E x \in g.stations \cup g.settlements : x.id = Market.id /\ x.system = s
                          \/ \E c \in DOMAIN g.carriers : g.carriers[c].market = Market.id /\ g.carriers[c].system = s
                          \/ s \in DOMAIN g.strongholds /\ g.strongholds[s].market = Market.id
             homes == {s \in System : Houses(s)}
         IN IF homes = {} THEN Market.name = g.markets[Market.id].system
            ELSE \E s \in homes : Market.name \in {Name[s], g.shown[s]}

\* market.go:132: the states a station's market tells are those of the factions
\* of its own system, while that is shown under its name in the catalog.
StatesOfSystem ==
    Has("states") =>
      LET g == Then("states") IN
      (\A s \in g.known : Folded[g.shown[s]] = Folded[Name[s]]) =>
         call.out["states"] = UNION {{f \in g.factions[s] : f.active} : s \in {s \in g.known : Folded[Name[s]] = Folded[Market.name]}}

\* search.go:15, :77: no search leaves out a better match for a worse one.  A
\* system is found by the letters its name begins with, "_" being one of them,
\* and by no others: the words "then substring matches" (:13) are of stations.
SearchBest ==
    /\ Has("search systems") =>
         LET p == call.of T == call.out["search systems"]
             hits == {s \in Then("search systems").known : Len(p) <= Len(Letters[Name[s]]) /\ SubSeq(Letters[Name[s]], 1, Len(p)) = p}
         IN /\ T \subseteq hits /\ (T = hits \/ Cardinality(T) = Limit)
            /\ \A t \in T, s \in hits \ T : Len(Letters[Name[t]]) <= Len(Letters[Name[s]])
    /\ Has("search stations") =>
         \A st \in Then("search stations").stations :
            st \notin call.out["search stations"] /\ Letters[st.name] = call.of =>
              /\ Cardinality(call.out["search stations"]) = Limit
              /\ \A t \in call.out["search stations"] : Len(Letters[t.name]) <= Len(call.of)

\* powerplay.go:129, :188, :234: each system of a power is counted in one
\* state, and its nearest large pad has none nearer.
PowersAddUp ==
    /\ Has("counts") =>
         LET c == call.out["counts"] g == Then("counts") IN
         \A p \in {g.power[s].power : s \in System} \ {""} :
            (IF p \in DOMAIN c THEN MapThenSumSet(LAMBDA st : c[p][st], DOMAIN c[p]) ELSE 0)
            = Cardinality({s \in g.known : g.shown[s] \in call.of /\ g.power[s].power = p /\ g.power[s].state # ""})
    /\ Has("cg") => \A r \in call.out["cg"] : \A st \in Then("cg").stations :
         st.system = r.system /\ st.large /\ ~st.carrier => \E n \in r.nearest : Far(n) <= Far(st)

-----------------------------------------------------------------------------
(* internal/tools: what the assistant may ask of stations, carriers, bodies,*)
(* signals, powers and minor factions.  A tool takes the first of its       *)
(* arguments it knows, looks a name up and then reads by the row it found;  *)
(* some of what it adds may fail without failing the answer.  A system's    *)
(* stations and factions are the whole system above.                        *)

Given(a, k) == k \in DOMAIN a
\* A call begins with the queries of the first argument it knows.
Full == <<"row", "factions", "stations", "carriers">>
Queries(t, a) ==
    CASE t = "station" -> IF Given(a, "market") THEN <<"station">> ELSE IF Given(a, "name") THEN <<"search stations">>
                          ELSE IF Given(a, "system") THEN Full ELSE <<>>
      [] t = "carrier" -> IF Given(a, "carrier") THEN <<"carrier">> ELSE IF Given(a, "system") THEN <<"moored", "resolve">> ELSE <<>>
      [] t = "bodies"  -> IF Given(a, "system") THEN <<"catalog", "worlds">> ELSE IF Given(a, "signal") THEN <<"signalling">> ELSE <<>>
      [] t = "signals" -> IF Given(a, "system") THEN <<"catalog", "signals">> ELSE <<>>
      [] t = "power"   -> IF ~Given(a, "power") THEN <<>> ELSE IF Given(a, "systems") THEN <<"power row", "ruled">> ELSE <<"power row">>
      [] t = "faction" -> IF Given(a, "faction")
                          THEN <<"faction">> \o (IF Given(a, "state") THEN <<"in state">> ELSE IF Given(a, "systems") THEN <<"presences">> ELSE <<>>)
                          ELSE IF Given(a, "system") THEN Full ELSE IF Given(a, "state") THEN <<"in state">> ELSE <<>>

\* A whole system is asked for, and stations are searched for, as above.
Reading(t, a) == CASE Queries(t, a) = Full -> [what |-> "full", of |-> a.system]
                   [] Queries(t, a) = <<"search stations">> -> [what |-> "search stations", of |-> a.name]
                   [] OTHER -> [what |-> t, of |-> a]
Start(t, a) == LET r == Reading(t, a)
               IN [what |-> r.what, of |-> r.of, tool |-> t, ask |-> a, pc |-> Queries(t, a), at |-> [q \in {} |-> 0],
                   out |-> [q \in {} |-> {}], status |-> IF Queries(t, a) = <<>> THEN "refused" ELSE "asked"]
ToolInit == now = 1 /\ \E x \in Asks : call = Start(x.tool, x.ask)

-----------------------------------------------------------------------------
(* The queries                                                              *)

Tool == call.tool
Args == call.ask
Top(S, n, Before(_, _)) == {T \in SUBSET S : /\ Cardinality(T) = IF Cardinality(S) > n THEN n ELSE Cardinality(S)
                                             /\ \A t \in T, u \in S \ T : ~Before(u, t)}
Limited(a) == IF Given(a, "limit") /\ a.limit \in 1 .. Most THEN a.limit ELSE Standard
\* GetPowerSystems asks for no more than it is asked for.
Rulings(a) == IF ~Given(a, "limit") THEN Standard ELSE IF a.limit <= 0 THEN 2 * Standard ELSE a.limit

Named(n) == {s \in System : Folded[Name[s]] = Folded[n]}
Says(t, q) == q = "" \/ q \in Wordings[t]

\* Bodies with enough of a signal, of those that have a row of their own in a
\* system of the catalog; a system's signals, type by type, whatever is known of
\* the bodies.
Rowed(g, x) == x.system \in System /\ x.body \in g.bodies[x.system]
Signalling(g, q, least) == {x \in g.signals : Rowed(g, x) /\ Says(x.type, q) /\ x.count >= least}
Summed(g, s, q) ==
    LET own == {x \in g.signals : x.system = s /\ Says(x.type, q)}
    IN [t \in {x.type : x \in own} |-> MapThenSumSet(LAMBDA x : x.count, {x \in own : x.type = t})]

\* A power is known by itself and counts the systems it holds under that very
\* name; its systems are read by the name as asked, and need a row of their own.
PowerRows(g, p) == {[power |-> x, count |-> Cardinality({s \in System : g.power[s].power = x})] : x \in {x \in g.powers : Folded[x] = Folded[p]}}
Ruled(g, p) == {s \in InGalaxy(g) : g.power[s].power # "" /\ Folded[g.power[s].power] = Folded[p]}

\* Where a minor faction is, and which are in a state, now or in turn.
Present(g) == UNION {{[system |-> s, faction |-> f] : f \in g.factions[s]} : s \in System}
FactionRows(g, n) == {[faction |-> x, count |-> Cardinality({p \in Present(g) : p.faction.name = x})] : x \in {x \in g.named : Folded[x] = Folded[n]}}
PresentOf(g, n) == {p \in Present(g) : Folded[p.faction.name] = Folded[n]}
InState(g, st, names) == {p \in Present(g) : st \in p.faction.states /\ \A n \in names : Folded[p.faction.name] = Folded[n]}
Influential(p, q) == p.faction.influence > q.faction.influence

-----------------------------------------------------------------------------
(* A tool's steps                                                           *)

Station == Asking("station") /\ LET st == {x \in G.stations : x.id = Args.market}
                                IN IF st = {} THEN Fails("not found") ELSE Gets("station", One(st))

\* A carrier is asked for in capitals, those of a system by its name; the name
\* is then looked up once more.
Carrier == /\ Asking("carrier")
           /\ LET c == {Folded[Args.carrier]} \cap DOMAIN G.carriers
              IN IF c = {} THEN Fails("not found") ELSE Gets("carrier", [carrier |-> One(c), system |-> G.shown[G.carriers[One(c)].system]])
Moored  == /\ Asking("moored")
           /\ \E found \in IF Named(Args.system) = {} THEN {{}} ELSE {Carriers(G, s) : s \in Named(Args.system)} : Gets("moored", found)
Resolve == /\ Asking("resolve")
           /\ \E n \in IF Named(Args.system) = {} THEN {Args.system} ELSE {Name[s] : s \in Named(Args.system)} : Gets("resolve", n)

Catalog == /\ Asking("catalog")
           /\ IF Named(Args.system) = {} THEN Fails("not found") ELSE \E s \in Named(Args.system) : Gets("catalog", s)
Worlds     == Asking("worlds") /\ LET s == call.out["catalog"] IN Gets("worlds", Placed(Rings(G, s), G.bodies[s]))
Signals    == Asking("signals") /\ Gets("signals", Summed(G, call.out["catalog"], IF Given(Args, "signal") THEN Args.signal ELSE ""))
Signalled  == /\ Asking("signalling")
              /\ \E T \in Top(Signalling(G, Args.signal, IF Given(Args, "least") THEN Args.least ELSE 1), Limited(Args),
                              LAMBDA x, y : x.count > y.count) : Gets("signalling", T)

OnePower == Asking("power row") /\ LET rows == PowerRows(G, Args.power)
                                  IN IF rows = {} THEN Fails("not found") ELSE \E r \in rows : Gets("power row", r)
Ruling  == Asking("ruled") /\ \E T \in Top(Ruled(G, Args.power), Rulings(Args), LAMBDA s, t : Stronger(G, s, t)) : Gets("ruled", T)

Faction == Asking("faction") /\ LET rows == FactionRows(G, Args.faction)
                                IN IF rows = {} THEN Fails("not found") ELSE \E r \in rows : Gets("faction", r)
StateOf == /\ Asking("in state")
           /\ LET names == IF Given(Args, "faction") THEN {Args.faction} ELSE {}
              IN \E T \in Top(InState(G, Args.state, names), Limited(Args), Influential) : Gets("in state", T)
Presences == Asking("presences") /\ \E T \in Top(PresentOf(G, Args.faction), Limited(Args), Influential) : Gets("presences", T)

\* What a power or a faction is told with may fail, as may the second look at
\* a name; anything else that fails fails the call.
Extra == {"ruled", "resolve", "presences"} \cup (IF Given(Args, "faction") THEN {"in state"} ELSE {})
ToolFails ==
    /\ call.pc # <<>> /\ UNCHANGED now
    /\ IF Head(call.pc) \in Extra THEN call' = [call EXCEPT !.pc = <<>>, !.status = "answered"] ELSE Fails("failed")

ToolNext == \/ Station \/ Carrier \/ Moored \/ Resolve \/ Catalog \/ Worlds \/ Signals \/ Signalled \/ OnePower \/ Ruling
            \/ Faction \/ StateOf \/ Presences \/ LookUp \/ ReadFactions \/ ReadStations \/ ReadCarriers \/ SearchStations
            \/ ToolFails \/ Hear
ToolSpec == ToolInit /\ [][ToolNext]_vars

-----------------------------------------------------------------------------

ToolTypeOK == /\ now \in 1 .. Len(History) /\ call.status \in {"asked", "answered", "not found", "failed", "refused"}
              /\ DOMAIN call.at = DOMAIN call.out /\ \A q \in DOMAIN call.at : call.at[q] <= now

\* tools_galaxy_core.go:378, :424: a system's signals, added up by type, are
\* never fewer than what the search for bodies with a signal would tell of it one
\* by one; more only when a signal is of a body without a row, which that search
\* does not tell.  It leaves out no other body for one with fewer.
SignalsAddUp ==
    /\ Has("signals") =>
         LET g == Then("signals") s == call.out["catalog"] q == IF Given(Args, "signal") THEN Args.signal ELSE ""
             Own(t) == {x \in g.signals : x.system = s /\ x.type = t /\ Says(t, q)}
             Count(S) == MapThenSumSet(LAMBDA x : x.count, S)
             Told(t) == IF t \in DOMAIN call.out["signals"] THEN call.out["signals"][t] ELSE 0
         IN \A t \in {x.type : x \in g.signals} :
              LET found == {x \in Signalling(g, q, 0) : x.system = s /\ x.type = t}
              IN Told(t) >= Count(found) /\ (Told(t) > Count(found) => \E x \in Own(t) : x.body \notin g.bodies[s])
    /\ Has("signalling") =>
         LET g == Then("signalling") T == call.out["signalling"] IN
         \A x \in g.signals : Says(x.type, Args.signal) /\ x \notin T =>
            \/ x.count < (IF Given(Args, "least") THEN Args.least ELSE 1)
            \/ x.system \notin System \/ x.body \notin g.bodies[x.system]
            \/ Cardinality(T) = Limited(Args) /\ \A y \in T : y.count >= x.count

\* tools_galaxy_powerplay.go:46: the systems told of a power are among those its
\* count counts, when nothing was heard between the two and no power's name
\* differs from another's by its case only.
PowerListed ==
    Has("ruled") =>
      LET r == call.out["power row"] T == call.out["ruled"] g == Then("ruled")
          alike == {x \in g.powers : Folded[x] = Folded[r.power]}
      IN /\ (call.at["ruled"] = call.at["power row"] /\ alike = {r.power})
              => T \subseteq {s \in g.known : g.power[s].power = r.power} /\ Cardinality(T) <= r.count
         /\ \A s \in g.known \ T :
              g.power[s].power = r.power => \E t \in T : \A u \in T : g.power[u].reinforcement >= g.power[s].reinforcement

\* tools_galaxy_powerplay.go:89, :100: the systems a faction is in a state in
\* are among those it is present in; asked of all factions, no presence of
\* more influence is left out for one of less.
FactionsTell ==
    Has("in state") =>
      LET g == Then("in state") T == call.out["in state"] IN
      /\ Given(Args, "faction") => T \subseteq PresentOf(g, Args.faction) /\ Has("faction")
      /\ \A s \in System : \A f \in g.factions[s] :
           ([system |-> s, faction |-> f] \notin T /\ Args.state \in f.states)
           => (Given(Args, "faction") /\ Folded[f.name] # Folded[Args.faction])
              \/ (Cardinality(T) = Limited(Args) /\ \A t \in T : t.faction.influence >= f.influence)

\* tools_galaxy_core.go:93: the carriers told of a system were all there, in
\* the system of the name they are told under.
MooredThere ==
    Has("resolve") =>
      \A c \in call.out["moored"] : \E s \in System : /\ Then("moored").carriers[c].system = s
                                                      /\ Folded[Name[s]] = Folded[call.out["resolve"]]
=============================================================================
