------------------------------- MODULE Survey -------------------------------
(* Which systems near a mining map nobody has looked at lately.  The export *)
(* (kaine/survey.go) lists, for each map held by Kaine, the systems in its  *)
(* reach that have a metallic ring, in two queries per map while the        *)
(* listener goes on writing; the order of its rows is left out.  The route  *)
(* (survey_route.go) takes one snapshot and visits the stalest systems, each *)
(* time the nearest that is left; distances are squares.                    *)
EXTENDS Integers, FiniteSets, SequencesExt

CONSTANTS
    System,    \* rows of the catalog, by id64
    Name, At,  \* a system's name in the catalog, its place, <<>> when the catalog has none
    Rings,     \* the classes of its rings
    Station,   \* a station's system, name ({} for none), kind, type and large pads
    Mined,     \* the system names of the maps, one for each map
    Galaxy,    \* what galaxy.* may hold: each system's shown name, power state, population and age of its data
    Limit, Start,   \* the route's length and the starts that may be asked for
    MaxChanges

VARIABLES galaxy, work, changes, seen
vars == <<galaxy, work, changes, seen>>

Square(x) == x * x
Dist2(s, t) == Square(At[s][1] - At[t][1]) + Square(At[s][2] - At[t][2])
Placed == {s \in System : At[s] # <<>>}
Radius(state) == IF state = "Stronghold" THEN 30 ELSE 20
Held == {"Fortified", "Stronghold"}
Idle == [pc |-> "coords", todo |-> <<>>, states |-> [n \in {} |-> ""], pending |-> {}, rows |-> {}, route |-> <<>>, start |-> {}, anchors |-> 0]

Init == /\ galaxy \in Galaxy /\ changes = 0 /\ seen = <<>>
        /\ \/ work = Idle
           \/ \E n \in {{}} \cup {{x} : x \in Start} : work = [Idle EXCEPT !.pc = "snapshot", !.start = n]

Saw == seen' = Append(seen, galaxy)

-----------------------------------------------------------------------------
(* The export                                                               *)

\* Coordinates and power states are looked up by name; a map without either,
\* or one that Kaine does not hold, is left out.
ReadStates ==
    /\ work.pc = "coords" /\ UNCHANGED <<galaxy, changes>> /\ Saw
    /\ LET names == {Name[s] : s \in Placed}
           \* of systems that share a name the last row wins
           picks(S) == {f \in [names -> S] : \A n \in names : Name[f[n]] = n}
       IN \E f \in picks(Placed), h \in picks(System) :
             work' = [work EXCEPT
                !.todo = SelectSeq([i \in DOMAIN Mined |-> [map |-> i, at |-> IF Mined[i] \in names THEN f[Mined[i]] ELSE 0]],
                                   LAMBDA t : t.at # 0 /\ galaxy.state[h[Mined[t.map]]] \in Held),
                !.states = [n \in names |-> galaxy.state[h[n]]], !.pc = "scan"]

This == Head(work.todo)
Reach(t) == Radius(work.states[Mined[t.map]])

\* surveySystemsInRadius: one row for each station that is no carrier, or one
\* for the system; the system is named as it is shown, and a map's own is
\* told by that name.
Docks(s) == {st \in Station : st.system = s /\ st.kind # "carrier"}
RowsOf(t, g) ==
    {[map |-> t.map, name |-> g.shown[x[1]], d2 |-> Dist2(x[1], t.at), station |-> x[2], dark |-> g.age[x[1]] = {}] :
        x \in UNION {{<<s, n>> : n \in IF Docks(s) = {} THEN {{}} ELSE {st.name : st \in Docks(s)}} :
                     s \in {s \in Placed : Dist2(s, t.at) <= Square(Reach(t)) /\ g.shown[s] # Mined[t.map]}}}

ScanMap == /\ work.pc = "scan" /\ work.todo # <<>> /\ UNCHANGED <<galaxy, changes>> /\ Saw
           /\ work' = [work EXCEPT !.pending = RowsOf(This, galaxy), !.pc = "rings"]

\* batchGetRingData: asks for the catalog's systems that bear a shown name,
\* and is told how they are shown.
RingsNamed(n, asked, g) == UNION {Rings[s] : s \in {s \in System : Name[s] \in asked /\ g.shown[s] = n}}
ReadRings ==
    /\ work.pc = "rings" /\ UNCHANGED <<galaxy, changes>> /\ Saw
    /\ LET asked == {r.name : r \in work.pending}
           kept == {r \in work.pending : "Metallic" \in RingsNamed(r.name, asked, galaxy)}
       IN work' = [work EXCEPT !.rows = @ \cup kept, !.pending = {}, !.todo = Tail(@), !.pc = "scan"]

Export == /\ work.pc = "scan" /\ work.todo = <<>> /\ work' = [work EXCEPT !.pc = "exported"]
          /\ UNCHANGED <<galaxy, changes, seen>>

-----------------------------------------------------------------------------
(* The route                                                                *)

Anchors(g) == {s \in Placed : Name[s] \in ToSet(Mined) /\ g.state[s] \in Held}

\* Populated systems in reach of an anchor; of those that share a name the
\* first; and of them the ones with a large starport.
InReach(g) == {s \in Placed : g.population[s] > 0 /\ \E a \in Anchors(g) : Dist2(s, a) <= Square(Radius(g.state[a]))}
FirstOfName(S) == {s \in S : \A t \in S : Name[t] = Name[s] => s <= t}
Port(s) == \E st \in Station : st.system = s /\ st.kind = "station" /\ st.large /\ st.type = "Coriolis"
Candidates(g) == {s \in FirstOfName(InReach(g)) : Port(s)}

\* Never heard of is staler than anything.
Staleness(g, s) == IF g.age[s] = {} THEN 999999 ELSE CHOOSE x \in g.age[s] : TRUE
Stalest(g) == {SubSeq(q, 1, IF Len(q) > Limit THEN Limit ELSE Len(q)) :
                 q \in {q \in SetToSeqs(Candidates(g)) :
                          \A i, j \in DOMAIN q : i < j => Staleness(g, q[i]) >= Staleness(g, q[j])}}

\* The first in the list of those that are nearest to a place.
Nearest(q, left, from) == CHOOSE i \in left : /\ \A j \in left : Dist2(q[i], from) <= Dist2(q[j], from)
                                              /\ \A j \in left : Dist2(q[j], from) = Dist2(q[i], from) => i <= j

\* nearestNeighbourRoute: a greedy walk over the list.
Left(q, done) == DOMAIN q \ ToSet(done)
Walk(q, start) ==
    LET first == IF start = {} THEN 1 ELSE Nearest(q, DOMAIN q, CHOOSE s \in start : TRUE)
        step(done, i) == Append(done, Nearest(q, Left(q, done), q[Last(done)]))
        order == FoldLeft(step, <<first>>, [i \in 1 .. Len(q) - 1 |-> i])
    IN IF q = <<>> THEN <<>> ELSE [i \in 1 .. Len(q) |-> q[order[i]]]

\* GetSurveyProjection: anchors, candidates and the start are of one snapshot;
\* the count of anchors is asked for anew when there is no candidate.
TakeRoute ==
    /\ work.pc = "snapshot" /\ UNCHANGED <<galaxy, changes>> /\ Saw
    /\ LET start == {s \in Placed : Name[s] \in work.start}
       IN IF Mined = <<>> \/ Anchors(galaxy) = {} THEN work' = [work EXCEPT !.pc = "empty"]
          ELSE IF work.start # {} /\ start = {} THEN work' = [work EXCEPT !.pc = "no start"]
          ELSE \E q \in Stalest(galaxy), s \in IF start = {} THEN {{}} ELSE {{x} : x \in start} :
                  work' = [work EXCEPT !.pc = "routed", !.route = Walk(q, s), !.anchors = Cardinality(Anchors(galaxy))]

-----------------------------------------------------------------------------

Ended == work.pc \in {"exported", "routed", "empty", "no start", "failed"}
QueryFails == ~Ended /\ work' = [Idle EXCEPT !.pc = "failed"] /\ UNCHANGED <<galaxy, changes, seen>>

\* The listener writes what it has heard.
Change == /\ changes < MaxChanges /\ ~Ended /\ changes' = changes + 1
          /\ \E g \in Galaxy \ {galaxy} : galaxy' = g
          /\ UNCHANGED <<work, seen>>

Next == ReadStates \/ ScanMap \/ ReadRings \/ Export \/ TakeRoute \/ QueryFails \/ Change
Spec == Init /\ [][Next]_vars

-----------------------------------------------------------------------------

TypeOK == /\ galaxy \in Galaxy /\ changes \in 0 .. MaxChanges
          /\ work.pc \in {"coords", "scan", "rings", "exported", "snapshot", "routed", "empty", "no start", "failed"}
          /\ \A r \in work.rows \cup work.pending : r.map \in DOMAIN Mined

\* survey.go:60: an export tells every system in reach of a map that has a
\* metallic ring, once for each of its stations, for exactly the maps that
\* were Kaine's; unless it is shown under a name the catalog does not know,
\* or was renamed between the two queries of its map.
ExportWhole ==
    work.pc = "exported" =>
      LET twin(n) == Cardinality({s \in Placed : Name[s] = n}) > 1
          active == {i \in DOMAIN Mined : \E s \in Placed : Name[s] = Mined[i] /\ seen[1].state[s] \in Held}
          nth(i) == 2 * Cardinality({j \in active : j < i}) + 2
      IN (\A i \in active : ~twin(Mined[i])) =>
           /\ {r.map : r \in work.rows} \subseteq active /\ Len(seen) = 2 * Cardinality(active) + 1
           /\ \A i \in active, s \in Placed :
                LET home == CHOOSE h \in Placed : Name[h] = Mined[i]
                    g == seen[nth(i)]
                    rows == {r \in work.rows : r.map = i /\ r.name = Name[s]}
                    steady(x) == g.shown[x] = Name[x] /\ seen[nth(i) + 1].shown[x] = Name[x]
                IN (\A x \in Placed : x = s \/ {Name[s], Name[home]} \cap {g.shown[x], seen[nth(i) + 1].shown[x]} = {}
                                       \/ x = home) /\ steady(s) /\ steady(home) /\ s # home =>
                   IF Dist2(s, home) <= Square(Radius(seen[1].state[home])) /\ "Metallic" \in Rings[s]
                   THEN LET own == {st \in Station : st.system = s /\ st.kind # "carrier"}
                        IN {r.station : r \in rows} = IF own = {} THEN {{}} ELSE {st.name : st \in own}
                   ELSE rows = {}

\* survey_route.go:45: a route visits the stalest systems that have a starport
\* in reach of a map, each once, up to its limit; it begins at the one nearest
\* to the start, and no leg passes by a nearer one that is visited later.
RouteHolds ==
    work.pc = "routed" =>
      LET g == seen[1] r == work.route
          start == {s \in Placed : Name[s] \in work.start}
      IN /\ ToSet(r) \subseteq Candidates(g) /\ Cardinality({Name[s] : s \in ToSet(r)}) = Len(r) /\ work.anchors > 0
         /\ Len(r) = Limit \/ ToSet(r) = Candidates(g)
         /\ \A s \in Candidates(g) \ ToSet(r), i \in DOMAIN r : Staleness(g, s) <= Staleness(g, r[i])
         /\ \A i, j \in DOMAIN r : 1 < i /\ i < j => Dist2(r[i - 1], r[i]) <= Dist2(r[i - 1], r[j])
         /\ r # <<>> =>
              IF start = {} THEN \A s \in Candidates(g) : Staleness(g, s) <= Staleness(g, r[1])
              ELSE \E s \in start : \A i \in DOMAIN r : Dist2(s, r[1]) <= Dist2(s, r[i])
=============================================================================
