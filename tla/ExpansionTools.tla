--------------------------- MODULE ExpansionTools ---------------------------
(* internal/tools: the tools that measure from a system what lies around it *)
(* - may a power expand there, what does it hold nearby, where is the edge  *)
(* of a control system's reach, which surface sites are near - while the    *)
(* listener goes on writing.  Distances are whole numbers, squared when     *)
(* they are compared; ties of distance may fall either way.                 *)
EXTENDS Integers, FiniteSets, FiniteSetsExt, SequencesExt

CONSTANTS
    System, At,      \* rows of the catalog that there may be, where they are
    History,         \* galaxy.*, moment by moment: known, power, sites
    Asks,            \* calls: tool, system, power, radius, show, kind, limit
    OwnPower,        \* "Nakato Kaine", for a call that names none
    FortRange, StrongRange, Inside, Beyond,   \* 20, 30, and the edge's 5 and 10 light years
    NearLimit, EdgeLimit,                     \* 10, 30
    Radius, MaxRadius,                        \* 50 and 100
    SiteRadius, MaxSiteRadius, SiteLimit, MaxSiteLimit   \* 100, 500; 50, 200

VARIABLES now,    \* the moment
          work    \* the call: its queries to come, the moments of those made, their rows
vars == <<now, work>>

G == History[now]
OneOf(S) == CHOOSE x \in S : TRUE

Plan(a) == CASE a.tool = "check" -> <<"check">>
             [] a.tool = "nearby" -> <<"reference", "controlled", "acquisition">>
             [] a.tool = "frontier" -> <<"frontier">>
             [] a.tool = "sites" -> <<"sites">>
Begin(a) == [ask |-> a, pc |-> Plan(a), at |-> [q \in {} |-> 0], out |-> [q \in {} |-> {}], status |-> "asked"]
Init == now = 1 /\ \E a \in Asks : work = Begin(a)

-----------------------------------------------------------------------------
(* Distances                                                                *)

Square(n) == n * n
Apart(s, t) == Square(At[s][1] - At[t][1]) + Square(At[s][2] - At[t][2])
\* The box a query looks into before it measures.
Boxed(s, t, r) == \A k \in {1, 2} : At[s][k] <= At[t][k] + r /\ At[t][k] - r <= At[s][k]
Within(s, t, r) == r >= 0 /\ Apart(s, t) <= Square(r)

\* ORDER BY distance LIMIT n.
NearestOf(S, t, n) == {T \in SUBSET S : /\ Cardinality(T) = Min({n, Cardinality(S)})
                                       /\ \A x \in T, y \in S \ T : Apart(x, t) <= Apart(y, t)}

-----------------------------------------------------------------------------
(* The queries                                                              *)

InCatalog(g, s) == {s} \cap g.known
State(g, s) == g.power[s].state
PowerOf(a) == IF a.power = {} THEN OwnPower ELSE OneOf(a.power)
Holds(g, p, st) == {s \in g.known : g.power[s].power = p /\ State(g, s) = st}

\* The nearest system of each kind, and whether that is near enough; what the
\* target itself is is told, not looked at.
Judge(g, t, fort, strong) ==
    LET near(S, r) == \E s \in S : Within(s, t, r)
    IN [valid |-> near(fort, FortRange) \/ near(strong, StrongRange),
        by |-> IF near(strong, StrongRange) THEN strong ELSE IF near(fort, FortRange) THEN fort ELSE {},
        fort |-> fort, strong |-> strong, state |-> State(g, t)]
\* A distance that there is none of is told as zero.
Told(S, t) == IF S = {} THEN 0 ELSE Apart(OneOf(S), t)

\* queryNearbyPowerSystems, by who holds a system or by who is present there.
NearbyOf(g, ref, p, r, states, present) ==
    {s \in g.known \ {ref} : /\ State(g, s) \in states
                             /\ IF present THEN p \in g.power[s].present ELSE g.power[s].power = p
                             /\ Boxed(s, ref, r) /\ Within(s, ref, r)}

\* The edge of a control system: what is no power's yet, a little inside its
\* reach or beyond.
Control(g, s, p) == {c \in InCatalog(g, s) : g.power[c].power = p /\ State(g, c) \in {"Fortified", "Stronghold"}}
Reach(g, c) == IF State(g, c) = "Stronghold" THEN StrongRange ELSE FortRange
Edge(g, c) ==
    LET r == Reach(g, c)
    IN {s \in g.known \ {c} : /\ State(g, s) \notin {"Fortified", "Stronghold", "Exploited"}
                              /\ Boxed(s, c, r + Beyond) /\ Within(s, c, r + Beyond) /\ Apart(s, c) >= Square(r - Inside)}

\* A radius and a limit are put right before they are used.
SiteReach(a) == IF a.radius = {} THEN SiteRadius
                ELSE LET r == OneOf(a.radius) IN IF r <= 0 THEN SiteRadius ELSE Min({r, MaxSiteRadius})
SitesAsked(a) == IF a.limit \subseteq 1 .. MaxSiteLimit /\ a.limit # {} THEN OneOf(a.limit) ELSE SiteLimit
SitesNear(g, a) == {x \in g.sites : /\ InCatalog(g, a.system) # {} /\ x.system \in g.known
                                    /\ (a.kind = {} \/ a.kind \subseteq x.kinds)
                                    /\ Boxed(x.system, a.system, SiteReach(a)) /\ Within(x.system, a.system, SiteReach(a))}
\* A nearer site comes first.
BestSites(S, t, n) == {T \in SUBSET S : /\ Cardinality(T) = Min({n, Cardinality(S)})
                                        /\ \A x \in T, y \in S \ T : Apart(x.system, t) <= Apart(y.system, t)}

-----------------------------------------------------------------------------
(* A call                                                                   *)

Ask == work.ask
Has(q) == q \in DOMAIN work.out
Then(q) == History[work.at[q]]
With(f, k, v) == [x \in DOMAIN f \cup {k} |-> IF x = k THEN v ELSE f[x]]
Asking(q) == work.pc # <<>> /\ Head(work.pc) = q /\ UNCHANGED now
Keeps(q, v, rest) == work' = [work EXCEPT !.pc = rest, !.at = With(@, q, now), !.out = With(@, q, v),
                                          !.status = IF rest = <<>> THEN "answered" ELSE @]
Gets(q, v) == Keeps(q, v, Tail(work.pc))
Fails(status) == work' = [work EXCEPT !.pc = <<>>, !.status = status]

\* galaxyExpansionCheck: one query.
Check ==
    /\ Asking("check")
    /\ IF InCatalog(G, Ask.system) = {} THEN Fails("system not found")
       ELSE \E fort \in NearestOf(Holds(G, PowerOf(Ask), "Fortified"), Ask.system, 1),
               strong \in NearestOf(Holds(G, PowerOf(Ask), "Stronghold"), Ask.system, 1) :
              Gets("check", Judge(G, Ask.system, fort, strong))

\* galaxyNearbyPowerplay: where the system is, then two lists around it.
NearRadius == IF Ask.radius = {} THEN Radius ELSE Min({OneOf(Ask.radius), MaxRadius})
Reference ==
    /\ Asking("reference")
    /\ IF InCatalog(G, Ask.system) = {} THEN Fails("system not found") ELSE Gets("reference", State(G, Ask.system))
Controlled ==
    /\ Asking("controlled")
    /\ \E T \in NearestOf(NearbyOf(G, Ask.system, PowerOf(Ask), NearRadius, {"Fortified", "Stronghold"}, FALSE), Ask.system, NearLimit) :
          Gets("controlled", T)
Acquisition ==
    /\ Asking("acquisition")
    /\ \E T \in NearestOf(NearbyOf(G, Ask.system, PowerOf(Ask), NearRadius, {"Expansion", "Contested"}, TRUE), Ask.system, NearLimit) :
          Gets("acquisition", T)

\* galaxyExpansionFrontier: one query, split by what is within reach and shown
\* as asked for.
Split(T, c) == LET in == {s \in T : Within(s, c, Reach(G, c))} IN [inside |-> in, outside |-> T \ in]
Shows(side) == Ask.show # (IF side = "inside" THEN "outside" ELSE "inside")
Frontier ==
    /\ Asking("frontier")
    /\ LET ctrl == Control(G, Ask.system, PowerOf(Ask))
       IN IF \A c \in ctrl : Edge(G, c) = {} THEN Fails("nothing found")
          ELSE \E c \in ctrl, T \in NearestOf(Edge(G, Ask.system), Ask.system, EdgeLimit) :
                 Gets("frontier", [side \in {x \in {"inside", "outside"} : Shows(x)} |-> Split(T, c)[side]])

\* galaxySurfaceSites: when nothing is found, is there such a system at all?
Sites ==
    /\ Asking("sites")
    /\ \E T \in BestSites(SitesNear(G, Ask), Ask.system, SitesAsked(Ask)) :
          Keeps("sites", T, IF T = {} THEN <<"named">> ELSE <<>>)
Named ==
    /\ Asking("named")
    /\ IF InCatalog(G, Ask.system) = {} THEN Fails("system not found") ELSE Gets("named", {})

QueryFails == work.pc # <<>> /\ Fails("failed") /\ UNCHANGED now
Hear == now < Len(History) /\ work.pc # <<>> /\ now' = now + 1 /\ UNCHANGED work

Next == Check \/ Reference \/ Controlled \/ Acquisition \/ Frontier \/ Sites \/ Named \/ QueryFails \/ Hear
Spec == Init /\ [][Next]_vars

-----------------------------------------------------------------------------

TypeOK == /\ now \in 1 .. Len(History)
          /\ work.status \in {"asked", "answered", "system not found", "nothing found", "failed"}
          /\ DOMAIN work.at = DOMAIN work.out /\ \A q \in DOMAIN work.at : work.at[q] <= now

Valid(g, t, p) == \/ \E s \in Holds(g, p, "Fortified") : Within(s, t, FortRange)
                  \/ \E s \in Holds(g, p, "Stronghold") : Within(s, t, StrongRange)

\* tools_galaxy_expansion.go:95: the check looks at the nearest system of each
\* kind only, and that is enough: it says yes exactly when some system of the
\* power reaches the target, names one that does, and no nearer one of its kind.
CheckHolds ==
    Has("check") =>
      LET r == work.out["check"] g == Then("check") p == PowerOf(Ask) IN
      /\ r.valid = Valid(g, Ask.system, p) /\ (r.valid <=> r.by # {})
      /\ \A s \in r.by : State(g, s) \in {"Fortified", "Stronghold"} /\ Within(s, Ask.system, Reach(g, s))
      /\ \A s \in g.known : Within(s, Ask.system, FortRange) /\ g.power[s].power = p /\ State(g, s) = "Fortified" =>
           Told(r.fort, Ask.system) <= Apart(s, Ask.system)

\* tools_galaxy_expansion.go:282: what the frontier calls VALID the check would
\* call a valid target at that moment; and what the control system itself makes
\* valid, near the edge of its reach and still free, the frontier tells, unless
\* as many as it may tell are no further.
FrontierAgrees ==
    Has("frontier") =>
      LET r == work.out["frontier"] g == Then("frontier") c == Ask.system
          told == UNION {r[side] : side \in DOMAIN r}
          reach == IF State(g, c) = "Stronghold" THEN StrongRange ELSE FortRange
      IN /\ "inside" \in DOMAIN r => \A s \in r["inside"] : Valid(g, s, PowerOf(Ask)) /\ s # c
         /\ "outside" \in DOMAIN r => \A s \in r["outside"] : ~Within(s, c, reach) /\ s # c
         /\ "inside" \in DOMAIN r =>
              \A s \in g.known \ {c} :
                 /\ Within(s, c, reach) /\ ~Within(s, c, reach - Inside)
                 /\ State(g, s) \notin {"Fortified", "Stronghold", "Exploited"}
                 => s \in told \/ (Cardinality(told) = EdgeLimit /\ \A t \in told : Apart(t, c) <= Apart(s, c))

\* tools_galaxy_expansion.go:173: what a power holds nearby and where it may
\* still take are two queries; a system is told in both only when it changed
\* between them, and neither tells the system they are measured from.
NearbyOnce ==
    Has("acquisition") =>
      LET held == work.out["controlled"] open == work.out["acquisition"] IN
      /\ \A s \in held \cap open : State(Then("controlled"), s) # State(Then("acquisition"), s)
      /\ Ask.system \notin held \cup open
      /\ \A s \in held \cup open : Within(s, Ask.system, MaxRadius)

\* tools_galaxy_surface_sites.go:91: "system not found" is said of a system
\* only when there was none of that name; otherwise nothing found means that
\* nothing was near when it was looked for, or the system was heard of since.
SitesTell ==
    Has("sites") =>
      LET g == Then("sites") T == work.out["sites"] IN
      /\ work.status = "system not found" => Ask.system \notin g.known
      /\ T = {} /\ Ask.system \in g.known =>
           ~\E x \in g.sites : x.system \in g.known /\ Ask.kind \subseteq x.kinds /\ Within(x.system, Ask.system, SiteReach(Ask))
      /\ Cardinality(T) <= MaxSiteLimit
=============================================================================
