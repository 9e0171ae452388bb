--------------------------- MODULE StandingsCache ---------------------------
(* The cache of the powers' standings: kept by query, filled by whoever      *)
(* misses, so two requests of one query may both fill it, in either order.   *)
(*                                                                          *)
(* Source: internal/httpapi/server.go, handlePowerStandings.                 *)
(*                                                                          *)
(* The databases hold all that was written before now, so what a query       *)
(* returns is told by the moment it was made.                                *)
EXTENDS Integers, FiniteSets

CONSTANTS Request,            \* goroutines serving the page
          Granularity, Valid, Default, Hours, MaxHours, \* ?granularity= and ?hours=
          Ttl,                \* standingsCacheTTL
          MaxQuery,           \* the longest a request's queries take
          MaxTime, MaxFaults  \* bounds

VARIABLES now,
          standings,  \* standingsCacheData, standingsCacheTimes
          req,        \* the requests under way
          faults      \* failed queries

vars == <<now, standings, req, faults>>

Key == (Granularity \cup {Default}) \X (1 .. MaxHours)
Result == [gran : Valid, hours : 1 .. MaxHours, read : 0 .. MaxTime, counts : SUBSET (0 .. MaxTime)]
Opt(S) == {{}} \cup {{x} : x \in S}
Idle == [pc |-> "idle", key |-> <<Default, MaxHours>>, got |-> {}, since |-> 0]

Init == /\ now = 0 /\ faults = 0
        /\ standings = [k \in {} |-> {}]
        /\ req = [r \in Request |-> Idle]

Fault == faults < MaxFaults /\ faults' = faults + 1
Fine  == UNCHANGED faults

Fresh(k) == k \in DOMAIN standings /\ now - standings[k].at < Ttl

KeyOf(g, h) == <<g, IF h > MaxHours THEN MaxHours ELSE h>>

\* Under the read lock: a fresh entry is the answer.
Ask(r) ==
    /\ req[r].pc = "idle"
    /\ \E g \in Granularity, h \in Hours :
         LET k == KeyOf(g, h)
         IN  req' = [req EXCEPT ![r] = [pc |-> IF Fresh(k) THEN "answer" ELSE "query", key |-> <<g, KeyOf(g, h)[2]>>, since |-> now,
                                        got |-> IF Fresh(k) THEN {standings[k].result} ELSE {}]]
    /\ Fine /\ UNCHANGED <<now, standings>>

\* GetPowerStandingData takes an unknown granularity for the default.
Query(r) ==
    /\ req[r].pc = "query"
    /\ \/ Fine /\ req' = [req EXCEPT ![r].pc = "counts",
                              ![r].got = {[gran |-> IF req[r].key[1] \in Valid THEN req[r].key[1] ELSE Default,
                                           hours |-> req[r].key[2], read |-> now, counts |-> {}]}]
       \/ Fault /\ req' = [req EXCEPT ![r] = Idle]
    /\ UNCHANGED <<now, standings>>

\* The live state counts; without them the result goes into the cache as well.
Counts(r) ==
    /\ req[r].pc = "counts"
    /\ \/ Fine /\ req' = [req EXCEPT ![r].pc = "store", ![r].got = {[x EXCEPT !.counts = {now}] : x \in req[r].got}]
       \/ Fault /\ req' = [req EXCEPT ![r].pc = "store"]
    /\ UNCHANGED <<now, standings>>

\* Under the write lock; whoever comes last is kept, whatever it has read.
Store(r) ==
    /\ req[r].pc = "store"
    /\ \E x \in req[r].got : LET k == KeyOf(req[r].key[1], req[r].key[2]) IN
         standings' = [q \in DOMAIN standings \cup {k} |-> IF q = k THEN [result |-> x, at |-> now] ELSE standings[q]]
    /\ req' = [req EXCEPT ![r].pc = "answer"]
    /\ Fine /\ UNCHANGED now

Answer(r) ==
    /\ req[r].pc = "answer" /\ req' = [req EXCEPT ![r] = Idle]
    /\ Fine /\ UNCHANGED <<now, standings>>

-----------------------------------------------------------------------------
\* Queries end within MaxQuery.
Tick ==
    /\ now < MaxTime /\ now' = now + 1
    /\ \A r \in Request : req[r].pc \in {"query", "counts", "store"} => now - req[r].since < MaxQuery
    /\ UNCHANGED <<standings, req, faults>>

Next == (\E r \in Request : Ask(r) \/ Query(r) \/ Counts(r) \/ Store(r) \/ Answer(r)) \/ Tick
Spec == Init /\ [][Next]_vars

-----------------------------------------------------------------------------

\* Types.
TypeOK ==
    /\ now \in 0 .. MaxTime /\ faults \in 0 .. MaxFaults
    /\ DOMAIN standings \subseteq Key
    /\ \A k \in DOMAIN standings : standings[k].result \in Result /\ standings[k].at \in 0 .. now
    /\ \A r \in Request : /\ req[r].pc \in {"idle", "query", "counts", "store", "answer"} /\ req[r].key \in Key
                          /\ req[r].got \subseteq Result /\ Cardinality(req[r].got) <= 1 /\ req[r].since \in 0 .. now

\* server.go:1291, :1341: whatever the order in which requests query and store,
\* an answer is of the query it was asked for and tells everything the database
\* held a TTL and the longest query before; its counts are not older than it.
StandingsFresh ==
    \A r \in Request : req[r].pc = "answer" => \A x \in req[r].got :
        /\ x.gran = (IF req[r].key[1] \in Valid THEN req[r].key[1] ELSE Default) /\ x.hours = req[r].key[2]
        /\ \A k \in DOMAIN standings : standings[k].result = x => standings[k].at - x.read <= MaxQuery
        /\ req[r].since - x.read < Ttl + MaxQuery
        /\ \A c \in x.counts : c >= x.read
=============================================================================
