---------------------------- MODULE SpanshClient ----------------------------
(* Spansh's client: every request waits a second after the one before it,    *)
(* a search is saved and a route computed, and then asked for until it is    *)
(* there, and a batch has its calls side by side, so many at a time.         *)
(*                                                                          *)
(* Source: internal/spansh/client.go; internal/httpapi/server.go,            *)
(* handlePowerplayBatch.                                                     *)
EXTENDS Integers, FiniteSets, Sequences

CONSTANTS Call,       \* the batch: a sequence of operations with the fields they are given
          BatchSize,  \* how many at a time
          Wait,       \* defaultRateLimitWait
          Attempts, FleetAttempts, FleetDelay, \* pollAttempts, fleetPollAttempts, the longest delay
          MaxTime     \* bound

VARIABLES now,
          last,       \* lastRequest
          holder,     \* who sleeps under the client's mutex
          worker,     \* the batch's goroutines
          job,        \* Spansh: the searches it has been given
          sent,       \* when requests were sent
          gone,       \* the client of the batch has left: its context is done
          results, answered

vars == <<now, last, holder, worker, job, sent, gone, results, answered>>

Index == DOMAIN Call
Fleet(i) == Call[i].op = "fleet_carrier_route"
Limit(i) == IF Fleet(i) THEN FleetAttempts ELSE Attempts
Error == 0

\* required: an operation's own fields; the others go into its filters.
Required(op) ==
    CASE op = "stations_selling" -> {"commodity", "reference_system"}
      [] op = "faction_state_systems" -> {"reference_system", "controlling_faction_state"}
      [] op = "system_lookup" -> {"system_name"}
      [] op = "fleet_carrier_route" -> {"source_system", "destination_system"}
      [] op \in {"powerplay_systems", "generic_systems"} -> {"reference_system"}
      [] OTHER -> {}

Filters(op) ==
    CASE op = "stations_selling" -> {"has_large_pad", "primary_economy", "max_distance", "ship_laden_range"}
      [] op = "powerplay_systems" -> {"max_distance", "power_filter", "power_state"}
      [] op = "faction_state_systems" -> {"max_distance", "has_large_pad", "has_market", "power_filter", "economy_filter",
                                          "security_filter", "min_population"}
      [] op = "generic_systems" -> {"max_distance", "min_distance", "power_filter", "power_state", "economy_filter",
                                    "secondary_economy_filter", "security_filter", "government_filter", "min_population",
                                    "has_large_pad", "has_market"}
      [] OTHER -> {}

\* stationsSelling: a least distance counts with a greatest, which goes before
\* the ship's range.
Search(op, given) ==
    IF ~(Required(op) \subseteq given) THEN {}
    ELSE {Required(op) \cup
          IF op # "stations_selling" THEN given \cap Filters(op)
          ELSE IF "max_distance" \in given
          THEN (given \cap (Filters(op) \cup {"min_distance"})) \ {"ship_laden_range"}
          ELSE given \cap Filters(op)}

Init ==
    /\ now = 0 /\ last = -Wait /\ holder = {} /\ gone = FALSE /\ sent = {} /\ answered = FALSE
    /\ worker = [i \in Index |-> [pc |-> "start", tries |-> 0, delay |-> IF Fleet(i) THEN 2 ELSE 1, wake |-> 0]]
    /\ job = [i \in Index |-> "none"] /\ results = [i \in Index |-> {}]

Busy == {i \in Index : worker[i].pc \notin {"start", "done"}}
Done(i, x) == worker' = [worker EXCEPT ![i].pc = "done"] /\ results' = [results EXCEPT ![i] = {x}]

Acquire(i) ==
    /\ worker[i].pc = "start" /\ Cardinality(Busy) < BatchSize
    /\ IF Search(Call[i].op, Call[i].given) = {} THEN Done(i, Error)
       ELSE worker' = [worker EXCEPT ![i].pc = "post"] /\ UNCHANGED results
    /\ UNCHANGED <<now, last, holder, job, sent, gone, answered>>

\* waitForRateLimit: the mutex is held while it sleeps, whatever the context.
Lock(i) ==
    /\ holder = {} /\ worker[i].pc \in {"post", "poll"}
    /\ holder' = {i}
    /\ UNCHANGED <<now, last, worker, job, sent, gone, results, answered>>

\* Mutant: the time of the last request is read but not written.
SendMutant(i) ==
    /\ holder = {i} /\ now - last >= Wait
    /\ holder' = {} /\ sent' = sent \cup {<<i, now>>}
    /\ worker' = [worker EXCEPT ![i].pc = IF @ = "post" THEN "posting" ELSE "polling"]
    /\ UNCHANGED <<now, last, job, gone, results, answered>>

Send(i) ==
    /\ holder = {i} /\ now - last >= Wait
    /\ last' = now /\ holder' = {} /\ sent' = sent \cup {<<i, now>>}
    /\ worker' = [worker EXCEPT ![i].pc = IF @ = "post" THEN "posting" ELSE "polling"]
    /\ UNCHANGED <<now, job, gone, results, answered>>

\* postJSON, submitSearch: an error, or an answer without a reference, ends it.
Posted(i) ==
    /\ worker[i].pc = "posting"
    /\ \/ ~gone /\ job' = [job EXCEPT ![i] = "processing"]
          /\ worker' = [worker EXCEPT ![i].pc = "poll"] /\ UNCHANGED results
       \/ Done(i, Error) /\ UNCHANGED job
    /\ UNCHANGED <<now, last, holder, sent, gone, answered>>

\* pollSearch, pollFleetJob: results, or a state they do not know, are the
\* answer, a failed job is an error; anything else is tried again.
Longer(i) == IF ~Fleet(i) THEN worker[i].delay * 2
             ELSE IF (worker[i].delay * 3) \div 2 > FleetDelay THEN FleetDelay ELSE (worker[i].delay * 3) \div 2
Again(i) == worker' = [worker EXCEPT ![i].pc = "sleep", ![i].tries = @ + 1, ![i].wake = now + worker[i].delay,
                                     ![i].delay = Longer(i)]
Polled(i) ==
    /\ worker[i].pc = "polling"
    /\ \/ job[i] = "ready" /\ ~gone /\ Done(i, i)
       \/ job[i] = "none" /\ ~gone /\ Done(i, Error)
       \/ Again(i) /\ UNCHANGED results
    /\ UNCHANGED <<now, last, holder, job, sent, gone, answered>>

\* The attempts are over, or the context, or another attempt is made.
Wake(i) ==
    /\ worker[i].pc = "sleep"
    /\ \/ gone /\ Done(i, Error)
       \/ now >= worker[i].wake /\ worker[i].tries = Limit(i) /\ Done(i, Error)
       \/ /\ now >= worker[i].wake /\ worker[i].tries < Limit(i)
          /\ worker' = [worker EXCEPT ![i].pc = "poll"] /\ UNCHANGED results
    /\ UNCHANGED <<now, last, holder, job, sent, gone, answered>>

Respond ==
    /\ ~answered /\ \A i \in Index : worker[i].pc = "done"
    /\ answered' = TRUE
    /\ UNCHANGED <<now, last, holder, worker, job, sent, gone, results>>

\* Spansh finishes a search, or forgets it.
Work ==
    /\ \E i \in Index : job[i] = "processing" /\ job' \in {[job EXCEPT ![i] = "ready"], [job EXCEPT ![i] = "none"]}
    /\ UNCHANGED <<now, last, holder, worker, sent, gone, results, answered>>

Leave == ~gone /\ gone' = TRUE /\ UNCHANGED <<now, last, holder, worker, job, sent, results, answered>>

Tick == /\ now < MaxTime /\ now' = now + 1
        /\ UNCHANGED <<last, holder, worker, job, sent, gone, results, answered>>

Step(i) == Acquire(i) \/ Lock(i) \/ Send(i) \/ Posted(i) \/ Polled(i) \/ Wake(i)
Next == (\E i \in Index : Step(i)) \/ Respond \/ Work \/ Leave \/ Tick
Spec == Init /\ [][Next]_vars

-----------------------------------------------------------------------------

\* Types.
TypeOK ==
    /\ worker \in [Index -> [pc : {"start", "post", "posting", "poll", "polling", "sleep", "done"},
                             tries : Nat, delay : Nat, wake : Nat]]
    /\ holder \subseteq Index /\ Cardinality(holder) <= 1
    /\ job \in [Index -> {"none", "processing", "ready"}]
    /\ \A i \in Index : (results[i] # {}) = (worker[i].pc = "done")

\* client.go:563: however many ask, no two requests of a client are sent within
\* a second of each other; a batch has no more under way than it said.
Spaced ==
    /\ \A x \in sent : \A y \in sent : x # y => x[2] - y[2] >= Wait \/ y[2] - x[2] >= Wait
    /\ Cardinality(Busy) <= BatchSize

\* server.go:782, :823, client.go:404, :441: the answer of a batch holds one result
\* for every call, each at its own place; a call is asked after no more than so
\* many times, and one without its fields not at all.
BatchWhole ==
    /\ answered => \A i \in Index : results[i] \in {{i}, {Error}}
    /\ \A i \in Index : Cardinality({x \in sent : x[1] = i}) 
              <= IF Search(Call[i].op, Call[i].given) = {} THEN 0 ELSE Limit(i) + 1
=============================================================================
