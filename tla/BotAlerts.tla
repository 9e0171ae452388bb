------------------------------ MODULE BotAlerts -----------------------------
(* edin-bot's mining alerts: the poll loop of two bindings, the token they  *)
(* share, requests with their retries, what is made of a response, and the  *)
(* health that is told of a binding.  The publisher's work on a snapshot is *)
(* in BotPublisher; here it takes a while.                                  *)
(*                                                                          *)
(* Source: internal/edinbot/features/platinum.go, ltd.go, render.go,        *)
(* authclient/client.go, controlclient/client.go, scheduler/scheduler.go,   *)
(* cmd/edin-bot/main.go                                                     *)
(*                                                                          *)
(* Time is counted in units of an HTTP client's timeout.  A StateHash is    *)
(* the very text it is the hash of.                                         *)
EXTENDS Integers, FiniteSets, SequencesExt

CONSTANTS
    Feature,
    Response,    \* of the control API: [valid, at, maps]
    Retry,       \* the waits between a poll's attempts
    Interval, Life, Lead, Grace, MaxFresh, MaxShown,
    MaxTime, MaxFaults, MaxTriggers, LastTrigger  \* bounds

VARIABLES
    now,
    cached,     \* the token: {} or {[until, expiry]}, as the client and as the server has it
    holder,     \* who holds the token client's lock
    poll,       \* [f -> [pc, attempt, since, start, due, expiry, resp]]
    ticker,     \* [f -> [next, fired]]
    trigger,    \* [f -> a trigger is queued]
    disabled,   \* [f -> its binding is disabled]
    latest,     \* [f -> the last success recorded: {} or {time}]
    troubled,   \* [f -> a poll failed, was skipped or went unrecorded since]
    faults, triggers
vars == <<now, cached, holder, poll, ticker, trigger, disabled, latest, troubled, faults, triggers>>

None == "none"
Idle == [pc |-> "wait", attempt |-> 0, since |-> 0, start |-> 0, due |-> 0, expiry |-> 0, resp |-> {}]

Init ==
    /\ now = 0 /\ cached = {} /\ holder = None /\ faults = 0 /\ triggers = 0
    /\ poll = [f \in Feature |-> Idle] /\ ticker = [f \in Feature |-> [next |-> Interval, fired |-> TRUE]]
    /\ trigger = [f \in Feature |-> FALSE] /\ disabled = [f \in Feature |-> FALSE]
    /\ latest = [f \in Feature |-> {}] /\ troubled = [f \in Feature |-> FALSE]

-----------------------------------------------------------------------------
(* Poll: what is made of a response                                         *)

\* isExcludedStation, isFresh
Wanted(b, at) == ~b.site /\ b.age # {} /\ \A t \in b.age : at - t <= MaxFresh

\* The buyers in the order of the maps, with the map each was read from.
Listed(maps) == FlattenSeq([i \in DOMAIN maps |-> [j \in DOMAIN maps[i].buyers |-> [map |-> maps[i], buyer |-> maps[i].buyers[j]]]])
Key(x) == <<x.buyer.system, x.buyer.station>>
\* Of a station that several maps list the first counts.
Chosen(resp) ==
    LET all == SelectSeq(Listed(resp.maps), LAMBDA x : Wanted(x.buyer, resp.at))
        first == {i \in DOMAIN all : \A j \in 1 .. i - 1 : Key(all[j]) # Key(all[i])}
    IN [i \in 1 .. Cardinality(first) |-> all[SetToSortSeq(first, <)[i]]]

Better(b, c) == b.score > c.score \/ (b.score = c.score /\ b.rank < c.rank)
FirstOf(s) == IF s = <<>> THEN "" ELSE s[1]

\* buildPlatinumItem, buildLTDItem
Item(system, mine) ==
    LET buyers == SortSeq([i \in DOMAIN mine |-> mine[i].buyer], Better)
    IN [identity |-> system, mine |-> mine[1].map.system, buyers |-> buyers,
        url |-> FirstOf(SelectSeq([i \in DOMAIN mine |-> mine[i].map.url], LAMBDA u : u # ""))]
StateHash(item) == <<item.identity, item.url, item.mine, item.buyers>>
Items(resp) ==
    LET all == Chosen(resp)
        Of(system) == SelectSeq(all, LAMBDA x : x.buyer.system = system)
    IN {Item(system, Of(system)) : system \in {x.buyer.system : x \in Range(all)}}

\* SortKey, Render
Top(S) == CHOOSE n \in S \cup {0} : \A o \in S \cup {0} : o <= n
SortKey(item) == Top({b.price : b \in Range(item.buyers)})
Usable(item) == SelectSeq(item.buyers, LAMBDA b : b.price # 0 \/ b.demand # 0)
Tier(score) == IF score >= 80 THEN "high" ELSE IF score >= 30 THEN "mid" ELSE "low"
Embed(item) ==
    LET u == Usable(item) n == IF Len(u) > MaxShown THEN MaxShown ELSE Len(u)
    IN [price |-> SortKey(item), mine |-> item.mine, url |-> item.url, sell |-> SubSeq(u, 1, n), more |-> Len(u) - n,
        updated |-> Top(UNION {u[i].age : i \in 1 .. n}), tier |-> Tier(item.buyers[1].score)]

-----------------------------------------------------------------------------
(* The poll loop                                                            *)

Be(f, p) == poll' = [poll EXCEPT ![f] = p]
Busy(f) == poll[f].pc # "wait"

\* The ticker's channel holds one tick; so does the trigger's.
Fire(f) ==
    /\ ticker[f].next = now
    /\ ticker' = [ticker EXCEPT ![f] = [next |-> now + Interval, fired |-> TRUE]]
    /\ UNCHANGED <<now, cached, holder, poll, trigger, disabled, latest, troubled, faults, triggers>>

TriggerNow(f) ==
    /\ triggers < MaxTriggers /\ now <= LastTrigger /\ triggers' = triggers + 1
    /\ trigger' = [trigger EXCEPT ![f] = TRUE]
    /\ UNCHANGED <<now, cached, holder, poll, ticker, disabled, latest, troubled, faults>>

\* A disabled binding's tick is skipped and leaves no record.
Tick(f) ==
    /\ ~Busy(f)
    /\ \/ ticker[f].fired /\ ticker' = [ticker EXCEPT ![f].fired = FALSE] /\ UNCHANGED trigger
       \/ trigger[f] /\ trigger' = [trigger EXCEPT ![f] = FALSE] /\ UNCHANGED ticker
    /\ IF disabled[f] THEN troubled' = [troubled EXCEPT ![f] = TRUE] /\ UNCHANGED poll
       ELSE Be(f, [Idle EXCEPT !.pc = "token", !.attempt = 1, !.start = now]) /\ UNCHANGED troubled
    /\ UNCHANGED <<now, cached, holder, disabled, latest, faults, triggers>>

\* RecordPollCycle: the cycle bears the time the poll began.
Failed(f) == Be(f, Idle) /\ troubled' = [troubled EXCEPT ![f] = TRUE]

\* fetchWithRetry: an attempt that fails is made again after a wait.
AttemptFails(f) ==
    LET p == poll[f]
    IN IF p.attempt > Len(Retry) THEN Failed(f)
       ELSE /\ Be(f, [p EXCEPT !.pc = "backoff", !.due = now + Retry[p.attempt], !.attempt = @ + 1])
            /\ UNCHANGED troubled

Again(f) ==
    /\ poll[f].pc = "backoff" /\ poll[f].due = now
    /\ Be(f, [poll[f] EXCEPT !.pc = "token"])
    /\ UNCHANGED <<now, cached, holder, ticker, trigger, disabled, latest, troubled, faults, triggers>>

-----------------------------------------------------------------------------
(* Token, doJSON                                                            *)

GoodMutant(tok) == now < tok.until
Good(tok) == now + Lead < tok.until

Token(f) ==
    /\ poll[f].pc = "token" /\ holder = None
    /\ \E tok \in cached : Good(tok) /\ Be(f, [poll[f] EXCEPT !.pc = "request", !.since = now, !.expiry = tok.expiry])
    /\ UNCHANGED <<now, cached, holder, ticker, trigger, disabled, latest, troubled, faults, triggers>>

\* The lock is held while a token is fetched; everyone else waits.
Fetch(f) ==
    /\ poll[f].pc = "token" /\ holder = None /\ ~\E tok \in cached : Good(tok)
    /\ holder' = f /\ Be(f, [poll[f] EXCEPT !.pc = "fetching", !.since = now])
    /\ UNCHANGED <<now, cached, ticker, trigger, disabled, latest, troubled, faults, triggers>>

\* The server counts a token's life from when it issued it, the client from
\* when it heard of it.
Fetched(f) ==
    /\ poll[f].pc = "fetching" /\ holder' = None
    /\ \E issued \in poll[f].since .. now :
         /\ cached' = {[until |-> now + Life, expiry |-> issued + Life]}
         /\ Be(f, [poll[f] EXCEPT !.pc = "request", !.since = now, !.expiry = issued + Life])
    /\ UNCHANGED <<now, ticker, trigger, disabled, latest, troubled, faults, triggers>>

FetchFails(f) ==
    /\ poll[f].pc = "fetching" /\ faults < MaxFaults
    /\ holder' = None /\ faults' = faults + 1 /\ AttemptFails(f)
    /\ UNCHANGED <<now, cached, ticker, trigger, disabled, latest, triggers>>

RequestFails(f) ==
    /\ poll[f].pc = "request" /\ faults < MaxFaults
    /\ faults' = faults + 1 /\ AttemptFails(f)
    /\ UNCHANGED <<now, cached, holder, ticker, trigger, disabled, latest, triggers>>

\* A response without maps or time fails the poll at once.
Answered(f) ==
    /\ poll[f].pc = "request"
    /\ \E r \in Response :
         IF ~r.valid THEN faults < MaxFaults /\ faults' = faults + 1 /\ Failed(f) /\ UNCHANGED latest
         ELSE /\ Be(f, [poll[f] EXCEPT !.pc = "apply", !.since = now, !.resp = {r}])
              /\ \/ /\ latest' = [latest EXCEPT ![f] = {poll[f].start}]
                    /\ troubled' = [troubled EXCEPT ![f] = FALSE] /\ UNCHANGED faults
                 \/ /\ faults < MaxFaults /\ faults' = faults + 1
                    /\ troubled' = [troubled EXCEPT ![f] = TRUE] /\ UNCHANGED latest
    /\ UNCHANGED <<now, cached, holder, ticker, trigger, disabled, triggers>>

\* Apply may find the channel gone.
Applied(f) ==
    /\ poll[f].pc = "apply" /\ Be(f, Idle)
    /\ \/ UNCHANGED <<disabled, faults>>
       \/ faults < MaxFaults /\ faults' = faults + 1 /\ disabled' = [disabled EXCEPT ![f] = TRUE]
    /\ UNCHANGED <<now, cached, holder, ticker, trigger, latest, troubled, triggers>>

\* ClearHistory
Enable(f) ==
    /\ disabled[f] /\ disabled' = [disabled EXCEPT ![f] = FALSE]
    /\ UNCHANGED <<now, cached, holder, poll, ticker, trigger, latest, troubled, faults, triggers>>

\* What is due is done before time passes; a request takes one unit at most.
Due(f) ==
    \/ ticker[f].next = now
    \/ ~Busy(f) /\ (ticker[f].fired \/ trigger[f])
    \/ poll[f].pc = "token" /\ holder = None
    \/ poll[f].pc = "backoff" /\ poll[f].due = now
    \/ poll[f].pc \in {"fetching", "request", "apply"} /\ poll[f].since < now
Pass ==
    /\ now < MaxTime /\ ~\E f \in Feature : Due(f)
    /\ now' = now + 1
    /\ UNCHANGED <<cached, holder, poll, ticker, trigger, disabled, latest, troubled, faults, triggers>>

Next ==
    \/ Pass
    \/ \E f \in Feature : \/ Fire(f) \/ TriggerNow(f) \/ Tick(f) \/ Again(f) \/ Token(f) \/ Fetch(f) \/ Fetched(f)
                          \/ FetchFails(f) \/ RequestFails(f) \/ Answered(f) \/ Applied(f) \/ Enable(f)
\* Where the bound on time stops the model.
Ended == now = MaxTime
Spec == Init /\ [][Next]_vars

-----------------------------------------------------------------------------
(* PerBindingHealth                                                         *)

Healthy(f) == now < Grace \/ \E t \in latest[f] : now - t <= 2 * Interval

\* Types.
TypeOK ==
    /\ now \in 0 .. MaxTime /\ holder \in Feature \cup {None} /\ Cardinality(cached) <= 1
    /\ \A f \in Feature : /\ poll[f].pc \in {"wait", "token", "fetching", "request", "backoff", "apply"}
                          /\ poll[f].attempt \in 0 .. Len(Retry) + 1

\* authclient/client.go:81: only who holds the lock fetches, and a token that is
\* handed out is good at the server, though its life began before the client
\* counts it and others had to wait for it.
TokenHolds ==
    /\ \A f \in Feature : (poll[f].pc = "fetching") = (holder = f)
    /\ \A f \in Feature : (poll[f].pc = "request" /\ poll[f].since = now) => now < poll[f].expiry

\* main.go:434: once a poll of it has been recorded, a binding is told unhealthy
\* only if since then a poll failed, was skipped or went unrecorded, retries
\* and waits for the other's token included.
HealthTold == \A f \in Feature : (latest[f] # {} /\ ~troubled[f]) => Healthy(f)

\* platinum.go:56, :126, render.go:90: every buyer that is wanted has a line in
\* the item of its system, once; lines go by score, and whatever order the
\* buyers of a map come in, the item's hash is the same; the price that is
\* announced is that of a buyer that can be sold to.
SameMaps(r, s) == /\ r.at = s.at /\ Len(r.maps) = Len(s.maps)
                  /\ \A i \in DOMAIN r.maps : /\ r.maps[i].system = s.maps[i].system /\ r.maps[i].url = s.maps[i].url
                                              /\ ToSet(r.maps[i].buyers) = ToSet(s.maps[i].buyers)
ItemsTell ==
    \A f \in Feature : poll[f].since = now => \A r \in poll[f].resp :
        LET items == Items(r)
            due == {<<b.system, b.station>> : b \in {b \in UNION {Range(m.buyers) : m \in Range(r.maps)} : Wanted(b, r.at)}}
        IN /\ \A x, y \in items : x.identity = y.identity => x = y
           /\ due = UNION {{<<x.identity, b.station>> : b \in Range(x.buyers)} : x \in items}
           /\ \A x \in items : /\ \A i, j \in DOMAIN x.buyers : i < j => x.buyers[i].station # x.buyers[j].station
                                                                        /\ x.buyers[j].score <= x.buyers[i].score
                               /\ LET e == Embed(x) IN
                                    /\ Len(e.sell) + e.more = Cardinality({b \in Range(x.buyers) : b.price + b.demand > 0})
                                    /\ e.price > 0 => \E b \in Range(Usable(x)) : b.price = e.price
           /\ \A s \in Response : (s.valid /\ SameMaps(r, s)) => {StateHash(x) : x \in items} = {StateHash(x) : x \in Items(s)}
=============================================================================
