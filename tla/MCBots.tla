------------------------------- MODULE MCBots -------------------------------
(* Instances of BotPublisher, BotWatcher, BotAlerts and OpsOutages for the  *)
(* safety properties.  They share no state, so a behaviour is of one of     *)
(* them.                                                                    *)
EXTENDS BotPublisher, Sequences, TLC

\* WatchChannel and WatchId are the channels and message ids of BotWatcher.
CONSTANTS
    WatchChannel, WatchId, Slug, Hash, Absent, Handler, Cap, MaxCommands, MaxMoves,
    Feature, Response, Retry, Interval, Life, Lead, Grace, MaxFresh, MaxShown, MaxTime, MaxTriggers, LastTrigger,
    Binding, Watched, Reason, BusRoom, BridgeRoom, OutRoom, MaxEvents, MaxRestarts

\* authclient/client.go:63-67: a token is fetched anew the longest request's time
\* before it expires, or sooner, and lives for longer than that.
ASSUME AlertAssumption == /\ "none" \notin Feature /\ MaxTime \in Nat /\ Retry \in Seq(Nat)
                          /\ Life \in Nat \ {0, 1} /\ Lead \in Nat \ {0}
\* scheduler.go: the channels have slots, and a recovery is not a failure.
ASSUME OutageAssumption == /\ Watched \subseteq Binding /\ "poll_recovered" \notin Reason
                           /\ {BusRoom, BridgeRoom, OutRoom, MaxEvents, MaxRestarts} \subseteq Nat

VARIABLES part, wlive, wrows, wreachable, wpc, wtodo, wfaults,
    data, cmd, at, seen, commands, moves, lost, drifted,
    now, cached, holder, poll, ticker, trigger, skip, latest, troubled, afaults, triggers,
    sent, bus, carry, bridge, outages, flushes, out, board, missed, unapplied, restarts, truth

watchVars == <<wlive, wrows, wreachable, wpc, wtodo, wfaults, data, cmd, at, seen, commands, moves, lost, drifted>>
alertVars  == <<now, cached, holder, poll, ticker, trigger, skip, latest, troubled, afaults, triggers>>
outageVars == <<sent, bus, carry, bridge, outages, flushes, out, board, missed, unapplied, restarts, truth>>

\* Enough ids that a post never waits for one: two items, the messages the
\* bounded faults and clear requests can strand, and the one in flight.
Ids      == 1..9
WatchIds == 1..6

W == INSTANCE BotWatcher WITH Channel <- WatchChannel, MsgId <- WatchId, live <- wlive,
         rows <- wrows, reachable <- wreachable, pc <- wpc, todo <- wtodo, faults <- wfaults

\* Two answers that differ only in the order of the buyers, and one that has
\* no maps: stations that two maps list, that are no port, whose data is old or
\* has no time, and that cannot be sold to.
Buyer(sys, st, rank, score, price, demand, age) ==
    [system |-> sys, station |-> st, rank |-> rank, score |-> score, price |-> price, demand |-> demand,
     age |-> age, site |-> st = "Site"]
Mapped(sys, url, buyers) == [system |-> sys, url |-> url, buyers |-> buyers]
A1 == Buyer("S", "A", 1, 85, 0, 0, {8})
A2 == Buyer("S", "B", 2, 40, 7, 1, {9})
A3 == Buyer("S", "C", 3, 40, 9, 0, {2})
A4 == Buyer("T", "A", 1, 10, 3, 3, {9})
A5 == Buyer("T", "D", 4, 50, 8, 3, {})
A6 == Buyer("S", "D", 4, 30, 0, 5, {7})
A7 == Buyer("S", "Site", 9, 90, 9, 9, {9})
Responses ==
    {[valid |-> TRUE, at |-> 10, maps |-> <<Mapped("M", "", <<A1, A2, A3, A7>>), Mapped("N", "u", <<A2, A4, A5, A6>>)>>],
     [valid |-> TRUE, at |-> 10, maps |-> <<Mapped("M", "", <<A3, A2, A7, A1>>), Mapped("N", "u", <<A6, A5, A4, A2>>)>>],
     [valid |-> FALSE, at |-> 10, maps |-> <<>>]}

Retries == <<1>>

Alerts  == INSTANCE BotAlerts WITH disabled <- skip, faults <- afaults
Outages == INSTANCE OpsOutages WITH time <- sent, live <- outages, todo <- flushes, lost <- missed, missed <- unapplied

\* No action compares the states of two systems, so one state to begin with
\* is enough.
MCInit == /\ Init /\ W!Init /\ Alerts!Init /\ Outages!Init /\ part \in {"binding", "watch", "alerts", "outages"}
          /\ data = [s \in Slug |-> CHOOSE h \in Hash : TRUE]
          /\ part # "binding" => bound = CHOOSE c \in Channel : TRUE
\* A clear request meets one fault at most.
ClearedOnce == clears' + faults' =< MaxFaults
MCNext == \/ part = "binding" /\ Next /\ ClearedOnce /\ UNCHANGED <<part, watchVars, alertVars, outageVars>>
          \/ part = "watch" /\ W!Next /\ UNCHANGED <<part, vars, alertVars, outageVars>>
          \/ part = "alerts" /\ Alerts!Next /\ UNCHANGED <<part, vars, watchVars, outageVars>>
          \/ part = "outages" /\ Outages!Next /\ UNCHANGED <<part, vars, watchVars, alertVars>>
          \* The bounds on time and on events end these two.
          \/ (Alerts!Ended \/ Outages!Ended) /\ UNCHANGED <<part, vars, watchVars, alertVars, outageVars>>
MCSpec == MCInit /\ [][MCNext]_<<part, vars, watchVars, alertVars, outageVars>>

\* handler.go:163, :265, loop.go:135: see WatchesTell and WatchesFew of BotWatcher.
WatchesHold == part = "watch" => W!WatchesTell /\ W!WatchesFew

\* authclient/client.go:81, main.go:434, platinum.go:56: see TokenHolds,
\* HealthTold and ItemsTell of BotAlerts.  ItemsTell is about the answers alone:
\* every one is given where nothing has failed yet.
AlertsHold ==
    /\ part = "alerts" => Alerts!TypeOK /\ Alerts!TokenHolds /\ Alerts!HealthTold
    /\ part = "alerts" /\ afaults = 0 => Alerts!ItemsTell

\* ops_health.go:143, main.go:334: see OutagesTold and OpenIsLive of OpsOutages.
OutagesHold == part = "outages" => Outages!TypeOK /\ Outages!OutagesTold /\ Outages!OpenIsLive

\* Items are interchangeable, and so are channels and the slash commands'
\* goroutines; no action compares one with a particular other.
Symmetric == Permutations(Identity) \cup Permutations(Channel) \cup Permutations(Handler)
=============================================================================
