----------------------------- MODULE OpsOutages -----------------------------
(* edin-bot's ops alerts: an event of the bus goes over the bridge to the   *)
(* feature, which folds the events of one binding and reason into an        *)
(* outage, and each outage that changed is a snapshot for the board.        *)
(*                                                                          *)
(* Source: internal/edinbot/scheduler/opsbus.go, scheduler.go,              *)
(* features/ops_health.go, cmd/edin-bot/main.go                             *)
(*                                                                          *)
(* Nothing in the program publishes an event yet, so the events are any.    *)
EXTENDS Integers, Sequences, FiniteSets

CONSTANTS
    Binding, Watched,                \* all bindings, and those the feature is told to watch
    Reason,                          \* of failures
    BusRoom, BridgeRoom, OutRoom,    \* slots of the three channels
    MaxEvents, MaxRestarts           \* bounds

VARIABLES
    time,              \* the events published so far; an event's time
    bus, carry, bridge,
    live,              \* the feature's map: [key -> {} or {[started, last, resolved]}]
    todo,              \* the outages still to be flushed for the event in hand
    out,               \* snapshots for the scheduler
    board,             \* the messages of the binding: {} or {item}
    lost, missed,      \* an event was dropped; a snapshot could not be applied
    restarts,
    truth              \* [key -> when it began to fail: {} or {time}]
vars == <<time, bus, carry, bridge, live, todo, out, board, lost, missed, restarts, truth>>

Recovered == "poll_recovered"
Key == Binding \X Reason
Event == [binding : Binding, reason : Reason \cup {Recovered}, at : 1 .. MaxEvents]

Init ==
    /\ time = 0 /\ bus = <<>> /\ carry = {} /\ bridge = <<>> /\ out = <<>> /\ todo = {} /\ board = {}
    /\ live = [k \in Key |-> {}] /\ truth = [k \in Key |-> {}]
    /\ lost = FALSE /\ missed = FALSE /\ restarts = 0

-----------------------------------------------------------------------------

\* A subscriber that has no slot left misses the event.
Publish(b, r) ==
    /\ time < MaxEvents /\ time' = time + 1
    /\ IF Len(bus) < BusRoom THEN bus' = Append(bus, [binding |-> b, reason |-> r, at |-> time']) /\ UNCHANGED lost
       ELSE lost' = TRUE /\ UNCHANGED bus
    /\ truth' = IF r = Recovered THEN [k \in Key |-> IF k[1] = b THEN {} ELSE truth[k]]
                ELSE IF b \notin Watched \/ truth[<<b, r>>] # {} THEN truth
                ELSE [truth EXCEPT ![<<b, r>>] = {time'}]
    /\ UNCHANGED <<carry, bridge, live, todo, out, board, missed, restarts>>

\* The bridge has one event in hand while its own channel is full.
Carry ==
    /\ carry = {} /\ bus # <<>> /\ carry' = {Head(bus)} /\ bus' = Tail(bus)
    /\ UNCHANGED <<time, bridge, live, todo, out, board, lost, missed, restarts, truth>>
Bridge ==
    /\ Len(bridge) < BridgeRoom /\ carry' = {}
    /\ \E e \in carry : bridge' = Append(bridge, e)
    /\ UNCHANGED <<time, bus, live, todo, out, board, lost, missed, restarts, truth>>

\* Subscribe: a recovery resolves all that is open of its binding; any other
\* event is the newest of its outage, which it may begin.
Handle ==
    /\ todo = {} /\ bridge # <<>> /\ bridge' = Tail(bridge)
    /\ LET e == Head(bridge) k == <<e.binding, e.reason>>
           open == {j \in Key : j[1] = e.binding /\ \E o \in live[j] : ~o.resolved}
       IN IF e.binding \notin Watched THEN UNCHANGED <<live, todo>>
          ELSE IF e.reason = Recovered
          THEN /\ todo' = open
               /\ live' = [j \in Key |-> IF j \in open THEN {[o EXCEPT !.resolved = TRUE] : o \in live[j]} ELSE live[j]]
          ELSE /\ todo' = {k}
               /\ live' = [live EXCEPT ![k] = IF @ = {} THEN {[started |-> e.at, last |-> e.at, resolved |-> FALSE]}
                                              ELSE {[o EXCEPT !.last = e.at] : o \in @}]
    /\ UNCHANGED <<time, bus, carry, out, board, lost, missed, restarts, truth>>

\* flush, buildOpsItem: a resolved outage is forgotten once it was sent.
ForgetMutant(k) == UNCHANGED live
Forget(k) == live' = IF \E o \in live[k] : o.resolved THEN [live EXCEPT ![k] = {}] ELSE live
Flush(k) ==
    /\ k \in todo /\ Len(out) < OutRoom /\ todo' = todo \ {k}
    /\ \E o \in live[k] : out' = Append(out, [key |-> k, started |-> o.started, resolved |-> o.resolved])
    /\ Forget(k)
    /\ UNCHANGED <<time, bus, carry, bridge, board, lost, missed, restarts, truth>>

\* runEventDriven: Apply leaves the one item of the snapshot on the board.
Deliver ==
    /\ out # <<>> /\ out' = Tail(out)
    /\ \/ board' = {Head(out)} /\ UNCHANGED missed
       \/ missed' = TRUE /\ UNCHANGED board
    /\ UNCHANGED <<time, bus, carry, bridge, live, todo, lost, restarts, truth>>

\* registerFeatures, loadPriorOutages: the channels are new, and every message
\* of the board is an open outage.
Restart ==
    /\ restarts < MaxRestarts /\ restarts' = restarts + 1
    /\ bus' = <<>> /\ carry' = {} /\ bridge' = <<>> /\ out' = <<>> /\ todo' = {}
    /\ live' = [k \in Key |-> {[started |-> i.started, last |-> i.started, resolved |-> FALSE] : i \in {i \in board : i.key = k}}]
    /\ lost' = TRUE
    /\ UNCHANGED <<time, board, missed, truth>>

Next ==
    \/ \E b \in Binding, r \in Reason \cup {Recovered} : Publish(b, r)
    \/ Carry \/ Bridge \/ Handle \/ (\E k \in Key : Flush(k)) \/ Deliver \/ Restart
Spec == Init /\ [][Next]_vars

-----------------------------------------------------------------------------

Drained == bus = <<>> /\ carry = {} /\ bridge = <<>> /\ todo = {} /\ out = <<>>
\* Where the bound on events stops the model.
Ended == time = MaxEvents /\ Drained

\* Types.
TypeOK ==
    /\ time \in 0 .. MaxEvents /\ Cardinality(carry) <= 1 /\ Cardinality(board) <= 1 /\ todo \subseteq Key
    /\ Len(bus) <= BusRoom /\ Len(bridge) <= BridgeRoom /\ Len(out) <= OutRoom

\* ops_health.go:143: when every event has come through and none was dropped,
\* the map holds the outages that are open, each with the time of its first
\* failure since the binding last recovered; at any time nothing but what
\* awaits its last flush is resolved.
OutagesTold ==
    /\ (Drained /\ ~lost) => \A k \in Key : truth[k] = {o.started : o \in live[k]}
    /\ \A k \in Key : \A o \in live[k] : o.resolved => k \in todo

\* main.go:334: an outage that the board shows as open can still be resolved,
\* dropped events and restarts included: the map holds it under the time that
\* the message bears.
OpenIsLive ==
    (Drained /\ ~missed) => \A i \in board : ~i.resolved => \E o \in live[i.key] : o.started = i.started
=============================================================================
