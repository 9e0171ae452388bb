----------------------------- MODULE PageCache ------------------------------
(* The powerplay page: all systems, kept whole in memory and refreshed every *)
(* five minutes by one goroutine; requests only read.                        *)
(*                                                                          *)
(* Source: internal/httpapi/server.go, startPowerplayRefresh,                *)
(* refreshPowerplayCache, handlePowerplay.                                   *)
EXTENDS Integers, FiniteSets

CONSTANTS Interval,           \* powerplayRefreshInterval
          MaxQuery,           \* the longest a refresh takes
          MaxTime, MaxFaults  \* bounds

ASSUME PageAssumption == Interval \in Nat \ {0} /\ MaxQuery \in Nat /\ MaxTime \in Nat /\ MaxFaults \in Nat

VARIABLES now,
          power,      \* powerplayCacheData, powerplayCacheTime; nil is {}
          loop,       \* the refreshing goroutine, its ticker's next tick and the one kept for it
          shown,      \* what a request has been given last
          faults, failed \* failed refreshes

vars == <<now, power, loop, shown, faults, failed>>

Opt(S) == {{}} \cup {{x} : x \in S}

Init == /\ now = 0 /\ faults = 0 /\ failed = FALSE /\ shown = {} /\ power = {}
        /\ loop = [pc |-> "due", got |-> {}, since |-> 0, next |-> {}, kept |-> 0]

Fault == faults < MaxFaults /\ faults' = faults + 1
Fine  == UNCHANGED faults

RefreshRead ==
    /\ loop.pc = "due"
    /\ loop' = [loop EXCEPT !.pc = "store", !.got = {now}, !.since = now]
    /\ Fine /\ UNCHANGED <<now, power, shown, failed>>

\* The first refresh done, the ticker is started; a tick that came during a
\* refresh is in its channel.
Done == [pc |-> IF loop.kept = 1 THEN "due" ELSE "wait", got |-> {}, since |-> loop.since, kept |-> 0,
         next |-> IF loop.next = {} THEN {now + Interval} ELSE loop.next]

\* Mutant: a refresh that failed takes the cache with it.
RefreshFailsMutant ==
    /\ loop.pc \in {"due", "store"} /\ Fault /\ loop' = Done /\ failed' = TRUE /\ power' = {}
    /\ UNCHANGED <<now, shown>>

RefreshFails ==
    /\ loop.pc \in {"due", "store"} /\ Fault /\ loop' = Done /\ failed' = TRUE
    /\ UNCHANGED <<now, power, shown>>

\* Mutant: a refresh leaves a full cache alone.
RefreshStoreMutant ==
    /\ loop.pc = "store" /\ loop' = Done
    /\ power' = IF power # {} THEN power ELSE {[read |-> t, at |-> now] : t \in loop.got}
    /\ Fine /\ UNCHANGED <<now, shown, failed>>

RefreshStore ==
    /\ loop.pc = "store" /\ loop' = Done
    /\ power' = {[read |-> t, at |-> now] : t \in loop.got}
    /\ Fine /\ UNCHANGED <<now, shown, failed>>

\* ctx.Done: the server is shutting down; a tick may be there as well.
RefreshStop ==
    /\ loop.pc \in {"wait", "due"} /\ loop.next # {} /\ Fault
    /\ loop' = [loop EXCEPT !.pc = "stopped"] /\ failed' = TRUE
    /\ UNCHANGED <<now, power, shown>>

\* handlePowerplay: 503 as long as there is nothing.
Show ==
    /\ shown' = {[read |-> x.read, at |-> now] : x \in power}
    /\ Fine /\ UNCHANGED <<now, power, loop, failed>>

\* A refresh starts when it is due, and takes no longer than MaxQuery; the
\* channel has room for one tick.
Tick ==
    /\ now < MaxTime /\ now' = now + 1 /\ loop.pc # "due"
    /\ loop.pc = "store" => now - loop.since < MaxQuery
    /\ loop' = IF now' \in loop.next
               THEN [loop EXCEPT !.next = {now' + Interval}, !.pc = IF @ = "wait" THEN "due" ELSE @,
                                 !.kept = IF loop.pc = "store" THEN 1 ELSE @]
               ELSE loop
    /\ UNCHANGED <<power, shown, faults, failed>>

Next == RefreshRead \/ RefreshFails \/ RefreshStore \/ RefreshStop \/ Show \/ Tick
Spec == Init /\ [][Next]_vars

-----------------------------------------------------------------------------

\* Types.
TypeOK ==
    /\ now \in 0 .. MaxTime /\ faults \in 0 .. MaxFaults /\ failed \in BOOLEAN
    /\ \A x \in power \cup shown : x.read \in 0 .. now /\ x.at \in x.read .. now
    /\ \A x, y \in power : x = y
    /\ loop \in [pc : {"due", "store", "wait", "stopped"}, got : Opt(0 .. now), since : 0 .. now, kept : 0 .. 1,
                 next : Opt(0 .. MaxTime + Interval)]

\* server.go:1150, :1174, :1232: a request that finds the page finds one at
\* least as new as those before it, whatever refreshes have failed meanwhile.
PageStays == [][\A x \in shown : \E y \in shown' : y.read >= x.read]_vars

\* server.go:1155: as long as no refresh has failed, what is served is not older
\* than the interval and two queries: its own, when the ticker is started only
\* after it, and the next one's.
PageFresh == ~failed => \A x \in shown : x.at - x.read <= Interval + 2 * MaxQuery

\* server.go:1155, :1169: the types, and pages that are fresh.
PageHolds == TypeOK /\ PageFresh
=============================================================================
