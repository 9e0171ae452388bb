------------------------------ MODULE Presence ------------------------------
(***************************************************************************)
(* Whether a commander's desktop client is there: heartbeats that refresh  *)
(* edin:presence:{fid} for a minute, and the web page's reads of it        *)
(* (internal/httpapi/commander_presence.go).                               *)
(*                                                                         *)
(* A heartbeat is stamped and then written; two of one commander may be    *)
(* written in the other order.  A write has two seconds, one unit here.    *)
(***************************************************************************)
EXTENDS TokenBucket

CONSTANTS
    Beat,    \* goroutines serving heartbeats
    Ttl,     \* presenceTTL
    Timeout, \* the context's two seconds
    MaxTime, \* bound on the clock
    MaxBeats \* bound on heartbeats

VARIABLES
    clock,   \* time.Now()
    key,     \* the Redis key, or none
    bucket,  \* the heartbeat limiter's bucket
    stamp,   \* per goroutine, the time in the record it is to write
    beats,   \* heartbeats so far
    written, \* history: when the key was last written
    shown,   \* the last answer to the page, if any
    passes   \* history: when heartbeats were let through

vars == <<clock, key, bucket, stamp, beats, written, shown, passes>>

Time == 0..MaxTime
Opt(S) == {{}} \cup {{x} : x \in S}

\* The key and the requests have their types.
TypeOK ==
    /\ clock \in Time /\ beats \in 0..MaxBeats
    /\ key \in Opt([seen : Time, till : 0..MaxTime + Ttl])
    /\ bucket \in Buckets(0..MaxTime + Window)
    /\ stamp \in [Beat -> Opt(Time)]
    /\ written \in Opt(Time)
    /\ shown \in Opt([live : BOOLEAN, seen : Opt(Time), at : Time])

Init ==
    /\ clock = 0 /\ key = {} /\ bucket = {} /\ stamp = [b \in Beat |-> {}]
    /\ beats = 0 /\ written = {} /\ shown = {} /\ passes = << >>

\* handleCommanderHeartbeat: the limiter, and the record's time ...
Stamped(b) ==
    /\ stamp[b] = {} /\ beats < MaxBeats /\ beats' = beats + 1
    /\ bucket' = After(bucket, clock)
    /\ IF Allowed(bucket, clock)
       THEN /\ stamp' = [stamp EXCEPT ![b] = {clock}]
            /\ passes' = Append(passes, clock)
       ELSE UNCHANGED <<stamp, passes>>
    /\ UNCHANGED <<clock, key, written, shown>>

\* ... and the key written with its TTL, or not: the call fails or is late.
Set(b) ==
    /\ \E t \in stamp[b] : key' = {[seen |-> t, till |-> clock + Ttl]}
    /\ written' = {clock}
    /\ stamp' = [stamp EXCEPT ![b] = {}]
    /\ UNCHANGED <<clock, bucket, beats, shown, passes>>

SetFails(b) ==
    /\ stamp[b] # {} /\ stamp' = [stamp EXCEPT ![b] = {}]
    /\ UNCHANGED <<clock, key, bucket, beats, written, shown, passes>>

\* handleCommanderPresence: the key's record, or not live.
See ==
    /\ shown' = {[live |-> key # {}, seen |-> {k.seen : k \in key}, at |-> clock]}
    /\ UNCHANGED <<clock, key, bucket, stamp, beats, written, passes>>

\* Time passes; Redis drops a key that has run out, and no write is later
\* than its context.
Tick ==
    /\ clock < MaxTime /\ clock' = clock + 1
    /\ \A b \in Beat : \A t \in stamp[b] : clock < t + Timeout
    /\ key' = {k \in key : clock < k.till}
    /\ UNCHANGED <<bucket, stamp, beats, written, shown, passes>>

Next == \/ \E b \in Beat : Stamped(b) \/ Set(b) \/ SetFails(b)
        \/ See \/ Tick

Spec == Init /\ [][Next]_vars

\* commander_presence.go:19-25: a commander is live for the page for exactly
\* the TTL after the last write, and then was seen no longer ago than the TTL
\* and the time a write may take, in whatever order heartbeats were written.
PresenceTells ==
    \A s \in shown : s.at = clock =>
        /\ s.live => /\ \A t \in s.seen : clock =< t + Ttl + Timeout
                     /\ \E t \in written : clock =< t + Ttl
        /\ (\E t \in written : t < clock /\ clock =< t + Ttl) => s.live

=============================================================================
