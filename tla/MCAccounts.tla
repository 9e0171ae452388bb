------------------------------ MODULE MCAccounts ----------------------------
(* Instances of PkceStore, DesktopLogin, FrontierTokens, JournalIngest and  *)
(* Presence for TLC.  What they share is in other modules, so a behaviour   *)
(* is of one of them.                                                       *)
EXTENDS PkceStore, Sequences, TLC

CONSTANTS
    Session, Callback, Poller, PendingTtl, CompleteTtl, MaxTokens, MaxFaults, \* of DesktopLogin
    Server, Life, MaxJti, MaxGrant, MaxLost,                                  \* of FrontierTokens
    Capacity, Window,                                                         \* of TokenBucket
    Uploader, Batch, Kind, Datum, Back, Ahead, Retain, PageSize, MaxCalls, MaxErrors, \* of JournalIngest
    PresenceTtl, Timeout, MaxBeats                                            \* of Presence

\* Times, sizes and bounds are numbers; Frontier's tokens live for the minute
\* a record is kept at least; a batch is a sequence of events.
ASSUME LoginAssumption  == PendingTtl \in Nat /\ CompleteTtl \in Nat /\ MaxTokens \in Nat /\ MaxFaults \in Nat
ASSUME TokensAssumption == Life \in Nat \ {0} /\ MaxJti \in Nat /\ MaxGrant \in Nat /\ MaxLost \in Nat
ASSUME BucketAssumption == Capacity \in Nat /\ Window \in Nat
ASSUME IngestAssumption ==
    /\ Back \in Nat /\ Ahead \in Nat /\ Retain \in Nat /\ PageSize \in Nat /\ MaxCalls \in Nat /\ MaxErrors \in Nat
    /\ \A b \in Batch : b \in Seq([ts : Nat, kind : Kind, datum : Datum])
ASSUME BeatsAssumption  == PresenceTtl \in Nat /\ Timeout \in Nat /\ MaxBeats \in Nat

VARIABLES part,
    session, way, callback, poll, issued, failures, handed, repeats, wasted,
    valid, record, jtis, grants, lost, spent, req, given, astray, shared,
    rows, known, bucket, upload, calls, errors, reader, wrote, lapsed, dropped, acked, passes,
    key, stamp, beats, written, shown

loginVars  == <<session, way, callback, poll, issued, failures, handed, repeats, wasted>>
tokensVars == <<valid, record, jtis, grants, lost, spent, req, given, astray, shared>>
ingestVars == <<rows, known, upload, calls, errors, reader, wrote, lapsed, dropped, acked>>
beatVars   == <<key, stamp, beats, written, shown>>
pkceVars   == <<items, count, initiate, owed, sweep, used, doubles>>
bothVars   == <<bucket, passes>>

Ev(t, k, d) == [ts |-> t, kind |-> k, datum |-> d]
K == CHOOSE k \in Kind \ {""} : TRUE
L == CHOOSE k \in Kind \ {"", K} : TRUE
D == CHOOSE d \in Datum : TRUE
E == CHOOSE d \in Datum \ {D} : TRUE

\* A batch, another with its events the other way round, two events of one
\* second, one too late or too early, and one with a bad event in it.
Batches == {<<Ev(0, K, D), Ev(1, K, D)>>, <<Ev(1, K, E), Ev(0, K, D)>>, <<Ev(0, K, D), Ev(0, K, E)>>,
            <<Ev(2, L, D)>>, <<Ev(3, K, D)>>, <<Ev(1, L, D), Ev(0, "", D)>>}

Login  == INSTANCE DesktopLogin WITH time <- clock
Tokens == INSTANCE FrontierTokens WITH MaxClock <- MaxTime
Ingest == INSTANCE JournalIngest
Beats  == INSTANCE Presence WITH Beat <- Handler, Ttl <- PresenceTtl

MCInit == /\ Init /\ Login!Init /\ Tokens!Init /\ Ingest!Init /\ Beats!Init
          /\ part \in {"pkce", "login", "tokens", "ingest", "presence"}
MCNext ==
    \/ part = "pkce" /\ Next /\ UNCHANGED <<part, loginVars, tokensVars, ingestVars, beatVars, bothVars>>
    \/ part = "login" /\ Login!Next /\ UNCHANGED <<part, pkceVars, tokensVars, ingestVars, beatVars, bothVars>>
    \/ part = "tokens" /\ Tokens!Next /\ UNCHANGED <<part, pkceVars, loginVars, ingestVars, beatVars, bothVars>>
    \/ part = "ingest" /\ Ingest!Next /\ UNCHANGED <<part, pkceVars, loginVars, tokensVars, beatVars>>
    \/ part = "presence" /\ Beats!Next /\ UNCHANGED <<part, pkceVars, loginVars, tokensVars, ingestVars>>
MCSpec == MCInit /\ [][MCNext]_<<part, vars, loginVars, tokensVars, ingestVars, beatVars, bothVars>>

\* commander_client_auth.go:173: see TokenAccounted and SingleUse of
\* DesktopLogin.
LoginOnce == part = "login" => Login!TypeOK /\ Login!TokenAccounted /\ Login!SingleUse

\* commander_auth.go:691: see RecordKept and Renewable of FrontierTokens.
RecordsHold == part = "tokens" => Tokens!TypeOK /\ Tokens!RecordKept /\ Tokens!Renewable

\* commander_repository.go:166, commander_queries.go:88: see CountsAddUp,
\* AckedStored and PagesCover of JournalIngest.
UploadsHold == part = "ingest" => Ingest!TypeOK /\ Ingest!CountsAddUp /\ Ingest!AckedStored /\ Ingest!PagesCover

\* commander_ingest.go:23, commander_presence.go:52: see PresenceTells of
\* Presence; and the uploads, or heartbeats, that a limiter of one commander
\* has let through in any window.
PresenceHolds ==
    /\ part = "presence" => Beats!TypeOK /\ Beats!PresenceTells
    /\ Ingest!BurstBound(passes)

Symmetric == Permutations(Handler)
=============================================================================
