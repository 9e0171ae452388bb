------------------------------- MODULE MCKaine ------------------------------
(* Instances of KaineObjectives, MiningMaps and KaineChat for TLC.  They    *)
(* share nothing but the pool, so a behaviour is of one of them.            *)
EXTENDS KaineObjectives, TLC

CONSTANTS
    Key, Known, Value, MaxId, MaxRequests, MaxFaults,           \* of MiningMaps
    NonceTtl, AuthWait, Deadline, Ping, MaxRun, MaxMoment, MaxTurns, MaxFailures, MaxSessions \* of KaineChat

\* Times and bounds are numbers, and a ping comes before the read deadline.
ASSUME ChatAssumption ==
    /\ NonceTtl \in Nat /\ AuthWait \in Nat /\ Deadline \in Nat /\ Ping \in Nat \ {0} /\ Ping =< Deadline
    /\ MaxRun \in Nat /\ MaxMoment \in Nat /\ MaxTurns \in Nat /\ MaxFailures \in Nat /\ MaxSessions \in Nat

VARIABLES part, maps, serial, imports, requests, faults,
    clock, nonces, issued, admitted, conn, sessions, active, turns, failures, lost
mapsVars == <<maps, serial, imports, requests, faults>>
chatVars == <<clock, nonces, issued, admitted, conn, sessions, active, turns, failures, lost>>

Row(k, v, l) == [key |-> k, text |-> v, list |-> l]
V1 == CHOOSE v \in Value : TRUE
V2 == CHOOSE v \in Value \ {V1} : TRUE
K1 == CHOOSE k \in Known : TRUE
K2 == CHOOSE k \in Key \ Known : TRUE

\* Two rows of one map, the second without lists; a map galaxy.* does not know
\* and one without a body.
Files == {<<Row({K1}, V1, {V1}), Row({K1}, V2, {})>>, <<Row({K2}, V2, {}), Row({K1}, V2, {V2})>>,
          <<Row({}, V1, {}), Row({K1}, V1, {})>>}

Maps == INSTANCE MiningMaps WITH File <- Files, MaxOps <- MaxRequests, ops <- requests

Chat == INSTANCE KaineChat WITH Conn <- Handler, Nonce <- Id, MaxTime <- MaxMoment, MaxFaults <- MaxFailures,
            now <- clock, store <- sessions, faults <- failures

MCInit == Init /\ Maps!Init /\ Chat!Init /\ part \in {"objectives", "maps", "chat"}
\* Nonces are of the first moment: the ones a behaviour of so few moments may
\* see expire.
EarlyNonce == issued' # issued => clock = 0
MCNext == \/ part = "objectives" /\ Next /\ UNCHANGED <<part, mapsVars, chatVars>>
          \/ part = "maps" /\ Maps!Next /\ UNCHANGED <<part, vars, chatVars>>
          \/ part = "chat" /\ Chat!Next /\ EarlyNonce /\ UNCHANGED <<part, vars, mapsVars>>
MCSpec == MCInit /\ [][MCNext]_<<part, vars, mapsVars, chatVars>>

\* kaine.go:1399-1401, store.go:901: see ImportMerges and ReportKept of
\* MiningMaps.
ImportsHold == Maps!ImportMerges /\ [](Maps!TypeOK /\ Maps!ReportKept)

\* kaine_chat_nonce.go:98, kaine_chat.go:226: see NonceOnce, LostByLongTurn and
\* ContextTells of KaineChat.
ChatHolds == part = "chat" => Chat!TypeOK /\ Chat!NonceOnce /\ Chat!LostByLongTurn /\ Chat!ContextTells

Symmetric == Permutations(Handler) \cup Permutations(Id)
=============================================================================
