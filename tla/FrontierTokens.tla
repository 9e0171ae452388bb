---------------------------- MODULE FrontierTokens --------------------------
(***************************************************************************)
(* Frontier's tokens behind a commander's session: edin:frontier_token:    *)
(* {jti}, written at login and moved to a new session's key, renewed or    *)
(* not, by /auth/refresh (internal/httpapi/commander_auth.go,              *)
(* internal/frontier/client.go).  CommanderSessions has the same requests' *)
(* calls to the sets of session ids; here they are one step, and what      *)
(* counts is time.                                                         *)
(*                                                                         *)
(* One unit of time is the minute that refresh makes a key last at least.  *)
(* A session's own 24 hours are longer than the runs.                      *)
(***************************************************************************)
EXTENDS Naturals, FiniteSets, Sequences

CONSTANTS
    Server,   \* goroutines serving refreshes
    Life,     \* expires_in of Frontier's access tokens
    MaxClock, \* bound on the clock
    MaxJti,   \* bound on sessions
    MaxGrant, \* bound on Frontier's answers
    MaxLost   \* bound on failed calls

VARIABLES
    clock,  \* time.Now()
    valid,  \* sessions whose token Validate accepts
    record, \* edin:frontier_token:{jti}
    jtis, grants, lost, \* sessions, grants and failures so far
    spent,  \* grants whose refresh token Frontier has taken
    req,    \* the refresh each goroutine serves
    given,  \* history: since when each session is and until when its grant lives
    astray, \* history: sessions whose record was not written
    shared  \* history: grants that two sessions came by, or that were lost

vars == <<clock, valid, record, jtis, grants, lost, spent, req, given, astray, shared>>

Jti    == 1..MaxJti
Grant  == 1..MaxGrant
\* A grant is an access token and its refresh token; exp as in the record,
\* till as Redis has it.
Record == [grant : Grant, exp : Nat, till : Nat]
Refresh == [old : Jti, grant : Grant, exp : Nat, renewed : BOOLEAN]

\* Records, sessions and requests have their types; a refresh that has renewed
\* its grant has one whose refresh token is good.
TypeOK ==
    /\ clock \in 0..MaxClock /\ jtis \in 0..MaxJti /\ grants \in 0..MaxGrant /\ lost \in 0..MaxLost
    /\ valid \subseteq 1..jtis /\ astray \subseteq 1..jtis
    /\ DOMAIN record \subseteq 1..jtis
    /\ \A j \in DOMAIN record : record[j] \in Record /\ record[j].grant =< grants
    /\ DOMAIN given = 1..jtis /\ \A j \in 1..jtis : given[j].at =< clock
    /\ spent \subseteq 1..grants /\ shared \subseteq 1..grants
    /\ \A h \in Server : /\ Cardinality(req[h]) =< 1 /\ req[h] \subseteq Refresh
                         /\ \A r \in req[h] : r.renewed => r.grant \notin spent

Init ==
    /\ clock = 0 /\ valid = {} /\ record = << >> /\ jtis = 0 /\ grants = 0 /\ lost = 0
    /\ spent = {} /\ req = [h \in Server |-> {}] /\ given = << >> /\ astray = {} /\ shared = {}

Lose == lost < MaxLost /\ lost' = lost + 1
Keep == UNCHANGED lost

Stored(j, r) == [i \in DOMAIN record \cup {j} |-> IF i = j THEN r ELSE record[i]]

\* The callback: Frontier's tokens and a session over them.  The record's TTL
\* is the access token's lifetime; that it could not be written is logged.
Login ==
    /\ jtis < MaxJti /\ grants < MaxGrant
    /\ jtis' = jtis + 1 /\ grants' = grants + 1
    /\ valid' = valid \cup {jtis + 1}
    /\ \/ /\ Keep /\ UNCHANGED astray
          /\ record' = Stored(jtis + 1, [grant |-> grants + 1, exp |-> clock + Life, till |-> clock + Life])
       \/ /\ Lose /\ astray' = astray \cup {jtis + 1} /\ UNCHANGED record
    /\ given' = Append(given, [at |-> clock, exp |-> clock + Life])
    /\ UNCHANGED <<clock, spent, req, shared>>

\* handleCommanderAuthRefresh, steps 1 to 6: the session is valid and its
\* record read; without one the answer is to log in again.
RefreshRead(h) ==
    /\ req[h] = {}
    /\ \E j \in valid \cap DOMAIN record :
         req' = [req EXCEPT ![h] =
           {[old |-> j, grant |-> record[j].grant, exp |-> record[j].exp, renewed |-> FALSE]}]
         /\ shared' = shared \cup {record[j].grant : g \in {g \in Server : \E r \in req[g] : r.old = j}}
    /\ UNCHANGED <<clock, valid, record, jtis, grants, lost, spent, given, astray>>

\* time.Now().After(expiresAt): expires_at has lost its fraction of a second,
\* so that in the last instant of the token's life it may be either.
MayBeOver(r) == clock >= r.exp
MayBeLive(r) == clock =< r.exp

Renewed(r) == grants + 1

\* Step 6: over, and Frontier renews it, unless the call fails or another has
\* had the refresh token.
RefreshRenew(h) ==
    /\ \E r \in req[h] :
         /\ ~r.renewed /\ MayBeOver(r)
         /\ \/ /\ Keep /\ r.grant \notin spent /\ grants < MaxGrant
               /\ grants' = grants + 1 /\ spent' = spent \cup {r.grant}
               /\ req' = [req EXCEPT ![h] =
                    {[r EXCEPT !.grant = Renewed(r), !.renewed = TRUE]}]
            \/ /\ Keep \/ Lose
               /\ r.grant \in spent \/ lost' # lost
               /\ req' = [req EXCEPT ![h] = {}] /\ UNCHANGED <<grants, spent>>
    /\ UNCHANGED <<clock, valid, record, jtis, given, astray, shared>>

\* Mutant: the old record's remaining TTL is kept, a minute or not.
MinimumMutant(r) == r.exp
\* Step 10, the TTL of a record that is moved: what is left, or a minute.
Minimum(r) == IF r.exp < clock + 1 THEN clock + 1 ELSE r.exp

Revoked(r) == {r.old}

\* The grant the old session is left with, if a renewal is not carried through
\* or the old session stays; another refresh of it may have happened as well.
Surrendered(r) == {record[i].grant : i \in {r.old} \cap DOMAIN record}

\* Steps 8 to 12: a new session, the old one revoked, and the record under the
\* new id.  The old one's stays for its time.  A failure to revoke or to
\* store is logged.
RefreshIssue(h) ==
    /\ \E r \in req[h] :
         LET new   == jtis + 1
             exp   == IF r.renewed THEN clock + Life ELSE r.exp
             till  == IF r.renewed THEN exp ELSE Minimum(r)
         IN
         /\ r.renewed \/ MayBeLive(r)
         /\ jtis < MaxJti /\ jtis' = new
         /\ given' = Append(given, [at |-> clock, exp |-> exp])
         /\ \/ /\ Keep /\ UNCHANGED astray
               /\ valid' = (valid \ Revoked(r)) \cup {new}
               /\ record' = Stored(new, [grant |-> r.grant, exp |-> exp, till |-> till])
               /\ UNCHANGED shared
            \/ /\ Lose /\ UNCHANGED astray
               /\ valid' = valid \cup {new}
               /\ record' = Stored(new, [grant |-> r.grant, exp |-> exp, till |-> till])
               /\ shared' = shared \cup Surrendered(r)
            \/ /\ Lose /\ astray' = astray \cup {new}
               /\ valid' = (valid \ Revoked(r)) \cup {new}
               /\ UNCHANGED <<record, shared>>
    /\ req' = [req EXCEPT ![h] = {}]
    /\ UNCHANGED <<clock, grants, spent>>

\* Logging out revokes the session; its record stays.
Logout ==
    /\ \E j \in valid : valid' = valid \ {j}
    /\ UNCHANGED <<clock, record, jtis, grants, lost, spent, req, given, astray, shared>>

Pass ==
    /\ clock < MaxClock /\ clock' = clock + 1
    /\ record' = [j \in {i \in DOMAIN record : record[i].till >= clock + 1} |-> record[j]]
    /\ UNCHANGED <<valid, jtis, grants, lost, spent, req, given, astray, shared>>

\* The request's client leaves, or the process goes down.
Abandon(h) ==
    /\ Lose /\ req[h] # {}
    /\ shared' = shared \cup UNION {Surrendered(r) : r \in req[h]}
    /\ req' = [req EXCEPT ![h] = {}]
    /\ UNCHANGED <<clock, valid, record, jtis, grants, spent, given, astray>>

Next == \/ Login \/ Logout \/ Pass
        \/ \E h \in Server : RefreshRead(h) \/ RefreshRenew(h) \/ RefreshIssue(h) \/ Abandon(h)

Spec == Init /\ [][Next]_vars

-----------------------------------------------------------------------------
(* Properties                                                              *)

\* commander_auth.go:749-776: a valid session whose record was written has it
\* for as long as its access token lives, and for a minute at least, however
\* the record came from session to session.
RecordKept ==
    \A j \in valid \ astray :
        (clock =< given[j].exp \/ clock =< given[j].at + 1) => j \in DOMAIN record

\* commander_auth.go:678-694: the refresh token in a valid session's record is
\* good, unless a refresh of that session is under way, two of one session
\* raced, or one was not carried through.
Renewable ==
    \A j \in valid \cap DOMAIN record :
        \/ record[j].grant \notin spent \/ record[j].grant \in shared
        \/ \E h \in Server : \E r \in req[h] : r.old = j /\ r.renewed

=============================================================================
