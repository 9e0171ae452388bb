------------------------- MODULE CommanderSessions -------------------------
(***************************************************************************)
(* Commander session tokens: signing, refreshing, logging out, and the two *)
(* Redis sets an admin's lockout works through                             *)
(* (internal/auth/commander_jwt.go, internal/httpapi/commander_auth.go,    *)
(* commander_session.go and kaine_admin_commanders.go).                    *)
(*                                                                         *)
(* A token is a signed JWT: the server keeps no list of them.  It keeps    *)
(* commander:jtis:{fid}, the tokens a lockout has to revoke, and           *)
(* edin:revoked_jtis, the tokens Validate turns away; both are Redis sets  *)
(* with one TTL for the whole set.  Every HTTP request runs in a goroutine *)
(* of its own, and each action below is one call to Redis or Postgres.     *)
(***************************************************************************)
EXTENDS Naturals

LOCAL INSTANCE TLC

CONSTANTS
    Fid,          \* commanders
    Jti,          \* token ids (uuid.NewString)
    Handler,      \* goroutines serving requests
    Life,         \* CommanderAuth.JWTExpiry
    Day,          \* the 24 h that Expire and revokeAllSessions use
    MaxTime,      \* bound on the clock
    MaxFaults,    \* bound on failed calls and abandoned requests
    MaxRequests   \* bound on the requests served

ASSUME FidAssumption  == Fid # {}
ASSUME JtiAssumption  == Jti \subseteq Nat
\* Life and Day are both 24 h as deployed (config.go:612, all.yml:97).
ASSUME LifeAssumption == Life \in Nat \ {0} /\ Day \in Nat /\ Life =< Day
ASSUME BoundAssumption ==
    MaxTime \in Nat /\ MaxFaults \in Nat /\ MaxRequests \in Nat

\* A set without a TTL, as SADD creates it, outlasts every run.
Forever == MaxTime + Day + 1

Token == [jti : Jti, fid : Fid, exp : Nat]

VARIABLES
    now,        \* the clock
    tokens,     \* tokens signed so far
    held,       \* token ids that reached a client
    tracked,    \* commander:jtis:{fid}
    trackTill,  \* ... and when Redis drops the set
    revoked,    \* edin:revoked_jtis
    revokeTill, \* ... and when Redis drops the set
    frontier,   \* edin:frontier_token:{jti}
    approved,   \* commander.commanders.approved
    req,        \* the request each goroutine is serving
    faults, requests,   \* used up so far (bounds the model)
    astray,     \* history: tokens a failed call or an expired set let go
    locked      \* history: commanders locked out with no request under way

vars == <<now, tokens, held, tracked, trackTill, revoked, revokeTill, frontier,
          approved, req, faults, requests, astray, locked>>

trackVars  == <<tracked, trackTill>>
revokeVars == <<revoked, revokeTill>>
issueVars  == <<now, tokens, approved>>
boundVars  == <<faults, requests>>

\* The token a request came with and the one signed for it are sets of at
\* most one; todo holds what a lockout listed and has still to revoke, and
\* clean says that no other request for the commander got in its way.
LoginPhase   == {"resolve", "login-track", "login-expire", "login-store"}
RefreshPhase == {"lookup", "issue", "revoke", "track", "untrack", "expire", "store"}
LogoutPhase  == {"out-revoke", "out-untrack"}
LockPhase    == {"list", "kill", "del"}
Request == [pc : {"idle"} \cup LoginPhase \cup RefreshPhase \cup LogoutPhase \cup LockPhase,
            fid : Fid, old : SUBSET Jti, new : SUBSET Jti,
            todo : SUBSET Jti, till : Nat, clean : BOOLEAN]
NoRequest == [pc |-> "idle", fid |-> CHOOSE f \in Fid : TRUE, old |-> {}, new |-> {},
              todo |-> {}, till |-> 0, clean |-> FALSE]

Signed == {t.jti : t \in tokens}

\* What the program keeps has its type, and no client or Redis set names a
\* token that was never signed.
TypeOK ==
    /\ now \in Nat
    /\ tokens \subseteq Token
    /\ held \subseteq Signed
    /\ tracked \in [Fid -> SUBSET Signed] /\ trackTill \in [Fid -> Nat]
    /\ revoked \subseteq Signed /\ revokeTill \in Nat
    /\ frontier \subseteq Signed
    /\ approved \in [Fid -> BOOLEAN]
    /\ req \in [Handler -> Request]
    /\ faults \in Nat /\ requests \in Nat
    /\ astray \subseteq Jti /\ locked \subseteq Fid

Init ==
    /\ now = 0 /\ tokens = {} /\ held = {}
    /\ tracked = [f \in Fid |-> {}] /\ trackTill = [f \in Fid |-> Forever]
    /\ revoked = {} /\ revokeTill = Forever
    /\ frontier = {}
    /\ approved \in [Fid -> BOOLEAN]
    /\ req = [h \in Handler |-> NoRequest]
    /\ faults = 0 /\ requests = 0
    /\ astray = {} /\ locked = {}

Fault   == faults < MaxFaults /\ faults' = faults + 1 /\ UNCHANGED requests
NoFault == UNCHANGED boundVars

-----------------------------------------------------------------------------
(* Tokens and the two Redis sets                                           *)

\* Validate: the signature and the issuer are always good here.
Alive(t) == now < t.exp /\ t.jti \notin revoked

\* Token ids are uuids: a new one is not in use.
NewJti == {j \in Jti \ Signed : \A k \in Jti \ Signed : j =< k}

\* The tokens that come back to life when Redis drops the revoked set.
Revived(set, when) == {t.jti : t \in {u \in tokens : u.jti \in set /\ when < u.exp}}

\* SADD, then EXPIREAT on the whole set: the last caller's expiry counts, and
\* one that has passed drops the set there and then.
AddRevoked(j, expiry) ==
    IF expiry =< now
    THEN /\ revoked' = {} /\ revokeTill' = Forever
         /\ astray' = astray \cup Revived(revoked \cup {j}, now)
    ELSE /\ revoked' = revoked \cup {j} /\ revokeTill' = expiry
         /\ UNCHANGED astray

\* RevokeJTI returns nil, or fails at its first or at its second call.
RevokeJTI(j, expiry) ==
    \/ NoFault /\ AddRevoked(j, expiry)
    \/ Fault /\ UNCHANGED revokeVars /\ astray' = astray \cup {j}
    \/ /\ Fault
       /\ revoked' = revoked \cup {j}
       /\ revokeTill' = IF revoked = {} THEN Forever ELSE revokeTill
       /\ UNCHANGED astray

SAdd(f, j) ==
    /\ tracked' = [tracked EXCEPT ![f] = @ \cup {j}]
    /\ trackTill' = [trackTill EXCEPT ![f] = IF tracked[f] = {} THEN Forever ELSE @]
SRem(f, j) ==
    /\ tracked' = [tracked EXCEPT ![f] = @ \ {j}]
    /\ UNCHANGED trackTill

Goto(h, p) == req' = [req EXCEPT ![h].pc = p]
Finish(h)  == req' = [req EXCEPT ![h] = NoRequest]

Accept(h) == req[h].pc = "idle" /\ requests < MaxRequests
             /\ requests' = requests + 1 /\ UNCHANGED faults

\* Issue signs a token; a token signed for a stray one goes astray with it.
Issue(h, p) ==
    \E j \in NewJti :
      /\ tokens' = tokens \cup {[jti |-> j, fid |-> req[h].fid, exp |-> now + Life]}
      /\ req' = [req EXCEPT ![h].pc = p, ![h].new = {j}]
      /\ astray' = IF req[h].old \cap astray = {} THEN astray ELSE astray \cup {j}

\* SADD commander:jtis:{fid}; its failure is logged and no more.
TrackNew(h, p) ==
    /\ \/ NoFault /\ (\E j \in req[h].new : SAdd(req[h].fid, j)) /\ UNCHANGED astray
       \/ Fault /\ UNCHANGED trackVars /\ astray' = astray \cup req[h].new
    /\ Goto(h, p)
    /\ UNCHANGED <<issueVars, held, revokeVars, frontier, locked>>

\* EXPIRE commander:jtis:{fid} 24h, result ignored: an old TTL that stays may
\* be too short for the new token.
ExpireSet(h, p) ==
    /\ \/ /\ NoFault /\ UNCHANGED astray
          /\ trackTill' = [trackTill EXCEPT ![req[h].fid] =
                             IF tracked[req[h].fid] = {} THEN @ ELSE now + Day]
       \/ Fault /\ UNCHANGED trackTill /\ astray' = astray \cup req[h].new
    /\ Goto(h, p)
    /\ UNCHANGED <<issueVars, held, tracked, revokeVars, frontier, locked>>

\* The Frontier tokens are stored, or not, and the cookie goes out.
StoreAndReply(h) ==
    /\ \/ NoFault /\ frontier' = frontier \cup req[h].new
       \/ Fault /\ UNCHANGED frontier
    /\ held' = held \cup req[h].new
    /\ Finish(h)
    /\ UNCHANGED <<issueVars, trackVars, revokeVars, astray, locked>>

-----------------------------------------------------------------------------
(* The Frontier callbacks, browser and desktop                             *)

\* resolveCommanderAccess reads the commander's row ...
LoginRead(h) ==
    /\ Accept(h)
    /\ \E f \in Fid :
         /\ approved[f]
         /\ req' = [req EXCEPT ![h] = [NoRequest EXCEPT !.pc = "resolve", !.fid = f]]
    /\ UNCHANGED <<issueVars, held, trackVars, revokeVars, frontier, astray, locked>>

\* ... and asks Authentik for its groups; a failure there or in signing
\* refuses the login.
LoginIssue(h) ==
    /\ req[h].pc = "resolve"
    /\ \/ NoFault /\ Issue(h, "login-track")
       \/ Fault /\ UNCHANGED <<tokens, astray>> /\ Finish(h)
    /\ UNCHANGED <<now, approved, held, trackVars, revokeVars, frontier, locked>>

LoginTrack(h)  == req[h].pc = "login-track"  /\ TrackNew(h, "login-expire")
LoginExpire(h) == req[h].pc = "login-expire" /\ ExpireSet(h, "login-store")
LoginStore(h)  == req[h].pc = "login-store"  /\ StoreAndReply(h)

-----------------------------------------------------------------------------
(* /refresh                                                                *)

\* A refresh that validates while a lockout is at work keeps it from being
\* a clean one.
Disturbs(r, f) == IF r.fid = f /\ r.pc \in {"kill", "del"} THEN [r EXCEPT !.clean = FALSE] ELSE r

RefreshValidate(h) ==
    /\ Accept(h)
    /\ \E t \in tokens :
         /\ t.jti \in held /\ Alive(t)
         /\ req' = [[g \in Handler |-> Disturbs(req[g], t.fid)] EXCEPT
                      ![h] = [NoRequest EXCEPT !.pc = "lookup", !.fid = t.fid, !.old = {t.jti}]]
    /\ UNCHANGED <<issueVars, held, trackVars, revokeVars, frontier, astray, locked>>

\* No record, no refresh: the client has to log in again.
RefreshLookup(h) ==
    /\ req[h].pc = "lookup"
    /\ \/ NoFault /\ req[h].old \subseteq frontier /\ Goto(h, "issue")
       \/ NoFault /\ ~(req[h].old \subseteq frontier) /\ Finish(h)
       \/ Fault /\ Finish(h)
    /\ UNCHANGED <<issueVars, held, trackVars, revokeVars, frontier, astray, locked>>

\* A failure to renew the Frontier tokens refuses the refresh.
RefreshIssue(h) ==
    /\ req[h].pc = "issue"
    /\ \/ NoFault /\ Issue(h, "revoke")
       \/ Fault /\ UNCHANGED <<tokens, astray>> /\ Finish(h)
    /\ UNCHANGED <<now, approved, held, trackVars, revokeVars, frontier, locked>>

Expiries(set) == {t.exp : t \in {u \in tokens : u.jti \in set}}

RefreshRevoke(h) ==
    /\ req[h].pc = "revoke"
    /\ \E j \in req[h].old : \E e \in Expiries({j}) : RevokeJTI(j, e)
    /\ Goto(h, "track")
    /\ UNCHANGED <<issueVars, held, trackVars, frontier, locked>>

RefreshTrack(h) == req[h].pc = "track" /\ TrackNew(h, "untrack")

RefreshUntrack(h) ==
    /\ req[h].pc = "untrack"
    /\ \/ NoFault /\ \E j \in req[h].old : SRem(req[h].fid, j)
       \/ Fault /\ UNCHANGED trackVars
    /\ Goto(h, "expire")
    /\ UNCHANGED <<issueVars, held, revokeVars, frontier, astray, locked>>

\* Mutant: a refresh leaves the TTL the login gave the set.
RefreshExpireMutant(h) ==
    /\ req[h].pc = "expire"
    /\ NoFault /\ Goto(h, "store")
    /\ UNCHANGED <<issueVars, held, trackVars, revokeVars, frontier, astray, locked>>

RefreshExpire(h) == req[h].pc = "expire" /\ ExpireSet(h, "store")
RefreshStore(h)  == req[h].pc = "store"  /\ StoreAndReply(h)

-----------------------------------------------------------------------------
(* /logout                                                                 *)

LogoutValidate(h) ==
    /\ Accept(h)
    /\ \E t \in tokens :
         /\ t.jti \in held /\ Alive(t)
         /\ req' = [req EXCEPT ![h] =
                      [NoRequest EXCEPT !.pc = "out-revoke", !.fid = t.fid, !.old = {t.jti}]]
    /\ UNCHANGED <<issueVars, held, trackVars, revokeVars, frontier, astray, locked>>

LogoutRevoke(h) ==
    /\ req[h].pc = "out-revoke"
    /\ \E j \in req[h].old : \E e \in Expiries({j}) : RevokeJTI(j, e)
    /\ Goto(h, "out-untrack")
    /\ UNCHANGED <<issueVars, held, trackVars, frontier, locked>>

LogoutUntrack(h) ==
    /\ req[h].pc = "out-untrack"
    /\ \/ NoFault /\ \E j \in req[h].old : SRem(req[h].fid, j)
       \/ Fault /\ UNCHANGED trackVars
    /\ Finish(h)
    /\ UNCHANGED <<issueVars, held, revokeVars, frontier, astray, locked>>

-----------------------------------------------------------------------------
(* The admin's lockout: deny, revoke, unlink and link, and the way back    *)

\* Deny, revoke and unlink set approved to false and call revokeAllSessions;
\* link calls it too and leaves approved alone.
LockStart(h) ==
    /\ Accept(h)
    /\ \E f \in Fid, denies \in BOOLEAN :
         /\ approved' = IF denies THEN [approved EXCEPT ![f] = FALSE] ELSE approved
         /\ req' = [req EXCEPT ![h] = [NoRequest EXCEPT !.pc = "list", !.fid = f, !.clean = denies]]
    /\ UNCHANGED <<now, tokens, held, trackVars, revokeVars, frontier, astray, locked>>

\* Requests that may still hand out a token for f.
Admitted(f) == {g \in Handler : req[g].fid = f /\ req[g].pc \in LoginPhase \cup RefreshPhase}

\* Mutant: the set is emptied before the tokens in it are revoked.
LockListMutant(h) ==
    /\ req[h].pc = "list"
    /\ NoFault /\ req' = [req EXCEPT ![h].pc = "del", ![h].clean = @ /\ Admitted(req[h].fid) = {}]
    /\ UNCHANGED <<issueVars, held, trackVars, revokeVars, frontier, astray, locked>>

LockList(h) ==
    /\ req[h].pc = "list"
    /\ \/ /\ NoFault
          /\ req' = [req EXCEPT ![h].pc = "kill", ![h].todo = tracked[req[h].fid],
                                ![h].till = now + Day,
                                ![h].clean = @ /\ Admitted(req[h].fid) = {}]
       \/ Fault /\ Finish(h)
    /\ UNCHANGED <<issueVars, held, trackVars, revokeVars, frontier, astray, locked>>

LockKill(h) ==
    /\ req[h].pc = "kill"
    /\ \E j \in req[h].todo :
         /\ RevokeJTI(j, req[h].till)
         /\ req' = [req EXCEPT ![h].todo = @ \ {j}]
    /\ UNCHANGED <<issueVars, held, trackVars, frontier, locked>>

LockKilled(h) ==
    /\ req[h].pc = "kill" /\ req[h].todo = {}
    /\ NoFault /\ Goto(h, "del")
    /\ UNCHANGED <<issueVars, held, trackVars, revokeVars, frontier, astray, locked>>

\* DEL takes whatever the set holds by now, listed or not: what another
\* request added since the listing goes astray.
LockDel(h) ==
    LET f == req[h].fid IN
    /\ req[h].pc = "del"
    /\ \/ /\ NoFault
          /\ tracked' = [tracked EXCEPT ![f] = {}]
          /\ trackTill' = [trackTill EXCEPT ![f] = Forever]
          /\ astray' = IF req[h].clean THEN astray ELSE astray \cup (tracked[f] \ revoked)
       \/ Fault /\ UNCHANGED <<trackVars, astray>>
    /\ locked' = IF req[h].clean THEN locked \cup {f} ELSE locked
    /\ Finish(h)
    /\ UNCHANGED <<issueVars, held, revokeVars, frontier>>

\* Approve, or the last step of Grant.
Approve(f) ==
    /\ approved' = [approved EXCEPT ![f] = TRUE]
    /\ locked' = locked \ {f}
    /\ req' = [g \in Handler |-> IF req[g].fid = f THEN [req[g] EXCEPT !.clean = FALSE] ELSE req[g]]
    /\ NoFault
    /\ UNCHANGED <<now, tokens, held, trackVars, revokeVars, frontier, astray>>

-----------------------------------------------------------------------------
(* Time, and requests that never finish                                    *)

\* Tokens whose handler has added them to f's set and has not yet set its TTL.
Unsettled(f) == UNION {req[g].new : g \in {i \in Handler :
                          req[i].fid = f /\ req[i].pc \in {"untrack", "expire", "login-expire"}}}

\* Redis drops a set at its TTL; a token that then comes back to life, or is
\* no longer tracked because its handler was too late, has gone astray.
Tick ==
    /\ now < MaxTime /\ now' = now + 1
    /\ LET gone == {f \in Fid : trackTill[f] =< now'} IN
       /\ tracked'   = [f \in Fid |-> IF f \in gone THEN {} ELSE tracked[f]]
       /\ trackTill' = [f \in Fid |-> IF f \in gone THEN Forever ELSE trackTill[f]]
       /\ \/ /\ revokeTill =< now'
             /\ revoked' = {} /\ revokeTill' = Forever
             /\ astray' = astray \cup (UNION {Unsettled(f) : f \in gone}) \cup Revived(revoked, now')
          \/ /\ revokeTill > now' /\ UNCHANGED revokeVars
             /\ astray' = astray \cup (UNION {Unsettled(f) : f \in gone})
    /\ NoFault
    /\ UNCHANGED <<tokens, held, frontier, approved, req, locked>>

\* A Frontier record lives as long as the Frontier access token.
FrontierLapses ==
    /\ \E j \in frontier : frontier' = frontier \ {j}
    /\ NoFault
    /\ UNCHANGED <<issueVars, held, trackVars, revokeVars, req, astray, locked>>

\* The client hangs up, which cancels the calls still to come, or the server
\* restarts: the rest of the request does not happen.
Abandon(h) ==
    /\ req[h].pc # "idle"
    /\ Fault
    /\ Finish(h)
    /\ astray' = astray \cup req[h].new
    /\ UNCHANGED <<issueVars, held, trackVars, revokeVars, frontier, locked>>

-----------------------------------------------------------------------------
Login(h)   == LoginRead(h) \/ LoginIssue(h) \/ LoginTrack(h) \/ LoginExpire(h) \/ LoginStore(h)
Refresh(h) == RefreshValidate(h) \/ RefreshLookup(h) \/ RefreshIssue(h) \/ RefreshRevoke(h)
              \/ RefreshTrack(h) \/ RefreshUntrack(h) \/ RefreshExpire(h) \/ RefreshStore(h)
Logout(h)  == LogoutValidate(h) \/ LogoutRevoke(h) \/ LogoutUntrack(h)
Lockout(h) == LockStart(h) \/ LockList(h) \/ LockKill(h) \/ LockKilled(h) \/ LockDel(h)

Next == \/ \E h \in Handler : Login(h) \/ Refresh(h) \/ Logout(h) \/ Lockout(h) \/ Abandon(h)
        \/ \E f \in Fid : Approve(f)
        \/ Tick \/ FrontierLapses

Spec == Init /\ [][Next]_vars

-----------------------------------------------------------------------------
(* Properties                                                              *)

\* Tokens a handler has signed and has still to add to the set.
InHand == UNION {req[h].new : h \in {g \in Handler :
                   req[g].pc \in {"login-track", "revoke", "track"}}}

\* commander_auth.go:749-757: every token that still works is in its
\* commander's set or about to be added to it, or went astray in one of the
\* ways the history records; in particular the set's TTL outlasts its tokens.
Enumerable ==
    \A t \in tokens : Alive(t) => t.jti \in tracked[t.fid] \cup InHand \cup astray

\* commander_session.go:63: the sets name signed tokens, and no less.
SetsTell == TypeOK /\ Enumerable

\* commander_session.go:30-40 and the deny handler: after a lockout that no
\* login or refresh got in the way of, and until the commander is approved
\* again, none of the commander's tokens works but those gone astray.
LockoutHolds ==
    \A t \in tokens : t.fid \in locked /\ Alive(t) => t.jti \in astray

-----------------------------------------------------------------------------
(* What comments promise beyond the above                                  *)

\* commander_jwt.go:142, a revocation lasts until its token's expiry.
RevokedUntilExpiry ==
    [][\A t \in tokens : t.jti \in revoked \ revoked' => t.exp =< now']_vars

\* Goroutines are interchangeable in the runs that check invariants.
Goroutines == Permutations(Handler)
=============================================================================
