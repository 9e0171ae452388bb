---------------------- MODULE CommanderSessions_proofs ----------------------
(* Proofs about CommanderSessions: every token that works can be listed by a *)
(* lockout or went astray in a recorded way, and an undisturbed lockout      *)
(* holds, for any commanders, tokens, goroutines and bounds, as long as a    *)
(* token lives no longer than the sets' 24 hours.                            *)
EXTENDS CommanderSessions, TLAPS

\* Token u works no more, or has gone astray.
Gone(u, w, rv, as) == w >= u.exp \/ u.jti \in rv \/ u.jti \in as

\* Phases in which a request may still hand out a token, has one it has still
\* to track, and has still to set the TTL of the set it is in.
AdmitPhase == LoginPhase \cup RefreshPhase
HandPhase  == {"login-track", "revoke", "track"}
TtlPhase   == {"untrack", "expire", "login-expire"}

\* Token ids are given out once, and no token outlives a TTL set now.
TokensFit ==
    /\ \A u, v \in tokens : u.jti = v.jti => u = v
    /\ \A u \in tokens : u.exp <= now + Life
    /\ now <= MaxTime

\* A request has one token of its commander in hand, and what it came with.
HandFits(r, T) ==
    /\ \A i, j \in r.new : i = j
    /\ \A i, j \in r.old : i = j
    /\ r.new \cup r.old \cup r.todo \subseteq {u.jti : u \in T}
    /\ \A u \in T : u.jti \in r.new => u.fid = r.fid

\* What a request came with is gone before it is taken off the list.
SpentFits(r, T, w, rv, as) ==
    r.pc \in {"track", "untrack", "out-untrack"} => \A u \in T : u.jti \in r.old => Gone(u, w, rv, as)

\* A lockout nothing got in the way of: the commander is not approved, and
\* once the set is listed, the tokens that work are those still to revoke.
CleanFits(r, T, w, rv, as, ap) ==
    r.clean /\ r.pc \in LockPhase =>
       /\ ~ap[r.fid]
       /\ r.pc \in {"kill", "del"} =>
            \A u \in T : u.fid = r.fid => Gone(u, w, rv, as) \/ (r.pc = "kill" /\ u.jti \in r.todo)

\* Nothing gets in the way of such a lockout q once it has listed the set.
Apart(q, r) == q.clean /\ q.pc \in {"kill", "del"} /\ r.fid = q.fid => r.pc \notin AdmitPhase

\* A commander who is locked out has no token that works, and their requests
\* are refreshes of tokens gone astray.
LockedFits(f, T, w, rv, as, ap) == ~ap[f] /\ \A u \in T : u.fid = f => Gone(u, w, rv, as)
AdmitFits(r, L, as) == r.fid \in L /\ r.pc \in AdmitPhase => r.pc \in RefreshPhase /\ r.old \cap as # {}

\* A token that works is about to be tracked, or tracked in a set that will
\* outlast it or is about to.
HeldBy(R, u) == \E g \in Handler : R[g].pc \in HandPhase /\ u.jti \in R[g].new
Settling(R, u) == \E g \in Handler : R[g].pc \in TtlPhase /\ R[g].fid = u.fid /\ u.jti \in R[g].new
Covered(u, w, rv, as, tr, till, R) ==
    \/ Gone(u, w, rv, as)
    \/ HeldBy(R, u)
    \/ u.jti \in tr[u.fid] /\ (till[u.fid] >= u.exp \/ Settling(R, u))

HandsFit  == \A g \in Handler : HandFits(req[g], tokens) /\ SpentFits(req[g], tokens, now, revoked, astray)
LocksFit  == /\ \A g \in Handler : CleanFits(req[g], tokens, now, revoked, astray, approved)
             /\ \A g, i \in Handler : Apart(req[g], req[i])
LockedFit == /\ \A f \in locked : LockedFits(f, tokens, now, revoked, astray, approved)
             /\ \A g \in Handler : AdmitFits(req[g], locked, astray)
AllCovered == \A u \in tokens : Covered(u, now, revoked, astray, tracked, trackTill, req)

Inv == TypeOK /\ TokensFit /\ HandsFit /\ LocksFit /\ LockedFit /\ AllCovered

-----------------------------------------------------------------------------
(* Steps in general                                                        *)

\* What is gone stays gone: time passes, strays are not forgotten, and a
\* revoked token that comes back to life has gone astray.
Loosens ==
    /\ now' >= now /\ astray \subseteq astray'
    /\ revoked \subseteq revoked' \/ Revived(revoked, now') \subseteq astray'

LEMMA GoneStays ==
    ASSUME TypeOK, now' \in Nat, Loosens, NEW u \in tokens, Gone(u, now, revoked, astray)
    PROVE  Gone(u, now', revoked', astray')
<1>1. u.exp \in Nat /\ now \in Nat
  BY DEF TypeOK, Token
<1>2. CASE now >= u.exp
  BY <1>1, <1>2 DEF Loosens, Gone
<1>3. CASE u.jti \in astray
  BY <1>3 DEF Loosens, Gone
<1>4. CASE u.jti \in revoked
  <2>1. CASE revoked \subseteq revoked'
    BY <1>4, <2>1 DEF Gone
  <2>2. CASE Revived(revoked, now') \subseteq astray'
    <3>1. now' < u.exp => u.jti \in Revived(revoked, now')
      BY <1>4 DEF Revived
    <3>2. QED
      BY <1>1, <2>2, <3>1 DEF Gone
  <2>3. QED
    BY <2>1, <2>2 DEF Loosens
<1>5. QED
  BY <1>2, <1>3, <1>4 DEF Gone

\* The phases.
LEMMA Phases ==
    /\ LoginPhase \cap RefreshPhase = {} /\ LogoutPhase \cap LockPhase = {} /\ AdmitPhase \cap (LogoutPhase \cup LockPhase) = {}
    /\ HandPhase \cup TtlPhase \subseteq AdmitPhase /\ HandPhase \cap TtlPhase = {}
    /\ "idle" \notin AdmitPhase \cup LogoutPhase \cup LockPhase
BY DEF LoginPhase, RefreshPhase, LogoutPhase, LockPhase, AdmitPhase, HandPhase, TtlPhase

\* A request is over: it has nothing in hand.
LEMMA Nothing ==
    /\ NoRequest.pc = "idle" /\ NoRequest.old = {} /\ NoRequest.new = {} /\ NoRequest.todo = {}
    /\ ~NoRequest.clean
    /\ Fid # {} => NoRequest \in Request
BY DEF NoRequest, Request

\* One goroutine's step, which signs nothing and takes no time: what is left
\* to show is what holds of its request, and that no token is lost.
LEMMA MoveStep ==
    ASSUME Inv, NEW h \in Handler, TypeOK', Loosens, now' = now, tokens' = tokens,
           \A f \in Fid : approved'[f] => approved[f],
           \A g \in Handler \ {h} : req'[g] = req[g] \/ req'[g] = [req[g] EXCEPT !.clean = FALSE],
           locked \subseteq locked',
           \A f \in locked' \ locked : /\ LockedFits(f, tokens, now, revoked', astray', approved')
                                       /\ \A g \in Handler \ {h} : req[g].fid = f => req[g].pc \notin AdmitPhase,
           HandFits(req'[h], tokens), SpentFits(req'[h], tokens, now, revoked', astray'),
           CleanFits(req'[h], tokens, now, revoked', astray', approved'),
           \A g \in Handler \ {h} : Apart(req'[g], req'[h]) /\ Apart(req'[h], req[g]),
           AdmitFits(req'[h], locked', astray'),
           \A u \in tokens : Covered(u, now, revoked', astray', tracked', trackTill', req')
    PROVE  Inv'
<1>1. \A u \in tokens : Gone(u, now, revoked, astray) => Gone(u, now, revoked', astray')
  <2>1. now' \in Nat
    BY DEF TypeOK
  <2>2. QED
    BY <2>1, GoneStays DEF Inv
<1>2. \A g \in Handler \ {h} : /\ req'[g].pc = req[g].pc /\ req'[g].fid = req[g].fid /\ req'[g].old = req[g].old
                               /\ req'[g].new = req[g].new /\ req'[g].todo = req[g].todo
                               /\ req'[g].clean => req[g].clean
                               /\ req[g] \in Request
  BY DEF Inv, TypeOK, Request
<1>3. TokensFit'
  BY DEF Inv, TokensFit
<1>4. HandsFit'
  <2>1. \A g \in Handler : HandFits(req'[g], tokens)
    BY <1>2 DEF Inv, HandsFit, HandFits
  <2>2. \A g \in Handler \ {h} : SpentFits(req'[g], tokens, now, revoked', astray')
    BY <1>1, <1>2 DEF Inv, HandsFit, SpentFits
  <2>3. QED
    BY <2>1, <2>2 DEF HandsFit
<1>5. LocksFit'
  <2>1. \A g \in Handler \ {h} : CleanFits(req'[g], tokens, now, revoked', astray', approved')
    <3> TAKE g \in Handler \ {h}
    <3>1. CleanFits(req[g], tokens, now, revoked, astray, approved) /\ req[g].fid \in Fid
      BY <1>2 DEF Inv, LocksFit, Request
    <3>2. QED
      BY <1>1, <1>2, <3>1 DEF CleanFits
  <2>2. \A g, i \in Handler : Apart(req'[g], req'[i])
    <3> TAKE g, i \in Handler
    <3>1. CASE g # h /\ i # h
      BY <1>2, <3>1 DEF Inv, LocksFit, Apart
    <3>2. CASE g = h /\ i # h
      BY <1>2, <3>2 DEF Apart
    <3>3. CASE g # h /\ i = h
      BY <3>3
    <3>4. CASE g = h /\ i = h
      BY <3>4, Phases DEF Apart, LockPhase
    <3>5. QED
      BY <3>1, <3>2, <3>3, <3>4
  <2>3. QED
    BY <2>1, <2>2 DEF LocksFit
<1>6. LockedFit'
  <2>1. \A f \in locked : LockedFits(f, tokens, now, revoked', astray', approved')
    BY <1>1 DEF Inv, TypeOK, LockedFit, LockedFits
  <2>2. \A g \in Handler \ {h} : AdmitFits(req'[g], locked', astray')
    BY <1>2 DEF Inv, LockedFit, AdmitFits, Loosens
  <2>3. QED
    BY <2>1, <2>2 DEF LockedFit
<1>7. AllCovered'
  BY DEF AllCovered
<1>8. QED
  BY <1>3, <1>4, <1>5, <1>6, <1>7 DEF Inv

\* A step that leaves the sets alone loses no token, unless the goroutine lets
\* go of one that it has not said is astray.
LEMMA CoverKept ==
    ASSUME Inv, NEW h \in Handler, now' = now, Loosens, UNCHANGED trackVars,
           \A g \in Handler \ {h} : req'[g].pc = req[g].pc /\ req'[g].fid = req[g].fid /\ req'[g].new = req[g].new,
           req[h].pc \in HandPhase => \/ req'[h].pc \in HandPhase /\ req'[h].new = req[h].new
                                      \/ req[h].new \subseteq astray',
           req[h].pc \in TtlPhase => \/ req'[h].pc \in TtlPhase /\ req'[h].new = req[h].new /\ req'[h].fid = req[h].fid
                                     \/ req[h].new \subseteq astray'
    PROVE  \A u \in tokens : Covered(u, now, revoked', astray', tracked', trackTill', req')
<1> SUFFICES ASSUME NEW u \in tokens PROVE Covered(u, now, revoked', astray', tracked', trackTill', req')
  OBVIOUS
<1>1. Covered(u, now, revoked, astray, tracked, trackTill, req)
  BY DEF Inv, AllCovered
<1>2. Gone(u, now, revoked, astray) => Gone(u, now, revoked', astray')
  <2>1. now' \in Nat
    BY DEF Inv, TypeOK
  <2>2. QED
    BY <2>1, GoneStays DEF Inv
<1>3. HeldBy(req, u) => HeldBy(req', u) \/ u.jti \in astray'
  BY DEF HeldBy
<1>4. Settling(req, u) => Settling(req', u) \/ u.jti \in astray'
  BY DEF Settling
<1>5. u.jti \in astray' => Gone(u, now, revoked', astray')
  BY DEF Gone
<1>6. tracked' = tracked /\ trackTill' = trackTill
  BY DEF trackVars
<1>7. QED
  BY <1>1, <1>2, <1>3, <1>4, <1>5, <1>6 DEF Covered

\* A goroutine that goes on to its next call, with what it has in hand.
LEMMA Onward ==
    ASSUME Inv, NEW h \in Handler, NEW p \in AdmitPhase \cup LogoutPhase \cup LockPhase, Goto(h, p)
    PROVE  /\ req' \in [Handler -> Request]
           /\ req'[h] = [req[h] EXCEPT !.pc = p] /\ req[h] \in Request
           /\ req'[h].pc = p /\ req'[h].fid = req[h].fid /\ req'[h].old = req[h].old /\ req'[h].new = req[h].new
           /\ req'[h].todo = req[h].todo /\ req'[h].clean = req[h].clean
           /\ \A g \in Handler \ {h} : req'[g] = req[g]
BY DEF Inv, TypeOK, Goto, Request, AdmitPhase

LEMMA GotoStep ==
    ASSUME Inv, NEW h \in Handler, NEW p \in AdmitPhase \cup LogoutPhase, Goto(h, p), TypeOK', Loosens,
           UNCHANGED <<now, tokens, approved, locked>>,
           p \in AdmitPhase => req[h].pc \in AdmitPhase, p \in LoginPhase => req[h].pc \in LoginPhase,
           SpentFits(req'[h], tokens, now, revoked', astray'),
           \A u \in tokens : Covered(u, now, revoked', astray', tracked', trackTill', req')
    PROVE  Inv'
<1>1. /\ req'[h].pc = p /\ req'[h].fid = req[h].fid /\ req'[h].old = req[h].old /\ req'[h].new = req[h].new
      /\ req'[h].todo = req[h].todo /\ req'[h].clean = req[h].clean
      /\ \A g \in Handler \ {h} : req'[g] = req[g]
  BY Onward
<1>2. HandFits(req'[h], tokens)
  BY <1>1 DEF Inv, HandsFit, HandFits
<1>3. CleanFits(req'[h], tokens, now, revoked', astray', approved')
  BY <1>1, Phases DEF CleanFits
<1>4. \A g \in Handler \ {h} : Apart(req'[g], req'[h]) /\ Apart(req'[h], req[g])
  <2> TAKE g \in Handler \ {h}
  <2>1. Apart(req[g], req[h])
    BY DEF Inv, LocksFit
  <2>2. p \notin {"kill", "del"}
    BY Phases DEF LockPhase
  <2>3. QED
    BY <1>1, <2>1, <2>2 DEF Apart
<1>5. AdmitFits(req'[h], locked', astray')
  <2>1. AdmitFits(req[h], locked, astray)
    BY DEF Inv, LockedFit
  <2>2. QED
    BY <1>1, <2>1, Phases DEF AdmitFits, Loosens, AdmitPhase
<1>6. QED
  BY <1>1, <1>2, <1>3, <1>4, <1>5, MoveStep

\* A goroutine that is done.
LEMMA FinishStep ==
    ASSUME Inv, NEW h \in Handler, Finish(h), TypeOK', Loosens, UNCHANGED <<now, tokens>>,
           \A f \in Fid : approved'[f] => approved[f], locked \subseteq locked',
           \A f \in locked' \ locked : /\ LockedFits(f, tokens, now, revoked', astray', approved')
                                       /\ \A g \in Handler \ {h} : req[g].fid = f => req[g].pc \notin AdmitPhase,
           \A u \in tokens : Covered(u, now, revoked', astray', tracked', trackTill', req')
    PROVE  Inv'
<1>1. req'[h] = NoRequest /\ \A g \in Handler \ {h} : req'[g] = req[g]
  BY DEF Finish, Inv, TypeOK
<1>2. HandFits(NoRequest, tokens) /\ SpentFits(NoRequest, tokens, now, revoked', astray')
      /\ CleanFits(NoRequest, tokens, now, revoked', astray', approved') /\ AdmitFits(NoRequest, locked', astray')
      /\ \A q : Apart(q, NoRequest) /\ Apart(NoRequest, q)
  BY Nothing, Phases DEF HandFits, SpentFits, CleanFits, AdmitFits, Apart
<1>3. QED
  BY <1>1, <1>2, MoveStep

\* A finished request that had nothing left in hand.
LEMMA FinishQuiet ==
    ASSUME Inv, NEW h \in Handler, Finish(h), TypeOK', Loosens, UNCHANGED <<now, tokens, approved, locked>>,
           UNCHANGED trackVars, req[h].pc \in HandPhase \cup TtlPhase => req[h].new \subseteq astray'
    PROVE  Inv'
<1>1. \A g \in Handler \ {h} : req'[g] = req[g]
  BY DEF Finish, Inv, TypeOK
<1>2. \A u \in tokens : Covered(u, now, revoked', astray', tracked', trackTill', req')
  BY <1>1, CoverKept
<1>3. QED
  BY <1>2, FinishStep

\* A request that finishes is again no request.
LEMMA Ends == ASSUME TypeOK, NEW h \in Handler, Finish(h) PROVE req' \in [Handler -> Request]
<1>1. Fid # {}
  BY DEF TypeOK, Request
<1>2. QED
  BY <1>1, Nothing DEF TypeOK, Finish

\* What revoking a token does, whether it fails or not: the token is gone.
LEMMA Revoking ==
    ASSUME Inv, NEW j \in Signed, NEW e \in Nat, RevokeJTI(j, e), UNCHANGED <<now, tokens>>
    PROVE  /\ Loosens
           /\ revoked' \subseteq Signed /\ revokeTill' \in Nat /\ astray' \subseteq Jti /\ faults' \in Nat /\ requests' \in Nat
           /\ \A u \in tokens : u.jti = j => Gone(u, now, revoked', astray')
<1>1. /\ revoked \subseteq Signed /\ revokeTill \in Nat /\ astray \subseteq Jti /\ now \in Nat
      /\ faults \in Nat /\ requests \in Nat /\ Signed \subseteq Jti
  BY DEF Inv, TypeOK, Signed, Token
<1>2. Forever \in Nat
  BY BoundAssumption, LifeAssumption DEF Forever
<1>3. \A u \in tokens : u.exp \in Nat
  BY DEF Inv, TypeOK, Token
<1>4. CASE NoFault /\ AddRevoked(j, e)
  <2>1. CASE e =< now
    <3>1. revoked' = {} /\ revokeTill' = Forever /\ astray' = astray \cup Revived(revoked \cup {j}, now)
      BY <1>4, <2>1 DEF AddRevoked
    <3>2. Revived(revoked, now') \subseteq astray' /\ Revived(revoked \cup {j}, now) \subseteq Jti
      BY <1>1, <3>1 DEF Revived, Signed
    <3>3. \A u \in tokens : u.jti = j => Gone(u, now, revoked', astray')
      <4> SUFFICES ASSUME NEW u \in tokens, u.jti = j, ~(now >= u.exp) PROVE u.jti \in Revived(revoked \cup {j}, now)
        BY <3>1 DEF Gone
      <4>0. now < u.exp
        BY <1>1, <1>3
      <4>1. QED
        BY <4>0 DEF Revived
    <3>4. Loosens
      BY <1>1, <3>1, <3>2 DEF Loosens
    <3>5. astray' \subseteq Jti /\ revoked' \subseteq Signed /\ revokeTill' \in Nat
      BY <1>1, <1>2, <3>1, <3>2
    <3>6. faults' \in Nat /\ requests' \in Nat
      BY <1>1, <1>4 DEF NoFault, boundVars
    <3>7. QED
      BY <3>3, <3>4, <3>5, <3>6
  <2>2. CASE ~(e =< now)
    BY <1>1, <1>4, <2>2 DEF AddRevoked, Loosens, NoFault, boundVars, Gone
  <2>3. QED
    BY <2>1, <2>2
<1>5. CASE Fault /\ UNCHANGED revokeVars /\ astray' = astray \cup {j}
  BY <1>1, <1>5 DEF revokeVars, Fault, Loosens, Gone
<1>6. CASE /\ Fault /\ revoked' = revoked \cup {j}
           /\ revokeTill' = IF revoked = {} THEN Forever ELSE revokeTill
           /\ UNCHANGED astray
  BY <1>1, <1>2, <1>6 DEF Fault, Loosens, Gone
<1>7. QED
  BY <1>4, <1>5, <1>6 DEF RevokeJTI

\* Bounds are counted up.
LEMMA Counting ==
    ASSUME TypeOK
    PROVE  /\ NoFault => faults' \in Nat /\ requests' \in Nat
           /\ Fault => faults' \in Nat /\ requests' \in Nat
           /\ \A h \in Handler : Accept(h) => faults' \in Nat /\ requests' \in Nat
BY DEF TypeOK, NoFault, Fault, Accept, boundVars

-----------------------------------------------------------------------------
(* Putting a token on the list, and the list's TTL                         *)

\* Nothing is revoked and nothing forgotten.
LEMMA Calm == ASSUME Inv, UNCHANGED <<now, revokeVars>>, astray \subseteq astray' PROVE Loosens
BY DEF Inv, TypeOK, Loosens, revokeVars

\* What the sets may hold.
LEMMA SetTypes ==
    ASSUME Inv
    PROVE  /\ Signed \subseteq Jti /\ Forever \in Nat /\ now \in Nat /\ now + Day \in Nat
           /\ \A g \in Handler : /\ req[g] \in Request /\ req[g].fid \in Fid /\ req[g].till \in Nat
                                 /\ req[g].new \cup req[g].old \cup req[g].todo \subseteq Signed
           /\ \A u \in tokens : u.exp \in Nat /\ u.fid \in Fid /\ u.exp <= now + Day /\ u.exp <= Forever
<1>1. now \in Nat /\ now <= MaxTime /\ \A u \in tokens : u.exp \in Nat /\ u.fid \in Fid /\ u.jti \in Jti /\ u.exp <= now + Life
  BY DEF Inv, TypeOK, Token, TokensFit
<1>2. \A u \in tokens : u.exp <= now + Day /\ u.exp <= Forever
  BY <1>1, LifeAssumption, BoundAssumption DEF Forever
<1>3. \A g \in Handler : req[g] \in Request /\ req[g].new \cup req[g].old \cup req[g].todo \subseteq Signed
  BY DEF Inv, TypeOK, HandsFit, HandFits, Signed
<1>4. QED
  BY <1>1, <1>2, <1>3, LifeAssumption, BoundAssumption DEF Signed, Forever, Request

LEMMA TrackStep ==
    ASSUME Inv, NEW h \in Handler, NEW p, TrackNew(h, p),
           <<req[h].pc, p>> \in {<<"login-track", "login-expire">>, <<"track", "untrack">>}
    PROVE  Inv'
<1>1. Goto(h, p) /\ UNCHANGED <<now, tokens, approved, held, revokeVars, frontier, locked>>
  BY DEF TrackNew, issueVars
<1>2. /\ req[h].pc \in HandPhase /\ req[h].pc \notin TtlPhase /\ p \in TtlPhase /\ p \in AdmitPhase /\ req[h].pc \in AdmitPhase
      /\ p \in LoginPhase => req[h].pc \in LoginPhase
  BY DEF HandPhase, TtlPhase, AdmitPhase, LoginPhase, RefreshPhase
<1>3. /\ req' \in [Handler -> Request] /\ req'[h].pc = p /\ req'[h].fid = req[h].fid /\ req'[h].old = req[h].old
      /\ req'[h].new = req[h].new /\ \A g \in Handler \ {h} : req'[g] = req[g]
  BY <1>1, <1>2, Onward
<1>4. astray \subseteq astray' /\ astray' \subseteq Jti /\ Loosens
  <2>1. astray \subseteq astray' /\ astray' \subseteq Jti
    BY SetTypes DEF TrackNew, Inv, TypeOK
  <2>2. QED
    BY <1>1, <2>1, Calm
<1>5. SpentFits(req'[h], tokens, now, revoked', astray')
  <2>1. SpentFits(req[h], tokens, now, revoked, astray)
    BY DEF Inv, HandsFit
  <2>2. p \in {"track", "untrack", "out-untrack"} => req[h].pc = "track"
    OBVIOUS
  <2>3. revoked' = revoked
    BY <1>1 DEF revokeVars
  <2>4. QED
    BY <1>3, <1>4, <2>1, <2>2, <2>3 DEF SpentFits, Gone
<1>6. CASE NoFault /\ (\E j \in req[h].new : SAdd(req[h].fid, j)) /\ UNCHANGED astray
  <2> DEFINE f == req[h].fid
  <2>1. PICK j \in req[h].new : SAdd(f, j)
    BY <1>6
  <2>2. \A g \in Fid : /\ tracked'[g] = (IF g = f THEN tracked[g] \cup {j} ELSE tracked[g])
                       /\ trackTill'[g] = (IF g = f /\ tracked[f] = {} THEN Forever ELSE trackTill[g])
    BY <2>1 DEF SAdd, Inv, TypeOK
  <2>3. TypeOK'
    <3>1. tracked' \in [Fid -> SUBSET Signed] /\ trackTill' \in [Fid -> Nat]
      BY <2>1, SetTypes DEF SAdd, Inv, TypeOK
    <3>2. QED
      BY <1>1, <1>3, <1>4, <1>6, <3>1, Counting DEF Inv, TypeOK, Signed, revokeVars
  <2>4. ASSUME NEW u \in tokens PROVE Covered(u, now, revoked', astray', tracked', trackTill', req')
    <3>1. Covered(u, now, revoked, astray, tracked, trackTill, req) /\ u.fid \in Fid
      BY SetTypes DEF Inv, AllCovered
    <3>2. CASE Gone(u, now, revoked, astray)
      BY <1>1, <1>6, <3>2 DEF revokeVars, Covered
    <3>3. CASE u.jti \in req[h].new
      <4>1. u.jti = j /\ u.fid = f
        BY <2>1, <3>3 DEF Inv, HandsFit, HandFits
      <4>2. Settling(req', u)
        BY <1>2, <1>3, <3>3, <4>1 DEF Settling
      <4>3. QED
        BY <2>2, <3>1, <4>1, <4>2 DEF Covered
    <3>4. CASE HeldBy(req, u) /\ u.jti \notin req[h].new
      BY <1>3, <3>4 DEF HeldBy, Covered
    <3>5. CASE u.jti \in tracked[u.fid] /\ trackTill[u.fid] >= u.exp
      BY <2>2, <3>1, <3>5 DEF Covered
    <3>6. CASE u.jti \in tracked[u.fid] /\ Settling(req, u)
      <4>1. Settling(req', u)
        BY <1>2, <1>3, <3>6 DEF Settling
      <4>2. QED
        BY <2>2, <3>1, <3>6, <4>1 DEF Covered
    <3>7. QED
      BY <3>1, <3>2, <3>3, <3>4, <3>5, <3>6 DEF Covered
  <2>5. QED
    BY <1>1, <1>2, <1>4, <1>5, <2>3, <2>4, GotoStep
<1>7. CASE Fault /\ UNCHANGED trackVars /\ astray' = astray \cup req[h].new
  <2>1. TypeOK'
    BY <1>1, <1>3, <1>4, <1>7, Counting DEF Inv, TypeOK, Signed, trackVars, revokeVars
  <2>2. \A u \in tokens : Covered(u, now, revoked', astray', tracked', trackTill', req')
    BY <1>1, <1>2, <1>3, <1>4, <1>7, CoverKept
  <2>3. QED
    BY <1>1, <1>2, <1>4, <1>5, <2>1, <2>2, GotoStep
<1>8. QED
  BY <1>6, <1>7 DEF TrackNew

LEMMA ExpireStep ==
    ASSUME Inv, NEW h \in Handler, NEW p, ExpireSet(h, p),
           <<req[h].pc, p>> \in {<<"login-expire", "login-store">>, <<"expire", "store">>}
    PROVE  Inv'
<1>1. Goto(h, p) /\ UNCHANGED <<now, tokens, approved, held, tracked, revokeVars, frontier, locked>>
  BY DEF ExpireSet, issueVars
<1>2. /\ req[h].pc \notin HandPhase /\ req[h].pc \in TtlPhase /\ p \in AdmitPhase /\ req[h].pc \in AdmitPhase
      /\ p \in LoginPhase => req[h].pc \in LoginPhase
  BY DEF HandPhase, TtlPhase, AdmitPhase, LoginPhase, RefreshPhase
<1>3. /\ req' \in [Handler -> Request] /\ req'[h].pc = p /\ req'[h].fid = req[h].fid /\ req'[h].old = req[h].old
      /\ req'[h].new = req[h].new /\ \A g \in Handler \ {h} : req'[g] = req[g]
  BY <1>1, <1>2, Onward
<1>4. astray \subseteq astray' /\ astray' \subseteq Jti /\ Loosens
  <2>1. astray \subseteq astray' /\ astray' \subseteq Jti
    BY SetTypes DEF ExpireSet, Inv, TypeOK
  <2>2. QED
    BY <1>1, <2>1, Calm
<1>5. SpentFits(req'[h], tokens, now, revoked', astray')
  BY <1>3 DEF SpentFits
<1>6. CASE /\ NoFault /\ UNCHANGED astray
           /\ trackTill' = [trackTill EXCEPT ![req[h].fid] = IF tracked[req[h].fid] = {} THEN @ ELSE now + Day]
  <2> DEFINE f == req[h].fid
  <2>1. \A g \in Fid : trackTill'[g] = (IF g = f /\ tracked[f] # {} THEN now + Day ELSE trackTill[g])
    BY <1>6 DEF Inv, TypeOK
  <2>2. TypeOK'
    <3>1. trackTill' \in [Fid -> Nat]
      BY <1>6, SetTypes DEF Inv, TypeOK
    <3>2. QED
      BY <1>1, <1>3, <1>4, <1>6, <3>1, Counting DEF Inv, TypeOK, Signed, revokeVars
  <2>3. ASSUME NEW u \in tokens PROVE Covered(u, now, revoked', astray', tracked', trackTill', req')
    <3>1. Covered(u, now, revoked, astray, tracked, trackTill, req) /\ u.fid \in Fid /\ u.exp <= now + Day
          /\ u.exp \in Nat /\ now + Day \in Nat
      BY SetTypes DEF Inv, AllCovered
    <3>2. CASE Gone(u, now, revoked, astray)
      BY <1>1, <1>6, <3>2 DEF revokeVars, Covered
    <3>3. CASE HeldBy(req, u)
      BY <1>2, <1>3, <3>3 DEF HeldBy, Covered
    <3>4. CASE u.jti \in tracked[u.fid] /\ u.fid = f
      <4>1. trackTill'[u.fid] = now + Day
        BY <2>1, <3>1, <3>4
      <4>2. trackTill'[u.fid] >= u.exp
        BY <3>1, <4>1
      <4>3. QED
        BY <1>1, <3>4, <4>2 DEF Covered
    <3>5. CASE u.jti \in tracked[u.fid] /\ u.fid # f /\ trackTill[u.fid] >= u.exp
      BY <1>1, <2>1, <3>1, <3>5 DEF Covered
    <3>6. CASE u.jti \in tracked[u.fid] /\ u.fid # f /\ Settling(req, u)
      <4>1. Settling(req', u)
        BY <1>3, <3>6 DEF Settling
      <4>2. QED
        BY <1>1, <3>6, <4>1 DEF Covered
    <3>7. QED
      BY <3>1, <3>2, <3>3, <3>4, <3>5, <3>6 DEF Covered
  <2>4. QED
    BY <1>1, <1>2, <1>4, <1>5, <2>2, <2>3, GotoStep
<1>7. CASE Fault /\ UNCHANGED trackTill /\ astray' = astray \cup req[h].new
  <2>1. TypeOK'
    BY <1>1, <1>3, <1>4, <1>7, Counting DEF Inv, TypeOK, Signed, trackVars, revokeVars
  <2>2. UNCHANGED trackVars
    BY <1>1, <1>7 DEF trackVars
  <2>3. \A u \in tokens : Covered(u, now, revoked', astray', tracked', trackTill', req')
    BY <1>1, <1>2, <1>3, <1>4, <1>7, <2>2, CoverKept
  <2>4. QED
    BY <1>1, <1>2, <1>4, <1>5, <2>1, <2>3, GotoStep
<1>8. QED
  BY <1>6, <1>7 DEF ExpireSet

\* A token that is gone is taken off the list.
LEMMA UntrackCovers ==
    ASSUME Inv, NEW h \in Handler, UNCHANGED <<now, revokeVars, astray>>, req[h].pc \in {"untrack", "out-untrack"},
           NEW j \in req[h].old, SRem(req[h].fid, j), \A g \in Handler \ {h} : req'[g] = req[g],
           req[h].pc \in TtlPhase => req'[h].pc \in TtlPhase /\ req'[h].new = req[h].new /\ req'[h].fid = req[h].fid
    PROVE  /\ tracked' \in [Fid -> SUBSET Signed] /\ trackTill' \in [Fid -> Nat]
           /\ \A u \in tokens : Covered(u, now, revoked', astray', tracked', trackTill', req')
<1>1. /\ tracked' \in [Fid -> SUBSET Signed] /\ trackTill' = trackTill
      /\ \A g \in Fid : tracked[g] \ {j} \subseteq tracked'[g]
  BY DEF SRem, Inv, TypeOK
<1>2. trackTill' \in [Fid -> Nat]
  BY <1>1 DEF Inv, TypeOK
<1>3. ASSUME NEW u \in tokens PROVE Covered(u, now, revoked', astray', tracked', trackTill', req')
  <2>1. Covered(u, now, revoked, astray, tracked, trackTill, req) /\ u.fid \in Fid
    BY SetTypes DEF Inv, AllCovered
  <2>2. u.jti = j => Gone(u, now, revoked, astray)
    BY DEF Inv, HandsFit, SpentFits
  <2>3. HeldBy(req, u) => HeldBy(req', u)
    BY DEF HeldBy, HandPhase
  <2>4. Settling(req, u) => Settling(req', u)
    BY DEF Settling
  <2>5. revoked' = revoked
    BY DEF revokeVars
  <2>6. QED
    BY <1>1, <2>1, <2>2, <2>3, <2>4, <2>5 DEF Covered
<1>4. QED
  BY <1>1, <1>2, <1>3

LEMMA RefreshUntrackStep == ASSUME Inv, NEW h \in Handler, RefreshUntrack(h) PROVE Inv'
<1>1. /\ req[h].pc = "untrack" /\ Goto(h, "expire")
      /\ UNCHANGED <<now, tokens, approved, held, revokeVars, frontier, astray, locked>>
  BY DEF RefreshUntrack, issueVars
<1>2. "expire" \in AdmitPhase /\ "untrack" \in AdmitPhase /\ "expire" \in TtlPhase /\ "expire" \notin LoginPhase
      /\ "untrack" \notin HandPhase
  BY DEF AdmitPhase, LoginPhase, RefreshPhase, TtlPhase, HandPhase
<1>3. /\ req' \in [Handler -> Request] /\ req'[h].pc = "expire" /\ req'[h].fid = req[h].fid /\ req'[h].old = req[h].old
      /\ req'[h].new = req[h].new /\ \A g \in Handler \ {h} : req'[g] = req[g]
  BY <1>1, <1>2, Onward
<1>4. Loosens
  BY <1>1, Calm
<1>5. SpentFits(req'[h], tokens, now, revoked', astray')
  BY <1>3 DEF SpentFits
<1>6. CASE NoFault /\ \E j \in req[h].old : SRem(req[h].fid, j)
  <2>1. PICK j \in req[h].old : SRem(req[h].fid, j)
    BY <1>6
  <2>2. /\ tracked' \in [Fid -> SUBSET Signed] /\ trackTill' \in [Fid -> Nat]
        /\ \A u \in tokens : Covered(u, now, revoked', astray', tracked', trackTill', req')
    BY <1>1, <1>2, <1>3, <2>1, UntrackCovers
  <2>3. TypeOK'
    BY <1>1, <1>3, <1>6, <2>2, Counting DEF Inv, TypeOK, Signed, revokeVars
  <2>4. QED
    BY <1>1, <1>2, <1>4, <1>5, <2>2, <2>3, GotoStep
<1>7. CASE Fault /\ UNCHANGED trackVars
  <2>1. TypeOK'
    BY <1>1, <1>3, <1>7, Counting DEF Inv, TypeOK, Signed, trackVars, revokeVars
  <2>2. \A u \in tokens : Covered(u, now, revoked', astray', tracked', trackTill', req')
    BY <1>1, <1>2, <1>3, <1>4, <1>7, CoverKept
  <2>3. QED
    BY <1>1, <1>2, <1>4, <1>5, <2>1, <2>2, GotoStep
<1>8. QED
  BY <1>6, <1>7 DEF RefreshUntrack

LEMMA LogoutUntrackStep == ASSUME Inv, NEW h \in Handler, LogoutUntrack(h) PROVE Inv'
<1>1. /\ req[h].pc = "out-untrack" /\ Finish(h)
      /\ UNCHANGED <<now, tokens, approved, held, revokeVars, frontier, astray, locked>>
  BY DEF LogoutUntrack, issueVars
<1>2. "out-untrack" \notin HandPhase \cup TtlPhase
  BY DEF HandPhase, TtlPhase
<1>3. req' \in [Handler -> Request] /\ \A g \in Handler \ {h} : req'[g] = req[g]
  BY <1>1, Ends DEF Inv, TypeOK, Finish
<1>4. Loosens
  BY <1>1, Calm
<1>5. CASE NoFault /\ \E j \in req[h].old : SRem(req[h].fid, j)
  <2>1. PICK j \in req[h].old : SRem(req[h].fid, j)
    BY <1>5
  <2>2. /\ tracked' \in [Fid -> SUBSET Signed] /\ trackTill' \in [Fid -> Nat]
        /\ \A u \in tokens : Covered(u, now, revoked', astray', tracked', trackTill', req')
    BY <1>1, <1>2, <1>3, <2>1, UntrackCovers
  <2>3. TypeOK'
    BY <1>1, <1>3, <1>5, <2>2, Counting DEF Inv, TypeOK, Signed, revokeVars
  <2>4. QED
    BY <1>1, <1>4, <2>2, <2>3, FinishStep
<1>6. CASE Fault /\ UNCHANGED trackVars
  <2>1. TypeOK'
    BY <1>1, <1>3, <1>6, Counting DEF Inv, TypeOK, Signed, trackVars, revokeVars
  <2>2. QED
    BY <1>1, <1>2, <1>4, <1>6, <2>1, FinishQuiet
<1>7. QED
  BY <1>5, <1>6 DEF LogoutUntrack

-----------------------------------------------------------------------------
(* Signing                                                                 *)

\* A token is signed for a request that was let in: it has a new id, it is in
\* the request's hand, and it goes astray with the one it replaces.
LEMMA IssueStep ==
    ASSUME Inv, NEW h \in Handler, NEW p, NoFault, Issue(h, p),
           <<req[h].pc, p>> \in {<<"resolve", "login-track">>, <<"issue", "revoke">>},
           UNCHANGED <<now, approved, held, trackVars, revokeVars, frontier, locked>>
    PROVE  Inv'
<1>1. PICK j \in NewJti : /\ tokens' = tokens \cup {[jti |-> j, fid |-> req[h].fid, exp |-> now + Life]}
                          /\ req' = [req EXCEPT ![h].pc = p, ![h].new = {j}]
                          /\ astray' = IF req[h].old \cap astray = {} THEN astray ELSE astray \cup {j}
  BY DEF Issue
<1> DEFINE t == [jti |-> j, fid |-> req[h].fid, exp |-> now + Life]
<1>2. j \in Jti /\ j \notin Signed /\ req[h].fid \in Fid /\ now + Life \in Nat
  BY SetTypes, LifeAssumption DEF NewJti
<1>3. t \in Token /\ t.jti = j /\ t.fid = req[h].fid /\ t.exp = now + Life
  BY <1>2 DEF Token
<1>4. /\ p \in HandPhase /\ p \in AdmitPhase /\ req[h].pc \in AdmitPhase /\ req[h].pc \notin HandPhase \cup TtlPhase
      /\ p \in LoginPhase => req[h].pc \in LoginPhase
      /\ p \notin {"track", "untrack", "out-untrack", "kill", "del"} /\ p \notin LockPhase
      /\ p \in {"login-track", "revoke"}
  BY DEF HandPhase, TtlPhase, AdmitPhase, LoginPhase, RefreshPhase, LockPhase
<1>5. /\ req' \in [Handler -> Request] /\ req'[h].pc = p /\ req'[h].fid = req[h].fid /\ req'[h].old = req[h].old
      /\ req'[h].new = {j} /\ req'[h].todo = req[h].todo /\ \A g \in Handler \ {h} : req'[g] = req[g]
  <2>1. req \in [Handler -> Request] /\ req[h] \in Request
    BY DEF Inv, TypeOK
  <2>2. [req[h] EXCEPT !.pc = p, !.new = {j}] \in Request
    BY <1>2, <1>4, <2>1 DEF Request, AdmitPhase
  <2>3. req' = [req EXCEPT ![h] = [req[h] EXCEPT !.pc = p, !.new = {j}]]
    BY <1>1, <2>1
  <2>4. req' \in [Handler -> Request]
    BY <2>1, <2>2, <2>3
  <2>5. QED
    BY <2>1, <2>3, <2>4 DEF Request
<1>7. tokens' = tokens \cup {t} /\ astray \subseteq astray' /\ astray' \subseteq Jti
  <2>1. astray \subseteq Jti
    BY DEF Inv, TypeOK
  <2>2. astray' = astray \/ astray' = astray \cup {j}
    BY <1>1
  <2>3. tokens' = tokens \cup {t}
    BY <1>1
  <2>4. QED
    BY <1>2, <2>1, <2>2, <2>3
<1> HIDE DEF t
<1>6. Signed' = Signed \cup {j}
  <2>1. Signed' = {u.jti : u \in tokens \cup {t}}
    BY <1>7 DEF Signed
  <2>2. QED
    BY <1>3, <2>1 DEF Signed
<1>8. TypeOK'
  <2>1. tokens' \subseteq Token /\ tracked' \in [Fid -> SUBSET Signed'] /\ trackTill' \in [Fid -> Nat]
    BY <1>3, <1>6, <1>7 DEF Inv, TypeOK, trackVars
  <2>2. held' \subseteq Signed' /\ revoked' \subseteq Signed' /\ frontier' \subseteq Signed' /\ revokeTill' \in Nat
    BY <1>6 DEF Inv, TypeOK, revokeVars
  <2>3. QED
    BY <1>5, <1>7, <2>1, <2>2, Counting DEF Inv, TypeOK
<1>9. TokensFit'
  <2>1. \A u \in tokens : u.jti # j
    BY <1>2 DEF Signed
  <2>2. now + Life <= now + Life
    BY <1>2
  <2>3. QED
    BY <1>3, <1>7, <2>1, <2>2 DEF Inv, TokensFit
<1>10. \A g \in Handler : HandFits(req[g], tokens) /\ j \notin req[g].new \cup req[g].old \cup req[g].todo
  BY <1>2, SetTypes DEF Inv, HandsFit
<1>11. HandsFit'
  <2>1. \A g \in Handler : HandFits(req'[g], tokens')
    <3> TAKE g \in Handler
    <3>1. CASE g = h
      <4>1. \A u \in tokens' : u.jti = j => u.fid = req[h].fid
        BY <1>2, <1>3, <1>7 DEF Signed
      <4>2. {j} \cup req[h].old \cup req[h].todo \subseteq {u.jti : u \in tokens'}
        BY <1>3, <1>7, <1>10 DEF HandFits
      <4>3. QED
        BY <1>5, <1>10, <3>1, <4>1, <4>2 DEF HandFits
    <3>2. CASE g # h
      BY <1>3, <1>5, <1>7, <1>10, <3>2 DEF HandFits
    <3>3. QED
      BY <3>1, <3>2
  <2>2. \A g \in Handler : SpentFits(req'[g], tokens', now, revoked, astray')
    <3> TAKE g \in Handler
    <3>1. CASE g = h
      BY <1>4, <1>5, <3>1 DEF SpentFits
    <3>2. CASE g # h
      BY <1>3, <1>5, <1>7, <1>10, <3>2 DEF Inv, HandsFit, SpentFits, Gone
    <3>3. QED
      BY <3>1, <3>2
  <2>3. QED
    BY <2>1, <2>2 DEF HandsFit, revokeVars
<1>12. LocksFit'
  <2>1. \A g \in Handler : CleanFits(req'[g], tokens', now, revoked, astray', approved)
    <3> TAKE g \in Handler
    <3>1. CASE g = h
      BY <1>4, <1>5, <3>1 DEF CleanFits
    <3>2. CASE g # h
      <4>1. CleanFits(req[g], tokens, now, revoked, astray, approved) /\ Apart(req[g], req[h])
        BY DEF Inv, LocksFit
      <4>2. QED
        BY <1>3, <1>4, <1>5, <1>7, <3>2, <4>1 DEF CleanFits, Apart, Gone
    <3>3. QED
      BY <3>1, <3>2
  <2>2. \A g, i \in Handler : Apart(req'[g], req'[i])
    <3> TAKE g, i \in Handler
    <3>1. Apart(req[g], req[i])
      BY DEF Inv, LocksFit
    <3>2. QED
      BY <1>4, <1>5, <3>1 DEF Apart
  <2>3. QED
    BY <2>1, <2>2 DEF LocksFit, revokeVars
<1>13. LockedFit'
  <2>1. AdmitFits(req[h], locked, astray)
    BY DEF Inv, LockedFit
  <2>2. req[h].fid \in locked => req[h].old \cap astray # {} /\ j \in astray' /\ req[h].pc \in RefreshPhase
    BY <1>1, <1>4, <2>1 DEF AdmitFits
  <2>3. \A f \in locked : LockedFits(f, tokens', now, revoked, astray', approved)
    BY <1>3, <1>7, <2>2 DEF Inv, LockedFit, LockedFits, Gone
  <2>4. \A g \in Handler : AdmitFits(req'[g], locked, astray')
    <3> TAKE g \in Handler
    <3>1. CASE g = h
      BY <1>4, <1>5, <1>7, <2>2, <3>1, Phases DEF AdmitFits, AdmitPhase
    <3>2. CASE g # h
      BY <1>5, <1>7, <3>2 DEF Inv, LockedFit, AdmitFits
    <3>3. QED
      BY <3>1, <3>2
  <2>5. QED
    BY <2>3, <2>4 DEF LockedFit, revokeVars
<1>14. AllCovered'
  <2>1. ASSUME NEW u \in tokens PROVE Covered(u, now, revoked, astray', tracked, trackTill, req')
    <3>1. Covered(u, now, revoked, astray, tracked, trackTill, req)
      BY DEF Inv, AllCovered
    <3>2. HeldBy(req, u) => HeldBy(req', u)
      BY <1>4, <1>5 DEF HeldBy
    <3>3. Settling(req, u) => Settling(req', u)
      BY <1>4, <1>5 DEF Settling
    <3>4. QED
      BY <1>7, <3>1, <3>2, <3>3 DEF Covered, Gone
  <2>2. Covered(t, now, revoked, astray', tracked, trackTill, req')
    <3>1. HeldBy(req', t)
      BY <1>3, <1>4, <1>5 DEF HeldBy
    <3>2. QED
      BY <3>1 DEF Covered
  <2>3. QED
    BY <1>7, <2>1, <2>2 DEF AllCovered, revokeVars, trackVars
<1>15. QED
  BY <1>8, <1>9, <1>11, <1>12, <1>13, <1>14 DEF Inv

-----------------------------------------------------------------------------
(* Letting a request in                                                    *)

\* A request that starts has nothing in hand yet.
LEMMA AcceptStep ==
    ASSUME Inv, NEW h \in Handler, Accept(h), NEW r \in Request, req'[h] = r,
           r.new = {}, r.todo = {}, r.old \subseteq Signed, \A i, j \in r.old : i = j,
           r.pc \notin {"track", "untrack", "out-untrack", "kill", "del"},
           req' \in [Handler -> Request],
           \A g \in Handler \ {h} : req'[g] = req[g] \/ req'[g] = [req[g] EXCEPT !.clean = FALSE],
           approved' \in [Fid -> BOOLEAN], \A f \in Fid : approved'[f] => approved[f],
           r.clean => ~approved'[r.fid],
           \A g \in Handler \ {h} : Apart(req'[g], r),
           AdmitFits(r, locked, astray),
           UNCHANGED <<now, tokens, held, trackVars, revokeVars, frontier, astray, locked>>
    PROVE  Inv'
<1>1. TypeOK'
  BY Counting DEF Inv, TypeOK, Signed, trackVars, revokeVars
<1>2. Loosens
  BY Calm
<1>3. HandFits(r, tokens) /\ SpentFits(r, tokens, now, revoked', astray') /\ CleanFits(r, tokens, now, revoked', astray', approved')
  BY DEF HandFits, SpentFits, CleanFits, Signed
<1>4. \A g \in Handler : Apart(r, req[g])
  BY DEF Apart
<1>5. \A g \in Handler \ {h} : req'[g].pc = req[g].pc /\ req'[g].fid = req[g].fid /\ req'[g].new = req[g].new
  BY DEF Inv, TypeOK, Request
<1>6. req[h].pc \notin HandPhase \cup TtlPhase
  BY DEF Accept, HandPhase, TtlPhase
<1>7. \A u \in tokens : Covered(u, now, revoked', astray', tracked', trackTill', req')
  BY <1>2, <1>5, <1>6, CoverKept
<1>8. QED
  BY <1>1, <1>2, <1>3, <1>4, <1>7, MoveStep

LEMMA LoginReadStep == ASSUME Inv, NEW h \in Handler, LoginRead(h) PROVE Inv'
<1>1. /\ Accept(h)
      /\ UNCHANGED <<now, tokens, approved, held, trackVars, revokeVars, frontier, astray, locked>>
  BY DEF LoginRead, issueVars
<1>2. PICK f \in Fid : approved[f] /\ req' = [req EXCEPT ![h] = [NoRequest EXCEPT !.pc = "resolve", !.fid = f]]
  BY DEF LoginRead
<1> DEFINE r == [NoRequest EXCEPT !.pc = "resolve", !.fid = f]
<1>3. NoRequest \in Request
  BY Nothing
<1>4. /\ r \in Request /\ r.pc = "resolve" /\ r.fid = f /\ r.new = {} /\ r.old = {} /\ r.todo = {} /\ ~r.clean
  BY <1>3, Nothing DEF Request, LoginPhase
<1>5. req' \in [Handler -> Request] /\ req'[h] = r /\ \A g \in Handler \ {h} : req'[g] = req[g]
  BY <1>2, <1>4 DEF Inv, TypeOK
<1> HIDE DEF r
<1>6. \A g \in Handler \ {h} : Apart(req'[g], r)
  <2> TAKE g \in Handler \ {h}
  <2>1. CleanFits(req[g], tokens, now, revoked, astray, approved)
    BY DEF Inv, LocksFit
  <2>2. QED
    BY <1>2, <1>4, <1>5, <2>1 DEF Apart, CleanFits, LockPhase
<1>7. AdmitFits(r, locked, astray)
  BY <1>2, <1>4 DEF Inv, LockedFit, LockedFits, AdmitFits
<1>8. approved' \in [Fid -> BOOLEAN] /\ \A g \in Fid : approved'[g] => approved[g]
  BY <1>1 DEF Inv, TypeOK
<1>9. QED
  BY <1>1, <1>4, <1>5, <1>6, <1>7, <1>8, AcceptStep

LEMMA RefreshValidateStep == ASSUME Inv, NEW h \in Handler, RefreshValidate(h) PROVE Inv'
<1>1. /\ Accept(h)
      /\ UNCHANGED <<now, tokens, approved, held, trackVars, revokeVars, frontier, astray, locked>>
  BY DEF RefreshValidate, issueVars
<1>2. PICK t \in tokens :
         /\ Alive(t)
         /\ req' = [[g \in Handler |-> Disturbs(req[g], t.fid)] EXCEPT
                      ![h] = [NoRequest EXCEPT !.pc = "lookup", !.fid = t.fid, !.old = {t.jti}]]
  BY DEF RefreshValidate
<1> DEFINE r == [NoRequest EXCEPT !.pc = "lookup", !.fid = t.fid, !.old = {t.jti}]
<1>3. NoRequest \in Request /\ t.fid \in Fid /\ t.jti \in Signed /\ Signed \subseteq Jti
  BY Nothing, SetTypes DEF Signed
<1>4. /\ r \in Request /\ r.pc = "lookup" /\ r.fid = t.fid /\ r.new = {} /\ r.old = {t.jti} /\ r.todo = {} /\ ~r.clean
  BY <1>3, Nothing DEF Request, RefreshPhase
<1>5. \A g \in Handler : /\ Disturbs(req[g], t.fid) \in Request
                         /\ Disturbs(req[g], t.fid) = req[g] \/ Disturbs(req[g], t.fid) = [req[g] EXCEPT !.clean = FALSE]
  BY SetTypes DEF Disturbs, Request
<1>6. req' \in [Handler -> Request] /\ req'[h] = r /\ \A g \in Handler \ {h} : req'[g] = Disturbs(req[g], t.fid)
  BY <1>2, <1>4, <1>5
<1> HIDE DEF r
<1>7. \A g \in Handler \ {h} : Apart(req'[g], r)
  BY <1>4, <1>6, SetTypes DEF Apart, Disturbs, Request
<1>8. AdmitFits(r, locked, astray)
  <2>1. t.fid \in locked => t.jti \in astray
    <3>1. t.exp \in Nat /\ now \in Nat
      BY SetTypes
    <3>2. t.fid \in locked => Gone(t, now, revoked, astray)
      BY DEF Inv, LockedFit, LockedFits
    <3>3. QED
      BY <1>2, <3>1, <3>2 DEF Gone, Alive
  <2>2. QED
    BY <1>4, <2>1 DEF AdmitFits, RefreshPhase
<1>9. approved' \in [Fid -> BOOLEAN] /\ \A g \in Fid : approved'[g] => approved[g]
  BY <1>1 DEF Inv, TypeOK
<1>10. QED
  BY <1>1, <1>3, <1>4, <1>5, <1>6, <1>7, <1>8, <1>9, AcceptStep

LEMMA LogoutValidateStep == ASSUME Inv, NEW h \in Handler, LogoutValidate(h) PROVE Inv'
<1>1. /\ Accept(h)
      /\ UNCHANGED <<now, tokens, approved, held, trackVars, revokeVars, frontier, astray, locked>>
  BY DEF LogoutValidate, issueVars
<1>2. PICK t \in tokens :
         req' = [req EXCEPT ![h] = [NoRequest EXCEPT !.pc = "out-revoke", !.fid = t.fid, !.old = {t.jti}]]
  BY DEF LogoutValidate
<1> DEFINE r == [NoRequest EXCEPT !.pc = "out-revoke", !.fid = t.fid, !.old = {t.jti}]
<1>3. NoRequest \in Request /\ t.fid \in Fid /\ t.jti \in Signed /\ Signed \subseteq Jti
  BY Nothing, SetTypes DEF Signed
<1>4. /\ r \in Request /\ r.pc = "out-revoke" /\ r.new = {} /\ r.old = {t.jti} /\ r.todo = {} /\ ~r.clean
  BY <1>3, Nothing DEF Request, LogoutPhase
<1>5. req' \in [Handler -> Request] /\ req'[h] = r /\ \A g \in Handler \ {h} : req'[g] = req[g]
  BY <1>2, <1>4 DEF Inv, TypeOK
<1> HIDE DEF r
<1>6. r.pc \notin AdmitPhase
  BY <1>4 DEF AdmitPhase, LoginPhase, RefreshPhase
<1>7. approved' \in [Fid -> BOOLEAN] /\ \A g \in Fid : approved'[g] => approved[g]
  BY <1>1 DEF Inv, TypeOK
<1>8. QED
  BY <1>1, <1>3, <1>4, <1>5, <1>6, <1>7, AcceptStep DEF Apart, AdmitFits

LEMMA LockStartStep == ASSUME Inv, NEW h \in Handler, LockStart(h) PROVE Inv'
<1>1. /\ Accept(h)
      /\ UNCHANGED <<now, tokens, held, trackVars, revokeVars, frontier, astray, locked>>
  BY DEF LockStart
<1>2. PICK f \in Fid, denies \in BOOLEAN :
         /\ approved' = IF denies THEN [approved EXCEPT ![f] = FALSE] ELSE approved
         /\ req' = [req EXCEPT ![h] = [NoRequest EXCEPT !.pc = "list", !.fid = f, !.clean = denies]]
  BY DEF LockStart
<1> DEFINE r == [NoRequest EXCEPT !.pc = "list", !.fid = f, !.clean = denies]
<1>3. NoRequest \in Request
  BY Nothing
<1>4. /\ r \in Request /\ r.pc = "list" /\ r.fid = f /\ r.new = {} /\ r.old = {} /\ r.todo = {} /\ r.clean = denies
  BY <1>3, Nothing DEF Request, LockPhase
<1>5. req' \in [Handler -> Request] /\ req'[h] = r /\ \A g \in Handler \ {h} : req'[g] = req[g]
  BY <1>2, <1>4 DEF Inv, TypeOK
<1> HIDE DEF r
<1>6. r.pc \notin AdmitPhase
  BY <1>4 DEF AdmitPhase, LoginPhase, RefreshPhase
<1>7. /\ approved' \in [Fid -> BOOLEAN] /\ \A g \in Fid : approved'[g] => approved[g]
      /\ denies => ~approved'[f]
  BY <1>2 DEF Inv, TypeOK
<1>8. QED
  BY <1>1, <1>4, <1>5, <1>6, <1>7, AcceptStep DEF Apart, AdmitFits

-----------------------------------------------------------------------------
(* Handing the token out                                                   *)

\* A request that gives up before it has anything in hand.
LEMMA RefusedStep ==
    ASSUME Inv, NEW h \in Handler, Finish(h), req[h].pc \notin HandPhase \cup TtlPhase, NoFault \/ Fault,
           UNCHANGED <<now, tokens, approved, held, trackVars, revokeVars, frontier, astray, locked>>
    PROVE  Inv'
<1>1. TypeOK'
  BY Ends, Counting DEF Inv, TypeOK, Signed, trackVars, revokeVars
<1>2. QED
  BY <1>1, Calm, FinishQuiet

LEMMA LoginIssueStep == ASSUME Inv, NEW h \in Handler, LoginIssue(h) PROVE Inv'
<1>1. req[h].pc = "resolve" /\ UNCHANGED <<now, approved, held, trackVars, revokeVars, frontier, locked>>
  BY DEF LoginIssue
<1>2. CASE NoFault /\ Issue(h, "login-track")
  BY <1>1, <1>2, IssueStep
<1>3. CASE Fault /\ UNCHANGED <<tokens, astray>> /\ Finish(h)
  BY <1>1, <1>3, RefusedStep DEF HandPhase, TtlPhase
<1>4. QED
  BY <1>2, <1>3 DEF LoginIssue

LEMMA RefreshIssueStep == ASSUME Inv, NEW h \in Handler, RefreshIssue(h) PROVE Inv'
<1>1. req[h].pc = "issue" /\ UNCHANGED <<now, approved, held, trackVars, revokeVars, frontier, locked>>
  BY DEF RefreshIssue
<1>2. CASE NoFault /\ Issue(h, "revoke")
  BY <1>1, <1>2, IssueStep
<1>3. CASE Fault /\ UNCHANGED <<tokens, astray>> /\ Finish(h)
  BY <1>1, <1>3, RefusedStep DEF HandPhase, TtlPhase
<1>4. QED
  BY <1>2, <1>3 DEF RefreshIssue

LEMMA RefreshLookupStep == ASSUME Inv, NEW h \in Handler, RefreshLookup(h) PROVE Inv'
<1>1. /\ req[h].pc = "lookup"
      /\ UNCHANGED <<now, tokens, approved, held, trackVars, revokeVars, frontier, astray, locked>>
  BY DEF RefreshLookup, issueVars
<1>2. CASE NoFault /\ Goto(h, "issue")
  <2>1. /\ "issue" \in AdmitPhase /\ "lookup" \in AdmitPhase /\ "issue" \notin LoginPhase
        /\ "lookup" \notin HandPhase \cup TtlPhase
    BY DEF AdmitPhase, LoginPhase, RefreshPhase, HandPhase, TtlPhase
  <2>2. req' \in [Handler -> Request] /\ req'[h].pc = "issue" /\ \A g \in Handler \ {h} : req'[g] = req[g]
    BY <1>2, <2>1, Onward
  <2>3. TypeOK' /\ Loosens
    BY <1>1, <1>2, <2>2, Counting, Calm DEF Inv, TypeOK, Signed, trackVars, revokeVars
  <2>4. \A u \in tokens : Covered(u, now, revoked', astray', tracked', trackTill', req')
    BY <1>1, <2>1, <2>2, <2>3, CoverKept
  <2>5. SpentFits(req'[h], tokens, now, revoked', astray')
    BY <2>2 DEF SpentFits
  <2>6. QED
    BY <1>1, <1>2, <2>1, <2>3, <2>4, <2>5, GotoStep
<1>3. CASE (NoFault \/ Fault) /\ Finish(h)
  BY <1>1, <1>3, RefusedStep DEF HandPhase, TtlPhase
<1>4. QED
  BY <1>2, <1>3 DEF RefreshLookup

\* The last step of a login or a refresh: the client holds the new token.
LEMMA StoreStep ==
    ASSUME Inv, NEW h \in Handler, StoreAndReply(h), req[h].pc \in {"login-store", "store"}
    PROVE  Inv'
<1>1. Finish(h) /\ UNCHANGED <<now, tokens, approved, trackVars, revokeVars, astray, locked>>
  BY DEF StoreAndReply, issueVars
<1>2. held' \subseteq Signed /\ frontier' \subseteq Signed
  BY SetTypes DEF StoreAndReply, Inv, TypeOK
<1>3. faults' \in Nat /\ requests' \in Nat
  BY Counting DEF StoreAndReply, Inv
<1>4. TypeOK'
  BY <1>1, <1>2, <1>3, Ends DEF Inv, TypeOK, Signed, trackVars, revokeVars
<1>5. QED
  BY <1>1, <1>4, Calm, FinishQuiet DEF HandPhase, TtlPhase

-----------------------------------------------------------------------------
(* Revoking                                                                *)

\* The token a request came with is revoked, and the request goes on.
LEMMA RevokeStep ==
    ASSUME Inv, NEW h \in Handler, NEW p, Goto(h, p),
           \E j \in req[h].old : \E e \in Expiries({j}) : RevokeJTI(j, e),
           <<req[h].pc, p>> \in {<<"revoke", "track">>, <<"out-revoke", "out-untrack">>},
           UNCHANGED <<now, tokens, approved, held, trackVars, frontier, locked>>
    PROVE  Inv'
<1>1. PICK j \in req[h].old : \E e \in Expiries({j}) : RevokeJTI(j, e)
  OBVIOUS
<1> PICK e \in Expiries({j}) : RevokeJTI(j, e)
  BY <1>1
<1>2. j \in Signed /\ e \in Nat
  BY SetTypes DEF Expiries
<1>3. /\ Loosens /\ revoked' \subseteq Signed /\ revokeTill' \in Nat /\ astray' \subseteq Jti
      /\ faults' \in Nat /\ requests' \in Nat
      /\ \A u \in tokens : u.jti = j => Gone(u, now, revoked', astray')
  BY <1>1, <1>2, Revoking
<1>4. /\ p \in AdmitPhase \cup LogoutPhase /\ p \notin LoginPhase /\ req[h].pc \notin TtlPhase
      /\ p \in AdmitPhase => req[h].pc \in AdmitPhase
      /\ req[h].pc \in HandPhase => p \in HandPhase
  BY DEF AdmitPhase, LoginPhase, RefreshPhase, LogoutPhase, HandPhase, TtlPhase
<1>5. /\ req' \in [Handler -> Request] /\ req'[h].pc = p /\ req'[h].fid = req[h].fid /\ req'[h].old = req[h].old
      /\ req'[h].new = req[h].new /\ \A g \in Handler \ {h} : req'[g] = req[g]
  BY <1>4, Onward
<1>6. TypeOK'
  BY <1>3, <1>5 DEF Inv, TypeOK, Signed, trackVars
<1>7. \A i \in req[h].old : i = j
  BY DEF Inv, HandsFit, HandFits
<1>8. SpentFits(req'[h], tokens, now, revoked', astray')
  BY <1>3, <1>5, <1>7 DEF SpentFits
<1>9. \A u \in tokens : Covered(u, now, revoked', astray', tracked', trackTill', req')
  BY <1>3, <1>4, <1>5, CoverKept
<1>10. QED
  BY <1>3, <1>4, <1>6, <1>8, <1>9, GotoStep

-----------------------------------------------------------------------------
(* The lockout                                                             *)

\* What a lockout still has to show, once its request is known.
LEMMA LockMove ==
    ASSUME Inv, NEW h \in Handler, NEW r \in Request, req' = [req EXCEPT ![h] = r],
           req[h].pc \in LockPhase, r.pc \in LockPhase, r.fid = req[h].fid, r.new = req[h].new, r.old = req[h].old,
           r.todo \subseteq Signed, TypeOK', Loosens, UNCHANGED <<now, tokens, approved, trackVars, locked>>,
           CleanFits(r, tokens, now, revoked', astray', approved),
           \A g \in Handler \ {h} : Apart(r, req[g])
    PROVE  Inv'
<1>1. req'[h] = r /\ \A g \in Handler \ {h} : req'[g] = req[g]
  BY DEF Inv, TypeOK
<1>2. r.pc \notin AdmitPhase \cup HandPhase \cup TtlPhase /\ req[h].pc \notin HandPhase \cup TtlPhase
      /\ r.pc \notin {"track", "untrack", "out-untrack"}
  BY DEF LockPhase, AdmitPhase, LoginPhase, RefreshPhase, HandPhase, TtlPhase
<1>3. HandFits(r, tokens) /\ SpentFits(r, tokens, now, revoked', astray') /\ AdmitFits(r, locked', astray')
  BY <1>2 DEF Inv, HandsFit, HandFits, SpentFits, AdmitFits, Signed
<1>4. \A g \in Handler \ {h} : Apart(req'[g], r)
  BY <1>2 DEF Apart
<1>5. \A u \in tokens : Covered(u, now, revoked', astray', tracked', trackTill', req')
  BY <1>1, <1>2, CoverKept
<1>6. \A f \in Fid : approved'[f] => approved[f]
  OBVIOUS
<1>7. QED
  BY <1>1, <1>3, <1>4, <1>5, <1>6, MoveStep

LEMMA LockListStep == ASSUME Inv, NEW h \in Handler, LockList(h) PROVE Inv'
<1>1. /\ req[h].pc = "list"
      /\ UNCHANGED <<now, tokens, approved, held, trackVars, revokeVars, frontier, astray, locked>>
  BY DEF LockList, issueVars
<1> DEFINE f == req[h].fid
           c == req[h].clean /\ Admitted(f) = {}
           r == [req[h] EXCEPT !.pc = "kill", !.todo = tracked[f], !.till = now + Day, !.clean = c]
<1>2. CASE NoFault /\ req' = [req EXCEPT ![h].pc = "kill", ![h].todo = tracked[f], ![h].till = now + Day,
                                         ![h].clean = @ /\ Admitted(f) = {}]
  <2>1. req[h] \in Request /\ f \in Fid /\ tracked[f] \subseteq Signed /\ Signed \subseteq Jti /\ now + Day \in Nat
    BY SetTypes DEF Inv, TypeOK
  <2>2. c \in BOOLEAN
    BY <2>1 DEF Request
  <2>3. /\ r \in Request /\ r.pc = "kill" /\ r.fid = f /\ r.new = req[h].new /\ r.old = req[h].old
        /\ r.todo = tracked[f] /\ r.clean = c
    BY <2>1, <2>2 DEF Request, LockPhase
  <2>4. req' = [req EXCEPT ![h] = r]
    BY <1>2 DEF Inv, TypeOK
  <2>5. c => \A g \in Handler : req[g].fid = f => req[g].pc \notin AdmitPhase
    BY DEF Admitted, AdmitPhase
  <2> HIDE DEF r
  <2>6. req' \in [Handler -> Request]
    BY <2>3, <2>4 DEF Inv, TypeOK
  <2>7. TypeOK'
    BY <1>1, <1>2, <2>6, Counting DEF Inv, TypeOK, Signed, trackVars, revokeVars
  <2>8. ASSUME c PROVE /\ ~approved[f]
                       /\ \A u \in tokens : u.fid = f => Gone(u, now, revoked, astray) \/ u.jti \in tracked[f]
    <3>1. ~approved[f]
      BY <1>1, <2>8 DEF Inv, LocksFit, CleanFits, LockPhase
    <3>2. ASSUME NEW u \in tokens, u.fid = f PROVE Gone(u, now, revoked, astray) \/ u.jti \in tracked[f]
      <4>1. Covered(u, now, revoked, astray, tracked, trackTill, req)
        BY DEF Inv, AllCovered
      <4>2. ~HeldBy(req, u)
        BY <2>5, <2>8, <3>2, Phases DEF Inv, HandsFit, HandFits, HeldBy
      <4>3. QED
        BY <3>2, <4>1, <4>2 DEF Covered
    <3>3. QED
      BY <3>1, <3>2
  <2>9. CleanFits(r, tokens, now, revoked', astray', approved)
    BY <1>1, <2>3, <2>8 DEF CleanFits, revokeVars
  <2>10. \A g \in Handler \ {h} : Apart(r, req[g])
    BY <2>3, <2>5 DEF Apart
  <2>11. req[h].pc \in LockPhase /\ r.pc \in LockPhase
    BY <1>1, <2>3 DEF LockPhase
  <2>12. QED
    BY <1>1, <2>1, <2>3, <2>4, <2>7, <2>9, <2>10, <2>11, Calm, LockMove
<1>3. CASE Fault /\ Finish(h)
  BY <1>1, <1>3, RefusedStep DEF HandPhase, TtlPhase
<1>4. QED
  BY <1>2, <1>3 DEF LockList

LEMMA LockKillStep == ASSUME Inv, NEW h \in Handler, LockKill(h) PROVE Inv'
<1>1. req[h].pc = "kill" /\ UNCHANGED <<now, tokens, approved, held, trackVars, frontier, locked>>
  BY DEF LockKill, issueVars
<1>2. PICK j \in req[h].todo : RevokeJTI(j, req[h].till) /\ req' = [req EXCEPT ![h].todo = @ \ {j}]
  BY DEF LockKill
<1> DEFINE r == [req[h] EXCEPT !.todo = @ \ {j}]
<1>3. req[h] \in Request /\ req[h].todo \subseteq Signed /\ req[h].till \in Nat /\ j \in Signed
  BY SetTypes
<1>4. /\ r \in Request /\ r.pc = "kill" /\ r.fid = req[h].fid /\ r.new = req[h].new /\ r.old = req[h].old
      /\ r.todo = req[h].todo \ {j} /\ r.clean = req[h].clean
  BY <1>1, <1>3 DEF Request
<1>5. req' = [req EXCEPT ![h] = r]
  BY <1>2 DEF Inv, TypeOK
<1> HIDE DEF r
<1>6. req' \in [Handler -> Request]
  BY <1>4, <1>5 DEF Inv, TypeOK
<1>7. /\ Loosens /\ revoked' \subseteq Signed /\ revokeTill' \in Nat /\ astray' \subseteq Jti
      /\ faults' \in Nat /\ requests' \in Nat
      /\ \A u \in tokens : u.jti = j => Gone(u, now, revoked', astray')
  BY <1>1, <1>2, <1>3, Revoking
<1>8. TypeOK'
  BY <1>1, <1>6, <1>7 DEF Inv, TypeOK, Signed, trackVars
<1>9. \A u \in tokens : Gone(u, now, revoked, astray) => Gone(u, now, revoked', astray')
  BY <1>1, <1>7, SetTypes, GoneStays DEF Inv
<1>10. CleanFits(r, tokens, now, revoked', astray', approved)
  <2>1. CleanFits(req[h], tokens, now, revoked, astray, approved)
    BY DEF Inv, LocksFit
  <2>2. QED
    BY <1>1, <1>4, <1>7, <1>9, <2>1 DEF CleanFits
<1>11. \A g \in Handler \ {h} : Apart(r, req[g])
  BY <1>1, <1>4 DEF Inv, LocksFit, Apart
<1>12. "kill" \in LockPhase
  BY DEF LockPhase
<1>13. QED
  BY <1>1, <1>3, <1>4, <1>5, <1>7, <1>8, <1>10, <1>11, <1>12, LockMove

LEMMA LockKilledStep == ASSUME Inv, NEW h \in Handler, LockKilled(h) PROVE Inv'
<1>1. /\ req[h].pc = "kill" /\ req[h].todo = {} /\ NoFault /\ Goto(h, "del")
      /\ UNCHANGED <<now, tokens, approved, held, trackVars, revokeVars, frontier, astray, locked>>
  BY DEF LockKilled, issueVars
<1>2. "del" \in LockPhase /\ "kill" \in LockPhase
  BY DEF LockPhase
<1> DEFINE r == [req[h] EXCEPT !.pc = "del"]
<1>3. /\ r \in Request /\ r.pc = "del" /\ r.fid = req[h].fid /\ r.new = req[h].new /\ r.old = req[h].old
      /\ r.todo = {} /\ r.clean = req[h].clean
  BY <1>1, <1>2, SetTypes DEF Request
<1>4. req' = [req EXCEPT ![h] = r]
  BY <1>1 DEF Inv, TypeOK, Goto
<1> HIDE DEF r
<1>5. req' \in [Handler -> Request]
  BY <1>3, <1>4 DEF Inv, TypeOK
<1>6. TypeOK'
  BY <1>1, <1>5, Counting DEF Inv, TypeOK, Signed, trackVars, revokeVars
<1>7. CleanFits(r, tokens, now, revoked', astray', approved)
  <2>1. CleanFits(req[h], tokens, now, revoked, astray, approved)
    BY DEF Inv, LocksFit
  <2>2. QED
    BY <1>1, <1>2, <1>3, <2>1 DEF CleanFits, revokeVars
<1>8. \A g \in Handler \ {h} : Apart(r, req[g])
  BY <1>1, <1>3 DEF Inv, LocksFit, Apart
<1>9. QED
  BY <1>1, <1>2, <1>3, <1>4, <1>6, <1>7, <1>8, Calm, LockMove

LEMMA LockDelStep == ASSUME Inv, NEW h \in Handler, LockDel(h) PROVE Inv'
<1> DEFINE f == req[h].fid
<1>1. /\ req[h].pc = "del" /\ Finish(h)
      /\ UNCHANGED <<now, tokens, approved, held, revokeVars, frontier>>
      /\ locked' = IF req[h].clean THEN locked \cup {f} ELSE locked
  BY DEF LockDel, issueVars
<1>2. "del" \notin HandPhase \cup TtlPhase /\ "del" \in LockPhase /\ f \in Fid
  BY SetTypes DEF HandPhase, TtlPhase, LockPhase
<1>3. req' \in [Handler -> Request] /\ \A g \in Handler \ {h} : req'[g] = req[g]
  BY <1>1, Ends DEF Inv, TypeOK, Finish
<1>4. astray \subseteq astray' /\ astray' \subseteq Jti
  <2>1. tracked[f] \subseteq Jti
    BY <1>2, SetTypes DEF Inv, TypeOK
  <2>2. QED
    BY <2>1 DEF LockDel, Inv, TypeOK
<1>5. Loosens
  BY <1>1, <1>4, Calm
<1>6. \A u \in tokens : Gone(u, now, revoked, astray) => Gone(u, now, revoked', astray')
  BY <1>1, <1>5, SetTypes, GoneStays DEF Inv
<1>7. req[h].clean => ~approved[f] /\ \A u \in tokens : u.fid = f => Gone(u, now, revoked, astray)
  <2>1. CleanFits(req[h], tokens, now, revoked, astray, approved)
    BY DEF Inv, LocksFit
  <2>2. QED
    BY <1>1, <1>2, <2>1 DEF CleanFits
<1>8. /\ locked \subseteq locked' /\ locked' \subseteq Fid
      /\ \A l \in locked' \ locked : /\ LockedFits(l, tokens, now, revoked', astray', approved')
                                    /\ \A g \in Handler \ {h} : req[g].fid = l => req[g].pc \notin AdmitPhase
  <2>1. locked \subseteq locked' /\ locked' \subseteq Fid
    BY <1>1, <1>2 DEF Inv, TypeOK
  <2>2. ASSUME NEW l \in locked' \ locked
        PROVE  /\ LockedFits(l, tokens, now, revoked', astray', approved')
               /\ \A g \in Handler \ {h} : req[g].fid = l => req[g].pc \notin AdmitPhase
    <3>1. req[h].clean /\ l = f
      BY <1>1, <2>2
    <3>2. LockedFits(l, tokens, now, revoked', astray', approved')
      BY <1>1, <1>6, <1>7, <3>1 DEF LockedFits
    <3>3. QED
      BY <1>1, <3>1, <3>2 DEF Inv, LocksFit, Apart
  <2>3. QED
    BY <2>1, <2>2
<1>9. \A g \in Fid : approved'[g] => approved[g]
  BY <1>1
<1>10. CASE /\ NoFault /\ tracked' = [tracked EXCEPT ![f] = {}] /\ trackTill' = [trackTill EXCEPT ![f] = Forever]
            /\ astray' = IF req[h].clean THEN astray ELSE astray \cup (tracked[f] \ revoked)
  <2>1. /\ tracked' \in [Fid -> SUBSET Signed] /\ trackTill' \in [Fid -> Nat]
        /\ \A g \in Fid \ {f} : tracked'[g] = tracked[g] /\ trackTill'[g] = trackTill[g]
    BY <1>10, SetTypes DEF Inv, TypeOK
  <2>2. TypeOK'
    BY <1>1, <1>3, <1>4, <1>8, <1>10, <2>1, Counting DEF Inv, TypeOK, Signed, revokeVars
  <2>3. ASSUME NEW u \in tokens PROVE Covered(u, now, revoked', astray', tracked', trackTill', req')
    <3>1. Covered(u, now, revoked, astray, tracked, trackTill, req) /\ u.fid \in Fid
      BY SetTypes DEF Inv, AllCovered
    <3>2. CASE Gone(u, now, revoked, astray)
      BY <1>6, <3>2 DEF Covered
    <3>3. CASE HeldBy(req, u)
      BY <1>1, <1>2, <1>3, <3>3 DEF HeldBy, Covered
    <3>4. CASE u.fid = f /\ u.jti \in tracked[f]
      <4>1. CASE req[h].clean
        BY <1>6, <1>7, <3>4, <4>1 DEF Covered
      <4>2. CASE ~req[h].clean
        BY <1>1, <1>10, <3>4, <4>2 DEF Covered, Gone, revokeVars
      <4>3. QED
        BY <4>1, <4>2
    <3>5. CASE u.fid # f /\ u.jti \in tracked[u.fid] /\ (trackTill[u.fid] >= u.exp \/ Settling(req, u))
      <4>1. Settling(req, u) => Settling(req', u)
        BY <1>1, <1>2, <1>3 DEF Settling
      <4>2. QED
        BY <2>1, <3>1, <3>5, <4>1 DEF Covered
    <3>6. QED
      BY <3>1, <3>2, <3>3, <3>4, <3>5 DEF Covered
  <2>4. QED
    BY <1>1, <1>5, <1>8, <1>9, <2>2, <2>3, FinishStep
<1>11. CASE Fault /\ UNCHANGED <<trackVars, astray>>
  <2>1. TypeOK'
    BY <1>1, <1>3, <1>4, <1>8, <1>11, Counting DEF Inv, TypeOK, Signed, trackVars, revokeVars
  <2>2. \A u \in tokens : Covered(u, now, revoked', astray', tracked', trackTill', req')
    BY <1>1, <1>2, <1>3, <1>5, <1>11, CoverKept
  <2>3. QED
    BY <1>1, <1>5, <1>8, <1>9, <2>1, <2>2, FinishStep
<1>12. QED
  BY <1>10, <1>11 DEF LockDel

LEMMA AbandonStep == ASSUME Inv, NEW h \in Handler, Abandon(h) PROVE Inv'
<1>1. /\ Fault /\ Finish(h) /\ astray' = astray \cup req[h].new
      /\ UNCHANGED <<now, tokens, approved, held, trackVars, revokeVars, frontier, locked>>
  BY DEF Abandon, issueVars
<1>2. astray' \subseteq Jti /\ Loosens
  BY <1>1, SetTypes, Calm DEF Inv, TypeOK
<1>3. TypeOK'
  BY <1>1, <1>2, Ends, Counting DEF Inv, TypeOK, Signed, trackVars, revokeVars
<1>4. QED
  BY <1>1, <1>2, <1>3, FinishQuiet

-----------------------------------------------------------------------------
(* The way back, and time                                                  *)

LEMMA ApproveStep == ASSUME Inv, NEW f \in Fid, Approve(f) PROVE Inv'
<1>1. /\ approved' = [approved EXCEPT ![f] = TRUE] /\ locked' = locked \ {f}
      /\ req' = [g \in Handler |-> IF req[g].fid = f THEN [req[g] EXCEPT !.clean = FALSE] ELSE req[g]]
      /\ NoFault /\ UNCHANGED <<now, tokens, held, trackVars, revokeVars, frontier, astray>>
  BY DEF Approve
<1>2. \A g \in Handler : /\ req'[g] \in Request /\ req'[g].pc = req[g].pc /\ req'[g].fid = req[g].fid
                         /\ req'[g].old = req[g].old /\ req'[g].new = req[g].new /\ req'[g].todo = req[g].todo
                         /\ req'[g].clean => req[g].clean /\ req[g].fid # f
  <2> TAKE g \in Handler
  <2>1. req[g] \in Request
    BY SetTypes
  <2>2. [req[g] EXCEPT !.clean = FALSE] \in Request
    BY <2>1 DEF Request
  <2>3. QED
    BY <1>1, <2>1, <2>2 DEF Request
<1>3. req' \in [Handler -> Request]
  BY <1>1, <1>2
<1>4. TypeOK'
  BY <1>1, <1>3, Counting DEF Inv, TypeOK, Signed, trackVars, revokeVars
<1>5. TokensFit'
  BY <1>1 DEF Inv, TokensFit
<1>6. HandsFit'
  <2>1. \A g \in Handler : HandFits(req[g], tokens) /\ SpentFits(req[g], tokens, now, revoked, astray)
    BY DEF Inv, HandsFit
  <2>2. QED
    BY <1>1, <1>2, <2>1 DEF HandsFit, HandFits, SpentFits, revokeVars
<1>7. \A l \in Fid \ {f} : approved'[l] = approved[l]
  BY <1>1 DEF Inv, TypeOK
<1>8. LocksFit'
  <2>1. \A g \in Handler : CleanFits(req'[g], tokens, now, revoked, astray, approved')
    <3> TAKE g \in Handler
    <3>1. CleanFits(req[g], tokens, now, revoked, astray, approved) /\ req[g].fid \in Fid
      BY SetTypes DEF Inv, LocksFit
    <3>2. QED
      BY <1>2, <1>7, <3>1 DEF CleanFits
  <2>2. \A g, i \in Handler : Apart(req'[g], req'[i])
    BY <1>2 DEF Inv, LocksFit, Apart
  <2>3. QED
    BY <1>1, <2>1, <2>2 DEF LocksFit, revokeVars
<1>9. LockedFit'
  <2>1. \A l \in locked' : LockedFits(l, tokens, now, revoked, astray, approved')
    BY <1>1, <1>7 DEF Inv, TypeOK, LockedFit, LockedFits
  <2>2. \A g \in Handler : AdmitFits(req'[g], locked', astray)
    BY <1>1, <1>2 DEF Inv, LockedFit, AdmitFits
  <2>3. QED
    BY <1>1, <2>1, <2>2 DEF LockedFit, revokeVars
<1>10. AllCovered'
  <2>1. \A u \in tokens : Covered(u, now, revoked, astray, tracked, trackTill, req')
    <3> TAKE u \in tokens
    <3>1. Covered(u, now, revoked, astray, tracked, trackTill, req)
      BY DEF Inv, AllCovered
    <3>2. HeldBy(req, u) => HeldBy(req', u)
      BY <1>2 DEF HeldBy
    <3>3. Settling(req, u) => Settling(req', u)
      BY <1>2 DEF Settling
    <3>4. QED
      BY <3>1, <3>2, <3>3 DEF Covered
  <2>2. QED
    BY <1>1, <2>1 DEF AllCovered, trackVars, revokeVars
<1>11. QED
  BY <1>4, <1>5, <1>6, <1>8, <1>9, <1>10 DEF Inv

LEMMA TickStep == ASSUME Inv, Tick PROVE Inv'
<1> DEFINE gone == {f \in Fid : trackTill[f] =< now'}
           late == UNION {Unsettled(f) : f \in gone}
<1>1. /\ now < MaxTime /\ now' = now + 1 /\ NoFault /\ UNCHANGED <<tokens, held, frontier, approved, req, locked>>
      /\ tracked' = [f \in Fid |-> IF f \in gone THEN {} ELSE tracked[f]]
      /\ trackTill' = [f \in Fid |-> IF f \in gone THEN Forever ELSE trackTill[f]]
      /\ \/ revoked' = {} /\ revokeTill' = Forever /\ astray' = astray \cup late \cup Revived(revoked, now')
         \/ UNCHANGED revokeVars /\ astray' = astray \cup late
  <2>1. /\ now < MaxTime /\ now' = now + 1 /\ NoFault /\ UNCHANGED <<tokens, held, frontier, approved, req, locked>>
        /\ tracked' = [f \in Fid |-> IF f \in gone THEN {} ELSE tracked[f]]
        /\ trackTill' = [f \in Fid |-> IF f \in gone THEN Forever ELSE trackTill[f]]
    BY DEF Tick
  <2>2. \/ revoked' = {} /\ revokeTill' = Forever /\ astray' = astray \cup late \cup Revived(revoked, now')
        \/ UNCHANGED revokeVars /\ astray' = astray \cup late
    BY Zenon DEF Tick
  <2>3. QED
    BY <2>1, <2>2
<1>2. /\ now \in Nat /\ now' \in Nat /\ now' >= now /\ now' <= MaxTime /\ Forever \in Nat /\ Life \in Nat /\ MaxTime \in Nat
  BY <1>1, SetTypes, LifeAssumption, BoundAssumption
<1>3. late \subseteq Signed /\ late \subseteq astray' /\ astray \subseteq astray' /\ astray' \subseteq Jti
  <2>1. late \subseteq Signed
    BY SetTypes DEF Unsettled
  <2>2. Revived(revoked, now') \subseteq Signed
    BY DEF Revived, Signed
  <2>3. QED
    BY <1>1, <2>1, <2>2, SetTypes DEF Inv, TypeOK
<1>4. Loosens
  BY <1>1, <1>2, <1>3 DEF Loosens, revokeVars
<1>5. \A u \in tokens : Gone(u, now, revoked, astray) => Gone(u, now', revoked', astray')
  BY <1>2, <1>4, GoneStays DEF Inv
<1>6. TypeOK'
  <2>1. tracked' \in [Fid -> SUBSET Signed] /\ trackTill' \in [Fid -> Nat]
    BY <1>1, <1>2 DEF Inv, TypeOK
  <2>2. revoked' \subseteq Signed /\ revokeTill' \in Nat
    BY <1>1, <1>2 DEF Inv, TypeOK, revokeVars
  <2>3. QED
    BY <1>1, <1>2, <1>3, <2>1, <2>2, Counting DEF Inv, TypeOK, Signed
<1>7. TokensFit'
  <2>1. \A u \in tokens : u.exp <= now' + Life
    <3> TAKE u \in tokens
    <3>1. u.exp \in Nat /\ u.exp <= now + Life
      BY SetTypes DEF Inv, TokensFit
    <3>2. QED
      BY <1>1, <1>2, <3>1
  <2>2. QED
    BY <1>1, <1>2, <2>1 DEF Inv, TokensFit
<1>8. HandsFit'
  <2>1. \A g \in Handler : HandFits(req[g], tokens) /\ SpentFits(req[g], tokens, now, revoked, astray)
    BY DEF Inv, HandsFit
  <2>2. \A g \in Handler : SpentFits(req[g], tokens, now', revoked', astray')
    BY <1>5, <2>1 DEF SpentFits
  <2>3. QED
    BY <1>1, <2>1, <2>2 DEF HandsFit
<1>9. LocksFit'
  <2>1. \A g \in Handler : CleanFits(req[g], tokens, now', revoked', astray', approved)
    <3> TAKE g \in Handler
    <3>1. CleanFits(req[g], tokens, now, revoked, astray, approved)
      BY DEF Inv, LocksFit
    <3>2. QED
      BY <1>5, <3>1 DEF CleanFits
  <2>2. QED
    BY <1>1, <2>1 DEF Inv, LocksFit
<1>10. LockedFit'
  <2>1. \A l \in locked : LockedFits(l, tokens, now', revoked', astray', approved)
    BY <1>5 DEF Inv, LockedFit, LockedFits
  <2>2. \A g \in Handler : AdmitFits(req[g], locked, astray')
    BY <1>3 DEF Inv, LockedFit, AdmitFits
  <2>3. QED
    BY <1>1, <2>1, <2>2 DEF LockedFit
<1>11. AllCovered'
  <2>1. ASSUME NEW u \in tokens PROVE Covered(u, now', revoked', astray', tracked', trackTill', req)
    <3>1. Covered(u, now, revoked, astray, tracked, trackTill, req) /\ u.fid \in Fid /\ u.exp \in Nat
      BY SetTypes DEF Inv, AllCovered
    <3>2. CASE Gone(u, now, revoked, astray)
      BY <1>5, <3>2 DEF Covered
    <3>3. CASE HeldBy(req, u)
      BY <3>3 DEF Covered
    <3>4. CASE u.fid \notin gone
      BY <1>1, <1>5, <3>1, <3>4 DEF Covered
    <3>5. CASE u.fid \in gone /\ trackTill[u.fid] >= u.exp
      <4>1. trackTill[u.fid] \in Nat
        BY <3>1 DEF Inv, TypeOK
      <4>2. now' >= u.exp
        BY <1>2, <3>1, <3>5, <4>1
      <4>3. QED
        BY <4>2 DEF Covered, Gone
    <3>6. CASE u.fid \in gone /\ Settling(req, u)
      <4>1. u.jti \in Unsettled(u.fid)
        BY <3>6 DEF Settling, Unsettled, TtlPhase
      <4>2. u.jti \in late
        BY <3>6, <4>1
      <4>3. QED
        BY <1>3, <4>2 DEF Covered, Gone
    <3>7. QED
      BY <3>1, <3>2, <3>3, <3>4, <3>5, <3>6 DEF Covered
  <2>2. QED
    BY <1>1, <2>1 DEF AllCovered
<1>12. QED
  BY <1>6, <1>7, <1>8, <1>9, <1>10, <1>11 DEF Inv

\* Steps after which everything but the Frontier records is as it was.
LEMMA QuietStep ==
    ASSUME Inv, TypeOK', UNCHANGED <<now, tokens, tracked, trackTill, revoked, approved, req, astray, locked>>
    PROVE  Inv'
BY DEF Inv, TokensFit, HandsFit, LocksFit, LockedFit, AllCovered

-----------------------------------------------------------------------------
(* All steps                                                               *)

LEMMA InitInv == Init => Inv
<1> SUFFICES ASSUME Init PROVE Inv
  OBVIOUS
<1>1. Forever \in Nat /\ MaxTime \in Nat
  BY LifeAssumption, BoundAssumption DEF Forever
<1>2. \A g \in Handler : req[g] = NoRequest
  BY DEF Init
<1>3. TypeOK
  <2>1. req \in [Handler -> Request]
    <3>1. NoRequest \in Request
      BY FidAssumption, Nothing
    <3>2. QED
      BY <3>1 DEF Init
  <2>2. QED
    BY <1>1, <2>1 DEF Init, TypeOK, Signed
<1>4. TokensFit /\ AllCovered
  BY <1>1 DEF Init, TokensFit, AllCovered
<1>5. HandsFit
  BY <1>2, Nothing DEF HandsFit, HandFits, SpentFits, Init
<1>6. LocksFit
  BY <1>2, Nothing, Phases DEF LocksFit, CleanFits, Apart
<1>7. LockedFit
  BY DEF Init, LockedFit, AdmitFits
<1>8. QED
  BY <1>3, <1>4, <1>5, <1>6, <1>7 DEF Inv

LEMMA InvStep == Inv /\ [Next]_vars => Inv'
<1> SUFFICES ASSUME Inv, [Next]_vars PROVE Inv'
  OBVIOUS
<1>1. ASSUME NEW h \in Handler, Login(h) PROVE Inv'
  <2>1. CASE LoginTrack(h)
    BY <2>1, TrackStep DEF LoginTrack
  <2>2. CASE LoginExpire(h)
    BY <2>2, ExpireStep DEF LoginExpire
  <2>3. CASE LoginStore(h)
    BY <2>3, StoreStep DEF LoginStore
  <2>4. QED
    BY <1>1, <2>1, <2>2, <2>3, LoginReadStep, LoginIssueStep DEF Login
<1>2. ASSUME NEW h \in Handler, Refresh(h) PROVE Inv'
  <2>1. CASE RefreshTrack(h)
    BY <2>1, TrackStep DEF RefreshTrack
  <2>2. CASE RefreshExpire(h)
    BY <2>2, ExpireStep DEF RefreshExpire
  <2>3. CASE RefreshStore(h)
    BY <2>3, StoreStep DEF RefreshStore
  <2>4. CASE RefreshRevoke(h)
    BY <2>4, RevokeStep DEF RefreshRevoke, issueVars
  <2>5. QED
    BY <1>2, <2>1, <2>2, <2>3, <2>4, RefreshValidateStep, RefreshLookupStep, RefreshIssueStep, RefreshUntrackStep
    DEF Refresh
<1>3. ASSUME NEW h \in Handler, Logout(h) PROVE Inv'
  <2>1. CASE LogoutRevoke(h)
    BY <2>1, RevokeStep DEF LogoutRevoke, issueVars
  <2>2. QED
    BY <1>3, <2>1, LogoutValidateStep, LogoutUntrackStep DEF Logout
<1>4. ASSUME NEW h \in Handler, Lockout(h) PROVE Inv'
  BY <1>4, LockStartStep, LockListStep, LockKillStep, LockKilledStep, LockDelStep DEF Lockout
<1>5. CASE FrontierLapses
  <2>1. TypeOK'
    BY <1>5, Counting DEF FrontierLapses, Inv, TypeOK, Signed, issueVars, trackVars, revokeVars
  <2>2. QED
    BY <1>5, <2>1, QuietStep DEF FrontierLapses, issueVars, trackVars, revokeVars
<1>6. CASE UNCHANGED vars
  <2>1. TypeOK'
    BY <1>6 DEF vars, Inv, TypeOK, Signed
  <2>2. QED
    BY <1>6, <2>1, QuietStep DEF vars
<1>7. QED
  BY <1>1, <1>2, <1>3, <1>4, <1>5, <1>6, ApproveStep, TickStep, AbandonStep DEF Next

-----------------------------------------------------------------------------
(* Theorems                                                                *)

\* The invariant holds, for any commanders, tokens, goroutines and bounds.
THEOREM Invariance == Spec => []Inv
<1>1. QED
  BY InitInv, InvStep, PTL DEF Spec

\* commander_auth.go:749-757 and commander_session.go:63: every token that
\* still works can be listed by a lockout, is about to be, or went astray.
THEOREM TokensAreListed == Spec => []SetsTell
<1>1. Inv => SetsTell
  <2> SUFFICES ASSUME Inv, NEW u \in tokens, Alive(u)
               PROVE  TypeOK /\ u.jti \in tracked[u.fid] \cup InHand \cup astray
    BY DEF SetsTell, Enumerable, Inv
  <2>1. u.exp \in Nat /\ now \in Nat /\ Covered(u, now, revoked, astray, tracked, trackTill, req)
    BY SetTypes DEF Inv, AllCovered
  <2>2. Gone(u, now, revoked, astray) => u.jti \in astray
    BY <2>1 DEF Gone, Alive
  <2>3. HeldBy(req, u) => u.jti \in InHand
    BY DEF HeldBy, InHand, HandPhase
  <2>4. QED
    BY <2>1, <2>2, <2>3 DEF Covered, Inv
<1>2. QED
  BY <1>1, Invariance, PTL

\* commander_session.go:30-40: a lockout nothing got in the way of leaves no
\* token of the commander's that works, other than those gone astray.
THEOREM LockoutsHold == Spec => []LockoutHolds
<1>1. Inv => LockoutHolds
  <2> SUFFICES ASSUME Inv, NEW u \in tokens, u.fid \in locked, Alive(u) PROVE u.jti \in astray
    BY DEF LockoutHolds
  <2>1. u.exp \in Nat /\ now \in Nat /\ Gone(u, now, revoked, astray)
    BY SetTypes DEF Inv, LockedFit, LockedFits
  <2>2. QED
    BY <2>1 DEF Gone, Alive
<1>2. QED
  BY <1>1, Invariance, PTL
=============================================================================
