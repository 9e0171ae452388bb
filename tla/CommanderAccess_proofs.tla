----------------------- MODULE CommanderAccess_proofs -----------------------
(***************************************************************************)
(* Proofs about CommanderAccess: the inductive invariant Inv, from it that *)
(* links and sessions are what the runs check, and on top of it WordInv,   *)
(* from which decisions stand, for every set of commanders, users, groups  *)
(* and goroutines and every bound.                                         *)
(***************************************************************************)
EXTENDS CommanderAccess, TLAPS

USE DEF rowVars, userVars, boundVars, wordVars
USE DEF LoginPhase, GrantPhase, RevokePhase, LockPhase

\* The state a run starts from satisfies the invariant.
LEMMA InitInv == Init => Inv
<1> SUFFICES ASSUME Init PROVE Inv
    OBVIOUS
<1> USE DEF Init, NoRequest
<1>1. TypeOK
  BY UserAssumption, GroupAssumption DEF TypeOK, Request
<1>2. QED
  BY <1>1 DEF Inv, NamesKept, OwnUserInHand, LinksTell, DecisionHolds, LinkedOn, SessionsMatch

\* A step that only moves a request on keeps the types of what it touches.
LEMMA GoTyped ==
  ASSUME TypeOK, NEW h \in Handler, NEW r \in Request, Go(h, r)
  PROVE  /\ req' \in [Handler -> Request]
         /\ granted' \in [Fid -> SUBSET Group] /\ shut' \subseteq Fid
BY DEF TypeOK, Go

\* So does telling the others that rows or groups have changed.
LEMMA NoticedTyped ==
  ASSUME TypeOK, NEW mine, NEW fs, NEW us
  PROVE  Noticed(mine, fs, us) \in [Handler -> Request]
<1>1. \A g \in Handler : req[g] \in Request
  BY DEF TypeOK
<1>2. \A g \in Handler : [req[g] EXCEPT !.stale = TRUE] \in Request
  BY <1>1 DEF Request
<1>3. QED
  BY <1>1, <1>2 DEF Noticed

\* A step that others notice keeps the types of what it touches.
LEMMA ChangeTyped ==
  ASSUME TypeOK, NEW h \in Handler, NEW r \in Request, NEW fs, NEW us, Change(h, r, fs, us)
  PROVE  /\ req' \in [Handler -> Request]
         /\ granted' \in [Fid -> SUBSET Group] /\ shut' \subseteq Fid
BY NoticedTyped DEF TypeOK, Change, Touch

\* No request at all is one.
LEMMA NoRequestTyped == NoRequest \in Request
BY DEF NoRequest, Request

\* Loosening keeps sessions sessions.
LEMMA LoosenTyped ==
  ASSUME TypeOK, NEW fs, Loosen(fs)
  PROVE  live' \subseteq Session
<1>1. \A s \in live : [s EXCEPT !.loose = TRUE] \in Session
  BY DEF TypeOK, Session
<1>2. QED
  BY <1>1 DEF TypeOK, Loosen

\* Linking a row to one user or to none leaves every row with one at most.
LEMMA LinkTyped ==
  ASSUME TypeOK, NEW fs, NEW us, us \subseteq User, \A u, v \in us : u = v,
         SetAuthentikLink(fs, us)
  PROVE  link' \in [Fid -> SUBSET User] /\ \A f \in Fid : \A u, v \in link'[f] : u = v
BY DEF TypeOK, SetAuthentikLink

\* The counters stay numbers.
LEMMA BoundsTyped ==
  ASSUME TypeOK, NEW h \in Handler, Fault \/ NoFault \/ Accept(h) \/ AcceptLost(h)
  PROVE  ops' \in Nat /\ faults' \in Nat
BY DEF TypeOK, Fault, NoFault, Accept, AcceptLost

\* A login's steps keep the types.
LEMMA LoginTyped ==
  ASSUME TypeOK, NEW h \in Handler, Login(h) \/ \E f \in Fid : LoginUpsert(h, f)
  PROVE  TypeOK'
<1> USE NoRequestTyped
<1>0. req[h] \in Request
  BY DEF TypeOK
<1>1. ASSUME NEW f \in Fid, LoginUpsert(h, f) PROVE TypeOK'
  <2>1. [NoRequest EXCEPT !.pc = "read", !.fid = {f}] \in Request
    BY DEF Request, NoRequest
  <2>2. /\ req' \in [Handler -> Request]
        /\ granted' \in [Fid -> SUBSET Group] /\ shut' \subseteq Fid
    BY <1>1, <2>1, GoTyped DEF LoginUpsert, Finish
  <2>3. ops' \in Nat /\ faults' \in Nat
    BY <1>1, BoundsTyped DEF LoginUpsert
  <2>4. QED BY <1>1, <2>2, <2>3 DEF LoginUpsert, TypeOK
<1>2. CASE LoginReadLink(h)
  <2>1. \A p \in {"decide", "create"} : [req[h] EXCEPT !.pc = p] \in Request
    BY <1>0 DEF Request
  <2>2. /\ req' \in [Handler -> Request]
        /\ granted' \in [Fid -> SUBSET Group] /\ shut' \subseteq Fid
    BY <1>2, <2>1, GoTyped DEF LoginReadLink, Goto, Finish
  <2>3. ops' \in Nat /\ faults' \in Nat
    BY <1>2, BoundsTyped DEF LoginReadLink
  <2>4. QED BY <1>2, <2>2, <2>3 DEF LoginReadLink, TypeOK
<1>3. CASE LoginCreate(h)
  <2>1. /\ [req[h] EXCEPT !.pc = "lookup"] \in Request
        /\ \A u \in User : [req[h] EXCEPT !.pc = "persist", !.user = {u}] \in Request
    BY <1>0 DEF Request
  <2>2. /\ req' \in [Handler -> Request]
        /\ granted' \in [Fid -> SUBSET Group] /\ shut' \subseteq Fid
    BY <1>3, <2>1, GoTyped DEF LoginCreate, Goto, Finish, Fresh
  <2>3. ops' \in Nat /\ faults' \in Nat
    BY <1>3, BoundsTyped DEF LoginCreate
  <2>4. /\ exist' \subseteq User /\ gone' \subseteq User /\ exist' \cap gone' = {}
        /\ owner' \in [User -> SUBSET Fid] /\ groups' \in [User -> SUBSET Group]
    <3>1. CASE UNCHANGED userVars BY <3>1 DEF TypeOK
    <3>2. ASSUME NEW f \in Fid, NEW u \in Fresh, CreateUser(f, u)
          PROVE  /\ exist' \subseteq User /\ gone' \subseteq User /\ exist' \cap gone' = {}
                 /\ owner' \in [User -> SUBSET Fid] /\ groups' \in [User -> SUBSET Group]
      BY <3>2 DEF CreateUser, Fresh, TypeOK
    <3>3. QED BY <1>3, <1>0, <3>1, <3>2 DEF LoginCreate, Request
  <2>5. QED BY <1>3, <2>2, <2>3, <2>4 DEF LoginCreate, TypeOK
<1>4. CASE LoginLookup(h)
  <2>1. \A u \in User : [req[h] EXCEPT !.pc = "persist", !.user = {u}] \in Request
    BY <1>0 DEF Request
  <2>2. /\ req' \in [Handler -> Request]
        /\ granted' \in [Fid -> SUBSET Group] /\ shut' \subseteq Fid
    <3>1. \A f : Shadow(f) \subseteq User
      BY DEF Shadow, TypeOK
    <3>2. QED BY <1>4, <2>1, <3>1, GoTyped DEF LoginLookup, Finish
  <2>3. ops' \in Nat /\ faults' \in Nat
    BY <1>4, BoundsTyped DEF LoginLookup
  <2>4. QED BY <1>4, <2>2, <2>3 DEF LoginLookup, TypeOK
<1>5. CASE LoginPersist(h)
  <2>1. [req[h] EXCEPT !.pc = "decide", !.user = {}] \in Request
    BY <1>0 DEF Request
  <2>2. /\ req' \in [Handler -> Request]
        /\ granted' \in [Fid -> SUBSET Group] /\ shut' \subseteq Fid
    BY <1>5, <2>1, GoTyped, ChangeTyped DEF LoginPersist, Finish
  <2>3. ops' \in Nat /\ faults' \in Nat
    BY <1>5, BoundsTyped DEF LoginPersist
  <2>4. live' \subseteq Session
    BY <1>5, LoosenTyped DEF LoginPersist, AutoLink, TypeOK
  <2>5. link' \in [Fid -> SUBSET User] /\ \A f \in Fid : \A u, v \in link'[f] : u = v
    <3>1. req[h].user \subseteq User
      BY <1>0 DEF Request
    <3>2. CASE UNCHANGED link BY <3>2 DEF TypeOK
    <3>3. CASE \E f \in Fid, u \in User : SetAuthentikLink({f}, {u})
      BY <3>3, LinkTyped
    <3>4. QED BY <1>5, <1>0, <3>1, <3>2, <3>3 DEF LoginPersist, AutoLink, Request
  <2>6. QED BY <1>5, <2>2, <2>3, <2>4, <2>5 DEF LoginPersist, TypeOK
<1>6. CASE LoginDecide(h)
  <2>1. \A f \in Fid : [req[h] EXCEPT !.pc = "groups", !.user = link[f], !.stale = FALSE] \in Request
    BY <1>0 DEF Request, TypeOK
  <2>2. /\ req' \in [Handler -> Request]
        /\ granted' \in [Fid -> SUBSET Group] /\ shut' \subseteq Fid
    <3>1. req[h].fid \subseteq Fid
      BY <1>0 DEF Request
    <3>2. QED BY <1>6, <2>1, <3>1, GoTyped DEF LoginDecide, Finish
  <2>3. ops' \in Nat /\ faults' \in Nat
    BY <1>6, BoundsTyped DEF LoginDecide
  <2>4. QED BY <1>6, <2>2, <2>3 DEF LoginDecide, TypeOK
<1>7. CASE LoginGroups(h)
  <2>1. [req[h] EXCEPT !.pc = "issue"] \in Request
    BY <1>0 DEF Request
  <2>2. /\ req' \in [Handler -> Request]
        /\ granted' \in [Fid -> SUBSET Group] /\ shut' \subseteq Fid
    BY <1>7, <2>1, GoTyped DEF LoginGroups, Goto, Finish
  <2>3. ops' \in Nat /\ faults' \in Nat
    BY <1>7, BoundsTyped DEF LoginGroups
  <2>4. QED BY <1>7, <2>2, <2>3 DEF LoginGroups, TypeOK
<1>8. CASE LoginIssue(h)
  <2>2. /\ req' \in [Handler -> Request]
        /\ granted' \in [Fid -> SUBSET Group] /\ shut' \subseteq Fid
    BY <1>8, GoTyped DEF LoginIssue, Finish
  <2>3. ops' \in Nat /\ faults' \in Nat
    BY <1>8, BoundsTyped DEF LoginIssue
  <2>4. live' \subseteq Session
    BY <1>8, <1>0 DEF LoginIssue, Session, Request, TypeOK
  <2>5. QED BY <1>8, <2>2, <2>3, <2>4 DEF LoginIssue, TypeOK
<1>9. QED
  BY <1>1, <1>2, <1>3, <1>4, <1>5, <1>6, <1>7, <1>8 DEF Login

\* Writing a user's groups back keeps Authentik's types.
LEMMA GroupsTyped ==
  ASSUME TypeOK, NEW u, NEW gs, gs \subseteq Group, WriteGroups(u, gs)
  PROVE  /\ exist' \subseteq User /\ gone' \subseteq User /\ exist' \cap gone' = {}
         /\ owner' \in [User -> SUBSET Fid] /\ groups' \in [User -> SUBSET Group]
BY DEF TypeOK, WriteGroups

\* Setting approved keeps its type.
LEMMA ApprovedTyped ==
  ASSUME TypeOK, NEW fs, NEW b \in BOOLEAN, SetApproved(fs, b)
  PROVE  approved' \in [Fid -> BOOLEAN]
BY DEF TypeOK, SetApproved

\* So do a grant's.
LEMMA GrantTyped ==
  ASSUME TypeOK, NEW h \in Handler,
         GrantRead(h) \/ GrantFetch(h) \/ GrantWrite(h)
  PROVE  TypeOK'
<1> USE NoRequestTyped
<1>0. /\ req[h] \in Request /\ req[h].fid \subseteq Fid /\ req[h].user \subseteq User
      /\ req[h].todo \subseteq Group /\ req[h].at \subseteq Group /\ req[h].seen \subseteq Group
      /\ req[h].add \in BOOLEAN
      /\ \A f \in Fid : link[f] \subseteq User
      /\ \A u \in User : groups[u] \subseteq Group
  BY DEF TypeOK, Request
<1>1. CASE GrantRead(h)
  <2>1. \A f \in Fid, g \in Managed :
           [NoRequest EXCEPT !.pc = "add", !.fid = {f}, !.user = link[f], !.at = {g}] \in Request
    BY <1>0, GroupAssumption DEF Request, NoRequest
  <2>2. /\ req' \in [Handler -> Request]
        /\ granted' \in [Fid -> SUBSET Group] /\ shut' \subseteq Fid
    BY <1>1, <1>0, <2>1, GoTyped, ChangeTyped DEF GrantRead, TypeOK
  <2>3. ops' \in Nat /\ faults' \in Nat
    BY <1>1, BoundsTyped DEF GrantRead
  <2>4. QED BY <1>1, <2>2, <2>3 DEF GrantRead, TypeOK
<1>2. CASE GrantFetch(h)
  <2>1. /\ [req[h] EXCEPT !.pc = "approve"] \in Request
        /\ \A u \in User : [req[h] EXCEPT !.pc = "add-write", !.seen = groups[u]] \in Request
    BY <1>0, GroupAssumption DEF Request, NoRequest
  <2>2. /\ req' \in [Handler -> Request]
        /\ granted' \in [Fid -> SUBSET Group] /\ shut' \subseteq Fid
    BY <1>2, <1>0, <2>1, GoTyped, ChangeTyped DEF GrantFetch, Goto, Finish
  <2>3. ops' \in Nat /\ faults' \in Nat
    BY <1>2, BoundsTyped DEF GrantFetch
  <2>4. QED BY <1>2, <2>2, <2>3 DEF GrantFetch, TypeOK
<1>3. CASE GrantWrite(h)
  <2>1. [req[h] EXCEPT !.pc = "approve"] \in Request
    BY <1>0, GroupAssumption DEF Request, NoRequest
  <2>2. /\ req' \in [Handler -> Request]
        /\ granted' \in [Fid -> SUBSET Group] /\ shut' \subseteq Fid
    BY <1>3, <1>0, <2>1, GoTyped, ChangeTyped DEF GrantWrite, Finish
  <2>3. ops' \in Nat /\ faults' \in Nat
    BY <1>3, BoundsTyped DEF GrantWrite
  <2>4. /\ exist' \subseteq User /\ gone' \subseteq User /\ exist' \cap gone' = {}
        /\ owner' \in [User -> SUBSET Fid] /\ groups' \in [User -> SUBSET Group]
    <3>1. CASE UNCHANGED userVars BY <3>1 DEF TypeOK
    <3>2. CASE \E u \in User, gs \in SUBSET Group : WriteGroups(u, gs)
      BY <3>2, GroupsTyped
    <3>3. QED BY <1>3, <1>0, <3>1, <3>2 DEF GrantWrite
  <2>5. QED BY <1>3, <2>2, <2>3, <2>4 DEF GrantWrite, TypeOK
<1>4. QED
  BY <1>1, <1>2, <1>3

\* So do a revoke's.
LEMMA RevokeTyped ==
  ASSUME TypeOK, NEW h \in Handler,
         RevokeRead(h) \/ RevokeClose(h) \/ RevokeFetch(h) \/ RevokeWrite(h)
  PROVE  TypeOK'
<1> USE NoRequestTyped
<1>0. /\ req[h] \in Request /\ req[h].fid \subseteq Fid /\ req[h].user \subseteq User
      /\ req[h].todo \subseteq Group /\ req[h].at \subseteq Group /\ req[h].seen \subseteq Group
      /\ req[h].add \in BOOLEAN
      /\ \A f \in Fid : link[f] \subseteq User
      /\ \A u \in User : groups[u] \subseteq Group
  BY DEF TypeOK, Request
<1>1. CASE RevokeRead(h)
  <2>1. \A f \in Fid :
           [NoRequest EXCEPT !.pc = "close", !.fid = {f}, !.user = link[f], !.todo = Managed] \in Request
    BY <1>0, GroupAssumption DEF Request, NoRequest
  <2>2. /\ req' \in [Handler -> Request]
        /\ granted' \in [Fid -> SUBSET Group] /\ shut' \subseteq Fid
    BY <1>1, <1>0, <2>1, GoTyped, ChangeTyped DEF RevokeRead, TypeOK
  <2>3. ops' \in Nat /\ faults' \in Nat
    BY <1>1, BoundsTyped DEF RevokeRead
  <2>4. QED BY <1>1, <2>2, <2>3 DEF RevokeRead, TypeOK
<1>2. CASE RevokeClose(h)
  <2>1. [req[h] EXCEPT !.pc = IF req[h].user = {} THEN "revoke-sessions" ELSE "remove"] \in Request
    BY <1>0, GroupAssumption DEF Request, NoRequest
  <2>2. /\ req' \in [Handler -> Request]
        /\ granted' \in [Fid -> SUBSET Group] /\ shut' \subseteq Fid
    BY <1>2, <1>0, <2>1, GoTyped, ChangeTyped DEF RevokeClose, Finish
  <2>3. ops' \in Nat /\ faults' \in Nat
    BY <1>2, BoundsTyped DEF RevokeClose
  <2>4. approved' \in [Fid -> BOOLEAN]
    BY <1>2, ApprovedTyped DEF RevokeClose, TypeOK
  <2>5. live' \subseteq Session
    BY <1>2, LoosenTyped DEF RevokeClose, TypeOK
  <2>6. QED BY <1>2, <2>2, <2>3, <2>4, <2>5 DEF RevokeClose, TypeOK
<1>3. CASE RevokeFetch(h)
  <2>1. /\ [req[h] EXCEPT !.pc = "revoke-sessions"] \in Request
        /\ \A left \in SUBSET Group : [req[h] EXCEPT !.todo = left, !.stale = TRUE] \in Request
        /\ \A u \in User, g \in Group :
             /\ [req[h] EXCEPT !.todo = @ \ {g}] \in Request
             /\ [req[h] EXCEPT !.pc = "remove-write", !.todo = @ \ {g},
                               !.at = {g}, !.seen = groups[u]] \in Request
    <3>1. [req[h] EXCEPT !.pc = "revoke-sessions"] \in Request
      BY <1>0 DEF Request
    <3>2. \A left \in SUBSET Group : [req[h] EXCEPT !.todo = left, !.stale = TRUE] \in Request
      BY <1>0 DEF Request
    <3>3. \A g \in Group : [req[h] EXCEPT !.todo = @ \ {g}] \in Request
      BY <1>0 DEF Request
    <3>4. \A u \in User, g \in Group :
             [req[h] EXCEPT !.pc = "remove-write", !.todo = @ \ {g}, !.at = {g}, !.seen = groups[u]] \in Request
      BY <1>0 DEF Request
    <3>5. QED
      BY <3>1, <3>2, <3>3, <3>4
  <2>2. /\ req' \in [Handler -> Request]
        /\ granted' \in [Fid -> SUBSET Group] /\ shut' \subseteq Fid
    BY <1>3, <1>0, <2>1, GoTyped, ChangeTyped DEF RevokeFetch, Goto
  <2>3. ops' \in Nat /\ faults' \in Nat
    BY <1>3, BoundsTyped DEF RevokeFetch
  <2>4. QED BY <1>3, <2>2, <2>3 DEF RevokeFetch, TypeOK
<1>4. CASE RevokeWrite(h)
  <2>1. /\ [req[h] EXCEPT !.pc = "remove"] \in Request
        /\ [req[h] EXCEPT !.pc = "remove", !.stale = TRUE] \in Request
    BY <1>0, GroupAssumption DEF Request, NoRequest
  <2>2. /\ req' \in [Handler -> Request]
        /\ granted' \in [Fid -> SUBSET Group] /\ shut' \subseteq Fid
    BY <1>4, <1>0, <2>1, GoTyped, ChangeTyped DEF RevokeWrite, Goto
  <2>3. ops' \in Nat /\ faults' \in Nat
    BY <1>4, BoundsTyped DEF RevokeWrite
  <2>4. /\ exist' \subseteq User /\ gone' \subseteq User /\ exist' \cap gone' = {}
        /\ owner' \in [User -> SUBSET Fid] /\ groups' \in [User -> SUBSET Group]
    <3>1. CASE UNCHANGED userVars BY <3>1 DEF TypeOK
    <3>2. CASE \E u \in User, gs \in SUBSET Group : WriteGroups(u, gs)
      BY <3>2, GroupsTyped
    <3>3. QED BY <1>4, <1>0, <3>1, <3>2 DEF RevokeWrite
  <2>5. QED BY <1>4, <2>2, <2>3, <2>4 DEF RevokeWrite, TypeOK
<1>5. QED
  BY <1>1, <1>2, <1>3, <1>4

\* So do those of link, unlink, deny and approve.
LEMMA RelinkTyped ==
  ASSUME TypeOK, NEW h \in Handler,
         LinkCheck(h) \/ LinkSet(h) \/ UnlinkSet(h) \/ UnlinkClose(h) \/ Deny(h) \/ Approve(h)
  PROVE  TypeOK'
<1> USE NoRequestTyped
<1>0. /\ req[h] \in Request /\ req[h].fid \subseteq Fid /\ req[h].user \subseteq User
      /\ req[h].todo \subseteq Group /\ req[h].at \subseteq Group /\ req[h].seen \subseteq Group
      /\ req[h].add \in BOOLEAN
      /\ \A f \in Fid : link[f] \subseteq User
      /\ \A u \in User : groups[u] \subseteq Group
  BY DEF TypeOK, Request
<1>1. CASE LinkCheck(h)
  <2>1. \A f \in Fid, u \in User :
           [NoRequest EXCEPT !.pc = "link-set", !.fid = {f}, !.user = {u}] \in Request
    BY <1>0, GroupAssumption DEF Request, NoRequest
  <2>2. /\ req' \in [Handler -> Request]
        /\ granted' \in [Fid -> SUBSET Group] /\ shut' \subseteq Fid
    BY <1>1, <1>0, <2>1, GoTyped, ChangeTyped DEF LinkCheck, TypeOK
  <2>3. ops' \in Nat /\ faults' \in Nat
    BY <1>1, BoundsTyped DEF LinkCheck
  <2>4. QED BY <1>1, <2>2, <2>3 DEF LinkCheck, TypeOK
<1>2. CASE LinkSet(h)
  <2>1. [req[h] EXCEPT !.pc = "sessions"] \in Request
    BY <1>0, GroupAssumption DEF Request, NoRequest
  <2>2. /\ req' \in [Handler -> Request]
        /\ granted' \in [Fid -> SUBSET Group] /\ shut' \subseteq Fid
    BY <1>2, <1>0, <2>1, GoTyped, ChangeTyped DEF LinkSet, Finish
  <2>3. ops' \in Nat /\ faults' \in Nat
    BY <1>2, BoundsTyped DEF LinkSet
  <2>4. live' \subseteq Session
    BY <1>2, LoosenTyped DEF LinkSet, TypeOK
  <2>5. link' \in [Fid -> SUBSET User] /\ \A f \in Fid : \A u, v \in link'[f] : u = v
    <3>1. CASE UNCHANGED link BY <3>1 DEF TypeOK
    <3>2. CASE \E f \in Fid, u \in User : SetAuthentikLink({f}, {u})
      BY <3>2, LinkTyped
    <3>3. QED BY <1>2, <1>0, <3>1, <3>2 DEF LinkSet, TypeOK
  <2>6. assigned' \subseteq Fid \X User
    BY <1>2, <1>0 DEF LinkSet, TypeOK
  <2>7. QED BY <1>2, <2>2, <2>3, <2>4, <2>5, <2>6 DEF LinkSet, TypeOK
<1>3. CASE UnlinkSet(h)
  <2>1. \A f \in Fid : [NoRequest EXCEPT !.pc = "unlink-close", !.fid = {f}] \in Request
    BY <1>0, GroupAssumption DEF Request, NoRequest
  <2>2. /\ req' \in [Handler -> Request]
        /\ granted' \in [Fid -> SUBSET Group] /\ shut' \subseteq Fid
    BY <1>3, <1>0, <2>1, GoTyped, ChangeTyped DEF UnlinkSet, TypeOK
  <2>3. ops' \in Nat /\ faults' \in Nat
    BY <1>3, BoundsTyped DEF UnlinkSet
  <2>4. live' \subseteq Session
    BY <1>3, LoosenTyped DEF UnlinkSet, TypeOK
  <2>5. link' \in [Fid -> SUBSET User] /\ \A f \in Fid : \A u, v \in link'[f] : u = v
    <3>1. CASE UNCHANGED link BY <3>1 DEF TypeOK
    <3>2. CASE \E f \in Fid : SetAuthentikLink({f}, {})
      BY <3>2, LinkTyped
    <3>3. QED BY <1>3, <1>0, <3>1, <3>2 DEF UnlinkSet, TypeOK
  <2>6. QED BY <1>3, <2>2, <2>3, <2>4, <2>5 DEF UnlinkSet, TypeOK
<1>4. CASE UnlinkClose(h)
  <2>1. [req[h] EXCEPT !.pc = "sessions"] \in Request
    BY <1>0, GroupAssumption DEF Request, NoRequest
  <2>2. /\ req' \in [Handler -> Request]
        /\ granted' \in [Fid -> SUBSET Group] /\ shut' \subseteq Fid
    BY <1>4, <1>0, <2>1, GoTyped, ChangeTyped DEF UnlinkClose, Finish
  <2>3. ops' \in Nat /\ faults' \in Nat
    BY <1>4, BoundsTyped DEF UnlinkClose
  <2>4. approved' \in [Fid -> BOOLEAN]
    BY <1>4, ApprovedTyped DEF UnlinkClose, TypeOK
  <2>5. live' \subseteq Session
    BY <1>4, LoosenTyped DEF UnlinkClose, TypeOK
  <2>6. QED BY <1>4, <2>2, <2>3, <2>4, <2>5 DEF UnlinkClose, TypeOK
<1>5. CASE Deny(h)
  <2>1. \A f \in Fid : [NoRequest EXCEPT !.pc = "sessions", !.fid = {f}] \in Request
    BY <1>0, GroupAssumption DEF Request, NoRequest
  <2>2. /\ req' \in [Handler -> Request]
        /\ granted' \in [Fid -> SUBSET Group] /\ shut' \subseteq Fid
    BY <1>5, <1>0, <2>1, GoTyped, ChangeTyped DEF Deny, TypeOK
  <2>3. ops' \in Nat /\ faults' \in Nat
    BY <1>5, BoundsTyped DEF Deny
  <2>4. approved' \in [Fid -> BOOLEAN]
    BY <1>5, ApprovedTyped DEF Deny, TypeOK
  <2>5. live' \subseteq Session
    BY <1>5, LoosenTyped DEF Deny, TypeOK
  <2>6. QED BY <1>5, <2>2, <2>3, <2>4, <2>5 DEF Deny, TypeOK
<1>6. CASE Approve(h)
  <2>1. NoRequest \in Request
    BY <1>0, GroupAssumption DEF Request, NoRequest
  <2>2. /\ req' \in [Handler -> Request]
        /\ granted' \in [Fid -> SUBSET Group] /\ shut' \subseteq Fid
    BY <1>6, <1>0, <2>1, GoTyped, ChangeTyped DEF Approve, TypeOK
  <2>3. ops' \in Nat /\ faults' \in Nat
    BY <1>6, BoundsTyped DEF Approve
  <2>4. approved' \in [Fid -> BOOLEAN]
    BY <1>6, ApprovedTyped DEF Approve, TypeOK
  <2>5. QED BY <1>6, <2>2, <2>3, <2>4 DEF Approve, TypeOK
<1>7. QED
  BY <1>1, <1>2, <1>3, <1>4, <1>5, <1>6

\* So do those of the users tab, and a request that is abandoned.
LEMMA EditTyped ==
  ASSUME TypeOK, NEW h \in Handler,
         EditRead(h) \/ EditWrite(h) \/ Abandon(h)
  PROVE  TypeOK'
<1> USE NoRequestTyped
<1>0. /\ req[h] \in Request /\ req[h].fid \subseteq Fid /\ req[h].user \subseteq User
      /\ req[h].todo \subseteq Group /\ req[h].at \subseteq Group /\ req[h].seen \subseteq Group
      /\ req[h].add \in BOOLEAN
      /\ \A f \in Fid : link[f] \subseteq User
      /\ \A u \in User : groups[u] \subseteq Group
  BY DEF TypeOK, Request
<1>1. CASE EditRead(h)
  <2>1. \A u \in User, g \in Group, b \in BOOLEAN :
           [NoRequest EXCEPT !.pc = "edit-write", !.user = {u}, !.at = {g},
                             !.seen = groups[u], !.add = b] \in Request
    BY <1>0, GroupAssumption DEF Request, NoRequest
  <2>2. /\ req' \in [Handler -> Request]
        /\ granted' \in [Fid -> SUBSET Group] /\ shut' \subseteq Fid
    BY <1>1, <1>0, <2>1, GoTyped, ChangeTyped DEF EditRead, TypeOK
  <2>3. ops' \in Nat /\ faults' \in Nat
    BY <1>1, BoundsTyped DEF EditRead
  <2>4. QED BY <1>1, <2>2, <2>3 DEF EditRead, TypeOK
<1>2. CASE EditWrite(h)
  <2>1. NoRequest \in Request
    BY <1>0, GroupAssumption DEF Request, NoRequest
  <2>2. /\ req' \in [Handler -> Request]
        /\ granted' \in [Fid -> SUBSET Group] /\ shut' \subseteq Fid
    BY <1>2, <1>0, <2>1, GoTyped, ChangeTyped DEF EditWrite, Finish
  <2>3. ops' \in Nat /\ faults' \in Nat
    BY <1>2, BoundsTyped DEF EditWrite
  <2>4. /\ exist' \subseteq User /\ gone' \subseteq User /\ exist' \cap gone' = {}
        /\ owner' \in [User -> SUBSET Fid] /\ groups' \in [User -> SUBSET Group]
    <3>1. CASE UNCHANGED userVars BY <3>1 DEF TypeOK
    <3>2. CASE \E u \in User, gs \in SUBSET Group : WriteGroups(u, gs)
      BY <3>2, GroupsTyped
    <3>3. QED BY <1>2, <1>0, <3>1, <3>2 DEF EditWrite
  <2>5. QED BY <1>2, <2>2, <2>3, <2>4 DEF EditWrite, TypeOK
<1>3. CASE Abandon(h)
  <2>1. NoRequest \in Request
    BY <1>0, GroupAssumption DEF Request, NoRequest
  <2>2. /\ req' \in [Handler -> Request]
        /\ granted' \in [Fid -> SUBSET Group] /\ shut' \subseteq Fid
    BY <1>3, <1>0, <2>1, GoTyped, ChangeTyped DEF Abandon, Finish
  <2>3. ops' \in Nat /\ faults' \in Nat
    BY <1>3, BoundsTyped DEF Abandon
  <2>4. live' \subseteq Session
    BY <1>3, LoosenTyped DEF Abandon, TypeOK
  <2>5. QED BY <1>3, <2>2, <2>3, <2>4 DEF Abandon, TypeOK
<1>4. QED
  BY <1>1, <1>2, <1>3

\* The steps that write the histories themselves keep the types.
LEMMA WordTyped ==
  ASSUME TypeOK, NEW h \in Handler, GrantApprove(h) \/ RevokeSessions(h)
  PROVE  TypeOK'
<1> USE NoRequestTyped
<1>0. req[h] \in Request /\ req[h].fid \subseteq Fid /\ req[h].at \subseteq Group
  BY DEF TypeOK, Request
<1>1. CASE GrantApprove(h)
  <2>1. ops' \in Nat /\ faults' \in Nat
    BY <1>1, BoundsTyped DEF GrantApprove
  <2>2. approved' \in [Fid -> BOOLEAN]
    BY <1>1, ApprovedTyped DEF GrantApprove, TypeOK
  <2>3. /\ req' \in [Handler -> Request]
        /\ granted' \in [Fid -> SUBSET Group] /\ shut' \subseteq Fid
    <3>1. CASE Go(h, NoRequest) BY <3>1, GoTyped
    <3>2. CASE Change(h, NoRequest, req[h].fid, {}) BY <3>2, ChangeTyped
    <3>3. CASE /\ req' = [Noticed({h}, req[h].fid, {}) EXCEPT ![h] = NoRequest]
               /\ shut' = shut \ req[h].fid
               /\ granted' = [f \in Fid |-> IF f \notin req[h].fid THEN granted[f]
                                            ELSE IF req[h].stale THEN {} ELSE req[h].at]
      BY <3>3, <1>0, NoticedTyped DEF TypeOK
    <3>4. QED BY <1>1, <3>1, <3>2, <3>3 DEF GrantApprove, Finish
  <2>4. QED BY <1>1, <2>1, <2>2, <2>3 DEF GrantApprove, TypeOK
<1>2. CASE RevokeSessions(h)
  <2>1. ops' \in Nat /\ faults' \in Nat
    BY <1>2, BoundsTyped DEF RevokeSessions
  <2>2. live' \subseteq Session
    BY <1>2, LoosenTyped DEF RevokeSessions, TypeOK
  <2>3. /\ req' \in [Handler -> Request]
        /\ granted' \in [Fid -> SUBSET Group] /\ shut' \subseteq Fid
    BY <1>2, <1>0, GoTyped DEF RevokeSessions, Finish, TypeOK
  <2>4. QED BY <1>2, <2>1, <2>2, <2>3 DEF RevokeSessions, TypeOK
<1>3. QED
  BY <1>1, <1>2

\* A deletion keeps them too.
LEMMA DeleteTyped ==
  ASSUME TypeOK, Delete
  PROVE  TypeOK'
<1>1. PICK u \in exist : /\ exist' = exist \ {u} /\ gone' = gone \cup {u}
                        /\ groups' = [groups EXCEPT ![u] = {}] /\ UNCHANGED owner
                        /\ req' = Noticed({}, {}, {u}) /\ Touch({}, {u})
  BY DEF Delete
<1>2. req' \in [Handler -> Request]
  BY <1>1, NoticedTyped
<1>3. granted' \in [Fid -> SUBSET Group] /\ shut' \subseteq Fid
  BY <1>1 DEF Touch, TypeOK
<1>4. /\ exist' \subseteq User /\ gone' \subseteq User /\ exist' \cap gone' = {}
        /\ owner' \in [User -> SUBSET Fid] /\ groups' \in [User -> SUBSET Group]
  BY <1>1 DEF TypeOK
<1>5. /\ ops' \in Nat /\ UNCHANGED <<faults, rowVars, live, assigned>>
  BY DEF Delete, TypeOK
<1>6. QED BY <1>2, <1>3, <1>4, <1>5 DEF TypeOK

\* Every step keeps the types.
LEMMA TypeStep ==
  ASSUME TypeOK, [Next]_vars
  PROVE  TypeOK'
<1>1. CASE UNCHANGED vars
  BY <1>1 DEF vars, TypeOK
<1>2. ASSUME NEW h \in Handler,
             \/ Login(h) \/ Grant(h) \/ Revoke(h) \/ Relink(h) \/ Edit(h)
             \/ Deny(h) \/ Approve(h) \/ Abandon(h) \/ \E f \in Fid : LoginUpsert(h, f)
      PROVE  TypeOK'
  BY <1>2, LoginTyped, GrantTyped, RevokeTyped, RelinkTyped, EditTyped, WordTyped
  DEF Grant, Revoke, Relink, Edit
<1>3. CASE Delete
  BY <1>3, DeleteTyped
<1>4. QED
  BY <1>1, <1>2, <1>3 DEF Next

-----------------------------------------------------------------------------
(* What a step may do to users, requests, links and sessions               *)

\* A name is given once: users keep theirs.
LEMMA NamesStep ==
  ASSUME TypeOK, NamesKept, [Next]_vars
  PROVE  NamesKept' /\ \A u \in User : owner[u] \subseteq owner'[u]
<1>1. \/ UNCHANGED <<exist, gone, owner>>
      \/ Delete
      \/ \E h \in Handler : LoginCreate(h)
  <2>1. CASE UNCHANGED vars
    BY <2>1 DEF vars
  <2>2. ASSUME NEW h \in Handler, Login(h) \/ \E f \in Fid : LoginUpsert(h, f)
        PROVE  UNCHANGED userVars \/ LoginCreate(h)
    <3>1. CASE LoginReadLink(h) \/ \E f \in Fid : LoginUpsert(h, f)
      BY <3>1 DEF LoginUpsert, LoginReadLink
    <3>2. CASE LoginLookup(h) \/ LoginPersist(h)
      BY <3>2 DEF LoginLookup, LoginPersist
    <3>3. CASE LoginDecide(h) BY <3>3 DEF LoginDecide
    <3>4. CASE LoginGroups(h) BY <3>4 DEF LoginGroups
    <3>5. CASE LoginIssue(h) BY <3>5 DEF LoginIssue
    <3>6. QED BY <2>2, <3>1, <3>2, <3>3, <3>4, <3>5 DEF Login
  <2>3. ASSUME NEW h \in Handler, Grant(h) \/ Edit(h)
        PROVE  UNCHANGED <<exist, gone, owner>>
    BY <2>3 DEF Grant, GrantRead, GrantFetch, GrantWrite, GrantApprove, Edit, EditRead, EditWrite,
                WriteGroups
  <2>4. ASSUME NEW h \in Handler, Revoke(h)
        PROVE  UNCHANGED <<exist, gone, owner>>
    BY <2>4 DEF Revoke, RevokeRead, RevokeClose, RevokeFetch, RevokeWrite, RevokeSessions, WriteGroups
  <2>5. ASSUME NEW h \in Handler, Relink(h) \/ Deny(h) \/ Approve(h) \/ Abandon(h)
        PROVE  UNCHANGED <<exist, gone, owner>>
    BY <2>5 DEF Relink, LinkCheck, LinkSet, UnlinkSet, UnlinkClose, Deny, Approve, Abandon
  <2>6. QED
    BY <2>1, <2>2, <2>3, <2>4, <2>5 DEF Next
<1>2. CASE UNCHANGED <<exist, gone, owner>>
  BY <1>2 DEF NamesKept
<1>3. CASE Delete
  BY <1>3 DEF Delete, NamesKept, TypeOK
<1>4. ASSUME NEW h \in Handler, LoginCreate(h)
      PROVE  NamesKept' /\ \A u \in User : owner[u] \subseteq owner'[u]
  <2>1. CASE UNCHANGED userVars
    BY <2>1 DEF NamesKept
  <2>2. ASSUME NEW f, NEW u \in Fresh, CreateUser(f, u)
        PROVE  NamesKept' /\ \A v \in User : owner[v] \subseteq owner'[v]
    BY <2>2 DEF CreateUser, Fresh, NamesKept, TypeOK
  <2>3. QED BY <1>4, <2>1, <2>2 DEF LoginCreate
<1>5. QED
  BY <1>1, <1>2, <1>3, <1>4

\* Request h goes on as r; the others at most notice.
Moved(h, r) == \/ req' = [req EXCEPT ![h] = r]
               \/ \E fs, us : req' = [Noticed({h}, fs, us) EXCEPT ![h] = r]
Same(g) == req'[g] = req[g] \/ req'[g] = [req[g] EXCEPT !.stale = TRUE]

\* What that means for each request.
LEMMA MovedSame ==
  ASSUME TypeOK, NEW h \in Handler, NEW r, Moved(h, r)
  PROVE  req'[h] = r /\ \A g \in Handler \ {h} : Same(g)
<1>1. CASE req' = [req EXCEPT ![h] = r]
  BY <1>1 DEF Same, TypeOK
<1>2. ASSUME NEW fs, NEW us, req' = [Noticed({h}, fs, us) EXCEPT ![h] = r]
      PROVE  req'[h] = r /\ \A g \in Handler \ {h} : Same(g)
  BY <1>2 DEF Noticed, Same
<1>3. QED
  BY <1>1, <1>2 DEF Moved

\* Go and Change are such moves.
LEMMA ChangeMoves ==
  ASSUME NEW h \in Handler, NEW r
  PROVE  /\ Go(h, r) => Moved(h, r)
         /\ \A fs, us : Change(h, r, fs, us) => Moved(h, r)
BY DEF Go, Change, Moved

\* Those whose rows a change is about do notice.
LEMMA ChangeNoticed ==
  ASSUME TypeOK, NEW h \in Handler, NEW r, NEW fs, NEW us,
         req' = [Noticed({h}, fs, us) EXCEPT ![h] = r],
         NEW g \in Handler \ {h}, req[g].fid \cap fs # {}
  PROVE  req'[g].stale
<1>1. req[g] \in Request
  BY DEF TypeOK
<1>2. req'[g] = [req[g] EXCEPT !.stale = TRUE]
  BY DEF Noticed, Disturbed
<1>3. QED
  BY <1>1, <1>2 DEF Request

\* The phases in which a login has something in hand: a user to link, or what
\* it has read of the row.
Hand == {"persist", "decide", "groups", "issue"}

\* The steps that lead there.
Handed(h) == \/ LoginReadLink(h) \/ LoginCreate(h) \/ LoginLookup(h) \/ LoginPersist(h)
             \/ LoginDecide(h) \/ LoginGroups(h)

\* Only a login's own steps put it into those.
LEMMA HandMove ==
  ASSUME TypeOK, NEW h \in Handler,
         \/ Login(h) \/ Grant(h) \/ Revoke(h) \/ Relink(h) \/ Edit(h)
         \/ Deny(h) \/ Approve(h) \/ Abandon(h) \/ \E f \in Fid : LoginUpsert(h, f)
  PROVE  Handed(h) \/ \E r : r.pc \notin Hand /\ Moved(h, r)
<1> DEFINE Elsewhere == \E r : r.pc \notin Hand /\ Moved(h, r)
<1> USE ChangeMoves DEF Hand, Goto, Finish, NoRequest
<1>0. req[h] \in Request
  BY DEF TypeOK
<1>1. ASSUME NEW f \in Fid, LoginUpsert(h, f) PROVE Elsewhere
  BY <1>1 DEF LoginUpsert
<1>4. ASSUME LoginIssue(h) PROVE Elsewhere
  BY <1>4, <1>0 DEF LoginIssue, Request
<1>5. ASSUME GrantRead(h) PROVE Elsewhere
  BY <1>5, <1>0 DEF GrantRead, Request
<1>6. ASSUME GrantFetch(h) PROVE Elsewhere
  BY <1>6, <1>0 DEF GrantFetch, Request
<1>7. ASSUME GrantWrite(h) PROVE Elsewhere
  BY <1>7, <1>0 DEF GrantWrite, Request
<1>8. ASSUME GrantApprove(h) PROVE Elsewhere
  <2>1. \/ Go(h, NoRequest) \/ Change(h, NoRequest, req[h].fid, {})
        \/ req' = [Noticed({h}, req[h].fid, {}) EXCEPT ![h] = NoRequest]
    BY <1>8 DEF GrantApprove
  <2>2. Moved(h, NoRequest)
    BY <2>1 DEF Moved
  <2>3. QED BY <2>2
<1>9. ASSUME RevokeRead(h) PROVE Elsewhere
  BY <1>9, <1>0 DEF RevokeRead, Request
<1>10. ASSUME RevokeClose(h) PROVE Elsewhere
  BY <1>10, <1>0 DEF RevokeClose, Request
<1>11. ASSUME RevokeFetch(h) PROVE Elsewhere
  BY <1>11, <1>0 DEF RevokeFetch, Request
<1>12. ASSUME RevokeWrite(h) PROVE Elsewhere
  BY <1>12, <1>0 DEF RevokeWrite, Request
<1>13. ASSUME RevokeSessions(h) PROVE Elsewhere
  BY <1>13, <1>0 DEF RevokeSessions, Request, Moved
<1>14. ASSUME LinkCheck(h) PROVE Elsewhere
  BY <1>14, <1>0 DEF LinkCheck, Request
<1>15. ASSUME LinkSet(h) PROVE Elsewhere
  BY <1>15, <1>0 DEF LinkSet, Request
<1>16. ASSUME UnlinkSet(h) PROVE Elsewhere
  BY <1>16, <1>0 DEF UnlinkSet, Request
<1>17. ASSUME UnlinkClose(h) PROVE Elsewhere
  BY <1>17, <1>0 DEF UnlinkClose, Request
<1>18. ASSUME EditRead(h) PROVE Elsewhere
  BY <1>18, <1>0 DEF EditRead, Request
<1>19. ASSUME EditWrite(h) PROVE Elsewhere
  BY <1>19, <1>0 DEF EditWrite, Request
<1>20. ASSUME Deny(h) PROVE Elsewhere
  BY <1>20, <1>0 DEF Deny, Request
<1>21. ASSUME Approve(h) PROVE Elsewhere
  BY <1>21, <1>0 DEF Approve, Request
<1>22. ASSUME Abandon(h) PROVE Elsewhere
  BY <1>22, <1>0 DEF Abandon, Request
<1>23. QED
  BY <1>1, <1>4, <1>5, <1>6, <1>7, <1>8, <1>9, <1>10, <1>11, <1>12, <1>13, <1>14, <1>15, <1>16,
     <1>17, <1>18, <1>19, <1>20, <1>21, <1>22
  DEF Login, Grant, Revoke, Relink, Edit, Handed

\* They are moves as well.
LEMMA HandedMoves ==
  ASSUME NEW h \in Handler, Handed(h)
  PROVE  \E r : Moved(h, r)
<1>1. CASE LoginPersist(h)
  BY <1>1, ChangeMoves DEF LoginPersist, Finish
<1>2. CASE LoginReadLink(h) \/ LoginCreate(h) \/ LoginLookup(h) \/ LoginDecide(h) \/ LoginGroups(h)
  BY <1>2, ChangeMoves DEF LoginReadLink, LoginCreate, LoginLookup, LoginDecide, LoginGroups, Goto, Finish
<1>3. QED BY <1>1, <1>2 DEF Handed

\* So whatever the step, a request is where it was, or not among those phases,
\* or its login has taken the step.
LEMMA HandStep ==
  ASSUME TypeOK, [Next]_vars, NEW g \in Handler
  PROVE  Same(g) \/ req'[g].pc \notin Hand \/ Handed(g)
<1> DEFINE Fine == Same(g) \/ req'[g].pc \notin Hand \/ Handed(g)
<1>1. CASE UNCHANGED vars
  BY <1>1 DEF vars, Same
<1>2. CASE Delete
  BY <1>2 DEF Delete, Noticed, Same
<1>3. ASSUME NEW h \in Handler, NEW r, r.pc \notin Hand, Moved(h, r)
      PROVE  Fine
  BY <1>3, MovedSame
<1>4. ASSUME NEW h \in Handler, Handed(h)
      PROVE  Fine
  <2>1. \E r : Moved(h, r)
    BY <1>4, HandedMoves
  <2>2. g # h => Same(g)
    BY <2>1, MovedSame
  <2>3. QED BY <1>4, <2>2
<1>5. QED
  BY <1>1, <1>2, <1>3, <1>4, HandMove DEF Next

\* A login still has a user of its own commander's name in hand.
LEMMA OwnUserStep ==
  ASSUME TypeOK, NamesKept, OwnUserInHand, [Next]_vars
  PROVE  OwnUserInHand'
<1> SUFFICES ASSUME NEW g \in Handler, req'[g].pc = "persist",
                    NEW f \in req'[g].fid, NEW u \in req'[g].user
             PROVE  f \in owner'[u]
  BY DEF OwnUserInHand
<1>0. req[g] \in Request
  BY DEF TypeOK
<1> HIDE DEF LoginPhase, GrantPhase, RevokePhase, LockPhase
<1>a. \A r : Go(g, r) => req'[g] = r /\ r.pc = "persist"
  BY MovedSame, ChangeMoves
<1>b. /\ NoRequest.pc = "idle" /\ \A p : [req[g] EXCEPT !.pc = p].pc = p
      /\ \A us : [req[g] EXCEPT !.pc = "groups", !.user = us, !.stale = FALSE].pc = "groups"
      /\ \A us : /\ [req[g] EXCEPT !.pc = "persist", !.user = us].fid = req[g].fid
               /\ [req[g] EXCEPT !.pc = "persist", !.user = us].user = us
  BY <1>0 DEF NoRequest, Request
<1>c. \A x, y \in req[g].fid : x = y
  <2>1. req[g].fid \in {{}} \cup {{x} : x \in Fid}
    BY <1>0 DEF Request
  <2>2. QED BY <2>1
<1>1. CASE Same(g)
  <2>1. f \in req[g].fid /\ u \in req[g].user /\ req[g].pc = "persist" /\ u \in User
    BY <1>0, <1>1 DEF Same, Request
  <2>2. QED BY <2>1, NamesStep DEF OwnUserInHand
<1>2. CASE LoginCreate(g)
  <2>1. PICK c \in req[g].fid, v \in Fresh :
           CreateUser(c, v) /\ Go(g, [req[g] EXCEPT !.pc = "persist", !.user = {v}])
    BY <1>2, <1>a, <1>b DEF LoginCreate, Goto, Finish
  <2>2. f = c /\ u = v
    <3>1. req'[g] = [req[g] EXCEPT !.pc = "persist", !.user = {v}]
      BY <2>1, <1>a
    <3>2. f \in req[g].fid /\ u \in {v}
      BY <3>1, <1>0 DEF Request
    <3>3. QED BY <3>2, <1>c
  <2>3. QED BY <2>1, <2>2 DEF CreateUser, Fresh, TypeOK
<1>3. CASE LoginLookup(g)
  <2>1. PICK c \in req[g].fid, v \in User :
           v \in Shadow(c) /\ Go(g, [req[g] EXCEPT !.pc = "persist", !.user = {v}])
    <3>1. \A c : Shadow(c) \subseteq User
      BY DEF Shadow, TypeOK
    <3>2. QED BY <1>3, <1>a, <1>b, <3>1 DEF LoginLookup, Finish
  <2>2. f = c /\ u = v
    <3>1. req'[g] = [req[g] EXCEPT !.pc = "persist", !.user = {v}]
      BY <2>1, <1>a
    <3>2. f \in req[g].fid /\ u \in {v}
      BY <3>1, <1>0 DEF Request
    <3>3. QED BY <3>2, <1>c
  <2>3. QED BY <1>3, <2>1, <2>2 DEF LoginLookup, Shadow
<1>4. CASE LoginDecide(g)
  BY <1>4, <1>a, <1>b DEF LoginDecide, Finish
<1>5. CASE LoginGroups(g)
  BY <1>5, <1>a, <1>b DEF LoginGroups, Goto, Finish
<1>6. CASE LoginReadLink(g)
  BY <1>6, <1>a, <1>b DEF LoginReadLink, Goto, Finish
<1>7. CASE LoginPersist(g)
  <2>1. \A r, fs, us : Change(g, r, fs, us) => req'[g] = r
    BY MovedSame, ChangeMoves
  <2>2. [req[g] EXCEPT !.pc = "decide", !.user = {}].pc = "decide"
    BY <1>0 DEF Request
  <2>3. QED BY <1>7, <1>a, <1>b, <2>1, <2>2 DEF LoginPersist, Finish
<1>8. QED
  BY <1>1, <1>2, <1>3, <1>4, <1>5, <1>6, <1>7, HandStep DEF Hand, Handed

\* A link is made to the commander's own user or by an admin, and never to a
\* user another row has.
LEMMA LinkStep ==
  ASSUME TypeOK, NamesKept, OwnUserInHand, [Next]_vars
  PROVE  /\ assigned \subseteq assigned'
         /\ \/ UNCHANGED link
            \/ \E f \in Fid : SetAuthentikLink({f}, {})
            \/ \E f \in Fid, u \in User :
                 /\ ~Conflict(f, u) /\ SetAuthentikLink({f}, {u})
                 /\ f \in owner[u] \/ <<f, u>> \in assigned'
<1> DEFINE Fine == /\ assigned \subseteq assigned'
                  /\ \/ UNCHANGED link
                     \/ \E f \in Fid : SetAuthentikLink({f}, {})
                     \/ \E f \in Fid, u \in User :
                          /\ ~Conflict(f, u) /\ SetAuthentikLink({f}, {u})
                          /\ f \in owner[u] \/ <<f, u>> \in assigned'
<1>1. CASE UNCHANGED vars
  BY <1>1 DEF vars
<1>2. CASE Delete
  BY <1>2 DEF Delete
<1>3. ASSUME NEW h \in Handler, Login(h) \/ \E f \in Fid : LoginUpsert(h, f)
      PROVE  Fine
  <2>0. req[h].fid \subseteq Fid /\ req[h].user \subseteq User
    BY DEF TypeOK, Request
  <2>1. CASE LoginPersist(h)
    BY <2>0, <2>1 DEF LoginPersist, AutoLink, OwnUserInHand
  <2>2. CASE \E f \in Fid : LoginUpsert(h, f)
    BY <2>2 DEF LoginUpsert
  <2>3. CASE LoginReadLink(h) BY <2>3 DEF LoginReadLink
  <2>4. CASE LoginCreate(h) BY <2>4 DEF LoginCreate
  <2>5. CASE LoginLookup(h) BY <2>5 DEF LoginLookup
  <2>6. CASE LoginDecide(h) BY <2>6 DEF LoginDecide
  <2>7. CASE LoginGroups(h) BY <2>7 DEF LoginGroups
  <2>8. CASE LoginIssue(h) BY <2>8 DEF LoginIssue
  <2>9. QED BY <1>3, <2>1, <2>2, <2>3, <2>4, <2>5, <2>6, <2>7, <2>8 DEF Login
<1>4. ASSUME NEW h \in Handler, Grant(h) \/ Edit(h) \/ Deny(h) \/ Approve(h) \/ Abandon(h)
      PROVE  UNCHANGED <<link, assigned>>
  BY <1>4 DEF Grant, GrantRead, GrantFetch, GrantWrite, GrantApprove, Edit, EditRead, EditWrite,
              Deny, Approve, Abandon
<1>5. ASSUME NEW h \in Handler, Revoke(h)
      PROVE  UNCHANGED <<link, assigned>>
  BY <1>5 DEF Revoke, RevokeRead, RevokeClose, RevokeFetch, RevokeWrite, RevokeSessions
<1>6. ASSUME NEW h \in Handler, Relink(h)
      PROVE  Fine
  <2>0. req[h].fid \subseteq Fid /\ req[h].user \subseteq User /\ rows \subseteq Fid
    BY DEF TypeOK, Request
  <2>1. CASE LinkCheck(h) \/ UnlinkClose(h)
    BY <2>1 DEF LinkCheck, UnlinkClose
  <2>2. CASE LinkSet(h)
    BY <2>0, <2>2 DEF LinkSet
  <2>3. CASE UnlinkSet(h)
    BY <2>0, <2>3 DEF UnlinkSet
  <2>4. QED BY <1>6, <2>1, <2>2, <2>3 DEF Relink
<1>7. QED
  BY <1>1, <1>2, <1>3, <1>4, <1>5, <1>6 DEF Next

\* Hence links are the ones somebody chose, and no two rows share a user.
LEMMA LinksStep ==
  ASSUME TypeOK, NamesKept, OwnUserInHand, LinksTell, [Next]_vars
  PROVE  LinksTell'
<1>1. \A f \in Fid, u \in User : f \in owner[u] => f \in owner'[u]
  BY NamesStep DEF TypeOK
<1>2. /\ assigned \subseteq assigned'
      /\ \A f \in Fid : \A u \in link[f] : u \in User
  BY LinkStep DEF TypeOK
<1>3. CASE UNCHANGED link
  BY <1>1, <1>2, <1>3 DEF LinksTell
<1>4. ASSUME NEW c \in Fid, SetAuthentikLink({c}, {}) PROVE LinksTell'
  BY <1>1, <1>2, <1>4 DEF LinksTell, SetAuthentikLink
<1>5. ASSUME NEW c \in Fid, NEW v \in User, ~Conflict(c, v), SetAuthentikLink({c}, {v}),
             c \in owner[v] \/ <<c, v>> \in assigned'
      PROVE  LinksTell'
  <2>1. \A f \in Fid : link'[f] = IF f = c THEN {v} ELSE link[f]
    BY <1>5 DEF SetAuthentikLink
  <2>2. \A f \in Fid : \A u \in link'[f] : f \in owner'[u] \/ <<f, u>> \in assigned'
    <3>1. ASSUME NEW f \in Fid, NEW u \in link'[f] PROVE f \in owner'[u] \/ <<f, u>> \in assigned'
      <4>1. CASE f = c BY <4>1, <3>1, <1>1, <1>5, <2>1
      <4>2. CASE f # c
        <5>1. u \in link[f] /\ u \in User BY <4>2, <3>1, <2>1, <1>2
        <5>2. f \in owner[u] \/ <<f, u>> \in assigned BY <5>1 DEF LinksTell
        <5>3. QED BY <5>1, <5>2, <1>1, <1>2
      <4>3. QED BY <4>1, <4>2
    <3>2. QED BY <3>1
  <2>3. \A f, g \in Fid : f # g => link'[f] \cap link'[g] = {}
    BY <1>5, <2>1 DEF LinksTell, Conflict
  <2>4. QED BY <2>2, <2>3 DEF LinksTell
<1>6. QED
  BY <1>3, <1>4, <1>5, LinkStep

\* What a change of the rows of fs by request h owes the sessions issued under
\* them: h is about to revoke them, or they are loose, or they still match.
Owed(h, r, fs) ==
    /\ req[h].pc \notin {"decide", "groups", "issue"}
    /\ req' = [Noticed({h}, fs, {}) EXCEPT ![h] = r]
    /\ \A f \in Fid \ fs : link'[f] = link[f] /\ approved'[f] = approved[f]
    /\ \/ r.pc \in LockPhase /\ fs \subseteq r.fid
       \/ Loosen(fs)
       \/ \A f \in fs : /\ approved[f] => approved'[f]
                        /\ link[f] = {} \/ link'[f] = link[f]

\* A row changes in one step of one request, and the sessions get their due.
LEMMA RowMove ==
  ASSUME TypeOK, NEW h \in Handler,
         \/ LoginPersist(h) \/ GrantApprove(h) \/ RevokeClose(h) \/ LinkSet(h)
         \/ UnlinkSet(h) \/ UnlinkClose(h) \/ Deny(h) \/ Approve(h)
  PROVE  UNCHANGED <<link, approved>> \/ \E r, fs : Owed(h, r, fs)
<1> DEFINE Fine == UNCHANGED <<link, approved>> \/ \E r, fs : Owed(h, r, fs)
<1>0. /\ req[h] \in Request /\ req[h].fid \subseteq Fid
      /\ link \in [Fid -> SUBSET User] /\ approved \in [Fid -> BOOLEAN]
      /\ \A f \in Fid : \A u, v \in link[f] : u = v
  BY DEF TypeOK, Request
<1>1. ASSUME LoginPersist(h) PROVE Fine
  <2>1. SUFFICES ASSUME NEW f \in Fid, NEW u, NEW r, AutoLink(f, u), UNCHANGED approved,
                        Change(h, r, {f}, {})
                 PROVE  Owed(h, r, {f})
    BY <1>0, <1>1 DEF LoginPersist
  <2>2. \A g \in Fid : link'[g] = IF g = f THEN {u} ELSE link[g]
    BY <2>1 DEF AutoLink, SetAuthentikLink
  <2>3. Loosen({f}) \/ link[f] = {} \/ link'[f] = link[f]
    BY <2>1, <2>2 DEF AutoLink
  <2>4. QED BY <1>1, <2>1, <2>2, <2>3 DEF Owed, Change, LoginPersist
<1>2. ASSUME GrantApprove(h) PROVE Fine
  <2>1. CASE UNCHANGED approved BY <1>2, <2>1 DEF GrantApprove
  <2>2. CASE /\ SetApproved(req[h].fid, TRUE)
             /\ req' = [Noticed({h}, req[h].fid, {}) EXCEPT ![h] = NoRequest]
    BY <1>0, <1>2, <2>2 DEF GrantApprove, SetApproved, Owed
  <2>3. QED BY <1>2, <2>1, <2>2 DEF GrantApprove, Change
<1>3. ASSUME RevokeClose(h) PROVE Fine
  <2>1. CASE UNCHANGED approved BY <1>3, <2>1 DEF RevokeClose
  <2>2. ASSUME SetApproved(req[h].fid, FALSE), NEW r, Change(h, r, req[h].fid, {}),
               r.pc \in LockPhase /\ req[h].fid \subseteq r.fid
        PROVE  Owed(h, r, req[h].fid)
    BY <1>0, <1>3, <2>2 DEF RevokeClose, SetApproved, Owed, Change
  <2>3. PICK r : r = [req[h] EXCEPT !.pc = IF req[h].user = {} THEN "revoke-sessions" ELSE "remove"]
    OBVIOUS
  <2>4. r.pc \in LockPhase /\ req[h].fid \subseteq r.fid
    BY <1>0, <2>3 DEF Request
  <2>5. CASE SetApproved(req[h].fid, FALSE) /\ Change(h, r, req[h].fid, {})
    <3>1. Owed(h, r, req[h].fid) BY <2>2, <2>4, <2>5
    <3>2. QED BY <3>1
  <2>6. CASE /\ SetApproved(req[h].fid, FALSE) /\ Change(h, NoRequest, req[h].fid, {})
             /\ Loosen(req[h].fid)
    <3>1. Owed(h, NoRequest, req[h].fid)
      BY <1>0, <1>3, <2>6 DEF RevokeClose, SetApproved, Owed, Change
    <3>2. QED BY <3>1
  <2>7. QED BY <1>3, <2>1, <2>3, <2>5, <2>6 DEF RevokeClose
<1>4. ASSUME LinkSet(h) PROVE Fine
  <2>1. CASE UNCHANGED link BY <1>4, <2>1 DEF LinkSet
  <2>2. ASSUME NEW f \in req[h].fid, NEW u, SetAuthentikLink({f}, {u}), NEW r, Change(h, r, {f}, {}),
               r.pc \in LockPhase /\ {f} \subseteq r.fid
        PROVE  Owed(h, r, {f})
    BY <1>0, <1>4, <2>2 DEF LinkSet, SetAuthentikLink, Owed, Change
  <2>3. PICK r : r = [req[h] EXCEPT !.pc = "sessions"]
    OBVIOUS
  <2>4. r.pc \in LockPhase /\ req[h].fid \subseteq r.fid
    BY <1>0, <2>3 DEF Request
  <2>5. ASSUME NEW f \in req[h].fid, NEW u, SetAuthentikLink({f}, {u}), Change(h, r, {f}, {})
        PROVE  Fine
    <3>1. {f} \subseteq r.fid BY <2>4
    <3>2. Owed(h, r, {f}) BY <2>2, <2>4, <2>5, <3>1
    <3>3. QED BY <3>2
  <2>6. ASSUME NEW f \in req[h].fid, NEW u, SetAuthentikLink({f}, {u}),
               Change(h, NoRequest, {f}, {}), Loosen({f})
        PROVE  Fine
    <3>1. Owed(h, NoRequest, {f})
      BY <1>0, <1>4, <2>6 DEF LinkSet, SetAuthentikLink, Owed, Change
    <3>2. QED BY <3>1
  <2>7. QED BY <1>4, <2>1, <2>3, <2>5, <2>6 DEF LinkSet
<1>5. ASSUME UnlinkSet(h) PROVE Fine
  <2>1. ASSUME NEW f, SetAuthentikLink({f}, {}), NEW r, Change(h, r, {f}, {}),
               r.pc \in LockPhase /\ {f} \subseteq r.fid
        PROVE  Owed(h, r, {f})
    BY <1>0, <1>5, <2>1 DEF UnlinkSet, SetAuthentikLink, Owed, Change, Accept, AcceptLost
  <2>3. PICK f \in rows :
             /\ SetAuthentikLink({f}, {})
             /\ \/ Change(h, [NoRequest EXCEPT !.pc = "unlink-close", !.fid = {f}], {f}, {})
                \/ Loosen({f}) /\ Change(h, NoRequest, {f}, {})
    BY <1>5 DEF UnlinkSet
  <2>4. PICK r : r = [NoRequest EXCEPT !.pc = "unlink-close", !.fid = {f}]
    OBVIOUS
  <2>5. r.pc \in LockPhase /\ {f} \subseteq r.fid
    BY <2>4 DEF NoRequest
  <2>6. CASE Change(h, r, {f}, {})
    <3>1. Owed(h, r, {f}) BY <2>1, <2>3, <2>5, <2>6
    <3>2. QED BY <3>1
  <2>7. CASE Loosen({f}) /\ Change(h, NoRequest, {f}, {})
    <3>1. Owed(h, NoRequest, {f})
      BY <1>0, <1>5, <2>3, <2>7 DEF UnlinkSet, SetAuthentikLink, Owed, Change, Accept, AcceptLost
    <3>2. QED BY <3>1
  <2>8. QED BY <2>3, <2>4, <2>6, <2>7
<1>6. ASSUME UnlinkClose(h) PROVE Fine
  <2>1. CASE UNCHANGED approved BY <1>6, <2>1 DEF UnlinkClose
  <2>2. ASSUME SetApproved(req[h].fid, FALSE), NEW r, Change(h, r, req[h].fid, {}),
               r.pc \in LockPhase /\ req[h].fid \subseteq r.fid
        PROVE  Owed(h, r, req[h].fid)
    BY <1>0, <1>6, <2>2 DEF UnlinkClose, SetApproved, Owed, Change
  <2>3. PICK r : r = [req[h] EXCEPT !.pc = "sessions"]
    OBVIOUS
  <2>4. r.pc \in LockPhase /\ req[h].fid \subseteq r.fid
    BY <1>0, <2>3 DEF Request
  <2>5. CASE SetApproved(req[h].fid, FALSE) /\ Change(h, r, req[h].fid, {})
    <3>1. Owed(h, r, req[h].fid) BY <2>2, <2>4, <2>5
    <3>2. QED BY <3>1
  <2>6. CASE /\ SetApproved(req[h].fid, FALSE) /\ Change(h, NoRequest, req[h].fid, {})
             /\ Loosen(req[h].fid)
    <3>1. Owed(h, NoRequest, req[h].fid)
      BY <1>0, <1>6, <2>6 DEF UnlinkClose, SetApproved, Owed, Change
    <3>2. QED BY <3>1
  <2>7. QED BY <1>6, <2>1, <2>3, <2>5, <2>6 DEF UnlinkClose
<1>7. ASSUME Deny(h) PROVE Fine
  <2>1. ASSUME NEW f, SetApproved({f}, FALSE), NEW r, Change(h, r, {f}, {}),
               r.pc \in LockPhase /\ {f} \subseteq r.fid
        PROVE  Owed(h, r, {f})
    BY <1>0, <1>7, <2>1 DEF Deny, SetApproved, Owed, Change, Accept, AcceptLost
  <2>3. PICK f \in rows :
             /\ SetApproved({f}, FALSE)
             /\ \/ Change(h, [NoRequest EXCEPT !.pc = "sessions", !.fid = {f}], {f}, {})
                \/ Loosen({f}) /\ Change(h, NoRequest, {f}, {})
    BY <1>7 DEF Deny
  <2>4. PICK r : r = [NoRequest EXCEPT !.pc = "sessions", !.fid = {f}]
    OBVIOUS
  <2>5. r.pc \in LockPhase /\ {f} \subseteq r.fid
    BY <2>4 DEF NoRequest
  <2>6. CASE Change(h, r, {f}, {})
    <3>1. Owed(h, r, {f}) BY <2>1, <2>3, <2>5, <2>6
    <3>2. QED BY <3>1
  <2>7. CASE Loosen({f}) /\ Change(h, NoRequest, {f}, {})
    <3>1. Owed(h, NoRequest, {f})
      BY <1>0, <1>7, <2>3, <2>7 DEF Deny, SetApproved, Owed, Change, Accept, AcceptLost
    <3>2. QED BY <3>1
  <2>8. QED BY <2>3, <2>4, <2>6, <2>7
<1>8. ASSUME Approve(h) PROVE Fine
  <2>1. ASSUME NEW f \in Fid, SetApproved({f}, TRUE), Change(h, NoRequest, {f}, {})
        PROVE  Owed(h, NoRequest, {f})
    <3>1. req[h].pc = "idle" /\ UNCHANGED link
      BY <1>8 DEF Approve, Accept
    <3>2. \A g \in Fid : approved'[g] = IF g = f THEN TRUE ELSE approved[g]
      BY <2>1 DEF SetApproved
    <3>3. req' = [Noticed({h}, {f}, {}) EXCEPT ![h] = NoRequest]
      BY <2>1 DEF Change
    <3>4. QED BY <1>0, <3>1, <3>2, <3>3 DEF Owed
  <2>2. PICK f \in rows : SetApproved({f}, TRUE) /\ Change(h, NoRequest, {f}, {})
    BY <1>8 DEF Approve
  <2>3. f \in Fid BY DEF TypeOK
  <2>4. QED BY <2>1, <2>2, <2>3
<1>9. QED
  BY <1>1, <1>2, <1>3, <1>4, <1>5, <1>6, <1>7, <1>8

\* Rows do not change in any other step.
LEMMA RowStep ==
  ASSUME TypeOK, [Next]_vars
  PROVE  UNCHANGED <<link, approved>> \/ \E h \in Handler : \E r, fs : Owed(h, r, fs)
<1> DEFINE Fine == UNCHANGED <<link, approved>> \/ \E h \in Handler : \E r, fs : Owed(h, r, fs)
<1>1. CASE UNCHANGED vars BY <1>1 DEF vars
<1>2. CASE Delete BY <1>2 DEF Delete
<1>3. ASSUME NEW h \in Handler, Login(h) \/ \E f \in Fid : LoginUpsert(h, f) PROVE Fine
  <2>1. CASE LoginPersist(h) BY <2>1, RowMove
  <2>2. CASE \E f \in Fid : LoginUpsert(h, f) BY <2>2 DEF LoginUpsert
  <2>3. CASE LoginReadLink(h) BY <2>3 DEF LoginReadLink
  <2>4. CASE LoginCreate(h) BY <2>4 DEF LoginCreate
  <2>5. CASE LoginLookup(h) BY <2>5 DEF LoginLookup
  <2>6. CASE LoginDecide(h) BY <2>6 DEF LoginDecide
  <2>7. CASE LoginGroups(h) BY <2>7 DEF LoginGroups
  <2>8. CASE LoginIssue(h) BY <2>8 DEF LoginIssue
  <2>9. QED BY <1>3, <2>1, <2>2, <2>3, <2>4, <2>5, <2>6, <2>7, <2>8 DEF Login
<1>4. ASSUME NEW h \in Handler, Grant(h) PROVE Fine
  <2>1. CASE GrantApprove(h) BY <2>1, RowMove
  <2>2. CASE GrantRead(h) \/ GrantFetch(h) \/ GrantWrite(h)
    BY <2>2 DEF GrantRead, GrantFetch, GrantWrite
  <2>3. QED BY <1>4, <2>1, <2>2 DEF Grant
<1>5. ASSUME NEW h \in Handler, Revoke(h) PROVE Fine
  <2>1. CASE RevokeClose(h) BY <2>1, RowMove
  <2>2. CASE RevokeRead(h) \/ RevokeFetch(h) \/ RevokeWrite(h) \/ RevokeSessions(h)
    BY <2>2 DEF RevokeRead, RevokeFetch, RevokeWrite, RevokeSessions
  <2>3. QED BY <1>5, <2>1, <2>2 DEF Revoke
<1>6. ASSUME NEW h \in Handler, Relink(h) PROVE Fine
  <2>1. CASE LinkCheck(h) BY <2>1 DEF LinkCheck
  <2>2. QED BY <1>6, <2>1, RowMove DEF Relink
<1>7. ASSUME NEW h \in Handler, Edit(h) PROVE Fine
  BY <1>7 DEF Edit, EditRead, EditWrite
<1>8. ASSUME NEW h \in Handler, Deny(h) \/ Approve(h) PROVE Fine
  BY <1>8, RowMove
<1>9. ASSUME NEW h \in Handler, Abandon(h) PROVE Fine
  BY <1>9 DEF Abandon
<1>10. QED
  BY <1>1, <1>2, <1>3, <1>4, <1>5, <1>6, <1>7, <1>8, <1>9 DEF Next

\* What a login has read of the row holds until it notices.
LEMMA DecisionStep ==
  ASSUME TypeOK, DecisionHolds, [Next]_vars
  PROVE  DecisionHolds'
<1> SUFFICES ASSUME NEW g \in Handler, req'[g].pc \in {"groups", "issue"}, ~req'[g].stale,
                    NEW f \in req'[g].fid
             PROVE  approved'[f] /\ link'[f] = req'[g].user
  BY DEF DecisionHolds
<1>0. req[g] \in Request
  BY DEF TypeOK
<1>a. \A r : Go(g, r) => req'[g] = r
  BY MovedSame, ChangeMoves
<1>1. CASE Same(g)
  <2>1. req'[g] = req[g]
    BY <1>0, <1>1 DEF Same, Request
  <2>2. f \in Fid /\ approved[f] /\ link[f] = req[g].user
    BY <1>0, <2>1 DEF DecisionHolds, Request
  <2>3. ASSUME NEW h \in Handler, NEW r, NEW fs, Owed(h, r, fs)
        PROVE  approved'[f] = approved[f] /\ link'[f] = link[f]
    <3>1. h # g BY <2>1, <2>3 DEF Owed
    <3>2. f \notin fs
      <4>1. SUFFICES ASSUME f \in fs PROVE FALSE OBVIOUS
      <4>2. req[g].fid \cap fs # {} BY <2>1, <4>1
      <4>3. req'[g].stale BY <2>3, <3>1, <4>2, ChangeNoticed DEF Owed
      <4>4. QED BY <4>3
    <3>3. QED BY <2>2, <2>3, <3>2 DEF Owed
  <2>4. approved'[f] = approved[f] /\ link'[f] = link[f]
    BY <2>3, RowStep
  <2>5. QED BY <2>1, <2>2, <2>4
<1>6. CASE LoginReadLink(g) \/ LoginPersist(g)
  <2>1. \A r, fs, us : Change(g, r, fs, us) => req'[g] = r
    BY MovedSame, ChangeMoves
  <2>2. /\ NoRequest.pc = "idle" /\ [req[g] EXCEPT !.pc = "decide"].pc = "decide"
        /\ [req[g] EXCEPT !.pc = "create"].pc = "create"
        /\ [req[g] EXCEPT !.pc = "decide", !.user = {}].pc = "decide"
    BY <1>0 DEF NoRequest, Request
  <2>3. CASE LoginReadLink(g)
    BY <1>a, <2>2, <2>3 DEF LoginReadLink, Goto, Finish
  <2>4. CASE LoginPersist(g)
    BY <1>a, <2>1, <2>2, <2>4 DEF LoginPersist, Finish
  <2>5. QED BY <1>6, <2>3, <2>4
<1>2. CASE LoginCreate(g) \/ LoginLookup(g)
  <2>1. req'[g].pc \in {"lookup", "persist", "idle"}
    <3>1. /\ NoRequest.pc = "idle" /\ [req[g] EXCEPT !.pc = "lookup"].pc = "lookup"
          /\ \A us : [req[g] EXCEPT !.pc = "persist", !.user = us].pc = "persist"
      BY <1>0 DEF NoRequest, Request
    <3>2. QED BY <1>2, <1>a, <3>1 DEF LoginCreate, LoginLookup, Goto, Finish
  <2>2. QED BY <2>1
<1>3. CASE LoginDecide(g)
  <2>0. NoRequest.pc = "idle"
    BY DEF NoRequest
  <2>1. PICK c \in req[g].fid : /\ approved[c]
                               /\ Go(g, [req[g] EXCEPT !.pc = "groups", !.user = link[c],
                                                       !.stale = FALSE])
    BY <1>3, <1>a, <2>0 DEF LoginDecide, Finish
  <2>2. req'[g] = [req[g] EXCEPT !.pc = "groups", !.user = link[c], !.stale = FALSE]
    BY <2>1, <1>a
  <2>3. req'[g].fid = req[g].fid /\ req'[g].user = link[c]
    BY <2>2, <1>0 DEF Request
  <2>4. req[g].fid \in {{}} \cup {{x} : x \in Fid}
    BY <1>0 DEF Request
  <2>5. f = c BY <2>3, <2>4
  <2>6. UNCHANGED <<link, approved>> BY <1>3 DEF LoginDecide
  <2>7. QED BY <2>1, <2>3, <2>5, <2>6
<1>4. CASE LoginGroups(g)
  <2>0. NoRequest.pc = "idle"
    BY DEF NoRequest
  <2>1. req'[g] = [req[g] EXCEPT !.pc = "issue"]
    BY <1>4, <1>a, <2>0 DEF LoginGroups, Goto, Finish
  <2>2. req[g].pc = "groups" /\ ~req[g].stale /\ f \in req[g].fid /\ req'[g].user = req[g].user
    BY <1>0, <1>4, <2>1 DEF LoginGroups, Request
  <2>3. UNCHANGED <<link, approved>> BY <1>4 DEF LoginGroups
  <2>4. QED BY <2>2, <2>3 DEF DecisionHolds
<1>5. QED
  BY <1>1, <1>2, <1>3, <1>4, <1>6, HandStep DEF Hand, Handed

\* A login that is past linking goes on finding the row linked.
LEMMA LinkedStep ==
  ASSUME TypeOK, LinkedOn, [Next]_vars
  PROVE  LinkedOn'
<1> SUFFICES ASSUME NEW g \in Handler, req'[g].pc \in {"decide", "groups", "issue"}, ~req'[g].stale,
                    NEW f \in req'[g].fid
             PROVE  link'[f] # {}
  BY DEF LinkedOn
<1>0. req[g] \in Request /\ req[g].fid \in {{}} \cup {{x} : x \in Fid}
  BY DEF TypeOK, Request
<1>a. \A r : /\ Go(g, r) => req'[g] = r
            /\ \A fs, us : Change(g, r, fs, us) => req'[g] = r
  BY MovedSame, ChangeMoves
<1>b. /\ NoRequest.pc = "idle"
      /\ \A p : [req[g] EXCEPT !.pc = p].pc = p /\ [req[g] EXCEPT !.pc = p].fid = req[g].fid
      /\ \A p : [req[g] EXCEPT !.pc = p].stale = req[g].stale
      /\ \A us : [req[g] EXCEPT !.pc = "persist", !.user = us].pc = "persist"
      /\ \A us : [req[g] EXCEPT !.pc = "decide", !.user = us].fid = req[g].fid
      /\ \A us : [req[g] EXCEPT !.pc = "groups", !.user = us, !.stale = FALSE].fid = req[g].fid
  BY <1>0 DEF NoRequest, Request
<1>c. ~Finish(g) /\ ~Goto(g, "create") /\ ~Goto(g, "lookup")
  <2>1. ~Go(g, NoRequest)
    BY <1>a, <1>b
  <2>2. [req[g] EXCEPT !.pc = "create"].pc = "create" /\ [req[g] EXCEPT !.pc = "lookup"].pc = "lookup"
    BY <1>b
  <2>3. ~Go(g, [req[g] EXCEPT !.pc = "create"]) /\ ~Go(g, [req[g] EXCEPT !.pc = "lookup"])
    BY <1>a, <2>2
  <2>4. QED BY <2>1, <2>3 DEF Finish, Goto
<1>d. \A us : ~Go(g, [req[g] EXCEPT !.pc = "persist", !.user = us])
  BY <1>a, <1>b
<1>1. CASE Same(g)
  <2>1. req'[g] = req[g]
    BY <1>0, <1>1 DEF Same, Request
  <2>2. f \in Fid /\ link[f] # {}
    BY <1>0, <2>1 DEF LinkedOn, Request
  <2>3. ASSUME NEW h \in Handler, NEW r, NEW fs, Owed(h, r, fs)
        PROVE  link'[f] # {}
    <3>1. CASE f \notin fs BY <2>2, <2>3, <3>1 DEF Owed
    <3>2. CASE f \in fs /\ h # g
      <4>1. req[g].fid \cap fs # {} BY <2>1, <3>2
      <4>2. req'[g].stale BY <2>3, <3>2, <4>1, ChangeNoticed DEF Owed
      <4>3. QED BY <4>2
    <3>3. h # g
      BY <2>1, <2>3 DEF Owed
    <3>4. QED BY <3>1, <3>2, <3>3
  <2>4. QED BY <2>2, <2>3, RowStep
<1>2. CASE LoginReadLink(g)
  <2>1. PICK c \in req[g].fid : link[c] # {} /\ Go(g, [req[g] EXCEPT !.pc = "decide"])
    BY <1>2, <1>c DEF LoginReadLink, Goto
  <2>2. req'[g] = [req[g] EXCEPT !.pc = "decide"]
    BY <2>1, <1>a
  <2>3. f = c
    BY <1>0, <1>b, <2>1, <2>2
  <2>4. QED BY <1>2, <2>1, <2>3 DEF LoginReadLink
<1>3. CASE LoginCreate(g) \/ LoginLookup(g)
  BY <1>3, <1>c, <1>d DEF LoginCreate, LoginLookup
<1>4. CASE LoginPersist(g)
  <2>1. PICK c \in req[g].fid, u \in req[g].user :
           AutoLink(c, u) /\ Change(g, [req[g] EXCEPT !.pc = "decide", !.user = {}], {c}, {})
    BY <1>4, <1>a, <1>b DEF LoginPersist, Finish
  <2>2. req'[g] = [req[g] EXCEPT !.pc = "decide", !.user = {}]
    BY <2>1, <1>a
  <2>3. f = c /\ c \in Fid
    BY <1>0, <1>b, <2>1, <2>2
  <2>4. link'[f] = {u}
    BY <2>1, <2>3 DEF AutoLink, SetAuthentikLink
  <2>5. QED BY <2>4
<1>5. CASE LoginDecide(g)
  <2>1. PICK c \in req[g].fid : link[c] # {} /\ Go(g, [req[g] EXCEPT !.pc = "groups", !.user = link[c],
                                                                     !.stale = FALSE])
    BY <1>5, <1>a, <1>b DEF LoginDecide, Finish
  <2>2. req'[g] = [req[g] EXCEPT !.pc = "groups", !.user = link[c], !.stale = FALSE]
    BY <2>1, <1>a
  <2>3. f = c
    BY <1>0, <1>b, <2>1, <2>2
  <2>4. QED BY <1>5, <2>1, <2>3 DEF LoginDecide
<1>6. CASE LoginGroups(g)
  <2>1. req'[g] = [req[g] EXCEPT !.pc = "issue"]
    BY <1>6, <1>a, <1>b DEF LoginGroups, Goto, Finish
  <2>2. f \in req[g].fid /\ ~req[g].stale /\ req[g].pc = "groups"
    BY <1>6, <1>b, <2>1 DEF LoginGroups
  <2>3. QED BY <1>6, <2>2 DEF LoginGroups, LinkedOn
<1>7. QED
  BY <1>1, <1>2, <1>3, <1>4, <1>5, <1>6, HandStep DEF Hand, Handed

\* Loosening makes no session, and leaves none of fs that is not loose.
LEMMA LoosenLive ==
  ASSUME TypeOK, NEW fs, Loosen(fs), NEW s \in live'
  PROVE  (s \in live \/ s.loose) /\ (s.fid \in fs => s.loose)
<1>1. PICK t \in live : s = IF t.fid \in fs THEN [t EXCEPT !.loose = TRUE] ELSE t
  BY DEF Loosen
<1>2. t \in Session
  BY DEF TypeOK
<1>3. QED
  BY <1>1, <1>2 DEF Session

\* A session that works was there before, or a login has just issued it.
LEMMA LiveStep ==
  ASSUME TypeOK, [Next]_vars, NEW s \in live'
  PROVE  s \in live \/ s.loose \/ \E h \in Handler : LoginIssue(h)
<1> DEFINE Fine == s \in live \/ s.loose \/ \E h \in Handler : LoginIssue(h)
<1>1. CASE UNCHANGED vars BY <1>1 DEF vars
<1>2. CASE Delete BY <1>2 DEF Delete
<1>3. ASSUME NEW h \in Handler, Login(h) \/ \E f \in Fid : LoginUpsert(h, f) PROVE Fine
  <2>1. CASE LoginPersist(h) BY <2>1, LoosenLive DEF LoginPersist, AutoLink
  <2>2. CASE \E f \in Fid : LoginUpsert(h, f) BY <2>2 DEF LoginUpsert
  <2>3. CASE LoginReadLink(h) BY <2>3 DEF LoginReadLink
  <2>4. CASE LoginCreate(h) BY <2>4 DEF LoginCreate
  <2>5. CASE LoginLookup(h) BY <2>5 DEF LoginLookup
  <2>6. CASE LoginDecide(h) BY <2>6 DEF LoginDecide
  <2>7. CASE LoginGroups(h) BY <2>7 DEF LoginGroups
  <2>8. CASE LoginIssue(h) BY <2>8
  <2>9. QED BY <1>3, <2>1, <2>2, <2>3, <2>4, <2>5, <2>6, <2>7, <2>8 DEF Login
<1>4. ASSUME NEW h \in Handler, Grant(h) PROVE Fine
  BY <1>4 DEF Grant, GrantRead, GrantFetch, GrantWrite, GrantApprove
<1>5. ASSUME NEW h \in Handler, Revoke(h) PROVE Fine
  <2>1. CASE RevokeClose(h) BY <2>1, LoosenLive DEF RevokeClose
  <2>2. CASE RevokeRead(h) \/ RevokeFetch(h) \/ RevokeWrite(h)
    BY <2>2 DEF RevokeRead, RevokeFetch, RevokeWrite
  <2>3. CASE RevokeSessions(h) BY <2>3, LoosenLive DEF RevokeSessions
  <2>4. QED BY <1>5, <2>1, <2>2, <2>3 DEF Revoke
<1>6. ASSUME NEW h \in Handler, Relink(h) PROVE Fine
  <2>1. CASE LinkCheck(h) BY <2>1 DEF LinkCheck
  <2>2. CASE LinkSet(h) BY <2>2, LoosenLive DEF LinkSet
  <2>3. CASE UnlinkSet(h) BY <2>3, LoosenLive DEF UnlinkSet
  <2>4. CASE UnlinkClose(h) BY <2>4, LoosenLive DEF UnlinkClose
  <2>5. QED BY <1>6, <2>1, <2>2, <2>3, <2>4 DEF Relink
<1>7. ASSUME NEW h \in Handler, Edit(h) \/ Approve(h) PROVE Fine
  BY <1>7 DEF Edit, EditRead, EditWrite, Approve
<1>8. ASSUME NEW h \in Handler, Deny(h) PROVE Fine
  BY <1>8, LoosenLive DEF Deny
<1>9. ASSUME NEW h \in Handler, Abandon(h) PROVE Fine
  BY <1>9, LoosenLive DEF Abandon
<1>10. QED
  BY <1>1, <1>2, <1>3, <1>4, <1>5, <1>6, <1>7, <1>8, <1>9 DEF Next

Paid(h) == \A s \in live' : s.fid \in req[h].fid => s.loose

\* A request that owes a lockout goes on owing it, or pays, or its sessions are
\* loose.
LEMMA LockMove ==
  ASSUME TypeOK, NEW h \in Handler, req[h].pc \in LockPhase,
         RevokeFetch(h) \/ RevokeWrite(h) \/ RevokeSessions(h) \/ UnlinkClose(h) \/ Abandon(h)
  PROVE  Paid(h) \/ (req'[h].pc \in LockPhase /\ req'[h].fid = req[h].fid)
<1> DEFINE Fine == Paid(h) \/ (req'[h].pc \in LockPhase /\ req'[h].fid = req[h].fid)
<1>0. req[h] \in Request
  BY DEF TypeOK
<1>a. \A r : /\ Go(h, r) => req'[h] = r
            /\ \A fs, us : Change(h, r, fs, us) => req'[h] = r
  BY MovedSame, ChangeMoves
<1>b. Loosen(req[h].fid) => Paid(h)
  BY LoosenLive DEF Paid
<1>1. CASE RevokeFetch(h)
  <2>1. ASSUME Go(h, [req[h] EXCEPT !.pc = "revoke-sessions"])
        PROVE  Fine
    <3>1. req'[h] = [req[h] EXCEPT !.pc = "revoke-sessions"]
      BY <2>1, <1>a
    <3>2. req'[h].pc \in LockPhase /\ req'[h].fid = req[h].fid
      BY <3>1, <1>0, <1>1 DEF Request, RevokeFetch
    <3>3. QED BY <3>2
  <2>2. ASSUME NEW x, Go(h, [req[h] EXCEPT !.todo = x])
        PROVE  Fine
    <3>1. req'[h] = [req[h] EXCEPT !.todo = x]
      BY <2>2, <1>a
    <3>2. req'[h].pc \in LockPhase /\ req'[h].fid = req[h].fid
      BY <3>1, <1>0, <1>1 DEF Request, RevokeFetch
    <3>3. QED BY <3>2
  <2>3. ASSUME NEW x, Go(h, [req[h] EXCEPT !.todo = x, !.stale = TRUE])
        PROVE  Fine
    <3>1. req'[h] = [req[h] EXCEPT !.todo = x, !.stale = TRUE]
      BY <2>3, <1>a
    <3>2. req'[h].pc \in LockPhase /\ req'[h].fid = req[h].fid
      BY <3>1, <1>0, <1>1 DEF Request, RevokeFetch
    <3>3. QED BY <3>2
  <2>4. ASSUME NEW x, NEW y, NEW z, Go(h, [req[h] EXCEPT !.pc = "remove-write", !.todo = x, !.at = y, !.seen = z])
        PROVE  Fine
    <3>1. req'[h] = [req[h] EXCEPT !.pc = "remove-write", !.todo = x, !.at = y, !.seen = z]
      BY <2>4, <1>a
    <3>2. req'[h].pc \in LockPhase /\ req'[h].fid = req[h].fid
      BY <3>1, <1>0, <1>1 DEF Request, RevokeFetch
    <3>3. QED BY <3>2
  <2>5. QED BY <1>1, <2>1, <2>2, <2>3, <2>4, Zenon DEF RevokeFetch, Goto
<1>2. CASE RevokeWrite(h)
  <2>1. /\ [req[h] EXCEPT !.pc = "remove"].pc = "remove"
        /\ [req[h] EXCEPT !.pc = "remove"].fid = req[h].fid
        /\ [req[h] EXCEPT !.pc = "remove", !.stale = TRUE].pc = "remove"
        /\ [req[h] EXCEPT !.pc = "remove", !.stale = TRUE].fid = req[h].fid
    BY <1>0 DEF Request
  <2>2. QED BY <1>2, <2>1, <1>a DEF RevokeWrite, Goto
<1>3. CASE RevokeSessions(h)
  BY <1>3, <1>b DEF RevokeSessions, Paid
<1>4. CASE UnlinkClose(h)
  <2>1. /\ [req[h] EXCEPT !.pc = "sessions"].pc = "sessions"
        /\ [req[h] EXCEPT !.pc = "sessions"].fid = req[h].fid
    BY <1>0 DEF Request
  <2>2. QED BY <1>4, <2>1, <1>a, <1>b DEF UnlinkClose
<1>5. CASE Abandon(h)
  BY <1>5, <1>b DEF Abandon
<1>6. QED
  BY <1>1, <1>2, <1>3, <1>4, <1>5

\* So a commander in the middle of a lockout stays so until no session of theirs
\* but loose ones is left.
LEMMA LockStep ==
  ASSUME TypeOK, [Next]_vars, NEW f \in Fid, Locking(f)
  PROVE  Locking(f)' \/ \A s \in live' : s.fid = f => s.loose
<1> DEFINE Fine == Locking(f)' \/ \A s \in live' : s.fid = f => s.loose
<1>0. PICK g \in Handler : f \in req[g].fid /\ req[g].pc \in LockPhase
  BY DEF Locking
<1>1. CASE Same(g)
  <2>1. req'[g].fid = req[g].fid /\ req'[g].pc = req[g].pc
    BY <1>1 DEF Same, TypeOK, Request
  <2>2. QED BY <1>0, <2>1 DEF Locking
<1>2. CASE UNCHANGED vars BY <1>1, <1>2 DEF vars, Same
<1>3. CASE Delete BY <1>1, <1>3 DEF Delete, Noticed, Same
<1>4. ASSUME NEW h \in Handler,
             \/ Login(h) \/ Grant(h) \/ Revoke(h) \/ Relink(h) \/ Edit(h)
             \/ Deny(h) \/ Approve(h) \/ Abandon(h) \/ \E c \in Fid : LoginUpsert(h, c)
      PROVE  Fine
  <2>1. \E r : Moved(h, r)
    BY <1>4, HandMove, HandedMoves
  <2>2. CASE h # g
    <3>1. Same(g) BY <2>1, <2>2, MovedSame
    <3>2. QED BY <1>1, <3>1
  <2>3. CASE h = g
    <3>1. RevokeFetch(h) \/ RevokeWrite(h) \/ RevokeSessions(h) \/ UnlinkClose(h) \/ Abandon(h)
      <4>1. req[h].pc \in LockPhase BY <1>0, <2>3
      <4>2. ~Login(h) /\ ~(\E c \in Fid : LoginUpsert(h, c))
        <5>1. ~LoginReadLink(h) /\ ~LoginCreate(h) /\ ~LoginLookup(h)
          BY <4>1 DEF LoginReadLink, LoginCreate, LoginLookup
        <5>2. ~LoginPersist(h) /\ ~LoginDecide(h)
          BY <4>1 DEF LoginPersist, LoginDecide
        <5>3. ~LoginGroups(h) /\ ~LoginIssue(h)
          BY <4>1 DEF LoginGroups, LoginIssue
        <5>4. ~(\E c \in Fid : LoginUpsert(h, c))
          BY <4>1 DEF LoginUpsert
        <5>5. QED BY <5>1, <5>2, <5>3, <5>4 DEF Login
      <4>3. ~Grant(h) /\ ~Edit(h)
        BY <4>1 DEF Grant, GrantRead, GrantFetch, GrantWrite, GrantApprove, Edit, EditRead,
                    EditWrite, Accept
      <4>4. /\ ~RevokeRead(h) /\ ~RevokeClose(h) /\ ~LinkCheck(h) /\ ~LinkSet(h)
            /\ ~UnlinkSet(h) /\ ~Deny(h) /\ ~Approve(h)
        BY <4>1 DEF RevokeRead, RevokeClose, LinkCheck, LinkSet, UnlinkSet, Deny, Approve,
                    Accept, AcceptLost
      <4>5. QED BY <1>4, <4>2, <4>3, <4>4 DEF Revoke, Relink
    <3>2. Paid(h) \/ (req'[h].pc \in LockPhase /\ req'[h].fid = req[h].fid)
      BY <1>0, <2>3, <3>1, LockMove
    <3>3. QED BY <1>0, <2>3, <3>2 DEF Paid, Locking
  <2>4. QED BY <2>2, <2>3
<1>5. QED
  <2>1. UNCHANGED vars \/ Delete => Same(g)
    BY DEF vars, Same, Delete, Noticed
  <2>2. QED BY <1>1, <1>4, <2>1 DEF Next

\* Hence sessions still match, are about to be revoked, or are loose.
LEMMA SessionsStep ==
  ASSUME TypeOK, DecisionHolds, SessionsMatch, [Next]_vars
  PROVE  SessionsMatch'
<1> SUFFICES ASSUME NEW s \in live', ~s.loose
             PROVE  \/ approved'[s.fid] /\ link'[s.fid] = {s.user}
                    \/ Locking(s.fid)'
  BY DEF SessionsMatch
<1>1. CASE s \in live
  <2>0. s.fid \in Fid
    BY <1>1 DEF TypeOK, Session
  <2>1. CASE Locking(s.fid)
    BY <2>0, <2>1, LockStep
  <2>2. CASE approved[s.fid] /\ link[s.fid] = {s.user}
    <3>1. ASSUME NEW h \in Handler, NEW r, NEW fs, Owed(h, r, fs)
          PROVE  \/ approved'[s.fid] /\ link'[s.fid] = {s.user}
                 \/ Locking(s.fid)'
      <4>1. CASE s.fid \notin fs BY <2>0, <2>2, <3>1, <4>1 DEF Owed
      <4>2. CASE s.fid \in fs
        <5>1. CASE r.pc \in LockPhase /\ fs \subseteq r.fid
          <6>1. req'[h] = r BY <3>1, MovedSame DEF Owed, Moved
          <6>2. s.fid \in req'[h].fid /\ req'[h].pc \in LockPhase
            BY <4>2, <5>1, <6>1
          <6>3. QED BY <6>2 DEF Locking
        <5>2. CASE Loosen(fs) BY <4>2, <5>2, LoosenLive
        <5>3. CASE \A f \in fs : /\ approved[f] => approved'[f]
                                 /\ link[f] = {} \/ link'[f] = link[f]
          <6>1. link[s.fid] # {} BY <2>2
          <6>2. /\ approved[s.fid] => approved'[s.fid]
                /\ link[s.fid] = {} \/ link'[s.fid] = link[s.fid]
            BY <4>2, <5>3
          <6>3. approved'[s.fid] BY <2>2, <6>2
          <6>4. link'[s.fid] = {s.user} BY <2>2, <6>1, <6>2
          <6>5. QED BY <6>3, <6>4
        <5>4. QED BY <3>1, <5>1, <5>2, <5>3 DEF Owed
      <4>3. QED BY <4>1, <4>2
    <3>2. CASE UNCHANGED <<link, approved>> BY <2>2, <3>2
    <3>3. QED BY <3>1, <3>2, RowStep
  <2>3. QED BY <1>1, <2>1, <2>2 DEF SessionsMatch
<1>2. CASE s \notin live
  <2>1. PICK h \in Handler : LoginIssue(h)
    BY <1>2, LiveStep
  <2>2. PICK f \in req[h].fid, u \in req[h].user : s = [fid |-> f, user |-> u, loose |-> req[h].stale]
    BY <1>2, <2>1 DEF LoginIssue
  <2>3. f \in Fid /\ s.fid = f /\ s.user = u /\ ~req[h].stale /\ req[h].pc = "issue"
    BY <2>1, <2>2 DEF TypeOK, Request, LoginIssue
  <2>4. approved[f] /\ link[f] = req[h].user
    BY <2>2, <2>3 DEF DecisionHolds
  <2>5. link[f] = {u}
    BY <2>2, <2>3, <2>4 DEF TypeOK
  <2>6. UNCHANGED <<link, approved>>
    BY <2>1 DEF LoginIssue
  <2>7. QED BY <2>3, <2>4, <2>5, <2>6
<1>3. QED BY <1>1, <1>2

\* A request in the middle of a login takes a login's step or is abandoned.
LEMMA LoginMoves ==
  ASSUME TypeOK, [Next]_vars, NEW g \in Handler, req[g].pc \in LoginPhase, req'[g].pc = "idle"
  PROVE  Login(g) \/ Abandon(g)
<1>0. ~Same(g)
  BY DEF Same, TypeOK, Request
<1>1. ~(UNCHANGED vars) /\ ~Delete
  BY <1>0 DEF vars, Same, Delete, Noticed
<1>2. PICK h \in Handler :
         \/ Login(h) \/ Grant(h) \/ Revoke(h) \/ Relink(h) \/ Edit(h)
         \/ Deny(h) \/ Approve(h) \/ Abandon(h) \/ \E c \in Fid : LoginUpsert(h, c)
  BY <1>1 DEF Next
<1>3. h = g
  <2>1. \E r : Moved(h, r)
    BY <1>2, HandMove, HandedMoves
  <2>2. QED BY <1>0, <2>1, MovedSame
<1>4. /\ ~(\E c \in Fid : LoginUpsert(g, c)) /\ ~Deny(g) /\ ~Approve(g)
  BY DEF LoginUpsert, Deny, Approve, Accept, AcceptLost
<1>5. ~Grant(g) /\ ~Edit(g)
  BY DEF Grant, GrantRead, GrantFetch, GrantWrite, GrantApprove, Edit, EditRead, EditWrite, Accept
<1>6. ~Revoke(g)
  BY DEF Revoke, RevokeRead, RevokeClose, RevokeFetch, RevokeWrite, RevokeSessions, Accept
<1>7. ~Relink(g)
  BY DEF Relink, LinkCheck, LinkSet, UnlinkSet, UnlinkClose, Accept, AcceptLost
<1>8. QED BY <1>2, <1>3, <1>4, <1>5, <1>6, <1>7

\* Where a login none of whose calls fails ends, the row is linked, or the
\* commander's user is someone else's or gone.
LEMMA LoginEnds ==
  ASSUME Inv, [Next]_vars, NEW g \in Handler, req[g].pc \in LoginPhase, req'[g].pc = "idle",
         ~req[g].stale, faults' = faults, NEW f \in req[g].fid
  PROVE  link'[f] # {} \/ Taken(f) \/ Shadow(f) = {}
<1>0. /\ TypeOK /\ req[g] \in Request /\ req[g].fid \in {{}} \cup {{x} : x \in Fid}
      /\ req[g].fid \subseteq Fid /\ req[g].user \subseteq User
  BY DEF Inv, TypeOK, Request
<1>a. ~Fault
  BY <1>0 DEF Fault, TypeOK
<1>b. \A r : /\ Go(g, r) => r.pc = "idle"
            /\ \A fs, us : Change(g, r, fs, us) => r.pc = "idle"
  BY <1>0, MovedSame, ChangeMoves
<1>c. /\ [req[g] EXCEPT !.pc = "decide"].pc = "decide" /\ [req[g] EXCEPT !.pc = "create"].pc = "create"
      /\ [req[g] EXCEPT !.pc = "lookup"].pc = "lookup" /\ [req[g] EXCEPT !.pc = "issue"].pc = "issue"
      /\ \A us : [req[g] EXCEPT !.pc = "persist", !.user = us].pc = "persist"
      /\ [req[g] EXCEPT !.pc = "decide", !.user = {}].pc = "decide"
      /\ \A us : [req[g] EXCEPT !.pc = "groups", !.user = us, !.stale = FALSE].pc = "groups"
  BY <1>0 DEF Request
<1>d. \A p \in {"decide", "create", "lookup", "issue"} : ~Goto(g, p)
  BY <1>b, <1>c DEF Goto
<1>1. ~LoginReadLink(g) /\ ~Abandon(g)
  BY <1>a, <1>d DEF LoginReadLink, Abandon
<1>2. ~LoginCreate(g)
  BY <1>a, <1>b, <1>c, <1>d DEF LoginCreate
<1>3. CASE LoginLookup(g)
  <2>1. \A us : ~Go(g, [req[g] EXCEPT !.pc = "persist", !.user = us])
    BY <1>b, <1>c
  <2>2. PICK c \in req[g].fid : Shadow(c) = {}
    BY <1>3, <1>a, <2>1 DEF LoginLookup
  <2>3. f = c
    BY <1>0, <2>2
  <2>4. QED BY <2>2, <2>3
<1>4. CASE LoginPersist(g)
  <2>1. PICK c \in req[g].fid, u \in req[g].user : Conflict(c, u)
    BY <1>4, <1>a, <1>b, <1>c DEF LoginPersist
  <2>2. f = c /\ f \in owner[u] /\ u \in User
    BY <1>0, <1>4, <2>1 DEF Inv, OwnUserInHand, LoginPersist
  <2>3. QED BY <2>1, <2>2 DEF Taken
<1>5. CASE LoginDecide(g) \/ LoginGroups(g) \/ LoginIssue(g)
  <2>1. req[g].pc \in {"decide", "groups", "issue"} /\ UNCHANGED link
    <3>1. CASE LoginDecide(g) BY <3>1 DEF LoginDecide
    <3>2. CASE LoginGroups(g) BY <3>2 DEF LoginGroups
    <3>3. CASE LoginIssue(g) BY <3>3 DEF LoginIssue
    <3>4. QED BY <1>5, <3>1, <3>2, <3>3
  <2>2. QED BY <2>1 DEF Inv, LinkedOn
<1>6. QED
  BY <1>0, <1>1, <1>2, <1>3, <1>4, <1>5, LoginMoves DEF Login

-----------------------------------------------------------------------------
(* What grants and revokes rest on: rows and groups they have seen stay as  *)
(* they are until the request notices                                      *)

\* A step changes the rows of fs and the groups of us at most.
Effects(fs, us) ==
    /\ \A f \in Fid \ fs : link'[f] = link[f] /\ approved'[f] = approved[f]
    /\ \A u \in User \ us : groups'[u] = groups[u]

\* Such a step by request h, and the others notice.
Does(h, r, fs, us) == Change(h, r, fs, us) /\ Effects(fs, us)

\* A step that changes nothing others can see is one.
LEMMA GoDoes ==
  ASSUME TypeOK, NEW h \in Handler, NEW r, Go(h, r), Effects({}, {})
  PROVE  Does(h, r, {}, {})
<1>1. Noticed({h}, {}, {}) = req
  BY DEF Noticed, Disturbed, TypeOK
<1>2. Touch({}, {})
  BY DEF Go, Touch, TypeOK
<1>3. QED
  BY <1>1, <1>2 DEF Go, Does, Change

\* What it makes of h.
LEMMA DoesMine ==
  ASSUME TypeOK, NEW h \in Handler, NEW r, NEW fs, NEW us, Does(h, r, fs, us)
  PROVE  req'[h] = r
BY DEF Does, Change, Noticed

\* What a grant or revoke has seen and done still holds until it notices.
LEMMA OthersHold ==
  ASSUME TypeOK, WorkHolds, NEW mine, NEW fs, NEW us, Effects(fs, us),
         NEW g \in Handler \ mine, req'[g] = Noticed(mine, fs, us)[g], ~req'[g].stale
  PROVE  Holding(req[g])'
<1>0. req[g] \in Request /\ req[g].fid \subseteq Fid /\ req[g].user \subseteq User
  BY DEF TypeOK, Request
<1>1. ~Disturbed(req[g], fs, us)
  <2>1. ~[req[g] EXCEPT !.stale = TRUE].stale => FALSE
    BY <1>0 DEF Request
  <2>2. QED BY <2>1 DEF Noticed
<1>2. req'[g] = req[g]
  BY <1>1 DEF Noticed
<1>3. Holding(req[g])
  BY <1>2 DEF WorkHolds
<1>4. CASE req[g].pc \in WordPhase
  <2>1. /\ \A f \in req[g].fid : f \in Fid \ fs
        /\ \A u \in req[g].user : u \in User \ us
    BY <1>0, <1>1, <1>4 DEF Disturbed, WordPhase
  <2>2. /\ \A f \in req[g].fid : link'[f] = link[f] /\ approved'[f] = approved[f]
        /\ \A u \in req[g].user : groups'[u] = groups[u]
    BY <2>1 DEF Effects
  <2>3. QED BY <1>2, <1>3, <2>2 DEF Holding
<1>5. CASE req[g].pc \notin WordPhase
  BY <1>2, <1>5 DEF Holding, WordPhase
<1>6. QED BY <1>4, <1>5

\* A commander whose revoke stands gets no session but loose ones.
LEMMA ShutSessions ==
  ASSUME TypeOK, DecisionHolds, RevokesStand, [Next]_vars, NEW s \in live', s.fid \in shut
  PROVE  s.loose
<1>1. CASE s \in live
  BY <1>1 DEF RevokesStand
<1>2. ASSUME NEW h \in Handler, LoginIssue(h), s \notin live
      PROVE  s.loose
  <2>1. PICK f \in req[h].fid, u \in req[h].user : s = [fid |-> f, user |-> u, loose |-> req[h].stale]
    BY <1>2 DEF LoginIssue
  <2>2. s.fid = f /\ s.loose = req[h].stale /\ req[h].pc = "issue"
    BY <1>2, <2>1 DEF LoginIssue
  <2>3. ~approved[f]
    BY <2>2 DEF RevokesStand
  <2>4. req[h].stale
    BY <2>2, <2>3 DEF DecisionHolds
  <2>5. QED BY <2>2, <2>4
<1>3. QED BY <1>1, <1>2, LiveStep

\* Decisions whose rows and users a step leaves alone stand.
LEMMA WordsStay ==
  ASSUME TypeOK, DecisionHolds, DecisionsStand, [Next]_vars, GroupsKnown', TypeOK',
         NEW fs, NEW us, Touch(fs, us), Effects(fs, us)
  PROVE  DecisionsStand'
<1>1. ASSUME NEW f \in Fid, f \notin fs, link[f] \cap us = {}
      PROVE  /\ link'[f] = link[f] /\ approved'[f] = approved[f]
             /\ \A u \in link[f] : u \in User /\ groups'[u] = groups[u]
  BY <1>1 DEF Effects, TypeOK
<1>2. GrantsStand'
  <2> SUFFICES ASSUME NEW f \in Fid, granted'[f] # {}
               PROVE  approved'[f] /\ \E u \in link'[f] : u \in exist' /\ granted'[f] \subseteq groups'[u]
    BY DEF GrantsStand
  <2>1. f \notin fs /\ link[f] \cap us = {} /\ granted'[f] = granted[f]
    BY DEF Touch
  <2>2. PICK u \in link[f] : granted[f] \subseteq groups[u] /\ approved[f]
    BY <2>1 DEF GrantsStand, DecisionsStand
  <2>3. u \in link'[f] /\ u \in User /\ groups'[u] = groups[u] /\ approved'[f]
    BY <1>1, <2>1, <2>2
  <2>4. u \in exist'
    BY <2>1, <2>2, <2>3 DEF GroupsKnown
  <2>5. QED BY <2>1, <2>2, <2>3, <2>4
<1>3. RevokesStand'
  <2> SUFFICES ASSUME NEW f \in shut'
               PROVE  /\ ~approved'[f]
                      /\ \A u \in link'[f] : groups'[u] \cap Managed = {}
                      /\ \A s \in live' : s.fid = f => s.loose
    BY DEF RevokesStand
  <2>1. f \in Fid /\ f \in shut /\ f \notin fs /\ link[f] \cap us = {}
    BY DEF Touch, TypeOK
  <2>2. ~approved[f] /\ \A u \in link[f] : groups[u] \cap Managed = {}
    BY <2>1 DEF DecisionsStand, RevokesStand
  <2>3. \A s \in live' : s.fid = f => s.loose
    BY <2>1, ShutSessions DEF DecisionsStand
  <2>4. QED BY <1>1, <2>1, <2>2, <2>3
<1>4. QED BY <1>2, <1>3 DEF DecisionsStand

\* A user is in groups only while they are there.
LEMMA GroupsStep ==
  ASSUME TypeOK, GroupsKnown, [Next]_vars
  PROVE  GroupsKnown'
<1>1. \/ UNCHANGED <<exist, groups>>
      \/ Delete
      \/ \E gs : \E u \in exist : WriteGroups(u, gs)
      \/ \E f \in Fid, u \in Fresh : CreateUser(f, u)
  <2>1. CASE UNCHANGED vars
    BY <2>1 DEF vars
  <2>2. ASSUME NEW h \in Handler, Login(h) \/ \E f \in Fid : LoginUpsert(h, f)
        PROVE  UNCHANGED userVars \/ \E f \in Fid, u \in Fresh : CreateUser(f, u)
    <3>1. CASE LoginReadLink(h) \/ \E f \in Fid : LoginUpsert(h, f)
      BY <3>1 DEF LoginUpsert, LoginReadLink
    <3>2. CASE LoginLookup(h) \/ LoginPersist(h)
      BY <3>2 DEF LoginLookup, LoginPersist
    <3>3. CASE LoginDecide(h) BY <3>3 DEF LoginDecide
    <3>4. CASE LoginGroups(h) BY <3>4 DEF LoginGroups
    <3>5. CASE LoginIssue(h) BY <3>5 DEF LoginIssue
    <3>6. CASE LoginCreate(h)
      <4>1. PICK f \in req[h].fid : UNCHANGED userVars \/ \E u \in Fresh : CreateUser(f, u)
        BY <3>6 DEF LoginCreate
      <4>2. f \in Fid BY <4>1 DEF TypeOK, Request
      <4>3. QED BY <4>1, <4>2
    <3>7. QED BY <2>2, <3>1, <3>2, <3>3, <3>4, <3>5, <3>6 DEF Login
  <2>3. ASSUME NEW h \in Handler, Grant(h) \/ Edit(h)
        PROVE  UNCHANGED userVars \/ \E gs : \E u \in exist : WriteGroups(u, gs)
    BY <2>3 DEF Grant, GrantRead, GrantFetch, GrantWrite, GrantApprove, Edit, EditRead, EditWrite
  <2>4. ASSUME NEW h \in Handler, Revoke(h)
        PROVE  UNCHANGED userVars \/ \E gs : \E u \in exist : WriteGroups(u, gs)
    BY <2>4 DEF Revoke, RevokeRead, RevokeClose, RevokeFetch, RevokeWrite, RevokeSessions
  <2>5. ASSUME NEW h \in Handler, Relink(h) \/ Deny(h) \/ Approve(h) \/ Abandon(h)
        PROVE  UNCHANGED userVars
    BY <2>5 DEF Relink, LinkCheck, LinkSet, UnlinkSet, UnlinkClose, Deny, Approve, Abandon
  <2>6. QED
    BY <2>1, <2>2, <2>3, <2>4, <2>5 DEF Next
<1>2. CASE UNCHANGED <<exist, groups>>
  BY <1>2 DEF GroupsKnown
<1>3. CASE Delete
  BY <1>3 DEF Delete, GroupsKnown, TypeOK
<1>4. ASSUME NEW u \in exist, NEW gs, WriteGroups(u, gs)
      PROVE  GroupsKnown'
  BY <1>4 DEF WriteGroups, GroupsKnown, TypeOK
<1>5. ASSUME NEW f \in Fid, NEW u \in Fresh, CreateUser(f, u)
      PROVE  GroupsKnown'
  BY <1>5 DEF CreateUser, Fresh, GroupsKnown, TypeOK
<1>6. QED
  BY <1>1, <1>2, <1>3, <1>4, <1>5

\* A step that neither grants nor revokes ends where nothing is claimed.
LEMMA LoginDoes ==
  ASSUME TypeOK, GroupsKnown, NEW h \in Handler, Login(h) \/ \E f \in Fid : LoginUpsert(h, f)
  PROVE  \E r, fs, us : r.pc \notin WordPhase /\ Does(h, r, fs, us)
<1> DEFINE Fine == \E r, fs, us : r.pc \notin WordPhase /\ Does(h, r, fs, us)
<1>0. req[h] \in Request /\ req[h].fid \subseteq Fid
  BY DEF TypeOK, Request
<1>1. ASSUME NEW r, Go(h, r), r.pc \notin WordPhase, UNCHANGED <<link, approved, groups>> PROVE Fine
  <2>1. Effects({}, {}) BY <1>1 DEF Effects
  <2>2. Does(h, r, {}, {}) BY <1>1, <2>1, GoDoes
  <2>3. QED BY <1>1, <2>2
<1>2. /\ NoRequest.pc \notin WordPhase
      /\ \A f : [NoRequest EXCEPT !.pc = "read", !.fid = {f}].pc \notin WordPhase
      /\ \A p \in LoginPhase : [req[h] EXCEPT !.pc = p].pc \notin WordPhase
      /\ \A us : [req[h] EXCEPT !.pc = "persist", !.user = us].pc \notin WordPhase
      /\ [req[h] EXCEPT !.pc = "decide", !.user = {}].pc \notin WordPhase
      /\ \A us : [req[h] EXCEPT !.pc = "groups", !.user = us, !.stale = FALSE].pc \notin WordPhase
  BY <1>0 DEF NoRequest, Request, WordPhase
<1>4. CASE \E f \in Fid : LoginUpsert(h, f)
  BY <1>1, <1>2, <1>4 DEF LoginUpsert, Finish
<1>5. CASE LoginReadLink(h)
  BY <1>1, <1>2, <1>5 DEF LoginReadLink, Goto, Finish
<1>6. CASE LoginCreate(h)
  <2>1. UNCHANGED groups
    <3>1. ASSUME NEW f \in Fid, NEW u \in Fresh, CreateUser(f, u) PROVE groups' = groups
      <4>1. u \in User /\ groups[u] = {} BY <3>1 DEF Fresh, GroupsKnown
      <4>2. groups' = [groups EXCEPT ![u] = {}] BY <3>1 DEF CreateUser
      <4>3. QED BY <4>1, <4>2 DEF TypeOK
    <3>2. PICK f \in req[h].fid : UNCHANGED userVars \/ \E u \in Fresh : CreateUser(f, u)
      BY <1>6 DEF LoginCreate
    <3>3. QED BY <1>0, <3>1, <3>2
  <2>2. \E r : Go(h, r) /\ r.pc \notin WordPhase
    BY <1>2, <1>6 DEF LoginCreate, Goto, Finish
  <2>3. QED BY <1>1, <1>6, <2>1, <2>2 DEF LoginCreate
<1>7. CASE LoginLookup(h)
  BY <1>1, <1>2, <1>7 DEF LoginLookup, Finish
<1>8. CASE LoginPersist(h)
  <2>1. CASE \E f \in req[h].fid : \E u, r : /\ r.pc \notin WordPhase /\ SetAuthentikLink({f}, {u})
                                              /\ Change(h, r, {f}, {})
    <3>0. PICK f \in req[h].fid : \E u, r : /\ r.pc \notin WordPhase /\ SetAuthentikLink({f}, {u})
                                              /\ Change(h, r, {f}, {})
      BY <2>1
    <3>1. PICK u, r : /\ r.pc \notin WordPhase /\ SetAuthentikLink({f}, {u})
                      /\ Change(h, r, {f}, {})
      BY <3>0
    <3>2. Effects({f}, {})
      BY <1>8, <3>1 DEF Effects, LoginPersist, SetAuthentikLink
    <3>3. QED BY <3>1, <3>2 DEF Does
  <2>2. CASE Finish(h) /\ UNCHANGED <<link, live>>
    BY <1>1, <1>2, <1>8, <2>2 DEF LoginPersist, Finish
  <2>3. QED BY <1>2, <1>8, <2>1, <2>2 DEF LoginPersist, AutoLink
<1>9. CASE LoginDecide(h)
  BY <1>1, <1>2, <1>9 DEF LoginDecide, Finish
<1>10. CASE LoginGroups(h)
  BY <1>1, <1>2, <1>10 DEF LoginGroups, Goto, Finish
<1>11. CASE LoginIssue(h)
  BY <1>1, <1>2, <1>11 DEF LoginIssue, Finish
<1>12. QED BY <1>4, <1>5, <1>6, <1>7, <1>8, <1>9, <1>10, <1>11 DEF Login

\* Nor does one of link, unlink, deny, approve and the users tab.
LEMMA AdminDoes ==
  ASSUME TypeOK, NEW h \in Handler,
         Relink(h) \/ Edit(h) \/ Deny(h) \/ Approve(h) \/ Abandon(h)
  PROVE  \E r, fs, us : r.pc \notin WordPhase /\ Does(h, r, fs, us)
<1> DEFINE Fine == \E r, fs, us : r.pc \notin WordPhase /\ Does(h, r, fs, us)
<1>0. req[h] \in Request /\ req[h].fid \subseteq Fid
  BY DEF TypeOK, Request
<1>1. ASSUME NEW r, Go(h, r), r.pc \notin WordPhase, UNCHANGED <<link, approved, groups>> PROVE Fine
  <2>1. Effects({}, {}) BY <1>1 DEF Effects
  <2>2. Does(h, r, {}, {}) BY <1>1, <2>1, GoDoes
  <2>3. QED BY <1>1, <2>2
<1>2. ASSUME NEW r, NEW fs, NEW us, Change(h, r, fs, us), r.pc \notin WordPhase, Effects(fs, us) PROVE Fine
  BY <1>2 DEF Does
<1>3. /\ NoRequest.pc \notin WordPhase
      /\ [req[h] EXCEPT !.pc = "sessions"].pc \notin WordPhase
      /\ \A f : /\ [NoRequest EXCEPT !.pc = "sessions", !.fid = {f}].pc \notin WordPhase
              /\ [NoRequest EXCEPT !.pc = "unlink-close", !.fid = {f}].pc \notin WordPhase
      /\ \A f, u : [NoRequest EXCEPT !.pc = "link-set", !.fid = {f}, !.user = {u}].pc \notin WordPhase
      /\ \A u, a, x, b : [NoRequest EXCEPT !.pc = "edit-write", !.user = u, !.at = a,
                                          !.seen = x, !.add = b].pc \notin WordPhase
  BY <1>0 DEF NoRequest, Request, WordPhase
<1>4. \A fs, us : UNCHANGED <<approved, groups>> /\ SetAuthentikLink(fs, us) => Effects(fs, {})
  BY DEF SetAuthentikLink, Effects
<1>5. \A fs, b : UNCHANGED <<link, groups>> /\ SetApproved(fs, b) => Effects(fs, {})
  BY DEF SetApproved, Effects
<1>6. \A u, gs : UNCHANGED <<link, approved>> /\ WriteGroups(u, gs) => Effects({}, {u})
  BY DEF WriteGroups, Effects, TypeOK
<1>7. CASE LinkCheck(h)
  BY <1>1, <1>3, <1>7 DEF LinkCheck
<1>8. CASE LinkSet(h)
  BY <1>1, <1>2, <1>3, <1>4, <1>8 DEF LinkSet, Finish
<1>9. CASE UnlinkSet(h)
  BY <1>2, <1>3, <1>4, <1>9 DEF UnlinkSet
<1>10. CASE UnlinkClose(h)
  BY <1>1, <1>2, <1>3, <1>5, <1>10 DEF UnlinkClose, Finish
<1>11. CASE Deny(h)
  BY <1>2, <1>3, <1>5, <1>11 DEF Deny
<1>12. CASE Approve(h)
  BY <1>2, <1>3, <1>5, <1>12 DEF Approve
<1>13. CASE EditRead(h)
  BY <1>1, <1>3, <1>13 DEF EditRead
<1>14. CASE EditWrite(h)
  BY <1>1, <1>2, <1>3, <1>6, <1>14 DEF EditWrite, Finish
<1>15. CASE Abandon(h)
  BY <1>1, <1>3, <1>15 DEF Abandon, Finish
<1>16. QED BY <1>7, <1>8, <1>9, <1>10, <1>11, <1>12, <1>13, <1>14, <1>15 DEF Relink, Edit

\* A request that is elsewhere claims nothing.
LEMMA NothingHeld ==
  ASSUME NEW h \in Handler, req'[h].pc \notin WordPhase
  PROVE  Holding(req[h])'
BY DEF Holding, WordPhase

\* A grant's own step leaves what it claims true.
LEMMA GrantDoes ==
  ASSUME TypeOK, GroupsKnown, WorkHolds, NEW h \in Handler,
         GrantRead(h) \/ GrantFetch(h) \/ GrantWrite(h)
  PROVE  /\ \E r, fs, us : Does(h, r, fs, us)
         /\ ~req'[h].stale => Holding(req[h])'
<1> DEFINE Claim == ~req'[h].stale => Holding(req[h])'
<1> DEFINE Fine == (\E r, fs, us : Does(h, r, fs, us)) /\ Claim
<1>0. /\ req[h] \in Request /\ req[h].fid \subseteq Fid /\ req[h].user \subseteq User
      /\ \A u, v \in req[h].user : ~req[h].stale /\ req[h].pc \in GrantPhase /\ req[h].fid # {} => u = v
  <2>1. req[h] \in Request /\ req[h].fid \subseteq Fid /\ req[h].user \subseteq User
    BY DEF TypeOK, Request
  <2>2. ASSUME ~req[h].stale, req[h].pc \in GrantPhase, NEW f \in req[h].fid,
               NEW u \in req[h].user, NEW v \in req[h].user
        PROVE  u = v
    <3>1. link[f] = req[h].user BY <2>2 DEF WorkHolds, Holding, WordPhase
    <3>2. QED BY <2>1, <2>2, <3>1 DEF TypeOK
  <2>3. QED BY <2>1, <2>2
<1>1. ASSUME NEW r, Go(h, r), UNCHANGED <<link, approved, groups>>,
             r.stale \/ r.pc \notin WordPhase \/ (req' = [req EXCEPT ![h] = r] => Holding(req[h])')
      PROVE  Fine
  <2>1. Effects({}, {}) BY <1>1 DEF Effects
  <2>2. Does(h, r, {}, {}) BY <1>1, <2>1, GoDoes
  <2>3. req'[h] = r BY <2>2, DoesMine
  <2>4. QED BY <1>1, <2>2, <2>3, NothingHeld DEF Go
<1>2. NoRequest.pc \notin WordPhase
  BY DEF NoRequest, WordPhase
<1>3. CASE GrantRead(h)
  <2>1. PICK f \in rows, g \in Managed :
           /\ link[f] # {}
           /\ Go(h, [NoRequest EXCEPT !.pc = "add", !.fid = {f}, !.user = link[f], !.at = {g}])
    BY <1>3 DEF GrantRead
  <2>2. PICK r : r = [NoRequest EXCEPT !.pc = "add", !.fid = {f}, !.user = link[f], !.at = {g}]
    OBVIOUS
  <2>3. r.pc = "add" /\ r.fid = {f} /\ r.user = link[f]
    BY <2>2 DEF NoRequest
  <2>4. req' = [req EXCEPT ![h] = r] => Holding(req[h])'
    <3>1. SUFFICES ASSUME req' = [req EXCEPT ![h] = r] PROVE Holding(req[h])'
      OBVIOUS
    <3>2. req'[h] = r BY <3>1 DEF TypeOK
    <3>3. link' = link BY <1>3 DEF GrantRead
    <3>4. QED BY <2>1, <2>3, <3>2, <3>3 DEF Holding
  <2>5. QED BY <1>1, <1>3, <2>1, <2>2, <2>4 DEF GrantRead
<1>4. CASE GrantFetch(h)
  <2>0. req[h].pc = "add" /\ UNCHANGED <<link, approved, groups>>
    BY <1>4 DEF GrantFetch
  <2>1. CASE Finish(h)
    BY <1>1, <1>2, <2>0, <2>1 DEF Finish
  <2>2. ASSUME NEW u \in req[h].user, req[h].at \subseteq groups[u], Goto(h, "approve")
        PROVE  Fine
    <3>1. PICK r : r = [req[h] EXCEPT !.pc = "approve"]
      OBVIOUS
    <3>2. /\ r.pc = "approve" /\ r.fid = req[h].fid /\ r.user = req[h].user /\ r.at = req[h].at
          /\ r.stale = req[h].stale
      BY <1>0, <3>1 DEF Request
    <3>3. ASSUME ~r.stale, req' = [req EXCEPT ![h] = r] PROVE Holding(req[h])'
      <4>1. req'[h] = r BY <3>3 DEF TypeOK
      <4>2. Holding(req[h]) BY <3>2, <3>3 DEF WorkHolds
      <4>3. \A f \in r.fid : r.user = {u} BY <1>0, <2>0, <2>2, <3>2, <3>3
      <4>4. QED BY <2>0, <2>2, <3>2, <4>1, <4>2, <4>3 DEF Holding, WordPhase
    <3>4. QED BY <1>1, <2>0, <2>2, <3>1, <3>3 DEF Goto
  <2>3. ASSUME NEW u \in req[h].user, Go(h, [req[h] EXCEPT !.pc = "add-write", !.seen = groups[u]])
        PROVE  Fine
    <3>1. PICK r : r = [req[h] EXCEPT !.pc = "add-write", !.seen = groups[u]]
      OBVIOUS
    <3>2. r.pc = "add-write" /\ r.fid = req[h].fid /\ r.user = req[h].user /\ r.stale = req[h].stale
      BY <1>0, <3>1 DEF Request
    <3>3. ASSUME ~r.stale, req' = [req EXCEPT ![h] = r] PROVE Holding(req[h])'
      <4>1. req'[h] = r BY <3>3 DEF TypeOK
      <4>2. Holding(req[h]) BY <3>2, <3>3 DEF WorkHolds
      <4>3. QED BY <2>0, <3>2, <4>1, <4>2 DEF Holding, WordPhase
    <3>4. QED BY <1>1, <2>0, <2>3, <3>1, <3>3
  <2>4. QED BY <1>4, <2>1, <2>2, <2>3 DEF GrantFetch
<1>5. CASE GrantWrite(h)
  <2>0. req[h].pc = "add-write" /\ UNCHANGED <<link, approved>>
    BY <1>5 DEF GrantWrite
  <2>1. CASE Finish(h) /\ UNCHANGED userVars
    BY <1>1, <1>2, <2>0, <2>1 DEF Finish
  <2>2. ASSUME NEW u \in req[h].user, WriteGroups(u, req[h].seen \cup req[h].at),
               NEW r, Change(h, r, {}, {u})
        PROVE  Does(h, r, {}, {u}) /\ groups'[u] = req[h].seen \cup req[h].at
    <3>1. groups' = [groups EXCEPT ![u] = req[h].seen \cup req[h].at]
      BY <2>2 DEF WriteGroups
    <3>2. Effects({}, {u}) BY <2>0, <3>1 DEF Effects, TypeOK
    <3>3. QED BY <1>0, <2>2, <3>1, <3>2 DEF Does, TypeOK
  <2>3. ASSUME NEW u \in req[h].user, WriteGroups(u, req[h].seen \cup req[h].at),
               Change(h, NoRequest, {}, {u})
        PROVE  Fine
    BY <1>2, <2>2, <2>3, DoesMine, NothingHeld
  <2>4. ASSUME NEW u \in req[h].user, WriteGroups(u, req[h].seen \cup req[h].at),
               Change(h, [req[h] EXCEPT !.pc = "approve"], {}, {u})
        PROVE  Fine
    <3>1. PICK r : r = [req[h] EXCEPT !.pc = "approve"]
      OBVIOUS
    <3>2. /\ r.pc = "approve" /\ r.fid = req[h].fid /\ r.user = req[h].user /\ r.at = req[h].at
          /\ r.stale = req[h].stale
      BY <1>0, <3>1 DEF Request
    <3>3. Does(h, r, {}, {u}) /\ groups'[u] = req[h].seen \cup req[h].at
      BY <2>2, <2>4, <3>1
    <3>4. req'[h] = r BY <3>3, DoesMine
    <3>5. ASSUME ~r.stale PROVE Holding(req[h])'
      <4>2. Holding(req[h]) BY <3>2, <3>5 DEF WorkHolds
      <4>3. \A f \in r.fid : r.user = {u} BY <1>0, <2>0, <2>4, <3>2, <3>5
      <4>4. QED BY <2>0, <3>2, <3>3, <3>4, <4>2, <4>3 DEF Holding, WordPhase
    <3>6. QED BY <3>3, <3>4, <3>5
  <2>5. QED BY <1>5, <2>1, <2>3, <2>4 DEF GrantWrite
<1>6. QED BY <1>3, <1>4, <1>5

\* So does a revoke's.
LEMMA RevokeDoes ==
  ASSUME TypeOK, GroupsKnown, WorkHolds, NEW h \in Handler,
         RevokeRead(h) \/ RevokeClose(h) \/ RevokeFetch(h) \/ RevokeWrite(h)
  PROVE  /\ \E r, fs, us : Does(h, r, fs, us)
         /\ ~req'[h].stale => Holding(req[h])'
<1> DEFINE Claim == ~req'[h].stale => Holding(req[h])'
<1> DEFINE Fine == (\E r, fs, us : Does(h, r, fs, us)) /\ Claim
<1>0. /\ req[h] \in Request /\ req[h].fid \subseteq Fid /\ req[h].user \subseteq User
      /\ req[h].fid \in {{}} \cup {{f} : f \in Fid}
      /\ \A u, v \in req[h].user : ~req[h].stale /\ req[h].pc \in WordPhase /\ req[h].fid # {} => u = v
  <2>1. /\ req[h] \in Request /\ req[h].fid \subseteq Fid /\ req[h].user \subseteq User
        /\ req[h].fid \in {{}} \cup {{f} : f \in Fid}
    BY DEF TypeOK, Request
  <2>2. ASSUME ~req[h].stale, req[h].pc \in WordPhase, NEW f \in req[h].fid,
               NEW u \in req[h].user, NEW v \in req[h].user
        PROVE  u = v
    <3>1. link[f] = req[h].user BY <2>2 DEF WorkHolds, Holding
    <3>2. QED BY <2>1, <2>2, <3>1 DEF TypeOK
  <2>3. QED BY <2>1, <2>2
<1>1. ASSUME NEW r, Go(h, r), UNCHANGED <<link, approved, groups>>,
             r.stale \/ r.pc \notin WordPhase \/ (req' = [req EXCEPT ![h] = r] => Holding(req[h])')
      PROVE  Fine
  <2>1. Effects({}, {}) BY <1>1 DEF Effects
  <2>2. Does(h, r, {}, {}) BY <1>1, <2>1, GoDoes
  <2>3. req'[h] = r BY <2>2, DoesMine
  <2>4. QED BY <1>1, <2>2, <2>3, NothingHeld DEF Go
<1>2. NoRequest.pc \notin WordPhase
  BY DEF NoRequest, WordPhase
<1>3. CASE RevokeRead(h)
  <2>1. PICK f \in rows :
           Go(h, [NoRequest EXCEPT !.pc = "close", !.fid = {f}, !.user = link[f], !.todo = Managed])
    BY <1>3 DEF RevokeRead
  <2>2. PICK r : r = [NoRequest EXCEPT !.pc = "close", !.fid = {f}, !.user = link[f], !.todo = Managed]
    OBVIOUS
  <2>3. r.pc = "close" /\ r.fid = {f} /\ r.user = link[f] /\ r.todo = Managed
    BY <2>2 DEF NoRequest
  <2>4. ASSUME req' = [req EXCEPT ![h] = r] PROVE Holding(req[h])'
    <3>1. req'[h] = r BY <2>4 DEF TypeOK
    <3>2. link' = link BY <1>3 DEF RevokeRead
    <3>3. QED BY <2>3, <3>1, <3>2 DEF Holding
  <2>5. QED BY <1>1, <1>3, <2>1, <2>2, <2>4 DEF RevokeRead
<1>4. CASE RevokeClose(h)
  <2>0. req[h].pc = "close" /\ UNCHANGED <<link, groups>>
    BY <1>4 DEF RevokeClose
  <2>1. CASE Finish(h) /\ UNCHANGED approved
    BY <1>1, <1>2, <2>0, <2>1 DEF Finish
  <2>2. ASSUME SetApproved(req[h].fid, FALSE), NEW r, Change(h, r, req[h].fid, {})
        PROVE  Does(h, r, req[h].fid, {}) /\ \A f \in req[h].fid : ~approved'[f]
    BY <1>0, <2>0, <2>2 DEF SetApproved, Does, Effects
  <2>3. CASE SetApproved(req[h].fid, FALSE) /\ Change(h, NoRequest, req[h].fid, {})
    BY <1>2, <2>2, <2>3, DoesMine, NothingHeld
  <2>4. PICK r : r = [req[h] EXCEPT !.pc = IF req[h].user = {} THEN "revoke-sessions" ELSE "remove"]
    OBVIOUS
  <2>5. CASE SetApproved(req[h].fid, FALSE) /\ Change(h, r, req[h].fid, {})
    <3>1. /\ r.fid = req[h].fid /\ r.user = req[h].user /\ r.todo = req[h].todo /\ r.stale = req[h].stale
          /\ r.pc = IF req[h].user = {} THEN "revoke-sessions" ELSE "remove"
      BY <1>0, <2>4 DEF Request
    <3>2. Does(h, r, req[h].fid, {}) /\ \A f \in req[h].fid : ~approved'[f]
      BY <2>2, <2>5
    <3>3. req'[h] = r BY <3>2, DoesMine
    <3>4. ASSUME ~r.stale PROVE Holding(req[h])'
      <4>1. Holding(req[h]) BY <3>1, <3>4 DEF WorkHolds
      <4>2. \A f \in r.fid : link[f] = r.user /\ Managed \subseteq r.todo
        BY <2>0, <3>1, <4>1 DEF Holding, WordPhase
      <4>3. QED BY <2>0, <3>1, <3>2, <3>3, <4>2 DEF Holding
    <3>5. QED BY <3>2, <3>3, <3>4
  <2>6. QED BY <1>4, <2>1, <2>3, <2>4, <2>5 DEF RevokeClose
<1>5. CASE RevokeFetch(h)
  <2>0. req[h].pc = "remove" /\ UNCHANGED <<link, approved, groups>>
    BY <1>5 DEF RevokeFetch
  <2>1. ~req[h].stale => /\ \A f \in req[h].fid : link[f] = req[h].user /\ ~approved[f]
                         /\ req[h].fid # {} => \A u \in req[h].user :
                                                  groups[u] \cap Managed \subseteq req[h].todo
    BY <2>0 DEF WorkHolds, Holding, WordPhase
  <2>2. ASSUME \/ req[h].todo = {}
               \/ \E u \in req[h].user : u \notin exist,
               Goto(h, "revoke-sessions")
        PROVE  Fine
    <3>1. PICK r : r = [req[h] EXCEPT !.pc = "revoke-sessions"]
      OBVIOUS
    <3>2. /\ r.pc = "revoke-sessions" /\ r.fid = req[h].fid /\ r.user = req[h].user
          /\ r.stale = req[h].stale
      BY <1>0, <3>1 DEF Request
    <3>3. ASSUME ~r.stale, req' = [req EXCEPT ![h] = r] PROVE Holding(req[h])'
      <4>1. req'[h] = r BY <3>3 DEF TypeOK
      <4>2. ASSUME NEW f \in r.fid, NEW u \in r.user PROVE groups[u] \cap Managed = {}
        <5>1. CASE req[h].todo = {} BY <2>1, <3>2, <3>3, <4>2, <5>1
        <5>2. CASE \E v \in req[h].user : v \notin exist
          <6>1. u \notin exist
            BY <1>0, <2>0, <3>2, <3>3, <4>2, <5>2 DEF WordPhase
          <6>2. QED BY <1>0, <3>2, <4>2, <6>1 DEF GroupsKnown
        <5>3. QED BY <2>2, <5>1, <5>2
      <4>3. QED BY <2>0, <2>1, <3>2, <3>3, <4>1, <4>2 DEF Holding
    <3>4. QED BY <1>1, <2>0, <2>2, <3>1, <3>3 DEF Goto
  <2>3. ASSUME NEW u \in req[h].user, NEW g \in req[h].todo, g \notin groups[u],
               Go(h, [req[h] EXCEPT !.todo = @ \ {g}])
        PROVE  Fine
    <3>1. PICK r : r = [req[h] EXCEPT !.todo = @ \ {g}]
      OBVIOUS
    <3>2. /\ r.pc = "remove" /\ r.fid = req[h].fid /\ r.user = req[h].user
          /\ r.stale = req[h].stale /\ r.todo = req[h].todo \ {g}
      BY <1>0, <2>0, <3>1 DEF Request
    <3>3. ASSUME ~r.stale, req' = [req EXCEPT ![h] = r] PROVE Holding(req[h])'
      <4>1. req'[h] = r BY <3>3 DEF TypeOK
      <4>2. \A f \in r.fid, v \in r.user : v = u
        BY <1>0, <2>0, <3>2, <3>3 DEF WordPhase
      <4>3. \A f \in r.fid, v \in r.user : groups[v] \cap Managed \subseteq r.todo
        BY <2>1, <2>3, <3>2, <3>3, <4>2
      <4>4. QED BY <2>0, <2>1, <3>2, <3>3, <4>1, <4>3 DEF Holding
    <3>4. QED BY <1>1, <2>0, <2>3, <3>1, <3>3
  <2>4. ASSUME NEW u \in req[h].user, NEW g \in req[h].todo,
               Go(h, [req[h] EXCEPT !.pc = "remove-write", !.todo = @ \ {g},
                                    !.at = {g}, !.seen = groups[u]])
        PROVE  Fine
    <3>1. PICK r : r = [req[h] EXCEPT !.pc = "remove-write", !.todo = @ \ {g},
                                      !.at = {g}, !.seen = groups[u]]
      OBVIOUS
    <3>2. /\ r.pc = "remove-write" /\ r.fid = req[h].fid /\ r.user = req[h].user
          /\ r.stale = req[h].stale /\ r.todo = req[h].todo \ {g} /\ r.at = {g} /\ r.seen = groups[u]
      BY <1>0, <3>1 DEF Request
    <3>3. ASSUME ~r.stale, req' = [req EXCEPT ![h] = r] PROVE Holding(req[h])'
      <4>1. req'[h] = r BY <3>3 DEF TypeOK
      <4>2. \A f \in r.fid : r.seen \cap Managed \subseteq r.todo \cup r.at
        BY <2>1, <2>4, <3>2, <3>3
      <4>3. QED BY <2>0, <2>1, <3>2, <3>3, <4>1, <4>2 DEF Holding
    <3>4. QED BY <1>1, <2>0, <2>4, <3>1, <3>3
  <2>5. ASSUME NEW left, Go(h, [req[h] EXCEPT !.todo = left, !.stale = TRUE])
        PROVE  Fine
    <3>1. [req[h] EXCEPT !.todo = left, !.stale = TRUE].stale
      BY <1>0 DEF Request
    <3>2. QED BY <1>1, <2>0, <2>5, <3>1
  <2>6. QED BY <1>5, <2>2, <2>3, <2>4, <2>5 DEF RevokeFetch
<1>6. CASE RevokeWrite(h)
  <2>0. req[h].pc = "remove-write" /\ UNCHANGED <<link, approved>>
    BY <1>6 DEF RevokeWrite
  <2>1. ~req[h].stale => \A f \in req[h].fid :
                           /\ link[f] = req[h].user /\ ~approved[f]
                           /\ req[h].seen \cap Managed \subseteq req[h].todo \cup req[h].at
    BY <2>0 DEF WorkHolds, Holding, WordPhase
  <2>2. PICK r : r = [req[h] EXCEPT !.pc = "remove"]
    OBVIOUS
  <2>3. PICK x : x = [req[h] EXCEPT !.pc = "remove", !.stale = TRUE]
    OBVIOUS
  <2>4. /\ r.pc = "remove" /\ r.fid = req[h].fid /\ r.user = req[h].user
        /\ r.stale = req[h].stale /\ r.todo = req[h].todo /\ x.stale
    BY <1>0, <2>2, <2>3 DEF Request
  <2>5. ASSUME NEW u \in req[h].user, WriteGroups(u, req[h].seen \ req[h].at),
               NEW y, Change(h, y, {}, {u})
        PROVE  Does(h, y, {}, {u}) /\ groups'[u] = req[h].seen \ req[h].at
    <3>1. groups' = [groups EXCEPT ![u] = req[h].seen \ req[h].at]
      BY <2>5 DEF WriteGroups
    <3>2. Effects({}, {u}) BY <2>0, <3>1 DEF Effects, TypeOK
    <3>3. QED BY <1>0, <2>5, <3>1, <3>2 DEF Does, TypeOK
  <2>6. ASSUME NEW u \in req[h].user, WriteGroups(u, req[h].seen \ req[h].at), Change(h, r, {}, {u})
        PROVE  Fine
    <3>1. Does(h, r, {}, {u}) /\ groups'[u] = req[h].seen \ req[h].at
      BY <2>5, <2>6
    <3>2. req'[h] = r BY <3>1, DoesMine
    <3>3. ASSUME ~r.stale PROVE Holding(req[h])'
      <4>1. \A f \in r.fid, v \in r.user : v = u
        BY <1>0, <2>0, <2>4, <3>3 DEF WordPhase
      <4>2. \A f \in r.fid, v \in r.user : groups'[v] \cap Managed \subseteq r.todo
        BY <2>1, <2>4, <3>1, <3>3, <4>1
      <4>3. QED BY <2>0, <2>1, <2>4, <3>2, <3>3, <4>2 DEF Holding
    <3>4. QED BY <3>1, <3>2, <3>3
  <2>7. ASSUME NEW u \in req[h].user, WriteGroups(u, req[h].seen \ req[h].at), Change(h, x, {}, {u})
        PROVE  Fine
    BY <2>4, <2>5, <2>7, DoesMine
  <2>8. ASSUME NEW u \in req[h].user, u \notin exist, UNCHANGED userVars, Go(h, r)
        PROVE  Fine
    <3>1. ASSUME ~r.stale, req' = [req EXCEPT ![h] = r] PROVE Holding(req[h])'
      <4>1. req'[h] = r BY <3>1 DEF TypeOK
      <4>2. \A f \in r.fid, v \in r.user : v = u
        BY <1>0, <2>0, <2>4, <3>1 DEF WordPhase
      <4>3. \A f \in r.fid, v \in r.user : groups'[v] = {}
        BY <1>0, <2>8, <4>2 DEF GroupsKnown
      <4>4. QED BY <2>0, <2>1, <2>4, <3>1, <4>1, <4>3 DEF Holding
    <3>2. QED BY <1>1, <2>0, <2>8, <3>1
  <2>9. CASE Go(h, x) /\ UNCHANGED userVars
    BY <1>1, <2>0, <2>4, <2>9
  <2>10. QED BY <1>6, <2>2, <2>3, <2>6, <2>7, <2>8, <2>9 DEF RevokeWrite, Goto
<1>7. QED BY <1>3, <1>4, <1>5, <1>6

\* A step of request h that leaves its own claims true leaves everything true
\* that others hold.
LEMMA MoveKeeps ==
  ASSUME TypeOK, DecisionHolds, WordInv, [Next]_vars, TypeOK', GroupsKnown', NEW h \in Handler,
         \E r, fs, us : Does(h, r, fs, us), ~req'[h].stale => Holding(req[h])'
  PROVE  WordInv'
<1>1. PICK r, fs, us : Does(h, r, fs, us)
  OBVIOUS
<1>2. DecisionsStand'
  BY <1>1, WordsStay DEF Does, Change, WordInv
<1>3. WorkHolds'
  <2> SUFFICES ASSUME NEW g \in Handler, ~req'[g].stale PROVE Holding(req[g])'
    BY DEF WorkHolds
  <2>1. CASE g = h
    BY <2>1
  <2>2. CASE g # h
    <3>1. req'[g] = Noticed({h}, fs, us)[g]
      BY <1>1, <2>2 DEF Does, Change, Noticed
    <3>2. QED BY <1>1, <2>2, <3>1, OthersHold DEF Does, WordInv
  <2>3. QED BY <2>1, <2>2
<1>4. QED BY <1>2, <1>3 DEF WordInv

\* A grant that ends gives its word only for what it has done.
LEMMA ApproveKeeps ==
  ASSUME TypeOK, DecisionHolds, WordInv, [Next]_vars, TypeOK', GroupsKnown', NEW h \in Handler,
         GrantApprove(h)
  PROVE  WordInv'
<1>0. /\ req[h].fid \subseteq Fid /\ req[h].pc = "approve" /\ UNCHANGED <<link, groups, live>>
      /\ NoRequest.pc \notin WordPhase
  BY DEF GrantApprove, TypeOK, Request, NoRequest, WordPhase
<1>1. CASE Finish(h) /\ UNCHANGED approved
  <2>1. Does(h, NoRequest, {}, {})
    BY <1>0, <1>1, GoDoes DEF Effects, Finish
  <2>2. QED BY <1>0, <2>1, DoesMine, NothingHeld, MoveKeeps
<1>2. CASE SetApproved(req[h].fid, TRUE) /\ Change(h, NoRequest, req[h].fid, {})
  <2>1. Does(h, NoRequest, req[h].fid, {})
    BY <1>0, <1>2 DEF Effects, SetApproved, Does
  <2>2. QED BY <1>0, <2>1, DoesMine, NothingHeld, MoveKeeps
<1>3. CASE /\ SetApproved(req[h].fid, TRUE)
           /\ req' = [Noticed({h}, req[h].fid, {}) EXCEPT ![h] = NoRequest]
           /\ shut' = shut \ req[h].fid
           /\ granted' = [f \in Fid |-> IF f \notin req[h].fid THEN granted[f]
                                        ELSE IF req[h].stale THEN {} ELSE req[h].at]
  <2>1. Effects(req[h].fid, {})
    BY <1>0, <1>3 DEF Effects, SetApproved
  <2>2. WorkHolds'
    <3> SUFFICES ASSUME NEW g \in Handler, ~req'[g].stale PROVE Holding(req[g])'
      BY DEF WorkHolds
    <3>1. CASE g = h
      <4>1. req'[g] = NoRequest BY <1>3, <3>1 DEF Noticed
      <4>2. QED BY <1>0, <4>1, NothingHeld
    <3>2. CASE g # h
      <4>1. req'[g] = Noticed({h}, req[h].fid, {})[g] BY <1>3, <3>2 DEF Noticed
      <4>2. QED BY <2>1, <3>2, <4>1, OthersHold DEF WordInv
    <3>3. QED BY <3>1, <3>2
  <2>3. GrantsStand'
    <3> SUFFICES ASSUME NEW f \in Fid, granted'[f] # {}
                 PROVE  approved'[f] /\ \E u \in link'[f] : u \in exist' /\ granted'[f] \subseteq groups'[u]
      BY DEF GrantsStand
    <3>1. /\ \E u \in link[f] : granted'[f] \subseteq groups[u]
          /\ approved'[f]
      <4>1. CASE f \in req[h].fid
        <5>1. ~req[h].stale /\ granted'[f] = req[h].at BY <1>3, <4>1
        <5>2. /\ link[f] = req[h].user /\ req[h].user # {}
              /\ \A u \in req[h].user : req[h].at \subseteq groups[u]
          BY <1>0, <4>1, <5>1 DEF WordInv, WorkHolds, Holding, WordPhase
        <5>3. approved'[f] BY <1>3, <4>1 DEF SetApproved
        <5>4. QED BY <5>1, <5>2, <5>3
      <4>2. CASE f \notin req[h].fid
        <5>1. granted'[f] = granted[f] /\ approved'[f] = approved[f]
          BY <1>3, <2>1, <4>2 DEF Effects
        <5>2. QED BY <5>1 DEF WordInv, DecisionsStand, GrantsStand
      <4>3. QED BY <4>1, <4>2
    <3>2. PICK u \in link[f] : granted'[f] \subseteq groups[u] BY <3>1
    <3>3. u \in User /\ groups'[u] # {} BY <1>0, <3>2 DEF TypeOK
    <3>4. u \in exist' BY <3>3 DEF GroupsKnown
    <3>5. QED BY <1>0, <3>1, <3>2, <3>4
  <2>4. RevokesStand'
    <3> SUFFICES ASSUME NEW f \in shut'
                 PROVE  /\ ~approved'[f]
                        /\ \A u \in link'[f] : groups'[u] \cap Managed = {}
                        /\ \A s \in live' : s.fid = f => s.loose
      BY DEF RevokesStand
    <3>1. f \in Fid /\ f \in shut /\ f \notin req[h].fid BY <1>3 DEF TypeOK
    <3>2. approved'[f] = approved[f] BY <2>1, <3>1 DEF Effects
    <3>3. QED BY <1>0, <3>1, <3>2 DEF WordInv, DecisionsStand, RevokesStand
  <2>5. QED BY <2>2, <2>3, <2>4 DEF WordInv, DecisionsStand
<1>4. QED BY <1>1, <1>2, <1>3 DEF GrantApprove

\* So does a revoke that ends.
LEMMA LockoutKeeps ==
  ASSUME TypeOK, DecisionHolds, WordInv, [Next]_vars, TypeOK', GroupsKnown', NEW h \in Handler,
         RevokeSessions(h)
  PROVE  WordInv'
<1>0. /\ req[h].pc \in {"sessions", "revoke-sessions"} /\ UNCHANGED <<link, approved, groups, exist>>
      /\ NoRequest.pc \notin WordPhase
  BY DEF RevokeSessions, NoRequest, WordPhase
<1>1. CASE Finish(h)
  <2>1. Does(h, NoRequest, {}, {})
    BY <1>0, <1>1, GoDoes DEF Effects, Finish
  <2>2. QED BY <1>0, <2>1, DoesMine, NothingHeld, MoveKeeps
<1>2. CASE /\ live' = {s \in live : s.fid \notin req[h].fid}
           /\ req' = [req EXCEPT ![h] = NoRequest] /\ UNCHANGED granted
           /\ shut' = IF req[h].pc = "revoke-sessions" /\ ~req[h].stale
                      THEN shut \cup req[h].fid ELSE shut
  <2>1. WorkHolds'
    <3> SUFFICES ASSUME NEW g \in Handler, ~req'[g].stale PROVE Holding(req[g])'
      BY DEF WorkHolds
    <3>1. CASE g = h
      BY <1>0, <1>2, <3>1, NothingHeld DEF TypeOK
    <3>2. CASE g # h
      <4>1. req'[g] = req[g] BY <1>2, <3>2 DEF TypeOK
      <4>2. QED BY <1>0, <4>1 DEF WordInv, WorkHolds, Holding
    <3>3. QED BY <3>1, <3>2
  <2>2. GrantsStand'
    BY <1>0, <1>2 DEF GrantsStand, WordInv, DecisionsStand
  <2>3. RevokesStand'
    <3> SUFFICES ASSUME NEW f \in shut'
                 PROVE  /\ ~approved'[f]
                        /\ \A u \in link'[f] : groups'[u] \cap Managed = {}
                        /\ \A s \in live' : s.fid = f => s.loose
      BY DEF RevokesStand
    <3>1. CASE f \in shut
      BY <1>0, <1>2, <3>1 DEF WordInv, DecisionsStand, RevokesStand
    <3>2. CASE f \notin shut
      <4>1. req[h].pc = "revoke-sessions" /\ ~req[h].stale /\ f \in req[h].fid
        BY <1>2, <3>2
      <4>2. /\ link[f] = req[h].user /\ ~approved[f]
            /\ \A u \in req[h].user : groups[u] \cap Managed = {}
        BY <4>1 DEF WordInv, WorkHolds, Holding, WordPhase
      <4>3. QED BY <1>0, <1>2, <4>1, <4>2
    <3>3. QED BY <3>1, <3>2
  <2>4. QED BY <2>1, <2>2, <2>3 DEF WordInv, DecisionsStand
<1>3. QED BY <1>1, <1>2 DEF RevokeSessions

\* A deleted user takes with them what was said of them.
LEMMA DeleteKeeps ==
  ASSUME TypeOK, DecisionHolds, WordInv, [Next]_vars, TypeOK', GroupsKnown', Delete
  PROVE  WordInv'
<1>1. PICK u \in exist : /\ groups' = [groups EXCEPT ![u] = {}]
                        /\ req' = Noticed({}, {}, {u}) /\ Touch({}, {u})
  BY DEF Delete
<1>2. Effects({}, {u})
  BY <1>1 DEF Effects, Delete, TypeOK
<1>3. DecisionsStand'
  BY <1>1, <1>2, WordsStay DEF WordInv
<1>4. \A g \in Handler : ~req'[g].stale => Holding(req[g])'
  BY <1>1, <1>2, OthersHold DEF WordInv
<1>5. QED BY <1>3, <1>4 DEF WordInv, WorkHolds

\* Every step keeps what grants and revokes rest on.
LEMMA WordStep ==
  ASSUME Inv, WordInv, [Next]_vars
  PROVE  WordInv'
<1>0. TypeOK /\ DecisionHolds /\ TypeOK' /\ GroupsKnown'
  BY TypeStep, GroupsStep DEF Inv, WordInv
<1>1. CASE UNCHANGED vars
  BY <1>1 DEF vars, WordInv, GroupsKnown, WorkHolds, Holding, DecisionsStand, GrantsStand, RevokesStand
<1>2. CASE Delete
  BY <1>0, <1>2, DeleteKeeps
<1>3. ASSUME NEW h \in Handler, \E r, fs, us : r.pc \notin WordPhase /\ Does(h, r, fs, us)
      PROVE  WordInv'
  <2>1. PICK r, fs, us : r.pc \notin WordPhase /\ Does(h, r, fs, us)
    BY <1>3
  <2>2. Holding(req[h])'
    BY <1>0, <2>1, DoesMine, NothingHeld
  <2>3. QED BY <1>0, <2>1, <2>2, MoveKeeps
<1>4. ASSUME NEW h \in Handler, Login(h) \/ \E f \in Fid : LoginUpsert(h, f)
      PROVE  WordInv'
  BY <1>0, <1>3, <1>4, LoginDoes DEF WordInv
<1>5. ASSUME NEW h \in Handler, Relink(h) \/ Edit(h) \/ Deny(h) \/ Approve(h) \/ Abandon(h)
      PROVE  WordInv'
  BY <1>0, <1>3, <1>5, AdminDoes
<1>6. ASSUME NEW h \in Handler, GrantRead(h) \/ GrantFetch(h) \/ GrantWrite(h)
      PROVE  WordInv'
  BY <1>0, <1>6, GrantDoes, MoveKeeps DEF WordInv
<1>7. ASSUME NEW h \in Handler, RevokeRead(h) \/ RevokeClose(h) \/ RevokeFetch(h) \/ RevokeWrite(h)
      PROVE  WordInv'
  BY <1>0, <1>7, RevokeDoes, MoveKeeps DEF WordInv
<1>8. QED
  BY <1>0, <1>1, <1>2, <1>4, <1>5, <1>6, <1>7, ApproveKeeps, LockoutKeeps DEF Next, Grant, Revoke

-----------------------------------------------------------------------------
(* The theorems                                                            *)

\* Whatever the sizes and bounds, and however requests, logins and failed calls
\* interleave, the handlers of commander_linking.go and kaine_admin_commanders.go
\* keep Inv.
THEOREM Invariance == Spec => []Inv
<1>1. Inv /\ [Next]_vars => Inv'
  BY TypeStep, NamesStep, OwnUserStep, LinksStep, DecisionStep, LinkedStep, SessionsStep DEF Inv
<1>2. QED
  BY InitInv, <1>1, PTL DEF Spec

\* The rows, Authentik's users and the requests in hand keep their types, a row
\* linked to one user at most among them.
THEOREM Typed == Spec => []TypeOK
BY Invariance, PTL DEF Inv

\* commander_linking.go:44-98: no interleaving of logins with an admin's linking
\* links a commander to a user nobody chose, or one user to two commanders.
THEOREM LinksAreKnown == Spec => []LinksTell
BY Invariance, PTL DEF Inv

\* kaine_admin_commanders.go:327-583: a session that no lockout missed in one of
\* the recorded ways is covered by the row as it is, or about to be revoked.
THEOREM SessionsAreCovered == Spec => []SessionsMatch
BY Invariance, PTL DEF Inv

\* commander_linking.go:16-18: a login none of whose calls fails leaves the
\* commander linked, unless another request changed the row meanwhile, an admin gave
\* the user of that name to another commander, or an operator deleted it.
THEOREM LoginsLink == Spec => LoginLinks
<1>1. Inv /\ [Next]_vars =>
        [\A h \in Handler :
            req[h].pc \in LoginPhase /\ req'[h].pc = "idle" /\ ~req[h].stale /\ faults' = faults
              => \A f \in req[h].fid : link'[f] # {} \/ Taken(f) \/ Shadow(f) = {}]_vars
  BY LoginEnds
<1>2. QED BY Invariance, <1>1, PTL DEF Spec, LoginLinks

\* kaine_admin_commanders.go:236-242, :327-332: until a row or its user's groups
\* change again, a grant nothing got in the way of is in force, and after such a revoke the
\* commander has no approval, no managed group and no session but loose ones.
THEOREM DecisionsAreKept == Spec => []DecisionsStand
<1>1. Init => WordInv
  BY UserAssumption DEF Init, NoRequest, WordInv, GroupsKnown, WorkHolds, Holding, DecisionsStand,
     GrantsStand, RevokesStand
<1>2. Inv /\ WordInv /\ [Next]_vars => WordInv'
  BY WordStep
<1>3. WordInv => DecisionsStand
  BY DEF WordInv
<1>4. QED BY Invariance, <1>1, <1>2, <1>3, PTL DEF Spec
=============================================================================
