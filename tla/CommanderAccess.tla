--------------------------- MODULE CommanderAccess --------------------------
(***************************************************************************)
(* Who may log in, and as whom: the link of a commander's row to a user in *)
(* Authentik, the row's approved column and the user's groups              *)
(* (internal/httpapi/commander_linking.go, commander_allowlist.go,         *)
(* kaine_admin_commanders.go, the user endpoint of kaine.go and            *)
(* internal/authentik).                                                    *)
(*                                                                         *)
(* Row and user live in two systems with no transaction over both, and     *)
(* Authentik's groups are changed by reading a user's list and writing it  *)
(* back.  Every request runs in a goroutine of its own; each action below  *)
(* is one call to Postgres or Authentik, or a read and the branch it       *)
(* decides.  Sessions are kept as far as revokeAllSessions and the link    *)
(* they were issued under go: CommanderSessions has their life.            *)
(***************************************************************************)
EXTENDS Naturals, FiniteSets

LOCAL INSTANCE TLC

CONSTANTS
    Fid,         \* commanders
    User,        \* uuids of Authentik users, past and to come
    Human,       \* users that are there from the start
    Group,       \* Authentik groups that groupScopes knows (authz/groups.go)
    Managed,     \* managedCopilotGroups
    HumanGroups, \* the groups those users are in at first
    Handler,     \* goroutines serving requests
    MaxOps,      \* bound on admin requests and deletions
    MaxFaults    \* bound on failed calls and abandoned requests

ASSUME UserAssumption  == Human \subseteq User
ASSUME GroupAssumption == Managed \subseteq Group /\ HumanGroups \subseteq Group
ASSUME BoundAssumption == MaxOps \in Nat /\ MaxFaults \in Nat

VARIABLES
    rows,      \* commanders that have a row
    link,      \* authentik_user_id, a set of at most one
    approved,  \* approved
    exist,     \* Authentik's users
    gone,      \* ... and those deleted
    owner,     \* a user's name when that is a commander's fid, else {}
    groups,    \* a user's groups
    live,      \* sessions that work
    req,       \* the request each goroutine is serving
    ops, faults,  \* used up so far (bounds the model)
    assigned,  \* history: the links admins asked for
    granted,   \* history: grants nothing has disturbed since they replied
    shut       \* history: commanders whose revoke nothing has disturbed since

rowVars   == <<rows, link, approved>>
userVars  == <<exist, gone, owner, groups>>
boundVars == <<ops, faults>>
wordVars  == <<granted, shut>>
vars == <<rowVars, userVars, live, req, boundVars, assigned, wordVars>>

LoginPhase  == {"read", "create", "lookup", "persist", "decide", "groups", "issue"}
GrantPhase  == {"add", "add-write", "approve"}
RevokePhase == {"close", "remove", "remove-write"}
\* Phases in which the row has changed and revokeAllSessions is still to come.
LockPhase   == {"remove", "remove-write", "revoke-sessions", "unlink-close", "sessions"}
Request == [pc : {"idle", "link-set", "edit-write"} \cup LoginPhase \cup GrantPhase
                   \cup RevokePhase \cup LockPhase,
            fid : {{}} \cup {{f} : f \in Fid}, user : SUBSET User,
            todo : SUBSET Group, at : SUBSET Group, seen : SUBSET Group,
            add : BOOLEAN, stale : BOOLEAN]
NoRequest == [pc |-> "idle", fid |-> {}, user |-> {}, todo |-> {}, at |-> {},
              seen |-> {}, add |-> FALSE, stale |-> FALSE]

\* user is who the session's scopes came from; loose says that the session
\* got away from revokeAllSessions in one of the ways the actions record.
Session == [fid : Fid, user : User, loose : BOOLEAN]

\* What the program and Authentik keep has its type; a row is linked to one
\* user at most, and a deleted user stays deleted.
TypeOK ==
    /\ rows \subseteq Fid
    /\ link \in [Fid -> SUBSET User]
    /\ \A f \in Fid : \A u, v \in link[f] : u = v
    /\ approved \in [Fid -> BOOLEAN]
    /\ exist \subseteq User /\ gone \subseteq User /\ exist \cap gone = {}
    /\ owner \in [User -> SUBSET Fid] /\ groups \in [User -> SUBSET Group]
    /\ live \subseteq Session
    /\ req \in [Handler -> Request]
    /\ ops \in Nat /\ faults \in Nat
    /\ assigned \subseteq Fid \X User
    /\ granted \in [Fid -> SUBSET Group] /\ shut \subseteq Fid

\* No commander has logged in yet.
Init ==
    /\ rows = {} /\ link = [f \in Fid |-> {}] /\ approved = [f \in Fid |-> FALSE]
    /\ exist = Human /\ gone = {}
    /\ owner = [u \in User |-> {}]
    /\ groups = [u \in User |-> IF u \in Human THEN HumanGroups ELSE {}]
    /\ live = {}
    /\ req = [h \in Handler |-> NoRequest]
    /\ ops = 0 /\ faults = 0
    /\ assigned = {} /\ granted = [f \in Fid |-> {}] /\ shut = {}

Fault   == faults < MaxFaults /\ faults' = faults + 1 /\ UNCHANGED ops
NoFault == UNCHANGED boundVars
Accept(h) == req[h].pc = "idle" /\ ops < MaxOps /\ ops' = ops + 1 /\ UNCHANGED faults
\* A request whose first call does its work and whose answer is lost.
AcceptLost(h) == /\ req[h].pc = "idle"
                 /\ ops < MaxOps /\ ops' = ops + 1
                 /\ faults < MaxFaults /\ faults' = faults + 1

-----------------------------------------------------------------------------
(* Requests, and what one request does to the others'                      *)

\* A step that changes nothing others can see.
Go(h, r)  == req' = [req EXCEPT ![h] = r] /\ UNCHANGED wordVars
Goto(h, p) == Go(h, [req[h] EXCEPT !.pc = p])
Finish(h)  == Go(h, NoRequest)

\* A step that changes rows of fs, or groups of the users us: a request that
\* has read them goes on with what it read.
Disturbed(r, fs, us) == \/ r.fid \cap fs # {}
                        \/ r.pc \notin LoginPhase /\ r.user \cap us # {}
Noticed(mine, fs, us) ==
    [g \in Handler |-> IF g \notin mine /\ Disturbed(req[g], fs, us)
                       THEN [req[g] EXCEPT !.stale = TRUE] ELSE req[g]]
Touch(fs, us) ==
    LET hit == fs \cup {f \in Fid : link[f] \cap us # {}} IN
    /\ granted' = [f \in Fid |-> IF f \in hit THEN {} ELSE granted[f]]
    /\ shut' = shut \ hit
Change(h, r, fs, us) ==
    /\ req' = [Noticed({h}, fs, us) EXCEPT ![h] = r]
    /\ Touch(fs, us)

\* Sessions of fs that nobody is going to revoke any more.
Loosen(fs) == live' = {IF s.fid \in fs THEN [s EXCEPT !.loose = TRUE] ELSE s : s \in live}

\* Mutant: a table without the index.
ConflictMutant(f, u) == FALSE

\* SetAuthentikLink: the unique index refuses a user another row has.
Conflict(f, u) == \E g \in Fid \ {f} : u \in link[g]
SetAuthentikLink(fs, us) == link' = [f \in Fid |-> IF f \in fs THEN us ELSE link[f]]
SetApproved(fs, b) == approved' = [f \in Fid |-> IF f \in fs THEN b ELSE approved[f]]

Shadow(f) == {u \in exist : f \in owner[u]}
Fresh     == User \ (exist \cup gone)

-----------------------------------------------------------------------------
(* The Frontier callbacks, browser and desktop                             *)

\* UpsertCommander; a new row is neither linked nor approved.
LoginUpsert(h, f) ==
    /\ req[h].pc = "idle"
    /\ rows' = rows \cup {f}
    /\ \/ NoFault /\ Go(h, [NoRequest EXCEPT !.pc = "read", !.fid = {f}])
       \/ Fault /\ Finish(h)
    /\ UNCHANGED <<link, approved, userVars, live, assigned>>

\* ensureCommanderLink: a linked row needs nothing.
LoginReadLink(h) ==
    /\ req[h].pc = "read"
    /\ \E f \in req[h].fid :
         \/ NoFault /\ link[f] # {} /\ Goto(h, "decide")
         \/ NoFault /\ link[f] = {} /\ Goto(h, "create")
         \/ Fault /\ Finish(h)
    /\ UNCHANGED <<rowVars, userVars, live, assigned>>

\* CreateUser under the commander's fid, which Authentik may do although its
\* answer is lost.
CreateUser(f, u) ==
    /\ u \in Fresh
    /\ exist' = exist \cup {u} /\ UNCHANGED gone
    /\ owner' = [owner EXCEPT ![u] = {f}]
    /\ groups' = [groups EXCEPT ![u] = {}]

LoginCreate(h) ==
    /\ req[h].pc = "create"
    /\ \E f \in req[h].fid :
         \/ /\ NoFault /\ Shadow(f) # {}
            /\ Goto(h, "lookup") /\ UNCHANGED userVars
         \/ /\ NoFault /\ Shadow(f) = {}
            /\ \E u \in Fresh : /\ CreateUser(f, u)
                                /\ Go(h, [req[h] EXCEPT !.pc = "persist", !.user = {u}])
         \/ Fault /\ Finish(h) /\ UNCHANGED userVars
         \/ Fault /\ Finish(h) /\ Shadow(f) = {} /\ \E u \in Fresh : CreateUser(f, u)
    /\ UNCHANGED <<rowVars, live, assigned>>

\* Mutant: a name that is taken fails the login.
LoginLookupMutant(h) ==
    /\ req[h].pc = "lookup"
    /\ NoFault /\ Finish(h)
    /\ UNCHANGED <<rowVars, userVars, live, assigned>>

\* The name is taken: the user who has it by now, if any, is the one.
LoginLookup(h) ==
    /\ req[h].pc = "lookup"
    /\ \E f \in req[h].fid :
         \/ NoFault /\ \E u \in Shadow(f) :
              Go(h, [req[h] EXCEPT !.pc = "persist", !.user = {u}])
         \/ NoFault /\ Shadow(f) = {} /\ Finish(h)
         \/ Fault /\ Finish(h)
    /\ UNCHANGED <<rowVars, userVars, live, assigned>>

\* The row is written whatever it holds by now.  A link an admin has made
\* since it was read is lost, and nobody revokes the sessions issued under it.
AutoLink(f, u) ==
    /\ ~Conflict(f, u)
    /\ SetAuthentikLink({f}, {u})
    /\ IF link[f] \subseteq {u} THEN UNCHANGED live ELSE Loosen({f})

\* A conflict and a lost answer both deny the login.
LoginPersist(h) ==
    /\ req[h].pc = "persist"
    /\ \E f \in req[h].fid, u \in req[h].user :
         \/ /\ NoFault /\ AutoLink(f, u)
            /\ Change(h, [req[h] EXCEPT !.pc = "decide", !.user = {}], {f}, {})
         \/ NoFault /\ Conflict(f, u) /\ Finish(h) /\ UNCHANGED <<link, live>>
         \/ Fault /\ AutoLink(f, u) /\ Change(h, NoRequest, {f}, {})
         \/ Fault /\ Finish(h) /\ UNCHANGED <<link, live>>
    /\ UNCHANGED <<rows, approved, userVars, assigned>>

\* resolveCommanderAccess reads the row again ...
LoginDecide(h) ==
    /\ req[h].pc = "decide"
    /\ \E f \in req[h].fid :
         \/ /\ NoFault /\ approved[f] /\ link[f] # {}
            /\ Go(h, [req[h] EXCEPT !.pc = "groups", !.user = link[f], !.stale = FALSE])
         \/ NoFault /\ ~(approved[f] /\ link[f] # {}) /\ Finish(h)
         \/ Fault /\ Finish(h)
    /\ UNCHANGED <<rowVars, userVars, live, assigned>>

\* ... and the user's groups, every one of which carries some scope.
LoginGroups(h) ==
    /\ req[h].pc = "groups"
    /\ \E u \in req[h].user :
         \/ NoFault /\ u \in exist /\ groups[u] # {} /\ Goto(h, "issue")
         \/ NoFault /\ ~(u \in exist /\ groups[u] # {}) /\ Finish(h)
         \/ Fault /\ Finish(h)
    /\ UNCHANGED <<rowVars, userVars, live, assigned>>

\* A session signed after the row has changed is one no lockout knows of.  A
\* session's own end, at logout or expiry, is left out: nothing here asks for it.
LoginIssue(h) ==
    /\ req[h].pc = "issue"
    /\ live' = live \cup {[fid |-> f, user |-> u, loose |-> req[h].stale] :
                             f \in req[h].fid, u \in req[h].user}
    /\ Finish(h)
    /\ NoFault /\ UNCHANGED <<rowVars, userVars, assigned>>

-----------------------------------------------------------------------------
(* Changing groups: AddUserToGroup and RemoveUserFromGroup read the whole  *)
(* list and write it back                                                  *)

\* A write to a deleted user fails; a write's answer may be lost.
WriteGroups(u, gs) == groups' = [groups EXCEPT ![u] = gs] /\ UNCHANGED <<exist, gone, owner>>

-----------------------------------------------------------------------------
(* Grant: the group first, then approved                                   *)

\* Not linked is answered with 409 and changes nothing.
GrantRead(h) ==
    /\ Accept(h)
    /\ \E f \in rows, g \in Managed :
         /\ link[f] # {}
         /\ Go(h, [NoRequest EXCEPT !.pc = "add", !.fid = {f}, !.user = link[f], !.at = {g}])
    /\ UNCHANGED <<rowVars, userVars, live, assigned>>

GrantFetch(h) ==
    /\ req[h].pc = "add"
    /\ \E u \in req[h].user :
         \/ NoFault /\ u \notin exist /\ Finish(h)
         \/ NoFault /\ u \in exist /\ req[h].at \subseteq groups[u] /\ Goto(h, "approve")
         \/ /\ NoFault /\ u \in exist /\ ~(req[h].at \subseteq groups[u])
            /\ Go(h, [req[h] EXCEPT !.pc = "add-write", !.seen = groups[u]])
         \/ Fault /\ Finish(h)
    /\ UNCHANGED <<rowVars, userVars, live, assigned>>

GrantWrite(h) ==
    /\ req[h].pc = "add-write"
    /\ \E u \in req[h].user :
         \/ /\ NoFault /\ u \in exist /\ WriteGroups(u, req[h].seen \cup req[h].at)
            /\ Change(h, [req[h] EXCEPT !.pc = "approve"], {}, {u})
         \/ NoFault /\ u \notin exist /\ Finish(h) /\ UNCHANGED userVars
         \/ /\ Fault /\ u \in exist /\ WriteGroups(u, req[h].seen \cup req[h].at)
            /\ Change(h, NoRequest, {}, {u})
         \/ Fault /\ Finish(h) /\ UNCHANGED userVars
    /\ UNCHANGED <<rowVars, live, assigned>>

\* The grant's word holds if nothing it read has changed in between.
GrantApprove(h) ==
    /\ req[h].pc = "approve"
    /\ \/ /\ NoFault /\ SetApproved(req[h].fid, TRUE)
          /\ req' = [Noticed({h}, req[h].fid, {}) EXCEPT ![h] = NoRequest]
          /\ shut' = shut \ req[h].fid
          /\ granted' = [f \in Fid |-> IF f \notin req[h].fid THEN granted[f]
                                       ELSE IF req[h].stale THEN {} ELSE req[h].at]
       \/ Fault /\ SetApproved(req[h].fid, TRUE) /\ Change(h, NoRequest, req[h].fid, {})
       \/ Fault /\ Finish(h) /\ UNCHANGED approved
    /\ UNCHANGED <<rows, link, userVars, live, assigned>>

-----------------------------------------------------------------------------
(* Revoke: approved first, then the groups, then the sessions              *)

RevokeRead(h) ==
    /\ Accept(h)
    /\ \E f \in rows :
         Go(h, [NoRequest EXCEPT !.pc = "close", !.fid = {f}, !.user = link[f], !.todo = Managed])
    /\ UNCHANGED <<rowVars, userVars, live, assigned>>

RevokeClose(h) ==
    /\ req[h].pc = "close"
    /\ \/ /\ NoFault /\ SetApproved(req[h].fid, FALSE)
          /\ Change(h, [req[h] EXCEPT !.pc = IF req[h].user = {} THEN "revoke-sessions" ELSE "remove"],
                    req[h].fid, {})
          /\ UNCHANGED live
       \/ /\ Fault /\ SetApproved(req[h].fid, FALSE)
          /\ Change(h, NoRequest, req[h].fid, {}) /\ Loosen(req[h].fid)
       \/ Fault /\ Finish(h) /\ UNCHANGED <<approved, live>>
    /\ UNCHANGED <<rows, link, userVars, assigned>>

\* A failed lookup of the user skips all groups, one that fails in
\* RemoveUserFromGroup this group; the revoke goes on either way.
RevokeFetch(h) ==
    /\ req[h].pc = "remove"
    /\ \/ NoFault /\ req[h].todo = {} /\ Goto(h, "revoke-sessions")
       \/ /\ NoFault
          /\ \E u \in req[h].user, g \in req[h].todo :
               \/ u \notin exist /\ Goto(h, "revoke-sessions")
               \/ /\ u \in exist /\ g \notin groups[u]
                  /\ Go(h, [req[h] EXCEPT !.todo = @ \ {g}])
               \/ /\ u \in exist /\ g \in groups[u]
                  /\ Go(h, [req[h] EXCEPT !.pc = "remove-write", !.todo = @ \ {g},
                                          !.at = {g}, !.seen = groups[u]])
       \/ /\ Fault
          /\ \E left \in {req[h].todo \ {g} : g \in req[h].todo}
                         \cup {x \in {{}} : req[h].todo = Managed} :
               Go(h, [req[h] EXCEPT !.todo = left, !.stale = TRUE])
    /\ UNCHANGED <<rowVars, userVars, live, assigned>>

\* Mutant: the last group's removal is not written.
RevokeWriteMutant(h) ==
    /\ req[h].pc = "remove-write"
    /\ NoFault /\ Goto(h, "remove")
    /\ UNCHANGED <<rowVars, userVars, live, assigned>>

RevokeWrite(h) ==
    /\ req[h].pc = "remove-write"
    /\ \E u \in req[h].user :
         \/ /\ NoFault /\ u \in exist /\ WriteGroups(u, req[h].seen \ req[h].at)
            /\ Change(h, [req[h] EXCEPT !.pc = "remove"], {}, {u})
         \/ NoFault /\ u \notin exist /\ Goto(h, "remove") /\ UNCHANGED userVars
         \/ /\ Fault /\ u \in exist /\ WriteGroups(u, req[h].seen \ req[h].at)
            /\ Change(h, [req[h] EXCEPT !.pc = "remove", !.stale = TRUE], {}, {u})
         \/ /\ Fault /\ Go(h, [req[h] EXCEPT !.pc = "remove", !.stale = TRUE])
            /\ UNCHANGED userVars
    /\ UNCHANGED <<rowVars, live, assigned>>

\* revokeAllSessions, in one step; a failure is logged and the sessions stay.
RevokeSessions(h) ==
    /\ req[h].pc \in {"sessions", "revoke-sessions"}
    /\ \/ /\ NoFault /\ live' = {s \in live : s.fid \notin req[h].fid}
          /\ req' = [req EXCEPT ![h] = NoRequest] /\ UNCHANGED granted
          /\ shut' = IF req[h].pc = "revoke-sessions" /\ ~req[h].stale
                     THEN shut \cup req[h].fid ELSE shut
       \/ Fault /\ Loosen(req[h].fid) /\ Finish(h)
    /\ UNCHANGED <<rowVars, userVars, assigned>>

-----------------------------------------------------------------------------
(* Link, unlink, approve and deny                                          *)

\* The user has to exist when the request comes in.
LinkCheck(h) ==
    /\ Accept(h)
    /\ \E f \in rows, u \in exist :
         Go(h, [NoRequest EXCEPT !.pc = "link-set", !.fid = {f}, !.user = {u}])
    /\ UNCHANGED <<rowVars, userVars, live, assigned>>

\* Mutant: the sessions issued under the old link stay.
LinkSetMutant(h) ==
    /\ req[h].pc = "link-set"
    /\ \E f \in req[h].fid, u \in req[h].user :
         \/ /\ ~Conflict(f, u) /\ NoFault
            /\ SetAuthentikLink({f}, {u}) /\ assigned' = assigned \cup {<<f, u>>}
            /\ Change(h, NoRequest, {f}, {})
         \/ Conflict(f, u) /\ NoFault /\ Finish(h) /\ UNCHANGED <<link, assigned>>
    /\ UNCHANGED <<rows, approved, userVars, live>>

LinkSet(h) ==
    /\ req[h].pc = "link-set"
    /\ \E f \in req[h].fid, u \in req[h].user :
         \/ /\ ~Conflict(f, u) /\ NoFault
            /\ SetAuthentikLink({f}, {u}) /\ assigned' = assigned \cup {<<f, u>>}
            /\ Change(h, [req[h] EXCEPT !.pc = "sessions"], {f}, {}) /\ UNCHANGED live
         \/ /\ ~Conflict(f, u) /\ Fault
            /\ SetAuthentikLink({f}, {u}) /\ assigned' = assigned \cup {<<f, u>>}
            /\ Change(h, NoRequest, {f}, {}) /\ Loosen({f})
         \/ Conflict(f, u) /\ NoFault /\ Finish(h) /\ UNCHANGED <<link, live, assigned>>
         \/ Fault /\ Finish(h) /\ UNCHANGED <<link, live, assigned>>
    /\ UNCHANGED <<rows, approved, userVars>>

\* Unlink clears the link first and approved after it ...
UnlinkSet(h) ==
    /\ \E f \in rows :
         /\ SetAuthentikLink({f}, {})
         /\ \/ /\ Accept(h) /\ UNCHANGED live
               /\ Change(h, [NoRequest EXCEPT !.pc = "unlink-close", !.fid = {f}], {f}, {})
            \/ AcceptLost(h) /\ Loosen({f}) /\ Change(h, NoRequest, {f}, {})
    /\ UNCHANGED <<rows, approved, userVars, assigned>>

\* ... and when that fails stops, with the sessions still live.
UnlinkClose(h) ==
    /\ req[h].pc = "unlink-close"
    /\ \/ /\ NoFault /\ SetApproved(req[h].fid, FALSE)
          /\ Change(h, [req[h] EXCEPT !.pc = "sessions"], req[h].fid, {}) /\ UNCHANGED live
       \/ /\ Fault /\ SetApproved(req[h].fid, FALSE)
          /\ Change(h, NoRequest, req[h].fid, {}) /\ Loosen(req[h].fid)
       \/ Fault /\ Finish(h) /\ Loosen(req[h].fid) /\ UNCHANGED approved
    /\ UNCHANGED <<rows, link, userVars, assigned>>

Deny(h) ==
    /\ \E f \in rows :
         /\ SetApproved({f}, FALSE)
         /\ \/ /\ Accept(h) /\ UNCHANGED live
               /\ Change(h, [NoRequest EXCEPT !.pc = "sessions", !.fid = {f}], {f}, {})
            \/ AcceptLost(h) /\ Loosen({f}) /\ Change(h, NoRequest, {f}, {})
    /\ UNCHANGED <<rows, link, userVars, assigned>>

\* Approve touches neither groups nor sessions.
Approve(h) ==
    /\ Accept(h)
    /\ \E f \in rows : SetApproved({f}, TRUE) /\ Change(h, NoRequest, {f}, {})
    /\ UNCHANGED <<rows, link, userVars, live, assigned>>

-----------------------------------------------------------------------------
(* The users tab, and Authentik's own operators                            *)

\* One that is in the group already, or not in it, is left alone.
EditRead(h) ==
    /\ Accept(h)
    /\ \E u \in exist, g \in Group, b \in BOOLEAN :
         /\ b # (g \in groups[u])
         /\ Go(h, [NoRequest EXCEPT !.pc = "edit-write", !.user = {u}, !.at = {g},
                                    !.seen = groups[u], !.add = b])
    /\ UNCHANGED <<rowVars, userVars, live, assigned>>

EditWrite(h) ==
    /\ req[h].pc = "edit-write"
    /\ \E u \in req[h].user :
         \/ /\ (NoFault \/ Fault) /\ u \in exist
            /\ WriteGroups(u, IF req[h].add THEN req[h].seen \cup req[h].at
                                            ELSE req[h].seen \ req[h].at)
            /\ Change(h, NoRequest, {}, {u})
         \/ NoFault /\ u \notin exist /\ Finish(h) /\ UNCHANGED userVars
         \/ Fault /\ Finish(h) /\ UNCHANGED userVars
    /\ UNCHANGED <<rowVars, live, assigned>>

\* Bounded so that an id is left for every commander without a user.
Delete ==
    /\ Cardinality(Fresh) > Cardinality({f \in Fid : Shadow(f) = {}})
    /\ ops < MaxOps /\ ops' = ops + 1 /\ UNCHANGED faults
    /\ \E u \in exist :
         /\ exist' = exist \ {u} /\ gone' = gone \cup {u}
         /\ groups' = [groups EXCEPT ![u] = {}] /\ UNCHANGED owner
         /\ req' = Noticed({}, {}, {u}) /\ Touch({}, {u})
    /\ UNCHANGED <<rowVars, live, assigned>>

\* The client hangs up, which fails every call still to come, or the server
\* restarts: the rest of the request does not happen.
Abandon(h) ==
    /\ req[h].pc # "idle"
    /\ Fault /\ Finish(h)
    /\ IF req[h].pc \in LockPhase THEN Loosen(req[h].fid) ELSE UNCHANGED live
    /\ UNCHANGED <<rowVars, userVars, assigned>>

-----------------------------------------------------------------------------
Login(h)  == LoginReadLink(h) \/ LoginCreate(h) \/ LoginLookup(h) \/ LoginPersist(h)
             \/ LoginDecide(h) \/ LoginGroups(h) \/ LoginIssue(h)
Grant(h)  == GrantRead(h) \/ GrantFetch(h) \/ GrantWrite(h) \/ GrantApprove(h)
Revoke(h) == RevokeRead(h) \/ RevokeClose(h) \/ RevokeFetch(h) \/ RevokeWrite(h)
             \/ RevokeSessions(h)
Relink(h) == LinkCheck(h) \/ LinkSet(h) \/ UnlinkSet(h) \/ UnlinkClose(h)
Edit(h)   == EditRead(h) \/ EditWrite(h)

Next == \/ \E h \in Handler, f \in Fid : LoginUpsert(h, f)
        \/ \E h \in Handler : Login(h) \/ Grant(h) \/ Revoke(h) \/ Relink(h) \/ Edit(h)
                              \/ Deny(h) \/ Approve(h) \/ Abandon(h)
        \/ Delete

Spec == Init /\ [][Next]_vars

-----------------------------------------------------------------------------
(* Properties                                                              *)

\* commander_linking.go:44-98 and the unique index: a row is linked to the
\* user of its own name or to one an admin chose, and no user to two rows.
LinksTell ==
    /\ \A f \in Fid : \A u \in link[f] : f \in owner[u] \/ <<f, u>> \in assigned
    /\ \A f, g \in Fid : f # g => link[f] \cap link[g] = {}

\* A request that has changed f's row is about to call revokeAllSessions.
Locking(f) == \E h \in Handler : f \in req[h].fid /\ req[h].pc \in LockPhase

\* kaine_admin_commanders.go:402-404, 476-479: but for the loose ones, a
\* session that works was issued under the row's present link and approval,
\* or a request that changed them is about to revoke it.
SessionsMatch ==
    \A s \in live : \/ s.loose
                    \/ approved[s.fid] /\ link[s.fid] = {s.user}
                    \/ Locking(s.fid)

\* kaine_admin_commanders.go:236-242: until a row or its user's groups change
\* again, an undisturbed grant has put the linked user into the group and
\* approved the commander.
GrantsStand ==
    \A f \in Fid : granted[f] # {} =>
       approved[f] /\ \E u \in link[f] : u \in exist /\ granted[f] \subseteq groups[u]

\* kaine_admin_commanders.go:327-332: likewise, an undisturbed revoke has left
\* neither approval nor a managed group nor a session but loose ones.
RevokesStand ==
    \A f \in shut : /\ ~approved[f]
                    /\ \A u \in link[f] : groups[u] \cap Managed = {}
                    /\ \A s \in live : s.fid = f => s.loose

\* commander_linking.go:16-18, 82-84: a login none of whose calls fails leaves
\* the commander linked, whatever state earlier ones left Authentik in, unless
\* another request changed the row meanwhile, an admin gave the user of that
\* name to another commander, or an operator deleted it.
Taken(f) == \E u \in User : f \in owner[u] /\ Conflict(f, u)
LoginLinks ==
    [][\A h \in Handler :
         req[h].pc \in LoginPhase /\ req'[h].pc = "idle" /\ ~req[h].stale /\ faults' = faults
           => \A f \in req[h].fid : link'[f] # {} \/ Taken(f) \/ Shadow(f) = {}]_vars

-----------------------------------------------------------------------------
(* The inductive invariant behind LinksTell, SessionsMatch and LoginLinks  *)

\* A name goes to a user once, when it is created.
NamesKept == \A u \in User : owner[u] # {} => u \in exist \cup gone

\* The user a login is about to link bears the commander's name.
OwnUserInHand ==
    \A h \in Handler : req[h].pc = "persist" =>
       \A f \in req[h].fid, u \in req[h].user : f \in owner[u]

\* What an undisturbed login has read of the row still holds.
DecisionHolds ==
    \A h \in Handler : req[h].pc \in {"groups", "issue"} /\ ~req[h].stale =>
       \A f \in req[h].fid : approved[f] /\ link[f] = req[h].user

\* A login that is past ensureCommanderLink has seen the row linked.
LinkedOn ==
    \A h \in Handler : req[h].pc \in {"decide", "groups", "issue"} /\ ~req[h].stale =>
       \A f \in req[h].fid : link[f] # {}

Inv == TypeOK /\ NamesKept /\ OwnUserInHand /\ LinksTell /\ DecisionHolds /\ LinkedOn /\ SessionsMatch

\* kaine_admin_commanders.go:298: both.
DecisionsStand == GrantsStand /\ RevokesStand

-----------------------------------------------------------------------------
(* The inductive invariant behind DecisionsStand                           *)

\* A user who is gone, or is still to come, is in no group.
GroupsKnown == \A u \in User \ exist : groups[u] = {}

\* The grants and revokes whose word is still to be given.
WordPhase == GrantPhase \cup RevokePhase \cup {"revoke-sessions"}

\* What a grant or a revoke has read and done so far, as long as nothing has
\* disturbed it: the row and the user's groups are as it left them.
Holding(r) ==
    \A f \in r.fid :
        /\ r.pc \in WordPhase => link[f] = r.user
        /\ r.pc \in GrantPhase => r.user # {}
        /\ r.pc = "approve" => \A u \in r.user : r.at \subseteq groups[u]
        /\ r.pc = "close" => Managed \subseteq r.todo
        /\ r.pc \in {"remove", "remove-write", "revoke-sessions"} => ~approved[f]
        /\ r.pc = "remove" => \A u \in r.user : groups[u] \cap Managed \subseteq r.todo
        /\ r.pc = "remove-write" => r.seen \cap Managed \subseteq r.todo \cup r.at
        /\ r.pc = "revoke-sessions" => \A u \in r.user : groups[u] \cap Managed = {}
WorkHolds == \A h \in Handler : ~req[h].stale => Holding(req[h])

WordInv == GroupsKnown /\ WorkHolds /\ DecisionsStand

\* Goroutines, commanders and the ids to come are each interchangeable.
Symmetric == Permutations(Handler) \cup Permutations(Fid) \cup Permutations(User \ Human)
=============================================================================
