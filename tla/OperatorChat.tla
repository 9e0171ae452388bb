---------------------------- MODULE OperatorChat ----------------------------
(* Operators who ask the assistant over HTTP (handleLLMSession) or MCP      *)
(* (handleLLM), whoever calls a tool over MCP or the portal's chat, and what*)
(* they may run.  A turn looks a session up or makes one, lets the model    *)
(* work, then appends the question and the reply in two steps - to Redis,   *)
(* or to memory while Redis cannot be reached - and turns of one session    *)
(* run side by side.                                                        *)
EXTENDS Naturals, Sequences, FiniteSets

CONSTANTS
    SessionId, User, Request,   \* a request is made once
    Caller,                   \* door, key, groups, identified
    MaxMessages,              \* storeCfg.MaxMessages
    MaxFaults                 \* times Redis fails, answers too late, or the process restarts

VARIABLES redis, memory,      \* sessions: owner and messages
          up,                 \* Redis can be reached
          born, apart,        \* history: ids given out; those Redis has been without since
          req, faults
vars == <<redis, memory, up, born, apart, req, faults>>

-----------------------------------------------------------------------------
(* What a caller may run                                                    *)

\* groupScopes: one scope for each group, a test account's like its model's.
Scopes == {"admin", "llm_operator", "kaine_chat", "copilot_chat", "galaxy_read", "kaine_mining", "commander_data"}
Portal == {"kaine_chat", "galaxy_read", "kaine_mining"}
Pilot  == {"copilot_chat", "galaxy_read", "commander_data"}
OfGroup(g) == CASE g = "kaine-god" -> Portal \cup {"admin", "llm_operator"}
                [] g \in {"kaine-approved", "kaine-chat", "kaine-chat-test", "kaine-chat-debug"} -> Portal
                [] g = "edin-copilot" -> Pilot
                [] g = "edin-copilot-trusted" -> Pilot \cup {"kaine_mining"}
                [] OTHER -> {}
ScopesForGroups(gs) == UNION {OfGroup(g) : g \in gs}

\* The portal's chat grants itself, and a commander's tools only to one it knows.
PortalScopes(c) == (ScopesForGroups(c.groups) \cup {"kaine_chat"}) \ (IF c.identified THEN {} ELSE {"commander_data"})

\* groupsToScopes of the MCP server knows groups of its own.
Within(gs, names) == gs \cap names # {}
McpScopes(gs) ==
    IF Within(gs, {"kaine-god", "kaine-god-test"}) THEN {"admin", "llm_operator", "kaine_chat"}
    ELSE (IF Within(gs, {"kaine-approved", "kaine-approved-test", "kaine-chat", "kaine-chat-test", "kaine-chat-debug", "kaine-chat-debug-test"})
          THEN {"kaine_chat"} ELSE {})
         \cup (IF Within(gs, {"kaine-directors", "kaine-directors-test", "kaine-lead-ops", "kaine-lead-ops-test"}) THEN {"llm_operator"} ELSE {})

ScopesOf(c) == CASE c.door = "http"   -> IF c.key THEN {"llm_operator"} ELSE {}
                 [] c.door = "portal" -> PortalScopes(c)
                 [] OTHER             -> IF c.key THEN {"admin", "llm_operator"} ELSE McpScopes(c.groups)

\* toolScopes, a tool for each scope there is; one no longer registered.
Needs == [restart_service |-> {"llm_operator"}, galaxy_query |-> {"galaxy_read"}, galaxy_ltd_buyers |-> {"kaine_mining"},
          commander_events |-> {"commander_data"}, describe_tool |-> {}]
Tool    == DOMAIN Needs \cup {"galaxy_raw"}
OpsOnly == {"restart_service"}

Visible(scopes, t) == t \in DOMAIN Needs /\ Needs[t] \subseteq scopes
\* The model is offered nothing when nobody is known to ask.
Offered(scopes) == IF scopes = {} THEN {} ELSE {t \in Tool : Visible(scopes, t)}
\* Invoke checks twice: the operators' tools, then every tool's scope.
Allowed(scopes, t) == /\ t \in OpsOnly => scopes \cap {"llm_operator", "admin"} # {}
                      /\ t \in DOMAIN Needs /\ Needs[t] \subseteq scopes

-----------------------------------------------------------------------------
(* The store                                                                *)

Put(st, s, copy) == [x \in DOMAIN st \cup {s} |-> IF x = s THEN copy ELSE st[x]]
Drop(st, S) == [x \in DOMAIN st \ S |-> st[x]]
Trim(log) == IF Len(log) <= MaxMessages THEN log ELSE SubSeq(log, Len(log) - MaxMessages + 1, Len(log))
More(copy, m) == [copy EXCEPT !.log = Trim(Append(@, m))]
Nobody == [owner |-> {}, log |-> <<>>]
Question(r) == [of |-> r, by |-> "user"]
Reply(r)    == [of |-> r, by |-> "assistant"]

\* AppendMessage pushes and touches the session's row, whether it is there or
\* not; what it then loads becomes the copy in memory.
Pushed(s, m) == More(IF s \in DOMAIN redis THEN redis[s] ELSE Nobody, m)
AppendToRedis(s, m) == /\ redis' = Put(redis, s, Pushed(s, m))
                       /\ memory' = Put(memory, s, Pushed(s, m))
AppendToMemory(s, m) == /\ s \in DOMAIN memory /\ UNCHANGED redis
                        /\ memory' = [memory EXCEPT ![s] = More(@, m)]
Fault == faults < MaxFaults /\ faults' = faults + 1

-----------------------------------------------------------------------------
(* Requests                                                                 *)

Fresh == [pc |-> "new", caller |-> {}, session |-> {}, stored |-> "nowhere", ran |-> {}]
Init == /\ redis = [s \in {} |-> Nobody] /\ memory = redis /\ up = TRUE
        /\ born = {} /\ apart = {} /\ faults = 0
        /\ req = [r \in Request |-> Fresh]

At(r, pc) == req[r].pc = pc
To(r, pc) == req' = [req EXCEPT ![r].pc = pc]
Taken(r, c, pc, s) == req' = [req EXCEPT ![r] = [@ EXCEPT !.pc = pc, !.caller = {c}, !.session = s]]
Stores == <<redis, memory, born, apart>>

\* Somebody without the key or a group that counts gets nothing at all.
Refuse(r) == /\ At(r, "new") /\ \E c \in Caller : ScopesOf(c) = {} /\ Taken(r, c, "refused", {})
             /\ UNCHANGED <<Stores, up, faults>>

\* A tool call of its own, listed or not.
CallTool(r) ==
    /\ At(r, "new") /\ UNCHANGED <<Stores, up, faults>>
    /\ \E c \in Caller, t \in Tool :
          /\ c.door \in {"tool", "portal"} /\ ScopesOf(c) # {}
          /\ req' = [req EXCEPT ![r] = [@ EXCEPT !.pc = "done", !.caller = {c}, !.ran = {t} \cap {x \in Tool : Allowed(ScopesOf(c), x)}]]

\* Get: from Redis, then memory; a session that neither has is made anew.  Over
\* MCP a message of blanks is found out only after that.
Resume(r, c, s, next) ==
    \/ /\ up /\ s \in DOMAIN redis /\ memory' = Put(memory, s, redis[s]) /\ Taken(r, c, next, {s})
       /\ UNCHANGED <<redis, born, apart>>
    \/ /\ ~(up /\ s \in DOMAIN redis) /\ s \in DOMAIN memory /\ Taken(r, c, next, {s}) /\ UNCHANGED Stores
Create(r, c, next) ==
    \E u \in User, s \in SessionId \ born :
       LET copy == [owner |-> {u}, log |-> <<>>]
       IN /\ memory' = Put(memory, s, copy) /\ redis' = IF up THEN Put(redis, s, copy) ELSE redis
          /\ born' = born \cup {s} /\ apart' = IF up THEN apart ELSE apart \cup {s}
          /\ Taken(r, c, next, {s})
Open(r) ==
    /\ At(r, "new") /\ UNCHANGED <<up, faults>>
    /\ \E c \in {c \in Caller : c.door \in {"http", "mcp"} /\ ScopesOf(c) # {}}, next \in {"model", "refused"} :
          /\ next = "refused" => c.door = "mcp"
          /\ \/ \E s \in SessionId : Resume(r, c, s, next)
             \/ Create(r, c, next)

CallerOf(r) == CHOOSE c \in req[r].caller : TRUE
SessionOf(r) == CHOOSE s \in req[r].session : TRUE

\* The model calls what it is offered, or tries what it is not; when it fails
\* nothing is stored.
Run(r) ==
    /\ At(r, "model") /\ UNCHANGED <<Stores, up, faults>>
    /\ \/ \E t \in Tool : req' = [req EXCEPT ![r].pc = "question", ![r].ran = {t} \cap {x \in Tool : Allowed(ScopesOf(CallerOf(r)), x)}]
       \/ To(r, "failed")

\* Each of the two messages: stored, stored but not read back, or not stored.
Store(r, m, from, next) ==
    LET s == SessionOf(r) IN
    /\ At(r, from) /\ UNCHANGED <<up, born, apart>>
    /\ \/ /\ up /\ AppendToRedis(s, m) /\ UNCHANGED faults
          /\ req' = [req EXCEPT ![r].pc = next, ![r].stored = IF from = "question" THEN "redis" ELSE @]
       \/ /\ up /\ Fault /\ redis' = Put(redis, s, Pushed(s, m)) /\ UNCHANGED memory /\ To(r, "failed")
       \/ /\ ~up /\ UNCHANGED faults /\ AppendToMemory(s, m)
          /\ req' = [req EXCEPT ![r].pc = next, ![r].stored = IF from = "question" THEN "memory" ELSE @]
       \/ ~up /\ s \notin DOMAIN memory /\ UNCHANGED <<redis, memory, faults>> /\ To(r, "failed")
StoreQuestion(r) == Store(r, Question(r), "question", "reply")
StoreReply(r)    == Store(r, Reply(r), "reply", "done")

-----------------------------------------------------------------------------
(* Redis, time and the process                                              *)

Goes  == up /\ Fault /\ up' = FALSE /\ UNCHANGED <<Stores, req>>
Comes == ~up /\ up' = TRUE /\ UNCHANGED <<Stores, req, faults>>

\* A session that is not written for its lifetime is gone from Redis, and from
\* memory then or later; the time between a turn's two messages is far less.
Expire(s) ==
    /\ s \in DOMAIN redis \cup DOMAIN memory /\ UNCHANGED <<up, born, req, faults>>
    /\ \A r \in Request : At(r, "reply") => req[r].session # {s}
    /\ redis' = Drop(redis, {s}) /\ apart' = apart \cup {s}
    /\ memory' \in {memory, Drop(memory, {s})}

\* Memory and the requests at work are lost.
Restart ==
    /\ Fault /\ memory' = [s \in {} |-> Nobody] /\ UNCHANGED <<redis, up, born, apart>>
    /\ req' = [r \in Request |-> IF req[r].pc \in {"model", "question", "reply"} THEN [req[r] EXCEPT !.pc = "failed"] ELSE req[r]]

Next == \/ \E r \in Request : Refuse(r) \/ CallTool(r) \/ Open(r) \/ Run(r) \/ StoreQuestion(r) \/ StoreReply(r)
        \/ \E s \in SessionId : Expire(s)
        \/ Goes \/ Comes \/ Restart
Spec == Init /\ [][Next]_vars

-----------------------------------------------------------------------------

Copy == [owner : SUBSET User, log : Seq([of : Request, by : {"user", "assistant"}])]
TypeOK == /\ \A st \in {redis, memory} : DOMAIN st \subseteq born /\ \A s \in DOMAIN st : st[s] \in Copy
          /\ born \subseteq SessionId /\ apart \subseteq born /\ faults <= MaxFaults

\* server.go:624, mcp server.go:429: whatever turns run side by side on a
\* session, a reply on show follows its own question, unless that was pushed
\* out or Redis could not be reached when it was to be stored; and no turn's
\* message is on show twice.
RepliesFollow ==
    \A st \in {redis, memory} : \A s \in DOMAIN st :
       LET log == st[s].log IN
       /\ \A i, j \in DOMAIN log : log[i] = log[j] => i = j
       /\ \A k \in DOMAIN log :
             log[k].by = "assistant" => \/ \E i \in 1 .. k - 1 : log[i] = Question(log[k].of)
                                        \/ Len(log) = MaxMessages
                                        \/ req[log[k].of].stored = "memory"

\* redis_store.go:174, server.go:576: a session loses the name of its owner only
\* when Redis had lost it, or never had it, before a message was pushed to it.
OwnerLost == \A s \in DOMAIN redis \cup DOMAIN memory :
                s \notin apart => \A st \in {redis, memory} : s \in DOMAIN st => st[s].owner # {}

\* executor.go:155, convert.go:100: what is offered to a caller is what Invoke
\* lets them run, by whichever door they come; the operators' tools and a
\* commander's own journal go to those alone.
OfferedRuns ==
    \A r \in Request : \A c \in req[r].caller :
       /\ ScopesOf(c) # {} => {t \in Tool : Allowed(ScopesOf(c), t)} = Offered(ScopesOf(c))
       /\ OpsOnly \cap req[r].ran # {} => c.key \/ Within(c.groups, {"kaine-god", "kaine-god-test", "kaine-directors", "kaine-directors-test",
                                                                     "kaine-lead-ops", "kaine-lead-ops-test"})
       /\ "commander_events" \in req[r].ran => c.identified /\ Within(c.groups, {"edin-copilot", "edin-copilot-trusted"})
=============================================================================
