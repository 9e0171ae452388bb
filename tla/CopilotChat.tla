---------------------------- MODULE CopilotChat -----------------------------
(***************************************************************************)
(* Copilot chat: one commander's WebSocket connections, the turns they     *)
(* start and the conversation store behind them                            *)
(* (internal/httpapi/copilot_chat.go, internal/llm/redis_store.go).        *)
(*                                                                         *)
(* A connection has a read loop and at most one turn, which runs in a      *)
(* goroutine of its own and goes on when the connection closes; the client *)
(* reconnects and sends again what was not acknowledged.  All of them meet *)
(* in Redis and in the process's in-memory copies, which stand in when a   *)
(* call to Redis fails.  Each action is one call to Redis or to the model. *)
(*                                                                         *)
(* Redis and the in-memory store keep the same facts of a session: the     *)
(* messages on show, trimmed to a limit, the client message ids it has     *)
(* seen, and the provider context of the next model turn.  A store is a    *)
(* function from the sessions it knows to such copies; the two Lua scripts *)
(* and the methods under the in-memory mutex are operators on it.          *)
(***************************************************************************)
EXTENDS Naturals, Sequences, FiniteSets

CONSTANTS
    Sess,         \* session ids (uuid.NewString)
    Id,           \* client message ids
    MaxMessages,  \* messages kept on show, storeCfg.MaxMessages
    Conn,        \* connections that may be open or have a turn at once
    MaxFaults,   \* bound on failed calls, restarts and lapsed sessions
    MaxSends     \* bound on the messages the client sends

ASSUME MaxMessagesAssumption == MaxMessages \in Nat \ {0}
ASSUME SessAssumption  == Sess \subseteq Nat /\ Sess # {}
ASSUME BoundAssumption == MaxFaults \in Nat /\ MaxSends \in Nat

-----------------------------------------------------------------------------
(* The conversation store                                                  *)

\* A message on show is the commander's, with its client id, or the reply to it.
Entry == [of : Id, by : {"commander", "copilot"}]

\* A context is abstracted to the turns it contains.
Copy  == [log : Seq(Entry), ids : SUBSET Id, ctx : SUBSET Id]
Blank == [log |-> <<>>, ids |-> {}, ctx |-> {}]

Question(i) == [of |-> i, by |-> "commander"]
Reply(i)    == [of |-> i, by |-> "copilot"]

IsStore(st) == DOMAIN st \subseteq Sess /\ \A s \in DOMAIN st : st[s] \in Copy
NoSession   == [s \in {} |-> Blank]

Put(st, s, copy) == [t \in DOMAIN st \cup {s} |-> IF t = s THEN copy ELSE st[t]]
Drop(st, s)      == [t \in DOMAIN st \ {s} |-> st[t]]

\* LTRIM, trimToLimit.
Trim(log) == IF Len(log) =< MaxMessages THEN log
             ELSE SubSeq(log, Len(log) - MaxMessages + 1, Len(log))

Asked(copy)   == {i \in Id : \E k \in DOMAIN copy.log : copy.log[k] = Question(i)}
Replied(copy) == {i \in Id : \E k \in DOMAIN copy.log : copy.log[k] = Reply(i)}

\* Mutant: an id counts as seen only while its message is on show.
SeenMutant(st, s, i) == i \in Asked(st[s])
Seen(st, s, i) == i \in st[s].ids

\* AppendMessageOnce of a new id.
Ask(st, s, i) ==
    [st EXCEPT ![s].log = Trim(Append(@, Question(i))), ![s].ids = @ \cup {i}]

\* Mutant: the context is left as the last turn but one wrote it.
AnswerMutant(st, s, i, ctx) == [st EXCEPT ![s].log = Trim(Append(@, Reply(i)))]
\* CommitAssistantTurn.
Answer(st, s, i, ctx) ==
    [st EXCEPT ![s].log = Trim(Append(@, Reply(i))), ![s].ctx = ctx]

\* UpsertSession: the loaded messages replace the copy's, ids are merged, the
\* context stays.
Upsert(st, s, loaded) ==
    LET old == IF s \in DOMAIN st THEN st[s] ELSE Blank IN
    Put(st, s, [log |-> loaded.log, ids |-> old.ids \cup Asked(loaded), ctx |-> old.ctx])

-----------------------------------------------------------------------------
(* Connections and turns                                                   *)

VARIABLES
    redis,     \* the sessions in Redis
    memory,    \* RedisStore.fallback
    index,     \* kaine:user:{fid}:sessions, a sorted set: <<s, t>> if s is no older than t
    active,    \* kaine:user:{fid}:active (at most one)
    conn,      \* read loop and turn of each connection
    faults, sends,   \* used up so far (bounds the model)
    asked,     \* history: ids accepted by a connection on the session
    answered,  \* history: ids whose reply reached Redis
    degraded,  \* history: ids in whose handling a call failed or a key lapsed
    dropped,   \* history: accepted ids whose turn ended without a reply
    crossed    \* history: ids handled while the session had another turn

vars == <<redis, memory, index, active, conn, faults, sends,
          asked, answered, degraded, dropped, crossed>>

storeVars   == <<redis, memory, index, active>>
boundVars   == <<faults, sends>>
historyVars == <<asked, answered, degraded, dropped, crossed>>

\* The read loop's and the turn's places; msg is the id being handled (at
\* most one), fresh that it was appended now, past the questions in
\* historyForAPI, ctx the context the turn started from.
LoopPhase == {"closed", "create", "ready", "load"}
TurnPhase == {"none", "context", "run", "commit", "stored"}
Connection == [loop : LoopPhase, turn : TurnPhase, sess : Sess, msg : SUBSET Id,
               fresh : BOOLEAN, past : SUBSET Id, ctx : SUBSET Id]
NoConn == [loop |-> "closed", turn |-> "none", sess |-> CHOOSE s \in Sess : TRUE,
           msg |-> {}, fresh |-> FALSE, past |-> {}, ctx |-> {}]

\* A session is listed with a score, here its place in the order.
Listed == {s \in Sess : <<s, s>> \in index}

\* What the program keeps has its type; no store knows more messages than it
\* may show, and of two listed sessions one is the older.
TypeOK ==
    /\ IsStore(redis) /\ IsStore(memory)
    /\ \A s \in DOMAIN redis : Len(redis[s].log) =< MaxMessages
    /\ index \subseteq Sess \X Sess
    /\ \A s, t \in Listed : <<s, t>> \in index \/ <<t, s>> \in index
    /\ \A p \in index : p[1] \in Listed /\ p[2] \in Listed /\ (<<p[2], p[1]>> \in index => p[1] = p[2])
    /\ active \subseteq Sess
    /\ conn \in [Conn -> Connection]
    /\ faults \in Nat /\ sends \in Nat
    /\ asked \in [Sess -> SUBSET Id]
    /\ answered \subseteq Id /\ degraded \subseteq Id /\ dropped \subseteq Id /\ crossed \subseteq Id

Init ==
    /\ redis = NoSession /\ memory = NoSession /\ index = {} /\ active = {}
    /\ conn = [c \in Conn |-> NoConn]
    /\ faults = 0 /\ sends = 0
    /\ asked = [s \in Sess |-> {}]
    /\ answered = {} /\ degraded = {} /\ dropped = {} /\ crossed = {}

Fault   == faults < MaxFaults /\ faults' = faults + 1 /\ UNCHANGED sends
NoFault == UNCHANGED boundVars

-----------------------------------------------------------------------------
(* Helpers                                                                 *)

\* ZREM, and ZADD with the newest score.
Delist(gone) == {p \in index : p[1] \notin gone /\ p[2] \notin gone}
Touch(s) == Delist({s}) \cup ({s} \X (Listed \cup {s}))

\* Session ids are uuids: a new one was never in use.
Used    == DOMAIN redis \cup DOMAIN memory \cup active \cup Listed
           \cup {conn[c].sess : c \in {d \in Conn : conn[d] # NoConn}}
           \cup {s \in Sess : asked[s] # {}}
NewSess == {s \in Sess \ Used : \A t \in Sess \ Used : s =< t}

\* turnActive is set from the moment a message is accepted until its turn ends.
Busy(c) == conn[c].loop = "load" \/ conn[c].turn # "none"

\* Handling that meets another message's on the same session.
Others(c)  == {d \in Conn \ {c} : Busy(d) /\ conn[d].sess = conn[c].sess}
Cross(c, i) == crossed' = IF Others(c) = {} THEN crossed
                          ELSE crossed \cup {i} \cup UNION {conn[d].msg : d \in Others(c)}

\* Back to the read loop with no turn; the turn is over, and perhaps the last
\* of its connection.
Ready(r)   == [r EXCEPT !.loop = "ready", !.turn = "none", !.msg = {}, !.fresh = FALSE,
                        !.past = {}, !.ctx = {}]
EndTurn(r) == IF r.loop = "closed" THEN NoConn ELSE [Ready(r) EXCEPT !.loop = r.loop]

\* historyForAPI: the messages on show without the last one.
Past(log) == {i \in Id : \E k \in 1..Len(log)-1 : log[k] = Question(i)}
Begin(r, i, log) == [r EXCEPT !.loop = "ready", !.turn = "context", !.msg = {i},
                              !.fresh = FALSE, !.past = Past(log)]

-----------------------------------------------------------------------------
(* Connecting and choosing a session                                       *)

\* GetActiveSession: the pointer, or else the head of the index and no more.
Stored  == DOMAIN redis
Latest  == {s \in Listed : \A t \in Listed : <<s, t>> \in index} \cap Stored
Current == IF active \cap Stored # {} THEN active ELSE Latest

\* A pointer that cannot be followed is deleted, also when it could not be
\* read; a call that fails reads as "none".
Connect(c) ==
    /\ conn[c] = NoConn
    /\ \E found \in {Current, Latest, {}} :
         /\ \/ NoFault /\ found = Current /\ active' = active \cap Stored
            \/ Fault /\ active' \in {active, {}}
         /\ \/ \E s \in found : conn' = [conn EXCEPT ![c].loop = "ready", ![c].sess = s]
            \/ found = {} /\ conn' = [conn EXCEPT ![c].loop = "create"]
    /\ UNCHANGED <<redis, memory, index, historyVars>>

\* CreateSession; when Redis fails the session exists in memory only, and
\* when the index or the pointer fails nobody is told.
Create(c) ==
    /\ conn[c].loop = "create"
    /\ \E s \in NewSess :
         /\ conn' = [conn EXCEPT ![c].loop = "ready", ![c].sess = s]
         /\ memory' = Put(memory, s, Blank)
         /\ \/ /\ NoFault
               /\ redis' = Put(redis, s, Blank) /\ index' = Touch(s) /\ active' = {s}
            \/ /\ Fault
               /\ redis' = Put(redis, s, Blank)
               /\ index' \in {index, Touch(s)} /\ active' \in {active, {s}}
            \/ Fault /\ UNCHANGED <<redis, index, active>>
    /\ UNCHANGED historyVars

\* Mutant: a running turn does not keep the session from changing.
MayLeaveMutant(c) == conn[c].loop = "ready"
\* new_chat and switch_session are refused while a turn runs.
MayLeave(c) == conn[c].loop = "ready" /\ ~Busy(c)

NewChat(c) ==
    /\ MayLeave(c)
    /\ conn' = [conn EXCEPT ![c].loop = "create"]
    /\ NoFault
    /\ UNCHANGED <<storeVars, historyVars>>

\* SetActiveSession, then Get, which falls back to memory.
SwitchSession(c) ==
    /\ MayLeave(c)
    /\ \E s \in Stored :
         /\ active' \in {active, {s}}
         /\ \/ /\ NoFault /\ active' = {s}
               /\ conn' = [conn EXCEPT ![c].sess = s]
               /\ memory' = Upsert(memory, s, redis[s])
            \/ /\ Fault /\ UNCHANGED memory
               /\ conn' = IF active' = {s} /\ s \in DOMAIN memory
                          THEN [conn EXCEPT ![c].sess = s] ELSE conn
    /\ UNCHANGED <<redis, index, historyVars>>

\* POST .../activate, from any client.
Activate ==
    /\ \E s \in Stored : active' = {s}
    /\ NoFault
    /\ UNCHANGED <<redis, memory, index, conn, historyVars>>

\* GET .../sessions removes from the index what it cannot load, be it that the
\* session has lapsed or that the call failed.
ListSessions ==
    /\ \/ NoFault /\ index' = Delist(Sess \ Stored)
       \/ Fault /\ \E u \in Stored : index' = Delist((Sess \ Stored) \cup {u})
    /\ UNCHANGED <<redis, memory, active, conn, historyVars>>

\* sync_session copies what Redis has into memory.
Sync(c) ==
    /\ conn[c].loop = "ready" /\ conn[c].sess \in Stored
    /\ memory' = Upsert(memory, conn[c].sess, redis[conn[c].sess])
    /\ NoFault
    /\ UNCHANGED <<redis, index, active, conn, historyVars>>

-----------------------------------------------------------------------------
(* Accepting a message                                                     *)

MaySend(c) == conn[c].loop = "ready" /\ ~Busy(c) /\ sends < MaxSends /\ sends' = sends + 1

Accepted(c, i) == asked' = [asked EXCEPT ![conn[c].sess] = @ \cup {i}]

\* AppendMessageOnce, answered by Redis: 1, 0, or -1 and an error.
Send(c, i) ==
    LET s == conn[c].sess IN
    /\ MaySend(c) /\ UNCHANGED faults
    /\ \/ /\ s \in Stored /\ ~Seen(redis, s, i)
          /\ redis' = Ask(redis, s, i)
          /\ conn' = [conn EXCEPT ![c].loop = "load", ![c].msg = {i}, ![c].fresh = TRUE]
          /\ Accepted(c, i) /\ Cross(c, i)
       \/ /\ s \in Stored /\ Seen(redis, s, i)
          /\ conn' = [conn EXCEPT ![c].loop = "load", ![c].msg = {i}]
          /\ UNCHANGED <<redis, asked, crossed>>
       \/ s \notin Stored /\ UNCHANGED <<redis, conn, asked, crossed>>
    /\ UNCHANGED <<memory, index, active, answered, degraded, dropped>>

\* The call is made, its answer is lost, and go-redis repeats it: 0.
SendRepeated(c, i) ==
    LET s == conn[c].sess IN
    /\ MaySend(c) /\ faults < MaxFaults /\ faults' = faults + 1
    /\ s \in Stored /\ ~Seen(redis, s, i)
    /\ redis' = Ask(redis, s, i)
    /\ conn' = [conn EXCEPT ![c].loop = "load", ![c].msg = {i}]
    /\ degraded' = degraded \cup {i} /\ dropped' = dropped \cup {i}
    /\ Accepted(c, i) /\ Cross(c, i)
    /\ UNCHANGED <<memory, index, active, answered>>

\* The call fails, with its effect or without, and the in-memory copy answers.
SendFallback(c, i) ==
    LET s == conn[c].sess IN
    /\ MaySend(c) /\ faults < MaxFaults /\ faults' = faults + 1
    /\ redis' \in {redis} \cup {Ask(redis, t, i) : t \in {u \in {s} \cap Stored : ~Seen(redis, u, i)}}
    /\ \/ /\ s \in DOMAIN memory /\ ~Seen(memory, s, i)
          /\ memory' = Ask(memory, s, i)
          /\ conn' = [conn EXCEPT ![c] = Begin(@, i, memory'[s].log)]
          /\ Accepted(c, i) /\ Cross(c, i) /\ UNCHANGED dropped
       \/ /\ s \in DOMAIN memory => Seen(memory, s, i)
          /\ \/ redis' = redis /\ UNCHANGED <<dropped, crossed>>
             \/ redis' # redis /\ dropped' = dropped \cup {i} /\ Cross(c, i)
          /\ UNCHANGED <<memory, conn, asked>>
    /\ degraded' = degraded \cup {i}
    /\ UNCHANGED <<index, active, answered>>

\* loadSession and the acknowledgement.  When the session cannot be loaded
\* the client is told that the message was not stored.
Load(c) ==
    LET s == conn[c].sess IN
    /\ conn[c].loop = "load"
    /\ \E i \in conn[c].msg :
         \/ /\ s \in Stored /\ NoFault
            /\ memory' = Upsert(memory, s, redis[s])
            /\ index' = IF conn[c].fresh THEN Touch(s) ELSE index
            /\ conn' = [conn EXCEPT ![c] = IF @.fresh THEN Begin(@, i, redis[s].log) ELSE Ready(@)]
            /\ UNCHANGED <<degraded, dropped>>
         \/ /\ Fault \/ (s \notin Stored /\ NoFault)
            /\ conn' = [conn EXCEPT ![c] = Ready(@)]
            /\ degraded' = degraded \cup {i}
            /\ dropped' = IF conn[c].fresh THEN dropped \cup {i} ELSE dropped
            /\ UNCHANGED <<memory, index>>
    /\ UNCHANGED <<redis, active, asked, answered, crossed>>

-----------------------------------------------------------------------------
(* A turn                                                                  *)

TurnFails(c) == /\ conn' = [conn EXCEPT ![c] = EndTurn(@)]
                /\ dropped' = dropped \cup conn[c].msg

\* GetProviderContext; a failed call reads the in-memory copy instead.
LoadContext(c) ==
    LET s == conn[c].sess IN
    /\ conn[c].turn = "context"
    /\ \/ /\ NoFault /\ UNCHANGED degraded
          /\ conn' = [conn EXCEPT ![c].turn = "run", ![c].ctx = IF s \in Stored THEN redis[s].ctx ELSE {}]
       \/ /\ Fault /\ degraded' = degraded \cup conn[c].msg
          /\ conn' = [conn EXCEPT ![c].turn = "run", ![c].ctx = IF s \in DOMAIN memory THEN memory[s].ctx ELSE {}]
    /\ UNCHANGED <<storeVars, asked, answered, dropped, crossed>>

\* RunWithStreamingContext, with the tools it calls.
Run(c) ==
    /\ conn[c].turn = "run"
    /\ \/ conn' = [conn EXCEPT ![c].turn = "commit"] /\ UNCHANGED dropped
       \/ TurnFails(c)
    /\ NoFault
    /\ UNCHANGED <<storeVars, asked, answered, degraded, crossed>>

\* CommitAssistantTurn, answered by Redis; when go-redis repeats the call the
\* reply is appended twice.
Commit(c) ==
    LET s == conn[c].sess IN
    /\ conn[c].turn = "commit"
    /\ \E i \in conn[c].msg :
         \/ /\ s \in Stored
            /\ \/ NoFault /\ redis' = Answer(redis, s, i, conn[c].ctx \cup {i}) /\ UNCHANGED degraded
               \/ /\ Fault /\ degraded' = degraded \cup {i}
                  /\ redis' = Answer(Answer(redis, s, i, {}), s, i, conn[c].ctx \cup {i})
            /\ conn' = [conn EXCEPT ![c].turn = "stored"]
            /\ answered' = answered \cup {i} /\ UNCHANGED dropped
         \/ s \notin Stored /\ NoFault /\ TurnFails(c) /\ UNCHANGED <<redis, answered, degraded>>
    /\ UNCHANGED <<memory, index, active, asked, crossed>>

\* The call fails, with its effect or without, and the in-memory copy takes
\* the reply; the turn is over.
CommitFallback(c) ==
    LET s == conn[c].sess IN
    /\ conn[c].turn = "commit" /\ Fault
    /\ \E i \in conn[c].msg :
         /\ \/ UNCHANGED <<redis, answered>> /\ dropped' = dropped \cup {i}
            \/ /\ s \in Stored /\ redis' = Answer(redis, s, i, conn[c].ctx \cup {i})
               /\ answered' = answered \cup {i} /\ UNCHANGED dropped
         /\ memory' = IF s \in DOMAIN memory THEN Answer(memory, s, i, conn[c].ctx \cup {i}) ELSE memory
         /\ degraded' = degraded \cup {i}
    /\ conn' = [conn EXCEPT ![c] = EndTurn(@)]
    /\ UNCHANGED <<index, active, asked, crossed>>

\* loadSession, the in-memory copies, the final frames.
Finish(c) ==
    LET s == conn[c].sess IN
    /\ conn[c].turn = "stored"
    /\ \/ /\ s \in Stored /\ NoFault
          /\ memory' = [Upsert(memory, s, redis[s]) EXCEPT ![s].ctx = conn[c].ctx \cup conn[c].msg]
          /\ index' = Touch(s)
       \/ Fault /\ UNCHANGED <<memory, index>>
       \/ s \notin Stored /\ NoFault /\ UNCHANGED <<memory, index>>
    /\ conn' = [conn EXCEPT ![c] = EndTurn(@)]
    /\ UNCHANGED <<redis, active, historyVars>>

-----------------------------------------------------------------------------
(* The client, the process and Redis's clock                               *)

\* The connection closes; a turn goes on.
Disconnect(c) ==
    /\ conn[c].loop = "ready"
    /\ conn' = [conn EXCEPT ![c] = IF Busy(c) THEN [@ EXCEPT !.loop = "closed"] ELSE NoConn]
    /\ NoFault
    /\ UNCHANGED <<storeVars, historyVars>>

\* The process restarts: connections, turns and memory are gone.
Restart ==
    /\ Fault
    /\ conn' = [c \in Conn |-> NoConn]
    /\ memory' = NoSession
    /\ dropped' = dropped \cup UNION {conn[c].msg : c \in {d \in Conn : conn[d].turn # "none" \/ conn[d].fresh}}
    /\ UNCHANGED <<redis, index, active, asked, answered, degraded, crossed>>

\* A session idle for the store's TTL lapses in both stores.
Lapse(s) ==
    /\ s \in Stored /\ Fault
    /\ redis' = Drop(redis, s) /\ memory' = Drop(memory, s)
    /\ active' = active \ {s}
    /\ UNCHANGED <<index, conn, historyVars>>

\* Its keys may lapse apart: a reply does not refresh the ids, nor a question
\* the context.
LapsePart(s) ==
    /\ s \in Stored /\ redis[s].log # <<>> /\ Fault
    /\ IF redis[s].log[Len(redis[s].log)].by = "copilot"
       THEN redis' = [redis EXCEPT ![s].ids = {}]
       ELSE redis' = [redis EXCEPT ![s].ctx = {}]
    /\ degraded' = degraded \cup redis[s].ids
    /\ UNCHANGED <<memory, index, active, conn, asked, answered, dropped, crossed>>

-----------------------------------------------------------------------------
Session(c) == Connect(c) \/ Create(c) \/ NewChat(c) \/ SwitchSession(c) \/ Sync(c) \/ Disconnect(c)
Message(c) == \E i \in Id : Send(c, i) \/ SendRepeated(c, i) \/ SendFallback(c, i)
Turn(c)    == LoadContext(c) \/ Run(c) \/ Commit(c) \/ CommitFallback(c) \/ Finish(c)

Next == \/ \E c \in Conn : Session(c) \/ Message(c) \/ Load(c) \/ Turn(c)
        \/ Activate \/ ListSessions \/ Restart \/ (\E s \in Sess : Lapse(s) \/ LapsePart(s))

Spec == Init /\ [][Next]_vars

-----------------------------------------------------------------------------
(* Properties                                                              *)

Count(log, e) == Cardinality({k \in DOMAIN log : log[k] = e})

\* TestCopilotWS_AcksDurableMessageAndDeduplicatesReplay: however often a
\* client sends a message again, from whatever connection and after however
\* much trimming, the conversation holds it once and one reply to it, unless
\* a call to Redis failed in its handling or its id's key lapsed.
AnsweredOnce ==
    \A s \in Stored, i \in Id \ degraded :
        Count(redis[s].log, Question(i)) =< 1 /\ Count(redis[s].log, Reply(i)) =< 1

\* A reply lands in the conversation its question was asked in, although the
\* turn reads the connection's session only when it commits.
ReplyWhereAsked ==
    \A s \in Stored : Replied(redis[s]) \cup redis[s].ctx \subseteq asked[s]

\* What keeps a message from being sent again is that it was answered, is
\* being handled, or was dropped in one of the ways the history records; the
\* connection that handles it is on the session it belongs to.
AcceptedAccounted ==
    \A s \in Stored : \A i \in redis[s].ids \ (answered \cup dropped) :
        \E c \in Conn : conn[c].sess = s /\ i \in conn[c].msg /\ Busy(c)

\* copilot_chat.go:506-507: the history a turn is given does not hold the
\* question the turn is about to ask, unless another turn crossed it.
AskedOnce ==
    \A c \in Conn : conn[c].turn # "none" => conn[c].msg \cap conn[c].past \subseteq crossed \cup degraded

\* copilot_chat.go:697: a reply on show is part of the context of the turns to
\* come, unless two turns ran on the session at once, a call to Redis failed or the
\* context lapsed.
ContextKeepsUp ==
    \A s \in Stored : degraded = {} => Replied(redis[s]) \subseteq redis[s].ctx \cup crossed

\* copilot_chat.go:346, redis_store.go:240: a message is on show once with one
\* reply, is not in its own past, and is accounted for.
MessageOnce == TypeOK /\ AnsweredOnce /\ AskedOnce /\ AcceptedAccounted

-----------------------------------------------------------------------------
(* The inductive invariant behind them                                     *)

\* A turn of the connection's message runs, or is going to.
Handling(c) == conn[c].turn # "none" \/ conn[c].fresh

\* A connection has one message at a time, and the places of its read loop and
\* of its turn fit each other.
Fits(r) ==
    /\ r.loop = "load" => r.turn = "none" /\ r.msg # {}
    /\ r.fresh => r.loop = "load"
    /\ r.turn # "none" => r.loop \in {"ready", "closed"} /\ r.msg # {}
    /\ r.turn = "none" /\ r.loop # "load" => r.msg = {}
    /\ r.turn = "none" => r.ctx = {} /\ r.past = {}
    /\ \A i, j \in r.msg : i = j
ConnShape == \A c \in Conn : Fits(conn[c])

\* What a turn and the in-memory copy are to write was asked in the session.
TurnsBelong ==
    /\ \A s \in DOMAIN memory : memory[s].ctx \subseteq asked[s]
    /\ \A c \in Conn : Handling(c) => conn[c].msg \cup conn[c].ctx \subseteq asked[conn[c].sess]

\* Two turns on one session are recorded as crossed from the start.
TurnsCross ==
    \A c, d \in Conn : c # d /\ Handling(c) /\ Handling(d) /\ conn[c].sess = conn[d].sess
        => conn[c].msg \subseteq crossed

\* An id on show is known as seen, unless its key lapsed.
ShownIsSeen ==
    \A s \in Stored, i \in Id \ degraded : i \in Asked(redis[s]) \cup Replied(redis[s]) => i \in redis[s].ids

\* AnsweredOnce, told by the places in the log.
Once(log, e) == \A j, k \in DOMAIN log : log[j] = e /\ log[k] = e => j = k
ShownOnce ==
    \A s \in Stored, i \in Id \ degraded : Once(redis[s].log, Question(i)) /\ Once(redis[s].log, Reply(i))

\* A message under way has been seen, has no reply yet and is nobody else's.
OneTurnEach ==
    \A c \in Conn : Handling(c) /\ conn[c].sess \in Stored => \A i \in conn[c].msg \ degraded :
        /\ i \in redis[conn[c].sess].ids
        /\ conn[c].turn # "stored" => i \notin Replied(redis[conn[c].sess])
        /\ \A d \in Conn \ {c} : Handling(d) /\ conn[d].sess = conn[c].sess => i \notin conn[d].msg

\* Until its history is read, a new message is the last on show.
AskedLast ==
    \A c \in Conn : conn[c].fresh /\ conn[c].sess \in Stored =>
        \A i \in conn[c].msg \ (crossed \cup degraded) : i \notin Past(redis[conn[c].sess].log)

\* The connection that answers for an accepted message has, or will have, a turn.
SeenIsHandled ==
    /\ \A s \in Stored : \A i \in redis[s].ids \ (answered \cup dropped) :
         \E c \in Conn : Handling(c) /\ conn[c].sess = s /\ i \in conn[c].msg
    /\ \A c \in Conn : conn[c].turn = "stored" => conn[c].msg \subseteq answered

\* The context a turn works with is abreast of the replies, but for those of
\* turns that crossed it.
TurnAbreast ==
    \A c \in Conn : degraded = {} /\ conn[c].turn \in {"run", "commit"} /\ conn[c].sess \in Stored =>
        Replied(redis[conn[c].sess]) \subseteq conn[c].ctx \cup crossed

Inv == /\ TypeOK /\ ConnShape /\ ReplyWhereAsked /\ TurnsBelong /\ TurnsCross /\ ShownIsSeen
       /\ OneTurnEach /\ ShownOnce /\ AskedLast /\ AskedOnce /\ SeenIsHandled
       /\ TurnAbreast /\ ContextKeepsUp

-----------------------------------------------------------------------------
(* What comments promise beyond the above                                  *)

\* redis_store.go:413, listing cleans up the entries of sessions that have
\* expired or were deleted, and no others.
ListDropsOnlyGone == [][\A s \in Listed \ Listed' : s \notin Stored]_vars
=============================================================================
