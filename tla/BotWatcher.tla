----------------------------- MODULE BotWatcher -----------------------------
(***************************************************************************)
(* edin-bot: the /watch and /unwatch commands and the loop that keeps the  *)
(* watched systems' messages up to date                                    *)
(* (internal/edinbot/features/watcher/handler.go and loop.go).             *)
(*                                                                         *)
(* discordgo runs each command in a goroutine of its own, the loop runs in *)
(* another, and all of them meet only in discord.watched_systems and in    *)
(* Discord.  Each action below is one call to the control API, to Postgres *)
(* or to Discord.                                                          *)
(***************************************************************************)
EXTENDS Naturals, FiniteSets

CONSTANTS
    Channel,      \* Discord channels
    Slug,         \* system slugs
    Hash,         \* state hashes of a system's snapshot
    Absent,       \* the control API does not know the system
    MsgId,        \* Discord message ids
    Handler,      \* goroutines running a slash command
    Cap,          \* Config.MaxWatchesPerChannel
    MaxFaults,    \* bound on failed calls, restarts and outside interference
    MaxCommands,  \* bound on the commands issued
    MaxMoves      \* bound on the changes of the systems' state

\* A message shows the snapshot it was last rendered from; a row of
\* discord.watched_systems names a message and the hash it was saved with.
Message == [id : MsgId, ch : Channel, slug : Slug, shows : Hash]
Row     == [id : MsgId, ch : Channel, slug : Slug, hash : Hash]

VARIABLES
    live,        \* watch messages that exist in Discord
    rows,        \* discord.watched_systems
    data,        \* the control API's answer for each system
    reachable,   \* channels the bot can reach
    cmd,         \* the command each handler goroutine is running
    pc,          \* where the loop stands
    todo,        \* rows the loop listed and has still to process
    at,          \* the listed row being processed (at most one)
    seen,        \* the snapshot fetched for it (at most one)
    faults, commands, moves,   \* used up so far (bounds the model)
    lost,        \* history: ids of live messages no row will name again
    drifted      \* history: ids of messages whose edit and row disagree

vars == <<live, rows, data, reachable, cmd, pc, todo, at, seen,
          faults, commands, moves, lost, drifted>>

discordVars == <<live, lost, drifted>>
loopVars    == <<pc, todo, at, seen>>
envVars     == <<data, reachable>>
boundVars   == <<faults, commands, moves>>

\* A command that is not running, and one that is: the snapshot it fetched
\* and the message it posted or looked up are sets of at most one.
CmdPhase == {"idle", "snap", "get", "count", "post", "add", "undo",
             "lookup", "delete", "remove"}
Command  == [pc : CmdPhase, ch : Channel, slug : Slug,
             snap : SUBSET Hash, msg : SUBSET MsgId]
NoCmd    == [pc |-> "idle", ch |-> CHOOSE c \in Channel : TRUE,
             slug |-> CHOOSE s \in Slug : TRUE, snap |-> {}, msg |-> {}]
LoopPhase == {"idle", "next", "edit", "save", "drop", "remove"}

TypeOK ==
    /\ live \subseteq Message
    /\ rows \subseteq Row
    /\ data \in [Slug -> Hash \cup {Absent}]
    /\ reachable \subseteq Channel
    /\ cmd \in [Handler -> Command]
    /\ pc \in LoopPhase
    /\ todo \subseteq Row /\ at \subseteq Row /\ seen \subseteq Hash
    /\ faults \in Nat /\ commands \in Nat /\ moves \in Nat
    /\ lost \subseteq MsgId /\ drifted \subseteq MsgId

Init ==
    /\ live = {} /\ rows = {}
    /\ data \in [Slug -> Hash]
    /\ reachable = Channel
    /\ cmd = [h \in Handler |-> NoCmd]
    /\ pc = "idle" /\ todo = {} /\ at = {} /\ seen = {}
    /\ faults = 0 /\ commands = 0 /\ moves = 0
    /\ lost = {} /\ drifted = {}

Fault == faults < MaxFaults /\ faults' = faults + 1 /\ UNCHANGED <<commands, moves>>
NoFault == UNCHANGED boundVars

-----------------------------------------------------------------------------
(* Discord                                                                 *)

LiveIds  == {m.id : m \in live}
Tracked  == {r.id : r \in rows}
InHand   == UNION {cmd[h].msg : h \in {g \in Handler : cmd[g].pc \in {"add", "undo"}}}
KnownIds == LiveIds \cup Tracked \cup {r.id : r \in todo \cup at}
            \cup UNION {cmd[h].msg : h \in Handler}

\* A new message gets the least id that nothing refers to any more.
NewIds == {n \in MsgId \ KnownIds : \A k \in MsgId \ KnownIds : n =< k}

\* The message is deleted, or was gone already: nil or ErrMessageNotFound.
Erase(id) ==
    /\ live' = {m \in live : m.id # id}
    /\ lost' = lost \ {id} /\ drifted' = drifted \ {id}

\* An error: the call may have taken effect before its answer was lost.
EraseErrs(c, id) ==
    /\ Fault
    /\ \/ c \in reachable /\ Erase(id)
       \/ UNCHANGED discordVars

-----------------------------------------------------------------------------
(* discord.watched_systems, primary key (channel_id, system_slug)          *)

RowsAt(c, s) == {r \in rows : r.ch = c /\ r.slug = s}

KeyFree(c, s) == RowsAt(c, s) = {}

\* RemoveWatch deletes by key, whatever message the row names by now.
RemoveRows(c, s) ==
    /\ rows' = rows \ RowsAt(c, s)
    /\ lost' = lost \cup ({r.id : r \in RowsAt(c, s)} \cap LiveIds)

-----------------------------------------------------------------------------
(* /watch                                                                  *)

Goto(h, p) == cmd' = [cmd EXCEPT ![h].pc = p]
Finish(h)  == cmd' = [cmd EXCEPT ![h] = NoCmd]

Issue(h) ==
    /\ cmd[h].pc = "idle"
    /\ commands < MaxCommands /\ commands' = commands + 1
    /\ \E c \in Channel, s \in Slug, p \in {"snap", "lookup"} :
         cmd' = [cmd EXCEPT ![h] = [NoCmd EXCEPT !.pc = p, !.ch = c, !.slug = s]]
    /\ UNCHANGED <<discordVars, rows, envVars, loopVars, faults, moves>>

WatchSnap(h) ==
    /\ cmd[h].pc = "snap"
    /\ \/ /\ data[cmd[h].slug] # Absent /\ NoFault
          /\ cmd' = [cmd EXCEPT ![h].pc = "get", ![h].snap = {data[cmd[h].slug]}]
       \/ data[cmd[h].slug] = Absent /\ NoFault /\ Finish(h)
       \/ Fault /\ Finish(h)
    /\ UNCHANGED <<discordVars, rows, envVars, loopVars>>

\* An error of the lookup is read as "not watched".
WatchGet(h) ==
    /\ cmd[h].pc = "get"
    /\ \/ ~KeyFree(cmd[h].ch, cmd[h].slug) /\ NoFault /\ Finish(h)
       \/ KeyFree(cmd[h].ch, cmd[h].slug) /\ NoFault /\ Goto(h, "count")
       \/ Fault /\ Goto(h, "count")
    /\ UNCHANGED <<discordVars, rows, envVars, loopVars>>

HasRoom(c) == Cardinality({r \in rows : r.ch = c}) < Cap

\* An error of the count is read as "there is room".
WatchCount(h) ==
    /\ cmd[h].pc = "count"
    /\ \/ HasRoom(cmd[h].ch) /\ NoFault /\ Goto(h, "post")
       \/ ~HasRoom(cmd[h].ch) /\ NoFault /\ Finish(h)
       \/ Fault /\ Goto(h, "post")
    /\ UNCHANGED <<discordVars, rows, envVars, loopVars>>

\* The messages Discord may create for the command of h.
NewMessages(h) == [id : NewIds, ch : {cmd[h].ch}, slug : {cmd[h].slug}, shows : cmd[h].snap]

WatchPost(h) ==
    /\ cmd[h].pc = "post"
    /\ \/ /\ cmd[h].ch \in reachable /\ NoFault
          /\ \E m \in NewMessages(h) :
               /\ live' = live \cup {m}
               /\ cmd' = [cmd EXCEPT ![h].pc = "add", ![h].msg = {m.id}]
          /\ UNCHANGED lost
       \/ /\ cmd[h].ch \notin reachable /\ NoFault
          /\ Finish(h) /\ UNCHANGED <<live, lost>>
       \/ Fault /\ Finish(h) /\ UNCHANGED <<live, lost>>
       \/ /\ cmd[h].ch \in reachable /\ Fault /\ Finish(h)
          /\ \E m \in NewMessages(h) : live' = live \cup {m} /\ lost' = lost \cup {m.id}
    /\ UNCHANGED <<rows, drifted, envVars, loopVars>>

\* The row AddWatch inserts for the command of h.
NewRows(h) == [id : cmd[h].msg, ch : {cmd[h].ch}, slug : {cmd[h].slug}, hash : cmd[h].snap]

\* Mutant: a message whose row was refused is left where it is.
WatchAddMutant(h) ==
    /\ cmd[h].pc = "add"
    /\ \/ KeyFree(cmd[h].ch, cmd[h].slug) /\ NoFault /\ rows' = rows \cup NewRows(h)
       \/ ~KeyFree(cmd[h].ch, cmd[h].slug) /\ NoFault /\ UNCHANGED rows
    /\ Finish(h)
    /\ UNCHANGED <<discordVars, envVars, loopVars>>

WatchAdd(h) ==
    /\ cmd[h].pc = "add"
    /\ \/ KeyFree(cmd[h].ch, cmd[h].slug) /\ NoFault /\ Finish(h) /\ rows' = rows \cup NewRows(h)
       \/ ~KeyFree(cmd[h].ch, cmd[h].slug) /\ NoFault /\ Goto(h, "undo") /\ UNCHANGED rows
       \/ Fault /\ Goto(h, "undo") /\ UNCHANGED rows
       \* inserted, but the answer was lost
       \/ KeyFree(cmd[h].ch, cmd[h].slug) /\ Fault /\ Goto(h, "undo") /\ rows' = rows \cup NewRows(h)
    /\ UNCHANGED <<discordVars, envVars, loopVars>>

\* Ids that are live, that no row names, and that h alone still knew.
Dropped(h) == (cmd[h].msg \cap LiveIds) \ Tracked

\* Rolls back the message just posted; the result is ignored.
WatchUndo(h) ==
    /\ cmd[h].pc = "undo"
    /\ \/ cmd[h].ch \in reachable /\ NoFault /\ \E id \in cmd[h].msg : Erase(id)
       \/ /\ cmd[h].ch \notin reachable /\ NoFault
          /\ lost' = lost \cup Dropped(h) /\ UNCHANGED <<live, drifted>>
       \/ Fault /\ lost' = lost \cup Dropped(h) /\ UNCHANGED <<live, drifted>>
    /\ Finish(h)
    /\ UNCHANGED <<rows, envVars, loopVars>>

-----------------------------------------------------------------------------
(* /unwatch                                                                *)

UnwatchGet(h) ==
    /\ cmd[h].pc = "lookup"
    /\ \/ \E r \in RowsAt(cmd[h].ch, cmd[h].slug) :
            NoFault /\ cmd' = [cmd EXCEPT ![h].pc = "delete", ![h].msg = {r.id}]
       \/ KeyFree(cmd[h].ch, cmd[h].slug) /\ NoFault /\ Finish(h)
       \/ Fault /\ Finish(h)
    /\ UNCHANGED <<discordVars, rows, envVars, loopVars>>

\* isDiscordNotFound takes ErrMessageNotFound and ErrChannelGone alike for a
\* message that is gone; any other error keeps the row.
UnwatchDelete(h) ==
    /\ cmd[h].pc = "delete"
    /\ \E id \in cmd[h].msg :
         \/ cmd[h].ch \in reachable /\ NoFault /\ Erase(id) /\ Goto(h, "remove")
         \/ cmd[h].ch \notin reachable /\ NoFault /\ UNCHANGED discordVars /\ Goto(h, "remove")
         \/ EraseErrs(cmd[h].ch, id) /\ Finish(h)
    /\ UNCHANGED <<rows, envVars, loopVars>>

UnwatchRemove(h) ==
    /\ cmd[h].pc = "remove"
    /\ \/ NoFault /\ RemoveRows(cmd[h].ch, cmd[h].slug)
       \/ Fault /\ RemoveRows(cmd[h].ch, cmd[h].slug)
       \/ Fault /\ UNCHANGED <<rows, lost>>
    /\ Finish(h)
    /\ UNCHANGED <<live, drifted, envVars, loopVars>>

-----------------------------------------------------------------------------
(* The loop: runCycle and processOne                                       *)

NextRow == pc' = "next" /\ at' = {} /\ seen' = {} /\ UNCHANGED todo

CycleList ==
    /\ pc = "idle"
    /\ \/ NoFault /\ todo' = rows /\ pc' = "next"
       \/ Fault /\ UNCHANGED <<todo, pc>>
    /\ UNCHANGED <<discordVars, rows, envVars, cmd, at, seen>>

\* GetSystemWatchSnapshot for the next listed row.
Fetch ==
    /\ pc = "next"
    /\ \E r \in todo :
         /\ todo' = todo \ {r}
         /\ \/ /\ data[r.slug] = Absent /\ NoFault
               /\ pc' = "drop" /\ at' = {r} /\ UNCHANGED seen
            \/ /\ data[r.slug] \notin {Absent, r.hash} /\ NoFault
               /\ pc' = "edit" /\ at' = {r} /\ seen' = {data[r.slug]}
            \/ data[r.slug] = r.hash /\ NoFault /\ UNCHANGED <<pc, at, seen>>
            \/ Fault /\ UNCHANGED <<pc, at, seen>>
    /\ UNCHANGED <<discordVars, rows, envVars, cmd>>

CycleEnd ==
    /\ pc = "next" /\ todo = {}
    /\ pc' = "idle" /\ NoFault
    /\ UNCHANGED <<discordVars, rows, envVars, cmd, todo, at, seen>>

\* The message of row r, as the loop's edit finds it.
Found(r) == {m \in live : m.id = r.id /\ r.ch \in reachable}
Edited(r, x) ==
    live' = (live \ Found(r)) \cup {[m EXCEPT !.shows = x] : m \in Found(r)}

\* Mutant: an edit that failed is saved like one that succeeded.
EditMutant ==
    /\ pc = "edit"
    /\ \E r \in at, x \in seen :
         \/ NoFault /\ Found(r) # {} /\ Edited(r, x) /\ pc' = "save"
         \/ NoFault /\ Found(r) = {} /\ UNCHANGED live /\ pc' = "remove"
         \/ Fault /\ UNCHANGED live /\ pc' = "save"
    /\ UNCHANGED <<rows, lost, drifted, envVars, cmd, todo, at, seen>>

\* EditMessage reports a missing message and a channel it cannot reach alike.
Edit ==
    /\ pc = "edit"
    /\ \E r \in at, x \in seen :
         \/ /\ Found(r) # {} /\ NoFault /\ Edited(r, x)
            /\ pc' = "save" /\ UNCHANGED <<drifted, todo, at, seen>>
         \/ /\ Found(r) = {} /\ NoFault /\ UNCHANGED live
            /\ pc' = "remove" /\ UNCHANGED <<drifted, todo, at, seen>>
         \/ Fault /\ UNCHANGED <<live, drifted>> /\ NextRow
         \/ /\ Found(r) # {} /\ Fault /\ Edited(r, x)
            /\ drifted' = drifted \cup {r.id} /\ NextRow
    /\ UNCHANGED <<rows, lost, envVars, cmd>>

Saved(r, x) ==
    rows' = (rows \ RowsAt(r.ch, r.slug)) \cup {[q EXCEPT !.hash = x] : q \in RowsAt(r.ch, r.slug)}

\* Messages of these rows that do not show x.
Unlike(R, x) == {m.id : m \in {n \in live : n.shows # x /\ n.id \in {q.id : q \in R}}}

\* UpdateWatchState, by key: the row may name another message by now.
Save ==
    /\ pc = "save"
    /\ \E r \in at, x \in seen :
         \/ /\ (NoFault \/ Fault) /\ Saved(r, x)
            /\ drifted' = (drifted \ {q.id : q \in RowsAt(r.ch, r.slug)})
                          \cup Unlike({q \in RowsAt(r.ch, r.slug) : q.id # r.id}, x)
         \/ Fault /\ UNCHANGED rows /\ drifted' = drifted \cup ({r.id} \cap LiveIds)
    /\ NextRow
    /\ UNCHANGED <<live, lost, envVars, cmd>>

\* The system has left the data: delete the message, whatever comes of it.
Drop ==
    /\ pc = "drop"
    /\ \E r \in at :
         \/ r.ch \in reachable /\ NoFault /\ Erase(r.id)
         \/ r.ch \notin reachable /\ NoFault /\ UNCHANGED discordVars
         \/ EraseErrs(r.ch, r.id)
    /\ pc' = "remove"
    /\ UNCHANGED <<rows, envVars, cmd, todo, at, seen>>

Remove ==
    /\ pc = "remove"
    /\ \E r \in at :
         \/ (NoFault \/ Fault) /\ RemoveRows(r.ch, r.slug)
         \/ Fault /\ UNCHANGED <<rows, lost>>
    /\ NextRow
    /\ UNCHANGED <<live, drifted, envVars, cmd>>

-----------------------------------------------------------------------------
(* Restarts and the outside world                                          *)

Restart ==
    /\ Fault
    /\ lost' = lost \cup ((InHand \cap LiveIds) \ Tracked)
    /\ drifted' = drifted \cup {r.id : r \in {q \in at : pc = "save" /\ q.id \in LiveIds}}
    /\ cmd' = [h \in Handler |-> NoCmd]
    /\ pc' = "idle" /\ todo' = {} /\ at' = {} /\ seen' = {}
    /\ UNCHANGED <<live, rows, envVars>>

SystemMoves ==
    /\ moves < MaxMoves /\ moves' = moves + 1
    /\ \E s \in Slug, x \in Hash \cup {Absent} : data[s] # x /\ data' = [data EXCEPT ![s] = x]
    /\ UNCHANGED <<discordVars, rows, reachable, cmd, loopVars, faults, commands>>

LoseAccess ==
    /\ Fault
    /\ \E c \in reachable : reachable' = reachable \ {c}
    /\ UNCHANGED <<discordVars, rows, data, cmd, loopVars>>

RegainAccess ==
    /\ \E c \in Channel \ reachable : reachable' = reachable \cup {c}
    /\ NoFault
    /\ UNCHANGED <<discordVars, rows, data, cmd, loopVars>>

HandDelete ==
    /\ Fault
    /\ \E m \in live : Erase(m.id)
    /\ UNCHANGED <<rows, envVars, cmd, loopVars>>

-----------------------------------------------------------------------------
WatchStep(h) == WatchSnap(h) \/ WatchGet(h) \/ WatchCount(h) \/ WatchPost(h)
                \/ WatchAdd(h) \/ WatchUndo(h)
UnwatchStep(h) == UnwatchGet(h) \/ UnwatchDelete(h) \/ UnwatchRemove(h)
CommandStep(h) == WatchStep(h) \/ UnwatchStep(h)

Loop == CycleList \/ Fetch \/ CycleEnd \/ Edit \/ Save \/ Drop \/ Remove

Outside == Restart \/ SystemMoves \/ LoseAccess \/ RegainAccess \/ HandDelete

Next == (\E h \in Handler : Issue(h) \/ CommandStep(h)) \/ Loop \/ Outside

Spec == Init /\ [][Next]_vars

\* The loop's ticker keeps firing and a command, once accepted, runs to its end.
FairSpec == Spec /\ WF_vars(Loop) /\ \A h \in Handler : WF_vars(CommandStep(h))

-----------------------------------------------------------------------------
(* Properties                                                              *)

\* Every watch message is named by a row, is in the hands of the command that
\* posted it, or was lost in one of the ways the history records.
Accounted == LiveIds \subseteq Tracked \cup InHand \cup lost

\* A channel shows one message per watched system: of two commands racing for
\* the same system one rolls its message back, and the loop never posts.
OneMessagePerSystem ==
    \A m, n \in live :
        {m.id, n.id} \cap (InHand \cup lost) = {} /\ m.ch = n.ch /\ m.slug = n.slug => m = n

\* A row tells what its message shows, except while the loop is between the
\* edit and the save, or when the history records that one of them was lost
\* or reached another watch's row.
RowTellsMessage ==
    \A r \in rows, m \in live :
        m.id = r.id /\ m.shows # r.hash => r.id \in drifted \/ (pc = "save" /\ r.id \in {q.id : q \in at})

\* Commands that have passed the count and have not yet inserted.
Admitted(c) == {h \in Handler : cmd[h].ch = c /\ cmd[h].pc \in {"post", "add"}}

\* The count is taken long before the insert, so the cap is not kept; but it
\* is overshot by no more than the commands running at once, plus one for
\* every count that failed.
CapOvershoot ==
    \A c \in Channel :
        Cardinality({r \in rows : r.ch = c}) + Cardinality(Admitted(c))
            =< Cap - 1 + Cardinality(Handler) + faults

\* Once the systems' state has settled, every watch message that a row names
\* comes to show it, unless its edit and its row have come apart.
KeptCurrent ==
    <>[](\A r \in rows, m \in live :
            m.id = r.id /\ m.id \notin drifted => m.shows = data[r.slug])

\* handler.go:265, loop.go:135: a message is not forgotten, and a row tells what
\* it shows.
WatchesTell == TypeOK /\ Accounted /\ RowTellsMessage

\* handler.go:163: one message per system, and few more than the cap.
WatchesFew == OneMessagePerSystem /\ CapOvershoot

-----------------------------------------------------------------------------
(* The inductive invariant behind them                                     *)

\* A command has at most one snapshot and one message in hand, the snapshot
\* from when it is fetched and the message from when it is posted; the loop has
\* one row and one snapshot.
Shapes ==
    /\ \A h \in Handler : /\ \A i, j \in cmd[h].msg : i = j
                          /\ \A x, y \in cmd[h].snap : x = y
                          /\ cmd[h].pc \in {"get", "count", "post", "add", "undo"} => cmd[h].snap # {}
                          /\ cmd[h].pc \in {"add", "undo"} => cmd[h].msg # {}
    /\ \A r, q \in at : r = q
    /\ \A x, y \in seen : x = y

\* Discord gives an id once, and the table has its primary key.
LiveUnique == \A m, n \in live : m.id = n.id => m = n
RowKey     == \A r, q \in rows : r.ch = q.ch /\ r.slug = q.slug => r = q

\* A row, listed or not, is of the channel and system its message is of.
RowsFit == \A m \in live, r \in rows \cup todo \cup at : r.id = m.id => r.ch = m.ch /\ r.slug = m.slug

\* So is a command; and the message whose row it is about to insert is as it
\* was posted, because no row names it and the loop cannot have it listed.
HandsFit ==
    \A h \in Handler :
        /\ cmd[h].pc \in {"add", "undo"} => \A m \in live : m.id \in cmd[h].msg =>
              m.ch = cmd[h].ch /\ m.slug = cmd[h].slug /\ (cmd[h].pc = "add" => m.shows \in cmd[h].snap)
        /\ cmd[h].pc = "add" => /\ \A r \in rows \cup todo \cup at : r.id \notin cmd[h].msg
                                /\ \A g \in Handler \ {h} : cmd[g].pc = "add" => cmd[g].msg \cap cmd[h].msg = {}

\* Between the edit and the save the message shows what is to be saved.
SaveShows == pc = "save" => \A m \in live, r \in at : m.id = r.id => m.shows \in seen

Inv == /\ TypeOK /\ IsFiniteSet(rows) /\ Shapes /\ LiveUnique /\ RowKey /\ RowsFit /\ HandsFit /\ SaveShows
       /\ Accounted /\ RowTellsMessage /\ CapOvershoot
=============================================================================
