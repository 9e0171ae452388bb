# edin-backend: models and proofs

TLA+ models of edin-backend, the TLC runs that check them on small instances,
and TLAPS proofs about them. What they ask is what depends on the order in which
goroutines, requests, ticks, restarts and failing calls meet, and what an answer
put together from several reads can be trusted to say.

- [Inventory](#inventory): the system's parts, what each keeps and does
- [Modules](#modules): what is modelled and how it corresponds to the code
- [Runs](#runs): instances, bounds, what each shows
- [Fairness](#fairness)
- [Proofs](#proofs)
- [Where the code and its comments disagree](#where-the-code-and-its-comments-disagree)
- [Not modelled](#not-modelled)
- [Plan](#plan)

`PROJECT.json` holds the same information by definition: which lines each
definition stands for, which mutation of the code each property rejects, and
the hazards, at the line where they bite, with the properties that cover them.

## Inventory

Two programs are built from the repository: **control-api**
(`cmd/control-api`), an HTTP, WebSocket and MCP server, and **edin-bot**
(`cmd/edin-bot`), a Discord bot that talks to control-api. They share Postgres
and Redis; both are restarted at will and run one instance each. A listener that
is not in the repository writes the galaxy data they read.

| Part | Keeps | Operations | What is hard | What makes it correct |
|---|---|---|---|---|
| **bot publisher and scheduler** (`edinbot/publisher`, `scheduler`, `store`) | `posted_messages`, `disabled_bindings`; messages in Discord | a poll per binding and period: wipe and repost; `/admin/clear`; disable on a lost channel | Apply and ClearHistory run with no lock between them; each Discord and Postgres call can fail after taking effect; restarts, also with another channel | no message forgotten, none posted twice, the old set gone before the new one, no work for a disabled binding, a healthy binding is brought up to date |
| **bot watcher** (`features/watcher`) | `watched_systems`; a message per watch | `/watch`, `/unwatch`, the minute loop that edits changed messages | commands run concurrently with each other and the loop, which works on rows listed earlier | one message per system, rows tell what messages show, messages follow the data |
| **bot mining alerts** (`features/platinum.go`, `ltd.go`, `render.go`, `authclient`, `controlclient`) | a token behind a lock, a health record per binding | poll with retries, filter, rank, hash | two loops share a token fetched under its lock; retries last longer than a tick | the token sent is alive, health follows the last answers, items tell the response |
| **bot ops alerts** (`features/ops_health.go`, `scheduler/opsbus.go`) | open outages per binding and reason, subscriptions | fold events, emit one-item snapshots, seed from posted rows at start | full channels drop events; one-item snapshots meet wipe-and-repost; restarts | an outage is told as the events told it, a resolved one is not open again |
| **commander sessions** (`auth/commander_jwt.go`, `httpapi/commander_auth.go`, `commander_session.go`) | in Redis: tokens per commander, revoked tokens, Frontier records; approval in Postgres | login (two callbacks), refresh, logout, lockout by deny, revoke, unlink or link, approve | every step is a Redis call of its own; two sets with one TTL each; refresh races lockout | a working token can be found and revoked; a lockout holds; a revocation lasts as long as its token |
| **commander linking and access** (`commander_linking.go`, `commander_allowlist.go`, `authentik`, `kaine_admin_commanders.go`) | commander rows, Authentik users and groups | shadow user, link, unlink, grant, revoke, approve, deny, edit a user's groups | two systems updated one after the other; "already exists" taken for one's own; groups changed by read and write-back | links only to one's own or a chosen user and none shared; sessions follow link and approval; a grant or revoke has done what it says |
| **pending logins and Frontier tokens** (`commander_auth.go`, `commander_client_auth.go`, `frontier/client.go`) | an in-memory map and counter, desktop poll sessions and Frontier records in Redis | start, consume, sweep, poll, refresh | count, insert and delete are separate steps; read and delete are two calls; a refresh token can be spent once | the counter counts, a token is collected or accounted for, a record lives with its session |
| **journal ingest and queries** (`commander_ingest.go`, `store/commander_repository.go`, `commander_query.go`) | journal events | batch insert with a conflict key, retention, pages | retries of half-done batches; two events of one second; pages that move | counts add up, what is acknowledged is stored, a walk through the pages misses nothing that stayed |
| **presence and rate limits** (`commander_presence.go`, `security/rate_limit.go`) | presence keys, token buckets | heartbeat, read, allow | writes overtake one another, expiry | bounded staleness, bounded bursts |
| **conversation store** (`llm/redis_store.go`, `session_store.go`) | sessions, messages, seen ids, provider context, index and active pointer in Redis; a copy in memory | create, append once, commit a turn, load, list, activate | a failed Redis call silently turns to memory; keys lapse apart; trimming | one question and one reply per message id, context abreast of replies |
| **copilot chat** (`httpapi/copilot_chat.go`) | a session, history and turn flag per WebSocket | message, new chat, switch, sync, turn | turns outlive connections; clients resend; several connections share a session | a reply lands where it was asked; nothing accepted is forgotten unnoticed |
| **kaine chat** (`kaine_chat.go`, `kaine_chat_nonce.go`) | nonces, the same store the older way | connect, message, new, switch | turns run in the read loop, so pongs wait | a nonce admits once, only overlong turns cost a connection, the context matches what is shown |
| **assistant runner** (`assistant`) | a provider context per session | bounded tool loop, compaction | every tool use must be answered before the next call, also after failures and compaction | a well-formed context, each tool announced and ended once |
| **tools, MCP, operator chat** (`tools`, `mcp`, `httpapi/server.go`) | sessions through the store | who is offered and may run what; tools over the galaxy | scopes come from several doors; question and reply are two appends | what is offered runs, replies follow questions |
| **voice** (`voice`) | one synthesis stream per turn, a tag parser | connect, speak, flush, dispose | shutdown while a reader writes; chunks end inside tags | no send after close, audio in order, the stream parses like the whole text |
| **updates hub** (`websocket/hub.go`) | a map of clients with a channel each | register, unregister, broadcast, drop the slow | a client is dropped while its pumps end | no write on a closed channel, updates without gaps, who leaves is forgotten |
| **kaine objectives** (`kaine/store.go`, `types.go`) | objectives, suggestions | life cycle | check and update are separate statements | stamps tell the path, nothing leaves a list by itself |
| **mining maps** (`kaine/store.go`, `httpapi/kaine.go`) | mining maps | edit, import of a spreadsheet | look-up and write are separate, one row of many fails | an undisturbed import merges in order, what is reported is there |
| **kaine analytics** (`kaine/plasmium.go`, `ltd.go`, `expansion.go`, `survey.go`, `survey_route.go`) | nothing | searches, export, route | several queries over data that moves; scores and cuts | only what was so at some moment of the search is shown, ranked as documented |
| **powerplay feed, cycle, standings** (`store/powerplay_cycle.go`, `merit_race.go`, cycle tool, `server.go`) | two in-memory caches | weeks, comparison, standings, page | tick boundaries, values missing, requests that fill one entry together | weeks fit together, the gap is the leader's, bounded staleness |
| **galaxy store and history** (`galaxystore`, `store/cache.go`) | nothing (reads `galaxy.*`, `feed.*`) | systems, inventories, markets, searches, histories, status | an answer is several queries, each of its own moment | nothing listed twice or lost, parts agree where the code means them to |
| **system intel** (`store/system_intel.go`, `kaine_systems_intel.go`) | nothing | a page in sections, events by pages | each section may fail; the feed grows under the pages | a section is told or absent, statistics add up, pages lose nothing but what the clock moves |
| **outside data clients** (`spansh`, `edsm`, `frontier`) | a clock of the last request | rate limit, job polling, batch | a mutex held while sleeping | requests apart, every call of a batch answered once |
| **memgraph, ops, diagnostics, game servers, dayz, configuration, HTTP plumbing, migration, old bot** | - | probes, one-off tools, I/O | - | - |

They interact by calls: edin-bot polls control-api over HTTP; control-api's
handlers call the stores directly; nothing but Postgres, Redis, Discord and
Authentik outlives a process. `internal/memgraph` is imported only by tests at
this commit; `galaxystore` has taken its place.

## Modules

| Module | What it is |
|---|---|
| `BotPublisher` | one binding: scheduler goroutine, `Apply`, concurrent `ClearHistory` calls, Discord, Postgres, restarts |
| `NoticeBoard` | what a binding promises readers of its channel; `BotPublisher` implements it |
| `BotWatcher` | `/watch`, `/unwatch` and the loop, over `watched_systems`, Discord and the control API |
| `BotAlerts`, `OpsOutages` | the polls of two mining alerts with their shared token; the operators' outages from the bus to the board |
| `CommanderSessions` | tokens, the two Redis sets and the requests that touch them, with a clock |
| `CommanderAccess` | commander rows, Authentik's users and groups, and the requests that decide, grant, revoke, link and unlink |
| `PkceStore`, `DesktopLogin`, `FrontierTokens` | logins waiting for Frontier: the browser's map and counter, the desktop client's polls, Frontier's tokens through refreshes |
| `JournalIngest`, `Presence`, `TokenBucket` | uploads, retention and paging; heartbeats; the limiter both extend |
| `CopilotChat` | conversations in Redis and in memory, connections and their turns |
| `AssistantTurn`, `TagParser`, `VoiceTurn` | the tool loop and its context; the reply's tags, whole and streamed; the synthesis stream |
| `OperatorChat` | the assistant over HTTP and MCP, and who may run which tool |
| `KaineObjectives`, `MiningMaps`, `KaineChat` | the portal's objectives, maps with their import, and chat |
| `MiningSearch`, `Survey` | the portal's searches, the survey's export and route |
| `PowerplayFeed`, `StandingsCache`, `PageCache` | weeks, standings, the cycle tool; the two caches |
| `GalaxyReads`, `GalaxyHistory`, `SystemIntel`, `ExpansionTools` | what is read of the galaxy, query by query, while it is written |
| `SpanshClient` | the rate limit, polled jobs and the batch |
| `UpdatesHub` | the hub of live updates with the pumps of every connection |
| `Bots_proofs`, `CommanderAccess_proofs`, `CommanderSessions_proofs`, `Kaine_proofs`, `Galaxy_proofs`, `Live_proofs`, `CopilotChat_proofs`, `Accounts_proofs` | proofs |
| `MCBots`, `MCLive`, `MCAccounts`, `MCCopilotChat`, `MCKaine`, `MCGalaxy` | instances for TLC |

Conventions. An action is one call to a store, to Discord or to a model, with
the local code around it, because that is the grain at which goroutines
interleave; where goroutines share memory it is one access. A call that fails may have taken effect before its answer was
lost, wherever its caller could not tell. Faults of every kind (a failed call,
a restart, a lost channel, a message deleted by hand, a lapsed key) draw on one
bound. Variables marked *history* are not in the code: they record
the ways in which something was lost, so that an invariant can say "in these
ways and no other". Identifiers that are never reused (Discord snowflakes,
uuids) are the least id nothing refers to any more. A local that holds at most
one thing is a set with at most one element, and so is a column that may be
NULL. `MC` modules instantiate several components that share no state; a variable
`part` says of which one a behaviour is, so that their state spaces add up and do
not multiply.

**BotPublisher.** `live` is Discord, `rows` is `discord.posted_messages`,
`disabled` the tombstone in `discord.disabled_bindings`, `bound` the channel in
`bindings.yml`; `pc`, `todo`, `items` and `cur` are the locals of `runPoll` and
`Apply`; `clear[k]` those of one `ClearHistory`. `Tick`, `PollHealthy` and
`PollFails` are `runPoll`; `ApplyCheck`, `ApplyRead`, `WipeDelete`, `WipeRows`,
`PostItem`, `Upsert`, `ApplyDone`, `Disable` are `Apply` in order, and
`ClearStart` ... `ClearEnable` are `ClearHistory`. A snapshot is any set of
items; the order in which they are posted and how they look are left out. So
are `poll_cycles` rows, which only the health oracle reads, and the strike and
repost paths, which nothing calls.

**NoticeBoard.** A board with an edition: it is emptied before it is filled,
only subjects of the edition go up, and no subject twice. A notice the keeper
has lost track of is astray and never counts as up again. In `BotPublisher` the
edition is the last healthy snapshot, the board is filled in the phases
`post` and `upsert`, and the astray notices are the orphans.

**BotWatcher.** `rows` is `discord.watched_systems` with its primary key (channel,
system); a message `shows` the snapshot it was rendered from and a row remembers
the hash it was saved with. `cmd[h]` is one slash command (discordgo runs each
in a goroutine of its own); `pc`, `todo`, `at`, `seen` are the loop's locals. The
loop's list, snapshot, edit and save are separate steps, so rows go stale under
it. `data` moves by itself, up to `MaxMoves` times.

**BotAlerts.** `poll[f]` is a binding's `runPoll` with the feature's `Poll` inside
it: `Tick` takes the ticker's or the trigger's one slot, `Token` the token client's
lock (`holder`), `Fetch`, `Fetched` and `FetchFails` the request for a token made
under it, `Answered` and `RequestFails` the request to the control API, `Again` the
wait before the next attempt, `Applied` the end of the publisher's work.
Time is counted in the HTTP client's timeout, so that retries, the token's life
and lead time, the interval and the oracle's grace can overtake each other. What
becomes of a response (deduplication, freshness, the cut, sort key, hash)
is an operator, checked against what it should list (`ItemsTell`).

**OpsOutages.** `bus`, `bridge` and `out` are the three channels, with their slots;
`Handle` folds an event into `live`, the feature's map, and `Flush` emits a snapshot
for each outage that changed; `Deliver` is the scheduler's loop applying it to
`board`; `Restart` seeds the map from what is posted. `truth` records what the events
told.

**CommanderSessions.** `tracked` is `commander:jtis:{fid}`, `revoked` is
`edin:revoked_jtis`, each with the time Redis drops it (`trackTill`,
`revokeTill`); `frontier` is the set of Frontier records, `req[h]` the request a
goroutine serves. `SADD` on a set that does not exist creates one without TTL;
`EXPIRE` and `EXPIREAT` set the TTL of the whole set, and one in the past drops
it. `RevokeJTI` is one step whose failures are those of its two calls. Both Frontier callbacks
issue and track a token alike and share the `Login` actions. The signature of a
token is always good; how a login comes to be let in is `CommanderAccess`.

**CommanderAccess.** `rows`, `link` and `approved` are `commander.commanders`
with its unique index on `authentik_user_id`; `exist`, `owner` and `groups` are
Authentik, where a shadow user is one whose name is a commander's fid. `req[h]`
is the request a goroutine serves: `LoginUpsert` ... `LoginPersist` are a login
up to `ensureCommanderLink`, `LoginDecide` and `LoginGroups` are
`resolveCommanderAccess`, and `LoginIssue` signs the session. `Grant...`,
`Revoke...`, `Link...`, `Unlink...`, `Deny` and `Approve` are the admin's handlers
and `Edit...` the group changes of the users tab. A request that read something
another step then changed is `stale`, and a session no lockout will reach is
`loose`; both are history. `revokeAllSessions` is one step here, since
`CommanderSessions` takes it apart; logout and expiry are left out, because they
only remove sessions and no guard looks at one. Groups are names that carry some
scope: which one matters to no decision. `Delete` is an operator removing a
user in Authentik.

**PkceStore, DesktopLogin, FrontierTokens.** `items` is the `sync.Map` of states,
`count` the atomic counter; `StoreCheck`, `StorePut`, `StoreAdd` are one login,
`Consume` the callback's `LoadAndDelete`, `SweepSee`, `SweepDelete` and `Subtract` the
sweep, which subtracts for what it has seen whether its `Delete` found it or not.
In `DesktopLogin`, `session` and `way` are the two Redis keys of a login with times
of their own; `Lookup`, `Exchange`, `Complete`, `Spend` are the browser's callback and
`Read`, `Del` a poll. In `FrontierTokens`, `record` is `edin:frontier_token:{jti}`,
which `RefreshRead`, `RefreshRenew` and `RefreshIssue` move to the new session;
`spent` are the refresh tokens Frontier has taken.

**JournalIngest, Presence, TokenBucket.** An upload is a transaction of single
inserts with a unique key (second, type): `Insert` waits for a key another
uncommitted transaction holds, `Rollback` is a failure or a deadlock ended by
Postgres, and the client sends again what it has no answer for. `Drop` is the
retention policy; `Open`, `Turn`, `Close` are a client walking the pages. `Presence`
stamps a heartbeat and writes it in another step. Both take the limiter's
operators from `TokenBucket`, whose burst bound is checked on what was let through.

**CopilotChat.** A session's copy is its messages on show
(trimmed to `MaxMessages`), the client message ids it has seen and the provider
context, abstracted to the turns in it. `Ask` and `Answer` are the two Lua scripts and
the methods under the in-memory mutex; `Upsert` is how a load refreshes memory.
`redis`, `memory`, `index` and `active` are the store (the index, a sorted set, is the order of its members); `conn[c]` is a connection's
read loop and its turn, which may go on after the loop has closed. `Send` is
`AppendMessageOnce` answered by Redis, `SendFallback` answered by memory,
`SendRepeated` repeated by go-redis after a lost answer; `Load` is the load and
acknowledgement after it; `LoadContext`, `Run`, `Commit`, `CommitFallback`, `Finish`
are a turn. `CreateSession` that Redis executed but did not answer leaves a session
whose id nobody holds; it is left out. Commands of the read loop that end in an
error frame and change nothing are left out too.

**AssistantTurn, TagParser, VoiceTurn.** `Call` is one answer of the model, any
text with any tool uses; `Invoke` runs one tool, `Results` puts their results into
the context, `Encode` is what the turn leaves in the store, after compaction. In
`TagParser` a text is words and halves of tags; `Feed` gives the streaming parser a
chunk of any length, and its segments are compared with those the other parser
finds in the whole text. In `VoiceTurn`, `Dispose`, `Cancel` and `CloseChannel`
are the end of a turn (`Cancel` is `cancelCtx` and the connection's `Close` in one, the latter's last write
included), `Read` and `Put` the goroutine that reads ElevenLabs,
`Take` and `Forward` the one that writes to the client.

**OperatorChat.** `Refuse` and `CallTool` decide by `Caller`: the door, the key it
bears and its groups, through the scopes each door makes of them. `Open`, `Run`,
`StoreQuestion`, `StoreReply` are a question; Redis `Goes` and `Comes`, and while it
is gone sessions live in memory.

**KaineObjectives, MiningMaps, KaineChat.** `TransitionCheck` reads and checks,
`TransitionWrite` writes whatever the state is by then, `UpdateObjective` (PUT) and
`DeleteObjective` write unchecked; `irregular` records the objectives a write took
out of the life cycle. An import is `ImportStart`, then per row `ImportLookup` and
`ImportCreate` or `ImportUpdate`, by the id found. In `KaineChat` a turn is `Say`, `Load`,
`Run` and `Commit` in the connection's read loop; `Drop` is its read deadline.

**MiningSearch, Survey, ExpansionTools.** Systems have places on a plane, and a
search is its queries in order (`ReadMaps`, `ReadStates`, `ReadStations`, ... or
`Check`, `Reference`, `Controlled`, ...), with `Change` or `Hear` between any two of them.
Filters, scores, ties and cuts are those of the code; the properties compare the
answer with what held at the moments of its queries.

**PowerplayFeed, StandingsCache, PageCache.** `GetCycleForTime` and the tool's own
tick arithmetic are operators over `now`; the tool's two reads see the feed at two
moments. The standings cache is `Ask` (hit or miss), `Query`, `Counts`, `Store`,
`Answer`, by any number of requests; what a query returns is told by the moment it
was made. The page is `RefreshRead` and `RefreshStore` in one goroutine, and `Show`; the goroutine's
ticker starts after its first refresh, and its channel keeps one tick that comes during a later one.

**GalaxyReads, GalaxyHistory, SystemIntel.** `History` (or `Looks`) is
what `galaxy.*` holds, moment by moment, and `Hear` or `Pass` goes on to the next. A
call has a `Plan`, the queries it makes in order; one action is one query. The
order within lists of stations, factions or goods is left out, as are columns
that are passed on untouched. The assistant's tools (from `ToolInit` on) call the same
store after resolving their arguments. Whose a market is (`Owners`) is a station's,
settlement's, fleet carrier's or stronghold carrier's, and a body without a row
is not found by the search for signals (`Rowed`). `SystemIntel` adds a
reader who turns the events' pages while messages arrive. Its lists end at their limits (100
updates of markets, 100 jumps, 5000 goods, 20 kinds of software): a query may return any set of rows that
leaves out no row of higher order (`Foremost`), and the two market lists end independently.

**SpanshClient.** `Step(i)` is a goroutine of the batch: the semaphore, the
client's mutex with the sleep under it (`holder`), the request, the polls of
its job. `Leave` is the caller's context ending. `Send` takes the release of the mutex and the request
after it as one step: what is spaced is the moment at which the mutex is given up.

**UpdatesHub.** `Loop` is the hub's select: take an update and give it to the
clients one by one, register, unregister. A client that hears too little is
dropped halfway. `ReadFails`, `ReaderCloses`, `Write` and `WriterEnds` are the pumps.

## Runs

| Run | Instances | Shows |
|---|---|---|
| `bots` | binding: 2 items, 2 channels, 2 faults, one of which may be a clear; watcher: 2 systems, 2 commands at a time of 3, cap 1, 2 faults; alerts: 2 bindings, 3 responses, 2 faults, time to 13; outages: 2 bindings (1 watched), 2 reasons, 4 events, 1 restart, channels of one slot | `Accounted`, `NoDuplicates`, `QuietWhenDisabled`, `OldSetVanished`, `KeepsBoard` of the publisher; `WatchesHold` of the watcher; `AlertsHold` of the alerts; `OutagesHold` of the outages |
| `live` | binding: 2 items, 1 channel, 1 clear or 1 fault; watcher: 1 system, 2 commands, 1 move, 1 fault; voice: 3 chunks, 1 slot; hub: 2 clients, 2 updates, channels of one slot; fair | `BindingPublishes`, `WatchesCurrent`, `StreamsEnd` (liveness), `VoiceHolds`, `HubHolds` |
| `access` | 2 commanders, 4 users (1 there from the start), 2 groups (1 managed), 2 requests at a time, 3 admin requests or deletions, 1 fault | `LinksTell`, `SessionsMatch`, `DecisionsStand`, `LoginLinks` |
| `sessions` | 1 commander, 2 requests at a time of 3, clock to 3, tokens live 2, 1 fault | `SetsTell`, `LockoutHolds` |
| `accounts` | pkce: 4 states, 2 logins at once, cap 1, clock to 3; desktop: 1 session, 2 callbacks, 2 polls, 2 tokens, 1 fault; Frontier: 3 sessions, 3 grants, 2 refreshes, 1 fault; ingest: 2 uploads at once of 4, 6 batches, 1 failure; presence: 5 heartbeats, 2 at once | `PendingCounted`, `LoginOnce`, `RecordsHold`, `UploadsHold`, `PresenceHolds` |
| `chat` | chat: 2 connections, 2 sessions, 2 message ids in 3 sends, 3 messages on show, 1 fault; turns: 2 turns of 2 iterations, 2 tool uses; tags: every text of up to 4 symbols and three longer ones; operators: 2 sessions, 2 requests, every kind of caller, 1 fault | `MessageOnce`, `ReplyWhereAsked`, `ContextKeepsUp`, `TurnsHold`, `StreamedIsParsed` |
| `kaine` | objectives: 2 objectives, 2 users, 2 handlers, 4 writes, clock to 1; maps: 2 keys (1 known), 2 values, 3 files, 2 imports, 4 requests, 1 fault; chat: 2 connections, 2 nonces, 2 turns of up to 3, 1 fault | `LifecycleHolds`, `ListedStays`, `ImportsHold`, `ChatHolds` |
| `galaxy` | weeks: 3 messages of 2 powers and 2 systems around a tick; caches: 2 requests, 1 fault; page: 2 faults, clock to 10; Spansh: 3 calls, 2 at a time; searches over 8 systems, survey over 7; reads and tools over 4 systems at 3 and 2 moments; intel: 8 messages, 7 requests, lists of 1 update or jump, 2 goods and 2 kinds of software; histories: 10 hourly rows at 3 moments; expansion: 9 systems at 2 moments | `PowerplayTells`, `PageHolds`, `PageStays`, `BatchesHold`, `SearchesHold`, `ReadsHold`, `PagesTurn` |
| `publisher_channel_change` | 1 item, 2 channels, 1 fault (the restart) | violation: the wipe leaves the old channel's message |
| `sessions_ttl` | as `sessions`, 4 requests, no fault | violation: a revocation ends before its token |
| `chat_list` | 1 connection, 1 fault | violation: listing drops a live session |
| `image_resent` | 1 tool use, 2 turns | violation: an image attached to one turn is in the next one's context |

What the composed properties say, part by part:

| Property | Parts | In words |
|---|---|---|
| `WatchesHold` | `Accounted`, `RowTellsMessage` (`WatchesTell`); `OneMessagePerSystem`, `CapOvershoot` (`WatchesFew`) | a watch's message is known to its row, to a command, or lost in a recorded way; a row's hash is of what its message shows; one message per system; the cap is passed by no more than the commands at work |
| `AlertsHold` | `TokenHolds`, `HealthTold`, `ItemsTell` | a token handed out is good at the server; a binding is told unhealthy only if a poll failed or went unrecorded; items list every wanted buyer once, by score, whatever the order of the answer |
| `OutagesHold` | `OutagesTold`, `OpenIsLive` | the map holds the outages the events told, and one shown as open can still be resolved |
| `SetsTell` | `Enumerable` | a token that works is in its commander's set, about to be, or astray in a recorded way; in particular the set's TTL outlasts its tokens |
| `DecisionsStand` | `GrantsStand`, `RevokesStand` | an undisturbed grant or revoke has done what it says |
| `LoginOnce` | `TokenAccounted`, `SingleUse` | an issued token waits in its session, is in hand, has been answered, or was lost in a recorded way; it is answered once, unless polls raced or a delete failed |
| `RecordsHold` | `RecordKept`, `Renewable` | a session has its record as long as its access token lives; the refresh token in it is unspent, unless refreshes of one session raced or one was not carried through |
| `UploadsHold` | `CountsAddUp`, `AckedStored`, `PagesCover` | the events counted as written are the rows that came to be; an acknowledged event has its row or had one when it was dropped; a client paging back sees every event that was there when it began, or it was dropped |
| `PresenceHolds` | `PresenceTells`, `BurstBound` | a page says live for exactly the TTL after the last write, and then a heartbeat is no older than the TTL and the time a write takes; no window of uploads lets through more than two buckets |
| `MessageOnce` | `AnsweredOnce`, `AskedOnce`, `AcceptedAccounted` | one question and one reply per message id; an accepted message was answered, is being handled, or was dropped in a recorded way; a turn is not given its own question as history |
| `TurnsHold` | `ContextPaired`, `SinceCompaction`, `EachEnds`; `RepliesFollow`, `OwnerLost`, `OfferedRuns` | every tool use has its result in every request and every stored context; nothing is lost but by compaction; what is announced as started ends; a reply follows its question; a session keeps its owner while Redis keeps it; what is offered is what runs, by whichever door |
| `ChatHolds` | `NonceOnce`, `LostByLongTurn`, `ContextTells` | a nonce admits once and in time; only a turn longer than the deadline costs a connection; the context holds every turn whose reply is shown, unless another ran beside it |
| `LifecycleHolds` | `Lifecycle` | an objective's stamps tell its path, unless a write has taken it out of the life cycle |
| `ImportsHold` | `ImportMerges`, `ReportKept` | an import nobody wrote beside merges its rows in order and reports it; what any import reports as written is there, or was removed or renamed |
| `PowerplayTells` | `WeeksAgree`, `CycleHolds`, `WeekCompared`, `StandingsTell`, `GapLeads`, `StatesAddUp`, `StandingsFresh` | the two ways to find a week agree; a moment is in the week it is said to belong to, but for a start; the tool answers with the week it names and compares it with the one before; a total is no more than was shown; the gap is between the first two; every system is counted once for each claim; a cached answer tells all that was there a TTL and the longest query before it was asked |
| `PageHolds` | `PageFresh` | while no refresh has failed, a page shown is at most the interval and two queries old |
| `BatchesHold` | `Spaced`, `BatchWhole` | no two requests are within a second; an answer has one result for every call, at its place |
| `SearchesHold` | `BuyersDue`, `TargetsBest`, `ExportWhole`, `RouteHolds` | every buyer or target was due at the query that read it, and one left out is no better or bears the name of another; an export tells every system in reach once per station; a route takes the stalest, and no leg passes by a nearer one |
| `ReadsHold` | see the last lines of `MCGalaxy` | facilities once, rings kept; goods no older than their header, which names a system of the market's owner; states of the system asked for, the best matches, counts that add up, a system's signals being those the search tells of it and those of bodies without a row; histories that agree; a check that holds; tools that tell what their rows say |
| `PagesTurn` | `SectionsTold`, `StatsAddUp`, `PagesWhole` | a section asked for is told or its query failed; an event is counted once in every breakdown; goods of a listed update are missing only at the goods' limit, for those of updates at least as new, and goods told are of a listed update, of a later one or of one beyond the list's limit; a reader of all time misses only events of equal stamps or those that came between count and list |
| `HubHolds` | `OpenWhileKnown`, `HeardWithoutGaps` | a channel is open while its client is known; each hears the updates in order without a gap |
| `VoiceHolds` | `NoSendOnClosed`, `HeardInOrder` | the reader never sends on a closed channel; audio is heard in order |
| `StreamsEnd` | `TurnEnds`, `Forgotten` | a spoken turn ends and its synthesis with it; who has left the hub is forgotten |

Every module's type invariant is checked in the run that instantiates it; the
composed invariants contain it.

The `MC` modules leave out some combinations, each by a named guard. `ClearedOnce`: a clear request
costs one of the binding's two faults. `Apart`, for liveness: a clear and a fault are not in one behaviour.
`LastAlone`: the chat's last send is made while there is only one connection. `EarlyNonce`: nonces of the
portal's chat are issued at the first moment. What is left out of the publisher and the chat is covered
by their proofs, which have no such guards.

Why the bounds are enough. For the publisher, two faults let a lost answer meet a restart or a
rebind, and one clear request meets every step of `Apply`; a second clear only
repeats the first one's effects on rows that are gone. Message ids are many
enough that a post never waits for one. Two commands
for one system and one for another, with a cap of one, are the least that race
for a key and for the last place. For tokens, two goroutines give every pair of
a login, a refresh, a logout and a lockout; the clock passes a token's expiry and
both sets' TTLs. For the chat, three sends of two ids give a repetition, and
three messages on show make a question leave the list while its id must still be
known. For access, two commanders compete for one user and one user changes
hands; three admin requests are a link, a grant and a revoke, or any other
sequence that makes and undoes a change; logins are not counted, and one fault
is the failure whose repair the next login owes. Three ids for shadow users are one more
than there are names: one user can be deleted and made again. Four PKCE states with a cap of
one let two logins pass it together while the sweep and a callback take the same
entry. The batches uploaded hold two events in both orders (a deadlock), two of one second, one too old and one
that is malformed. Objectives need two handlers for a raced transition and a
third write to undo it. For the reads, the moments are chosen so that each query of a call has
something to see that another did not: a carrier that jumps, a market rewritten
between its header and its goods, a body that comes before its ring. In the searches the
instance has a tie of scores, a station of one name in two places, an item on
each side of every cut. Clocks run past every TTL they are compared with.
`MaxFaults = 2` was explored for the chat to 13 million states without a
violation but does not finish in reasonable time.

`kaine`, `galaxy` and `accounts` do not check for deadlock: their requests, clocks and
moments are bounded, and when they are used up there is nothing left to do; so
with `image_resent`. Everywhere else it is checked: where a part ends by
nature (a spoken turn that is over, a text fully parsed) the run has a step that says so, and
anything else that stops is an error.

## Fairness

`live` assumes weak fairness of the scheduler's and
the loop's next step: each goroutine is driven by a ticker and blocks only on
calls with timeouts. It assumes it of an accepted clear request and of a
running slash command, which run to their end unless the process restarts.
For a spoken turn it is weak fairness of the turn's own end (`Cancel`, `CloseChannel`),
of time, of the reader, whose connection is closed or times out, and of the
forwarder, whose writes have a deadline. It is assumed, too, that `Close` returns: its
`WriteJSON` (`elevenlabs_client.go:135`) has no deadline, so a connection whose peer takes nothing could
hold the turn there until TCP gives up. For the hub it is weak fairness of the listener, the
hub's loop and every pump, and strong fairness of a client's registering and
leaving: the hub's select chooses at random among the cases that are ready, so a
case that is ready again and again is taken.
Nothing is assumed of new requests, of polls being healthy rather than failing
(failures are bounded instead), or of the outside world: the
liveness properties are conditional on the channel staying reachable and the
binding enabled, or on the message not having come apart from its row. The other
specifications state no fairness and their runs check safety only.

## Proofs

All theorems are checked by TLAPS and hold for every value of the constants
that meets the assumptions named.

| Module | Theorem | States |
|---|---|---|
| `Bots_proofs` | `Invariance`, `TypeCorrect` | the inductive invariant; `TypeOK` |
| | `NothingForgotten` | `Accounted`: a live message is tracked, in flight, or lost in a recorded way |
| | `AnnouncedOnce`, `DisabledIsQuiet`, `RebuildIsClean` | `NoDuplicates`, `QuietWhenDisabled`, `OldSetVanished` |
| | `Implementation` | `Spec => KeepsBoard`: the publisher implements `NoticeBoard` |
| | `WatchInvariance` | the watcher's inductive invariant |
| | `NoMessageForgotten` | `WatchesTell`: a watch message is known to its row, to a command, or lost in a recorded way; a row tells what its message shows |
| | `FewMessages` | `WatchesFew`: one message for each system of a channel, and the cap passed by no more than the goroutines and the failed counts |
| | `WatchesAlwaysHold` | `WatchesHold`: both, of the run's specification |
| | `OutageInvariance`, `OutagesAreTold` | `OutagesHold`: the map holds the outages the events told, each since its first failure; an outage shown as open can still be resolved |
| | `TokensAreGood` | `TokenHolds`, of `AlertsHold`: one at a time fetches a token, and a token handed out is good at the server |
| `CommanderAccess_proofs` | `Invariance`, `Typed` | the inductive invariant; `TypeOK`, with "a row is linked to one user at most" |
| | `LinksAreKnown` | `LinksTell`: a commander is linked to the user of their own name or one an admin chose, and no user to two |
| | `SessionsAreCovered` | `SessionsMatch`: a session that works matches the row, is about to be revoked, or is one of the recorded escapes |
| | `LoginsLink` | `LoginLinks`: a login none of whose calls failed and nobody got in the way of leaves the row linked, unless the user is taken or gone |
| | `DecisionsAreKept` | `DecisionsStand`: an undisturbed grant or revoke has done what it says |
| `CommanderSessions_proofs` | `Invariance` | the inductive invariant |
| | `TokensAreListed` | `SetsTell`: a token that works can be listed, or went astray in a recorded way |
| | `LockoutsHold` | `LockoutHolds`: after an undisturbed lockout no token works but those |
| `Accounts_proofs` | `Invariance`, `PendingIsCounted` | the counter is the pending entries but for logins between store and count and entries taken twice, and the cap is passed by no more than that |
| | `LoginsOnce` | `LoginOnce`: an issued desktop token waits, is in hand, was answered or was lost in a recorded way, and is answered once but for polls that raced |
| | `RecordsAreKept` | `RecordsHold`: a valid session has its Frontier record as long as its access token lives, with a grant that is good, unless one recorded failure or race took it |
| | `UploadsAreKept` | `UploadsHold`: what uploads count adds up to the rows, an acknowledged event is stored until retention drops it, and pages cover what was there |
| | `PresenceTellsTrue` | `PresenceHolds`: how old a commander shown as live can be; no window lets through more than two buckets |
| `Kaine_proofs` | `Invariance`, `PathsAreStamped`, `ListedEntriesStay` | `LifecycleHolds`: an objective's stamps tell its path; `ListedStays`: time alone takes nothing off a list |
| | `ChatInvariance`, `ChatsHold` | `ChatHolds`: a nonce admits one connection, and none once expired; a client that answers its pings is lost only after a turn longer than the deadline; a context has every reply its session shows, but for turns that crossed |
| `Galaxy_proofs` | `Invariance`, `PagesAreFresh`, `PagesNeverAge` | `PageHolds`; `PageStays`: a reader is never shown an older page than before |
| | `BatchInvariance`, `BatchesAreWhole` | `BatchesHold`: requests to Spansh are a wait apart and bounded in number, and a batch is answered whole |
| | `StandingsKept`, `AnswersAreFresh` | the standings cache's invariant; `StandingsFresh` |
| `Live_proofs` | `Invariance`, `UpdatesAreHeard` | `HubHolds`: no write on a closed channel, no update missed |
| | `VoiceInvariance`, `ChunksAreHeard` | `VoiceHolds`: no send on a closed channel; chunks are heard in order, and all of them when nothing failed |
| `CopilotChat_proofs` | `Invariance`, `MessagesAreOnce` | `MessageOnce`: one question and one reply per message id; an accepted message is answered, being handled, or dropped in a recorded way |
| | `RepliesStay`, `ContextsKeepUp` | `ReplyWhereAsked`; `ContextKeepsUp`: the stored context has every reply shown, but for turns that crossed |
| | `TurnsInvariance`, `TurnsAlwaysHold` | `TurnsHold`: what the model is sent pairs tool uses and results and holds all since the last summary; a reply follows its question; only what the caller may run runs |

**Publisher.** Assumes `MsgId \subseteq Nat` (only so that "least id" makes
sense) and that the bounds are naturals. `Accounted` and `NoDuplicates` are not
inductive. That no message is forgotten
by a wipe needs to know that what `Apply` has not deleted it still has on its
list, unless the row names a channel the binding has left (`WipeCovers`), and the
same for a clear request that has met no failure (`ClearCovers`). That nothing is
posted twice needs that rows are keyed by item (`RowKey`), that the message between
post and upsert is alone, of an item taken from the list and known to no clear
request (`InFlight`), and that while `Apply` posts the rows are of items already posted
(`FreshRows`, `ItemsOfSnapshot`). `OrphansShow` keeps a new message from being
one already lost.
The refinement maps each step to one of the board's: three lemmas
(`QuietStep`, `GoneStep`, `LoseStep`) settle steps that change nothing on the
channel, take one message down, or lose track of some; what is left is
`WipeRows`, which opens the board and needs `WipeCovers` and
`Accounted`, and `PostItem`, which needs `FreshRows` and `InFlight` for "no subject
twice".

**Watcher.** Assumes (`Bounds`) that there is a channel and a system, that goroutines are
finitely many and that the cap is at least 1. The proofs extend `MCBots`, so that the theorems are stated of the watcher
alone and, as `WatchesAlwaysHold`, of the run's specification, where it stands beside the other parts.
`RowTellsMessage` needs three things. The message a command is about to insert is as it was posted,
and no row, list or other command has it (`HandsFit`, from `NewIds` taking ids nothing refers to):
so no edit of the loop can have come before its row.
A row, listed or not, is of the channel and system of its message (`RowsFit`), so a save by key cannot reach a row of
a message of another system. Between the edit and the save the message shows what is saved (`SaveShows`).
`OneMessagePerSystem` follows from `Accounted`, the table's key (`RowKey`) and `RowsFit`.
`CapOvershoot` counts a channel's rows with the commands admitted to it (`Admitted`): an insert moves one
from the second to the first, and only a count that found room, or failed, adds one. Most steps only take away, and one lemma
(`Lessens`) settles them; the post, the insert, the edit and the save have lemmas of their own. TLC checked the same invariant
on the instance of the run `bots`.

**Outages.** Assumes (`OutageAssumption`) that what is watched are bindings, that a recovery is no failure, and naturals. What the
map will hold is a fold over the events still on their way, which the proofs cannot speak of; `Tells` says it without one: an outage that is
failing is open in the map and no recovery is on its way, or it begins with the first failure after the last recovery that is. Events are told
apart by their times and come in that order through all three places (`InTurn`), so one lemma (`TellsMore`) adds the latest event and another
(`TellsLess`) takes the earliest off and does what the feature does. `Flushed` says that a resolved outage awaits its flush. For the
board, `Backed` speaks of what it will show once all snapshots are delivered: if that is open, the map has it. TLC checked the invariant on the
run's instance and with two slots per channel first.

**The alerts' token.** Assumes (`AlertAssumption`) that the token is fetched anew a request's longest time before it expires, or sooner (both are 30
seconds in the code), and lives longer than that. `TokenInv` needs only that who fetches holds the lock and has done so for one unit of time at
most, which bounds how far the client's idea of a token's life is ahead of the server's.

**Access.** Assumes `Human \subseteq User`, `Managed` and
`HumanGroups` being groups, and the bounds being naturals.
`LinksTell` needs that the user a login has in hand bears the commander's name
(`OwnUserInHand`), which in turn needs that a name is given out once
(`NamesKept`, with `Fresh` taking ids nobody has had). `SessionsMatch` needs that
what an undisturbed login has read still holds when it signs
(`DecisionHolds`, and for `LoginLinks` that it has seen the row linked, `LinkedOn`), and that whoever changes a row is then in a phase that ends
in `revokeAllSessions`. Most steps only move a request along: lemmas settle what
such a step does to each conjunct (`LoosenLive`, `MovedSame`, `ChangeMoves`),
and `LockMove` shows that a request which owes a lockout goes on owing it, pays,
or records the escape. `DecisionsStand` has an invariant of its own
beside this one, `WordInv`. It says for each phase of a grant or a revoke what an undisturbed one has read and done
so far (`Holding`): the row still names the user it read, and the groups written or taken away so far
are, or are not, the user's. `GroupsKnown`, that a user who does not exist is in no group, is what a
new shadow user starts from. That a step of another request keeps this comes from `stale`: whatever
would break it marks the request as disturbed (`OthersHold`).

**Sessions.** Assumes that there is a commander, that ids are naturals, and
`Life =< Day`: a token lives no longer than the sets' 24 hours, which is what makes a
set that is renewed with each token outlast it. A token that does not work any more,
is revoked or has gone astray is `Gone`; `Covered` says that any other is in the
hands of a request that is about to track it, or tracked in a set that outlasts it
or is about to be made to. `HandsFit` ties what a request holds to tokens that
were signed, for its own commander; `SpentFits`, that the token a refresh or a
logout came with is gone before it is taken off the set. For lockouts, `CleanFits`
says that a lockout nobody got in the way of has, once it has listed the set,
exactly the working tokens left to revoke; `Apart`, that nobody of that commander is then
past their checks; `LockedFits` and `AdmitFits` carry this on until the commander is
approved again, with the refreshes of astray tokens as the only requests left.

**Pending logins.** Assumes finite sets of states and handlers. The counter is the
cardinality of the map, plus and minus what is in hand: `Apart` (no two logins store
one state) makes those cardinalities move by one, `CountTells` is the equation and
`Bounded` the cap with its slack, one per handler.

**Desktop logins.** Assumes naturals. That a token is answered once needs that one nobody
has raced for is in one poll at most, whose session has it still, or nobody's (`ReadOnce`), that a callback
which is about to store a token is the only place it is in (`FreshHolds`), and that a token not issued yet is
nowhere (`FreshTokens`). Where each token is, `TokenAccounted`, is then inductive.

**Frontier's tokens.** Assumes that an access token lives for a minute at least (`Life \in Nat \ {0}`), which is
what `commander_auth.go`'s least record time stands for. `RecordLasts` is the key's expiry against the token's, for sessions that were
revoked as well, since a refresh reads the old session's record. `Renewable` needs that a grant nobody shared is
in one valid session's record or none, and in one request at most, which came by it from that session
(`OneSession`), and that a request which has renewed its grant is alone with it (`OwnGrant`).

**Ingest.** Assumes that a batch is a sequence of events with times in `Nat`. For an upload under way (`Fine`), the rows it
holds and the duplicates it has counted are the events behind it, and each of those has a row, its own or a committed one, or
had one. That two open transactions never hold the same key (`HeldApart`, from `Waits`) makes `wrote` and the
number of keys grow together at `Commit`. `lapsed` counts the rows dropped, and `dropped` keeps their keys: an event can come again
after retention took it, and is counted again. `PagesCover` needs `StillAhead`: what a reader has not seen is at or
before the time they have come to; that a page's last event is a place in the order needs that a finite set has a
greatest element (`GreatestOf`, by the well-foundedness of the strict subsets).

**Presence and the limiter.** `KeyTells` ties the key's expiry to the last write and its record to a heartbeat no older than a
write may take. For the burst, an interval as long as the window lies in two windows of the bucket; `Spends` says that the
calls since the last reset are no more than the tokens spent, and those of the window before no more than a bucket, and
`TwoWindows` adds them up. The theorems are stated of `MCSpec`, where these parts stand beside each other, with the bounds and times of
`MCAccounts` as constants.

**Objectives.** `Checked`, that what a handler is about to write was checked against
the table, and `Lifecycle` itself, with the types. `ListedStays` is an action property
from the same invariant.

**The portal's chat.** Assumes (`ChatAssumption`) naturals and that a ping comes at least once per deadline, as 30 and 60 seconds do. Any
`Ping` moments in a row hold a ping (`PingComes`, by division). So a connection that is read and is
past its deadline heard no ping since the deadline was last moved, which `PongsFit` says is
only so when its last turn outlasted it. `NoncesFit` says that a nonce still there has admitted nobody, from
which `NonceOnce` follows. The context needs most. `OnceSaid` and `LogsFit` make places in the logs
unique and put a reply behind its question; `LineFits` says of each phase of a turn what its copies of history and
context can lack, replies given after its question or turns that crossed another, and `ContextsFit` that this is all a stored context lacks
when the last of two turns overwrites it. The theorems are stated of `MCSpec`, with the bounds and times of `MCKaine` as
constants, and TLC checked the invariant on the instance of the run `kaine` first.

**Caches.** The standings' assumptions are naturals, defaults among the valid
granularities and a TTL; `EntriesFit` orders an entry's times and `RequestsFit` those of
each phase of a request, so that what is answered is no older than the TTL and the
longest query. `PagesNeverAge` needs only the order of three moments: what was
shown, what is in memory, what the refresh has in hand (`Newer`). `PageFresh` needs to know when the ticker will
tick next (`Ticks`) and, from that, how old the page in memory can have become by then (`Ages`). The bound is the
interval and *two* queries, and it is reached: the ticker starts only when the first refresh is done, so a page as old as that
refresh was long is kept for an interval, and then for as long as the next refresh takes.

**Spansh.** Assumes that the batch is a sequence and that a call is polled at least once (`pollAttempts` is 6). The requests'
spacing follows from `Paced`, that none is later than `last`, and from the mutex having one holder, on the way to a request (`OneHolder`). For the number
of requests `CallFits` ties the set of those sent to the phase and the attempts so far (`Most`): a request sent and not yet
answered counts before its attempt does. That no more are `Busy` than the batch has places goes by cardinality, one lemma (`BusyFewer`) for
all steps; another (`CallStep`) settles everything but the moving call itself.

**Hub.** `HubAssumption` is naturals for the capacities. `Types`, `Lives` (who is known has an open
channel and a running writer), `InOrder` (the queues of the broadcast channel and of each
client are consecutive numbers) and `StreamsFit` (what a client has got, has queued and is still to
get are one unbroken run of the updates since it registered).

**Voice.** `VoiceAssumption` is naturals for the bounds. A chunk is in one of six places: heard, in the forwarder's
hands, in the channel, in the reader's hands, on the socket, or a text not yet synthesised. `HeardInOrder` speaks of the first
three only, and only once the turn is over, so the invariant has to speak of all six at any moment: read from
the client back to the text, they hold one ascending line of chunks (`Ordered`, `Within`), whatever was dropped from it, and as long as
nothing has failed, one without a gap (`Full`). Every step either takes a chunk one place on or drops some; a lemma for each
kind (`MovedOn`, `Drawn`) settles `Ordered` for all of them. `VoiceLives` says when each of the three
actors runs, that the channel is closed by a reader that is done, and that nothing is left on the socket of a reader that
met no failure. The theorems extend `MCLive`, whose specification has the voice turn and the hub beside the other parts.

**Conversations.** Sessions, message ids and connections are any sets, the bounds naturals. `AnsweredOnce` is not inductive: that a reply
is not written twice needs that a message under way is on no other connection and has no reply yet (`OneTurnEach`),
and that a question is not accepted twice needs that whatever is on show is known as seen
(`ShownIsSeen`), since the list of messages is trimmed and the set of ids is not. Both are counted by places in
the log (`ShownOnce`), since a fold is out of the provers' reach; one lemma goes from there to the counts. `AskedLast` keeps a new question out of
its own history; `SeenIsHandled` says that whoever answers for an accepted message is still at it; `TurnsBelong`
keeps a turn in the session of its question while the connection switches; `TurnsCross` and `TurnAbreast` say which
replies a turn's context can lack, those of turns that crossed it. None of it depends on `MaxMessages`.

**Turns.** Assumes (`TurnAssumption`) finitely many tool uses and at least one iteration. That every request to the model is
paired says nothing of the messages in between, so `Pairs` says at each phase which uses are open: none before a call
(`Settled`), those of the last message while tools run, each of them waiting in `todo` or answered in `got` (`PairedSoFar`). That a use gets one
result needs that `todo` repeats nothing (`Distinct`) and that ids are new, which `Used` reads off the whole history.
`Compacted` says the same of the context in work, the stored one and their histories: the context is what came since the last summary, and a
summary is its first message. One lemma (`SinceAppend`) carries this over any message that is appended, summary or not. `Heard` says that
while tools run, a use announced as started is complete or waiting, and `Counted` when a turn has run out of iterations.

**Operators.** Assumes (`OperatorAssumption`) that the mishaps are bounded by a natural. A reply that is stored follows its
question, unless the log was trimmed since or Redis was away when the question came: `Awaited` says that a request whose reply is still to be
stored has its question wherever the reply may go, or that log is full, or the question went to memory. That logs never repeat a message (`Distinct`) comes from `Working`,
which says for each phase which messages of the request there can be; `TrimTells` is what appending and trimming does to a log. `Permitted` ties each tool that ran
to what its caller was offered. A request only ever goes on (`Later`), so that what is said of others survives a step of one. Both theorems are
stated of `MCSpec`, with the constants and bounds of `MCCopilotChat`, and TLC checked both invariants on the instance of the run `chat` first.

Only model-checked:

- `ItemsTell` of `AlertsHold`, `ImportsHold`, `PowerplayTells`, `SearchesHold`, `ReadsHold` and `PagesTurn`: what they compare is computed by sorting,
  flattening or folding rows, whose results for every input need induction over data.
- `StreamedIsParsed`: it compares two parsers, each recursive in the text, and what they compute for every text needs induction over it.
- `HealthTold` of `AlertsHold`: how long a poll takes is a sum over its attempts and over the waits for the other feature's
  fetches; the run checks it with the waits and the budget of faults it names.
- All liveness, and whatever involves ENABLED.

## Where the code and its comments disagree

Runs that are expected to find a violation show four of these:

1. `publisher.go:93-96` says every existing message is wiped. `Apply` deletes in
   the binding's present channel, reads the 404 as done, and forgets the
   messages of the channel before (`publisher_channel_change`).
2. `commander_jwt.go:142` says a revocation lasts until its token's expiry. The
   revocations share a set and each `EXPIREAT` moves the expiry of all
   (`sessions_ttl`).
3. `redis_store.go:413` says listing cleans up sessions that expired or were
   deleted. A load that failed looks the same (`chat_list`).
4. `runner.go:248-249` says an image is sent only on the turn it is attached to. It
   is stored with the context and sent with every later turn, until the context is
   compacted (`image_resent`).

Others were met while modelling and have no run of their own.

*Bots*

- `publisher.go:3-5` promises per-action atomicity; a message and its row are two
  calls, and a restart in between leaves a message no cycle deletes. This is
  what `orphans` records.
- `publisher.go:345-348` says rows are purged only when every delete succeeded,
  lest live messages be untracked. `ClearHistory` purges by binding, so a row that
  `Apply` wrote since the listing goes too.
- `store.go:47-49` says a disabled binding is skipped "until the next process
  restart"; only `ClearHistory` removes the tombstone. A disabled binding records no
  cycles and the oracle then calls it unhealthy.
- `features/feature.go:83-86` says an unchanged `StateHash` is a no-op; `Apply` never
  compares it. The hash of an alert item depends on the order in which its maps are listed.
- `platinum.go` and `ltd.go` speak of 24 hours; `MaxFreshness` is 48 (`render.go`).
- `watcher.go:61-64` calls `MaxWatchesPerChannel` a cap on concurrent watches;
  counting and inserting are separate, and `CapOvershoot` is what holds instead.
- `handler.go:266` and `loop.go:132-134` say a row whose message is gone is
  dropped on the next poll. The loop returns before any call to Discord while
  the hash is unchanged.
- `loop.go:132-134`: the 404 of a message listed at the start of a cycle removes,
  by key, the row of the message a new `/watch` has posted since.
- `handler.go:253-254` keeps the row when a delete fails for any reason but a 404;
  a 403 counts as a 404 there, and the row goes while the message stays.
- `loop.go:60-61`: when saving the hash fails and the system returns to its former
  state, the message keeps showing the state in between.
- Ops alerts: each snapshot holds one outage, and `Apply` wipes what a snapshot does not
  hold, so a second outage takes the first one's message down. A restart seeds a
  resolved outage's row as an open one. `opsbus.go:13-14`: nothing in production publishes to
  the bus; when something does, `Publish` may send on a channel that a concurrent cancel
  has closed.

*Accounts*

- `commander_session.go:77` deletes the tracking set after listing it: a token
  added in between is live and no later lockout finds it. `astray` records it.
- `kaine_admin_commanders.go:550` says deny "revokes all live sessions"; a login or
  refresh past its checks when the lockout lists the set delivers a live token
  afterwards, and `LockoutHolds` is stated for lockouts nobody got in the way of.
- `kaine_admin_commanders.go:478-479` says an unlinked commander's next login
  links a new shadow user. It recovers the old one, by its name, with the groups
  it had.
- `commander_linking.go:82-84` says the next login recovers a link that was not
  stored. It cannot once an admin has linked that shadow user to another
  commander: the unique index refuses, and every login is denied (`Taken` in
  `LoginLinks`).
- `kaine_admin_commanders.go:402-404` revokes the sessions issued under a link
  it replaces. A login writes its own link over whatever the row holds by then,
  an admin's included, and revokes nothing (`AutoLink`). A handler that stops
  between changing the row and `revokeAllSessions` leaves sessions as they were;
  for unlink, also `approved`. These are the loose sessions.
- `AddUserToGroup` and `RemoveUserFromGroup` (`authentik/client.go`) write back a
  list read earlier, so of two changes to one user one can be lost;
  `GrantsStand` and `RevokesStand` are stated for those no one got in the way of.
- A refresh signs the default scopes, whatever the user's groups allow by then
  (`commander_auth.go:732`).
- `commander_auth.go:36` caps pending logins at `PKCEMaxPending`. Concurrent logins
  pass it, and an entry counted off by the sweep and by a callback raises it for good.
- A Frontier record lives as long as the access token, so the refresh token in it
  can be used only in the record's last moments (`commander_auth.go:691`).
- `commander_client_auth.go:405` speaks of a 410 the handler does not send.
- `commander_ingest.go:23` says 100 events a minute; requests are counted. Events of the last 365
  days are accepted and dropped after 90. A comment says an upload overwrites
  the platform; `ON CONFLICT` does not set it. An upload may put "Unknown Commander"
  back in the place of a name.
- The default bound of a page is now, which hides events stamped up to five minutes ahead. The
  `commander_events` tool called without types finds no rows.

*Conversations*

- Two turns on one session each write back the context they
  read, so one question is missing from the next context (`crossed`); a message
  reported as not stored may be stored, and is then never answered; and an
  append that go-redis repeats after a lost answer comes back as a duplicate, so
  its turn never runs (`dropped`). A message stored but not read back is answered with an
  error.
- A reply that was only data keeps its markup in the history (`copilot_chat.go:683`). Streaming
  announces a tool's start twice. Stray closing tags depend on where chunks end, and
  what follows a tag that is never closed is not streamed.
- Kaine chat: a turn longer than the 60-second read deadline costs the connection; a
  message that could not be stored stays in the connection's history; a switch sets the active
  session before it knows that it exists.
- `AppendMessage` on a session that Redis has dropped makes one without an
  owner and then overwrites the copy in memory; `AppendMessageOnce` asks first. MCP's
  `handleLLM` creates a session before it refuses a blank message.
- `mcp/auth.go:39` says "Same mapping as the Kaine portal HTTP auth"; its mapping gives no
  `galaxy_read`, so MCP callers can run no `galaxy_*` tool. `opsOnlyTools` lets an admin pass where
  `toolScopes` demands `llm_operator`.

*Portal*

- `store.go:91-92` and the list disagree about what is listed; a GET by id looks at neither
  `publish_at` nor state; "archived" is terminal in the table and not for a PUT or
  DELETE; two transitions checked against one state both write; PUT and DELETE of an id that is
  not there answer 200.
- An import keeps lists when a cell is blank and clears texts; the third map is never
  written; a row deleted meanwhile counts as updated; when the galaxy cannot be read every system is let
  through.
- Searches: systems that were renamed are not exported; the 200 candidates for expansion are taken
  without an order before worthless ones are dropped; a little demand for platinum hides a large one for osmium
  below 1288 t; of buyers of one name in a system the first row is kept.
- `expansion_check` reports a distance of zero when the power has no system to measure from, and never looks at
  the target's own state; `expansion_frontier` takes its 30 systems before it splits them into inside and outside;
  `galaxy_power` counts by exact name and lists by lower case.

*Galaxy data*

- `GetCycleForTime` puts a moment at which a week begins into the week before (it has no caller in
  production). The cycle tool reads the clock several times.
- The standings cache is keyed by the granularity as written in the query and nothing is ever evicted. A system with only NULL
  reinforcement fails the whole cycle query; a day without any value of reinforcement or of undermining fails the
  whole history query.
- Market: factions' states are looked up by the name shown, while the market's system has the catalog's name
  (`market.go:132`, `:38`). A slug is any of the systems that differ only in blanks. `SearchStations` does not
  escape `%` and `_`. A stub and a planetary depot of one name are both listed in a system and once in its inventory. A ring
  heard of between the two queries is listed without a body.
- `search.go:13-14` describes the search for systems as "prefix first, then substring matches"; `SearchSystems`
  matches prefixes only. `galaxy_signals` counts the signals of bodies without a row, of which `galaxy_bodies`
  tells nothing (`tools_galaxy_core.go:402-403`).
- The system page: `has_more` may say no while older events remain; events of one stamp may be skipped between
  pages; a negative number of hours is all time for the statistics and a day for the activity; the list of
  goods ends at 5000 (`system_intel.go:643`), so goods of an update that is listed may be missing; the timeline calls
  "EDDN Event" what the statistics name; half a section that fails leaves the section out.
- The OpenAPI text gives "default 24, max 168" hours where the handler clamps at 720, and an enumeration `ssg-eddn` where the
  answer says `ssg-eddn-postgres`. The goal page's fallback gives the last refresh of all
  systems. A system named twice counts twice in `total_observations`. `GetStatus` reads eight numbers at
  different moments, and failures show as zero.

## Not modelled

Rendering, formatting, SQL and Cypher text, HTTP plumbing and configuration
hold no state that steps could disturb; slash-command and HTTP gates are stateless checks. Status probes, Docker and Ansible commands,
game servers, dayz, the migration tools and the old Discord bot are I/O without shared state.
`internal/memgraph` is imported by tests only. Code no one calls is left out where it was met:
the batch writers and whole-cache readers of `store/cache.go`, the publisher's strike and repost paths,
`SuggestComplete`, `DeleteAllEvents`, `BroadcastFullRefresh`, `Diagnose`, four MCP handlers that nothing registers. TTLs of the chat's index
and active pointer are left out: they decide only which session a connection
starts from. Of the tools, the guide search and the sandboxed SQL are single calls, and the operators' tools
lead into the parts above. Fairness of Redis and Postgres is not a question asked of this
code.

## Plan

Done: the bots (publisher, watcher, alerts, outages), accounts (sessions, access, logins, tokens, ingest,
presence), conversations (chat, runner, parser, voice, operators), the portal (objectives, maps, chat,
searches), galaxy data (reads, tools, histories, caches, feed), the hub, with the proofs
above.

Next, in this order:

1. Proofs: `ReportKept` of the imports; `HealthTold` of the alerts, with a bound on a poll's time.
2. Abstract specifications: a watch list for `BotWatcher`, a conversation (each question
   answered once, in order) for `CopilotChat`, as `NoticeBoard` is for the publisher.
3. Compositions: `OpsOutages` with the publisher's steps instead of a board that is written at once;
   `FrontierTokens` with the sets of `CommanderSessions`.

The runs are kept to a dozen so that all of them are run together, each within five minutes: a new
module joins the run of its part of the system as one more `part`.
