---------------------------- MODULE BotPublisher ----------------------------
(***************************************************************************)
(* edin-bot: one binding of a feature to a Discord channel.                *)
(*                                                                         *)
(* The scheduler's goroutine for the binding polls the feature and calls   *)
(* Publisher.Apply, which wipes every message the binding has posted and   *)
(* posts the snapshot afresh (internal/edinbot/publisher/publisher.go).    *)
(* Operators call ClearHistory over HTTP at any moment; the process may be *)
(* restarted between any two calls to Discord and to Postgres, perhaps     *)
(* with another channel in bindings.yml.  Apply and ClearHistory share no  *)
(* lock: each action below is one store call or one Discord call.          *)
(***************************************************************************)
EXTENDS Naturals, FiniteSets

CONSTANTS
    Identity,    \* dedup keys of the feature's items (Item.Identity)
    Channel,     \* Discord channels the binding may be pointed at
    MsgId,       \* Discord message ids
    Clearer,     \* HTTP requests to /admin/clear/{binding_id}
    MaxFaults,   \* bound on failed calls, restarts and outside interference
    MaxClears    \* bound on the clear requests accepted

ASSUME MsgIdAssumption  == MsgId \subseteq Nat
ASSUME BudgetAssumption == MaxFaults \in Nat /\ MaxClears \in Nat

(***************************************************************************)
(* A message in Discord and the posted_messages row that tracks it carry   *)
(* the same three facts; a row is a message that Postgres remembers.       *)
(***************************************************************************)
Message == [id : MsgId, ch : Channel, of : Identity]

VARIABLES
    live,        \* messages of this binding that exist in Discord
    rows,        \* discord.posted_messages rows of this binding
    disabled,    \* discord.disabled_bindings has a tombstone
    reachable,   \* channels the bot can reach (not deleted, not kicked)
    bound,       \* b.ChannelID, read from bindings.yml at start
    pc,          \* where the scheduler goroutine of the binding stands
    todo,        \* rows Apply read and has not yet deleted from Discord
    items,       \* snapshot items Apply has still to post
    cur,         \* the message just posted (at most one), whose row is not yet written
    clear,       \* the state of each ClearHistory call
    faults,      \* faults so far (bounds the model)
    clears,      \* clear requests so far (bounds the model)
    want,        \* history: the items of the last healthy snapshot
    orphans      \* history: live messages whose row was lost or never kept

vars == <<live, rows, disabled, reachable, bound, pc, todo, items, cur,
          clear, faults, clears, want, orphans>>

discordVars == <<live, orphans>>
storeVars   == <<rows, disabled>>
workerVars  == <<pc, todo, items, cur>>
envVars     == <<reachable, bound>>
boundVars   == <<faults, clears>>

Phase      == {"idle", "poll", "check", "read", "wipe", "post", "upsert", "disable"}
ClearPhase == {"idle", "delete", "enable"}
ClearState == [pc : ClearPhase, todo : SUBSET Message, seen : SUBSET Message,
               failed : BOOLEAN]
NoClear    == [pc |-> "idle", todo |-> {}, seen |-> {}, failed |-> FALSE]

\* cur is a set: empty, or the one message between PostMessage and UpsertPosted.
TypeOK ==
    /\ live \subseteq Message
    /\ rows \subseteq Message
    /\ disabled \in BOOLEAN
    /\ reachable \subseteq Channel
    /\ bound \in Channel
    /\ pc \in Phase
    /\ todo \subseteq Message
    /\ items \subseteq Identity
    /\ cur \subseteq Message
    /\ clear \in [Clearer -> ClearState]
    /\ faults \in Nat
    /\ clears \in Nat
    /\ want \subseteq Identity
    /\ orphans \subseteq Message

Init ==
    /\ live = {} /\ rows = {} /\ disabled = FALSE
    /\ reachable = Channel
    /\ bound \in Channel
    /\ pc = "idle" /\ todo = {} /\ items = {} /\ cur = {}
    /\ clear = [k \in Clearer |-> NoClear]
    /\ faults = 0 /\ clears = 0
    /\ want = {} /\ orphans = {}

-----------------------------------------------------------------------------
(* Discord                                                                 *)

Fault == faults < MaxFaults /\ faults' = faults + 1 /\ UNCHANGED clears
NoFault == UNCHANGED boundVars

\* Snowflakes are never reused.  Ids are only compared, so the model gives a
\* new message the least id that nothing refers to any more.
Known == live \cup rows \cup todo \cup cur
         \cup UNION {clear[k].todo \cup clear[k].seen : k \in Clearer}
Fresh == {id \in MsgId : \A m \in Known : m.id # id}

Gone(m) == live' = live \ {m} /\ orphans' = orphans \ {m}

\* What DeleteMessage(ch, m.id) meets when the call itself goes through.
Deletes(ch, m)     == ch \in reachable /\ m \in live /\ m.ch = ch
\* Mutant: any refusal is read as "already gone".
NotFoundMutant(ch, m) == ~(ch \in reachable /\ m \in live /\ m.ch = ch)
NotFound(ch, m)    == ch \in reachable /\ ~(m \in live /\ m.ch = ch)
ChannelGone(ch)    == ch \notin reachable

\* nil or ErrMessageNotFound: the caller goes on.
DeleteAccepted(ch, m) ==
    \/ Deletes(ch, m) /\ Gone(m)
    \/ NotFound(ch, m) /\ UNCHANGED discordVars

\* Any other error: the request may have taken effect before its answer was lost.
\* Mutant: a 404 is reported as an ordinary error.
DeleteErrsMutant(ch, m) ==
    /\ UNCHANGED discordVars
    /\ (Fault \/ (NotFound(ch, m) /\ NoFault))
DeleteErrs(ch, m) ==
    /\ Fault
    /\ \/ Deletes(ch, m) /\ Gone(m)
       \/ UNCHANGED discordVars

-----------------------------------------------------------------------------
(* The scheduler's tick (runPoll) and Publisher.Apply                      *)

Idle == pc' = "idle" /\ todo' = {} /\ items' = {} /\ cur' = {}

\* A tick of a disabled binding returns at once; an error of the check is
\* dropped and read as "enabled".
Tick ==
    /\ pc = "idle"
    /\ \/ ~disabled /\ NoFault /\ pc' = "poll"
       \/ disabled /\ Fault /\ pc' = "poll"
       \/ disabled /\ NoFault /\ UNCHANGED pc
    /\ UNCHANGED <<discordVars, storeVars, envVars, todo, items, cur, clear, want>>

PollHealthy ==
    /\ pc = "poll"
    /\ \E s \in SUBSET Identity : items' = s /\ want' = s
    /\ pc' = "check"
    /\ NoFault
    /\ UNCHANGED <<discordVars, storeVars, envVars, todo, cur, clear>>

\* An error or an unhealthy snapshot: the cycle is recorded and Apply not called.
PollFails ==
    /\ pc = "poll"
    /\ Fault
    /\ Idle
    /\ UNCHANGED <<discordVars, storeVars, envVars, clear, want>>

\* Mutant: the disabled check is skipped.
ApplyCheckMutant ==
    /\ pc = "check" /\ NoFault
    /\ pc' = "read" /\ UNCHANGED <<todo, items, cur>>
    /\ UNCHANGED <<discordVars, storeVars, envVars, clear, want>>

ApplyCheck ==
    /\ pc = "check"
    /\ \/ ~disabled /\ NoFault /\ pc' = "read" /\ UNCHANGED <<todo, items, cur>>
       \/ disabled /\ NoFault /\ Idle
       \/ Fault /\ Idle
    /\ UNCHANGED <<discordVars, storeVars, envVars, clear, want>>

\* Mutant: only rows of vanished items are deleted.
ApplyReadMutant ==
    /\ pc = "read" /\ NoFault
    /\ pc' = "wipe" /\ todo' = {r \in rows : r.of \notin items}
    /\ UNCHANGED <<items, cur>>
    /\ UNCHANGED <<discordVars, storeVars, envVars, clear, want>>

ApplyRead ==
    /\ pc = "read"
    /\ \/ NoFault /\ pc' = "wipe" /\ todo' = rows /\ UNCHANGED <<items, cur>>
       \/ Fault /\ Idle
    /\ UNCHANGED <<discordVars, storeVars, envVars, clear, want>>

\* Deletes one previous message, always with the channel the binding has now.
WipeDelete ==
    /\ pc = "wipe"
    /\ \E m \in todo :
         \/ /\ DeleteAccepted(bound, m) /\ NoFault
            /\ todo' = todo \ {m} /\ UNCHANGED <<pc, items, cur>>
         \/ /\ ChannelGone(bound) /\ NoFault /\ UNCHANGED discordVars
            /\ pc' = "disable" /\ UNCHANGED <<todo, items, cur>>
         \/ DeleteErrs(bound, m) /\ Idle
    /\ UNCHANGED <<storeVars, envVars, clear, want>>

\* DeletePostedForBinding.  The rows it forgets may name messages that are
\* still live in a channel the binding was pointed at before.
Stranded == {r \in rows \cap live : r.ch # bound}

WipeRows ==
    /\ pc = "wipe" /\ todo = {}
    /\ \/ /\ NoFault /\ rows' = {} /\ orphans' = orphans \cup Stranded
          /\ pc' = "post" /\ UNCHANGED <<todo, items, cur>>
       \/ Fault /\ Idle /\ UNCHANGED <<rows, orphans>>
       \/ Fault /\ Idle /\ rows' = {} /\ orphans' = orphans \cup Stranded
    /\ UNCHANGED <<live, disabled, envVars, clear, want>>

\* The messages Discord may create for a post of item i.
NewMessages(i) ==
    {[id |-> n, ch |-> bound, of |-> i] :
        n \in {f \in Fresh : \A g \in Fresh : f =< g}}

PostItem ==
    /\ pc = "post"
    /\ \E i \in items :
         \/ /\ bound \in reachable /\ NoFault
            /\ \E m \in NewMessages(i) : live' = live \cup {m} /\ cur' = {m}
            /\ items' = items \ {i} /\ pc' = "upsert"
            /\ UNCHANGED <<todo, orphans>>
         \/ /\ ChannelGone(bound) /\ NoFault
            /\ pc' = "disable" /\ UNCHANGED <<discordVars, todo, items, cur>>
         \* the item is recorded as failed and the loop goes on
         \/ /\ Fault /\ items' = items \ {i}
            /\ UNCHANGED <<discordVars, pc, todo, cur>>
         \* the same, but Discord had accepted the message before the error
         \/ /\ bound \in reachable /\ Fault /\ items' = items \ {i}
            /\ \E m \in NewMessages(i) :
                 live' = live \cup {m} /\ orphans' = orphans \cup {m}
            /\ UNCHANGED <<pc, todo, cur>>
    /\ UNCHANGED <<storeVars, envVars, clear, want>>

\* INSERT .. ON CONFLICT (binding_id, identity) DO UPDATE
Upserted(m) == {r \in rows : r.of # m.of} \cup {m}

Upsert ==
    /\ pc = "upsert"
    /\ \E m \in cur :
         \/ NoFault /\ rows' = Upserted(m) /\ UNCHANGED orphans
         \/ Fault /\ rows' = Upserted(m) /\ UNCHANGED orphans
         \/ Fault /\ orphans' = orphans \cup (cur \cap live) /\ UNCHANGED rows
    /\ pc' = "post" /\ cur' = {}
    /\ UNCHANGED <<live, disabled, envVars, todo, items, clear, want>>

ApplyDone ==
    /\ pc = "post" /\ items = {}
    /\ NoFault /\ Idle
    /\ UNCHANGED <<discordVars, storeVars, envVars, clear, want>>

\* DisableBinding after ErrChannelGone; its error is ignored.
Disable ==
    /\ pc = "disable"
    /\ \/ NoFault /\ disabled' = TRUE
       \/ Fault /\ UNCHANGED disabled
    /\ Idle
    /\ UNCHANGED <<discordVars, rows, envVars, clear, want>>

-----------------------------------------------------------------------------
(* Publisher.ClearHistory, one call per HTTP request                       *)

ClearStart(k) ==
    /\ clear[k].pc = "idle"
    /\ clears < MaxClears /\ clears' = clears + 1 /\ UNCHANGED faults
    /\ clear' = [clear EXCEPT ![k] = [pc |-> "delete", todo |-> rows,
                                      seen |-> rows, failed |-> FALSE]]
    /\ UNCHANGED <<discordVars, storeVars, workerVars, envVars, want>>

\* Deletes one listed message, with the channel its row remembers; a failure
\* is counted and the loop goes on.
ClearDelete(k) ==
    /\ clear[k].pc = "delete"
    /\ \E m \in clear[k].todo :
         \/ /\ DeleteAccepted(m.ch, m) /\ NoFault
            /\ clear' = [clear EXCEPT ![k].todo = @ \ {m}]
         \/ /\ ChannelGone(m.ch) /\ NoFault /\ UNCHANGED discordVars
            /\ clear' = [clear EXCEPT ![k].todo = @ \ {m}, ![k].failed = TRUE]
         \/ /\ DeleteErrs(m.ch, m)
            /\ clear' = [clear EXCEPT ![k].todo = @ \ {m}, ![k].failed = TRUE]
    /\ UNCHANGED <<storeVars, workerVars, envVars, want>>

\* Rows the call did not list: Apply wrote them while the call was running.
Unlisted(k) == (rows \cap live) \ clear[k].seen

\* Mutant: rows are purged whatever the deletes did.
MayPurgeMutant(k) == TRUE
\* Only if no delete failed.
MayPurge(k) == ~clear[k].failed

ClearPurge(k) ==
    /\ clear[k].pc = "delete" /\ clear[k].todo = {}
    /\ \/ /\ ~MayPurge(k) /\ NoFault
          /\ clear' = [clear EXCEPT ![k].pc = "enable", ![k].seen = {}]
          /\ UNCHANGED <<rows, orphans>>
       \/ /\ MayPurge(k) /\ NoFault
          /\ rows' = {} /\ orphans' = orphans \cup Unlisted(k)
          /\ clear' = [clear EXCEPT ![k].pc = "enable", ![k].seen = {}]
       \/ /\ MayPurge(k) /\ Fault
          /\ clear' = [clear EXCEPT ![k] = NoClear]
          /\ \/ UNCHANGED <<rows, orphans>>
             \/ rows' = {} /\ orphans' = orphans \cup Unlisted(k)
    /\ UNCHANGED <<live, disabled, workerVars, envVars, want>>

ClearEnable(k) ==
    /\ clear[k].pc = "enable"
    /\ \/ NoFault /\ disabled' = FALSE
       \/ Fault /\ UNCHANGED disabled
    /\ clear' = [clear EXCEPT ![k] = NoClear]
    /\ UNCHANGED <<discordVars, rows, workerVars, envVars, want>>

-----------------------------------------------------------------------------
(* Restarts and the outside world                                          *)

\* bindings.Load refuses a binding without a channel_id.
Bindable == Channel

\* The process dies between two calls and comes back, with the channel the
\* operator has in bindings.yml by then.
Restart ==
    /\ Fault
    /\ orphans' = orphans \cup (cur \cap live)
    /\ Idle
    /\ clear' = [k \in Clearer |-> NoClear]
    /\ bound' \in Bindable
    /\ UNCHANGED <<live, storeVars, reachable, want>>

LoseAccess ==
    /\ Fault
    /\ \E c \in reachable : reachable' = reachable \ {c}
    /\ UNCHANGED <<discordVars, storeVars, workerVars, bound, clear, want>>

RegainAccess ==
    /\ \E c \in Channel \ reachable : reachable' = reachable \cup {c}
    /\ NoFault
    /\ UNCHANGED <<discordVars, storeVars, workerVars, bound, clear, want>>

HandDelete ==
    /\ Fault
    /\ \E m \in live : Gone(m)
    /\ UNCHANGED <<storeVars, workerVars, envVars, clear, want>>

-----------------------------------------------------------------------------
Worker == \/ Tick \/ PollHealthy \/ PollFails \/ ApplyCheck \/ ApplyRead
          \/ WipeDelete \/ WipeRows \/ PostItem \/ Upsert \/ ApplyDone \/ Disable

ClearHistory(k) == ClearStart(k) \/ ClearDelete(k) \/ ClearPurge(k) \/ ClearEnable(k)

Outside == Restart \/ LoseAccess \/ RegainAccess \/ HandDelete

Next == Worker \/ (\E k \in Clearer : ClearHistory(k)) \/ Outside

Spec == Init /\ [][Next]_vars

\* The ticker keeps firing and the goroutine never stops between two calls;
\* an accepted clear request runs to its end.
Fairness ==
    /\ WF_vars(Worker)
    /\ \A k \in Clearer :
         WF_vars(ClearDelete(k) \/ ClearPurge(k) \/ ClearEnable(k))

FairSpec == Spec /\ Fairness

-----------------------------------------------------------------------------
(* Properties                                                              *)

\* Every message in Discord is tracked by a row, is the one whose row is about
\* to be written, or was lost in one of the ways the history records: a post
\* whose answer was lost, an unwritten row, a restart, a row of a channel the
\* binding has left, a row the purging ClearHistory had not listed.  Neither
\* wipe forgets a message it could have deleted.
Accounted == live \subseteq rows \cup cur \cup orphans

\* Apart from messages so lost, a channel never announces one item twice,
\* however polls, failures, restarts and clear requests interleave.
NoDuplicates ==
    \A m, n \in live \ orphans : m.of = n.of => m = n

\* Once ErrChannelGone has disabled the binding, Apply neither deletes nor
\* posts for it; a ClearHistory that re-enables it meanwhile does not let an
\* Apply that saw it disabled go on.
QuietWhenDisabled ==
    disabled => pc \in {"idle", "poll", "check"}

\* While Apply posts, what the channel shows belongs to the snapshot being
\* published: the old set has vanished before the new one appears.
OldSetVanished ==
    pc \in {"post", "upsert"} => \A m \in live \ orphans : m.of \in want \ items

\* The channel shows the last snapshot and Postgres tracks all of it.
Published ==
    /\ pc = "idle"
    /\ {r.of : r \in rows} = want
    /\ \A r \in rows : r \in live /\ r.ch = bound

\* With the faults over, a binding that is enabled and whose channel can be
\* reached is brought up to date again and again; no failed cycle, missing
\* message or half-done wipe wedges it.
Publishes ==
    <>[](bound \in reachable /\ ~disabled) => []<>Published

-----------------------------------------------------------------------------
(* The inductive invariant behind the safety properties                    *)

\* posted_messages has the primary key (binding_id, identity).
RowKey == \A r, s \in rows : r.of = s.of => r = s

\* What Apply has not deleted yet, it still has on its list, unless the row
\* names a channel the binding has left.
WipeCovers ==
    pc = "wipe" => \A r \in rows \cap live : r \in todo \/ r.ch # bound

\* The same for a clear request that has met no failure, over the rows it listed.
ClearCovers ==
    \A k \in Clearer :
        clear[k].pc = "delete" /\ ~clear[k].failed =>
            rows \cap live \cap clear[k].seen \subseteq clear[k].todo

\* The message between PostMessage and UpsertPosted is alone, tracked by
\* nobody, and of an item already taken from the list.
InFlight ==
    /\ pc = "upsert" <=> cur # {}
    /\ \A m, n \in cur : m = n
    /\ \A m \in cur :
         /\ m \notin rows
         /\ m.of \in want \ items
         /\ \A k \in Clearer : m \notin clear[k].seen

\* While Apply posts, the rows are those of items already posted.
FreshRows ==
    pc \in {"post", "upsert"} =>
        \A r \in rows : r.of \in want \ items /\ \A m \in cur : r.of # m.of

ItemsOfSnapshot == items \subseteq want

OrphansShow == orphans \subseteq live

Inv ==
    /\ TypeOK /\ RowKey /\ WipeCovers /\ ClearCovers /\ InFlight /\ FreshRows
    /\ ItemsOfSnapshot /\ OrphansShow /\ Accounted /\ QuietWhenDisabled

-----------------------------------------------------------------------------
(* What readers of the channel are promised                                *)

Board == INSTANCE NoticeBoard WITH
    Notice <- Message, Subject <- Identity, edition <- want,
    open <- pc \in {"post", "upsert"}, up <- live \ orphans, astray <- orphans

\* publisher.go:30-51, seen from the channel polls, restarts and clear requests
\* run a notice board: it is emptied before it is filled, is filled with the
\* current snapshot only, and never holds two notices about one item.
KeepsBoard == Board!Spec

-----------------------------------------------------------------------------
(* What comments and documents promise beyond the above                    *)

\* publisher.go:93-96, Apply's wipe leaves no message of the binding behind.
WipeLeavesNothing ==
    [][pc = "wipe" /\ pc' = "post" => rows \cap live = {}]_vars
=============================================================================
