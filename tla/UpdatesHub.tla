----------------------------- MODULE UpdatesHub -----------------------------
(* The hub of the map's live updates: the listener's notifications, the     *)
(* hub's loop, and the two pumps of every connection.                       *)
(*                                                                          *)
(* Source: internal/websocket/hub.go, internal/httpapi/server.go            *)
(*                                                                          *)
(* An update is the number of its notification.  The hub's maps and locks   *)
(* are those of one goroutine: others only count the clients.               *)
EXTENDS Naturals, Sequences, FiniteSets

CONSTANTS
    Client,
    Room,       \* of a client's send channel
    Capacity,   \* of the broadcast channel
    MaxPosts    \* bound

ASSUME HubAssumption == Room \in Nat /\ Capacity \in Nat /\ MaxPosts \in Nat

VARIABLES
    hub,        \* [pc, msg, left]: the clients an update has still to go to
    clients,    \* the hub's map
    broadcast,  \* the hub's channel
    post,       \* the listener's notification being handled
    posts,      \* notifications so far
    conn,       \* [c -> "none", "open", "dead": the peer is gone, "closed": closed here]
    send,       \* [c -> [queue, closed]]
    pump,       \* [c -> [reader, writer]]
    got,        \* [c -> updates written to c]
    from        \* [c -> updates that had been taken from the channel when c came into the map]
vars == <<hub, clients, broadcast, post, posts, conn, send, pump, got, from>>

Selecting == [pc |-> "select", msg |-> 0, left |-> {}]

Init ==
    /\ hub = Selecting /\ clients = {} /\ broadcast = <<>> /\ post = "idle" /\ posts = 0
    /\ conn = [c \in Client |-> "none"] /\ send = [c \in Client |-> [queue |-> <<>>, closed |-> FALSE]]
    /\ pump = [c \in Client |-> [reader |-> "none", writer |-> "none"]]
    /\ got = [c \in Client |-> <<>>] /\ from = [c \in Client |-> 0]

\* Updates the hub has taken from its channel; those of no client are not sent.
Taken == posts - Len(broadcast) - (IF post = "sending" THEN 1 ELSE 0)

-----------------------------------------------------------------------------
(* handleInternalSystemUpdated, BroadcastSystemUpdate                        *)

\* An update nobody would hear is not sent.
Notify ==
    /\ post = "idle" /\ posts < MaxPosts /\ clients # {}
    /\ post' = "sending" /\ posts' = posts + 1
    /\ UNCHANGED <<hub, clients, broadcast, conn, send, pump, got, from>>

Broadcast ==
    /\ post = "sending" /\ Len(broadcast) < Capacity
    /\ broadcast' = Append(broadcast, posts) /\ post' = "idle"
    /\ UNCHANGED <<hub, clients, posts, conn, send, pump, got, from>>

-----------------------------------------------------------------------------
(* Connections                                                               *)

\* handleEDINWebSocket waits in Register until the hub takes the client.
Upgrade(c) ==
    /\ conn[c] = "none"
    /\ conn' = [conn EXCEPT ![c] = "open"] /\ pump' = [pump EXCEPT ![c].reader = "registering"]
    /\ UNCHANGED <<hub, clients, broadcast, post, posts, send, got, from>>

\* The peer goes away, or nothing more is heard of it.
PeerDies(c) ==
    /\ conn[c] = "open"
    /\ conn' = [conn EXCEPT ![c] = "dead"]
    /\ UNCHANGED <<hub, clients, broadcast, post, posts, send, pump, got, from>>

\* ReadPump: an error or the deadline ends it; it closes the connection only
\* after the hub has taken its leave.
ReadFails(c) ==
    /\ pump[c].reader = "reading" /\ conn[c] # "open"
    /\ pump' = [pump EXCEPT ![c].reader = "leaving"]
    /\ UNCHANGED <<hub, clients, broadcast, post, posts, conn, send, got, from>>

ReaderCloses(c) ==
    /\ pump[c].reader = "left"
    /\ conn' = [conn EXCEPT ![c] = "closed"] /\ pump' = [pump EXCEPT ![c].reader = "done"]
    /\ UNCHANGED <<hub, clients, broadcast, post, posts, send, got, from>>

\* WritePump: what is left in a closed channel is still written.
Write(c) ==
    /\ pump[c].writer = "waiting" /\ send[c].queue # <<>>
    /\ send' = [send EXCEPT ![c].queue = Tail(@)]
    /\ \/ conn[c] # "closed" /\ got' = [got EXCEPT ![c] = Append(@, Head(send[c].queue))] /\ UNCHANGED <<pump, conn>>
       \/ /\ conn[c] # "open" /\ conn' = [conn EXCEPT ![c] = "closed"]
          /\ pump' = [pump EXCEPT ![c].writer = "done"] /\ UNCHANGED got
    /\ UNCHANGED <<hub, clients, broadcast, post, posts, from>>

\* The channel is closed, or a ping fails.
WriterEnds(c) ==
    /\ pump[c].writer = "waiting"
    /\ (send[c].closed /\ send[c].queue = <<>>) \/ conn[c] # "open"
    /\ conn' = [conn EXCEPT ![c] = "closed"] /\ pump' = [pump EXCEPT ![c].writer = "done"]
    /\ UNCHANGED <<hub, clients, broadcast, post, posts, send, got, from>>

-----------------------------------------------------------------------------
(* Run                                                                       *)

Register(c) ==
    /\ hub.pc = "select" /\ pump[c].reader = "registering"
    /\ clients' = clients \cup {c} /\ from' = [from EXCEPT ![c] = Taken]
    /\ pump' = [pump EXCEPT ![c] = [reader |-> "reading", writer |-> "waiting"]]
    /\ UNCHANGED <<hub, broadcast, post, posts, conn, send, got>>

\* A client that was dropped is not in the map, and its channel is closed.
Unregister(c) ==
    /\ hub.pc = "select" /\ pump[c].reader = "leaving"
    /\ clients' = clients \ {c}
    /\ send' = IF c \in clients THEN [send EXCEPT ![c].closed = TRUE] ELSE send
    /\ pump' = [pump EXCEPT ![c].reader = "left"]
    /\ UNCHANGED <<hub, broadcast, post, posts, conn, got, from>>

Take ==
    /\ hub.pc = "select" /\ broadcast # <<>>
    /\ hub' = [pc |-> "sending", msg |-> Head(broadcast), left |-> clients] /\ broadcast' = Tail(broadcast)
    /\ UNCHANGED <<clients, post, posts, conn, send, pump, got, from>>

SendToMutant(c) ==
    /\ hub.pc = "sending" /\ c \in hub.left
    /\ hub' = [hub EXCEPT !.left = @ \ {c}]
    /\ send' = IF Len(send[c].queue) < Room THEN [send EXCEPT ![c].queue = Append(@, hub.msg)]
               ELSE [send EXCEPT ![c].closed = TRUE]
    /\ UNCHANGED <<clients, broadcast, post, posts, conn, pump, got, from>>

\* To the clients of the map in any order; who has no room is dropped.
SendTo(c) ==
    /\ hub.pc = "sending" /\ c \in hub.left
    /\ hub' = [hub EXCEPT !.left = @ \ {c}]
    /\ IF Len(send[c].queue) < Room
       THEN send' = [send EXCEPT ![c].queue = Append(@, hub.msg)] /\ UNCHANGED clients
       ELSE send' = [send EXCEPT ![c].closed = TRUE] /\ clients' = clients \ {c}
    /\ UNCHANGED <<broadcast, post, posts, conn, pump, got, from>>

Sent ==
    /\ hub.pc = "sending" /\ hub.left = {}
    /\ hub' = Selecting
    /\ UNCHANGED <<clients, broadcast, post, posts, conn, send, pump, got, from>>

Loop == Take \/ Sent \/ \E c \in Client : SendTo(c)
Pumps(c) == ReadFails(c) \/ ReaderCloses(c) \/ Write(c) \/ WriterEnds(c)

Next ==
    \/ Notify \/ Broadcast \/ Loop
    \/ \E c \in Client : Upgrade(c) \/ PeerDies(c) \/ Pumps(c) \/ Register(c) \/ Unregister(c)

-----------------------------------------------------------------------------

\* Types.
TypeOK ==
    /\ hub.pc \in {"select", "sending"} /\ hub.left \subseteq Client /\ clients \subseteq Client
    /\ Len(broadcast) <= Capacity /\ posts \in 0 .. MaxPosts
    /\ \A c \in Client : Len(send[c].queue) <= Room /\ conn[c] \in {"none", "open", "dead", "closed"}

\* hub.go:69, :85: a channel is closed once and nothing is sent after: the hub
\* knows only clients whose channel is open, also halfway through an update.
OpenWhileKnown ==
    /\ \A c \in clients : ~send[c].closed /\ pump[c].writer # "none"
    /\ hub.pc = "sending" => hub.left \subseteq clients

\* hub.go:79: a connection hears every update from its registration on, in
\* order and without a gap, until it is dropped or ends.
HeardWithoutGaps ==
    \A c \in Client :
        /\ \A i \in 1 .. Len(got[c]) : got[c][i] = from[c] + i
        /\ \A i \in 1 .. Len(send[c].queue) : i < Len(send[c].queue) => send[c].queue[i + 1] = send[c].queue[i] + 1

\* hub.go:69, :79: both, and the types.
HubHolds == TypeOK /\ OpenWhileKnown /\ HeardWithoutGaps

\* hub.go:139, :172: whoever is gone, or was dropped for being slow, is
\* forgotten by the hub, and both of its pumps end.
Over(c) == c \notin clients /\ pump[c].reader = "done" /\ pump[c].writer = "done"
Forgotten == \A c \in Client : (conn[c] = "dead" \/ (send[c].closed /\ c \notin clients)) ~> Over(c)

Fair ==
    /\ WF_vars(Broadcast) /\ WF_vars(Loop)
    /\ \A c \in Client : WF_vars(ReadFails(c) \/ ReaderCloses(c)) /\ WF_vars(Write(c) \/ WriterEnds(c))
    /\ \A c \in Client : SF_vars(Register(c)) /\ SF_vars(Unregister(c))
Spec == Init /\ [][Next]_vars /\ Fair
=============================================================================
