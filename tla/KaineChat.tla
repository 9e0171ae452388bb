----------------------------- MODULE KaineChat ------------------------------
(* The portal's chat: nonces that admit a connection, connections of one     *)
(* user with their read deadlines, and turns, which run in the read loop so  *)
(* that nothing is read from the connection meanwhile.                       *)
(*                                                                          *)
(* Source: internal/httpapi/kaine_chat.go, internal/httpapi/chat_provider_   *)
(* context.go; internal/httpapi/kaine.go, the nonce store.                   *)
EXTENDS Naturals, Sequences, FiniteSets, SequencesExt

CONSTANTS Conn, Nonce,
          NonceTtl,   \* 10 seconds
          AuthWait,   \* 5 seconds
          Deadline,   \* 60 seconds
          Ping,       \* 30 seconds
          MaxRun,     \* bound: the longest turn
          MaxTime, MaxTurns, MaxFaults, MaxSessions \* bounds

VARIABLES now,
          nonces,     \* kaineNonceStore.items: when each expires
          issued, admitted, \* history: when nonces were issued, and what they admitted
          conn,
          store,      \* the sessions: messages on show and provider context
          active,     \* the user's active session
          turns, faults, \* used up so far
          lost        \* history: how long the last turn of a connection lost to its deadline was

vars == <<now, nonces, issued, admitted, conn, store, active, turns, faults, lost>>

Session == 1 .. MaxSessions
Entry == [of : 1 .. MaxTurns, by : {"user", "assistant"}]
Closed == [pc |-> "closed", since |-> 0, by |-> 0, sess |-> 1, history |-> <<>>, past |-> <<>>, msg |-> 0,
           ctx |-> {}, long |-> 0]

Init ==
    /\ now = 0 /\ nonces = <<>> /\ issued = <<>> /\ admitted = {} /\ conn = [c \in Conn |-> Closed]
    /\ store = <<>> /\ active = 0 /\ turns = 0 /\ faults = 0 /\ lost = {}

Fault == faults < MaxFaults /\ faults' = faults + 1
Fine  == UNCHANGED faults
Without(f, k) == [x \in DOMAIN f \ {k} |-> f[x]]

\* handleKaineAuthToken: kaineNonceStore.Issue.
Issue ==
    /\ \E n \in Nonce \ DOMAIN issued :
         /\ nonces' = [x \in DOMAIN nonces \cup {n} |-> IF x = n THEN now + NonceTtl ELSE nonces[x]]
         /\ issued' = [x \in DOMAIN issued \cup {n} |-> IF x = n THEN now ELSE issued[x]]
    /\ Fine /\ UNCHANGED <<now, admitted, conn, store, active, turns, lost>>

Sweep ==
    /\ \E n \in DOMAIN nonces : now > nonces[n] /\ nonces' = Without(nonces, n)
    /\ Fine /\ UNCHANGED <<now, issued, admitted, conn, store, active, turns, lost>>

-----------------------------------------------------------------------------
Upgrade(c) ==
    /\ conn[c].pc = "closed"
    /\ conn' = [conn EXCEPT ![c] = [Closed EXCEPT !.pc = "auth", !.since = now]]
    /\ Fine /\ UNCHANGED <<now, nonces, issued, admitted, store, active, turns, lost>>

\* loadOrCreateChatSession: the active session, or a new one when there is
\* none or it cannot be read.
Opened(c, s) == [conn EXCEPT ![c] = [Closed EXCEPT !.pc = "ready", !.by = now + Deadline, !.sess = s,
                                                   !.history = IF s \in DOMAIN store THEN store[s].log ELSE <<>>]]
NewSession == /\ Len(store) < MaxSessions
              /\ store' = Append(store, [log |-> <<>>, ctx |-> {}]) /\ active' = Len(store) + 1

\* Mutant: an expired nonce is used while it has not been swept.
AuthMutant(c) ==
    /\ conn[c].pc = "auth" /\ now - conn[c].since <= AuthWait
    /\ \E n \in DOMAIN nonces :
         /\ nonces' = Without(nonces, n) /\ admitted' = admitted \cup {[nonce |-> n, conn |-> c, at |-> now]}
         /\ IF active # 0 THEN conn' = Opened(c, active) /\ UNCHANGED <<store, active>>
            ELSE NewSession /\ conn' = Opened(c, active')
    /\ Fine /\ UNCHANGED <<now, issued, turns, lost>>

\* The first frame: its nonce is used up whether it has expired or not.
Auth(c) ==
    /\ conn[c].pc = "auth" /\ now - conn[c].since <= AuthWait
    /\ \E n \in DOMAIN nonces :
         /\ nonces' = Without(nonces, n)
         /\ IF now > nonces[n] THEN conn' = [conn EXCEPT ![c] = Closed] /\ Fine /\ UNCHANGED <<admitted, store, active>>
            ELSE /\ admitted' = admitted \cup {[nonce |-> n, conn |-> c, at |-> now]}
                 /\ \/ active # 0 /\ Fine /\ conn' = Opened(c, active) /\ UNCHANGED <<store, active>>
                    \/ active = 0 /\ Fine /\ NewSession /\ conn' = Opened(c, active')
                    \/ active # 0 /\ Fault /\ NewSession /\ conn' = Opened(c, active')
    /\ UNCHANGED <<now, issued, turns, lost>>

\* No frame within five seconds, or one with a nonce there is not.
Refuse(c) ==
    /\ conn[c].pc = "auth" /\ conn' = [conn EXCEPT ![c] = Closed]
    /\ Fine /\ UNCHANGED <<now, nonces, issued, admitted, store, active, turns, lost>>

\* A frame can be read as long as the deadline has not passed.
Reading(c) == conn[c].pc = "ready" /\ now <= conn[c].by
Read(c, rec) == [rec EXCEPT !.by = now + Deadline]

\* handleNewChat.
NewChat(c) ==
    /\ Reading(c) /\ NewSession
    /\ conn' = [conn EXCEPT ![c] = Read(c, [@ EXCEPT !.sess = active', !.history = <<>>])]
    /\ Fine /\ UNCHANGED <<now, nonces, issued, admitted, turns, lost>>

\* handleSwitchSession: the session is made active, and then read.
Switch(c) ==
    /\ Reading(c)
    /\ \E s \in DOMAIN store :
         \/ /\ active' = s /\ Fine
            /\ conn' = [conn EXCEPT ![c] = Read(c, [@ EXCEPT !.sess = s, !.history = store[s].log])]
         \/ /\ active' \in {active, s} /\ Fault
            /\ conn' = [conn EXCEPT ![c] = Read(c, @)]
    /\ UNCHANGED <<now, nonces, issued, admitted, store, turns, lost>>

-----------------------------------------------------------------------------
(* handleChatMessage.                                                        *)

\* The message is put into the connection's history and then stored; only a
\* message that is stored has a turn.
Say(c) ==
    /\ Reading(c) /\ turns < MaxTurns /\ turns' = turns + 1
    /\ LET q == [of |-> turns + 1, by |-> "user"]
           s == conn[c].sess
       IN  \/ /\ store' = [store EXCEPT ![s].log = Append(@, q)] /\ Fine
              /\ conn' = [conn EXCEPT ![c] = Read(c, [@ EXCEPT !.pc = "load", !.past = conn[c].history, !.msg = turns + 1,
                                                               !.history = store'[s].log, !.since = now])]
           \/ /\ Fault /\ UNCHANGED store
              /\ conn' = [conn EXCEPT ![c] = Read(c, [@ EXCEPT !.history = Append(conn[c].history, q)])]
    /\ UNCHANGED <<now, nonces, issued, admitted, active, lost>>

\* The turn is over and the loop reads on: pongs that came meanwhile are found
\* if the deadline has not passed.
PongWaits(c) == now <= conn[c].by /\ \E t \in conn[c].since + 1 .. now : t % Ping = 0
Ended(c) == [conn[c] EXCEPT !.pc = "ready", !.long = now - conn[c].since, !.msg = 0, !.ctx = {}, !.past = <<>>,
                            !.by = IF PongWaits(c) THEN now + Deadline ELSE @]

\* loadProviderContext.
Load(c) ==
    /\ conn[c].pc = "load"
    /\ \/ conn' = [conn EXCEPT ![c].pc = "run", ![c].ctx = store[conn[c].sess].ctx] /\ Fine
       \/ conn' = [conn EXCEPT ![c] = Ended(c)] /\ Fault
    /\ UNCHANGED <<now, nonces, issued, admitted, store, active, turns, lost>>

\* RunWithProgressContext: the model sees the context, or else the history,
\* and the message.
Seen(c) == IF conn[c].ctx # {} THEN conn[c].ctx ELSE {conn[c].past[i].of : i \in DOMAIN conn[c].past}
Run(c) ==
    /\ conn[c].pc = "run"
    /\ \/ conn' = [conn EXCEPT ![c].pc = "commit", ![c].ctx = Seen(c) \cup {conn[c].msg}] /\ Fine
       \/ conn' = [conn EXCEPT ![c] = Ended(c)] /\ Fault
    /\ UNCHANGED <<now, nonces, issued, admitted, store, active, turns, lost>>

\* commitAssistantTurn.
Commit(c) ==
    /\ conn[c].pc = "commit"
    /\ \/ /\ store' = [store EXCEPT ![conn[c].sess].log = Append(@, [of |-> conn[c].msg, by |-> "assistant"]),
                                    ![conn[c].sess].ctx = conn[c].ctx]
          /\ conn' = [conn EXCEPT ![c] = [Ended(c) EXCEPT !.history = store'[conn[c].sess].log]] /\ Fine
       \/ conn' = [conn EXCEPT ![c] = Ended(c)] /\ Fault /\ UNCHANGED store
    /\ UNCHANGED <<now, nonces, issued, admitted, active, turns, lost>>

-----------------------------------------------------------------------------
\* ReadMessage fails: the deadline has passed, or the client has gone.
Drop(c) ==
    /\ conn[c].pc = "ready" /\ now > conn[c].by
    /\ lost' = lost \cup {conn[c].long} /\ conn' = [conn EXCEPT ![c] = Closed]
    /\ Fine /\ UNCHANGED <<now, nonces, issued, admitted, store, active, turns>>
Leave(c) ==
    /\ conn[c].pc = "ready" /\ conn' = [conn EXCEPT ![c] = Closed]
    /\ Fine /\ UNCHANGED <<now, nonces, issued, admitted, store, active, turns, lost>>

Pong(t) == [c \in Conn |-> IF t % Ping = 0 /\ conn[c].pc = "ready" /\ t <= conn[c].by
                           THEN [conn[c] EXCEPT !.by = t + Deadline] ELSE conn[c]]

\* A turn takes no longer than MaxRun.
Tick ==
    /\ now < MaxTime /\ now' = now + 1
    /\ \A c \in Conn : conn[c].pc \in {"load", "run", "commit"} => now - conn[c].since < MaxRun
    /\ conn' = Pong(now')
    /\ Fine /\ UNCHANGED <<nonces, issued, admitted, store, active, turns, lost>>

Next == Issue \/ Sweep \/ Tick
        \/ \E c \in Conn : \/ Upgrade(c) \/ Auth(c) \/ Refuse(c) \/ NewChat(c) \/ Switch(c)
                           \/ Say(c) \/ Load(c) \/ Run(c) \/ Commit(c) \/ Drop(c) \/ Leave(c)
Spec == Init /\ [][Next]_vars

-----------------------------------------------------------------------------

\* Types.
TypeOK ==
    /\ now \in 0 .. MaxTime /\ faults \in 0 .. MaxFaults /\ turns \in 0 .. MaxTurns /\ active \in 0 .. Len(store)
    /\ \A s \in DOMAIN store : store[s].log \in Seq(Entry) /\ store[s].ctx \subseteq 1 .. MaxTurns
    /\ \A c \in Conn : /\ conn[c].pc \in {"closed", "auth", "ready", "load", "run", "commit"}
                       /\ conn[c].pc \in {"ready", "load", "run", "commit"} => conn[c].sess \in DOMAIN store
                       /\ (conn[c].msg # 0) = (conn[c].pc \in {"load", "run", "commit"})

\* kaine.go:98: a nonce admits one connection, and none once it has expired.
NonceOnce ==
    /\ \A a, b \in admitted : a.nonce = b.nonce => a = b
    /\ \A a \in admitted : a.at <= issued[a.nonce] + NonceTtl

\* kaine_chat.go:226: pongs are not read while a turn runs, so a client that is
\* there is lost when its turn was as long as the deadline, and never otherwise.
LostByLongTurn == \A t \in lost : t > Deadline

\* kaine_chat.go:353, :431: the context of a session holds every turn whose reply
\* it shows, unless another connection's turn was under way beside it; what the
\* model is given as the past was said in the session, but for messages that
\* could not be stored.
ContextTells ==
    LET Replied(s) == {store[s].log[i].of : i \in {j \in DOMAIN store[s].log : store[s].log[j].by = "assistant"}}
        Place(s, t, who) == CHOOSE i \in DOMAIN store[s].log : store[s].log[i] = [of |-> t, by |-> who]
        Beside(s, t, u) == /\ Place(s, t, "user") < Place(s, u, "assistant")
                           /\ Place(s, u, "user") < Place(s, t, "assistant")
        InStore == UNION {{store[s].log[i].of : i \in DOMAIN store[s].log} : s \in DOMAIN store}
    IN  \A s \in DOMAIN store :
          /\ \A t \in Replied(s) \ store[s].ctx : \E u \in Replied(s) : u # t /\ Beside(s, t, u)
          /\ (store[s].ctx \cap InStore) \subseteq {store[s].log[i].of : i \in DOMAIN store[s].log}
=============================================================================
