----------------------------- MODULE DesktopLogin ---------------------------
(***************************************************************************)
(* The desktop client's login: it opens a session, sends its user to       *)
(* Frontier in a browser, and polls until the browser's callback has left  *)
(* a token in the session (internal/httpapi/commander_client_auth.go).     *)
(*                                                                         *)
(* A session is two keys in Redis, the session and the way to it from the  *)
(* OAuth state, with times of their own.  Callback and polls are requests  *)
(* of different programs; each step below is one call to Redis or to       *)
(* Frontier.  What a callback does between Frontier's answer and the token *)
(* (linking and access) is in CommanderAccess: here it may fail.           *)
(***************************************************************************)
EXTENDS Naturals, FiniteSets

CONSTANTS
    Session,     \* sessions the clients open, with their states
    Callback,    \* goroutines serving the browser's callback
    Poller,      \* goroutines serving polls
    PendingTtl,  \* clientAuthSessionPendingTTL
    CompleteTtl, \* clientAuthSessionCompleteTTL
    MaxTime,     \* bound on the clock
    MaxTokens,   \* bound on tokens issued
    MaxFaults    \* bound on failed calls and abandoned requests

VARIABLES
    time,      \* the clock
    session,   \* edin:client_auth_session:{id}
    way,       \* edin:client_auth_state:{state}: until when
    callback,  \* the callback each goroutine is serving
    poll,      \* the poll each goroutine is serving
    issued,    \* tokens issued so far
    failures,  \* failed calls so far (bounds the model)
    handed,    \* history: how often each token has been answered to a poll
    repeats,   \* history: tokens two polls held at once or whose Del failed
    wasted     \* history: tokens lost to an expiry, a failure or another's write

vars == <<time, session, way, callback, poll, issued, failures, handed, repeats, wasted>>

Token == 1..MaxTokens
Value == [status : {"none"}] \cup [status : {"pending"}, till : Nat]
         \cup [status : {"complete"}, token : Token, till : Nat]
None == [status |-> "none"]
Tokens(v) == IF v.status = "complete" THEN {v.token} ELSE {}

\* What a request has in its hands: the session it serves, and the token it
\* has obtained or read.
Hand == [pc : {"idle", "read", "exchange", "complete", "spend", "del"},
         of : SUBSET Session, token : SUBSET Token]
Idle == [pc |-> "idle", of |-> {}, token |-> {}]

\* Requests and keys have their types; a callback in the middle of its login
\* came by a session that was pending, and a poll about to delete has a token.
TypeOK ==
    /\ time \in 0..MaxTime /\ issued \in 0..MaxTokens /\ failures \in 0..MaxFaults
    /\ session \in [Session -> Value]
    /\ way \in [Session -> SUBSET Nat] /\ \A s \in Session : Cardinality(way[s]) =< 1
    /\ callback \in [Callback -> Hand] /\ poll \in [Poller -> Hand]
    /\ \A b \in Callback : callback[b].pc \in {"complete", "spend"} => callback[b].token # {}
    /\ \A p \in Poller : poll[p].pc = "del" <=> poll[p].token # {}
    /\ handed \in [Token -> Nat] /\ repeats \subseteq Token /\ wasted \subseteq Token

Init ==
    /\ time = 0 /\ issued = 0 /\ failures = 0
    /\ session = [s \in Session |-> None]
    /\ way = [s \in Session |-> {}]
    /\ callback = [b \in Callback |-> Idle] /\ poll = [p \in Poller |-> Idle]
    /\ handed = [t \in Token |-> 0] /\ repeats = {} /\ wasted = {}

Fail == failures < MaxFaults /\ failures' = failures + 1
Well == UNCHANGED failures

-----------------------------------------------------------------------------
(* Opening a session                                                       *)

Opened == [status |-> "pending", till |-> time + PendingTtl]

\* handleClientAuthInitiate: the session and then the way to it; the client
\* hears of the session when both are there.  Without the second the first
\* runs out unused.
Initiate(s) ==
    /\ session[s] = None /\ way[s] = {} /\ \A b \in Callback : s \notin callback[b].of
    /\ \/ /\ Well
          /\ session' = [session EXCEPT ![s] = Opened]
          /\ way' = [way EXCEPT ![s] = {time + PendingTtl}]
       \/ /\ Fail
          /\ session' = [session EXCEPT ![s] = Opened]
          /\ UNCHANGED way
    /\ UNCHANGED <<time, callback, poll, issued, handed, repeats, wasted>>

-----------------------------------------------------------------------------
(* The browser's callback                                                  *)

\* lookupClientAuthSessionByState: the state's session, ...
Arrive(b) ==
    /\ callback[b].pc = "idle"
    /\ \E s \in Session : /\ way[s] # {}
                          /\ callback' = [callback EXCEPT ![b] = [Idle EXCEPT !.pc = "read", !.of = {s}]]
    /\ UNCHANGED <<time, session, way, poll, issued, failures, handed, repeats, wasted>>

\* ... and its verifier.  A session that is complete has none left, and
\* Frontier refuses the exchange; one that is gone is an invalid state.
Lookup(b) ==
    /\ callback[b].pc = "read"
    /\ \E s \in callback[b].of :
         \/ /\ session[s].status = "pending" /\ Well
            /\ callback' = [callback EXCEPT ![b].pc = "exchange"]
         \/ /\ session[s].status # "pending" /\ Well
            /\ callback' = [callback EXCEPT ![b] = Idle]
         \/ /\ Fail /\ callback' = [callback EXCEPT ![b] = Idle]
    /\ UNCHANGED <<time, session, way, poll, issued, handed, repeats, wasted>>

\* Frontier's answers, the row, the link, the decision and the token; each
\* may end the login, and two callbacks may both come this far.
Exchange(b) ==
    /\ callback[b].pc = "exchange"
    /\ \/ /\ issued < MaxTokens /\ issued' = issued + 1 /\ Well
          /\ callback' = [callback EXCEPT ![b].pc = "complete", ![b].token = {issued + 1}]
       \/ /\ Fail /\ UNCHANGED issued /\ callback' = [callback EXCEPT ![b] = Idle]
    /\ UNCHANGED <<time, session, way, poll, handed, repeats, wasted>>

\* completeClientAuthSession: the session is written whatever it holds by now
\* and even if it has run out; a failure is logged and the page shown.
Complete(b) ==
    /\ callback[b].pc = "complete"
    /\ \E s \in callback[b].of, t \in callback[b].token :
         \/ /\ Well
            /\ session' = [session EXCEPT ![s] =
                             [status |-> "complete", token |-> t, till |-> time + CompleteTtl]]
            /\ wasted' = wasted \cup Tokens(session[s])
            /\ callback' = [callback EXCEPT ![b].pc = "spend"]
         \/ /\ Fail
            /\ UNCHANGED session
            /\ wasted' = wasted \cup {t}
            /\ callback' = [callback EXCEPT ![b] = Idle]
    /\ UNCHANGED <<time, way, poll, issued, handed, repeats>>

\* ... and the way to it removed, best effort.
Spend(b) ==
    /\ callback[b].pc = "spend"
    /\ \/ Well /\ way' = [s \in Session |-> IF s \in callback[b].of THEN {} ELSE way[s]]
       \/ Fail /\ UNCHANGED way
    /\ callback' = [callback EXCEPT ![b] = Idle]
    /\ UNCHANGED <<time, session, poll, issued, handed, repeats, wasted>>

-----------------------------------------------------------------------------
(* Polls                                                                   *)

\* handleClientAuthPoll: pending and gone are answered at once.
Read(p) ==
    /\ poll[p].pc = "idle"
    /\ \E s \in Session :
         /\ session[s].status = "complete"
         /\ poll' = [poll EXCEPT ![p] = [pc |-> "del", of |-> {s}, token |-> {session[s].token}]]
         /\ repeats' = repeats \cup
              {t \in {session[s].token} : \E q \in Poller : t \in poll[q].token}
    /\ UNCHANGED <<time, session, way, callback, issued, failures, handed, wasted>>

\* Mutant: the answer goes out and the session stays for its time.
DelMutant(p) ==
    /\ poll[p].pc = "del" /\ Well
    /\ \E t \in poll[p].token :
         handed' = [handed EXCEPT ![t] = @ + 1] /\ UNCHANGED <<session, repeats, wasted>>
    /\ poll' = [poll EXCEPT ![p] = Idle]
    /\ UNCHANGED <<time, way, callback, issued>>

\* A complete one is deleted, by its key and whatever it holds by now, and its
\* token answered even if that failed.
Del(p) ==
    /\ poll[p].pc = "del"
    /\ \E s \in poll[p].of, t \in poll[p].token :
         /\ handed' = [handed EXCEPT ![t] = @ + 1]
         /\ \/ /\ Well
               /\ session' = [session EXCEPT ![s] = None]
               /\ wasted' = wasted \cup (Tokens(session[s]) \ {t})
               /\ UNCHANGED repeats
            \/ /\ Fail
               /\ repeats' = repeats \cup {t}
               /\ UNCHANGED <<session, wasted>>
    /\ poll' = [poll EXCEPT ![p] = Idle]
    /\ UNCHANGED <<time, way, callback, issued>>

-----------------------------------------------------------------------------

\* Time passes and Redis drops what has run out.
Pass ==
    /\ time < MaxTime /\ time' = time + 1
    /\ LET over == {s \in Session : session[s].status # "none" /\ session[s].till < time + 1} IN
       /\ session' = [s \in Session |-> IF s \in over THEN None ELSE session[s]]
       /\ wasted' = wasted \cup UNION {Tokens(session[s]) : s \in over}
    /\ way' = [s \in Session |-> {t \in way[s] : t >= time + 1}]
    /\ UNCHANGED <<callback, poll, issued, failures, handed, repeats>>

\* A goroutine's client leaves, or the process goes down.
Abandon ==
    /\ Fail
    /\ \/ \E b \in Callback : /\ callback[b].pc # "idle" /\ callback' = [callback EXCEPT ![b] = Idle]
                              /\ wasted' = wasted \cup (callback[b].token \
                                   {t \in Token : \E s \in Session : t \in Tokens(session[s])})
                              /\ UNCHANGED poll
       \/ \E p \in Poller : /\ poll[p].pc = "del" /\ poll' = [poll EXCEPT ![p] = Idle]
                            /\ wasted' = wasted \cup (poll[p].token \
                                 {t \in Token : \E s \in Session : t \in Tokens(session[s])})
                            /\ UNCHANGED callback
    /\ UNCHANGED <<time, session, way, issued, handed, repeats>>

Next == \/ \E s \in Session : Initiate(s)
        \/ \E b \in Callback : Arrive(b) \/ Lookup(b) \/ Exchange(b) \/ Complete(b) \/ Spend(b)
        \/ \E p \in Poller : Read(p) \/ Del(p)
        \/ Pass \/ Abandon

Spec == Init /\ [][Next]_vars

-----------------------------------------------------------------------------
(* Properties                                                              *)

InHand(t) == \/ \E b \in Callback : callback[b].pc = "complete" /\ t \in callback[b].token
             \/ \E p \in Poller : t \in poll[p].token
Stored(t) == \E s \in Session : t \in Tokens(session[s])

\* commander_client_auth.go:163-172: a token that was issued waits in its
\* session, is on its way in or out, has been answered, or was lost in one of
\* the ways the history records.
TokenAccounted ==
    \A t \in 1..issued : Stored(t) \/ InHand(t) \/ handed[t] > 0 \/ t \in wasted

\* commander_client_auth.go:164: a token is answered once, unless two polls
\* had read it before either deleted it, or the delete failed.
SingleUse == \A t \in Token \ repeats : handed[t] =< 1 /\ (handed[t] = 1 => ~Stored(t))

=============================================================================
