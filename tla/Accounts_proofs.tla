--------------------------- MODULE Accounts_proofs --------------------------
(***************************************************************************)
(* Proofs about PkceStore, DesktopLogin, FrontierTokens, JournalIngest and *)
(* Presence: the inductive invariant of each, and from it the safety       *)
(* properties the runs check, for every number of goroutines, every batch  *)
(* of events and every bound.  Login, Tokens, Ingest and Beats, of         *)
(* MCAccounts, are the last four.                                          *)
(***************************************************************************)
EXTENDS MCAccounts, FiniteSetTheorems, SequenceTheorems, TLAPS

-----------------------------------------------------------------------------
(* The instances count as the library does                                 *)

LEMMA SameFinite == \A S : Ingest!IsFiniteSet(S) <=> IsFiniteSet(S)
BY DEF Ingest!IsFiniteSet, IsFiniteSet

LEMMA SameSize ==
    \A S : /\ Login!Cardinality(S) = Cardinality(S) /\ Tokens!Cardinality(S) = Cardinality(S)
           /\ Ingest!Cardinality(S) = Cardinality(S)
BY DEF Login!Cardinality, Tokens!Cardinality, Ingest!Cardinality, Cardinality

\* A set of at most one element is counted.
LEMMA OneCounts == \A x : Cardinality({}) = 0 /\ Cardinality({x}) = 1
BY FS_EmptySet, FS_Singleton

-----------------------------------------------------------------------------
(* The desktop client's login                                              *)

One(S) == S = {} \/ \E x \in S : S = {x}

InPoll(p, t) == t \in poll[p].token
\* A callback that has not stored its token yet.
Holds(b, t) == callback[b].pc = "complete" /\ t \in callback[b].token

\* What is in a request's hands is one token of one session.
HandsOne ==
    /\ \A s \in Session : One(way[s])
    /\ \A b \in Callback : /\ One(callback[b].token) /\ One(callback[b].of)
                           /\ callback[b].token # {} => callback[b].pc \in {"complete", "spend"}
    /\ \A p \in Poller : One(poll[p].token) /\ One(poll[p].of)

\* A token not issued yet is nowhere.
FreshTokens ==
    \A t \in Login!Token : t > issued =>
        /\ \A b \in Callback : t \notin callback[b].token
        /\ \A p \in Poller : ~InPoll(p, t)
        /\ ~Login!Stored(t) /\ handed[t] = 0

\* One that a callback is about to store is nowhere else.
FreshHolds ==
    /\ \A b, c \in Callback : b # c => callback[b].token \cap callback[c].token = {}
    /\ \A b \in Callback, t \in Login!Token : Holds(b, t) =>
          /\ ~Login!Stored(t) /\ handed[t] = 0 /\ \A p \in Poller : ~InPoll(p, t)

\* Two sessions do not hold one token, and one that polls have not raced for
\* is in one poll at most, whose session holds it still, or nobody's.
ReadOnce ==
    /\ \A s, r \in Session : s # r => Login!Tokens(session[s]) \cap Login!Tokens(session[r]) = {}
    /\ \A t \in Login!Token \ repeats : \A p \in Poller : InPoll(p, t) =>
          /\ handed[t] = 0
          /\ \A q \in Poller \ {p} : ~InPoll(q, t)
          /\ \A s \in Session : t \in Login!Tokens(session[s]) => poll[p].of = {s}

\* SingleUse.
Answered == \A t \in Login!Token \ repeats : handed[t] =< 1 /\ (handed[t] = 1 => ~Login!Stored(t))

LoginInv == /\ Login!TypeOK /\ HandsOne /\ FreshTokens /\ FreshHolds /\ ReadOnce /\ Answered
            /\ Login!TokenAccounted

-----------------------------------------------------------------------------
(* Frontier's tokens                                                       *)

\* Requests come one a goroutine, and grants after each other.
Numbered ==
    /\ given \in Seq([at : Nat, exp : Nat]) /\ Len(given) = jtis /\ DOMAIN req = Server
    /\ \A h \in Server : One(req[h]) /\ \A r \in req[h] : r.old =< jtis /\ r.grant =< grants

\* RecordKept, of sessions revoked as well: the record's key outlives the
\* access token and the minute.
RecordLasts ==
    \A j \in 1..jtis \ astray : clock =< given[j].exp \/ clock =< given[j].at + 1 =>
        j \in DOMAIN record /\ record[j].till >= given[j].exp /\ record[j].till >= given[j].at + 1

Live == valid \cap DOMAIN record
Asked == UNION {req[h] : h \in Server}

\* A grant nobody shared is in one valid session's record or none, and in one
\* request at most, which came by it from that session.
OneSession ==
    /\ \A i, j \in Live : i # j /\ record[i].grant = record[j].grant => record[i].grant \in shared
    /\ \A r \in Asked, j \in Live : r.grant = record[j].grant => r.old = j \/ r.grant \in shared
    /\ \A g, h \in Server : g # h => \A r \in req[g], q \in req[h] : r.grant = q.grant => r.grant \in shared

\* A request that has renewed its grant is alone with the new one; one that has
\* not has its session's, good unless shared.
OwnGrant ==
    /\ \A r \in Asked : r.renewed => \A j \in DOMAIN record : record[j].grant # r.grant
    /\ \A g, h \in Server : g # h => \A r \in req[g], q \in req[h] : r.renewed => r.grant # q.grant
    /\ \A r \in Asked : ~r.renewed =>
          /\ r.grant \in spent => r.grant \in shared
          /\ r.old \in DOMAIN record => record[r.old].grant = r.grant

TokensInv == Tokens!TypeOK /\ Numbered /\ RecordLasts /\ OneSession /\ OwnGrant /\ Tokens!Renewable

-----------------------------------------------------------------------------
(* The limiter                                                             *)

\* Calls let through since s, and in the window before it.
Since(s) == {i \in DOMAIN passes : passes[i] >= s}
Before(s) == {i \in DOMAIN passes : passes[i] < s /\ passes[i] >= s - Window}

\* What a bucket's tokens say of the calls in its window and in the one before.
Spends(b) ==
    LET s == b.reset - Window IN
    /\ b \in [tokens : 0..Capacity, reset : Nat] /\ s \in Nat /\ s =< clock
    /\ \A i \in DOMAIN passes : passes[i] =< b.reset
    /\ Cardinality(Since(s)) =< Capacity - b.tokens
    /\ Cardinality(Before(s)) =< Capacity

LimitInv ==
    /\ passes \in Seq(Nat) /\ clock \in Nat
    /\ \A i \in DOMAIN passes : passes[i] =< clock
    /\ \A i, j \in DOMAIN passes : i =< j => passes[i] =< passes[j]
    /\ \/ bucket = {} /\ passes = << >>
       \/ \E b \in bucket : bucket = {b} /\ Spends(b)
    /\ Ingest!BurstBound(passes)

-----------------------------------------------------------------------------
(* Uploads and pages                                                       *)

Held(u) == Ingest!Held(u)
Keys == Ingest!Keys

\* An event that was accepted.
Event == [ts : 0..MaxTime + Ahead, kind : Kind \ {""}, datum : Datum]

\* An upload's record: a transaction under way has counted what its events
\* have come to, and each has its row, or had one.
Fine(x) ==
    /\ x = [pc |-> x.pc, events |-> x.events, at |-> x.at, mine |-> x.mine, twice |-> x.twice]
    /\ x.pc \in {"idle", "upsert", "insert"} /\ (x.pc = "insert" => known)
    /\ x.events \in Seq(Event)
    /\ x.mine \in [DOMAIN x.mine -> Datum] /\ DOMAIN x.mine \subseteq Ingest!Key /\ IsFiniteSet(DOMAIN x.mine)
    /\ x.at \in 0..Len(x.events) /\ x.twice \in Nat /\ Cardinality(DOMAIN x.mine) + x.twice = x.at
    /\ \A i \in 1..x.at : Ingest!KeyOf(x.events[i]) \in Keys \cup DOMAIN x.mine \cup dropped

\* Transactions hold keys of their own.
HeldApart(x, y) == DOMAIN x.mine \cap DOMAIN y.mine = {}

Counts ==
    /\ IsFiniteSet(Keys) /\ rows \in [Keys -> Datum]
    /\ upload = [u \in Uploader |-> upload[u]]
    /\ \A u \in Uploader : Fine(upload[u]) /\ Held(u) \cap Keys = {}
    /\ \A u, v \in Uploader : u # v => HeldApart(upload[u], upload[v])

\* What a reader has not seen and nobody dropped is before them still.
StillAhead ==
    /\ One(reader)
    /\ \A w \in reader : \A k \in w.from :
         \/ k \in w.seen \cup dropped
         \/ ~w.done /\ k \in Keys /\ k[1] =< w.before /\ k[2] = w.kind

IngestInv == /\ Ingest!TypeOK /\ Counts /\ Ingest!CountsAddUp /\ Ingest!AckedStored /\ StillAhead

-----------------------------------------------------------------------------
(* Presence                                                                *)

\* The key runs out a TTL after its last write, and its record is no older than
\* a write may take; no write is under way for longer.
KeyTells ==
    /\ (key = {}) \/ \E k \in key : key = {k}
    /\ \A k \in key : /\ k.till =< k.seen + PresenceTtl + Timeout /\ clock =< k.till
                      /\ \E w \in written : k.till = w + PresenceTtl
    /\ \A w \in written : w =< clock /\ (clock =< w + PresenceTtl => key # {})
    /\ One(written)
    /\ \A b \in Handler : \A t \in stamp[b] : t =< clock /\ clock =< t + Timeout
    /\ \A s \in shown : s.at =< clock

BeatsInv == Beats!TypeOK /\ KeyTells /\ Beats!PresenceTells

-----------------------------------------------------------------------------
(* The desktop client's login: its steps                                   *)

\* What LoginInv says, for citing.
LEMMA LoginInitInv == Login!Init => LoginInv
<1> SUFFICES ASSUME Login!Init PROVE LoginInv
  OBVIOUS
<1> USE DEF Login!Init
<1>1. Login!TypeOK
  <2>1. \A s \in Session : way[s] = {} /\ Login!Cardinality(way[s]) =< 1
    BY OneCounts, SameSize
  <2>2. QED
    BY <2>1, LoginAssumption, PkceAssumption
       DEF Login!TypeOK, Login!Value, Login!None, Login!Hand, Login!Idle, Login!Token
<1>2. HandsOne /\ FreshHolds /\ FreshTokens /\ ReadOnce
  BY DEF HandsOne, FreshTokens, FreshHolds, ReadOnce, One, Holds, InPoll, Login!Idle, Login!None, Login!Tokens, Login!Stored
<1>3. Answered /\ Login!TokenAccounted
  BY LoginAssumption DEF Answered, Login!TokenAccounted, Login!None, Login!Tokens, Login!Stored
<1>4. QED
  BY <1>1, <1>2, <1>3 DEF LoginInv

\* What a session holds.
LEMMA TokensOf ==
    \A v : Login!Tokens(v) = IF v.status = "complete" THEN {v.token} ELSE {}
BY DEF Login!Tokens

\* Steps that only take tokens away, of sessions or hands.
LEMMA TokensShrink ==
    ASSUME LoginInv, UNCHANGED <<issued, handed, repeats>>,
           \A s \in Session : Login!Tokens(session'[s]) \subseteq Login!Tokens(session[s]),
           \A b \in Callback : /\ callback'[b].token \subseteq callback[b].token
                               /\ callback'[b].pc = "complete" => callback[b].pc = "complete" \/ callback'[b].token = {},
           \A p \in Poller : /\ poll'[p].token \subseteq poll[p].token
                             /\ poll'[p].token # {} => poll'[p].of = poll[p].of
    PROVE  FreshTokens' /\ FreshHolds' /\ ReadOnce' /\ Answered'
<1> USE DEF LoginInv
<1>1. /\ \A t : Login!Stored(t)' => Login!Stored(t)
      /\ \A t : \A p \in Poller : InPoll(p, t)' => InPoll(p, t)
      /\ \A t : \A b \in Callback : Holds(b, t)' => Holds(b, t)
  BY DEF Login!Stored, InPoll, Holds
<1>2. FreshTokens' /\ Answered'
  BY <1>1 DEF FreshTokens, Answered
<1>3. FreshHolds'
  BY <1>1 DEF FreshHolds
<1>4. \A s, r \in Session : s # r => Login!Tokens(session'[s]) \cap Login!Tokens(session'[r]) = {}
  BY DEF ReadOnce
<1>5. ASSUME NEW t \in Login!Token \ repeats, NEW p \in Poller, InPoll(p, t)'
      PROVE  /\ handed[t] = 0
             /\ \A q \in Poller \ {p} : ~InPoll(q, t)'
             /\ \A s \in Session : t \in Login!Tokens(session'[s]) => poll'[p].of = {s}
  <2>1. InPoll(p, t) /\ poll'[p].of = poll[p].of
    BY <1>1, <1>5 DEF InPoll
  <2>2. QED
    BY <1>1, <2>1 DEF ReadOnce
<1>6. ReadOnce'
  BY <1>4, <1>5 DEF ReadOnce
<1>7. QED
  BY <1>2, <1>3, <1>6

\* The types, when a step has kept those of what it wrote.
LEMMA LoginTypes ==
    ASSUME LoginInv, clock' \in 0..MaxTime, issued' \in 0..MaxTokens, failures' \in 0..MaxFaults,
           session' \in [Session -> Login!Value], way' \in [Session -> SUBSET Nat], \A s \in Session : One(way'[s]),
           callback' \in [Callback -> Login!Hand], poll' \in [Poller -> Login!Hand],
           \A b \in Callback : callback'[b].pc \in {"complete", "spend"} => callback'[b].token # {},
           \A p \in Poller : poll'[p].pc = "del" <=> poll'[p].token # {},
           handed' \in [Login!Token -> Nat], repeats' \subseteq Login!Token, wasted' \subseteq Login!Token
    PROVE  Login!TypeOK'
<1>1. ASSUME NEW s \in Session PROVE Login!Cardinality(way'[s]) =< 1
  <2>1. Login!Cardinality(way'[s]) \in {0, 1}
    BY OneCounts, SameSize, Zenon DEF One
  <2>2. QED
    BY <2>1
<1>2. QED
  BY <1>1 DEF Login!TypeOK, Login!Value, Login!Hand, Login!Token

\* A login opened: its session holds nothing yet.
LEMMA InitiateStep == ASSUME LoginInv, NEW s \in Session, Login!Initiate(s) PROVE LoginInv'
<1>0. Login!TypeOK
  BY DEF LoginInv
<1>1. UNCHANGED <<clock, callback, poll, issued, handed, repeats, wasted>> /\ session[s] = Login!None
      /\ session' = [session EXCEPT ![s] = Login!Opened]
      /\ way' \in {way, [way EXCEPT ![s] = {clock + PendingTtl}]} /\ failures' \in 0..MaxFaults
  BY <1>0, LoginAssumption DEF Login!Initiate, Login!Well, Login!Fail, Login!TypeOK
<1>2. clock \in Nat /\ clock + PendingTtl \in Nat
  BY <1>0, LoginAssumption, PkceAssumption DEF Login!TypeOK
<1>3. Login!Tokens(Login!Opened) = {} /\ Login!Tokens(Login!None) = {}
  BY TokensOf DEF Login!Opened, Login!None
<1>4. \A r \in Session : session'[r] = IF r = s THEN Login!Opened ELSE session[r]
  BY <1>0, <1>1 DEF Login!TypeOK
<1>5. \A r \in Session : Login!Tokens(session'[r]) = Login!Tokens(session[r])
  BY <1>1, <1>3, <1>4
<1>6. FreshTokens' /\ FreshHolds' /\ ReadOnce' /\ Answered'
  BY <1>1, <1>5, TokensShrink
<1>7. session' \in [Session -> Login!Value]
  BY <1>0, <1>1, <1>2 DEF Login!TypeOK, Login!Opened, Login!Value
<1>8. /\ way' \in [Session -> SUBSET Nat]
      /\ \A r \in Session : way'[r] \in {way[r], {clock + PendingTtl}}
  BY <1>0, <1>1, <1>2 DEF Login!TypeOK
<1>9. HandsOne'
  BY <1>1, <1>8 DEF LoginInv, HandsOne, One
<1>10. Login!TypeOK'
  <2>1. \A r \in Session : One(way'[r])
    BY <1>8 DEF LoginInv, HandsOne, One
  <2>2. QED
    BY <1>0, <1>1, <1>7, <1>8, <2>1, LoginTypes DEF Login!TypeOK
<1>11. \A t : Login!Stored(t)' <=> Login!Stored(t)
  BY <1>5 DEF Login!Stored, Login!Tokens
<1>12. Login!TokenAccounted'
  BY <1>1, <1>11 DEF LoginInv, Login!TokenAccounted, Login!InHand
<1>13. QED
  BY <1>6, <1>9, <1>10, <1>12 DEF LoginInv

\* What a callback's step writes: its own record alone.
LEMMA CallbackMoves ==
    ASSUME LoginInv, NEW b \in Callback, NEW r \in Login!Hand, callback' = [callback EXCEPT ![b] = r]
    PROVE  /\ callback' \in [Callback -> Login!Hand]
           /\ \A c \in Callback : callback'[c] = IF c = b THEN r ELSE callback[c]
BY DEF LoginInv, Login!TypeOK

\* The steps of a callback that end it, or only read.
LEMMA CallbackQuiet ==
    ASSUME LoginInv, NEW b \in Callback, NEW r \in Login!Hand, callback' = [callback EXCEPT ![b] = r],
           r.token = {}, r.pc \notin {"complete", "spend"}, One(r.of),
           UNCHANGED <<clock, session, poll, issued, handed, repeats>>, failures' \in 0..MaxFaults,
           way' \in [Session -> SUBSET Nat], \A s \in Session : One(way'[s]),
           wasted' \subseteq Login!Token, wasted \subseteq wasted', \A t : Holds(b, t) => t \in wasted'
    PROVE  LoginInv'
<1>1. /\ callback' \in [Callback -> Login!Hand]
      /\ \A c \in Callback : callback'[c] = IF c = b THEN r ELSE callback[c]
  BY CallbackMoves
<1>2. FreshTokens' /\ FreshHolds' /\ ReadOnce' /\ Answered'
  BY <1>1, TokensShrink
<1>3. HandsOne'
  BY <1>1 DEF LoginInv, HandsOne, One
<1>4. Login!TypeOK'
  BY <1>1, LoginTypes DEF LoginInv, Login!TypeOK
<1>5. /\ \A t : Login!Stored(t)' <=> Login!Stored(t)
      /\ \A t : Login!InHand(t) => Login!InHand(t)' \/ t \in wasted'
  BY <1>1 DEF Login!Stored, Login!InHand, Holds
<1>6. Login!TokenAccounted'
  BY <1>5 DEF LoginInv, Login!TokenAccounted
<1>7. QED
  BY <1>2, <1>3, <1>4, <1>6 DEF LoginInv

LEMMA FaultCounts == ASSUME LoginInv, Login!Well \/ Login!Fail PROVE failures' \in 0..MaxFaults
BY LoginAssumption DEF LoginInv, Login!TypeOK, Login!Well, Login!Fail

\* A request at its end.
LEMMA IdleQuiet == Login!Idle \in Login!Hand /\ Login!Idle.token = {} /\ Login!Idle.pc = "idle" /\ One(Login!Idle.of)
BY DEF Login!Idle, Login!Hand, One

LEMMA ArriveStep == ASSUME LoginInv, NEW b \in Callback, Login!Arrive(b) PROVE LoginInv'
<1>1. PICK s \in Session : callback' = [callback EXCEPT ![b] = [Login!Idle EXCEPT !.pc = "read", !.of = {s}]]
  BY DEF Login!Arrive
<1>2. UNCHANGED <<clock, session, way, poll, issued, failures, handed, repeats, wasted>> /\ callback[b].pc = "idle"
  BY DEF Login!Arrive
<1> DEFINE r == [Login!Idle EXCEPT !.pc = "read", !.of = {s}]
<1>3. callback' = [callback EXCEPT ![b] = r]
  BY <1>1
<1>4. r \in Login!Hand /\ r.token = {} /\ r.pc = "read" /\ One(r.of)
  BY IdleQuiet DEF Login!Hand, Login!Idle, One
<1>5. \A t : ~Holds(b, t)
  BY <1>2 DEF Holds
<1> HIDE DEF r
<1>6. QED
  BY <1>2, <1>3, <1>4, <1>5, CallbackQuiet DEF LoginInv, Login!TypeOK, HandsOne

LEMMA LookupStep == ASSUME LoginInv, NEW b \in Callback, Login!Lookup(b) PROVE LoginInv'
<1>1. UNCHANGED <<clock, session, way, poll, issued, handed, repeats, wasted>> /\ callback[b].pc = "read"
  BY DEF Login!Lookup
<1>2. failures' \in 0..MaxFaults
  BY FaultCounts DEF Login!Lookup
<1> DEFINE r == [callback[b] EXCEPT !.pc = "exchange"]
<1>3. r \in Login!Hand /\ r.token = {} /\ r.pc = "exchange" /\ One(r.of)
  <2>1. callback[b] \in Login!Hand /\ callback[b].token = {} /\ One(callback[b].of)
    BY <1>1 DEF LoginInv, Login!TypeOK, HandsOne
  <2>2. QED
    BY <2>1 DEF Login!Hand
<1>4. callback' = [callback EXCEPT ![b] = r] \/ callback' = [callback EXCEPT ![b] = Login!Idle]
  BY DEF Login!Lookup
<1>5. \A t : ~Holds(b, t)
  BY <1>1 DEF Holds
<1> HIDE DEF r
<1>6. QED
  BY <1>1, <1>2, <1>3, <1>4, <1>5, IdleQuiet, CallbackQuiet DEF LoginInv, Login!TypeOK, HandsOne

LEMMA SpendStep == ASSUME LoginInv, NEW b \in Callback, Login!Spend(b) PROVE LoginInv'
<1>1. UNCHANGED <<clock, session, poll, issued, handed, repeats, wasted>> /\ callback[b].pc = "spend"
      /\ callback' = [callback EXCEPT ![b] = Login!Idle]
  BY DEF Login!Spend
<1>2. failures' \in 0..MaxFaults
  BY FaultCounts DEF Login!Spend
<1>3. way' \in [Session -> SUBSET Nat] /\ \A s \in Session : way'[s] \in {way[s], {}}
  BY DEF Login!Spend, LoginInv, Login!TypeOK
<1>4. \A s \in Session : One(way'[s])
  BY <1>3 DEF LoginInv, HandsOne, One
<1>5. \A t : ~Holds(b, t)
  BY <1>1 DEF Holds
<1>6. QED
  BY <1>1, <1>2, <1>3, <1>4, <1>5, IdleQuiet, CallbackQuiet DEF LoginInv, Login!TypeOK

\* Frontier's answers, and the token's birth: it is nowhere else.
LEMMA ExchangeStep == ASSUME LoginInv, NEW b \in Callback, Login!Exchange(b) PROVE LoginInv'
<1>1. UNCHANGED <<clock, session, way, poll, handed, repeats, wasted>> /\ callback[b].pc = "exchange"
  BY DEF Login!Exchange
<1>2. failures' \in 0..MaxFaults
  BY FaultCounts DEF Login!Exchange
<1>3. CASE UNCHANGED issued /\ callback' = [callback EXCEPT ![b] = Login!Idle]
  <2>1. \A t : ~Holds(b, t)
    BY <1>1 DEF Holds
  <2>2. QED
    BY <1>1, <1>2, <1>3, <2>1, IdleQuiet, CallbackQuiet DEF LoginInv, Login!TypeOK, HandsOne
<1>4. CASE issued < MaxTokens /\ issued' = issued + 1
           /\ callback' = [callback EXCEPT ![b].pc = "complete", ![b].token = {issued + 1}]
  <2> DEFINE r == [callback[b] EXCEPT !.pc = "complete", !.token = {issued + 1}]
  <2>1. issued + 1 \in Login!Token /\ issued \in Nat
    BY <1>4, LoginAssumption DEF Login!Token, LoginInv, Login!TypeOK
  <2>2. callback[b] \in Login!Hand
    BY DEF LoginInv, Login!TypeOK
  <2>3. r \in Login!Hand /\ r.pc = "complete" /\ r.token = {issued + 1} /\ r.of = callback[b].of
    BY <2>1, <2>2 DEF Login!Hand
  <2>4. callback' = [callback EXCEPT ![b] = r]
    BY <1>4
  <2> HIDE DEF r
  <2>5. /\ callback' \in [Callback -> Login!Hand]
        /\ \A c \in Callback : callback'[c] = IF c = b THEN r ELSE callback[c]
    BY <2>3, <2>4, CallbackMoves
  <2>6. HandsOne'
    BY <1>1, <2>3, <2>5 DEF LoginInv, HandsOne, One
  <2>7. Login!TypeOK'
    <3>1. issued' \in 0..MaxTokens
      BY <1>4, <2>1, LoginAssumption
    <3>2. \A c \in Callback : callback'[c].pc \in {"complete", "spend"} => callback'[c].token # {}
      BY <2>3, <2>5 DEF LoginInv, Login!TypeOK
    <3>3. QED
      BY <1>1, <1>2, <2>5, <3>1, <3>2, LoginTypes DEF LoginInv, Login!TypeOK, HandsOne
  <2>8. \A t : (Login!Stored(t)' <=> Login!Stored(t)) /\ (Login!InHand(t) => Login!InHand(t)')
    BY <1>1, <2>5 DEF Login!Stored, Login!InHand
  <2>9. Login!TokenAccounted'
    <3>1. \A t : t = issued + 1 => Login!InHand(t)'
      BY <2>3, <2>5 DEF Login!InHand
    <3>2. \A t \in 1..issued' : t \in 1..issued \/ t = issued + 1
      BY <1>4, <2>1
    <3>3. QED
      BY <1>1, <2>8, <3>1, <3>2 DEF LoginInv, Login!TokenAccounted
  <2>10. \A t : \A c \in Callback : Holds(c, t)' => Holds(c, t) \/ (c = b /\ t = issued + 1)
    BY <2>3, <2>5 DEF Holds
  <2>11. /\ ~Login!Stored(issued + 1) /\ handed[issued + 1] = 0
         /\ \A c \in Callback : issued + 1 \notin callback[c].token
         /\ \A p \in Poller : ~InPoll(p, issued + 1)
    BY <2>1 DEF LoginInv, FreshTokens
  <2>12. FreshTokens'
    BY <1>1, <1>4, <2>1, <2>3, <2>5, <2>8 DEF LoginInv, FreshTokens, InPoll, Login!Token
  <2>13. FreshHolds'
    <3>1. \A c, d \in Callback : c # d => callback'[c].token \cap callback'[d].token = {}
      BY <2>3, <2>5, <2>11 DEF LoginInv, FreshHolds
    <3>2. \A c \in Callback, t \in Login!Token : Holds(c, t)' =>
             ~Login!Stored(t)' /\ handed'[t] = 0 /\ \A p \in Poller : ~InPoll(p, t)'
      BY <1>1, <2>8, <2>10, <2>11 DEF LoginInv, FreshHolds, InPoll
    <3>3. QED
      BY <3>1, <3>2 DEF FreshHolds
  <2>14. ReadOnce' /\ Answered'
    <3>1. Answered'
      BY <1>1, <2>8 DEF LoginInv, Answered
    <3>2. UNCHANGED <<session, poll, handed, repeats>>
      BY <1>1
    <3>3. QED
      BY <3>1, <3>2 DEF LoginInv, ReadOnce, InPoll
  <2>15. QED
    BY <2>6, <2>7, <2>9, <2>12, <2>13, <2>14 DEF LoginInv
<1>5. QED
  BY <1>3, <1>4 DEF Login!Exchange

\* The token is stored, over whatever the session held.
LEMMA CompleteStep == ASSUME LoginInv, NEW b \in Callback, Login!Complete(b) PROVE LoginInv'
<1>1. UNCHANGED <<clock, way, poll, issued, handed, repeats>> /\ callback[b].pc = "complete"
  BY DEF Login!Complete
<1>2. failures' \in 0..MaxFaults
  BY FaultCounts DEF Login!Complete
<1>3. PICK s \in callback[b].of, t \in callback[b].token :
         \/ /\ session' = [session EXCEPT ![s] = [status |-> "complete", token |-> t, till |-> clock + CompleteTtl]]
            /\ wasted' = wasted \cup Login!Tokens(session[s])
            /\ callback' = [callback EXCEPT ![b].pc = "spend"]
         \/ /\ UNCHANGED session /\ wasted' = wasted \cup {t}
            /\ callback' = [callback EXCEPT ![b] = Login!Idle]
  BY DEF Login!Complete
<1>4. callback[b] \in Login!Hand /\ s \in Session /\ t \in Login!Token /\ callback[b].token = {t}
  BY DEF LoginInv, Login!TypeOK, Login!Hand, HandsOne, One
<1>5. CASE UNCHANGED session /\ wasted' = wasted \cup {t} /\ callback' = [callback EXCEPT ![b] = Login!Idle]
  <2>1. \A u : Holds(b, u) => u \in wasted'
    BY <1>4, <1>5 DEF Holds
  <2>2. wasted' \subseteq Login!Token
    BY <1>4, <1>5 DEF LoginInv, Login!TypeOK
  <2>3. QED
    BY <1>1, <1>2, <1>5, <2>1, <2>2, IdleQuiet, CallbackQuiet DEF LoginInv, Login!TypeOK, HandsOne
<1>6. CASE /\ session' = [session EXCEPT ![s] = [status |-> "complete", token |-> t, till |-> clock + CompleteTtl]]
           /\ wasted' = wasted \cup Login!Tokens(session[s])
           /\ callback' = [callback EXCEPT ![b].pc = "spend"]
  <2> DEFINE r == [callback[b] EXCEPT !.pc = "spend"]
             v == [status |-> "complete", token |-> t, till |-> clock + CompleteTtl]
  <2>1. r \in Login!Hand /\ r.pc = "spend" /\ r.token = {t} /\ r.of = callback[b].of
    BY <1>4 DEF Login!Hand
  <2>2. callback' = [callback EXCEPT ![b] = r]
    BY <1>6
  <2>3. v \in Login!Value /\ Login!Tokens(v) = {t}
    BY <1>4, LoginAssumption, PkceAssumption DEF Login!Value, LoginInv, Login!TypeOK, Login!Tokens
  <2>4. session' = [session EXCEPT ![s] = v]
    BY <1>6
  <2> HIDE DEF r, v
  <2>5. /\ callback' \in [Callback -> Login!Hand]
        /\ \A c \in Callback : callback'[c] = IF c = b THEN r ELSE callback[c]
    BY <2>1, <2>2, CallbackMoves
  <2>6. session' \in [Session -> Login!Value] /\ \A x \in Session : session'[x] = IF x = s THEN v ELSE session[x]
    BY <2>3, <2>4 DEF LoginInv, Login!TypeOK
  <2>7. /\ \A u : Login!Stored(u)' => Login!Stored(u) \/ u = t
        /\ Login!Stored(t)'
        /\ \A u : Login!Stored(u) => Login!Stored(u)' \/ u \in Login!Tokens(session[s])
    BY <1>4, <2>3, <2>6 DEF Login!Stored
  <2>8. ~Login!Stored(t) /\ handed[t] = 0 /\ \A p \in Poller : ~InPoll(p, t)
    BY <1>1, <1>4 DEF LoginInv, FreshHolds, Holds
  <2>9. t =< issued
    BY <1>1, <1>4, <2>8 DEF LoginInv, FreshTokens, Holds, Login!TypeOK, Login!Token
  <2>10. HandsOne'
    BY <1>1, <1>4, <2>1, <2>5 DEF LoginInv, HandsOne, One
  <2>11. Login!TypeOK'
    <3>1. Login!Tokens(session[s]) \subseteq Login!Token
      BY <1>4 DEF LoginInv, Login!TypeOK, Login!Tokens, Login!Value
    <3>2. wasted' \subseteq Login!Token
      BY <1>6, <3>1 DEF LoginInv, Login!TypeOK
    <3>3. \A c \in Callback : callback'[c].pc \in {"complete", "spend"} => callback'[c].token # {}
      BY <2>1, <2>5 DEF LoginInv, Login!TypeOK
    <3>4. QED
      BY <1>1, <1>2, <2>5, <2>6, <3>2, <3>3, LoginTypes DEF LoginInv, Login!TypeOK, HandsOne
  <2>12. FreshTokens'
    BY <1>1, <2>1, <2>5, <2>7, <2>9, <1>4 DEF LoginInv, FreshTokens, InPoll
  <2>13. \A u : \A c \in Callback : Holds(c, u)' => Holds(c, u) /\ u # t
    <3>1. \A c \in Callback \ {b} : t \notin callback[c].token
      BY <1>4 DEF LoginInv, FreshHolds
    <3>2. QED
      BY <2>1, <2>5, <3>1 DEF Holds
  <2>14. FreshHolds'
    <3>1. \A c, d \in Callback : c # d => callback'[c].token \cap callback'[d].token = {}
      BY <1>4, <2>1, <2>5 DEF LoginInv, FreshHolds
    <3>2. \A c \in Callback, u \in Login!Token : Holds(c, u)' =>
             ~Login!Stored(u)' /\ handed'[u] = 0 /\ \A p \in Poller : ~InPoll(p, u)'
      BY <1>1, <2>7, <2>13 DEF LoginInv, FreshHolds, InPoll
    <3>3. QED
      BY <3>1, <3>2 DEF FreshHolds
  <2>15. ReadOnce'
    <3>1. \A x \in Session : t \notin Login!Tokens(session[x])
      BY <2>8 DEF Login!Stored
    <3>2. \A x, y \in Session : x # y => Login!Tokens(session'[x]) \cap Login!Tokens(session'[y]) = {}
      BY <2>3, <2>6, <3>1 DEF LoginInv, ReadOnce
    <3>3. ASSUME NEW u \in Login!Token \ repeats, NEW p \in Poller, InPoll(p, u)
          PROVE  /\ handed[u] = 0
                 /\ \A q \in Poller \ {p} : ~InPoll(q, u)
                 /\ \A x \in Session : u \in Login!Tokens(session'[x]) => poll[p].of = {x}
      <4>1. u # t
        BY <2>8, <3>3
      <4>2. QED
        BY <2>3, <2>6, <3>3, <4>1 DEF LoginInv, ReadOnce
    <3>4. QED
      BY <1>1, <3>2, <3>3 DEF ReadOnce, InPoll
  <2>16. Answered'
    BY <1>1, <2>7, <2>8 DEF LoginInv, Answered
  <2>17. Login!TokenAccounted'
    <3>1. \A u : Login!InHand(u) => Login!InHand(u)' \/ u = t
      BY <1>1, <1>4, <2>5 DEF Login!InHand
    <3>2. QED
      BY <1>1, <1>6, <2>7, <3>1 DEF LoginInv, Login!TokenAccounted
  <2>18. QED
    BY <2>10, <2>11, <2>12, <2>14, <2>15, <2>16, <2>17 DEF LoginInv
<1>7. QED
  BY <1>3, <1>5, <1>6

-----------------------------------------------------------------------------
(* Polls, time and requests that are given up                              *)

\* What a poll's step writes: its own record alone.
LEMMA PollMoves ==
    ASSUME LoginInv, NEW p \in Poller, NEW r \in Login!Hand, poll' = [poll EXCEPT ![p] = r]
    PROVE  /\ poll' \in [Poller -> Login!Hand]
           /\ \A q \in Poller : poll'[q] = IF q = p THEN r ELSE poll[q]
BY DEF LoginInv, Login!TypeOK

\* A poll reads a token: if another poll has it the race is recorded.
LEMMA ReadStep == ASSUME LoginInv, NEW p \in Poller, Login!Read(p) PROVE LoginInv'
<1>1. UNCHANGED <<clock, session, way, callback, issued, failures, handed, wasted>> /\ poll[p].pc = "idle"
  BY DEF Login!Read
<1>2. PICK s \in Session :
         /\ session[s].status = "complete"
         /\ poll' = [poll EXCEPT ![p] = [pc |-> "del", of |-> {s}, token |-> {session[s].token}]]
         /\ repeats' = repeats \cup {t \in {session[s].token} : \E q \in Poller : t \in poll[q].token}
  BY DEF Login!Read
<1>3. PICK t \in Login!Token : t = session[s].token /\ Login!Tokens(session[s]) = {t}
  BY <1>2 DEF LoginInv, Login!TypeOK, Login!Value, Login!Tokens
<1> DEFINE r == [pc |-> "del", of |-> {s}, token |-> {t}]
<1>4. r \in Login!Hand /\ r.pc = "del" /\ r.of = {s} /\ r.token = {t}
  BY <1>3 DEF Login!Hand
<1>5. poll' = [poll EXCEPT ![p] = r]
  BY <1>2, <1>3
<1> HIDE DEF r
<1>6. /\ poll' \in [Poller -> Login!Hand]
      /\ \A q \in Poller : poll'[q] = IF q = p THEN r ELSE poll[q]
  BY <1>4, <1>5, PollMoves
<1>7. Login!Stored(t)
  BY <1>3 DEF Login!Stored
<1>8. \A c \in Callback : ~Holds(c, t)
  BY <1>7 DEF LoginInv, FreshHolds
<1>9. t =< issued
  BY <1>7 DEF LoginInv, FreshTokens, Login!TypeOK, Login!Token
<1>10. /\ \A u : Login!Stored(u)' <=> Login!Stored(u)
       /\ \A u : \A q \in Poller : InPoll(q, u)' <=> IF q = p THEN u = t ELSE InPoll(q, u)
  <2>1. \A u : Login!Stored(u)' <=> Login!Stored(u)
    BY <1>1 DEF Login!Stored
  <2>2. \A u : \A q \in Poller : InPoll(q, u)' <=> IF q = p THEN u = t ELSE InPoll(q, u)
    BY <1>4, <1>6 DEF InPoll
  <2>3. QED
    BY <2>1, <2>2
<1>11. poll[p].token = {}
  BY <1>1 DEF LoginInv, Login!TypeOK
<1>12. Login!TypeOK'
  <2>1. repeats' \subseteq Login!Token
    BY <1>2, <1>3 DEF LoginInv, Login!TypeOK
  <2>2. \A q \in Poller : poll'[q].pc = "del" <=> poll'[q].token # {}
    BY <1>4, <1>6 DEF LoginInv, Login!TypeOK
  <2>3. QED
    BY <1>1, <1>6, <2>1, <2>2, LoginTypes DEF LoginInv, Login!TypeOK, HandsOne
<1>13. HandsOne'
  BY <1>1, <1>4, <1>6 DEF LoginInv, HandsOne, One
<1>14. FreshTokens'
  BY <1>1, <1>9, <1>10 DEF LoginInv, FreshTokens, Login!Token, Login!TypeOK
<1>15. FreshHolds'
  BY <1>1, <1>8, <1>10 DEF LoginInv, FreshHolds, Holds
<1>16. Answered'
  BY <1>1, <1>2, <1>10 DEF LoginInv, Answered
<1>17. ReadOnce'
  <2>1. \A x \in Session : t \in Login!Tokens(session[x]) => x = s
    BY <1>3 DEF LoginInv, ReadOnce
  <2>2. ASSUME NEW u \in Login!Token \ repeats', NEW q \in Poller, InPoll(q, u)'
        PROVE  /\ handed[u] = 0
               /\ \A o \in Poller \ {q} : ~InPoll(o, u)'
               /\ \A x \in Session : u \in Login!Tokens(session[x]) => poll'[q].of = {x}
    <3>1. CASE u = t
      <4>1. \A o \in Poller : ~InPoll(o, t)
        BY <1>2, <1>3, <2>2, <3>1 DEF InPoll
      <4>2. q = p
        BY <1>10, <2>2, <3>1, <4>1
      <4>3. handed[t] = 0
        <5>1. t \notin repeats
          BY <1>2, <2>2, <3>1
        <5>2. handed[t] \in Nat
          BY DEF LoginInv, Login!TypeOK
        <5>3. QED
          BY <1>7, <5>1, <5>2 DEF LoginInv, Answered
      <4>4. QED
        BY <1>4, <1>6, <1>10, <2>1, <3>1, <4>1, <4>2, <4>3
    <3>2. CASE u # t
      <4>1. q # p /\ InPoll(q, u) /\ poll'[q] = poll[q] /\ u \notin repeats
        BY <1>2, <1>6, <1>10, <2>2, <3>2
      <4>2. QED
        BY <1>10, <3>2, <4>1 DEF LoginInv, ReadOnce
    <3>3. QED
      BY <3>1, <3>2
  <2>3. QED
    BY <1>1, <2>2 DEF LoginInv, ReadOnce
<1>18. Login!TokenAccounted'
  <2>1. \A u : Login!InHand(u) => Login!InHand(u)'
    BY <1>1, <1>6, <1>11 DEF Login!InHand
  <2>2. QED
    BY <1>1, <1>10, <2>1 DEF LoginInv, Login!TokenAccounted
<1>19. QED
  BY <1>12, <1>13, <1>14, <1>15, <1>16, <1>17, <1>18 DEF LoginInv

\* The token is answered, and its session deleted unless that fails.
LEMMA DelStep == ASSUME LoginInv, NEW p \in Poller, Login!Del(p) PROVE LoginInv'
<1>1. UNCHANGED <<clock, way, callback, issued>> /\ poll[p].pc = "del"
      /\ poll' = [poll EXCEPT ![p] = Login!Idle] /\ (Login!Well \/ Login!Fail)
  BY DEF Login!Del
<1>2. failures' \in 0..MaxFaults
  BY <1>1, FaultCounts
<1>3. PICK s \in poll[p].of, t \in poll[p].token :
         /\ handed' = [handed EXCEPT ![t] = @ + 1]
         /\ \/ /\ session' = [session EXCEPT ![s] = Login!None] /\ UNCHANGED repeats
               /\ wasted' = wasted \cup (Login!Tokens(session[s]) \ {t})
            \/ /\ repeats' = repeats \cup {t} /\ UNCHANGED <<session, wasted>>
  BY DEF Login!Del
<1>4. s \in Session /\ t \in Login!Token /\ poll[p].token = {t} /\ poll[p].of = {s} /\ poll[p] \in Login!Hand
  BY DEF LoginInv, Login!TypeOK, Login!Hand, HandsOne, One
<1>5. /\ poll' \in [Poller -> Login!Hand]
      /\ \A q \in Poller : poll'[q] = IF q = p THEN Login!Idle ELSE poll[q]
  BY <1>1, IdleQuiet, PollMoves
<1>6. \A u : \A q \in Poller : InPoll(q, u)' <=> q # p /\ InPoll(q, u)
  BY <1>5, IdleQuiet DEF InPoll
<1>7. InPoll(p, t)
  BY <1>4 DEF InPoll
<1>8. /\ handed' \in [Login!Token -> Nat] /\ handed'[t] = handed[t] + 1 /\ handed[t] \in Nat
      /\ \A u \in Login!Token : u # t => handed'[u] = handed[u]
  BY <1>3, <1>4 DEF LoginInv, Login!TypeOK
<1>9. Login!Tokens(Login!None) = {}
  BY TokensOf DEF Login!None
<1>10. /\ session' \in [Session -> Login!Value]
       /\ \A x \in Session : session'[x] = session[x] \/ (session'[x] = Login!None /\ x = s)
  BY <1>3, <1>4 DEF LoginInv, Login!TypeOK, Login!None, Login!Value
<1>11. \A x \in Session : Login!Tokens(session'[x]) \subseteq Login!Tokens(session[x])
  BY <1>9, <1>10
<1>12. repeats' \in {repeats, repeats \cup {t}}
  BY <1>3
<1>13. \A u : Login!Stored(u)' => Login!Stored(u)
  BY <1>11 DEF Login!Stored
<1>14. Login!Tokens(session[s]) \subseteq Login!Token
  BY <1>4 DEF LoginInv, Login!TypeOK, Login!Tokens, Login!Value
<1>15. Login!TypeOK'
  <2>1. repeats' \subseteq Login!Token /\ wasted' \subseteq Login!Token
    BY <1>3, <1>4, <1>14 DEF LoginInv, Login!TypeOK
  <2>2. \A q \in Poller : poll'[q].pc = "del" <=> poll'[q].token # {}
    BY <1>5, IdleQuiet DEF LoginInv, Login!TypeOK
  <2>3. QED
    BY <1>1, <1>2, <1>5, <1>8, <1>10, <2>1, <2>2, LoginTypes DEF LoginInv, Login!TypeOK, HandsOne
<1>16. HandsOne'
  BY <1>1, <1>5, IdleQuiet DEF LoginInv, HandsOne, One
<1>17. t =< issued /\ \A b \in Callback : ~Holds(b, t)
  BY <1>4, <1>7 DEF LoginInv, FreshTokens, FreshHolds, Login!TypeOK, Login!Token
<1>18. FreshTokens'
  BY <1>1, <1>6, <1>8, <1>13, <1>17 DEF LoginInv, FreshTokens, Login!TypeOK, Login!Token
<1>19. FreshHolds'
  BY <1>1, <1>6, <1>8, <1>13, <1>17 DEF LoginInv, FreshHolds, Holds
<1>20. ReadOnce'
  <2>1. \A x, y \in Session : x # y => Login!Tokens(session'[x]) \cap Login!Tokens(session'[y]) = {}
    BY <1>11 DEF LoginInv, ReadOnce
  <2>2. ASSUME NEW u \in Login!Token \ repeats', NEW q \in Poller, InPoll(q, u)'
        PROVE  /\ handed'[u] = 0
               /\ \A o \in Poller \ {q} : ~InPoll(o, u)'
               /\ \A x \in Session : u \in Login!Tokens(session'[x]) => poll'[q].of = {x}
    <3>1. q # p /\ InPoll(q, u) /\ u \notin repeats /\ poll'[q] = poll[q]
      BY <1>5, <1>6, <1>12, <2>2
    <3>2. u # t
      BY <1>7, <3>1 DEF LoginInv, ReadOnce
    <3>3. QED
      BY <1>6, <1>8, <1>11, <3>1, <3>2 DEF LoginInv, ReadOnce
  <2>3. QED
    BY <2>1, <2>2 DEF ReadOnce
<1>21. Answered'
  <2> SUFFICES ASSUME NEW u \in Login!Token \ repeats'
               PROVE  handed'[u] =< 1 /\ (handed'[u] = 1 => ~Login!Stored(u)')
    BY DEF Answered
  <2>1. CASE u # t
    BY <1>8, <1>12, <1>13, <2>1 DEF LoginInv, Answered
  <2>2. CASE u = t
    <3>1. t \notin repeats /\ session' = [session EXCEPT ![s] = Login!None]
      BY <1>3, <2>2
    <3>2. handed[t] = 0 /\ \A x \in Session : t \in Login!Tokens(session[x]) => x = s
      BY <1>4, <1>7, <3>1 DEF LoginInv, ReadOnce
    <3>3. session'[s] = Login!None
      BY <1>4, <3>1 DEF LoginInv, Login!TypeOK
    <3>4. ~Login!Stored(t)'
      BY <1>9, <1>11, <3>2, <3>3 DEF Login!Stored
    <3>5. QED
      BY <1>8, <2>2, <3>2, <3>4
  <2>3. QED
    BY <2>1, <2>2
<1>22. Login!TokenAccounted'
  <2>1. \A u : Login!InHand(u) => Login!InHand(u)' \/ u = t
    BY <1>1, <1>4, <1>5 DEF Login!InHand
  <2>2. \A u : Login!Stored(u) => Login!Stored(u)' \/ u = t \/ u \in wasted'
    BY <1>3, <1>4, <1>10 DEF Login!Stored
  <2>3. 1..issued \subseteq Login!Token
    BY LoginAssumption DEF LoginInv, Login!TypeOK, Login!Token
  <2>4. wasted \subseteq wasted' /\ handed'[t] > 0
    BY <1>3, <1>8
  <2>5. QED
    BY <1>1, <1>8, <2>1, <2>2, <2>3, <2>4 DEF LoginInv, Login!TokenAccounted
<1>23. QED
  BY <1>15, <1>16, <1>18, <1>19, <1>20, <1>21, <1>22 DEF LoginInv

\* Keys run out with what they hold.
LEMMA LoginPassStep == ASSUME LoginInv, Login!Pass PROVE LoginInv'
<1> DEFINE over == {s \in Session : session[s].status # "none" /\ session[s].till < clock + 1}
<1>1. UNCHANGED <<callback, poll, issued, failures, handed, repeats>> /\ clock < MaxTime /\ clock' = clock + 1
      /\ session' = [s \in Session |-> IF s \in over THEN Login!None ELSE session[s]]
      /\ wasted' = wasted \cup UNION {Login!Tokens(session[s]) : s \in over}
      /\ way' = [s \in Session |-> {t \in way[s] : t >= clock + 1}]
  BY DEF Login!Pass
<1>2. clock' \in 0..MaxTime
  BY <1>1, PkceAssumption DEF LoginInv, Login!TypeOK
<1>3. Login!Tokens(Login!None) = {}
  BY TokensOf DEF Login!None
<1> HIDE DEF over
<1>4. session' \in [Session -> Login!Value] /\ \A s \in Session : session'[s] = IF s \in over THEN Login!None ELSE session[s]
  BY <1>1 DEF LoginInv, Login!TypeOK, Login!None, Login!Value
<1>5. \A s \in Session : Login!Tokens(session'[s]) \subseteq Login!Tokens(session[s])
  BY <1>3, <1>4
<1>6. FreshTokens' /\ FreshHolds' /\ ReadOnce' /\ Answered'
  BY <1>1, <1>5, TokensShrink
<1>7. way' \in [Session -> SUBSET Nat] /\ \A s \in Session : way'[s] \subseteq way[s]
  BY <1>1 DEF LoginInv, Login!TypeOK
<1>8. \A s \in Session : One(way'[s])
  BY <1>7 DEF LoginInv, HandsOne, One
<1>9. HandsOne'
  BY <1>1, <1>8 DEF LoginInv, HandsOne
<1>10. wasted' \subseteq Login!Token
  <2>1. \A s \in Session : Login!Tokens(session[s]) \subseteq Login!Token
    BY DEF LoginInv, Login!TypeOK, Login!Tokens, Login!Value
  <2>2. over \subseteq Session
    BY DEF over
  <2>3. QED
    BY <1>1, <2>1, <2>2 DEF LoginInv, Login!TypeOK
<1>11. Login!TypeOK'
  BY <1>1, <1>2, <1>4, <1>7, <1>8, <1>10, LoginTypes DEF LoginInv, Login!TypeOK
<1>12. Login!TokenAccounted'
  <2>1. \A u : Login!Stored(u) => Login!Stored(u)' \/ u \in wasted'
    BY <1>1, <1>4 DEF Login!Stored
  <2>2. \A u : Login!InHand(u)' <=> Login!InHand(u)
    BY <1>1 DEF Login!InHand
  <2>3. QED
    BY <1>1, <2>1, <2>2 DEF LoginInv, Login!TokenAccounted
<1>13. QED
  BY <1>6, <1>9, <1>11, <1>12 DEF LoginInv

\* A request that is given up loses what no session holds.
LEMMA LoginAbandonStep == ASSUME LoginInv, Login!Abandon PROVE LoginInv'
<1> DEFINE Kept == {t \in Login!Token : \E s \in Session : t \in Login!Tokens(session[s])}
<1>1. UNCHANGED <<clock, session, way, issued, handed, repeats>>
  BY DEF Login!Abandon
<1>2. failures' \in 0..MaxFaults
  BY FaultCounts DEF Login!Abandon
<1>3. ASSUME NEW b \in Callback, callback' = [callback EXCEPT ![b] = Login!Idle],
             wasted' = wasted \cup (callback[b].token \ Kept), UNCHANGED poll
      PROVE  LoginInv'
  <2>1. wasted' \subseteq Login!Token
    BY <1>3 DEF LoginInv, Login!TypeOK, Login!Hand
  <2>2. \A t : Holds(b, t) => t \in wasted'
    BY <1>3 DEF LoginInv, FreshHolds, Holds, Login!Stored, Login!TypeOK, Login!Hand
  <2> HIDE DEF Kept
  <2>3. QED
    BY <1>1, <1>2, <1>3, <2>1, <2>2, IdleQuiet, CallbackQuiet DEF LoginInv, Login!TypeOK, HandsOne
<1>4. ASSUME NEW p \in Poller, poll' = [poll EXCEPT ![p] = Login!Idle],
             wasted' = wasted \cup (poll[p].token \ Kept), UNCHANGED callback
      PROVE  LoginInv'
  <2>1. wasted' \subseteq Login!Token
    BY <1>4 DEF LoginInv, Login!TypeOK, Login!Hand
  <2>2. /\ poll' \in [Poller -> Login!Hand]
        /\ \A q \in Poller : poll'[q] = IF q = p THEN Login!Idle ELSE poll[q]
    BY <1>4, IdleQuiet, PollMoves
  <2>3. FreshTokens' /\ FreshHolds' /\ ReadOnce' /\ Answered'
    BY <1>1, <1>4, <2>2, IdleQuiet, TokensShrink
  <2>4. HandsOne'
    BY <1>1, <1>4, <2>2, IdleQuiet DEF LoginInv, HandsOne, One, Login!Idle
  <2>5. Login!TypeOK'
    <3>1. \A q \in Poller : poll'[q].pc = "del" <=> poll'[q].token # {}
      BY <2>2, IdleQuiet DEF LoginInv, Login!TypeOK
    <3>2. QED
      BY <1>1, <1>2, <1>4, <2>1, <2>2, <3>1, LoginTypes DEF LoginInv, Login!TypeOK, HandsOne
  <2>6. Login!TokenAccounted'
    <3>1. \A u : Login!Stored(u)' <=> Login!Stored(u)
      BY <1>1 DEF Login!Stored
    <3>2. poll[p].token \subseteq Login!Token
      BY DEF LoginInv, Login!TypeOK, Login!Hand
    <3>3. \A u : Login!InHand(u) => Login!InHand(u)' \/ u \in wasted' \/ Login!Stored(u)
      BY <1>4, <2>2, <3>2 DEF Login!InHand, Login!Stored
    <3>4. QED
      BY <1>1, <1>4, <3>1, <3>3 DEF LoginInv, Login!TokenAccounted
  <2>7. QED
    BY <2>3, <2>4, <2>5, <2>6 DEF LoginInv
<1>5. QED
  BY <1>3, <1>4 DEF Login!Abandon

LEMMA LoginStutter == ASSUME LoginInv, UNCHANGED Login!vars PROVE LoginInv'
<1>1. FreshTokens' /\ FreshHolds' /\ ReadOnce' /\ Answered'
  BY TokensShrink DEF Login!vars
<1>2. HandsOne'
  BY DEF Login!vars, LoginInv, HandsOne
<1>3. Login!TypeOK'
  BY LoginTypes DEF Login!vars, LoginInv, Login!TypeOK, HandsOne
<1>4. Login!TokenAccounted'
  BY DEF Login!vars, LoginInv, Login!TokenAccounted, Login!InHand, Login!Stored
<1>5. QED
  BY <1>1, <1>2, <1>3, <1>4 DEF LoginInv

LEMMA LoginInvStep == LoginInv /\ [Login!Next]_(Login!vars) => LoginInv'
<1> SUFFICES ASSUME LoginInv, [Login!Next]_(Login!vars) PROVE LoginInv'
  OBVIOUS
<1>1. QED
  BY LoginStutter, InitiateStep, ArriveStep, LookupStep, ExchangeStep, CompleteStep, SpendStep, ReadStep, DelStep,
     LoginPassStep, LoginAbandonStep DEF Login!Next

-----------------------------------------------------------------------------
(* Frontier's tokens: their steps                                          *)

LEMMA TokensInitInv == Tokens!Init => TokensInv
<1> SUFFICES ASSUME Tokens!Init PROVE TokensInv
  OBVIOUS
<1> USE DEF Tokens!Init
<1>1. Asked = {} /\ DOMAIN record = {} /\ Live = {}
  BY DEF Asked, Live
<1>2. Tokens!TypeOK
  <2>1. \A h \in Server : req[h] = {} /\ Tokens!Cardinality(req[h]) =< 1
    BY OneCounts, SameSize
  <2>2. QED
    BY <1>1, <2>1, TokensAssumption, PkceAssumption DEF Tokens!TypeOK
<1>3. Numbered /\ RecordLasts
  BY DEF Numbered, RecordLasts, One
<1>4. OneSession /\ OwnGrant /\ Tokens!Renewable
  BY <1>1 DEF OneSession, OwnGrant, Tokens!Renewable
<1>5. QED
  BY <1>2, <1>3, <1>4 DEF TokensInv

\* The types, when a step has kept those of what it wrote.
LEMMA TokensTypes ==
    ASSUME clock' \in 0..MaxTime, jtis' \in 0..MaxJti, grants' \in 0..MaxGrant, lost' \in 0..MaxLost,
           valid' \subseteq 1..jtis', astray' \subseteq 1..jtis', DOMAIN record' \subseteq 1..jtis',
           \A j \in DOMAIN record' : record'[j] \in Tokens!Record /\ record'[j].grant =< grants',
           given' \in Seq([at : Nat, exp : Nat]), Len(given') = jtis', \A j \in 1..jtis' : given'[j].at =< clock',
           spent' \subseteq 1..grants', shared' \subseteq 1..grants', DOMAIN req' = Server,
           \A h \in Server : /\ One(req'[h]) /\ req'[h] \subseteq Tokens!Refresh
                             /\ \A r \in req'[h] : /\ r.renewed => r.grant \notin spent'
                                                  /\ r.old =< jtis' /\ r.grant =< grants'
    PROVE  Tokens!TypeOK' /\ Numbered'
<1>1. ASSUME NEW h \in Server PROVE Tokens!Cardinality(req'[h]) =< 1
  <2>1. Tokens!Cardinality(req'[h]) \in {0, 1}
    BY OneCounts, SameSize, Zenon DEF One
  <2>2. QED
    BY <2>1
<1>2. DOMAIN given' = 1..jtis'
  OBVIOUS
<1>3. Tokens!TypeOK'
  BY <1>1, <1>2 DEF Tokens!TypeOK
<1>4. QED
  BY <1>3 DEF Numbered

\* What a request has in hand.
LEMMA AskedTypes ==
    ASSUME TokensInv
    PROVE  /\ \A r \in Asked : /\ r.old \in 1..jtis /\ r.grant \in 1..grants /\ r.exp \in Nat /\ r.renewed \in BOOLEAN
                               /\ r.renewed => r.grant \notin spent
           /\ \A j \in DOMAIN record : /\ record[j].grant \in 1..grants /\ record[j].exp \in Nat
                                       /\ record[j].till \in Nat /\ j \in 1..jtis
           /\ \A j \in 1..jtis : given[j].at \in Nat /\ given[j].exp \in Nat /\ given[j].at =< clock
           /\ clock \in Nat /\ jtis \in Nat /\ grants \in Nat
<1>1. /\ clock \in Nat /\ jtis \in Nat /\ grants \in Nat
      /\ \A j \in 1..jtis : given[j].at \in Nat /\ given[j].exp \in Nat /\ given[j].at =< clock
  <2>1. clock \in Nat /\ jtis \in Nat /\ grants \in Nat /\ \A j \in 1..jtis : given[j].at =< clock
    BY PkceAssumption, TokensAssumption DEF TokensInv, Tokens!TypeOK
  <2>2. \A j \in 1..jtis : given[j] \in [at : Nat, exp : Nat]
    <3>1. given \in Seq([at : Nat, exp : Nat]) /\ Len(given) = jtis
      BY DEF TokensInv, Numbered
    <3>2. QED
      BY <3>1, ElementOfSeq
  <2>3. QED
    BY <2>1, <2>2
<1>2. ASSUME NEW j \in DOMAIN record
      PROVE  record[j].grant \in 1..grants /\ record[j].exp \in Nat /\ record[j].till \in Nat /\ j \in 1..jtis
  BY <1>1 DEF TokensInv, Tokens!TypeOK, Tokens!Record, Tokens!Grant
<1>3. ASSUME NEW h \in Server, NEW r \in req[h]
      PROVE  /\ r.old \in 1..jtis /\ r.grant \in 1..grants /\ r.exp \in Nat /\ r.renewed \in BOOLEAN
             /\ r.renewed => r.grant \notin spent
  <2>1. r \in Tokens!Refresh /\ r.old =< jtis /\ r.grant =< grants /\ (r.renewed => r.grant \notin spent)
    BY DEF TokensInv, Tokens!TypeOK, Numbered
  <2>2. QED
    BY <1>1, <2>1 DEF Tokens!Refresh, Tokens!Jti, Tokens!Grant
<1>4. QED
  BY <1>1, <1>2, <1>3 DEF Asked

\* Steps that only take away requests, sessions or records, and share more.
LEMMA TokensThin ==
    ASSUME TokensInv, UNCHANGED <<jtis, grants, spent, given, astray>>, valid' \subseteq valid,
           clock' \in 0..MaxTime, clock' >= clock, lost' \in 0..MaxLost,
           DOMAIN record' \subseteq DOMAIN record, \A j \in DOMAIN record' : record'[j] = record[j],
           \A j \in DOMAIN record \ DOMAIN record' : record[j].till < clock',
           shared \subseteq shared', shared' \subseteq 1..grants, DOMAIN req' = Server,
           \A h \in Server : /\ req'[h] \in {req[h], {}}
                             /\ req'[h] # req[h] => \A r \in req[h] : r.renewed =>
                                  \A j \in {r.old} \cap DOMAIN record : record[j].grant \in shared'
    PROVE  TokensInv'
<1>1. Asked' \subseteq Asked /\ Live' \subseteq Live
  BY DEF Asked, Live
<1>2. \A h \in Server : req'[h] \subseteq req[h]
  OBVIOUS
<1>3. Tokens!TypeOK' /\ Numbered'
  <2>1. \A h \in Server : One(req'[h])
    BY DEF TokensInv, Numbered, One
  <2>2. \A j \in 1..jtis : given[j].at =< clock'
    BY AskedTypes
  <2>3. QED
    BY <1>2, <2>1, <2>2, TokensTypes DEF TokensInv, Tokens!TypeOK, Numbered
<1>4. RecordLasts'
  BY AskedTypes DEF TokensInv, RecordLasts
<1>5. OneSession'
  <2>1. \A j \in Live' : j \in Live /\ record'[j] = record[j]
    BY <1>1 DEF Live
  <2>2. \A i, j \in Live' : i # j /\ record'[i].grant = record'[j].grant => record'[i].grant \in shared'
    BY <2>1 DEF TokensInv, OneSession
  <2>3. \A r \in Asked', j \in Live' : r.grant = record'[j].grant => r.old = j \/ r.grant \in shared'
    BY <1>1, <2>1 DEF TokensInv, OneSession
  <2>4. \A g, h \in Server : g # h => \A r \in req'[g], q \in req'[h] : r.grant = q.grant => r.grant \in shared'
    BY <1>2 DEF TokensInv, OneSession
  <2>5. QED
    BY <2>2, <2>3, <2>4 DEF OneSession
<1>6. OwnGrant'
  <2>1. /\ \A r \in Asked : r.renewed => \A j \in DOMAIN record : record[j].grant # r.grant
        /\ \A r \in Asked : ~r.renewed =>
             /\ r.grant \in spent => r.grant \in shared
             /\ r.old \in DOMAIN record => record[r.old].grant = r.grant
    BY DEF TokensInv, OwnGrant
  <2>2. /\ \A r \in Asked' : r.renewed => \A j \in DOMAIN record' : record'[j].grant # r.grant
        /\ \A r \in Asked' : ~r.renewed =>
             /\ r.grant \in spent' => r.grant \in shared'
             /\ r.old \in DOMAIN record' => record'[r.old].grant = r.grant
    BY <1>1, <2>1
  <2>3. \A g, h \in Server : g # h => \A r \in req'[g], q \in req'[h] : r.renewed => r.grant # q.grant
    BY <1>2 DEF TokensInv, OwnGrant
  <2>4. QED
    BY <2>2, <2>3 DEF OwnGrant
<1>7. Tokens!Renewable'
  <2> SUFFICES ASSUME NEW j \in valid' \cap DOMAIN record', record'[j].grant \in spent, record'[j].grant \notin shared'
               PROVE  \E h \in Server : \E r \in req'[h] : r.old = j /\ r.renewed
    BY DEF Tokens!Renewable
  <2>1. j \in valid \cap DOMAIN record /\ record'[j] = record[j]
    OBVIOUS
  <2>2. PICK h \in Server : \E r \in req[h] : r.old = j /\ r.renewed
    BY <2>1 DEF TokensInv, Tokens!Renewable
  <2>3. req'[h] = req[h]
    BY <2>1, <2>2
  <2>4. QED
    BY <2>2, <2>3
<1>8. QED
  BY <1>3, <1>4, <1>5, <1>6, <1>7 DEF TokensInv

LEMMA LossCounts == ASSUME TokensInv, Tokens!Keep \/ Tokens!Lose PROVE lost' \in 0..MaxLost
BY TokensAssumption DEF TokensInv, Tokens!TypeOK, Tokens!Keep, Tokens!Lose

LEMMA LogoutStep == ASSUME TokensInv, Tokens!Logout PROVE TokensInv'
<1>1. UNCHANGED <<clock, record, jtis, grants, lost, spent, req, given, astray, shared>> /\ valid' \subseteq valid
  BY DEF Tokens!Logout
<1>2. clock \in 0..MaxTime /\ clock \in Nat /\ lost \in 0..MaxLost /\ shared \subseteq 1..grants
  BY PkceAssumption DEF TokensInv, Tokens!TypeOK
<1>3. QED
  BY <1>1, <1>2, TokensThin DEF TokensInv, Numbered

LEMMA TokensPassStep == ASSUME TokensInv, Tokens!Pass PROVE TokensInv'
<1>1. UNCHANGED <<valid, jtis, grants, lost, spent, req, given, astray, shared>> /\ clock < MaxTime /\ clock' = clock + 1
      /\ record' = [j \in {i \in DOMAIN record : record[i].till >= clock + 1} |-> record[j]]
  BY DEF Tokens!Pass
<1>2. clock' \in 0..MaxTime /\ clock' >= clock /\ lost \in 0..MaxLost /\ shared \subseteq 1..grants
  BY <1>1, PkceAssumption DEF TokensInv, Tokens!TypeOK
<1>3. \A j \in DOMAIN record \ DOMAIN record' : record[j].till < clock'
  BY <1>1, AskedTypes
<1>4. DOMAIN record' \subseteq DOMAIN record /\ \A j \in DOMAIN record' : record'[j] = record[j]
  BY <1>1
<1>5. QED
  BY <1>1, <1>2, <1>3, <1>4, TokensThin DEF TokensInv, Numbered

LEMMA TokensAbandonStep == ASSUME TokensInv, NEW h \in Server, Tokens!Abandon(h) PROVE TokensInv'
<1>1. UNCHANGED <<clock, valid, record, jtis, grants, spent, given, astray>> /\ lost' \in 0..MaxLost
      /\ shared' = shared \cup UNION {Tokens!Surrendered(r) : r \in req[h]} /\ req' = [req EXCEPT ![h] = {}]
  BY LossCounts DEF Tokens!Abandon
<1>2. clock \in 0..MaxTime /\ clock \in Nat
  BY PkceAssumption DEF TokensInv, Tokens!TypeOK
<1>3. \A r \in req[h] : \A j \in {r.old} \cap DOMAIN record : record[j].grant \in shared'
  BY <1>1 DEF Tokens!Surrendered
<1>4. shared' \subseteq 1..grants
  <2>1. \A r : Tokens!Surrendered(r) \subseteq 1..grants
    BY AskedTypes DEF Tokens!Surrendered
  <2>2. QED
    BY <1>1, <2>1 DEF TokensInv, Tokens!TypeOK
<1>5. DOMAIN req' = Server /\ \A g \in Server : req'[g] = IF g = h THEN {} ELSE req[g]
  BY <1>1 DEF TokensInv, Numbered
<1>6. \A g \in Server : /\ req'[g] \in {req[g], {}}
                        /\ req'[g] # req[g] => \A r \in req[g] : r.renewed =>
                             \A j \in {r.old} \cap DOMAIN record : record[j].grant \in shared'
  BY <1>3, <1>5
<1>7. QED
  BY <1>1, <1>2, <1>4, <1>5, <1>6, TokensThin

\* A login's session and grant are new.
LEMMA TokensLoginStep == ASSUME TokensInv, Tokens!Login PROVE TokensInv'
<1> DEFINE new == jtis + 1
           rec == [grant |-> grants + 1, exp |-> clock + Life, till |-> clock + Life]
<1>1. /\ jtis < MaxJti /\ grants < MaxGrant /\ jtis' = new /\ grants' = grants + 1 /\ valid' = valid \cup {new}
      /\ given' = Append(given, [at |-> clock, exp |-> clock + Life]) /\ UNCHANGED <<clock, spent, req, shared>>
      /\ lost' \in 0..MaxLost
  BY LossCounts DEF Tokens!Login
<1>2. \/ UNCHANGED astray /\ record' = Tokens!Stored(new, rec)
      \/ astray' = astray \cup {new} /\ UNCHANGED record
  BY DEF Tokens!Login
<1>3. /\ clock \in 0..MaxTime /\ clock \in Nat /\ jtis \in 0..MaxJti /\ jtis \in Nat /\ grants \in 0..MaxGrant /\ grants \in Nat
      /\ valid \subseteq 1..jtis /\ astray \subseteq 1..jtis /\ DOMAIN record \subseteq 1..jtis
      /\ Life \in Nat \ {0}
  BY PkceAssumption, TokensAssumption DEF TokensInv, Tokens!TypeOK
<1>4. new \notin 1..jtis /\ new \notin DOMAIN record /\ 1..jtis' = 1..jtis \cup {new}
  BY <1>1, <1>3
<1>5. rec \in Tokens!Record /\ rec.grant = grants + 1 /\ rec.till = clock + Life
  BY <1>1, <1>3, TokensAssumption DEF Tokens!Record, Tokens!Grant
<1>6. /\ given' \in Seq([at : Nat, exp : Nat]) /\ Len(given') = new
      /\ \A j \in 1..jtis : given'[j] = given[j]
      /\ given'[new].at = clock /\ given'[new].exp = clock + Life
  BY <1>1, <1>3 DEF TokensInv, Numbered
<1> HIDE DEF rec
<1>7. /\ DOMAIN record' \subseteq DOMAIN record \cup {new} /\ DOMAIN record \subseteq DOMAIN record'
      /\ \A j \in DOMAIN record : record'[j] = record[j]
      /\ new \in DOMAIN record' => record'[new] = rec
      /\ new \notin DOMAIN record' => new \in astray'
  BY <1>2, <1>4 DEF Tokens!Stored
<1>8. astray \subseteq astray' /\ astray' \subseteq astray \cup {new}
  BY <1>2
<1> HIDE DEF new
<1>9. Tokens!TypeOK' /\ Numbered'
  <2>1. jtis' \in 0..MaxJti /\ grants' \in 0..MaxGrant /\ valid' \subseteq 1..jtis' /\ astray' \subseteq 1..jtis'
        /\ DOMAIN record' \subseteq 1..jtis'
    <3>1. jtis' \in 0..MaxJti /\ grants' \in 0..MaxGrant
      BY <1>1, <1>3, TokensAssumption DEF new
    <3>2. QED
      BY <1>1, <1>3, <1>4, <1>7, <1>8, <3>1
  <2>2. \A j \in DOMAIN record' : record'[j] \in Tokens!Record /\ record'[j].grant =< grants'
    <3>1. ASSUME NEW j \in DOMAIN record PROVE record'[j] \in Tokens!Record /\ record'[j].grant =< grants'
      BY SMTT(20), <1>1, <1>3, <1>7, AskedTypes DEF TokensInv, Tokens!TypeOK
    <3>2. QED
      BY <1>1, <1>3, <1>5, <1>7, <3>1
  <2>3. \A j \in 1..jtis' : given'[j].at =< clock'
    <3>1. \A j \in 1..jtis : given'[j].at =< clock
      BY <1>6, AskedTypes
    <3>2. ASSUME NEW j \in 1..jtis' PROVE j \in 1..jtis \/ j = new
      BY <1>1, <1>3, <1>4
    <3>3. given'[new].at =< clock' /\ clock' = clock
      BY <1>1, <1>4, <1>6
    <3>4. QED
      BY <3>1, <3>2, <3>3
  <2>4. \A h \in Server : /\ One(req'[h]) /\ req'[h] \subseteq Tokens!Refresh
                          /\ \A r \in req'[h] : r.renewed => r.grant \notin spent'
    BY <1>1 DEF TokensInv, Tokens!TypeOK, Numbered
  <2>5. \A h \in Server : \A r \in req'[h] : r.old =< jtis' /\ r.grant =< grants'
    <3>1. \A r \in Asked : r.old \in 1..jtis /\ r.grant \in 1..grants
      BY AskedTypes
    <3>2. \A r \in Asked : r.old =< jtis' /\ r.grant =< grants'
      BY <1>1, <1>3, <3>1 DEF new
    <3>3. QED
      BY <1>1, <3>2 DEF Asked
  <2>6. spent' \subseteq 1..grants' /\ shared' \subseteq 1..grants' /\ DOMAIN req' = Server
    BY <1>1, <1>3 DEF TokensInv, Tokens!TypeOK, Numbered
  <2>7. QED
    BY <1>1, <1>3, <1>6, <2>1, <2>2, <2>3, <2>4, <2>5, <2>6, TokensTypes
<1>10. RecordLasts'
  <2> SUFFICES ASSUME NEW j \in 1..jtis' \ astray', clock =< given'[j].exp \/ clock =< given'[j].at + 1
               PROVE  j \in DOMAIN record' /\ record'[j].till >= given'[j].exp /\ record'[j].till >= given'[j].at + 1
    BY <1>1 DEF RecordLasts
  <2>1. CASE j = new
    BY <1>3, <1>5, <1>6, <1>7, <2>1
  <2>2. CASE j \in 1..jtis \ astray
    BY <1>6, <1>7, <2>2 DEF TokensInv, RecordLasts
  <2>3. QED
    BY <1>4, <1>8, <2>1, <2>2
<1>11. Asked' = Asked /\ Live' \subseteq Live \cup {new} /\ \A j \in DOMAIN record' : j # new => j \in DOMAIN record
  BY <1>1, <1>4, <1>7, <1>3 DEF Asked, Live
<1>12. /\ \A j \in DOMAIN record : record'[j] = record[j] /\ record[j].grant # grants + 1
       /\ new \in DOMAIN record' => record'[new].grant = grants + 1
       /\ \A r \in Asked : r.grant # grants + 1 /\ r.old # new
  BY <1>3, <1>4, <1>5, <1>7, AskedTypes
<1>13. OneSession'
  <2>1. \A j \in Live' : j \in DOMAIN record' /\ (j # new => j \in Live)
    BY <1>11 DEF Live
  <2>2. \A j \in Live : j \in DOMAIN record
    BY DEF Live
  <2>3. \A i, j \in Live' : i # j /\ record'[i].grant = record'[j].grant => record'[i].grant \in shared'
    BY <1>1, <1>12, <2>1, <2>2 DEF TokensInv, OneSession
  <2>4. \A r \in Asked', j \in Live' : r.grant = record'[j].grant => r.old = j \/ r.grant \in shared'
    BY <1>1, <1>11, <1>12, <2>1, <2>2 DEF TokensInv, OneSession
  <2>5. QED
    BY <1>1, <2>3, <2>4 DEF TokensInv, OneSession
<1>14. OwnGrant'
  <2>1. \A r \in Asked' : r.renewed => \A j \in DOMAIN record' : record'[j].grant # r.grant
    BY <1>11, <1>12 DEF TokensInv, OwnGrant
  <2>2. \A r \in Asked' : ~r.renewed =>
          /\ r.grant \in spent' => r.grant \in shared'
          /\ r.old \in DOMAIN record' => record'[r.old].grant = r.grant
    BY <1>1, <1>11, <1>12 DEF TokensInv, OwnGrant
  <2>3. QED
    BY <1>1, <2>1, <2>2 DEF TokensInv, OwnGrant
<1>15. Tokens!Renewable'
  <2> SUFFICES ASSUME NEW j \in valid' \cap DOMAIN record', record'[j].grant \in spent
               PROVE  record'[j].grant \in shared \/ \E h \in Server : \E r \in req[h] : r.old = j /\ r.renewed
    BY <1>1 DEF Tokens!Renewable
  <2>1. j # new
    BY <1>3, <1>12 DEF TokensInv, Tokens!TypeOK
  <2>2. j \in valid \cap DOMAIN record /\ record'[j] = record[j]
    BY <1>1, <1>11, <1>12, <2>1
  <2>3. QED
    BY <2>2 DEF TokensInv, Tokens!Renewable
<1>16. QED
  BY <1>9, <1>10, <1>13, <1>14, <1>15 DEF TokensInv

\* A refresh reads its session's record; if another has the session the grant
\* is shared.
LEMMA RefreshReadStep == ASSUME TokensInv, NEW h \in Server, Tokens!RefreshRead(h) PROVE TokensInv'
<1>1. UNCHANGED <<clock, valid, record, jtis, grants, lost, spent, given, astray>> /\ req[h] = {}
  BY DEF Tokens!RefreshRead
<1>2. PICK j \in valid \cap DOMAIN record :
         /\ req' = [req EXCEPT ![h] = {[old |-> j, grant |-> record[j].grant, exp |-> record[j].exp, renewed |-> FALSE]}]
         /\ shared' = shared \cup {record[j].grant : g \in {g \in Server : \E r \in req[g] : r.old = j}}
  BY DEF Tokens!RefreshRead
<1> DEFINE new == [old |-> j, grant |-> record[j].grant, exp |-> record[j].exp, renewed |-> FALSE]
<1>3. new \in Tokens!Refresh /\ new.old = j /\ new.grant = record[j].grant /\ ~new.renewed
  <2>1. j \in 1..jtis /\ record[j].grant \in 1..grants /\ record[j].exp \in Nat
    BY AskedTypes
  <2>2. j \in 1..MaxJti /\ record[j].grant \in 1..MaxGrant
    BY <2>1, TokensAssumption DEF TokensInv, Tokens!TypeOK
  <2>3. QED
    BY <2>1, <2>2 DEF Tokens!Refresh, Tokens!Jti, Tokens!Grant
<1>4. DOMAIN req' = Server /\ \A g \in Server : req'[g] = IF g = h THEN {new} ELSE req[g]
  BY <1>2 DEF TokensInv, Numbered
<1>5. j \in 1..jtis /\ record[j].grant \in 1..grants /\ j \in Live
  BY <1>2, AskedTypes DEF Live
<1> HIDE DEF new
<1>6. Asked' = Asked \cup {new} /\ Live' = Live /\ shared \subseteq shared' /\ shared' \subseteq shared \cup {record[j].grant}
  BY <1>1, <1>2, <1>4 DEF Asked, Live
<1>7. \A g \in Server : \A r \in req[g] : r.old = j => record[j].grant \in shared'
  BY <1>2
<1>8. Tokens!TypeOK' /\ Numbered'
  <2>1. shared' \subseteq 1..grants
    BY <1>5, <1>6 DEF TokensInv, Tokens!TypeOK
  <2>2. \A g \in Server : /\ One(req'[g]) /\ req'[g] \subseteq Tokens!Refresh
                          /\ \A r \in req'[g] : /\ r.renewed => r.grant \notin spent
                                               /\ r.old =< jtis /\ r.grant =< grants
    BY SMTT(20), <1>3, <1>4, <1>5 DEF TokensInv, Tokens!TypeOK, Numbered, One
  <2>3. QED
    BY <1>1, <1>4, <2>1, <2>2, TokensTypes DEF TokensInv, Tokens!TypeOK, Numbered
<1>9. RecordLasts'
  BY <1>1 DEF TokensInv, RecordLasts
<1>10. OneSession'
  <2>1. \A i \in Live : record[i].grant = record[j].grant => i = j \/ record[j].grant \in shared
    BY <1>5 DEF TokensInv, OneSession
  <2>2. \A r \in Asked', i \in Live' : r.grant = record[i].grant => r.old = i \/ r.grant \in shared'
    BY <1>3, <1>6, <2>1 DEF TokensInv, OneSession
  <2>3. \A g \in Server : \A r \in req[g] : r.grant = new.grant => r.grant \in shared'
    <3> SUFFICES ASSUME NEW g \in Server, NEW r \in req[g], r.grant = record[j].grant PROVE r.grant \in shared'
      BY <1>3
    <3>1. r.old = j \/ r.grant \in shared
      BY <1>5 DEF TokensInv, OneSession, Asked
    <3>2. QED
      BY <1>6, <1>7, <3>1
  <2>4. \A f, g \in Server : f # g => \A r \in req'[f], q \in req'[g] : r.grant = q.grant => r.grant \in shared'
    BY <1>4, <1>6, <2>3 DEF TokensInv, OneSession
  <2>5. \A i, k \in Live' : i # k /\ record[i].grant = record[k].grant => record[i].grant \in shared'
    BY <1>6 DEF TokensInv, OneSession
  <2>6. QED
    BY <1>1, <2>2, <2>4, <2>5 DEF OneSession
<1>11. OwnGrant'
  <2>1. \A r \in Asked' : r.renewed => \A i \in DOMAIN record : record[i].grant # r.grant
    BY <1>3, <1>6 DEF TokensInv, OwnGrant
  <2>2. \A g \in Server : \A r \in req[g] : r.renewed => r.grant # new.grant
    BY <1>3, <1>5 DEF TokensInv, OwnGrant, Asked, Live
  <2>3. \A f, g \in Server : f # g => \A r \in req'[f], q \in req'[g] : r.renewed => r.grant # q.grant
    BY <1>3, <1>4, <2>2 DEF TokensInv, OwnGrant
  <2>4. record[j].grant \in spent => record[j].grant \in shared'
    BY <1>2, <1>6, <1>7 DEF TokensInv, Tokens!Renewable
  <2>5. \A r \in Asked' : ~r.renewed =>
          /\ r.grant \in spent => r.grant \in shared'
          /\ r.old \in DOMAIN record => record[r.old].grant = r.grant
    BY <1>3, <1>6, <2>4 DEF TokensInv, OwnGrant
  <2>6. QED
    BY <1>1, <2>1, <2>3, <2>5 DEF OwnGrant
<1>12. Tokens!Renewable'
  <2>1. \A g \in Server : req[g] \subseteq req'[g]
    BY <1>1, <1>4
  <2>2. QED
    BY <1>1, <1>6, <2>1 DEF TokensInv, Tokens!Renewable
<1>13. QED
  BY <1>8, <1>9, <1>10, <1>11, <1>12 DEF TokensInv

\* Frontier answers with a new grant, or the refresh is over.
LEMMA RefreshRenewStep == ASSUME TokensInv, NEW h \in Server, Tokens!RefreshRenew(h) PROVE TokensInv'
<1>1. UNCHANGED <<clock, valid, record, jtis, given, astray, shared>>
  BY DEF Tokens!RefreshRenew
<1>2. PICK r \in req[h] : /\ ~r.renewed
         /\ \/ /\ Tokens!Keep /\ r.grant \notin spent /\ grants < MaxGrant
               /\ grants' = grants + 1 /\ spent' = spent \cup {r.grant}
               /\ req' = [req EXCEPT ![h] = {[r EXCEPT !.grant = grants + 1, !.renewed = TRUE]}]
            \/ /\ Tokens!Keep \/ Tokens!Lose
               /\ req' = [req EXCEPT ![h] = {}] /\ UNCHANGED <<grants, spent>>
  BY DEF Tokens!RefreshRenew, Tokens!Renewed
<1>3. lost' \in 0..MaxLost /\ req[h] = {r} /\ r \in Tokens!Refresh
  BY <1>2, LossCounts DEF TokensInv, Numbered, Tokens!TypeOK, One
<1>4. CASE req' = [req EXCEPT ![h] = {}] /\ UNCHANGED <<grants, spent>>
  <2>1. DOMAIN req' = Server /\ \A g \in Server : req'[g] = IF g = h THEN {} ELSE req[g]
    BY <1>4 DEF TokensInv, Numbered
  <2>2. clock \in 0..MaxTime /\ clock \in Nat /\ shared \subseteq 1..grants
    BY PkceAssumption DEF TokensInv, Tokens!TypeOK
  <2>3. \A g \in Server : /\ req'[g] \in {req[g], {}}
                          /\ req'[g] # req[g] => \A q \in req[g] : ~q.renewed
    BY <1>2, <1>3, <2>1
  <2>4. QED
    BY <1>1, <1>3, <1>4, <2>1, <2>2, <2>3, TokensThin
<1>5. CASE /\ r.grant \notin spent /\ grants < MaxGrant
           /\ grants' = grants + 1 /\ spent' = spent \cup {r.grant}
           /\ req' = [req EXCEPT ![h] = {[r EXCEPT !.grant = grants + 1, !.renewed = TRUE]}]
  <2> DEFINE new == [r EXCEPT !.grant = grants + 1, !.renewed = TRUE]
  <2>1. /\ r \in Asked /\ r.old \in 1..jtis /\ r.grant \in 1..grants /\ grants \in Nat /\ grants + 1 \in 1..MaxGrant
        /\ jtis \in Nat
    BY <1>5, AskedTypes, TokensAssumption DEF Asked
  <2>2. new \in Tokens!Refresh /\ new.old = r.old /\ new.grant = grants + 1 /\ new.renewed
    BY <1>3, <2>1 DEF Tokens!Refresh, Tokens!Grant
  <2>3. DOMAIN req' = Server /\ \A g \in Server : req'[g] = IF g = h THEN {new} ELSE req[g]
    BY <1>5 DEF TokensInv, Numbered
  <2> HIDE DEF new
  <2>4. /\ \A q \in Asked' : q = new \/ \E g \in Server \ {h} : q \in req[g]
        /\ \A q \in Asked' : q = new \/ q \in Asked
        /\ Live' = Live
    BY <1>1, <2>3 DEF Asked, Live
  <2>5. /\ \A q \in Asked : q.grant # grants + 1
        /\ \A j \in DOMAIN record : record[j].grant # grants + 1
    BY <2>1, AskedTypes
  <2>6. \A g \in Server \ {h} : \A q \in req[g] : q.grant = r.grant => r.grant \in shared
    BY <1>3 DEF TokensInv, OneSession
  <2>7. \A j \in Live : record[j].grant = r.grant => r.old = j \/ r.grant \in shared
    BY <2>1 DEF TokensInv, OneSession
  <2>8. Tokens!TypeOK' /\ Numbered'
    <3>1. /\ grants' \in 0..MaxGrant /\ spent' \subseteq 1..grants' /\ shared \subseteq 1..grants' /\ grants + 1 \notin spent'
          /\ spent' \subseteq 1..grants
      BY <1>5, <2>1, TokensAssumption DEF TokensInv, Tokens!TypeOK
    <3>2. \A j \in DOMAIN record : record[j] \in Tokens!Record /\ record[j].grant =< grants'
      BY <1>5, <2>1, AskedTypes DEF TokensInv, Tokens!TypeOK
    <3>3. ASSUME NEW g \in Server
          PROVE  /\ One(req'[g]) /\ req'[g] \subseteq Tokens!Refresh
                 /\ \A q \in req'[g] : q.renewed => q.grant \notin spent'
                 /\ \A q \in req'[g] : q.old =< jtis /\ q.grant =< grants'
      <4>1. CASE g = h
        <5>1. req'[g] = {new} /\ One(req'[g])
          BY <2>3, <4>1 DEF One
        <5>2. new.old =< jtis /\ new.grant =< grants' /\ new.grant \notin spent'
          BY <1>5, <2>1, <2>2, <3>1
        <5>3. QED
          BY <2>2, <5>1, <5>2
      <4>2. CASE g # h
        <5>1. req'[g] = req[g] /\ One(req[g]) /\ req[g] \subseteq Tokens!Refresh
          BY <2>3, <4>2 DEF TokensInv, Tokens!TypeOK, Numbered
        <5>2. \A q \in req[g] : q.old =< jtis /\ q.grant =< grants /\ q.grant \in Nat
          BY AskedTypes DEF Asked
        <5>3. \A q \in req[g] : q.renewed => q.grant # r.grant /\ q.grant \notin spent
          BY <1>3, <4>2 DEF TokensInv, OwnGrant, Tokens!TypeOK
        <5>4. \A q \in req[g] : (q.renewed => q.grant \notin spent') /\ q.grant =< grants'
          BY <1>5, <2>1, <5>2, <5>3
        <5>5. QED
          BY <5>1, <5>2, <5>4
      <4>3. QED
        BY <4>1, <4>2
    <3>4. QED
      BY <1>1, <1>3, <2>3, <3>1, <3>2, <3>3, TokensTypes DEF TokensInv, Tokens!TypeOK, Numbered
  <2>9. RecordLasts'
    BY <1>1 DEF TokensInv, RecordLasts
  <2>10. OneSession'
    <3>1. \A q \in Asked', j \in Live' : q.grant = record[j].grant => q.old = j \/ q.grant \in shared
      BY <2>2, <2>4, <2>5 DEF TokensInv, OneSession, Live
    <3>2. \A f, g \in Server : f # g => \A p \in req'[f], q \in req'[g] : p.grant = q.grant => p.grant \in shared
      BY <2>2, <2>3, <2>5 DEF TokensInv, OneSession, Asked
    <3>3. QED
      BY <1>1, <2>4, <3>1, <3>2 DEF TokensInv, OneSession
  <2>11. OwnGrant'
    <3>1. \A q \in Asked' : q.renewed => \A j \in DOMAIN record : record[j].grant # q.grant
      BY <2>2, <2>4, <2>5 DEF TokensInv, OwnGrant
    <3>2. \A f, g \in Server : f # g => \A p \in req'[f], q \in req'[g] : p.renewed => p.grant # q.grant
      <4>1. \A f \in Server : \A p \in req[f] : p \in Asked
        BY DEF Asked
      <4>2. QED
        BY <2>2, <2>3, <2>5, <4>1 DEF TokensInv, OwnGrant
    <3>3. ASSUME NEW q \in Asked', ~q.renewed
          PROVE  /\ q.grant \in spent' => q.grant \in shared
                 /\ q.old \in DOMAIN record => record[q.old].grant = q.grant
      <4>1. PICK g \in Server \ {h} : q \in req[g]
        BY <2>2, <2>4, <3>3
      <4>2. q \in Asked
        BY <4>1 DEF Asked
      <4>3. QED
        BY <1>5, <2>6, <3>3, <4>1, <4>2 DEF TokensInv, OwnGrant
    <3>4. QED
      BY <1>1, <3>1, <3>2, <3>3 DEF OwnGrant
  <2>12. Tokens!Renewable'
    <3> SUFFICES ASSUME NEW j \in valid \cap DOMAIN record, record[j].grant \in spent', record[j].grant \notin shared
                 PROVE  \E g \in Server : \E q \in req'[g] : q.old = j /\ q.renewed
      BY <1>1 DEF Tokens!Renewable
    <3>1. CASE record[j].grant = r.grant
      <4>1. r.old = j
        BY <2>7, <3>1 DEF Live
      <4>2. QED
        BY <2>2, <2>3, <4>1
    <3>2. CASE record[j].grant # r.grant
      <4>1. PICK g \in Server : \E q \in req[g] : q.old = j /\ q.renewed
        BY <1>5, <3>2 DEF TokensInv, Tokens!Renewable
      <4>2. g # h
        BY <1>2, <1>3, <4>1
      <4>3. QED
        BY <2>3, <4>1, <4>2
    <3>3. QED
      BY <3>1, <3>2
  <2>13. QED
    BY <2>8, <2>9, <2>10, <2>11, <2>12 DEF TokensInv
<1>6. QED
  BY <1>2, <1>4, <1>5

\* The new session has the request's grant, the old one is revoked or its grant
\* given up, and the new record lives long enough unless it went astray.
LEMMA RefreshIssueStep == ASSUME TokensInv, NEW h \in Server, Tokens!RefreshIssue(h) PROVE TokensInv'
<1>1. UNCHANGED <<clock, grants, spent>> /\ req' = [req EXCEPT ![h] = {}]
  BY DEF Tokens!RefreshIssue
<1> DEFINE new == jtis + 1
           Exp(r) == IF r.renewed THEN clock + Life ELSE r.exp
           Till(r) == IF r.renewed THEN Exp(r) ELSE Tokens!Minimum(r)
           Rec(r) == [grant |-> r.grant, exp |-> Exp(r), till |-> Till(r)]
<1>2. PICK r \in req[h] :
         /\ jtis < MaxJti /\ jtis' = new /\ given' = Append(given, [at |-> clock, exp |-> Exp(r)])
         /\ \/ /\ Tokens!Keep /\ UNCHANGED astray
               /\ valid' = (valid \ {r.old}) \cup {new}
               /\ record' = Tokens!Stored(new, Rec(r)) /\ UNCHANGED shared
            \/ /\ Tokens!Lose /\ UNCHANGED astray
               /\ valid' = valid \cup {new}
               /\ record' = Tokens!Stored(new, Rec(r)) /\ shared' = shared \cup Tokens!Surrendered(r)
            \/ /\ Tokens!Lose /\ astray' = astray \cup {new}
               /\ valid' = (valid \ {r.old}) \cup {new} /\ UNCHANGED <<record, shared>>
  BY DEF Tokens!RefreshIssue, Tokens!Revoked
<1>3. lost' \in 0..MaxLost /\ req[h] = {r} /\ r \in Asked
  BY <1>2, LossCounts DEF TokensInv, Numbered, One, Asked
<1>4. /\ clock \in 0..MaxTime /\ clock \in Nat /\ jtis \in 0..MaxJti /\ jtis \in Nat /\ grants \in 0..MaxGrant /\ grants \in Nat
      /\ valid \subseteq 1..jtis /\ astray \subseteq 1..jtis /\ DOMAIN record \subseteq 1..jtis
      /\ Life \in Nat \ {0}
  BY PkceAssumption, TokensAssumption DEF TokensInv, Tokens!TypeOK
<1>5. r.old \in 1..jtis /\ r.grant \in 1..grants /\ r.exp \in Nat /\ r.renewed \in BOOLEAN /\ (r.renewed => r.grant \notin spent)
  BY <1>3, AskedTypes
<1>6. Exp(r) \in Nat /\ Till(r) \in Nat /\ Till(r) >= Exp(r) /\ Till(r) >= clock + 1
  BY <1>4, <1>5 DEF Tokens!Minimum
<1>7. Rec(r) \in Tokens!Record /\ Rec(r).grant = r.grant /\ Rec(r).till = Till(r)
  <2>1. r.grant \in 1..MaxGrant
    BY <1>4, <1>5, TokensAssumption
  <2> HIDE DEF Exp, Till
  <2>2. QED
    BY <1>6, <2>1 DEF Tokens!Record, Tokens!Grant
<1>8. new \notin 1..jtis /\ new \notin DOMAIN record /\ 1..jtis' = 1..jtis \cup {new} /\ r.old # new /\ new \notin valid
  BY <1>2, <1>4, <1>5
<1>9. /\ given' \in Seq([at : Nat, exp : Nat]) /\ Len(given') = new
      /\ \A j \in 1..jtis : given'[j] = given[j]
      /\ given'[new].at = clock /\ given'[new].exp = Exp(r)
  <2>1. [at |-> clock, exp |-> Exp(r)] \in [at : Nat, exp : Nat]
    BY <1>4, <1>6
  <2>2. given \in Seq([at : Nat, exp : Nat]) /\ Len(given) = jtis
    BY DEF TokensInv, Numbered
  <2>3. given' = Append(given, [at |-> clock, exp |-> Exp(r)])
    BY <1>2
  <2> HIDE DEF Exp
  <2>4. /\ given' \in Seq([at : Nat, exp : Nat]) /\ Len(given') = Len(given) + 1
        /\ \A j \in 1..Len(given) : given'[j] = given[j]
        /\ given'[Len(given) + 1] = [at |-> clock, exp |-> Exp(r)]
    BY <2>1, <2>2, <2>3, AppendProperties
  <2>5. QED
    BY <2>2, <2>4
<1> HIDE DEF Rec, Exp, Till
<1>10. /\ DOMAIN record' \subseteq DOMAIN record \cup {new} /\ DOMAIN record \subseteq DOMAIN record'
       /\ \A j \in DOMAIN record : record'[j] = record[j]
       /\ new \in DOMAIN record' => record'[new] = Rec(r)
       /\ new \notin DOMAIN record' => new \in astray'
  BY <1>2, <1>8 DEF Tokens!Stored
<1>11. /\ astray \subseteq astray' /\ astray' \subseteq astray \cup {new} /\ shared \subseteq shared'
       /\ valid' \subseteq valid \cup {new}
       /\ r.old \in valid' \cap DOMAIN record => record[r.old].grant \in shared'
  BY <1>2, <1>8 DEF Tokens!Surrendered
<1>12. shared' \subseteq 1..grants
  <2>1. Tokens!Surrendered(r) \subseteq 1..grants
    BY AskedTypes DEF Tokens!Surrendered
  <2>2. QED
    BY <1>2, <2>1 DEF TokensInv, Tokens!TypeOK
<1>13. jtis' = new
  BY <1>2
<1> HIDE DEF new
<1>14. DOMAIN req' = Server /\ \A g \in Server : req'[g] = IF g = h THEN {} ELSE req[g]
  BY <1>1 DEF TokensInv, Numbered
<1>15. /\ \A g \in Server : req'[g] \subseteq req[g]
       /\ \A q \in Asked' : q \in Asked /\ \E g \in Server \ {h} : q \in req[g] /\ q \in req'[g]
  BY <1>14 DEF Asked
<1>16. /\ \A j \in Live' : j \in DOMAIN record' /\ (j # new => j \in Live /\ record'[j] = record[j] /\ j \in valid')
       /\ new \in Live' => record'[new].grant = r.grant
  BY <1>7, <1>10, <1>11 DEF Live
<1>17. Tokens!TypeOK' /\ Numbered'
  <2>1. jtis' \in 0..MaxJti /\ valid' \subseteq 1..jtis' /\ astray' \subseteq 1..jtis' /\ DOMAIN record' \subseteq 1..jtis'
    <3>1. jtis' \in 0..MaxJti
      BY <1>2, <1>4, TokensAssumption DEF new
    <3>2. QED
      BY <1>4, <1>8, <1>10, <1>11, <3>1
  <2>2. \A j \in DOMAIN record' : record'[j] \in Tokens!Record /\ record'[j].grant =< grants
    <3>1. ASSUME NEW j \in DOMAIN record PROVE record'[j] \in Tokens!Record /\ record'[j].grant =< grants
      BY <1>10 DEF TokensInv, Tokens!TypeOK
    <3>2. QED
      BY <1>4, <1>5, <1>7, <1>10, <3>1
  <2>3. \A j \in 1..jtis' : given'[j].at =< clock
    <3>1. \A j \in 1..jtis : given'[j].at =< clock
      BY <1>9, AskedTypes
    <3>2. QED
      BY <1>4, <1>8, <1>9, <3>1
  <2>4. ASSUME NEW g \in Server
        PROVE  /\ One(req'[g]) /\ req'[g] \subseteq Tokens!Refresh
               /\ \A q \in req'[g] : q.renewed => q.grant \notin spent
    BY <1>14 DEF TokensInv, Tokens!TypeOK, Numbered, One
  <2>5. \A g \in Server : \A q \in req'[g] : q.old =< jtis' /\ q.grant =< grants
    <3>1. \A q \in Asked : q.old \in 1..jtis /\ q.grant \in 1..grants
      BY AskedTypes
    <3>2. \A q \in Asked : q.old =< jtis' /\ q.grant =< grants
      BY <1>4, <1>13, <3>1 DEF new
    <3>3. QED
      BY <1>15, <3>2 DEF Asked
  <2>6. spent \subseteq 1..grants
    BY DEF TokensInv, Tokens!TypeOK
  <2>7. QED
    BY <1>1, <1>3, <1>4, <1>9, <1>12, <1>13, <1>14, <2>1, <2>2, <2>3, <2>4, <2>5, <2>6, TokensTypes
<1>18. RecordLasts'
  <2> SUFFICES ASSUME NEW j \in 1..jtis' \ astray', clock =< given'[j].exp \/ clock =< given'[j].at + 1
               PROVE  j \in DOMAIN record' /\ record'[j].till >= given'[j].exp /\ record'[j].till >= given'[j].at + 1
    BY <1>1 DEF RecordLasts
  <2>1. CASE j = new
    BY <1>6, <1>7, <1>9, <1>10, <2>1
  <2>2. CASE j \in 1..jtis \ astray
    BY <1>9, <1>10, <2>2 DEF TokensInv, RecordLasts
  <2>3. QED
    BY <1>8, <1>11, <2>1, <2>2
<1>19. \A j \in Live : record[j].grant = r.grant => r.old = j \/ r.grant \in shared
  BY <1>3 DEF TokensInv, OneSession
<1>20. \A j \in Live' : j # new /\ record'[j].grant = r.grant => r.grant \in shared'
  <2> SUFFICES ASSUME NEW j \in Live', j # new, record'[j].grant = r.grant, r.grant \notin shared'
               PROVE  FALSE
    OBVIOUS
  <2>1. j \in Live /\ record[j].grant = r.grant /\ j \in valid' /\ r.grant \notin shared
    BY <1>11, <1>16
  <2>2. r.old = j
    BY <1>19, <2>1
  <2>3. QED
    BY <1>11, <2>1, <2>2 DEF Live
<1>21. OneSession'
  <2>1. \A i, j \in Live' : i # j /\ record'[i].grant = record'[j].grant => record'[i].grant \in shared'
    <3> SUFFICES ASSUME NEW i \in Live', NEW j \in Live', i # j, record'[i].grant = record'[j].grant
                 PROVE  record'[i].grant \in shared'
      OBVIOUS
    <3>1. CASE i = new \/ j = new
      BY <1>16, <1>20, <3>1
    <3>2. CASE i # new /\ j # new
      BY <1>11, <1>16, <3>2 DEF TokensInv, OneSession
    <3>3. QED
      BY <3>1, <3>2
  <2>2. \A q \in Asked', j \in Live' : q.grant = record'[j].grant => q.old = j \/ q.grant \in shared'
    <3> SUFFICES ASSUME NEW q \in Asked', NEW j \in Live', q.grant = record'[j].grant
                 PROVE  q.old = j \/ q.grant \in shared'
      OBVIOUS
    <3>1. CASE j = new
      BY <1>3, <1>11, <1>15, <1>16, <3>1 DEF TokensInv, OneSession
    <3>2. CASE j # new
      BY <1>11, <1>15, <1>16, <3>2 DEF TokensInv, OneSession
    <3>3. QED
      BY <3>1, <3>2
  <2>3. \A f, g \in Server : f # g => \A p \in req'[f], q \in req'[g] : p.grant = q.grant => p.grant \in shared'
    BY <1>11, <1>15 DEF TokensInv, OneSession
  <2>4. QED
    BY <2>1, <2>2, <2>3 DEF OneSession
<1>22. OwnGrant'
  <2>1. ASSUME NEW q \in Asked', q.renewed, NEW j \in DOMAIN record' PROVE record'[j].grant # q.grant
    <3>1. CASE j = new
      BY <1>3, <1>7, <1>10, <1>15, <2>1, <3>1 DEF TokensInv, OwnGrant
    <3>2. CASE j # new
      BY <1>10, <1>15, <2>1, <3>2 DEF TokensInv, OwnGrant
    <3>3. QED
      BY <3>1, <3>2
  <2>2. \A f, g \in Server : f # g => \A p \in req'[f], q \in req'[g] : p.renewed => p.grant # q.grant
    BY <1>15 DEF TokensInv, OwnGrant
  <2>3. ASSUME NEW q \in Asked', ~q.renewed
        PROVE  /\ q.grant \in spent => q.grant \in shared'
               /\ q.old \in DOMAIN record' => record'[q.old].grant = q.grant
    <3>1. q \in Asked /\ q.old \in 1..jtis
      BY <1>15, AskedTypes
    <3>2. QED
      BY <1>8, <1>10, <1>11, <2>3, <3>1 DEF TokensInv, OwnGrant
  <2>4. QED
    BY <1>1, <2>1, <2>2, <2>3 DEF OwnGrant
<1>23. Tokens!Renewable'
  <2> SUFFICES ASSUME NEW j \in valid' \cap DOMAIN record', record'[j].grant \in spent, record'[j].grant \notin shared'
               PROVE  \E g \in Server : \E q \in req'[g] : q.old = j /\ q.renewed
    BY <1>1 DEF Tokens!Renewable
  <2>1. CASE j = new
    <3>1. r.grant \in spent /\ r.grant \notin shared
      BY <1>7, <1>10, <1>11, <2>1
    <3>2. QED
      BY <1>3, <1>5, <3>1 DEF TokensInv, OwnGrant
  <2>2. CASE j # new
    <3>1. j \in valid \cap DOMAIN record /\ record'[j] = record[j] /\ record[j].grant \notin shared
      BY <1>10, <1>11, <2>2
    <3>2. PICK g \in Server : \E q \in req[g] : q.old = j /\ q.renewed
      BY <3>1 DEF TokensInv, Tokens!Renewable
    <3>3. g # h
      BY <1>3, <1>11, <3>1, <3>2
    <3>4. QED
      BY <1>14, <3>2, <3>3
  <2>3. QED
    BY <2>1, <2>2
<1>24. QED
  BY <1>17, <1>18, <1>21, <1>22, <1>23 DEF TokensInv

LEMMA TokensInvStep == TokensInv /\ [Tokens!Next]_(Tokens!vars) => TokensInv'
<1> SUFFICES ASSUME TokensInv, [Tokens!Next]_(Tokens!vars) PROVE TokensInv'
  OBVIOUS
<1>1. CASE UNCHANGED Tokens!vars
  <2>1. clock \in 0..MaxTime /\ clock \in Nat /\ lost \in 0..MaxLost /\ shared \subseteq 1..grants /\ DOMAIN req = Server
    BY PkceAssumption DEF TokensInv, Tokens!TypeOK, Numbered
  <2>2. QED
    BY <1>1, <2>1, TokensThin DEF Tokens!vars
<1>2. QED
  BY <1>1, TokensLoginStep, LogoutStep, TokensPassStep, RefreshReadStep, RefreshRenewStep, RefreshIssueStep, TokensAbandonStep
     DEF Tokens!Next

-----------------------------------------------------------------------------
(* The limiter: what it lets through in a window                           *)

\* The calls counted are finitely many.
LEMMA PassesCounted ==
    ASSUME passes \in Seq(Nat), NEW I, I \subseteq DOMAIN passes
    PROVE  IsFiniteSet(I) /\ Cardinality(I) \in Nat
<1>1. IsFiniteSet(DOMAIN passes)
  BY FS_Interval
<1>2. QED
  BY <1>1, FS_Subset, FS_CardinalityType

\* A call let through at now comes after the others.
LEMMA PassAppended ==
    ASSUME passes \in Seq(Nat), NEW now \in Nat, passes' = Append(passes, now)
    PROVE  /\ passes' \in Seq(Nat) /\ Len(passes') = Len(passes) + 1 /\ Len(passes) \in Nat
           /\ DOMAIN passes = 1..Len(passes) /\ DOMAIN passes' = 1..Len(passes) + 1
           /\ \A i \in DOMAIN passes : passes'[i] = passes[i]
           /\ passes'[Len(passes) + 1] = now
           /\ \A i \in DOMAIN passes' : \/ i \in DOMAIN passes /\ passes'[i] = passes[i]
                                        \/ i = Len(passes) + 1 /\ passes'[i] = now
<1>1. /\ passes' \in Seq(Nat) /\ Len(passes') = Len(passes) + 1 /\ Len(passes) \in Nat
      /\ DOMAIN passes = 1..Len(passes) /\ DOMAIN passes' = 1..Len(passes) + 1
      /\ \A i \in DOMAIN passes : passes'[i] = passes[i]
      /\ passes'[Len(passes) + 1] = now
  BY AppendProperties
<1>2. \A i \in 1..Len(passes) + 1 : i \in 1..Len(passes) \/ i = Len(passes) + 1
  BY <1>1
<1>3. ASSUME NEW i \in DOMAIN passes'
      PROVE  \/ i \in DOMAIN passes /\ passes'[i] = passes[i]
             \/ i = Len(passes) + 1 /\ passes'[i] = now
  <2>1. i \in 1..Len(passes) \/ i = Len(passes) + 1
    BY <1>1, <1>2
  <2>2. CASE i \in 1..Len(passes)
    BY <1>1, <2>2
  <2>3. CASE i = Len(passes) + 1
    BY <1>1, <2>3
  <2>4. QED
    BY <2>1, <2>2, <2>3
<1>4. \A i \in DOMAIN passes' : \/ i \in DOMAIN passes /\ passes'[i] = passes[i]
                                \/ i = Len(passes) + 1 /\ passes'[i] = now
  BY <1>3, Zenon
<1>5. QED
  BY <1>1, <1>4, Zenon

\* Calls of two windows are no more than two buckets.
LEMMA TwoWindows ==
    ASSUME passes \in Seq(Nat), NEW s \in Nat, NEW I, I \subseteq Since(s) \cup Before(s),
           NEW m \in Nat, Cardinality(Since(s)) =< m, Cardinality(Before(s)) =< Capacity
    PROVE  Cardinality(I) =< m + Capacity
<1>1. Since(s) \subseteq DOMAIN passes /\ Before(s) \subseteq DOMAIN passes /\ I \subseteq DOMAIN passes
  BY DEF Since, Before
<1>2. /\ IsFiniteSet(Since(s)) /\ Cardinality(Since(s)) \in Nat /\ IsFiniteSet(Before(s)) /\ Cardinality(Before(s)) \in Nat
      /\ Cardinality(I) \in Nat
  BY <1>1, PassesCounted
<1>3. Since(s) \cap Before(s) = {}
  <2>1. \A i \in DOMAIN passes : passes[i] \in Nat
    OBVIOUS
  <2>2. QED
    BY <2>1 DEF Since, Before
<1>4. IsFiniteSet(Since(s) \cup Before(s)) /\ Cardinality(Since(s) \cup Before(s)) = Cardinality(Since(s)) + Cardinality(Before(s))
  <2>1. Cardinality(Since(s) \cap Before(s)) = 0
    BY <1>3, FS_EmptySet
  <2>2. /\ IsFiniteSet(Since(s) \cup Before(s))
        /\ Cardinality(Since(s) \cup Before(s))
             = Cardinality(Since(s)) + Cardinality(Before(s)) - Cardinality(Since(s) \cap Before(s))
    BY <1>2, FS_Union
  <2>3. QED
    BY <1>2, <2>1, <2>2
<1>5. Cardinality(I) =< Cardinality(Since(s) \cup Before(s))
  BY <1>4, FS_Subset
<1>6. QED
  BY <1>2, <1>4, <1>5, BucketAssumption

\* BurstBound, with the library's Cardinality.
LEMMA BurstSays ==
    Ingest!BurstBound(passes) <=>
       \A i \in DOMAIN passes : Cardinality({j \in i..Len(passes) : passes[j] =< passes[i] + Window}) =< 2 * Capacity
BY SameSize DEF Ingest!BurstBound

\* A request reaches the limiter, which lets it through or not.
LEMMA LimiterStep ==
    ASSUME LimitInv, clock' = clock, bucket' = Ingest!After(bucket, clock),
           passes' = IF Ingest!Allowed(bucket, clock) THEN Append(passes, clock) ELSE passes
    PROVE  LimitInv'
<1> DEFINE b0 == Ingest!Loaded(bucket, clock)
           b1 == Ingest!Refilled(b0, clock)
<1>1. passes \in Seq(Nat) /\ clock \in Nat /\ Capacity \in Nat /\ Window \in Nat
  BY BucketAssumption DEF LimitInv
<1>2. Spends(b0)
  <2>1. CASE bucket = {} /\ passes = << >>
    <3>1. b0 = [tokens |-> Capacity, reset |-> clock + Window]
      BY <2>1 DEF Ingest!Loaded
    <3>2. \A s : Since(s) = {} /\ Before(s) = {}
      BY <2>1 DEF Since, Before
    <3>3. Cardinality({}) = 0
      BY OneCounts
    <3> HIDE DEF b0
    <3>4. b0 \in [tokens : 0..Capacity, reset : Nat] /\ b0.tokens = Capacity /\ b0.reset - Window = clock
      BY <1>1, <3>1
    <3>5. Cardinality(Since(b0.reset - Window)) = 0 /\ Cardinality(Before(b0.reset - Window)) = 0
      BY <3>2, <3>3
    <3>6. QED
      BY <1>1, <2>1, <3>4, <3>5 DEF Spends
  <2>2. ASSUME NEW b \in bucket, bucket = {b}, Spends(b) PROVE Spends(b0)
    <3>1. b0 = b
      BY <2>2 DEF Ingest!Loaded
    <3>2. QED
      BY <2>2, <3>1
  <2>3. QED
    BY <2>1, <2>2 DEF LimitInv
<1> HIDE DEF b0
<1>3. /\ b0.tokens \in 0..Capacity /\ b0.reset \in Nat /\ b0.reset - Window \in Nat /\ b0.reset - Window =< clock
      /\ \A i \in DOMAIN passes : passes[i] =< b0.reset /\ passes[i] \in Nat /\ passes[i] =< clock
      /\ Cardinality(Since(b0.reset - Window)) =< Capacity - b0.tokens
      /\ Cardinality(Before(b0.reset - Window)) =< Capacity
      /\ b0 \in [tokens : 0..Capacity, reset : Nat]
  <2>1. \A i \in DOMAIN passes : passes[i] \in Nat /\ passes[i] =< clock
    BY DEF LimitInv
  <2>2. QED
    BY <1>1, <1>2, <2>1 DEF Spends
<1>4. \A s : Since(s) \subseteq DOMAIN passes /\ Before(s) \subseteq DOMAIN passes
  BY DEF Since, Before
<1>5. \A s : Cardinality(Since(s)) \in Nat /\ Cardinality(Before(s)) \in Nat
  BY <1>1, <1>4, PassesCounted
<1>6. Spends(b1)
  <2>1. CASE ~(clock > b0.reset)
    <3>1. b1 = b0
      BY <2>1 DEF Ingest!Refilled
    <3>2. QED
      BY <1>2, <3>1
  <2>2. CASE clock > b0.reset
    <3>1. b1 = [tokens |-> Capacity, reset |-> clock + Window]
      BY <2>2 DEF Ingest!Refilled
    <3>2. Since(clock) = {}
      BY <1>1, <1>3, <2>2 DEF Since
    <3>3. Before(clock) \subseteq Since(b0.reset - Window)
      BY <1>1, <1>3, <2>2 DEF Since, Before
    <3>4. Cardinality(Before(clock)) =< Cardinality(Since(b0.reset - Window))
      BY <1>1, <1>4, <3>3, PassesCounted, FS_Subset
    <3>5. Cardinality(Since(clock)) = 0
      BY <3>2, OneCounts
    <3> HIDE DEF b1
    <3>6. /\ b1.tokens = Capacity /\ b1.reset = clock + Window /\ b1.reset - Window = clock
          /\ b1 \in [tokens : 0..Capacity, reset : Nat]
      BY <1>1, <3>1
    <3>7. \A i \in DOMAIN passes : passes[i] =< b1.reset
      BY <1>1, <1>3, <3>6
    <3>8. Cardinality(Since(b1.reset - Window)) =< Capacity - b1.tokens /\ Cardinality(Before(b1.reset - Window)) =< Capacity
      BY <1>1, <1>3, <1>5, <3>4, <3>5, <3>6
    <3>9. QED
      BY <1>1, <3>6, <3>7, <3>8 DEF Spends
  <2>3. QED
    BY <2>1, <2>2
<1>7. clock =< b1.reset
  BY <1>1, <1>3 DEF Ingest!Refilled
<1>8. Ingest!Allowed(bucket, clock) <=> b1.tokens > 0
  BY DEF Ingest!Allowed, b0
<1>9. bucket' = {[b1 EXCEPT !.tokens = IF @ > 0 THEN @ - 1 ELSE @]}
  BY DEF Ingest!After, b0
<1> DEFINE b2 == [b1 EXCEPT !.tokens = IF @ > 0 THEN @ - 1 ELSE @]
<1> HIDE DEF b1
<1>10. /\ b1 \in [tokens : 0..Capacity, reset : Nat] /\ b1.reset - Window \in Nat /\ b1.reset - Window =< clock
       /\ \A i \in DOMAIN passes : passes[i] =< b1.reset
       /\ Cardinality(Since(b1.reset - Window)) =< Capacity - b1.tokens
       /\ Cardinality(Before(b1.reset - Window)) =< Capacity
  BY <1>6 DEF Spends
<1>11. /\ b2 \in [tokens : 0..Capacity, reset : Nat] /\ b2.reset = b1.reset
       /\ b2.tokens = IF b1.tokens > 0 THEN b1.tokens - 1 ELSE b1.tokens
  <2>1. /\ b1.tokens \in 0..Capacity /\ b1.reset \in Nat /\ DOMAIN b1 = {"tokens", "reset"}
        /\ b1 \in [tokens : 0..Capacity, reset : Nat]
    BY <1>10
  <2>2. (IF b1.tokens > 0 THEN b1.tokens - 1 ELSE b1.tokens) \in 0..Capacity
    BY <1>1, <2>1
  <2>3. QED
    BY <2>1, <2>2
<1>12. PICK b \in [tokens : 0..Capacity, reset : Nat], s \in Nat :
          /\ bucket' = {b} /\ b.reset = b1.reset /\ s = b1.reset - Window
          /\ b.tokens = IF b1.tokens > 0 THEN b1.tokens - 1 ELSE b1.tokens
  <2>1. bucket' = {b2}
    BY <1>9
  <2> HIDE DEF b2
  <2>2. QED
    BY <1>10, <1>11, <2>1
<1> HIDE DEF b2
<1>13. CASE b1.tokens = 0
  <2>1. passes' = passes /\ b.tokens = b1.tokens
    BY <1>8, <1>12, <1>13
  <2>2. Since(s)' = Since(s) /\ Before(s)' = Before(s)
    BY <2>1 DEF Since, Before
  <2>3. Ingest!BurstBound(passes)'
    BY <2>1 DEF LimitInv, Ingest!BurstBound
  <2>4. Spends(b)'
    BY <1>1, <1>10, <1>12, <2>1, <2>2 DEF Spends
  <2>5. QED
    BY <1>12, <2>1, <2>3, <2>4 DEF LimitInv
<1>14. CASE b1.tokens > 0
  <2>1. passes' = Append(passes, clock) /\ b.tokens = b1.tokens - 1
    BY <1>8, <1>12, <1>14
  <2> DEFINE last == Len(passes) + 1
  <2>2. /\ passes' \in Seq(Nat) /\ Len(passes') = last /\ last \in Nat /\ Len(passes) \in Nat
        /\ DOMAIN passes = 1..Len(passes) /\ DOMAIN passes' = 1..last
        /\ \A i \in DOMAIN passes : passes'[i] = passes[i]
        /\ passes'[last] = clock
        /\ \A i \in DOMAIN passes' : \/ i \in DOMAIN passes /\ passes'[i] = passes[i]
                                     \/ i = last /\ passes'[i] = clock
    BY <1>1, <2>1, PassAppended
  <2>3. last \notin DOMAIN passes /\ DOMAIN passes' = DOMAIN passes \cup {last}
    BY <2>2
  <2>4. \A i \in DOMAIN passes : i \in Nat /\ i < last /\ passes[i] \in Nat /\ passes[i] =< clock
    BY <1>3, <2>2
  <2>5. \A i, j \in DOMAIN passes' : i =< j => passes'[i] =< passes'[j]
    BY <1>1, <2>2, <2>3, <2>4 DEF LimitInv
  <2> HIDE DEF last
  <2>6. Since(s)' = Since(s) \cup {last} /\ Before(s)' = Before(s)
    <3>1. clock >= s /\ clock \in Nat /\ s \in Nat
      BY <1>1, <1>10, <1>12
    <3>2. Since(s)' = {i \in DOMAIN passes' : passes'[i] >= s}
      BY DEF Since
    <3>3. Before(s)' = {i \in DOMAIN passes' : passes'[i] < s /\ passes'[i] >= s - Window}
      BY DEF Before
    <3>4. Since(s) \cup {last} = {i \in DOMAIN passes' : passes'[i] >= s}
      BY <1>1, <2>2, <2>3, <3>1 DEF Since
    <3>5. Before(s) = {i \in DOMAIN passes' : passes'[i] < s /\ passes'[i] >= s - Window}
      <4>1. ASSUME NEW i \in DOMAIN passes', passes'[i] < s PROVE i \in DOMAIN passes /\ passes'[i] = passes[i]
        <5>1. passes'[i] # clock
          BY <3>1, <4>1
        <5>2. QED
          BY <2>2, <5>1
      <4>2. \A i \in DOMAIN passes' : passes'[i] < s => i \in DOMAIN passes /\ passes'[i] = passes[i]
        BY <4>1
      <4>3. \A i \in DOMAIN passes : i \in DOMAIN passes' /\ passes'[i] = passes[i]
        BY <2>2, <2>3
      <4>4. QED
        BY <4>2, <4>3 DEF Before
    <3>6. QED
      BY <3>2, <3>3, <3>4, <3>5
  <2>7. Cardinality(Since(s) \cup {last}) = Cardinality(Since(s)) + 1
    BY <1>1, <1>4, <2>3, PassesCounted, FS_AddElement
  <2>8. Spends(b)'
    <3>1. \A i \in DOMAIN passes' : passes'[i] =< b.reset
      BY <1>7, <1>10, <1>12, <2>2, <2>3
    <3>2. Cardinality(Since(s)') =< Capacity - b.tokens /\ Cardinality(Before(s)') =< Capacity
      <4>1. Cardinality(Since(s)') = Cardinality(Since(s)) + 1 /\ Cardinality(Before(s)') = Cardinality(Before(s))
        BY <2>6, <2>7
      <4>2. /\ Cardinality(Since(s)) =< Capacity - b1.tokens /\ Cardinality(Before(s)) =< Capacity
            /\ Cardinality(Since(s)) \in Nat /\ b1.tokens \in Nat /\ b.tokens = b1.tokens - 1
        BY <1>1, <1>5, <1>10, <1>12, <2>1
      <4>3. QED
        BY <1>1, <4>1, <4>2
    <3>3. QED
      BY <1>1, <1>10, <1>12, <3>1, <3>2 DEF Spends
  <2>9. ASSUME NEW i \in DOMAIN passes'
        PROVE  Cardinality({j \in i..Len(passes') : passes'[j] =< passes'[i] + Window}) =< 2 * Capacity
    <3> DEFINE J == {j \in i..last : passes'[j] =< passes'[i] + Window}
               I == {j \in DOMAIN passes : passes[j] >= clock - Window}
    <3>1. CASE i = last
      <4>1. i..last = {last} /\ passes'[last] =< passes'[i] + Window
        <5>1. passes'[last] = clock /\ clock \in Nat /\ last \in Nat
          BY <1>1, <2>2
        <5>2. QED
          BY <1>1, <3>1, <5>1
      <4>2. J = {last}
        BY <4>1
      <4>3. Cardinality(J) = 1
        BY <4>2, OneCounts
      <4>4. 1 =< 2 * Capacity
        BY <1>1, <1>10, <1>14
      <4> HIDE DEF J
      <4>5. Cardinality(J) =< 2 * Capacity
        BY <4>3, <4>4
      <4>6. QED
        BY <2>2, <4>5 DEF J
    <3>2. CASE i \in DOMAIN passes /\ clock > passes[i] + Window
      <4>1. J = {j \in i..Len(passes) : passes[j] =< passes[i] + Window}
        BY <1>1, <2>2, <2>4, <3>2 DEF last
      <4>2. QED
        BY <2>2, <3>2, <4>1, BurstSays DEF LimitInv
    <3>3. CASE i \in DOMAIN passes /\ ~(clock > passes[i] + Window)
      <4>1. \A j \in DOMAIN passes : j >= i => passes[j] >= clock - Window
        BY <1>1, <2>4, <3>3 DEF LimitInv
      <4>2. J \subseteq I \cup {last}
        <5>1. \A j \in i..last : j = last \/ (j \in DOMAIN passes /\ j >= i)
          BY <2>2, <2>4, <3>3 DEF last
        <5>2. QED
          BY <4>1, <5>1
      <4>3. I \subseteq Since(s) \cup Before(s)
        <5> SUFFICES ASSUME NEW j \in I PROVE passes[j] >= s \/ (passes[j] < s /\ passes[j] >= s - Window)
          BY DEF Since, Before
        <5>1. passes[j] \in Nat /\ passes[j] >= clock - Window /\ clock >= s
          BY <1>10, <1>12, <2>4
        <5>2. QED
          BY <1>1, <5>1
      <4>4. /\ Capacity - b1.tokens \in Nat /\ Cardinality(Since(s)) =< Capacity - b1.tokens
            /\ Cardinality(Before(s)) =< Capacity
        BY <1>1, <1>10, <1>12
      <4>5. I \subseteq DOMAIN passes /\ last \notin I
        BY <2>3
      <4> HIDE DEF I, J
      <4>6. Cardinality(I) =< (Capacity - b1.tokens) + Capacity
        BY <1>1, <4>3, <4>4, TwoWindows
      <4>7. IsFiniteSet(I) /\ Cardinality(I) \in Nat
        BY <1>1, <4>5, PassesCounted
      <4>8. IsFiniteSet(I \cup {last}) /\ Cardinality(I \cup {last}) = Cardinality(I) + 1
        BY <4>5, <4>7, FS_AddElement
      <4>9. Cardinality(J) =< Cardinality(I \cup {last}) /\ Cardinality(J) \in Nat
        BY <4>2, <4>8, FS_Subset, FS_CardinalityType
      <4>10. Cardinality(J) =< 2 * Capacity
        BY <1>1, <1>10, <1>14, <4>6, <4>7, <4>8, <4>9
      <4>11. QED
        BY <2>2, <4>10 DEF J
    <3>4. QED
      BY <2>3, <3>1, <3>2, <3>3
  <2>10. Ingest!BurstBound(passes)'
    BY <2>9, SameSize DEF Ingest!BurstBound
  <2>11. \A i \in DOMAIN passes' : passes'[i] =< clock
    <3>1. ASSUME NEW i \in DOMAIN passes' PROVE passes'[i] \in Nat /\ (passes'[i] = clock \/ \E j \in DOMAIN passes : passes'[i] = passes[j])
      BY <1>1, <2>2, <2>4
    <3>2. QED
      BY <1>1, <2>4, <3>1
  <2>12. QED
    BY <1>1, <1>12, <2>2, <2>5, <2>8, <2>10, <2>11 DEF LimitInv
<1>15. QED
  BY <1>10, <1>13, <1>14

\* Time passes, or a step leaves the limiter alone.
LEMMA LimiterRests ==
    ASSUME LimitInv, UNCHANGED <<bucket, passes>>, clock' \in Nat, clock' >= clock
    PROVE  LimitInv'
<1>1. Ingest!BurstBound(passes)'
  BY DEF LimitInv, Ingest!BurstBound
<1>2. ASSUME NEW b \in bucket, Spends(b) PROVE Spends(b)'
  <2>1. \A s : Since(s)' = Since(s) /\ Before(s)' = Before(s)
    BY DEF Since, Before
  <2>2. QED
    BY <1>2, <2>1, BucketAssumption DEF Spends, LimitInv
<1>3. QED
  BY <1>1, <1>2 DEF LimitInv

-----------------------------------------------------------------------------
(* Uploads and pages: their steps                                          *)

\* Facts that every step needs.
LEMMA IngestTyped ==
    ASSUME IngestInv
    PROVE  /\ clock \in 0..MaxTime /\ clock \in Nat /\ known \in BOOLEAN /\ calls \in 0..MaxCalls /\ errors \in 0..MaxErrors
           /\ Keys \subseteq Ingest!Key /\ (Keys # {} => known) /\ IsFiniteSet(Keys) /\ Cardinality(Keys) \in Nat
           /\ (reader = {} \/ \E w \in Ingest!Walk : reader = {w})
           /\ wrote \in Nat /\ lapsed \in Nat /\ dropped \subseteq Ingest!Key /\ wrote = Cardinality(Keys) + lapsed
<1>1. Ingest!TypeOK /\ IsFiniteSet(Keys) /\ Ingest!CountsAddUp /\ One(reader)
  BY DEF IngestInv, Counts, StillAhead
<1>2. Cardinality({}) = 0
  BY OneCounts
<1>3. reader = {} \/ \E w \in Ingest!Walk : reader = {w}
  BY <1>1 DEF Ingest!TypeOK, One
<1>4. Cardinality(Keys) \in Nat
  BY <1>1, FS_CardinalityType
<1>5. QED
  BY <1>1, <1>3, <1>4, SameSize, PkceAssumption DEF Ingest!TypeOK, Ingest!Time, Ingest!CountsAddUp, Keys

\* A walk alone is typed.
LEMMA WalkTyped == ASSUME NEW w \in Ingest!Walk PROVE Ingest!Cardinality({w}) = 1 /\ {w} \subseteq Ingest!Walk /\ One({w})
BY OneCounts, SameSize DEF One

\* The bucket has its type after a step that keeps the limiter's invariant.
LEMMA BucketTyped ==
    ASSUME LimitInv', clock' \in 0..MaxTime
    PROVE  bucket' \in Ingest!Buckets(0..MaxTime + Window)
<1>1. CASE bucket' = {}
  BY <1>1 DEF Ingest!Buckets
<1>2. ASSUME NEW b \in bucket', bucket' = {b}, Spends(b)' PROVE bucket' \in Ingest!Buckets(0..MaxTime + Window)
  <2>1. b \in [tokens : 0..Capacity, reset : Nat] /\ b.reset - Window =< clock'
    BY <1>2 DEF Spends
  <2>2. b.reset \in 0..MaxTime + Window
    BY <2>1, BucketAssumption, PkceAssumption
  <2>3. b \in [tokens : 0..Capacity, reset : 0..MaxTime + Window]
    BY <2>1, <2>2
  <2>4. QED
    BY <1>2, <2>3 DEF Ingest!Buckets
<1>3. QED
  BY <1>1, <1>2 DEF LimitInv

\* A sequence's indices and elements.
LEMMA SeqElements ==
    ASSUME NEW S, NEW s \in Seq(S)
    PROVE  Len(s) \in Nat /\ DOMAIN s = 1..Len(s) /\ \A i \in 1..Len(s) : s[i] \in S
OBVIOUS

\* What Fine says without the rows.
LEMMA FineParts ==
    ASSUME NEW x
    PROVE  /\ Fine(x) => x.pc \in {"idle", "upsert", "insert"} /\ x.at \in 0..Len(x.events) /\ DOMAIN x.mine \subseteq Ingest!Key
           /\ Fine(x)' => x.pc \in {"idle", "upsert", "insert"} /\ x.at \in 0..Len(x.events) /\ DOMAIN x.mine \subseteq Ingest!Key
BY DEF Fine

\* A record stays as it should be while rows come, or go and are counted.
LEMMA FineStays ==
    ASSUME Keys \cup dropped \subseteq Keys' \cup dropped', known => known', NEW x, Fine(x)
    PROVE  Fine(x)'
BY DEF Fine

\* The record of a goroutine that serves no upload.
LEMMA NoUploadFine ==
    /\ Fine(Ingest!NoUpload) /\ DOMAIN Ingest!NoUpload.mine = {}
    /\ Fine(Ingest!NoUpload)'
<1>1. /\ Ingest!NoUpload.pc = "idle" /\ Ingest!NoUpload.events = << >> /\ Ingest!NoUpload.at = 0
      /\ Ingest!NoUpload.mine = << >> /\ Ingest!NoUpload.twice = 0
      /\ Ingest!NoUpload = [pc |-> "idle", events |-> << >>, at |-> 0, mine |-> << >>, twice |-> 0]
  BY DEF Ingest!NoUpload
<1>2. DOMAIN << >> = {} /\ Len(<< >>) = 0 /\ << >> \in [{} -> Datum]
  OBVIOUS
<1>3. << >> \in Seq(Event)
  OBVIOUS
<1>4. IsFiniteSet({}) /\ Cardinality({}) = 0
  BY FS_EmptySet
<1>5. 0 \in 0..0 /\ 0 \in Nat /\ 0 + 0 = 0 /\ 1..0 = {}
  OBVIOUS
<1>6. QED
  BY <1>1, <1>2, <1>3, <1>4, <1>5 DEF Fine

\* A step of an upload, and rows, if any, that are others'.
LEMMA UploadMoves ==
    ASSUME IngestInv, NEW u \in Uploader, NEW x, upload' = [upload EXCEPT ![u] = x], Fine(x)',
           Keys \cup dropped \subseteq Keys' \cup dropped', known => known',
           IsFiniteSet(Keys'), rows' \in [Keys' -> Datum], DOMAIN x.mine \cap Keys' = {},
           \A v \in Uploader \ {u} : Held(v) \cap (Keys' \cup DOMAIN x.mine) = {}
    PROVE  Counts'
<1>1. Counts
  BY DEF IngestInv
<1>2. upload = [v \in Uploader |-> upload[v]] /\ upload' = [v \in Uploader |-> IF v = u THEN x ELSE upload[v]]
  BY <1>1 DEF Counts
<1>3. \A v \in Uploader : upload'[v] = IF v = u THEN x ELSE upload[v]
  BY <1>2
<1>4. upload' = [v \in Uploader |-> upload'[v]]
  BY <1>2, <1>3
<1>5. \A v \in Uploader : Held(v)' = DOMAIN upload'[v].mine /\ Held(v) = DOMAIN upload[v].mine
  BY DEF Held, Ingest!Held
<1>6. ASSUME NEW v \in Uploader PROVE (Fine(upload[v]))' /\ Held(v)' \cap Keys' = {}
  <2>1. CASE v = u
    BY <1>3, <1>5, <2>1 DEF Fine
  <2>2. CASE v # u
    <3>1. PICK y : y = upload[v]
      OBVIOUS
    <3>2. Fine(y)
      BY <1>1, <3>1 DEF Counts
    <3>3. Fine(y)'
      BY <3>2, FineStays
    <3>4. QED
      BY <1>3, <1>5, <2>2, <3>1, <3>3 DEF Fine
  <2>3. QED
    BY <2>1, <2>2
<1>7. ASSUME NEW v \in Uploader, NEW w \in Uploader, v # w PROVE HeldApart(upload[v], upload[w])'
  BY <1>1, <1>3, <1>5, <1>7 DEF HeldApart, Counts
<1>8. Keys' = DOMAIN rows'
  BY DEF Keys, Ingest!Keys
<1>9. QED
  BY <1>4, <1>6, <1>7, <1>8 DEF Counts

\* The types, when a step has kept those of what it wrote.
LEMMA IngestTypes ==
    ASSUME Counts', clock' \in 0..MaxTime, known' \in BOOLEAN, calls' \in 0..MaxCalls, errors' \in 0..MaxErrors,
           Keys' \subseteq Ingest!Key, Keys' # {} => known', bucket' \in Ingest!Buckets(0..MaxTime + Window),
           reader' = {} \/ \E w \in Ingest!Walk : reader' = {w},
           wrote' \in Nat, lapsed' \in Nat, dropped' \subseteq Ingest!Key
    PROVE  Ingest!TypeOK'
<1>1. \A k \in Ingest!Keys' : rows'[k] \in Datum
  BY DEF Counts, Keys
<1>2. ASSUME NEW u \in Uploader
      PROVE  /\ upload'[u].pc \in {"idle", "upsert", "insert"}
             /\ upload'[u].at \in 0..Len(upload'[u].events) /\ DOMAIN upload'[u].mine \subseteq Ingest!Key
             /\ \A v \in Uploader \ {u} : DOMAIN upload'[u].mine \cap DOMAIN upload'[v].mine = {}
  <2>1. Fine(upload[u])'
    BY DEF Counts
  <2>2. PICK y : y = upload'[u]
    OBVIOUS
  <2>5. Fine(y)'
    BY <2>1, <2>2 DEF Fine
  <2>6. /\ upload'[u].pc \in {"idle", "upsert", "insert"}
        /\ upload'[u].at \in 0..Len(upload'[u].events) /\ DOMAIN upload'[u].mine \subseteq Ingest!Key
    BY <2>2, <2>5, FineParts
  <2>3. \A v \in Uploader \ {u} : DOMAIN upload'[u].mine \cap DOMAIN upload'[v].mine = {}
    BY DEF Counts, HeldApart
  <2>4. QED
    BY <2>3, <2>6
<1>3. reader' = {} \/ (Ingest!Cardinality(reader') = 1 /\ reader' \subseteq Ingest!Walk)
  BY WalkTyped
<1>4. QED
  BY <1>1, <1>2, <1>3 DEF Ingest!TypeOK, Ingest!Time, Keys

LEMMA IngestInitInv == Ingest!Init => IngestInv /\ LimitInv
<1> SUFFICES ASSUME Ingest!Init PROVE IngestInv /\ LimitInv
  OBVIOUS
<1>1. /\ clock = 0 /\ rows = << >> /\ known = FALSE /\ bucket = {} /\ upload = [u \in Uploader |-> Ingest!NoUpload]
      /\ calls = 0 /\ errors = 0 /\ reader = {} /\ wrote = 0 /\ lapsed = 0 /\ dropped = {} /\ acked = {} /\ passes = << >>
  BY DEF Ingest!Init
<1>2. Keys = {} /\ rows \in [Keys -> Datum] /\ IsFiniteSet(Keys) /\ Cardinality(Keys) = 0
  BY <1>1, FS_EmptySet DEF Keys, Ingest!Keys
<1>3. ASSUME NEW u \in Uploader PROVE upload[u] = Ingest!NoUpload /\ Held(u) = {}
  BY <1>1, NoUploadFine DEF Held, Ingest!Held
<1>4. Counts
  BY <1>1, <1>2, <1>3, NoUploadFine DEF Counts, HeldApart
<1>5. Ingest!TypeOK
  <2>1. \A u \in Uploader : /\ upload[u].pc \in {"idle", "upsert", "insert"} /\ upload[u].at \in 0..Len(upload[u].events)
                            /\ DOMAIN upload[u].mine \subseteq Ingest!Key
                            /\ \A v \in Uploader \ {u} : DOMAIN upload[u].mine \cap DOMAIN upload[v].mine = {}
    BY <1>4, FineParts DEF Counts, HeldApart
  <2>2. bucket \in Ingest!Buckets(0..MaxTime + Window)
    BY <1>1 DEF Ingest!Buckets
  <2>3. \A k \in Ingest!Keys : rows[k] \in Datum
    BY <1>2 DEF Keys
  <2>4. /\ clock \in Ingest!Time /\ known \in BOOLEAN /\ calls \in 0..MaxCalls /\ errors \in 0..MaxErrors
        /\ Ingest!Keys \subseteq Ingest!Key /\ (Ingest!Keys # {} => known) /\ wrote \in Nat /\ lapsed \in Nat
        /\ dropped \subseteq Ingest!Key
    <3>1. 0 \in 0..MaxTime /\ 0 \in 0..MaxCalls /\ 0 \in 0..MaxErrors
      BY PkceAssumption, IngestAssumption
    <3>2. QED
      BY <1>1, <1>2, <3>1 DEF Ingest!Time, Keys
  <2>5. QED
    BY <1>1, <2>1, <2>2, <2>3, <2>4 DEF Ingest!TypeOK
<1>6. StillAhead /\ Ingest!AckedStored /\ Ingest!CountsAddUp
  BY <1>1, <1>2, SameSize DEF StillAhead, One, Ingest!AckedStored, Ingest!CountsAddUp, Keys
<1>7. LimitInv
  BY <1>1, SameSize DEF LimitInv, Ingest!BurstBound
<1>8. QED
  BY <1>4, <1>5, <1>6, <1>7 DEF IngestInv

\* What was answered has its rows still, or had them.
LEMMA AckedStays ==
    ASSUME IngestInv, UNCHANGED acked, Keys \cup dropped \subseteq Keys' \cup dropped'
    PROVE  Ingest!AckedStored'
BY DEF IngestInv, Ingest!AckedStored, Keys

\* What a reader has not come to yet is there still.
LEMMA AheadStays ==
    ASSUME IngestInv, UNCHANGED reader, Keys \cup dropped \subseteq Keys' \cup dropped', dropped \subseteq dropped'
    PROVE  StillAhead'
BY DEF IngestInv, StillAhead, One

\* A batch that was accepted is one of events with a type and a time before
\* the latest.
LEMMA AcceptedTyped ==
    ASSUME IngestInv, NEW b \in Batch, \A i \in DOMAIN b : Ingest!Accepted(b[i])
    PROVE  b \in Seq(Event) /\ Len(b) \in Nat
<1>1. PICK S : S = [ts : Nat, kind : Kind, datum : Datum]
  OBVIOUS
<1>2. b \in Seq(S)
  BY <1>1, IngestAssumption
<1>3. Len(b) \in Nat /\ DOMAIN b = 1..Len(b) /\ \A i \in 1..Len(b) : b[i] \in S
  BY <1>2, SeqElements
<1>4. clock \in 0..MaxTime
  BY IngestTyped
<1>5. ASSUME NEW i \in 1..Len(b) PROVE b[i] \in Event
  <2>1. b[i] \in [ts : Nat, kind : Kind, datum : Datum] /\ Ingest!Accepted(b[i])
    BY <1>1, <1>3
  <2>2. PICK e : e = b[i]
    OBVIOUS
  <2>3. e \in [ts : Nat, kind : Kind, datum : Datum] /\ e.kind # "" /\ e.ts =< clock + Ahead
    BY <2>1, <2>2 DEF Ingest!Accepted
  <2>4. e.ts \in 0..MaxTime + Ahead
    <3>1. Ahead \in Nat /\ MaxTime \in Nat
      BY IngestAssumption, PkceAssumption
    <3>2. PICK t \in Nat : t = e.ts
      BY <2>3
    <3>3. t =< clock + Ahead
      BY <2>3, <3>2
    <3>4. t \in 0..MaxTime + Ahead
      BY <1>4, <3>1, <3>3
    <3>5. QED
      BY <3>2, <3>4
  <2>5. QED
    BY <2>2, <2>3, <2>4 DEF Event
<1>6. b \in Seq(Event)
  <2>1. b = [i \in 1..Len(b) |-> b[i]]
    BY <1>2, <1>3
  <2>2. b \in [1..Len(b) -> Event]
    BY <1>5, <2>1
  <2>3. QED
    BY <1>3, <2>2, SeqDef
<1>7. QED
  BY <1>3, <1>6

\* An upload that comes: turned away, or its batch is in hand.
LEMMA BeginStep ==
    ASSUME IngestInv, LimitInv, NEW u \in Uploader, Ingest!Begin(u)
    PROVE  IngestInv' /\ LimitInv'
<1>1. PICK b \in Batch :
        IF ~\A i \in DOMAIN b : Ingest!Accepted(b[i])
        THEN UNCHANGED <<bucket, upload, passes>>
        ELSE /\ bucket' = Ingest!After(bucket, clock)
             /\ IF Ingest!Allowed(bucket, clock)
                THEN /\ upload' = [upload EXCEPT ![u] = [Ingest!NoUpload EXCEPT !.pc = "upsert", !.events = b]]
                     /\ passes' = Append(passes, clock)
                ELSE UNCHANGED <<upload, passes>>
  BY DEF Ingest!Begin
<1>2. UNCHANGED <<clock, rows, known, errors, reader, wrote, lapsed, dropped, acked>> /\ calls' \in 0..MaxCalls
  BY IngestTyped, IngestAssumption DEF Ingest!Begin
<1>3. Keys' = Keys
  BY <1>2 DEF Keys, Ingest!Keys
<1>4. LimitInv'
  <2>1. CASE \A i \in DOMAIN b : Ingest!Accepted(b[i])
    BY <1>1, <1>2, <2>1, LimiterStep
  <2>2. CASE ~\A i \in DOMAIN b : Ingest!Accepted(b[i])
    BY <1>1, <1>2, <2>2, LimiterRests, IngestTyped
  <2>3. QED
    BY <2>1, <2>2
<1>5. ASSUME NEW x, x = [Ingest!NoUpload EXCEPT !.pc = "upsert", !.events = b], \A i \in DOMAIN b : Ingest!Accepted(b[i])
      PROVE  Fine(x)' /\ DOMAIN x.mine = {}
  <2>1. x = [pc |-> "upsert", events |-> b, at |-> 0, mine |-> << >>, twice |-> 0]
    BY <1>5 DEF Ingest!NoUpload
  <2>2. b \in Seq(Event) /\ Len(b) \in Nat
    BY <1>5, AcceptedTyped
  <2>3. x.pc = "upsert" /\ x.events = b /\ x.at = 0 /\ x.mine = << >> /\ x.twice = 0
    BY <2>1
  <2>4. DOMAIN << >> = {} /\ << >> \in [{} -> Datum] /\ 0 \in 0..Len(b) /\ 1..0 = {} /\ 0 + 0 = 0 /\ 0 \in Nat
    BY <2>2
  <2>5. IsFiniteSet({}) /\ Cardinality({}) = 0
    BY FS_EmptySet
  <2>6. QED
    BY <2>1, <2>2, <2>3, <2>4, <2>5 DEF Fine
<1>6. Counts'
  <2>1. CASE UNCHANGED upload
    BY <1>2, <1>3, <2>1 DEF IngestInv, Counts, Fine, HeldApart, Held, Ingest!Held
  <2>2. ASSUME ~UNCHANGED upload PROVE Counts'
    <3>1. PICK x : x = [Ingest!NoUpload EXCEPT !.pc = "upsert", !.events = b]
      OBVIOUS
    <3>2. upload' = [upload EXCEPT ![u] = x] /\ Fine(x)' /\ DOMAIN x.mine = {}
      BY <1>1, <1>5, <2>2, <3>1
    <3>3. /\ IsFiniteSet(Keys') /\ rows' \in [Keys' -> Datum]
          /\ \A v \in Uploader \ {u} : Held(v) \cap (Keys' \cup DOMAIN x.mine) = {}
      BY <1>2, <1>3, <3>2 DEF IngestInv, Counts
    <3>4. QED
      BY <1>2, <1>3, <3>2, <3>3, UploadMoves
  <2>3. QED
    BY <2>1, <2>2
<1>7. Ingest!TypeOK'
  <2>1. bucket' \in Ingest!Buckets(0..MaxTime + Window)
    BY <1>2, <1>4, IngestTyped, BucketTyped
  <2>2. QED
    BY <1>2, <1>3, <1>6, <2>1, IngestTyped, IngestTypes
<1>8. Ingest!CountsAddUp' /\ Ingest!AckedStored' /\ StillAhead'
  BY <1>2, <1>3, AckedStays, AheadStays DEF IngestInv, Ingest!CountsAddUp, Keys
<1>9. QED
  BY <1>4, <1>6, <1>7, <1>8 DEF IngestInv

\* What an upload has in hand.
LEMMA RecordOf ==
    ASSUME IngestInv, NEW u \in Uploader
    PROVE  /\ Fine(upload[u]) /\ Held(u) = DOMAIN upload[u].mine /\ Held(u) \cap Keys = {}
           /\ \A v \in Uploader \ {u} : Held(u) \cap Held(v) = {}
BY DEF IngestInv, Counts, HeldApart, Held, Ingest!Held

\* An upload that ends, or a transaction that is rolled back, leaves nothing.
LEMMA UploadEnds ==
    ASSUME IngestInv, NEW u \in Uploader, upload' = [upload EXCEPT ![u] = Ingest!NoUpload],
           UNCHANGED <<rows, known, dropped>>
    PROVE  Counts'
<1>1. Keys' = Keys /\ IsFiniteSet(Keys') /\ rows' \in [Keys' -> Datum]
  BY DEF IngestInv, Counts, Keys, Ingest!Keys
<1>2. \A v \in Uploader \ {u} : Held(v) \cap (Keys' \cup DOMAIN Ingest!NoUpload.mine) = {}
  BY <1>1, RecordOf, NoUploadFine
<1>3. PICK x : x = Ingest!NoUpload
  OBVIOUS
<1>4. Fine(x)' /\ DOMAIN x.mine = {} /\ upload' = [upload EXCEPT ![u] = x]
  BY <1>3, NoUploadFine DEF Fine
<1>5. QED
  BY <1>1, <1>2, <1>3, <1>4, UploadMoves

\* Steps that leave rows and readers alone, once their uploads are counted.
LEMMA RowsStay ==
    ASSUME IngestInv, LimitInv, Counts', UNCHANGED <<clock, rows, bucket, calls, reader, wrote, lapsed, dropped, acked, passes>>,
           known' \in BOOLEAN, known => known', errors' \in 0..MaxErrors
    PROVE  IngestInv' /\ LimitInv'
<1>1. Keys' = Keys
  BY DEF Keys, Ingest!Keys
<1>2. LimitInv'
  BY LimiterRests, IngestTyped
<1>3. bucket' \in Ingest!Buckets(0..MaxTime + Window)
  BY <1>2, IngestTyped, BucketTyped
<1>4. Ingest!TypeOK'
  BY <1>1, <1>3, IngestTyped, IngestTypes
<1>5. Ingest!CountsAddUp' /\ Ingest!AckedStored' /\ StillAhead'
  BY <1>1, AckedStays, AheadStays DEF IngestInv, Ingest!CountsAddUp, Keys
<1>6. QED
  BY <1>2, <1>4, <1>5 DEF IngestInv

LEMMA ErrCounted == ASSUME IngestInv, Ingest!Err \/ UNCHANGED errors PROVE errors' \in 0..MaxErrors
BY IngestTyped, IngestAssumption DEF Ingest!Err

\* The commander's row, or the upload fails.
LEMMA UpsertStep ==
    ASSUME IngestInv, LimitInv, NEW u \in Uploader, Ingest!Upsert(u)
    PROVE  IngestInv' /\ LimitInv'
<1>1. /\ UNCHANGED <<clock, rows, bucket, calls, reader, wrote, lapsed, dropped, acked, passes>>
      /\ errors' \in 0..MaxErrors /\ known' \in BOOLEAN /\ (known => known')
      /\ upload[u].pc = "upsert"
  <2>1. known \in BOOLEAN /\ known' \in {known, TRUE} /\ (Ingest!Err \/ UNCHANGED errors)
    BY IngestTyped DEF Ingest!Upsert
  <2>2. errors' \in 0..MaxErrors
    BY <2>1, ErrCounted
  <2>3. QED
    BY <2>1, <2>2 DEF Ingest!Upsert
<1>2. Keys' = Keys
  BY <1>1 DEF Keys, Ingest!Keys
<1>3. CASE UNCHANGED known /\ upload' = [upload EXCEPT ![u] = Ingest!NoUpload]
  BY <1>1, <1>3, UploadEnds, RowsStay
<1>4. CASE known' = TRUE /\ upload' = [upload EXCEPT ![u].pc = "insert"]
  <2>1. PICK x : x = [upload[u] EXCEPT !.pc = "insert"]
    OBVIOUS
  <2>2. PICK y : y = upload[u]
    OBVIOUS
  <2>3. Fine(y)
    BY <2>2, RecordOf
  <2>4. x = [pc |-> "insert", events |-> y.events, at |-> y.at, mine |-> y.mine, twice |-> y.twice]
    <3>1. y = [pc |-> y.pc, events |-> y.events, at |-> y.at, mine |-> y.mine, twice |-> y.twice]
      BY <2>3 DEF Fine
    <3>2. x = [y EXCEPT !.pc = "insert"]
      BY <2>1, <2>2
    <3>3. QED
      BY <3>1, <3>2
  <2>5. x.pc = "insert" /\ x.events = y.events /\ x.at = y.at /\ x.mine = y.mine /\ x.twice = y.twice
    BY <2>4
  <2>6. Fine(y)'
    BY <1>1, <1>2, <1>4, <2>3, FineStays
  <2>7. Fine(x)'
    BY <1>4, <2>4, <2>5, <2>6 DEF Fine
  <2>8. upload' = [upload EXCEPT ![u] = x]
    BY <1>4, <2>1
  <2>9. DOMAIN x.mine = Held(u)
    BY <2>2, <2>5, RecordOf
  <2>10. /\ IsFiniteSet(Keys') /\ rows' \in [Keys' -> Datum] /\ DOMAIN x.mine \cap Keys' = {}
         /\ \A v \in Uploader \ {u} : Held(v) \cap (Keys' \cup DOMAIN x.mine) = {}
    BY <1>1, <1>2, <2>9, RecordOf DEF IngestInv, Counts
  <2>11. Counts'
    BY <1>1, <1>2, <2>7, <2>8, <2>10, UploadMoves
  <2>12. QED
    BY <1>1, <2>11, RowsStay
<1>5. QED
  BY <1>3, <1>4 DEF Ingest!Upsert

\* A transaction that fails.
LEMMA RollbackStep ==
    ASSUME IngestInv, LimitInv, NEW u \in Uploader, Ingest!Rollback(u)
    PROVE  IngestInv' /\ LimitInv'
<1>1. /\ UNCHANGED <<clock, rows, known, bucket, calls, reader, wrote, lapsed, dropped, acked, passes>>
      /\ errors' \in 0..MaxErrors /\ upload' = [upload EXCEPT ![u] = Ingest!NoUpload]
  BY ErrCounted DEF Ingest!Rollback
<1>2. Counts'
  BY <1>1, UploadEnds
<1>3. QED
  BY <1>1, <1>2, RowsStay, IngestTyped

\* An event inserted, or there already.
LEMMA InsertStep ==
    ASSUME IngestInv, LimitInv, NEW u \in Uploader, Ingest!Insert(u)
    PROVE  IngestInv' /\ LimitInv'
<1>1. /\ UNCHANGED <<clock, rows, known, bucket, calls, errors, reader, wrote, lapsed, dropped, acked, passes>>
      /\ upload[u].pc = "insert" /\ upload[u].at < Len(upload[u].events)
  BY DEF Ingest!Insert
<1>2. Keys' = Keys
  BY <1>1 DEF Keys, Ingest!Keys
<1>3. PICK y : y = upload[u]
  OBVIOUS
<1>4. /\ Fine(y) /\ Held(u) = DOMAIN y.mine /\ Held(u) \cap Keys = {}
      /\ \A v \in Uploader \ {u} : Held(u) \cap Held(v) = {}
  BY <1>3, RecordOf
<1>5. /\ y = [pc |-> y.pc, events |-> y.events, at |-> y.at, mine |-> y.mine, twice |-> y.twice]
      /\ y.pc = "insert" /\ known /\ y.events \in Seq(Event) /\ y.mine \in [DOMAIN y.mine -> Datum]
      /\ DOMAIN y.mine \subseteq Ingest!Key /\ IsFiniteSet(DOMAIN y.mine) /\ y.at \in Nat /\ y.twice \in Nat
      /\ Cardinality(DOMAIN y.mine) + y.twice = y.at /\ y.at < Len(y.events) /\ Len(y.events) \in Nat
      /\ \A i \in 1..y.at : Ingest!KeyOf(y.events[i]) \in Keys \cup DOMAIN y.mine \cup dropped
  <2>1. y.events \in Seq(Event) /\ y.at \in 0..Len(y.events)
    BY <1>4 DEF Fine
  <2>2. Len(y.events) \in Nat /\ y.at \in Nat
    BY <2>1
  <2>3. QED
    BY <1>1, <1>3, <1>4, <2>1, <2>2 DEF Fine
<1>6. PICK e, k : e = y.events[y.at + 1] /\ k = Ingest!KeyOf(e)
  OBVIOUS
<1>7. e \in Event
  <2>1. y.at + 1 \in 1..Len(y.events)
    BY <1>5
  <2>2. QED
    BY <1>5, <1>6, <2>1, SeqElements
<1>8. k \in Ingest!Key /\ e.datum \in Datum
  <2>1. e.ts \in 0..MaxTime + Ahead /\ e.kind \in Kind \ {""} /\ e.datum \in Datum
    BY <1>7 DEF Event
  <2>2. MaxTime \in Nat /\ Ahead \in Nat
    BY PkceAssumption, IngestAssumption
  <2>3. e.ts \in 0..MaxTime + Ahead + 1
    <3>1. PICK t \in 0..MaxTime + Ahead : t = e.ts
      BY <2>1
    <3>2. t \in 0..MaxTime + Ahead + 1
      BY <2>2, <3>1
    <3>3. QED
      BY <3>1, <3>2
  <2>4. QED
    BY <1>6, <2>1, <2>3 DEF Ingest!KeyOf, Ingest!Key, Ingest!Stamp
<1>9. PICK x : x = [y EXCEPT !.at = @ + 1,
                             !.mine = IF k \in Keys \cup Held(u) THEN @ ELSE Ingest!Over([z \in {k} |-> e.datum], @),
                             !.twice = IF k \in Keys \cup Held(u) THEN @ + 1 ELSE @]
  OBVIOUS
<1>10. upload' = [upload EXCEPT ![u] = x]
  BY <1>3, <1>6, <1>9 DEF Ingest!Insert, Ingest!NextKey, Held, Keys
<1>11. x = [pc |-> "insert", events |-> y.events, at |-> y.at + 1,
            mine |-> IF k \in Keys \cup Held(u) THEN y.mine ELSE Ingest!Over([z \in {k} |-> e.datum], y.mine),
            twice |-> IF k \in Keys \cup Held(u) THEN y.twice + 1 ELSE y.twice]
  BY <1>5, <1>9
<1>12. /\ x.pc = "insert" /\ x.events = y.events /\ x.at = y.at + 1
       /\ x.mine = IF k \in Keys \cup Held(u) THEN y.mine ELSE Ingest!Over([z \in {k} |-> e.datum], y.mine)
       /\ x.twice = IF k \in Keys \cup Held(u) THEN y.twice + 1 ELSE y.twice
       /\ x = [pc |-> x.pc, events |-> x.events, at |-> x.at, mine |-> x.mine, twice |-> x.twice]
  BY <1>11
<1>13. /\ x.mine \in [DOMAIN x.mine -> Datum] /\ IsFiniteSet(DOMAIN x.mine)
       /\ Cardinality(DOMAIN x.mine) + x.twice = x.at /\ x.twice \in Nat
       /\ DOMAIN x.mine = IF k \in Keys THEN Held(u) ELSE Held(u) \cup {k}
  <2>1. CASE k \in Keys \cup Held(u)
    <3>1. x.mine = y.mine /\ x.twice = y.twice + 1
      BY <1>12, <2>1
    <3>2. Cardinality(DOMAIN y.mine) \in Nat
      BY <1>5, FS_CardinalityType
    <3>3. x.at = y.at + 1 /\ Cardinality(DOMAIN y.mine) + y.twice = y.at /\ y.twice \in Nat
      BY <1>5, <1>12
    <3>4. Cardinality(DOMAIN x.mine) + x.twice = x.at /\ x.twice \in Nat
      BY <3>1, <3>2, <3>3
    <3>5. DOMAIN x.mine = IF k \in Keys THEN Held(u) ELSE Held(u) \cup {k}
      BY <1>4, <2>1, <3>1
    <3>6. QED
      BY <1>5, <3>1, <3>4, <3>5
  <2>2. CASE k \notin Keys \cup Held(u)
    <3>1. x.mine = Ingest!Over([z \in {k} |-> e.datum], y.mine) /\ x.twice = y.twice
      BY <1>12, <2>2
    <3>2. x.mine = [z \in {k} \cup DOMAIN y.mine |-> IF z \in {k} THEN e.datum ELSE y.mine[z]]
      BY <3>1 DEF Ingest!Over
    <3>3. DOMAIN x.mine = Held(u) \cup {k} /\ x.mine \in [DOMAIN x.mine -> Datum]
      BY <1>4, <1>5, <1>8, <3>2
    <3>4. /\ IsFiniteSet(DOMAIN y.mine \cup {k})
          /\ Cardinality(DOMAIN y.mine \cup {k}) = Cardinality(DOMAIN y.mine) + 1
          /\ Cardinality(DOMAIN y.mine) \in Nat
      BY <1>4, <1>5, <2>2, FS_AddElement, FS_CardinalityType
    <3>5. Cardinality(DOMAIN x.mine) = Cardinality(DOMAIN y.mine) + 1 /\ IsFiniteSet(DOMAIN x.mine)
      BY <1>4, <3>3, <3>4
    <3>6. x.at = y.at + 1 /\ Cardinality(DOMAIN y.mine) + y.twice = y.at /\ y.twice \in Nat
      BY <1>5, <1>12
    <3>7. Cardinality(DOMAIN x.mine) + x.twice = x.at /\ x.twice \in Nat
      BY <3>1, <3>4, <3>5, <3>6
    <3>8. QED
      BY <2>2, <3>3, <3>5, <3>7
  <2>3. QED
    BY <2>1, <2>2
<1>14. \A i \in 1..x.at : Ingest!KeyOf(x.events[i]) \in Keys \cup DOMAIN x.mine \cup dropped
  <2>1. ASSUME NEW i \in 1..y.at + 1 PROVE i \in 1..y.at \/ i = y.at + 1
    BY <1>5
  <2>2. DOMAIN y.mine \subseteq DOMAIN x.mine /\ k \in Keys \cup DOMAIN x.mine
    BY <1>4, <1>13
  <2>3. QED
    BY <1>5, <1>6, <1>12, <2>1, <2>2
<1>15. Fine(x)
  <2>1. x.at \in 0..Len(x.events) /\ DOMAIN x.mine \subseteq Ingest!Key
    BY <1>4, <1>5, <1>8, <1>12, <1>13
  <2>2. QED
    BY <1>5, <1>12, <1>13, <1>14, <2>1 DEF Fine
<1>16. Fine(x)'
  BY <1>1, <1>2, <1>15, FineStays
<1>17. ASSUME NEW v \in Uploader \ {u} PROVE Held(v) \cap (Keys' \cup DOMAIN x.mine) = {}
  <2>1. k \notin Held(v)
    BY <1>1, <1>3, <1>6 DEF Ingest!Insert, Ingest!Waits, Ingest!NextKey, Held
  <2>2. Held(v) \cap Keys = {} /\ Held(u) \cap Held(v) = {}
    BY <1>4, RecordOf
  <2>3. QED
    BY <1>2, <1>13, <2>1, <2>2
<1>18. IsFiniteSet(Keys') /\ rows' \in [Keys' -> Datum] /\ DOMAIN x.mine \cap Keys' = {}
  BY <1>1, <1>2, <1>4, <1>13 DEF IngestInv, Counts
<1>19. Counts'
  BY <1>1, <1>2, <1>10, <1>16, <1>17, <1>18, UploadMoves
<1>20. QED
  BY <1>1, <1>19, RowsStay, IngestTyped

\* A commit, answered or not, or one that fails.
LEMMA CommitStep ==
    ASSUME IngestInv, LimitInv, NEW u \in Uploader, Ingest!Commit(u)
    PROVE  IngestInv' /\ LimitInv'
<1>1. /\ UNCHANGED <<clock, known, bucket, calls, reader, lapsed, dropped, passes>>
      /\ upload[u].pc = "insert" /\ upload[u].at = Len(upload[u].events)
      /\ errors' \in 0..MaxErrors /\ upload' = [upload EXCEPT ![u] = Ingest!NoUpload]
  <2>1. Ingest!Err \/ UNCHANGED errors
    BY DEF Ingest!Commit
  <2>2. QED
    BY <2>1, ErrCounted DEF Ingest!Commit
<1>2. CASE UNCHANGED <<rows, wrote, acked>>
  <2>1. Counts'
    BY <1>1, <1>2, UploadEnds
  <2>2. QED
    BY <1>1, <1>2, <2>1, RowsStay, IngestTyped
<1>3. CASE /\ rows' = Ingest!Over(upload[u].mine, rows) /\ wrote' = wrote + Cardinality(Held(u))
           /\ acked' \in {acked, acked \cup {Ingest!Answer(u)}}
  <2>1. PICK y : y = upload[u]
    OBVIOUS
  <2>2. /\ Fine(y) /\ Held(u) = DOMAIN y.mine /\ Held(u) \cap Keys = {}
        /\ \A v \in Uploader \ {u} : Held(u) \cap Held(v) = {}
    BY <2>1, RecordOf
  <2>3. /\ known /\ y.mine \in [DOMAIN y.mine -> Datum] /\ Held(u) \subseteq Ingest!Key /\ IsFiniteSet(Held(u))
        /\ y.events \in Seq(Event) /\ Cardinality(Held(u)) + y.twice = Len(y.events)
        /\ \A i \in 1..Len(y.events) : Ingest!KeyOf(y.events[i]) \in Keys \cup Held(u) \cup dropped
    BY <1>1, <2>1, <2>2 DEF Fine
  <2>4. rows' = [k \in DOMAIN y.mine \cup DOMAIN rows |-> IF k \in DOMAIN y.mine THEN y.mine[k] ELSE rows[k]]
    BY <1>3, <2>1 DEF Ingest!Over
  <2>5. Keys' = Keys \cup Held(u) /\ rows \in [Keys -> Datum]
    BY <2>2, <2>4 DEF Keys, Ingest!Keys, IngestInv, Counts
  <2>6. rows' \in [Keys' -> Datum]
    BY <2>2, <2>3, <2>4, <2>5 DEF Keys, Ingest!Keys
  <2>7. /\ IsFiniteSet(Keys') /\ Cardinality(Keys') = Cardinality(Keys) + Cardinality(Held(u))
        /\ Cardinality(Keys) \in Nat /\ Cardinality(Held(u)) \in Nat
    <3>1. IsFiniteSet(Keys) /\ IsFiniteSet(Held(u)) /\ Cardinality(Keys \cap Held(u)) = 0
      <4>1. Keys \cap Held(u) = {}
        BY <2>2
      <4>2. QED
        BY <2>3, <4>1, OneCounts, IngestTyped
    <3>2. /\ IsFiniteSet(Keys \cup Held(u))
          /\ Cardinality(Keys \cup Held(u)) = Cardinality(Keys) + Cardinality(Held(u)) - Cardinality(Keys \cap Held(u))
          /\ Cardinality(Keys) \in Nat /\ Cardinality(Held(u)) \in Nat
      BY <3>1, FS_Union, FS_CardinalityType
    <3>3. QED
      BY <2>5, <3>1, <3>2
  <2>8. Counts'
    <3>1. PICK x : x = Ingest!NoUpload
      OBVIOUS
    <3>2. Fine(x)' /\ DOMAIN x.mine = {} /\ upload' = [upload EXCEPT ![u] = x]
      BY <1>1, <3>1, NoUploadFine DEF Fine
    <3>3. \A v \in Uploader \ {u} : Held(v) \cap (Keys' \cup DOMAIN x.mine) = {}
      BY <2>2, <2>5, <3>2, RecordOf
    <3>4. Keys \cup dropped \subseteq Keys' \cup dropped' /\ (known => known')
      BY <1>1, <2>5
    <3>5. QED
      BY <2>6, <2>7, <3>2, <3>3, <3>4, UploadMoves
  <2>9. LimitInv'
    BY <1>1, LimiterRests, IngestTyped
  <2>10. Ingest!TypeOK'
    <3>1. bucket' \in Ingest!Buckets(0..MaxTime + Window)
      BY <1>1, <2>9, IngestTyped, BucketTyped
    <3>2. Keys' \subseteq Ingest!Key /\ known' /\ wrote' \in Nat
      BY <1>1, <1>3, <2>3, <2>5, <2>7, IngestTyped
    <3>3. QED
      BY <1>1, <2>8, <3>1, <3>2, IngestTyped, IngestTypes
  <2>11. Ingest!CountsAddUp'
    <3>1. wrote' = Cardinality(Keys') + lapsed'
      BY <1>1, <1>3, <2>7, IngestTyped
    <3>2. QED
      BY <3>1, SameSize DEF Ingest!CountsAddUp, Keys
  <2>12. StillAhead'
    BY <1>1, <2>5, AheadStays
  <2>13. Ingest!AckedStored'
    <3> SUFFICES ASSUME NEW a \in acked'
                 PROVE  /\ a.written + a.duplicated = Len(a.events)
                        /\ \A i \in DOMAIN a.events : Ingest!KeyOf(a.events[i]) \in Keys' \cup dropped'
      BY DEF Ingest!AckedStored, Keys
    <3>1. CASE a \in acked
      BY <1>1, <2>5, <3>1 DEF IngestInv, Ingest!AckedStored, Keys
    <3>2. CASE a = Ingest!Answer(u)
      <4>1. a.events = y.events /\ a.written = Cardinality(Held(u)) /\ a.duplicated = y.twice
        BY <2>1, <3>2, SameSize DEF Ingest!Answer, Held
      <4>2. DOMAIN a.events = 1..Len(y.events)
        BY <2>3, <4>1, SeqElements
      <4>3. QED
        BY <1>1, <2>3, <2>5, <4>1, <4>2
    <3>3. QED
      BY <1>3, <3>1, <3>2
  <2>14. QED
    BY <2>8, <2>9, <2>10, <2>11, <2>12, <2>13 DEF IngestInv
<1>4. QED
  BY <1>2, <1>3, SameSize DEF Ingest!Commit, Held

\* Retention: the rows dropped are counted.
LEMMA DropStep ==
    ASSUME IngestInv, LimitInv, Ingest!Drop
    PROVE  IngestInv' /\ LimitInv'
<1>1. PICK old : /\ old \subseteq Keys /\ rows' = [k \in Keys \ old |-> rows[k]]
                 /\ lapsed' = lapsed + Cardinality(old) /\ dropped' = dropped \cup old
  BY SameSize DEF Ingest!Drop, Keys
<1>2. UNCHANGED <<clock, known, bucket, upload, calls, errors, reader, wrote, acked, passes>>
  BY DEF Ingest!Drop
<1>3. Keys' = Keys \ old /\ rows' \in [Keys' -> Datum]
  <2>1. rows \in [Keys -> Datum]
    BY DEF IngestInv, Counts
  <2>2. Keys' = Keys \ old
    BY <1>1 DEF Keys, Ingest!Keys
  <2>3. QED
    BY <1>1, <2>1, <2>2
<1>4. Keys \cup dropped \subseteq Keys' \cup dropped' /\ dropped \subseteq dropped'
  BY <1>1, <1>3
<1>5. /\ IsFiniteSet(Keys') /\ Cardinality(Keys) = Cardinality(Keys') + Cardinality(old)
      /\ Cardinality(Keys') \in Nat /\ Cardinality(old) \in Nat
  <2>1. IsFiniteSet(Keys) /\ IsFiniteSet(old) /\ IsFiniteSet(Keys \ old) /\ Cardinality(Keys) \in Nat
    BY <1>1, IngestTyped, FS_Subset, FS_Difference
  <2>2. Cardinality(Keys \ old) = Cardinality(Keys) - Cardinality(Keys \cap old)
    BY <2>1, FS_Difference
  <2>3. Keys \cap old = old
    BY <1>1
  <2>4. Cardinality(Keys \ old) \in Nat /\ Cardinality(old) \in Nat
    BY <2>1, FS_CardinalityType
  <2>5. QED
    BY <1>3, <2>1, <2>2, <2>3, <2>4
<1>6. Counts'
  <2>1. \A u \in Uploader : Held(u)' = Held(u) /\ upload'[u] = upload[u]
    BY <1>2 DEF Held, Ingest!Held
  <2>2. ASSUME NEW u \in Uploader PROVE Fine(upload[u])' /\ Held(u)' \cap Keys' = {}
    <3>1. PICK y : y = upload[u]
      OBVIOUS
    <3>2. Fine(y)'
      BY <1>2, <1>4, <3>1, RecordOf, FineStays
    <3>3. QED
      BY <1>3, <2>1, <3>1, <3>2, RecordOf DEF Fine
  <2>3. \A u, v \in Uploader : u # v => HeldApart(upload[u], upload[v])'
    BY <1>2 DEF IngestInv, Counts, HeldApart
  <2>4. upload' = [u \in Uploader |-> upload'[u]]
    BY <1>2 DEF IngestInv, Counts
  <2>5. QED
    BY <1>3, <1>5, <2>2, <2>3, <2>4 DEF Counts
<1>7. LimitInv'
  BY <1>2, LimiterRests, IngestTyped
<1>8. Ingest!TypeOK'
  <2>1. bucket' \in Ingest!Buckets(0..MaxTime + Window)
    BY <1>2, <1>7, IngestTyped, BucketTyped
  <2>2. Keys' \subseteq Ingest!Key /\ (Keys' # {} => known') /\ lapsed' \in Nat /\ dropped' \subseteq Ingest!Key
    BY <1>1, <1>2, <1>3, <1>5, IngestTyped
  <2>3. QED
    BY <1>2, <1>6, <2>1, <2>2, IngestTyped, IngestTypes
<1>9. Ingest!CountsAddUp'
  <2>1. wrote' = Cardinality(Keys') + lapsed'
    BY <1>1, <1>2, <1>5, IngestTyped
  <2>2. QED
    BY <2>1, SameSize DEF Ingest!CountsAddUp, Keys
<1>10. QED
  BY <1>2, <1>4, <1>6, <1>7, <1>8, <1>9, AckedStays, AheadStays DEF IngestInv

\* A finite set has an element with the greatest value.
LEMMA GreatestOf ==
    ASSUME NEW S, IsFiniteSet(S), S # {}, NEW f \in [S -> Int]
    PROVE  \E k \in S : \A j \in S : f[j] =< f[k]
<1> DEFINE Beyond(k) == {j \in S : f[j] > f[k]}
           T == {Beyond(k) : k \in S}
<1>1. IsWellFoundedOn(StrictSubsetOrdering(S), SUBSET S)
  BY FS_StrictSubsetOrderingWellFounded, FS_FiniteSubsetsOfFinite
<1>2. T \subseteq SUBSET S /\ T # {}
  <2>1. PICK i : i \in S
    OBVIOUS
  <2>2. Beyond(i) \in T
    BY <2>1
  <2>3. QED
    BY <2>2
<1>3. \E x \in T : \A y \in T : ~(<<y, x>> \in StrictSubsetOrdering(S))
  <2> HIDE DEF T
  <2>1. QED
    BY <1>1, <1>2, WFMin
<1>4. PICK k \in S : \A j \in S : ~(<<Beyond(j), Beyond(k)>> \in StrictSubsetOrdering(S))
  BY <1>3
<1>5. ASSUME NEW j \in S, f[j] > f[k] PROVE FALSE
  <2>1. j \in Beyond(k) /\ j \notin Beyond(j) /\ Beyond(j) \subseteq Beyond(k)
    <3>1. f[j] \in Int /\ f[k] \in Int /\ \A i \in S : f[i] \in Int
      OBVIOUS
    <3>2. QED
      BY <1>5, <3>1
  <2>2. Beyond(j) # Beyond(k) /\ Beyond(j) \in SUBSET S /\ Beyond(k) \in SUBSET S
    BY <2>1
  <2> HIDE DEF Beyond
  <2>3. <<Beyond(j), Beyond(k)>> \in StrictSubsetOrdering(S)
    BY <2>1, <2>2 DEF StrictSubsetOrdering
  <2>4. QED
    BY <1>4, <2>3
<1>6. \A j \in S : f[j] \in Int /\ ~(f[j] > f[k])
  BY <1>5
<1>7. QED
  BY <1>6

\* EventsByType's page: one that is not full is all there is, what is not on a
\* page is no newer than what is, and a page has an oldest event.
LEMMA PageTells ==
    ASSUME NEW found, IsFiniteSet(found), \A j \in found : j[1] \in Nat, NEW limit \in Nat
    PROVE  LET page == Ingest!Page(found, limit) IN
           /\ page \subseteq found
           /\ Cardinality(page) < limit => page = found
           /\ \A k \in found \ page, j \in page : k[1] =< j[1]
           /\ page # {} => \E k \in page : \A j \in page : k[1] =< j[1]
<1> DEFINE Newer(k) == {j \in found : j[1] > k[1]}
<1>1. PICK page : page = Ingest!Page(found, limit)
  OBVIOUS
<1>2. page = {k \in found : Cardinality(Newer(k)) < limit}
  BY <1>1, SameSize DEF Ingest!Page
<1>3. page \subseteq found /\ IsFiniteSet(page)
  BY <1>2, FS_Subset
<1>4. ASSUME NEW k, Newer(k) \subseteq page PROVE Cardinality(Newer(k)) =< Cardinality(page)
  BY <1>3, <1>4, FS_Subset
<1>5. \A k : IsFiniteSet(Newer(k)) /\ Cardinality(Newer(k)) \in Nat
  <2>1. \A k : Newer(k) \subseteq found
    OBVIOUS
  <2> HIDE DEF Newer
  <2>2. QED
    BY <2>1, FS_Subset, FS_CardinalityType
<1>6. Cardinality(page) \in Nat
  BY <1>3, FS_CardinalityType
<1>7. ASSUME Cardinality(page) < limit, page # found PROVE FALSE
  <2> DEFINE S == found \ page
             f == [j \in S |-> j[1]]
  <2>1. IsFiniteSet(S) /\ S # {} /\ f \in [S -> Int]
    <3>1. IsFiniteSet(S)
      <4>1. S \subseteq found
        OBVIOUS
      <4>2. QED
        BY <4>1, FS_Subset
    <3>2. S # {}
      BY <1>3, <1>7
    <3>3. \A j \in S : j[1] \in Int
      OBVIOUS
    <3>4. QED
      BY <3>1, <3>2, <3>3
  <2>2. \E k \in S : \A j \in S : f[j] =< f[k]
    <3> HIDE DEF S, f
    <3>1. QED
      BY <2>1, GreatestOf
  <2>3. PICK k \in S : \A j \in S : j[1] =< k[1]
    BY <2>2
  <2>4. ASSUME NEW j \in Newer(k) PROVE j \in page
    <3>1. j \in found /\ j[1] > k[1] /\ j[1] \in Nat /\ k[1] \in Nat
      OBVIOUS
    <3>2. QED
      BY <2>3, <3>1
  <2>5. Cardinality(Newer(k)) =< Cardinality(page)
    BY <1>4, <2>4
  <2>6. Cardinality(Newer(k)) < limit
    <3> HIDE DEF Newer
    <3>1. QED
      BY <1>5, <1>6, <1>7, <2>5
  <2>7. QED
    BY <1>2, <2>6
<1>8. ASSUME NEW k \in found \ page, NEW j \in page PROVE k[1] =< j[1]
  <2>1. k[1] \in Nat /\ j[1] \in Nat
    BY <1>3
  <2>2. ASSUME k[1] > j[1] PROVE FALSE
    <3>1. Newer(k) \subseteq Newer(j)
      BY <2>1, <2>2
    <3>2. Cardinality(Newer(k)) =< Cardinality(Newer(j))
      <4> HIDE DEF Newer
      <4>1. QED
        BY <1>5, <3>1, FS_Subset
    <3>3. Cardinality(Newer(j)) < limit
      BY <1>2
    <3>4. Cardinality(Newer(k)) < limit
      <4> HIDE DEF Newer
      <4>1. QED
        BY <1>5, <3>2, <3>3
    <3>5. QED
      BY <1>2, <3>4
  <2>3. QED
    BY <2>1, <2>2
<1>9. ASSUME page # {} PROVE \E k \in page : \A j \in page : k[1] =< j[1]
  <2> DEFINE f == [j \in page |-> -(j[1])]
  <2>1. f \in [page -> Int]
    BY <1>3
  <2>2. \E k \in page : \A j \in page : f[j] =< f[k]
    <3> HIDE DEF f
    <3>1. QED
      BY <1>3, <1>9, <2>1, GreatestOf
  <2>3. PICK k \in page : \A j \in page : -(j[1]) =< -(k[1])
    BY <2>2
  <2>4. \A j \in page : j[1] \in Nat /\ k[1] =< j[1]
    BY <1>3, <2>3
  <2>5. QED
    BY <2>4
<1>10. QED
  BY <1>1, <1>3, <1>7, <1>8, <1>9

\* Steps of a reader.
LEMMA ReaderMoves ==
    ASSUME IngestInv, LimitInv, UNCHANGED <<clock, rows, known, bucket, upload, calls, errors, wrote, lapsed, dropped, acked, passes>>,
           reader' = {} \/ \E w \in Ingest!Walk : reader' = {w}, StillAhead'
    PROVE  IngestInv' /\ LimitInv'
<1>1. Keys' = Keys
  BY DEF Keys, Ingest!Keys
<1>2. Counts'
  <2>1. ASSUME NEW u \in Uploader PROVE Fine(upload[u])'
    <3>1. PICK y : y = upload[u]
      OBVIOUS
    <3>2. Fine(y)'
      BY <1>1, <3>1, RecordOf, FineStays
    <3>3. QED
      BY <3>1, <3>2 DEF Fine
  <2>2. \A u \in Uploader : Held(u)' = Held(u)
    BY DEF Held, Ingest!Held
  <2>3. \A u, v \in Uploader : u # v => HeldApart(upload[u], upload[v])'
    BY DEF IngestInv, Counts, HeldApart
  <2>4. QED
    BY <1>1, <2>1, <2>2, <2>3 DEF IngestInv, Counts
<1>3. LimitInv'
  BY LimiterRests, IngestTyped
<1>4. Ingest!TypeOK'
  <2>1. bucket' \in Ingest!Buckets(0..MaxTime + Window)
    BY <1>3, IngestTyped, BucketTyped
  <2>2. QED
    BY <1>1, <1>2, <2>1, IngestTyped, IngestTypes
<1>5. Ingest!CountsAddUp' /\ Ingest!AckedStored'
  BY <1>1, AckedStays DEF IngestInv, Ingest!CountsAddUp, Keys
<1>6. QED
  BY <1>2, <1>3, <1>4, <1>5 DEF IngestInv

\* A time is one that an event may have.
LEMMA TimeInStamp == ASSUME NEW m \in Nat, NEW a \in Nat, NEW t \in 0..m PROVE t \in 0..m + a + 1
OBVIOUS

\* A pair's components.
LEMMA PairOf ==
    ASSUME NEW S, NEW T, NEW k \in S \X T
    PROVE  k[1] \in S /\ k[2] \in T /\ k = <<k[1], k[2]>>
OBVIOUS

\* Stamps are numbers.
LEMMA StampTyped == \A k \in Ingest!Key : k[1] \in Nat /\ k[1] \in Ingest!Stamp /\ k[2] \in Kind \ {""} /\ k = <<k[1], k[2]>>
<1>1. MaxTime + Ahead + 1 \in Nat
  BY PkceAssumption, IngestAssumption
<1>2. Ingest!Stamp \subseteq Nat
  BY <1>1 DEF Ingest!Stamp
<1>3. ASSUME NEW k \in Ingest!Key
      PROVE  k[1] \in Ingest!Stamp /\ k[2] \in Kind \ {""} /\ k = <<k[1], k[2]>>
  <2>1. k \in Ingest!Stamp \X (Kind \ {""})
    BY DEF Ingest!Key
  <2>2. QED
    BY <2>1, PairOf
<1>4. QED
  BY <1>2, <1>3

\* A reader begins.
LEMMA OpenStep ==
    ASSUME IngestInv, LimitInv, Ingest!Open
    PROVE  IngestInv' /\ LimitInv'
<1>1. PICK t \in Kind \ {""} :
        reader' = {[from |-> Ingest!ByType(t, 0, clock), before |-> clock, kind |-> t, seen |-> {}, done |-> FALSE]}
  BY DEF Ingest!Open
<1>2. UNCHANGED <<clock, rows, known, bucket, upload, calls, errors, wrote, lapsed, dropped, acked, passes>>
  BY DEF Ingest!Open
<1>3. PICK w : w = [from |-> Ingest!ByType(t, 0, clock), before |-> clock, kind |-> t, seen |-> {}, done |-> FALSE]
  OBVIOUS
<1>4. w.from = Ingest!ByType(t, 0, clock) /\ w.before = clock /\ w.kind = t /\ w.done = FALSE /\ reader' = {w}
  BY <1>1, <1>3
<1>5. \A k \in w.from : k \in Keys /\ k[1] =< clock /\ k[2] = t
  BY <1>4 DEF Ingest!ByType, Keys
<1>6. w \in Ingest!Walk
  <2>1. clock \in Ingest!Stamp
    <3>1. MaxTime \in Nat /\ Ahead \in Nat
      BY PkceAssumption, IngestAssumption
    <3>2. clock \in 0..MaxTime
      BY IngestTyped
    <3>3. QED
      BY <3>1, <3>2, TimeInStamp DEF Ingest!Stamp
  <2>2. Ingest!ByType(t, 0, clock) \subseteq Ingest!Key
    BY IngestTyped DEF Ingest!ByType, Keys
  <2>3. QED
    BY <1>3, <2>1, <2>2 DEF Ingest!Walk
<1>7. Keys' = Keys
  BY <1>2 DEF Keys, Ingest!Keys
<1>8. StillAhead'
  <2>1. One(reader')
    BY <1>4 DEF One
  <2>2. \A v \in reader' : \A k \in v.from : ~v.done /\ k \in Keys' /\ k[1] =< v.before /\ k[2] = v.kind
    BY <1>4, <1>5, <1>7
  <2>3. QED
    BY <2>1, <2>2 DEF StillAhead, One
<1>9. QED
  BY <1>2, <1>4, <1>6, <1>8, ReaderMoves

\* A page read.
LEMMA TurnStep ==
    ASSUME IngestInv, LimitInv, Ingest!Turn
    PROVE  IngestInv' /\ LimitInv'
<1>1. PICK w, found, page, last :
        /\ w \in reader /\ ~w.done /\ found = Ingest!ByType(w.kind, 0, w.before) /\ page = Ingest!Page(found, PageSize)
        /\ last = CHOOSE k \in page : \A j \in page : k[1] =< j[1]
        /\ reader' = {[w EXCEPT !.seen = @ \cup page,
                                !.before = IF page = {} THEN @ ELSE last[1],
                                !.done = Cardinality(page) < PageSize]}
  BY SameSize DEF Ingest!Turn
<1>2. UNCHANGED <<clock, rows, known, bucket, upload, calls, errors, wrote, lapsed, dropped, acked, passes>>
  BY DEF Ingest!Turn
<1>3. Keys' = Keys /\ reader = {w} /\ w \in Ingest!Walk
  <2>1. w \in reader
    BY <1>1, Zenon
  <2>2. reader = {w} /\ w \in Ingest!Walk
    BY <2>1, IngestTyped
  <2>3. QED
    BY <1>2, <2>2 DEF Keys, Ingest!Keys
<1>4. found \subseteq Keys /\ IsFiniteSet(found) /\ \A j \in found : j \in Ingest!Key /\ j[1] \in Nat
  <2>1. found \subseteq Keys
    BY <1>1 DEF Ingest!ByType, Keys
  <2>2. QED
    BY <2>1, IngestTyped, FS_Subset, StampTyped
<1>5. /\ page \subseteq found /\ (Cardinality(page) < PageSize => page = found)
      /\ \A k \in found \ page, j \in page : k[1] =< j[1]
      /\ page # {} => \E k \in page : \A j \in page : k[1] =< j[1]
  <2>1. PageSize \in Nat
    BY IngestAssumption
  <2>2. QED
    BY <1>1, <1>4, <2>1, PageTells
<1>6. page # {} => last \in page /\ last[1] \in Ingest!Stamp
  <2>1. page # {} => last \in page
    BY <1>1, <1>5
  <2>2. QED
    BY <1>4, <1>5, <2>1, StampTyped
<1>7. PICK b \in Ingest!Stamp, d \in BOOLEAN :
        b = (IF page = {} THEN w.before ELSE last[1]) /\ (d <=> Cardinality(page) < PageSize)
  <2>1. PICK b \in Ingest!Stamp : b = (IF page = {} THEN w.before ELSE last[1])
    BY <1>3, <1>6 DEF Ingest!Walk
  <2>2. PICK d \in BOOLEAN : d <=> Cardinality(page) < PageSize
    <3>1. CASE Cardinality(page) < PageSize
      BY <3>1
    <3>2. CASE ~(Cardinality(page) < PageSize)
      BY <3>2
    <3>3. QED
      BY <3>1, <3>2
  <2>3. QED
    BY <2>1, <2>2
<1>8. PICK v : v = [from |-> w.from, before |-> b, kind |-> w.kind, seen |-> w.seen \cup page, done |-> d]
  OBVIOUS
<1>9. w = [from |-> w.from, before |-> w.before, kind |-> w.kind, seen |-> w.seen, done |-> w.done]
  BY <1>3 DEF Ingest!Walk
<1>10. reader' = {v} /\ v.from = w.from /\ v.before = b /\ v.kind = w.kind /\ v.seen = w.seen \cup page /\ v.done = d
  <2>1. (Cardinality(page) < PageSize) = d
    <3>1. CASE d = TRUE
      BY <1>7, <3>1
    <3>2. CASE d = FALSE
      BY <1>7, <3>2
    <3>3. QED
      BY <3>1, <3>2
  <2>2. PICK x : x = [w EXCEPT !.seen = @ \cup page, !.before = IF page = {} THEN @ ELSE last[1], !.done = Cardinality(page) < PageSize]
    OBVIOUS
  <2>3. x = [w EXCEPT !.seen = @ \cup page, !.before = b, !.done = d]
    <3>1. CASE page = {}
      BY <1>7, <2>1, <2>2, <3>1
    <3>2. CASE page # {}
      BY <1>7, <2>1, <2>2, <3>2
    <3>3. QED
      BY <3>1, <3>2
  <2>4. x = v
    <3>1. PICK s, e : s = w.seen \cup page /\ e = d
      OBVIOUS
    <3>2. x = [w EXCEPT !.seen = s, !.before = b, !.done = e]
      BY <2>3, <3>1
    <3>3. PICK y : y = [w EXCEPT !.seen = s]
      OBVIOUS
    <3>4. y = [from |-> w.from, before |-> w.before, kind |-> w.kind, seen |-> s, done |-> w.done]
      BY <1>9, <3>3
    <3>5. PICK z : z = [y EXCEPT !.before = b]
      OBVIOUS
    <3>6. z = [from |-> w.from, before |-> b, kind |-> w.kind, seen |-> s, done |-> w.done]
      BY <3>4, <3>5
    <3>7. x = [z EXCEPT !.done = e]
      BY <3>2, <3>3, <3>5, Zenon
    <3>8. x = [from |-> w.from, before |-> b, kind |-> w.kind, seen |-> s, done |-> e]
      BY <3>6, <3>7
    <3>9. QED
      BY <1>8, <3>1, <3>8
  <2>5. reader' = {v}
    BY <1>1, <2>2, <2>4
  <2>6. QED
    BY <1>8, <2>5
<1>11. v \in Ingest!Walk
  <2>1. page \subseteq Ingest!Key
    BY <1>4, <1>5
  <2>2. QED
    BY <1>3, <1>7, <1>8, <2>1 DEF Ingest!Walk
<1>12. ASSUME NEW k \in v.from
       PROVE  k \in v.seen \cup dropped \/ (~v.done /\ k \in Keys /\ k[1] =< v.before /\ k[2] = v.kind)
  <2>1. k \in w.seen \cup dropped \/ (k \in Keys /\ k[1] =< w.before /\ k[2] = w.kind)
    BY <1>3, <1>10 DEF IngestInv, StillAhead
  <2>2. CASE k \in w.seen \cup dropped \/ k \in page
    BY <1>10, <2>2
  <2>3. CASE k \notin page /\ k \in Keys /\ k[1] =< w.before /\ k[2] = w.kind
    <3>1. k \in found
      <4>1. k[1] \in Nat
        BY <2>3, IngestTyped, StampTyped
      <4>2. PICK n \in Nat : n = k[1] /\ 0 =< n
        BY <4>1
      <4>3. k \in Ingest!ByType(w.kind, 0, w.before)
        BY <2>3, <4>2 DEF Ingest!ByType, Keys
      <4>4. QED
        BY <1>1, <4>3
    <3>2. ~v.done
      BY <1>5, <1>7, <1>10, <2>3, <3>1
    <3>3. k[1] =< v.before
      BY <1>5, <1>6, <1>7, <1>10, <2>3, <3>1
    <3>4. QED
      BY <1>10, <2>3, <3>2, <3>3
  <2>4. QED
    BY <2>1, <2>2, <2>3
<1>13. StillAhead'
  <2>1. One(reader')
    BY <1>10 DEF One
  <2>2. QED
    BY <1>2, <1>3, <1>10, <1>12, <2>1 DEF StillAhead, One
<1>14. QED
  BY <1>2, <1>10, <1>11, <1>13, ReaderMoves

\* A reader has done.
LEMMA CloseStep == ASSUME IngestInv, LimitInv, Ingest!Close PROVE IngestInv' /\ LimitInv'
<1>1. UNCHANGED <<clock, rows, known, bucket, upload, calls, errors, wrote, lapsed, dropped, acked, passes>> /\ reader' = {}
  BY DEF Ingest!Close
<1>2. StillAhead'
  BY <1>1 DEF StillAhead, One
<1>3. QED
  BY <1>1, <1>2, ReaderMoves

\* Time passes, or nothing.
LEMMA IngestRests ==
    ASSUME IngestInv, LimitInv, clock' \in 0..MaxTime, clock' >= clock,
           UNCHANGED <<rows, known, bucket, upload, calls, errors, reader, wrote, lapsed, dropped, acked, passes>>
    PROVE  IngestInv' /\ LimitInv'
<1>1. Keys' = Keys
  BY DEF Keys, Ingest!Keys
<1>2. Counts'
  <2>1. ASSUME NEW u \in Uploader PROVE Fine(upload[u])'
    <3>1. PICK y : y = upload[u]
      OBVIOUS
    <3>2. Fine(y)'
      BY <1>1, <3>1, RecordOf, FineStays
    <3>3. QED
      BY <3>1, <3>2 DEF Fine
  <2>2. \A u \in Uploader : Held(u)' = Held(u)
    BY DEF Held, Ingest!Held
  <2>3. \A u, v \in Uploader : u # v => HeldApart(upload[u], upload[v])'
    BY DEF IngestInv, Counts, HeldApart
  <2>4. QED
    BY <1>1, <2>1, <2>2, <2>3 DEF IngestInv, Counts
<1>3. clock' \in Nat
  BY PkceAssumption
<1>4. LimitInv'
  BY <1>3, LimiterRests
<1>5. Ingest!TypeOK'
  <2>1. bucket' \in Ingest!Buckets(0..MaxTime + Window)
    BY <1>4, BucketTyped
  <2>2. QED
    BY <1>1, <1>2, <2>1, IngestTyped, IngestTypes
<1>6. Ingest!CountsAddUp' /\ Ingest!AckedStored' /\ StillAhead'
  BY <1>1, AckedStays, AheadStays DEF IngestInv, Ingest!CountsAddUp, Keys
<1>7. QED
  BY <1>2, <1>4, <1>5, <1>6 DEF IngestInv

LEMMA IngestInvStep == IngestInv /\ LimitInv /\ [Ingest!Next]_(Ingest!vars) => IngestInv' /\ LimitInv'
<1> SUFFICES ASSUME IngestInv, LimitInv, [Ingest!Next]_(Ingest!vars) PROVE IngestInv' /\ LimitInv'
  OBVIOUS
<1>1. CASE UNCHANGED Ingest!vars
  <2>1. clock' \in 0..MaxTime /\ clock' >= clock
    BY <1>1, IngestTyped DEF Ingest!vars
  <2>2. QED
    BY <1>1, <2>1, IngestRests DEF Ingest!vars
<1>2. CASE Ingest!Tick
  <2>1. clock' \in 0..MaxTime /\ clock' >= clock
    BY <1>2, IngestTyped, PkceAssumption DEF Ingest!Tick
  <2>2. QED
    BY <1>2, <2>1, IngestRests DEF Ingest!Tick
<1>3. QED
  BY <1>1, <1>2, BeginStep, UpsertStep, InsertStep, CommitStep, RollbackStep, DropStep, OpenStep, TurnStep, CloseStep
     DEF Ingest!Next

-----------------------------------------------------------------------------
(* Presence: its steps                                                     *)

\* Both limiters are one.
LEMMA SameLimiter ==
    /\ \A b, t : Beats!After(b, t) = Ingest!After(b, t) /\ (Beats!Allowed(b, t) <=> Ingest!Allowed(b, t))
    /\ Beats!Buckets(0..MaxTime + Window) = Ingest!Buckets(0..MaxTime + Window)
BY DEF Beats!After, Beats!Allowed, Beats!Refilled, Beats!Loaded, Beats!Buckets,
       Ingest!After, Ingest!Allowed, Ingest!Refilled, Ingest!Loaded, Ingest!Buckets

\* What Opt stands for.
LEMMA OptOne == \A S, x : x \in Beats!Opt(S) <=> x = {} \/ \E y \in S : x = {y}
BY DEF Beats!Opt

LEMMA OptMember == ASSUME NEW S, NEW x \in Beats!Opt(S), NEW y \in x PROVE x = {y} /\ y \in S
<1>1. PICK z \in S : x = {z}
  BY OptOne
<1>2. QED
  BY <1>1

LEMMA BeatsTyped ==
    ASSUME BeatsInv
    PROVE  /\ clock \in 0..MaxTime /\ clock \in Nat /\ MaxTime \in Nat /\ PresenceTtl \in Nat /\ Timeout \in Nat
           /\ beats \in 0..MaxBeats /\ key \in Beats!Opt([seen : 0..MaxTime, till : 0..MaxTime + PresenceTtl])
           /\ stamp \in [Handler -> Beats!Opt(0..MaxTime)] /\ written \in Beats!Opt(0..MaxTime)
           /\ shown \in Beats!Opt([live : BOOLEAN, seen : Beats!Opt(0..MaxTime), at : 0..MaxTime])
BY PkceAssumption, BeatsAssumption DEF BeatsInv, Beats!TypeOK, Beats!Time

\* What is in hand is numbers.
LEMMA BeatsNumbers ==
    ASSUME BeatsInv
    PROVE  /\ \A k \in key : /\ key = {k} /\ k.seen \in 0..MaxTime /\ k.till \in 0..MaxTime + PresenceTtl
                             /\ k \in [seen : 0..MaxTime, till : 0..MaxTime + PresenceTtl]
           /\ \A w \in written : written = {w} /\ w \in 0..MaxTime
           /\ \A b \in Handler : \A t \in stamp[b] : stamp[b] = {t} /\ t \in 0..MaxTime
           /\ \A s \in shown : shown = {s} /\ s \in [live : BOOLEAN, seen : Beats!Opt(0..MaxTime), at : 0..MaxTime]
<1>1. \A k \in key : key = {k} /\ k \in [seen : 0..MaxTime, till : 0..MaxTime + PresenceTtl]
  <2>1. PICK S : S = [seen : 0..MaxTime, till : 0..MaxTime + PresenceTtl]
    OBVIOUS
  <2>2. key \in Beats!Opt(S)
    BY <2>1, BeatsTyped
  <2>3. \A k \in key : key = {k} /\ k \in S
    BY <2>2, OptMember
  <2>4. QED
    BY <2>1, <2>3
<1>2. ASSUME NEW b \in Handler PROVE \A t \in stamp[b] : stamp[b] = {t} /\ t \in 0..MaxTime
  <2>1. stamp[b] \in Beats!Opt(0..MaxTime)
    BY BeatsTyped
  <2>2. QED
    BY <2>1, OptMember
<1>3. \A w \in written : written = {w} /\ w \in 0..MaxTime
  BY BeatsTyped, OptMember
<1>4. \A s \in shown : shown = {s} /\ s \in [live : BOOLEAN, seen : Beats!Opt(0..MaxTime), at : 0..MaxTime]
  <2>1. PICK S : S = [live : BOOLEAN, seen : Beats!Opt(0..MaxTime), at : 0..MaxTime]
    OBVIOUS
  <2>2. shown \in Beats!Opt(S)
    BY <2>1, BeatsTyped
  <2>3. \A s \in shown : shown = {s} /\ s \in S
    BY <2>2, OptMember
  <2>4. QED
    BY <2>1, <2>3
<1>5. QED
  BY <1>1, <1>2, <1>3, <1>4

\* The bucket's type is the limiter's matter.
LEMMA BeatsTypes ==
    ASSUME LimitInv', clock' \in 0..MaxTime, beats' \in 0..MaxBeats,
           key' \in Beats!Opt([seen : 0..MaxTime, till : 0..MaxTime + PresenceTtl]),
           stamp' \in [Handler -> Beats!Opt(0..MaxTime)], written' \in Beats!Opt(0..MaxTime),
           shown' \in Beats!Opt([live : BOOLEAN, seen : Beats!Opt(0..MaxTime), at : 0..MaxTime])
    PROVE  Beats!TypeOK'
BY BucketTyped, SameLimiter DEF Beats!TypeOK, Beats!Time

LEMMA BeatsInitInv == Beats!Init => BeatsInv
<1> SUFFICES ASSUME Beats!Init PROVE BeatsInv
  OBVIOUS
<1>1. /\ clock = 0 /\ key = {} /\ bucket = {} /\ stamp = [b \in Handler |-> {}] /\ beats = 0
      /\ written = {} /\ shown = {}
  BY DEF Beats!Init
<1>2. 0 \in 0..MaxTime /\ 0 \in 0..MaxBeats
  BY PkceAssumption, BeatsAssumption
<1>3. Beats!TypeOK
  BY <1>1, <1>2 DEF Beats!TypeOK, Beats!Time, Beats!Opt, Beats!Buckets
<1>4. KeyTells /\ Beats!PresenceTells
  BY <1>1 DEF KeyTells, One, Beats!PresenceTells
<1>5. QED
  BY <1>3, <1>4 DEF BeatsInv

\* A heartbeat past the limiter has its time, or was turned away.
LEMMA StampedStep ==
    ASSUME BeatsInv, LimitInv, NEW h \in Handler, Beats!Stamped(h)
    PROVE  BeatsInv' /\ LimitInv'
<1>1. /\ UNCHANGED <<clock, key, written, shown>> /\ beats' \in 0..MaxBeats /\ stamp[h] = {}
      /\ stamp' \in {stamp, [stamp EXCEPT ![h] = {clock}]}
      /\ bucket' = Ingest!After(bucket, clock)
      /\ passes' = IF Ingest!Allowed(bucket, clock) THEN Append(passes, clock) ELSE passes
  <2>1. beats' \in 0..MaxBeats
    BY BeatsTyped, BeatsAssumption DEF Beats!Stamped
  <2>2. QED
    BY <2>1, SameLimiter DEF Beats!Stamped
<1>2. LimitInv'
  BY <1>1, LimiterStep
<1>3. stamp' \in [Handler -> Beats!Opt(0..MaxTime)] /\ \A b \in Handler : stamp'[b] \in {stamp[b], {clock}}
  <2>1. {clock} \in Beats!Opt(0..MaxTime)
    BY BeatsTyped, OptOne
  <2>2. QED
    BY <1>1, <2>1, BeatsTyped
<1>4. Beats!TypeOK'
  BY <1>1, <1>2, <1>3, BeatsTyped, BeatsTypes
<1>5. KeyTells'
  <2>1. clock =< clock /\ clock =< clock + Timeout
    BY BeatsTyped
  <2>2. \A b \in Handler : \A t \in stamp'[b] : t =< clock' /\ clock' =< t + Timeout
    BY <1>1, <1>3, <2>1 DEF BeatsInv, KeyTells
  <2>3. QED
    BY <1>1, <2>2 DEF BeatsInv, KeyTells, One
<1>6. Beats!PresenceTells'
  BY <1>1 DEF BeatsInv, Beats!PresenceTells
<1>7. QED
  BY <1>2, <1>4, <1>5, <1>6 DEF BeatsInv

\* A record written, with the time its heartbeat was stamped.
LEMMA SetStep ==
    ASSUME BeatsInv, LimitInv, NEW h \in Handler, Beats!Set(h)
    PROVE  BeatsInv' /\ LimitInv'
<1>1. PICK t \in stamp[h] : key' = {[seen |-> t, till |-> clock + PresenceTtl]}
  BY DEF Beats!Set
<1>2. /\ UNCHANGED <<clock, bucket, beats, shown, passes>> /\ written' = {clock}
      /\ stamp' = [stamp EXCEPT ![h] = {}]
  BY DEF Beats!Set
<1>3. PICK k : k = [seen |-> t, till |-> clock + PresenceTtl]
  OBVIOUS
<1>4. key' = {k} /\ k.seen = t /\ k.till = clock + PresenceTtl
  BY <1>1, <1>3
<1>5. /\ clock \in 0..MaxTime /\ clock \in Nat /\ t \in 0..MaxTime /\ t \in Nat /\ clock =< t + Timeout
      /\ PresenceTtl \in Nat /\ Timeout \in Nat /\ MaxTime \in Nat
  BY <1>1, BeatsTyped, BeatsNumbers DEF BeatsInv, KeyTells
<1>6. clock + PresenceTtl \in 0..MaxTime + PresenceTtl
  BY <1>5
<1>7. LimitInv'
  BY <1>2, <1>5, LimiterRests
<1>8. \A b \in Handler : stamp'[b] \subseteq stamp[b]
  BY <1>2, BeatsTyped
<1>9. Beats!TypeOK'
  <2>1. key' \in Beats!Opt([seen : 0..MaxTime, till : 0..MaxTime + PresenceTtl])
    <3>1. k \in [seen : 0..MaxTime, till : 0..MaxTime + PresenceTtl]
      BY <1>3, <1>5, <1>6
    <3>2. QED
      BY <1>4, <3>1, OptOne
  <2>2. written' \in Beats!Opt(0..MaxTime) /\ {} \in Beats!Opt(0..MaxTime)
    BY <1>2, <1>5, OptOne
  <2>3. stamp' \in [Handler -> Beats!Opt(0..MaxTime)]
    BY <1>2, <2>2, BeatsTyped
  <2>4. QED
    BY <1>2, <1>7, <2>1, <2>2, <2>3, BeatsTyped, BeatsTypes
<1>10. KeyTells'
  <2>1. clock + PresenceTtl =< t + PresenceTtl + Timeout /\ clock =< clock + PresenceTtl
    BY <1>5
  <2>2. \A b \in Handler : \A s \in stamp'[b] : s =< clock' /\ clock' =< s + Timeout
    BY <1>2, <1>8 DEF BeatsInv, KeyTells
  <2>3. \A s \in shown' : s.at =< clock'
    BY <1>2 DEF BeatsInv, KeyTells
  <2>4. \E x \in key' : key' = {x}
    BY <1>4
  <2>5. \A x \in key' : /\ x.till =< x.seen + PresenceTtl + Timeout /\ clock' =< x.till
                        /\ \E w \in written' : x.till = w + PresenceTtl
    BY <1>2, <1>4, <2>1
  <2>6. \A w \in written' : w =< clock' /\ (clock' =< w + PresenceTtl => key' # {})
    BY <1>2, <1>4, <1>5
  <2>7. QED
    BY <1>2, <2>2, <2>3, <2>4, <2>5, <2>6 DEF KeyTells, One
<1>11. Beats!PresenceTells'
  <2> SUFFICES ASSUME NEW s \in shown', s.at = clock'
               PROVE  /\ s.live => /\ \A x \in s.seen : clock' =< x + PresenceTtl + Timeout
                                   /\ \E w \in written' : clock' =< w + PresenceTtl
                      /\ (\E w \in written' : w < clock' /\ clock' =< w + PresenceTtl) => s.live
    BY DEF Beats!PresenceTells
  <2>1. s \in shown /\ s.at = clock
    BY <1>2
  <2>2. s.live => \A x \in s.seen : clock' =< x + PresenceTtl + Timeout
    BY <1>2, <2>1 DEF BeatsInv, Beats!PresenceTells
  <2>3. \E w \in written' : clock' =< w + PresenceTtl
    BY <1>2, <1>5
  <2>4. ~\E w \in written' : w < clock'
    BY <1>2, <1>5
  <2>5. QED
    BY <2>2, <2>3, <2>4
<1>12. QED
  BY <1>7, <1>9, <1>10, <1>11 DEF BeatsInv

\* A write that fails.
LEMMA SetFailsStep ==
    ASSUME BeatsInv, LimitInv, NEW h \in Handler, Beats!SetFails(h)
    PROVE  BeatsInv' /\ LimitInv'
<1>1. UNCHANGED <<clock, key, bucket, beats, written, shown, passes>> /\ stamp' = [stamp EXCEPT ![h] = {}]
  BY DEF Beats!SetFails
<1>2. LimitInv'
  BY <1>1, BeatsTyped, LimiterRests
<1>3. \A b \in Handler : stamp'[b] \subseteq stamp[b]
  BY <1>1, BeatsTyped
<1>4. Beats!TypeOK'
  <2>1. {} \in Beats!Opt(0..MaxTime)
    BY OptOne
  <2>2. stamp' \in [Handler -> Beats!Opt(0..MaxTime)]
    BY <1>1, <2>1, BeatsTyped
  <2>3. QED
    BY <1>1, <1>2, <2>2, BeatsTyped, BeatsTypes
<1>5. KeyTells'
  BY <1>1, <1>3 DEF BeatsInv, KeyTells, One
<1>6. Beats!PresenceTells'
  BY <1>1 DEF BeatsInv, Beats!PresenceTells
<1>7. QED
  BY <1>2, <1>4, <1>5, <1>6 DEF BeatsInv

\* The page's look at the key.
LEMMA SeeStep ==
    ASSUME BeatsInv, LimitInv, Beats!See
    PROVE  BeatsInv' /\ LimitInv'
<1>1. /\ UNCHANGED <<clock, key, bucket, stamp, beats, written, passes>>
      /\ shown' = {[live |-> key # {}, seen |-> {k.seen : k \in key}, at |-> clock]}
  BY DEF Beats!See
<1>2. LimitInv'
  BY <1>1, BeatsTyped, LimiterRests
<1>3. {k.seen : k \in key} \in Beats!Opt(0..MaxTime) /\ \A x \in {k.seen : k \in key} : x \in Nat
  <2>1. CASE key = {}
    BY <2>1, OptOne
  <2>2. ASSUME NEW k \in key PROVE {j.seen : j \in key} \in Beats!Opt(0..MaxTime)
    <3>1. {j.seen : j \in key} = {k.seen} /\ k.seen \in 0..MaxTime
      BY BeatsNumbers
    <3>2. QED
      BY <3>1, OptOne
  <2>3. \A k \in key : k.seen \in Nat
    BY BeatsNumbers, BeatsTyped
  <2>4. QED
    BY <2>1, <2>2, <2>3
<1>4. Beats!TypeOK'
  <2>1. [live |-> key # {}, seen |-> {k.seen : k \in key}, at |-> clock] \in [live : BOOLEAN, seen : Beats!Opt(0..MaxTime), at : 0..MaxTime]
    BY <1>3, BeatsTyped
  <2>2. shown' \in Beats!Opt([live : BOOLEAN, seen : Beats!Opt(0..MaxTime), at : 0..MaxTime])
    BY <1>1, <2>1, OptOne
  <2>3. QED
    BY <1>1, <1>2, <2>2, BeatsTyped, BeatsTypes
<1>5. KeyTells'
  <2>1. \A s \in shown' : s.at =< clock'
    BY <1>1, BeatsTyped
  <2>2. QED
    BY <1>1, <2>1 DEF BeatsInv, KeyTells, One
<1>6. Beats!PresenceTells'
  <2> SUFFICES ASSUME NEW s \in shown', s.at = clock'
               PROVE  /\ s.live => /\ \A x \in s.seen : clock' =< x + PresenceTtl + Timeout
                                   /\ \E w \in written' : clock' =< w + PresenceTtl
                      /\ (\E w \in written' : w < clock' /\ clock' =< w + PresenceTtl) => s.live
    BY DEF Beats!PresenceTells
  <2>1. (s.live <=> key # {}) /\ s.seen = {k.seen : k \in key}
    <3>1. s = [live |-> key # {}, seen |-> {k.seen : k \in key}, at |-> clock]
      BY <1>1
    <3>2. CASE key = {}
      BY <3>1, <3>2
    <3>3. CASE key # {}
      BY <3>1, <3>3
    <3>4. QED
      BY <3>2, <3>3
  <2>2. ASSUME NEW k \in key
        PROVE  clock =< k.seen + PresenceTtl + Timeout /\ \E w \in written : clock =< w + PresenceTtl
    <3>1. PICK w \in written : k.till =< k.seen + PresenceTtl + Timeout /\ clock =< k.till /\ k.till = w + PresenceTtl
      BY DEF BeatsInv, KeyTells
    <3>2. k.seen \in Nat /\ k.till \in Nat /\ w \in Nat
      BY BeatsNumbers, BeatsTyped
    <3>3. QED
      BY <3>1, <3>2, BeatsTyped
  <2>3. ASSUME s.live
        PROVE  (\A x \in s.seen : clock' =< x + PresenceTtl + Timeout) /\ \E w \in written' : clock' =< w + PresenceTtl
    BY <1>1, <2>1, <2>2, <2>3
  <2>4. ASSUME NEW w \in written', clock' =< w + PresenceTtl PROVE s.live
    BY <1>1, <2>1, <2>4 DEF BeatsInv, KeyTells
  <2>5. QED
    BY <2>3, <2>4
<1>7. QED
  BY <1>2, <1>4, <1>5, <1>6 DEF BeatsInv

\* Time passes: a key that has run out goes, and an answer given is not one of
\* now.
LEMMA BeatsTickStep ==
    ASSUME BeatsInv, LimitInv, Beats!Tick
    PROVE  BeatsInv' /\ LimitInv'
<1>1. /\ UNCHANGED <<bucket, stamp, beats, written, shown, passes>> /\ clock' = clock + 1 /\ clock < MaxTime
      /\ key' = {k \in key : clock < k.till} /\ \A b \in Handler : \A t \in stamp[b] : clock < t + Timeout
  BY DEF Beats!Tick
<1>2. /\ clock \in Nat /\ clock' \in 0..MaxTime /\ clock' \in Nat /\ clock' >= clock
      /\ PresenceTtl \in Nat /\ Timeout \in Nat
  BY <1>1, BeatsTyped
<1>3. LimitInv'
  BY <1>1, <1>2, LimiterRests
<1>4. key' = key \/ key' = {}
  BY <1>1, BeatsNumbers
<1>5. Beats!TypeOK'
  <2>1. key' \in Beats!Opt([seen : 0..MaxTime, till : 0..MaxTime + PresenceTtl])
    BY <1>4, BeatsTyped, OptOne
  <2>2. QED
    BY <1>1, <1>2, <1>3, <2>1, BeatsTyped, BeatsTypes
<1>6. KeyTells'
  <2>1. ASSUME NEW k \in key'
        PROVE  /\ k \in key /\ key' = {k} /\ k.till =< k.seen + PresenceTtl + Timeout /\ clock' =< k.till
               /\ \E w \in written' : k.till = w + PresenceTtl
    <3>1. k \in key /\ clock < k.till /\ k.till \in Nat
      BY <1>1, BeatsNumbers, BeatsTyped
    <3>2. clock' =< k.till
      BY <1>1, <1>2, <3>1
    <3>3. key' = {k}
      BY <1>4, <3>1, BeatsNumbers
    <3>4. QED
      BY <1>1, <3>1, <3>2, <3>3 DEF BeatsInv, KeyTells
  <2>2. ASSUME NEW w \in written' PROVE w =< clock' /\ (clock' =< w + PresenceTtl => key' # {})
    <3>1. w \in written /\ w \in Nat /\ w =< clock
      BY <1>1, BeatsNumbers, BeatsTyped DEF BeatsInv, KeyTells
    <3>2. ASSUME clock' =< w + PresenceTtl PROVE key' # {}
      <4>1. clock < w + PresenceTtl /\ clock =< w + PresenceTtl
        BY <1>1, <1>2, <3>1, <3>2
      <4>2. PICK k \in key : TRUE
        BY <3>1, <4>1 DEF BeatsInv, KeyTells
      <4>3. PICK v \in written : k.till = v + PresenceTtl
        BY DEF BeatsInv, KeyTells
      <4>4. v = w
        BY <3>1, <4>3, BeatsNumbers
      <4>5. QED
        BY <1>1, <4>1, <4>2, <4>3, <4>4
    <3>3. w =< clock'
      BY <1>1, <1>2, <3>1
    <3>4. QED
      BY <3>2, <3>3
  <2>3. ASSUME NEW b \in Handler, NEW t \in stamp'[b] PROVE t =< clock' /\ clock' =< t + Timeout
    <3>1. t \in stamp[b] /\ t \in Nat /\ t =< clock /\ clock < t + Timeout
      BY <1>1, BeatsNumbers, BeatsTyped DEF BeatsInv, KeyTells
    <3>2. QED
      BY <1>1, <1>2, <3>1
  <2>4. ASSUME NEW s \in shown' PROVE s.at =< clock'
    <3>1. s \in shown /\ s.at \in Nat /\ s.at =< clock
      BY <1>1, BeatsNumbers, BeatsTyped DEF BeatsInv, KeyTells
    <3>2. QED
      BY <1>1, <1>2, <3>1
  <2>5. key' = {} \/ \E k \in key' : key' = {k}
    BY <2>1
  <2>6. One(written')
    BY <1>1 DEF BeatsInv, KeyTells, One
  <2>7. QED
    BY <2>1, <2>2, <2>3, <2>4, <2>5, <2>6 DEF KeyTells, One
<1>7. Beats!PresenceTells'
  <2>1. ASSUME NEW s \in shown' PROVE s.at # clock'
    <3>1. s \in shown /\ s.at \in Nat /\ s.at =< clock
      BY <1>1, BeatsNumbers, BeatsTyped DEF BeatsInv, KeyTells
    <3>2. QED
      BY <1>1, <1>2, <3>1
  <2>2. QED
    BY <2>1 DEF Beats!PresenceTells
<1>8. QED
  BY <1>3, <1>5, <1>6, <1>7 DEF BeatsInv

LEMMA BeatsInvStep == BeatsInv /\ LimitInv /\ [Beats!Next]_(Beats!vars) => BeatsInv' /\ LimitInv'
<1> SUFFICES ASSUME BeatsInv, LimitInv, [Beats!Next]_(Beats!vars) PROVE BeatsInv' /\ LimitInv'
  OBVIOUS
<1>1. CASE UNCHANGED Beats!vars
  <2>1. UNCHANGED <<clock, key, bucket, stamp, beats, written, shown, passes>>
    BY <1>1 DEF Beats!vars
  <2>2. LimitInv'
    BY <2>1, BeatsTyped, LimiterRests
  <2>3. Beats!TypeOK'
    BY <2>1, <2>2, BeatsTyped, BeatsTypes
  <2>4. KeyTells' /\ Beats!PresenceTells'
    BY <2>1 DEF BeatsInv, KeyTells, One, Beats!PresenceTells
  <2>5. QED
    BY <2>2, <2>3, <2>4 DEF BeatsInv
<1>2. QED
  BY <1>1, StampedStep, SetStep, SetFailsStep, SeeStep, BeatsTickStep DEF Beats!Next

-----------------------------------------------------------------------------
(* Proofs: what the counter of pending logins tells, and by how much its cap *)
(* can be passed, for any number of goroutines and states.                   *)

At(pc) == {h \in Handler : initiate[h].pc = pc}

\* No two goroutines hold one state.
Apart == \A g, h \in Handler : g # h => initiate[g].state \cap initiate[h].state = {}

\* The counter and the logins on their way to raise it, without what is still
\* to be subtracted, pass the cap by less than there are goroutines.
Bounded == count + Storing("put") + Storing("add") - owed =< MaxPend - 1 + Cardinality(Handler)

Inv == TypeOK /\ Apart /\ CountTells /\ Bounded

-----------------------------------------------------------------------------
(* Counting                                                                *)

\* The sets counted are finite, and no goroutine is in two phases.
LEMMA Counted ==
    ASSUME TypeOK
    PROVE  /\ IsFiniteSet(Pending) /\ Cardinality(Pending) \in Nat
           /\ \A pc : IsFiniteSet(At(pc)) /\ Storing(pc) \in Nat /\ Storing(pc) = Cardinality(At(pc))
           /\ Cardinality(Handler) \in Nat
<1>1. IsFiniteSet(Pending)
  BY PkceAssumption, FS_Subset DEF TypeOK
<1>2. \A pc : IsFiniteSet(At(pc))
  <2> TAKE pc
  <2>1. At(pc) \in SUBSET Handler
    BY DEF At
  <2>2. QED
    BY <2>1, PkceAssumption, FS_Subset
<1>3. \A pc : Storing(pc) = Cardinality(At(pc))
  BY DEF Storing, At
<1>4. QED
  BY <1>1, <1>2, <1>3, PkceAssumption, FS_CardinalityType

\* While a goroutine is idle, the others are one less than all.
LEMMA IdleLeavesRoom ==
    ASSUME TypeOK, NEW h \in At("idle")
    PROVE  Storing("put") + Storing("add") =< Cardinality(Handler) - 1
<1>1. /\ IsFiniteSet(At("put")) /\ IsFiniteSet(At("add"))
      /\ Storing("put") = Cardinality(At("put")) /\ Storing("add") = Cardinality(At("add"))
      /\ Storing("put") \in Nat /\ Storing("add") \in Nat /\ Cardinality(Handler) \in Nat
  BY Counted
<1>2. At("put") \cap At("add") = {}
  BY DEF At
<1>3. Cardinality(At("put") \cup At("add")) = Storing("put") + Storing("add")
  <2>1. Cardinality(At("put") \cap At("add")) = 0
    BY <1>2, FS_EmptySet
  <2>2. Cardinality(At("put") \cup At("add"))
           = Cardinality(At("put")) + Cardinality(At("add")) - Cardinality(At("put") \cap At("add"))
    BY <1>1, FS_Union
  <2>3. QED
    BY <1>1, <2>1, <2>2
<1>4. At("put") \cup At("add") \in SUBSET (Handler \ {h})
  BY DEF At
<1>5. IsFiniteSet(Handler \ {h}) /\ Cardinality(Handler \ {h}) = Cardinality(Handler) - 1
  BY PkceAssumption, FS_RemoveElement DEF At
<1>6. Cardinality(At("put") \cup At("add")) <= Cardinality(Handler \ {h})
  BY <1>4, <1>5, FS_Subset
<1>7. QED
  BY <1>1, <1>3, <1>5, <1>6

\* A goroutine that goes from one phase to another changes two counts by one.
LEMMA PhaseMoves ==
    ASSUME TypeOK, NEW h \in Handler, NEW old, NEW pc, initiate[h].pc = old, old # pc,
           initiate'[h].pc = pc, \A g \in Handler \ {h} : initiate'[g].pc = initiate[g].pc
    PROVE  /\ Storing(pc)' = Storing(pc) + 1
           /\ Storing(old)' = Storing(old) - 1
           /\ \A q \in {"idle", "put", "add"} \ {pc, old} : Storing(q)' = Storing(q)
<1> DEFINE Now(q) == {g \in Handler : initiate'[g].pc = q}
<1>1. \A q : IsFiniteSet(At(q)) /\ Storing(q) \in Nat /\ Storing(q) = Cardinality(At(q))
  BY Counted
<1>2. Cardinality(Now(pc)) = Cardinality(At(pc)) + 1
  <2>1. Now(pc) = At(pc) \cup {h} /\ h \notin At(pc)
    BY DEF At
  <2>2. QED
    BY <1>1, <2>1, FS_AddElement
<1>3. Cardinality(Now(old)) = Cardinality(At(old)) - 1
  <2>1. Now(old) = At(old) \ {h} /\ h \in At(old)
    BY DEF At
  <2>2. QED
    BY ZenonT(30), <1>1, <2>1, FS_RemoveElement
<1>4. \A q \in {"idle", "put", "add"} \ {pc, old} : Now(q) = At(q)
  BY DEF At
<1>5. \A q : Storing(q)' = Cardinality(Now(q))
  BY DEF Storing
<1> HIDE DEF Now
<1>6. QED
  BY <1>1, <1>2, <1>3, <1>4, <1>5

\* Taking an entry out makes one less, or none if it was gone.
LEMMA RemoveOne ==
    ASSUME TypeOK, NEW s \in State, items' = Without(s)
    PROVE  /\ Pending' = Pending \ {s}
           /\ \A t \in Pending' : items'[t] = items[t]
           /\ Cardinality(Pending') = IF s \in Pending THEN Cardinality(Pending) - 1 ELSE Cardinality(Pending)
<1>1. Pending' = Pending \ {s} /\ \A t \in Pending' : items'[t] = items[t]
  BY DEF Without, Pending
<1>2. QED
  BY <1>1, Counted, FS_RemoveElement

-----------------------------------------------------------------------------
(* The invariant                                                           *)

LEMMA InitInv == Init => Inv
<1> SUFFICES ASSUME Init PROVE Inv
  OBVIOUS
<1>1. Pending = {} /\ Cardinality(Pending) = 0
  BY FS_EmptySet DEF Init, Pending
<1>2. TypeOK
  BY <1>1, PkceAssumption DEF Init, TypeOK, Sweep
<1>3. Storing("put") = 0 /\ Storing("add") = 0
  <2>1. At("put") = {} /\ At("add") = {}
    BY DEF Init, At
  <2>2. QED
    BY <1>2, <2>1, Counted, FS_EmptySet
<1>4. Cardinality(Handler) \in Nat
  BY <1>2, Counted
<1>5. CountTells /\ Bounded
  BY <1>1, <1>3, <1>4, PkceAssumption DEF Init, CountTells, Bounded
<1>6. QED
  BY <1>2, <1>5 DEF Init, Inv, Apart

\* Steps that leave the logins under way alone keep the two phases' counts.
LEMMA SameStoring == ASSUME UNCHANGED initiate PROVE Storing("put")' = Storing("put") /\ Storing("add")' = Storing("add")
BY DEF Storing

\* A login reads the counter and takes a state nobody has.
LEMMA CheckStep == ASSUME Inv, NEW h \in Handler, StoreCheck(h) PROVE Inv'
<1>1. PICK s \in Fresh : initiate' = [initiate EXCEPT ![h] = [pc |-> "put", state |-> {s}]]
  BY DEF StoreCheck
<1>2. UNCHANGED <<clock, items, count, owed, sweep, used, doubles>> /\ initiate[h].pc = "idle" /\ count < MaxPend
  BY DEF StoreCheck, HasRoom
<1>3. s \in State \ (Pending \cup used) /\ \A g \in Handler : s \notin initiate[g].state
  BY DEF Fresh
<1>4. \A g \in Handler : initiate'[g] = IF g = h THEN [pc |-> "put", state |-> {s}] ELSE initiate[g]
  BY <1>1 DEF Inv, TypeOK
<1>5. initiate' \in [Handler -> [pc : {"idle", "put", "add"}, state : SUBSET State]]
  BY <1>1, <1>3 DEF Inv, TypeOK
<1>6. TypeOK'
  BY <1>2, <1>3, <1>4, <1>5 DEF Inv, TypeOK, Pending
<1>7. Apart'
  BY <1>3, <1>4 DEF Inv, Apart
<1>8. Storing("put")' = Storing("put") + 1 /\ Storing("add")' = Storing("add")
  BY <1>2, <1>4, PhaseMoves DEF Inv
<1>9. Storing("put") + Storing("add") =< Cardinality(Handler) - 1
  BY <1>2, IdleLeavesRoom DEF Inv, At
<1>10. Storing("put") \in Nat /\ Storing("add") \in Nat /\ Cardinality(Handler) \in Nat /\ count \in Int /\ owed \in Nat
  BY Counted DEF Inv, TypeOK
<1>11. Bounded'
  BY <1>2, <1>8, <1>9, <1>10, PkceAssumption DEF Bounded
<1>12. CountTells'
  BY <1>2, <1>8 DEF Inv, CountTells, Pending
<1>13. QED
  BY <1>6, <1>7, <1>11, <1>12 DEF Inv

\* The entry is stored, which nobody else has stored.
LEMMA PutStep == ASSUME Inv, NEW h \in Handler, StorePut(h) PROVE Inv'
<1>1. PICK s \in initiate[h].state :
         items' = [t \in Pending \cup {s} |-> IF t = s THEN clock + Ttl ELSE items[t]]
  BY DEF StorePut
<1>2. UNCHANGED <<clock, count, owed, sweep, used, doubles>> /\ initiate[h].pc = "put"
      /\ initiate' = [initiate EXCEPT ![h].pc = "add"]
  BY DEF StorePut
<1>3. \A g \in Handler : initiate'[g].pc = (IF g = h THEN "add" ELSE initiate[g].pc)
                         /\ initiate'[g].state = initiate[g].state
  BY <1>2 DEF Inv, TypeOK
<1>4. initiate' \in [Handler -> [pc : {"idle", "put", "add"}, state : SUBSET State]]
  BY <1>2 DEF Inv, TypeOK
<1>5. s \in State /\ s \notin Pending /\ s \notin used
  BY <1>2 DEF Inv, TypeOK
<1>6. Pending' = Pending \cup {s} /\ \A t \in Pending' : items'[t] = IF t = s THEN clock + Ttl ELSE items[t]
  BY <1>1 DEF Pending
<1>7. clock + Ttl \in 0..MaxTime + Ttl
  BY PkceAssumption DEF Inv, TypeOK
<1>8. \A g \in Handler : initiate'[g].pc = "put" => initiate'[g].state \cap (Pending' \cup used) = {}
  BY <1>1, <1>3, <1>6 DEF Inv, TypeOK, Apart
<1>9. TypeOK'
  BY <1>2, <1>4, <1>5, <1>6, <1>7, <1>8 DEF Inv, TypeOK
<1>10. Apart'
  BY <1>3 DEF Inv, Apart
<1>11. Storing("add")' = Storing("add") + 1 /\ Storing("put")' = Storing("put") - 1
  BY <1>2, <1>3, PhaseMoves DEF Inv
<1>12. Cardinality(Pending') = Cardinality(Pending) + 1
  BY <1>5, <1>6, Counted, FS_AddElement DEF Inv
<1>13. Storing("put") \in Nat /\ Storing("add") \in Nat /\ Cardinality(Handler) \in Nat /\ count \in Int /\ owed \in Nat
       /\ doubles \in Nat /\ Cardinality(Pending) \in Nat
  BY Counted DEF Inv, TypeOK
<1>14. CountTells' /\ Bounded'
  BY <1>2, <1>11, <1>12, <1>13, PkceAssumption DEF Inv, CountTells, Bounded
<1>15. QED
  BY <1>9, <1>10, <1>14 DEF Inv

\* The counter is raised for an entry stored.
LEMMA AddStep == ASSUME Inv, NEW h \in Handler, StoreAdd(h) PROVE Inv'
<1>1. /\ initiate[h].pc = "add" /\ count' = count + 1 /\ UNCHANGED <<clock, items, owed, sweep, used, doubles>>
      /\ initiate' = [initiate EXCEPT ![h] = [pc |-> "idle", state |-> {}]]
  BY DEF StoreAdd
<1>2. \A g \in Handler : initiate'[g] = IF g = h THEN [pc |-> "idle", state |-> {}] ELSE initiate[g]
  BY <1>1 DEF Inv, TypeOK
<1>3. initiate' \in [Handler -> [pc : {"idle", "put", "add"}, state : SUBSET State]]
  BY <1>1 DEF Inv, TypeOK
<1>4. TypeOK' /\ Apart'
  BY <1>1, <1>2, <1>3 DEF Inv, TypeOK, Apart, Pending
<1>5. Storing("add")' = Storing("add") - 1 /\ Storing("put")' = Storing("put")
  BY <1>1, <1>2, PhaseMoves DEF Inv
<1>6. Storing("put") \in Nat /\ Storing("add") \in Nat /\ Cardinality(Handler) \in Nat /\ count \in Int /\ owed \in Nat
      /\ doubles \in Nat /\ Cardinality(Pending) \in Nat
  BY Counted DEF Inv, TypeOK
<1>7. CountTells' /\ Bounded'
  BY <1>1, <1>5, <1>6, PkceAssumption DEF Inv, CountTells, Bounded, Pending
<1>8. QED
  BY <1>4, <1>7 DEF Inv

\* A callback, or the sweep, takes an entry out and owes a subtraction; the
\* sweep may find it gone.
LEMMA RemoveStep ==
    ASSUME Inv, NEW s \in State, items' = Without(s), owed' = owed + 1,
           UNCHANGED <<clock, count, initiate>>, sweep' \in Sweep, sweep'.since = {} => sweep'.at = {},
           used' \in {used, used \cup {s}}, doubles' = IF s \in Pending THEN doubles ELSE doubles + 1,
           s \in Pending \/ used' = used
    PROVE  Inv'
<1>1. /\ Pending' = Pending \ {s} /\ \A t \in Pending' : items'[t] = items[t]
      /\ Cardinality(Pending') = IF s \in Pending THEN Cardinality(Pending) - 1 ELSE Cardinality(Pending)
  BY RemoveOne DEF Inv
<1>2. TypeOK' /\ Apart'
  BY <1>1 DEF Inv, TypeOK, Apart
<1>3. Storing("put")' = Storing("put") /\ Storing("add")' = Storing("add")
  BY SameStoring
<1>4. Storing("put") \in Nat /\ Storing("add") \in Nat /\ Cardinality(Handler) \in Nat /\ count \in Int /\ owed \in Nat
      /\ doubles \in Nat /\ Cardinality(Pending) \in Nat
  BY Counted DEF Inv, TypeOK
<1>5. CountTells' /\ Bounded'
  BY <1>1, <1>3, <1>4, PkceAssumption DEF Inv, CountTells, Bounded
<1>6. QED
  BY <1>2, <1>5 DEF Inv

LEMMA ConsumeStep == ASSUME Inv, NEW s \in State, Consume(s) PROVE Inv'
<1>1. s \in Pending /\ items' = Without(s) /\ owed' = owed + 1 /\ UNCHANGED <<clock, count, initiate, sweep, doubles>>
  BY DEF Consume
<1>2. used' \in {used, used \cup {s}}
  BY DEF Consume
<1>3. QED
  BY <1>1, <1>2, RemoveStep DEF Inv, TypeOK

LEMMA SweepDeleteStep == ASSUME Inv, SweepDelete PROVE Inv'
<1>1. PICK s \in sweep.at : items' = Without(s) /\ doubles' = IF s \in Pending THEN doubles ELSE doubles + 1
  BY DEF SweepDelete
<1>2. s \in State /\ owed' = owed + 1 /\ UNCHANGED <<clock, count, initiate, used>>
  BY DEF SweepDelete, Inv, TypeOK, Sweep
<1>3. sweep' \in Sweep /\ sweep'.at = {}
  BY DEF SweepDelete, Inv, TypeOK, Sweep
<1>4. QED
  BY <1>1, <1>2, <1>3, RemoveStep

\* What was owed is subtracted.
LEMMA SubtractStep == ASSUME Inv, Subtract PROVE Inv'
<1>1. owed > 0 /\ owed' = owed - 1 /\ count' = count - 1 /\ UNCHANGED <<clock, items, initiate, sweep, used, doubles>>
  BY DEF Subtract
<1>2. TypeOK' /\ Apart'
  BY <1>1 DEF Inv, TypeOK, Apart, Pending
<1>3. Storing("put")' = Storing("put") /\ Storing("add")' = Storing("add")
  BY <1>1, SameStoring
<1>4. Storing("put") \in Nat /\ Storing("add") \in Nat /\ Cardinality(Handler) \in Nat /\ count \in Int /\ owed \in Nat
      /\ doubles \in Nat /\ Cardinality(Pending) \in Nat
  BY Counted DEF Inv, TypeOK
<1>5. CountTells' /\ Bounded'
  BY <1>1, <1>3, <1>4, PkceAssumption DEF Inv, CountTells, Bounded, Pending
<1>6. QED
  BY <1>2, <1>5 DEF Inv

\* Steps that count nothing.
LEMMA QuietStep ==
    ASSUME Inv, UNCHANGED <<items, count, initiate, owed, used, doubles>>, clock' \in 0..MaxTime,
           sweep' \in Sweep, sweep'.since = {} => sweep'.at = {}
    PROVE  Inv'
<1>1. TypeOK' /\ Apart'
  BY DEF Inv, TypeOK, Apart, Pending
<1>2. CountTells' /\ Bounded'
  BY SameStoring DEF Inv, CountTells, Bounded, Pending
<1>3. QED
  BY <1>1, <1>2 DEF Inv

LEMMA InvStep == Inv /\ [Next]_vars => Inv'
<1> SUFFICES ASSUME Inv, [Next]_vars PROVE Inv'
  OBVIOUS
<1>0. sweep \in Sweep /\ clock \in 0..MaxTime /\ (sweep.since = {} => sweep.at = {})
  BY DEF Inv, TypeOK
<1>1. CASE UNCHANGED vars
  BY <1>0, <1>1, QuietStep DEF vars
<1>2. CASE SweepStart
  <2>1. sweep' \in Sweep /\ sweep'.since # {}
    BY <1>0, <1>2 DEF SweepStart, Sweep
  <2>2. QED
    BY <1>0, <1>2, <2>1, QuietStep DEF SweepStart
<1>3. ASSUME NEW s \in State, SweepSee(s) PROVE Inv'
  <2>1. sweep' \in Sweep /\ sweep'.since # {}
    BY <1>0, <1>3 DEF SweepSee, Sweep
  <2>2. QED
    BY <1>0, <1>3, <2>1, QuietStep DEF SweepSee
<1>4. CASE SweepEnd
  <2>1. sweep' \in Sweep /\ sweep'.at = {}
    BY <1>4 DEF SweepEnd, Sweep
  <2>2. QED
    BY <1>0, <1>4, <2>1, QuietStep DEF SweepEnd
<1>5. CASE Tick
  <2>1. clock' \in 0..MaxTime /\ UNCHANGED <<items, count, initiate, owed, sweep, used, doubles>>
    BY <1>0, <1>5, PkceAssumption DEF Tick
  <2>2. QED
    BY <1>0, <2>1, QuietStep
<1>6. QED
  BY <1>1, <1>2, <1>3, <1>4, <1>5, CheckStep, PutStep, AddStep, ConsumeStep, SweepDeleteStep, SubtractStep DEF Next

\* The inductive invariant.
THEOREM Invariance == Spec => []Inv
BY InitInv, InvStep, PTL DEF Spec

\* commander_auth.go:36, :49-88: the counter tells what the map holds, less
\* what was counted out twice, and the cap is passed by no more than the
\* logins that check it together and that drift.
THEOREM PendingIsCounted == Spec => []PendingCounted
<1>1. Inv => PendingCounted
  <2> SUFFICES ASSUME Inv PROVE CapHolds
    BY DEF Inv, PendingCounted
  <2>1. Storing("put") \in Nat /\ Storing("add") \in Nat /\ Cardinality(Handler) \in Nat /\ count \in Int /\ owed \in Nat
        /\ doubles \in Nat /\ Cardinality(Pending) \in Nat
    BY Counted DEF Inv, TypeOK
  <2>2. QED
    BY <2>1, PkceAssumption DEF Inv, CountTells, Bounded, CapHolds
<1>2. QED
  BY <1>1, Invariance, PTL

-----------------------------------------------------------------------------
(* Together: a behaviour is of one of the five parts                       *)

\* Each part's invariant, while it is the part that runs; the limiter is of
\* uploads and of heartbeats.
MCInv ==
    /\ part \in {"pkce", "login", "tokens", "ingest", "presence"}
    /\ part = "pkce" => Inv
    /\ part = "login" => LoginInv
    /\ part = "tokens" => TokensInv
    /\ part = "ingest" => IngestInv
    /\ part = "presence" => BeatsInv
    /\ part \in {"ingest", "presence"} => LimitInv
    /\ part \notin {"ingest", "presence"} => passes = << >>

LEMMA MCInitInv == MCInit => MCInv
BY InitInv, LoginInitInv, TokensInitInv, IngestInitInv, BeatsInitInv DEF MCInit, MCInv, Ingest!Init

mcVars == <<part, vars, loginVars, tokensVars, ingestVars, beatVars, bothVars>>

LEMMA MCInvStep == MCInv /\ [MCNext]_mcVars => MCInv'
<1> SUFFICES ASSUME MCInv, [MCNext]_mcVars PROVE MCInv'
  OBVIOUS
<1>1. part' = part
  BY DEF MCNext, mcVars
<1>2. CASE part = "pkce"
  <2>1. [Next]_vars /\ UNCHANGED passes
    BY <1>2 DEF MCNext, mcVars, bothVars
  <2>2. QED
    BY <1>1, <1>2, <2>1, InvStep DEF MCInv
<1>3. CASE part = "login"
  <2>1. [Login!Next]_(Login!vars) /\ UNCHANGED passes
    BY <1>3 DEF MCNext, mcVars, vars, loginVars, bothVars, Login!vars
  <2>2. QED
    BY <1>1, <1>3, <2>1, LoginInvStep DEF MCInv
<1>4. CASE part = "tokens"
  <2>1. [Tokens!Next]_(Tokens!vars) /\ UNCHANGED passes
    BY <1>4 DEF MCNext, mcVars, vars, tokensVars, bothVars, Tokens!vars
  <2>2. QED
    BY <1>1, <1>4, <2>1, TokensInvStep DEF MCInv
<1>5. CASE part = "ingest"
  <2>1. [Ingest!Next]_(Ingest!vars)
    BY <1>5 DEF MCNext, mcVars, vars, ingestVars, bothVars, Ingest!vars
  <2>2. QED
    BY <1>1, <1>5, <2>1, IngestInvStep DEF MCInv
<1>6. CASE part = "presence"
  <2>1. [Beats!Next]_(Beats!vars)
    BY <1>6 DEF MCNext, mcVars, vars, beatVars, bothVars, Beats!vars
  <2>2. QED
    BY <1>1, <1>6, <2>1, BeatsInvStep DEF MCInv
<1>7. QED
  BY <1>2, <1>3, <1>4, <1>5, <1>6 DEF MCInv

LEMMA MCInvariance == MCSpec => []MCInv
<1>1. MCInv /\ [MCNext]_<<part, vars, loginVars, tokensVars, ingestVars, beatVars, bothVars>> => MCInv'
  BY MCInvStep DEF mcVars
<1>2. QED
  BY <1>1, MCInitInv, PTL DEF MCSpec

\* commander_client_auth.go:173, :341: SingleUse is what ReadOnce and Answered
\* say of the tokens that polls have not raced for.
LEMMA LoginInvTells == LoginInv => Login!TypeOK /\ Login!TokenAccounted /\ Login!SingleUse
<1> SUFFICES ASSUME LoginInv PROVE Login!SingleUse
  BY DEF LoginInv
<1>1. QED
  BY DEF LoginInv, Answered, Login!SingleUse

LEMMA TokensInvTells == TokensInv => Tokens!TypeOK /\ Tokens!RecordKept /\ Tokens!Renewable
BY DEF TokensInv, RecordLasts, Tokens!RecordKept, Tokens!TypeOK

LEMMA IngestInvTells == IngestInv => Ingest!TypeOK /\ Ingest!CountsAddUp /\ Ingest!AckedStored /\ Ingest!PagesCover
BY DEF IngestInv, StillAhead, Ingest!PagesCover

LEMMA NoPassesBound == passes = << >> => Ingest!BurstBound(passes)
BY DEF Ingest!BurstBound

\* commander_client_auth.go:173-258, :341: a token issued to a desktop client
\* is handed to one poll at most, unless polls raced for it, and is not lost
\* while its session lasts, for any number of sessions and goroutines.
THEOREM LoginsOnce == MCSpec => []LoginOnce
<1>1. MCInv => LoginOnce
  BY LoginInvTells DEF MCInv, LoginOnce
<1>2. QED
  BY <1>1, MCInvariance, PTL

\* commander_auth.go:691-742, :455: a session that is good has its record of
\* Frontier's tokens for as long, and in it a grant that was not spent, however
\* requests that renew it interleave.
THEOREM RecordsAreKept == MCSpec => []RecordsHold
<1>1. MCInv => RecordsHold
  BY TokensInvTells DEF MCInv, RecordsHold
<1>2. QED
  BY <1>1, MCInvariance, PTL

\* commander_repository.go:162-196, commander_query.go:85-100: the events
\* counted as written are the rows that came to be, an upload that was answered
\* has its rows, and a reader that pages back sees all that was there, whatever
\* batches and whatever page size.
THEOREM UploadsAreKept == MCSpec => []UploadsHold
<1>1. MCInv => UploadsHold
  BY IngestInvTells DEF MCInv, UploadsHold
<1>2. QED
  BY <1>1, MCInvariance, PTL

\* rate_limit.go:20-60, commander_presence.go:52-120: no window has more than
\* two buckets of calls let through, and the page says live for the TTL after a
\* write and never of a client that was seen longer ago than that and a write.
THEOREM PresenceTellsTrue == MCSpec => []PresenceHolds
<1>1. MCInv => PresenceHolds
  BY NoPassesBound DEF MCInv, LimitInv, BeatsInv, PresenceHolds
<1>2. QED
  BY <1>1, MCInvariance, PTL
=============================================================================
