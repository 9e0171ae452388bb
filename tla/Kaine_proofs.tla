---------------------------- MODULE Kaine_proofs ----------------------------
(* Proofs about KaineObjectives and KaineChat: the stamps of an objective's  *)
(* path and what stays on a user's list; what the portal's chat promises of  *)
(* its nonces, deadlines and contexts, for any users, connections and turns. *)
(* Chat, of MCKaine, is the last.                                            *)
EXTENDS MCKaine, SequenceTheorems, TLAPS

-----------------------------------------------------------------------------
(* Objectives                                                              *)

\* The stamps of an objective nobody has moved out of its life cycle.
Regular(o) ==
    /\ o.state \in {"approved", "active", "completed"} => o.approved
    /\ o.completed => o.state \in {"completed", "archived"} /\ o.approved
    /\ o.state = "completed" => o.completed
    /\ o.archived <=> o.state = "archived"

\* What Lifecycle needs to be inductive: the types, and that a request which
\* is about to write has found its transition in the table.
Checked == \A h \in Handler : \A r \in req[h] : <<r.from, r.to>> \in ValidTransitions
Inv == TypeOK /\ Checked /\ Lifecycle

\* Stamping keeps the type.
LEMMA StampedType ==
    ASSUME NEW o \in Objective, NEW s \in State PROVE Stamped(o, s) \in Objective
BY DEF Stamped, Objective

\* A transition of the table takes a regular objective to a regular one.
LEMMA TransitionRegular ==
    ASSUME NEW o \in Objective, Regular(o), NEW s \in State, <<o.state, s>> \in ValidTransitions
    PROVE  Regular(Stamped(o, s))
<1>1. /\ Stamped(o, s).state = s /\ Stamped(o, s).approved = (o.approved \/ s = "approved")
      /\ Stamped(o, s).completed = (o.completed \/ s = "completed")
      /\ Stamped(o, s).archived = (o.archived \/ s = "archived")
  BY DEF Stamped, Objective
<1>2. \/ o.state = "draft" /\ s \in {"approved", "cancelled"}
      \/ o.state = "approved" /\ s \in {"active", "draft", "cancelled"}
      \/ o.state = "active" /\ s \in {"completed", "cancelled"}
      \/ o.state \in {"completed", "cancelled"} /\ s = "archived"
  BY DEF ValidTransitions
<1>3. o.approved \in BOOLEAN /\ o.completed \in BOOLEAN /\ o.archived \in BOOLEAN
  BY DEF Objective
<1>4. QED
  BY <1>1, <1>2, <1>3 DEF Regular

\* One row written: the others keep what holds of them.
LEMMA RowWrite ==
    ASSUME Inv, NEW i \in Rows, NEW o \in Objective, obj' = [obj EXCEPT ![i] = o],
           irregular' \in SUBSET Rows, irregular \subseteq irregular', i \notin irregular' => Regular(o)
    PROVE  /\ \E S \in SUBSET Id : obj' \in [S -> Objective]
           /\ irregular' \subseteq DOMAIN obj'
           /\ DOMAIN obj' = DOMAIN obj
           /\ Lifecycle'
<1>1. PICK S \in SUBSET Id : obj \in [S -> Objective]
  BY DEF Inv, TypeOK
<1>2. S = Rows /\ obj' \in [S -> Objective] /\ DOMAIN obj' = S
  BY <1>1 DEF Rows
<1>3. \A j \in Rows : obj'[j] = IF j = i THEN o ELSE obj[j]
  BY <1>1 DEF Rows
<1>4. \A j \in Rows \ irregular : Regular(obj[j])
  BY DEF Inv, Lifecycle, Regular
<1>5. \A j \in Rows' \ irregular' : Regular(obj'[j])
  BY <1>2, <1>3, <1>4 DEF Rows
<1>6. Lifecycle'
  BY <1>5 DEF Lifecycle, Regular
<1>7. QED
  BY <1>2, <1>6 DEF Rows

LEMMA InitInv == Init => Inv
<1> SUFFICES ASSUME Init PROVE Inv
  OBVIOUS
<1>1. obj \in [{} -> Objective] /\ DOMAIN obj = {}
  BY DEF Init
<1>2. TypeOK
  BY <1>1, BoundAssumption DEF Init, TypeOK, Time
<1>3. QED
  BY <1>1, <1>2 DEF Init, Inv, Checked, Lifecycle, Rows

\* A step that leaves the rows alone.
LEMMA RowsKept == ASSUME Inv, UNCHANGED <<obj, irregular>> PROVE Lifecycle'
BY DEF Inv, Lifecycle, Rows

\* A new objective is a draft without stamps.
LEMMA CreateStep == ASSUME Inv, Create PROVE Inv'
<1>1. PICK S \in SUBSET Id : obj \in [S -> Objective]
  BY DEF Inv, TypeOK
<1>2. PICK i \in Id \ Rows, l \in Level, p \in Schedule :
         obj' = [j \in Rows \cup {i} |->
                   IF j \in Rows THEN obj[j]
                   ELSE [state |-> "draft", level |-> l, publish |-> p,
                         approved |-> FALSE, completed |-> FALSE, archived |-> FALSE]]
  BY DEF Create
<1> DEFINE o == [state |-> "draft", level |-> l, publish |-> p,
                 approved |-> FALSE, completed |-> FALSE, archived |-> FALSE]
<1>3. o \in Objective /\ Regular(o)
  BY DEF Objective, Regular, State
<1>4. S = Rows /\ DOMAIN obj' = Rows \cup {i} /\ \A j \in Rows : obj'[j] = obj[j]
  BY <1>1, <1>2 DEF Rows
<1>5. obj'[i] = o
  BY <1>2
<1>6. obj' \in [Rows \cup {i} -> Objective]
  BY <1>1, <1>2, <1>3 DEF Rows
<1>7. TypeOK'
  <2>1. Rows \cup {i} \in SUBSET Id
    BY <1>4
  <2>2. now' = now /\ req' = req /\ irregular' = irregular /\ ops' = ops + 1
    BY DEF Create, Write
  <2>3. QED
    BY <1>4, <1>6, <2>1, <2>2 DEF Inv, TypeOK, Rows
<1>8. \A j \in Rows' \ irregular' : Regular(obj'[j])
  <2>1. \A j \in Rows \ irregular : Regular(obj[j])
    BY DEF Inv, Lifecycle, Regular
  <2>2. QED
    BY <1>3, <1>4, <1>5, <2>1 DEF Create, Rows
<1>9. Lifecycle'
  BY <1>8 DEF Lifecycle, Regular
<1>10. QED
  BY <1>7, <1>9 DEF Inv, Checked, Create

\* PUT keeps the state, or takes the objective out of the life cycle.
LEMMA UpdateStep == ASSUME Inv, UpdateObjective PROVE Inv'
<1>1. PICK i \in Rows, l \in Level, p \in Schedule :
         LET o == [obj[i] EXCEPT !.level = l, !.publish = IF p = {} THEN @ ELSE p] IN
         \/ obj' = [obj EXCEPT ![i] = o] /\ UNCHANGED irregular
         \/ \E s \in State : /\ obj' = [obj EXCEPT ![i] = Stamped(o, s)]
                            /\ irregular' = irregular \cup {i}
  BY DEF UpdateObjective
<1> DEFINE o == [obj[i] EXCEPT !.level = l, !.publish = IF p = {} THEN @ ELSE p]
<1>2. obj[i] \in Objective /\ irregular \subseteq Rows
  BY DEF Inv, TypeOK, Rows
<1>3. o \in Objective /\ o.state = obj[i].state /\ o.approved = obj[i].approved
      /\ o.completed = obj[i].completed /\ o.archived = obj[i].archived
  BY <1>2 DEF Objective
<1>4. i \notin irregular => Regular(o)
  BY <1>3 DEF Inv, Lifecycle, Regular
<1>5. PICK q \in Objective : /\ obj' = [obj EXCEPT ![i] = q]
                             /\ irregular' \in SUBSET Rows /\ irregular \subseteq irregular'
                             /\ i \notin irregular' => Regular(q)
  <2> HIDE DEF o
  <2>1. CASE obj' = [obj EXCEPT ![i] = o] /\ UNCHANGED irregular
    BY <1>2, <1>3, <1>4, <2>1
  <2>2. CASE \E s \in State : obj' = [obj EXCEPT ![i] = Stamped(o, s)] /\ irregular' = irregular \cup {i}
    BY <1>2, <1>3, <2>2, StampedType
  <2>3. QED
    BY <1>1, <2>1, <2>2 DEF o
<1>6. UNCHANGED <<now, req>> /\ ops' = ops + 1
  BY DEF UpdateObjective, Write
<1> HIDE DEF o
<1>7. /\ \E S \in SUBSET Id : obj' \in [S -> Objective]
      /\ irregular' \subseteq DOMAIN obj' /\ DOMAIN obj' = DOMAIN obj /\ Lifecycle'
  BY <1>5, RowWrite
<1>8. QED
  BY <1>6, <1>7 DEF Inv, TypeOK, Checked

\* DELETE cancels along the table, or takes the objective out of the life cycle.
LEMMA DeleteStep == ASSUME Inv, DeleteObjective PROVE Inv'
<1>1. PICK i \in Rows :
         /\ obj' = [obj EXCEPT ![i] = Stamped(obj[i], "cancelled")]
         /\ irregular' = irregular \cup {j \in {i} : <<obj[i].state, "cancelled">> \notin ValidTransitions}
  BY DEF DeleteObjective
<1>2. obj[i] \in Objective /\ irregular \subseteq Rows /\ "cancelled" \in State
  BY DEF Inv, TypeOK, Rows, State
<1>3. Stamped(obj[i], "cancelled") \in Objective
  BY <1>2, StampedType
<1>4. i \notin irregular' => Regular(obj[i]) /\ <<obj[i].state, "cancelled">> \in ValidTransitions
  BY <1>1 DEF Inv, Lifecycle, Regular
<1>5. i \notin irregular' => Regular(Stamped(obj[i], "cancelled"))
  BY <1>2, <1>4, TransitionRegular
<1>6. irregular' \in SUBSET Rows /\ irregular \subseteq irregular'
  BY <1>1, <1>2
<1>7. UNCHANGED <<now, req>> /\ ops' = ops + 1
  BY DEF DeleteObjective, Write
<1>8. /\ \E S \in SUBSET Id : obj' \in [S -> Objective]
      /\ irregular' \subseteq DOMAIN obj' /\ DOMAIN obj' = DOMAIN obj /\ Lifecycle'
  BY <1>1, <1>3, <1>5, <1>6, RowWrite
<1>9. QED
  BY <1>7, <1>8 DEF Inv, TypeOK, Checked

\* The check of a transition lets in only what the table lists.
LEMMA CheckStep == ASSUME Inv, NEW h \in Handler, TransitionCheck(h) PROVE Inv'
<1>1. PICK i \in Rows, s \in State :
         /\ <<obj[i].state, s>> \in ValidTransitions
         /\ req' = [req EXCEPT ![h] = {[id |-> i, from |-> obj[i].state, to |-> s]}]
  BY DEF TransitionCheck
<1> DEFINE t == [id |-> i, from |-> obj[i].state, to |-> s]
<1>2. i \in Id /\ obj[i].state \in State
  BY DEF Inv, TypeOK, Rows, Objective
<1>3. t \in Transition /\ <<t.from, t.to>> \in ValidTransitions /\ t.id \in DOMAIN obj
  BY <1>1, <1>2 DEF Transition, Rows
<1>4. req' = [req EXCEPT ![h] = {t}] /\ UNCHANGED <<obj, now, irregular>> /\ ops' = ops + 1
  BY <1>1 DEF TransitionCheck, Write
<1> HIDE DEF t
<1>5. \A g \in Handler : req'[g] = IF g = h THEN {t} ELSE req[g]
  BY <1>4 DEF Inv, TypeOK
<1>6. TypeOK'
  BY <1>3, <1>4, <1>5 DEF Inv, TypeOK
<1>7. Checked'
  BY <1>3, <1>5 DEF Inv, Checked
<1>8. QED
  BY <1>4, <1>6, <1>7, RowsKept DEF Inv

\* The update: regular if the state is still the one that was checked.
LEMMA WriteStep == ASSUME Inv, NEW h \in Handler, TransitionWrite(h) PROVE Inv'
<1>1. PICK r \in req[h] :
         /\ obj' = [obj EXCEPT ![r.id] = Stamped(obj[r.id], r.to)]
         /\ irregular' = irregular \cup {i \in {r.id} : obj[i].state # r.from}
  BY DEF TransitionWrite
<1>2. r \in Transition /\ r.id \in Rows /\ <<r.from, r.to>> \in ValidTransitions
  BY DEF Inv, TypeOK, Checked, Rows
<1>3. obj[r.id] \in Objective /\ irregular \subseteq Rows /\ r.to \in State
  BY <1>2 DEF Inv, TypeOK, Rows, Transition
<1>4. Stamped(obj[r.id], r.to) \in Objective
  BY <1>3, StampedType
<1>5. r.id \notin irregular' => Regular(obj[r.id]) /\ <<obj[r.id].state, r.to>> \in ValidTransitions
  BY <1>1, <1>2 DEF Inv, Lifecycle, Regular
<1>6. r.id \notin irregular' => Regular(Stamped(obj[r.id], r.to))
  BY <1>3, <1>5, TransitionRegular
<1>7. irregular' \in SUBSET Rows /\ irregular \subseteq irregular'
  BY <1>1, <1>2, <1>3
<1>8. /\ \E S \in SUBSET Id : obj' \in [S -> Objective]
      /\ irregular' \subseteq DOMAIN obj' /\ DOMAIN obj' = DOMAIN obj /\ Lifecycle'
  BY <1>1, <1>2, <1>4, <1>6, <1>7, RowWrite
<1>9. UNCHANGED <<now, ops>> /\ \A g \in Handler : req'[g] = IF g = h THEN {} ELSE req[g]
  BY DEF Inv, TypeOK, TransitionWrite
<1>10. req' \in [Handler -> SUBSET Transition]
  BY DEF Inv, TypeOK, TransitionWrite
<1>11. QED
  BY <1>8, <1>9, <1>10 DEF Inv, TypeOK, Checked

LEMMA AbandonStep == ASSUME Inv, NEW h \in Handler, Abandon(h) PROVE Inv'
<1>1. UNCHANGED <<obj, now, ops, irregular>> /\ req' \in [Handler -> SUBSET Transition]
      /\ \A g \in Handler : req'[g] = IF g = h THEN {} ELSE req[g]
  BY DEF Inv, TypeOK, Abandon
<1>2. TypeOK' /\ Checked'
  BY <1>1 DEF Inv, TypeOK, Checked
<1>3. QED
  BY <1>1, <1>2, RowsKept DEF Inv

LEMMA TickStep == ASSUME Inv, Tick PROVE Inv'
<1>1. now' \in Time
  BY BoundAssumption DEF Tick, Inv, TypeOK, Time
<1>2. QED
  BY <1>1, RowsKept DEF Tick, Inv, TypeOK, Checked

LEMMA InvStep == Inv /\ [Next]_vars => Inv'
<1> SUFFICES ASSUME Inv, [Next]_vars PROVE Inv'
  OBVIOUS
<1>1. CASE UNCHANGED vars
  BY <1>1, RowsKept DEF vars, Inv, TypeOK, Checked
<1>2. CASE Next
  BY <1>2, CreateStep, UpdateStep, DeleteStep, TickStep, CheckStep, WriteStep, AbandonStep DEF Next
<1>3. QED
  BY <1>1, <1>2

\* The inductive invariant: the types, the table and Lifecycle.
THEOREM Invariance == Spec => []Inv
BY InitInv, InvStep, PTL DEF Spec

\* types.go:51-60: an objective moved by transitions that held when they were
\* written bears the stamps of its path, however requests interleave.
THEOREM PathsAreStamped == Spec => []LifecycleHolds
<1>1. Inv => LifecycleHolds
  BY DEF Inv, LifecycleHolds
<1>2. QED
  BY <1>1, Invariance, PTL

-----------------------------------------------------------------------------

\* No step drops a row.
LEMMA RowsStay == ASSUME Inv, [Next]_vars, NEW i \in Rows PROVE i \in Rows'
<1>1. CASE UNCHANGED obj
  BY <1>1 DEF Rows
<1>2. CASE \E j \in Rows : \E o : obj' = [obj EXCEPT ![j] = o]
  BY <1>2 DEF Rows
<1>3. CASE Create
  BY <1>3 DEF Create, Rows
<1>4. CASE UpdateObjective
  BY <1>2, <1>4 DEF UpdateObjective
<1>5. CASE DeleteObjective
  BY <1>2, <1>5 DEF DeleteObjective
<1>6. CASE \E h \in Handler : TransitionWrite(h)
  <2>1. PICK h \in Handler : TransitionWrite(h)
    BY <1>6
  <2>2. PICK r \in req[h] : obj' = [obj EXCEPT ![r.id] = Stamped(obj[r.id], r.to)]
    BY <2>1 DEF TransitionWrite
  <2>3. r.id \in Rows
    BY DEF Inv, TypeOK, Rows
  <2>4. QED
    BY <1>2, <2>2, <2>3
<1>7. QED
  BY <1>1, <1>3, <1>4, <1>5, <1>6 DEF Next, Tick, TransitionCheck, Abandon, vars

\* store.go:91-92: what a user has on their list stays there until its row is
\* written; time alone takes nothing off it.
THEOREM ListedEntriesStay == Spec => ListedStays
<1>1. ASSUME Inv, [Next]_vars, NEW u \in User, NEW i \in Listed(u), obj'[i] = obj[i]
      PROVE  i \in Listed(u)'
  <2>1. i \in Rows /\ obj[i] \in Objective
    BY <1>1 DEF Listed, Inv, TypeOK, Rows
  <2>2. i \in Rows'
    BY <1>1, <2>1, RowsStay
  <2>3. now' = now \/ now' = now + 1
    BY <1>1 DEF Next, vars, Create, UpdateObjective, DeleteObjective, Tick, TransitionCheck, TransitionWrite, Abandon
  <2>4. Published(obj[i])'
    <3>1. Published(obj[i])
      BY <1>1 DEF Listed
    <3>2. obj[i].publish \subseteq 0..now => obj[i].publish \subseteq 0..now'
      BY <1>1, <2>3 DEF Inv, TypeOK, Time
    <3>3. QED
      BY <1>1, <3>1, <3>2 DEF Published
  <2>5. QED
    BY <1>1, <2>2, <2>4 DEF Listed, AccessLevels, CanViewOps, CanViewPledge
<1>2. Inv /\ [Next]_vars => [\A u \in User : \A i \in Listed(u) : obj'[i] = obj[i] => i \in Listed(u)']_vars
  BY <1>1
<1>3. QED
  BY <1>2, Invariance, PTL DEF Spec, ListedStays

-----------------------------------------------------------------------------
(* The portal's chat: what its properties need to be inductive             *)

Phase == {"closed", "auth", "ready", "load", "run", "commit"}
Line == [pc : Phase, since : Nat, by : Nat, sess : Nat, history : Seq(Chat!Entry), past : Seq(Chat!Entry),
         msg : 0..MaxTurns, ctx : SUBSET (1..MaxTurns), long : Nat]
Talk == [log : Seq(Chat!Entry), ctx : SUBSET (1..MaxTurns)]

ChatTypes ==
    /\ clock \in 0..MaxMoment /\ failures \in 0..MaxFailures /\ turns \in 0..MaxTurns /\ active \in 0..Len(sessions)
    /\ sessions \in Seq(Talk) /\ conn \in [Handler -> Line] /\ lost \subseteq Nat

\* A nonce that is there was issued and has admitted nobody.
NoncesFit ==
    /\ DOMAIN nonces \subseteq DOMAIN issued /\ \A n \in DOMAIN issued : issued[n] \in Nat
    /\ \A n \in DOMAIN nonces : nonces[n] = issued[n] + NonceTtl
    /\ \A a \in admitted : a.nonce \in DOMAIN issued \ DOMAIN nonces
    /\ Chat!NonceOnce

InTurn(c) == conn[c].pc \in {"load", "run", "commit"}
IsOpen(c) == conn[c].pc = "ready" \/ InTurn(c)

\* No ping has come since the time a line's deadline is counted from, or its
\* last turn was too long.
PongsFit(c) ==
    /\ conn[c].pc = "ready" =>
         /\ conn[c].by >= Deadline
         /\ conn[c].long > Deadline \/ \A t \in (conn[c].by - Deadline) + 1..clock : t % Ping # 0
    /\ InTurn(c) => conn[c].by = conn[c].since + Deadline /\ conn[c].since =< clock

Asks(t)    == [of |-> t, by |-> "user"]
Replies(t) == [of |-> t, by |-> "assistant"]
Log(s) == sessions[s].log
InLog(s, e) == \E i \in DOMAIN Log(s) : Log(s)[i] = e
Before(s, e, f) == \E i, j \in DOMAIN Log(s) : i < j /\ Log(s)[i] = e /\ Log(s)[j] = f

\* Two turns each of which asked before the other had its reply.
Crosses(s, t) == \E u \in 1..turns \ {t} : Before(s, Asks(t), Replies(u)) /\ Before(s, Asks(u), Replies(t))
\* A message of a session, or of none.
Told(s, t) == t \in 1..turns /\ (InLog(s, Asks(t)) \/ \A r \in DOMAIN sessions : ~InLog(r, Asks(t)))

\* What is on show was said once, in one session, and answered after it was
\* asked.
OnceSaid == \A s, r \in DOMAIN sessions : \A i \in DOMAIN Log(s), j \in DOMAIN Log(r) :
                Log(s)[i] = Log(r)[j] => s = r /\ i = j
LogsFit ==
    /\ OnceSaid
    /\ \A s \in DOMAIN sessions : \A i \in DOMAIN Log(s) : Log(s)[i].of \in 1..turns
    /\ \A s \in DOMAIN sessions : \A t \in 1..turns : InLog(s, Replies(t)) => Before(s, Asks(t), Replies(t))
\* The stored context has what is on show, but for turns that crossed another.
ContextsFit ==
    \A s \in DOMAIN sessions :
       /\ \A t \in sessions[s].ctx : Told(s, t)
       /\ \A t \in 1..turns \ sessions[s].ctx : InLog(s, Replies(t)) => Crosses(s, t)

\* A turn's question is in its session and has no reply; what its context
\* lacks was answered after it was asked, or crossed another.
LineFits(c) ==
    /\ (conn[c].msg # 0) = InTurn(c)
    /\ IsOpen(c) => /\ conn[c].sess \in DOMAIN sessions
                    /\ \A i \in DOMAIN conn[c].history : Told(conn[c].sess, conn[c].history[i].of)
    /\ InTurn(c) => /\ conn[c].msg \in 1..turns /\ InLog(conn[c].sess, Asks(conn[c].msg))
                    /\ \A r \in DOMAIN sessions : ~InLog(r, Replies(conn[c].msg))
                    /\ \A i \in DOMAIN conn[c].past : Told(conn[c].sess, conn[c].past[i].of)
    /\ conn[c].pc \in {"run", "commit"} =>
          /\ \A t \in conn[c].ctx : Told(conn[c].sess, t)
          /\ \A t \in 1..turns \ conn[c].ctx : InLog(conn[c].sess, Replies(t)) =>
                Before(conn[c].sess, Asks(conn[c].msg), Replies(t)) \/ Crosses(conn[c].sess, t)
    /\ conn[c].pc = "commit" => conn[c].msg \in conn[c].ctx
OneTurn == \A c, d \in Handler : c # d /\ InTurn(c) /\ InTurn(d) => conn[c].msg # conn[d].msg

LinesFit == \A c \in Handler : LineFits(c)
ChatInv == /\ ChatTypes /\ NoncesFit /\ Chat!LostByLongTurn /\ (\A c \in Handler : PongsFit(c))
           /\ LogsFit /\ ContextsFit /\ LinesFit /\ OneTurn

-----------------------------------------------------------------------------
(* Pings: multiples are a Ping apart                                       *)

LEMMA Divided ==
    \A a \in Nat, p \in Nat \ {0} : a = (p * (a \div p)) + (a % p) /\ a % p \in 0..p - 1 /\ a \div p \in Nat
OBVIOUS

LEMMA NextMultiple ==
    \A p \in Nat \ {0}, q \in Nat : /\ (p * (q + 1)) % p = 0 /\ p * (q + 1) = (p * q) + p
                                    /\ p * q \in Nat /\ p * (q + 1) \in Nat
<1>1. \A p \in Nat \ {0}, q \in Nat : (p * q) % p = 0
  OBVIOUS
<1>2. \A p \in Nat \ {0}, q \in Nat : p * (q + 1) = (p * q) + p /\ p * q \in Nat /\ p * (q + 1) \in Nat
  OBVIOUS
<1>3. QED
  BY <1>1, <1>2

LEMMA PingComes == \A a \in Nat : \E t \in a + 1..a + Ping : t % Ping = 0
<1> SUFFICES ASSUME NEW a \in Nat PROVE \E t \in a + 1..a + Ping : t % Ping = 0
  OBVIOUS
<1>1. PICK q \in Nat, r \in 0..Ping - 1 : a = (Ping * q) + r
  <2>1. Ping \in Nat \ {0}
    BY ChatAssumption
  <2>2. a = (Ping * (a \div Ping)) + (a % Ping) /\ a % Ping \in 0..Ping - 1 /\ a \div Ping \in Nat
    BY <2>1, Divided
  <2>3. QED
    BY <2>2
<1>2. PICK t \in Nat : t = Ping * (q + 1) /\ t = (Ping * q) + Ping
  BY NextMultiple, ChatAssumption
<1>3. t \in a + 1..a + Ping
  BY <1>1, <1>2, NextMultiple, ChatAssumption
<1>4. t % Ping = 0
  BY <1>2, NextMultiple, ChatAssumption
<1>5. QED
  BY <1>3, <1>4

\* So a line whose pings have all been heard has not passed its deadline.
LEMMA StillHeard ==
    ASSUME ChatTypes, NEW c \in Handler, conn[c].pc = "ready", PongsFit(c), clock >= conn[c].by
    PROVE  conn[c].long > Deadline
<1>1. conn[c].by \in Nat /\ clock \in Nat /\ Deadline \in Nat /\ Ping \in Nat /\ Ping =< Deadline /\ conn[c].by >= Deadline
  BY ChatAssumption DEF ChatTypes, Line, PongsFit
<1> DEFINE a == conn[c].by - Deadline
<1>2. a \in Nat
  BY <1>1
<1>3. PICK t \in a + 1..a + Ping : t % Ping = 0
  BY <1>2, PingComes
<1>4. t \in a + 1..clock
  BY <1>1, <1>2, <1>3
<1>5. QED
  BY <1>3, <1>4 DEF PongsFit

-----------------------------------------------------------------------------
(* What a step does to the logs                                            *)

LEMMA ChatTyped ==
    ASSUME ChatTypes
    PROVE  /\ clock \in Nat /\ turns \in Nat /\ active \in Nat
           /\ \A s \in DOMAIN sessions : s \in Nat \ {0} /\ sessions[s] \in Talk /\ Log(s) \in Seq(Chat!Entry)
           /\ \A c \in Handler : conn[c] \in Line
<1>1. clock \in Nat /\ turns \in Nat
  BY ChatAssumption DEF ChatTypes
<1>2. sessions \in Seq(Talk) /\ Len(sessions) \in Nat /\ DOMAIN sessions = 1..Len(sessions)
  BY DEF ChatTypes
<1>3. \A s \in DOMAIN sessions : s \in Nat \ {0} /\ sessions[s] \in Talk
  BY <1>2
<1>4. \A s \in DOMAIN sessions : Log(s) \in Seq(Chat!Entry)
  BY <1>3 DEF Talk, Log
<1>5. QED
  BY <1>1, <1>2, <1>3, <1>4 DEF ChatTypes

\* The entry e is new at the end of the log of z; other logs are as they were,
\* or empty and new.
Said(z, e) ==
    /\ DOMAIN sessions \subseteq DOMAIN sessions'
    /\ \A s \in DOMAIN sessions' : \A x :
         InLog(s, x)' <=> (s \in DOMAIN sessions /\ InLog(s, x)) \/ (s = z /\ x = e)
    /\ \A s \in DOMAIN sessions' : \A x, y :
         Before(s, x, y)' <=> \/ s \in DOMAIN sessions /\ Before(s, x, y)
                              \/ s = z /\ y = e /\ InLog(z, x)
    /\ z \notin DOMAIN sessions => z = 0

\* Nothing is said, no session made.
LEMMA NothingSaid ==
    ASSUME ChatTypes, UNCHANGED sessions PROVE Said(0, Asks(0)) /\ sessions' \in Seq(Talk)
BY ChatTyped DEF Said, InLog, Before, Log, ChatTypes

\* A new session is empty.
LEMMA SessionMade ==
    ASSUME ChatTypes, NEW n, n = Len(sessions) + 1, sessions' = Append(sessions, [log |-> << >>, ctx |-> {}])
    PROVE  /\ Said(0, Asks(0)) /\ sessions' \in Seq(Talk)
           /\ DOMAIN sessions' = DOMAIN sessions \cup {n} /\ Len(sessions') = n
           /\ \A s \in DOMAIN sessions : sessions'[s] = sessions[s]
           /\ Log(n)' = << >> /\ sessions'[n].ctx = {}
<1> DEFINE new == [log |-> << >>, ctx |-> {}]
<1>1. new \in Talk /\ new.log = << >> /\ new.ctx = {}
  BY DEF Talk
<1> HIDE DEF new
<1>2. /\ sessions' \in Seq(Talk) /\ Len(sessions') = n
      /\ \A s \in DOMAIN sessions : sessions'[s] = sessions[s]
      /\ sessions'[n] = new /\ DOMAIN sessions = 1..Len(sessions) /\ Len(sessions) \in Nat /\ n \in Nat /\ n = Len(sessions) + 1
  BY <1>1 DEF ChatTypes, new
<1>3. DOMAIN sessions' = DOMAIN sessions \cup {n}
  BY <1>2
<1>4. \A s \in DOMAIN sessions : Log(s)' = Log(s)
  BY <1>2, <1>3 DEF Log
<1>5. Log(n)' = << >> /\ DOMAIN Log(n)' = {} /\ n \notin DOMAIN sessions
  <2>1. n \notin DOMAIN sessions
    BY <1>2
  <2>2. Log(n)' = << >>
    BY <1>1, <1>2 DEF Log
  <2>3. QED
    BY <2>1, <2>2
<1>6. Said(0, Asks(0))
  <2>1. \A s \in DOMAIN sessions : s # 0
    BY <1>2
  <2>2. \A s \in DOMAIN sessions' : \A x : InLog(s, x)' <=> s \in DOMAIN sessions /\ InLog(s, x)
    <3>1. ASSUME NEW s \in DOMAIN sessions, NEW x PROVE InLog(s, x)' <=> InLog(s, x)
      BY <1>4, <3>1 DEF InLog
    <3>2. \A x : ~InLog(n, x)'
      BY <1>5 DEF InLog
    <3>3. QED
      BY <1>3, <1>5, <3>1, <3>2
  <2>3. \A s \in DOMAIN sessions' : \A x, y : Before(s, x, y)' <=> s \in DOMAIN sessions /\ Before(s, x, y)
    <3>1. ASSUME NEW s \in DOMAIN sessions, NEW x, NEW y PROVE Before(s, x, y)' <=> Before(s, x, y)
      BY <1>4, <3>1 DEF Before
    <3>2. \A x, y : ~Before(n, x, y)'
      BY <1>5 DEF Before
    <3>3. QED
      BY <1>3, <1>5, <3>1, <3>2
  <2>4. \A s \in DOMAIN sessions' : s # 0
    BY <1>3, <2>1, <1>2
  <2>5. QED
    BY <1>3, <2>1, <2>2, <2>3, <2>4 DEF Said
<1>7. QED
  BY <1>1, <1>2, <1>3, <1>5, <1>6

\* A log that grew by one entry.
LEMMA EntrySaid ==
    ASSUME ChatTypes, NEW z \in DOMAIN sessions, NEW e \in Chat!Entry, NEW new \in Talk,
           new.log = Append(Log(z), e), sessions' = [sessions EXCEPT ![z] = new]
    PROVE  /\ Said(z, e) /\ sessions' \in Seq(Talk) /\ DOMAIN sessions' = DOMAIN sessions /\ Len(sessions') = Len(sessions)
           /\ sessions'[z] = new /\ \A s \in DOMAIN sessions \ {z} : sessions'[s] = sessions[s]
           /\ Log(z)' = Append(Log(z), e)
<1>1. /\ sessions' \in Seq(Talk) /\ DOMAIN sessions' = DOMAIN sessions /\ Len(sessions') = Len(sessions)
      /\ sessions'[z] = new /\ \A s \in DOMAIN sessions \ {z} : sessions'[s] = sessions[s]
  BY DEF ChatTypes
<1>2. Log(z)' = Append(Log(z), e) /\ \A s \in DOMAIN sessions \ {z} : Log(s)' = Log(s)
  BY <1>1 DEF Log
<1>3. Log(z) \in Seq(Chat!Entry) /\ Len(Log(z)) \in Nat /\ DOMAIN Log(z) = 1..Len(Log(z))
  BY ChatTyped
<1>4. /\ DOMAIN Log(z)' = DOMAIN Log(z) \cup {Len(Log(z)) + 1} /\ Log(z)'[Len(Log(z)) + 1] = e
      /\ \A i \in DOMAIN Log(z) : Log(z)'[i] = Log(z)[i] /\ i < Len(Log(z)) + 1
  BY <1>2, <1>3
<1>5. \A s \in DOMAIN sessions' : \A x : InLog(s, x)' <=> (s \in DOMAIN sessions /\ InLog(s, x)) \/ (s = z /\ x = e)
  <2>1. \A x : InLog(z, x)' <=> InLog(z, x) \/ x = e
    BY <1>4 DEF InLog
  <2>2. ASSUME NEW s \in DOMAIN sessions \ {z}, NEW x PROVE InLog(s, x)' <=> InLog(s, x)
    BY <1>2 DEF InLog
  <2>3. QED
    BY <1>1, <2>1, <2>2
<1>6. \A x, y : Before(z, x, y)' <=> Before(z, x, y) \/ (y = e /\ InLog(z, x))
  <2>1. ASSUME NEW x, NEW y, Before(z, x, y)' PROVE Before(z, x, y) \/ (y = e /\ InLog(z, x))
    <3>1. PICK i \in DOMAIN Log(z)', j \in DOMAIN Log(z)' : i < j /\ Log(z)'[i] = x /\ Log(z)'[j] = y
      BY <2>1 DEF Before
    <3>2. i \in DOMAIN Log(z)
      BY <1>3, <1>4, <3>1
    <3>3. QED
      BY <1>4, <3>1, <3>2 DEF Before, InLog
  <2>2. ASSUME NEW x, NEW y, Before(z, x, y) \/ (y = e /\ InLog(z, x)) PROVE Before(z, x, y)'
    BY <1>4, <2>2 DEF Before, InLog
  <2>3. QED
    BY <2>1, <2>2
<1>7. \A s \in DOMAIN sessions \ {z} : \A x, y : Before(s, x, y)' <=> Before(s, x, y)
  BY <1>2 DEF Before
<1>8. QED
  BY <1>1, <1>2, <1>5, <1>6, <1>7 DEF Said

\* What holds of the entries of the logs, said without places.
LEMMA EntriesFit ==
    ASSUME ChatTypes, LogsFit, NEW s \in DOMAIN sessions, NEW x, InLog(s, x)
    PROVE  x.of \in 1..turns /\ x \in Chat!Entry
BY ChatTyped DEF LogsFit, InLog

LEMMA EntriesDiffer ==
    \A t, u : /\ Asks(t).of = t /\ Replies(t).of = t /\ Asks(t) # Replies(u)
              /\ (Asks(t) = Asks(u) => t = u) /\ (Replies(t) = Replies(u) => t = u)
BY DEF Asks, Replies

\* What a step may say: nothing, the next question, or the reply to one.
News(z, e) ==
    /\ turns' \in {turns, turns + 1}
    /\ \/ z = 0
       \/ z \in DOMAIN sessions /\ e = Asks(turns + 1) /\ turns' = turns + 1
       \/ /\ z \in DOMAIN sessions
          /\ \E m \in 1..turns : e = Replies(m) /\ InLog(z, Asks(m)) /\ \A r \in DOMAIN sessions : ~InLog(r, e)

LEMMA ToldStays ==
    ASSUME ChatTypes, LogsFit, NEW z, NEW e, Said(z, e), News(z, e), 0 \notin DOMAIN sessions',
           NEW s \in DOMAIN sessions, NEW t, Told(s, t)
    PROVE  Told(s, t)'
<1>1. turns \in Nat /\ t \in 1..turns /\ t \in 1..turns' /\ t # turns + 1
  BY ChatTyped DEF Told, News
<1>2. CASE InLog(s, Asks(t))
  BY <1>1, <1>2 DEF Told, Said
<1>3. CASE \A r \in DOMAIN sessions : ~InLog(r, Asks(t))
  <2>1. ~(z \in DOMAIN sessions' /\ e = Asks(t))
    BY <1>1, EntriesDiffer DEF News
  <2>2. \A r \in DOMAIN sessions' : ~InLog(r, Asks(t))'
    BY <1>3, <2>1 DEF Said
  <2>3. QED
    BY <1>1, <2>2 DEF Told
<1>4. QED
  BY <1>2, <1>3 DEF Told

LEMMA CrossesStays ==
    ASSUME ChatTypes, NEW z, NEW e, Said(z, e), News(z, e), NEW s \in DOMAIN sessions, NEW t, Crosses(s, t)
    PROVE  Crosses(s, t)'
<1>1. PICK u \in 1..turns \ {t} : Before(s, Asks(t), Replies(u)) /\ Before(s, Asks(u), Replies(t))
  BY DEF Crosses
<1>2. Before(s, Asks(t), Replies(u))' /\ Before(s, Asks(u), Replies(t))'
  BY <1>1 DEF Said
<1>3. u \in 1..turns' \ {t}
  BY <1>1, ChatTyped DEF News
<1>4. QED
  BY <1>2, <1>3 DEF Crosses

\* The logs after a step but for OnceSaid.
LEMMA LogsStay ==
    ASSUME ChatTypes, LogsFit, NEW z, NEW e, Said(z, e), News(z, e), 0 \notin DOMAIN sessions',
           NEW s \in DOMAIN sessions'
    PROVE  /\ \A x : InLog(s, x)' => x.of \in 1..turns'
           /\ \A t \in 1..turns' : InLog(s, Replies(t))' => Before(s, Asks(t), Replies(t))'
<1>1. turns \in Nat /\ 1..turns \subseteq 1..turns'
  BY ChatTyped DEF News
<1>2. ASSUME NEW x, InLog(s, x)' PROVE x.of \in 1..turns'
  <2>1. CASE s \in DOMAIN sessions /\ InLog(s, x)
    BY <1>1, <2>1, EntriesFit
  <2>2. CASE s = z /\ x = e
    BY <1>1, <2>2, EntriesDiffer DEF News
  <2>3. QED
    BY <1>2, <2>1, <2>2 DEF Said
<1>3. ASSUME NEW t \in 1..turns', InLog(s, Replies(t))' PROVE Before(s, Asks(t), Replies(t))'
  <2>1. CASE s \in DOMAIN sessions /\ InLog(s, Replies(t))
    <3>1. t \in 1..turns
      BY <2>1, EntriesFit, EntriesDiffer
    <3>2. QED
      BY <2>1, <3>1 DEF LogsFit, Said
  <2>2. CASE s = z /\ Replies(t) = e
    <3>1. InLog(z, Asks(t))
      BY <2>2, EntriesDiffer DEF News
    <3>2. QED
      BY <2>2, <3>1 DEF Said
  <2>3. QED
    BY <1>3, <2>1, <2>2 DEF Said
<1>4. QED
  BY <1>2, <1>3

\* A session whose context is as it was, and to which no reply was added, or
\* which is new.
LEMMA ContextStays ==
    ASSUME ChatTypes, LogsFit, ContextsFit, NEW z, NEW e, Said(z, e), News(z, e), 0 \notin DOMAIN sessions',
           NEW s \in DOMAIN sessions', s = z => e = Asks(turns + 1),
           IF s \in DOMAIN sessions THEN sessions'[s].ctx = sessions[s].ctx ELSE sessions'[s].ctx = {}
    PROVE  /\ \A t \in sessions'[s].ctx : Told(s, t)'
           /\ \A t \in 1..turns' \ sessions'[s].ctx : InLog(s, Replies(t))' => Crosses(s, t)'
<1>1. ASSUME NEW t \in sessions'[s].ctx PROVE Told(s, t)'
  <2>1. s \in DOMAIN sessions /\ t \in sessions[s].ctx
    BY <1>1
  <2>2. QED
    BY <2>1, ToldStays DEF ContextsFit
<1>2. ASSUME NEW t \in 1..turns' \ sessions'[s].ctx, InLog(s, Replies(t))' PROVE Crosses(s, t)'
  <2>1. s \in DOMAIN sessions /\ InLog(s, Replies(t))
    BY <1>2, EntriesDiffer DEF Said
  <2>2. t \in 1..turns /\ t \notin sessions[s].ctx
    BY <1>2, <2>1, EntriesFit, EntriesDiffer
  <2>3. QED
    BY <2>1, <2>2, CrossesStays DEF ContextsFit
<1>3. QED
  BY <1>1, <1>2

\* A line a step does not touch, whose turn is not the one that is replied to.
LEMMA LineStays ==
    ASSUME ChatTypes, LogsFit, NEW z, NEW e, Said(z, e), News(z, e), 0 \notin DOMAIN sessions',
           NEW d \in Handler, LineFits(d), conn'[d] = conn[d], InTurn(d) => e # Replies(conn[d].msg)
    PROVE  LineFits(d)'
<1> DEFINE w == conn[d]
<1>1. PICK x \in Line : x = conn[d] /\ x = conn'[d]
  BY ChatTyped
<1>2. IsOpen(d) => x.sess \in DOMAIN sessions /\ x.sess \in DOMAIN sessions'
  BY <1>1 DEF LineFits, Said
<1>3. IsOpen(d) => \A i \in DOMAIN x.history : Told(x.sess, x.history[i].of)'
  BY <1>1, <1>2, ToldStays DEF LineFits
<1>4. InTurn(d) => \A i \in DOMAIN x.past : Told(x.sess, x.past[i].of)'
  BY <1>1, <1>2, ToldStays DEF LineFits, IsOpen
<1>5. x.pc \in {"run", "commit"} => \A t \in x.ctx : Told(x.sess, t)'
  BY <1>1, <1>2, ToldStays DEF LineFits, IsOpen, InTurn
<1>6. InTurn(d) => /\ x.msg \in 1..turns' /\ InLog(x.sess, Asks(x.msg))'
                   /\ \A r \in DOMAIN sessions' : ~InLog(r, Replies(x.msg))'
  <2> SUFFICES ASSUME InTurn(d) PROVE /\ x.msg \in 1..turns' /\ InLog(x.sess, Asks(x.msg))'
                                      /\ \A r \in DOMAIN sessions' : ~InLog(r, Replies(x.msg))'
    OBVIOUS
  <2>1. x.msg \in 1..turns /\ InLog(x.sess, Asks(x.msg)) /\ \A r \in DOMAIN sessions : ~InLog(r, Replies(x.msg))
    BY <1>1 DEF LineFits
  <2>2. x.msg \in 1..turns'
    BY <2>1, ChatTyped DEF News
  <2>3. QED
    BY <1>1, <1>2, <2>1, <2>2 DEF Said, IsOpen
<1>7. ASSUME x.pc \in {"run", "commit"}, NEW t \in 1..turns' \ x.ctx, InLog(x.sess, Replies(t))'
      PROVE  Before(x.sess, Asks(x.msg), Replies(t))' \/ Crosses(x.sess, t)'
  <2>1. InTurn(d) /\ x.sess \in DOMAIN sessions /\ x.sess \in DOMAIN sessions' /\ InLog(x.sess, Asks(x.msg))
    BY <1>1, <1>2, <1>7 DEF InTurn, IsOpen, LineFits
  <2>2. CASE InLog(x.sess, Replies(t))
    <3>1. t \in 1..turns
      BY <2>1, <2>2, EntriesFit, EntriesDiffer
    <3>2. Before(x.sess, Asks(x.msg), Replies(t)) \/ Crosses(x.sess, t)
      BY <1>1, <1>7, <2>2, <3>1 DEF LineFits
    <3>3. QED
      BY <2>1, <3>2, CrossesStays DEF Said
  <2>3. CASE x.sess = z /\ Replies(t) = e
    BY <2>1, <2>3 DEF Said
  <2>4. QED
    BY <1>7, <2>1, <2>2, <2>3 DEF Said
<1>8. (x.msg # 0) = InTurn(d) /\ (x.pc = "commit" => x.msg \in x.ctx) /\ InTurn(d)' = InTurn(d) /\ IsOpen(d)' = IsOpen(d)
  BY <1>1 DEF LineFits, InTurn, IsOpen
<1>9. QED
  BY <1>1, <1>2, <1>3, <1>4, <1>5, <1>6, <1>7, <1>8 DEF LineFits

-----------------------------------------------------------------------------
(* The steps                                                               *)

LEMMA ChatInitInv == Chat!Init => ChatInv
<1> SUFFICES ASSUME Chat!Init PROVE ChatInv
  OBVIOUS
<1> USE DEF Chat!Init
<1>1. Chat!Closed \in Line /\ Chat!Closed.pc = "closed" /\ Chat!Closed.msg = 0
  BY ChatAssumption DEF Chat!Closed, Line, Phase
<1>2. sessions = << >> /\ DOMAIN sessions = {} /\ Len(sessions) = 0 /\ sessions \in Seq(Talk)
  OBVIOUS
<1>3. ChatTypes
  BY <1>1, <1>2, ChatAssumption DEF ChatTypes
<1>4. \A c \in Handler : conn[c] = Chat!Closed /\ ~InTurn(c) /\ ~IsOpen(c)
  BY <1>1 DEF InTurn, IsOpen
<1>5. NoncesFit
  BY DEF NoncesFit, Chat!NonceOnce
<1>6. LogsFit /\ ContextsFit
  BY <1>2 DEF LogsFit, ContextsFit, OnceSaid
<1>7. LinesFit /\ OneTurn
  <2>1. ASSUME NEW c \in Handler PROVE LineFits(c)
    <3>1. conn[c].pc = "closed" /\ conn[c].msg = 0 /\ ~InTurn(c) /\ ~IsOpen(c)
      BY <1>1, <1>4
    <3>2. QED
      BY <3>1 DEF LineFits, InTurn
  <2>2. QED
    BY <1>4, <2>1 DEF LinesFit, OneTurn
<1>8. \A c \in Handler : PongsFit(c)
  BY <1>1, <1>4 DEF PongsFit
<1>9. QED
  BY <1>3, <1>5, <1>6, <1>7, <1>8 DEF ChatInv, Chat!LostByLongTurn

LEMMA FaultsCounted == ASSUME ChatTypes, Chat!Fault \/ Chat!Fine PROVE failures' \in 0..MaxFailures
BY ChatAssumption DEF ChatTypes, Chat!Fault, Chat!Fine

LEMMA NoncesRest == ASSUME NoncesFit, UNCHANGED <<nonces, issued, admitted>> PROVE NoncesFit'
BY DEF NoncesFit, Chat!NonceOnce

\* A step of one connection.
LEMMA LineStep ==
    ASSUME ChatInv, NEW z, NEW e, Said(z, e), News(z, e), sessions' \in Seq(Talk), OnceSaid', ContextsFit',
           NEW c \in Handler, NEW x \in Line, conn' = [conn EXCEPT ![c] = x], clock' = clock,
           failures' \in 0..MaxFailures, turns' \in 0..MaxTurns, active' \in 0..Len(sessions'),
           lost' \subseteq Nat, Chat!LostByLongTurn', NoncesFit', LineFits(c)', PongsFit(c)',
           \A d \in Handler \ {c} : InTurn(d) => e # Replies(conn[d].msg),
           x.pc \in {"load", "run", "commit"} => \/ x.msg = turns + 1
                                                 \/ InTurn(c) /\ x.msg = conn[c].msg
    PROVE  ChatInv'
<1>1. ChatTypes /\ LogsFit /\ LinesFit
  BY DEF ChatInv
<1>2. conn' \in [Handler -> Line] /\ conn'[c] = x /\ \A d \in Handler \ {c} : conn'[d] = conn[d]
  BY <1>1 DEF ChatTypes
<1>3. 0 \notin DOMAIN sessions'
  OBVIOUS
<1>4. ChatTypes'
  BY <1>1, <1>2 DEF ChatTypes
<1>5. LogsFit'
  <2>1. ASSUME NEW s \in DOMAIN sessions' PROVE \A i \in DOMAIN Log(s)' : Log(s)'[i].of \in 1..turns'
    <3>1. \A v : InLog(s, v)' => v.of \in 1..turns'
      BY <1>1, <1>3, LogsStay
    <3>2. QED
      BY <3>1 DEF InLog
  <2>2. \A s \in DOMAIN sessions' : \A t \in 1..turns' : InLog(s, Replies(t))' => Before(s, Asks(t), Replies(t))'
    BY <1>1, <1>3, LogsStay
  <2>3. QED
    BY <2>1, <2>2 DEF LogsFit
<1>6. LinesFit'
  <2>1. ASSUME NEW d \in Handler \ {c} PROVE LineFits(d)'
    BY <1>1, <1>2, <1>3, LineStays DEF LinesFit
  <2>2. QED
    BY <2>1 DEF LinesFit
<1>7. \A d \in Handler : PongsFit(d)'
  <2>1. ASSUME NEW d \in Handler \ {c} PROVE PongsFit(d)'
    BY <1>2 DEF ChatInv, PongsFit, InTurn
  <2>2. QED
    BY <2>1
<1>8. OneTurn'
  <2>1. ASSUME NEW d \in Handler \ {c}, InTurn(c)', InTurn(d)' PROVE conn'[d].msg # x.msg
    <3>1. InTurn(d) /\ conn'[d].msg = conn[d].msg
      BY <1>2, <2>1 DEF InTurn
    <3>2. conn[d].msg \in 1..turns /\ turns \in Nat
      BY <1>1, <3>1, ChatTyped DEF LinesFit, LineFits
    <3>3. CASE x.msg = turns + 1
      BY <3>1, <3>2, <3>3
    <3>4. CASE InTurn(c) /\ x.msg = conn[c].msg
      BY <3>1, <3>4 DEF ChatInv, OneTurn
    <3>5. QED
      BY <1>2, <2>1, <3>3, <3>4 DEF InTurn
  <2>2. ASSUME NEW d \in Handler \ {c}, NEW b \in Handler \ {c}, d # b, InTurn(b)', InTurn(d)'
        PROVE conn'[d].msg # conn'[b].msg
    <3>1. InTurn(d) /\ InTurn(b)
      BY <1>2, <2>2 DEF InTurn
    <3>2. QED
      BY <1>2, <2>2, <3>1 DEF ChatInv, OneTurn
  <2>3. QED
    BY <1>2, <2>1, <2>2 DEF OneTurn
<1>9. QED
  BY <1>4, <1>5, <1>6, <1>7, <1>8 DEF ChatInv

\* One that says nothing and makes no session.
LEMMA SilentStep ==
    ASSUME ChatInv, UNCHANGED <<sessions, clock>>, turns' \in {turns, turns + 1}, turns' =< MaxTurns,
           NEW c \in Handler, NEW x \in Line, conn' = [conn EXCEPT ![c] = x],
           Chat!Fault \/ Chat!Fine, active' \in 0..Len(sessions),
           lost' \subseteq Nat, Chat!LostByLongTurn', NoncesFit', LineFits(c)', PongsFit(c)',
           x.pc \in {"load", "run", "commit"} => InTurn(c) /\ x.msg = conn[c].msg
    PROVE  ChatInv'
<1>1. ChatTypes /\ LogsFit /\ ContextsFit /\ turns \in Nat
  BY ChatTyped DEF ChatInv
<1>2. Said(0, Asks(0)) /\ sessions' \in Seq(Talk)
  BY <1>1, NothingSaid
<1>3. News(0, Asks(0))
  BY DEF News
<1>4. 0 \notin DOMAIN sessions'
  BY <1>2
<1>5. ContextsFit'
  <2>1. ASSUME NEW s \in DOMAIN sessions' PROVE /\ \A t \in sessions'[s].ctx : Told(s, t)'
           /\ \A t \in 1..turns' \ sessions'[s].ctx : InLog(s, Replies(t))' => Crosses(s, t)'
    BY <1>1, <1>2, <1>3, <1>4, ContextStays
  <2>2. QED
    BY <2>1 DEF ContextsFit
<1>6. OnceSaid'
  BY <1>1 DEF LogsFit, OnceSaid, Log
<1>7. turns' \in 0..MaxTurns /\ failures' \in 0..MaxFailures
  BY <1>1, FaultsCounted, ChatAssumption
<1>8. \A d \in Handler \ {c} : InTurn(d) => Asks(0) # Replies(conn[d].msg)
  BY EntriesDiffer
<1>9. QED
  BY <1>2, <1>3, <1>5, <1>6, <1>7, <1>8, LineStep

\* A connection that is closed, or that has yet to send its nonce.
LEMMA ShutFits ==
    ASSUME NEW c \in Handler, conn'[c].pc \in {"closed", "auth"}, conn'[c].msg = 0
    PROVE  LineFits(c)' /\ PongsFit(c)'
<1>1. conn'[c].pc \notin {"ready", "load", "run", "commit"}
  OBVIOUS
<1>2. LineFits(c)'
  BY <1>1 DEF LineFits, InTurn, IsOpen
<1>3. QED
  BY <1>1, <1>2 DEF PongsFit, InTurn

LEMMA ClosedTyped ==
    /\ Chat!Closed \in Line /\ Chat!Closed.pc = "closed" /\ Chat!Closed.msg = 0
    /\ \A t \in Nat : LET x == [Chat!Closed EXCEPT !.pc = "auth", !.since = t] IN
          x \in Line /\ x.pc = "auth" /\ x.msg = 0
<1>1. Chat!Closed \in Line /\ Chat!Closed.pc = "closed" /\ Chat!Closed.msg = 0
  BY ChatAssumption DEF Chat!Closed, Line, Phase
<1>2. ASSUME NEW t \in Nat, NEW x, x = [Chat!Closed EXCEPT !.pc = "auth", !.since = t]
      PROVE  x \in Line /\ x.pc = "auth" /\ x.msg = 0
  BY <1>1, <1>2 DEF Line, Phase
<1>3. QED
  BY <1>1, <1>2

LEMMA ShutStep ==
    ASSUME ChatInv, UNCHANGED <<sessions, clock, turns, active>>, NEW c \in Handler, NEW x \in Line,
           conn' = [conn EXCEPT ![c] = x], x.pc \in {"closed", "auth"}, x.msg = 0, Chat!Fault \/ Chat!Fine,
           NoncesFit', lost' \subseteq Nat, Chat!LostByLongTurn'
    PROVE  ChatInv'
<1>1. ChatTypes
  BY DEF ChatInv
<1>2. conn'[c] = x
  BY <1>1 DEF ChatTypes
<1>3. LineFits(c)' /\ PongsFit(c)'
  BY <1>2, ShutFits
<1>4. turns =< MaxTurns /\ active' \in 0..Len(sessions) /\ turns' \in {turns, turns + 1} /\ turns' =< MaxTurns
  BY <1>1, ChatAssumption DEF ChatTypes
<1>5. ~(x.pc \in {"load", "run", "commit"})
  OBVIOUS
<1>6. QED
  BY <1>3, <1>4, <1>5, SilentStep

LEMMA UpgradeStep == ASSUME ChatInv, NEW c \in Handler, Chat!Upgrade(c) PROVE ChatInv'
<1>1. clock \in Nat
  BY ChatTyped DEF ChatInv
<1>2. PICK x \in Line : x = [Chat!Closed EXCEPT !.pc = "auth", !.since = clock] /\ x.pc = "auth" /\ x.msg = 0
  BY <1>1, ClosedTyped
<1>3. conn' = [conn EXCEPT ![c] = x]
  BY <1>2 DEF Chat!Upgrade
<1>4. NoncesFit' /\ lost' \subseteq Nat /\ Chat!LostByLongTurn'
  BY NoncesRest DEF ChatInv, ChatTypes, Chat!Upgrade, Chat!LostByLongTurn
<1>5. QED
  BY <1>2, <1>3, <1>4, ShutStep DEF Chat!Upgrade

LEMMA RefuseStep == ASSUME ChatInv, NEW c \in Handler, Chat!Refuse(c) \/ Chat!Leave(c) PROVE ChatInv'
<1>1. PICK x \in Line : x = Chat!Closed /\ x.pc = "closed" /\ x.msg = 0
  BY ClosedTyped
<1>2. NoncesFit' /\ lost' \subseteq Nat /\ Chat!LostByLongTurn'
  BY NoncesRest DEF ChatInv, ChatTypes, Chat!Refuse, Chat!Leave, Chat!LostByLongTurn
<1>3. /\ conn' = [conn EXCEPT ![c] = x] /\ Chat!Fine
      /\ UNCHANGED <<sessions, clock, turns, active>>
  BY <1>1 DEF Chat!Refuse, Chat!Leave
<1>4. QED
  BY <1>1, <1>2, <1>3, ShutStep

\* Who is lost to the deadline had a turn longer than it.
LEMMA DropStep == ASSUME ChatInv, NEW c \in Handler, Chat!Drop(c) PROVE ChatInv'
<1>1. PICK x \in Line : x = Chat!Closed /\ x.pc = "closed" /\ x.msg = 0
  BY ClosedTyped
<1>2. conn[c].pc = "ready" /\ clock > conn[c].by /\ conn[c] \in Line
  <2>1. conn[c] \in Line
    BY ChatTyped DEF ChatInv
  <2>2. QED
    BY <2>1 DEF Chat!Drop
<1>3. conn[c].long > Deadline /\ conn[c].long \in Nat
  <2>1. clock >= conn[c].by
    <3>1. clock \in Nat
      BY ChatTyped DEF ChatInv
    <3>2. conn[c].by \in Nat
      BY <1>2 DEF Line
    <3>3. \A a, b \in Nat : a > b => a >= b
      OBVIOUS
    <3>4. QED
      BY <1>2, <3>1, <3>2, <3>3
  <2>2. QED
    BY <1>2, <2>1, StillHeard DEF ChatInv, Line
<1>4. lost' = lost \cup {conn[c].long}
  BY DEF Chat!Drop
<1>5. lost' \subseteq Nat /\ Chat!LostByLongTurn'
  BY <1>3, <1>4 DEF ChatInv, ChatTypes, Chat!LostByLongTurn
<1>6. NoncesFit'
  BY NoncesRest DEF ChatInv, Chat!Drop
<1>7. /\ conn' = [conn EXCEPT ![c] = x] /\ Chat!Fine
      /\ UNCHANGED <<sessions, clock, turns, active>>
  BY <1>1 DEF Chat!Drop
<1>8. QED
  BY <1>1, <1>5, <1>6, <1>7, ShutStep

-----------------------------------------------------------------------------
(* Nonces                                                                  *)

LEMMA NonceIssued == ASSUME ChatInv, Chat!Issue PROVE NoncesFit'
<1>1. PICK n \in Id \ DOMAIN issued :
         /\ nonces' = [x \in DOMAIN nonces \cup {n} |-> IF x = n THEN clock + NonceTtl ELSE nonces[x]]
         /\ issued' = [x \in DOMAIN issued \cup {n} |-> IF x = n THEN clock ELSE issued[x]]
  BY DEF Chat!Issue
<1>2. admitted' = admitted /\ clock \in Nat
  BY ChatTyped DEF Chat!Issue, ChatInv
<1>3. DOMAIN issued' = DOMAIN issued \cup {n} /\ DOMAIN nonces' = DOMAIN nonces \cup {n}
  BY <1>1
<1>4. /\ issued'[n] = clock /\ nonces'[n] = clock + NonceTtl
      /\ \A x \in DOMAIN issued : issued'[x] = issued[x]
      /\ \A x \in DOMAIN nonces : x # n /\ nonces'[x] = nonces[x]
  BY <1>1 DEF ChatInv, NoncesFit
<1>5. QED
  BY <1>2, <1>3, <1>4 DEF ChatInv, NoncesFit, Chat!NonceOnce

LEMMA NonceSwept == ASSUME ChatInv, Chat!Sweep PROVE NoncesFit'
<1>1. PICK n \in DOMAIN nonces : nonces' = [x \in DOMAIN nonces \ {n} |-> nonces[x]]
  BY DEF Chat!Sweep, Chat!Without
<1>2. UNCHANGED <<issued, admitted>>
  BY DEF Chat!Sweep
<1>3. DOMAIN nonces' = DOMAIN nonces \ {n} /\ \A x \in DOMAIN nonces' : nonces'[x] = nonces[x]
  BY <1>1
<1>4. QED
  BY <1>2, <1>3 DEF ChatInv, NoncesFit, Chat!NonceOnce

\* What is said stays said when nothing is.
LEMMA LogsRest ==
    ASSUME UNCHANGED <<sessions, turns>>
    PROVE  /\ \A s, t : /\ Told(s, t)' <=> Told(s, t)
                        /\ InLog(s, t)' <=> InLog(s, t)
                        /\ Crosses(s, t)' <=> Crosses(s, t)
           /\ \A s, e, f : Before(s, e, f)' <=> Before(s, e, f)
<1>1. \A s, e : InLog(s, e)' <=> InLog(s, e)
  BY DEF InLog, Log
<1>2. \A s, e, f : Before(s, e, f)' <=> Before(s, e, f)
  BY DEF Before, Log
<1>3. \A s, t : Crosses(s, t)' <=> Crosses(s, t)
  BY <1>2 DEF Crosses
<1>4. \A s, t : Told(s, t)' <=> Told(s, t)
  BY <1>1 DEF Told
<1>5. QED
  BY <1>1, <1>2, <1>3, <1>4

\* Steps that touch nonces alone.
LEMMA ChatSame ==
    ASSUME ChatInv, NoncesFit', UNCHANGED <<clock, conn, sessions, active, turns, failures, lost>>
    PROVE  ChatInv'
<1>1. ChatTypes'
  BY DEF ChatInv, ChatTypes
<1>2. Chat!LostByLongTurn'
  BY DEF ChatInv, Chat!LostByLongTurn
<1>3. \A c \in Handler : PongsFit(c)'
  BY DEF ChatInv, PongsFit, InTurn
<1>4. LogsFit'
  <2>1. OnceSaid'
    BY DEF ChatInv, LogsFit, OnceSaid, Log
  <2>2. \A s \in DOMAIN sessions' : \A i \in DOMAIN Log(s)' : Log(s)'[i].of \in 1..turns'
    BY DEF ChatInv, LogsFit, Log
  <2>3. \A s \in DOMAIN sessions' : \A t \in 1..turns' : InLog(s, Replies(t))' => Before(s, Asks(t), Replies(t))'
    BY LogsRest DEF ChatInv, LogsFit
  <2>4. QED
    BY <2>1, <2>2, <2>3 DEF LogsFit
<1>5. ContextsFit'
  BY LogsRest DEF ChatInv, ContextsFit
<1>6. LinesFit'
  <2>1. ASSUME NEW c \in Handler PROVE LineFits(c)'
    <3>1. LineFits(c)
      BY DEF ChatInv, LinesFit
    <3>2. conn'[c] = conn[c] /\ turns' = turns /\ sessions' = sessions
      OBVIOUS
    <3>3. QED
      BY <3>1, <3>2, LogsRest DEF LineFits, IsOpen, InTurn
  <2>2. QED
    BY <2>1 DEF LinesFit
<1>7. OneTurn'
  BY DEF ChatInv, OneTurn, InTurn
<1>8. QED
  BY <1>1, <1>2, <1>3, <1>4, <1>5, <1>6, <1>7 DEF ChatInv

LEMMA NonceStep == ASSUME ChatInv, Chat!Issue \/ Chat!Sweep PROVE ChatInv'
<1>1. NoncesFit'
  BY NonceIssued, NonceSwept
<1>2. UNCHANGED <<clock, conn, sessions, active, turns, failures, lost>>
  BY DEF Chat!Issue, Chat!Sweep, Chat!Fine
<1>3. QED
  BY <1>1, <1>2, ChatSame

\* A nonce is used up, and admits a connection unless it has expired.
LEMMA NonceUsed ==
    ASSUME ChatInv, NEW n \in DOMAIN nonces, nonces' = Chat!Without(nonces, n), issued' = issued, NEW c,
           \/ admitted' = admitted
           \/ ~(clock > nonces[n]) /\ admitted' = admitted \cup {[nonce |-> n, conn |-> c, at |-> clock]}
    PROVE  NoncesFit'
<1>1. DOMAIN nonces' = DOMAIN nonces \ {n} /\ \A x \in DOMAIN nonces' : nonces'[x] = nonces[x]
  BY DEF Chat!Without
<1>2. CASE admitted' = admitted
  BY <1>1, <1>2 DEF ChatInv, NoncesFit, Chat!NonceOnce
<1>3. CASE ~(clock > nonces[n]) /\ admitted' = admitted \cup {[nonce |-> n, conn |-> c, at |-> clock]}
  <2> DEFINE a == [nonce |-> n, conn |-> c, at |-> clock]
  <2>1. a.nonce = n /\ a.at = clock
    OBVIOUS
  <2>2. admitted' = admitted \cup {a}
    BY <1>3
  <2> HIDE DEF a
  <2>3. clock \in Nat /\ nonces[n] = issued[n] + NonceTtl /\ issued[n] \in Nat /\ NonceTtl \in Nat /\ n \in DOMAIN issued
    BY ChatTyped, ChatAssumption DEF ChatInv, NoncesFit
  <2>4. a.at =< issued[a.nonce] + NonceTtl
    BY <1>3, <2>1, <2>3
  <2>5. \A b \in admitted : b.nonce # n /\ b.nonce \in DOMAIN issued \ DOMAIN nonces
    BY DEF ChatInv, NoncesFit
  <2>6. Chat!NonceOnce'
    BY <2>1, <2>4, <2>2, <2>5 DEF ChatInv, NoncesFit, Chat!NonceOnce
  <2>7. \A b \in admitted' : b.nonce \in DOMAIN issued' \ DOMAIN nonces'
    BY <1>1, <2>1, <2>3, <2>2, <2>5
  <2>8. QED
    BY <1>1, <2>6, <2>7 DEF ChatInv, NoncesFit
<1>4. QED
  BY <1>2, <1>3

-----------------------------------------------------------------------------
(* Frames that are read                                                    *)

\* What a session shows is told in it.
LEMMA ShownIsTold ==
    ASSUME ChatTypes, LogsFit, NEW s \in DOMAIN sessions, NEW i \in DOMAIN Log(s)
    PROVE  Told(s, Log(s)[i].of)
<1>1. PICK x \in Chat!Entry : x = Log(s)[i] /\ InLog(s, x) /\ x.of \in 1..turns
  BY EntriesFit, ChatTyped DEF InLog
<1>2. x = Asks(x.of) \/ x = Replies(x.of)
  BY <1>1 DEF Asks, Replies, Chat!Entry
<1>3. InLog(s, Asks(x.of))
  BY <1>1, <1>2 DEF LogsFit, Before, InLog
<1>4. QED
  BY <1>1, <1>3 DEF Told

LEMMA ReadyFits ==
    ASSUME ChatInv, NEW c \in Handler, NEW x \in Line, conn'[c] = x, x.pc = "ready", x.msg = 0, clock' = clock,
           x.by = clock + Deadline, x.sess \in DOMAIN sessions', \A i \in DOMAIN x.history : Told(x.sess, x.history[i].of)'
    PROVE  LineFits(c)' /\ PongsFit(c)'
<1>1. x.pc \notin {"load", "run", "commit"}
  OBVIOUS
<1>2. LineFits(c)'
  BY <1>1 DEF LineFits, InTurn, IsOpen
<1>3. clock \in Nat /\ Deadline \in Nat /\ (x.by - Deadline) + 1..clock = {} /\ x.by >= Deadline
  BY ChatTyped, ChatAssumption DEF ChatInv
<1>4. QED
  BY <1>1, <1>2, <1>3 DEF PongsFit, InTurn

\* The line is ready with a session there is.
LEMMA ReadStep ==
    ASSUME ChatInv, UNCHANGED <<sessions, clock, lost>>, turns' \in {turns, turns + 1}, turns' =< MaxTurns,
           NEW c \in Handler, NEW x \in Line, conn' = [conn EXCEPT ![c] = x],
           Chat!Fault \/ Chat!Fine, active' \in 0..Len(sessions), NoncesFit', x.pc = "ready", x.msg = 0,
           x.by = clock + Deadline, x.sess \in DOMAIN sessions, \A i \in DOMAIN x.history : Told(x.sess, x.history[i].of)'
    PROVE  ChatInv'
<1>1. conn'[c] = x
  BY DEF ChatInv, ChatTypes
<1>2. LineFits(c)' /\ PongsFit(c)'
  BY <1>1, ReadyFits
<1>3. lost' \subseteq Nat /\ Chat!LostByLongTurn'
  BY DEF ChatInv, ChatTypes, Chat!LostByLongTurn
<1>4. ~(x.pc \in {"load", "run", "commit"})
  OBVIOUS
<1>5. QED
  BY <1>2, <1>3, <1>4, SilentStep

\* The line is ready with a new session.
LEMMA MadeStep ==
    ASSUME ChatInv, Chat!NewSession, UNCHANGED <<clock, turns, lost>>,
           NEW c \in Handler, NEW x \in Line, conn' = [conn EXCEPT ![c] = x],
           Chat!Fault \/ Chat!Fine, NoncesFit', x.pc = "ready", x.msg = 0,
           x.by = clock + Deadline, x.sess = active', x.history = << >>
    PROVE  ChatInv'
<1>1. ChatTypes /\ LogsFit /\ ContextsFit /\ turns \in 0..MaxTurns
  BY DEF ChatInv, ChatTypes
<1>2. conn'[c] = x
  BY <1>1 DEF ChatTypes
<1>3. PICK n : n = Len(sessions) + 1 /\ active' = n
  BY DEF Chat!NewSession
<1>4. /\ Said(0, Asks(0)) /\ sessions' \in Seq(Talk)
      /\ DOMAIN sessions' = DOMAIN sessions \cup {n} /\ Len(sessions') = n
      /\ \A s \in DOMAIN sessions : sessions'[s] = sessions[s]
      /\ Log(n)' = << >> /\ sessions'[n].ctx = {}
  BY <1>1, <1>3, SessionMade DEF Chat!NewSession
<1>5. News(0, Asks(0))
  BY DEF News
<1>6. 0 \notin DOMAIN sessions'
  BY <1>4
<1>7. ContextsFit'
  <2>1. ASSUME NEW s \in DOMAIN sessions'
        PROVE  /\ \A t \in sessions'[s].ctx : Told(s, t)'
               /\ \A t \in 1..turns' \ sessions'[s].ctx : InLog(s, Replies(t))' => Crosses(s, t)'
    <3>1. IF s \in DOMAIN sessions THEN sessions'[s].ctx = sessions[s].ctx ELSE sessions'[s].ctx = {}
      BY <1>4
    <3>2. QED
      BY <1>1, <1>4, <1>5, <1>6, <3>1, ContextStays
  <2>2. QED
    BY <2>1 DEF ContextsFit
<1>8. OnceSaid'
  <2>1. \A s \in DOMAIN sessions : Log(s)' = Log(s)
    BY <1>4 DEF Log
  <2>2. DOMAIN Log(n)' = {}
    BY <1>4
  <2>3. QED
    BY <1>1, <1>4, <2>1, <2>2 DEF LogsFit, OnceSaid
<1>9. active' \in 0..Len(sessions') /\ failures' \in 0..MaxFailures /\ turns' \in 0..MaxTurns
  BY <1>1, <1>3, <1>4, FaultsCounted
<1>10. lost' \subseteq Nat /\ Chat!LostByLongTurn'
  BY DEF ChatInv, ChatTypes, Chat!LostByLongTurn
<1>11. LineFits(c)' /\ PongsFit(c)'
  <2>1. x.sess \in DOMAIN sessions' /\ DOMAIN x.history = {}
    BY <1>3, <1>4
  <2>2. QED
    BY <1>2, <2>1, ReadyFits
<1>12. \A d \in Handler \ {c} : InTurn(d) => Asks(0) # Replies(conn[d].msg)
  BY EntriesDiffer
<1>13. ~(x.pc \in {"load", "run", "commit"})
  OBVIOUS
<1>14. QED
  BY <1>4, <1>5, <1>7, <1>8, <1>9, <1>10, <1>11, <1>12, <1>13, LineStep

LEMMA ReadyLine ==
    ASSUME ChatInv, NEW c \in Handler, conn[c].pc = "ready"
    PROVE  /\ conn[c] \in Line /\ conn[c].msg = 0 /\ conn[c].sess \in DOMAIN sessions
           /\ \A i \in DOMAIN conn[c].history : Told(conn[c].sess, conn[c].history[i].of)
<1>1. ~InTurn(c) /\ IsOpen(c) /\ LineFits(c)
  BY DEF ChatInv, LinesFit, InTurn, IsOpen
<1>2. conn[c].msg = 0
  BY <1>1 DEF LineFits
<1>3. QED
  BY <1>1, <1>2, ChatTyped DEF LineFits, ChatInv

LEMMA ToldRests ==
    ASSUME NEW s, NEW t, Told(s, t), UNCHANGED <<sessions, turns>> PROVE Told(s, t)'
BY DEF Told, InLog, Log

\* A connection that is opened with a session.
OpenedLine(b, s, h) == [Chat!Closed EXCEPT !.pc = "ready", !.by = b, !.sess = s, !.history = h]
LEMMA OpenedTyped ==
    ASSUME NEW b \in Nat, NEW s \in Nat, NEW h \in Seq(Chat!Entry), NEW x, x = OpenedLine(b, s, h)
    PROVE  x \in Line /\ x.pc = "ready" /\ x.msg = 0 /\ x.by = b /\ x.sess = s /\ x.history = h
<1> USE DEF OpenedLine
<1>1. Chat!Closed \in Line /\ Chat!Closed.msg = 0
  BY ClosedTyped
<1>2. x.pc = "ready" /\ x.msg = 0 /\ x.by = b /\ x.sess = s /\ x.history = h
  BY <1>1 DEF Line
<1>3. x \in Line
  BY <1>1 DEF Line, Phase
<1>4. QED
  BY <1>2, <1>3

LEMMA AuthStep == ASSUME ChatInv, NEW c \in Handler, Chat!Auth(c) PROVE ChatInv'
<1>1. PICK n \in DOMAIN nonces :
         /\ nonces' = Chat!Without(nonces, n)
         /\ IF clock > nonces[n] THEN conn' = [conn EXCEPT ![c] = Chat!Closed] /\ Chat!Fine /\ UNCHANGED <<admitted, sessions, active>>
            ELSE /\ admitted' = admitted \cup {[nonce |-> n, conn |-> c, at |-> clock]}
                 /\ \/ active # 0 /\ Chat!Fine /\ conn' = Chat!Opened(c, active) /\ UNCHANGED <<sessions, active>>
                    \/ active = 0 /\ Chat!Fine /\ Chat!NewSession /\ conn' = Chat!Opened(c, active')
                    \/ active # 0 /\ Chat!Fault /\ Chat!NewSession /\ conn' = Chat!Opened(c, active')
  BY DEF Chat!Auth
<1>2. UNCHANGED <<clock, issued, turns, lost>>
  BY DEF Chat!Auth
<1>3. NoncesFit' /\ lost' \subseteq Nat /\ Chat!LostByLongTurn'
  <2>1. NoncesFit'
    BY <1>1, <1>2, NonceUsed
  <2>2. QED
    BY <1>2, <2>1 DEF ChatInv, ChatTypes, Chat!LostByLongTurn
<1>4. CASE clock > nonces[n]
  <2>1. PICK x \in Line : x = Chat!Closed /\ x.pc = "closed" /\ x.msg = 0
    BY ClosedTyped
  <2>2. conn' = [conn EXCEPT ![c] = x] /\ Chat!Fine /\ UNCHANGED <<sessions, active>>
    BY <1>1, <1>4, <2>1
  <2>3. QED
    BY <1>2, <1>3, <2>1, <2>2, ShutStep
<1>5. clock \in Nat /\ clock + Deadline \in Nat /\ ChatTypes /\ LogsFit
  BY ChatTyped, ChatAssumption DEF ChatInv
<1>6. CASE active # 0 /\ Chat!Fine /\ conn' = Chat!Opened(c, active) /\ UNCHANGED <<sessions, active>>
  <2>1. active \in DOMAIN sessions /\ active \in Nat /\ active' \in 0..Len(sessions) /\ Log(active) \in Seq(Chat!Entry)
    <3>1. active \in 1..Len(sessions) /\ active' \in 0..Len(sessions)
      BY <1>5, <1>6 DEF ChatTypes
    <3>2. active \in DOMAIN sessions
      BY <1>5, <3>1 DEF ChatTypes
    <3>3. QED
      BY <1>5, <3>1, <3>2, ChatTyped
  <2>2. PICK x : x = OpenedLine(clock + Deadline, active, Log(active))
    OBVIOUS
  <2>3. x \in Line /\ x.pc = "ready" /\ x.msg = 0 /\ x.by = clock + Deadline /\ x.sess = active /\ x.history = Log(active)
    BY <2>2, <1>5, <2>1, OpenedTyped
  <2>4. conn' = [conn EXCEPT ![c] = x]
    BY <1>6, <2>2, <2>1, <2>3 DEF Chat!Opened, Log, OpenedLine
  <2>5. \A i \in DOMAIN x.history : Told(x.sess, x.history[i].of)
    BY <1>5, <2>1, <2>3, ShownIsTold
  <2>6. \A i \in DOMAIN x.history : Told(x.sess, x.history[i].of)'
    BY <1>2, <1>6, <2>5, ToldRests
  <2>7. turns' \in {turns, turns + 1} /\ turns' =< MaxTurns
    BY <1>2, <1>5, ChatAssumption DEF ChatTypes
  <2>8. QED
    BY <1>2, <1>3, <1>6, <2>1, <2>3, <2>4, <2>6, <2>7, ReadStep
<1>7. CASE (Chat!Fine \/ Chat!Fault) /\ Chat!NewSession /\ conn' = Chat!Opened(c, active')
  <2>1. PICK k \in Nat : k = Len(sessions) + 1 /\ active' = k
    BY <1>5, <1>7 DEF Chat!NewSession, ChatTypes
  <2>2. k \in DOMAIN sessions' /\ sessions'[k].log = << >>
    BY <1>5, <1>7, <2>1, SessionMade DEF Chat!NewSession, Log
  <2>3. << >> \in Seq(Chat!Entry)
    OBVIOUS
  <2>4. PICK h \in Seq(Chat!Entry) : h = << >>
    BY <2>3
  <2>5. PICK x : x = OpenedLine(clock + Deadline, k, h)
    OBVIOUS
  <2>6. x \in Line /\ x.pc = "ready" /\ x.msg = 0 /\ x.by = clock + Deadline /\ x.sess = k /\ x.history = h
    <3>1. clock + Deadline \in Nat /\ k \in Nat /\ h \in Seq(Chat!Entry)
      BY <1>5, <2>1, <2>4
    <3>2. QED
      BY <2>5, <3>1, OpenedTyped
  <2>7. conn' = [conn EXCEPT ![c] = x]
    <3>1. k \notin DOMAIN sessions
      BY <1>5, <2>1 DEF ChatTypes
    <3>2. QED
      BY <1>7, <2>5, <2>1, <2>4, <2>6, <3>1 DEF Chat!Opened, OpenedLine
  <2>8. QED
    BY <1>2, <1>3, <1>7, <2>1, <2>4, <2>6, <2>7, MadeStep
<1>8. QED
  BY <1>1, <1>4, <1>6, <1>7

\* A line whose record is changed by a frame.
ReadLine(y, b, s, h) == [[y EXCEPT !.sess = s, !.history = h] EXCEPT !.by = b]
LEMMA ReadTyped ==
    ASSUME NEW y \in Line, NEW b \in Nat, NEW s \in Nat, NEW h \in Seq(Chat!Entry), NEW x, x = ReadLine(y, b, s, h)
    PROVE  x \in Line /\ x.pc = y.pc /\ x.msg = y.msg /\ x.by = b /\ x.sess = s /\ x.history = h
<1> USE DEF ReadLine
<1>1. x.pc = y.pc /\ x.msg = y.msg /\ x.by = b /\ x.sess = s /\ x.history = h
  BY DEF Line
<1>2. x \in Line
  BY DEF Line
<1>3. QED
  BY <1>1, <1>2

LEMMA NewChatStep == ASSUME ChatInv, NEW c \in Handler, Chat!NewChat(c) PROVE ChatInv'
<1>1. ChatTypes /\ clock + Deadline \in Nat /\ conn[c] \in Line /\ conn[c].pc = "ready" /\ conn[c].msg = 0
  BY ChatTyped, ChatAssumption, ReadyLine DEF ChatInv, Chat!NewChat, Chat!Reading
<1>2. PICK n \in Nat : n = Len(sessions) + 1 /\ active' = n
  BY <1>1 DEF Chat!NewChat, Chat!NewSession, ChatTypes
<1>3. << >> \in Seq(Chat!Entry)
  OBVIOUS
<1>4. PICK none \in Seq(Chat!Entry) : none = << >>
  BY <1>3
<1>5. PICK x : x = ReadLine(conn[c], clock + Deadline, n, none)
  OBVIOUS
<1>6. x \in Line /\ x.pc = "ready" /\ x.msg = 0 /\ x.by = clock + Deadline /\ x.sess = n /\ x.history = none
  <2>1. clock + Deadline \in Nat /\ n \in Nat /\ none \in Seq(Chat!Entry) /\ conn[c] \in Line
    BY <1>1, <1>2, <1>4
  <2>2. x \in Line /\ x.pc = conn[c].pc /\ x.msg = conn[c].msg /\ x.by = clock + Deadline /\ x.sess = n /\ x.history = none
    BY <1>5, <2>1 DEF ReadLine, Line
  <2>3. QED
    BY <1>1, <2>2
<1>7. conn' = [conn EXCEPT ![c] = x]
  BY <1>2, <1>5, <1>4, <1>6 DEF Chat!NewChat, Chat!Read, ReadLine
<1>8. NoncesFit'
  BY NoncesRest DEF ChatInv, Chat!NewChat
<1>9. QED
  BY <1>2, <1>4, <1>6, <1>7, <1>8, MadeStep DEF Chat!NewChat

LEMMA SwitchStep == ASSUME ChatInv, NEW c \in Handler, Chat!Switch(c) PROVE ChatInv'
<1>1. ChatTypes /\ LogsFit /\ clock + Deadline \in Nat /\ conn[c] \in Line /\ conn[c].pc = "ready" /\ conn[c].msg = 0
  <2>1. conn[c].pc = "ready"
    BY DEF Chat!Switch, Chat!Reading
  <2>2. ChatTypes /\ LogsFit
    BY DEF ChatInv
  <2>3. conn[c] \in Line /\ conn[c].msg = 0
    BY <2>1, ReadyLine
  <2>4. clock + Deadline \in Nat
    BY <2>2, ChatTyped, ChatAssumption
  <2>5. QED
    BY <2>1, <2>2, <2>3, <2>4
<1>2. UNCHANGED <<clock, nonces, issued, admitted, sessions, turns, lost>>
  BY DEF Chat!Switch
<1>3. NoncesFit' /\ turns' \in {turns, turns + 1} /\ turns' =< MaxTurns
  BY <1>1, <1>2, NoncesRest, ChatAssumption DEF ChatInv, ChatTypes
<1>4. PICK s \in DOMAIN sessions :
         \/ /\ active' = s /\ Chat!Fine
            /\ conn' = [conn EXCEPT ![c] = Chat!Read(c, [@ EXCEPT !.sess = s, !.history = sessions[s].log])]
         \/ /\ active' \in {active, s} /\ Chat!Fault
            /\ conn' = [conn EXCEPT ![c] = Chat!Read(c, @)]
  BY DEF Chat!Switch
<1>5. s \in Nat /\ s \in 0..Len(sessions) /\ Log(s) \in Seq(Chat!Entry) /\ active' \in 0..Len(sessions)
  <2>1. s \in Nat /\ s \in 0..Len(sessions)
    BY <1>1 DEF ChatTypes
  <2>2. active' \in 0..Len(sessions)
    BY <1>1, <1>4, <2>1 DEF ChatTypes
  <2>3. QED
    BY <1>1, <2>1, <2>2, ChatTyped
<1>6. CASE conn' = [conn EXCEPT ![c] = Chat!Read(c, [@ EXCEPT !.sess = s, !.history = sessions[s].log])]
  <2>1. PICK x : x = ReadLine(conn[c], clock + Deadline, s, Log(s))
    OBVIOUS
  <2>2. x \in Line /\ x.pc = "ready" /\ x.msg = 0 /\ x.by = clock + Deadline /\ x.sess = s /\ x.history = Log(s)
    <3>1. clock + Deadline \in Nat /\ s \in Nat /\ Log(s) \in Seq(Chat!Entry) /\ conn[c] \in Line
      BY <1>1, <1>5
    <3>2. /\ x \in Line /\ x.pc = conn[c].pc /\ x.msg = conn[c].msg /\ x.by = clock + Deadline /\ x.sess = s
          /\ x.history = Log(s)
      BY <2>1, <3>1, ReadTyped
    <3>3. QED
      BY <1>1, <3>2
  <2>3. conn' = [conn EXCEPT ![c] = x]
    BY <1>6, <2>1, <2>2 DEF Chat!Read, Log, ReadLine
  <2>4. \A i \in DOMAIN x.history : Told(x.sess, x.history[i].of)'
    BY <1>1, <1>2, <2>2, ShownIsTold, ToldRests
  <2>5. QED
    BY <1>2, <1>3, <1>4, <1>5, <2>2, <2>3, <2>4, ReadStep
<1>7. CASE conn' = [conn EXCEPT ![c] = Chat!Read(c, @)]
  <2>1. PICK x : x = [conn[c] EXCEPT !.by = clock + Deadline]
    OBVIOUS
  <2>2. x \in Line /\ x.pc = "ready" /\ x.msg = 0 /\ x.by = clock + Deadline /\ x.sess = conn[c].sess /\ x.history = conn[c].history
    BY <2>1, <1>1 DEF Line
  <2>3. conn' = [conn EXCEPT ![c] = x]
    BY <1>7, <2>1, <2>2 DEF Chat!Read
  <2>4. x.sess \in DOMAIN sessions /\ \A i \in DOMAIN x.history : Told(x.sess, x.history[i].of)
    BY <1>1, <2>2, ReadyLine
  <2>5. \A i \in DOMAIN x.history : Told(x.sess, x.history[i].of)'
    BY <1>2, <2>4, ToldRests
  <2>6. QED
    BY <1>2, <1>3, <1>4, <1>5, <2>2, <2>3, <2>4, <2>5, ReadStep
<1>8. QED
  BY <1>4, <1>6, <1>7

-----------------------------------------------------------------------------
(* A message                                                               *)

\* An entry that is new keeps the others where they were.
LEMMA OnceStays ==
    ASSUME ChatTypes, OnceSaid, NEW z \in DOMAIN sessions, NEW e, \A r \in DOMAIN sessions : ~InLog(r, e),
           DOMAIN sessions' = DOMAIN sessions, Log(z)' = Append(Log(z), e),
           \A s \in DOMAIN sessions \ {z} : sessions'[s] = sessions[s]
    PROVE  OnceSaid'
<1>1. \A s \in DOMAIN sessions \ {z} : Log(s)' = Log(s)
  BY DEF Log
<1>2. Len(Log(z)) \in Nat /\ DOMAIN Log(z) = 1..Len(Log(z)) /\ Log(z) \in Seq(Chat!Entry)
  BY ChatTyped
<1>3. PICK k : k = Len(Log(z)) + 1
  OBVIOUS
<1>4. /\ DOMAIN Log(z)' = DOMAIN Log(z) \cup {k} /\ Log(z)'[k] = e /\ k \notin DOMAIN Log(z)
      /\ \A i \in DOMAIN Log(z) : Log(z)'[i] = Log(z)[i]
  BY <1>2, <1>3
<1>5. \A r \in DOMAIN sessions : \A j \in DOMAIN Log(r) : Log(r)[j] # e
  BY DEF InLog
<1>6. ASSUME NEW s \in DOMAIN sessions', NEW r \in DOMAIN sessions', NEW i \in DOMAIN Log(s)', NEW j \in DOMAIN Log(r)',
             Log(s)'[i] = Log(r)'[j]
      PROVE  s = r /\ i = j
  <2>1. s \in DOMAIN sessions /\ r \in DOMAIN sessions
    OBVIOUS
  <2>2. (s = z /\ i = k) \/ (i \in DOMAIN Log(s) /\ Log(s)'[i] = Log(s)[i])
    <3>1. CASE s = z
      BY <1>4, <3>1 DEF Log
    <3>2. CASE s # z
      BY <1>1, <2>1, <3>2
    <3>3. QED
      BY <3>1, <3>2
  <2>3. (r = z /\ j = k) \/ (j \in DOMAIN Log(r) /\ Log(r)'[j] = Log(r)[j])
    <3>1. CASE r = z
      BY <1>4, <3>1 DEF Log
    <3>2. CASE r # z
      BY <1>1, <2>1, <3>2
    <3>3. QED
      BY <3>1, <3>2
  <2>4. QED
    <3>1. CASE i \in DOMAIN Log(s) /\ Log(s)'[i] = Log(s)[i] /\ j \in DOMAIN Log(r) /\ Log(r)'[j] = Log(r)[j]
      <4>1. Log(s)[i] = Log(r)[j]
        BY <1>6, <3>1
      <4>2. QED
        BY <2>1, <3>1, <4>1 DEF OnceSaid
    <3>2. CASE s = z /\ i = k /\ j \in DOMAIN Log(r) /\ Log(r)'[j] = Log(r)[j]
      BY <1>4, <1>5, <1>6, <2>1, <3>2 DEF Log
    <3>3. CASE r = z /\ j = k /\ i \in DOMAIN Log(s) /\ Log(s)'[i] = Log(s)[i]
      BY <1>4, <1>5, <1>6, <2>1, <3>3 DEF Log
    <3>4. QED
      BY <2>2, <2>3, <3>1, <3>2, <3>3
<1>7. QED
  BY <1>6 DEF OnceSaid

\* A session as it shows itself after an entry was added.
LEMMA AddedIsTold ==
    ASSUME ChatTypes, LogsFit, NEW z \in DOMAIN sessions, NEW e, Said(z, e), News(z, e), 0 \notin DOMAIN sessions',
           Log(z)' = Append(Log(z), e), Told(z, e.of)', NEW h, h = Append(Log(z), e), NEW i \in DOMAIN h
    PROVE  Told(z, h[i].of)'
<1>1. Log(z) \in Seq(Chat!Entry) /\ Len(Log(z)) \in Nat /\ DOMAIN Log(z) = 1..Len(Log(z))
  BY ChatTyped
<1>2. (i \in DOMAIN Log(z) /\ h[i] = Log(z)[i]) \/ h[i] = e
  BY <1>1
<1>3. CASE i \in DOMAIN Log(z) /\ h[i] = Log(z)[i]
  <2>1. PICK t : t = h[i].of
    OBVIOUS
  <2>2. Told(z, t)
    BY <1>3, <2>1, ShownIsTold
  <2>3. Told(z, t)'
    BY <2>2, ToldStays
  <2>4. QED
    BY <2>1, <2>3
<1>4. CASE h[i] = e
  <2>1. PICK t : t = e.of
    OBVIOUS
  <2>2. h[i].of = t /\ Told(z, t)'
    BY <1>4, <2>1
  <2>3. QED
    BY <2>2
<1>5. QED
  BY <1>2, <1>3, <1>4

SaidLine(y, q, h, t, b) ==
    [[y EXCEPT !.pc = "load", !.past = y.history, !.msg = q, !.history = h, !.since = t] EXCEPT !.by = b]
LEMMA SaidTyped ==
    ASSUME NEW y \in Line, NEW q \in 0..MaxTurns, NEW h \in Seq(Chat!Entry), NEW t \in Nat, NEW b \in Nat,
           NEW x, x = SaidLine(y, q, h, t, b)
    PROVE  /\ x \in Line /\ x.pc = "load" /\ x.past = y.history /\ x.msg = q /\ x.history = h /\ x.since = t /\ x.by = b
           /\ x.sess = y.sess
<1> USE DEF SaidLine
<1>1. x.pc = "load" /\ x.past = y.history /\ x.msg = q /\ x.history = h /\ x.since = t /\ x.by = b /\ x.sess = y.sess
  BY DEF Line
<1>2. x \in Line
  BY DEF Line, Phase
<1>3. QED
  BY <1>1, <1>2

\* The message is stored.
LEMMA SayStored ==
    ASSUME ChatInv, NEW c \in Handler, Chat!Say(c), NEW z, z = conn[c].sess, Chat!Fine,
           sessions' = [sessions EXCEPT ![z].log = Append(@, [of |-> turns + 1, by |-> "user"])],
           conn' = [conn EXCEPT ![c] = Chat!Read(c, [@ EXCEPT !.pc = "load", !.past = conn[c].history, !.msg = turns + 1,
                                                               !.history = sessions'[z].log, !.since = clock])]
    PROVE  ChatInv'
<1>1. ChatTypes /\ LogsFit /\ ContextsFit /\ OnceSaid
  BY DEF ChatInv, LogsFit
<1>2. /\ clock \in Nat /\ clock + Deadline \in Nat /\ turns \in Nat /\ conn[c] \in Line /\ z \in DOMAIN sessions
      /\ \A i \in DOMAIN conn[c].history : Told(z, conn[c].history[i].of)
  <2>1. conn[c].pc = "ready"
    BY DEF Chat!Say, Chat!Reading
  <2>2. /\ conn[c] \in Line /\ z \in DOMAIN sessions
        /\ \A i \in DOMAIN conn[c].history : Told(z, conn[c].history[i].of)
    BY <2>1, ReadyLine
  <2>3. clock \in Nat /\ clock + Deadline \in Nat /\ turns \in Nat
    BY <1>1, ChatTyped, ChatAssumption
  <2>4. QED
    BY <2>1, <2>2, <2>3
<1>3. /\ UNCHANGED <<clock, nonces, issued, admitted, active, lost>> /\ turns' = turns + 1
      /\ turns + 1 \in 1..MaxTurns /\ turns' \in 0..MaxTurns
  BY <1>2, ChatAssumption DEF Chat!Say
<1>4. PICK q : q = turns + 1
  OBVIOUS
<1>5. PICK e : e = Asks(q)
  OBVIOUS
<1>6. e \in Chat!Entry /\ e.of = q /\ e = [of |-> q, by |-> "user"]
  BY <1>3, <1>4, <1>5 DEF Asks, Chat!Entry
<1>7. sessions[z] \in Talk /\ Log(z) \in Seq(Chat!Entry)
  BY <1>1, <1>2, ChatTyped
<1>8. PICK new : new = [sessions[z] EXCEPT !.log = Append(@, e)]
  OBVIOUS
<1>9. new \in Talk /\ new.log = Append(Log(z), e) /\ new.ctx = sessions[z].ctx
  <2>1. Append(Log(z), e) \in Seq(Chat!Entry) /\ Log(z) = sessions[z].log
    BY <1>6, <1>7 DEF Log
  <2>2. QED
    BY <1>7, <1>8, <2>1 DEF Talk
<1>10. sessions' = [sessions EXCEPT ![z] = new]
  BY <1>6, <1>4, <1>8
<1>11. /\ Said(z, e) /\ sessions' \in Seq(Talk) /\ DOMAIN sessions' = DOMAIN sessions /\ Len(sessions') = Len(sessions)
       /\ sessions'[z] = new /\ \A s \in DOMAIN sessions \ {z} : sessions'[s] = sessions[s]
       /\ Log(z)' = Append(Log(z), e)
  <2>1. z \in DOMAIN sessions /\ e \in Chat!Entry /\ new \in Talk /\ new.log = Append(Log(z), e)
    BY <1>2, <1>6, <1>9
  <2>2. Said(z, e)
    BY <1>1, <1>10, <2>1, EntrySaid
  <2>3. sessions' \in Seq(Talk) /\ DOMAIN sessions' = DOMAIN sessions /\ Len(sessions') = Len(sessions)
    BY <1>1, <1>10, <2>1 DEF ChatTypes
  <2>4. sessions'[z] = new /\ \A s \in DOMAIN sessions \ {z} : sessions'[s] = sessions[s]
    BY <1>1, <1>10, <2>1, EntrySaid
  <2>5. Log(z)' = Append(Log(z), e)
    BY <1>1, <1>10, <2>1, EntrySaid
  <2>6. QED
    BY <2>2, <2>3, <2>4, <2>5
<1>12. News(z, e)
  BY <1>2, <1>3, <1>5, <1>4 DEF News
<1>13. 0 \notin DOMAIN sessions'
  <2>1. DOMAIN sessions' = DOMAIN sessions
    BY <1>11
  <2>2. 0 \notin DOMAIN sessions
    BY <1>1, ChatTyped
  <2>3. QED
    BY <2>1, <2>2
<1>14. \A r \in DOMAIN sessions : ~InLog(r, e)
  <2>1. q \notin 1..turns
    BY <1>2, <1>4
  <2>2. QED
    BY <1>1, <1>6, <2>1, EntriesFit
<1>15. OnceSaid'
  BY <1>1, <1>2, <1>11, <1>14, OnceStays
<1>16. ContextsFit'
  <2>1. ASSUME NEW s \in DOMAIN sessions'
        PROVE  /\ \A t \in sessions'[s].ctx : Told(s, t)'
               /\ \A t \in 1..turns' \ sessions'[s].ctx : InLog(s, Replies(t))' => Crosses(s, t)'
    <3>1. IF s \in DOMAIN sessions THEN sessions'[s].ctx = sessions[s].ctx ELSE sessions'[s].ctx = {}
      BY <1>9, <1>11
    <3>2. QED
      BY <1>1, <1>5, <1>4, <1>11, <1>12, <1>13, <3>1, ContextStays
  <2>2. QED
    BY <2>1 DEF ContextsFit
<1>17. Append(Log(z), e) \in Seq(Chat!Entry)
  BY <1>6, <1>7
<1>18. PICK h \in Seq(Chat!Entry) : h = Append(Log(z), e)
  BY <1>17
<1>19. PICK x : x = SaidLine(conn[c], q, h, clock, clock + Deadline)
  OBVIOUS
<1>20. /\ x \in Line /\ x.pc = "load" /\ x.past = conn[c].history /\ x.msg = q /\ x.history = h /\ x.since = clock
       /\ x.by = clock + Deadline /\ x.sess = z
  <2>1. conn[c] \in Line /\ q \in 0..MaxTurns /\ h \in Seq(Chat!Entry) /\ clock \in Nat /\ clock + Deadline \in Nat
    BY <1>2, <1>3, <1>4, <1>18
  <2>2. QED
    BY <1>19, <2>1, SaidTyped
<1>21. conn' = [conn EXCEPT ![c] = x] /\ conn'[c] = x
  <2>1. sessions'[z].log = h
    BY <1>9, <1>11, <1>18
  <2>2. conn' = [conn EXCEPT ![c] = x]
    BY <1>19, <1>4, <2>1 DEF Chat!Read, SaidLine
  <2>3. QED
    BY <1>1, <2>2 DEF ChatTypes
<1>22. InLog(z, e)' /\ Told(z, e.of)' /\ \A r \in DOMAIN sessions' : ~InLog(r, Replies(q))'
  <2>1. InLog(z, e)'
    BY <1>2, <1>11 DEF Said
  <2>2. Told(z, q)'
    BY <1>2, <1>3, <1>5, <1>4, <2>1 DEF Told
  <2>3. ASSUME NEW r \in DOMAIN sessions' PROVE ~InLog(r, Replies(q))'
    <3>1. ~InLog(r, Replies(q)) /\ Replies(q) # e
      <4>1. q \notin 1..turns /\ r \in DOMAIN sessions
        BY <1>2, <1>4, <1>11
      <4>2. Replies(q).of = q /\ Replies(q) # e
        BY <1>5, EntriesDiffer
      <4>3. QED
        BY <1>1, <4>1, <4>2, EntriesFit
    <3>2. QED
      BY <1>11, <3>1 DEF Said
  <2>4. QED
    BY <1>6, <2>1, <2>2, <2>3
<1>23. \A i \in DOMAIN h : Told(z, h[i].of)'
  BY <1>1, <1>2, <1>11, <1>12, <1>13, <1>18, <1>22, AddedIsTold
<1>24. \A i \in DOMAIN x.past : Told(z, x.past[i].of)'
  BY <1>1, <1>2, <1>11, <1>12, <1>13, <1>20, ToldStays
<1>25. LineFits(c)' /\ PongsFit(c)'
  <2>1. InTurn(c)' /\ IsOpen(c)' /\ conn'[c].pc = "load" /\ conn'[c].msg # 0 /\ conn'[c].msg \in 1..turns'
    BY <1>2, <1>3, <1>4, <1>20, <1>21 DEF InTurn, IsOpen
  <2>2. z \in DOMAIN sessions' /\ InLog(z, Asks(q))' /\ conn'[c].sess = z
    BY <1>2, <1>5, <1>11, <1>20, <1>21, <1>22
  <2>3. LineFits(c)'
    <3>1. (conn'[c].msg # 0) = InTurn(c)' /\ conn'[c].pc \notin {"run", "commit"}
      BY <1>20, <1>21, <2>1 DEF InTurn
    <3>2. conn'[c].msg = q /\ conn'[c].history = h /\ conn'[c].past = x.past
      BY <1>20, <1>21
    <3>3. QED
      BY <1>22, <1>23, <1>24, <2>1, <2>2, <3>1, <3>2 DEF LineFits
  <2>4. PongsFit(c)'
    BY <1>2, <1>3, <1>20, <1>21 DEF PongsFit, InTurn
  <2>5. QED
    BY <2>3, <2>4
<1>26. NoncesFit' /\ lost' \subseteq Nat /\ Chat!LostByLongTurn' /\ failures' \in 0..MaxFailures /\ active' \in 0..Len(sessions')
  BY <1>1, <1>3, <1>11, NoncesRest, FaultsCounted DEF ChatInv, ChatTypes, Chat!LostByLongTurn
<1>27. \A d \in Handler \ {c} : InTurn(d) => e # Replies(conn[d].msg)
  BY <1>5, EntriesDiffer
<1>28. x.msg = turns + 1 /\ clock' = clock /\ turns' \in 0..MaxTurns
  BY <1>3, <1>4, <1>20
<1>29. Said(z, e) /\ sessions' \in Seq(Talk)
  BY <1>11
<1>30. QED
  <2>1. x \in Line /\ conn' = [conn EXCEPT ![c] = x]
    BY <1>20, <1>21
  <2>2. \/ x.msg = turns + 1
        \/ InTurn(c) /\ x.msg = conn[c].msg
    BY <1>28
  <2>3. QED
    BY <1>12, <1>15, <1>16, <1>25, <1>26, <1>27, <1>28, <1>29, <2>1, <2>2, LineStep

\* The message is in the connection's history alone.
LEMMA SayLost ==
    ASSUME ChatInv, NEW c \in Handler, Chat!Say(c), Chat!Fault, UNCHANGED sessions,
           conn' = [conn EXCEPT ![c] = Chat!Read(c, [@ EXCEPT !.history = Append(conn[c].history, [of |-> turns + 1, by |-> "user"])])]
    PROVE  ChatInv'
<1>1. ChatTypes /\ LogsFit
  BY DEF ChatInv
<1>2. /\ clock \in Nat /\ clock + Deadline \in Nat /\ turns \in Nat /\ conn[c] \in Line /\ conn[c].sess \in DOMAIN sessions
      /\ conn[c].pc = "ready" /\ conn[c].msg = 0
      /\ \A i \in DOMAIN conn[c].history : Told(conn[c].sess, conn[c].history[i].of)
  <2>1. conn[c].pc = "ready"
    BY DEF Chat!Say, Chat!Reading
  <2>2. /\ conn[c] \in Line /\ conn[c].sess \in DOMAIN sessions /\ conn[c].msg = 0
        /\ \A i \in DOMAIN conn[c].history : Told(conn[c].sess, conn[c].history[i].of)
    BY <2>1, ReadyLine
  <2>3. clock \in Nat /\ clock + Deadline \in Nat /\ turns \in Nat
    BY <1>1, ChatTyped, ChatAssumption
  <2>4. QED
    BY <2>1, <2>2, <2>3
<1>3. /\ UNCHANGED <<clock, nonces, issued, admitted, active, lost>> /\ turns' = turns + 1
      /\ turns + 1 \in 1..MaxTurns /\ turns' =< MaxTurns /\ turns' \in {turns, turns + 1}
  BY <1>2, ChatAssumption DEF Chat!Say
<1>4. PICK q, e : q = turns + 1 /\ e = Asks(q)
  OBVIOUS
<1>5. e \in Chat!Entry /\ e.of = q /\ e = [of |-> q, by |-> "user"]
  BY <1>3, <1>4 DEF Asks, Chat!Entry
<1>6. PICK g \in Seq(Chat!Entry) : g = conn[c].history
  BY <1>2 DEF Line
<1>7. PICK h : h = Append(g, e)
  OBVIOUS
<1>8. h \in Seq(Chat!Entry) /\ \A i \in DOMAIN h : (i \in DOMAIN g /\ h[i] = g[i]) \/ h[i] = e
  BY <1>5, <1>6, <1>7
<1>9. PICK x : x = ReadLine(conn[c], clock + Deadline, conn[c].sess, h)
  OBVIOUS
<1>10. x \in Line /\ x.pc = "ready" /\ x.msg = 0 /\ x.by = clock + Deadline /\ x.sess = conn[c].sess /\ x.history = h
  <2>1. conn[c] \in Line /\ clock + Deadline \in Nat /\ conn[c].sess \in Nat /\ h \in Seq(Chat!Entry)
    BY <1>2, <1>8 DEF Line
  <2>2. x \in Line /\ x.pc = conn[c].pc /\ x.msg = conn[c].msg /\ x.by = clock + Deadline /\ x.sess = conn[c].sess /\ x.history = h
    BY <1>9, <2>1 DEF ReadLine, Line
  <2>3. QED
    BY <1>2, <2>2
<1>11. conn' = [conn EXCEPT ![c] = x]
  <2>1. x = [[conn[c] EXCEPT !.history = h] EXCEPT !.by = clock + Deadline]
    BY <1>2, <1>9 DEF ReadLine, Line
  <2>2. h = Append(conn[c].history, [of |-> turns + 1, by |-> "user"])
    BY <1>4, <1>5, <1>6, <1>7
  <2>3. x = Chat!Read(c, [conn[c] EXCEPT !.history = Append(conn[c].history, [of |-> turns + 1, by |-> "user"])])
    BY <2>1, <2>2 DEF Chat!Read
  <2>4. QED
    BY <2>3
<1>12. PICK z : z = conn[c].sess
  OBVIOUS
<1>13. Told(z, q)'
  <2>1. q \notin 1..turns /\ q \in 1..turns' /\ Asks(q).of = q
    BY <1>2, <1>3, <1>4, EntriesDiffer
  <2>2. \A r \in DOMAIN sessions : ~InLog(r, Asks(q))
    BY <1>1, <2>1, EntriesFit
  <2>3. \A r \in DOMAIN sessions' : ~InLog(r, Asks(q))'
    BY <2>2 DEF InLog, Log
  <2>4. QED
    BY <2>1, <2>3 DEF Told
<1>14. \A t : Told(z, t) => Told(z, t)'
  BY <1>2, <1>3 DEF Told, InLog, Log
<1>15. \A i \in DOMAIN x.history : Told(x.sess, x.history[i].of)'
  <2>1. ASSUME NEW i \in DOMAIN h PROVE Told(z, h[i].of)'
    <3>1. PICK t : t = h[i].of
      OBVIOUS
    <3>2. t = q \/ Told(z, t)
      BY <1>2, <1>5, <1>6, <1>8, <1>12, <3>1
    <3>3. QED
      BY <1>13, <1>14, <3>1, <3>2
  <2>2. QED
    BY <1>10, <1>12, <2>1
<1>16. NoncesFit' /\ active' \in 0..Len(sessions)
  BY <1>1, <1>3, NoncesRest DEF ChatInv, ChatTypes
<1>17. UNCHANGED <<sessions, clock, lost>> /\ x.sess \in DOMAIN sessions
  BY <1>2, <1>3, <1>10
<1>18. QED
  BY <1>3, <1>10, <1>11, <1>15, <1>16, <1>17, ReadStep

LEMMA SayStep == ASSUME ChatInv, NEW c \in Handler, Chat!Say(c) PROVE ChatInv'
<1>1. PICK z : z = conn[c].sess
  OBVIOUS
<1>2. \/ /\ sessions' = [sessions EXCEPT ![z].log = Append(@, [of |-> turns + 1, by |-> "user"])] /\ Chat!Fine
         /\ conn' = [conn EXCEPT ![c] = Chat!Read(c, [@ EXCEPT !.pc = "load", !.past = conn[c].history, !.msg = turns + 1,
                                                               !.history = sessions'[z].log, !.since = clock])]
      \/ /\ Chat!Fault /\ UNCHANGED sessions
         /\ conn' = [conn EXCEPT ![c] = Chat!Read(c, [@ EXCEPT !.history = Append(conn[c].history, [of |-> turns + 1, by |-> "user"])])]
  BY <1>1 DEF Chat!Say
<1>3. QED
  BY <1>1, <1>2, SayStored, SayLost

-----------------------------------------------------------------------------
(* A turn                                                                  *)

LEMMA TurnLine ==
    ASSUME ChatInv, NEW c \in Handler, InTurn(c)
    PROVE  /\ conn[c] \in Line /\ conn[c].msg \in 1..turns /\ conn[c].sess \in DOMAIN sessions
           /\ InLog(conn[c].sess, Asks(conn[c].msg)) /\ \A r \in DOMAIN sessions : ~InLog(r, Replies(conn[c].msg))
           /\ \A i \in DOMAIN conn[c].history : Told(conn[c].sess, conn[c].history[i].of)
           /\ \A i \in DOMAIN conn[c].past : Told(conn[c].sess, conn[c].past[i].of)
           /\ conn[c].by = conn[c].since + Deadline /\ conn[c].since =< clock
<1>1. IsOpen(c) /\ LineFits(c) /\ PongsFit(c) /\ conn[c] \in Line
  BY ChatTyped DEF ChatInv, LinesFit, IsOpen
<1>2. QED
  BY <1>1 DEF LineFits, PongsFit

\* The deadline after a turn is counted from the pongs that were found, or the
\* turn was too long for them, or none came.
LEMMA EndedFits ==
    ASSUME ChatInv, NEW c \in Handler, InTurn(c), clock' = clock, NEW x \in Line, conn'[c] = x, x.pc = "ready",
           x.long = clock - conn[c].since, x.by = IF Chat!PongWaits(c) THEN clock + Deadline ELSE conn[c].by
    PROVE  PongsFit(c)'
<1>1. /\ conn[c].by = conn[c].since + Deadline /\ conn[c].since =< clock
      /\ clock \in Nat /\ Deadline \in Nat /\ conn[c].since \in Nat /\ conn[c].by \in Nat
  BY TurnLine, ChatTyped, ChatAssumption DEF ChatInv, Line
<1>2. ~InTurn(c)'
  BY DEF InTurn
<1>3. CASE Chat!PongWaits(c)
  <2>1. x.by >= Deadline /\ (x.by - Deadline) + 1..clock = {}
    BY <1>1, <1>3
  <2>2. QED
    BY <1>2, <2>1 DEF PongsFit
<1>4. CASE ~Chat!PongWaits(c)
  <2>1. x.by >= Deadline /\ x.by - Deadline = conn[c].since
    BY <1>1, <1>4
  <2>2. x.long > Deadline \/ \A t \in conn[c].since + 1..clock : t % Ping # 0
    BY <1>1, <1>4 DEF Chat!PongWaits
  <2>3. QED
    BY <1>2, <2>1, <2>2 DEF PongsFit
<1>5. QED
  BY <1>3, <1>4

LEMMA EndedIs ==
    ASSUME ChatInv, NEW c \in Handler, InTurn(c)
    PROVE  \E x \in Line : /\ x = Chat!Ended(c) /\ x.pc = "ready" /\ x.msg = 0 /\ x.sess = conn[c].sess
                           /\ x.history = conn[c].history /\ x.long = clock - conn[c].since
                           /\ x.by = IF Chat!PongWaits(c) THEN clock + Deadline ELSE conn[c].by
<1>1. /\ conn[c].since =< clock /\ clock \in Nat /\ Deadline \in Nat /\ conn[c].since \in Nat /\ conn[c].by \in Nat
      /\ conn[c] \in Line
  BY TurnLine, ChatTyped, ChatAssumption DEF ChatInv, Line
<1>2. PICK l \in Nat, b \in Nat : l = clock - conn[c].since /\ b = IF Chat!PongWaits(c) THEN clock + Deadline ELSE conn[c].by
  BY <1>1
<1>3. PICK y \in Line : y = conn[c]
  BY <1>1
<1>4. << >> \in Seq(Chat!Entry)
  OBVIOUS
<1>5. PICK zero \in 0..MaxTurns : zero = 0
  BY ChatAssumption
<1>6. PICK none \in Seq(Chat!Entry) : none = << >>
  BY <1>4
<1>7. PICK x : x = [y EXCEPT !.pc = "ready", !.long = l, !.msg = zero, !.ctx = {}, !.past = none, !.by = b]
  OBVIOUS
<1>8. x.pc = "ready" /\ x.long = l /\ x.msg = 0 /\ x.by = b /\ x.sess = y.sess /\ x.history = y.history
  BY <1>5, <1>6, <1>7 DEF Line
<1>9. x \in Line
  BY <1>7 DEF Line, Phase
<1>10. x = Chat!Ended(c)
  BY <1>2, <1>3, <1>5, <1>6, <1>7 DEF Chat!Ended
<1>11. QED
  BY <1>2, <1>3, <1>8, <1>9, <1>10

\* A turn that fails.
LEMMA EndStep ==
    ASSUME ChatInv, NEW c \in Handler, InTurn(c), conn' = [conn EXCEPT ![c] = Chat!Ended(c)], Chat!Fault,
           UNCHANGED <<clock, nonces, issued, admitted, sessions, active, turns, lost>>
    PROVE  ChatInv'
<1>1. PICK x \in Line : /\ x = Chat!Ended(c) /\ x.pc = "ready" /\ x.msg = 0 /\ x.sess = conn[c].sess
                        /\ x.history = conn[c].history /\ x.long = clock - conn[c].since
                        /\ x.by = IF Chat!PongWaits(c) THEN clock + Deadline ELSE conn[c].by
  BY EndedIs
<1>2. conn' = [conn EXCEPT ![c] = x] /\ conn'[c] = x
  BY <1>1 DEF ChatInv, ChatTypes
<1>3. PongsFit(c)'
  BY <1>1, <1>2, EndedFits
<1>4. PICK z : z = conn[c].sess
  OBVIOUS
<1>5. z \in DOMAIN sessions /\ \A i \in DOMAIN x.history : Told(z, x.history[i].of)
  BY <1>1, <1>4, TurnLine
<1>6. \A i \in DOMAIN x.history : Told(z, x.history[i].of)'
  BY <1>5, ToldRests
<1>7. LineFits(c)'
  <2>1. x.pc \notin {"load", "run", "commit"}
    BY <1>1
  <2>2. QED
    BY <1>1, <1>2, <1>4, <1>5, <1>6, <2>1 DEF LineFits, InTurn, IsOpen
<1>8. NoncesFit' /\ active' \in 0..Len(sessions) /\ lost' \subseteq Nat /\ Chat!LostByLongTurn'
  BY NoncesRest DEF ChatInv, ChatTypes, Chat!LostByLongTurn
<1>9. turns' \in {turns, turns + 1} /\ turns' =< MaxTurns
  BY ChatAssumption DEF ChatInv, ChatTypes
<1>10. ~(x.pc \in {"load", "run", "commit"})
  BY <1>1
<1>11. QED
  BY <1>2, <1>3, <1>7, <1>8, <1>9, <1>10, SilentStep

\* The stored context is loaded.
LEMMA LoadStep == ASSUME ChatInv, NEW c \in Handler, Chat!Load(c) PROVE ChatInv'
<1>1. InTurn(c) /\ conn[c].pc = "load" /\ UNCHANGED <<clock, nonces, issued, admitted, sessions, active, turns, lost>>
  BY DEF Chat!Load, InTurn
<1>2. CASE conn' = [conn EXCEPT ![c] = Chat!Ended(c)] /\ Chat!Fault
  BY <1>1, <1>2, EndStep
<1>3. CASE conn' = [conn EXCEPT ![c].pc = "run", ![c].ctx = sessions[conn[c].sess].ctx] /\ Chat!Fine
  <2>1. PICK y \in Line, z \in DOMAIN sessions : y = conn[c] /\ z = y.sess
    BY <1>1, TurnLine
  <2>2. sessions[z].ctx \subseteq 1..MaxTurns
    BY ChatTyped DEF ChatInv, Talk
  <2>3. PICK x : x = [y EXCEPT !.pc = "run", !.ctx = sessions[z].ctx]
    OBVIOUS
  <2>4. x.pc = "run" /\ x.ctx = sessions[z].ctx /\ x.msg = y.msg /\ x.sess = z /\ x.history = y.history /\ x.past = y.past
        /\ x.by = y.by /\ x.since = y.since
    BY <2>1, <2>3 DEF Line
  <2>5. x \in Line
    BY <2>2, <2>3 DEF Line, Phase
  <2>6. conn' = [conn EXCEPT ![c] = x] /\ conn'[c] = x
    BY <1>3, <2>1, <2>3 DEF ChatInv, ChatTypes
  <2>7. InTurn(c)' /\ IsOpen(c)' /\ x.pc # "commit" /\ x.pc # "ready"
    BY <2>4, <2>6 DEF InTurn, IsOpen
  <2>8. /\ x.msg \in 1..turns /\ InLog(z, Asks(x.msg)) /\ \A r \in DOMAIN sessions : ~InLog(r, Replies(x.msg))
        /\ \A i \in DOMAIN x.history : Told(z, x.history[i].of)
        /\ \A i \in DOMAIN x.past : Told(z, x.past[i].of)
        /\ x.by = x.since + Deadline /\ x.since =< clock
    BY <1>1, <2>1, <2>4, TurnLine
  <2>9. /\ \A t \in x.ctx : Told(z, t)
        /\ \A t \in 1..turns \ x.ctx : InLog(z, Replies(t)) => Crosses(z, t)
    BY <2>4 DEF ChatInv, ContextsFit
  <2>10. x.msg # 0
    BY <2>8, ChatTyped DEF ChatInv
  <2>11. LineFits(c)'
    <3>1. PICK m : m = x.msg
      OBVIOUS
    <3>2. InLog(z, Asks(m))' /\ \A r \in DOMAIN sessions' : ~InLog(r, Replies(m))'
      BY <1>1, <2>8, <3>1, LogsRest
    <3>3. /\ \A i \in DOMAIN x.history : Told(z, x.history[i].of)'
          /\ \A i \in DOMAIN x.past : Told(z, x.past[i].of)'
      BY <1>1, <2>8, LogsRest
    <3>4. /\ \A t \in x.ctx : Told(z, t)'
          /\ \A t \in 1..turns' \ x.ctx : InLog(z, Replies(t))' => Crosses(z, t)'
      BY <1>1, <2>9, LogsRest
    <3>5. conn'[c].sess = z /\ z \in DOMAIN sessions' /\ conn'[c].msg = m /\ m # 0 /\ m \in 1..turns'
      BY <1>1, <2>4, <2>6, <2>8, <2>10, <3>1
    <3>6. QED
      BY <2>6, <2>7, <3>2, <3>3, <3>4, <3>5 DEF LineFits
  <2>12. PongsFit(c)'
    BY <1>1, <2>6, <2>7, <2>8 DEF PongsFit
  <2>13. NoncesFit' /\ active' \in 0..Len(sessions) /\ lost' \subseteq Nat /\ Chat!LostByLongTurn'
    BY <1>1, NoncesRest DEF ChatInv, ChatTypes, Chat!LostByLongTurn
  <2>14. turns' \in {turns, turns + 1} /\ turns' =< MaxTurns
    BY <1>1, ChatAssumption DEF ChatInv, ChatTypes
  <2>15. InTurn(c) /\ x.msg = conn[c].msg
    BY <1>1, <2>1, <2>4
  <2>16. QED
    BY <1>1, <1>3, <2>5, <2>6, <2>11, <2>12, <2>13, <2>14, <2>15, SilentStep
<1>4. QED
  BY <1>2, <1>3 DEF Chat!Load

\* The model sees the context, or the past, and the message.
LEMMA RunStep == ASSUME ChatInv, NEW c \in Handler, Chat!Run(c) PROVE ChatInv'
<1>1. InTurn(c) /\ conn[c].pc = "run" /\ UNCHANGED <<clock, nonces, issued, admitted, sessions, active, turns, lost>>
  BY DEF Chat!Run, InTurn
<1>2. CASE conn' = [conn EXCEPT ![c] = Chat!Ended(c)] /\ Chat!Fault
  BY <1>1, <1>2, EndStep
<1>3. CASE conn' = [conn EXCEPT ![c].pc = "commit", ![c].ctx = Chat!Seen(c) \cup {conn[c].msg}] /\ Chat!Fine
  <2>1. PICK y \in Line, z \in DOMAIN sessions : y = conn[c] /\ z = y.sess
    BY <1>1, TurnLine
  <2>2. PICK seen : seen = Chat!Seen(c) \cup {conn[c].msg}
    OBVIOUS
  <2>3. /\ y.msg \in 1..turns /\ InLog(z, Asks(y.msg)) /\ \A r \in DOMAIN sessions : ~InLog(r, Replies(y.msg))
        /\ \A i \in DOMAIN y.history : Told(z, y.history[i].of)
        /\ \A i \in DOMAIN y.past : Told(z, y.past[i].of)
        /\ y.by = y.since + Deadline /\ y.since =< clock
    BY <1>1, <2>1, TurnLine
  <2>4. /\ \A t \in y.ctx : Told(z, t)
        /\ \A t \in 1..turns \ y.ctx : InLog(z, Replies(t)) => Before(z, Asks(y.msg), Replies(t)) \/ Crosses(z, t)
    BY <1>1, <2>1 DEF ChatInv, LinesFit, LineFits
  <2>5. y.ctx \subseteq seen /\ y.msg \in seen
    BY <2>1, <2>2 DEF Chat!Seen
  <2>6. \A t \in seen : Told(z, t)
    <3>1. Told(z, y.msg)
      BY <2>3 DEF Told
    <3>2. ASSUME NEW t \in Chat!Seen(c) PROVE Told(z, t)
      BY <2>1, <2>3, <2>4, <3>2 DEF Chat!Seen
    <3>3. QED
      BY <2>1, <2>2, <3>1, <3>2
  <2>7. seen \subseteq 1..MaxTurns
    <3>1. \A t \in seen : t \in 1..turns
      BY <2>6 DEF Told
    <3>2. turns \in Nat /\ turns =< MaxTurns /\ MaxTurns \in Nat
      BY ChatAssumption DEF ChatInv, ChatTypes
    <3>3. QED
      BY <3>1, <3>2
  <2>8. PICK x : x = [y EXCEPT !.pc = "commit", !.ctx = seen]
    OBVIOUS
  <2>9. x.pc = "commit" /\ x.ctx = seen /\ x.msg = y.msg /\ x.sess = z /\ x.history = y.history /\ x.past = y.past
        /\ x.by = y.by /\ x.since = y.since
    BY <2>1, <2>8 DEF Line
  <2>10. x \in Line
    BY <2>7, <2>8 DEF Line, Phase
  <2>11. conn' = [conn EXCEPT ![c] = x] /\ conn'[c] = x
    BY <1>3, <2>1, <2>2, <2>8 DEF ChatInv, ChatTypes
  <2>12. InTurn(c)' /\ IsOpen(c)' /\ x.pc # "ready"
    BY <2>9, <2>11 DEF InTurn, IsOpen
  <2>13. x.msg # 0
    BY <2>3, <2>9, ChatTyped DEF ChatInv
  <2>14. LineFits(c)'
    <3>1. PICK m : m = x.msg
      OBVIOUS
    <3>2. InLog(z, Asks(m))' /\ \A r \in DOMAIN sessions' : ~InLog(r, Replies(m))'
      BY <1>1, <2>3, <2>9, <3>1, LogsRest
    <3>3. /\ \A i \in DOMAIN x.history : Told(z, x.history[i].of)'
          /\ \A i \in DOMAIN x.past : Told(z, x.past[i].of)'
      BY <1>1, <2>3, <2>9, LogsRest
    <3>4. \A t \in x.ctx : Told(z, t)'
      BY <1>1, <2>6, <2>9, LogsRest
    <3>5. \A t \in 1..turns' \ x.ctx : InLog(z, Replies(t))' => Before(z, Asks(m), Replies(t))' \/ Crosses(z, t)'
      <4>1. \A t \in 1..turns \ x.ctx : InLog(z, Replies(t)) => Before(z, Asks(m), Replies(t)) \/ Crosses(z, t)
        BY <2>4, <2>5, <2>9, <3>1
      <4>2. \A e, f : Before(z, e, f)' <=> Before(z, e, f)
        BY <1>1 DEF Before, Log
      <4>3. QED
        BY <1>1, <4>1, <4>2, LogsRest
    <3>6. conn'[c].sess = z /\ z \in DOMAIN sessions' /\ conn'[c].msg = m /\ m # 0 /\ m \in 1..turns' /\ m \in x.ctx
      BY <1>1, <2>3, <2>5, <2>9, <2>11, <2>13, <3>1
    <3>7. QED
      BY <2>11, <2>12, <3>2, <3>3, <3>4, <3>5, <3>6 DEF LineFits
  <2>15. PongsFit(c)'
    BY <1>1, <2>3, <2>9, <2>11, <2>12 DEF PongsFit
  <2>16. NoncesFit' /\ active' \in 0..Len(sessions) /\ lost' \subseteq Nat /\ Chat!LostByLongTurn'
    BY <1>1, NoncesRest DEF ChatInv, ChatTypes, Chat!LostByLongTurn
  <2>17. turns' \in {turns, turns + 1} /\ turns' =< MaxTurns
    BY <1>1, ChatAssumption DEF ChatInv, ChatTypes
  <2>18. InTurn(c) /\ x.msg = conn[c].msg
    BY <1>1, <2>1, <2>9
  <2>19. QED
    BY <1>1, <1>3, <2>10, <2>11, <2>14, <2>15, <2>16, <2>17, <2>18, SilentStep
<1>4. QED
  BY <1>2, <1>3 DEF Chat!Run

\* The reply is stored.
LEMMA CommitStored ==
    ASSUME ChatInv, NEW c \in Handler, Chat!Commit(c), NEW z, z = conn[c].sess, Chat!Fine,
           sessions' = [sessions EXCEPT ![z].log = Append(@, [of |-> conn[c].msg, by |-> "assistant"]), ![z].ctx = conn[c].ctx],
           conn' = [conn EXCEPT ![c] = [Chat!Ended(c) EXCEPT !.history = sessions'[z].log]]
    PROVE  ChatInv'
<1>1. ChatTypes /\ LogsFit /\ ContextsFit /\ OnceSaid
  BY DEF ChatInv, LogsFit
<1>2. /\ UNCHANGED <<clock, nonces, issued, admitted, active, turns, lost>>
      /\ InTurn(c) /\ conn[c].pc = "commit"
  BY DEF Chat!Commit, InTurn
<1>3. PICK m : m = conn[c].msg
  OBVIOUS
<1>4. PICK ctx : ctx = conn[c].ctx
  OBVIOUS
<1>5. /\ m \in 1..turns /\ z \in DOMAIN sessions /\ InLog(z, Asks(m)) /\ \A r \in DOMAIN sessions : ~InLog(r, Replies(m))
  BY <1>2, <1>3, TurnLine
<1>6. /\ \A t \in ctx : Told(z, t)
      /\ \A t \in 1..turns \ ctx : InLog(z, Replies(t)) => Before(z, Asks(m), Replies(t)) \/ Crosses(z, t)
      /\ m \in ctx
  BY <1>2, <1>3, <1>4 DEF ChatInv, LinesFit, LineFits
<1>7. PICK e : e = Replies(m)
  OBVIOUS
<1>8. e \in Chat!Entry /\ e.of = m /\ e = [of |-> m, by |-> "assistant"] /\ m \in 1..MaxTurns
  <2>1. m \in 1..MaxTurns
    BY <1>1, <1>5, ChatAssumption DEF ChatTypes
  <2>2. QED
    BY <1>7, <2>1 DEF Replies, Chat!Entry
<1>9. sessions[z] \in Talk /\ Log(z) \in Seq(Chat!Entry) /\ ctx \subseteq 1..MaxTurns
  BY <1>1, <1>4, <1>5, ChatTyped DEF Line
<1>10. PICK new : new = [sessions[z] EXCEPT !.log = Append(@, e), !.ctx = ctx]
  OBVIOUS
<1>11. new \in Talk /\ new.log = Append(Log(z), e) /\ new.ctx = ctx
  <2>1. Append(Log(z), e) \in Seq(Chat!Entry) /\ Log(z) = sessions[z].log
    BY <1>8, <1>9 DEF Log
  <2>2. QED
    BY <1>9, <1>10, <2>1 DEF Talk
<1>12. sessions' = [sessions EXCEPT ![z] = new]
  BY <1>3, <1>4, <1>5, <1>8, <1>10 DEF ChatTypes
<1>13. /\ Said(z, e) /\ sessions' \in Seq(Talk) /\ DOMAIN sessions' = DOMAIN sessions /\ Len(sessions') = Len(sessions)
       /\ sessions'[z] = new /\ \A s \in DOMAIN sessions \ {z} : sessions'[s] = sessions[s]
       /\ Log(z)' = Append(Log(z), e)
  <2>1. z \in DOMAIN sessions /\ e \in Chat!Entry /\ new \in Talk /\ new.log = Append(Log(z), e)
    BY <1>5, <1>8, <1>11
  <2>2. Said(z, e)
    BY <1>1, <1>12, <2>1, EntrySaid
  <2>3. sessions' \in Seq(Talk) /\ DOMAIN sessions' = DOMAIN sessions /\ Len(sessions') = Len(sessions)
    BY <1>1, <1>12, <2>1 DEF ChatTypes
  <2>4. sessions'[z] = new /\ \A s \in DOMAIN sessions \ {z} : sessions'[s] = sessions[s]
    BY <1>1, <1>12, <2>1, EntrySaid
  <2>5. Log(z)' = Append(Log(z), e)
    BY <1>1, <1>12, <2>1, EntrySaid
  <2>6. QED
    BY <2>2, <2>3, <2>4, <2>5
<1>14. News(z, e) /\ 0 \notin DOMAIN sessions' /\ \A r \in DOMAIN sessions : ~InLog(r, e)
  <2>1. \A r \in DOMAIN sessions : ~InLog(r, e)
    BY <1>5, <1>7
  <2>2. News(z, e)
    <3>1. turns' = turns
      BY <1>2
    <3>2. m \in 1..turns /\ e = Replies(m) /\ InLog(z, Asks(m)) /\ z \in DOMAIN sessions
      BY <1>5, <1>7
    <3>3. QED
      BY <2>1, <3>1, <3>2 DEF News
  <2>3. 0 \notin DOMAIN sessions'
    <3>1. DOMAIN sessions' = DOMAIN sessions
      BY <1>13
    <3>2. 0 \notin DOMAIN sessions
      BY <1>1, ChatTyped
    <3>3. QED
      BY <3>1, <3>2
  <2>4. QED
    BY <2>1, <2>2, <2>3
<1>15. OnceSaid'
  BY <1>1, <1>5, <1>13, <1>14, OnceStays
<1>16. ContextsFit'
  <2>1. ASSUME NEW s \in DOMAIN sessions' \ {z}
        PROVE  /\ \A t \in sessions'[s].ctx : Told(s, t)'
               /\ \A t \in 1..turns' \ sessions'[s].ctx : InLog(s, Replies(t))' => Crosses(s, t)'
    <3>1. IF s \in DOMAIN sessions THEN sessions'[s].ctx = sessions[s].ctx ELSE sessions'[s].ctx = {}
      BY <1>13
    <3>2. QED
      BY <1>1, <1>13, <1>14, <3>1, ContextStays
  <2>2. \A t \in ctx : Told(z, t)'
    BY <1>1, <1>5, <1>6, <1>13, <1>14, ToldStays
  <2>3. ASSUME NEW t \in 1..turns' \ ctx, InLog(z, Replies(t))' PROVE Crosses(z, t)'
    <3>1. t \in 1..turns /\ t # m /\ Replies(t) # e /\ m \in 1..turns' \ {t}
      BY <1>2, <1>5, <1>6, <1>7, <2>3, EntriesDiffer
    <3>2. InLog(z, Replies(t))
      BY <1>5, <1>13, <2>3, <3>1 DEF Said
    <3>3. CASE Crosses(z, t)
      BY <1>1, <1>5, <1>13, <1>14, <3>3, CrossesStays
    <3>4. CASE Before(z, Asks(m), Replies(t))
      <4>1. InLog(z, Asks(t))
        BY <1>1, <1>5, <3>1, <3>2 DEF LogsFit, Before, InLog
      <4>2. Before(z, Asks(t), e)' /\ Before(z, Asks(m), Replies(t))'
        BY <1>5, <1>13, <3>4, <4>1 DEF Said
      <4>3. QED
        BY <1>7, <3>1, <4>2 DEF Crosses
    <3>5. QED
      BY <1>6, <2>3, <3>1, <3>2, <3>3, <3>4
  <2>4. sessions'[z].ctx = ctx
    BY <1>11, <1>13
  <2>5. QED
    BY <2>1, <2>2, <2>3, <2>4 DEF ContextsFit
<1>17. PICK y \in Line : /\ y = Chat!Ended(c) /\ y.pc = "ready" /\ y.msg = 0 /\ y.sess = z
                         /\ y.long = clock - conn[c].since
                         /\ y.by = IF Chat!PongWaits(c) THEN clock + Deadline ELSE conn[c].by
  BY <1>2, EndedIs
<1>18. Append(Log(z), e) \in Seq(Chat!Entry)
  BY <1>8, <1>9
<1>19. PICK h \in Seq(Chat!Entry) : h = Append(Log(z), e)
  BY <1>18
<1>20. PICK x : x = [y EXCEPT !.history = h]
  OBVIOUS
<1>21. /\ x \in Line /\ x.pc = "ready" /\ x.msg = 0 /\ x.sess = z /\ x.history = h
       /\ x.long = y.long /\ x.by = y.by
  <2>1. x.pc = "ready" /\ x.msg = 0 /\ x.sess = z /\ x.history = h /\ x.long = y.long /\ x.by = y.by
    BY <1>17, <1>20 DEF Line
  <2>2. x \in Line
    BY <1>20 DEF Line
  <2>3. QED
    BY <2>1, <2>2
<1>22. conn' = [conn EXCEPT ![c] = x] /\ conn'[c] = x
  <2>1. sessions'[z].log = h
    BY <1>11, <1>13, <1>19
  <2>2. conn' = [conn EXCEPT ![c] = x]
    BY <1>17, <1>20, <2>1
  <2>3. QED
    BY <1>1, <2>2 DEF ChatTypes
<1>23. PongsFit(c)'
  <2>1. x.long = clock - conn[c].since /\ x.by = IF Chat!PongWaits(c) THEN clock + Deadline ELSE conn[c].by
    BY <1>17, <1>21
  <2>2. QED
    <3>1. InTurn(c) /\ clock' = clock /\ x \in Line /\ conn'[c] = x /\ x.pc = "ready"
      BY <1>2, <1>21, <1>22
    <3>2. QED
      BY <2>1, <3>1, EndedFits
<1>24. Told(z, e.of)'
  <2>1. Told(z, m)
    BY <1>5 DEF Told
  <2>2. Told(z, m)'
    BY <1>1, <1>5, <1>13, <1>14, <2>1, ToldStays
  <2>3. QED
    BY <1>8, <2>2
<1>25. \A i \in DOMAIN h : Told(z, h[i].of)'
  BY <1>1, <1>5, <1>13, <1>14, <1>19, <1>24, AddedIsTold
<1>26. LineFits(c)'
  <2>1. x.pc \notin {"load", "run", "commit"} /\ z \in DOMAIN sessions'
    BY <1>5, <1>13, <1>21
  <2>2. x.sess \in DOMAIN sessions' /\ \A i \in DOMAIN x.history : Told(x.sess, x.history[i].of)'
    BY <1>21, <1>25, <2>1
  <2>3. conn'[c].msg = 0 /\ conn'[c].pc = "ready" /\ conn'[c] = x
    BY <1>21, <1>22
  <2>4. ~InTurn(c)' /\ (conn'[c].msg # 0) = InTurn(c)'
    BY <2>3 DEF InTurn
  <2>5. QED
    BY <2>2, <2>3, <2>4 DEF LineFits
<1>27. NoncesFit' /\ lost' \subseteq Nat /\ Chat!LostByLongTurn' /\ failures' \in 0..MaxFailures /\ active' \in 0..Len(sessions')
  BY <1>1, <1>2, <1>13, NoncesRest, FaultsCounted DEF ChatInv, ChatTypes, Chat!LostByLongTurn
<1>28. \A d \in Handler \ {c} : InTurn(d) => e # Replies(conn[d].msg)
  BY <1>2, <1>3, <1>7, EntriesDiffer DEF ChatInv, OneTurn
<1>29. clock' = clock /\ turns' \in 0..MaxTurns
  BY <1>1, <1>2 DEF ChatTypes
<1>30. Said(z, e) /\ sessions' \in Seq(Talk) /\ News(z, e)
  BY <1>13, <1>14
<1>31. x \in Line /\ conn' = [conn EXCEPT ![c] = x] /\ ~(x.pc \in {"load", "run", "commit"})
  BY <1>21, <1>22
<1>32. QED
  BY <1>15, <1>16, <1>23, <1>26, <1>27, <1>28, <1>29, <1>30, <1>31, LineStep

LEMMA CommitStep == ASSUME ChatInv, NEW c \in Handler, Chat!Commit(c) PROVE ChatInv'
<1>1. PICK z : z = conn[c].sess
  OBVIOUS
<1>2. InTurn(c) /\ UNCHANGED <<clock, nonces, issued, admitted, active, turns, lost>>
  BY DEF Chat!Commit, InTurn
<1>3. CASE /\ sessions' = [sessions EXCEPT ![z].log = Append(@, [of |-> conn[c].msg, by |-> "assistant"]),
                                           ![z].ctx = conn[c].ctx]
           /\ conn' = [conn EXCEPT ![c] = [Chat!Ended(c) EXCEPT !.history = sessions'[z].log]] /\ Chat!Fine
  BY <1>1, <1>3, CommitStored
<1>4. CASE conn' = [conn EXCEPT ![c] = Chat!Ended(c)] /\ Chat!Fault /\ UNCHANGED sessions
  BY <1>2, <1>4, EndStep
<1>5. QED
  BY <1>1, <1>3, <1>4 DEF Chat!Commit

-----------------------------------------------------------------------------
(* Time                                                                    *)

\* A line keeps what was said when only its deadline changes.
LEMMA LineRests ==
    ASSUME NEW c \in Handler, NEW y \in Line, y = conn[c], NEW b \in Nat, conn'[c] = [y EXCEPT !.by = b], LineFits(c),
           UNCHANGED <<sessions, turns>>
    PROVE  LineFits(c)'
<1>1. PICK x : x = conn'[c]
  OBVIOUS
<1>2. x.pc = y.pc /\ x.msg = y.msg /\ x.sess = y.sess /\ x.history = y.history /\ x.past = y.past /\ x.ctx = y.ctx
  BY <1>1 DEF Line
<1>3. PICK z : z = y.sess
  OBVIOUS
<1>4. PICK m : m = y.msg
  OBVIOUS
<1>5. (InTurn(c)' <=> InTurn(c)) /\ (IsOpen(c)' <=> IsOpen(c))
  BY <1>1, <1>2 DEF InTurn, IsOpen
<1>6. (m # 0 <=> InTurn(c)) /\ (m # 0 <=> InTurn(c)')
  BY <1>4, <1>5 DEF LineFits
<1>7. IsOpen(c) => z \in DOMAIN sessions' /\ \A i \in DOMAIN y.history : Told(z, y.history[i].of)'
  BY <1>3, LogsRest DEF LineFits
<1>8. InTurn(c) => /\ m \in 1..turns' /\ InLog(z, Asks(m))'
                   /\ \A r \in DOMAIN sessions' : ~InLog(r, Replies(m))'
                   /\ \A i \in DOMAIN y.past : Told(z, y.past[i].of)'
  BY <1>3, <1>4, LogsRest DEF LineFits
<1>9. y.pc \in {"run", "commit"} =>
          /\ \A t \in y.ctx : Told(z, t)'
          /\ \A t \in 1..turns' \ y.ctx : InLog(z, Replies(t))' => Before(z, Asks(m), Replies(t))' \/ Crosses(z, t)'
  <2>1. \A e, f : Before(z, e, f)' <=> Before(z, e, f)
    BY DEF Before, Log
  <2>2. QED
    BY <1>3, <1>4, <2>1, LogsRest DEF LineFits
<1>10. y.pc = "commit" => m \in y.ctx
  BY <1>4 DEF LineFits
<1>11. (conn'[c].msg # 0) = InTurn(c)'
  BY <1>1, <1>2, <1>4, <1>6 DEF InTurn
<1>12. QED
  BY <1>1, <1>2, <1>3, <1>4, <1>5, <1>7, <1>8, <1>9, <1>10, <1>11 DEF LineFits

LEMMA TickChat == ASSUME ChatInv, Chat!Tick PROVE ChatInv'
<1>1. UNCHANGED <<nonces, issued, admitted, sessions, active, turns, failures, lost>> /\ clock' = clock + 1 /\ clock < MaxMoment
  BY DEF Chat!Tick, Chat!Fine
<1>2. clock \in Nat /\ clock' \in Nat /\ Deadline \in Nat /\ clock' \in 0..MaxMoment
  BY <1>1, ChatTyped, ChatAssumption DEF ChatInv
<1>3. Deadline \in Nat
  BY ChatAssumption
<1>4. PICK t \in Nat : t = clock'
  BY <1>2
<1>5. PICK b \in Nat : b = t + Deadline /\ b >= Deadline /\ (b - Deadline) + 1..t = {}
  <2>1. \A n, d \in Nat : n + d \in Nat /\ n + d >= d /\ ((n + d) - d) + 1..n = {}
    OBVIOUS
  <2>2. t + Deadline \in Nat /\ t + Deadline >= Deadline /\ ((t + Deadline) - Deadline) + 1..t = {}
    BY <1>3, <2>1
  <2>3. QED
    BY <2>2
<1>6. /\ conn' \in [Handler -> Line]
      /\ \A c \in Handler : \/ /\ t % Ping = 0 /\ conn[c].pc = "ready" /\ t =< conn[c].by
                               /\ conn'[c] = [conn[c] EXCEPT !.by = t + Deadline]
                            \/ conn'[c] = conn[c] /\ ~(t % Ping = 0 /\ conn[c].pc = "ready" /\ t =< conn[c].by)
  <2>1. \A c \in Handler : [conn[c] EXCEPT !.by = t + Deadline] \in Line /\ conn[c] \in Line
    <3>1. \A c \in Handler : [conn[c] EXCEPT !.by = b] \in Line /\ conn[c] \in Line
      BY ChatTyped DEF ChatInv, Line
    <3>2. QED
      BY <1>5, <3>1
  <2>2. conn' = [c \in Handler |-> IF t % Ping = 0 /\ conn[c].pc = "ready" /\ t =< conn[c].by
                                   THEN [conn[c] EXCEPT !.by = t + Deadline] ELSE conn[c]]
    BY <1>4 DEF Chat!Tick, Chat!Pong
  <2>3. QED
    BY <2>1, <2>2
<1>7. ASSUME NEW c \in Handler PROVE LineFits(c)' /\ PongsFit(c)' /\ conn'[c].pc = conn[c].pc /\ conn'[c].msg = conn[c].msg
  <2>1. LineFits(c) /\ PongsFit(c) /\ conn[c] \in Line /\ conn[c].by \in Nat /\ conn[c].since \in Nat
    BY ChatTyped DEF ChatInv, LinesFit, Line
  <2>2. PICK y \in Line : y = conn[c]
    BY <2>1
  <2>3. CASE t % Ping = 0 /\ conn[c].pc = "ready" /\ t =< conn[c].by /\ conn'[c] = [conn[c] EXCEPT !.by = t + Deadline]
    <3>1. conn'[c] = [y EXCEPT !.by = b]
      BY <1>5, <2>2, <2>3
    <3>2. LineFits(c)'
      BY <1>1, <2>1, <2>2, <3>1, LineRests
    <3>3. conn'[c].pc = "ready" /\ conn'[c].by = b /\ conn'[c].msg = y.msg
      BY <2>2, <2>3, <3>1 DEF Line
    <3>4. b >= Deadline /\ (b - Deadline) + 1..clock' = {}
      BY <1>5, <1>4
    <3>5. PongsFit(c)'
      BY <3>3, <3>4 DEF PongsFit, InTurn
    <3>6. QED
      BY <2>2, <2>3, <3>2, <3>3, <3>5
  <2>4. CASE conn'[c] = conn[c] /\ ~(t % Ping = 0 /\ conn[c].pc = "ready" /\ t =< conn[c].by)
    <3>1. conn'[c] = [y EXCEPT !.by = y.by] /\ y.by \in Nat
      BY <2>1, <2>2, <2>4 DEF Line
    <3>2. LineFits(c)'
      BY <1>1, <2>1, <2>2, <3>1, LineRests
    <3>3. InTurn(c) => conn[c].by = conn[c].since + Deadline /\ conn[c].since =< clock'
      BY <1>1, <1>2, <2>1 DEF PongsFit
    <3>4. ASSUME conn[c].pc = "ready"
          PROVE  /\ conn[c].by >= Deadline
                 /\ conn[c].long > Deadline \/ \A k \in (conn[c].by - Deadline) + 1..clock' : k % Ping # 0
      <4>1. CASE t % Ping # 0
        <5>1. \A k \in (conn[c].by - Deadline) + 1..clock' : k = t \/ k \in (conn[c].by - Deadline) + 1..clock
          BY <1>1, <1>2, <1>4, <2>1
        <5>2. QED
          BY <2>1, <3>4, <4>1, <5>1 DEF PongsFit
      <4>2. CASE ~(t =< conn[c].by)
        <5>1. clock >= conn[c].by
          BY <1>1, <1>2, <1>4, <2>1, <4>2
        <5>2. conn[c].long > Deadline
          BY <2>1, <3>4, <5>1, StillHeard DEF ChatInv
        <5>3. QED
          BY <2>1, <3>4, <5>2 DEF PongsFit
      <4>3. QED
        BY <2>4, <3>4, <4>1, <4>2
    <3>5. PongsFit(c)'
      BY <2>4, <3>3, <3>4 DEF PongsFit, InTurn
    <3>6. QED
      BY <2>4, <3>2, <3>5
  <2>5. QED
    BY <1>6, <2>3, <2>4
<1>8. ChatTypes' /\ NoncesFit' /\ Chat!LostByLongTurn'
  BY <1>1, <1>2, <1>6, NoncesRest DEF ChatInv, ChatTypes, Chat!LostByLongTurn
<1>9. LogsFit' /\ ContextsFit'
  BY <1>1 DEF ChatInv, LogsFit, ContextsFit, OnceSaid, Told, Crosses, Before, InLog, Log
<1>10. OneTurn'
  BY <1>7 DEF ChatInv, OneTurn, InTurn
<1>11. QED
  BY <1>7, <1>8, <1>9, <1>10 DEF ChatInv, LinesFit

-----------------------------------------------------------------------------
LEMMA ChatInvStep == ASSUME ChatInv, Chat!Next PROVE ChatInv'
BY NonceStep, TickChat, UpgradeStep, AuthStep, RefuseStep, NewChatStep, SwitchStep, SayStep, LoadStep, RunStep, CommitStep,
   DropStep DEF Chat!Next

LEMMA ChatRests == ASSUME ChatInv, UNCHANGED chatVars PROVE ChatInv'
<1>1. UNCHANGED <<clock, conn, sessions, active, turns, failures, lost>> /\ UNCHANGED <<nonces, issued, admitted>>
  BY DEF chatVars
<1>2. NoncesFit'
  BY <1>1, NoncesRest DEF ChatInv
<1>3. QED
  BY <1>1, <1>2, ChatSame

\* The invariant holds whichever part a behaviour is of.
THEOREM ChatInvariance == MCSpec => []ChatInv
<1>1. MCInit => ChatInv
  BY ChatInitInv DEF MCInit
<1>2. ChatInv /\ [MCNext]_<<part, vars, mapsVars, chatVars>> => ChatInv'
  <2>1. ASSUME ChatInv, MCNext PROVE ChatInv'
    <3>1. UNCHANGED chatVars \/ Chat!Next
      BY <2>1 DEF MCNext
    <3>2. QED
      BY <2>1, <3>1, ChatInvStep, ChatRests
  <2>2. ASSUME ChatInv, UNCHANGED <<part, vars, mapsVars, chatVars>> PROVE ChatInv'
    BY <2>2, ChatRests
  <2>3. QED
    BY <2>1, <2>2
<1>3. QED
  BY <1>1, <1>2, PTL DEF MCSpec

\* An entry has one place, since it was said once.
LEMMA PlaceOf ==
    ASSUME OnceSaid, NEW s \in DOMAIN sessions, NEW e, NEW i \in DOMAIN Log(s), Log(s)[i] = e
    PROVE  (CHOOSE j \in DOMAIN Log(s) : Log(s)[j] = e) = i
<1>1. \A j \in DOMAIN Log(s) : Log(s)[j] = e => j = i
  BY DEF OnceSaid
<1>2. QED
  BY <1>1

LEMMA BeforePlaces ==
    ASSUME OnceSaid, NEW s \in DOMAIN sessions, NEW e, NEW f, Before(s, e, f)
    PROVE  (CHOOSE j \in DOMAIN Log(s) : Log(s)[j] = e) < (CHOOSE j \in DOMAIN Log(s) : Log(s)[j] = f)
<1>1. PICK i \in DOMAIN Log(s), j \in DOMAIN Log(s) : i < j /\ Log(s)[i] = e /\ Log(s)[j] = f
  BY DEF Before
<1>2. QED
  BY <1>1, PlaceOf

\* The entries of a log are questions and replies.
LEMMA EntryIs ==
    ASSUME ChatTypes, NEW s \in DOMAIN sessions, NEW i \in DOMAIN Log(s)
    PROVE  LET x == Log(s)[i] IN \/ x.by = "user" /\ x = Asks(x.of)
                                 \/ x.by = "assistant" /\ x = Replies(x.of)
<1>1. Log(s)[i] \in Chat!Entry
  BY ChatTyped
<1>2. QED
  BY <1>1 DEF Chat!Entry, Asks, Replies

\* kaine_chat.go:353, :431: the context of a session holds every turn whose
\* reply it shows, but for turns beside which another was under way.
LEMMA ContextIsTold == ChatInv => Chat!ContextTells
<1> SUFFICES ASSUME ChatInv PROVE Chat!ContextTells
  OBVIOUS
<1> DEFINE Replied(s) == {sessions[s].log[i].of : i \in {j \in DOMAIN sessions[s].log : sessions[s].log[j].by = "assistant"}}
           Place(s, t, who) == CHOOSE i \in DOMAIN sessions[s].log : sessions[s].log[i] = [of |-> t, by |-> who]
           Beside(s, t, u) == /\ Place(s, t, "user") < Place(s, u, "assistant")
                              /\ Place(s, u, "user") < Place(s, t, "assistant")
           Shown(s) == {sessions[s].log[i].of : i \in DOMAIN sessions[s].log}
<1>1. ChatTypes /\ LogsFit /\ ContextsFit /\ OnceSaid
  BY DEF ChatInv, LogsFit
<1>2. ASSUME NEW s \in DOMAIN sessions, NEW t
      PROVE  InLog(s, Replies(t)) <=> t \in Replied(s)
  <2>1. ASSUME InLog(s, Replies(t)) PROVE t \in Replied(s)
    <3>1. PICK i \in DOMAIN Log(s) : Log(s)[i] = Replies(t)
      BY <2>1 DEF InLog
    <3>2. Log(s)[i].by = "assistant" /\ Log(s)[i].of = t
      BY <3>1 DEF Replies
    <3>3. QED
      BY <3>2 DEF Log
  <2>2. ASSUME t \in Replied(s) PROVE InLog(s, Replies(t))
    <3>1. PICK i \in DOMAIN Log(s) : Log(s)[i].by = "assistant" /\ Log(s)[i].of = t
      BY <2>2 DEF Log
    <3>2. Log(s)[i] = Replies(t)
      BY <1>1, <3>1, EntryIs
    <3>3. QED
      BY <3>2 DEF InLog
  <2>3. QED
    BY <2>1, <2>2
<1>3. ASSUME NEW s \in DOMAIN sessions, NEW t \in Replied(s) \ sessions[s].ctx
      PROVE  \E u \in Replied(s) : u # t /\ Beside(s, t, u)
  <2>1. InLog(s, Replies(t)) /\ t \in 1..turns
    <3>1. InLog(s, Replies(t))
      BY <1>2
    <3>2. QED
      BY <1>1, <3>1, EntriesFit, EntriesDiffer
  <2>2. Crosses(s, t)
    BY <1>1, <2>1 DEF ContextsFit
  <2>3. PICK u \in 1..turns \ {t} : Before(s, Asks(t), Replies(u)) /\ Before(s, Asks(u), Replies(t))
    BY <2>2 DEF Crosses
  <2>4. u \in Replied(s)
    <3>1. InLog(s, Replies(u))
      BY <2>3 DEF Before, InLog
    <3>2. QED
      BY <1>2, <3>1
  <2>5. \A a \in {t, u} : /\ Place(s, a, "user") = CHOOSE j \in DOMAIN Log(s) : Log(s)[j] = Asks(a)
                          /\ Place(s, a, "assistant") = CHOOSE j \in DOMAIN Log(s) : Log(s)[j] = Replies(a)
    BY DEF Log, Asks, Replies
  <2>6. Beside(s, t, u)
    BY <1>1, <2>3, <2>5, BeforePlaces
  <2>7. QED
    BY <2>3, <2>4, <2>6
<1>4. ASSUME NEW s \in DOMAIN sessions, NEW t \in sessions[s].ctx, NEW r \in DOMAIN sessions, t \in Shown(r)
      PROVE  t \in Shown(s)
  <2>1. PICK i \in DOMAIN Log(r) : Log(r)[i].of = t
    BY <1>4 DEF Log
  <2>2. InLog(r, Asks(t))
    <3>1. Log(r)[i] = Asks(t) \/ Log(r)[i] = Replies(t)
      BY <1>1, <2>1, EntryIs
    <3>2. t \in 1..turns
      BY <1>1, <2>1 DEF LogsFit
    <3>3. CASE Log(r)[i] = Asks(t)
      BY <3>3 DEF InLog
    <3>4. CASE Log(r)[i] = Replies(t)
      BY <1>1, <3>2, <3>4 DEF LogsFit, InLog, Before
    <3>5. QED
      BY <3>1, <3>3, <3>4
  <2>3. InLog(s, Asks(t))
    BY <1>1, <1>4, <2>2 DEF ContextsFit, Told
  <2>4. PICK j \in DOMAIN Log(s) : Log(s)[j] = Asks(t)
    BY <2>3 DEF InLog
  <2>5. QED
    BY <2>4, EntriesDiffer DEF Log
<1>5. QED
  <2>1. ASSUME NEW s \in DOMAIN sessions
        PROVE  (sessions[s].ctx \cap UNION {Shown(r) : r \in DOMAIN sessions}) \subseteq Shown(s)
    BY <1>4
  <2> HIDE DEF Replied, Shown, Beside
  <2>2. \A s \in DOMAIN sessions : /\ \A t \in Replied(s) \ sessions[s].ctx : \E u \in Replied(s) : u # t /\ Beside(s, t, u)
                                   /\ (sessions[s].ctx \cap UNION {Shown(r) : r \in DOMAIN sessions}) \subseteq Shown(s)
    BY <1>3, <2>1
  <2>3. QED
    BY <2>2 DEF Chat!ContextTells, Replied, Shown, Beside

LEMMA ChatIsTyped == ChatInv => Chat!TypeOK
<1> SUFFICES ASSUME ChatInv PROVE Chat!TypeOK
  OBVIOUS
<1>1. /\ clock \in 0..MaxMoment /\ failures \in 0..MaxFailures /\ turns \in 0..MaxTurns /\ active \in 0..Len(sessions)
  BY DEF ChatInv, ChatTypes
<1>2. \A s \in DOMAIN sessions : sessions[s].log \in Seq(Chat!Entry) /\ sessions[s].ctx \subseteq 1..MaxTurns
  BY ChatTyped DEF ChatInv, Talk
<1>3. ASSUME NEW c \in Handler
      PROVE  /\ conn[c].pc \in {"closed", "auth", "ready", "load", "run", "commit"}
             /\ conn[c].pc \in {"ready", "load", "run", "commit"} => conn[c].sess \in DOMAIN sessions
             /\ (conn[c].msg # 0) = (conn[c].pc \in {"load", "run", "commit"})
  <2>1. conn[c] \in Line /\ LineFits(c)
    BY ChatTyped DEF ChatInv, LinesFit
  <2>2. conn[c].pc \in {"closed", "auth", "ready", "load", "run", "commit"}
    BY <2>1 DEF Line, Phase
  <2>3. conn[c].pc \in {"ready", "load", "run", "commit"} => conn[c].sess \in DOMAIN sessions
    BY <2>1 DEF LineFits, IsOpen, InTurn
  <2>4. (conn[c].msg # 0) = (conn[c].pc \in {"load", "run", "commit"})
    BY <2>1 DEF LineFits, InTurn
  <2>5. QED
    BY <2>2, <2>3, <2>4
<1>4. QED
  BY <1>1, <1>2, <1>3 DEF Chat!TypeOK

\* kaine_chat_nonce.go:98, kaine_chat.go:226, :353: a nonce admits one
\* connection and none when it has expired, a client that answers its pings is
\* only lost after a turn longer than the deadline, and the model is given the
\* turns its session shows, however turns of two connections interleave.
THEOREM ChatsHold == MCSpec => []ChatHolds
<1>1. ChatInv => ChatHolds
  BY ContextIsTold, ChatIsTyped DEF ChatInv, NoncesFit, ChatHolds
<1>2. QED
  BY <1>1, ChatInvariance, PTL

=============================================================================
