------------------------------ MODULE PkceStore -----------------------------
(***************************************************************************)
(* Browser logins waiting for Frontier: commanderPKCEStore, a sync.Map of  *)
(* states and an atomic counter that caps it                               *)
(* (internal/httpapi/commander_auth.go).                                   *)
(*                                                                         *)
(* The map and the counter are two objects.  A login reads the counter,    *)
(* stores its entry and adds one; the callback and the sweep remove an     *)
(* entry and subtract one.  Any of these steps may come between two others,*)
(* and the sweep subtracts for an entry it has seen and deleted, whether   *)
(* its Delete found it or not.                                             *)
(***************************************************************************)
EXTENDS Integers, FiniteSets

CONSTANTS
    State,    \* state UUIDs, each generated once
    Handler,  \* goroutines serving /initiate
    MaxPend,  \* PKCEMaxPending
    Ttl,      \* PKCEStateTTL
    MaxTime   \* bound on the clock

ASSUME PkceAssumption == /\ State \subseteq Nat /\ IsFiniteSet(State) /\ IsFiniteSet(Handler)
                         /\ MaxPend \in Nat \ {0} /\ Ttl \in Nat /\ MaxTime \in Nat

VARIABLES
    clock,    \* time.Now()
    items,    \* the map: when each pending state expires
    count,    \* the counter
    initiate, \* per goroutine, the state it is storing, if any, and how far it is
    owed,     \* entries removed whose count.Add(-1) is still to come
    sweep,    \* the sweep's now, while it runs, and what it is about to delete
    used,     \* history: states a callback has had the verifier of
    doubles   \* history: entries counted out twice

vars == <<clock, items, count, initiate, owed, sweep, used, doubles>>

Pending == DOMAIN items
Sweep == [since : {{}} \cup {{t} : t \in 0..MaxTime}, at : SUBSET State]

\* The map and the goroutines have their types, and no state is in two hands.
TypeOK ==
    /\ clock \in 0..MaxTime
    /\ Pending \subseteq State /\ \A s \in Pending : items[s] \in 0..MaxTime + Ttl
    /\ count \in Int /\ owed \in Nat /\ doubles \in Nat
    /\ initiate \in [Handler -> [pc : {"idle", "put", "add"}, state : SUBSET State]]
    /\ \A h \in Handler : initiate[h].pc = "put" => initiate[h].state \cap (Pending \cup used) = {}
    /\ sweep \in Sweep /\ (sweep.since = {} => sweep.at = {})
    /\ used \subseteq State /\ used \cap Pending = {}

Init ==
    /\ clock = 0 /\ items = << >> /\ count = 0 /\ owed = 0
    /\ initiate = [h \in Handler |-> [pc |-> "idle", state |-> {}]]
    /\ sweep = [since |-> {}, at |-> {}]
    /\ used = {} /\ doubles = 0

Without(s) == [t \in Pending \ {s} |-> items[t]]

\* rand.Read: a state that is nowhere.  One whose login ended without its
\* verifier may as well be taken again.
Fresh == State \ (Pending \cup used \cup UNION {initiate[h].state : h \in Handler})

HasRoom == count < MaxPend
StoreCheck(h) ==
    /\ initiate[h].pc = "idle" /\ HasRoom
    /\ \E s \in Fresh : /\ \A t \in Fresh : s =< t
                       /\ initiate' = [initiate EXCEPT ![h] = [pc |-> "put", state |-> {s}]]
    /\ UNCHANGED <<clock, items, count, owed, sweep, used, doubles>>

\* ... the entry is stored ...
StorePut(h) ==
    /\ initiate[h].pc = "put"
    /\ \E s \in initiate[h].state :
         items' = [t \in Pending \cup {s} |-> IF t = s THEN clock + Ttl ELSE items[t]]
    /\ initiate' = [initiate EXCEPT ![h].pc = "add"]
    /\ UNCHANGED <<clock, count, owed, sweep, used, doubles>>

\* ... and the counter raised; only then does the browser learn the state.
StoreAdd(h) ==
    /\ initiate[h].pc = "add"
    /\ count' = count + 1
    /\ initiate' = [initiate EXCEPT ![h] = [pc |-> "idle", state |-> {}]]
    /\ UNCHANGED <<clock, items, owed, sweep, used, doubles>>

Told(s) == \A h \in Handler : s \notin initiate[h].state

\* Mutant: an expired entry is turned away before it is counted out.
ConsumeUncountedMutant(s) ==
    /\ s \in Pending /\ Told(s)
    /\ items' = Without(s)
    /\ owed' = IF clock > items[s] THEN owed ELSE owed + 1
    /\ used' = used \cup {t \in {s} : clock =< items[s]}
    /\ UNCHANGED <<clock, count, initiate, sweep, doubles>>

\* consume: LoadAndDelete.  An entry past its time is gone as well, and its
\* login refused.
Consume(s) ==
    /\ s \in Pending /\ Told(s)
    /\ items' = Without(s)
    /\ owed' = owed + 1
    /\ used' = used \cup {t \in {s} : clock =< items[s]}
    /\ UNCHANGED <<clock, count, initiate, sweep, doubles>>

Subtract ==
    /\ owed > 0 /\ owed' = owed - 1 /\ count' = count - 1
    /\ UNCHANGED <<clock, items, initiate, sweep, used, doubles>>

\* cleanup: the time is read once a round, ...
SweepStart ==
    /\ sweep.since = {} /\ sweep' = [since |-> {clock}, at |-> {}]
    /\ UNCHANGED <<clock, items, count, initiate, owed, used, doubles>>

\* ... Range hands it an entry ...
SweepSee(s) ==
    /\ sweep.since # {} /\ sweep.at = {}
    /\ s \in Pending /\ \E t \in sweep.since : t > items[s]
    /\ sweep' = [sweep EXCEPT !.at = {s}]
    /\ UNCHANGED <<clock, items, count, initiate, owed, used, doubles>>

\* ... and it is deleted and counted out, though a callback may have done both.
SweepDelete ==
    /\ \E s \in sweep.at :
         /\ items' = Without(s)
         /\ doubles' = IF s \in Pending THEN doubles ELSE doubles + 1
    /\ owed' = owed + 1
    /\ sweep' = [sweep EXCEPT !.at = {}]
    /\ UNCHANGED <<clock, count, initiate, used>>

SweepEnd ==
    /\ sweep.since # {} /\ sweep.at = {}
    /\ sweep' = [since |-> {}, at |-> {}]
    /\ UNCHANGED <<clock, items, count, initiate, owed, used, doubles>>

Tick == clock < MaxTime /\ clock' = clock + 1
        /\ UNCHANGED <<items, count, initiate, owed, sweep, used, doubles>>

Next == \/ \E h \in Handler : StoreCheck(h) \/ StorePut(h) \/ StoreAdd(h)
        \/ \E s \in State : Consume(s) \/ SweepSee(s)
        \/ Subtract \/ SweepStart \/ SweepDelete \/ SweepEnd \/ Tick

Spec == Init /\ [][Next]_vars

-----------------------------------------------------------------------------
(* Properties                                                              *)

Storing(pc) == Cardinality({h \in Handler : initiate[h].pc = pc})

\* commander_auth.go:49-88: the counter is what the map holds, less what the
\* sweep and a callback have both counted out, once the steps under way are
\* done.  It never drifts upward, so it refuses no login for ever.
CountTells == count + Storing("add") - owed = Cardinality(Pending) - doubles

\* commander_auth.go:36: PKCEMaxPending is passed by no more than the logins
\* that read the counter before the others raised it, and what has drifted.
CapHolds ==
    Cardinality(Pending) + Storing("put") =< MaxPend - 1 + Cardinality(Handler) + doubles

\* commander_auth.go:52: both, and the types.
PendingCounted == TypeOK /\ CountTells /\ CapHolds

=============================================================================
