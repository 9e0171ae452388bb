--------------------------- MODULE KaineObjectives --------------------------
(***************************************************************************)
(* The objectives boards of the Kaine portal: kaine.objectives, the        *)
(* editors' requests that move an objective through its life cycle, and    *)
(* who gets to see it (internal/kaine/store.go, types.go and the           *)
(* objectives endpoints of internal/httpapi/kaine.go).                     *)
(*                                                                         *)
(* A request is a goroutine; what it sends to Postgres is one statement at *)
(* a time.  Only TransitionState sends more than one that matters: it      *)
(* reads the state, checks the transition against the table and updates    *)
(* the row whatever its state is by then.  PUT and DELETE write without a  *)
(* check.  Titles, notes, links, priorities, boards and merits change      *)
(* along with what is kept here and nothing depends on them.               *)
(***************************************************************************)
EXTENDS Naturals, FiniteSets

CONSTANTS
    Id,       \* objectives, past and to come
    User,     \* sets of roles, each a user with these
    Handler,  \* goroutines serving requests
    MaxTime,  \* bound on the clock
    MaxOps    \* bound on requests that write

Role  == {"god", "approved", "pledge", "ops", "lead-ops", "directors", "objectives-editor"}
Level == {"public", "pledge", "ops"}
State == {"draft", "approved", "active", "completed", "cancelled", "archived"}
Time  == 0..MaxTime
\* publish_at, which may be NULL.
Schedule == {{}} \cup {{t} : t \in Time}

ASSUME UserAssumption  == User \subseteq SUBSET Role
ASSUME BoundAssumption == MaxTime \in Nat /\ MaxOps \in Nat

VARIABLES
    obj,       \* the rows there are
    now,       \* NOW()
    req,       \* per goroutine, a transition that has read its row
    ops,       \* requests so far (bounds the model)
    irregular  \* history: objectives some write took out of the life cycle

vars == <<obj, now, req, ops, irregular>>

Objective == [state : State, level : Level, publish : Schedule,
              approved : BOOLEAN, completed : BOOLEAN, archived : BOOLEAN]
Transition == [id : Id, from : State, to : State]

\* Rows and requests have their types.
TypeOK ==
    /\ \E S \in SUBSET Id : obj \in [S -> Objective]
    /\ now \in Time
    /\ req \in [Handler -> SUBSET Transition]
    /\ \A h \in Handler : \A r, s \in req[h] : r = s
    /\ \A h \in Handler : \A r \in req[h] : r.id \in DOMAIN obj
    /\ ops \in Nat
    /\ irregular \subseteq DOMAIN obj

Init ==
    /\ obj = << >>
    /\ now = 0
    /\ req = [h \in Handler |-> {}]
    /\ ops = 0
    /\ irregular = {}

Rows == DOMAIN obj

-----------------------------------------------------------------------------
(* Roles                                                                   *)

\* CanEditObjectives ... GetAccessLevels.
CanEditObjectives(u) == u \cap {"god", "approved", "directors", "lead-ops", "objectives-editor"} # {}
CanViewOps(u)        == u \cap {"god", "approved", "directors", "lead-ops", "ops"} # {}
CanViewPledge(u)     == CanViewOps(u) \/ "pledge" \in u
AccessLevels(u) ==
    {"public"} \cup {l \in {"pledge"} : CanViewPledge(u)} \cup {l \in {"ops"} : CanViewOps(u)}

Editors == {u \in User : CanEditObjectives(u)}

-----------------------------------------------------------------------------
(* Writing                                                                 *)

ValidTransitions ==
    {<<"draft", "approved">>, <<"draft", "cancelled">>,
     <<"approved", "active">>, <<"approved", "draft">>, <<"approved", "cancelled">>,
     <<"active", "completed">>, <<"active", "cancelled">>,
     <<"completed", "archived">>, <<"cancelled", "archived">>}

\* The stamps an update to state s sets; none is ever cleared.
Stamped(o, s) ==
    [o EXCEPT !.state = s,
              !.approved = @ \/ s = "approved",
              !.completed = @ \/ s = "completed",
              !.archived = @ \/ s = "archived"]

Write == ops < MaxOps /\ ops' = ops + 1 /\ Editors # {}

Create ==
    /\ Write
    /\ \E i \in Id \ Rows, l \in Level, p \in Schedule :
         obj' = [j \in Rows \cup {i} |->
                   IF j \in Rows THEN obj[j]
                   ELSE [state |-> "draft", level |-> l, publish |-> p,
                         approved |-> FALSE, completed |-> FALSE, archived |-> FALSE]]
    /\ UNCHANGED <<now, req, irregular>>

\* PUT: the fields it has, the state among them, in one statement.
UpdateObjective ==
    /\ Write
    /\ \E i \in Rows, l \in Level, p \in Schedule :
         LET o == [obj[i] EXCEPT !.level = l, !.publish = IF p = {} THEN @ ELSE p] IN
         \/ obj' = [obj EXCEPT ![i] = o] /\ UNCHANGED irregular
         \/ \E s \in State : /\ obj' = [obj EXCEPT ![i] = Stamped(o, s)]
                            /\ irregular' = irregular \cup {i}
    /\ UNCHANGED <<now, req>>

\* DELETE cancels, whatever the state.
DeleteObjective ==
    /\ Write
    /\ \E i \in Rows :
         /\ obj' = [obj EXCEPT ![i] = Stamped(@, "cancelled")]
         /\ irregular' = irregular \cup
              {j \in {i} : <<obj[i].state, "cancelled">> \notin ValidTransitions}
    /\ UNCHANGED <<now, req>>

\* Mutant: the check of the transition is taken for one of the target alone.
TransitionCheckMutant(h) ==
    /\ Write /\ req[h] = {}
    /\ \E i \in Rows, s \in State \ {"draft"} :
         req' = [req EXCEPT ![h] = {[id |-> i, from |-> obj[i].state, to |-> s]}]
    /\ UNCHANGED <<obj, now, irregular>>

\* TransitionState: the read and the check.  A transition the table does not
\* list, and an id that does not exist, are answered with 400.
TransitionCheck(h) ==
    /\ Write /\ req[h] = {}
    /\ \E i \in Rows, s \in State :
         /\ <<obj[i].state, s>> \in ValidTransitions
         /\ req' = [req EXCEPT ![h] = {[id |-> i, from |-> obj[i].state, to |-> s]}]
    /\ UNCHANGED <<obj, now, irregular>>

\* ... and the update, unless the request has failed or gone in between.
TransitionWrite(h) ==
    /\ \E r \in req[h] :
         /\ obj' = [obj EXCEPT ![r.id] = Stamped(@, r.to)]
         /\ irregular' = irregular \cup {i \in {r.id} : obj[i].state # r.from}
    /\ req' = [req EXCEPT ![h] = {}]
    /\ UNCHANGED <<now, ops>>

Abandon(h) ==
    /\ req[h] # {} /\ req' = [req EXCEPT ![h] = {}]
    /\ UNCHANGED <<obj, now, ops, irregular>>

Tick == now < MaxTime /\ now' = now + 1 /\ UNCHANGED <<obj, req, ops, irregular>>

Next == \/ Create \/ UpdateObjective \/ DeleteObjective \/ Tick
        \/ \E h \in Handler : TransitionCheck(h) \/ TransitionWrite(h) \/ Abandon(h)

Spec == Init /\ [][Next]_vars

-----------------------------------------------------------------------------
(* Reading                                                                 *)

\* The list's last condition: scheduled for later, and past the editors' desk.
\* Mutant: the comparison the other way round.
PublishedMutant(o) == o.publish \subseteq now..MaxTime \/ o.state \in {"draft", "approved"}
Published(o) == o.publish \subseteq 0..now \/ o.state \in {"draft", "approved"}

\* GET .../objectives, without the query's own filters.
Listed(u) == {i \in Rows : /\ obj[i].state # "archived"
                           /\ obj[i].level \in AccessLevels(u)
                           /\ Published(obj[i])}

-----------------------------------------------------------------------------
(* Properties                                                              *)

\* types.go:51-60: an objective nobody has moved but by transitions whose check
\* still held when they were written bears the stamps of its path: approved
\* before it is active, completed or cancelled before it is archived, and
\* archived for good.
Lifecycle ==
    \A i \in Rows \ irregular :
       LET o == obj[i] IN
       /\ o.state \in {"approved", "active", "completed"} => o.approved
       /\ o.completed => o.state \in {"completed", "archived"} /\ o.approved
       /\ o.state = "completed" => o.completed
       /\ o.archived <=> o.state = "archived"

\* store.go:449, :282: the types, and stamps that tell the path.
LifecycleHolds == TypeOK /\ Lifecycle

\* store.go:91-92: time alone takes nothing off a user's list; what is on it
\* stays until its row is written.
ListedStays ==
    [][\A u \in User : \A i \in Listed(u) : obj'[i] = obj[i] => i \in Listed(u)']_vars

=============================================================================
