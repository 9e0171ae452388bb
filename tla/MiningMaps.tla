------------------------------ MODULE MiningMaps -----------------------------
(***************************************************************************)
(* The portal's mining maps: kaine.mining_maps, the editors' requests, and *)
(* the import of a spreadsheet, which upserts row by row                   *)
(* (internal/kaine/store.go and the mining-map endpoints of                *)
(* internal/httpapi/kaine.go).                                             *)
(*                                                                         *)
(* An import takes its rows in order; for each it looks the map up by      *)
(* system and body, then creates it or updates the one it found, by id.    *)
(* Nothing is held in between, so other requests write to the same rows.   *)
(* Of a map's columns three kinds differ: those an import overwrites       *)
(* (text), those it keeps when the cell is blank (list: hotspots and       *)
(* commodities) and those it never writes (third: the third map).          *)
(***************************************************************************)
EXTENDS Naturals, Sequences, FiniteSets

CONSTANTS
    Key,      \* pairs of system and body
    Known,    \* those whose system galaxy.* has
    Value,    \* contents of a column
    File,     \* spreadsheets: sequences of rows
    Handler,  \* goroutines serving requests
    MaxId,    \* bound on rows ever created
    MaxOps,   \* bound on requests
    MaxFaults \* bound on failed calls and abandoned requests

VARIABLES
    maps,    \* rows by id
    serial,  \* the id a new row gets
    imports, \* per goroutine, the import it serves
    ops, faults \* requests and failures so far (bounds the model)

vars == <<maps, serial, imports, ops, faults>>

Opt(S)  == {{}} \cup {{x} : x \in S}
Map     == [key : Key, text : Value, list : Opt(Value), third : Opt(Value)]
Row     == [key : Opt(Key), text : Value, list : Opt(Value)]
Outcome == {"created", "updated", "skipped", "error"}

\* pos is the row an import is at, found the id it has looked up for it,
\* results what it has to say of the rows before.  start, removed and alone
\* are history: the table when it began, the keys others have taken out of
\* it since, and whether nobody has written and no call has failed since.
Import == [pc : {"idle", "lookup", "create", "update", "done"}, file : File,
           valid : SUBSET Key, pos : Nat, found : Nat, results : Seq(Outcome),
           start : SUBSET Map, removed : SUBSET Key, alone : BOOLEAN]

Rows == DOMAIN maps
Holds(k) == \E i \in Rows : maps[i].key = k
Busy(h) == imports[h].pc \in {"lookup", "create", "update"}
Request == ops < MaxOps /\ ops' = ops + 1
Fault == faults < MaxFaults /\ faults' = faults + 1
NoFault == UNCHANGED faults

\* Rows and imports have their types, and no key has two rows.
TypeOK ==
    /\ serial \in 1..MaxId + 1
    /\ Rows \subseteq 1..serial - 1 /\ \A i \in Rows : maps[i] \in Map
    /\ \A i, j \in Rows : maps[i].key = maps[j].key => i = j
    /\ \A h \in Handler : /\ imports[h] \in Import
                          /\ Busy(h) => imports[h].pos \in 1..Len(imports[h].file)

Init ==
    /\ maps = << >> /\ serial = 1 /\ ops = 0 /\ faults = 0
    /\ imports = [h \in Handler |->
         [pc |-> "idle", file |-> CHOOSE f \in File : TRUE, valid |-> {}, pos |-> 1, found |-> 0,
          results |-> << >>, start |-> {}, removed |-> {}, alone |-> FALSE]]

\* What a write that leaves the table as new does to the imports.
Seen(new) ==
    LET lost == {maps[i].key : i \in Rows} \ {new[i].key : i \in DOMAIN new} IN
    [h \in Handler |-> IF imports[h].pc = "idle" THEN imports[h]
                       ELSE [imports[h] EXCEPT !.removed = @ \cup lost, !.alone = FALSE]]

-----------------------------------------------------------------------------
(* The store                                                               *)

CanCreate(k) == serial <= MaxId /\ ~Holds(k)
Created(m) == [i \in Rows \cup {serial} |-> IF i \in Rows THEN maps[i] ELSE m]

\* UpdateMiningMap of all an import writes: the lists only when they are there.
\* Mutant: blank lists are written like blank text.
MergedMutant(m, row) == [m EXCEPT !.text = row.text, !.list = row.list]
Merged(m, row) == [m EXCEPT !.text = row.text, !.list = IF row.list = {} THEN @ ELSE row.list]
Fresh(k, row) == [key |-> k, text |-> row.text, list |-> row.list, third |-> {}]

-----------------------------------------------------------------------------
(* Single requests                                                         *)

\* POST .../create
CreateMap ==
    /\ Request /\ NoFault
    /\ \E k \in Key, v \in Value :
         LET new == Created([key |-> k, text |-> v, list |-> {v}, third |-> {v}]) IN
         CanCreate(k) /\ maps' = new /\ imports' = Seen(new)
    /\ serial' = serial + 1

\* PUT .../{id}, which may rename the map; onto another's name it is refused.
UpdateMap ==
    /\ Request /\ NoFault /\ UNCHANGED serial
    /\ \E i \in Rows, k \in Key, v \in Value :
         LET new == [maps EXCEPT ![i] = [@ EXCEPT !.key = k, !.text = v]] IN
         /\ new # maps /\ (k = maps[i].key \/ ~Holds(k))
         /\ maps' = new /\ imports' = Seen(new)

\* DELETE .../{id}
DeleteMap ==
    /\ Request /\ NoFault /\ UNCHANGED serial
    /\ \E i \in Rows :
         LET new == [j \in Rows \ {i} |-> maps[j]] IN
         maps' = new /\ imports' = Seen(new)

-----------------------------------------------------------------------------
(* Import                                                                  *)

\* The upload, checked and read, and one look at galaxy.*.  When that fails
\* every system passes.
ImportStart(h) ==
    /\ ~Busy(h) /\ Request
    /\ \E f \in File :
         LET asked == {k \in Key : \E n \in 1..Len(f) : f[n].key = {k}}
             begin(valid, alone) ==
               imports' = [imports EXCEPT ![h] =
                 [pc |-> "lookup", file |-> f, valid |-> valid, pos |-> 1, found |-> 0, results |-> << >>,
                  start |-> {maps[i] : i \in Rows}, removed |-> {}, alone |-> alone]]
         IN \/ NoFault /\ begin(asked \cap Known, TRUE)
            \/ Fault /\ begin(asked, FALSE)
    /\ UNCHANGED <<maps, serial>>

\* im after a row has come out as r.
Reported(im, r, alone) ==
    [im EXCEPT !.results = Append(@, r), !.pos = @ + 1, !.found = 0, !.alone = @ /\ alone,
               !.pc = IF im.pos = Len(im.file) THEN "done" ELSE "lookup"]

\* The row's own checks and GetMiningMapBySystemBody.
ImportLookup(h) ==
    LET im == imports[h]
        row == im.file[im.pos] IN
    /\ im.pc = "lookup"
    /\ \/ /\ row.key = {} /\ NoFault
          /\ imports' = [imports EXCEPT ![h] = Reported(im, "skipped", TRUE)]
       \/ /\ row.key # {} /\ ~(row.key \subseteq im.valid) /\ NoFault
          /\ imports' = [imports EXCEPT ![h] = Reported(im, "error", TRUE)]
       \/ /\ row.key # {} /\ row.key \subseteq im.valid /\ NoFault
          /\ \/ /\ \A i \in Rows : maps[i].key \notin row.key
                /\ imports' = [imports EXCEPT ![h] = [im EXCEPT !.pc = "create"]]
             \/ \E i \in Rows :
                  /\ maps[i].key \in row.key
                  /\ imports' = [imports EXCEPT ![h] = [im EXCEPT !.pc = "update", !.found = i]]
       \/ /\ row.key # {} /\ row.key \subseteq im.valid /\ Fault
          /\ imports' = [imports EXCEPT ![h] = Reported(im, "error", FALSE)]
    /\ UNCHANGED <<maps, serial, ops>>

\* The insert.  A row someone has added meanwhile makes it an error.
ImportCreate(h) ==
    LET im == imports[h]
        row == im.file[im.pos] IN
    /\ im.pc = "create"
    /\ \E k \in row.key :
         \/ /\ ~Holds(k) /\ CanCreate(k) /\ maps' = Created(Fresh(k, row)) /\ serial' = serial + 1
            /\ \/ NoFault /\ imports' = [Seen(maps') EXCEPT ![h] = Reported(im, "created", TRUE)]
               \/ Fault /\ imports' = [Seen(maps') EXCEPT ![h] = Reported(im, "error", FALSE)]
         \/ /\ Holds(k) /\ NoFault /\ UNCHANGED <<maps, serial>>
            /\ imports' = [imports EXCEPT ![h] = Reported(im, "error", FALSE)]
         \/ /\ Fault /\ UNCHANGED <<maps, serial>>
            /\ imports' = [imports EXCEPT ![h] = Reported(im, "error", FALSE)]
    /\ UNCHANGED ops

\* The update, by the id found: it writes the row's own key back as well, and
\* a row that is gone counts as updated.
ImportUpdate(h) ==
    LET im == imports[h]
        row == im.file[im.pos]
        i == im.found IN
    /\ im.pc = "update"
    /\ \E k \in row.key :
         \/ /\ i \in Rows /\ \A j \in Rows \ {i} : maps[j].key # k
            /\ maps' = [maps EXCEPT ![i] = [Merged(@, row) EXCEPT !.key = k]]
            /\ \/ NoFault /\ imports' = [Seen(maps') EXCEPT ![h] = Reported(im, "updated", TRUE)]
               \/ Fault /\ imports' = [Seen(maps') EXCEPT ![h] = Reported(im, "error", FALSE)]
         \/ /\ i \notin Rows /\ NoFault /\ UNCHANGED maps
            /\ imports' = [imports EXCEPT ![h] = Reported(im, "updated", TRUE)]
         \/ /\ \E j \in Rows \ {i} : i \in Rows /\ maps[j].key = k
            /\ NoFault /\ UNCHANGED maps
            /\ imports' = [imports EXCEPT ![h] = Reported(im, "error", FALSE)]
         \/ /\ Fault /\ UNCHANGED maps
            /\ imports' = [imports EXCEPT ![h] = Reported(im, "error", FALSE)]
    /\ UNCHANGED <<serial, ops>>

\* The client goes away: every later call fails with its context.  What is
\* left of the import is errors nobody reads.
ImportAbandon(h) ==
    /\ Busy(h) /\ Fault
    /\ imports' = [imports EXCEPT ![h].pc = "idle", ![h].alone = FALSE]
    /\ UNCHANGED <<maps, serial, ops>>

Next == \/ CreateMap \/ UpdateMap \/ DeleteMap
        \/ \E h \in Handler : \/ ImportStart(h) \/ ImportLookup(h) \/ ImportCreate(h)
                              \/ ImportUpdate(h) \/ ImportAbandon(h)

Spec == Init /\ [][Next]_vars

-----------------------------------------------------------------------------
(* Properties                                                              *)

\* One row of a file taken into a table, and the table after all of them.
Upsert(t, row, valid) ==
    IF row.key = {} \/ ~(row.key \subseteq valid) THEN t
    ELSE IF \E m \in t : m.key \in row.key
         THEN {IF m.key \in row.key
               THEN [m EXCEPT !.text = row.text, !.list = IF row.list = {} THEN m.list ELSE row.list]
               ELSE m : m \in t}
         ELSE t \cup {[key |-> k, text |-> row.text, list |-> row.list, third |-> {}] : k \in row.key}
After(im) ==
    LET upto[n \in 0..Len(im.file)] ==
          IF n = 0 THEN im.start ELSE Upsert(upto[n - 1], im.file[n], im.valid)
    IN upto[Len(im.file)]
Count(im, r) == Cardinality({n \in 1..Len(im.results) : im.results[n] = r})

\* kaine.go:1399-1401: an import nobody wrote alongside of has, when it is done,
\* taken in its rows in order and left everything else, and what it reports
\* adds up to that.
ImportMerges ==
    [][\A h \in Handler :
         LET im == imports'[h] IN
         Busy(h) /\ im.pc = "done" /\ im.alone =>
            /\ {maps'[i] : i \in DOMAIN maps'} = After(im)
            /\ Count(im, "created") = Cardinality(After(im)) - Cardinality(im.start)
            /\ Count(im, "created") + Count(im, "updated") =
                 Cardinality({n \in 1..Len(im.file) : im.file[n].key # {} /\ im.file[n].key \subseteq im.valid})]_vars

\* types.go:319-326, store.go:898-900: whatever else is going on, a map an import reports as
\* created or updated is there, unless somebody has removed or renamed it.
ReportKept ==
    \A h \in Handler : \A n \in 1..Len(imports[h].results) :
       imports[h].pc # "idle" /\ imports[h].results[n] \in {"created", "updated"} =>
          \E k \in imports[h].file[n].key : Holds(k) \/ k \in imports[h].removed

=============================================================================
