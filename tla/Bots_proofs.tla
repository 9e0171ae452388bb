----------------------------- MODULE Bots_proofs ----------------------------
(***************************************************************************)
(* Proofs about BotPublisher, BotWatcher, OpsOutages and BotAlerts: the    *)
(* inductive invariant of each, and from it the safety properties the runs *)
(* check, for every set of items, systems, channels, message ids, bindings *)
(* and requests and every bound on faults.  W, Outages and Alerts, of      *)
(* MCBots, stand beside the publisher.                                     *)
(***************************************************************************)
EXTENDS MCBots, FiniteSetTheorems, SequenceTheorems, TLAPS

USE DEF discordVars, storeVars, workerVars, envVars, boundVars

\* The state a run starts from satisfies the invariant.
LEMMA InitInv == Init => Inv
<1> SUFFICES ASSUME Init PROVE Inv
    OBVIOUS
<1> USE DEF Init
<1>1. TypeOK
  BY DEF TypeOK, Phase, ClearState, ClearPhase, NoClear
<1>2. QED
  BY <1>1 DEF Inv, RowKey, WipeCovers, ClearCovers, InFlight, FreshRows,
     ItemsOfSnapshot, OrphansShow, Accounted, QuietWhenDisabled, NoClear

\* Every step keeps the types.
LEMMA TypeStep == ASSUME TypeOK, [Next]_vars PROVE TypeOK'
<1> USE DEF TypeOK, Phase, NoFault, Fault, Idle
<1>1. CASE Tick BY <1>1 DEF Tick
<1>2. CASE PollHealthy BY <1>2 DEF PollHealthy
<1>3. CASE PollFails BY <1>3 DEF PollFails
<1>4. CASE ApplyCheck BY <1>4 DEF ApplyCheck
<1>5. CASE ApplyRead BY <1>5 DEF ApplyRead
<1>6. CASE WipeDelete
  <2>1. live' \subseteq Message /\ orphans' \subseteq Message
    BY <1>6 DEF WipeDelete, DeleteAccepted, DeleteErrs, Gone
  <2>2. todo' \subseteq Message /\ items' \subseteq Identity /\ cur' \subseteq Message
    BY <1>6 DEF WipeDelete, DeleteErrs
  <2>3. pc' \in Phase /\ faults' \in Nat /\ clears' \in Nat
    BY <1>6 DEF WipeDelete, DeleteErrs
  <2>4. QED
    BY <1>6, <2>1, <2>2, <2>3 DEF WipeDelete
<1>7. CASE WipeRows BY <1>7 DEF WipeRows, Stranded
<1>8. CASE PostItem BY <1>8 DEF PostItem, NewMessages, Fresh, Message
<1>9. CASE Upsert BY <1>9 DEF Upsert, Upserted
<1>10. CASE ApplyDone BY <1>10 DEF ApplyDone
<1>11. CASE Disable
  <2>1. disabled' \in BOOLEAN
    BY <1>11, Zenon DEF Disable
  <2>2. faults' \in Nat /\ clears' \in Nat
    BY <1>11 DEF Disable
  <2>3. QED
    BY <1>11, <2>1, <2>2 DEF Disable
<1>12. ASSUME NEW k \in Clearer, ClearStart(k) PROVE TypeOK'
  <2>1. [pc |-> "delete", todo |-> rows, seen |-> rows, failed |-> FALSE] \in ClearState
    BY DEF ClearState, ClearPhase
  <2>2. clear' \in [Clearer -> ClearState]
    BY <1>12, <2>1 DEF ClearStart
  <2>3. QED
    BY <1>12, <2>2 DEF ClearStart
<1>13. ASSUME NEW k \in Clearer, ClearDelete(k) PROVE TypeOK'
  BY <1>13 DEF ClearDelete, DeleteAccepted, DeleteErrs, Gone, ClearState, ClearPhase
<1>14. ASSUME NEW k \in Clearer, ClearPurge(k) PROVE TypeOK'
  <2>1. clear' \in [Clearer -> ClearState]
    <3>1. NoClear \in ClearState
      BY DEF NoClear, ClearState, ClearPhase
    <3>2. [clear EXCEPT ![k].pc = "enable", ![k].seen = {}] \in [Clearer -> ClearState]
      BY DEF ClearState, ClearPhase
    <3>3. QED
      BY <1>14, <3>1, <3>2 DEF ClearPurge, MayPurge
  <2>2. rows' \subseteq Message /\ orphans' \subseteq Message
    BY <1>14 DEF ClearPurge, MayPurge, Unlisted
  <2>3. faults' \in Nat /\ clears' \in Nat
    BY <1>14 DEF ClearPurge, MayPurge
  <2>4. QED
    BY <1>14, <2>1, <2>2, <2>3 DEF ClearPurge, MayPurge
<1>15. ASSUME NEW k \in Clearer, ClearEnable(k) PROVE TypeOK'
  <2>1. NoClear \in ClearState
    BY DEF NoClear, ClearState, ClearPhase
  <2>2. clear' \in [Clearer -> ClearState]
    BY <1>15, <2>1 DEF ClearEnable
  <2>3. disabled' \in BOOLEAN
    BY <1>15, Zenon DEF ClearEnable
  <2>4. faults' \in Nat /\ clears' \in Nat
    BY <1>15 DEF ClearEnable
  <2>5. QED
    BY <1>15, <2>2, <2>3, <2>4 DEF ClearEnable
<1>16. CASE Restart BY <1>16 DEF Restart, Bindable, ClearState, ClearPhase, NoClear
<1>17. CASE LoseAccess BY <1>17 DEF LoseAccess
<1>18. CASE RegainAccess BY <1>18 DEF RegainAccess
<1>19. CASE HandDelete BY <1>19 DEF HandDelete, Gone
<1>20. CASE UNCHANGED vars BY <1>20 DEF vars
<1>21. QED
  BY <1>1, <1>2, <1>3, <1>4, <1>5, <1>6, <1>7, <1>8, <1>9, <1>10, <1>11,
     <1>12, <1>13, <1>14, <1>15, <1>16, <1>17, <1>18, <1>19, <1>20
     DEF Next, Worker, ClearHistory, Outside

\* Every step keeps the rest of the invariant.
LEMMA InvStep == ASSUME Inv, [Next]_vars PROVE Inv'
<1>0. TypeOK'
  BY TypeStep DEF Inv
<1> USE DEF Inv, RowKey, WipeCovers, ClearCovers, InFlight, FreshRows,
            ItemsOfSnapshot, OrphansShow, Accounted, QuietWhenDisabled, NoFault, Idle
<1>1. CASE Tick BY <1>0, <1>1 DEF Tick
<1>2. CASE PollHealthy BY <1>0, <1>2 DEF PollHealthy
<1>3. CASE PollFails BY <1>0, <1>3 DEF PollFails
<1>4. CASE ApplyCheck BY <1>0, <1>4 DEF ApplyCheck
<1>5. CASE ApplyRead BY <1>0, <1>5 DEF ApplyRead
<1>6. CASE WipeDelete BY <1>0, <1>6 DEF WipeDelete, DeleteAccepted, DeleteErrs, Gone, NotFound
<1>7. CASE WipeRows BY <1>0, <1>7 DEF WipeRows, Stranded
<1>8. CASE PostItem BY <1>0, <1>8 DEF PostItem, NewMessages, Fresh, Known
<1>9. CASE Upsert BY <1>0, <1>9 DEF Upsert, Upserted
<1>10. CASE ApplyDone BY <1>0, <1>10 DEF ApplyDone
<1>11. CASE Disable BY <1>0, <1>11 DEF Disable
<1>12. ASSUME NEW k \in Clearer, ClearStart(k) PROVE Inv'
  BY <1>0, <1>12 DEF ClearStart
<1>13. ASSUME NEW k \in Clearer, ClearDelete(k) PROVE Inv'
  <2> USE <1>0, <1>13 DEF ClearDelete
  <2>1. clear \in [Clearer -> ClearState]
    BY DEF TypeOK
  <2>2. /\ live' \subseteq live
        /\ live' \ orphans' \subseteq live \ orphans
        /\ live \cap orphans \cap live' \subseteq orphans'
        /\ orphans \subseteq live => orphans' \subseteq live'
        /\ UNCHANGED <<rows, pc, todo, items, cur, bound, want, disabled>>
    BY DEF DeleteAccepted, DeleteErrs, Gone
  <2>3. \A j \in Clearer : /\ clear'[j].seen = clear[j].seen
                           /\ clear'[j].pc = clear[j].pc
    BY <2>1 DEF ClearState
  <2>4. RowKey' /\ WipeCovers' /\ InFlight' /\ FreshRows' /\ ItemsOfSnapshot'
        /\ OrphansShow' /\ Accounted' /\ QuietWhenDisabled'
    BY <2>2, <2>3
  <2>5. ClearCovers'
    BY <2>1, <2>2, <2>3 DEF ClearState, DeleteAccepted, DeleteErrs, Gone, NotFound
  <2>6. QED
    BY <2>4, <2>5
<1>14. ASSUME NEW k \in Clearer, ClearPurge(k) PROVE Inv'
  <2> USE <1>0, <1>14 DEF ClearPurge, MayPurge
  <2>1. clear \in [Clearer -> ClearState]
    BY DEF TypeOK
  <2>2. /\ rows' \subseteq rows
        /\ UNCHANGED <<live, pc, todo, items, cur, bound, want, disabled>>
    OBVIOUS
  <2>3. \A j \in Clearer : j # k => clear'[j] = clear[j]
    BY <2>1 DEF ClearState
  <2>4. clear'[k].pc # "delete" /\ clear'[k].seen = {}
    BY <2>1 DEF ClearState, NoClear
  <2>5. OrphansShow' /\ Accounted'
    BY DEF Unlisted
  <2>6. RowKey' /\ WipeCovers' /\ FreshRows' /\ ItemsOfSnapshot' /\ QuietWhenDisabled'
    BY <2>2
  <2>7. InFlight' /\ ClearCovers'
    BY <2>2, <2>3, <2>4
  <2>8. QED
    BY <2>5, <2>6, <2>7
<1>15. ASSUME NEW k \in Clearer, ClearEnable(k) PROVE Inv'
  BY <1>0, <1>15 DEF ClearEnable, NoClear
<1>16. CASE Restart BY <1>0, <1>16 DEF Restart, Bindable, NoClear
<1>17. CASE LoseAccess BY <1>0, <1>17 DEF LoseAccess
<1>18. CASE RegainAccess BY <1>0, <1>18 DEF RegainAccess
<1>19. CASE HandDelete BY <1>0, <1>19 DEF HandDelete, Gone
<1>20. CASE UNCHANGED vars BY <1>0, <1>20 DEF vars
<1>21. QED
  BY <1>1, <1>2, <1>3, <1>4, <1>5, <1>6, <1>7, <1>8, <1>9, <1>10, <1>11,
     <1>12, <1>13, <1>14, <1>15, <1>16, <1>17, <1>18, <1>19, <1>20
     DEF Next, Worker, ClearHistory, Outside

\* Inv holds in every state of every run: the strengthening the theorems
\* below are read off from.
THEOREM Invariance == Spec => []Inv
<1>1. Inv /\ [Next]_vars => Inv'
  BY InvStep
<1>2. QED
  BY InitInv, <1>1, PTL DEF Spec

\* Every variable keeps its type.
THEOREM TypeCorrect == Spec => []TypeOK
<1>1. Inv => TypeOK
  BY DEF Inv
<1>2. QED
  BY Invariance, <1>1, PTL

\* Apply and ClearHistory lose track of a message only in the ways the
\* history records (publisher.go, Apply and ClearHistory).
THEOREM NothingForgotten == Spec => []Accounted
<1>1. Inv => Accounted
  BY DEF Inv
<1>2. QED
  BY Invariance, <1>1, PTL

\* Messages so lost aside, no item is announced twice (publisher.go, Apply).
THEOREM AnnouncedOnce == Spec => []NoDuplicates
<1>1. Inv => NoDuplicates
  BY DEF Inv, RowKey, InFlight, FreshRows, Accounted, NoDuplicates
<1>2. QED
  BY Invariance, <1>1, PTL

\* Apply does nothing for a disabled binding (publisher.go:65-71, 103-107).
THEOREM DisabledIsQuiet == Spec => []QuietWhenDisabled
<1>1. Inv => QuietWhenDisabled
  BY DEF Inv
<1>2. QED
  BY Invariance, <1>1, PTL

\* Nothing of an earlier snapshot is on show while Apply posts
\* (publisher.go:33-41).
THEOREM RebuildIsClean == Spec => []OldSetVanished
<1>1. Inv => OldSetVanished
  BY DEF Inv, InFlight, FreshRows, Accounted, OldSetVanished
<1>2. QED
  BY Invariance, <1>1, PTL

-----------------------------------------------------------------------------
(* The publisher keeps the notice board                                    *)

Filling == pc \in {"post", "upsert"}

\* Steps in which nothing is lost, posted or taken down, and no new snapshot
\* arrives, leave the board alone or stop filling it.
LEMMA QuietStep ==
    ASSUME UNCHANGED <<live, orphans, want>>, (Filling' => Filling)
    PROVE  [Board!Next]_(Board!vars)
<1>1. UNCHANGED Filling \/ ~Filling'
  BY DEF Filling
<1>2. (live \ orphans)' = (live \ orphans) \ {} /\ orphans' = orphans \cup {}
  OBVIOUS
<1>3. Board!Lose
  BY <1>1, <1>2 DEF Board!Lose, Filling
<1>4. QED
  BY <1>3 DEF Board!Next

\* A step that takes one message down.
LEMMA GoneStep ==
    ASSUME NEW m \in live, Gone(m), UNCHANGED want, (Filling' => Filling)
    PROVE  [Board!Next]_(Board!vars)
<1>1. UNCHANGED Filling \/ ~Filling'
  BY DEF Filling
<1>2. Board!TakeDown
  BY <1>1 DEF Gone, Board!TakeDown, Filling
<1>3. QED
  BY <1>2 DEF Board!Next

\* A step that loses track of some messages.
LEMMA LoseStep ==
    ASSUME NEW S \in SUBSET live, orphans' = orphans \cup S,
           UNCHANGED <<live, want>>, (Filling' => Filling)
    PROVE  [Board!Next]_(Board!vars)
<1>1. S \ orphans \in SUBSET (live \ orphans)
  OBVIOUS
<1>2. live' \ orphans' = (live \ orphans) \ (S \ orphans)
  OBVIOUS
<1>3. orphans' = orphans \cup (S \ orphans)
  OBVIOUS
<1>4. Board!Lose
  BY <1>1, <1>2, <1>3 DEF Board!Lose, Filling
<1>5. QED
  BY <1>4 DEF Board!Next

\* The publisher starts with an empty board, and each of its steps is a step
\* of the board or none (publisher.go:30-51, Apply and ClearHistory).
LEMMA BoardStep == ASSUME Inv, [Next]_vars PROVE [Board!Next]_(Board!vars)
<1> USE DEF Filling
<1>1. CASE Tick BY <1>1, QuietStep DEF Tick
<1>2. CASE PollHealthy
  <2>1. Board!Publish
    BY <1>2 DEF PollHealthy, Board!Publish
  <2>2. QED
    BY <2>1 DEF Board!Next
<1>3. CASE PollFails BY <1>3, QuietStep DEF PollFails, Idle
<1>4. CASE ApplyCheck BY <1>4, QuietStep DEF ApplyCheck, Idle
<1>5. CASE ApplyRead BY <1>5, QuietStep DEF ApplyRead, Idle
<1>6. CASE WipeDelete
  <2>1. UNCHANGED want /\ (Filling' => Filling)
    BY <1>6 DEF WipeDelete, Idle
  <2>2. CASE UNCHANGED discordVars
    BY <2>1, <2>2, QuietStep
  <2>3. CASE \E m \in live : Gone(m)
    BY <2>1, <2>3, GoneStep
  <2>4. QED
    BY <1>6, <2>2, <2>3 DEF WipeDelete, DeleteAccepted, DeleteErrs, Deletes
<1>7. CASE WipeRows
  <2>1. Stranded \in SUBSET live /\ UNCHANGED <<live, want>>
    BY <1>7 DEF WipeRows, Stranded
  <2>2. CASE pc' = "post"
    <3>1. orphans' = orphans \cup Stranded
      BY <1>7, <2>2 DEF WipeRows, Idle
    <3>2. live \ orphans \subseteq Stranded
      BY <1>7 DEF WipeRows, Inv, Accounted, WipeCovers, InFlight, Stranded
    <3>3. orphans' = orphans \cup (live \ orphans) /\ live' \ orphans' = {}
      BY <2>1, <3>1, <3>2 DEF Inv, OrphansShow
    <3>4. Board!Open
      BY <1>7, <2>1, <2>2, <3>3 DEF Board!Open, WipeRows
    <3>5. QED
      BY <3>4 DEF Board!Next
  <2>3. CASE pc' = "idle"
    <3>1. orphans' = orphans \/ orphans' = orphans \cup Stranded
      BY <1>7, <2>3 DEF WipeRows
    <3>2. QED
      BY <2>1, <2>3, <3>1, QuietStep, LoseStep
  <2>4. QED
    BY <1>7, <2>2, <2>3 DEF WipeRows, Idle
<1>8. CASE PostItem
  <2>1. CASE UNCHANGED discordVars
    BY <1>8, <2>1, QuietStep DEF PostItem
  <2>2. ASSUME NEW i \in items, NEW m \in NewMessages(i), live' = live \cup {m}
        PROVE  /\ m \in Message /\ m \notin live /\ m \notin orphans
               /\ m.of = i /\ i \in want
    BY DEF Inv, TypeOK, NewMessages, Fresh, Known, Message, OrphansShow, ItemsOfSnapshot
  <2>3. ASSUME NEW i \in items, NEW m \in NewMessages(i),
               live' = live \cup {m}, UNCHANGED <<orphans, want>>, Filling'
        PROVE  Board!Pin
    <3>1. \A n \in live \ orphans : n.of # i
      BY <1>8 DEF PostItem, Inv, Accounted, FreshRows, InFlight
    <3>2. QED
      BY <1>8, <2>2, <2>3, <3>1 DEF PostItem, Board!Pin, Board!Unseen
  <2>4. ASSUME NEW i \in items, NEW m \in NewMessages(i), live' = live \cup {m},
               orphans' = orphans \cup {m}, UNCHANGED want, Filling'
        PROVE  Board!PinAstray
    BY <1>8, <2>2, <2>4 DEF PostItem, Board!PinAstray, Board!Unseen
  <2>5. QED
    BY <1>8, <2>1, <2>3, <2>4 DEF PostItem, Board!Next
<1>9. CASE Upsert
  <2>1. UNCHANGED <<live, want>> /\ Filling' = Filling
    BY <1>9 DEF Upsert
  <2>2. orphans' = orphans \/ orphans' = orphans \cup (cur \cap live)
    BY <1>9 DEF Upsert
  <2>3. QED
    BY <2>1, <2>2, QuietStep, LoseStep
<1>10. CASE ApplyDone BY <1>10, QuietStep DEF ApplyDone, Idle
<1>11. CASE Disable BY <1>11, QuietStep DEF Disable, Idle
<1>12. ASSUME NEW k \in Clearer, ClearStart(k) PROVE [Board!Next]_(Board!vars)
  BY <1>12, QuietStep DEF ClearStart
<1>13. ASSUME NEW k \in Clearer, ClearDelete(k) PROVE [Board!Next]_(Board!vars)
  <2>1. UNCHANGED want /\ Filling' = Filling
    BY <1>13 DEF ClearDelete
  <2>2. UNCHANGED discordVars \/ \E m \in live : Gone(m)
    BY <1>13 DEF ClearDelete, DeleteAccepted, DeleteErrs, Deletes
  <2>3. QED
    BY <2>1, <2>2, QuietStep, GoneStep
<1>14. ASSUME NEW k \in Clearer, ClearPurge(k) PROVE [Board!Next]_(Board!vars)
  <2>1. UNCHANGED <<live, want>> /\ Filling' = Filling /\ Unlisted(k) \in SUBSET live
    BY <1>14 DEF ClearPurge, Unlisted
  <2>2. orphans' = orphans \/ orphans' = orphans \cup Unlisted(k)
    BY <1>14 DEF ClearPurge
  <2>3. QED
    BY <2>1, <2>2, QuietStep, LoseStep
<1>15. ASSUME NEW k \in Clearer, ClearEnable(k) PROVE [Board!Next]_(Board!vars)
  BY <1>15, QuietStep DEF ClearEnable
<1>16. CASE Restart
  <2>1. UNCHANGED <<live, want>> /\ Filling' = FALSE /\ orphans' = orphans \cup (cur \cap live)
    BY <1>16 DEF Restart, Idle
  <2>2. QED
    BY <2>1, LoseStep
<1>17. CASE LoseAccess BY <1>17, QuietStep DEF LoseAccess
<1>18. CASE RegainAccess BY <1>18, QuietStep DEF RegainAccess
<1>19. CASE HandDelete BY <1>19, GoneStep DEF HandDelete
<1>20. CASE UNCHANGED vars BY <1>20, QuietStep DEF vars
<1>21. QED
  BY <1>1, <1>2, <1>3, <1>4, <1>5, <1>6, <1>7, <1>8, <1>9, <1>10, <1>11,
     <1>12, <1>13, <1>14, <1>15, <1>16, <1>17, <1>18, <1>19, <1>20
     DEF Next, Worker, ClearHistory, Outside

\* Seen from the channel, polls, failures, restarts and clear requests keep the
\* notice board (publisher.go:30-51).
THEOREM Implementation == Spec => KeepsBoard
<1>1. Init => Board!Init
  BY DEF Init, Board!Init
<1>2. QED
  BY <1>1, Invariance, BoardStep, PTL DEF Spec, KeepsBoard, Board!Spec

-----------------------------------------------------------------------------
(* The watcher                                                             *)

USE DEF W!discordVars, W!loopVars, W!envVars, W!boundVars

\* An instance has a copy of its own of what the instantiated module extends.
LEMMA SameFinite == \A S : W!IsFiniteSet(S) <=> IsFiniteSet(S)
BY DEF W!IsFiniteSet, IsFiniteSet

LEMMA SameSize == \A S : W!Cardinality(S) = Cardinality(S)
BY DEF W!Cardinality, Cardinality

\* W!CapOvershoot, with the cardinalities the library's theorems are about.
Capped == \A c \in WatchChannel : Cardinality({r \in wrows : r.ch = c}) + Cardinality(W!Admitted(c))
                                    =< Cap - 1 + Cardinality(Handler) + wfaults

LEMMA CapTells == (W!CapOvershoot <=> Capped) /\ (W!CapOvershoot' <=> Capped')
BY SameSize DEF W!CapOvershoot, Capped

\* There is a channel and a system to watch, goroutines are finitely many, and
\* the cap is 50 unless it is configured.
Bounds == WatchChannel # {} /\ Slug # {} /\ IsFiniteSet(Handler) /\ Cap \in Nat \ {0}

\* A goroutine without a command.
LEMMA NoCommand ==
    ASSUME Bounds
    PROVE  W!NoCmd \in W!Command /\ W!NoCmd.pc = "idle" /\ W!NoCmd.msg = {} /\ W!NoCmd.snap = {}
<1>1. (CHOOSE c \in WatchChannel : TRUE) \in WatchChannel /\ (CHOOSE s \in Slug : TRUE) \in Slug
  BY DEF Bounds
<1>2. QED
  BY <1>1 DEF W!NoCmd, W!Command, W!CmdPhase

\* Who has which message in hand.
LEMMA Hands == \A x : x \in W!InHand <=> \E h \in Handler : cmd[h].pc \in {"add", "undo"} /\ x \in cmd[h].msg
BY DEF W!InHand

\* Nothing is watched to begin with.
LEMMA InitWatch == ASSUME Bounds, W!Init PROVE W!Inv
<1> USE NoCommand DEF W!Init
<1>1. W!TypeOK
  BY DEF W!TypeOK, W!LoopPhase
<1>2. \A h \in Handler : cmd[h] = W!NoCmd
  OBVIOUS
<1>3. W!Shapes /\ W!LiveUnique /\ W!RowKey /\ W!RowsFit /\ W!HandsFit /\ W!SaveShows /\ W!Accounted /\ W!RowTellsMessage
  BY <1>2 DEF W!Shapes, W!LiveUnique, W!RowKey, W!RowsFit, W!HandsFit, W!SaveShows, W!Accounted, W!LiveIds,
         W!RowTellsMessage
<1>4. W!CapOvershoot
  <2> SUFFICES ASSUME NEW c \in WatchChannel
               PROVE  Cardinality({r \in wrows : r.ch = c}) + Cardinality(W!Admitted(c)) =< Cap - 1 + Cardinality(Handler) + wfaults
    BY CapTells DEF Capped
  <2>1. {r \in wrows : r.ch = c} = {} /\ W!Admitted(c) = {}
    BY <1>2 DEF W!Admitted
  <2>2. Cardinality(Handler) \in Nat
    BY FS_CardinalityType DEF Bounds
  <2>3. QED
    BY <2>1, <2>2, FS_EmptySet DEF Bounds
<1>5. QED
  BY <1>1, <1>3, <1>4, FS_EmptySet, SameFinite DEF W!Inv

-----------------------------------------------------------------------------
(* What a step does to a command, and what most steps do to the rest.       *)

\* A command is done with its message, or leaves it be.
Handed(x, y) ==
    \/ y = x
    \/ y.pc \notin {"add", "undo"}
    \/ x.pc = "add" /\ y.pc = "undo" /\ y.ch = x.ch /\ y.slug = x.slug /\ y.msg = x.msg /\ y.snap = x.snap

\* A command is not admitted by the step.
Admits(x, y) == y.pc \in {"post", "add"} => x.pc \in {"post", "add"} /\ y.ch = x.ch

Rest == W!LiveUnique /\ W!RowKey /\ W!RowsFit /\ W!HandsFit /\ W!SaveShows /\ W!RowTellsMessage

\* Where nothing is posted, inserted, edited or saved, what there is stays true of less.
LEMMA Shrinks ==
    ASSUME W!Inv, wlive' \subseteq wlive, wrows' \subseteq wrows, wtodo' \cup at' \subseteq wrows \cup wtodo \cup at,
           \A h \in Handler : Handed(cmd[h], cmd'[h]),
           wpc' = "save" => wpc = "save" /\ at' = at /\ seen' = seen,
           wpc = "save" /\ wpc' # "save" => \A r \in at : r.id \in W!LiveIds' => r.id \in drifted',
           drifted \cap W!LiveIds' \subseteq drifted'
    PROVE  Rest'
<1>1. W!LiveUnique' /\ W!RowKey'
  BY DEF W!Inv, W!LiveUnique, W!RowKey
<1>2. W!RowsFit'
  BY DEF W!Inv, W!RowsFit
<1>3. W!HandsFit'
  <2> SUFFICES ASSUME NEW h \in Handler
      PROVE /\ cmd'[h].pc \in {"add", "undo"} => \A m \in wlive' : m.id \in cmd'[h].msg =>
                m.ch = cmd'[h].ch /\ m.slug = cmd'[h].slug /\ (cmd'[h].pc = "add" => m.shows \in cmd'[h].snap)
            /\ cmd'[h].pc = "add" => /\ \A r \in wrows' \cup wtodo' \cup at' : r.id \notin cmd'[h].msg
                                     /\ \A g \in Handler \ {h} : cmd'[g].pc = "add" => cmd'[g].msg \cap cmd'[h].msg = {}
    BY DEF W!HandsFit
  <2>1. \A g \in Handler : cmd'[g].pc = "add" => cmd'[g] = cmd[g]
    BY DEF Handed
  <2>2. cmd'[h].pc \in {"add", "undo"} => /\ cmd[h].pc \in {"add", "undo"} /\ cmd'[h].ch = cmd[h].ch /\ cmd'[h].slug = cmd[h].slug
                                          /\ cmd'[h].msg = cmd[h].msg /\ cmd'[h].snap = cmd[h].snap
    BY DEF Handed
  <2>3. cmd'[h].pc = "add" => cmd'[h] = cmd[h]
    BY <2>1
  <2>4. cmd'[h].pc \in {"add", "undo"} => \A m \in wlive' : m.id \in cmd'[h].msg =>
                m.ch = cmd'[h].ch /\ m.slug = cmd'[h].slug /\ (cmd'[h].pc = "add" => m.shows \in cmd'[h].snap)
    BY <2>2, <2>3 DEF W!Inv, W!HandsFit
  <2>5. cmd'[h].pc = "add" => /\ \A r \in wrows' \cup wtodo' \cup at' : r.id \notin cmd'[h].msg
                              /\ \A g \in Handler \ {h} : cmd'[g].pc = "add" => cmd'[g].msg \cap cmd'[h].msg = {}
    BY <2>1 DEF W!Inv, W!HandsFit
  <2>6. QED
    BY <2>4, <2>5
<1>4. W!SaveShows'
  BY DEF W!Inv, W!SaveShows
<1>5. W!RowTellsMessage'
  <2> SUFFICES ASSUME NEW r \in wrows', NEW m \in wlive', m.id = r.id, m.shows # r.hash
               PROVE  r.id \in drifted' \/ (wpc' = "save" /\ r.id \in {q.id : q \in at'})
    BY DEF W!RowTellsMessage
  <2>1. r.id \in W!LiveIds'
    BY DEF W!LiveIds
  <2>2. r.id \in drifted \/ (wpc = "save" /\ r.id \in {q.id : q \in at})
    BY DEF W!Inv, W!RowTellsMessage
  <2>3. QED
    BY <2>1, <2>2
<1>6. QED
  BY <1>1, <1>2, <1>3, <1>4, <1>5 DEF Rest

\* The rows of a channel and the commands admitted to it.
At(c) == {r \in wrows : r.ch = c}

LEMMA Counted ==
    ASSUME Bounds, IsFiniteSet(wrows), NEW c
    PROVE  /\ IsFiniteSet(At(c)) /\ Cardinality(At(c)) \in Nat
           /\ IsFiniteSet(W!Admitted(c)) /\ Cardinality(W!Admitted(c)) \in Nat
           /\ Cardinality(Handler) \in Nat /\ Cardinality(W!Admitted(c)) <= Cardinality(Handler)
<1>1. At(c) \in SUBSET wrows /\ W!Admitted(c) \in SUBSET Handler
  BY DEF At, W!Admitted
<1>2. IsFiniteSet(Handler)
  BY DEF Bounds
<1>3. QED
  BY <1>1, <1>2, FS_Subset, FS_CardinalityType

\* Where no row comes and no command is admitted, the cap is passed by no more.
LEMMA CapKept ==
    ASSUME Bounds, W!Inv, wrows' \subseteq wrows, \A h \in Handler : Admits(cmd[h], cmd'[h]), wfaults' \in Nat, wfaults <= wfaults'
    PROVE  IsFiniteSet(wrows') /\ W!CapOvershoot'
<1>1. IsFiniteSet(wrows) /\ wfaults \in Nat
  BY SameFinite DEF W!Inv, W!TypeOK
<1>2. IsFiniteSet(wrows')
  BY <1>1, FS_Subset
<1>3. ASSUME NEW c \in WatchChannel
      PROVE  Cardinality({r \in wrows' : r.ch = c}) + Cardinality(W!Admitted(c)') =< Cap - 1 + Cardinality(Handler) + wfaults'
  <2>1. {r \in wrows' : r.ch = c} \in SUBSET At(c) /\ W!Admitted(c)' \in SUBSET W!Admitted(c)
    BY DEF At, W!Admitted, Admits
  <2>2. /\ IsFiniteSet(At(c)) /\ Cardinality(At(c)) \in Nat
        /\ IsFiniteSet(W!Admitted(c)) /\ Cardinality(W!Admitted(c)) \in Nat /\ Cardinality(Handler) \in Nat
    BY <1>1, Counted
  <2>3. /\ IsFiniteSet({r \in wrows' : r.ch = c}) /\ Cardinality({r \in wrows' : r.ch = c}) <= Cardinality(At(c))
        /\ IsFiniteSet(W!Admitted(c)') /\ Cardinality(W!Admitted(c)') <= Cardinality(W!Admitted(c))
    BY <2>1, <2>2, FS_Subset
  <2>4. Cardinality({r \in wrows' : r.ch = c}) \in Nat /\ Cardinality(W!Admitted(c)') \in Nat
    BY <2>3, FS_CardinalityType
  <2>5. Cardinality(At(c)) + Cardinality(W!Admitted(c)) =< Cap - 1 + Cardinality(Handler) + wfaults
    BY CapTells DEF W!Inv, Capped, At
  <2>6. QED
    BY <1>1, <2>2, <2>3, <2>4, <2>5 DEF Bounds
<1>4. QED
  BY <1>2, <1>3, CapTells DEF Capped

\* The two together: most steps are of this kind.
LEMMA Lessens ==
    ASSUME Bounds, W!Inv, wlive' \subseteq wlive, wrows' \subseteq wrows, wtodo' \cup at' \subseteq wrows \cup wtodo \cup at,
           \A h \in Handler : Handed(cmd[h], cmd'[h]) /\ Admits(cmd[h], cmd'[h]),
           wpc' = "save" => wpc = "save" /\ at' = at /\ seen' = seen,
           wpc = "save" /\ wpc' # "save" => \A r \in at : r.id \in W!LiveIds' => r.id \in drifted',
           drifted \cap W!LiveIds' \subseteq drifted',
           wfaults <= wfaults', W!TypeOK', W!Shapes', W!Accounted'
    PROVE  W!Inv'
<1>1. wfaults' \in Nat
  BY DEF W!TypeOK
<1>2. Rest'
  BY Shrinks
<1>3. IsFiniteSet(wrows') /\ W!CapOvershoot'
  BY <1>1, CapKept
<1>4. QED
  BY <1>2, <1>3, SameFinite DEF W!Inv, Rest

-----------------------------------------------------------------------------
(* The types and shapes, action by action.                                  *)

\* What a command may become: one with its phase, snapshot and message.
OneAtMost(x) == /\ \A i, j \in x.msg : i = j
                /\ \A i, j \in x.snap : i = j
                /\ x.pc \in {"get", "count", "post", "add", "undo"} => x.snap # {}
                /\ x.pc \in {"add", "undo"} => x.msg # {}

\* What a step of one command leaves of the types and shapes.
LEMMA CommandFits ==
    ASSUME W!TypeOK, W!Shapes, NEW h \in Handler, NEW x \in W!Command, OneAtMost(x), cmd' = [cmd EXCEPT ![h] = x]
    PROVE  /\ cmd' \in [Handler -> W!Command] /\ cmd'[h] = x /\ \A g \in Handler \ {h} : cmd'[g] = cmd[g]
           /\ UNCHANGED <<at, seen>> => W!Shapes'
<1>1. cmd' \in [Handler -> W!Command] /\ cmd'[h] = x /\ \A g \in Handler \ {h} : cmd'[g] = cmd[g]
  BY DEF W!TypeOK
<1>2. \A g \in Handler : OneAtMost(cmd'[g])
  BY <1>1 DEF W!Shapes, OneAtMost
<1>3. QED
  BY <1>1, <1>2 DEF W!Shapes, OneAtMost

\* The phases of a command that does not gain a snapshot or a message.
LEMMA PhaseFits ==
    ASSUME W!TypeOK, W!Shapes, NEW h \in Handler, NEW p \in W!CmdPhase,
           p \in {"get", "count", "post", "add", "undo"} => cmd[h].pc \in {"get", "count", "post", "add", "undo"},
           p \in {"add", "undo"} => cmd[h].pc \in {"add", "undo"}
    PROVE  LET x == [cmd[h] EXCEPT !.pc = p] IN
           /\ x \in W!Command /\ OneAtMost(x) /\ [cmd EXCEPT ![h].pc = p] = [cmd EXCEPT ![h] = x]
           /\ x.pc = p /\ x.ch = cmd[h].ch /\ x.slug = cmd[h].slug /\ x.snap = cmd[h].snap /\ x.msg = cmd[h].msg
<1>1. cmd[h] \in W!Command
  BY DEF W!TypeOK
<1>2. QED
  BY <1>1 DEF W!Command, OneAtMost, W!Shapes

\* Goto and Finish, as seen from outside.
LEMMA Goes ==
    ASSUME W!TypeOK, W!Shapes, NEW h \in Handler, NEW p \in W!CmdPhase, W!Goto(h, p), UNCHANGED <<at, seen>>,
           p \in {"get", "count", "post", "add", "undo"} => cmd[h].pc \in {"get", "count", "post", "add", "undo"},
           p \in {"add", "undo"} => cmd[h].pc \in {"add", "undo"}
    PROVE  /\ cmd' \in [Handler -> W!Command] /\ W!Shapes' /\ \A g \in Handler \ {h} : cmd'[g] = cmd[g]
           /\ cmd'[h].pc = p /\ cmd'[h].ch = cmd[h].ch /\ cmd'[h].slug = cmd[h].slug
           /\ cmd'[h].snap = cmd[h].snap /\ cmd'[h].msg = cmd[h].msg
<1> DEFINE x == [cmd[h] EXCEPT !.pc = p]
<1>1. /\ x \in W!Command /\ OneAtMost(x) /\ [cmd EXCEPT ![h].pc = p] = [cmd EXCEPT ![h] = x]
      /\ x.pc = p /\ x.ch = cmd[h].ch /\ x.slug = cmd[h].slug /\ x.snap = cmd[h].snap /\ x.msg = cmd[h].msg
  BY PhaseFits
<1> HIDE DEF x
<1>2. cmd' = [cmd EXCEPT ![h] = x]
  BY <1>1 DEF W!Goto
<1>3. QED
  BY <1>1, <1>2, CommandFits

LEMMA Finishes ==
    ASSUME Bounds, W!TypeOK, W!Shapes, NEW h \in Handler, W!Finish(h), UNCHANGED <<at, seen>>
    PROVE  /\ cmd' \in [Handler -> W!Command] /\ W!Shapes' /\ \A g \in Handler \ {h} : cmd'[g] = cmd[g]
           /\ cmd'[h] = W!NoCmd /\ cmd'[h].pc = "idle" /\ cmd'[h].msg = {}
<1>1. W!NoCmd \in W!Command /\ OneAtMost(W!NoCmd)
  BY NoCommand DEF OneAtMost
<1>2. cmd' = [cmd EXCEPT ![h] = W!NoCmd]
  BY DEF W!Finish
<1>3. QED
  BY <1>1, <1>2, CommandFits, NoCommand

\* A fault is counted, and a step without one leaves the counts.
LEMMA Counts ==
    ASSUME W!TypeOK, W!NoFault \/ W!Fault
    PROVE  wfaults' \in Nat /\ commands' \in Nat /\ moves' \in Nat /\ wfaults <= wfaults' /\ (W!Fault => wfaults' = wfaults + 1)
BY DEF W!TypeOK, W!NoFault, W!Fault

-----------------------------------------------------------------------------
(* The steps of a command that are neither the post nor the insert.         *)

\* Of a step that only moves a command that has nothing in hand, and that is not
\* admitted by it.
LEMMA MovesStep ==
    ASSUME Bounds, W!Inv, NEW h \in Handler,
           cmd[h].pc \notin {"add", "undo"}, cmd'[h].pc \notin {"post", "add", "undo"},
           cmd' \in [Handler -> W!Command], W!Shapes', \A g \in Handler \ {h} : cmd'[g] = cmd[g],
           wfaults' \in Nat, commands' \in Nat, moves' \in Nat, wfaults <= wfaults',
           UNCHANGED <<wlive, lost, drifted, wrows, data, wreachable, wpc, wtodo, at, seen>>
    PROVE  W!Inv'
<1>1. W!TypeOK'
  BY DEF W!Inv, W!TypeOK
<1>2. \A g \in Handler : Handed(cmd[g], cmd'[g]) /\ Admits(cmd[g], cmd'[g])
  BY DEF Handed, Admits
<1>3. W!Accounted'
  <2>1. \A x : x \in W!InHand => x \in W!InHand'
    BY Hands DEF W!InHand
  <2>2. QED
    BY <2>1 DEF W!Inv, W!Accounted, W!LiveIds, W!Tracked
<1>4. QED
  BY <1>1, <1>2, <1>3, Lessens DEF W!Inv

LEMMA IssueStep == ASSUME Bounds, W!Inv, NEW h \in Handler, W!Issue(h) PROVE W!Inv'
<1>1. PICK c \in WatchChannel, s \in Slug, p \in {"snap", "lookup"} :
         cmd' = [cmd EXCEPT ![h] = [W!NoCmd EXCEPT !.pc = p, !.ch = c, !.slug = s]]
  BY DEF W!Issue
<1> DEFINE x == [W!NoCmd EXCEPT !.pc = p, !.ch = c, !.slug = s]
<1>2. x \in W!Command /\ OneAtMost(x) /\ x.pc = p
  BY NoCommand DEF W!Command, W!CmdPhase, OneAtMost
<1> HIDE DEF x
<1>3. /\ cmd[h].pc = "idle" /\ commands' = commands + 1
      /\ UNCHANGED <<wlive, lost, drifted, wrows, data, wreachable, wpc, wtodo, at, seen, wfaults, moves>>
  BY DEF W!Issue
<1>4. /\ cmd' \in [Handler -> W!Command] /\ W!Shapes' /\ cmd'[h] = x /\ \A g \in Handler \ {h} : cmd'[g] = cmd[g]
  BY <1>1, <1>2, <1>3, CommandFits DEF W!Inv, x
<1>5. wfaults' \in Nat /\ commands' \in Nat /\ moves' \in Nat /\ wfaults <= wfaults'
  BY <1>3 DEF W!Inv, W!TypeOK
<1>6. cmd[h].pc \notin {"add", "undo"} /\ cmd'[h].pc \notin {"post", "add", "undo"}
  BY <1>2, <1>3, <1>4
<1>7. QED
  BY <1>3, <1>4, <1>5, <1>6, MovesStep

LEMMA SnapStep == ASSUME Bounds, W!Inv, NEW h \in Handler, W!WatchSnap(h) PROVE W!Inv'
<1>1. cmd[h].pc = "snap" /\ UNCHANGED <<wlive, lost, drifted, wrows, data, wreachable, wpc, wtodo, at, seen>>
  BY DEF W!WatchSnap
<1>2. wfaults' \in Nat /\ commands' \in Nat /\ moves' \in Nat /\ wfaults <= wfaults'
  BY Counts DEF W!Inv, W!WatchSnap
<1>3. CASE W!Finish(h)
  BY <1>1, <1>2, <1>3, Finishes, MovesStep DEF W!Inv
<1>4. CASE data[cmd[h].slug] # Absent /\ cmd' = [cmd EXCEPT ![h].pc = "get", ![h].snap = {data[cmd[h].slug]}]
  <2> DEFINE x == [cmd[h] EXCEPT !.pc = "get", !.snap = {data[cmd[h].slug]}]
  <2>1. cmd[h] \in W!Command /\ data[cmd[h].slug] \in Hash
    BY <1>4 DEF W!Inv, W!TypeOK, W!Command
  <2>2. x \in W!Command /\ OneAtMost(x) /\ x.pc = "get"
    BY <2>1 DEF W!Command, W!CmdPhase, OneAtMost, W!Inv, W!Shapes
  <2>3. cmd' = [cmd EXCEPT ![h] = x]
    BY <1>4
  <2> HIDE DEF x
  <2>4. /\ cmd' \in [Handler -> W!Command] /\ W!Shapes' /\ cmd'[h] = x /\ \A g \in Handler \ {h} : cmd'[g] = cmd[g]
    BY <1>1, <2>2, <2>3, CommandFits DEF W!Inv
  <2>5. QED
    BY <1>1, <1>2, <2>2, <2>4, MovesStep
<1>5. QED
  BY <1>3, <1>4 DEF W!WatchSnap

LEMMA GetStep == ASSUME Bounds, W!Inv, NEW h \in Handler, W!WatchGet(h) PROVE W!Inv'
<1>1. cmd[h].pc = "get" /\ UNCHANGED <<wlive, lost, drifted, wrows, data, wreachable, wpc, wtodo, at, seen>>
  BY DEF W!WatchGet
<1>2. wfaults' \in Nat /\ commands' \in Nat /\ moves' \in Nat /\ wfaults <= wfaults'
  BY Counts DEF W!Inv, W!WatchGet
<1>3. CASE W!Finish(h)
  BY <1>1, <1>2, <1>3, Finishes, MovesStep DEF W!Inv
<1>4. CASE W!Goto(h, "count")
  <2>1. "count" \in W!CmdPhase
    BY DEF W!CmdPhase
  <2>2. QED
    BY <1>1, <1>2, <1>4, <2>1, Goes, MovesStep DEF W!Inv
<1>5. QED
  BY <1>3, <1>4 DEF W!WatchGet

LEMMA LookupStep == ASSUME Bounds, W!Inv, NEW h \in Handler, W!UnwatchGet(h) PROVE W!Inv'
<1>1. cmd[h].pc = "lookup" /\ UNCHANGED <<wlive, lost, drifted, wrows, data, wreachable, wpc, wtodo, at, seen>>
  BY DEF W!UnwatchGet
<1>2. wfaults' \in Nat /\ commands' \in Nat /\ moves' \in Nat /\ wfaults <= wfaults'
  BY Counts DEF W!Inv, W!UnwatchGet
<1>3. CASE W!Finish(h)
  BY <1>1, <1>2, <1>3, Finishes, MovesStep DEF W!Inv
<1>4. ASSUME NEW r \in W!RowsAt(cmd[h].ch, cmd[h].slug),
             cmd' = [cmd EXCEPT ![h].pc = "delete", ![h].msg = {r.id}]
      PROVE  W!Inv'
  <2> DEFINE x == [cmd[h] EXCEPT !.pc = "delete", !.msg = {r.id}]
  <2>1. cmd[h] \in W!Command /\ r.id \in WatchId
    BY <1>4 DEF W!Inv, W!TypeOK, W!RowsAt, W!Row
  <2>2. x \in W!Command /\ OneAtMost(x) /\ x.pc = "delete"
    BY <2>1 DEF W!Command, W!CmdPhase, OneAtMost, W!Inv, W!Shapes
  <2>3. cmd' = [cmd EXCEPT ![h] = x]
    BY <1>4
  <2> HIDE DEF x
  <2>4. /\ cmd' \in [Handler -> W!Command] /\ W!Shapes' /\ cmd'[h] = x /\ \A g \in Handler \ {h} : cmd'[g] = cmd[g]
    BY <1>1, <2>2, <2>3, CommandFits DEF W!Inv
  <2>5. QED
    BY <1>1, <1>2, <2>2, <2>4, MovesStep
<1>5. QED
  BY <1>3, <1>4 DEF W!UnwatchGet

LEMMA CountStep == ASSUME Bounds, W!Inv, NEW h \in Handler, W!WatchCount(h) PROVE W!Inv'
<1>1. cmd[h].pc = "count" /\ UNCHANGED <<wlive, lost, drifted, wrows, data, wreachable, wpc, wtodo, at, seen>>
  BY DEF W!WatchCount
<1>2. wfaults' \in Nat /\ commands' \in Nat /\ moves' \in Nat /\ wfaults <= wfaults' /\ wfaults \in Nat
  BY Counts DEF W!Inv, W!WatchCount, W!TypeOK
<1>3. CASE W!Finish(h)
  BY <1>1, <1>2, <1>3, Finishes, MovesStep DEF W!Inv
<1>4. CASE W!Goto(h, "post") /\ (W!HasRoom(cmd[h].ch) \/ wfaults' = wfaults + 1)
  <2>1. /\ cmd' \in [Handler -> W!Command] /\ W!Shapes' /\ \A g \in Handler \ {h} : cmd'[g] = cmd[g]
        /\ cmd'[h].pc = "post" /\ cmd'[h].ch = cmd[h].ch
    <3>1. "post" \in W!CmdPhase
      BY DEF W!CmdPhase
    <3>2. QED
      BY <1>1, <1>4, <3>1, Goes DEF W!Inv
  <2>2. W!TypeOK'
    BY <1>1, <1>2, <2>1 DEF W!Inv, W!TypeOK
  <2>3. Rest'
    <3>1. \A g \in Handler : Handed(cmd[g], cmd'[g])
      BY <2>1 DEF Handed
    <3>2. QED
      BY <1>1, <3>1, Shrinks
  <2>4. W!Accounted'
    <3>1. \A x : x \in W!InHand => x \in W!InHand'
      BY <1>1, <2>1, Hands DEF W!InHand
    <3>2. QED
      BY <1>1, <3>1 DEF W!Inv, W!Accounted, W!LiveIds, W!Tracked
  <2>5. ASSUME NEW c \in WatchChannel
        PROVE  Cardinality({r \in wrows' : r.ch = c}) + Cardinality(W!Admitted(c)') =< Cap - 1 + Cardinality(Handler) + wfaults'
    <3>1. {r \in wrows' : r.ch = c} = At(c)
      BY <1>1 DEF At
    <3>2. /\ Cardinality(At(c)) \in Nat /\ IsFiniteSet(W!Admitted(c)) /\ Cardinality(W!Admitted(c)) \in Nat
          /\ Cardinality(Handler) \in Nat
      BY Counted, SameFinite DEF W!Inv
    <3>3. Cardinality(At(c)) + Cardinality(W!Admitted(c)) =< Cap - 1 + Cardinality(Handler) + wfaults
      BY CapTells DEF W!Inv, Capped, At
    <3>4. CASE c # cmd[h].ch
      <4>1. W!Admitted(c)' = W!Admitted(c)
        BY <1>1, <2>1, <3>4 DEF W!Admitted
      <4>2. Cardinality({r \in wrows' : r.ch = c}) = Cardinality(At(c)) /\ Cardinality(W!Admitted(c)') = Cardinality(W!Admitted(c))
        BY <3>1, <4>1
      <4>3. QED
        BY <1>2, <3>2, <3>3, <4>2 DEF Bounds
    <3>5. CASE c = cmd[h].ch /\ W!HasRoom(c)
      <4>1. Cardinality(At(c)) < Cap
        BY <3>5, SameSize DEF W!HasRoom, At
      <4>2. W!Admitted(c)' \in SUBSET Handler
        BY DEF W!Admitted
      <4>3. Cardinality(W!Admitted(c)') \in Nat /\ Cardinality(W!Admitted(c)') <= Cardinality(Handler)
        BY <4>2, FS_Subset, FS_CardinalityType DEF Bounds
      <4>4. Cardinality({r \in wrows' : r.ch = c}) = Cardinality(At(c))
        BY <3>1
      <4>5. QED
        BY <1>2, <3>2, <4>1, <4>3, <4>4 DEF Bounds
    <3>6. CASE c = cmd[h].ch /\ wfaults' = wfaults + 1
      <4>1. W!Admitted(c)' = W!Admitted(c) \cup {h} /\ h \notin W!Admitted(c)
        BY <1>1, <2>1, <3>6 DEF W!Admitted
      <4>2. Cardinality(W!Admitted(c)') = Cardinality(W!Admitted(c)) + 1
        BY <3>2, <4>1, FS_AddElement
      <4>3. Cardinality({r \in wrows' : r.ch = c}) = Cardinality(At(c))
        BY <3>1
      <4>4. QED
        BY <1>2, <3>2, <3>3, <3>6, <4>2, <4>3 DEF Bounds
    <3>7. QED
      BY <1>4, <3>4, <3>5, <3>6
  <2>6. W!CapOvershoot'
    BY <2>5, CapTells DEF Capped
  <2>7. QED
    BY <1>1, <2>1, <2>2, <2>3, <2>4, <2>6, SameFinite DEF W!Inv, Rest
<1>5. QED
  BY <1>3, <1>4 DEF W!WatchCount, W!Fault

-----------------------------------------------------------------------------
(* The post and the insert.                                                 *)

\* A new message bears an id that nothing names.
LEMMA NewIsUnknown ==
    ASSUME W!TypeOK, NEW h \in Handler, NEW m \in W!NewMessages(h)
    PROVE  /\ m \in W!Message /\ m.ch = cmd[h].ch /\ m.slug = cmd[h].slug /\ m.shows \in cmd[h].snap
           /\ \A n \in wlive : n.id # m.id
           /\ \A r \in wrows \cup wtodo \cup at : r.id # m.id
           /\ \A g \in Handler : m.id \notin cmd[g].msg
<1>1. m.id \in WatchId \ W!KnownIds /\ m.ch = cmd[h].ch /\ m.slug = cmd[h].slug /\ m.shows \in cmd[h].snap
      /\ m = [id |-> m.id, ch |-> m.ch, slug |-> m.slug, shows |-> m.shows]
  BY DEF W!NewMessages, W!NewIds
<1>2. cmd[h] \in W!Command
  BY DEF W!TypeOK
<1>3. m \in W!Message
  BY <1>1, <1>2 DEF W!Message, W!Command
<1>4. \A n \in wlive : n.id # m.id
  BY <1>1 DEF W!KnownIds, W!LiveIds
<1>5. \A r \in wrows \cup wtodo \cup at : r.id # m.id
  BY <1>1 DEF W!KnownIds, W!Tracked
<1>6. \A g \in Handler : m.id \notin cmd[g].msg
  BY <1>1 DEF W!KnownIds
<1>7. QED
  BY <1>1, <1>3, <1>4, <1>5, <1>6

\* It comes beside the others, in the hands of the command or lost to it.
LEMMA Posts ==
    ASSUME W!Inv, NEW h \in Handler, NEW m \in W!NewMessages(h), wlive' = wlive \cup {m},
           cmd[h].pc = "post", \A g \in Handler \ {h} : cmd'[g] = cmd[g],
           \/ cmd'[h].pc = "idle"
           \/ /\ cmd'[h].pc = "add" /\ cmd'[h].msg = {m.id} /\ cmd'[h].ch = cmd[h].ch
              /\ cmd'[h].slug = cmd[h].slug /\ cmd'[h].snap = cmd[h].snap,
           UNCHANGED <<wrows, drifted, wpc, wtodo, at, seen>>
    PROVE  Rest'
<1>1. /\ m.ch = cmd[h].ch /\ m.slug = cmd[h].slug /\ m.shows \in cmd[h].snap
      /\ \A n \in wlive : n.id # m.id
      /\ \A r \in wrows \cup wtodo \cup at : r.id # m.id
      /\ \A g \in Handler : m.id \notin cmd[g].msg
  BY NewIsUnknown DEF W!Inv
<1>2. W!LiveUnique' /\ W!RowKey'
  BY <1>1 DEF W!Inv, W!LiveUnique, W!RowKey
<1>3. W!RowsFit' /\ W!SaveShows' /\ W!RowTellsMessage'
  BY <1>1 DEF W!Inv, W!RowsFit, W!SaveShows, W!RowTellsMessage
<1>4. W!HandsFit'
  <2> SUFFICES ASSUME NEW g \in Handler
      PROVE /\ cmd'[g].pc \in {"add", "undo"} => \A n \in wlive' : n.id \in cmd'[g].msg =>
                n.ch = cmd'[g].ch /\ n.slug = cmd'[g].slug /\ (cmd'[g].pc = "add" => n.shows \in cmd'[g].snap)
            /\ cmd'[g].pc = "add" => /\ \A r \in wrows' \cup wtodo' \cup at' : r.id \notin cmd'[g].msg
                                     /\ \A k \in Handler \ {g} : cmd'[k].pc = "add" => cmd'[k].msg \cap cmd'[g].msg = {}
    BY DEF W!HandsFit
  <2>1. CASE g = h
    <3>1. cmd'[h].pc \in {"add", "undo"} => \A n \in wlive' : n.id \in cmd'[h].msg => n = m
      BY <1>1
    <3>2. \A k \in Handler \ {h} : cmd'[h].pc = "add" => cmd'[k].msg \cap cmd'[h].msg = {}
      BY <1>1
    <3>3. QED
      BY <1>1, <2>1, <3>1, <3>2
  <2>2. CASE g # h
    <3>1. /\ cmd[g].pc \in {"add", "undo"} => \A n \in wlive : n.id \in cmd[g].msg =>
                n.ch = cmd[g].ch /\ n.slug = cmd[g].slug /\ (cmd[g].pc = "add" => n.shows \in cmd[g].snap)
          /\ cmd[g].pc = "add" => /\ \A r \in wrows \cup wtodo \cup at : r.id \notin cmd[g].msg
                                  /\ \A k \in Handler \ {g} : cmd[k].pc = "add" => cmd[k].msg \cap cmd[g].msg = {}
      BY DEF W!Inv, W!HandsFit
    <3>2. cmd'[g] = cmd[g] /\ m.id \notin cmd[g].msg
      BY <1>1, <2>2
    <3>3. \A k \in Handler \ {g} : cmd'[k].pc = "add" => (cmd'[k].msg = cmd[k].msg /\ cmd[k].pc = "add") \/ cmd'[k].msg = {m.id}
      OBVIOUS
    <3>4. QED
      BY <3>1, <3>2, <3>3
  <2>3. QED
    BY <2>1, <2>2
<1>5. QED
  BY <1>2, <1>3, <1>4 DEF Rest

LEMMA PostStep == ASSUME Bounds, W!Inv, NEW h \in Handler, W!WatchPost(h) PROVE W!Inv'
<1>1. cmd[h].pc = "post" /\ UNCHANGED <<wrows, drifted, data, wreachable, wpc, wtodo, at, seen>>
  BY DEF W!WatchPost
<1>2. wfaults' \in Nat /\ commands' \in Nat /\ moves' \in Nat /\ wfaults <= wfaults'
  BY Counts DEF W!Inv, W!WatchPost
<1>3. CASE W!Finish(h) /\ UNCHANGED <<wlive, lost>>
  BY <1>1, <1>2, <1>3, Finishes, MovesStep DEF W!Inv
<1>4. ASSUME NEW m \in W!NewMessages(h), wlive' = wlive \cup {m},
             \/ W!Finish(h) /\ lost' = lost \cup {m.id}
             \/ cmd' = [cmd EXCEPT ![h].pc = "add", ![h].msg = {m.id}] /\ lost' = lost
      PROVE  W!Inv'
  <2> DEFINE x == [cmd[h] EXCEPT !.pc = "add", !.msg = {m.id}]
  <2>1. m \in W!Message /\ m.id \in WatchId /\ cmd[h] \in W!Command
    BY NewIsUnknown DEF W!Inv, W!TypeOK, W!Message
  <2>2. /\ x \in W!Command /\ OneAtMost(x) /\ x.pc = "add" /\ x.msg = {m.id} /\ x.ch = cmd[h].ch
        /\ x.slug = cmd[h].slug /\ x.snap = cmd[h].snap
    BY <1>1, <2>1 DEF W!Command, W!CmdPhase, OneAtMost, W!Inv, W!Shapes
  <2>3. [cmd EXCEPT ![h].pc = "add", ![h].msg = {m.id}] = [cmd EXCEPT ![h] = x]
    OBVIOUS
  <2> HIDE DEF x
  <2>4. /\ cmd' \in [Handler -> W!Command] /\ W!Shapes' /\ \A g \in Handler \ {h} : cmd'[g] = cmd[g]
        /\ \/ cmd'[h].pc = "idle" /\ lost' = lost \cup {m.id}
           \/ /\ cmd'[h].pc = "add" /\ cmd'[h].msg = {m.id} /\ cmd'[h].ch = cmd[h].ch
              /\ cmd'[h].slug = cmd[h].slug /\ cmd'[h].snap = cmd[h].snap /\ lost' = lost
    BY <1>1, <1>4, <2>2, <2>3, Finishes, CommandFits DEF W!Inv
  <2>5. W!TypeOK'
    BY <1>1, <1>2, <1>4, <2>1, <2>4 DEF W!Inv, W!TypeOK
  <2>6. Rest'
    BY <1>1, <1>4, <2>4, Posts
  <2>7. W!Accounted'
    <3>1. \A y : y \in W!InHand => y \in W!InHand'
      BY <1>1, <2>4, Hands DEF W!InHand
    <3>2. m.id \in W!InHand' \cup lost'
      BY <2>4 DEF W!InHand
    <3>3. lost \subseteq lost' /\ W!Tracked' = W!Tracked /\ W!LiveIds' = W!LiveIds \cup {m.id}
      BY <1>1, <1>4, <2>4 DEF W!Tracked, W!LiveIds
    <3>4. QED
      BY <3>1, <3>2, <3>3 DEF W!Inv, W!Accounted
  <2>8. IsFiniteSet(wrows') /\ W!CapOvershoot'
    <3>1. \A g \in Handler : Admits(cmd[g], cmd'[g])
      BY <1>1, <2>4 DEF Admits
    <3>2. QED
      BY <1>1, <1>2, <3>1, CapKept
  <2>9. QED
    BY <2>4, <2>5, <2>6, <2>7, <2>8, SameFinite DEF W!Inv, Rest
<1>5. QED
  BY <1>3, <1>4 DEF W!WatchPost

\* The row inserted is of the message in hand and tells what it shows.
LEMMA Inserts ==
    ASSUME Bounds, W!Inv, NEW h \in Handler, cmd[h].pc = "add", W!KeyFree(cmd[h].ch, cmd[h].slug), wrows' = wrows \cup W!NewRows(h),
           \A g \in Handler \ {h} : cmd'[g] = cmd[g], cmd' \in [Handler -> W!Command], W!Shapes',
           \/ cmd'[h].pc = "idle"
           \/ /\ cmd'[h].pc = "undo" /\ cmd'[h].msg = cmd[h].msg /\ cmd'[h].ch = cmd[h].ch
              /\ cmd'[h].slug = cmd[h].slug /\ cmd'[h].snap = cmd[h].snap,
           wfaults' \in Nat, commands' \in Nat, moves' \in Nat, wfaults <= wfaults',
           UNCHANGED <<wlive, lost, drifted, data, wreachable, wpc, wtodo, at, seen>>
    PROVE  W!Inv'
<1>1. PICK i \in cmd[h].msg, x \in cmd[h].snap : cmd[h].msg = {i} /\ cmd[h].snap = {x}
  BY DEF W!Inv, W!Shapes
<1> DEFINE n == [id |-> i, ch |-> cmd[h].ch, slug |-> cmd[h].slug, hash |-> x]
<1>2. cmd[h] \in W!Command /\ i \in WatchId /\ x \in Hash /\ cmd[h].ch \in WatchChannel /\ cmd[h].slug \in Slug
  BY DEF W!Inv, W!TypeOK, W!Command
<1>3. W!NewRows(h) = {n}
  <2>1. W!NewRows(h) = [id : {i}, ch : {cmd[h].ch}, slug : {cmd[h].slug}, hash : {x}]
    BY <1>1 DEF W!NewRows
  <2>2. n \in W!NewRows(h)
    BY <2>1
  <2>3. \A r \in W!NewRows(h) : r = n
    BY <2>1
  <2>4. QED
    BY <2>2, <2>3
<1>4. n \in W!Row /\ n.id = i /\ n.ch = cmd[h].ch /\ n.slug = cmd[h].slug /\ n.hash = x
  BY <1>2 DEF W!Row
<1> HIDE DEF n
<1>5. wrows' = wrows \cup {n}
  BY <1>3
<1>6. \A r \in wrows : ~(r.ch = n.ch /\ r.slug = n.slug)
  BY <1>4 DEF W!KeyFree, W!RowsAt
<1>7. /\ \A m \in wlive : m.id = i => m.ch = n.ch /\ m.slug = n.slug /\ m.shows = x
      /\ \A g \in Handler \ {h} : cmd[g].pc = "add" => i \notin cmd[g].msg
  <2>1. \A m \in wlive : m.id \in cmd[h].msg => m.ch = cmd[h].ch /\ m.slug = cmd[h].slug /\ m.shows \in cmd[h].snap
    BY DEF W!Inv, W!HandsFit
  <2>2. \A g \in Handler \ {h} : cmd[g].pc = "add" => cmd[g].msg \cap cmd[h].msg = {}
    BY DEF W!Inv, W!HandsFit
  <2>3. QED
    BY <1>1, <1>4, <2>1, <2>2
<1>8. W!TypeOK'
  BY <1>4, <1>5 DEF W!Inv, W!TypeOK
<1>9. W!LiveUnique' /\ W!RowKey' /\ W!RowsFit' /\ W!SaveShows'
  BY <1>4, <1>5, <1>6, <1>7 DEF W!Inv, W!LiveUnique, W!RowKey, W!RowsFit, W!SaveShows
<1>10. W!RowTellsMessage'
  BY <1>4, <1>5, <1>7 DEF W!Inv, W!RowTellsMessage
<1>11. W!HandsFit'
  <2> SUFFICES ASSUME NEW g \in Handler
      PROVE /\ cmd'[g].pc \in {"add", "undo"} => \A m \in wlive' : m.id \in cmd'[g].msg =>
                m.ch = cmd'[g].ch /\ m.slug = cmd'[g].slug /\ (cmd'[g].pc = "add" => m.shows \in cmd'[g].snap)
            /\ cmd'[g].pc = "add" => /\ \A r \in wrows' \cup wtodo' \cup at' : r.id \notin cmd'[g].msg
                                     /\ \A k \in Handler \ {g} : cmd'[k].pc = "add" => cmd'[k].msg \cap cmd'[g].msg = {}
    BY DEF W!HandsFit
  <2>1. /\ cmd[g].pc \in {"add", "undo"} => \A m \in wlive : m.id \in cmd[g].msg =>
              m.ch = cmd[g].ch /\ m.slug = cmd[g].slug /\ (cmd[g].pc = "add" => m.shows \in cmd[g].snap)
        /\ cmd[g].pc = "add" => /\ \A r \in wrows \cup wtodo \cup at : r.id \notin cmd[g].msg
                                /\ \A k \in Handler \ {g} : cmd[k].pc = "add" => cmd[k].msg \cap cmd[g].msg = {}
    BY DEF W!Inv, W!HandsFit
  <2>2. CASE g = h
    BY <2>1, <2>2
  <2>3. CASE g # h
    <3>1. cmd'[g] = cmd[g] /\ \A k \in Handler : cmd'[k].pc = "add" => k # h /\ cmd'[k] = cmd[k]
      BY <2>3
    <3>2. QED
      BY <1>4, <1>5, <1>7, <2>1, <2>3, <3>1
  <2>4. QED
    BY <2>2, <2>3
<1>12. W!Accounted'
  <2>1. i \in W!Tracked' /\ \A y \in W!Tracked : y \in W!Tracked'
    BY <1>4, <1>5 DEF W!Tracked
  <2>2. \A y \in W!InHand : y \in W!InHand' \/ y = i
    BY <1>1, Hands DEF W!InHand
  <2>3. QED
    BY <2>1, <2>2 DEF W!Inv, W!Accounted, W!LiveIds
<1>13. IsFiniteSet(wrows')
  BY <1>5, FS_AddElement, SameFinite DEF W!Inv
<1>14. ASSUME NEW c \in WatchChannel
       PROVE  Cardinality({r \in wrows' : r.ch = c}) + Cardinality(W!Admitted(c)') =< Cap - 1 + Cardinality(Handler) + wfaults'
  <2>1. /\ IsFiniteSet(At(c)) /\ Cardinality(At(c)) \in Nat /\ IsFiniteSet(W!Admitted(c)) /\ Cardinality(W!Admitted(c)) \in Nat
        /\ Cardinality(Handler) \in Nat
    BY Counted, SameFinite DEF W!Inv
  <2>2. Cardinality(At(c)) + Cardinality(W!Admitted(c)) =< Cap - 1 + Cardinality(Handler) + wfaults
    BY CapTells DEF W!Inv, Capped, At
  <2>3. wfaults \in Nat
    BY DEF W!Inv, W!TypeOK
  <2>4. CASE c = cmd[h].ch
    <3>1. {r \in wrows' : r.ch = c} = At(c) \cup {n} /\ n \notin At(c)
      BY <1>4, <1>5, <1>6, <2>4 DEF At
    <3>2. Cardinality({r \in wrows' : r.ch = c}) = Cardinality(At(c)) + 1
      BY <2>1, <3>1, FS_AddElement
    <3>3. W!Admitted(c)' = W!Admitted(c) \ {h} /\ h \in W!Admitted(c)
      BY <2>4 DEF W!Admitted
    <3>4. Cardinality(W!Admitted(c)') = Cardinality(W!Admitted(c)) - 1
      BY <2>1, <3>3, FS_RemoveElement
    <3>5. QED
      BY <2>1, <2>2, <2>3, <3>2, <3>4 DEF Bounds
  <2>5. CASE c # cmd[h].ch
    <3>1. {r \in wrows' : r.ch = c} = At(c)
      BY <1>4, <1>5, <2>5 DEF At
    <3>2. W!Admitted(c)' = W!Admitted(c)
      BY <2>5 DEF W!Admitted
    <3>3. Cardinality({r \in wrows' : r.ch = c}) = Cardinality(At(c)) /\ Cardinality(W!Admitted(c)') = Cardinality(W!Admitted(c))
      BY <3>1, <3>2
    <3>4. QED
      BY <2>1, <2>2, <2>3, <3>3 DEF Bounds
  <2>6. QED
    BY <2>4, <2>5
<1>15. W!CapOvershoot'
  BY <1>14, CapTells DEF Capped
<1>16. QED
  BY <1>8, <1>9, <1>10, <1>11, <1>12, <1>13, <1>15, SameFinite DEF W!Inv

LEMMA AddStep == ASSUME Bounds, W!Inv, NEW h \in Handler, W!WatchAdd(h) PROVE W!Inv'
<1>1. cmd[h].pc = "add" /\ UNCHANGED <<wlive, lost, drifted, data, wreachable, wpc, wtodo, at, seen>>
  BY DEF W!WatchAdd
<1>2. wfaults' \in Nat /\ commands' \in Nat /\ moves' \in Nat /\ wfaults <= wfaults'
  BY Counts DEF W!Inv, W!WatchAdd
<1>3. "undo" \in W!CmdPhase
  BY DEF W!CmdPhase
<1>4. W!Goto(h, "undo") => /\ cmd' \in [Handler -> W!Command] /\ W!Shapes' /\ \A g \in Handler \ {h} : cmd'[g] = cmd[g]
                           /\ cmd'[h].pc = "undo" /\ cmd'[h].ch = cmd[h].ch /\ cmd'[h].slug = cmd[h].slug
                           /\ cmd'[h].snap = cmd[h].snap /\ cmd'[h].msg = cmd[h].msg
  BY <1>1, <1>3, Goes DEF W!Inv
<1>5. CASE W!Finish(h) /\ W!KeyFree(cmd[h].ch, cmd[h].slug) /\ wrows' = wrows \cup W!NewRows(h)
  BY <1>1, <1>2, <1>5, Finishes, Inserts DEF W!Inv
<1>6. CASE W!Goto(h, "undo") /\ W!KeyFree(cmd[h].ch, cmd[h].slug) /\ wrows' = wrows \cup W!NewRows(h)
  BY <1>1, <1>2, <1>4, <1>6, Inserts
<1>7. CASE W!Goto(h, "undo") /\ UNCHANGED wrows
  <2>1. W!TypeOK'
    BY <1>1, <1>2, <1>4, <1>7 DEF W!Inv, W!TypeOK
  <2>2. \A g \in Handler : Handed(cmd[g], cmd'[g]) /\ Admits(cmd[g], cmd'[g])
    BY <1>1, <1>4, <1>7 DEF Handed, Admits
  <2>3. W!Accounted'
    <3>1. \A x : x \in W!InHand => x \in W!InHand'
      BY <1>1, <1>4, <1>7, Hands DEF W!InHand
    <3>2. QED
      BY <1>1, <1>7, <3>1 DEF W!Inv, W!Accounted, W!LiveIds, W!Tracked
  <2>4. QED
    BY <1>1, <1>2, <1>4, <1>7, <2>1, <2>2, <2>3, Lessens
<1>8. QED
  BY <1>5, <1>6, <1>7 DEF W!WatchAdd

-----------------------------------------------------------------------------
(* Deleting a message and removing a row.                                   *)

\* What is left when one message is gone.
LEMMA Erased ==
    ASSUME W!TypeOK, NEW id, W!Erase(id)
    PROVE  /\ wlive' \subseteq wlive /\ lost' \subseteq WatchId /\ drifted' \subseteq WatchId
           /\ \A m \in wlive' : m.id # id
           /\ \A k : k # id /\ k \in lost => k \in lost'
           /\ \A k : k # id /\ k \in drifted => k \in drifted'
           /\ drifted \cap W!LiveIds' \subseteq drifted'
BY DEF W!Erase, W!TypeOK, W!LiveIds

\* What is left when a key's row is removed.
LEMMA Removed ==
    ASSUME W!TypeOK, NEW c, NEW s, W!RemoveRows(c, s), UNCHANGED wlive
    PROVE  /\ wrows' \subseteq wrows /\ lost \subseteq lost' /\ lost' \subseteq WatchId
           /\ \A k \in W!LiveIds : k \in W!Tracked => k \in W!Tracked' \cup lost'
<1>1. wrows' = wrows \ W!RowsAt(c, s) /\ lost' = lost \cup ({r.id : r \in W!RowsAt(c, s)} \cap W!LiveIds)
  BY DEF W!RemoveRows
<1>2. {r.id : r \in W!RowsAt(c, s)} \subseteq WatchId
  BY DEF W!RowsAt, W!TypeOK, W!Row
<1>3. \A k \in W!LiveIds : k \in W!Tracked => k \in W!Tracked' \cup lost'
  BY <1>1 DEF W!Tracked
<1>4. QED
  BY <1>1, <1>2, <1>3 DEF W!TypeOK

\* The rollback of a post, which Discord may or may not carry out.
LEMMA UndoStep == ASSUME Bounds, W!Inv, NEW h \in Handler, W!WatchUndo(h) PROVE W!Inv'
<1>1. cmd[h].pc = "undo" /\ W!Finish(h) /\ UNCHANGED <<wrows, data, wreachable, wpc, wtodo, at, seen>>
  BY DEF W!WatchUndo
<1>2. wfaults' \in Nat /\ commands' \in Nat /\ moves' \in Nat /\ wfaults <= wfaults'
  BY Counts DEF W!Inv, W!WatchUndo
<1>3. /\ cmd' \in [Handler -> W!Command] /\ W!Shapes' /\ \A g \in Handler \ {h} : cmd'[g] = cmd[g]
      /\ cmd'[h].pc = "idle"
  BY <1>1, Finishes DEF W!Inv
<1>4. \A g \in Handler : Handed(cmd[g], cmd'[g]) /\ Admits(cmd[g], cmd'[g])
  BY <1>3 DEF Handed, Admits
<1>5. \A y \in W!InHand : y \in W!InHand' \/ y \in cmd[h].msg
  BY <1>1, <1>3, Hands DEF W!InHand
<1>6. cmd[h].msg \subseteq WatchId
  BY DEF W!Inv, W!TypeOK, W!Command
<1>7. CASE \E id \in cmd[h].msg : W!Erase(id)
  <2>1. PICK id \in cmd[h].msg : W!Erase(id)
    BY <1>7
  <2>2. cmd[h].msg = {id}
    BY DEF W!Inv, W!Shapes
  <2>3. /\ wlive' \subseteq wlive /\ lost' \subseteq WatchId /\ drifted' \subseteq WatchId
        /\ \A m \in wlive' : m.id # id
        /\ \A k : k # id /\ k \in lost => k \in lost'
        /\ drifted \cap W!LiveIds' \subseteq drifted'
    BY <2>1, Erased DEF W!Inv
  <2>4. W!TypeOK'
    BY <1>1, <1>2, <1>3, <2>3 DEF W!Inv, W!TypeOK
  <2>5. W!Accounted'
    BY <1>1, <1>5, <2>2, <2>3 DEF W!Inv, W!Accounted, W!LiveIds, W!Tracked
  <2>6. QED
    BY <1>1, <1>2, <1>3, <1>4, <2>3, <2>4, <2>5, Lessens
<1>8. CASE lost' = lost \cup W!Dropped(h) /\ UNCHANGED <<wlive, drifted>>
  <2>1. W!TypeOK'
    BY <1>1, <1>2, <1>3, <1>6, <1>8 DEF W!Inv, W!TypeOK, W!Dropped
  <2>2. W!Accounted'
    BY <1>1, <1>5, <1>8 DEF W!Inv, W!Accounted, W!LiveIds, W!Tracked, W!Dropped
  <2>3. QED
    BY <1>1, <1>2, <1>3, <1>4, <1>8, <2>1, <2>2, Lessens
<1>9. QED
  BY <1>7, <1>8 DEF W!WatchUndo

LEMMA DeleteStep == ASSUME Bounds, W!Inv, NEW h \in Handler, W!UnwatchDelete(h) PROVE W!Inv'
<1>1. cmd[h].pc = "delete" /\ UNCHANGED <<wrows, data, wreachable, wpc, wtodo, at, seen>>
  BY DEF W!UnwatchDelete
<1>2. wfaults' \in Nat /\ commands' \in Nat /\ moves' \in Nat /\ wfaults <= wfaults'
  BY Counts DEF W!Inv, W!UnwatchDelete, W!EraseErrs
<1>3. "remove" \in W!CmdPhase
  BY DEF W!CmdPhase
<1>4. /\ cmd' \in [Handler -> W!Command] /\ W!Shapes' /\ \A g \in Handler \ {h} : cmd'[g] = cmd[g]
      /\ cmd'[h].pc \notin {"post", "add", "undo"}
  <2>1. CASE W!Finish(h)
    BY <1>1, <2>1, Finishes DEF W!Inv
  <2>2. CASE W!Goto(h, "remove")
    BY <1>1, <1>3, <2>2, Goes DEF W!Inv
  <2>3. QED
    BY <2>1, <2>2 DEF W!UnwatchDelete
<1>5. CASE UNCHANGED <<wlive, lost, drifted>>
  BY <1>1, <1>2, <1>4, <1>5, MovesStep
<1>6. ASSUME NEW id, W!Erase(id) PROVE W!Inv'
  <2>1. /\ wlive' \subseteq wlive /\ lost' \subseteq WatchId /\ drifted' \subseteq WatchId
        /\ \A m \in wlive' : m.id # id
        /\ \A k : k # id /\ k \in lost => k \in lost'
        /\ drifted \cap W!LiveIds' \subseteq drifted'
    BY <1>6, Erased DEF W!Inv
  <2>2. W!TypeOK'
    BY <1>1, <1>2, <1>4, <2>1 DEF W!Inv, W!TypeOK
  <2>3. W!Accounted'
    <3>1. \A y : y \in W!InHand => y \in W!InHand'
      BY <1>1, <1>4, Hands DEF W!InHand
    <3>2. QED
      BY <1>1, <2>1, <3>1 DEF W!Inv, W!Accounted, W!LiveIds, W!Tracked
  <2>4. \A g \in Handler : Handed(cmd[g], cmd'[g]) /\ Admits(cmd[g], cmd'[g])
    BY <1>4 DEF Handed, Admits
  <2>5. QED
    BY <1>1, <1>2, <1>4, <2>1, <2>2, <2>3, <2>4, Lessens
<1>7. QED
  BY <1>5, <1>6 DEF W!UnwatchDelete, W!EraseErrs

LEMMA UnlistStep == ASSUME Bounds, W!Inv, NEW h \in Handler, W!UnwatchRemove(h) PROVE W!Inv'
<1>1. cmd[h].pc = "remove" /\ W!Finish(h) /\ UNCHANGED <<wlive, drifted, data, wreachable, wpc, wtodo, at, seen>>
  BY DEF W!UnwatchRemove
<1>2. wfaults' \in Nat /\ commands' \in Nat /\ moves' \in Nat /\ wfaults <= wfaults'
  BY Counts DEF W!Inv, W!UnwatchRemove
<1>3. /\ cmd' \in [Handler -> W!Command] /\ W!Shapes' /\ \A g \in Handler \ {h} : cmd'[g] = cmd[g]
      /\ cmd'[h].pc = "idle"
  BY <1>1, Finishes DEF W!Inv
<1>4. CASE UNCHANGED <<wrows, lost>>
  BY <1>1, <1>2, <1>3, <1>4, MovesStep
<1>5. CASE W!RemoveRows(cmd[h].ch, cmd[h].slug)
  <2>1. /\ wrows' \subseteq wrows /\ lost \subseteq lost' /\ lost' \subseteq WatchId
        /\ \A k \in W!LiveIds : k \in W!Tracked => k \in W!Tracked' \cup lost'
    BY <1>1, <1>5, Removed DEF W!Inv
  <2>2. W!TypeOK'
    BY <1>1, <1>2, <1>3, <2>1 DEF W!Inv, W!TypeOK
  <2>3. W!Accounted'
    <3>1. \A y : y \in W!InHand => y \in W!InHand'
      BY <1>1, <1>3, Hands DEF W!InHand
    <3>2. QED
      BY <1>1, <2>1, <3>1 DEF W!Inv, W!Accounted, W!LiveIds
  <2>4. \A g \in Handler : Handed(cmd[g], cmd'[g]) /\ Admits(cmd[g], cmd'[g])
    BY <1>3 DEF Handed, Admits
  <2>5. QED
    BY <1>1, <1>2, <1>3, <2>1, <2>2, <2>3, <2>4, Lessens
<1>6. QED
  BY <1>4, <1>5 DEF W!UnwatchRemove

-----------------------------------------------------------------------------
(* The loop and the outside world.                                          *)

\* A step of the loop, or outside, that saves, edits, posts and inserts nothing.
LEMMA LooseStep ==
    ASSUME Bounds, W!Inv, wlive' \subseteq wlive, wrows' \subseteq wrows, wtodo' \cup at' \subseteq wrows \cup wtodo \cup at,
           UNCHANGED cmd, wpc' \in W!LoopPhase, seen' \subseteq Hash, lost' \subseteq WatchId, drifted' \subseteq WatchId,
           \A r, q \in at' : r = q, \A x, y \in seen' : x = y,
           wpc' = "save" => wpc = "save" /\ at' = at /\ seen' = seen,
           wpc = "save" /\ wpc' # "save" => \A r \in at : r.id \in W!LiveIds' => r.id \in drifted',
           drifted \cap W!LiveIds' \subseteq drifted',
           \A k \in W!LiveIds' : k \in lost \cup W!Tracked => k \in lost' \cup W!Tracked',
           data' \in [Slug -> Hash \cup {Absent}], wreachable' \subseteq WatchChannel,
           wfaults' \in Nat, commands' \in Nat, moves' \in Nat, wfaults <= wfaults'
    PROVE  W!Inv'
<1>1. W!TypeOK'
  BY DEF W!Inv, W!TypeOK
<1>2. W!Shapes'
  BY DEF W!Inv, W!Shapes
<1>3. \A h \in Handler : Handed(cmd[h], cmd'[h]) /\ Admits(cmd[h], cmd'[h])
  BY DEF Handed, Admits
<1>4. W!Accounted'
  <2>1. W!InHand' = W!InHand
    BY DEF W!InHand
  <2>2. W!LiveIds' \subseteq W!LiveIds
    BY DEF W!LiveIds
  <2>3. QED
    BY <2>1, <2>2 DEF W!Inv, W!Accounted
<1>5. QED
  BY <1>1, <1>2, <1>3, <1>4, Lessens

LEMMA ListStep == ASSUME Bounds, W!Inv, W!CycleList PROVE W!Inv'
<1>1. wfaults' \in Nat /\ commands' \in Nat /\ moves' \in Nat /\ wfaults <= wfaults'
  BY Counts DEF W!Inv, W!CycleList
<1>2. /\ wpc = "idle" /\ wpc' \in {"idle", "next"} /\ wtodo' \subseteq wrows \cup wtodo
      /\ UNCHANGED <<wlive, lost, drifted, wrows, data, wreachable, cmd, at, seen>>
  BY DEF W!CycleList
<1>3. QED
  BY <1>1, <1>2, LooseStep DEF W!Inv, W!TypeOK, W!Shapes, W!LoopPhase, W!Tracked

LEMMA FetchStep == ASSUME Bounds, W!Inv, W!Fetch PROVE W!Inv'
<1>1. PICK r \in wtodo :
         /\ wtodo' = wtodo \ {r}
         /\ \/ data[r.slug] = Absent /\ W!NoFault /\ wpc' = "drop" /\ at' = {r} /\ UNCHANGED seen
            \/ data[r.slug] \notin {Absent, r.hash} /\ W!NoFault /\ wpc' = "edit" /\ at' = {r} /\ seen' = {data[r.slug]}
            \/ data[r.slug] = r.hash /\ W!NoFault /\ UNCHANGED <<wpc, at, seen>>
            \/ W!Fault /\ UNCHANGED <<wpc, at, seen>>
  BY DEF W!Fetch
<1>2. wfaults' \in Nat /\ commands' \in Nat /\ moves' \in Nat /\ wfaults <= wfaults'
  BY <1>1, Counts DEF W!Inv
<1>3. wpc = "next" /\ UNCHANGED <<wlive, lost, drifted, wrows, data, wreachable, cmd>>
  BY DEF W!Fetch
<1>4. data[r.slug] \in Hash \cup {Absent}
  BY DEF W!Inv, W!TypeOK, W!Row
<1>5. /\ wpc' \in {"next", "drop", "edit"} /\ at' \subseteq at \cup wtodo
      /\ \A q, p \in at' : q = p
      /\ seen' \subseteq Hash /\ \A x, y \in seen' : x = y
  BY <1>1, <1>3, <1>4 DEF W!Inv, W!TypeOK, W!Shapes
<1>6. QED
  BY <1>1, <1>2, <1>3, <1>5, LooseStep DEF W!Inv, W!TypeOK, W!LoopPhase, W!Tracked

LEMMA EndStep == ASSUME Bounds, W!Inv, W!CycleEnd PROVE W!Inv'
<1>1. wfaults' \in Nat /\ commands' \in Nat /\ moves' \in Nat /\ wfaults <= wfaults'
  BY Counts DEF W!Inv, W!CycleEnd
<1>2. /\ wpc = "next" /\ wpc' = "idle" /\ UNCHANGED <<wlive, lost, drifted, wrows, data, wreachable, cmd, wtodo, at, seen>>
  BY DEF W!CycleEnd
<1>3. QED
  BY <1>1, <1>2, LooseStep DEF W!Inv, W!TypeOK, W!Shapes, W!LoopPhase, W!Tracked

LEMMA DropStep == ASSUME Bounds, W!Inv, W!Drop PROVE W!Inv'
<1>1. wfaults' \in Nat /\ commands' \in Nat /\ moves' \in Nat /\ wfaults <= wfaults'
  BY Counts DEF W!Inv, W!Drop, W!EraseErrs
<1>2. /\ wpc = "drop" /\ wpc' = "remove" /\ UNCHANGED <<wrows, data, wreachable, cmd, wtodo, at, seen>>
  BY DEF W!Drop
<1>3. CASE UNCHANGED <<wlive, lost, drifted>>
  BY <1>1, <1>2, <1>3, LooseStep DEF W!Inv, W!TypeOK, W!Shapes, W!LoopPhase, W!Tracked
<1>4. ASSUME NEW id, W!Erase(id) PROVE W!Inv'
  <2>1. /\ wlive' \subseteq wlive /\ lost' \subseteq WatchId /\ drifted' \subseteq WatchId
        /\ \A m \in wlive' : m.id # id
        /\ \A k : k # id /\ k \in lost => k \in lost'
        /\ drifted \cap W!LiveIds' \subseteq drifted'
    BY <1>4, Erased DEF W!Inv
  <2>2. \A k \in W!LiveIds' : k \in lost \cup W!Tracked => k \in lost' \cup W!Tracked'
    BY <1>2, <2>1 DEF W!LiveIds, W!Tracked
  <2>3. QED
    BY <1>1, <1>2, <2>1, <2>2, LooseStep DEF W!Inv, W!TypeOK, W!Shapes, W!LoopPhase
<1>5. QED
  BY <1>3, <1>4 DEF W!Drop, W!EraseErrs

LEMMA RemoveStep == ASSUME Bounds, W!Inv, W!Remove PROVE W!Inv'
<1>1. wfaults' \in Nat /\ commands' \in Nat /\ moves' \in Nat /\ wfaults <= wfaults'
  BY Counts DEF W!Inv, W!Remove
<1>2. /\ wpc = "remove" /\ wpc' = "next" /\ at' = {} /\ seen' = {}
      /\ UNCHANGED <<wlive, drifted, data, wreachable, cmd, wtodo>>
  BY DEF W!Remove, W!NextRow
<1>3. CASE UNCHANGED <<wrows, lost>>
  BY <1>1, <1>2, <1>3, LooseStep DEF W!Inv, W!TypeOK, W!LoopPhase, W!Tracked
<1>4. ASSUME NEW r \in at, W!RemoveRows(r.ch, r.slug) PROVE W!Inv'
  <2>1. /\ wrows' \subseteq wrows /\ lost \subseteq lost' /\ lost' \subseteq WatchId
        /\ \A k \in W!LiveIds : k \in W!Tracked => k \in W!Tracked' \cup lost'
    BY <1>2, <1>4, Removed DEF W!Inv
  <2>2. \A k \in W!LiveIds' : k \in lost \cup W!Tracked => k \in lost' \cup W!Tracked'
    BY <1>2, <2>1 DEF W!LiveIds
  <2>3. QED
    BY <1>1, <1>2, <2>1, <2>2, LooseStep DEF W!Inv, W!TypeOK, W!LoopPhase
<1>5. QED
  BY <1>3, <1>4 DEF W!Remove

LEMMA OutsideStep == ASSUME Bounds, W!Inv, W!SystemMoves \/ W!LoseAccess \/ W!RegainAccess \/ W!HandDelete PROVE W!Inv'
<1>1. CASE W!SystemMoves
  <2>1. /\ UNCHANGED <<wlive, lost, drifted, wrows, wreachable, cmd, wpc, wtodo, at, seen, wfaults, commands>>
        /\ data' \in [Slug -> Hash \cup {Absent}] /\ moves' = moves + 1
    BY <1>1 DEF W!SystemMoves, W!Inv, W!TypeOK
  <2>2. QED
    BY <2>1, LooseStep DEF W!Inv, W!TypeOK, W!Shapes, W!Tracked
<1>2. CASE W!LoseAccess \/ W!RegainAccess
  <2>1. wfaults' \in Nat /\ commands' \in Nat /\ moves' \in Nat /\ wfaults <= wfaults'
    BY <1>2, Counts DEF W!Inv, W!LoseAccess, W!RegainAccess
  <2>2. UNCHANGED <<wlive, lost, drifted, wrows, data, cmd, wpc, wtodo, at, seen>> /\ wreachable' \subseteq WatchChannel
    BY <1>2 DEF W!LoseAccess, W!RegainAccess, W!Inv, W!TypeOK
  <2>3. QED
    BY <2>1, <2>2, LooseStep DEF W!Inv, W!TypeOK, W!Shapes, W!Tracked
<1>3. CASE W!HandDelete
  <2>1. PICK m \in wlive : W!Erase(m.id)
    BY <1>3 DEF W!HandDelete
  <2>2. UNCHANGED <<wrows, data, wreachable, cmd, wpc, wtodo, at, seen>>
    BY <1>3 DEF W!HandDelete
  <2>3. wfaults' \in Nat /\ commands' \in Nat /\ moves' \in Nat /\ wfaults <= wfaults'
    BY <1>3, Counts DEF W!Inv, W!HandDelete
  <2>4. /\ wlive' \subseteq wlive /\ lost' \subseteq WatchId /\ drifted' \subseteq WatchId
        /\ \A n \in wlive' : n.id # m.id
        /\ \A k : k # m.id /\ k \in lost => k \in lost'
        /\ drifted \cap W!LiveIds' \subseteq drifted'
    BY <2>1, Erased DEF W!Inv
  <2>5. \A k \in W!LiveIds' : k \in lost \cup W!Tracked => k \in lost' \cup W!Tracked'
    BY <2>2, <2>4 DEF W!LiveIds, W!Tracked
  <2>6. QED
    BY <2>2, <2>3, <2>4, <2>5, LooseStep DEF W!Inv, W!TypeOK, W!Shapes
<1>4. QED
  BY <1>1, <1>2, <1>3

LEMMA RestartStep == ASSUME Bounds, W!Inv, W!Restart PROVE W!Inv'
<1>1. /\ lost' = lost \cup ((W!InHand \cap W!LiveIds) \ W!Tracked)
      /\ drifted' = drifted \cup {r.id : r \in {q \in at : wpc = "save" /\ q.id \in W!LiveIds}}
      /\ cmd' = [h \in Handler |-> W!NoCmd]
      /\ wpc' = "idle" /\ wtodo' = {} /\ at' = {} /\ seen' = {}
      /\ UNCHANGED <<wlive, wrows, data, wreachable>>
  BY DEF W!Restart
<1>2. wfaults' \in Nat /\ commands' \in Nat /\ moves' \in Nat /\ wfaults <= wfaults'
  BY Counts DEF W!Inv, W!Restart
<1>3. \A h \in Handler : cmd'[h] = W!NoCmd
  BY <1>1
<1>4. W!LiveIds \subseteq WatchId /\ drifted' \subseteq WatchId
  BY <1>1 DEF W!Inv, W!TypeOK, W!LiveIds, W!Message, W!Row
<1>5. W!TypeOK'
  BY <1>1, <1>2, <1>4, NoCommand DEF W!Inv, W!TypeOK, W!LoopPhase
<1>6. W!Shapes'
  BY <1>1, <1>3, NoCommand DEF W!Shapes
<1>7. \A h \in Handler : Handed(cmd[h], cmd'[h]) /\ Admits(cmd[h], cmd'[h])
  BY <1>3, NoCommand DEF Handed, Admits
<1>8. W!LiveIds' = W!LiveIds /\ W!Tracked' = W!Tracked
  BY <1>1 DEF W!LiveIds, W!Tracked
<1>9. W!Accounted'
  BY <1>1, <1>8 DEF W!Inv, W!Accounted
<1>10. wpc = "save" => \A r \in at : r.id \in W!LiveIds' => r.id \in drifted'
  BY <1>1, <1>8
<1>11. QED
  BY <1>1, <1>2, <1>5, <1>6, <1>7, <1>9, <1>10, Lessens

-----------------------------------------------------------------------------
(* The edit and the save.                                                   *)

\* An edit that reached its message: that one shows x now, the others are as
\* they were.
LEMMA Edits ==
    ASSUME W!Inv, NEW r \in at, NEW x \in seen, W!Found(r) # {}, W!Edited(r, x)
    PROVE  /\ wlive' \subseteq W!Message /\ W!LiveIds' = W!LiveIds
           /\ \A m \in wlive' : \E n \in wlive : /\ m.id = n.id /\ m.ch = n.ch /\ m.slug = n.slug
                                                 /\ m.id = r.id => m = [n EXCEPT !.shows = x] /\ m.shows = x
                                                 /\ m.id # r.id => m = n
<1>1. W!Found(r) = {m \in wlive : m.id = r.id}
  BY DEF W!Found
<1>2. wlive' = (wlive \ W!Found(r)) \cup {[m EXCEPT !.shows = x] : m \in W!Found(r)}
  BY DEF W!Edited
<1>3. wlive \subseteq W!Message /\ x \in Hash
  BY DEF W!Inv, W!TypeOK
<1>4. \A n \in wlive : /\ [n EXCEPT !.shows = x] \in W!Message
                       /\ [n EXCEPT !.shows = x].id = n.id /\ [n EXCEPT !.shows = x].ch = n.ch
                       /\ [n EXCEPT !.shows = x].slug = n.slug /\ [n EXCEPT !.shows = x].shows = x
  BY <1>3 DEF W!Message
<1>5. \A m \in wlive' : \/ m \in wlive /\ m.id # r.id
                        \/ \E n \in wlive : n.id = r.id /\ m = [n EXCEPT !.shows = x]
  BY <1>1, <1>2
<1>6. \A n \in wlive : (n.id # r.id => n \in wlive') /\ (n.id = r.id => [n EXCEPT !.shows = x] \in wlive')
  BY <1>1, <1>2
<1>7. wlive' \subseteq W!Message
  BY <1>3, <1>4, <1>5
<1>8. \A m \in wlive' : \E n \in wlive : /\ m.id = n.id /\ m.ch = n.ch /\ m.slug = n.slug
                                         /\ m.id = r.id => m = [n EXCEPT !.shows = x] /\ m.shows = x
                                         /\ m.id # r.id => m = n
  <2> SUFFICES ASSUME NEW m \in wlive'
               PROVE  \E n \in wlive : /\ m.id = n.id /\ m.ch = n.ch /\ m.slug = n.slug
                                       /\ m.id = r.id => m = [n EXCEPT !.shows = x] /\ m.shows = x
                                       /\ m.id # r.id => m = n
    OBVIOUS
  <2>1. CASE m \in wlive /\ m.id # r.id
    BY <2>1
  <2>2. CASE \E n \in wlive : n.id = r.id /\ m = [n EXCEPT !.shows = x]
    <3>1. PICK n \in wlive : n.id = r.id /\ m = [n EXCEPT !.shows = x]
      BY <2>2
    <3>2. m.id = n.id /\ m.ch = n.ch /\ m.slug = n.slug /\ m.shows = x
      BY <1>4, <3>1
    <3>3. QED
      BY <3>1, <3>2
  <2>3. QED
    BY <1>5, <2>1, <2>2
<1>9. W!LiveIds' = W!LiveIds
  <2>1. \A k : k \in W!LiveIds' => k \in W!LiveIds
    BY <1>8 DEF W!LiveIds
  <2>2. \A n \in wlive : \E m \in wlive' : m.id = n.id
    BY <1>4, <1>6
  <2>3. \A k : k \in W!LiveIds => k \in W!LiveIds'
    BY <2>2 DEF W!LiveIds
  <2>4. QED
    BY <2>1, <2>3
<1>10. QED
  BY <1>7, <1>8, <1>9

\* The edit is followed by the save, or its loss is recorded.
LEMMA EditKeeps ==
    ASSUME Bounds, W!Inv, wpc = "edit", NEW r \in at, NEW x \in seen, W!Found(r) # {}, W!Edited(r, x),
           UNCHANGED <<wrows, lost, data, wreachable, cmd, wtodo>>, wpc' \in W!LoopPhase, at' \subseteq at, seen' \subseteq seen,
           drifted \subseteq drifted', drifted' \subseteq WatchId, wpc' = "save" => at' = at /\ seen' = seen,
           r.id \in drifted' \/ (wpc' = "save" /\ r.id \in {q.id : q \in at'}),
           wfaults' \in Nat, commands' \in Nat, moves' \in Nat, wfaults <= wfaults'
    PROVE  W!Inv'
<1>1. /\ wlive' \subseteq W!Message /\ W!LiveIds' = W!LiveIds
      /\ \A m \in wlive' : \E n \in wlive : /\ m.id = n.id /\ m.ch = n.ch /\ m.slug = n.slug
                                            /\ m.id = r.id => m = [n EXCEPT !.shows = x] /\ m.shows = x
                                            /\ m.id # r.id => m = n
  BY Edits
<1>2. W!TypeOK'
  BY <1>1 DEF W!Inv, W!TypeOK
<1>3. W!Shapes'
  BY DEF W!Inv, W!Shapes
<1>4. W!LiveUnique'
  BY <1>1 DEF W!Inv, W!LiveUnique
<1>5. W!RowKey' /\ W!RowsFit'
  BY <1>1 DEF W!Inv, W!RowKey, W!RowsFit
<1>6. W!HandsFit'
  <2> SUFFICES ASSUME NEW h \in Handler
      PROVE /\ cmd[h].pc \in {"add", "undo"} => \A m \in wlive' : m.id \in cmd[h].msg =>
                m.ch = cmd[h].ch /\ m.slug = cmd[h].slug /\ (cmd[h].pc = "add" => m.shows \in cmd[h].snap)
            /\ cmd[h].pc = "add" => /\ \A q \in wrows \cup wtodo \cup at' : q.id \notin cmd[h].msg
                                    /\ \A g \in Handler \ {h} : cmd[g].pc = "add" => cmd[g].msg \cap cmd[h].msg = {}
    BY DEF W!HandsFit
  <2>1. /\ cmd[h].pc \in {"add", "undo"} => \A m \in wlive : m.id \in cmd[h].msg =>
              m.ch = cmd[h].ch /\ m.slug = cmd[h].slug /\ (cmd[h].pc = "add" => m.shows \in cmd[h].snap)
        /\ cmd[h].pc = "add" => /\ \A q \in wrows \cup wtodo \cup at : q.id \notin cmd[h].msg
                                /\ \A g \in Handler \ {h} : cmd[g].pc = "add" => cmd[g].msg \cap cmd[h].msg = {}
    BY DEF W!Inv, W!HandsFit
  <2>2. cmd[h].pc = "add" => r.id \notin cmd[h].msg
    BY <2>1
  <2>3. cmd[h].pc \in {"add", "undo"} => \A m \in wlive' : m.id \in cmd[h].msg =>
              m.ch = cmd[h].ch /\ m.slug = cmd[h].slug /\ (cmd[h].pc = "add" => m.shows \in cmd[h].snap)
    BY <1>1, <2>1, <2>2
  <2>4. QED
    BY <2>1, <2>3
<1>7. W!SaveShows'
  BY <1>1 DEF W!Inv, W!Shapes, W!SaveShows
<1>8. W!RowTellsMessage'
  BY <1>1 DEF W!Inv, W!RowTellsMessage
<1>9. W!Accounted'
  BY <1>1 DEF W!Inv, W!Accounted, W!Tracked, W!InHand
<1>10. IsFiniteSet(wrows') /\ W!CapOvershoot'
  <2>1. \A h \in Handler : Admits(cmd[h], cmd'[h])
    BY DEF Admits
  <2>2. QED
    BY <2>1, CapKept
<1>11. QED
  BY <1>2, <1>3, <1>4, <1>5, <1>6, <1>7, <1>8, <1>9, <1>10, SameFinite DEF W!Inv

LEMMA EditStep == ASSUME Bounds, W!Inv, W!Edit PROVE W!Inv'
<1>1. wfaults' \in Nat /\ commands' \in Nat /\ moves' \in Nat /\ wfaults <= wfaults'
  BY Counts DEF W!Inv, W!Edit
<1>2. wpc = "edit" /\ UNCHANGED <<wrows, lost, data, wreachable, cmd>>
  BY DEF W!Edit
<1>3. PICK r \in at, x \in seen :
         \/ W!Found(r) # {} /\ W!Edited(r, x) /\ wpc' = "save" /\ UNCHANGED <<drifted, wtodo, at, seen>>
         \/ UNCHANGED wlive /\ wpc' = "remove" /\ UNCHANGED <<drifted, wtodo, at, seen>>
         \/ UNCHANGED <<wlive, drifted>> /\ W!NextRow
         \/ W!Found(r) # {} /\ W!Edited(r, x) /\ drifted' = drifted \cup {r.id} /\ W!NextRow
  BY DEF W!Edit
<1>4. r.id \in WatchId /\ r.id \in {q.id : q \in at}
  BY DEF W!Inv, W!TypeOK, W!Row
<1>5. CASE W!Found(r) # {} /\ W!Edited(r, x) /\ wpc' = "save" /\ UNCHANGED <<drifted, wtodo, at, seen>>
  BY <1>1, <1>2, <1>4, <1>5, EditKeeps DEF W!Inv, W!TypeOK, W!LoopPhase
<1>6. CASE W!Found(r) # {} /\ W!Edited(r, x) /\ drifted' = drifted \cup {r.id} /\ W!NextRow
  BY <1>1, <1>2, <1>4, <1>6, EditKeeps DEF W!Inv, W!TypeOK, W!LoopPhase, W!NextRow
<1>7. CASE /\ UNCHANGED <<wlive, drifted, wtodo>>
           /\ wpc' \in {"next", "remove"} /\ at' \subseteq at /\ seen' \subseteq seen
  BY <1>1, <1>2, <1>7, LooseStep DEF W!Inv, W!TypeOK, W!Shapes, W!LoopPhase, W!Tracked
<1>8. QED
  BY <1>3, <1>5, <1>6, <1>7 DEF W!NextRow

\* The row saved is the one of its key, if it is still there.
LEMMA Saves ==
    ASSUME W!Inv, NEW r \in at, NEW x \in seen, W!Saved(r, x)
    PROVE  \/ W!RowsAt(r.ch, r.slug) = {} /\ wrows' = wrows
           \/ \E p \in wrows, n \in W!Row : /\ W!RowsAt(r.ch, r.slug) = {p} /\ p.ch = r.ch /\ p.slug = r.slug
                                            /\ n.id = p.id /\ n.ch = p.ch /\ n.slug = p.slug /\ n.hash = x
                                            /\ wrows' = (wrows \ {p}) \cup {n}
<1>1. CASE W!RowsAt(r.ch, r.slug) = {}
  BY <1>1 DEF W!Saved
<1>2. ASSUME NEW p \in W!RowsAt(r.ch, r.slug)
      PROVE  \E q \in wrows, n \in W!Row : /\ W!RowsAt(r.ch, r.slug) = {q} /\ q.ch = r.ch /\ q.slug = r.slug
                                           /\ n.id = q.id /\ n.ch = q.ch /\ n.slug = q.slug /\ n.hash = x
                                           /\ wrows' = (wrows \ {q}) \cup {n}
  <2>1. W!RowsAt(r.ch, r.slug) = {p} /\ p \in wrows /\ p.ch = r.ch /\ p.slug = r.slug
    BY DEF W!Inv, W!RowKey, W!RowsAt
  <2>2. p \in W!Row /\ x \in Hash
    BY <2>1 DEF W!Inv, W!TypeOK
  <2>3. /\ [p EXCEPT !.hash = x] \in W!Row /\ [p EXCEPT !.hash = x].id = p.id /\ [p EXCEPT !.hash = x].ch = p.ch
        /\ [p EXCEPT !.hash = x].slug = p.slug /\ [p EXCEPT !.hash = x].hash = x
    BY <2>2 DEF W!Row
  <2>4. wrows' = (wrows \ {p}) \cup {[p EXCEPT !.hash = x]}
    BY <2>1 DEF W!Saved
  <2>5. QED
    BY <2>1, <2>3, <2>4
<1>3. QED
  BY <1>1, <1>2

\* A row takes the place of another of its key.
LEMMA Replaces ==
    ASSUME Bounds, W!Inv, NEW p \in wrows, NEW n \in W!Row, n.ch = p.ch, n.slug = p.slug, wrows' = (wrows \ {p}) \cup {n},
           UNCHANGED cmd, wfaults' \in Nat, wfaults <= wfaults'
    PROVE  IsFiniteSet(wrows') /\ W!CapOvershoot'
<1>1. n \notin wrows \ {p}
  BY DEF W!Inv, W!RowKey
<1>2. IsFiniteSet(wrows \ {p})
  BY FS_RemoveElement, SameFinite DEF W!Inv
<1>3. IsFiniteSet(wrows')
  BY <1>2, FS_AddElement
<1>4. ASSUME NEW c \in WatchChannel
      PROVE  Cardinality({r \in wrows' : r.ch = c}) + Cardinality(W!Admitted(c)') =< Cap - 1 + Cardinality(Handler) + wfaults'
  <2>1. /\ IsFiniteSet(At(c)) /\ Cardinality(At(c)) \in Nat /\ Cardinality(W!Admitted(c)) \in Nat /\ Cardinality(Handler) \in Nat
    BY Counted, SameFinite DEF W!Inv
  <2>2. Cardinality(At(c)) + Cardinality(W!Admitted(c)) =< Cap - 1 + Cardinality(Handler) + wfaults /\ wfaults \in Nat
    BY CapTells DEF W!Inv, W!TypeOK, Capped, At
  <2>3. Cardinality(W!Admitted(c)') = Cardinality(W!Admitted(c))
    BY DEF W!Admitted
  <2>4. Cardinality({r \in wrows' : r.ch = c}) = Cardinality(At(c))
    <3>1. CASE p.ch = c
      <4>1. {r \in wrows' : r.ch = c} = (At(c) \ {p}) \cup {n} /\ p \in At(c) /\ n \notin At(c) \ {p}
        BY <1>1, <3>1 DEF At
      <4>2. IsFiniteSet(At(c) \ {p}) /\ Cardinality(At(c) \ {p}) = Cardinality(At(c)) - 1
        BY <2>1, <4>1, FS_RemoveElement
      <4>3. Cardinality((At(c) \ {p}) \cup {n}) = Cardinality(At(c) \ {p}) + 1
        BY <4>1, <4>2, FS_AddElement
      <4>4. Cardinality(At(c) \ {p}) + 1 = Cardinality(At(c))
        BY <2>1, <4>2
      <4>5. QED
        BY <4>1, <4>3, <4>4
    <3>2. CASE p.ch # c
      BY <3>2 DEF At
    <3>3. QED
      BY <3>1, <3>2
  <2>5. QED
    BY <2>1, <2>2, <2>3, <2>4 DEF Bounds
<1>5. QED
  BY <1>3, <1>4, CapTells DEF Capped

\* The table keeps its key.
LEMMA SavedKey == ASSUME W!Inv, NEW r \in at, NEW x \in seen, W!Saved(r, x) PROVE W!RowKey'
<1>1. W!RowKey
  BY DEF W!Inv
<1>2. CASE wrows' = wrows
  BY <1>1, <1>2 DEF W!RowKey
<1>3. ASSUME NEW p \in wrows, NEW n \in W!Row, n.ch = p.ch, n.slug = p.slug, wrows' = (wrows \ {p}) \cup {n}
      PROVE  W!RowKey'
  <2>1. \A q \in wrows : q.ch = n.ch /\ q.slug = n.slug => q = p
    BY <1>1, <1>3 DEF W!RowKey
  <2>2. QED
    BY <1>1, <1>3, <2>1 DEF W!RowKey
<1>4. QED
  BY <1>2, <1>3, Saves

\* The row saved tells what its message shows; if it names another message by
\* now, that is recorded.
LEMMA SaveKeeps ==
    ASSUME Bounds, W!Inv, wpc = "save", NEW r \in at, NEW x \in seen, W!Saved(r, x),
           drifted' = (drifted \ {q.id : q \in W!RowsAt(r.ch, r.slug)})
                      \cup W!Unlike({q \in W!RowsAt(r.ch, r.slug) : q.id # r.id}, x),
           UNCHANGED <<wlive, lost, data, wreachable, cmd, wtodo>>, wpc' = "next", at' = {}, seen' = {},
           wfaults' \in Nat, commands' \in Nat, moves' \in Nat, wfaults <= wfaults'
    PROVE  W!Inv'
<1>1. W!Unlike({q \in W!RowsAt(r.ch, r.slug) : q.id # r.id}, x) \subseteq WatchId
  BY DEF W!Unlike, W!Inv, W!TypeOK, W!Message
<1>2. drifted' \subseteq WatchId
  BY <1>1 DEF W!Inv, W!TypeOK
<1>3. /\ wrows' \subseteq W!Row
      /\ \A n \in wrows' : \E o \in wrows : /\ n.id = o.id /\ n.ch = o.ch /\ n.slug = o.slug
                                            /\ \/ n = o /\ o \notin W!RowsAt(r.ch, r.slug)
                                               \/ o \in W!RowsAt(r.ch, r.slug) /\ n.hash = x
      /\ \A o \in wrows : \E n \in wrows' : n.id = o.id
      /\ IsFiniteSet(wrows') /\ W!CapOvershoot'
  <2>1. wrows \subseteq W!Row
    BY DEF W!Inv, W!TypeOK
  <2>2. CASE W!RowsAt(r.ch, r.slug) = {} /\ wrows' = wrows
    <3>1. \A h \in Handler : Admits(cmd[h], cmd'[h])
      BY DEF Admits
    <3>2. IsFiniteSet(wrows') /\ W!CapOvershoot'
      BY <2>2, <3>1, CapKept
    <3>3. QED
      BY <2>1, <2>2, <3>2
  <2>3. ASSUME NEW p \in wrows, NEW n \in W!Row, W!RowsAt(r.ch, r.slug) = {p}, n.id = p.id, n.ch = p.ch, n.slug = p.slug, n.hash = x,
               wrows' = (wrows \ {p}) \cup {n}
        PROVE  /\ wrows' \subseteq W!Row
               /\ \A k \in wrows' : \E o \in wrows : /\ k.id = o.id /\ k.ch = o.ch /\ k.slug = o.slug
                                                     /\ \/ k = o /\ o \notin W!RowsAt(r.ch, r.slug)
                                                        \/ o \in W!RowsAt(r.ch, r.slug) /\ k.hash = x
               /\ \A o \in wrows : \E k \in wrows' : k.id = o.id
               /\ IsFiniteSet(wrows') /\ W!CapOvershoot'
    <3>1. IsFiniteSet(wrows') /\ W!CapOvershoot'
      BY <2>3, Replaces
    <3>2. QED
      BY <2>1, <2>3, <3>1
  <2>4. QED
    BY <2>2, <2>3, Saves
<1>4. W!TypeOK'
  BY <1>2, <1>3 DEF W!Inv, W!TypeOK, W!LoopPhase
<1>5. W!Shapes'
  BY DEF W!Inv, W!Shapes
<1>6. W!RowKey'
  BY SavedKey
<1>7. W!LiveUnique' /\ W!RowsFit' /\ W!SaveShows'
  BY <1>3 DEF W!Inv, W!LiveUnique, W!RowsFit, W!SaveShows
<1>8. W!HandsFit'
  BY <1>3 DEF W!Inv, W!HandsFit
<1>9. W!Accounted'
  BY <1>3 DEF W!Inv, W!Accounted, W!LiveIds, W!Tracked, W!InHand
<1>10. W!RowTellsMessage'
  <2> SUFFICES ASSUME NEW n \in wrows', NEW m \in wlive, m.id = n.id, m.shows # n.hash
               PROVE  n.id \in drifted'
    BY DEF W!RowTellsMessage
  <2>1. PICK o \in wrows : /\ n.id = o.id /\ n.ch = o.ch /\ n.slug = o.slug
                           /\ \/ n = o /\ o \notin W!RowsAt(r.ch, r.slug)
                              \/ o \in W!RowsAt(r.ch, r.slug) /\ n.hash = x
    BY <1>3
  <2>2. m.id = r.id => m.shows = x
    BY DEF W!Inv, W!Shapes, W!SaveShows
  <2>3. \A q \in wrows \cup at : q.id = m.id => q.ch = m.ch /\ q.slug = m.slug
    BY DEF W!Inv, W!RowsFit
  <2>4. CASE o \in W!RowsAt(r.ch, r.slug) /\ n.hash = x
    BY <2>1, <2>2, <2>4 DEF W!Unlike
  <2>5. CASE n = o /\ o \notin W!RowsAt(r.ch, r.slug)
    <3>1. o.id # r.id
      BY <2>1, <2>3, <2>5 DEF W!RowsAt
    <3>2. o.id \in drifted
      BY <2>5, <3>1 DEF W!Inv, W!Shapes, W!RowTellsMessage
    <3>3. \A q \in W!RowsAt(r.ch, r.slug) : q.id # o.id
      BY <2>1, <2>3, <2>5 DEF W!RowsAt
    <3>4. QED
      BY <2>1, <3>2, <3>3
  <2>6. QED
    BY <2>1, <2>4, <2>5
<1>11. QED
  BY <1>3, <1>4, <1>5, <1>6, <1>7, <1>8, <1>9, <1>10, SameFinite DEF W!Inv

LEMMA SaveStep == ASSUME Bounds, W!Inv, W!Save PROVE W!Inv'
<1>1. wfaults' \in Nat /\ commands' \in Nat /\ moves' \in Nat /\ wfaults <= wfaults'
  BY Counts DEF W!Inv, W!Save
<1>2. /\ wpc = "save" /\ wpc' = "next" /\ at' = {} /\ seen' = {}
      /\ UNCHANGED <<wlive, lost, data, wreachable, cmd, wtodo>>
  BY DEF W!Save, W!NextRow
<1>3. PICK r \in at, x \in seen :
         \/ /\ W!Saved(r, x)
            /\ drifted' = (drifted \ {q.id : q \in W!RowsAt(r.ch, r.slug)})
                          \cup W!Unlike({q \in W!RowsAt(r.ch, r.slug) : q.id # r.id}, x)
         \/ UNCHANGED wrows /\ drifted' = drifted \cup ({r.id} \cap W!LiveIds)
  BY DEF W!Save
<1>4. CASE UNCHANGED wrows /\ drifted' = drifted \cup ({r.id} \cap W!LiveIds)
  <2>1. drifted' \subseteq WatchId /\ W!LiveIds' = W!LiveIds /\ W!Tracked' = W!Tracked
    BY <1>2, <1>4 DEF W!Inv, W!TypeOK, W!Row, W!LiveIds, W!Tracked
  <2>2. \A q \in at : q.id \in W!LiveIds' => q.id \in drifted'
    BY <1>4, <2>1 DEF W!Inv, W!Shapes
  <2>3. QED
    BY <1>1, <1>2, <1>4, <2>1, <2>2, LooseStep DEF W!Inv, W!TypeOK, W!LoopPhase
<1>5. QED
  BY <1>1, <1>2, <1>3, <1>4, SaveKeeps

-----------------------------------------------------------------------------
\* Every step keeps the invariant.
LEMMA WatchInvStep == ASSUME Bounds, W!Inv, [W!Next]_(W!vars) PROVE W!Inv'
<1>1. ASSUME NEW h \in Handler, W!Issue(h) \/ W!CommandStep(h) PROVE W!Inv'
  BY <1>1, IssueStep, SnapStep, GetStep, CountStep, PostStep, AddStep, UndoStep, LookupStep, DeleteStep, UnlistStep
     DEF W!CommandStep, W!WatchStep, W!UnwatchStep
<1>2. CASE W!Loop
  BY <1>2, ListStep, FetchStep, EndStep, EditStep, SaveStep, DropStep, RemoveStep DEF W!Loop
<1>3. CASE W!Outside
  BY <1>3, RestartStep, OutsideStep DEF W!Outside
<1>4. CASE UNCHANGED W!vars
  BY <1>4 DEF W!vars, W!Inv, W!TypeOK, W!Shapes, W!LiveUnique, W!RowKey, W!RowsFit, W!HandsFit, W!SaveShows,
         W!Accounted, W!LiveIds, W!Tracked, W!InHand,
              W!RowTellsMessage, W!CapOvershoot, W!Admitted
<1>5. QED
  BY <1>1, <1>2, <1>3, <1>4 DEF W!Next

\* The invariant holds in every state of every run of the watcher.
THEOREM WatchInvariance == Bounds => (W!Spec => []W!Inv)
<1> SUFFICES ASSUME Bounds PROVE W!Spec => []W!Inv
  OBVIOUS
<1>1. W!Init => W!Inv
  BY InitWatch
<1>2. W!Inv /\ [W!Next]_(W!vars) => W!Inv'
  BY WatchInvStep
<1>3. QED
  BY <1>1, <1>2, PTL DEF W!Spec

\* Two messages of one system in a channel would have one row.
LEMMA OneEach == W!Inv => W!OneMessagePerSystem
<1> SUFFICES ASSUME W!Inv, NEW m \in wlive, NEW n \in wlive, {m.id, n.id} \cap (W!InHand \cup lost) = {}, m.ch = n.ch, m.slug = n.slug
             PROVE  m = n
  BY DEF W!OneMessagePerSystem
<1>1. PICK p \in wrows, q \in wrows : p.id = m.id /\ q.id = n.id
  BY DEF W!Inv, W!Accounted, W!LiveIds, W!Tracked
<1>2. p = q
  BY <1>1 DEF W!Inv, W!RowsFit, W!RowKey
<1>3. QED
  BY <1>1, <1>2 DEF W!Inv, W!LiveUnique

\* The same where the watcher runs beside the other parts of the bots.
LEMMA BesideOthers == Bounds => (MCSpec => [](part = "watch" => W!Inv))
<1> SUFFICES ASSUME Bounds PROVE MCSpec => [](part = "watch" => W!Inv)
  OBVIOUS
<1>1. MCInit => W!Inv
  BY InitWatch DEF MCInit
<1>2. (part = "watch" => W!Inv) /\ [MCNext]_<<part, vars, watchVars, alertVars, outageVars>> => (part = "watch" => W!Inv)'
  <2> SUFFICES ASSUME part = "watch" => W!Inv, [MCNext]_<<part, vars, watchVars, alertVars, outageVars>>, part' = "watch"
               PROVE  W!Inv'
    OBVIOUS
  <2>1. part = "watch"
    BY DEF MCNext
  <2>2. CASE UNCHANGED watchVars
    BY <2>1, <2>2, WatchInvStep DEF watchVars, W!vars
  <2>3. CASE W!Next
    BY <2>1, <2>3, WatchInvStep
  <2>4. QED
    BY <2>1, <2>2, <2>3 DEF MCNext
<1>3. QED
  BY <1>1, <1>2, PTL DEF MCSpec

\* Two commands for one system, the loop, restarts and lost answers forget no
\* message but in the ways the history records, and a row tells what its
\* message shows (handler.go:265, loop.go:135).
THEOREM NoMessageForgotten == Bounds => (W!Spec => []W!WatchesTell)
<1> SUFFICES ASSUME Bounds PROVE W!Spec => []W!WatchesTell
  OBVIOUS
<1>1. W!Inv => W!WatchesTell
  BY DEF W!Inv, W!WatchesTell
<1>2. QED
  BY <1>1, WatchInvariance, PTL

\* One message for each system of a channel, and no more of them past the cap
\* than there are goroutines and failed counts (handler.go:163).
THEOREM FewMessages == Bounds => (W!Spec => []W!WatchesFew)
<1> SUFFICES ASSUME Bounds PROVE W!Spec => []W!WatchesFew
  OBVIOUS
<1>1. W!Inv => W!WatchesFew
  BY OneEach DEF W!Inv, W!WatchesFew
<1>2. QED
  BY <1>1, WatchInvariance, PTL

\* Both hold of the watcher beside the other parts (handler.go:163, :265,
\* loop.go:135).
THEOREM WatchesAlwaysHold == Bounds => (MCSpec => []WatchesHold)
<1> SUFFICES ASSUME Bounds PROVE MCSpec => []WatchesHold
  OBVIOUS
<1>1. (part = "watch" => W!Inv) => WatchesHold
  BY OneEach DEF W!Inv, W!WatchesTell, W!WatchesFew, WatchesHold
<1>2. QED
  BY <1>1, BesideOthers, PTL

-----------------------------------------------------------------------------
(* OpsOutages                                                              *)

Within(q) == {q[i] : i \in DOMAIN q}
\* The events that are still to come to the feature, the earliest first.
Coming == Within(bridge) \cup carry \cup Within(bus)
Notice == [key : Outages!Key, started : Nat, resolved : BOOLEAN]
Outage == [started : Nat, last : Nat, resolved : BOOLEAN]
OutageTypes ==
    /\ sent \in 0 .. MaxEvents /\ bus \in Seq(Outages!Event) /\ bridge \in Seq(Outages!Event) /\ out \in Seq(Notice)
    /\ carry \subseteq Outages!Event /\ (\A e, f \in carry : e = f) /\ board \subseteq Notice /\ (\A i, j \in board : i = j)
    /\ outages \in [Outages!Key -> SUBSET Outage] /\ (\A k \in Outages!Key : \A o, p \in outages[k] : o = p)
    /\ flushes \subseteq Outages!Key /\ truth \in [Outages!Key -> SUBSET Nat]
    /\ Len(bus) =< BusRoom /\ Len(bridge) =< BridgeRoom /\ Len(out) =< OutRoom

Rising(q) == \A i, j \in DOMAIN q : i < j => q[i].at < q[j].at
InTurn == /\ Rising(bridge) /\ Rising(bus) /\ \A e \in Coming : e.at =< sent
          /\ \A e \in Within(bridge) : \A f \in carry \cup Within(bus) : e.at < f.at
          /\ \A e \in carry : \A f \in Within(bus) : e.at < f.at

\* What the events c will make of an outage that is open since one of open:
\* the recoveries and failures among them, and what they end in.
Recoveries(c, b) == {e \in c : e.binding = b /\ e.reason = Outages!Recovered}
Failures(c, k) == {e \in c : <<e.binding, e.reason>> = k}
Ends(c, k, e) == \E r \in Recoveries(c, k[1]) : e.at < r.at
Begins(c, k, e) == /\ e \in Failures(c, k) /\ ~Ends(c, k, e)
                   /\ \A f \in Failures(c, k) : f.at < e.at => \E r \in Recoveries(c, k[1]) : f.at < r.at
Over(c, k, open) == open = {} \/ Recoveries(c, k[1]) # {}
Tells(c, k, open, true) ==
    /\ \A t \in true : \/ t \in open /\ Recoveries(c, k[1]) = {}
                       \/ Over(c, k, open) /\ \E e \in c : Begins(c, k, e) /\ e.at = t
    /\ true = {} => Over(c, k, open) /\ \A e \in Failures(c, k) : Ends(c, k, e)
    /\ \A t, u \in true : t = u

OpenSince(k) == {o.started : o \in {p \in outages[k] : ~p.resolved}}
Told == ~missed => \A k \in Outages!Key :
           IF k[1] \in Watched THEN Tells(Coming, k, OpenSince(k), truth[k]) ELSE outages[k] = {} /\ truth[k] = {}
Flushed == \A k \in Outages!Key : \A o \in outages[k] : o.resolved => k \in flushes

\* The last that the board shows once all is delivered.
Shown == IF out = <<>> THEN board ELSE {out[Len(out)]}
Backed == (out # <<>> \/ ~unapplied) => \A i \in Shown : ~i.resolved => \E o \in outages[i.key] : o.started = i.started

OutageInv == OutageTypes /\ InTurn /\ Told /\ Flushed /\ Backed

LEMMA WithinItsSet == ASSUME NEW S, NEW q \in Seq(S) PROVE Within(q) \subseteq S
BY DEF Within

LEMMA WithinAppend ==
    ASSUME NEW S, NEW q \in Seq(S), NEW x \in S
    PROVE  /\ Append(q, x) \in Seq(S) /\ Len(Append(q, x)) = Len(q) + 1 /\ Append(q, x) # <<>>
           /\ Append(q, x)[Len(Append(q, x))] = x /\ Within(Append(q, x)) = Within(q) \cup {x}
           /\ Rising(q) /\ (\A e \in Within(q) : e.at < x.at) => Rising(Append(q, x))
<1>1. /\ Append(q, x) \in Seq(S) /\ Append(q, x) # <<>> /\ Len(q) \in Nat /\ Len(Append(q, x)) = Len(q) + 1
      /\ DOMAIN q = 1 .. Len(q) /\ DOMAIN Append(q, x) = 1 .. Len(q) + 1
      /\ (\A i \in 1 .. Len(q) : Append(q, x)[i] = q[i]) /\ Append(q, x)[Len(q) + 1] = x
  BY AppendProperties
<1>2. Within(Append(q, x)) = Within(q) \cup {x}
  <2>1. \A i \in DOMAIN Append(q, x) : i \in DOMAIN q \/ i = Len(q) + 1
    BY <1>1
  <2>2. (\A i \in DOMAIN q : i \in DOMAIN Append(q, x)) /\ Len(q) + 1 \in DOMAIN Append(q, x)
    BY <1>1
  <2>3. QED
    BY <1>1, <2>1, <2>2 DEF Within
<1>3. ASSUME Rising(q), \A e \in Within(q) : e.at < x.at PROVE Rising(Append(q, x))
  <2> SUFFICES ASSUME NEW i \in DOMAIN Append(q, x), NEW j \in DOMAIN Append(q, x), i < j
               PROVE  Append(q, x)[i].at < Append(q, x)[j].at
    BY DEF Rising
  <2>1. i \in DOMAIN q /\ Append(q, x)[i] = q[i] /\ q[i] \in Within(q)
    BY <1>1 DEF Within
  <2>2. CASE j \in DOMAIN q
    BY <1>1, <1>3, <2>1, <2>2 DEF Rising
  <2>3. CASE j = Len(q) + 1
    BY <1>1, <1>3, <2>1, <2>3
  <2>4. QED
    BY <1>1, <2>2, <2>3
<1>4. QED
  BY <1>1, <1>2, <1>3

LEMMA WithinTail ==
    ASSUME NEW S, NEW q \in Seq(S), q # <<>>
    PROVE  /\ Head(q) \in S /\ Tail(q) \in Seq(S) /\ Len(Tail(q)) = Len(q) - 1 /\ Within(q) = Within(Tail(q)) \cup {Head(q)}
           /\ Rising(q) => Rising(Tail(q)) /\ \A e \in Within(Tail(q)) : Head(q).at < e.at
           /\ IF Tail(q) = <<>> THEN Head(q) = q[Len(q)] ELSE Tail(q)[Len(Tail(q))] = q[Len(q)]
<1>1. /\ Head(q) \in S /\ Tail(q) \in Seq(S) /\ Len(Tail(q)) = Len(q) - 1 /\ Len(q) \in Nat \ {0}
      /\ \A i \in 1 .. Len(q) - 1 : Tail(q)[i] = q[i + 1]
      /\ DOMAIN q = 1 .. Len(q) /\ DOMAIN Tail(q) = 1 .. Len(q) - 1 /\ Head(q) = q[1]
  BY HeadTailProperties, EmptySeq
<1>2. \A i \in DOMAIN q : i = 1 \/ (i - 1 \in DOMAIN Tail(q) /\ Tail(q)[i - 1] = q[i])
  BY <1>1
<1>3. \A i \in DOMAIN Tail(q) : i + 1 \in DOMAIN q /\ i + 1 # 1 /\ Tail(q)[i] = q[i + 1]
  BY <1>1
<1>4. Within(q) = Within(Tail(q)) \cup {Head(q)}
  <2>1. 1 \in DOMAIN q
    BY <1>1
  <2>2. QED
    BY <1>1, <1>2, <1>3, <2>1 DEF Within
<1>5. ASSUME Rising(q) PROVE Rising(Tail(q)) /\ \A e \in Within(Tail(q)) : Head(q).at < e.at
  <2>1. Rising(Tail(q))
    <3> SUFFICES ASSUME NEW i \in DOMAIN Tail(q), NEW j \in DOMAIN Tail(q), i < j PROVE Tail(q)[i].at < Tail(q)[j].at
      BY DEF Rising
    <3>1. i + 1 < j + 1
      BY <1>1
    <3>2. QED
      BY <1>3, <1>5, <3>1 DEF Rising
  <2>2. ASSUME NEW e \in Within(Tail(q)) PROVE Head(q).at < e.at
    <3>1. PICK i \in DOMAIN Tail(q) : e = Tail(q)[i]
      BY <2>2 DEF Within
    <3>2. 1 \in DOMAIN q /\ i + 1 \in DOMAIN q /\ 1 < i + 1
      BY <1>1
    <3>3. QED
      BY <1>1, <1>3, <1>5, <3>1, <3>2 DEF Rising
  <2>3. QED
    BY <2>1, <2>2
<1>6. IF Tail(q) = <<>> THEN Head(q) = q[Len(q)] ELSE Tail(q)[Len(Tail(q))] = q[Len(q)]
  <2>1. CASE Tail(q) = <<>>
    <3> DEFINE t == Tail(q)
    <3>1. t \in Seq(S) /\ t = <<>> /\ Len(t) = Len(q) - 1 /\ Len(q) \in Nat
      BY <1>1, <2>1
    <3> HIDE DEF t
    <3>2. Len(t) = 0
      BY <3>1, EmptySeq
    <3>3. Len(q) = 1
      BY <3>1, <3>2
    <3>4. QED
      BY <1>1, <2>1, <3>3
  <2>2. CASE Tail(q) # <<>>
    <3>1. Len(q) - 1 \in 1 .. Len(q) - 1
      BY <1>1, <2>2, EmptySeq
    <3>2. QED
      BY <1>1, <2>2, <3>1
  <2>3. QED
    BY <2>1, <2>2
<1>7. QED
  BY <1>1, <1>4, <1>5, <1>6

\* One more event, the latest.
LEMMA TellsMore ==
    ASSUME NEW c, c \subseteq Outages!Event, NEW k \in Outages!Key, NEW open, NEW true, Tells(c, k, open, true),
           NEW new \in Outages!Event, \A e \in c : e.at < new.at
    PROVE  Tells(c \cup {new}, k, open,
                 IF new.reason = Outages!Recovered THEN IF k[1] = new.binding THEN {} ELSE true
                 ELSE IF true # {} \/ <<new.binding, new.reason>> # k THEN true ELSE {new.at})
<1> DEFINE d == c \cup {new}
<1>1. /\ \A e \in d : e \in Outages!Event /\ e.at \in Nat
      /\ new.at \in Nat /\ k = <<k[1], k[2]>>
  BY DEF Outages!Event, Outages!Key
<1>2. CASE new.reason = Outages!Recovered /\ k[1] = new.binding
  <2>1. new \in Recoveries(d, k[1])
    BY <1>2 DEF Recoveries
  <2>2. \A e \in Failures(d, k) : e # new
    BY <1>1, <1>2, OutageAssumption DEF Failures, Outages!Key, Outages!Recovered
  <2>3. \A e \in Failures(d, k) : Ends(d, k, e)
    BY <2>1, <2>2 DEF Failures, Ends
  <2>4. QED
    BY <1>2, <2>1, <2>3 DEF Tells, Over
<1>3. CASE /\ ~(new.reason = Outages!Recovered /\ k[1] = new.binding)
           /\ <<new.binding, new.reason>> # k
  <2>1. Recoveries(d, k[1]) = Recoveries(c, k[1]) /\ Failures(d, k) = Failures(c, k)
    BY <1>3 DEF Recoveries, Failures
  <2>2. QED
    BY <1>3, <2>1 DEF Tells, Over, Ends, Begins
<1>4. CASE new.reason # Outages!Recovered /\ <<new.binding, new.reason>> = k
  <2>1. Recoveries(d, k[1]) = Recoveries(c, k[1]) /\ Failures(d, k) = Failures(c, k) \cup {new}
    BY <1>4 DEF Recoveries, Failures
  <2>2. \A e : Ends(d, k, e) <=> Ends(c, k, e)
    BY <2>1 DEF Ends
  <2>3. CASE true # {}
    <3>1. \A e : Begins(c, k, e) => Begins(d, k, e)
      <4> SUFFICES ASSUME NEW e, Begins(c, k, e) PROVE Begins(d, k, e)
        OBVIOUS
      <4>1. e \in c /\ e.at < new.at /\ ~(new.at < e.at)
        BY <1>1 DEF Begins, Failures
      <4>2. QED
        BY <2>1, <2>2, <4>1 DEF Begins
    <3>2. QED
      BY <1>4, <2>1, <2>3, <3>1 DEF Tells, Over
  <2>4. CASE true = {}
    <3>1. Over(d, k, open) /\ \A e \in Failures(c, k) : Ends(c, k, e)
      BY <2>1, <2>4 DEF Tells, Over
    <3>2. \A r \in Recoveries(c, k[1]) : ~(new.at < r.at)
      BY <1>1 DEF Recoveries
    <3>3. ~Ends(d, k, new)
      BY <2>1, <3>2 DEF Ends
    <3>4. \A f \in Failures(d, k) : f.at < new.at => f \in Failures(c, k)
      <4>1. ~(new.at < new.at)
        BY <1>1
      <4>2. QED
        BY <2>1, <4>1
    <3>5. Begins(d, k, new)
      BY <2>1, <3>1, <3>3, <3>4 DEF Begins, Ends
    <3>6. QED
      BY <1>4, <2>4, <3>1, <3>5 DEF Tells
  <2>5. QED
    BY <2>3, <2>4
<1>5. QED
  BY <1>2, <1>3, <1>4

\* One event less, the earliest, and what the feature makes of it.
LEMMA TellsLess ==
    ASSUME NEW c, c \subseteq Outages!Event, NEW k \in Outages!Key, NEW open, NEW true, Tells(c, k, open, true),
           NEW e \in c, NEW d, c = d \cup {e}, \A f \in d : e.at < f.at
    PROVE  Tells(d, k,
                 IF e.reason = Outages!Recovered THEN IF k[1] = e.binding THEN {} ELSE open
                 ELSE IF open # {} \/ <<e.binding, e.reason>> # k THEN open ELSE {e.at}, true)
<1>1. /\ \A f \in c : f.at \in Nat
      /\ e \notin d /\ k = <<k[1], k[2]>> /\ \A f \in d : ~(f.at < e.at) /\ f.at # e.at
  BY DEF Outages!Event, Outages!Key
<1>2. CASE e.reason = Outages!Recovered /\ k[1] = e.binding
  <2>1. Recoveries(c, k[1]) = Recoveries(d, k[1]) \cup {e} /\ Failures(c, k) = Failures(d, k)
    BY <1>2, <1>1, OutageAssumption DEF Recoveries, Failures, Outages!Key, Outages!Recovered
  <2>2. \A f \in Failures(d, k) : \A r \in Recoveries(c, k[1]) : f.at < r.at => r \in Recoveries(d, k[1])
    BY <1>1, <2>1 DEF Failures
  <2>3. \A f \in Failures(d, k) : Ends(c, k, f) <=> Ends(d, k, f)
    BY <2>1, <2>2 DEF Ends
  <2>4. \A f : Begins(c, k, f) => Begins(d, k, f) /\ f \in d
    BY <2>1, <2>2, <2>3 DEF Begins, Failures
  <2>5. QED
    BY <1>2, <2>1, <2>3, <2>4 DEF Tells, Over
<1>3. CASE /\ ~(e.reason = Outages!Recovered /\ k[1] = e.binding)
           /\ <<e.binding, e.reason>> # k
  <2>1. Recoveries(d, k[1]) = Recoveries(c, k[1]) /\ Failures(d, k) = Failures(c, k)
    BY <1>3 DEF Recoveries, Failures
  <2>2. \A f : Begins(c, k, f) => Begins(d, k, f) /\ f \in d
    BY <2>1 DEF Begins, Failures, Ends
  <2>3. QED
    BY <1>3, <2>1, <2>2 DEF Tells, Over, Ends
<1>4. CASE e.reason # Outages!Recovered /\ <<e.binding, e.reason>> = k
  <2>1. Recoveries(d, k[1]) = Recoveries(c, k[1]) /\ Failures(c, k) = Failures(d, k) \cup {e}
    BY <1>4 DEF Recoveries, Failures
  <2>2. \A f : Ends(d, k, f) <=> Ends(c, k, f)
    BY <2>1 DEF Ends
  <2>3. Recoveries(d, k[1]) # {} => Ends(c, k, e)
    BY <2>1 DEF Ends, Recoveries
  <2>4. \A f : Begins(c, k, f) /\ f # e => Begins(d, k, f) /\ f \in d /\ Recoveries(d, k[1]) # {}
    <3> SUFFICES ASSUME NEW f, Begins(c, k, f), f # e PROVE Begins(d, k, f) /\ f \in d /\ Recoveries(d, k[1]) # {}
      OBVIOUS
    <3>1. f \in Failures(d, k) /\ f \in d /\ e.at < f.at
      BY <2>1 DEF Begins, Failures
    <3>2. QED
      BY <2>1, <2>2, <3>1 DEF Begins
  <2>5. Begins(c, k, e) => Recoveries(d, k[1]) = {}
    BY <2>3 DEF Begins
  <2>6. true = {} => Recoveries(d, k[1]) # {}
    BY <2>1 DEF Tells, Ends
  <2>7. CASE open # {}
    BY <1>4, <2>1, <2>2, <2>4, <2>5, <2>6, <2>7 DEF Tells, Over
  <2>8. CASE open = {}
    <3>1. \A t \in true : \/ t = e.at /\ Recoveries(d, k[1]) = {}
                          \/ Recoveries(d, k[1]) # {} /\ \E f \in d : Begins(d, k, f) /\ f.at = t
      BY <2>4, <2>5, <2>8 DEF Tells
    <3>2. true = {} => Recoveries(d, k[1]) # {} /\ \A f \in Failures(d, k) : Ends(d, k, f)
      BY <2>1, <2>2, <2>6 DEF Tells
    <3>3. \A t, u \in true : t = u
      BY DEF Tells
    <3>4. QED
      BY <1>4, <2>8, <3>1, <3>2, <3>3 DEF Tells, Over
  <2>9. QED
    BY <2>7, <2>8
<1>5. QED
  BY <1>2, <1>3, <1>4

LEMMA InitOutages == ASSUME Outages!Init PROVE OutageInv
<1> USE DEF Outages!Init
<1>1. OutageTypes
  BY OutageAssumption, EmptySeq DEF OutageTypes
<1>2. Within(bridge) = {} /\ Within(bus) = {} /\ Coming = {}
  BY DEF Within, Coming
<1>3. InTurn
  BY <1>2 DEF InTurn, Rising
<1>4. \A k \in Outages!Key : OpenSince(k) = {}
  BY DEF OpenSince
<1>5. \A k : Tells({}, k, {}, {})
  BY DEF Tells, Over, Failures
<1>6. Told
  BY <1>2, <1>4, <1>5 DEF Told
<1>7. QED
  BY <1>1, <1>3, <1>6 DEF OutageInv, Flushed, Backed, Shown

\* What does not touch the map, its flushes, the board or the snapshots leaves
\* what is said of them.
LEMMA SameMap ==
    ASSUME OutageInv, UNCHANGED <<outages, flushes, out, board, unapplied>>
    PROVE  Flushed' /\ Backed' /\ \A k \in Outages!Key : OpenSince(k)' = OpenSince(k)
BY DEF OutageInv, Flushed, Backed, Shown, OpenSince

\* The events on their way stay as they are.
LEMMA SameEvents ==
    ASSUME OutageInv, UNCHANGED <<sent, bus, carry, bridge, truth, missed>>
    PROVE  /\ InTurn' /\ Coming' = Coming
           /\ (\A k \in Outages!Key : OpenSince(k)' = OpenSince(k) /\ (outages[k] = {} => outages'[k] = {})) => Told'
<1>1. InTurn' /\ Coming' = Coming
  BY DEF OutageInv, InTurn, Coming
<1>2. QED
  BY <1>1 DEF OutageInv, Told

\* A function changed at one place.
LEMMA OneChanged ==
    ASSUME NEW S, NEW T, NEW f \in [S -> T], NEW x, NEW y \in T, NEW g, g = [f EXCEPT ![x] = y]
    PROVE  g \in [S -> T]
OBVIOUS

LEMMA PublishStep ==
    ASSUME OutageInv, NEW b \in Binding, NEW r \in Reason \cup {Outages!Recovered}, Outages!Publish(b, r)
    PROVE  OutageInv'
<1> DEFINE new == [binding |-> b, reason |-> r, at |-> sent']
<1>1. /\ OutageTypes /\ sent < MaxEvents /\ sent' = sent + 1 /\ sent' \in 0 .. MaxEvents /\ sent' \in 1 .. MaxEvents
      /\ new \in Outages!Event /\ UNCHANGED <<carry, bridge, outages, flushes, out, board, unapplied, restarts>>
  BY OutageAssumption DEF OutageInv, OutageTypes, Outages!Publish, Outages!Event
<1>2. Flushed' /\ Backed' /\ \A k \in Outages!Key : OpenSince(k)' = OpenSince(k)
  BY <1>1, SameMap
<1>3. truth' \in [Outages!Key -> SUBSET Nat]
  <2>1. sent' \in Nat
    BY <1>1
  <2>2. CASE truth' = truth
    BY <1>1, <2>2 DEF OutageTypes
  <2>3. CASE truth' = [k \in Outages!Key |-> IF k[1] = b THEN {} ELSE truth[k]]
    BY <1>1, <2>3 DEF OutageTypes
  <2>4. CASE truth' = [truth EXCEPT ![<<b, r>>] = {sent'}]
    <3>1. truth \in [Outages!Key -> SUBSET Nat]
      BY <1>1 DEF OutageTypes
    <3>2. {sent'} \in SUBSET Nat
      BY <2>1
    <3>3. QED
      BY <3>1, <3>2, <2>4, OneChanged
  <2>5. QED
    BY <2>2, <2>3, <2>4 DEF Outages!Publish
<1>4. \A e \in Coming : e.at =< sent /\ e \in Outages!Event /\ e.at \in Nat
  <2>1. Coming \subseteq Outages!Event
    BY <1>1, WithinItsSet DEF Coming, OutageTypes
  <2>2. QED
    BY <2>1 DEF OutageInv, InTurn, Outages!Event
<1>5. \A e \in Coming : e.at < new.at /\ e.at =< sent'
  BY <1>1, <1>4 DEF OutageTypes
<1>6. CASE Len(bus) < BusRoom
  <2>1. bus' = Append(bus, new) /\ missed' = missed
    BY <1>6 DEF Outages!Publish
  <2>2. /\ bus' \in Seq(Outages!Event) /\ Len(bus') = Len(bus) + 1 /\ Within(bus') = Within(bus) \cup {new}
        /\ Rising(bus')
    BY <1>1, <1>5, <2>1, WithinAppend DEF OutageInv, InTurn, OutageTypes, Coming
  <2>3. OutageTypes'
    <3>1. Len(bus') =< BusRoom
      BY <1>1, <1>6, <2>2, OutageAssumption DEF OutageTypes
    <3>2. QED
      BY <1>1, <1>3, <2>2, <3>1 DEF OutageTypes
  <2>4. Coming' = Coming \cup {new}
    BY <1>1, <2>2 DEF Coming
  <2>5. InTurn'
    <3>1. \A e \in Coming' : e.at =< sent'
      BY <1>1, <1>5, <2>4
    <3>2. QED
      BY <1>1, <1>5, <2>2, <3>1 DEF OutageInv, InTurn, Coming
  <2>6. Told'
    <3> SUFFICES ASSUME ~missed, NEW k \in Outages!Key
                 PROVE  IF k[1] \in Watched THEN Tells(Coming', k, OpenSince(k)', truth'[k])
                        ELSE outages'[k] = {} /\ truth'[k] = {}
      BY <2>1 DEF Told
    <3>1. k = <<k[1], k[2]>> /\ (k = <<b, r>> => r \in Reason) /\ k[2] \in Reason
      BY DEF Outages!Key
    <3>2. r = Outages!Recovered => r \notin Reason
      BY OutageAssumption DEF Outages!Recovered
    <3>3. ASSUME k[1] \in Watched
          PROVE  truth'[k] = IF new.reason = Outages!Recovered THEN IF k[1] = new.binding THEN {} ELSE truth[k]
                             ELSE IF truth[k] # {} \/ <<new.binding, new.reason>> # k THEN truth[k] ELSE {new.at}
      <4>1. CASE r = Outages!Recovered
        BY <4>1 DEF Outages!Publish
      <4>2. CASE r # Outages!Recovered /\ <<b, r>> # k
        BY <1>1, <4>2 DEF Outages!Publish, OutageTypes
      <4>3. CASE r # Outages!Recovered /\ <<b, r>> = k
        BY <1>1, <3>1, <3>3, <4>3 DEF Outages!Publish, OutageTypes
      <4>4. QED
        BY <4>1, <4>2, <4>3
    <3>4. CASE k[1] \in Watched
      <4>1. Tells(Coming, k, OpenSince(k), truth[k])
        BY <3>4 DEF OutageInv, Told
      <4>2. Coming \subseteq Outages!Event
        BY <1>4
      <4>3. \A e \in Coming : e.at < new.at
        BY <1>5
      <4> HIDE DEF new
      <4>4. Tells(Coming \cup {new}, k, OpenSince(k),
                 IF new.reason = Outages!Recovered THEN IF k[1] = new.binding THEN {} ELSE truth[k]
                 ELSE IF truth[k] # {} \/ <<new.binding, new.reason>> # k THEN truth[k] ELSE {new.at})
        BY <1>1, <4>1, <4>2, <4>3, TellsMore
      <4>5. QED
        BY <1>2, <2>4, <3>3, <3>4, <4>4
    <3>5. CASE k[1] \notin Watched
      <4>1. outages[k] = {} /\ truth[k] = {}
        BY <3>5 DEF OutageInv, Told
      <4>2. truth'[k] = {}
        <5>1. CASE r = Outages!Recovered
          BY <4>1, <5>1 DEF Outages!Publish
        <5>2. CASE r # Outages!Recovered /\ <<b, r>> # k
          BY <1>1, <4>1, <5>2 DEF Outages!Publish, OutageTypes
        <5>3. CASE r # Outages!Recovered /\ <<b, r>> = k
          BY <1>1, <3>1, <3>5, <4>1, <5>3 DEF Outages!Publish, OutageTypes
        <5>4. QED
          BY <5>1, <5>2, <5>3
      <4>3. QED
        BY <1>1, <3>5, <4>1, <4>2
    <3>6. QED
      BY <3>4, <3>5
  <2>7. QED
    BY <1>2, <2>3, <2>5, <2>6 DEF OutageInv
<1>7. CASE ~(Len(bus) < BusRoom)
  <2>1. bus' = bus /\ missed' = TRUE
    BY <1>7 DEF Outages!Publish
  <2>2. OutageTypes'
    BY <1>1, <1>3, <2>1 DEF OutageTypes
  <2>3. InTurn'
    BY <1>1, <1>5, <2>1 DEF OutageInv, InTurn, Coming
  <2>4. QED
    BY <1>2, <2>1, <2>2, <2>3 DEF OutageInv, Told
<1>8. QED
  BY <1>6, <1>7

LEMMA CarryStep == ASSUME OutageInv, Outages!Carry PROVE OutageInv'
<1>1. /\ OutageTypes /\ carry = {} /\ bus # <<>> /\ carry' = {Head(bus)} /\ bus' = Tail(bus)
      /\ UNCHANGED <<sent, bridge, outages, flushes, out, board, missed, unapplied, restarts, truth>>
  BY DEF OutageInv, Outages!Carry
<1>2. /\ Head(bus) \in Outages!Event /\ bus' \in Seq(Outages!Event) /\ Len(bus') = Len(bus) - 1
      /\ Within(bus) = Within(bus') \cup {Head(bus)} /\ Rising(bus') /\ \A e \in Within(bus') : Head(bus).at < e.at
  BY <1>1, WithinTail DEF OutageInv, OutageTypes, InTurn
<1>3. OutageTypes'
  <2>1. Len(bus') =< BusRoom
    BY <1>1, <1>2, OutageAssumption DEF OutageTypes
  <2>2. QED
    BY <1>1, <1>2, <2>1 DEF OutageTypes
<1>4. Coming' = Coming
  BY <1>1, <1>2 DEF Coming
<1>5. InTurn'
  BY <1>1, <1>2, <1>4 DEF OutageInv, InTurn
<1>6. Flushed' /\ Backed' /\ \A k \in Outages!Key : OpenSince(k)' = OpenSince(k)
  BY <1>1, SameMap
<1>7. Told'
  BY <1>1, <1>4, <1>6 DEF OutageInv, Told
<1>8. QED
  BY <1>3, <1>5, <1>6, <1>7 DEF OutageInv

LEMMA BridgeStep == ASSUME OutageInv, Outages!Bridge PROVE OutageInv'
<1>1. PICK e \in carry : bridge' = Append(bridge, e)
  BY DEF Outages!Bridge
<1>2. /\ OutageTypes /\ Len(bridge) < BridgeRoom /\ carry = {e} /\ carry' = {} /\ e \in Outages!Event
      /\ UNCHANGED <<sent, bus, outages, flushes, out, board, missed, unapplied, restarts, truth>>
  BY <1>1 DEF OutageInv, OutageTypes, Outages!Bridge
<1>3. \A f \in Within(bridge) : f.at < e.at
  BY <1>1 DEF OutageInv, InTurn
<1>4. /\ bridge' \in Seq(Outages!Event) /\ Len(bridge') = Len(bridge) + 1
      /\ Within(bridge') = Within(bridge) \cup {e} /\ Rising(bridge')
  BY <1>1, <1>2, <1>3, WithinAppend DEF OutageInv, OutageTypes, InTurn
<1>5. OutageTypes'
  <2>1. Len(bridge') =< BridgeRoom
    BY <1>2, <1>4, OutageAssumption DEF OutageTypes
  <2>2. QED
    BY <1>2, <1>4, <2>1 DEF OutageTypes
<1>6. Coming' = Coming
  BY <1>2, <1>4 DEF Coming
<1>7. InTurn'
  BY <1>2, <1>4, <1>6 DEF OutageInv, InTurn
<1>8. Flushed' /\ Backed' /\ \A k \in Outages!Key : OpenSince(k)' = OpenSince(k)
  BY <1>2, SameMap
<1>9. Told'
  BY <1>2, <1>6, <1>8 DEF OutageInv, Told
<1>10. QED
  BY <1>5, <1>7, <1>8, <1>9 DEF OutageInv

LEMMA ComingFits == ASSUME OutageTypes PROVE Coming \subseteq Outages!Event
BY WithinItsSet DEF Coming, OutageTypes

LEMMA ShownFits == ASSUME OutageTypes PROVE \A i \in Shown : i \in Notice /\ i.key \in Outages!Key
<1>1. out # <<>> => out[Len(out)] \in Notice
  <2>1. out # <<>> => Len(out) \in 1 .. Len(out)
    BY EmptySeq DEF OutageTypes
  <2>2. QED
    BY <2>1 DEF OutageTypes
<1>2. QED
  BY <1>1 DEF Shown, Notice, OutageTypes

\* An outage that is resolved.
LEMMA Resolves ==
    ASSUME NEW S, S \subseteq Outage, \A o, p \in S : o = p, NEW T, T = {[o EXCEPT !.resolved = TRUE] : o \in S}
    PROVE  /\ T \subseteq Outage /\ (\A o, p \in T : o = p) /\ \A o \in T : o.resolved
           /\ \A o \in S : \E p \in T : p.started = o.started
<1>1. CASE S = {}
  BY <1>1
<1>2. ASSUME NEW o \in S PROVE \E p \in Outage : p.started = o.started /\ p.resolved /\ T = {p}
  <2>1. S = {o} /\ o \in Outage
    BY <1>2
  <2> DEFINE p == [o EXCEPT !.resolved = TRUE]
  <2>2. p \in Outage /\ p.started = o.started /\ p.resolved
    BY <2>1 DEF Outage
  <2>3. T = {p}
    BY <2>1
  <2>4. QED
    BY <2>2, <2>3
<1>3. QED
  BY <1>1, <1>2

LEMMA HandleStep == ASSUME OutageInv, Outages!Handle PROVE OutageInv'
<1> DEFINE e == Head(bridge)
           k0 == <<e.binding, e.reason>>
           open == {j \in Outages!Key : j[1] = e.binding /\ \E o \in outages[j] : ~o.resolved}
<1>1. /\ OutageTypes /\ flushes = {} /\ bridge # <<>> /\ bridge' = Tail(bridge)
      /\ UNCHANGED <<sent, bus, carry, out, board, missed, unapplied, restarts, truth>>
  BY DEF OutageInv, Outages!Handle
<1>2. /\ e \in Outages!Event /\ bridge' \in Seq(Outages!Event) /\ Len(bridge') = Len(bridge) - 1
      /\ Within(bridge) = Within(bridge') \cup {e} /\ Rising(bridge') /\ \A f \in Within(bridge') : e.at < f.at
  BY <1>1, WithinTail DEF OutageInv, OutageTypes, InTurn
<1>3. /\ Len(bridge') =< BridgeRoom /\ Coming = Coming' \cup {e} /\ e \in Coming
      /\ \A f \in Coming' : e.at < f.at
  <2>1. e \in Within(bridge) /\ \A f \in carry \cup Within(bus) : e.at < f.at
    BY <1>2 DEF OutageInv, InTurn
  <2>2. QED
    BY <1>1, <1>2, <2>1, OutageAssumption DEF Coming, OutageTypes
<1>4. InTurn'
  <2>1. \A f \in Coming' : f.at =< sent'
    BY <1>1, <1>3 DEF OutageInv, InTurn
  <2>2. QED
    BY <1>1, <1>2, <2>1 DEF OutageInv, InTurn
<1>5. \A k \in Outages!Key : /\ outages[k] \subseteq Outage /\ (\A o, p \in outages[k] : o = p)
                             /\ \A o \in outages[k] : ~o.resolved
  BY <1>1 DEF OutageInv, Flushed, OutageTypes, Outage
<1> HIDE DEF e
<1>6. CASE e.binding \notin Watched
  <2>1. UNCHANGED <<outages, flushes>>
    BY <1>6 DEF Outages!Handle, e
  <2>2. OutageTypes'
    BY <1>1, <1>2, <1>3, <2>1 DEF OutageTypes
  <2>3. Flushed' /\ Backed' /\ \A k \in Outages!Key : OpenSince(k)' = OpenSince(k)
    BY <1>1, <2>1, SameMap
  <2>4. Told'
    <3> SUFFICES ASSUME ~missed, NEW k \in Outages!Key, k[1] \in Watched
                 PROVE  Tells(Coming', k, OpenSince(k), truth[k])
      BY <1>1, <2>1, <2>3 DEF OutageInv, Told
    <3>1. Tells(Coming, k, OpenSince(k), truth[k])
      BY DEF OutageInv, Told
    <3>2. k[1] # e.binding /\ k0 # k
      BY <1>6 DEF Outages!Key
    <3>3. Recoveries(Coming', k[1]) = Recoveries(Coming, k[1]) /\ Failures(Coming', k) = Failures(Coming, k)
      BY <1>3, <3>2 DEF Recoveries, Failures
    <3>4. \A f : Begins(Coming, k, f) => Begins(Coming', k, f) /\ f \in Coming'
      BY <3>3 DEF Begins, Failures, Ends
    <3>5. QED
      BY <3>1, <3>3, <3>4 DEF Tells, Over, Ends
  <2>5. QED
    BY <1>4, <2>2, <2>3, <2>4 DEF OutageInv
<1>7. CASE e.binding \in Watched /\ e.reason = Outages!Recovered
  <2>1. /\ flushes' = open
        /\ outages' = [j \in Outages!Key |-> IF j \in open THEN {[o EXCEPT !.resolved = TRUE] : o \in outages[j]} ELSE outages[j]]
    BY <1>7 DEF Outages!Handle, e
  <2>2. \A j \in Outages!Key : j[1] # e.binding \/ outages[j] = {} => outages'[j] = outages[j]
    BY <2>1
  <2>3. ASSUME NEW j \in Outages!Key, j[1] = e.binding
        PROVE  /\ outages'[j] \subseteq Outage /\ (\A o, p \in outages'[j] : o = p) /\ \A o \in outages'[j] : o.resolved
               /\ \A o \in outages[j] : \E p \in outages'[j] : p.started = o.started
    <3>1. CASE outages[j] = {}
      BY <2>2, <3>1
    <3>2. CASE outages[j] # {}
      <4>1. j \in open
        BY <1>5, <2>3, <3>2
      <4>2. outages'[j] = {[o EXCEPT !.resolved = TRUE] : o \in outages[j]}
        BY <2>1, <4>1
      <4>3. outages[j] \subseteq Outage /\ \A o, p \in outages[j] : o = p
        BY <1>5
      <4>4. QED
        BY <4>2, <4>3, Resolves
    <3>3. QED
      BY <3>1, <3>2
  <2>4. OutageTypes'
    <3>1. \A j \in Outages!Key : outages'[j] \subseteq Outage /\ \A o, p \in outages'[j] : o = p
      BY <1>5, <2>2, <2>3
    <3>2. outages' \in [Outages!Key -> SUBSET Outage] /\ flushes' \subseteq Outages!Key
      BY <2>1, <3>1
    <3>3. QED
      BY <1>1, <1>2, <1>3, <3>1, <3>2 DEF OutageTypes
  <2>5. Flushed'
    <3> SUFFICES ASSUME NEW j \in Outages!Key, NEW o \in outages'[j], o.resolved PROVE j \in flushes'
      BY DEF Flushed
    <3>1. CASE j \in open
      BY <2>1, <3>1
    <3>2. CASE j \notin open
      BY <1>5, <2>1, <3>2
    <3>3. QED
      BY <3>1, <3>2
  <2>6. \A j \in Outages!Key : OpenSince(j)' = IF j[1] = e.binding THEN {} ELSE OpenSince(j)
    <3> SUFFICES ASSUME NEW j \in Outages!Key PROVE OpenSince(j)' = IF j[1] = e.binding THEN {} ELSE OpenSince(j)
      OBVIOUS
    <3>1. CASE j[1] = e.binding
      <4>1. \A o \in outages'[j] : o.resolved
        BY <2>3, <3>1
      <4>2. QED
        BY <3>1, <4>1 DEF OpenSince
    <3>2. CASE j[1] # e.binding
      BY <2>2, <3>2 DEF OpenSince
    <3>3. QED
      BY <3>1, <3>2
  <2>7. Backed'
    <3>1. \A j \in Outages!Key : \A o \in outages[j] : \E p \in outages'[j] : p.started = o.started
      <4> SUFFICES ASSUME NEW j \in Outages!Key, NEW o \in outages[j] PROVE \E p \in outages'[j] : p.started = o.started
        OBVIOUS
      <4>1. CASE j[1] = e.binding
        BY <2>3, <4>1
      <4>2. CASE j[1] # e.binding
        BY <2>2, <4>2
      <4>3. QED
        BY <4>1, <4>2
    <3>2. QED
      BY <1>1, <3>1, ShownFits DEF OutageInv, Backed, Shown
  <2>8. Told'
    <3> SUFFICES ASSUME ~missed, NEW k \in Outages!Key
                 PROVE  IF k[1] \in Watched THEN Tells(Coming', k, OpenSince(k)', truth[k])
                        ELSE outages'[k] = {} /\ truth[k] = {}
      BY <1>1 DEF Told
    <3>1. CASE k[1] \in Watched
      <4>1. Tells(Coming, k, OpenSince(k), truth[k]) /\ Coming \subseteq Outages!Event
        BY <1>1, <3>1, ComingFits DEF OutageInv, Told
      <4>2. Tells(Coming', k,
                 IF e.reason = Outages!Recovered THEN IF k[1] = e.binding THEN {} ELSE OpenSince(k)
                 ELSE IF OpenSince(k) # {} \/ <<e.binding, e.reason>> # k THEN OpenSince(k) ELSE {e.at}, truth[k])
        BY <1>3, <4>1, TellsLess
      <4>3. QED
        BY <1>7, <2>6, <3>1, <4>2
    <3>2. CASE k[1] \notin Watched
      BY <2>2, <3>2 DEF OutageInv, Told
    <3>3. QED
      BY <3>1, <3>2
  <2>9. QED
    BY <1>4, <2>4, <2>5, <2>7, <2>8 DEF OutageInv
<1>8. CASE e.binding \in Watched /\ e.reason # Outages!Recovered
  <2> DEFINE begun == IF outages[k0] = {} THEN {[started |-> e.at, last |-> e.at, resolved |-> FALSE]}
                      ELSE {[o EXCEPT !.last = e.at] : o \in outages[k0]}
  <2>1. /\ flushes' = {k0} /\ outages' = [outages EXCEPT ![k0] = begun]
        /\ k0 \in Outages!Key /\ e.at \in Nat
    <3>1. k0 \in Outages!Key /\ e.at \in Nat
      BY <1>2, <1>8 DEF Outages!Key, Outages!Event
    <3>2. flushes' = {k0} /\ outages' = [outages EXCEPT ![k0] = begun]
      BY <1>8 DEF Outages!Handle, e
    <3>3. QED
      BY <3>1, <3>2
  <2>2. /\ \A j \in Outages!Key : j # k0 => outages'[j] = outages[j]
        /\ outages'[k0] = begun
    BY <1>1, <2>1 DEF OutageTypes
  <2>3. outages[k0] = {} => begun = {[started |-> e.at, last |-> e.at, resolved |-> FALSE]}
    OBVIOUS
  <2>4. /\ begun \subseteq Outage /\ (\A o, p \in begun : o = p) /\ \A o \in begun : ~o.resolved
        /\ \A o \in outages[k0] : \E p \in begun : p.started = o.started
        /\ outages[k0] # {} => {o.started : o \in begun} = {o.started : o \in outages[k0]}
    <3>1. outages[k0] \subseteq Outage /\ (\A o, p \in outages[k0] : o = p) /\ \A o \in outages[k0] : ~o.resolved
      BY <1>5, <2>1
    <3>2. CASE outages[k0] = {}
      BY <2>1, <3>2 DEF Outage
    <3>3. CASE outages[k0] # {}
      <4>1. begun = {[o EXCEPT !.last = e.at] : o \in outages[k0]}
        BY <3>3
      <4> HIDE DEF begun
      <4>2. PICK o \in outages[k0] : TRUE
        BY <3>3
      <4> DEFINE p == [o EXCEPT !.last = e.at]
      <4>3. o \in Outage /\ ~o.resolved /\ outages[k0] = {o}
        BY <3>1, <4>2
      <4>4. p \in Outage /\ p.started = o.started /\ p.resolved = o.resolved
        BY <2>1, <4>3 DEF Outage
      <4>5. begun = {p}
        BY <4>1, <4>3
      <4> HIDE DEF p
      <4>6. QED
        BY <4>3, <4>4, <4>5
    <3>4. QED
      BY <3>2, <3>3
  <2> HIDE DEF begun
  <2>5. OutageTypes'
    <3>1. outages' \in [Outages!Key -> SUBSET Outage] /\ flushes' \subseteq Outages!Key
      BY <1>1, <2>1, <2>4 DEF OutageTypes
    <3>2. \A j \in Outages!Key : \A o, p \in outages'[j] : o = p
      BY <1>5, <2>2, <2>4
    <3>3. QED
      BY <1>1, <1>2, <1>3, <3>1, <3>2 DEF OutageTypes
  <2>6. Flushed'
    BY <1>5, <2>2, <2>4 DEF Flushed
  <2>7. \A j \in Outages!Key : OpenSince(j)' = IF OpenSince(j) # {} \/ k0 # j THEN OpenSince(j) ELSE {e.at}
    <3> SUFFICES ASSUME NEW j \in Outages!Key
                 PROVE  OpenSince(j)' = IF OpenSince(j) # {} \/ k0 # j THEN OpenSince(j) ELSE {e.at}
      OBVIOUS
    <3>1. CASE j # k0
      BY <2>2, <3>1 DEF OpenSince
    <3>2. CASE j = k0
      <4>1. OpenSince(j)' = {o.started : o \in begun} /\ OpenSince(j) = {o.started : o \in outages[k0]}
        BY <1>5, <2>2, <2>4, <3>2 DEF OpenSince
      <4>2. CASE outages[k0] = {}
        <5> DEFINE o == [started |-> e.at, last |-> e.at, resolved |-> FALSE]
        <5>1. begun = {o} /\ o.started = e.at
          BY <2>3, <4>2
        <5> HIDE DEF o
        <5>2. OpenSince(j)' = {e.at} /\ OpenSince(j) = {}
          BY <4>1, <4>2, <5>1
        <5>3. QED
          BY <3>2, <5>2
      <4>3. CASE outages[k0] # {}
        BY <2>4, <3>2, <4>1, <4>3
      <4>4. QED
        BY <4>2, <4>3
    <3>3. QED
      BY <3>1, <3>2
  <2>8. Backed'
    <3>1. \A j \in Outages!Key : \A o \in outages[j] : \E p \in outages'[j] : p.started = o.started
      <4> SUFFICES ASSUME NEW j \in Outages!Key, NEW o \in outages[j] PROVE \E p \in outages'[j] : p.started = o.started
        OBVIOUS
      <4>1. CASE j = k0
        BY <2>2, <2>4, <4>1
      <4>2. CASE j # k0
        BY <2>2, <4>2
      <4>3. QED
        BY <4>1, <4>2
    <3>2. QED
      BY <1>1, <3>1, ShownFits DEF OutageInv, Backed, Shown
  <2>9. Told'
    <3> SUFFICES ASSUME ~missed, NEW k \in Outages!Key
                 PROVE  IF k[1] \in Watched THEN Tells(Coming', k, OpenSince(k)', truth[k])
                        ELSE outages'[k] = {} /\ truth[k] = {}
      BY <1>1 DEF Told
    <3>1. CASE k[1] \in Watched
      <4>1. Tells(Coming, k, OpenSince(k), truth[k]) /\ Coming \subseteq Outages!Event
        BY <1>1, <3>1, ComingFits DEF OutageInv, Told
      <4>2. Tells(Coming', k,
                 IF e.reason = Outages!Recovered THEN IF k[1] = e.binding THEN {} ELSE OpenSince(k)
                 ELSE IF OpenSince(k) # {} \/ <<e.binding, e.reason>> # k THEN OpenSince(k) ELSE {e.at}, truth[k])
        BY <1>3, <4>1, TellsLess
      <4>3. QED
        BY <1>8, <2>7, <3>1, <4>2
    <3>2. CASE k[1] \notin Watched
      <4>1. k # k0
        BY <1>8, <3>2
      <4>2. QED
        BY <2>2, <3>2, <4>1 DEF OutageInv, Told
    <3>3. QED
      BY <3>1, <3>2
  <2>10. QED
    BY <1>4, <2>5, <2>6, <2>8, <2>9 DEF OutageInv
<1>9. QED
  BY <1>6, <1>7, <1>8

LEMMA FlushStep == ASSUME OutageInv, NEW k \in Outages!Key, Outages!Flush(k) PROVE OutageInv'
<1>1. PICK o \in outages[k] : out' = Append(out, [key |-> k, started |-> o.started, resolved |-> o.resolved])
  BY DEF Outages!Flush
<1> DEFINE n == [key |-> k, started |-> o.started, resolved |-> o.resolved]
<1>2. /\ OutageTypes /\ k \in flushes /\ Len(out) < OutRoom /\ flushes' = flushes \ {k} /\ o \in Outage /\ n \in Notice
      /\ \A p \in outages[k] : p = o
      /\ UNCHANGED <<sent, bus, carry, bridge, board, missed, unapplied, restarts, truth>>
  BY DEF OutageInv, OutageTypes, Outages!Flush, Outage, Notice
<1>3. outages' = IF o.resolved THEN [outages EXCEPT ![k] = {}] ELSE outages
  BY <1>2 DEF Outages!Flush, Outages!Forget
<1>4. /\ \A j \in Outages!Key : j # k => outages'[j] = outages[j]
      /\ outages'[k] = IF o.resolved THEN {} ELSE outages[k]
  BY <1>2, <1>3 DEF OutageTypes
<1>5. out' \in Seq(Notice) /\ Len(out') = Len(out) + 1 /\ out' # <<>> /\ out'[Len(out')] = n
  BY <1>1, <1>2, WithinAppend DEF OutageTypes
<1>6. OutageTypes'
  <2>1. outages' \in [Outages!Key -> SUBSET Outage]
    BY <1>2, <1>3 DEF OutageTypes
  <2>2. Len(out') =< OutRoom
    BY <1>2, <1>5, OutageAssumption DEF OutageTypes
  <2>3. \A j \in Outages!Key : \A p, q \in outages'[j] : p = q
    BY <1>2, <1>4 DEF OutageTypes
  <2>4. QED
    BY <1>2, <1>5, <2>1, <2>2, <2>3 DEF OutageTypes
<1>7. InTurn' /\ Coming' = Coming
  BY <1>2 DEF OutageInv, InTurn, Coming
<1>8. \A j \in Outages!Key : OpenSince(j)' = OpenSince(j) /\ (outages[j] = {} => outages'[j] = {})
  BY <1>2, <1>4 DEF OpenSince
<1>9. Told'
  BY <1>2, <1>7, <1>8 DEF OutageInv, Told
<1>10. Flushed'
  <2> SUFFICES ASSUME NEW j \in Outages!Key, NEW p \in outages'[j], p.resolved PROVE j \in flushes'
    BY DEF Flushed
  <2>1. j # k
    BY <1>2, <1>4
  <2>2. QED
    BY <1>2, <1>4, <2>1 DEF OutageInv, Flushed
<1>11. Backed'
  <2>1. Shown' = {n}
    BY <1>5 DEF Shown
  <2> SUFFICES ASSUME ~n.resolved PROVE \E p \in outages'[n.key] : p.started = n.started
    BY <2>1 DEF Backed
  <2>2. QED
    BY <1>2, <1>4
<1>12. QED
  BY <1>6, <1>7, <1>9, <1>10, <1>11 DEF OutageInv

LEMMA DeliverStep == ASSUME OutageInv, Outages!Deliver PROVE OutageInv'
<1>1. /\ OutageTypes /\ out # <<>> /\ out' = Tail(out)
      /\ UNCHANGED <<sent, bus, carry, bridge, outages, flushes, missed, restarts, truth>>
      /\ \/ board' = {Head(out)} /\ unapplied' = unapplied
         \/ unapplied' = TRUE /\ board' = board
  BY DEF OutageInv, Outages!Deliver
<1>2. /\ Head(out) \in Notice /\ out' \in Seq(Notice) /\ Len(out') = Len(out) - 1
      /\ IF out' = <<>> THEN Head(out) = out[Len(out)] ELSE out'[Len(out')] = out[Len(out)]
  BY <1>1, WithinTail DEF OutageTypes
<1>3. OutageTypes'
  <2>1. Len(out') =< OutRoom
    BY <1>1, <1>2, OutageAssumption DEF OutageTypes
  <2>2. QED
    BY <1>1, <1>2, <2>1 DEF OutageTypes
<1>4. InTurn' /\ Coming' = Coming
  BY <1>1 DEF OutageInv, InTurn, Coming
<1>5. \A j \in Outages!Key : OpenSince(j)' = OpenSince(j)
  BY <1>1 DEF OpenSince
<1>6. Told' /\ Flushed'
  BY <1>1, <1>4, <1>5 DEF OutageInv, Told, Flushed
<1>7. Backed'
  <2>1. Shown = {out[Len(out)]} /\ (out' # <<>> \/ ~unapplied' => Shown' = Shown)
    BY <1>1, <1>2 DEF Shown
  <2>2. QED
    BY <1>1, <2>1 DEF OutageInv, Backed
<1>8. QED
  BY <1>3, <1>4, <1>6, <1>7 DEF OutageInv

LEMMA RebuildStep == ASSUME OutageInv, Outages!Restart PROVE OutageInv'
<1>1. /\ OutageTypes /\ bus' = <<>> /\ carry' = {} /\ bridge' = <<>> /\ out' = <<>> /\ flushes' = {} /\ missed' = TRUE
      /\ outages' = [k \in Outages!Key |-> {[started |-> i.started, last |-> i.started, resolved |-> FALSE] : i \in {i \in board : i.key = k}}]
      /\ UNCHANGED <<sent, board, unapplied, truth>>
  BY DEF OutageInv, Outages!Restart
<1>2. \A i \in board : i \in Notice /\ i.started \in Nat /\ i.key \in Outages!Key
  BY <1>1 DEF OutageTypes, Notice
<1>3. \A k \in Outages!Key : \A o \in outages'[k] : o \in Outage /\ ~o.resolved /\ \E i \in board : o = [started |-> i.started, last |-> i.started, resolved |-> FALSE]
  <2> SUFFICES ASSUME NEW k \in Outages!Key, NEW o \in outages'[k]
               PROVE  /\ o \in Outage /\ ~o.resolved
                      /\ \E i \in board : o = [started |-> i.started, last |-> i.started, resolved |-> FALSE]
    OBVIOUS
  <2>1. outages'[k] = {[started |-> i.started, last |-> i.started, resolved |-> FALSE] : i \in {i \in board : i.key = k}}
    BY <1>1
  <2>2. PICK i \in board : o = [started |-> i.started, last |-> i.started, resolved |-> FALSE]
    BY <2>1
  <2>3. QED
    BY <1>2, <2>2 DEF Outage
<1>4. OutageTypes'
  <2>1. \A k \in Outages!Key : \A o, p \in outages'[k] : o = p
    <3> SUFFICES ASSUME NEW k \in Outages!Key, NEW o \in outages'[k], NEW p \in outages'[k] PROVE o = p
      OBVIOUS
    <3>1. PICK i \in board : o = [started |-> i.started, last |-> i.started, resolved |-> FALSE]
      BY <1>3
    <3>2. PICK j \in board : p = [started |-> j.started, last |-> j.started, resolved |-> FALSE]
      BY <1>3
    <3>3. QED
      BY <1>1, <3>1, <3>2 DEF OutageTypes
  <2>2. outages' \in [Outages!Key -> SUBSET Outage]
    BY <1>1, <1>3
  <2>3. QED
    BY <1>1, <2>1, <2>2, EmptySeq, OutageAssumption DEF OutageTypes
<1>5. Within(<<>>) = {} /\ Rising(<<>>)
  BY DEF Within, Rising
<1>6. InTurn'
  BY <1>1, <1>5 DEF InTurn, Coming
<1>7. Told' /\ Flushed'
  BY <1>1, <1>3 DEF Told, Flushed
<1>8. Backed'
  <2> SUFFICES ASSUME NEW i \in board PROVE \E o \in outages'[i.key] : o.started = i.started
    BY <1>1 DEF Backed, Shown
  <2> DEFINE o == [started |-> i.started, last |-> i.started, resolved |-> FALSE]
  <2>1. o \in outages'[i.key] /\ o.started = i.started
    BY <1>1, <1>2
  <2>2. QED
    BY <2>1
<1>9. QED
  BY <1>4, <1>6, <1>7, <1>8 DEF OutageInv

LEMMA OutageStep == ASSUME OutageInv, [Outages!Next]_outageVars PROVE OutageInv'
<1>1. CASE UNCHANGED outageVars
  <2>1. InTurn' /\ Coming' = Coming /\ OutageTypes'
    BY <1>1 DEF outageVars, OutageInv, InTurn, Coming, OutageTypes
  <2>2. Flushed' /\ Backed' /\ \A k \in Outages!Key : OpenSince(k)' = OpenSince(k)
    BY <1>1, SameMap DEF outageVars
  <2>3. Told'
    BY <1>1, <2>1, <2>2 DEF outageVars, OutageInv, Told
  <2>4. QED
    BY <2>1, <2>2, <2>3 DEF OutageInv
<1>2. CASE Outages!Next
  BY <1>2, PublishStep, CarryStep, BridgeStep, HandleStep, FlushStep, DeliverStep, RebuildStep DEF Outages!Next
<1>3. QED
  BY <1>1, <1>2

\* ops_health.go:143: the invariant holds of whatever events, full channels,
\* failed deliveries and restarts there are.
THEOREM OutageInvariance == MCSpec => [](part = "outages" => OutageInv)
<1>1. MCInit => OutageInv
  BY InitOutages DEF MCInit
<1>2. (part = "outages" => OutageInv) /\ [MCNext]_<<part, vars, watchVars, alertVars, outageVars>> => (part = "outages" => OutageInv)'
  <2> SUFFICES ASSUME part = "outages" => OutageInv, [MCNext]_<<part, vars, watchVars, alertVars, outageVars>>, part' = "outages"
               PROVE  OutageInv'
    OBVIOUS
  <2>1. part = "outages"
    BY DEF MCNext
  <2>2. [Outages!Next]_outageVars
    BY <2>1 DEF MCNext
  <2>3. QED
    BY <2>1, <2>2, OutageStep
<1>3. QED
  BY <1>1, <1>2, PTL DEF MCSpec

LEMMA SizeOfOutages == \A S : Outages!Cardinality(S) = Cardinality(S)
BY DEF Outages!Cardinality, Cardinality, Outages!IsFiniteSet, IsFiniteSet

\* ops_health.go:143, main.go:334: when every event has come through and none
\* was dropped, the map holds the outages that are open, each since its first
\* failure; and an outage that the board shows as open can be resolved.
THEOREM OutagesAreTold == MCSpec => []OutagesHold
<1>1. (part = "outages" => OutageInv) => OutagesHold
  <2> SUFFICES ASSUME OutageInv PROVE Outages!TypeOK /\ Outages!OutagesTold /\ Outages!OpenIsLive
    BY DEF OutagesHold
  <2>1. OutageTypes
    BY DEF OutageInv
  <2>2. \A S : (\A x, y \in S : x = y) => Outages!Cardinality(S) =< 1
    <3> SUFFICES ASSUME NEW S, \A x, y \in S : x = y PROVE Cardinality(S) =< 1
      BY SizeOfOutages
    <3>1. CASE S = {}
      BY <3>1, FS_EmptySet
    <3>2. ASSUME NEW x \in S PROVE Cardinality(S) =< 1
      <4>1. S = {x}
        BY <3>2
      <4>2. Cardinality(S) = 1
        BY <4>1, FS_Singleton, Zenon
      <4>3. QED
        BY <4>2
    <3>3. QED
      BY <3>1, <3>2
  <2>3. Outages!TypeOK
    BY <2>1, <2>2 DEF OutageTypes, Outages!TypeOK
  <2>4. Outages!Drained => Coming = {} /\ flushes = {} /\ Shown = board
    BY DEF Outages!Drained, Coming, Within, Shown
  <2>5. Outages!OutagesTold
    <3>1. ASSUME Outages!Drained, ~missed, NEW k \in Outages!Key PROVE truth[k] = {o.started : o \in outages[k]}
      <4>1. OpenSince(k) = {o.started : o \in outages[k]} /\ \A t, u \in OpenSince(k) : t = u
        BY <2>1, <2>4, <3>1 DEF OutageInv, Flushed, OpenSince, OutageTypes
      <4>2. CASE k[1] \in Watched
        <5>1. Tells({}, k, OpenSince(k), truth[k])
          BY <2>4, <3>1, <4>2 DEF OutageInv, Told
        <5>2. truth[k] \subseteq OpenSince(k) /\ (truth[k] = {} => OpenSince(k) = {})
          BY <5>1 DEF Tells, Over, Recoveries
        <5>3. QED
          BY <4>1, <5>2
      <4>3. CASE k[1] \notin Watched
        BY <3>1, <4>3 DEF OutageInv, Told
      <4>4. QED
        BY <4>2, <4>3
    <3>2. QED
      BY <3>1 DEF OutageInv, Flushed, Outages!OutagesTold
  <2>6. Outages!OpenIsLive
    BY <2>4 DEF OutageInv, Backed, Outages!OpenIsLive
  <2>7. QED
    BY <2>3, <2>5, <2>6
<1>2. QED
  BY <1>1, OutageInvariance, PTL

-----------------------------------------------------------------------------
(* The alerts' token                                                       *)

Steps == {"wait", "token", "fetching", "request", "backoff", "apply"}
Poll == [pc : Steps, attempt : Nat, since : Nat, start : Nat, due : Nat, expiry : Nat, resp : SUBSET Response]
TokenTypes == /\ now \in 0 .. MaxTime /\ holder \in Feature \cup {Alerts!None}
              /\ poll \in [Feature -> Poll] /\ cached \subseteq [until : Nat, expiry : Nat]

\* One holds the lock, and for no longer than a request takes; what the client
\* thinks of a token is late by no more than that, and a token is good when it
\* is handed out.
TokenInv ==
    /\ TokenTypes /\ \A tok \in cached : tok.until =< tok.expiry + 1
    /\ \A f \in Feature : /\ poll[f].pc = "fetching" <=> holder = f
                          /\ poll[f].pc = "wait" \/ poll[f].attempt > 0
                          /\ poll[f].pc = "fetching" => poll[f].since =< now /\ now =< poll[f].since + 1
                          /\ poll[f].pc = "request" => poll[f].since =< now /\ (poll[f].since = now => now < poll[f].expiry)

\* One poll takes a step.
LEMMA PollMoves ==
    ASSUME TokenInv, NEW f \in Feature, NEW p \in Poll, poll' = [poll EXCEPT ![f] = p], now' = now,
           cached' \subseteq [until : Nat, expiry : Nat], \A tok \in cached' : tok.until =< tok.expiry + 1,
           \/ holder' = holder /\ (p.pc = "fetching" <=> poll[f].pc = "fetching")
           \/ holder' = f /\ holder = Alerts!None /\ p.pc = "fetching"
           \/ holder' = Alerts!None /\ poll[f].pc = "fetching" /\ p.pc # "fetching",
           p.pc = "wait" \/ p.attempt > 0, p.pc = "fetching" => p.since =< now /\ now =< p.since + 1,
           p.pc = "request" => p.since =< now /\ (p.since = now => now < p.expiry)
    PROVE  TokenInv'
<1>1. /\ poll'[f] = p /\ \A g \in Feature : g # f => poll'[g] = poll[g]
      /\ poll' \in [Feature -> Poll] /\ Alerts!None \notin Feature
  BY AlertAssumption DEF TokenInv, TokenTypes, Alerts!None
<1>2. TokenTypes'
  BY <1>1 DEF TokenInv, TokenTypes
<1>3. ASSUME NEW g \in Feature
      PROVE  /\ poll'[g].pc = "fetching" <=> holder' = g
             /\ poll'[g].pc = "wait" \/ poll'[g].attempt > 0
             /\ poll'[g].pc = "fetching" => poll'[g].since =< now' /\ now' =< poll'[g].since + 1
             /\ poll'[g].pc = "request" => poll'[g].since =< now' /\ (poll'[g].since = now' => now' < poll'[g].expiry)
  <2>1. poll[f].pc = "fetching" <=> holder = f
    BY DEF TokenInv
  <2>2. CASE g = f
    BY <1>1, <2>1, <2>2
  <2>3. CASE g # f
    <3>1. poll[g].pc = "fetching" <=> holder = g
      BY DEF TokenInv
    <3>2. poll'[g].pc = "fetching" <=> holder' = g
      BY <1>1, <2>1, <2>3, <3>1
    <3>3. QED
      BY <1>1, <2>3, <3>2 DEF TokenInv
  <2>4. QED
    BY <2>2, <2>3
<1>4. QED
  BY <1>2, <1>3 DEF TokenInv

\* A feature that has its token sends its request.
Asks(f, e) == poll' = [poll EXCEPT ![f] = [poll[f] EXCEPT !.pc = "request", !.since = now, !.expiry = e]]

LEMMA Requests ==
    ASSUME TokenInv, NEW f \in Feature, poll[f].attempt > 0, NEW e \in Nat, Asks(f, e)
    PROVE  \E p \in Poll : /\ poll' = [poll EXCEPT ![f] = p]
                           /\ p.pc = "request" /\ p.since = now /\ p.expiry = e /\ p.attempt > 0
<1>1. poll[f] \in Poll /\ now \in Nat
  BY DEF TokenInv, TokenTypes
<1>2. PICK q \in Poll : q = poll[f]
  BY <1>1
<1>3. q.attempt > 0
  BY <1>2
<1> DEFINE p == [q EXCEPT !.pc = "request", !.since = now, !.expiry = e]
<1>4. p \in Poll /\ p.pc = "request" /\ p.since = now /\ p.expiry = e /\ p.attempt > 0
  BY <1>1, <1>3 DEF Poll, Steps
<1>5. poll' = [poll EXCEPT ![f] = p]
  BY <1>2, Zenon DEF Asks
<1> HIDE DEF p
<1>6. QED
  BY <1>4, <1>5

LEMMA PutOff ==
    ASSUME NEW p \in Poll, NEW m \in Nat, NEW d \in Nat, NEW q, q = [p EXCEPT !.pc = "backoff", !.due = m + d, !.attempt = @ + 1]
    PROVE  q \in Poll /\ q.pc = "backoff" /\ q.attempt > 0
<1>1. p.attempt + 1 \in Nat /\ p.attempt + 1 > 0 /\ m + d \in Nat
  BY DEF Poll
<1>2. q.attempt = p.attempt + 1 /\ q.pc = "backoff"
  BY DEF Poll
<1>3. q \in Poll
  BY <1>1 DEF Poll, Steps
<1>4. QED
  BY <1>1, <1>2, <1>3

\* An attempt that failed is made again, later, or fails the poll.
LEMMA FailsOver ==
    ASSUME TokenInv, NEW f \in Feature, Alerts!AttemptFails(f), poll[f].pc # "wait"
    PROVE  \E p \in Poll : /\ poll' = [poll EXCEPT ![f] = p]
                           /\ p.pc = "wait" \/ (p.pc = "backoff" /\ p.attempt > 0)
<1> DEFINE p == poll[f]
<1>1. p \in Poll /\ now \in Nat /\ p.attempt \in Nat \ {0}
  BY DEF TokenInv, TokenTypes, Poll
<1>2. CASE p.attempt > Len(Retry)
  <2>1. Alerts!Idle \in Poll /\ Alerts!Idle.pc = "wait" /\ poll' = [poll EXCEPT ![f] = Alerts!Idle]
    BY <1>2 DEF Alerts!AttemptFails, Alerts!Failed, Alerts!Be, Alerts!Idle, Poll, Steps
  <2>2. QED
    BY <2>1
<1>3. CASE ~(p.attempt > Len(Retry))
  <2> DEFINE q == [p EXCEPT !.pc = "backoff", !.due = now + Retry[p.attempt], !.attempt = @ + 1]
  <2>1. poll' = [poll EXCEPT ![f] = q]
    BY <1>3 DEF Alerts!AttemptFails, Alerts!Be
  <2>2. Retry[p.attempt] \in Nat
    BY <1>1, <1>3, AlertAssumption
  <2>3. q \in Poll /\ q.pc = "backoff" /\ q.attempt > 0
    BY <1>1, <2>2, PutOff
  <2>4. QED
    BY <2>1, <2>3
<1>4. QED
  BY <1>2, <1>3

LEMMA InitToken == ASSUME Alerts!Init PROVE TokenInv
<1>1. Alerts!Idle \in Poll /\ Alerts!Idle.pc = "wait" /\ now = 0 /\ cached = {} /\ holder = Alerts!None /\ Alerts!None \notin Feature
  BY AlertAssumption DEF Alerts!Init, Alerts!Idle, Poll, Steps, Alerts!None
<1>2. poll = [f \in Feature |-> Alerts!Idle]
  BY DEF Alerts!Init
<1>3. QED
  BY <1>1, <1>2, AlertAssumption DEF TokenInv, TokenTypes

\* Time passes only where nobody is about to act.
LEMMA PassStep == ASSUME TokenInv, Alerts!Pass PROVE TokenInv'
<1>1. /\ TokenTypes /\ now < MaxTime /\ now' = now + 1 /\ UNCHANGED <<cached, holder, poll>>
      /\ \A f \in Feature : ~Alerts!Due(f)
  BY DEF TokenInv, Alerts!Pass
<1>2. now \in Nat /\ now' \in 0 .. MaxTime /\ \A f \in Feature : poll[f].since \in Nat
  BY <1>1, AlertAssumption DEF TokenTypes, Poll
<1>3. \A f \in Feature : poll[f].pc = "fetching" => poll[f].since = now
  BY <1>1, <1>2 DEF Alerts!Due, TokenInv
<1>4. TokenTypes'
  BY <1>1, <1>2 DEF TokenTypes
<1>5. \A f \in Feature : /\ poll'[f].pc = "fetching" => poll'[f].since =< now' /\ now' =< poll'[f].since + 1
                         /\ poll'[f].pc = "request" => poll'[f].since =< now' /\ poll'[f].since # now'
                         /\ poll'[f].pc = "wait" \/ poll'[f].attempt > 0
  BY <1>1, <1>2, <1>3 DEF TokenInv
<1>6. QED
  BY <1>1, <1>4, <1>5 DEF TokenInv

LEMMA TokenStep ==
    ASSUME TokenInv, NEW f \in Feature,
           \/ Alerts!Fire(f) \/ Alerts!TriggerNow(f) \/ Alerts!Tick(f) \/ Alerts!Again(f) \/ Alerts!Token(f) \/ Alerts!Fetch(f)
           \/ Alerts!Fetched(f) \/ Alerts!FetchFails(f) \/ Alerts!RequestFails(f) \/ Alerts!Answered(f) \/ Alerts!Applied(f)
           \/ Alerts!Enable(f)
    PROVE  TokenInv'
<1> USE DEF Alerts!Be
<1>1. /\ poll[f] \in Poll /\ now \in Nat /\ poll[f].since \in Nat /\ cached \subseteq [until : Nat, expiry : Nat]
      /\ \A tok \in cached : tok.until =< tok.expiry + 1
      /\ poll[f].pc = "fetching" => poll[f].since =< now /\ now =< poll[f].since + 1
      /\ Alerts!Idle \in Poll /\ Alerts!Idle.pc = "wait" /\ (poll[f].pc = "wait" \/ poll[f].attempt > 0)
  BY DEF TokenInv, TokenTypes, Poll, Alerts!Idle, Steps
<1>2. CASE UNCHANGED <<now, cached, holder, poll>>
  BY <1>2 DEF TokenInv, TokenTypes
<1>3. ASSUME Alerts!Tick(f), ~UNCHANGED poll PROVE TokenInv'
  <2> DEFINE p == [Alerts!Idle EXCEPT !.pc = "token", !.attempt = 1, !.start = now]
  <2>1. poll[f].pc = "wait" /\ poll' = [poll EXCEPT ![f] = p] /\ UNCHANGED <<now, cached, holder>>
    BY <1>3 DEF Alerts!Tick, Alerts!Busy
  <2>2. p \in Poll /\ p.pc = "token" /\ p.attempt = 1
    BY <1>1 DEF Poll, Steps, Alerts!Idle
  <2>3. p.attempt > 0 /\ p.pc # "fetching" /\ p.pc # "request" /\ poll[f].pc # "fetching"
    BY <2>1, <2>2
  <2> HIDE DEF p
  <2>4. QED
    BY <1>1, <2>1, <2>2, <2>3, PollMoves
<1>4. CASE Alerts!Again(f)
  <2> DEFINE p == [poll[f] EXCEPT !.pc = "token"]
  <2>1. poll[f].pc = "backoff" /\ poll' = [poll EXCEPT ![f] = p] /\ UNCHANGED <<now, cached, holder>>
    BY <1>4 DEF Alerts!Again
  <2>2. p \in Poll /\ p.pc = "token" /\ p.attempt > 0
    BY <1>1, <2>1 DEF Poll, Steps
  <2> HIDE DEF p
  <2>3. QED
    BY <1>1, <2>1, <2>2, PollMoves
<1>5. CASE Alerts!Token(f)
  <2>1. PICK tok \in cached : Alerts!Good(tok) /\ poll' = [poll EXCEPT ![f] = [poll[f] EXCEPT !.pc = "request", !.since = now, !.expiry = tok.expiry]]
    BY <1>5 DEF Alerts!Token
  <2>2. tok.until \in Nat /\ tok.expiry \in Nat /\ now < tok.expiry
    BY <1>1, <2>1, AlertAssumption DEF Alerts!Good
  <2>3. poll[f].pc = "token" /\ UNCHANGED <<now, cached, holder>>
    BY <1>5 DEF Alerts!Token
  <2>4. poll[f].attempt > 0
    BY <1>1, <2>3
  <2>5. PICK p \in Poll : /\ poll' = [poll EXCEPT ![f] = p]
                         /\ p.pc = "request" /\ p.since = now /\ p.expiry = tok.expiry /\ p.attempt > 0
    <3>1. PICK e \in Nat : e = tok.expiry
      BY <2>2
    <3>2. Asks(f, e)
      BY <2>1, <3>1, Zenon DEF Asks
    <3>3. \E p \in Poll : /\ poll' = [poll EXCEPT ![f] = p]
                          /\ p.pc = "request" /\ p.since = now /\ p.expiry = e /\ p.attempt > 0
      BY <2>4, <3>2, Requests
    <3>4. QED
      BY <3>1, <3>3
  <2>6. /\ p.since =< now /\ now < p.expiry /\ p.pc # "fetching" /\ poll[f].pc # "fetching"
        /\ cached' \subseteq [until : Nat, expiry : Nat] /\ \A t \in cached' : t.until =< t.expiry + 1
    BY <1>1, <2>2, <2>3, <2>5
  <2>7. QED
    BY <2>3, <2>5, <2>6, PollMoves
<1>6. CASE Alerts!Fetch(f)
  <2> DEFINE p == [poll[f] EXCEPT !.pc = "fetching", !.since = now]
  <2>1. poll[f].pc = "token" /\ holder = Alerts!None /\ holder' = f /\ poll' = [poll EXCEPT ![f] = p] /\ UNCHANGED <<now, cached>>
    BY <1>6 DEF Alerts!Fetch
  <2>2. p \in Poll /\ p.pc = "fetching" /\ p.since = now /\ p.attempt > 0
    BY <1>1, <2>1 DEF Poll, Steps
  <2> HIDE DEF p
  <2>3. /\ p.since =< now /\ now =< p.since + 1 /\ p.pc # "request"
        /\ cached' \subseteq [until : Nat, expiry : Nat] /\ \A t \in cached' : t.until =< t.expiry + 1
    BY <1>1, <2>1, <2>2
  <2>4. QED
    BY <2>1, <2>2, <2>3, PollMoves
<1>7. CASE Alerts!Fetched(f)
  <2>1. PICK issued \in poll[f].since .. now :
            /\ cached' = {[until |-> now + Life, expiry |-> issued + Life]}
            /\ poll' = [poll EXCEPT ![f] = [poll[f] EXCEPT !.pc = "request", !.since = now, !.expiry = issued + Life]]
    BY <1>7 DEF Alerts!Fetched
  <2>2. poll[f].pc = "fetching" /\ holder' = Alerts!None /\ now' = now
    BY <1>7 DEF Alerts!Fetched
  <2>3. issued \in Nat /\ now =< issued + 1
    BY <1>1, <2>2
  <2>4. /\ issued + Life \in Nat /\ now + Life \in Nat
        /\ now < issued + Life /\ now + Life =< issued + Life + 1
    BY <1>1, <2>3, AlertAssumption
  <2>5. poll[f].attempt > 0
    BY <1>1, <2>2
  <2>6. PICK p \in Poll : /\ poll' = [poll EXCEPT ![f] = p]
                         /\ p.pc = "request" /\ p.since = now /\ p.expiry = issued + Life /\ p.attempt > 0
    <3>1. PICK e \in Nat : e = issued + Life
      BY <2>4
    <3>2. Asks(f, e)
      BY <2>1, <3>1, Zenon DEF Asks
    <3>3. \E p \in Poll : /\ poll' = [poll EXCEPT ![f] = p]
                          /\ p.pc = "request" /\ p.since = now /\ p.expiry = e /\ p.attempt > 0
      BY <2>5, <3>2, Requests
    <3>4. QED
      BY <3>1, <3>3
  <2>7. PICK tok \in [until : Nat, expiry : Nat] : cached' = {tok} /\ tok.until =< tok.expiry + 1
    <3> DEFINE tok == [until |-> now + Life, expiry |-> issued + Life]
    <3>1. tok \in [until : Nat, expiry : Nat] /\ tok.until =< tok.expiry + 1
      BY <2>4
    <3>2. cached' = {tok}
      BY <2>1
    <3> HIDE DEF tok
    <3>3. QED
      BY <3>1, <3>2
  <2>8. /\ p.since =< now /\ now < p.expiry /\ p.pc # "fetching"
        /\ cached' \subseteq [until : Nat, expiry : Nat] /\ \A t \in cached' : t.until =< t.expiry + 1
    BY <1>1, <2>4, <2>6, <2>7
  <2>9. QED
    BY <2>2, <2>6, <2>8, PollMoves
<1>8. CASE Alerts!FetchFails(f)
  <2>1. poll[f].pc = "fetching" /\ holder' = Alerts!None /\ Alerts!AttemptFails(f) /\ UNCHANGED <<now, cached>>
    BY <1>8 DEF Alerts!FetchFails
  <2>2. PICK p \in Poll : /\ poll' = [poll EXCEPT ![f] = p]
                          /\ p.pc = "wait" \/ (p.pc = "backoff" /\ p.attempt > 0)
    BY <2>1, FailsOver
  <2>3. QED
    BY <1>1, <2>1, <2>2, PollMoves
<1>9. CASE Alerts!RequestFails(f)
  <2>1. poll[f].pc = "request" /\ Alerts!AttemptFails(f) /\ UNCHANGED <<now, cached, holder>>
    BY <1>9 DEF Alerts!RequestFails
  <2>2. PICK p \in Poll : /\ poll' = [poll EXCEPT ![f] = p]
                          /\ p.pc = "wait" \/ (p.pc = "backoff" /\ p.attempt > 0)
    BY <2>1, FailsOver
  <2>3. QED
    BY <1>1, <2>1, <2>2, PollMoves
<1>10. CASE Alerts!Answered(f)
  <2>1. poll[f].pc = "request" /\ UNCHANGED <<now, cached, holder>>
    BY <1>10 DEF Alerts!Answered
  <2>2. PICK r \in Response : \/ poll' = [poll EXCEPT ![f] = Alerts!Idle]
                              \/ poll' = [poll EXCEPT ![f] = [poll[f] EXCEPT !.pc = "apply", !.since = now, !.resp = {r}]]
    BY <1>10 DEF Alerts!Answered, Alerts!Failed
  <2> DEFINE p == [poll[f] EXCEPT !.pc = "apply", !.since = now, !.resp = {r}]
  <2>3. p \in Poll /\ p.pc = "apply" /\ p.attempt > 0
    BY <1>1, <2>1 DEF Poll, Steps
  <2> HIDE DEF p
  <2>4. QED
    BY <1>1, <2>1, <2>2, <2>3, PollMoves DEF p
<1>11. CASE Alerts!Applied(f)
  <2>1. poll[f].pc = "apply" /\ poll' = [poll EXCEPT ![f] = Alerts!Idle] /\ UNCHANGED <<now, cached, holder>>
    BY <1>11 DEF Alerts!Applied
  <2>2. QED
    BY <1>1, <2>1, PollMoves
<1>12. QED
  BY <1>2, <1>3, <1>4, <1>5, <1>6, <1>7, <1>8, <1>9, <1>10, <1>11
     DEF Alerts!Fire, Alerts!TriggerNow, Alerts!Tick, Alerts!Enable

\* authclient/client.go:81: however the features' polls, failures and retries
\* meet, one at a time fetches a token, and a token that is handed out is good
\* at the server.
THEOREM TokensAreGood == MCSpec => [](part = "alerts" => Alerts!TokenHolds)
<1>1. MCInit => TokenInv
  BY InitToken DEF MCInit
<1>2. (part = "alerts" => TokenInv) /\ [MCNext]_<<part, vars, watchVars, alertVars, outageVars>> => (part = "alerts" => TokenInv)'
  <2> SUFFICES ASSUME part = "alerts" => TokenInv, [MCNext]_<<part, vars, watchVars, alertVars, outageVars>>, part' = "alerts"
               PROVE  TokenInv'
    OBVIOUS
  <2>1. part = "alerts"
    BY DEF MCNext
  <2>2. Alerts!Next \/ UNCHANGED alertVars
    BY <2>1 DEF MCNext
  <2>3. CASE UNCHANGED alertVars
    BY <2>1, <2>3 DEF alertVars, TokenInv, TokenTypes
  <2>4. CASE Alerts!Next
    BY <2>1, <2>4, PassStep, TokenStep DEF Alerts!Next
  <2>5. QED
    BY <2>2, <2>3, <2>4
<1>3. TokenInv => Alerts!TokenHolds
  BY DEF TokenInv, Alerts!TokenHolds
<1>4. QED
  BY <1>1, <1>2, <1>3, PTL DEF MCSpec
=============================================================================
