------------------------------- MODULE MCLive -------------------------------
(* Instances of BotPublisher, BotWatcher, VoiceTurn and UpdatesHub for the  *)
(* liveness properties.  They share no state, so a behaviour is of one of   *)
(* them.                                                                    *)
EXTENDS UpdatesHub

CONSTANTS Identity, Channel, MsgId, Clearer, MaxFaults, MaxClears, Slug, Hash, Absent, Handler, Cap, MaxCommands, MaxMoves,
          MaxChunks, VoiceRoom, Patience

ASSUME VoiceAssumption == MaxChunks \in Nat /\ VoiceRoom \in Nat /\ Patience \in Nat

VARIABLES part,
    live, rows, disabled, reachable, bound, pc, todo, items, cur, clear, faults, clears, want, orphans,
    wlive, wrows, wreachable, wpc, wtodo, wfaults,
    data, cmd, at, seen, commands, moves, lost, drifted,
    turn, reader, forwarder, audioCh, socket, spoken, heard, troubled

watchVars == <<wlive, wrows, wreachable, wpc, wtodo, wfaults, data, cmd, at, seen, commands, moves, lost, drifted>>
voiceVars == <<turn, reader, forwarder, audioCh, socket, spoken, heard, troubled>>
bindingVars == <<live, rows, disabled, reachable, bound, pc, todo, items, cur, clear, faults, clears, want, orphans>>
allVars   == <<bindingVars, watchVars, voiceVars, vars>>

Binding == INSTANCE BotPublisher

Watch == INSTANCE BotWatcher WITH live <- wlive, rows <- wrows, reachable <- wreachable, pc <- wpc,
                                  todo <- wtodo, faults <- wfaults

Voice == INSTANCE VoiceTurn WITH Room <- VoiceRoom

\* Enough ids that a post never waits for one.
Ids == 1..6

LiveInit == Init /\ Binding!Init /\ Watch!Init /\ Voice!Init
    /\ part \in {"binding", "watch", "voice", "hub"}
    /\ (part # "watch" => data = [s \in Slug |-> CHOOSE h \in Hash : TRUE])

OfBinding(A) == part = "binding" /\ A /\ UNCHANGED <<part, watchVars, voiceVars, vars>>
OfWatch(A)   == part = "watch" /\ A /\ UNCHANGED <<part, bindingVars, voiceVars, vars>>
OfVoice(A)   == part = "voice" /\ A /\ UNCHANGED <<part, bindingVars, watchVars, vars>>
OfHub(A)     == part = "hub" /\ A /\ UNCHANGED <<part, bindingVars, watchVars, voiceVars>>

\* A turn that is over stays so; everything else must always have a next step.
VoiceOver == part = "voice" /\ turn.pc = "over" /\ forwarder.pc \in {"none", "done"} /\ UNCHANGED <<part, allVars>>
HubOver == part = "hub" /\ (\A c \in Client : Over(c)) /\ UNCHANGED <<part, allVars>>

\* A clear request and a fault do not fall into one behaviour: the run of
\* MCBots and the proofs have both.
Apart == clears' + faults' =< MaxFaults

LiveNext == OfBinding(Binding!Next /\ Apart) \/ OfWatch(Watch!Next) \/ OfVoice(Voice!Next) \/ VoiceOver \/ OfHub(Next) \/ HubOver

LiveSpec ==
    /\ LiveInit /\ [][LiveNext]_<<part, allVars>>
    /\ WF_allVars(OfBinding(Binding!Worker))
    /\ \A k \in Clearer : WF_allVars(OfBinding(Binding!ClearDelete(k) \/ Binding!ClearPurge(k) \/ Binding!ClearEnable(k)))
    /\ WF_allVars(OfWatch(Watch!Loop))
    /\ \A h \in Handler : WF_allVars(OfWatch(Watch!CommandStep(h)))
    /\ WF_allVars(OfVoice(Voice!Cancel \/ Voice!CloseChannel))
    /\ WF_allVars(OfVoice(Voice!Tick))
    /\ WF_allVars(OfVoice(Voice!Read \/ Voice!Put))
    /\ WF_allVars(OfVoice(Voice!Take \/ Voice!Forward))
    /\ WF_allVars(OfHub(Broadcast)) /\ WF_allVars(OfHub(Loop))
    /\ \A c \in Client : /\ WF_allVars(OfHub(ReadFails(c) \/ ReaderCloses(c)))
                         /\ WF_allVars(OfHub(Write(c) \/ WriterEnds(c)))
                         /\ SF_allVars(OfHub(Register(c))) /\ SF_allVars(OfHub(Unregister(c)))

\* publisher.go:102: see Publishes of BotPublisher.
BindingPublishes == part = "binding" => Binding!Publishes

\* watcher/handler.go:265: see KeptCurrent of BotWatcher.
WatchesCurrent == part = "watch" => Watch!KeptCurrent

\* voice_session.go:62: see NoSendOnClosed and HeardInOrder of VoiceTurn.
VoiceHolds == part = "voice" => Voice!TypeOK /\ Voice!NoSendOnClosed /\ Voice!HeardInOrder

\* voice_session.go:62, hub.go:172: see TurnEnds of VoiceTurn, and Forgotten.
StreamsEnd == Voice!TurnEnds /\ Forgotten
=============================================================================
