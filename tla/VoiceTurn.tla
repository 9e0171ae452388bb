----------------------------- MODULE VoiceTurn ------------------------------
(* The speech of one chat turn: the turn's goroutine sends what it is to say *)
(* to ElevenLabs, a reader puts the audio that comes back into a channel, a  *)
(* forwarder writes it to the client, and Dispose ends all of them.          *)
(*                                                                          *)
(* Source: internal/voice/voice_session.go, internal/voice/elevenlabs_       *)
(* client.go; internal/httpapi/copilot_chat.go, the turn's voice session.    *)
EXTENDS Naturals, Sequences, FiniteSets

CONSTANTS MaxChunks,  \* bound: speak chunks of the turn
          Room,       \* capacity of audioCh
          Patience    \* Dispose's 10 seconds, and the bound of the wait for it

VARIABLES turn,       \* the turn's goroutine: where it stands, how long it has waited
          reader,     \* ReadAudioChunks
          forwarder,  \* the goroutine that ranges over audioCh, with the chunk it writes
          audioCh,    \* what the channel holds, and whether it is closed
          socket,     \* ElevenLabs: texts it has, audio on its way, state of the connection
          spoken,     \* chunks given to ElevenLabs
          heard,      \* chunks written to the client's connection
          troubled    \* a call failed, or the wait for the audio was given up

vars == <<turn, reader, forwarder, audioCh, socket, spoken, heard, troubled>>

Final == 0   \* isFinal
Audio == 1 .. MaxChunks

Init ==
    /\ turn = [pc |-> "connect", waited |-> 0] /\ reader = [pc |-> "none", got |-> 0]
    /\ forwarder = [pc |-> "none", got |-> 0]
    /\ audioCh = [held |-> <<>>, closed |-> FALSE]
    /\ socket = [open |-> FALSE, texts |-> <<>>, frames |-> <<>>, ended |-> FALSE]
    /\ spoken = <<>> /\ heard = <<>> /\ troubled = FALSE

\* NewVoiceSession: without a connection the turn goes on without a voice.
Connect ==
    /\ turn.pc = "connect"
    /\ \/ /\ turn' = [turn EXCEPT !.pc = "speak"] /\ socket' = [socket EXCEPT !.open = TRUE]
          /\ reader' = [reader EXCEPT !.pc = "read"] /\ forwarder' = [forwarder EXCEPT !.pc = "receive"]
          /\ UNCHANGED troubled
       \/ /\ turn' = [turn EXCEPT !.pc = "over"] /\ troubled' = TRUE
          /\ UNCHANGED <<socket, reader, forwarder>>
    /\ UNCHANGED <<audioCh, spoken, heard>>

\* SendSpeakContent: a failed write is passed over.
Speak ==
    /\ turn.pc = "speak" /\ Len(spoken) < MaxChunks
    /\ spoken' = Append(spoken, Len(spoken) + 1)
    /\ IF socket.open THEN socket' = [socket EXCEPT !.texts = Append(@, Len(spoken) + 1)] /\ UNCHANGED troubled
       ELSE troubled' = TRUE /\ UNCHANGED socket
    /\ UNCHANGED <<turn, reader, forwarder, audioCh, heard>>

\* Dispose: the end of the input, and then the wait for the reader.
Dispose ==
    /\ turn.pc = "speak"
    /\ turn' = [turn EXCEPT !.pc = "wait"]
    /\ socket' = IF socket.open THEN [socket EXCEPT !.ended = TRUE] ELSE socket
    /\ UNCHANGED <<reader, forwarder, audioCh, spoken, heard, troubled>>

\* Mutant: Dispose waits as long as it takes.
CancelWaitsMutant ==
    /\ turn.pc = "wait" /\ reader.pc = "done"
    /\ turn' = [turn EXCEPT !.pc = "close"]
    /\ socket' = [socket EXCEPT !.open = FALSE, !.frames = <<>>]
    /\ UNCHANGED <<reader, forwarder, audioCh, spoken, heard, troubled>>

\* The reader has ended, or ten seconds are over: cancelCtx, Close.
Cancel ==
    /\ turn.pc = "wait" /\ (reader.pc = "done" \/ turn.waited = Patience)
    /\ turn' = [turn EXCEPT !.pc = "close"]
    /\ socket' = [socket EXCEPT !.open = FALSE, !.frames = <<>>]
    /\ troubled' = (troubled \/ reader.pc # "done")
    /\ UNCHANGED <<reader, forwarder, audioCh, spoken, heard>>

\* vs.wg.Wait, close(vs.audioCh).
CloseChannel ==
    /\ turn.pc = "close" /\ reader.pc = "done"
    /\ turn' = [turn EXCEPT !.pc = "over"]
    /\ audioCh' = [audioCh EXCEPT !.closed = TRUE]
    /\ UNCHANGED <<reader, forwarder, socket, spoken, heard, troubled>>

-----------------------------------------------------------------------------
Canceled == turn.pc \in {"close", "over"}

\* ReadAudioChunks: a read that fails ends it.
Read ==
    /\ reader.pc = "read"
    /\ IF socket.frames # <<>>
       THEN /\ socket' = [socket EXCEPT !.frames = Tail(@)]
            /\ reader' = IF Head(socket.frames) = Final THEN [reader EXCEPT !.pc = "done"]
                         ELSE [pc |-> "put", got |-> Head(socket.frames)]
       ELSE ~socket.open /\ reader' = [reader EXCEPT !.pc = "done"] /\ UNCHANGED socket
    /\ UNCHANGED <<turn, forwarder, audioCh, spoken, heard, troubled>>

\* Mutant: a full channel loses the chunk.
PutMutant ==
    /\ reader.pc = "put"
    /\ audioCh' = IF Len(audioCh.held) < Room THEN [audioCh EXCEPT !.held = Append(@, reader.got)] ELSE audioCh
    /\ reader' = [reader EXCEPT !.pc = IF Canceled THEN "done" ELSE "read"]
    /\ UNCHANGED <<turn, forwarder, socket, spoken, heard, troubled>>

\* The chunk is put into the channel, or the context is over.
Put ==
    /\ reader.pc = "put"
    /\ \/ /\ Len(audioCh.held) < Room
          /\ audioCh' = [audioCh EXCEPT !.held = Append(@, reader.got)] /\ reader' = [reader EXCEPT !.pc = "read"]
       \/ Canceled /\ reader' = [reader EXCEPT !.pc = "done"] /\ UNCHANGED audioCh
    /\ UNCHANGED <<turn, forwarder, socket, spoken, heard, troubled>>

\* The forwarder takes a chunk, or ends with the channel.
Take ==
    /\ forwarder.pc = "receive"
    /\ \/ /\ audioCh.held # <<>>
          /\ forwarder' = [pc |-> "write", got |-> Head(audioCh.held)]
          /\ audioCh' = [audioCh EXCEPT !.held = Tail(@)]
       \/ audioCh.held = <<>> /\ audioCh.closed /\ forwarder' = [forwarder EXCEPT !.pc = "done"] /\ UNCHANGED audioCh
    /\ UNCHANGED <<turn, reader, socket, spoken, heard, troubled>>

\* session.send: it is written, or fails after its deadline, which is as long
\* as Dispose waits, and is passed over.
Forward ==
    /\ forwarder.pc = "write"
    /\ forwarder' = [forwarder EXCEPT !.pc = "receive"]
    /\ \/ heard' = Append(heard, forwarder.got) /\ UNCHANGED troubled
       \/ troubled' = TRUE /\ UNCHANGED heard
    /\ UNCHANGED <<turn, reader, audioCh, socket, spoken>>

-----------------------------------------------------------------------------
\* ElevenLabs: a text becomes audio, the end of the input isFinal.
Generate ==
    /\ socket.open
    /\ \/ /\ socket.texts # <<>>
          /\ socket' = [socket EXCEPT !.texts = Tail(@), !.frames = Append(@, Head(socket.texts))]
       \/ /\ socket.ended /\ socket.texts = <<>> /\ reader.pc # "done"
          /\ \A i \in DOMAIN socket.frames : socket.frames[i] # Final
          /\ socket' = [socket EXCEPT !.frames = Append(@, Final)]
    /\ UNCHANGED <<turn, reader, forwarder, audioCh, spoken, heard, troubled>>

\* The connection breaks.
Break ==
    /\ socket.open /\ socket' = [socket EXCEPT !.open = FALSE, !.frames = <<>>] /\ troubled' = TRUE
    /\ UNCHANGED <<turn, reader, forwarder, audioCh, spoken, heard>>

Tick ==
    /\ turn.pc = "wait" /\ turn.waited < Patience
    /\ turn' = [turn EXCEPT !.waited = @ + 1]
    /\ UNCHANGED <<reader, forwarder, audioCh, socket, spoken, heard, troubled>>

Next == Connect \/ Speak \/ Dispose \/ Cancel \/ CloseChannel \/ Read \/ Put \/ Take \/ Forward
        \/ Generate \/ Break \/ Tick
Spec == Init /\ [][Next]_vars

-----------------------------------------------------------------------------

\* Types.
TypeOK ==
    /\ turn.pc \in {"connect", "speak", "wait", "close", "over"} /\ turn.waited \in 0 .. Patience
    /\ reader.pc \in {"none", "read", "put", "done"} /\ forwarder.pc \in {"none", "receive", "write", "done"}
    /\ Len(audioCh.held) <= Room /\ spoken \in Seq(Audio) /\ heard \in Seq(Audio)

\* voice_session.go:59: the channel is closed when nobody can send to it any
\* more, for a send on a closed channel ends the process.
NoSendOnClosed == audioCh.closed => reader.pc = "done"

\* voice_session.go:36, elevenlabs_client.go:117: the client hears the chunks
\* in the order they were said; when nothing has failed and Dispose has not run
\* out of patience, all of them are in its hands or in the forwarder's.
HeardInOrder ==
    LET ahead == (IF forwarder.pc = "write" THEN <<forwarder.got>> ELSE <<>>) \o audioCh.held
    IN  /\ \A i, j \in DOMAIN heard : i < j => heard[i] < heard[j]
        /\ turn.pc = "over" /\ ~troubled => heard \o ahead = spoken

\* voice_session.go:49: a turn that is to end does, and the forwarder with it,
\* whatever ElevenLabs and the client's connection do.
TurnEnds == turn.pc = "wait" ~> turn.pc = "over" /\ forwarder.pc = "done"
=============================================================================
