--------------------------- MODULE AssistantTurn ----------------------------
(* The assistant: one session's turns, each a loop of calls to the model     *)
(* and to the tools it asks for, and the provider context that one turn      *)
(* leaves to the next.                                                       *)
(*                                                                          *)
(* Source: internal/assistant/runner.go, runner_streaming.go, anthropic_     *)
(* context.go.                                                               *)
EXTENDS Naturals, Sequences, FiniteSets, SequencesExt

CONSTANTS Use,       \* ids of tool uses
          MaxIter,   \* Runner.maxIter
          MaxTurns   \* bound

VARIABLES ctx,      \* messageParams
          turn,     \* where RunWithProgressContext stands, its iterations and its text
          todo,     \* the tool uses of the answer that are still to be invoked
          got,      \* their results so far
          progress, \* the tool uses announced as started, and as complete
          stored,   \* the session's provider context
          whole,    \* history: everything the session has been through
          turns, kept \* turns so far; history: whole when the context was stored

vars == <<ctx, turn, todo, got, progress, stored, whole, turns, kept>>

Message == [role : {"user", "assistant"}, uses : SUBSET Use, results : SUBSET Use, text : BOOLEAN,
            image : {{}} \cup {{t} : t \in 1 .. MaxTurns}, compaction : {"none", "null", "valid"}]
Said(role, text) == [role |-> role, uses |-> {}, results |-> {}, text |-> text, image |-> {}, compaction |-> "none"]
NoText == ""
Idle == [pc |-> "idle", iter |-> 0, last |-> NoText, exhausted |-> TRUE]
Quiet == [started |-> <<>>, complete |-> <<>>]

Init ==
    /\ ctx = <<>> /\ turn = Idle /\ todo = <<>> /\ got = {} /\ progress = Quiet
    /\ stored = <<>> /\ whole = <<>> /\ turns = 0 /\ kept = <<>>

Used == UNION {whole[i].uses : i \in DOMAIN whole}

\* The session's messages, read when no context is stored: no reply is stored
\* without one, so they are the questions so far.
History == [i \in 1 .. turns |-> Said("user", TRUE)]
Or(c, d) == IF c # <<>> THEN c ELSE d

\* buildTurnMessages: the stored context, or else the history; the question,
\* with an image or without.
Begin ==
    /\ turn.pc = "idle" /\ turns < MaxTurns
    /\ \E image \in {{}, {turns + 1}} :
         LET q == [Said("user", TRUE) EXCEPT !.image = image]
         IN  ctx' = Append(Or(stored, History), q) /\ whole' = Append(Or(kept, History), q)
    /\ turn' = [Idle EXCEPT !.pc = "call"] /\ turns' = turns + 1 /\ progress' = Quiet
    /\ UNCHANGED <<todo, got, stored, kept>>

\* appendBetaResponse.
With(c, m) == IF m.compaction = "valid" THEN <<m>> ELSE Append(c, m)

\* CreateBetaMessage, NewStreaming: an answer is kept, an error ends the turn; a
\* stream announces the uses as they come in, even one that fails after that.
Answered(m) ==
    /\ ctx' = With(ctx, m) /\ whole' = Append(whole, m)
    /\ turn' = IF m.uses = {} THEN [turn EXCEPT !.pc = "encode", !.last = IF m.text THEN "text" ELSE NoText, !.exhausted = FALSE]
               ELSE [turn EXCEPT !.pc = "tools", !.last = IF m.text THEN "text" ELSE NoText]
    /\ todo' \in {s \in [1 .. Cardinality(m.uses) -> m.uses] : IsInjective(s)} /\ got' = {}
Call ==
    /\ turn.pc = "call"
    /\ \/ /\ \E u \in SUBSET (Use \ Used), t \in BOOLEAN, c \in {"none", "null", "valid"} :
               /\ Answered([Said("assistant", t) EXCEPT !.uses = u, !.compaction = c])
               /\ \/ UNCHANGED progress
                  \/ progress' = [progress EXCEPT !.started = @ \o todo']
       \/ turn' = Idle /\ UNCHANGED <<ctx, whole, todo, got, progress>>
    /\ UNCHANGED <<stored, turns, kept>>

\* Mutant: a tool that fails leaves no result.
InvokeMutant ==
    /\ turn.pc = "tools" /\ todo # <<>>
    /\ todo' = Tail(todo) /\ got' \in {got \cup {Head(todo)}, got}
    /\ progress' = [started |-> Append(progress.started, Head(todo)), complete |-> Append(progress.complete, Head(todo))]
    /\ UNCHANGED <<ctx, turn, stored, whole, turns, kept>>

\* invokeBetaToolsWithProgress: one after the other; an error or a timeout is
\* a result as well.
Invoke ==
    /\ turn.pc = "tools" /\ todo # <<>>
    /\ todo' = Tail(todo) /\ got' = got \cup {Head(todo)}
    /\ progress' = [started |-> Append(progress.started, Head(todo)), complete |-> Append(progress.complete, Head(todo))]
    /\ UNCHANGED <<ctx, turn, stored, whole, turns, kept>>

\* The results are the next message, and the loop goes on while it may.
Results ==
    /\ turn.pc = "tools" /\ todo = <<>>
    /\ LET m == [Said("user", FALSE) EXCEPT !.results = got] IN ctx' = Append(ctx, m) /\ whole' = Append(whole, m)
    /\ turn' = [turn EXCEPT !.iter = @ + 1, !.pc = IF turn.iter + 1 = MaxIter THEN "encode" ELSE "call"]
    /\ UNCHANGED <<todo, got, progress, stored, turns, kept>>

\* encodeProviderContext, and the caller's commit, which may fail.
Encode ==
    /\ turn.pc = "encode"
    /\ turn' = Idle
    /\ \/ stored' = ctx /\ kept' = whole
       \/ UNCHANGED <<stored, kept>>
    /\ UNCHANGED <<ctx, todo, got, progress, whole, turns>>

Next == Begin \/ Call \/ Invoke \/ Results \/ Encode
Spec == Init /\ [][Next]_vars

\* What the user is told.
Reply == IF turn.last = NoText /\ turn.exhausted THEN "ran out of steps" ELSE turn.last

-----------------------------------------------------------------------------

\* Types.
TypeOK ==
    /\ ctx \in Seq(Message) /\ stored \in Seq(Message) /\ whole \in Seq(Message)
    /\ turn.pc \in {"idle", "call", "tools", "encode"} /\ turn.iter \in 0 .. MaxIter
    /\ todo \in Seq(Use) /\ got \subseteq Use /\ turns \in 0 .. MaxTurns

\* The results a message gives are those the message before it asks for.
Paired(c) ==
    \A i \in DOMAIN c :
        /\ c[i].uses # {} => i < Len(c) /\ c[i + 1].results = c[i].uses
        /\ c[i].results # {} => i > 1 /\ c[i - 1].uses = c[i].results

\* runner.go:215, anthropic_context.go:161: the model refuses a context in
\* which a tool use has no result, and one once stored would be refused for
\* good: whatever tools fail, a loop runs out of steps, a context is compacted
\* or a turn is not stored, every request and every stored context is paired.
ContextPaired == Paired(stored) /\ (turn.pc \in {"call", "encode"} => Paired(ctx))

\* anthropic_context.go:162: the context begins with the last summary and holds
\* everything since, whether it comes from this turn or from one before.
SinceCompaction ==
    LET Cut(w) == LET at == {i \in DOMAIN w : w[i].compaction = "valid"}
                  IN  IF at = {} THEN w ELSE SubSeq(w, CHOOSE i \in at : \A j \in at : j <= i, Len(w))
    IN  /\ turn.pc # "idle" => ctx = Cut(whole)
        /\ stored = Cut(kept)

\* runner.go:48, :345: whether announced once or, by a stream, twice, what the
\* client hears start it hears end, unless the turn has failed; the model is
\* called no more often than it may be, and the reply is empty only when the
\* model's last answer was.
EachEnds ==
    /\ ToSet(progress.complete) \subseteq ToSet(progress.started) /\ IsInjective(progress.complete)
    /\ turn.pc = "encode" =>
         /\ ToSet(progress.complete) = ToSet(progress.started)
         /\ turn.exhausted <=> turn.iter = MaxIter
         /\ Reply = NoText => ~turn.exhausted /\ ~Last(ctx).text

\* runner.go:249: "It is sent only on the turn it is attached - images are not
\* persisted into conversation history (send-per-turn)."  The code does not keep
\* to it: the context it stores holds the image.
ImageSentOnce == turn.pc = "call" => \A i \in DOMAIN ctx : ctx[i].image \subseteq {turns}
=============================================================================
