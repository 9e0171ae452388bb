--------------------------- MODULE MCCopilotChat ----------------------------
(* Instances of CopilotChat, AssistantTurn, TagParser and OperatorChat for  *)
(* TLC.  A chat takes a turn's result as it comes and the turn its tags, so *)
(* a behaviour is of one of them.                                           *)
EXTENDS CopilotChat, TLC

CONSTANTS
    Use, MaxIter, MaxTurns,                           \* of AssistantTurn
    SessionId, User, Request, Caller, MaxMishaps      \* of OperatorChat

\* runner.go:65-67: the model is called at least once.
ASSUME TurnAssumption == IsFiniteSet(Use) /\ MaxIter \in Nat \ {0} /\ MaxTurns \in Nat
ASSUME OperatorAssumption == MaxMishaps \in Nat

VARIABLES part,
    ctx, turn, todo, got, progress, stored, whole, turns, kept,
    text, fed, buf, out,
    rows, copies, online, born, apart, errands, mishaps

turnVars == <<ctx, turn, todo, got, progress, stored, whole, turns, kept>>
tagVars  == <<text, fed, buf, out>>
opVars   == <<rows, copies, online, born, apart, errands, mishaps>>

\* Every text of up to four symbols, and some with two tags.
Symbol == {"x", "<spe", "<da", "</spe", "</da", ">"}
Longer == {<<"x", "<spe", ">", "x", "</spe", ">", "<da", ">", "x", "</da", ">">>,
           <<"<da", ">", "x", "</da", ">", "x", "<spe", ">", "x", "</spe", ">", "x">>,
           <<"<spe", ">", "x", "</spe", ">", "<spe", ">", "</spe", ">", "x">>}
Replies == (UNION {[1 .. n -> Symbol] : n \in 0 .. 4}) \cup Longer

Loop == INSTANCE AssistantTurn
Speech == INSTANCE TagParser WITH Texts <- Replies

\* Whoever comes by each door: the key, nothing, and groups of every kind.
CallerBy(door, key, groups, identified) == [door |-> door, key |-> key, groups |-> groups, identified |-> identified]
Callers ==
    {CallerBy("http", k, {}, FALSE) : k \in BOOLEAN} \cup {CallerBy("mcp", TRUE, {}, FALSE), CallerBy("mcp", FALSE, {"kaine-chat"}, FALSE)}
    \cup {CallerBy("portal", FALSE, g, i) : g \in {{"kaine-god"}, {"kaine-chat", "edin-copilot"}}, i \in BOOLEAN}
    \cup {CallerBy("tool", FALSE, g, FALSE) : g \in {{"kaine-god"}, {"kaine-lead-ops", "kaine-approved"}, {"edin-copilot-trusted"}}}
Operators == INSTANCE OperatorChat WITH
    MaxFaults <- MaxMishaps,
    redis <- rows, memory <- copies, up <- online, req <- errands, faults <- mishaps

MCInit ==
    /\ Init /\ Loop!Init /\ Operators!Init
    /\ \/ part \in {"chat", "turn", "operators"} /\ text = <<>>
       \/ part = "tags" /\ text \in Replies
    /\ fed = 0 /\ buf = <<>> /\ out = <<>>
\* A parser at the end of its text, a session that has had its turns, and
\* operators whose requests are answered stop;
\* the chat must always have a next step.
Over == /\ \/ part = "turn" /\ turn.pc = "idle" /\ turns = MaxTurns
           \/ part = "tags" /\ fed = Len(text)
           \/ part = "operators" /\ \A r \in DOMAIN errands : errands[r].pc \in {"done", "failed", "refused"}
        /\ UNCHANGED <<part, vars, turnVars, tagVars, opVars>>
\* The last message sent, a repetition of an earlier one or what pushes it out,
\* is sent and handled on the only connection there is.
LastAlone == sends' = MaxSends => Cardinality({c \in Conn : conn'[c] # NoConn}) =< 1

MCNext ==
    \/ part = "chat" /\ Next /\ LastAlone /\ UNCHANGED <<part, turnVars, tagVars, opVars>>
    \/ part = "turn" /\ Loop!Next /\ UNCHANGED <<part, vars, tagVars, opVars>>
    \/ part = "tags" /\ Speech!Next /\ UNCHANGED <<part, vars, turnVars, opVars>>
    \/ part = "operators" /\ Operators!Next /\ UNCHANGED <<part, vars, turnVars, tagVars>>
    \/ Over
MCSpec == MCInit /\ [][MCNext]_<<part, vars, turnVars, tagVars, opVars>>

\* anthropic_context.go:161: see ContextPaired, SinceCompaction and EachEnds of
\* AssistantTurn; server.go:624, executor.go:155: RepliesFollow, OwnerLost and
\* OfferedRuns of OperatorChat.
TurnsHold ==
    /\ part = "turn" => Loop!TypeOK /\ Loop!ContextPaired /\ Loop!SinceCompaction /\ Loop!EachEnds
    /\ part = "operators" => /\ Operators!TypeOK /\ Operators!RepliesFollow /\ Operators!OwnerLost
                             /\ Operators!OfferedRuns

StreamedIsParsed == part = "tags" => Speech!StreamedIsParsed

\* Connections are interchangeable, and so are message ids.
Symmetric == Permutations(Conn) \cup Permutations(Id)
=============================================================================
