------------------------- MODULE CopilotChat_proofs -------------------------
(* Proofs about CopilotChat: for any connections, sessions, message ids,     *)
(* limit on the messages kept and bound on failures, a message is on show    *)
(* once with one reply, its reply lands where it was asked, and a session's  *)
(* context is abreast of its replies.  About AssistantTurn: for any tool     *)
(* uses, limits on iterations and turns, every context is paired and holds   *)
(* all since the last summary.  About OperatorChat: for any sessions, users, *)
(* callers, requests, limit and bound, replies follow their questions,       *)
(* owners stay, and what runs is what its caller may run.                    *)
EXTENDS MCCopilotChat, FiniteSetTheorems, SequenceTheorems, TLAPS

-----------------------------------------------------------------------------
(* The assistant's turn                                                    *)

\* A sequence's members.
In(q) == {q[i] : i \in DOMAIN q}
Phases == {"idle", "call", "tools", "encode"}
LoopTypes ==
    /\ ctx \in Seq(Loop!Message) /\ stored \in Seq(Loop!Message) /\ whole \in Seq(Loop!Message) /\ kept \in Seq(Loop!Message)
    /\ turn \in [pc : Phases, iter : 0 .. MaxIter, last : {Loop!NoText, "text"}, exhausted : BOOLEAN]
    /\ todo \in Seq(Use) /\ got \subseteq Use /\ turns \in 0 .. MaxTurns
    /\ progress \in [started : Seq(Use), complete : Seq(Use)]

\* A turn that may still call has not run out; one that is to be stored has
\* the last answer's text, or has run out.
Counted ==
    /\ turn.pc \in {"call", "tools"} => turn.iter < MaxIter /\ turn.exhausted
    /\ turn.pc = "encode" =>
         /\ turn.exhausted <=> turn.iter = MaxIter
         /\ ~turn.exhausted => ctx # <<>> /\ turn.last = IF ctx[Len(ctx)].text THEN "text" ELSE Loop!NoText

\* Paired, but for the uses of the last message, and Paired said of the last.
PairedSoFar(c) ==
    \A i \in DOMAIN c :
        /\ c[i].uses # {} /\ i < Len(c) => c[i + 1].results = c[i].uses
        /\ c[i].results # {} => i > 1 /\ c[i - 1].uses = c[i].results
Settled(c) == PairedSoFar(c) /\ (c # <<>> => c[Len(c)].uses = {})
Pairs ==
    /\ Settled(stored) /\ (turn.pc \in {"call", "encode"} => Settled(ctx))
    /\ turn.pc = "tools" => PairedSoFar(ctx) /\ ctx # <<>> /\ ctx[Len(ctx)].uses = got \cup In(todo)

\* Where a history was compacted; the last of the places, when there is one.
Cuts(w) == {i \in DOMAIN w : w[i].compaction = "valid"}
HasLast(w) == Cuts(w) # {} => \E i \in Cuts(w) : \A j \in Cuts(w) : j =< i
LastCut(w) == CHOOSE i \in Cuts(w) : \A j \in Cuts(w) : j =< i
Since(w) == IF Cuts(w) = {} THEN w ELSE SubSeq(w, LastCut(w), Len(w))
Compacted == /\ HasLast(whole) /\ HasLast(kept)
             /\ turn.pc # "idle" => ctx = Since(whole)
             /\ stored = Since(kept)

\* What the client has heard end it has heard start, once; while the tools run
\* it has heard start no more than what has ended and what is still to run.
Distinct(q) == \A i, j \in DOMAIN q : q[i] = q[j] => i = j
Heard ==
    /\ In(progress.complete) \subseteq In(progress.started) /\ Distinct(progress.complete)
    /\ turn.pc \in {"call", "encode"} => In(progress.started) \subseteq In(progress.complete)
    /\ turn.pc \in {"call", "tools"} => In(progress.complete) \subseteq Loop!Used
    /\ turn.pc = "tools" => /\ Distinct(todo) /\ In(todo) \subseteq Loop!Used /\ In(todo) \cap In(progress.complete) = {}
                            /\ In(progress.started) \subseteq In(progress.complete) \cup In(todo)

LoopInv == LoopTypes /\ Counted /\ Pairs /\ Compacted /\ Heard

-----------------------------------------------------------------------------

LEMMA InNone == In(<<>>) = {} /\ Distinct(<<>>)
BY DEF In, Distinct

LEMMA InAppend ==
    ASSUME NEW S, NEW q \in Seq(S), NEW x \in S
    PROVE  /\ In(Append(q, x)) = In(q) \cup {x} /\ Append(q, x) \in Seq(S)
           /\ Distinct(q) /\ x \notin In(q) => Distinct(Append(q, x))
<1>1. /\ Append(q, x) \in Seq(S) /\ Len(q) \in Nat /\ DOMAIN q = 1 .. Len(q) /\ DOMAIN Append(q, x) = 1 .. Len(q) + 1
      /\ \A i \in 1 .. Len(q) : Append(q, x)[i] = q[i]
      /\ Append(q, x)[Len(q) + 1] = x
  BY AppendProperties
<1>2. In(Append(q, x)) = In(q) \cup {x}
  <2>1. \A i \in DOMAIN Append(q, x) : i \in DOMAIN q \/ i = Len(q) + 1
    BY <1>1
  <2>2. \A i \in DOMAIN q : i \in DOMAIN Append(q, x) /\ Append(q, x)[i] = q[i]
    BY <1>1
  <2>3. Len(q) + 1 \in DOMAIN Append(q, x)
    BY <1>1
  <2>4. QED
    BY <1>1, <2>1, <2>2, <2>3 DEF In
<1>3. ASSUME Distinct(q), x \notin In(q) PROVE Distinct(Append(q, x))
  <2>1. \A i \in DOMAIN Append(q, x) : (i \in DOMAIN q /\ Append(q, x)[i] = q[i]) \/ (i = Len(q) + 1 /\ Append(q, x)[i] = x)
    BY <1>1
  <2>2. \A i \in DOMAIN q : q[i] # x
    BY <1>3 DEF In
  <2>3. QED
    BY <1>3, <2>1, <2>2 DEF Distinct
<1>4. QED
  BY <1>1, <1>2, <1>3

LEMMA InTail ==
    ASSUME NEW S, NEW q \in Seq(S), q # <<>>
    PROVE  /\ Head(q) \in S /\ Tail(q) \in Seq(S) /\ In(q) = In(Tail(q)) \cup {Head(q)}
           /\ Distinct(q) => Distinct(Tail(q)) /\ Head(q) \notin In(Tail(q))
<1>1. /\ Head(q) \in S /\ Tail(q) \in Seq(S) /\ Len(Tail(q)) = Len(q) - 1 /\ Len(q) \in Nat \ {0}
      /\ \A i \in 1 .. Len(q) - 1 : Tail(q)[i] = q[i + 1]
      /\ DOMAIN q = 1 .. Len(q) /\ DOMAIN Tail(q) = 1 .. Len(q) - 1 /\ Head(q) = q[1]
  BY HeadTailProperties, EmptySeq
<1>2. \A i \in DOMAIN q : i = 1 \/ (i - 1 \in DOMAIN Tail(q) /\ Tail(q)[i - 1] = q[i])
  BY <1>1
<1>3. \A i \in DOMAIN Tail(q) : i + 1 \in DOMAIN q /\ i + 1 # 1 /\ Tail(q)[i] = q[i + 1]
  BY <1>1
<1>4. In(q) = In(Tail(q)) \cup {Head(q)}
  <2>1. 1 \in DOMAIN q
    BY <1>1
  <2>2. QED
    BY <1>1, <1>2, <1>3, <2>1 DEF In
<1>5. ASSUME Distinct(q) PROVE Distinct(Tail(q)) /\ Head(q) \notin In(Tail(q))
  <2>1. \A i, j \in DOMAIN Tail(q) : i + 1 = j + 1 => i = j
    BY <1>1
  <2>2. Distinct(Tail(q))
    BY <1>3, <1>5, <2>1 DEF Distinct
  <2>3. Head(q) \notin In(Tail(q))
    <3>1. 1 \in DOMAIN q
      BY <1>1
    <3>2. QED
      BY <1>1, <1>3, <1>5, <3>1 DEF Distinct, In
  <2>4. QED
    BY <2>2, <2>3
<1>6. QED
  BY <1>1, <1>4, <1>5

LEMMA InBoth ==
    ASSUME NEW S, NEW q \in Seq(S), NEW r \in Seq(S)
    PROVE  q \o r \in Seq(S) /\ In(q \o r) = In(q) \cup In(r)
<1>1. /\ q \o r \in Seq(S) /\ Len(q) \in Nat /\ Len(r) \in Nat /\ Len(q \o r) = Len(q) + Len(r)
      /\ DOMAIN q = 1 .. Len(q) /\ DOMAIN r = 1 .. Len(r) /\ DOMAIN (q \o r) = 1 .. Len(q) + Len(r)
      /\ \A i \in 1 .. Len(q) : (q \o r)[i] = q[i]
      /\ \A i \in 1 .. Len(r) : (q \o r)[i + Len(q)] = r[i]
  BY ConcatProperties
<1>2. \A i \in DOMAIN (q \o r) : (i \in DOMAIN q /\ (q \o r)[i] = q[i]) \/ (i - Len(q) \in DOMAIN r /\ (q \o r)[i] = r[i - Len(q)])
  <2>1. ASSUME NEW i \in 1 .. Len(q) + Len(r), i \notin 1 .. Len(q)
        PROVE  i - Len(q) \in 1 .. Len(r) /\ (i - Len(q)) + Len(q) = i
    BY <1>1, <2>1
  <2>2. QED
    BY <1>1, <2>1
<1>3. \A i \in DOMAIN q : i \in DOMAIN (q \o r) /\ (q \o r)[i] = q[i]
  BY <1>1
<1>4. \A i \in DOMAIN r : i + Len(q) \in DOMAIN (q \o r) /\ (q \o r)[i + Len(q)] = r[i]
  BY <1>1
<1>5. In(q \o r) \subseteq In(q) \cup In(r)
  BY <1>2 DEF In
<1>6. In(q) \cup In(r) \subseteq In(q \o r)
  BY <1>3, <1>4 DEF In
<1>7. QED
  BY <1>1, <1>5, <1>6

\* The uses of an answer, in some order, are all of them.
LEMMA AllInOrder ==
    ASSUME NEW U, IsFiniteSet(U), NEW q \in [1 .. Cardinality(U) -> U], Distinct(q)
    PROVE  q \in Seq(U) /\ In(q) = U
<1>1. Cardinality(U) \in Nat /\ IsFiniteSet(1 .. Cardinality(U)) /\ Cardinality(1 .. Cardinality(U)) = Cardinality(U)
  BY FS_CardinalityType, FS_Interval
<1>2. q \in Injection(1 .. Cardinality(U), U)
  BY DEF Injection, IsInjective, Distinct
<1>3. q \in Surjection(1 .. Cardinality(U), U)
  BY <1>1, <1>2, FS_Injection
<1>4. In(q) = U
  BY <1>3 DEF Surjection, In
<1>5. QED
  BY <1>1, <1>4

-----------------------------------------------------------------------------
(* Contexts: pairs, and what a compaction leaves.                          *)

LEMMA SettledIsPaired ==
    ASSUME NEW S, NEW c \in Seq(S)
    PROVE  Settled(c) <=> Loop!Paired(c)
<1>1. Len(c) \in Nat /\ DOMAIN c = 1 .. Len(c) /\ (c # <<>> <=> Len(c) # 0)
  BY EmptySeq
<1>2. ASSUME Settled(c) PROVE Loop!Paired(c)
  <2>1. \A i \in DOMAIN c : c[i].uses # {} => i # Len(c)
    BY <1>1, <1>2 DEF Settled
  <2>2. QED
    BY <1>1, <1>2, <2>1 DEF Settled, PairedSoFar, Loop!Paired
<1>3. ASSUME Loop!Paired(c) PROVE Settled(c)
  <2>1. c # <<>> => c[Len(c)].uses = {}
    <3>1. ASSUME c # <<>> PROVE Len(c) \in DOMAIN c /\ ~(Len(c) < Len(c))
      BY <1>1, <3>1
    <3>2. QED
      BY <1>3, <3>1 DEF Loop!Paired
  <2>2. QED
    BY <1>3, <2>1 DEF Settled, PairedSoFar, Loop!Paired
<1>4. QED
  BY <1>2, <1>3

LEMMA PairedAppend ==
    ASSUME NEW S, NEW c \in Seq(S), NEW m \in S, PairedSoFar(c),
           c # <<>> => c[Len(c)].uses = m.results,
           c = <<>> => m.results = {}
    PROVE  PairedSoFar(Append(c, m)) /\ (m.uses = {} => Settled(Append(c, m)))
<1>1. PICK d \in Seq(S) : d = Append(c, m)
  BY AppendProperties
<1>2. /\ Len(c) \in Nat /\ DOMAIN c = 1 .. Len(c) /\ Len(d) = Len(c) + 1 /\ DOMAIN d = 1 .. Len(c) + 1 /\ d # <<>>
      /\ (c = <<>> <=> Len(c) = 0)
      /\ \A i \in 1 .. Len(c) : d[i] = c[i]
      /\ d[Len(c) + 1] = m
  BY <1>1, AppendProperties, EmptySeq
<1>3. ASSUME NEW i \in 1 .. Len(c)
      PROVE  /\ d[i].uses # {} /\ i < Len(d) => d[i + 1].results = d[i].uses
             /\ d[i].results # {} => i > 1 /\ d[i - 1].uses = d[i].results
  <2>1. CASE i < Len(c)
    <3>1. i + 1 \in 1 .. Len(c) /\ (i > 1 => i - 1 \in 1 .. Len(c))
      BY <1>2, <2>1
    <3>2. QED
      BY <1>2, <2>1, <3>1 DEF PairedSoFar
  <2>2. CASE i = Len(c)
    <3>1. c # <<>> /\ (i > 1 => i - 1 \in 1 .. Len(c)) /\ d[i + 1] = m /\ d[i] = c[i] /\ i \in DOMAIN c
      BY <1>2, <2>2
    <3>2. d[i].results # {} => i > 1 /\ d[i - 1].uses = d[i].results
      BY <1>2, <3>1 DEF PairedSoFar
    <3>3. QED
      BY <2>2, <3>1, <3>2
  <2>3. QED
    <3>1. i < Len(c) \/ i = Len(c)
      BY <1>2
    <3>2. QED
      BY <2>1, <2>2, <3>1
<1>4. /\ ~(Len(d) < Len(d))
      /\ d[Len(d)].results # {} => Len(d) > 1 /\ d[Len(d) - 1].uses = d[Len(d)].results
  <2>1. c # <<>> => Len(c) \in 1 .. Len(c) /\ d[Len(c)] = c[Len(c)] /\ Len(d) - 1 = Len(c) /\ Len(d) > 1
    BY <1>2
  <2>2. QED
    BY <1>2, <2>1
<1>5. PairedSoFar(d)
  <2>1. \A i \in DOMAIN d : i \in 1 .. Len(c) \/ i = Len(d)
    BY <1>2
  <2>2. QED
    BY <1>3, <1>4, <2>1 DEF PairedSoFar
<1>6. m.uses = {} => Settled(d)
  BY <1>2, <1>5 DEF Settled
<1>7. QED
  BY <1>1, <1>5, <1>6

\* One message more: it is the last cut, or goes behind what there was.
LEMMA SinceAppend ==
    ASSUME NEW S, NEW w \in Seq(S), NEW m \in S, HasLast(w)
    PROVE  /\ HasLast(Append(w, m))
           /\ Since(w) \in Seq(S)
           /\ Since(Append(w, m)) = IF m.compaction = "valid" THEN <<m>> ELSE Append(Since(w), m)
<1>1. PICK d \in Seq(S) : d = Append(w, m)
  BY AppendProperties
<1>2. /\ Len(w) \in Nat /\ DOMAIN w = 1 .. Len(w) /\ Len(d) = Len(w) + 1 /\ DOMAIN d = 1 .. Len(w) + 1
      /\ \A i \in 1 .. Len(w) : d[i] = w[i]
      /\ d[Len(w) + 1] = m
  BY <1>1, AppendProperties
<1>3. Cuts(w) \subseteq 1 .. Len(w)
  BY <1>2 DEF Cuts
<1>4. Cuts(w) # {} => LastCut(w) \in Cuts(w) /\ \A j \in Cuts(w) : j =< LastCut(w)
  BY DEF HasLast, LastCut
<1>5. Since(w) \in Seq(S)
  <2>1. CASE Cuts(w) = {}
    BY <2>1 DEF Since
  <2>2. CASE Cuts(w) # {}
    <3>1. LastCut(w) \in 1 .. Len(w) /\ \A i \in LastCut(w) .. Len(w) : w[i] \in S
      BY <1>2, <1>3, <1>4, <2>2, ElementOfSeq
    <3>2. SubSeq(w, LastCut(w), Len(w)) \in Seq(S)
      BY <1>2, <3>1, SubSeqProperties
    <3>3. QED
      BY <2>2, <3>2 DEF Since
  <2>3. QED
    BY <2>1, <2>2
<1>6. CASE m.compaction = "valid"
  <2>1. Cuts(d) = Cuts(w) \cup {Len(d)}
    <3>1. \A i \in DOMAIN d : i \in 1 .. Len(w) \/ i = Len(d)
      BY <1>2
    <3>2. \A i \in 1 .. Len(w) : i \in DOMAIN d /\ i # Len(d)
      BY <1>2
    <3>3. Len(d) \in DOMAIN d /\ d[Len(d)] = m
      BY <1>2
    <3>4. QED
      BY <1>2, <1>6, <3>1, <3>2, <3>3 DEF Cuts
  <2>2. Len(d) \in Cuts(d) /\ \A j \in Cuts(d) : j =< Len(d)
    BY <1>2, <1>3, <2>1
  <2>3. \A i \in Cuts(d) : (\A j \in Cuts(d) : j =< i) => i = Len(d)
    BY <1>2, <1>3, <2>1
  <2>4. LastCut(d) = Len(d)
    BY <2>2, <2>3 DEF LastCut
  <2>5. SubSeq(d, Len(d), Len(d)) = <<m>>
    <3>1. Len(d) \in Int /\ d[Len(d)] = m /\ \A i \in Len(d) .. Len(d) : d[i] \in S
      BY <1>2
    <3>2. PICK e \in Seq(S) : e = SubSeq(d, Len(d), Len(d))
      BY <3>1, SubSeqProperties
    <3>3. Len(e) = 1 /\ e[1] = d[Len(d)]
      BY <1>2, <3>1, <3>2
    <3>4. e = <<m>>
      <4>1. <<m>> \in Seq(S) /\ Len(<<m>>) = 1 /\ <<m>>[1] = m
        OBVIOUS
      <4>2. \A i \in 1 .. Len(e) : i = 1
        BY <3>3
      <4>3. PICK f \in Seq(S) : f = <<m>> /\ Len(f) = 1 /\ f[1] = m
        BY <4>1
      <4>4. e = f
        BY <3>1, <3>3, <4>2, <4>3, SeqEqual
      <4>5. QED
        BY <4>3, <4>4
    <3>5. QED
      BY <3>2, <3>4
  <2>6. QED
    BY <1>1, <1>5, <1>6, <2>1, <2>2, <2>4, <2>5 DEF HasLast, Since
<1>7. CASE m.compaction # "valid"
  <2>1. Cuts(d) = Cuts(w)
    <3>1. \A i \in DOMAIN d : i \in 1 .. Len(w) \/ (i = Len(d) /\ d[i] = m)
      BY <1>2
    <3>2. \A i \in 1 .. Len(w) : i \in DOMAIN d
      BY <1>2
    <3>3. QED
      BY <1>2, <1>7, <3>1, <3>2 DEF Cuts
  <2>2. HasLast(d) /\ LastCut(d) = LastCut(w)
    BY <2>1 DEF HasLast, LastCut
  <2>3. CASE Cuts(w) = {}
    BY <1>1, <1>5, <1>7, <2>1, <2>2, <2>3 DEF Since
  <2>4. CASE Cuts(w) # {}
    <3>1. PICK k \in 1 .. Len(w) : k = LastCut(w)
      BY <1>3, <1>4, <2>4
    <3>2. SubSeq(d, k, Len(d)) = SubSeq(d, k, Len(d) - 1) \o <<d[Len(d)]>>
      <4>1. k \in 1 .. Len(d) /\ Len(d) \in k .. Len(d)
        BY <1>2
      <4>2. QED
        BY <4>1, SubSeqRecursiveSecond
    <3>3. SubSeq(d, k, Len(d) - 1) = SubSeq(w, k, Len(w))
      <4>1. Len(d) - 1 = Len(w) /\ k \in 1 .. Len(w) /\ Len(w) \in 1 .. Len(w) /\ \A i \in k .. Len(w) : d[i] = w[i] /\ w[i] \in S
        BY <1>2, ElementOfSeq
      <4>2. QED
        BY <1>2, <4>1
    <3>4. Since(d) = Since(w) \o <<m>>
      BY <1>2, <2>1, <2>2, <2>4, <3>1, <3>2, <3>3 DEF Since
    <3>5. Since(w) \o <<m>> = Append(Since(w), m)
      BY <1>5, AppendIsConcat
    <3>6. QED
      BY <1>1, <1>5, <1>7, <2>2, <3>4, <3>5
  <2>5. QED
    BY <2>3, <2>4
<1>8. QED
  BY <1>6, <1>7

LEMMA LastAppended ==
    ASSUME NEW S, NEW c \in Seq(S), NEW m \in S
    PROVE  /\ Append(c, m) \in Seq(S) /\ Append(c, m) # <<>> /\ Append(c, m)[Len(Append(c, m))] = m
<1>1. PICK d \in Seq(S) : d = Append(c, m) /\ Len(d) = Len(c) + 1 /\ d[Len(c) + 1] = m
  BY AppendProperties
<1>2. Len(c) \in Nat
  OBVIOUS
<1>3. QED
  BY <1>1, <1>2, EmptySeq

\* A history is empty when what is left of it is.
LEMMA SinceEmpty ==
    ASSUME NEW S, NEW w \in Seq(S), HasLast(w)
    PROVE  Since(w) \in Seq(S) /\ (Since(w) = <<>> <=> w = <<>>)
<1>1. Len(w) \in Nat /\ DOMAIN w = 1 .. Len(w)
  OBVIOUS
<1>2. CASE Cuts(w) = {}
  BY <1>2 DEF Since
<1>3. CASE Cuts(w) # {}
  <2>1. LastCut(w) \in Cuts(w)
    BY <1>3 DEF HasLast, LastCut
  <2>2. PICK k \in 1 .. Len(w) : k = LastCut(w)
    BY <1>1, <2>1 DEF Cuts
  <2>3. Len(w) # 0 /\ w # <<>> /\ \A i \in k .. Len(w) : w[i] \in S
    BY <1>1, <2>2, EmptySeq
  <2>4. SubSeq(w, k, Len(w)) \in Seq(S) /\ Len(SubSeq(w, k, Len(w))) = (Len(w) - k) + 1
    BY <1>1, <2>2, <2>3, SubSeqProperties
  <2>5. SubSeq(w, k, Len(w)) # <<>>
    <3>1. PICK e \in Seq(S) : e = SubSeq(w, k, Len(w)) /\ Len(e) = (Len(w) - k) + 1
      BY <2>4
    <3>2. Len(e) # 0
      BY <1>1, <2>2, <3>1
    <3>3. QED
      BY <3>1, <3>2, EmptySeq
  <2>6. QED
    BY <1>3, <2>2, <2>3, <2>4, <2>5 DEF Since
<1>4. QED
  BY <1>2, <1>3

\* The instance's operators of the standard modules are those.
LEMMA LoopCardinality == \A S : Loop!Cardinality(S) = Cardinality(S)
BY DEF Loop!Cardinality, Cardinality

LEMMA LoopNumbers == LoopTypes => /\ turns \in Nat /\ turns \in 0 .. MaxTurns /\ turn.iter \in Nat /\ turn.iter \in 0 .. MaxIter
                                  /\ MaxIter \in Nat /\ 0 < MaxIter /\ MaxTurns \in Nat
<1>1. LoopTypes => turns \in 0 .. MaxTurns /\ turn.iter \in 0 .. MaxIter
  BY DEF LoopTypes
<1>2. MaxIter \in Nat /\ 0 < MaxIter /\ MaxTurns \in Nat
  BY TurnAssumption DEF TurnAssumption
<1>3. QED
  BY <1>1, <1>2

\* A question as it is put to the model; the history there is without a context.
LEMMA AQuestion ==
    ASSUME NEW n \in Nat, n < MaxTurns, NEW image \in {{}, {n + 1}},
           NEW x, x = [role |-> "user", uses |-> {}, results |-> {}, text |-> TRUE, image |-> image, compaction |-> "none"]
    PROVE  x \in Loop!Message /\ x.uses = {} /\ x.results = {} /\ x.compaction # "valid"
<1>1. n + 1 \in 1 .. MaxTurns
  BY TurnAssumption DEF TurnAssumption
<1>2. image \in {{}} \cup {{t} : t \in 1 .. MaxTurns}
  BY <1>1
<1>3. PICK J : J = {{}} \cup {{t} : t \in 1 .. MaxTurns}
  OBVIOUS
<1>4. Loop!Message = [role : {"user", "assistant"}, uses : SUBSET Use, results : SUBSET Use, text : BOOLEAN,
                      image : J, compaction : {"none", "null", "valid"}]
  BY <1>3 DEF Loop!Message
<1>5. image \in J
  BY <1>2, <1>3
<1>6. QED
  BY <1>4, <1>5

LEMMA HistoryHolds ==
    ASSUME turns \in Nat
    PROVE  Loop!History \in Seq(Loop!Message) /\ Settled(Loop!History) /\ Cuts(Loop!History) = {}
<1>1. PICK z : z = Loop!Said("user", TRUE)
  OBVIOUS
<1>2. z = [role |-> "user", uses |-> {}, results |-> {}, text |-> TRUE, image |-> {}, compaction |-> "none"]
  BY <1>1 DEF Loop!Said
<1>3. z \in Loop!Message /\ z.uses = {} /\ z.results = {} /\ z.compaction = "none"
  BY <1>2 DEF Loop!Message
<1>4. PICK h : h = Loop!History
  OBVIOUS
<1>5. h = [i \in 1 .. turns |-> z]
  BY <1>1, <1>4 DEF Loop!History
<1>6. h \in Seq(Loop!Message) /\ DOMAIN h = 1 .. turns /\ Len(h) = turns /\ \A i \in 1 .. turns : h[i] = z
  BY <1>3, <1>5
<1>7. h # <<>> => Len(h) \in DOMAIN h
  BY <1>6, EmptySeq
<1>8. QED
  BY <1>3, <1>4, <1>6, <1>7 DEF Settled, PairedSoFar, Cuts

LEMMA UsedMore ==
    ASSUME LoopTypes, NEW m \in Loop!Message, whole' = Append(whole, m)
    PROVE  Loop!Used' = Loop!Used \cup m.uses
<1>1. PICK w : w = whole'
  OBVIOUS
<1>0. whole \in Seq(Loop!Message) /\ w = Append(whole, m)
  BY <1>1 DEF LoopTypes
<1>2. /\ Len(whole) \in Nat /\ DOMAIN whole = 1 .. Len(whole) /\ DOMAIN w = 1 .. Len(whole) + 1
      /\ \A i \in 1 .. Len(whole) : w[i] = whole[i]
      /\ w[Len(whole) + 1] = m
  BY <1>0, AppendProperties
<1>3. \A i \in DOMAIN w : i \in DOMAIN whole \/ i = Len(whole) + 1
  BY <1>2
<1>4. \A i \in DOMAIN whole : i \in DOMAIN w /\ w[i] = whole[i]
  BY <1>2
<1>5. Len(whole) + 1 \in DOMAIN w
  BY <1>2
<1>6. UNION {w[i].uses : i \in DOMAIN w} = (UNION {whole[i].uses : i \in DOMAIN whole}) \cup m.uses
  BY <1>2, <1>3, <1>4, <1>5
<1>7. QED
  BY <1>1, <1>6 DEF Loop!Used

-----------------------------------------------------------------------------
(* The loop's steps.                                                       *)

LEMMA LoopBegins ==
    ASSUME Loop!Init
    PROVE  LoopInv
<1>1. MaxIter \in Nat /\ 0 < MaxIter /\ MaxTurns \in Nat
  BY TurnAssumption DEF TurnAssumption
<1>2. Settled(<<>>) /\ HasLast(<<>>) /\ Since(<<>>) = <<>>
  BY DEF Settled, PairedSoFar, HasLast, Since, Cuts
<1>3. turn = [pc |-> "idle", iter |-> 0, last |-> Loop!NoText, exhausted |-> TRUE]
  BY DEF Loop!Init, Loop!Idle
<1>4. progress = [started |-> <<>>, complete |-> <<>>]
  BY DEF Loop!Init, Loop!Quiet
<1>5. LoopTypes
  <2>1. /\ ctx \in Seq(Loop!Message) /\ stored \in Seq(Loop!Message) /\ whole \in Seq(Loop!Message) /\ kept \in Seq(Loop!Message)
        /\ todo \in Seq(Use) /\ got \subseteq Use /\ turns \in 0 .. MaxTurns
    BY <1>1, EmptySeq DEF Loop!Init
  <2>2. turn \in [pc : Phases, iter : 0 .. MaxIter, last : {Loop!NoText, "text"}, exhausted : BOOLEAN]
    BY <1>1, <1>3 DEF Phases
  <2>3. progress \in [started : Seq(Use), complete : Seq(Use)]
    BY <1>4, EmptySeq
  <2>4. QED
    BY <2>1, <2>2, <2>3 DEF LoopTypes
<1>6. Counted /\ Pairs /\ Compacted
  <2>1. turn.pc = "idle" /\ stored = <<>> /\ whole = <<>> /\ kept = <<>>
    BY <1>3 DEF Loop!Init
  <2>2. Counted
    BY <2>1 DEF Counted
  <2>3. Pairs
    BY <1>2, <2>1 DEF Pairs
  <2>4. Compacted
    BY <1>2, <2>1 DEF Compacted
  <2>5. QED
    BY <2>2, <2>3, <2>4
<1>7. Heard
  BY <1>3, <1>4, InNone DEF Heard
<1>8. QED
  BY <1>5, <1>6, <1>7 DEF LoopInv

LEMMA BeginKeeps ==
    ASSUME LoopInv, Loop!Begin
    PROVE  LoopInv'
<1>1. MaxIter \in Nat /\ 0 < MaxIter /\ MaxTurns \in Nat /\ turns \in 0 .. MaxTurns /\ turns < MaxTurns
  BY LoopNumbers DEF LoopInv, Loop!Begin
<1>2. PICK image \in {{}, {turns + 1}} : \E x :
          /\ x = [Loop!Said("user", TRUE) EXCEPT !.image = image]
          /\ ctx' = Append(Loop!Or(stored, Loop!History), x) /\ whole' = Append(Loop!Or(kept, Loop!History), x)
  BY DEF Loop!Begin
<1>0. PICK x :
          /\ x = [Loop!Said("user", TRUE) EXCEPT !.image = image]
          /\ ctx' = Append(Loop!Or(stored, Loop!History), x) /\ whole' = Append(Loop!Or(kept, Loop!History), x)
  BY <1>2
<1>3. x \in Loop!Message /\ x.uses = {} /\ x.results = {} /\ x.compaction # "valid"
  <2>1. x = [role |-> "user", uses |-> {}, results |-> {}, text |-> TRUE, image |-> image, compaction |-> "none"]
    BY <1>0 DEF Loop!Said
  <2>2. QED
    BY <1>1, <2>1, AQuestion
<1>4. Loop!History \in Seq(Loop!Message) /\ Settled(Loop!History) /\ Cuts(Loop!History) = {}
  BY <1>1, HistoryHolds
<1>5. PICK c, w : c = Loop!Or(stored, Loop!History) /\ w = Loop!Or(kept, Loop!History)
  OBVIOUS
<1>6. stored \in Seq(Loop!Message) /\ kept \in Seq(Loop!Message) /\ HasLast(kept) /\ stored = Since(kept) /\ Settled(stored)
  BY DEF LoopInv, LoopTypes, Compacted, Pairs
<1>7. (stored = <<>> <=> kept = <<>>)
  BY <1>6, SinceEmpty
<1>8. c \in Seq(Loop!Message) /\ w \in Seq(Loop!Message) /\ Settled(c) /\ HasLast(w) /\ c = Since(w)
  BY <1>4, <1>5, <1>6, <1>7 DEF Loop!Or, HasLast, Since
<1>9. PICK d \in Seq(Loop!Message), v \in Seq(Loop!Message) : d = Append(c, x) /\ v = Append(w, x)
  BY <1>3, <1>8, AppendProperties
<1>10. Settled(d)
  <2>1. PairedSoFar(c) /\ (c # <<>> => c[Len(c)].uses = x.results) /\ (c = <<>> => x.results = {})
    BY <1>3, <1>8 DEF Settled
  <2>2. QED
    BY <1>3, <1>8, <1>9, <2>1, PairedAppend
<1>11. HasLast(v) /\ d = Since(v)
  BY <1>3, <1>8, <1>9, SinceAppend
<1>12. /\ turn' = [pc |-> "call", iter |-> 0, last |-> Loop!NoText, exhausted |-> TRUE]
       /\ progress' = [started |-> <<>>, complete |-> <<>>]
       /\ turns' = turns + 1 /\ UNCHANGED <<todo, got, stored, kept>> /\ ctx' = d /\ whole' = v
  BY <1>0, <1>5, <1>9 DEF Loop!Begin, Loop!Idle, Loop!Quiet
<1>13. LoopTypes'
  <2>1. turns' \in 0 .. MaxTurns
    BY <1>1, <1>12
  <2>2. QED
    <3>1. turn' \in [pc : Phases, iter : 0 .. MaxIter, last : {Loop!NoText, "text"}, exhausted : BOOLEAN]
      BY <1>1, <1>12 DEF Phases
    <3>2. progress' \in [started : Seq(Use), complete : Seq(Use)]
      BY <1>12, EmptySeq
    <3>3. /\ ctx' \in Seq(Loop!Message) /\ stored' \in Seq(Loop!Message) /\ whole' \in Seq(Loop!Message) /\ kept' \in Seq(Loop!Message)
          /\ todo' \in Seq(Use) /\ got' \subseteq Use
      BY <1>12 DEF LoopInv, LoopTypes
    <3>4. QED
      BY <2>1, <3>1, <3>2, <3>3 DEF LoopTypes
<1>14. Counted'
  BY <1>1, <1>12 DEF Counted
<1>15. Pairs'
  BY <1>6, <1>10, <1>12 DEF Pairs
<1>16. Compacted'
  BY <1>6, <1>11, <1>12 DEF Compacted
<1>17. Heard'
  BY <1>12, InNone DEF Heard
<1>18. QED
  BY <1>13, <1>14, <1>15, <1>16, <1>17 DEF LoopInv

\* An answer: what it adds to the context, and its uses in the order they run.
LEMMA AnAnswer ==
    ASSUME NEW u \in SUBSET Use, NEW t \in BOOLEAN, NEW k \in {"none", "null", "valid"},
           NEW m, m = [role |-> "assistant", uses |-> u, results |-> {}, text |-> t, image |-> {}, compaction |-> k]
    PROVE  m \in Loop!Message /\ m.uses = u /\ m.results = {} /\ m.text = t
<1>1. PICK J : J = {{}} \cup {{n} : n \in 1 .. MaxTurns}
  OBVIOUS
<1>2. {} \in J
  BY <1>1
<1>3. Loop!Message = [role : {"user", "assistant"}, uses : SUBSET Use, results : SUBSET Use, text : BOOLEAN,
                      image : J, compaction : {"none", "null", "valid"}]
  BY <1>1 DEF Loop!Message
<1>4. QED
  BY <1>2, <1>3

LEMMA CallKeeps ==
    ASSUME LoopInv, Loop!Call
    PROVE  LoopInv'
<1>1. /\ turn.pc = "call" /\ UNCHANGED <<stored, turns, kept>>
      /\ turns \in 0 .. MaxTurns /\ turn.iter \in 0 .. MaxIter /\ turn.iter < MaxIter /\ turn.exhausted
      /\ MaxIter \in Nat /\ MaxTurns \in Nat /\ turn.iter \in Nat
  BY LoopNumbers DEF LoopInv, Counted, Loop!Call
<1>2. /\ ctx \in Seq(Loop!Message) /\ stored \in Seq(Loop!Message) /\ whole \in Seq(Loop!Message) /\ kept \in Seq(Loop!Message)
      /\ turn \in [pc : Phases, iter : 0 .. MaxIter, last : {Loop!NoText, "text"}, exhausted : BOOLEAN]
      /\ todo \in Seq(Use) /\ got \subseteq Use
      /\ progress \in [started : Seq(Use), complete : Seq(Use)]
  BY DEF LoopInv, LoopTypes
<1>3. /\ Settled(stored) /\ Settled(ctx) /\ HasLast(whole) /\ HasLast(kept) /\ ctx = Since(whole) /\ stored = Since(kept)
      /\ In(progress.complete) \subseteq In(progress.started) /\ Distinct(progress.complete)
      /\ In(progress.started) \subseteq In(progress.complete) /\ In(progress.complete) \subseteq Loop!Used
  BY <1>1 DEF LoopInv, Pairs, Compacted, Heard
<1>4. CASE turn' = Loop!Idle /\ UNCHANGED <<ctx, whole, todo, got, progress>>
  <2>1. turn' = [pc |-> "idle", iter |-> 0, last |-> Loop!NoText, exhausted |-> TRUE]
    BY <1>4 DEF Loop!Idle
  <2>2. LoopTypes'
    <3>1. turn' \in [pc : Phases, iter : 0 .. MaxIter, last : {Loop!NoText, "text"}, exhausted : BOOLEAN]
      BY <1>1, <2>1 DEF Phases
    <3>2. QED
      BY <1>1, <1>2, <1>4, <3>1 DEF LoopTypes
  <2>3. turn'.pc = "idle"
    BY <2>1
  <2>4. Counted'
    BY <2>3 DEF Counted
  <2>5. Pairs'
    BY <1>1, <1>3, <2>3 DEF Pairs
  <2>6. Compacted'
    BY <1>1, <1>3, <1>4, <2>3 DEF Compacted
  <2>7. Heard'
    BY <1>3, <1>4, <2>3 DEF Heard
  <2>8. QED
    BY <2>2, <2>4, <2>5, <2>6, <2>7 DEF LoopInv
<1>5. ASSUME NEW u \in SUBSET (Use \ Loop!Used), NEW t \in BOOLEAN, NEW k \in {"none", "null", "valid"},
             Loop!Answered([Loop!Said("assistant", t) EXCEPT !.uses = u, !.compaction = k]),
             \/ UNCHANGED progress
             \/ progress' = [progress EXCEPT !.started = @ \o todo']
      PROVE  LoopInv'
  <2>1. PICK m : m = [Loop!Said("assistant", t) EXCEPT !.uses = u, !.compaction = k]
    OBVIOUS
  <2>2. m = [role |-> "assistant", uses |-> u, results |-> {}, text |-> t, image |-> {}, compaction |-> k]
    BY <2>1 DEF Loop!Said
  <2>3. m \in Loop!Message /\ m.uses = u /\ m.results = {} /\ m.text = t
    <3>1. u \in SUBSET Use
      OBVIOUS
    <3>2. QED
      BY <2>2, <3>1, AnAnswer
  <2>4. Loop!Answered(m)
    BY <1>5, <2>1
  <2>5. /\ ctx' = Loop!With(ctx, m) /\ whole' = Append(whole, m) /\ got' = {}
        /\ turn' = IF u = {} THEN [turn EXCEPT !.pc = "encode", !.last = IF t THEN "text" ELSE Loop!NoText, !.exhausted = FALSE]
                   ELSE [turn EXCEPT !.pc = "tools", !.last = IF t THEN "text" ELSE Loop!NoText]
    BY <2>3, <2>4 DEF Loop!Answered
  <2>6. todo' \in Seq(u) /\ In(todo') = u /\ Distinct(todo')
    <3>1. IsFiniteSet(u)
      BY TurnAssumption, FS_Subset DEF TurnAssumption
    <3>2. PICK q : q = todo'
      OBVIOUS
    <3>3. q \in [1 .. Cardinality(u) -> u] /\ Distinct(q)
      BY <2>3, <2>4, <3>2, LoopCardinality DEF Loop!Answered, Loop!IsInjective, Distinct
    <3>4. q \in Seq(u) /\ In(q) = u
      BY <3>1, <3>3, AllInOrder
    <3>5. QED
      BY <3>2, <3>3, <3>4
  <2>7. todo' \in Seq(Use)
    BY <2>6
  <2>8. /\ ctx' \in Seq(Loop!Message) /\ ctx' # <<>> /\ ctx'[Len(ctx')] = m
        /\ PairedSoFar(ctx') /\ (u = {} => Settled(ctx'))
    <3>1. PICK c : c \in Seq(Loop!Message) /\ ctx' = Append(c, m) /\ Settled(c)
      <4>1. CASE m.compaction = "valid"
        <5>1. <<>> \in Seq(Loop!Message) /\ <<m>> = Append(<<>>, m) /\ Settled(<<>>)
          BY <2>3 DEF Settled, PairedSoFar
        <5>2. QED
          BY <2>5, <4>1, <5>1 DEF Loop!With
      <4>2. CASE m.compaction # "valid"
        BY <1>2, <1>3, <2>5, <4>2 DEF Loop!With
      <4>3. QED
        BY <4>1, <4>2
    <3>2. Append(c, m) \in Seq(Loop!Message) /\ Append(c, m) # <<>> /\ Append(c, m)[Len(Append(c, m))] = m
      BY <2>3, <3>1, LastAppended
    <3>3. PairedSoFar(c) /\ (c # <<>> => c[Len(c)].uses = m.results) /\ (c = <<>> => m.results = {})
      BY <2>3, <3>1 DEF Settled
    <3>4. PairedSoFar(Append(c, m)) /\ (m.uses = {} => Settled(Append(c, m)))
      BY <2>3, <3>1, <3>3, PairedAppend
    <3>5. PICK d : d = ctx'
      OBVIOUS
    <3>6. d = Append(c, m)
      BY <3>1, <3>5
    <3>7. d \in Seq(Loop!Message) /\ d # <<>> /\ d[Len(d)] = m /\ PairedSoFar(d) /\ (u = {} => Settled(d))
      BY <2>3, <3>2, <3>4, <3>6
    <3>8. QED
      BY <3>5, <3>7
  <2>9. HasLast(whole)' /\ ctx' = Since(whole)' /\ whole' \in Seq(Loop!Message)
    <3>1. /\ HasLast(Append(whole, m)) /\ Append(whole, m) \in Seq(Loop!Message)
          /\ Since(Append(whole, m)) = IF m.compaction = "valid" THEN <<m>> ELSE Append(Since(whole), m)
      BY <1>2, <1>3, <2>3, SinceAppend, LastAppended
    <3>2. PICK w : w = whole'
      OBVIOUS
    <3>3. HasLast(w) /\ ctx' = Since(w) /\ w \in Seq(Loop!Message)
      BY <1>3, <2>5, <3>1, <3>2 DEF Loop!With
    <3>4. QED
      BY <3>2, <3>3
  <2>10. Loop!Used' = Loop!Used \cup u
    BY <2>3, <2>5, UsedMore DEF LoopInv
  <2>11. /\ turn' \in [pc : Phases, iter : 0 .. MaxIter, last : {Loop!NoText, "text"}, exhausted : BOOLEAN]
         /\ turn'.pc = (IF u = {} THEN "encode" ELSE "tools") /\ turn'.iter = turn.iter
         /\ turn'.exhausted = (u # {}) /\ turn'.last = IF t THEN "text" ELSE Loop!NoText
    <3>1. PICK l \in {Loop!NoText, "text"} : l = IF t THEN "text" ELSE Loop!NoText
      OBVIOUS
    <3>2. CASE u = {}
      <4>1. turn' = [turn EXCEPT !.pc = "encode", !.last = l, !.exhausted = FALSE]
        BY <2>5, <3>1, <3>2
      <4>2. QED
        BY <1>1, <1>2, <3>1, <3>2, <4>1 DEF Phases
    <3>3. CASE u # {}
      <4>1. turn' = [turn EXCEPT !.pc = "tools", !.last = l]
        BY <2>5, <3>1, <3>3
      <4>2. QED
        BY <1>1, <1>2, <3>1, <3>3, <4>1 DEF Phases
    <3>4. QED
      BY <3>2, <3>3
  <2>12. /\ progress' \in [started : Seq(Use), complete : Seq(Use)] /\ progress'.complete = progress.complete
         /\ In(progress.started) \subseteq In(progress'.started)
         /\ In(progress'.started) \subseteq In(progress.started) \cup u
    <3>1. CASE UNCHANGED progress
      BY <1>2, <3>1
    <3>2. CASE progress' = [progress EXCEPT !.started = @ \o todo']
      <4>1. PICK q : q = todo'
        OBVIOUS
      <4>2. progress.started \in Seq(Use) /\ q \in Seq(Use) /\ In(q) = u
        BY <1>2, <2>6, <2>7, <4>1
      <4>3. PICK b \in Seq(Use) : b = progress.started \o q /\ In(b) = In(progress.started) \cup u
        BY <4>2, InBoth
      <4>4. progress' = [progress EXCEPT !.started = b]
        BY <3>2, <4>1, <4>3
      <4>5. progress' \in [started : Seq(Use), complete : Seq(Use)] /\ progress'.complete = progress.complete /\ progress'.started = b
        BY <1>2, <4>3, <4>4
      <4>6. QED
        BY <4>3, <4>5
    <3>3. QED
      BY <1>5, <3>1, <3>2
  <2>13. LoopTypes'
    BY <1>1, <1>2, <2>5, <2>7, <2>8, <2>9, <2>11, <2>12 DEF LoopTypes
  <2>14. Counted'
    <3>1. turn'.pc \in {"call", "tools"} => turn'.iter < MaxIter /\ turn'.exhausted
      BY <1>1, <2>11
    <3>2. turn'.pc = "encode" => ~turn'.exhausted /\ turn'.iter # MaxIter
      BY <1>1, <2>11
    <3>3. turn'.last = IF ctx'[Len(ctx')].text THEN "text" ELSE Loop!NoText
      BY <2>3, <2>8, <2>11
    <3>4. QED
      BY <2>8, <3>1, <3>2, <3>3 DEF Counted
  <2>15. Pairs'
    <3>1. turn'.pc \in {"call", "encode"} => u = {}
      BY <2>11
    <3>2. ctx'[Len(ctx')].uses = got' \cup In(todo')
      BY <2>3, <2>5, <2>6, <2>8
    <3>3. QED
      BY <1>1, <1>3, <2>8, <3>1, <3>2 DEF Pairs
  <2>16. Compacted'
    BY <1>1, <1>3, <2>9 DEF Compacted
  <2>17. Heard'
    <3>1. In(progress'.complete) \subseteq In(progress'.started) /\ Distinct(progress'.complete)
      BY <1>3, <2>12
    <3>2. turn'.pc \in {"call", "encode"} => In(progress'.started) \subseteq In(progress'.complete)
      BY <1>3, <2>11, <2>12
    <3>3. In(progress'.complete) \subseteq Loop!Used'
      BY <1>3, <2>10, <2>12
    <3>4. Distinct(todo') /\ In(todo') \subseteq Loop!Used' /\ In(todo') \cap In(progress'.complete) = {}
      BY <1>3, <2>6, <2>10, <2>12
    <3>5. In(progress'.started) \subseteq In(progress'.complete) \cup In(todo')
      BY <1>3, <2>6, <2>12
    <3>6. QED
      BY <3>1, <3>2, <3>3, <3>4, <3>5 DEF Heard
  <2>18. QED
    BY <2>13, <2>14, <2>15, <2>16, <2>17 DEF LoopInv
<1>6. QED
  BY <1>4, <1>5 DEF Loop!Call

LEMMA InvokeKeeps ==
    ASSUME LoopInv, Loop!Invoke
    PROVE  LoopInv'
<1>1. /\ turn.pc = "tools" /\ todo # <<>> /\ UNCHANGED <<ctx, turn, stored, whole, turns, kept>>
      /\ todo' = Tail(todo) /\ got' = got \cup {Head(todo)}
      /\ progress' = [started |-> Append(progress.started, Head(todo)), complete |-> Append(progress.complete, Head(todo))]
  BY DEF Loop!Invoke
<1>2. /\ todo \in Seq(Use) /\ got \subseteq Use /\ progress.started \in Seq(Use) /\ progress.complete \in Seq(Use)
  BY DEF LoopInv, LoopTypes
<1>3. /\ In(progress.complete) \subseteq In(progress.started) /\ Distinct(progress.complete) /\ In(progress.complete) \subseteq Loop!Used
      /\ Distinct(todo) /\ In(todo) \subseteq Loop!Used /\ In(todo) \cap In(progress.complete) = {}
      /\ In(progress.started) \subseteq In(progress.complete) \cup In(todo)
  BY <1>1 DEF LoopInv, Heard
<1>4. PICK x, rest : x = Head(todo) /\ rest = Tail(todo)
  OBVIOUS
<1>5. x \in Use /\ rest \in Seq(Use) /\ In(todo) = In(rest) \cup {x} /\ Distinct(rest) /\ x \notin In(rest)
  BY <1>1, <1>2, <1>3, <1>4, InTail
<1>6. PICK s, c : s = Append(progress.started, x) /\ c = Append(progress.complete, x)
  OBVIOUS
<1>7. s \in Seq(Use) /\ In(s) = In(progress.started) \cup {x}
  BY <1>2, <1>5, <1>6, InAppend
<1>8. c \in Seq(Use) /\ In(c) = In(progress.complete) \cup {x} /\ Distinct(c)
  <2>1. x \notin In(progress.complete)
    BY <1>3, <1>5
  <2>2. QED
    BY <1>2, <1>3, <1>5, <1>6, <2>1, InAppend
<1>9. progress' = [started |-> s, complete |-> c]
  BY <1>1, <1>4, <1>6
<1>10. progress'.started = s /\ progress'.complete = c /\ progress' \in [started : Seq(Use), complete : Seq(Use)]
  BY <1>7, <1>8, <1>9
<1>11. todo' = rest /\ got' = got \cup {x} /\ Loop!Used' = Loop!Used
  BY <1>1, <1>4 DEF Loop!Used
<1>12. LoopTypes'
  BY <1>1, <1>2, <1>5, <1>10, <1>11 DEF LoopInv, LoopTypes
<1>13. Counted'
  BY <1>1 DEF LoopInv, Counted
<1>14. Pairs'
  <2>1. PairedSoFar(ctx) /\ ctx # <<>> /\ ctx[Len(ctx)].uses = got \cup In(todo) /\ Settled(stored)
    BY <1>1 DEF LoopInv, Pairs
  <2>2. got' \cup In(todo') = got \cup In(todo)
    BY <1>5, <1>11
  <2>3. QED
    BY <1>1, <2>1, <2>2 DEF Pairs
<1>15. Compacted'
  BY <1>1 DEF LoopInv, Compacted
<1>16. Heard'
  <2>1. /\ In(progress'.complete) \subseteq In(progress'.started) /\ Distinct(progress'.complete)
        /\ In(progress'.complete) \subseteq Loop!Used' /\ In(todo') \subseteq Loop!Used' /\ Distinct(todo')
        /\ In(progress'.started) \subseteq In(progress'.complete) \cup In(todo')
    BY <1>3, <1>5, <1>7, <1>8, <1>10, <1>11
  <2>2. In(todo') \cap In(progress'.complete) = {}
    BY <1>3, <1>5, <1>8, <1>10, <1>11
  <2>3. turn'.pc = "tools"
    BY <1>1
  <2>4. QED
    BY <2>1, <2>2, <2>3 DEF Heard
<1>17. QED
  BY <1>12, <1>13, <1>14, <1>15, <1>16 DEF LoopInv

\* What the tools gave, as the message it becomes.
LEMMA AResult ==
    ASSUME NEW g \in SUBSET Use,
           NEW m, m = [role |-> "user", uses |-> {}, results |-> g, text |-> FALSE, image |-> {}, compaction |-> "none"]
    PROVE  m \in Loop!Message /\ m.uses = {} /\ m.results = g /\ m.compaction # "valid"
<1>1. PICK J : J = {{}} \cup {{n} : n \in 1 .. MaxTurns}
  OBVIOUS
<1>2. {} \in J
  BY <1>1
<1>3. Loop!Message = [role : {"user", "assistant"}, uses : SUBSET Use, results : SUBSET Use, text : BOOLEAN,
                      image : J, compaction : {"none", "null", "valid"}]
  BY <1>1 DEF Loop!Message
<1>4. QED
  BY <1>2, <1>3

LEMMA ResultsKeep ==
    ASSUME LoopInv, Loop!Results
    PROVE  LoopInv'
<1>1. /\ turn.pc = "tools" /\ todo = <<>> /\ UNCHANGED <<todo, got, progress, stored, turns, kept>>
      /\ turn' = [turn EXCEPT !.iter = @ + 1, !.pc = IF turn.iter + 1 = MaxIter THEN "encode" ELSE "call"]
  BY DEF Loop!Results
<1>2. /\ turn.iter \in Nat /\ turn.iter < MaxIter /\ turn.exhausted /\ MaxIter \in Nat
      /\ turn \in [pc : Phases, iter : 0 .. MaxIter, last : {Loop!NoText, "text"}, exhausted : BOOLEAN]
      /\ got \subseteq Use /\ ctx \in Seq(Loop!Message) /\ whole \in Seq(Loop!Message)
  BY <1>1, LoopNumbers DEF LoopInv, Counted, LoopTypes
<1>3. PICK m : /\ m = [Loop!Said("user", FALSE) EXCEPT !.results = got]
               /\ ctx' = Append(ctx, m) /\ whole' = Append(whole, m)
  BY DEF Loop!Results
<1>4. m \in Loop!Message /\ m.uses = {} /\ m.results = got /\ m.compaction # "valid"
  <2>1. m = [role |-> "user", uses |-> {}, results |-> got, text |-> FALSE, image |-> {}, compaction |-> "none"]
    BY <1>3 DEF Loop!Said
  <2>2. QED
    BY <1>2, <2>1, AResult
<1>5. PairedSoFar(ctx) /\ ctx # <<>> /\ ctx[Len(ctx)].uses = got /\ Settled(stored)
  BY <1>1, InNone DEF LoopInv, Pairs
<1>6. PICK d \in Seq(Loop!Message), w \in Seq(Loop!Message) : d = Append(ctx, m) /\ w = Append(whole, m)
  BY <1>2, <1>4, AppendProperties
<1>7. Settled(d)
  BY <1>2, <1>4, <1>5, <1>6, PairedAppend
<1>8. HasLast(whole) /\ ctx = Since(whole) /\ HasLast(kept) /\ stored = Since(kept)
  BY <1>1 DEF LoopInv, Compacted
<1>9. HasLast(w) /\ d = Since(w)
  BY <1>2, <1>4, <1>6, <1>8, SinceAppend
<1>10. ctx' = d /\ whole' = w
  BY <1>3, <1>6
<1>11. /\ turn' \in [pc : Phases, iter : 0 .. MaxIter, last : {Loop!NoText, "text"}, exhausted : BOOLEAN]
       /\ turn'.iter = turn.iter + 1 /\ turn'.exhausted /\ turn'.pc \in {"call", "encode"}
       /\ turn'.pc = "encode" <=> turn'.iter = MaxIter
  <2>1. PICK n \in 0 .. MaxIter : n = turn.iter + 1
    BY <1>2
  <2>2. PICK p \in {"call", "encode"} : p = IF n = MaxIter THEN "encode" ELSE "call"
    OBVIOUS
  <2>3. turn' = [turn EXCEPT !.iter = n, !.pc = p]
    BY <1>1, <2>1, <2>2
  <2>4. turn' \in [pc : Phases, iter : 0 .. MaxIter, last : {Loop!NoText, "text"}, exhausted : BOOLEAN]
        /\ turn'.iter = n /\ turn'.exhausted = turn.exhausted /\ turn'.pc = p
    BY <1>2, <2>3 DEF Phases
  <2>5. QED
    BY <1>2, <2>1, <2>2, <2>4
<1>12. LoopTypes'
  BY <1>1, <1>6, <1>10, <1>11 DEF LoopInv, LoopTypes
<1>13. Counted'
  <2>1. turn'.iter # MaxIter => turn'.iter < MaxIter
    BY <1>2, <1>11
  <2>2. QED
    BY <1>11, <2>1 DEF Counted
<1>14. Pairs'
  BY <1>1, <1>5, <1>7, <1>10, <1>11 DEF Pairs
<1>15. Compacted'
  BY <1>1, <1>8, <1>9, <1>10 DEF Compacted
<1>16. Heard'
  <2>1. Loop!Used' = Loop!Used
    BY <1>2, <1>3, <1>4, UsedMore DEF LoopInv
  <2>2. /\ In(progress.complete) \subseteq In(progress.started) /\ Distinct(progress.complete) /\ In(progress.complete) \subseteq Loop!Used
        /\ In(progress.started) \subseteq In(progress.complete)
    BY <1>1, InNone DEF LoopInv, Heard
  <2>3. QED
    BY <1>1, <1>11, <2>1, <2>2 DEF Heard
<1>17. QED
  BY <1>12, <1>13, <1>14, <1>15, <1>16 DEF LoopInv

LEMMA EncodeKeeps ==
    ASSUME LoopInv, Loop!Encode
    PROVE  LoopInv'
<1>1. /\ turn.pc = "encode" /\ UNCHANGED <<ctx, todo, got, progress, whole, turns>>
      /\ turn' = [pc |-> "idle", iter |-> 0, last |-> Loop!NoText, exhausted |-> TRUE]
      /\ (stored' = ctx /\ kept' = whole) \/ UNCHANGED <<stored, kept>>
  BY DEF Loop!Encode, Loop!Idle
<1>2. turn'.pc = "idle" /\ turn' \in [pc : Phases, iter : 0 .. MaxIter, last : {Loop!NoText, "text"}, exhausted : BOOLEAN]
  BY <1>1, TurnAssumption DEF TurnAssumption, Phases
<1>3. LoopTypes'
  BY <1>1, <1>2 DEF LoopInv, LoopTypes
<1>4. Counted'
  BY <1>2 DEF Counted
<1>5. Settled(ctx) /\ Settled(stored) /\ HasLast(whole) /\ HasLast(kept) /\ ctx = Since(whole) /\ stored = Since(kept)
  BY <1>1 DEF LoopInv, Pairs, Compacted
<1>6. Settled(stored)' /\ HasLast(whole)' /\ HasLast(kept)' /\ stored' = Since(kept)'
  <2>1. CASE stored' = ctx /\ kept' = whole
    BY <1>1, <1>5, <2>1
  <2>2. CASE UNCHANGED <<stored, kept>>
    BY <1>1, <1>5, <2>2
  <2>3. QED
    BY <1>1, <2>1, <2>2
<1>7. Pairs' /\ Compacted'
  BY <1>2, <1>6 DEF Pairs, Compacted
<1>8. Heard'
  <2>1. In(progress.complete) \subseteq In(progress.started) /\ Distinct(progress.complete)
    BY DEF LoopInv, Heard
  <2>2. QED
    BY <1>1, <1>2, <2>1 DEF Heard
<1>9. QED
  BY <1>3, <1>4, <1>7, <1>8 DEF LoopInv

LEMMA LoopStays == LoopInv /\ UNCHANGED turnVars => LoopInv'
BY DEF turnVars, LoopInv, LoopTypes, Counted, Pairs, Compacted, Heard, Loop!Used

LEMMA LoopKeeps == LoopInv /\ Loop!Next => LoopInv'
BY BeginKeeps, CallKeeps, InvokeKeeps, ResultsKeep, EncodeKeeps DEF Loop!Next

\* The parts of TurnsHold that are about the turn.
LEMMA LoopTells == LoopInv => Loop!TypeOK /\ Loop!ContextPaired /\ Loop!SinceCompaction /\ Loop!EachEnds
<1>1. SUFFICES ASSUME LoopInv PROVE Loop!TypeOK /\ Loop!ContextPaired /\ Loop!SinceCompaction /\ Loop!EachEnds
  OBVIOUS
<1>2. /\ ctx \in Seq(Loop!Message) /\ stored \in Seq(Loop!Message) /\ whole \in Seq(Loop!Message) /\ kept \in Seq(Loop!Message)
      /\ turn \in [pc : Phases, iter : 0 .. MaxIter, last : {Loop!NoText, "text"}, exhausted : BOOLEAN]
      /\ todo \in Seq(Use) /\ got \subseteq Use /\ turns \in 0 .. MaxTurns
  BY <1>1 DEF LoopInv, LoopTypes
<1>3. Loop!TypeOK
  <2>1. turn.pc \in Phases /\ turn.iter \in 0 .. MaxIter
    BY <1>2
  <2>2. QED
    BY <1>2, <2>1 DEF Loop!TypeOK, Phases
<1>4. Loop!ContextPaired
  BY <1>1, <1>2, SettledIsPaired DEF LoopInv, Pairs, Loop!ContextPaired
<1>5. Loop!SinceCompaction
  <2>1. \A w : Since(w) = LET at == {i \in DOMAIN w : w[i].compaction = "valid"}
                           IN  IF at = {} THEN w ELSE SubSeq(w, CHOOSE i \in at : \A j \in at : j <= i, Len(w))
    BY DEF Since, LastCut, Cuts
  <2>2. QED
    BY <1>1, <2>1 DEF LoopInv, Compacted, Loop!SinceCompaction
<1>6. Loop!EachEnds
  <2>1. In(progress.complete) \subseteq In(progress.started) /\ Distinct(progress.complete)
    BY <1>1 DEF LoopInv, Heard
  <2>2. \A q : Loop!ToSet(q) = In(q) /\ (Loop!IsInjective(q) <=> Distinct(q))
    BY DEF Loop!ToSet, Loop!IsInjective, In, Distinct
  <2>3. ASSUME turn.pc = "encode"
        PROVE  /\ Loop!ToSet(progress.complete) = Loop!ToSet(progress.started)
               /\ turn.exhausted <=> turn.iter = MaxIter
               /\ Loop!Reply = Loop!NoText => ~turn.exhausted /\ ~Loop!Last(ctx).text
    <3>1. In(progress.started) \subseteq In(progress.complete)
      BY <1>1, <2>3 DEF LoopInv, Heard
    <3>2. turn.exhausted <=> turn.iter = MaxIter
      BY <1>1, <2>3 DEF LoopInv, Counted
    <3>3. ~turn.exhausted => turn.last = IF ctx[Len(ctx)].text THEN "text" ELSE Loop!NoText
      BY <1>1, <2>3 DEF LoopInv, Counted
    <3>4. turn.last \in {Loop!NoText, "text"}
      BY <1>2
    <3>5. Loop!NoText # "text" /\ Loop!NoText # "ran out of steps"
      BY DEF Loop!NoText
    <3>6. Loop!Reply = Loop!NoText => ~turn.exhausted /\ ~ctx[Len(ctx)].text
      BY <3>3, <3>4, <3>5 DEF Loop!Reply
    <3>7. QED
      BY <2>1, <2>2, <3>1, <3>2, <3>6 DEF Loop!Last
  <2>4. QED
    BY <2>1, <2>2, <2>3 DEF Loop!EachEnds
<1>7. QED
  BY <1>3, <1>4, <1>5, <1>6

-----------------------------------------------------------------------------
(* The operators' requests                                                 *)

Stages == {"new", "refused", "done", "model", "question", "reply", "failed"}
AtWork == {"model", "question", "reply"}
Unasked == {"new", "model", "question"}
Unanswered == {"new", "model", "question", "reply"}
Line == [of : Request, by : {"user", "assistant"}]
Errand == [pc : Stages, caller : {{}} \cup {{c} : c \in Caller}, session : {{}} \cup {{s} : s \in SessionId},
           stored : {"nowhere", "redis", "memory"}, ran : SUBSET Operators!Tool]
OpTypes == /\ errands \in [Request -> Errand]
           /\ born \subseteq SessionId /\ apart \subseteq born /\ mishaps \in Nat /\ mishaps =< MaxMishaps

\* A request at work has its caller, and a session that was given out.
Working(e, b) == \A r \in Request : e[r].pc \in AtWork =>
                    /\ \E c \in Caller : e[r].caller = {c}
                    /\ \E s \in b : e[r].session = {s}

\* Redis has every session that it has not been without, with its owner.
Owned == \A s \in born \ apart : /\ s \in DOMAIN rows /\ rows[s].owner # {}
                                 /\ s \in DOMAIN copies => copies[s].owner # {}

\* A log: nothing twice, nothing of a request that has not come so far, and a
\* reply behind its question.
LogFits(log, e) ==
    /\ Len(log) =< MaxMessages /\ Distinct(log)
    /\ \A k \in DOMAIN log : log[k].by = "user" => e[log[k].of].pc \notin Unasked
    /\ \A k \in DOMAIN log : log[k].by = "assistant" =>
          /\ e[log[k].of].pc \notin Unanswered
          /\ \/ \E i \in 1 .. k - 1 : log[i] = Operators!Question(log[k].of)
             \/ Len(log) = MaxMessages
             \/ e[log[k].of].stored = "memory"
StoreFits(st, b, e) == DOMAIN st \subseteq b /\ \A s \in DOMAIN st : st[s] \in Operators!Copy /\ LogFits(st[s].log, e)
Logs == StoreFits(rows, born, errands) /\ StoreFits(copies, born, errands)

\* A reply is yet to be stored: its question, when Redis took it, is where the
\* reply will go, or has been pushed out.
AskedIn(log, r) == Len(log) = MaxMessages \/ \E i \in DOMAIN log : log[i] = Operators!Question(r)
Awaits(r, s) ==
    /\ errands[r].stored \in {"redis", "memory"}
    /\ errands[r].stored = "redis" => /\ s \in DOMAIN rows /\ AskedIn(rows[s].log, r)
                                      /\ s \in DOMAIN copies => AskedIn(copies[s].log, r)
Awaited == \A r \in Request : \A s \in born : errands[r].pc = "reply" /\ errands[r].session = {s} => Awaits(r, s)

\* What has run was allowed to run, and nothing has run for a request so far
\* unseen.
May(e) == /\ \A c \in e.caller : \A t \in e.ran : Operators!Allowed(Operators!ScopesOf(c), t)
          /\ e.pc = "new" => e.ran = {}
Permitted(e) == \A r \in Request : May(e[r])

OpInv == OpTypes /\ Working(errands, born) /\ Owned /\ Logs /\ Awaited /\ Permitted(errands)

\* A request only goes on: what is said of its place, and of where its question
\* went, stays true.
Later(e, f) == \A r \in Request :
    /\ e[r].pc \notin Unasked => f[r].pc \notin Unasked /\ f[r].stored = e[r].stored
    /\ e[r].pc \notin Unanswered => f[r].pc \notin Unanswered

LEMMA LineFields == \A x \in Line : /\ x.of \in Request /\ x.by \in {"user", "assistant"}
                                    /\ x.by = "user" => x = Operators!Question(x.of)
                                    /\ x.by = "assistant" => x = Operators!Reply(x.of)
BY DEF Line, Operators!Question, Operators!Reply

LEMMA Messages == \A r \in Request :
    /\ Operators!Question(r) \in Line /\ Operators!Question(r).of = r /\ Operators!Question(r).by = "user"
    /\ Operators!Reply(r) \in Line /\ Operators!Reply(r).of = r /\ Operators!Reply(r).by = "assistant"
    /\ Operators!Reply(r) # Operators!Question(r)
BY DEF Line, Operators!Question, Operators!Reply

\* One more message: nothing else comes in, and what is dropped leaves it full.
LEMMA TrimTells ==
    ASSUME NEW log \in Seq(Line), Len(log) =< MaxMessages, Distinct(log), NEW m \in Line, m \notin In(log),
           NEW d, d = Operators!Trim(Append(log, m))
    PROVE  /\ d \in Seq(Line) /\ Len(d) =< MaxMessages /\ Distinct(d) /\ In(d) \subseteq In(log) \cup {m}
           /\ Len(d) = MaxMessages \/ d = Append(log, m)
<1>1. PICK a \in Seq(Line) : a = Append(log, m) /\ Distinct(a) /\ In(a) = In(log) \cup {m}
  BY InAppend
<1>2. Len(a) \in Nat /\ Len(log) \in Nat /\ Len(a) = Len(log) + 1 /\ DOMAIN a = 1 .. Len(a) /\ MaxMessages \in Nat \ {0}
  BY <1>1, AppendProperties, MaxMessagesAssumption DEF MaxMessagesAssumption
<1>3. CASE Len(a) =< MaxMessages
  BY <1>1, <1>3 DEF Operators!Trim
<1>4. CASE ~(Len(a) =< MaxMessages)
  <2>0. Len(a) - MaxMessages + 1 \in 1 .. Len(a)
    BY <1>2, <1>4
  <2>1. PICK from \in 1 .. Len(a) : from = Len(a) - MaxMessages + 1
    BY <2>0
  <2>2. d = SubSeq(a, from, Len(a))
    BY <1>1, <1>4, <2>1 DEF Operators!Trim
  <2>3. \A i \in from .. Len(a) : i \in 1 .. Len(a) /\ a[i] \in Line
    BY <1>1, <1>2, <2>1, ElementOfSeq
  <2>4. /\ d \in Seq(Line) /\ Len(d) = (Len(a) - from) + 1 /\ \A i \in 1 .. (Len(a) - from) + 1 : d[i] = a[from + i - 1]
    <3>1. PICK n \in Nat : n = Len(a) /\ from \in Int
      BY <1>2, <2>1
    <3>2. \A i \in from .. n : a[i] \in Line
      BY <2>3, <3>1
    <3>3. from =< n
      BY <2>1, <3>1
    <3>4. /\ SubSeq(a, from, n) \in Seq(Line) /\ Len(SubSeq(a, from, n)) = (n - from) + 1
          /\ \A i \in 1 .. (n - from) + 1 : SubSeq(a, from, n)[i] = a[from + i - 1]
      BY <3>1, <3>2, <3>3, SubSeqProperties
    <3>5. QED
      BY <2>2, <3>1, <3>4
  <2>5. Len(d) = MaxMessages /\ DOMAIN d = 1 .. MaxMessages
    BY <1>2, <2>1, <2>4
  <2>6. \A i \in DOMAIN d : from + i - 1 \in DOMAIN a /\ d[i] = a[from + i - 1]
    BY <1>2, <2>1, <2>4, <2>5
  <2>7. \A i, j \in DOMAIN d : from + i - 1 = from + j - 1 => i = j
    BY <1>2, <2>1, <2>5
  <2>8. Distinct(d)
    BY <1>1, <2>6, <2>7 DEF Distinct
  <2>9. In(d) \subseteq In(a)
    BY <2>6 DEF In
  <2>10. QED
    BY <1>1, <1>2, <2>4, <2>5, <2>8, <2>9
<1>5. QED
  BY <1>3, <1>4

\* A question asked stays so, and one just stored is.
LEMMA AskedMore ==
    ASSUME NEW log \in Seq(Line), Len(log) =< MaxMessages, Distinct(log), NEW m \in Line, m \notin In(log), NEW r \in Request,
           AskedIn(log, r) \/ m = Operators!Question(r)
    PROVE  AskedIn(Operators!Trim(Append(log, m)), r)
<1>1. PICK d : d = Operators!Trim(Append(log, m))
  OBVIOUS
<1>2. Len(d) = MaxMessages \/ d = Append(log, m)
  BY <1>1, TrimTells
<1>3. CASE Len(d) = MaxMessages
  BY <1>1, <1>3 DEF AskedIn
<1>4. CASE Len(d) # MaxMessages
  <2>1. d = Append(log, m) /\ Len(log) \in Nat /\ Len(d) = Len(log) + 1 /\ Len(d) =< MaxMessages /\ MaxMessages \in Nat
    BY <1>1, <1>2, <1>4, AppendProperties, TrimTells, MaxMessagesAssumption DEF MaxMessagesAssumption
  <2>2. /\ DOMAIN d = 1 .. Len(log) + 1 /\ DOMAIN log = 1 .. Len(log) /\ d[Len(log) + 1] = m
        /\ \A i \in 1 .. Len(log) : d[i] = log[i]
    BY <2>1, AppendProperties
  <2>3. Len(log) # MaxMessages
    BY <2>1
  <2>4. \E i \in DOMAIN d : d[i] = Operators!Question(r)
    <3>1. CASE m = Operators!Question(r)
      BY <2>1, <2>2, <3>1
    <3>2. CASE AskedIn(log, r)
      <4>1. PICK i \in 1 .. Len(log) : log[i] = Operators!Question(r)
        BY <2>2, <2>3, <3>2 DEF AskedIn
      <4>2. i \in DOMAIN d /\ d[i] = log[i]
        BY <2>1, <2>2
      <4>3. QED
        BY <4>1, <4>2
    <3>3. QED
      BY <3>1, <3>2
  <2>5. QED
    BY <1>1, <2>4 DEF AskedIn
<1>5. QED
  BY <1>3, <1>4

LEMMA FitsLater ==
    ASSUME NEW log \in Seq(Line), NEW e, NEW f, LogFits(log, e), Later(e, f)
    PROVE  LogFits(log, f)
<1>1. \A k \in DOMAIN log : log[k].of \in Request
  BY ElementOfSeq, LineFields
<1>2. \A p : p \notin Unanswered => p \notin Unasked
  BY DEF Unanswered, Unasked
<1>3. \A k \in DOMAIN log : log[k].by = "user" => f[log[k].of].pc \notin Unasked
  BY <1>1 DEF LogFits, Later
<1>4. ASSUME NEW k \in DOMAIN log, log[k].by = "assistant"
      PROVE  /\ f[log[k].of].pc \notin Unanswered
             /\ \/ \E i \in 1 .. k - 1 : log[i] = Operators!Question(log[k].of)
                \/ Len(log) = MaxMessages
                \/ f[log[k].of].stored = "memory"
  <2>1. e[log[k].of].pc \notin Unanswered
    BY <1>4 DEF LogFits
  <2>2. f[log[k].of].pc \notin Unanswered /\ f[log[k].of].stored = e[log[k].of].stored
    BY <1>1, <1>2, <2>1 DEF Later
  <2>3. \/ \E i \in 1 .. k - 1 : log[i] = Operators!Question(log[k].of)
        \/ Len(log) = MaxMessages
        \/ e[log[k].of].stored = "memory"
    BY <1>4 DEF LogFits
  <2>4. QED
    BY <2>2, <2>3
<1>5. QED
  BY <1>3, <1>4 DEF LogFits

\* A message stored: a question, or a reply to one that is there.
LEMMA FitsMore ==
    ASSUME NEW log \in Seq(Line), NEW e, LogFits(log, e), NEW m \in Line, m \notin In(log),
           m.by = "user" => e[m.of].pc \notin Unasked,
           m.by = "assistant" => e[m.of].pc \notin Unanswered /\ (AskedIn(log, m.of) \/ e[m.of].stored = "memory")
    PROVE  Operators!Trim(Append(log, m)) \in Seq(Line) /\ LogFits(Operators!Trim(Append(log, m)), e)
<1>1. PICK d : d = Operators!Trim(Append(log, m))
  OBVIOUS
<1>2. Len(log) =< MaxMessages /\ Distinct(log)
  BY DEF LogFits
<1>3. /\ d \in Seq(Line) /\ Len(d) =< MaxMessages /\ Distinct(d) /\ In(d) \subseteq In(log) \cup {m}
      /\ Len(d) = MaxMessages \/ d = Append(log, m)
  BY <1>1, <1>2, TrimTells
<1>4. \A k \in DOMAIN d : d[k] = m \/ \E i \in DOMAIN log : d[k] = log[i]
  BY <1>3 DEF In
<1>5. \A k \in DOMAIN d : d[k].by = "user" => e[d[k].of].pc \notin Unasked
  BY <1>4 DEF LogFits
<1>6. \A k \in DOMAIN d : d[k].by = "assistant" => e[d[k].of].pc \notin Unanswered
  BY <1>4 DEF LogFits
<1>7. ASSUME NEW k \in DOMAIN d, d[k].by = "assistant", Len(d) # MaxMessages, e[d[k].of].stored # "memory"
      PROVE  \E i \in 1 .. k - 1 : d[i] = Operators!Question(d[k].of)
  <2>1. d = Append(log, m) /\ Len(log) \in Nat /\ Len(d) = Len(log) + 1 /\ MaxMessages \in Nat
    BY <1>3, <1>7, AppendProperties, MaxMessagesAssumption DEF MaxMessagesAssumption
  <2>2. /\ DOMAIN d = 1 .. Len(log) + 1 /\ DOMAIN log = 1 .. Len(log) /\ d[Len(log) + 1] = m
        /\ \A i \in 1 .. Len(log) : d[i] = log[i]
    BY <2>1, AppendProperties
  <2>3. Len(log) # MaxMessages
    BY <1>3, <2>1
  <2>4. CASE k \in 1 .. Len(log)
    <3>1. PICK i \in 1 .. k - 1 : log[i] = Operators!Question(log[k].of)
      BY <1>7, <2>2, <2>3, <2>4 DEF LogFits
    <3>2. i \in 1 .. Len(log)
      BY <2>1, <2>4
    <3>3. QED
      BY <2>2, <2>4, <3>1, <3>2
  <2>5. CASE k = Len(log) + 1
    <3>1. AskedIn(log, m.of)
      BY <1>7, <2>2, <2>5
    <3>2. PICK i \in 1 .. Len(log) : log[i] = Operators!Question(m.of)
      BY <2>2, <2>3, <3>1 DEF AskedIn
    <3>3. i \in 1 .. k - 1
      BY <2>1, <2>5
    <3>4. QED
      BY <2>2, <2>5, <3>2, <3>3
  <2>6. QED
    BY <2>2, <2>4, <2>5
<1>8. LogFits(d, e)
  BY <1>3, <1>5, <1>6, <1>7 DEF LogFits
<1>9. QED
  BY <1>1, <1>3, <1>8

LEMMA PutTells ==
    ASSUME NEW st, NEW s, NEW copy, NEW new, new = Operators!Put(st, s, copy)
    PROVE  DOMAIN new = DOMAIN st \cup {s} /\ new[s] = copy /\ \A x \in DOMAIN st : x # s => new[x] = st[x]
BY DEF Operators!Put

LEMMA DropTells ==
    ASSUME NEW st, NEW s, NEW new, new = Operators!Drop(st, {s})
    PROVE  DOMAIN new = DOMAIN st \ {s} /\ \A x \in DOMAIN new : new[x] = st[x]
BY DEF Operators!Drop

LEMMA CopyFields == \A x \in Operators!Copy : x.owner \subseteq User /\ x.log \in Seq(Line)
BY DEF Operators!Copy, Line

LEMMA MoreTells ==
    ASSUME NEW copy \in Operators!Copy, NEW m \in Line, Operators!Trim(Append(copy.log, m)) \in Seq(Line),
           NEW new, new = Operators!More(copy, m)
    PROVE  new \in Operators!Copy /\ new.owner = copy.owner /\ new.log = Operators!Trim(Append(copy.log, m))
<1>1. PICK d \in Seq(Line) : d = Operators!Trim(Append(copy.log, m))
  OBVIOUS
<1>2. new = [copy EXCEPT !.log = d]
  BY <1>1 DEF Operators!More
<1>3. copy \in [owner : SUBSET User, log : Seq(Line)]
  BY DEF Operators!Copy, Line
<1>4. new \in [owner : SUBSET User, log : Seq(Line)] /\ new.owner = copy.owner /\ new.log = d
  BY <1>2, <1>3
<1>5. QED
  BY <1>1, <1>4 DEF Operators!Copy, Line

LEMMA StoreLater ==
    ASSUME NEW st, NEW b, NEW e, NEW f, NEW d, StoreFits(st, b, e), Later(e, f), b \subseteq d
    PROVE  StoreFits(st, d, f)
<1>1. \A s \in DOMAIN st : st[s] \in Operators!Copy /\ st[s].log \in Seq(Line) /\ LogFits(st[s].log, e)
  BY CopyFields DEF StoreFits
<1>2. \A s \in DOMAIN st : LogFits(st[s].log, f)
  BY <1>1, FitsLater
<1>3. QED
  BY <1>1, <1>2 DEF StoreFits

LEMMA StorePut ==
    ASSUME NEW st, NEW b, NEW e, NEW s \in b, StoreFits(st, b, e), NEW copy \in Operators!Copy, LogFits(copy.log, e)
    PROVE  StoreFits(Operators!Put(st, s, copy), b, e)
<1>1. PICK new : new = Operators!Put(st, s, copy)
  OBVIOUS
<1>2. DOMAIN new = DOMAIN st \cup {s} /\ new[s] = copy /\ \A x \in DOMAIN st : x # s => new[x] = st[x]
  BY <1>1 DEF Operators!Put
<1>3. QED
  BY <1>1, <1>2 DEF StoreFits

LEMMA StoreDrop ==
    ASSUME NEW st, NEW b, NEW e, NEW s, StoreFits(st, b, e)
    PROVE  StoreFits(Operators!Drop(st, {s}), b, e)
<1>1. PICK new : new = Operators!Drop(st, {s})
  OBVIOUS
<1>2. DOMAIN new = DOMAIN st \ {s} /\ \A x \in DOMAIN new : new[x] = st[x]
  BY <1>1 DEF Operators!Drop
<1>3. QED
  BY <1>1, <1>2 DEF StoreFits

LEMMA NothingFits == Operators!Nobody \in Operators!Copy /\ Operators!Nobody.owner = {} /\ Operators!Nobody.log = <<>>
                     /\ \A e : LogFits(<<>>, e)
<1>1. Operators!Nobody = [owner |-> {}, log |-> <<>>]
  BY DEF Operators!Nobody
<1>2. Operators!Nobody \in [owner : SUBSET User, log : Seq(Line)] /\ Operators!Nobody.owner = {} /\ Operators!Nobody.log = <<>>
  BY <1>1, EmptySeq
<1>3. Len(<<>>) = 0 /\ DOMAIN <<>> = {} /\ 0 =< MaxMessages
  BY MaxMessagesAssumption DEF MaxMessagesAssumption
<1>4. \A e : LogFits(<<>>, e)
  BY <1>3, InNone DEF LogFits
<1>5. QED
  BY <1>2, <1>4 DEF Operators!Copy, Line

-----------------------------------------------------------------------------
(* What one request's step leaves alone.                                   *)

\* Only r's errand changes, and it goes on.
Only(r) == /\ errands' \in [Request -> Errand] /\ (\A x \in Request \ {r} : errands'[x] = errands[x])
           /\ errands[r].pc \notin {"refused", "done", "failed"}
           /\ errands[r].pc = "new" => errands'[r].pc # "new"
           /\ errands[r].pc = "model" => errands'[r].pc \notin {"new", "model"}
           /\ errands[r].pc = "question" => errands'[r].pc \notin Unasked
           /\ errands[r].pc = "reply" => errands'[r].pc \notin Unanswered /\ errands'[r].stored = errands[r].stored

LEMMA OnlyLater == \A r \in Request : OpTypes /\ Only(r) => Later(errands, errands')
<1>1. SUFFICES ASSUME NEW r \in Request, OpTypes, Only(r), NEW x \in Request
               PROVE  /\ errands[x].pc \notin Unasked => errands'[x].pc \notin Unasked /\ errands'[x].stored = errands[x].stored
                      /\ errands[x].pc \notin Unanswered => errands'[x].pc \notin Unanswered
  BY DEF Later
<1>2. CASE x # r
  BY <1>1, <1>2 DEF Only
<1>3. CASE x = r
  <2>1. errands[r].pc \in Unanswered
    <3>1. errands[r] \in Errand
      BY <1>1 DEF OpTypes
    <3>2. errands[r].pc \in Stages
      BY <3>1 DEF Errand
    <3>3. QED
      BY <1>1, <3>2 DEF Stages, Only, Unanswered
  <2>2. errands[r].pc \notin Unasked => errands[r].pc = "reply"
    BY <2>1 DEF Unasked, Unanswered
  <2>3. \A p : p \notin Unanswered => p \notin Unasked
    BY DEF Unasked, Unanswered
  <2>4. QED
    BY <1>1, <1>3, <2>1, <2>2, <2>3 DEF Only
<1>4. QED
  BY <1>2, <1>3

\* r goes on to where no reply is awaited, and to a session, if to one, that
\* was given out; the stores stay.
LEMMA OnlyOne ==
    ASSUME OpInv, NEW r \in Request, Only(r), UNCHANGED <<rows, copies, born, apart>>,
           mishaps' \in Nat, mishaps' =< MaxMishaps, errands'[r].pc # "reply",
           May(errands'[r]),
           errands'[r].pc \in AtWork => /\ \E c \in Caller : errands'[r].caller = {c}
                                        /\ \E s \in born : errands'[r].session = {s}
    PROVE  OpInv'
<1>1. OpTypes'
  BY DEF OpInv, OpTypes, Only
<1>2. Later(errands, errands')
  BY OnlyLater DEF OpInv
<1>3. Working(errands', born')
  BY DEF OpInv, Working, Only
<1>4. Owned'
  BY DEF OpInv, Owned
<1>5. StoreFits(rows, born, errands') /\ StoreFits(copies, born, errands')
  BY <1>2, StoreLater DEF OpInv, Logs
<1>6. Logs'
  BY <1>5 DEF Logs
<1>7. Awaited'
  BY DEF OpInv, Awaited, Awaits, Only
<1>8. Permitted(errands')
  BY DEF OpInv, Permitted, Only
<1>9. QED
  BY <1>1, <1>3, <1>4, <1>6, <1>7, <1>8 DEF OpInv

LEMMA ErrandSet ==
    ASSUME OpTypes, NEW r \in Request, NEW v \in Errand, errands' = [errands EXCEPT ![r] = v]
    PROVE  errands' \in [Request -> Errand] /\ errands'[r] = v /\ \A x \in Request \ {r} : errands'[x] = errands[x]
BY DEF OpTypes

\* An errand with a caller, a session or what has run.
LEMMA ErrandWith ==
    ASSUME NEW e \in Errand, NEW p \in Stages, NEW c \in Caller, NEW s \in {{}} \cup {{x} : x \in SessionId},
           NEW ran \in SUBSET Operators!Tool, NEW place \in {"nowhere", "redis", "memory"}
    PROVE  /\ [e EXCEPT !.pc = p, !.caller = {c}, !.session = s] \in Errand
           /\ [e EXCEPT !.pc = p, !.caller = {c}, !.ran = ran] \in Errand
           /\ [e EXCEPT !.pc = p, !.ran = ran] \in Errand
           /\ [e EXCEPT !.pc = p, !.stored = place] \in Errand
           /\ [e EXCEPT !.pc = p] \in Errand
<1>1. PICK J, K : J = {{}} \cup {{x} : x \in Caller} /\ K = {{}} \cup {{x} : x \in SessionId}
  OBVIOUS
<1>2. {c} \in J /\ s \in K
  BY <1>1
<1>3. Errand = [pc : Stages, caller : J, session : K, stored : {"nowhere", "redis", "memory"}, ran : SUBSET Operators!Tool]
  BY <1>1 DEF Errand
<1>4. QED
  BY <1>2, <1>3

LEMMA Fields ==
    ASSUME NEW e \in Errand, NEW p, NEW c, NEW s, NEW ran, NEW place
    PROVE  /\ LET v == [e EXCEPT !.pc = p, !.caller = c, !.session = s]
              IN  v.pc = p /\ v.caller = c /\ v.session = s /\ v.ran = e.ran /\ v.stored = e.stored
           /\ LET v == [e EXCEPT !.pc = p, !.caller = c, !.ran = ran]
              IN  v.pc = p /\ v.caller = c /\ v.session = e.session /\ v.ran = ran /\ v.stored = e.stored
           /\ LET v == [e EXCEPT !.pc = p, !.ran = ran]
              IN  v.pc = p /\ v.caller = e.caller /\ v.session = e.session /\ v.ran = ran /\ v.stored = e.stored
           /\ LET v == [e EXCEPT !.pc = p, !.stored = place]
              IN  v.pc = p /\ v.caller = e.caller /\ v.session = e.session /\ v.ran = e.ran /\ v.stored = place
           /\ LET v == [e EXCEPT !.pc = p]
              IN  v.pc = p /\ v.caller = e.caller /\ v.session = e.session /\ v.ran = e.ran /\ v.stored = e.stored
BY DEF Errand

LEMMA OperatorsBegin ==
    ASSUME Operators!Init
    PROVE  OpInv
<1>1. /\ DOMAIN rows = {} /\ DOMAIN copies = {} /\ born = {} /\ apart = {} /\ mishaps = 0
      /\ errands = [r \in Request |-> Operators!Fresh]
  BY DEF Operators!Init
<1>2. Operators!Fresh = [pc |-> "new", caller |-> {}, session |-> {}, stored |-> "nowhere", ran |-> {}]
  BY DEF Operators!Fresh
<1>3. PICK fresh : fresh = Operators!Fresh
  OBVIOUS
<1>4. fresh.pc = "new" /\ fresh.caller = {} /\ fresh.session = {} /\ fresh.ran = {}
  BY <1>2, <1>3
<1>5. fresh \in Errand
  <2>1. PICK J, K : J = {{}} \cup {{x} : x \in Caller} /\ K = {{}} \cup {{x} : x \in SessionId}
    OBVIOUS
  <2>2. {} \in J /\ {} \in K
    BY <2>1
  <2>3. Errand = [pc : Stages, caller : J, session : K, stored : {"nowhere", "redis", "memory"}, ran : SUBSET Operators!Tool]
    BY <2>1 DEF Errand
  <2>4. "new" \in Stages
    BY DEF Stages
  <2>5. QED
    BY <1>2, <1>3, <2>2, <2>3, <2>4
<1>6. errands \in [Request -> Errand] /\ \A r \in Request : errands[r] = fresh
  BY <1>1, <1>3, <1>5
<1>7. OpTypes
  <2>1. 0 \in Nat /\ 0 =< MaxMishaps
    BY OperatorAssumption DEF OperatorAssumption
  <2>2. QED
    BY <1>1, <1>6, <2>1 DEF OpTypes
<1>8. Working(errands, born) /\ Awaited
  BY <1>4, <1>6 DEF Working, AtWork, Awaited
<1>9. Owned /\ Logs
  BY <1>1 DEF Owned, Logs, StoreFits
<1>10. Permitted(errands)
  BY <1>4, <1>6 DEF Permitted, May
<1>11. QED
  BY <1>7, <1>8, <1>9, <1>10 DEF OpInv

LEMMA RefuseKeeps ==
    ASSUME OpInv, NEW r \in Request, Operators!Refuse(r)
    PROVE  OpInv'
<1>1. /\ errands[r].pc = "new" /\ UNCHANGED <<rows, copies, born, apart, online, mishaps>>
      /\ mishaps \in Nat /\ mishaps =< MaxMishaps /\ OpTypes /\ errands[r] \in Errand
  BY DEF Operators!Refuse, Operators!At, Operators!Stores, OpInv, OpTypes
<1>2. PICK c \in Caller : errands' = [errands EXCEPT ![r] = [@ EXCEPT !.pc = "refused", !.caller = {c}, !.session = {}]]
  BY DEF Operators!Refuse, Operators!Taken
<1>3. PICK v : v = [errands[r] EXCEPT !.pc = "refused", !.caller = {c}, !.session = {}]
  OBVIOUS
<1>4. v \in Errand
  BY <1>1, <1>3, ErrandWith DEF Stages
<1>5. v.pc = "refused" /\ v.caller = {c} /\ v.ran = errands[r].ran
  BY <1>1, <1>3, Fields
<1>6. errands' \in [Request -> Errand] /\ errands'[r] = v /\ \A x \in Request \ {r} : errands'[x] = errands[x]
  BY <1>1, <1>2, <1>3, <1>4, ErrandSet
<1>7. Only(r)
  BY <1>1, <1>5, <1>6 DEF Only
<1>8. v.ran = {}
  BY <1>1, <1>5 DEF OpInv, Permitted, May
<1>9. May(errands'[r])
  BY <1>5, <1>6, <1>8 DEF May
<1>10. errands'[r].pc # "reply" /\ errands'[r].pc \notin AtWork
  BY <1>5, <1>6 DEF AtWork
<1>11. QED
  BY <1>1, <1>7, <1>9, <1>10, OnlyOne

LEMMA CallToolKeeps ==
    ASSUME OpInv, NEW r \in Request, Operators!CallTool(r)
    PROVE  OpInv'
<1>1. /\ errands[r].pc = "new" /\ UNCHANGED <<rows, copies, born, apart, online, mishaps>>
      /\ mishaps \in Nat /\ mishaps =< MaxMishaps /\ OpTypes /\ errands[r] \in Errand
  BY DEF Operators!CallTool, Operators!At, Operators!Stores, OpInv, OpTypes
<1>2. PICK c \in Caller, t \in Operators!Tool :
         errands' = [errands EXCEPT ![r] = [@ EXCEPT !.pc = "done", !.caller = {c},
                                                     !.ran = {t} \cap {x \in Operators!Tool : Operators!Allowed(Operators!ScopesOf(c), x)}]]
  BY DEF Operators!CallTool
<1>3. PICK ran : ran = {t} \cap {x \in Operators!Tool : Operators!Allowed(Operators!ScopesOf(c), x)}
  OBVIOUS
<1>4. ran \in SUBSET Operators!Tool /\ \A x \in ran : Operators!Allowed(Operators!ScopesOf(c), x)
  BY <1>3
<1>5. PICK v : v = [errands[r] EXCEPT !.pc = "done", !.caller = {c}, !.ran = ran]
  OBVIOUS
<1>6. v \in Errand
  BY <1>1, <1>4, <1>5, ErrandWith DEF Stages
<1>7. v.pc = "done" /\ v.caller = {c} /\ v.ran = ran
  BY <1>1, <1>5, Fields
<1>8. errands' = [errands EXCEPT ![r] = v]
  BY <1>2, <1>3, <1>5
<1>9. errands' \in [Request -> Errand] /\ errands'[r] = v /\ \A x \in Request \ {r} : errands'[x] = errands[x]
  BY <1>1, <1>6, <1>8, ErrandSet
<1>10. Only(r)
  BY <1>1, <1>7, <1>9 DEF Only
<1>11. May(errands'[r])
  BY <1>4, <1>7, <1>9 DEF May
<1>12. errands'[r].pc # "reply" /\ errands'[r].pc \notin AtWork
  BY <1>7, <1>9 DEF AtWork
<1>13. QED
  BY <1>1, <1>10, <1>11, <1>12, OnlyOne

LEMMA WorkKeeps ==
    ASSUME OpInv, NEW r \in Request, Operators!Run(r)
    PROVE  OpInv'
<1>1. /\ errands[r].pc = "model" /\ UNCHANGED <<rows, copies, born, apart, online, mishaps>>
      /\ mishaps \in Nat /\ mishaps =< MaxMishaps /\ OpTypes /\ errands[r] \in Errand
  BY DEF Operators!Run, Operators!At, Operators!Stores, OpInv, OpTypes
<1>2. PICK c \in Caller, s \in born : errands[r].caller = {c} /\ errands[r].session = {s}
  BY <1>1 DEF OpInv, Working, AtWork
<1>3. ASSUME NEW t \in Operators!Tool,
             errands' = [errands EXCEPT ![r].pc = "question",
                                        ![r].ran = {t} \cap {x \in Operators!Tool : Operators!Allowed(Operators!ScopesOf(Operators!CallerOf(r)), x)}]
      PROVE  OpInv'
  <2>1. Operators!CallerOf(r) = c
    BY <1>2 DEF Operators!CallerOf
  <2>2. PICK ran : ran = {t} \cap {x \in Operators!Tool : Operators!Allowed(Operators!ScopesOf(c), x)}
    OBVIOUS
  <2>3. ran \in SUBSET Operators!Tool /\ \A x \in ran : Operators!Allowed(Operators!ScopesOf(c), x)
    BY <2>2
  <2>4. PICK v : v = [errands[r] EXCEPT !.pc = "question", !.ran = ran]
    OBVIOUS
  <2>5. v \in Errand
    BY <1>1, <1>2, <2>3, <2>4, ErrandWith DEF Stages
  <2>6. v.pc = "question" /\ v.caller = {c} /\ v.session = {s} /\ v.ran = ran
    BY <1>1, <1>2, <2>4, Fields
  <2>7. errands' = [errands EXCEPT ![r] = v]
    <3>1. errands' = [errands EXCEPT ![r].pc = "question", ![r].ran = ran]
      BY <1>3, <2>1, <2>2
    <3>2. QED
      BY <1>1, <2>4, <3>1 DEF OpTypes, Errand
  <2>8. errands' \in [Request -> Errand] /\ errands'[r] = v /\ \A x \in Request \ {r} : errands'[x] = errands[x]
    BY <1>1, <2>5, <2>7, ErrandSet
  <2>9. Only(r)
    BY <1>1, <2>6, <2>8 DEF Only
  <2>10. May(errands'[r])
    BY <2>3, <2>6, <2>8 DEF May
  <2>11. errands'[r].pc # "reply" /\ (\E x \in Caller : errands'[r].caller = {x}) /\ \E x \in born : errands'[r].session = {x}
    BY <1>2, <2>6, <2>8
  <2>12. QED
    BY <1>1, <2>9, <2>10, <2>11, OnlyOne
<1>4. CASE Operators!To(r, "failed")
  <2>1. PICK v : v = [errands[r] EXCEPT !.pc = "failed"]
    OBVIOUS
  <2>2. v \in Errand
    <3>1. "nowhere" \in {"nowhere", "redis", "memory"} /\ {} \in {{}} \cup {{x} : x \in SessionId} /\ "failed" \in Stages /\ {} \in SUBSET Operators!Tool
      BY DEF Stages
    <3>2. QED
      BY <1>1, <1>2, <2>1, <3>1, ErrandWith
  <2>3. v.pc = "failed" /\ v.caller = {c} /\ v.ran = errands[r].ran
    BY <1>1, <1>2, <2>1, Fields
  <2>4. errands' = [errands EXCEPT ![r] = v]
    BY <1>1, <1>4, <2>1 DEF Operators!To, OpTypes
  <2>5. errands' \in [Request -> Errand] /\ errands'[r] = v /\ \A x \in Request \ {r} : errands'[x] = errands[x]
    BY <1>1, <2>2, <2>4, ErrandSet
  <2>6. Only(r)
    BY <1>1, <2>3, <2>5 DEF Only
  <2>7. May(errands'[r])
    BY <1>2, <2>3, <2>5 DEF May, OpInv, Permitted
  <2>8. errands'[r].pc # "reply" /\ errands'[r].pc \notin AtWork
    BY <2>3, <2>5 DEF AtWork
  <2>9. QED
    BY <1>1, <2>6, <2>7, <2>8, OnlyOne
<1>5. QED
  BY <1>3, <1>4 DEF Operators!Run

LEMMA RedisChanges ==
    ASSUME OpInv, errands' = errands, UNCHANGED <<rows, copies, born, apart>>, mishaps' \in Nat, mishaps' =< MaxMishaps
    PROVE  OpInv'
BY DEF OpInv, OpTypes, Owned, Logs, Awaited, Awaits

LEMMA FaultCounted == OpTypes /\ Operators!Fault => mishaps' \in Nat /\ mishaps' =< MaxMishaps
BY OperatorAssumption DEF OperatorAssumption, OpTypes, Operators!Fault

LEMMA GoesKeeps == OpInv /\ Operators!Goes => OpInv'
BY RedisChanges, FaultCounted DEF Operators!Goes, Operators!Stores, OpInv

LEMMA ComesKeeps == OpInv /\ Operators!Comes => OpInv'
BY RedisChanges DEF Operators!Comes, Operators!Stores, OpInv, OpTypes

LEMMA RestartsKeep ==
    ASSUME OpInv, Operators!Restart
    PROVE  OpInv'
<1>1. /\ DOMAIN copies' = {} /\ UNCHANGED <<rows, born, apart>> /\ mishaps' \in Nat /\ mishaps' =< MaxMishaps
      /\ errands' = [r \in Request |-> IF errands[r].pc \in AtWork THEN [errands[r] EXCEPT !.pc = "failed"] ELSE errands[r]]
  BY FaultCounted DEF OpInv, Operators!Restart, AtWork
<1>2. \A r \in Request : errands[r] \in Errand
  BY DEF OpInv, OpTypes
<1>3. ASSUME NEW r \in Request
      PROVE  /\ errands'[r] \in Errand /\ errands'[r].pc \notin AtWork
             /\ errands'[r].stored = errands[r].stored /\ errands'[r].caller = errands[r].caller /\ errands'[r].ran = errands[r].ran
             /\ errands'[r].pc = errands[r].pc \/ (errands[r].pc \in AtWork /\ errands'[r].pc = "failed")
  <2>1. CASE errands[r].pc \in AtWork
    <3>1. PICK v : v = [errands[r] EXCEPT !.pc = "failed"]
      OBVIOUS
    <3>2. v \in Errand
      <4>1. "failed" \in Stages
        BY DEF Stages
      <4>2. QED
        BY <1>2, <3>1, <4>1 DEF Errand
    <3>3. v.pc = "failed" /\ v.stored = errands[r].stored /\ v.caller = errands[r].caller /\ v.ran = errands[r].ran
      BY <1>2, <3>1, Fields
    <3>4. errands'[r] = v
      BY <1>1, <2>1, <3>1
    <3>5. QED
      BY <2>1, <3>2, <3>3, <3>4 DEF AtWork
  <2>2. CASE errands[r].pc \notin AtWork
    BY <1>1, <1>2, <2>2
  <2>3. QED
    BY <2>1, <2>2
<1>4. errands' \in [Request -> Errand]
  BY <1>1, <1>3
<1>5. OpTypes'
  BY <1>1, <1>4 DEF OpInv, OpTypes
<1>6. Later(errands, errands')
  BY <1>3 DEF Later, Unasked, Unanswered
<1>7. Working(errands', born')
  BY <1>3 DEF Working
<1>8. Owned'
  BY <1>1 DEF OpInv, Owned
<1>9. Logs'
  <2>1. StoreFits(rows, born, errands')
    BY <1>6, StoreLater DEF OpInv, Logs
  <2>2. QED
    BY <1>1, <2>1 DEF Logs, StoreFits
<1>10. Awaited'
  BY <1>3 DEF Awaited, AtWork
<1>11. Permitted(errands')
  BY <1>3 DEF OpInv, Permitted, May, AtWork
<1>12. QED
  BY <1>5, <1>7, <1>8, <1>9, <1>10, <1>11 DEF OpInv

LEMMA ExpiryKeeps ==
    ASSUME OpInv, NEW s \in SessionId, Operators!Expire(s)
    PROVE  OpInv'
<1>1. /\ s \in DOMAIN rows \cup DOMAIN copies /\ UNCHANGED <<online, born, errands, mishaps>>
      /\ \A r \in Request : errands[r].pc = "reply" => errands[r].session # {s}
      /\ rows' = Operators!Drop(rows, {s}) /\ apart' = apart \cup {s}
      /\ copies' = copies \/ copies' = Operators!Drop(copies, {s})
  BY DEF Operators!Expire, Operators!At
<1>2. s \in born
  BY <1>1 DEF OpInv, Logs, StoreFits
<1>3. OpTypes' /\ Working(errands', born') /\ Permitted(errands')
  BY <1>1, <1>2 DEF OpInv, OpTypes
<1>4. DOMAIN rows' = DOMAIN rows \ {s} /\ \A x \in DOMAIN rows' : rows'[x] = rows[x]
  BY <1>1 DEF Operators!Drop
<1>5. DOMAIN copies' \subseteq DOMAIN copies /\ \A x \in DOMAIN copies' : copies'[x] = copies[x]
  BY <1>1 DEF Operators!Drop
<1>6. Owned'
  BY <1>1, <1>4, <1>5 DEF OpInv, Owned
<1>7. Logs'
  BY <1>1, <1>4, <1>5 DEF OpInv, Logs, StoreFits
<1>8. Awaited'
  <2>1. SUFFICES ASSUME NEW r \in Request, NEW x \in born, errands[r].pc = "reply", errands[r].session = {x}
                 PROVE  Awaits(r, x)'
    BY <1>1 DEF Awaited
  <2>2. x # s /\ Awaits(r, x)
    BY <1>1, <2>1 DEF OpInv, Awaited
  <2>3. QED
    BY <1>1, <1>4, <1>5, <2>2 DEF Awaits
<1>9. QED
  BY <1>3, <1>6, <1>7, <1>8 DEF OpInv

\* A request that has found its session, or made it.
LEMMA Opened ==
    ASSUME OpInv, NEW r \in Request, errands[r].pc = "new", NEW c \in Caller, NEW next \in {"model", "refused"},
           NEW s \in SessionId, Operators!Taken(r, c, next, {s})
    PROVE  /\ Only(r) /\ errands'[r].pc = next /\ errands'[r].caller = {c} /\ errands'[r].session = {s} /\ May(errands'[r])
           /\ Later(errands, errands') /\ Permitted(errands')
           /\ \A b : born \subseteq b /\ s \in b => Working(errands', b)
           /\ \A x \in Request : errands'[x].pc = "reply" => x # r /\ errands'[x] = errands[x]
<1>1. OpTypes /\ errands[r] \in Errand /\ next \in Stages
  BY DEF OpInv, OpTypes, Stages
<1>2. errands' = [errands EXCEPT ![r] = [@ EXCEPT !.pc = next, !.caller = {c}, !.session = {s}]]
  BY DEF Operators!Taken
<1>3. PICK v : v = [errands[r] EXCEPT !.pc = next, !.caller = {c}, !.session = {s}]
  OBVIOUS
<1>4. v \in Errand
  BY <1>1, <1>3, ErrandWith
<1>5. v.pc = next /\ v.caller = {c} /\ v.session = {s} /\ v.ran = errands[r].ran
  BY <1>1, <1>3, Fields
<1>6. errands' \in [Request -> Errand] /\ errands'[r] = v /\ \A x \in Request \ {r} : errands'[x] = errands[x]
  BY <1>1, <1>2, <1>3, <1>4, ErrandSet
<1>7. next # "new" /\ next # "reply"
  OBVIOUS
<1>8. Only(r)
  BY <1>5, <1>6, <1>7 DEF Only
<1>9. May(errands'[r])
  BY <1>5, <1>6, <1>7 DEF OpInv, Permitted, May
<1>10. Permitted(errands')
  BY <1>6, <1>9 DEF OpInv, Permitted
<1>11. \A b : born \subseteq b /\ s \in b => Working(errands', b)
  BY <1>5, <1>6 DEF OpInv, Working
<1>12. \A x \in Request : errands'[x].pc = "reply" => x # r /\ errands'[x] = errands[x]
  BY <1>5, <1>6, <1>7
<1>13. Later(errands, errands')
  BY <1>1, <1>8, OnlyLater
<1>14. QED
  BY <1>5, <1>6, <1>8, <1>9, <1>10, <1>11, <1>12, <1>13

LEMMA ResumeKeeps ==
    ASSUME OpInv, NEW r \in Request, errands[r].pc = "new", NEW c \in Caller, NEW next \in {"model", "refused"},
           NEW s \in SessionId, Operators!Resume(r, c, s, next), UNCHANGED <<online, mishaps>>
    PROVE  OpInv'
<1>1. Operators!Taken(r, c, next, {s}) /\ mishaps \in Nat /\ mishaps =< MaxMishaps
  BY DEF Operators!Resume, OpInv, OpTypes
<1>2. /\ Only(r) /\ errands'[r].pc = next /\ errands'[r].caller = {c} /\ errands'[r].session = {s} /\ May(errands'[r])
      /\ Later(errands, errands') /\ Permitted(errands')
      /\ \A b : born \subseteq b /\ s \in b => Working(errands', b)
      /\ \A x \in Request : errands'[x].pc = "reply" => x # r /\ errands'[x] = errands[x]
  BY <1>1, Opened
<1>3. CASE s \in DOMAIN rows /\ copies' = Operators!Put(copies, s, rows[s]) /\ UNCHANGED <<rows, born, apart>>
  <2>1. s \in born /\ rows[s] \in Operators!Copy /\ rows[s].log \in Seq(Line) /\ LogFits(rows[s].log, errands)
    BY <1>3, CopyFields DEF OpInv, Logs, StoreFits
  <2>2. OpTypes'
    BY <1>2, <1>3 DEF OpInv, OpTypes, Only
  <2>3. Working(errands', born') /\ Permitted(errands')
    BY <1>2, <1>3, <2>1
  <2>4. DOMAIN copies' = DOMAIN copies \cup {s} /\ copies'[s] = rows[s] /\ \A x \in DOMAIN copies : x # s => copies'[x] = copies[x]
    BY <1>3 DEF Operators!Put
  <2>5. Owned'
    BY <1>3, <2>4 DEF OpInv, Owned
  <2>6. Logs'
    <3>1. StoreFits(rows, born, errands') /\ StoreFits(copies, born, errands')
      BY <1>2, StoreLater DEF OpInv, Logs
    <3>2. LogFits(rows[s].log, errands')
      BY <1>3, <3>1 DEF StoreFits
    <3>3. StoreFits(Operators!Put(copies, s, rows[s]), born, errands')
      BY <2>1, <3>1, <3>2, StorePut
    <3>4. QED
      BY <1>3, <3>1, <3>3 DEF Logs
  <2>7. Awaited'
    <3>1. SUFFICES ASSUME NEW q \in Request, NEW x \in born, errands'[q].pc = "reply", errands'[q].session = {x}
                   PROVE  Awaits(q, x)'
      BY <1>3 DEF Awaited
    <3>2. errands'[q] = errands[q] /\ Awaits(q, x)
      BY <1>2, <3>1 DEF OpInv, Awaited
    <3>3. QED
      BY <1>3, <2>4, <3>2 DEF Awaits
  <2>8. QED
    BY <2>2, <2>3, <2>5, <2>6, <2>7 DEF OpInv
<1>4. CASE s \in DOMAIN copies /\ UNCHANGED <<rows, copies, born, apart>>
  <2>1. s \in born
    BY <1>4 DEF OpInv, Logs, StoreFits
  <2>2. errands'[r].pc # "reply" /\ (\E x \in Caller : errands'[r].caller = {x}) /\ \E x \in born : errands'[r].session = {x}
    BY <1>2, <2>1
  <2>3. QED
    BY <1>1, <1>2, <1>4, <2>2, OnlyOne
<1>5. QED
  BY <1>3, <1>4 DEF Operators!Resume, Operators!Stores

LEMMA MakeKeeps ==
    ASSUME OpInv, NEW r \in Request, errands[r].pc = "new", NEW c \in Caller, NEW next \in {"model", "refused"},
           Operators!Create(r, c, next), UNCHANGED <<online, mishaps>>
    PROVE  OpInv'
<1>1. PICK u \in User, s \in SessionId \ born :
         /\ copies' = Operators!Put(copies, s, [owner |-> {u}, log |-> <<>>])
         /\ rows' = IF online THEN Operators!Put(rows, s, [owner |-> {u}, log |-> <<>>]) ELSE rows
         /\ born' = born \cup {s} /\ apart' = IF online THEN apart ELSE apart \cup {s}
         /\ Operators!Taken(r, c, next, {s})
  BY DEF Operators!Create
<1>2. PICK copy : copy = [owner |-> {u}, log |-> <<>>]
  OBVIOUS
<1>3. copy \in Operators!Copy /\ copy.owner # {} /\ copy.log = <<>> /\ \A e : LogFits(copy.log, e)
  <2>1. copy \in [owner : SUBSET User, log : Seq(Line)] /\ copy.owner # {} /\ copy.log = <<>>
    BY <1>2, EmptySeq
  <2>2. QED
    BY <2>1, NothingFits DEF Operators!Copy, Line
<1>4. /\ Only(r) /\ errands'[r].pc = next /\ errands'[r].session = {s}
      /\ Later(errands, errands') /\ Permitted(errands')
      /\ \A b : born \subseteq b /\ s \in b => Working(errands', b)
      /\ \A x \in Request : errands'[x].pc = "reply" => x # r /\ errands'[x] = errands[x]
  BY <1>1, Opened
<1>5. Working(errands', born')
  BY <1>1, <1>4
<1>6. OpTypes'
  BY <1>1, <1>4 DEF OpInv, OpTypes, Only
<1>7. DOMAIN copies' = DOMAIN copies \cup {s} /\ copies'[s] = copy /\ \A x \in DOMAIN copies : x # s => copies'[x] = copies[x]
  BY <1>1, <1>2 DEF Operators!Put
<1>8. /\ \A x \in DOMAIN rows : x # s => x \in DOMAIN rows' /\ rows'[x] = rows[x]
      /\ DOMAIN rows' \subseteq DOMAIN rows \cup {s}
      /\ online => s \in DOMAIN rows' /\ rows'[s] = copy
  BY <1>1, <1>2 DEF Operators!Put
<1>9. Owned'
  <2>1. SUFFICES ASSUME NEW x \in born' \ apart'
                 PROVE  x \in DOMAIN rows' /\ rows'[x].owner # {} /\ (x \in DOMAIN copies' => copies'[x].owner # {})
    BY DEF Owned
  <2>2. CASE x = s
    BY <1>1, <1>3, <1>7, <1>8, <2>1, <2>2
  <2>3. CASE x # s
    <3>1. x \in born \ apart
      BY <1>1, <2>1, <2>3
    <3>2. QED
      BY <1>7, <1>8, <2>3, <3>1 DEF OpInv, Owned
  <2>4. QED
    BY <2>2, <2>3
<1>10. Logs'
  <2>1. PICK b : b = born \cup {s}
    OBVIOUS
  <2>2. StoreFits(rows, b, errands') /\ StoreFits(copies, b, errands')
    BY <1>4, <2>1, StoreLater DEF OpInv, Logs
  <2>3. StoreFits(Operators!Put(rows, s, copy), b, errands') /\ StoreFits(Operators!Put(copies, s, copy), b, errands')
    <3>1. s \in b
      BY <2>1
    <3>2. QED
      BY <1>3, <2>2, <3>1, StorePut
  <2>4. StoreFits(rows', born', errands') /\ StoreFits(copies', born', errands')
    BY <1>1, <1>2, <2>1, <2>2, <2>3
  <2>5. QED
    BY <2>4 DEF Logs
<1>11. Awaited'
  <2>1. SUFFICES ASSUME NEW q \in Request, NEW x \in born', errands'[q].pc = "reply", errands'[q].session = {x}
                 PROVE  Awaits(q, x)'
    BY DEF Awaited
  <2>2. errands'[q] = errands[q]
    BY <1>4, <2>1
  <2>3. \E y \in born : errands[q].session = {y}
    BY <2>1, <2>2 DEF OpInv, Working, AtWork
  <2>4. x \in born /\ x # s
    BY <2>1, <2>2, <2>3
  <2>5. Awaits(q, x)
    BY <2>1, <2>2, <2>4 DEF OpInv, Awaited
  <2>6. QED
    BY <1>7, <1>8, <2>2, <2>4, <2>5 DEF Awaits
<1>12. QED
  BY <1>4, <1>5, <1>6, <1>9, <1>10, <1>11 DEF OpInv

LEMMA OpenKeeps ==
    ASSUME OpInv, NEW r \in Request, Operators!Open(r)
    PROVE  OpInv'
<1>1. errands[r].pc = "new" /\ UNCHANGED <<online, mishaps>>
  BY DEF Operators!Open, Operators!At
<1>2. PICK c \in Caller, next \in {"model", "refused"} : (\E s \in SessionId : Operators!Resume(r, c, s, next)) \/ Operators!Create(r, c, next)
  BY DEF Operators!Open
<1>3. QED
  BY <1>1, <1>2, ResumeKeeps, MakeKeeps

\* What is not stored yet is in no log.
LEMMA Unsaid ==
    ASSUME NEW log \in Seq(Line), NEW e, LogFits(log, e), NEW r \in Request
    PROVE  /\ e[r].pc = "question" => Operators!Question(r) \notin In(log)
           /\ e[r].pc = "reply" => Operators!Reply(r) \notin In(log)
<1>1. /\ Operators!Question(r).of = r /\ Operators!Question(r).by = "user"
      /\ Operators!Reply(r).of = r /\ Operators!Reply(r).by = "assistant"
  BY Messages
<1>2. "question" \in Unasked /\ "reply" \in Unanswered
  BY DEF Unasked, Unanswered
<1>3. QED
  BY <1>1, <1>2 DEF In, LogFits

LEMMA MoreFits ==
    ASSUME NEW copy \in Operators!Copy, NEW e, LogFits(copy.log, e), NEW m \in Line, m \notin In(copy.log),
           m.by = "user" => e[m.of].pc \notin Unasked,
           m.by = "assistant" => e[m.of].pc \notin Unanswered /\ (AskedIn(copy.log, m.of) \/ e[m.of].stored = "memory"),
           NEW new, new = Operators!More(copy, m)
    PROVE  /\ new \in Operators!Copy /\ new.owner = copy.owner /\ LogFits(new.log, e)
           /\ \A q \in Request : AskedIn(copy.log, q) \/ m = Operators!Question(q) => AskedIn(new.log, q)
<1>1. PICK log \in Seq(Line) : log = copy.log
  BY CopyFields
<1>2. PICK d : d = Operators!Trim(Append(log, m))
  OBVIOUS
<1>3. d \in Seq(Line) /\ LogFits(d, e)
  BY <1>1, <1>2, FitsMore
<1>4. new \in Operators!Copy /\ new.owner = copy.owner /\ new.log = d
  BY <1>1, <1>2, <1>3, MoreTells
<1>5. Len(log) =< MaxMessages /\ Distinct(log)
  BY <1>1 DEF LogFits
<1>6. \A q \in Request : AskedIn(log, q) \/ m = Operators!Question(q) => AskedIn(d, q)
  BY <1>1, <1>2, <1>5, AskedMore
<1>7. QED
  BY <1>1, <1>3, <1>4, <1>6

\* The two messages, where they are stored and what comes next.
Storing(r, m, from, next) ==
    \/ m = Operators!Question(r) /\ from = "question" /\ next = "reply"
    \/ m = Operators!Reply(r) /\ from = "reply" /\ next = "done"

\* The errand afterwards: with its message stored, or not.
StoredAs(r, m, from, next, p, place) ==
    /\ Storing(r, m, from, next) /\ errands[r].pc = from
    /\ p \in {next, "failed"} /\ place \in {"nowhere", "redis", "memory"}
    /\ p = "reply" => place \in {"redis", "memory"}
    /\ from = "reply" => place = errands[r].stored
    /\ errands' = [errands EXCEPT ![r] = [@ EXCEPT !.pc = p, !.stored = place]]

\* A request that has stored its message, or failed to.
LEMMA MessageStored ==
    ASSUME OpInv, NEW r \in Request, NEW m, NEW from, NEW next, NEW p, NEW place, StoredAs(r, m, from, next, p, place)
    PROVE  /\ Only(r) /\ errands'[r].pc = p /\ errands'[r].stored = place /\ errands'[r].session = errands[r].session
           /\ May(errands'[r]) /\ Later(errands, errands') /\ Permitted(errands') /\ Working(errands', born)
           /\ \A x \in Request \ {r} : errands'[x] = errands[x]
           /\ m \in Line /\ m.of = r
           /\ m.by = "user" => errands'[m.of].pc \notin Unasked
           /\ m.by = "assistant" => errands'[m.of].pc \notin Unanswered
           /\ StoreFits(rows, born, errands') /\ StoreFits(copies, born, errands')
           /\ \A s \in DOMAIN rows : m \notin In(rows[s].log)
           /\ \A s \in DOMAIN copies : m \notin In(copies[s].log)
           /\ from = "reply" => m.by = "assistant"
           /\ from = "question" => m = Operators!Question(r) /\ m.by = "user"
           /\ from = "reply" \/ from = "question"
<1>0. /\ Storing(r, m, from, next) /\ errands[r].pc = from
      /\ p \in {next, "failed"} /\ place \in {"nowhere", "redis", "memory"}
      /\ p = "reply" => place \in {"redis", "memory"}
      /\ from = "reply" => place = errands[r].stored
      /\ errands' = [errands EXCEPT ![r] = [@ EXCEPT !.pc = p, !.stored = place]]
      /\ p \in Stages
  <2>1. Storing(r, m, from, next) => next \in {"reply", "done"}
    BY DEF Storing
  <2>2. QED
    BY <2>1 DEF StoredAs, Stages
<1>1. OpTypes /\ errands[r] \in Errand /\ p \in Stages
  BY <1>0 DEF OpInv, OpTypes
<1>2. PICK v : v = [errands[r] EXCEPT !.pc = p, !.stored = place]
  OBVIOUS
<1>3. v \in Errand
  BY <1>0, <1>1, <1>2 DEF Errand
<1>4. v.pc = p /\ v.stored = place /\ v.caller = errands[r].caller /\ v.session = errands[r].session /\ v.ran = errands[r].ran
  BY <1>1, <1>2, Fields
<1>5. errands' \in [Request -> Errand] /\ errands'[r] = v /\ \A x \in Request \ {r} : errands'[x] = errands[x]
  BY <1>0, <1>1, <1>2, <1>3, ErrandSet
<1>6. p \in {"reply", "done", "failed"} /\ (from = "reply" => p \in {"done", "failed"}) /\ from \in {"question", "reply"}
  BY <1>0 DEF Storing
<1>7. Only(r)
  <2>1. p \notin Unasked /\ p # "new" /\ p # "model"
    BY <1>6 DEF Unasked
  <2>2. from = "reply" => p \notin Unanswered
    BY <1>6 DEF Unanswered
  <2>3. QED
    BY <1>0, <1>4, <1>5, <1>6, <2>1, <2>2 DEF Only
<1>8. Later(errands, errands')
  BY <1>1, <1>7, OnlyLater
<1>9. errands[r].pc \in AtWork
  BY <1>0, <1>6 DEF AtWork
<1>10. Working(errands', born)
  BY <1>4, <1>5, <1>9 DEF OpInv, Working
<1>11. May(errands'[r])
  BY <1>0, <1>4, <1>5, <1>6 DEF OpInv, Permitted, May
<1>12. Permitted(errands')
  BY <1>5, <1>11 DEF OpInv, Permitted
<1>13. /\ m \in Line /\ m.of = r
       /\ from = "reply" => m.by = "assistant" /\ m = Operators!Reply(r)
       /\ from = "question" => m = Operators!Question(r) /\ m.by = "user"
  BY <1>0, Messages DEF Storing
<1>14. (m.by = "user" => errands'[r].pc \notin Unasked) /\ (m.by = "assistant" => errands'[r].pc \notin Unanswered)
  <2>1. p \notin Unasked
    BY <1>6 DEF Unasked
  <2>2. m.by = "assistant" => from = "reply"
    BY <1>6, <1>13
  <2>3. from = "reply" => p \notin Unanswered
    BY <1>6 DEF Unanswered
  <2>4. QED
    BY <1>4, <1>5, <2>1, <2>2, <2>3
<1>15. StoreFits(rows, born, errands') /\ StoreFits(copies, born, errands')
  BY <1>8, StoreLater DEF OpInv, Logs
<1>16. ASSUME NEW st, StoreFits(st, born, errands), NEW s \in DOMAIN st
       PROVE  m \notin In(st[s].log)
  <2>1. st[s].log \in Seq(Line) /\ LogFits(st[s].log, errands)
    BY <1>16, CopyFields DEF StoreFits
  <2>2. QED
    BY <1>0, <1>6, <1>13, <2>1, Unsaid
<1>17. (\A s \in DOMAIN rows : m \notin In(rows[s].log)) /\ (\A s \in DOMAIN copies : m \notin In(copies[s].log))
  BY <1>16 DEF OpInv, Logs
<1>18. QED
  BY <1>4, <1>5, <1>6, <1>7, <1>8, <1>10, <1>11, <1>12, <1>13, <1>14, <1>15, <1>17

LEMMA StoreKeeps ==
    ASSUME OpInv, NEW r \in Request, NEW m, NEW from, NEW next, Storing(r, m, from, next), Operators!Store(r, m, from, next)
    PROVE  OpInv'
<1>1. errands[r].pc = from /\ UNCHANGED <<online, born, apart>> /\ mishaps \in Nat /\ mishaps =< MaxMishaps
      /\ OpTypes /\ errands[r] \in Errand /\ from \in {"question", "reply"}
  BY DEF Operators!Store, Operators!At, OpInv, OpTypes, Storing
<1>2. PICK s \in born : errands[r].session = {s}
  BY <1>1 DEF OpInv, Working, AtWork
<1>3. Operators!SessionOf(r) = s
  BY <1>2 DEF Operators!SessionOf
<1>4. from = "reply" => Awaits(r, s)
  BY <1>1, <1>2 DEF OpInv, Awaited
<1>5. PICK place : place = errands[r].stored /\ place \in {"nowhere", "redis", "memory"}
  BY <1>1 DEF Errand
<1>6. ASSUME Operators!To(r, "failed")
      PROVE  errands' = [errands EXCEPT ![r] = [@ EXCEPT !.pc = "failed", !.stored = place]]
  <2>1. [errands[r] EXCEPT !.pc = "failed"] = [errands[r] EXCEPT !.pc = "failed", !.stored = place]
    BY <1>1, <1>5 DEF Errand
  <2>2. errands' = [errands EXCEPT ![r] = [errands[r] EXCEPT !.pc = "failed"]]
    BY <1>1, <1>6 DEF Operators!To, OpTypes
  <2>3. QED
    BY <2>1, <2>2
<1>7. ASSUME NEW x \in {"redis", "memory"},
             errands' = [errands EXCEPT ![r].pc = next, ![r].stored = IF from = "question" THEN x ELSE @]
      PROVE  \E y \in {"redis", "memory"} :
               /\ from = "question" => y = x
               /\ from = "reply" => y = place
               /\ errands' = [errands EXCEPT ![r] = [@ EXCEPT !.pc = next, !.stored = y]]
  <2>1. PICK y : y = IF from = "question" THEN x ELSE place
    OBVIOUS
  <2>2. y \in {"redis", "memory"} /\ (from = "question" => y = x) /\ (from = "reply" => y = place)
    BY <1>1, <1>4, <1>5, <2>1 DEF Awaits
  <2>3. errands' = [errands EXCEPT ![r].pc = next, ![r].stored = y]
    BY <1>1, <1>5, <1>7, <2>1 DEF OpTypes, Errand
  <2>4. errands' = [errands EXCEPT ![r] = [@ EXCEPT !.pc = next, !.stored = y]]
    BY <1>1, <2>3 DEF OpTypes, Errand
  <2>5. QED
    BY <2>2, <2>4
<1>8. PICK base : base = IF s \in DOMAIN rows THEN rows[s] ELSE Operators!Nobody
  OBVIOUS
<1>9. PICK pushed : pushed = Operators!Pushed(s, m) /\ pushed = Operators!More(base, m)
  BY <1>8 DEF Operators!Pushed
\* What a push to Redis leaves in the session's row.
<1>10. ASSUME NEW p \in {next, "failed"}, NEW y \in {"nowhere", "redis", "memory"},
              p = "reply" => y \in {"redis", "memory"}, from = "reply" => y = place,
              errands' = [errands EXCEPT ![r] = [@ EXCEPT !.pc = p, !.stored = y]]
       PROVE  /\ pushed \in Operators!Copy /\ LogFits(pushed.log, errands')
              /\ s \notin apart => s \in DOMAIN rows /\ pushed.owner # {}
              /\ \A q \in Request : s \in DOMAIN rows /\ AskedIn(rows[s].log, q) => AskedIn(pushed.log, q)
              /\ from = "question" => AskedIn(pushed.log, r)
  <2>0. StoredAs(r, m, from, next, p, y)
    BY <1>1, <1>5, <1>10 DEF StoredAs
  <2>1. /\ m \in Line /\ m.of = r /\ errands'[r].stored = y
        /\ m.by = "user" => errands'[m.of].pc \notin Unasked
        /\ m.by = "assistant" => errands'[m.of].pc \notin Unanswered
        /\ StoreFits(rows, born, errands') /\ \A x \in DOMAIN rows : m \notin In(rows[x].log)
        /\ from = "question" => m = Operators!Question(r) /\ m.by = "user"
    BY <2>0, MessageStored
  <2>2. base \in Operators!Copy /\ LogFits(base.log, errands') /\ m \notin In(base.log)
    BY <1>8, <2>1, NothingFits, InNone DEF StoreFits
  <2>3. m.by = "assistant" => AskedIn(base.log, r) \/ errands'[r].stored = "memory"
    <3>1. m.by = "assistant" => from = "reply"
      BY <1>1, <2>1
    <3>2. CASE from = "reply"
      BY <1>4, <1>5, <1>8, <1>10, <2>1, <3>2 DEF Awaits
    <3>3. QED
      BY <3>1, <3>2
  <2>4. /\ pushed \in Operators!Copy /\ pushed.owner = base.owner /\ LogFits(pushed.log, errands')
        /\ \A q \in Request : AskedIn(base.log, q) \/ m = Operators!Question(q) => AskedIn(pushed.log, q)
    BY <1>9, <2>1, <2>2, <2>3, MoreFits
  <2>5. s \notin apart => s \in DOMAIN rows /\ rows[s].owner # {}
    BY DEF OpInv, Owned
  <2>6. QED
    BY <1>8, <2>1, <2>4, <2>5
<1>12. CASE /\ Operators!AppendToRedis(s, m) /\ mishaps' = mishaps
            /\ errands' = [errands EXCEPT ![r].pc = next, ![r].stored = IF from = "question" THEN "redis" ELSE @]
  <2>1. PICK y \in {"redis", "memory"} : /\ (from = "question" => y = "redis") /\ (from = "reply" => y = place)
                                         /\ errands' = [errands EXCEPT ![r] = [@ EXCEPT !.pc = next, !.stored = y]]
    BY <1>7, <1>12
  <2>0. StoredAs(r, m, from, next, next, y)
    BY <1>1, <1>5, <2>1 DEF StoredAs
  <2>2. /\ pushed \in Operators!Copy /\ LogFits(pushed.log, errands')
        /\ s \notin apart => s \in DOMAIN rows /\ pushed.owner # {}
        /\ \A q \in Request : s \in DOMAIN rows /\ AskedIn(rows[s].log, q) => AskedIn(pushed.log, q)
        /\ from = "question" => AskedIn(pushed.log, r)
    BY <1>10, <2>1
  <2>3. /\ errands' \in [Request -> Errand] /\ errands'[r].stored = y /\ Permitted(errands') /\ Working(errands', born)
        /\ StoreFits(rows, born, errands') /\ StoreFits(copies, born, errands')
    BY <2>0, MessageStored DEF Only
  <2>4. /\ rows' = Operators!Put(rows, s, pushed) /\ copies' = Operators!Put(copies, s, pushed)
        /\ DOMAIN rows' = DOMAIN rows \cup {s} /\ rows'[s] = pushed /\ (\A x \in DOMAIN rows : x # s => rows'[x] = rows[x])
        /\ DOMAIN copies' = DOMAIN copies \cup {s} /\ copies'[s] = pushed /\ (\A x \in DOMAIN copies : x # s => copies'[x] = copies[x])
    BY <1>9, <1>12 DEF Operators!AppendToRedis, Operators!Put
  <2>5. OpTypes'
    BY <1>1, <1>12, <2>3 DEF OpTypes
  <2>6. Owned'
    BY <1>1, <2>2, <2>4 DEF OpInv, Owned
  <2>7. Logs'
    <3>1. StoreFits(Operators!Put(rows, s, pushed), born, errands') /\ StoreFits(Operators!Put(copies, s, pushed), born, errands')
      BY <2>2, <2>3, StorePut
    <3>2. QED
      BY <1>1, <2>4, <3>1 DEF Logs
  <2>8. Awaited'
    <3>1. SUFFICES ASSUME NEW q \in Request, NEW x \in born, errands'[q].pc = "reply", errands'[q].session = {x}
                   PROVE  Awaits(q, x)'
      BY <1>1 DEF Awaited
    <3>2. /\ errands'[r].pc = next /\ errands'[r].session = {s} /\ \A z \in Request \ {r} : errands'[z] = errands[z]
      BY <1>2, <2>0, MessageStored
    <3>3. CASE q = r
      <4>1. x = s /\ from = "question"
        BY <3>1, <3>2, <3>3 DEF Storing
      <4>2. QED
        BY <2>1, <2>2, <2>3, <2>4, <3>3, <4>1 DEF Awaits
    <3>4. CASE q # r
      <4>1. errands'[q] = errands[q] /\ Awaits(q, x)
        BY <3>1, <3>2, <3>4 DEF OpInv, Awaited
      <4>2. CASE x = s
        BY <2>2, <2>4, <4>1, <4>2 DEF Awaits
      <4>3. CASE x # s
        BY <2>4, <4>1, <4>3 DEF Awaits
      <4>4. QED
        BY <4>2, <4>3
    <3>5. QED
      BY <3>3, <3>4
  <2>9. QED
    BY <1>1, <2>3, <2>5, <2>6, <2>7, <2>8 DEF OpInv
<1>13. CASE /\ Operators!Fault /\ rows' = Operators!Put(rows, s, Operators!Pushed(s, m)) /\ copies' = copies
            /\ Operators!To(r, "failed")
  <2>1. errands' = [errands EXCEPT ![r] = [@ EXCEPT !.pc = "failed", !.stored = place]]
    BY <1>6, <1>13
  <2>0. StoredAs(r, m, from, next, "failed", place)
    BY <1>1, <1>5, <2>1 DEF StoredAs
  <2>2. /\ pushed \in Operators!Copy /\ LogFits(pushed.log, errands')
        /\ s \notin apart => s \in DOMAIN rows /\ pushed.owner # {}
        /\ \A q \in Request : s \in DOMAIN rows /\ AskedIn(rows[s].log, q) => AskedIn(pushed.log, q)
    BY <1>5, <1>10, <2>1
  <2>3. /\ errands' \in [Request -> Errand] /\ Permitted(errands') /\ Working(errands', born)
        /\ StoreFits(rows, born, errands') /\ StoreFits(copies, born, errands')
        /\ errands'[r].pc = "failed" /\ \A z \in Request \ {r} : errands'[z] = errands[z]
    BY <2>0, MessageStored DEF Only
  <2>4. /\ rows' = Operators!Put(rows, s, pushed) /\ DOMAIN rows' = DOMAIN rows \cup {s} /\ rows'[s] = pushed
        /\ \A x \in DOMAIN rows : x # s => rows'[x] = rows[x]
    BY <1>9, <1>13 DEF Operators!Put
  <2>5. OpTypes'
    BY <1>1, <1>13, <2>3, FaultCounted DEF OpTypes
  <2>6. Owned'
    BY <1>1, <1>13, <2>2, <2>4 DEF OpInv, Owned
  <2>7. Logs'
    <3>1. StoreFits(Operators!Put(rows, s, pushed), born, errands')
      BY <2>2, <2>3, StorePut
    <3>2. QED
      BY <1>1, <1>13, <2>3, <2>4, <3>1 DEF Logs
  <2>8. Awaited'
    <3>1. SUFFICES ASSUME NEW q \in Request, NEW x \in born, errands'[q].pc = "reply", errands'[q].session = {x}
                   PROVE  Awaits(q, x)'
      BY <1>1 DEF Awaited
    <3>2. errands'[q] = errands[q] /\ Awaits(q, x)
      BY <2>3, <3>1 DEF OpInv, Awaited
    <3>3. CASE x = s
      BY <1>13, <2>2, <2>4, <3>2, <3>3 DEF Awaits
    <3>4. CASE x # s
      BY <1>13, <2>4, <3>2, <3>4 DEF Awaits
    <3>5. QED
      BY <3>3, <3>4
  <2>9. QED
    BY <1>1, <2>3, <2>5, <2>6, <2>7, <2>8 DEF OpInv
<1>14. CASE /\ Operators!AppendToMemory(s, m) /\ mishaps' = mishaps
            /\ errands' = [errands EXCEPT ![r].pc = next, ![r].stored = IF from = "question" THEN "memory" ELSE @]
  <2>1. PICK y \in {"redis", "memory"} : /\ (from = "question" => y = "memory") /\ (from = "reply" => y = place)
                                         /\ errands' = [errands EXCEPT ![r] = [@ EXCEPT !.pc = next, !.stored = y]]
    BY <1>7, <1>14
  <2>0. StoredAs(r, m, from, next, next, y)
    BY <1>1, <1>5, <2>1 DEF StoredAs
  <2>2. /\ m \in Line /\ m.of = r /\ errands'[r].stored = y /\ errands' \in [Request -> Errand]
        /\ errands'[r].pc = next /\ errands'[r].session = {s}
        /\ m.by = "user" => errands'[m.of].pc \notin Unasked
        /\ m.by = "assistant" => errands'[m.of].pc \notin Unanswered
        /\ Permitted(errands') /\ Working(errands', born) /\ (\A z \in Request \ {r} : errands'[z] = errands[z])
        /\ StoreFits(rows, born, errands') /\ StoreFits(copies, born, errands')
        /\ \A x \in DOMAIN copies : m \notin In(copies[x].log)
        /\ from = "question" => m = Operators!Question(r) /\ m.by = "user"
    BY <1>2, <2>0, MessageStored DEF Only
  <2>3. PICK new : new = Operators!More(copies[s], m)
    OBVIOUS
  <2>4. s \in DOMAIN copies /\ rows' = rows /\ copies' = [copies EXCEPT ![s] = new]
    BY <1>14, <2>3 DEF Operators!AppendToMemory
  <2>5. copies[s] \in Operators!Copy /\ LogFits(copies[s].log, errands') /\ m \notin In(copies[s].log)
    BY <2>2, <2>4 DEF StoreFits
  <2>6. m.by = "assistant" => AskedIn(copies[s].log, r) \/ errands'[r].stored = "memory"
    <3>1. m.by = "assistant" => from = "reply"
      BY <1>1, <2>2
    <3>2. CASE from = "reply"
      BY <1>4, <1>5, <2>1, <2>2, <2>4, <3>2 DEF Awaits
    <3>3. QED
      BY <3>1, <3>2
  <2>7. /\ new \in Operators!Copy /\ new.owner = copies[s].owner /\ LogFits(new.log, errands')
        /\ \A q \in Request : AskedIn(copies[s].log, q) => AskedIn(new.log, q)
    BY <2>2, <2>3, <2>5, <2>6, MoreFits
  <2>8. DOMAIN copies' = DOMAIN copies /\ copies'[s] = new /\ \A x \in DOMAIN copies : x # s => copies'[x] = copies[x]
    BY <2>4
  <2>9. OpTypes'
    BY <1>1, <1>14, <2>2 DEF OpTypes
  <2>10. Owned'
    BY <1>1, <2>4, <2>7, <2>8 DEF OpInv, Owned
  <2>11. Logs'
    <3>1. StoreFits(copies', born, errands')
      BY <2>2, <2>7, <2>8 DEF StoreFits
    <3>2. QED
      BY <1>1, <2>2, <2>4, <3>1 DEF Logs
  <2>12. Awaited'
    <3>1. SUFFICES ASSUME NEW q \in Request, NEW x \in born, errands'[q].pc = "reply", errands'[q].session = {x}
                   PROVE  Awaits(q, x)'
      BY <1>1 DEF Awaited
    <3>2. CASE q = r
      <4>1. from = "question"
        BY <2>2, <3>1, <3>2 DEF Storing
      <4>2. errands'[q].stored = "memory"
        BY <2>1, <2>2, <3>2, <4>1
      <4>3. QED
        BY <4>2 DEF Awaits
    <3>3. CASE q # r
      <4>1. errands'[q] = errands[q] /\ Awaits(q, x)
        BY <2>2, <3>1, <3>3 DEF OpInv, Awaited
      <4>2. CASE x = s
        BY <2>4, <2>7, <2>8, <4>1, <4>2 DEF Awaits
      <4>3. CASE x # s
        BY <2>4, <2>8, <4>1, <4>3 DEF Awaits
      <4>4. QED
        BY <4>2, <4>3
    <3>4. QED
      BY <3>2, <3>3
  <2>13. QED
    BY <1>1, <2>2, <2>9, <2>10, <2>11, <2>12 DEF OpInv
<1>15. CASE UNCHANGED <<rows, copies, mishaps>> /\ Operators!To(r, "failed")
  <2>1. errands' = [errands EXCEPT ![r] = [@ EXCEPT !.pc = "failed", !.stored = place]]
    BY <1>6, <1>15
  <2>0. StoredAs(r, m, from, next, "failed", place)
    BY <1>1, <1>5, <2>1 DEF StoredAs
  <2>2. Only(r) /\ errands'[r].pc = "failed" /\ May(errands'[r])
    BY <2>0, MessageStored
  <2>3. "failed" \notin AtWork
    BY DEF AtWork
  <2>4. QED
    BY <1>1, <1>15, <2>2, <2>3, OnlyOne
<1>16. QED
  <2>1. Operators!SessionOf(r) = s
    BY <1>3
  <2>2. QED
    BY <1>12, <1>13, <1>14, <1>15, <2>1 DEF Operators!Store

LEMMA OperatorsStay == OpInv /\ UNCHANGED opVars => OpInv'
BY DEF opVars, OpInv, OpTypes, Owned, Logs, Awaited, Awaits

LEMMA OperatorsKeep == OpInv /\ Operators!Next => OpInv'
<1>1. SUFFICES ASSUME OpInv, Operators!Next PROVE OpInv'
  OBVIOUS
<1>2. ASSUME NEW r \in Request, Operators!StoreQuestion(r) PROVE OpInv'
  BY <1>1, <1>2, StoreKeeps DEF Operators!StoreQuestion, Storing
<1>3. ASSUME NEW r \in Request, Operators!StoreReply(r) PROVE OpInv'
  BY <1>1, <1>3, StoreKeeps DEF Operators!StoreReply, Storing
<1>4. QED
  BY <1>1, <1>2, <1>3, RefuseKeeps, CallToolKeeps, OpenKeeps, WorkKeeps, ExpiryKeeps, GoesKeeps, ComesKeeps, RestartsKeep
     DEF Operators!Next

\* Who holds the operators' scope, and who a commander's.
LEMMA WhoMayOperate ==
    ASSUME NEW c \in Caller, "llm_operator" \in Operators!ScopesOf(c)
    PROVE  c.key \/ Operators!Within(c.groups, {"kaine-god", "kaine-god-test", "kaine-directors", "kaine-directors-test",
                                                "kaine-lead-ops", "kaine-lead-ops-test"})
<1>1. CASE c.door = "http"
  BY <1>1 DEF Operators!ScopesOf
<1>2. CASE c.door = "portal"
  <2>1. "llm_operator" \in Operators!ScopesForGroups(c.groups)
    BY <1>2 DEF Operators!ScopesOf, Operators!PortalScopes
  <2>2. PICK g \in c.groups : "llm_operator" \in Operators!OfGroup(g)
    BY <2>1 DEF Operators!ScopesForGroups
  <2>3. g = "kaine-god"
    BY <2>2 DEF Operators!OfGroup, Operators!Portal, Operators!Pilot
  <2>4. QED
    BY <2>2, <2>3 DEF Operators!Within
<1>3. CASE c.door # "http" /\ c.door # "portal"
  <2>1. Operators!ScopesOf(c) = IF c.key THEN {"admin", "llm_operator"} ELSE Operators!McpScopes(c.groups)
    BY <1>3 DEF Operators!ScopesOf
  <2>2. CASE ~c.key
    <3>1. "llm_operator" \in Operators!McpScopes(c.groups)
      BY <2>1, <2>2
    <3>2. \/ Operators!Within(c.groups, {"kaine-god", "kaine-god-test"})
          \/ Operators!Within(c.groups, {"kaine-directors", "kaine-directors-test", "kaine-lead-ops", "kaine-lead-ops-test"})
      BY <3>1 DEF Operators!McpScopes
    <3>3. QED
      BY <3>2 DEF Operators!Within
  <2>3. QED
    BY <2>2
<1>4. QED
  BY <1>1, <1>2, <1>3

LEMMA WhoIsACommander ==
    ASSUME NEW c \in Caller, "commander_data" \in Operators!ScopesOf(c)
    PROVE  c.identified /\ Operators!Within(c.groups, {"edin-copilot", "edin-copilot-trusted"})
<1>1. c.door = "portal"
  <2>1. "commander_data" \notin (IF c.key THEN {"llm_operator"} ELSE {})
    OBVIOUS
  <2>2. "commander_data" \notin (IF c.key THEN {"admin", "llm_operator"} ELSE Operators!McpScopes(c.groups))
    BY DEF Operators!McpScopes
  <2>3. QED
    BY <2>1, <2>2 DEF Operators!ScopesOf
<1>2. "commander_data" \in Operators!PortalScopes(c)
  BY <1>1 DEF Operators!ScopesOf
<1>3. c.identified /\ "commander_data" \in Operators!ScopesForGroups(c.groups)
  BY <1>2 DEF Operators!PortalScopes
<1>4. PICK g \in c.groups : "commander_data" \in Operators!OfGroup(g)
  BY <1>3 DEF Operators!ScopesForGroups
<1>5. g \in {"edin-copilot", "edin-copilot-trusted"}
  BY <1>4 DEF Operators!OfGroup, Operators!Portal, Operators!Pilot
<1>6. QED
  BY <1>3, <1>4, <1>5 DEF Operators!Within

\* The parts of TurnsHold that are about the operators.
LEMMA OperatorsTell == OpInv => Operators!TypeOK /\ Operators!RepliesFollow /\ Operators!OwnerLost /\ Operators!OfferedRuns
<1>1. SUFFICES ASSUME OpInv PROVE Operators!TypeOK /\ Operators!RepliesFollow /\ Operators!OwnerLost /\ Operators!OfferedRuns
  OBVIOUS
<1>2. StoreFits(rows, born, errands) /\ StoreFits(copies, born, errands)
  BY <1>1 DEF OpInv, Logs
<1>3. Operators!TypeOK
  BY <1>1, <1>2 DEF OpInv, OpTypes, StoreFits, Operators!TypeOK
<1>4. Operators!RepliesFollow
  BY <1>2 DEF StoreFits, LogFits, Distinct, Operators!RepliesFollow
<1>5. Operators!OwnerLost
  BY <1>1, <1>2 DEF OpInv, Owned, StoreFits, Operators!OwnerLost
<1>6. ASSUME NEW r \in Request, NEW c \in errands[r].caller
      PROVE  /\ Operators!ScopesOf(c) # {} => {t \in Operators!Tool : Operators!Allowed(Operators!ScopesOf(c), t)} = Operators!Offered(Operators!ScopesOf(c))
             /\ Operators!OpsOnly \cap errands[r].ran # {} =>
                  c.key \/ Operators!Within(c.groups, {"kaine-god", "kaine-god-test", "kaine-directors", "kaine-directors-test",
                                                       "kaine-lead-ops", "kaine-lead-ops-test"})
             /\ "commander_events" \in errands[r].ran => c.identified /\ Operators!Within(c.groups, {"edin-copilot", "edin-copilot-trusted"})
  <2>1. c \in Caller /\ \A t \in errands[r].ran : Operators!Allowed(Operators!ScopesOf(c), t)
    <3>1. errands[r].caller \in {{}} \cup {{x} : x \in Caller}
      BY <1>1 DEF OpInv, OpTypes, Errand
    <3>2. QED
      BY <1>1, <1>6, <3>1 DEF OpInv, Permitted, May
  <2>2. \A scopes, t : Operators!Visible(scopes, t) <=> Operators!Allowed(scopes, t)
    <3>1. Operators!Needs.restart_service = {"llm_operator"} /\ Operators!OpsOnly = {"restart_service"}
      BY DEF Operators!Needs, Operators!OpsOnly
    <3>2. QED
      BY <3>1 DEF Operators!Visible, Operators!Allowed
  <2>3. Operators!ScopesOf(c) # {} => {t \in Operators!Tool : Operators!Allowed(Operators!ScopesOf(c), t)} = Operators!Offered(Operators!ScopesOf(c))
    BY <2>2 DEF Operators!Offered
  <2>4. "restart_service" \in errands[r].ran => "llm_operator" \in Operators!ScopesOf(c)
    <3>1. Operators!Needs["restart_service"] = {"llm_operator"}
      BY DEF Operators!Needs
    <3>2. QED
      BY <2>1, <3>1 DEF Operators!Allowed
  <2>5. "commander_events" \in errands[r].ran => "commander_data" \in Operators!ScopesOf(c)
    <3>1. Operators!Needs["commander_events"] = {"commander_data"}
      BY DEF Operators!Needs
    <3>2. QED
      BY <2>1, <3>1 DEF Operators!Allowed
  <2>6. Operators!OpsOnly \cap errands[r].ran # {} => "restart_service" \in errands[r].ran
    BY DEF Operators!OpsOnly
  <2>7. QED
    BY <2>1, <2>3, <2>4, <2>5, <2>6, WhoMayOperate, WhoIsACommander
<1>7. Operators!OfferedRuns
  BY <1>6 DEF Operators!OfferedRuns
<1>8. QED
  BY <1>3, <1>4, <1>5, <1>7

-----------------------------------------------------------------------------

\* runner.go:48, server.go:624: the invariants above hold of whatever steps the
\* turns and the operators take.
THEOREM TurnsInvariance == MCSpec => [](part = "turn" => LoopInv) /\ [](part = "operators" => OpInv)
<1>1. MCInit => (part = "turn" => LoopInv) /\ (part = "operators" => OpInv)
  BY LoopBegins, OperatorsBegin DEF MCInit
<1>2. (part = "turn" => LoopInv) /\ [MCNext]_<<part, vars, turnVars, tagVars, opVars>> => (part = "turn" => LoopInv)'
  <2>1. SUFFICES ASSUME part = "turn" => LoopInv, [MCNext]_<<part, vars, turnVars, tagVars, opVars>>, part' = "turn"
                 PROVE  LoopInv'
    OBVIOUS
  <2>2. part' = part
    BY <2>1 DEF MCNext, Over
  <2>3. (part = "turn" /\ Loop!Next) \/ UNCHANGED turnVars
    BY <2>1, <2>2 DEF MCNext, Over
  <2>4. QED
    BY <2>1, <2>2, <2>3, LoopStays, LoopKeeps
<1>3. (part = "operators" => OpInv) /\ [MCNext]_<<part, vars, turnVars, tagVars, opVars>> => (part = "operators" => OpInv)'
  <2>1. SUFFICES ASSUME part = "operators" => OpInv, [MCNext]_<<part, vars, turnVars, tagVars, opVars>>, part' = "operators"
                 PROVE  OpInv'
    OBVIOUS
  <2>2. part' = part
    BY <2>1 DEF MCNext, Over
  <2>3. (part = "operators" /\ Operators!Next) \/ UNCHANGED opVars
    BY <2>1, <2>2 DEF MCNext, Over
  <2>4. QED
    BY <2>1, <2>2, <2>3, OperatorsStay, OperatorsKeep
<1>4. QED
  BY <1>1, <1>2, <1>3, PTL DEF MCSpec

\* anthropic_context.go:161, server.go:624, executor.go:155: whatever tools
\* fail, contexts are compacted, turns are not stored or turns of one session
\* run side by side, each request to the model is paired, a reply follows its
\* question, and what runs is what the caller may run.
THEOREM TurnsAlwaysHold == MCSpec => []TurnsHold
<1>1. (part = "turn" => LoopInv) /\ (part = "operators" => OpInv) => TurnsHold
  BY LoopTells, OperatorsTell DEF TurnsHold
<1>2. QED
  BY <1>1, TurnsInvariance, PTL

-----------------------------------------------------------------------------
(* The commander's chat: logs                                               *)

USE MaxMessagesAssumption, SessAssumption

Has(log, e)  == \E k \in DOMAIN log : log[k] = e

\* Entries of different messages, or by different sides, differ.
LEMMA EntriesDiffer ==
    ASSUME NEW i \in Id, NEW j \in Id
    PROVE  /\ Question(i) \in Entry /\ Reply(i) \in Entry
           /\ Question(i) = Question(j) => i = j
           /\ Reply(i) = Reply(j) => i = j
           /\ Question(i) # Reply(j)
BY DEF Question, Reply, Entry

\* A trimmed log is the end of the log.
LEMMA TrimIsEnd ==
    ASSUME NEW log \in Seq(Entry)
    PROVE  /\ Trim(log) \in Seq(Entry) /\ Len(Trim(log)) =< MaxMessages
           /\ \E o \in Nat : /\ Len(Trim(log)) = Len(log) - o
                             /\ \A k \in 1 .. Len(Trim(log)) : k + o \in 1 .. Len(log) /\ Trim(log)[k] = log[k + o]
<1>1. CASE Len(log) =< MaxMessages
  <2>1. Trim(log) = log
    BY <1>1 DEF Trim
  <2>2. Len(log) \in Nat /\ \A k \in 1 .. Len(log) : k + 0 = k
    OBVIOUS
  <2>3. /\ Len(Trim(log)) = Len(log) - 0
        /\ \A k \in 1 .. Len(Trim(log)) : k + 0 \in 1 .. Len(log) /\ Trim(log)[k] = log[k + 0]
    BY <2>1, <2>2
  <2>5. Trim(log) \in Seq(Entry) /\ Len(Trim(log)) =< MaxMessages
    BY <1>1, <2>1
  <2>4. QED
    BY <2>3, <2>5
<1>2. CASE ~(Len(log) =< MaxMessages)
  <2> DEFINE o == Len(log) - MaxMessages
  <2>1. o \in Nat /\ Trim(log) = SubSeq(log, o + 1, Len(log))
    BY <1>2 DEF Trim
  <2> HIDE DEF o
  <2>3. Len(log) - o = MaxMessages /\ Len(log) \in Nat
    BY <1>2 DEF o
  <2>5. \A k \in (o + 1) .. Len(log) : log[k] \in Entry
    BY <2>1
  <2>6. /\ SubSeq(log, o + 1, Len(log)) \in Seq(Entry)
        /\ Len(SubSeq(log, o + 1, Len(log))) = IF o + 1 =< Len(log) THEN Len(log) - (o + 1) + 1 ELSE 0
        /\ \A k \in 1 .. Len(log) - (o + 1) + 1 : SubSeq(log, o + 1, Len(log))[k] = log[o + 1 + k - 1]
    BY <2>1, <2>3, <2>5, SubSeqProperties
  <2>7. Len(Trim(log)) = MaxMessages
    BY <2>1, <2>3, <2>6
  <2>8. \A k \in 1 .. MaxMessages : k + o \in 1 .. Len(log) /\ Trim(log)[k] = log[k + o]
    BY <2>1, <2>3, <2>6
  <2>2. /\ Trim(log) \in Seq(Entry) /\ Len(Trim(log)) = Len(log) - o
        /\ \A k \in 1 .. Len(Trim(log)) : k + o \in 1 .. Len(log) /\ Trim(log)[k] = log[k + o]
    BY <2>1, <2>3, <2>6, <2>7, <2>8
  <2>4. o \in Nat /\ Trim(log) \in Seq(Entry) /\ Len(Trim(log)) =< MaxMessages
    BY <2>1, <2>2, <2>7
  <2>9. QED
    BY <2>2, <2>4
<1>3. QED
  BY <1>1, <1>2

\* What a log shows once an entry has been appended and the log trimmed.
LEMMA Added ==
    ASSUME NEW log \in Seq(Entry), NEW e \in Entry
    PROVE  LET new == Trim(Append(log, e)) IN
           /\ new \in Seq(Entry) /\ Len(new) =< MaxMessages
           /\ \A f : Has(new, f) => Has(log, f) \/ f = e
           /\ \A f : Once(log, f) /\ (f # e \/ ~Has(log, f)) => Once(new, f)
           /\ \A k \in 1 .. Len(new) - 1 : Has(log, new[k])
<1> DEFINE app == Append(log, e)
           new == Trim(app)
<1>1. app \in Seq(Entry) /\ Len(app) = Len(log) + 1 /\ app[Len(log) + 1] = e
      /\ \A k \in 1 .. Len(log) : app[k] = log[k]
  OBVIOUS
<1>2. PICK o \in Nat : /\ Len(new) = Len(app) - o
                       /\ \A k \in 1 .. Len(new) : k + o \in 1 .. Len(app) /\ new[k] = app[k + o]
  BY <1>1, TrimIsEnd
<1>3. new \in Seq(Entry) /\ Len(new) =< MaxMessages
  BY <1>1, TrimIsEnd
<1> HIDE DEF app, new
<1>4. DOMAIN log = 1 .. Len(log) /\ DOMAIN new = 1 .. Len(new) /\ Len(log) \in Nat /\ Len(new) \in Nat
  BY <1>3
<1>5. \A k \in 1 .. Len(new) : (k + o \in 1 .. Len(log) /\ new[k] = log[k + o]) \/ (k + o = Len(log) + 1 /\ new[k] = e)
  BY <1>1, <1>2, <1>4
<1>6. \A f : Has(new, f) => Has(log, f) \/ f = e
  BY <1>4, <1>5 DEF Has
<1>7. ASSUME NEW f, Once(log, f), f # e \/ ~Has(log, f) PROVE Once(new, f)
  <2>1. SUFFICES ASSUME NEW j \in 1 .. Len(new), NEW k \in 1 .. Len(new), new[j] = f, new[k] = f PROVE j = k
    BY <1>4 DEF Once
  <2>2. j + o \in 1 .. Len(log) /\ k + o \in 1 .. Len(log) => j + o = k + o
    BY <1>4, <1>5, <1>7, <2>1 DEF Once
  <2>3. ~(j + o \in 1 .. Len(log)) => f = e /\ j + o = Len(log) + 1
    BY <1>4, <1>5, <2>1
  <2>4. ~(k + o \in 1 .. Len(log)) => f = e /\ k + o = Len(log) + 1
    BY <1>4, <1>5, <2>1
  <2>5. j + o \in 1 .. Len(log) => Has(log, f)
    BY <1>4, <1>5, <2>1 DEF Has
  <2>6. k + o \in 1 .. Len(log) => Has(log, f)
    BY <1>4, <1>5, <2>1 DEF Has
  <2>7. j + o = k + o
    BY <1>7, <2>2, <2>3, <2>4, <2>5, <2>6
  <2>8. QED
    BY <1>4, <2>7
<1>8. \A k \in 1 .. Len(new) - 1 : Has(log, new[k])
  <2>1. SUFFICES ASSUME NEW k \in 1 .. Len(new) - 1 PROVE Has(log, new[k])
    OBVIOUS
  <2>2. k \in 1 .. Len(new) /\ k + o # Len(log) + 1
    BY <1>1, <1>2, <1>4
  <2>3. QED
    BY <1>4, <1>5, <2>2 DEF Has
<1>9. QED
  BY <1>3, <1>6, <1>7, <1>8 DEF app, new

\* An entry that is on show at one place at most is counted once at most.
LEMMA CountedOnce ==
    ASSUME NEW log \in Seq(Entry), NEW e, Once(log, e)
    PROVE  Count(log, e) =< 1
<1> DEFINE P == {k \in DOMAIN log : log[k] = e}
<1>1. CASE P = {}
  <2>1. Cardinality(P) = 0
    BY <1>1, FS_EmptySet
  <2>2. QED
    BY <2>1 DEF Count
<1>2. CASE P # {}
  <2>1. PICK k : k \in P
    BY <1>2
  <2>2. P = {k}
    BY <2>1 DEF Once
  <2>3. Cardinality(P) = 1
    BY <2>2, FS_Singleton
  <2>4. QED
    BY <2>3 DEF Count
<1>3. QED
  BY <1>1, <1>2

-----------------------------------------------------------------------------
(* What the operators on a store do                                          *)

\* AppendMessageOnce: one question more, and nothing else of the session or of
\* another.
LEMMA AskEffect ==
    ASSUME NEW st, IsStore(st), NEW s \in DOMAIN st, NEW i \in Id
    PROVE  LET new == Ask(st, s, i) IN
           /\ IsStore(new) /\ DOMAIN new = DOMAIN st /\ \A t \in DOMAIN st \ {s} : new[t] = st[t]
           /\ Len(new[s].log) =< MaxMessages
           /\ new[s].ids = st[s].ids \cup {i} /\ new[s].ctx = st[s].ctx
           /\ Asked(new[s]) \subseteq Asked(st[s]) \cup {i} /\ Replied(new[s]) \subseteq Replied(st[s])
           /\ Past(new[s].log) \subseteq Asked(st[s])
           /\ \A j \in Id : /\ Once(st[s].log, Reply(j)) => Once(new[s].log, Reply(j))
                            /\ Once(st[s].log, Question(j)) /\ j # i => Once(new[s].log, Question(j))
                            /\ Once(st[s].log, Question(i)) /\ i \notin Asked(st[s]) => Once(new[s].log, Question(i))
<1> DEFINE log == st[s].log
           add == Trim(Append(log, Question(i)))
           new == Ask(st, s, i)
<1>1. st[s] \in Copy /\ DOMAIN st \subseteq Sess
  BY DEF IsStore
<1>2. log \in Seq(Entry) /\ Question(i) \in Entry
  BY <1>1, EntriesDiffer DEF Copy
<1>3. /\ add \in Seq(Entry) /\ Len(add) =< MaxMessages
      /\ \A f : Has(add, f) => Has(log, f) \/ f = Question(i)
      /\ \A f : Once(log, f) /\ (f # Question(i) \/ ~Has(log, f)) => Once(add, f)
      /\ \A k \in 1 .. Len(add) - 1 : Has(log, add[k])
  BY <1>2, Added
<1> HIDE DEF add
<1>4. /\ new[s].log = add /\ new[s].ids = st[s].ids \cup {i} /\ new[s].ctx = st[s].ctx
      /\ DOMAIN new = DOMAIN st /\ \A t \in DOMAIN st \ {s} : new[t] = st[t]
  BY <1>1 DEF Ask, Copy, add
<1>5. new[s] = [log |-> add, ids |-> st[s].ids \cup {i}, ctx |-> st[s].ctx]
  BY <1>1 DEF Ask, Copy, add
<1>6. new[s] \in Copy
  BY <1>1, <1>3, <1>5 DEF Copy
<1> HIDE DEF new
<1>7. IsStore(new)
  BY <1>1, <1>4, <1>6 DEF IsStore
<1>8. Asked(new[s]) \subseteq Asked(st[s]) \cup {i} /\ Replied(new[s]) \subseteq Replied(st[s])
  BY <1>3, <1>4, EntriesDiffer DEF Asked, Replied, Has
<1>9. Past(new[s].log) \subseteq Asked(st[s])
  BY <1>3, <1>4 DEF Asked, Past, Has
<1>10. \A j \in Id : /\ Once(log, Reply(j)) => Once(add, Reply(j))
                     /\ Once(log, Question(j)) /\ j # i => Once(add, Question(j))
                     /\ Once(log, Question(i)) /\ i \notin Asked(st[s]) => Once(add, Question(i))
  BY <1>3, EntriesDiffer DEF Asked, Has
<1>11. QED
  BY <1>3, <1>4, <1>7, <1>8, <1>9, <1>10 DEF new

\* CommitAssistantTurn: one reply more, and the context as given.
LEMMA AnswerEffect ==
    ASSUME NEW st, IsStore(st), NEW s \in DOMAIN st, NEW i \in Id, NEW given \in SUBSET Id
    PROVE  LET new == Answer(st, s, i, given) IN
           /\ IsStore(new) /\ DOMAIN new = DOMAIN st /\ \A t \in DOMAIN st \ {s} : new[t] = st[t]
           /\ Len(new[s].log) =< MaxMessages
           /\ new[s].ids = st[s].ids /\ new[s].ctx = given
           /\ Asked(new[s]) \subseteq Asked(st[s]) /\ Replied(new[s]) \subseteq Replied(st[s]) \cup {i}
           /\ \A j \in Id : /\ Once(st[s].log, Question(j)) => Once(new[s].log, Question(j))
                            /\ Once(st[s].log, Reply(j)) /\ j # i => Once(new[s].log, Reply(j))
                            /\ Once(st[s].log, Reply(i)) /\ i \notin Replied(st[s]) => Once(new[s].log, Reply(i))
<1> DEFINE log == st[s].log
           add == Trim(Append(log, Reply(i)))
           new == Answer(st, s, i, given)
<1>1. st[s] \in Copy /\ DOMAIN st \subseteq Sess
  BY DEF IsStore
<1>2. log \in Seq(Entry) /\ Reply(i) \in Entry
  BY <1>1, EntriesDiffer DEF Copy
<1>3. /\ add \in Seq(Entry) /\ Len(add) =< MaxMessages
      /\ \A f : Has(add, f) => Has(log, f) \/ f = Reply(i)
      /\ \A f : Once(log, f) /\ (f # Reply(i) \/ ~Has(log, f)) => Once(add, f)
  BY <1>2, Added
<1> HIDE DEF add
<1>4. /\ new[s].log = add /\ new[s].ids = st[s].ids /\ new[s].ctx = given
      /\ DOMAIN new = DOMAIN st /\ \A t \in DOMAIN st \ {s} : new[t] = st[t]
  BY <1>1 DEF Answer, Copy, add
<1>5. new[s] = [log |-> add, ids |-> st[s].ids, ctx |-> given]
  BY <1>1 DEF Answer, Copy, add
<1>6. new[s] \in Copy
  BY <1>1, <1>3, <1>5 DEF Copy
<1> HIDE DEF new
<1>7. IsStore(new)
  BY <1>1, <1>4, <1>6 DEF IsStore
<1>8. Asked(new[s]) \subseteq Asked(st[s]) /\ Replied(new[s]) \subseteq Replied(st[s]) \cup {i}
  BY <1>3, <1>4, EntriesDiffer DEF Asked, Replied, Has
<1>9. \A j \in Id : /\ Once(log, Question(j)) => Once(add, Question(j))
                    /\ Once(log, Reply(j)) /\ j # i => Once(add, Reply(j))
                    /\ Once(log, Reply(i)) /\ i \notin Replied(st[s]) => Once(add, Reply(i))
  BY <1>3, EntriesDiffer DEF Replied, Has
<1>10. QED
  BY <1>3, <1>4, <1>7, <1>8, <1>9 DEF new

\* A store that differs in one session only, or has it in addition.
Alters(new, st, s) ==
    IsStore(new) /\ DOMAIN new = DOMAIN st \cup {s} /\ \A t \in DOMAIN st \ {s} : new[t] = st[t]

\* UpsertSession: the messages are the loaded ones, the context stays.
LEMMA UpsertEffect ==
    ASSUME NEW st, IsStore(st), NEW s \in Sess, NEW loaded \in Copy
    PROVE  LET new == Upsert(st, s, loaded) IN
           /\ IsStore(new) /\ Alters(new, st, s)
           /\ new[s].ctx = IF s \in DOMAIN st THEN st[s].ctx ELSE {}
<1> DEFINE old == IF s \in DOMAIN st THEN st[s] ELSE Blank
           copy == [log |-> loaded.log, ids |-> old.ids \cup Asked(loaded), ctx |-> old.ctx]
<1>1. Blank \in Copy
  BY DEF Blank, Copy
<1>2. old \in Copy /\ Asked(loaded) \subseteq Id
  BY <1>1 DEF IsStore, Asked
<1>3. copy \in Copy
  BY <1>2 DEF Copy
<1>4. Upsert(st, s, loaded) = Put(st, s, copy)
  BY DEF Upsert
<1>5. copy.ctx = IF s \in DOMAIN st THEN st[s].ctx ELSE {}
  BY DEF Blank
<1> HIDE DEF copy
<1>6. QED
  BY <1>3, <1>4, <1>5 DEF Put, IsStore, Alters

-----------------------------------------------------------------------------
(* Types and shapes                                                          *)

Good(r) == r \in Connection /\ Fits(r)

LEMMA NoConnGood == Good(NoConn) /\ NoConn.turn = "none" /\ ~NoConn.fresh
BY DEF Good, Connection, Fits, NoConn, LoopPhase, TurnPhase

LEMMA ReadyGood ==
    ASSUME NEW r \in Connection
    PROVE  /\ Good(Ready(r)) /\ Ready(r).turn = "none" /\ ~Ready(r).fresh /\ Ready(r).sess = r.sess
BY DEF Good, Connection, Fits, Ready, LoopPhase, TurnPhase

LEMMA EndTurnGood ==
    ASSUME NEW r, Good(r), r.turn # "none"
    PROVE  Good(EndTurn(r)) /\ EndTurn(r).turn = "none" /\ ~EndTurn(r).fresh
<1>1. CASE r.loop = "closed"
  BY <1>1, NoConnGood DEF EndTurn
<1>2. CASE r.loop # "closed"
  <2>1. r.loop = "ready"
    BY <1>2 DEF Good, Fits
  <2>2. Ready(r).loop = "ready" /\ Ready(r) \in Connection
    BY ReadyGood DEF Good, Connection, Ready
  <2>3. EndTurn(r) = Ready(r)
    BY <1>2, <2>1, <2>2 DEF EndTurn, Connection
  <2>4. QED
    BY <2>3, ReadyGood DEF Good
<1>3. QED
  BY <1>1, <1>2

LEMMA BeginGood ==
    ASSUME NEW r \in Connection, r.turn = "none", r.ctx = {}, NEW i \in Id, NEW log
    PROVE  LET b == Begin(r, i, log) IN
           /\ Good(b) /\ b.turn = "context" /\ ~b.fresh /\ b.sess = r.sess /\ b.msg = {i}
           /\ b.past = Past(log) /\ b.ctx = {}
<1>1. Past(log) \subseteq Id
  BY DEF Past
<1>2. QED
  BY <1>1 DEF Begin, Good, Connection, Fits, LoopPhase, TurnPhase

\* One connection changes, and what it becomes is fit.
LEMMA ConnStep ==
    ASSUME TypeOK, ConnShape, NEW c \in Conn, NEW r, Good(r), conn' = [conn EXCEPT ![c] = r]
    PROVE  /\ conn' \in [Conn -> Connection] /\ ConnShape'
           /\ conn'[c] = r /\ \A d \in Conn \ {c} : conn'[d] = conn[d]
BY DEF TypeOK, ConnShape, Good

\* The index stays an order when a session is touched or some leave.
IsIndex(x) ==
    LET L == {s \in Sess : <<s, s>> \in x} IN
    /\ x \subseteq Sess \X Sess
    /\ \A s, t \in L : <<s, t>> \in x \/ <<t, s>> \in x
    /\ \A p \in x : p[1] \in L /\ p[2] \in L /\ (<<p[2], p[1]>> \in x => p[1] = p[2])

LEMMA DelistIndex ==
    ASSUME IsIndex(index), NEW gone PROVE IsIndex(Delist(gone))
BY DEF IsIndex, Delist

LEMMA TouchIndex ==
    ASSUME IsIndex(index), NEW s \in Sess PROVE IsIndex(Touch(s))
<1> DEFINE x == Touch(s)
           L == {t \in Sess : <<t, t>> \in x}
<1>1. \A t, u : <<t, u>> \in x <=> \/ <<t, u>> \in index /\ t # s /\ u # s
                                   \/ t = s /\ u \in Listed \cup {s}
  BY DEF Touch, Delist
<1>2. x \subseteq Sess \X Sess
  BY DEF Touch, Delist, IsIndex, Listed
<1> HIDE DEF x
<1>3. L = Listed \cup {s}
  BY <1>1 DEF Listed
<1>4. Listed \subseteq Sess /\ \A t, u \in Listed : <<t, u>> \in index \/ <<u, t>> \in index
  BY DEF IsIndex, Listed
<1>5. ASSUME NEW t, NEW u, <<t, u>> \in index
      PROVE  t \in Listed /\ u \in Listed /\ (<<u, t>> \in index => t = u)
  BY <1>5 DEF IsIndex, Listed
<1>6. \A t, u \in L : <<t, u>> \in x \/ <<u, t>> \in x
  BY <1>1, <1>3, <1>4
<1>7. ASSUME NEW t, NEW u, <<t, u>> \in x
      PROVE  t \in L /\ u \in L /\ (<<u, t>> \in x => t = u)
  BY <1>1, <1>3, <1>5, <1>7
<1>8. \A p \in x : p[1] \in L /\ p[2] \in L /\ (<<p[2], p[1]>> \in x => p[1] = p[2])
  <2>1. SUFFICES ASSUME NEW p \in x
                 PROVE  p[1] \in L /\ p[2] \in L /\ (<<p[2], p[1]>> \in x => p[1] = p[2])
    OBVIOUS
  <2>2. p = <<p[1], p[2]>>
    BY <1>2
  <2>3. <<p[1], p[2]>> \in x
    BY <2>2
  <2>4. QED
    BY <1>7, <2>3
<1>9. IsIndex(x)
  BY <1>2, <1>6, <1>8 DEF IsIndex
<1>10. QED
  BY <1>9 DEF x

\* TypeOK, part by part.
Redis(st)  == IsStore(st) /\ \A s \in DOMAIN st : Len(st[s].log) =< MaxMessages
Counts == faults \in Nat /\ sends \in Nat
History ==
    /\ asked \in [Sess -> SUBSET Id] /\ answered \subseteq Id /\ degraded \subseteq Id
    /\ dropped \subseteq Id /\ crossed \subseteq Id

LEMMA TypeParts ==
    /\ TypeOK <=> /\ Redis(redis) /\ IsStore(memory) /\ IsIndex(index) /\ active \subseteq Sess
                  /\ conn \in [Conn -> Connection] /\ Counts /\ History
    /\ TypeOK' <=> /\ Redis(redis)' /\ IsStore(memory)' /\ IsIndex(index)' /\ (active \subseteq Sess)'
                   /\ conn' \in [Conn -> Connection] /\ Counts' /\ History'
BY DEF TypeOK, Redis, IsIndex, Counts, History, Listed, IsStore

\* A session more, a session less, a session replaced.
LEMMA BlankCopy == Blank \in Copy /\ Asked(Blank) = {} /\ Replied(Blank) = {} /\ Past(Blank.log) = {}
BY DEF Blank, Copy, Asked, Replied, Past

LEMMA PutStore ==
    ASSUME NEW st, IsStore(st), NEW s \in Sess, NEW copy \in Copy
    PROVE  IsStore(Put(st, s, copy)) /\ Alters(Put(st, s, copy), st, s) /\ Put(st, s, copy)[s] = copy
BY DEF IsStore, Put, Alters

LEMMA DropStore ==
    ASSUME NEW st, IsStore(st), NEW s
    PROVE  /\ IsStore(Drop(st, s)) /\ DOMAIN Drop(st, s) = DOMAIN st \ {s}
           /\ \A t \in DOMAIN st \ {s} : Drop(st, s)[t] = st[t]
BY DEF IsStore, Drop

LEMMA RedisStep ==
    ASSUME NEW st, Redis(st), NEW new, IsStore(new), NEW s, s \in DOMAIN new, DOMAIN new \subseteq DOMAIN st \cup {s},
           \A t \in DOMAIN new \ {s} : new[t] = st[t], Len(new[s].log) =< MaxMessages
    PROVE  Redis(new)
BY DEF Redis

\* The two steps of a connection's choice of a session, and of its message.
LEMMA ChooseGood ==
    ASSUME NEW r, Good(r), r.turn = "none", r.loop # "load", NEW s \in Sess, NEW l \in {"ready", "create", "closed"}
    PROVE  Good([r EXCEPT !.loop = l]) /\ Good([r EXCEPT !.loop = l, !.sess = s]) /\ Good([r EXCEPT !.sess = s])
<1>1. r \in Connection
  BY DEF Good
<1>2. [r EXCEPT !.loop = l] \in Connection /\ [r EXCEPT !.loop = l, !.sess = s] \in Connection /\ [r EXCEPT !.sess = s] \in Connection
  BY <1>1 DEF Connection, LoopPhase
<1>3. Fits([r EXCEPT !.loop = l])
  BY <1>1 DEF Good, Fits, Connection
<1>4. Fits([r EXCEPT !.loop = l, !.sess = s])
  BY <1>1 DEF Good, Fits, Connection
<1>5. Fits([r EXCEPT !.sess = s])
  BY <1>1 DEF Good, Fits, Connection
<1>6. QED
  BY <1>2, <1>3, <1>4, <1>5 DEF Good

LEMMA AcceptGood ==
    ASSUME NEW r, Good(r), r.loop = "ready", r.turn = "none", NEW i \in Id
    PROVE  /\ Good([r EXCEPT !.loop = "load", !.msg = {i}, !.fresh = TRUE])
           /\ Good([r EXCEPT !.loop = "load", !.msg = {i}])
<1>1. r \in Connection /\ Fits(r)
  BY DEF Good
<1>2. [r EXCEPT !.loop = "load", !.msg = {i}, !.fresh = TRUE] \in Connection /\ [r EXCEPT !.loop = "load", !.msg = {i}] \in Connection
  BY <1>1 DEF Connection, LoopPhase
<1>3. Fits([r EXCEPT !.loop = "load", !.msg = {i}, !.fresh = TRUE])
  BY <1>1 DEF Fits, Connection
<1>4. Fits([r EXCEPT !.loop = "load", !.msg = {i}])
  BY <1>1 DEF Fits, Connection
<1>5. QED
  BY <1>2, <1>3, <1>4 DEF Good

LEMMA TurnGood ==
    ASSUME NEW r, Good(r), r.turn # "none", NEW t \in TurnPhase \ {"none"}, NEW x \in SUBSET Id
    PROVE  Good([r EXCEPT !.turn = t]) /\ Good([r EXCEPT !.turn = t, !.ctx = x])
<1>1. r \in Connection /\ Fits(r)
  BY DEF Good
<1>2. [r EXCEPT !.turn = t] \in Connection /\ [r EXCEPT !.turn = t, !.ctx = x] \in Connection
  BY <1>1 DEF Connection
<1>3. Fits([r EXCEPT !.turn = t])
  BY <1>1 DEF Fits, Connection
<1>4. Fits([r EXCEPT !.turn = t, !.ctx = x])
  BY <1>1 DEF Fits, Connection
<1>5. QED
  BY <1>2, <1>3, <1>4 DEF Good

LEMMA CloseGood ==
    ASSUME NEW r, Good(r), r.loop = "ready", r.turn # "none"
    PROVE  Good([r EXCEPT !.loop = "closed"])
BY DEF Good, Fits, Connection, LoopPhase

-----------------------------------------------------------------------------
(* Types and shapes, action by action                                        *)

Shaped == TypeOK /\ ConnShape

\* What holds of the present state, said once.
LEMMA ShapedParts ==
    ASSUME Shaped
    PROVE  /\ Redis(redis) /\ IsStore(redis) /\ IsStore(memory) /\ IsIndex(index) /\ active \subseteq Sess /\ Counts /\ History
           /\ Stored \subseteq Sess /\ DOMAIN memory \subseteq Sess /\ Listed \subseteq Sess
           /\ \A s \in Stored : redis[s] \in Copy
           /\ \A s \in DOMAIN memory : memory[s] \in Copy
           /\ \A c \in Conn : conn[c] \in Connection /\ Good(conn[c]) /\ conn[c].sess \in Sess /\ conn[c].msg \subseteq Id
                              /\ conn[c].ctx \subseteq Id /\ conn[c].turn \in TurnPhase /\ conn[c].loop \in LoopPhase
<1>1. Redis(redis) /\ IsStore(memory) /\ IsIndex(index) /\ active \subseteq Sess /\ Counts /\ History
      /\ conn \in [Conn -> Connection] /\ ConnShape
  BY TypeParts DEF Shaped
<1>2. \A c \in Conn : conn[c] \in Connection /\ Good(conn[c])
  BY <1>1 DEF Good, ConnShape
<1>3. \A r \in Connection : /\ r.sess \in Sess /\ r.msg \subseteq Id /\ r.ctx \subseteq Id
                            /\ r.turn \in TurnPhase /\ r.loop \in LoopPhase
  BY DEF Connection
<1>4. QED
  BY <1>1, <1>2, <1>3 DEF Redis, IsStore, Stored, Listed

LEMMA ConnectShape ==
    ASSUME Shaped, NEW c \in Conn, Connect(c)
    PROVE  Shaped'
<1>0. Good(conn[c]) /\ conn[c].turn = "none" /\ conn[c].loop # "load"
  BY ShapedParts DEF Connect, NoConn
<1>1. Current \subseteq Sess /\ Latest \subseteq Sess
  BY ShapedParts DEF Current, Latest
<1>2. PICK r : Good(r) /\ conn' = [conn EXCEPT ![c] = r]
  <2>1. ASSUME NEW s \in Sess, conn' = [conn EXCEPT ![c].loop = "ready", ![c].sess = s]
        PROVE  \E r : Good(r) /\ conn' = [conn EXCEPT ![c] = r]
    <3>1. conn' = [conn EXCEPT ![c] = [conn[c] EXCEPT !.loop = "ready", !.sess = s]]
      BY <2>1
    <3>2. QED
      BY <1>0, <3>1, ChooseGood
  <2>2. CASE conn' = [conn EXCEPT ![c].loop = "create"]
    BY <2>2, <1>0, ShapedParts, ChooseGood
  <2>3. QED
    BY <2>1, <2>2, <1>1 DEF Connect
<1>3. conn' \in [Conn -> Connection] /\ ConnShape'
  BY <1>2, ConnStep DEF Shaped
<1>4. Counts' /\ active' \subseteq Sess
  BY ShapedParts DEF Connect, Counts, NoFault, Fault, boundVars
<1>5. Redis(redis)' /\ IsStore(memory)' /\ IsIndex(index)' /\ History'
  BY ShapedParts DEF Connect, Redis, IsIndex, History, historyVars, IsStore
<1>6. QED
  BY <1>3, <1>4, <1>5, TypeParts DEF Shaped

LEMMA CreateShape ==
    ASSUME Shaped, NEW c \in Conn, Create(c)
    PROVE  Shaped'
<1>0. Good(conn[c]) /\ conn[c].loop = "create" /\ conn[c].turn = "none"
  BY ShapedParts DEF Create, Good, Fits
<1>1. PICK s \in NewSess :
         /\ conn' = [conn EXCEPT ![c].loop = "ready", ![c].sess = s]
         /\ memory' = Put(memory, s, Blank)
         /\ redis' = Put(redis, s, Blank) \/ redis' = redis
         /\ index' = index \/ index' = Touch(s)
         /\ active' = active \/ active' = {s}
         /\ NoFault \/ Fault
  BY DEF Create
<1>2. s \in Sess
  BY DEF NewSess
<1>3. PICK r : Good(r) /\ conn' = [conn EXCEPT ![c] = r]
  <2>1. conn' = [conn EXCEPT ![c] = [conn[c] EXCEPT !.loop = "ready", !.sess = s]]
    BY <1>1
  <2>2. QED
    BY <1>0, <1>2, <2>1, ChooseGood
<1>4. conn' \in [Conn -> Connection] /\ ConnShape'
  BY <1>3, ConnStep DEF Shaped
<1>5. Counts' /\ active' \subseteq Sess
  BY <1>1, <1>2, ShapedParts DEF Counts, NoFault, Fault, boundVars
<1>6. History'
  BY ShapedParts DEF Create, History, historyVars
<1>7. IsStore(memory)'
  BY <1>1, <1>2, ShapedParts, PutStore, BlankCopy DEF IsStore
<1>8. IsIndex(index')
  BY <1>1, <1>2, ShapedParts, TouchIndex
<1>9. Redis(redis')
  <2>1. CASE redis' = redis
    BY <2>1, ShapedParts
  <2>2. CASE redis' = Put(redis, s, Blank)
    <3>1. Len(Blank.log) =< MaxMessages
      BY DEF Blank
    <3>2. Alters(redis', redis, s) /\ redis'[s] = Blank
      BY <2>2, <1>2, ShapedParts, PutStore, BlankCopy
    <3>3. QED
      BY <3>1, <3>2, ShapedParts, RedisStep DEF Alters
  <2>3. QED
    BY <1>1, <2>1, <2>2
<1>10. Redis(redis)' /\ IsIndex(index)'
  BY <1>8, <1>9 DEF Redis, IsIndex, IsStore
<1>11. QED
  BY <1>4, <1>5, <1>6, <1>7, <1>10, TypeParts DEF Shaped

LEMMA SwitchShape ==
    ASSUME Shaped, NEW c \in Conn, SwitchSession(c)
    PROVE  Shaped'
<1>0. Good(conn[c]) /\ conn[c].loop = "ready" /\ conn[c].turn = "none"
  BY ShapedParts DEF SwitchSession, MayLeave, Busy
<1>1. PICK s \in Stored :
         /\ active' \in {active, {s}}
         /\ memory' = memory \/ memory' = Upsert(memory, s, redis[s])
         /\ conn' = conn \/ conn' = [conn EXCEPT ![c].sess = s]
         /\ NoFault \/ Fault
  BY DEF SwitchSession
<1>2. s \in Sess /\ redis[s] \in Copy
  BY ShapedParts
<1>3. PICK r : Good(r) /\ conn' = [conn EXCEPT ![c] = r]
  <2>1. CASE conn' = conn
    <3>1. conn' = [conn EXCEPT ![c] = conn[c]]
      BY <2>1 DEF Shaped, TypeOK
    <3>2. QED
      BY <1>0, <3>1
  <2>2. CASE conn' = [conn EXCEPT ![c].sess = s]
    BY <2>2, <1>0, <1>2, ChooseGood
  <2>3. QED
    BY <1>1, <2>1, <2>2
<1>4. conn' \in [Conn -> Connection] /\ ConnShape'
  BY <1>3, ConnStep DEF Shaped
<1>5. Counts' /\ active' \subseteq Sess
  BY <1>1, <1>2, ShapedParts DEF Counts, NoFault, Fault, boundVars
<1>6. History' /\ Redis(redis)' /\ IsIndex(index)'
  BY ShapedParts DEF SwitchSession, History, historyVars, Redis, IsIndex, IsStore
<1>7. IsStore(memory')
  <2>1. IsStore(Upsert(memory, s, redis[s])) /\ IsStore(memory)
    BY <1>2, ShapedParts, UpsertEffect
  <2>2. QED
    BY <1>1, <2>1
<1>8. QED
  BY <1>4, <1>5, <1>6, <1>7, TypeParts DEF Shaped, IsStore

LEMMA SessionShape ==
    ASSUME Shaped, NEW c \in Conn, NewChat(c) \/ Sync(c) \/ Disconnect(c)
    PROVE  Shaped'
<1>1. CASE NewChat(c)
  <2>1. Good(conn[c]) /\ conn[c].loop = "ready" /\ conn[c].turn = "none"
    BY <1>1, ShapedParts DEF NewChat, MayLeave, Busy
  <2>2. PICK r : Good(r) /\ conn' = [conn EXCEPT ![c] = r]
    BY <1>1, <2>1, ShapedParts, ChooseGood DEF NewChat
  <2>3. conn' \in [Conn -> Connection] /\ ConnShape'
    BY <2>2, ConnStep DEF Shaped
  <2>4. QED
    BY <1>1, <2>3, ShapedParts, TypeParts DEF NewChat, storeVars, historyVars, NoFault, boundVars, Shaped, Redis, IsStore, IsIndex, Counts, History
<1>2. CASE Sync(c)
  <2>1. conn[c].sess \in Sess /\ redis[conn[c].sess] \in Copy
    BY <1>2, ShapedParts DEF Sync
  <2>2. IsStore(memory')
    BY <1>2, <2>1, ShapedParts, UpsertEffect DEF Sync
  <2>3. conn' \in [Conn -> Connection] /\ ConnShape'
    BY <1>2 DEF Sync, Shaped, TypeOK, ConnShape
  <2>4. QED
    BY <1>2, <2>2, <2>3, ShapedParts, TypeParts DEF Sync, historyVars, NoFault, boundVars, Shaped, Redis, IsStore, IsIndex, Counts, History
<1>3. CASE Disconnect(c)
  <2>1. Good(conn[c]) /\ conn[c].loop = "ready" /\ conn[c] \in Connection
    BY <1>3, ShapedParts DEF Disconnect
  <2>2. PICK r : Good(r) /\ conn' = [conn EXCEPT ![c] = r]
    <3>1. CASE Busy(c)
      BY <1>3, <3>1, <2>1, CloseGood DEF Disconnect, Busy
    <3>2. CASE ~Busy(c)
      BY <1>3, <3>2, NoConnGood DEF Disconnect
    <3>3. QED
      BY <3>1, <3>2
  <2>3. conn' \in [Conn -> Connection] /\ ConnShape'
    BY <2>2, ConnStep DEF Shaped
  <2>4. QED
    BY <1>3, <2>3, ShapedParts, TypeParts DEF Disconnect, storeVars, historyVars, NoFault, boundVars, Shaped, Redis, IsStore, IsIndex, Counts, History
<1>4. QED
  BY <1>1, <1>2, <1>3

LEMMA ListShape ==
    ASSUME Shaped, Activate \/ ListSessions
    PROVE  Shaped'
<1>1. IsIndex(index') /\ active' \subseteq Sess
  BY ShapedParts, DelistIndex DEF Activate, ListSessions
<1>2. Counts'
  BY ShapedParts DEF Activate, ListSessions, NoFault, Fault, boundVars, Counts
<1>3. conn' \in [Conn -> Connection] /\ ConnShape'
  BY DEF Activate, ListSessions, Shaped, TypeOK, ConnShape
<1>4. Redis(redis') /\ IsStore(memory') /\ History'
  BY ShapedParts DEF Activate, ListSessions, historyVars, History
<1>5. QED
  BY <1>1, <1>2, <1>3, <1>4, TypeParts DEF Shaped, Redis, IsStore, IsIndex

\* A message is accepted on a session: who knows of it then.
LEMMA AcceptedHistory ==
    ASSUME Shaped, NEW c \in Conn, NEW i \in Id
    PROVE  /\ Accepted(c, i) => asked' \in [Sess -> SUBSET Id]
           /\ Cross(c, i) => crossed' \subseteq Id
<1>1. \A d \in Others(c) : conn[d].msg \subseteq Id
  BY ShapedParts DEF Others
<1>2. UNION {conn[d].msg : d \in Others(c)} \subseteq Id
  BY <1>1
<1>3. asked \in [Sess -> SUBSET Id] /\ crossed \subseteq Id /\ conn[c].sess \in Sess
  BY ShapedParts DEF History
<1>4. QED
  BY <1>2, <1>3 DEF Accepted, Cross

LEMMA AskStore ==
    ASSUME NEW st, Redis(st), NEW s \in DOMAIN st, NEW i \in Id
    PROVE  Redis(Ask(st, s, i))
<1> DEFINE new == Ask(st, s, i)
<1>1. /\ IsStore(new) /\ DOMAIN new = DOMAIN st /\ \A t \in DOMAIN st \ {s} : new[t] = st[t]
      /\ Len(new[s].log) =< MaxMessages
  BY AskEffect DEF Redis
<1> HIDE DEF new
<1>2. Redis(new)
  BY <1>1, RedisStep
<1>3. QED
  BY <1>2 DEF new

LEMMA AnswerStore ==
    ASSUME NEW st, IsStore(st), NEW s \in DOMAIN st, NEW i \in Id, NEW given \in SUBSET Id
    PROVE  IsStore(Answer(st, s, i, given)) /\ (Redis(st) => Redis(Answer(st, s, i, given)))
<1> DEFINE new == Answer(st, s, i, given)
<1>1. /\ IsStore(new) /\ DOMAIN new = DOMAIN st /\ \A t \in DOMAIN st \ {s} : new[t] = st[t]
      /\ Len(new[s].log) =< MaxMessages
  BY AnswerEffect
<1> HIDE DEF new
<1>2. Redis(st) => Redis(new)
  BY <1>1, RedisStep
<1>3. QED
  BY <1>1, <1>2 DEF new

LEMMA SendShape ==
    ASSUME Shaped, NEW c \in Conn, NEW i \in Id, Send(c, i) \/ SendRepeated(c, i)
    PROVE  Shaped'
<1> DEFINE s == conn[c].sess
<1>0. Good(conn[c]) /\ conn[c].loop = "ready" /\ conn[c].turn = "none"
  BY ShapedParts DEF Send, SendRepeated, MaySend, Busy
<1>1. PICK r : Good(r) /\ conn' = [conn EXCEPT ![c] = r]
  <2>1. CASE conn' = [conn EXCEPT ![c].loop = "load", ![c].msg = {i}, ![c].fresh = TRUE]
    <3>1. conn' = [conn EXCEPT ![c] = [conn[c] EXCEPT !.loop = "load", !.msg = {i}, !.fresh = TRUE]]
      BY <2>1
    <3>2. QED
      BY <1>0, <3>1, AcceptGood
  <2>2. CASE conn' = [conn EXCEPT ![c].loop = "load", ![c].msg = {i}]
    <3>1. conn' = [conn EXCEPT ![c] = [conn[c] EXCEPT !.loop = "load", !.msg = {i}]]
      BY <2>2
    <3>2. QED
      BY <1>0, <3>1, AcceptGood
  <2>3. CASE conn' = conn
    <3>1. conn' = [conn EXCEPT ![c] = conn[c]]
      BY <2>3 DEF Shaped, TypeOK
    <3>2. QED
      BY <1>0, <3>1
  <2>4. QED
    BY <2>1, <2>2, <2>3 DEF Send, SendRepeated
<1>2. conn' \in [Conn -> Connection] /\ ConnShape'
  BY <1>1, ConnStep DEF Shaped
<1>3. Redis(redis')
  <2>1. CASE redis' = redis
    BY <2>1, ShapedParts
  <2>2. CASE redis' = Ask(redis, s, i) /\ s \in Stored
    BY <2>2, ShapedParts, AskStore DEF Stored
  <2>3. QED
    BY <2>1, <2>2 DEF Send, SendRepeated
<1>4. Counts'
  BY ShapedParts DEF Send, SendRepeated, MaySend, Counts
<1>5. History'
  <2>1. (asked' = asked \/ Accepted(c, i)) /\ (crossed' = crossed \/ Cross(c, i))
    BY DEF Send, SendRepeated
  <2>2. asked' \in [Sess -> SUBSET Id] /\ crossed' \subseteq Id
    BY <2>1, AcceptedHistory, ShapedParts DEF History
  <2>3. QED
    BY <2>2, ShapedParts DEF History, Send, SendRepeated
<1>6. IsStore(memory') /\ IsIndex(index') /\ active' \subseteq Sess
  BY ShapedParts DEF Send, SendRepeated
<1>7. QED
  BY <1>2, <1>3, <1>4, <1>5, <1>6, TypeParts DEF Shaped, Redis, IsStore, IsIndex

LEMMA SendFallbackShape ==
    ASSUME Shaped, NEW c \in Conn, NEW i \in Id, SendFallback(c, i)
    PROVE  Shaped'
<1> DEFINE s == conn[c].sess
<1>0. Good(conn[c]) /\ conn[c].loop = "ready" /\ conn[c].turn = "none" /\ conn[c] \in Connection /\ conn[c].ctx = {}
  BY ShapedParts DEF SendFallback, MaySend, Busy, Good, Fits
<1>1. PICK r : Good(r) /\ conn' = [conn EXCEPT ![c] = r]
  <2>1. CASE conn' = [conn EXCEPT ![c] = Begin(@, i, memory'[s].log)]
    <3>1. conn' = [conn EXCEPT ![c] = Begin(conn[c], i, memory'[s].log)]
      BY <2>1
    <3>2. Good(Begin(conn[c], i, memory'[s].log))
      BY <1>0, BeginGood
    <3>3. QED
      BY <3>1, <3>2
  <2>3. CASE conn' = conn
    <3>1. conn' = [conn EXCEPT ![c] = conn[c]]
      BY <2>3 DEF Shaped, TypeOK
    <3>2. QED
      BY <1>0, <3>1
  <2>4. QED
    BY <2>1, <2>3 DEF SendFallback
<1>2. conn' \in [Conn -> Connection] /\ ConnShape'
  BY <1>1, ConnStep DEF Shaped
<1>3. Redis(redis')
  <2>1. CASE redis' = redis
    BY <2>1, ShapedParts
  <2>2. CASE redis' = Ask(redis, s, i) /\ s \in Stored
    BY <2>2, ShapedParts, AskStore DEF Stored
  <2>3. QED
    BY <2>1, <2>2 DEF SendFallback
<1>4. Counts'
  BY ShapedParts DEF SendFallback, MaySend, Counts
<1>5. History'
  <2>1. (asked' = asked \/ Accepted(c, i)) /\ (crossed' = crossed \/ Cross(c, i)) /\ (dropped' = dropped \/ dropped' = dropped \cup {i})
    BY DEF SendFallback
  <2>2. asked' \in [Sess -> SUBSET Id] /\ crossed' \subseteq Id
    BY <2>1, AcceptedHistory, ShapedParts DEF History
  <2>3. QED
    BY <2>1, <2>2, ShapedParts DEF History, SendFallback
<1>6. IsStore(memory')
  <2>1. (s \in DOMAIN memory /\ memory' = Ask(memory, s, i)) \/ memory' = memory
    BY DEF SendFallback
  <2>2. s \in DOMAIN memory => IsStore(Ask(memory, s, i))
    BY ShapedParts, AskEffect
  <2>3. QED
    BY <2>1, <2>2, ShapedParts
<1>7. IsIndex(index') /\ active' \subseteq Sess
  BY ShapedParts DEF SendFallback
<1>8. QED
  BY <1>2, <1>3, <1>4, <1>5, <1>6, <1>7, TypeParts DEF Shaped, Redis, IsStore, IsIndex

LEMMA LoadShape ==
    ASSUME Shaped, NEW c \in Conn, Load(c)
    PROVE  Shaped'
<1> DEFINE s == conn[c].sess
<1>0. Good(conn[c]) /\ conn[c].turn = "none" /\ conn[c] \in Connection /\ conn[c].ctx = {} /\ conn[c].msg \subseteq Id
  BY ShapedParts DEF Load, Good, Fits
<1>1. PICK i \in conn[c].msg :
         /\ \/ conn' = [conn EXCEPT ![c] = IF @.fresh THEN Begin(@, i, redis[s].log) ELSE Ready(@)]
            \/ conn' = [conn EXCEPT ![c] = Ready(@)]
         /\ \/ s \in Stored /\ memory' = Upsert(memory, s, redis[s])
            \/ memory' = memory
         /\ index' = index \/ index' = Touch(s)
         /\ degraded' = degraded \/ degraded' = degraded \cup {i}
         /\ dropped' = dropped \/ dropped' = dropped \cup {i}
         /\ NoFault \/ Fault
  BY DEF Load
<1>2. PICK r : Good(r) /\ conn' = [conn EXCEPT ![c] = r]
  <2>1. Good(Ready(conn[c])) /\ Good(Begin(conn[c], i, redis[s].log))
    BY <1>0, BeginGood, ReadyGood
  <2>2. QED
    BY <1>1, <2>1
<1>3. conn' \in [Conn -> Connection] /\ ConnShape'
  BY <1>2, ConnStep DEF Shaped
<1>4. Counts'
  BY <1>1, ShapedParts DEF NoFault, Fault, boundVars, Counts
<1>5. History'
  BY <1>0, <1>1, ShapedParts DEF History, Load
<1>6. IsStore(memory')
  <2>1. s \in Stored => IsStore(Upsert(memory, s, redis[s]))
    BY ShapedParts, UpsertEffect
  <2>2. QED
    BY <1>1, <2>1, ShapedParts
<1>7. IsIndex(index')
  BY <1>1, ShapedParts, TouchIndex
<1>8. Redis(redis') /\ active' \subseteq Sess
  BY ShapedParts DEF Load
<1>9. QED
  BY <1>3, <1>4, <1>5, <1>6, <1>7, <1>8, TypeParts DEF Shaped, Redis, IsStore, IsIndex

LEMMA TurnShape ==
    ASSUME Shaped, NEW c \in Conn, LoadContext(c) \/ Run(c)
    PROVE  Shaped'
<1> DEFINE s == conn[c].sess
<1>0. Good(conn[c]) /\ conn[c].turn # "none" /\ conn[c].msg \subseteq Id
  BY ShapedParts DEF LoadContext, Run
<1>1. PICK r : Good(r) /\ conn' = [conn EXCEPT ![c] = r]
  <2>1. ASSUME NEW x \in SUBSET Id, conn' = [conn EXCEPT ![c].turn = "run", ![c].ctx = x]
        PROVE  \E r : Good(r) /\ conn' = [conn EXCEPT ![c] = r]
    <3>1. conn' = [conn EXCEPT ![c] = [conn[c] EXCEPT !.turn = "run", !.ctx = x]]
      BY <2>1
    <3>2. "run" \in TurnPhase \ {"none"}
      BY DEF TurnPhase
    <3>3. QED
      BY <1>0, <3>1, <3>2, TurnGood
  <2>2. CASE LoadContext(c)
    <3> DEFINE x == IF s \in Stored THEN redis[s].ctx ELSE {}
               y == IF s \in DOMAIN memory THEN memory[s].ctx ELSE {}
    <3>1. x \in SUBSET Id /\ y \in SUBSET Id
      BY ShapedParts DEF Copy
    <3>2. \/ conn' = [conn EXCEPT ![c].turn = "run", ![c].ctx = x]
          \/ conn' = [conn EXCEPT ![c].turn = "run", ![c].ctx = y]
      BY <2>2 DEF LoadContext
    <3> HIDE DEF x, y
    <3>3. QED
      BY <2>1, <3>1, <3>2
  <2>3. CASE conn' = [conn EXCEPT ![c].turn = "commit"]
    <3>2. "commit" \in TurnPhase \ {"none"}
      BY DEF TurnPhase
    <3>3. QED
      BY <1>0, <2>3, <3>2, TurnGood
  <2>4. CASE conn' = [conn EXCEPT ![c] = EndTurn(@)]
    BY <2>4, <1>0, EndTurnGood
  <2>5. QED
    BY <2>2, <2>3, <2>4 DEF Run, TurnFails
<1>2. conn' \in [Conn -> Connection] /\ ConnShape'
  BY <1>1, ConnStep DEF Shaped
<1>3. Counts'
  BY ShapedParts DEF LoadContext, Run, NoFault, Fault, boundVars, Counts
<1>4. History'
  BY <1>0, ShapedParts DEF History, LoadContext, Run, TurnFails
<1>5. Redis(redis') /\ IsStore(memory') /\ IsIndex(index') /\ active' \subseteq Sess
  BY ShapedParts DEF LoadContext, Run, storeVars
<1>6. QED
  BY <1>2, <1>3, <1>4, <1>5, TypeParts DEF Shaped, Redis, IsStore, IsIndex

LEMMA CommitShape ==
    ASSUME Shaped, NEW c \in Conn, Commit(c) \/ CommitFallback(c)
    PROVE  Shaped'
<1> DEFINE s == conn[c].sess
<1>0. Good(conn[c]) /\ conn[c].turn = "commit" /\ conn[c].msg \subseteq Id /\ conn[c].ctx \subseteq Id
  BY ShapedParts DEF Commit, CommitFallback
<1>1. conn' = [conn EXCEPT ![c].turn = "stored"] \/ conn' = [conn EXCEPT ![c] = EndTurn(@)]
  BY DEF Commit, CommitFallback, TurnFails
<1>2. PICK r : Good(r) /\ conn' = [conn EXCEPT ![c] = r]
  <2>1. CASE conn' = [conn EXCEPT ![c].turn = "stored"]
    <3>2. "stored" \in TurnPhase \ {"none"}
      BY DEF TurnPhase
    <3>3. QED
      BY <1>0, <2>1, <3>2, TurnGood
  <2>2. CASE conn' = [conn EXCEPT ![c] = EndTurn(@)]
    BY <2>2, <1>0, EndTurnGood
  <2>3. QED
    BY <1>1, <2>1, <2>2
<1>3. conn' \in [Conn -> Connection] /\ ConnShape'
  BY <1>2, ConnStep DEF Shaped
<1>4. PICK i \in Id :
         /\ \/ redis' = redis
            \/ s \in Stored /\ redis' = Answer(redis, s, i, conn[c].ctx \cup {i})
            \/ s \in Stored /\ redis' = Answer(Answer(redis, s, i, {}), s, i, conn[c].ctx \cup {i})
         /\ \/ memory' = memory
            \/ s \in DOMAIN memory /\ memory' = Answer(memory, s, i, conn[c].ctx \cup {i})
         /\ answered' = answered \/ answered' = answered \cup {i}
         /\ degraded' = degraded \/ degraded' = degraded \cup {i}
         /\ dropped' = dropped \/ dropped' = dropped \cup conn[c].msg \/ dropped' = dropped \cup {i}
  <2>1. CASE Commit(c)
    <3>1. PICK i \in conn[c].msg :
         \/ /\ s \in Stored
            /\ \/ NoFault /\ redis' = Answer(redis, s, i, conn[c].ctx \cup {i}) /\ UNCHANGED degraded
               \/ /\ Fault /\ degraded' = degraded \cup {i}
                  /\ redis' = Answer(Answer(redis, s, i, {}), s, i, conn[c].ctx \cup {i})
            /\ conn' = [conn EXCEPT ![c].turn = "stored"]
            /\ answered' = answered \cup {i} /\ UNCHANGED dropped
         \/ s \notin Stored /\ NoFault /\ TurnFails(c) /\ UNCHANGED <<redis, answered, degraded>>
      BY <2>1 DEF Commit
    <3>2. i \in Id /\ memory' = memory
      BY <1>0, <2>1 DEF Commit
    <3>3. QED
      BY <3>1, <3>2 DEF TurnFails
  <2>2. CASE CommitFallback(c)
    <3>1. PICK i \in conn[c].msg :
         /\ \/ UNCHANGED <<redis, answered>> /\ dropped' = dropped \cup {i}
            \/ /\ s \in Stored /\ redis' = Answer(redis, s, i, conn[c].ctx \cup {i})
               /\ answered' = answered \cup {i} /\ UNCHANGED dropped
         /\ memory' = IF s \in DOMAIN memory THEN Answer(memory, s, i, conn[c].ctx \cup {i}) ELSE memory
         /\ degraded' = degraded \cup {i}
      BY <2>2 DEF CommitFallback
    <3>2. i \in Id
      BY <1>0
    <3>3. QED
      BY <3>1, <3>2
  <2>3. QED
    BY <2>1, <2>2
<1>5. conn[c].ctx \cup {i} \subseteq Id
  BY <1>0
<1>6. Redis(redis')
  <2>1. CASE redis' = redis
    BY <2>1, ShapedParts
  <2>2. CASE s \in Stored /\ redis' = Answer(redis, s, i, conn[c].ctx \cup {i})
    BY <2>2, <1>5, ShapedParts, AnswerStore DEF Stored
  <2>3. CASE s \in Stored /\ redis' = Answer(Answer(redis, s, i, {}), s, i, conn[c].ctx \cup {i})
    <3> DEFINE mid == Answer(redis, s, i, {})
    <3>1. Redis(mid) /\ IsStore(mid) /\ DOMAIN mid = DOMAIN redis
      BY <2>3, ShapedParts, AnswerStore, AnswerEffect DEF Stored
    <3> HIDE DEF mid
    <3>2. Redis(Answer(mid, s, i, conn[c].ctx \cup {i}))
      BY <3>1, <2>3, <1>5, AnswerStore DEF Stored
    <3>3. QED
      BY <3>2, <2>3 DEF mid
  <2>4. QED
    BY <1>4, <2>1, <2>2, <2>3
<1>7. IsStore(memory')
  <2>1. s \in DOMAIN memory => IsStore(Answer(memory, s, i, conn[c].ctx \cup {i}))
    BY <1>5, ShapedParts, AnswerStore
  <2>2. QED
    BY <1>4, <2>1, ShapedParts
<1>8. Counts'
  <2>1. NoFault \/ Fault
    BY DEF Commit, CommitFallback
  <2>2. QED
    BY <2>1, ShapedParts DEF NoFault, Fault, boundVars, Counts
<1>9. History'
  <2>1. asked' = asked /\ crossed' = crossed
    BY DEF Commit, CommitFallback
  <2>2. QED
    BY <2>1, <1>0, <1>4, ShapedParts DEF History
<1>10. IsIndex(index') /\ active' \subseteq Sess
  BY ShapedParts DEF Commit, CommitFallback
<1>11. QED
  BY <1>3, <1>6, <1>7, <1>8, <1>9, <1>10, TypeParts DEF Shaped, Redis, IsStore, IsIndex

\* What Finish leaves in memory.
Finished(st, s, loaded, x) == [Upsert(st, s, loaded) EXCEPT ![s].ctx = x]

LEMMA FinishMemory ==
    ASSUME NEW st, IsStore(st), NEW s \in Sess, NEW loaded \in Copy, NEW x \in SUBSET Id
    PROVE  LET new == Finished(st, s, loaded, x) IN
           /\ IsStore(new) /\ Alters(new, st, s) /\ new[s].ctx = x
<1> DEFINE up  == Upsert(st, s, loaded)
           new == [up EXCEPT ![s].ctx = x]
<1>1. Alters(up, st, s)
  BY UpsertEffect
<1> HIDE DEF up
<1>2. IsStore(up) /\ DOMAIN up = DOMAIN st \cup {s} /\ \A t \in DOMAIN st \ {s} : up[t] = st[t]
  BY <1>1 DEF Alters
<1>3. up[s] \in Copy
  BY <1>2 DEF IsStore
<1>4. /\ DOMAIN new = DOMAIN st \cup {s} /\ \A t \in DOMAIN st \ {s} : new[t] = st[t]
      /\ new[s] = [log |-> up[s].log, ids |-> up[s].ids, ctx |-> x]
  BY <1>2, <1>3 DEF Copy
<1>5. new[s] \in Copy /\ new[s].ctx = x
  BY <1>3, <1>4 DEF Copy
<1> HIDE DEF new
<1>6. IsStore(new)
  BY <1>2, <1>4, <1>5 DEF IsStore
<1>7. QED
  BY <1>4, <1>5, <1>6 DEF new, up, Finished, Alters

LEMMA FinishShape ==
    ASSUME Shaped, NEW c \in Conn, Finish(c)
    PROVE  Shaped'
<1>0. Good(conn[c]) /\ conn[c].turn # "none" /\ conn[c].sess \in Sess
  BY ShapedParts DEF Finish
<1>1. PICK r : Good(r) /\ conn' = [conn EXCEPT ![c] = r]
  BY <1>0, EndTurnGood DEF Finish
<1>2. conn' \in [Conn -> Connection] /\ ConnShape'
  BY <1>1, ConnStep DEF Shaped
<1>3. IsStore(memory')
  <2>1. conn[c].ctx \cup conn[c].msg \in SUBSET Id
    BY ShapedParts
  <2>2. ASSUME NEW s \in Stored, NEW x \in SUBSET Id
        PROVE  IsStore(Finished(memory, s, redis[s], x))
    <3>1. IsStore(memory) /\ s \in Sess /\ redis[s] \in Copy
      BY ShapedParts
    <3>2. QED
      BY <3>1, FinishMemory
  <2>3. QED
    BY <2>1, <2>2, ShapedParts DEF Finish, Finished
<1>4. IsIndex(index')
  BY <1>0, ShapedParts, TouchIndex DEF Finish
<1>5. Counts' /\ History'
  BY ShapedParts DEF Finish, NoFault, Fault, boundVars, Counts, History, historyVars
<1>6. Redis(redis') /\ active' \subseteq Sess
  BY ShapedParts DEF Finish
<1>7. QED
  BY <1>2, <1>3, <1>4, <1>5, <1>6, TypeParts DEF Shaped, Redis, IsStore, IsIndex

\* The session whose ids or whose context lapsed.
LEMMA LapseEffect ==
    ASSUME Shaped, NEW s \in Stored, NEW new,
           new = [redis EXCEPT ![s].ids = {}] \/ new = [redis EXCEPT ![s].ctx = {}]
    PROVE  /\ Redis(new) /\ DOMAIN new = Stored /\ \A t \in Stored \ {s} : new[t] = redis[t]
           /\ new[s].log = redis[s].log /\ new[s].ids \subseteq redis[s].ids /\ new[s].ctx \subseteq redis[s].ctx
<1>1. redis[s] \in Copy /\ Redis(redis) /\ Len(redis[s].log) =< MaxMessages
  BY ShapedParts DEF Redis, Stored
<1>2. DOMAIN new = Stored /\ \A t \in Stored \ {s} : new[t] = redis[t]
  BY DEF Stored
<1>3. \/ new[s] = [log |-> redis[s].log, ids |-> {}, ctx |-> redis[s].ctx]
      \/ new[s] = [log |-> redis[s].log, ids |-> redis[s].ids, ctx |-> {}]
  BY <1>1 DEF Copy, Stored
<1>4. new[s] \in Copy /\ new[s].log = redis[s].log /\ new[s].ids \subseteq redis[s].ids /\ new[s].ctx \subseteq redis[s].ctx
  BY <1>1, <1>3 DEF Copy
<1>5. Redis(new)
  BY <1>1, <1>2, <1>4, ShapedParts DEF Redis, IsStore, Stored
<1>6. QED
  BY <1>2, <1>4, <1>5

LEMMA EnvironmentShape ==
    ASSUME Shaped, NEW s \in Sess, Restart \/ Lapse(s) \/ LapsePart(s)
    PROVE  Shaped'
<1>1. CASE Restart
  <2>1. conn' \in [Conn -> Connection] /\ ConnShape'
    BY <1>1, NoConnGood DEF Restart, Good, ConnShape
  <2>2. IsStore(memory')
    BY <1>1 DEF Restart, NoSession, IsStore
  <2>3. UNION {conn[c].msg : c \in {d \in Conn : conn[d].turn # "none" \/ conn[d].fresh}} \subseteq Id
    BY ShapedParts
  <2>4. Counts' /\ History'
    BY <1>1, <2>3, ShapedParts DEF Restart, Fault, Counts, History
  <2>5. Redis(redis') /\ IsIndex(index') /\ active' \subseteq Sess
    BY <1>1, ShapedParts DEF Restart
  <2>6. QED
    BY <2>1, <2>2, <2>4, <2>5, TypeParts DEF Shaped, Redis, IsStore, IsIndex
<1>2. CASE Lapse(s)
  <2>1. conn' \in [Conn -> Connection] /\ ConnShape'
    BY <1>2 DEF Lapse, Shaped, TypeOK, ConnShape
  <2>2. IsStore(memory')
    BY <1>2, ShapedParts, DropStore DEF Lapse
  <2>3. Redis(redis')
    <3>1. /\ IsStore(redis') /\ DOMAIN redis' = DOMAIN redis \ {s}
          /\ \A t \in DOMAIN redis' : redis'[t] = redis[t]
      BY <1>2, ShapedParts, DropStore DEF Lapse
    <3>2. QED
      BY <3>1, ShapedParts DEF Redis
  <2>4. Counts' /\ History'
    BY <1>2, ShapedParts DEF Lapse, Fault, Counts, History, historyVars
  <2>5. IsIndex(index') /\ active' \subseteq Sess
    BY <1>2, ShapedParts DEF Lapse
  <2>6. QED
    BY <2>1, <2>2, <2>3, <2>4, <2>5, TypeParts DEF Shaped, Redis, IsStore, IsIndex
<1>3. CASE LapsePart(s)
  <2>1. conn' \in [Conn -> Connection] /\ ConnShape'
    BY <1>3 DEF LapsePart, Shaped, TypeOK, ConnShape
  <2>2. s \in Stored /\ (redis' = [redis EXCEPT ![s].ids = {}] \/ redis' = [redis EXCEPT ![s].ctx = {}])
    BY <1>3 DEF LapsePart
  <2>3. Redis(redis')
    BY <2>2, LapseEffect
  <2>4. redis[s].ids \subseteq Id
    BY <2>2, ShapedParts DEF Copy
  <2>5. Counts' /\ History'
    BY <1>3, <2>4, ShapedParts DEF LapsePart, Fault, Counts, History
  <2>6. IsStore(memory') /\ IsIndex(index') /\ active' \subseteq Sess
    BY <1>3, ShapedParts DEF LapsePart
  <2>7. QED
    BY <2>1, <2>3, <2>5, <2>6, TypeParts DEF Shaped, Redis, IsStore, IsIndex
<1>4. QED
  BY <1>1, <1>2, <1>3

LEMMA ShapedStep ==
    ASSUME Shaped, [Next]_vars
    PROVE  Shaped'
<1>1. CASE UNCHANGED vars
  BY <1>1 DEF vars, Shaped, TypeOK, ConnShape, Listed, IsStore
<1>2. ASSUME NEW c \in Conn, Session(c) PROVE Shaped'
  BY <1>2, ConnectShape, CreateShape, SwitchShape, SessionShape DEF Session
<1>3. ASSUME NEW c \in Conn, Message(c) PROVE Shaped'
  BY <1>3, SendShape, SendFallbackShape DEF Message
<1>4. ASSUME NEW c \in Conn, Turn(c) PROVE Shaped'
  BY <1>4, TurnShape, CommitShape, FinishShape DEF Turn
<1>5. CASE Restart
  BY <1>5, EnvironmentShape
<1>6. QED
  BY <1>1, <1>2, <1>3, <1>4, <1>5, LoadShape, ListShape, EnvironmentShape DEF Next

-----------------------------------------------------------------------------
(* Steps that write to no log                                                *)

\* What the step keeps or lets grow.
Grown ==
    /\ \A s \in Sess : asked[s] \subseteq asked'[s]
    /\ answered \subseteq answered' /\ degraded \subseteq degraded'
    /\ dropped \subseteq dropped' /\ crossed \subseteq crossed'
    /\ \A s \in DOMAIN memory' : memory'[s].ctx \subseteq asked'[s]

\* The connection goes on with the message it has, or is done with it.
Continues(c) ==
    IF Handling(c)'
    THEN /\ Handling(c) /\ conn'[c].sess = conn[c].sess /\ conn'[c].msg = conn[c].msg
         /\ conn'[c].fresh => conn[c].fresh
         /\ conn'[c].turn = "stored" <=> conn[c].turn = "stored"
         /\ conn'[c].ctx \subseteq asked'[conn[c].sess]
         /\ conn'[c].turn # "none" => conn'[c].msg \cap conn'[c].past \subseteq crossed' \cup degraded'
         /\ degraded' = {} /\ conn'[c].turn \in {"run", "commit"} /\ conn[c].sess \in Stored
               => Replied(redis[conn[c].sess]) \subseteq conn'[c].ctx \cup crossed'
    ELSE Handling(c) => conn[c].msg \subseteq answered' \cup dropped'

\* Each session in Redis stays as it is, goes, or is new.
Kept ==
    \A s \in Stored' : \/ s \in Stored /\ redis'[s] = redis[s]
                       \/ redis'[s] = Blank /\ \A c \in Conn : Handling(c)' => conn'[c].sess # s

LEMMA CalmKeeps ==
    ASSUME Inv, Shaped', Grown, Kept, \A c \in Conn : Continues(c)
    PROVE  Inv'
<1>1. /\ Shaped /\ ReplyWhereAsked /\ TurnsBelong /\ TurnsCross /\ ShownIsSeen /\ OneTurnEach /\ ShownOnce
      /\ AskedLast /\ AskedOnce /\ SeenIsHandled /\ TurnAbreast /\ ContextKeepsUp
  BY DEF Inv, Shaped
<1>2. /\ \A c \in Conn : conn[c].sess \in Sess
      /\ Stored \subseteq Sess /\ Stored' \subseteq Sess
  BY <1>1, ShapedParts DEF Shaped, TypeOK, IsStore, Stored
<1>3. \A s \in Stored' : redis'[s] # Blank => s \in Stored /\ redis'[s] = redis[s]
  BY DEF Kept
<1>4. \A c \in Conn : Handling(c)' /\ conn'[c].sess \in Stored' =>
         conn'[c].sess \in Stored /\ redis'[conn'[c].sess] = redis[conn'[c].sess]
  BY DEF Kept
<1>5. Blank.log = <<>> /\ Blank.ids = {} /\ Blank.ctx = {} /\ \A e : Once(Blank.log, e)
  BY DEF Blank, Once
<1>6. ReplyWhereAsked'
  BY <1>1, <1>2, <1>3, <1>5, BlankCopy DEF ReplyWhereAsked, Grown
<1>7. TurnsBelong'
  BY <1>1, <1>2 DEF TurnsBelong, Grown, Continues
<1>8. TurnsCross'
  BY <1>1 DEF TurnsCross, Grown, Continues
<1>9. ShownIsSeen'
  BY <1>1, <1>3, BlankCopy DEF ShownIsSeen, Grown
<1>10. OneTurnEach'
  <2>1. SUFFICES ASSUME NEW c \in Conn, Handling(c)', conn'[c].sess \in Stored', NEW i \in conn'[c].msg \ degraded'
                 PROVE  /\ i \in redis'[conn'[c].sess].ids
                        /\ conn'[c].turn # "stored" => i \notin Replied(redis'[conn'[c].sess])
                        /\ \A d \in Conn \ {c} : Handling(d)' /\ conn'[d].sess = conn'[c].sess => i \notin conn'[d].msg
    BY DEF OneTurnEach
  <2>2. /\ Handling(c) /\ conn'[c].sess = conn[c].sess /\ conn'[c].msg = conn[c].msg
        /\ conn'[c].turn = "stored" <=> conn[c].turn = "stored"
    BY <2>1 DEF Continues
  <2>3. conn[c].sess \in Stored /\ redis'[conn[c].sess] = redis[conn[c].sess] /\ i \in conn[c].msg \ degraded
    BY <1>4, <2>1, <2>2 DEF Grown
  <2>4. /\ i \in redis[conn[c].sess].ids
        /\ conn[c].turn # "stored" => i \notin Replied(redis[conn[c].sess])
        /\ \A d \in Conn \ {c} : Handling(d) /\ conn[d].sess = conn[c].sess => i \notin conn[d].msg
    BY <1>1, <2>2, <2>3 DEF OneTurnEach
  <2>5. ASSUME NEW d \in Conn \ {c}, Handling(d)', conn'[d].sess = conn'[c].sess
        PROVE  i \notin conn'[d].msg
    <3>1. Handling(d) /\ conn'[d].sess = conn[d].sess /\ conn'[d].msg = conn[d].msg
      BY <2>5 DEF Continues
    <3>2. QED
      BY <2>2, <2>4, <2>5, <3>1
  <2>6. /\ i \in redis'[conn'[c].sess].ids
        /\ conn'[c].turn # "stored" => i \notin Replied(redis'[conn'[c].sess])
    <3>1. redis'[conn'[c].sess] = redis[conn[c].sess]
      BY <2>2, <2>3
    <3>2. conn'[c].turn # "stored" => i \notin Replied(redis[conn[c].sess])
      BY <2>1, <2>4 DEF Continues, Handling
    <3>3. QED
      BY <2>4, <3>1, <3>2
  <2>7. QED
    BY <2>5, <2>6
<1>11. ShownOnce'
  BY <1>1, <1>3, <1>5 DEF ShownOnce, Grown
<1>12. AskedLast'
  BY <1>1, <1>4 DEF AskedLast, Grown, Continues, Handling
<1>13. AskedOnce'
  BY DEF AskedOnce, Continues, Handling
<1>14. SeenIsHandled'
  <2>1. ASSUME NEW s \in Stored', NEW i \in redis'[s].ids \ (answered' \cup dropped')
        PROVE  \E c \in Conn : Handling(c)' /\ conn'[c].sess = s /\ i \in conn'[c].msg
    <3>1. s \in Stored /\ redis'[s] = redis[s]
      BY <1>3, <1>5, <2>1
    <3>2. i \in redis[s].ids \ (answered \cup dropped)
      BY <2>1, <3>1 DEF Grown
    <3>3. PICK c \in Conn : Handling(c) /\ conn[c].sess = s /\ i \in conn[c].msg
      BY <1>1, <3>1, <3>2 DEF SeenIsHandled
    <3>4. QED
      BY <2>1, <3>3 DEF Continues
  <2>2. \A c \in Conn : conn'[c].turn = "stored" => conn'[c].msg \subseteq answered'
    BY <1>1 DEF SeenIsHandled, Continues, Handling, Grown
  <2>3. QED
    BY <2>1, <2>2 DEF SeenIsHandled
<1>15. TurnAbreast'
  BY <1>4 DEF TurnAbreast, Continues, Handling
<1>16. ContextKeepsUp'
  BY <1>1, <1>3, BlankCopy DEF ContextKeepsUp, Grown
<1>17. QED
  BY <1>6, <1>7, <1>8, <1>9, <1>10, <1>11, <1>12, <1>13, <1>14, <1>15, <1>16 DEF Inv, Shaped

\* A connection that the step leaves alone, or moves on without new data, continues.
LEMMA SameContinues ==
    ASSUME Inv, NEW c \in Conn, Grown,
           conn'[c].sess = conn[c].sess, conn'[c].msg = conn[c].msg, conn'[c].past = conn[c].past, conn'[c].ctx = conn[c].ctx,
           conn'[c].fresh = conn[c].fresh,
           conn'[c].turn = conn[c].turn \/ (conn[c].turn = "run" /\ conn'[c].turn = "commit")
    PROVE  Continues(c)
<1>1. conn[c].sess \in Sess
  BY ShapedParts DEF Inv, Shaped
<1>2. Handling(c)' <=> Handling(c)
  BY DEF Handling
<1>3. TurnsBelong /\ AskedOnce /\ TurnAbreast
  BY DEF Inv
<1>4. Handling(c) => conn'[c].ctx \subseteq asked'[conn[c].sess]
  BY <1>1, <1>3 DEF TurnsBelong, Grown
<1>5. conn'[c].turn # "none" => conn'[c].msg \cap conn'[c].past \subseteq crossed' \cup degraded'
  BY <1>3 DEF AskedOnce, Grown
<1>6. degraded' = {} /\ conn'[c].turn \in {"run", "commit"} /\ conn[c].sess \in Stored
         => Replied(redis[conn[c].sess]) \subseteq conn'[c].ctx \cup crossed'
  BY <1>3 DEF TurnAbreast, Grown
<1>7. QED
  BY <1>2, <1>4, <1>5, <1>6 DEF Continues

\* A connection without a message under way continues without one.
LEMMA IdleContinues ==
    ASSUME NEW c \in Conn, ~Handling(c)', Handling(c) => conn[c].msg \subseteq answered' \cup dropped'
    PROVE  Continues(c)
BY DEF Continues

-----------------------------------------------------------------------------
(* Steps that accept a message                                               *)

\* Connection c has taken i, or tried to: i is on show now, or not.
Takes(c, i) ==
    LET s == conn[c].sess IN
    /\ ~Handling(c) /\ \A d \in Conn \ {c} : conn'[d] = conn[d]
    /\ Grown /\ answered' = answered
    /\ \/ redis' = redis
       \/ s \in Stored /\ i \notin redis[s].ids /\ redis' = Ask(redis, s, i) /\ Cross(c, i)
          /\ (Handling(c)' \/ i \in dropped')
    /\ Handling(c)' =>
         /\ Cross(c, i) /\ i \in asked'[s]
         /\ conn'[c].sess = s /\ conn'[c].msg = {i} /\ conn'[c].ctx = {} /\ conn'[c].turn \in {"none", "context"}
         /\ i \in degraded' \/ (conn'[c].fresh /\ redis' # redis)
         /\ conn'[c].fresh => redis' # redis
         /\ conn'[c].turn # "none" => i \in degraded'

LEMMA TakesKeeps ==
    ASSUME Inv, Shaped', NEW c \in Conn, NEW i \in Id, Takes(c, i)
    PROVE  Inv'
<1> DEFINE s == conn[c].sess
           A == redis' # redis
<1>1. /\ Shaped /\ ReplyWhereAsked /\ TurnsBelong /\ TurnsCross /\ ShownIsSeen /\ OneTurnEach /\ ShownOnce
      /\ AskedLast /\ AskedOnce /\ SeenIsHandled /\ TurnAbreast /\ ContextKeepsUp
  BY DEF Inv, Shaped
<1>2. /\ s \in Sess /\ \A d \in Conn : conn[d].sess \in Sess
      /\ Stored \subseteq Sess /\ IsStore(redis)
  BY <1>1, ShapedParts
<1>3. Stored' = Stored /\ \A t \in Stored \ {s} : redis'[t] = redis[t]
  BY <1>2, AskEffect DEF Takes, Stored
<1>4. A => /\ s \in Stored /\ i \notin redis[s].ids
           /\ redis'[s].ids = redis[s].ids \cup {i} /\ redis'[s].ctx = redis[s].ctx
           /\ Asked(redis'[s]) \subseteq Asked(redis[s]) \cup {i} /\ Replied(redis'[s]) \subseteq Replied(redis[s])
           /\ Past(redis'[s].log) \subseteq Asked(redis[s])
           /\ \A j \in Id : /\ Once(redis[s].log, Reply(j)) => Once(redis'[s].log, Reply(j))
                            /\ Once(redis[s].log, Question(j)) /\ j # i => Once(redis'[s].log, Question(j))
                            /\ Once(redis[s].log, Question(i)) /\ i \notin Asked(redis[s]) => Once(redis'[s].log, Question(i))
  BY <1>2, AskEffect DEF Takes, Stored
<1>5. A /\ i \notin degraded => i \notin Asked(redis[s]) \cup Replied(redis[s])
  BY <1>1, <1>4 DEF ShownIsSeen
<1>6. \A t \in Stored : /\ redis'[t].ctx = redis[t].ctx /\ redis[t].ids \subseteq redis'[t].ids
                        /\ Replied(redis'[t]) \subseteq Replied(redis[t])
  BY <1>3, <1>4
<1>7. ASSUME NEW d \in Conn \ {c}, Handling(d), conn[d].sess = s, Cross(c, i)
      PROVE  conn[d].msg \subseteq crossed' /\ i \in crossed'
  <2>1. Busy(d)
    <3>1. Good(conn[d])
      BY <1>1, ShapedParts
    <3>2. QED
      BY <1>7, <3>1 DEF Busy, Handling, Good, Fits
  <2>2. d \in Others(c)
    BY <1>7, <2>1 DEF Others
  <2>3. crossed' = crossed \cup {i} \cup UNION {conn[e].msg : e \in Others(c)}
    BY <1>7, <2>2 DEF Cross
  <2>4. QED
    BY <2>2, <2>3
<1>8. \A d \in Conn \ {c} : conn'[d] = conn[d] /\ (Handling(d)' <=> Handling(d))
  BY DEF Takes, Handling
<1>9. /\ \A t \in Sess : asked[t] \subseteq asked'[t]
      /\ answered' = answered /\ degraded \subseteq degraded' /\ dropped \subseteq dropped' /\ crossed \subseteq crossed'
  BY DEF Takes, Grown
<1>10. Handling(c)' =>
         /\ Cross(c, i) /\ i \in asked'[s]
         /\ conn'[c].sess = s /\ conn'[c].msg = {i} /\ conn'[c].ctx = {} /\ conn'[c].turn \in {"none", "context"}
         /\ i \in degraded' \/ (conn'[c].fresh /\ A)
         /\ conn'[c].fresh => A
         /\ conn'[c].turn # "none" => i \in degraded'
  BY DEF Takes
<1>11. A => Cross(c, i) /\ (Handling(c)' \/ i \in dropped')
  BY DEF Takes
<1> HIDE DEF A
<1>12. ReplyWhereAsked'
  BY <1>1, <1>2, <1>3, <1>6, <1>9 DEF ReplyWhereAsked
<1>13. TurnsBelong'
  <2>1. \A t \in DOMAIN memory' : memory'[t].ctx \subseteq asked'[t]
    BY DEF Takes, Grown
  <2>2. \A d \in Conn \ {c} : Handling(d)' => conn'[d].msg \cup conn'[d].ctx \subseteq asked'[conn'[d].sess]
    BY <1>1, <1>2, <1>8, <1>9 DEF TurnsBelong
  <2>3. Handling(c)' => conn'[c].msg \cup conn'[c].ctx \subseteq asked'[conn'[c].sess]
    BY <1>10
  <2>4. QED
    BY <2>1, <2>2, <2>3 DEF TurnsBelong
<1>14. TurnsCross'
  <2>1. ASSUME NEW d \in Conn, NEW e \in Conn, d # e, Handling(d)', Handling(e)', conn'[d].sess = conn'[e].sess
        PROVE  conn'[d].msg \subseteq crossed'
    <3>1. CASE d # c /\ e # c
      BY <2>1, <3>1, <1>1, <1>8, <1>9 DEF TurnsCross
    <3>2. CASE d = c
      BY <2>1, <3>2, <1>7, <1>8, <1>10
    <3>3. CASE e = c
      BY <2>1, <3>3, <1>7, <1>8, <1>10
    <3>4. QED
      BY <3>1, <3>2, <3>3
  <2>2. QED
    BY <2>1 DEF TurnsCross
<1>15. ShownIsSeen'
  <2>1. ASSUME NEW t \in Stored, NEW j \in Id \ degraded', j \in Asked(redis'[t]) \cup Replied(redis'[t])
        PROVE  j \in redis'[t].ids
    <3>1. CASE A /\ t = s
      <4>1. j \in Asked(redis[s]) \cup Replied(redis[s]) \/ j = i
        BY <1>4, <2>1, <3>1
      <4>2. QED
        BY <4>1, <1>1, <1>4, <1>9, <2>1, <3>1 DEF ShownIsSeen
    <3>2. CASE ~(A /\ t = s)
      <4>1. redis'[t] = redis[t]
        BY <1>3, <3>2 DEF A
      <4>2. QED
        BY <4>1, <1>1, <1>9, <2>1 DEF ShownIsSeen
    <3>3. QED
      BY <3>1, <3>2
  <2>2. QED
    BY <1>3, <2>1 DEF ShownIsSeen
<1>16. OneTurnEach'
  <2>1. SUFFICES ASSUME NEW d \in Conn, Handling(d)', conn'[d].sess \in Stored, NEW j \in conn'[d].msg \ degraded'
                 PROVE  /\ j \in redis'[conn'[d].sess].ids
                        /\ conn'[d].turn # "stored" => j \notin Replied(redis'[conn'[d].sess])
                        /\ \A e \in Conn \ {d} : Handling(e)' /\ conn'[e].sess = conn'[d].sess => j \notin conn'[e].msg
    BY <1>3 DEF OneTurnEach
  <2>2. CASE d = c
    <3>1. j = i /\ A /\ conn'[d].sess = s /\ i \notin degraded
      BY <1>9, <1>10, <2>1, <2>2
    <3>2. i \in redis'[s].ids /\ i \notin Replied(redis'[s])
      BY <1>4, <1>5, <3>1
    <3>3. ASSUME NEW e \in Conn \ {c}, Handling(e), conn[e].sess = s, i \in conn[e].msg PROVE FALSE
      <4>1. i \in redis[s].ids
        BY <1>1, <1>4, <3>1, <3>3 DEF OneTurnEach
      <4>2. QED
        BY <1>4, <3>1, <4>1
    <3>4. QED
      BY <2>2, <3>1, <3>2, <3>3, <1>8
  <2>3. CASE d # c
    <3>1. conn'[d] = conn[d] /\ Handling(d) /\ j \in conn[d].msg \ degraded /\ conn[d].sess \in Stored
      BY <1>8, <1>9, <2>1, <2>3
    <3>2. /\ j \in redis[conn[d].sess].ids
          /\ conn[d].turn # "stored" => j \notin Replied(redis[conn[d].sess])
          /\ \A e \in Conn \ {d} : Handling(e) /\ conn[e].sess = conn[d].sess => j \notin conn[e].msg
      BY <1>1, <3>1 DEF OneTurnEach
    <3>3. /\ j \in redis'[conn'[d].sess].ids
          /\ conn'[d].turn # "stored" => j \notin Replied(redis'[conn'[d].sess])
      BY <1>6, <3>1, <3>2
    <3>4. ASSUME NEW e \in Conn \ {d}, Handling(e)', conn'[e].sess = conn'[d].sess PROVE j \notin conn'[e].msg
      <4>1. CASE e # c
        BY <4>1, <1>8, <3>1, <3>2, <3>4
      <4>2. CASE e = c
        <5>1. conn[d].sess = s /\ conn'[c].msg = {i} /\ (i \in degraded' \/ A)
          BY <4>2, <1>10, <3>1, <3>4
        <5>2. A => j # i
          BY <1>4, <3>2, <5>1
        <5>3. QED
          BY <4>2, <5>1, <5>2, <2>1
      <4>3. QED
        BY <4>1, <4>2
    <3>5. QED
      BY <3>3, <3>4
  <2>4. QED
    BY <2>2, <2>3
<1>17. ShownOnce'
  <2>1. ASSUME NEW t \in Stored, NEW j \in Id \ degraded'
        PROVE  Once(redis'[t].log, Question(j)) /\ Once(redis'[t].log, Reply(j))
    <3>1. Once(redis[t].log, Question(j)) /\ Once(redis[t].log, Reply(j)) /\ j \notin degraded
      BY <1>1, <1>9, <2>1 DEF ShownOnce
    <3>2. CASE A /\ t = s
      BY <1>4, <1>5, <3>1, <3>2, <2>1
    <3>3. CASE ~(A /\ t = s)
      BY <1>3, <3>1, <3>3 DEF A
    <3>4. QED
      BY <3>2, <3>3
  <2>2. QED
    BY <1>3, <2>1 DEF ShownOnce
<1>18. AskedLast'
  <2>1. SUFFICES ASSUME NEW d \in Conn, conn'[d].fresh, conn'[d].sess \in Stored, NEW j \in conn'[d].msg \ (crossed' \cup degraded')
                 PROVE  j \notin Past(redis'[conn'[d].sess].log)
    BY <1>3 DEF AskedLast
  <2>2. Handling(d)'
    BY <2>1 DEF Handling
  <2>3. CASE d = c
    BY <1>4, <1>5, <1>9, <1>10, <2>1, <2>2, <2>3
  <2>4. CASE d # c
    <3>1. conn'[d] = conn[d] /\ Handling(d) /\ j \in conn[d].msg \ (crossed \cup degraded)
      BY <1>8, <1>9, <2>1, <2>2, <2>4
    <3>2. ~(A /\ conn[d].sess = s)
      BY <1>7, <1>11, <2>1, <2>4, <3>1
    <3>3. redis'[conn[d].sess] = redis[conn[d].sess]
      BY <1>3, <2>1, <3>1, <3>2 DEF A
    <3>4. QED
      BY <1>1, <2>1, <3>1, <3>3 DEF AskedLast
  <2>5. QED
    BY <2>3, <2>4
<1>19. AskedOnce'
  <2>1. ASSUME NEW d \in Conn, conn'[d].turn # "none"
        PROVE  conn'[d].msg \cap conn'[d].past \subseteq crossed' \cup degraded'
    <3>1. CASE d = c
      BY <1>10, <2>1, <3>1 DEF Handling
    <3>2. CASE d # c
      BY <1>1, <1>8, <1>9, <2>1, <3>2 DEF AskedOnce
    <3>3. QED
      BY <3>1, <3>2
  <2>2. QED
    BY <2>1 DEF AskedOnce
<1>20. SeenIsHandled'
  <2>1. ASSUME NEW t \in Stored, NEW j \in redis'[t].ids \ (answered' \cup dropped')
        PROVE  \E d \in Conn : Handling(d)' /\ conn'[d].sess = t /\ j \in conn'[d].msg
    <3>1. CASE A /\ t = s /\ j = i
      <4>1. Handling(c)'
        BY <1>11, <2>1, <3>1
      <4>2. QED
        BY <1>10, <3>1, <4>1
    <3>2. CASE ~(A /\ t = s /\ j = i)
      <4>1. j \in redis[t].ids \ (answered \cup dropped)
        BY <1>3, <1>4, <1>9, <2>1, <3>2 DEF A
      <4>2. PICK d \in Conn : Handling(d) /\ conn[d].sess = t /\ j \in conn[d].msg
        BY <1>1, <4>1 DEF SeenIsHandled
      <4>3. d # c
        BY <4>2 DEF Takes
      <4>4. QED
        BY <1>8, <4>2, <4>3
    <3>3. QED
      BY <3>1, <3>2
  <2>2. ASSUME NEW d \in Conn, conn'[d].turn = "stored" PROVE conn'[d].msg \subseteq answered'
    <3>1. d # c
      BY <1>10, <2>2 DEF Handling
    <3>2. QED
      BY <1>1, <1>8, <1>9, <2>2, <3>1 DEF SeenIsHandled
  <2>3. QED
    BY <1>3, <2>1, <2>2 DEF SeenIsHandled
<1>21. TurnAbreast'
  <2>1. SUFFICES ASSUME NEW d \in Conn, degraded' = {}, conn'[d].turn \in {"run", "commit"}, conn'[d].sess \in Stored
                 PROVE  Replied(redis'[conn'[d].sess]) \subseteq conn'[d].ctx \cup crossed'
    BY <1>3 DEF TurnAbreast
  <2>2. d # c
    BY <1>10, <2>1 DEF Handling
  <2>3. degraded = {} /\ conn'[d] = conn[d]
    BY <1>8, <1>9, <2>1, <2>2
  <2>4. Replied(redis[conn[d].sess]) \subseteq conn[d].ctx \cup crossed
    BY <1>1, <2>1, <2>3 DEF TurnAbreast
  <2>5. QED
    BY <1>6, <1>9, <2>1, <2>3, <2>4
<1>22. ContextKeepsUp'
  BY <1>1, <1>3, <1>6, <1>9 DEF ContextKeepsUp
<1>23. QED
  BY <1>12, <1>13, <1>14, <1>15, <1>16, <1>17, <1>18, <1>19, <1>20, <1>21, <1>22 DEF Inv, Shaped

-----------------------------------------------------------------------------
(* Steps that store a reply                                                  *)

\* The reply to i is on show in c's session; c's turn is stored, or over.
Answers(c, i) ==
    LET s == conn[c].sess IN
    /\ conn[c].turn = "commit" /\ i \in conn[c].msg /\ s \in Stored
    /\ \A d \in Conn \ {c} : conn'[d] = conn[d]
    /\ Grown /\ asked' = asked /\ dropped' = dropped /\ crossed' = crossed /\ answered' = answered \cup {i}
    /\ \/ redis' = Answer(redis, s, i, conn[c].ctx \cup {i})
       \/ i \in degraded' /\ redis' = Answer(Answer(redis, s, i, {}), s, i, conn[c].ctx \cup {i})
    /\ Handling(c)' => /\ conn'[c].sess = s /\ conn'[c].msg = conn[c].msg /\ conn'[c].past = conn[c].past
                       /\ conn'[c].ctx = conn[c].ctx /\ conn'[c].turn = "stored" /\ ~conn'[c].fresh

LEMMA AnswersEffect ==
    ASSUME Inv, NEW c \in Conn, NEW i \in Id, Answers(c, i)
    PROVE  LET s == conn[c].sess IN
           /\ Stored' = Stored /\ \A t \in Stored \ {s} : redis'[t] = redis[t]
           /\ redis'[s].ids = redis[s].ids /\ redis'[s].ctx = conn[c].ctx \cup {i}
           /\ Asked(redis'[s]) \subseteq Asked(redis[s]) /\ Replied(redis'[s]) \subseteq Replied(redis[s]) \cup {i}
           /\ \A j \in Id \ degraded' :
                /\ Once(redis[s].log, Question(j)) => Once(redis'[s].log, Question(j))
                /\ Once(redis[s].log, Reply(j)) /\ (j = i => i \notin Replied(redis[s])) => Once(redis'[s].log, Reply(j))
<1> DEFINE s == conn[c].sess
           x == conn[c].ctx \cup {i}
           mid == Answer(redis, s, i, {})
<1>1. IsStore(redis) /\ s \in DOMAIN redis /\ x \in SUBSET Id
  BY ShapedParts DEF Inv, Shaped, Answers, Stored
<1>2. CASE redis' = Answer(redis, s, i, x)
  <2>1. /\ DOMAIN redis' = DOMAIN redis /\ \A t \in DOMAIN redis \ {s} : redis'[t] = redis[t]
        /\ redis'[s].ids = redis[s].ids /\ redis'[s].ctx = x
        /\ Asked(redis'[s]) \subseteq Asked(redis[s]) /\ Replied(redis'[s]) \subseteq Replied(redis[s]) \cup {i}
        /\ \A j \in Id : /\ Once(redis[s].log, Question(j)) => Once(redis'[s].log, Question(j))
                         /\ Once(redis[s].log, Reply(j)) /\ j # i => Once(redis'[s].log, Reply(j))
                         /\ Once(redis[s].log, Reply(i)) /\ i \notin Replied(redis[s]) => Once(redis'[s].log, Reply(i))
    BY <1>1, <1>2, AnswerEffect
  <2>2. QED
    BY <2>1 DEF Stored
<1>3. CASE i \in degraded' /\ redis' = Answer(mid, s, i, x)
  <2>1. /\ IsStore(mid) /\ DOMAIN mid = DOMAIN redis /\ \A t \in DOMAIN redis \ {s} : mid[t] = redis[t]
        /\ mid[s].ids = redis[s].ids
        /\ Asked(mid[s]) \subseteq Asked(redis[s]) /\ Replied(mid[s]) \subseteq Replied(redis[s]) \cup {i}
        /\ \A j \in Id : /\ Once(redis[s].log, Question(j)) => Once(mid[s].log, Question(j))
                         /\ Once(redis[s].log, Reply(j)) /\ j # i => Once(mid[s].log, Reply(j))
    BY <1>1, AnswerEffect
  <2> HIDE DEF mid
  <2>2. /\ DOMAIN redis' = DOMAIN mid /\ \A t \in DOMAIN mid \ {s} : redis'[t] = mid[t]
        /\ redis'[s].ids = mid[s].ids /\ redis'[s].ctx = x
        /\ Asked(redis'[s]) \subseteq Asked(mid[s]) /\ Replied(redis'[s]) \subseteq Replied(mid[s]) \cup {i}
        /\ \A j \in Id : /\ Once(mid[s].log, Question(j)) => Once(redis'[s].log, Question(j))
                         /\ Once(mid[s].log, Reply(j)) /\ j # i => Once(redis'[s].log, Reply(j))
    BY <1>1, <1>3, <2>1, AnswerEffect
  <2>3. QED
    BY <1>1, <1>3, <2>1, <2>2 DEF Stored
<1>4. QED
  BY <1>2, <1>3 DEF Answers

LEMMA AnswersKeeps ==
    ASSUME Inv, Shaped', NEW c \in Conn, NEW i \in Id, Answers(c, i)
    PROVE  Inv'
<1> DEFINE s == conn[c].sess
<1>1. /\ Shaped /\ ReplyWhereAsked /\ TurnsBelong /\ TurnsCross /\ ShownIsSeen /\ OneTurnEach /\ ShownOnce
      /\ AskedLast /\ AskedOnce /\ SeenIsHandled /\ TurnAbreast /\ ContextKeepsUp
  BY DEF Inv, Shaped
<1>2. s \in Sess /\ Stored \subseteq Sess /\ \A d \in Conn : conn[d].sess \in Sess
  BY <1>1, ShapedParts
<1>3. /\ Stored' = Stored /\ \A t \in Stored \ {s} : redis'[t] = redis[t]
      /\ redis'[s].ids = redis[s].ids /\ redis'[s].ctx = conn[c].ctx \cup {i}
      /\ Asked(redis'[s]) \subseteq Asked(redis[s]) /\ Replied(redis'[s]) \subseteq Replied(redis[s]) \cup {i}
      /\ \A j \in Id \ degraded' :
           /\ Once(redis[s].log, Question(j)) => Once(redis'[s].log, Question(j))
           /\ Once(redis[s].log, Reply(j)) /\ (j = i => i \notin Replied(redis[s])) => Once(redis'[s].log, Reply(j))
  BY AnswersEffect
<1>4. Handling(c) /\ conn[c].turn = "commit" /\ i \in conn[c].msg /\ s \in Stored /\ ~conn[c].fresh
  <2>1. Good(conn[c])
    BY <1>1, ShapedParts
  <2>2. QED
    BY <2>1 DEF Answers, Handling, Good, Fits
<1>5. conn[c].msg = {i}
  <2>1. Good(conn[c])
    BY <1>1, ShapedParts
  <2>2. QED
    BY <1>4, <2>1 DEF Good, Fits
<1>6. /\ asked' = asked /\ dropped' = dropped /\ crossed' = crossed /\ answered' = answered \cup {i} /\ degraded \subseteq degraded'
      /\ \A t \in DOMAIN memory' : memory'[t].ctx \subseteq asked'[t]
  BY DEF Answers, Grown
<1>7. \A d \in Conn \ {c} : conn'[d] = conn[d] /\ (Handling(d)' <=> Handling(d))
  BY DEF Answers, Handling
<1>8. Handling(c)' => /\ conn'[c].sess = s /\ conn'[c].msg = {i} /\ conn'[c].past = conn[c].past
                      /\ conn'[c].ctx = conn[c].ctx /\ conn'[c].turn = "stored" /\ ~conn'[c].fresh
  BY <1>5 DEF Answers
<1>9. i \notin degraded => i \in redis[s].ids /\ i \notin Replied(redis[s])
  BY <1>1, <1>4 DEF OneTurnEach
<1>10. i \in asked[s] /\ conn[c].ctx \subseteq asked[s]
  BY <1>1, <1>4 DEF TurnsBelong
<1>11. \A d \in Conn \ {c} : Handling(d) /\ conn[d].sess = s => conn[d].msg \subseteq crossed /\ i \in crossed
  BY <1>1, <1>4 DEF TurnsCross
<1> HIDE DEF s
<1>12. ReplyWhereAsked'
  BY <1>1, <1>3, <1>6, <1>10 DEF ReplyWhereAsked
<1>13. TurnsBelong'
  <2>2. \A d \in Conn \ {c} : Handling(d)' => conn'[d].msg \cup conn'[d].ctx \subseteq asked'[conn'[d].sess]
    BY <1>1, <1>6, <1>7 DEF TurnsBelong
  <2>3. Handling(c)' => conn'[c].msg \cup conn'[c].ctx \subseteq asked'[conn'[c].sess]
    BY <1>6, <1>8, <1>10
  <2>4. QED
    BY <1>6, <2>2, <2>3 DEF TurnsBelong
<1>14. TurnsCross'
  <2>1. ASSUME NEW d \in Conn, NEW e \in Conn, d # e, Handling(d)', Handling(e)', conn'[d].sess = conn'[e].sess
        PROVE  conn'[d].msg \subseteq crossed'
    <3>1. CASE d # c /\ e # c
      BY <2>1, <3>1, <1>1, <1>6, <1>7 DEF TurnsCross
    <3>2. CASE d = c
      BY <2>1, <3>2, <1>6, <1>7, <1>8, <1>11
    <3>3. CASE e = c
      BY <2>1, <3>3, <1>6, <1>7, <1>8, <1>11
    <3>4. QED
      BY <3>1, <3>2, <3>3
  <2>2. QED
    BY <2>1 DEF TurnsCross
<1>15. ShownIsSeen'
  <2>1. ASSUME NEW t \in Stored, NEW j \in Id \ degraded', j \in Asked(redis'[t]) \cup Replied(redis'[t])
        PROVE  j \in redis'[t].ids
    <3>1. CASE t = s
      <4>1. j \in Asked(redis[s]) \cup Replied(redis[s]) \/ j = i
        BY <1>3, <2>1, <3>1
      <4>2. QED
        BY <4>1, <1>1, <1>3, <1>6, <1>9, <2>1, <3>1 DEF ShownIsSeen
    <3>2. CASE t # s
      <4>1. redis'[t] = redis[t]
        BY <1>3, <3>2
      <4>2. QED
        BY <4>1, <1>1, <1>6, <2>1 DEF ShownIsSeen
    <3>3. QED
      BY <3>1, <3>2
  <2>2. QED
    BY <1>3, <2>1 DEF ShownIsSeen
<1>16. OneTurnEach'
  <2>1. SUFFICES ASSUME NEW d \in Conn, Handling(d)', conn'[d].sess \in Stored, NEW j \in conn'[d].msg \ degraded'
                 PROVE  /\ j \in redis'[conn'[d].sess].ids
                        /\ conn'[d].turn # "stored" => j \notin Replied(redis'[conn'[d].sess])
                        /\ \A e \in Conn \ {d} : Handling(e)' /\ conn'[e].sess = conn'[d].sess => j \notin conn'[e].msg
    BY <1>3 DEF OneTurnEach
  <2>2. Handling(d) /\ conn'[d].sess = conn[d].sess /\ conn'[d].msg = conn[d].msg /\ j \in conn[d].msg \ degraded
    BY <1>4, <1>5, <1>6, <1>7, <1>8, <2>1 DEF s
  <2>3. /\ j \in redis[conn[d].sess].ids
        /\ conn[d].turn # "stored" => j \notin Replied(redis[conn[d].sess])
        /\ \A e \in Conn \ {d} : Handling(e) /\ conn[e].sess = conn[d].sess => j \notin conn[e].msg
    BY <1>1, <2>1, <2>2 DEF OneTurnEach
  <2>4. ASSUME NEW e \in Conn \ {d}, Handling(e)', conn'[e].sess = conn'[d].sess PROVE j \notin conn'[e].msg
    <3>1. Handling(e) /\ conn'[e].sess = conn[e].sess /\ conn'[e].msg = conn[e].msg
      BY <1>4, <1>5, <1>7, <1>8, <2>4 DEF s
    <3>2. QED
      BY <2>2, <2>3, <2>4, <3>1
  <2>5. j \in redis'[conn'[d].sess].ids
    BY <1>3, <2>1, <2>2, <2>3
  <2>6. ASSUME conn'[d].turn # "stored" PROVE j \notin Replied(redis'[conn'[d].sess])
    <3>1. d # c /\ conn'[d] = conn[d]
      BY <1>7, <1>8, <2>1, <2>6
    <3>2. j \notin Replied(redis[conn[d].sess])
      BY <2>3, <2>6, <3>1
    <3>3. conn[d].sess = s => j # i
      BY <1>4, <2>3, <3>1 DEF s
    <3>4. QED
      BY <1>3, <2>1, <2>2, <3>2, <3>3
  <2>7. QED
    BY <2>4, <2>5, <2>6
<1>17. ShownOnce'
  <2>1. ASSUME NEW t \in Stored, NEW j \in Id \ degraded'
        PROVE  Once(redis'[t].log, Question(j)) /\ Once(redis'[t].log, Reply(j))
    <3>1. Once(redis[t].log, Question(j)) /\ Once(redis[t].log, Reply(j)) /\ j \notin degraded
      BY <1>1, <1>6, <2>1 DEF ShownOnce
    <3>2. CASE t = s
      BY <1>3, <1>9, <3>1, <3>2, <2>1
    <3>3. CASE t # s
      BY <1>3, <3>1, <3>3
    <3>4. QED
      BY <3>2, <3>3
  <2>2. QED
    BY <1>3, <2>1 DEF ShownOnce
<1>18. AskedLast'
  <2>1. SUFFICES ASSUME NEW d \in Conn, conn'[d].fresh, conn'[d].sess \in Stored, NEW j \in conn'[d].msg \ (crossed' \cup degraded')
                 PROVE  j \notin Past(redis'[conn'[d].sess].log)
    BY <1>3 DEF AskedLast
  <2>2. d # c /\ conn'[d] = conn[d] /\ Handling(d)
    BY <1>7, <1>8, <2>1 DEF Handling
  <2>3. conn[d].sess # s
    BY <1>6, <1>11, <2>1, <2>2
  <2>4. redis'[conn[d].sess] = redis[conn[d].sess]
    BY <1>3, <2>1, <2>2, <2>3
  <2>5. QED
    BY <1>1, <1>6, <2>1, <2>2, <2>4 DEF AskedLast
<1>19. AskedOnce'
  <2>1. ASSUME NEW d \in Conn, conn'[d].turn # "none"
        PROVE  conn'[d].msg \cap conn'[d].past \subseteq crossed' \cup degraded'
    <3>1. CASE d = c
      <4>1. conn'[c].msg = conn[c].msg /\ conn'[c].past = conn[c].past
        BY <1>5, <1>8, <2>1, <3>1 DEF Handling
      <4>2. QED
        BY <1>1, <1>4, <1>6, <3>1, <4>1 DEF AskedOnce
    <3>2. CASE d # c
      BY <1>1, <1>6, <1>7, <2>1, <3>2 DEF AskedOnce
    <3>3. QED
      BY <3>1, <3>2
  <2>2. QED
    BY <2>1 DEF AskedOnce
<1>20. SeenIsHandled'
  <2>1. ASSUME NEW t \in Stored, NEW j \in redis'[t].ids \ (answered' \cup dropped')
        PROVE  \E d \in Conn : Handling(d)' /\ conn'[d].sess = t /\ j \in conn'[d].msg
    <3>1. j \in redis[t].ids \ (answered \cup dropped) /\ j # i
      BY <1>3, <1>6, <2>1
    <3>2. PICK d \in Conn : Handling(d) /\ conn[d].sess = t /\ j \in conn[d].msg
      BY <1>1, <3>1 DEF SeenIsHandled
    <3>3. d # c
      BY <1>5, <3>1, <3>2
    <3>4. QED
      BY <1>7, <3>2, <3>3
  <2>2. ASSUME NEW d \in Conn, conn'[d].turn = "stored" PROVE conn'[d].msg \subseteq answered'
    <3>1. CASE d = c
      BY <1>6, <1>8, <2>2, <3>1 DEF Handling
    <3>2. CASE d # c
      BY <1>1, <1>6, <1>7, <2>2, <3>2 DEF SeenIsHandled
    <3>3. QED
      BY <3>1, <3>2
  <2>3. QED
    BY <1>3, <2>1, <2>2 DEF SeenIsHandled
<1>21. TurnAbreast'
  <2>1. SUFFICES ASSUME NEW d \in Conn, degraded' = {}, conn'[d].turn \in {"run", "commit"}, conn'[d].sess \in Stored
                 PROVE  Replied(redis'[conn'[d].sess]) \subseteq conn'[d].ctx \cup crossed'
    BY <1>3 DEF TurnAbreast
  <2>2. d # c
    BY <1>8, <2>1 DEF Handling
  <2>3. degraded = {} /\ conn'[d] = conn[d] /\ Handling(d)
    BY <1>6, <1>7, <2>1, <2>2 DEF Handling
  <2>4. Replied(redis[conn[d].sess]) \subseteq conn[d].ctx \cup crossed
    BY <1>1, <2>1, <2>3 DEF TurnAbreast
  <2>5. Replied(redis'[conn[d].sess]) \subseteq conn[d].ctx \cup crossed
    BY <1>3, <1>11, <2>1, <2>2, <2>3, <2>4
  <2>6. QED
    BY <1>6, <2>3, <2>5
<1>22. ContextKeepsUp'
  <2>1. SUFFICES ASSUME NEW t \in Stored, degraded' = {}
                 PROVE  Replied(redis'[t]) \subseteq redis'[t].ctx \cup crossed'
    BY <1>3 DEF ContextKeepsUp
  <2>2. degraded = {}
    BY <1>6, <2>1
  <2>3. CASE t = s
    <3>1. Replied(redis[s]) \subseteq conn[c].ctx \cup crossed
      BY <1>1, <1>4, <2>2 DEF TurnAbreast, s
    <3>2. QED
      BY <1>3, <1>6, <2>3, <3>1
  <2>4. CASE t # s
    BY <1>1, <1>3, <1>6, <2>2, <2>4 DEF ContextKeepsUp
  <2>5. QED
    BY <2>3, <2>4
<1>23. QED
  BY <1>12, <1>13, <1>14, <1>15, <1>16, <1>17, <1>18, <1>19, <1>20, <1>21, <1>22 DEF Inv, Shaped

-----------------------------------------------------------------------------
(* Every step is of one of these kinds                                       *)

\* What Inv says of the present state, in the words of the kinds of steps.
LEMMA Present ==
    ASSUME Inv
    PROVE  /\ Shaped /\ \A c \in Conn : Good(conn[c]) /\ conn[c].sess \in Sess
           /\ \A c \in Conn : ~Busy(c) => ~Handling(c)
           /\ \A s \in DOMAIN memory : memory[s].ctx \subseteq asked[s]
           /\ \A s \in Stored : redis[s].ctx \subseteq asked[s]
           /\ asked \in [Sess -> SUBSET Id]
<1>1. Shaped /\ TurnsBelong /\ ReplyWhereAsked
  BY DEF Inv, Shaped
<1>2. \A c \in Conn : Good(conn[c]) /\ conn[c].sess \in Sess
  BY <1>1, ShapedParts
<1>3. \A c \in Conn : ~Busy(c) => ~Handling(c)
  BY <1>2 DEF Good, Fits, Busy, Handling
<1>4. asked \in [Sess -> SUBSET Id]
  BY <1>1, ShapedParts DEF History
<1>5. QED
  BY <1>1, <1>2, <1>3, <1>4 DEF TurnsBelong, ReplyWhereAsked

\* The in-memory copy keeps its context when it is loaded.
LEMMA UpsertBelongs ==
    ASSUME Inv, NEW s \in Stored, memory' = Upsert(memory, s, redis[s]), \A t \in Sess : asked[t] \subseteq asked'[t]
    PROVE  \A t \in DOMAIN memory' : memory'[t].ctx \subseteq asked'[t]
<1>1. IsStore(memory) /\ s \in Sess /\ redis[s] \in Copy
  BY Present, ShapedParts
<1>2. /\ DOMAIN memory' = DOMAIN memory \cup {s} /\ \A t \in DOMAIN memory \ {s} : memory'[t] = memory[t]
      /\ memory'[s].ctx = IF s \in DOMAIN memory THEN memory[s].ctx ELSE {}
  <2>1. Alters(memory', memory, s) /\ memory'[s].ctx = IF s \in DOMAIN memory THEN memory[s].ctx ELSE {}
    BY <1>1, UpsertEffect
  <2>2. QED
    BY <2>1 DEF Alters
<1>3. \A t \in DOMAIN memory : t \in Sess
  BY <1>1 DEF IsStore
<1>4. QED
  BY <1>1, <1>2, <1>3, Present

\* The history and the in-memory copies are left alone.
LEMMA SameGrown ==
    ASSUME Inv, UNCHANGED historyVars, UNCHANGED memory
    PROVE  Grown
BY Present DEF Grown, historyVars

LEMMA SameKept == ASSUME UNCHANGED redis PROVE Kept
BY DEF Kept, Stored

\* A step of connection c: the others stay as they are.
LEMMA OthersContinue ==
    ASSUME Inv, NEW c \in Conn, Grown, \A d \in Conn \ {c} : conn'[d] = conn[d], Continues(c)
    PROVE  \A d \in Conn : Continues(d)
<1>1. ASSUME NEW d \in Conn \ {c} PROVE Continues(d)
  BY <1>1, SameContinues
<1>2. QED
  BY <1>1

LEMMA AllContinue ==
    ASSUME Inv, Grown, UNCHANGED conn
    PROVE  \A d \in Conn : Continues(d)
BY SameContinues

LEMMA SessionKeeps ==
    ASSUME Inv, Shaped', NEW c \in Conn, Session(c)
    PROVE  Inv'
<1>0. conn \in [Conn -> Connection]
  BY Present, ShapedParts DEF Shaped, TypeOK
<1>1. CASE Connect(c)
  <2>1. UNCHANGED historyVars /\ UNCHANGED memory /\ UNCHANGED redis /\ conn[c] = NoConn
    BY <1>1 DEF Connect
  <2>2. \A d \in Conn \ {c} : conn'[d] = conn[d]
    BY <1>0, <1>1 DEF Connect
  <2>3. conn'[c].turn = "none" /\ ~conn'[c].fresh
    <3>1. conn[c].turn = "none" /\ ~conn[c].fresh /\ conn[c] \in Connection
      BY <1>0, <2>1, NoConnGood
    <3>2. conn'[c].turn = conn[c].turn /\ conn'[c].fresh = conn[c].fresh
      BY <1>0, <1>1, <3>1 DEF Connect, Connection
    <3>3. QED
      BY <3>1, <3>2
  <2>4. Continues(c)
    BY <2>1, <2>3, NoConnGood, IdleContinues DEF Handling
  <2>5. QED
    BY <2>1, <2>2, <2>4, SameGrown, SameKept, OthersContinue, CalmKeeps
<1>2. CASE Create(c)
  <2>1. PICK s \in NewSess :
           /\ conn' = [conn EXCEPT ![c].loop = "ready", ![c].sess = s]
           /\ memory' = Put(memory, s, Blank)
           /\ redis' = Put(redis, s, Blank) \/ redis' = redis
    BY <1>2 DEF Create
  <2>2. s \in Sess /\ s \notin DOMAIN redis /\ \A d \in Conn : conn[d] # NoConn => conn[d].sess # s
    BY DEF NewSess, Used
  <2>3. UNCHANGED historyVars
    BY <1>2 DEF Create
  <2>4. \A t \in DOMAIN memory' : memory'[t].ctx \subseteq asked'[t]
    <3>1. IsStore(memory)
      BY Present, ShapedParts
    <3>2. DOMAIN memory' = DOMAIN memory \cup {s} /\ memory'[s] = Blank /\ \A t \in DOMAIN memory \ {s} : memory'[t] = memory[t]
      <4>1. Alters(memory', memory, s) /\ memory'[s] = Blank
        BY <2>1, <2>2, <3>1, PutStore, BlankCopy
      <4>2. QED
        BY <4>1 DEF Alters
    <3>3. QED
      BY <2>3, <3>2, Present DEF Blank, historyVars
  <2>5. Grown
    BY <2>3, <2>4 DEF Grown, historyVars
  <2>6. /\ \A d \in Conn \ {c} : conn'[d] = conn[d]
        /\ conn'[c].turn = conn[c].turn /\ conn'[c].fresh = conn[c].fresh
    BY <1>0, <2>1 DEF Connection
  <2>7. ~Handling(c) /\ ~Handling(c)'
    <3>1. Good(conn[c]) /\ conn[c].loop = "create"
      BY <1>2, Present DEF Create
    <3>2. ~Handling(c)
      BY <3>1 DEF Good, Fits, Handling
    <3>3. QED
      BY <2>6, <3>2 DEF Handling
  <2>8. Kept
    <3>1. IsStore(redis)
      BY Present, ShapedParts
    <3>2. redis' = redis \/ (DOMAIN redis' = DOMAIN redis \cup {s} /\ redis'[s] = Blank /\ \A t \in DOMAIN redis \ {s} : redis'[t] = redis[t])
      <4>1. redis' = redis \/ (Alters(redis', redis, s) /\ redis'[s] = Blank)
        BY <2>1, <2>2, <3>1, PutStore, BlankCopy
      <4>2. QED
        BY <4>1 DEF Alters
    <3>3. ASSUME NEW d \in Conn, Handling(d)' PROVE conn'[d].sess # s
      <4>1. d # c
        BY <2>7, <3>3
      <4>2. conn'[d] = conn[d]
        BY <2>6, <4>1
      <4>3. conn[d] # NoConn
        BY <3>3, <4>2, NoConnGood DEF Handling
      <4>4. QED
        BY <2>2, <4>2, <4>3
    <3>4. QED
      BY <2>2, <3>2, <3>3 DEF Kept, Stored
  <2>9. QED
    BY <2>5, <2>6, <2>7, <2>8, IdleContinues, OthersContinue, CalmKeeps
<1>3. CASE NewChat(c) \/ SwitchSession(c) \/ Sync(c)
  <2>1. UNCHANGED historyVars /\ UNCHANGED redis
    BY <1>3 DEF NewChat, SwitchSession, Sync, storeVars
  <2>2. Grown
    <3>1. memory' = memory \/ \E s \in Stored : memory' = Upsert(memory, s, redis[s])
      BY <1>3 DEF NewChat, SwitchSession, Sync, storeVars
    <3>2. CASE memory' = memory
      BY <2>1, <3>2, SameGrown
    <3>3. CASE \E s \in Stored : memory' = Upsert(memory, s, redis[s])
      <4>1. asked' = asked
        BY <2>1 DEF historyVars
      <4>2. \A t \in DOMAIN memory' : memory'[t].ctx \subseteq asked'[t]
        BY <3>3, <4>1, UpsertBelongs
      <4>3. QED
        BY <2>1, <4>2 DEF Grown, historyVars
    <3>4. QED
      BY <3>1, <3>2, <3>3
  <2>3. CASE Sync(c)
    <3>1. UNCHANGED conn
      BY <2>3 DEF Sync
    <3>2. QED
      BY <2>1, <2>2, <3>1, SameKept, AllContinue, CalmKeeps
  <2>4. CASE NewChat(c) \/ SwitchSession(c)
    <3>1. ~Handling(c)
      BY <2>4, Present DEF NewChat, SwitchSession, MayLeave
    <3>2. /\ \A d \in Conn \ {c} : conn'[d] = conn[d]
          /\ conn'[c].turn = conn[c].turn /\ conn'[c].fresh = conn[c].fresh
      BY <1>0, <2>4 DEF NewChat, SwitchSession, Connection
    <3>3. ~Handling(c)'
      BY <3>1, <3>2 DEF Handling
    <3>4. QED
      BY <2>1, <2>2, <3>1, <3>2, <3>3, SameKept, IdleContinues, OthersContinue, CalmKeeps
  <2>5. QED
    BY <1>3, <2>3, <2>4
<1>4. CASE Disconnect(c)
  <2>1. UNCHANGED historyVars /\ UNCHANGED memory /\ UNCHANGED redis
    BY <1>4 DEF Disconnect, storeVars
  <2>2. Grown /\ Kept
    BY <2>1, SameGrown, SameKept
  <2>3. \A d \in Conn \ {c} : conn'[d] = conn[d]
    BY <1>0, <1>4 DEF Disconnect
  <2>4. CASE Busy(c)
    <3>1. conn'[c] = [conn[c] EXCEPT !.loop = "closed"]
      BY <1>0, <1>4, <2>4 DEF Disconnect
    <3>2. Continues(c)
      BY <1>0, <2>2, <3>1, SameContinues DEF Connection
    <3>3. QED
      BY <2>2, <2>3, <3>2, OthersContinue, CalmKeeps
  <2>5. CASE ~Busy(c)
    <3>1. conn'[c] = NoConn
      BY <1>0, <1>4, <2>5 DEF Disconnect
    <3>2. ~Handling(c) /\ ~Handling(c)'
      BY <2>5, <3>1, Present, NoConnGood DEF Handling
    <3>3. QED
      BY <2>2, <2>3, <3>2, IdleContinues, OthersContinue, CalmKeeps
  <2>6. QED
    BY <2>4, <2>5
<1>5. QED
  BY <1>1, <1>2, <1>3, <1>4 DEF Session

LEMMA SendKeeps ==
    ASSUME Inv, Shaped', NEW c \in Conn, NEW i \in Id, Send(c, i) \/ SendRepeated(c, i)
    PROVE  Inv'
<1> DEFINE s == conn[c].sess
<1>1. /\ conn \in [Conn -> Connection] /\ IsStore(redis) /\ Good(conn[c]) /\ s \in Sess
      /\ asked \in [Sess -> SUBSET Id] /\ \A t \in DOMAIN memory : t \in Sess /\ memory[t].ctx \subseteq asked[t]
  BY Present, ShapedParts DEF Shaped, TypeOK, IsStore
<1>2. ~Handling(c) /\ conn[c].turn = "none" /\ conn[c].ctx = {} /\ ~conn[c].fresh
  <2>1. ~Busy(c)
    BY DEF Send, SendRepeated, MaySend
  <2>2. QED
    BY <1>1, <2>1, Present DEF Good, Fits, Busy, Handling
<1>3. UNCHANGED <<memory, answered>> /\ degraded \subseteq degraded' /\ dropped \subseteq dropped'
  BY DEF Send, SendRepeated
<1>4. Grown
  <2>1. (asked' = asked \/ Accepted(c, i)) /\ (crossed' = crossed \/ Cross(c, i))
    BY DEF Send, SendRepeated
  <2>2. \A t \in Sess : asked[t] \subseteq asked'[t]
    BY <1>1, <2>1 DEF Accepted
  <2>3. crossed \subseteq crossed'
    BY <2>1 DEF Cross
  <2>4. QED
    BY <1>1, <1>3, <2>2, <2>3 DEF Grown
<1>5. \A d \in Conn \ {c} : conn'[d] = conn[d]
  BY <1>1 DEF Send, SendRepeated
<1>6. CASE /\ s \in Stored /\ ~Seen(redis, s, i) /\ redis' = Ask(redis, s, i) /\ Accepted(c, i) /\ Cross(c, i)
           /\ \/ conn' = [conn EXCEPT ![c].loop = "load", ![c].msg = {i}, ![c].fresh = TRUE]
              \/ conn' = [conn EXCEPT ![c].loop = "load", ![c].msg = {i}] /\ i \in dropped'
  <2>1. i \notin redis[s].ids /\ redis' # redis
    <3>1. Ask(redis, s, i)[s].ids = redis[s].ids \cup {i}
      BY <1>1, <1>6, AskEffect DEF Stored
    <3>2. QED
      BY <1>6, <3>1 DEF Seen
  <2>2. i \in asked'[s]
    BY <1>1, <1>6 DEF Accepted
  <2>3. /\ conn'[c].sess = s /\ conn'[c].msg = {i} /\ conn'[c].ctx = {} /\ conn'[c].turn = "none"
        /\ conn'[c].fresh \/ (~conn'[c].fresh /\ i \in dropped')
    BY <1>1, <1>2, <1>6 DEF Connection
  <2>4. Takes(c, i)
    BY <1>2, <1>3, <1>4, <1>5, <1>6, <2>1, <2>2, <2>3 DEF Takes, Handling
  <2>5. QED
    BY <2>4, TakesKeeps
<1>7. CASE redis' = redis /\ (conn' = conn \/ conn' = [conn EXCEPT ![c].loop = "load", ![c].msg = {i}])
  <2>1. conn'[c].turn = "none" /\ ~conn'[c].fresh
    BY <1>1, <1>2, <1>7 DEF Connection
  <2>2. Takes(c, i)
    BY <1>2, <1>3, <1>4, <1>5, <1>7, <2>1 DEF Takes, Handling
  <2>3. QED
    BY <2>2, TakesKeeps
<1>8. QED
  <2>1. CASE Send(c, i)
    BY <1>6, <1>7, <2>1 DEF Send
  <2>2. CASE SendRepeated(c, i)
    BY <1>6, <2>2 DEF SendRepeated
  <2>3. QED
    BY <2>1, <2>2

LEMMA SendFallbackKeeps ==
    ASSUME Inv, Shaped', NEW c \in Conn, NEW i \in Id, SendFallback(c, i)
    PROVE  Inv'
<1> DEFINE s == conn[c].sess
<1>1. /\ conn \in [Conn -> Connection] /\ IsStore(redis) /\ IsStore(memory) /\ Good(conn[c]) /\ s \in Sess
      /\ asked \in [Sess -> SUBSET Id] /\ \A t \in DOMAIN memory : t \in Sess /\ memory[t].ctx \subseteq asked[t]
  BY Present, ShapedParts DEF Shaped, TypeOK, IsStore
<1>2. ~Handling(c) /\ conn[c].turn = "none" /\ conn[c].ctx = {} /\ ~conn[c].fresh
  <2>1. ~Busy(c)
    BY DEF SendFallback, MaySend
  <2>2. QED
    BY <1>1, <2>1, Present DEF Good, Fits, Busy, Handling
<1>3. answered' = answered /\ degraded' = degraded \cup {i} /\ dropped \subseteq dropped'
  BY DEF SendFallback
<1>4. redis' = redis \/ (s \in Stored /\ i \notin redis[s].ids /\ redis' = Ask(redis, s, i))
  BY DEF SendFallback, Seen
<1>5. CASE /\ s \in DOMAIN memory /\ memory' = Ask(memory, s, i)
           /\ conn' = [conn EXCEPT ![c] = Begin(@, i, memory'[s].log)]
           /\ Accepted(c, i) /\ Cross(c, i)
  <2>1. \A t \in Sess : asked[t] \subseteq asked'[t] /\ i \in asked'[s]
    BY <1>1, <1>5 DEF Accepted
  <2>2. \A t \in DOMAIN memory' : memory'[t].ctx \subseteq asked'[t]
    <3>1. DOMAIN memory' = DOMAIN memory /\ memory'[s].ctx = memory[s].ctx /\ \A t \in DOMAIN memory \ {s} : memory'[t] = memory[t]
      BY <1>1, <1>5, AskEffect
    <3>2. QED
      BY <1>1, <2>1, <3>1
  <2>3. crossed \subseteq crossed'
    BY <1>5 DEF Cross
  <2>4. Grown
    BY <1>3, <2>1, <2>2, <2>3 DEF Grown
  <2>5. /\ conn'[c].sess = s /\ conn'[c].msg = {i} /\ conn'[c].ctx = {} /\ conn'[c].turn = "context" /\ ~conn'[c].fresh
        /\ \A d \in Conn \ {c} : conn'[d] = conn[d]
    <3>1. conn'[c] = Begin(conn[c], i, memory'[s].log) /\ conn[c] \in Connection
      BY <1>1, <1>5
    <3>2. QED
      BY <1>1, <1>2, <1>5, <3>1, BeginGood
  <2>6. Takes(c, i)
    BY <1>2, <1>3, <1>4, <1>5, <2>1, <2>4, <2>5 DEF Takes, Handling
  <2>7. QED
    BY <2>6, TakesKeeps
<1>6. CASE /\ \/ redis' = redis /\ crossed' = crossed
              \/ i \in dropped' /\ Cross(c, i)
           /\ UNCHANGED <<memory, conn, asked>>
  <2>1. Grown
    BY <1>1, <1>3, <1>6 DEF Grown, Cross
  <2>2. ~Handling(c)'
    BY <1>2, <1>6 DEF Handling
  <2>3. Takes(c, i)
    BY <1>2, <1>3, <1>4, <1>6, <2>1, <2>2 DEF Takes
  <2>4. QED
    BY <2>3, TakesKeeps
<1>7. QED
  BY <1>5, <1>6 DEF SendFallback

LEMMA LoadKeeps ==
    ASSUME Inv, Shaped', NEW c \in Conn, Load(c)
    PROVE  Inv'
<1> DEFINE s == conn[c].sess
<1>1. /\ conn \in [Conn -> Connection] /\ Good(conn[c]) /\ s \in Sess /\ asked \in [Sess -> SUBSET Id]
      /\ conn[c] \in Connection
  BY Present, ShapedParts DEF Shaped, TypeOK
<1>2. UNCHANGED <<redis, asked, answered, crossed>>
  BY DEF Load
<1>3. conn[c].loop = "load" /\ conn[c].turn = "none" /\ conn[c].ctx = {} /\ (Handling(c) <=> conn[c].fresh)
      /\ \A i, j \in conn[c].msg : i = j
  BY <1>1 DEF Load, Good, Fits, Handling
<1>4. PICK i \in conn[c].msg :
         \/ /\ s \in Stored /\ NoFault
            /\ memory' = Upsert(memory, s, redis[s])
            /\ index' = IF conn[c].fresh THEN Touch(s) ELSE index
            /\ conn' = [conn EXCEPT ![c] = IF @.fresh THEN Begin(@, i, redis[s].log) ELSE Ready(@)]
            /\ UNCHANGED <<degraded, dropped>>
         \/ /\ Fault \/ (s \notin Stored /\ NoFault)
            /\ conn' = [conn EXCEPT ![c] = Ready(@)]
            /\ degraded' = degraded \cup {i}
            /\ dropped' = IF conn[c].fresh THEN dropped \cup {i} ELSE dropped
            /\ UNCHANGED <<memory, index>>
  BY DEF Load
<1>5. conn[c].msg = {i} /\ i \in Id
  BY <1>1, <1>3, <1>4 DEF Connection
<1>6. degraded \subseteq degraded' /\ dropped \subseteq dropped'
  BY <1>4
<1>7. Grown
  <2>1. CASE memory' = memory
    BY <1>2, <1>6, <2>1, Present DEF Grown
  <2>2. CASE s \in Stored /\ memory' = Upsert(memory, s, redis[s])
    BY <1>2, <1>6, <2>2, UpsertBelongs DEF Grown
  <2>3. QED
    BY <1>4, <2>1, <2>2
<1>8. \A d \in Conn \ {c} : conn'[d] = conn[d]
  BY <1>1, <1>4
<1>9. CASE conn'[c] = Ready(conn[c]) /\ (conn[c].fresh => i \in dropped')
  <2>1. ~Handling(c)'
    BY <1>1, <1>9, ReadyGood DEF Handling
  <2>2. QED
    BY <1>2, <1>3, <1>5, <1>7, <1>8, <1>9, <2>1, SameKept, IdleContinues, OthersContinue, CalmKeeps
<1>10. CASE conn[c].fresh /\ s \in Stored /\ conn'[c] = Begin(conn[c], i, redis[s].log)
  <2>1. /\ conn'[c].turn = "context" /\ ~conn'[c].fresh /\ conn'[c].sess = s /\ conn'[c].msg = {i}
        /\ conn'[c].past = Past(redis[s].log) /\ conn'[c].ctx = {}
    BY <1>1, <1>3, <1>5, <1>10, BeginGood
  <2>2. conn'[c].msg \cap conn'[c].past \subseteq crossed' \cup degraded'
    BY <1>2, <1>5, <1>6, <1>10, <2>1 DEF Inv, AskedLast
  <2>3. Continues(c)
    BY <1>3, <1>5, <1>10, <2>1, <2>2 DEF Continues, Handling
  <2>4. QED
    BY <1>2, <1>7, <1>8, <2>3, SameKept, OthersContinue, CalmKeeps
<1>11. QED
  BY <1>1, <1>4, <1>9, <1>10

LEMMA LoadContextKeeps ==
    ASSUME Inv, Shaped', NEW c \in Conn, LoadContext(c)
    PROVE  Inv'
<1> DEFINE s == conn[c].sess
<1>1. /\ conn \in [Conn -> Connection] /\ Good(conn[c]) /\ s \in Sess /\ conn[c] \in Connection
      /\ TurnsBelong /\ AskedOnce /\ ContextKeepsUp
  BY Present, ShapedParts DEF Shaped, TypeOK, Inv
<1>2. UNCHANGED <<redis, memory, asked, answered, dropped, crossed>> /\ degraded \subseteq degraded'
  BY DEF LoadContext, storeVars
<1>3. Grown
  BY <1>2, Present DEF Grown
<1>4. conn[c].turn = "context" /\ conn[c].msg # {} /\ Handling(c) /\ ~conn[c].fresh
  BY <1>1 DEF LoadContext, Good, Fits, Handling
<1>5. PICK x : /\ conn' = [conn EXCEPT ![c].turn = "run", ![c].ctx = x]
               /\ \/ degraded' = degraded /\ x = IF s \in Stored THEN redis[s].ctx ELSE {}
                  \/ degraded' = degraded \cup conn[c].msg /\ x = IF s \in DOMAIN memory THEN memory[s].ctx ELSE {}
  BY DEF LoadContext
<1>6. x \subseteq asked'[s]
  BY <1>2, <1>5, Present
<1>7. /\ \A d \in Conn \ {c} : conn'[d] = conn[d]
      /\ conn'[c].turn = "run" /\ conn'[c].ctx = x /\ conn'[c].sess = s /\ conn'[c].msg = conn[c].msg
      /\ conn'[c].past = conn[c].past /\ conn'[c].fresh = conn[c].fresh
  BY <1>1, <1>5 DEF Connection
<1>8. conn'[c].msg \cap conn'[c].past \subseteq crossed' \cup degraded'
  BY <1>1, <1>2, <1>4, <1>7 DEF AskedOnce
<1>9. degraded' = {} /\ s \in Stored => Replied(redis[s]) \subseteq x \cup crossed'
  BY <1>1, <1>2, <1>4, <1>5 DEF ContextKeepsUp
<1>10. Continues(c)
  BY <1>4, <1>6, <1>7, <1>8, <1>9 DEF Continues, Handling
<1>11. QED
  BY <1>2, <1>3, <1>7, <1>10, SameKept, OthersContinue, CalmKeeps

\* A turn that is over leaves the connection without a message.
LEMMA EndTurnContinues ==
    ASSUME Inv, NEW c \in Conn, conn[c].turn # "none", conn' = [conn EXCEPT ![c] = EndTurn(@)], Grown,
           conn[c].msg \subseteq answered' \cup dropped'
    PROVE  /\ \A d \in Conn : Continues(d)
           /\ ~Handling(c)' /\ \A d \in Conn \ {c} : conn'[d] = conn[d]
<1>1. conn \in [Conn -> Connection] /\ Good(conn[c])
  BY Present, ShapedParts DEF Shaped, TypeOK
<1>2. ~Handling(c)' /\ \A d \in Conn \ {c} : conn'[d] = conn[d]
  BY <1>1, EndTurnGood DEF Handling
<1>3. QED
  BY <1>2, IdleContinues, OthersContinue

LEMMA RunKeeps ==
    ASSUME Inv, Shaped', NEW c \in Conn, Run(c)
    PROVE  Inv'
<1>1. conn \in [Conn -> Connection] /\ conn[c] \in Connection
  BY Present, ShapedParts DEF Shaped, TypeOK
<1>2. UNCHANGED <<redis, memory, asked, answered, degraded, crossed>> /\ dropped \subseteq dropped' /\ conn[c].turn = "run"
  BY DEF Run, storeVars, TurnFails
<1>3. Grown
  BY <1>2, Present DEF Grown
<1>4. CASE conn' = [conn EXCEPT ![c].turn = "commit"]
  <2>1. /\ \A d \in Conn \ {c} : conn'[d] = conn[d]
        /\ conn'[c].turn = "commit" /\ conn'[c].ctx = conn[c].ctx /\ conn'[c].sess = conn[c].sess /\ conn'[c].msg = conn[c].msg
        /\ conn'[c].past = conn[c].past /\ conn'[c].fresh = conn[c].fresh
    BY <1>1, <1>4 DEF Connection
  <2>2. Continues(c)
    BY <1>2, <1>3, <2>1, SameContinues
  <2>3. QED
    BY <1>2, <1>3, <2>1, <2>2, SameKept, OthersContinue, CalmKeeps
<1>5. CASE TurnFails(c)
  BY <1>2, <1>3, <1>5, EndTurnContinues, SameKept, CalmKeeps DEF TurnFails
<1>6. QED
  BY <1>4, <1>5 DEF Run

LEMMA CommitKeeps ==
    ASSUME Inv, Shaped', NEW c \in Conn, Commit(c) \/ CommitFallback(c)
    PROVE  Inv'
<1> DEFINE s == conn[c].sess
<1>1. /\ conn \in [Conn -> Connection] /\ Good(conn[c]) /\ conn[c] \in Connection /\ s \in Sess
      /\ TurnsBelong /\ IsStore(memory)
  BY Present, ShapedParts DEF Shaped, TypeOK, Inv
<1>2. conn[c].turn = "commit" /\ ~conn[c].fresh /\ Handling(c) /\ asked' = asked /\ crossed' = crossed
      /\ \A i, j \in conn[c].msg : i = j
  BY <1>1 DEF Commit, CommitFallback, Handling, Good, Fits
<1>3. conn[c].msg \subseteq Id /\ conn[c].ctx \subseteq Id /\ conn[c].msg \cup conn[c].ctx \subseteq asked[s]
  BY <1>1, <1>2 DEF TurnsBelong, Connection
<1>4. CASE Commit(c)
  <2>1. PICK i \in conn[c].msg :
         \/ /\ s \in Stored
            /\ \/ NoFault /\ redis' = Answer(redis, s, i, conn[c].ctx \cup {i}) /\ UNCHANGED degraded
               \/ /\ Fault /\ degraded' = degraded \cup {i}
                  /\ redis' = Answer(Answer(redis, s, i, {}), s, i, conn[c].ctx \cup {i})
            /\ conn' = [conn EXCEPT ![c].turn = "stored"]
            /\ answered' = answered \cup {i} /\ UNCHANGED dropped
         \/ s \notin Stored /\ NoFault /\ TurnFails(c) /\ UNCHANGED <<redis, answered, degraded>>
    BY <1>4 DEF Commit
  <2>2. memory' = memory
    BY <1>4 DEF Commit
  <2>3. Grown
    BY <1>2, <2>1, <2>2, Present DEF Grown, TurnFails
  <2>4. CASE TurnFails(c) /\ redis' = redis
    BY <1>2, <2>3, <2>4, EndTurnContinues, SameKept, CalmKeeps DEF TurnFails
  <2>5. CASE /\ s \in Stored
             /\ \/ redis' = Answer(redis, s, i, conn[c].ctx \cup {i})
                \/ i \in degraded' /\ redis' = Answer(Answer(redis, s, i, {}), s, i, conn[c].ctx \cup {i})
             /\ conn' = [conn EXCEPT ![c].turn = "stored"]
             /\ answered' = answered \cup {i} /\ UNCHANGED dropped
    <3>1. /\ \A d \in Conn \ {c} : conn'[d] = conn[d]
          /\ conn'[c].turn = "stored" /\ conn'[c].ctx = conn[c].ctx /\ conn'[c].sess = s /\ conn'[c].msg = conn[c].msg
          /\ conn'[c].past = conn[c].past /\ ~conn'[c].fresh
      BY <1>1, <1>2, <2>5 DEF Connection
    <3>2. Answers(c, i)
      BY <1>2, <2>3, <2>5, <3>1 DEF Answers
    <3>3. QED
      BY <1>3, <3>2, AnswersKeeps
  <2>6. QED
    BY <2>1, <2>4, <2>5
<1>5. CASE CommitFallback(c)
  <2>1. PICK i \in conn[c].msg :
         /\ \/ UNCHANGED <<redis, answered>> /\ dropped' = dropped \cup {i}
            \/ /\ s \in Stored /\ redis' = Answer(redis, s, i, conn[c].ctx \cup {i})
               /\ answered' = answered \cup {i} /\ UNCHANGED dropped
         /\ memory' = IF s \in DOMAIN memory THEN Answer(memory, s, i, conn[c].ctx \cup {i}) ELSE memory
         /\ degraded' = degraded \cup {i}
    BY <1>5 DEF CommitFallback
  <2>2. conn' = [conn EXCEPT ![c] = EndTurn(@)] /\ conn[c].msg = {i} /\ i \in Id
    BY <1>2, <1>3, <1>5 DEF CommitFallback
  <2>3. \A t \in DOMAIN memory' : memory'[t].ctx \subseteq asked'[t]
    <3>1. CASE s \notin DOMAIN memory
      BY <1>2, <2>1, <3>1, Present
    <3>2. CASE s \in DOMAIN memory
      <4>1. ASSUME NEW x \in SUBSET Id
            PROVE  LET new == Answer(memory, s, i, x) IN
                   DOMAIN new = DOMAIN memory /\ new[s].ctx = x /\ \A t \in DOMAIN memory \ {s} : new[t] = memory[t]
        BY <1>1, <2>2, <3>2, AnswerEffect
      <4>2. conn[c].ctx \cup {i} \in SUBSET Id /\ conn[c].ctx \cup {i} \subseteq asked[s]
        BY <1>3, <2>2
      <4>3. /\ DOMAIN memory' = DOMAIN memory /\ memory'[s].ctx = conn[c].ctx \cup {i}
            /\ \A t \in DOMAIN memory \ {s} : memory'[t] = memory[t]
        BY <2>1, <3>2, <4>1, <4>2
      <4>4. QED
        BY <1>2, <4>2, <4>3, Present
    <3>3. QED
      BY <3>1, <3>2
  <2>4. Grown
    BY <1>2, <2>1, <2>3 DEF Grown
  <2>5. CASE redis' = redis /\ answered' = answered /\ dropped' = dropped \cup {i}
    BY <1>2, <2>2, <2>4, <2>5, EndTurnContinues, SameKept, CalmKeeps
  <2>6. CASE /\ s \in Stored /\ redis' = Answer(redis, s, i, conn[c].ctx \cup {i})
             /\ answered' = answered \cup {i} /\ UNCHANGED dropped
    <3>1. ~Handling(c)' /\ \A d \in Conn \ {c} : conn'[d] = conn[d]
      BY <1>2, <2>2, <2>4, <2>6, EndTurnContinues
    <3>2. Answers(c, i)
      BY <1>2, <2>2, <2>4, <2>6, <3>1 DEF Answers
    <3>3. QED
      BY <2>2, <3>2, AnswersKeeps
  <2>7. QED
    BY <2>1, <2>5, <2>6
<1>6. QED
  BY <1>4, <1>5

LEMMA FinishKeeps ==
    ASSUME Inv, Shaped', NEW c \in Conn, Finish(c)
    PROVE  Inv'
<1> DEFINE s == conn[c].sess
           x == conn[c].ctx \cup conn[c].msg
<1>1. Shaped /\ s \in Sess /\ TurnsBelong /\ SeenIsHandled
  BY Present DEF Inv
<1>2. conn[c].turn = "stored" /\ UNCHANGED historyVars /\ UNCHANGED redis /\ conn' = [conn EXCEPT ![c] = EndTurn(@)]
  BY DEF Finish
<1>3. x \subseteq asked[s] /\ x \in SUBSET Id
  BY <1>1, <1>2, ShapedParts DEF TurnsBelong, Handling
<1>4. conn[c].msg \subseteq answered'
  BY <1>1, <1>2 DEF SeenIsHandled, historyVars
<1>5. Grown
  <2>1. CASE memory' = memory
    BY <1>2, <2>1, SameGrown
  <2>2. CASE s \in Stored /\ memory' = [Upsert(memory, s, redis[s]) EXCEPT ![s].ctx = x]
    <3>1. IsStore(memory) /\ redis[s] \in Copy
      BY <1>1, <2>2, ShapedParts
    <3>2. memory' = Finished(memory, s, redis[s], x)
      BY <2>2 DEF Finished
    <3> HIDE DEF s, x
    <3>3. /\ DOMAIN memory' = DOMAIN memory \cup {s} /\ memory'[s].ctx = x
          /\ \A t \in DOMAIN memory \ {s} : memory'[t] = memory[t]
      <4>1. Alters(memory', memory, s) /\ memory'[s].ctx = x
        BY <1>1, <1>3, <3>1, <3>2, FinishMemory
      <4>2. QED
        BY <4>1 DEF Alters
    <3>4. \A t \in DOMAIN memory' : memory'[t].ctx \subseteq asked[t]
      BY <1>3, <3>3, Present
    <3>5. QED
      BY <1>2, <3>4 DEF Grown, historyVars
  <2>3. QED
    BY <2>1, <2>2 DEF Finish
<1>6. QED
  BY <1>2, <1>4, <1>5, EndTurnContinues, SameKept, CalmKeeps

LEMMA ListKeeps ==
    ASSUME Inv, Shaped', Activate \/ ListSessions
    PROVE  Inv'
<1>1. UNCHANGED <<redis, memory, conn>> /\ UNCHANGED historyVars
  BY DEF Activate, ListSessions
<1>2. QED
  BY <1>1, SameGrown, SameKept, AllContinue, CalmKeeps

LEMMA RestartKeeps ==
    ASSUME Inv, Shaped', Restart
    PROVE  Inv'
<1>1. UNCHANGED <<redis, asked, answered, degraded, crossed>> /\ DOMAIN memory' = {} /\ dropped \subseteq dropped'
  BY DEF Restart, NoSession
<1>2. Grown
  BY <1>1 DEF Grown
<1>3. ASSUME NEW c \in Conn PROVE Continues(c)
  <2>1. conn'[c] = NoConn
    BY DEF Restart
  <2>2. ~Handling(c)'
    BY <2>1, NoConnGood DEF Handling
  <2>3. Handling(c) => conn[c].msg \subseteq dropped'
    BY DEF Restart, Handling
  <2>4. QED
    BY <2>2, <2>3, IdleContinues
<1>4. QED
  BY <1>1, <1>2, <1>3, SameKept, CalmKeeps

LEMMA LapseKeeps ==
    ASSUME Inv, Shaped', NEW s \in Sess, Lapse(s)
    PROVE  Inv'
<1>1. UNCHANGED historyVars /\ UNCHANGED conn
  BY DEF Lapse
<1>2. /\ DOMAIN redis' = DOMAIN redis \ {s} /\ \A t \in DOMAIN redis \ {s} : redis'[t] = redis[t]
      /\ DOMAIN memory' = DOMAIN memory \ {s} /\ \A t \in DOMAIN memory \ {s} : memory'[t] = memory[t]
  <2>1. IsStore(redis) /\ IsStore(memory)
    BY Present, ShapedParts
  <2>2. QED
    BY <2>1, DropStore DEF Lapse
<1>3. Grown
  BY <1>1, <1>2, Present DEF Grown, historyVars
<1>4. Kept
  BY <1>2 DEF Kept, Stored
<1>5. QED
  BY <1>1, <1>3, <1>4, AllContinue, CalmKeeps

\* A key that lapses apart takes the whole session's ids into the record.
LEMMA LapsePartKeeps ==
    ASSUME Inv, Shaped', NEW s \in Sess, LapsePart(s)
    PROVE  Inv'
<1>1. /\ Shaped /\ ReplyWhereAsked /\ TurnsBelong /\ TurnsCross /\ ShownIsSeen /\ OneTurnEach /\ ShownOnce
      /\ AskedLast /\ AskedOnce /\ SeenIsHandled /\ TurnAbreast /\ ContextKeepsUp
  BY DEF Inv, Shaped
<1>2. /\ s \in Stored /\ redis[s].log # <<>> /\ degraded' = degraded \cup redis[s].ids
      /\ UNCHANGED <<memory, conn, asked, answered, dropped, crossed>>
      /\ redis' = [redis EXCEPT ![s].ids = {}] \/ redis' = [redis EXCEPT ![s].ctx = {}]
  BY DEF LapsePart
<1>3. /\ Stored' = Stored /\ \A t \in Stored \ {s} : redis'[t] = redis[t]
      /\ redis'[s].log = redis[s].log /\ redis'[s].ids \subseteq redis[s].ids /\ redis'[s].ctx \subseteq redis[s].ctx
  <2>1. ASSUME NEW new, new = [redis EXCEPT ![s].ids = {}] \/ new = [redis EXCEPT ![s].ctx = {}]
        PROVE  /\ DOMAIN new = Stored /\ \A t \in Stored \ {s} : new[t] = redis[t]
               /\ new[s].log = redis[s].log /\ new[s].ids \subseteq redis[s].ids /\ new[s].ctx \subseteq redis[s].ctx
    BY <1>1, <1>2, <2>1, LapseEffect
  <2>2. QED
    BY <1>2, <2>1 DEF Stored
<1>4. \A t \in Stored : /\ redis'[t].log = redis[t].log /\ redis'[t].ids \subseteq redis[t].ids /\ redis'[t].ctx \subseteq redis[t].ctx
                        /\ Asked(redis'[t]) = Asked(redis[t]) /\ Replied(redis'[t]) = Replied(redis[t])
  BY <1>3 DEF Asked, Replied
<1>5. degraded' # {}
  <2>1. redis[s] \in Copy
    BY <1>1, <1>2, ShapedParts
  <2>2. PICK k : k \in DOMAIN redis[s].log
    <3>1. redis[s].log \in Seq(Entry)
      BY <2>1 DEF Copy
    <3>2. Len(redis[s].log) # 0 /\ Len(redis[s].log) \in Nat
      BY <1>2, <3>1, EmptySeq
    <3>3. 1 \in DOMAIN redis[s].log
      BY <3>1, <3>2
    <3>4. QED
      BY <3>3
  <2>3. redis[s].log[k] \in Entry
    BY <2>1, <2>2 DEF Copy
  <2>4. PICK i \in Id : redis[s].log[k] = Question(i) \/ redis[s].log[k] = Reply(i)
    BY <2>3 DEF Entry, Question, Reply
  <2>5. i \in Asked(redis[s]) \cup Replied(redis[s])
    BY <2>2, <2>4 DEF Asked, Replied
  <2>6. QED
    BY <1>1, <1>2, <2>5 DEF ShownIsSeen
<1>6. \A c \in Conn : Handling(c)' <=> Handling(c)
  BY <1>2 DEF Handling
<1>7. degraded \subseteq degraded'
  BY <1>2
<1>8. ReplyWhereAsked'
  BY <1>1, <1>2, <1>3, <1>4 DEF ReplyWhereAsked
<1>9. TurnsBelong' /\ TurnsCross'
  BY <1>1, <1>2, <1>6 DEF TurnsBelong, TurnsCross
<1>10. ShownIsSeen'
  <2>1. ASSUME NEW t \in Stored, NEW i \in Id \ degraded', i \in Asked(redis'[t]) \cup Replied(redis'[t])
        PROVE  i \in redis'[t].ids
    <3>1. i \in redis[t].ids
      BY <1>1, <1>4, <1>7, <2>1 DEF ShownIsSeen
    <3>2. t # s
      BY <1>2, <2>1, <3>1
    <3>3. QED
      BY <1>3, <3>1, <3>2
  <2>2. QED
    BY <1>3, <2>1 DEF ShownIsSeen
<1>11. OneTurnEach'
  <2>1. SUFFICES ASSUME NEW c \in Conn, Handling(c)', conn'[c].sess \in Stored, NEW i \in conn'[c].msg \ degraded'
                 PROVE  /\ i \in redis'[conn'[c].sess].ids
                        /\ conn'[c].turn # "stored" => i \notin Replied(redis'[conn'[c].sess])
                        /\ \A d \in Conn \ {c} : Handling(d)' /\ conn'[d].sess = conn'[c].sess => i \notin conn'[d].msg
    BY <1>3 DEF OneTurnEach
  <2>2. conn'[c] = conn[c] /\ Handling(c) /\ i \in conn[c].msg \ degraded /\ conn[c].sess \in Stored
    BY <1>2, <1>6, <1>7, <2>1
  <2>3. /\ i \in redis[conn[c].sess].ids
        /\ conn[c].turn # "stored" => i \notin Replied(redis[conn[c].sess])
        /\ \A d \in Conn \ {c} : Handling(d) /\ conn[d].sess = conn[c].sess => i \notin conn[d].msg
    BY <1>1, <2>2 DEF OneTurnEach
  <2>4. conn[c].sess # s
    BY <1>2, <2>1, <2>3
  <2>5. redis'[conn[c].sess] = redis[conn[c].sess]
    BY <1>3, <2>2, <2>4
  <2>6. QED
    BY <1>2, <1>6, <2>2, <2>3, <2>5
<1>12. ShownOnce' /\ AskedLast'
  BY <1>1, <1>2, <1>3, <1>4, <1>7 DEF ShownOnce, AskedLast
<1>13. AskedOnce'
  BY <1>1, <1>2, <1>7 DEF AskedOnce
<1>14. SeenIsHandled'
  BY <1>1, <1>2, <1>3, <1>4, <1>6 DEF SeenIsHandled
<1>15. TurnAbreast' /\ ContextKeepsUp'
  BY <1>5 DEF TurnAbreast, ContextKeepsUp
<1>16. QED
  BY <1>8, <1>9, <1>10, <1>11, <1>12, <1>13, <1>14, <1>15 DEF Inv, Shaped

LEMMA InvStep ==
    ASSUME Inv, [Next]_vars
    PROVE  Inv'
<1>1. Shaped'
  BY ShapedStep DEF Inv, Shaped
<1>2. CASE UNCHANGED vars
  <2>1. UNCHANGED historyVars /\ UNCHANGED <<redis, memory, conn>>
    BY <1>2 DEF vars, historyVars
  <2>2. QED
    BY <1>1, <2>1, SameGrown, SameKept, AllContinue, CalmKeeps
<1>3. ASSUME NEW c \in Conn, Message(c) PROVE Inv'
  BY <1>1, <1>3, SendKeeps, SendFallbackKeeps DEF Message
<1>4. ASSUME NEW c \in Conn, Turn(c) PROVE Inv'
  BY <1>1, <1>4, LoadContextKeeps, RunKeeps, CommitKeeps, FinishKeeps DEF Turn
<1>5. QED
  BY <1>1, <1>2, <1>3, <1>4, SessionKeeps, LoadKeeps, ListKeeps, RestartKeeps, LapseKeeps, LapsePartKeeps DEF Next

LEMMA InvInit == ASSUME Init PROVE Inv
<1>1. TypeOK
  BY NoConnGood DEF Init, TypeOK, IsStore, NoSession, Listed, Good
<1>2. ConnShape /\ \A c \in Conn : conn[c] = NoConn /\ ~Handling(c) /\ conn[c].turn = "none" /\ ~conn[c].fresh
  BY NoConnGood DEF Init, ConnShape, Good, Handling
<1>3. Stored = {} /\ DOMAIN memory = {}
  BY DEF Init, NoSession, Stored
<1>4. QED
  BY <1>1, <1>2, <1>3 DEF Inv, ReplyWhereAsked, TurnsBelong, TurnsCross, ShownIsSeen, OneTurnEach, ShownOnce,
     AskedLast, AskedOnce, SeenIsHandled, TurnAbreast, ContextKeepsUp

LEMMA InvMessage == ASSUME Inv PROVE MessageOnce
<1>1. TypeOK /\ AskedOnce /\ ShownOnce /\ SeenIsHandled
  BY DEF Inv
<1>2. AnsweredOnce
  <2>1. ASSUME NEW s \in Stored, NEW i \in Id \ degraded
        PROVE  Count(redis[s].log, Question(i)) =< 1 /\ Count(redis[s].log, Reply(i)) =< 1
    <3>1. redis[s].log \in Seq(Entry)
      BY Present, ShapedParts DEF Copy
    <3>2. Once(redis[s].log, Question(i)) /\ Once(redis[s].log, Reply(i))
      BY <1>1 DEF ShownOnce
    <3>3. QED
      BY <3>1, <3>2, CountedOnce
  <2>2. QED
    BY <2>1 DEF AnsweredOnce
<1>3. AcceptedAccounted
  <2>1. \A c \in Conn : Handling(c) => Busy(c)
    BY Present DEF Handling, Busy, Good, Fits
  <2>2. QED
    BY <1>1, <2>1 DEF SeenIsHandled, AcceptedAccounted
<1>4. QED
  BY <1>1, <1>2, <1>3 DEF MessageOnce

-----------------------------------------------------------------------------
(* Theorems                                                                  *)

\* The stores, the connections and their turns, copilot_chat.go:311-720: the
\* inductive invariant holds in every state.
THEOREM Invariance == Spec => []Inv
<1>1. Inv /\ [Next]_vars => Inv'
  BY InvStep
<1>2. QED
  BY InvInit, <1>1, PTL DEF Spec

\* redis_store.go:240 and :697, AppendMessageOnce and CommitAssistantTurn: a
\* message is on show once, with one reply at most, is not in the past its turn
\* is given, and is answered, under way or dropped in a recorded way.
THEOREM MessagesAreOnce == Spec => []MessageOnce
<1>1. Inv => MessageOnce
  BY InvMessage
<1>2. QED
  BY Invariance, <1>1, PTL

\* copilot_chat.go:668-697: a reply lands in the conversation its question was
\* asked in, and so does the context it leaves.
THEOREM RepliesStay == Spec => []ReplyWhereAsked
<1>1. Inv => ReplyWhereAsked
  BY DEF Inv
<1>2. QED
  BY Invariance, <1>1, PTL

\* copilot_chat.go:697: the context a turn leaves knows every reply on show but
\* those of turns that crossed it, as long as no call failed and no key lapsed.
THEOREM ContextsKeepUp == Spec => []ContextKeepsUp
<1>1. Inv => ContextKeepsUp
  BY DEF Inv
<1>2. QED
  BY Invariance, <1>1, PTL
=============================================================================
