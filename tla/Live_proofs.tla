----------------------------- MODULE Live_proofs ----------------------------
(* Proofs about UpdatesHub and VoiceTurn, the streams to a client.  The hub: *)
(* no channel is written to once it is closed, and a connection hears the    *)
(* updates without a gap, for any number of connections and updates and any  *)
(* size of the channels.  The voice of a turn: the same of the reader's      *)
(* channel and of the chunks of speech, for any number of chunks.            *)
EXTENDS MCLive, Integers, SequenceTheorems, TLAPS

Types ==
    /\ hub \in [pc : {"select", "sending"}, msg : Nat, left : SUBSET Client]
    /\ clients \in SUBSET Client
    /\ broadcast \in Seq(Nat) /\ Len(broadcast) <= Capacity
    /\ post \in {"idle", "sending"} /\ posts \in Nat /\ posts <= MaxPosts
    /\ conn \in [Client -> {"none", "open", "dead", "closed"}]
    /\ send \in [Client -> [queue : Seq(Nat), closed : BOOLEAN]]
    /\ pump \in [Client -> [reader : {"none", "registering", "reading", "leaving", "left", "done"},
                            writer : {"none", "waiting", "done"}]]
    /\ got \in [Client -> Seq(Nat)] /\ from \in [Client -> Nat]
    /\ \A c \in Client : Len(send[c].queue) <= Room

\* A connection that the hub has not yet taken has an open channel with
\* nothing in it; one the hub knows has an open channel and a writer.
Fresh(c, known, r, w, q, closed, g) == r \in {"none", "registering"} => c \notin known /\ w = "none" /\ ~closed /\ q = <<>> /\ g = <<>>
Lives ==
    /\ \A c \in Client : /\ conn[c] = "none" => pump[c].reader = "none"
                         /\ Fresh(c, clients, pump[c].reader, pump[c].writer, send[c].queue, send[c].closed, got[c])
    /\ \A c \in clients : ~send[c].closed /\ pump[c].writer # "none"
    /\ hub.pc = "sending" => hub.left \subseteq clients

\* What waits in the hub's channel are the updates after those taken.
InOrder ==
    /\ Taken >= 0 /\ \A i \in 1 .. Len(broadcast) : broadcast[i] = Taken + i
    /\ hub.pc = "sending" => hub.msg = Taken

\* The updates taken that c has had its turn for.
Given(c) == IF hub.pc = "sending" /\ c \in hub.left THEN Taken - 1 ELSE Taken

\* What c has heard and what waits for it: as long as it is written to, without
\* a gap between the two, and as long as it is known, up to what was given.
Fits(c, known, g, f, q, w, n) ==
    /\ \A i \in 1 .. Len(g) : g[i] = f + i
    /\ \A i \in 1 .. Len(q) : i < Len(q) => q[i + 1] = q[i] + 1
    /\ w = "waiting" => \A i \in 1 .. Len(q) : q[i] = f + Len(g) + i
    /\ c \in known => \A i \in 1 .. Len(q) : q[i] = n - Len(q) + i
    /\ c \in known /\ w = "waiting" => f + Len(g) + Len(q) = n
StreamsFit == \A c \in Client : Fits(c, clients, got[c], from[c], send[c].queue, pump[c].writer, Given(c))

Inv == Types /\ Lives /\ InOrder /\ StreamsFit

-----------------------------------------------------------------------------
(* Queues                                                                  *)

\* What Append and Tail do, element by element.
LEMMA Appended ==
    ASSUME NEW q \in Seq(Nat), NEW e \in Nat
    PROVE  /\ Append(q, e) \in Seq(Nat) /\ Len(Append(q, e)) = Len(q) + 1
           /\ \A i \in 1 .. Len(q) + 1 : Append(q, e)[i] = IF i = Len(q) + 1 THEN e ELSE q[i]
OBVIOUS

LEMMA Shifted ==
    ASSUME NEW q \in Seq(Nat), q # <<>>
    PROVE  /\ Tail(q) \in Seq(Nat) /\ Len(Tail(q)) = Len(q) - 1 /\ Len(q) \in Nat \ {0}
           /\ Head(q) = q[1] /\ Head(q) \in Nat
           /\ \A i \in 1 .. Len(q) - 1 : Tail(q)[i] = q[i + 1]
OBVIOUS

\* One more update for a client that is known.
LEMMA FitsAppend ==
    ASSUME NEW c, NEW known, NEW g \in Seq(Nat), NEW f \in Nat, NEW q \in Seq(Nat), NEW w, NEW n \in Int,
           NEW e \in Nat, Fits(c, known, g, f, q, w, n), c \in known, e = n + 1
    PROVE  Fits(c, known, g, f, Append(q, e), w, e)
<1> DEFINE p == Append(q, e)
<1>1. p \in Seq(Nat) /\ Len(p) = Len(q) + 1 /\ \A i \in 1 .. Len(q) + 1 : p[i] = IF i = Len(q) + 1 THEN e ELSE q[i]
  BY Appended
<1>2. Len(q) \in Nat /\ Len(g) \in Nat /\ \A i \in 1 .. Len(q) : q[i] \in Nat
  OBVIOUS
<1> HIDE DEF p
<1>3. \A i \in 1 .. Len(p) : p[i] = e - Len(p) + i
  <2> TAKE i \in 1 .. Len(p)
  <2>1. CASE i = Len(q) + 1
    BY <1>1, <1>2, <2>1
  <2>2. CASE i \in 1 .. Len(q)
    <3>1. q[i] = n - Len(q) + i
      BY <2>2 DEF Fits
    <3>2. p[i] = q[i]
      BY <1>1, <1>2, <2>2
    <3>3. QED
      BY <1>1, <1>2, <2>2, <3>1, <3>2
  <2>3. QED
    BY <1>1, <1>2, <2>1, <2>2
<1>4. \A i \in 1 .. Len(p) : i < Len(p) => p[i + 1] = p[i] + 1
  <2> TAKE i \in 1 .. Len(p)
  <2> HAVE i < Len(p)
  <2>1. i + 1 \in 1 .. Len(p) /\ Len(p) \in Nat
    BY <1>1, <1>2
  <2>2. p[i + 1] = e - Len(p) + (i + 1) /\ p[i] = e - Len(p) + i
    BY <1>3, <2>1
  <2>3. QED
    BY <2>1, <2>2
<1>5. w = "waiting" => f + Len(g) + Len(p) = e
  <2> SUFFICES ASSUME w = "waiting" PROVE f + Len(g) + Len(p) = e
    OBVIOUS
  <2>1. f + Len(g) + Len(q) = n
    BY DEF Fits
  <2>2. Len(p) = Len(q) + 1 /\ Len(q) \in Nat /\ Len(g) \in Nat
    BY <1>1, <1>2
  <2> DEFINE a == Len(g)
             b == Len(q)
             d == Len(p)
  <2>3. a \in Nat /\ b \in Nat /\ f + a + b = n /\ d = b + 1
    BY <2>1, <2>2
  <2> HIDE DEF a, b, d
  <2>4. f + a + d = e
    BY <2>3
  <2>5. QED
    BY <2>4 DEF a, d
<1>6. w = "waiting" => \A i \in 1 .. Len(p) : p[i] = f + Len(g) + i
  <2> SUFFICES ASSUME w = "waiting", NEW i \in 1 .. Len(p) PROVE p[i] = f + Len(g) + i
    OBVIOUS
  <2>1. p[i] = e - Len(p) + i
    BY <1>3
  <2>2. f + Len(g) + Len(p) = e /\ Len(p) \in Nat /\ Len(g) \in Nat /\ i \in Nat
    BY <1>1, <1>2, <1>5
  <2>3. e - Len(p) + i = f + Len(g) + i
    <3> DEFINE a == Len(g)
               b == Len(p)
    <3>1. a \in Nat /\ b \in Nat /\ f + a + b = e
      BY <2>2
    <3> HIDE DEF a, b
    <3>2. e - b + i = f + a + i
      BY <2>2, <3>1
    <3>3. QED
      BY <3>2 DEF a, b
  <2>4. QED
    BY <2>1, <2>3
<1>7. Fits(c, known, g, f, p, w, e)
  BY <1>3, <1>4, <1>5, <1>6 DEF Fits
<1>8. QED
  BY <1>7 DEF p

\* The first of the queue is written.
LEMMA FitsWrite ==
    ASSUME NEW c, NEW known, NEW g \in Seq(Nat), NEW f \in Nat, NEW q \in Seq(Nat), NEW n \in Int,
           Fits(c, known, g, f, q, "waiting", n), q # <<>>
    PROVE  Fits(c, known, Append(g, Head(q)), f, Tail(q), "waiting", n)
<1> DEFINE p == Tail(q)
           h == Append(g, Head(q))
<1>1. /\ p \in Seq(Nat) /\ Len(p) = Len(q) - 1 /\ Len(q) \in Nat \ {0} /\ Head(q) = q[1] /\ Head(q) \in Nat
      /\ \A i \in 1 .. Len(q) - 1 : p[i] = q[i + 1]
  BY Shifted
<1>2. h \in Seq(Nat) /\ Len(h) = Len(g) + 1 /\ \A i \in 1 .. Len(g) + 1 : h[i] = IF i = Len(g) + 1 THEN q[1] ELSE g[i]
  BY <1>1, Appended
<1>3. Len(g) \in Nat /\ Len(p) \in Nat
  BY <1>1
<1> HIDE DEF p, h
<1>4. q[1] = f + Len(g) + 1 /\ \A i \in 1 .. Len(q) : q[i] = f + Len(g) + i
  BY <1>1 DEF Fits
<1>5. \A i \in 1 .. Len(h) : h[i] = f + i
  <2> TAKE i \in 1 .. Len(h)
  <2>1. CASE i = Len(g) + 1
    BY <1>2, <1>3, <1>4, <2>1
  <2>2. CASE i \in 1 .. Len(g)
    <3>1. g[i] = f + i
      BY <2>2 DEF Fits
    <3>2. h[i] = g[i]
      BY <1>2, <1>3, <2>2
    <3>3. QED
      BY <3>1, <3>2
  <2>3. QED
    BY <1>2, <1>3, <2>1, <2>2
<1>6. \A i \in 1 .. Len(p) : p[i] = f + Len(h) + i
  <2> TAKE i \in 1 .. Len(p)
  <2>1. i + 1 \in 1 .. Len(q) /\ i \in 1 .. Len(q) - 1
    BY <1>1, <1>3
  <2>2. q[i + 1] = f + Len(g) + (i + 1) /\ p[i] = q[i + 1]
    BY <1>1, <1>4, <2>1
  <2>3. QED
    BY <1>2, <1>3, <2>1, <2>2
<1>7. \A i \in 1 .. Len(p) : i < Len(p) => p[i + 1] = p[i] + 1
  <2> TAKE i \in 1 .. Len(p)
  <2> HAVE i < Len(p)
  <2>1. i + 1 \in 1 .. Len(p)
    BY <1>3
  <2>2. p[i + 1] = f + Len(h) + (i + 1) /\ p[i] = f + Len(h) + i
    BY <1>6, <2>1
  <2>3. QED
    BY <1>2, <1>3, <2>1, <2>2
<1>8. c \in known => f + Len(h) + Len(p) = n
  <2> SUFFICES ASSUME c \in known PROVE f + Len(h) + Len(p) = n
    OBVIOUS
  <2>1. f + Len(g) + Len(q) = n
    BY DEF Fits
  <2>2. Len(p) = Len(q) - 1 /\ Len(h) = Len(g) + 1 /\ Len(q) \in Nat /\ Len(g) \in Nat
    BY <1>1, <1>2, <1>3
  <2>3. f + (Len(g) + 1) + (Len(q) - 1) = n
    <3> DEFINE a == Len(g)
               b == Len(q)
    <3>1. a \in Nat /\ b \in Nat /\ f + a + b = n
      BY <2>1, <2>2
    <3> HIDE DEF a, b
    <3>2. f + (a + 1) + (b - 1) = n
      BY <3>1
    <3>3. QED
      BY <3>2 DEF a, b
  <2>4. QED
    BY <2>2, <2>3
<1>9. c \in known => \A i \in 1 .. Len(p) : p[i] = n - Len(p) + i
  <2> SUFFICES ASSUME c \in known, NEW i \in 1 .. Len(p) PROVE p[i] = n - Len(p) + i
    OBVIOUS
  <2>1. p[i] = f + Len(h) + i
    BY <1>6
  <2>2. f + Len(h) + Len(p) = n /\ Len(h) \in Nat /\ Len(p) \in Nat /\ i \in Nat
    BY <1>2, <1>3, <1>8
  <2>3. n - Len(p) + i = f + Len(h) + i
    <3> DEFINE a == Len(h)
               b == Len(p)
    <3>1. a \in Nat /\ b \in Nat /\ f + a + b = n
      BY <2>2
    <3> HIDE DEF a, b
    <3>2. n - b + i = f + a + i
      BY <2>2, <3>1
    <3>3. QED
      BY <3>2 DEF a, b
  <2>4. QED
    BY <2>1, <2>3
<1>10. Fits(c, known, h, f, p, "waiting", n)
  BY <1>5, <1>6, <1>7, <1>8, <1>9 DEF Fits
<1>11. QED
  BY <1>10 DEF p, h

\* The first of the queue is lost with the connection, and its writer ends.
LEMMA FitsLose ==
    ASSUME NEW c, NEW known, NEW g \in Seq(Nat), NEW f \in Nat, NEW q \in Seq(Nat), NEW w, NEW n \in Int,
           Fits(c, known, g, f, q, w, n), q # <<>>
    PROVE  Fits(c, known, g, f, Tail(q), "done", n)
<1> DEFINE p == Tail(q)
<1>1. /\ p \in Seq(Nat) /\ Len(p) = Len(q) - 1 /\ Len(q) \in Nat \ {0}
      /\ \A i \in 1 .. Len(q) - 1 : p[i] = q[i + 1]
  BY Shifted
<1>2. Len(p) \in Nat
  BY <1>1
<1> HIDE DEF p
<1>3. \A i \in 1 .. Len(p) : i < Len(p) => p[i + 1] = p[i] + 1
  <2> TAKE i \in 1 .. Len(p)
  <2> HAVE i < Len(p)
  <2>1. i + 1 \in 1 .. Len(q) /\ i + 1 < Len(q) /\ i + 1 \in 1 .. Len(q) - 1 /\ i \in 1 .. Len(q) - 1
    <3> DEFINE a == Len(q)
               b == Len(p)
    <3>1. a \in Nat /\ b = a - 1 /\ i \in Nat /\ 1 <= i /\ i < b
      BY <1>1, <1>2
    <3> HIDE DEF a, b
    <3>2. i + 1 \in 1 .. a /\ i + 1 < a /\ i + 1 \in 1 .. a - 1 /\ i \in 1 .. a - 1
      BY <3>1
    <3>3. QED
      BY <3>2 DEF a
  <2>2. q[(i + 1) + 1] = q[i + 1] + 1
    BY <2>1 DEF Fits
  <2>3. p[i + 1] = q[(i + 1) + 1] /\ p[i] = q[i + 1]
    BY <1>1, <2>1
  <2>4. QED
    BY <2>2, <2>3
<1>4. c \in known => \A i \in 1 .. Len(p) : p[i] = n - Len(p) + i
  <2> SUFFICES ASSUME c \in known, NEW i \in 1 .. Len(p) PROVE p[i] = n - Len(p) + i
    OBVIOUS
  <2>1. i + 1 \in 1 .. Len(q) /\ i \in 1 .. Len(q) - 1
    BY <1>1, <1>2
  <2>2. q[i + 1] = n - Len(q) + (i + 1) /\ p[i] = q[i + 1]
    BY <1>1, <2>1 DEF Fits
  <2>3. n - Len(q) + (i + 1) = n - Len(p) + i
    <3> DEFINE a == Len(q)
               b == Len(p)
    <3>1. a \in Nat /\ b = a - 1 /\ i \in Nat
      BY <1>1, <1>2
    <3> HIDE DEF a, b
    <3>2. n - a + (i + 1) = n - b + i
      BY <3>1
    <3>3. QED
      BY <3>2 DEF a, b
  <2>4. QED
    BY <2>2, <2>3
<1>5. Fits(c, known, g, f, p, "done", n)
  BY <1>3, <1>4 DEF Fits
<1>6. QED
  BY <1>5 DEF p

\* A client that is forgotten, or whose writer ends, is asked for less.
LEMMA FitsLess ==
    ASSUME NEW c, NEW known, NEW g, NEW f, NEW q, NEW w, NEW n, Fits(c, known, g, f, q, w, n),
           NEW fewer \in SUBSET known, NEW v \in {w, "done"}, NEW m, c \in fewer => m = n
    PROVE  Fits(c, fewer, g, f, q, v, m)
BY DEF Fits

-----------------------------------------------------------------------------
(* Steps                                                                   *)

LEMMA InitInv == Init => Inv
<1> SUFFICES ASSUME Init PROVE Inv
  OBVIOUS
<1>1. <<>> \in Seq(Nat) /\ Len(<<>>) = 0 /\ \A i : i \notin 1 .. 0
  OBVIOUS
<1>2. Types
  BY HubAssumption, <1>1 DEF Init, Types, Selecting
<1>3. Taken = 0
  <2>1. posts = 0 /\ Len(broadcast) = 0 /\ post # "sending"
    BY <1>1 DEF Init
  <2>2. Taken = 0 - 0 - 0
    BY <2>1, Zenon DEF Taken
  <2>3. QED
    BY <2>2
<1>4. Lives /\ InOrder
  BY <1>1, <1>3 DEF Init, Lives, Fresh, InOrder, Selecting
<1>5. StreamsFit
  BY <1>1 DEF Init, StreamsFit, Fits
<1>6. QED
  BY <1>2, <1>4, <1>5 DEF Inv

\* What was taken is a number, and so is what a client was given.
LEMMA TakenType == ASSUME Inv PROVE Taken \in Nat /\ \A c \in Client : Given(c) \in Int
<1>1. Taken \in Int /\ Taken >= 0
  BY DEF Inv, Types, InOrder, Taken
<1>2. QED
  BY <1>1 DEF Given

\* A step of one connection: the hub's queue and round stay as they are, and
\* so do the other connections.
LEMMA ClientStep ==
    ASSUME Inv, NEW c \in Client, Types', UNCHANGED <<hub, broadcast, post, posts>>,
           clients' \ {c} = clients \ {c}, hub.pc = "sending" => clients' = clients,
           \A d \in Client \ {c} : /\ conn'[d] = conn[d] /\ pump'[d] = pump[d] /\ send'[d] = send[d]
                                   /\ got'[d] = got[d] /\ from'[d] = from[d],
           conn'[c] = "none" => pump'[c].reader = "none",
           Fresh(c, clients', pump'[c].reader, pump'[c].writer, send'[c].queue, send'[c].closed, got'[c]),
           c \in clients' => ~send'[c].closed /\ pump'[c].writer # "none",
           Fits(c, clients', got'[c], from'[c], send'[c].queue, pump'[c].writer, Given(c))
    PROVE  Inv'
<1>1. Taken' = Taken
  BY DEF Taken
<1>2. \A d \in Client : Given(d)' = Given(d)
  BY <1>1 DEF Given
<1>3. \A d \in Client \ {c} : d \in clients' <=> d \in clients
  OBVIOUS
<1>4. Lives'
  <2>1. \A d \in Client : /\ conn'[d] = "none" => pump'[d].reader = "none"
                          /\ Fresh(d, clients', pump'[d].reader, pump'[d].writer, send'[d].queue, send'[d].closed, got'[d])
    <3> SUFFICES ASSUME NEW d \in Client \ {c}
                 PROVE  /\ conn'[d] = "none" => pump'[d].reader = "none"
                        /\ Fresh(d, clients', pump'[d].reader, pump'[d].writer, send'[d].queue, send'[d].closed, got'[d])
      OBVIOUS
    <3>1. /\ conn[d] = "none" => pump[d].reader = "none"
          /\ Fresh(d, clients, pump[d].reader, pump[d].writer, send[d].queue, send[d].closed, got[d])
      BY DEF Inv, Lives
    <3>2. QED
      BY <1>3, <3>1 DEF Fresh
  <2>2. \A d \in clients' : ~send'[d].closed /\ pump'[d].writer # "none"
    <3> SUFFICES ASSUME NEW d \in clients', d # c PROVE ~send'[d].closed /\ pump'[d].writer # "none"
      OBVIOUS
    <3>1. d \in Client \ {c} /\ d \in clients
      BY DEF Types
    <3>2. ~send[d].closed /\ pump[d].writer # "none"
      BY <3>1 DEF Inv, Lives
    <3>3. QED
      BY <3>1, <3>2
  <2>3. hub'.pc = "sending" => hub'.left \subseteq clients'
    BY DEF Inv, Lives
  <2>4. QED
    BY <2>1, <2>2, <2>3 DEF Lives
<1>5. InOrder'
  BY <1>1 DEF Inv, InOrder
<1>6. \A d \in Client : Fits(d, clients', got'[d], from'[d], send'[d].queue, pump'[d].writer, Given(d)')
  <2> SUFFICES ASSUME NEW d \in Client PROVE Fits(d, clients', got'[d], from'[d], send'[d].queue, pump'[d].writer, Given(d)')
    OBVIOUS
  <2>1. CASE d = c
    BY <1>2, <2>1
  <2>2. CASE d # c
    <3>1. Fits(d, clients, got[d], from[d], send[d].queue, pump[d].writer, Given(d))
      BY DEF Inv, StreamsFit
    <3>2. Given(d)' = Given(d) /\ got'[d] = got[d] /\ from'[d] = from[d] /\ send'[d] = send[d] /\ pump'[d] = pump[d]
          /\ (d \in clients' <=> d \in clients)
      BY <1>2, <1>3, <2>2
    <3>3. QED
      BY <3>1, <3>2 DEF Fits
  <2>3. QED
    BY <2>1, <2>2
<1>7. StreamsFit'
  BY <1>6 DEF StreamsFit
<1>8. QED
  BY <1>4, <1>5, <1>7 DEF Inv

\* A step that moves a connection or its pumps along, and no update.
LEMMA PumpStep ==
    ASSUME Inv, NEW c \in Client, Types', UNCHANGED <<hub, clients, broadcast, post, posts, send, got, from>>,
           \A d \in Client \ {c} : conn'[d] = conn[d] /\ pump'[d] = pump[d],
           pump'[c].writer \in {pump[c].writer, "done"}, pump[c].writer = "none" => pump'[c].writer = "none",
           conn'[c] # "none",
           pump'[c].reader \in {"none", "registering"} => pump[c].reader \in {"none", "registering"}
    PROVE  Inv'
<1>1. Fits(c, clients, got[c], from[c], send[c].queue, pump[c].writer, Given(c))
  BY DEF Inv, StreamsFit
<1>2. Fits(c, clients', got'[c], from'[c], send'[c].queue, pump'[c].writer, Given(c))
  <2>1. Fits(c, clients, got[c], from[c], send[c].queue, pump'[c].writer, Given(c))
    BY <1>1 DEF Fits
  <2>2. got' = got /\ from' = from /\ send' = send /\ clients' = clients
    OBVIOUS
  <2>3. QED
    BY <2>1, <2>2
<1>3. Fresh(c, clients', pump'[c].reader, pump'[c].writer, send'[c].queue, send'[c].closed, got'[c])
  <2>1. Fresh(c, clients, pump[c].reader, pump[c].writer, send[c].queue, send[c].closed, got[c])
    BY DEF Inv, Lives
  <2>2. send' = send /\ got' = got /\ clients' = clients
    OBVIOUS
  <2>3. QED
    BY <2>1, <2>2 DEF Fresh
<1>4. c \in clients' => ~send'[c].closed /\ pump'[c].writer # "none"
  BY DEF Inv, Lives
<1>5. QED
  BY <1>2, <1>3, <1>4, ClientStep

\* The peer, the pumps and the handler, one connection at a time.
LEMMA UpgradeStep == ASSUME Inv, NEW c \in Client, Upgrade(c) PROVE Inv'
<1>1. UNCHANGED <<hub, clients, broadcast, post, posts, send, got, from>>
  BY DEF Upgrade
<1>2. /\ conn' = [conn EXCEPT ![c] = "open"] /\ pump' = [pump EXCEPT ![c].reader = "registering"]
      /\ pump[c].reader = "none"
  BY DEF Upgrade, Inv, Lives
<1>3. Types'
  BY <1>1, <1>2 DEF Inv, Types
<1>4. conn'[c] = "open" /\ pump'[c].reader = "registering" /\ pump'[c].writer = pump[c].writer
      /\ \A d \in Client \ {c} : conn'[d] = conn[d] /\ pump'[d] = pump[d]
  BY <1>2 DEF Inv, Types
<1>5. QED
  BY <1>1, <1>2, <1>3, <1>4, PumpStep

LEMMA PeerStep == ASSUME Inv, NEW c \in Client, PeerDies(c) PROVE Inv'
<1>1. UNCHANGED <<hub, clients, broadcast, post, posts, send, pump, got, from>> /\ conn' = [conn EXCEPT ![c] = "dead"]
  BY DEF PeerDies
<1>2. Types' /\ conn'[c] = "dead" /\ \A d \in Client \ {c} : conn'[d] = conn[d]
  BY <1>1 DEF Inv, Types
<1>3. QED
  BY <1>1, <1>2, PumpStep

LEMMA ReadFailsStep == ASSUME Inv, NEW c \in Client, ReadFails(c) PROVE Inv'
<1>1. UNCHANGED <<hub, clients, broadcast, post, posts, conn, send, got, from>>
      /\ pump' = [pump EXCEPT ![c].reader = "leaving"] /\ conn[c] # "none"
  BY DEF ReadFails, Inv, Lives
<1>2. Types' /\ pump'[c].reader = "leaving" /\ pump'[c].writer = pump[c].writer /\ \A d \in Client \ {c} : pump'[d] = pump[d]
  BY <1>1 DEF Inv, Types
<1>3. QED
  BY <1>1, <1>2, PumpStep

LEMMA ReaderClosesStep == ASSUME Inv, NEW c \in Client, ReaderCloses(c) PROVE Inv'
<1>1. UNCHANGED <<hub, clients, broadcast, post, posts, send, got, from>>
      /\ pump' = [pump EXCEPT ![c].reader = "done"] /\ conn' = [conn EXCEPT ![c] = "closed"]
  BY DEF ReaderCloses
<1>2. Types' /\ pump'[c].reader = "done" /\ pump'[c].writer = pump[c].writer /\ conn'[c] = "closed"
      /\ \A d \in Client \ {c} : conn'[d] = conn[d] /\ pump'[d] = pump[d]
  BY <1>1 DEF Inv, Types
<1>3. QED
  BY <1>1, <1>2, PumpStep

LEMMA WriterEndsStep == ASSUME Inv, NEW c \in Client, WriterEnds(c) PROVE Inv'
<1>1. UNCHANGED <<hub, clients, broadcast, post, posts, send, got, from>> /\ pump[c].writer = "waiting"
      /\ pump' = [pump EXCEPT ![c].writer = "done"] /\ conn' = [conn EXCEPT ![c] = "closed"]
  BY DEF WriterEnds
<1>2. Types' /\ pump'[c].reader = pump[c].reader /\ pump'[c].writer = "done" /\ conn'[c] = "closed"
      /\ \A d \in Client \ {c} : conn'[d] = conn[d] /\ pump'[d] = pump[d]
  BY <1>1 DEF Inv, Types
<1>3. QED
  BY <1>1, <1>2, PumpStep

\* The writer takes the first of its queue: it is heard, or lost with the
\* connection.
LEMMA WriteStep == ASSUME Inv, NEW c \in Client, Write(c) PROVE Inv'
<1>1. /\ pump[c].writer = "waiting" /\ send[c].queue # <<>> /\ UNCHANGED <<hub, clients, broadcast, post, posts, from>>
      /\ send' = [send EXCEPT ![c].queue = Tail(send[c].queue)]
  BY DEF Write
<1>2. send[c].queue \in Seq(Nat) /\ got[c] \in Seq(Nat) /\ from[c] \in Nat /\ Given(c) \in Int
  BY TakenType DEF Inv, Types
<1>3. Fits(c, clients, got[c], from[c], send[c].queue, pump[c].writer, Given(c))
  BY DEF Inv, StreamsFit
<1>4. /\ Tail(send[c].queue) \in Seq(Nat) /\ Len(Tail(send[c].queue)) = Len(send[c].queue) - 1
      /\ Head(send[c].queue) \in Nat
  BY <1>1, <1>2, Shifted
<1>5. send'[c].queue = Tail(send[c].queue) /\ send'[c].closed = send[c].closed /\ \A d \in Client \ {c} : send'[d] = send[d]
  BY <1>1 DEF Inv, Types
<1>6. send' \in [Client -> [queue : Seq(Nat), closed : BOOLEAN]] /\ \A d \in Client : Len(send'[d].queue) <= Room
  <2>1. send' \in [Client -> [queue : Seq(Nat), closed : BOOLEAN]]
    BY <1>1, <1>4 DEF Inv, Types
  <2>2. Len(Tail(send[c].queue)) <= Room
    BY HubAssumption, <1>2, <1>4 DEF Inv, Types
  <2>3. QED
    BY <1>5, <2>1, <2>2 DEF Inv, Types
<1>7. pump[c].reader \notin {"none", "registering"} /\ conn[c] # "none" /\ (c \in clients => ~send[c].closed)
  BY <1>1 DEF Inv, Lives, Fresh
<1>8. CASE got' = [got EXCEPT ![c] = Append(got[c], Head(send[c].queue))] /\ UNCHANGED <<pump, conn>>
  <2>1. got'[c] = Append(got[c], Head(send[c].queue)) /\ \A d \in Client \ {c} : got'[d] = got[d]
    BY <1>8 DEF Inv, Types
  <2>2. Fits(c, clients', got'[c], from'[c], send'[c].queue, pump'[c].writer, Given(c))
    <3>1. Fits(c, clients, Append(got[c], Head(send[c].queue)), from[c], Tail(send[c].queue), "waiting", Given(c))
      BY <1>1, <1>2, <1>3, FitsWrite
    <3>2. QED
      BY <1>1, <1>5, <1>8, <2>1, <3>1
  <2>3. Append(got[c], Head(send[c].queue)) \in Seq(Nat)
    BY <1>2, <1>4
  <2>4. got' \in [Client -> Seq(Nat)]
    BY <1>8, <2>3 DEF Inv, Types
  <2>5. Types'
    BY <1>1, <1>6, <1>8, <2>4 DEF Inv, Types
  <2>6. Fresh(c, clients', pump'[c].reader, pump'[c].writer, send'[c].queue, send'[c].closed, got'[c])
    BY <1>7, <1>8 DEF Fresh
  <2>7. QED
    BY <1>1, <1>5, <1>7, <1>8, <2>1, <2>2, <2>5, <2>6, ClientStep
<1>9. CASE conn' = [conn EXCEPT ![c] = "closed"] /\ pump' = [pump EXCEPT ![c].writer = "done"] /\ UNCHANGED got
  <2>1. conn'[c] = "closed" /\ pump'[c].reader = pump[c].reader /\ pump'[c].writer = "done"
        /\ \A d \in Client \ {c} : conn'[d] = conn[d] /\ pump'[d] = pump[d]
    BY <1>9 DEF Inv, Types
  <2>2. Fits(c, clients', got'[c], from'[c], send'[c].queue, pump'[c].writer, Given(c))
    <3>1. Fits(c, clients, got[c], from[c], Tail(send[c].queue), "done", Given(c))
      BY <1>1, <1>2, <1>3, FitsLose
    <3>2. QED
      BY <1>1, <1>5, <1>9, <2>1, <3>1
  <2>3. Types'
    <3>1. conn' \in [Client -> {"none", "open", "dead", "closed"}]
      BY <1>9 DEF Inv, Types
    <3>2. pump' \in [Client -> [reader : {"none", "registering", "reading", "leaving", "left", "done"},
                               writer : {"none", "waiting", "done"}]]
      BY <1>9 DEF Inv, Types
    <3>3. QED
      BY <1>1, <1>6, <1>9, <3>1, <3>2 DEF Inv, Types
  <2>4. Fresh(c, clients', pump'[c].reader, pump'[c].writer, send'[c].queue, send'[c].closed, got'[c])
    BY <1>7, <2>1 DEF Fresh
  <2>5. QED
    BY <1>1, <1>5, <1>7, <1>9, <2>1, <2>2, <2>3, <2>4, ClientStep
<1>10. QED
  BY <1>8, <1>9 DEF Write

\* A connection is taken: it hears what is taken from now on.
LEMMA RegisterStep == ASSUME Inv, NEW c \in Client, Register(c) PROVE Inv'
<1>1. /\ hub.pc = "select" /\ pump[c].reader = "registering" /\ UNCHANGED <<hub, broadcast, post, posts, conn, send, got>>
      /\ clients' = clients \cup {c} /\ from' = [from EXCEPT ![c] = Taken]
      /\ pump' = [pump EXCEPT ![c] = [reader |-> "reading", writer |-> "waiting"]]
  BY DEF Register
<1>2. Taken \in Nat /\ Given(c) = Taken
  BY <1>1, TakenType DEF Given
<1>3. got[c] = <<>> /\ send[c].queue = <<>> /\ ~send[c].closed /\ conn[c] # "none"
  BY <1>1 DEF Inv, Lives, Fresh
<1>4. /\ from'[c] = Taken /\ pump'[c].reader = "reading" /\ pump'[c].writer = "waiting"
      /\ \A d \in Client \ {c} : from'[d] = from[d] /\ pump'[d] = pump[d]
  BY <1>1 DEF Inv, Types
<1>5. Types'
  BY <1>1, <1>2 DEF Inv, Types
<1>6. Fits(c, clients', <<>>, Taken, <<>>, "waiting", Taken)
  <2>1. Len(<<>>) = 0 /\ \A i : i \notin 1 .. 0
    OBVIOUS
  <2>2. Taken + 0 + 0 = Taken
    BY <1>2
  <2>3. QED
    BY <2>1, <2>2 DEF Fits
<1>7. Fits(c, clients', got'[c], from'[c], send'[c].queue, pump'[c].writer, Given(c))
  BY <1>1, <1>2, <1>3, <1>4, <1>6
<1>8. Fresh(c, clients', pump'[c].reader, pump'[c].writer, send'[c].queue, send'[c].closed, got'[c])
  BY <1>4 DEF Fresh
<1>9. QED
  BY <1>1, <1>3, <1>4, <1>5, <1>7, <1>8, ClientStep

\* A connection takes its leave: its channel is closed if it was known.
LEMMA UnregisterStep == ASSUME Inv, NEW c \in Client, Unregister(c) PROVE Inv'
<1>1. /\ hub.pc = "select" /\ pump[c].reader = "leaving" /\ UNCHANGED <<hub, broadcast, post, posts, conn, got, from>>
      /\ clients' = clients \ {c}
      /\ send' = IF c \in clients THEN [send EXCEPT ![c].closed = TRUE] ELSE send
      /\ pump' = [pump EXCEPT ![c].reader = "left"]
  BY DEF Unregister
<1>2. /\ send'[c].queue = send[c].queue /\ pump'[c].writer = pump[c].writer /\ pump'[c].reader = "left"
      /\ \A d \in Client \ {c} : send'[d] = send[d] /\ pump'[d] = pump[d]
  BY <1>1 DEF Inv, Types
<1>3. Types'
  <2>0. send \in [Client -> [queue : Seq(Nat), closed : BOOLEAN]]
    BY DEF Inv, Types
  <2>1. send' \in [Client -> [queue : Seq(Nat), closed : BOOLEAN]] /\ \A d \in Client : send'[d].queue = send[d].queue
    <3>1. [send[c] EXCEPT !.closed = TRUE] \in [queue : Seq(Nat), closed : BOOLEAN]
      BY <2>0
    <3>2. CASE c \in clients
      <4>1. send' = [send EXCEPT ![c] = [send[c] EXCEPT !.closed = TRUE]]
        BY <1>1, <3>2
      <4>2. QED
        BY <2>0, <3>1, <4>1
    <3>3. CASE c \notin clients
      BY <1>1, <2>0, <3>3
    <3>4. QED
      BY <3>2, <3>3
  <2>2. QED
    BY <1>1, <2>1 DEF Inv, Types
<1>4. conn[c] # "none"
  BY <1>1 DEF Inv, Lives
<1>5. Fits(c, clients, got[c], from[c], send[c].queue, pump[c].writer, Given(c))
  BY DEF Inv, StreamsFit
<1>6. Fits(c, clients', got'[c], from'[c], send'[c].queue, pump'[c].writer, Given(c))
  <2>1. Fits(c, clients \ {c}, got[c], from[c], send[c].queue, pump[c].writer, Given(c))
    BY <1>5 DEF Fits
  <2>2. QED
    BY <1>1, <1>2, <2>1
<1>7. Fresh(c, clients', pump'[c].reader, pump'[c].writer, send'[c].queue, send'[c].closed, got'[c])
  BY <1>2 DEF Fresh
<1>8. QED
  BY <1>1, <1>2, <1>3, <1>4, <1>6, <1>7, ClientStep

-----------------------------------------------------------------------------
(* The listener and the hub                                                *)

\* A step that gives no client an update.
LEMMA StreamsKept ==
    ASSUME Inv, UNCHANGED <<clients, send, pump, got, from>>, \A c \in Client : Given(c)' = Given(c)
    PROVE  StreamsFit'
<1> SUFFICES ASSUME NEW c \in Client PROVE Fits(c, clients', got'[c], from'[c], send'[c].queue, pump'[c].writer, Given(c)')
  BY DEF StreamsFit
<1>1. Fits(c, clients, got[c], from[c], send[c].queue, pump[c].writer, Given(c))
  BY DEF Inv, StreamsFit
<1>2. QED
  BY <1>1

LEMMA NotifyStep == ASSUME Inv, Notify PROVE Inv'
<1>1. post = "idle" /\ posts < MaxPosts /\ post' = "sending" /\ posts' = posts + 1
      /\ UNCHANGED <<hub, clients, broadcast, conn, send, pump, got, from>>
  BY DEF Notify
<1>2. posts \in Nat /\ Len(broadcast) \in Nat
  BY DEF Inv, Types
<1>3. Taken' = Taken
  BY <1>1, <1>2 DEF Taken
<1>4. Types' /\ Lives'
  BY HubAssumption, <1>1, <1>2 DEF Inv, Types, Lives
<1>5. InOrder'
  BY <1>1, <1>3 DEF Inv, InOrder
<1>6. \A c \in Client : Given(c)' = Given(c)
  BY <1>1, <1>3 DEF Given
<1>7. QED
  BY <1>1, <1>4, <1>5, <1>6, StreamsKept DEF Inv

\* The notification goes to the end of the hub's channel.
LEMMA BroadcastStep == ASSUME Inv, Broadcast PROVE Inv'
<1>1. post = "sending" /\ Len(broadcast) < Capacity /\ broadcast' = Append(broadcast, posts) /\ post' = "idle"
      /\ UNCHANGED <<hub, clients, posts, conn, send, pump, got, from>>
  BY DEF Broadcast
<1>2. posts \in Nat /\ Len(broadcast) \in Nat /\ broadcast \in Seq(Nat)
  BY DEF Inv, Types
<1>3. /\ broadcast' \in Seq(Nat) /\ Len(broadcast') = Len(broadcast) + 1
      /\ \A i \in 1 .. Len(broadcast) + 1 : broadcast'[i] = IF i = Len(broadcast) + 1 THEN posts ELSE broadcast[i]
  BY <1>1, <1>2, Appended
<1>4. Taken' = Taken /\ Taken = posts - Len(broadcast) - 1
  <2>1. Taken = posts - Len(broadcast) - 1
    BY <1>1 DEF Taken
  <2>2. Taken' = posts - Len(broadcast') - 0
    BY <1>1 DEF Taken
  <2>3. QED
    BY <1>2, <1>3, <2>1, <2>2
<1>5. Types' /\ Lives'
  BY HubAssumption, <1>1, <1>2, <1>3 DEF Inv, Types, Lives
<1>6. InOrder'
  <2>1. \A i \in 1 .. Len(broadcast') : broadcast'[i] = Taken + i
    <3> TAKE i \in 1 .. Len(broadcast')
    <3>1. CASE i = Len(broadcast) + 1
      BY <1>2, <1>3, <1>4, <3>1
    <3>2. CASE i \in 1 .. Len(broadcast)
      BY <1>2, <1>3, <3>2 DEF Inv, InOrder
    <3>3. QED
      BY <1>2, <1>3, <3>1, <3>2
  <2>2. QED
    BY <1>1, <1>4, <2>1 DEF Inv, InOrder
<1>7. \A c \in Client : Given(c)' = Given(c)
  BY <1>1, <1>4 DEF Given
<1>8. QED
  BY <1>1, <1>5, <1>6, <1>7, StreamsKept DEF Inv

\* The hub takes the next update: every client it knows is still to get it.
LEMMA TakeStep == ASSUME Inv, Take PROVE Inv'
<1>1. /\ hub.pc = "select" /\ broadcast # <<>> /\ hub' = [pc |-> "sending", msg |-> Head(broadcast), left |-> clients]
      /\ broadcast' = Tail(broadcast) /\ UNCHANGED <<clients, post, posts, conn, send, pump, got, from>>
  BY DEF Take
<1>2. posts \in Nat /\ broadcast \in Seq(Nat)
  BY DEF Inv, Types
<1>3. /\ broadcast' \in Seq(Nat) /\ Len(broadcast') = Len(broadcast) - 1 /\ Len(broadcast) \in Nat \ {0}
      /\ Head(broadcast) = broadcast[1] /\ Head(broadcast) \in Nat
      /\ \A i \in 1 .. Len(broadcast) - 1 : broadcast'[i] = broadcast[i + 1]
  BY <1>1, <1>2, Shifted
<1>4. Taken' = Taken + 1 /\ Taken \in Nat
  <2>1. PICK n \in {0, 1} : Taken = posts - Len(broadcast) - n /\ Taken' = posts - Len(broadcast') - n
    BY <1>1 DEF Taken
  <2>2. QED
    BY <1>2, <1>3, <2>1, TakenType
<1>5. Types'
  <2>1. Len(broadcast') <= Len(broadcast)
    BY <1>3
  <2>2. hub' \in [pc : {"select", "sending"}, msg : Nat, left : SUBSET Client]
    BY <1>1, <1>3 DEF Inv, Types
  <2>3. Len(broadcast') <= Capacity
    BY HubAssumption, <1>3 DEF Inv, Types
  <2>4. QED
    BY <1>1, <1>3, <2>2, <2>3 DEF Inv, Types
<1>6. Lives'
  BY <1>1 DEF Inv, Lives
<1>7. InOrder'
  <2>1. \A i \in 1 .. Len(broadcast) : broadcast[i] = Taken + i
    BY DEF Inv, InOrder
  <2>2. hub'.msg = Taken'
    BY <1>1, <1>3, <1>4, <2>1
  <2>3. \A i \in 1 .. Len(broadcast') : broadcast'[i] = Taken' + i
    <3> TAKE i \in 1 .. Len(broadcast')
    <3>1. i + 1 \in 1 .. Len(broadcast) /\ i \in 1 .. Len(broadcast) - 1
      BY <1>3
    <3>2. broadcast'[i] = Taken + (i + 1)
      BY <1>3, <2>1, <3>1
    <3>3. QED
      BY <1>4, <3>1, <3>2
  <2>4. QED
    BY <1>4, <2>2, <2>3 DEF InOrder
<1>8. StreamsFit'
  <2> SUFFICES ASSUME NEW c \in Client PROVE Fits(c, clients', got'[c], from'[c], send'[c].queue, pump'[c].writer, Given(c)')
    BY DEF StreamsFit
  <2>1. Fits(c, clients, got[c], from[c], send[c].queue, pump[c].writer, Given(c))
    BY DEF Inv, StreamsFit
  <2>2. c \in clients => Given(c)' = Given(c)
    BY <1>1, <1>4 DEF Given
  <2>3. Fits(c, clients, got[c], from[c], send[c].queue, pump[c].writer, Given(c)')
    BY <2>1, <2>2 DEF Fits
  <2>4. QED
    BY <1>1, <2>3
<1>9. QED
  BY <1>5, <1>6, <1>7, <1>8 DEF Inv

\* A client is given the update, or dropped.
LEMMA SendToStep == ASSUME Inv, NEW c \in Client, SendTo(c) PROVE Inv'
<1>1. /\ hub.pc = "sending" /\ c \in hub.left /\ hub' = [hub EXCEPT !.left = hub.left \ {c}]
      /\ UNCHANGED <<broadcast, post, posts, conn, pump, got, from>>
  BY DEF SendTo
<1>2. c \in clients /\ hub.left \subseteq clients /\ hub.msg = Taken /\ Taken \in Nat
  BY <1>1, TakenType DEF Inv, Lives, InOrder
<1>3. hub'.pc = "sending" /\ hub'.msg = hub.msg /\ hub'.left = hub.left \ {c}
      /\ hub' \in [pc : {"select", "sending"}, msg : Nat, left : SUBSET Client]
  BY <1>1 DEF Inv, Types
<1>4. Taken' = Taken
  BY <1>1 DEF Taken
<1>5. Given(c) = Taken - 1 /\ Given(c)' = Taken /\ \A d \in Client \ {c} : Given(d)' = Given(d)
  BY <1>1, <1>3, <1>4 DEF Given
<1>6. send[c].queue \in Seq(Nat) /\ got[c] \in Seq(Nat) /\ from[c] \in Nat /\ Given(c) \in Int /\ Len(send[c].queue) \in Nat
  BY TakenType DEF Inv, Types
<1>7. Fits(c, clients, got[c], from[c], send[c].queue, pump[c].writer, Given(c))
  BY DEF Inv, StreamsFit
<1>8. InOrder'
  BY <1>1, <1>3, <1>4 DEF Inv, InOrder
<1>9. pump[c].reader \notin {"none", "registering"} /\ conn[c] # "none" /\ ~send[c].closed
  BY <1>2 DEF Inv, Lives, Fresh
<1>10. CASE Len(send[c].queue) < Room
  <2>1. send' = [send EXCEPT ![c].queue = Append(send[c].queue, hub.msg)] /\ clients' = clients
    BY <1>10 DEF SendTo
  <2>2. send'[c].queue = Append(send[c].queue, Taken) /\ send'[c].closed = send[c].closed /\ \A d \in Client \ {c} : send'[d] = send[d]
    BY <1>2, <2>1 DEF Inv, Types
  <2>3. Append(send[c].queue, Taken) \in Seq(Nat) /\ Len(Append(send[c].queue, Taken)) = Len(send[c].queue) + 1
    BY <1>2, <1>6, Appended
  <2>4. Types'
    <3>1. send' \in [Client -> [queue : Seq(Nat), closed : BOOLEAN]]
      <4>1. Append(send[c].queue, hub.msg) \in Seq(Nat)
        BY <1>2, <2>3
      <4>2. send \in [Client -> [queue : Seq(Nat), closed : BOOLEAN]]
        BY DEF Inv, Types
      <4>3. QED
        BY <2>1, <4>1, <4>2
    <3>2. Len(send'[c].queue) <= Room
      BY HubAssumption, <1>6, <1>10, <2>2, <2>3
    <3>3. QED
      BY <1>1, <1>3, <2>1, <2>2, <3>1, <3>2 DEF Inv, Types
  <2>5. Lives'
    BY <1>1, <1>3, <1>9, <2>1, <2>2 DEF Inv, Lives, Fresh
  <2>6. Fits(c, clients', got'[c], from'[c], send'[c].queue, pump'[c].writer, Given(c)')
    <3>1. Taken = Given(c) + 1
      BY <1>2, <1>5
    <3>2. Fits(c, clients, got[c], from[c], Append(send[c].queue, Taken), pump[c].writer, Taken)
      BY <1>2, <1>6, <1>7, <3>1, FitsAppend
    <3>3. QED
      BY <1>1, <1>5, <2>1, <2>2, <3>2
  <2>7. StreamsFit'
    <3> SUFFICES ASSUME NEW d \in Client \ {c} PROVE Fits(d, clients', got'[d], from'[d], send'[d].queue, pump'[d].writer, Given(d)')
      BY <2>6 DEF StreamsFit
    <3>1. Fits(d, clients, got[d], from[d], send[d].queue, pump[d].writer, Given(d))
      BY DEF Inv, StreamsFit
    <3>2. QED
      BY <1>1, <1>5, <2>1, <2>2, <3>1
  <2>8. QED
    BY <1>8, <2>4, <2>5, <2>7 DEF Inv
<1>11. CASE ~(Len(send[c].queue) < Room)
  <2>1. send' = [send EXCEPT ![c].closed = TRUE] /\ clients' = clients \ {c}
    BY <1>11 DEF SendTo
  <2>2. send'[c].queue = send[c].queue /\ \A d \in Client \ {c} : send'[d] = send[d]
    BY <2>1 DEF Inv, Types
  <2>3. Types'
    <3>1. send' \in [Client -> [queue : Seq(Nat), closed : BOOLEAN]] /\ \A d \in Client : send'[d].queue = send[d].queue
      BY <2>1 DEF Inv, Types
    <3>2. \A d \in Client : Len(send'[d].queue) <= Room
      BY <3>1 DEF Inv, Types
    <3>3. clients' \in SUBSET Client
      BY <2>1 DEF Inv, Types
    <3>4. QED
      BY <1>1, <1>3, <3>1, <3>2, <3>3 DEF Inv, Types
  <2>4. Lives'
    <3>1. \A d \in Client : /\ conn'[d] = "none" => pump'[d].reader = "none"
                            /\ Fresh(d, clients', pump'[d].reader, pump'[d].writer, send'[d].queue, send'[d].closed, got'[d])
      BY <1>1, <1>9, <2>1, <2>2 DEF Inv, Lives, Fresh
    <3>2. \A d \in clients' : ~send'[d].closed /\ pump'[d].writer # "none"
      BY <1>1, <2>1, <2>2 DEF Inv, Lives, Types
    <3>3. QED
      BY <1>2, <1>3, <2>1, <3>1, <3>2 DEF Lives
  <2>5. StreamsFit'
    <3> SUFFICES ASSUME NEW d \in Client PROVE Fits(d, clients', got'[d], from'[d], send'[d].queue, pump'[d].writer, Given(d)')
      BY DEF StreamsFit
    <3>1. Fits(d, clients, got[d], from[d], send[d].queue, pump[d].writer, Given(d))
      BY DEF Inv, StreamsFit
    <3>2. Fits(d, clients \ {c}, got[d], from[d], send[d].queue, pump[d].writer, Given(d)')
      BY <1>5, <3>1 DEF Fits
    <3>3. send'[d].queue = send[d].queue
      BY <2>2
    <3>4. QED
      BY <1>1, <2>1, <3>2, <3>3
  <2>6. QED
    BY <1>8, <2>3, <2>4, <2>5 DEF Inv
<1>12. QED
  BY <1>10, <1>11

\* Everyone has had the update.
LEMMA SentStep == ASSUME Inv, Sent PROVE Inv'
<1>1. /\ hub.pc = "sending" /\ hub.left = {} /\ hub' = [pc |-> "select", msg |-> 0, left |-> {}]
      /\ UNCHANGED <<clients, broadcast, post, posts, conn, send, pump, got, from>>
  BY DEF Sent, Selecting
<1>2. Taken' = Taken /\ \A c \in Client : Given(c)' = Given(c)
  <2>1. Taken' = Taken
    BY <1>1 DEF Taken
  <2>2. QED
    BY <1>1, <2>1 DEF Given
<1>3. Types' /\ Lives'
  BY <1>1 DEF Inv, Types, Lives
<1>4. InOrder'
  BY <1>1, <1>2 DEF Inv, InOrder
<1>5. QED
  BY <1>1, <1>2, <1>3, <1>4, StreamsKept DEF Inv

LEMMA InvStep == Inv /\ [Next]_vars => Inv'
<1> SUFFICES ASSUME Inv, [Next]_vars PROVE Inv'
  OBVIOUS
<1>1. CASE UNCHANGED vars
  <2>1. Taken' = Taken /\ \A c \in Client : Given(c)' = Given(c)
    <3>1. Taken' = Taken
      BY <1>1 DEF vars, Taken
    <3>2. QED
      BY <1>1, <3>1 DEF vars, Given
  <2>2. Types' /\ Lives' /\ InOrder'
    BY <1>1, <2>1 DEF vars, Inv, Types, Lives, InOrder
  <2>3. QED
    BY <1>1, <2>1, <2>2, StreamsKept DEF vars, Inv
<1>2. CASE Next
  BY <1>2, NotifyStep, BroadcastStep, TakeStep, SentStep, SendToStep, UpgradeStep, PeerStep, ReadFailsStep,
     ReaderClosesStep, WriteStep, WriterEndsStep, RegisterStep, UnregisterStep DEF Next, Loop, Pumps
<1>3. QED
  BY <1>1, <1>2

\* The inductive invariant.
THEOREM Invariance == Spec => []Inv
<1>1. Init => Inv
  BY InitInv
<1>2. Inv /\ [Next]_vars => Inv'
  BY InvStep
<1>3. QED
  BY <1>1, <1>2, PTL DEF Spec

\* hub.go:69, :79, :85: no channel is written to once it is closed, and every
\* connection hears the updates in order and without a gap.
THEOREM UpdatesAreHeard == Spec => []HubHolds
<1>1. Inv => HubHolds
  <2> SUFFICES ASSUME Inv PROVE HubHolds
    OBVIOUS
  <2>1. TypeOK
    BY HubAssumption DEF Inv, Types, TypeOK
  <2>2. OpenWhileKnown
    BY DEF Inv, Types, Lives, OpenWhileKnown
  <2>3. HeardWithoutGaps
    BY DEF Inv, StreamsFit, Fits, HeardWithoutGaps
  <2>4. QED
    BY <2>1, <2>2, <2>3 DEF HubHolds
<1>2. QED
  BY <1>1, Invariance, PTL

-----------------------------------------------------------------------------
(* The voice of a turn                                                     *)

SaidOf(x) == IF x.pc = "write" THEN <<x.got>> ELSE <<>>
HeldOf(x) == IF x.pc = "put" THEN <<x.got>> ELSE <<>>
Said == SaidOf(forwarder)
Held == HeldOf(reader)

\* The way of a chunk, from its end: the connection, the forwarder, the channel,
\* the reader, ElevenLabs's audio, ElevenLabs's texts.
WayOf(h, w, q, p, f, t) == [k \in 1 .. 6 |-> IF k = 1 THEN h ELSE IF k = 2 THEN w ELSE IF k = 3 THEN q
                                             ELSE IF k = 4 THEN p ELSE IF k = 5 THEN f ELSE t]
VoiceTypes ==
    /\ turn \in [pc : {"connect", "speak", "wait", "close", "over"}, waited : Nat] /\ turn.waited <= Patience
    /\ reader \in [pc : {"none", "read", "put", "done"}, got : Nat]
    /\ forwarder \in [pc : {"none", "receive", "write", "done"}, got : Nat]
    /\ audioCh \in [held : Seq(Nat), closed : BOOLEAN] /\ Len(audioCh.held) <= VoiceRoom
    /\ socket \in [open : BOOLEAN, texts : Seq(Nat), frames : Seq(Nat), ended : BOOLEAN]
    /\ spoken \in Seq(Nat) /\ Len(spoken) <= MaxChunks /\ heard \in Seq(Nat) /\ troubled \in BOOLEAN
    /\ \A i \in 1 .. Len(spoken) : spoken[i] = i

\* Who runs when: nobody sends once the turn is over, and as long as nothing
\* has failed the reader ends with isFinal, behind which there is nothing.
VoiceLives ==
    /\ turn.pc = "connect" => reader.pc = "none"
    /\ reader.pc = "none" => forwarder.pc = "none"
    /\ turn.pc \in {"speak", "wait", "close"} => reader.pc # "none"
    /\ turn.pc = "over" => reader.pc \in {"none", "done"}
    /\ audioCh.closed => reader.pc = "done"
    /\ socket.ended => turn.pc \notin {"connect", "speak"}
    /\ \A i \in 1 .. Len(socket.frames) :
           socket.frames[i] = 0 => i = Len(socket.frames) /\ socket.texts = <<>> /\ socket.ended
    /\ ~troubled =>
           /\ turn.pc \in {"close", "over"} => reader.pc = "done"
           /\ reader.pc = "done" => socket.frames = <<>> /\ socket.texts = <<>> /\ turn.pc \notin {"connect", "speak"}
           /\ ~socket.open => turn.pc \in {"connect", "close", "over"}

\* No chunk overtakes another, and none is made up.
Ordered(L) ==
    \A k, l \in 1 .. 6 : \A i \in 1 .. Len(L[k]), j \in 1 .. Len(L[l]) :
        (k < l \/ (k = l /\ i < j)) /\ L[k][i] # 0 /\ L[l][j] # 0 => L[k][i] < L[l][j]
Within(L, n) ==
    \A k \in 1 .. 6 : \A i \in 1 .. Len(L[k]) : L[k][i] <= n /\ (k # 5 => L[k][i] # 0)

Sound(h, w, q, p, f, t, n) == Ordered(WayOf(h, w, q, p, f, t)) /\ Within(WayOf(h, w, q, p, f, t), n)

\* Nothing is missing: the chunks of all the places are those said.
Full(h, w, q, p, f, t, n) ==
    /\ \A i \in 1 .. Len(h) : h[i] = i
    /\ \A i \in 1 .. Len(w) : w[i] = Len(h) + i
    /\ \A i \in 1 .. Len(q) : q[i] = Len(h) + Len(w) + i
    /\ \A i \in 1 .. Len(p) : p[i] = Len(h) + Len(w) + Len(q) + i
    /\ \A i \in 1 .. Len(f) : f[i] # 0 => f[i] = Len(h) + Len(w) + Len(q) + Len(p) + i
    /\ \A i \in 1 .. Len(t) : t[i] = n - Len(t) + i
    /\ Len(h) + Len(w) + Len(q) + Len(p) + Len(f) + Len(t) = IF Len(f) > 0 /\ f[Len(f)] = 0 THEN n + 1 ELSE n

VoiceInv ==
    /\ VoiceTypes /\ VoiceLives
    /\ Sound(heard, Said, audioCh.held, Held, socket.frames, socket.texts, Len(spoken))
    /\ ~troubled => Full(heard, Said, audioCh.held, Held, socket.frames, socket.texts, Len(spoken))

Ways == [1 .. 6 -> Seq(Nat)]

IsWay(L, h, w, q, p, f, t) == L \in Ways /\ L[1] = h /\ L[2] = w /\ L[3] = q /\ L[4] = p /\ L[5] = f /\ L[6] = t

LEMMA WayIs ==
    ASSUME NEW h \in Seq(Nat), NEW w \in Seq(Nat), NEW q \in Seq(Nat), NEW p \in Seq(Nat), NEW f \in Seq(Nat), NEW t \in Seq(Nat)
    PROVE  IsWay(WayOf(h, w, q, p, f, t), h, w, q, p, f, t)
BY DEF WayOf, Ways, IsWay

LEMMA WaysAre ==
    ASSUME NEW L \in Ways, NEW l \in 1 .. 6
    PROVE  L[l] \in Seq(Nat) /\ Len(L[l]) \in Nat /\ \A i \in 1 .. Len(L[l]) : L[l][i] \in Nat
<1>1. L[l] \in Seq(Nat)
  BY DEF Ways
<1>2. QED
  BY <1>1

\* M has its chunks from L: place a, index i from place A(a, i), index B(a, i),
\* here given as the number U[a][i] and V[a][i]; their order is kept.
Draws(M, L, U, V) ==
    \A a \in 1 .. 6 : \A i \in 1 .. Len(M[a]) :
        /\ U[a][i] \in 1 .. 6 /\ V[a][i] \in 1 .. Len(L[U[a][i]]) /\ M[a][i] = L[U[a][i]][V[a][i]]
        /\ a # 5 /\ U[a][i] = 5 => M[a][i] # 0
InLine(M, U, V) ==
    \A a, b \in 1 .. 6 : \A i \in 1 .. Len(M[a]), j \in 1 .. Len(M[b]) :
        a < b \/ (a = b /\ i < j) => U[a][i] < U[b][j] \/ (U[a][i] = U[b][j] /\ V[a][i] < V[b][j])

LEMMA Drawn ==
    ASSUME NEW L, NEW M, NEW U, NEW V, NEW n, Ordered(L), Within(L, n), Draws(M, L, U, V), InLine(M, U, V)
    PROVE  Ordered(M) /\ Within(M, n)
<1>1. Ordered(M)
  <2> SUFFICES ASSUME NEW a \in 1 .. 6, NEW b \in 1 .. 6, NEW i \in 1 .. Len(M[a]), NEW j \in 1 .. Len(M[b]),
                      a < b \/ (a = b /\ i < j), M[a][i] # 0, M[b][j] # 0
               PROVE  M[a][i] < M[b][j]
    BY DEF Ordered
  <2>1. U[a][i] < U[b][j] \/ (U[a][i] = U[b][j] /\ V[a][i] < V[b][j])
    BY DEF InLine
  <2>2. /\ U[a][i] \in 1 .. 6 /\ V[a][i] \in 1 .. Len(L[U[a][i]]) /\ M[a][i] = L[U[a][i]][V[a][i]]
        /\ U[b][j] \in 1 .. 6 /\ V[b][j] \in 1 .. Len(L[U[b][j]]) /\ M[b][j] = L[U[b][j]][V[b][j]]
    BY DEF Draws
  <2>3. QED
    BY <2>1, <2>2 DEF Ordered
<1>2. Within(M, n)
  <2> SUFFICES ASSUME NEW a \in 1 .. 6, NEW i \in 1 .. Len(M[a])
               PROVE  M[a][i] <= n /\ (a # 5 => M[a][i] # 0)
    BY DEF Within
  <2> DEFINE u == U[a][i]
             v == V[a][i]
  <2>1. u \in 1 .. 6 /\ v \in 1 .. Len(L[u]) /\ M[a][i] = L[u][v] /\ (a # 5 /\ u = 5 => M[a][i] # 0)
    BY DEF Draws
  <2> HIDE DEF u, v
  <2>2. L[u][v] <= n /\ (u # 5 => L[u][v] # 0)
    BY <2>1 DEF Within
  <2>3. QED
    BY <2>1, <2>2
<1>3. QED
  BY <1>1, <1>2

\* A chunk goes on from place m to place k.
Goes(L, M, k, m) ==
    /\ m = k + 1 /\ (\A a \in 1 .. 6 : Len(L[a]) \in Nat) /\ Len(L[m]) # 0 /\ L[m][1] # 0
    /\ Len(M[k]) = Len(L[k]) + 1 /\ Len(M[m]) = Len(L[m]) - 1 /\ \A a \in (1 .. 6) \ {k, m} : M[a] = L[a]
    /\ M[k][Len(L[k]) + 1] = L[m][1] /\ \A i \in 1 .. Len(L[k]) : M[k][i] = L[k][i]
    /\ \A i \in 1 .. Len(L[m]) - 1 : M[m][i] = L[m][i + 1]

LEMMA MovedOn ==
    ASSUME NEW L, NEW M, NEW k \in 1 .. 6, NEW m \in 1 .. 6, NEW n, Ordered(L), Within(L, n), Goes(L, M, k, m)
    PROVE  Ordered(M) /\ Within(M, n)
<1> USE DEF Goes
<1> DEFINE U == [a \in 1 .. 6 |-> [i \in 1 .. Len(M[a]) |-> IF a = k /\ i = Len(L[k]) + 1 THEN m ELSE a]]
           V == [a \in 1 .. 6 |-> [i \in 1 .. Len(M[a]) |-> IF a = k /\ i = Len(L[k]) + 1 THEN 1
                                                            ELSE IF a = m THEN i + 1 ELSE i]]
<1>a. \A a \in 1 .. 6 : \A i \in 1 .. Len(M[a]) : ~(a = k /\ i = Len(L[k]) + 1) => U[a][i] = a
  OBVIOUS
<1>b. \A a \in 1 .. 6 : \A i \in 1 .. Len(M[a]) : ~(a = k /\ i = Len(L[k]) + 1) /\ a # m => V[a][i] = i
  OBVIOUS
<1>c. \A a \in 1 .. 6 : \A i \in 1 .. Len(M[a]) : a = m => V[a][i] = i + 1
  OBVIOUS
<1>d. \A a \in 1 .. 6 : \A i \in 1 .. Len(M[a]) : a = k /\ i = Len(L[k]) + 1 => U[a][i] = m /\ V[a][i] = 1
  OBVIOUS
<1>e. k # m
  OBVIOUS
<1> HIDE DEF U, V
<1>2. Len(L[k]) \in Nat /\ Len(L[m]) \in Nat \ {0}
  OBVIOUS
<1>3. Draws(M, L, U, V)
  <2> SUFFICES ASSUME NEW a \in 1 .. 6, NEW i \in 1 .. Len(M[a])
               PROVE  /\ U[a][i] \in 1 .. 6 /\ V[a][i] \in 1 .. Len(L[U[a][i]]) /\ M[a][i] = L[U[a][i]][V[a][i]]
                      /\ a # 5 /\ U[a][i] = 5 => M[a][i] # 0
    BY DEF Draws
  <2>1. CASE a = k /\ i = Len(L[k]) + 1
    <3>1. U[a][i] = m /\ V[a][i] = 1
      BY <1>d, <2>1
    <3>2. M[a][i] = L[m][1] /\ L[m][1] # 0
      BY <1>2, <2>1
    <3>3. 1 \in 1 .. Len(L[m])
      BY <1>2
    <3>4. QED
      BY <3>1, <3>2, <3>3
  <2>2. CASE a = k /\ i # Len(L[k]) + 1
    <3>1. U[a][i] = k /\ V[a][i] = i
      <4>1. U[a][i] = a /\ V[a][i] = i
        BY <1>a, <1>b, <1>e, <2>2
      <4>2. QED
        BY <2>2, <4>1
    <3>2. i \in 1 .. Len(L[k])
      BY <1>2, <2>2
    <3>3. M[k][i] = L[k][i]
      BY <3>2
    <3>4. QED
      BY <1>2, <2>2, <3>1, <3>2, <3>3
  <2>3. CASE a = m
    <3>1. U[a][i] = m /\ V[a][i] = i + 1
      BY <1>a, <1>c, <1>e, <2>3
    <3>2. i \in 1 .. Len(L[m]) - 1
      BY <1>2, <2>3
    <3>3. M[m][i] = L[m][i + 1] /\ i + 1 \in 1 .. Len(L[m])
      BY <1>2, <3>2
    <3>4. QED
      BY <1>2, <2>3, <3>1, <3>3
  <2>4. CASE a \notin {k, m}
    <3>1. U[a][i] = a /\ V[a][i] = i /\ M[a] = L[a]
      BY <1>a, <1>b, <2>4
    <3>2. QED
      BY <2>4, <3>1
  <2>5. QED
    BY <2>1, <2>2, <2>3, <2>4
<1>4. InLine(M, U, V)
  <2> SUFFICES ASSUME NEW a \in 1 .. 6, NEW b \in 1 .. 6, NEW i \in 1 .. Len(M[a]), NEW j \in 1 .. Len(M[b]),
                      a < b \/ (a = b /\ i < j)
               PROVE  U[a][i] < U[b][j] \/ (U[a][i] = U[b][j] /\ V[a][i] < V[b][j])
    BY DEF InLine
  <2>1. a = b => a # k \/ i # Len(L[k]) + 1
    BY <1>2
  <2>2. CASE a = k /\ i = Len(L[k]) + 1
    <3>1. U[a][i] = m /\ V[a][i] = 1 /\ b > k /\ U[b][j] = b
      BY <1>a, <1>d, <2>1, <2>2
    <3>2. CASE b = m
      <4>1. V[b][j] = j + 1
        BY <1>c, <3>2
      <4>2. QED
        BY <3>1, <3>2, <4>1
    <3>3. CASE b # m
      BY <3>1, <3>3
    <3>4. QED
      BY <3>2, <3>3
  <2>3. CASE b = k /\ j = Len(L[k]) + 1
    <3>1. U[b][j] = m /\ U[a][i] = a
      BY <1>a, <1>d, <2>1, <2>3
    <3>2. QED
      BY <2>3, <3>1
  <2>4. CASE ~(a = k /\ i = Len(L[k]) + 1) /\ ~(b = k /\ j = Len(L[k]) + 1)
    <3>1. U[a][i] = a /\ U[b][j] = b
      BY <1>a, <2>4
    <3>2. CASE a = b /\ a = m
      <4>1. V[a][i] = i + 1 /\ V[b][j] = j + 1
        BY <1>c, <3>2
      <4>2. QED
        BY <3>1, <3>2, <4>1
    <3>3. CASE a = b /\ a # m
      BY <1>b, <2>4, <3>1, <3>3
    <3>4. CASE a # b
      BY <3>1, <3>4
    <3>5. QED
      BY <3>2, <3>3, <3>4
  <2>5. QED
    BY <2>2, <2>3, <2>4
<1>5. QED
  BY <1>3, <1>4, Drawn

Moves(L, M, k, m) ==
    /\ m = k + 1 /\ L[m] # <<>> /\ L[m][1] # 0 /\ M[k] = Append(L[k], Head(L[m])) /\ M[m] = Tail(L[m])
    /\ \A a \in (1 .. 6) \ {k, m} : M[a] = L[a]

LEMMA Moved ==
    ASSUME NEW L \in Ways, NEW M \in Ways, NEW k \in 1 .. 6, NEW m \in 1 .. 6, NEW n \in Nat, Ordered(L), Within(L, n),
           Moves(L, M, k, m)
    PROVE  Ordered(M) /\ Within(M, n)
<1> DEFINE x == L[k]
           y == L[m]
<1>1. /\ m = k + 1 /\ y # <<>> /\ y[1] # 0 /\ M[k] = Append(x, Head(y)) /\ M[m] = Tail(y)
      /\ (\A a \in (1 .. 6) \ {k, m} : M[a] = L[a]) /\ L[k] = x /\ L[m] = y
  BY DEF Moves
<1>2. \A a \in 1 .. 6 : Len(L[a]) \in Nat
  BY WaysAre
<1>3. x \in Seq(Nat) /\ y \in Seq(Nat)
  BY WaysAre
<1> HIDE DEF x, y
<1>4. /\ Head(y) = y[1] /\ Head(y) \in Nat /\ Len(y) # 0 /\ Len(Tail(y)) = Len(y) - 1
      /\ \A i \in 1 .. Len(y) - 1 : Tail(y)[i] = y[i + 1]
  BY <1>1, <1>3, Shifted
<1>5. Len(Append(x, Head(y))) = Len(x) + 1
      /\ Append(x, Head(y))[Len(x) + 1] = y[1] /\ \A i \in 1 .. Len(x) : Append(x, Head(y))[i] = x[i]
  BY <1>3, <1>4, Appended
<1>6. Len(L[k]) = Len(x) /\ Len(L[m]) # 0 /\ Len(M[k]) = Len(L[k]) + 1 /\ Len(M[m]) = Len(L[m]) - 1 /\ L[m][1] # 0
  BY <1>1, <1>4, <1>5
<1>7. M[k][Len(L[k]) + 1] = L[m][1] /\ \A i \in 1 .. Len(L[k]) : M[k][i] = L[k][i]
  BY <1>1, <1>5, <1>6
<1>8. \A i \in 1 .. Len(L[m]) - 1 : M[m][i] = L[m][i + 1]
  BY <1>1, <1>4
<1>9. QED
  <2>1. Goes(L, M, k, m)
    BY <1>1, <1>2, <1>6, <1>7, <1>8 DEF Goes
  <2>2. QED
    BY <2>1, MovedOn

\* Chunks are lost: the first of a place, or all of them.
LEMMA Thinned ==
    ASSUME NEW L \in Ways, NEW M \in Ways, NEW k \in 1 .. 6, NEW n \in Nat, Ordered(L), Within(L, n),
           NEW x, L[k] = x, M[k] = <<>> \/ (x # <<>> /\ M[k] = Tail(x)), \A a \in (1 .. 6) \ {k} : M[a] = L[a]
    PROVE  Ordered(M) /\ Within(M, n)
<1> DEFINE U == [a \in 1 .. 6 |-> [i \in 1 .. Len(M[a]) |-> a]]
           V == [a \in 1 .. 6 |-> [i \in 1 .. Len(M[a]) |-> IF a = k THEN i + 1 ELSE i]]
<1>1. \A a \in 1 .. 6 : \A i \in 1 .. Len(M[a]) : U[a][i] = a
  OBVIOUS
<1>a. \A a \in 1 .. 6 : \A i \in 1 .. Len(M[a]) : a = k => V[a][i] = i + 1
  OBVIOUS
<1>b. \A a \in 1 .. 6 : \A i \in 1 .. Len(M[a]) : a # k => V[a][i] = i
  OBVIOUS
<1> HIDE DEF U, V
<1>2. x \in Seq(Nat) /\ Len(x) \in Nat
  BY WaysAre
<1>3. \A i \in 1 .. Len(M[k]) : i + 1 \in 1 .. Len(x) /\ M[k][i] = x[i + 1]
  <2>1. CASE M[k] = <<>>
    BY <2>1
  <2>2. CASE x # <<>> /\ M[k] = Tail(x)
    <3>1. Len(M[k]) = Len(x) - 1 /\ \A i \in 1 .. Len(x) - 1 : M[k][i] = x[i + 1]
      BY <1>2, <2>2, Shifted
    <3>2. QED
      BY <1>2, <3>1
  <2>3. QED
    BY <2>1, <2>2
<1>4. Draws(M, L, U, V)
  <2> SUFFICES ASSUME NEW a \in 1 .. 6, NEW i \in 1 .. Len(M[a])
               PROVE  U[a][i] = a /\ V[a][i] \in 1 .. Len(L[a]) /\ M[a][i] = L[a][V[a][i]]
    <3>1. \A a \in 1 .. 6 : \A i \in 1 .. Len(M[a]) : U[a][i] = a /\ V[a][i] \in 1 .. Len(L[a]) /\ M[a][i] = L[a][V[a][i]]
      OBVIOUS
    <3>2. \A a \in 1 .. 6 : \A i \in 1 .. Len(M[a]) :
            /\ U[a][i] \in 1 .. 6 /\ V[a][i] \in 1 .. Len(L[U[a][i]]) /\ M[a][i] = L[U[a][i]][V[a][i]]
            /\ a # 5 /\ U[a][i] = 5 => M[a][i] # 0
      <4> TAKE a \in 1 .. 6
      <4> TAKE i \in 1 .. Len(M[a])
      <4>1. U[a][i] = a /\ V[a][i] \in 1 .. Len(L[a]) /\ M[a][i] = L[a][V[a][i]]
        BY <3>1
      <4>2. QED
        BY <4>1
    <3>3. QED
      BY <3>2 DEF Draws
  <2>1. CASE a = k
    BY <1>1, <1>3, <1>a, <2>1
  <2>2. CASE a # k
    BY <1>1, <1>b, <2>2
  <2>3. QED
    BY <2>1, <2>2
<1>5. InLine(M, U, V)
  <2> SUFFICES ASSUME NEW a \in 1 .. 6, NEW b \in 1 .. 6, NEW i \in 1 .. Len(M[a]), NEW j \in 1 .. Len(M[b]),
                      a < b \/ (a = b /\ i < j)
               PROVE  U[a][i] < U[b][j] \/ (U[a][i] = U[b][j] /\ V[a][i] < V[b][j])
    BY DEF InLine
  <2>1. U[a][i] = a /\ U[b][j] = b 
    BY <1>1
  <2>2. CASE a = b /\ a = k
    <3>1. i < j /\ j \in 1 .. Len(M[k]) /\ i \in 1 .. Len(M[k])
      BY <2>2
    <3>2. V[a][i] = i + 1 /\ V[b][j] = j + 1
      BY <1>a, <2>2, <3>1
    <3>3. QED
      BY <2>1, <2>2, <3>1, <3>2
  <2>3. CASE a = b /\ a # k
    BY <1>b, <2>1, <2>3
  <2>4. CASE a # b
    BY <2>1, <2>4
  <2>5. QED
    BY <2>2, <2>3, <2>4
<1>6. QED
  BY <1>4, <1>5, Drawn

\* One more entry at the end of a place: a chunk behind all of them, or isFinal.
Grows(L, M, k, e) == M[k] = Append(L[k], e) /\ \A a \in (1 .. 6) \ {k} : M[a] = L[a]

LEMMA Longer ==
    ASSUME NEW L \in Ways, NEW M \in Ways, NEW n \in Nat, NEW k \in 1 .. 6, NEW e \in Nat, Ordered(L), Within(L, n),
           Grows(L, M, k, e), (k = 6 /\ e = n + 1) \/ (k = 5 /\ e = 0)
    PROVE  Ordered(M) /\ Within(M, n + 1) /\ (e = 0 => Within(M, n))
<1> DEFINE x == L[k]
<1>0. M[k] = Append(x, e) /\ \A a \in (1 .. 6) \ {k} : M[a] = L[a]
  BY DEF Grows
<1>1. x \in Seq(Nat) /\ L[k] = x
  BY WaysAre
<1> HIDE DEF x
<1>2. Len(M[k]) = Len(x) + 1 /\ M[k][Len(x) + 1] = e /\ (\A i \in 1 .. Len(x) : M[k][i] = x[i]) /\ Len(x) \in Nat
  BY <1>0, <1>1, Appended
<1>3. \A a \in 1 .. 6 : \A i \in 1 .. Len(M[a]) :
          (a = k /\ i = Len(x) + 1 /\ M[a][i] = e) \/ (i \in 1 .. Len(L[a]) /\ M[a][i] = L[a][i])
  <2> TAKE a \in 1 .. 6
  <2> TAKE i \in 1 .. Len(M[a])
  <2>1. CASE a = k
    <3>1. i = Len(x) + 1 \/ i \in 1 .. Len(x)
      BY <1>2, <2>1
    <3>2. QED
      BY <1>1, <1>2, <2>1, <3>1
  <2>2. CASE a # k
    BY <1>0, <2>2
  <2>3. QED
    BY <2>1, <2>2
<1>4. \A a \in 1 .. 6 : \A i \in 1 .. Len(L[a]) : L[a][i] \in Nat /\ L[a][i] <= n /\ (a # 5 => L[a][i] # 0)
  <2>1. \A a \in 1 .. 6 : \A i \in 1 .. Len(L[a]) : L[a][i] \in Nat
    BY WaysAre
  <2>2. QED
    BY <2>1 DEF Within
<1>5. Ordered(M)
  <2> SUFFICES ASSUME NEW a \in 1 .. 6, NEW b \in 1 .. 6, NEW i \in 1 .. Len(M[a]), NEW j \in 1 .. Len(M[b]),
                      a < b \/ (a = b /\ i < j), M[a][i] # 0, M[b][j] # 0
               PROVE  M[a][i] < M[b][j]
    BY DEF Ordered
  <2>1. CASE i \in 1 .. Len(L[a]) /\ M[a][i] = L[a][i]
    <3>1. CASE b = k /\ j = Len(x) + 1 /\ M[b][j] = e
      <4>1. M[b][j] = n + 1
        BY <3>1
      <4>2. L[a][i] \in Nat /\ L[a][i] <= n
        BY <1>4, <2>1
      <4>3. QED
        BY <2>1, <4>1, <4>2
    <3>2. CASE j \in 1 .. Len(L[b]) /\ M[b][j] = L[b][j]
      BY <2>1, <3>2 DEF Ordered
    <3>3. QED
      BY <1>3, <3>1, <3>2
  <2>2. CASE a = k /\ i = Len(x) + 1 /\ M[a][i] = e
    <3>1. k = 6 /\ a = b
      BY <2>2
    <3>2. j <= Len(x) + 1
      BY <1>2, <2>2, <3>1
    <3>3. QED
      BY <1>2, <2>2, <3>1, <3>2
  <2>3. QED
    BY <1>3, <2>1, <2>2
<1>6. \A a \in 1 .. 6 : \A i \in 1 .. Len(M[a]) : M[a][i] <= n + 1 /\ (e = 0 => M[a][i] <= n) /\ (a # 5 => M[a][i] # 0)
  <2> TAKE a \in 1 .. 6
  <2> TAKE i \in 1 .. Len(M[a])
  <2>1. CASE a = k /\ i = Len(x) + 1 /\ M[a][i] = e
    BY <2>1
  <2>2. CASE i \in 1 .. Len(L[a]) /\ M[a][i] = L[a][i]
    <3>1. L[a][i] \in Nat /\ L[a][i] <= n /\ (a # 5 => L[a][i] # 0)
      BY <1>4, <2>2
    <3>2. QED
      BY <2>2, <3>1
  <2>3. QED
    BY <1>3, <2>1, <2>2
<1>7. QED
  BY <1>5, <1>6 DEF Within

\* Nothing is missing: the steps of a chunk on its way.
LEMMA FullSaid ==
    ASSUME NEW h \in Seq(Nat), NEW w \in Seq(Nat), NEW q \in Seq(Nat), NEW p \in Seq(Nat), NEW f \in Seq(Nat), NEW t \in Seq(Nat),
           NEW n \in Nat, Full(h, w, q, p, f, t, n)
    PROVE  Full(h, w, q, p, f, Append(t, n + 1), n + 1)
<1> DEFINE y == Append(t, n + 1)
<1>1. Len(y) = Len(t) + 1 /\ y[Len(t) + 1] = n + 1 /\ (\A i \in 1 .. Len(t) : y[i] = t[i]) /\ Len(t) \in Nat
  BY Appended
<1> HIDE DEF y
<1>2. Len(h) \in Nat /\ Len(w) \in Nat /\ Len(q) \in Nat /\ Len(p) \in Nat /\ Len(f) \in Nat
  OBVIOUS
<1>3. \A i \in 1 .. Len(y) : y[i] = n + 1 - Len(y) + i
  <2> TAKE i \in 1 .. Len(y)
  <2>1. CASE i = Len(t) + 1
    BY <1>1, <2>1
  <2>2. CASE i \in 1 .. Len(t)
    <3>1. t[i] = n - Len(t) + i
      BY <2>2 DEF Full
    <3>2. QED
      BY <1>1, <2>2, <3>1
  <2>3. QED
    BY <1>1, <2>1, <2>2
<1>4. Len(h) + Len(w) + Len(q) + Len(p) + Len(f) + Len(y) = IF Len(f) > 0 /\ f[Len(f)] = 0 THEN n + 1 + 1 ELSE n + 1
  <2>1. Len(h) + Len(w) + Len(q) + Len(p) + Len(f) + Len(t) = IF Len(f) > 0 /\ f[Len(f)] = 0 THEN n + 1 ELSE n
    BY DEF Full
  <2>2. QED
    BY <1>1, <1>2, <2>1
<1>5. QED
  BY <1>3, <1>4 DEF Full, y

LEMMA OneOver ==
    ASSUME NEW a \in Nat, NEW x \in Nat, NEW y \in Nat, NEW n \in Nat, a + x + y = n
    PROVE  n - y + 1 = a + (x + 1) /\ a + (x + 1) + (y - 1) = n
OBVIOUS

LEMMA FullMade ==
    ASSUME NEW h \in Seq(Nat), NEW w \in Seq(Nat), NEW q \in Seq(Nat), NEW p \in Seq(Nat), NEW f \in Seq(Nat), NEW t \in Seq(Nat),
           NEW n \in Nat, Full(h, w, q, p, f, t, n), t # <<>>, t[1] # 0, \A i \in 1 .. Len(f) : f[i] # 0
    PROVE  Full(h, w, q, p, Append(f, Head(t)), Tail(t), n)
<1> DEFINE x == Append(f, Head(t))
           y == Tail(t)
<1>1. /\ Len(y) = Len(t) - 1 /\ Len(t) \in Nat \ {0} /\ \A i \in 1 .. Len(t) - 1 : y[i] = t[i + 1]
  BY Shifted
<1>2. Len(x) = Len(f) + 1 /\ x[Len(f) + 1] = t[1] /\ (\A i \in 1 .. Len(f) : x[i] = f[i]) /\ Len(f) \in Nat
  BY Appended, Shifted
<1>3. Len(h) \in Nat /\ Len(w) \in Nat /\ Len(q) \in Nat /\ Len(p) \in Nat
  OBVIOUS
<1> HIDE DEF x, y
<1>a. Len(t) \in Nat /\ Len(f) \in Nat /\ Len(y) = Len(t) - 1 /\ Len(x) = Len(f) + 1
  BY <1>1, <1>2
<1>4. Len(h) + Len(w) + Len(q) + Len(p) + Len(f) + Len(t) = n
  BY <1>2 DEF Full
<1>8. /\ n - Len(t) + 1 = Len(h) + Len(w) + Len(q) + Len(p) + (Len(f) + 1)
      /\ Len(h) + Len(w) + Len(q) + Len(p) + (Len(f) + 1) + (Len(t) - 1) = n
  <2> DEFINE a == Len(h) + Len(w) + Len(q) + Len(p)
             b == Len(f)
             c == Len(t)
  <2>1. a \in Nat /\ b \in Nat /\ c \in Nat
    BY <1>3, <1>a
  <2>2. a + b + c = n
    BY <1>4
  <2> HIDE DEF a, b, c
  <2>3. n - c + 1 = a + (b + 1) /\ a + (b + 1) + (c - 1) = n
    BY <2>1, <2>2, OneOver
  <2>4. QED
    BY <2>3 DEF a, b, c
<1>5. \A i \in 1 .. Len(y) : y[i] = n - Len(y) + i
  <2> TAKE i \in 1 .. Len(y)
  <2>1. i + 1 \in 1 .. Len(t) /\ y[i] = t[i + 1]
    BY <1>1
  <2>2. t[i + 1] = n - Len(t) + (i + 1)
    BY <2>1 DEF Full
  <2>3. QED
    BY <1>1, <2>1, <2>2
<1>6. \A i \in 1 .. Len(x) : x[i] = Len(h) + Len(w) + Len(q) + Len(p) + i
  <2> TAKE i \in 1 .. Len(x)
  <2>1. CASE i = Len(f) + 1
    <3>1. t[1] = n - Len(t) + 1
      BY <1>1 DEF Full
    <3>2. n - Len(t) + 1 = Len(h) + Len(w) + Len(q) + Len(p) + (Len(f) + 1)
      BY <1>8
    <3>3. QED
      BY <1>2, <2>1, <3>1, <3>2
  <2>2. CASE i \in 1 .. Len(f)
    BY <1>2, <2>2 DEF Full
  <2>3. QED
    BY <1>2, <2>1, <2>2
<1>7. x[Len(x)] # 0 /\ Len(h) + Len(w) + Len(q) + Len(p) + Len(x) + Len(y) = n
  <2>1. x[Len(x)] # 0
    BY <1>2
  <2>2. Len(h) + Len(w) + Len(q) + Len(p) + Len(x) + Len(y) = n
    BY <1>8, <1>a
  <2>3. QED
    BY <2>1, <2>2
<1>9. QED
  BY <1>5, <1>6, <1>7 DEF Full, x, y

LEMMA FullFinal ==
    ASSUME NEW h \in Seq(Nat), NEW w \in Seq(Nat), NEW q \in Seq(Nat), NEW p \in Seq(Nat), NEW f \in Seq(Nat),
           NEW n \in Nat, Full(h, w, q, p, f, <<>>, n), \A i \in 1 .. Len(f) : f[i] # 0
    PROVE  Full(h, w, q, p, Append(f, 0), <<>>, n)
<1> DEFINE x == Append(f, 0)
<1>2. Len(x) = Len(f) + 1 /\ x[Len(f) + 1] = 0 /\ (\A i \in 1 .. Len(f) : x[i] = f[i]) /\ Len(f) \in Nat
  BY Appended
<1>3. Len(h) \in Nat /\ Len(w) \in Nat /\ Len(q) \in Nat /\ Len(p) \in Nat /\ Len(<<>>) = 0
  OBVIOUS
<1> HIDE DEF x
<1>4. Len(h) + Len(w) + Len(q) + Len(p) + Len(f) = n
  BY <1>2, <1>3 DEF Full
<1>6. \A i \in 1 .. Len(x) : x[i] # 0 => x[i] = Len(h) + Len(w) + Len(q) + Len(p) + i
  <2> TAKE i \in 1 .. Len(x)
  <2>1. CASE i = Len(f) + 1
    BY <1>2, <2>1
  <2>2. CASE i \in 1 .. Len(f)
    BY <1>2, <2>2 DEF Full
  <2>3. i = Len(f) + 1 \/ i \in 1 .. Len(f)
    BY <1>2
  <2>4. QED
    BY <2>1, <2>2, <2>3
<1>7. Len(x) > 0 /\ x[Len(x)] = 0 /\ Len(h) + Len(w) + Len(q) + Len(p) + Len(x) + Len(<<>>) = n + 1
  BY <1>2, <1>3, <1>4
<1>8. QED
  BY <1>6, <1>7 DEF Full, x

LEMMA FullRead ==
    ASSUME NEW h \in Seq(Nat), NEW w \in Seq(Nat), NEW q \in Seq(Nat), NEW f \in Seq(Nat), NEW t \in Seq(Nat),
           NEW n \in Nat, Full(h, w, q, <<>>, f, t, n), f # <<>>, f[1] # 0
    PROVE  Full(h, w, q, <<Head(f)>>, Tail(f), t, n)
<1> DEFINE x == <<Head(f)>>
           y == Tail(f)
<1>1. /\ Len(y) = Len(f) - 1 /\ Len(f) \in Nat \ {0} /\ \A i \in 1 .. Len(f) - 1 : y[i] = f[i + 1]
  BY Shifted
<1>2. Len(x) = 1 /\ x[1] = f[1] /\ Len(<<>>) = 0
  BY Shifted
<1>3. Len(h) \in Nat /\ Len(w) \in Nat /\ Len(q) \in Nat /\ Len(t) \in Nat
  OBVIOUS
<1> HIDE DEF x, y
<1>4. Len(y) > 0 => y[Len(y)] = f[Len(f)]
  BY <1>1
<1>5. Len(y) = 0 => f[Len(f)] # 0
  <2>1. Len(y) = 0 => Len(f) = 1
    BY <1>1
  <2>2. QED
    BY <2>1
<1>6. \A i \in 1 .. Len(f) : f[i] # 0 => f[i] = Len(h) + Len(w) + Len(q) + 0 + i
  BY <1>2 DEF Full
<1>7. \A i \in 1 .. Len(y) : y[i] # 0 => y[i] = Len(h) + Len(w) + Len(q) + 1 + i
  <2> TAKE i \in 1 .. Len(y)
  <2>1. i + 1 \in 1 .. Len(f) /\ y[i] = f[i + 1]
    BY <1>1
  <2>2. QED
    BY <1>3, <1>6, <2>1
<1>8. \A i \in 1 .. Len(x) : x[i] = Len(h) + Len(w) + Len(q) + i
  <2>1. f[1] = Len(h) + Len(w) + Len(q) + 0 + 1
    BY <1>1, <1>6
  <2>2. QED
    BY <1>2, <1>3, <2>1
<1>9. Len(h) + Len(w) + Len(q) + 0 + Len(f) + Len(t) = IF Len(f) > 0 /\ f[Len(f)] = 0 THEN n + 1 ELSE n
  BY <1>2 DEF Full
<1>10. Len(h) + Len(w) + Len(q) + Len(x) + Len(y) + Len(t) = IF Len(y) > 0 /\ y[Len(y)] = 0 THEN n + 1 ELSE n
  <2>1. Len(h) + Len(w) + Len(q) + Len(x) + Len(y) + Len(t) = Len(h) + Len(w) + Len(q) + 0 + Len(f) + Len(t)
    BY <1>1, <1>2, <1>3
  <2>2. (Len(y) > 0 /\ y[Len(y)] = 0) <=> (Len(f) > 0 /\ f[Len(f)] = 0)
    <3>1. CASE Len(y) > 0
      BY <1>1, <1>4, <3>1
    <3>2. CASE Len(y) = 0
      BY <1>5, <3>2
    <3>3. QED
      BY <1>1, <3>1, <3>2
  <2>3. QED
    BY <1>9, <2>1, <2>2
<1>11. QED
  BY <1>2, <1>7, <1>8, <1>10 DEF Full, x, y

LEMMA FullPut ==
    ASSUME NEW h \in Seq(Nat), NEW w \in Seq(Nat), NEW q \in Seq(Nat), NEW f \in Seq(Nat), NEW t \in Seq(Nat),
           NEW n \in Nat, NEW e \in Nat, Full(h, w, q, <<e>>, f, t, n)
    PROVE  Full(h, w, Append(q, e), <<>>, f, t, n)
<1> DEFINE x == Append(q, e)
<1>1. Len(x) = Len(q) + 1 /\ x[Len(q) + 1] = e /\ (\A i \in 1 .. Len(q) : x[i] = q[i]) /\ Len(q) \in Nat
  BY Appended
<1> HIDE DEF x
<1>2. Len(<<e>>) = 1 /\ <<e>>[1] = e /\ Len(<<>>) = 0
  OBVIOUS
<1>3. Len(h) \in Nat /\ Len(w) \in Nat /\ Len(f) \in Nat /\ Len(t) \in Nat
  OBVIOUS
<1>4. e = Len(h) + Len(w) + Len(q) + 1
  BY <1>2 DEF Full
<1>5. \A i \in 1 .. Len(x) : x[i] = Len(h) + Len(w) + i
  <2> TAKE i \in 1 .. Len(x)
  <2>1. CASE i = Len(q) + 1
    BY <1>1, <1>3, <1>4, <2>1
  <2>2. CASE i \in 1 .. Len(q)
    BY <1>1, <2>2 DEF Full
  <2>3. QED
    BY <1>1, <2>1, <2>2
<1>6. Len(h) + Len(w) + Len(x) + 0 = Len(h) + Len(w) + Len(q) + 1
  BY <1>1, <1>3
<1>7. \A i \in 1 .. Len(f) : f[i] # 0 => f[i] = Len(h) + Len(w) + Len(x) + 0 + i
  BY <1>2, <1>6 DEF Full
<1>8. Len(h) + Len(w) + Len(x) + 0 + Len(f) + Len(t) = IF Len(f) > 0 /\ f[Len(f)] = 0 THEN n + 1 ELSE n
  BY <1>2, <1>6 DEF Full
<1>9. (\A i \in 1 .. Len(h) : h[i] = i) /\ (\A i \in 1 .. Len(w) : w[i] = Len(h) + i) /\ \A i \in 1 .. Len(t) : t[i] = n - Len(t) + i
  BY DEF Full
<1>10. \A i \in 1 .. Len(<<>>) : FALSE
  BY <1>2
<1>11. Full(h, w, x, <<>>, f, t, n)
  BY <1>2, <1>5, <1>7, <1>8, <1>9, <1>10 DEF Full
<1>12. QED
  BY <1>11 DEF x

LEMMA FullTaken ==
    ASSUME NEW h \in Seq(Nat), NEW q \in Seq(Nat), NEW p \in Seq(Nat), NEW f \in Seq(Nat), NEW t \in Seq(Nat),
           NEW n \in Nat, Full(h, <<>>, q, p, f, t, n), q # <<>>
    PROVE  Full(h, <<Head(q)>>, Tail(q), p, f, t, n)
<1> DEFINE x == <<Head(q)>>
           y == Tail(q)
<1>1. /\ Len(y) = Len(q) - 1 /\ Len(q) \in Nat \ {0} /\ \A i \in 1 .. Len(q) - 1 : y[i] = q[i + 1]
  BY Shifted
<1>2. Len(x) = 1 /\ x[1] = q[1] /\ Len(<<>>) = 0
  BY Shifted
<1>3. Len(h) \in Nat /\ Len(p) \in Nat /\ Len(f) \in Nat /\ Len(t) \in Nat
  OBVIOUS
<1> HIDE DEF x, y
<1>4. \A i \in 1 .. Len(q) : q[i] = Len(h) + 0 + i
  BY <1>2 DEF Full
<1>5. \A i \in 1 .. Len(y) : y[i] = Len(h) + Len(x) + i
  <2> TAKE i \in 1 .. Len(y)
  <2>1. i + 1 \in 1 .. Len(q) /\ y[i] = q[i + 1]
    BY <1>1
  <2>2. QED
    BY <1>2, <1>3, <1>4, <2>1
<1>6. \A i \in 1 .. Len(x) : x[i] = Len(h) + i
  <2>1. q[1] = Len(h) + 0 + 1
    BY <1>1, <1>4
  <2>2. QED
    BY <1>2, <1>3, <2>1
<1>7. Len(h) + Len(x) + Len(y) = Len(h) + 0 + Len(q)
  BY <1>1, <1>2, <1>3
<1>8. QED
  BY <1>2, <1>3, <1>5, <1>6, <1>7 DEF Full, x, y

LEMMA FullHeard ==
    ASSUME NEW h \in Seq(Nat), NEW q \in Seq(Nat), NEW p \in Seq(Nat), NEW f \in Seq(Nat), NEW t \in Seq(Nat),
           NEW n \in Nat, NEW e \in Nat, Full(h, <<e>>, q, p, f, t, n)
    PROVE  Full(Append(h, e), <<>>, q, p, f, t, n)
<1> DEFINE x == Append(h, e)
<1>1. Len(x) = Len(h) + 1 /\ x[Len(h) + 1] = e /\ (\A i \in 1 .. Len(h) : x[i] = h[i]) /\ Len(h) \in Nat
  BY Appended
<1> HIDE DEF x
<1>2. Len(<<e>>) = 1 /\ <<e>>[1] = e /\ Len(<<>>) = 0
  OBVIOUS
<1>3. Len(q) \in Nat /\ Len(p) \in Nat /\ Len(f) \in Nat /\ Len(t) \in Nat
  OBVIOUS
<1>4. e = Len(h) + 1
  BY <1>2 DEF Full
<1>5. \A i \in 1 .. Len(x) : x[i] = i
  <2> TAKE i \in 1 .. Len(x)
  <2>1. CASE i = Len(h) + 1
    BY <1>1, <1>4, <2>1
  <2>2. CASE i \in 1 .. Len(h)
    BY <1>1, <2>2 DEF Full
  <2>3. QED
    BY <1>1, <2>1, <2>2
<1>6. Len(x) + 0 = Len(h) + 1
  BY <1>1
<1>7. QED
  BY <1>2, <1>3, <1>5, <1>6 DEF Full, x

LEMMA FullEnded ==
    ASSUME NEW h \in Seq(Nat), NEW w \in Seq(Nat), NEW q \in Seq(Nat), NEW f \in Seq(Nat), NEW n \in Nat,
           Full(h, w, q, <<>>, f, <<>>, n), Len(f) = 1, f[1] = 0
    PROVE  Full(h, w, q, <<>>, <<>>, <<>>, n)
<1>1. Len(<<>>) = 0 /\ \A i \in 1 .. Len(<<>>) : FALSE
  OBVIOUS
<1>2. Len(h) \in Nat /\ Len(w) \in Nat /\ Len(q) \in Nat
  OBVIOUS
<1>3. Len(h) + Len(w) + Len(q) + 0 + 1 + 0 = n + 1
  BY <1>1 DEF Full
<1>4. Len(h) + Len(w) + Len(q) + 0 + 0 + 0 = n
  <2> DEFINE a == Len(h) + Len(w) + Len(q)
  <2>1. a \in Nat /\ a + 0 + 1 + 0 = n + 1
    BY <1>2, <1>3
  <2> HIDE DEF a
  <2>2. a + 0 + 0 + 0 = n
    BY <2>1
  <2>3. QED
    BY <2>2 DEF a
<1>5. QED
  BY <1>1, <1>4 DEF Full

\* With nothing on its way any more, all that was said is before the client.
LEMMA FullIsAll ==
    ASSUME NEW h \in Seq(Nat), NEW w \in Seq(Nat), NEW q \in Seq(Nat), NEW s \in Seq(Nat),
           Full(h, w, q, <<>>, <<>>, <<>>, Len(s)), \A i \in 1 .. Len(s) : s[i] = i
    PROVE  h \o (w \o q) = s
<1> DEFINE x == w \o q
           y == h \o x
<1>1. /\ x \in Seq(Nat) /\ Len(x) = Len(w) + Len(q)
      /\ \A i \in 1 .. Len(w) + Len(q) : x[i] = IF i <= Len(w) THEN w[i] ELSE q[i - Len(w)]
  BY ConcatProperties
<1> HIDE DEF x
<1>2. /\ y \in Seq(Nat) /\ Len(y) = Len(h) + Len(x)
      /\ \A i \in 1 .. Len(h) + Len(x) : y[i] = IF i <= Len(h) THEN h[i] ELSE x[i - Len(h)]
  BY <1>1, ConcatProperties
<1> HIDE DEF y
<1>3. Len(h) \in Nat /\ Len(w) \in Nat /\ Len(q) \in Nat /\ Len(<<>>) = 0 /\ Len(s) \in Nat /\ Len(x) \in Nat
  BY <1>1
<1>4. /\ \A i \in 1 .. Len(h) : h[i] = i
      /\ \A i \in 1 .. Len(w) : w[i] = Len(h) + i
      /\ \A i \in 1 .. Len(q) : q[i] = Len(h) + Len(w) + i
      /\ Len(h) + Len(w) + Len(q) + 0 + 0 + 0 = Len(s)
  BY <1>3 DEF Full
<1>5. \A i \in 1 .. Len(x) : x[i] = Len(h) + i
  <2> TAKE i \in 1 .. Len(x)
  <2>1. CASE i <= Len(w)
    <3>1. i \in 1 .. Len(w) /\ i \in 1 .. Len(w) + Len(q)
      BY <1>1, <1>3, <2>1
    <3>2. x[i] = w[i]
      BY <1>1, <2>1, <3>1
    <3>3. QED
      BY <1>4, <3>1, <3>2
  <2>2. CASE ~(i <= Len(w))
    <3>1. i - Len(w) \in 1 .. Len(q) /\ x[i] = q[i - Len(w)]
      BY <1>1, <1>3, <2>2
    <3>2. q[i - Len(w)] = Len(h) + Len(w) + (i - Len(w))
      BY <1>4, <3>1
    <3>3. QED
      BY <1>3, <3>1, <3>2
  <2>3. QED
    BY <2>1, <2>2
<1>6. \A i \in 1 .. Len(y) : y[i] = i
  <2> TAKE i \in 1 .. Len(y)
  <2>1. CASE i <= Len(h)
    <3>1. i \in 1 .. Len(h) /\ i \in 1 .. Len(h) + Len(x)
      BY <1>2, <1>3, <2>1
    <3>2. y[i] = h[i]
      BY <1>2, <2>1, <3>1
    <3>3. QED
      BY <1>4, <3>1, <3>2
  <2>2. CASE ~(i <= Len(h))
    <3>1. i - Len(h) \in 1 .. Len(x) /\ y[i] = x[i - Len(h)]
      BY <1>2, <1>3, <2>2
    <3>2. x[i - Len(h)] = Len(h) + (i - Len(h))
      BY <1>5, <3>1
    <3>3. QED
      BY <1>3, <3>1, <3>2
  <2>3. QED
    BY <2>1, <2>2
<1>7. Len(y) = Len(s)
  BY <1>1, <1>2, <1>3, <1>4
<1>8. y = s
  BY <1>2, <1>6, <1>7, SeqEqual
<1>9. QED
  BY <1>8 DEF x, y

\* A sequence of numbers all of which are in S.
LEMMA SeqOf ==
    ASSUME NEW S, NEW s \in Seq(Nat), \A i \in 1 .. Len(s) : s[i] \in S
    PROVE  s \in Seq(S)
OBVIOUS

\* The places, and what they hold.
LEMMA PlacesAre ==
    ASSUME NEW x \in [pc : {"none", "receive", "write", "done"}, got : Nat], NEW y \in [pc : {"none", "read", "put", "done"}, got : Nat]
    PROVE  /\ SaidOf(x) \in Seq(Nat) /\ HeldOf(y) \in Seq(Nat)
           /\ SaidOf(x) = (IF x.pc = "write" THEN <<x.got>> ELSE <<>>) /\ HeldOf(y) = (IF y.pc = "put" THEN <<y.got>> ELSE <<>>)
BY DEF SaidOf, HeldOf

Before == WayOf(heard, Said, audioCh.held, Held, socket.frames, socket.texts)
After == WayOf(heard', Said', audioCh'.held, Held', socket'.frames, socket'.texts)

LEMMA BeforeIs == ASSUME VoiceTypes PROVE IsWay(Before, heard, Said, audioCh.held, Held, socket.frames, socket.texts)
<1>1. Said \in Seq(Nat) /\ Held \in Seq(Nat)
  BY PlacesAre DEF VoiceTypes, Said, Held
<1>2. heard \in Seq(Nat) /\ audioCh.held \in Seq(Nat) /\ socket.frames \in Seq(Nat) /\ socket.texts \in Seq(Nat)
  BY DEF VoiceTypes
<1>3. QED
  BY <1>1, <1>2, WayIs DEF Before

LEMMA AfterIs == ASSUME VoiceTypes' PROVE IsWay(After, heard', Said', audioCh'.held, Held', socket'.frames, socket'.texts)
<1>1. Said' \in Seq(Nat) /\ Held' \in Seq(Nat)
  BY PlacesAre DEF VoiceTypes, Said, Held
<1>2. heard' \in Seq(Nat) /\ audioCh'.held \in Seq(Nat) /\ socket'.frames \in Seq(Nat) /\ socket'.texts \in Seq(Nat)
  BY DEF VoiceTypes
<1>3. QED
  BY <1>1, <1>2, WayIs DEF After

\* What a step has to show of the places, the types apart.
LEMMA Assembled ==
    ASSUME VoiceTypes', VoiceLives', Ordered(After), Within(After, Len(spoken')),
           ~troubled' => Full(heard', Said', audioCh'.held, Held', socket'.frames, socket'.texts, Len(spoken'))
    PROVE  VoiceInv'
BY DEF VoiceInv, Sound, After

\* A step that leaves the places as they are.
LEMMA PlacesKept ==
    ASSUME VoiceInv, VoiceTypes', VoiceLives',
           UNCHANGED <<heard, Said, audioCh.held, Held, socket.frames, socket.texts, spoken>>, troubled => troubled'
    PROVE  VoiceInv'
BY DEF VoiceInv

-----------------------------------------------------------------------------

\* The connection to ElevenLabs.
LEMMA ConnectStep == ASSUME VoiceInv, Voice!Connect PROVE VoiceInv'
<1>1. turn.pc = "connect" /\ UNCHANGED <<audioCh, spoken, heard>>
  BY DEF Voice!Connect
<1>2. VoiceTypes /\ VoiceLives
  BY DEF VoiceInv
<1>3. CASE /\ turn' = [turn EXCEPT !.pc = "speak"] /\ socket' = [socket EXCEPT !.open = TRUE]
           /\ reader' = [reader EXCEPT !.pc = "read"] /\ forwarder' = [forwarder EXCEPT !.pc = "receive"]
           /\ UNCHANGED troubled
  <2>1. /\ turn'.pc = "speak" /\ turn'.waited = turn.waited /\ reader'.pc = "read" /\ forwarder'.pc = "receive" /\ socket'.open
        /\ socket'.frames = socket.frames /\ socket'.texts = socket.texts /\ socket'.ended = socket.ended
        /\ reader.pc = "none" /\ forwarder.pc = "none"
    BY <1>1, <1>2, <1>3 DEF VoiceTypes, VoiceLives
  <2>2. VoiceTypes'
    <3>1. turn' \in [pc : {"connect", "speak", "wait", "close", "over"}, waited : Nat] /\ turn'.waited <= Patience
      BY <1>2, <1>3 DEF VoiceTypes
    <3>2. reader' \in [pc : {"none", "read", "put", "done"}, got : Nat] /\ forwarder' \in [pc : {"none", "receive", "write", "done"}, got : Nat]
      BY <1>2, <1>3 DEF VoiceTypes
    <3>3. socket' \in [open : BOOLEAN, texts : Seq(Nat), frames : Seq(Nat), ended : BOOLEAN]
      BY <1>2, <1>3 DEF VoiceTypes
    <3>4. QED
      BY <1>1, <1>2, <1>3, <3>1, <3>2, <3>3 DEF VoiceTypes
  <2>3. VoiceLives'
    BY <1>1, <1>2, <1>3, <2>1 DEF VoiceLives
  <2>4. UNCHANGED <<Said, Held>>
    BY <2>1 DEF Said, Held, SaidOf, HeldOf
  <2>5. QED
    BY <1>1, <1>3, <2>1, <2>2, <2>3, <2>4, PlacesKept
<1>4. CASE turn' = [turn EXCEPT !.pc = "over"] /\ troubled' = TRUE /\ UNCHANGED <<socket, reader, forwarder>>
  <2>1. turn'.pc = "over" /\ turn'.waited = turn.waited /\ turn' \in [pc : {"connect", "speak", "wait", "close", "over"}, waited : Nat]
    BY <1>2, <1>4 DEF VoiceTypes
  <2>2. VoiceTypes'
    BY <1>1, <1>2, <1>4, <2>1 DEF VoiceTypes
  <2>3. VoiceLives'
    BY <1>1, <1>2, <1>4, <2>1 DEF VoiceLives
  <2>4. UNCHANGED <<Said, Held>>
    BY <1>4 DEF Said, Held
  <2>5. QED
    BY <1>1, <1>4, <2>2, <2>3, <2>4, PlacesKept
<1>5. QED
  BY <1>3, <1>4 DEF Voice!Connect

\* The turn goes on, and leaves the places as they are.
LEMMA TurnGoesOn ==
    ASSUME VoiceInv, UNCHANGED <<reader, forwarder, spoken, heard>>,
           NEW c \in {"wait", "close", "over"}, NEW n \in Nat, n <= Patience, turn' = [pc |-> c, waited |-> n],
           audioCh' \in [held : Seq(Nat), closed : BOOLEAN], audioCh'.held = audioCh.held, troubled' \in BOOLEAN, troubled => troubled',
           socket' \in [open : BOOLEAN, texts : Seq(Nat), frames : Seq(Nat), ended : BOOLEAN],
           socket'.texts = socket.texts, socket'.frames = socket.frames, VoiceLives'
    PROVE  VoiceInv'
<1>1. VoiceTypes'
  <2>1. turn' \in [pc : {"connect", "speak", "wait", "close", "over"}, waited : Nat] /\ turn'.waited <= Patience
    OBVIOUS
  <2>2. QED
    BY <2>1 DEF VoiceInv, VoiceTypes
<1>2. UNCHANGED <<Said, Held>>
  BY DEF Said, Held
<1>3. QED
  BY <1>1, <1>2, PlacesKept

LEMMA DisposeStep == ASSUME VoiceInv, Voice!Dispose PROVE VoiceInv'
<1>1. /\ turn.pc = "speak" /\ turn' = [turn EXCEPT !.pc = "wait"] /\ UNCHANGED <<reader, forwarder, audioCh, spoken, heard, troubled>>
      /\ socket' = IF socket.open THEN [socket EXCEPT !.ended = TRUE] ELSE socket
  BY DEF Voice!Dispose
<1>2. VoiceTypes /\ VoiceLives
  BY DEF VoiceInv
<1>3. turn' = [pc |-> "wait", waited |-> turn.waited] /\ turn.waited \in Nat /\ turn.waited <= Patience
  BY <1>1, <1>2 DEF VoiceTypes
<1>4. /\ socket' \in [open : BOOLEAN, texts : Seq(Nat), frames : Seq(Nat), ended : BOOLEAN]
      /\ socket'.texts = socket.texts /\ socket'.frames = socket.frames /\ socket'.open = socket.open /\ (socket.ended => socket'.ended)
  BY <1>1, <1>2 DEF VoiceTypes
<1>5. VoiceLives'
  BY <1>1, <1>2, <1>3, <1>4 DEF VoiceLives
<1>6. QED
  BY <1>1, <1>2, <1>3, <1>4, <1>5, TurnGoesOn DEF VoiceTypes

LEMMA TickStep == ASSUME VoiceInv, Voice!Tick PROVE VoiceInv'
<1>1. /\ turn.pc = "wait" /\ turn.waited < Patience /\ turn' = [turn EXCEPT !.waited = turn.waited + 1]
      /\ UNCHANGED <<reader, forwarder, audioCh, socket, spoken, heard, troubled>>
  BY DEF Voice!Tick
<1>2. VoiceTypes /\ VoiceLives
  BY DEF VoiceInv
<1>3. turn' = [pc |-> "wait", waited |-> turn.waited + 1] /\ turn.waited + 1 \in Nat /\ turn.waited + 1 <= Patience
  <2>1. turn \in [pc : {"connect", "speak", "wait", "close", "over"}, waited : Nat]
    BY <1>2 DEF VoiceTypes
  <2>2. turn' = [pc |-> "wait", waited |-> turn.waited + 1]
    BY <1>1, <2>1
  <2>3. turn.waited \in Nat
    BY <2>1
  <2>4. QED
    <3>1. turn.waited + 1 \in Nat /\ turn.waited + 1 <= Patience
      BY VoiceAssumption, <1>1, <2>3
    <3>2. QED
      BY <2>2, <3>1
<1>4. VoiceLives'
  BY <1>1, <1>2, <1>3 DEF VoiceLives
<1>5. QED
  BY <1>1, <1>2, <1>3, <1>4, TurnGoesOn DEF VoiceTypes

LEMMA CloseChannelStep == ASSUME VoiceInv, Voice!CloseChannel PROVE VoiceInv'
<1>1. /\ turn.pc = "close" /\ reader.pc = "done" /\ turn' = [turn EXCEPT !.pc = "over"]
      /\ audioCh' = [audioCh EXCEPT !.closed = TRUE] /\ UNCHANGED <<reader, forwarder, socket, spoken, heard, troubled>>
  BY DEF Voice!CloseChannel
<1>2. VoiceTypes /\ VoiceLives
  BY DEF VoiceInv
<1>3. turn' = [pc |-> "over", waited |-> turn.waited] /\ turn.waited \in Nat /\ turn.waited <= Patience
  BY <1>1, <1>2 DEF VoiceTypes
<1>4. audioCh' \in [held : Seq(Nat), closed : BOOLEAN] /\ audioCh'.held = audioCh.held
  BY <1>1, <1>2 DEF VoiceTypes
<1>5. VoiceLives'
  BY <1>1, <1>2, <1>3 DEF VoiceLives
<1>6. QED
  BY <1>1, <1>2, <1>3, <1>4, <1>5, TurnGoesOn DEF VoiceTypes

\* The connection is gone: what was on its way is lost.
LEMMA AudioLost ==
    ASSUME VoiceInv, UNCHANGED <<reader, forwarder, audioCh, spoken, heard>>, VoiceTypes', VoiceLives',
           socket'.frames = <<>>, socket'.texts = socket.texts,
           troubled' \/ (~troubled /\ socket.frames = <<>>)
    PROVE  VoiceInv'
<1>1. UNCHANGED <<Said, Held>>
  BY DEF Said, Held
<1>2. CASE ~troubled' /\ socket.frames = <<>>
  BY <1>1, <1>2, PlacesKept
<1>3. CASE troubled'
  <2>1. IsWay(Before, heard, Said, audioCh.held, Held, socket.frames, socket.texts)
    BY BeforeIs DEF VoiceInv
  <2>2. IsWay(After, heard, Said, audioCh.held, Held, <<>>, socket.texts)
    BY <1>1, AfterIs
  <2>3. Ordered(Before) /\ Within(Before, Len(spoken)) /\ Len(spoken) \in Nat
    BY DEF VoiceInv, Sound, Before, VoiceTypes
  <2>4. Before \in Ways /\ After \in Ways /\ Before[5] = socket.frames /\ After[5] = <<>> /\ \A a \in (1 .. 6) \ {5} : After[a] = Before[a]
    BY <2>1, <2>2 DEF IsWay
  <2>5. Ordered(After) /\ Within(After, Len(spoken))
    BY <2>3, <2>4, Thinned
  <2>6. QED
    BY <1>3, <2>5, Assembled
<1>4. QED
  BY <1>2, <1>3

LEMMA BreakStep == ASSUME VoiceInv, Voice!Break PROVE VoiceInv'
<1>1. /\ socket.open /\ socket' = [socket EXCEPT !.open = FALSE, !.frames = <<>>] /\ troubled' = TRUE
      /\ UNCHANGED <<turn, reader, forwarder, audioCh, spoken, heard>>
  BY DEF Voice!Break
<1>2. VoiceTypes /\ VoiceLives
  BY DEF VoiceInv
<1>3. /\ socket' \in [open : BOOLEAN, texts : Seq(Nat), frames : Seq(Nat), ended : BOOLEAN]
      /\ socket'.texts = socket.texts /\ socket'.frames = <<>> /\ socket'.ended = socket.ended
  <2>1. socket \in [open : BOOLEAN, texts : Seq(Nat), frames : Seq(Nat), ended : BOOLEAN] /\ <<>> \in Seq(Nat)
    BY <1>2 DEF VoiceTypes
  <2>2. socket' = [open |-> FALSE, texts |-> socket.texts, frames |-> <<>>, ended |-> socket.ended]
    BY <1>1, <2>1
  <2>3. QED
    BY <2>1, <2>2
<1>4. VoiceTypes'
  BY <1>1, <1>2, <1>3 DEF VoiceTypes
<1>5. VoiceLives'
  <2>1. \A i \in 1 .. Len(socket'.frames) : FALSE
    BY <1>3
  <2>2. QED
    BY <1>1, <1>2, <1>3, <2>1 DEF VoiceLives
<1>6. QED
  BY <1>1, <1>3, <1>4, <1>5, AudioLost

LEMMA CancelStep == ASSUME VoiceInv, Voice!Cancel PROVE VoiceInv'
<1>1. /\ turn.pc = "wait" /\ turn' = [turn EXCEPT !.pc = "close"] /\ socket' = [socket EXCEPT !.open = FALSE, !.frames = <<>>]
      /\ troubled' = (troubled \/ reader.pc # "done") /\ UNCHANGED <<reader, forwarder, audioCh, spoken, heard>>
  BY DEF Voice!Cancel
<1>2. VoiceTypes /\ VoiceLives
  BY DEF VoiceInv
<1>3. /\ socket' \in [open : BOOLEAN, texts : Seq(Nat), frames : Seq(Nat), ended : BOOLEAN]
      /\ socket'.texts = socket.texts /\ socket'.frames = <<>> /\ socket'.ended = socket.ended
  <2>1. socket \in [open : BOOLEAN, texts : Seq(Nat), frames : Seq(Nat), ended : BOOLEAN] /\ <<>> \in Seq(Nat)
    BY <1>2 DEF VoiceTypes
  <2>2. socket' = [open |-> FALSE, texts |-> socket.texts, frames |-> <<>>, ended |-> socket.ended]
    BY <1>1, <2>1
  <2>3. QED
    BY <2>1, <2>2
<1>4. turn'.pc = "close" /\ turn'.waited = turn.waited /\ turn' \in [pc : {"connect", "speak", "wait", "close", "over"}, waited : Nat]
  BY <1>1, <1>2 DEF VoiceTypes
<1>5. VoiceTypes'
  BY <1>1, <1>2, <1>3, <1>4 DEF VoiceTypes
<1>6. troubled' \/ (~troubled /\ reader.pc = "done" /\ socket.frames = <<>> /\ socket.texts = <<>>)
  BY <1>1, <1>2 DEF VoiceLives
<1>7. VoiceLives'
  <2>1. \A i \in 1 .. Len(socket'.frames) : FALSE
    BY <1>3
  <2>2. QED
    BY <1>1, <1>2, <1>3, <1>4, <1>6, <2>1 DEF VoiceLives
<1>8. QED
  BY <1>1, <1>3, <1>5, <1>6, <1>7, AudioLost

\* One more chunk is said.
LEMMA SpeakStep == ASSUME VoiceInv, Voice!Speak PROVE VoiceInv'
<1> DEFINE n == Len(spoken)
           x == socket.texts
<1>1. /\ turn.pc = "speak" /\ n < MaxChunks /\ spoken' = Append(spoken, n + 1) /\ UNCHANGED <<turn, reader, forwarder, audioCh, heard>>
      /\ IF socket.open THEN socket' = [socket EXCEPT !.texts = Append(x, n + 1)] /\ UNCHANGED troubled
         ELSE troubled' = TRUE /\ UNCHANGED socket
  BY DEF Voice!Speak
<1>2. VoiceTypes /\ VoiceLives
  BY DEF VoiceInv
<1>3. n \in Nat /\ x \in Seq(Nat) /\ Len(x) \in Nat /\ spoken \in Seq(Nat)
  BY <1>2 DEF VoiceTypes
<1>4. spoken' \in Seq(Nat) /\ Len(spoken') = n + 1 /\ \A i \in 1 .. n + 1 : spoken'[i] = i
  <2>1. \A i \in 1 .. n : spoken[i] = i
    BY <1>2 DEF VoiceTypes
  <2>2. \A i \in 1 .. n + 1 : spoken'[i] = IF i = n + 1 THEN n + 1 ELSE spoken[i]
    BY <1>1, <1>3, Appended
  <2>3. QED
    BY <1>1, <1>3, <2>1, <2>2, Appended
<1>5. /\ socket' \in [open : BOOLEAN, texts : Seq(Nat), frames : Seq(Nat), ended : BOOLEAN]
      /\ socket'.frames = socket.frames /\ socket'.open = socket.open /\ socket'.ended = socket.ended
      /\ socket'.texts = IF socket.open THEN Append(x, n + 1) ELSE x
  <2>1. Append(x, n + 1) \in Seq(Nat)
    BY <1>3, Appended
  <2>2. QED
    BY <1>1, <1>2, <2>1 DEF VoiceTypes
<1>6. VoiceTypes'
  <2>1. n + 1 <= MaxChunks
    BY VoiceAssumption, <1>1, <1>3
  <2>2. troubled' \in BOOLEAN
    BY <1>1, <1>2 DEF VoiceTypes
  <2>3. \A i \in 1 .. Len(spoken') : spoken'[i] = i
    BY <1>4
  <2>4. Len(spoken') <= MaxChunks
    BY <1>4, <2>1
  <2>5. QED
    BY <1>1, <1>2, <1>4, <1>5, <2>2, <2>3, <2>4 DEF VoiceTypes
<1>7. VoiceLives'
  BY <1>1, <1>2, <1>5 DEF VoiceLives
<1>8. UNCHANGED <<Said, Held>>
  BY <1>1 DEF Said, Held
<1>9. IsWay(Before, heard, Said, audioCh.held, Held, socket.frames, x)
  BY <1>2, BeforeIs
<1>10. IsWay(After, heard, Said, audioCh.held, Held, socket.frames, socket'.texts)
  BY <1>1, <1>5, <1>6, <1>8, AfterIs
<1>11. Ordered(Before) /\ Within(Before, n)
  BY DEF VoiceInv, Sound, Before
<1>12. CASE socket.open
  <2>1. Before \in Ways /\ After \in Ways /\ Grows(Before, After, 6, n + 1)
    BY <1>5, <1>9, <1>10, <1>12 DEF IsWay, Grows
  <2>2. Ordered(After) /\ Within(After, n + 1)
    <3>1. n + 1 \in Nat
      BY <1>3
    <3> HIDE DEF x, n
    <3>2. QED
      BY <1>3, <1>11, <2>1, <3>1, Longer
  <2>3. ASSUME ~troubled'
        PROVE  Full(heard', Said', audioCh'.held, Held', socket'.frames, socket'.texts, Len(spoken'))
    <3>1. Full(heard, Said, audioCh.held, Held, socket.frames, x, n)
      BY <1>1, <1>12, <2>3 DEF VoiceInv
    <3>2. heard \in Seq(Nat) /\ Said \in Seq(Nat) /\ audioCh.held \in Seq(Nat) /\ Held \in Seq(Nat) /\ socket.frames \in Seq(Nat)
      BY <1>9, WaysAre DEF IsWay
    <3>3. Full(heard, Said, audioCh.held, Held, socket.frames, Append(x, n + 1), n + 1)
      BY <1>3, <3>1, <3>2, FullSaid
    <3>4. QED
      BY <1>1, <1>4, <1>5, <1>8, <1>12, <3>3
  <2>4. QED
    BY <1>4, <1>6, <1>7, <2>2, <2>3, Assembled
<1>13. CASE ~socket.open
  <2>1. After = Before
    BY <1>1, <1>5, <1>8, <1>13 DEF After, Before
  <2>2. Within(Before, n + 1)
    <3>1. \A a \in 1 .. 6 : \A i \in 1 .. Len(Before[a]) : Before[a][i] \in Nat
      BY <1>9, WaysAre DEF IsWay
    <3>2. QED
      BY <1>3, <1>11, <3>1 DEF Within
  <2>3. QED
    BY <1>1, <1>4, <1>6, <1>7, <1>11, <1>13, <2>1, <2>2, Assembled
<1>14. QED
  BY <1>12, <1>13

\* The reader has a chunk, or ends.
LEMMA ReadStep == ASSUME VoiceInv, Voice!Read PROVE VoiceInv'
<1> DEFINE f == socket.frames
<1>1. reader.pc = "read" /\ UNCHANGED <<turn, forwarder, audioCh, spoken, heard, troubled>>
  BY DEF Voice!Read
<1>2. VoiceTypes /\ VoiceLives
  BY DEF VoiceInv
<1>3. /\ socket \in [open : BOOLEAN, texts : Seq(Nat), frames : Seq(Nat), ended : BOOLEAN] /\ f \in Seq(Nat)
      /\ reader \in [pc : {"none", "read", "put", "done"}, got : Nat]
  BY <1>2 DEF VoiceTypes
<1>4. Said' = Said /\ Held = <<>>
  BY <1>1 DEF Said, Held, HeldOf
<1>5. IsWay(Before, heard, Said, audioCh.held, <<>>, f, socket.texts)
  BY <1>2, <1>4, BeforeIs
<1>6. Ordered(Before) /\ Within(Before, Len(spoken)) /\ Len(spoken) \in Nat
  BY <1>2 DEF VoiceInv, Sound, Before, VoiceTypes
<1>7. ~troubled => Full(heard, Said, audioCh.held, <<>>, f, socket.texts, Len(spoken))
  BY <1>4 DEF VoiceInv
<1>8. CASE f # <<>> /\ Head(f) = 0
  <2>1. socket' = [socket EXCEPT !.frames = Tail(f)] /\ reader' = [reader EXCEPT !.pc = "done"]
    BY <1>8 DEF Voice!Read, Voice!Final
  <2>2. Len(f) = 1 /\ socket.texts = <<>> /\ socket.ended /\ Tail(f) = <<>> /\ f[1] = 0
    <3>1. f[1] = 0 /\ Len(f) \in Nat \ {0}
      BY <1>3, <1>8, Shifted
    <3>2. 1 = Len(f) /\ socket.texts = <<>> /\ socket.ended
      <4>1. \A i \in 1 .. Len(f) : f[i] = 0 => i = Len(f) /\ socket.texts = <<>> /\ socket.ended
        BY <1>2 DEF VoiceLives
      <4>2. 1 \in 1 .. Len(f)
        BY <3>1
      <4>3. QED
        BY <3>1, <4>1, <4>2
    <3>3. Tail(f) \in Seq(Nat) /\ Len(Tail(f)) = 0
      BY <1>3, <1>8, <3>2, Shifted
    <3>4. Tail(f) = <<>>
      <4> DEFINE y == Tail(f)
      <4>1. y \in Seq(Nat) /\ Len(y) = 0
        BY <3>3
      <4> HIDE DEF y
      <4>2. y = <<>>
        BY <4>1
      <4>3. QED
        BY <4>2 DEF y
    <3>5. QED
      BY <3>1, <3>2, <3>4
  <2>3. /\ socket' \in [open : BOOLEAN, texts : Seq(Nat), frames : Seq(Nat), ended : BOOLEAN]
        /\ socket'.open = socket.open /\ socket'.texts = <<>> /\ socket'.frames = <<>> /\ socket'.ended
    BY <1>3, <2>1, <2>2
  <2>4. reader'.pc = "done" /\ reader' \in [pc : {"none", "read", "put", "done"}, got : Nat]
    BY <1>3, <2>1
  <2>5. VoiceTypes'
    BY <1>1, <1>2, <2>3, <2>4 DEF VoiceTypes
  <2>6. VoiceLives'
    <3>1. \A i \in 1 .. Len(socket'.frames) : FALSE
      BY <2>3
    <3>2. QED
      BY <1>1, <1>2, <2>2, <2>3, <2>4, <3>1 DEF VoiceLives
  <2>7. Held' = <<>>
    BY <2>4 DEF Held, HeldOf
  <2>8. IsWay(After, heard, Said, audioCh.held, <<>>, <<>>, socket.texts)
    BY <1>1, <1>4, <2>2, <2>3, <2>5, <2>7, AfterIs
  <2>9. Before \in Ways /\ After \in Ways /\ Before[5] = f /\ After[5] = <<>> /\ \A a \in (1 .. 6) \ {5} : After[a] = Before[a]
    BY <1>5, <2>8 DEF IsWay
  <2>10. Ordered(After) /\ Within(After, Len(spoken))
    BY <1>6, <2>9, Thinned
  <2>11. ~troubled => Full(heard, Said, audioCh.held, <<>>, <<>>, <<>>, Len(spoken))
    <3> SUFFICES ASSUME ~troubled PROVE Full(heard, Said, audioCh.held, <<>>, <<>>, <<>>, Len(spoken))
      OBVIOUS
    <3>1. heard \in Seq(Nat) /\ Said \in Seq(Nat) /\ audioCh.held \in Seq(Nat)
      BY <1>5, WaysAre DEF IsWay
    <3>2. Full(heard, Said, audioCh.held, <<>>, f, <<>>, Len(spoken))
      BY <1>7, <2>2
    <3>3. QED
      BY <1>3, <1>6, <2>2, <3>1, <3>2, FullEnded
  <2>12. QED
    BY <1>1, <1>4, <2>3, <2>5, <2>6, <2>7, <2>10, <2>11, Assembled
<1>9. CASE f # <<>> /\ Head(f) # 0
  <2>1. socket' = [socket EXCEPT !.frames = Tail(f)] /\ reader' = [pc |-> "put", got |-> Head(f)]
    BY <1>9 DEF Voice!Read, Voice!Final
  <2>2. /\ Head(f) = f[1] /\ f[1] # 0 /\ Head(f) \in Nat /\ Tail(f) \in Seq(Nat) /\ Len(f) \in Nat \ {0} /\ Len(Tail(f)) = Len(f) - 1
        /\ \A i \in 1 .. Len(f) - 1 : Tail(f)[i] = f[i + 1]
    BY <1>3, <1>9, Shifted
  <2>3. /\ socket' \in [open : BOOLEAN, texts : Seq(Nat), frames : Seq(Nat), ended : BOOLEAN]
        /\ socket'.open = socket.open /\ socket'.texts = socket.texts /\ socket'.frames = Tail(f) /\ socket'.ended = socket.ended
    BY <1>3, <2>1, <2>2
  <2>4. reader'.pc = "put" /\ reader'.got = Head(f) /\ reader' \in [pc : {"none", "read", "put", "done"}, got : Nat]
    BY <2>1, <2>2
  <2>5. VoiceTypes'
    BY <1>1, <1>2, <2>3, <2>4 DEF VoiceTypes
  <2>6. VoiceLives'
    <3>1. \A i \in 1 .. Len(socket'.frames) : socket'.frames[i] = 0 => i = Len(socket'.frames) /\ socket.texts = <<>> /\ socket.ended
      <4> TAKE i \in 1 .. Len(socket'.frames)
      <4>1. i + 1 \in 1 .. Len(f) /\ socket'.frames[i] = f[i + 1] /\ (i + 1 = Len(f) => i = Len(socket'.frames))
        BY <2>2, <2>3
      <4>2. QED
        BY <1>2, <4>1 DEF VoiceLives
    <3>2. QED
      BY <1>1, <1>2, <2>3, <2>4, <3>1 DEF VoiceLives
  <2>7. Held' = <<Head(f)>>
    BY <2>4 DEF Held, HeldOf
  <2>8. IsWay(After, heard, Said, audioCh.held, <<Head(f)>>, Tail(f), socket.texts)
    BY <1>1, <1>4, <2>3, <2>5, <2>7, AfterIs
  <2>9. Before \in Ways /\ After \in Ways /\ Moves(Before, After, 4, 5)
    <3>1. <<Head(f)>> = Append(<<>>, Head(f))
      BY <2>2
    <3>2. QED
      BY <1>5, <1>9, <2>2, <2>8, <3>1 DEF IsWay, Moves
  <2>10. Ordered(After) /\ Within(After, Len(spoken))
    BY <1>6, <2>9, Moved
  <2>11. ~troubled => Full(heard, Said, audioCh.held, <<Head(f)>>, Tail(f), socket.texts, Len(spoken))
    <3>1. heard \in Seq(Nat) /\ Said \in Seq(Nat) /\ audioCh.held \in Seq(Nat) /\ socket.texts \in Seq(Nat)
      BY <1>5, WaysAre DEF IsWay
    <3>2. QED
      BY <1>3, <1>6, <1>7, <1>9, <2>2, <3>1, FullRead
  <2>12. QED
    BY <1>1, <1>4, <2>3, <2>5, <2>6, <2>7, <2>10, <2>11, Assembled
<1>10. CASE f = <<>>
  <2>1. ~socket.open /\ reader' = [reader EXCEPT !.pc = "done"] /\ UNCHANGED socket
    BY <1>10 DEF Voice!Read
  <2>2. reader'.pc = "done" /\ reader' \in [pc : {"none", "read", "put", "done"}, got : Nat]
    BY <1>3, <2>1
  <2>3. VoiceTypes'
    BY <1>1, <1>2, <2>1, <2>2 DEF VoiceTypes
  <2>4. troubled
    BY <1>1, <1>2, <2>1 DEF VoiceLives
  <2>5. VoiceLives'
    BY <1>1, <1>2, <2>1, <2>2, <2>4 DEF VoiceLives
  <2>6. Held' = Held
    BY <1>4, <2>2 DEF Held, HeldOf
  <2>7. QED
    BY <1>1, <1>4, <2>1, <2>3, <2>5, <2>6, PlacesKept
<1>11. QED
  BY <1>8, <1>9, <1>10

\* The reader's chunk goes into the channel, or is let go once the turn is over.
LEMMA PutStep == ASSUME VoiceInv, Voice!Put PROVE VoiceInv'
<1> DEFINE e == reader.got
           q == audioCh.held
<1>1. reader.pc = "put" /\ UNCHANGED <<turn, forwarder, socket, spoken, heard, troubled>>
  BY DEF Voice!Put
<1>2. VoiceTypes /\ VoiceLives
  BY DEF VoiceInv
<1>3. /\ reader \in [pc : {"none", "read", "put", "done"}, got : Nat] /\ e \in Nat
      /\ audioCh \in [held : Seq(Nat), closed : BOOLEAN] /\ q \in Seq(Nat) /\ Len(q) \in Nat
  BY <1>2 DEF VoiceTypes
<1>4. Said' = Said /\ Held = <<e>>
  BY <1>1 DEF Said, Held, HeldOf
<1>5. IsWay(Before, heard, Said, q, <<e>>, socket.frames, socket.texts)
  BY <1>2, <1>4, BeforeIs
<1>6. Ordered(Before) /\ Within(Before, Len(spoken)) /\ Len(spoken) \in Nat
  BY <1>2 DEF VoiceInv, Sound, Before, VoiceTypes
<1>7. ~troubled => Full(heard, Said, q, <<e>>, socket.frames, socket.texts, Len(spoken))
  BY <1>4 DEF VoiceInv
<1>8. heard \in Seq(Nat) /\ Said \in Seq(Nat) /\ socket.frames \in Seq(Nat) /\ socket.texts \in Seq(Nat)
  BY <1>5, WaysAre DEF IsWay
<1>9. ASSUME Len(q) < VoiceRoom, audioCh' = [audioCh EXCEPT !.held = Append(q, e)], reader' = [reader EXCEPT !.pc = "read"]
      PROVE  VoiceInv'
  <2>1. Append(q, e) \in Seq(Nat) /\ Len(Append(q, e)) = Len(q) + 1
    BY <1>3, Appended
  <2>2. audioCh' \in [held : Seq(Nat), closed : BOOLEAN] /\ audioCh'.held = Append(q, e) /\ audioCh'.closed = audioCh.closed
    BY <1>3, <1>9, <2>1
  <2>3. reader'.pc = "read" /\ reader' \in [pc : {"none", "read", "put", "done"}, got : Nat]
    BY <1>3, <1>9
  <2>4. Len(audioCh'.held) <= VoiceRoom
    BY VoiceAssumption, <1>3, <1>9, <2>1, <2>2
  <2>5. VoiceTypes'
    BY <1>1, <1>2, <2>2, <2>3, <2>4 DEF VoiceTypes
  <2>6. VoiceLives'
    BY <1>1, <1>2, <2>2, <2>3 DEF VoiceLives
  <2>7. Held' = <<>>
    BY <2>3 DEF Held, HeldOf
  <2>8. IsWay(After, heard, Said, Append(q, e), <<>>, socket.frames, socket.texts)
    BY <1>1, <1>4, <2>2, <2>5, <2>7, AfterIs
  <2>9. Before \in Ways /\ After \in Ways /\ Moves(Before, After, 3, 4)
    <3>1. Head(<<e>>) = e /\ Tail(<<e>>) = <<>> /\ <<e>> # <<>> /\ <<e>>[1] = e /\ Len(<<e>>) = 1
      OBVIOUS
    <3>2. 1 \in 1 .. Len(Before[4]) /\ Before[4][1] = e
      BY <1>5, <3>1 DEF IsWay
    <3>3. e # 0
      BY <1>6, <3>2 DEF Within
    <3>4. QED
      BY <1>5, <2>8, <3>1, <3>3 DEF IsWay, Moves
  <2>10. Ordered(After) /\ Within(After, Len(spoken))
    BY <1>6, <2>9, Moved
  <2>11. ~troubled => Full(heard, Said, Append(q, e), <<>>, socket.frames, socket.texts, Len(spoken))
    BY <1>3, <1>6, <1>7, <1>8, FullPut
  <2>12. QED
    BY <1>1, <1>4, <2>2, <2>5, <2>6, <2>7, <2>10, <2>11, Assembled
<1>10. ASSUME turn.pc \in {"close", "over"}, reader' = [reader EXCEPT !.pc = "done"], UNCHANGED audioCh
       PROVE  VoiceInv'
  <2>1. reader'.pc = "done" /\ reader' \in [pc : {"none", "read", "put", "done"}, got : Nat]
    BY <1>3, <1>10
  <2>2. troubled
    BY <1>1, <1>2, <1>10 DEF VoiceLives
  <2>3. VoiceTypes'
    BY <1>1, <1>2, <1>10, <2>1 DEF VoiceTypes
  <2>4. VoiceLives'
    BY <1>1, <1>2, <1>10, <2>1, <2>2 DEF VoiceLives
  <2>5. Held' = <<>>
    BY <2>1 DEF Held, HeldOf
  <2>6. IsWay(After, heard, Said, q, <<>>, socket.frames, socket.texts)
    BY <1>1, <1>4, <1>10, <2>3, <2>5, AfterIs
  <2>7. Before \in Ways /\ After \in Ways /\ After[4] = <<>> /\ \A a \in (1 .. 6) \ {4} : After[a] = Before[a]
    BY <1>5, <2>6 DEF IsWay
  <2>8. Ordered(After) /\ Within(After, Len(spoken))
    BY <1>6, <2>7, Thinned
  <2>9. QED
    BY <1>1, <2>2, <2>3, <2>4, <2>8, Assembled
<1>11. QED
  BY <1>9, <1>10 DEF Voice!Put, Voice!Canceled

\* The forwarder takes a chunk, or ends.
LEMMA VoiceTakeStep == ASSUME VoiceInv, Voice!Take PROVE VoiceInv'
<1> DEFINE q == audioCh.held
<1>1. forwarder.pc = "receive" /\ UNCHANGED <<turn, reader, socket, spoken, heard, troubled>>
  BY DEF Voice!Take
<1>2. VoiceTypes /\ VoiceLives
  BY DEF VoiceInv
<1>3. /\ forwarder \in [pc : {"none", "receive", "write", "done"}, got : Nat]
      /\ audioCh \in [held : Seq(Nat), closed : BOOLEAN] /\ q \in Seq(Nat) /\ Len(q) \in Nat
  BY <1>2 DEF VoiceTypes
<1>4. Said = <<>> /\ Held' = Held
  BY <1>1 DEF Said, Held, SaidOf
<1>5. IsWay(Before, heard, <<>>, q, Held, socket.frames, socket.texts)
  BY <1>2, <1>4, BeforeIs
<1>6. Ordered(Before) /\ Within(Before, Len(spoken)) /\ Len(spoken) \in Nat
  BY <1>2 DEF VoiceInv, Sound, Before, VoiceTypes
<1>7. ~troubled => Full(heard, <<>>, q, Held, socket.frames, socket.texts, Len(spoken))
  BY <1>4 DEF VoiceInv
<1>8. heard \in Seq(Nat) /\ Held \in Seq(Nat) /\ socket.frames \in Seq(Nat) /\ socket.texts \in Seq(Nat)
  BY <1>5, WaysAre DEF IsWay
<1>9. reader.pc # "none"
  BY <1>1, <1>2 DEF VoiceLives
<1>10. ASSUME q # <<>>, forwarder' = [pc |-> "write", got |-> Head(q)], audioCh' = [audioCh EXCEPT !.held = Tail(q)]
       PROVE  VoiceInv'
  <2>1. Head(q) = q[1] /\ Head(q) \in Nat /\ Tail(q) \in Seq(Nat) /\ Len(Tail(q)) = Len(q) - 1 /\ Len(q) \in Nat \ {0}
    BY <1>3, <1>10, Shifted
  <2>2. audioCh' \in [held : Seq(Nat), closed : BOOLEAN] /\ audioCh'.held = Tail(q) /\ audioCh'.closed = audioCh.closed
    BY <1>3, <1>10, <2>1
  <2>3. forwarder'.pc = "write" /\ forwarder'.got = Head(q) /\ forwarder' \in [pc : {"none", "receive", "write", "done"}, got : Nat]
    BY <1>10, <2>1
  <2>4. Len(audioCh'.held) <= VoiceRoom
    <3>1. Len(q) <= VoiceRoom
      BY <1>2 DEF VoiceTypes
    <3>2. QED
      BY VoiceAssumption, <1>3, <2>1, <2>2, <3>1
  <2>5. VoiceTypes'
    BY <1>1, <1>2, <2>2, <2>3, <2>4 DEF VoiceTypes
  <2>6. VoiceLives'
    BY <1>1, <1>2, <1>9, <2>2 DEF VoiceLives
  <2>7. Said' = <<Head(q)>>
    BY <2>3 DEF Said, SaidOf
  <2>8. IsWay(After, heard, <<Head(q)>>, Tail(q), Held, socket.frames, socket.texts)
    BY <1>1, <1>4, <2>2, <2>5, <2>7, AfterIs
  <2>9. Before \in Ways /\ After \in Ways /\ Moves(Before, After, 2, 3)
    <3>1. <<Head(q)>> = Append(<<>>, Head(q))
      BY <2>1
    <3>2. Before[3] = q /\ 1 \in 1 .. Len(q)
      BY <1>5, <2>1 DEF IsWay
    <3>3. q[1] # 0
      BY <1>6, <3>2 DEF Within
    <3>4. QED
      BY <1>5, <1>10, <2>8, <3>1, <3>3 DEF IsWay, Moves
  <2>10. Ordered(After) /\ Within(After, Len(spoken))
    BY <1>6, <2>9, Moved
  <2>11. ~troubled => Full(heard, <<Head(q)>>, Tail(q), Held, socket.frames, socket.texts, Len(spoken))
    BY <1>3, <1>6, <1>7, <1>8, <1>10, FullTaken
  <2>12. QED
    BY <1>1, <1>4, <2>2, <2>5, <2>6, <2>7, <2>10, <2>11, Assembled
<1>11. ASSUME forwarder' = [forwarder EXCEPT !.pc = "done"], UNCHANGED audioCh
       PROVE  VoiceInv'
  <2>1. forwarder'.pc = "done" /\ forwarder' \in [pc : {"none", "receive", "write", "done"}, got : Nat]
    BY <1>3, <1>11
  <2>2. VoiceTypes'
    BY <1>1, <1>2, <1>11, <2>1 DEF VoiceTypes
  <2>3. VoiceLives'
    BY <1>1, <1>2, <1>9, <1>11 DEF VoiceLives
  <2>4. Said' = Said
    BY <1>4, <2>1 DEF Said, SaidOf
  <2>5. QED
    BY <1>1, <1>4, <1>11, <2>2, <2>3, <2>4, PlacesKept
<1>12. QED
  BY <1>10, <1>11 DEF Voice!Take

\* The chunk is written to the client's connection, or is lost with it.
LEMMA ForwardStep == ASSUME VoiceInv, Voice!Forward PROVE VoiceInv'
<1> DEFINE e == forwarder.got
<1>1. /\ forwarder.pc = "write" /\ forwarder' = [forwarder EXCEPT !.pc = "receive"]
      /\ UNCHANGED <<turn, reader, audioCh, socket, spoken>>
      /\ (heard' = Append(heard, e) /\ UNCHANGED troubled) \/ (troubled' = TRUE /\ UNCHANGED heard)
  BY DEF Voice!Forward
<1>2. VoiceTypes /\ VoiceLives
  BY DEF VoiceInv
<1>3. forwarder \in [pc : {"none", "receive", "write", "done"}, got : Nat] /\ e \in Nat /\ heard \in Seq(Nat)
  BY <1>2 DEF VoiceTypes
<1>4. Said = <<e>> /\ Held' = Held
  BY <1>1 DEF Said, Held, SaidOf
<1>5. IsWay(Before, heard, <<e>>, audioCh.held, Held, socket.frames, socket.texts)
  BY <1>2, <1>4, BeforeIs
<1>6. Ordered(Before) /\ Within(Before, Len(spoken)) /\ Len(spoken) \in Nat
  BY <1>2 DEF VoiceInv, Sound, Before, VoiceTypes
<1>7. ~troubled => Full(heard, <<e>>, audioCh.held, Held, socket.frames, socket.texts, Len(spoken))
  BY <1>4 DEF VoiceInv
<1>8. audioCh.held \in Seq(Nat) /\ Held \in Seq(Nat) /\ socket.frames \in Seq(Nat) /\ socket.texts \in Seq(Nat)
  BY <1>5, WaysAre DEF IsWay
<1>9. forwarder'.pc = "receive" /\ forwarder' \in [pc : {"none", "receive", "write", "done"}, got : Nat]
  BY <1>1, <1>3
<1>10. Append(heard, e) \in Seq(Nat)
  BY <1>3, Appended
<1>11. VoiceTypes'
  BY <1>1, <1>2, <1>9, <1>10 DEF VoiceTypes
<1>12. VoiceLives'
  BY <1>1, <1>2 DEF VoiceLives
<1>13. Said' = <<>>
  BY <1>9 DEF Said, SaidOf
<1>14. CASE heard' = Append(heard, e) /\ UNCHANGED troubled
  <2>1. IsWay(After, Append(heard, e), <<>>, audioCh.held, Held, socket.frames, socket.texts)
    BY <1>1, <1>4, <1>11, <1>13, <1>14, AfterIs
  <2>2. Before \in Ways /\ After \in Ways /\ Moves(Before, After, 1, 2)
    <3>1. Head(<<e>>) = e /\ Tail(<<e>>) = <<>> /\ <<e>> # <<>> /\ <<e>>[1] = e /\ Len(<<e>>) = 1
      OBVIOUS
    <3>2. 1 \in 1 .. Len(Before[2]) /\ Before[2][1] = e
      BY <1>5, <3>1 DEF IsWay
    <3>3. e # 0
      BY <1>6, <3>2 DEF Within
    <3>4. QED
      BY <1>5, <2>1, <3>1, <3>3 DEF IsWay, Moves
  <2>3. Ordered(After) /\ Within(After, Len(spoken))
    BY <1>6, <2>2, Moved
  <2>4. ~troubled => Full(Append(heard, e), <<>>, audioCh.held, Held, socket.frames, socket.texts, Len(spoken))
    BY <1>3, <1>6, <1>7, <1>8, FullHeard
  <2>5. QED
    BY <1>1, <1>4, <1>11, <1>12, <1>13, <1>14, <2>3, <2>4, Assembled
<1>15. CASE troubled' = TRUE /\ UNCHANGED heard
  <2>1. IsWay(After, heard, <<>>, audioCh.held, Held, socket.frames, socket.texts)
    BY <1>1, <1>4, <1>11, <1>13, <1>15, AfterIs
  <2>2. Before \in Ways /\ After \in Ways /\ After[2] = <<>> /\ \A a \in (1 .. 6) \ {2} : After[a] = Before[a]
    BY <1>5, <2>1 DEF IsWay
  <2>3. Ordered(After) /\ Within(After, Len(spoken))
    BY <1>6, <2>2, Thinned
  <2>4. QED
    BY <1>1, <1>11, <1>12, <1>15, <2>3, Assembled
<1>16. QED
  BY <1>1, <1>14, <1>15

\* A text becomes audio, or the end of the input isFinal.
LEMMA GenerateStep == ASSUME VoiceInv, Voice!Generate PROVE VoiceInv'
<1> DEFINE f == socket.frames
           t == socket.texts
<1>1. socket.open /\ UNCHANGED <<turn, reader, forwarder, audioCh, spoken, heard, troubled>>
  BY DEF Voice!Generate
<1>2. VoiceTypes /\ VoiceLives
  BY DEF VoiceInv
<1>3. /\ socket \in [open : BOOLEAN, texts : Seq(Nat), frames : Seq(Nat), ended : BOOLEAN] /\ f \in Seq(Nat) /\ t \in Seq(Nat)
      /\ Len(f) \in Nat
  BY <1>2 DEF VoiceTypes
<1>4. Said' = Said /\ Held' = Held
  BY <1>1 DEF Said, Held
<1>5. IsWay(Before, heard, Said, audioCh.held, Held, f, t)
  BY <1>2, BeforeIs
<1>6. Ordered(Before) /\ Within(Before, Len(spoken)) /\ Len(spoken) \in Nat
  BY <1>2 DEF VoiceInv, Sound, Before, VoiceTypes
<1>7. ~troubled => Full(heard, Said, audioCh.held, Held, f, t, Len(spoken))
  BY DEF VoiceInv
<1>8. heard \in Seq(Nat) /\ Said \in Seq(Nat) /\ audioCh.held \in Seq(Nat) /\ Held \in Seq(Nat)
  BY <1>5, WaysAre DEF IsWay
<1>9. ASSUME t # <<>>, socket' = [socket EXCEPT !.texts = Tail(t), !.frames = Append(f, Head(t))]
      PROVE  VoiceInv'
  <2>1. Head(t) = t[1] /\ Head(t) \in Nat /\ Tail(t) \in Seq(Nat) /\ Len(t) \in Nat \ {0}
    BY <1>3, <1>9, Shifted
  <2>2. Append(f, Head(t)) \in Seq(Nat)
    BY <1>3, <2>1, Appended
  <2>3. /\ socket' \in [open : BOOLEAN, texts : Seq(Nat), frames : Seq(Nat), ended : BOOLEAN]
        /\ socket'.open = socket.open /\ socket'.texts = Tail(t) /\ socket'.frames = Append(f, Head(t)) /\ socket'.ended = socket.ended
    <3>1. socket' = [open |-> socket.open, texts |-> Tail(t), frames |-> Append(f, Head(t)), ended |-> socket.ended]
      BY <1>3, <1>9
    <3>2. QED
      BY <1>3, <2>1, <2>2, <3>1
  <2>4. t[1] # 0
    <3>1. Before[6] = t /\ 1 \in 1 .. Len(t)
      BY <1>5, <2>1 DEF IsWay
    <3>2. QED
      BY <1>6, <3>1 DEF Within
  <2>5. \A i \in 1 .. Len(f) : f[i] # 0
    BY <1>2, <1>9 DEF VoiceLives
  <2>6. \A i \in 1 .. Len(Append(f, Head(t))) : Append(f, Head(t))[i] # 0
    <3> DEFINE e == Head(t)
    <3>1. e \in Nat /\ e # 0
      BY <2>1, <2>4
    <3> HIDE DEF e
    <3>2. Len(Append(f, e)) = Len(f) + 1 /\ \A i \in 1 .. Len(f) + 1 : Append(f, e)[i] = IF i = Len(f) + 1 THEN e ELSE f[i]
      BY <1>3, <3>1, Appended
    <3>3. \A i \in 1 .. Len(f) + 1 : i = Len(f) + 1 \/ i \in 1 .. Len(f)
      BY <1>3
    <3>4. \A i \in 1 .. Len(Append(f, e)) : Append(f, e)[i] # 0
      BY <2>5, <3>1, <3>2, <3>3
    <3>5. QED
      BY <3>4 DEF e
  <2>7. VoiceTypes'
    BY <1>1, <1>2, <2>3 DEF VoiceTypes
  <2>8. VoiceLives'
    <3>1. \A i \in 1 .. Len(socket'.frames) : socket'.frames[i] # 0
      BY <2>3, <2>6
    <3>2. ~troubled => reader.pc # "done"
      BY <1>2, <1>9 DEF VoiceLives
    <3>3. QED
      BY <1>1, <1>2, <2>3, <3>1, <3>2 DEF VoiceLives
  <2>9. IsWay(After, heard, Said, audioCh.held, Held, Append(f, Head(t)), Tail(t))
    BY <1>1, <1>4, <2>3, <2>7, AfterIs
  <2>10. Before \in Ways /\ After \in Ways /\ Moves(Before, After, 5, 6)
    BY <1>5, <1>9, <2>4, <2>9 DEF IsWay, Moves
  <2>11. Ordered(After) /\ Within(After, Len(spoken))
    BY <1>6, <2>10, Moved
  <2>12. ~troubled => Full(heard, Said, audioCh.held, Held, Append(f, Head(t)), Tail(t), Len(spoken))
    BY <1>3, <1>6, <1>7, <1>8, <1>9, <2>4, <2>5, FullMade
  <2>13. QED
    BY <1>1, <1>4, <2>3, <2>7, <2>8, <2>11, <2>12, Assembled
<1>10. ASSUME socket.ended, t = <<>>, reader.pc # "done", \A i \in DOMAIN f : f[i] # 0,
              socket' = [socket EXCEPT !.frames = Append(f, 0)]
       PROVE  VoiceInv'
  <2>1. \A i \in 1 .. Len(f) : f[i] # 0
    BY <1>3, <1>10
  <2>2. /\ Append(f, 0) \in Seq(Nat) /\ Len(Append(f, 0)) = Len(f) + 1
        /\ \A i \in 1 .. Len(f) + 1 : Append(f, 0)[i] = IF i = Len(f) + 1 THEN 0 ELSE f[i]
    BY <1>3, Appended
  <2>3. /\ socket' \in [open : BOOLEAN, texts : Seq(Nat), frames : Seq(Nat), ended : BOOLEAN]
        /\ socket'.open = socket.open /\ socket'.texts = t /\ socket'.frames = Append(f, 0) /\ socket'.ended = socket.ended
    BY <1>3, <1>10, <2>2
  <2>4. VoiceTypes'
    BY <1>1, <1>2, <2>3 DEF VoiceTypes
  <2>5. VoiceLives'
    <3>1. \A i \in 1 .. Len(socket'.frames) : socket'.frames[i] = 0 => i = Len(socket'.frames) /\ socket'.texts = <<>> /\ socket'.ended
      <4>1. \A i \in 1 .. Len(f) + 1 : i = Len(f) + 1 \/ i \in 1 .. Len(f)
        BY <1>3
      <4>2. QED
        BY <1>10, <2>1, <2>2, <2>3, <4>1
    <3>2. QED
      BY <1>1, <1>2, <1>10, <2>3, <3>1 DEF VoiceLives
  <2>6. IsWay(After, heard, Said, audioCh.held, Held, Append(f, 0), t)
    BY <1>1, <1>4, <2>3, <2>4, AfterIs
  <2>7. Before \in Ways /\ After \in Ways /\ Grows(Before, After, 5, 0)
    BY <1>5, <2>6 DEF IsWay, Grows
  <2>8. Ordered(After) /\ Within(After, Len(spoken))
    BY <1>6, <2>7, Longer
  <2>9. ~troubled => Full(heard, Said, audioCh.held, Held, Append(f, 0), t, Len(spoken))
    <3> SUFFICES ASSUME ~troubled PROVE Full(heard, Said, audioCh.held, Held, Append(f, 0), <<>>, Len(spoken))
      BY <1>10
    <3>1. Full(heard, Said, audioCh.held, Held, f, <<>>, Len(spoken))
      BY <1>7, <1>10
    <3>2. QED
      BY <1>3, <1>6, <1>8, <2>1, <3>1, FullFinal
  <2>10. QED
    BY <1>1, <1>4, <2>3, <2>4, <2>5, <2>8, <2>9, Assembled
<1>11. QED
  BY <1>1, <1>9, <1>10 DEF Voice!Generate, Voice!Final

-----------------------------------------------------------------------------

LEMMA VoiceInitInv == Voice!Init => VoiceInv
<1> SUFFICES ASSUME Voice!Init PROVE VoiceInv
  OBVIOUS
<1>1. /\ turn = [pc |-> "connect", waited |-> 0] /\ reader = [pc |-> "none", got |-> 0] /\ forwarder = [pc |-> "none", got |-> 0]
      /\ audioCh = [held |-> <<>>, closed |-> FALSE]
      /\ socket = [open |-> FALSE, texts |-> <<>>, frames |-> <<>>, ended |-> FALSE]
      /\ spoken = <<>> /\ heard = <<>> /\ troubled = FALSE
  BY DEF Voice!Init
<1>2. <<>> \in Seq(Nat) /\ Len(<<>>) = 0 /\ \A i \in 1 .. Len(<<>>) : FALSE
  OBVIOUS
<1>3. VoiceTypes
  <2>1. turn \in [pc : {"connect", "speak", "wait", "close", "over"}, waited : Nat] /\ turn.waited <= Patience
    BY VoiceAssumption, <1>1
  <2>2. audioCh \in [held : Seq(Nat), closed : BOOLEAN] /\ Len(audioCh.held) <= VoiceRoom
    BY VoiceAssumption, <1>1, <1>2
  <2>3. reader \in [pc : {"none", "read", "put", "done"}, got : Nat] /\ forwarder \in [pc : {"none", "receive", "write", "done"}, got : Nat]
    BY <1>1
  <2>4. socket \in [open : BOOLEAN, texts : Seq(Nat), frames : Seq(Nat), ended : BOOLEAN]
    BY <1>1, <1>2
  <2>5. Len(spoken) <= MaxChunks
    BY VoiceAssumption, <1>1, <1>2
  <2>6. QED
    BY <1>1, <1>2, <2>1, <2>2, <2>3, <2>4, <2>5 DEF VoiceTypes
<1>4. VoiceLives
  BY <1>1, <1>2 DEF VoiceLives
<1>5. Said = <<>> /\ Held = <<>>
  BY <1>1 DEF Said, Held, SaidOf, HeldOf
<1>6. \A a \in 1 .. 6 : WayOf(<<>>, <<>>, <<>>, <<>>, <<>>, <<>>)[a] = <<>>
  BY DEF WayOf
<1>7. Sound(<<>>, <<>>, <<>>, <<>>, <<>>, <<>>, 0)
  BY <1>2, <1>6 DEF Sound, Ordered, Within
<1>8. Full(<<>>, <<>>, <<>>, <<>>, <<>>, <<>>, 0)
  BY <1>2 DEF Full
<1>9. QED
  BY <1>1, <1>2, <1>3, <1>4, <1>5, <1>7, <1>8 DEF VoiceInv

LEMMA VoiceStep == ASSUME VoiceInv, Voice!Next PROVE VoiceInv'
BY ConnectStep, SpeakStep, DisposeStep, CancelStep, CloseChannelStep, ReadStep, PutStep, VoiceTakeStep, ForwardStep,
   GenerateStep, BreakStep, TickStep DEF Voice!Next

LEMMA VoiceStutter == ASSUME VoiceInv, UNCHANGED voiceVars PROVE VoiceInv'
<1>1. UNCHANGED <<Said, Held>>
  BY DEF voiceVars, Said, Held
<1>2. VoiceTypes' /\ VoiceLives'
  BY DEF voiceVars, VoiceInv, VoiceTypes, VoiceLives
<1>3. QED
  BY <1>1, <1>2, PlacesKept DEF voiceVars

\* The inductive invariant of a turn's voice.
THEOREM VoiceInvariance == LiveSpec => []VoiceInv
<1>1. LiveInit => VoiceInv
  BY VoiceInitInv DEF LiveInit
<1>2. VoiceInv /\ [LiveNext]_<<part, allVars>> => VoiceInv'
  <2> SUFFICES ASSUME VoiceInv, [LiveNext]_<<part, allVars>> PROVE VoiceInv'
    OBVIOUS
  <2>1. CASE OfVoice(Voice!Next)
    BY <2>1, VoiceStep DEF OfVoice
  <2>2. UNCHANGED voiceVars \/ OfVoice(Voice!Next)
    BY DEF LiveNext, OfBinding, OfWatch, OfHub, VoiceOver, HubOver, allVars
  <2>3. QED
    BY <2>1, <2>2, VoiceStutter
<1>3. QED
  BY <1>1, <1>2, PTL DEF LiveSpec

\* What the invariant says of the client.
LEMMA HeardInOrderHolds == ASSUME VoiceInv PROVE Voice!HeardInOrder
<1> DEFINE q == audioCh.held
           w == Said
<1>1. VoiceTypes /\ VoiceLives
  BY DEF VoiceInv
<1>2. IsWay(Before, heard, w, q, Held, socket.frames, socket.texts)
  BY <1>1, BeforeIs
<1>3. heard \in Seq(Nat) /\ w \in Seq(Nat) /\ q \in Seq(Nat) /\ spoken \in Seq(Nat)
  BY <1>1, <1>2, WaysAre DEF IsWay, VoiceTypes
<1>4. \A i, j \in DOMAIN heard : i < j => heard[i] < heard[j]
  <2>1. Ordered(Before) /\ Within(Before, Len(spoken)) /\ Before[1] = heard
    BY <1>2 DEF VoiceInv, Sound, Before, IsWay
  <2>2. \A i \in 1 .. Len(heard) : heard[i] # 0
    BY <2>1 DEF Within
  <2>3. \A i, j \in 1 .. Len(heard) : i < j /\ heard[i] # 0 /\ heard[j] # 0 => heard[i] < heard[j]
    <3>1. \A i, j \in 1 .. Len(Before[1]) :
            i < j /\ Before[1][i] # 0 /\ Before[1][j] # 0 => Before[1][i] < Before[1][j]
      BY <2>1 DEF Ordered
    <3>2. QED
      BY <2>1, <3>1
  <2>4. DOMAIN heard = 1 .. Len(heard)
    BY <1>3
  <2>5. \A i, j \in 1 .. Len(heard) : i < j => heard[i] < heard[j]
    BY <2>2, <2>3
  <2>6. QED
    BY <2>4, <2>5
<1>5. ASSUME turn.pc = "over", ~troubled
      PROVE  heard \o (w \o q) = spoken
  <2>1. reader.pc = "done" /\ socket.frames = <<>> /\ socket.texts = <<>>
    BY <1>1, <1>5 DEF VoiceLives
  <2>2. Held = <<>>
    BY <2>1 DEF Held, HeldOf
  <2>3. Full(heard, w, q, <<>>, <<>>, <<>>, Len(spoken))
    BY <1>5, <2>1, <2>2 DEF VoiceInv
  <2>4. \A i \in 1 .. Len(spoken) : spoken[i] = i
    BY <1>1 DEF VoiceTypes
  <2> HIDE DEF q, w
  <2>5. QED
    BY ONLY <1>3, <2>3, <2>4, FullIsAll, ZenonT(20)
<1>6. QED
  BY <1>4, <1>5 DEF Voice!HeardInOrder, Said, SaidOf

\* voice_session.go:62: nothing is put into the channel once it is closed, and
\* the client hears the chunks in the order they were said, all of them when
\* nothing has failed.
THEOREM ChunksAreHeard == LiveSpec => []VoiceHolds
<1>1. VoiceInv => VoiceHolds
  <2> SUFFICES ASSUME VoiceInv PROVE Voice!TypeOK /\ Voice!NoSendOnClosed /\ Voice!HeardInOrder
    BY DEF VoiceHolds
  <2>1. VoiceTypes /\ VoiceLives
    BY DEF VoiceInv
  <2>2. Voice!NoSendOnClosed
    BY <2>1 DEF VoiceLives, Voice!NoSendOnClosed
  <2>3. spoken \in Seq(Voice!Audio)
    <3>1. \A i \in 1 .. Len(spoken) : spoken[i] \in 1 .. MaxChunks
      BY VoiceAssumption, <2>1 DEF VoiceTypes
    <3>2. spoken \in Seq(Nat)
      BY <2>1 DEF VoiceTypes
    <3>3. spoken \in Seq(1 .. MaxChunks)
      BY ONLY <3>1, <3>2, SeqOf, ZenonT(20)
    <3>4. QED
      BY <3>3 DEF Voice!Audio
  <2>4. heard \in Seq(Voice!Audio)
    <3>1. Within(Before, Len(spoken)) /\ Before[1] = heard
      BY <2>1, BeforeIs DEF VoiceInv, Sound, Before, IsWay
    <3>2. \A i \in 1 .. Len(heard) : heard[i] # 0 /\ heard[i] <= Len(spoken)
      BY <3>1 DEF Within
    <3>3. heard \in Seq(Nat) /\ Len(spoken) \in Nat /\ Len(spoken) <= MaxChunks
      BY <2>1 DEF VoiceTypes
    <3>4. \A i \in 1 .. Len(heard) : heard[i] \in 1 .. MaxChunks
      BY VoiceAssumption, <3>2, <3>3
    <3>5. QED
      BY <3>3, <3>4, SeqOf DEF Voice!Audio
  <2>5. Voice!TypeOK
    BY VoiceAssumption, <2>1, <2>3, <2>4 DEF VoiceTypes, Voice!TypeOK
  <2>6. QED
    BY <2>2, <2>5, HeardInOrderHolds
<1>2. QED
  BY <1>1, VoiceInvariance, PTL
=============================================================================
