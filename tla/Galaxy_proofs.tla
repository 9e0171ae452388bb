--------------------------- MODULE Galaxy_proofs ----------------------------
(* Proofs about what is made of galaxy data: a page kept whole is never     *)
(* older than the one before it, what the standings page answers is of the  *)
(* query asked for and not too old, and a batch of searches keeps Spansh's  *)
(* pace and is answered whole, whatever the intervals, TTLs, longest        *)
(* queries, attempts and batches, for any number of requests and failures.  *)
EXTENDS MCGalaxy, FiniteSetTheorems, TLAPS

-----------------------------------------------------------------------------
(* The powerplay page.                                                     *)

\* A page in memory, or shown: when it was read, when stored or shown.
Stamp == [read : Nat, at : Nat]

Loops == [pc : {"due", "store", "wait", "stopped"}, got : SUBSET Nat, since : Nat, kept : 0 .. 1, next : SUBSET Nat]

Types == /\ now \in 0 .. MaxTime /\ faults \in 0 .. MaxFaults /\ failed \in BOOLEAN
         /\ power \in SUBSET Stamp /\ shown \in SUBSET Stamp
         /\ loop \in Loops /\ loop.since <= now /\ loop.got \subseteq {loop.since}

\* There is one page and nothing is of the future.
Pages == /\ \A x, y \in power : x = y
         /\ \A x \in power \cup shown : x.read <= x.at /\ x.at <= now

\* Once there is a page there is one, it is not older than what has been shown,
\* and what a refresh is about to store is not older either.
Newer == /\ \A x \in shown : \E y \in power : y.read >= x.read
         /\ loop.pc = "store" => /\ loop.got = {loop.since}
                                 /\ \A x \in power \cup shown : x.read <= loop.since

\* The next tick is at most an interval away.  There is none yet only while the
\* first refresh runs.
Ticks == /\ loop.next = {} => loop.pc \in {"due", "store"} /\ loop.kept = 0 /\ (~failed => power = {})
         /\ \A n, m \in loop.next : n = m /\ now < n /\ n <= now + Interval
         /\ loop.kept = 1 => loop.pc = "store"

\* How old the page may be, by where the refreshes are.
Aging == ~failed =>
    /\ loop.pc # "stopped"
    /\ loop.pc = "wait"  => \A x \in power, n \in loop.next : n - x.read <= Interval + MaxQuery
    /\ loop.pc = "due"   => \A x \in power : now - x.read <= Interval + MaxQuery
    /\ loop.pc = "store" => /\ now - loop.since <= MaxQuery
                            /\ \A x \in power : loop.since - x.read <= Interval + MaxQuery
                            /\ loop.kept = 0 => \A n \in loop.next : n <= loop.since + Interval
    /\ \A x \in shown : x.at - x.read <= Interval + 2 * MaxQuery

\* What PageHolds and PageStays need.
Inv == Types /\ Pages /\ Newer /\ Ticks /\ Aging

LEMMA InitInv == Init => Inv
<1> SUFFICES ASSUME Init PROVE Inv
  OBVIOUS
<1>1. Types
  <2>1. failed \in BOOLEAN
    BY DEF Init
  <2>2. loop \in Loops /\ loop.since = 0 /\ loop.got = {}
    BY DEF Init, Loops
  <2>3. now \in 0 .. MaxTime /\ faults \in 0 .. MaxFaults
    BY PageAssumption DEF Init
  <2>4. QED
    BY <2>1, <2>2, <2>3 DEF Init, Types
<1>2. Pages /\ Newer
  BY DEF Init, Pages, Newer
<1>3. Ticks /\ Aging
  BY PageAssumption DEF Init, Ticks, Aging
<1>4. QED
  BY <1>1, <1>2, <1>3 DEF Inv

\* What a page's stamps are numbers of.
LEMMA Numbers ==
    ASSUME Inv
    PROVE  /\ now \in Nat /\ loop.since \in Nat /\ Interval \in Nat \ {0} /\ MaxQuery \in Nat
           /\ \A x \in power \cup shown : x.read \in Nat /\ x.at \in Nat
           /\ \A n \in loop.next : n \in Nat
BY PageAssumption DEF Inv, Types, Stamp, Loops

\* A refresh reads, and what it holds is as new as anything can be.
LEMMA ReadStep == ASSUME Inv, RefreshRead PROVE Inv'
<1>1. loop' = [pc |-> "store", got |-> {now}, since |-> now, kept |-> loop.kept, next |-> loop.next]
      /\ UNCHANGED <<now, power, shown, faults, failed>> /\ loop.pc = "due"
  BY DEF Inv, Types, Loops, RefreshRead, Fine
<1>2. Types'
  BY <1>1, Numbers DEF Inv, Types, Loops
<1>3. Pages' /\ Newer' /\ Ticks'
  BY <1>1, Numbers DEF Inv, Pages, Newer, Ticks
<1>4. Aging'
  BY <1>1, Numbers DEF Inv, Aging, Ticks
<1>5. QED
  BY <1>2, <1>3, <1>4 DEF Inv

\* The goroutine after a refresh: it waits, or goes on with the tick it missed.
LEMMA DoneFits ==
    ASSUME Inv, loop.pc \in {"due", "store"}
    PROVE  /\ Done \in Loops /\ Done.since <= now /\ Done.got = {} /\ Done.kept = 0
           /\ Done.pc = IF loop.kept = 1 THEN "due" ELSE "wait"
           /\ Done.next # {}
           /\ \A n, m \in Done.next : /\ n = m /\ now < n /\ n <= now + Interval
                                      /\ n \in loop.next \/ (loop.next = {} /\ n = now + Interval)
<1>1. loop \in Loops /\ loop.since <= now /\ now + Interval \in Nat
  BY Numbers DEF Inv, Types
<1>2. Done \in Loops
  BY <1>1 DEF Done, Loops
<1>3. Done.since <= now /\ Done.got = {} /\ Done.kept = 0 /\ Done.pc = IF loop.kept = 1 THEN "due" ELSE "wait"
  BY <1>1 DEF Done
<1>4. Done.next = IF loop.next = {} THEN {now + Interval} ELSE loop.next
  BY DEF Done
<1>5. QED
  BY <1>2, <1>3, <1>4, Numbers DEF Inv, Ticks

LEMMA DoneTicks == ASSUME Inv, loop.pc \in {"due", "store"}, loop' = Done, UNCHANGED now PROVE Ticks'
<1>1. loop'.next # {} /\ loop'.kept = 0
  BY DoneFits
<1>2. Done.next \subseteq Nat /\ now' = now /\ now \in Nat /\ Interval \in Nat
  BY Numbers, DoneFits DEF Loops
<1>3. \A n, m \in Done.next : n = m /\ now < n /\ n <= now + Interval
  BY DoneFits
<1>4. QED
  BY <1>1, <1>2, <1>3 DEF Ticks

\* A refresh that fails leaves the page.
LEMMA FailsStep == ASSUME Inv, RefreshFails PROVE Inv'
<1>1. /\ loop' = Done /\ failed' /\ faults' \in 0 .. MaxFaults /\ UNCHANGED <<now, power, shown>>
      /\ loop.pc \in {"due", "store"} /\ failed' \in BOOLEAN
  BY PageAssumption DEF RefreshFails, Fault, Inv, Types
<1>2. Types' /\ Pages' /\ Newer'
  BY <1>1, DoneFits DEF Inv, Types, Pages, Newer
<1>3. Ticks'
  BY <1>1, DoneTicks
<1>4. Aging'
  BY <1>1 DEF Aging
<1>5. QED
  BY <1>2, <1>3, <1>4 DEF Inv

\* The new page is not older than the old and than everything shown, and the
\* next tick is an interval after it was read, or after it was stored.
LEMMA StoreStep == ASSUME Inv, RefreshStore PROVE Inv'
<1> DEFINE page == [read |-> loop.since, at |-> now]
<1>1. /\ power' = {page} /\ page \in Stamp /\ loop' = Done /\ loop.pc = "store"
      /\ UNCHANGED <<now, shown, failed, faults>>
  BY Numbers DEF Inv, Newer, RefreshStore, Stamp, Fine
<1>2. page.read = loop.since /\ page.at = now
  OBVIOUS
<1> HIDE DEF page
<1>3. Types'
  BY <1>1, DoneFits DEF Inv, Types
<1>4. Pages'
  BY <1>1, <1>2, Numbers DEF Inv, Types, Pages
<1>5. Newer'
  BY <1>1, <1>2, Numbers, DoneFits DEF Inv, Newer
<1>6. Ticks'
  BY <1>1, DoneTicks
<1>7. Aging'
  <2>1. ASSUME ~failed, NEW n \in Done.next, loop.kept = 0 PROVE n - loop.since <= Interval + MaxQuery
    BY <1>1, <2>1, Numbers, DoneFits DEF Inv, Aging
  <2>2. ~failed => now - loop.since <= MaxQuery
    BY <1>1 DEF Inv, Aging
  <2>3. QED
    BY <1>1, <1>2, <2>1, <2>2, Numbers, DoneFits DEF Inv, Aging
<1>8. QED
  BY <1>3, <1>4, <1>5, <1>6, <1>7 DEF Inv

\* What is shown is what is in memory.
LEMMA ShowStep == ASSUME Inv, Show PROVE Inv'
<1>1. /\ \A x \in shown' : \E y \in power : x = [read |-> y.read, at |-> now]
      /\ UNCHANGED <<now, power, loop, failed, faults>>
  BY DEF Show, Fine
<1>2. \A x \in shown' : x \in Stamp /\ x.at = now /\ \E y \in power : y.read = x.read
  BY <1>1, Numbers DEF Stamp
<1>3. Types'
  BY <1>1, <1>2 DEF Inv, Types
<1>4. Pages' /\ Newer' /\ Ticks'
  BY <1>1, <1>2, Numbers DEF Inv, Pages, Newer, Ticks
<1>5. ASSUME ~failed, NEW y \in power PROVE now - y.read <= Interval + 2 * MaxQuery
  <2>1. CASE loop.pc = "wait"
    <3>1. PICK n \in loop.next : now < n
      BY <2>1 DEF Inv, Ticks
    <3>2. QED
      BY <1>5, <2>1, <3>1, Numbers DEF Inv, Aging
  <2>2. CASE loop.pc \in {"due", "store"}
    BY <1>5, <2>2, Numbers DEF Inv, Aging
  <2>3. QED
    BY <1>5, <2>1, <2>2 DEF Inv, Aging, Types, Loops
<1>6. Aging'
  BY <1>1, <1>2, <1>5 DEF Inv, Aging
<1>7. QED
  BY <1>3, <1>4, <1>6 DEF Inv

LEMMA StopStep == ASSUME Inv, RefreshStop PROVE Inv'
<1>1. /\ loop' = [loop EXCEPT !.pc = "stopped"] /\ failed' /\ faults' \in 0 .. MaxFaults
      /\ UNCHANGED <<now, power, shown>> /\ loop.next # {} /\ failed' \in BOOLEAN
  BY PageAssumption DEF RefreshStop, Fault, Inv, Types
<1>2. Types' /\ Pages' /\ Newer'
  BY <1>1 DEF Inv, Types, Loops, Pages, Newer
<1>3. loop.kept = 0
  BY DEF RefreshStop, Inv, Types, Loops, Ticks
<1>4. Ticks' /\ Aging'
  BY <1>1, <1>3 DEF Inv, Types, Loops, Ticks, Aging
<1>5. QED
  BY <1>2, <1>4 DEF Inv

\* Time passes: a tick starts a refresh, or is kept for the one that runs.
LEMMA TickStep == ASSUME Inv, Tick PROVE Inv'
<1>1. /\ now' = now + 1 /\ now' \in 0 .. MaxTime /\ UNCHANGED <<power, shown, faults, failed>>
      /\ loop.pc # "due" /\ (loop.pc = "store" => now - loop.since < MaxQuery)
  BY PageAssumption, Numbers DEF Tick, Inv, Types
<1>2. CASE now' \notin loop.next
  <2>1. loop' = loop
    BY <1>2 DEF Tick
  <2>2. Types' /\ Pages' /\ Newer'
    BY <1>1, <2>1, Numbers DEF Inv, Types, Pages, Newer
  <2>3. Ticks' /\ Aging'
    BY <1>1, <1>2, <2>1, Numbers DEF Inv, Ticks, Aging
  <2>4. QED
    BY <2>2, <2>3 DEF Inv
<1>3. CASE now' \in loop.next
  <2>1. loop' = [pc |-> IF loop.pc = "wait" THEN "due" ELSE loop.pc, got |-> loop.got, since |-> loop.since,
                 kept |-> IF loop.pc = "store" THEN 1 ELSE loop.kept, next |-> {now' + Interval}]
    BY <1>3 DEF Tick, Inv, Types, Loops
  <2>2. now' + Interval \in Nat /\ now' < now' + Interval
    BY <1>1, Numbers
  <2>3. Types'
    <3>1. loop' \in Loops
      BY <2>1, <2>2 DEF Inv, Types, Loops
    <3>2. QED
      BY <1>1, <2>1, <3>1, Numbers DEF Inv, Types
  <2>4. Pages' /\ Newer'
    BY <1>1, <2>1, Numbers DEF Inv, Pages, Newer
  <2>5. Ticks'
    BY <1>1, <2>1, <2>2 DEF Inv, Types, Loops, Ticks
  <2>6. Aging'
    <3>1. loop.pc = "wait" /\ ~failed => \A x \in power : now' - x.read <= Interval + MaxQuery
      BY <1>3 DEF Inv, Aging
    <3>2. CASE loop.pc = "wait"
      BY <1>1, <2>1, <3>1, <3>2 DEF Inv, Aging
    <3>3. CASE loop.pc = "store"
      BY <1>1, <2>1, <3>3, Numbers DEF Inv, Aging
    <3>4. CASE loop.pc = "stopped"
      BY <1>1, <2>1, <3>4 DEF Inv, Aging
    <3>5. QED
      BY <1>1, <3>2, <3>3, <3>4 DEF Inv, Types, Loops
  <2>7. QED
    BY <2>3, <2>4, <2>5, <2>6 DEF Inv
<1>4. QED
  BY <1>2, <1>3

LEMMA InvStep == Inv /\ [Next]_vars => Inv'
<1> SUFFICES ASSUME Inv, [Next]_vars PROVE Inv'
  OBVIOUS
<1>1. CASE UNCHANGED vars
  BY <1>1 DEF vars, Inv, Types, Pages, Newer, Ticks, Aging
<1>2. CASE Next
  BY <1>2, ReadStep, FailsStep, StoreStep, ShowStep, StopStep, TickStep DEF Next
<1>3. QED
  BY <1>1, <1>2

\* The inductive invariant.
THEOREM Invariance == Spec => []Inv
BY InitInv, InvStep, PTL DEF Spec

\* server.go:1155, :1169: what is served is not older than an interval and two
\* queries as long as no refresh has failed.
THEOREM PagesAreFresh == Spec => []PageHolds
<1>1. Inv => PageHolds
  <2> SUFFICES ASSUME Inv PROVE PageHolds
    OBVIOUS
  <2>1. loop \in [pc : {"due", "store", "wait", "stopped"}, got : Opt(0 .. now), since : 0 .. now, kept : 0 .. 1,
                 next : Opt(0 .. MaxTime + Interval)]
    <3>1. loop.got \in Opt(0 .. now)
      BY Numbers DEF Inv, Types, Loops, Opt
    <3>2. loop.next \in Opt(0 .. MaxTime + Interval)
      BY Numbers, PageAssumption DEF Inv, Types, Ticks, Loops, Opt
    <3>3. loop.since \in 0 .. now
      BY Numbers DEF Inv, Types
    <3>4. QED
      BY <3>1, <3>2, <3>3 DEF Inv, Types, Loops
  <2>2. \A x \in power \cup shown : x.read \in 0 .. now /\ x.at \in x.read .. now
    BY Numbers DEF Inv, Pages
  <2>3. TypeOK
    BY <2>1, <2>2 DEF Inv, Types, Pages, TypeOK
  <2>4. QED
    BY <2>3 DEF Inv, Aging, PageFresh, PageHolds
<1>2. QED
  BY <1>1, Invariance, PTL

\* server.go:1150, :1174, :1232: a request that finds the page finds one at
\* least as new as those before it, whatever refreshes fail or are stopped.
THEOREM PagesNeverAge == Spec => PageStays
<1>1. Inv /\ [Next]_vars => [\A x \in shown : \E y \in shown' : y.read >= x.read]_vars
  <2> SUFFICES ASSUME Inv, Next, NEW x \in shown PROVE \E y \in shown' : y.read >= x.read
    OBVIOUS
  <2>1. x.read \in Nat
    BY Numbers
  <2>2. CASE Show
    <3>1. PICK y \in power : y.read >= x.read
      BY DEF Inv, Newer
    <3>2. [read |-> y.read, at |-> now] \in shown'
      BY <2>2 DEF Show
    <3>3. QED
      BY <3>1, <3>2
  <2>3. CASE shown' = shown
    BY <2>1, <2>3
  <2>4. QED
    BY <2>2, <2>3 DEF Next, RefreshRead, RefreshFails, RefreshStore, RefreshStop, Tick
<1>2. QED
  BY <1>1, Invariance, PTL DEF Spec, PageStays

-----------------------------------------------------------------------------
(* The standings.                                                          *)

CONSTANTS Granularity, Valid, Default, Hours, MaxHours, Ttl

S == INSTANCE StandingsCache

\* What the constants are: the TTL and the longest query are positive, the
\* default is a granularity the database knows.
Parameters ==
    /\ Default \in Valid /\ Ttl \in Nat \ {0} /\ MaxQuery \in Nat /\ MaxTime \in Nat /\ MaxFaults \in Nat
    /\ MaxHours \in Nat \ {0} /\ Hours \subseteq Nat \ {0}

\* A result is of key k.
OfKey(x, k) == x.gran = (IF k[1] \in Valid THEN k[1] ELSE Default) /\ x.hours = k[2]
\* Its counts are not older than what they are shown with.
CountedAfter(x) == \A c \in x.counts : c >= x.read

\* What is in the cache was stored within the longest query of its reading.
EntriesFit ==
    /\ DOMAIN standings \subseteq S!Key
    /\ \A k \in DOMAIN standings :
          LET e == standings[k] IN
          /\ e.result \in S!Result /\ e.at \in 0 .. now /\ OfKey(e.result, k) /\ CountedAfter(e.result)
          /\ e.at - e.result.read <= MaxQuery

\* What a request carries is of its key; on the way to the cache it was read
\* since the request came, and that is no longer ago than a query takes.
Requests == [pc : {"idle", "query", "counts", "store", "answer"}, key : S!Key, got : S!Opt(S!Result), since : Nat]
RequestFits(q, t) ==
    /\ q.since <= t /\ (q.pc \in {"query", "counts", "store"} => t - q.since <= MaxQuery)
    /\ \A x \in q.got :
          /\ q.pc \in {"counts", "store", "answer"} => OfKey(x, q.key) /\ CountedAfter(x)
          /\ q.pc \in {"counts", "store"} => q.since <= x.read /\ x.read <= t
          /\ q.pc = "answer" => q.since - x.read < Ttl + MaxQuery
RequestsFit == \A r \in Request : RequestFits(req[r], now)

Kept == /\ now \in 0 .. MaxTime /\ faults \in 0 .. MaxFaults
       /\ req \in [Request -> Requests]
       /\ EntriesFit /\ RequestsFit

\* An idle request is one.
LEMMA IdleFits == ASSUME Parameters PROVE S!Idle \in Requests
BY DEF Parameters, S!Idle, Requests, S!Key, S!Opt

LEMMA InitKept == ASSUME Parameters, S!Init PROVE Kept
<1>1. S!Idle \in Requests
  BY IdleFits
<1>2. EntriesFit
  BY DEF S!Init, EntriesFit
<1>3. RequestsFit
  BY DEF S!Init, RequestsFit, RequestFits, S!Idle, Parameters
<1>4. QED
  BY <1>1, <1>2, <1>3 DEF S!Init, Kept, Requests, Parameters

\* A key has its hours cut to the most there may be, once.
LEMMA KeyTwice == ASSUME Parameters, NEW k \in S!Key PROVE S!KeyOf(k[1], k[2]) = k
BY DEF Parameters, S!Key, S!KeyOf

\* A request that comes takes a fresh entry or goes to the database.
LEMMA AskStep == ASSUME Parameters, Kept, NEW r \in Request, S!Ask(r) PROVE Kept'
<1> PICK g \in Granularity, h \in Hours :
       req' = [req EXCEPT ![r] = [pc |-> IF S!Fresh(S!KeyOf(g, h)) THEN "answer" ELSE "query", key |-> <<g, S!KeyOf(g, h)[2]>>, since |-> now,
                                  got |-> IF S!Fresh(S!KeyOf(g, h)) THEN {standings[S!KeyOf(g, h)].result} ELSE {}]]
  BY DEF S!Ask
<1> DEFINE k == S!KeyOf(g, h)
           q == [pc |-> IF S!Fresh(k) THEN "answer" ELSE "query", key |-> k, since |-> now,
                 got |-> IF S!Fresh(k) THEN {standings[k].result} ELSE {}]
<1>1. k \in S!Key /\ k = <<g, k[2]>>
  BY DEF S!KeyOf, S!Key, Parameters
<1> HIDE DEF k
<1>2. req' = [req EXCEPT ![r] = q] /\ UNCHANGED <<now, standings, faults>>
  BY <1>1 DEF S!Ask, S!Fine, k
<1>3. S!Fresh(k) => /\ standings[k].result \in S!Result /\ OfKey(standings[k].result, k) /\ CountedAfter(standings[k].result)
                  /\ now - standings[k].result.read < Ttl + MaxQuery
  BY DEF Kept, EntriesFit, S!Fresh, Parameters, S!Result
<1>4. q \in Requests
  BY <1>1, <1>3 DEF Kept, Requests, S!Opt
<1>5. EntriesFit'
  BY <1>2 DEF Kept, EntriesFit, OfKey, CountedAfter
<1>6. RequestFits(q, now')
  <2>1. \A x \in q.got : S!Fresh(k) /\ x = standings[k].result
    OBVIOUS
  <2>2. q.pc \in {"query", "answer"} /\ q.since = now /\ q.key = k /\ now' = now
    BY <1>2
  <2>3. now - now <= MaxQuery /\ now <= now
    BY DEF Kept, Parameters
  <2>4. QED
    BY <1>3, <2>1, <2>2, <2>3 DEF RequestFits
<1>7. RequestsFit'
  <2> SUFFICES ASSUME NEW s \in Request PROVE RequestFits(req'[s], now')
    BY DEF RequestsFit
  <2>1. CASE s = r
    BY <1>2, <1>6, <2>1 DEF Kept
  <2>2. CASE s # r
    BY <1>2, <2>2 DEF Kept, RequestsFit
  <2>3. QED
    BY <2>1, <2>2
<1>8. QED
  BY <1>2, <1>4, <1>5, <1>7 DEF Kept

\* Steps that leave the cache and the clock alone and change one request.
LEMMA OneRequest ==
    ASSUME Kept, NEW r \in Request, NEW q \in Requests, RequestFits(q, now), faults' \in 0 .. MaxFaults,
           req' = [req EXCEPT ![r] = q], UNCHANGED <<now, standings>>
    PROVE  Kept'
<1>1. EntriesFit'
  BY DEF Kept, EntriesFit, OfKey, CountedAfter
<1>2. \A s \in Request : req'[s] = IF s = r THEN q ELSE req[s]
  BY DEF Kept
<1>3. RequestsFit'
  BY <1>2 DEF Kept, RequestsFit
<1>4. QED
  BY <1>1, <1>3 DEF Kept

\* The database tells what it holds now, of the granularity it takes.
LEMMA QueryStep == ASSUME Parameters, Kept, NEW r \in Request, S!Query(r) PROVE Kept'
<1>0. req[r] \in Requests /\ RequestFits(req[r], now) /\ req[r].pc = "query"
  BY DEF Kept, RequestsFit, S!Query
<1>1. CASE S!Fault /\ req' = [req EXCEPT ![r] = S!Idle]
  <2>1. RequestFits(S!Idle, now) /\ faults' \in 0 .. MaxFaults
    BY <1>1 DEF RequestFits, S!Idle, Kept, S!Fault, Parameters
  <2>2. QED
    BY <1>1, <2>1, IdleFits, OneRequest DEF S!Query
<1>2. CASE S!Fine /\ req' = [req EXCEPT ![r].pc = "counts",
                              ![r].got = {[gran |-> IF req[r].key[1] \in Valid THEN req[r].key[1] ELSE Default,
                                           hours |-> req[r].key[2], read |-> now, counts |-> {}]}]
  <2> DEFINE x == [gran |-> IF req[r].key[1] \in Valid THEN req[r].key[1] ELSE Default, hours |-> req[r].key[2],
                   read |-> now, counts |-> {}]
             q == [req[r] EXCEPT !.pc = "counts", !.got = {x}]
  <2>1. x \in S!Result /\ OfKey(x, req[r].key) /\ CountedAfter(x)
    BY <1>0 DEF Parameters, Kept, Requests, S!Key, S!Result, OfKey, CountedAfter
  <2>2. q \in Requests
    BY <1>0, <2>1 DEF Requests, S!Opt
  <2>3. req' = [req EXCEPT ![r] = q]
    BY <1>2 DEF Kept
  <2>4. RequestFits(q, now)
    <3> HIDE DEF x
    <3>1. q.got = {x} /\ q.pc = "counts" /\ q.key = req[r].key /\ q.since = req[r].since
      BY <1>0 DEF Requests
    <3>2. x.read = now
      BY DEF x
    <3>3. QED
      BY <1>0, <2>1, <3>1, <3>2 DEF RequestFits, Kept
  <2>5. faults' \in 0 .. MaxFaults
    BY <1>2 DEF Kept, S!Fine
  <2>6. QED
    BY <2>2, <2>3, <2>4, <2>5, OneRequest DEF S!Query
<1>3. QED
  BY <1>1, <1>2 DEF S!Query

\* The counts are read after the result they are added to, or are left out.
LEMMA CountsStep == ASSUME Parameters, Kept, NEW r \in Request, S!Counts(r) PROVE Kept'
<1>0. req[r] \in Requests /\ RequestFits(req[r], now) /\ req[r].pc = "counts"
  BY DEF Kept, RequestsFit, S!Counts
<1>1. CASE S!Fault /\ req' = [req EXCEPT ![r].pc = "store"]
  <2> DEFINE q == [req[r] EXCEPT !.pc = "store"]
  <2>1. q \in Requests /\ RequestFits(q, now) /\ faults' \in 0 .. MaxFaults
    BY <1>0, <1>1 DEF Requests, RequestFits, Kept, S!Fault, Parameters
  <2>2. req' = [req EXCEPT ![r] = q]
    BY <1>1 DEF Kept
  <2>3. QED
    BY <2>1, <2>2, OneRequest DEF S!Counts
<1>2. CASE S!Fine /\ req' = [req EXCEPT ![r].pc = "store", ![r].got = {[x EXCEPT !.counts = {now}] : x \in req[r].got}]
  <2> DEFINE new(x) == [x EXCEPT !.counts = {now}]
             q == [req[r] EXCEPT !.pc = "store", !.got = {new(x) : x \in req[r].got}]
  <2>1. ASSUME NEW x \in req[r].got
        PROVE  /\ new(x) \in S!Result /\ OfKey(new(x), req[r].key) /\ CountedAfter(new(x))
               /\ new(x).read = x.read
    <3>1. x \in S!Result /\ x.read <= now /\ OfKey(x, req[r].key)
      BY <1>0 DEF RequestFits, Requests, S!Opt
    <3>2. {now} \in SUBSET (0 .. MaxTime)
      BY DEF Kept
    <3>3. new(x) = [gran |-> x.gran, hours |-> x.hours, read |-> x.read, counts |-> {now}]
      BY <3>1 DEF S!Result
    <3>4. QED
      BY <3>1, <3>2, <3>3 DEF S!Result, OfKey, CountedAfter
  <2>2. {new(x) : x \in req[r].got} \in S!Opt(S!Result)
    <3>1. CASE req[r].got = {}
      BY <3>1 DEF S!Opt
    <3>2. ASSUME NEW y \in S!Result, req[r].got = {y} PROVE {new(x) : x \in req[r].got} \in S!Opt(S!Result)
      <4>1. {new(x) : x \in req[r].got} = {new(y)}
        BY <3>2
      <4>2. QED
        BY <2>1, <3>2, <4>1 DEF S!Opt
    <3>3. QED
      BY <1>0, <3>1, <3>2 DEF Requests, S!Opt
  <2>3. q \in Requests
    BY <1>0, <2>2 DEF Requests
  <2>4. RequestFits(q, now)
    <3> HIDE DEF new
    <3>1. /\ q.got = {new(x) : x \in req[r].got} /\ q.pc = "store" /\ q.key = req[r].key
          /\ q.since = req[r].since
      BY <1>0 DEF Requests
    <3>2. QED
      BY <1>0, <2>1, <3>1 DEF RequestFits
  <2>5. req' = [req EXCEPT ![r] = q] /\ faults' \in 0 .. MaxFaults
    BY <1>2 DEF Kept, S!Fine
  <2>6. QED
    BY <2>3, <2>4, <2>5, OneRequest DEF S!Counts
<1>3. QED
  BY <1>1, <1>2 DEF S!Counts

\* An entry says now of what was read while its request was under way.
LEMMA KeepStep == ASSUME Parameters, Kept, NEW r \in Request, S!Store(r) PROVE Kept'
<1>0. req[r] \in Requests /\ RequestFits(req[r], now) /\ req[r].pc = "store"
  BY DEF Kept, RequestsFit, S!Store
<1> PICK x \in req[r].got :
       LET k == S!KeyOf(req[r].key[1], req[r].key[2]) IN
       standings' = [q \in DOMAIN standings \cup {k} |-> IF q = k THEN [result |-> x, at |-> now] ELSE standings[q]]
  BY DEF S!Store
<1> DEFINE k == req[r].key
           q == [req[r] EXCEPT !.pc = "answer"]
<1>1. k \in S!Key /\ standings' = [j \in DOMAIN standings \cup {k} |-> IF j = k THEN [result |-> x, at |-> now] ELSE standings[j]]
  BY <1>0, KeyTwice DEF Requests
<1>2. /\ x \in S!Result /\ OfKey(x, k) /\ CountedAfter(x)
      /\ req[r].since <= x.read /\ x.read <= now /\ now - req[r].since <= MaxQuery
  BY <1>0 DEF RequestFits, Requests, S!Opt
<1>3. now - x.read <= MaxQuery
  BY <1>0, <1>2 DEF Kept, Requests, S!Result, Parameters
<1>4. now' = now /\ req' = [req EXCEPT ![r] = q] /\ faults' = faults
  BY DEF S!Store, S!Fine, Kept
<1>5. EntriesFit'
  <2> HIDE DEF k
  <2>1. DOMAIN standings' = DOMAIN standings \cup {k}
    BY <1>1
  <2>2. ASSUME NEW j \in DOMAIN standings'
        PROVE  /\ standings'[j].result \in S!Result /\ standings'[j].at \in 0 .. now'
               /\ OfKey(standings'[j].result, j) /\ CountedAfter(standings'[j].result)
               /\ standings'[j].at - standings'[j].result.read <= MaxQuery
    <3>1. CASE j = k
      BY <1>1, <1>2, <1>3, <1>4, <2>1, <3>1 DEF Kept
    <3>2. CASE j # k
      BY <1>1, <1>4, <2>1, <3>2 DEF Kept, EntriesFit
    <3>3. QED
      BY <3>1, <3>2
  <2>3. QED
    BY <1>1, <2>1, <2>2 DEF Kept, EntriesFit, OfKey, CountedAfter
<1>6. q \in Requests
  BY <1>0 DEF Requests
<1>7. RequestFits(q, now)
  <2>1. q.pc = "answer" /\ q.got = req[r].got /\ q.key = k /\ q.since = req[r].since
    BY <1>0 DEF Requests
  <2>2. ASSUME NEW y \in q.got PROVE OfKey(y, k) /\ CountedAfter(y) /\ q.since - y.read < Ttl + MaxQuery
    <3>1. y \in S!Result /\ q.since <= y.read /\ OfKey(y, k) /\ CountedAfter(y) /\ q.since \in Nat
      BY <1>0, <2>1 DEF RequestFits, Requests, S!Opt
    <3>2. QED
      BY <3>1 DEF S!Result, Parameters
  <2>3. QED
    BY <1>0, <2>1, <2>2 DEF RequestFits
<1>8. RequestsFit'
  <2>1. \A s \in Request : req'[s] = IF s = r THEN q ELSE req[s]
    BY <1>4 DEF Kept
  <2>2. QED
    BY <1>4, <1>7, <2>1 DEF Kept, RequestsFit
<1>9. QED
  BY <1>4, <1>5, <1>6, <1>8 DEF Kept

\* Time passes no further than a query may take.
LEMMA LaterStep == ASSUME Parameters, Kept, S!Tick PROVE Kept'
<1>1. now' = now + 1 /\ now' \in 0 .. MaxTime /\ UNCHANGED <<standings, req, faults>>
  BY DEF S!Tick, Kept, Parameters
<1>2. EntriesFit'
  <2>1. \A k \in DOMAIN standings : standings[k].at \in 0 .. now => standings[k].at \in 0 .. now'
    BY <1>1 DEF Kept
  <2>2. QED
    BY <1>1, <2>1 DEF Kept, EntriesFit, OfKey, CountedAfter
<1>3. ASSUME NEW r \in Request PROVE RequestFits(req[r], now')
  <2>1. req[r] \in Requests /\ RequestFits(req[r], now)
    BY DEF Kept, RequestsFit
  <2>2. req[r].pc \in {"query", "counts", "store"} => now - req[r].since < MaxQuery
    BY DEF S!Tick
  <2>3. req[r].since \in Nat /\ now \in Nat /\ \A x \in req[r].got : x.read \in Nat
    BY <2>1 DEF Requests, S!Opt, S!Result, Kept
  <2>4. QED
    BY <1>1, <2>1, <2>2, <2>3 DEF RequestFits, Parameters
<1>4. QED
  BY <1>1, <1>2, <1>3 DEF Kept, RequestsFit

LEMMA KeptStep == ASSUME Parameters, Kept, [S!Next]_S!vars PROVE Kept'
<1>1. ASSUME NEW r \in Request, S!Answer(r) PROVE Kept'
  <2>1. RequestFits(S!Idle, now) /\ faults' \in 0 .. MaxFaults
    BY <1>1 DEF RequestFits, S!Idle, Kept, S!Answer, S!Fine, Parameters
  <2>2. QED
    BY <1>1, <2>1, IdleFits, OneRequest DEF S!Answer
<1>2. CASE UNCHANGED S!vars
  BY <1>2 DEF S!vars, Kept, EntriesFit, RequestsFit, OfKey, CountedAfter
<1>3. QED
  BY <1>1, <1>2, AskStep, QueryStep, CountsStep, KeepStep, LaterStep DEF S!Next

\* server.go:1280-1378: the invariant, whatever the requests, in whatever order
\* they query and store.
THEOREM StandingsKept == ASSUME Parameters PROVE S!Spec => []Kept
<1>1. S!Init => Kept
  BY InitKept
<1>2. Kept /\ [S!Next]_S!vars => Kept'
  BY KeptStep
<1>3. QED
  BY <1>1, <1>2, PTL DEF S!Spec

LEMMA KeptFresh == ASSUME Parameters, Kept PROVE S!StandingsFresh
<1> SUFFICES ASSUME NEW r \in Request, req[r].pc = "answer", NEW x \in req[r].got
             PROVE  /\ x.gran = (IF req[r].key[1] \in Valid THEN req[r].key[1] ELSE Default) /\ x.hours = req[r].key[2]
                    /\ \A k \in DOMAIN standings : standings[k].result = x => standings[k].at - x.read <= MaxQuery
                    /\ req[r].since - x.read < Ttl + MaxQuery
                    /\ \A c \in x.counts : c >= x.read
  BY DEF S!StandingsFresh
<1>1. OfKey(x, req[r].key) /\ CountedAfter(x) /\ req[r].since - x.read < Ttl + MaxQuery
  BY DEF Kept, RequestsFit, RequestFits
<1>2. QED
  BY <1>1 DEF Kept, EntriesFit, OfKey, CountedAfter

\* server.go:1291, :1341: an answer is of the query asked for, and tells all
\* that was there a TTL and the longest query before it was asked.
THEOREM AnswersAreFresh == ASSUME Parameters PROVE S!Spec => []S!StandingsFresh
<1>1. Kept => S!StandingsFresh
  BY KeptFresh
<1>2. QED
  BY <1>1, StandingsKept, PTL
-----------------------------------------------------------------------------
(* Spansh: the pace of the requests, and what a batch asks and answers.    *)

Index == DOMAIN Batch
Working == {"post", "posting", "poll", "polling", "sleep"}
Task == [pc : Working \cup {"start", "done"}, tries : Nat, delay : Nat, wake : Nat]
Bare(i) == Outer!Search(Batch[i].op, Batch[i].given) = {}
SentOf(i) == {x \in sent : x[1] = i}

\* How often a call in a phase can have asked.
Most(i) ==
    LET w == worker[i]
    IN  CASE w.pc \in {"start", "post"} -> 0
          [] w.pc = "posting"           -> 1
          [] w.pc \in {"poll", "sleep"} -> w.tries + 1
          [] w.pc = "polling"           -> w.tries + 2
          [] OTHER                      -> Outer!Limit(i) + 1

BatchTypes ==
    /\ now \in Nat /\ last \in Int /\ last =< now /\ worker \in [Index -> Task]
    /\ job \in [Index -> {"none", "processing", "ready"}] /\ results \in [Index -> SUBSET (Index \cup {Outer!Error})]
    /\ IsFiniteSet(sent) /\ sent \subseteq Index \X Nat

\* The mutex has one holder, who is on the way to a request.
OneHolder == /\ holder \subseteq Index /\ \A i, j \in holder : i = j
         /\ \A i \in holder : worker[i].pc \in {"post", "poll"}

\* The last request is the last, and each is a wait after the one before it.
Paced == /\ \A x \in sent : x[2] =< last
         /\ \A x, y \in sent : x # y => x[2] - y[2] >= Wait \/ y[2] - x[2] >= Wait

\* A call's attempts are counted where it waits for another; one without its
\* fields never works; who is done has a result of its own.
CallFits(i) ==
    /\ worker[i].pc \in {"start", "post", "posting"} => worker[i].tries = 0
    /\ worker[i].pc \in {"poll", "polling"} => worker[i].tries < Outer!Limit(i)
    /\ worker[i].pc = "sleep" => worker[i].tries =< Outer!Limit(i)
    /\ Bare(i) => worker[i].pc \in {"start", "done"} /\ SentOf(i) = {}
    /\ Cardinality(SentOf(i)) =< Most(i)
    /\ worker[i].pc # "done" => results[i] = {}
    /\ worker[i].pc = "done" => results[i] = {i} \/ results[i] = {Outer!Error}

BatchInv == /\ BatchTypes /\ OneHolder /\ Paced /\ Cardinality(Outer!Busy) =< BatchSize
            /\ \A i \in Index : CallFits(i)
            /\ answered => \A i \in Index : worker[i].pc = "done"

SpanshInv == part = "spansh" => BatchInv

LEMMA BatchFits ==
    /\ Index = 1 .. Len(Batch) /\ IsFiniteSet(Index) /\ Len(Batch) \in Nat
    /\ \A i \in Index : Outer!Limit(i) \in Nat \ {0}
    /\ BatchSize \in Nat /\ Wait \in Nat /\ MaxBatchTime \in Nat
<1>1. Index = 1 .. Len(Batch) /\ Len(Batch) \in Nat
  BY BatchAssumption DEF Index
<1>2. IsFiniteSet(Index)
  BY <1>1, FS_Interval
<1>3. \A i \in Index : Outer!Limit(i) \in Nat \ {0}
  BY BatchAssumption DEF Outer!Limit
<1>4. QED
  BY <1>1, <1>2, <1>3, BatchAssumption

LEMMA OuterCounts == \A B : Outer!Cardinality(B) = Cardinality(B)
BY DEF Outer!Cardinality, Cardinality

LEMMA BusyFinite == IsFiniteSet(Outer!Busy) /\ Cardinality(Outer!Busy) \in Nat
<1>1. Outer!Busy \subseteq Index
  BY DEF Outer!Busy, Outer!Index, Index
<1>2. IsFiniteSet(Outer!Busy)
  BY <1>1, BatchFits, FS_Subset
<1>3. QED
  BY <1>2, FS_CardinalityType

\* Fewer at work are not too many; one who comes needs a place.
LEMMA BusyFewer ==
    ASSUME Cardinality(Outer!Busy) =< BatchSize, NEW i \in Index,
           Outer!Busy' \subseteq Outer!Busy \cup {i}, i \notin Outer!Busy => Cardinality(Outer!Busy) < BatchSize
    PROVE  Cardinality(Outer!Busy)' =< BatchSize
<1>1. PICK B : B = Outer!Busy'
  OBVIOUS
<1>2. BatchSize \in Nat /\ IsFiniteSet(Outer!Busy) /\ Cardinality(Outer!Busy) \in Nat
  BY BatchFits, BusyFinite
<1>3. IsFiniteSet(Outer!Busy \cup {i})
      /\ Cardinality(Outer!Busy \cup {i}) = IF i \in Outer!Busy THEN Cardinality(Outer!Busy) ELSE Cardinality(Outer!Busy) + 1
  BY <1>2, FS_AddElement
<1>4. B \subseteq Outer!Busy \cup {i}
  BY <1>1
<1>5. Cardinality(B) \in Nat /\ Cardinality(B) =< Cardinality(Outer!Busy \cup {i})
  BY <1>3, <1>4, FS_Subset, FS_CardinalityType
<1>6. Cardinality(B) =< BatchSize
  BY <1>2, <1>3, <1>5
<1>7. QED
  BY <1>1, <1>6

LEMMA BatchTyped ==
    ASSUME BatchInv, NEW i \in Index
    PROVE  worker[i] \in Task /\ CallFits(i) /\ Outer!Limit(i) \in Nat \ {0}
BY BatchFits DEF BatchInv, BatchTypes

\* A call nothing happens to.
LEMMA CallRests ==
    ASSUME NEW i \in Index, CallFits(i), worker'[i] = worker[i], results'[i] = results[i], SentOf(i)' = SentOf(i)
    PROVE  CallFits(i)'
<1>1. Most(i)' = Most(i)
  BY DEF Most, Outer!Limit, Outer!Fleet
<1>2. Cardinality(SentOf(i))' = Cardinality(SentOf(i))
  OBVIOUS
<1>3. QED
  BY <1>1, <1>2 DEF CallFits, Bare, Outer!Search, Outer!Required, Outer!Filters, Outer!Limit, Outer!Fleet

\* A call goes on: it was not on the way to a request, and starts only where
\* there is a place for it.
LEMMA CallStep ==
    ASSUME BatchInv, NEW i \in Index, NEW w \in Task, NEW r \in SUBSET (Index \cup {Outer!Error}),
           worker[i].pc \notin {"done", "post", "poll"}, w.pc # "start",
           worker[i].pc = "start" => Cardinality(Outer!Busy) < BatchSize,
           worker' = [worker EXCEPT ![i] = w], results' = [results EXCEPT ![i] = r],
           UNCHANGED <<now, last, holder, sent, answered>>, job' \in [Index -> {"none", "processing", "ready"}],
           CallFits(i)'
    PROVE  BatchInv'
<1>1. BatchTypes'
  BY DEF BatchInv, BatchTypes
<1>2. \A j \in Index \ {i} : worker'[j] = worker[j] /\ results'[j] = results[j]
  OBVIOUS
<1>3. worker'[i] = w
  BY DEF BatchInv, BatchTypes
<1>4. OneHolder'
  <2>1. i \notin holder
    BY DEF BatchInv, OneHolder
  <2>2. QED
    BY <1>2, <2>1 DEF BatchInv, OneHolder
<1>5. Paced'
  BY DEF BatchInv, Paced
<1>6. Cardinality(Outer!Busy)' =< BatchSize
  <2>1. Outer!Busy' \subseteq Outer!Busy \cup {i}
    BY <1>2 DEF Outer!Busy, Outer!Index, Index
  <2>2. i \notin Outer!Busy => worker[i].pc = "start"
    BY DEF Outer!Busy, Outer!Index, Index
  <2>3. QED
    BY <2>1, <2>2, BusyFewer DEF BatchInv
<1>7. \A j \in Index : CallFits(j)'
  <2>1. ASSUME NEW j \in Index \ {i} PROVE CallFits(j)'
    BY <1>2, CallRests DEF BatchInv, SentOf
  <2>2. QED
    BY <2>1
<1>8. answered' => \A j \in Index : worker'[j].pc = "done"
  BY DEF BatchInv
<1>9. QED
  BY <1>1, <1>4, <1>5, <1>6, <1>7, <1>8 DEF BatchInv

LEMMA BatchStarts == ASSUME Outer!Init PROVE BatchInv
<1>1. now = 0 /\ last = -Wait /\ holder = {} /\ sent = {} /\ answered = FALSE
  BY DEF Outer!Init
<1>2. \A i \in Index : worker[i] = [pc |-> "start", tries |-> 0, delay |-> IF Outer!Fleet(i) THEN 2 ELSE 1, wake |-> 0]
  BY DEF Outer!Init, Outer!Index, Index
<1>3. worker \in [Index -> Task] /\ \A i \in Index : worker[i].pc = "start" /\ worker[i].tries = 0
  BY DEF Outer!Init, Outer!Index, Index, Task
<1>4. BatchTypes
  <2>1. IsFiniteSet(sent) /\ sent \subseteq Index \X Nat
    BY <1>1, FS_EmptySet
  <2>2. last \in Int /\ last =< now /\ now \in Nat
    BY <1>1, BatchFits
  <2>3. QED
    BY <1>3, <2>1, <2>2 DEF BatchTypes, Outer!Init, Outer!Index, Index
<1>5. OneHolder /\ Paced
  BY <1>1 DEF OneHolder, Paced
<1>6. Cardinality(Outer!Busy) =< BatchSize
  <2>1. Outer!Busy = {}
    BY <1>3 DEF Outer!Busy, Outer!Index, Index
  <2>2. QED
    BY <2>1, BatchFits, FS_EmptySet
<1>7. ASSUME NEW i \in Index PROVE CallFits(i)
  <2>1. SentOf(i) = {} /\ Cardinality(SentOf(i)) = 0
    BY <1>1, FS_EmptySet DEF SentOf
  <2>2. Most(i) = 0 /\ worker[i].pc = "start"
    BY <1>3 DEF Most
  <2>3. results[i] = {}
    BY DEF Outer!Init, Outer!Index, Index
  <2>4. QED
    BY <1>3, <2>1, <2>2, <2>3 DEF CallFits
<1>8. QED
  BY <1>1, <1>4, <1>5, <1>6, <1>7 DEF BatchInv
\* How often a call may have asked, by the phase it comes to.
LEMMA MostFits ==
    ASSUME NEW i \in Index, NEW w \in Task, worker'[i] = w, UNCHANGED sent,
           results'[i] = (IF w.pc = "done" THEN results'[i] ELSE {}),
           w.pc = "done" => results'[i] = {i} \/ results'[i] = {Outer!Error},
           w.pc \in {"start", "post", "posting"} => w.tries = 0,
           w.pc \in {"poll", "polling"} => w.tries < Outer!Limit(i),
           w.pc = "sleep" => w.tries =< Outer!Limit(i),
           Bare(i) => w.pc \in {"start", "done"} /\ SentOf(i) = {},
           NEW m \in Nat, Cardinality(SentOf(i)) =< m, Cardinality(SentOf(i)) \in Nat,
           \/ w.pc \in {"start", "post"} /\ m = 0
           \/ w.pc = "posting" /\ m = 1
           \/ w.pc \in {"poll", "sleep"} /\ m = w.tries + 1
           \/ w.pc = "polling" /\ m = w.tries + 2
           \/ w.pc = "done" /\ m = Outer!Limit(i) + 1
    PROVE  CallFits(i)'
<1>1. SentOf(i)' = SentOf(i)
  BY DEF SentOf
<1>2. PICK a : a = Cardinality(SentOf(i))
  OBVIOUS
<1>3. Cardinality(SentOf(i))' = a
  BY <1>1, <1>2
<1>4. Most(i)' = m
  BY DEF Most, Outer!Limit, Outer!Fleet
<1>5. a =< m
  BY <1>2
<1>6. Bare(i)' = Bare(i) /\ Outer!Limit(i)' = Outer!Limit(i)
  BY DEF Bare, Outer!Limit, Outer!Fleet, Outer!Search, Outer!Required, Outer!Filters
<1>7. /\ worker'[i].pc \in {"start", "post", "posting"} => worker'[i].tries = 0
      /\ worker'[i].pc \in {"poll", "polling"} => worker'[i].tries < Outer!Limit(i)
      /\ worker'[i].pc = "sleep" => worker'[i].tries =< Outer!Limit(i)
      /\ Bare(i) => worker'[i].pc \in {"start", "done"} /\ SentOf(i)' = {}
  BY <1>1
<1>8. /\ worker'[i].pc # "done" => results'[i] = {}
      /\ worker'[i].pc = "done" => results'[i] = {i} \/ results'[i] = {Outer!Error}'
  BY DEF Outer!Error
<1>9. (Cardinality(SentOf(i)) =< Most(i))'
  BY <1>3, <1>4, <1>5
<1>10. QED
  BY <1>6, <1>7, <1>8, <1>9 DEF CallFits

\* What is known of a call's requests.
LEMMA SentFits ==
    ASSUME BatchInv, NEW i \in Index
    PROVE  /\ IsFiniteSet(SentOf(i)) /\ Cardinality(SentOf(i)) \in Nat /\ Cardinality(SentOf(i)) =< Most(i)
           /\ worker[i].pc \in {"start", "post"} => Cardinality(SentOf(i)) =< 0
           /\ worker[i].pc = "posting" => Cardinality(SentOf(i)) =< 1
           /\ worker[i].pc \in {"poll", "sleep"} => Cardinality(SentOf(i)) =< worker[i].tries + 1
           /\ worker[i].pc = "polling" => Cardinality(SentOf(i)) =< worker[i].tries + 2
<1>1. SentOf(i) \subseteq sent /\ IsFiniteSet(sent)
  BY DEF SentOf, BatchInv, BatchTypes
<1>2. IsFiniteSet(SentOf(i)) /\ Cardinality(SentOf(i)) \in Nat
  BY <1>1, FS_Subset, FS_CardinalityType
<1>3. Cardinality(SentOf(i)) =< Most(i)
  BY BatchTyped DEF CallFits
<1>4. QED
  BY <1>2, <1>3 DEF Most

LEMMA AcquireStep == ASSUME BatchInv, NEW i \in Index, Outer!Acquire(i) PROVE BatchInv'
<1>1. /\ worker[i] \in Task /\ worker[i].pc = "start" /\ worker[i].tries = 0 /\ results[i] = {}
      /\ Outer!Limit(i) \in Nat \ {0} /\ Cardinality(SentOf(i)) =< 0 /\ Cardinality(SentOf(i)) \in Nat
  BY BatchTyped, SentFits DEF Outer!Acquire, CallFits
<1>2. /\ UNCHANGED <<now, last, holder, sent, answered>> /\ Cardinality(Outer!Busy) < BatchSize
      /\ job' \in [Index -> {"none", "processing", "ready"}]
      /\ results \in [Index -> SUBSET (Index \cup {Outer!Error})]
  <2>1. UNCHANGED <<now, last, holder, job, sent, answered>> /\ Cardinality(Outer!Busy) < BatchSize
    BY OuterCounts DEF Outer!Acquire
  <2>2. QED
    BY <2>1 DEF BatchInv, BatchTypes
<1>3. CASE Bare(i)
  <2>1. PICK w : w = [worker[i] EXCEPT !.pc = "done"]
    OBVIOUS
  <2>2. w \in Task /\ w.pc = "done"
    BY <1>1, <2>1 DEF Task
  <2>3. worker' = [worker EXCEPT ![i] = w] /\ results' = [results EXCEPT ![i] = {Outer!Error}]
    BY <1>3, <2>1 DEF Outer!Acquire, Outer!Done, Bare
  <2>4. worker'[i] = w /\ results'[i] = {Outer!Error} /\ SentOf(i) = {}
    BY <1>2, <1>3, <2>3, BatchTyped DEF BatchInv, BatchTypes, CallFits
  <2>5. PICK m \in Nat : m = Outer!Limit(i) + 1
    BY <1>1
  <2>6. Cardinality(SentOf(i)) =< m
    BY <1>1, <2>5
  <2>7. CallFits(i)'
    BY <1>1, <1>2, <2>2, <2>4, <2>5, <2>6, MostFits
  <2>8. QED
    BY <1>1, <1>2, <2>2, <2>3, <2>7, CallStep
<1>4. CASE ~Bare(i)
  <2>1. PICK w : w = [worker[i] EXCEPT !.pc = "post"]
    OBVIOUS
  <2>2. w \in Task /\ w.pc = "post" /\ w.tries = 0
    BY <1>1, <2>1 DEF Task, Working
  <2>3. worker' = [worker EXCEPT ![i] = w] /\ results' = [results EXCEPT ![i] = {}]
    BY <1>1, <1>2, <1>4, <2>1 DEF Outer!Acquire, Bare
  <2>4. worker'[i] = w /\ results'[i] = {}
    BY <1>2, <2>3 DEF BatchInv, BatchTypes
  <2>5. CallFits(i)'
    BY <1>1, <1>2, <1>4, <2>2, <2>4, MostFits
  <2>6. QED
    BY <1>1, <1>2, <2>2, <2>3, <2>5, CallStep
<1>5. QED
  BY <1>3, <1>4

\* A call ends with an error or with what it asked for.
LEMMA EndStep ==
    ASSUME BatchInv, NEW i \in Index, worker[i].pc \in {"posting", "polling", "sleep"},
           NEW x \in {i, Outer!Error}, Outer!Done(i, x), UNCHANGED <<now, last, holder, job, sent, answered>>
    PROVE  BatchInv'
<1>1. /\ worker[i] \in Task /\ Outer!Limit(i) \in Nat \ {0} /\ Cardinality(SentOf(i)) \in Nat /\ ~Bare(i)
      /\ Cardinality(SentOf(i)) =< Outer!Limit(i) + 1
  <2>1. worker[i] \in Task /\ CallFits(i) /\ Outer!Limit(i) \in Nat \ {0}
    BY BatchTyped
  <2>2. worker[i].tries \in Nat
    BY <2>1 DEF Task
  <2>3. QED
    BY <2>1, <2>2, SentFits DEF CallFits
<1>2. PICK w : w = [worker[i] EXCEPT !.pc = "done"]
  OBVIOUS
<1>3. w \in Task /\ w.pc = "done"
  BY <1>1, <1>2 DEF Task
<1>4. worker' = [worker EXCEPT ![i] = w] /\ results' = [results EXCEPT ![i] = {x}]
  BY <1>2 DEF Outer!Done
<1>5. worker'[i] = w /\ results'[i] = {x} /\ job' \in [Index -> {"none", "processing", "ready"}]
  BY <1>4 DEF BatchInv, BatchTypes
<1>6. PICK m \in Nat : m = Outer!Limit(i) + 1
  BY <1>1
<1>7. CallFits(i)'
  BY <1>1, <1>3, <1>5, <1>6, MostFits
<1>8. {x} \in SUBSET (Index \cup {Outer!Error})
  OBVIOUS
<1>9. QED
  BY <1>3, <1>4, <1>5, <1>7, <1>8, CallStep

LEMMA PostedStep == ASSUME BatchInv, NEW i \in Index, Outer!Posted(i) PROVE BatchInv'
<1>1. /\ worker[i] \in Task /\ worker[i].pc = "posting" /\ worker[i].tries = 0 /\ results[i] = {} /\ ~Bare(i)
      /\ Outer!Limit(i) \in Nat \ {0} /\ Cardinality(SentOf(i)) =< 1 /\ Cardinality(SentOf(i)) \in Nat
  BY BatchTyped, SentFits DEF Outer!Posted, CallFits
<1>2. UNCHANGED <<now, last, holder, sent, answered>>
  BY DEF Outer!Posted
<1>3. CASE Outer!Done(i, Outer!Error) /\ UNCHANGED job
  BY <1>1, <1>2, <1>3, EndStep
<1>4. CASE /\ ~gone /\ job' = [job EXCEPT ![i] = "processing"]
           /\ worker' = [worker EXCEPT ![i].pc = "poll"] /\ UNCHANGED results
  <2>1. PICK w : w = [worker[i] EXCEPT !.pc = "poll"]
    OBVIOUS
  <2>2. w \in Task /\ w.pc = "poll" /\ w.tries = 0
    BY <1>1, <2>1 DEF Task, Working
  <2>3. worker' = [worker EXCEPT ![i] = w] /\ results' = [results EXCEPT ![i] = {}]
    BY <1>1, <1>4, <2>1 DEF BatchInv, BatchTypes
  <2>4. worker'[i] = w /\ results'[i] = {} /\ job' \in [Index -> {"none", "processing", "ready"}]
    BY <1>4, <2>3 DEF BatchInv, BatchTypes
  <2>5. PICK m \in Nat : m = 1 /\ m = w.tries + 1
    BY <2>2
  <2>6. w.tries < Outer!Limit(i)
    BY <1>1, <2>2
  <2>7. CallFits(i)'
    BY <1>1, <1>2, <2>2, <2>4, <2>5, <2>6, MostFits
  <2>8. QED
    BY <1>1, <1>2, <2>2, <2>3, <2>4, <2>7, CallStep
<1>5. QED
  BY <1>3, <1>4 DEF Outer!Posted
\* The mutex is taken by a call on the way to a request.
LEMMA LockStep == ASSUME BatchInv, NEW i \in Index, Outer!Lock(i) PROVE BatchInv'
<1>1. holder' = {i} /\ worker[i].pc \in {"post", "poll"} /\ UNCHANGED <<now, last, worker, job, sent, results, answered>>
  BY DEF Outer!Lock
<1>2. OneHolder'
  BY <1>1 DEF OneHolder
<1>3. BatchTypes' /\ Paced' /\ (answered' => \A j \in Index : worker'[j].pc = "done")
  BY <1>1 DEF BatchInv, BatchTypes, Paced
<1>4. (Cardinality(Outer!Busy) =< BatchSize)'
  <2>1. Outer!Busy' = Outer!Busy
    BY <1>1 DEF Outer!Busy
  <2>2. QED
    BY <2>1 DEF BatchInv
<1>5. \A j \in Index : CallFits(j)'
  BY <1>1, CallRests DEF BatchInv, SentOf
<1>6. QED
  BY <1>2, <1>3, <1>4, <1>5 DEF BatchInv

\* What passes by the calls.
LEMMA BatchRests ==
    ASSUME BatchInv, UNCHANGED <<last, holder, worker, sent, results>>, now' \in Nat, now =< now',
           job' \in [Index -> {"none", "processing", "ready"}],
           answered' => \A j \in Index : worker[j].pc = "done"
    PROVE  BatchInv'
<1>1. BatchTypes'
  BY DEF BatchInv, BatchTypes
<1>2. OneHolder' /\ Paced' /\ (answered' => \A j \in Index : worker'[j].pc = "done")
  BY DEF BatchInv, OneHolder, Paced
<1>3. (Cardinality(Outer!Busy) =< BatchSize)'
  <2>1. Outer!Busy' = Outer!Busy
    BY DEF Outer!Busy
  <2>2. QED
    BY <2>1 DEF BatchInv
<1>4. \A j \in Index : CallFits(j)'
  BY CallRests DEF BatchInv, SentOf
<1>5. QED
  BY <1>1, <1>2, <1>3, <1>4 DEF BatchInv

\* A request goes out, a wait after the last one.
LEMMA SendStep == ASSUME BatchInv, NEW i \in Index, Outer!Send(i) PROVE BatchInv'
<1>1. /\ worker[i] \in Task /\ worker[i].pc \in {"post", "poll"} /\ ~Bare(i) /\ CallFits(i)
      /\ Outer!Limit(i) \in Nat \ {0} /\ worker[i].tries \in Nat
  BY BatchTyped DEF Outer!Send, BatchInv, OneHolder, CallFits, Task
<1>2. /\ holder = {i} /\ holder' = {} /\ last' = now /\ now - last >= Wait /\ sent' = sent \cup {<<i, now>>}
      /\ UNCHANGED <<now, job, results, answered>>
  BY DEF Outer!Send
<1>3. PICK w : w = [worker[i] EXCEPT !.pc = IF worker[i].pc = "post" THEN "posting" ELSE "polling"]
  OBVIOUS
<1>4. /\ w \in Task /\ w.tries = worker[i].tries
      /\ w.pc = IF worker[i].pc = "post" THEN "posting" ELSE "polling"
  BY <1>1, <1>3 DEF Task, Working
<1>5. worker' = [worker EXCEPT ![i] = w]
  BY <1>3 DEF Outer!Send
<1>6. worker'[i] = w /\ \A j \in Index \ {i} : worker'[j] = worker[j]
  BY <1>5 DEF BatchInv, BatchTypes
<1>7. now \in Nat /\ last \in Int /\ last =< now /\ Wait \in Nat /\ sent \subseteq Index \X Nat /\ IsFiniteSet(sent)
  BY BatchFits DEF BatchInv, BatchTypes
<1>8. BatchTypes'
  <2>1. IsFiniteSet(sent') /\ sent' \subseteq Index \X Nat
    <3>1. PICK z : z = <<i, now>>
      OBVIOUS
    <3>2. IsFiniteSet(sent \cup {z})
      BY <1>7, FS_AddElement
    <3>3. z \in Index \X Nat /\ sent' = sent \cup {z}
      BY <1>2, <1>7, <3>1
    <3>4. QED
      BY <1>7, <3>2, <3>3
  <2>2. worker' \in [Index -> Task]
    BY <1>4, <1>5 DEF BatchInv, BatchTypes
  <2>3. QED
    BY <1>2, <1>7, <2>1, <2>2 DEF BatchInv, BatchTypes
<1>9. OneHolder'
  BY <1>2 DEF OneHolder
<1>10. Paced'
  <2>1. \A x \in sent : x[2] \in Nat /\ x[2] =< last
    BY <1>7 DEF BatchInv, Paced
  <2>2. PICK z : z = <<i, now>>
    OBVIOUS
  <2>3. z[2] = now /\ sent' = sent \cup {z}
    BY <1>2, <2>2
  <2>4. \A x \in sent : z[2] - x[2] >= Wait /\ x[2] =< now
    BY <1>2, <1>7, <2>1, <2>3
  <2>5. \A x \in sent' : x[2] =< last'
    BY <1>2, <1>7, <2>3, <2>4
  <2>6. \A x, y \in sent : x # y => x[2] - y[2] >= Wait \/ y[2] - x[2] >= Wait
    BY DEF BatchInv, Paced
  <2>7. \A x, y \in sent' : x # y => x[2] - y[2] >= Wait \/ y[2] - x[2] >= Wait
    BY <2>3, <2>4, <2>6
  <2>8. QED
    BY <2>5, <2>7 DEF Paced
<1>11. (Cardinality(Outer!Busy) =< BatchSize)'
  <2>1. Outer!Busy' \subseteq Outer!Busy \cup {i} /\ i \in Outer!Busy
    BY <1>1, <1>6 DEF Outer!Busy, Outer!Index, Index
  <2>2. QED
    BY <2>1, BusyFewer DEF BatchInv
<1>12. CallFits(i)'
  <2>1. PICK A : A = SentOf(i)
    OBVIOUS
  <2>2. PICK z : z[1] = i /\ sent' = sent \cup {z} /\ SentOf(i)' = A \cup {z}
    <3>1. PICK z : z = <<i, now>>
      OBVIOUS
    <3>2. z[1] = i /\ sent' = sent \cup {z}
      BY <1>2, <3>1
    <3>3. SentOf(i)' = A \cup {z}
      BY <2>1, <3>2 DEF SentOf
    <3>4. QED
      BY <3>2, <3>3
  <2>3. IsFiniteSet(A) /\ Cardinality(A) \in Nat /\ Cardinality(A) =< (IF worker[i].pc = "post" THEN 0 ELSE worker[i].tries + 1)
    BY <1>1, <2>1, SentFits
  <2>4. Cardinality(A \cup {z}) \in Nat /\ Cardinality(A \cup {z}) =< Cardinality(A) + 1
    <3>1. IsFiniteSet(A \cup {z}) /\ Cardinality(A \cup {z}) = IF z \in A THEN Cardinality(A) ELSE Cardinality(A) + 1
      BY <2>3, FS_AddElement
    <3>2. QED
      BY <2>3, <3>1
  <2>5. PICK n \in Nat : n = Cardinality(A \cup {z})
    BY <2>4
  <2>6. n =< (IF w.pc = "posting" THEN 1 ELSE w.tries + 2)
    BY <1>1, <1>4, <2>3, <2>4, <2>5
  <2>7. Cardinality(SentOf(i))' = n
    BY <2>2, <2>5
  <2>8. Most(i)' = IF w.pc = "posting" THEN 1 ELSE w.tries + 2
    BY <1>1, <1>4, <1>6 DEF Most
  <2>9. (Cardinality(SentOf(i)) =< Most(i))'
    BY <2>6, <2>7, <2>8
  <2>10. Bare(i)' = Bare(i) /\ Outer!Limit(i)' = Outer!Limit(i)
    BY DEF Bare, Outer!Limit, Outer!Fleet, Outer!Search, Outer!Required, Outer!Filters
  <2>11. /\ w.pc \in {"start", "post", "posting"} => w.tries = 0
         /\ w.pc \in {"poll", "polling"} => w.tries < Outer!Limit(i)
         /\ w.pc \notin {"sleep", "done"} /\ results'[i] = {}
    BY <1>1, <1>2, <1>4 DEF CallFits
  <2>12. QED
    BY <1>1, <1>6, <2>9, <2>10, <2>11 DEF CallFits
<1>13. ASSUME NEW j \in Index \ {i} PROVE CallFits(j)'
  <2>1. SentOf(j)' = SentOf(j)
    BY <1>2 DEF SentOf
  <2>2. QED
    BY <1>2, <1>6, <2>1, CallRests DEF BatchInv
<1>14. answered' => \A j \in Index : worker'[j].pc = "done"
  BY <1>1, <1>2 DEF BatchInv
<1>15. QED
  BY <1>8, <1>9, <1>10, <1>11, <1>12, <1>13, <1>14 DEF BatchInv
LEMMA PolledStep == ASSUME BatchInv, NEW i \in Index, Outer!Polled(i) PROVE BatchInv'
<1>1. /\ worker[i] \in Task /\ worker[i].pc = "polling" /\ results[i] = {} /\ ~Bare(i)
      /\ worker[i].tries \in Nat /\ worker[i].tries < Outer!Limit(i) /\ Outer!Limit(i) \in Nat \ {0}
      /\ Cardinality(SentOf(i)) =< worker[i].tries + 2 /\ Cardinality(SentOf(i)) \in Nat
  BY BatchTyped, SentFits DEF Outer!Polled, CallFits, Task
<1>2. UNCHANGED <<now, last, holder, job, sent, answered>>
  BY DEF Outer!Polled
<1>3. CASE Outer!Done(i, i) \/ Outer!Done(i, Outer!Error)
  BY <1>1, <1>2, <1>3, EndStep
<1>4. CASE Outer!Again(i) /\ UNCHANGED results
  <2>1. PICK k, d \in Nat : k = now + worker[i].delay /\ d = Outer!Longer(i)
    <3>1. worker[i].delay \in Nat /\ now \in Nat /\ FleetDelay \in Nat
      BY <1>1, BatchAssumption DEF Task, BatchInv, BatchTypes
    <3>2. \A d \in Nat : d * 2 \in Nat /\ (d * 3) \div 2 \in Nat
      OBVIOUS
    <3>3. QED
      BY <3>1, <3>2 DEF Outer!Longer
  <2>2. PICK w : w = [worker[i] EXCEPT !.pc = "sleep", !.tries = worker[i].tries + 1, !.wake = k, !.delay = d]
    OBVIOUS
  <2>3. w.pc = "sleep" /\ w.tries = worker[i].tries + 1
    BY <1>1, <2>2 DEF Task
  <2>4. w \in Task
    <3>1. PICK n \in Nat : n = worker[i].tries + 1
      BY <1>1
    <3>2. w = [worker[i] EXCEPT !.pc = "sleep", !.tries = n, !.wake = k, !.delay = d]
      BY <2>2, <3>1
    <3>3. QED
      BY <1>1, <3>2 DEF Task, Working
  <2>5. worker' = [worker EXCEPT ![i] = w] /\ results' = [results EXCEPT ![i] = {}]
    BY <1>1, <1>4, <2>1, <2>2 DEF Outer!Again, BatchInv, BatchTypes
  <2>6. worker'[i] = w /\ results'[i] = {} /\ job' \in [Index -> {"none", "processing", "ready"}]
    BY <1>2, <2>5 DEF BatchInv, BatchTypes
  <2>7. PICK m \in Nat : m = worker[i].tries + 2
    BY <1>1
  <2>8. Cardinality(SentOf(i)) =< m /\ m = w.tries + 1 /\ w.tries =< Outer!Limit(i)
    BY <1>1, <2>3, <2>7
  <2>9. CallFits(i)'
    BY <1>1, <1>2, <2>3, <2>4, <2>6, <2>7, <2>8, MostFits
  <2>10. QED
    BY <1>1, <1>2, <2>3, <2>4, <2>5, <2>6, <2>9, CallStep
<1>5. QED
  BY <1>3, <1>4 DEF Outer!Polled

LEMMA WakeStep == ASSUME BatchInv, NEW i \in Index, Outer!Wake(i) PROVE BatchInv'
<1>1. /\ worker[i] \in Task /\ worker[i].pc = "sleep" /\ results[i] = {} /\ ~Bare(i)
      /\ worker[i].tries \in Nat /\ Outer!Limit(i) \in Nat \ {0}
      /\ Cardinality(SentOf(i)) =< worker[i].tries + 1 /\ Cardinality(SentOf(i)) \in Nat
  BY BatchTyped, SentFits DEF Outer!Wake, CallFits, Task
<1>2. UNCHANGED <<now, last, holder, job, sent, answered>>
  BY DEF Outer!Wake
<1>3. CASE Outer!Done(i, Outer!Error)
  BY <1>1, <1>2, <1>3, EndStep
<1>4. CASE worker[i].tries < Outer!Limit(i) /\ worker' = [worker EXCEPT ![i].pc = "poll"] /\ UNCHANGED results
  <2>1. PICK w : w = [worker[i] EXCEPT !.pc = "poll"]
    OBVIOUS
  <2>2. w \in Task /\ w.pc = "poll" /\ w.tries = worker[i].tries
    BY <1>1, <2>1 DEF Task, Working
  <2>3. worker' = [worker EXCEPT ![i] = w] /\ results' = [results EXCEPT ![i] = {}]
    BY <1>1, <1>4, <2>1 DEF BatchInv, BatchTypes
  <2>4. worker'[i] = w /\ results'[i] = {} /\ job' \in [Index -> {"none", "processing", "ready"}]
    BY <1>2, <2>3 DEF BatchInv, BatchTypes
  <2>5. PICK m \in Nat : m = w.tries + 1
    BY <1>1, <2>2
  <2>6. Cardinality(SentOf(i)) =< m /\ w.tries < Outer!Limit(i)
    BY <1>1, <1>4, <2>2, <2>5
  <2>7. CallFits(i)'
    BY <1>1, <1>2, <2>2, <2>4, <2>5, <2>6, MostFits
  <2>8. QED
    BY <1>1, <1>2, <2>2, <2>3, <2>4, <2>7, CallStep
<1>5. QED
  BY <1>3, <1>4 DEF Outer!Wake

LEMMA BatchNext == ASSUME BatchInv, Outer!Next PROVE BatchInv'
<1>1. ASSUME NEW i \in Index, Outer!Step(i) PROVE BatchInv'
  BY <1>1, AcquireStep, LockStep, SendStep, PostedStep, PolledStep, WakeStep DEF Outer!Step
<1>2. /\ now \in Nat /\ job \in [Index -> {"none", "processing", "ready"}]
      /\ answered => \A j \in Index : worker[j].pc = "done"
  BY DEF BatchInv, BatchTypes
<1>3. CASE Outer!Respond
  <2>1. UNCHANGED <<now, last, holder, worker, job, sent, results>> /\ \A j \in Index : worker[j].pc = "done"
    BY <1>3 DEF Outer!Respond, Outer!Index, Index
  <2>2. QED
    BY <1>2, <2>1, BatchRests
<1>4. CASE Outer!Work
  <2>1. UNCHANGED <<now, last, holder, worker, sent, results, answered>> /\ job' \in [Index -> {"none", "processing", "ready"}]
    BY <1>2, <1>4 DEF Outer!Work, Outer!Index, Index
  <2>2. QED
    BY <1>2, <2>1, BatchRests
<1>5. CASE Outer!Leave
  BY <1>2, <1>5, BatchRests DEF Outer!Leave
<1>6. CASE Outer!Tick
  <2>1. UNCHANGED <<last, holder, worker, job, sent, results, answered>> /\ now' = now + 1
    BY <1>6 DEF Outer!Tick
  <2>2. QED
    BY <1>2, <2>1, BatchRests
<1>7. QED
  BY <1>1, <1>3, <1>4, <1>5, <1>6 DEF Outer!Next, Outer!Index, Index

\* BatchInv holds in every behaviour that is of Spansh.
THEOREM BatchInvariance == MCSpec => [](part = "spansh" => BatchInv)
<1>1. MCInit => (part = "spansh" => BatchInv)
  BY BatchStarts DEF MCInit
<1>2. (part = "spansh" => BatchInv) /\ [MCNext]_Rest => (part = "spansh" => BatchInv)'
  <2> SUFFICES ASSUME part = "spansh" => BatchInv, [MCNext]_Rest, part' = "spansh"
               PROVE  BatchInv'
    OBVIOUS
  <2>1. CASE UNCHANGED Rest
    <3>1. part = "spansh" /\ UNCHANGED <<now, spanshVars>>
      BY <2>1 DEF Rest
    <3>2. /\ BatchInv /\ UNCHANGED <<last, holder, worker, sent, results>> /\ now' \in Nat /\ now =< now'
          /\ job' \in [Index -> {"none", "processing", "ready"}]
          /\ answered' => \A j \in Index : worker[j].pc = "done"
      BY <3>1 DEF BatchInv, BatchTypes, spanshVars
    <3>3. QED
      BY <3>2, BatchRests
  <2>2. CASE MCNext
    <3>1. part = "spansh" /\ Outer!Next
      BY <2>2 DEF MCNext, Older, Rest
    <3>2. QED
      BY <3>1, BatchNext
  <2>3. QED
    BY <2>1, <2>2
<1>3. QED
  BY <1>1, <1>2, PTL DEF MCSpec

\* spansh client.go:404, :441, :563, server.go:782, :823: requests are sent a
\* second apart however many calls ask, no more calls are under way than a
\* batch has places, each is asked after no more often than its attempts, and
\* an answer has a result for every call, at its place.
THEOREM BatchesAreWhole == MCSpec => []BatchesHold
<1>1. (part = "spansh" => BatchInv) => BatchesHold
  <2> SUFFICES ASSUME BatchInv PROVE Outer!TypeOK /\ Outer!Spaced /\ Outer!BatchWhole
    BY DEF BatchesHold
  <2>1. Outer!TypeOK
    <3>1. worker \in [Index -> [pc : {"start", "post", "posting", "poll", "polling", "sleep", "done"},
                                tries : Nat, delay : Nat, wake : Nat]]
      BY DEF BatchInv, BatchTypes, Task, Working
    <3>2. holder \subseteq Index /\ Outer!Cardinality(holder) =< 1
      <4>1. holder \subseteq Index /\ (holder = {} \/ \E i \in holder : holder = {i})
        BY DEF BatchInv, OneHolder
      <4>2. Cardinality(holder) =< 1
        <5>1. Cardinality({}) = 0 /\ \A i \in Index : Cardinality({i}) = 1
          BY FS_EmptySet, FS_Singleton
        <5>2. QED
          BY <4>1, <5>1
      <4>3. QED
        BY <4>1, <4>2, OuterCounts
    <3>3. \A i \in Index : (results[i] # {}) = (worker[i].pc = "done")
      BY DEF BatchInv, CallFits
    <3>4. QED
      BY <3>1, <3>2, <3>3 DEF Outer!TypeOK, Outer!Index, Index, BatchInv, BatchTypes
  <2>2. Outer!Spaced
    BY OuterCounts DEF Outer!Spaced, BatchInv, Paced
  <2>3. Outer!BatchWhole
    <3>1. ASSUME NEW i \in Index
          PROVE  Outer!Cardinality({x \in sent : x[1] = i}) =< IF Bare(i) THEN 0 ELSE Outer!Limit(i) + 1
      <4>1. worker[i] \in Task /\ CallFits(i) /\ Outer!Limit(i) \in Nat \ {0} /\ worker[i].tries \in Nat
        BY BatchTyped DEF Task
      <4>2. Cardinality(SentOf(i)) \in Nat /\ Cardinality(SentOf(i)) =< Most(i)
        BY SentFits
      <4>3. Most(i) =< Outer!Limit(i) + 1
        BY <4>1 DEF Most, CallFits, Task, Working
      <4>4. Bare(i) => Cardinality(SentOf(i)) = 0
        BY <4>1, FS_EmptySet DEF CallFits
      <4>5. Most(i) \in Nat
        BY <4>1 DEF Most, Task, Working
      <4>6. QED
        BY <4>1, <4>2, <4>3, <4>4, <4>5, OuterCounts DEF SentOf
    <3>2. answered => \A i \in Index : results[i] \in {{i}, {Outer!Error}}
      BY DEF BatchInv, CallFits
    <3>3. QED
      BY <3>1, <3>2 DEF Outer!BatchWhole, Outer!Index, Index, Bare
  <2>4. QED
    BY <2>1, <2>2, <2>3
<1>2. QED
  BY <1>1, BatchInvariance, PTL

=============================================================================
