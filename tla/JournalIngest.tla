---------------------------- MODULE JournalIngest ---------------------------
(***************************************************************************)
(* A commander's journal: batches of events uploaded by the desktop client *)
(* (internal/httpapi/commander_ingest.go), stored in a hypertable with one *)
(* row per second and event type and dropped after a retention period      *)
(* (internal/store/commander_repository.go, migrations 003 to 007), and    *)
(* read page by page (internal/httpapi/commander_query.go).                *)
(*                                                                         *)
(* Every statement runs in a transaction of its commander, whose row-level *)
(* policy keeps commanders apart: one of them is the whole system.  A      *)
(* transaction inserts event by event; a key another has inserted and not  *)
(* committed makes it wait, and Postgres ends a deadlock by failing one.   *)
(* The client sends again what it has had no answer for.                   *)
(***************************************************************************)
EXTENDS TokenBucket

CONSTANTS
    Uploader, \* goroutines serving uploads
    Batch,    \* the batches clients send: sequences of events
    Kind,     \* event types; "" is none
    Datum,    \* event bodies
    Back,     \* ingestMaxAgeBack
    Ahead,    \* ingestMaxAgeFwd
    Retain,   \* the retention policy's interval
    PageSize, \* the limit a reader asks for
    MaxTime,  \* bound on the clock
    MaxCalls, \* bound on uploads
    MaxErrors \* bound on failed statements and lost connections

VARIABLES
    clock, \* time.Now()
    rows,  \* commander.journal_events: the body under each key
    known, \* whether commander.commanders has the commander
    bucket, \* the ingest limiter's bucket
    upload, \* the upload each goroutine serves
    calls, errors, \* uploads and failures so far
    reader, \* a client's walk through the pages of one type
    wrote,  \* history: events_written, over the transactions that committed
    lapsed, \* history: how many rows retention has dropped
    dropped, \* history: the keys of those rows
    acked,  \* history: batches answered with 200, with their counts
    passes  \* history: when uploads were let through

vars == <<clock, rows, known, bucket, upload, calls, errors, reader, wrote, lapsed, dropped, acked, passes>>

Time  == 0..MaxTime
Stamp == 0..MaxTime + Ahead + 1
Key   == Stamp \X (Kind \ {""})
KeyOf(e) == <<e.ts, e.kind>>
Keys  == DOMAIN rows

\* Rows set beside others.
Over(f, g) == [k \in DOMAIN f \cup DOMAIN g |-> IF k \in DOMAIN f THEN f[k] ELSE g[k]]

Walk == [from : SUBSET Key, before : Stamp, kind : Kind, seen : SUBSET Key, done : BOOLEAN]

\* Rows and requests have their types; a row has its commander.
TypeOK ==
    /\ clock \in Time /\ known \in BOOLEAN /\ calls \in 0..MaxCalls /\ errors \in 0..MaxErrors
    /\ Keys \subseteq Key /\ \A k \in Keys : rows[k] \in Datum
    /\ Keys # {} => known
    /\ bucket \in Buckets(0..MaxTime + Window)
    /\ \A u \in Uploader :
         /\ upload[u].pc \in {"idle", "upsert", "insert"}
         /\ upload[u].at \in 0..Len(upload[u].events) /\ DOMAIN upload[u].mine \subseteq Key
         /\ \A v \in Uploader \ {u} : DOMAIN upload[u].mine \cap DOMAIN upload[v].mine = {}
    /\ reader = {} \/ (Cardinality(reader) = 1 /\ reader \subseteq Walk)
    /\ wrote \in Nat /\ lapsed \in Nat /\ dropped \subseteq Key

NoUpload == [pc |-> "idle", events |-> << >>, at |-> 0, mine |-> << >>, twice |-> 0]

Init ==
    /\ clock = 0 /\ rows = << >> /\ known = FALSE /\ bucket = {}
    /\ upload = [u \in Uploader |-> NoUpload] /\ calls = 0 /\ errors = 0
    /\ reader = {} /\ wrote = 0 /\ lapsed = 0 /\ dropped = {} /\ acked = {} /\ passes = << >>

Err == errors < MaxErrors /\ errors' = errors + 1

-----------------------------------------------------------------------------
(* Uploads                                                                 *)

\* validateIngestEvent: a type, and a time in the window the server accepts.
Accepted(e) == e.kind # "" /\ e.ts + Back >= clock /\ e.ts =< clock + Ahead

\* handleIngestBatch and handleIngestSingle: every event is validated, one
\* that is not turns the batch away; then the limiter, a token a request.
Begin(u) ==
    /\ upload[u].pc = "idle" /\ calls < MaxCalls /\ calls' = calls + 1
    /\ \E b \in Batch :
         IF ~\A i \in DOMAIN b : Accepted(b[i])
         THEN UNCHANGED <<bucket, upload, passes>>
         ELSE /\ bucket' = After(bucket, clock)
              /\ IF Allowed(bucket, clock)
                 THEN /\ upload' = [upload EXCEPT ![u] = [NoUpload EXCEPT !.pc = "upsert", !.events = b]]
                      /\ passes' = Append(passes, clock)
                 ELSE UNCHANGED <<upload, passes>>
    /\ UNCHANGED <<clock, rows, known, errors, reader, wrote, lapsed, dropped, acked>>

\* UpsertCommander, a transaction of its own.
Upsert(u) ==
    /\ upload[u].pc = "upsert"
    /\ \/ /\ known' = TRUE /\ upload' = [upload EXCEPT ![u].pc = "insert"] /\ UNCHANGED errors
       \/ /\ Err /\ upload' = [upload EXCEPT ![u] = NoUpload] /\ UNCHANGED known
    /\ UNCHANGED <<clock, rows, bucket, calls, reader, wrote, lapsed, dropped, acked, passes>>

Held(u) == DOMAIN upload[u].mine
\* The next event's key, and the transactions that make it wait.
NextKey(u) == KeyOf(upload[u].events[upload[u].at + 1])
Waits(u, v) == u # v /\ upload[u].pc = "insert" /\ upload[u].at < Len(upload[u].events)
               /\ NextKey(u) \in Held(v)

\* InsertEvents, one event: ON CONFLICT DO NOTHING, counted by RowsAffected.
Insert(u) ==
    /\ upload[u].pc = "insert" /\ upload[u].at < Len(upload[u].events)
    /\ \A v \in Uploader : ~Waits(u, v)
    /\ LET k == NextKey(u)  e == upload[u].events[upload[u].at + 1] IN
       upload' = [upload EXCEPT ![u].at = @ + 1,
                                ![u].mine = IF k \in Keys \cup Held(u) THEN @ ELSE Over([x \in {k} |-> e.datum], @),
                                ![u].twice = IF k \in Keys \cup Held(u) THEN @ + 1 ELSE @]
    /\ UNCHANGED <<clock, rows, known, bucket, calls, errors, reader, wrote, lapsed, dropped, acked, passes>>

Answer(u) == [events |-> upload[u].events, written |-> Cardinality(Held(u)),
              duplicated |-> upload[u].twice]

\* The commit and the answer, which the client may not get; a commit that
\* failed is an answer of 500.
Commit(u) ==
    /\ upload[u].pc = "insert" /\ upload[u].at = Len(upload[u].events)
    /\ \/ /\ rows' = Over(upload[u].mine, rows)
          /\ wrote' = wrote + Cardinality(Held(u))
          /\ \/ acked' = acked \cup {Answer(u)} /\ UNCHANGED errors
             \/ Err /\ UNCHANGED acked
       \/ /\ Err /\ UNCHANGED <<rows, wrote, acked>>
    /\ upload' = [upload EXCEPT ![u] = NoUpload]
    /\ UNCHANGED <<clock, known, bucket, calls, reader, lapsed, dropped, passes>>

\* A statement fails, the client leaves, or Postgres ends a deadlock: the
\* transaction is rolled back.
Rollback(u) ==
    /\ upload[u].pc = "insert"
    /\ \/ Err
       \/ (\E v \in Uploader : Waits(u, v) /\ Waits(v, u)) /\ UNCHANGED errors
    /\ upload' = [upload EXCEPT ![u] = NoUpload]
    /\ UNCHANGED <<clock, rows, known, bucket, calls, reader, wrote, lapsed, dropped, acked, passes>>

-----------------------------------------------------------------------------
(* Retention and reading                                                   *)

\* The retention policy drops whole chunks; one in use is waited for.
Drop ==
    /\ \E old \in {{k \in Keys : k[1] + Retain < clock}} :
         /\ old # {} /\ \A u \in Uploader, k \in old : ~\E h \in Held(u) : h[1] = k[1]
         /\ rows' = [k \in Keys \ old |-> rows[k]]
         /\ lapsed' = lapsed + Cardinality(old) /\ dropped' = dropped \cup old
    /\ UNCHANGED <<clock, known, bucket, upload, calls, errors, reader, wrote, acked, passes>>

\* EventsByType, the newest first.
ByType(kind, since, until) == {k \in Keys : k[2] = kind /\ since =< k[1] /\ k[1] =< until}

\* Mutant: the oldest come first.
PageMutant(found, limit) == {k \in found : Cardinality({j \in found : j[1] < k[1]}) < limit}
\* The first `limit` of them.
Page(found, limit) == {k \in found : Cardinality({j \in found : j[1] > k[1]}) < limit}

\* A client begins to read a type: without `before` the bound is now.
Open ==
    /\ reader = {}
    /\ \E t \in Kind \ {""} :
         reader' = {[from |-> ByType(t, 0, clock), before |-> clock, kind |-> t, seen |-> {}, done |-> FALSE]}
    /\ UNCHANGED <<clock, rows, known, bucket, upload, calls, errors, wrote, lapsed, dropped, acked, passes>>

\* handleCommanderEvents: one page; the next is asked for with the time of the
\* last event as `before`, until one comes that is not full.
Turn ==
    /\ \E w \in reader :
         LET page == Page(ByType(w.kind, 0, w.before), PageSize)
             last == CHOOSE k \in page : \A j \in page : k[1] =< j[1]
         IN
         /\ ~w.done
         /\ reader' = {[w EXCEPT !.seen = @ \cup page,
                                 !.before = IF page = {} THEN @ ELSE last[1],
                                 !.done = Cardinality(page) < PageSize]}
    /\ UNCHANGED <<clock, rows, known, bucket, upload, calls, errors, wrote, lapsed, dropped, acked, passes>>

Close ==
    /\ \E w \in reader : w.done
    /\ reader' = {}
    /\ UNCHANGED <<clock, rows, known, bucket, upload, calls, errors, wrote, lapsed, dropped, acked, passes>>

Tick == clock < MaxTime /\ clock' = clock + 1
        /\ UNCHANGED <<rows, known, bucket, upload, calls, errors, reader, wrote, lapsed, dropped, acked, passes>>

Next == \/ \E u \in Uploader : Begin(u) \/ Upsert(u) \/ Insert(u) \/ Commit(u) \/ Rollback(u)
        \/ Drop \/ Open \/ Turn \/ Close \/ Tick

Spec == Init /\ [][Next]_vars

-----------------------------------------------------------------------------
(* Properties                                                              *)

\* commander_repository.go:162-196: events_written, over all the uploads that
\* committed, answered or not, is the rows that have come to be: two copies of
\* a batch under way at once never both count an event.
CountsAddUp == wrote = Cardinality(Keys) + lapsed

\* commander_ingest.go:267-288: every event of an upload that was answered with
\* 200 has its row, or had one when it was dropped, and was counted once.
AckedStored ==
    \A a \in acked :
        /\ a.written + a.duplicated = Len(a.events)
        /\ \A i \in DOMAIN a.events :
             KeyOf(a.events[i]) \in Keys \cup dropped

\* commander_query.go:29-35, 85-100: a client that pages back by the time of the
\* last event of a page sees every event that was there when it began, however
\* uploads and retention come between its pages.
PagesCover ==
    \A w \in reader : w.done => \A k \in w.from : k \in w.seen \cup dropped

=============================================================================
