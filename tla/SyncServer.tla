----------------------------- MODULE SyncServer -----------------------------
(***************************************************************************)
(* The synchronisation API of server/src/sync.ts on PostgreSQL at READ     *)
(* COMMITTED: push transactions running on pooled connections, the pull    *)
(* handler, and the background writers that share games and sync_events    *)
(* with them.  One step is one SQL statement; the row locks, the unique    *)
(* index of idempotency_keys and the non-transactional event_id sequence   *)
(* are those of the database.                                              *)
(*                                                                         *)
(* An operation is a record; a payload is reduced to what reconciliation   *)
(* tells apart: the client edit it carries, its updatedAt, its custom      *)
(* cover and the fields that the server owns (prices, metadata).           *)
(***************************************************************************)
EXTENDS Integers, Sequences, FiniteSets

CONSTANTS
    Conns,      \* pooled database connections that run push handlers
    OpIds,      \* operation ids (client generated UUIDs)
    Ops,        \* the operations clients push, at most one per id
    Keys,       \* entity keys: igdbGameId::platformIgdbId, tag ids, ...
    Covers,     \* custom covers, NoCover among them
    Infos,      \* values of the server-owned fields, NoInfo among them
    NoCover, NoInfo,
    Omitted,    \* a payload without the field
    NoRow,      \* the table has no row for the key
    Untouched,  \* the transaction holds no row lock on the key
    NoOp,       \* an event no client operation caused
    Enrichers,  \* writers that update a row and log it in one transaction
    Pricers,    \* writers that update a row and log it in two
    Readers,    \* clients pulling the log
    PageSize,   \* LIMIT of a pull
    MaxBatch,   \* bound: operations per push request
    MaxSeq      \* bound: no new work starts beyond this event id

Row == [edit : OpIds, stamp : Nat, cover : Covers, info : Infos]

Op == [id : OpIds, kind : {"upsert", "delete", "malformed"}, key : Keys,
       stamp : Nat, cover : Covers \cup {Omitted}, info : Infos \cup {Omitted}]

Event == [id : Nat, key : Keys, kind : {"upsert", "delete"},
          row : Row \cup {NoRow}, op : Ops \cup {NoOp}]

ASSUME OpsAssumption ==
    /\ Ops \subseteq Op
    /\ \A o, p \in Ops : o.id = p.id => o = p
ASSUME MarkersAssumption ==
    /\ NoRow \notin Row /\ Untouched \notin Row /\ NoRow # Untouched
    /\ NoCover \in Covers /\ NoInfo \in Infos
    /\ Omitted \notin Covers \cup Infos
    /\ NoOp \notin Ops
ASSUME BoundsAssumption ==
    PageSize \in Nat \ {0} /\ MaxBatch \in Nat /\ MaxSeq \in Nat

VARIABLES
    \* committed tables
    rows,        \* games: Keys -> Row or NoRow
    events,      \* sync_events
    idem,        \* idempotency_keys: Ops -> "none", "applied", "failed"
    seq,         \* sync_events_event_id_seq: nextval is never rolled back
    \* push handlers, one per connection
    pc,          \* where the handler is
    todo,        \* operations of the request not finished yet
    existing,    \* payload read for the cover reconciliation
    verdict,     \* status of the operation being recorded
    results,     \* results pushed so far: Ops -> status, "none" if absent
    txRows, txEvents, txIdem,   \* the transaction's own uncommitted writes
    \* background writers
    wpc, wkey, wrow, wid,
    \* API process memory, and the pulling clients
    latestKnown, \* latestKnownSyncEventId
    rpc, cursor, seen

tables  == <<rows, events, idem>>
handler == <<pc, todo, existing, verdict, results, txRows, txEvents, txIdem>>
writers == <<wpc, wkey, wrow, wid>>
pulling == <<rpc, cursor, seen>>
vars == <<tables, seq, handler, writers, latestKnown, pulling>>

Writers == Enrichers \cup Pricers
Verdicts == {"none", "applied", "failed"}
Statuses == Verdicts \cup {"duplicate"}

\* Phases of a push handler between BEGIN and COMMIT.
InTx == {"check", "read", "write", "event", "record"}

NoneOf(S) == [x \in S |-> "none"]

TypeOK ==
    /\ rows \in [Keys -> Row \cup {NoRow}]
    /\ events \subseteq Event
    /\ idem \in [Ops -> Verdicts]
    /\ seq \in Nat
    /\ pc \in [Conns -> InTx \cup {"idle", "latest", "reply"}]
    /\ todo \in [Conns -> Seq(Ops)]
    /\ existing \in [Conns -> Row \cup {NoRow}]
    /\ verdict \in [Conns -> Verdicts]
    /\ results \in [Conns -> [Ops -> Statuses]]
    /\ txRows \in [Conns -> [Keys -> Row \cup {NoRow, Untouched}]]
    /\ txEvents \in [Conns -> SUBSET Event]
    /\ txIdem \in [Conns -> [Ops -> Verdicts]]
    /\ wpc \in [Writers -> {"idle", "open", "written"}]
    /\ wkey \in [Writers -> Keys \cup {NoRow}]
    /\ wrow \in [Writers -> Row \cup {NoRow}]
    /\ wid \in [Writers -> Nat]
    /\ latestKnown \in Nat
    /\ rpc \in [Readers -> {"idle", "max"}]
    /\ cursor \in [Readers -> Nat]
    /\ seen \in [Readers -> SUBSET Nat]

Init ==
    /\ rows = [k \in Keys |-> NoRow]
    /\ events = {}
    /\ idem = NoneOf(Ops)
    /\ seq = 0
    /\ pc = [c \in Conns |-> "idle"]
    /\ todo = [c \in Conns |-> <<>>]
    /\ existing = [c \in Conns |-> NoRow]
    /\ verdict = NoneOf(Conns)
    /\ results = [c \in Conns |-> NoneOf(Ops)]
    /\ txRows = [c \in Conns |-> [k \in Keys |-> Untouched]]
    /\ txEvents = [c \in Conns |-> {}]
    /\ txIdem = [c \in Conns |-> NoneOf(Ops)]
    /\ wpc = [w \in Writers |-> "idle"]
    /\ wkey = [w \in Writers |-> NoRow]
    /\ wrow = [w \in Writers |-> NoRow]
    /\ wid = [w \in Writers |-> 0]
    /\ latestKnown = 0
    /\ rpc = [r \in Readers |-> "idle"]
    /\ cursor = [r \in Readers |-> 0]
    /\ seen = [r \in Readers |-> {}]

-----------------------------------------------------------------------------
(* What a statement sees, and what it waits for.                           *)

\* READ COMMITTED: a transaction sees its own writes over the committed ones.
View(c, k) == IF txRows[c][k] = Untouched THEN rows[k] ELSE txRows[c][k]

Decision(c, o) == IF txIdem[c][o] = "none" THEN idem[o] ELSE txIdem[c][o]

\* Connections holding a row (or unique index entry) lock on the key.
LockHolders(c, k) == {d \in Conns \ {c} : txRows[d][k] # Untouched}

LockedByWriter(k) == \E w \in Enrichers : wpc[w] = "open" /\ wkey[w] = k

\* A DELETE that sees no row matches nothing and waits for nobody.
SeesNothing(c, o) == o.kind = "delete" /\ View(c, o.key) = NoRow

\* The connections that connection c's next statement must wait for.
WaitsFor(c) ==
    IF pc[c] = "write" /\ ~SeesNothing(c, Head(todo[c]))
      THEN LockHolders(c, Head(todo[c]).key)
    ELSE IF pc[c] = "record"
      THEN {d \in Conns \ {c} : txIdem[d][Head(todo[c])] # "none"}
    ELSE {}

Deadlocked(c) ==
    \E S \in SUBSET Conns :
        c \in S /\ \A d \in S : WaitsFor(d) \cap S # {}

\* Mutation: whatever cover the client sends is stored.
CoverAsSent(o, old) == IF o.cover = Omitted THEN NoCover ELSE o.cover

\* reconcileGameCoverFields: an update that is not newer than the payload it
\* was read against keeps that payload's cover; so does one without a cover.
ReconciledCover(o, old) ==
    IF old = NoRow
      THEN IF o.cover = Omitted THEN NoCover ELSE o.cover
      ELSE IF o.cover = Omitted \/ o.stamp <= old.stamp THEN old.cover ELSE o.cover

\* Mutation: the upsert without COALESCE.
UpsertedAsSent(o, cover, current) ==
    [edit |-> o.id, stamp |-> o.stamp, cover |-> cover, info |-> o.info]

\* INSERT ... ON CONFLICT DO UPDATE with COALESCE(EXCLUDED, games): server-owned
\* fields the payload leaves out keep the table's value, all else is replaced.
Upserted(o, cover, current) ==
    [edit  |-> o.id,
     stamp |-> o.stamp,
     cover |-> cover,
     info  |-> IF o.info # Omitted THEN o.info
               ELSE IF current = NoRow THEN NoInfo ELSE current.info]

LatestId(S) == IF S = {} THEN 0
               ELSE CHOOSE i \in {e.id : e \in S} : \A e \in S : e.id <= i

Larger(a, b) == IF a < b THEN b ELSE a
Smaller(a, b) == IF a < b THEN a ELSE b

-----------------------------------------------------------------------------
(* POST /v1/sync/push                                                      *)

Batches == {b \in UNION {[1..n -> Ops] : n \in 1..MaxBatch} :
                \A i, j \in DOMAIN b : b[i] = b[j] => i = j}

\* A request arrives; BEGIN.  Any operation may be pushed again at any time:
\* a client that saw no reply retries while the first request still runs.
Push(c, batch) ==
    /\ pc[c] = "idle"
    /\ seq < MaxSeq
    /\ pc' = [pc EXCEPT ![c] = "check"]
    /\ todo' = [todo EXCEPT ![c] = batch]
    /\ results' = [results EXCEPT ![c] = NoneOf(Ops)]
    /\ UNCHANGED <<tables, seq, existing, verdict, txRows, txEvents, txIdem,
                   writers, latestKnown, pulling>>

\* SELECT result FROM idempotency_keys finds the operation: report a duplicate.
SkipDuplicate(c) ==
    /\ pc[c] = "check"
    /\ todo[c] # <<>>
    /\ LET o == Head(todo[c]) IN
         /\ Decision(c, o) # "none"
         /\ results' = [results EXCEPT ![c][o] = "duplicate"]
    /\ todo' = [todo EXCEPT ![c] = Tail(@)]
    /\ UNCHANGED <<tables, seq, pc, existing, verdict, txRows, txEvents, txIdem,
                   writers, latestKnown, pulling>>

\* The SELECT finds nothing: apply the operation.  A payload the normalizers
\* reject throws before any statement runs and is recorded as failed.
StartOp(c) ==
    /\ pc[c] = "check"
    /\ todo[c] # <<>>
    /\ LET o == Head(todo[c]) IN
         /\ Decision(c, o) = "none"
         /\ pc' = [pc EXCEPT ![c] = CASE o.kind = "malformed" -> "record"
                                      [] o.kind = "upsert" -> "read"
                                      [] OTHER -> "write"]
         /\ verdict' = [verdict EXCEPT ![c] =
                            IF o.kind = "malformed" THEN "failed" ELSE "applied"]
    /\ UNCHANGED <<tables, seq, todo, existing, results, txRows, txEvents, txIdem,
                   writers, latestKnown, pulling>>

\* SELECT payload FROM games: the row is read before, and without, the lock.
ReadExisting(c) ==
    /\ pc[c] = "read"
    /\ existing' = [existing EXCEPT ![c] = View(c, Head(todo[c]).key)]
    /\ pc' = [pc EXCEPT ![c] = "write"]
    /\ UNCHANGED <<tables, seq, todo, verdict, results, txRows, txEvents, txIdem,
                   writers, latestKnown, pulling>>

\* The upsert or the delete, once no other transaction holds the row.
WriteRow(c) ==
    /\ pc[c] = "write"
    /\ WaitsFor(c) = {}
    /\ LET o == Head(todo[c]) IN
         /\ SeesNothing(c, o) \/ ~LockedByWriter(o.key)
         /\ txRows' = [txRows EXCEPT ![c][o.key] =
              IF o.kind = "upsert"
                THEN Upserted(o, ReconciledCover(o, existing[c]), View(c, o.key))
                ELSE IF SeesNothing(c, o) THEN @ ELSE NoRow]
    /\ existing' = [existing EXCEPT ![c] = NoRow]
    /\ pc' = [pc EXCEPT ![c] = "event"]
    /\ UNCHANGED <<tables, seq, todo, verdict, results, txEvents, txIdem,
                   writers, latestKnown, pulling>>

\* Mutation: the event goes through the pool, outside the transaction.
AppendOutsideTx(c) ==
    /\ pc[c] = "event"
    /\ LET o == Head(todo[c]) IN
         events' = events \cup
            {[id |-> seq + 1, key |-> o.key, kind |-> o.kind, op |-> o,
              row |-> IF o.kind = "upsert" THEN View(c, o.key) ELSE NoRow]}
    /\ seq' = seq + 1
    /\ pc' = [pc EXCEPT ![c] = "record"]
    /\ UNCHANGED <<rows, idem, todo, existing, verdict, results, txRows, txEvents,
                   txIdem, writers, latestKnown, pulling>>

\* Mutation: the event carries the payload as sent, not the stored row.
AppendAsSent(c) ==
    /\ pc[c] = "event"
    /\ LET o == Head(todo[c])
           e == [id |-> seq + 1, key |-> o.key, kind |-> o.kind, op |-> o,
                 row |-> IF o.kind = "upsert"
                         THEN Upserted(o, ReconciledCover(o, NoRow), NoRow) ELSE NoRow]
       IN txEvents' = [txEvents EXCEPT ![c] = @ \cup {e}]
    /\ seq' = seq + 1
    /\ pc' = [pc EXCEPT ![c] = "record"]
    /\ UNCHANGED <<tables, todo, existing, verdict, results, txRows, txIdem,
                   writers, latestKnown, pulling>>

\* appendSyncEvent: the id comes from the sequence now, the event is visible
\* to others only after COMMIT.
AppendEvent(c) ==
    /\ pc[c] = "event"
    /\ LET o == Head(todo[c])
           e == [id |-> seq + 1, key |-> o.key, kind |-> o.kind, op |-> o,
                 row |-> IF o.kind = "upsert" THEN View(c, o.key) ELSE NoRow]
       IN txEvents' = [txEvents EXCEPT ![c] = @ \cup {e}]
    /\ seq' = seq + 1
    /\ pc' = [pc EXCEPT ![c] = "record"]
    /\ UNCHANGED <<tables, todo, existing, verdict, results, txRows, txIdem,
                   writers, latestKnown, pulling>>

\* Mutation: ON CONFLICT DO UPDATE instead of a plain INSERT.
RecordOverwrites(c) ==
    /\ pc[c] = "record"
    /\ WaitsFor(c) = {}
    /\ LET o == Head(todo[c]) IN
         /\ txIdem' = [txIdem EXCEPT ![c][o] = verdict[c]]
         /\ results' = [results EXCEPT ![c][o] = verdict[c]]
    /\ verdict' = [verdict EXCEPT ![c] = "none"]
    /\ todo' = [todo EXCEPT ![c] = Tail(@)]
    /\ pc' = [pc EXCEPT ![c] = "check"]
    /\ UNCHANGED <<tables, seq, existing, txRows, txEvents,
                   writers, latestKnown, pulling>>

\* INSERT INTO idempotency_keys; a competing uncommitted insert is waited for.
RecordOp(c) ==
    /\ pc[c] = "record"
    /\ WaitsFor(c) = {}
    /\ LET o == Head(todo[c]) IN
         /\ idem[o] = "none"
         /\ txIdem' = [txIdem EXCEPT ![c][o] = verdict[c]]
         /\ results' = [results EXCEPT ![c][o] = verdict[c]]
    /\ verdict' = [verdict EXCEPT ![c] = "none"]
    /\ todo' = [todo EXCEPT ![c] = Tail(@)]
    /\ pc' = [pc EXCEPT ![c] = "check"]
    /\ UNCHANGED <<tables, seq, existing, txRows, txEvents,
                   writers, latestKnown, pulling>>

\* The transaction's writes are gone, its event ids are not given back, and
\* the client gets a 500.
Rollback(c) ==
    /\ pc' = [pc EXCEPT ![c] = "idle"]
    /\ todo' = [todo EXCEPT ![c] = <<>>]
    /\ existing' = [existing EXCEPT ![c] = NoRow]
    /\ verdict' = [verdict EXCEPT ![c] = "none"]
    /\ results' = [results EXCEPT ![c] = NoneOf(Ops)]
    /\ txRows' = [txRows EXCEPT ![c] = [k \in Keys |-> Untouched]]
    /\ txEvents' = [txEvents EXCEPT ![c] = {}]
    /\ txIdem' = [txIdem EXCEPT ![c] = NoneOf(Ops)]
    /\ UNCHANGED <<tables, seq, writers, latestKnown, pulling>>

\* Mutation: the conflict is swallowed, the results so far are sent.
ReplyDespiteConflict(c) ==
    /\ pc[c] = "record"
    /\ idem[Head(todo[c])] # "none"
    /\ pc' = [pc EXCEPT ![c] = "reply"]
    /\ txRows' = [txRows EXCEPT ![c] = [k \in Keys |-> Untouched]]
    /\ txEvents' = [txEvents EXCEPT ![c] = {}]
    /\ txIdem' = [txIdem EXCEPT ![c] = NoneOf(Ops)]
    /\ UNCHANGED <<tables, seq, todo, existing, verdict, results,
                   writers, latestKnown, pulling>>

\* Mutation: the connection is not released after a conflict.
LeakOnConflict(c) ==
    /\ pc[c] = "record"
    /\ idem[Head(todo[c])] # "none"
    /\ pc' = [pc EXCEPT ![c] = "leaked"]
    /\ UNCHANGED <<tables, seq, todo, existing, verdict, results, txRows, txEvents,
                   txIdem, writers, latestKnown, pulling>>

\* The unique index refuses an operation another push committed meanwhile; the
\* aborted transaction refuses the second INSERT of the catch block as well.
RecordConflict(c) ==
    /\ pc[c] = "record"
    /\ idem[Head(todo[c])] # "none"
    /\ Rollback(c)

\* The database picks a victim among transactions that wait for one another.
DeadlockVictim(c) ==
    /\ Deadlocked(c)
    /\ Rollback(c)

\* Any other statement error or lost connection inside the transaction.
FailTx(c) ==
    /\ pc[c] \in InTx
    /\ Rollback(c)

CommitTx(c) ==
    /\ pc[c] = "check"
    /\ todo[c] = <<>>
    /\ rows' = [k \in Keys |-> View(c, k)]
    /\ events' = events \cup txEvents[c]
    /\ idem' = [o \in Ops |-> Decision(c, o)]
    /\ txRows' = [txRows EXCEPT ![c] = [k \in Keys |-> Untouched]]
    /\ txEvents' = [txEvents EXCEPT ![c] = {}]
    /\ txIdem' = [txIdem EXCEPT ![c] = NoneOf(Ops)]
    /\ pc' = [pc EXCEPT ![c] = "latest"]
    /\ UNCHANGED <<seq, todo, existing, verdict, results,
                   writers, latestKnown, pulling>>

\* readLatestCursor after the COMMIT, then the reply is sent.
ReadLatest(c) ==
    /\ pc[c] = "latest"
    /\ latestKnown' = Larger(latestKnown, LatestId(events))
    /\ pc' = [pc EXCEPT ![c] = "reply"]
    /\ UNCHANGED <<tables, seq, todo, existing, verdict, results,
                   txRows, txEvents, txIdem, writers, pulling>>

\* readLatestCursor throws: a 500 for a push that is committed.
FailLatest(c) ==
    /\ pc[c] = "latest"
    /\ Rollback(c)

\* The client has its results (or lost them); the connection is released.
Release(c) ==
    /\ pc[c] = "reply"
    /\ Rollback(c)

-----------------------------------------------------------------------------
(* Background writers.                                                     *)

\* Some transaction holds the row: the writer's UPDATE would wait.
RowBusy(k) == LockedByWriter(k) \/ \E c \in Conns : txRows[c][k] # Untouched

SystemEvent(i, k, row) ==
    [id |-> i, key |-> k, kind |-> "upsert", row |-> row, op |-> NoOp]

\* The UPDATE of a writer whose patch changes the row.
Patched(w, k, i) ==
    /\ wpc[w] = "idle"
    /\ seq < MaxSeq
    /\ rows[k] # NoRow
    /\ rows[k].info # i
    /\ ~RowBusy(k)
    /\ wkey' = [wkey EXCEPT ![w] = k]
    /\ wrow' = [wrow EXCEPT ![w] = [rows[k] EXCEPT !.info = i]]

WriterDone(w) ==
    /\ wpc' = [wpc EXCEPT ![w] = "idle"]
    /\ wkey' = [wkey EXCEPT ![w] = NoRow]
    /\ wrow' = [wrow EXCEPT ![w] = NoRow]
    /\ wid' = [wid EXCEPT ![w] = 0]

\* Release monitor and metadata enrichment: UPDATE and INSERT INTO sync_events
\* run in one transaction, so the row stays locked until both are committed.
EnrichBegin(w, k, i) ==
    /\ Patched(w, k, i)
    /\ wpc' = [wpc EXCEPT ![w] = "open"]
    /\ wid' = [wid EXCEPT ![w] = seq + 1]
    /\ seq' = seq + 1
    /\ UNCHANGED <<tables, handler, latestKnown, pulling>>

EnrichCommit(w) ==
    /\ wpc[w] = "open"
    /\ rows' = [rows EXCEPT ![wkey[w]] = wrow[w]]
    /\ events' = events \cup {SystemEvent(wid[w], wkey[w], wrow[w])}
    /\ WriterDone(w)
    /\ UNCHANGED <<idem, seq, handler, latestKnown, pulling>>

\* Steam and PSPrices snapshots: the UPDATE commits on its own and returns the
\* payload; the event with that payload is a second, separate statement.
PriceUpdate(w, k, i) ==
    /\ Patched(w, k, i)
    /\ rows' = [rows EXCEPT ![k] = [@ EXCEPT !.info = i]]
    /\ wpc' = [wpc EXCEPT ![w] = "written"]
    /\ UNCHANGED <<events, idem, seq, wid, handler, latestKnown, pulling>>

PriceAppend(w) ==
    /\ wpc[w] = "written"
    /\ events' = events \cup {SystemEvent(seq + 1, wkey[w], wrow[w])}
    /\ seq' = seq + 1
    /\ WriterDone(w)
    /\ UNCHANGED <<rows, idem, handler, latestKnown, pulling>>

\* The writer's process dies or its statement fails: an open transaction is
\* rolled back, a price written without its event stays so.
WriterFails(w) ==
    /\ wpc[w] # "idle"
    /\ WriterDone(w)
    /\ UNCHANGED <<tables, seq, handler, latestKnown, pulling>>

-----------------------------------------------------------------------------
(* POST /v1/sync/pull                                                      *)

After(i) == {e \in events : e.id > i}

\* ORDER BY event_id ASC LIMIT PageSize.
Page(i) ==
    {e \in After(i) : Cardinality({d \in After(i) : d.id <= e.id}) <= PageSize}

\* A page of changes: the client applies it and keeps the last id as cursor.
PullPage(r) ==
    /\ rpc[r] = "idle"
    /\ After(cursor[r]) # {}
    /\ LET page == Page(cursor[r])
           next == LatestId(page)
       IN /\ cursor' = [cursor EXCEPT ![r] = next]
          /\ seen' = [seen EXCEPT ![r] = @ \cup {e.id : e \in page}]
          /\ latestKnown' = Larger(latestKnown, next)
    /\ UNCHANGED <<tables, seq, handler, writers, rpc>>

\* Nothing new, and the cursor is one this process has seen: it is echoed.
PullEmpty(r) ==
    /\ rpc[r] = "idle"
    /\ After(cursor[r]) = {}
    /\ cursor[r] = 0 \/ cursor[r] <= latestKnown
    /\ UNCHANGED vars

\* Nothing new for a cursor this process has not seen: a second query follows.
PullUnknown(r) ==
    /\ rpc[r] = "idle"
    /\ After(cursor[r]) = {}
    /\ cursor[r] > latestKnown
    /\ rpc' = [rpc EXCEPT ![r] = "max"]
    /\ UNCHANGED <<tables, seq, handler, writers, latestKnown, cursor, seen>>

\* Mutation: the cursor is compared with this process's memory.
PullMaxOfMemory(r) ==
    /\ rpc[r] = "max"
    /\ cursor' = [cursor EXCEPT ![r] = Smaller(@, latestKnown)]
    /\ rpc' = [rpc EXCEPT ![r] = "idle"]
    /\ UNCHANGED <<tables, seq, handler, writers, latestKnown, seen>>

\* SELECT MAX(event_id): a cursor beyond the log is pulled back to its end.
PullMax(r) ==
    /\ rpc[r] = "max"
    /\ latestKnown' = Larger(latestKnown, LatestId(events))
    /\ cursor' = [cursor EXCEPT ![r] = Smaller(@, LatestId(events))]
    /\ rpc' = [rpc EXCEPT ![r] = "idle"]
    /\ UNCHANGED <<tables, seq, handler, writers, seen>>

\* The API process restarts: its transactions roll back, its memory is lost.
Restart ==
    /\ pc' = [c \in Conns |-> "idle"]
    /\ todo' = [c \in Conns |-> <<>>]
    /\ existing' = [c \in Conns |-> NoRow]
    /\ verdict' = NoneOf(Conns)
    /\ results' = [c \in Conns |-> NoneOf(Ops)]
    /\ txRows' = [c \in Conns |-> [k \in Keys |-> Untouched]]
    /\ txEvents' = [c \in Conns |-> {}]
    /\ txIdem' = [c \in Conns |-> NoneOf(Ops)]
    /\ latestKnown' = 0
    /\ rpc' = [r \in Readers |-> "idle"]
    /\ UNCHANGED <<tables, seq, writers, cursor, seen>>

-----------------------------------------------------------------------------
Handle(c) ==
    \/ SkipDuplicate(c) \/ StartOp(c) \/ ReadExisting(c) \/ WriteRow(c)
    \/ AppendEvent(c) \/ RecordOp(c) \/ RecordConflict(c) \/ DeadlockVictim(c)
    \/ CommitTx(c) \/ ReadLatest(c) \/ Release(c)

Next ==
    \/ \E c \in Conns :
           \/ \E batch \in Batches : Push(c, batch)
           \/ Handle(c)
           \/ FailTx(c)
           \/ FailLatest(c)
    \/ \E w \in Enrichers :
           \/ \E k \in Keys, i \in Infos : EnrichBegin(w, k, i)
           \/ EnrichCommit(w)
    \/ \E w \in Pricers :
           \/ \E k \in Keys, i \in Infos : PriceUpdate(w, k, i)
           \/ PriceAppend(w)
    \/ \E w \in Writers : WriterFails(w)
    \/ \E r \in Readers : PullPage(r) \/ PullEmpty(r) \/ PullUnknown(r) \/ PullMax(r)
    \/ Restart

Spec == Init /\ [][Next]_vars

\* A running handler goes on: every await of it is a query that PostgreSQL
\* answers, and it breaks deadlocks after deadlock_timeout.  Lock waits are
\* queued, so a statement is not overtaken for ever by later requests: strong
\* fairness for the handlers.  Writers finish.
Fairness ==
    /\ \A c \in Conns : SF_vars(Handle(c))
    /\ \A w \in Enrichers : WF_vars(EnrichCommit(w))
    /\ \A w \in Pricers : WF_vars(PriceAppend(w))

FairSpec == Spec /\ Fairness

-----------------------------------------------------------------------------
(* Properties.                                                             *)

\* However often an operation is pushed, on however many connections at once,
\* the log holds one event for it if it was applied and none otherwise
\* (the idempotency table and the log are written by one transaction).
OneEventPerOp ==
    \A o \in Ops :
        /\ (\E e \in events : e.op = o) <=> idem[o] = "applied"
        /\ \A d, e \in events : d.op = o /\ e.op = o => d = e

\* What a reply reports is durable: the client deletes every operation reported
\* applied or duplicate from its outbox, so each must be committed by then.
RepliesAreDurable ==
    \A c \in Conns : pc[c] = "reply" =>
        \A o \in Ops :
            /\ results[c][o] = "applied" => idem[o] = "applied"
            /\ results[c][o] = "duplicate" => idem[o] # "none"
            /\ results[c][o] = "failed" => idem[o] = "failed"

\* Two push transactions never both hold uncommitted writes of one row or of
\* one idempotency key.
WritesAreExclusive ==
    \A c, d \in Conns : c # d =>
        /\ \A k \in Keys : txRows[c][k] = Untouched \/ txRows[d][k] = Untouched
        /\ \A o \in Ops : txIdem[c][o] = "none" \/ txIdem[d][o] = "none"

LastEvent(k) ==
    LET mine == {e \in events : e.key = k} IN
    CHOOSE e \in mine : e.id = LatestId(mine)

Logged(k) == \E e \in events : e.key = k

\* Clients rebuild a row from the last event of its key: when that event is an
\* upsert it carries the row the server itself holds.
LastUpsertIsTheRow ==
    \A k \in Keys :
        (Logged(k) /\ LastEvent(k).kind = "upsert") => rows[k] = LastEvent(k).row

\* The client edit in the log's last upsert of a key is the one in the table:
\* replaying the log never brings back a removed row or an older edit.
LastUpsertCarriesTheEdit ==
    \A k \in Keys :
        (Logged(k) /\ LastEvent(k).kind = "upsert")
            => rows[k] # NoRow /\ rows[k].edit = LastEvent(k).row.edit

\* A cursor is a promise: a client that pulled up to it was given every event
\* with an id up to it.
CursorCoversLog ==
    \A r \in Readers : \A e \in events : e.id <= cursor[r] => e.id \in seen[r]

\* A pull never moves the cursor back nor past the end of the log, also right
\* after a restart that lost latestKnownSyncEventId.
CursorsOnlyAdvance ==
    [][\A r \in Readers :
          /\ cursor'[r] >= cursor[r]
          /\ cursor'[r] <= LatestId(events)]_cursor

\* The cover of a stored row gives way only to a newer update of the row
\* (sync-notes.test.ts: a stale replay does not clear a newer custom cover).
NewerCoverSurvives ==
    [][\A c \in Conns, k \in Keys :
          LET old == View(c, k)
              new == txRows'[c][k]
          IN (/\ pc[c] = "write" /\ pc'[c] = "event"
              /\ old \in Row /\ new \in Row
              /\ old.cover # new.cover)
             => new.stamp > old.stamp]_vars

\* Settling operations as OpLedger prescribes is all this server does.
Ledger == INSTANCE OpLedger WITH verdict <- idem
LedgerSpec == Ledger!Spec

\* Every push is answered: lock waits and deadlocks are always resolved.
PushCompletes == \A c \in Conns : (pc[c] # "idle") ~> (pc[c] = "idle")
=============================================================================
