------------------------------ MODULE GameSync ------------------------------
(***************************************************************************)
(* One client of the sync API: GameSyncService with the local library, the *)
(* outbox and the sync metadata it shares with the repositories, talking   *)
(* to the server over a connection that loses requests and replies.        *)
(*                                                                         *)
(* The server is the one SyncServer implements, seen through OpLedger: an  *)
(* operation is settled once, and an applied one appends one event.  Other *)
(* devices show only as the events they append.                            *)
(*                                                                         *)
(* The service runs on one thread: between two awaits nothing intervenes,  *)
(* and a step is what happens up to the next request or storage access.    *)
(* The content of a row is the set of edits it carries: a save writes the  *)
(* row it was based on plus one edit, as updates of whole entries do.      *)
(*                                                                         *)
(* Operations are numbered as they are made, which is the order of their   *)
(* createdAt: the outbox and the requests are sets of operations whose ids *)
(* say in which order they are listed, sent and settled.                   *)
(***************************************************************************)
EXTENDS Integers, Sequences, FiniteSets

CONSTANTS
    Keys,          \* identities of games (or tags, or views)
    Upgraded,      \* the library was filled by a version that kept discovery rows
    Rejected,      \* keys whose operations the server refuses
    PageSize,      \* SYNC_PULL_PAGE_SIZE
    MaxPages,      \* SYNC_PULL_MAX_PAGES_PER_RUN
    Window,        \* RECENT_REPLAY_WINDOW_EVENTS
    ReplayPages,   \* RECENT_REPLAY_MAX_PAGES
    MaxBatch,      \* bound: operations a push request has room for
    MaxEdits,      \* bound: edits of this device
    MaxForeign,    \* bound: events of other devices and of the server
    MaxFaults,     \* bound: failures, lost messages, restarts of the client
    MaxResets      \* bound: manual resets, and days that pass

ASSUME SyncAssumption ==
    /\ Keys # {} /\ Upgraded \in BOOLEAN /\ Rejected \subseteq Keys
    /\ PageSize \in Nat \ {0} /\ MaxPages \in Nat \ {0}
    /\ Window \in Nat /\ ReplayPages \in Nat \ {0} /\ MaxBatch \in Nat \ {0}
    /\ MaxEdits \in Nat /\ MaxForeign \in Nat /\ MaxFaults \in Nat /\ MaxResets \in Nat

\* A replay has room for the whole window: 5 pages of 1000 for 5000 events.
ASSUME ReplayAssumption == Window <= ReplayPages * PageSize

VARIABLES
    \* device storage
    local,       \* games: Keys -> set of edits, or NoRow
    outbox,      \* pending operations
    cursor,      \* syncMeta 'cursor': events up to it have been applied
    replayDue,   \* the recent replay was last attempted a day ago or never
    remediated,  \* syncMeta 'discoveryPollutionRemediationV1'
    \* the repository: an entry read for an edit that is not saved yet
    draft,       \* the edit being made: at most one
    \* GameSyncService
    init,        \* initialize() is "starting" or "done"
    reset,       \* resetLocalSyncState() is "waiting" for the sync, or "none"
    pc,          \* where runSyncNow is; "idle" when no sync is in flight
    unsent,      \* operations of the listed outbox not pushed yet
    request,     \* operations of the request in flight
    reply,       \* ids the server answers applied or duplicate
    acked,       \* ids to delete from the outbox
    from,        \* cursor of the next pull request
    pages,       \* pulled, or in a replay collected, pages
    \* the server
    log,         \* sync_events
    settled,     \* idempotency_keys
    orphans,     \* requests the client gave up on that may still arrive
    \* bounds and history
    made, foreign, faults, resets,
    covered,     \* events applied in a row since the cursor was last reset
    torn         \* "within": some pages of a replay are in and others not yet;
                 \* "torn": a replay ended like that

storage == <<local, outbox, cursor, replayDue, remediated>>
sync    == <<pc, unsent, request, reply, acked, from, pages>>
server  == <<log, settled, orphans>>
history == <<made, foreign, faults, resets, covered, torn>>
vars == <<storage, draft, init, reset, sync, server, history>>

NoRow == {}    \* no such game: every row carries an edit

Contents == SUBSET ((-MaxForeign - 1)..MaxEdits)

\* An edit is known by its number: this device's are positive.
Edits == 1..MaxEdits

Op == [id : Edits, key : Keys, kind : {"upsert", "delete"}, row : Contents]

Event == [op : Edits \cup {0}, key : Keys,
          kind : {"upsert", "delete", "discovery"}, row : Contents]

TypeOK ==
    /\ local \in [Keys -> Contents]
    /\ outbox \subseteq Op
    /\ cursor \in 0..Len(log)
    /\ replayDue \in BOOLEAN /\ remediated \in BOOLEAN
    /\ torn \in {"never", "within", "torn"}
    /\ draft \subseteq [key : Keys, row : Contents] /\ Cardinality(draft) <= 1
    /\ init \in {"starting", "done"}
    /\ reset \in {"none", "waiting"}
    /\ pc \in {"idle", "send", "pushing", "answered", "ack", "begin", "pull", "apply",
               "store", "echo", "replay", "collect", "check", "reapply"}
    /\ unsent \subseteq Op /\ request \subseteq Op
    /\ reply \subseteq Edits /\ acked \subseteq Edits
    /\ from \in 0..Len(log)
    /\ pages \in Seq(Seq(Event))
    /\ log \in Seq(Event)
    /\ settled \subseteq Edits
    /\ orphans \subseteq SUBSET Op
    /\ made \in 0..MaxEdits /\ foreign \in 0..MaxForeign
    /\ faults \in 0..MaxFaults /\ resets \in 0..MaxResets
    /\ covered \in 0..Len(log)

-----------------------------------------------------------------------------
(* applyPulledChanges                                                      *)

Smaller(a, b) == IF a < b THEN a ELSE b
Larger(a, b) == IF a < b THEN b ELSE a

Pending(k) == \E o \in outbox : o.key = k

\* The last change of a page that concerns the key.  A discovery row removes
\* a game unless a local write of it is pending.
Relevant(page, k, pending) ==
    {i \in DOMAIN page : page[i].key = k /\ ~(page[i].kind = "discovery" /\ pending)}

Latest(is) == CHOOSE i \in is : \A j \in is : j <= i

RowAfter(page, k, pending, before) ==
    LET relevant == Relevant(page, k, pending)
        change   == page[Latest(relevant)]
    IN IF relevant = {} THEN before
       ELSE IF change.kind = "upsert" THEN change.row ELSE NoRow

\* An upsert replaces the local row, also one with edits still in the outbox
\* (of these only the cover survives, which the content leaves out).
Applied(page) ==
    [k \in Keys |-> RowAfter(page, k, Pending(k), local[k])]

\* The row the server holds.
ServerRow(k) == RowAfter(log, k, FALSE, NoRow)

-----------------------------------------------------------------------------
\* An empty library that the remediation has seen; or one of an older version,
\* which stored the discovery row it pulled as a game.
Init ==
    LET row == {-MaxForeign - 1} IN
    /\ log = IF Upgraded
               THEN <<[op |-> 0, key |-> CHOOSE k \in Keys : TRUE,
                       kind |-> "discovery", row |-> row]>>
               ELSE <<>>
    /\ local = [k \in Keys |-> IF \E i \in DOMAIN log : log[i].key = k THEN row ELSE NoRow]
    /\ cursor = Len(log)
    /\ covered = Len(log)
    /\ outbox = {}
    /\ replayDue = TRUE
    /\ remediated = ~Upgraded
    /\ draft = {}
    /\ init = "starting"
    /\ reset = "none"
    /\ pc = "idle"
    /\ unsent = {} /\ request = {} /\ reply = {} /\ acked = {}
    /\ from = 0 /\ pages = <<>>
    /\ settled = {}
    /\ orphans = {}
    /\ made = 0 /\ foreign = 0 /\ faults = 0 /\ resets = 0
    /\ torn = "never"

-----------------------------------------------------------------------------
(* The user, through LocalGameRepository.                                  *)

\* Row and outbox entry are written in one transaction; the entry has the
\* whole row as its payload.
Write(k, kind, row) ==
    /\ made' = made + 1
    /\ local' = [local EXCEPT ![k] = row]
    /\ outbox' = outbox \cup {[id |-> made + 1, key |-> k, kind |-> kind, row |-> row]}

\* setGameStatus, setGameRating, ...: the entry is read before the transaction.
BeginEdit(k) ==
    /\ draft = {}
    /\ made < MaxEdits
    /\ draft' = {[key |-> k, row |-> local[k]]}
    /\ UNCHANGED <<storage, init, reset, sync, server, history>>

\* A new game is refused if the key exists by now; an update is written even
\* if the game has changed or gone.
SaveEdit ==
    /\ \E d \in draft :
         IF d.row = NoRow /\ local[d.key] # NoRow
           THEN UNCHANGED <<local, outbox, made>>
           ELSE Write(d.key, "upsert", d.row \cup {made + 1})
    /\ draft' = {}
    /\ UNCHANGED <<cursor, replayDue, remediated, init, reset, sync, server,
                   foreign, faults, resets, covered, torn>>

RemoveGame(k) ==
    /\ made + Cardinality(draft) < MaxEdits
    /\ local[k] # NoRow
    /\ Write(k, "delete", NoRow)
    /\ UNCHANGED <<cursor, replayDue, remediated, draft, init, reset, sync, server,
                   foreign, faults, resets, covered, torn>>

-----------------------------------------------------------------------------
(* runSyncNow: pushOutbox, pullChanges, replayRecentChangesIfDue.          *)

Ids(ops) == {o.id : o \in ops}

EndSync ==
    /\ pc' = "idle"
    /\ unsent' = {} /\ request' = {} /\ reply' = {} /\ acked' = {}
    /\ from' = 0 /\ pages' = <<>>

\* startSyncNowIfPossible, on a timer, after an edit or when the device comes
\* online; the callbacks are registered before the remediation has run.
StartSync ==
    /\ pc = "idle"
    /\ reset = "none"
    /\ pc' = IF outbox = {} THEN "begin" ELSE "send"
    /\ unsent' = outbox
    /\ UNCHANGED <<storage, draft, init, reset, request, reply, acked, from, pages,
                   server, history>>

\* buildPushOperationBatches: a request takes the oldest operations, as many as
\* fit.
SendBatch(last) ==
    /\ pc = "send"
    /\ request' = {o \in unsent : o.id <= last}
    /\ Cardinality(request') <= MaxBatch
    /\ unsent' = unsent \ request'
    /\ pc' = "pushing"
    /\ UNCHANGED <<storage, draft, init, reset, reply, acked, from, pages, server, history>>

\* The operations of a request in their order.
Ordered(ops) ==
    {s \in [1..Cardinality(ops) -> ops] :
        /\ \A i, j \in DOMAIN s : i < j => s[i].id < s[j].id
        /\ \A o \in ops : \E i \in DOMAIN s : s[i] = o}

EventOf(o) == [op |-> o.id, key |-> o.key, kind |-> o.kind, row |-> o.row]

Taken(ops) == {o \in ops : o.id \notin settled /\ o.key \notin Rejected}

\* Mutation: the server forgets what it has settled.
SettleAgain(ops) ==
    /\ settled' = settled \cup Ids(ops)
    /\ \E s \in Ordered({o \in ops : o.key \notin Rejected}) :
           log' = log \o [i \in DOMAIN s |-> EventOf(s[i])]

\* The server settles the operations it has not settled before.
Settle(ops) ==
    /\ settled' = settled \cup Ids(ops)
    /\ \E s \in Ordered(Taken(ops)) :
           log' = log \o [i \in DOMAIN s |-> EventOf(s[i])]

\* Mutation: only operations applied by this very request are acknowledged.
ServeWithoutDuplicates ==
    /\ pc = "pushing"
    /\ Settle(request)
    /\ reply' = Ids(Taken(request))
    /\ pc' = "answered"
    /\ UNCHANGED <<storage, draft, init, reset, unsent, request, acked, from, pages,
                   orphans, history>>

\* The server answers "duplicate" for what it had settled, also as failed.
ServePush ==
    /\ pc = "pushing"
    /\ Settle(request)
    /\ reply' = Ids({o \in request : o.id \in settled \/ o.key \notin Rejected})
    /\ pc' = "answered"
    /\ UNCHANGED <<storage, draft, init, reset, unsent, request, acked, from, pages,
                   orphans, history>>

ReceiveReply ==
    /\ pc = "answered"
    /\ acked' = acked \cup reply
    /\ request' = {}
    /\ reply' = {}
    /\ pc' = IF unsent = {} THEN "ack" ELSE "send"
    /\ UNCHANGED <<storage, draft, init, reset, unsent, from, pages, server, history>>

\* Mutation: the whole outbox is cleared, edits made during the push included.
ClearOutbox ==
    /\ pc = "ack"
    /\ outbox' = IF acked = {} THEN outbox ELSE {}
    /\ acked' = {}
    /\ pc' = "begin"
    /\ UNCHANGED <<local, cursor, replayDue, remediated, draft, init, reset, unsent,
                   request, reply, from, pages, server, history>>

\* bulkDeleteOutbox, after the last batch; failed operations stay for a retry.
AckOutbox ==
    /\ pc = "ack"
    /\ outbox' = {o \in outbox : o.id \notin acked}
    /\ acked' = {}
    /\ pc' = "begin"
    /\ UNCHANGED <<local, cursor, replayDue, remediated, draft, init, reset, unsent,
                   request, reply, from, pages, server, history>>

\* pullChanges reads the cursor once, at its start.
BeginPull ==
    /\ pc = "begin"
    /\ from' = cursor
    /\ pc' = "pull"
    /\ UNCHANGED <<storage, draft, init, reset, unsent, request, reply, acked, pages,
                   server, history>>

LastPage == pages[Len(pages)]

PageAfter(i) == SubSeq(log, i + 1, Smaller(i + PageSize, Len(log)))

Pull ==
    /\ pc = "pull"
    /\ pages' = Append(pages, PageAfter(from))
    /\ pc' = IF PageAfter(from) = <<>> THEN "echo" ELSE "apply"
    /\ UNCHANGED <<storage, draft, init, reset, unsent, request, reply, acked, from,
                   server, history>>

\* Mutation: the cursor stored is the next one, not the one sent.
StoreNextCursor ==
    /\ pc = "echo"
    /\ cursor' = from + 1
    /\ pages' = <<>>
    /\ pc' = "replay"
    /\ UNCHANGED <<local, outbox, replayDue, remediated, draft, init, reset, unsent,
                   request, reply, acked, from, server, history>>

\* Nothing new: the cursor of the answer, which is the one sent, is stored.
StoreEcho ==
    /\ pc = "echo"
    /\ cursor' = from
    /\ pages' = <<>>
    /\ pc' = "replay"
    /\ UNCHANGED <<local, outbox, replayDue, remediated, draft, init, reset, unsent,
                   request, reply, acked, from, server, history>>

\* One transaction over games and outbox.
ApplyPage ==
    /\ pc = "apply"
    /\ local' = Applied(LastPage)
    /\ covered' = IF from <= covered
                    THEN Larger(covered, from + Len(LastPage)) ELSE covered
    /\ pc' = "store"
    /\ UNCHANGED <<outbox, cursor, replayDue, remediated, draft, init, reset, unsent,
                   request, reply, acked, from, pages, server,
                   made, foreign, faults, resets, torn>>

\* The cursor is stored in a write of its own.  A full page is followed by
\* another pull, up to the limit of a run.
StoreCursor ==
    /\ pc = "store"
    /\ cursor' = from + Len(LastPage)
    /\ IF Len(LastPage) = PageSize /\ Len(pages) < MaxPages
         THEN /\ pc' = "pull"
              /\ from' = from + Len(LastPage)
              /\ UNCHANGED pages
         ELSE /\ pc' = "replay"
              /\ pages' = <<>>
              /\ UNCHANGED from
    /\ UNCHANGED <<local, outbox, replayDue, remediated, draft, init, reset, unsent,
                   request, reply, acked, server, history>>

ReplayWanted == cursor > Window /\ outbox = {} /\ replayDue

NoReplay ==
    /\ pc = "replay"
    /\ ~ReplayWanted
    /\ EndSync
    /\ UNCHANGED <<storage, draft, init, reset, server, history>>

BeginReplay ==
    /\ pc = "replay"
    /\ ReplayWanted
    /\ from' = Larger(0, cursor - Window)
    /\ pc' = "collect"
    /\ UNCHANGED <<storage, draft, init, reset, unsent, request, reply, acked, pages,
                   server, history>>

\* Pages are collected first and applied only if no edit was made meanwhile.
CollectPage ==
    /\ pc = "collect"
    /\ outbox = {}
    /\ LET page == PageAfter(from) IN
         /\ pages' = IF page = <<>> THEN pages ELSE Append(pages, page)
         /\ from' = from + Len(page)
         /\ pc' = IF Len(page) < PageSize \/ Len(pages) + 1 = ReplayPages
                    THEN "check" ELSE "collect"
    /\ UNCHANGED <<storage, draft, init, reset, unsent, request, reply, acked,
                   server, history>>

\* A pending edit, or nothing to apply, ends the replay for a day.
AbandonReplay ==
    /\ pc \in {"collect", "check"}
    /\ outbox # {} \/ (pc = "check" /\ pages = <<>>)
    /\ replayDue' = FALSE
    /\ EndSync
    /\ UNCHANGED <<local, outbox, cursor, remediated, draft, init, reset, server, history>>

ConfirmReplay ==
    /\ pc = "check"
    /\ outbox = {}
    /\ pages # <<>>
    /\ pc' = "reapply"
    /\ UNCHANGED <<storage, draft, init, reset, unsent, request, reply, acked, from,
                   pages, server, history>>

\* Each page is a transaction of its own; the outbox is not looked at again.
ReapplyPage ==
    /\ pc = "reapply"
    /\ local' = Applied(Head(pages))
    /\ IF Len(pages) > 1
         THEN /\ pages' = Tail(pages)
              /\ torn' = IF torn = "never" THEN "within" ELSE torn
              /\ UNCHANGED <<replayDue, pc, unsent, request, reply, acked, from>>
         ELSE /\ replayDue' = FALSE
              /\ torn' = IF torn = "within" THEN "never" ELSE torn
              /\ EndSync
    /\ UNCHANGED <<outbox, cursor, remediated, draft, init, reset, server,
                   made, foreign, faults, resets, covered>>

-----------------------------------------------------------------------------
(* What goes wrong.  Any error ends the run; the next one starts afresh.   *)

Fault ==
    /\ faults < MaxFaults
    /\ faults' = faults + 1
    /\ torn' = IF torn = "within" THEN "torn" ELSE torn
    /\ UNCHANGED <<made, foreign, resets, covered>>

\* Mutation: a failed batch does not keep the next one from being sent.
SkipLostBatch ==
    /\ pc = "pushing"
    /\ Fault
    /\ orphans' = orphans \cup {request}
    /\ request' = {}
    /\ pc' = IF unsent = {} THEN "ack" ELSE "send"
    /\ UNCHANGED <<storage, draft, init, reset, unsent, reply, acked, from, pages,
                   log, settled>>

\* The request fails: the server never gets it, rolls it back, or gets it late.
LoseRequest ==
    /\ pc = "pushing"
    /\ Fault
    /\ orphans' = orphans \cup {request}
    /\ EndSync
    /\ UNCHANGED <<storage, draft, init, reset, log, settled>>

\* The server has settled the operations; the client does not learn of it.
LoseReply ==
    /\ pc = "answered"
    /\ Fault
    /\ EndSync
    /\ UNCHANGED <<storage, draft, init, reset, server>>

\* Mutation: a page with a change that cannot be applied is passed over.
SkipFailedPage ==
    /\ pc = "apply"
    /\ Fault
    /\ pc' = "store"
    /\ UNCHANGED <<storage, draft, init, reset, unsent, request, reply, acked, from,
                   pages, server>>

\* A pull fails, or a change of its page does and the transaction with it.
PullFails ==
    /\ pc \in {"pull", "apply"}
    /\ Fault
    /\ EndSync
    /\ UNCHANGED <<storage, draft, init, reset, server>>

\* A failed replay counts as an attempt: the next one is a day away.
ReplayFails ==
    /\ pc \in {"collect", "reapply"}
    /\ Fault
    /\ replayDue' = FALSE
    /\ EndSync
    /\ UNCHANGED <<local, outbox, cursor, remediated, draft, init, reset, server>>

\* The app is closed or reloaded: what is not in storage is gone.
Crash ==
    /\ Fault
    /\ draft' = {}
    /\ init' = "starting"
    /\ reset' = "none"
    /\ orphans' = IF pc = "pushing" THEN orphans \cup {request} ELSE orphans
    /\ EndSync
    /\ UNCHANGED <<storage, log, settled>>

\* A request given up on reaches the server after all.
OrphanArrives(ops) ==
    /\ ops \in orphans
    /\ Settle(ops)
    /\ orphans' = orphans \ {ops}
    /\ UNCHANGED <<storage, draft, init, reset, sync, history>>

-----------------------------------------------------------------------------
(* Resets of the cursor.                                                   *)

\* runDiscoveryPollutionRemediationIfNeeded, in initialize(): cursor and marker
\* are written in one transaction, whatever runSyncNow is doing.
Remediate ==
    /\ init = "starting"
    /\ init' = "done"
    /\ LET needed == ~remediated /\ \E k \in Keys : local[k] # NoRow IN
         /\ cursor' = IF needed THEN 0 ELSE cursor
         /\ covered' = IF needed THEN 0 ELSE covered
    /\ remediated' = TRUE
    /\ UNCHANGED <<local, outbox, replayDue, draft, reset, sync, server,
                   made, foreign, faults, resets, torn>>

\* resetLocalSyncState: no sync starts while it waits for the active one.
RequestReset ==
    /\ reset = "none"
    /\ resets < MaxResets
    /\ resets' = resets + 1
    /\ reset' = "waiting"
    /\ UNCHANGED <<storage, draft, init, sync, server, made, foreign, faults, covered, torn>>

\* Mutation: the reset does not wait for the active sync.
ResetAtOnce ==
    /\ reset = "waiting"
    /\ cursor' = 0
    /\ covered' = 0
    /\ replayDue' = TRUE
    /\ reset' = "none"
    /\ UNCHANGED <<local, outbox, remediated, draft, init, sync, server,
                   made, foreign, faults, resets, torn>>

ResetCursor ==
    /\ reset = "waiting"
    /\ pc = "idle"
    /\ cursor' = 0
    /\ covered' = 0
    /\ replayDue' = TRUE
    /\ reset' = "none"
    /\ UNCHANGED <<local, outbox, remediated, draft, init, sync, server,
                   made, foreign, faults, resets, torn>>

DayPasses ==
    /\ ~replayDue
    /\ resets < MaxResets
    /\ resets' = resets + 1
    /\ replayDue' = TRUE
    /\ UNCHANGED <<local, outbox, cursor, remediated, draft, init, reset, sync, server,
                   made, foreign, faults, covered, torn>>

-----------------------------------------------------------------------------
(* Other devices and the server's own jobs.                                *)

AppendForeign(k, kind, row) ==
    /\ foreign < MaxForeign
    /\ foreign' = foreign + 1
    /\ log' = Append(log, [op |-> 0, key |-> k, kind |-> kind, row |-> row])
    /\ UNCHANGED <<storage, draft, init, reset, sync, settled, orphans,
                   made, faults, resets, covered, torn>>

ForeignUpsert(k) ==
    AppendForeign(k, "upsert",
        ServerRow(k) \cup {-foreign - 1})

ForeignDelete(k) ==
    /\ ServerRow(k) # NoRow
    /\ AppendForeign(k, "delete", NoRow)

\* A discovery row never replaces a game of the library; an enrichment that
\* was under way when its game was deleted logs the discovery row instead.
ForeignDiscovery(k) ==
    /\ ServerRow(k) = NoRow
    /\ AppendForeign(k, "discovery", {-foreign - 1})

-----------------------------------------------------------------------------
SyncStep ==
    \/ \E last \in Ids(unsent) : SendBatch(last)
    \/ ServePush \/ ReceiveReply \/ AckOutbox
    \/ BeginPull \/ Pull \/ ApplyPage \/ StoreCursor \/ StoreEcho
    \/ NoReplay \/ BeginReplay \/ CollectPage \/ ConfirmReplay \/ ReapplyPage
    \/ AbandonReplay

Next ==
    \/ \E k \in Keys :
           \/ BeginEdit(k) \/ RemoveGame(k)
           \/ ForeignUpsert(k) \/ ForeignDelete(k) \/ ForeignDiscovery(k)
    \/ SaveEdit
    \/ StartSync \/ SyncStep
    \/ LoseRequest \/ LoseReply \/ PullFails \/ ReplayFails \/ Crash
    \/ \E ops \in orphans : OrphanArrives(ops)
    \/ Remediate \/ RequestReset \/ ResetCursor \/ DayPasses

Spec == Init /\ [][Next]_vars

\* A sync that runs goes on (each await is a request with an answer or an
\* error, or a storage access), the timer starts one every 30 s, and a save,
\* initialize() and a reset that waits for nothing any more are carried out.
Fairness ==
    /\ WF_vars(SyncStep)
    /\ WF_vars(StartSync)
    /\ WF_vars(SaveEdit)
    /\ WF_vars(Remediate)
    /\ WF_vars(ResetCursor)

FairSpec == Spec /\ Fairness

-----------------------------------------------------------------------------
(* Properties.                                                             *)

\* An edit leaves the outbox only after the server has decided on it, through
\* lost requests and replies, late requests, restarts and partial pushes.
NoEditForgotten ==
    \A n \in 1..made : n \in settled \/ n \in Ids(outbox)

\* The server applies the edits of a device in the order they were made: one
\* that refers to a tag never precedes the tag.
EditsInOrder ==
    \A i, j \in DOMAIN log :
        (i < j /\ log[i].op > 0 /\ log[j].op > 0) => log[i].op < log[j].op

\* The stored cursor never promises more than was applied, without a gap,
\* since it was last reset: a reset is not undone by a sync that was running.
CursorIsCovered == cursor <= covered

\* No sync is running, no edit is pending, the whole log is pulled.
AtRest == pc = "idle" /\ outbox = {} /\ draft = {} /\ cursor = Len(log)

\* A device at rest shows what the server holds, whatever edits, replays,
\* resets and failures came before; but for games whose edits the server
\* refuses, and after a replay that ended half-way.
LibraryMatchesServer ==
    (AtRest /\ torn = "never") =>
        \A k \in Keys \ Rejected : local[k] = ServerRow(k)

\* Seen from the server, the client's traffic settles operations as OpLedger
\* prescribes.
Verdict ==
    [n \in Edits |-> IF n \notin settled THEN "none"
                    ELSE IF \E i \in DOMAIN log : log[i].op = n THEN "applied" ELSE "failed"]
Logged == {[id |-> i, op |-> log[i].op] : i \in DOMAIN log}

Ledger == INSTANCE OpLedger WITH Ops <- Edits, verdict <- Verdict, events <- Logged
LedgerSpec == Ledger!Spec

\* Once edits, foreign changes and failures stop, the device comes to rest
\* again and again: nothing blocks the outbox or the cursor for ever.
ComesToRest == []<>AtRest
=============================================================================
