--------------------------- MODULE ReleaseMonitor ---------------------------
(***************************************************************************)
(* The release monitor and its notification log                            *)
(* (server/src/release-monitor.ts).                                        *)
(*                                                                         *)
(* A timer enqueues one background job per game that is due, an            *)
(* administrator may force one more, and each job carries a SNAPSHOT of    *)
(* the game's payload and of its release_watch_state row.  A worker that   *)
(* runs a job takes the game's advisory lock, asks IGDB for the release    *)
(* date, patches the payload, announces the difference to the snapshot     *)
(* (reserve the event key, send, finalise or release) and records the date *)
(* in the watch row.  Every awaited statement is a step here; between two  *)
(* of them the worker may die, the statement may throw, the lock's         *)
(* connection may drop and the job's own lock may time out.                *)
(*                                                                         *)
(* When a check is due is abstracted to "at any time": ReleaseSchedule     *)
(* models the dates.  A release is a marker with its precision, one value; *)
(* DayOf gives the day of a marker of day precision and 0 to the others,   *)
(* DateShown what is read back from a payload's releaseDate and            *)
(* releaseYear, which the metadata worker takes from another field of IGDB *)
(* (a quarter shows as its last day, or as no date at all).                *)
(***************************************************************************)
EXTENDS Integers, Sequences, FiniteSets

CONSTANTS
    Titles,         \* the library's games (collection or wishlist)
    Markers,        \* release markers IGDB may know: a day, a month, a quarter, a year
    Unknown,        \* no release marker (precision 'unknown')
    DayOf,          \* [Markers -> Nat]: the day of a marker of day precision, else 0
    DateShown,      \* [Markers -> Release]: what the releaseDate and releaseYear of a payload say
    Forces,         \* what a forced refresh may ask for: the suffix of its dedupe key
    LastDay,        \* bound: the calendar runs from day 1 to LastDay
    Monitors,       \* job loops that run release_monitor_game jobs
    NoMonitor,      \* no holder of an advisory lock, no owner of a job
    NoWatch,        \* the game has no release_watch_state row
    NoTask,         \* no active job of a dedupe key
    EastOfUtc,      \* the server's time zone is east of UTC (Europe/Zurich in its Dockerfile)
    MaxShifts,      \* bound: how often IGDB moves a date
    MaxMishaps      \* bound, per game: faults, forced refreshes, client edits, empty audiences

ASSUME MonitorAssumption ==
    /\ Titles # {}
    /\ DayOf \in [Markers -> Nat]
    /\ DateShown \in [Markers -> Markers \union {Unknown}]
    /\ IsFiniteSet(Forces) /\ "due" \notin Forces
    /\ LastDay \in Nat \ {0}
    /\ EastOfUtc \in BOOLEAN
    /\ MaxShifts \in Nat /\ MaxMishaps \in Nat
    /\ Unknown \notin Markers /\ NoMonitor \notin Monitors

Release == Markers \union {Unknown}
\* Dedupe keys release-monitor:<game> and release-monitor:forced:<what is asked for>:<game>.
Kinds == {"due"} \union Forces

\* One event key per kind of event, game and the markers the key is built from.
Key(type, g, from, to) == [type |-> type, title |-> g, from |-> from, to |-> to]
Keys == [type : {"set", "changed", "removed", "day"}, title : Titles,
         from : Release, to : Release]

VARIABLES
    upstream,       \* [Titles -> Release]: what IGDB answers
    today,          \* the UTC day
    payload,        \* [Titles -> Release]: the release date in games.payload
    watch,          \* [Titles -> release_watch_state row]
    tasks,          \* [Titles -> [Kinds -> active background job]]
    gameLock,       \* [Titles -> the monitor whose session holds pg_try_advisory_lock]
    monitor,        \* [Monitors -> the state of the handler that loop runs]
    log,            \* [rows, sent]: keys with a release_notification_log row, with sent_count > 0
    delivered,      \* [once, again]: history, the events FCM delivered, those more than once
    recorded,       \* history: the keys of the date changes watch rows went through
    unheard,        \* history: the keys skipped because nobody was subscribed
    shifts,         \* counts against MaxShifts
    mishaps         \* [Titles -> Nat]: history, what befell each game, up to MaxMishaps

monitorVars == <<upstream, today, payload, watch, tasks, gameLock, monitor, log, delivered, recorded, unheard, shifts, mishaps>>
history == <<recorded, unheard>>
world == <<upstream, today, shifts>>

-----------------------------------------------------------------------------
(* What a job carries, and what a handler keeps. *)

Snapshots == [watched : BOOLEAN, marker : Release, day : Nat, payload : Release]

ASSUME AbsenceAssumption ==
    /\ NoWatch \notin [marker : Release, day : Nat]
    /\ NoTask \notin [owner : Monitors \union {NoMonitor}, snap : Snapshots]

\* buildReleaseMonitorGameJobPayload.  last_notified_release_day is a DATE that the driver
\* reads as local midnight and JSON writes in UTC: east of UTC it becomes the day before.
Snapshot(g) ==
    LET row == watch[g] IN
    [watched |-> row # NoWatch,
     marker  |-> IF row = NoWatch THEN Unknown ELSE row.marker,
     day     |-> IF row = NoWatch \/ row.day = 0 THEN 0
                 ELSE IF EastOfUtc THEN row.day - 1 ELSE row.day,
     payload |-> payload[g]]

\* deriveReleaseInfo for the date before: the watch row's marker, or else what the payload's
\* releaseDate and releaseYear say (never its releaseMarker).
Before(snap) ==
    IF snap.marker # Unknown THEN snap.marker
    ELSE IF snap.payload = Unknown THEN Unknown ELSE DateShown[snap.payload]

\* buildReleaseEvents: the change between the snapshot and now, then the release day.
ChangeEvents(g, from, to) ==
    IF from = to THEN <<>>
    ELSE IF from = Unknown THEN <<Key("set", g, Unknown, to)>>
    ELSE IF to = Unknown THEN <<Key("removed", g, from, Unknown)>>
    ELSE <<Key("changed", g, from, to)>>
DayEvents(g, to, day) ==
    IF to # Unknown /\ DayOf[to] = day THEN <<Key("day", g, Unknown, to)>> ELSE <<>>
\* Mutation: on the release day only the day itself is announced.
DayEventsFirst(g, from, to, day) ==
    IF DayEvents(g, to, day) # <<>> THEN DayEvents(g, to, day) ELSE ChangeEvents(g, from, to)

ReleaseEvents(g, from, to, day) == ChangeEvents(g, from, to) \o DayEvents(g, to, day)

Handler(step, g, k, snap, reach) ==
    [step |-> step, title |-> g, kind |-> k, snap |-> snap, reach |-> reach,
     day |-> 0, after |-> Unknown, todo |-> <<>>, sentDay |-> FALSE]
AnyTitle == CHOOSE g \in Titles : TRUE
Resting == Handler("idle", AnyTitle, "due",
                   [watched |-> FALSE, marker |-> Unknown, day |-> 0, payload |-> Unknown], FALSE)

Active(w) == monitor[w].step # "idle"
Tell(w, e) == monitor' = [monitor EXCEPT ![w] = e]
Mishap(g) == mishaps[g] < MaxMishaps /\ mishaps' = [mishaps EXCEPT ![g] = @ + 1]

MonitorInit ==
    /\ upstream \in [Titles -> Release]
    /\ today = 1
    /\ payload = upstream
    /\ \E checked \in SUBSET Titles :
         watch = [g \in Titles |-> IF g \in checked THEN [marker |-> payload[g], day |-> 0]
                                  ELSE NoWatch]
    /\ tasks = [g \in Titles |-> [k \in Kinds |-> NoTask]]
    /\ gameLock = [g \in Titles |-> NoMonitor]
    /\ monitor = [w \in Monitors |-> Resting]
    /\ log = [rows |-> {}, sent |-> {}] /\ delivered = [once |-> {}, again |-> {}]
    /\ recorded = {} /\ unheard = {}
    /\ shifts = 0 /\ mishaps = [g \in Titles |-> 0]

-----------------------------------------------------------------------------
(* The world: IGDB moves a date, midnight passes, a client pushes its own  *)
(* copy of the game.                                                       *)

MoveDate(g, m) ==
    /\ shifts < MaxShifts /\ m # upstream[g]
    /\ upstream' = [upstream EXCEPT ![g] = m]
    /\ shifts' = shifts + 1
    /\ UNCHANGED <<today, payload, watch, tasks, gameLock, monitor, log,
                   delivered, history, mishaps>>

Midnight ==
    /\ today < LastDay
    /\ today' = today + 1
    /\ UNCHANGED <<upstream, payload, watch, tasks, gameLock, monitor, log,
                   delivered, history, shifts, mishaps>>

\* A client that refreshed the game's metadata itself pushes it: the payload shows the
\* date of IGDB before the monitor does.
ClientRefresh(g) ==
    /\ payload[g] # upstream[g] /\ Mishap(g)
    /\ payload' = [payload EXCEPT ![g] = upstream[g]]
    /\ UNCHANGED <<world, watch, tasks, gameLock, monitor, log, delivered, history>>

-----------------------------------------------------------------------------
(* The timer and the forced refresh enqueue jobs. *)

Enqueue(g, k) ==
    /\ tasks[g][k] = NoTask
    /\ tasks' = [tasks EXCEPT ![g][k] = [owner |-> NoMonitor, snap |-> Snapshot(g)]]
    /\ UNCHANGED <<world, payload, watch, gameLock, monitor, log, delivered, history>>

\* processDueGames: a game without a watch row, or whose next_check_at has passed.
EnqueueDue(g) == Enqueue(g, "due") /\ UNCHANGED mishaps

\* enqueueForcedReleaseMonitorRefreshJobs: other dedupe keys, one per refresh asked for, so
\* beside a due job and beside each other.
EnqueueForced(g) == \E k \in Forces : Enqueue(g, k) /\ Mishap(g)

-----------------------------------------------------------------------------
(* A worker runs processQueuedReleaseMonitorGame. *)

\* Claims the job.  getQueuedGameContext reads, or has cached, the settings and the tokens:
\* they reach somebody (and the event's kind is enabled), or nobody.
Claim(w, g, k, reach) ==
    /\ ~Active(w)
    /\ tasks[g][k] # NoTask /\ tasks[g][k].owner = NoMonitor
    /\ tasks' = [tasks EXCEPT ![g][k].owner = w]
    /\ Tell(w, Handler("lock", g, k, tasks[g][k].snap, reach))
    /\ UNCHANGED <<world, payload, watch, gameLock, log, delivered, history>>
ClaimReaching(w, g, k) == Claim(w, g, k, TRUE) /\ UNCHANGED mishaps
ClaimUnheard(w, g, k) == Claim(w, g, k, FALSE) /\ Mishap(g)

\* The worker completes its job (if it still owns it) and is free.
JobDone(w) ==
    LET g == monitor[w].title k == monitor[w].kind IN
    /\ tasks' = IF tasks[g][k] # NoTask /\ tasks[g][k].owner = w
                THEN [tasks EXCEPT ![g][k] = NoTask] ELSE tasks
    /\ Tell(w, Resting)

\* The job throws: it is queued again, or dropped when its attempts are spent.
JobFailed(w) ==
    LET g == monitor[w].title k == monitor[w].kind IN
    /\ IF tasks[g][k] # NoTask /\ tasks[g][k].owner = w
       THEN \/ tasks' = [tasks EXCEPT ![g][k].owner = NoMonitor]
            \/ tasks' = [tasks EXCEPT ![g][k] = NoTask]
       ELSE tasks' = tasks
    /\ Tell(w, Resting)

\* withGameLock: pg_try_advisory_lock.  processGameRow then reads the clock.
TakeLock(w) ==
    LET m == monitor[w] IN
    /\ m.step = "lock" /\ gameLock[m.title] = NoMonitor
    /\ gameLock' = [gameLock EXCEPT ![m.title] = w]
    /\ Tell(w, [m EXCEPT !.step = "fetch", !.day = today])
    /\ UNCHANGED <<world, payload, watch, tasks, log, delivered, history, mishaps>>

\* The lock is held: the job counts as done.
LockHeld(w) ==
    /\ monitor[w].step = "lock" /\ gameLock[monitor[w].title] # NoMonitor
    /\ JobDone(w)
    /\ UNCHANGED <<world, payload, watch, gameLock, log, delivered, history, mishaps>>

\* A game without a watch row is only recorded; otherwise IGDB is asked for its date.
Fetch(w) ==
    LET m == monitor[w] IN
    /\ m.step = "fetch"
    /\ Tell(w, [m EXCEPT !.step = "patch",
                         !.after = IF m.snap.watched THEN upstream[m.title] ELSE m.snap.payload])
    /\ UNCHANGED <<world, payload, watch, tasks, gameLock, log, delivered, history,
                   mishaps>>

\* IGDB does not answer (fetchGameById returns null): the snapshot's payload stays.
FetchEmpty(w) ==
    LET m == monitor[w] IN
    /\ m.step = "fetch" /\ m.snap.watched /\ Mishap(m.title)
    /\ Tell(w, [m EXCEPT !.step = "patch", !.after = m.snap.payload])
    /\ UNCHANGED <<world, payload, watch, tasks, gameLock, log, delivered, history>>

\* applyGamePayloadPatch writes what differs from the SNAPSHOT's payload.
Patch(w) ==
    LET m == monitor[w] IN
    /\ m.step = "patch"
    /\ payload' = IF m.after # m.snap.payload THEN [payload EXCEPT ![m.title] = m.after]
                  ELSE payload
    /\ Tell(w, [m EXCEPT
                 !.step = "announce",
                 !.todo = IF m.snap.watched
                          THEN ReleaseEvents(m.title, Before(m.snap), m.after, m.day)
                          ELSE <<>>])
    /\ UNCHANGED <<world, watch, tasks, gameLock, log, delivered, history, mishaps>>

\* Mutation: the log is not looked at, only the day of the watch row.
SkipsUnlogged(m, e) == ~m.reach \/ (e.type = "day" /\ DayOf[e.to] # 0 /\ m.snap.day = DayOf[e.to])

\* The event is disabled, of a day already notified, without tokens, or in the log already.
Skips(m, e) ==
    \/ ~m.reach
    \/ e.type = "day" /\ DayOf[e.to] # 0 /\ m.snap.day = DayOf[e.to]
    \/ e \in log.rows
SkipEvent(w) ==
    LET m == monitor[w] e == Head(m.todo) IN
    /\ m.step = "announce" /\ m.todo # <<>>
    /\ Skips(m, e)
    /\ Tell(w, [m EXCEPT !.todo = Tail(m.todo)])
    /\ unheard' = IF ~m.reach THEN unheard \union {e} ELSE unheard
    /\ UNCHANGED <<world, payload, watch, tasks, gameLock, log, delivered, recorded,
                   mishaps>>

\* reserveNotificationLog: INSERT ... ON CONFLICT DO NOTHING, in its own transaction.
Reserve(w) ==
    LET m == monitor[w] e == Head(m.todo) IN
    /\ m.step = "announce" /\ m.todo # <<>>
    /\ ~Skips(m, e)
    /\ log' = [log EXCEPT !.rows = @ \union {e}]
    /\ Tell(w, [m EXCEPT !.step = "send"])
    /\ UNCHANGED <<world, payload, watch, tasks, gameLock, delivered, history, mishaps>>

Delivered(e) == [once  |-> delivered.once \union {e},
                 again |-> IF e \in delivered.once THEN delivered.again \union {e}
                           ELSE delivered.again]

\* sendFcmMulticast delivers to at least one device and says so.
SendDelivers(w) ==
    LET m == monitor[w] e == Head(m.todo) IN
    /\ m.step = "send"
    /\ delivered' = Delivered(e)
    /\ Tell(w, [m EXCEPT !.step = "finalise"])
    /\ UNCHANGED <<world, payload, watch, tasks, gameLock, log, history, mishaps>>

\* No device took it: successCount is 0.
SendReachesNobody(w) ==
    LET m == monitor[w] IN
    /\ m.step = "send" /\ Mishap(m.title)
    /\ Tell(w, [m EXCEPT !.step = "release"])
    /\ UNCHANGED <<world, payload, watch, tasks, gameLock, log, delivered, history>>

\* One chunk of 500 tokens throws; the others may have been delivered all the same.
SendThrows(w) ==
    LET m == monitor[w] e == Head(m.todo) IN
    /\ m.step = "send" /\ Mishap(m.title)
    /\ delivered' \in {delivered, Delivered(e)}
    /\ Tell(w, [m EXCEPT !.step = "failed"])
    /\ UNCHANGED <<world, payload, watch, tasks, gameLock, log, history>>

\* finalizeNotificationLog, and the next event.
Finalise(w) ==
    LET m == monitor[w] e == Head(m.todo) IN
    /\ m.step = "finalise"
    /\ log' = [log EXCEPT !.sent = @ \union ({e} \intersect log.rows)]
    /\ Tell(w, [m EXCEPT !.step = "announce", !.todo = Tail(m.todo),
                         !.sentDay = m.sentDay \/ e.type = "day"])
    /\ UNCHANGED <<world, payload, watch, tasks, gameLock, delivered, history, mishaps>>

\* releaseNotificationLogReservation: DELETE ... WHERE sent_count = 0.
ReleaseReservation(w) ==
    LET m == monitor[w] e == Head(m.todo) IN
    /\ m.step = "release"
    /\ log' = [log EXCEPT !.rows = @ \ ({e} \ log.sent)]
    /\ Tell(w, [m EXCEPT !.step = "announce", !.todo = Tail(m.todo)])
    /\ UNCHANGED <<world, payload, watch, tasks, gameLock, delivered, history, mishaps>>

\* upsertWatchState: the date is recorded once every event has been dealt with.
RecordWatch(w) ==
    LET m == monitor[w] g == m.title row == watch[g] IN
    /\ m.step = "announce" /\ m.todo = <<>>
    /\ watch' = [watch EXCEPT ![g] =
                   [marker |-> m.after,
                    day    |-> IF m.sentDay /\ m.after # Unknown THEN DayOf[m.after]
                               ELSE IF row = NoWatch THEN 0 ELSE row.day]]
    /\ recorded' = IF row = NoWatch THEN recorded
                   ELSE recorded \union {e \in Keys : <<e>> = ChangeEvents(g, row.marker, m.after)}
    /\ Tell(w, [m EXCEPT !.step = "unlock"])
    /\ UNCHANGED <<world, payload, tasks, gameLock, log, delivered, unheard, mishaps>>

\* Mutation: the catch block ends the job without the unlock.
FailAndKeepLock(w) ==
    /\ monitor[w].step = "failed"
    /\ JobDone(w)
    /\ UNCHANGED <<world, payload, watch, gameLock, log, delivered, history, mishaps>>

\* The catch block: check again tomorrow.  Only a first row takes the snapshot's date.
RecordFailure(w) ==
    LET m == monitor[w] g == m.title IN
    /\ m.step = "failed"
    /\ watch' = IF watch[g] = NoWatch
                THEN [watch EXCEPT ![g] = [marker |-> Before(m.snap), day |-> 0]] ELSE watch
    /\ Tell(w, [m EXCEPT !.step = "unlock"])
    /\ UNCHANGED <<world, payload, tasks, gameLock, log, delivered, history, mishaps>>

\* That INSERT fails as well, and the error is swallowed: no row, or the row as it was.
RecordFailureLost(w) ==
    /\ monitor[w].step = "failed"
    /\ Tell(w, [monitor[w] EXCEPT !.step = "unlock"])
    /\ UNCHANGED <<world, payload, watch, tasks, gameLock, log, delivered, history, mishaps>>

\* pg_advisory_unlock and the end of the job.
Unlock(w) ==
    LET g == monitor[w].title IN
    /\ monitor[w].step = "unlock" /\ gameLock[g] = w
    /\ gameLock' = [gameLock EXCEPT ![g] = NoMonitor]
    /\ JobDone(w)
    /\ UNCHANGED <<world, payload, watch, log, delivered, history, mishaps>>

\* The lock's connection is gone: the unlock throws and so does the job.
UnlockThrows(w) ==
    /\ monitor[w].step = "unlock" /\ gameLock[monitor[w].title] # w
    /\ JobFailed(w)
    /\ UNCHANGED <<world, payload, watch, gameLock, log, delivered, history, mishaps>>

-----------------------------------------------------------------------------
(* Faults. *)

\* A statement, or the call to IGDB, throws.
Throw(w) ==
    /\ monitor[w].step \in {"fetch", "patch", "announce", "finalise", "release"}
    /\ Mishap(monitor[w].title)
    /\ Tell(w, [monitor[w] EXCEPT !.step = "failed"])
    /\ UNCHANGED <<world, payload, watch, tasks, gameLock, log, delivered, history>>

\* The process dies: its session's lock goes, its job stays locked until it times out.
Crash(w) ==
    /\ Active(w) /\ Mishap(monitor[w].title)
    /\ gameLock' = [g \in Titles |-> IF gameLock[g] = w THEN NoMonitor ELSE gameLock[g]]
    /\ Tell(w, Resting)
    /\ UNCHANGED <<world, payload, watch, tasks, log, delivered, history>>

\* The connection that holds the lock drops while the handler goes on.
LockLost(w) ==
    /\ Active(w) /\ gameLock[monitor[w].title] = w /\ Mishap(monitor[w].title)
    /\ gameLock' = [gameLock EXCEPT ![monitor[w].title] = NoMonitor]
    /\ UNCHANGED <<world, payload, watch, tasks, monitor, log, delivered, history>>

\* The worker has died, and its job's lock times out: the job is queued again.
Runs(w, g, k) == Active(w) /\ monitor[w].title = g /\ monitor[w].kind = k
RequeueOrphan(g, k) ==
    /\ tasks[g][k] # NoTask /\ tasks[g][k].owner # NoMonitor
    /\ ~Runs(tasks[g][k].owner, g, k)
    /\ tasks' = [tasks EXCEPT ![g][k].owner = NoMonitor]
    /\ UNCHANGED <<world, payload, watch, gameLock, monitor, log, delivered, history,
                   mishaps>>

\* The same while the worker is only slow.
RequeueSlow(g, k) ==
    /\ tasks[g][k] # NoTask /\ tasks[g][k].owner # NoMonitor
    /\ Runs(tasks[g][k].owner, g, k) /\ Mishap(g)
    /\ tasks' = [tasks EXCEPT ![g][k].owner = NoMonitor]
    /\ UNCHANGED <<world, payload, watch, gameLock, monitor, log, delivered, history>>

-----------------------------------------------------------------------------
HandlerStep(w) ==
    \/ TakeLock(w) \/ LockHeld(w) \/ Fetch(w) \/ Patch(w) \/ SkipEvent(w) \/ Reserve(w)
    \/ SendDelivers(w) \/ Finalise(w) \/ ReleaseReservation(w) \/ RecordWatch(w)
    \/ RecordFailure(w) \/ RecordFailureLost(w) \/ Unlock(w) \/ UnlockThrows(w)
Fault(w) ==
    \/ FetchEmpty(w) \/ SendReachesNobody(w) \/ SendThrows(w) \/ Throw(w) \/ Crash(w)
    \/ LockLost(w)
WorldStep ==
    \/ Midnight
    \/ \E g \in Titles : ClientRefresh(g) \/ \E m \in Release : MoveDate(g, m)
QueueStep(g) ==
    \/ EnqueueDue(g) \/ EnqueueForced(g)
    \/ \E k \in Kinds : RequeueOrphan(g, k) \/ RequeueSlow(g, k)
                        \/ \E w \in Monitors : \/ ClaimReaching(w, g, k)
                                               \/ ClaimUnheard(w, g, k)
MonitorNext ==
    \/ \E w \in Monitors : HandlerStep(w) \/ Fault(w)
    \/ WorldStep
    \/ \E g \in Titles : QueueStep(g)

MonitorSpec == MonitorInit /\ [][MonitorNext]_monitorVars

\* The timer fires, job loops claim what is queued and carry on with what they claimed,
\* and the lock of a dead worker's job times out.
MonitorFairness ==
    /\ \A g \in Titles : WF_monitorVars(EnqueueDue(g))
    /\ \A g \in Titles, k \in Kinds : WF_monitorVars(\/ RequeueOrphan(g, k)
                                                     \/ \E w \in Monitors : ClaimReaching(w, g, k))
    /\ \A w \in Monitors : WF_monitorVars(HandlerStep(w))

-----------------------------------------------------------------------------
Row == [marker : Release, day : Nat]
MonitorTypeOK ==
    /\ upstream \in [Titles -> Release]
    /\ today \in 1..LastDay
    /\ payload \in [Titles -> Release]
    /\ watch \in [Titles -> Row \union {NoWatch}]
    /\ tasks \in [Titles -> [Kinds -> [owner : Monitors \union {NoMonitor}, snap : Snapshots]
                                      \union {NoTask}]]
    /\ gameLock \in [Titles -> Monitors \union {NoMonitor}]
    /\ monitor \in [Monitors ->
         [step : {"idle", "lock", "fetch", "patch", "announce", "send", "finalise", "release",
                  "failed", "unlock"},
          title : Titles, kind : Kinds, snap : Snapshots, reach : BOOLEAN,
          day : 0..LastDay, after : Release, todo : Seq(Keys), sentDay : BOOLEAN]]
    /\ log \in [rows : SUBSET Keys, sent : SUBSET Keys]
    /\ delivered \in [once : SUBSET Keys, again : SUBSET Keys]
    /\ recorded \subseteq Keys /\ unheard \subseteq Keys
    /\ shifts \in 0..MaxShifts /\ mishaps \in [Titles -> 0..MaxMishaps]

(***************************************************************************)
(* "Delivery remains single-shot via event_key reservation": whatever      *)
(* crashes, times out, runs twice or drops its lock, no event of one key   *)
(* is ever delivered twice.                                                *)
(***************************************************************************)
SingleShot == delivered.again = {}

(***************************************************************************)
(* A date change that a watch row went through was delivered, or nobody    *)
(* was subscribed.  Without a mishap (a crash, a throw, a forced job's     *)
(* stale snapshot, a client that wrote the date first ...) a game loses    *)
(* none, and each of its mishaps costs three changes at most: a job beside *)
(* the timer's announces a change from another date than the row's, the    *)
(* timer's job queued meanwhile finds its old date again and announces     *)
(* none, and leaves row and payload apart, so that the next job announces  *)
(* its change from the wrong date once more.                               *)
(***************************************************************************)
Lost == recorded \ (unheard \union delivered.once)
LostOf(g) == {e \in Lost : e.title = g}
ChangesAreAnnounced == \A g \in Titles : Cardinality(LostOf(g)) <= 3 * mishaps[g]

(***************************************************************************)
(* However jobs fail, once IGDB keeps its date the watch row and the       *)
(* game's payload settle on it.                                            *)
(***************************************************************************)
DatesConverge ==
    \A g \in Titles : <>[](watch[g] # NoWatch /\ watch[g].marker = upstream[g]
                                             /\ payload[g] = upstream[g])
=============================================================================
