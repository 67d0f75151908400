------------------------ MODULE ReleaseMonitor_proofs ------------------------
(***************************************************************************)
(* Proofs about the release monitor: variables have their type, no event   *)
(* is delivered twice, a mishap costs three announcements at most, and no  *)
(* release day is slept through.                                           *)
(***************************************************************************)
EXTENDS ReleaseMonitor, ReleaseSchedule, SequenceTheorems, FiniteSetTheorems, TLAPS

-----------------------------------------------------------------------------
(* ReleaseMonitor, for any number of games, markers, workers and mishaps.  *)

Jobs == [owner : Monitors \union {NoMonitor}, snap : Snapshots]
Steps == {"idle", "lock", "fetch", "patch", "announce", "send", "finalise", "release",
          "failed", "unlock"}
Handlers == [step : Steps, title : Titles, kind : Kinds, snap : Snapshots, reach : BOOLEAN,
             day : 0..LastDay, after : Release, todo : Seq(Keys), sentDay : BOOLEAN]

\* A handler in the middle of an event has an event.
InHand(h) == h.step \in {"send", "finalise", "release"} => h.todo # <<>>

\* Between its reservation and its delivery, or its release, an event is one worker's.
Holding(w) == monitor[w].step \in {"send", "release"}
Event(w) == Head(monitor[w].todo)

Exclusive ==
    /\ delivered.again = {}
    /\ delivered.once \subseteq log.rows
    /\ \A w \in Monitors : Holding(w) => Event(w) \in log.rows \ delivered.once
    /\ \A v, w \in Monitors : Holding(v) /\ Holding(w) /\ v # w => Event(v) # Event(w)

Guarded ==
    /\ MonitorTypeOK
    /\ \A w \in Monitors : InHand(monitor[w])
    /\ Exclusive

-----------------------------------------------------------------------------
(* What handlers carry. *)

LEMMA RestingIsOne == Resting \in Handlers /\ Resting.step = "idle"
  <1>1. AnyTitle \in Titles
    BY MonitorAssumption DEF AnyTitle
  <1>2. <<>> \in Seq(Keys) /\ 0 \in 0..LastDay
    BY MonitorAssumption
  <1>3. [watched |-> FALSE, marker |-> Unknown, day |-> 0, payload |-> Unknown] \in Snapshots
    BY DEF Snapshots, Release
  <1> QED BY <1>1, <1>2, <1>3 DEF Resting, Handler, Handlers, Steps, Kinds, Release

LEMMA BeforeIsOne ==
    ASSUME NEW snap \in Snapshots
    PROVE  Before(snap) \in Release
  <1>1. snap.marker \in Release /\ snap.payload \in Release
    BY DEF Snapshots
  <1>2. snap.payload # Unknown => DateShown[snap.payload] \in Release
    BY <1>1, MonitorAssumption DEF Release
  <1> QED BY <1>1, <1>2 DEF Before, Release

LEMMA SnapshotIsOne ==
    ASSUME MonitorTypeOK, NEW g \in Titles
    PROVE  Snapshot(g) \in Snapshots
  <1>1. payload[g] \in Release /\ watch[g] \in Row \union {NoWatch}
    BY DEF MonitorTypeOK
  <1>2. CASE watch[g] = NoWatch
    BY <1>1, <1>2 DEF Snapshot, Snapshots, Release
  <1>3. CASE watch[g] # NoWatch
    <2>1. watch[g].marker \in Release /\ watch[g].day \in Nat
      BY <1>1, <1>3 DEF Row
    <2>2. (IF watch[g].day = 0 THEN 0 ELSE IF EastOfUtc THEN watch[g].day - 1
           ELSE watch[g].day) \in Nat
      BY <2>1
    <2> QED BY <1>1, <1>3, <2>1, <2>2 DEF Snapshot, Snapshots
  <1> QED BY <1>2, <1>3

LEMMA EventsAreKeys ==
    ASSUME NEW g \in Titles, NEW from \in Release, NEW to \in Release, NEW day
    PROVE  ReleaseEvents(g, from, to, day) \in Seq(Keys)
  <1>1. /\ Key("set", g, Unknown, to) \in Keys /\ Key("removed", g, from, Unknown) \in Keys
        /\ Key("changed", g, from, to) \in Keys /\ Key("day", g, Unknown, to) \in Keys
    BY DEF Key, Keys, Release
  <1>2. <<>> \in Seq(Keys) /\ \A e \in Keys : <<e>> \in Seq(Keys)
    OBVIOUS
  <1>3. ChangeEvents(g, from, to) \in Seq(Keys)
    BY <1>1, <1>2 DEF ChangeEvents
  <1>4. DayEvents(g, to, day) \in Seq(Keys)
    BY <1>1, <1>2 DEF DayEvents
  <1> HIDE DEF ReleaseEvents
  <1> QED BY <1>3, <1>4, ConcatProperties DEF ReleaseEvents

-----------------------------------------------------------------------------
(* What keeps events exclusive. *)

\* A worker goes on; if it holds an event afterwards, it is the one it held before.
LEMMA WorkerGoesOn ==
    ASSUME Guarded, NEW w \in Monitors, NEW h \in Handlers, Tell(w, h), InHand(h),
           log.rows \subseteq log'.rows, delivered' = delivered,
           h.step # "send",
           h.step = "release" => monitor[w].step = "send" /\ h.todo = monitor[w].todo
    PROVE  /\ monitor' \in [Monitors -> Handlers]
           /\ \A v \in Monitors : InHand(monitor'[v])
           /\ Exclusive'
  <1>1. monitor \in [Monitors -> Handlers] /\ monitor' = [monitor EXCEPT ![w] = h]
    BY DEF Guarded, MonitorTypeOK, Handlers, Steps, Tell
  <1>2. monitor'[w] = h /\ \A v \in Monitors : v # w => monitor'[v] = monitor[v]
    BY <1>1
  <1>3. \A v \in Monitors : Holding(v)' => Holding(v) /\ Event(v)' = Event(v)
    BY <1>2 DEF Holding, Event
  <1>4. Exclusive'
    BY <1>3 DEF Guarded, Exclusive
  <1> QED BY <1>1, <1>2, <1>4 DEF Guarded

\* Nobody goes on.
LEMMA NobodyMoves ==
    ASSUME Guarded, UNCHANGED <<monitor, log, delivered>>
    PROVE  /\ \A v \in Monitors : InHand(monitor'[v])
           /\ Exclusive'
  <1>1. Exclusive'
    BY DEF Guarded, Exclusive, Holding, Event
  <1> QED BY <1>1 DEF Guarded

LEMMA ReserveGuarded ==
    ASSUME Guarded, NEW w \in Monitors, Reserve(w)
    PROVE  Guarded'
  <1> DEFINE m == monitor[w]
             e == Head(m.todo)
             h == [m EXCEPT !.step = "send"]
  <1>1. /\ monitor \in [Monitors -> Handlers] /\ m \in Handlers
        /\ log \in [rows : SUBSET Keys, sent : SUBSET Keys]
    BY DEF Guarded, MonitorTypeOK, Handlers, Steps
  <1>2. /\ m.step = "announce" /\ m.todo # <<>> /\ e \notin log.rows
        /\ log' = [log EXCEPT !.rows = @ \union {e}]
        /\ monitor' = [monitor EXCEPT ![w] = h]
        /\ UNCHANGED <<upstream, today, shifts, payload, watch, tasks, gameLock, delivered,
                       recorded, unheard, mishaps>>
    BY DEF Reserve, Skips, Tell, world, history
  <1>3. h \in Handlers /\ h.step = "send" /\ h.todo = m.todo
    BY <1>1 DEF Handlers, Steps
  <1>4. e \in Keys
    BY <1>1, <1>2 DEF Handlers
  <1> HIDE DEF h
  <1>5. /\ monitor' \in [Monitors -> Handlers] /\ monitor'[w] = h
        /\ \A v \in Monitors : v # w => monitor'[v] = monitor[v]
    BY <1>1, <1>2, <1>3
  <1>6. log' \in [rows : SUBSET Keys, sent : SUBSET Keys] /\ log'.rows = log.rows \union {e}
    BY <1>1, <1>2, <1>4
  <1>7. MonitorTypeOK'
    BY <1>2, <1>5, <1>6 DEF Guarded, MonitorTypeOK, Handlers, Steps
  <1>8. \A v \in Monitors : InHand(monitor'[v])
    BY <1>2, <1>3, <1>5 DEF Guarded, InHand
  <1>9. Event(w)' = e /\ \A v \in Monitors : v # w => (Holding(v)' <=> Holding(v)) /\ Event(v)' = Event(v)
    BY <1>3, <1>5 DEF Holding, Event
  <1> HIDE DEF e, m
  <1>10. Exclusive'
    BY <1>2, <1>6, <1>9 DEF Guarded, Exclusive
  <1> QED BY <1>7, <1>8, <1>10 DEF Guarded

\* The delivery of an event by the worker that holds it, which then holds it no longer.
LEMMA DeliveryGuarded ==
    ASSUME Guarded, NEW w \in Monitors, NEW step \in {"finalise", "failed"},
           monitor[w].step = "send", delivered' = Delivered(Event(w)),
           Tell(w, [monitor[w] EXCEPT !.step = step]), mishaps' \in [Titles -> 0..MaxMishaps],
           UNCHANGED <<upstream, today, shifts, payload, watch, tasks, gameLock, log,
                       recorded, unheard>>
    PROVE  Guarded'
  <1> DEFINE m == monitor[w]
             e == Event(w)
             h == [m EXCEPT !.step = step]
  <1>1. /\ monitor \in [Monitors -> Handlers] /\ m \in Handlers
        /\ log \in [rows : SUBSET Keys, sent : SUBSET Keys]
        /\ delivered \in [once : SUBSET Keys, again : SUBSET Keys]
    BY DEF Guarded, MonitorTypeOK, Handlers, Steps
  <1>2. monitor' = [monitor EXCEPT ![w] = h]
    BY DEF Tell
  <1>3. h \in Handlers /\ h.step = step /\ h.todo = m.todo /\ m.todo # <<>>
    BY <1>1 DEF Handlers, Steps, Guarded, InHand
  <1>4. e \in log.rows \ delivered.once /\ Holding(w)
    BY DEF Guarded, Exclusive, Holding
  <1> HIDE DEF h
  <1>5. /\ monitor' \in [Monitors -> Handlers] /\ monitor'[w] = h
        /\ \A v \in Monitors : v # w => monitor'[v] = monitor[v]
    BY <1>1, <1>2, <1>3
  <1>6. delivered' = [once |-> delivered.once \union {e}, again |-> delivered.again]
    BY <1>4 DEF Delivered
  <1>7. delivered' \in [once : SUBSET Keys, again : SUBSET Keys]
    BY <1>1, <1>4, <1>6
  <1>8. MonitorTypeOK'
    BY <1>5, <1>7 DEF Guarded, MonitorTypeOK, Handlers, Steps
  <1>9. \A v \in Monitors : InHand(monitor'[v])
    BY <1>3, <1>5 DEF Guarded, InHand
  <1>10. ~Holding(w)' /\ \A v \in Monitors : v # w => (Holding(v)' <=> Holding(v)) /\ Event(v)' = Event(v)
    BY <1>3, <1>5 DEF Holding, Event
  <1>11. Exclusive'
    <2>1. delivered'.again = {} /\ delivered'.once = delivered.once \union {e}
      BY <1>6 DEF Guarded, Exclusive
    <2> HIDE DEF e
    <2>2. delivered'.once \subseteq log'.rows
      BY <1>4, <2>1 DEF Guarded, Exclusive
    <2>3. \A v \in Monitors : Holding(v)' => Event(v)' \in log'.rows \ delivered'.once
      BY <1>4, <1>10, <2>1 DEF Guarded, Exclusive, e
    <2>4. \A v, u \in Monitors : Holding(v)' /\ Holding(u)' /\ v # u => Event(v)' # Event(u)'
      BY <1>10 DEF Guarded, Exclusive
    <2> QED BY <2>1, <2>2, <2>3, <2>4 DEF Exclusive
  <1> QED BY <1>8, <1>9, <1>11 DEF Guarded

\* A reservation is deleted by the worker that holds it, and was not delivered.
LEMMA ReleaseGuarded ==
    ASSUME Guarded, NEW w \in Monitors, ReleaseReservation(w)
    PROVE  Guarded'
  <1> DEFINE m == monitor[w]
             e == Event(w)
             h == [m EXCEPT !.step = "announce", !.todo = Tail(m.todo)]
  <1>1. /\ monitor \in [Monitors -> Handlers] /\ m \in Handlers
        /\ log \in [rows : SUBSET Keys, sent : SUBSET Keys]
    BY DEF Guarded, MonitorTypeOK, Handlers, Steps
  <1>2. /\ m.step = "release"
        /\ log' = [log EXCEPT !.rows = @ \ ({e} \ log.sent)]
        /\ monitor' = [monitor EXCEPT ![w] = h]
        /\ UNCHANGED <<upstream, today, shifts, payload, watch, tasks, gameLock, delivered,
                       recorded, unheard, mishaps>>
    BY DEF ReleaseReservation, Tell, world, history, Event
  <1>3. m.todo # <<>> /\ Tail(m.todo) \in Seq(Keys)
    BY <1>1, <1>2, SMTT(30) DEF Guarded, InHand, Handlers
  <1>4. h \in Handlers /\ h.step = "announce"
    BY <1>1, <1>3 DEF Handlers, Steps
  <1>5. e \in log.rows \ delivered.once /\ Holding(w)
    BY <1>2 DEF Guarded, Exclusive, Holding
  <1> HIDE DEF h
  <1>6. /\ monitor' \in [Monitors -> Handlers] /\ monitor'[w] = h
        /\ \A v \in Monitors : v # w => monitor'[v] = monitor[v]
    BY <1>1, <1>2, <1>4
  <1>7. log' \in [rows : SUBSET Keys, sent : SUBSET Keys] /\ log.rows \ {e} \subseteq log'.rows
    BY <1>1, <1>2
  <1>8. MonitorTypeOK'
    BY <1>2, <1>6, <1>7 DEF Guarded, MonitorTypeOK, Handlers, Steps
  <1>9. \A v \in Monitors : InHand(monitor'[v])
    BY <1>4, <1>6 DEF Guarded, InHand
  <1>10. ~Holding(w)' /\ \A v \in Monitors : v # w => (Holding(v)' <=> Holding(v)) /\ Event(v)' = Event(v)
    BY <1>4, <1>6 DEF Holding, Event
  <1>11. Exclusive'
    <2>1. \A v \in Monitors : Holding(v)' => Event(v)' = Event(v) /\ Event(v) # e /\ Holding(v)
      BY <1>5, <1>10 DEF Guarded, Exclusive
    <2> HIDE DEF e
    <2> QED BY <1>2, <1>5, <1>7, <1>10, <2>1 DEF Guarded, Exclusive
  <1> QED BY <1>8, <1>9, <1>11 DEF Guarded

-----------------------------------------------------------------------------
(* The steps of a handler, its faults, the queue and the world. *)

RowsTyped == watch' \in [Titles -> Row \union {NoWatch}]
TasksTyped == tasks' \in [Titles -> [Kinds -> Jobs \union {NoTask}]]

\* A worker goes on and leaves the log alone, everything keeping its type.
LEMMA GoesOn ==
    ASSUME Guarded, NEW w \in Monitors, NEW h \in Handlers, Tell(w, h), InHand(h),
           UNCHANGED <<upstream, today, shifts, log, delivered>>,
           h.step # "send",
           h.step = "release" => monitor[w].step = "send" /\ h.todo = monitor[w].todo,
           payload' \in [Titles -> Release], RowsTyped, TasksTyped,
           gameLock' \in [Titles -> Monitors \union {NoMonitor}],
           recorded' \subseteq Keys, unheard' \subseteq Keys, mishaps' \in [Titles -> 0..MaxMishaps]
    PROVE  Guarded'
  <1>1. /\ monitor' \in [Monitors -> Handlers]
        /\ \A v \in Monitors : InHand(monitor'[v])
        /\ Exclusive'
    BY WorkerGoesOn
  <1>2. MonitorTypeOK'
    BY <1>1 DEF Guarded, MonitorTypeOK, RowsTyped, TasksTyped, Jobs, Handlers, Steps
  <1> QED BY <1>1, <1>2 DEF Guarded

\* Nobody goes on, everything keeping its type.
LEMMA StandsBy ==
    ASSUME Guarded, UNCHANGED <<monitor, log, delivered, watch, recorded, unheard>>,
           upstream' \in [Titles -> Release], today' \in 1..LastDay,
           payload' \in [Titles -> Release], TasksTyped,
           gameLock' \in [Titles -> Monitors \union {NoMonitor}],
           shifts' \in 0..MaxShifts, mishaps' \in [Titles -> 0..MaxMishaps]
    PROVE  Guarded'
  <1>1. (\A v \in Monitors : InHand(monitor'[v])) /\ Exclusive'
    BY NobodyMoves
  <1>2. MonitorTypeOK'
    BY DEF Guarded, MonitorTypeOK, TasksTyped, Jobs
  <1> QED BY <1>1, <1>2 DEF Guarded

\* What the steps below rest on.
MonitorParts ==
    /\ monitor \in [Monitors -> Handlers]
    /\ upstream \in [Titles -> Release] /\ today \in 1..LastDay
    /\ payload \in [Titles -> Release] /\ watch \in [Titles -> Row \union {NoWatch}]
    /\ tasks \in [Titles -> [Kinds -> Jobs \union {NoTask}]]
    /\ gameLock \in [Titles -> Monitors \union {NoMonitor}]
    /\ recorded \subseteq Keys /\ unheard \subseteq Keys
    /\ shifts \in 0..MaxShifts /\ mishaps \in [Titles -> 0..MaxMishaps]
    /\ MaxShifts \in Nat /\ MaxMishaps \in Nat

LEMMA MonitorPartsTyped == Guarded => MonitorParts
  BY MonitorAssumption DEF Guarded, MonitorTypeOK, MonitorParts, Handlers, Steps, Jobs

LEMMA JobEnds ==
    ASSUME MonitorParts, NEW w \in Monitors, JobDone(w) \/ JobFailed(w)
    PROVE  TasksTyped /\ Tell(w, Resting)
  <1>0. tasks \in [Titles -> [Kinds -> Jobs \union {NoTask}]]
    BY DEF MonitorParts
  <1>1. monitor[w].title \in Titles /\ monitor[w].kind \in Kinds
    BY DEF MonitorParts, Handlers
  <1> DEFINE g == monitor[w].title
             k == monitor[w].kind
  <1>2. \/ tasks' = tasks
        \/ tasks' = [tasks EXCEPT ![g][k] = NoTask]
        \/ tasks[g][k] # NoTask /\ tasks' = [tasks EXCEPT ![g][k].owner = NoMonitor]
    <2>1. CASE JobDone(w)
      BY <2>1 DEF JobDone
    <2>2. CASE JobFailed(w)
      BY <2>2 DEF JobFailed
    <2> QED BY <2>1, <2>2
  <1>3. Tell(w, Resting)
    BY DEF JobDone, JobFailed
  <1> HIDE DEF g, k
  <1>4. tasks[g][k] # NoTask => [tasks[g][k] EXCEPT !.owner = NoMonitor] \in Jobs
    BY <1>0, <1>1 DEF Jobs, g, k
  <1>5. ASSUME NEW t \in Jobs \union {NoTask}
        PROVE  [tasks EXCEPT ![g][k] = t] \in [Titles -> [Kinds -> Jobs \union {NoTask}]]
    BY <1>0, <1>1 DEF g, k
  <1>6. [tasks EXCEPT ![g][k].owner = NoMonitor]
          = [tasks EXCEPT ![g][k] = [tasks[g][k] EXCEPT !.owner = NoMonitor]]
    OBVIOUS
  <1> QED BY <1>0, <1>2, <1>3, <1>4, <1>5, <1>6 DEF TasksTyped

LEMMA RestIsQuiet ==
    Resting \in Handlers /\ InHand(Resting) /\ Resting.step # "send" /\ Resting.step # "release"
  BY RestingIsOne DEF InHand

LEMMA MishapTyped ==
    ASSUME MonitorParts, NEW g \in Titles, Mishap(g)
    PROVE  mishaps' \in [Titles -> 0..MaxMishaps]
  BY DEF MonitorParts, Mishap

LEMMA HandlerGuarded ==
    ASSUME Guarded, NEW w \in Monitors, HandlerStep(w)
    PROVE  Guarded'
  <1> DEFINE m == monitor[w]
  <1>0. MonitorParts /\ m \in Handlers /\ InHand(m)
    BY MonitorPartsTyped DEF Guarded, MonitorParts
  <1>1. CASE TakeLock(w)
    <2> DEFINE h == [m EXCEPT !.step = "fetch", !.day = today]
    <2>1. /\ m.step = "lock" /\ Tell(w, h)
          /\ gameLock' = [gameLock EXCEPT ![m.title] = w]
          /\ UNCHANGED <<upstream, today, shifts, payload, watch, tasks, log, delivered,
                         recorded, unheard, mishaps>>
      BY <1>1 DEF TakeLock, world, history
    <2>2. h \in Handlers /\ h.step = "fetch"
      <3>1. today \in 0..LastDay
        BY <1>0, MonitorAssumption DEF MonitorParts
      <3> QED BY <1>0, <3>1 DEF Handlers, Steps
    <2> HIDE DEF h
    <2> QED BY <1>0, <2>1, <2>2, GoesOn DEF MonitorParts, RowsTyped, TasksTyped, InHand
  <1>2. CASE LockHeld(w)
    <2>1. UNCHANGED <<upstream, today, shifts, payload, watch, gameLock, log, delivered,
                     recorded, unheard, mishaps>>
      BY <1>2 DEF LockHeld, world, history
    <2>2. TasksTyped /\ Tell(w, Resting)
      BY <1>0, <1>2, JobEnds DEF LockHeld
    <2> QED BY <1>0, <2>1, <2>2, RestIsQuiet, GoesOn DEF MonitorParts, RowsTyped
  <1>3. CASE Fetch(w)
    <2> DEFINE h == [m EXCEPT !.step = "patch",
                       !.after = IF m.snap.watched THEN upstream[m.title] ELSE m.snap.payload]
    <2>1. Tell(w, h) /\ UNCHANGED <<upstream, today, shifts, payload, watch, tasks, gameLock,
                                  log, delivered, recorded, unheard, mishaps>>
      BY <1>3 DEF Fetch, world, history
    <2>2. upstream[m.title] \in Release /\ m.snap.payload \in Release
      BY <1>0 DEF Handlers, MonitorParts, Snapshots
    <2>3. h \in Handlers /\ h.step = "patch"
      BY <1>0, <2>2 DEF Handlers, Steps
    <2> HIDE DEF h
    <2> QED BY <1>0, <2>1, <2>3, GoesOn DEF MonitorParts, RowsTyped, TasksTyped, InHand
  <1>4. CASE Patch(w)
    <2> DEFINE todo == IF m.snap.watched
                       THEN ReleaseEvents(m.title, Before(m.snap), m.after, m.day) ELSE <<>>
               h == [m EXCEPT !.step = "announce", !.todo = todo]
    <2>1. /\ Tell(w, h)
          /\ payload' = IF m.after # m.snap.payload THEN [payload EXCEPT ![m.title] = m.after]
                        ELSE payload
          /\ UNCHANGED <<upstream, today, shifts, watch, tasks, gameLock, log, delivered,
                         recorded, unheard, mishaps>>
      BY <1>4 DEF Patch, world, history
    <2>2. m.title \in Titles /\ m.after \in Release /\ Before(m.snap) \in Release
      BY <1>0, BeforeIsOne DEF Handlers
    <2>3. todo \in Seq(Keys)
      BY <2>2, EventsAreKeys
    <2> HIDE DEF todo
    <2>4. h \in Handlers /\ h.step = "announce"
      BY <1>0, <2>3 DEF Handlers, Steps
    <2> HIDE DEF h
    <2>5. payload' \in [Titles -> Release]
      BY <1>0, <2>1, <2>2 DEF MonitorParts
    <2> QED BY <1>0, <2>1, <2>4, <2>5, GoesOn DEF MonitorParts, RowsTyped, TasksTyped, InHand
  <1>5. CASE SkipEvent(w)
    <2> DEFINE h == [m EXCEPT !.todo = Tail(m.todo)]
    <2>1. /\ m.step = "announce" /\ m.todo # <<>> /\ Tell(w, h)
          /\ unheard' \in {unheard, unheard \union {Head(m.todo)}}
          /\ UNCHANGED <<upstream, today, shifts, payload, watch, tasks, gameLock, log,
                         delivered, recorded, mishaps>>
      BY <1>5 DEF SkipEvent, world
    <2>2. Head(m.todo) \in Keys /\ Tail(m.todo) \in Seq(Keys)
      BY <1>0, <2>1 DEF Handlers
    <2>3. h \in Handlers /\ h.step = "announce"
      BY <1>0, <2>1, <2>2 DEF Handlers, Steps
    <2>4. unheard' \subseteq Keys
      BY <1>0, <2>1, <2>2 DEF MonitorParts
    <2> HIDE DEF h
    <2> QED BY <1>0, <2>1, <2>3, <2>4, GoesOn DEF MonitorParts, RowsTyped, TasksTyped, InHand
  <1>6. CASE Reserve(w)
    BY <1>6, ReserveGuarded
  <1>7. CASE SendDelivers(w)
    BY <1>0, <1>7, DeliveryGuarded DEF SendDelivers, Event, world, history, MonitorParts
  <1>8. CASE Finalise(w)
    <2> DEFINE e == Head(m.todo)
               h == [m EXCEPT !.step = "announce", !.todo = Tail(m.todo),
                              !.sentDay = m.sentDay \/ e.type = "day"]
    <2>1. /\ m.step = "finalise" /\ m.todo # <<>> /\ Tell(w, h)
          /\ log' = [log EXCEPT !.sent = @ \union ({e} \intersect log.rows)]
          /\ UNCHANGED <<upstream, today, shifts, payload, watch, tasks, gameLock, delivered,
                         recorded, unheard, mishaps>>
      BY <1>0, <1>8 DEF Finalise, world, history, InHand
    <2>2. Tail(m.todo) \in Seq(Keys) /\ (m.sentDay \/ e.type = "day") \in BOOLEAN
      BY <1>0, <2>1 DEF Handlers
    <2>3. h \in Handlers /\ h.step = "announce"
      BY <1>0, <2>2 DEF Handlers, Steps
    <2>4. log' \in [rows : SUBSET Keys, sent : SUBSET Keys] /\ log'.rows = log.rows
      BY <2>1 DEF Guarded, MonitorTypeOK
    <2> HIDE DEF h
    <2>5. /\ monitor' \in [Monitors -> Handlers]
          /\ \A v \in Monitors : InHand(monitor'[v])
          /\ Exclusive'
      BY <2>1, <2>3, <2>4, WorkerGoesOn DEF InHand
    <2>6. MonitorTypeOK'
      BY <2>1, <2>4, <2>5 DEF Guarded, MonitorTypeOK, Handlers, Steps
    <2> QED BY <2>5, <2>6 DEF Guarded
  <1>9. CASE ReleaseReservation(w)
    BY <1>9, ReleaseGuarded
  <1>10. CASE RecordWatch(w)
    <2> DEFINE h == [m EXCEPT !.step = "unlock"]
               row == watch[m.title]
               day == IF m.sentDay /\ m.after # Unknown THEN DayOf[m.after]
                      ELSE IF row = NoWatch THEN 0 ELSE row.day
    <2>1. /\ Tell(w, h)
          /\ watch' = [watch EXCEPT ![m.title] = [marker |-> m.after, day |-> day]]
          /\ recorded' = IF row = NoWatch THEN recorded
                         ELSE recorded \union {e \in Keys : <<e>> = ChangeEvents(m.title, row.marker, m.after)}
          /\ UNCHANGED <<upstream, today, shifts, payload, tasks, gameLock, log, delivered,
                         unheard, mishaps>>
      BY <1>10 DEF RecordWatch, world
    <2>2. m.title \in Titles /\ m.after \in Release /\ row \in Row \union {NoWatch}
      BY <1>0 DEF Handlers, MonitorParts
    <2>3. day \in Nat
      <3>1. m.after # Unknown => DayOf[m.after] \in Nat
        BY <2>2, MonitorAssumption DEF Release
      <3>2. row # NoWatch => row.day \in Nat
        BY <2>2 DEF Row
      <3> QED BY <3>1, <3>2
    <2> HIDE DEF day
    <2>4. RowsTyped
      BY <1>0, <2>1, <2>2, <2>3 DEF MonitorParts, RowsTyped, Row
    <2>5. recorded' \subseteq Keys
      BY <1>0, <2>1 DEF MonitorParts
    <2>6. h \in Handlers /\ h.step = "unlock"
      BY <1>0 DEF Handlers, Steps
    <2> HIDE DEF h, row
    <2> QED BY <1>0, <2>1, <2>4, <2>5, <2>6, GoesOn DEF MonitorParts, TasksTyped, InHand
  <1>11. CASE RecordFailure(w)
    <2> DEFINE h == [m EXCEPT !.step = "unlock"]
    <2>1. /\ Tell(w, h)
          /\ watch' \in {watch, [watch EXCEPT ![m.title] = [marker |-> Before(m.snap), day |-> 0]]}
          /\ UNCHANGED <<upstream, today, shifts, payload, tasks, gameLock, log, delivered,
                         recorded, unheard, mishaps>>
      BY <1>11 DEF RecordFailure, world, history
    <2>2. m.title \in Titles /\ Before(m.snap) \in Release
      BY <1>0, BeforeIsOne DEF Handlers
    <2>3. RowsTyped
      <3>1. [marker |-> Before(m.snap), day |-> 0] \in Row
        BY <2>2 DEF Row
      <3> QED BY <1>0, <2>1, <2>2, <3>1 DEF MonitorParts, RowsTyped
    <2>4. h \in Handlers /\ h.step = "unlock"
      BY <1>0 DEF Handlers, Steps
    <2> HIDE DEF h
    <2> QED BY <1>0, <2>1, <2>3, <2>4, GoesOn DEF MonitorParts, TasksTyped, InHand
  <1>12. CASE Unlock(w)
    <2>1. /\ gameLock' = [gameLock EXCEPT ![m.title] = NoMonitor]
          /\ UNCHANGED <<upstream, today, shifts, payload, watch, log, delivered,
                         recorded, unheard, mishaps>>
      BY <1>12 DEF Unlock, world, history
    <2>2. TasksTyped /\ Tell(w, Resting)
      BY <1>0, <1>12, JobEnds DEF Unlock
    <2>3. gameLock' \in [Titles -> Monitors \union {NoMonitor}]
      BY <1>0, <2>1 DEF MonitorParts
    <2> QED BY <1>0, <2>1, <2>2, <2>3, RestIsQuiet, GoesOn DEF MonitorParts, RowsTyped
  <1>13. CASE UnlockThrows(w)
    <2>1. UNCHANGED <<upstream, today, shifts, payload, watch, gameLock, log, delivered,
                     recorded, unheard, mishaps>>
      BY <1>13 DEF UnlockThrows, world, history
    <2>2. TasksTyped /\ Tell(w, Resting)
      BY <1>0, <1>13, JobEnds DEF UnlockThrows
    <2> QED BY <1>0, <2>1, <2>2, RestIsQuiet, GoesOn DEF MonitorParts, RowsTyped
  <1>14. CASE RecordFailureLost(w)
    <2> DEFINE h == [m EXCEPT !.step = "unlock"]
    <2>1. /\ Tell(w, h)
          /\ UNCHANGED <<upstream, today, shifts, payload, watch, tasks, gameLock, log,
                         delivered, recorded, unheard, mishaps>>
      BY <1>14 DEF RecordFailureLost, world, history
    <2>2. h \in Handlers /\ h.step = "unlock"
      BY <1>0 DEF Handlers, Steps
    <2> HIDE DEF h
    <2> QED BY <1>0, <2>1, <2>2, GoesOn DEF MonitorParts, RowsTyped, TasksTyped, InHand
  <1> HIDE DEF m
  <1> QED BY <1>1, <1>2, <1>3, <1>4, <1>5, <1>6, <1>7, <1>8, <1>9, <1>10, <1>11, <1>12, <1>13,
             <1>14
          DEF HandlerStep

LEMMA FaultGuarded ==
    ASSUME Guarded, NEW w \in Monitors, Fault(w)
    PROVE  Guarded'
  <1> DEFINE m == monitor[w]
  <1>0. MonitorParts /\ m \in Handlers /\ InHand(m)
    BY MonitorPartsTyped DEF Guarded, MonitorParts
  <1>9. Mishap(m.title) => mishaps' \in [Titles -> 0..MaxMishaps]
    BY <1>0, MishapTyped DEF Handlers
  <1>1. CASE FetchEmpty(w)
    <2> DEFINE h == [m EXCEPT !.step = "patch", !.after = m.snap.payload]
    <2>1. /\ Tell(w, h) /\ Mishap(m.title)
          /\ UNCHANGED <<upstream, today, shifts, payload, watch, tasks, gameLock, log,
                         delivered, recorded, unheard>>
      BY <1>1 DEF FetchEmpty, world, history
    <2>2. h \in Handlers /\ h.step = "patch"
      BY <1>0 DEF Handlers, Steps, Snapshots
    <2> HIDE DEF h
    <2> QED BY <1>0, <2>1, <2>2, <1>9, GoesOn DEF MonitorParts, RowsTyped, TasksTyped, InHand
  <1>2. CASE SendReachesNobody(w)
    <2> DEFINE h == [m EXCEPT !.step = "release"]
    <2>1. /\ m.step = "send" /\ Tell(w, h) /\ Mishap(m.title)
          /\ UNCHANGED <<upstream, today, shifts, payload, watch, tasks, gameLock, log,
                         delivered, recorded, unheard>>
      BY <1>2 DEF SendReachesNobody, world, history
    <2>2. h \in Handlers /\ h.step = "release" /\ h.todo = m.todo
      BY <1>0 DEF Handlers, Steps
    <2> HIDE DEF h
    <2> QED BY <1>0, <2>1, <2>2, <1>9, GoesOn DEF MonitorParts, RowsTyped, TasksTyped, InHand
  <1>3. CASE SendThrows(w)
    <2> DEFINE h == [m EXCEPT !.step = "failed"]
    <2>1. /\ m.step = "send" /\ Tell(w, h) /\ Mishap(m.title)
          /\ delivered' = delivered \/ delivered' = Delivered(Event(w))
          /\ UNCHANGED <<upstream, today, shifts, payload, watch, tasks, gameLock, log,
                         recorded, unheard>>
      BY <1>3 DEF SendThrows, world, history, Event
    <2>2. h \in Handlers /\ h.step = "failed"
      BY <1>0 DEF Handlers, Steps
    <2>3. CASE delivered' = Delivered(Event(w))
      BY <1>0, <2>1, <2>3, <1>9, DeliveryGuarded
    <2> HIDE DEF h
    <2>4. CASE delivered' = delivered
      BY <1>0, <2>1, <2>2, <2>4, <1>9, GoesOn DEF MonitorParts, RowsTyped, TasksTyped, InHand
    <2> QED BY <2>1, <2>3, <2>4
  <1>4. CASE Throw(w)
    <2> DEFINE h == [m EXCEPT !.step = "failed"]
    <2>1. /\ Tell(w, h) /\ Mishap(m.title)
          /\ UNCHANGED <<upstream, today, shifts, payload, watch, tasks, gameLock, log,
                         delivered, recorded, unheard>>
      BY <1>4 DEF Throw, world, history
    <2>2. h \in Handlers /\ h.step = "failed"
      BY <1>0 DEF Handlers, Steps
    <2> HIDE DEF h
    <2> QED BY <1>0, <2>1, <2>2, <1>9, GoesOn DEF MonitorParts, RowsTyped, TasksTyped, InHand
  <1>5. CASE Crash(w)
    <2>1. /\ Tell(w, Resting) /\ Mishap(m.title)
          /\ gameLock' = [g \in Titles |-> IF gameLock[g] = w THEN NoMonitor ELSE gameLock[g]]
          /\ UNCHANGED <<upstream, today, shifts, payload, watch, tasks, log, delivered,
                         recorded, unheard>>
      BY <1>5 DEF Crash, world, history
    <2>2. gameLock' \in [Titles -> Monitors \union {NoMonitor}]
      BY <1>0, <2>1 DEF MonitorParts
    <2> QED BY <1>0, <2>1, <2>2, RestIsQuiet, <1>9, GoesOn DEF MonitorParts, RowsTyped, TasksTyped
  <1>6. CASE LockLost(w)
    <2>1. /\ gameLock' = [gameLock EXCEPT ![m.title] = NoMonitor] /\ Mishap(m.title)
          /\ UNCHANGED <<upstream, today, shifts, payload, watch, tasks, monitor, log,
                         delivered, recorded, unheard>>
      BY <1>6 DEF LockLost, world, history
    <2>2. gameLock' \in [Titles -> Monitors \union {NoMonitor}]
      BY <1>0, <2>1 DEF MonitorParts
    <2> QED BY <1>0, <2>1, <2>2, <1>9, StandsBy DEF MonitorParts, TasksTyped
  <1> HIDE DEF m
  <1> QED BY <1>1, <1>2, <1>3, <1>4, <1>5, <1>6 DEF Fault

LEMMA TaskTyped ==
    ASSUME MonitorParts, NEW g \in Titles, NEW k \in Kinds, NEW t \in Jobs \union {NoTask},
           tasks' = [tasks EXCEPT ![g][k] = t]
    PROVE  TasksTyped
  BY DEF MonitorParts, TasksTyped

\* A job changes hands.
LEMMA OwnerTyped ==
    ASSUME MonitorParts, NEW g \in Titles, NEW k \in Kinds, NEW o \in Monitors \union {NoMonitor},
           tasks[g][k] # NoTask, tasks' = [tasks EXCEPT ![g][k].owner = o]
    PROVE  TasksTyped /\ tasks[g][k] \in Jobs
  <1>1. tasks[g][k] \in Jobs
    BY DEF MonitorParts
  <1>2. [tasks[g][k] EXCEPT !.owner = o] \in Jobs
    BY <1>1 DEF Jobs
  <1>3. tasks' = [tasks EXCEPT ![g][k] = [tasks[g][k] EXCEPT !.owner = o]]
    OBVIOUS
  <1> QED BY <1>1, <1>2, <1>3, TaskTyped

LEMMA QueueGuarded ==
    ASSUME Guarded, NEW g \in Titles, QueueStep(g)
    PROVE  Guarded'
  <1>0. MonitorParts
    BY MonitorPartsTyped
  <1>1. ASSUME NEW k \in Kinds, Enqueue(g, k), mishaps' \in [Titles -> 0..MaxMishaps]
        PROVE  Guarded'
    <2>1. [owner |-> NoMonitor, snap |-> Snapshot(g)] \in Jobs
      BY SnapshotIsOne DEF Guarded, Jobs
    <2>2. TasksTyped
      BY <1>0, <1>1, <2>1, TaskTyped DEF Enqueue
    <2> QED BY <1>0, <1>1, <2>2, StandsBy DEF Enqueue, world, history, MonitorParts
  <1>2. ASSUME NEW w \in Monitors, NEW k \in Kinds, NEW reach \in BOOLEAN,
               Claim(w, g, k, reach), mishaps' \in [Titles -> 0..MaxMishaps]
        PROVE  Guarded'
    <2> DEFINE h == Handler("lock", g, k, tasks[g][k].snap, reach)
    <2>1. TasksTyped /\ tasks[g][k] \in Jobs
      BY <1>0, <1>2, OwnerTyped DEF Claim
    <2>2. Tell(w, h) /\ UNCHANGED <<upstream, today, shifts, payload, watch, gameLock, log,
                                  delivered, recorded, unheard>>
      BY <1>2 DEF Claim, world, history
    <2>3. tasks[g][k].snap \in Snapshots /\ 0 \in 0..LastDay /\ <<>> \in Seq(Keys)
      BY <2>1, MonitorAssumption DEF Jobs
    <2>4. h \in Handlers /\ h.step = "lock"
      BY <2>3 DEF Handler, Handlers, Steps, Release
    <2> HIDE DEF h
    <2> QED BY <1>0, <1>2, <2>1, <2>2, <2>4, GoesOn DEF MonitorParts, RowsTyped, InHand
  <1>3. ASSUME NEW k \in Kinds, RequeueOrphan(g, k) \/ RequeueSlow(g, k)
        PROVE  Guarded'
    <2>1. /\ tasks[g][k] # NoTask /\ tasks' = [tasks EXCEPT ![g][k].owner = NoMonitor]
          /\ mishaps' = mishaps \/ Mishap(g)
          /\ UNCHANGED <<upstream, today, shifts, payload, watch, gameLock, monitor, log,
                         delivered, recorded, unheard>>
      BY <1>3 DEF RequeueOrphan, RequeueSlow, world, history
    <2>2. TasksTyped
      BY <1>0, <2>1, OwnerTyped
    <2> QED BY <1>0, <2>1, <2>2, MishapTyped, StandsBy DEF MonitorParts
  <1>4. CASE EnqueueDue(g)
    BY <1>0, <1>1, <1>4 DEF EnqueueDue, Kinds, MonitorParts
  <1>5. CASE EnqueueForced(g)
    <2>1. PICK k \in Forces : Enqueue(g, k) /\ Mishap(g)
      BY <1>5 DEF EnqueueForced
    <2> QED BY <1>0, <1>1, <2>1, MishapTyped DEF Kinds
  <1>6. ASSUME NEW k \in Kinds, NEW w \in Monitors,
               ClaimReaching(w, g, k) \/ ClaimUnheard(w, g, k)
        PROVE  Guarded'
    <2>1. CASE ClaimReaching(w, g, k)
      BY <1>0, <1>2, <2>1 DEF ClaimReaching, MonitorParts
    <2>2. CASE ClaimUnheard(w, g, k)
      BY <1>0, <1>2, <2>2, MishapTyped DEF ClaimUnheard
    <2> QED BY <1>6, <2>1, <2>2
  <1> QED BY <1>3, <1>4, <1>5, <1>6 DEF QueueStep

LEMMA WorldGuarded ==
    ASSUME Guarded, WorldStep
    PROVE  Guarded'
  <1>0. MonitorParts /\ LastDay \in Nat
    BY MonitorPartsTyped, MonitorAssumption
  <1>1. CASE Midnight
    <2>1. today' \in 1..LastDay
      BY <1>0, <1>1 DEF Midnight, MonitorParts
    <2> QED BY <1>0, <1>1, <2>1, StandsBy DEF Midnight, history, MonitorParts, TasksTyped
  <1>2. ASSUME NEW g \in Titles, ClientRefresh(g) PROVE Guarded'
    <2>1. payload' \in [Titles -> Release]
      BY <1>0, <1>2 DEF ClientRefresh, MonitorParts
    <2> QED BY <1>0, <1>2, <2>1, MishapTyped, StandsBy
            DEF ClientRefresh, world, history, MonitorParts, TasksTyped
  <1>3. ASSUME NEW g \in Titles, NEW x \in Release, MoveDate(g, x) PROVE Guarded'
    <2>1. upstream' \in [Titles -> Release] /\ shifts' \in 0..MaxShifts
      BY <1>0, <1>3 DEF MoveDate, MonitorParts
    <2> QED BY <1>0, <1>3, <2>1, StandsBy DEF MoveDate, history, MonitorParts, TasksTyped
  <1> QED BY <1>1, <1>2, <1>3 DEF WorldStep

LEMMA GuardedInit == MonitorInit => Guarded
  <1> SUFFICES ASSUME MonitorInit PROVE Guarded
    OBVIOUS
  <1>1. /\ monitor \in [Monitors -> Handlers]
        /\ \A w \in Monitors : monitor[w] = Resting
    BY RestingIsOne DEF MonitorInit
  <1>2. watch \in [Titles -> Row \union {NoWatch}]
    <2>1. PICK checked \in SUBSET Titles :
            watch = [g \in Titles |-> IF g \in checked THEN [marker |-> payload[g], day |-> 0]
                                     ELSE NoWatch]
      BY DEF MonitorInit
    <2>2. \A g \in Titles : [marker |-> payload[g], day |-> 0] \in Row
      BY DEF MonitorInit, Row
    <2> QED BY <2>1, <2>2
  <1>3. MonitorTypeOK
    BY <1>1, <1>2, MonitorAssumption DEF MonitorInit, MonitorTypeOK, Handlers, Steps
  <1>4. (\A w \in Monitors : InHand(monitor[w])) /\ Exclusive
    BY <1>1, RestIsQuiet DEF MonitorInit, Exclusive, Holding, InHand
  <1> QED BY <1>3, <1>4 DEF Guarded

LEMMA GuardedNext == Guarded /\ [MonitorNext]_monitorVars => Guarded'
  <1> SUFFICES ASSUME Guarded, [MonitorNext]_monitorVars PROVE Guarded'
    OBVIOUS
  <1>1. CASE UNCHANGED monitorVars
    <2>1. MonitorParts
      BY MonitorPartsTyped
    <2> QED BY <1>1, <2>1, StandsBy DEF monitorVars, MonitorParts, TasksTyped
  <1>2. CASE MonitorNext
    BY <1>2, HandlerGuarded, FaultGuarded, WorldGuarded, QueueGuarded DEF MonitorNext
  <1> QED BY <1>1, <1>2

(***************************************************************************)
(* The variables have their type; in particular a handler keeps events of  *)
(* the game it runs, in a sequence that is not exhausted while it sends.   *)
(***************************************************************************)
THEOREM MonitorTypeCorrect == MonitorSpec => []MonitorTypeOK
  <1>1. Guarded => MonitorTypeOK
    BY DEF Guarded
  <1> QED BY <1>1, GuardedInit, GuardedNext, PTL DEF MonitorSpec

(***************************************************************************)
(* Delivery is single-shot (the reservation of the event key in            *)
(* release_notification_log): for any number of games, workers, crashes,   *)
(* lost locks, stale snapshots and requeued jobs, no event is delivered    *)
(* twice.                                                                  *)
(***************************************************************************)
THEOREM DeliveryIsSingleShot == MonitorSpec => []SingleShot
  <1>1. Guarded => SingleShot
    BY DEF Guarded, Exclusive, SingleShot
  <1> QED BY <1>1, GuardedInit, GuardedNext, PTL DEF MonitorSpec

-----------------------------------------------------------------------------
(* What a mishap may still cost: the debt of a game.                       *)

Unit(p) == IF p THEN 1 ELSE 0

\* A key that some handler is sending.
OnItsWay(e) == \E w \in Monitors : monitor[w].step = "send" /\ Event(w) = e

\* The keys of g that are lost, or reserved with nobody left to deliver them.
Bad(g) == {e \in Keys : /\ e.title = g
                        /\ \/ e \in Lost
                           \/ e \in log.rows \ delivered.once /\ ~OnItsWay(e)}

\* The handler that runs the timer's job of g and owns it; every other one is a stray.
Regular(w, g) ==
    tasks[g]["due"] # NoTask /\ tasks[g]["due"].owner = w /\ Runs(w, g, "due")
Stray(w, g) == Active(w) /\ monitor[w].title = g /\ ~Regular(w, g)

Early == {"lock", "fetch", "patch"}
Amid == {"announce", "send", "finalise", "release"}

\* A stray may overwrite the payload, record a change from a row it has not seen, and leave
\* a row behind that the next job takes a wrong date from.
RunDebt(m) ==
    IF m.step \in Early THEN 3
    ELSE IF m.step = "unlock" THEN 0
    ELSE IF m.step = "send" /\ Head(m.todo) \in Lost THEN 1 ELSE 2
Owes(w, g) == IF Stray(w, g) THEN RunDebt(monitor[w]) ELSE 0
Piles(f) == {t \in Monitors \X (1..3) : t[2] <= f[t[1]]}
Piled(g) == Piles([w \in Monitors |-> Owes(w, g)])

\* A forced job will run as a stray, unless it is running and bound to end.
Secure(w, g, k) == Runs(w, g, k) /\ (monitor[w].step = "lock" \/ gameLock[g] = w)
Waits(g, k) ==
    tasks[g][k] # NoTask /\ ~(\E w \in Monitors : tasks[g][k].owner = w /\ Secure(w, g, k))
ForcedDebt(g) == 3 * Cardinality({k \in Forces : Waits(g, k)})

\* The row says there is no date, and the payload has one.
Missing(g) == watch[g] # NoWatch /\ watch[g].marker = Unknown /\ payload[g] # Unknown

\* A job with this snapshot would announce the change from another date than the row's.
Misled(g, snap) ==
    \/ snap.watched # (watch[g] # NoWatch)
    \/ snap.watched /\ snap.marker # watch[g].marker
    \/ snap.watched /\ snap.marker = Unknown /\ snap.payload # Unknown

\* The change the row is about to go through, and whether it is spoken for.
Due(g, after) == {e \in Keys : watch[g] # NoWatch /\ <<e>> = ChangeEvents(g, watch[g].marker, after)}
Told == log.rows \union unheard \union recorded
Agenda(s) == {s[i] : i \in DOMAIN s}
Announced(g, m) == Due(g, m.after) \subseteq Told \union Agenda(m.todo)

\* The timer's job while it waits, while it runs, and while there is none.
RestDebt(g, snap) == Unit(payload[g] # snap.payload) + Unit(Misled(g, snap))
Errand(g, m) ==
    IF m.step \in Early THEN RestDebt(g, m.snap)
    ELSE IF m.step \in Amid
         THEN Unit(payload[g] # m.after) + Unit(Misled(g, m.snap) \/ ~Announced(g, m))
    ELSE IF m.step = "failed" THEN 1 ELSE Unit(Missing(g))
Adrift(w, g) == monitor[w].step # "lock" /\ gameLock[g] # w
DueDebt(g) ==
    LET t == tasks[g]["due"] IN
    IF t = NoTask THEN Unit(Missing(g))
    ELSE IF \E w \in Monitors : Regular(w, g)
         THEN Errand(g, monitor[t.owner]) + 2 * Unit(Adrift(t.owner, g))
         ELSE RestDebt(g, t.snap)

Debt(g) == Cardinality(Bad(g)) + Cardinality(Piled(g)) + ForcedDebt(g) + DueDebt(g)
CountedFor(g) ==
    IsFiniteSet(Bad(g)) /\ IsFiniteSet(Piled(g)) /\ Debt(g) <= 3 * mishaps[g]

\* A handler's events are of its game, the one it finalises is delivered, and the timer's
\* job runs with the snapshot it was queued with.
Kept ==
    /\ \A w \in Monitors : \A e \in Agenda(monitor[w].todo) : e.title = monitor[w].title
    /\ \A w \in Monitors : monitor[w].step = "finalise" => Event(w) \in delivered.once
    /\ \A w \in Monitors, g \in Titles : Regular(w, g) => monitor[w].snap = tasks[g]["due"].snap

-----------------------------------------------------------------------------
(* Adding up. *)

\* One handler's pile changes, the others' do not grow.
LEMMA PileChanges ==
    ASSUME NEW f \in [Monitors -> 0..3], NEW h \in [Monitors -> 0..3], NEW w \in Monitors,
           \A v \in Monitors : v # w => h[v] <= f[v], IsFiniteSet(Piles(f))
    PROVE  /\ IsFiniteSet(Piles(h))
           /\ Cardinality(Piles(h)) <= Cardinality(Piles(f)) - f[w] + h[w]
  <1> DEFINE own == {w} \X (1..f[w])
             new == {w} \X (1..h[w])
             rest == Piles(f) \ own
  <1>1. f[w] \in 0..3 /\ h[w] \in 0..3
    OBVIOUS
  <1>2. ASSUME NEW n \in 0..3
        PROVE  IsFiniteSet({w} \X (1..n)) /\ Cardinality({w} \X (1..n)) = n
    <2>1. IsFiniteSet({w}) /\ Cardinality({w}) = 1
      BY FS_Singleton
    <2>2. IsFiniteSet(1..n) /\ Cardinality(1..n) = IF 1 > n THEN 0 ELSE n - 1 + 1
      BY FS_Interval
    <2>3. IsFiniteSet({w} \X (1..n)) /\ Cardinality({w} \X (1..n)) = Cardinality({w}) * Cardinality(1..n)
      BY <2>1, <2>2, FS_Product
    <2>4. Cardinality(1..n) = n
      BY <2>2
    <2> QED BY <2>1, <2>3, <2>4
  <1>3. Piles(f) \cap own = own
    <2>1. ASSUME NEW t \in own PROVE t \in Piles(f)
      <3>1. PICK n \in 1..f[w] : t = <<w, n>>
        OBVIOUS
      <3> QED BY <1>1, <3>1 DEF Piles
    <2> QED BY <2>1
  <1>4. IsFiniteSet(rest) /\ Cardinality(rest) = Cardinality(Piles(f)) - f[w]
    <2>1. Cardinality(own) = f[w]
      BY <1>1, <1>2
    <2> HIDE DEF own
    <2> QED BY <1>3, <2>1, FS_Difference
  <1>5. Piles(h) \subseteq rest \union new
    <2> SUFFICES ASSUME NEW t \in Piles(h) PROVE t \in rest \union new
      OBVIOUS
    <2>1. t \in Monitors \X (1..3) /\ t[2] <= h[t[1]]
      BY DEF Piles
    <2>2. PICK v \in Monitors, n \in 1..3 : t = <<v, n>>
      BY <2>1
    <2>3. CASE v = w
      BY <1>1, <2>1, <2>2, <2>3
    <2>4. CASE v # w
      <3>1. h[v] \in 0..3 /\ f[v] \in 0..3 /\ h[v] <= f[v] /\ n <= h[v]
        BY <2>1, <2>2, <2>4
      <3>2. n <= f[v]
        BY <3>1
      <3>3. t \in Piles(f)
        BY <2>2, <3>2 DEF Piles
      <3> QED BY <2>2, <2>4, <3>3
    <2> QED BY <2>3, <2>4
  <1>6. IsFiniteSet(new) /\ Cardinality(new) = h[w]
    BY <1>1, <1>2
  <1> HIDE DEF own, new, rest
  <1>7. /\ IsFiniteSet(rest \union new)
        /\ Cardinality(rest \union new) = Cardinality(rest) + Cardinality(new) - Cardinality(rest \cap new)
    BY <1>4, <1>6, FS_Union
  <1>8. Cardinality(rest \cap new) \in Nat
    BY <1>4, FS_Intersection, FS_CardinalityType
  <1>9. IsFiniteSet(Piles(h)) /\ Cardinality(Piles(h)) <= Cardinality(rest \union new)
    BY <1>5, <1>7, FS_Subset
  <1>10. Cardinality(Piles(f)) \in Nat /\ Cardinality(Piles(h)) \in Nat
    BY <1>9, FS_CardinalityType
  <1> QED BY <1>1, <1>4, <1>6, <1>7, <1>8, <1>9, <1>10

LEMMA PilesShrink ==
    ASSUME NEW f \in [Monitors -> 0..3], NEW h \in [Monitors -> 0..3],
           \A v \in Monitors : h[v] <= f[v], IsFiniteSet(Piles(f))
    PROVE  IsFiniteSet(Piles(h)) /\ Cardinality(Piles(h)) <= Cardinality(Piles(f))
  <1>1. Piles(h) \subseteq Piles(f)
    <2> SUFFICES ASSUME NEW v \in Monitors, NEW n \in 1..3, n <= h[v] PROVE n <= f[v]
      BY DEF Piles
    <2>1. h[v] \in 0..3 /\ f[v] \in 0..3 /\ h[v] <= f[v]
      OBVIOUS
    <2> QED BY <2>1
  <1> QED BY <1>1, FS_Subset

DebtTyped ==
    \A g \in Titles : /\ \A w \in Monitors : Owes(w, g) \in 0..3
                      /\ ForcedDebt(g) \in Nat
                      /\ DueDebt(g) \in 0..4

LEMMA DebtTypes == DebtTyped
  <1> SUFFICES ASSUME NEW g \in Titles
               PROVE  /\ \A w \in Monitors : Owes(w, g) \in 0..3
                      /\ ForcedDebt(g) \in Nat
                      /\ DueDebt(g) \in 0..4
    BY DEF DebtTyped
  <1>1. \A m : RunDebt(m) \in 0..3
    BY DEF RunDebt
  <1>2. \A p : Unit(p) \in 0..1
    BY DEF Unit
  <1>3. \A snap : RestDebt(g, snap) \in 0..2
    BY <1>2 DEF RestDebt
  <1>4. \A m : Errand(g, m) \in 0..2
    BY <1>2, <1>3 DEF Errand
  <1>5. DueDebt(g) \in 0..4
    BY <1>2, <1>3, <1>4 DEF DueDebt
  <1>6. ForcedDebt(g) \in Nat
    <2>1. IsFiniteSet({k \in Forces : Waits(g, k)})
      BY MonitorAssumption, FS_Subset
    <2>2. Cardinality({k \in Forces : Waits(g, k)}) \in Nat
      BY <2>1, FS_CardinalityType
    <2> QED BY <2>2 DEF ForcedDebt
  <1> QED BY <1>1, <1>5, <1>6 DEF Owes

\* A step of w changes what is bad by x at most: the debt is paid for if the sum is.
LEMMA DebtSettles ==
    ASSUME NEW g \in Titles, CountedFor(g), mishaps[g] \in Nat, mishaps'[g] \in Nat,
           NEW w \in Monitors,
           \A v \in Monitors : v # w => Owes(v, g)' <= Owes(v, g),
           NEW x \in Int, IsFiniteSet(Bad(g)'), Cardinality(Bad(g)') <= Cardinality(Bad(g)) + x,
           x + Owes(w, g)' + ForcedDebt(g)' + DueDebt(g)'
             <= Owes(w, g) + ForcedDebt(g) + DueDebt(g) + 3 * (mishaps'[g] - mishaps[g])
    PROVE  CountedFor(g)'
  <1> DEFINE f == [v \in Monitors |-> Owes(v, g)]
             h == [v \in Monitors |-> Owes(v, g)']
  <1>0. DebtTyped'
    BY DebtTypes, PTL
  <1>1. /\ \A v \in Monitors : Owes(v, g) \in 0..3
        /\ ForcedDebt(g) \in Nat /\ DueDebt(g) \in 0..4
    BY DebtTypes DEF DebtTyped
  <1>2. /\ \A v \in Monitors : Owes(v, g)' \in 0..3
        /\ ForcedDebt(g)' \in Nat /\ DueDebt(g)' \in 0..4
    BY <1>0 DEF DebtTyped
  <1>3. f \in [Monitors -> 0..3] /\ h \in [Monitors -> 0..3]
    BY <1>1, <1>2
  <1>4. \A v \in Monitors : v # w => h[v] <= f[v]
    OBVIOUS
  <1>5. f[w] = Owes(w, g) /\ h[w] = Owes(w, g)'
    OBVIOUS
  <1>6. IsFiniteSet(Piles(f)) /\ Piled(g) = Piles(f) /\ Piled(g)' = Piles(h)
    BY DEF CountedFor, Piled, Piles
  <1> HIDE DEF f, h
  <1>7. /\ IsFiniteSet(Piled(g)')
        /\ Cardinality(Piled(g)') <= Cardinality(Piled(g)) - Owes(w, g) + Owes(w, g)'
    BY <1>3, <1>4, <1>5, <1>6, PileChanges
  <1>8. /\ Cardinality(Piled(g)) \in Nat /\ Cardinality(Piled(g)') \in Nat
        /\ Cardinality(Bad(g)) \in Nat /\ Cardinality(Bad(g)') \in Nat
    BY <1>7, FS_CardinalityType DEF CountedFor
  <1>9. Owes(w, g) \in 0..3 /\ Owes(w, g)' \in 0..3
    BY <1>1, <1>2
  <1>10. Debt(g)' <= 3 * mishaps'[g]
    BY <1>1, <1>2, <1>7, <1>8, <1>9 DEF CountedFor, Debt
  <1> QED BY <1>7, <1>10 DEF CountedFor

\* What is bad does not grow, grows by one key, or loses one.
LEMMA SettlesEven ==
    ASSUME NEW g \in Titles, CountedFor(g), mishaps[g] \in Nat, mishaps'[g] \in Nat,
           NEW w \in Monitors,
           \A v \in Monitors : v # w => Owes(v, g)' <= Owes(v, g),
           Bad(g)' \subseteq Bad(g),
           Owes(w, g)' + ForcedDebt(g)' + DueDebt(g)'
             <= Owes(w, g) + ForcedDebt(g) + DueDebt(g) + 3 * (mishaps'[g] - mishaps[g])
    PROVE  CountedFor(g)'
  <1>1. IsFiniteSet(Bad(g)') /\ Cardinality(Bad(g)') <= Cardinality(Bad(g)) + 0
    BY FS_Subset, FS_CardinalityType DEF CountedFor
  <1>2. DebtTyped' /\ DebtTyped
    BY DebtTypes, PTL
  <1>3. 0 + Owes(w, g)' + ForcedDebt(g)' + DueDebt(g)'
          <= Owes(w, g) + ForcedDebt(g) + DueDebt(g) + 3 * (mishaps'[g] - mishaps[g])
    BY <1>2 DEF DebtTyped
  <1> QED BY <1>1, <1>3, DebtSettles

LEMMA SettlesMore ==
    ASSUME NEW g \in Titles, CountedFor(g), mishaps[g] \in Nat, mishaps'[g] \in Nat,
           NEW w \in Monitors,
           \A v \in Monitors : v # w => Owes(v, g)' <= Owes(v, g),
           NEW e, Bad(g)' \subseteq Bad(g) \union {e},
           1 + Owes(w, g)' + ForcedDebt(g)' + DueDebt(g)'
             <= Owes(w, g) + ForcedDebt(g) + DueDebt(g) + 3 * (mishaps'[g] - mishaps[g])
    PROVE  CountedFor(g)'
  <1>1. /\ IsFiniteSet(Bad(g) \union {e}) /\ Cardinality(Bad(g)) \in Nat
        /\ Cardinality(Bad(g) \union {e}) <= Cardinality(Bad(g)) + 1
    <2>1. /\ IsFiniteSet(Bad(g) \union {e})
          /\ Cardinality(Bad(g) \union {e})
               = IF e \in Bad(g) THEN Cardinality(Bad(g)) ELSE Cardinality(Bad(g)) + 1
      BY FS_AddElement DEF CountedFor
    <2>2. Cardinality(Bad(g)) \in Nat
      BY FS_CardinalityType DEF CountedFor
    <2> QED BY <2>1, <2>2
  <1>2. IsFiniteSet(Bad(g)') /\ Cardinality(Bad(g)') <= Cardinality(Bad(g) \union {e})
    BY <1>1, FS_Subset
  <1>3. Cardinality(Bad(g)') \in Nat /\ Cardinality(Bad(g) \union {e}) \in Nat
    BY <1>1, <1>2, FS_CardinalityType
  <1>4. Cardinality(Bad(g)') <= Cardinality(Bad(g)) + 1
    BY <1>1, <1>2, <1>3
  <1> QED BY <1>2, <1>4, DebtSettles

\* Nobody's pile grows.
LEMMA SettlesAlone ==
    ASSUME NEW g \in Titles, CountedFor(g), mishaps[g] \in Nat, mishaps'[g] \in Nat,
           \A v \in Monitors : Owes(v, g)' <= Owes(v, g),
           Bad(g)' \subseteq Bad(g),
           ForcedDebt(g)' + DueDebt(g)'
             <= ForcedDebt(g) + DueDebt(g) + 3 * (mishaps'[g] - mishaps[g])
    PROVE  CountedFor(g)'
  <1> DEFINE f == [v \in Monitors |-> Owes(v, g)]
             h == [v \in Monitors |-> Owes(v, g)']
  <1>1. DebtTyped /\ DebtTyped'
    BY DebtTypes, PTL
  <1>2. f \in [Monitors -> 0..3] /\ h \in [Monitors -> 0..3]
    BY <1>1 DEF DebtTyped
  <1>3. \A v \in Monitors : h[v] <= f[v]
    OBVIOUS
  <1>4. IsFiniteSet(Piles(f)) /\ Piled(g) = Piles(f) /\ Piled(g)' = Piles(h)
    BY DEF CountedFor, Piled, Piles
  <1> HIDE DEF f, h
  <1>5. IsFiniteSet(Piled(g)') /\ Cardinality(Piled(g)') <= Cardinality(Piled(g))
    BY <1>2, <1>3, <1>4, PilesShrink
  <1>6. IsFiniteSet(Bad(g)') /\ Cardinality(Bad(g)') <= Cardinality(Bad(g))
    BY FS_Subset DEF CountedFor
  <1>7. /\ Cardinality(Piled(g)) \in Nat /\ Cardinality(Piled(g)') \in Nat
        /\ Cardinality(Bad(g)) \in Nat /\ Cardinality(Bad(g)') \in Nat
    BY <1>5, <1>6, FS_CardinalityType DEF CountedFor
  <1>8. /\ ForcedDebt(g) \in Nat /\ DueDebt(g) \in 0..4
        /\ ForcedDebt(g)' \in Nat /\ DueDebt(g)' \in 0..4
    BY <1>1 DEF DebtTyped
  <1>9. Debt(g)' <= 3 * mishaps'[g]
    BY <1>5, <1>6, <1>7, <1>8 DEF CountedFor, Debt
  <1> QED BY <1>5, <1>6, <1>9 DEF CountedFor

-----------------------------------------------------------------------------
(* What handlers still have to say. *)

LEMMA NextEvent ==
    ASSUME NEW s \in Seq(Keys), s # <<>>
    PROVE  /\ Head(s) \in Keys /\ Tail(s) \in Seq(Keys)
           /\ Head(s) \in Agenda(s)
           /\ Agenda(s) = {Head(s)} \union Agenda(Tail(s))
  <1>1. Len(s) \in Nat \ {0} /\ DOMAIN s = 1..Len(s)
    BY LenProperties, EmptySeq
  <1>2. /\ Head(s) = s[1] /\ Head(s) \in Keys /\ Tail(s) \in Seq(Keys)
        /\ Len(Tail(s)) = Len(s) - 1 /\ \A i \in 1..Len(Tail(s)) : Tail(s)[i] = s[i + 1]
    BY HeadTailProperties
  <1>3. DOMAIN Tail(s) = 1..(Len(s) - 1)
    BY <1>2, LenProperties
  <1>4. \A i \in DOMAIN Tail(s) : i + 1 \in DOMAIN s /\ Tail(s)[i] = s[i + 1]
    BY <1>1, <1>2, <1>3
  <1>5. \A j \in DOMAIN s : j = 1 \/ (j - 1 \in DOMAIN Tail(s) /\ Tail(s)[j - 1] = s[j])
    BY <1>1, <1>2, <1>3
  <1>6. 1 \in DOMAIN s /\ s[1] = Head(s)
    BY <1>1, <1>2
  <1>7. \A e : e \in Agenda(s) <=> \E i \in DOMAIN s : s[i] = e
    BY DEF Agenda
  <1>8. \A e : e \in Agenda(Tail(s)) <=> \E i \in DOMAIN Tail(s) : Tail(s)[i] = e
    BY DEF Agenda
  <1>9. \A e : e \in Agenda(Tail(s)) => e \in Agenda(s)
    BY <1>4, <1>7, <1>8
  <1>10. \A e : e \in Agenda(s) => e = Head(s) \/ e \in Agenda(Tail(s))
    BY <1>5, <1>6, <1>7, <1>8
  <1>11. Head(s) \in Agenda(s)
    BY <1>6, <1>7
  <1> QED BY <1>2, <1>9, <1>10, <1>11

LEMMA NothingToSay == Agenda(<<>>) = {}
  BY DEF Agenda

\* The events of a check are its game's, and the change is among them.
LEMMA ChangeIsAnnounced ==
    ASSUME NEW g \in Titles, NEW from \in Release, NEW to \in Release, NEW day
    PROVE  /\ \A e \in Agenda(ReleaseEvents(g, from, to, day)) : e.title = g
           /\ \A e : <<e>> = ChangeEvents(g, from, to) => e \in Agenda(ReleaseEvents(g, from, to, day))
  <1> DEFINE a == ChangeEvents(g, from, to)
             b == DayEvents(g, to, day)
             s == ReleaseEvents(g, from, to, day)
  <1>1. /\ Key("set", g, Unknown, to) \in Keys /\ Key("removed", g, from, Unknown) \in Keys
        /\ Key("changed", g, from, to) \in Keys /\ Key("day", g, Unknown, to) \in Keys
    BY DEF Key, Keys, Release
  <1>2. a \in Seq(Keys) /\ b \in Seq(Keys)
    BY <1>1 DEF ChangeEvents, DayEvents
  <1>3. /\ a = <<>> \/ \E e : a = <<e>> /\ e.title = g
        /\ b = <<>> \/ \E e : b = <<e>> /\ e.title = g
    BY DEF ChangeEvents, DayEvents, Key
  <1>4. s = a \o b
    BY DEF ReleaseEvents
  <1> HIDE DEF a, b, s
  <1>5. /\ s \in Seq(Keys) /\ Len(s) = Len(a) + Len(b) /\ DOMAIN s = 1..Len(s)
        /\ \A i \in 1..Len(s) : s[i] = IF i <= Len(a) THEN a[i] ELSE b[i - Len(a)]
    BY <1>2, <1>4, ConcatProperties, LenProperties
  <1>6. /\ Len(a) \in Nat /\ Len(b) \in Nat
        /\ \A i \in 1..Len(a) : a[i].title = g
        /\ \A i \in 1..Len(b) : b[i].title = g
    BY <1>2, <1>3
  <1>7. ASSUME NEW i \in 1..Len(s) PROVE s[i].title = g
    <2>1. CASE i <= Len(a)
      BY <1>5, <1>6, <2>1
    <2>2. CASE ~(i <= Len(a))
      <3>1. i - Len(a) \in 1..Len(b)
        BY <1>5, <1>6, <2>2
      <3> QED BY <1>5, <1>6, <2>2, <3>1
    <2> QED BY <2>1, <2>2
  <1>8. ASSUME NEW e, <<e>> = a PROVE \E i \in DOMAIN s : s[i] = e
    <2>1. Len(a) = 1 /\ a[1] = e
      BY <1>8
    <2>2. 1 \in DOMAIN s /\ s[1] = e
      BY <1>5, <1>6, <2>1
    <2> QED BY <2>2
  <1> QED BY <1>5, <1>7, <1>8 DEF a, s, Agenda

-----------------------------------------------------------------------------
(* What is kept. *)

\* A handler goes on with events of its game, or ends; no other takes a job over.
LEMMA KeepsGoing ==
    ASSUME MonitorParts, Kept, NEW w \in Monitors, NEW h \in Handlers, Tell(w, h),
           \A e \in Agenda(h.todo) : e.title = h.title,
           h.step = "finalise" => Head(h.todo) \in delivered'.once,
           delivered.once \subseteq delivered'.once,
           \A g \in Titles : Regular(w, g)' => h.snap = tasks'[g]["due"].snap,
           \A v \in Monitors, g \in Titles :
              v # w /\ Regular(v, g)' => Regular(v, g) /\ tasks'[g]["due"].snap = tasks[g]["due"].snap
    PROVE  Kept'
  <1>1. monitor'[w] = h /\ \A v \in Monitors : v # w => monitor'[v] = monitor[v]
    BY DEF MonitorParts, Tell
  <1>2. \A v \in Monitors : \A e \in Agenda(monitor'[v].todo) : e.title = monitor'[v].title
    BY <1>1 DEF Kept
  <1>3. \A v \in Monitors : monitor'[v].step = "finalise" => Event(v)' \in delivered'.once
    BY <1>1 DEF Kept, Event
  <1>4. \A v \in Monitors, g \in Titles : Regular(v, g)' => monitor'[v].snap = tasks'[g]["due"].snap
    BY <1>1 DEF Kept
  <1> QED BY <1>2, <1>3, <1>4 DEF Kept

\* The same while it keeps its game, its job and its snapshot.
LEMMA KeepsOn ==
    ASSUME MonitorParts, Kept, NEW w \in Monitors, NEW h \in Handlers, Tell(w, h), tasks' = tasks,
           Active(w), h.title = monitor[w].title, h.kind = monitor[w].kind,
           h.snap = monitor[w].snap,
           \A e \in Agenda(h.todo) : e.title = h.title,
           h.step = "finalise" => Head(h.todo) \in delivered'.once,
           delivered.once \subseteq delivered'.once
    PROVE  Kept'
  <1>1. monitor'[w] = h /\ \A v \in Monitors : v # w => monitor'[v] = monitor[v]
    BY DEF MonitorParts, Tell
  <1>2. ASSUME NEW g \in Titles, Regular(w, g)' PROVE h.snap = tasks'[g]["due"].snap
    <2>1. Regular(w, g)
      BY <1>1, <1>2 DEF Regular, Runs, Active
    <2> QED BY <2>1 DEF Kept
  <1>3. ASSUME NEW v \in Monitors, NEW g \in Titles, v # w, Regular(v, g)'
        PROVE  Regular(v, g) /\ tasks'[g]["due"].snap = tasks[g]["due"].snap
    BY <1>1, <1>3 DEF Regular, Runs, Active
  <1> QED BY <1>2, <1>3, KeepsGoing

\* The end of a run frees its job at most.
LEMMA KeepsAtEnd ==
    ASSUME MonitorParts, Kept, NEW w \in Monitors, JobDone(w) \/ JobFailed(w), delivered' = delivered
    PROVE  Kept'
  <1>1. Tell(w, Resting) /\ Resting \in Handlers /\ Resting.step = "idle" /\ Resting.todo = <<>>
    BY RestingIsOne DEF JobDone, JobFailed, Resting, Handler
  <1>2. monitor'[w] = Resting /\ \A v \in Monitors : v # w => monitor'[v] = monitor[v]
    BY <1>1 DEF MonitorParts, Tell
  <1>3. \A g \in Titles : ~Regular(w, g)'
    BY <1>1, <1>2 DEF Regular, Runs, Active
  <1>4. ASSUME NEW v \in Monitors, NEW g \in Titles, v # w, Regular(v, g)'
        PROVE  Regular(v, g) /\ tasks'[g]["due"].snap = tasks[g]["due"].snap
    <2> DEFINE x == monitor[w].title
               k == monitor[w].kind
    <2>1. x \in Titles /\ k \in Kinds /\ "due" \in Kinds /\ tasks \in [Titles -> [Kinds -> Jobs \union {NoTask}]]
      BY DEF MonitorParts, Handlers, Kinds
    <2>2. \/ tasks' = tasks
          \/ tasks[x][k] # NoTask /\ tasks[x][k].owner = w /\ tasks' = [tasks EXCEPT ![x][k] = NoTask]
          \/ tasks[x][k] # NoTask /\ tasks[x][k].owner = w /\ tasks' = [tasks EXCEPT ![x][k].owner = NoMonitor]
      BY DEF JobDone, JobFailed
    <2> HIDE DEF x, k
    <2>3. tasks'[g]["due"] # NoTask /\ tasks'[g]["due"].owner = v /\ Runs(v, g, "due")
      BY <1>2, <1>4 DEF Regular, Runs, Active
    <2>4. v # NoMonitor
      BY MonitorAssumption
    <2>5. tasks'[g]["due"] = tasks[g]["due"]
      <3>1. CASE g = x /\ k = "due"
        <4>1. tasks[x][k] # NoTask /\ tasks[x][k] \in Jobs
          BY <2>1, <2>2, <2>3, <3>1
        <4>2. tasks' = [tasks EXCEPT ![x][k].owner = NoMonitor] => tasks'[g]["due"].owner = NoMonitor
          BY <2>1, <3>1, <4>1 DEF Jobs
        <4>3. tasks' = [tasks EXCEPT ![x][k] = NoTask] => tasks'[g]["due"] = NoTask
          BY <2>1, <3>1
        <4> QED BY <2>2, <2>3, <2>4, <4>2, <4>3
      <3>2. CASE ~(g = x /\ k = "due")
        BY <2>1, <2>2, <3>2
      <3> QED BY <3>1, <3>2
    <2> QED BY <2>3, <2>5 DEF Regular
  <1> QED BY <1>1, <1>3, <1>4, NothingToSay, KeepsGoing

\* Nobody goes on: a job is new, or loses its owner.
LEMMA KeepsStill ==
    ASSUME Kept, UNCHANGED <<monitor, delivered>>,
           \A v \in Monitors, g \in Titles :
              Regular(v, g)' => Regular(v, g) /\ tasks'[g]["due"].snap = tasks[g]["due"].snap
    PROVE  Kept'
  BY DEF Kept, Event

LEMMA KeptHandler ==
    ASSUME Guarded, Kept, NEW w \in Monitors, HandlerStep(w)
    PROVE  Kept'
  <1> DEFINE m == monitor[w]
  <1>0. /\ MonitorParts /\ m \in Handlers /\ InHand(m) /\ (m.step # "idle" => Active(w))
        /\ \A e \in Agenda(m.todo) : e.title = m.title
    BY MonitorPartsTyped DEF Guarded, MonitorParts, Active, Kept
  <1>1. CASE TakeLock(w)
    <2> DEFINE h == [m EXCEPT !.step = "fetch", !.day = today]
    <2>1. m.step = "lock" /\ Tell(w, h) /\ tasks' = tasks /\ delivered' = delivered
      BY <1>1 DEF TakeLock
    <2>2. /\ h \in Handlers /\ h.step = "fetch" /\ h.title = m.title /\ h.kind = m.kind
          /\ h.snap = m.snap /\ h.todo = m.todo
      <3>1. today \in 0..LastDay
        BY <1>0, MonitorAssumption DEF MonitorParts
      <3> QED BY <1>0, <3>1 DEF Handlers, Steps
    <2> HIDE DEF h
    <2> QED BY <1>0, <2>1, <2>2, KeepsOn
  <1>2. CASE LockHeld(w)
    BY <1>0, <1>2, KeepsAtEnd DEF LockHeld
  <1>3. CASE Fetch(w)
    <2> DEFINE h == [m EXCEPT !.step = "patch",
                       !.after = IF m.snap.watched THEN upstream[m.title] ELSE m.snap.payload]
    <2>1. m.step = "fetch" /\ Tell(w, h) /\ tasks' = tasks /\ delivered' = delivered
      BY <1>3 DEF Fetch
    <2>2. upstream[m.title] \in Release /\ m.snap.payload \in Release
      BY <1>0 DEF Handlers, MonitorParts, Snapshots
    <2>3. /\ h \in Handlers /\ h.step = "patch" /\ h.title = m.title /\ h.kind = m.kind
          /\ h.snap = m.snap /\ h.todo = m.todo
      BY <1>0, <2>2 DEF Handlers, Steps
    <2> HIDE DEF h
    <2> QED BY <1>0, <2>1, <2>3, KeepsOn
  <1>4. CASE Patch(w)
    <2> DEFINE todo == IF m.snap.watched
                       THEN ReleaseEvents(m.title, Before(m.snap), m.after, m.day) ELSE <<>>
               h == [m EXCEPT !.step = "announce", !.todo = todo]
    <2>1. m.step = "patch" /\ Tell(w, h) /\ tasks' = tasks /\ delivered' = delivered
      BY <1>4 DEF Patch
    <2>2. m.title \in Titles /\ m.after \in Release /\ Before(m.snap) \in Release
      BY <1>0, BeforeIsOne DEF Handlers
    <2>3. todo \in Seq(Keys) /\ \A e \in Agenda(todo) : e.title = m.title
      BY <2>2, EventsAreKeys, ChangeIsAnnounced, NothingToSay
    <2> HIDE DEF todo
    <2>4. /\ h \in Handlers /\ h.step = "announce" /\ h.title = m.title /\ h.kind = m.kind
          /\ h.snap = m.snap /\ h.todo = todo
      BY <1>0, <2>3 DEF Handlers, Steps
    <2> HIDE DEF h
    <2> QED BY <1>0, <2>1, <2>3, <2>4, KeepsOn
  <1>5. ASSUME NEW h \in Handlers, Tell(w, h), m.step \in {"announce", "finalise", "release"}, m.todo # <<>>,
               h.step = "announce", h.title = m.title, h.kind = m.kind, h.snap = m.snap,
               h.todo = Tail(m.todo), tasks' = tasks, delivered' = delivered
        PROVE  Kept'
    <2>1. m.todo \in Seq(Keys)
      BY <1>0 DEF Handlers
    <2>2. Agenda(h.todo) \subseteq Agenda(m.todo)
      BY <1>5, <2>1, NextEvent
    <2> QED BY <1>0, <1>5, <2>2, KeepsOn
  <1>6. CASE SkipEvent(w)
    <2> DEFINE h == [m EXCEPT !.todo = Tail(m.todo)]
    <2>1. m.step = "announce" /\ m.todo # <<>> /\ Tell(w, h) /\ tasks' = tasks /\ delivered' = delivered
      BY <1>6 DEF SkipEvent
    <2>2. m.todo \in Seq(Keys)
      BY <1>0 DEF Handlers
    <2>3. Tail(m.todo) \in Seq(Keys)
      BY <2>1, <2>2, NextEvent
    <2>4. /\ h \in Handlers /\ h.step = m.step /\ h.title = m.title /\ h.kind = m.kind
          /\ h.snap = m.snap /\ h.todo = Tail(m.todo)
      BY <1>0, <2>3 DEF Handlers, Steps
    <2> HIDE DEF h
    <2> QED BY <1>5, <2>1, <2>4
  <1>7. CASE Reserve(w)
    <2> DEFINE h == [m EXCEPT !.step = "send"]
    <2>1. m.step = "announce" /\ Tell(w, h) /\ tasks' = tasks /\ delivered' = delivered
      BY <1>7 DEF Reserve
    <2>2. /\ h \in Handlers /\ h.step = "send" /\ h.title = m.title /\ h.kind = m.kind
          /\ h.snap = m.snap /\ h.todo = m.todo
      BY <1>0 DEF Handlers, Steps
    <2> HIDE DEF h
    <2> QED BY <1>0, <2>1, <2>2, KeepsOn
  <1>8. CASE SendDelivers(w)
    <2> DEFINE h == [m EXCEPT !.step = "finalise"]
    <2>1. m.step = "send" /\ Tell(w, h) /\ tasks' = tasks /\ delivered' = Delivered(Head(m.todo))
      BY <1>8 DEF SendDelivers
    <2>2. /\ h \in Handlers /\ h.step = "finalise" /\ h.title = m.title /\ h.kind = m.kind
          /\ h.snap = m.snap /\ h.todo = m.todo
      BY <1>0 DEF Handlers, Steps
    <2>3. delivered'.once = delivered.once \union {Head(m.todo)}
      BY <2>1 DEF Delivered
    <2> HIDE DEF h
    <2> QED BY <1>0, <2>1, <2>2, <2>3, KeepsOn
  <1>9. CASE Finalise(w)
    <2> DEFINE h == [m EXCEPT !.step = "announce", !.todo = Tail(m.todo),
                              !.sentDay = m.sentDay \/ Head(m.todo).type = "day"]
    <2>1. /\ m.step = "finalise" /\ m.todo # <<>> /\ Tell(w, h)
          /\ tasks' = tasks /\ delivered' = delivered
      BY <1>0, <1>9 DEF Finalise, InHand
    <2>2. m.todo \in Seq(Keys)
      BY <1>0 DEF Handlers
    <2>3. Tail(m.todo) \in Seq(Keys) /\ (m.sentDay \/ Head(m.todo).type = "day") \in BOOLEAN
      BY <1>0, <2>1, <2>2, NextEvent DEF Handlers
    <2>4. /\ h \in Handlers /\ h.step = "announce" /\ h.title = m.title /\ h.kind = m.kind
          /\ h.snap = m.snap /\ h.todo = Tail(m.todo)
      BY <1>0, <2>3 DEF Handlers, Steps
    <2> HIDE DEF h
    <2> QED BY <1>5, <2>1, <2>4
  <1>10. CASE ReleaseReservation(w)
    <2> DEFINE h == [m EXCEPT !.step = "announce", !.todo = Tail(m.todo)]
    <2>1. /\ m.step = "release" /\ m.todo # <<>> /\ Tell(w, h)
          /\ tasks' = tasks /\ delivered' = delivered
      BY <1>0, <1>10 DEF ReleaseReservation, InHand
    <2>2. m.todo \in Seq(Keys)
      BY <1>0 DEF Handlers
    <2>3. Tail(m.todo) \in Seq(Keys)
      BY <2>1, <2>2, NextEvent
    <2>4. /\ h \in Handlers /\ h.step = "announce" /\ h.title = m.title /\ h.kind = m.kind
          /\ h.snap = m.snap /\ h.todo = Tail(m.todo)
      BY <1>0, <2>3 DEF Handlers, Steps
    <2> HIDE DEF h
    <2> QED BY <1>5, <2>1, <2>4
  <1>11. CASE RecordWatch(w) \/ RecordFailure(w) \/ RecordFailureLost(w)
    <2> DEFINE h == [m EXCEPT !.step = "unlock"]
    <2>1. m.step \in {"announce", "failed"} /\ Tell(w, h) /\ tasks' = tasks /\ delivered' = delivered
      BY <1>11 DEF RecordWatch, RecordFailure, RecordFailureLost
    <2>2. /\ h \in Handlers /\ h.step = "unlock" /\ h.title = m.title /\ h.kind = m.kind
          /\ h.snap = m.snap /\ h.todo = m.todo
      BY <1>0 DEF Handlers, Steps
    <2> HIDE DEF h
    <2> QED BY <1>0, <2>1, <2>2, KeepsOn
  <1>12. CASE Unlock(w)
    BY <1>0, <1>12, KeepsAtEnd DEF Unlock
  <1>13. CASE UnlockThrows(w)
    BY <1>0, <1>13, KeepsAtEnd DEF UnlockThrows
  <1> HIDE DEF m
  <1> QED BY <1>1, <1>2, <1>3, <1>4, <1>6, <1>7, <1>8, <1>9, <1>10, <1>11, <1>12, <1>13
          DEF HandlerStep

LEMMA KeptFault ==
    ASSUME Guarded, Kept, NEW w \in Monitors, Fault(w)
    PROVE  Kept'
  <1> DEFINE m == monitor[w]
  <1>0. /\ MonitorParts /\ m \in Handlers /\ (m.step # "idle" => Active(w))
        /\ \A e \in Agenda(m.todo) : e.title = m.title
    BY MonitorPartsTyped DEF Guarded, MonitorParts, Active, Kept
  <1>1. CASE FetchEmpty(w)
    <2> DEFINE h == [m EXCEPT !.step = "patch", !.after = m.snap.payload]
    <2>1. m.step = "fetch" /\ Tell(w, h) /\ tasks' = tasks /\ delivered' = delivered
      BY <1>1 DEF FetchEmpty
    <2>2. /\ h \in Handlers /\ h.step = "patch" /\ h.title = m.title /\ h.kind = m.kind
          /\ h.snap = m.snap /\ h.todo = m.todo
      BY <1>0 DEF Handlers, Steps, Snapshots
    <2> HIDE DEF h
    <2> QED BY <1>0, <2>1, <2>2, KeepsOn
  <1>2. ASSUME NEW step \in {"release", "failed"}, Tell(w, [m EXCEPT !.step = step]),
               m.step # "idle", tasks' = tasks, delivered.once \subseteq delivered'.once
        PROVE  Kept'
    <2> DEFINE h == [m EXCEPT !.step = step]
    <2>1. /\ h \in Handlers /\ h.step = step /\ h.title = m.title /\ h.kind = m.kind
          /\ h.snap = m.snap /\ h.todo = m.todo
      BY <1>0 DEF Handlers, Steps
    <2>2. Tell(w, h)
      BY <1>2
    <2> HIDE DEF h
    <2> QED BY <1>0, <1>2, <2>1, <2>2, KeepsOn
  <1>3. CASE SendReachesNobody(w)
    BY <1>2, <1>3 DEF SendReachesNobody
  <1>4. CASE SendThrows(w)
    BY <1>2, <1>4 DEF SendThrows, Delivered
  <1>5. CASE Throw(w)
    BY <1>2, <1>5 DEF Throw
  <1>6. CASE Crash(w)
    <2>1. /\ Tell(w, Resting) /\ tasks' = tasks /\ delivered' = delivered
          /\ Resting \in Handlers /\ Resting.step = "idle" /\ Resting.todo = <<>>
      BY <1>6, RestingIsOne DEF Crash, Resting, Handler
    <2>2. monitor'[w] = Resting /\ \A v \in Monitors : v # w => monitor'[v] = monitor[v]
      BY <1>0, <2>1 DEF MonitorParts, Tell
    <2>3. \A g \in Titles : ~Regular(w, g)'
      BY <2>1, <2>2 DEF Regular, Runs, Active
    <2>4. \A v \in Monitors, g \in Titles : v # w /\ Regular(v, g)' => Regular(v, g)
      BY <2>1, <2>2 DEF Regular, Runs, Active
    <2> QED BY <1>0, <2>1, <2>3, <2>4, NothingToSay, KeepsGoing
  <1>7. CASE LockLost(w)
    <2>1. UNCHANGED <<monitor, delivered, tasks>>
      BY <1>7 DEF LockLost
    <2>2. \A v \in Monitors, g \in Titles : Regular(v, g)' => Regular(v, g)
      BY <2>1 DEF Regular, Runs, Active
    <2> QED BY <2>1, <2>2, KeepsStill
  <1> HIDE DEF m
  <1> QED BY <1>1, <1>3, <1>4, <1>5, <1>6, <1>7 DEF Fault

\* The job of a key changes its owner, and nothing else.
LEMMA NewOwner ==
    ASSUME MonitorParts, NEW g \in Titles, NEW k \in Kinds, NEW o, tasks[g][k] # NoTask,
           tasks' = [tasks EXCEPT ![g][k].owner = o]
    PROVE  tasks' = [tasks EXCEPT ![g] = [tasks[g] EXCEPT ![k] = [owner |-> o, snap |-> tasks[g][k].snap]]]
  <1>1. tasks[g][k] \in Jobs
    BY DEF MonitorParts
  <1>2. [tasks[g][k] EXCEPT !.owner = o] = [owner |-> o, snap |-> tasks[g][k].snap]
    BY <1>1 DEF Jobs
  <1>3. tasks' = [tasks EXCEPT ![g] = [tasks[g] EXCEPT ![k] = [tasks[g][k] EXCEPT !.owner = o]]]
    OBVIOUS
  <1> QED BY <1>2, <1>3

LEMMA KeptQueue ==
    ASSUME Guarded, Kept, NEW g \in Titles, QueueStep(g)
    PROVE  Kept'
  <1>0. MonitorParts
    BY MonitorPartsTyped
  <1>1. ASSUME NEW k \in Kinds, NEW t, t # NoTask, t.owner \notin Monitors,
               tasks' = [tasks EXCEPT ![g] = [tasks[g] EXCEPT ![k] = t]], UNCHANGED <<monitor, delivered>>
        PROVE  Kept'
    <2>1. ASSUME NEW v \in Monitors, NEW x \in Titles, Regular(v, x)'
          PROVE  Regular(v, x) /\ tasks'[x]["due"].snap = tasks[x]["due"].snap
      <3>1. tasks'[x]["due"] # NoTask /\ tasks'[x]["due"].owner = v /\ Runs(v, x, "due")
        BY <1>1, <2>1 DEF Regular, Runs, Active
      <3>2. tasks'[x]["due"] = t \/ tasks'[x]["due"] = tasks[x]["due"]
        BY <1>0, <1>1 DEF MonitorParts, Kinds
      <3>3. tasks'[x]["due"] = tasks[x]["due"]
        BY <1>1, <3>1, <3>2
      <3> QED BY <3>1, <3>3 DEF Regular
    <2> QED BY <1>1, <2>1, KeepsStill
  <1>2. NoMonitor \notin Monitors
    BY MonitorAssumption
  <1>3. ASSUME NEW k \in Kinds, Enqueue(g, k) PROVE Kept'
    <2> DEFINE t == [owner |-> NoMonitor, snap |-> Snapshot(g)]
    <2>1. t \in Jobs
      BY SnapshotIsOne DEF Guarded, Jobs
    <2>2. t # NoTask /\ t.owner = NoMonitor
      BY <2>1, AbsenceAssumption DEF Jobs
    <2>3. tasks' = [tasks EXCEPT ![g] = [tasks[g] EXCEPT ![k] = t]] /\ UNCHANGED <<monitor, delivered>>
      BY <1>3 DEF Enqueue
    <2> HIDE DEF t
    <2> QED BY <1>1, <1>2, <2>2, <2>3
  <1>4. ASSUME NEW k \in Kinds, RequeueOrphan(g, k) \/ RequeueSlow(g, k) PROVE Kept'
    <2> DEFINE t == [owner |-> NoMonitor, snap |-> tasks[g][k].snap]
    <2>1. /\ tasks[g][k] # NoTask /\ tasks' = [tasks EXCEPT ![g][k].owner = NoMonitor]
          /\ UNCHANGED <<monitor, delivered>>
      BY <1>4 DEF RequeueOrphan, RequeueSlow
    <2>2. tasks[g][k] \in Jobs
      BY <1>0, <2>1 DEF MonitorParts
    <2>3. t \in Jobs
      BY <2>2 DEF Jobs
    <2>4. t # NoTask /\ t.owner = NoMonitor
      BY <2>3, AbsenceAssumption DEF Jobs
    <2>5. tasks' = [tasks EXCEPT ![g] = [tasks[g] EXCEPT ![k] = t]]
      BY <1>0, <2>1, NewOwner
    <2> HIDE DEF t
    <2> QED BY <1>1, <1>2, <2>1, <2>4, <2>5
  <1>5. ASSUME NEW w \in Monitors, NEW k \in Kinds, NEW reach \in BOOLEAN, Claim(w, g, k, reach)
        PROVE  Kept'
    <2> DEFINE t == [owner |-> w, snap |-> tasks[g][k].snap]
               h == Handler("lock", g, k, tasks[g][k].snap, reach)
    <2>1. /\ ~Active(w) /\ tasks[g][k] # NoTask /\ tasks' = [tasks EXCEPT ![g][k].owner = w]
          /\ Tell(w, h) /\ delivered' = delivered
      BY <1>5 DEF Claim
    <2>2. tasks[g][k] \in Jobs
      BY <1>0, <2>1 DEF MonitorParts
    <2>3. tasks[g][k].snap \in Snapshots /\ 0 \in 0..LastDay /\ <<>> \in Seq(Keys)
      BY <2>2, MonitorAssumption DEF Jobs
    <2>4. /\ h \in Handlers /\ h.step = "lock" /\ h.todo = <<>> /\ h.snap = tasks[g][k].snap
          /\ h.title = g /\ h.kind = k
      BY <2>3 DEF Handler, Handlers, Steps, Release
    <2>5. tasks' = [tasks EXCEPT ![g] = [tasks[g] EXCEPT ![k] = t]]
      BY <1>0, <2>1, NewOwner
    <2>6. t.owner = w /\ t.snap = tasks[g][k].snap
      OBVIOUS
    <2> HIDE DEF t, h
    <2>7. monitor'[w] = h /\ \A v \in Monitors : v # w => monitor'[v] = monitor[v]
      BY <1>0, <2>1 DEF MonitorParts, Tell
    <2>8. \A x \in Titles : x # g => tasks'[x] = tasks[x]
      BY <1>0, <2>5 DEF MonitorParts
    <2>9. tasks'[g][k] = t /\ \A j \in Kinds : j # k => tasks'[g][j] = tasks[g][j]
      BY <1>0, <2>5 DEF MonitorParts
    <2>10. ASSUME NEW x \in Titles, Regular(w, x)' PROVE h.snap = tasks'[x]["due"].snap
      <3>1. x = g /\ k = "due"
        BY <2>4, <2>7, <2>10 DEF Regular, Runs
      <3> QED BY <2>4, <2>6, <2>9, <3>1
    <2>11. ASSUME NEW v \in Monitors, NEW x \in Titles, v # w, Regular(v, x)'
          PROVE  Regular(v, x) /\ tasks'[x]["due"].snap = tasks[x]["due"].snap
      <3>1. tasks'[x]["due"] # NoTask /\ tasks'[x]["due"].owner = v /\ Runs(v, x, "due")
        BY <2>7, <2>11 DEF Regular, Runs, Active
      <3>2. tasks'[x]["due"] = t \/ tasks'[x]["due"] = tasks[x]["due"]
        BY <2>8, <2>9 DEF Kinds
      <3>3. tasks'[x]["due"] = tasks[x]["due"]
        BY <2>6, <2>11, <3>1, <3>2
      <3> QED BY <3>1, <3>3 DEF Regular
    <2> QED BY <1>0, <2>1, <2>4, <2>10, <2>11, NothingToSay, KeepsGoing
  <1> QED BY <1>3, <1>4, <1>5
          DEF QueueStep, EnqueueDue, EnqueueForced, ClaimReaching, ClaimUnheard, Kinds

LEMMA KeptNext == Guarded /\ Kept /\ [MonitorNext]_monitorVars => Kept'
  <1> SUFFICES ASSUME Guarded, Kept, [MonitorNext]_monitorVars PROVE Kept'
    OBVIOUS
  <1>1. ASSUME UNCHANGED <<monitor, delivered, tasks>> PROVE Kept'
    <2>1. \A v \in Monitors, g \in Titles : Regular(v, g)' => Regular(v, g)
      BY <1>1 DEF Regular, Runs, Active
    <2> QED BY <1>1, <2>1, KeepsStill
  <1>2. CASE WorldStep
    BY <1>1, <1>2 DEF WorldStep, Midnight, ClientRefresh, MoveDate
  <1>3. CASE UNCHANGED monitorVars
    BY <1>1, <1>3 DEF monitorVars
  <1> QED BY <1>2, <1>3, KeptHandler, KeptFault, KeptQueue DEF MonitorNext

-----------------------------------------------------------------------------
(* Games that a step leaves alone. *)

\* A handler's events are keys of its game, and the one at hand is among them.
OwnEvents ==
    \A w \in Monitors :
        /\ monitor[w].todo # <<>> => /\ Event(w) \in Keys /\ Event(w).title = monitor[w].title
                                     /\ Event(w) \in Agenda(monitor[w].todo)
        /\ monitor[w].step = "send" => monitor[w].todo # <<>>

LEMMA EventsAreOwn == Guarded /\ Kept => OwnEvents
  <1> SUFFICES ASSUME Guarded, Kept, NEW w \in Monitors
               PROVE  /\ monitor[w].todo # <<>> =>
                           /\ Event(w) \in Keys /\ Event(w).title = monitor[w].title
                           /\ Event(w) \in Agenda(monitor[w].todo)
                      /\ monitor[w].step = "send" => monitor[w].todo # <<>>
    BY DEF OwnEvents
  <1>1. monitor[w].todo \in Seq(Keys)
    BY MonitorPartsTyped DEF MonitorParts, Handlers
  <1>2. monitor[w].todo # <<>> => Event(w) \in Keys /\ Event(w) \in Agenda(monitor[w].todo)
    BY <1>1, NextEvent DEF Event
  <1> QED BY <1>2 DEF Kept, Guarded, InHand

LEMMA DueIsOwn ==
    ASSUME NEW g \in Titles, NEW after, NEW e \in Due(g, after)
    PROVE  /\ e \in Keys /\ e.title = g /\ e.type # "day"
           /\ watch[g] # NoWatch /\ <<e>> = ChangeEvents(g, watch[g].marker, after)
  <1>1. e \in Keys /\ watch[g] # NoWatch /\ <<e>> = ChangeEvents(g, watch[g].marker, after)
    BY DEF Due
  <1>2. \E from, to, type : <<e>> = <<Key(type, g, from, to)>> /\ type # "day"
    BY <1>1 DEF ChangeEvents
  <1> QED BY <1>1, <1>2 DEF Key

Apart(h) ==
    /\ tasks'[h] = tasks[h] /\ payload'[h] = payload[h] /\ watch'[h] = watch[h]
    /\ mishaps'[h] = mishaps[h]
    /\ \A v \in Monitors :
         \/ monitor'[v] = monitor[v] /\ (gameLock'[h] = v <=> gameLock[h] = v)
         \/ /\ Active(v) => monitor[v].title # h
            /\ Active(v)' => monitor'[v].title # h
    /\ \A e \in Keys : e.title = h => /\ e \in log'.rows <=> e \in log.rows
                                      /\ e \in delivered'.once <=> e \in delivered.once
                                      /\ e \in recorded' <=> e \in recorded
                                      /\ e \in unheard' <=> e \in unheard

LEMMA LeftAlone ==
    ASSUME OwnEvents, OwnEvents', NEW h \in Titles, mishaps[h] \in Nat, CountedFor(h), Apart(h)
    PROVE  CountedFor(h)'
  <1>1. ASSUME NEW v \in Monitors, (Active(v) /\ monitor[v].title = h) \/ (Active(v)' /\ monitor'[v].title = h)
        PROVE  monitor'[v] = monitor[v] /\ (gameLock'[h] = v <=> gameLock[h] = v)
    BY <1>1 DEF Apart
  <1>2. \A v \in Monitors, k \in Kinds : Runs(v, h, k)' <=> Runs(v, h, k)
    BY <1>1 DEF Runs, Active
  <1>3. \A v \in Monitors : Regular(v, h)' <=> Regular(v, h)
    BY <1>2 DEF Regular, Apart, Kinds
  <1>4. \A v \in Monitors : Stray(v, h)' <=> Stray(v, h)
    BY <1>1, <1>3 DEF Stray, Active
  <1>5. \A e \in Keys : e.title = h => (e \in Lost' <=> e \in Lost)
    BY DEF Apart, Lost
  <1>6. ASSUME NEW e \in Keys, e.title = h PROVE OnItsWay(e)' <=> OnItsWay(e)
    <2>1. ASSUME NEW v \in Monitors, monitor[v].step = "send", Event(v) = e
          PROVE  monitor'[v].step = "send" /\ Event(v)' = e
      BY <1>1, <1>6, <2>1 DEF OwnEvents, Active, Event
    <2>2. ASSUME NEW v \in Monitors, monitor'[v].step = "send", Event(v)' = e
          PROVE  monitor[v].step = "send" /\ Event(v) = e
      BY <1>1, <1>6, <2>2 DEF OwnEvents, Active, Event
    <2> QED BY <2>1, <2>2 DEF OnItsWay
  <1>7. Bad(h)' = Bad(h)
    <2>1. ASSUME NEW e \in Keys, e.title = h
          PROVE  (e \in Lost' <=> e \in Lost) /\ (e \in log'.rows <=> e \in log.rows)
                 /\ (e \in delivered'.once <=> e \in delivered.once) /\ (OnItsWay(e)' <=> OnItsWay(e))
      BY <1>5, <1>6, <2>1 DEF Apart
    <2> QED BY <2>1 DEF Bad
  <1>8. ASSUME NEW v \in Monitors PROVE Owes(v, h)' = Owes(v, h)
    <2>1. CASE ~Stray(v, h)
      BY <1>4, <2>1 DEF Owes
    <2>2. CASE Stray(v, h)
      <3>1. monitor'[v] = monitor[v] /\ monitor[v].title = h
        BY <1>1, <2>2 DEF Stray
      <3>2. monitor[v].step = "send" => Head(monitor[v].todo) \in Keys /\ Head(monitor[v].todo).title = h
        BY <3>1 DEF OwnEvents, Event
      <3>3. RunDebt(monitor[v])' = RunDebt(monitor[v])
        BY <1>5, <3>1, <3>2 DEF RunDebt
      <3> QED BY <1>4, <2>2, <3>3 DEF Owes
    <2> QED BY <2>1, <2>2
  <1>9. \A v \in Monitors, k \in Forces : Secure(v, h, k)' <=> Secure(v, h, k)
    BY <1>1, <1>2 DEF Secure, Runs, Kinds
  <1>10. ForcedDebt(h)' = ForcedDebt(h)
    <2>1. \A k \in Forces : Waits(h, k)' <=> Waits(h, k)
      BY <1>9 DEF Waits, Apart
    <2>2. {k \in Forces : Waits(h, k)}' = {k \in Forces : Waits(h, k)}
      BY <2>1
    <2> QED BY <2>2 DEF ForcedDebt
  <1>11. DueDebt(h)' = DueDebt(h)
    <2>1. \A snap : RestDebt(h, snap)' = RestDebt(h, snap)
      BY DEF RestDebt, Unit, Misled, Apart
    <2>2. Unit(Missing(h))' = Unit(Missing(h))
      BY DEF Unit, Missing, Apart
    <2>3. ASSUME NEW v \in Monitors, Regular(v, h)
          PROVE  /\ Errand(h, monitor[v])' = Errand(h, monitor[v])
                 /\ Unit(Adrift(v, h))' = Unit(Adrift(v, h))
      <3>1. monitor'[v] = monitor[v] /\ (gameLock'[h] = v <=> gameLock[h] = v)
        BY <1>1, <2>3 DEF Regular, Runs
      <3>2. ASSUME NEW e \in Keys, e.title = h PROVE e \in Told' <=> e \in Told
        BY <3>2 DEF Apart, Told
      <3>3. \A after : Due(h, after)' = Due(h, after)
        BY DEF Apart, Due
      <3>4. Announced(h, monitor[v])' <=> Announced(h, monitor[v])
        BY <3>1, <3>2, <3>3, DueIsOwn DEF Announced
      <3>5. Misled(h, monitor[v].snap)' <=> Misled(h, monitor[v].snap)
        BY <3>1 DEF Misled, Apart
      <3>6. RestDebt(h, monitor[v].snap)' = RestDebt(h, monitor[v].snap)
        BY <3>1, <3>5 DEF RestDebt, Unit, Apart
      <3>7. Errand(h, monitor[v])' = Errand(h, monitor[v])
        BY <2>2, <3>1, <3>4, <3>5, <3>6 DEF Errand, Unit, Apart
      <3> QED BY <3>1, <3>7 DEF Adrift, Unit
    <2>4. tasks'[h]["due"] = tasks[h]["due"]
      BY DEF Apart
    <2>5. CASE \E v \in Monitors : Regular(v, h)
      <3>1. PICK v \in Monitors : Regular(v, h)
        BY <2>5
      <3>2. tasks[h]["due"] # NoTask /\ tasks[h]["due"].owner = v
        BY <3>1 DEF Regular
      <3>3. DueDebt(h) = Errand(h, monitor[v]) + 2 * Unit(Adrift(v, h))
        BY <3>1, <3>2 DEF DueDebt
      <3>4. DueDebt(h)' = Errand(h, monitor[v])' + 2 * Unit(Adrift(v, h))'
        BY <1>3, <2>4, <3>1, <3>2 DEF DueDebt
      <3> QED BY <2>3, <3>1, <3>3, <3>4
    <2>6. CASE ~\E v \in Monitors : Regular(v, h)
      BY <1>3, <2>1, <2>2, <2>4, <2>6 DEF DueDebt
    <2> QED BY <2>5, <2>6
  <1>12. \A v \in Monitors : Owes(v, h)' <= Owes(v, h)
    BY <1>8, DebtTypes DEF DebtTyped
  <1>13. ForcedDebt(h)' + DueDebt(h)' <= ForcedDebt(h) + DueDebt(h) + 3 * (mishaps'[h] - mishaps[h])
    BY <1>10, <1>11, DebtTypes DEF DebtTyped, Apart
  <1>14. mishaps'[h] \in Nat
    BY DEF Apart
  <1> QED BY <1>7, <1>12, <1>13, <1>14, SettlesAlone

\* What steps rest on, before and after.
Sound == Guarded /\ Kept /\ OwnEvents
AllCounted == \A x \in Titles : CountedFor(x)

\* The log and the history are left alone, but for keys of game g.
KeysElsewhere(g) ==
    \A e \in Keys : e.title # g => /\ e \in log'.rows <=> e \in log.rows
                                   /\ e \in delivered'.once <=> e \in delivered.once
                                   /\ e \in recorded' <=> e \in recorded
                                   /\ e \in unheard' <=> e \in unheard
RowsElsewhere(g) ==
    \A x \in Titles : x # g => UNCHANGED <<tasks[x], payload[x], watch[x], mishaps[x]>>

LEMMA KeysUntouched ==
    ASSUME NEW g, UNCHANGED <<recorded, unheard>>, log'.rows = log.rows, delivered'.once = delivered.once
    PROVE  KeysElsewhere(g)
  BY DEF KeysElsewhere

LEMMA MishapIsOwn ==
    ASSUME MonitorParts, NEW g \in Titles, Mishap(g)
    PROVE  /\ mishaps'[g] = mishaps[g] + 1 /\ \A x \in Titles : x # g => mishaps'[x] = mishaps[x]
           /\ mishaps[g] \in Nat
  BY DEF MonitorParts, Mishap

LEMMA MishapsAreNat == Sound => \A x \in Titles : mishaps[x] \in Nat
  <1> SUFFICES ASSUME Sound, NEW x \in Titles PROVE mishaps[x] \in Nat
    OBVIOUS
  <1>1. mishaps \in [Titles -> 0..MaxMishaps] /\ MaxMishaps \in Nat
    BY MonitorPartsTyped DEF MonitorParts, Sound
  <1> QED BY <1>1

\* A step of worker w, on its game g, is paid for if it is in g.
LEMMA CountsAll ==
    ASSUME Sound, Sound', AllCounted, NEW w \in Monitors, NEW g \in Titles,
           \A v \in Monitors : v # w => monitor'[v] = monitor[v],
           Active(w) => monitor[w].title = g, Active(w)' => monitor'[w].title = g,
           \A x \in Titles, v \in Monitors : x # g /\ v # w => (gameLock'[x] = v <=> gameLock[x] = v),
           RowsElsewhere(g), KeysElsewhere(g), CountedFor(g)'
    PROVE  AllCounted'
  <1>1. ASSUME NEW x \in Titles, x # g PROVE CountedFor(x)'
    <2>1. Apart(x)
      BY <1>1 DEF Apart, RowsElsewhere, KeysElsewhere
    <2>2. mishaps[x] \in Nat
      BY MishapsAreNat
    <2> QED BY <2>1, <2>2, LeftAlone DEF Sound, AllCounted
  <1> QED BY <1>1 DEF AllCounted

-----------------------------------------------------------------------------
(* What others owe, and what the jobs of a game owe, at another's step. *)

LEMMA OthersOwe ==
    ASSUME NEW g \in Titles, NEW v \in Monitors, monitor'[v] = monitor[v],
           Regular(v, g)' <=> Regular(v, g),
           monitor[v].step = "send" /\ Event(v) \in Lost => Event(v) \in Lost'
    PROVE  Owes(v, g)' <= Owes(v, g)
  <1>1. Stray(v, g)' <=> Stray(v, g)
    BY DEF Stray, Active
  <1>2. RunDebt(monitor[v])' <= RunDebt(monitor[v])
    BY DEF RunDebt, Event
  <1> QED BY <1>1, <1>2 DEF Owes

\* The forced jobs that wait are counted: none more, one more at most, one less.
LEMMA ForcedSums ==
    ASSUME NEW g, NEW j
    PROVE  /\ (\A k \in Forces : Waits(g, k)' => Waits(g, k)) => ForcedDebt(g)' <= ForcedDebt(g)
           /\ (\A k \in Forces : k # j /\ Waits(g, k)' => Waits(g, k))
                => /\ ForcedDebt(g)' <= ForcedDebt(g) + 3
                   /\ j \in Forces /\ Waits(g, j) /\ ~Waits(g, j)'
                        => ForcedDebt(g)' + 3 <= ForcedDebt(g)
  <1> DEFINE S == {k \in Forces : Waits(g, k)}
             T == {k \in Forces : Waits(g, k)'}
  <1>1. ForcedDebt(g) = 3 * Cardinality(S) /\ ForcedDebt(g)' = 3 * Cardinality(T)
    BY DEF ForcedDebt
  <1>2. S \subseteq Forces /\ T \subseteq Forces
    OBVIOUS
  <1>3. \A k \in Forces : (k \in S <=> Waits(g, k)) /\ (k \in T <=> Waits(g, k)')
    OBVIOUS
  <1> HIDE DEF S, T
  <1>4. IsFiniteSet(S) /\ IsFiniteSet(T)
    BY <1>2, MonitorAssumption, FS_Subset
  <1>5. Cardinality(S) \in Nat /\ Cardinality(T) \in Nat
    BY <1>4, FS_CardinalityType
  <1>6. T \subseteq S => Cardinality(T) <= Cardinality(S)
    BY <1>4, FS_Subset
  <1>7. T \subseteq S \union {j} => Cardinality(T) <= Cardinality(S) + 1
    <2>1. /\ IsFiniteSet(S \union {j})
          /\ Cardinality(S \union {j}) = IF j \in S THEN Cardinality(S) ELSE Cardinality(S) + 1
      BY <1>4, FS_AddElement
    <2>2. T \subseteq S \union {j} => Cardinality(T) <= Cardinality(S \union {j})
      BY <2>1, FS_Subset
    <2> QED BY <1>5, <2>1, <2>2
  <1>8. j \in S /\ T \subseteq S \ {j} => Cardinality(T) + 1 <= Cardinality(S)
    <2>1. /\ IsFiniteSet(S \ {j})
          /\ Cardinality(S \ {j}) = IF j \in S THEN Cardinality(S) - 1 ELSE Cardinality(S)
      BY <1>4, FS_RemoveElement
    <2>2. T \subseteq S \ {j} => Cardinality(T) <= Cardinality(S \ {j})
      BY <2>1, FS_Subset
    <2> QED BY <1>5, <2>1, <2>2
  <1>9. (\A k \in Forces : Waits(g, k)' => Waits(g, k)) => T \subseteq S
    BY <1>2, <1>3
  <1>10. (\A k \in Forces : k # j /\ Waits(g, k)' => Waits(g, k))
           => /\ T \subseteq S \union {j}
              /\ j \in Forces /\ Waits(g, j) /\ ~Waits(g, j)' => j \in S /\ T \subseteq S \ {j}
    BY <1>2, <1>3
  <1>11. T \subseteq S => ForcedDebt(g)' <= ForcedDebt(g)
    BY <1>1, <1>5, <1>6
  <1>12. T \subseteq S \union {j} => ForcedDebt(g)' <= ForcedDebt(g) + 3
    BY <1>1, <1>5, <1>7
  <1>13. j \in S /\ T \subseteq S \ {j} => ForcedDebt(g)' + 3 <= ForcedDebt(g)
    BY <1>1, <1>5, <1>8
  <1> QED BY <1>9, <1>10, <1>11, <1>12, <1>13

\* The others stay secure.
LEMMA WaitsOfOthers ==
    ASSUME NEW g \in Titles, NEW w \in Monitors, NEW k, tasks'[g][k] = tasks[g][k],
           \A v \in Monitors : v # w => monitor'[v] = monitor[v] /\ (gameLock'[g] = v <=> gameLock[g] = v),
           tasks[g][k] # NoTask /\ tasks[g][k].owner = w /\ Secure(w, g, k) => Secure(w, g, k)'
    PROVE  Waits(g, k)' => Waits(g, k)
  <1>1. \A v \in Monitors : v # w /\ Secure(v, g, k) => Secure(v, g, k)'
    BY DEF Secure, Runs, Active
  <1> QED BY <1>1 DEF Waits

LEMMA ForcedOfOthers ==
    ASSUME NEW g \in Titles, NEW w \in Monitors, \A k \in Forces : tasks'[g][k] = tasks[g][k],
           \A v \in Monitors : v # w => monitor'[v] = monitor[v] /\ (gameLock'[g] = v <=> gameLock[g] = v),
           \A k \in Forces : Secure(w, g, k) => Secure(w, g, k)'
    PROVE  ForcedDebt(g)' <= ForcedDebt(g)
  <1>1. \A k \in Forces : Waits(g, k)' => Waits(g, k)
    BY WaitsOfOthers
  <1> QED BY <1>1, ForcedSums

\* One run is cut short, and its job, if it is a forced one, waits again.
LEMMA ForcedCutShort ==
    ASSUME NEW g \in Titles, NEW w \in Monitors, \A k \in Forces : tasks'[g][k] = tasks[g][k],
           \A v \in Monitors : v # w => monitor'[v] = monitor[v] /\ (gameLock'[g] = v <=> gameLock[g] = v)
    PROVE  ForcedDebt(g)' <= ForcedDebt(g) + 3
  <1>1. PICK j : j = monitor[w].kind
    OBVIOUS
  <1>2. \A k \in Forces : k # j => ~Secure(w, g, k)
    BY <1>1 DEF Secure, Runs
  <1>3. \A k \in Forces : k # j /\ Waits(g, k)' => Waits(g, k)
    BY <1>2, WaitsOfOthers
  <1> QED BY <1>3, ForcedSums

PaySame(g) == payload'[g] = payload[g]
RowSame(g) == watch'[g] = watch[g] /\ Told \subseteq Told'

LEMMA Sums ==
    ASSUME NEW i \in 0..1, NEW j \in 0..1, NEW k \in 0..1, NEW l \in 0..1
    PROVE  /\ i + k \in Int /\ j + l \in Int
           /\ i = j \/ k <= l => i + k <= j + l + 1
           /\ i = j /\ k <= l => i + k <= j + l
           /\ i <= j /\ k <= l => i + k <= j + l
  OBVIOUS

\* The timer's job of g while whoever runs it stands still.
LEMMA DueKept ==
    ASSUME NEW g \in Titles, tasks'[g]["due"] = tasks[g]["due"],
           \A v \in Monitors : /\ Regular(v, g)' <=> Regular(v, g)
                               /\ Regular(v, g) => /\ monitor'[v] = monitor[v]
                                                   /\ Adrift(v, g)' <=> Adrift(v, g)
    PROVE  /\ PaySame(g) \/ RowSame(g) => DueDebt(g)' <= DueDebt(g) + 1
           /\ PaySame(g) /\ RowSame(g) => DueDebt(g)' <= DueDebt(g)
  <1> DEFINE t == tasks[g]["due"]
  <1>1. \A p : Unit(p) \in 0..1
    BY DEF Unit
  <1>2. CASE t = NoTask
    <2>1. DueDebt(g) = Unit(Missing(g)) /\ DueDebt(g)' = Unit(Missing(g))'
      BY <1>2 DEF DueDebt
    <2>2. Unit(Missing(g)) \in 0..1 /\ Unit(Missing(g))' \in 0..1
      BY DEF Unit
    <2>3. PaySame(g) /\ RowSame(g) => Unit(Missing(g))' = Unit(Missing(g))
      BY DEF Unit, Missing, PaySame, RowSame
    <2> QED BY <2>1, <2>2, <2>3
  <1>3. ASSUME NEW snap
        PROVE  /\ RestDebt(g, snap) \in Int /\ RestDebt(g, snap)' \in Int
               /\ PaySame(g) \/ RowSame(g) => RestDebt(g, snap)' <= RestDebt(g, snap) + 1
               /\ PaySame(g) /\ RowSame(g) => RestDebt(g, snap)' <= RestDebt(g, snap)
    <2> DEFINE a == Unit(payload[g] # snap.payload)
               b == Unit(Misled(g, snap))
    <2>1. PaySame(g) => a' = a
      BY DEF Unit, PaySame
    <2>2. RowSame(g) => b' = b
      BY DEF Unit, Misled, RowSame
    <2>3. a' \in 0..1 /\ a \in 0..1 /\ b' \in 0..1 /\ b \in 0..1
      BY DEF Unit
    <2>4. RestDebt(g, snap) = a + b /\ RestDebt(g, snap)' = a' + b'
      BY DEF RestDebt
    <2>5. PaySame(g) \/ RowSame(g) => a' = a \/ b' <= b
      BY <2>1, <2>2, <2>3
    <2>6. PaySame(g) /\ RowSame(g) => a' = a /\ b' <= b
      BY <2>1, <2>2, <2>3
    <2> HIDE DEF a, b
    <2> QED BY <2>3, <2>4, <2>5, <2>6, Sums
  <1>4. CASE t # NoTask /\ ~\E v \in Monitors : Regular(v, g)
    <2>1. DueDebt(g) = RestDebt(g, t.snap)
      BY <1>4 DEF DueDebt
    <2>2. DueDebt(g)' = RestDebt(g, tasks[g]["due"].snap)'
      BY <1>4 DEF DueDebt
    <2>3. PICK snap : snap = t.snap
      OBVIOUS
    <2>4. tasks'[g]["due"].snap = snap
      BY <2>3
    <2>5. RestDebt(g, tasks[g]["due"].snap)' = RestDebt(g, snap)'
      BY <2>4 DEF RestDebt, Misled
    <2>6. /\ RestDebt(g, snap) \in Int /\ RestDebt(g, snap)' \in Int
          /\ PaySame(g) \/ RowSame(g) => RestDebt(g, snap)' <= RestDebt(g, snap) + 1
          /\ PaySame(g) /\ RowSame(g) => RestDebt(g, snap)' <= RestDebt(g, snap)
      BY <1>3
    <2> QED BY <2>1, <2>2, <2>3, <2>5, <2>6
  <1>5. CASE t # NoTask /\ \E v \in Monitors : Regular(v, g)
    <2>1. PICK v \in Monitors : Regular(v, g)
      BY <1>5
    <2>2. t # NoTask /\ t.owner = v
      BY <2>1 DEF Regular
    <2>3. DueDebt(g) = Errand(g, monitor[v]) + 2 * Unit(Adrift(v, g))
      BY <2>1, <2>2 DEF DueDebt
    <2>4. DueDebt(g)' = Errand(g, monitor[v])' + 2 * Unit(Adrift(v, g))'
      BY <2>1, <2>2 DEF DueDebt
    <2>5. Unit(Adrift(v, g))' = Unit(Adrift(v, g)) /\ Unit(Adrift(v, g)) \in 0..1
      BY <2>1 DEF Unit
    <2>6. monitor'[v] = monitor[v]
      BY <2>1
    <2>7. /\ Errand(g, monitor[v]) \in Int /\ Errand(g, monitor[v])' \in Int
          /\ PaySame(g) \/ RowSame(g) => Errand(g, monitor[v])' <= Errand(g, monitor[v]) + 1
          /\ PaySame(g) /\ RowSame(g) => Errand(g, monitor[v])' <= Errand(g, monitor[v])
      <3>1. CASE monitor[v].step \in Early
        <4>1. /\ Errand(g, monitor[v]) = RestDebt(g, monitor[v].snap)
              /\ Errand(g, monitor[v])' = RestDebt(g, monitor[v].snap)'
          BY <2>6, <3>1 DEF Errand
        <4> QED BY <1>3, <2>6, <4>1
      <3>2. CASE monitor[v].step \in Amid
        <4> DEFINE a == Unit(payload[g] # monitor[v].after)
                   b == Unit(Misled(g, monitor[v].snap) \/ ~Announced(g, monitor[v]))
        <4>1. Errand(g, monitor[v]) = a + b /\ Errand(g, monitor[v])' = a' + b'
          BY <2>6, <3>2 DEF Errand, Early, Amid
        <4>2. a \in 0..1 /\ a' \in 0..1 /\ b \in 0..1 /\ b' \in 0..1
          BY DEF Unit
        <4>3. PaySame(g) => a' = a
          BY <2>6 DEF Unit, PaySame
        <4>4. RowSame(g) => b' <= b
          <5>1. RowSame(g) => (Misled(g, monitor[v].snap)' <=> Misled(g, monitor[v].snap))
            BY <2>6 DEF Misled, RowSame
          <5>2. RowSame(g) => (Announced(g, monitor[v]) => Announced(g, monitor[v])')
            BY <2>6 DEF Announced, Due, RowSame
          <5> QED BY <5>1, <5>2 DEF Unit
        <4> HIDE DEF a, b
        <4>5. PaySame(g) \/ RowSame(g) => a' = a \/ b' <= b
          BY <4>3, <4>4
        <4>6. PaySame(g) /\ RowSame(g) => a' = a /\ b' <= b
          BY <4>3, <4>4
        <4> QED BY <4>1, <4>2, <4>5, <4>6, Sums
      <3>3. CASE monitor[v].step \notin Early \union Amid
        <4>1. CASE monitor[v].step = "failed"
          BY <2>6, <3>3, <4>1 DEF Errand
        <4>2. CASE monitor[v].step # "failed"
          <5>1. Errand(g, monitor[v]) = Unit(Missing(g)) /\ Errand(g, monitor[v])' = Unit(Missing(g))'
            BY <2>6, <3>3, <4>2 DEF Errand
          <5>2. Unit(Missing(g)) \in 0..1 /\ Unit(Missing(g))' \in 0..1
            BY DEF Unit
          <5>3. PaySame(g) /\ RowSame(g) => Unit(Missing(g))' = Unit(Missing(g))
            BY DEF Unit, Missing, PaySame, RowSame
          <5> QED BY <5>1, <5>2, <5>3
        <4> QED BY <4>1, <4>2
      <3> QED BY <3>1, <3>2, <3>3
    <2> QED BY <2>3, <2>4, <2>5, <2>7
  <1> QED BY <1>2, <1>4, <1>5

\* A worker that does not run it takes a step.
LEMMA DueOfOthers ==
    ASSUME NEW g \in Titles, NEW w \in Monitors, tasks'[g]["due"] = tasks[g]["due"],
           \A v \in Monitors : v # w => monitor'[v] = monitor[v] /\ (gameLock'[g] = v <=> gameLock[g] = v),
           ~Regular(w, g), ~Regular(w, g)'
    PROVE  /\ PaySame(g) \/ RowSame(g) => DueDebt(g)' <= DueDebt(g) + 1
           /\ PaySame(g) /\ RowSame(g) => DueDebt(g)' <= DueDebt(g)
  <1>1. \A v \in Monitors : /\ Regular(v, g)' <=> Regular(v, g)
                            /\ Regular(v, g) => /\ monitor'[v] = monitor[v]
                                                /\ Adrift(v, g)' <=> Adrift(v, g)
    BY DEF Regular, Runs, Active, Adrift
  <1> QED BY <1>1, DueKept

-----------------------------------------------------------------------------
(* A handler goes on with its game, its job and its snapshot. *)

Going(w, h) ==
    LET m == monitor[w] IN
    /\ Tell(w, h) /\ UNCHANGED tasks
    /\ m.step # "idle" /\ h.step # "idle"
    /\ h.title = m.title /\ h.kind = m.kind /\ h.snap = m.snap
    /\ \/ UNCHANGED gameLock /\ m.step # "lock" /\ h.step # "lock"
       \/ /\ m.step = "lock" /\ h.step # "lock"
          /\ gameLock[m.title] = NoMonitor /\ gameLock' = [gameLock EXCEPT ![m.title] = w]

\* What a run may still cost, before and after.
LEMMA RunBounds ==
    ASSUME NEW g, NEW w
    PROVE  /\ RunDebt(monitor[w]) \in 0..3 /\ RunDebt(monitor[w])' \in 0..3
           /\ Errand(g, monitor[w]) \in 0..2 /\ Errand(g, monitor[w])' \in 0..2
           /\ Unit(Missing(g)) \in 0..1 /\ Unit(Missing(g))' \in 0..1
           /\ \A snap : RestDebt(g, snap) \in 0..2 /\ RestDebt(g, snap)' \in 0..2
  <1>1. \A p : Unit(p) \in 0..1
    BY DEF Unit
  <1>2. \A snap : RestDebt(g, snap) \in 0..2 /\ RestDebt(g, snap)' \in 0..2
    BY DEF RestDebt, Unit
  <1>3. Errand(g, monitor[w]) \in 0..2
    BY <1>1, <1>2 DEF Errand
  <1>4. Errand(g, monitor[w])' \in 0..2
    <2>1. RestDebt(g, monitor[w].snap)' \in 0..2
      BY DEF RestDebt, Unit
    <2> QED BY <2>1 DEF Errand, Unit
  <1> QED BY <1>2, <1>3, <1>4 DEF RunDebt, Unit

LEMMA GoingSpends ==
    ASSUME Sound, NEW w \in Monitors, NEW h \in Handlers, Going(w, h), NEW g, g = monitor[w].title
    PROVE  /\ g \in Titles /\ monitor'[w] = h /\ \A v \in Monitors : v # w => monitor'[v] = monitor[v]
           /\ \A v \in Monitors :
                v # w /\ (monitor[v].step = "send" /\ Event(v) \in Lost => Event(v) \in Lost')
                  => Owes(v, g)' <= Owes(v, g)
           /\ ForcedDebt(g)' <= ForcedDebt(g)
           /\ Regular(w, g) =>
                /\ Owes(w, g) = 0 /\ Owes(w, g)' = 0
                /\ DueDebt(g)' + Errand(g, monitor[w]) <= DueDebt(g) + Errand(g, monitor[w])'
           /\ ~Regular(w, g) =>
                /\ Owes(w, g) = RunDebt(monitor[w]) /\ Owes(w, g)' = RunDebt(monitor[w])'
                /\ PaySame(g) \/ RowSame(g) => DueDebt(g)' <= DueDebt(g) + 1
                /\ PaySame(g) /\ RowSame(g) => DueDebt(g)' <= DueDebt(g)
  <1> DEFINE m == monitor[w]
  <1>1. MonitorParts /\ m \in Handlers
    BY MonitorPartsTyped DEF Sound, MonitorParts
  <1>2. g \in Titles /\ monitor'[w] = h /\ \A v \in Monitors : v # w => monitor'[v] = monitor[v]
    BY <1>1 DEF Going, Tell, MonitorParts, Handlers
  <1>3. /\ tasks' = tasks /\ m.step # "idle" /\ h.step # "idle" /\ m.title = g
        /\ h.title = g /\ h.kind = m.kind /\ h.snap = m.snap
    BY DEF Going
  <1>4. \/ gameLock'[g] = gameLock[g] /\ m.step # "lock" /\ h.step # "lock"
        \/ m.step = "lock" /\ h.step # "lock" /\ gameLock[g] = NoMonitor /\ gameLock'[g] = w
    BY <1>1, <1>2, <1>3 DEF Going, MonitorParts
  <1>5. \A v \in Monitors : v # w => (gameLock'[g] = v <=> gameLock[g] = v)
    BY <1>4, MonitorAssumption
  <1> HIDE DEF m
  <1>6. /\ Active(w) /\ Active(w)'
        /\ \A k \in Kinds : Runs(w, g, k)' <=> Runs(w, g, k)
    BY <1>2, <1>3 DEF Active, Runs, m
  <1>7. \A v \in Monitors : Regular(v, g)' <=> Regular(v, g)
    BY <1>2, <1>3, <1>6 DEF Regular, Runs, Active, Kinds
  <1>8. Adrift(w, g)' <=> Adrift(w, g)
    BY <1>2, <1>4, MonitorAssumption DEF Adrift, m
  <1>9. \A k \in Forces : Secure(w, g, k) => Secure(w, g, k)'
    BY <1>2, <1>4, <1>6, MonitorAssumption DEF Secure, m, Kinds
  <1>10. ForcedDebt(g)' <= ForcedDebt(g)
    BY <1>1, <1>2, <1>3, <1>5, <1>9, ForcedOfOthers
  <1>11. ASSUME NEW v \in Monitors, v # w,
                monitor[v].step = "send" /\ Event(v) \in Lost => Event(v) \in Lost'
         PROVE  Owes(v, g)' <= Owes(v, g)
    BY <1>2, <1>7, <1>11, OthersOwe
  <1>12. ASSUME Regular(w, g)
         PROVE  /\ Owes(w, g) = 0 /\ Owes(w, g)' = 0
                /\ DueDebt(g)' + Errand(g, monitor[w]) <= DueDebt(g) + Errand(g, monitor[w])'
    <2>1. tasks[g]["due"] # NoTask /\ tasks[g]["due"].owner = w
      BY <1>12 DEF Regular
    <2>2. DueDebt(g) = Errand(g, monitor[w]) + 2 * Unit(Adrift(w, g))
      BY <1>12, <2>1 DEF DueDebt
    <2>3. DueDebt(g)' = Errand(g, monitor[w])' + 2 * Unit(Adrift(w, g))'
      BY <1>3, <1>7, <1>12, <2>1 DEF DueDebt
    <2>4. Unit(Adrift(w, g))' = Unit(Adrift(w, g)) /\ Unit(Adrift(w, g)) \in 0..1
      BY <1>8 DEF Unit
    <2>5. Errand(g, monitor[w]) \in 0..2 /\ Errand(g, monitor[w])' \in 0..2
      BY RunBounds
    <2>6. DueDebt(g)' + Errand(g, monitor[w]) <= DueDebt(g) + Errand(g, monitor[w])'
      BY <2>2, <2>3, <2>4, <2>5
    <2> QED BY <1>7, <1>12, <2>6 DEF Owes, Stray
  <1>13. ASSUME ~Regular(w, g)
         PROVE  /\ Owes(w, g) = RunDebt(monitor[w]) /\ Owes(w, g)' = RunDebt(monitor[w])'
                /\ PaySame(g) \/ RowSame(g) => DueDebt(g)' <= DueDebt(g) + 1
                /\ PaySame(g) /\ RowSame(g) => DueDebt(g)' <= DueDebt(g)
    <2>1. Stray(w, g) /\ Stray(w, g)'
      BY <1>2, <1>3, <1>6, <1>7, <1>13 DEF Stray, m
    <2>2. tasks'[g]["due"] = tasks[g]["due"] /\ ~Regular(w, g)'
      BY <1>3, <1>7, <1>13
    <2>3. /\ PaySame(g) \/ RowSame(g) => DueDebt(g)' <= DueDebt(g) + 1
          /\ PaySame(g) /\ RowSame(g) => DueDebt(g)' <= DueDebt(g)
      BY <1>2, <1>5, <1>13, <2>2, DueOfOthers
    <2> QED BY <2>1, <2>3 DEF Owes
  <1> QED BY <1>2, <1>10, <1>11, <1>12, <1>13

LEMMA GoingCounts ==
    ASSUME Sound, Sound', AllCounted, NEW w \in Monitors, NEW h \in Handlers, Going(w, h),
           NEW g, g = monitor[w].title, RowsElsewhere(g), KeysElsewhere(g), CountedFor(g)'
    PROVE  AllCounted'
  <1>1. MonitorParts
    BY MonitorPartsTyped DEF Sound
  <1>2. g \in Titles /\ monitor'[w] = h /\ \A v \in Monitors : v # w => monitor'[v] = monitor[v]
    BY GoingSpends
  <1>3. monitor'[w].title = g
    BY <1>2 DEF Going
  <1>4. \A x \in Titles : x # g => gameLock'[x] = gameLock[x]
    BY <1>1, <1>2 DEF Going, MonitorParts
  <1> QED BY <1>2, <1>3, <1>4, CountsAll

\* The debt of a running job of the timer does not grow while row and payload stay.
LEMMA ErrandKept ==
    ASSUME NEW g, NEW w, monitor[w].step \in Amid, monitor'[w].step \in Amid,
           monitor'[w].after = monitor[w].after, monitor'[w].snap = monitor[w].snap, PaySame(g),
           watch'[g] = watch[g],
           \A e \in Due(g, monitor[w].after) : e \in Told \union Agenda(monitor[w].todo)
                                               => e \in Told' \union Agenda(monitor'[w].todo)
    PROVE  Errand(g, monitor[w])' <= Errand(g, monitor[w])
  <1> DEFINE a == Unit(payload[g] # monitor[w].after)
             b == Unit(Misled(g, monitor[w].snap) \/ ~Announced(g, monitor[w]))
  <1>1. Errand(g, monitor[w]) = a + b /\ Errand(g, monitor[w])' = a' + b'
    BY DEF Errand, Early, Amid
  <1>2. a' = a
    BY DEF Unit, PaySame
  <1>3. b' <= b
    <2>1. Misled(g, monitor[w].snap)' <=> Misled(g, monitor[w].snap)
      BY DEF Misled
    <2>2. Announced(g, monitor[w]) => Announced(g, monitor[w])'
      BY DEF Announced, Due
    <2> QED BY <2>1, <2>2 DEF Unit
  <1>4. a \in 0..1 /\ a' \in 0..1 /\ b \in 0..1 /\ b' \in 0..1
    BY DEF Unit
  <1> HIDE DEF a, b
  <1> QED BY <1>1, <1>2, <1>3, <1>4, Sums

-----------------------------------------------------------------------------
(* What a going handler pays with. *)

BadGrows(g, x) ==
    IsFiniteSet(Bad(g)') /\ Cardinality(Bad(g)') <= Cardinality(Bad(g)) + x

LEMMA BadSteps ==
    ASSUME NEW g, CountedFor(g)
    PROVE  /\ Bad(g)' \subseteq Bad(g) => BadGrows(g, 0)
           /\ \A e : Bad(g)' \subseteq Bad(g) \union {e} => BadGrows(g, 1)
           /\ \A e \in Bad(g) : Bad(g)' \subseteq Bad(g) \ {e} => BadGrows(g, -1)
  <1>1. IsFiniteSet(Bad(g)) /\ Cardinality(Bad(g)) \in Nat
    BY FS_CardinalityType DEF CountedFor
  <1>2. ASSUME Bad(g)' \subseteq Bad(g) PROVE BadGrows(g, 0)
    BY <1>1, <1>2, FS_Subset DEF BadGrows
  <1>3. ASSUME NEW e, Bad(g)' \subseteq Bad(g) \union {e} PROVE BadGrows(g, 1)
    <2>1. /\ IsFiniteSet(Bad(g) \union {e})
          /\ Cardinality(Bad(g) \union {e})
               = IF e \in Bad(g) THEN Cardinality(Bad(g)) ELSE Cardinality(Bad(g)) + 1
      BY <1>1, FS_AddElement
    <2>2. IsFiniteSet(Bad(g)') /\ Cardinality(Bad(g)') <= Cardinality(Bad(g) \union {e})
      BY <1>3, <2>1, FS_Subset
    <2>3. Cardinality(Bad(g)') \in Nat
      BY <2>2, FS_CardinalityType
    <2> QED BY <1>1, <2>1, <2>2, <2>3 DEF BadGrows
  <1>4. ASSUME NEW e \in Bad(g), Bad(g)' \subseteq Bad(g) \ {e} PROVE BadGrows(g, -1)
    <2>1. /\ IsFiniteSet(Bad(g) \ {e})
          /\ Cardinality(Bad(g) \ {e})
               = IF e \in Bad(g) THEN Cardinality(Bad(g)) - 1 ELSE Cardinality(Bad(g))
      BY <1>1, FS_RemoveElement
    <2>2. IsFiniteSet(Bad(g)') /\ Cardinality(Bad(g)') <= Cardinality(Bad(g) \ {e})
      BY <1>4, <2>1, FS_Subset
    <2>3. Cardinality(Bad(g)') \in Nat
      BY <2>2, FS_CardinalityType
    <2> QED BY <1>1, <2>1, <2>2, <2>3 DEF BadGrows
  <1> QED BY <1>2, <1>3, <1>4

\* What is bad grows by x, and the run and the job of the timer cover it.
LEMMA GoingPays ==
    ASSUME Sound, Sound', AllCounted, NEW w \in Monitors, Going(w, monitor'[w]),
           NEW g, g = monitor[w].title, RowsElsewhere(g), KeysElsewhere(g),
           NEW c \in 0..1, mishaps'[g] = mishaps[g] + c,
           \A v \in Monitors :
              v # w /\ monitor[v].step = "send" /\ Event(v) \in Lost => Event(v) \in Lost',
           NEW x \in {-1, 0, 1}, BadGrows(g, x),
           Regular(w, g) => x + Errand(g, monitor[w])' <= Errand(g, monitor[w]) + 3 * c,
           ~Regular(w, g) =>
              \/ /\ PaySame(g) /\ RowSame(g)
                 /\ x + RunDebt(monitor[w])' <= RunDebt(monitor[w]) + 3 * c
              \/ /\ PaySame(g) \/ RowSame(g)
                 /\ x + 1 + RunDebt(monitor[w])' <= RunDebt(monitor[w]) + 3 * c
    PROVE  AllCounted'
  <1> DEFINE h == monitor'[w]
  <1>1. h \in Handlers
    BY DEF Sound, Guarded, MonitorTypeOK, Handlers, Steps
  <1>2. Going(w, h)
    OBVIOUS
  <1> HIDE DEF h
  <1>3. /\ g \in Titles
        /\ \A v \in Monitors :
             v # w /\ (monitor[v].step = "send" /\ Event(v) \in Lost => Event(v) \in Lost')
               => Owes(v, g)' <= Owes(v, g)
        /\ ForcedDebt(g)' <= ForcedDebt(g)
        /\ Regular(w, g) =>
             /\ Owes(w, g) = 0 /\ Owes(w, g)' = 0
             /\ DueDebt(g)' + Errand(g, monitor[w]) <= DueDebt(g) + Errand(g, monitor[w])'
        /\ ~Regular(w, g) =>
             /\ Owes(w, g) = RunDebt(monitor[w]) /\ Owes(w, g)' = RunDebt(monitor[w])'
             /\ PaySame(g) \/ RowSame(g) => DueDebt(g)' <= DueDebt(g) + 1
             /\ PaySame(g) /\ RowSame(g) => DueDebt(g)' <= DueDebt(g)
    BY <1>1, <1>2, GoingSpends
  <1>4. mishaps[g] \in Nat /\ mishaps'[g] \in Nat /\ 3 * (mishaps'[g] - mishaps[g]) = 3 * c
    BY <1>3, MishapsAreNat
  <1>5. /\ RunDebt(monitor[w]) \in 0..3 /\ RunDebt(monitor[w])' \in 0..3
        /\ Errand(g, monitor[w]) \in 0..2 /\ Errand(g, monitor[w])' \in 0..2
    BY RunBounds
  <1>6. DebtTyped /\ DebtTyped'
    BY DebtTypes, PTL
  <1>7. /\ ForcedDebt(g) \in Nat /\ ForcedDebt(g)' \in Nat
        /\ DueDebt(g) \in 0..4 /\ DueDebt(g)' \in 0..4
    BY <1>3, <1>6 DEF DebtTyped
  <1>8. x + Owes(w, g)' + ForcedDebt(g)' + DueDebt(g)' <= Owes(w, g) + ForcedDebt(g) + DueDebt(g) + 3 * c
    <2>1. CASE Regular(w, g)
      BY <1>3, <1>5, <1>7, <2>1
    <2>2. CASE ~Regular(w, g)
      BY <1>3, <1>5, <1>7, <2>2
    <2> QED BY <2>1, <2>2
  <1>9. x \in Int /\ IsFiniteSet(Bad(g)') /\ Cardinality(Bad(g)') <= Cardinality(Bad(g)) + x
    BY DEF BadGrows
  <1>10. \A v \in Monitors : v # w => Owes(v, g)' <= Owes(v, g)
    BY <1>3
  <1>11. CountedFor(g)'
    BY <1>3, <1>4, <1>8, <1>9, <1>10, DebtSettles DEF AllCounted
  <1> QED BY <1>1, <1>2, <1>11, GoingCounts

\* The cases: nothing more is bad, one key more, one key less.
Payable(w, g, c) ==
    /\ Going(w, monitor'[w]) /\ RowsElsewhere(g) /\ KeysElsewhere(g)
    /\ g = monitor[w].title /\ mishaps'[g] = mishaps[g] + c
    /\ \A v \in Monitors :
         v # w /\ monitor[v].step = "send" /\ Event(v) \in Lost => Event(v) \in Lost'

LEMMA PaysEven ==
    ASSUME Sound, Sound', AllCounted, NEW w \in Monitors, NEW g, NEW c \in 0..1, Payable(w, g, c),
           Bad(g)' \subseteq Bad(g),
           Regular(w, g) => Errand(g, monitor[w])' <= Errand(g, monitor[w]) + 3 * c,
           ~Regular(w, g) =>
              \/ PaySame(g) /\ RowSame(g) /\ RunDebt(monitor[w])' <= RunDebt(monitor[w]) + 3 * c
              \/ /\ PaySame(g) \/ RowSame(g)
                 /\ 1 + RunDebt(monitor[w])' <= RunDebt(monitor[w]) + 3 * c
    PROVE  AllCounted'
  <1>1. g \in Titles /\ BadGrows(g, 0)
    BY BadSteps, MonitorPartsTyped DEF AllCounted, Payable, Sound, MonitorParts, Handlers
  <1>2. /\ RunDebt(monitor[w]) \in 0..3 /\ RunDebt(monitor[w])' \in 0..3
        /\ Errand(g, monitor[w]) \in 0..2 /\ Errand(g, monitor[w])' \in 0..2
    BY RunBounds
  <1>3. 0 + Errand(g, monitor[w])' = Errand(g, monitor[w])' /\ 0 \in {-1, 0, 1}
    BY <1>2
  <1>4. 0 + RunDebt(monitor[w])' = RunDebt(monitor[w])' /\ 0 + 1 + RunDebt(monitor[w])' = 1 + RunDebt(monitor[w])'
    BY <1>2
  <1> QED BY <1>1, <1>3, <1>4, GoingPays DEF Payable

LEMMA PaysMore ==
    ASSUME Sound, Sound', AllCounted, NEW w \in Monitors, NEW g, NEW c \in 0..1, Payable(w, g, c),
           NEW e, Bad(g)' \subseteq Bad(g) \union {e},
           Regular(w, g) => 1 + Errand(g, monitor[w])' <= Errand(g, monitor[w]) + 3 * c,
           ~Regular(w, g) =>
              \/ PaySame(g) /\ RowSame(g) /\ 1 + RunDebt(monitor[w])' <= RunDebt(monitor[w]) + 3 * c
              \/ /\ PaySame(g) \/ RowSame(g)
                 /\ 2 + RunDebt(monitor[w])' <= RunDebt(monitor[w]) + 3 * c
    PROVE  AllCounted'
  <1>1. g \in Titles /\ BadGrows(g, 1)
    BY BadSteps, MonitorPartsTyped DEF AllCounted, Payable, Sound, MonitorParts, Handlers
  <1>2. 1 \in {-1, 0, 1} /\ 1 + 1 = 2
    OBVIOUS
  <1> QED BY <1>1, <1>2, GoingPays DEF Payable

LEMMA PaysLess ==
    ASSUME Sound, Sound', AllCounted, NEW w \in Monitors, NEW g, NEW c \in 0..1, Payable(w, g, c),
           NEW e \in Bad(g), Bad(g)' \subseteq Bad(g) \ {e},
           Regular(w, g) => Errand(g, monitor[w])' <= Errand(g, monitor[w]) + 1,
           ~Regular(w, g) =>
              /\ PaySame(g) \/ RowSame(g)
              /\ \/ RunDebt(monitor[w])' <= RunDebt(monitor[w])
                 \/ PaySame(g) /\ RowSame(g) /\ RunDebt(monitor[w])' <= RunDebt(monitor[w]) + 1
    PROVE  AllCounted'
  <1>1. g \in Titles /\ BadGrows(g, -1)
    BY BadSteps, MonitorPartsTyped DEF AllCounted, Payable, Sound, MonitorParts, Handlers
  <1>2. /\ RunDebt(monitor[w]) \in 0..3 /\ RunDebt(monitor[w])' \in 0..3
        /\ Errand(g, monitor[w]) \in 0..2 /\ Errand(g, monitor[w])' \in 0..2
    BY RunBounds
  <1>3. -1 \in {-1, 0, 1}
    OBVIOUS
  <1>4. Regular(w, g) => -1 + Errand(g, monitor[w])' <= Errand(g, monitor[w]) + 3 * c
    BY <1>2
  <1>5. ~Regular(w, g) =>
           \/ /\ PaySame(g) /\ RowSame(g)
              /\ -1 + RunDebt(monitor[w])' <= RunDebt(monitor[w]) + 3 * c
           \/ /\ PaySame(g) \/ RowSame(g)
              /\ -1 + 1 + RunDebt(monitor[w])' <= RunDebt(monitor[w]) + 3 * c
    BY <1>2
  <1> QED BY <1>1, <1>3, <1>4, <1>5, GoingPays DEF Payable

\* The log and the history stay as they are.
Unlogged == UNCHANGED <<recorded, unheard>> /\ log'.rows = log.rows /\ delivered'.once = delivered.once

LEMMA BadKept ==
    ASSUME NEW w \in Monitors, \A v \in Monitors : v # w => monitor'[v] = monitor[v], Unlogged,
           NEW g
    PROVE  /\ Lost' = Lost /\ Told' = Told
           /\ monitor[w].step # "send" => Bad(g)' \subseteq Bad(g)
           /\ Bad(g)' \subseteq Bad(g) \union {Event(w)}
  <1>1. Lost' = Lost /\ Told' = Told
    BY DEF Unlogged, Lost, Told
  <1>2. ASSUME NEW e, OnItsWay(e), ~OnItsWay(e)'
        PROVE  monitor[w].step = "send" /\ e = Event(w)
    BY <1>2 DEF OnItsWay, Event
  <1>3. \A e \in Bad(g)' : e \in Bad(g) \/ (OnItsWay(e) /\ ~OnItsWay(e)')
    BY <1>1 DEF Bad, Unlogged
  <1> QED BY <1>1, <1>2, <1>3

\* Rows of other games stay.
LEMMA RowsStay ==
    ASSUME Sound, NEW g \in Titles, UNCHANGED <<tasks, payload, watch>>,
           mishaps' = mishaps \/ Mishap(g)
    PROVE  /\ RowsElsewhere(g) /\ PaySame(g) /\ mishaps[g] \in Nat
           /\ mishaps' = mishaps => mishaps'[g] = mishaps[g] + 0
           /\ Mishap(g) => mishaps'[g] = mishaps[g] + 1
  <1>1. MonitorParts /\ mishaps[g] \in Nat
    BY MonitorPartsTyped, MishapsAreNat DEF Sound
  <1>2. Mishap(g) => mishaps'[g] = mishaps[g] + 1 /\ \A x \in Titles : x # g => mishaps'[x] = mishaps[x]
    BY <1>1, MishapIsOwn
  <1> QED BY <1>1, <1>2 DEF RowsElsewhere, PaySame

-----------------------------------------------------------------------------
(* The steps of a handler up to its events, and how it fails. *)

\* What a handler's step starts from.
LEMMA StartsFrom ==
    ASSUME Sound, NEW w \in Monitors
    PROVE  /\ MonitorParts /\ monitor[w] \in Handlers /\ monitor[w].title \in Titles
           /\ monitor[w].todo \in Seq(Keys) /\ monitor[w].snap \in Snapshots
           /\ monitor[w].after \in Release
           /\ monitor[w].step \in {"send", "finalise", "release"} => monitor[w].todo # <<>>
  BY MonitorPartsTyped DEF Sound, MonitorParts, Handlers, Guarded, InHand

\* A step that writes nothing but the lock, the handler and the history of mishaps.
LEMMA QuietStep ==
    ASSUME Sound, NEW w \in Monitors, NEW g, g = monitor[w].title, Going(w, monitor'[w]),
           UNCHANGED <<payload, watch>>, Unlogged, mishaps' = mishaps \/ Mishap(g)
    PROVE  /\ PaySame(g) /\ RowSame(g) /\ Lost' = Lost /\ Told' = Told
           /\ mishaps' = mishaps => Payable(w, g, 0)
           /\ Mishap(g) => Payable(w, g, 1)
           /\ monitor[w].step # "send" => Bad(g)' \subseteq Bad(g)
           /\ Bad(g)' \subseteq Bad(g) \union {Event(w)}
  <1>1. MonitorParts /\ g \in Titles
    BY StartsFrom
  <1>2. \A v \in Monitors : v # w => monitor'[v] = monitor[v]
    BY <1>1 DEF MonitorParts, Going, Tell
  <1>3. /\ Lost' = Lost /\ Told' = Told
        /\ monitor[w].step # "send" => Bad(g)' \subseteq Bad(g)
        /\ Bad(g)' \subseteq Bad(g) \union {Event(w)}
    BY <1>2, BadKept
  <1>4. UNCHANGED <<tasks, payload, watch>>
    BY DEF Going
  <1>5. /\ RowsElsewhere(g) /\ PaySame(g)
        /\ mishaps' = mishaps => mishaps'[g] = mishaps[g] + 0
        /\ Mishap(g) => mishaps'[g] = mishaps[g] + 1
    BY <1>1, <1>4, RowsStay
  <1>6. KeysElsewhere(g)
    BY KeysUntouched DEF Unlogged
  <1>7. RowSame(g)
    BY <1>3 DEF RowSame
  <1> QED BY <1>3, <1>5, <1>6, <1>7 DEF Payable

LEMMA TakeLockCounts ==
    ASSUME Sound, Sound', AllCounted, NEW w \in Monitors, NEW g, g = monitor[w].title, TakeLock(w)
    PROVE  AllCounted'
  <1> DEFINE m == monitor[w]
             h == [m EXCEPT !.step = "fetch", !.day = today]
  <1>1. MonitorParts /\ m \in Handlers
    BY StartsFrom
  <1>2. /\ m.step = "lock" /\ gameLock[g] = NoMonitor /\ gameLock' = [gameLock EXCEPT ![g] = w]
        /\ Tell(w, h)
        /\ UNCHANGED <<payload, watch, tasks, log, delivered, recorded, unheard, mishaps>>
    BY DEF TakeLock, history
  <1>3. /\ h.step = "fetch" /\ h.title = g /\ h.kind = m.kind /\ h.snap = m.snap
    BY <1>1 DEF Handlers
  <1> HIDE DEF h
  <1>4. monitor'[w] = h
    BY <1>1, <1>2 DEF MonitorParts, Tell
  <1>5. Going(w, monitor'[w])
    BY <1>2, <1>3, <1>4 DEF Going
  <1>6. PaySame(g) /\ RowSame(g) /\ Payable(w, g, 0) /\ Bad(g)' \subseteq Bad(g)
    BY <1>2, <1>5, QuietStep DEF Unlogged
  <1>7. Errand(g, monitor[w])' = Errand(g, monitor[w]) /\ RunDebt(monitor[w])' = RunDebt(monitor[w])
    BY <1>2, <1>3, <1>4 DEF Errand, RunDebt, Early, RestDebt, Unit, Misled
  <1>8. /\ Errand(g, monitor[w])' <= Errand(g, monitor[w]) + 3 * 0
        /\ RunDebt(monitor[w])' <= RunDebt(monitor[w]) + 3 * 0
    BY <1>7, RunBounds
  <1> QED BY <1>6, <1>8, PaysEven

LEMMA FetchCounts ==
    ASSUME Sound, Sound', AllCounted, NEW w \in Monitors, NEW g, g = monitor[w].title,
           Fetch(w) \/ FetchEmpty(w)
    PROVE  AllCounted'
  <1> DEFINE m == monitor[w]
  <1>1. MonitorParts /\ m \in Handlers
    BY StartsFrom
  <1>2. PICK after : Tell(w, [m EXCEPT !.step = "patch", !.after = after])
    BY DEF Fetch, FetchEmpty
  <1>3. /\ m.step = "fetch"
        /\ UNCHANGED <<payload, watch, tasks, gameLock, log, delivered, recorded, unheard>>
        /\ mishaps' = mishaps \/ Mishap(g)
    BY DEF Fetch, FetchEmpty, history
  <1> DEFINE h == [m EXCEPT !.step = "patch", !.after = after]
  <1>4. h.step = "patch" /\ h.title = g /\ h.kind = m.kind /\ h.snap = m.snap /\ Tell(w, h)
    BY <1>1, <1>2 DEF Handlers
  <1> HIDE DEF h
  <1>5. monitor'[w] = h
    BY <1>1, <1>4 DEF MonitorParts, Tell
  <1>6. Going(w, monitor'[w])
    BY <1>3, <1>4, <1>5 DEF Going
  <1>7. /\ PaySame(g) /\ RowSame(g) /\ Bad(g)' \subseteq Bad(g)
        /\ Payable(w, g, 0) \/ Payable(w, g, 1)
    BY <1>3, <1>6, QuietStep DEF Unlogged
  <1>8. Errand(g, monitor[w])' = Errand(g, monitor[w]) /\ RunDebt(monitor[w])' = RunDebt(monitor[w])
    BY <1>3, <1>4, <1>5 DEF Errand, RunDebt, Early, RestDebt, Unit, Misled
  <1>9. \A c \in 0..1 : /\ Errand(g, monitor[w])' <= Errand(g, monitor[w]) + 3 * c
                        /\ RunDebt(monitor[w])' <= RunDebt(monitor[w]) + 3 * c
    BY <1>8, RunBounds
  <1>10. 0 \in 0..1 /\ 1 \in 0..1
    OBVIOUS
  <1> QED BY <1>7, <1>9, <1>10, PaysEven

\* A handler that gives up.
LEMMA ThrowCounts ==
    ASSUME Sound, Sound', AllCounted, NEW w \in Monitors, NEW g, g = monitor[w].title, Throw(w)
    PROVE  AllCounted'
  <1> DEFINE m == monitor[w]
             h == [m EXCEPT !.step = "failed"]
  <1>1. MonitorParts /\ m \in Handlers
    BY StartsFrom
  <1>2. /\ m.step \in {"fetch", "patch", "announce", "finalise", "release"} /\ Tell(w, h) /\ Mishap(g)
        /\ UNCHANGED <<payload, watch, tasks, gameLock, log, delivered, recorded, unheard>>
    BY DEF Throw, history
  <1>3. h.step = "failed" /\ h.title = g /\ h.kind = m.kind /\ h.snap = m.snap
    BY <1>1 DEF Handlers
  <1> HIDE DEF h
  <1>4. monitor'[w] = h
    BY <1>1, <1>2 DEF MonitorParts, Tell
  <1>5. Going(w, monitor'[w])
    BY <1>2, <1>3, <1>4 DEF Going
  <1>6. PaySame(g) /\ RowSame(g) /\ Payable(w, g, 1) /\ Bad(g)' \subseteq Bad(g)
    BY <1>2, <1>5, QuietStep DEF Unlogged
  <1>7. /\ Errand(g, monitor[w])' <= Errand(g, monitor[w]) + 3 * 1
        /\ RunDebt(monitor[w])' <= RunDebt(monitor[w]) + 3 * 1
    BY RunBounds
  <1> QED BY <1>6, <1>7, PaysEven

LEMMA SendReachesNobodyCounts ==
    ASSUME Sound, Sound', AllCounted, NEW w \in Monitors, NEW g, g = monitor[w].title,
           SendReachesNobody(w)
    PROVE  AllCounted'
  <1> DEFINE m == monitor[w]
             h == [m EXCEPT !.step = "release"]
  <1>1. MonitorParts /\ m \in Handlers
    BY StartsFrom
  <1>2. /\ m.step = "send" /\ Tell(w, h) /\ Mishap(g)
        /\ UNCHANGED <<payload, watch, tasks, gameLock, log, delivered, recorded, unheard>>
    BY DEF SendReachesNobody, history
  <1>3. h.step = "release" /\ h.title = g /\ h.kind = m.kind /\ h.snap = m.snap
    BY <1>1 DEF Handlers
  <1> HIDE DEF h
  <1>4. monitor'[w] = h
    BY <1>1, <1>2 DEF MonitorParts, Tell
  <1>5. Going(w, monitor'[w])
    BY <1>2, <1>3, <1>4 DEF Going
  <1>6. PaySame(g) /\ RowSame(g) /\ Payable(w, g, 1) /\ Bad(g)' \subseteq Bad(g) \union {Event(w)}
    BY <1>2, <1>5, QuietStep DEF Unlogged
  <1>7. RunDebt(monitor[w]) >= 1 /\ RunDebt(monitor[w])' = 2
    BY <1>2, <1>3, <1>4 DEF RunDebt, Early
  <1>8. /\ 1 + Errand(g, monitor[w])' <= Errand(g, monitor[w]) + 3 * 1
        /\ 1 + RunDebt(monitor[w])' <= RunDebt(monitor[w]) + 3 * 1
    BY <1>7, RunBounds
  <1> QED BY <1>6, <1>8, PaysMore

\* The catch block keeps the row, or writes the first one, or fails to.
LEMMA RecordFailureCounts ==
    ASSUME Sound, Sound', AllCounted, NEW w \in Monitors, NEW g, g = monitor[w].title,
           RecordFailure(w) \/ RecordFailureLost(w)
    PROVE  AllCounted'
  <1> DEFINE m == monitor[w]
             h == [m EXCEPT !.step = "unlock"]
  <1>1. MonitorParts /\ m \in Handlers /\ g \in Titles
    BY StartsFrom
  <1>2. /\ m.step = "failed" /\ Tell(w, h)
        /\ watch' = watch \/ \E row : watch' = [watch EXCEPT ![g] = row]
        /\ UNCHANGED <<payload, tasks, gameLock, log, delivered, recorded, unheard, mishaps>>
    BY DEF RecordFailure, RecordFailureLost, history
  <1>3. h.step = "unlock" /\ h.title = g /\ h.kind = m.kind /\ h.snap = m.snap
    BY <1>1 DEF Handlers
  <1> HIDE DEF h
  <1>4. monitor'[w] = h /\ \A v \in Monitors : v # w => monitor'[v] = monitor[v]
    BY <1>1, <1>2 DEF MonitorParts, Tell
  <1>5. Going(w, monitor'[w])
    BY <1>2, <1>3, <1>4 DEF Going
  <1>6. \A x \in Titles : x # g => watch'[x] = watch[x]
    BY <1>1, <1>2 DEF MonitorParts
  <1>7. mishaps[g] \in Nat
    BY <1>1, MishapsAreNat
  <1>8. RowsElsewhere(g) /\ PaySame(g) /\ mishaps'[g] = mishaps[g] + 0 /\ KeysElsewhere(g)
    BY <1>2, <1>6, <1>7, KeysUntouched DEF RowsElsewhere, PaySame
  <1>9. Lost' = Lost /\ Bad(g)' \subseteq Bad(g)
    BY <1>2, <1>4, BadKept DEF Unlogged
  <1>10. Payable(w, g, 0)
    BY <1>5, <1>8, <1>9 DEF Payable
  <1>11. Errand(g, monitor[w]) = 1 /\ Errand(g, monitor[w])' \in 0..1
    BY <1>2, <1>3, <1>4 DEF Errand, Early, Amid, Unit
  <1>12. RunDebt(monitor[w]) = 2 /\ RunDebt(monitor[w])' = 0
    BY <1>2, <1>3, <1>4 DEF RunDebt, Early
  <1>13. /\ Errand(g, monitor[w])' <= Errand(g, monitor[w]) + 3 * 0
         /\ 1 + RunDebt(monitor[w])' <= RunDebt(monitor[w]) + 3 * 0
    BY <1>11, <1>12
  <1> QED BY <1>8, <1>9, <1>10, <1>13, PaysEven

-----------------------------------------------------------------------------
(* The steps of a handler through its events. *)

\* A step on an event of the handler writes nothing but the log and what is known of it.
EventStep(w) ==
    /\ UNCHANGED <<payload, watch, tasks, gameLock>>
    /\ \A e \in Keys : e # Event(w) => /\ e \in log'.rows <=> e \in log.rows
                                       /\ e \in delivered'.once <=> e \in delivered.once
                                       /\ e \in recorded' <=> e \in recorded
                                       /\ e \in unheard' <=> e \in unheard

LEMMA EventStepIsOwn ==
    ASSUME Sound, NEW w \in Monitors, NEW g, g = monitor[w].title, Going(w, monitor'[w]),
           EventStep(w), monitor[w].todo # <<>>, mishaps' = mishaps \/ Mishap(g)
    PROVE  /\ RowsElsewhere(g) /\ KeysElsewhere(g) /\ PaySame(g)
           /\ mishaps' = mishaps => mishaps'[g] = mishaps[g] + 0
           /\ Mishap(g) => mishaps'[g] = mishaps[g] + 1
           /\ \A v \in Monitors : v # w => monitor'[v] = monitor[v]
           /\ \A e \in Keys : e # Event(w) => (e \in Lost' <=> e \in Lost)
           /\ \A e \in Keys : e # Event(w) => (e \in Told' <=> e \in Told)
           /\ \A e \in Bad(g)' : e # Event(w) => e \in Bad(g)
           /\ Event(w) \in Keys /\ Event(w).title = g
           /\ \A v \in Monitors : monitor[v].step = "send" => Event(v) \in Keys
           /\ Holding(w) => \A v \in Monitors : v # w /\ monitor[v].step = "send" => Event(v) # Event(w)
  <1>1. MonitorParts /\ g \in Titles
    BY StartsFrom
  <1>2. \A v \in Monitors : v # w => monitor'[v] = monitor[v]
    BY <1>1 DEF MonitorParts, Going, Tell
  <1>3. Event(w) \in Keys /\ Event(w).title = g
        /\ \A v \in Monitors : monitor[v].step = "send" => Event(v) \in Keys
    BY DEF Sound, OwnEvents
  <1>4. KeysElsewhere(g)
    BY <1>3 DEF EventStep, KeysElsewhere
  <1>5. \A e \in Keys : e # Event(w) => (e \in Lost' <=> e \in Lost) /\ (e \in Told' <=> e \in Told)
    BY DEF EventStep, Lost, Told
  <1>6. ASSUME NEW e \in Bad(g)', e # Event(w) PROVE e \in Bad(g)
    <2>1. OnItsWay(e) => OnItsWay(e)'
      BY <1>2, <1>6 DEF OnItsWay, Event
    <2>2. e \in Keys
      BY DEF Bad
    <2> QED BY <1>5, <1>6, <2>1, <2>2 DEF Bad, EventStep
  <1>7. Holding(w) => \A v \in Monitors : v # w /\ monitor[v].step = "send" => Event(v) # Event(w)
    BY DEF Sound, Guarded, Exclusive, Holding
  <1>8. /\ RowsElsewhere(g) /\ PaySame(g)
        /\ mishaps' = mishaps => mishaps'[g] = mishaps[g] + 0
        /\ Mishap(g) => mishaps'[g] = mishaps[g] + 1
    BY <1>1, RowsStay DEF EventStep
  <1> QED BY <1>2, <1>3, <1>4, <1>5, <1>6, <1>7, <1>8

LEMMA ReserveCounts ==
    ASSUME Sound, Sound', AllCounted, NEW w \in Monitors, NEW g, g = monitor[w].title, Reserve(w)
    PROVE  AllCounted'
  <1> DEFINE m == monitor[w]
             h == [m EXCEPT !.step = "send"]
  <1>1. MonitorParts /\ m \in Handlers /\ log \in [rows : SUBSET Keys, sent : SUBSET Keys]
    BY StartsFrom DEF Sound, Guarded, MonitorTypeOK
  <1>2. /\ m.step = "announce" /\ m.todo # <<>> /\ Tell(w, h)
        /\ log' = [log EXCEPT !.rows = @ \union {Event(w)}]
        /\ UNCHANGED <<payload, watch, tasks, gameLock, delivered, recorded, unheard, mishaps>>
    BY DEF Reserve, history, Event
  <1>3. /\ h.step = "send" /\ h.title = g /\ h.kind = m.kind /\ h.snap = m.snap
        /\ h.todo = m.todo /\ h.after = m.after
    BY <1>1 DEF Handlers
  <1> HIDE DEF h
  <1>4. monitor'[w] = h
    BY <1>1, <1>2 DEF MonitorParts, Tell
  <1>5. Going(w, monitor'[w])
    BY <1>2, <1>3, <1>4 DEF Going
  <1>6. log'.rows = log.rows \union {Event(w)}
    BY <1>1, <1>2
  <1>7. EventStep(w)
    BY <1>2, <1>6 DEF EventStep
  <1>8. /\ RowsElsewhere(g) /\ KeysElsewhere(g) /\ PaySame(g) /\ mishaps'[g] = mishaps[g] + 0
        /\ \A e \in Bad(g)' : e # Event(w) => e \in Bad(g)
    BY <1>2, <1>5, <1>7, EventStepIsOwn
  <1>9. Lost' = Lost /\ Told \subseteq Told'
    BY <1>2, <1>6 DEF Lost, Told
  <1>10. Bad(g)' \subseteq Bad(g)
    <2>1. PICK e : e = Event(w)
      OBVIOUS
    <2>2. OnItsWay(e)'
      BY <1>3, <1>4, <2>1 DEF OnItsWay, Event
    <2>3. e \in Bad(g)' => e \in Bad(g)
      BY <1>9, <2>2 DEF Bad
    <2> QED BY <1>8, <2>1, <2>3
  <1>11. RowSame(g)
    BY <1>2, <1>9 DEF RowSame
  <1>12. Payable(w, g, 0)
    BY <1>5, <1>8, <1>9 DEF Payable
  <1>13. Errand(g, monitor[w])' <= Errand(g, monitor[w])
    BY <1>2, <1>3, <1>4, <1>8, <1>9, ErrandKept DEF Amid
  <1>14. RunDebt(monitor[w]) = 2 /\ RunDebt(monitor[w])' <= 2
    BY <1>2, <1>3, <1>4 DEF RunDebt, Early
  <1>15. /\ Errand(g, monitor[w])' <= Errand(g, monitor[w]) + 3 * 0
         /\ RunDebt(monitor[w])' <= RunDebt(monitor[w]) + 3 * 0
    BY <1>13, <1>14, RunBounds
  <1> QED BY <1>8, <1>10, <1>11, <1>12, <1>15, PaysEven

LEMMA SendDeliversCounts ==
    ASSUME Sound, Sound', AllCounted, NEW w \in Monitors, NEW g, g = monitor[w].title,
           SendDelivers(w)
    PROVE  AllCounted'
  <1> DEFINE m == monitor[w]
             h == [m EXCEPT !.step = "finalise"]
  <1>1. MonitorParts /\ m \in Handlers /\ (m.step = "send" => m.todo # <<>>)
    BY StartsFrom
  <1>2. /\ m.step = "send" /\ m.todo # <<>> /\ Tell(w, h) /\ delivered' = Delivered(Event(w))
        /\ UNCHANGED <<payload, watch, tasks, gameLock, log, recorded, unheard, mishaps>>
    BY <1>1 DEF SendDelivers, history, Event
  <1>3. /\ h.step = "finalise" /\ h.title = g /\ h.kind = m.kind /\ h.snap = m.snap
        /\ h.todo = m.todo /\ h.after = m.after
    BY <1>1 DEF Handlers
  <1> HIDE DEF h
  <1>4. monitor'[w] = h
    BY <1>1, <1>2 DEF MonitorParts, Tell
  <1>5. Going(w, monitor'[w])
    BY <1>2, <1>3, <1>4 DEF Going
  <1>6. delivered'.once = delivered.once \union {Event(w)}
    BY <1>2 DEF Delivered
  <1>7. EventStep(w)
    BY <1>2, <1>6 DEF EventStep
  <1>8. /\ RowsElsewhere(g) /\ KeysElsewhere(g) /\ PaySame(g) /\ mishaps'[g] = mishaps[g] + 0
        /\ \A e \in Keys : e # Event(w) => (e \in Lost' <=> e \in Lost)
        /\ \A e \in Bad(g)' : e # Event(w) => e \in Bad(g)
        /\ Event(w) \in Keys /\ Event(w).title = g
        /\ \A v \in Monitors : monitor[v].step = "send" => Event(v) \in Keys
        /\ \A v \in Monitors : v # w /\ monitor[v].step = "send" => Event(v) # Event(w)
    BY <1>2, <1>5, <1>7, EventStepIsOwn DEF Holding
  <1>9. Told' = Told
    BY <1>2 DEF Told
  <1>10. Bad(g)' \subseteq Bad(g) \ {Event(w)}
    <2>1. Event(w) \notin Bad(g)'
      BY <1>6 DEF Bad, Lost
    <2> QED BY <1>8, <2>1
  <1>11. RowSame(g)
    BY <1>2, <1>9 DEF RowSame
  <1>12. Payable(w, g, 0)
    BY <1>5, <1>8 DEF Payable
  <1>13. Errand(g, monitor[w])' <= Errand(g, monitor[w])
    BY <1>2, <1>3, <1>4, <1>8, <1>9, ErrandKept DEF Amid
  <1>14. RunDebt(monitor[w]) = (IF Event(w) \in Lost THEN 1 ELSE 2) /\ RunDebt(monitor[w])' = 2
    BY <1>2, <1>3, <1>4 DEF RunDebt, Early, Event
  <1>15. CASE Event(w) \in Lost
    <2>1. Event(w) \in Bad(g)
      BY <1>8, <1>15 DEF Bad
    <2>2. /\ Errand(g, monitor[w])' <= Errand(g, monitor[w]) + 1
          /\ RunDebt(monitor[w])' <= RunDebt(monitor[w]) + 1
      BY <1>13, <1>14, <1>15, RunBounds
    <2>3. 0 \in 0..1
      OBVIOUS
    <2> QED BY <1>8, <1>10, <1>11, <1>12, <2>1, <2>2, <2>3, PaysLess
  <1>16. CASE Event(w) \notin Lost
    <2>1. /\ Errand(g, monitor[w])' <= Errand(g, monitor[w]) + 3 * 0
          /\ RunDebt(monitor[w])' <= RunDebt(monitor[w]) + 3 * 0
      BY <1>13, <1>14, <1>16, RunBounds
    <2>2. Bad(g)' \subseteq Bad(g)
      BY <1>10
    <2> QED BY <1>8, <1>11, <1>12, <2>1, <2>2, PaysEven
  <1> QED BY <1>15, <1>16

LEMMA SendThrowsCounts ==
    ASSUME Sound, Sound', AllCounted, NEW w \in Monitors, NEW g, g = monitor[w].title,
           SendThrows(w)
    PROVE  AllCounted'
  <1> DEFINE m == monitor[w]
             h == [m EXCEPT !.step = "failed"]
  <1>1. MonitorParts /\ m \in Handlers /\ (m.step = "send" => m.todo # <<>>)
    BY StartsFrom
  <1>2. /\ m.step = "send" /\ m.todo # <<>> /\ Tell(w, h) /\ Mishap(g)
        /\ delivered' = delivered \/ delivered' = Delivered(Event(w))
        /\ UNCHANGED <<payload, watch, tasks, gameLock, log, recorded, unheard>>
    BY <1>1 DEF SendThrows, history, Event
  <1>3. h.step = "failed" /\ h.title = g /\ h.kind = m.kind /\ h.snap = m.snap
    BY <1>1 DEF Handlers
  <1> HIDE DEF h
  <1>4. monitor'[w] = h
    BY <1>1, <1>2 DEF MonitorParts, Tell
  <1>5. Going(w, monitor'[w])
    BY <1>2, <1>3, <1>4 DEF Going
  <1>6. delivered'.once = delivered.once \/ delivered'.once = delivered.once \union {Event(w)}
    BY <1>2 DEF Delivered
  <1>7. EventStep(w)
    BY <1>2, <1>6 DEF EventStep
  <1>8. /\ RowsElsewhere(g) /\ KeysElsewhere(g) /\ PaySame(g) /\ mishaps'[g] = mishaps[g] + 1
        /\ \A e \in Keys : e # Event(w) => (e \in Lost' <=> e \in Lost)
        /\ \A e \in Bad(g)' : e # Event(w) => e \in Bad(g)
        /\ \A v \in Monitors : monitor[v].step = "send" => Event(v) \in Keys
        /\ \A v \in Monitors : v # w /\ monitor[v].step = "send" => Event(v) # Event(w)
    BY <1>2, <1>5, <1>7, EventStepIsOwn DEF Holding
  <1>9. Bad(g)' \subseteq Bad(g) \union {Event(w)}
    BY <1>8
  <1>10. RowSame(g)
    BY <1>2 DEF RowSame, Told
  <1>11. Payable(w, g, 1)
    BY <1>5, <1>8 DEF Payable
  <1>12. RunDebt(monitor[w]) >= 1 /\ RunDebt(monitor[w])' = 2
    BY <1>2, <1>3, <1>4 DEF RunDebt, Early
  <1>13. /\ 1 + Errand(g, monitor[w])' <= Errand(g, monitor[w]) + 3 * 1
         /\ 1 + RunDebt(monitor[w])' <= RunDebt(monitor[w]) + 3 * 1
    BY <1>12, RunBounds
  <1> QED BY <1>8, <1>9, <1>10, <1>11, <1>13, PaysMore

\* The event is delivered, so its row is there: the change stays announced.
LEMMA FinaliseCounts ==
    ASSUME Sound, Sound', AllCounted, NEW w \in Monitors, NEW g, g = monitor[w].title, Finalise(w)
    PROVE  AllCounted'
  <1> DEFINE m == monitor[w]
             h == [m EXCEPT !.step = "announce", !.todo = Tail(m.todo),
                            !.sentDay = m.sentDay \/ Head(m.todo).type = "day"]
  <1>1. /\ MonitorParts /\ m \in Handlers /\ m.todo \in Seq(Keys)
        /\ (m.step = "finalise" => m.todo # <<>>)
        /\ log \in [rows : SUBSET Keys, sent : SUBSET Keys]
    BY StartsFrom DEF Sound, Guarded, MonitorTypeOK
  <1>2. /\ m.step = "finalise" /\ m.todo # <<>> /\ Tell(w, h)
        /\ log' = [log EXCEPT !.sent = @ \union ({Head(m.todo)} \intersect log.rows)]
        /\ UNCHANGED <<payload, watch, tasks, gameLock, delivered, recorded, unheard, mishaps>>
    BY <1>1 DEF Finalise, history
  <1>3. /\ h.step = "announce" /\ h.title = g /\ h.kind = m.kind /\ h.snap = m.snap
        /\ h.todo = Tail(m.todo) /\ h.after = m.after
    BY <1>1 DEF Handlers
  <1> HIDE DEF h
  <1>4. monitor'[w] = h
    BY <1>1, <1>2 DEF MonitorParts, Tell
  <1>5. Going(w, monitor'[w])
    BY <1>2, <1>3, <1>4 DEF Going
  <1>6. log'.rows = log.rows
    BY <1>1, <1>2
  <1>7. /\ PaySame(g) /\ RowSame(g) /\ Payable(w, g, 0) /\ Bad(g)' \subseteq Bad(g) /\ Told' = Told
    BY <1>2, <1>5, <1>6, QuietStep DEF Unlogged
  <1>8. Event(w) \in Told
    BY <1>2 DEF Sound, Kept, Guarded, Exclusive, Told
  <1>9. Agenda(m.todo) = {Event(w)} \union Agenda(h.todo)
    BY <1>1, <1>2, <1>3, NextEvent DEF Event
  <1>10. Errand(g, monitor[w])' <= Errand(g, monitor[w])
    BY <1>2, <1>3, <1>4, <1>7, <1>8, <1>9, ErrandKept DEF Amid
  <1>11. RunDebt(monitor[w]) = 2 /\ RunDebt(monitor[w])' = 2
    BY <1>2, <1>3, <1>4 DEF RunDebt, Early
  <1>12. /\ Errand(g, monitor[w])' <= Errand(g, monitor[w]) + 3 * 0
         /\ RunDebt(monitor[w])' <= RunDebt(monitor[w]) + 3 * 0
    BY <1>10, <1>11, RunBounds
  <1> QED BY <1>7, <1>12, PaysEven

\* Another handler, which stands still, has paid or pays.
LEMMA PaysOther ==
    ASSUME Sound, Sound', AllCounted, NEW w \in Monitors, Going(w, monitor'[w]),
           NEW g, g = monitor[w].title, RowsElsewhere(g), KeysElsewhere(g), mishaps'[g] = mishaps[g],
           NEW v \in Monitors, v # w, NEW x \in {-1, 1}, BadGrows(g, x),
           x + Owes(v, g)' <= Owes(v, g),
           \A u \in Monitors :
              u # w /\ u # v /\ monitor[u].step = "send" /\ Event(u) \in Lost => Event(u) \in Lost',
           Regular(w, g) => Errand(g, monitor[w])' <= Errand(g, monitor[w]),
           ~Regular(w, g) => /\ PaySame(g) /\ RowSame(g)
                             /\ RunDebt(monitor[w])' <= RunDebt(monitor[w])
    PROVE  AllCounted'
  <1> DEFINE h == monitor'[w]
  <1>1. h \in Handlers
    BY DEF Sound, Guarded, MonitorTypeOK, Handlers, Steps
  <1>2. Going(w, h)
    OBVIOUS
  <1> HIDE DEF h
  <1>3. /\ g \in Titles
        /\ \A u \in Monitors :
             u # w /\ (monitor[u].step = "send" /\ Event(u) \in Lost => Event(u) \in Lost')
               => Owes(u, g)' <= Owes(u, g)
        /\ ForcedDebt(g)' <= ForcedDebt(g)
        /\ Regular(w, g) =>
             /\ Owes(w, g) = 0 /\ Owes(w, g)' = 0
             /\ DueDebt(g)' + Errand(g, monitor[w]) <= DueDebt(g) + Errand(g, monitor[w])'
        /\ ~Regular(w, g) =>
             /\ Owes(w, g) = RunDebt(monitor[w]) /\ Owes(w, g)' = RunDebt(monitor[w])'
             /\ PaySame(g) /\ RowSame(g) => DueDebt(g)' <= DueDebt(g)
    BY <1>1, <1>2, GoingSpends
  <1>4. mishaps[g] \in Nat /\ mishaps'[g] \in Nat /\ 3 * (mishaps'[g] - mishaps[g]) = 0
    BY <1>3, MishapsAreNat
  <1>5. Errand(g, monitor[w]) \in 0..2 /\ Errand(g, monitor[w])' \in 0..2
    BY RunBounds
  <1>6. DebtTyped /\ DebtTyped'
    BY DebtTypes, PTL
  <1>7. /\ ForcedDebt(g) \in Nat /\ ForcedDebt(g)' \in Nat
        /\ DueDebt(g) \in 0..4 /\ DueDebt(g)' \in 0..4
        /\ Owes(v, g) \in 0..3 /\ Owes(v, g)' \in 0..3
    BY <1>3, <1>6 DEF DebtTyped
  <1>8. DueDebt(g)' <= DueDebt(g) /\ Owes(w, g)' <= Owes(w, g)
    <2>1. CASE Regular(w, g)
      BY <1>3, <1>5, <1>7, <2>1
    <2>2. CASE ~Regular(w, g)
      BY <1>3, <1>7, <2>2
    <2> QED BY <2>1, <2>2
  <1>9. x + Owes(v, g)' + ForcedDebt(g)' + DueDebt(g)'
          <= Owes(v, g) + ForcedDebt(g) + DueDebt(g) + 3 * (mishaps'[g] - mishaps[g])
    BY <1>3, <1>4, <1>7, <1>8
  <1>10. x \in Int /\ IsFiniteSet(Bad(g)') /\ Cardinality(Bad(g)') <= Cardinality(Bad(g)) + x
    BY DEF BadGrows
  <1>11. \A u \in Monitors : u # v => Owes(u, g)' <= Owes(u, g)
    BY <1>3, <1>8
  <1>12. CountedFor(g)'
    BY <1>3, <1>4, <1>9, <1>10, <1>11, DebtSettles DEF AllCounted
  <1> QED BY <1>1, <1>2, <1>12, GoingCounts

\* An event that nobody hears, that is in the log, or that is not the change.
LEMMA SkipEventCounts ==
    ASSUME Sound, Sound', AllCounted, NEW w \in Monitors, NEW g, g = monitor[w].title, SkipEvent(w)
    PROVE  AllCounted'
  <1> DEFINE m == monitor[w]
             h == [m EXCEPT !.todo = Tail(m.todo)]
  <1>1. MonitorParts /\ m \in Handlers /\ m.todo \in Seq(Keys) /\ g \in Titles
    BY StartsFrom
  <1>2. /\ m.step = "announce" /\ m.todo # <<>> /\ Tell(w, h) /\ Skips(m, Event(w))
        /\ unheard' = IF ~m.reach THEN unheard \union {Event(w)} ELSE unheard
        /\ UNCHANGED <<payload, watch, tasks, gameLock, log, delivered, recorded, mishaps>>
    BY DEF SkipEvent, Event
  <1>3. /\ h.step = "announce" /\ h.title = g /\ h.kind = m.kind /\ h.snap = m.snap
        /\ h.todo = Tail(m.todo) /\ h.after = m.after
    BY <1>1, <1>2 DEF Handlers
  <1> HIDE DEF h
  <1>4. monitor'[w] = h
    BY <1>1, <1>2 DEF MonitorParts, Tell
  <1>5. Going(w, monitor'[w])
    BY <1>2, <1>3, <1>4 DEF Going
  <1>6. EventStep(w)
    BY <1>2 DEF EventStep
  <1>7. /\ RowsElsewhere(g) /\ KeysElsewhere(g) /\ PaySame(g) /\ mishaps'[g] = mishaps[g] + 0
        /\ \A v \in Monitors : v # w => monitor'[v] = monitor[v]
        /\ \A e \in Keys : e # Event(w) => (e \in Lost' <=> e \in Lost)
        /\ Event(w) \in Keys /\ Event(w).title = g
        /\ \A v \in Monitors : monitor[v].step = "send" => Event(v) \in Keys
    BY <1>2, <1>5, <1>6, EventStepIsOwn
  <1>8. Told \subseteq Told' /\ Lost' \subseteq Lost /\ unheard' \in {unheard, unheard \union {Event(w)}}
    BY <1>2 DEF Told, Lost
  <1>9. RowSame(g)
    BY <1>2, <1>8 DEF RowSame
  <1>10. Event(w) \in Due(g, m.after) => Event(w) \in Told'
    <2>1. PICK e : e = Event(w)
      OBVIOUS
    <2>2. e \in Due(g, m.after) => e.type # "day"
      BY <1>1, DueIsOwn
    <2>3. ~m.reach => e \in Told'
      BY <1>2, <2>1 DEF Told
    <2>4. e \in log.rows => e \in Told'
      BY <1>2 DEF Told
    <2> QED BY <1>2, <2>1, <2>2, <2>3, <2>4 DEF Skips
  <1>11. Agenda(m.todo) = {Event(w)} \union Agenda(h.todo)
    BY <1>1, <1>2, <1>3, NextEvent DEF Event
  <1>12. Errand(g, monitor[w])' <= Errand(g, monitor[w])
    <2>1. \A e \in Due(g, m.after) :
             e \in Told \union Agenda(m.todo) => e \in Told' \union Agenda(monitor'[w].todo)
      BY <1>4, <1>8, <1>10, <1>11
    <2>2. /\ m.step \in Amid /\ monitor'[w].step \in Amid /\ monitor'[w].after = m.after
          /\ monitor'[w].snap = m.snap /\ watch'[g] = watch[g]
      BY <1>2, <1>3, <1>4 DEF Amid
    <2> QED BY <1>7, <2>1, <2>2, ErrandKept
  <1>13. RunDebt(monitor[w]) = 2 /\ RunDebt(monitor[w])' = 2
    BY <1>2, <1>3, <1>4 DEF RunDebt, Early
  <1>14. Bad(g)' \subseteq Bad(g)
    <2>1. \A e : OnItsWay(e) => OnItsWay(e)'
      BY <1>2, <1>7 DEF OnItsWay, Event
    <2> QED BY <1>2, <1>8, <2>1 DEF Bad
  <1>15. CASE \A v \in Monitors :
                v # w /\ monitor[v].step = "send" /\ Event(v) \in Lost => Event(v) # Event(w)
    <2>1. Payable(w, g, 0)
      BY <1>5, <1>7, <1>15 DEF Payable
    <2>2. /\ Errand(g, monitor[w])' <= Errand(g, monitor[w]) + 3 * 0
          /\ RunDebt(monitor[w])' <= RunDebt(monitor[w]) + 3 * 0
      BY <1>12, <1>13, RunBounds
    <2> QED BY <1>7, <1>9, <1>14, <2>1, <2>2, PaysEven
  <1>16. ASSUME NEW v \in Monitors, v # w, monitor[v].step = "send", Event(v) \in Lost, Event(v) = Event(w)
         PROVE  AllCounted'
    <2>1. PICK e : e = Event(w)
      OBVIOUS
    <2>2. CASE unheard' = unheard
      <3>1. Lost' = Lost
        BY <1>2, <2>2 DEF Lost
      <3>2. Payable(w, g, 0)
        BY <1>5, <1>7, <3>1 DEF Payable
      <3>3. /\ Errand(g, monitor[w])' <= Errand(g, monitor[w]) + 3 * 0
            /\ RunDebt(monitor[w])' <= RunDebt(monitor[w]) + 3 * 0
        BY <1>12, <1>13, RunBounds
      <3> QED BY <1>7, <1>9, <1>14, <3>2, <3>3, PaysEven
    <2>3. CASE unheard' = unheard \union {e}
      <3>1. e \in Bad(g) /\ e \notin Lost'
        BY <1>7, <1>16, <2>1, <2>3 DEF Bad, Lost
      <3>2. OnItsWay(e)'
        BY <1>7, <1>16, <2>1 DEF OnItsWay, Event
      <3>3. Bad(g)' \subseteq Bad(g) \ {e}
        BY <1>14, <3>1, <3>2 DEF Bad
      <3>4. BadGrows(g, -1)
        BY <1>1, <3>1, <3>3, BadSteps DEF AllCounted
      <3>5. -1 + Owes(v, g)' <= Owes(v, g)
        <4>1. Stray(v, g)' <=> Stray(v, g)
          BY <1>2, <1>7, <1>16 DEF Stray, Regular, Runs, Active
        <4>2. RunDebt(monitor[v]) = 1
          BY <1>16 DEF RunDebt, Early, Event
        <4>3. RunDebt(monitor[v])' <= 2
          BY <1>7, <1>16 DEF RunDebt, Early
        <4>4. RunDebt(monitor[v])' \in 0..3
          BY RunBounds
        <4> QED BY <4>1, <4>2, <4>3, <4>4 DEF Owes
      <3>6. \A u \in Monitors : u # w /\ u # v /\ monitor[u].step = "send" /\ Event(u) \in Lost
                                  => Event(u) \in Lost'
        <4>1. \A u \in Monitors : u # v /\ monitor[u].step = "send" => Event(u) # Event(v)
          BY <1>16 DEF Sound, Guarded, Exclusive, Holding
        <4> QED BY <1>7, <1>16, <4>1
      <3>7. mishaps'[g] = mishaps[g]
        BY <1>2
      <3>8. -1 \in {-1, 1} /\ RunDebt(monitor[w])' <= RunDebt(monitor[w])
        BY <1>13
      <3> QED BY <1>5, <1>7, <1>9, <1>12, <1>16, <3>4, <3>5, <3>6, <3>7, <3>8, PaysOther
    <2> QED BY <1>8, <2>1, <2>2, <2>3
  <1> QED BY <1>15, <1>16

\* A reservation that was not sent is no longer bad, but the change is to be announced.
LEMMA ReleaseReservationCounts ==
    ASSUME Sound, Sound', AllCounted, NEW w \in Monitors, NEW g, g = monitor[w].title,
           ReleaseReservation(w)
    PROVE  AllCounted'
  <1> DEFINE m == monitor[w]
             h == [m EXCEPT !.step = "announce", !.todo = Tail(m.todo)]
  <1>1. /\ MonitorParts /\ m \in Handlers /\ m.todo \in Seq(Keys) /\ g \in Titles
        /\ (m.step = "release" => m.todo # <<>>)
        /\ log \in [rows : SUBSET Keys, sent : SUBSET Keys]
    BY StartsFrom DEF Sound, Guarded, MonitorTypeOK
  <1>2. /\ m.step = "release" /\ m.todo # <<>> /\ Tell(w, h)
        /\ log' = [log EXCEPT !.rows = @ \ ({Event(w)} \ log.sent)]
        /\ UNCHANGED <<payload, watch, tasks, gameLock, delivered, recorded, unheard, mishaps>>
    BY <1>1 DEF ReleaseReservation, history, Event
  <1>3. /\ h.step = "announce" /\ h.title = g /\ h.kind = m.kind /\ h.snap = m.snap
        /\ h.todo = Tail(m.todo) /\ h.after = m.after
    BY <1>1, <1>2 DEF Handlers
  <1> HIDE DEF h
  <1>4. monitor'[w] = h
    BY <1>1, <1>2 DEF MonitorParts, Tell
  <1>5. Going(w, monitor'[w])
    BY <1>2, <1>3, <1>4 DEF Going
  <1>6. log'.rows \in {log.rows, log.rows \ {Event(w)}}
    BY <1>1, <1>2
  <1>7. EventStep(w)
    BY <1>2, <1>6 DEF EventStep
  <1>8. /\ RowsElsewhere(g) /\ KeysElsewhere(g) /\ PaySame(g) /\ mishaps'[g] = mishaps[g] + 0
        /\ \A e \in Keys : e # Event(w) => (e \in Told' <=> e \in Told)
        /\ \A e \in Bad(g)' : e # Event(w) => e \in Bad(g)
        /\ Event(w) \in Keys /\ Event(w).title = g
        /\ \A v \in Monitors : v # w /\ monitor[v].step = "send" => Event(v) # Event(w)
    BY <1>2, <1>5, <1>7, EventStepIsOwn DEF Holding
  <1>9. Lost' = Lost
    BY <1>2 DEF Lost
  <1>10. Event(w) \in Bad(g)
    <2>1. Event(w) \in log.rows \ delivered.once
      BY <1>2 DEF Sound, Guarded, Exclusive, Holding
    <2>2. ~OnItsWay(Event(w))
      BY <1>2, <1>8 DEF OnItsWay
    <2> QED BY <1>8, <2>1, <2>2 DEF Bad
  <1>11. Agenda(m.todo) = {Event(w)} \union Agenda(h.todo)
    BY <1>1, <1>2, <1>3, NextEvent DEF Event
  <1>12. RunDebt(monitor[w]) = 2 /\ RunDebt(monitor[w])' = 2
    BY <1>2, <1>3, <1>4 DEF RunDebt, Early
  <1>13. Payable(w, g, 0)
    BY <1>5, <1>8, <1>9 DEF Payable
  <1>14. CASE Event(w) \in Told'
    <2>1. \A e \in Due(g, m.after) :
             e \in Told \union Agenda(m.todo) => e \in Told' \union Agenda(monitor'[w].todo)
      BY <1>4, <1>8, <1>11, <1>14 DEF Due
    <2>2. /\ m.step \in Amid /\ monitor'[w].step \in Amid /\ monitor'[w].after = m.after
          /\ monitor'[w].snap = m.snap /\ watch'[g] = watch[g]
      BY <1>2, <1>3, <1>4 DEF Amid
    <2>3. Errand(g, monitor[w])' <= Errand(g, monitor[w])
      BY <1>8, <2>1, <2>2, ErrandKept
    <2>4. /\ Errand(g, monitor[w])' <= Errand(g, monitor[w]) + 3 * 0
          /\ RunDebt(monitor[w])' <= RunDebt(monitor[w]) + 3 * 0
      BY <1>12, <2>3, RunBounds
    <2>5. RowSame(g)
      <3>1. \A e \in Keys : e \in Told => e \in Told'
        BY <1>8, <1>14
      <3>2. Told \subseteq Keys
        BY <1>1 DEF Told, MonitorParts
      <3> QED BY <1>2, <3>1, <3>2 DEF RowSame
    <2>6. Bad(g)' \subseteq Bad(g)
      BY <1>8, <1>10
    <2> QED BY <1>8, <1>13, <2>4, <2>5, <2>6, PaysEven
  <1>15. CASE Event(w) \notin Told'
    <2>1. PICK e : e = Event(w)
      OBVIOUS
    <2>2. e \notin Bad(g)'
      BY <1>15, <2>1 DEF Bad, Told, Lost
    <2>3. e \in Bad(g) /\ Bad(g)' \subseteq Bad(g) \ {e}
      BY <1>8, <1>10, <2>1, <2>2
    <2>4. Errand(g, monitor[w])' <= Errand(g, monitor[w]) + 1
      <3> DEFINE a == Unit(payload[g] # monitor[w].after)
                 b == Unit(Misled(g, monitor[w].snap) \/ ~Announced(g, monitor[w]))
      <3>1. Errand(g, monitor[w]) = a + b /\ Errand(g, monitor[w])' = a' + b'
        BY <1>2, <1>3, <1>4 DEF Errand, Early, Amid
      <3>2. a' = a
        BY <1>2, <1>3, <1>4 DEF Unit
      <3>3. a \in 0..1 /\ a' \in 0..1 /\ b \in 0..1 /\ b' \in 0..1
        BY DEF Unit
      <3> HIDE DEF a, b
      <3> QED BY <3>1, <3>2, <3>3, Sums
    <2>5. RunDebt(monitor[w])' <= RunDebt(monitor[w]) /\ 0 \in 0..1
      BY <1>12
    <2> QED BY <1>8, <1>13, <2>3, <2>4, <2>5, PaysLess
  <1> QED BY <1>14, <1>15

\* The patch moves the payload to the date found; a job that is not misled says so.
LEMMA PatchCounts ==
    ASSUME Sound, Sound', AllCounted, NEW w \in Monitors, NEW g, g = monitor[w].title, Patch(w)
    PROVE  AllCounted'
  <1> DEFINE m == monitor[w]
             todo == IF m.snap.watched THEN ReleaseEvents(g, Before(m.snap), m.after, m.day) ELSE <<>>
             h == [m EXCEPT !.step = "announce", !.todo = todo]
  <1>1. /\ MonitorParts /\ m \in Handlers /\ g \in Titles /\ m.snap \in Snapshots /\ m.after \in Release
    BY StartsFrom
  <1>2. /\ m.step = "patch" /\ Tell(w, h)
        /\ payload' = IF m.after # m.snap.payload THEN [payload EXCEPT ![g] = m.after] ELSE payload
        /\ UNCHANGED <<watch, tasks, gameLock, log, delivered, recorded, unheard, mishaps>>
    BY DEF Patch, history
  <1> HIDE DEF todo
  <1>3. /\ h.step = "announce" /\ h.title = g /\ h.kind = m.kind /\ h.snap = m.snap
        /\ h.todo = todo /\ h.after = m.after
    BY <1>1 DEF Handlers
  <1> HIDE DEF h
  <1>4. monitor'[w] = h /\ \A v \in Monitors : v # w => monitor'[v] = monitor[v]
    BY <1>1, <1>2 DEF MonitorParts, Tell
  <1>5. Going(w, monitor'[w])
    BY <1>2, <1>3, <1>4 DEF Going
  <1>6. /\ \A x \in Titles : x # g => payload'[x] = payload[x]
        /\ payload'[g] = IF m.after # m.snap.payload THEN m.after ELSE payload[g]
    BY <1>1, <1>2 DEF MonitorParts
  <1>7. mishaps'[g] = mishaps[g] + 0
    BY <1>1, <1>2, MishapsAreNat
  <1>8. RowsElsewhere(g) /\ KeysElsewhere(g)
    BY <1>2, <1>6, KeysUntouched DEF RowsElsewhere
  <1>9. Lost' = Lost /\ Told' = Told /\ Bad(g)' \subseteq Bad(g)
    BY <1>2, <1>4, BadKept DEF Unlogged
  <1>10. RowSame(g)
    BY <1>2, <1>9 DEF RowSame
  <1>11. Payable(w, g, 0)
    BY <1>5, <1>7, <1>8, <1>9 DEF Payable
  <1>12. RunDebt(monitor[w]) = 3 /\ RunDebt(monitor[w])' = 2
    BY <1>2, <1>3, <1>4 DEF RunDebt, Early
  <1>13. Errand(g, monitor[w])' <= Errand(g, monitor[w])
    <2> DEFINE i == Unit(payload'[g] # h.after)
               j == Unit(payload[g] # m.snap.payload)
               l == Unit(Misled(g, m.snap))
    <2>1. Errand(g, monitor[w]) = j + l
      BY <1>2 DEF Errand, Early, RestDebt
    <2>2. Misled(g, monitor[w].snap)' <=> Misled(g, m.snap)
      BY <1>2, <1>3, <1>4 DEF Misled
    <2>3. Errand(g, monitor[w])' = i + Unit(Misled(g, m.snap) \/ ~Announced(g, monitor[w])')
      BY <1>3, <1>4, <2>2 DEF Errand, Early, Amid
    <2>4. i <= j
      BY <1>3, <1>6 DEF Unit
    <2>5. ~Misled(g, m.snap) => Announced(g, monitor[w])'
      <3> SUFFICES ASSUME ~Misled(g, m.snap), NEW e \in Due(g, m.after)
                   PROVE  e \in Agenda(todo)
        BY <1>2, <1>3, <1>4 DEF Announced, Due
      <3>1. watch[g] # NoWatch /\ <<e>> = ChangeEvents(g, watch[g].marker, m.after)
        BY DEF Due
      <3>2. m.snap.watched /\ m.snap.marker = watch[g].marker /\ Before(m.snap) = watch[g].marker
        BY <3>1 DEF Misled, Before
      <3>3. Before(m.snap) \in Release
        BY <1>1, BeforeIsOne
      <3> QED BY <1>1, <3>1, <3>2, <3>3, ChangeIsAnnounced DEF todo
    <2>6. Unit(Misled(g, m.snap) \/ ~Announced(g, monitor[w])') <= l
      BY <2>5 DEF Unit
    <2>7. /\ i \in 0..1 /\ j \in 0..1 /\ l \in 0..1
          /\ Unit(Misled(g, m.snap) \/ ~Announced(g, monitor[w])') \in 0..1
      BY DEF Unit
    <2> HIDE DEF i, j, l
    <2> QED BY <2>1, <2>3, <2>4, <2>6, <2>7, Sums
  <1>14. /\ Errand(g, monitor[w])' <= Errand(g, monitor[w]) + 3 * 0
         /\ 1 + RunDebt(monitor[w])' <= RunDebt(monitor[w]) + 3 * 0
    BY <1>12, <1>13, RunBounds
  <1> QED BY <1>9, <1>10, <1>11, <1>14, PaysEven

-----------------------------------------------------------------------------
(* The row is written: a change that nobody told of is lost.               *)

LEMMA RecordWatchCounts ==
    ASSUME Sound, Sound', AllCounted, NEW w \in Monitors, NEW g, g = monitor[w].title, RecordWatch(w)
    PROVE  AllCounted'
  <1> DEFINE m == monitor[w]
             h == [m EXCEPT !.step = "unlock"]
             due == Due(g, m.after)
  <1>1. /\ MonitorParts /\ m \in Handlers /\ g \in Titles /\ m.after \in Release
    BY StartsFrom
  <1>2. /\ m.step = "announce" /\ m.todo = <<>> /\ Tell(w, h)
        /\ \E day : watch' = [watch EXCEPT ![g] = [marker |-> m.after, day |-> day]]
        /\ recorded' = IF watch[g] = NoWatch THEN recorded
                       ELSE recorded \union {e \in Keys : <<e>> = ChangeEvents(g, watch[g].marker, m.after)}
        /\ UNCHANGED <<payload, tasks, gameLock, log, delivered, unheard, mishaps>>
    BY DEF RecordWatch
  <1>3. h.step = "unlock" /\ h.title = g /\ h.kind = m.kind /\ h.snap = m.snap
    BY <1>1 DEF Handlers
  <1> HIDE DEF h
  <1>4. monitor'[w] = h /\ \A v \in Monitors : v # w => monitor'[v] = monitor[v]
    BY <1>1, <1>2 DEF MonitorParts, Tell
  <1>5. Going(w, monitor'[w])
    BY <1>2, <1>3, <1>4 DEF Going
  <1>6. /\ \A x \in Titles : x # g => watch'[x] = watch[x]
        /\ watch'[g].marker = m.after
    BY <1>1, <1>2 DEF MonitorParts
  <1>7. recorded' = recorded \union due
    BY <1>2 DEF Due
  <1>8. \A e \in due : e \in Keys /\ e.title = g /\ <<e>> = ChangeEvents(g, watch[g].marker, m.after)
    BY <1>1, DueIsOwn
  <1>9. \A d, e \in due : d = e
    BY <1>8
  <1> HIDE DEF due
  <1>10. mishaps'[g] = mishaps[g] + 0 /\ mishaps'[g] = mishaps[g]
    BY <1>1, <1>2, MishapsAreNat
  <1>11. RowsElsewhere(g) /\ KeysElsewhere(g) /\ PaySame(g)
    BY <1>2, <1>6, <1>7, <1>8 DEF RowsElsewhere, KeysElsewhere, PaySame
  <1>12. Lost \subseteq Lost' /\ \A e \in Lost' : e \in Lost \/ e \in due
    BY <1>2, <1>7 DEF Lost
  <1>13. Payable(w, g, 0)
    BY <1>5, <1>10, <1>11, <1>12 DEF Payable
  <1>14. RunDebt(monitor[w]) = 2 /\ RunDebt(monitor[w])' = 0
    BY <1>2, <1>3, <1>4 DEF RunDebt, Early
  <1>15. /\ Errand(g, monitor[w])' <= Errand(g, monitor[w])
         /\ ~Announced(g, m) => 1 + Errand(g, monitor[w])' <= Errand(g, monitor[w])
    <2> DEFINE a == Unit(payload[g] # m.after)
               b == Unit(Misled(g, m.snap) \/ ~Announced(g, m))
               c == Unit(Missing(g))
    <2>1. Errand(g, monitor[w]) = a + b
      BY <1>2 DEF Errand, Early, Amid
    <2>2. Errand(g, monitor[w])' = c'
      BY <1>3, <1>4 DEF Errand, Early, Amid
    <2>3. c' <= a
      BY <1>2, <1>6 DEF Unit, Missing
    <2>4. /\ a \in 0..1 /\ b \in 0..1 /\ c' \in 0..1
          /\ ~Announced(g, m) => b = 1
      BY DEF Unit
    <2> HIDE DEF a, b, c
    <2> QED BY <2>1, <2>2, <2>3, <2>4
  <1>16. \A e \in Bad(g)' : e \in Bad(g) \/ e \in due \ Lost
    <2>1. \A e : OnItsWay(e) => OnItsWay(e)'
      BY <1>2, <1>4 DEF OnItsWay, Event
    <2> QED BY <1>2, <1>12, <2>1 DEF Bad
  <1>17. CASE Bad(g)' \subseteq Bad(g)
    <2>1. /\ Errand(g, monitor[w])' <= Errand(g, monitor[w]) + 3 * 0
          /\ 1 + RunDebt(monitor[w])' <= RunDebt(monitor[w]) + 3 * 0
      BY <1>14, <1>15, RunBounds
    <2> QED BY <1>11, <1>13, <1>17, <2>1, PaysEven
  <1>18. ASSUME NEW e \in Bad(g)', e \notin Bad(g)
         PROVE  AllCounted'
    <2>1. e \in due /\ e \notin Lost /\ Bad(g)' \subseteq Bad(g) \union {e}
      BY <1>9, <1>16, <1>18
    <2>2. CASE ~Regular(w, g) \/ ~Announced(g, m)
      <3>1. Regular(w, g) => 1 + Errand(g, monitor[w])' <= Errand(g, monitor[w]) + 3 * 0
        BY <1>15, <2>2, RunBounds
      <3>2. 2 + RunDebt(monitor[w])' <= RunDebt(monitor[w]) + 3 * 0
        BY <1>14
      <3> QED BY <1>11, <1>13, <2>1, <3>1, <3>2, PaysMore
    <2>3. CASE Regular(w, g) /\ Announced(g, m)
      <3>1. e \in Told
        BY <1>2, <2>1, <2>3, NothingToSay DEF Announced, due
      <3>2. e \in Lost'
        <4>1. CASE e \in log.rows \ delivered.once /\ ~OnItsWay(e)
          BY <1>8, <1>18, <2>1, <4>1 DEF Bad
        <4>2. CASE e \notin Lost'
          <5>1. e \in log'.rows \ delivered'.once /\ ~OnItsWay(e)'
            BY <1>18, <4>2 DEF Bad
          <5>2. ~OnItsWay(e)
            BY <1>2, <1>4, <5>1 DEF OnItsWay, Event
          <5> QED BY <1>2, <4>1, <5>1, <5>2
        <4> QED BY <4>2
      <3>3. e \notin unheard /\ e \notin delivered.once
        BY <1>2, <3>2 DEF Lost
      <3>4. e \in log.rows
        BY <2>1, <3>1, <3>3 DEF Told, Lost
      <3>5. OnItsWay(e)
        BY <1>8, <1>18, <2>1, <3>3, <3>4 DEF Bad
      <3>6. PICK v \in Monitors : monitor[v].step = "send" /\ Event(v) = e
        BY <3>5 DEF OnItsWay
      <3>7. v # w /\ monitor'[v] = monitor[v]
        BY <1>2, <1>4, <3>6
      <3>8. Active(v) /\ monitor[v].title = g
        <4>1. Event(v).title = monitor[v].title
          BY <3>6 DEF Sound, OwnEvents
        <4> QED BY <1>8, <2>1, <3>6, <4>1 DEF Active
      <3>9. Stray(v, g) /\ Stray(v, g)'
        BY <1>2, <2>3, <3>7, <3>8 DEF Stray, Regular, Runs, Active
      <3>10. RunDebt(monitor[v]) = 2 /\ RunDebt(monitor[v])' = 1
        BY <2>1, <3>2, <3>6, <3>7 DEF RunDebt, Early, Event
      <3>11. 1 + Owes(v, g)' <= Owes(v, g)
        BY <3>9, <3>10 DEF Owes
      <3>12. BadGrows(g, 1)
        BY <1>1, <2>1, BadSteps DEF AllCounted
      <3>13. 1 \in {-1, 1}
        OBVIOUS
      <3> QED BY <1>5, <1>10, <1>11, <1>12, <1>15, <2>3, <3>7, <3>11, <3>12, <3>13, PaysOther
    <2> QED BY <2>2, <2>3
  <1> QED BY <1>17, <1>18

-----------------------------------------------------------------------------
(* A handler comes to its end, or dies. *)

\* Its job is not its own any more, is done, or, if it failed, waits again.
LEMMA JobAtEnd ==
    ASSUME MonitorParts, NEW w \in Monitors, NEW g, g = monitor[w].title, NEW k, k = monitor[w].kind,
           JobDone(w) \/ JobFailed(w)
    PROVE  /\ g \in Titles /\ k \in Kinds
           /\ monitor'[w] = Resting /\ \A v \in Monitors : v # w => monitor'[v] = monitor[v]
           /\ \A x \in Titles : x # g => tasks'[x] = tasks[x]
           /\ \A j \in Kinds : j # k => tasks'[g][j] = tasks[g][j]
           /\ \/ tasks' = tasks /\ ~(tasks[g][k] # NoTask /\ tasks[g][k].owner = w)
              \/ /\ tasks[g][k] # NoTask /\ tasks[g][k].owner = w
                 /\ \/ tasks'[g][k] = NoTask
                    \/ ~JobDone(w) /\ tasks'[g][k] = [owner |-> NoMonitor, snap |-> tasks[g][k].snap]
  <1>1. g \in Titles /\ k \in Kinds /\ tasks \in [Titles -> [Kinds -> Jobs \union {NoTask}]]
    BY DEF MonitorParts, Handlers
  <1>2. Tell(w, Resting)
    BY DEF JobDone, JobFailed
  <1>3. \/ tasks' = tasks /\ ~(tasks[g][k] # NoTask /\ tasks[g][k].owner = w)
        \/ /\ tasks[g][k] # NoTask /\ tasks[g][k].owner = w
           /\ \/ tasks' = [tasks EXCEPT ![g][k] = NoTask]
              \/ ~JobDone(w) /\ tasks' = [tasks EXCEPT ![g][k].owner = NoMonitor]
    <2>1. CASE JobDone(w)
      BY <2>1 DEF JobDone
    <2>2. CASE ~JobDone(w)
      <3>1. JobFailed(w)
        BY <2>2
      <3> QED BY <2>2, <3>1 DEF JobFailed
    <2> QED BY <2>1, <2>2
  <1>4. CASE tasks' = tasks /\ ~(tasks[g][k] # NoTask /\ tasks[g][k].owner = w)
    BY <1>1, <1>2, <1>3, <1>4 DEF MonitorParts, Tell
  <1>5. CASE /\ tasks[g][k] # NoTask /\ tasks[g][k].owner = w
             /\ tasks' = [tasks EXCEPT ![g][k] = NoTask]
    BY <1>1, <1>2, <1>3, <1>5 DEF MonitorParts, Tell
  <1>6. CASE /\ tasks[g][k] # NoTask /\ tasks[g][k].owner = w
             /\ ~JobDone(w) /\ tasks' = [tasks EXCEPT ![g][k].owner = NoMonitor]
    <2>1. /\ \A x \in Titles : x # g => tasks'[x] = tasks[x]
          /\ \A j \in Kinds : j # k => tasks'[g][j] = tasks[g][j]
          /\ tasks'[g][k] = [owner |-> NoMonitor, snap |-> tasks[g][k].snap]
      <3>1. tasks[g][k] \in Jobs
        BY <1>1, <1>6
      <3>2. [tasks[g][k] EXCEPT !.owner = NoMonitor] = [owner |-> NoMonitor, snap |-> tasks[g][k].snap]
        BY <3>1 DEF Jobs
      <3>3. tasks' = [tasks EXCEPT ![g] = [tasks[g] EXCEPT ![k] = [tasks[g][k] EXCEPT !.owner = NoMonitor]]]
        BY <1>6
      <3>4. PICK t : t = [tasks[g][k] EXCEPT !.owner = NoMonitor]
        OBVIOUS
      <3>5. tasks' = [tasks EXCEPT ![g] = [tasks[g] EXCEPT ![k] = t]]
        BY <3>3, <3>4
      <3>6. /\ \A x \in Titles : x # g => tasks'[x] = tasks[x]
            /\ \A j \in Kinds : j # k => tasks'[g][j] = tasks[g][j]
            /\ tasks'[g][k] = t
        BY <1>1, <3>5
      <3> QED BY <3>2, <3>4, <3>6
    <2>2. monitor'[w] = Resting /\ \A v \in Monitors : v # w => monitor'[v] = monitor[v]
      BY <1>2 DEF MonitorParts, Tell
    <2> QED BY <1>1, <1>6, <2>1, <2>2
  <1> QED BY <1>3, <1>4, <1>5, <1>6

\* No forced run of the handler is secure.
Loose(w, g) == \A k \in Forces : ~Secure(w, g, k)

LEMMA EndDebts ==
    ASSUME Sound, NEW w \in Monitors, NEW g, g = monitor[w].title, Active(w),
           JobDone(w) \/ JobFailed(w), UNCHANGED <<payload, watch>>, Unlogged,
           \A v \in Monitors : v # w => (gameLock'[g] = v <=> gameLock[g] = v)
    PROVE  /\ Owes(w, g)' = 0
           /\ \A v \in Monitors : v # w => Owes(v, g)' <= Owes(v, g)
           /\ Regular(w, g) =>
                /\ ForcedDebt(g)' <= ForcedDebt(g)
                /\ DueDebt(g) = Errand(g, monitor[w]) + 2 * Unit(Adrift(w, g))
                /\ \/ DueDebt(g)' = Unit(Missing(g))
                   \/ ~JobDone(w) /\ DueDebt(g)' = RestDebt(g, monitor[w].snap)
           /\ ~Regular(w, g) =>
                /\ DueDebt(g)' <= DueDebt(g)
                /\ JobDone(w) \/ Loose(w, g) => ForcedDebt(g)' <= ForcedDebt(g)
  <1> DEFINE m == monitor[w]
  <1>1. MonitorParts /\ m.kind \in Kinds
    BY StartsFrom DEF Handlers
  <1>2. PICK k : k = m.kind
    OBVIOUS
  <1>3. /\ g \in Titles /\ k \in Kinds
        /\ monitor'[w] = Resting /\ \A v \in Monitors : v # w => monitor'[v] = monitor[v]
        /\ \A j \in Kinds : j # k => tasks'[g][j] = tasks[g][j]
        /\ \/ tasks' = tasks /\ ~(tasks[g][k] # NoTask /\ tasks[g][k].owner = w)
           \/ /\ tasks[g][k] # NoTask /\ tasks[g][k].owner = w
              /\ \/ tasks'[g][k] = NoTask
                 \/ ~JobDone(w) /\ tasks'[g][k] = [owner |-> NoMonitor, snap |-> tasks[g][k].snap]
    BY <1>1, <1>2, JobAtEnd
  <1>4. /\ ~Active(w)' /\ NoMonitor \notin Monitors
        /\ "due" \in Kinds /\ "due" \notin Forces /\ Forces \subseteq Kinds
    BY <1>3, RestingIsOne, MonitorAssumption DEF Active, Kinds
  <1>5. Lost' = Lost /\ Told' = Told
    BY DEF Unlogged, Lost, Told
  <1>6. Owes(w, g)' = 0 /\ ~Regular(w, g)'
    BY <1>4 DEF Owes, Stray, Regular, Runs
  <1>7. /\ Regular(w, g) <=> k = "due" /\ tasks[g]["due"] # NoTask /\ tasks[g]["due"].owner = w
        /\ \A j \in Forces : Secure(w, g, j) => j = k
    BY <1>2 DEF Regular, Runs, Secure
  <1> HIDE DEF m
  <1>8. ASSUME NEW v \in Monitors, v # w PROVE Regular(v, g)' <=> Regular(v, g)
    <2>1. Runs(v, g, "due")' <=> Runs(v, g, "due")
      BY <1>3, <1>8 DEF Runs, Active
    <2>2. CASE tasks'[g]["due"] = tasks[g]["due"]
      BY <2>1, <2>2 DEF Regular
    <2>3. CASE tasks'[g]["due"] # tasks[g]["due"]
      BY <1>3, <1>4, <1>8, <2>3 DEF Regular
    <2> QED BY <2>2, <2>3
  <1>9. \A v \in Monitors : v # w => Owes(v, g)' <= Owes(v, g)
    BY <1>3, <1>5, <1>8, OthersOwe
  <1>10. ASSUME Regular(w, g)
         PROVE  /\ ForcedDebt(g)' <= ForcedDebt(g)
                /\ DueDebt(g) = Errand(g, monitor[w]) + 2 * Unit(Adrift(w, g))
                /\ \/ DueDebt(g)' = Unit(Missing(g))
                   \/ ~JobDone(w) /\ DueDebt(g)' = RestDebt(g, monitor[w].snap)
    <2>1. \A j \in Forces : tasks'[g][j] = tasks[g][j] /\ ~Secure(w, g, j)
      BY <1>3, <1>4, <1>7, <1>10
    <2>2. ForcedDebt(g)' <= ForcedDebt(g)
      BY <1>1, <1>3, <2>1, ForcedOfOthers
    <2>3. tasks[g]["due"] # NoTask /\ tasks[g]["due"].owner = w /\ k = "due"
      BY <1>7, <1>10
    <2>4. DueDebt(g) = Errand(g, monitor[w]) + 2 * Unit(Adrift(w, g))
      BY <1>10, <2>3 DEF DueDebt
    <2>5. ~\E v \in Monitors : Regular(v, g)'
      BY <1>6, <1>8, <1>10, <2>3 DEF Regular
    <2>6. monitor[w].snap = tasks[g]["due"].snap
      BY <1>3, <1>10 DEF Sound, Kept
    <2>7. CASE tasks'[g]["due"] = NoTask
      <3>1. Unit(Missing(g))' = Unit(Missing(g))
        BY DEF Unit, Missing
      <3>2. DueDebt(g)' = Unit(Missing(g))'
        BY <2>7 DEF DueDebt
      <3> QED BY <2>2, <2>4, <3>1, <3>2
    <2>8. CASE tasks'[g]["due"] # NoTask
      <3>1. ~JobDone(w) /\ tasks'[g]["due"].snap = monitor[w].snap
        BY <1>3, <2>3, <2>6, <2>8
      <3>2. DueDebt(g)' = RestDebt(g, tasks[g]["due"].snap)'
        BY <2>5, <2>8 DEF DueDebt
      <3>3. RestDebt(g, tasks[g]["due"].snap)' = RestDebt(g, monitor[w].snap)
        BY <3>1 DEF RestDebt, Unit, Misled
      <3> QED BY <2>2, <2>4, <3>1, <3>2, <3>3
    <2> QED BY <2>7, <2>8
  <1>11. ASSUME ~Regular(w, g)
         PROVE  /\ DueDebt(g)' <= DueDebt(g)
                /\ JobDone(w) \/ Loose(w, g) => ForcedDebt(g)' <= ForcedDebt(g)
    <2>1. tasks'[g]["due"] = tasks[g]["due"]
      BY <1>3, <1>4, <1>7, <1>11
    <2>2. PaySame(g) /\ RowSame(g)
      BY <1>5 DEF PaySame, RowSame
    <2>3. DueDebt(g)' <= DueDebt(g)
      BY <1>3, <1>6, <1>11, <2>1, <2>2, DueOfOthers
    <2>4. ASSUME NEW j \in Forces, JobDone(w) \/ Loose(w, g)
          PROVE  Waits(g, j)' => Waits(g, j)
      <3>1. CASE tasks'[g][j] = tasks[g][j]
                   /\ ~(tasks[g][j] # NoTask /\ tasks[g][j].owner = w /\ Secure(w, g, j))
        BY <1>3, <3>1, WaitsOfOthers
      <3>2. CASE tasks'[g][j] # tasks[g][j]
                   \/ (tasks[g][j] # NoTask /\ tasks[g][j].owner = w /\ Secure(w, g, j))
        <4>1. k = j /\ tasks[g][j] # NoTask /\ tasks[g][j].owner = w
          BY <1>3, <1>4, <1>7, <3>2
        <4>2. CASE JobDone(w)
          <5>1. tasks'[g][j] = NoTask
            BY <1>3, <4>1, <4>2
          <5> QED BY <5>1 DEF Waits
        <4>3. CASE Loose(w, g)
          BY <4>1, <4>3 DEF Waits, Loose
        <4> QED BY <2>4, <4>2, <4>3
      <3> QED BY <3>1, <3>2
    <2>5. JobDone(w) \/ Loose(w, g) => ForcedDebt(g)' <= ForcedDebt(g)
      BY <2>4, ForcedSums
    <2> QED BY <2>3, <2>5
  <1> QED BY <1>6, <1>9, <1>10, <1>11

\* A job without a date to announce owes no more than the one that waits.
LEMMA MissingIsOwed ==
    ASSUME NEW g, NEW snap PROVE Unit(Missing(g)) <= RestDebt(g, snap)
  <1> DEFINE a == Unit(payload[g] # snap.payload)
             b == Unit(Misled(g, snap))
             c == Unit(Missing(g))
  <1>1. RestDebt(g, snap) = a + b
    BY DEF RestDebt
  <1>2. a \in 0..1 /\ b \in 0..1 /\ c \in 0..1
    BY DEF Unit
  <1>3. c = 0 \/ a = 1 \/ b = 1
    BY DEF Missing, Misled, Unit
  <1>4. \A i \in 0..1, j \in 0..1, k \in 0..1 : k = 0 \/ i = 1 \/ j = 1 => k <= i + j
    OBVIOUS
  <1> HIDE DEF a, b, c
  <1>5. c <= a + b
    BY <1>2, <1>3, <1>4
  <1> QED BY <1>1, <1>5 DEF c

LEMMA EndMoves ==
    ASSUME MonitorParts, NEW w \in Monitors, NEW g, g = monitor[w].title, JobDone(w) \/ JobFailed(w)
    PROVE  /\ monitor'[w] = Resting /\ \A v \in Monitors : v # w => monitor'[v] = monitor[v]
           /\ \A x \in Titles : x # g => tasks'[x] = tasks[x]
  <1>1. PICK k : k = monitor[w].kind
    OBVIOUS
  <1>2. /\ g \in Titles /\ k \in Kinds
        /\ monitor'[w] = Resting /\ \A v \in Monitors : v # w => monitor'[v] = monitor[v]
        /\ \A x \in Titles : x # g => tasks'[x] = tasks[x]
        /\ \A j \in Kinds : j # k => tasks'[g][j] = tasks[g][j]
        /\ \/ tasks' = tasks /\ ~(tasks[g][k] # NoTask /\ tasks[g][k].owner = w)
           \/ /\ tasks[g][k] # NoTask /\ tasks[g][k].owner = w
              /\ \/ tasks'[g][k] = NoTask
                 \/ ~JobDone(w) /\ tasks'[g][k] = [owner |-> NoMonitor, snap |-> tasks[g][k].snap]
    BY <1>1, JobAtEnd
  <1> QED BY <1>2

\* The handler's end is covered by what it and its job owed.
LEMMA EndCounts ==
    ASSUME Sound, Sound', AllCounted, NEW w \in Monitors, NEW g, g = monitor[w].title,
           Active(w), monitor[w].step # "send", JobDone(w) \/ JobFailed(w),
           UNCHANGED <<payload, watch, log, delivered, recorded, unheard, mishaps>>,
           \A x \in Titles, v \in Monitors : v # w => (gameLock'[x] = v <=> gameLock[x] = v),
           Regular(w, g) =>
              \/ Unit(Missing(g)) <= Errand(g, monitor[w]) + 2 * Unit(Adrift(w, g)) /\ JobDone(w)
              \/ Unit(Missing(g)) + 2 <= Errand(g, monitor[w]) + 2 * Unit(Adrift(w, g)),
           ~Regular(w, g) => JobDone(w) \/ Loose(w, g)
    PROVE  AllCounted'
  <1>1. MonitorParts /\ g \in Titles
    BY StartsFrom
  <1>3. /\ monitor'[w] = Resting /\ \A v \in Monitors : v # w => monitor'[v] = monitor[v]
        /\ \A x \in Titles : x # g => tasks'[x] = tasks[x]
    BY <1>1, EndMoves
  <1>4. Unlogged /\ RowsElsewhere(g) /\ KeysElsewhere(g)
    BY <1>3, KeysUntouched DEF Unlogged, RowsElsewhere
  <1>5. Bad(g)' \subseteq Bad(g)
    BY <1>3, <1>4, BadKept
  <1>6. /\ Owes(w, g)' = 0
        /\ \A v \in Monitors : v # w => Owes(v, g)' <= Owes(v, g)
        /\ Regular(w, g) =>
             /\ ForcedDebt(g)' <= ForcedDebt(g)
             /\ DueDebt(g) = Errand(g, monitor[w]) + 2 * Unit(Adrift(w, g))
             /\ \/ DueDebt(g)' = Unit(Missing(g))
                \/ ~JobDone(w) /\ DueDebt(g)' = RestDebt(g, monitor[w].snap)
        /\ ~Regular(w, g) =>
             /\ DueDebt(g)' <= DueDebt(g)
             /\ JobDone(w) \/ Loose(w, g) => ForcedDebt(g)' <= ForcedDebt(g)
    BY <1>1, <1>4, EndDebts
  <1>7. DebtTyped /\ DebtTyped'
    BY DebtTypes, PTL
  <1>8. /\ ForcedDebt(g) \in Nat /\ ForcedDebt(g)' \in Nat
        /\ DueDebt(g) \in 0..4 /\ DueDebt(g)' \in 0..4 /\ Owes(w, g) \in 0..3
    BY <1>1, <1>7 DEF DebtTyped
  <1>9. /\ Unit(Missing(g)) \in 0..1 /\ RestDebt(g, monitor[w].snap) \in 0..2
    BY RunBounds
  <1>10. DueDebt(g)' <= DueDebt(g) /\ ForcedDebt(g)' <= ForcedDebt(g)
    <2>1. CASE Regular(w, g)
      BY <1>6, <1>8, <1>9, <2>1
    <2>2. CASE ~Regular(w, g)
      BY <1>6, <2>2
    <2> QED BY <2>1, <2>2
  <1>11. mishaps[g] \in Nat /\ mishaps'[g] \in Nat /\ 3 * (mishaps'[g] - mishaps[g]) = 0
    BY <1>1, MishapsAreNat
  <1>12. Owes(w, g)' + ForcedDebt(g)' + DueDebt(g)'
           <= Owes(w, g) + ForcedDebt(g) + DueDebt(g) + 3 * (mishaps'[g] - mishaps[g])
    BY <1>6, <1>8, <1>10, <1>11
  <1>13. CountedFor(g)'
    BY <1>1, <1>5, <1>6, <1>11, <1>12, SettlesEven DEF AllCounted
  <1>14. ~Active(w)'
    BY <1>3, RestingIsOne DEF Active
  <1> QED BY <1>1, <1>3, <1>4, <1>13, <1>14, CountsAll

LEMMA LockHeldCounts ==
    ASSUME Sound, Sound', AllCounted, NEW w \in Monitors, NEW g, g = monitor[w].title, LockHeld(w)
    PROVE  AllCounted'
  <1>1. /\ monitor[w].step = "lock" /\ JobDone(w) /\ Active(w)
        /\ UNCHANGED <<payload, watch, gameLock, log, delivered, recorded, unheard, mishaps>>
    BY DEF LockHeld, history, Active
  <1>2. Unit(Missing(g)) <= Errand(g, monitor[w])
    BY <1>1, MissingIsOwed DEF Errand, Early
  <1>3. 2 * Unit(Adrift(w, g)) = 0 /\ Errand(g, monitor[w]) \in 0..2
    BY <1>1, RunBounds DEF Adrift, Unit
  <1>4. Unit(Missing(g)) <= Errand(g, monitor[w]) + 2 * Unit(Adrift(w, g))
    BY <1>2, <1>3
  <1> QED BY <1>1, <1>4, EndCounts

LEMMA UnlockCounts ==
    ASSUME Sound, Sound', AllCounted, NEW w \in Monitors, NEW g, g = monitor[w].title,
           Unlock(w) \/ UnlockThrows(w)
    PROVE  AllCounted'
  <1>1. MonitorParts /\ g \in Titles
    BY StartsFrom
  <1>2. /\ monitor[w].step = "unlock" /\ Active(w)
        /\ UNCHANGED <<payload, watch, log, delivered, recorded, unheard, mishaps>>
        /\ \/ gameLock[g] = w /\ gameLock' = [gameLock EXCEPT ![g] = NoMonitor] /\ JobDone(w)
           \/ gameLock[g] # w /\ gameLock' = gameLock /\ JobFailed(w)
    BY DEF Unlock, UnlockThrows, history, Active
  <1>3. \A x \in Titles, v \in Monitors : v # w => (gameLock'[x] = v <=> gameLock[x] = v)
    BY <1>1, <1>2, MonitorAssumption DEF MonitorParts
  <1>4. Errand(g, monitor[w]) = Unit(Missing(g)) /\ Unit(Missing(g)) \in 0..1
    BY <1>2, RunBounds DEF Errand, Early, Amid
  <1>5. Adrift(w, g) <=> gameLock[g] # w
    BY <1>2 DEF Adrift
  <1>6. 2 * Unit(Adrift(w, g)) = IF gameLock[g] # w THEN 2 ELSE 0
    BY <1>5 DEF Unit
  <1>7. \/ Unit(Missing(g)) <= Errand(g, monitor[w]) + 2 * Unit(Adrift(w, g)) /\ JobDone(w)
        \/ Unit(Missing(g)) + 2 <= Errand(g, monitor[w]) + 2 * Unit(Adrift(w, g))
    BY <1>2, <1>4, <1>6
  <1>8. JobDone(w) \/ Loose(w, g)
    BY <1>2 DEF Secure, Loose
  <1> QED BY <1>2, <1>3, <1>7, <1>8, EndCounts

\* The process dies: its run is forgotten, its job waits for its lock to time out.
LEMMA CrashCounts ==
    ASSUME Sound, Sound', AllCounted, NEW w \in Monitors, NEW g, g = monitor[w].title, Crash(w)
    PROVE  AllCounted'
  <1>1. MonitorParts /\ g \in Titles
    BY StartsFrom
  <1>2. /\ Active(w) /\ Mishap(g) /\ Tell(w, Resting)
        /\ gameLock' = [x \in Titles |-> IF gameLock[x] = w THEN NoMonitor ELSE gameLock[x]]
        /\ UNCHANGED <<payload, watch, tasks, log, delivered, recorded, unheard>>
    BY DEF Crash, history
  <1>3. monitor'[w] = Resting /\ \A v \in Monitors : v # w => monitor'[v] = monitor[v]
    BY <1>1, <1>2 DEF MonitorParts, Tell
  <1>4. ~Active(w)' /\ NoMonitor \notin Monitors
    BY <1>3, RestingIsOne, MonitorAssumption DEF Active
  <1>5. \A x \in Titles, v \in Monitors : v # w => (gameLock'[x] = v <=> gameLock[x] = v)
    BY <1>1, <1>2, <1>4
  <1>6. /\ RowsElsewhere(g) /\ KeysElsewhere(g) /\ PaySame(g) /\ Unlogged
        /\ mishaps'[g] = mishaps[g] + 1 /\ mishaps[g] \in Nat
    BY <1>1, <1>2, RowsStay, KeysUntouched DEF Unlogged
  <1>7. /\ Lost' = Lost /\ Told' = Told
        /\ monitor[w].step # "send" => Bad(g)' \subseteq Bad(g)
        /\ Bad(g)' \subseteq Bad(g) \union {Event(w)}
    BY <1>3, <1>6, BadKept
  <1>8. RowSame(g)
    BY <1>2, <1>7 DEF RowSame
  <1>9. Owes(w, g)' = 0 /\ ~Regular(w, g)'
    BY <1>4 DEF Owes, Stray, Regular, Runs
  <1>10. ASSUME NEW v \in Monitors, v # w
         PROVE  (Regular(v, g)' <=> Regular(v, g)) /\ Owes(v, g)' <= Owes(v, g)
    <2>1. Regular(v, g)' <=> Regular(v, g)
      BY <1>2, <1>3, <1>10 DEF Regular, Runs, Active
    <2> QED BY <1>1, <1>3, <1>7, <1>10, <2>1, OthersOwe
  <1>11. DebtTyped /\ DebtTyped'
    BY DebtTypes, PTL
  <1>12. /\ ForcedDebt(g) \in Nat /\ ForcedDebt(g)' \in Nat
         /\ DueDebt(g) \in 0..4 /\ DueDebt(g)' \in 0..4 /\ Owes(w, g) \in 0..3
    BY <1>1, <1>11 DEF DebtTyped
  <1>13. mishaps'[g] \in Nat /\ 3 * (mishaps'[g] - mishaps[g]) = 3
    BY <1>6
  <1>14. CASE Regular(w, g)
    <2>1. ForcedDebt(g)' <= ForcedDebt(g)
      <3>1. \A k \in Forces : ~Secure(w, g, k)
        BY <1>14, MonitorAssumption DEF Regular, Secure, Runs
      <3> QED BY <1>1, <1>2, <1>3, <1>5, <3>1, ForcedOfOthers
    <2>2. tasks[g]["due"] # NoTask /\ tasks[g]["due"].owner = w
      BY <1>14 DEF Regular
    <2>3. ~\E v \in Monitors : Regular(v, g)'
      BY <1>9, <1>10, <2>2 DEF Regular
    <2>4. DueDebt(g)' = RestDebt(g, tasks[g]["due"].snap)'
      BY <1>2, <2>2, <2>3 DEF DueDebt
    <2>5. RestDebt(g, tasks[g]["due"].snap)' \in 0..2
      BY DEF RestDebt, Unit
    <2>6. 1 + Owes(w, g)' + ForcedDebt(g)' + DueDebt(g)'
            <= Owes(w, g) + ForcedDebt(g) + DueDebt(g) + 3 * (mishaps'[g] - mishaps[g])
      BY <1>9, <1>12, <1>13, <2>1, <2>4, <2>5
    <2>7. CountedFor(g)'
      BY <1>1, <1>6, <1>7, <1>10, <1>13, <2>6, SettlesMore DEF AllCounted
    <2> QED BY <1>1, <1>3, <1>4, <1>5, <1>6, <2>7, CountsAll
  <1>15. CASE ~Regular(w, g)
    <2>1. DueDebt(g)' <= DueDebt(g)
      BY <1>1, <1>2, <1>3, <1>5, <1>6, <1>8, <1>9, <1>15, DueOfOthers
    <2>2. Owes(w, g) = RunDebt(monitor[w])
      BY <1>2, <1>15 DEF Owes, Stray
    <2>5. ForcedDebt(g)' <= ForcedDebt(g) + 3
      BY <1>1, <1>2, <1>3, <1>5, ForcedCutShort
    <2>3. CASE monitor[w].step = "send"
      <3>1. RunDebt(monitor[w]) >= 1
        BY <2>3 DEF RunDebt, Early
      <3>2. 1 + Owes(w, g)' + ForcedDebt(g)' + DueDebt(g)'
              <= Owes(w, g) + ForcedDebt(g) + DueDebt(g) + 3 * (mishaps'[g] - mishaps[g])
        BY <1>9, <1>12, <1>13, <2>1, <2>2, <2>5, <3>1
      <3>3. CountedFor(g)'
        BY <1>1, <1>6, <1>7, <1>10, <1>13, <3>2, SettlesMore DEF AllCounted
      <3> QED BY <1>1, <1>3, <1>4, <1>5, <1>6, <3>3, CountsAll
    <2>4. CASE monitor[w].step # "send"
      <3>1. Owes(w, g)' + ForcedDebt(g)' + DueDebt(g)'
              <= Owes(w, g) + ForcedDebt(g) + DueDebt(g) + 3 * (mishaps'[g] - mishaps[g])
        BY <1>9, <1>12, <1>13, <2>1, <2>5
      <3>2. CountedFor(g)'
        BY <1>1, <1>6, <1>7, <1>10, <1>13, <2>4, <3>1, SettlesEven DEF AllCounted
      <3> QED BY <1>1, <1>3, <1>4, <1>5, <1>6, <3>2, CountsAll
    <2> QED BY <2>3, <2>4
  <1> QED BY <1>14, <1>15

\* The lock's connection drops: the run goes on, and its job may run a second time.
LEMMA LockLostCounts ==
    ASSUME Sound, Sound', AllCounted, NEW w \in Monitors, NEW g, g = monitor[w].title, LockLost(w)
    PROVE  AllCounted'
  <1>1. MonitorParts /\ g \in Titles
    BY StartsFrom
  <1>2. /\ Active(w) /\ Mishap(g) /\ gameLock[g] = w
        /\ gameLock' = [gameLock EXCEPT ![g] = NoMonitor]
        /\ UNCHANGED <<payload, watch, tasks, monitor, log, delivered, recorded, unheard>>
    BY DEF LockLost, history
  <1>3. \A x \in Titles, v \in Monitors : v # w => (gameLock'[x] = v <=> gameLock[x] = v)
    BY <1>1, <1>2, MonitorAssumption DEF MonitorParts
  <1>4. /\ RowsElsewhere(g) /\ KeysElsewhere(g) /\ PaySame(g) /\ Unlogged
        /\ mishaps'[g] = mishaps[g] + 1 /\ mishaps[g] \in Nat
    BY <1>1, <1>2, RowsStay, KeysUntouched DEF Unlogged
  <1>5. Lost' = Lost /\ Told' = Told /\ Bad(g)' \subseteq Bad(g)
    BY <1>2 DEF Lost, Told, Bad, OnItsWay, Event
  <1>6. RowSame(g)
    BY <1>2, <1>5 DEF RowSame
  <1>7. \A v \in Monitors : Regular(v, g)' <=> Regular(v, g)
    BY <1>2 DEF Regular, Runs, Active
  <1>8. \A v \in Monitors : Owes(v, g)' <= Owes(v, g)
    BY <1>1, <1>2, <1>5, <1>7, OthersOwe
  <1>9. DebtTyped /\ DebtTyped'
    BY DebtTypes, PTL
  <1>10. /\ ForcedDebt(g) \in Nat /\ ForcedDebt(g)' \in Nat
         /\ DueDebt(g) \in 0..4 /\ DueDebt(g)' \in 0..4
    BY <1>1, <1>9 DEF DebtTyped
  <1>11. mishaps'[g] \in Nat /\ 3 * (mishaps'[g] - mishaps[g]) = 3
    BY <1>4
  <1>12. ForcedDebt(g)' + DueDebt(g)'
           <= ForcedDebt(g) + DueDebt(g) + 3 * (mishaps'[g] - mishaps[g])
    <2>1. CASE Regular(w, g)
      <3>1. \A k \in Forces : ~Secure(w, g, k)
        BY <2>1, MonitorAssumption DEF Regular, Secure, Runs
      <3>2. ForcedDebt(g)' <= ForcedDebt(g)
        BY <1>1, <1>2, <1>3, <3>1, ForcedOfOthers
      <3>3. tasks[g]["due"] # NoTask /\ tasks[g]["due"].owner = w
        BY <2>1 DEF Regular
      <3>4. DueDebt(g) = Errand(g, monitor[w]) + 2 * Unit(Adrift(w, g))
        BY <2>1, <3>3 DEF DueDebt
      <3>5. DueDebt(g)' = Errand(g, monitor[w])' + 2 * Unit(Adrift(w, g))'
        BY <1>2, <1>7, <2>1, <3>3 DEF DueDebt
      <3>6. Errand(g, monitor[w])' = Errand(g, monitor[w])
        BY <1>2, <1>5 DEF Errand, RestDebt, Unit, Misled, Missing, Announced, Due
      <3>7. Unit(Adrift(w, g)) \in 0..1 /\ Unit(Adrift(w, g))' \in 0..1 /\ Errand(g, monitor[w]) \in 0..2
        BY RunBounds DEF Unit
      <3> QED BY <1>10, <1>11, <3>2, <3>4, <3>5, <3>6, <3>7
    <2>2. CASE ~Regular(w, g)
      <3>1. DueDebt(g)' <= DueDebt(g)
        BY <1>1, <1>2, <1>3, <1>4, <1>6, <1>7, <2>2, DueOfOthers
      <3>2. ForcedDebt(g)' <= ForcedDebt(g) + 3
        BY <1>1, <1>2, <1>3, ForcedCutShort
      <3> QED BY <1>10, <1>11, <3>1, <3>2
    <2> QED BY <2>1, <2>2
  <1>13. CountedFor(g)'
    BY <1>1, <1>4, <1>5, <1>8, <1>11, <1>12, SettlesAlone DEF AllCounted
  <1> QED BY <1>1, <1>2, <1>3, <1>4, <1>13, CountsAll

-----------------------------------------------------------------------------
(* The world and the queue. *)

\* No handler moves, no lock changes hands: a game's debt changes with its rows alone.
LEMMA CountsStill ==
    ASSUME Sound, Sound', AllCounted, NEW g \in Titles, UNCHANGED <<monitor, gameLock>>,
           RowsElsewhere(g), KeysElsewhere(g), CountedFor(g)'
    PROVE  AllCounted'
  <1>1. ASSUME NEW x \in Titles, x # g PROVE CountedFor(x)'
    <2>1. Apart(x)
      BY <1>1 DEF Apart, RowsElsewhere, KeysElsewhere
    <2>2. mishaps[x] \in Nat
      BY MishapsAreNat
    <2> QED BY <2>1, <2>2, LeftAlone DEF Sound, AllCounted
  <1> QED BY <1>1 DEF AllCounted

LEMMA StillDebts ==
    ASSUME NEW g \in Titles, UNCHANGED <<monitor, gameLock>>, Unlogged
    PROVE  /\ Lost' = Lost /\ Told' = Told /\ Bad(g)' \subseteq Bad(g) /\ KeysElsewhere(g)
           /\ \A k : tasks'[g][k] = tasks[g][k] => (Waits(g, k)' => Waits(g, k))
           /\ (\A k \in Forces : tasks'[g][k] = tasks[g][k]) => ForcedDebt(g)' <= ForcedDebt(g)
           /\ \A v \in Monitors : (Regular(v, g)' <=> Regular(v, g)) => Owes(v, g)' <= Owes(v, g)
           /\ tasks'[g]["due"] = tasks[g]["due"] => \A v \in Monitors : Regular(v, g)' <=> Regular(v, g)
  <1>1. Lost' = Lost /\ Told' = Told /\ KeysElsewhere(g)
    BY KeysUntouched DEF Unlogged, Lost, Told
  <1>2. Bad(g)' \subseteq Bad(g)
    BY <1>1 DEF Bad, Unlogged, OnItsWay, Event
  <1>3. \A v \in Monitors : \A k : Secure(v, g, k)' <=> Secure(v, g, k)
    BY DEF Secure, Runs, Active
  <1>4. \A k : tasks'[g][k] = tasks[g][k] => (Waits(g, k)' => Waits(g, k))
    BY <1>3 DEF Waits
  <1>6. (\A k \in Forces : tasks'[g][k] = tasks[g][k]) => ForcedDebt(g)' <= ForcedDebt(g)
    BY <1>4, ForcedSums
  <1>7. ASSUME NEW v \in Monitors, Regular(v, g)' <=> Regular(v, g) PROVE Owes(v, g)' <= Owes(v, g)
    BY <1>1, <1>7, OthersOwe
  <1>8. tasks'[g]["due"] = tasks[g]["due"] => \A v \in Monitors : Regular(v, g)' <=> Regular(v, g)
    BY DEF Regular, Runs, Active
  <1> QED BY <1>1, <1>2, <1>4, <1>6, <1>7, <1>8

\* A client writes the date of IGDB: the payload changes, a mishap pays.
LEMMA ClientRefreshCounts ==
    ASSUME Sound, Sound', AllCounted, NEW g \in Titles, ClientRefresh(g)
    PROVE  AllCounted'
  <1>1. MonitorParts
    BY MonitorPartsTyped DEF Sound
  <1>2. /\ Mishap(g) /\ payload' = [payload EXCEPT ![g] = upstream[g]]
        /\ UNCHANGED <<watch, tasks, gameLock, monitor, log, delivered, recorded, unheard>>
    BY DEF ClientRefresh, history
  <1>3. /\ mishaps'[g] = mishaps[g] + 1 /\ mishaps[g] \in Nat
        /\ \A x \in Titles : x # g => mishaps'[x] = mishaps[x]
    BY <1>1, <1>2, MishapIsOwn
  <1>4. RowsElsewhere(g) /\ Unlogged
    BY <1>1, <1>2, <1>3 DEF RowsElsewhere, Unlogged, MonitorParts
  <1>5. /\ Told' = Told /\ Bad(g)' \subseteq Bad(g) /\ KeysElsewhere(g)
        /\ ForcedDebt(g)' <= ForcedDebt(g)
        /\ \A v \in Monitors : Regular(v, g)' <=> Regular(v, g)
        /\ \A v \in Monitors : Owes(v, g)' <= Owes(v, g)
    BY <1>2, <1>4, StillDebts
  <1>6. \A v \in Monitors : Adrift(v, g)' <=> Adrift(v, g)
    BY <1>2 DEF Adrift
  <1>7. RowSame(g)
    BY <1>2, <1>5 DEF RowSame
  <1>8. DueDebt(g)' <= DueDebt(g) + 1
    BY <1>2, <1>5, <1>6, <1>7, DueKept
  <1>9. DebtTyped /\ DebtTyped'
    BY DebtTypes, PTL
  <1>10. /\ ForcedDebt(g) \in Nat /\ ForcedDebt(g)' \in Nat
         /\ DueDebt(g) \in 0..4 /\ DueDebt(g)' \in 0..4
    BY <1>9 DEF DebtTyped
  <1>11. mishaps'[g] \in Nat /\ 3 * (mishaps'[g] - mishaps[g]) = 3
    BY <1>3
  <1>12. ForcedDebt(g)' + DueDebt(g)'
           <= ForcedDebt(g) + DueDebt(g) + 3 * (mishaps'[g] - mishaps[g])
    BY <1>5, <1>8, <1>10, <1>11
  <1>13. CountedFor(g)'
    BY <1>3, <1>5, <1>11, <1>12, SettlesAlone DEF AllCounted
  <1> QED BY <1>2, <1>4, <1>5, <1>13, CountsStill

\* The job of a key appears or changes hands, and nobody runs it.
JobSet(g, k, t) ==
    /\ tasks' = [tasks EXCEPT ![g] = [tasks[g] EXCEPT ![k] = t]]
    /\ UNCHANGED <<payload, watch, gameLock, monitor, log, delivered, recorded, unheard>>

LEMMA JobsSet ==
    ASSUME MonitorParts, NEW g \in Titles, NEW k \in Kinds, NEW t, JobSet(g, k, t),
           mishaps' = mishaps \/ Mishap(g)
    PROVE  /\ tasks'[g][k] = t /\ \A j \in Kinds : j # k => tasks'[g][j] = tasks[g][j]
           /\ RowsElsewhere(g) /\ Unlogged /\ mishaps[g] \in Nat /\ mishaps'[g] \in Nat
           /\ mishaps' = mishaps => 3 * (mishaps'[g] - mishaps[g]) = 0
           /\ Mishap(g) => 3 * (mishaps'[g] - mishaps[g]) = 3
  <1>1. mishaps[g] \in Nat
    BY DEF MonitorParts
  <1>2. Mishap(g) => mishaps'[g] = mishaps[g] + 1 /\ \A x \in Titles : x # g => mishaps'[x] = mishaps[x]
    BY MishapIsOwn
  <1>3. /\ tasks'[g][k] = t /\ \A j \in Kinds : j # k => tasks'[g][j] = tasks[g][j]
        /\ \A x \in Titles : x # g => tasks'[x] = tasks[x]
    BY DEF JobSet, MonitorParts
  <1>4. RowsElsewhere(g) /\ Unlogged
    BY <1>2, <1>3 DEF JobSet, RowsElsewhere, Unlogged
  <1> QED BY <1>1, <1>2, <1>3, <1>4

\* A forced job is paid for when it is queued.
LEMMA ForcedSetCounts ==
    ASSUME Sound, Sound', AllCounted, NEW g \in Titles, NEW k \in Forces, NEW t,
           JobSet(g, k, t), Mishap(g) \/ (mishaps' = mishaps /\ Waits(g, k))
    PROVE  AllCounted'
  <1>1. MonitorParts /\ k \in Kinds /\ "due" \in Kinds /\ k # "due"
    BY MonitorPartsTyped, MonitorAssumption DEF Sound, Kinds
  <1>2. /\ tasks'[g]["due"] = tasks[g]["due"] /\ RowsElsewhere(g)
        /\ \A j \in Forces : j # k => tasks'[g][j] = tasks[g][j]
        /\ Unlogged
        /\ mishaps[g] \in Nat /\ mishaps'[g] \in Nat
        /\ mishaps' = mishaps => 3 * (mishaps'[g] - mishaps[g]) = 0
        /\ Mishap(g) => 3 * (mishaps'[g] - mishaps[g]) = 3
    BY <1>1, JobsSet DEF Kinds
  <1>3. UNCHANGED <<monitor, gameLock, watch, payload>>
    BY DEF JobSet
  <1>4. /\ Told' = Told /\ Bad(g)' \subseteq Bad(g) /\ KeysElsewhere(g)
        /\ \A v \in Monitors : Regular(v, g)' <=> Regular(v, g)
        /\ \A v \in Monitors : Owes(v, g)' <= Owes(v, g)
        /\ \A j \in Forces : j # k => (Waits(g, j)' => Waits(g, j))
    BY <1>2, <1>3, StillDebts
  <1>5. \A v \in Monitors : Adrift(v, g)' <=> Adrift(v, g)
    BY <1>3 DEF Adrift
  <1>6. PaySame(g) /\ RowSame(g)
    BY <1>3, <1>4 DEF PaySame, RowSame
  <1>7. DueDebt(g)' <= DueDebt(g)
    BY <1>2, <1>3, <1>4, <1>5, <1>6, DueKept
  <1>8. DebtTyped /\ DebtTyped'
    BY DebtTypes, PTL
  <1>9. /\ ForcedDebt(g) \in Nat /\ ForcedDebt(g)' \in Nat
        /\ DueDebt(g) \in 0..4 /\ DueDebt(g)' \in 0..4
    BY <1>8 DEF DebtTyped
  <1>12. /\ ForcedDebt(g)' <= ForcedDebt(g) + 3
         /\ Waits(g, k) => ForcedDebt(g)' <= ForcedDebt(g)
    BY <1>4, ForcedSums
  <1>10. ForcedDebt(g)' + DueDebt(g)'
           <= ForcedDebt(g) + DueDebt(g) + 3 * (mishaps'[g] - mishaps[g])
    BY <1>2, <1>7, <1>9, <1>12
  <1>11. CountedFor(g)'
    BY <1>2, <1>4, <1>10, SettlesAlone DEF AllCounted
  <1> QED BY <1>2, <1>3, <1>4, <1>11, CountsStill

\* A job of the timer waits with a snapshot.
LEMMA DueWaits ==
    ASSUME NEW g \in Titles, NEW t, t # NoTask, t.owner \notin Monitors, tasks'[g]["due"] = t,
           UNCHANGED <<payload, watch>>, NEW snap, snap = t.snap
    PROVE  DueDebt(g)' = RestDebt(g, snap) /\ \A v \in Monitors : ~Regular(v, g)'
  <1>1. \A v \in Monitors : ~Regular(v, g)'
    BY DEF Regular
  <1>2. DueDebt(g)' = RestDebt(g, tasks[g]["due"].snap)'
    BY <1>1 DEF DueDebt
  <1>3. RestDebt(g, tasks[g]["due"].snap)' = RestDebt(g, snap)
    BY DEF RestDebt, Unit, Misled
  <1> QED BY <1>1, <1>2, <1>3

\* A job with a fresh snapshot owes the date that is missing, and no more.
LEMMA FreshSnapshot ==
    ASSUME NEW g \in Titles PROVE RestDebt(g, Snapshot(g)) <= Unit(Missing(g))
  <1>1. PICK snap : snap = Snapshot(g)
    OBVIOUS
  <1>2. /\ snap.payload = payload[g] /\ snap.watched = (watch[g] # NoWatch)
        /\ watch[g] # NoWatch => snap.marker = watch[g].marker
    BY <1>1 DEF Snapshot
  <1>3. ~Misled(g, snap) \/ Missing(g)
    BY <1>2 DEF Misled, Missing
  <1>4. Unit(payload[g] # snap.payload) = 0 /\ Unit(Misled(g, snap)) <= Unit(Missing(g))
    BY <1>2, <1>3 DEF Unit
  <1>5. Unit(Misled(g, snap)) \in 0..1 /\ Unit(Missing(g)) \in 0..1
    BY DEF Unit
  <1>6. RestDebt(g, snap) = Unit(payload[g] # snap.payload) + Unit(Misled(g, snap))
    BY DEF RestDebt
  <1> QED BY <1>1, <1>4, <1>5, <1>6

LEMMA EnqueueCounts ==
    ASSUME Sound, Sound', AllCounted, NEW g \in Titles, EnqueueDue(g) \/ EnqueueForced(g)
    PROVE  AllCounted'
  <1>1. /\ MonitorParts /\ Forces \subseteq Kinds /\ "due" \in Kinds
        /\ \A j \in Forces : j # "due"
    BY MonitorPartsTyped, MonitorAssumption DEF Sound, Kinds
  <1>2. PICK snap : snap = Snapshot(g)
    OBVIOUS
  <1>3. PICK t : t = [owner |-> NoMonitor, snap |-> snap]
    OBVIOUS
  <1>4. t # NoTask /\ t.owner \notin Monitors /\ t.snap = snap
    <2>1. t \in Jobs
      BY <1>2, <1>3, SnapshotIsOne DEF Sound, Guarded, Jobs
    <2> QED BY <1>3, <2>1, AbsenceAssumption, MonitorAssumption DEF Jobs
  <1>5. ASSUME NEW k \in Kinds, Enqueue(g, k) PROVE tasks[g][k] = NoTask /\ JobSet(g, k, t)
    <2>1. /\ tasks[g][k] = NoTask
          /\ tasks' = [tasks EXCEPT ![g][k] = [owner |-> NoMonitor, snap |-> Snapshot(g)]]
          /\ UNCHANGED <<payload, watch, gameLock, monitor, log, delivered, recorded, unheard>>
      BY <1>5 DEF Enqueue, history
    <2>2. tasks' = [tasks EXCEPT ![g] = [tasks[g] EXCEPT ![k] = t]]
      BY <1>2, <1>3, <2>1
    <2> QED BY <2>1, <2>2 DEF JobSet
  <1>6. CASE EnqueueForced(g)
    <2>1. PICK k \in Forces : Enqueue(g, k) /\ Mishap(g)
      BY <1>6 DEF EnqueueForced
    <2> QED BY <1>1, <1>5, <2>1, ForcedSetCounts
  <1>7. CASE EnqueueDue(g)
    <2>1. tasks[g]["due"] = NoTask /\ JobSet(g, "due", t) /\ mishaps' = mishaps
      BY <1>1, <1>5, <1>7 DEF EnqueueDue
    <2>2. /\ tasks'[g]["due"] = t /\ \A j \in Forces : tasks'[g][j] = tasks[g][j]
          /\ RowsElsewhere(g) /\ Unlogged /\ mishaps[g] \in Nat /\ mishaps'[g] \in Nat
          /\ 3 * (mishaps'[g] - mishaps[g]) = 0
      BY <1>1, <2>1, JobsSet
    <2>3. UNCHANGED <<monitor, gameLock, watch, payload>>
      BY <2>1 DEF JobSet
    <2>4. DueDebt(g)' = RestDebt(g, snap) /\ \A v \in Monitors : ~Regular(v, g)'
      BY <1>4, <2>2, <2>3, DueWaits
    <2>5. DueDebt(g) = Unit(Missing(g)) /\ \A v \in Monitors : ~Regular(v, g)
      BY <2>1 DEF DueDebt, Regular
    <2>6. DueDebt(g)' <= DueDebt(g)
      BY <1>2, <2>4, <2>5, FreshSnapshot
    <2>7. /\ Bad(g)' \subseteq Bad(g) /\ KeysElsewhere(g) /\ ForcedDebt(g)' <= ForcedDebt(g)
          /\ \A v \in Monitors : Owes(v, g)' <= Owes(v, g)
      BY <2>2, <2>3, <2>4, <2>5, StillDebts
    <2>8. DebtTyped /\ DebtTyped'
      BY DebtTypes, PTL
    <2>9. /\ ForcedDebt(g) \in Nat /\ ForcedDebt(g)' \in Nat
          /\ DueDebt(g) \in 0..4 /\ DueDebt(g)' \in 0..4
      BY <2>8 DEF DebtTyped
    <2>10. ForcedDebt(g)' + DueDebt(g)'
             <= ForcedDebt(g) + DueDebt(g) + 3 * (mishaps'[g] - mishaps[g])
      BY <2>2, <2>6, <2>7, <2>9
    <2>11. CountedFor(g)'
      BY <2>2, <2>7, <2>10, SettlesAlone DEF AllCounted
    <2> QED BY <2>2, <2>3, <2>7, <2>11, CountsStill
  <1> QED BY <1>6, <1>7

\* A job whose owner is slow, or dead, waits again: the owner becomes a stray.
LEMMA StrayOwes ==
    ASSUME Sound, NEW g \in Titles, NEW w \in Monitors, Regular(w, g), NEW snap, snap = monitor[w].snap
    PROVE  RunDebt(monitor[w]) + RestDebt(g, snap) <= DueDebt(g) + 3
  <1>1. tasks[g]["due"] # NoTask /\ tasks[g]["due"].owner = w /\ monitor[w].step # "idle"
    BY DEF Regular, Runs, Active
  <1>2. DueDebt(g) = Errand(g, monitor[w]) + 2 * Unit(Adrift(w, g))
    BY <1>1 DEF DueDebt
  <1>3. /\ Unit(Adrift(w, g)) \in 0..1 /\ RunDebt(monitor[w]) \in 0..3
        /\ Errand(g, monitor[w]) \in 0..2 /\ RestDebt(g, snap) \in 0..2
    BY RunBounds DEF Unit
  <1>4. RunDebt(monitor[w]) + RestDebt(g, snap) <= Errand(g, monitor[w]) + 3
    <2>1. CASE monitor[w].step \in Early
      <3>1. RunDebt(monitor[w]) = 3 /\ Errand(g, monitor[w]) = RestDebt(g, snap)
        BY <2>1 DEF RunDebt, Errand
      <3> QED BY <1>3, <3>1
    <2>2. CASE monitor[w].step \in Amid
      <3> DEFINE a == Unit(payload[g] # monitor[w].after)
                 b == Unit(Misled(g, monitor[w].snap) \/ ~Announced(g, monitor[w]))
                 c == Unit(payload[g] # snap.payload)
                 d == Unit(Misled(g, snap))
      <3>1. Errand(g, monitor[w]) = a + b /\ RestDebt(g, snap) = c + d
        BY <2>2 DEF Errand, Early, Amid, RestDebt
      <3>2. a \in 0..1 /\ b \in 0..1 /\ c \in 0..1 /\ d \in 0..1 /\ d <= b
        BY DEF Unit
      <3>3. RunDebt(monitor[w]) <= 2
        BY <2>2 DEF RunDebt, Early, Amid
      <3>4. \A i \in 0..1, j \in 0..1, k \in 0..1, l \in 0..1, r \in 0..3 :
               r <= 2 /\ l <= j => r + (k + l) <= (i + j) + 3
        OBVIOUS
      <3> HIDE DEF a, b, c, d
      <3>5. RunDebt(monitor[w]) + (c + d) <= (a + b) + 3
        BY <1>3, <3>2, <3>3, <3>4
      <3> QED BY <3>1, <3>5
    <2>3. CASE monitor[w].step = "failed"
      <3>1. RunDebt(monitor[w]) = 2 /\ Errand(g, monitor[w]) = 1
        BY <2>3 DEF RunDebt, Errand, Early, Amid
      <3> QED BY <1>3, <3>1
    <2>4. CASE monitor[w].step = "unlock"
      <3>1. RunDebt(monitor[w]) = 0
        BY <2>4 DEF RunDebt, Early
      <3> QED BY <1>3, <3>1
    <2>5. monitor[w].step \in Steps
      BY StartsFrom DEF Handlers
    <2> QED BY <1>1, <2>1, <2>2, <2>3, <2>4, <2>5 DEF Steps, Early, Amid
  <1> QED BY <1>2, <1>3, <1>4

LEMMA RequeueCounts ==
    ASSUME Sound, Sound', AllCounted, NEW g \in Titles, NEW k \in Kinds,
           RequeueOrphan(g, k) \/ RequeueSlow(g, k)
    PROVE  AllCounted'
  <1>1. /\ MonitorParts /\ Forces \subseteq Kinds /\ "due" \in Kinds
        /\ \A j \in Forces : j # "due"
    BY MonitorPartsTyped, MonitorAssumption DEF Sound, Kinds
  <1>2. /\ tasks[g][k] # NoTask /\ tasks[g][k].owner # NoMonitor
        /\ tasks' = [tasks EXCEPT ![g][k].owner = NoMonitor]
        /\ UNCHANGED <<payload, watch, gameLock, monitor, log, delivered, recorded, unheard>>
        /\ \/ ~Runs(tasks[g][k].owner, g, k) /\ mishaps' = mishaps
           \/ Runs(tasks[g][k].owner, g, k) /\ Mishap(g)
    BY DEF RequeueOrphan, RequeueSlow, history
  <1>3. tasks[g][k] \in Jobs
    BY <1>1, <1>2 DEF MonitorParts
  <1>4. PICK snap : snap = tasks[g][k].snap
    OBVIOUS
  <1>5. PICK t : t = [owner |-> NoMonitor, snap |-> snap]
    OBVIOUS
  <1>6. t # NoTask /\ t.owner \notin Monitors /\ t.snap = snap
    <2>1. t \in Jobs
      BY <1>3, <1>4, <1>5 DEF Jobs
    <2> QED BY <1>5, <2>1, AbsenceAssumption, MonitorAssumption DEF Jobs
  <1>7. JobSet(g, k, t)
    <2>1. [tasks[g][k] EXCEPT !.owner = NoMonitor] = t
      BY <1>3, <1>4, <1>5 DEF Jobs
    <2>2. tasks' = [tasks EXCEPT ![g] = [tasks[g] EXCEPT ![k] = [tasks[g][k] EXCEPT !.owner = NoMonitor]]]
      BY <1>2
    <2> QED BY <1>2, <2>1, <2>2 DEF JobSet
  <1>8. PICK o \in Monitors : o = tasks[g][k].owner
    BY <1>2, <1>3 DEF Jobs
  <1>9. CASE k \in Forces
    <2>1. ~Runs(o, g, k) => Waits(g, k)
      BY <1>2, <1>8 DEF Waits, Secure
    <2> QED BY <1>2, <1>7, <1>8, <1>9, <2>1, ForcedSetCounts
  <1>10. CASE k = "due"
    <2>1. /\ tasks'[g]["due"] = t /\ \A j \in Forces : tasks'[g][j] = tasks[g][j]
          /\ RowsElsewhere(g) /\ Unlogged /\ mishaps[g] \in Nat /\ mishaps'[g] \in Nat
          /\ mishaps' = mishaps => 3 * (mishaps'[g] - mishaps[g]) = 0
          /\ Mishap(g) => 3 * (mishaps'[g] - mishaps[g]) = 3
      BY <1>1, <1>2, <1>7, <1>10, JobsSet
    <2>2. DueDebt(g)' = RestDebt(g, snap) /\ \A v \in Monitors : ~Regular(v, g)'
      BY <1>2, <1>6, <2>1, DueWaits
    <2>3. \A v \in Monitors : v # o => ~Regular(v, g)
      BY <1>8, <1>10 DEF Regular
    <2>4. /\ Bad(g)' \subseteq Bad(g) /\ KeysElsewhere(g) /\ ForcedDebt(g)' <= ForcedDebt(g)
          /\ \A v \in Monitors : (Regular(v, g)' <=> Regular(v, g)) => Owes(v, g)' <= Owes(v, g)
      BY <1>2, <2>1, StillDebts
    <2>5. DebtTyped /\ DebtTyped'
      BY DebtTypes, PTL
    <2>6. /\ ForcedDebt(g) \in Nat /\ ForcedDebt(g)' \in Nat
          /\ DueDebt(g) \in 0..4 /\ DueDebt(g)' \in 0..4 /\ Owes(o, g) \in 0..3
          /\ RestDebt(g, snap) \in 0..2 /\ RunDebt(monitor[o]) \in 0..3
      BY <2>5, RunBounds DEF DebtTyped
    <2>7. \A v \in Monitors : v # o => Owes(v, g)' <= Owes(v, g)
      BY <2>2, <2>3, <2>4
    <2>8. Owes(o, g)' + ForcedDebt(g)' + DueDebt(g)'
            <= Owes(o, g) + ForcedDebt(g) + DueDebt(g) + 3 * (mishaps'[g] - mishaps[g])
      <3>1. CASE Regular(o, g)
        <4>1. Mishap(g)
          BY <1>2, <1>8, <1>10, <3>1 DEF Regular
        <4>2. snap = monitor[o].snap
          BY <1>4, <1>10, <3>1 DEF Sound, Kept
        <4>3. RunDebt(monitor[o]) + RestDebt(g, snap) <= DueDebt(g) + 3
          BY <3>1, <4>2, StrayOwes
        <4>4. monitor'[o] = monitor[o] /\ Lost' = Lost
          BY <1>2, <2>1 DEF Unlogged, Lost
        <4>5. Stray(o, g)' /\ Owes(o, g) = 0
          BY <2>2, <3>1, <4>4 DEF Stray, Owes, Regular, Runs, Active
        <4>6. Owes(o, g)' = RunDebt(monitor[o])
          BY <4>4, <4>5 DEF Owes, RunDebt
        <4> QED BY <2>1, <2>2, <2>4, <2>6, <4>1, <4>3, <4>5, <4>6
      <3>2. CASE ~Regular(o, g)
        <4>1. ~Runs(o, g, "due") /\ mishaps' = mishaps
          BY <1>2, <1>8, <1>10, <3>2 DEF Regular
        <4>2. DueDebt(g) = RestDebt(g, snap)
          BY <1>2, <1>4, <1>10, <2>3, <3>2 DEF DueDebt
        <4>3. Owes(o, g)' <= Owes(o, g)
          BY <2>2, <2>4, <3>2
        <4>4. Owes(o, g)' \in 0..3
          BY <2>5 DEF DebtTyped
        <4> QED BY <2>1, <2>2, <2>4, <2>6, <4>1, <4>2, <4>3, <4>4
      <3> QED BY <3>1, <3>2
    <2>9. CountedFor(g)'
      BY <2>1, <2>4, <2>7, <2>8, SettlesEven DEF AllCounted
    <2> QED BY <1>2, <2>1, <2>4, <2>9, CountsStill
  <1> QED BY <1>9, <1>10 DEF Kinds

\* A job loop claims a job of g: it runs the timer's, or will run as a stray.
LEMMA ClaimCounts ==
    ASSUME Sound, Sound', AllCounted, NEW g \in Titles, NEW k \in Kinds, NEW w \in Monitors,
           NEW reach \in BOOLEAN, Claim(w, g, k, reach), mishaps' = mishaps \/ Mishap(g)
    PROVE  AllCounted'
  <1>1. /\ MonitorParts /\ Forces \subseteq Kinds /\ "due" \in Kinds /\ NoMonitor \notin Monitors
        /\ \A j \in Forces : j # "due"
    BY MonitorPartsTyped, MonitorAssumption DEF Sound, Kinds
  <1>2. PICK snap : snap = tasks[g][k].snap
    OBVIOUS
  <1>3. PICK h : h = Handler("lock", g, k, snap, reach)
    OBVIOUS
  <1>4. h.step = "lock" /\ h.title = g /\ h.kind = k /\ h.snap = snap /\ h.todo = <<>>
    BY <1>3 DEF Handler
  <1>5. PICK t : t = [owner |-> w, snap |-> snap]
    OBVIOUS
  <1>6. t.owner = w /\ t.snap = snap /\ t # NoTask
    <2>1. tasks[g][k] \in Jobs
      BY <1>1 DEF Claim, MonitorParts
    <2>2. t \in Jobs
      BY <1>2, <1>5, <2>1 DEF Jobs
    <2> QED BY <1>5, <2>2, AbsenceAssumption DEF Jobs
  <1>7. /\ ~Active(w) /\ tasks[g][k] # NoTask /\ tasks[g][k].owner = NoMonitor
        /\ Tell(w, h) /\ tasks' = [tasks EXCEPT ![g][k].owner = w]
        /\ UNCHANGED <<payload, watch, gameLock, log, delivered, recorded, unheard>>
    BY <1>2, <1>3 DEF Claim, history
  <1>8. tasks' = [tasks EXCEPT ![g] = [tasks[g] EXCEPT ![k] = t]]
    <2>1. tasks[g][k] \in Jobs
      BY <1>1, <1>7 DEF MonitorParts
    <2>2. [tasks[g][k] EXCEPT !.owner = w] = t
      BY <1>2, <1>5, <2>1 DEF Jobs
    <2>3. tasks' = [tasks EXCEPT ![g] = [tasks[g] EXCEPT ![k] = [tasks[g][k] EXCEPT !.owner = w]]]
      BY <1>7
    <2> QED BY <2>2, <2>3
  <1>9. /\ monitor'[w] = h /\ \A v \in Monitors : v # w => monitor'[v] = monitor[v]
        /\ tasks'[g][k] = t /\ \A j \in Kinds : j # k => tasks'[g][j] = tasks[g][j]
        /\ \A x \in Titles : x # g => tasks'[x] = tasks[x]
    BY <1>1, <1>7, <1>8 DEF MonitorParts, Tell
  <1>10. /\ mishaps[g] \in Nat /\ mishaps'[g] \in Nat /\ \A x \in Titles : x # g => mishaps'[x] = mishaps[x]
         /\ 3 * (mishaps'[g] - mishaps[g]) \in {0, 3}
    <2>1. mishaps[g] \in Nat
      BY <1>1 DEF MonitorParts
    <2>2. Mishap(g) => mishaps'[g] = mishaps[g] + 1 /\ \A x \in Titles : x # g => mishaps'[x] = mishaps[x]
      BY <1>1, MishapIsOwn
    <2> QED BY <2>1, <2>2
  <1>11. Unlogged /\ RowsElsewhere(g) /\ KeysElsewhere(g)
    BY <1>7, <1>9, <1>10, KeysUntouched DEF Unlogged, RowsElsewhere
  <1>12. /\ Lost' = Lost /\ Told' = Told /\ Bad(g)' \subseteq Bad(g)
    BY <1>7, <1>9, <1>11, BadKept DEF Active
  <1>13. PaySame(g) /\ RowSame(g)
    BY <1>7, <1>12 DEF PaySame, RowSame
  <1>14. Owes(w, g) = 0 /\ ~Regular(w, g)
    BY <1>7 DEF Owes, Stray, Regular, Runs
  <1>15. ASSUME NEW v \in Monitors, v # w PROVE Regular(v, g)' <=> Regular(v, g)
    BY <1>1, <1>6, <1>7, <1>9, <1>15 DEF Regular, Runs, Active, Kinds
  <1>16. \A v \in Monitors : v # w => Owes(v, g)' <= Owes(v, g)
    BY <1>9, <1>12, <1>15, OthersOwe
  <1>17. /\ Active(w)' /\ monitor'[w].title = g /\ Runs(w, g, k)'
    BY <1>4, <1>9 DEF Active, Runs
  <1>18. DebtTyped /\ DebtTyped'
    BY DebtTypes, PTL
  <1>19. /\ ForcedDebt(g) \in Nat /\ ForcedDebt(g)' \in Nat
         /\ DueDebt(g) \in 0..4 /\ DueDebt(g)' \in 0..4
    BY <1>18 DEF DebtTyped
  <1>20. Owes(w, g)' + ForcedDebt(g)' + DueDebt(g)' <= Owes(w, g) + ForcedDebt(g) + DueDebt(g)
    <2>1. CASE k = "due"
      <3>1. Regular(w, g)' /\ Owes(w, g)' = 0
        BY <1>6, <1>9, <1>17, <2>1 DEF Regular, Owes, Stray
      <3>2. ForcedDebt(g)' <= ForcedDebt(g)
        <4>1. \A j \in Forces : tasks'[g][j] = tasks[g][j] /\ ~Secure(w, g, j)
          BY <1>1, <1>7, <1>9, <2>1 DEF Secure, Runs
        <4> QED BY <1>1, <1>7, <1>9, <4>1, ForcedOfOthers
      <3>3. DueDebt(g) = RestDebt(g, snap)
        <4>1. ~\E v \in Monitors : Regular(v, g)
          BY <1>1, <1>7, <2>1 DEF Regular
        <4> QED BY <1>2, <1>7, <2>1, <4>1 DEF DueDebt
      <3>4. DueDebt(g)' = Errand(g, monitor[w])' + 2 * Unit(Adrift(w, g))'
        BY <1>6, <1>9, <2>1, <3>1 DEF DueDebt
      <3>5. Unit(Adrift(w, g))' = 0
        BY <1>4, <1>9 DEF Unit, Adrift
      <3>6. Errand(g, monitor[w])' = RestDebt(g, snap)
        BY <1>4, <1>7, <1>9 DEF Errand, Early, RestDebt, Unit, Misled
      <3>7. RestDebt(g, snap) \in 0..2
        BY RunBounds
      <3> QED BY <1>14, <1>19, <3>1, <3>2, <3>3, <3>4, <3>5, <3>6, <3>7
    <2>2. CASE k \in Forces
      <3>1. tasks'[g]["due"] = tasks[g]["due"] /\ ~Regular(w, g)'
        <4>1. ~Runs(w, g, "due")'
          BY <1>1, <1>4, <1>9, <2>2 DEF Runs
        <4> QED BY <1>1, <1>9, <2>2, <4>1 DEF Regular
      <3>2. DueDebt(g)' <= DueDebt(g)
        BY <1>7, <1>9, <1>13, <1>14, <3>1, DueOfOthers
      <3>3. Owes(w, g)' \in 0..3
        BY <1>18 DEF DebtTyped
      <3>4. Waits(g, k)
        BY <1>1, <1>7 DEF Waits
      <3>5. Secure(w, g, k)'
        BY <1>4, <1>9, <1>17 DEF Secure
      <3>6. ~Waits(g, k)'
        BY <1>6, <1>9, <3>5 DEF Waits
      <3>7. \A j \in Forces : j # k /\ Waits(g, j)' => Waits(g, j)
        <4>1. \A j \in Forces : ~Secure(w, g, j)
          BY <1>7 DEF Secure, Runs
        <4> QED BY <1>1, <1>7, <1>9, <4>1, WaitsOfOthers
      <3>8. ForcedDebt(g)' + 3 <= ForcedDebt(g)
        BY <2>2, <3>4, <3>6, <3>7, ForcedSums
      <3> QED BY <1>14, <1>19, <3>2, <3>3, <3>8
    <2> QED BY <2>1, <2>2 DEF Kinds
  <1>21. Owes(w, g)' \in 0..3
    BY <1>18 DEF DebtTyped
  <1>22. Owes(w, g)' + ForcedDebt(g)' + DueDebt(g)'
           <= Owes(w, g) + ForcedDebt(g) + DueDebt(g) + 3 * (mishaps'[g] - mishaps[g])
    BY <1>10, <1>14, <1>19, <1>20, <1>21
  <1>23. CountedFor(g)'
    BY <1>10, <1>12, <1>16, <1>22, SettlesEven DEF AllCounted
  <1> QED BY <1>7, <1>9, <1>11, <1>17, <1>23, CountsAll

LEMMA HandlerCounts ==
    ASSUME Sound, Sound', AllCounted, NEW w \in Monitors, HandlerStep(w)
    PROVE  AllCounted'
  <1>1. PICK g : g = monitor[w].title
    OBVIOUS
  <1>2. CASE TakeLock(w) \/ LockHeld(w) \/ Fetch(w) \/ Patch(w) \/ SkipEvent(w)
    BY <1>1, <1>2, TakeLockCounts, LockHeldCounts, FetchCounts, PatchCounts, SkipEventCounts
  <1>3. CASE Reserve(w) \/ SendDelivers(w) \/ Finalise(w) \/ ReleaseReservation(w)
    BY <1>1, <1>3, ReserveCounts, SendDeliversCounts, FinaliseCounts, ReleaseReservationCounts
  <1>4. CASE \/ RecordWatch(w) \/ RecordFailure(w) \/ RecordFailureLost(w)
             \/ Unlock(w) \/ UnlockThrows(w)
    BY <1>1, <1>4, RecordWatchCounts, RecordFailureCounts, UnlockCounts
  <1> QED BY <1>2, <1>3, <1>4 DEF HandlerStep

LEMMA FaultCounts ==
    ASSUME Sound, Sound', AllCounted, NEW w \in Monitors, Fault(w)
    PROVE  AllCounted'
  <1>1. PICK g : g = monitor[w].title
    OBVIOUS
  <1>2. CASE FetchEmpty(w) \/ SendReachesNobody(w) \/ SendThrows(w)
    BY <1>1, <1>2, FetchCounts, SendReachesNobodyCounts, SendThrowsCounts
  <1>3. CASE Throw(w) \/ Crash(w) \/ LockLost(w)
    BY <1>1, <1>3, ThrowCounts, CrashCounts, LockLostCounts
  <1> QED BY <1>2, <1>3 DEF Fault

LEMMA QueueCounts ==
    ASSUME Sound, Sound', AllCounted, NEW g \in Titles, QueueStep(g)
    PROVE  AllCounted'
  <1>1. CASE EnqueueDue(g) \/ EnqueueForced(g)
    BY <1>1, EnqueueCounts
  <1>2. ASSUME NEW k \in Kinds, RequeueOrphan(g, k) \/ RequeueSlow(g, k) PROVE AllCounted'
    BY <1>2, RequeueCounts
  <1>3. ASSUME NEW k \in Kinds, NEW w \in Monitors, ClaimReaching(w, g, k) \/ ClaimUnheard(w, g, k)
        PROVE  AllCounted'
    <2>1. PICK reach \in BOOLEAN : Claim(w, g, k, reach) /\ (mishaps' = mishaps \/ Mishap(g))
      BY <1>3 DEF ClaimReaching, ClaimUnheard
    <2> QED BY <2>1, ClaimCounts
  <1> QED BY <1>1, <1>2, <1>3 DEF QueueStep

\* Nothing that counts changes.
LEMMA NothingCounts ==
    ASSUME Sound, Sound', AllCounted,
           UNCHANGED <<payload, watch, tasks, gameLock, monitor, log, delivered, recorded, unheard, mishaps>>
    PROVE  AllCounted'
  <1>1. ASSUME NEW x \in Titles PROVE CountedFor(x)'
    <2>1. Apart(x)
      BY DEF Apart
    <2>2. mishaps[x] \in Nat
      BY MishapsAreNat
    <2> QED BY <2>1, <2>2, LeftAlone DEF Sound, AllCounted
  <1> QED BY <1>1 DEF AllCounted

LEMMA CountedNext ==
    ASSUME Sound, Sound', AllCounted, [MonitorNext]_monitorVars PROVE AllCounted'
  <1>1. CASE UNCHANGED monitorVars
    BY <1>1, NothingCounts DEF monitorVars
  <1>2. CASE Midnight \/ \E g \in Titles, m \in Release : MoveDate(g, m)
    BY <1>2, NothingCounts DEF Midnight, MoveDate, history
  <1>3. ASSUME NEW g \in Titles, ClientRefresh(g) PROVE AllCounted'
    BY <1>3, ClientRefreshCounts
  <1> QED BY <1>1, <1>2, <1>3, HandlerCounts, FaultCounts, QueueCounts DEF MonitorNext, WorldStep

LEMMA CountedInit == MonitorInit => AllCounted /\ Kept
  <1> SUFFICES ASSUME MonitorInit PROVE AllCounted /\ Kept
    OBVIOUS
  <1>1. \A w \in Monitors : monitor[w].step = "idle" /\ monitor[w].todo = <<>>
    BY DEF MonitorInit, Resting, Handler
  <1>2. Kept
    BY <1>1, NothingToSay DEF Kept, Regular, Runs, Active
  <1>3. ASSUME NEW g \in Titles PROVE CountedFor(g)
    <2>1. Bad(g) = {}
      BY DEF Bad, Lost, MonitorInit
    <2>2. Piled(g) = {}
      <3>1. \A w \in Monitors : Owes(w, g) = 0
        BY <1>1 DEF Owes, Stray, Active
      <3> QED BY <3>1 DEF Piled, Piles
    <2>3. ForcedDebt(g) = 0
      <3>1. {k \in Forces : Waits(g, k)} = {}
        BY DEF Waits, MonitorInit, Kinds
      <3> QED BY <3>1, FS_EmptySet DEF ForcedDebt
    <2>4. ~Missing(g) /\ tasks[g]["due"] = NoTask
      <3>1. watch[g] # NoWatch => watch[g].marker = payload[g]
        <4>1. PICK checked \in SUBSET Titles :
                watch = [x \in Titles |-> IF x \in checked THEN [marker |-> payload[x], day |-> 0]
                                         ELSE NoWatch]
          BY DEF MonitorInit
        <4> QED BY <4>1
      <3> QED BY <3>1 DEF Missing, MonitorInit, Kinds
    <2>5. DueDebt(g) = 0
      BY <2>4 DEF DueDebt, Unit
    <2>6. IsFiniteSet({}) /\ Cardinality({}) = 0
      BY FS_EmptySet
    <2>7. mishaps[g] = 0
      BY DEF MonitorInit
    <2> QED BY <2>1, <2>2, <2>3, <2>5, <2>6, <2>7 DEF CountedFor, Debt
  <1> QED BY <1>2, <1>3 DEF AllCounted

\* What is lost is bad, and what is bad is part of the debt.
LEMMA LossesAreCounted ==
    ASSUME Guarded, AllCounted, NEW g \in Titles
    PROVE  IsFiniteSet(LostOf(g)) /\ Cardinality(LostOf(g)) <= 3 * mishaps[g]
  <1>1. LostOf(g) \subseteq Bad(g)
    BY DEF Guarded, MonitorTypeOK, LostOf, Lost, Bad
  <1>2. IsFiniteSet(Bad(g)) /\ IsFiniteSet(Piled(g)) /\ Debt(g) <= 3 * mishaps[g]
    BY DEF AllCounted, CountedFor
  <1>3. /\ IsFiniteSet(LostOf(g)) /\ Cardinality(LostOf(g)) <= Cardinality(Bad(g))
        /\ Cardinality(LostOf(g)) \in Nat /\ Cardinality(Bad(g)) \in Nat /\ Cardinality(Piled(g)) \in Nat
    BY <1>1, <1>2, FS_Subset, FS_CardinalityType
  <1>4. ForcedDebt(g) \in Nat /\ DueDebt(g) \in 0..4 /\ mishaps[g] \in Nat
    BY DebtTypes, MonitorPartsTyped DEF DebtTyped, MonitorParts
  <1> QED BY <1>2, <1>3, <1>4 DEF Debt

DebtInv == Guarded /\ Kept /\ AllCounted

LEMMA DebtIsInvariant == MonitorSpec => []DebtInv
  <1>1. MonitorInit => DebtInv
    BY GuardedInit, CountedInit DEF DebtInv
  <1>2. DebtInv /\ [MonitorNext]_monitorVars => DebtInv'
    <2> SUFFICES ASSUME DebtInv, [MonitorNext]_monitorVars PROVE DebtInv'
      OBVIOUS
    <2>1. Guarded' /\ Kept'
      BY GuardedNext, KeptNext DEF DebtInv
    <2>2. Sound
      BY EventsAreOwn DEF DebtInv, Sound
    <2>3. OwnEvents'
      BY <2>1, EventsAreOwn, PTL
    <2>4. Sound'
      BY <2>1, <2>3 DEF Sound
    <2>5. AllCounted'
      BY <2>2, <2>4, CountedNext DEF DebtInv
    <2> QED BY <2>1, <2>5 DEF DebtInv
  <1> QED BY <1>1, <1>2, PTL DEF MonitorSpec

(***************************************************************************)
(* Date changes are announced (processGameRow): of the changes a game's    *)
(* watch row went through, at most three for each mishap of that game were *)
(* neither delivered nor skipped for want of a subscriber, however many    *)
(* games, workers, forced jobs and moved dates there are.                  *)
(***************************************************************************)
THEOREM ChangesAreCounted == MonitorSpec => []ChangesAreAnnounced
  <1>1. DebtInv => ChangesAreAnnounced
    BY LossesAreCounted DEF DebtInv, ChangesAreAnnounced
  <1> QED BY <1>1, DebtIsInvariant, PTL

(***************************************************************************)
(* A game nothing has befallen loses no change, whatever befalls others.   *)
(***************************************************************************)
THEOREM CalmGamesLoseNothing ==
    MonitorSpec => [](\A g \in Titles : mishaps[g] = 0 => LostOf(g) = {})
  <1>1. DebtInv => \A g \in Titles : mishaps[g] = 0 => LostOf(g) = {}
    <2> SUFFICES ASSUME DebtInv, NEW g \in Titles, mishaps[g] = 0 PROVE LostOf(g) = {}
      OBVIOUS
    <2>1. IsFiniteSet(LostOf(g)) /\ Cardinality(LostOf(g)) <= 0
      BY LossesAreCounted DEF DebtInv
    <2>2. Cardinality(LostOf(g)) \in Nat
      BY <2>1, FS_CardinalityType
    <2>3. Cardinality(LostOf(g)) = 0
      BY <2>1, <2>2
    <2> QED BY <2>1, <2>3, FS_EmptySet
  <1> QED BY <1>1, DebtIsInvariant, PTL

-----------------------------------------------------------------------------
(* ReleaseSchedule: no release day is slept through, whatever the dates, the *)
(* delays (up to 17 hours) and the forced checks are.                      *)

\* Checks go by the plan, and a day known in time lies ahead until it has been seen.
OnPlan ==
    /\ hour \in Nat /\ planned \in Nat /\ grain \in Grain
    /\ inTime \in BOOLEAN /\ seen \in BOOLEAN /\ errors \in 0..MaxErrors
    /\ hour < planned
    /\ errors = 0 => planned = NextCheck(grain, hour)
    /\ inTime => grain = 5
    /\ inTime /\ errors = 0 /\ ~seen => hour < ReleaseDay

\* The cadence of each precision, with the names of the precisions resolved.
LEMMA Cadences ==
    ASSUME NEW t \in Int
    PROVE  /\ Cadence(1, t) = 168
           /\ Cadence(2, t) = IF t >= YearOver THEN 8760 ELSE 720
           /\ \A p \in {3, 4} : Cadence(p, t) \in {168, 720}
           /\ Cadence(5, t) = LET ahead == (ReleaseDay - t) \div 24 IN
                              IF ahead \in 0..30 THEN 6
                              ELSE IF ahead \in (31..120) \union (-30..-1) THEN 24 ELSE 8760
           /\ ~Scheduled(1, t)
           /\ Scheduled(5, t) <=> ReleaseDay > t
  <1>1. /\ Precisions[1] = "unknown" /\ Precisions[2] = "year" /\ Precisions[3] = "quarter"
        /\ Precisions[4] = "month" /\ Precisions[5] = "day"
    BY DEF Precisions
  <1>2. Begins(5) = ReleaseDay
    BY <1>1 DEF Begins
  <1>3. Cadence(1, t) = 168 /\ Cadence(2, t) = IF t >= YearOver THEN 8760 ELSE 720
    BY <1>1 DEF Cadence, Day
  <1>4. \A p \in {3, 4} : Cadence(p, t) \in {168, 720}
    BY <1>1 DEF Cadence, Day
  <1>5. Cadence(5, t) = LET ahead == (ReleaseDay - t) \div 24 IN
                        IF ahead \in 0..30 THEN 6
                        ELSE IF ahead \in (31..120) \union (-30..-1) THEN 24 ELSE 8760
    BY <1>1, <1>2 DEF Cadence, DaysAhead, Day
  <1>6. ~Scheduled(1, t) /\ (Scheduled(5, t) <=> ReleaseDay > t)
    BY <1>1, <1>2 DEF Scheduled
  <1> QED BY <1>3, <1>4, <1>5, <1>6

\* A plan lies ahead, within the window of a coarse date until the year is over.
LEMMA PlansAhead ==
    ASSUME NEW t \in Nat, NEW p \in Grain
    PROVE  /\ NextCheck(p, t) \in Nat /\ NextCheck(p, t) > t
           /\ p # 5 /\ (p = 2 => t < YearOver) => NextCheck(p, t) + MaxLate <= t + Window(p, t)
  <1>0. YearOver \in Int /\ ReleaseDay \in Int /\ MaxLate \in 0..17
    BY ScheduleAssumption
  <1>1. Cadence(p, t) \in {6, 24, 168, 720, 8760}
    <2> DEFINE ahead == (ReleaseDay - t) \div 24
    <2>1. CASE p = 5  BY <2>1, Cadences
    <2>2. CASE p = 2  BY <2>2, Cadences
    <2>3. CASE p \in {1, 3, 4}  BY <2>3, Cadences
    <2> QED BY <2>1, <2>2, <2>3 DEF Grain
  <1>2. NextCheck(p, t) \in Nat /\ NextCheck(p, t) > t
    BY <1>1 DEF NextCheck, Cap, Day
  <1>3. ASSUME p # 5, p = 2 => t < YearOver
        PROVE  NextCheck(p, t) + MaxLate <= t + Window(p, t)
    <2>1. Cadence(p, t) \in {168, 720} /\ (p = 1 => Cadence(p, t) = 168)
      <3>1. CASE p = 1  BY <3>1, Cadences
      <3>2. CASE p = 2  BY <3>2, <1>3, <1>0, Cadences
      <3>3. CASE p \in {3, 4}  BY <3>3, Cadences
      <3> QED BY <1>3, <3>1, <3>2, <3>3 DEF Grain
    <2>2. Precisions[p] = "unknown" <=> p = 1
      BY DEF Precisions, Grain
    <2> QED BY <1>0, <2>1, <2>2 DEF NextCheck, Window, Cap, Day
  <1> QED BY <1>2, <1>3

\* From before a known release day, the next check comes before that day is over.
LEMMA DayIsReached ==
    ASSUME NEW t \in Nat, t < ReleaseDay
    PROVE  NextCheck(5, t) + MaxLate < ReleaseDay + Day
  <1> DEFINE ahead == (ReleaseDay - t) \div 24
  <1>0. ReleaseDay \in Int /\ MaxLate \in 0..17
    BY ScheduleAssumption
  <1>1. ahead \in Int /\ 24 * ahead <= ReleaseDay - t /\ ahead >= 0
    BY <1>0
  <1>2. Scheduled(5, t)
    BY <1>0, Cadences
  <1>3. Cadence(5, t) = IF ahead \in 0..30 THEN 6
                        ELSE IF ahead \in (31..120) \union (-30..-1) THEN 24 ELSE 8760
    BY Cadences
  <1> HIDE DEF ahead
  <1>4. CASE ahead \in 0..30
    BY <1>0, <1>2, <1>3, <1>4 DEF NextCheck, Cap, Day
  <1>5. CASE ahead \in 31..120
    BY <1>0, <1>1, <1>2, <1>3, <1>5 DEF NextCheck, Cap, Day
  <1>6. CASE ahead > 120
    BY <1>0, <1>1, <1>2, <1>3, <1>6 DEF NextCheck, Cap, Day
  <1> QED BY <1>1, <1>4, <1>5, <1>6

LEMMA OnPlanInit == ScheduleInit => OnPlan
  <1> SUFFICES ASSUME ScheduleInit PROVE OnPlan
    OBVIOUS
  <1>1. Precisions[grain] = "day" <=> grain = 5
    BY DEF ScheduleInit, Precisions, Grain
  <1>2. NextCheck(grain, 0) \in Nat /\ NextCheck(grain, 0) > 0
    BY PlansAhead DEF ScheduleInit
  <1>3. ReleaseDay \in Int /\ MaxErrors \in Nat
    BY ScheduleAssumption
  <1>4. inTime = (grain = 5 /\ ReleaseDay > 0) /\ seen = FALSE
    BY <1>1 DEF ScheduleInit
  <1>5. inTime \in BOOLEAN /\ seen \in BOOLEAN /\ (inTime => grain = 5 /\ 0 < ReleaseDay)
    BY <1>4
  <1> QED BY <1>2, <1>3, <1>5 DEF ScheduleInit, OnPlan

\* A check at t, no later than the plan allows.
LEMMA CheckKeepsPlan ==
    ASSUME OnPlan, NEW t \in Nat, NEW p \in Grain, Check(t, p),
           t <= planned + MaxLate
    PROVE  OnPlan'
  <1>0. /\ ReleaseDay \in Int /\ MaxErrors \in Nat /\ YearOver \in Int /\ ReleaseDay < YearOver
        /\ MaxLate \in 0..17
    BY ScheduleAssumption
  <1>1. \A q \in Grain : Precisions[q] = "day" <=> q = 5
    BY DEF Precisions, Grain
  <1>2. /\ hour' = t /\ grain' = p /\ planned' = NextCheck(p, t) /\ errors' = errors
        /\ p >= grain
        /\ inTime' = IF grain = 5 THEN inTime
                     ELSE p = 5 /\ hour + Window(grain, hour) < ReleaseDay + Day
        /\ seen' = (seen \/ (p = 5 /\ OnReleaseDay(t)))
    BY <1>1 DEF Check, OnPlan
  <1>3. NextCheck(p, t) \in Nat /\ NextCheck(p, t) > t
    BY PlansAhead
  <1>4. inTime' \in BOOLEAN /\ seen' \in BOOLEAN
    BY <1>2 DEF OnPlan, OnReleaseDay
  <1>5. inTime' => grain' = 5
    <2>1. CASE grain = 5  BY <1>2, <2>1 DEF Grain
    <2>2. CASE grain # 5  BY <1>2, <2>2
    <2> QED BY <2>1, <2>2
  <1>6. ASSUME inTime', errors' = 0, ~seen'
        PROVE  hour' < ReleaseDay
    <2>1. p = 5 /\ ~seen /\ ~OnReleaseDay(t) /\ errors = 0
      BY <1>2, <1>5, <1>6
    <2>2. planned = NextCheck(grain, hour)
      BY <2>1 DEF OnPlan
    <2>3. planned + MaxLate < ReleaseDay + Day
      <3>1. CASE grain = 5
        BY <1>0, <1>2, <1>6, <2>1, <2>2, <3>1, DayIsReached DEF OnPlan
      <3>2. CASE grain # 5
        <4>1. hour + Window(grain, hour) < ReleaseDay + Day
          BY <1>2, <1>6, <3>2
        <4>2. Window(grain, hour) \in Nat /\ Window(grain, hour) >= Day
          BY <1>0 DEF Window, Cap, Day
        <4>3. hour < YearOver
          BY <1>0, <4>1, <4>2 DEF OnPlan, Day
        <4> QED BY <1>0, <2>2, <3>2, <4>1, <4>2, <4>3, PlansAhead DEF OnPlan, Day
      <3> QED BY <3>1, <3>2
    <2> QED BY <1>0, <1>2, <2>1, <2>3 DEF OnReleaseDay, OnPlan, Day
  <1> QED BY <1>2, <1>3, <1>4, <1>5, <1>6 DEF OnPlan, Check

LEMMA OnPlanNext == OnPlan /\ [ScheduleNext]_scheduleVars => OnPlan'
  <1> SUFFICES ASSUME OnPlan, [ScheduleNext]_scheduleVars PROVE OnPlan'
    OBVIOUS
  <1>0. MaxLate \in 0..17 /\ Forced \subseteq Nat \ {0} /\ MaxErrors \in Nat
    BY ScheduleAssumption
  <1>1. CASE DueCheck
    <2> PICK late \in 0..MaxLate, p \in Grain : Check(planned + late, p)
      BY <1>1 DEF DueCheck
    <2> QED BY <1>0, CheckKeepsPlan DEF OnPlan
  <1>2. CASE EarlyCheck
    <2> PICK h \in Forced, p \in Grain : hour + h < planned /\ Check(hour + h, p)
      BY <1>2 DEF EarlyCheck
    <2> QED BY <1>0, CheckKeepsPlan DEF OnPlan
  <1>3. CASE FailedCheck
    <2>1. /\ errors' = errors + 1 /\ errors < MaxErrors
          /\ \E late \in 0..MaxLate : hour' = planned + late /\ planned' = planned + late + 24
          /\ UNCHANGED <<grain, inTime, seen>>
      BY <1>3 DEF FailedCheck, Day
    <2>2. errors' \in 0..MaxErrors /\ errors' # 0
      BY <1>0, <2>1 DEF OnPlan
    <2> QED BY <1>0, <2>1, <2>2 DEF OnPlan
  <1>4. CASE UNCHANGED scheduleVars
    BY <1>4 DEF scheduleVars, OnPlan
  <1> QED BY <1>1, <1>2, <1>3, <1>4 DEF ScheduleNext, ScheduleOver

(***************************************************************************)
(* The checks go by the plan; in particular the variables have their type. *)
(***************************************************************************)
THEOREM ScheduleTypeCorrect == ScheduleSpec => []ScheduleTypeOK
  <1>1. OnPlan => ScheduleTypeOK
    BY DEF OnPlan, ScheduleTypeOK
  <1> QED BY <1>1, OnPlanInit, OnPlanNext, PTL DEF ScheduleSpec

(***************************************************************************)
(* A check runs on every release day that IGDB knew early enough, if no    *)
(* check fails, for all dates, delays up to 17 hours and forced checks     *)
(* (computeNextCheckAt).                                                   *)
(***************************************************************************)
THEOREM NoReleaseDayMissed == ScheduleSpec => []ReleaseDayIsSeen
  <1>1. OnPlan => ReleaseDayIsSeen
    BY ScheduleAssumption DEF OnPlan, ReleaseDayIsSeen, Day
  <1> QED BY <1>1, OnPlanInit, OnPlanNext, PTL DEF ScheduleSpec

=============================================================================
