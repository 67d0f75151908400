-------------------------- MODULE JobQueue_proofs --------------------------
(***************************************************************************)
(* What JobQueue guarantees for any loops, processes, producers, requests  *)
(* and bounds: types, attempts, and, until a lock ages out under a live    *)
(* run, exclusive runs and final successes.                                *)
(***************************************************************************)
EXTENDS JobQueue, TLAPS

\* A loop holds a job exactly while it is not idle; a producer that is not idle
\* has a request.
Shape ==
    /\ \A c \in Loops : (pc[c] = "idle") <=> (held[c] = NoJob)
    /\ \A p \in Producers : stage[p] # "idle" => asked[p] # NoRequest

\* Ids come from the sequence: no row, holder or candidate is ahead of it.
Allocated ==
    /\ \A j \in Ids : j > lastId => jobs[j] = NoJob
    /\ \A c \in Loops : held[c] # NoJob => held[c] <= lastId
    /\ \A s \in Sweeps : \A j \in sweep[s] : j <= lastId

Typed == TypeOK /\ Shape /\ Allocated

\* attempts counts the claims, and a failed job has used its attempts up.
Counted ==
    \A j \in Ids :
        /\ Exists(j) => tries[j] = jobs[j].attempts
        /\ Status(j) = "failed" => jobs[j].attempts >= jobs[j].max
        /\ j > lastId => tries[j] = 0

\* The job of a loop is running under its name and its lock is fresh; or it was
\* purged; or a complete whose answer was lost has ended it.
Covered(c) ==
    LET j == held[c] IN
    \/ Status(j) = "running" /\ jobs[j].owner = ProcOf[c] /\ ~jobs[j].stale
    \/ Status(j) = "none"
    \/ Status(j) = "succeeded" /\ pc[c] = "failing" /\ faults > 0

Unheld(j) == \A c \in Loops : held[c] # j

\* Every loop's job is covered.
Own == \A c \in Loops : held[c] # NoJob => Covered(c)

\* No two loops have one job.
Alone == \A c, d \in Loops : (held[c] # NoJob /\ held[c] = held[d]) => c = d

\* The candidates of recovery and replay are still what they were.
Current ==
    /\ \A j \in sweep["stale"] : Status(j) \in {"running", "none"} /\ Unheld(j)
    /\ \A j \in sweep["failed"] : Status(j) \in {"failed", "none"} /\ Unheld(j)

\* All that until a lock ages out under a live run.
Sole == lapses = 0 => Own /\ Alone /\ Current
-----------------------------------------------------------------------------
(* Rows and helpers.                                                       *)

\* The lock of a row is set exactly while it is running (fail, complete,
\* requeueStaleRunning and requeueFailed clear it).
Consistent(job) == (job.owner # NoOwner) <=> (job.status = "running")

LEMMA WaitingRow ==
    ASSUME NEW job \in Job, NEW ready \in BOOLEAN
    PROVE  /\ Waiting(job, ready) \in Job
           /\ Consistent(Waiting(job, ready))
           /\ Waiting(job, ready).status = "pending"
           /\ Waiting(job, ready).attempts = job.attempts
           /\ Waiting(job, ready).max = job.max
  BY DEF Waiting, Job, Consistent

LEMMA EndedRow ==
    ASSUME NEW job \in Job, NEW status \in {"succeeded", "failed"}
    PROVE  /\ Ended(job, status) \in Job
           /\ Consistent(Ended(job, status))
           /\ Ended(job, status).status = status
           /\ Ended(job, status).attempts = job.attempts
           /\ Ended(job, status).max = job.max
  BY QueueMarkersAssumption DEF Ended, Job, Consistent

Rows == jobs \in [Ids -> Job \cup {NoJob}] /\ \A j \in Ids : Exists(j) => Consistent(jobs[j])

Good(t) == t \in [Ids -> Job \cup {NoJob}] /\ \A i \in Ids : t[i] # NoJob => Consistent(t[i])

\* The table after complete of j.
LEMMA CompletedRows ==
    ASSUME Rows, NEW j \in Ids
    PROVE  /\ Good(Completed(j))
           /\ \A i \in Ids \ {j} : Completed(j)[i] = jobs[i]
           /\ ~Exists(j) => Completed(j)[j] = NoJob
           /\ Exists(j) => Completed(j)[j] = Ended(jobs[j], "succeeded")
<1>1. CASE ~Exists(j)
  BY <1>1 DEF Completed, Exists, Rows, Good
<1>2. CASE Exists(j)
  <2>1. jobs[j] \in Job
    BY <1>2 DEF Rows, Exists
  <2>2. Ended(jobs[j], "succeeded") \in Job /\ Consistent(Ended(jobs[j], "succeeded"))
    BY <2>1, EndedRow
  <2>3. Completed(j) = [jobs EXCEPT ![j] = Ended(jobs[j], "succeeded")]
    BY <1>2 DEF Completed
  <2> QED
    BY <1>2, <2>2, <2>3 DEF Rows, Good, Exists
<1> QED BY <1>1, <1>2

\* The table after fail of j.
FailedRow(job) ==
    IF job.attempts >= job.max THEN Ended(job, "failed") ELSE Waiting(job, job.attempts = 0)

LEMMA FailedRows ==
    ASSUME Rows, NEW j \in Ids
    PROVE  /\ Good(Failed(j))
           /\ \A i \in Ids \ {j} : Failed(j)[i] = jobs[i]
           /\ ~Exists(j) => Failed(j)[j] = NoJob
           /\ Exists(j) => Failed(j)[j] = FailedRow(jobs[j])
<1>1. CASE ~Exists(j)
  BY <1>1 DEF Failed, Exists, Rows, Good
<1>2. CASE Exists(j)
  <2>1. jobs[j] \in Job
    BY <1>2 DEF Rows, Exists
  <2>2. FailedRow(jobs[j]) \in Job /\ Consistent(FailedRow(jobs[j]))
    BY <2>1, EndedRow, WaitingRow DEF FailedRow
  <2>3. Failed(j) = [jobs EXCEPT ![j] = FailedRow(jobs[j])]
    BY <1>2 DEF Failed, FailedRow
  <2> QED
    BY <1>2, <2>2, <2>3 DEF Rows, Good, Exists
<1> QED BY <1>1, <1>2

-----------------------------------------------------------------------------
(* Types.                                                                  *)

\* TypeOK without what its clauses about the table say.
Rest ==
    /\ lastId \in 0..MaxJobs
    /\ pc \in [Loops -> {"idle", "working", "done", "failing"}]
    /\ held \in [Loops -> Ids \cup {NoJob}]
    /\ stage \in [Producers -> {"idle", "lookup", "fallback"}]
    /\ asked \in [Producers -> Requests \cup {NoRequest}]
    /\ sweep \in [Sweeps -> SUBSET Ids]
    /\ faults \in Nat /\ lapses \in Nat /\ replays \in Nat
    /\ faults + lapses + replays <= MaxTroubles
    /\ tries \in [Ids -> Nat]

LEMMA TypeParts == TypeOK <=> Rows /\ Rest
  BY DEF TypeOK, Rows, Rest, Exists, Consistent

LEMMA HeldId ==
    ASSUME Typed, NEW c \in Loops, pc[c] # "idle"
    PROVE  held[c] \in Ids
  BY DEF Typed, TypeOK, Shape

LEMMA InsertTyped ==
    ASSUME Typed, NEW r \in Requests, NEW key \in Keys \cup {NoKey}, Insert(r, key)
    PROVE  /\ Rows'
           /\ lastId' = lastId + 1 /\ lastId' \in 0..MaxJobs /\ lastId' \in Ids
           /\ lastId' > lastId
           /\ jobs[lastId'] = NoJob
           /\ \A j \in Ids \ {lastId'} : jobs'[j] = jobs[j]
           /\ jobs'[lastId'].attempts = 0 /\ jobs'[lastId'].status = "pending"
           /\ jobs'[lastId'] # NoJob
<1> DEFINE row == [type |-> r.type, key |-> key, priority |-> r.priority, max |-> r.max,
                   status |-> "pending", attempts |-> 0, owner |-> NoOwner,
                   stale |-> FALSE, ready |-> TRUE]
<1>1. row \in Job /\ Consistent(row) /\ row.attempts = 0 /\ row.status = "pending"
  BY RequestsAssumption DEF Job, Request, Consistent
<1>2. lastId \in 0..MaxJobs /\ lastId < MaxJobs /\ lastId' = lastId + 1
  BY DEF Typed, TypeOK, Insert
<1>3. lastId' \in Ids /\ lastId' \in 0..MaxJobs /\ lastId' > lastId
  BY <1>2, QueueBoundsAssumption DEF Ids
<1>4. jobs' = [jobs EXCEPT ![lastId'] = row]
  BY <1>2 DEF Insert
<1>5. jobs \in [Ids -> Job \cup {NoJob}] /\ \A j \in Ids : jobs[j] # NoJob => Consistent(jobs[j])
  BY TypeParts DEF Typed, Rows, Exists
<1> HIDE DEF row
<1>6. jobs[lastId'] = NoJob
  BY <1>3 DEF Typed, Allocated
<1>7. row # NoJob
  BY <1>1, QueueMarkersAssumption
<1> QED
  BY <1>1, <1>2, <1>3, <1>4, <1>5, <1>6, <1>7 DEF Rows, Exists

\* The row after a claim.
RunningRow(job, p) ==
    [job EXCEPT !.status = "running", !.attempts = @ + 1, !.owner = p, !.stale = FALSE]

LEMMA ClaimedRow ==
    ASSUME NEW job \in Job, NEW p \in Procs
    PROVE  /\ RunningRow(job, p) \in Job
           /\ Consistent(RunningRow(job, p))
           /\ RunningRow(job, p).status = "running"
           /\ RunningRow(job, p).owner = p
           /\ ~RunningRow(job, p).stale
           /\ RunningRow(job, p).attempts = job.attempts + 1
           /\ RunningRow(job, p).max = job.max
<1>1. p # NoOwner
  BY QueueMarkersAssumption
<1>2. job.attempts \in Nat
  BY DEF Job
<1>3. /\ RunningRow(job, p).status = "running"
      /\ RunningRow(job, p).owner = p
      /\ RunningRow(job, p).stale = FALSE
      /\ RunningRow(job, p).attempts = job.attempts + 1
      /\ RunningRow(job, p).max = job.max
  BY DEF RunningRow, Job
<1>4. RunningRow(job, p) \in Job
  <2> DEFINE a == [job EXCEPT !.status = "running"]
             b == [a EXCEPT !.attempts = job.attempts + 1]
             d == [b EXCEPT !.owner = p]
  <2>1. a \in Job
    BY DEF Job
  <2>n. job.attempts + 1 \in Nat
    BY <1>2
  <2> HIDE DEF a
  <2>2. b \in Job
    BY <2>1, <2>n DEF Job
  <2> HIDE DEF b
  <2>3. d \in Job
    BY <2>2 DEF Job
  <2> HIDE DEF d
  <2>4. [d EXCEPT !.stale = FALSE] \in Job
    BY <2>3 DEF Job
  <2> QED
    BY <2>4 DEF RunningRow, a, b, d
<1> QED
  BY <1>1, <1>3, <1>4 DEF Consistent

LEMMA TakenRow ==
    ASSUME Typed, NEW c \in Loops, NEW j \in Ids, TakeNext(c, j)
    PROVE  /\ Exists(j) /\ jobs[j] \in Job /\ jobs[j].status = "pending"
           /\ Rows' /\ tries' \in [Ids -> Nat]
           /\ \A i \in Ids \ {j} : jobs'[i] = jobs[i] /\ tries'[i] = tries[i]
           /\ jobs'[j] = RunningRow(jobs[j], ProcOf[c]) /\ jobs'[j] # NoJob
           /\ tries'[j] = tries[j] + 1
           /\ pc[c] = "idle"
<1> DEFINE row == RunningRow(jobs[j], ProcOf[c])
<1>1. Exists(j) /\ jobs[j].status = "pending"
  BY DEF TakeNext, Claimable, Status
<1>2. jobs \in [Ids -> Job \cup {NoJob}] /\ \A i \in Ids : jobs[i] # NoJob => Consistent(jobs[i])
  BY TypeParts DEF Typed, Rows, Exists
<1>3. jobs[j] \in Job
  BY <1>1, <1>2 DEF Exists
<1>4. row \in Job /\ Consistent(row)
  BY <1>3, ClaimedRow, LoopsAssumption
<1>5. jobs' = [jobs EXCEPT ![j] = row]
  BY <1>2, <1>3 DEF TakeNext, RunningRow
<1> HIDE DEF row
<1>6. tries' \in [Ids -> Nat] /\ tries'[j] = tries[j] + 1
      /\ \A i \in Ids \ {j} : tries'[i] = tries[i]
  BY DEF TakeNext, Typed, TypeOK
<1>7. \A i \in Ids \ {j} : jobs'[i] = jobs[i]
  BY <1>2, <1>5
<1>8. jobs'[j] = row
  BY <1>2, <1>5
<1>9. Rows'
  BY <1>2, <1>4, <1>5 DEF Rows, Exists
<1>10. row # NoJob
  BY <1>4, QueueMarkersAssumption
<1> QED
  BY <1>1, <1>3, <1>6, <1>7, <1>8, <1>9, <1>10 DEF TakeNext, row

LEMMA TypedParts == ASSUME Rows', Rest', Shape', Allocated' PROVE Typed'
  BY DEF Typed, TypeOK, Rows, Rest, Exists, Consistent

LEMMA TypedFacts ==
    ASSUME Typed
    PROVE  Rows /\ Rest /\ Shape /\ Allocated
  BY TypeParts DEF Typed

\* The two steps that insert a row.
LEMMA TypedInsert ==
    ASSUME Typed, NEW p \in Producers, NEW r \in Requests, NEW key \in Keys \cup {NoKey},
           Insert(r, key),
           stage' \in [Producers -> {"idle", "lookup", "fallback"}],
           asked' \in [Producers -> Requests \cup {NoRequest}],
           \A q \in Producers : stage'[q] # "idle" => asked'[q] # NoRequest
    PROVE  Typed'
<1>1. Rows' /\ lastId' = lastId + 1 /\ lastId' \in 0..MaxJobs
      /\ \A j \in Ids \ {lastId'} : jobs'[j] = jobs[j]
  BY InsertTyped
<1>2. Rest'
  BY <1>1 DEF Insert, consumers, history, Typed, TypeOK, Rest
<1>3. Shape'
  BY DEF Insert, consumers, Typed, Shape
<1>4. Allocated'
  <2>1. lastId \in Nat /\ lastId' = lastId + 1 /\ Ids \subseteq Nat
    BY <1>1 DEF Typed, TypeOK, Ids
  <2>2. held \in [Loops -> Ids \cup {NoJob}] /\ sweep \in [Sweeps -> SUBSET Ids]
    BY DEF Typed, TypeOK
  <2>3. \A j \in Ids : j > lastId' => jobs'[j] = NoJob
    BY <1>1, <2>1 DEF Typed, Allocated
  <2>4. \A c \in Loops : held'[c] # NoJob => held'[c] <= lastId'
    <3>1. held' = held
      BY DEF Insert, consumers
    <3>2. \A c \in Loops : held[c] # NoJob => held[c] \in Nat /\ held[c] <= lastId
      BY <2>1, <2>2 DEF Typed, Allocated
    <3> QED BY <3>1, <3>2, <2>1
  <2>5. \A s \in Sweeps : \A j \in sweep'[s] : j <= lastId'
    <3>1. sweep' = sweep
      BY DEF Insert
    <3>2. \A s \in Sweeps : \A j \in sweep[s] : j \in Nat /\ j <= lastId
      BY <2>1, <2>2 DEF Typed, Allocated
    <3> QED BY <3>1, <3>2, <2>1
  <2> QED BY <2>3, <2>4, <2>5 DEF Allocated
<1> QED BY <1>1, <1>2, <1>3, <1>4, TypedParts

\* A step that keeps the sequence, and, where there was no row, none.
LEMMA TypedAlloc ==
    ASSUME Typed, lastId' = lastId,
           \A j \in Ids : jobs[j] = NoJob => jobs'[j] = NoJob,
           \A c \in Loops : held'[c] # NoJob => held'[c] <= lastId,
           \A s \in Sweeps : \A j \in sweep'[s] : j <= lastId
    PROVE  Allocated'
  BY DEF Typed, Allocated

\* A row of which only stale or ready changes.
LEMMA TouchedRow ==
    ASSUME NEW job \in Job, Consistent(job), NEW b \in BOOLEAN
    PROVE  /\ [job EXCEPT !.stale = b] \in Job /\ Consistent([job EXCEPT !.stale = b])
           /\ [job EXCEPT !.ready = b] \in Job /\ Consistent([job EXCEPT !.ready = b])
  BY DEF Job, Consistent

LEMMA ReplacedRow ==
    ASSUME Rows, NEW j \in Ids, Exists(j), NEW row \in Job, Consistent(row),
           jobs' = [jobs EXCEPT ![j] = row]
    PROVE  /\ Rows'
           /\ jobs'[j] = row /\ row # NoJob
           /\ \A i \in Ids \ {j} : jobs'[i] = jobs[i]
           /\ \A i \in Ids : jobs[i] = NoJob => jobs'[i] = NoJob
  BY QueueMarkersAssumption DEF Rows, Exists

\* The tables after recovery and replay.
ReplayedRow(job) == [Waiting(job, TRUE) EXCEPT !.attempts = 0]

LEMMA ReplayedRows ==
    ASSUME NEW job \in Job
    PROVE  /\ ReplayedRow(job) \in Job /\ Consistent(ReplayedRow(job))
           /\ ReplayedRow(job).status = "pending" /\ ReplayedRow(job).attempts = 0
<1>1. Waiting(job, TRUE) \in Job /\ Consistent(Waiting(job, TRUE))
      /\ Waiting(job, TRUE).status = "pending"
  BY WaitingRow
<1> QED BY <1>1 DEF ReplayedRow, Job, Consistent

LEMMA SweptRows ==
    ASSUME Rows, NEW S \in SUBSET Ids, \A j \in S : Exists(j),
           \/ jobs' = [j \in Ids |-> IF j \in S THEN Waiting(jobs[j], TRUE) ELSE jobs[j]]
           \/ jobs' = [j \in Ids |-> IF j \in S THEN ReplayedRow(jobs[j]) ELSE jobs[j]]
    PROVE  Rows' /\ \A j \in Ids : jobs[j] = NoJob => jobs'[j] = NoJob
<1>1. \A j \in S : jobs[j] \in Job
  BY DEF Rows, Exists
<1>2. CASE jobs' = [j \in Ids |-> IF j \in S THEN Waiting(jobs[j], TRUE) ELSE jobs[j]]
  BY <1>1, <1>2, WaitingRow, QueueMarkersAssumption DEF Rows, Exists
<1>3. CASE jobs' = [j \in Ids |-> IF j \in S THEN ReplayedRow(jobs[j]) ELSE jobs[j]]
  BY <1>1, <1>3, ReplayedRows, QueueMarkersAssumption DEF Rows, Exists
<1> QED BY <1>2, <1>3

\* What a loop does to its job, complete or fail, by the time the table changed.
LEMMA ClosedRows ==
    ASSUME Rows, NEW j \in Ids, jobs' \in {jobs, Completed(j), Failed(j)}
    PROVE  Rows' /\ \A i \in Ids : jobs[i] = NoJob => jobs'[i] = NoJob
<1>1. CASE jobs' = jobs
  BY <1>1 DEF Rows, Exists
<1>2. CASE jobs' = Completed(j)
  BY <1>2, CompletedRows DEF Rows, Good, Exists
<1>3. CASE jobs' = Failed(j)
  BY <1>3, FailedRows DEF Rows, Good, Exists
<1> QED BY <1>1, <1>2, <1>3

LEMMA HeldBound ==
    ASSUME Typed
    PROVE  /\ \A c \in Loops : held[c] # NoJob => held[c] <= lastId
           /\ \A s \in Sweeps : \A j \in sweep[s] : j <= lastId
           /\ \A j \in Ids : Exists(j) => j <= lastId
<1>1. lastId \in Nat /\ Ids \subseteq Nat
  BY DEF Typed, TypeOK, Ids
<1>2. \A j \in Ids : Exists(j) => j <= lastId
  <2> SUFFICES ASSUME NEW j \in Ids, Exists(j) PROVE j <= lastId
    OBVIOUS
  <2>1. j \in Nat /\ lastId \in Nat
    BY <1>1
  <2>2. ~(j > lastId)
    BY DEF Typed, Allocated, Exists
  <2> QED BY <2>1, <2>2
<1> QED BY <1>2 DEF Typed, Allocated

LEMMA TypedInit == Init => Typed
<1> SUFFICES ASSUME Init PROVE Typed
  OBVIOUS
<1>1. Rows
  BY DEF Init, Rows, Exists
<1>2. Rest
  BY QueueBoundsAssumption DEF Init, Rest
<1>3. Shape /\ Allocated
  BY DEF Init, Shape, Allocated
<1> QED BY <1>1, <1>2, <1>3, TypeParts DEF Typed

LEMMA TypedProducer ==
    ASSUME Typed, NEW p \in Producers,
           \/ \E r \in Requests : Enqueue(p, r) \/ EnqueueConflict(p, r)
           \/ LookUp(p) \/ EnqueueFallback(p)
    PROVE  Typed'
<1>1. ASSUME NEW r \in Requests, Enqueue(p, r) PROVE Typed'
  <2>1. r.key \in Keys \cup {NoKey}
    BY RequestsAssumption DEF Request
  <2> QED
    BY <1>1, <2>1, TypedInsert DEF Enqueue, producers, Typed, TypeOK, Shape
<1>2. ASSUME NEW r \in Requests, EnqueueConflict(p, r) PROVE Typed'
  <2>1. Rows' /\ Rest'
    BY <1>2, TypedFacts DEF EnqueueConflict, Rows, Rest, Exists, consumers, history
  <2>2. r # NoRequest
    BY RequestsAssumption, QueueMarkersAssumption
  <2>3. Shape' /\ Allocated'
    BY <1>2, <2>2, TypedFacts
       DEF EnqueueConflict, Shape, Allocated, Rest, consumers
  <2> QED BY <2>1, <2>3, TypedParts
<1>3. ASSUME LookUp(p) PROVE Typed'
  <2>1. Rows' /\ Rest'
    BY <1>3, TypedFacts DEF LookUp, Answered, Rows, Rest, Exists, consumers, history
  <2>2. Shape' /\ Allocated'
    BY <1>3, TypedFacts DEF LookUp, Answered, Shape, Allocated, Rest, consumers
  <2> QED BY <2>1, <2>2, TypedParts
<1>4. ASSUME EnqueueFallback(p) PROVE Typed'
  <2>1. asked[p] \in Requests
    BY <1>4 DEF EnqueueFallback, Typed, TypeOK, Shape
  <2>2. /\ stage' \in [Producers -> {"idle", "lookup", "fallback"}]
        /\ asked' \in [Producers -> Requests \cup {NoRequest}]
        /\ \A q \in Producers : stage'[q] # "idle" => asked'[q] # NoRequest
    BY <1>4 DEF EnqueueFallback, Answered, Typed, TypeOK, Shape
  <2> QED
    BY <1>4, <2>1, <2>2, TypedInsert DEF EnqueueFallback
<1> QED BY <1>1, <1>2, <1>3, <1>4

LEMMA RestartShape ==
    ASSUME Typed, NEW p \in Procs, Restart(p)
    PROVE  /\ pc' \in [Loops -> {"idle", "working", "done", "failing"}]
           /\ held' \in [Loops -> Ids \cup {NoJob}]
           /\ \A c \in Loops : (pc'[c] = "idle") <=> (held'[c] = NoJob)
           /\ \A c \in Loops : held'[c] \in {held[c], NoJob}
           /\ \A c \in Loops : ProcOf[c] = p => held'[c] = NoJob
  BY DEF Restart, Typed, TypeOK, Shape

LEMMA LetGoShape ==
    ASSUME Typed, NEW c \in Loops, LetGo(c)
    PROVE  /\ pc' \in [Loops -> {"idle", "working", "done", "failing"}]
           /\ held' \in [Loops -> Ids \cup {NoJob}]
           /\ \A d \in Loops : (pc'[d] = "idle") <=> (held'[d] = NoJob)
           /\ \A d \in Loops : held'[d] \in {held[d], NoJob}
           /\ held'[c] = NoJob
  BY DEF LetGo, Typed, TypeOK, Shape

\* The common part of the steps of loops that close a job or drop it.
LEMMA TypedClosing ==
    ASSUME Typed, Rows', lastId' = lastId, UNCHANGED <<producers, sweep, lapses, replays, tries>>,
           faults' \in {faults, faults + 1}, faults' + lapses + replays <= MaxTroubles,
           pc' \in [Loops -> {"idle", "working", "done", "failing"}],
           held' \in [Loops -> Ids \cup {NoJob}],
           \A c \in Loops : (pc'[c] = "idle") <=> (held'[c] = NoJob),
           \A c \in Loops : held'[c] \in {held[c], NoJob},
           \A i \in Ids : jobs[i] = NoJob => jobs'[i] = NoJob
    PROVE  Typed'
<1>1. Rest'
  BY TypedFacts DEF Rest, producers
<1>2. Shape'
  BY TypedFacts DEF Shape, producers
<1>3. \A c \in Loops : held'[c] # NoJob => held'[c] <= lastId
  BY HeldBound
<1>4. Allocated'
  BY <1>3, HeldBound, TypedAlloc
<1> QED BY <1>1, <1>2, <1>4, TypedParts

LEMMA TypedUnchanged == ASSUME Typed, UNCHANGED vars PROVE Typed'
  BY DEF vars, consumers, producers, history, Typed, TypeOK, Shape, Allocated, Exists

LEMMA TypedLoop ==
    ASSUME Typed, NEW c \in Loops,
           Run(c) \/ NothingToClaim(c) \/ Heartbeat(c) \/ ClaimLost(c) \/ CompleteThrows(c)
    PROVE  Typed'
<1> USE TypedFacts
<1>1. ASSUME Claim(c) PROVE Typed'
  <2>1. PICK j \in Ids : TakeNext(c, j) /\ held' = [held EXCEPT ![c] = j]
    BY <1>1 DEF Claim
  <2>2. /\ Rows' /\ tries' \in [Ids -> Nat] /\ Exists(j)
        /\ \A i \in Ids \ {j} : jobs'[i] = jobs[i]
    BY <2>1, TakenRow
  <2>3. Rest'
    BY <1>1, <2>1, <2>2 DEF Claim, Rest, producers
  <2>4. j # NoJob
    BY QueueMarkersAssumption DEF Ids
  <2>5. Shape'
    BY <1>1, <2>1, <2>4 DEF Claim, Rest, Shape, producers
  <2>6. \A d \in Loops : held'[d] # NoJob => held'[d] <= lastId
    BY <2>1, <2>2, HeldBound DEF Rest
  <2>7. Allocated'
    BY <1>1, <2>2, <2>6, HeldBound, TypedAlloc DEF Claim, Exists
  <2> QED BY <2>2, <2>3, <2>5, <2>7, TypedParts
<1>2. ASSUME NothingToClaim(c) PROVE Typed'
  BY <1>2, TypedUnchanged DEF NothingToClaim
<1>3. ASSUME FinishWork(c) PROVE Typed'
  <2>1. Rows' /\ Rest'
    BY <1>3 DEF FinishWork, Rows, Rest, Exists, producers, history
  <2>2. Shape' /\ Allocated'
    BY <1>3 DEF FinishWork, Shape, Allocated, Rest, producers
  <2> QED BY <2>1, <2>2, TypedParts
<1>4. ASSUME Complete(c) PROVE Typed'
  <2>1. held[c] \in Ids
    BY <1>4, HeldId DEF Complete
  <2>2. Rows' /\ \A i \in Ids : jobs[i] = NoJob => jobs'[i] = NoJob
    BY <1>4, <2>1, ClosedRows DEF Complete
  <2> QED
    BY <1>4, <2>2, LetGoShape, TypedClosing DEF Complete, history, Rest
<1>5. ASSUME Fail(c) PROVE Typed'
  <2>1. held[c] \in Ids
    BY <1>5, HeldId DEF Fail
  <2>2. Rows' /\ \A i \in Ids : jobs[i] = NoJob => jobs'[i] = NoJob
    BY <1>5, <2>1, ClosedRows DEF Fail
  <2> QED
    BY <1>5, <2>2, LetGoShape, TypedClosing DEF Fail, history, Rest
<1>6. ASSUME FailThrows(c) PROVE Typed'
  <2>1. held[c] \in Ids
    BY <1>6, HeldId DEF FailThrows
  <2>2. Rows' /\ \A i \in Ids : jobs[i] = NoJob => jobs'[i] = NoJob
    BY <1>6, <2>1, ClosedRows DEF FailThrows
  <2>3. /\ lastId' = lastId /\ UNCHANGED <<producers, sweep, lapses, replays, tries>>
        /\ faults' \in {faults, faults + 1} /\ faults' + lapses + replays <= MaxTroubles
    BY <1>6, QueueBoundsAssumption DEF FailThrows, Fault, Bounded, Rest
  <2>4. ProcOf[c] \in Procs /\ Restart(ProcOf[c])
    BY <1>6, LoopsAssumption DEF FailThrows
  <2> QED
    BY <2>2, <2>3, <2>4, RestartShape, TypedClosing
<1>7. ASSUME Heartbeat(c) PROVE Typed'
  <2>1. held[c] \in Ids
    BY <1>7, HeldId DEF Heartbeat
  <2>2. Exists(held[c])
    BY <1>7 DEF Heartbeat, Status
  <2>3. jobs[held[c]] \in Job /\ Consistent(jobs[held[c]])
    BY <2>1, <2>2 DEF Rows, Exists
  <2>4. jobs' = [jobs EXCEPT ![held[c]] = [jobs[held[c]] EXCEPT !.stale = FALSE]]
    BY <1>7 DEF Heartbeat
  <2>5. Rows' /\ \A i \in Ids : jobs[i] = NoJob => jobs'[i] = NoJob
    BY <2>1, <2>2, <2>3, <2>4, TouchedRow, ReplacedRow
  <2> QED
    BY <1>7, <2>5, TypedClosing DEF Heartbeat, consumers, history, Rest, Shape
<1>8. ASSUME ClaimLost(c) PROVE Typed'
  <2>1. PICK j \in Ids : TakeNext(c, j)
    BY <1>8 DEF ClaimLost
  <2>2. /\ Rows' /\ tries' \in [Ids -> Nat] /\ Exists(j)
        /\ \A i \in Ids \ {j} : jobs'[i] = jobs[i]
    BY <2>1, TakenRow
  <2>3. Rest'
    BY <1>8, <2>2, QueueBoundsAssumption DEF ClaimLost, Fault, Bounded, Rest, producers, consumers
  <2>4. Shape'
    BY <1>8 DEF ClaimLost, Fault, Shape, producers, consumers
  <2>5. Allocated'
    BY <1>8, <2>2, HeldBound, TypedAlloc DEF ClaimLost, Fault, consumers, Exists
  <2> QED BY <2>2, <2>3, <2>4, <2>5, TypedParts
<1>9. ASSUME CompleteThrows(c) PROVE Typed'
  <2>1. held[c] \in Ids
    BY <1>9, HeldId DEF CompleteThrows
  <2>2. Rows' /\ \A i \in Ids : jobs[i] = NoJob => jobs'[i] = NoJob
    BY <1>9, <2>1, ClosedRows DEF CompleteThrows
  <2>3. /\ lastId' = lastId /\ UNCHANGED <<producers, sweep, lapses, replays, tries>>
        /\ faults' \in {faults, faults + 1} /\ faults' + lapses + replays <= MaxTroubles
    BY <1>9, QueueBoundsAssumption DEF CompleteThrows, Fault, Bounded, Rest
  <2>4. /\ pc' \in [Loops -> {"idle", "working", "done", "failing"}]
        /\ held' = held
        /\ \A d \in Loops : (pc'[d] = "idle") <=> (held'[d] = NoJob)
    BY <1>9 DEF CompleteThrows, Rest, Shape
  <2>5. held' \in [Loops -> Ids \cup {NoJob}] /\ \A d \in Loops : held'[d] \in {held[d], NoJob}
    BY <2>4 DEF Rest
  <2> QED
    BY <2>2, <2>3, <2>4, <2>5, TypedClosing
<1> QED
  BY <1>1, <1>2, <1>3, <1>4, <1>5, <1>6, <1>7, <1>8, <1>9 DEF Run

LEMMA TypedTime ==
    ASSUME Typed, NEW j \in Ids, Expire(j) \/ BecomeReady(j)
    PROVE  Typed'
<1> USE TypedFacts
<1>1. Exists(j) /\ jobs[j] \in Job /\ Consistent(jobs[j])
  BY DEF Expire, BecomeReady, Status, Rows, Exists
<1>2. PICK row \in Job : Consistent(row) /\ jobs' = [jobs EXCEPT ![j] = row]
  BY <1>1, TouchedRow DEF Expire, BecomeReady
<1>3. Rows' /\ \A i \in Ids : jobs[i] = NoJob => jobs'[i] = NoJob
  BY <1>1, <1>2, ReplacedRow
<1>4. Rest'
  BY QueueBoundsAssumption
     DEF Expire, BecomeReady, Bounded, Rest, consumers, producers, history
<1>5. Shape'
  BY DEF Expire, BecomeReady, Shape, consumers, producers
<1>6. Allocated'
  BY <1>3, HeldBound, TypedAlloc DEF Expire, BecomeReady, consumers
<1> QED BY <1>3, <1>4, <1>5, <1>6, TypedParts

\* A maintenance statement takes its snapshot.
LEMMA TypedSelect ==
    ASSUME Typed, NEW s \in Sweeps, NEW chosen \in SUBSET Ids, Select(s, chosen),
           \A j \in chosen : Exists(j),
           \/ UNCHANGED replays
           \/ Bounded /\ replays' = replays + 1
    PROVE  Typed'
<1> USE TypedFacts
<1>1. Rows'
  BY DEF Select, Rows, Exists
<1>2. Rest'
  BY QueueBoundsAssumption DEF Select, Bounded, Rest, consumers, producers
<1>3. Shape'
  BY DEF Select, Shape, consumers, producers
<1>4. \A t \in Sweeps : \A j \in sweep'[t] : j <= lastId
  BY HeldBound DEF Select, Rest
<1>5. Allocated'
  BY <1>4, HeldBound, TypedAlloc DEF Select, consumers
<1> QED BY <1>1, <1>2, <1>3, <1>5, TypedParts

\* A maintenance statement writes, or fails.
LEMMA TypedSwept ==
    ASSUME Typed, NEW s \in Sweeps, SweepDone(s), Rows', tries' \in [Ids -> Nat],
           UNCHANGED faults \/ (Bounded /\ faults' = faults + 1),
           \A j \in Ids : jobs[j] = NoJob => jobs'[j] = NoJob
    PROVE  Typed'
<1> USE TypedFacts
<1>1. Rest'
  BY QueueBoundsAssumption DEF SweepDone, Bounded, Rest, consumers, producers
<1>2. Shape'
  BY DEF SweepDone, Shape, consumers, producers
<1>3. \A t \in Sweeps : \A j \in sweep'[t] : j <= lastId
  BY HeldBound DEF SweepDone, Rest
<1>4. Allocated'
  BY <1>3, HeldBound, TypedAlloc DEF SweepDone, consumers
<1> QED BY <1>1, <1>2, <1>4, TypedParts

LEMMA FoundRows ==
    ASSUME Typed, NEW s \in Sweeps
    PROVE  Found(s) \in SUBSET Ids /\ \A j \in Found(s) : Exists(j)
  BY DEF Found, Typed, TypeOK

LEMMA TypedMaintenance ==
    ASSUME Typed,
           \/ SelectStale \/ RequeueStale \/ RequeueFailed \/ DeleteFinished
           \/ \E chosen \in SUBSET Ids :
                \/ \E type \in Types : SelectFailed(type, chosen)
                \/ SelectFinished(chosen)
           \/ \E s \in Sweeps : SweepFails(s)
    PROVE  Typed'
<1> USE TypedFacts DEF Sweeps
<1>1. ASSUME SelectStale PROVE Typed'
  <2> DEFINE chosen == {j \in Ids : Status(j) = "running" /\ jobs[j].stale}
  <2>1. \A j \in chosen : Exists(j)
    BY DEF Status
  <2> QED
    BY <1>1, <2>1, TypedSelect DEF SelectStale
<1>2. ASSUME RequeueStale PROVE Typed'
  <2>1. jobs' = [j \in Ids |-> IF j \in Found("stale") THEN Waiting(jobs[j], TRUE) ELSE jobs[j]]
    BY <1>2 DEF RequeueStale
  <2>2. Rows' /\ \A j \in Ids : jobs[j] = NoJob => jobs'[j] = NoJob
    BY <2>1, FoundRows, SweptRows
  <2> QED
    BY <1>2, <2>2, TypedSwept DEF RequeueStale, Rest
<1>3. ASSUME RequeueFailed PROVE Typed'
  <2>1. jobs' = [j \in Ids |-> IF j \in Found("failed") THEN ReplayedRow(jobs[j]) ELSE jobs[j]]
    BY <1>3 DEF RequeueFailed, ReplayedRow
  <2>2. Rows' /\ \A j \in Ids : jobs[j] = NoJob => jobs'[j] = NoJob
    BY <2>1, FoundRows, SweptRows
  <2>3. tries' \in [Ids -> Nat]
    BY <1>3 DEF RequeueFailed, Rest
  <2> QED
    BY <1>3, <2>2, <2>3, TypedSwept DEF RequeueFailed
<1>4. ASSUME DeleteFinished PROVE Typed'
  <2>1. Rows' /\ \A j \in Ids : jobs[j] = NoJob => jobs'[j] = NoJob
    BY <1>4 DEF DeleteFinished, Rows, Exists
  <2> QED
    BY <1>4, <2>1, TypedSwept DEF DeleteFinished, Rest
<1>5. ASSUME NEW chosen \in SUBSET Ids, NEW type \in Types, SelectFailed(type, chosen)
      PROVE  Typed'
  <2>1. \A j \in chosen : Exists(j)
    BY <1>5 DEF SelectFailed, Status
  <2> QED
    BY <1>5, <2>1, TypedSelect DEF SelectFailed
<1>6. ASSUME NEW chosen \in SUBSET Ids, SelectFinished(chosen) PROVE Typed'
  <2>1. \A j \in chosen : Exists(j)
    BY <1>6 DEF SelectFinished, Status
  <2> QED
    BY <1>6, <2>1, TypedSelect DEF SelectFinished
<1>7. ASSUME NEW s \in Sweeps, SweepFails(s) PROVE Typed'
  <2>1. Rows' /\ \A j \in Ids : jobs[j] = NoJob => jobs'[j] = NoJob
    BY <1>7 DEF SweepFails, Rows, Exists
  <2> QED
    BY <1>7, <2>1, TypedSwept DEF SweepFails, Rest
<1> QED
  BY <1>1, <1>2, <1>3, <1>4, <1>5, <1>6, <1>7

LEMMA TypedCrash ==
    ASSUME Typed, NEW p \in Procs, Crash(p)
    PROVE  Typed'
<1>1. Rows' /\ \A i \in Ids : jobs[i] = NoJob => jobs'[i] = NoJob
  BY TypedFacts DEF Crash, Rows, Exists
<1>2. /\ lastId' = lastId /\ UNCHANGED <<producers, sweep, lapses, replays, tries>>
      /\ faults' \in {faults, faults + 1} /\ faults' + lapses + replays <= MaxTroubles
  BY TypedFacts, QueueBoundsAssumption DEF Crash, Fault, Bounded, Rest
<1>3. Restart(p)
  BY DEF Crash
<1> QED
  BY <1>1, <1>2, <1>3, RestartShape, TypedClosing

LEMMA TypedNext == Typed /\ [Next]_vars => Typed'
<1> SUFFICES ASSUME Typed, [Next]_vars PROVE Typed'
  OBVIOUS
<1> QED
  BY TypedProducer, TypedLoop, TypedCrash, TypedTime, TypedMaintenance, TypedUnchanged DEF Next

LEMMA TypedAlways == Spec => []Typed
  BY TypedInit, TypedNext, PTL DEF Spec

\* Every state of the queue is a table with consistent locks, loops that hold a
\* job or are idle, and maintenance with candidates of the table.
THEOREM TypeCorrect == Spec => []TypeOK
<1>1. Typed => TypeOK
  BY DEF Typed
<1> QED BY <1>1, TypedAlways, PTL

-----------------------------------------------------------------------------
(* Attempts.                                                               *)

\* The row is gone, or its attempts are the same and it fails only when they are
\* used up.
Keeps(job, after) ==
    \/ after = NoJob
    \/ /\ job # NoJob /\ after.attempts = job.attempts /\ after.max = job.max
       /\ after.status = "failed" => (job.status = "failed" \/ job.attempts >= job.max)

LEMMA CountedKept ==
    ASSUME Counted, UNCHANGED <<lastId, tries>>, \A j \in Ids : Keeps(jobs[j], jobs'[j])
    PROVE  Counted'
<1> SUFFICES ASSUME NEW j \in Ids
             PROVE  /\ Exists(j)' => tries'[j] = jobs'[j].attempts
                    /\ Status(j)' = "failed" => jobs'[j].attempts >= jobs'[j].max
                    /\ j > lastId' => tries'[j] = 0
  BY DEF Counted
<1>1. CASE jobs'[j] = NoJob
  BY <1>1 DEF Counted, Exists, Status
<1>2. CASE jobs'[j] # NoJob
  BY <1>2 DEF Counted, Exists, Status, Keeps
<1> QED BY <1>1, <1>2

\* Steps that do not touch the table.
LEMMA CountedSame ==
    ASSUME Counted, UNCHANGED <<jobs, lastId, tries>>
    PROVE  Counted'
  BY DEF Counted, Exists, Status

LEMMA CountedInsert ==
    ASSUME Typed, Counted, NEW r \in Requests, NEW key \in Keys \cup {NoKey}, Insert(r, key)
    PROVE  Counted'
<1>1. /\ lastId' \in Ids /\ lastId' > lastId
      /\ \A j \in Ids \ {lastId'} : jobs'[j] = jobs[j]
      /\ jobs'[lastId'].attempts = 0 /\ jobs'[lastId'].status = "pending"
  BY InsertTyped
<1>t. tries' = tries
  BY DEF Insert, history
<1> SUFFICES ASSUME NEW j \in Ids
             PROVE  /\ Exists(j)' => tries'[j] = jobs'[j].attempts
                    /\ Status(j)' = "failed" => jobs'[j].attempts >= jobs'[j].max
                    /\ j > lastId' => tries'[j] = 0
  BY DEF Counted
<1>2. CASE j = lastId'
  <2>1. tries[j] = 0
    BY <1>1, <1>2 DEF Counted
  <2>2. ~(j > lastId')
    BY <1>2 DEF Typed, TypeOK, Ids
  <2> QED BY <1>1, <1>t, <1>2, <2>1, <2>2 DEF Exists, Status
<1>3. CASE j # lastId'
  <2>1. j > lastId' => j > lastId
    BY <1>1 DEF Typed, TypeOK, Ids
  <2> QED BY <1>1, <1>t, <1>3, <2>1 DEF Counted, Exists, Status
<1> QED BY <1>2, <1>3

LEMMA CountedTake ==
    ASSUME Typed, Counted, NEW c \in Loops, NEW j \in Ids, TakeNext(c, j), lastId' = lastId
    PROVE  Counted'
<1>1. /\ Exists(j) /\ jobs[j] \in Job
      /\ \A i \in Ids \ {j} : jobs'[i] = jobs[i] /\ tries'[i] = tries[i]
      /\ jobs'[j] = RunningRow(jobs[j], ProcOf[c])
      /\ tries'[j] = tries[j] + 1
  BY TakenRow
<1>2. jobs'[j].attempts = jobs[j].attempts + 1 /\ jobs'[j].status = "running"
  BY <1>1, ClaimedRow, LoopsAssumption
<1>3. j <= lastId
  BY <1>1, HeldBound
<1>4. ~(j > lastId)
  BY <1>3 DEF Typed, TypeOK, Ids
<1>5. \A i \in Ids : i # j =>
        /\ Exists(i)' => tries'[i] = jobs'[i].attempts
        /\ Status(i)' = "failed" => jobs'[i].attempts >= jobs'[i].max
        /\ i > lastId' => tries'[i] = 0
  BY <1>1 DEF Counted, Exists, Status
<1>6. /\ Exists(j)' => tries'[j] = jobs'[j].attempts
      /\ Status(j)' # "failed"
      /\ ~(j > lastId')
  BY <1>1, <1>2, <1>4 DEF Counted, Exists, Status
<1> QED BY <1>5, <1>6 DEF Counted

LEMMA KeepsItself == \A j \in Ids : Keeps(jobs[j], jobs[j])
  BY DEF Keeps

LEMMA KeepsClosed ==
    ASSUME Typed, NEW j \in Ids, jobs' \in {jobs, Completed(j), Failed(j)}
    PROVE  \A i \in Ids : Keeps(jobs[i], jobs'[i])
<1>1. CASE jobs' = jobs
  BY <1>1, KeepsItself
<1>2. \A i \in Ids \ {j} : jobs'[i] = jobs[i]
  BY TypedFacts, CompletedRows, FailedRows
<1>3. CASE ~Exists(j)
  <2>1. jobs'[j] = NoJob
    BY <1>3, TypedFacts, CompletedRows, FailedRows DEF Exists
  <2> QED BY <1>2, <2>1, KeepsItself DEF Keeps
<1>4. CASE Exists(j) /\ jobs' # jobs
  <2>1. jobs[j] \in Job
    BY <1>4, TypedFacts DEF Rows, Exists
  <2>2. jobs'[j] \in {Ended(jobs[j], "succeeded"), FailedRow(jobs[j])}
    BY <1>4, TypedFacts, CompletedRows, FailedRows
  <2>3. CASE jobs'[j] = Ended(jobs[j], "succeeded")
    <3>1. Keeps(jobs[j], jobs'[j])
      BY <1>4, <2>1, <2>3, EndedRow DEF Keeps, Exists
    <3> QED BY <1>2, <3>1, KeepsItself
  <2>4. CASE jobs'[j] = FailedRow(jobs[j])
    <3>1. CASE jobs[j].attempts >= jobs[j].max
      <4>1. Keeps(jobs[j], jobs'[j])
        BY <1>4, <2>1, <2>4, <3>1, EndedRow DEF Keeps, Exists, FailedRow
      <4> QED BY <1>2, <4>1, KeepsItself
    <3>2. CASE ~(jobs[j].attempts >= jobs[j].max)
      <4>1. jobs'[j] = Waiting(jobs[j], jobs[j].attempts = 0)
        BY <2>4, <3>2 DEF FailedRow
      <4>2. Keeps(jobs[j], jobs'[j])
        BY <1>4, <2>1, <4>1, WaitingRow DEF Keeps, Exists
      <4> QED BY <1>2, <4>2, KeepsItself
    <3> QED BY <3>1, <3>2
  <2> QED BY <2>2, <2>3, <2>4
<1> QED BY <1>1, <1>3, <1>4

LEMMA KeepsTouched ==
    ASSUME NEW job \in Job, NEW b \in BOOLEAN
    PROVE  Keeps(job, [job EXCEPT !.stale = b]) /\ Keeps(job, [job EXCEPT !.ready = b])
<1>1. job # NoJob
  BY QueueMarkersAssumption
<1> QED BY <1>1 DEF Keeps, Job

LEMMA KeepsWaiting ==
    ASSUME Typed, NEW S \in SUBSET Ids, \A j \in S : Exists(j),
           jobs' = [j \in Ids |-> IF j \in S THEN Waiting(jobs[j], TRUE) ELSE jobs[j]]
    PROVE  \A j \in Ids : Keeps(jobs[j], jobs'[j])
<1> SUFFICES ASSUME NEW j \in Ids PROVE Keeps(jobs[j], jobs'[j])
  OBVIOUS
<1>1. CASE j \in S
  <2>1. jobs[j] \in Job /\ jobs[j] # NoJob /\ jobs'[j] = Waiting(jobs[j], TRUE)
    BY <1>1, TypedFacts DEF Rows, Exists
  <2> QED BY <2>1, WaitingRow DEF Keeps
<1>2. CASE j \notin S
  BY <1>2, KeepsItself
<1> QED BY <1>1, <1>2

LEMMA CountedReplay ==
    ASSUME Typed, Counted, RequeueFailed
    PROVE  Counted'
<1>1. /\ jobs' = [j \in Ids |-> IF j \in Found("failed") THEN ReplayedRow(jobs[j]) ELSE jobs[j]]
      /\ tries' = [j \in Ids |-> IF j \in Found("failed") THEN 0 ELSE tries[j]]
      /\ lastId' = lastId
  BY DEF RequeueFailed, ReplayedRow, SweepDone
<1> SUFFICES ASSUME NEW j \in Ids
             PROVE  /\ Exists(j)' => tries'[j] = jobs'[j].attempts
                    /\ Status(j)' = "failed" => jobs'[j].attempts >= jobs'[j].max
                    /\ j > lastId' => tries'[j] = 0
  BY DEF Counted
<1>2. CASE j \in Found("failed")
  <2>1. jobs[j] \in Job
    BY <1>2, FoundRows, TypedFacts DEF Rows, Exists, Sweeps
  <2>2. jobs'[j].attempts = 0 /\ jobs'[j].status = "pending" /\ tries'[j] = 0
    BY <1>1, <1>2, <2>1, ReplayedRows
  <2> QED BY <2>2 DEF Exists, Status
<1>3. CASE j \notin Found("failed")
  BY <1>1, <1>3 DEF Counted, Exists, Status
<1> QED BY <1>2, <1>3

LEMMA CountedLoop ==
    ASSUME Typed, Counted, NEW c \in Loops,
           Run(c) \/ NothingToClaim(c) \/ Heartbeat(c) \/ ClaimLost(c) \/ CompleteThrows(c)
    PROVE  Counted'
<1>1. ASSUME Claim(c) \/ ClaimLost(c) PROVE Counted'
  BY <1>1, CountedTake DEF Claim, ClaimLost, Fault
<1>2. ASSUME NothingToClaim(c) \/ FinishWork(c) PROVE Counted'
  BY <1>2, CountedSame DEF NothingToClaim, FinishWork, vars, history
<1>3. ASSUME Complete(c) \/ Fail(c) \/ FailThrows(c) \/ CompleteThrows(c) PROVE Counted'
  <2>1. held[c] \in Ids
    BY <1>3, HeldId DEF Complete, Fail, FailThrows, CompleteThrows
  <2>2. jobs' \in {jobs, Completed(held[c]), Failed(held[c])}
    BY <1>3 DEF Complete, Fail, FailThrows, CompleteThrows
  <2>3. UNCHANGED <<lastId, tries>>
    BY <1>3 DEF Complete, Fail, FailThrows, CompleteThrows, Fault, history
  <2> QED BY <2>1, <2>2, <2>3, KeepsClosed, CountedKept
<1>4. ASSUME Heartbeat(c) PROVE Counted'
  <2>1. held[c] \in Ids /\ Exists(held[c])
    BY <1>4, HeldId DEF Heartbeat, Status
  <2>2. jobs[held[c]] \in Job
    BY <2>1, TypedFacts DEF Rows, Exists
  <2>3. jobs' = [jobs EXCEPT ![held[c]] = [jobs[held[c]] EXCEPT !.stale = FALSE]]
    BY <1>4 DEF Heartbeat
  <2>4. \A i \in Ids : Keeps(jobs[i], jobs'[i])
    BY <2>1, <2>2, <2>3, KeepsTouched, KeepsItself, TypedFacts DEF Rows
  <2> QED BY <1>4, <2>4, CountedKept DEF Heartbeat, history
<1> QED BY <1>1, <1>2, <1>3, <1>4 DEF Run

LEMMA CountedRest ==
    ASSUME Typed, Counted, Next,
           ~ \E c \in Loops : Run(c) \/ NothingToClaim(c) \/ Heartbeat(c) \/ ClaimLost(c)
                              \/ CompleteThrows(c)
    PROVE  Counted'
<1>1. ASSUME NEW p \in Producers, NEW r \in Requests, Enqueue(p, r) PROVE Counted'
  <2>1. r.key \in Keys \cup {NoKey}
    BY RequestsAssumption DEF Request
  <2> QED BY <1>1, <2>1, CountedInsert DEF Enqueue
<1>2. ASSUME NEW p \in Producers, EnqueueFallback(p) PROVE Counted'
  <2>1. asked[p] \in Requests
    BY <1>2 DEF EnqueueFallback, Typed, TypeOK, Shape
  <2> QED BY <1>2, <2>1, CountedInsert DEF EnqueueFallback
<1>3. ASSUME NEW p \in Producers, LookUp(p) \/ \E r \in Requests : EnqueueConflict(p, r)
      PROVE  Counted'
  BY <1>3, CountedSame DEF LookUp, EnqueueConflict, history
<1>4. ASSUME NEW p \in Procs, Crash(p) PROVE Counted'
  BY <1>4, CountedSame DEF Crash, Fault
<1>5. ASSUME NEW j \in Ids, Expire(j) \/ BecomeReady(j) PROVE Counted'
  <2>1. Exists(j) /\ jobs[j] \in Job
    BY <1>5, TypedFacts DEF Expire, BecomeReady, Status, Rows, Exists
  <2>2. jobs' = [jobs EXCEPT ![j] = [jobs[j] EXCEPT !.stale = TRUE]]
        \/ jobs' = [jobs EXCEPT ![j] = [jobs[j] EXCEPT !.ready = TRUE]]
    BY <1>5 DEF Expire, BecomeReady
  <2>3. \A i \in Ids : Keeps(jobs[i], jobs'[i])
    BY <2>1, <2>2, KeepsTouched, KeepsItself, TypedFacts DEF Rows
  <2> QED BY <1>5, <2>3, CountedKept DEF Expire, BecomeReady, history
<1>6. ASSUME \/ SelectStale
             \/ \E chosen \in SUBSET Ids :
                  SelectFinished(chosen) \/ \E type \in Types : SelectFailed(type, chosen)
             \/ \E s \in Sweeps : SweepFails(s)
      PROVE  Counted'
  BY <1>6, CountedSame DEF SelectStale, SelectFinished, SelectFailed, Select, SweepFails, SweepDone
<1>7. ASSUME RequeueStale PROVE Counted'
  BY <1>7, FoundRows, KeepsWaiting, CountedKept DEF RequeueStale, SweepDone, Sweeps
<1>8. ASSUME DeleteFinished PROVE Counted'
  <2>1. \A j \in Ids : Keeps(jobs[j], jobs'[j])
    BY <1>8, KeepsItself DEF DeleteFinished, Keeps
  <2> QED BY <1>8, <2>1, CountedKept DEF DeleteFinished, SweepDone
<1> QED
  BY <1>1, <1>2, <1>3, <1>4, <1>5, <1>6, <1>7, <1>8, CountedReplay DEF Next

LEMMA CountedNext == Typed /\ Counted /\ [Next]_vars => Counted'
<1>1. ASSUME Counted, UNCHANGED vars PROVE Counted'
  BY <1>1, CountedSame DEF vars, history
<1> QED BY <1>1, CountedLoop, CountedRest

LEMMA CountedAlways == Spec => []Counted
<1>1. Init => Counted
  BY DEF Init, Counted, Exists, Status
<1> QED BY <1>1, CountedNext, TypedAlways, PTL DEF Spec

\* A job is given up only after as many claims as it asked for, whatever faults,
\* recoveries and replays there were (fail; CHANGELOG: reset job attempts on
\* replay).
THEOREM Exhausted == Spec => []FailedIsExhausted
<1>1. Counted => FailedIsExhausted
  BY DEF Counted, FailedIsExhausted, Status, Exists
<1> QED BY <1>1, CountedAlways, PTL

-----------------------------------------------------------------------------
(* Exclusive runs.                                                         *)

\* What most steps do to a row: it is as before to its holder and to the
\* maintenance statements, or gone, or concerns none of them.
Harmless(i) ==
    \/ jobs'[i] = NoJob
    \/ /\ jobs[i] # NoJob /\ jobs'[i] # NoJob /\ jobs'[i].status = jobs[i].status
       /\ \/ Unheld(i)'
          \/ jobs'[i].owner = jobs[i].owner /\ (jobs'[i].stale => jobs[i].stale)
    \/ Unheld(i)' /\ i \notin sweep'["stale"] /\ i \notin sweep'["failed"]

LEMMA SoleFrom ==
    ASSUME Typed, Sole, lapses' = 0 => lapses = 0, faults' \in {faults, faults + 1},
           held' \in [Loops -> Ids \cup {NoJob}],
           \A d \in Loops : held'[d] \in {held[d], NoJob},
           \A d \in Loops : held'[d] # NoJob => pc'[d] = pc[d] \/ pc[d] # "failing",
           sweep'["stale"] \subseteq sweep["stale"], sweep'["failed"] \subseteq sweep["failed"],
           (lapses' = 0 /\ Own /\ Alone /\ Current) => \A i \in Ids : Harmless(i)
    PROVE  Sole'
<1> SUFFICES ASSUME lapses' = 0 PROVE Own' /\ Alone' /\ Current'
  BY DEF Sole
<1>1. Own /\ Alone /\ Current
  BY DEF Sole
<1>2. \A i \in Ids : Harmless(i)
  BY <1>1
<1>3. Own'
  <2> SUFFICES ASSUME NEW c \in Loops, NEW j \in Ids, held'[c] = j, held[c] = j
               PROVE  Covered(c)'
    BY DEF Own
  <2>1. j # NoJob
    BY QueueMarkersAssumption DEF Ids
  <2>2. Covered(c) /\ Harmless(j) /\ ~Unheld(j)'
    BY <1>1, <1>2, <2>1 DEF Own, Unheld
  <2>3. faults > 0 => faults' > 0
    BY DEF Typed, TypeOK
  <2>4. CASE jobs'[j] = NoJob
    BY <2>4 DEF Covered, Status, Exists
  <2>5. CASE jobs'[j] # NoJob
    <3>1. /\ jobs[j] # NoJob /\ jobs'[j].status = jobs[j].status
          /\ jobs'[j].owner = jobs[j].owner
          /\ jobs'[j].stale => jobs[j].stale
      BY <2>2, <2>5 DEF Harmless
    <3>2. pc'[c] = pc[c] \/ pc[c] # "failing"
      BY <2>1
    <3>3. Status(j) = jobs[j].status /\ Status(j)' = jobs'[j].status
      BY <2>5, <3>1 DEF Status, Exists
    <3>4. jobs[j].status # "none"
      BY <3>1, TypedFacts DEF Rows, Job
    <3>5. \/ jobs[j].status = "running" /\ jobs[j].owner = ProcOf[c] /\ ~jobs[j].stale
          \/ jobs[j].status = "succeeded" /\ pc[c] = "failing" /\ faults > 0
      BY <2>2, <3>3, <3>4 DEF Covered
    <3>6. \/ jobs'[j].status = "running" /\ jobs'[j].owner = ProcOf[c] /\ ~jobs'[j].stale
          \/ jobs'[j].status = "succeeded" /\ pc'[c] = "failing" /\ faults' > 0
      BY <2>3, <3>1, <3>2, <3>5
    <3> QED BY <3>3, <3>6 DEF Covered
  <2> QED BY <2>4, <2>5
<1>4. Alone'
  BY <1>1 DEF Alone
<1>5. Current'
  <2>1. \A j : Unheld(j) /\ j # NoJob => Unheld(j)'
    BY DEF Unheld
  <2>2. sweep["stale"] \subseteq Ids /\ sweep["failed"] \subseteq Ids /\ NoJob \notin Ids
    BY QueueMarkersAssumption DEF Typed, TypeOK, Sweeps, Ids
  <2>3. \A j \in sweep'["stale"] \cup sweep'["failed"] :
          /\ Unheld(j)'
          /\ Status(j)' = "none" \/ Status(j)' = Status(j)
    BY <1>1, <1>2, <2>1, <2>2 DEF Current, Harmless, Status, Exists
  <2> QED BY <1>1, <2>3 DEF Current
<1> QED BY <1>3, <1>4, <1>5

\* A claimed job, its claim kept or lost, was held by nobody.
LEMMA SoleTake ==
    ASSUME Typed, Sole, NEW c \in Loops, NEW j \in Ids, TakeNext(c, j),
           sweep' = sweep, lapses' = lapses, faults' \in {faults, faults + 1},
           \/ held' = [held EXCEPT ![c] = j] /\ pc' = [pc EXCEPT ![c] = "working"]
           \/ held' = held /\ pc' = pc
    PROVE  Sole'
<1> SUFFICES ASSUME lapses = 0 PROVE Own' /\ Alone' /\ Current'
  BY DEF Sole
<1>1. Own /\ Alone /\ Current
  BY DEF Sole
<1>2. /\ Exists(j) /\ jobs[j] \in Job /\ jobs[j].status = "pending"
      /\ \A i \in Ids \ {j} : jobs'[i] = jobs[i]
      /\ jobs'[j] = RunningRow(jobs[j], ProcOf[c]) /\ jobs'[j] # NoJob
      /\ pc[c] = "idle"
  BY TakenRow
<1>3. jobs'[j].status = "running" /\ jobs'[j].owner = ProcOf[c] /\ ~jobs'[j].stale
  BY <1>2, ClaimedRow, LoopsAssumption
<1>4. Status(j) = "pending"
  BY <1>2 DEF Status
<1>5. Unheld(j) /\ j \notin sweep["stale"] /\ j \notin sweep["failed"]
  <2>1. j # NoJob
    BY QueueMarkersAssumption DEF Ids
  <2> QED BY <1>1, <1>4, <2>1 DEF Own, Covered, Unheld, Current
<1>6. \A i \in Ids \ {j} : Status(i)' = Status(i)
  BY <1>2 DEF Status, Exists
<1>7. held \in [Loops -> Ids \cup {NoJob}] /\ pc \in [Loops -> {"idle", "working", "done", "failing"}]
  BY DEF Typed, TypeOK
<1>8. held[c] = NoJob
  BY <1>2 DEF Typed, Shape
<1>9. \A d \in Loops \ {c} : held'[d] = held[d] /\ pc'[d] = pc[d]
  BY <1>7
<1>10. held'[c] \in {j, NoJob}
  BY <1>7, <1>8
<1>11. Own'
  <2> SUFFICES ASSUME NEW d \in Loops, NEW i \in Ids, held'[d] = i PROVE Covered(d)'
    <3>1. \A d \in Loops : held'[d] # NoJob => held'[d] \in Ids
      BY <1>7, <1>9, <1>10
    <3> QED BY <3>1 DEF Own
  <2>1. CASE d = c
    <3>1. i = j
      BY <2>1, <1>10, QueueMarkersAssumption DEF Ids
    <3>2. Status(j)' = "running"
      BY <1>2, <1>3 DEF Status, Exists
    <3> QED BY <1>3, <2>1, <3>1, <3>2 DEF Covered
  <2>2. CASE d # c
    <3>1. held[d] = i /\ pc'[d] = pc[d] /\ i # NoJob
      BY <2>2, <1>9, QueueMarkersAssumption DEF Ids
    <3>2. i # j
      BY <1>5, <3>1 DEF Unheld
    <3>3. Covered(d)
      BY <1>1, <3>1 DEF Own
    <3>4. faults > 0 => faults' > 0
      BY DEF Typed, TypeOK
    <3> QED BY <1>2, <1>6, <3>1, <3>2, <3>3, <3>4 DEF Covered
  <2> QED BY <2>1, <2>2
<1>12. Alone'
  BY <1>1, <1>5, <1>9, <1>10 DEF Alone, Unheld
<1>13. Current'
  <2>1. sweep["stale"] \subseteq Ids /\ sweep["failed"] \subseteq Ids /\ NoJob \notin Ids
    BY QueueMarkersAssumption DEF Typed, TypeOK, Sweeps, Ids
  <2>2. \A i \in Ids \ {j} : Unheld(i) => Unheld(i)'
    BY <1>9, <1>10, <2>1 DEF Unheld
  <2> QED BY <1>1, <1>5, <1>6, <2>1, <2>2 DEF Current
<1> QED BY <1>11, <1>12, <1>13

\* A loop is done with its job and lets it go, by itself or with its process.
LEMMA SoleClosing ==
    ASSUME Typed, Sole, NEW c \in Loops, pc[c] # "idle",
           jobs' \in {jobs, Completed(held[c]), Failed(held[c])},
           sweep' = sweep, lapses' = lapses, faults' \in {faults, faults + 1},
           held' \in [Loops -> Ids \cup {NoJob}],
           \A d \in Loops : held'[d] \in {held[d], NoJob},
           \A d \in Loops : held'[d] # NoJob => pc'[d] = pc[d],
           held'[c] = NoJob
    PROVE  Sole'
<1>1. PICK j \in Ids : j = held[c]
  BY HeldId
<1>2. \A i \in Ids \ {j} : jobs'[i] = jobs[i]
  BY <1>1, TypedFacts, CompletedRows, FailedRows
<1>3. ASSUME Own, Alone, Current PROVE \A i \in Ids : Harmless(i)
  <2>1. j # NoJob
    BY QueueMarkersAssumption DEF Ids
  <2>2. Unheld(j)'
    BY <1>1, <1>3, <2>1 DEF Alone, Unheld
  <2>3. j \notin sweep["stale"] /\ j \notin sweep["failed"]
    BY <1>1, <1>3 DEF Current, Unheld
  <2>4. Harmless(j)
    BY <2>2, <2>3 DEF Harmless
  <2>5. \A i \in Ids \ {j} : Harmless(i)
    BY <1>2 DEF Harmless
  <2> QED BY <2>4, <2>5
<1> QED BY <1>3, SoleFrom

\* complete took effect, but the loop does not learn of it.
LEMMA SoleCompleteThrows ==
    ASSUME Typed, Sole, NEW c \in Loops, CompleteThrows(c)
    PROVE  Sole'
<1>1. /\ pc[c] = "done" /\ pc' = [pc EXCEPT ![c] = "failing"] /\ faults' = faults + 1
      /\ held' = held /\ sweep' = sweep /\ lapses' = lapses
      /\ jobs' \in {jobs, Completed(held[c])}
  BY DEF CompleteThrows, Fault
<1>2. held \in [Loops -> Ids \cup {NoJob}] /\ pc \in [Loops -> {"idle", "working", "done", "failing"}]
      /\ faults \in Nat
  BY DEF Typed, TypeOK
<1>3. CASE jobs' = jobs
  <2>1. \A i \in Ids : Harmless(i)
    BY <1>3 DEF Harmless
  <2> QED BY <1>1, <1>2, <2>1, SoleFrom
<1>4. CASE jobs' = Completed(held[c])
  <2>1. PICK j \in Ids : j = held[c]
    BY <1>1, HeldId
  <2>2. /\ \A i \in Ids \ {j} : jobs'[i] = jobs[i]
        /\ Status(j)' \in {"none", "succeeded"}
    <3>1. CASE ~Exists(j)
      BY <1>4, <2>1, <3>1, TypedFacts, CompletedRows DEF Status, Exists
    <3>2. CASE Exists(j)
      <4>1. jobs[j] \in Job
        BY <3>2, TypedFacts DEF Rows, Exists
      <4> QED BY <1>4, <2>1, <3>2, <4>1, TypedFacts, CompletedRows, EndedRow DEF Status, Exists
    <3> QED BY <3>1, <3>2
  <2> SUFFICES ASSUME lapses = 0 PROVE Own' /\ Alone' /\ Current'
    BY <1>1 DEF Sole
  <2>3. Own /\ Alone /\ Current
    BY DEF Sole
  <2>4. \A i \in Ids \ {j} : Status(i)' = Status(i)
    BY <2>2 DEF Status, Exists
  <2>5. j # NoJob
    BY QueueMarkersAssumption DEF Ids
  <2>6. j \notin sweep["stale"] /\ j \notin sweep["failed"]
    BY <2>1, <2>3 DEF Current, Unheld
  <2>7. Own'
    <3> SUFFICES ASSUME NEW d \in Loops, held[d] # NoJob PROVE Covered(d)'
      BY <1>1 DEF Own
    <3>1. CASE d = c
      BY <1>1, <1>2, <2>1, <2>2, <3>1 DEF Covered
    <3>2. CASE d # c
      <4>1. PICK i \in Ids : i = held[d]
        BY <1>2
      <4>2. i # j
        BY <2>1, <2>3, <2>5, <3>2, <4>1 DEF Alone
      <4>3. Covered(d)
        BY <2>3 DEF Own
      <4>4. pc'[d] = pc[d] /\ faults' > 0
        BY <1>1, <1>2, <3>2
      <4> QED BY <1>1, <2>2, <2>4, <4>1, <4>2, <4>3, <4>4 DEF Covered
    <3> QED BY <3>1, <3>2
  <2>8. Alone'
    BY <1>1, <2>3 DEF Alone
  <2>9. Current'
    <3>1. sweep["stale"] \subseteq Ids /\ sweep["failed"] \subseteq Ids
      BY DEF Typed, TypeOK, Sweeps
    <3> QED BY <1>1, <2>3, <2>4, <2>6, <3>1 DEF Current, Unheld
  <2> QED BY <2>7, <2>8, <2>9
<1> QED BY <1>1, <1>3, <1>4

\* Steps that leave the table alone and drop no loop.
LEMMA SoleSame ==
    ASSUME Typed, Sole, jobs' = jobs, held' = held, pc' = pc, lapses' = lapses,
           faults' \in {faults, faults + 1},
           sweep'["stale"] \subseteq sweep["stale"], sweep'["failed"] \subseteq sweep["failed"]
    PROVE  Sole'
<1>1. \A i \in Ids : Harmless(i)
  BY DEF Harmless
<1>2. held \in [Loops -> Ids \cup {NoJob}]
  BY DEF Typed, TypeOK
<1> QED BY <1>1, <1>2, SoleFrom

LEMMA SoleInsert ==
    ASSUME Typed, Sole, NEW r \in Requests, NEW key \in Keys \cup {NoKey}, Insert(r, key)
    PROVE  Sole'
<1>1. /\ lastId' \in Ids /\ lastId' > lastId
      /\ \A j \in Ids \ {lastId'} : jobs'[j] = jobs[j]
  BY InsertTyped
<1>2. pc' = pc /\ held' = held /\ sweep' = sweep /\ lapses' = lapses /\ faults' = faults
  BY DEF Insert, consumers, history
<1>3. held \in [Loops -> Ids \cup {NoJob}] /\ sweep \in [Sweeps -> SUBSET Ids] /\ lastId \in Nat
  BY DEF Typed, TypeOK
<1>4. PICK n \in Ids : n = lastId'
  BY <1>1
<1>5. n > lastId /\ n # NoJob
  BY <1>1, <1>4, QueueMarkersAssumption DEF Ids
<1>6. ~(n <= lastId)
  BY <1>3, <1>5 DEF Ids
<1>7. Unheld(n)' /\ n \notin sweep'["stale"] /\ n \notin sweep'["failed"]
  BY <1>2, <1>3, <1>5, <1>6, HeldBound DEF Unheld, Sweeps
<1>8. Harmless(n)
  BY <1>7 DEF Harmless
<1>9. \A i \in Ids \ {n} : Harmless(i)
  BY <1>1, <1>4 DEF Harmless
<1> QED BY <1>2, <1>3, <1>8, <1>9, SoleFrom

LEMMA SoleLoop ==
    ASSUME Typed, Sole, NEW c \in Loops,
           Run(c) \/ NothingToClaim(c) \/ Heartbeat(c) \/ ClaimLost(c) \/ CompleteThrows(c)
    PROVE  Sole'
<1>t. held \in [Loops -> Ids \cup {NoJob}] /\ pc \in [Loops -> {"idle", "working", "done", "failing"}]
  BY DEF Typed, TypeOK
<1>1. ASSUME Claim(c) PROVE Sole'
  BY <1>1, SoleTake DEF Claim
<1>2. ASSUME NothingToClaim(c) PROVE Sole'
  BY <1>2, SoleSame DEF NothingToClaim, vars, consumers, history
<1>3. ASSUME FinishWork(c) PROVE Sole'
  <2>1. \A i \in Ids : Harmless(i)
    BY <1>3 DEF FinishWork, Harmless
  <2>2. \A d \in Loops : pc'[d] = pc[d] \/ pc[d] # "failing"
    BY <1>3, <1>t DEF FinishWork
  <2> QED BY <1>3, <1>t, <2>1, <2>2, SoleFrom DEF FinishWork, history
<1>4. ASSUME Complete(c) \/ Fail(c) PROVE Sole'
  <2>1. /\ pc[c] # "idle" /\ LetGo(c) /\ jobs' \in {jobs, Completed(held[c]), Failed(held[c])}
        /\ sweep' = sweep /\ lapses' = lapses /\ faults' = faults
    BY <1>4 DEF Complete, Fail, history
  <2>2. \A d \in Loops : held'[d] # NoJob => pc'[d] = pc[d]
    BY <1>t, <2>1 DEF LetGo
  <2> QED BY <2>1, <2>2, LetGoShape, SoleClosing
<1>5. ASSUME FailThrows(c) PROVE Sole'
  <2>1. /\ pc[c] # "idle" /\ Restart(ProcOf[c]) /\ jobs' \in {jobs, Completed(held[c]), Failed(held[c])}
        /\ sweep' = sweep /\ lapses' = lapses /\ faults' \in {faults, faults + 1}
    BY <1>5 DEF FailThrows, Fault
  <2>2. \A d \in Loops : held'[d] # NoJob => pc'[d] = pc[d]
    BY <1>t, <2>1 DEF Restart
  <2>3. ProcOf[c] \in Procs
    BY LoopsAssumption
  <2> QED BY <2>1, <2>2, <2>3, RestartShape, SoleClosing
<1>6. ASSUME Heartbeat(c) PROVE Sole'
  <2>1. PICK j \in Ids : j = held[c]
    BY <1>6, HeldId DEF Heartbeat
  <2>2. jobs[j] # NoJob /\ jobs[j] \in Job
    BY <1>6, <2>1, TypedFacts DEF Heartbeat, Status, Exists, Rows
  <2>3. jobs' = [jobs EXCEPT ![j] = [jobs[j] EXCEPT !.stale = FALSE]]
    BY <1>6, <2>1 DEF Heartbeat
  <2>4. [jobs[j] EXCEPT !.stale = FALSE] \in Job
        /\ [jobs[j] EXCEPT !.stale = FALSE].status = jobs[j].status
        /\ [jobs[j] EXCEPT !.stale = FALSE].owner = jobs[j].owner
        /\ [jobs[j] EXCEPT !.stale = FALSE].stale = FALSE
    BY <2>2 DEF Job
  <2>5. /\ jobs'[j] = [jobs[j] EXCEPT !.stale = FALSE]
        /\ \A i \in Ids \ {j} : jobs'[i] = jobs[i]
    BY <2>3, TypedFacts DEF Rows
  <2>6. jobs'[j] # NoJob
    BY <2>4, <2>5, QueueMarkersAssumption
  <2>7. Harmless(j)
    BY <2>2, <2>4, <2>5, <2>6 DEF Harmless
  <2>8. \A i \in Ids \ {j} : Harmless(i)
    BY <2>5 DEF Harmless
  <2> QED BY <1>6, <1>t, <2>7, <2>8, SoleFrom DEF Heartbeat, consumers, history
<1>7. ASSUME ClaimLost(c) PROVE Sole'
  BY <1>7, SoleTake DEF ClaimLost, Fault, consumers
<1> QED
  BY <1>1, <1>2, <1>3, <1>4, <1>5, <1>6, <1>7, SoleCompleteThrows DEF Run

\* A lock ages out without being a lapse only if nobody holds the job.
LEMMA SoleTime ==
    ASSUME Typed, Sole, NEW j \in Ids, Expire(j) \/ BecomeReady(j)
    PROVE  Sole'
<1>1. held' = held /\ pc' = pc /\ sweep' = sweep /\ faults' = faults
  BY DEF Expire, BecomeReady, consumers, history
<1>2. held \in [Loops -> Ids \cup {NoJob}] /\ lapses \in Nat
  BY DEF Typed, TypeOK
<1>3. lapses' \in {lapses, lapses + 1}
  BY DEF Expire, BecomeReady, history
<1>4. jobs[j] # NoJob /\ jobs[j] \in Job
  BY TypedFacts DEF Expire, BecomeReady, Status, Exists, Rows
<1>5. \A i \in Ids \ {j} : Harmless(i)
  BY TypedFacts DEF Expire, BecomeReady, Rows, Harmless
<1>6. CASE BecomeReady(j)
  <2>1. jobs'[j] = [jobs[j] EXCEPT !.ready = TRUE]
    BY <1>6, TypedFacts DEF BecomeReady, Rows
  <2>2. /\ jobs'[j] \in Job /\ jobs'[j].status = jobs[j].status
        /\ jobs'[j].owner = jobs[j].owner /\ jobs'[j].stale = jobs[j].stale
    BY <1>4, <2>1 DEF Job
  <2>3. Harmless(j)
    BY <1>4, <2>2, QueueMarkersAssumption DEF Harmless
  <2> QED BY <1>1, <1>2, <1>3, <1>5, <2>3, SoleFrom
<1>7. CASE Expire(j)
  <2>1. jobs'[j] = [jobs[j] EXCEPT !.stale = TRUE]
    BY <1>7, TypedFacts DEF Expire, Rows
  <2>2. jobs'[j] \in Job /\ jobs'[j].status = jobs[j].status
    BY <1>4, <2>1 DEF Job
  <2>3. ASSUME lapses' = 0, Own PROVE Harmless(j)
    <3>1. ~Alive(j) /\ lapses = 0
      BY <1>2, <1>7, <2>3 DEF Expire
    <3>2. ASSUME NEW c \in Loops, held[c] = j PROVE FALSE
      <4>1. Covered(c) /\ pc[c] # "idle"
        BY <2>3, <3>2, QueueMarkersAssumption DEF Own, Typed, Shape, Ids
      <4>2. jobs[j].owner = ProcOf[c]
        BY <1>7, <3>2, <4>1 DEF Covered, Expire
      <4> QED BY <3>1, <3>2, <4>1, <4>2 DEF Alive
    <3>3. Unheld(j)'
      BY <1>1, <3>2 DEF Unheld
    <3> QED BY <1>4, <2>2, <3>3, QueueMarkersAssumption DEF Harmless
  <2>4. lapses' = 0 => lapses = 0
    BY <1>2, <1>3
  <2> QED BY <1>1, <1>2, <1>5, <2>3, <2>4, SoleFrom
<1> QED BY <1>6, <1>7

\* Recovery and replay select jobs that nobody holds.
LEMMA SoleSelect ==
    ASSUME Typed, Sole, SelectStale \/ \E type \in Types, chosen \in SUBSET Ids : SelectFailed(type, chosen)
    PROVE  Sole'
<1>1. jobs' = jobs /\ held' = held /\ pc' = pc /\ lapses' = lapses /\ faults' = faults
  BY DEF SelectStale, SelectFailed, Select, consumers
<1> SUFFICES ASSUME lapses = 0 PROVE Own' /\ Alone' /\ Current'
  BY <1>1 DEF Sole
<1>2. Own /\ Alone /\ Current
  BY DEF Sole
<1>3. Own' /\ Alone'
  BY <1>1, <1>2 DEF Own, Alone, Covered, Status, Exists
<1>4. sweep \in [Sweeps -> SUBSET Ids]
  BY DEF Typed, TypeOK
<1>5. \A j \in Ids : Status(j)' = Status(j) /\ (Unheld(j) => Unheld(j)')
  BY <1>1 DEF Status, Exists, Unheld
<1>6. ASSUME NEW j \in Ids, Status(j) = "failed" PROVE Unheld(j)
  BY <1>2, <1>6, QueueMarkersAssumption DEF Own, Covered, Unheld, Ids
<1>7. ASSUME NEW j \in Ids, Status(j) = "running", jobs[j].stale PROVE Unheld(j)
  BY <1>2, <1>7, QueueMarkersAssumption DEF Own, Covered, Unheld, Ids
<1>8. CASE SelectStale
  <2>1. /\ sweep'["stale"] = {j \in Ids : Status(j) = "running" /\ jobs[j].stale}
        /\ sweep'["failed"] = sweep["failed"]
    BY <1>4, <1>8 DEF SelectStale, Select, Sweeps
  <2> QED BY <1>2, <1>3, <1>4, <1>5, <1>7, <2>1 DEF Current, Sweeps
<1>9. ASSUME NEW type \in Types, NEW chosen \in SUBSET Ids, SelectFailed(type, chosen)
      PROVE  Own' /\ Alone' /\ Current'
  <2>1. /\ sweep'["failed"] = chosen /\ sweep'["stale"] = sweep["stale"]
        /\ \A j \in chosen : Status(j) = "failed"
    BY <1>4, <1>9 DEF SelectFailed, Select, Sweeps
  <2> QED BY <1>2, <1>3, <1>4, <1>5, <1>6, <2>1 DEF Current, Sweeps
<1> QED BY <1>8, <1>9

\* They write to what they selected, which still concerns nobody else.
LEMMA SoleSwept ==
    ASSUME Typed, Sole, RequeueStale \/ RequeueFailed \/ DeleteFinished
    PROVE  Sole'
<1>1. sweep \in [Sweeps -> SUBSET Ids] /\ held \in [Loops -> Ids \cup {NoJob}]
  BY DEF Typed, TypeOK
<1>2. /\ held' = held /\ pc' = pc /\ lapses' = lapses /\ faults' = faults
      /\ \A s \in Sweeps : sweep'[s] \in {sweep[s], {}}
  BY <1>1 DEF RequeueStale, RequeueFailed, DeleteFinished, SweepDone, consumers, Sweeps
<1>3. sweep'["stale"] \subseteq sweep["stale"] /\ sweep'["failed"] \subseteq sweep["failed"]
  BY <1>2 DEF Sweeps
<1>4. ASSUME Current, NEW i \in Ids PROVE Harmless(i)
  <2>1. CASE DeleteFinished
    BY <2>1 DEF DeleteFinished, Harmless
  <2>2. CASE RequeueStale
    <3>1. CASE i \notin Found("stale")
      BY <2>2, <3>1 DEF RequeueStale, Harmless
    <3>2. CASE i \in Found("stale")
      <4>1. i \in sweep["stale"] /\ jobs[i] # NoJob
        BY <3>2 DEF Found, Exists
      <4>2. Unheld(i) /\ Status(i) = "running"
        <5>1. jobs[i] \in Job
          BY <4>1, TypedFacts DEF Rows
        <5> QED BY <1>4, <4>1, <5>1 DEF Current, Status, Exists, Job
      <4>3. i \notin sweep["failed"]
        BY <1>4, <4>2 DEF Current
      <4>4. sweep'["stale"] = {} /\ sweep'["failed"] = sweep["failed"]
        BY <1>1, <2>2 DEF RequeueStale, SweepDone, Sweeps
      <4>5. Unheld(i)'
        BY <1>2, <4>2 DEF Unheld
      <4> QED BY <4>3, <4>4, <4>5 DEF Harmless
    <3> QED BY <3>1, <3>2
  <2>3. CASE RequeueFailed
    <3>1. CASE i \notin Found("failed")
      BY <2>3, <3>1 DEF RequeueFailed, Harmless
    <3>2. CASE i \in Found("failed")
      <4>1. i \in sweep["failed"] /\ jobs[i] # NoJob
        BY <3>2 DEF Found, Exists
      <4>2. Unheld(i) /\ Status(i) = "failed"
        <5>1. jobs[i] \in Job
          BY <4>1, TypedFacts DEF Rows
        <5> QED BY <1>4, <4>1, <5>1 DEF Current, Status, Exists, Job
      <4>3. i \notin sweep["stale"]
        BY <1>4, <4>2 DEF Current
      <4>4. sweep'["failed"] = {} /\ sweep'["stale"] = sweep["stale"]
        BY <1>1, <2>3 DEF RequeueFailed, SweepDone, Sweeps
      <4>5. Unheld(i)'
        BY <1>2, <4>2 DEF Unheld
      <4> QED BY <4>3, <4>4, <4>5 DEF Harmless
    <3> QED BY <3>1, <3>2
  <2> QED BY <2>1, <2>2, <2>3
<1> QED BY <1>1, <1>2, <1>3, <1>4, SoleFrom

LEMMA SoleRest ==
    ASSUME Typed, Sole, Next,
           ~ \E c \in Loops : Run(c) \/ NothingToClaim(c) \/ Heartbeat(c) \/ ClaimLost(c)
                              \/ CompleteThrows(c)
    PROVE  Sole'
<1>t. held \in [Loops -> Ids \cup {NoJob}] /\ sweep \in [Sweeps -> SUBSET Ids]
  BY DEF Typed, TypeOK
<1>1. ASSUME NEW p \in Producers, NEW r \in Requests, Enqueue(p, r) PROVE Sole'
  <2>1. r.key \in Keys \cup {NoKey}
    BY RequestsAssumption DEF Request
  <2> QED BY <1>1, <2>1, SoleInsert DEF Enqueue
<1>2. ASSUME NEW p \in Producers, EnqueueFallback(p) PROVE Sole'
  <2>1. asked[p] \in Requests
    BY <1>2 DEF EnqueueFallback, Typed, TypeOK, Shape
  <2> QED BY <1>2, <2>1, SoleInsert DEF EnqueueFallback
<1>3. ASSUME NEW p \in Producers, LookUp(p) \/ \E r \in Requests : EnqueueConflict(p, r)
      PROVE  Sole'
  BY <1>3, SoleSame DEF LookUp, EnqueueConflict, consumers, history
<1>4. ASSUME NEW p \in Procs, Crash(p) PROVE Sole'
  <2>1. /\ Restart(p) /\ jobs' = jobs /\ sweep' = sweep /\ lapses' = lapses /\ faults' = faults + 1
    BY <1>4 DEF Crash, Fault
  <2>2. \A i \in Ids : Harmless(i)
    BY <2>1 DEF Harmless
  <2>3. \A d \in Loops : held'[d] # NoJob => pc'[d] = pc[d]
    BY <2>1 DEF Restart
  <2> QED BY <2>1, <2>2, <2>3, RestartShape, SoleFrom
<1>5. ASSUME \E chosen \in SUBSET Ids : SelectFinished(chosen) PROVE Sole'
  <2>1. sweep'["stale"] = sweep["stale"] /\ sweep'["failed"] = sweep["failed"]
    BY <1>5, <1>t DEF SelectFinished, Select, Sweeps
  <2> QED BY <1>5, <2>1, SoleSame DEF SelectFinished, Select, consumers
<1>6. ASSUME NEW s \in Sweeps, SweepFails(s) PROVE Sole'
  <2>1. sweep'["stale"] \subseteq sweep["stale"] /\ sweep'["failed"] \subseteq sweep["failed"]
    BY <1>6, <1>t DEF SweepFails, SweepDone, Sweeps
  <2> QED BY <1>6, <2>1, SoleSame DEF SweepFails, SweepDone, consumers
<1> QED
  BY <1>1, <1>2, <1>3, <1>4, <1>5, <1>6, SoleTime, SoleSelect, SoleSwept DEF Next

LEMMA SoleNext == Typed /\ Sole /\ [Next]_vars => Sole'
<1>1. ASSUME Typed, Sole, UNCHANGED vars PROVE Sole'
  BY <1>1, SoleSame DEF vars, consumers, history
<1> QED BY <1>1, SoleLoop, SoleRest

LEMMA SoleAlways == Spec => []Sole
<1>1. Init => Sole
  BY DEF Init, Sole, Own, Alone, Current, Sweeps
<1> QED BY <1>1, SoleNext, TypedAlways, PTL DEF Spec

\* As long as no lock aged out under a live run, two loops never run one job:
\* what heartbeat, claimNext, requeueStaleRunning and the error paths of the
\* consumer loop achieve together.
THEOREM Exclusive == Spec => []RunIsExclusive
<1>1. Sole => RunIsExclusive
  BY DEF Sole, Alone, RunIsExclusive
<1> QED BY <1>1, SoleAlways, PTL

-----------------------------------------------------------------------------
(* Final successes.                                                        *)

Terminal ==
    \A j \in Ids :
        (faults = 0 /\ faults' = 0 /\ lapses = 0 /\ Status(j) = "succeeded")
            => Status(j)' \in {"succeeded", "none"}

LEMMA TerminalStep ==
    ASSUME Typed, Sole, Next
    PROVE  Terminal
<1> SUFFICES ASSUME NEW j \in Ids, faults = 0, faults' = 0, lapses = 0, Status(j) = "succeeded"
             PROVE  jobs'[j] = jobs[j] \/ jobs'[j] = NoJob
  BY DEF Terminal, Status, Exists
<1>1. Own /\ Current
  BY DEF Sole
<1>2. jobs[j] # NoJob /\ jobs[j].status = "succeeded"
  BY DEF Status, Exists
<1>3. Rows
  BY TypedFacts
<1>4. ASSUME NEW r \in Requests, NEW key \in Keys \cup {NoKey}, Insert(r, key)
      PROVE  jobs'[j] = jobs[j]
  BY <1>2, <1>4, InsertTyped
<1>5. ASSUME NEW p \in Producers,
             \/ \E r \in Requests : Enqueue(p, r) \/ EnqueueConflict(p, r)
             \/ LookUp(p) \/ EnqueueFallback(p)
      PROVE  jobs'[j] = jobs[j]
  <2>1. ASSUME NEW r \in Requests, Enqueue(p, r) PROVE jobs'[j] = jobs[j]
    <3>1. r.key \in Keys \cup {NoKey}
      BY RequestsAssumption DEF Request
    <3> QED BY <1>4, <2>1, <3>1 DEF Enqueue
  <2>2. ASSUME EnqueueFallback(p) PROVE jobs'[j] = jobs[j]
    <3>1. asked[p] \in Requests
      BY <2>2 DEF EnqueueFallback, Typed, TypeOK, Shape
    <3> QED BY <1>4, <2>2, <3>1 DEF EnqueueFallback
  <2>3. ASSUME LookUp(p) \/ \E r \in Requests : EnqueueConflict(p, r) PROVE jobs'[j] = jobs[j]
    BY <2>3 DEF LookUp, EnqueueConflict
  <2> QED BY <1>5, <2>1, <2>2, <2>3
<1>6. ASSUME NEW c \in Loops, Claim(c) \/ ClaimLost(c) PROVE jobs'[j] = jobs[j]
  <2>1. PICK i \in Ids : TakeNext(c, i)
    BY <1>6 DEF Claim, ClaimLost
  <2> QED BY <1>2, <2>1, TakenRow
<1>7. ASSUME NEW c \in Loops, Complete(c) \/ Fail(c) \/ FailThrows(c) PROVE jobs'[j] = jobs[j]
  <2>1. PICK i \in Ids : i = held[c]
    BY <1>7, HeldId DEF Complete, Fail, FailThrows
  <2>2. i # j
    BY <1>1, <2>1, QueueMarkersAssumption DEF Own, Covered, Ids
  <2>3. jobs' \in {jobs, Completed(i), Failed(i)}
    BY <1>7, <2>1 DEF Complete, Fail, FailThrows
  <2> QED BY <1>3, <2>2, <2>3, CompletedRows, FailedRows
<1>8. ASSUME NEW c \in Loops, CompleteThrows(c) PROVE FALSE
  BY <1>8 DEF CompleteThrows, Fault
<1>9. ASSUME NEW c \in Loops, Heartbeat(c) PROVE jobs'[j] = jobs[j]
  <2>1. held[c] # j
    BY <1>9, <1>2 DEF Heartbeat, Status, Exists
  <2> QED BY <1>3, <1>9, <2>1 DEF Heartbeat, Rows
<1>10. ASSUME NEW i \in Ids, Expire(i) \/ BecomeReady(i) PROVE jobs'[j] = jobs[j]
  <2>1. i # j
    BY <1>10 DEF Expire, BecomeReady
  <2> QED BY <1>3, <1>10, <2>1 DEF Expire, BecomeReady, Rows
<1>11. ASSUME RequeueStale \/ RequeueFailed PROVE jobs'[j] = jobs[j]
  <2>1. j \notin Found("stale") /\ j \notin Found("failed")
    BY <1>1 DEF Current, Found
  <2> QED BY <1>11, <2>1 DEF RequeueStale, RequeueFailed
<1>12. ASSUME DeleteFinished PROVE jobs'[j] \in {jobs[j], NoJob}
  BY <1>12 DEF DeleteFinished
<1>13. ASSUME \/ \E c \in Loops : NothingToClaim(c) \/ FinishWork(c)
              \/ \E p \in Procs : Crash(p)
              \/ SelectStale
              \/ \E chosen \in SUBSET Ids :
                   SelectFinished(chosen) \/ \E type \in Types : SelectFailed(type, chosen)
              \/ \E s \in Sweeps : SweepFails(s)
       PROVE  jobs'[j] = jobs[j]
  BY <1>13 DEF NothingToClaim, FinishWork, Crash, SelectStale, SelectFinished, SelectFailed,
               Select, SweepFails, vars
<1> QED
  BY <1>5, <1>6, <1>7, <1>8, <1>9, <1>10, <1>11, <1>12, <1>13 DEF Next, Run

\* Unless a statement failed, a process died or a lock aged out under a live run,
\* a job that has succeeded stays so until it is purged, although complete, fail
\* and the maintenance statements address jobs by id alone.
THEOREM FinalSuccess == Spec => SucceededIsTerminal
<1>1. Typed /\ Sole /\ [Next]_vars => [Terminal]_vars
  BY TerminalStep
<1>2. Spec => [][Terminal]_vars
  BY <1>1, TypedAlways, SoleAlways, PTL DEF Spec
<1>3. [Terminal]_vars => [\A j \in Ids :
         (faults = 0 /\ faults' = 0 /\ lapses = 0 /\ Status(j) = "succeeded")
             => Status(j)' \in {"succeeded", "none"}]_vars
  BY DEF Terminal
<1> QED BY <1>2, <1>3, PTL DEF SucceededIsTerminal
=============================================================================
