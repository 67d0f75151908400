------------------------------ MODULE JobQueue ------------------------------
(***************************************************************************)
(* The background job queue: the table background_jobs, the statements of  *)
(* BackgroundJobRepository, the consumer loops of the worker processes and *)
(* the producers.  One step is one SQL statement in a transaction of its   *)
(* own; the statements that first select candidates take two, as rows may  *)
(* change between their snapshot and their lock (READ COMMITTED).          *)
(*                                                                         *)
(* A lock on a running job is its locked_at.  Time is reduced to whether   *)
(* that is older than the recovery limit, and to whether available_at has  *)
(* come.  What a job does is left out: its work ends well or badly.        *)
(***************************************************************************)
EXTENDS Integers, FiniteSets

CONSTANTS
    Loops,       \* consumer loops
    Procs,       \* worker processes
    ProcOf,      \* the process a loop runs in: workerId
    Types,       \* job types
    TypeOf,      \* the type a loop claims
    ReplayTypes, \* types the replay route knows, not all of them
    Producers,   \* whoever enqueues jobs
    Requests,    \* what they ask for
    Keys,        \* dedupe keys
    NoKey,       \* dedupe_key IS NULL
    NoOwner,     \* locked_by IS NULL
    NoJob,       \* no row with this id, or no job in a loop's hands
    NoRequest,
    MaxJobs,     \* bound: job ids
    MaxTroubles  \* bound: failing statements and dying processes, locks that age
                 \* out although their run is alive, and replays, together

Ids == 1..MaxJobs

Request == [type : Types, key : Keys \cup {NoKey}, priority : Nat, max : Nat \ {0}]

Job == [type : Types, key : Keys \cup {NoKey}, priority : Nat, max : Nat \ {0},
        status : {"pending", "running", "succeeded", "failed"},
        attempts : Nat,
        owner : Procs \cup {NoOwner},
        stale : BOOLEAN,    \* locked_at is older than the recovery limit
        ready : BOOLEAN]    \* available_at has come

ASSUME LoopsAssumption ==
    ProcOf \in [Loops -> Procs] /\ TypeOf \in [Loops -> Types]
ASSUME RequestsAssumption == Requests \subseteq Request
ASSUME QueueMarkersAssumption ==
    /\ NoKey \notin Keys /\ NoOwner \notin Procs
    /\ NoJob \notin Job /\ NoJob \notin Nat /\ NoRequest \notin Request
ASSUME QueueBoundsAssumption == MaxJobs \in Nat /\ MaxTroubles \in Nat

VARIABLES
    jobs,      \* background_jobs
    lastId,    \* background_jobs_id_seq
    \* consumer loops
    pc, held,  \* where the loop is, and the job it has claimed
    \* producers
    stage, asked,
    sweep,     \* candidates of a maintenance statement under way
    \* bounds and history
    faults, lapses, replays,
    tries      \* claims of a job since it was queued or replayed

consumers == <<pc, held>>
producers == <<stage, asked>>
history == <<faults, lapses, replays, tries>>
vars == <<jobs, lastId, consumers, producers, sweep, history>>

\* requeueStaleRunning, requeueFailed, purgeFinishedOlderThan
Sweeps == {"stale", "failed", "finished"}

TypeOK ==
    /\ jobs \in [Ids -> Job \cup {NoJob}]
    /\ lastId \in 0..MaxJobs
    /\ pc \in [Loops -> {"idle", "working", "done", "failing"}]
    /\ held \in [Loops -> Ids \cup {NoJob}]
    /\ stage \in [Producers -> {"idle", "lookup", "fallback"}]
    /\ asked \in [Producers -> Requests \cup {NoRequest}]
    /\ sweep \in [Sweeps -> SUBSET Ids]
    /\ faults \in Nat /\ lapses \in Nat /\ replays \in Nat
    /\ faults + lapses + replays <= MaxTroubles
    /\ tries \in [Ids -> Nat]
    \* a job is locked exactly while it is running
    /\ \A j \in Ids : jobs[j] # NoJob =>
           ((jobs[j].owner # NoOwner) <=> (jobs[j].status = "running"))

Init ==
    /\ jobs = [j \in Ids |-> NoJob]
    /\ lastId = 0
    /\ pc = [c \in Loops |-> "idle"]
    /\ held = [c \in Loops |-> NoJob]
    /\ stage = [p \in Producers |-> "idle"]
    /\ asked = [p \in Producers |-> NoRequest]
    /\ sweep = [s \in Sweeps |-> {}]
    /\ faults = 0 /\ lapses = 0 /\ replays = 0
    /\ tries = [j \in Ids |-> 0]

-----------------------------------------------------------------------------
Exists(j) == jobs[j] # NoJob
Status(j) == IF Exists(j) THEN jobs[j].status ELSE "none"
Active(j) == Status(j) \in {"pending", "running"}

\* background_jobs_active_dedupe_idx: some other active job has the key.
KeyTaken(k, j) == k # NoKey /\ \E i \in Ids \ {j} : Active(i) /\ jobs[i].key = k

Bounded == faults + lapses + replays < MaxTroubles

\* Mutation: the row keeps its lock.
WaitingStillLocked(job, ready) ==
    [job EXCEPT !.status = "pending", !.stale = FALSE, !.ready = ready]

\* The row as a job that waits to be claimed.
Waiting(job, ready) ==
    [job EXCEPT !.status = "pending", !.owner = NoOwner, !.stale = FALSE, !.ready = ready]

\* The row as a job that has ended.
Ended(job, status) == [job EXCEPT !.status = status, !.owner = NoOwner, !.stale = FALSE]

-----------------------------------------------------------------------------
(* enqueue                                                                 *)

\* INSERT of a new row; the id comes from the sequence.
Insert(r, key) ==
    /\ lastId < MaxJobs
    /\ lastId' = lastId + 1
    /\ jobs' = [jobs EXCEPT ![lastId + 1] =
                  [type |-> r.type, key |-> key, priority |-> r.priority, max |-> r.max,
                   status |-> "pending", attempts |-> 0, owner |-> NoOwner,
                   stale |-> FALSE, ready |-> TRUE]]
    /\ UNCHANGED <<consumers, sweep, history>>

\* INSERT ... ON CONFLICT DO NOTHING finds no active job of the key.
Enqueue(p, r) ==
    /\ stage[p] = "idle"
    /\ ~KeyTaken(r.key, NoJob)
    /\ Insert(r, r.key)
    /\ UNCHANGED producers

\* It finds one and inserts nothing.
EnqueueConflict(p, r) ==
    /\ stage[p] = "idle"
    /\ KeyTaken(r.key, NoJob)
    /\ stage' = [stage EXCEPT ![p] = "lookup"]
    /\ asked' = [asked EXCEPT ![p] = r]
    /\ UNCHANGED <<jobs, lastId, consumers, sweep, history>>

Answered(p) ==
    /\ stage' = [stage EXCEPT ![p] = "idle"]
    /\ asked' = [asked EXCEPT ![p] = NoRequest]

\* The SELECT returns the active job: the request is deduplicated, or the job
\* has ended in between.
LookUp(p) ==
    /\ stage[p] = "lookup"
    /\ IF KeyTaken(asked[p].key, NoJob)
         THEN Answered(p)
         ELSE stage' = [stage EXCEPT ![p] = "fallback"] /\ UNCHANGED asked
    /\ UNCHANGED <<jobs, lastId, consumers, sweep, history>>

\* Then the job is inserted without a key.
EnqueueFallback(p) ==
    /\ stage[p] = "fallback"
    /\ Insert(asked[p], NoKey)
    /\ Answered(p)

-----------------------------------------------------------------------------
(* A consumer loop: claimNext, the work, complete or fail.                 *)

Claimable(j, type) == Status(j) = "pending" /\ jobs[j].type = type /\ jobs[j].ready

\* ORDER BY priority ASC, id ASC LIMIT 1
Precedes(i, j) ==
    \/ jobs[i].priority < jobs[j].priority
    \/ jobs[i].priority = jobs[j].priority /\ i <= j

\* The UPDATE ... FOR UPDATE SKIP LOCKED: two claims never take one job.
TakeNext(c, j) ==
    /\ pc[c] = "idle"
    /\ Claimable(j, TypeOf[c])
    /\ \A i \in Ids : Claimable(i, TypeOf[c]) => Precedes(j, i)
    /\ jobs' = [jobs EXCEPT ![j].status = "running", ![j].attempts = @ + 1,
                             ![j].owner = ProcOf[c], ![j].stale = FALSE]
    /\ tries' = [tries EXCEPT ![j] = @ + 1]

Claim(c) ==
    /\ \E j \in Ids :
         /\ TakeNext(c, j)
         /\ held' = [held EXCEPT ![c] = j]
    /\ pc' = [pc EXCEPT ![c] = "working"]
    /\ UNCHANGED <<lastId, producers, sweep, faults, lapses, replays>>

\* claimNext finds nothing; the loop asks again half a second later.
NothingToClaim(c) ==
    /\ pc[c] = "idle"
    /\ \A j \in Ids : ~Claimable(j, TypeOf[c])
    /\ UNCHANGED vars

\* dispatchJob returns or throws.
FinishWork(c) ==
    /\ pc[c] = "working"
    /\ \E outcome \in {"done", "failing"} : pc' = [pc EXCEPT ![c] = outcome]
    /\ UNCHANGED <<jobs, lastId, held, producers, sweep, history>>

\* The UPDATE of complete: by id alone, whoever owns the job by now.
Completed(j) == IF Exists(j) THEN [jobs EXCEPT ![j] = Ended(@, "succeeded")] ELSE jobs

\* The UPDATE of fail, likewise: another attempt after 30 s for each one made,
\* or none when they are used up.
Failed(j) ==
    IF ~Exists(j) THEN jobs
    ELSE [jobs EXCEPT ![j] = IF @.attempts >= @.max THEN Ended(@, "failed")
                             ELSE Waiting(@, @.attempts = 0)]

\* fail would make an ended job active again beside another one of its key:
\* the unique index refuses.
FailRefused(j) ==
    Exists(j) /\ jobs[j].attempts < jobs[j].max /\ KeyTaken(jobs[j].key, j)

LetGo(c) ==
    /\ pc' = [pc EXCEPT ![c] = "idle"]
    /\ held' = [held EXCEPT ![c] = NoJob]

Complete(c) ==
    /\ pc[c] = "done"
    /\ jobs' = Completed(held[c])
    /\ LetGo(c)
    /\ UNCHANGED <<lastId, producers, sweep, history>>

Fail(c) ==
    /\ pc[c] = "failing"
    /\ ~FailRefused(held[c])
    /\ jobs' = Failed(held[c])
    /\ LetGo(c)
    /\ UNCHANGED <<lastId, producers, sweep, history>>

\* Every 30 s from the claim until the loop is done with the job.
Heartbeat(c) ==
    /\ pc[c] # "idle"
    /\ LET j == held[c] IN
         /\ Status(j) = "running" /\ jobs[j].owner = ProcOf[c]
         /\ jobs' = [jobs EXCEPT ![j].stale = FALSE]
    /\ UNCHANGED <<lastId, consumers, producers, sweep, history>>

-----------------------------------------------------------------------------
(* Failures.                                                               *)

Fault ==
    /\ Bounded
    /\ faults' = faults + 1
    /\ UNCHANGED <<lastId, producers, lapses, replays>>

\* The claim is committed, its answer lost: nobody works on the job.
ClaimLost(c) ==
    /\ Fault
    /\ \E j \in Ids : TakeNext(c, j)
    /\ UNCHANGED <<consumers, sweep>>

\* complete throws, before or after it took effect: the catch block calls fail.
CompleteThrows(c) ==
    /\ pc[c] = "done"
    /\ Fault
    /\ jobs' \in {jobs, Completed(held[c])}
    /\ pc' = [pc EXCEPT ![c] = "failing"]
    /\ UNCHANGED <<held, sweep, tries>>

\* The process dies and is restarted: all its loops start afresh.
Restart(p) ==
    /\ pc' = [c \in Loops |-> IF ProcOf[c] = p THEN "idle" ELSE pc[c]]
    /\ held' = [c \in Loops |-> IF ProcOf[c] = p THEN NoJob ELSE held[c]]

Crash(p) ==
    /\ Fault
    /\ Restart(p)
    /\ UNCHANGED <<jobs, sweep, tries>>

\* fail throws, before or after it took effect: nothing handles the rejection
\* of the loop's promise, which ends the process.
FailThrows(c) ==
    /\ pc[c] = "failing"
    /\ \/ FailRefused(held[c]) /\ UNCHANGED <<jobs, lastId, producers, faults, lapses, replays>>
       \/ Fault /\ ~FailRefused(held[c]) /\ jobs' \in {jobs, Failed(held[c])}
    /\ Restart(ProcOf[c])
    /\ UNCHANGED <<sweep, tries>>

\* A run of the process that is named as the owner is still going on.
Alive(j) == \E c \in Loops : pc[c] # "idle" /\ held[c] = j /\ jobs[j].owner = ProcOf[c]

\* locked_at gets older than the limit; with heartbeats going on that takes a
\* process that is suspended, blocked or cut off from the database for so long.
Expire(j) ==
    /\ Status(j) = "running" /\ ~jobs[j].stale
    /\ IF Alive(j) THEN Bounded /\ lapses' = lapses + 1 ELSE UNCHANGED lapses
    /\ jobs' = [jobs EXCEPT ![j].stale = TRUE]
    /\ UNCHANGED <<lastId, consumers, producers, sweep, faults, replays, tries>>

\* available_at has come.
BecomeReady(j) ==
    /\ Status(j) = "pending" /\ ~jobs[j].ready
    /\ jobs' = [jobs EXCEPT ![j].ready = TRUE]
    /\ UNCHANGED <<lastId, consumers, producers, sweep, history>>

-----------------------------------------------------------------------------
(* Maintenance.  The candidates are selected without FOR UPDATE; the       *)
(* UPDATE or DELETE then takes them by id, whatever they are by then.      *)

Select(s, chosen) ==
    /\ sweep[s] = {}
    /\ chosen # {}
    /\ sweep' = [sweep EXCEPT ![s] = chosen]
    /\ UNCHANGED <<jobs, lastId, consumers, producers, faults, lapses, tries>>

\* The candidates that have not been deleted meanwhile.
Found(s) == {j \in sweep[s] : Exists(j)}

\* Making them active would violate the unique index: nothing is updated.
Refused(s) ==
    \E j \in Found(s) :
        /\ jobs[j].key # NoKey
        /\ \E i \in Ids \ {j} : (Active(i) \/ i \in Found(s)) /\ jobs[i].key = jobs[j].key

SweepDone(s) ==
    /\ sweep[s] # {}
    /\ sweep' = [sweep EXCEPT ![s] = {}]
    /\ UNCHANGED <<lastId, consumers, producers, lapses, replays>>

\* Mutation: whatever the age of the lock.
SelectRunning ==
    /\ Select("stale", {j \in Ids : Status(j) = "running"})
    /\ UNCHANGED replays

\* Mutation: only jobs that have an attempt left.
SelectRetryable ==
    /\ Select("stale", {j \in Ids : /\ Status(j) = "running" /\ jobs[j].stale
                                    /\ jobs[j].attempts < jobs[j].max})
    /\ UNCHANGED replays

\* requeueStaleRunning
SelectStale ==
    /\ Select("stale", {j \in Ids : Status(j) = "running" /\ jobs[j].stale})
    /\ UNCHANGED replays

RequeueStale ==
    /\ ~Refused("stale")
    /\ jobs' = [j \in Ids |-> IF j \in Found("stale") THEN Waiting(jobs[j], TRUE) ELSE jobs[j]]
    /\ SweepDone("stale")
    /\ UNCHANGED <<faults, tries>>

\* parseJobType: a type the route does not know means all types.
ReplayScope(type) == IF type \in ReplayTypes THEN {type} ELSE Types

\* Mutation: all finished jobs.
SelectAnyFinished(type, chosen) ==
    /\ Bounded
    /\ replays' = replays + 1
    /\ \A j \in chosen : Exists(j) /\ ~Active(j) /\ jobs[j].type \in ReplayScope(type)
    /\ Select("failed", chosen)

\* requeueFailed: what type, date and limit leave of the failed jobs.
SelectFailed(type, chosen) ==
    /\ Bounded
    /\ replays' = replays + 1
    /\ \A j \in chosen : Status(j) = "failed" /\ jobs[j].type \in ReplayScope(type)
    /\ Select("failed", chosen)

\* Mutation: attempts are not reset.
RequeueWithAttempts ==
    /\ ~Refused("failed")
    /\ jobs' = [j \in Ids |-> IF j \in Found("failed") THEN Waiting(jobs[j], TRUE) ELSE jobs[j]]
    /\ tries' = [j \in Ids |-> IF j \in Found("failed") THEN 0 ELSE tries[j]]
    /\ SweepDone("failed")
    /\ UNCHANGED faults

RequeueFailed ==
    /\ ~Refused("failed")
    /\ jobs' = [j \in Ids |-> IF j \in Found("failed")
                              THEN [Waiting(jobs[j], TRUE) EXCEPT !.attempts = 0]
                              ELSE jobs[j]]
    /\ tries' = [j \in Ids |-> IF j \in Found("failed") THEN 0 ELSE tries[j]]
    /\ SweepDone("failed")
    /\ UNCHANGED faults

\* purgeFinishedOlderThan: what retention and batch size leave.
SelectFinished(chosen) ==
    /\ \A j \in chosen : Status(j) \in {"succeeded", "failed"}
    /\ Select("finished", chosen)
    /\ UNCHANGED replays

DeleteFinished ==
    /\ jobs' = [j \in Ids |-> IF j \in sweep["finished"] THEN NoJob ELSE jobs[j]]
    /\ SweepDone("finished")
    /\ UNCHANGED <<faults, tries>>

\* The statement is refused, or fails otherwise, as a whole.
SweepFails(s) ==
    /\ SweepDone(s)
    /\ IF s # "finished" /\ Refused(s)
         THEN UNCHANGED faults
         ELSE Bounded /\ faults' = faults + 1
    /\ UNCHANGED <<jobs, tries>>

-----------------------------------------------------------------------------
Run(c) == Claim(c) \/ FinishWork(c) \/ Complete(c) \/ Fail(c) \/ FailThrows(c)

Next ==
    \/ \E p \in Producers :
         \/ \E r \in Requests : Enqueue(p, r) \/ EnqueueConflict(p, r)
         \/ LookUp(p) \/ EnqueueFallback(p)
    \/ \E c \in Loops : Run(c) \/ NothingToClaim(c) \/ Heartbeat(c) \/ ClaimLost(c) \/ CompleteThrows(c)
    \/ \E p \in Procs : Crash(p)
    \/ \E j \in Ids : Expire(j) \/ BecomeReady(j)
    \/ SelectStale \/ RequeueStale \/ RequeueFailed \/ DeleteFinished
    \/ \E chosen \in SUBSET Ids :
         \/ \E type \in Types : SelectFailed(type, chosen)
         \/ SelectFinished(chosen)
    \/ \E s \in Sweeps : SweepFails(s)

Spec == Init /\ [][Next]_vars

Passes(j) == Expire(j) \/ BecomeReady(j)
Recover == SelectStale \/ RequeueStale \/ SweepFails("stale")

\* Loops keep claiming and every job's work ends; time passes; recovery runs
\* every five minutes.
Fairness ==
    /\ \A c \in Loops : WF_vars(Run(c))
    /\ \A j \in Ids : WF_vars(Passes(j))
    /\ WF_vars(Recover)

FairSpec == Spec /\ Fairness

-----------------------------------------------------------------------------
(* Properties.                                                             *)

\* As long as no lock aged out under a live run, two loops never run one job:
\* neither crashes and lost answers nor recovery, retries and replays lead
\* there (heartbeat, claimNext and requeueStaleRunning together).
RunIsExclusive ==
    lapses = 0 =>
        \A c, d \in Loops : (held[c] # NoJob /\ held[c] = held[d]) => c = d

\* A job is given up only after it was claimed as often as it asked for, anew
\* after each replay (fail; CHANGELOG: reset job attempts on replay).
FailedIsExhausted ==
    \A j \in Ids : Status(j) = "failed" => tries[j] >= jobs[j].max

\* Unless a statement failed or a process died, or a lock aged out under a live
\* run, a job that has succeeded stays so until it is purged: no late answer and
\* no maintenance makes it run again (complete and fail go by id alone; the index
\* on finished jobs and the tests call the state terminal).
SucceededIsTerminal ==
    [][\A j \in Ids :
         (faults = 0 /\ faults' = 0 /\ lapses = 0 /\ Status(j) = "succeeded")
             => Status(j)' \in {"succeeded", "none"}]_vars

\* Every queued job is run to an end, through crashes, lost answers and locks
\* that age out: no job stays claimed by nobody.
EveryJobEnds ==
    \A j \in Ids : Active(j) ~> ~Active(j)
=============================================================================
