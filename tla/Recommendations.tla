--------------------------- MODULE Recommendations ---------------------------
(***************************************************************************)
(* Rebuilds of the recommendations of one target                           *)
(* (server/src/recommendations/service.ts, repository.ts).                 *)
(*                                                                         *)
(* A rebuild tries the target's advisory lock on a connection of its own   *)
(* and does everything on that connection: it looks at the latest run,     *)
(* reads the library, compares it with the latest run that succeeded, adds *)
(* a RUNNING run, computes and writes results and SUCCESS in one           *)
(* transaction.  Pages are served from the latest successful run.  When    *)
(* the connection drops, the lock goes, and so does the rebuild's power to *)
(* write; the run it leaves behind is failed by a recovery timer.          *)
(*                                                                         *)
(* The library is a version number.  staleHours and the recovery age are   *)
(* abstracted to "at any time"; a LOCKED rebuild counts as done.           *)
(***************************************************************************)
EXTENDS Integers, Sequences, FiniteSets

CONSTANTS
    Builders,       \* job loops that run recommendations_rebuild jobs
    NoBuilder,      \* nobody's session holds the lock
    MaxChanges,     \* bound: how often the library changes
    MaxUpsets       \* bound: failures, crashes, lost connections, manual and forced rebuilds

ASSUME RecAssumption ==
    /\ NoBuilder \notin Builders
    /\ MaxChanges \in Nat /\ MaxUpsets \in Nat

VARIABLES
    library,        \* version of what listNormalizedGames returns
    runs,           \* recommendation_runs of the target, by started_at
    backoff,        \* the latest failure is less than failureBackoffMinutes ago
    recLock,        \* the builder whose session holds the target's advisory lock
    builder,        \* [Builders -> the rebuild it is at]
    running,        \* the builders whose job row says running
    upsets

recVars == <<library, runs, backoff, recLock, builder, running, upsets>>

Off == [at |-> "off", kind |-> "scheduler", input |-> 0, run |-> 0]
RunStatuses == {"RUNNING", "SUCCESS", "FAILED"}

RecInit ==
    /\ library = 1 /\ backoff = FALSE
    /\ runs \in {<<>>, <<[status |-> "SUCCESS", input |-> 1]>>}
    /\ recLock = NoBuilder
    /\ builder = [b \in Builders |-> Off]
    /\ running = {}
    /\ upsets = 0

Upset == upsets < MaxUpsets /\ upsets' = upsets + 1
Turn(b, stage) == builder' = [builder EXCEPT ![b].at = stage]
\* Mutation: statements go through the pool, not through the session of the lock.
InPool(b, stage) == builder[b].at = stage

\* A statement of rebuild(): on the client whose session holds the lock.
InSession(b, stage) == builder[b].at = stage /\ recLock = b

\* getLatestSuccessfulRun: what is served, 0 for nothing.
Successes == {i \in DOMAIN runs : runs[i].status = "SUCCESS"}
Served == IF Successes = {} THEN 0
          ELSE LET i == CHOOSE i \in Successes : \A j \in Successes : j <= i IN runs[i].input

LibraryChanges ==
    /\ library <= MaxChanges
    /\ library' = library + 1
    /\ UNCHANGED <<runs, backoff, recLock, builder, running, upsets>>

\* The scheduler finds no successful run, or one that is staleHours old.
ClaimScheduled(b) ==
    /\ builder[b].at = "off"
    /\ builder' = [builder EXCEPT ![b] = [Off EXCEPT !.at = "lock"]]
    /\ running' = running \union {b}
    /\ UNCHANGED <<library, runs, backoff, recLock, upsets>>

\* POST /v1/recommendations/rebuild, with or without force.
ClaimRequested(b, kind) ==
    /\ builder[b].at = "off" /\ Upset
    /\ builder' = [builder EXCEPT ![b] = [Off EXCEPT !.at = "lock", !.kind = kind]]
    /\ running' = running \union {b}
    /\ UNCHANGED <<library, runs, backoff, recLock>>

\* withAdvisoryLock
TakeRecLock(b) ==
    /\ builder[b].at = "lock" /\ recLock = NoBuilder
    /\ recLock' = b
    /\ Turn(b, "latest")
    /\ UNCHANGED <<library, runs, backoff, running, upsets>>

RecJobDone(b) == builder' = [builder EXCEPT ![b] = Off] /\ running' = running \ {b}
RecLocked(b) ==
    /\ builder[b].at = "lock" /\ recLock # NoBuilder
    /\ RecJobDone(b)
    /\ UNCHANGED <<library, runs, backoff, recLock, upsets>>

\* isFailureBackoffActive(getLatestRun), unless somebody asked for the rebuild.
BackingOff(b) ==
    /\ builder[b].kind = "scheduler" /\ backoff
    /\ runs # <<>> /\ runs[Len(runs)].status = "FAILED"
LookAtLatest(b) ==
    /\ InSession(b, "latest")
    /\ Turn(b, IF BackingOff(b) THEN "unlock" ELSE "list")
    /\ UNCHANGED <<library, runs, backoff, recLock, running, upsets>>

ListGames(b) ==
    /\ InSession(b, "list")
    /\ builder' = [builder EXCEPT ![b].at = "compare", ![b].input = library]
    /\ UNCHANGED <<library, runs, backoff, recLock, running, upsets>>

\* Mutation: the hashes are those of the latest run, whatever its status.
UnneededByLatest(b) ==
    builder[b].kind # "forced" /\ runs # <<>> /\ runs[Len(runs)].input = builder[b].input

\* The hashes are those of the latest successful run: SKIPPED.
Unneeded(b) == builder[b].kind # "forced" /\ Served = builder[b].input
Compare(b) ==
    /\ InSession(b, "compare")
    /\ Turn(b, IF Unneeded(b) THEN "unlock" ELSE "create")
    /\ UNCHANGED <<library, runs, backoff, recLock, running, upsets>>

CreateRun(b) ==
    /\ InSession(b, "create")
    /\ runs' = Append(runs, [status |-> "RUNNING", input |-> builder[b].input])
    /\ builder' = [builder EXCEPT ![b].at = "build", ![b].run = Len(runs) + 1]
    /\ UNCHANGED <<library, backoff, recLock, running, upsets>>

Ends(b, status) == runs' = [runs EXCEPT ![builder[b].run].status = status]

\* Embeddings, scores, and finalizeRunSuccess: one transaction, whatever the run's status.
FinalizeRun(b) ==
    /\ InSession(b, "build")
    /\ Ends(b, "SUCCESS")
    /\ Turn(b, "unlock")
    /\ UNCHANGED <<library, backoff, recLock, running, upsets>>

\* Something of it throws: ROLLBACK, then markRunFailed.
BuildFails(b) ==
    /\ InSession(b, "build") /\ Upset
    /\ Turn(b, "failing")
    /\ UNCHANGED <<library, runs, backoff, recLock, running>>
MarkFailed(b) ==
    /\ InSession(b, "failing")
    /\ Ends(b, "FAILED") /\ backoff' = TRUE
    /\ Turn(b, "unlock")
    /\ UNCHANGED <<library, recLock, running, upsets>>

\* pg_advisory_unlock; the job is completed whatever became of the run.
UnlockTarget(b) ==
    /\ InSession(b, "unlock")
    /\ recLock' = NoBuilder
    /\ RecJobDone(b)
    /\ UNCHANGED <<library, runs, backoff, upsets>>

\* The connection is gone: whatever comes next throws, markRunFailed and the unlock too.
NoSession(b) ==
    /\ builder[b].at \notin {"off", "lock"} /\ recLock # b
    /\ RecJobDone(b)
    /\ UNCHANGED <<library, runs, backoff, recLock, upsets>>

-----------------------------------------------------------------------------
SessionDrops(b) ==
    /\ recLock = b /\ Upset
    /\ recLock' = NoBuilder
    /\ UNCHANGED <<library, runs, backoff, builder, running>>

\* The process dies; its job stays running until its lock times out.
BuilderDies(b) ==
    /\ builder[b].at # "off" /\ Upset
    /\ builder' = [builder EXCEPT ![b] = Off]
    /\ recLock' = IF recLock = b THEN NoBuilder ELSE recLock
    /\ UNCHANGED <<library, runs, backoff, running>>

\* requeueStaleRunning takes the job of a dead worker, or of one whose heartbeats failed.
RequeueDead(b) ==
    /\ b \in running /\ builder[b].at = "off"
    /\ running' = running \ {b}
    /\ UNCHANGED <<library, runs, backoff, recLock, builder, upsets>>
RequeueLive(b) ==
    /\ b \in running /\ builder[b].at # "off" /\ Upset
    /\ running' = running \ {b}
    /\ UNCHANGED <<library, runs, backoff, recLock, builder>>

\* failStaleRunningRuns: old RUNNING runs, when no job of the target runs.
FailStaleRuns ==
    /\ running = {} /\ \E i \in DOMAIN runs : runs[i].status = "RUNNING"
    /\ runs' = [i \in DOMAIN runs |->
                  IF runs[i].status = "RUNNING" THEN [runs[i] EXCEPT !.status = "FAILED"] ELSE runs[i]]
    /\ backoff' = TRUE
    /\ UNCHANGED <<library, recLock, builder, running, upsets>>

BackoffOver ==
    /\ backoff /\ backoff' = FALSE
    /\ UNCHANGED <<library, runs, recLock, builder, running, upsets>>

BuilderStep(b) ==
    \/ ClaimScheduled(b) \/ TakeRecLock(b) \/ RecLocked(b) \/ LookAtLatest(b) \/ ListGames(b)
    \/ Compare(b) \/ CreateRun(b) \/ FinalizeRun(b) \/ MarkFailed(b) \/ UnlockTarget(b)
    \/ NoSession(b)
BuilderFault(b) ==
    \/ BuildFails(b) \/ SessionDrops(b) \/ BuilderDies(b) \/ RequeueLive(b)
RecNext ==
    \/ \E b \in Builders : \/ BuilderStep(b) \/ BuilderFault(b) \/ RequeueDead(b)
                           \/ \E kind \in {"manual", "forced"} : ClaimRequested(b, kind)
    \/ LibraryChanges \/ FailStaleRuns \/ BackoffOver
RecSpec == RecInit /\ [][RecNext]_recVars

\* The scheduler ticks, job loops go on with what they run, and failures grow old.
RecFairness == WF_recVars(BackoffOver) /\ \A b \in Builders : WF_recVars(BuilderStep(b))

-----------------------------------------------------------------------------
RecTypeOK ==
    /\ library \in 1..(MaxChanges + 1)
    /\ runs \in Seq([status : RunStatuses, input : 1..(MaxChanges + 1)])
    /\ backoff \in BOOLEAN
    /\ recLock \in Builders \union {NoBuilder}
    /\ builder \in [Builders ->
         [at : {"off", "lock", "latest", "list", "compare", "create", "build", "failing", "unlock"},
          kind : {"scheduler", "manual", "forced"}, input : Nat, run : Nat]]
    /\ running \subseteq Builders
    /\ upsets \in 0..MaxUpsets

(***************************************************************************)
(* What is served never goes back to an older library: not by a rebuild    *)
(* that lost its connection and goes on, by one whose run was declared     *)
(* dead while it was slow, nor by two that overlap.                        *)
(***************************************************************************)
ServedNeverRegresses == [][Served' >= Served]_recVars

(***************************************************************************)
(* When the library rests, its recommendations are served in the end,      *)
(* whatever failed, died or was skipped on the way.                        *)
(***************************************************************************)
RecommendationsConverge == <>[](Served = library)
=============================================================================
