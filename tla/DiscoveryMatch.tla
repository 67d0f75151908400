--------------------------- MODULE DiscoveryMatch ---------------------------
(***************************************************************************)
(* The HLTB match of discovery games: enrichment runs and the              *)
(* administrator's commands (server/src/recommendations/                   *)
(* discovery-enrichment-service.ts, provider-retry-state.ts, repository.ts,*)
(* server/src/admin-discovery-match-routes.ts).                            *)
(*                                                                         *)
(* Everybody reads the payload of a game, goes away (to the provider, to   *)
(* the next statement) and replaces the WHOLE payload.  A scheduled run    *)
(* holds an advisory lock; a run for given keys, the run at the end of a   *)
(* pool refresh and the commands hold none.  The payloads abstract to the  *)
(* hours, the lock and the retry state of one provider; another provider's *)
(* part is a change of the same payload.  Every game has a title to search *)
(* for, and an igdb id of its own.                                         *)
(***************************************************************************)
EXTENDS Integers, Sequences, FiniteSets

CONSTANTS
    Games,          \* the games a discovery pool may have
    Recent,         \* those whose release year is unknown or recent
    Enrichers,      \* job loops of the worker
    Clerks,         \* requests of the administrator
    Limit,          \* maxGamesPerRun, discoveryPoolSize
    MaxAttempts,    \* attempts before a permanent miss
    MaxCalls,       \* bound: commands, targeted runs, pool refreshes, games added
    MaxFaults       \* bound: failed answers, other providers' changes, deaths, timed-out jobs

ASSUME DiscoveryAssumption ==
    /\ IsFiniteSet(Games) /\ Games # {} /\ Recent \subseteq Games
    /\ Limit \in Nat \ {0} /\ MaxAttempts \in Nat \ {0}
    /\ MaxCalls \in Nat /\ MaxFaults \in Nat

VARIABLES
    games,          \* [Games -> row of the table games]
    byAge,          \* the games by updated_at
    enrichJob,      \* the job of key 'discovery-enrichment:run'
    enricher,       \* [Enrichers -> the run it is at]
    clerk,          \* [Clerks -> the command, with the row it has read]
    typed,          \* history: [Games -> what became of the hours the administrator typed]
    calls, faults

discoveryVars == <<games, byAge, enrichJob, enricher, clerk, typed, calls, faults>>

Payloads == [list : {"discovery", "library", "none"}, hours : {"none", "found", "typed"},
             locked : BOOLEAN, tries : 0..MaxAttempts, due : BOOLEAN]
NoGame == [list |-> "none", hours |-> "none", locked |-> FALSE, tries |-> 0, due |-> TRUE]
Candidate == [NoGame EXCEPT !.list = "discovery"]
Owned == [NoGame EXCEPT !.list = "library"]

NoRun == [at |-> "off", kind |-> "run", keys |-> {}, batch |-> <<>>, seen |-> [g \in Games |-> NoGame]]
NoJob == [state |-> "none", keys |-> {}, runners |-> {}]
NoCommand == [name |-> "none", game |-> CHOOSE g \in Games : TRUE, seen |-> NoGame]
Commands == {"type", "pin", "clear", "forget"}

DiscoveryInit ==
    /\ games \in [Games -> {NoGame, Candidate, Owned}]
    /\ byAge \in {s \in [1..Cardinality(Games) -> Games] : \A i, j \in DOMAIN s : s[i] = s[j] => i = j}
    /\ enrichJob = NoJob
    /\ enricher = [e \in Enrichers |-> NoRun]
    /\ clerk = [c \in Clerks |-> NoCommand]
    /\ typed = [g \in Games |-> "no"]
    /\ calls \in 0..MaxCalls /\ faults = 0

Called == calls < MaxCalls /\ calls' = calls + 1
Faulty == faults < MaxFaults /\ faults' = faults + 1
IsDiscovery(g) == games[g].list = "discovery"

\* The games of a set in an order.
Orders(S, Precedes(_, _)) ==
    {s \in [1..Cardinality(S) -> S] :
        \A i, j \in DOMAIN s : i < j => s[i] # s[j] /\ Precedes(s[i], s[j])}
Older(g, h) == \E i, j \in DOMAIN byAge : i < j /\ byAge[i] = g /\ byAge[j] = h
Newer(g, h) == Older(h, g)

\* Mutation: a write leaves updated_at alone.
NotTouched(S) == {byAge}

\* updated_at = NOW()
Touched(S) == LET Precedes(g, h) == IF (g \in S) = (h \in S) THEN Older(g, h) ELSE h \in S
              IN  Orders(Games, Precedes)
Goes(e, r) == enricher' = [enricher EXCEPT ![e] = r]
RowDone(e, g) == Goes(e, [enricher[e] EXCEPT !.batch = Tail(@), !.seen[g] = NoGame])

\* The scheduler's job; a requeue command's for rows it lists, unless a job of the key is there.
EnqueueRun ==
    /\ enrichJob = NoJob
    /\ enrichJob' = [NoJob EXCEPT !.state = "pending"]
    /\ UNCHANGED <<games, byAge, enricher, clerk, typed, calls, faults>>
EnqueueKeys(S) ==
    /\ enrichJob = NoJob /\ Called /\ \A g \in S : IsDiscovery(g)
    /\ enrichJob' = [NoJob EXCEPT !.state = "pending", !.keys = S]
    /\ UNCHANGED <<games, byAge, enricher, clerk, typed, faults>>

StartRun(e) ==
    /\ enrichJob.state = "pending" /\ enricher[e] = NoRun
    /\ enrichJob' = [enrichJob EXCEPT !.state = "running", !.runners = @ \union {e}]
    /\ Goes(e, [NoRun EXCEPT !.at = "listing", !.keys = enrichJob.keys,
                             !.kind = IF enrichJob.keys = {} THEN "run" ELSE "keys"])
    /\ UNCHANGED <<games, byAge, clerk, typed, calls, faults>>

\* requeueStaleRunning: the worker is dead, or the run takes long.
RunOrphaned ==
    /\ enrichJob.state = "running" /\ enrichJob.runners = {}
    /\ enrichJob' = [enrichJob EXCEPT !.state = "pending"]
    /\ UNCHANGED <<games, byAge, enricher, clerk, typed, calls, faults>>
RunTimesOut ==
    /\ enrichJob.state = "running" /\ enrichJob.runners # {} /\ Faulty
    /\ enrichJob' = [enrichJob EXCEPT !.state = "pending"]
    /\ UNCHANGED <<games, byAge, enricher, clerk, typed, calls>>

\* maybeRearmProviderRetryState
Rearmed(g, p) ==
    IF p.tries = MaxAttempts /\ g \in Recent /\ p.due THEN [p EXCEPT !.tries = 0] ELSE p

\* The selection's WHERE: hours are missing, and an attempt, or the next round of them, is due.
Wanted(g) ==
    /\ IsDiscovery(g) /\ games[g].hours = "none" /\ games[g].due
    /\ games[g].tries < MaxAttempts \/ g \in Recent

\* The oldest rows that want it, or the rows of the given keys by the newest.
RunInProgress == \E e \in Enrichers : enricher[e].at = "rows" /\ enricher[e].kind = "run"
Selected(e) ==
    IF enricher[e].kind = "keys"
    THEN Orders({g \in enricher[e].keys : IsDiscovery(g)}, Newer)
    ELSE {SubSeq(s, 1, IF Len(s) < Limit THEN Len(s) ELSE Limit) :
              s \in Orders({g \in Games : Wanted(g)}, Older)}

ListRows(e) ==
    /\ enricher[e].at = "listing"
    /\ \E batch \in IF enricher[e].kind = "run" /\ RunInProgress THEN {<<>>} ELSE Selected(e) :
         LET Read(g) == \E i \in DOMAIN batch : batch[i] = g IN
         Goes(e, [enricher[e] EXCEPT !.at = "rows", !.batch = batch, !.keys = {},
                      !.seen = [g \in Games |-> IF Read(g) THEN games[g] ELSE NoGame]])
    /\ UNCHANGED <<games, byAge, enrichJob, clerk, typed, calls, faults>>

Attempts(p) == p.hours = "none" /\ p.due /\ p.tries < MaxAttempts

\* nextProviderRetryState
Found(p) == [p EXCEPT !.hours = "found", !.tries = 0]
Missed(p) == [p EXCEPT !.tries = p.tries + 1, !.due = FALSE]

\* updateGamePayload: whatever the row has become, unless it is gone.
Replace(g, p) ==
    IF games[g].list = "none" THEN UNCHANGED <<games, byAge>>
    ELSE games' = [games EXCEPT ![g] = p] /\ byAge' \in Touched({g})

Enriched(e, p) ==
    LET r == enricher[e] g == Head(r.batch) IN
    /\ IF p # r.seen[g] THEN Replace(g, p) ELSE UNCHANGED <<games, byAge>>
    /\ RowDone(e, g)
    /\ UNCHANGED <<enrichJob, clerk, typed, calls>>

\* The next row of the run: the provider has the game, or has not.
Enrich(e) ==
    /\ enricher[e].batch # <<>>
    /\ LET g == Head(enricher[e].batch) p == Rearmed(g, enricher[e].seen[g]) IN
       IF Attempts(p) THEN Enriched(e, Found(p)) \/ Enriched(e, Missed(p)) ELSE Enriched(e, p)
    /\ UNCHANGED faults

\* The provider's answer is an error: no attempt is counted.
EnrichErrs(e) ==
    /\ enricher[e].batch # <<>> /\ Faulty
    /\ LET g == Head(enricher[e].batch) p == Rearmed(g, enricher[e].seen[g]) IN
       Attempts(p) /\ Enriched(e, p)

\* The provider is not asked, or not for this run; another one's part of the payload changes.
EnrichOthers(e) ==
    /\ enricher[e].batch # <<>> /\ Faulty
    /\ LET r == enricher[e] g == Head(r.batch) p == Rearmed(g, r.seen[g]) IN
       /\ Replace(g, p)
       /\ RowDone(e, g)
    /\ UNCHANGED <<enrichJob, clerk, typed, calls>>

\* complete(), by the job's id.
EndRun(e) ==
    /\ enricher[e].at = "rows" /\ enricher[e].batch = <<>>
    /\ Goes(e, NoRun)
    /\ enrichJob' = IF e \in enrichJob.runners THEN NoJob ELSE enrichJob
    /\ UNCHANGED <<games, byAge, clerk, typed, calls, faults>>

RunDies(e) ==
    /\ enricher[e].at # "off" /\ Faulty
    /\ Goes(e, NoRun)
    /\ enrichJob' = [enrichJob EXCEPT !.runners = @ \ {e}]
    /\ UNCHANGED <<games, byAge, clerk, typed, calls>>

\* Mutation: the hours are not among the fields a refresh of the pool keeps.
PooledAnew(p) == [Candidate EXCEPT !.tries = p.tries, !.due = p.due]

\* ON CONFLICT DO UPDATE: hours and retry state are kept, the lock is not.
Pooled(p) == [p EXCEPT !.list = "discovery", !.locked = FALSE]

\* refreshDiscoveryPool: for each source that is stale and has changed, upserts what was fetched
\* and prunes the rest of its rows; then enriches.  The rows of a source left out stay.
RefreshPool(e, fetched) ==
    /\ enricher[e] = NoRun /\ Called
    /\ \A g \in fetched : games[g].list # "library"
    /\ \E leftOut \in SUBSET {g \in Games \ fetched : IsDiscovery(g)} :
         LET Stays(g) == games[g].list = "library" \/ g \in leftOut IN
         /\ games' = [g \in Games |-> IF Stays(g) THEN games[g]
                                      ELSE IF g \in fetched THEN Pooled(games[g]) ELSE NoGame]
         /\ typed' = [g \in Games |-> IF Stays(g) THEN typed[g]
                                      ELSE IF g \in fetched /\ typed[g] # "no" THEN "pooled" ELSE "no"]
    /\ byAge' \in Touched(fetched)
    /\ Goes(e, [NoRun EXCEPT !.at = "listing", !.kind = "pool"])
    /\ UNCHANGED <<enrichJob, clerk, faults>>

\* The user adds the game to the library: a push of the client.
AddToLibrary(g) ==
    /\ IsDiscovery(g) /\ Called
    /\ games' = [games EXCEPT ![g] = Owned]
    /\ byAge' \in Touched({g})
    /\ typed' = [typed EXCEPT ![g] = "no"]
    /\ UNCHANGED <<enrichJob, enricher, clerk, faults>>

\* PATCH match with hours or with an id alone, DELETE match, clear-permanent-miss: reads.
ReadForCommand(c, name, g) ==
    /\ clerk[c] = NoCommand /\ IsDiscovery(g) /\ Called
    /\ clerk' = [clerk EXCEPT ![c] = [name |-> name, game |-> g, seen |-> games[g]]]
    /\ UNCHANGED <<games, byAge, enrichJob, enricher, typed, faults>>

\* applyManualMatchPatch, clearManualMatch, resetPermanentMiss
Commanded(name, p) ==
    CASE name = "type"   -> [p EXCEPT !.hours = "typed", !.locked = TRUE, !.tries = 0, !.due = TRUE]
      [] name = "pin"    -> [p EXCEPT !.hours = "none", !.locked = TRUE, !.tries = 0, !.due = TRUE]
      [] name = "clear"  -> [p EXCEPT !.hours = "none", !.locked = FALSE, !.tries = 0, !.due = TRUE]
      [] name = "forget" -> [p EXCEPT !.tries = 0, !.due = TRUE]

\* Somebody else has read the game and may still replace it.
HeldByOthers(c, g) ==
    \/ \E d \in Clerks \ {c} : clerk[d] # NoCommand /\ clerk[d].game = g
    \/ \E e \in Enrichers : \E i \in DOMAIN enricher[e].batch : enricher[e].batch[i] = g

\* replaceDiscoveryPayload: only a discovery row, and the whole of it.
Command(c) ==
    LET k == clerk[c] g == k.game p == Commanded(k.name, k.seen) IN
    /\ k # NoCommand
    /\ IF IsDiscovery(g) /\ p # games[g] /\ (k.name = "forget" => k.seen.tries > 0)
       THEN games' = [games EXCEPT ![g] = p] /\ byAge' \in Touched({g})
       ELSE UNCHANGED <<games, byAge>>
    /\ typed' = [typed EXCEPT ![g] =
                   IF ~IsDiscovery(g) THEN @
                   ELSE IF k.name = "type" /\ ~HeldByOthers(c, g) THEN "kept"
                   ELSE IF k.name = "forget" THEN @ ELSE "no"]
    /\ clerk' = [clerk EXCEPT ![c] = NoCommand]
    /\ UNCHANGED <<enrichJob, enricher, calls, faults>>

\* nextTryAt is reached, or rearmAfterDays are over since the last attempt.
Elapse(g, missed) ==
    LET Aged(p) == IF (p.tries = MaxAttempts) = missed THEN [p EXCEPT !.due = TRUE] ELSE p IN
    /\ ~games[g].due /\ (games[g].tries = MaxAttempts) = missed
    /\ games' = [games EXCEPT ![g] = Aged(@)]
    /\ enricher' = [e \in Enrichers |-> [enricher[e] EXCEPT !.seen[g] = Aged(@)]]
    /\ clerk' = [c \in Clerks |-> IF clerk[c].game = g
                                  THEN [clerk[c] EXCEPT !.seen = Aged(@)] ELSE clerk[c]]
    /\ UNCHANGED <<byAge, enrichJob, typed, calls, faults>>

RunStep(e) == ListRows(e) \/ Enrich(e) \/ EndRun(e)
DiscoveryNext ==
    \/ EnqueueRun \/ RunOrphaned \/ RunTimesOut
    \/ \E S \in SUBSET Games : (S # {} /\ EnqueueKeys(S)) \/ \E e \in Enrichers : RefreshPool(e, S)
    \/ \E e \in Enrichers : StartRun(e) \/ RunStep(e) \/ EnrichErrs(e) \/ EnrichOthers(e) \/ RunDies(e)
    \/ \E g \in Games : AddToLibrary(g) \/ \E missed \in BOOLEAN : Elapse(g, missed)
    \/ \E c \in Clerks : Command(c) \/ \E n \in Commands, g \in Games : ReadForCommand(c, n, g)

\* The timers enqueue and recover, the loops take jobs and go on, time passes.
DiscoveryFairness ==
    /\ WF_discoveryVars(EnqueueRun) /\ WF_discoveryVars(RunOrphaned)
    /\ WF_discoveryVars(\E e \in Enrichers : StartRun(e))
    /\ \A e \in Enrichers : WF_discoveryVars(RunStep(e))
    /\ \A g \in Games, missed \in BOOLEAN : WF_discoveryVars(Elapse(g, missed))

DiscoverySpec == DiscoveryInit /\ [][DiscoveryNext]_discoveryVars /\ DiscoveryFairness

-----------------------------------------------------------------------------
DiscoveryTypeOK ==
    /\ games \in [Games -> Payloads]
    /\ byAge \in Seq(Games) /\ Len(byAge) = Cardinality(Games)
    /\ enrichJob \in [state : {"none", "pending", "running"}, keys : SUBSET Games, runners : SUBSET Enrichers]
    /\ enricher \in [Enrichers -> [at : {"off", "listing", "rows"}, kind : {"run", "keys", "pool"},
                                   keys : SUBSET Games, batch : Seq(Games), seen : [Games -> Payloads]]]
    /\ clerk \in [Clerks -> [name : Commands \union {"none"}, game : Games, seen : Payloads]]
    /\ typed \in [Games -> {"no", "kept", "pooled"}]
    /\ calls \in 0..MaxCalls /\ faults \in 0..MaxFaults

(***************************************************************************)
(* Hours the administrator typed for a game that nobody else had read at   *)
(* the time stay what they are through scheduled and targeted runs, other  *)
(* providers' changes, commands for retries and refreshes of the pool; the *)
(* lock stays with them until a refresh of the pool drops it.              *)
(***************************************************************************)
TypedHoursStay ==
    \A g \in Games :
        /\ typed[g] # "no" => games[g].hours = "typed"
        /\ typed[g] = "kept" => games[g].locked

(***************************************************************************)
(* Every discovery game comes, again and again, to have hours or to have   *)
(* been tried maxAttempts times: none is starved by the games before it in *)
(* the selection, by runs that die or overlap, or by copies written back.  *)
(***************************************************************************)
EnrichmentSettles ==
    \A g \in Games : []<>(\/ ~IsDiscovery(g) \/ games[g].hours # "none"
                          \/ games[g].tries = MaxAttempts)
=============================================================================
