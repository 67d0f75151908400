---------------------------- MODULE MCServerTasks ----------------------------
(***************************************************************************)
(* Seven components of the server that share no state, each on a small     *)
(* instance.  A behaviour runs one of them, the part; the others stay in a *)
(* state of rest that satisfies their properties.                          *)
(***************************************************************************)
EXTENDS ReleaseMonitor, SaleAlerts, CompatRefresh, ReleaseSchedule, RateLimit, Recommendations,
        DiscoveryMatch

CONSTANTS dA, qB, f1, e1, e2, good, bad, g1, g2

VARIABLE part

Parts == {"monitor", "sale", "compat", "schedule", "rate", "recommendations", "discovery"}
tasksVars == <<part, monitorVars, saleVars, compatVars, scheduleVars, rateVars, recVars,
              discoveryVars>>

MCDayOf == [m \in {dA, qB} |-> IF m = dA THEN 2 ELSE 0]
MCDateShown == [m \in {dA, qB} |-> dA]
MCList == [e \in {e1, e2} |-> IF e = e1 THEN bad ELSE good]
MCForced == {1, 30}
MCReleaseDay == 24 * 66
MCMonthBegin == 24 * 46
MCQuarterBegin == 24 * 12
MCYearBegin == -24 * 60
MCYearOver == 24 * 300
MCLastHour == 24 * 68

\* A part runs from any of its initial states, the others rest in one.
TasksInit ==
    /\ part \in Parts
    /\ MonitorInit /\ SaleInit /\ CompatInit /\ ScheduleInit /\ RateInit /\ RecInit
    /\ DiscoveryInit /\ byAge = <<g1, g2>>
    /\ part # "monitor" => \A g \in Titles : upstream[g] = Unknown /\ watch[g] # NoWatch
    /\ list = MCList
    /\ part # "schedule" => grain = 1
    /\ part # "recommendations" => runs # <<>>
    /\ <<games[g1], games[g2], calls>> \in
         IF part = "discovery" THEN {<<Candidate, Owned, 0>>, <<Candidate, Candidate, MaxCalls>>}
         ELSE {<<Owned, Owned, 0>>}

RunMonitor ==
    /\ part = "monitor" /\ MonitorNext
    /\ UNCHANGED <<part, saleVars, compatVars, scheduleVars, rateVars, recVars, discoveryVars>>
RunSale ==
    /\ part = "sale" /\ SaleNext
    /\ UNCHANGED <<part, monitorVars, compatVars, scheduleVars, rateVars, recVars, discoveryVars>>
RunCompat ==
    /\ part = "compat" /\ CompatNext
    /\ UNCHANGED <<part, monitorVars, saleVars, scheduleVars, rateVars, recVars, discoveryVars>>
RunSchedule ==
    /\ part = "schedule" /\ ScheduleNext
    /\ UNCHANGED <<part, monitorVars, saleVars, compatVars, rateVars, recVars, discoveryVars>>
RunRate ==
    /\ part = "rate" /\ RateNext
    /\ UNCHANGED <<part, monitorVars, saleVars, compatVars, scheduleVars, recVars, discoveryVars>>
RunRecommendations ==
    /\ part = "recommendations" /\ RecNext
    /\ UNCHANGED <<part, monitorVars, saleVars, compatVars, scheduleVars, rateVars, discoveryVars>>
RunDiscovery ==
    /\ part = "discovery" /\ DiscoveryNext
    /\ UNCHANGED <<part, monitorVars, saleVars, compatVars, scheduleVars, rateVars, recVars>>

TasksNext == RunMonitor \/ RunSale \/ RunCompat \/ RunSchedule \/ RunRate \/ RunRecommendations
             \/ RunDiscovery

\* The fairness of each component's module, for the part that runs.
TasksFairness ==
    /\ \A g \in Titles : WF_monitorVars(part = "monitor" /\ EnqueueDue(g))
    /\ \A g \in Titles, k \in Kinds :
         WF_monitorVars(/\ part = "monitor"
                        /\ \/ RequeueOrphan(g, k)
                           \/ \E w \in Monitors : ClaimReaching(w, g, k))
    /\ \A w \in Monitors : WF_monitorVars(part = "monitor" /\ HandlerStep(w))
    /\ \A r \in Refreshers : WF_compatVars(part = "compat" /\ RefreshStep(r))
    /\ WF_compatVars(part = "compat" /\ BindPatches)
    /\ WF_rateVars(part = "rate" /\ Tick)
    /\ \A c \in Callers : WF_rateVars(part = "rate" /\ CallerStep(c))
    /\ WF_recVars(part = "recommendations" /\ BackoffOver)
    /\ \A b \in Builders : WF_recVars(part = "recommendations" /\ BuilderStep(b))
    /\ WF_discoveryVars(part = "discovery" /\ EnqueueRun)
    /\ WF_discoveryVars(part = "discovery" /\ RunOrphaned)
    /\ WF_discoveryVars(part = "discovery" /\ \E e \in Enrichers : StartRun(e))
    /\ \A e \in Enrichers : WF_discoveryVars(part = "discovery" /\ RunStep(e))
    /\ \A g \in Games, missed \in BOOLEAN : WF_discoveryVars(part = "discovery" /\ Elapse(g, missed))

TasksSpec == TasksInit /\ [][TasksNext]_tasksVars /\ TasksFairness

\* The type invariant of the component that runs.
TasksTypeOK ==
    CASE part = "monitor"  -> MonitorTypeOK
      [] part = "sale"     -> SaleTypeOK
      [] part = "compat"   -> CompatTypeOK
      [] part = "schedule" -> ScheduleTypeOK
      [] part = "rate"     -> RateTypeOK
      [] part = "recommendations" -> RecTypeOK
      [] part = "discovery" -> DiscoveryTypeOK
=============================================================================
