------------------------------ MODULE RateLimit ------------------------------
(***************************************************************************)
(* The limiter in front of a metadata provider                             *)
(* (shared/provider-rate-limit.mjs) and the requests that go through it    *)
(* (worker/src/index.mjs, metadata-enrichment/igdb-client.ts).             *)
(*                                                                         *)
(* acquire() refuses during a cooldown, spaces requests by a minimum       *)
(* interval, counts them in a window and then waits for one of             *)
(* MaxConcurrent slots.  JavaScript runs it without interruption between   *)
(* two awaits: those stretches are the steps.  A released slot wakes one   *)
(* waiter, but the waiter takes it in a later microtask, and a request     *)
(* that asks in between may be first.  Times are relative to now.          *)
(***************************************************************************)
EXTENDS Integers, Sequences, FiniteSets

CONSTANTS
    Callers,        \* requests to the provider that may be under way at once
    MaxConcurrent,  \* policy.maxConcurrent
    MinInterval,    \* policy.minIntervalMs, in ticks
    MaxDelay,       \* policy.maxDelayMs, 0 for none
    WindowLength,   \* policy.windowMs
    MaxRequests,    \* policy.maxRequests
    MaxCooldown,    \* policy.maxCooldownSeconds: what Retry-After is clamped to
    MaxAsks         \* bound: calls of acquire()

ASSUME RateLimitAssumption ==
    /\ IsFiniteSet(Callers)
    /\ MaxConcurrent \in Nat \ {0} /\ MaxRequests \in Nat \ {0}
    /\ {MinInterval, MaxDelay, WindowLength, MaxCooldown, MaxAsks} \subseteq Nat

VARIABLES
    cooldown,       \* cooldownUntilMs - now, 0 when it is over
    gap,            \* nextRequestAtMs - now, 0 when it has passed
    window,         \* the window entry: its age (WindowLength + 1: expired) and count
    active,         \* activeRequests
    waiters,        \* concurrencyWaiters
    caller,         \* [Callers -> what a request is at, until when it sleeps, since when it runs]
    asks            \* counts against MaxAsks

rateVars == <<cooldown, gap, window, active, waiters, caller, asks>>

Gone == [at |-> "gone", wake |-> 0, age |-> 0]

RateInit ==
    /\ cooldown = 0 /\ gap = 0
    /\ window = [age |-> WindowLength + 1, count |-> 0]
    /\ active = 0 /\ waiters = <<>>
    /\ caller = [c \in Callers |-> Gone]
    /\ asks = 0

\* One turn of the loop in reserveConcurrencySlot.
TakesSlot(c) ==
    IF active < MaxConcurrent
    THEN /\ active' = active + 1
         /\ caller' = [caller EXCEPT ![c].at = "sending"]
         /\ UNCHANGED waiters
    ELSE /\ waiters' = Append(waiters, c)
         /\ caller' = [caller EXCEPT ![c].at = "waiting"]
         /\ UNCHANGED active

\* reserveWindowSlot
Expired == window.age > WindowLength
\* Mutation: off by one.
WindowOpenOnce == Expired \/ window.count <= MaxRequests

WindowOpen == Expired \/ window.count < MaxRequests
Counted == IF Expired THEN [age |-> 0, count |-> 1] ELSE [window EXCEPT !.count = @ + 1]

\* acquire() after its pause: the cooldown again, the window, a slot.
Settles(c) ==
    IF cooldown = 0 /\ WindowOpen
    THEN window' = Counted /\ TakesSlot(c)
    ELSE caller' = [caller EXCEPT ![c] = Gone] /\ UNCHANGED <<window, active, waiters>>

Asks(c) == caller[c].at = "gone" /\ asks < MaxAsks /\ asks' = asks + 1
Admitted == cooldown = 0 /\ (MaxDelay > 0 => gap <= MaxDelay)

\* acquire() throws: a cooldown, or too long a queue.
Refuse(c) ==
    /\ Asks(c) /\ ~Admitted
    /\ UNCHANGED <<cooldown, gap, window, active, waiters, caller>>

\* reserveDelayMs pushes the next request back, and this one sleeps until its turn ...
Delay(c) ==
    /\ Asks(c) /\ Admitted /\ gap > 0
    /\ gap' = gap + MinInterval
    /\ caller' = [caller EXCEPT ![c].at = "sleeping", ![c].wake = gap]
    /\ UNCHANGED <<cooldown, window, active, waiters>>

\* ... or goes on at once.
Proceed(c) ==
    /\ Asks(c) /\ Admitted /\ gap = 0
    /\ gap' = MinInterval
    /\ Settles(c)
    /\ UNCHANGED cooldown

WakeUp(c) ==
    /\ caller[c].at = "sleeping" /\ caller[c].wake = 0
    /\ Settles(c)
    /\ UNCHANGED <<cooldown, gap, asks>>

\* Mutation: it does not look again.
ResumeUnchecked(c) ==
    /\ caller[c].at = "woken"
    /\ active' = active + 1
    /\ caller' = [caller EXCEPT ![c].at = "sending"]
    /\ UNCHANGED <<cooldown, gap, window, waiters, asks>>

\* A waiter that was woken looks again; it may have to wait once more, at the end.
Resume(c) ==
    /\ caller[c].at = "woken"
    /\ TakesSlot(c)
    /\ UNCHANGED <<cooldown, gap, window, asks>>

\* Mutation: nobody is woken.
AnsweredSilently(c, next) ==
    /\ caller[c].at = "sending"
    /\ active' = active - 1
    /\ caller' = [caller EXCEPT ![c] = next]
    /\ UNCHANGED <<cooldown, gap, window, waiters, asks>>

\* The provider answers, or the request times out: lease.release() in the finally block.
\* A 429 is looked at only then.
Answered(c, next) ==
    /\ caller[c].at = "sending"
    /\ active' = active - 1
    /\ IF waiters = <<>>
       THEN caller' = [caller EXCEPT ![c] = next] /\ UNCHANGED waiters
       ELSE /\ caller' = [caller EXCEPT ![c] = next, ![Head(waiters)].at = "woken"]
            /\ waiters' = Tail(waiters)
    /\ UNCHANGED <<cooldown, gap, window, asks>>
Answer(c) == Answered(c, Gone)
Answer429(c) == Answered(c, [caller[c] EXCEPT !.at = "throttled"])

\* applyCooldown counts from nowMs, which was read when the request came in.
Throttle(c) ==
    /\ caller[c].at = "throttled"
    /\ \E retryAfter \in 1..MaxCooldown :
         cooldown' = IF retryAfter - caller[c].age > cooldown THEN retryAfter - caller[c].age
                     ELSE cooldown
    /\ caller' = [caller EXCEPT ![c] = Gone]
    /\ UNCHANGED <<gap, window, active, waiters, asks>>

Down(n) == IF n > 0 THEN n - 1 ELSE 0
Aged(r) == IF r.at = "gone" THEN r
           ELSE [r EXCEPT !.wake = Down(@), !.age = IF @ < MaxCooldown THEN @ + 1 ELSE @]
Tick ==
    /\ cooldown' = Down(cooldown) /\ gap' = Down(gap)
    /\ window' = IF Expired THEN window ELSE [window EXCEPT !.age = @ + 1]
    /\ caller' = [c \in Callers |-> Aged(caller[c])]
    /\ UNCHANGED <<active, waiters, asks>>

CallerStep(c) == WakeUp(c) \/ Resume(c) \/ Answer(c) \/ Answer429(c) \/ Throttle(c)
RateNext ==
    \/ \E c \in Callers : Refuse(c) \/ Delay(c) \/ Proceed(c) \/ CallerStep(c)
    \/ Tick
RateSpec == RateInit /\ [][RateNext]_rateVars

\* Time passes, microtasks run, and every fetch ends (it has a timeout).
RateFairness == WF_rateVars(Tick) /\ \A c \in Callers : WF_rateVars(CallerStep(c))

-----------------------------------------------------------------------------
RateTypeOK ==
    /\ cooldown \in 0..MaxCooldown /\ gap \in Nat
    /\ window \in [age : 0..(WindowLength + 1), count : 0..MaxRequests]
    /\ active \in Nat
    /\ waiters \in Seq(Callers)
    /\ caller \in [Callers -> [at : {"gone", "sleeping", "waiting", "woken", "sending", "throttled"},
                               wake : Nat, age : 0..MaxCooldown]]
    /\ asks \in 0..MaxAsks

Those(stage) == {c \in Callers : caller[c].at = stage}

(***************************************************************************)
(* No slot is lost and none is given out twice: the count is that of the   *)
(* requests being sent, at most maxConcurrent; and while requests wait,    *)
(* every slot is taken or a request has been woken for it.                 *)
(***************************************************************************)
NoSlotIsLost ==
    /\ active = Cardinality(Those("sending")) /\ active <= MaxConcurrent
    /\ waiters # <<>> => active + Cardinality(Those("woken")) >= MaxConcurrent

(***************************************************************************)
(* Every call of acquire() ends: however slots are snatched from those     *)
(* that were woken for them, a request is sent or refused in the end.      *)
(***************************************************************************)
EveryRequestEnds == \A c \in Callers : caller[c].at # "gone" ~> caller[c].at = "gone"
=============================================================================
