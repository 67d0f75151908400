--------------------------- MODULE Provider_proofs ----------------------------
(***************************************************************************)
(* Proofs about what works with the metadata providers: the limiter in     *)
(* front of them, the refresh of the emulation compatibility and the match *)
(* of discovery games.                                                     *)
(***************************************************************************)
EXTENDS RateLimit, CompatRefresh, DiscoveryMatch, FiniteSetTheorems, SequenceTheorems, TLAPS

-----------------------------------------------------------------------------
(* RateLimit: its types, and that no concurrency slot is lost or given out *)
(* twice, for any number of requests and any policy.                       *)

CallerStates == [at : {"gone", "sleeping", "waiting", "woken", "sending", "throttled"},
                 wake : Nat, age : 0..MaxCooldown]

\* The queue holds waiting requests, each once.
Queue ==
    /\ \A i \in DOMAIN waiters : caller[waiters[i]].at = "waiting"
    /\ \A i, j \in DOMAIN waiters : i # j => waiters[i] # waiters[j]

Slots == RateTypeOK /\ Queue /\ NoSlotIsLost

\* A step that only takes request c to a stage.
Turned(c, stage) == \A d \in Callers : caller'[d].at = IF d = c THEN stage ELSE caller[d].at

LEMMA SlotCounting ==
    ASSUME NEW c \in Callers, NEW stage, Turned(c, stage), NEW x
    PROVE  /\ Cardinality(Those(x)) \in Nat
           /\ Cardinality(Those(x)') =
                CASE x = stage /\ caller[c].at # x -> Cardinality(Those(x)) + 1
                  [] x # stage /\ caller[c].at = x -> Cardinality(Those(x)) - 1
                  [] OTHER                         -> Cardinality(Those(x))
  <1>1. IsFiniteSet(Those(x)) /\ Cardinality(Those(x)) \in Nat
    BY RateLimitAssumption, FS_Subset, FS_CardinalityType DEF Those
  <1>2. c \in Those(x) <=> caller[c].at = x
    BY DEF Those
  <1>3. CASE x = stage
    <2>1. Those(x)' = Those(x) \union {c}
      BY <1>3 DEF Those, Turned
    <2> QED BY <1>1, <1>2, <1>3, <2>1, FS_AddElement
  <1>4. CASE x # stage
    <2>1. Those(x)' = Those(x) \ {c}
      BY <1>4 DEF Those, Turned
    <2> QED BY <1>1, <1>2, <1>4, <2>1, FS_RemoveElement
  <1> QED BY <1>1, <1>3, <1>4

\* Between stages that hold no slot and wait for none nothing changes for the slots.
Idle == {"gone", "sleeping", "throttled"}
LEMMA IdleTurn ==
    ASSUME Slots, NEW c \in Callers, NEW stage \in Idle, Turned(c, stage),
           caller[c].at \in Idle, UNCHANGED <<active, waiters>>
    PROVE  Queue' /\ NoSlotIsLost'
  <1>1. Cardinality(Those("sending")') = Cardinality(Those("sending"))
    BY SlotCounting DEF Idle
  <1>2. Cardinality(Those("woken")') = Cardinality(Those("woken"))
    BY SlotCounting DEF Idle
  <1>3. Queue'
    <2>1. \A i \in DOMAIN waiters : waiters[i] \in Callers /\ waiters[i] # c
      BY DEF Slots, Queue, RateTypeOK, Idle
    <2> QED BY <2>1 DEF Slots, Queue, Turned
  <1> QED BY <1>1, <1>2, <1>3 DEF Slots, NoSlotIsLost

\* The loop of reserveConcurrencySlot.
LEMMA TakingSlot ==
    ASSUME Slots, NEW c \in Callers, caller[c].at \in Idle \union {"woken"}, TakesSlot(c)
    PROVE  /\ active' \in Nat /\ waiters' \in Seq(Callers) /\ caller' \in [Callers -> CallerStates]
           /\ Queue' /\ NoSlotIsLost'
  <1>0. /\ caller \in [Callers -> CallerStates] /\ waiters \in Seq(Callers) /\ active \in Nat
        /\ MaxConcurrent \in Nat
    BY RateLimitAssumption DEF Slots, RateTypeOK, CallerStates
  <1>1. Cardinality(Those("sending")) \in Nat /\ Cardinality(Those("woken")) \in Nat
    BY RateLimitAssumption, FS_Subset, FS_CardinalityType DEF Those
  <1>2. \A i \in DOMAIN waiters : waiters[i] \in Callers /\ waiters[i] # c
    BY <1>0 DEF Slots, Queue, Idle
  <1>3. CASE active < MaxConcurrent
    <2>1. /\ active' = active + 1 /\ waiters' = waiters
          /\ caller' = [caller EXCEPT ![c].at = "sending"]
      BY <1>3 DEF TakesSlot
    <2>2. caller' \in [Callers -> CallerStates] /\ Turned(c, "sending")
      BY <1>0, <2>1 DEF CallerStates, Turned
    <2>3. Cardinality(Those("sending")') = Cardinality(Those("sending")) + 1
      BY <2>2, SlotCounting DEF Idle
    <2>4. Cardinality(Those("woken")') >= Cardinality(Those("woken")) - 1
      BY <1>1, <2>2, SlotCounting
    <2>5. Queue'
      BY <1>2, <2>1, <2>2 DEF Slots, Queue, Turned
    <2>6. Cardinality(Those("woken")') \in Int
      BY <1>1, <2>2, SlotCounting
    <2> QED BY <1>0, <1>1, <1>3, <2>1, <2>2, <2>3, <2>4, <2>5, <2>6 DEF Slots, NoSlotIsLost
  <1>4. CASE ~(active < MaxConcurrent)
    <2>1. /\ active' = active /\ waiters' = Append(waiters, c)
          /\ caller' = [caller EXCEPT ![c].at = "waiting"]
      BY <1>4 DEF TakesSlot
    <2>2. caller' \in [Callers -> CallerStates] /\ Turned(c, "waiting")
      BY <1>0, <2>1 DEF CallerStates, Turned
    <2>3. Cardinality(Those("sending")') = Cardinality(Those("sending"))
      BY <2>2, SlotCounting DEF Idle
    <2>4. Cardinality(Those("woken")') \in Nat
      <3>1. IsFiniteSet(Those("woken")')
        BY RateLimitAssumption, FS_Subset DEF Those
      <3> QED BY <3>1, FS_CardinalityType
    <2>5. Queue'
      <3>1. DOMAIN waiters' = DOMAIN waiters \union {Len(waiters) + 1}
        BY <1>0, <2>1
      <3>2. \A i \in DOMAIN waiters : waiters'[i] = waiters[i] /\ i # Len(waiters) + 1
        BY <1>0, <2>1
      <3>3. waiters'[Len(waiters) + 1] = c
        BY <1>0, <2>1
      <3> QED BY <1>2, <2>2, <3>1, <3>2, <3>3 DEF Slots, Queue, Turned
    <2> QED BY <1>0, <1>1, <1>4, <2>1, <2>2, <2>3, <2>4, <2>5 DEF Slots, NoSlotIsLost
  <1> QED BY <1>3, <1>4

\* acquire() from the settled cooldown check on.
LEMMA Settling ==
    ASSUME Slots, NEW c \in Callers, caller[c].at \in Idle, Settles(c)
    PROVE  /\ window' \in [age : 0..(WindowLength + 1), count : 0..MaxRequests]
           /\ active' \in Nat /\ waiters' \in Seq(Callers) /\ caller' \in [Callers -> CallerStates]
           /\ Queue' /\ NoSlotIsLost'
  <1>0. /\ caller \in [Callers -> CallerStates] /\ MaxRequests \in Nat \ {0} /\ WindowLength \in Nat
        /\ window \in [age : 0..(WindowLength + 1), count : 0..MaxRequests]
        /\ MaxCooldown \in Nat
    BY RateLimitAssumption DEF Slots, RateTypeOK, CallerStates
  <1>1. CASE cooldown = 0 /\ WindowOpen
    <2>1. window' = Counted /\ TakesSlot(c)
      BY <1>1 DEF Settles
    <2>2. window' \in [age : 0..(WindowLength + 1), count : 0..MaxRequests]
      BY <1>0, <1>1, <2>1 DEF Counted, WindowOpen, Expired
    <2> QED BY <2>1, <2>2, TakingSlot
  <1>2. CASE ~(cooldown = 0 /\ WindowOpen)
    <2>1. caller' = [caller EXCEPT ![c] = Gone] /\ UNCHANGED <<window, active, waiters>>
      BY <1>2 DEF Settles
    <2>2. caller' \in [Callers -> CallerStates] /\ Turned(c, "gone")
      BY <1>0, <2>1 DEF CallerStates, Turned, Gone
    <2> QED BY <1>0, <2>1, <2>2, IdleTurn DEF Idle, Slots, RateTypeOK
  <1> QED BY <1>1, <1>2

\* lease.release(): the slot is given back and the first waiter woken.
LEMMA Answering ==
    ASSUME Slots, NEW c \in Callers, NEW next \in CallerStates, next.at \in Idle,
           Answered(c, next)
    PROVE  Slots'
  <1>0. /\ caller \in [Callers -> CallerStates] /\ waiters \in Seq(Callers) /\ active \in Nat
        /\ MaxConcurrent \in Nat /\ caller[c].at = "sending" /\ active' = active - 1
        /\ UNCHANGED <<cooldown, gap, window, asks>>
    BY RateLimitAssumption DEF Slots, RateTypeOK, CallerStates, Answered
  <1>1. Cardinality(Those("sending")) \in Nat /\ Cardinality(Those("woken")) \in Nat
    BY RateLimitAssumption, FS_Subset, FS_CardinalityType DEF Those
  <1>2. active > 0
    <2>1. IsFiniteSet(Those("sending")) /\ c \in Those("sending")
      BY <1>0, RateLimitAssumption, FS_Subset DEF Those
    <2>2. Those("sending") # {}
      BY <2>1
    <2>3. Cardinality(Those("sending")) # 0
      BY <2>1, <2>2, FS_EmptySet
    <2> QED BY <1>0, <1>1, <2>3 DEF Slots, NoSlotIsLost
  <1>3. CASE waiters = <<>>
    <2>1. caller' = [caller EXCEPT ![c] = next] /\ waiters' = waiters
      BY <1>3 DEF Answered
    <2>2. caller' \in [Callers -> CallerStates] /\ Turned(c, next.at)
      BY <1>0, <2>1 DEF Turned
    <2>3. Cardinality(Those("sending")') = Cardinality(Those("sending")) - 1
      BY <1>0, <2>2, SlotCounting DEF Idle
    <2>4. Queue'
      BY <1>3, <2>1 DEF Queue
    <2>5. NoSlotIsLost'
      BY <1>0, <1>1, <1>2, <1>3, <2>1, <2>3 DEF NoSlotIsLost, Slots
    <2> QED BY <1>0, <1>2, <2>1, <2>2, <2>4, <2>5 DEF Slots, RateTypeOK, CallerStates
  <1>4. CASE waiters # <<>>
    <2> DEFINE h == Head(waiters)
    <2>0. h \in Callers /\ h = waiters[1] /\ 1 \in DOMAIN waiters
      BY <1>0, <1>4
    <2>1. /\ caller' = [caller EXCEPT ![c] = next, ![h].at = "woken"]
          /\ waiters' = Tail(waiters)
      BY <1>4 DEF Answered
    <2>2. caller[h].at = "waiting" /\ h # c
      BY <1>0, <2>0 DEF Slots, Queue
    <2> HIDE DEF h
    <2>3. caller' \in [Callers -> CallerStates]
      BY <1>0, <2>0, <2>1, <2>2 DEF CallerStates
    <2>4. \A d \in Callers : caller'[d].at = IF d = h THEN "woken"
                                             ELSE IF d = c THEN next.at ELSE caller[d].at
      BY <1>0, <2>0, <2>1, <2>2 DEF CallerStates
    <2>5. Those("sending")' = Those("sending") \ {c}
      BY <1>0, <2>2, <2>4 DEF Those, Idle
    <2>6. Those("woken")' = Those("woken") \union {h}
      BY <1>0, <2>0, <2>2, <2>4 DEF Those, Idle
    <2>7. Cardinality(Those("sending")') = Cardinality(Those("sending")) - 1
      <3>1. IsFiniteSet(Those("sending")) /\ c \in Those("sending")
        BY <1>0, RateLimitAssumption, FS_Subset DEF Those
      <3> QED BY <2>5, <3>1, FS_RemoveElement
    <2>8. Cardinality(Those("woken")') = Cardinality(Those("woken")) + 1
      <3>1. IsFiniteSet(Those("woken")) /\ h \notin Those("woken")
        BY <2>2, RateLimitAssumption, FS_Subset DEF Those
      <3> QED BY <2>6, <3>1, FS_AddElement
    <2>9. Queue'
      <3>1. /\ Tail(waiters) \in Seq(Callers)
            /\ \A i \in DOMAIN Tail(waiters) : i + 1 \in DOMAIN waiters /\ i + 1 # 1
                                               /\ Tail(waiters)[i] = waiters[i + 1]
        BY <1>0, <1>4
      <3>2. \A i \in DOMAIN Tail(waiters) : Tail(waiters)[i] # h /\ Tail(waiters)[i] \in Callers
        BY <2>0, <3>1 DEF Slots, Queue
      <3>3. \A i \in DOMAIN Tail(waiters) : caller[Tail(waiters)[i]].at = "waiting"
        BY <3>1 DEF Slots, Queue
      <3>4. \A i, j \in DOMAIN Tail(waiters) : i # j => Tail(waiters)[i] # Tail(waiters)[j]
        <4> SUFFICES ASSUME NEW i \in DOMAIN Tail(waiters), NEW j \in DOMAIN Tail(waiters), i # j
                     PROVE  Tail(waiters)[i] # Tail(waiters)[j]
          OBVIOUS
        <4>1. i \in Int /\ j \in Int /\ i + 1 # j + 1
          BY <3>1
        <4> QED BY <3>1, <4>1 DEF Slots, Queue
      <3> QED BY <1>0, <2>1, <2>4, <3>2, <3>3, <3>4 DEF Queue
    <2>10. NoSlotIsLost'
      BY <1>0, <1>1, <1>2, <1>4, <2>7, <2>8 DEF NoSlotIsLost, Slots
    <2>11. waiters' \in Seq(Callers)
      BY <1>0, <1>4, <2>1
    <2> QED BY <1>0, <1>2, <2>3, <2>9, <2>10, <2>11 DEF Slots, RateTypeOK, CallerStates
  <1> QED BY <1>3, <1>4

LEMMA SlotsInit == RateInit => Slots
  <1> SUFFICES ASSUME RateInit PROVE Slots
    OBVIOUS
  <1>1. Those("sending") = {} /\ Those("woken") = {}
    BY DEF RateInit, Those, Gone
  <1>2. NoSlotIsLost
    <2>1. Cardinality(Those("sending")) = 0
      BY <1>1, FS_EmptySet
    <2> QED BY <2>1, RateLimitAssumption DEF NoSlotIsLost, RateInit
  <1>3. RateTypeOK
    BY RateLimitAssumption DEF RateTypeOK, RateInit, Gone
  <1> QED BY <1>2, <1>3 DEF Slots, Queue, RateInit

LEMMA SlotsTick == Slots /\ Tick => Slots'
  <1> SUFFICES ASSUME Slots, Tick PROVE Slots'
    OBVIOUS
  <1>0. /\ caller \in [Callers -> CallerStates] /\ MaxCooldown \in Nat /\ WindowLength \in Nat
        /\ cooldown \in 0..MaxCooldown /\ gap \in Nat
        /\ window \in [age : 0..(WindowLength + 1), count : 0..MaxRequests]
        /\ UNCHANGED <<active, waiters, asks>>
    BY RateLimitAssumption DEF Slots, RateTypeOK, CallerStates, Tick
  <1>1. ASSUME NEW r \in CallerStates
        PROVE  Aged(r) \in CallerStates /\ Aged(r).at = r.at
    <2>1. CASE r.at = "gone"
      BY <2>1 DEF Aged
    <2>2. CASE r.at # "gone"
      <3>1. Down(r.wake) \in Nat
        BY DEF Down, CallerStates
      <3>2. (IF r.age < MaxCooldown THEN r.age + 1 ELSE r.age) \in 0..MaxCooldown
        BY <1>0 DEF CallerStates
      <3> QED BY <2>2, <3>1, <3>2 DEF Aged, CallerStates
    <2> QED BY <2>1, <2>2
  <1>2. caller' \in [Callers -> CallerStates] /\ \A d \in Callers : caller'[d].at = caller[d].at
    BY <1>0, <1>1 DEF Tick
  <1>3. \A x : Those(x)' = Those(x)
    BY <1>2 DEF Those
  <1>4. NoSlotIsLost'
    BY <1>0, <1>3 DEF Slots, NoSlotIsLost
  <1>5. Queue'
    <2>1. \A i \in DOMAIN waiters : waiters[i] \in Callers
      BY DEF Slots, RateTypeOK
    <2> QED BY <1>0, <1>2, <2>1 DEF Slots, Queue
  <1>6. cooldown' \in 0..MaxCooldown /\ gap' \in Nat
    BY <1>0 DEF Tick, Down
  <1>7. window' \in [age : 0..(WindowLength + 1), count : 0..MaxRequests]
    BY <1>0 DEF Tick, Expired
  <1> QED BY <1>0, <1>2, <1>4, <1>5, <1>6, <1>7 DEF Slots, RateTypeOK, CallerStates

LEMMA SlotsNext == Slots /\ [RateNext]_rateVars => Slots'
  <1> SUFFICES ASSUME Slots, [RateNext]_rateVars PROVE Slots'
    OBVIOUS
  <1>0. /\ caller \in [Callers -> CallerStates] /\ {MinInterval, MaxCooldown, MaxAsks} \subseteq Nat
        /\ cooldown \in 0..MaxCooldown /\ gap \in Nat /\ asks \in 0..MaxAsks
    BY RateLimitAssumption DEF Slots, RateTypeOK, CallerStates
  <1>1. ASSUME NEW c \in Callers, Refuse(c) PROVE Slots'
    BY <1>0, <1>1 DEF Refuse, Asks, Slots, RateTypeOK, Queue, NoSlotIsLost, Those
  <1>2. ASSUME NEW c \in Callers, Delay(c) PROVE Slots'
    <2>1. /\ caller[c].at = "gone"
          /\ caller' = [caller EXCEPT ![c].at = "sleeping", ![c].wake = gap]
          /\ UNCHANGED <<cooldown, window, active, waiters>>
      BY <1>2 DEF Delay, Asks
    <2>2. caller' \in [Callers -> CallerStates] /\ Turned(c, "sleeping")
      BY <1>0, <2>1 DEF CallerStates, Turned
    <2>3. Queue' /\ NoSlotIsLost'
      BY <2>1, <2>2, IdleTurn DEF Idle
    <2>4. gap' \in Nat /\ asks' \in 0..MaxAsks
      BY <1>0, <1>2 DEF Delay, Asks
    <2> QED BY <2>1, <2>2, <2>3, <2>4 DEF Slots, RateTypeOK, CallerStates
  <1>3. ASSUME NEW c \in Callers, Proceed(c) PROVE Slots'
    <2>1. caller[c].at \in Idle /\ Settles(c) /\ cooldown' = cooldown
      BY <1>3 DEF Proceed, Asks, Idle
    <2>2. gap' \in Nat /\ asks' \in 0..MaxAsks
      BY <1>0, <1>3 DEF Proceed, Asks
    <2> QED BY <2>1, <2>2, Settling DEF Slots, RateTypeOK, CallerStates
  <1>4. ASSUME NEW c \in Callers, WakeUp(c) PROVE Slots'
    <2>1. caller[c].at \in Idle /\ Settles(c) /\ UNCHANGED <<cooldown, gap, asks>>
      BY <1>4 DEF WakeUp, Idle
    <2> QED BY <2>1, Settling DEF Slots, RateTypeOK, CallerStates
  <1>5. ASSUME NEW c \in Callers, Resume(c) PROVE Slots'
    <2>1. caller[c].at = "woken" /\ TakesSlot(c) /\ UNCHANGED <<cooldown, gap, window, asks>>
      BY <1>5 DEF Resume
    <2> QED BY <2>1, TakingSlot DEF Slots, RateTypeOK, CallerStates
  <1>6. ASSUME NEW c \in Callers, Answer(c) PROVE Slots'
    <2>1. Gone \in CallerStates /\ Gone.at \in Idle
      BY <1>0 DEF Gone, CallerStates, Idle
    <2> QED BY <1>6, <2>1, Answering DEF Answer
  <1>7. ASSUME NEW c \in Callers, Answer429(c) PROVE Slots'
    <2>1. [caller[c] EXCEPT !.at = "throttled"] \in CallerStates
      BY <1>0 DEF CallerStates
    <2>2. [caller[c] EXCEPT !.at = "throttled"].at \in Idle
      BY <1>0 DEF CallerStates, Idle
    <2> QED BY <1>7, <2>1, <2>2, Answering DEF Answer429
  <1>8. ASSUME NEW c \in Callers, Throttle(c) PROVE Slots'
    <2>1. /\ caller[c].at = "throttled" /\ caller' = [caller EXCEPT ![c] = Gone]
          /\ UNCHANGED <<gap, window, active, waiters, asks>>
      BY <1>8 DEF Throttle
    <2>2. caller' \in [Callers -> CallerStates] /\ Turned(c, "gone")
      BY <1>0, <2>1 DEF CallerStates, Turned, Gone
    <2>3. Queue' /\ NoSlotIsLost'
      BY <2>1, <2>2, IdleTurn DEF Idle
    <2>4. cooldown' \in 0..MaxCooldown
      <3>1. caller[c].age \in Nat
        BY <1>0 DEF CallerStates
      <3>2. PICK retryAfter \in 1..MaxCooldown :
              cooldown' = IF retryAfter - caller[c].age > cooldown
                          THEN retryAfter - caller[c].age ELSE cooldown
        BY <1>8 DEF Throttle
      <3> QED BY <1>0, <3>1, <3>2
    <2> QED BY <2>1, <2>2, <2>3, <2>4 DEF Slots, RateTypeOK, CallerStates
  <1>9. CASE UNCHANGED rateVars
    BY <1>9 DEF rateVars, Slots, RateTypeOK, Queue, NoSlotIsLost, Those
  <1> QED
    BY <1>1, <1>2, <1>3, <1>4, <1>5, <1>6, <1>7, <1>8, <1>9, SlotsTick DEF RateNext, CallerStep

(***************************************************************************)
(* The limiter's variables have their type: no window counts more than its *)
(* limit, no cooldown is longer than its clamp.                            *)
(***************************************************************************)
THEOREM RateTypeCorrect == RateSpec => []RateTypeOK
  <1>1. Slots => RateTypeOK
    BY DEF Slots
  <1> QED BY <1>1, SlotsInit, SlotsNext, PTL DEF RateSpec

(***************************************************************************)
(* No slot of reserveConcurrencySlot is lost or given out twice, however   *)
(* releases, woken waiters and new requests interleave.                    *)
(***************************************************************************)
THEOREM SlotsAreKept == RateSpec => []NoSlotIsLost
  <1>1. Slots => NoSlotIsLost
    BY DEF Slots
  <1> QED BY <1>1, SlotsInit, SlotsNext, PTL DEF RateSpec

-----------------------------------------------------------------------------
(* CompatRefresh: its types, and a binding given while no refresh has read *)
(* the game is kept, whatever the list reports, pushes overwrite and       *)
(* refreshes crash on.                                                     *)

Listed == Statuses \union {NoStatus}
\* A bound row names an entry.
SoundRows == {w \in Rows : w.bound => w.source \in Entries}
Refreshing ==
    [at : {"idle", "load", "status", "patch"}, list : [Entries -> Listed],
     row : SoundRows, shown : Listed, status : Listed]

CompatTyped ==
    /\ list \in [Entries -> Listed] /\ row \in SoundRows /\ shown \in Listed
    /\ refresher \in [Refreshers -> Refreshing]
    /\ command \in Listed /\ wanted \in Entries \union {NoEntry}
    /\ overlaps \in 0..commands
    /\ reports \in 0..MaxReports /\ commands \in 0..MaxCommands /\ snags \in 0..MaxSnags

\* A refresh that has read the game and not yet written its row has read the binding.
ReadersKnow ==
    \A r \in Refreshers :
        refresher[r].at = "status" => refresher[r].row.bound /\ refresher[r].row.source = wanted

Bound ==
    /\ CompatTyped
    /\ wanted # NoEntry /\ overlaps = 0 => row.bound /\ row.source = wanted /\ ReadersKnow

LEMMA AsleepIsOne == Asleep \in Refreshing /\ NoRow \in SoundRows /\ Asleep.at = "idle"
  BY DEF Asleep, Refreshing, NoRow, SoundRows, Rows, Listed

LEMMA BoundInit == CompatInit => Bound
  <1> SUFFICES ASSUME CompatInit PROVE Bound
    OBVIOUS
  <1>1. refresher \in [Refreshers -> Refreshing] /\ row \in SoundRows
    BY AsleepIsOne DEF CompatInit
  <1> QED BY <1>1, CompatAssumption DEF CompatInit, Bound, CompatTyped, Refreshing, Listed

\* A refresh that moves on, and neither reads nor writes the row, keeps the binding.
LEMMA MovingOn ==
    ASSUME Bound, NEW r \in Refreshers, NEW f \in Refreshing, Moves(r, f), f.at # "status",
           UNCHANGED <<row, wanted, overlaps, commands>>,
           list' \in [Entries -> Listed], shown' \in Listed, command' \in Listed,
           reports' \in 0..MaxReports, snags' \in 0..MaxSnags
    PROVE  Bound'
  <1>1. refresher' = [refresher EXCEPT ![r] = f] /\ refresher \in [Refreshers -> Refreshing]
    BY DEF Moves, Bound, CompatTyped, Refreshing, Listed
  <1>2. refresher' \in [Refreshers -> Refreshing]
    BY <1>1
  <1>3. CompatTyped'
    BY <1>2 DEF Bound, CompatTyped, Refreshing, Listed
  <1>4. ReadersKnow => ReadersKnow'
    BY <1>1 DEF ReadersKnow
  <1> QED BY <1>3, <1>4 DEF Bound

\* A step that moves no refresh and leaves the row and the commands alone.
LEMMA StandingBy ==
    ASSUME Bound, UNCHANGED <<row, refresher, wanted, overlaps, commands>>,
           list' \in [Entries -> Listed], shown' \in Listed, command' \in Listed,
           reports' \in 0..MaxReports, snags' \in 0..MaxSnags
    PROVE  Bound'
  <1>1. CompatTyped'
    BY DEF Bound, CompatTyped, Listed
  <1> QED BY <1>1 DEF Bound, ReadersKnow

LEMMA LoadKeeps ==
    ASSUME Bound, NEW r \in Refreshers, LoadGame(r)
    PROVE  Bound'
  <1> DEFINE f == [refresher[r] EXCEPT !.at = "status", !.row = row, !.shown = shown]
  <1>1. refresher \in [Refreshers -> Refreshing] /\ row \in SoundRows /\ shown \in Listed
    BY DEF Bound, CompatTyped, Refreshing, Listed
  <1>2. f \in Refreshing /\ f.row = row
    BY <1>1 DEF Refreshing
  <1>3. refresher' = [refresher EXCEPT ![r] = f]
        /\ UNCHANGED <<list, row, shown, command, wanted, overlaps, commands, reports, snags>>
    BY DEF LoadGame, Moves, asked
  <1> HIDE DEF f
  <1>4. CompatTyped'
    <2>1. refresher' \in [Refreshers -> Refreshing]
      BY <1>1, <1>2, <1>3
    <2> QED BY <1>3, <2>1 DEF Bound, CompatTyped, Refreshing, Listed
  <1>5. ReadersKnow /\ row.bound /\ row.source = wanted => ReadersKnow'
    BY <1>1, <1>2, <1>3 DEF ReadersKnow
  <1> QED BY <1>3, <1>4, <1>5 DEF Bound

LEMMA WriteKeeps ==
    ASSUME Bound, NEW r \in Refreshers, WriteStatus(r)
    PROVE  Bound'
  <1> DEFINE f == refresher[r]
             e == Follows(f)
             g == [f EXCEPT !.at = "patch", !.status = f.list[e]]
  <1>1. /\ refresher \in [Refreshers -> Refreshing] /\ row \in SoundRows
        /\ f \in Refreshing /\ f.row \in SoundRows /\ f.list \in [Entries -> Listed]
    BY DEF Bound, CompatTyped, Refreshing, Listed
  <1>2. /\ f.at = "status" /\ f.list[e] # NoStatus
        /\ row' = IF f.row.bound \/ ~row.bound
                  THEN [row EXCEPT !.status = f.list[e], !.source = e] ELSE row
        /\ refresher' = [refresher EXCEPT ![r] = g]
        /\ UNCHANGED <<list, shown, command, wanted, overlaps, commands, reports, snags>>
    BY DEF WriteStatus, Follow, Moves, asked
  <1>3. e = IF f.row.bound THEN f.row.source ELSE Matched
    BY DEF Follows
  <1> HIDE DEF e
  <1>4. e \in Entries
    BY <1>1, <1>3, CompatAssumption DEF SoundRows, Rows
  <1>5. f.list[e] \in Listed /\ g \in Refreshing /\ g.at = "patch"
    <2>1. f.list[e] \in Listed
      BY <1>1, <1>4
    <2> HIDE DEF f
    <2> QED BY <1>1, <2>1 DEF Refreshing
  <1> HIDE DEF f, g
  <1>6. row' \in SoundRows /\ row'.bound = row.bound
    BY <1>1, <1>2, <1>4, <1>5 DEF SoundRows, Rows, Listed
  <1>7. CompatTyped'
    <2>1. refresher' \in [Refreshers -> Refreshing]
      BY <1>1, <1>2, <1>5
    <2> QED BY <1>2, <1>6, <2>1 DEF Bound, CompatTyped, Refreshing, Listed
  <1>8. ASSUME wanted' # NoEntry, overlaps' = 0
        PROVE  row'.bound /\ row'.source = wanted' /\ ReadersKnow'
    <2>1. row.bound /\ row.source = wanted /\ ReadersKnow
      BY <1>2, <1>8 DEF Bound
    <2>2. f.row.bound /\ f.row.source = wanted
      BY <1>2, <2>1 DEF ReadersKnow, f
    <2>3. row'.bound /\ row'.source = wanted
      BY <1>1, <1>2, <1>3, <1>6, <2>1, <2>2 DEF SoundRows, Rows
    <2>4. ReadersKnow'
      BY <1>1, <1>2, <1>5, <2>1 DEF ReadersKnow
    <2> QED BY <1>2, <2>3, <2>4
  <1> QED BY <1>7, <1>8 DEF Bound

LEMMA RefreshKeeps ==
    ASSUME Bound, NEW r \in Refreshers, RefreshStep(r) \/ RefreshFails(r)
    PROVE  Bound'
  <1>0. /\ refresher \in [Refreshers -> Refreshing] /\ refresher[r] \in Refreshing
        /\ list \in [Entries -> Listed] /\ shown \in Listed /\ command \in Listed
        /\ reports \in 0..MaxReports /\ snags \in 0..MaxSnags /\ MaxSnags \in Nat
    BY CompatAssumption DEF Bound, CompatTyped, Refreshing, Listed
  <1>1. CASE FetchList(r)
    <2>1. [Asleep EXCEPT !.at = "load", !.list = list] \in Refreshing
      BY <1>0, AsleepIsOne DEF Refreshing
    <2>2. [Asleep EXCEPT !.at = "load", !.list = list].at # "status"
      BY AsleepIsOne DEF Refreshing
    <2> QED BY <1>0, <1>1, <2>1, <2>2, MovingOn DEF FetchList, asked
  <1>2. CASE LoadGame(r)  BY <1>2, LoadKeeps
  <1>3. CASE WriteStatus(r)  BY <1>3, WriteKeeps
  <1>4. CASE Backfill(r)
    <2> DEFINE g == [refresher[r] EXCEPT !.at = "patch", !.status = refresher[r].row.status]
    <2>1. g \in Refreshing /\ g.at # "status"
      BY <1>0 DEF Refreshing, SoundRows, Rows, Listed
    <2>2. Moves(r, g) \/ Moves(r, Asleep)
      BY <1>4 DEF Backfill
    <2>3. UNCHANGED <<list, row, shown, command, wanted, overlaps, commands, reports, snags>>
      BY <1>4 DEF Backfill, asked
    <2> HIDE DEF g
    <2> QED BY <1>0, <2>1, <2>2, <2>3, AsleepIsOne, MovingOn
  <1>5. CASE PatchShown(r)
    <2>1. shown' \in Listed /\ Moves(r, Asleep)
          /\ UNCHANGED <<list, row, command, wanted, overlaps, commands, reports, snags>>
      BY <1>0, <1>5 DEF PatchShown, asked, Refreshing
    <2> QED BY <1>0, <2>1, AsleepIsOne, MovingOn
  <1>6. CASE RefreshFails(r)
    <2>1. snags' \in 0..MaxSnags /\ Moves(r, Asleep)
          /\ UNCHANGED <<list, row, shown, command, wanted, overlaps, commands, reports>>
      BY <1>0, <1>6 DEF RefreshFails, asked
    <2> QED BY <1>0, <2>1, AsleepIsOne, MovingOn
  <1> QED BY <1>1, <1>2, <1>3, <1>4, <1>5, <1>6 DEF RefreshStep

LEMMA BindKeeps ==
    ASSUME Bound, NEW e \in Entries, Bind(e)
    PROVE  Bound'
  <1>0. /\ refresher \in [Refreshers -> Refreshing] /\ list \in [Entries -> Listed]
        /\ overlaps \in 0..commands /\ commands \in 0..MaxCommands /\ MaxCommands \in Nat
    BY CompatAssumption DEF Bound, CompatTyped, Refreshing, Listed
  <1>1. /\ row' = [source |-> e, status |-> list[e], bound |-> TRUE]
        /\ command' = list[e] /\ wanted' = e /\ commands' = commands + 1
        /\ overlaps' = IF \E r \in Refreshers : refresher[r].at \in {"status", "patch"}
                       THEN overlaps + 1 ELSE overlaps
        /\ commands < MaxCommands
        /\ UNCHANGED <<list, shown, refresher, reports, snags>>
    BY DEF Bind
  <1>2. row' \in SoundRows /\ command' \in Listed /\ row'.bound /\ row'.source = wanted'
    BY <1>0, <1>1 DEF SoundRows, Rows, Listed
  <1>3. commands' \in 0..MaxCommands /\ overlaps' \in 0..commands'
    BY <1>0, <1>1
  <1>4. CompatTyped'
    BY <1>0, <1>1, <1>2, <1>3 DEF Bound, CompatTyped, Listed
  <1>5. overlaps' = 0 => ReadersKnow'
    BY <1>0, <1>1 DEF ReadersKnow
  <1> QED BY <1>2, <1>4, <1>5 DEF Bound

LEMMA BoundNext == Bound /\ [CompatNext]_compatVars => Bound'
  <1> SUFFICES ASSUME Bound, [CompatNext]_compatVars PROVE Bound'
    OBVIOUS
  <1>0. /\ list \in [Entries -> Listed] /\ shown \in Listed /\ command \in Listed
        /\ reports \in 0..MaxReports /\ snags \in 0..MaxSnags /\ commands \in 0..MaxCommands
        /\ {MaxReports, MaxSnags, MaxCommands} \subseteq Nat
    BY CompatAssumption DEF Bound, CompatTyped, Listed
  <1>1. ASSUME NEW e \in Entries, Bind(e) PROVE Bound'
    BY <1>1, BindKeeps
  <1>2. ASSUME NEW e \in Entries, NEW s \in Listed, Report(e, s) PROVE Bound'
    <2>1. list' \in [Entries -> Listed] /\ reports' \in 0..MaxReports
      BY <1>0, <1>2 DEF Report
    <2> QED BY <1>0, <1>2, <2>1, StandingBy DEF Report, asked
  <1>3. ASSUME NEW s \in Statuses, PushShown(s) PROVE Bound'
    <2>1. shown' \in Listed /\ snags' \in 0..MaxSnags
      BY <1>0, <1>3 DEF PushShown, Listed
    <2> QED BY <1>0, <1>3, <2>1, StandingBy DEF PushShown, asked
  <1>4. ASSUME NEW r \in Refreshers, RefreshStep(r) \/ RefreshFails(r) PROVE Bound'
    BY <1>4, RefreshKeeps
  <1>5. CASE BindPatches
    <2>1. shown' \in Listed /\ command' \in Listed
          /\ UNCHANGED <<list, row, refresher, wanted, overlaps, reports, commands, snags>>
      BY <1>0, <1>5 DEF BindPatches, Listed
    <2> QED BY <1>0, <2>1, StandingBy
  <1>6. CASE Clear
    <2>1. /\ row' = [row EXCEPT !.bound = FALSE] /\ wanted' = NoEntry
          /\ commands' = commands + 1 /\ commands < MaxCommands
          /\ UNCHANGED <<list, shown, refresher, command, overlaps, reports, snags>>
      BY <1>6 DEF Clear
    <2>2. row' \in SoundRows
      BY <2>1 DEF Bound, CompatTyped, SoundRows, Rows
    <2>3. CompatTyped'
      BY <1>0, <2>1, <2>2 DEF Bound, CompatTyped, Listed
    <2> QED BY <2>1, <2>3 DEF Bound
  <1>7. CASE UNCHANGED compatVars
    <2>1. UNCHANGED <<list, row, shown, refresher, command, wanted, overlaps, reports, commands, snags>>
      BY <1>7 DEF compatVars
    <2> QED BY <1>0, <2>1, StandingBy
  <1> QED BY <1>1, <1>2, <1>3, <1>4, <1>5, <1>6, <1>7 DEF CompatNext, Listed

(***************************************************************************)
(* The variables have their type; in particular a refresh never stores an  *)
(* entry or a status that is not one.                                      *)
(***************************************************************************)
THEOREM CompatTypeCorrect == CompatSpec => []CompatTypeOK
  <1>1. Refreshing \subseteq [at : {"idle", "load", "status", "patch"}, list : [Entries -> Listed],
                              row : Rows, shown : Listed, status : Listed]
    BY DEF Refreshing, SoundRows
  <1>2. Bound => CompatTypeOK
    BY <1>1 DEF Bound, CompatTyped, CompatTypeOK, Listed, SoundRows
  <1> QED BY <1>2, BoundInit, BoundNext, PTL DEF CompatSpec

(***************************************************************************)
(* A game stays bound to the entry the administrator chose (compat:match   *)
(* set), unless the command overlapped a refresh that had read the game.   *)
(***************************************************************************)
THEOREM BindingsAreKept == CompatSpec => []BindingIsKept
  <1>1. Bound => BindingIsKept
    BY DEF Bound, BindingIsKept
  <1> QED BY <1>1, BoundInit, BoundNext, PTL DEF CompatSpec

-----------------------------------------------------------------------------
(* DiscoveryMatch: what the administrator typed.                           *)

EnricherRuns == [at : {"off", "listing", "rows"}, kind : {"run", "keys", "pool"},
         keys : SUBSET Games, batch : Seq(Games), seen : [Games -> Payloads]]
CommandCalls == [name : Commands \union {"none"}, game : Games, seen : Payloads]
EnrichJobs == [state : {"none", "pending", "running"}, keys : SUBSET Games,
               runners : SUBSET Enrichers]

LEMMA SmallPayloads ==
    /\ NoGame \in Payloads /\ Candidate \in Payloads /\ Owned \in Payloads
    /\ NoGame.due /\ NoRun \in EnricherRuns /\ NoJob \in EnrichJobs /\ NoCommand \in CommandCalls
<1>1. /\ NoGame \in Payloads /\ Candidate \in Payloads /\ Owned \in Payloads /\ NoGame.due
  <2>1. 0 \in 0..MaxAttempts
    BY DiscoveryAssumption DEF DiscoveryAssumption
  <2>2. NoGame \in Payloads /\ NoGame.due
    BY <2>1 DEF NoGame, Payloads
  <2> QED
    BY <2>2 DEF Candidate, Owned, Payloads
<1>2. NoRun \in EnricherRuns
  <2>1. <<>> \in Seq(Games) /\ [g \in Games |-> NoGame] \in [Games -> Payloads]
    BY <1>1
  <2> QED
    BY <2>1 DEF NoRun, EnricherRuns
<1>3. NoJob \in EnrichJobs
  BY DEF NoJob, EnrichJobs
<1>4. NoCommand \in CommandCalls
  <2>1. (CHOOSE g \in Games : TRUE) \in Games
    BY DiscoveryAssumption DEF DiscoveryAssumption
  <2> QED
    BY <1>1, <2>1 DEF NoCommand, CommandCalls
<1> QED
  BY <1>1, <1>2, <1>3, <1>4

LEMMA SetSizes ==
    ASSUME NEW S \in SUBSET Games
    PROVE  Cardinality(S) \in Nat
BY DiscoveryAssumption, FS_Subset, FS_CardinalityType DEF DiscoveryAssumption

\* No order lists a game twice.
Single(s) == \A i, j \in DOMAIN s : s[i] = s[j] => i = j

LEMMA EachOnce ==
    ASSUME NEW S \in SUBSET Games, NEW s \in [1..Cardinality(S) -> S],
           \A i, j \in DOMAIN s : i < j => s[i] # s[j]
    PROVE  /\ s \in Seq(Games) /\ Len(s) = Cardinality(S) /\ Single(s)
<1>1. Cardinality(S) \in Nat
  BY SetSizes
<1>2. s \in Seq(Games) /\ Len(s) = Cardinality(S) /\ DOMAIN s = 1..Cardinality(S)
  BY <1>1
<1>3. ASSUME NEW i \in DOMAIN s, NEW j \in DOMAIN s, s[i] = s[j] PROVE i = j
  <2>1. i < j \/ j < i \/ i = j
    BY <1>1, <1>2
  <2> QED
    BY <1>3, <2>1
<1> QED
  BY <1>2, <1>3 DEF Single

LEMMA TouchedTyped ==
    ASSUME NEW S, NEW s \in Touched(S)
    PROVE  s \in Seq(Games) /\ Len(s) = Cardinality(Games)
<1>1. s \in [1..Cardinality(Games) -> Games] /\ \A i, j \in DOMAIN s : i < j => s[i] # s[j]
  BY DEF Touched, Orders
<1> QED
  BY <1>1, EachOnce

LEMMA PrefixListed ==
    ASSUME NEW s \in Seq(Games), Single(s), NEW n \in 0..Len(s)
    PROVE  SubSeq(s, 1, n) \in Seq(Games) /\ Single(SubSeq(s, 1, n))
<1>1. Len(s) \in Nat /\ DOMAIN s = 1..Len(s)
  BY LenProperties
<1>2. /\ SubSeq(s, 1, n) \in Seq(Games) /\ Len(SubSeq(s, 1, n)) = n
      /\ \A i \in 1..n : SubSeq(s, 1, n)[i] = s[i]
  <2>1. \A i \in 1..n : s[i] \in Games
    BY <1>1
  <2> QED
    BY <1>1, <2>1, SubSeqProperties
<1>3. DOMAIN SubSeq(s, 1, n) = 1..n
  BY <1>1, <1>2, LenProperties
<1> QED
  BY <1>1, <1>2, <1>3 DEF Single

LEMMA SelectedListed ==
    ASSUME DiscoveryTypeOK, NEW e \in Enrichers, NEW batch \in Selected(e)
    PROVE  batch \in Seq(Games) /\ Single(batch)
<1>1. CASE enricher[e].kind = "keys"
  <2> DEFINE S == {g \in enricher[e].keys : IsDiscovery(g)}
  <2>1. S \in SUBSET Games
    BY DEF DiscoveryTypeOK
  <2>2. batch \in [1..Cardinality(S) -> S] /\ \A i, j \in DOMAIN batch : i < j => batch[i] # batch[j]
    BY <1>1 DEF Selected, Orders
  <2> HIDE DEF S
  <2> QED
    BY <2>1, <2>2, EachOnce
<1>2. CASE enricher[e].kind # "keys"
  <2> DEFINE S == {g \in Games : Wanted(g)}
  <2>1. S \in SUBSET Games
    OBVIOUS
  <2>2. PICK s : /\ s \in [1..Cardinality(S) -> S]
                 /\ \A i, j \in DOMAIN s : i < j => s[i] # s[j]
                 /\ batch = SubSeq(s, 1, IF Len(s) < Limit THEN Len(s) ELSE Limit)
    BY <1>2 DEF Selected, Orders
  <2> HIDE DEF S
  <2>3. s \in Seq(Games) /\ Single(s) /\ Len(s) \in Nat
    BY <2>1, <2>2, EachOnce, LenProperties
  <2>4. (IF Len(s) < Limit THEN Len(s) ELSE Limit) \in 0..Len(s)
    BY <2>3, DiscoveryAssumption DEF DiscoveryAssumption
  <2> QED
    BY <2>2, <2>3, <2>4, PrefixListed
<1> QED
  BY <1>1, <1>2

LEMMA RestListed ==
    ASSUME NEW s \in Seq(Games), s # <<>>
    PROVE  /\ Head(s) \in Games /\ Tail(s) \in Seq(Games)
           /\ \A i \in DOMAIN Tail(s) : \E j \in DOMAIN s : s[j] = Tail(s)[i]
           /\ Single(s) => Single(Tail(s)) /\ \A i \in DOMAIN Tail(s) : Tail(s)[i] # Head(s)
           /\ \E j \in DOMAIN s : s[j] = Head(s)
<1>1. Len(s) \in Nat \ {0} /\ DOMAIN s = 1..Len(s)
  BY LenProperties, EmptySeq
<1>2. /\ Head(s) = s[1] /\ Head(s) \in Games /\ Tail(s) \in Seq(Games)
      /\ Len(Tail(s)) = Len(s) - 1 /\ \A i \in 1..Len(Tail(s)) : Tail(s)[i] = s[i + 1]
  BY HeadTailProperties
<1>3. DOMAIN Tail(s) = 1..(Len(s) - 1)
  BY <1>2, LenProperties
<1>4. \A i \in DOMAIN Tail(s) : i + 1 \in DOMAIN s /\ i + 1 # 1 /\ Tail(s)[i] = s[i + 1]
  BY <1>1, <1>2, <1>3
<1>5. \A i, j \in DOMAIN Tail(s) : i + 1 = j + 1 => i = j
  BY <1>3
<1> QED
  BY <1>1, <1>2, <1>4, <1>5 DEF Single

LEMMA PayloadsKept ==
    ASSUME NEW p \in Payloads
    PROVE  /\ \A g : Rearmed(g, p) \in Payloads
           /\ Found(p) \in Payloads /\ Pooled(p) \in Payloads
           /\ Attempts(p) => Missed(p) \in Payloads
           /\ \A n \in Commands : Commanded(n, p) \in Payloads
           /\ [p EXCEPT !.due = TRUE] \in Payloads
<1>1. 0 \in 0..MaxAttempts /\ (p.tries < MaxAttempts => p.tries + 1 \in 0..MaxAttempts)
  BY DiscoveryAssumption DEF DiscoveryAssumption, Payloads
<1>2. /\ \A g : Rearmed(g, p) \in Payloads
      /\ Found(p) \in Payloads /\ Pooled(p) \in Payloads
      /\ [p EXCEPT !.due = TRUE] \in Payloads
  BY <1>1 DEF Rearmed, Found, Pooled, Payloads
<1>3. Attempts(p) => Missed(p) \in Payloads
  BY <1>1 DEF Attempts, Missed, Payloads
<1>4. \A n \in Commands : Commanded(n, p) \in Payloads
  BY <1>1 DEF Commands, Commanded, Payloads
<1> QED
  BY <1>2, <1>3, <1>4

\* A run at the row g has read it, and leaves it with a payload p.
LEMMA RowTyped ==
    ASSUME DiscoveryTypeOK, NEW e \in Enrichers, enricher[e].batch # <<>>,
           NEW g, g = Head(enricher[e].batch)
    PROVE  /\ g \in Games /\ enricher[e].seen[g] \in Payloads
           /\ RowDone(e, g) => enricher' \in [Enrichers -> EnricherRuns]
           /\ \A p \in Payloads :
                 Replace(g, p) => /\ games' \in [Games -> Payloads]
                                  /\ byAge' \in Seq(Games) /\ Len(byAge') = Cardinality(Games)
<1>1. enricher[e] \in EnricherRuns
  BY DEF DiscoveryTypeOK, EnricherRuns
<1>2. enricher[e].batch \in Seq(Games) /\ enricher[e].seen \in [Games -> Payloads]
  BY <1>1 DEF EnricherRuns
<1>3. g \in Games /\ Tail(enricher[e].batch) \in Seq(Games)
  BY <1>2, RestListed
<1>4. RowDone(e, g) => enricher' \in [Enrichers -> EnricherRuns]
  <2> DEFINE r == [enricher[e] EXCEPT !.batch = Tail(@), !.seen[g] = NoGame]
  <2>1. [enricher[e].seen EXCEPT ![g] = NoGame] \in [Games -> Payloads]
    BY <1>2, SmallPayloads
  <2>2. r \in EnricherRuns
    BY <1>1, <1>3, <2>1 DEF EnricherRuns
  <2>3. RowDone(e, g) => enricher' = [enricher EXCEPT ![e] = r]
    BY DEF RowDone, Goes
  <2> HIDE DEF r
  <2> QED
    BY <2>2, <2>3, ZenonT(30) DEF DiscoveryTypeOK, EnricherRuns
<1>5. ASSUME NEW p \in Payloads, Replace(g, p)
      PROVE  /\ games' \in [Games -> Payloads]
             /\ byAge' \in Seq(Games) /\ Len(byAge') = Cardinality(Games)
  BY <1>3, <1>5, TouchedTyped DEF Replace, DiscoveryTypeOK
<1> QED
  BY <1>2, <1>3, <1>4, <1>5

\* What a run does to its row: a payload made of the one it has read.
LEMMA RowWritten ==
    ASSUME DiscoveryTypeOK, NEW e \in Enrichers,
           Enrich(e) \/ EnrichErrs(e) \/ EnrichOthers(e)
    PROVE  /\ enricher[e].batch # <<>>
           /\ UNCHANGED <<enrichJob, clerk, typed, calls>>
           /\ RowDone(e, Head(enricher[e].batch))
           /\ faults' \in 0..MaxFaults
           /\ \E p \in Payloads :
                 /\ \/ UNCHANGED <<games, byAge>>
                    \/ Replace(Head(enricher[e].batch), p)
                 /\ enricher[e].seen[Head(enricher[e].batch)].hours # "none"
                      => /\ p.hours = enricher[e].seen[Head(enricher[e].batch)].hours
                         /\ p.locked = enricher[e].seen[Head(enricher[e].batch)].locked
<1>1. enricher[e].batch # <<>>
  BY DEF Enrich, EnrichErrs, EnrichOthers
<1> DEFINE g == Head(enricher[e].batch)
           q == enricher[e].seen[g]
           p == Rearmed(g, q)
<1>2. g \in Games /\ q \in Payloads
  BY <1>1, RowTyped
<1>3. p \in Payloads /\ p.hours = q.hours /\ p.locked = q.locked
  BY <1>2, PayloadsKept DEF Rearmed, Payloads
<1>4. Attempts(p) => Found(p) \in Payloads /\ Missed(p) \in Payloads /\ p.hours = "none"
  BY <1>3, PayloadsKept DEF Attempts
<1>5. faults' \in 0..MaxFaults
  BY DiscoveryAssumption DEF Enrich, EnrichErrs, EnrichOthers, Faulty, DiscoveryTypeOK,
     DiscoveryAssumption
<1>6. \/ \E x \in {p} : Enriched(e, x)
      \/ Attempts(p) /\ \E x \in {Found(p), Missed(p)} : Enriched(e, x)
      \/ Replace(g, p) /\ RowDone(e, g) /\ UNCHANGED <<enrichJob, clerk, typed, calls>>
  BY DEF Enrich, EnrichErrs, EnrichOthers
<1>7. ASSUME NEW x, Enriched(e, x)
      PROVE  /\ UNCHANGED <<games, byAge>> \/ Replace(g, x)
             /\ RowDone(e, g) /\ UNCHANGED <<enrichJob, clerk, typed, calls>>
  BY <1>7 DEF Enriched
<1> HIDE DEF g, p, q
<1>8. /\ RowDone(e, g) /\ UNCHANGED <<enrichJob, clerk, typed, calls>>
      /\ \E x \in Payloads : /\ UNCHANGED <<games, byAge>> \/ Replace(g, x)
                             /\ q.hours # "none" => x.hours = q.hours /\ x.locked = q.locked
  <2>1. CASE \E x \in {p} : Enriched(e, x)
    BY <1>3, <1>7, <2>1
  <2>2. CASE Attempts(p) /\ \E x \in {Found(p), Missed(p)} : Enriched(e, x)
    BY <1>3, <1>4, <1>7, <2>2
  <2>3. CASE Replace(g, p) /\ RowDone(e, g) /\ UNCHANGED <<enrichJob, clerk, typed, calls>>
    BY <1>3, <2>3
  <2> QED
    BY <1>6, <2>1, <2>2, <2>3
<1> QED
  BY <1>1, <1>5, <1>8 DEF g, q

LEMMA DiscoveryTypedInit == DiscoveryInit => DiscoveryTypeOK
<1> SUFFICES ASSUME DiscoveryInit PROVE DiscoveryTypeOK
  OBVIOUS
<1>1. games \in [Games -> Payloads]
  BY SmallPayloads DEF DiscoveryInit
<1>2. byAge \in Seq(Games) /\ Len(byAge) = Cardinality(Games)
  BY SetSizes DEF DiscoveryInit
<1>3. enricher \in [Enrichers -> EnricherRuns] /\ clerk \in [Clerks -> CommandCalls]
      /\ enrichJob \in EnrichJobs /\ typed \in [Games -> {"no", "kept", "pooled"}]
  BY SmallPayloads DEF DiscoveryInit
<1>4. calls \in 0..MaxCalls /\ faults \in 0..MaxFaults
  BY DiscoveryAssumption DEF DiscoveryInit, DiscoveryAssumption
<1> QED
  BY <1>1, <1>2, <1>3, <1>4 DEF DiscoveryTypeOK, EnricherRuns, CommandCalls, EnrichJobs

LEMMA DueAlready == [NoGame EXCEPT !.due = TRUE] = NoGame
<1>1. NoGame \in Payloads /\ NoGame.due = TRUE
  BY SmallPayloads DEF NoGame
<1>2. [NoGame EXCEPT !.due = NoGame.due] = NoGame
  BY <1>1 DEF Payloads
<1> QED
  BY <1>1, <1>2

\* A request that has read a game has one of the commands to carry out.
Commanding == \A c \in Clerks : clerk[c] # NoCommand => clerk[c].name \in Commands

LEMMA CommandingNext ==
    DiscoveryTypeOK /\ Commanding /\ [DiscoveryNext]_discoveryVars => Commanding'
<1> SUFFICES ASSUME DiscoveryTypeOK, Commanding, [DiscoveryNext]_discoveryVars,
                    NEW d \in Clerks, clerk'[d] # NoCommand
             PROVE  clerk'[d].name \in Commands
  BY DEF Commanding
<1> clerk \in [Clerks -> CommandCalls]
  BY DEF DiscoveryTypeOK, CommandCalls
<1>1. ASSUME NEW g \in Games, NEW missed \in BOOLEAN, Elapse(g, missed)
      PROVE  clerk'[d].name \in Commands
  <2> DEFINE Ripe(p) == IF (p.tries = MaxAttempts) = missed THEN [p EXCEPT !.due = TRUE] ELSE p
  <2>0. clerk' = [c \in Clerks |-> IF clerk[c].game = g
                                   THEN [clerk[c] EXCEPT !.seen = Ripe(@)] ELSE clerk[c]]
    BY <1>1 DEF Elapse
  <2>1. clerk'[d] = clerk[d] \/ clerk'[d] = [clerk[d] EXCEPT !.seen = Ripe(@)]
    <3> HIDE DEF Ripe
    <3> QED
      BY <2>0
  <2>2. CASE clerk[d] = NoCommand
    <3>1. Ripe(NoGame) = NoGame
      BY DueAlready
    <3>2. [NoCommand EXCEPT !.seen = NoCommand.seen] = NoCommand
      <4>1. NoCommand \in CommandCalls
        BY SmallPayloads
      <4> HIDE DEF Ripe
      <4> QED
        BY <4>1 DEF CommandCalls
    <3>3. NoCommand.seen = NoGame
      BY DEF NoCommand
    <3> HIDE DEF Ripe
    <3> QED
      BY <2>1, <2>2, <3>1, <3>2, <3>3
  <2>3. CASE clerk[d] # NoCommand
    <3>1. clerk[d].name \in Commands /\ clerk[d] \in CommandCalls
      BY <2>3 DEF Commanding
    <3>2. [clerk[d] EXCEPT !.seen = Ripe(@)].name = clerk[d].name
      BY <3>1 DEF CommandCalls
    <3> QED
      BY <2>1, <3>1, <3>2
  <2> QED
    BY <2>2, <2>3
<1>2. ASSUME NEW c \in Clerks, Command(c) PROVE clerk'[d].name \in Commands
  BY <1>2 DEF Command, Commanding
<1>3. ASSUME NEW c \in Clerks, NEW n \in Commands, NEW g \in Games, ReadForCommand(c, n, g)
      PROVE  clerk'[d].name \in Commands
  BY <1>3 DEF ReadForCommand, Commanding
<1>4. CASE clerk' = clerk
  BY <1>4 DEF Commanding
<1>5. clerk' = clerk
      \/ (\E g \in Games : \E missed \in BOOLEAN : Elapse(g, missed))
      \/ (\E c \in Clerks : Command(c) \/ \E n \in Commands, g \in Games : ReadForCommand(c, n, g))
  BY DEF DiscoveryNext, discoveryVars, EnqueueRun, RunOrphaned, RunTimesOut, EnqueueKeys,
     RefreshPool, StartRun, RunStep, ListRows, Enrich, EnrichErrs, EnrichOthers, Enriched, EndRun,
     RunDies, AddToLibrary
<1> QED
  BY <1>1, <1>2, <1>3, <1>4, <1>5

LEMMA DiscoveryTypedNext ==
    DiscoveryTypeOK /\ Commanding /\ [DiscoveryNext]_discoveryVars => DiscoveryTypeOK'
<1> SUFFICES ASSUME DiscoveryTypeOK, Commanding, [DiscoveryNext]_discoveryVars
             PROVE  DiscoveryTypeOK'
  OBVIOUS
<1>0. /\ games \in [Games -> Payloads] /\ enrichJob \in EnrichJobs
      /\ enricher \in [Enrichers -> EnricherRuns] /\ clerk \in [Clerks -> CommandCalls]
      /\ MaxCalls \in Nat /\ MaxFaults \in Nat
      /\ calls \in 0..MaxCalls /\ faults \in 0..MaxFaults
  BY DiscoveryAssumption DEF DiscoveryTypeOK, EnrichJobs, EnricherRuns, CommandCalls, DiscoveryAssumption
<1>1. CASE \/ EnqueueRun \/ RunOrphaned \/ RunTimesOut \/ \E S \in SUBSET Games : EnqueueKeys(S)
  <2>1. enrichJob' \in EnrichJobs
    BY <1>0, <1>1, SmallPayloads DEF EnqueueRun, RunOrphaned, RunTimesOut, EnqueueKeys, EnrichJobs,
        NoJob
  <2>2. /\ calls' = calls \/ (calls < MaxCalls /\ calls' = calls + 1)
        /\ faults' = faults \/ (faults < MaxFaults /\ faults' = faults + 1)
    BY <1>1 DEF EnqueueRun, RunOrphaned, RunTimesOut, EnqueueKeys, Called, Faulty
  <2>3. calls' \in 0..MaxCalls /\ faults' \in 0..MaxFaults
    BY <1>0, <2>2
  <2> QED
    BY <1>1, <2>1, <2>3 DEF EnqueueRun, RunOrphaned, RunTimesOut, EnqueueKeys, EnrichJobs,
        DiscoveryTypeOK
<1>2. ASSUME NEW e \in Enrichers, StartRun(e) PROVE DiscoveryTypeOK'
  <2>1. /\ enrichJob' = [enrichJob EXCEPT !.state = "running", !.runners = @ \union {e}]
        /\ enricher' = [enricher EXCEPT ![e] =
              [NoRun EXCEPT !.at = "listing", !.keys = enrichJob.keys,
                            !.kind = IF enrichJob.keys = {} THEN "run" ELSE "keys"]]
    BY <1>2 DEF StartRun, Goes
  <2>2. enrichJob' \in EnrichJobs
    BY <1>0, <2>1 DEF EnrichJobs
  <2>3. enricher' \in [Enrichers -> EnricherRuns]
    BY <1>0, <2>1, SmallPayloads DEF EnrichJobs, EnricherRuns
  <2> QED
    BY <1>2, <2>2, <2>3 DEF StartRun, EnrichJobs, EnricherRuns, DiscoveryTypeOK
<1>3. ASSUME NEW e \in Enrichers, ListRows(e) PROVE DiscoveryTypeOK'
  <2>1. PICK batch \in IF enricher[e].kind = "run" /\ RunInProgress THEN {<<>>} ELSE Selected(e) :
           LET Read(g) == \E i \in DOMAIN batch : batch[i] = g IN
           Goes(e, [enricher[e] EXCEPT !.at = "rows", !.batch = batch, !.keys = {},
                      !.seen = [g \in Games |-> IF Read(g) THEN games[g] ELSE NoGame]])
    BY <1>3 DEF ListRows
  <2>2. batch \in Seq(Games)
    <3>1. CASE enricher[e].kind = "run" /\ RunInProgress
      BY <3>1
    <3>2. CASE ~(enricher[e].kind = "run" /\ RunInProgress)
      BY <3>2, SelectedListed
    <3> QED
      BY <3>1, <3>2
  <2>3. enricher' \in [Enrichers -> EnricherRuns]
    <3> DEFINE seen == [g \in Games |-> IF \E i \in DOMAIN batch : batch[i] = g
                                        THEN games[g] ELSE NoGame]
               r == [enricher[e] EXCEPT !.at = "rows", !.batch = batch, !.keys = {}, !.seen = seen]
    <3>1. seen \in [Games -> Payloads]
      BY <1>0, SmallPayloads
    <3>2. enricher' = [enricher EXCEPT ![e] = r]
      BY <2>1 DEF Goes
    <3> HIDE DEF seen
    <3>3. r \in EnricherRuns
      BY <1>0, <2>2, <3>1 DEF EnricherRuns
    <3> HIDE DEF r
    <3> QED
      BY <1>0, <3>2, <3>3
  <2> QED
    BY <1>3, <2>3 DEF ListRows, EnricherRuns, DiscoveryTypeOK
<1>4. ASSUME NEW e \in Enrichers, Enrich(e) \/ EnrichErrs(e) \/ EnrichOthers(e)
      PROVE  DiscoveryTypeOK'
  <2>1. /\ enricher[e].batch # <<>> /\ UNCHANGED <<enrichJob, clerk, typed, calls>>
        /\ RowDone(e, Head(enricher[e].batch)) /\ faults' \in 0..MaxFaults
    BY <1>4, RowWritten
  <2>2. PICK p \in Payloads : UNCHANGED <<games, byAge>> \/ Replace(Head(enricher[e].batch), p)
    BY <1>4, RowWritten
  <2>3. /\ games' \in [Games -> Payloads] /\ byAge' \in Seq(Games)
        /\ Len(byAge') = Cardinality(Games) /\ enricher' \in [Enrichers -> EnricherRuns]
    BY <2>1, <2>2, RowTyped DEF DiscoveryTypeOK
  <2> QED
    BY <2>1, <2>3 DEF EnricherRuns, DiscoveryTypeOK
<1>5. ASSUME NEW e \in Enrichers, EndRun(e) \/ RunDies(e) PROVE DiscoveryTypeOK'
  <2>1. enricher' \in [Enrichers -> EnricherRuns] /\ enrichJob' \in EnrichJobs
    BY <1>0, <1>5, SmallPayloads DEF EndRun, RunDies, Goes, EnrichJobs
  <2>2. faults' \in 0..MaxFaults
    BY <1>0, <1>5 DEF EndRun, RunDies, Faulty
  <2> QED
    BY <1>5, <2>1, <2>2 DEF EndRun, RunDies, EnricherRuns, EnrichJobs, DiscoveryTypeOK
<1>6. ASSUME NEW e \in Enrichers, NEW S \in SUBSET Games, RefreshPool(e, S) PROVE DiscoveryTypeOK'
  <2>1. \A g \in Games : games[g] \in Payloads /\ Pooled(games[g]) \in Payloads
    BY <1>0, PayloadsKept
  <2>2. games' \in [Games -> Payloads]
    BY <1>6, <2>1, SmallPayloads DEF RefreshPool
  <2>3. byAge' \in Seq(Games) /\ Len(byAge') = Cardinality(Games)
    BY <1>6, TouchedTyped DEF RefreshPool
  <2>4. enricher' \in [Enrichers -> EnricherRuns]
    BY <1>0, <1>6, SmallPayloads DEF RefreshPool, Goes, EnricherRuns
  <2>5. typed' \in [Games -> {"no", "kept", "pooled"}]
    <3>1. \A g \in Games : typed[g] \in {"no", "kept", "pooled"}
      BY DEF DiscoveryTypeOK
    <3> QED
      BY <1>6, <3>1 DEF RefreshPool
  <2>6. calls' \in 0..MaxCalls
    BY <1>0, <1>6 DEF RefreshPool, Called
  <2> QED
    BY <1>6, <2>2, <2>3, <2>4, <2>5, <2>6 DEF RefreshPool, EnricherRuns, DiscoveryTypeOK
<1>7. ASSUME NEW g \in Games, AddToLibrary(g) PROVE DiscoveryTypeOK'
  <2>1. games' \in [Games -> Payloads] /\ byAge' \in Seq(Games)
        /\ Len(byAge') = Cardinality(Games)
    BY <1>0, <1>7, SmallPayloads, TouchedTyped DEF AddToLibrary
  <2>2. calls' \in 0..MaxCalls
    BY <1>0, <1>7 DEF AddToLibrary, Called
  <2> QED
    BY <1>7, <2>1, <2>2 DEF AddToLibrary, DiscoveryTypeOK
<1>8. ASSUME NEW g \in Games, NEW missed \in BOOLEAN, Elapse(g, missed) PROVE DiscoveryTypeOK'
  <2> DEFINE Ripe(p) == IF (p.tries = MaxAttempts) = missed THEN [p EXCEPT !.due = TRUE] ELSE p
  <2>1. \A p \in Payloads : Ripe(p) \in Payloads
    BY PayloadsKept
  <2>2. /\ games' = [games EXCEPT ![g] = Ripe(@)]
        /\ enricher' = [e \in Enrichers |-> [enricher[e] EXCEPT !.seen[g] = Ripe(@)]]
        /\ clerk' = [c \in Clerks |-> IF clerk[c].game = g
                                      THEN [clerk[c] EXCEPT !.seen = Ripe(@)] ELSE clerk[c]]
    BY <1>8 DEF Elapse
  <2> HIDE DEF Ripe
  <2>3. games' \in [Games -> Payloads]
    BY <1>0, <2>1, <2>2
  <2>4. enricher' \in [Enrichers -> EnricherRuns]
    <3> SUFFICES ASSUME NEW e \in Enrichers
                 PROVE  [enricher[e] EXCEPT !.seen[g] = Ripe(@)] \in EnricherRuns
      BY <2>2
    <3>1. enricher[e] \in EnricherRuns /\ enricher[e].seen \in [Games -> Payloads]
      BY <1>0 DEF EnricherRuns
    <3>2. [enricher[e].seen EXCEPT ![g] = Ripe(@)] \in [Games -> Payloads]
      BY <2>1, <3>1
    <3> QED
      BY <3>1, <3>2 DEF EnricherRuns
  <2>5. clerk' \in [Clerks -> CommandCalls]
    BY <1>0, <2>1, <2>2 DEF CommandCalls
  <2> QED
    BY <1>8, <2>3, <2>4, <2>5 DEF Elapse, EnricherRuns, CommandCalls, DiscoveryTypeOK
<1>9. ASSUME NEW c \in Clerks, Command(c) PROVE DiscoveryTypeOK'
  <2> DEFINE k == clerk[c]
  <2>1. k \in CommandCalls /\ k.game \in Games /\ k.seen \in Payloads
    BY <1>0 DEF CommandCalls
  <2>2. games' \in [Games -> Payloads]
    <3>1. k.name \in Commands
      BY <1>9 DEF Command, Commanding
    <3>2. Commanded(k.name, k.seen) \in Payloads
      BY <2>1, <3>1, PayloadsKept
    <3> QED
      BY <1>0, <1>9, <2>1, <3>2 DEF Command
  <2>3. byAge' \in Seq(Games) /\ Len(byAge') = Cardinality(Games)
    BY <1>9, TouchedTyped DEF Command, DiscoveryTypeOK
  <2>4. clerk' \in [Clerks -> CommandCalls]
    BY <1>0, <1>9, SmallPayloads DEF Command
  <2>5. typed' \in [Games -> {"no", "kept", "pooled"}]
    BY <1>9, <2>1 DEF Command, DiscoveryTypeOK
  <2> QED
    BY <1>9, <2>2, <2>3, <2>4, <2>5 DEF Command, CommandCalls, DiscoveryTypeOK
<1>10. ASSUME NEW c \in Clerks, NEW n \in Commands, NEW g \in Games, ReadForCommand(c, n, g)
       PROVE  DiscoveryTypeOK'
  <2>1. clerk' \in [Clerks -> CommandCalls]
    BY <1>0, <1>10 DEF ReadForCommand, CommandCalls
  <2>2. calls' \in 0..MaxCalls
    BY <1>0, <1>10 DEF ReadForCommand, Called
  <2> QED
    BY <1>10, <2>1, <2>2 DEF ReadForCommand, CommandCalls, DiscoveryTypeOK
<1>11. CASE UNCHANGED discoveryVars
  BY <1>11 DEF discoveryVars, DiscoveryTypeOK
<1> QED
  BY <1>1, <1>2, <1>3, <1>4, <1>5, <1>6, <1>7, <1>8, <1>9, <1>10, <1>11
  DEF DiscoveryNext, RunStep

\* A payload that has what was typed for the game.
Keeps(g, p) == p.hours = "typed" /\ (typed[g] = "kept" => p.locked)
ReadBy(e, g) == \E i \in DOMAIN enricher[e].batch : enricher[e].batch[i] = g

(* Whoever has read a game for which hours were typed has read these:     *)
(* a run has it in its batch once, a request has yet to carry out its     *)
(* command.                                                                *)
HoursInv ==
    /\ \A e \in Enrichers : Single(enricher[e].batch)
    /\ \A g \in Games : typed[g] # "no" =>
         /\ Keeps(g, games[g])
         /\ \A e \in Enrichers : ReadBy(e, g) => Keeps(g, enricher[e].seen[g])
         /\ \A c \in Clerks : clerk[c] # NoCommand /\ clerk[c].game = g => Keeps(g, clerk[c].seen)

LEMMA HoursInit == DiscoveryInit => HoursInv
BY DEF DiscoveryInit, HoursInv, NoRun, Single

\* A run that holds no rows.
LEMMA RunAtRest ==
    ASSUME HoursInv, NEW e \in Enrichers, UNCHANGED <<games, clerk, typed>>,
           enricher \in [Enrichers -> EnricherRuns],
           \E r \in EnricherRuns : enricher' = [enricher EXCEPT ![e] = r] /\ r.batch = <<>>
    PROVE  HoursInv'
<1>1. PICK r \in EnricherRuns : enricher' = [enricher EXCEPT ![e] = r] /\ r.batch = <<>>
  OBVIOUS
<1>2. Single(<<>>)
  BY DEF Single
<1>3. \A f \in Enrichers : enricher'[f] = IF f = e THEN r ELSE enricher[f]
  BY <1>1
<1>4. \A f \in Enrichers : Single(enricher'[f].batch)
  BY <1>1, <1>2, <1>3 DEF HoursInv
<1>5. \A f \in Enrichers, g \in Games : ReadBy(f, g)' => ReadBy(f, g) /\ enricher'[f] = enricher[f]
  BY <1>1, <1>3 DEF ReadBy
<1> QED
  BY <1>4, <1>5 DEF HoursInv, Keeps

LEMMA HoursNext ==
    DiscoveryTypeOK /\ Commanding /\ HoursInv /\ [DiscoveryNext]_discoveryVars => HoursInv'
<1> SUFFICES ASSUME DiscoveryTypeOK, Commanding, HoursInv, [DiscoveryNext]_discoveryVars
             PROVE  HoursInv'
  OBVIOUS
<1>0. /\ games \in [Games -> Payloads] /\ enricher \in [Enrichers -> EnricherRuns]
      /\ clerk \in [Clerks -> CommandCalls] /\ typed \in [Games -> {"no", "kept", "pooled"}]
  BY DEF DiscoveryTypeOK, EnricherRuns, CommandCalls
<1>1. CASE \/ EnqueueRun \/ RunOrphaned \/ RunTimesOut \/ \E S \in SUBSET Games : EnqueueKeys(S)
           \/ UNCHANGED discoveryVars
  <2>1. UNCHANGED <<games, enricher, clerk, typed>>
    BY <1>1 DEF EnqueueRun, RunOrphaned, RunTimesOut, EnqueueKeys, discoveryVars
  <2> QED
    BY <2>1 DEF HoursInv, Keeps, ReadBy
<1>2. ASSUME NEW e \in Enrichers, StartRun(e) \/ EndRun(e) \/ RunDies(e) PROVE HoursInv'
  <2>1. UNCHANGED <<games, clerk, typed>>
    BY <1>2 DEF StartRun, EndRun, RunDies
  <2>2. \E r \in EnricherRuns : enricher' = [enricher EXCEPT ![e] = r] /\ r.batch = <<>>
    <3>1. CASE EndRun(e) \/ RunDies(e)
      <4>1. enricher' = [enricher EXCEPT ![e] = NoRun]
        BY <3>1 DEF EndRun, RunDies, Goes
      <4>2. NoRun \in EnricherRuns /\ NoRun.batch = <<>>
        BY SmallPayloads DEF NoRun
      <4> QED
        BY <4>1, <4>2
    <3>2. CASE StartRun(e)
      <4> DEFINE r == [NoRun EXCEPT !.at = "listing", !.keys = enrichJob.keys,
                                   !.kind = IF enrichJob.keys = {} THEN "run" ELSE "keys"]
      <4>1. enricher' = [enricher EXCEPT ![e] = r]
        BY <3>2 DEF StartRun, Goes
      <4>2. r \in EnricherRuns /\ r.batch = <<>>
        BY SmallPayloads DEF DiscoveryTypeOK, EnricherRuns, NoRun
      <4> QED
        BY <4>1, <4>2
    <3> QED
      BY <1>2, <3>1, <3>2
  <2> QED
    BY <1>0, <2>1, <2>2, RunAtRest
<1>3. ASSUME NEW e \in Enrichers, ListRows(e) PROVE HoursInv'
  <2>1. PICK batch \in IF enricher[e].kind = "run" /\ RunInProgress THEN {<<>>} ELSE Selected(e) :
           LET Read(g) == \E i \in DOMAIN batch : batch[i] = g IN
           Goes(e, [enricher[e] EXCEPT !.at = "rows", !.batch = batch, !.keys = {},
                      !.seen = [g \in Games |-> IF Read(g) THEN games[g] ELSE NoGame]])
    BY <1>3 DEF ListRows
  <2>2. Single(batch)
    <3>1. CASE enricher[e].kind = "run" /\ RunInProgress
      BY <2>1, <3>1 DEF Single
    <3>2. CASE ~(enricher[e].kind = "run" /\ RunInProgress)
      BY <3>2, SelectedListed
    <3> QED
      BY <3>1, <3>2
  <2> DEFINE seen == [g \in Games |-> IF \E i \in DOMAIN batch : batch[i] = g
                                      THEN games[g] ELSE NoGame]
             r == [enricher[e] EXCEPT !.at = "rows", !.batch = batch, !.keys = {}, !.seen = seen]
  <2>3. enricher' = [enricher EXCEPT ![e] = r]
    BY <2>1 DEF Goes
  <2>4. r.batch = batch /\ r.seen = seen
    BY <1>0 DEF EnricherRuns
  <2>5. \A f \in Enrichers : enricher'[f] = IF f = e THEN r ELSE enricher[f]
    <3> HIDE DEF r
    <3> QED
      BY <1>0, <2>3
  <2>6. \A g \in Games : (\E i \in DOMAIN batch : batch[i] = g) => seen[g] = games[g]
    OBVIOUS
  <2> HIDE DEF r, seen
  <2>7. UNCHANGED <<games, clerk, typed>>
    BY <1>3 DEF ListRows
  <2>8. \A g \in Games : ReadBy(e, g)' => enricher'[e].seen[g] = games[g]
    BY <2>4, <2>5, <2>6 DEF ReadBy
  <2>9. \A f \in Enrichers, g \in Games :
           ReadBy(f, g)' => \/ enricher'[f].seen[g] = games[g]
                            \/ ReadBy(f, g) /\ enricher'[f].seen[g] = enricher[f].seen[g]
    BY <2>5, <2>8 DEF ReadBy
  <2>10. \A f \in Enrichers : Single(enricher'[f].batch)
    BY <2>2, <2>4, <2>5 DEF HoursInv
  <2> QED
    BY <2>7, <2>9, <2>10 DEF HoursInv, Keeps
<1>4. ASSUME NEW e \in Enrichers, Enrich(e) \/ EnrichErrs(e) \/ EnrichOthers(e) PROVE HoursInv'
  <2> DEFINE h == Head(enricher[e].batch)
  <2>1. /\ enricher[e].batch # <<>> /\ UNCHANGED <<clerk, typed>> /\ RowDone(e, h)
    BY <1>4, RowWritten
  <2>2. PICK p \in Payloads :
           /\ UNCHANGED <<games, byAge>> \/ Replace(h, p)
           /\ enricher[e].seen[h].hours # "none"
                => p.hours = enricher[e].seen[h].hours /\ p.locked = enricher[e].seen[h].locked
    BY <1>4, RowWritten
  <2>3. /\ enricher[e] \in EnricherRuns /\ enricher[e].batch \in Seq(Games)
        /\ enricher[e].seen \in [Games -> Payloads]
    BY <1>0 DEF EnricherRuns
  <2>4. h \in Games /\ ReadBy(e, h)
    BY <2>1, <2>3, RestListed DEF ReadBy
  <2> DEFINE b == Tail(enricher[e].batch)
  <2>5. /\ Single(b)
        /\ \A i \in DOMAIN b : b[i] # h /\ \E j \in DOMAIN enricher[e].batch : enricher[e].batch[j] = b[i]
    BY <2>1, <2>3, RestListed DEF HoursInv
  <2> HIDE DEF h, b
  <2>6. enricher' = [enricher EXCEPT ![e] = [enricher[e] EXCEPT !.batch = b, !.seen[h] = NoGame]]
    BY <2>1 DEF RowDone, Goes, b
  <2>7. /\ enricher'[e].batch = b /\ enricher'[e].seen = [enricher[e].seen EXCEPT ![h] = NoGame]
        /\ \A f \in Enrichers : f # e => enricher'[f] = enricher[f]
    BY <1>0, <2>3, <2>6 DEF EnricherRuns
  <2>8. \A f \in Enrichers, g \in Games :
           ReadBy(f, g)' => ReadBy(f, g) /\ enricher'[f].seen[g] = enricher[f].seen[g]
    <3>1. \A g \in Games :
             ReadBy(e, g)' => ReadBy(e, g) /\ enricher'[e].seen[g] = enricher[e].seen[g]
      BY <2>3, <2>5, <2>7 DEF ReadBy
    <3>2. ASSUME NEW f \in Enrichers, NEW g \in Games, f # e, ReadBy(f, g)'
          PROVE  ReadBy(f, g) /\ enricher'[f].seen[g] = enricher[f].seen[g]
      <4>1. enricher'[f] = enricher[f]
        BY <2>7, <3>2
      <4> QED
        BY <3>2, <4>1 DEF ReadBy
    <3> QED
      BY <3>1, <3>2
  <2>9. \A f \in Enrichers : Single(enricher'[f].batch)
    BY <2>5, <2>7 DEF HoursInv
  <2>10. \A g \in Games : typed[g] # "no" => Keeps(g, games'[g])
    <3> SUFFICES ASSUME NEW g \in Games, typed[g] # "no" PROVE Keeps(g, games'[g])
      OBVIOUS
    <3>1. Keeps(g, games[g]) /\ (ReadBy(e, g) => Keeps(g, enricher[e].seen[g]))
      BY DEF HoursInv
    <3>2. CASE g # h \/ games' = games
      <4>1. games'[g] = games[g]
        BY <1>0, <2>2, <2>4, <3>2 DEF Replace
      <4> QED
        BY <3>1, <4>1
    <3>3. CASE g = h /\ games' # games
      <4>1. games'[g] = p
        BY <1>0, <2>2, <2>4, <3>3 DEF Replace
      <4>2. Keeps(g, enricher[e].seen[g])
        BY <2>4, <3>1, <3>3
      <4>3. p.hours = enricher[e].seen[g].hours /\ p.locked = enricher[e].seen[g].locked
        BY <2>2, <3>3, <4>2 DEF Keeps
      <4> QED
        BY <4>1, <4>2, <4>3 DEF Keeps
    <3> QED
      BY <3>2, <3>3
  <2> QED
    BY <2>1, <2>8, <2>9, <2>10 DEF HoursInv, Keeps
<1>5. ASSUME NEW e \in Enrichers, NEW S \in SUBSET Games, RefreshPool(e, S) PROVE HoursInv'
  <2> DEFINE r == [NoRun EXCEPT !.at = "listing", !.kind = "pool"]
  <2>1. enricher' = [enricher EXCEPT ![e] = r] /\ clerk' = clerk
    BY <1>5 DEF RefreshPool, Goes
  <2>2. r.batch = <<>>
    BY DEF NoRun
  <2> HIDE DEF r
  <2>3. \A f \in Enrichers : enricher'[f] = IF f = e THEN r ELSE enricher[f]
    BY <1>0, <2>1
  <2>4. \A f \in Enrichers, g \in Games : ReadBy(f, g)' => ReadBy(f, g) /\ enricher'[f] = enricher[f]
    BY <2>2, <2>3 DEF ReadBy
  <2>5. \A f \in Enrichers : Single(enricher'[f].batch)
    BY <2>2, <2>3 DEF HoursInv, Single
  <2>6. \A g \in Games : typed'[g] # "no" =>
           /\ typed[g] # "no"
           /\ \/ typed'[g] = typed[g] /\ games'[g] = games[g]
              \/ typed'[g] = "pooled" /\ games'[g] = Pooled(games[g])
    BY <1>5 DEF RefreshPool
  <2>7. \A g \in Games : Pooled(games[g]).hours = games[g].hours
    BY <1>0 DEF Pooled, Payloads
  <2>8. \A g \in Games : typed'[g] # "no" =>
           /\ Keeps(g, games[g])'
           /\ \A q : Keeps(g, q) => Keeps(g, q)'
    BY <2>6, <2>7 DEF HoursInv, Keeps
  <2>9. ASSUME NEW g \in Games, typed'[g] # "no"
        PROVE  /\ Keeps(g, games[g])'
               /\ \A f \in Enrichers : ReadBy(f, g)' => Keeps(g, enricher[f].seen[g])'
               /\ \A c \in Clerks : clerk'[c] # NoCommand /\ clerk'[c].game = g
                    => Keeps(g, clerk[c].seen)'
    <3>1. typed[g] # "no" /\ Keeps(g, games[g])' /\ \A q : Keeps(g, q) => Keeps(g, q)'
      BY <2>6, <2>8, <2>9
    <3>2. \A f \in Enrichers : ReadBy(f, g)' => Keeps(g, enricher[f].seen[g])'
      BY <2>4, <3>1 DEF HoursInv
    <3>3. \A c \in Clerks : clerk'[c] # NoCommand /\ clerk'[c].game = g
                              => Keeps(g, clerk[c].seen)'
      BY <2>1, <3>1 DEF HoursInv
    <3> QED
      BY <3>1, <3>2, <3>3
  <2> QED
    BY <2>5, <2>9 DEF HoursInv
<1>6. ASSUME NEW h \in Games, AddToLibrary(h) PROVE HoursInv'
  <2>1. /\ UNCHANGED <<enricher, clerk>> /\ typed' = [typed EXCEPT ![h] = "no"]
        /\ games' = [games EXCEPT ![h] = Owned]
    BY <1>6 DEF AddToLibrary
  <2>2. \A g \in Games : typed'[g] # "no" => typed'[g] = typed[g] /\ games'[g] = games[g]
    BY <1>0, <2>1
  <2> QED
    BY <2>1, <2>2 DEF HoursInv, Keeps, ReadBy
<1>7. ASSUME NEW h \in Games, NEW missed \in BOOLEAN, Elapse(h, missed) PROVE HoursInv'
  <2> DEFINE Ripe(p) == IF (p.tries = MaxAttempts) = missed THEN [p EXCEPT !.due = TRUE] ELSE p
  <2>1. \A p \in Payloads : Ripe(p).hours = p.hours /\ Ripe(p).locked = p.locked
    BY DEF Payloads
  <2>2. /\ games' = [games EXCEPT ![h] = Ripe(@)] /\ typed' = typed
        /\ enricher' = [f \in Enrichers |-> [enricher[f] EXCEPT !.seen[h] = Ripe(@)]]
        /\ clerk' = [c \in Clerks |-> IF clerk[c].game = h
                                      THEN [clerk[c] EXCEPT !.seen = Ripe(@)] ELSE clerk[c]]
    BY <1>7 DEF Elapse
  <2>3. Ripe(NoGame) = NoGame
    BY DueAlready
  <2> HIDE DEF Ripe
  <2>4. \A g \in Games : games'[g].hours = games[g].hours /\ games'[g].locked = games[g].locked
    BY <1>0, <2>1, <2>2
  <2>5. ASSUME NEW f \in Enrichers
        PROVE  /\ enricher'[f].batch = enricher[f].batch
               /\ \A g \in Games : /\ enricher'[f].seen[g].hours = enricher[f].seen[g].hours
                                   /\ enricher'[f].seen[g].locked = enricher[f].seen[g].locked
    <3>1. enricher[f] \in EnricherRuns /\ enricher[f].seen \in [Games -> Payloads]
      BY <1>0 DEF EnricherRuns
    <3>2. /\ enricher'[f].batch = enricher[f].batch
          /\ enricher'[f].seen = [enricher[f].seen EXCEPT ![h] = Ripe(@)]
      BY <2>2, <3>1 DEF EnricherRuns
    <3> QED
      BY <2>1, <3>1, <3>2
  <2>6. ASSUME NEW c \in Clerks, clerk'[c] # NoCommand
        PROVE  /\ clerk[c] # NoCommand /\ clerk'[c].game = clerk[c].game
               /\ clerk'[c].seen.hours = clerk[c].seen.hours
               /\ clerk'[c].seen.locked = clerk[c].seen.locked
    <3>1. clerk[c] \in CommandCalls /\ clerk[c].seen \in Payloads
      BY <1>0 DEF CommandCalls
    <3>2. clerk'[c] = clerk[c] \/ clerk'[c] = [clerk[c] EXCEPT !.seen = Ripe(@)]
      BY <2>2
    <3>3. [NoCommand EXCEPT !.seen = NoCommand.seen] = NoCommand /\ NoCommand.seen = NoGame
      BY SmallPayloads DEF NoCommand, CommandCalls
    <3>4. clerk[c] # NoCommand
      BY <2>3, <2>6, <3>2, <3>3
    <3> QED
      BY <2>1, <3>1, <3>2, <3>4 DEF CommandCalls
  <2>7. \A f \in Enrichers : Single(enricher'[f].batch)
    BY <2>5 DEF HoursInv
  <2>8. \A f \in Enrichers, g \in Games : ReadBy(f, g)' => ReadBy(f, g)
    BY <2>5 DEF ReadBy
  <2>9. ASSUME NEW g \in Games, typed'[g] # "no"
        PROVE  /\ Keeps(g, games[g])'
               /\ \A f \in Enrichers : ReadBy(f, g)' => Keeps(g, enricher[f].seen[g])'
               /\ \A c \in Clerks : clerk'[c] # NoCommand /\ clerk'[c].game = g
                    => Keeps(g, clerk[c].seen)'
    <3>1. /\ typed[g] # "no" /\ Keeps(g, games[g])
          /\ \A f \in Enrichers : ReadBy(f, g) => Keeps(g, enricher[f].seen[g])
          /\ \A c \in Clerks : clerk[c] # NoCommand /\ clerk[c].game = g
               => Keeps(g, clerk[c].seen)
      BY <2>2, <2>9 DEF HoursInv
    <3>2. Keeps(g, games[g])'
      BY <2>2, <2>4, <3>1 DEF Keeps
    <3>3. ASSUME NEW f \in Enrichers, ReadBy(f, g)' PROVE Keeps(g, enricher[f].seen[g])'
      <4>1. /\ ReadBy(f, g) /\ enricher'[f].seen[g].hours = enricher[f].seen[g].hours
            /\ enricher'[f].seen[g].locked = enricher[f].seen[g].locked
        BY <2>5, <2>8, <3>3
      <4>2. Keeps(g, enricher[f].seen[g]) /\ typed' = typed
        BY <2>2, <3>1, <4>1
      <4> QED
        BY <4>1, <4>2 DEF Keeps
    <3>4. ASSUME NEW c \in Clerks, clerk'[c] # NoCommand, clerk'[c].game = g
          PROVE  Keeps(g, clerk[c].seen)'
      <4>1. /\ clerk[c] # NoCommand /\ clerk[c].game = g
            /\ clerk'[c].seen.hours = clerk[c].seen.hours
            /\ clerk'[c].seen.locked = clerk[c].seen.locked
        BY <2>6, <3>4
      <4>2. Keeps(g, clerk[c].seen)
        BY <3>1, <4>1
      <4> QED
        BY <2>2, <4>1, <4>2 DEF Keeps
    <3> QED
      BY <3>2, <3>3, <3>4
  <2> QED
    BY <2>7, <2>9 DEF HoursInv
<1>8. ASSUME NEW c \in Clerks, NEW n \in Commands, NEW h \in Games, ReadForCommand(c, n, h)
      PROVE  HoursInv'
  <2>1. /\ UNCHANGED <<games, enricher, typed>>
        /\ clerk' = [clerk EXCEPT ![c] = [name |-> n, game |-> h, seen |-> games[h]]]
    BY <1>8 DEF ReadForCommand
  <2>2. \A d \in Clerks : clerk'[d] = clerk[d]
                          \/ clerk'[d].seen = games[clerk'[d].game]
    BY <1>0, <2>1
  <2> QED
    BY <2>1, <2>2 DEF HoursInv, Keeps, ReadBy
<1>9. ASSUME NEW c \in Clerks, Command(c) PROVE HoursInv'
  <2> DEFINE k == clerk[c]
             p == Commanded(k.name, k.seen)
  <2>1. /\ k # NoCommand /\ k.name \in Commands /\ k.game \in Games /\ k.seen \in Payloads
        /\ p \in Payloads
    <3>1. k # NoCommand /\ k.name \in Commands /\ k \in CommandCalls
      BY <1>0, <1>9 DEF Command, Commanding
    <3>2. k.game \in Games /\ k.seen \in Payloads
      BY <3>1 DEF CommandCalls
    <3> QED
      BY <3>1, <3>2, PayloadsKept
  <2>2. /\ \/ UNCHANGED games
           \/ IsDiscovery(k.game) /\ games' = [games EXCEPT ![k.game] = p]
        /\ enricher' = enricher /\ clerk' = [clerk EXCEPT ![c] = NoCommand]
        /\ typed' = [typed EXCEPT ![k.game] =
                       IF ~IsDiscovery(k.game) THEN @
                       ELSE IF k.name = "type" /\ ~HeldByOthers(c, k.game) THEN "kept"
                       ELSE IF k.name = "forget" THEN @ ELSE "no"]
    BY <1>9 DEF Command
  <2>3. \A d \in Clerks : clerk'[d] # NoCommand => d # c /\ clerk'[d] = clerk[d]
    BY <1>0, <2>2
  <2>4. p.hours = CASE k.name = "type" -> "typed" [] k.name = "forget" -> k.seen.hours
                    [] OTHER -> "none"
    BY <2>1 DEF Commanded, Commands, Payloads
  <2>5. (k.name = "type" => p.locked = TRUE) /\ (k.name = "forget" => p.locked = k.seen.locked)
    BY <2>1 DEF Commanded, Commands, Payloads
  <2>6. k.name = "type" /\ IsDiscovery(k.game) => games'[k.game] = p
    BY <1>0, <1>9, <2>1 DEF Command
  <2> HIDE DEF k, p
  <2>7. ASSUME NEW g \in Games, g # k.game
        PROVE  typed'[g] = typed[g] /\ games'[g] = games[g]
    BY <1>0, <2>1, <2>2, <2>7
  <2>8. ASSUME NEW h \in Games, h = k.game, typed'[h] # "no"
        PROVE  /\ Keeps(h, games[h])'
               /\ \A e \in Enrichers : ReadBy(e, h)' => Keeps(h, enricher[e].seen[h])'
               /\ \A d \in Clerks : clerk'[d] # NoCommand /\ clerk'[d].game = h
                                      => Keeps(h, clerk[d].seen)'
    <3>1. \A e \in Enrichers : ReadBy(e, h)' => ReadBy(e, h)
      BY <2>2 DEF ReadBy
    <3>2. CASE typed'[h] = typed[h] /\ (games'[h] = games[h] \/ k.name = "forget")
      <4>1. /\ Keeps(h, games[h]) /\ Keeps(h, k.seen)
            /\ \A e \in Enrichers : ReadBy(e, h) => Keeps(h, enricher[e].seen[h])
            /\ \A d \in Clerks : clerk[d] # NoCommand /\ clerk[d].game = h
                                   => Keeps(h, clerk[d].seen)
        BY <2>1, <2>8, <3>2 DEF HoursInv, k
      <4>2. games'[h].hours = "typed" /\ (typed[h] = "kept" => games'[h].locked)
        <5>1. CASE games'[h] = games[h]
          BY <4>1, <5>1 DEF Keeps
        <5>2. CASE games'[h] # games[h] /\ k.name = "forget"
          <6>1. games'[h] = p
            BY <1>0, <2>1, <2>2, <2>8, <5>2
          <6>2. p.hours = k.seen.hours /\ p.locked = k.seen.locked
            BY <2>4, <2>5, <5>2
          <6> QED
            BY <4>1, <6>1, <6>2 DEF Keeps
        <5> QED
          BY <3>2, <5>1, <5>2
      <4> QED
        BY <2>2, <2>3, <3>1, <3>2, <4>1, <4>2 DEF Keeps
    <3>3. CASE typed'[h] = "kept" /\ k.name = "type" /\ IsDiscovery(h) /\ ~HeldByOthers(c, h)
      <4>1. games'[h].hours = "typed" /\ games'[h].locked = TRUE
        BY <2>4, <2>5, <2>6, <2>8, <3>3
      <4>2. \A e \in Enrichers : ~ReadBy(e, h)
        BY <3>3 DEF HeldByOthers, ReadBy
      <4>3. \A d \in Clerks : clerk'[d] # NoCommand => clerk'[d].game # h
        BY <2>3, <3>3 DEF HeldByOthers
      <4> QED
        BY <3>1, <4>1, <4>2, <4>3 DEF Keeps
    <3>4. \/ typed'[h] = typed[h] /\ ~IsDiscovery(h)
          \/ typed'[h] = typed[h] /\ k.name = "forget"
          \/ typed'[h] = "kept" /\ k.name = "type" /\ IsDiscovery(h) /\ ~HeldByOthers(c, h)
      BY <1>0, <2>1, <2>2, <2>8
    <3>5. ~IsDiscovery(h) => games'[h] = games[h]
      BY <2>2, <2>8
    <3> QED
      BY <3>2, <3>3, <3>4, <3>5
  <2>9. ASSUME NEW g \in Games, g # k.game, typed'[g] # "no"
        PROVE  /\ Keeps(g, games[g])'
               /\ \A e \in Enrichers : ReadBy(e, g)' => Keeps(g, enricher[e].seen[g])'
               /\ \A d \in Clerks : clerk'[d] # NoCommand /\ clerk'[d].game = g => Keeps(g, clerk[d].seen)'
    <3>1. typed'[g] = typed[g] /\ games'[g] = games[g]
      BY <2>7, <2>9
    <3>2. /\ Keeps(g, games[g])
          /\ \A e \in Enrichers : ReadBy(e, g) => Keeps(g, enricher[e].seen[g])
          /\ \A d \in Clerks : clerk[d] # NoCommand /\ clerk[d].game = g => Keeps(g, clerk[d].seen)
      BY <2>9, <3>1 DEF HoursInv
    <3> QED
      BY <2>2, <2>3, <3>1, <3>2 DEF Keeps, ReadBy
  <2>10. \A e \in Enrichers : Single(enricher'[e].batch)
    BY <2>2 DEF HoursInv
  <2>11. \A g \in Games : typed'[g] # "no" =>
            /\ Keeps(g, games[g])'
            /\ \A e \in Enrichers : ReadBy(e, g)' => Keeps(g, enricher[e].seen[g])'
            /\ \A d \in Clerks : clerk'[d] # NoCommand /\ clerk'[d].game = g => Keeps(g, clerk[d].seen)'
    BY <2>8, <2>9
  <2> QED
    BY <2>10, <2>11 DEF HoursInv
<1> QED
  BY <1>1, <1>2, <1>3, <1>4, <1>5, <1>6, <1>7, <1>8, <1>9 DEF DiscoveryNext, RunStep

(***************************************************************************)
(* The rows, the runs and the commands have their types: an attempt is     *)
(* never counted beyond maxAttempts, and whatever is written back over a   *)
(* row is a payload.                                                       *)
(***************************************************************************)
THEOREM DiscoveryTypeCorrect == DiscoverySpec => []DiscoveryTypeOK
<1> DEFINE Inv == DiscoveryTypeOK /\ Commanding
<1>1. DiscoveryInit => Inv
  BY DiscoveryTypedInit DEF DiscoveryInit, Commanding
<1>2. Inv /\ [DiscoveryNext]_discoveryVars => Inv'
  BY DiscoveryTypedNext, CommandingNext
<1>3. Inv => DiscoveryTypeOK
  OBVIOUS
<1> QED
  BY <1>1, <1>2, <1>3, PTL DEF DiscoverySpec

(***************************************************************************)
(* Hours typed for a game that nobody else had read stay, whatever runs,   *)
(* refreshes of the pool, other providers' changes and commands for        *)
(* retries write back over the row, and the lock stays until a refresh of  *)
(* the pool.                                                               *)
(***************************************************************************)
THEOREM TypedHoursAreKept == DiscoverySpec => []TypedHoursStay
<1> DEFINE Inv == DiscoveryTypeOK /\ Commanding /\ HoursInv
<1>1. DiscoveryInit => Inv
  BY DiscoveryTypedInit, HoursInit DEF DiscoveryInit, Commanding
<1>2. Inv /\ [DiscoveryNext]_discoveryVars => Inv'
  BY DiscoveryTypedNext, CommandingNext, HoursNext
<1>3. Inv => TypedHoursStay
  BY DEF HoursInv, Keeps, TypedHoursStay
<1> QED
  BY <1>1, <1>2, <1>3, PTL DEF DiscoverySpec

=============================================================================
