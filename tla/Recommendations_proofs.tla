------------------------ MODULE Recommendations_proofs ------------------------
(***************************************************************************)
(* Proofs about Recommendations: variables have their type, and what is    *)
(* served never goes back to an older library, for any number of builders, *)
(* lost connections, crashes and recovered runs.                           *)
(***************************************************************************)
EXTENDS Recommendations, WellFoundedInduction, TLAPS

Run == [status : RunStatuses, input : 1..(MaxChanges + 1)]
BuildStages == {"off", "lock", "latest", "list", "compare", "create", "build", "failing", "unlock"}
Rebuilds == [at : BuildStages, kind : {"scheduler", "manual", "forced"}, input : Nat, run : Nat]

\* Runs are created in the order of the libraries they read.
Ordered ==
    /\ \A i \in DOMAIN runs : runs[i].input <= library
    /\ \A i, j \in DOMAIN runs : i <= j => runs[i].input <= runs[j].input

\* What the rebuild on the lock's session holds: an input no run is newer than, and once
\* it has created its run, the last run, which nobody else can make a success.
Holder(b) ==
    /\ builder[b].at \in {"compare", "create"} =>
         /\ builder[b].input \in 1..library
         /\ \A i \in DOMAIN runs : runs[i].input <= builder[b].input
    /\ builder[b].at \in {"build", "failing"} =>
         /\ builder[b].run = Len(runs) /\ runs # <<>>
         /\ runs[Len(runs)].status # "SUCCESS"

Fenced ==
    /\ RecTypeOK
    /\ Ordered
    /\ recLock # NoBuilder => Holder(recLock)

LEMMA RunsAreRuns ==
    ASSUME RecTypeOK
    PROVE  /\ runs \in Seq(Run) /\ Len(runs) \in Nat /\ DOMAIN runs = 1..Len(runs)
           /\ \A i \in 1..Len(runs) : runs[i] \in Run
  <1>1. runs \in Seq(Run)
    BY DEF RecTypeOK, Run
  <1> QED BY <1>1

-----------------------------------------------------------------------------
(* What is served. *)

\* A set of indices that is not empty has a last one.
LEMMA LastIndex ==
    ASSUME NEW n \in Nat, NEW S \in SUBSET (1..n), S # {}
    PROVE  \E i \in S : \A j \in S : j <= i
  <1> DEFINE T == {n - i : i \in S}
  <1>1. T \subseteq Nat /\ T # {}
    <2>1. \A i \in S : i \in Nat /\ i <= n
      OBVIOUS
    <2>2. \A i \in S : n - i \in Nat
      BY <2>1
    <2>3. T \subseteq Nat
      BY <2>2, Zenon
    <2>4. T # {}
      BY Zenon
    <2> QED BY <2>3, <2>4
  <1>2. PICK t \in T : \A u \in T : t <= u
    <2> DEFINE R == OpToRel(<, Nat)
    <2>1. \A x, y \in Nat : <<x, y>> \in R <=> x < y
      BY DEF OpToRel
    <2>2. IsWellFoundedOn(R, Nat)
      BY NatLessThanWellFounded
    <2> HIDE DEF R, T
    <2>3. PICK t \in T : \A u \in T : ~(<<u, t>> \in R)
      BY <1>1, <2>2, WFMin
    <2>4. \A u \in T : ~(u < t) /\ u \in Nat
      BY <1>1, <2>1, <2>3, Zenon
    <2>5. t \in Nat /\ t \in T
      BY <1>1, <2>3, Zenon
    <2>6. \A u \in T : t <= u
      BY <2>4, <2>5
    <2> QED BY <2>5, <2>6
  <1>3. PICK i \in S : t = n - i
    OBVIOUS
  <1>4. \A j \in S : n - i <= n - j
    BY <1>2, <1>3
  <1>5. \A j \in S : j <= i
    BY <1>4
  <1> QED BY <1>5

LEMMA ServedIsLast ==
    ASSUME NEW i \in Successes, \A j \in Successes : j <= i, DOMAIN runs \subseteq Nat
    PROVE  Served = runs[i].input
  <1>1. \A k \in Successes : (\A j \in Successes : j <= k) => k = i
    BY DEF Successes
  <1> QED BY <1>1 DEF Served

LEMMA ServedIsARun ==
    ASSUME RecTypeOK, Successes # {}
    PROVE  \E i \in DOMAIN runs : Served = runs[i].input
  <1>1. DOMAIN runs = 1..Len(runs) /\ Len(runs) \in Nat
    BY DEF RecTypeOK
  <1>2. PICK i \in Successes : \A j \in Successes : j <= i
    BY <1>1, LastIndex DEF Successes
  <1> QED BY <1>1, <1>2, ServedIsLast DEF Successes

\* Runs that succeed stay as they are, and no other does.
LEMMA ServedIsKept ==
    ASSUME RecTypeOK,
           \A i : (i \in Successes' <=> i \in Successes),
           \A i \in Successes : runs'[i] = runs[i]
    PROVE  Served' = Served
  <1>1. Successes' = Successes
    OBVIOUS
  <1>2. CASE Successes = {}
    BY <1>1, <1>2 DEF Served
  <1>3. CASE Successes # {}
    <2> DEFINE last == CHOOSE i \in Successes : \A j \in Successes : j <= i
    <2>1. Served = runs[last].input /\ Served' = runs'[last].input
      BY <1>1, <1>3 DEF Served
    <2>2. last \in Successes
      <3>1. DOMAIN runs = 1..Len(runs) /\ Len(runs) \in Nat
        BY DEF RecTypeOK
      <3> QED BY <1>3, <3>1, LastIndex DEF Successes
    <2> QED BY <2>1, <2>2
  <1> QED BY <1>2, <1>3

-----------------------------------------------------------------------------
(* The steps. *)

\* What a step has to show: the invariant, and no older library.
Advances == Fenced' /\ Served' >= Served

LEMMA ServedIsANumber == RecTypeOK => Served \in Int
  <1> SUFFICES ASSUME RecTypeOK PROVE Served \in Int
    OBVIOUS
  <1>1. CASE Successes = {}
    BY <1>1 DEF Served
  <1>2. CASE Successes # {}
    <2>1. PICK i \in DOMAIN runs : Served = runs[i].input
      BY <1>2, ServedIsARun
    <2>2. runs[i] \in Run
      BY RunsAreRuns
    <2> QED BY <2>1, <2>2 DEF Run
  <1> QED BY <1>1, <1>2

\* Steps that leave the runs alone.
LEMMA RunsRest ==
    ASSUME Fenced, RecTypeOK', runs' = runs, library' >= library,
           recLock' # NoBuilder => Holder(recLock)'
    PROVE  Advances
  <1>1. Ordered'
    <2>1. \A i \in DOMAIN runs : runs[i].input \in Int /\ runs[i].input <= library
      <3>1. \A i \in DOMAIN runs : runs[i] \in Run
        BY RunsAreRuns DEF Fenced
      <3> QED BY <3>1 DEF Fenced, Ordered, Run
    <2>2. library \in Int /\ library' \in Int
      BY DEF Fenced, RecTypeOK
    <2> QED BY <2>1, <2>2 DEF Fenced, Ordered
  <1>2. Served' = Served
    BY DEF Served, Successes
  <1>3. Served \in Int
    BY ServedIsANumber DEF Fenced
  <1> QED BY <1>1, <1>2, <1>3 DEF Advances, Fenced

LEMMA BuilderMoves ==
    ASSUME Fenced, NEW b \in Builders, NEW r \in Rebuilds,
           builder' = [builder EXCEPT ![b] = r], UNCHANGED <<library, runs>>,
           backoff' \in BOOLEAN, recLock' \in {recLock, NoBuilder, b},
           running' \subseteq Builders, upsets' \in 0..MaxUpsets,
           recLock' = b /\ r.at \in {"compare", "create"} =>
             /\ r.input \in 1..library
             /\ \A i \in DOMAIN runs : runs[i].input <= r.input,
           recLock' = b /\ r.at \in {"build", "failing"} =>
             recLock = b /\ builder[b].at = "build" /\ r.run = builder[b].run
    PROVE  Advances
  <1>1. builder \in [Builders -> Rebuilds] /\ library \in Nat
    BY DEF Fenced, RecTypeOK, Rebuilds, BuildStages
  <1>2. builder'[b] = r /\ \A c \in Builders : c # b => builder'[c] = builder[c]
    BY <1>1
  <1>3. RecTypeOK'
    BY <1>1 DEF Fenced, RecTypeOK, Rebuilds, BuildStages
  <1>4. ASSUME recLock' # NoBuilder PROVE Holder(recLock)'
    <2>1. CASE recLock' = b
      BY <1>2, <2>1, RecAssumption DEF Holder, Fenced
    <2>2. CASE recLock' # b
      <3>1. recLock' = recLock /\ recLock \in Builders
        BY <1>4, <2>2 DEF Fenced, RecTypeOK
      <3>2. Holder(recLock)
        BY <1>4, <3>1 DEF Fenced
      <3> QED BY <1>2, <2>2, <3>1, <3>2 DEF Holder
    <2> QED BY <2>1, <2>2
  <1> QED BY <1>1, <1>3, <1>4, RunsRest

\* A new run reads no older library than the runs before it.
LEMMA CreateAdvances ==
    ASSUME Fenced, NEW b \in Builders, CreateRun(b)
    PROVE  Advances
  <1> DEFINE run == [status |-> "RUNNING", input |-> builder[b].input]
             r == [builder[b] EXCEPT !.at = "build", !.run = Len(runs) + 1]
  <1>1. /\ builder \in [Builders -> Rebuilds] /\ runs \in Seq(Run) /\ Len(runs) \in Nat
        /\ library \in 1..(MaxChanges + 1)
    BY DEF Fenced, RecTypeOK, Rebuilds, BuildStages, Run
  <1>2. /\ recLock = b /\ recLock # NoBuilder /\ builder[b].at = "create"
        /\ runs' = Append(runs, run) /\ builder' = [builder EXCEPT ![b] = r]
        /\ UNCHANGED <<library, backoff, recLock, running, upsets>>
    BY RecAssumption DEF CreateRun, InSession
  <1>3. /\ builder[b].input \in 1..library
        /\ \A i \in DOMAIN runs : runs[i].input <= builder[b].input
    BY <1>2 DEF Fenced, Holder
  <1>4. run \in Run /\ run.status = "RUNNING" /\ run.input = builder[b].input
    BY <1>1, <1>3, RecAssumption DEF Run, RunStatuses
  <1>5. r \in Rebuilds /\ r.at = "build" /\ r.run = Len(runs) + 1
    <2>1. builder[b] \in Rebuilds /\ Len(runs) + 1 \in Nat
      BY <1>1
    <2> QED BY <2>1 DEF Rebuilds, BuildStages
  <1> HIDE DEF run, r
  <1>6. /\ runs' \in Seq(Run) /\ Len(runs') = Len(runs) + 1
        /\ DOMAIN runs' = DOMAIN runs \union {Len(runs) + 1}
        /\ runs'[Len(runs) + 1] = run /\ \A i \in DOMAIN runs : runs'[i] = runs[i]
        /\ \A i \in DOMAIN runs : i \in Nat /\ i < Len(runs) + 1
    BY <1>1, <1>2, <1>4
  <1>7. RecTypeOK'
    <2>1. builder' \in [Builders -> Rebuilds]
      BY <1>1, <1>2, <1>5
    <2> QED BY <1>2, <1>6, <2>1 DEF Fenced, RecTypeOK, Rebuilds, BuildStages, Run
  <1>8. Ordered'
    <2>1. \A i \in DOMAIN runs' : runs'[i].input \in Int /\ runs'[i].input <= run.input
      <3>1. \A i \in DOMAIN runs : runs[i] \in Run
        BY <1>1
      <3>2. \A i \in DOMAIN runs : runs[i].input \in Int
        BY <3>1 DEF Run
      <3> QED BY <1>3, <1>4, <1>6, <3>2
    <2>2. run.input \in Int /\ run.input <= library
      BY <1>1, <1>3, <1>4
    <2>3. \A i \in DOMAIN runs' : runs'[i].input <= library'
      BY <1>1, <1>2, <2>1, <2>2
    <2>4. \A i, j \in DOMAIN runs' : i <= j => runs'[i].input <= runs'[j].input
      <3> SUFFICES ASSUME NEW i \in DOMAIN runs', NEW j \in DOMAIN runs', i <= j
                   PROVE  runs'[i].input <= runs'[j].input
        OBVIOUS
      <3>1. CASE j = Len(runs) + 1
        BY <1>6, <2>1, <3>1
      <3>2. CASE j \in DOMAIN runs
        <4>1. i \in DOMAIN runs
          BY <1>1, <1>6, <3>2
        <4> QED BY <1>6, <3>2, <4>1 DEF Fenced, Ordered
      <3> QED BY <1>6, <3>1, <3>2
    <2> QED BY <2>3, <2>4 DEF Ordered
  <1>9. Holder(recLock)'
    <2>1. builder'[b] = r
      BY <1>1, <1>2, <1>5
    <2>2. runs' # <<>>
      BY <1>6
    <2> QED BY <1>2, <1>4, <1>5, <1>6, <2>1, <2>2 DEF Holder
  <1>10. Served' = Served
    <2>1. \A i : i \in Successes' <=> i \in Successes
      BY <1>4, <1>6 DEF Successes
    <2>2. \A i \in Successes : runs'[i] = runs[i]
      BY <1>6 DEF Successes
    <2> QED BY <2>1, <2>2, ServedIsKept DEF Fenced
  <1>11. Served \in Int
    BY ServedIsANumber DEF Fenced
  <1> QED BY <1>2, <1>7, <1>8, <1>9, <1>10, <1>11 DEF Advances, Fenced

\* The statuses of runs change, their inputs and their number do not.
LEMMA StatusesChange ==
    ASSUME Fenced, NEW n \in Nat, n = Len(runs), DOMAIN runs' = 1..n, runs' \in Seq(Run),
           \A i \in 1..n : runs'[i].input = runs[i].input, library' = library
    PROVE  Ordered' /\ Len(runs') = n /\ DOMAIN runs = 1..n
  <1>1. DOMAIN runs = 1..n
    BY DEF Fenced, RecTypeOK
  <1>2. Len(runs') = n
    <2>1. Len(runs') \in Nat /\ 1..Len(runs') = 1..n
      OBVIOUS
    <2> QED BY <2>1
  <1> QED BY <1>1, <1>2 DEF Fenced, Ordered

\* The run that ends is the last one, and reads no older library than what is served.
LEMMA EndAdvances ==
    ASSUME Fenced, NEW b \in Builders, recLock = b, builder[b].at \in {"build", "failing"},
           NEW status \in {"SUCCESS", "FAILED"}, Ends(b, status), Turn(b, "unlock"),
           backoff' \in BOOLEAN, UNCHANGED <<library, recLock, running, upsets>>
    PROVE  Advances
  <1> DEFINE n == Len(runs)
             r == [builder[b] EXCEPT !.at = "unlock"]
  <1>1. /\ builder \in [Builders -> Rebuilds] /\ runs \in Seq(Run) /\ n \in Nat
        /\ DOMAIN runs = 1..n /\ \A i \in 1..n : runs[i] \in Run
    BY RunsAreRuns DEF Fenced, RecTypeOK, Rebuilds, BuildStages
  <1>2. builder[b].run = n /\ n \in 1..n /\ runs[n].status # "SUCCESS"
    <2>1. builder[b].run = n /\ runs # <<>> /\ runs[n].status # "SUCCESS"
      BY RecAssumption DEF Fenced, Holder
    <2> QED BY <1>1, <2>1
  <1>3. runs' = [runs EXCEPT ![n] = [runs[n] EXCEPT !.status = status]]
    BY <1>2 DEF Ends
  <1>4. [runs[n] EXCEPT !.status = status] \in Run
    BY <1>1, <1>2 DEF Run, RunStatuses
  <1>5. /\ runs' \in Seq(Run) /\ DOMAIN runs' = 1..n
        /\ \A i \in 1..n : i # n => runs'[i] = runs[i]
        /\ runs'[n] = [runs[n] EXCEPT !.status = status]
    BY <1>1, <1>2, <1>3, <1>4
  <1>6. \A i \in 1..n : runs'[i].input = runs[i].input
    BY <1>1, <1>2, <1>5 DEF Run
  <1>7. runs'[n].status = status
    BY <1>1, <1>2, <1>5 DEF Run
  <1>8. r \in Rebuilds /\ r.at = "unlock"
    BY <1>1 DEF Rebuilds, BuildStages
  <1>9. builder' \in [Builders -> Rebuilds] /\ builder'[b] = r
    BY <1>1, <1>8 DEF Turn
  <1> HIDE DEF n, r
  <1>10. Ordered' /\ Len(runs') = n
    BY <1>1, <1>5, <1>6, StatusesChange DEF n
  <1>11. RecTypeOK'
    BY <1>5, <1>9 DEF Fenced, RecTypeOK, Rebuilds, BuildStages, Run
  <1>12. Holder(recLock)'
    BY <1>8, <1>9 DEF Holder
  <1>13. Served \in Int
    BY ServedIsANumber DEF Fenced
  <1>14. CASE status = "FAILED"
    <2>1. \A i : i \in Successes' <=> i \in Successes
      BY <1>1, <1>2, <1>5, <1>7, <1>14 DEF Successes
    <2>2. \A i \in Successes : runs'[i] = runs[i]
      BY <1>1, <1>2, <1>5 DEF Successes
    <2>3. Served' = Served
      BY <2>1, <2>2, ServedIsKept DEF Fenced
    <2> QED BY <1>10, <1>11, <1>12, <1>13, <2>3 DEF Advances, Fenced
  <1>15. CASE status = "SUCCESS"
    <2>1. n \in Successes' /\ \A j \in Successes' : j <= n
      <3>1. Successes' \subseteq 1..n /\ n \in Nat
        BY <1>1, <1>5 DEF Successes, n
      <3>2. n \in Successes'
        BY <1>2, <1>5, <1>7, <1>15 DEF Successes
      <3>3. \A j \in 1..n : j <= n
        BY <3>1
      <3> QED BY <3>1, <3>2, <3>3, Zenon
    <2>2. Served' = runs[n].input
      <3>1. \A k \in Successes' : (\A j \in Successes' : j <= k) => k = n
        BY <1>1, <1>5, <2>1 DEF Successes
      <3>2. Served' = runs'[n].input
        BY <2>1, <3>1 DEF Served
      <3> QED BY <1>2, <1>6, <3>2
    <2>3. runs[n].input \in Int /\ runs[n].input >= 0
      BY <1>1, <1>2 DEF Run
    <2>4. Served <= runs[n].input
      <3>1. CASE Successes = {}
        BY <2>3, <3>1 DEF Served
      <3>2. CASE Successes # {}
        <4>1. PICK i \in DOMAIN runs : Served = runs[i].input
          BY <3>2, ServedIsARun DEF Fenced
        <4> QED BY <1>1, <1>2, <4>1 DEF Fenced, Ordered
      <3> QED BY <3>1, <3>2
    <2> QED BY <1>10, <1>11, <1>12, <1>13, <2>2, <2>3, <2>4 DEF Advances, Fenced
  <1> QED BY <1>14, <1>15

\* The recovery timer fails runs that are RUNNING: none that is served.
LEMMA FailStaleAdvances ==
    ASSUME Fenced, FailStaleRuns
    PROVE  Advances
  <1> DEFINE n == Len(runs)
  <1>1. /\ runs \in Seq(Run) /\ n \in Nat
        /\ DOMAIN runs = 1..n /\ \A i \in 1..n : runs[i] \in Run
    BY RunsAreRuns DEF Fenced
  <1>2. /\ runs' = [i \in 1..n |-> IF runs[i].status = "RUNNING"
                                  THEN [runs[i] EXCEPT !.status = "FAILED"] ELSE runs[i]]
        /\ backoff' = TRUE /\ UNCHANGED <<library, recLock, builder, running, upsets>>
    BY <1>1 DEF FailStaleRuns
  <1>3. \A i \in 1..n : /\ runs'[i] \in Run /\ runs'[i].input = runs[i].input
                        /\ runs'[i].status = "SUCCESS" <=> runs[i].status = "SUCCESS"
                        /\ runs[i].status = "SUCCESS" => runs'[i] = runs[i]
    <2> SUFFICES ASSUME NEW i \in 1..n
                 PROVE  /\ runs'[i] \in Run /\ runs'[i].input = runs[i].input
                        /\ runs'[i].status = "SUCCESS" <=> runs[i].status = "SUCCESS"
                        /\ runs[i].status = "SUCCESS" => runs'[i] = runs[i]
      OBVIOUS
    <2>1. runs[i] \in Run
      BY <1>1
    <2>2. CASE runs[i].status = "RUNNING"
      BY <1>2, <2>1, <2>2 DEF Run, RunStatuses
    <2>3. CASE runs[i].status # "RUNNING"
      BY <1>2, <2>1, <2>3
    <2> QED BY <2>2, <2>3
  <1>4. runs' \in Seq(Run) /\ DOMAIN runs' = 1..n
    BY <1>1, <1>2, <1>3
  <1> HIDE DEF n
  <1>5. Ordered' /\ Len(runs') = n
    BY <1>1, <1>2, <1>3, <1>4, StatusesChange DEF n
  <1>6. RecTypeOK'
    BY <1>2, <1>4 DEF Fenced, RecTypeOK, Run
  <1>7. ASSUME recLock' # NoBuilder PROVE Holder(recLock)'
    <2>1. Holder(recLock)
      BY <1>2, <1>7 DEF Fenced
    <2>2. \A i \in DOMAIN runs : runs'[i].input = runs[i].input
      BY <1>1, <1>3
    <2>3. runs # <<>> => runs' # <<>> /\ n \in 1..n
      BY <1>1, <1>5 DEF n
    <2> QED BY <1>1, <1>2, <1>3, <1>4, <1>5, <2>1, <2>2, <2>3 DEF Holder, n
  <1>8. Served' = Served
    <2>1. \A i : i \in Successes' <=> i \in Successes
      BY <1>1, <1>3, <1>4 DEF Successes
    <2>2. \A i \in Successes : runs'[i] = runs[i]
      BY <1>1, <1>3 DEF Successes
    <2> QED BY <2>1, <2>2, ServedIsKept DEF Fenced
  <1>9. Served \in Int
    BY ServedIsANumber DEF Fenced
  <1> QED BY <1>5, <1>6, <1>7, <1>8, <1>9 DEF Advances, Fenced

\* What the steps of a builder rest on.
RecParts ==
    /\ library \in 1..(MaxChanges + 1) /\ library \in Nat /\ backoff \in BOOLEAN
    /\ recLock \in Builders \union {NoBuilder} /\ NoBuilder \notin Builders
    /\ builder \in [Builders -> Rebuilds] /\ running \subseteq Builders
    /\ upsets \in 0..MaxUpsets /\ MaxUpsets \in Nat

LEMMA RecPartsTyped == Fenced => RecParts
  BY RecAssumption DEF Fenced, RecTypeOK, RecParts, Rebuilds, BuildStages

LEMMA OffIsOne == Off \in Rebuilds /\ Off.at = "off"
  BY DEF Off, Rebuilds, BuildStages

LEMMA UpsetTyped == RecParts /\ Upset => upsets' \in 0..MaxUpsets
  BY DEF RecParts, Upset

\* A turn to a stage at which a rebuild holds nothing.
LEMMA TurnAdvances ==
    ASSUME Fenced, NEW b \in Builders, NEW stage \in {"latest", "list", "unlock"}, Turn(b, stage),
           UNCHANGED <<library, runs, backoff, running, upsets>>, recLock' \in {recLock, b}
    PROVE  Advances
  <1> DEFINE r == [builder[b] EXCEPT !.at = stage]
  <1>1. RecParts /\ builder[b] \in Rebuilds
    BY RecPartsTyped DEF RecParts
  <1>2. r \in Rebuilds /\ r.at = stage /\ builder' = [builder EXCEPT ![b] = r]
    BY <1>1 DEF Rebuilds, BuildStages, Turn
  <1> HIDE DEF r
  <1> QED BY <1>1, <1>2, BuilderMoves DEF RecParts

\* The job ends, and the lock stays or goes.
LEMMA DoneAdvances ==
    ASSUME Fenced, NEW b \in Builders, builder' = [builder EXCEPT ![b] = Off],
           running' \subseteq Builders, recLock' \in {recLock, NoBuilder},
           upsets' \in 0..MaxUpsets, UNCHANGED <<library, runs, backoff>>
    PROVE  Advances
  <1>1. RecParts
    BY RecPartsTyped
  <1> QED BY <1>1, OffIsOne, BuilderMoves DEF RecParts

LEMMA StepAdvances ==
    ASSUME Fenced, NEW b \in Builders, BuilderStep(b)
    PROVE  Advances
  <1>0. RecParts /\ builder[b] \in Rebuilds
    BY RecPartsTyped DEF RecParts
  <1>1. CASE ClaimScheduled(b)
    <2>1. [Off EXCEPT !.at = "lock"] \in Rebuilds /\ [Off EXCEPT !.at = "lock"].at = "lock"
      BY DEF Off, Rebuilds, BuildStages
    <2>2. running' \subseteq Builders
      BY <1>0, <1>1 DEF ClaimScheduled, RecParts
    <2> QED BY <1>0, <1>1, <2>1, <2>2, BuilderMoves DEF ClaimScheduled, RecParts
  <1>2. CASE TakeRecLock(b)
    BY <1>2, TurnAdvances DEF TakeRecLock
  <1>3. CASE RecLocked(b)
    BY <1>0, <1>3, DoneAdvances DEF RecLocked, RecJobDone, RecParts
  <1>4. CASE LookAtLatest(b)
    BY <1>4, TurnAdvances DEF LookAtLatest
  <1>5. CASE ListGames(b)
    <2> DEFINE r == [builder[b] EXCEPT !.at = "compare", !.input = library]
    <2>1. r \in Rebuilds /\ r.at = "compare" /\ r.input = library
      BY <1>0 DEF Rebuilds, BuildStages, RecParts
    <2>2. builder' = [builder EXCEPT ![b] = r]
          /\ UNCHANGED <<library, runs, backoff, recLock, running, upsets>>
      BY <1>5 DEF ListGames
    <2>3. library \in 1..library /\ \A i \in DOMAIN runs : runs[i].input <= library
      BY <1>0 DEF RecParts, Fenced, Ordered
    <2> HIDE DEF r
    <2> QED BY <1>0, <2>1, <2>2, <2>3, BuilderMoves DEF RecParts
  <1>6. CASE Compare(b)
    <2>1. CASE Turn(b, "unlock")
      BY <1>6, <2>1, TurnAdvances DEF Compare
    <2>2. CASE Turn(b, "create")
      <3> DEFINE r == [builder[b] EXCEPT !.at = "create"]
      <3>1. r \in Rebuilds /\ r.at = "create" /\ r.input = builder[b].input
        BY <1>0 DEF Rebuilds, BuildStages
      <3>2. /\ builder[b].at = "compare" /\ recLock = b /\ builder' = [builder EXCEPT ![b] = r]
            /\ UNCHANGED <<library, runs, backoff, recLock, running, upsets>>
        BY <1>6, <2>2 DEF Compare, InSession, Turn
      <3>3. /\ builder[b].input \in 1..library
            /\ \A i \in DOMAIN runs : runs[i].input <= builder[b].input
        BY <1>0, <3>2 DEF Fenced, Holder, RecParts
      <3> HIDE DEF r
      <3> QED BY <1>0, <3>1, <3>2, <3>3, BuilderMoves DEF RecParts
    <2> QED BY <1>6, <2>1, <2>2 DEF Compare
  <1>7. CASE CreateRun(b)
    BY <1>7, CreateAdvances
  <1>8. CASE FinalizeRun(b)
    BY <1>0, <1>8, EndAdvances DEF FinalizeRun, InSession, RecParts
  <1>9. CASE MarkFailed(b)
    BY <1>9, EndAdvances DEF MarkFailed, InSession
  <1>10. CASE UnlockTarget(b)
    BY <1>0, <1>10, DoneAdvances DEF UnlockTarget, RecJobDone, RecParts
  <1>11. CASE NoSession(b)
    BY <1>0, <1>11, DoneAdvances DEF NoSession, RecJobDone, RecParts
  <1> QED BY <1>1, <1>2, <1>3, <1>4, <1>5, <1>6, <1>7, <1>8, <1>9, <1>10, <1>11 DEF BuilderStep

\* Steps that move no builder.
LEMMA AsideAdvances ==
    ASSUME Fenced, UNCHANGED <<runs, builder>>, library' \in 1..(MaxChanges + 1),
           library' >= library, backoff' \in BOOLEAN, recLock' \in {recLock, NoBuilder},
           running' \subseteq Builders, upsets' \in 0..MaxUpsets
    PROVE  Advances
  <1>1. RecTypeOK' /\ library \in Int /\ library' \in Int
    BY DEF Fenced, RecTypeOK
  <1>2. ASSUME recLock' # NoBuilder PROVE Holder(recLock)'
    <2>1. recLock' = recLock /\ Holder(recLock)
      BY <1>2 DEF Fenced
    <2> QED BY <1>1, <2>1 DEF Holder
  <1> QED BY <1>1, <1>2, RunsRest

LEMMA FaultAdvances ==
    ASSUME Fenced, NEW b \in Builders, BuilderFault(b)
    PROVE  Advances
  <1>0. RecParts /\ builder[b] \in Rebuilds
    BY RecPartsTyped DEF RecParts
  <1>1. CASE BuildFails(b)
    <2> DEFINE r == [builder[b] EXCEPT !.at = "failing"]
    <2>1. r \in Rebuilds /\ r.at = "failing" /\ r.run = builder[b].run
      BY <1>0 DEF Rebuilds, BuildStages
    <2>2. /\ builder[b].at = "build" /\ recLock = b /\ builder' = [builder EXCEPT ![b] = r]
          /\ Upset /\ UNCHANGED <<library, runs, backoff, recLock, running>>
      BY <1>1 DEF BuildFails, InSession, Turn
    <2> HIDE DEF r
    <2> QED BY <1>0, <2>1, <2>2, UpsetTyped, BuilderMoves DEF RecParts
  <1>2. CASE SessionDrops(b)
    BY <1>0, <1>2, UpsetTyped, AsideAdvances DEF SessionDrops, RecParts
  <1>3. CASE BuilderDies(b)
    BY <1>0, <1>3, UpsetTyped, DoneAdvances DEF BuilderDies, RecParts
  <1>4. CASE RequeueLive(b)
    BY <1>0, <1>4, UpsetTyped, AsideAdvances DEF RequeueLive, RecParts
  <1> QED BY <1>1, <1>2, <1>3, <1>4 DEF BuilderFault

LEMMA NextAdvances == Fenced /\ RecNext => Advances
  <1> SUFFICES ASSUME Fenced, RecNext PROVE Advances
    OBVIOUS
  <1>0. RecParts
    BY RecPartsTyped
  <1>1. ASSUME NEW b \in Builders, RequeueDead(b) PROVE Advances
    BY <1>0, <1>1, AsideAdvances DEF RequeueDead, RecParts
  <1>2. ASSUME NEW b \in Builders, NEW kind \in {"manual", "forced"}, ClaimRequested(b, kind)
        PROVE  Advances
    <2> DEFINE r == [Off EXCEPT !.at = "lock", !.kind = kind]
    <2>1. r \in Rebuilds /\ r.at = "lock"
      BY DEF Off, Rebuilds, BuildStages
    <2>2. running' \subseteq Builders /\ builder' = [builder EXCEPT ![b] = r] /\ Upset
          /\ UNCHANGED <<library, runs, backoff, recLock>>
      BY <1>0, <1>2 DEF ClaimRequested, RecParts
    <2> HIDE DEF r
    <2> QED BY <1>0, <2>1, <2>2, UpsetTyped, BuilderMoves DEF RecParts
  <1>3. CASE LibraryChanges
    BY <1>0, <1>3, RecAssumption, AsideAdvances DEF LibraryChanges, RecParts
  <1>4. CASE FailStaleRuns
    BY <1>4, FailStaleAdvances
  <1>5. CASE BackoffOver
    <2>1. backoff' = FALSE /\ UNCHANGED <<library, runs, recLock, builder, running, upsets>>
      BY <1>5, Zenon DEF BackoffOver
    <2>2. backoff' \in BOOLEAN
      BY <2>1
    <2> QED BY <1>0, <2>1, <2>2, AsideAdvances DEF RecParts
  <1> QED BY <1>1, <1>2, <1>3, <1>4, <1>5, StepAdvances, FaultAdvances DEF RecNext

LEMMA FencedInit == RecInit => Fenced
  <1> SUFFICES ASSUME RecInit PROVE Fenced
    OBVIOUS
  <1>1. builder \in [Builders -> Rebuilds]
    BY OffIsOne DEF RecInit
  <1>2. [status |-> "SUCCESS", input |-> 1] \in Run
    BY RecAssumption DEF Run, RunStatuses
  <1>3. runs \in Seq(Run) /\ \A i \in DOMAIN runs : runs[i].input = 1
    <2>1. CASE runs = <<>>
      BY <2>1
    <2>2. CASE runs = <<[status |-> "SUCCESS", input |-> 1]>>
      BY <1>2, <2>2
    <2> QED BY <2>1, <2>2 DEF RecInit
  <1>4. /\ library = 1 /\ backoff = FALSE /\ recLock = NoBuilder /\ running = {} /\ upsets = 0
        /\ MaxChanges \in Nat /\ MaxUpsets \in Nat
    BY RecAssumption DEF RecInit
  <1>5. RecTypeOK
    <2>1. backoff \in BOOLEAN /\ recLock \in Builders \union {NoBuilder} /\ running \subseteq Builders
      BY <1>4
    <2>2. library \in 1..(MaxChanges + 1) /\ upsets \in 0..MaxUpsets
      BY <1>4
    <2> QED BY <1>1, <1>3, <2>1, <2>2 DEF RecTypeOK, Rebuilds, BuildStages, Run
  <1> QED BY <1>3, <1>4, <1>5 DEF RecInit, Fenced, Ordered

LEMMA FencedNext == Fenced /\ [RecNext]_recVars => Fenced'
  <1> SUFFICES ASSUME Fenced, [RecNext]_recVars PROVE Fenced'
    OBVIOUS
  <1>1. CASE RecNext
    BY <1>1, NextAdvances DEF Advances
  <1>2. CASE UNCHANGED recVars
    <2>1. RecParts
      BY RecPartsTyped
    <2> QED BY <1>2, <2>1, AsideAdvances DEF recVars, RecParts, Advances
  <1> QED BY <1>1, <1>2

(***************************************************************************)
(* The variables have their type; in particular the runs of the target are *)
(* a sequence in which every run has read a library that existed.          *)
(***************************************************************************)
THEOREM RecTypeCorrect == RecSpec => []RecTypeOK
  <1>1. Fenced => RecTypeOK
    BY DEF Fenced
  <1> QED BY <1>1, FencedInit, FencedNext, PTL DEF RecSpec

(***************************************************************************)
(* What is served never goes back to an older library: everything a        *)
(* rebuild writes, it writes on the session that holds the target's lock   *)
(* (rebuild in recommendations/service.ts, withAdvisoryLock), for any      *)
(* number of builders, dropped sessions, crashes and recovered runs.       *)
(***************************************************************************)
THEOREM NothingOlderIsServed == RecSpec => ServedNeverRegresses
  <1>1. Fenced /\ [RecNext]_recVars => [Served' >= Served]_recVars
    BY NextAdvances DEF Advances
  <1> QED BY <1>1, FencedInit, FencedNext, PTL DEF RecSpec, ServedNeverRegresses
=============================================================================
