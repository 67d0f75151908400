--------------------------- MODULE ServerTasks_proofs ---------------------------
(***************************************************************************)
(* Proofs about SaleAlerts, for any number of refreshes, prices and slips: *)
(* its types, that a sale nobody was told of was paid for by a slip, and   *)
(* that a second alert of one sale was paid for by two.  Then about the    *)
(* run that shows SaleAlerts beside six other components: a behaviour of   *)
(* it is one of each component, and has its types.                         *)
(***************************************************************************)
EXTENDS MCServerTasks, ReleaseMonitor_proofs, Provider_proofs, Recommendations_proofs,
        FiniteSetTheorems, TLAPS

USE SaleAssumption

\* From the onset of a sale on a refresh is about one.
Stage == {"onset", "reserve", "tokens", "send", "finalise", "release", "again"}
AboutSales ==
    /\ \A w \in Sellers : seller[w].at \in Stage => seller[w].quote \in onsets
    /\ \A d \in Discounts : saleLog[d] # "none" => d \in onsets

SaleTyped == SaleTypeOK /\ AboutSales

\* The refreshes at some stages of the alert of sale d.
With(S, d) == {w \in Sellers : seller[w].at \in S /\ seller[w].quote = d}
Count(S, d) == Cardinality(With(S, d))
Sending == {"tokens", "send"}
Failing == {"release", "again"}
Taken(d) == IF saleLog[d] = "none" THEN 0 ELSE 1

\* Each alert, sent or on its way, has made a reservation, and each failed one will delete
\* one.  A reservation beyond that was made because a DELETE took effect and was repeated,
\* which took two slips: the failure before it and the throw.
Accounted ==
    \A d \in Discounts :
        2 * (alerts[d] + Count(Sending, d) + Count(Failing, d) - Taken(d)) + Count({"release"}, d)
            <= slips

\* A sale that nobody will announce unless it starts anew: no refresh is about to send it,
\* nor can one at an earlier stage reserve it.
Given(d) ==
    /\ d \in onsets \ muted /\ alerts[d] = 0
    /\ \A w \in Sellers : seller[w].quote = d =>
         /\ seller[w].at \notin Sending
         /\ saleLog[d] = "none" => seller[w].at \notin {"onset", "reserve"}
Forgotten == {d \in Discounts : Given(d)}
Paid == IsFiniteSet(Forgotten) /\ Cardinality(Forgotten) <= slips

-----------------------------------------------------------------------------
(* Types. *)

LEMMA TypedInit == SaleInit => SaleTyped
BY DEF SaleInit, SaleTyped, SaleTypeOK, AboutSales, Prices, Stages, Stage, Free

\* Every step of a refresh keeps the types, and what it is about among the sales begun.
LEMMA SellerTyped ==
    ASSUME SaleTyped, NEW w \in Sellers, FetchPrice(w) \/ SellerStep(w) \/ SellerFault(w)
    PROVE  SaleTyped'
<1> USE DEF SaleTyped, SaleTypeOK, AboutSales, Prices, Stages, Stage, At, Go, Leave, Free, Book, Slip, Deleted
<1>1. CASE FetchPrice(w)
  BY <1>1 DEF FetchPrice
<1>2. CASE PersistPrice(w)
  <2>1. CASE price = FullPrice /\ seller[w].quote # FullPrice
    BY <1>2, <2>1 DEF PersistPrice
  <2>2. CASE ~(price = FullPrice /\ seller[w].quote # FullPrice)
    BY <1>2, <2>2 DEF PersistPrice
  <2>3. QED
    BY <2>1, <2>2
<1>3. CASE AppendEvent(w)
  BY <1>3 DEF AppendEvent
<1>4. CASE Muted(w)
  BY <1>4 DEF Muted
<1>5. CASE ReserveAlert(w)
  <2>1. CASE saleLog[seller[w].quote] = "none"
    BY <1>5, <2>1 DEF ReserveAlert
  <2>2. CASE saleLog[seller[w].quote] # "none"
    BY <1>5, <2>2 DEF ReserveAlert
  <2>3. QED
    BY <2>1, <2>2
<1>6. CASE LoadTokens(w)
  BY <1>6 DEF LoadTokens
<1>7. CASE NoTokens(w)
  BY <1>7 DEF NoTokens
<1>8. CASE SendAlert(w)
  BY <1>8 DEF SendAlert
<1>9. CASE SendFails(w)
  BY <1>9 DEF SendFails
<1>10. CASE FinaliseAlert(w)
  BY <1>10 DEF FinaliseAlert
<1>11. CASE ReleaseAlert(w)
  BY <1>11 DEF ReleaseAlert
<1>12. CASE SellerThrows(w)
  BY <1>12 DEF SellerThrows
<1>13. CASE SellerDies(w)
  BY <1>13 DEF SellerDies
<1>14. QED
  BY <1>1, <1>2, <1>3, <1>4, <1>5, <1>6, <1>7, <1>8, <1>9, <1>10, <1>11, <1>12, <1>13
  DEF SellerStep, SellerFault

\* The shop and the clients leave the refreshes alone.
LEMMA OthersTyped ==
    ASSUME SaleTyped, NEW p \in Prices, Quote(p) \/ PushPrice(p)
    PROVE  SaleTyped' /\ UNCHANGED <<seller, saleLog, alerts, onsets, muted>> /\ slips <= slips'
BY DEF Quote, PushPrice, SaleTyped, SaleTypeOK, AboutSales, Book, Slip

LEMMA TypedNext == SaleTyped /\ [SaleNext]_saleVars => SaleTyped'
<1>1. ASSUME SaleTyped, UNCHANGED saleVars PROVE SaleTyped'
  BY <1>1 DEF saleVars, SaleTyped, SaleTypeOK, AboutSales
<1>2. QED
  BY <1>1, SellerTyped, OthersTyped DEF SaleNext

\* The state of the shop, the payload, the refreshes, the log and the history keep their types.
THEOREM SaleTypeCorrect == SaleSpec => []SaleTypeOK
<1>1. SaleTyped => SaleTypeOK
  BY DEF SaleTyped
<1>2. QED
  BY <1>1, TypedInit, TypedNext, PTL DEF SaleSpec

-----------------------------------------------------------------------------
(* The account of alerts and reservations.                                 *)

\* What one refresh contributes to a count.
In(w, S, d) == IF seller[w].at \in S /\ seller[w].quote = d THEN 1 ELSE 0

\* When one refresh moves, a count changes by its contribution.
LEMMA Counting ==
    ASSUME NEW w \in Sellers, \A v \in Sellers \ {w} : seller'[v] = seller[v], NEW S, NEW d
    PROVE  Count(S, d) \in Nat /\ Count(S, d)' = Count(S, d) - In(w, S, d) + In(w, S, d)'
<1>1. IsFiniteSet(With(S, d)) /\ IsFiniteSet(With(S, d)')
  BY FS_Subset DEF With
<1>2. Count(S, d) \in Nat /\ Count(S, d)' \in Nat
  BY <1>1, FS_CardinalityType DEF Count
<1>3. w \in With(S, d) <=> In(w, S, d) = 1
  BY DEF With, In
<1>4. w \in With(S, d)' <=> In(w, S, d)' = 1
  BY DEF With, In
<1>5. CASE In(w, S, d) = 1 /\ In(w, S, d)' = 1
  <2>1. With(S, d)' = With(S, d)
    BY <1>3, <1>4, <1>5 DEF With
  <2>2. QED
    BY <1>2, <1>5, <2>1 DEF Count
<1>6. CASE In(w, S, d) = 1 /\ In(w, S, d)' # 1
  <2>1. With(S, d)' = With(S, d) \ {w} /\ In(w, S, d)' = 0
    BY <1>3, <1>4, <1>6 DEF With, In
  <2>2. QED
    BY <1>1, <1>2, <1>3, <1>6, <2>1, FS_RemoveElement DEF Count
<1>7. CASE In(w, S, d) # 1 /\ In(w, S, d)' = 1
  <2>1. With(S, d)' = With(S, d) \union {w} /\ In(w, S, d) = 0
    BY <1>3, <1>4, <1>7 DEF With, In
  <2>2. QED
    BY <1>1, <1>2, <1>3, <1>7, <2>1, FS_AddElement DEF Count
<1>8. CASE In(w, S, d) # 1 /\ In(w, S, d)' # 1
  <2>1. With(S, d)' = With(S, d) /\ In(w, S, d) = 0 /\ In(w, S, d)' = 0
    BY <1>3, <1>4, <1>8 DEF With, In
  <2>2. QED
    BY <1>2, <2>1 DEF Count
<1>9. QED
  BY <1>5, <1>6, <1>7, <1>8

\* What a refresh adds to the account of sale d by itself.
Share(w, d) ==
    2 * (alerts[d] + In(w, Sending, d) + In(w, Failing, d) - Taken(d)) + In(w, {"release"}, d) - slips

\* A step of one refresh that does not raise its share keeps the account.
LEMMA ShareCounts ==
    ASSUME SaleTyped, SaleTyped', Accounted, NEW w \in Sellers,
           \A v \in Sellers \ {w} : seller'[v] = seller[v],
           \A d \in Discounts : Share(w, d)' <= Share(w, d)
    PROVE  Accounted'
<1> SUFFICES ASSUME NEW d \in Discounts
             PROVE  2 * (alerts'[d] + Count(Sending, d)' + Count(Failing, d)' - Taken(d)')
                        + Count({"release"}, d)' <= slips'
  BY DEF Accounted, Count, With, Taken, Sending, Failing
<1>1. /\ Count(Sending, d) \in Nat
      /\ Count(Sending, d)' = Count(Sending, d) - In(w, Sending, d) + In(w, Sending, d)'
  BY Counting
<1>2. /\ Count(Failing, d) \in Nat
      /\ Count(Failing, d)' = Count(Failing, d) - In(w, Failing, d) + In(w, Failing, d)'
  BY Counting
<1>3. /\ Count({"release"}, d) \in Nat
      /\ Count({"release"}, d)' =
           Count({"release"}, d) - In(w, {"release"}, d) + In(w, {"release"}, d)'
  BY Counting
<1>4. \A S : In(w, S, d) \in Int /\ In(w, S, d)' \in Int
  BY DEF In
<1>5. Taken(d) \in Int /\ Taken(d)' \in Int
  BY DEF Taken
<1>6. alerts[d] \in Nat /\ alerts'[d] \in Nat /\ slips \in Nat /\ slips' \in Nat
  BY DEF SaleTyped, SaleTypeOK
<1>7. 2 * (alerts[d] + Count(Sending, d) + Count(Failing, d) - Taken(d)) + Count({"release"}, d)
        <= slips
  BY DEF Accounted
<1>8. 2 * (alerts'[d] + In(w, Sending, d)' + In(w, Failing, d)' - Taken(d)') + In(w, {"release"}, d)' - slips'
        <= 2 * (alerts[d] + In(w, Sending, d) + In(w, Failing, d) - Taken(d)) + In(w, {"release"}, d) - slips
  BY DEF Share, In, Taken, Sending, Failing
<1>9. QED
  BY <1>1, <1>2, <1>3, <1>4, <1>5, <1>6, <1>7, <1>8

\* No step of a refresh raises its share: a reservation pays for an alert, a slip for the
\* failure of one, and a further slip for a DELETE that will be repeated.
LEMMA SharePaid ==
    ASSUME SaleTyped, SaleTyped', NEW w \in Sellers, FetchPrice(w) \/ SellerStep(w) \/ SellerFault(w),
           NEW d \in Discounts
    PROVE  Share(w, d)' <= Share(w, d)
<1> USE DEF SaleTyped, SaleTypeOK, Share, In, Taken, Sending, Failing, At, Go, Leave, Free, Book, Slip
<1>0. alerts[d] \in Nat /\ slips \in Nat /\ seller[w] \in [at : Stages, quote : Prices]
  OBVIOUS
<1>1. CASE FetchPrice(w)
  BY <1>0, <1>1 DEF FetchPrice
<1>2. CASE PersistPrice(w)
  BY <1>0, <1>2 DEF PersistPrice
<1>3. CASE AppendEvent(w)
  BY <1>0, <1>3 DEF AppendEvent
<1>4. CASE Muted(w)
  BY <1>0, <1>4 DEF Muted
<1>5. CASE ReserveAlert(w)
  BY <1>0, <1>5 DEF ReserveAlert
<1>6. CASE LoadTokens(w)
  BY <1>0, <1>6 DEF LoadTokens
<1>7. CASE NoTokens(w)
  BY <1>0, <1>7 DEF NoTokens
<1>8. CASE SendAlert(w)
  BY <1>0, <1>8 DEF SendAlert
<1>9. CASE SendFails(w)
  BY <1>0, <1>9 DEF SendFails
<1>10. CASE FinaliseAlert(w)
  BY <1>0, <1>10 DEF FinaliseAlert
<1>11. CASE ReleaseAlert(w)
  BY <1>0, <1>11 DEF ReleaseAlert, Deleted
<1>12. CASE SellerThrows(w)
  BY <1>0, <1>12 DEF SellerThrows, Deleted
<1>13. CASE SellerDies(w)
  BY <1>0, <1>13 DEF SellerDies
<1>14. QED
  BY <1>1, <1>2, <1>3, <1>4, <1>5, <1>6, <1>7, <1>8, <1>9, <1>10, <1>11, <1>12, <1>13
  DEF SellerStep, SellerFault

\* A step of a refresh is a step of that refresh.
LEMMA OneMoves ==
    ASSUME SaleTyped, NEW w \in Sellers, FetchPrice(w) \/ SellerStep(w) \/ SellerFault(w)
    PROVE  \A v \in Sellers \ {w} : seller'[v] = seller[v]
BY DEF FetchPrice, SellerStep, SellerFault, PersistPrice, AppendEvent, Muted, ReserveAlert,
       LoadTokens, NoTokens, SendAlert, SendFails, FinaliseAlert, ReleaseAlert, SellerThrows,
       SellerDies, Go, Leave, SaleTyped, SaleTypeOK

LEMMA AccountedInit == SaleInit => Accounted
<1> SUFFICES ASSUME SaleInit, NEW d \in Discounts
             PROVE  2 * (alerts[d] + Count(Sending, d) + Count(Failing, d) - Taken(d))
                        + Count({"release"}, d) <= slips
  BY DEF Accounted
<1>1. With(Sending, d) = {} /\ With(Failing, d) = {} /\ With({"release"}, d) = {}
  BY DEF SaleInit, With, Sending, Failing, Free
<1>2. Count(Sending, d) = 0 /\ Count(Failing, d) = 0 /\ Count({"release"}, d) = 0
  BY <1>1, FS_EmptySet DEF Count
<1>3. QED
  BY <1>2 DEF SaleInit, Taken

LEMMA AccountedNext == SaleTyped /\ Accounted /\ [SaleNext]_saleVars => Accounted'
<1> SUFFICES ASSUME SaleTyped, Accounted, [SaleNext]_saleVars PROVE Accounted'
  OBVIOUS
<1>0. SaleTyped'
  BY TypedNext
<1>1. ASSUME NEW w \in Sellers, FetchPrice(w) \/ SellerStep(w) \/ SellerFault(w)
      PROVE  Accounted'
  BY <1>0, <1>1, OneMoves, SharePaid, ShareCounts
<1>2. ASSUME UNCHANGED <<seller, saleLog, alerts>>, slips <= slips' PROVE Accounted'
  <2> SUFFICES ASSUME NEW d \in Discounts
               PROVE  2 * (alerts[d] + Count(Sending, d) + Count(Failing, d) - Taken(d))
                          + Count({"release"}, d) <= slips'
    BY <1>2 DEF Accounted, Count, With, Taken
  <2>1. \A S : IsFiniteSet(With(S, d))
    BY FS_Subset DEF With
  <2>2. \A S : Count(S, d) \in Nat
    BY <2>1, FS_CardinalityType DEF Count
  <2>3. alerts[d] \in Nat /\ slips \in Nat /\ slips' \in Nat /\ Taken(d) \in Int
    BY <1>0 DEF SaleTyped, SaleTypeOK, Taken
  <2>4. QED
    BY <1>2, <2>2, <2>3 DEF Accounted
<1>3. ASSUME NEW p \in Prices, Quote(p) \/ PushPrice(p) PROVE Accounted'
  BY <1>2, <1>3, OthersTyped
<1>4. CASE UNCHANGED saleVars
  BY <1>2, <1>4 DEF saleVars, SaleTyped, SaleTypeOK
<1>5. QED
  BY <1>1, <1>3, <1>4 DEF SaleNext

\* A sale of one key is acknowledged again only at the price of two slips for each time.
THEOREM AlertsAreSingle == SaleSpec => []SalesAreAnnouncedOnce
<1>1. SaleTyped /\ Accounted => SalesAreAnnouncedOnce
  <2> SUFFICES ASSUME SaleTyped, Accounted, NEW d \in Discounts PROVE 2 * (alerts[d] - 1) <= slips
    BY DEF SalesAreAnnouncedOnce
  <2>1. \A S : IsFiniteSet(With(S, d))
    BY FS_Subset DEF With
  <2>2. \A S : Count(S, d) \in Nat
    BY <2>1, FS_CardinalityType DEF Count
  <2>3. alerts[d] \in Nat /\ slips \in Nat /\ Taken(d) \in {0, 1}
    BY DEF SaleTyped, SaleTypeOK, Taken
  <2>4. 2 * (alerts[d] + Count(Sending, d) + Count(Failing, d) - Taken(d)) + Count({"release"}, d)
          <= slips
    BY DEF Accounted
  <2>5. QED
    BY <2>2, <2>3, <2>4
<1>2. QED
  BY <1>1, TypedInit, TypedNext, AccountedInit, AccountedNext, PTL DEF SaleSpec

-----------------------------------------------------------------------------
(* The account of sales nobody was told of.                                *)

\* Only a slip of a refresh makes somebody forget a sale, the one the refresh is about.
LEMMA OneForgotten ==
    ASSUME SaleTyped, SaleTyped', NEW w \in Sellers, FetchPrice(w) \/ SellerStep(w) \/ SellerFault(w),
           NEW d \in Discounts, Given(d)', ~Given(d)
    PROVE  d = seller[w].quote /\ slips' = slips + 1
<1> USE DEF SaleTyped, SaleTypeOK, AboutSales, Given, Sending, Stage, Stages, At, Go, Leave, Free, Book, Slip
<1>0. \A v \in Sellers \ {w} : seller'[v] = seller[v]
  BY OneMoves
<1>1. CASE FetchPrice(w)
  BY <1>0, <1>1 DEF FetchPrice
<1>2. CASE PersistPrice(w)
  BY <1>0, <1>2 DEF PersistPrice
<1>3. CASE AppendEvent(w)
  BY <1>0, <1>3 DEF AppendEvent
<1>4. CASE Muted(w)
  BY <1>0, <1>4 DEF Muted
<1>5. CASE ReserveAlert(w)
  BY <1>0, <1>5 DEF ReserveAlert
<1>6. CASE LoadTokens(w)
  BY <1>0, <1>6 DEF LoadTokens
<1>7. CASE NoTokens(w)
  BY <1>0, <1>7 DEF NoTokens
<1>8. CASE SendAlert(w)
  BY <1>0, <1>8 DEF SendAlert
<1>9. CASE SendFails(w)
  BY <1>0, <1>9 DEF SendFails
<1>10. CASE FinaliseAlert(w)
  BY <1>0, <1>10 DEF FinaliseAlert
<1>11. CASE ReleaseAlert(w)
  BY <1>0, <1>11 DEF ReleaseAlert, Deleted
<1>12. CASE SellerThrows(w)
  BY <1>0, <1>12 DEF SellerThrows, Deleted
<1>13. CASE SellerDies(w)
  BY <1>0, <1>13 DEF SellerDies
<1>14. QED
  BY <1>1, <1>2, <1>3, <1>4, <1>5, <1>6, <1>7, <1>8, <1>9, <1>10, <1>11, <1>12, <1>13
  DEF SellerStep, SellerFault

\* Slips are never taken back.
LEMMA SlipsGrow ==
    ASSUME SaleTyped, [SaleNext]_saleVars
    PROVE  slips \in Nat /\ slips' \in Nat /\ slips <= slips'
BY DEF SaleNext, saleVars, Quote, PushPrice, FetchPrice, SellerStep, SellerFault, PersistPrice,
       AppendEvent, Muted, ReserveAlert, LoadTokens, NoTokens, SendAlert, SendFails, FinaliseAlert,
       ReleaseAlert, SellerThrows, SellerDies, Slip, Book, SaleTyped, SaleTypeOK

LEMMA PaidNext == SaleTyped /\ Paid /\ [SaleNext]_saleVars => Paid'
<1> SUFFICES ASSUME SaleTyped, Paid, [SaleNext]_saleVars PROVE Paid'
  OBVIOUS
<1>0. SaleTyped' /\ slips \in Nat /\ slips' \in Nat /\ slips <= slips'
  BY TypedNext, SlipsGrow
<1>1. IsFiniteSet(Forgotten) /\ Cardinality(Forgotten) \in Nat /\ Cardinality(Forgotten) <= slips
  BY FS_CardinalityType DEF Paid
<1>2. ASSUME Forgotten' \subseteq Forgotten PROVE Paid'
  <2>1. IsFiniteSet(Forgotten') /\ Cardinality(Forgotten') <= Cardinality(Forgotten)
    BY <1>1, <1>2, FS_Subset
  <2>2. Cardinality(Forgotten') \in Nat
    BY <2>1, FS_CardinalityType
  <2>3. QED
    BY <1>0, <1>1, <2>1, <2>2 DEF Paid
<1>3. ASSUME NEW w \in Sellers, FetchPrice(w) \/ SellerStep(w) \/ SellerFault(w)
      PROVE  Paid'
  <2>1. \A d \in Discounts : Given(d)' /\ ~Given(d) => d = seller[w].quote /\ slips' = slips + 1
    BY <1>0, <1>3, OneForgotten
  <2>2. CASE Forgotten' \subseteq Forgotten
    BY <1>2, <2>2
  <2>3. CASE ~(Forgotten' \subseteq Forgotten)
    <3> DEFINE e == seller[w].quote
    <3>1. slips' = slips + 1 /\ Forgotten' \subseteq Forgotten \union {e}
      BY <2>1, <2>3 DEF Forgotten
    <3> HIDE DEF e
    <3>2. /\ IsFiniteSet(Forgotten \union {e})
          /\ Cardinality(Forgotten \union {e}) <= Cardinality(Forgotten) + 1
          /\ Cardinality(Forgotten \union {e}) \in Nat
      <4>1. CASE e \in Forgotten
        <5>1. Forgotten \union {e} = Forgotten
          BY <4>1
        <5>2. QED
          BY <1>1, <5>1
      <4>2. CASE e \notin Forgotten
        BY <1>1, <4>2, FS_AddElement
      <4>3. QED
        BY <4>1, <4>2
    <3>3. IsFiniteSet(Forgotten') /\ Cardinality(Forgotten') <= Cardinality(Forgotten \union {e})
      BY <3>1, <3>2, FS_Subset
    <3>4. Cardinality(Forgotten') \in Nat
      BY <3>3, FS_CardinalityType
    <3>5. QED
      BY <1>0, <1>1, <3>1, <3>2, <3>3, <3>4 DEF Paid
  <2>4. QED
    BY <2>2, <2>3
<1>4. ASSUME UNCHANGED <<seller, saleLog, alerts, onsets, muted>> PROVE Paid'
  <2>1. Forgotten' = Forgotten
    BY <1>4 DEF Forgotten, Given
  <2>2. QED
    BY <1>2, <2>1
<1>5. QED
  BY <1>3, <1>4, OthersTyped DEF SaleNext, saleVars

\* Every sale the payload entered has been announced, is being announced, was nobody's
\* business, or is paid for by a slip of its own.
THEOREM NoSaleUntold == SaleSpec => []SalesAreAnnounced
<1>1. SaleInit => Paid
  <2> SUFFICES ASSUME SaleInit PROVE Paid
    OBVIOUS
  <2>1. Forgotten = {}
    BY DEF SaleInit, Forgotten, Given
  <2>2. QED
    BY <2>1, FS_EmptySet DEF SaleInit, Paid
<1>2. SaleTyped /\ Paid => SalesAreAnnounced
  <2> SUFFICES ASSUME SaleTyped, Paid PROVE Cardinality(Untold) <= slips
    BY DEF SalesAreAnnounced
  <2>1. Untold \subseteq Forgotten
    BY DEF Untold, Announcing, Forgotten, Given, Sending, SaleTyped, SaleTypeOK
  <2>2. /\ IsFiniteSet(Untold) /\ Cardinality(Untold) <= Cardinality(Forgotten)
        /\ IsFiniteSet(Forgotten) /\ Cardinality(Forgotten) <= slips
    BY <2>1, FS_Subset DEF Paid
  <2>3. Cardinality(Untold) \in Nat /\ Cardinality(Forgotten) \in Nat /\ slips \in Nat
    BY <2>2, FS_CardinalityType DEF SaleTyped, SaleTypeOK
  <2>4. QED
    BY <2>2, <2>3
<1>3. QED
  BY <1>1, <1>2, TypedInit, TypedNext, PaidNext, PTL DEF SaleSpec

-----------------------------------------------------------------------------
(* The run that shows seven components one beside the other.               *)

(***************************************************************************)
(* A behaviour of MCServerTasks is one of each component's specification:  *)
(* the part that runs takes the component's own steps and the others none. *)
(* What is proved of a component therefore holds in the run.               *)
(***************************************************************************)
THEOREM PartsBehave ==
    TasksSpec => /\ MonitorSpec /\ SaleSpec /\ CompatSpec /\ ScheduleSpec /\ RateSpec /\ RecSpec
                 /\ DiscoveryInit /\ [][DiscoveryNext]_discoveryVars
<1>1. TasksInit => /\ MonitorInit /\ SaleInit /\ CompatInit /\ ScheduleInit /\ RateInit /\ RecInit
                   /\ DiscoveryInit
  BY DEF TasksInit
<1>2. [TasksNext]_tasksVars => [MonitorNext]_monitorVars
  BY DEF TasksNext, RunMonitor, RunSale, RunCompat, RunSchedule, RunRate, RunRecommendations,
         RunDiscovery, tasksVars
<1>3. [TasksNext]_tasksVars => [SaleNext]_saleVars
  BY DEF TasksNext, RunMonitor, RunSale, RunCompat, RunSchedule, RunRate, RunRecommendations,
         RunDiscovery, tasksVars
<1>4. [TasksNext]_tasksVars => [CompatNext]_compatVars
  BY DEF TasksNext, RunMonitor, RunSale, RunCompat, RunSchedule, RunRate, RunRecommendations,
         RunDiscovery, tasksVars
<1>5. [TasksNext]_tasksVars => [ScheduleNext]_scheduleVars
  BY DEF TasksNext, RunMonitor, RunSale, RunCompat, RunSchedule, RunRate, RunRecommendations,
         RunDiscovery, tasksVars
<1>6. [TasksNext]_tasksVars => [RateNext]_rateVars
  BY DEF TasksNext, RunMonitor, RunSale, RunCompat, RunSchedule, RunRate, RunRecommendations,
         RunDiscovery, tasksVars
<1>7. [TasksNext]_tasksVars => [RecNext]_recVars
  BY DEF TasksNext, RunMonitor, RunSale, RunCompat, RunSchedule, RunRate, RunRecommendations,
         RunDiscovery, tasksVars
<1>8. [TasksNext]_tasksVars => [DiscoveryNext]_discoveryVars
  BY DEF TasksNext, RunMonitor, RunSale, RunCompat, RunSchedule, RunRate, RunRecommendations,
         RunDiscovery, tasksVars
<1> QED
  BY <1>1, <1>2, <1>3, <1>4, <1>5, <1>6, <1>7, <1>8, PTL
  DEF TasksSpec, MonitorSpec, SaleSpec, CompatSpec, ScheduleSpec, RateSpec, RecSpec

(***************************************************************************)
(* The part that runs keeps its types, whichever it is.                    *)
(***************************************************************************)
THEOREM TasksTypeCorrect == TasksSpec => []TasksTypeOK
<1> DEFINE Enriching == DiscoveryTypeOK /\ Commanding
<1>1. DiscoveryInit => Enriching
  BY DiscoveryTypedInit DEF DiscoveryInit, Commanding
<1>2. Enriching /\ [DiscoveryNext]_discoveryVars => Enriching'
  BY DiscoveryTypedNext, CommandingNext
<1>3. DiscoveryInit /\ [][DiscoveryNext]_discoveryVars => []Enriching
  BY <1>1, <1>2, PTL
<1>4. (part \in Parts)
      /\ MonitorTypeOK /\ SaleTypeOK /\ CompatTypeOK /\ ScheduleTypeOK /\ RateTypeOK /\ RecTypeOK
      /\ Enriching => TasksTypeOK
  BY DEF TasksTypeOK, Parts
<1>5. TasksInit => part \in Parts
  BY DEF TasksInit
<1>6. part \in Parts /\ [TasksNext]_tasksVars => (part \in Parts)'
  BY DEF TasksNext, RunMonitor, RunSale, RunCompat, RunSchedule, RunRate, RunRecommendations,
         RunDiscovery, tasksVars
<1>7. TasksSpec => [](part \in Parts)
  BY <1>5, <1>6, PTL DEF TasksSpec
<1> QED
  BY <1>3, <1>4, <1>7, PartsBehave, MonitorTypeCorrect, SaleTypeCorrect, CompatTypeCorrect,
     ScheduleTypeCorrect, RateTypeCorrect, RecTypeCorrect, PTL
=============================================================================
