----------------------------- MODULE SaleAlerts -----------------------------
(***************************************************************************)
(* Price refreshes of a wishlist game and the alert that it went on sale   *)
(* (server/src/steam-prices.ts, psprices-prices.ts,                        *)
(* price-sale-notifications.ts; compat-status-notifications.ts repeats     *)
(* the sender word for word).                                              *)
(*                                                                         *)
(* A refresh writes the price it fetched; the UPDATE returns the payload   *)
(* before and after, and the refresh that took the game from full price to *)
(* a sale announces it: reserve the event key, load the tokens, send, and  *)
(* finalise or release.  Unlike the release monitor's, this sender         *)
(* releases its reservation when the send throws.  One game and one day    *)
(* are modelled: a key is then the sale's price.                           *)
(***************************************************************************)
EXTENDS Integers, FiniteSets

CONSTANTS
    Discounts,      \* prices below the regular one
    FullPrice,      \* the regular price, no sale
    Sellers,        \* job loops that run price revalidations of the game
    MaxQuotes,      \* bound: how often the shop changes its price
    MaxSlips        \* bound: crashes, throws, failed sends, muted settings, client pushes

ASSUME SaleAssumption ==
    /\ FullPrice \notin Discounts /\ IsFiniteSet(Sellers)
    /\ MaxQuotes \in Nat /\ MaxSlips \in Nat

Prices == Discounts \union {FullPrice}

VARIABLES
    shop,           \* the price the shop quotes
    price,          \* the price in games.payload
    seller,         \* [Sellers -> [at, quote]]: the statement a refresh is about to run
    saleLog,        \* [Discounts -> release_notification_log row of that key]
    alerts,         \* [Discounts -> Nat]: history, sends that FCM acknowledged
    onsets,         \* history: the sales the payload has entered
    muted,          \* history: the sales nobody was subscribed to
    quotes,         \* counts against MaxQuotes
    slips           \* counts against MaxSlips

saleVars == <<shop, price, seller, saleLog, alerts, onsets, muted, quotes, slips>>

Stages == {"idle", "persist", "event", "onset", "reserve", "tokens", "send", "finalise",
           "release", "again"}
Free == [at |-> "idle", quote |-> FullPrice]

SaleInit ==
    /\ shop = FullPrice /\ price = FullPrice
    /\ seller = [w \in Sellers |-> Free]
    /\ saleLog = [d \in Discounts |-> "none"] /\ alerts = [d \in Discounts |-> 0]
    /\ onsets = {} /\ muted = {}
    /\ quotes = 0 /\ slips = 0

At(w, stage) == seller[w].at = stage
Go(w, stage) == seller' = [seller EXCEPT ![w].at = stage]
Leave(w) == seller' = [seller EXCEPT ![w] = Free]
Slip == slips < MaxSlips /\ slips' = slips + 1
Book == <<saleLog, alerts, onsets, muted>>

\* The shop changes its price.
Quote(p) ==
    /\ quotes < MaxQuotes /\ p # shop
    /\ shop' = p /\ quotes' = quotes + 1
    /\ UNCHANGED <<price, seller, Book, slips>>

\* A client pushes its copy of the game: the price it knows replaces the row's.
PushPrice(p) ==
    /\ p # price /\ Slip
    /\ price' = p
    /\ UNCHANGED <<shop, seller, Book, quotes>>

\* A revalidation job fetches the shop's price.
FetchPrice(w) ==
    /\ At(w, "idle")
    /\ seller' = [seller EXCEPT ![w] = [at |-> "persist", quote |-> shop]]
    /\ UNCHANGED <<shop, price, Book, quotes, slips>>

\* UPDATE games ... RETURNING the payload before and after, under the row's lock.  The
\* fetch time is part of the patch, so there always is a change.
PersistPrice(w) ==
    LET p == seller[w].quote IN
    /\ At(w, "persist")
    /\ price' = p
    /\ IF price = FullPrice /\ p # FullPrice
       THEN onsets' = onsets \union {p} /\ Go(w, "onset")
       ELSE Go(w, "event") /\ UNCHANGED onsets
    /\ UNCHANGED <<shop, saleLog, alerts, muted, quotes, slips>>

\* Mutation: the sale is looked for in the row, which may be another refresh's by now.
AppendEventAndReload(w) ==
    /\ \/ At(w, "event") /\ Leave(w)
       \/ At(w, "onset") /\ IF price = seller[w].quote THEN Go(w, "reserve") ELSE Leave(w)
    /\ UNCHANGED <<shop, price, Book, quotes, slips>>

\* The sync event goes in with a statement of its own; then the sale is looked at.
AppendEvent(w) ==
    /\ \/ At(w, "event") /\ Leave(w)
       \/ At(w, "onset") /\ Go(w, "reserve")
    /\ UNCHANGED <<shop, price, Book, quotes, slips>>

\* The settings do not want sale alerts.
Muted(w) ==
    /\ At(w, "reserve") /\ Slip
    /\ muted' = muted \union {seller[w].quote}
    /\ Leave(w)
    /\ UNCHANGED <<shop, price, saleLog, alerts, onsets, quotes>>

\* Mutation: ON CONFLICT DO UPDATE, so that a duplicate goes ahead.
ReserveAnyway(w) ==
    /\ At(w, "reserve")
    /\ saleLog' = [saleLog EXCEPT ![seller[w].quote] = "reserved"] /\ Go(w, "tokens")
    /\ UNCHANGED <<shop, price, alerts, onsets, muted, quotes, slips>>

\* They do: INSERT ... ON CONFLICT DO NOTHING; a duplicate ends the matter.
ReserveAlert(w) ==
    LET d == seller[w].quote IN
    /\ At(w, "reserve")
    /\ IF saleLog[d] = "none"
       THEN saleLog' = [saleLog EXCEPT ![d] = "reserved"] /\ Go(w, "tokens")
       ELSE Leave(w) /\ UNCHANGED saleLog
    /\ UNCHANGED <<shop, price, alerts, onsets, muted, quotes, slips>>

\* loadActiveTokenSet finds tokens, or none.
LoadTokens(w) ==
    /\ At(w, "tokens") /\ Go(w, "send")
    /\ UNCHANGED <<shop, price, Book, quotes, slips>>
NoTokens(w) ==
    /\ At(w, "tokens") /\ Slip
    /\ muted' = muted \union {seller[w].quote}
    /\ Go(w, "release")
    /\ UNCHANGED <<shop, price, saleLog, alerts, onsets, quotes>>

SendAlert(w) ==
    /\ At(w, "send")
    /\ alerts' = [alerts EXCEPT ![seller[w].quote] = @ + 1]
    /\ Go(w, "finalise")
    /\ UNCHANGED <<shop, price, saleLog, onsets, muted, quotes, slips>>
SendFails(w) ==
    /\ At(w, "send") /\ Slip
    /\ Go(w, "release")
    /\ UNCHANGED <<shop, price, Book, quotes>>

FinaliseAlert(w) ==
    LET d == seller[w].quote IN
    /\ At(w, "finalise")
    /\ saleLog' = [saleLog EXCEPT ![d] = IF @ = "none" THEN @ ELSE "sent"]
    /\ Leave(w)
    /\ UNCHANGED <<shop, price, alerts, onsets, muted, quotes, slips>>

\* DELETE ... WHERE event_key = $1 AND sent_count = 0: whoever made the reservation.
Deleted(d) == [saleLog EXCEPT ![d] = IF @ = "reserved" THEN "none" ELSE @]
ReleaseAlert(w) ==
    /\ At(w, "release") \/ At(w, "again")
    /\ saleLog' = Deleted(seller[w].quote)
    /\ Leave(w)
    /\ UNCHANGED <<shop, price, alerts, onsets, muted, quotes, slips>>

\* A statement throws.  Before the send was acknowledged the catch block releases: for a
\* DELETE that threw (and may have been committed) that is the second time.
SellerThrows(w) ==
    /\ Slip
    /\ \/ /\ seller[w].at \in {"persist", "event", "onset", "reserve", "finalise", "again"}
          /\ Leave(w) /\ UNCHANGED saleLog
       \/ seller[w].at \in {"tokens", "send"} /\ Go(w, "again") /\ UNCHANGED saleLog
       \/ /\ At(w, "release") /\ Go(w, "again")
          /\ saleLog' \in {saleLog, Deleted(seller[w].quote)}
    /\ UNCHANGED <<shop, price, alerts, onsets, muted, quotes>>

SellerDies(w) ==
    /\ ~At(w, "idle") /\ Slip
    /\ Leave(w)
    /\ UNCHANGED <<shop, price, Book, quotes>>

SellerStep(w) ==
    \/ PersistPrice(w) \/ AppendEvent(w) \/ ReserveAlert(w) \/ LoadTokens(w) \/ SendAlert(w)
    \/ FinaliseAlert(w) \/ ReleaseAlert(w)
SellerFault(w) ==
    \/ Muted(w) \/ NoTokens(w) \/ SendFails(w) \/ SellerThrows(w) \/ SellerDies(w)

SaleNext ==
    \/ \E p \in Prices : Quote(p) \/ PushPrice(p)
    \/ \E w \in Sellers : FetchPrice(w) \/ SellerStep(w) \/ SellerFault(w)

SaleSpec == SaleInit /\ [][SaleNext]_saleVars

-----------------------------------------------------------------------------
SaleTypeOK ==
    /\ shop \in Prices /\ price \in Prices
    /\ seller \in [Sellers -> [at : Stages, quote : Prices]]
    /\ saleLog \in [Discounts -> {"none", "reserved", "sent"}]
    /\ alerts \in [Discounts -> Nat]
    /\ onsets \subseteq Discounts /\ muted \subseteq Discounts
    /\ quotes \in 0..MaxQuotes /\ slips \in 0..MaxSlips

(***************************************************************************)
(* Every sale the payload entered, by whichever of the concurrent          *)
(* refreshes, has been announced, is being announced, or was nobody's      *)
(* business: a sale nobody was told of is paid for by a slip of its own.   *)
(***************************************************************************)
Announcing(d) == \E w \in Sellers : seller[w].quote = d /\ seller[w].at \notin {"idle", "persist", "event"}
Untold == {d \in onsets \ muted : alerts[d] = 0 /\ ~Announcing(d)}
SalesAreAnnounced == Cardinality(Untold) <= slips

(***************************************************************************)
(* A sale of one key is acknowledged again only if a second DELETE removed *)
(* a reservation that was another refresh's by then, which takes a send    *)
(* that reached nobody and a DELETE that threw: two slips for each.        *)
(***************************************************************************)
SalesAreAnnouncedOnce == \A d \in Discounts : 2 * (alerts[d] - 1) <= slips
=============================================================================
