------------------------- MODULE SyncServer_proofs --------------------------
(***************************************************************************)
(* Proofs about SyncServer, for any number of connections, operations and  *)
(* writers.  Four theorems near the end have a condition: LogEndsInTheRow  *)
(* and EditsAreCarried exclude the writers of prices, CoversSurvive a      *)
(* second connection, CursorsCover both and all other writers.             *)
(***************************************************************************)
EXTENDS SyncServer, FiniteSetTheorems, WellFoundedInduction, TLAPS

USE OpsAssumption, MarkersAssumption, BoundsAssumption

\* A handler that works on an operation has one, applies only operations that
\* passed normalization, and has settled on a verdict before it records one.
Shape ==
    \A c \in Conns :
        /\ pc[c] \in {"read", "write", "event", "record"} => todo[c] # <<>>
        /\ pc[c] \in {"read", "write", "event"} =>
              /\ Head(todo[c]).kind \in {"upsert", "delete"}
              /\ verdict[c] = "applied"
        /\ pc[c] = "record" => verdict[c] # "none"

\* Event ids in use were handed out by the sequence.
Allocated ==
    /\ \A e \in events : e.id <= seq
    /\ \A c \in Conns : \A e \in txEvents[c] : e.id <= seq
    /\ \A w \in Writers : wid[w] <= seq

\* A writer at work knows the row it changes.
Assigned == \A w \in Writers : wpc[w] # "idle" => wkey[w] \in Keys /\ wrow[w] \in Row

Typed == TypeOK /\ Shape /\ Allocated /\ Assigned

\* The first operation of a nonempty request is one of its operations.
LEMMA HeadTail ==
    ASSUME NEW S, NEW s \in Seq(S), s # <<>>
    PROVE  Head(s) \in S /\ Tail(s) \in Seq(S)
OBVIOUS

\* A nonempty set of naturals with an upper bound has a largest element.
LEMMA LargestNatural ==
    ASSUME NEW T \in SUBSET Nat, T # {}, NEW n \in Nat, \A i \in T : i <= n
    PROVE  \E m \in T : \A i \in T : i <= m
<1> DEFINE D == {x \in Nat : n - x \in T}
<1>0. PICK i \in T : TRUE
  OBVIOUS
<1>1. D \subseteq Nat /\ D # {}
  <2>1. i \in Nat /\ i <= n
    OBVIOUS
  <2>2. n - i \in Nat /\ n - (n - i) = i
    BY <2>1
  <2>3. n - i \in D
    BY <2>2
  <2>4. QED
    BY <2>3
<1>2. PICK d \in D : \A x \in D : ~ (<<x, d>> \in OpToRel(<, Nat))
  BY <1>1, NatLessThanWellFounded, WFMin, Zenon
<1>3. \A x \in D : ~ (x < d)
  BY <1>1, <1>2 DEF OpToRel
<1>4. n - d \in T
  OBVIOUS
<1>5. \A j \in T : j <= n - d
  <2> SUFFICES ASSUME NEW j \in T PROVE j <= n - d
    OBVIOUS
  <2>1. j \in Nat /\ j <= n /\ n - d \in Nat /\ d \in Nat
    BY <1>4
  <2>2. n - j \in Nat /\ n - (n - j) = j
    BY <2>1
  <2>3. n - j \in D
    BY <2>2
  <2>4. ~ (n - j < d)
    BY <1>3, <2>3
  <2> HIDE DEF D
  <2>5. QED
    BY <2>1, <2>4
<1>6. QED
  BY <1>4, <1>5

\* LatestId of a bounded set of events is an upper bound of their ids.
LEMMA LatestIdIsLargest ==
    ASSUME NEW S \in SUBSET Event, NEW n \in Nat, \A e \in S : e.id <= n
    PROVE  /\ LatestId(S) \in Nat
           /\ LatestId(S) <= n
           /\ \A e \in S : e.id <= LatestId(S)
<1>1. CASE S = {}
  BY <1>1 DEF LatestId
<1>2. CASE S # {}
  <2> DEFINE T == {e.id : e \in S}
  <2>1. T \in SUBSET Nat /\ T # {} /\ \A i \in T : i <= n
    BY <1>2 DEF Event
  <2>2. PICK m \in T : \A i \in T : i <= m
    BY <2>1, LargestNatural
  <2>3. \E i \in T : \A e \in S : e.id <= i
    BY <2>2
  <2>4. LatestId(S) \in T /\ \A e \in S : e.id <= LatestId(S)
    BY <1>2, <2>3 DEF LatestId
  <2>5. QED
    BY <2>1, <2>4
<1>3. QED
  BY <1>1, <1>2

\* A fresh deployment is well typed: empty tables, no handler, no writer.
LEMMA TypedInit == Init => Typed
BY DEF Init, Typed, TypeOK, Shape, Allocated, Assigned, NoneOf, Verdicts, Statuses, InTx, Writers

\* ROLLBACK and release of a connection keep the types.
LEMMA RollbackTyped ==
    ASSUME Typed, NEW c \in Conns, Rollback(c)
    PROVE  Typed'
BY DEF Typed, TypeOK, Shape, Allocated, Assigned, Rollback, NoneOf, Verdicts, Statuses, InTx,
       tables, writers, pulling

\* Accepting a request keeps the types.
LEMMA PushTyped ==
    ASSUME Typed, NEW c \in Conns, NEW batch \in Batches, Push(c, batch)
    PROVE  Typed'
<1>1. batch \in Seq(Ops)
  BY DEF Batches
<1>2. QED
  BY <1>1 DEF Typed, TypeOK, Shape, Allocated, Assigned, Push, NoneOf, Verdicts, Statuses, InTx,
              tables, writers, pulling

\* What a handler's statement sees is a row or no row.
LEMMA ViewType ==
    ASSUME TypeOK, NEW c \in Conns, NEW k \in Keys
    PROVE  View(c, k) \in Row \cup {NoRow}
BY DEF TypeOK, View

\* The upsert stores a row, whatever it reconciled and replaced.
LEMMA UpsertedType ==
    ASSUME NEW o \in Ops, o.kind = "upsert",
           NEW old \in Row \cup {NoRow}, NEW current \in Row \cup {NoRow}
    PROVE  Upserted(o, ReconciledCover(o, old), current) \in Row
<1>1. o \in Op
  OBVIOUS
<1>2. ReconciledCover(o, old) \in Covers
  BY <1>1 DEF ReconciledCover, Op, Row
<1>3. QED
  BY <1>1, <1>2 DEF Upserted, Op, Row

\* Every statement of a push handler keeps the types.
LEMMA HandleTyped ==
    ASSUME Typed, NEW c \in Conns, Handle(c)
    PROVE  Typed'
<1> USE DEF Typed, TypeOK, Shape, Allocated, Assigned, Verdicts, Statuses, InTx,
            tables, writers, pulling, NoneOf
<1>1. CASE SkipDuplicate(c)
  BY <1>1, HeadTail DEF SkipDuplicate
<1>2. CASE StartOp(c)
  <2>1. Head(todo[c]) \in Op
    BY <1>2, HeadTail DEF StartOp
  <2>2. QED
    BY <1>2, <2>1, SMTT(30) DEF StartOp, Op
<1>3. CASE ReadExisting(c)
  <2>1. Head(todo[c]) \in Op
    BY <1>3, HeadTail DEF ReadExisting
  <2>2. View(c, Head(todo[c]).key) \in Row \cup {NoRow}
    BY <2>1, ViewType DEF Op
  <2>3. QED
    BY <1>3, <2>2 DEF ReadExisting
<1>4. CASE WriteRow(c)
  <2> DEFINE o == Head(todo[c])
             new == IF o.kind = "upsert"
                      THEN Upserted(o, ReconciledCover(o, existing[c]), View(c, o.key))
                      ELSE IF SeesNothing(c, o) THEN txRows[c][o.key] ELSE NoRow
  <2>1. o \in Ops /\ o.key \in Keys
    BY <1>4, HeadTail DEF WriteRow, Op
  <2>2. new \in Row \cup {NoRow, Untouched}
    <3>1. existing[c] \in Row \cup {NoRow} /\ View(c, o.key) \in Row \cup {NoRow}
      BY <2>1, ViewType
    <3>2. CASE o.kind = "upsert"
      BY <2>1, <3>1, <3>2, UpsertedType
    <3>3. CASE o.kind # "upsert"
      BY <2>1, <3>3
    <3>4. QED
      BY <3>2, <3>3
  <2>3. txRows' = [txRows EXCEPT ![c][o.key] = new]
    BY <1>4 DEF WriteRow
  <2> HIDE DEF new
  <2>4. QED
    BY <1>4, <2>1, <2>2, <2>3 DEF WriteRow
<1>5. CASE AppendEvent(c)
  <2> DEFINE o == Head(todo[c])
             e == [id |-> seq + 1, key |-> o.key, kind |-> o.kind, op |-> o,
                   row |-> IF o.kind = "upsert" THEN View(c, o.key) ELSE NoRow]
  <2>1. o \in Ops /\ o.key \in Keys /\ o.kind \in {"upsert", "delete"}
    BY <1>5, HeadTail DEF AppendEvent, Op
  <2>2. e \in Event /\ e.id = seq + 1
    BY <2>1, ViewType DEF Event
  <2>3. txEvents' = [txEvents EXCEPT ![c] = @ \cup {e}]
    BY <1>5 DEF AppendEvent
  <2> HIDE DEF e
  <2>4. TypeOK'
    BY <1>5, <2>2, <2>3 DEF AppendEvent
  <2>5. Shape'
    BY <1>5 DEF AppendEvent
  <2>6. Allocated'
    BY <1>5, <2>2, <2>3 DEF AppendEvent, Event
  <2>7. Assigned'
    BY <1>5 DEF AppendEvent
  <2>8. QED
    BY <2>4, <2>5, <2>6, <2>7
<1>6. CASE RecordOp(c)
  BY <1>6, HeadTail DEF RecordOp
<1>7. CASE CommitTx(c)
  <2>1. \A k \in Keys : View(c, k) \in Row \cup {NoRow}
    BY ViewType
  <2>2. \A o \in Ops : Decision(c, o) \in Verdicts
    BY DEF Decision
  <2>3. QED
    BY <1>7, <2>1, <2>2 DEF CommitTx
<1>8. CASE ReadLatest(c)
  <2>1. LatestId(events) \in Nat
    BY LatestIdIsLargest
  <2>2. QED
    BY <1>8, <2>1 DEF ReadLatest, Larger
<1>9. CASE RecordConflict(c) \/ DeadlockVictim(c) \/ Release(c)
  BY <1>9, RollbackTyped DEF RecordConflict, DeadlockVictim, Release
<1>10. QED
  BY <1>1, <1>2, <1>3, <1>4, <1>5, <1>6, <1>7, <1>8, <1>9 DEF Handle

\* Every statement of a background writer keeps the types.
LEMMA WriterTyped ==
    ASSUME Typed, NEW w \in Writers,
           \/ \E k \in Keys, i \in Infos : w \in Enrichers /\ EnrichBegin(w, k, i)
           \/ w \in Enrichers /\ EnrichCommit(w)
           \/ \E k \in Keys, i \in Infos : w \in Pricers /\ PriceUpdate(w, k, i)
           \/ w \in Pricers /\ PriceAppend(w)
           \/ WriterFails(w)
    PROVE  Typed'
<1> USE DEF Typed, TypeOK, Shape, Allocated, Assigned, tables, handler, pulling
<1>1. ASSUME NEW k \in Keys, NEW i \in Infos, Patched(w, k, i)
      PROVE  /\ wkey' \in [Writers -> Keys \cup {NoRow}]
             /\ wrow' \in [Writers -> Row \cup {NoRow}]
             /\ [rows[k] EXCEPT !.info = i] \in Row
             /\ wkey'[w] \in Keys /\ wrow'[w] \in Row
             /\ \A v \in Writers \ {w} : wkey'[v] = wkey[v] /\ wrow'[v] = wrow[v]
  <2>1. rows[k] \in Row
    BY <1>1 DEF Patched
  <2>2. [rows[k] EXCEPT !.info = i] \in Row
    BY <2>1 DEF Row
  <2>3. QED
    BY <1>1, <2>1, <2>2 DEF Patched
<1>2. ASSUME NEW i \in Nat, NEW k \in Keys, NEW row \in Row \cup {NoRow}
      PROVE  SystemEvent(i, k, row) \in Event
  BY DEF SystemEvent, Event
<1>3. CASE \E k \in Keys, i \in Infos : w \in Enrichers /\ EnrichBegin(w, k, i)
  <2>1. PICK k \in Keys, i \in Infos : EnrichBegin(w, k, i)
    BY <1>3
  <2>2. /\ wkey' \in [Writers -> Keys \cup {NoRow}]
        /\ wrow' \in [Writers -> Row \cup {NoRow}]
        /\ wkey'[w] \in Keys /\ wrow'[w] \in Row
        /\ \A v \in Writers \ {w} : wkey'[v] = wkey[v] /\ wrow'[v] = wrow[v]
    BY <2>1, <1>1 DEF EnrichBegin
  <2>3. TypeOK' /\ Shape' /\ Allocated'
    <3>1. seq + 1 \in Nat /\ seq' = seq + 1 /\ wpc' = [wpc EXCEPT ![w] = "open"]
      BY <2>1 DEF EnrichBegin
    <3>2. /\ wid' \in [Writers -> Nat] /\ wid'[w] = seq + 1
          /\ \A v \in Writers \ {w} : wid'[v] = wid[v]
      BY <2>1, <3>1 DEF EnrichBegin
    <3>3. UNCHANGED <<tables, handler, latestKnown, pulling>>
      BY <2>1 DEF EnrichBegin
    <3>4. TypeOK'
      BY <2>2, <3>1, <3>2, <3>3
    <3>5. Shape'
      BY <3>3
    <3>6. Allocated'
      <4>1. \A e \in events : e.id \in Nat
        BY DEF Event
      <4>2. \A d \in Conns : \A e \in txEvents[d] : e.id \in Nat
        BY DEF Event
      <4>3. ASSUME NEW v \in Writers PROVE wid'[v] <= seq'
        <5>1. wid[v] \in Nat /\ wid[v] <= seq /\ seq \in Nat
          OBVIOUS
        <5>2. CASE v = w
          BY <3>1, <3>2, <5>1, <5>2
        <5>3. CASE v # w
          BY <3>1, <3>2, <5>1, <5>3
        <5>4. QED
          BY <5>2, <5>3
      <4>4. QED
        BY <3>1, <3>3, <4>1, <4>2, <4>3
    <3>7. QED
      BY <3>4, <3>5, <3>6
  <2>4. Assigned'
    BY <2>1, <2>2 DEF EnrichBegin
  <2>5. QED
    BY <2>3, <2>4
<1>4. CASE w \in Enrichers /\ EnrichCommit(w)
  <2> DEFINE e == SystemEvent(wid[w], wkey[w], wrow[w])
  <2>1. wkey[w] \in Keys /\ wrow[w] \in Row /\ wid[w] \in Nat /\ wid[w] <= seq
    BY <1>4 DEF EnrichCommit
  <2>2. e \in Event /\ e.id = wid[w]
    BY <2>1, <1>2 DEF SystemEvent
  <2>3. events' = events \cup {e}
    BY <1>4 DEF EnrichCommit
  <2> HIDE DEF e
  <2>4. QED
    BY <1>4, <2>1, <2>2, <2>3 DEF EnrichCommit, WriterDone
<1>5. CASE \E k \in Keys, i \in Infos : w \in Pricers /\ PriceUpdate(w, k, i)
  <2>1. PICK k \in Keys, i \in Infos : PriceUpdate(w, k, i)
    BY <1>5
  <2>2. /\ wkey' \in [Writers -> Keys \cup {NoRow}]
        /\ wrow' \in [Writers -> Row \cup {NoRow}]
        /\ [rows[k] EXCEPT !.info = i] \in Row
        /\ wkey'[w] \in Keys /\ wrow'[w] \in Row
        /\ \A v \in Writers \ {w} : wkey'[v] = wkey[v] /\ wrow'[v] = wrow[v]
    BY <2>1, <1>1 DEF PriceUpdate
  <2>3. TypeOK' /\ Shape' /\ Allocated'
    BY <2>1, <2>2 DEF PriceUpdate
  <2>4. Assigned'
    BY <2>1, <2>2 DEF PriceUpdate
  <2>5. QED
    BY <2>3, <2>4
<1>6. CASE w \in Pricers /\ PriceAppend(w)
  <2> DEFINE e == SystemEvent(seq + 1, wkey[w], wrow[w])
  <2>1. wkey[w] \in Keys /\ wrow[w] \in Row
    BY <1>6 DEF PriceAppend
  <2>2. e \in Event /\ e.id = seq + 1
    BY <2>1, <1>2 DEF SystemEvent
  <2>3. events' = events \cup {e}
    BY <1>6 DEF PriceAppend
  <2> HIDE DEF e
  <2>4. QED
    <3>1. TypeOK' /\ Assigned'
      BY <1>6, <2>1, <2>2, <2>3 DEF PriceAppend, WriterDone
    <3>2. Shape' /\ Allocated'
      BY <1>6, <2>2, <2>3 DEF PriceAppend, WriterDone, Event
    <3>3. QED
      BY <3>1, <3>2
<1>7. CASE WriterFails(w)
  BY <1>7 DEF WriterFails, WriterDone
<1>8. QED
  BY <1>3, <1>4, <1>5, <1>6, <1>7

\* The pull handler keeps the types.
LEMMA PullTyped ==
    ASSUME Typed, NEW r \in Readers,
           PullPage(r) \/ PullEmpty(r) \/ PullUnknown(r) \/ PullMax(r)
    PROVE  Typed'
<1> USE DEF Typed, TypeOK, Shape, Allocated, Assigned, tables, handler, writers
<1>1. LatestId(events) \in Nat
  BY LatestIdIsLargest
<1>2. /\ LatestId(Page(cursor[r])) \in Nat
      /\ {e.id : e \in Page(cursor[r])} \in SUBSET Nat
  <2>1. Page(cursor[r]) \in SUBSET Event /\ \A e \in Page(cursor[r]) : e.id <= seq
    BY DEF Page, After
  <2>2. LatestId(Page(cursor[r])) \in Nat
    BY <2>1, LatestIdIsLargest
  <2>3. {e.id : e \in Page(cursor[r])} \in SUBSET Nat
    BY <2>1 DEF Event
  <2>4. QED
    BY <2>2, <2>3
<1>3. CASE PullPage(r)
  BY <1>2, <1>3 DEF PullPage, Larger
<1>4. CASE PullEmpty(r)
  BY <1>4 DEF PullEmpty, vars, pulling
<1>5. CASE PullUnknown(r)
  BY <1>5 DEF PullUnknown
<1>6. CASE PullMax(r)
  BY <1>1, <1>6 DEF PullMax, Larger, Smaller
<1>7. QED
  BY <1>3, <1>4, <1>5, <1>6

\* Typed is inductive.
LEMMA TypedNext == Typed /\ [Next]_vars => Typed'
<1> SUFFICES ASSUME Typed, [Next]_vars PROVE Typed'
  OBVIOUS
<1>1. ASSUME NEW c \in Conns, NEW batch \in Batches, Push(c, batch) PROVE Typed'
  BY <1>1, PushTyped
<1>2. ASSUME NEW c \in Conns, Handle(c) PROVE Typed'
  BY <1>2, HandleTyped
<1>3. ASSUME NEW c \in Conns, FailTx(c) \/ FailLatest(c) PROVE Typed'
  BY <1>3, RollbackTyped DEF FailTx, FailLatest
<1>4. ASSUME NEW w \in Enrichers,
             \/ \E k \in Keys, i \in Infos : EnrichBegin(w, k, i)
             \/ EnrichCommit(w)
      PROVE  Typed'
  BY <1>4, WriterTyped, w \in Writers DEF Writers
<1>5. ASSUME NEW w \in Pricers,
             \/ \E k \in Keys, i \in Infos : PriceUpdate(w, k, i)
             \/ PriceAppend(w)
      PROVE  Typed'
  BY <1>5, WriterTyped, w \in Writers DEF Writers
<1>6. ASSUME NEW w \in Writers, WriterFails(w) PROVE Typed'
  BY <1>6, WriterTyped
<1>7. ASSUME NEW r \in Readers,
             PullPage(r) \/ PullEmpty(r) \/ PullUnknown(r) \/ PullMax(r)
      PROVE  Typed'
  BY <1>7, PullTyped
<1>8. CASE Restart
  BY <1>8 DEF Restart, Typed, TypeOK, Shape, Allocated, Assigned, NoneOf, Verdicts,
              Statuses, InTx, tables, writers
<1>9. CASE UNCHANGED vars
  BY <1>9 DEF vars, tables, handler, writers, pulling,
              Typed, TypeOK, Shape, Allocated, Assigned
<1>10. QED
  BY <1>1, <1>2, <1>3, <1>4, <1>5, <1>6, <1>7, <1>8, <1>9 DEF Next

\* Every reachable state is well typed: event ids come from the sequence, an
\* upsert event always carries a row, a handler records only what it applied.
THEOREM TypeCorrect == Spec => []TypeOK
<1>1. Spec => []Typed
  BY TypedInit, TypedNext, PTL DEF Spec
<1>2. Typed => TypeOK
  BY DEF Typed
<1>3. QED
  BY <1>1, <1>2, PTL

-----------------------------------------------------------------------------
(* Each operation is settled once.  OneEventPerOp is about committed data; *)
(* it is inductive only together with what open transactions hold: their   *)
(* events agree with the keys they are about to insert, and no operation   *)
(* is held by two transactions or held and committed.                      *)

\* The event of o is appended, its idempotency key not inserted yet.
Pending(c, o) == pc[c] = "record" /\ Head(todo[c]) = o /\ verdict[c] = "applied"

TxAgrees ==
    \A c \in Conns, o \in Ops :
        /\ (\E e \in txEvents[c] : e.op = o) <=> (txIdem[c][o] = "applied" \/ Pending(c, o))
        /\ \A d, e \in txEvents[c] : d.op = o /\ e.op = o => d = e

TxFresh ==
    \A c \in Conns, o \in Ops : txIdem[c][o] # "none" =>
        /\ idem[o] = "none"
        /\ \A d \in Conns \ {c} : txIdem[d][o] = "none"

\* The operation being applied is not yet in the transaction's own keys.
Starting ==
    \A c \in Conns : pc[c] \in {"read", "write", "event", "record"} =>
        txIdem[c][Head(todo[c])] = "none"

LedgerInv == TxAgrees /\ TxFresh /\ Starting /\ OneEventPerOp

\* The empty tables satisfy the ledger invariant.
LEMMA LedgerInit == Init => LedgerInv
BY DEF Init, LedgerInv, TxAgrees, TxFresh, Starting, OneEventPerOp, Pending, NoneOf

\* Steps that touch neither the ledger nor what transactions hold of it.
LEMMA LedgerIdle ==
    ASSUME LedgerInv, UNCHANGED <<events, idem, txEvents, txIdem>>,
           \A c \in Conns, o \in Ops : Pending(c, o)' <=> Pending(c, o),
           Starting'
    PROVE  LedgerInv'
BY DEF LedgerInv, TxAgrees, TxFresh, OneEventPerOp

\* Dropping a transaction's uncommitted writes keeps the ledger invariant.
LEMMA RollbackLedger ==
    ASSUME Typed, LedgerInv, NEW c \in Conns, Rollback(c)
    PROVE  LedgerInv'
<1> USE DEF LedgerInv, Typed, TypeOK
<1>1. /\ pc'[c] = "idle" /\ txEvents'[c] = {}
      /\ \A o \in Ops : txIdem'[c][o] = "none"
      /\ UNCHANGED <<events, idem>>
  BY DEF Rollback, NoneOf, tables
<1>2. \A d \in Conns \ {c} :
         /\ pc'[d] = pc[d] /\ todo'[d] = todo[d] /\ verdict'[d] = verdict[d]
         /\ txEvents'[d] = txEvents[d] /\ txIdem'[d] = txIdem[d]
  BY DEF Rollback
<1>3. TxAgrees'
  <2> SUFFICES ASSUME NEW d \in Conns, NEW p \in Ops
               PROVE  /\ (\E x \in txEvents'[d] : x.op = p)
                            <=> (txIdem'[d][p] = "applied" \/ Pending(d, p)')
                      /\ \A x, y \in txEvents'[d] : x.op = p /\ y.op = p => x = y
    BY DEF TxAgrees
  <2>1. CASE d = c
    BY <1>1, <2>1 DEF Pending
  <2>2. CASE d # c
    BY <1>2, <2>2 DEF TxAgrees, Pending
  <2>3. QED
    BY <2>1, <2>2
<1>4. TxFresh'
  <2> SUFFICES ASSUME NEW d \in Conns, NEW p \in Ops, txIdem'[d][p] # "none"
               PROVE  idem'[p] = "none" /\ \A x \in Conns \ {d} : txIdem'[x][p] = "none"
    BY DEF TxFresh
  <2>1. d # c /\ txIdem[d][p] # "none"
    BY <1>1, <1>2
  <2>2. QED
    BY <1>1, <1>2, <2>1 DEF TxFresh
<1>5. Starting'
  <2> SUFFICES ASSUME NEW d \in Conns, pc'[d] \in {"read", "write", "event", "record"}
               PROVE  txIdem'[d][Head(todo'[d])] = "none"
    BY DEF Starting
  <2>1. d # c
    BY <1>1
  <2>2. QED
    BY <1>2, <2>1 DEF Starting
<1>6. OneEventPerOp'
  BY <1>1 DEF OneEventPerOp
<1>7. QED
  BY <1>3, <1>4, <1>5, <1>6

\* Every statement of a push handler keeps the ledger invariant.
LEMMA HandleLedger ==
    ASSUME Typed, LedgerInv, NEW c \in Conns, Handle(c)
    PROVE  LedgerInv'
<1> USE DEF Typed, TypeOK
<1> DEFINE o == Head(todo[c])
<1>1. CASE SkipDuplicate(c)
  <2>1. Starting' /\ \A d \in Conns, p \in Ops : Pending(d, p)' <=> Pending(d, p)
    BY <1>1 DEF SkipDuplicate, LedgerInv, Starting, Pending
  <2>2. QED
    BY <1>1, <2>1, LedgerIdle DEF SkipDuplicate, tables
<1>2. CASE StartOp(c)
  <2>1. o \in Ops /\ txIdem[c][o] = "none"
    BY <1>2, HeadTail DEF StartOp, Decision
  <2>2. Starting'
    BY <1>2, <2>1 DEF StartOp, LedgerInv, Starting
  <2>3. \A d \in Conns, p \in Ops : Pending(d, p)' <=> Pending(d, p)
    BY <1>2 DEF StartOp, Pending
  <2>4. QED
    BY <1>2, <2>2, <2>3, LedgerIdle DEF StartOp, tables
<1>3. CASE ReadExisting(c)
  <2>1. Starting' /\ \A d \in Conns, p \in Ops : Pending(d, p)' <=> Pending(d, p)
    BY <1>3 DEF ReadExisting, LedgerInv, Starting, Pending
  <2>2. QED
    BY <1>3, <2>1, LedgerIdle DEF ReadExisting, tables
<1>4. CASE WriteRow(c)
  <2>1. Starting' /\ \A d \in Conns, p \in Ops : Pending(d, p)' <=> Pending(d, p)
    BY <1>4 DEF WriteRow, LedgerInv, Starting, Pending
  <2>2. QED
    BY <1>4, <2>1, LedgerIdle DEF WriteRow, tables
<1>5. CASE AppendEvent(c)
  <2>1. o \in Ops /\ txIdem[c][o] = "none" /\ verdict[c] = "applied"
    BY <1>5, HeadTail DEF AppendEvent, LedgerInv, Starting, Shape
  <2> DEFINE e == [id |-> seq + 1, key |-> o.key, kind |-> o.kind, op |-> o,
                   row |-> IF o.kind = "upsert" THEN View(c, o.key) ELSE NoRow]
  <2>2. e.op = o /\ txEvents' = [txEvents EXCEPT ![c] = @ \cup {e}]
    BY <1>5 DEF AppendEvent
  <2> HIDE DEF e
  <2>3. /\ pc' = [pc EXCEPT ![c] = "record"]
        /\ UNCHANGED <<events, idem, todo, verdict, txIdem>>
    BY <1>5 DEF AppendEvent, tables
  <2>4. \A x \in txEvents[c] : x.op # o
    BY <1>5, <2>1 DEF AppendEvent, LedgerInv, TxAgrees, Pending
  <2>5. TxAgrees'
    <3> SUFFICES ASSUME NEW d \in Conns, NEW p \in Ops
                 PROVE  /\ (\E x \in txEvents'[d] : x.op = p)
                              <=> (txIdem'[d][p] = "applied" \/ Pending(d, p)')
                        /\ \A x, y \in txEvents'[d] : x.op = p /\ y.op = p => x = y
      BY DEF TxAgrees
    <3>1. CASE d = c
      BY <1>5, <2>1, <2>2, <2>3, <2>4, <3>1 DEF AppendEvent, LedgerInv, TxAgrees, Pending
    <3>2. CASE d # c
      BY <2>2, <2>3, <3>2 DEF LedgerInv, TxAgrees, Pending
    <3>3. QED
      BY <3>1, <3>2
  <2>6. Starting'
    BY <2>1, <2>3 DEF LedgerInv, Starting
  <2>7. QED
    BY <2>3, <2>5, <2>6 DEF LedgerInv, TxFresh, OneEventPerOp
<1>6. CASE RecordOp(c)
  <2>1. o \in Ops /\ verdict[c] \in {"applied", "failed"} /\ txIdem[c][o] = "none"
    BY <1>6, HeadTail DEF RecordOp, LedgerInv, Starting, Shape, Verdicts
  <2>2. /\ txIdem' = [txIdem EXCEPT ![c][o] = verdict[c]]
        /\ pc' = [pc EXCEPT ![c] = "check"]
        /\ verdict' = [verdict EXCEPT ![c] = "none"]
        /\ todo' = [todo EXCEPT ![c] = Tail(@)]
        /\ UNCHANGED <<events, idem, txEvents>>
    BY <1>6 DEF RecordOp, tables
  <2>3. /\ idem[o] = "none"
        /\ \A d \in Conns \ {c} : txIdem[d][o] = "none"
    BY <1>6 DEF RecordOp, WaitsFor
  <2>4. TxAgrees'
    <3> SUFFICES ASSUME NEW d \in Conns, NEW p \in Ops
                 PROVE  /\ (\E x \in txEvents'[d] : x.op = p)
                              <=> (txIdem'[d][p] = "applied" \/ Pending(d, p)')
                        /\ \A x, y \in txEvents'[d] : x.op = p /\ y.op = p => x = y
      BY DEF TxAgrees
    <3>1. CASE d = c
      BY <1>6, <2>1, <2>2, <3>1 DEF RecordOp, LedgerInv, TxAgrees, Pending
    <3>2. CASE d # c
      BY <2>2, <3>2 DEF LedgerInv, TxAgrees, Pending
    <3>3. QED
      BY <3>1, <3>2
  <2>5. TxFresh'
    BY <2>1, <2>2, <2>3 DEF LedgerInv, TxFresh
  <2>6. Starting'
    BY <2>2 DEF LedgerInv, Starting
  <2>7. QED
    BY <2>2, <2>4, <2>5, <2>6 DEF LedgerInv, OneEventPerOp
<1>7. CASE CommitTx(c)
  <2>1. /\ events' = events \cup txEvents[c]
        /\ idem' = [p \in Ops |-> Decision(c, p)]
        /\ txEvents' = [txEvents EXCEPT ![c] = {}]
        /\ txIdem' = [txIdem EXCEPT ![c] = NoneOf(Ops)]
        /\ pc[c] = "check" /\ pc' = [pc EXCEPT ![c] = "latest"]
        /\ UNCHANGED <<todo, verdict>>
    BY <1>7 DEF CommitTx
  <2>2. \A p \in Ops : txIdem'[c][p] = "none"
    BY <2>1 DEF NoneOf
  <2>3. \A d \in Conns \ {c} : txIdem'[d] = txIdem[d] /\ txEvents'[d] = txEvents[d]
    BY <2>1
  <2>4. TxAgrees'
    BY <2>1, <2>2, <2>3 DEF LedgerInv, TxAgrees, Pending
  <2>5. TxFresh'
    BY <2>1, <2>2, <2>3 DEF LedgerInv, TxFresh, Decision
  <2>6. Starting'
    BY <2>1, <2>3 DEF LedgerInv, Starting
  <2>7. OneEventPerOp'
    <3> SUFFICES ASSUME NEW p \in Ops
                 PROVE  /\ (\E e \in events' : e.op = p) <=> idem'[p] = "applied"
                        /\ \A x, y \in events' : x.op = p /\ y.op = p => x = y
      BY DEF OneEventPerOp
    <3>1. (\E e \in txEvents[c] : e.op = p) <=> txIdem[c][p] = "applied"
      BY <2>1 DEF LedgerInv, TxAgrees, Pending
    <3>2. (\E e \in events : e.op = p) <=> idem[p] = "applied"
      BY DEF LedgerInv, OneEventPerOp
    <3>3. idem'[p] = IF txIdem[c][p] = "none" THEN idem[p] ELSE txIdem[c][p]
      BY <2>1 DEF Decision
    <3>4. txIdem[c][p] # "none" => idem[p] = "none"
      BY DEF LedgerInv, TxFresh
    <3>5. QED
      BY <2>1, <3>1, <3>2, <3>3, <3>4 DEF LedgerInv, TxAgrees, OneEventPerOp
  <2>8. QED
    BY <2>4, <2>5, <2>6, <2>7 DEF LedgerInv
<1>8. CASE ReadLatest(c)
  <2>1. Starting' /\ \A d \in Conns, p \in Ops : Pending(d, p)' <=> Pending(d, p)
    BY <1>8 DEF ReadLatest, LedgerInv, Starting, Pending
  <2>2. QED
    BY <1>8, <2>1, LedgerIdle DEF ReadLatest, tables
<1>9. CASE RecordConflict(c) \/ DeadlockVictim(c) \/ Release(c)
  BY <1>9, RollbackLedger DEF RecordConflict, DeadlockVictim, Release
<1>10. QED
  BY <1>1, <1>2, <1>3, <1>4, <1>5, <1>6, <1>7, <1>8, <1>9 DEF Handle

\* A background writer logs events no operation caused.
LEMMA SystemEventLedger ==
    ASSUME LedgerInv, NEW i, NEW k, NEW row,
           events' = events \cup {SystemEvent(i, k, row)},
           UNCHANGED <<idem, pc, todo, verdict, txEvents, txIdem>>
    PROVE  LedgerInv'
<1>1. SystemEvent(i, k, row).op \notin Ops
  BY DEF SystemEvent
<1>2. OneEventPerOp'
  BY <1>1 DEF LedgerInv, OneEventPerOp
<1>3. QED
  BY <1>2 DEF LedgerInv, TxAgrees, TxFresh, Starting, Pending

\* LedgerInv is inductive, given Typed.
LEMMA LedgerNext == Typed /\ LedgerInv /\ [Next]_vars => LedgerInv'
<1> SUFFICES ASSUME Typed, LedgerInv, [Next]_vars PROVE LedgerInv'
  OBVIOUS
<1>1. ASSUME UNCHANGED <<events, idem, pc, todo, verdict, txEvents, txIdem>>
      PROVE  LedgerInv'
  BY <1>1 DEF LedgerInv, TxAgrees, TxFresh, Starting, OneEventPerOp, Pending
<1>2. ASSUME NEW c \in Conns, NEW batch \in Batches, Push(c, batch) PROVE LedgerInv'
  <2>1. Starting' /\ \A d \in Conns, p \in Ops : Pending(d, p)' <=> Pending(d, p)
    BY <1>2 DEF Push, LedgerInv, Starting, Pending, Typed, TypeOK
  <2>2. QED
    BY <1>2, <2>1, LedgerIdle DEF Push, tables
<1>3. ASSUME NEW c \in Conns, Handle(c) PROVE LedgerInv'
  BY <1>3, HandleLedger
<1>4. ASSUME NEW c \in Conns, FailTx(c) \/ FailLatest(c) PROVE LedgerInv'
  BY <1>4, RollbackLedger DEF FailTx, FailLatest
<1>5. ASSUME NEW w \in Enrichers, NEW k \in Keys, NEW i \in Infos, EnrichBegin(w, k, i)
      PROVE  LedgerInv'
  BY <1>1, <1>5 DEF EnrichBegin, tables, handler
<1>6. ASSUME NEW w \in Enrichers, EnrichCommit(w) PROVE LedgerInv'
  BY <1>6, SystemEventLedger DEF EnrichCommit, handler
<1>7. ASSUME NEW w \in Pricers, NEW k \in Keys, NEW i \in Infos, PriceUpdate(w, k, i)
      PROVE  LedgerInv'
  BY <1>1, <1>7 DEF PriceUpdate, handler
<1>8. ASSUME NEW w \in Pricers, PriceAppend(w) PROVE LedgerInv'
  BY <1>8, SystemEventLedger DEF PriceAppend, handler
<1>9. ASSUME NEW w \in Writers, WriterFails(w) PROVE LedgerInv'
  BY <1>1, <1>9 DEF WriterFails, tables, handler
<1>10. ASSUME NEW r \in Readers,
              PullPage(r) \/ PullEmpty(r) \/ PullUnknown(r) \/ PullMax(r)
       PROVE  LedgerInv'
  BY <1>1, <1>10 DEF PullPage, PullEmpty, PullUnknown, PullMax, vars, tables, handler
<1>11. CASE Restart
  <2>1. /\ \A c \in Conns : pc'[c] = "idle" /\ txEvents'[c] = {}
        /\ \A c \in Conns, o \in Ops : txIdem'[c][o] = "none"
        /\ UNCHANGED <<events, idem>>
    BY <1>11 DEF Restart, tables, NoneOf
  <2>2. QED
    BY <2>1 DEF LedgerInv, TxAgrees, TxFresh, Starting, OneEventPerOp, Pending
<1>12. CASE UNCHANGED vars
  BY <1>1, <1>12 DEF vars, tables, handler
<1>13. QED
  BY <1>2, <1>3, <1>4, <1>5, <1>6, <1>7, <1>8, <1>9, <1>10, <1>11, <1>12 DEF Next

\* The two invariants the later theorems start from.
LEMMA Invariants == Spec => [](Typed /\ LedgerInv)
<1>1. Init => Typed /\ LedgerInv
  BY TypedInit, LedgerInit
<1>2. Typed /\ LedgerInv /\ [Next]_vars => (Typed /\ LedgerInv)'
  BY TypedNext, LedgerNext
<1>3. QED
  BY <1>1, <1>2, PTL DEF Spec

\* However often and on however many connections an operation is pushed, the
\* log holds exactly one event for it if it was applied and none otherwise.
THEOREM AtMostOnce == Spec => []OneEventPerOp
<1>1. Typed /\ LedgerInv => OneEventPerOp
  BY DEF LedgerInv
<1>2. QED
  BY <1>1, Invariants, PTL

-----------------------------------------------------------------------------
(* SyncServer implements OpLedger.  A step of Settle may add events only   *)
(* under fresh ids, so the ids in use are shown to be pairwise distinct.   *)

LogIds == \A d, e \in events : d.id = e.id => d = e

TxIds ==
    \A c \in Conns : \A d \in txEvents[c] :
        /\ \A e \in events : d.id # e.id
        /\ \A e \in txEvents[c] : d.id = e.id => d = e
        /\ \A b \in Conns \ {c} : \A e \in txEvents[b] : d.id # e.id

WriterIds ==
    \A w \in Writers : wpc[w] = "open" =>
        /\ \A e \in events : e.id # wid[w]
        /\ \A c \in Conns : \A e \in txEvents[c] : e.id # wid[w]
        /\ \A v \in Writers \ {w} : wpc[v] = "open" => wid[v] # wid[w]

IdsDistinct == LogIds /\ TxIds /\ WriterIds

\* No ids are in use at first.
LEMMA IdsInit == Init => IdsDistinct
BY DEF Init, IdsDistinct, LogIds, TxIds, WriterIds

\* Transactions may lose events and writers may give up: no new id is in use.
LEMMA IdsShrink ==
    ASSUME IdsDistinct, UNCHANGED events,
           \A c \in Conns : txEvents'[c] \subseteq txEvents[c],
           \A w \in Writers : wpc'[w] = "open" => wpc[w] = "open" /\ wid'[w] = wid[w]
    PROVE  IdsDistinct'
BY DEF IdsDistinct, LogIds, TxIds, WriterIds

\* An event id is used once: nextval never returns an id again, so IdsDistinct
\* is inductive.
LEMMA IdsNext == Typed /\ IdsDistinct /\ [Next]_vars => IdsDistinct'
<1> SUFFICES ASSUME Typed, IdsDistinct, [Next]_vars PROVE IdsDistinct'
  OBVIOUS
<1> USE DEF Typed, TypeOK
<1>1. ASSUME UNCHANGED <<events, txEvents, wpc, wid>> PROVE IdsDistinct'
  BY <1>1, IdsShrink
<1>2. ASSUME NEW c \in Conns, Rollback(c) PROVE IdsDistinct'
  <2>1. \A d \in Conns : txEvents'[d] \subseteq txEvents[d]
    BY <1>2 DEF Rollback
  <2>2. QED
    BY <1>2, <2>1, IdsShrink DEF Rollback, tables, writers
<1>3. ASSUME NEW c \in Conns, AppendEvent(c) PROVE IdsDistinct'
  <2> DEFINE o == Head(todo[c])
             e == [id |-> seq + 1, key |-> o.key, kind |-> o.kind, op |-> o,
                   row |-> IF o.kind = "upsert" THEN View(c, o.key) ELSE NoRow]
  <2>1. e.id = seq + 1 /\ txEvents' = [txEvents EXCEPT ![c] = @ \cup {e}]
        /\ UNCHANGED <<events, wpc, wid>>
    BY <1>3 DEF AppendEvent, tables, writers
  <2> HIDE DEF e
  <2>2. /\ \A x \in events : x.id # seq + 1
        /\ \A d \in Conns : \A x \in txEvents[d] : x.id # seq + 1
        /\ \A w \in Writers : wid[w] # seq + 1
    BY DEF Allocated, Event
  <2>3. txEvents'[c] = txEvents[c] \cup {e} /\ \A d \in Conns \ {c} : txEvents'[d] = txEvents[d]
    BY <2>1
  <2>4. \A d \in Conns : \A x \in txEvents'[d] :
           x \in txEvents[d] \/ (d = c /\ x = e)
    BY <2>3
  <2>5. QED
    BY <2>1, <2>2, <2>4 DEF IdsDistinct, LogIds, TxIds, WriterIds
<1>4. ASSUME NEW c \in Conns, CommitTx(c) PROVE IdsDistinct'
  <2>1. /\ events' = events \cup txEvents[c]
        /\ txEvents'[c] = {} /\ \A d \in Conns \ {c} : txEvents'[d] = txEvents[d]
        /\ UNCHANGED <<wpc, wid>>
    BY <1>4 DEF CommitTx, writers
  <2>2. QED
    <3>1. LogIds'
      BY <2>1 DEF IdsDistinct, LogIds, TxIds, WriterIds
    <3>2. TxIds'
      <4> SUFFICES ASSUME NEW d \in Conns, NEW x \in txEvents'[d]
                   PROVE  /\ \A y \in events' : x.id # y.id
                          /\ \A y \in txEvents'[d] : x.id = y.id => x = y
                          /\ \A b \in Conns \ {d} : \A y \in txEvents'[b] : x.id # y.id
        BY DEF TxIds
      <4>1. d # c /\ x \in txEvents[d]
        BY <2>1
      <4>2. \A b \in Conns : txEvents'[b] \subseteq txEvents[b]
        BY <2>1
      <4>3. QED
        BY <2>1, <4>1, <4>2 DEF IdsDistinct, TxIds
    <3>3. WriterIds'
      BY <2>1 DEF IdsDistinct, TxIds, WriterIds
    <3>4. QED
      BY <3>1, <3>2, <3>3 DEF IdsDistinct
<1>5. ASSUME NEW w \in Enrichers, NEW k \in Keys, NEW i \in Infos, EnrichBegin(w, k, i)
      PROVE  IdsDistinct'
  <2>1. /\ wid'[w] = seq + 1 /\ wpc'[w] = "open" /\ w \in Writers
        /\ \A v \in Writers \ {w} : wid'[v] = wid[v] /\ wpc'[v] = wpc[v]
        /\ UNCHANGED <<events, txEvents>>
    BY <1>5 DEF EnrichBegin, tables, handler, Writers
  <2>2. /\ \A x \in events : x.id # seq + 1
        /\ \A d \in Conns : \A x \in txEvents[d] : x.id # seq + 1
        /\ \A v \in Writers : wid[v] # seq + 1
    BY DEF Allocated, Event
  <2>3. QED
    <3>1. LogIds'
      BY <2>1, <2>2 DEF IdsDistinct, LogIds, TxIds, WriterIds
    <3>2. TxIds'
      BY <2>1, <2>2 DEF IdsDistinct, TxIds, WriterIds
    <3>3. WriterIds'
      <4> SUFFICES ASSUME NEW v \in Writers, wpc'[v] = "open"
                   PROVE  /\ \A x \in events' : x.id # wid'[v]
                          /\ \A c \in Conns : \A x \in txEvents'[c] : x.id # wid'[v]
                          /\ \A u \in Writers \ {v} : wpc'[u] = "open" => wid'[u] # wid'[v]
        BY DEF WriterIds
      <4>1. CASE v = w
        BY <2>1, <2>2, <4>1
      <4>2. CASE v # w
          <5>1. wpc[v] = "open" /\ wid'[v] = wid[v] /\ wid[v] # seq + 1
            BY <2>1, <2>2, <4>2
          <5>2. ASSUME NEW u \in Writers \ {v}, wpc'[u] = "open" PROVE wid'[u] # wid'[v]
            <6>1. CASE u = w
              BY <2>1, <5>1, <6>1
            <6>2. CASE u # w
              BY <2>1, <5>1, <5>2, <6>2 DEF IdsDistinct, WriterIds
            <6>3. QED
              BY <6>1, <6>2
          <5>3. QED
            BY <2>1, <5>1, <5>2 DEF IdsDistinct, WriterIds
      <4>3. QED
        BY <4>1, <4>2
    <3>4. QED
      BY <3>1, <3>2, <3>3 DEF IdsDistinct
<1>6. ASSUME NEW w \in Enrichers, EnrichCommit(w) PROVE IdsDistinct'
  <2> DEFINE e == SystemEvent(wid[w], wkey[w], wrow[w])
  <2>1. /\ e.id = wid[w] /\ events' = events \cup {e}
        /\ wpc[w] = "open" /\ wpc'[w] = "idle" /\ w \in Writers
        /\ \A v \in Writers \ {w} : wid'[v] = wid[v] /\ wpc'[v] = wpc[v]
        /\ UNCHANGED txEvents
    BY <1>6 DEF EnrichCommit, WriterDone, SystemEvent, handler, Writers
  <2> HIDE DEF e
  <2>2. QED
    <3>1. LogIds'
      BY <2>1 DEF IdsDistinct, LogIds, TxIds, WriterIds
    <3>2. TxIds'
      BY <2>1 DEF IdsDistinct, TxIds, WriterIds
    <3>3. WriterIds'
      <4> SUFFICES ASSUME NEW v \in Writers, wpc'[v] = "open"
                   PROVE  /\ \A x \in events' : x.id # wid'[v]
                          /\ \A c \in Conns : \A x \in txEvents'[c] : x.id # wid'[v]
                          /\ \A u \in Writers \ {v} : wpc'[u] = "open" => wid'[u] # wid'[v]
        BY DEF WriterIds
      <4>1. v # w /\ wpc[v] = "open" /\ wid'[v] = wid[v] /\ wid[w] # wid[v]
        BY <2>1 DEF IdsDistinct, WriterIds
      <4>2. QED
        BY <2>1, <4>1 DEF IdsDistinct, WriterIds
    <3>4. QED
      BY <3>1, <3>2, <3>3 DEF IdsDistinct
<1>7. ASSUME NEW w \in Pricers, NEW k \in Keys, NEW i \in Infos, PriceUpdate(w, k, i)
      PROVE  IdsDistinct'
  <2>1. /\ UNCHANGED <<events, txEvents>>
        /\ \A v \in Writers : wpc'[v] = "open" => wpc[v] = "open" /\ wid'[v] = wid[v]
    BY <1>7 DEF PriceUpdate, handler
  <2>2. QED
    BY <2>1, IdsShrink
<1>8. ASSUME NEW w \in Pricers, PriceAppend(w) PROVE IdsDistinct'
  <2> DEFINE e == SystemEvent(seq + 1, wkey[w], wrow[w])
  <2>1. /\ e.id = seq + 1 /\ events' = events \cup {e}
        /\ \A v \in Writers : wpc'[v] = "open" => wpc[v] = "open" /\ wid'[v] = wid[v]
        /\ UNCHANGED txEvents
    BY <1>8 DEF PriceAppend, WriterDone, SystemEvent, handler, Writers
  <2> HIDE DEF e
  <2>2. /\ \A x \in events : x.id # seq + 1
        /\ \A d \in Conns : \A x \in txEvents[d] : x.id # seq + 1
        /\ \A v \in Writers : wid[v] # seq + 1
    BY DEF Allocated, Event
  <2>3. QED
    <3>1. LogIds'
      BY <2>1, <2>2 DEF IdsDistinct, LogIds, TxIds, WriterIds
    <3>2. TxIds'
      BY <2>1, <2>2 DEF IdsDistinct, TxIds, WriterIds
    <3>3. WriterIds'
      BY <2>1, <2>2 DEF IdsDistinct, TxIds, WriterIds
    <3>4. QED
      BY <3>1, <3>2, <3>3 DEF IdsDistinct
<1>9. ASSUME NEW w \in Writers, WriterFails(w) PROVE IdsDistinct'
  <2>1. /\ UNCHANGED <<events, txEvents>>
        /\ \A v \in Writers : wpc'[v] = "open" => wpc[v] = "open" /\ wid'[v] = wid[v]
    BY <1>9 DEF WriterFails, WriterDone, tables, handler
  <2>2. QED
    BY <2>1, IdsShrink
<1>10. CASE Restart
  <2>1. UNCHANGED <<events, wpc, wid>> /\ \A c \in Conns : txEvents'[c] = {}
    BY <1>10 DEF Restart, tables, writers
  <2>2. QED
    BY <2>1, IdsShrink
<1>11. ASSUME NEW c \in Conns, NEW batch \in Batches, Push(c, batch) PROVE IdsDistinct'
  BY <1>1, <1>11 DEF Push, tables, writers
<1>12. ASSUME NEW c \in Conns,
              \/ SkipDuplicate(c) \/ StartOp(c) \/ ReadExisting(c)
              \/ WriteRow(c) \/ RecordOp(c) \/ ReadLatest(c)
       PROVE  IdsDistinct'
  BY <1>1, <1>12 DEF SkipDuplicate, StartOp, ReadExisting, WriteRow, RecordOp,
                     ReadLatest, tables, writers
<1>13. ASSUME NEW r \in Readers,
              PullPage(r) \/ PullEmpty(r) \/ PullUnknown(r) \/ PullMax(r)
       PROVE  IdsDistinct'
  BY <1>1, <1>13 DEF PullPage, PullEmpty, PullUnknown, PullMax, vars, tables, handler, writers
<1>14. CASE UNCHANGED vars
  BY <1>1, <1>14 DEF vars, tables, handler, writers
<1>15. QED
  BY <1>2, <1>3, <1>4, <1>5, <1>6, <1>7, <1>8, <1>9, <1>10, <1>11, <1>12, <1>13, <1>14
  DEF Next, Handle, FailTx, FailLatest, RecordConflict, DeadlockVictim, Release

\* No step takes an event out of the log or changes a settled operation.
LEMMA LedgerGrows ==
    ASSUME Typed, LedgerInv, [Next]_vars
    PROVE  /\ events \subseteq events'
           /\ \A o \in Ops : idem[o] # "none" => idem'[o] = idem[o]
<1>1. ASSUME NEW c \in Conns, CommitTx(c)
      PROVE  /\ events \subseteq events'
             /\ \A o \in Ops : idem[o] # "none" => idem'[o] = idem[o]
  BY <1>1 DEF CommitTx, Decision, LedgerInv, TxFresh
<1>2. ASSUME NEW c \in Conns, Rollback(c) PROVE UNCHANGED <<events, idem>>
  BY <1>2 DEF Rollback, tables
<1>3. ASSUME NEW c \in Conns, Handle(c), ~ CommitTx(c) PROVE UNCHANGED <<events, idem>>
  BY <1>2, <1>3 DEF Handle, SkipDuplicate, StartOp, ReadExisting, WriteRow, AppendEvent,
     RecordOp, RecordConflict, DeadlockVictim, ReadLatest, Release, tables
<1>4. ASSUME NEW c \in Conns, (\E batch \in Batches : Push(c, batch)) \/ FailTx(c) \/ FailLatest(c)
      PROVE  UNCHANGED <<events, idem>>
  BY <1>2, <1>4 DEF Push, FailTx, FailLatest, tables
<1>5. ASSUME NEW w \in Writers,
             \/ \E k \in Keys, i \in Infos : EnrichBegin(w, k, i) \/ PriceUpdate(w, k, i)
             \/ EnrichCommit(w) \/ PriceAppend(w) \/ WriterFails(w)
      PROVE  UNCHANGED idem /\ events \subseteq events'
  BY <1>5 DEF EnrichBegin, EnrichCommit, PriceUpdate, PriceAppend, WriterFails, tables
<1>6. ASSUME NEW r \in Readers,
             PullPage(r) \/ PullEmpty(r) \/ PullUnknown(r) \/ PullMax(r)
      PROVE  UNCHANGED <<events, idem>>
  BY <1>6 DEF PullPage, PullEmpty, PullUnknown, PullMax, vars, tables
<1>7. CASE Restart \/ UNCHANGED vars
  BY <1>7 DEF Restart, vars, tables
<1>8. QED
  BY <1>1, <1>3, <1>4, <1>5, <1>6, <1>7 DEF Next, Writers

\* Every step of the server settles operations as OpLedger prescribes, or stutters.
LEMMA StepRefines ==
    ASSUME Typed, LedgerInv, IdsDistinct, [Next]_vars, Typed', LedgerInv', IdsDistinct'
    PROVE  [Ledger!Settle]_(Ledger!ledgerVars)
<1>1. /\ events \subseteq events'
      /\ \A o \in Ops : idem[o] # "none" => idem'[o] = idem[o]
  BY LedgerGrows
<1>2. \A o \in Ops : idem[o] \in Verdicts
  BY DEF Typed, TypeOK
<1>3. ASSUME NEW o \in Ops
      PROVE  (\E e \in events' \ events : e.op = o) <=> (idem[o] = "none" /\ idem'[o] = "applied")
  <2>1. /\ (\E e \in events : e.op = o) <=> idem[o] = "applied"
        /\ (\E e \in events' : e.op = o) <=> idem'[o] = "applied"
        /\ \A d, e \in events' : d.op = o /\ e.op = o => d = e
    BY DEF LedgerInv, OneEventPerOp
  <2>2. QED
    BY <1>1, <1>2, <2>1 DEF Verdicts
<1>4. \A d, e \in events' : (d.op = e.op /\ d.op \in Ops) => d = e
  BY DEF LedgerInv, OneEventPerOp
<1>5. \A d, e \in events' : d.id = e.id => d = e
  BY DEF IdsDistinct, LogIds
<1>6. QED
  BY <1>1, <1>3, <1>4, <1>5 DEF Ledger!Settle, Ledger!NewEvents, Ledger!Undecided

\* The API settles each pushed operation once and for ever, all operations of
\* a batch together with their events, whatever fails, retries or overlaps.
THEOREM Implements == Spec => LedgerSpec
<1>1. Init => Ledger!Init
  BY DEF Init, NoneOf, Ledger!Init, Ledger!Undecided
<1>2. Init => Typed /\ LedgerInv /\ IdsDistinct
  BY TypedInit, LedgerInit, IdsInit
<1>3. Typed /\ LedgerInv /\ IdsDistinct /\ [Next]_vars => (Typed /\ LedgerInv /\ IdsDistinct)'
  BY TypedNext, LedgerNext, IdsNext
<1>4. Typed /\ LedgerInv /\ IdsDistinct /\ [Next]_vars /\ (Typed /\ LedgerInv /\ IdsDistinct)'
         => [Ledger!Settle]_(Ledger!ledgerVars)
  BY StepRefines
<1>5. QED
  BY <1>1, <1>2, <1>3, <1>4, PTL DEF Spec, LedgerSpec, Ledger!Spec

-----------------------------------------------------------------------------
(* Uncommitted writes of one row, or of one key, belong to one transaction. *)

RowsExclusive ==
    \A c \in Conns, k \in Keys : txRows[c][k] # Untouched =>
        \A d \in Conns \ {c} : txRows[d][k] = Untouched

\* A row write waits for the transaction that holds the row, so RowsExclusive
\* is inductive.
LEMMA RowsNext == Typed /\ RowsExclusive /\ [Next]_vars => RowsExclusive'
<1> SUFFICES ASSUME Typed, RowsExclusive, [Next]_vars PROVE RowsExclusive'
  OBVIOUS
<1> USE DEF Typed, TypeOK
<1>1. ASSUME NEW c \in Conns,
             \A k \in Keys : txRows'[c][k] = Untouched,
             \A d \in Conns \ {c} : txRows'[d] = txRows[d]
      PROVE  RowsExclusive'
  <2> SUFFICES ASSUME NEW d \in Conns, NEW k \in Keys, txRows'[d][k] # Untouched,
                      NEW e \in Conns \ {d}
               PROVE  txRows'[e][k] = Untouched
    BY DEF RowsExclusive
  <2>1. d # c /\ txRows[d][k] # Untouched
    BY <1>1
  <2>2. txRows[e][k] = Untouched
    BY <2>1 DEF RowsExclusive
  <2>3. QED
    BY <1>1, <2>2
<1>2. ASSUME UNCHANGED txRows PROVE RowsExclusive'
  BY <1>2 DEF RowsExclusive
<1>3. ASSUME NEW c \in Conns, Rollback(c) \/ CommitTx(c) PROVE RowsExclusive'
  <2>1. txRows' = [txRows EXCEPT ![c] = [k \in Keys |-> Untouched]]
    BY <1>3 DEF Rollback, CommitTx
  <2>2. QED
    BY <1>1, <2>1
<1>4. ASSUME NEW c \in Conns, WriteRow(c) PROVE RowsExclusive'
  <2> DEFINE o == Head(todo[c])
             new == IF o.kind = "upsert"
                      THEN Upserted(o, ReconciledCover(o, existing[c]), View(c, o.key))
                      ELSE IF SeesNothing(c, o) THEN txRows[c][o.key] ELSE NoRow
  <2>1. o \in Ops /\ o.key \in Keys /\ o.kind \in {"upsert", "delete"}
    BY <1>4, HeadTail DEF WriteRow, Op, Shape
  <2>2. txRows' = [txRows EXCEPT ![c][o.key] = new]
    BY <1>4 DEF WriteRow
  <2>3. CASE SeesNothing(c, o)
    <3>1. new = txRows[c][o.key]
      BY <2>1, <2>3 DEF SeesNothing
    <3>2. UNCHANGED txRows
      BY <2>1, <2>2, <3>1
    <3>3. QED
      BY <1>2, <3>2
  <2>4. CASE ~ SeesNothing(c, o)
    <3>1. \A d \in Conns \ {c} : txRows[d][o.key] = Untouched
      BY <1>4, <2>4 DEF WriteRow, WaitsFor, LockHolders
    <3> HIDE DEF new
    <3>2. /\ \A d \in Conns \ {c} : txRows'[d] = txRows[d]
          /\ \A k \in Keys \ {o.key} : txRows'[c][k] = txRows[c][k]
      BY <2>1, <2>2
    <3> SUFFICES ASSUME NEW d \in Conns, NEW k \in Keys, txRows'[d][k] # Untouched,
                        NEW e \in Conns \ {d}
                 PROVE  txRows'[e][k] = Untouched
      BY DEF RowsExclusive
    <3>3. CASE k = o.key
      BY <3>1, <3>2, <3>3, ZenonT(30)
    <3>4. CASE k # o.key
      <4>1. txRows'[d][k] = txRows[d][k] /\ txRows'[e][k] = txRows[e][k]
        BY <3>2, <3>4
      <4>2. QED
        BY <4>1 DEF RowsExclusive
    <3>5. QED
      BY <3>3, <3>4
  <2>5. QED
    BY <2>3, <2>4
<1>5. CASE Restart
  BY <1>5 DEF Restart, RowsExclusive
<1>6. ASSUME NEW c \in Conns,
             \/ \E batch \in Batches : Push(c, batch)
             \/ SkipDuplicate(c) \/ StartOp(c) \/ ReadExisting(c)
             \/ AppendEvent(c) \/ RecordOp(c) \/ ReadLatest(c)
      PROVE  RowsExclusive'
  BY <1>2, <1>6 DEF Push, SkipDuplicate, StartOp, ReadExisting, AppendEvent, RecordOp, ReadLatest
<1>7. ASSUME NEW w \in Writers,
             \/ \E k \in Keys, i \in Infos : EnrichBegin(w, k, i) \/ PriceUpdate(w, k, i)
             \/ EnrichCommit(w) \/ PriceAppend(w) \/ WriterFails(w)
      PROVE  RowsExclusive'
  BY <1>2, <1>7 DEF EnrichBegin, EnrichCommit, PriceUpdate, PriceAppend, WriterFails, handler
<1>8. ASSUME NEW r \in Readers,
             PullPage(r) \/ PullEmpty(r) \/ PullUnknown(r) \/ PullMax(r)
      PROVE  RowsExclusive'
  BY <1>2, <1>8 DEF PullPage, PullEmpty, PullUnknown, PullMax, vars, handler
<1>9. CASE UNCHANGED vars
  BY <1>2, <1>9 DEF vars, handler
<1>10. QED
  BY <1>3, <1>4, <1>5, <1>6, <1>7, <1>8, <1>9
  DEF Next, Handle, Writers, FailTx, FailLatest, RecordConflict, DeadlockVictim, Release

\* Row locks and the unique index keep two push transactions from holding
\* uncommitted writes of one row or of one idempotency key.
THEOREM Exclusion == Spec => []WritesAreExclusive
<1>1. Init => RowsExclusive
  BY DEF Init, RowsExclusive
<1>2. Spec => []RowsExclusive
  <2>1. Typed /\ LedgerInv /\ RowsExclusive /\ [Next]_vars => RowsExclusive'
    BY RowsNext
  <2>2. QED
    BY <1>1, <2>1, Invariants, PTL DEF Spec
<1>3. RowsExclusive /\ Typed /\ LedgerInv => WritesAreExclusive
  BY DEF RowsExclusive, LedgerInv, TxFresh, WritesAreExclusive
<1>4. QED
  BY <1>2, <1>3, Invariants, PTL

-----------------------------------------------------------------------------
(* What a handler is about to report is, or will be with its commit, so.   *)

ReportedFor(c, o) ==
    /\ pc[c] \in InTx =>
          /\ results[c][o] \in {"applied", "failed"} => txIdem[c][o] = results[c][o]
          /\ results[c][o] = "duplicate" => Decision(c, o) # "none"
    /\ pc[c] \in {"latest", "reply"} =>
          /\ results[c][o] \in {"applied", "failed"} => idem[o] = results[c][o]
          /\ results[c][o] = "duplicate" => idem[o] # "none"

Reported == \A c \in Conns, o \in Ops : ReportedFor(c, o)

\* Reported is inductive: a result is pushed only next to the record it reports.
LEMMA ReportedNext == Typed /\ LedgerInv /\ Reported /\ [Next]_vars => Reported'
<1> SUFFICES ASSUME Typed, LedgerInv, Reported, [Next]_vars PROVE Reported'
  OBVIOUS
<1> USE DEF Typed, TypeOK
<1>1. \A o \in Ops : idem[o] # "none" => idem'[o] = idem[o]
  BY LedgerGrows
<1>2. ASSUME NEW d \in Conns, NEW o \in Ops,
             pc'[d] = pc[d], results'[d] = results[d], txIdem'[d] = txIdem[d]
      PROVE  ReportedFor(d, o)'
  BY <1>1, <1>2 DEF Reported, ReportedFor, Decision
<1>0. ASSUME NEW c \in Conns, \A o \in Ops : ReportedFor(c, o)',
             \A d \in Conns \ {c} :
                pc'[d] = pc[d] /\ results'[d] = results[d] /\ txIdem'[d] = txIdem[d]
      PROVE  Reported'
  <2> SUFFICES ASSUME NEW d \in Conns, NEW o \in Ops PROVE ReportedFor(d, o)'
    BY DEF Reported
  <2>1. CASE d = c
    BY <1>0, <2>1
  <2>2. CASE d # c
    BY <1>0, <1>2, <2>2
  <2>3. QED
    BY <2>1, <2>2
<1>3. ASSUME UNCHANGED <<pc, results, txIdem>> PROVE Reported'
  BY <1>2, <1>3 DEF Reported
<1>4. ASSUME NEW c \in Conns, Rollback(c) PROVE Reported'
  <2>1. pc'[c] = "idle"
    BY <1>4 DEF Rollback
  <2>2. \A d \in Conns \ {c} :
           pc'[d] = pc[d] /\ results'[d] = results[d] /\ txIdem'[d] = txIdem[d]
    BY <1>4 DEF Rollback
  <2>3. QED
    BY <1>0, <2>1, <2>2 DEF ReportedFor, InTx
<1>5. ASSUME NEW c \in Conns, NEW batch \in Batches, Push(c, batch) PROVE Reported'
  <2>1. pc'[c] = "check" /\ \A o \in Ops : results'[c][o] = "none"
    BY <1>5 DEF Push, NoneOf
  <2>2. \A d \in Conns \ {c} :
           pc'[d] = pc[d] /\ results'[d] = results[d] /\ txIdem'[d] = txIdem[d]
    BY <1>5 DEF Push
  <2>3. QED
    BY <1>0, <2>1, <2>2 DEF ReportedFor, InTx
<1>6. ASSUME NEW c \in Conns,
             \/ StartOp(c) \/ ReadExisting(c) \/ WriteRow(c)
             \/ AppendEvent(c) \/ ReadLatest(c)
      PROVE  Reported'
  <2>1. /\ \/ pc[c] \in InTx /\ pc'[c] \in InTx
           \/ pc[c] = "latest" /\ pc'[c] = "reply"
        /\ \A d \in Conns \ {c} : pc'[d] = pc[d]
        /\ UNCHANGED <<idem, results, txIdem>>
    BY <1>6 DEF StartOp, ReadExisting, WriteRow, AppendEvent, ReadLatest, InTx, tables
  <2>2. QED
    BY <2>1 DEF Reported, ReportedFor, Decision, InTx
<1>7. ASSUME NEW c \in Conns, SkipDuplicate(c) PROVE Reported'
  <2> DEFINE p == Head(todo[c])
  <2>1. p \in Ops /\ Decision(c, p) # "none"
    BY <1>7, HeadTail DEF SkipDuplicate
  <2>2. /\ results' = [results EXCEPT ![c][p] = "duplicate"]
        /\ pc[c] = "check" /\ UNCHANGED <<idem, pc, txIdem>>
    BY <1>7 DEF SkipDuplicate, tables
  <2>3. QED
    BY <2>1, <2>2 DEF Reported, ReportedFor, Decision, InTx
<1>8. ASSUME NEW c \in Conns, RecordOp(c) PROVE Reported'
  <2> DEFINE p == Head(todo[c])
  <2>1. p \in Ops /\ verdict[c] \in {"applied", "failed"}
    BY <1>8, HeadTail DEF RecordOp, Shape, Verdicts
  <2>2. /\ results' = [results EXCEPT ![c][p] = verdict[c]]
        /\ txIdem' = [txIdem EXCEPT ![c][p] = verdict[c]]
        /\ pc[c] = "record" /\ pc' = [pc EXCEPT ![c] = "check"] /\ UNCHANGED idem
    BY <1>8 DEF RecordOp, tables
  <2>3. ASSUME NEW d \in Conns \ {c}
        PROVE  pc'[d] = pc[d] /\ results'[d] = results[d] /\ txIdem'[d] = txIdem[d]
    BY <2>2
  <2>4. pc'[c] \in InTx /\ pc[c] \in InTx /\ pc'[c] \notin {"latest", "reply"}
    BY <2>2 DEF InTx
  <2>5. ASSUME NEW o \in Ops
        PROVE  /\ results'[c][o] \in {"applied", "failed"} => txIdem'[c][o] = results'[c][o]
               /\ results'[c][o] = "duplicate" => Decision(c, o)' # "none"
    <3>1. CASE o = p
      BY <2>1, <2>2, <3>1
    <3>2. CASE o # p
      BY <2>1, <2>2, <2>4, <3>2 DEF Reported, ReportedFor, Decision
    <3>3. QED
      BY <3>1, <3>2
  <2>6. QED
    BY <1>0, <2>3, <2>4, <2>5 DEF ReportedFor
<1>9. ASSUME NEW c \in Conns, CommitTx(c) PROVE Reported'
  <2>1. /\ pc[c] = "check" /\ pc'[c] = "latest" /\ results' = results
        /\ \A o \in Ops : idem'[o] = Decision(c, o)
        /\ \A d \in Conns \ {c} : pc'[d] = pc[d] /\ txIdem'[d] = txIdem[d]
    BY <1>9 DEF CommitTx
  <2>2. ASSUME NEW o \in Ops
        PROVE  /\ results'[c][o] \in {"applied", "failed"} => idem'[o] = results'[c][o]
               /\ results'[c][o] = "duplicate" => idem'[o] # "none"
    BY <2>1, ZenonT(30) DEF Reported, ReportedFor, Decision, InTx
  <2>3. ASSUME NEW o \in Ops PROVE ReportedFor(c, o)'
    BY <2>1, <2>2 DEF ReportedFor, InTx
  <2>4. \A d \in Conns \ {c} :
           pc'[d] = pc[d] /\ results'[d] = results[d] /\ txIdem'[d] = txIdem[d]
    BY <2>1
  <2>5. QED
    BY <1>0, <2>3, <2>4
<1>10. ASSUME NEW w \in Writers,
              \/ \E k \in Keys, i \in Infos : EnrichBegin(w, k, i) \/ PriceUpdate(w, k, i)
              \/ EnrichCommit(w) \/ PriceAppend(w) \/ WriterFails(w)
       PROVE  Reported'
  BY <1>3, <1>10 DEF EnrichBegin, EnrichCommit, PriceUpdate, PriceAppend, WriterFails, handler
<1>11. ASSUME NEW r \in Readers,
              PullPage(r) \/ PullEmpty(r) \/ PullUnknown(r) \/ PullMax(r)
       PROVE  Reported'
  BY <1>3, <1>11 DEF PullPage, PullEmpty, PullUnknown, PullMax, vars, handler
<1>12. CASE Restart
  BY <1>12 DEF Restart, Reported, ReportedFor, InTx
<1>13. CASE UNCHANGED vars
  BY <1>3, <1>13 DEF vars, handler
<1>14. QED
  BY <1>4, <1>5, <1>6, <1>7, <1>8, <1>9, <1>10, <1>11, <1>12, <1>13
  DEF Next, Handle, Writers, FailTx, FailLatest, RecordConflict, DeadlockVictim, Release

\* An operation the reply calls applied or duplicate, which the client then
\* deletes from its outbox, is committed; one it calls failed is committed as such.
THEOREM DurableReplies == Spec => []RepliesAreDurable
<1>1. Init => Reported
  BY DEF Init, Reported, ReportedFor, InTx
<1>2. Typed /\ LedgerInv /\ Reported /\ [Next]_vars => Reported'
  BY ReportedNext
<1>3. Reported => RepliesAreDurable
  BY DEF Reported, ReportedFor, RepliesAreDurable
<1>4. QED
  BY <1>1, <1>2, <1>3, Invariants, PTL DEF Spec

-----------------------------------------------------------------------------
(* The log: its last upsert of a row is the row.                           *)

\* The upserts of a row in the log come before an id.
UpsertsBelow(k, i) == \A e \in events : e.key = k /\ e.kind = "upsert" => e.id < i

\* A transaction has written a row and is about to log it.
Unlogged(c, k) == pc[c] = "event" /\ Head(todo[c]).key = k

\* A transaction's last event of a row it holds carries the row, and will be the last
\* upsert in the log or come after it.
Closes(c, k, d) ==
    /\ d.key = k
    /\ \A e \in txEvents[c] : e.key = k => e.id <= d.id
    /\ d.kind = "upsert" => d.row = txRows[c][k]
    /\ UpsertsBelow(k, d.id)
TxCloses ==
    \A c \in Conns, k \in Keys :
        txRows[c][k] # Untouched /\ ~Unlogged(c, k) => \E d \in txEvents[c] : Closes(c, k, d)

\* An upsert is logged under the row's lock.
TxLocks ==
    \A c \in Conns :
        /\ \A e \in txEvents[c] : e.kind = "upsert" => txRows[c][e.key] # Untouched
        /\ pc[c] = "event" /\ Head(todo[c]).kind = "upsert" =>
             txRows[c][Head(todo[c]).key] # Untouched

\* So is the event of a writer, whose row nobody else holds.
WriterLocks ==
    \A w \in Enrichers : wpc[w] = "open" =>
        /\ UpsertsBelow(wkey[w], wid[w])
        /\ \A v \in Enrichers \ {w} : wpc[v] = "open" => wkey[v] # wkey[w]
        /\ \A c \in Conns : txRows[c][wkey[w]] = Untouched

LastIsRow ==
    \A e \in events :
        e.kind = "upsert" /\ (\A d \in events : d.key = e.key => d.id <= e.id)
            => rows[e.key] = e.row

LogInv == TxCloses /\ TxLocks /\ WriterLocks /\ LastIsRow

\* LatestId of a nonempty, bounded set of events is the id of one of them, and no less
\* than the others'.
LEMMA LatestIsOne ==
    ASSUME NEW S \in SUBSET Event, S # {}, NEW n \in Nat, \A e \in S : e.id <= n
    PROVE  \E e \in S : e.id = LatestId(S) /\ \A d \in S : d.id <= e.id
<1> DEFINE ids == {e.id : e \in S}
<1>1. ids \in SUBSET Nat /\ ids # {} /\ \A i \in ids : i <= n
  BY DEF Event
<1> HIDE DEF ids
<1>2. PICK m \in ids : \A i \in ids : i <= m
  BY <1>1, LargestNatural
<1> USE DEF ids
<1>3. \E i \in ids : \A e \in S : e.id <= i
  BY <1>2
<1>4. LatestId(S) \in ids /\ \A e \in S : e.id <= LatestId(S)
  BY <1>3 DEF LatestId
<1>5. QED
  BY <1>4

-----------------------------------------------------------------------------
\* Nothing is logged and nothing locked at first.
LEMMA LogInit == Init => LogInv
BY DEF Init, LogInv, TxCloses, TxLocks, WriterLocks, LastIsRow, Writers

\* A step that leaves rows, events, locks and writers alone and no handler at AppendEvent.
LEMMA LogStays ==
    ASSUME LogInv, UNCHANGED <<rows, events, wpc, wkey, wid, txRows, txEvents>>, NEW c \in Conns,
           pc[c] # "event", pc'[c] # "event",
           \A d \in Conns \ {c} : pc'[d] = pc[d] /\ todo'[d] = todo[d]
    PROVE  LogInv'
<1>1. \A d \in Conns, k \in Keys : Unlogged(d, k)' <=> Unlogged(d, k)
  BY DEF Unlogged
<1>2. \A d \in Conns, k \in Keys : \A e \in txEvents[d] : Closes(d, k, e)' <=> Closes(d, k, e)
  BY DEF Closes, UpsertsBelow
<1>3. TxCloses'
  BY <1>1, <1>2 DEF LogInv, TxCloses
<1>4. TxLocks'
  BY DEF LogInv, TxLocks
<1>5. WriterLocks' /\ LastIsRow'
  BY DEF LogInv, WriterLocks, LastIsRow, UpsertsBelow
<1>6. QED
  BY <1>3, <1>4, <1>5 DEF LogInv

\* A step of others than handlers and writers.
LEMMA LogAside ==
    ASSUME LogInv, UNCHANGED <<rows, events, wpc, wkey, wid, txRows, txEvents, pc, todo>>
    PROVE  LogInv'
BY DEF LogInv, TxCloses, TxLocks, WriterLocks, LastIsRow, UpsertsBelow, Unlogged, Closes

\* A transaction that is rolled back gives up its locks and events.
LEMMA LogDropped ==
    ASSUME Typed, LogInv, UNCHANGED <<rows, events, wpc, wkey, wid>>,
           \A c \in Conns :
             \/ /\ txRows'[c] = [k \in Keys |-> Untouched] /\ txEvents'[c] = {}
                /\ pc'[c] # "event"
             \/ /\ txRows'[c] = txRows[c] /\ txEvents'[c] = txEvents[c]
                /\ pc'[c] = pc[c] /\ todo'[c] = todo[c]
    PROVE  LogInv'
<1>1. \A c \in Conns, k \in Keys : txRows'[c][k] # Untouched =>
         /\ txRows'[c] = txRows[c] /\ txEvents'[c] = txEvents[c]
         /\ pc'[c] = pc[c] /\ todo'[c] = todo[c]
  OBVIOUS
<1>2. TxCloses'
  <2> SUFFICES ASSUME NEW c \in Conns, NEW k \in Keys, txRows'[c][k] # Untouched,
                      ~Unlogged(c, k)'
               PROVE  \E d \in txEvents'[c] : Closes(c, k, d)'
    BY DEF TxCloses
  <2>1. txRows[c][k] # Untouched /\ ~Unlogged(c, k)
    BY <1>1 DEF Unlogged
  <2>2. PICK d \in txEvents[c] : Closes(c, k, d)
    BY <2>1 DEF LogInv, TxCloses
  <2>3. Closes(c, k, d)'
    BY <1>1, <2>2 DEF Closes, UpsertsBelow
  <2>4. QED
    BY <1>1, <2>3
<1>3. TxLocks'
  BY DEF LogInv, TxLocks
<1>4. WriterLocks'
  <2> SUFFICES ASSUME NEW w \in Enrichers, wpc'[w] = "open"
               PROVE  /\ UpsertsBelow(wkey[w], wid[w])'
                      /\ \A v \in Enrichers \ {w} : wpc'[v] = "open" => wkey'[v] # wkey'[w]
                      /\ \A c \in Conns : txRows'[c][wkey'[w]] = Untouched
    BY DEF WriterLocks
  <2>1. wkey[w] \in Keys
    BY DEF Typed, Assigned, Writers
  <2>2. \A c \in Conns : txRows[c][wkey[w]] = Untouched
    BY DEF LogInv, WriterLocks
  <2>3. QED
    BY <2>1, <2>2 DEF LogInv, WriterLocks, UpsertsBelow
<1>5. LastIsRow'
  BY DEF LogInv, LastIsRow
<1>6. QED
  BY <1>2, <1>3, <1>4, <1>5 DEF LogInv

\* The write of a row takes its lock, which nobody else holds.
LEMMA LogWriteRow ==
    ASSUME Typed, LogInv, NEW c \in Conns, WriteRow(c)
    PROVE  LogInv'
<1> DEFINE o == Head(todo[c])
           new == IF o.kind = "upsert"
                    THEN Upserted(o, ReconciledCover(o, existing[c]), View(c, o.key))
                    ELSE IF SeesNothing(c, o) THEN txRows[c][o.key] ELSE NoRow
<1>1. o \in Ops /\ o.key \in Keys /\ o.kind \in {"upsert", "delete"}
  BY HeadTail DEF WriteRow, Op, Typed, TypeOK, Shape
<1>2. txRows' = [txRows EXCEPT ![c][o.key] = new]
  BY DEF WriteRow
<1>3. /\ pc[c] = "write" /\ pc'[c] = "event"
      /\ \A d \in Conns \ {c} : pc'[d] = pc[d]
      /\ UNCHANGED <<todo, rows, events, wpc, wkey, wid, txEvents>>
  BY DEF WriteRow, Typed, TypeOK, tables, writers
<1>4. SeesNothing(c, o) => o.kind = "delete" /\ new = txRows[c][o.key]
  BY <1>1 DEF SeesNothing
<1>5. ~SeesNothing(c, o) =>
        new # Untouched /\ \A w \in Enrichers : wpc[w] = "open" => wkey[w] # o.key
  <2>1. o.kind = "upsert" => new \in Row
    BY <1>1, ViewType, UpsertedType DEF Typed, TypeOK
  <2>2. ~SeesNothing(c, o) => ~LockedByWriter(o.key)
    BY DEF WriteRow
  <2>3. QED
    BY <1>1, <2>1, <2>2 DEF LockedByWriter
<1> HIDE DEF new
<1>6. /\ \A d \in Conns \ {c} : txRows'[d] = txRows[d]
      /\ \A k \in Keys \ {o.key} : txRows'[c][k] = txRows[c][k]
      /\ txRows'[c][o.key] = new
  BY <1>1, <1>2 DEF Typed, TypeOK
<1>7. TxCloses'
  <2> SUFFICES ASSUME NEW d \in Conns, NEW k \in Keys, txRows'[d][k] # Untouched,
                      ~Unlogged(d, k)'
               PROVE  \E e \in txEvents'[d] : Closes(d, k, e)'
    BY DEF TxCloses
  <2>1. ~(d = c /\ k = o.key)
    BY <1>3 DEF Unlogged
  <2>2. txRows'[d][k] = txRows[d][k]
    BY <1>6, <2>1
  <2>3. ~Unlogged(d, k)
    BY <1>3 DEF Unlogged
  <2>4. PICK e \in txEvents[d] : Closes(d, k, e)
    BY <2>2, <2>3 DEF LogInv, TxCloses
  <2>5. Closes(d, k, e)'
    BY <1>3, <2>2, <2>4 DEF Closes, UpsertsBelow
  <2>6. QED
    BY <1>3, <2>5
<1>8. TxLocks'
  <2>1. \A d \in Conns, k \in Keys : txRows[d][k] # Untouched => txRows'[d][k] # Untouched
    BY <1>4, <1>5, <1>6
  <2>2. o.kind = "upsert" => txRows'[c][o.key] # Untouched
    BY <1>4, <1>5, <1>6
  <2>3. \A d \in Conns : \A e \in txEvents[d] : e.key \in Keys
    BY DEF Typed, TypeOK, Event
  <2>4. \A d \in Conns \ {c} : pc[d] = "event" => Head(todo[d]).key \in Keys
    BY HeadTail DEF Typed, TypeOK, Shape, Op
  <2>5. QED
    BY <1>3, <2>1, <2>2, <2>3, <2>4 DEF LogInv, TxLocks
<1>9. WriterLocks'
  <2> SUFFICES ASSUME NEW w \in Enrichers, wpc[w] = "open"
               PROVE  /\ UpsertsBelow(wkey[w], wid[w])'
                      /\ \A v \in Enrichers \ {w} : wpc[v] = "open" => wkey[v] # wkey[w]
                      /\ \A d \in Conns : txRows'[d][wkey[w]] = Untouched
    BY <1>3 DEF WriterLocks
  <2>1. wkey[w] \in Keys
    BY DEF Typed, Assigned, Writers
  <2>2. \A d \in Conns : txRows[d][wkey[w]] = Untouched
    BY DEF LogInv, WriterLocks
  <2>3. \A d \in Conns : txRows'[d][wkey[w]] = Untouched
    BY <1>4, <1>5, <1>6, <2>1, <2>2
  <2>4. QED
    BY <1>3, <2>3 DEF LogInv, WriterLocks, UpsertsBelow
<1>10. LastIsRow'
  BY <1>3 DEF LogInv, LastIsRow
<1>11. QED
  BY <1>7, <1>8, <1>9, <1>10 DEF LogInv

\* The event takes a new id, above all in the log, and carries the row as written.
LEMMA LogAppendEvent ==
    ASSUME Typed, LogInv, NEW c \in Conns, AppendEvent(c)
    PROVE  LogInv'
<1> DEFINE o == Head(todo[c])
<1>0. PICK e : e = [id |-> seq + 1, key |-> o.key, kind |-> o.kind, op |-> o,
                    row |-> IF o.kind = "upsert" THEN View(c, o.key) ELSE NoRow]
  OBVIOUS
<1>1. o \in Ops /\ o.key \in Keys /\ o.kind \in {"upsert", "delete"}
  BY HeadTail DEF AppendEvent, Op, Typed, TypeOK, Shape
<1>2. /\ e.id = seq + 1 /\ e.key = o.key /\ e.kind = o.kind
      /\ e.kind = "upsert" => e.row = View(c, o.key)
  BY <1>0
<1>3. /\ pc[c] = "event" /\ pc'[c] = "record"
      /\ \A d \in Conns \ {c} : pc'[d] = pc[d] /\ txEvents'[d] = txEvents[d]
      /\ txEvents'[c] = txEvents[c] \cup {e}
      /\ UNCHANGED <<todo, rows, events, wpc, wkey, wid, txRows>>
  BY <1>0 DEF AppendEvent, Typed, TypeOK, tables, writers
<1>4. o.kind = "upsert" => txRows[c][o.key] # Untouched
  BY <1>3 DEF LogInv, TxLocks
<1>5. /\ seq \in Nat
      /\ \A d \in events : d.id \in Nat /\ d.id <= seq
      /\ \A d \in txEvents[c] : d.id \in Nat /\ d.id <= seq
  BY DEF Typed, TypeOK, Allocated, Event
<1>6. TxCloses'
  <2> SUFFICES ASSUME NEW d \in Conns, NEW k \in Keys, txRows[d][k] # Untouched,
                      ~Unlogged(d, k)'
               PROVE  \E f \in txEvents'[d] : Closes(d, k, f)'
    BY <1>3 DEF TxCloses
  <2>1. CASE d = c /\ k = o.key
    <3>1. e.kind = "upsert" => e.row = txRows'[c][k]
      BY <1>2, <1>3, <2>1 DEF View
    <3>2. \A f \in txEvents'[c] : f.id <= e.id
      BY <1>2, <1>3, <1>5
    <3>3. UpsertsBelow(k, e.id)'
      BY <1>2, <1>3, <1>5 DEF UpsertsBelow
    <3>4. Closes(c, k, e)'
      BY <1>2, <2>1, <3>1, <3>2, <3>3 DEF Closes
    <3>5. QED
      BY <1>3, <2>1, <3>4
  <2>2. CASE ~(d = c /\ k = o.key)
    <3>1. ~Unlogged(d, k)
      BY <1>3, <2>2 DEF Unlogged
    <3>2. PICK f \in txEvents[d] : Closes(d, k, f)
      BY <3>1 DEF LogInv, TxCloses
    <3>3. \A g \in txEvents'[d] : g.key = k => g \in txEvents[d]
      BY <1>2, <1>3, <2>2
    <3>4. Closes(d, k, f)'
      BY <1>3, <3>2, <3>3 DEF Closes, UpsertsBelow
    <3>5. QED
      BY <1>3, <3>2, <3>4
  <2>3. QED
    BY <2>1, <2>2
<1>7. TxLocks'
  BY <1>2, <1>3, <1>4 DEF LogInv, TxLocks
<1>8. WriterLocks' /\ LastIsRow'
  BY <1>3 DEF LogInv, WriterLocks, LastIsRow, UpsertsBelow
<1>9. QED
  BY <1>6, <1>7, <1>8 DEF LogInv

\* A commit makes the last event of each row it held the last upsert, or hides it behind
\* a delete; of the other rows it logs deletes only.
LEMMA LogCommit ==
    ASSUME Typed, IdsDistinct, RowsExclusive, LogInv, NEW c \in Conns, CommitTx(c)
    PROVE  LogInv'
<1>1. /\ \A k \in Keys : rows'[k] = View(c, k)
      /\ events' = events \cup txEvents[c]
      /\ txRows'[c] = [k \in Keys |-> Untouched] /\ txEvents'[c] = {}
      /\ \A d \in Conns \ {c} : /\ txRows'[d] = txRows[d] /\ txEvents'[d] = txEvents[d]
                                /\ pc'[d] = pc[d]
      /\ pc[c] = "check" /\ pc'[c] = "latest"
      /\ UNCHANGED <<todo, wpc, wkey, wid>>
  BY DEF CommitTx, Typed, TypeOK, writers
<1>2. \A e \in txEvents[c] : e.kind = "upsert" => e.key \in Keys /\ txRows[c][e.key] # Untouched
  BY DEF LogInv, TxLocks, Typed, TypeOK, Event
<1>3. \A d \in Conns \ {c}, k \in Keys : txRows[d][k] # Untouched => txRows[c][k] = Untouched
  BY DEF RowsExclusive
<1>4. ASSUME NEW k, txRows[c][k] = Untouched, NEW i, UpsertsBelow(k, i)
      PROVE  UpsertsBelow(k, i)'
  BY <1>1, <1>2, <1>4 DEF UpsertsBelow
<1>5. TxCloses'
  <2> SUFFICES ASSUME NEW d \in Conns, NEW k \in Keys, txRows'[d][k] # Untouched,
                      ~Unlogged(d, k)'
               PROVE  \E e \in txEvents'[d] : Closes(d, k, e)'
    BY DEF TxCloses
  <2>1. d # c
    BY <1>1
  <2>2. txRows[d][k] # Untouched /\ ~Unlogged(d, k)
    BY <1>1, <2>1 DEF Unlogged
  <2>3. PICK e \in txEvents[d] : Closes(d, k, e)
    BY <2>2 DEF LogInv, TxCloses
  <2>4. UpsertsBelow(k, e.id)'
    BY <1>3, <1>4, <2>1, <2>2, <2>3 DEF Closes
  <2>5. Closes(d, k, e)'
    BY <1>1, <2>1, <2>3, <2>4 DEF Closes
  <2>6. QED
    BY <1>1, <2>1, <2>5
<1>6. TxLocks'
  BY <1>1 DEF LogInv, TxLocks
<1>7. WriterLocks'
  <2> SUFFICES ASSUME NEW w \in Enrichers, wpc[w] = "open"
               PROVE  /\ UpsertsBelow(wkey[w], wid[w])'
                      /\ \A v \in Enrichers \ {w} : wpc[v] = "open" => wkey[v] # wkey[w]
                      /\ \A d \in Conns : txRows'[d][wkey[w]] = Untouched
    BY <1>1 DEF WriterLocks
  <2>1. wkey[w] \in Keys
    BY DEF Typed, Assigned, Writers
  <2>2. /\ UpsertsBelow(wkey[w], wid[w])
        /\ \A v \in Enrichers \ {w} : wpc[v] = "open" => wkey[v] # wkey[w]
        /\ \A d \in Conns : txRows[d][wkey[w]] = Untouched
    BY DEF LogInv, WriterLocks
  <2>3. UpsertsBelow(wkey[w], wid[w])'
    BY <1>1, <1>4, <2>2
  <2>4. QED
    BY <1>1, <2>1, <2>2, <2>3
<1>8. LastIsRow'
  <2> SUFFICES ASSUME NEW e \in events', e.kind = "upsert",
                      \A d \in events' : d.key = e.key => d.id <= e.id
               PROVE  rows'[e.key] = e.row
    BY DEF LastIsRow
  <2> DEFINE k == e.key
  <2>1. k \in Keys /\ e.id \in Nat
    BY <1>1 DEF Typed, TypeOK, Event
  <2>2. CASE txRows[c][k] = Untouched
    <3>1. e \in events
      BY <1>1, <1>2, <2>2
    <3>2. rows[k] = e.row
      BY <1>1, <3>1 DEF LogInv, LastIsRow
    <3>3. QED
      BY <1>1, <2>1, <2>2, <3>2 DEF View
  <2>3. CASE txRows[c][k] # Untouched
    <3>1. ~Unlogged(c, k)
      BY <1>1 DEF Unlogged
    <3>2. PICK d \in txEvents[c] : Closes(c, k, d)
      BY <2>1, <2>3, <3>1 DEF LogInv, TxCloses
    <3>3. d.id <= e.id /\ d.id \in Nat
      BY <1>1, <3>2 DEF Closes, Typed, TypeOK, Event
    <3>4. e \notin events
      BY <2>1, <3>2, <3>3 DEF Closes, UpsertsBelow
    <3>5. e \in txEvents[c] /\ e.id <= d.id
      BY <1>1, <3>2, <3>4 DEF Closes
    <3>6. e = d
      BY <2>1, <3>3, <3>5 DEF IdsDistinct, TxIds
    <3>7. QED
      BY <1>1, <2>1, <2>3, <3>2, <3>6 DEF Closes, View
  <2>4. QED
    BY <2>2, <2>3
<1>9. QED
  BY <1>5, <1>6, <1>7, <1>8 DEF LogInv

\* A writer starts on a row nobody holds, under a new id.
LEMMA LogEnrichBegin ==
    ASSUME Typed, LogInv, NEW w \in Enrichers, NEW k \in Keys, NEW i \in Infos, EnrichBegin(w, k, i)
    PROVE  LogInv'
<1>1. /\ wpc'[w] = "open" /\ wkey'[w] = k /\ wid'[w] = seq + 1
      /\ \A v \in Enrichers \ {w} : wpc'[v] = wpc[v] /\ wkey'[v] = wkey[v] /\ wid'[v] = wid[v]
      /\ UNCHANGED <<rows, events, txRows, txEvents, pc, todo>>
  BY DEF EnrichBegin, Patched, Typed, TypeOK, tables, handler, Writers
<1>2. /\ \A c \in Conns : txRows[c][k] = Untouched
      /\ \A v \in Enrichers : wpc[v] = "open" => wkey[v] # k
  BY DEF EnrichBegin, Patched, RowBusy, LockedByWriter
<1>3. UpsertsBelow(k, seq + 1)
  BY DEF UpsertsBelow, Typed, TypeOK, Allocated, Event
<1>4. TxCloses' /\ TxLocks' /\ LastIsRow'
  BY <1>1 DEF LogInv, TxCloses, TxLocks, LastIsRow, Closes, UpsertsBelow, Unlogged
<1>5. WriterLocks'
  <2> SUFFICES ASSUME NEW v \in Enrichers, wpc'[v] = "open"
               PROVE  /\ UpsertsBelow(wkey[v], wid[v])'
                      /\ \A u \in Enrichers \ {v} : wpc'[u] = "open" => wkey'[u] # wkey'[v]
                      /\ \A c \in Conns : txRows'[c][wkey'[v]] = Untouched
    BY DEF WriterLocks
  <2>1. CASE v = w
    BY <1>1, <1>2, <1>3, <2>1 DEF UpsertsBelow
  <2>2. CASE v # w
    BY <1>1, <1>2, <2>2 DEF LogInv, WriterLocks, UpsertsBelow
  <2>3. QED
    BY <2>1, <2>2
<1>6. QED
  BY <1>4, <1>5 DEF LogInv

\* A writer's commit makes its event the last upsert of its row, or leaves it behind a delete.
LEMMA LogEnrichCommit ==
    ASSUME Typed, LogInv, NEW w \in Enrichers, EnrichCommit(w)
    PROVE  LogInv'
<1> DEFINE k == wkey[w]
           e == SystemEvent(wid[w], wkey[w], wrow[w])
<1>1. k \in Keys /\ wid[w] \in Nat
  BY DEF EnrichCommit, Typed, TypeOK, Assigned, Writers
<1>2. e.id = wid[w] /\ e.key = k /\ e.kind = "upsert" /\ e.row = wrow[w]
  BY DEF SystemEvent
<1>3. /\ rows'[k] = wrow[w] /\ \A j \in Keys \ {k} : rows'[j] = rows[j]
      /\ events' = events \cup {e}
      /\ wpc'[w] = "idle"
      /\ \A v \in Enrichers \ {w} : wpc'[v] = wpc[v] /\ wkey'[v] = wkey[v] /\ wid'[v] = wid[v]
      /\ UNCHANGED <<txRows, txEvents, pc, todo>>
  BY <1>1 DEF EnrichCommit, WriterDone, Typed, TypeOK, handler, Writers
<1> HIDE DEF e
<1>4. /\ UpsertsBelow(k, e.id)
      /\ \A v \in Enrichers \ {w} : wpc[v] = "open" => wkey[v] # k
      /\ \A c \in Conns : txRows[c][k] = Untouched
  BY <1>2 DEF LogInv, WriterLocks, EnrichCommit
<1>5. ASSUME NEW j, j # k, NEW i, UpsertsBelow(j, i)
      PROVE  UpsertsBelow(j, i)'
  BY <1>2, <1>3, <1>5 DEF UpsertsBelow
<1>6. TxCloses'
  <2> SUFFICES ASSUME NEW c \in Conns, NEW j \in Keys, txRows[c][j] # Untouched,
                      ~Unlogged(c, j)
               PROVE  \E d \in txEvents[c] : Closes(c, j, d)'
    BY <1>3 DEF TxCloses, Unlogged
  <2>1. PICK d \in txEvents[c] : Closes(c, j, d)
    BY DEF LogInv, TxCloses
  <2>2. UpsertsBelow(j, d.id)'
    BY <1>4, <1>5, <2>1 DEF Closes
  <2>3. Closes(c, j, d)'
    BY <1>3, <2>1, <2>2 DEF Closes
  <2>4. QED
    BY <2>3
<1>7. TxLocks'
  BY <1>3 DEF LogInv, TxLocks
<1>8. WriterLocks'
  <2> SUFFICES ASSUME NEW v \in Enrichers, wpc'[v] = "open"
               PROVE  /\ UpsertsBelow(wkey[v], wid[v])'
                      /\ \A u \in Enrichers \ {v} : wpc'[u] = "open" => wkey'[u] # wkey'[v]
                      /\ \A c \in Conns : txRows'[c][wkey'[v]] = Untouched
    BY DEF WriterLocks
  <2>1. v # w /\ wpc[v] = "open" /\ wkey'[v] = wkey[v] /\ wid'[v] = wid[v]
    BY <1>3
  <2>2. /\ UpsertsBelow(wkey[v], wid[v])
        /\ \A u \in Enrichers \ {v} : wpc[u] = "open" => wkey[u] # wkey[v]
        /\ \A c \in Conns : txRows[c][wkey[v]] = Untouched
    BY <2>1 DEF LogInv, WriterLocks
  <2>3. PICK j, i : j = wkey[v] /\ i = wid[v]
    OBVIOUS
  <2>4. UpsertsBelow(wkey[v], wid[v])'
    <3>1. UpsertsBelow(j, i)'
      BY <1>4, <1>5, <2>1, <2>2, <2>3
    <3>2. QED
      BY <2>1, <2>3, <3>1 DEF UpsertsBelow
  <2>5. \A u \in Enrichers \ {v} : wpc'[u] = "open" => wkey'[u] # wkey'[v]
    BY <1>3, <2>1, <2>2
  <2>6. QED
    BY <1>3, <2>1, <2>2, <2>4, <2>5
<1>9. LastIsRow'
  <2> SUFFICES ASSUME NEW f \in events', f.kind = "upsert",
                      \A d \in events' : d.key = f.key => d.id <= f.id
               PROVE  rows'[f.key] = f.row
    BY DEF LastIsRow
  <2>1. CASE f = e
    BY <1>2, <1>3, <2>1
  <2>2. CASE f \in events /\ f.key = k
    <3>1. f.id < e.id /\ e.id <= f.id /\ f.id \in Nat /\ e.id \in Nat
      BY <1>1, <1>2, <1>3, <1>4, <2>2 DEF UpsertsBelow, Typed, TypeOK, Event
    <3>2. QED
      BY <3>1
  <2>3. CASE f \in events /\ f.key # k
    <3>1. f.key \in Keys
      BY <2>3 DEF Typed, TypeOK, Event
    <3>2. rows[f.key] = f.row
      BY <1>3, <2>3 DEF LogInv, LastIsRow
    <3>3. QED
      BY <1>3, <2>3, <3>1, <3>2
  <2>4. QED
    BY <1>3, <2>1, <2>2, <2>3
<1>10. QED
  BY <1>6, <1>7, <1>8, <1>9 DEF LogInv

\* A writer that fails gives up its row.
LEMMA LogWriterFails ==
    ASSUME Typed, LogInv, NEW w \in Writers, WriterFails(w)
    PROVE  LogInv'
<1>1. /\ wpc'[w] = "idle"
      /\ \A v \in Enrichers \ {w} : wpc'[v] = wpc[v] /\ wkey'[v] = wkey[v] /\ wid'[v] = wid[v]
      /\ UNCHANGED <<rows, events, txRows, txEvents, pc, todo>>
  BY DEF WriterFails, WriterDone, Typed, TypeOK, tables, handler, Writers
<1>2. TxCloses' /\ TxLocks' /\ LastIsRow'
  BY <1>1 DEF LogInv, TxCloses, TxLocks, LastIsRow, Closes, UpsertsBelow, Unlogged
<1>3. WriterLocks'
  BY <1>1 DEF LogInv, WriterLocks, UpsertsBelow
<1>4. QED
  BY <1>2, <1>3 DEF LogInv

\* With the writers that update and log in one transaction, LogInv is inductive.
LEMMA LogNext ==
    ASSUME Pricers = {}
    PROVE  Typed /\ IdsDistinct /\ RowsExclusive /\ LogInv /\ [Next]_vars => LogInv'
<1> SUFFICES ASSUME Typed, IdsDistinct, RowsExclusive, LogInv, [Next]_vars PROVE LogInv'
  OBVIOUS
<1>1. ASSUME NEW c \in Conns, Rollback(c) PROVE LogInv'
  BY <1>1, LogDropped DEF Rollback, tables, writers, Typed, TypeOK
<1>2. ASSUME NEW c \in Conns,
             \/ \E batch \in Batches : Push(c, batch)
             \/ SkipDuplicate(c) \/ StartOp(c) \/ ReadExisting(c) \/ RecordOp(c) \/ ReadLatest(c)
      PROVE  LogInv'
  <2>1. /\ UNCHANGED <<rows, events, wpc, wkey, wid, txRows, txEvents>>
        /\ pc[c] # "event" /\ pc'[c] # "event"
        /\ \A d \in Conns \ {c} : pc'[d] = pc[d] /\ todo'[d] = todo[d]
    BY <1>2 DEF Push, SkipDuplicate, StartOp, ReadExisting, RecordOp, ReadLatest, tables, writers,
                Typed, TypeOK
  <2>2. QED
    BY <2>1, LogStays
<1>3. ASSUME NEW c \in Conns, Handle(c) \/ FailTx(c) \/ FailLatest(c) PROVE LogInv'
  BY <1>1, <1>2, <1>3, LogWriteRow, LogAppendEvent, LogCommit
  DEF Handle, FailTx, FailLatest, RecordConflict, DeadlockVictim, Release
<1>4. ASSUME NEW r \in Readers,
             PullPage(r) \/ PullEmpty(r) \/ PullUnknown(r) \/ PullMax(r)
      PROVE  LogInv'
  <2>1. UNCHANGED <<rows, events, wpc, wkey, wid, txRows, txEvents, pc, todo>>
    BY <1>4 DEF PullPage, PullEmpty, PullUnknown, PullMax, vars, tables, handler, writers
  <2>2. QED
    BY <2>1, LogAside
<1>5. CASE Restart
  BY <1>5, LogDropped DEF Restart, tables, writers
<1>6. CASE UNCHANGED vars
  BY <1>6, LogAside DEF vars, tables, handler, writers
<1>7. QED
  BY <1>2, <1>3, <1>4, <1>5, <1>6, LogEnrichBegin, LogEnrichCommit, LogWriterFails DEF Next

\* The last event of a row, when it is an upsert, carries the row: whatever runs at once,
\* fails or restarts, as long as every writer updates and logs in one transaction.
THEOREM LogEndsInTheRow ==
    ASSUME Pricers = {}
    PROVE  Spec => []LastUpsertIsTheRow
<1>1. Init => RowsExclusive
  BY DEF Init, RowsExclusive
<1>2. Typed /\ IdsDistinct /\ RowsExclusive /\ LogInv /\ [Next]_vars => LogInv'
  BY LogNext
<1>3. Typed /\ LogInv => LastUpsertIsTheRow
  <2> SUFFICES ASSUME Typed, LogInv, NEW k \in Keys, Logged(k), LastEvent(k).kind = "upsert"
               PROVE  rows[k] = LastEvent(k).row
    BY DEF LastUpsertIsTheRow
  <2> DEFINE mine == {e \in events : e.key = k}
             last == LastEvent(k)
  <2>1. last \in mine /\ \A e \in mine : e.id <= last.id
    <3>1. mine # {} /\ mine \in SUBSET Event /\ \A e \in mine : e.id <= seq
      BY DEF Logged, Typed, TypeOK, Allocated
    <3>2. seq \in Nat
      BY DEF Typed, TypeOK
    <3>3. PICK e \in mine : e.id = LatestId(mine) /\ \A d \in mine : d.id <= e.id
      BY <3>1, <3>2, LatestIsOne
    <3>4. last \in mine /\ last.id = LatestId(mine)
      BY <3>3 DEF LastEvent
    <3>5. QED
      BY <3>3, <3>4
  <2>2. QED
    BY <2>1 DEF LogInv, LastIsRow
<1>4. QED
  BY <1>1, <1>2, <1>3, LogInit, IdsInit, IdsNext, RowsNext, TypedInit, TypedNext, PTL DEF Spec

\* An upsert in the log carries a row, for a transaction logs one right after writing it.
UpsertsCarryRows ==
    /\ \A e \in events : e.kind = "upsert" => e.row \in Row
    /\ \A c \in Conns : /\ \A e \in txEvents[c] : e.kind = "upsert" => e.row \in Row
                        /\ pc[c] = "event" /\ Head(todo[c]).kind = "upsert" =>
                             txRows[c][Head(todo[c]).key] \in Row

LEMMA UpsertsCarryRowsNext == Typed /\ UpsertsCarryRows /\ [Next]_vars => UpsertsCarryRows'
<1> SUFFICES ASSUME Typed, UpsertsCarryRows, [Next]_vars PROVE UpsertsCarryRows'
  OBVIOUS
<1>1. ASSUME UNCHANGED <<events, txEvents, txRows>>,
             \A c \in Conns : pc'[c] = "event" => pc[c] = "event" /\ todo'[c] = todo[c]
      PROVE  UpsertsCarryRows'
  BY <1>1 DEF UpsertsCarryRows
<1>2. ASSUME NEW c \in Conns, Rollback(c) PROVE UpsertsCarryRows'
  BY <1>2 DEF Rollback, UpsertsCarryRows, Typed, TypeOK, tables
<1>3. ASSUME NEW c \in Conns,
             \/ \E batch \in Batches : Push(c, batch)
             \/ SkipDuplicate(c) \/ StartOp(c) \/ ReadExisting(c) \/ RecordOp(c) \/ ReadLatest(c)
      PROVE  UpsertsCarryRows'
  <2>1. /\ UNCHANGED <<events, txEvents, txRows>> /\ pc[c] # "event" /\ pc'[c] # "event"
        /\ \A d \in Conns \ {c} : pc'[d] = pc[d] /\ todo'[d] = todo[d]
    BY <1>3 DEF Push, SkipDuplicate, StartOp, ReadExisting, RecordOp, ReadLatest, tables,
                Typed, TypeOK
  <2>2. QED
    BY <1>1, <2>1
<1>4. ASSUME NEW c \in Conns, WriteRow(c) PROVE UpsertsCarryRows'
  <2> DEFINE o == Head(todo[c])
             new == Upserted(o, ReconciledCover(o, existing[c]), View(c, o.key))
  <2>1. o \in Ops /\ o \in Op /\ o.key \in Keys
    BY <1>4, HeadTail DEF WriteRow, Op, Typed, TypeOK, Shape
  <2>2. View(c, o.key) \in Row \cup {NoRow} /\ existing[c] \in Row \cup {NoRow}
    BY <2>1, ViewType DEF Typed, TypeOK
  <2>3. o.kind = "upsert" => new \in Row
    BY <2>1, <2>2, UpsertedType
  <2> HIDE DEF new
  <2>4. /\ UNCHANGED <<events, txEvents, todo>>
        /\ \A d \in Conns \ {c} : pc'[d] = pc[d] /\ txRows'[d] = txRows[d]
        /\ o.kind = "upsert" => txRows'[c][o.key] = new
    BY <1>4, <2>1 DEF WriteRow, tables, Typed, TypeOK, new
  <2>5. QED
    BY <2>3, <2>4 DEF UpsertsCarryRows
<1>5. ASSUME NEW c \in Conns, AppendEvent(c) PROVE UpsertsCarryRows'
  <2> DEFINE o == Head(todo[c])
             e == [id |-> seq + 1, key |-> o.key, kind |-> o.kind, op |-> o,
                   row |-> IF o.kind = "upsert" THEN View(c, o.key) ELSE NoRow]
  <2>1. o.kind = "upsert" => View(c, o.key) \in Row
    BY <1>5 DEF AppendEvent, UpsertsCarryRows, View
  <2>2. e.kind = "upsert" => e.row \in Row
    BY <2>1
  <2>3. /\ UNCHANGED <<events, todo, txRows>> /\ pc'[c] # "event"
        /\ \A d \in Conns \ {c} : pc'[d] = pc[d] /\ txEvents'[d] = txEvents[d]
        /\ txEvents'[c] = txEvents[c] \cup {e}
    BY <1>5 DEF AppendEvent, tables, Typed, TypeOK
  <2> HIDE DEF e
  <2>4. QED
    BY <2>2, <2>3 DEF UpsertsCarryRows
<1>6. ASSUME NEW c \in Conns, CommitTx(c) PROVE UpsertsCarryRows'
  <2>1. /\ events' = events \cup txEvents[c] /\ UNCHANGED todo
        /\ pc'[c] = "latest" /\ txEvents'[c] = {}
        /\ \A d \in Conns \ {c} : /\ pc'[d] = pc[d] /\ txEvents'[d] = txEvents[d]
                                  /\ txRows'[d] = txRows[d]
    BY <1>6 DEF CommitTx, Typed, TypeOK
  <2>2. QED
    BY <2>1 DEF UpsertsCarryRows
<1>7. ASSUME NEW w \in Writers,
             \/ EnrichCommit(w) \/ PriceAppend(w) \/ WriterFails(w)
             \/ \E k \in Keys, i \in Infos : EnrichBegin(w, k, i) \/ PriceUpdate(w, k, i)
      PROVE  UpsertsCarryRows'
  <2>1. /\ UNCHANGED handler
        /\ UNCHANGED events \/ \E i : wpc[w] # "idle"
                                      /\ events' = events \cup {SystemEvent(i, wkey[w], wrow[w])}
    BY <1>7 DEF EnrichCommit, PriceAppend, WriterFails, EnrichBegin, PriceUpdate, tables
  <2>2. \A i : wpc[w] # "idle" => SystemEvent(i, wkey[w], wrow[w]).row \in Row
    BY DEF SystemEvent, Typed, Assigned
  <2>3. QED
    BY <2>1, <2>2 DEF UpsertsCarryRows, handler
<1>8. ASSUME NEW r \in Readers, PullPage(r) \/ PullEmpty(r) \/ PullUnknown(r) \/ PullMax(r)
      PROVE  UpsertsCarryRows'
  BY <1>1, <1>8 DEF PullPage, PullEmpty, PullUnknown, PullMax, tables, handler, vars
<1>9. CASE Restart
  BY <1>9 DEF Restart, UpsertsCarryRows, tables
<1>10. CASE UNCHANGED vars
  BY <1>1, <1>10 DEF tables, handler, vars
<1>11. ASSUME NEW c \in Conns, Handle(c) \/ FailTx(c) \/ FailLatest(c) PROVE UpsertsCarryRows'
  BY <1>2, <1>3, <1>4, <1>5, <1>6, <1>11
  DEF Handle, FailTx, FailLatest, RecordConflict, DeadlockVictim, Release
<1>12. QED
  BY <1>3, <1>7, <1>8, <1>9, <1>10, <1>11 DEF Next, Writers

\* Replaying the log never brings back a removed row or an older edit, as long as every
\* writer updates and logs in one transaction: only the writers of prices break it.
THEOREM EditsAreCarried ==
    ASSUME Pricers = {}
    PROVE  Spec => []LastUpsertCarriesTheEdit
<1>1. Init => UpsertsCarryRows
  BY DEF Init, UpsertsCarryRows
<1>2. Typed /\ UpsertsCarryRows /\ LastUpsertIsTheRow => LastUpsertCarriesTheEdit
  <2> SUFFICES ASSUME Typed, UpsertsCarryRows, LastUpsertIsTheRow,
                      NEW k \in Keys, Logged(k), LastEvent(k).kind = "upsert"
               PROVE  rows[k] # NoRow /\ rows[k].edit = LastEvent(k).row.edit
    BY DEF LastUpsertCarriesTheEdit
  <2>1. LastEvent(k) \in events
    <3> DEFINE mine == {e \in events : e.key = k}
    <3>1. mine # {} /\ mine \in SUBSET Event /\ \A e \in mine : e.id <= seq
      BY DEF Logged, Typed, TypeOK, Allocated
    <3>2. seq \in Nat
      BY DEF Typed, TypeOK
    <3>3. PICK e \in mine : e.id = LatestId(mine)
      BY <3>1, <3>2, LatestIsOne
    <3>4. QED
      BY <3>3 DEF LastEvent
  <2>2. rows[k] = LastEvent(k).row /\ LastEvent(k).row \in Row
    BY <2>1 DEF LastUpsertIsTheRow, UpsertsCarryRows
  <2>3. QED
    BY <2>2
<1>3. QED
  BY <1>1, <1>2, UpsertsCarryRowsNext, LogEndsInTheRow, TypedInit, TypedNext, PTL DEF Spec

-----------------------------------------------------------------------------
(* Cursors.                                                                *)

\* No cursor is ahead of the log.
Caught == \A r \in Readers : cursor[r] <= LatestId(events)

\* A cursor starts before the log.
LEMMA CaughtInit == Init => Caught
<1> SUFFICES ASSUME Init PROVE Caught
  OBVIOUS
<1>1. LatestId(events) = 0
  BY DEF Init, LatestId
<1>2. QED
  BY <1>1 DEF Init, Caught

\* A longer log does not end earlier.
LEMMA LatestGrows ==
    ASSUME NEW T \in SUBSET Event, NEW S \in SUBSET T, NEW n \in Nat, \A e \in T : e.id <= n
    PROVE  LatestId(S) <= LatestId(T) /\ LatestId(T) \in Nat /\ LatestId(S) \in Nat
<1>1. LatestId(T) \in Nat /\ \A e \in T : e.id <= LatestId(T)
  BY LatestIdIsLargest
<1> DEFINE m == LatestId(T)
<1>2. m \in Nat /\ \A e \in S : e.id <= m
  BY <1>1
<1> HIDE DEF m
<1>3. LatestId(S) <= m /\ LatestId(S) \in Nat
  BY <1>2, LatestIdIsLargest
<1>4. QED
  BY <1>1, <1>3 DEF m

\* A nonempty set of events has a first one.
LEMMA FirstEvent ==
    ASSUME NEW S \in SUBSET Event, S # {}
    PROVE  \E e \in S : \A d \in S : e.id <= d.id
<1> DEFINE ids == {e.id : e \in S}
<1>1. ids \subseteq Nat /\ ids # {}
  BY DEF Event
<1> HIDE DEF ids
<1>2. PICK m \in ids : \A x \in ids : ~ (<<x, m>> \in OpToRel(<, Nat))
  BY <1>1, NatLessThanWellFounded, WFMin, Zenon
<1>3. \A x \in ids : ~ (x < m)
  BY <1>1, <1>2 DEF OpToRel
<1>4. \A x \in ids : m <= x
  BY <1>1, <1>3
<1>5. QED
  BY <1>4 DEF ids

\* A page of a log that goes on is not empty: the cursor moves to the id of an event
\* beyond it.
LEMMA PageAdvances ==
    ASSUME Typed, LogIds, NEW r \in Readers, PullPage(r)
    PROVE  cursor'[r] > cursor[r] /\ cursor'[r] <= LatestId(events)
<1> DEFINE rest == After(cursor[r])
           page == Page(cursor[r])
<1>1. /\ rest # {} /\ rest \in SUBSET Event
      /\ cursor'[r] = LatestId(page) /\ cursor[r] \in Nat
      /\ \A e \in rest : e \in events /\ e.id > cursor[r]
  BY DEF PullPage, After, Typed, TypeOK
<1>2. seq \in Nat /\ events \in SUBSET Event /\ \A e \in events : e.id <= seq
  BY DEF Typed, TypeOK, Allocated
<1>3. page \in SUBSET rest
  BY DEF Page
<1>4. page # {}
  <2> HIDE DEF rest
  <2>1. PICK e \in rest : \A d \in rest : e.id <= d.id
    BY <1>1, FirstEvent
  <2>2. \A d \in rest : d.id <= e.id <=> d = e
    BY <1>1, <2>1 DEF LogIds, Event
  <2>3. {d \in rest : d.id <= e.id} = {e}
    BY <2>2
  <2>4. Cardinality({d \in rest : d.id <= e.id}) <= PageSize
    <3>1. Cardinality({e}) = 1
      BY FS_Singleton
    <3>2. QED
      BY <2>3, <3>1
  <2>5. QED
    BY <2>4 DEF rest, Page
<1> HIDE DEF page, rest
<1>5. page \in SUBSET Event /\ page \in SUBSET events /\ \A e \in page : e.id <= seq
  BY <1>1, <1>2, <1>3
<1>6. PICK e \in page : e.id = LatestId(page)
  BY <1>2, <1>4, <1>5, LatestIsOne
<1>7. LatestId(page) <= LatestId(events)
  BY <1>2, <1>5, LatestGrows
<1>8. QED
  BY <1>1, <1>3, <1>6, <1>7

\* Only a page moves a cursor: the log does not end before it.
LEMMA CursorMoves ==
    ASSUME Typed, Caught, [Next]_vars
    PROVE  UNCHANGED <<cursor, seen>> \/ \E r \in Readers : PullPage(r)
<1>1. \/ UNCHANGED <<cursor, seen>>
      \/ \E r \in Readers : PullPage(r) \/ PullMax(r)
  BY ZenonT(30)
  DEF    Next, Handle, Push, SkipDuplicate, StartOp, ReadExisting, WriteRow, AppendEvent, RecordOp,
         RecordConflict, DeadlockVictim, CommitTx, ReadLatest, Release, FailTx, FailLatest, Rollback,
         EnrichBegin, EnrichCommit, PriceUpdate, PriceAppend, WriterFails, PullEmpty, PullUnknown,
         Restart, pulling, vars
<1>2. ASSUME NEW r \in Readers, PullMax(r) PROVE UNCHANGED <<cursor, seen>>
  <2>1. /\ cursor' = [cursor EXCEPT ![r] = Smaller(cursor[r], LatestId(events))]
        /\ seen' = seen /\ cursor \in [Readers -> Nat]
    BY <1>2 DEF PullMax, Typed, TypeOK
  <2>2. Smaller(cursor[r], LatestId(events)) = cursor[r]
    <3>1. cursor[r] \in Nat /\ seq \in Nat /\ events \in SUBSET Event /\ \A e \in events : e.id <= seq
      BY DEF Typed, TypeOK, Allocated
    <3>2. LatestId(events) \in Nat /\ cursor[r] <= LatestId(events)
      BY <3>1, LatestIdIsLargest DEF Caught
    <3>3. QED
      BY <3>1, <3>2 DEF Smaller
  <2>3. QED
    BY <2>1, <2>2
<1>3. QED
  BY <1>1, <1>2

\* Only a pull moves a cursor, and never back or past the log.
LEMMA CursorStep ==
    ASSUME Typed, LogIds, Caught, [Next]_vars
    PROVE  \A r \in Readers : \/ cursor'[r] = cursor[r]
                              \/ cursor'[r] >= cursor[r] /\ cursor'[r] <= LatestId(events)
<1> SUFFICES ASSUME NEW r \in Readers, cursor'[r] # cursor[r]
             PROVE  cursor'[r] >= cursor[r] /\ cursor'[r] <= LatestId(events)
  OBVIOUS
<1>1. cursor \in [Readers -> Nat]
  BY DEF Typed, TypeOK
<1>2. PICK q \in Readers : PullPage(q)
  BY CursorMoves
<1>3. q = r
  BY <1>1, <1>2 DEF PullPage
<1>4. cursor'[r] > cursor[r] /\ cursor'[r] <= LatestId(events)
  BY <1>2, <1>3, PageAdvances
<1>5. cursor' \in [Readers -> Nat]
  BY TypedNext DEF Typed, TypeOK
<1>6. QED
  BY <1>1, <1>4, <1>5

\* The log only grows, so a cursor stays within it.
LEMMA CaughtNext == Typed /\ LogIds /\ Caught /\ [Next]_vars => Caught'
<1> SUFFICES ASSUME Typed, LogIds, Caught, [Next]_vars, NEW r \in Readers
             PROVE  cursor'[r] <= LatestId(events')
  BY DEF Caught
<1>1. events \subseteq events'
  BY ZenonT(30)
  DEF    Next, Handle, Push, SkipDuplicate, StartOp, ReadExisting, WriteRow, AppendEvent, RecordOp,
         RecordConflict, DeadlockVictim, CommitTx, ReadLatest, Release, FailTx, FailLatest, Rollback,
         EnrichBegin, EnrichCommit, PriceUpdate, PriceAppend, WriterFails, PullPage, PullEmpty,
         PullUnknown, PullMax, Restart, tables, vars
<1>2. Typed'
  BY TypedNext
<1>3. seq' \in Nat /\ events' \in SUBSET Event /\ \A e \in events' : e.id <= seq'
  BY <1>2 DEF Typed, TypeOK, Allocated
<1>4. /\ LatestId(events) <= LatestId(events')
      /\ LatestId(events') \in Nat /\ LatestId(events) \in Nat
  BY <1>1, <1>3, LatestGrows
<1>5. cursor'[r] <= LatestId(events)
  BY CursorStep DEF Caught
<1>6. cursor'[r] \in Nat
  BY <1>2 DEF Typed, TypeOK
<1>7. QED
  BY <1>4, <1>5, <1>6

\* A pull never moves a cursor back nor past the end of the log, whatever is restarted,
\* committed late or pulled at once.
THEOREM CursorsAdvance == Spec => CursorsOnlyAdvance
<1>1. Init => Caught
  BY CaughtInit
<1>2. Typed /\ IdsDistinct /\ Caught /\ [Next]_vars => Caught'
  BY CaughtNext DEF IdsDistinct
<1>3. Typed /\ IdsDistinct /\ Caught /\ [Next]_vars =>
        [\A r \in Readers : /\ cursor'[r] >= cursor[r]
                            /\ cursor'[r] <= LatestId(events)]_cursor
  <2> SUFFICES ASSUME Typed, IdsDistinct, Caught, [Next]_vars, NEW r \in Readers
               PROVE  cursor'[r] >= cursor[r] /\ cursor'[r] <= LatestId(events)
    OBVIOUS
  <2>1. cursor[r] \in Nat
    BY DEF Typed, TypeOK
  <2>2. cursor[r] <= LatestId(events)
    BY DEF Caught
  <2>3. QED
    BY <2>1, <2>2, CursorStep DEF IdsDistinct
<1>4. QED
  BY <1>1, <1>2, <1>3, IdsInit, IdsNext, TypedInit, TypedNext, PTL DEF Spec, CursorsOnlyAdvance

\* The log is finite: its ids are distinct and none is beyond the sequence.
LEMMA LogIsFinite ==
    ASSUME Typed, LogIds
    PROVE  IsFiniteSet(events)
<1> DEFINE number == [e \in events |-> e.id]
<1>1. seq \in Nat /\ \A e \in events : e.id \in Nat /\ e.id <= seq
  BY DEF Typed, TypeOK, Allocated, Event
<1>2. number \in Injection(events, 0..seq)
  BY <1>1 DEF LogIds, Injection, IsInjective
<1>3. IsFiniteSet(0..seq)
  BY <1>1, FS_Interval
<1> HIDE DEF number
<1>4. QED
  BY <1>2, <1>3, FS_Injection

\* A page leaves out no event between the old cursor and the new one.
LEMMA PageIsWhole ==
    ASSUME Typed, LogIds, NEW r \in Readers, PullPage(r),
           NEW e \in events, cursor[r] < e.id, e.id <= cursor'[r]
    PROVE  e.id \in seen'[r]
<1> DEFINE rest == After(cursor[r])
           page == Page(cursor[r])
           upto(i) == {d \in rest : d.id <= i}
<1>1. /\ cursor'[r] = LatestId(page) /\ cursor[r] \in Nat /\ e \in rest
      /\ seen'[r] = seen[r] \cup {d.id : d \in page}
  BY DEF PullPage, After, Typed, TypeOK
<1>2. rest \in SUBSET events /\ page \in SUBSET rest /\ seq \in Nat
      /\ events \in SUBSET Event /\ \A d \in events : d.id \in Nat /\ d.id <= seq
  BY DEF After, Page, Typed, TypeOK, Allocated, Event
<1>3. cursor'[r] > cursor[r]
  BY PageAdvances
<1>4. page # {}
  BY <1>1, <1>3 DEF LatestId
<1>5. PICK last \in page : last.id = LatestId(page)
  <2> HIDE DEF page, rest
  <2>1. page \in SUBSET Event /\ \A d \in page : d.id <= seq
    BY <1>2
  <2>2. QED
    BY <1>2, <1>4, <2>1, LatestIsOne
<1>6. Cardinality(upto(last.id)) <= PageSize
  BY <1>5 DEF Page
<1>7. upto(e.id) \in SUBSET upto(last.id)
  BY <1>1, <1>2, <1>5
<1>8. IsFiniteSet(upto(last.id))
  <2>1. upto(last.id) \in SUBSET events
    BY <1>2
  <2>2. QED
    BY <2>1, LogIsFinite, FS_Subset
<1>9. Cardinality(upto(e.id)) <= PageSize
  <2> HIDE DEF upto
  <2>1. /\ Cardinality(upto(e.id)) <= Cardinality(upto(last.id)) /\ IsFiniteSet(upto(e.id))
        /\ Cardinality(upto(e.id)) \in Nat /\ Cardinality(upto(last.id)) \in Nat
    BY <1>7, <1>8, FS_Subset, FS_CardinalityType
  <2>2. QED
    BY <1>6, <2>1
<1>10. e \in page
  BY <1>1, <1>9 DEF Page
<1>11. QED
  BY <1>1, <1>10

\* A pull passes over no event that is in the log, whatever the length of a page and
\* whatever restarts: an event a reader never gets was committed behind its cursor.
THEOREM PullsPassOverNothing ==
    Spec => [][\A r \in Readers : \A e \in events :
                 cursor[r] < e.id /\ e.id <= cursor'[r] => e.id \in seen'[r]]_vars
<1>1. Typed /\ IdsDistinct /\ Caught /\ [Next]_vars =>
        [\A r \in Readers : \A e \in events :
           cursor[r] < e.id /\ e.id <= cursor'[r] => e.id \in seen'[r]]_vars
  <2> SUFFICES ASSUME Typed, IdsDistinct, Caught, [Next]_vars, NEW r \in Readers, NEW e \in events,
                      cursor[r] < e.id, e.id <= cursor'[r]
               PROVE  e.id \in seen'[r]
    OBVIOUS
  <2>1. cursor \in [Readers -> Nat] /\ e.id \in Nat
    BY DEF Typed, TypeOK, Event
  <2>2. cursor'[r] # cursor[r]
    BY <2>1
  <2>3. PICK q \in Readers : PullPage(q)
    BY <2>2, CursorMoves
  <2>4. q = r
    BY <2>1, <2>2, <2>3 DEF PullPage
  <2>5. QED
    BY <2>3, <2>4, PageIsWhole DEF IdsDistinct
<1>2. Typed /\ IdsDistinct /\ Caught /\ [Next]_vars => Caught'
  BY CaughtNext DEF IdsDistinct
<1>3. QED
  BY <1>1, <1>2, CaughtInit, IdsInit, IdsNext, TypedInit, TypedNext, PTL DEF Spec

\* The events of an open transaction come after all that is in the log.
InOrder == \A c \in Conns : \A d \in txEvents[c] : d.id > 0 /\ \A e \in events : e.id < d.id

\* Without writers the log grows by commits only, and a transaction by the next id.
LEMMA LogMoves ==
    ASSUME Writers = {}, Typed, [Next]_vars
    PROVE  \/ /\ UNCHANGED events
              /\ \A c \in Conns : \A d \in txEvents'[c] : d \in txEvents[c] \/ d.id = seq + 1
           \/ \E c \in Conns : CommitTx(c)
<1> SUFFICES ASSUME ~\E c \in Conns : CommitTx(c)
             PROVE  /\ UNCHANGED events
                    /\ \A c \in Conns : \A d \in txEvents'[c] : d \in txEvents[c] \/ d.id = seq + 1
  OBVIOUS
<1>1. txEvents \in [Conns -> SUBSET Event]
  BY DEF Typed, TypeOK
<1>2. ASSUME NEW c \in Conns, Rollback(c)
      PROVE  UNCHANGED events /\ txEvents' = [txEvents EXCEPT ![c] = {}]
  BY <1>2 DEF Rollback, tables
<1>3. ASSUME NEW c \in Conns, AppendEvent(c)
      PROVE  UNCHANGED events /\ \E e : e.id = seq + 1 /\ txEvents' = [txEvents EXCEPT ![c] = @ \cup {e}]
  <2> DEFINE o == Head(todo[c])
             e == [id |-> seq + 1, key |-> o.key, kind |-> o.kind, op |-> o,
                   row |-> IF o.kind = "upsert" THEN View(c, o.key) ELSE NoRow]
  <2>1. e.id = seq + 1
    OBVIOUS
  <2>2. UNCHANGED events /\ txEvents' = [txEvents EXCEPT ![c] = @ \cup {e}]
    BY <1>3 DEF AppendEvent, tables
  <2> HIDE DEF e
  <2>3. QED
    BY <2>1, <2>2
<1>4. \/ UNCHANGED <<events, txEvents>>
      \/ Restart
      \/ \E c \in Conns : AppendEvent(c) \/ Rollback(c)
  <2>1. Enrichers = {} /\ Pricers = {}
    BY DEF Writers
  <2>2. ASSUME NEW c \in Conns,
               \/ \E batch \in Batches : Push(c, batch)
               \/ SkipDuplicate(c) \/ StartOp(c) \/ ReadExisting(c) \/ WriteRow(c)
               \/ RecordOp(c) \/ ReadLatest(c)
        PROVE  UNCHANGED <<events, txEvents>>
    BY <2>2 DEF Push, SkipDuplicate, StartOp, ReadExisting, WriteRow, RecordOp, ReadLatest, tables
  <2>3. ASSUME NEW r \in Readers, PullPage(r) \/ PullEmpty(r) \/ PullUnknown(r) \/ PullMax(r)
        PROVE  UNCHANGED <<events, txEvents>>
    BY <2>3 DEF PullPage, PullEmpty, PullUnknown, PullMax, tables, handler, vars
  <2>4. CASE UNCHANGED vars
    BY <2>4 DEF tables, handler, vars
  <2>5. ASSUME NEW c \in Conns,
               Handle(c) \/ FailTx(c) \/ FailLatest(c) \/ \E batch \in Batches : Push(c, batch)
        PROVE  UNCHANGED <<events, txEvents>> \/ AppendEvent(c) \/ Rollback(c)
    BY <2>2, <2>5 DEF Handle, FailTx, FailLatest, RecordConflict, DeadlockVictim, Release
  <2>6. QED
    BY <2>1, <2>3, <2>4, <2>5 DEF Next, Writers
<1>5. CASE Restart
  BY <1>5 DEF Restart, tables
<1>6. QED
  BY <1>1, <1>2, <1>3, <1>4, <1>5

\* One connection and no writer commit their ids in the order they take them.
LEMMA InOrderNext ==
    ASSUME Writers = {}, \A c, d \in Conns : c = d
    PROVE  Typed /\ InOrder /\ [Next]_vars => InOrder'
<1> SUFFICES ASSUME Typed, InOrder, [Next]_vars PROVE InOrder'
  OBVIOUS
<1>1. CASE \E c \in Conns : CommitTx(c)
  <2>1. \A c \in Conns : txEvents'[c] = {}
    BY <1>1 DEF CommitTx, Typed, TypeOK
  <2>2. QED
    BY <2>1 DEF InOrder
<1>2. ASSUME UNCHANGED events,
             \A c \in Conns : \A d \in txEvents'[c] : d \in txEvents[c] \/ d.id = seq + 1
      PROVE  InOrder'
  <2>1. seq \in Nat /\ \A e \in events : e.id \in Nat /\ e.id <= seq
    BY DEF Typed, TypeOK, Allocated, Event
  <2>2. QED
    BY <1>2, <2>1 DEF InOrder
<1>3. QED
  BY <1>1, <1>2, LogMoves

\* With one connection and no writers a cursor covers the log: what makes it miss events is
\* that ids are committed out of order, and neither the pages of a pull, nor the query for
\* the largest id, nor a restart.
THEOREM CursorsCover ==
    ASSUME Writers = {}, \A c, d \in Conns : c = d
    PROVE  Spec => []CursorCoversLog
<1>1. Init => InOrder /\ CursorCoversLog
  BY DEF Init, InOrder, CursorCoversLog
<1>2. Typed /\ IdsDistinct /\ Caught /\ InOrder /\ CursorCoversLog /\ [Next]_vars => CursorCoversLog'
  <2> SUFFICES ASSUME Typed, IdsDistinct, Caught, InOrder, CursorCoversLog, [Next]_vars,
                      NEW r \in Readers, NEW e \in events', e.id <= cursor'[r]
               PROVE  e.id \in seen'[r]
    BY DEF CursorCoversLog
  <2>1. cursor \in [Readers -> Nat] /\ seen \in [Readers -> SUBSET Nat]
    BY DEF Typed, TypeOK
  <2>2. ASSUME NEW q \in Readers, PullPage(q) PROVE e.id \in seen'[r]
    <3>1. /\ UNCHANGED events
          /\ r # q => cursor'[r] = cursor[r]
          /\ seen[r] \subseteq seen'[r]
      BY <2>1, <2>2 DEF PullPage, tables
    <3>2. CASE e.id <= cursor[r]
      BY <3>1, <3>2 DEF CursorCoversLog
    <3>3. CASE ~(e.id <= cursor[r])
      <4>1. q = r /\ cursor[r] < e.id
        BY <2>1, <3>1, <3>3 DEF Typed, TypeOK, Event
      <4>2. QED
        BY <2>2, <3>1, <4>1, PageIsWhole DEF IdsDistinct
    <3>4. QED
      BY <3>2, <3>3
  <2>3. CASE UNCHANGED <<cursor, seen>>
    <3>1. CASE e \in events
      BY <2>3, <3>1 DEF CursorCoversLog
    <3>2. CASE e \notin events
      <4>1. PICK c \in Conns : e \in txEvents[c]
        BY <3>2, LogMoves DEF CommitTx
      <4>2. e.id \in Nat /\ e.id > 0 /\ \A d \in events : d.id < e.id
        BY <4>1 DEF InOrder, Typed, TypeOK, Event
      <4>3. cursor[r] <= LatestId(events) /\ cursor[r] \in Nat
        BY <2>1 DEF Caught
      <4>4. LatestId(events) < e.id
        <5>1. CASE events = {}
          BY <4>2, <5>1 DEF LatestId
        <5>2. CASE events # {}
          <6>1. events \in SUBSET Event /\ seq \in Nat /\ \A d \in events : d.id <= seq
            BY DEF Typed, TypeOK, Allocated
          <6>2. PICK d \in events : d.id = LatestId(events)
            BY <5>2, <6>1, LatestIsOne
          <6>3. QED
            BY <4>2, <6>2
        <5>3. QED
          BY <5>1, <5>2
      <4>5. LatestId(events) \in Nat
        <5>1. events \in SUBSET Event /\ seq \in Nat /\ \A d \in events : d.id <= seq
          BY DEF Typed, TypeOK, Allocated
        <5>2. QED
          BY <5>1, LatestIdIsLargest
      <4>6. QED
        BY <2>3, <4>2, <4>3, <4>4, <4>5
    <3>3. QED
      BY <3>1, <3>2
  <2>4. QED
    BY <2>2, <2>3, CursorMoves
<1>3. Typed /\ IdsDistinct /\ Caught /\ [Next]_vars => Caught'
  BY CaughtNext DEF IdsDistinct
<1>4. Typed /\ InOrder /\ [Next]_vars => InOrder'
  BY InOrderNext
<1>5. QED
  BY <1>1, <1>2, <1>3, <1>4, CaughtInit, IdsInit, IdsNext, TypedInit, TypedNext, PTL DEF Spec

-----------------------------------------------------------------------------
(* Covers, on a server with one connection.                                *)

\* Two states of a row that differ in what the server owns at most.
Alike(a, b) ==
    IF a = NoRow THEN b = NoRow ELSE b # NoRow /\ a.cover = b.cover /\ a.stamp = b.stamp

\* The payload a handler reconciles against is that of the row, for the cover.
ReadIsCurrent ==
    \A c \in Conns : pc[c] = "write" /\ Head(todo[c]).kind = "upsert" =>
        Alike(existing[c], View(c, Head(todo[c]).key))

\* An open writer's row is its own, and keeps the cover.
WriterKeepsCover ==
    \A w \in Enrichers : wpc[w] = "open" =>
        /\ Alike(wrow[w], rows[wkey[w]])
        /\ \A v \in Enrichers \ {w} : wpc[v] = "open" => wkey[v] # wkey[w]
        /\ \A c \in Conns : txRows[c][wkey[w]] = Untouched

CoverInv == ReadIsCurrent /\ WriterKeepsCover

\* A change of the server-owned fields keeps the cover.
LEMMA PatchIsAlike ==
    ASSUME NEW a \in Row, NEW i \in Infos
    PROVE  [a EXCEPT !.info = i] \in Row /\ Alike([a EXCEPT !.info = i], a)
BY DEF Alike, Row

\* No handler takes a step, and rows change at most in what the server owns.
LEMMA CoverAside ==
    ASSUME Typed, ReadIsCurrent, UNCHANGED handler,
           \A k \in Keys : Alike(rows'[k], rows[k])
    PROVE  ReadIsCurrent'
<1> SUFFICES ASSUME NEW c \in Conns, pc[c] = "write", Head(todo[c]).kind = "upsert"
             PROVE  Alike(existing[c], View(c, Head(todo[c]).key)')
  BY DEF ReadIsCurrent, handler
<1> DEFINE k == Head(todo[c]).key
<1>1. k \in Keys
  BY HeadTail DEF Typed, TypeOK, Shape, Op
<1>2. Alike(existing[c], View(c, k))
  BY DEF ReadIsCurrent
<1>3. Alike(View(c, k)', View(c, k))
  <2>1. CASE txRows[c][k] = Untouched
    BY <1>1, <2>1 DEF View, handler
  <2>2. CASE txRows[c][k] # Untouched
    BY <2>2 DEF View, handler, Alike
  <2>3. QED
    BY <2>1, <2>2
<1>4. QED
  BY <1>2, <1>3 DEF Alike

\* Writers' steps.
LEMMA CoverWriter ==
    ASSUME Typed, CoverInv, NEW w \in Writers,
           \/ w \in Enrichers /\ (EnrichCommit(w) \/ \E k \in Keys, i \in Infos : EnrichBegin(w, k, i))
           \/ w \in Pricers /\ (PriceAppend(w) \/ \E k \in Keys, i \in Infos : PriceUpdate(w, k, i))
           \/ WriterFails(w)
    PROVE  CoverInv'
<1>1. UNCHANGED handler
  BY DEF EnrichCommit, EnrichBegin, PriceAppend, PriceUpdate, WriterFails
<1>2. \A k \in Keys : Alike(rows[k], rows[k])
  BY DEF Alike
<1>3. CASE w \in Enrichers /\ EnrichCommit(w)
  <2>1. /\ wpc[w] = "open" /\ wkey[w] \in Keys
        /\ rows' = [rows EXCEPT ![wkey[w]] = wrow[w]] /\ wpc'[w] = "idle"
        /\ \A v \in Enrichers \ {w} : wpc'[v] = wpc[v] /\ wkey'[v] = wkey[v] /\ wrow'[v] = wrow[v]
    BY <1>3 DEF EnrichCommit, WriterDone, Typed, TypeOK, Assigned, Writers
  <2>2. Alike(wrow[w], rows[wkey[w]])
    BY <1>3, <2>1 DEF CoverInv, WriterKeepsCover
  <2>3. rows'[wkey[w]] = wrow[w] /\ \A k \in Keys \ {wkey[w]} : rows'[k] = rows[k]
    BY <2>1 DEF Typed, TypeOK
  <2>4. \A k \in Keys : Alike(rows'[k], rows[k])
    BY <1>2, <2>2, <2>3
  <2>5. WriterKeepsCover'
    <3> SUFFICES ASSUME NEW v \in Enrichers, wpc'[v] = "open"
                 PROVE  /\ Alike(wrow'[v], rows'[wkey'[v]])
                        /\ \A u \in Enrichers \ {v} : wpc'[u] = "open" => wkey'[u] # wkey'[v]
                        /\ \A c \in Conns : txRows'[c][wkey'[v]] = Untouched
      BY DEF WriterKeepsCover, Alike
    <3>1. v # w /\ wpc[v] = "open" /\ wkey'[v] = wkey[v] /\ wrow'[v] = wrow[v]
      BY <2>1
    <3>2. /\ Alike(wrow[v], rows[wkey[v]]) /\ wkey[v] # wkey[w]
          /\ \A u \in Enrichers \ {v} : wpc[u] = "open" => wkey[u] # wkey[v]
          /\ \A c \in Conns : txRows[c][wkey[v]] = Untouched
      BY <1>3, <2>1, <3>1 DEF CoverInv, WriterKeepsCover
    <3>3. wkey[v] \in Keys
      BY <3>1 DEF Typed, Assigned, Writers
    <3>4. QED
      BY <1>1, <2>1, <2>3, <3>1, <3>2, <3>3 DEF handler
  <2>6. QED
    BY <1>1, <2>4, <2>5, CoverAside DEF CoverInv
<1>4. ASSUME w \in Enrichers, NEW k \in Keys, NEW i \in Infos, EnrichBegin(w, k, i)
      PROVE  CoverInv'
  <2>1. /\ wpc'[w] = "open" /\ wkey'[w] = k /\ wrow'[w] = [rows[k] EXCEPT !.info = i]
        /\ \A v \in Enrichers \ {w} : wpc'[v] = wpc[v] /\ wkey'[v] = wkey[v] /\ wrow'[v] = wrow[v]
        /\ rows[k] \in Row /\ UNCHANGED rows
    BY <1>4 DEF EnrichBegin, Patched, Typed, TypeOK, tables, Writers
  <2>2. /\ \A c \in Conns : txRows[c][k] = Untouched
        /\ \A v \in Enrichers : wpc[v] = "open" => wkey[v] # k
    BY <1>4 DEF EnrichBegin, Patched, RowBusy, LockedByWriter
  <2>3. Alike(wrow'[w], rows'[k])
    BY <2>1, PatchIsAlike
  <2>4. WriterKeepsCover'
    <3> SUFFICES ASSUME NEW v \in Enrichers, wpc'[v] = "open"
                 PROVE  /\ Alike(wrow'[v], rows'[wkey'[v]])
                        /\ \A u \in Enrichers \ {v} : wpc'[u] = "open" => wkey'[u] # wkey'[v]
                        /\ \A c \in Conns : txRows'[c][wkey'[v]] = Untouched
      BY DEF WriterKeepsCover, Alike
    <3>1. CASE v = w
      BY <1>1, <2>1, <2>2, <2>3, <3>1 DEF handler
    <3>2. CASE v # w
      BY <1>1, <2>1, <2>2, <3>2 DEF handler, CoverInv, WriterKeepsCover
    <3>3. QED
      BY <3>1, <3>2
  <2>5. QED
    BY <1>1, <1>2, <2>1, <2>4, CoverAside DEF CoverInv
<1>5. ASSUME NEW k \in Keys, NEW i \in Infos, PriceUpdate(w, k, i)
      PROVE  CoverInv'
  <2>1. /\ wpc'[w] = "written"
        /\ \A v \in Enrichers \ {w} : wpc'[v] = wpc[v] /\ wkey'[v] = wkey[v] /\ wrow'[v] = wrow[v]
        /\ rows[k] \in Row
        /\ rows'[k] = [rows[k] EXCEPT !.info = i] /\ \A j \in Keys \ {k} : rows'[j] = rows[j]
    BY <1>5 DEF PriceUpdate, Patched, Typed, TypeOK, Writers
  <2>2. \A v \in Enrichers : wpc[v] = "open" => wkey[v] # k
    BY <1>5 DEF PriceUpdate, Patched, RowBusy, LockedByWriter
  <2>3. \A j \in Keys : Alike(rows'[j], rows[j])
    BY <1>2, <2>1, PatchIsAlike
  <2>4. WriterKeepsCover'
    <3> SUFFICES ASSUME NEW v \in Enrichers, wpc'[v] = "open"
                 PROVE  /\ Alike(wrow'[v], rows'[wkey'[v]])
                        /\ \A u \in Enrichers \ {v} : wpc'[u] = "open" => wkey'[u] # wkey'[v]
                        /\ \A c \in Conns : txRows'[c][wkey'[v]] = Untouched
      BY DEF WriterKeepsCover, Alike
    <3>1. v # w /\ wpc[v] = "open" /\ wkey'[v] = wkey[v] /\ wrow'[v] = wrow[v]
      BY <2>1
    <3>2. wkey[v] \in Keys /\ wkey[v] # k
      BY <2>2, <3>1 DEF Typed, Assigned, Writers
    <3>3. rows'[wkey[v]] = rows[wkey[v]]
      BY <2>1, <3>2
    <3>4. QED
      BY <1>1, <2>1, <3>1, <3>3 DEF handler, CoverInv, WriterKeepsCover
  <2>5. QED
    BY <1>1, <2>3, <2>4, CoverAside DEF CoverInv
<1>6. CASE WriterFails(w) \/ (w \in Pricers /\ PriceAppend(w))
  <2>1. /\ wpc'[w] = "idle" /\ UNCHANGED rows
        /\ \A v \in Enrichers \ {w} : wpc'[v] = wpc[v] /\ wkey'[v] = wkey[v] /\ wrow'[v] = wrow[v]
    BY <1>6 DEF WriterFails, PriceAppend, WriterDone, Typed, TypeOK, tables, Writers
  <2>2. WriterKeepsCover'
    BY <1>1, <2>1 DEF handler, CoverInv, WriterKeepsCover, Alike
  <2>3. QED
    BY <1>1, <1>2, <2>1, <2>2, CoverAside DEF CoverInv
<1>7. QED
  BY <1>3, <1>4, <1>5, <1>6

\* The handler's own steps; nobody else writes rows but for the server-owned fields.
LEMMA CoverHandler ==
    ASSUME \A c, d \in Conns : c = d,
           Typed, CoverInv, NEW c \in Conns,
           \/ \E batch \in Batches : Push(c, batch)
           \/ Handle(c) \/ FailTx(c) \/ FailLatest(c)
    PROVE  CoverInv'
<1>1. UNCHANGED writers
  BY DEF Push, Handle, SkipDuplicate, StartOp, ReadExisting, WriteRow, AppendEvent, RecordOp,
         RecordConflict, DeadlockVictim, CommitTx, ReadLatest, Release, FailTx, FailLatest, Rollback
<1>2. ReadIsCurrent'
  <2> SUFFICES ASSUME pc'[c] = "write", Head(todo'[c]).kind = "upsert"
               PROVE  Alike(existing'[c], View(c, Head(todo[c]).key)') /\ UNCHANGED todo
    BY DEF ReadIsCurrent, View
  <2>1. ReadExisting(c)
    BY DEF Push, Handle, SkipDuplicate, StartOp, ReadExisting, WriteRow, AppendEvent, RecordOp,
           RecordConflict, DeadlockVictim, CommitTx, ReadLatest, Release, FailTx, FailLatest,
           Rollback, Typed, TypeOK
  <2>2. /\ existing'[c] = View(c, Head(todo[c]).key)
        /\ UNCHANGED <<todo, rows, txRows>>
    BY <2>1 DEF ReadExisting, Typed, TypeOK, tables
  <2>3. QED
    BY <2>2 DEF View, Alike
<1>3. \A k \in Keys : (\E w \in Enrichers : wpc[w] = "open" /\ wkey[w] = k)
                         => rows'[k] = rows[k] /\ txRows'[c][k] = Untouched
  <2> SUFFICES ASSUME NEW w \in Enrichers, wpc[w] = "open", NEW k \in Keys, k = wkey[w]
               PROVE  rows'[k] = rows[k] /\ txRows'[c][k] = Untouched
    OBVIOUS
  <2>1. txRows[c][k] = Untouched
    BY DEF CoverInv, WriterKeepsCover
  <2>2. CASE CommitTx(c)
    BY <2>1, <2>2 DEF CommitTx, View, Typed, TypeOK
  <2>3. CASE WriteRow(c)
    <3>1. Head(todo[c]) \in Ops /\ Head(todo[c]).key \in Keys /\ Head(todo[c]).kind \in {"upsert", "delete"}
      BY <2>3, HeadTail DEF WriteRow, Op, Typed, TypeOK, Shape
    <3>2. CASE Head(todo[c]).key # k
      BY <2>1, <2>3, <3>1, <3>2 DEF WriteRow, tables, Typed, TypeOK
    <3>3. CASE Head(todo[c]).key = k
      <4>1. SeesNothing(c, Head(todo[c]))
        BY <2>3, <3>3 DEF WriteRow, LockedByWriter
      <4>2. Head(todo[c]).kind = "delete"
        BY <4>1 DEF SeesNothing
      <4>3. txRows' = [txRows EXCEPT ![c][k] = txRows[c][k]]
        BY <2>3, <3>3, <4>1, <4>2 DEF WriteRow
      <4>4. QED
        BY <2>1, <2>3, <4>3 DEF WriteRow, tables, Typed, TypeOK
    <3>4. QED
      BY <3>2, <3>3
  <2>4. CASE Rollback(c)
    BY <2>4 DEF Rollback, tables, Typed, TypeOK
  <2>5. ASSUME UNCHANGED <<rows, txRows>> PROVE rows'[k] = rows[k] /\ txRows'[c][k] = Untouched
    BY <2>1, <2>5
  <2>6. QED
    BY <2>2, <2>3, <2>4, <2>5
    DEF Push, Handle, SkipDuplicate, StartOp, ReadExisting, AppendEvent, RecordOp,
        RecordConflict, DeadlockVictim, ReadLatest, Release, FailTx, FailLatest, tables
<1>4. WriterKeepsCover'
  <2> SUFFICES ASSUME NEW w \in Enrichers, wpc[w] = "open"
               PROVE  /\ Alike(wrow[w], rows'[wkey[w]])
                      /\ \A v \in Enrichers \ {w} : wpc[v] = "open" => wkey[v] # wkey[w]
                      /\ \A d \in Conns : txRows'[d][wkey[w]] = Untouched
    BY <1>1 DEF WriterKeepsCover, writers, Alike
  <2>1. wkey[w] \in Keys
    BY DEF Typed, Assigned, Writers
  <2>2. rows'[wkey[w]] = rows[wkey[w]] /\ txRows'[c][wkey[w]] = Untouched
    BY <1>3, <2>1
  <2>3. QED
    BY <2>2 DEF CoverInv, WriterKeepsCover
<1>5. QED
  BY <1>2, <1>4 DEF CoverInv

\* With one connection, CoverInv is inductive.
LEMMA CoverNext ==
    ASSUME \A c, d \in Conns : c = d
    PROVE  Typed /\ CoverInv /\ [Next]_vars => CoverInv'
<1> SUFFICES ASSUME Typed, CoverInv, [Next]_vars PROVE CoverInv'
  OBVIOUS
<1>1. ASSUME UNCHANGED <<rows, handler, writers>> PROVE CoverInv'
  BY <1>1 DEF CoverInv, ReadIsCurrent, WriterKeepsCover, View, Alike, handler, writers
<1>2. ASSUME NEW r \in Readers,
             PullPage(r) \/ PullEmpty(r) \/ PullUnknown(r) \/ PullMax(r)
      PROVE  CoverInv'
  BY <1>1, <1>2 DEF PullPage, PullEmpty, PullUnknown, PullMax, vars, tables
<1>3. CASE Restart
  BY <1>3 DEF Restart, CoverInv, ReadIsCurrent, WriterKeepsCover, Alike, tables, writers,
              Typed, Assigned, Writers
<1>4. CASE UNCHANGED vars
  BY <1>1, <1>4 DEF vars, tables
<1>5. QED
  BY <1>2, <1>3, <1>4, CoverHandler, CoverWriter DEF Next, Writers

\* Only the upsert or the delete takes a handler from "write" to "event".
LEMMA OnlyWriteRow ==
    ASSUME Typed, [Next]_vars, NEW c \in Conns, pc[c] = "write", pc'[c] = "event"
    PROVE  WriteRow(c)
<1>1. \A d \in Conns : pc' # [pc EXCEPT ![d] = "idle"]
  BY DEF Typed, TypeOK
<1>2. ASSUME NEW d \in Conns, Rollback(d) PROVE FALSE
  BY <1>1, <1>2 DEF Rollback
<1>3. ASSUME NEW d \in Conns,
             \/ \E batch \in Batches : Push(d, batch)
             \/ SkipDuplicate(d) \/ StartOp(d) \/ ReadExisting(d) \/ AppendEvent(d)
             \/ RecordOp(d) \/ CommitTx(d) \/ ReadLatest(d)
      PROVE  FALSE
  <2>1. \/ UNCHANGED pc
        \/ pc' = [pc EXCEPT ![d] = pc'[d]] /\ pc'[d] # "event"
    BY <1>3 DEF Push, SkipDuplicate, StartOp, ReadExisting, AppendEvent, RecordOp, CommitTx,
                ReadLatest, Typed, TypeOK
  <2>2. QED
    BY <2>1 DEF Typed, TypeOK
<1>4. ASSUME NEW d \in Conns, WriteRow(d) PROVE WriteRow(c)
  <2>1. d = c
    BY <1>4 DEF WriteRow, Typed, TypeOK
  <2>2. QED
    BY <1>4, <2>1
<1>5. CASE Restart
  BY <1>5 DEF Restart
<1>6. ASSUME UNCHANGED pc PROVE FALSE
  BY <1>6
<1>7. ASSUME NEW w \in Writers,
             \/ EnrichCommit(w) \/ PriceAppend(w) \/ WriterFails(w)
             \/ \E k \in Keys, i \in Infos : EnrichBegin(w, k, i) \/ PriceUpdate(w, k, i)
      PROVE  FALSE
  BY <1>6, <1>7 DEF EnrichCommit, PriceAppend, WriterFails, EnrichBegin, PriceUpdate, handler
<1>8. ASSUME NEW r \in Readers, PullPage(r) \/ PullEmpty(r) \/ PullUnknown(r) \/ PullMax(r)
      PROVE  FALSE
  BY <1>6, <1>8 DEF PullPage, PullEmpty, PullUnknown, PullMax, handler, vars
<1>9. CASE UNCHANGED vars
  BY <1>6, <1>9 DEF handler, vars
<1>10. ASSUME NEW d \in Conns,
              Handle(d) \/ FailTx(d) \/ FailLatest(d) \/ \E batch \in Batches : Push(d, batch)
       PROVE  WriteRow(c)
  BY <1>2, <1>3, <1>4, <1>10
  DEF Handle, FailTx, FailLatest, RecordConflict, DeadlockVictim, Release
<1>11. QED
  BY <1>5, <1>7, <1>8, <1>9, <1>10 DEF Next, Writers

\* On a server with one connection the cover of a stored row gives way only to a newer
\* update, whatever writers do meanwhile.
THEOREM CoversSurvive ==
    ASSUME \A c, d \in Conns : c = d
    PROVE  Spec => NewerCoverSurvives
<1>1. Init => CoverInv
  BY DEF Init, CoverInv, ReadIsCurrent, WriterKeepsCover, Writers
<1>2. Typed /\ CoverInv /\ [Next]_vars => CoverInv'
  BY CoverNext
<1>3. Typed /\ CoverInv /\ [Next]_vars =>
        [\A c \in Conns, k \in Keys :
          LET old == View(c, k)
              new == txRows'[c][k]
          IN (/\ pc[c] = "write" /\ pc'[c] = "event"
              /\ old \in Row /\ new \in Row
              /\ old.cover # new.cover)
             => new.stamp > old.stamp]_vars
  <2> SUFFICES ASSUME Typed, CoverInv, [Next]_vars, NEW c \in Conns, NEW k \in Keys
               PROVE  (/\ pc[c] = "write" /\ pc'[c] = "event"
                       /\ View(c, k) \in Row /\ txRows'[c][k] \in Row
                       /\ View(c, k).cover # txRows'[c][k].cover)
                      => txRows'[c][k].stamp > View(c, k).stamp
    BY Zenon
  <2> SUFFICES ASSUME pc[c] = "write", pc'[c] = "event",
                      View(c, k) \in Row, txRows'[c][k] \in Row,
                      View(c, k).cover # txRows'[c][k].cover
               PROVE  txRows'[c][k].stamp > View(c, k).stamp
    OBVIOUS
  <2> DEFINE o == Head(todo[c])
             new == IF o.kind = "upsert"
                      THEN Upserted(o, ReconciledCover(o, existing[c]), View(c, o.key))
                      ELSE IF SeesNothing(c, o) THEN txRows[c][o.key] ELSE NoRow
  <2>1. WriteRow(c)
    BY OnlyWriteRow
  <2>2. o \in Ops /\ o.key \in Keys /\ o.kind \in {"upsert", "delete"} /\ o.stamp \in Nat
    BY <2>1, HeadTail DEF WriteRow, Op, Typed, TypeOK, Shape
  <2>3. txRows' = [txRows EXCEPT ![c][o.key] = new]
    BY <2>1 DEF WriteRow
  <2>4. SeesNothing(c, o) => o.kind = "delete" /\ View(c, o.key) = NoRow
    BY DEF SeesNothing
  <2> HIDE DEF new
  <2>5. txRows'[c][o.key] = new /\ \A j \in Keys \ {o.key} : txRows'[c][j] = txRows[c][j]
    BY <2>2, <2>3 DEF Typed, TypeOK
  <2>6. k = o.key
    BY <2>5 DEF View
  <2>7. o.kind = "upsert" /\ new = Upserted(o, ReconciledCover(o, existing[c]), View(c, k))
    BY <2>2, <2>4, <2>5, <2>6 DEF new
  <2>8. new.stamp = o.stamp /\ new.cover = ReconciledCover(o, existing[c])
    BY <2>7 DEF Upserted
  <2>9. /\ existing[c] # NoRow
        /\ existing[c].cover = View(c, k).cover /\ existing[c].stamp = View(c, k).stamp
    BY <2>6, <2>7 DEF CoverInv, ReadIsCurrent, Alike
  <2>10. ~(o.stamp <= existing[c].stamp)
    BY <2>5, <2>6, <2>8, <2>9 DEF ReconciledCover
  <2>11. View(c, k).stamp \in Nat
    BY DEF Row
  <2>12. QED
    BY <2>2, <2>5, <2>6, <2>8, <2>9, <2>10, <2>11
<1>4. QED
  BY <1>1, <1>2, <1>3, TypedInit, TypedNext, PTL DEF Spec, NewerCoverSurvives
==============================================================================
