---------------------------- MODULE GameSync_proofs ----------------------------
(***************************************************************************)
(* What GameSync's runs check on a small instance, proved for every set of *)
(* keys and every value of the other constants.                            *)
(***************************************************************************)
EXTENDS GameSync, FiniteSetTheorems, SequenceTheorems, WellFoundedInduction, TLAPS

-----------------------------------------------------------------------------
(* The inductive invariants.                                               *)

Sending  == {"send", "pushing", "answered"}
Pulling  == {"pull", "apply", "store", "echo"}
Replaying == {"collect", "check", "reapply"}

\* Every operation the client or a request of its holds.
Known == outbox \cup unsent \cup request \cup UNION orphans

\* A page is a slice of the log, the one after position a.
Slice(events, page, a) ==
    /\ a \in Nat /\ a + Len(page) <= Len(events)
    /\ \A j \in DOMAIN page : page[j] = events[a + j]

\* Types, and what each step of a sync has in its hands: in device storage,
StorageOK ==
    /\ local \in [Keys -> Contents]
    /\ cursor \in 0..Len(log) /\ covered \in 0..Len(log)
    /\ replayDue \in BOOLEAN /\ remediated \in BOOLEAN
    /\ torn \in {"never", "within", "torn"}

\* in the repository,
DraftOK ==
    /\ made \in 0..MaxEdits
    /\ draft = {} \/ (made < MaxEdits /\ \E d \in [key : Keys, row : Contents] : draft = {d})

\* among the operations,
OpsOK ==
    /\ Known \subseteq Op
    /\ IsFiniteSet(Known)
    /\ \A o \in Known : o.id <= made

\* in their acknowledgement,
AcksOK ==
    /\ settled \subseteq Edits /\ \A n \in settled : n <= made
    /\ reply \cup acked \subseteq settled
    /\ pc # "answered" => reply = {}
    /\ pc \notin {"pushing", "answered"} => request = {}
    /\ pc \notin Sending => unsent = {}
    /\ pc \notin Sending \cup {"ack"} => acked = {}

\* in the pages of the log,
PagesOK ==
    /\ log \in Seq(Event) /\ pages \in Seq(Seq(Event))
    /\ from \in 0..Len(log)
    /\ pc \notin Pulling \cup Replaying => pages = <<>>
    /\ pc \in {"apply", "store"} => pages # <<>> /\ Slice(log, LastPage, from)
    /\ pc = "reapply" => pages # <<>>

\* and in the service.
ServiceOK ==
    /\ init \in {"starting", "done"} /\ reset \in {"none", "waiting"}
    /\ pc \in {"idle", "begin", "replay", "ack"} \cup Sending \cup Pulling \cup Replaying
    /\ foreign \in 0..MaxForeign /\ faults \in 0..MaxFaults /\ resets \in 0..MaxResets

Shape == StorageOK /\ DraftOK /\ OpsOK /\ AcksOK /\ PagesOK /\ ServiceOK

\* Whatever precedes an operation of the set is in the set or settled.
Closed(ops) == \A o \in ops : \A n \in 1..o.id : n \in settled \/ n \in Ids(ops)

\* Edits are settled in the order they were made.
OrderInv ==
    /\ NoEditForgotten
    /\ EditsInOrder
    /\ \A n \in settled : \A m \in 1..n : m \in settled
    /\ \A i \in DOMAIN log : log[i].op > 0 => log[i].op \in settled
    /\ Closed(unsent \cup request)
    /\ Closed(request)
    /\ pc # "pushing" => Ids(request) \subseteq settled
    /\ \A ops \in orphans : Closed(ops)

\* What a running pull will store as the cursor has been applied.
CursorInv ==
    /\ remediated
    /\ CursorIsCovered
    /\ pc \in {"pull", "apply", "echo"} => from = cursor
    /\ pc = "store" => from = cursor /\ from + Len(LastPage) <= covered

\* The server has not seen the operation and no request carries it.
Unseen(o) == o.id \notin settled /\ \A ops \in orphans : o.id \notin Ids(ops)

\* Once its outbox is pushed, a sync finds in it only refused operations and
\* ones made since the sync began.
OutboxInv ==
    /\ \A o, p \in Known : o.id = p.id => o = p
    /\ pc = "answered" => \A o \in request : o.key \notin Rejected => o.id \in reply
    /\ pc # "idle" =>
          \A o \in outbox : o.key \notin Rejected =>
              o.id \in acked \cup Ids(unsent \cup request) \/ Unseen(o)

\* The collected pages follow each other; all but the last are full.
StartOf(ps, end, i) == end - Len(ps[Len(ps)]) - (Len(ps) - i) * PageSize

ReplayInv ==
    /\ torn = "within" => pc = "reapply"
    /\ pc \in Replaying =>
         \A i \in DOMAIN pages :
             /\ Slice(log, pages[i], StartOf(pages, from, i))
             /\ (pc = "collect" \/ i < Len(pages)) => Len(pages[i]) = PageSize
    /\ pc = "collect" => /\ from = Larger(0, cursor - Window) + Len(pages) * PageSize
                         /\ Len(pages) < ReplayPages
    /\ pc \in {"check", "reapply"} => cursor <= from

\* A game shows what the server holds, or a change of it is still to come:
\* an operation the server has not decided, or an event after position n.
Undecided(k) == \E o \in outbox : o.key = k /\ o.id \notin settled
Quiet(k, n) == \A i \in DOMAIN log : log[i].key = k => i <= n
Current(k, n) == Undecided(k) \/ ~Quiet(k, n) \/ local[k] = ServerRow(k)
UpToDate(n) == \A k \in Keys \ Rejected : Current(k, n)

\* The position after which the library may lag behind.
Mark ==
    IF pc = "store" THEN from + Len(LastPage)
    ELSE IF torn = "within" THEN Smaller(cursor, StartOf(pages, from, 1))
    ELSE cursor

LibraryInv == torn # "torn" => UpToDate(Mark)

-----------------------------------------------------------------------------
(* Pages of the log, and how the log grows.                                *)

LEMMA PageIsSlice ==
    ASSUME SyncAssumption, log \in Seq(Event), NEW a \in 0..Len(log)
    PROVE  /\ PageAfter(a) \in Seq(Event)
           /\ Slice(log, PageAfter(a), a)
           /\ Len(PageAfter(a)) <= PageSize
           /\ Len(PageAfter(a)) < PageSize => a + Len(PageAfter(a)) = Len(log)
           /\ PageAfter(a) # <<>> => Len(PageAfter(a)) > 0
<1> DEFINE b == Smaller(a + PageSize, Len(log))
<1>1. /\ Len(log) \in Nat /\ PageSize \in Nat \ {0} /\ a \in Nat /\ b \in Nat
      /\ a <= b /\ b <= Len(log) /\ b <= a + PageSize
      /\ b < a + PageSize => b = Len(log)
  BY DEF SyncAssumption, Smaller
<1>2. \A i \in (a + 1)..b : log[i] \in Event
  BY <1>1, ElementOfSeq
<1>3. /\ SubSeq(log, a + 1, b) \in Seq(Event)
      /\ Len(SubSeq(log, a + 1, b)) = IF a + 1 <= b THEN b - (a + 1) + 1 ELSE 0
      /\ \A i \in 1..(b - (a + 1) + 1) : SubSeq(log, a + 1, b)[i] = log[(a + 1) + i - 1]
  BY <1>1, <1>2, SubSeqProperties
<1>4. PageAfter(a) = SubSeq(log, a + 1, b)
  BY DEF PageAfter
<1>5. Len(PageAfter(a)) = b - a
  BY <1>1, <1>3, <1>4
<1>6. \A j \in 1..(b - a) : PageAfter(a)[j] = log[a + j]
  BY <1>1, <1>3, <1>4
<1>7. DOMAIN PageAfter(a) = 1..(b - a)
  BY <1>3, <1>4, <1>5, LenProperties
<1>8. PageAfter(a) \in Seq(Event)
  BY <1>3, <1>4
<1>9. Slice(log, PageAfter(a), a)
  <2>1. a \in Nat /\ b - a \in Nat /\ a + (b - a) <= Len(log)
    BY <1>1
  <2> QED
    BY <1>5, <1>6, <1>7, <2>1 DEF Slice
<1>a. b - a <= PageSize /\ (b - a < PageSize => a + (b - a) = Len(log)) /\ b - a \in Nat
  BY <1>1
<1>b. PageAfter(a) # <<>> => Len(PageAfter(a)) # 0
  BY <1>8, EmptySeq
<1>c. PageAfter(a) # <<>> => Len(PageAfter(a)) > 0
  BY <1>5, <1>a, <1>b
<1> QED
  BY <1>5, <1>8, <1>9, <1>a, <1>c

\* The log keeps what it holds.
Grows == Len(log) <= Len(log') /\ \A i \in DOMAIN log : log'[i] = log[i]

LEMMA SliceStays ==
    ASSUME NEW l \in Seq(Event), NEW m \in Seq(Event),
           Len(l) <= Len(m), \A i \in DOMAIN l : m[i] = l[i],
           NEW page \in Seq(Event), NEW a, Slice(l, page, a)
    PROVE  Slice(m, page, a)
<1>1. /\ Len(l) \in Nat /\ Len(page) \in Nat /\ DOMAIN page = 1..Len(page)
      /\ DOMAIN l = 1..Len(l) /\ a \in Nat /\ a + Len(page) <= Len(l)
      /\ Len(m) \in Nat
  BY LenProperties DEF Slice
<1>2. \A j \in DOMAIN page : a + j \in DOMAIN l
  BY <1>1
<1> QED
  BY <1>1, <1>2 DEF Slice

LEMMA AppendGrows ==
    ASSUME log \in Seq(Event), NEW e \in Event, log' = Append(log, e)
    PROVE  /\ log' \in Seq(Event)
           /\ Grows
           /\ Len(log') = Len(log) + 1
           /\ log'[Len(log')] = e
  BY AppendProperties, LenProperties DEF Grows

\* A settled request brings one event for each operation it takes, in order.
LEMMA SettleGrows ==
    ASSUME log \in Seq(Event), NEW ops \in SUBSET Op, IsFiniteSet(ops), Settle(ops)
    PROVE  /\ log' \in Seq(Event)
           /\ Grows
           /\ settled' = settled \cup Ids(ops)
           /\ \A i \in DOMAIN log' : i > Len(log) => \E o \in Taken(ops) : log'[i] = EventOf(o)
           /\ \A i, j \in DOMAIN log' : (i > Len(log) /\ i < j) => log'[i].op < log'[j].op
           /\ \A o \in Taken(ops) : \E i \in DOMAIN log' : i > Len(log) /\ log'[i] = EventOf(o)
<1> DEFINE n == Cardinality(Taken(ops))
<1>1. n \in Nat
  BY FS_Subset, FS_CardinalityType DEF Taken
<1>2. PICK s \in Ordered(Taken(ops)) : log' = log \o [i \in DOMAIN s |-> EventOf(s[i])]
  BY DEF Settle
<1>3. s \in [1..n -> Taken(ops)]
  BY DEF Ordered
<1> DEFINE t == [i \in DOMAIN s |-> EventOf(s[i])]
<1>4. \A i \in 1..n : s[i] \in Op /\ t[i] = EventOf(s[i]) /\ t[i] \in Event
  BY <1>3 DEF Taken, Op, Event, EventOf
<1>5. t \in Seq(Event) /\ Len(t) = n
  <2>1. t \in [1..n -> Event]
    BY <1>3, <1>4
  <2>2. t \in Seq(Event)
    BY <2>1, <1>1
  <2> QED
    BY <2>1, <2>2, <1>1, LenProperties
<1>6. /\ log' \in Seq(Event)
      /\ Len(log') = Len(log) + n
      /\ \A i \in 1..(Len(log) + n) :
             log'[i] = IF i <= Len(log) THEN log[i] ELSE t[i - Len(log)]
  BY <1>2, <1>5, ConcatProperties
<1> HIDE DEF n, t
<1>7. /\ Len(log) \in Nat /\ DOMAIN log = 1..Len(log)
      /\ DOMAIN log' = 1..(Len(log) + n)
  BY <1>6, LenProperties
<1>8. \A i \in DOMAIN log' : i > Len(log) =>
         i - Len(log) \in 1..n /\ log'[i] = EventOf(s[i - Len(log)])
  BY <1>1, <1>4, <1>6, <1>7
<1>9. \A i \in 1..n : Len(log) + i \in DOMAIN log' /\ log'[Len(log) + i] = EventOf(s[i])
  BY <1>1, <1>4, <1>6, <1>7
<1>a. Grows
  BY <1>1, <1>6, <1>7 DEF Grows
<1>b. \A i, j \in DOMAIN log' : (i > Len(log) /\ i < j) => log'[i].op < log'[j].op
  <2> SUFFICES ASSUME NEW i \in DOMAIN log', NEW j \in DOMAIN log', i > Len(log), i < j
               PROVE  log'[i].op < log'[j].op
    OBVIOUS
  <2>1. i - Len(log) \in 1..n /\ j - Len(log) \in 1..n /\ i - Len(log) < j - Len(log)
    BY <1>1, <1>7
  <2>2. s[i - Len(log)].id < s[j - Len(log)].id
    <3>1. DOMAIN s = 1..n
      BY <1>3
    <3> QED
      BY <2>1, <3>1 DEF Ordered
  <2> QED
    BY <2>1, <2>2, <1>7, <1>8 DEF EventOf
<1>c. \A o \in Taken(ops) : \E i \in 1..n : s[i] = o
  BY <1>2, <1>3 DEF Ordered
<1>d. \A o \in Taken(ops) : \E i \in DOMAIN log' : i > Len(log) /\ log'[i] = EventOf(o)
  <2> SUFFICES ASSUME NEW o \in Taken(ops)
               PROVE  \E i \in DOMAIN log' : i > Len(log) /\ log'[i] = EventOf(o)
    OBVIOUS
  <2>1. PICK i \in 1..n : s[i] = o
    BY <1>c
  <2>2. Len(log) + i > Len(log)
    BY <1>7
  <2> QED
    BY <2>1, <2>2, <1>9
<1> QED
  BY <1>3, <1>6, <1>8, <1>a, <1>b, <1>d DEF Settle

-----------------------------------------------------------------------------
(* The latest change of a game.                                            *)

LEMMA LatestIsLargest ==
    ASSUME NEW T \in SUBSET Nat, T # {}, NEW n \in Nat, \A i \in T : i <= n
    PROVE  Latest(T) \in T /\ \A i \in T : i <= Latest(T)
<1> DEFINE D == {x \in Nat : \E i \in T : x = n - i}
<1>1. D \subseteq Nat /\ D # {}
  <2>1. PICK i \in T : TRUE
    OBVIOUS
  <2>2. n - i \in Nat
    BY <2>1
  <2> QED
    BY <2>1, <2>2
<1>2. PICK d \in D : \A x \in D : ~ (<<x, d>> \in OpToRel(<, Nat))
  BY <1>1, NatLessThanWellFounded, WFMin, Zenon
<1>3. \A x \in D : ~ (x < d)
  BY <1>1, <1>2 DEF OpToRel
<1>4. PICK m \in T : d = n - m
  OBVIOUS
<1>5. \A j \in T : j <= m
  <2> SUFFICES ASSUME NEW j \in T PROVE j <= m
    OBVIOUS
  <2>1. j \in Nat /\ m \in Nat /\ n - j \in Nat /\ n - m \in Nat
    OBVIOUS
  <2>2. n - j \in D
    BY <2>1
  <2>3. ~ (n - j < n - m)
    BY <1>3, <1>4, <2>2
  <2> HIDE DEF D
  <2> QED
    BY <2>1, <2>3
<1> QED
  BY <1>5 DEF Latest

LEMMA RowAfterType ==
    ASSUME NEW page \in Seq(Event), NEW k, NEW pending, NEW before \in Contents
    PROVE  RowAfter(page, k, pending, before) \in Contents
<1> DEFINE is == Relevant(page, k, pending)
<1>1. CASE is = {}
  BY <1>1 DEF RowAfter
<1>2. CASE is # {}
  <2>1. /\ Len(page) \in Nat /\ is \in SUBSET Nat /\ \A i \in is : i <= Len(page)
        /\ is \subseteq DOMAIN page
    BY LenProperties DEF Relevant
  <2>2. Latest(is) \in DOMAIN page
    BY <1>2, <2>1, LatestIsLargest
  <2>3. page[Latest(is)] \in Event
    BY <2>2, LenProperties, ElementOfSeq
  <2>4. NoRow \in Contents
    BY DEF NoRow, Contents
  <2> QED
    BY <1>2, <2>3, <2>4 DEF RowAfter, Event
<1> QED
  BY <1>1, <1>2

LEMMA AppliedType ==
    ASSUME NEW page \in Seq(Event), local \in [Keys -> Contents]
    PROVE  Applied(page) \in [Keys -> Contents]
BY RowAfterType DEF Applied

LEMMA ServerRowType ==
    ASSUME log \in Seq(Event), NEW k
    PROVE  ServerRow(k) \in Contents
BY RowAfterType DEF ServerRow, NoRow, Contents

-----------------------------------------------------------------------------
(* Shape is preserved.                                                     *)

LEMMA ShapeInit == Init => Shape
<1> SUFFICES ASSUME Init PROVE Shape
  OBVIOUS
<1> DEFINE e == [op |-> 0, key |-> CHOOSE k \in Keys : TRUE, kind |-> "discovery",
                 row |-> {-MaxForeign - 1}]
<1>1. {-MaxForeign - 1} \in Contents /\ {} \in Contents
  BY SyncAssumption DEF SyncAssumption, Contents
<1>2. e \in Event
  <2>1. (CHOOSE k \in Keys : TRUE) \in Keys
    BY SyncAssumption DEF SyncAssumption
  <2> QED
    BY <1>1, <2>1 DEF Event
<1>3. log \in Seq(Event) /\ Len(log) \in Nat
  <2>1. CASE Upgraded
    BY <2>1, <1>2 DEF Init
  <2>2. CASE ~Upgraded
    BY <2>2 DEF Init
  <2> QED
    BY <2>1, <2>2
<1>4. /\ cursor \in 0..Len(log) /\ from \in 0..Len(log) /\ covered \in 0..Len(log)
      /\ made \in 0..MaxEdits /\ foreign \in 0..MaxForeign
      /\ faults \in 0..MaxFaults /\ resets \in 0..MaxResets
  BY <1>3, SyncAssumption DEF Init, SyncAssumption
<1>5. StorageOK
  <2>1. local \in [Keys -> Contents]
    BY <1>1 DEF Init, NoRow
  <2>2. remediated \in BOOLEAN
    BY SyncAssumption DEF Init, SyncAssumption
  <2> QED
    BY <1>4, <2>1, <2>2 DEF Init, StorageOK
<1>6. Known = {} /\ IsFiniteSet(Known)
  BY FS_EmptySet DEF Init, Known
<1>7. OpsOK
  BY <1>6 DEF OpsOK
<1>8. AcksOK
  BY DEF Init, AcksOK
<1>9. PagesOK
  BY <1>3, <1>4 DEF Init, PagesOK, Pulling, Replaying
<1> QED
  BY <1>4, <1>5, <1>7, <1>8, <1>9 DEF Init, Shape, DraftOK, ServiceOK

\* What another device or the server itself logs is an event.
LEMMA ForeignEvent ==
    ASSUME Shape, NEW k \in Keys,
           ForeignUpsert(k) \/ ForeignDelete(k) \/ ForeignDiscovery(k)
    PROVE  /\ \E e \in Event : e.op = 0 /\ log' = Append(log, e)
           /\ foreign' \in 0..MaxForeign
           /\ UNCHANGED <<storage, draft, init, reset, sync, settled, orphans,
                           made, faults, resets, covered, torn>>
<1>1. \A kind \in {"upsert", "delete", "discovery"}, row \in Contents :
         [op |-> 0, key |-> k, kind |-> kind, row |-> row] \in Event
  BY DEF Event
<1>2. foreign < MaxForeign => {-foreign - 1} \in Contents
  BY SyncAssumption DEF SyncAssumption, Shape, ServiceOK, Contents
<1>3. foreign < MaxForeign => ServerRow(k) \cup {-foreign - 1} \in Contents
  BY <1>2, ServerRowType DEF Shape, PagesOK, Contents
<1>4. NoRow \in Contents
  BY DEF NoRow, Contents
<1>5. ASSUME NEW kind \in {"upsert", "delete", "discovery"}, NEW row \in Contents,
             AppendForeign(k, kind, row)
      PROVE  /\ \E e \in Event : e.op = 0 /\ log' = Append(log, e)
             /\ foreign' \in 0..MaxForeign
             /\ UNCHANGED <<storage, draft, init, reset, sync, settled, orphans,
                             made, faults, resets, covered, torn>>
  <2>1. foreign' \in 0..MaxForeign
    BY <1>5, SyncAssumption DEF AppendForeign, SyncAssumption, Shape, ServiceOK
  <2> QED
    BY <1>1, <1>5, <2>1 DEF AppendForeign
<1>6. CASE ForeignUpsert(k)
  BY <1>6, <1>3, <1>5 DEF ForeignUpsert, AppendForeign
<1>7. CASE ForeignDelete(k)
  BY <1>7, <1>4, <1>5 DEF ForeignDelete
<1>8. CASE ForeignDiscovery(k)
  BY <1>8, <1>2, <1>5 DEF ForeignDiscovery, AppendForeign
<1> QED
  BY <1>6, <1>7, <1>8

\* What a step does to the server: nothing, settle a request, or log a change
\* of another device.
ServerStep ==
    \/ UNCHANGED <<log, settled>>
    \/ ServePush
    \/ \E ops \in orphans : OrphanArrives(ops)
    \/ UNCHANGED settled /\ \E e \in Event : e.op = 0 /\ log' = Append(log, e)

LEMMA ServerNext == Shape /\ [Next]_vars => ServerStep
<1> SUFFICES ASSUME Shape, [Next]_vars PROVE ServerStep
  OBVIOUS
<1>1. ASSUME NEW k \in Keys,
             ForeignUpsert(k) \/ ForeignDelete(k) \/ ForeignDiscovery(k)
      PROVE  ServerStep
  BY <1>1, ForeignEvent DEF ServerStep, server
<1>2. ASSUME NEW k \in Keys, BeginEdit(k) \/ RemoveGame(k)
      PROVE  UNCHANGED <<log, settled>>
  BY <1>2 DEF BeginEdit, RemoveGame, server
<1>3. CASE SaveEdit \/ StartSync \/ Remediate \/ RequestReset \/ ResetCursor \/ DayPasses
  BY <1>3 DEF SaveEdit, StartSync, Remediate, RequestReset, ResetCursor, DayPasses,
              server, ServerStep
<1>4. CASE LoseRequest \/ LoseReply \/ PullFails \/ ReplayFails \/ Crash
  BY <1>4 DEF LoseRequest, LoseReply, PullFails, ReplayFails, Crash, server, ServerStep
<1>5. ASSUME NEW last \in Ids(unsent), SendBatch(last)
      PROVE  UNCHANGED <<log, settled>>
  BY <1>5 DEF SendBatch, server
<1>6. CASE ReceiveReply \/ AckOutbox \/ BeginPull \/ Pull \/ ApplyPage \/ StoreCursor
           \/ StoreEcho
  BY <1>6 DEF ReceiveReply, AckOutbox, BeginPull, Pull, ApplyPage, StoreCursor,
              StoreEcho, server, ServerStep
<1>7. CASE NoReplay \/ BeginReplay \/ CollectPage \/ ConfirmReplay \/ ReapplyPage
           \/ AbandonReplay
  BY <1>7 DEF NoReplay, BeginReplay, CollectPage, ConfirmReplay, ReapplyPage,
              AbandonReplay, server, ServerStep
<1>8. CASE UNCHANGED vars
  BY <1>8 DEF vars, server, ServerStep
<1> QED
  BY <1>1, <1>2, <1>3, <1>4, <1>5, <1>6, <1>7, <1>8 DEF Next, SyncStep, ServerStep

LEMMA RequestsAreOps ==
    ASSUME Shape
    PROVE  /\ request \in SUBSET Op /\ IsFiniteSet(request)
           /\ \A ops \in orphans : ops \in SUBSET Op /\ IsFiniteSet(ops)
BY FS_Subset DEF Shape, OpsOK, Known

LEMMA LogGrows ==
    ASSUME Shape, [Next]_vars
    PROVE  log' \in Seq(Event) /\ Grows /\ Len(log) \in Nat /\ Len(log') \in Nat
<1>1. log \in Seq(Event)
  BY DEF Shape, PagesOK
<1>2. CASE UNCHANGED log
  BY <1>1, <1>2, LenProperties DEF Grows
<1>3. CASE ServePush \/ \E ops \in orphans : OrphanArrives(ops)
  BY <1>1, <1>3, RequestsAreOps, SettleGrows, LenProperties DEF ServePush, OrphanArrives
<1>4. CASE \E e \in Event : e.op = 0 /\ log' = Append(log, e)
  BY <1>1, <1>4, AppendGrows, LenProperties
<1> QED
  BY <1>2, <1>3, <1>4, ServerNext DEF ServerStep

-----------------------------------------------------------------------------
(* Shape is inductive, part by part.                                       *)

LEMMA WriteType ==
    ASSUME Shape, NEW k \in Keys, NEW kind \in {"upsert", "delete"}, NEW row \in Contents,
           made < MaxEdits, Write(k, kind, row)
    PROVE  /\ local' \in [Keys -> Contents]
           /\ made' = made + 1 /\ made' \in 1..MaxEdits
           /\ \E o \in Op : /\ o.id = made + 1 /\ o.key = k
                           /\ outbox' = outbox \cup {o}
<1>1. made + 1 \in 1..MaxEdits
  BY SyncAssumption DEF SyncAssumption, Shape, DraftOK
<1>2. [id |-> made + 1, key |-> k, kind |-> kind, row |-> row] \in Op
  BY <1>1 DEF Op, Edits
<1>3. local' \in [Keys -> Contents]
  BY DEF Write, Shape, StorageOK
<1> QED
  BY <1>1, <1>2, <1>3 DEF Write

\* What an edit does: it may leave all as it was, or write a row and its
\* operation.
EditStep ==
    \/ UNCHANGED <<local, outbox, made>>
    \/ /\ local' \in [Keys -> Contents]
       /\ made' = made + 1 /\ made' \in 1..MaxEdits
       /\ \E o \in Op : /\ o.id = made + 1
                       /\ outbox' = outbox \cup {o}
                       /\ \A k \in Keys : k # o.key => local'[k] = local[k]

LEMMA EditType ==
    ASSUME Shape, SaveEdit \/ \E k \in Keys : RemoveGame(k)
    PROVE  EditStep
<1>1. ASSUME NEW k \in Keys, NEW kind \in {"upsert", "delete"}, NEW row \in Contents,
             made < MaxEdits, Write(k, kind, row)
      PROVE  EditStep
  <2>1. \A q \in Keys : q # k => local'[q] = local[q]
    BY <1>1 DEF Write, Shape, StorageOK
  <2> QED
    BY <1>1, <2>1, WriteType DEF EditStep
<1>2. CASE SaveEdit
  <2>1. PICK d \in draft : IF d.row = NoRow /\ local[d.key] # NoRow
                             THEN UNCHANGED <<local, outbox, made>>
                             ELSE Write(d.key, "upsert", d.row \cup {made + 1})
    BY <1>2 DEF SaveEdit
  <2>2. made < MaxEdits /\ d.key \in Keys /\ d.row \in Contents
    BY DEF Shape, DraftOK
  <2>3. d.row \cup {made + 1} \in Contents
    BY <2>2, SyncAssumption DEF SyncAssumption, Contents, Shape, DraftOK
  <2> QED
    BY <2>1, <2>2, <2>3, <1>1 DEF EditStep
<1>3. ASSUME NEW k \in Keys, RemoveGame(k) PROVE EditStep
  <2>1. made < MaxEdits
    BY <1>3, FS_EmptySet DEF RemoveGame, Shape, DraftOK
  <2>2. NoRow \in Contents
    BY DEF NoRow, Contents
  <2> QED
    BY <1>1, <1>3, <2>1, <2>2 DEF RemoveGame
<1> QED
  BY <1>2, <1>3

LEMMA StorageNext == Shape /\ [Next]_vars => StorageOK'
<1> SUFFICES ASSUME Shape, [Next]_vars PROVE StorageOK'
  OBVIOUS
<1> USE DEF StorageOK
<1>1. Len(log) \in Nat /\ Len(log') \in Nat /\ Len(log) <= Len(log') /\ StorageOK
  BY LogGrows DEF Grows, Shape
<1>2. CASE SaveEdit \/ \E k \in Keys : RemoveGame(k)
  <2>1. EditStep
    BY <1>2, EditType
  <2>2. UNCHANGED <<cursor, covered, replayDue, remediated, torn>>
    BY <1>2 DEF SaveEdit, RemoveGame
  <2> QED
    BY <1>1, <2>1, <2>2 DEF EditStep
<1>3. CASE ApplyPage
  <2>1. LastPage \in Seq(Event) /\ from + Len(LastPage) <= Len(log) /\ from \in Nat
    BY <1>3, <1>1, LenProperties DEF ApplyPage, Shape, PagesOK, Slice, LastPage
  <2>2. Len(LastPage) \in Nat
    BY <2>1, LenProperties
  <2> QED
    BY <1>1, <1>3, <2>1, <2>2, AppliedType DEF ApplyPage, Larger, server
<1>4. CASE ReapplyPage
  <2>1. pages \in Seq(Seq(Event)) /\ pages # <<>>
    BY <1>4 DEF ReapplyPage, Shape, PagesOK
  <2>2. Head(pages) \in Seq(Event)
    BY <2>1, HeadTailProperties
  <2> QED
    BY <1>1, <1>4, <2>2, AppliedType DEF ReapplyPage, EndSync, server
<1>5. CASE StoreCursor
  <2>1. /\ LastPage \in Seq(Event) /\ from + Len(LastPage) <= Len(log)
        /\ from + Len(LastPage) \in Nat
    BY <1>5, <1>1, LenProperties DEF StoreCursor, Shape, PagesOK, Slice, LastPage
  <2> QED
    BY <1>1, <1>5, <2>1 DEF StoreCursor, server, history
<1>6. CASE StoreEcho
  BY <1>1, <1>6 DEF StoreEcho, Shape, PagesOK, server, history
<1>7. CASE Remediate \/ ResetCursor
  <2>1. /\ cursor' \in {0, cursor} /\ covered' \in {0, covered}
        /\ UNCHANGED <<local, torn>>
    BY <1>7 DEF Remediate, ResetCursor
  <2>2. replayDue' \in BOOLEAN /\ remediated' \in BOOLEAN
    BY <1>1, <1>7 DEF Remediate, ResetCursor
  <2>3. cursor' \in 0..Len(log') /\ covered' \in 0..Len(log')
    BY <1>1, <2>1
  <2> QED
    BY <1>1, <2>1, <2>2, <2>3
<1>8. CASE AbandonReplay \/ ReplayFails
  BY <1>1, <1>8 DEF AbandonReplay, ReplayFails, Fault, server, history
<1>9. ASSUME NEW k \in Keys,
             BeginEdit(k) \/ ForeignUpsert(k) \/ ForeignDelete(k) \/ ForeignDiscovery(k)
      PROVE  StorageOK'
  BY <1>1, <1>9, ForeignEvent DEF BeginEdit, storage, history
<1>a. CASE StartSync \/ ServePush \/ ReceiveReply \/ BeginPull \/ Pull \/ NoReplay
           \/ BeginReplay \/ CollectPage \/ ConfirmReplay \/ \E last \in Ids(unsent) : SendBatch(last)
  BY <1>1, <1>a DEF StartSync, ServePush, ReceiveReply, BeginPull, Pull, NoReplay,
      BeginReplay, CollectPage, ConfirmReplay, SendBatch, storage, history
<1>b. CASE LoseRequest \/ LoseReply \/ PullFails \/ Crash \/ \E ops \in orphans : OrphanArrives(ops)
  BY <1>1, <1>b DEF LoseRequest, LoseReply, PullFails, Crash, OrphanArrives, Fault,
      storage, history
<1>c. CASE AckOutbox \/ RequestReset \/ DayPasses \/ UNCHANGED vars
  BY <1>1, <1>c DEF AckOutbox, RequestReset, DayPasses, vars, storage, server, history
<1> QED
  BY <1>2, <1>3, <1>4, <1>5, <1>6, <1>7, <1>8, <1>9, <1>a, <1>b, <1>c DEF Next, SyncStep

LEMMA DraftNext == Shape /\ [Next]_vars => DraftOK'
<1> SUFFICES ASSUME Shape, [Next]_vars PROVE DraftOK'
  OBVIOUS
<1> USE DEF DraftOK
<1>1. DraftOK
  BY DEF Shape
<1>2. CASE SaveEdit
  <2>1. EditStep /\ draft' = {}
    BY <1>2, EditType DEF SaveEdit
  <2> QED
    BY <1>1, <2>1 DEF EditStep
<1>3. ASSUME NEW k \in Keys, RemoveGame(k) PROVE DraftOK'
  <2>1. EditStep /\ UNCHANGED draft
    BY <1>3, EditType DEF RemoveGame
  <2>2. draft # {} => made + 1 < MaxEdits
    BY <1>1, <1>3, FS_Singleton DEF RemoveGame
  <2> QED
    BY <1>1, <2>1, <2>2, SyncAssumption DEF EditStep, SyncAssumption
<1>4. ASSUME NEW k \in Keys, BeginEdit(k) PROVE DraftOK'
  <2>1. [key |-> k, row |-> local[k]] \in [key : Keys, row : Contents]
    BY DEF Shape, StorageOK
  <2> QED
    BY <1>1, <1>4, <2>1 DEF BeginEdit, history
<1>5. CASE Crash
  BY <1>1, <1>5 DEF Crash, Fault
<1>6. ASSUME NEW k \in Keys,
             ForeignUpsert(k) \/ ForeignDelete(k) \/ ForeignDiscovery(k)
      PROVE  UNCHANGED <<draft, made>>
  BY <1>6, ForeignEvent
<1>7. ASSUME SyncStep \/ StartSync PROVE UNCHANGED <<draft, made>>
  BY <1>7 DEF SyncStep, StartSync, ServePush, ReceiveReply, AckOutbox, BeginPull, Pull,
      ApplyPage, StoreCursor, StoreEcho, NoReplay, BeginReplay, CollectPage,
      ConfirmReplay, ReapplyPage, AbandonReplay, SendBatch, history
<1>8. ASSUME LoseRequest \/ LoseReply \/ PullFails \/ ReplayFails
             \/ \E ops \in orphans : OrphanArrives(ops)
      PROVE  UNCHANGED <<draft, made>>
  BY <1>8 DEF LoseRequest, LoseReply, PullFails, ReplayFails, OrphanArrives, Fault, history
<1>9. ASSUME Remediate \/ RequestReset \/ ResetCursor \/ DayPasses \/ UNCHANGED vars
      PROVE  UNCHANGED <<draft, made>>
  BY <1>9 DEF Remediate, RequestReset, ResetCursor, DayPasses, vars, history
<1> QED
  BY <1>1, <1>2, <1>3, <1>4, <1>5, <1>6, <1>7, <1>8, <1>9 DEF Next

\* No step makes the client hold an operation but an edit.
LEMMA KnownNext ==
    ASSUME Shape, [Next]_vars
    PROVE  \/ Known' \subseteq Known /\ UNCHANGED made
           \/ /\ made' = made + 1 /\ made' \in 1..MaxEdits
              /\ \E o \in Op : o.id = made + 1 /\ Known' = Known \cup {o}
<1> USE DEF Known
<1>1. CASE SaveEdit \/ \E k \in Keys : RemoveGame(k)
  <2>1. EditStep
    BY <1>1, EditType
  <2>2. UNCHANGED <<unsent, request, orphans>>
    BY <1>1 DEF SaveEdit, RemoveGame, sync, server
  <2> QED
    BY <2>1, <2>2 DEF EditStep
<1>2. CASE \/ \E k \in Keys : BeginEdit(k)
           \/ Remediate \/ RequestReset \/ ResetCursor \/ DayPasses \/ UNCHANGED vars
  BY <1>2 DEF BeginEdit, Remediate, RequestReset, ResetCursor, DayPasses, vars,
      storage, sync, server, history
<1>3. ASSUME NEW k \in Keys,
             ForeignUpsert(k) \/ ForeignDelete(k) \/ ForeignDiscovery(k)
      PROVE  Known' \subseteq Known /\ UNCHANGED made
  BY <1>3, ForeignEvent DEF storage, sync
<1>4. CASE LoseRequest \/ LoseReply \/ PullFails \/ ReplayFails \/ Crash
           \/ \E ops \in orphans : OrphanArrives(ops)
  BY <1>4 DEF LoseRequest, LoseReply, PullFails, ReplayFails, Crash, OrphanArrives, Fault,
      EndSync, storage, sync, server, history
<1>5. CASE StartSync \/ AckOutbox \/ ServePush \/ ReceiveReply
           \/ \E last \in Ids(unsent) : SendBatch(last)
  BY <1>5 DEF StartSync, AckOutbox, ServePush, ReceiveReply, SendBatch, storage, server, history
<1>6. CASE BeginPull \/ Pull \/ ApplyPage \/ StoreCursor \/ StoreEcho
  BY <1>6 DEF BeginPull, Pull, ApplyPage, StoreCursor, StoreEcho, storage, server, history
<1>7. CASE NoReplay \/ BeginReplay \/ CollectPage \/ ConfirmReplay \/ ReapplyPage
           \/ AbandonReplay
  BY <1>7 DEF NoReplay, BeginReplay, CollectPage, ConfirmReplay, ReapplyPage,
      AbandonReplay, EndSync, storage, server, history
<1> QED
  BY <1>1, <1>2, <1>3, <1>4, <1>5, <1>6, <1>7 DEF Next, SyncStep

LEMMA OpsNext == Shape /\ [Next]_vars => OpsOK'
<1> SUFFICES ASSUME Shape, [Next]_vars PROVE OpsOK'
  OBVIOUS
<1>1. OpsOK /\ made \in Nat
  BY SyncAssumption DEF Shape, DraftOK, SyncAssumption
<1>2. CASE Known' \subseteq Known /\ UNCHANGED made
  BY <1>1, <1>2, FS_Subset DEF OpsOK
<1>3. ASSUME NEW o \in Op, o.id = made + 1, Known' = Known \cup {o}, made' = made + 1
      PROVE  OpsOK'
  <2>1. IsFiniteSet(Known')
    BY <1>1, <1>3, FS_AddElement DEF OpsOK
  <2>2. \A p \in Known : p.id \in Int
    BY <1>1 DEF OpsOK, Op, Edits
  <2> QED
    BY <1>1, <1>3, <2>1, <2>2 DEF OpsOK
<1> QED
  BY <1>2, <1>3, KnownNext

LEMMA AcksNext == Shape /\ [Next]_vars => AcksOK'
<1> SUFFICES ASSUME Shape, [Next]_vars PROVE AcksOK'
  OBVIOUS
<1> USE DEF AcksOK, Sending
<1>1. AcksOK /\ made \in Nat /\ made \in 0..MaxEdits /\ MaxEdits \in Nat
  BY SyncAssumption DEF Shape, DraftOK, SyncAssumption
<1>2. CASE ServePush
  <2>1. /\ settled' = settled \cup Ids(request)
        /\ reply' \subseteq Ids(request)
        /\ pc' = "answered" /\ pc = "pushing"
        /\ UNCHANGED <<acked, request, unsent, made>>
    BY <1>2 DEF ServePush, Settle, Ids, history
  <2>2. Ids(request) \subseteq Edits /\ \A n \in Ids(request) : n <= made
    BY DEF Shape, OpsOK, Known, Op, Ids
  <2> QED
    BY <1>1, <2>1, <2>2
<1>3. ASSUME NEW ops \in orphans, OrphanArrives(ops) PROVE AcksOK'
  <2>1. /\ settled' = settled \cup Ids(ops)
        /\ UNCHANGED <<sync, made>>
    BY <1>3 DEF OrphanArrives, Settle, history
  <2>2. Ids(ops) \subseteq Edits /\ \A n \in Ids(ops) : n <= made
    BY DEF Shape, OpsOK, Known, Op, Ids
  <2> QED
    BY <1>1, <2>1, <2>2 DEF sync
<1>4. CASE SaveEdit \/ \E k \in Keys : RemoveGame(k)
  <2>1. EditStep /\ UNCHANGED <<sync, settled>>
    BY <1>4, EditType DEF SaveEdit, RemoveGame, server
  <2>2. made' \in Nat /\ made <= made'
    BY <1>1, <2>1 DEF EditStep
  <2>3. \A n \in settled : n \in Int
    BY <1>1 DEF Edits
  <2> QED
    BY <1>1, <2>1, <2>2, <2>3 DEF sync
<1>5. ASSUME NEW k \in Keys,
             ForeignUpsert(k) \/ ForeignDelete(k) \/ ForeignDiscovery(k) \/ BeginEdit(k)
      PROVE  AcksOK'
  <2>1. UNCHANGED <<sync, settled, made>>
    BY <1>5, ForeignEvent DEF BeginEdit, server, history
  <2> QED
    BY <1>1, <2>1 DEF sync
<1>6. CASE StartSync \/ ReceiveReply \/ AckOutbox \/ \E last \in Ids(unsent) : SendBatch(last)
  BY <1>1, <1>6 DEF StartSync, ReceiveReply, AckOutbox, SendBatch, server, history
<1>7. CASE BeginPull \/ Pull \/ ApplyPage \/ StoreCursor \/ StoreEcho
  BY <1>1, <1>7 DEF BeginPull, Pull, ApplyPage, StoreCursor, StoreEcho, server, history
<1>8. CASE NoReplay \/ BeginReplay \/ CollectPage \/ ConfirmReplay \/ ReapplyPage
           \/ AbandonReplay
  BY <1>1, <1>8 DEF NoReplay, BeginReplay, CollectPage, ConfirmReplay, ReapplyPage,
      AbandonReplay, EndSync, server, history
<1>9. CASE LoseRequest \/ LoseReply \/ PullFails \/ ReplayFails \/ Crash
  BY <1>1, <1>9 DEF LoseRequest, LoseReply, PullFails, ReplayFails, Crash, Fault,
      EndSync, server
<1>a. CASE Remediate \/ RequestReset \/ ResetCursor \/ DayPasses \/ UNCHANGED vars
  BY <1>1, <1>a DEF Remediate, RequestReset, ResetCursor, DayPasses, vars, sync, server, history
<1> QED
  BY <1>2, <1>3, <1>4, <1>5, <1>6, <1>7, <1>8, <1>9, <1>a DEF Next, SyncStep

LEMMA ServiceNext == Shape /\ [Next]_vars => ServiceOK'
<1> SUFFICES ASSUME Shape, [Next]_vars PROVE ServiceOK'
  OBVIOUS
<1> USE DEF ServiceOK, Sending, Pulling, Replaying
<1>1. ServiceOK /\ MaxFaults \in Nat /\ MaxResets \in Nat
  BY SyncAssumption DEF Shape, SyncAssumption
<1>2. CASE SaveEdit \/ \E k \in Keys : BeginEdit(k) \/ RemoveGame(k)
  BY <1>1, <1>2 DEF SaveEdit, BeginEdit, RemoveGame, sync, history
<1>3. ASSUME NEW k \in Keys,
             ForeignUpsert(k) \/ ForeignDelete(k) \/ ForeignDiscovery(k)
      PROVE  ServiceOK'
  BY <1>1, <1>3, ForeignEvent DEF sync
<1>4. CASE StartSync \/ ServePush \/ ReceiveReply \/ AckOutbox
           \/ \E last \in Ids(unsent) : SendBatch(last)
  BY <1>1, <1>4 DEF StartSync, ServePush, ReceiveReply, AckOutbox, SendBatch, history
<1>5. CASE BeginPull \/ Pull \/ ApplyPage \/ StoreCursor \/ StoreEcho
  BY <1>1, <1>5 DEF BeginPull, Pull, ApplyPage, StoreCursor, StoreEcho, history
<1>6. CASE NoReplay \/ BeginReplay \/ CollectPage \/ ConfirmReplay \/ ReapplyPage
           \/ AbandonReplay
  BY <1>1, <1>6 DEF NoReplay, BeginReplay, CollectPage, ConfirmReplay, ReapplyPage,
      AbandonReplay, EndSync, history
<1>7. CASE LoseRequest \/ LoseReply \/ PullFails \/ ReplayFails \/ Crash
           \/ \E ops \in orphans : OrphanArrives(ops)
  BY <1>1, <1>7 DEF LoseRequest, LoseReply, PullFails, ReplayFails, Crash, OrphanArrives,
      Fault, EndSync, sync, history
<1>8. CASE Remediate \/ RequestReset \/ ResetCursor \/ DayPasses \/ UNCHANGED vars
  BY <1>1, <1>8 DEF Remediate, RequestReset, ResetCursor, DayPasses, vars, sync, history
<1> QED
  BY <1>2, <1>3, <1>4, <1>5, <1>6, <1>7, <1>8 DEF Next, SyncStep

LEMMA PagesNext == Shape /\ [Next]_vars => PagesOK'
<1> SUFFICES ASSUME Shape, [Next]_vars PROVE PagesOK'
  OBVIOUS
<1>1. PagesOK /\ log' \in Seq(Event) /\ Grows /\ Len(log) \in Nat /\ Len(log') \in Nat
      /\ Len(log) <= Len(log')
  BY LogGrows DEF Shape, Grows
\* What is in hand stays right while the log grows.
<1>2. ASSUME UNCHANGED <<from, pages>>,
             pc' \in {"apply", "store"} => pc \in {"apply", "store"},
             pc' = "reapply" => pages # <<>>,
             pages = <<>> \/ pc' \in Pulling \cup Replaying
      PROVE  PagesOK'
  <2>1. ASSUME pc \in {"apply", "store"} PROVE Slice(log, LastPage, from)'
    <3>1. LastPage \in Seq(Event)
      BY <1>1, <2>1, LenProperties DEF PagesOK, LastPage
    <3>2. Slice(log, LastPage, from)
      BY <1>1, <2>1 DEF PagesOK
    <3>3. UNCHANGED LastPage
      BY <1>2 DEF LastPage
    <3>4. Slice(log', LastPage, from)
      BY <3>1, <3>2, <1>1, SliceStays DEF PagesOK, Grows
    <3> QED
      BY <1>2, <3>3, <3>4
  <2> QED
    BY <1>1, <1>2, <2>1 DEF PagesOK
<1>3. ASSUME UNCHANGED <<from, pages, pc>> PROVE PagesOK'
  BY <1>1, <1>2, <1>3 DEF PagesOK
<1>4. CASE SaveEdit \/ \E k \in Keys : BeginEdit(k) \/ RemoveGame(k)
  BY <1>4, <1>3 DEF SaveEdit, BeginEdit, RemoveGame, sync
<1>5. ASSUME NEW k \in Keys,
             ForeignUpsert(k) \/ ForeignDelete(k) \/ ForeignDiscovery(k)
      PROVE  PagesOK'
  BY <1>5, <1>3, ForeignEvent DEF sync
<1>6. CASE \/ Remediate \/ RequestReset \/ ResetCursor \/ DayPasses \/ UNCHANGED vars
           \/ \E ops \in orphans : OrphanArrives(ops)
  BY <1>6, <1>3 DEF Remediate, RequestReset, ResetCursor, DayPasses, OrphanArrives, vars, sync
<1>7. ASSUME EndSync PROVE PagesOK'
  BY <1>1, <1>7 DEF EndSync, PagesOK, Pulling, Replaying
<1>8. CASE \/ LoseRequest \/ LoseReply \/ PullFails \/ ReplayFails \/ Crash
           \/ NoReplay \/ AbandonReplay
  BY <1>8, <1>7 DEF LoseRequest, LoseReply, PullFails, ReplayFails, Crash, NoReplay,
      AbandonReplay
<1>9. CASE \/ StartSync \/ ServePush \/ ReceiveReply \/ AckOutbox \/ ApplyPage \/ ConfirmReplay
           \/ \E last \in Ids(unsent) : SendBatch(last)
  <2>1. UNCHANGED <<from, pages>>
    BY <1>9 DEF StartSync, ServePush, ReceiveReply, AckOutbox, ApplyPage, ConfirmReplay, SendBatch
  <2>2. /\ pc' \in {"apply", "store"} => pc \in {"apply", "store"}
        /\ pc' = "reapply" => pages # <<>>
        /\ pages = <<>> \/ pc' \in Pulling \cup Replaying
    BY <1>1, <1>9 DEF StartSync, ServePush, ReceiveReply, AckOutbox, ApplyPage,
        ConfirmReplay, SendBatch, PagesOK, Pulling, Replaying
  <2> QED
    BY <2>1, <2>2, <1>2
<1>a. CASE BeginPull
  BY <1>1, <1>a DEF BeginPull, PagesOK, Pulling, Replaying, Shape, StorageOK, server
<1>b. CASE Pull
  <2>1. from \in 0..Len(log) /\ log \in Seq(Event) /\ UNCHANGED <<log, from>>
    BY <1>1, <1>b DEF Pull, PagesOK, server
  <2>2. PageAfter(from) \in Seq(Event) /\ Slice(log, PageAfter(from), from)
    BY <2>1, SyncAssumption, PageIsSlice
  <2>3. /\ pages' \in Seq(Seq(Event)) /\ Len(pages') = Len(pages) + 1
        /\ pages'[Len(pages')] = PageAfter(from) /\ pages' # <<>>
    <3> DEFINE page == PageAfter(from)
    <3>1. pages' = Append(pages, page) /\ pages \in Seq(Seq(Event)) /\ page \in Seq(Event)
      BY <1>1, <1>b, <2>2 DEF Pull, PagesOK
    <3> HIDE DEF page
    <3>2. /\ pages' \in Seq(Seq(Event)) /\ Len(pages') = Len(pages) + 1
          /\ pages'[Len(pages')] = page
      BY <3>1, AppendProperties
    <3> QED
      BY <3>1, <3>2, LenProperties, EmptySeq DEF page
  <2>4. LastPage' = PageAfter(from)
    BY <2>3 DEF LastPage
  <2>5. pc' \in {"echo", "apply"}
    BY <1>b DEF Pull
  <2> QED
    BY <2>1, <2>2, <2>3, <2>4, <2>5 DEF PagesOK, Pulling, Replaying
<1>c. CASE StoreCursor
  <2>1. /\ from \in Nat /\ from + Len(LastPage) <= Len(log) /\ Len(LastPage) \in Nat
        /\ UNCHANGED log
    BY <1>1, <1>c, LenProperties DEF StoreCursor, PagesOK, Slice, LastPage, server
  <2>2. from' \in 0..Len(log')
    <3>1. from' = from + Len(LastPage) \/ from' = from
      BY <1>c DEF StoreCursor
    <3> QED
      BY <1>1, <2>1, <3>1 DEF PagesOK
  <2>3. /\ pages' \in Seq(Seq(Event))
        /\ pc' = "pull" \/ (pc' = "replay" /\ pages' = <<>>)
    <3>1. pages \in Seq(Seq(Event)) /\ <<>> \in Seq(Seq(Event))
      BY <1>1 DEF PagesOK
    <3>2. \/ pages' = pages /\ pc' = "pull"
          \/ pages' = <<>> /\ pc' = "replay"
      BY <1>c DEF StoreCursor
    <3> QED
      BY <3>1, <3>2
  <2> QED
    BY <1>1, <2>2, <2>3 DEF PagesOK, Pulling, Replaying
<1>d. CASE StoreEcho
  BY <1>1, <1>d DEF StoreEcho, PagesOK, Pulling, Replaying, server
<1>e. CASE BeginReplay
  <2>1. Larger(0, cursor - Window) \in 0..Len(log)
    BY <1>1, SyncAssumption DEF Larger, Shape, StorageOK, SyncAssumption
  <2> QED
    BY <1>1, <1>e, <2>1 DEF BeginReplay, PagesOK, Pulling, Replaying, server
<1>f. CASE CollectPage
  <2>1. from \in 0..Len(log) /\ log \in Seq(Event) /\ UNCHANGED log
    BY <1>1, <1>f DEF CollectPage, PagesOK, server
  <2>2. /\ PageAfter(from) \in Seq(Event) /\ Slice(log, PageAfter(from), from)
        /\ Len(PageAfter(from)) \in Nat
    BY <2>1, SyncAssumption, PageIsSlice, LenProperties
  <2>3. from' = from + Len(PageAfter(from)) /\ from' \in 0..Len(log')
    BY <1>1, <1>f, <2>1, <2>2 DEF CollectPage, Slice
  <2>4. pages' \in Seq(Seq(Event))
    BY <1>1, <1>f, <2>2, AppendProperties DEF CollectPage, PagesOK
  <2>5. pc' \in {"collect", "check"}
    BY <1>f DEF CollectPage
  <2> QED
    BY <1>1, <2>3, <2>4, <2>5 DEF PagesOK, Pulling, Replaying
<1>g. CASE ReapplyPage
  <2>1. CASE Len(pages) > 1
    <3>1. pages' = Tail(pages) /\ UNCHANGED <<pc, from, log>> /\ pc = "reapply" /\ pages # <<>>
      BY <1>1, <1>g, <2>1 DEF ReapplyPage, server, PagesOK
    <3>2. pages' \in Seq(Seq(Event)) /\ Len(pages') = Len(pages) - 1
      BY <1>1, <3>1, HeadTailProperties DEF PagesOK
    <3>3. pages' # <<>>
      BY <1>1, <2>1, <3>2, LenProperties DEF PagesOK
    <3> QED
      BY <1>1, <3>1, <3>2, <3>3 DEF PagesOK, Pulling, Replaying
  <2>2. CASE ~(Len(pages) > 1)
    BY <1>g, <2>2, <1>7 DEF ReapplyPage
  <2> QED
    BY <2>1, <2>2
<1> QED
  BY <1>4, <1>5, <1>6, <1>8, <1>9, <1>a, <1>b, <1>c, <1>d, <1>e, <1>f, <1>g
  DEF Next, SyncStep

LEMMA ShapeNext == Shape /\ [Next]_vars => Shape'
BY StorageNext, DraftNext, OpsNext, AcksNext, PagesNext, ServiceNext DEF Shape

LEMMA ShapeIsTyped == Shape => TypeOK
<1> SUFFICES ASSUME Shape PROVE TypeOK
  OBVIOUS
<1>1. draft \subseteq [key : Keys, row : Contents] /\ Cardinality(draft) <= 1
  <2>1. CASE draft = {}
    BY <2>1, FS_EmptySet
  <2>2. ASSUME NEW d \in [key : Keys, row : Contents], draft = {d}
        PROVE  draft \subseteq [key : Keys, row : Contents] /\ Cardinality(draft) <= 1
    <3>1. Cardinality({d}) = 1
      BY FS_Singleton, Zenon
    <3> QED
      BY <2>2, <3>1
  <2> QED
    BY <2>1, <2>2 DEF Shape, DraftOK
<1>2. /\ outbox \subseteq Op /\ unsent \subseteq Op /\ request \subseteq Op
      /\ orphans \subseteq SUBSET Op
  BY DEF Shape, OpsOK, Known
<1>3. pc \in {"idle", "send", "pushing", "answered", "ack", "begin", "pull", "apply",
               "store", "echo", "replay", "collect", "check", "reapply"}
  BY DEF Shape, ServiceOK, Sending, Pulling, Replaying
<1>4. reply \subseteq Edits /\ acked \subseteq Edits /\ settled \subseteq Edits
  BY DEF Shape, AcksOK
<1> QED
  BY <1>1, <1>2, <1>3, <1>4 DEF Shape, StorageOK, DraftOK, PagesOK, ServiceOK, TypeOK

\* Every variable keeps its type through lost messages, restarts and resets;
\* what a sync has in hand (its request, its pages, the ids to delete) is
\* always a part of what was listed, and lies within the log.
THEOREM TypeCorrect == Spec => []TypeOK
<1>1. Spec => []Shape
  BY ShapeInit, ShapeNext, PTL DEF Spec
<1> QED
  BY <1>1, ShapeIsTyped, PTL

-----------------------------------------------------------------------------
(* Edits are settled, once and in order.  The reason is in the requests: a *)
(* sync sends the outbox from its start and goes on to the next batch only *)
(* when the server has settled the one before, so that whatever precedes   *)
(* an operation of a request, also of one that arrives late, has been      *)
(* settled or is in the same request.                                      *)

\* A request of the client arrives: operations it may hold, closed.
Arrives(ops) == ops \in SUBSET Op /\ IsFiniteSet(ops) /\ Closed(ops) /\ Settle(ops)

LEMMA Arrival ==
    ASSUME Shape, OrderInv, ServePush \/ \E ops \in orphans : OrphanArrives(ops)
    PROVE  \E ops \in {request} \cup orphans : Arrives(ops)
BY RequestsAreOps DEF OrderInv, Arrives, ServePush, OrphanArrives

LEMMA SettleKeepsOrder ==
    ASSUME Shape, OrderInv, NEW ops, Arrives(ops)
    PROVE  /\ EditsInOrder'
           /\ \A n \in settled' : \A m \in 1..n : m \in settled'
           /\ \A i \in DOMAIN log' : log'[i].op > 0 => log'[i].op \in settled'
<1>1. /\ log \in Seq(Event) /\ log' \in Seq(Event)
      /\ Len(log) \in Nat /\ Len(log') \in Nat /\ Len(log) <= Len(log')
      /\ DOMAIN log = 1..Len(log) /\ DOMAIN log' = 1..Len(log')
      /\ \A i \in DOMAIN log : log'[i] = log[i]
      /\ settled' = settled \cup Ids(ops)
  BY SettleGrows, LenProperties DEF Shape, PagesOK, Arrives, Grows
<1>2. \A i \in DOMAIN log' : i > Len(log) =>
         log'[i].op \in Ids(ops) /\ log'[i].op \notin settled
  <2> SUFFICES ASSUME NEW i \in DOMAIN log', i > Len(log)
               PROVE  log'[i].op \in Ids(ops) /\ log'[i].op \notin settled
    OBVIOUS
  <2>1. PICK o \in Taken(ops) : log'[i] = EventOf(o)
    BY SettleGrows DEF Shape, PagesOK, Arrives
  <2> QED
    BY <2>1 DEF Taken, EventOf, Ids
<1>3. \A i, j \in DOMAIN log' : (i > Len(log) /\ i < j) => log'[i].op < log'[j].op
  BY SettleGrows DEF Shape, PagesOK, Arrives
<1>4. /\ settled \subseteq Nat \ {0} /\ Ids(ops) \subseteq Nat \ {0}
  BY DEF Shape, AcksOK, Edits, Arrives, Ids, Op
<1>5. \A n \in settled' : \A m \in 1..n : m \in settled'
  <2>1. \A n \in Ids(ops) : \A m \in 1..n : m \in settled'
    BY <1>1 DEF Arrives, Closed, Ids
  <2> QED
    BY <1>1, <2>1 DEF OrderInv
<1>6. \A i \in DOMAIN log' : log'[i].op > 0 => log'[i].op \in settled'
  <2> SUFFICES ASSUME NEW i \in DOMAIN log', log'[i].op > 0
               PROVE  log'[i].op \in settled'
    OBVIOUS
  <2>1. CASE i <= Len(log)
    BY <2>1, <1>1 DEF OrderInv
  <2>2. CASE i > Len(log)
    BY <2>2, <1>1, <1>2
  <2> QED
    BY <1>1, <2>1, <2>2
<1>7. EditsInOrder'
  <2> SUFFICES ASSUME NEW i \in DOMAIN log', NEW j \in DOMAIN log',
                      i < j, log'[i].op > 0, log'[j].op > 0
               PROVE  log'[i].op < log'[j].op
    BY DEF EditsInOrder
  <2>1. CASE i > Len(log)
    BY <2>1, <1>3
  <2>2. CASE j <= Len(log)
    BY <2>2, <1>1 DEF OrderInv, EditsInOrder
  <2>3. CASE i <= Len(log) /\ j > Len(log)
    <3> DEFINE n == log'[i].op  m == log'[j].op
    <3>1. n \in settled
      BY <2>3, <1>1 DEF OrderInv
    <3>2. m \in Ids(ops) /\ m \notin settled
      BY <2>3, <1>2
    <3>3. n \in Nat \ {0} /\ m \in Nat \ {0}
      BY <3>1, <3>2, <1>4
    <3>4. m \notin 1..n
      BY <3>1, <3>2 DEF OrderInv
    <3> HIDE DEF n, m
    <3>5. n < m
      BY <3>3, <3>4
    <3> QED
      BY <3>5 DEF n, m
  <2> QED
    BY <1>1, <2>1, <2>2, <2>3
<1> QED
  BY <1>5, <1>6, <1>7

LEMMA SettledGrows ==
    ASSUME Shape, [Next]_vars
    PROVE  settled \subseteq settled'
BY ServerNext DEF ServerStep, ServePush, OrphanArrives, Settle

\* The log and the decisions of the server, after any step.
LEMMA LogOrderNext ==
    ASSUME Shape, OrderInv, [Next]_vars
    PROVE  /\ EditsInOrder'
           /\ \A n \in settled' : \A m \in 1..n : m \in settled'
           /\ \A i \in DOMAIN log' : log'[i].op > 0 => log'[i].op \in settled'
<1>1. CASE UNCHANGED <<log, settled>>
  BY <1>1 DEF OrderInv, EditsInOrder
<1>2. CASE ServePush \/ \E ops \in orphans : OrphanArrives(ops)
  BY <1>2, Arrival, SettleKeepsOrder
<1>3. ASSUME UNCHANGED settled, NEW e \in Event, e.op = 0, log' = Append(log, e)
      PROVE  /\ EditsInOrder'
             /\ \A n \in settled' : \A m \in 1..n : m \in settled'
             /\ \A i \in DOMAIN log' : log'[i].op > 0 => log'[i].op \in settled'
  <2>1. /\ Len(log) \in Nat /\ DOMAIN log' = 1..(Len(log) + 1) /\ DOMAIN log = 1..Len(log)
        /\ \A i \in DOMAIN log : log'[i] = log[i]
        /\ log'[Len(log) + 1].op = 0
    BY <1>3, AppendGrows, LenProperties DEF Shape, PagesOK, Grows
  <2>2. \A i \in DOMAIN log' : log'[i].op > 0 => i \in DOMAIN log /\ log'[i] = log[i]
    BY <2>1
  <2> QED
    BY <1>3, <2>2 DEF OrderInv, EditsInOrder
<1> QED
  BY <1>1, <1>2, <1>3, ServerNext DEF ServerStep

LEMMA ForgottenNext ==
    ASSUME Shape, OrderInv, [Next]_vars
    PROVE  NoEditForgotten'
<1>1. /\ settled \subseteq settled' /\ NoEditForgotten /\ made \in Nat
  BY SettledGrows, SyncAssumption DEF OrderInv, Shape, DraftOK, SyncAssumption
<1>2. CASE SaveEdit \/ \E k \in Keys : RemoveGame(k)
  <2>1. EditStep
    BY <1>2, EditType
  <2>2. CASE UNCHANGED <<local, outbox, made>>
    BY <1>1, <2>2 DEF NoEditForgotten
  <2>3. ASSUME NEW o \in Op, o.id = made + 1, outbox' = outbox \cup {o}, made' = made + 1
        PROVE  NoEditForgotten'
    <3>1. \A n \in 1..made' : n \in 1..made \/ n = made + 1
      BY <1>1, <2>3
    <3> QED
      BY <1>1, <2>3, <3>1 DEF NoEditForgotten, Ids
  <2> QED
    BY <2>1, <2>2, <2>3 DEF EditStep
<1>3. CASE AckOutbox
  <2>1. acked \subseteq settled
    BY DEF Shape, AcksOK
  <2> QED
    BY <1>1, <1>3, <2>1 DEF AckOutbox, NoEditForgotten, Ids, history
<1>4. ASSUME UNCHANGED <<outbox, made>> PROVE NoEditForgotten'
  BY <1>1, <1>4 DEF NoEditForgotten, Ids
<1>5. ASSUME NEW k \in Keys,
             ForeignUpsert(k) \/ ForeignDelete(k) \/ ForeignDiscovery(k) \/ BeginEdit(k)
      PROVE  NoEditForgotten'
  BY <1>5, <1>4, ForeignEvent DEF BeginEdit, storage, history
<1>6. CASE StartSync \/ ServePush \/ ReceiveReply \/ \E last \in Ids(unsent) : SendBatch(last)
  BY <1>6, <1>4 DEF StartSync, ServePush, ReceiveReply, SendBatch, storage, history
<1>7. CASE BeginPull \/ Pull \/ ApplyPage \/ StoreCursor \/ StoreEcho
  BY <1>7, <1>4 DEF BeginPull, Pull, ApplyPage, StoreCursor, StoreEcho, storage, history
<1>8. CASE NoReplay \/ BeginReplay \/ CollectPage \/ ConfirmReplay \/ ReapplyPage
           \/ AbandonReplay
  BY <1>8, <1>4 DEF NoReplay, BeginReplay, CollectPage, ConfirmReplay, ReapplyPage,
      AbandonReplay, storage, history
<1>9. CASE LoseRequest \/ LoseReply \/ PullFails \/ ReplayFails \/ Crash
           \/ \E ops \in orphans : OrphanArrives(ops)
  BY <1>9, <1>4 DEF LoseRequest, LoseReply, PullFails, ReplayFails, Crash, OrphanArrives,
      Fault, storage, history
<1>a. CASE Remediate \/ RequestReset \/ ResetCursor \/ DayPasses \/ UNCHANGED vars
  BY <1>a, <1>4 DEF Remediate, RequestReset, ResetCursor, DayPasses, vars, storage, history
<1> QED
  BY <1>2, <1>3, <1>5, <1>6, <1>7, <1>8, <1>9, <1>a DEF Next, SyncStep

\* What is queued, requested or on its way stays closed.
Queue ==
    /\ Closed(unsent \cup request)
    /\ Closed(request)
    /\ pc # "pushing" => Ids(request) \subseteq settled
    /\ \A ops \in orphans : Closed(ops)

LEMMA QueueNext ==
    ASSUME Shape, OrderInv, [Next]_vars
    PROVE  Queue'
<1> USE DEF Queue, Closed, Ids
<1>1. settled \subseteq settled' /\ Queue
  BY SettledGrows DEF OrderInv
<1>2. ASSUME UNCHANGED <<unsent, request, orphans>>, pc' # "pushing" => pc # "pushing"
      PROVE  Queue'
  BY <1>1, <1>2
<1>3. ASSUME EndSync, \A ops \in orphans' : ops \in orphans \/ ops = request
      PROVE  Queue'
  BY <1>1, <1>3 DEF EndSync
<1>4. CASE SaveEdit \/ \E k \in Keys : BeginEdit(k) \/ RemoveGame(k)
  BY <1>4, <1>2 DEF SaveEdit, BeginEdit, RemoveGame, sync, server
<1>5. ASSUME NEW k \in Keys,
             ForeignUpsert(k) \/ ForeignDelete(k) \/ ForeignDiscovery(k)
      PROVE  Queue'
  BY <1>5, <1>2, ForeignEvent DEF sync
<1>6. CASE StartSync
  <2>1. \A o \in outbox : 1..o.id \subseteq 1..made
    BY SyncAssumption DEF Shape, DraftOK, OpsOK, Known, Op, Edits, SyncAssumption
  <2>2. request = {} /\ UNCHANGED <<request, settled, orphans>> /\ unsent' = outbox
    BY <1>6 DEF StartSync, server, Shape, AcksOK
  <2> QED
    BY <1>1, <2>1, <2>2 DEF OrderInv, NoEditForgotten
<1>7. ASSUME NEW last \in Ids(unsent), SendBatch(last) PROVE Queue'
  <2>1. /\ request = {} /\ UNCHANGED <<settled, orphans>>
        /\ request' = {o \in unsent : o.id <= last}
        /\ unsent' \cup request' = unsent
        /\ pc' = "pushing"
    BY <1>7 DEF SendBatch, server, Shape, AcksOK
  <2>2. \A o \in unsent : o.id \in Nat
    BY DEF Shape, OpsOK, Known, Op, Edits
  <2>3. last \in Nat
    BY <2>2
  <2>4. Closed(request)'
    BY <1>1, <2>1, <2>2, <2>3
  <2> QED
    BY <1>1, <2>1, <2>4
<1>8. CASE ServePush
  BY <1>1, <1>8 DEF ServePush, Settle
<1>9. CASE ReceiveReply
  <2>1. /\ Ids(request) \subseteq settled /\ request' = {}
        /\ UNCHANGED <<unsent, settled, orphans>>
    BY <1>1, <1>9 DEF ReceiveReply, server
  <2> QED
    BY <1>1, <2>1
<1>a. ASSUME NEW ops \in orphans, OrphanArrives(ops) PROVE Queue'
  BY <1>1, <1>a DEF OrphanArrives, sync
<1>b. CASE LoseRequest \/ LoseReply \/ PullFails \/ ReplayFails \/ Crash \/ NoReplay \/ AbandonReplay
  BY <1>b, <1>3 DEF LoseRequest, LoseReply, PullFails, ReplayFails, Crash, NoReplay,
      AbandonReplay, server
<1>c. CASE AckOutbox \/ BeginPull \/ Pull \/ ApplyPage \/ StoreCursor \/ StoreEcho
  BY <1>c, <1>2 DEF AckOutbox, BeginPull, Pull, ApplyPage, StoreCursor, StoreEcho, server
<1>d. CASE BeginReplay \/ CollectPage \/ ConfirmReplay
  BY <1>d, <1>2 DEF BeginReplay, CollectPage, ConfirmReplay, server
<1>e. CASE ReapplyPage
  <2>1. CASE Len(pages) > 1
    BY <1>e, <2>1, <1>2 DEF ReapplyPage, server
  <2>2. CASE ~(Len(pages) > 1)
    BY <1>e, <2>2, <1>3 DEF ReapplyPage, server
  <2> QED
    BY <2>1, <2>2
<1>f. CASE Remediate \/ RequestReset \/ ResetCursor \/ DayPasses \/ UNCHANGED vars
  BY <1>f, <1>2 DEF Remediate, RequestReset, ResetCursor, DayPasses, vars, sync, server
<1> QED
  BY <1>4, <1>5, <1>6, <1>7, <1>8, <1>9, <1>a, <1>b, <1>c, <1>d, <1>e, <1>f DEF Next, SyncStep

LEMMA OrderInit == Init => OrderInv
BY DEF Init, OrderInv, NoEditForgotten, EditsInOrder, Closed, Ids

LEMMA OrderNext == Shape /\ OrderInv /\ [Next]_vars => OrderInv'
BY ForgottenNext, LogOrderNext, QueueNext DEF OrderInv, Queue

LEMMA OrderHolds == Spec => [](Shape /\ OrderInv)
BY ShapeInit, ShapeNext, OrderInit, OrderNext, PTL DEF Spec

\* An edit leaves the outbox only after the server has decided on it, through
\* lost requests and replies, late requests, restarts and partial pushes.
THEOREM EditsAreKept == Spec => []NoEditForgotten
<1>1. OrderInv => NoEditForgotten
  BY DEF OrderInv
<1> QED
  BY <1>1, OrderHolds, PTL

\* The log has the edits of the device in the order they were made and each
\* of them at most once, whatever is sent again or arrives late.
THEOREM EditsStayInOrder == Spec => []EditsInOrder
<1>1. OrderInv => EditsInOrder
  BY DEF OrderInv
<1> QED
  BY <1>1, OrderHolds, PTL

-----------------------------------------------------------------------------
(* The server seen by the client is OpLedger.                              *)

\* What a step adds to the log is not about operations settled before.
LEMMA NewEventsAreNew ==
    ASSUME Shape, OrderInv, [Next]_vars
    PROVE  \A i \in DOMAIN log' : i > Len(log) /\ log'[i].op \in Edits =>
               log'[i].op \in settled' \ settled
<1>1. CASE UNCHANGED <<log, settled>>
  BY <1>1, LenProperties DEF Shape, PagesOK
<1>2. ASSUME NEW ops, Arrives(ops)
      PROVE  \A i \in DOMAIN log' : i > Len(log) => log'[i].op \in settled' \ settled
  <2> SUFFICES ASSUME NEW i \in DOMAIN log', i > Len(log)
               PROVE  log'[i].op \in settled' \ settled
    OBVIOUS
  <2>1. PICK o \in Taken(ops) : log'[i] = EventOf(o)
    BY <1>2, SettleGrows DEF Shape, PagesOK, Arrives
  <2>2. settled' = settled \cup Ids(ops)
    BY <1>2 DEF Arrives, Settle
  <2> QED
    BY <2>1, <2>2 DEF Taken, EventOf, Ids
<1>3. ASSUME NEW e \in Event, e.op = 0, log' = Append(log, e)
      PROVE  \A i \in DOMAIN log' : i > Len(log) => log'[i].op \notin Edits
  <2>1. /\ Len(log) \in Nat /\ DOMAIN log' = 1..(Len(log) + 1)
        /\ log'[Len(log) + 1].op = 0
    BY <1>3, AppendGrows, LenProperties DEF Shape, PagesOK
  <2> QED
    BY <2>1 DEF Edits
<1> QED
  BY <1>1, <1>2, <1>3, Arrival, ServerNext DEF ServerStep

LEMMA StepRefines ==
    ASSUME Shape, OrderInv, [Next]_vars, OrderInv'
    PROVE  Ledger!Settle
<1>1. /\ Len(log) \in Nat /\ DOMAIN log = 1..Len(log) /\ DOMAIN log' = 1..Len(log')
      /\ Len(log') \in Nat /\ Len(log) <= Len(log') /\ \A i \in DOMAIN log : log'[i] = log[i]
  BY LogGrows, LenProperties DEF Shape, PagesOK, Grows
<1>2. settled \subseteq settled'
  BY SettledGrows
<1>3. Logged \subseteq Logged'
  BY <1>1 DEF Logged
<1>4. \A e \in Logged' \ Logged : e.id \in DOMAIN log' /\ e.id > Len(log) /\ e.op = log'[e.id].op
                             /\ e = [id |-> e.id, op |-> e.op]
  BY <1>1 DEF Logged
<1>5. \A i \in DOMAIN log' : i > Len(log) =>
         [id |-> i, op |-> log'[i].op] \in Logged' \ Logged
  <2>1. \A e \in Logged : e.id \in DOMAIN log
    BY DEF Logged
  <2>2. \A i \in DOMAIN log' : [id |-> i, op |-> log'[i].op] \in Logged'
    BY DEF Logged
  <2> QED
    BY <1>1, <2>1, <2>2
<1>6. \A e \in Logged' \ Logged, d \in Logged' : d.id = e.id => d = e
  BY DEF Logged
<1>7. \A d, e \in Logged' \ Logged : (d.op = e.op /\ d.op \in Edits) => d = e
  <2> SUFFICES ASSUME NEW d \in Logged' \ Logged, NEW e \in Logged' \ Logged,
                      d.op = e.op, d.op \in Edits
               PROVE  d = e
    OBVIOUS
  <2>1. d.op > 0 /\ e.op > 0 /\ d.op \in Int
    BY DEF Edits
  <2>2. ~(d.id < e.id) /\ ~(e.id < d.id)
    BY <1>4, <2>1 DEF OrderInv, EditsInOrder
  <2>3. d.id = e.id
    BY <1>1, <1>4, <2>2
  <2> QED
    BY <1>4, <2>3
<1>8. \A n \in settled \cap Edits : (\E i \in DOMAIN log : log[i].op = n) <=>
                                  (\E i \in DOMAIN log' : log'[i].op = n)
  BY <1>1, NewEventsAreNew
<1>9. \A n \in Edits : (\E i \in DOMAIN log : log[i].op = n) => n \in settled
  BY DEF OrderInv, Edits
<1>a. \A n \in Edits : Verdict[n] # "none" => Verdict'[n] = Verdict[n]
  BY <1>2, <1>8 DEF Verdict
<1>b. \A n \in Edits :
         (\E e \in Logged' \ Logged : e.op = n) <=> (Verdict[n] = "none" /\ Verdict'[n] = "applied")
  <2> SUFFICES ASSUME NEW n \in Edits
               PROVE  (\E e \in Logged' \ Logged : e.op = n)
                          <=> (Verdict[n] = "none" /\ Verdict'[n] = "applied")
    OBVIOUS
  <2>1. ASSUME NEW e \in Logged' \ Logged, e.op = n
        PROVE  Verdict[n] = "none" /\ Verdict'[n] = "applied"
    BY <2>1, <1>4, NewEventsAreNew DEF Verdict
  <2>2. ASSUME Verdict[n] = "none", Verdict'[n] = "applied"
        PROVE  \E e \in Logged' \ Logged : e.op = n
    <3>1. n \notin settled
      BY <2>2 DEF Verdict
    <3>2. PICK i \in DOMAIN log' : log'[i].op = n
      BY <2>2 DEF Verdict
    <3>3. i > Len(log)
      BY <1>1, <1>9, <3>1, <3>2
    <3> QED
      BY <1>5, <3>2, <3>3
  <2> QED
    BY <2>1, <2>2
<1> QED
  BY <1>3, <1>6, <1>7, <1>a, <1>b DEF Ledger!Settle, Ledger!NewEvents, Ledger!Undecided

\* For a device that was not upgraded from the polluted version, whose log
\* starts with an event: every edit is settled at most once and for ever, and
\* the log has exactly one event for each one applied.
THEOREM ClientImplementsLedger ==
    ASSUME ~Upgraded
    PROVE  Spec => LedgerSpec
<1>1. Init => Ledger!Init
  BY ~Upgraded DEF Init, Ledger!Init, Ledger!Undecided, Verdict, Logged
<1>2. Shape /\ OrderInv /\ [Next]_vars /\ OrderInv' => [Ledger!Settle]_(Ledger!ledgerVars)
  BY StepRefines
<1> QED
  BY <1>1, <1>2, ShapeInit, ShapeNext, OrderInit, OrderNext, PTL DEF Spec, LedgerSpec, Ledger!Spec

-----------------------------------------------------------------------------
(* The cursor never runs ahead of what was applied.                        *)

LEMMA CursorInit == ~Upgraded /\ Init => CursorInv
<1>1. ~Upgraded /\ Init => remediated
  BY DEF Init
<1>2. ~Upgraded /\ Init => pc = "idle" /\ cursor = 0 /\ covered = 0
  BY DEF Init
<1> QED
  BY <1>1, <1>2 DEF CursorInv, CursorIsCovered

LEMMA CursorNext == Shape /\ CursorInv /\ [Next]_vars => CursorInv'
<1> SUFFICES ASSUME Shape, CursorInv, [Next]_vars PROVE CursorInv'
  OBVIOUS
<1> USE DEF CursorInv, CursorIsCovered
<1>1. /\ CursorInv /\ cursor \in Nat /\ covered \in Nat /\ from \in Nat
      /\ pc \in {"store", "apply"} => Len(LastPage) \in Nat
  <2>1. pc \in {"store", "apply"} => LastPage \in Seq(Event)
    BY LenProperties DEF Shape, PagesOK, LastPage
  <2> QED
    BY <2>1, LenProperties DEF Shape, StorageOK, PagesOK
<1>2. ASSUME UNCHANGED <<cursor, remediated, covered, from, pages>>,
             pc' = pc \/ pc' \notin Pulling
      PROVE  CursorInv'
  BY <1>1, <1>2 DEF LastPage, Pulling
<1>3. ASSUME EndSync, UNCHANGED <<cursor, remediated, covered>>
      PROVE  CursorInv'
  BY <1>1, <1>3 DEF EndSync
<1>4. CASE SaveEdit \/ \E k \in Keys : BeginEdit(k) \/ RemoveGame(k)
  BY <1>4, <1>2 DEF SaveEdit, BeginEdit, RemoveGame, sync, storage, history
<1>5. ASSUME NEW k \in Keys,
             ForeignUpsert(k) \/ ForeignDelete(k) \/ ForeignDiscovery(k)
      PROVE  CursorInv'
  BY <1>5, <1>2, ForeignEvent DEF sync, storage
<1>6. CASE RequestReset \/ DayPasses \/ UNCHANGED vars \/ \E ops \in orphans : OrphanArrives(ops)
  BY <1>6, <1>2 DEF RequestReset, DayPasses, OrphanArrives, vars, sync, storage, history
<1>7. CASE StartSync \/ ServePush \/ ReceiveReply \/ AckOutbox
           \/ \E last \in Ids(unsent) : SendBatch(last)
  BY <1>7, <1>2 DEF StartSync, ServePush, ReceiveReply, AckOutbox, SendBatch, storage,
      history, Pulling
<1>8. CASE LoseRequest \/ LoseReply \/ PullFails \/ ReplayFails \/ Crash \/ NoReplay \/ AbandonReplay
  BY <1>8, <1>3 DEF LoseRequest, LoseReply, PullFails, ReplayFails, Crash, NoReplay,
      AbandonReplay, Fault, storage, history
<1>9. CASE BeginReplay \/ CollectPage \/ ConfirmReplay
  BY <1>1, <1>9 DEF BeginReplay, CollectPage, ConfirmReplay, storage, history
<1>a. CASE ReapplyPage
  <2>1. CASE Len(pages) > 1
    BY <1>1, <1>a, <2>1 DEF ReapplyPage
  <2>2. CASE ~(Len(pages) > 1)
    BY <1>a, <2>2, <1>3 DEF ReapplyPage
  <2> QED
    BY <2>1, <2>2
<1>b. CASE BeginPull
  BY <1>1, <1>b DEF BeginPull, storage, history
<1>c. CASE Pull
  BY <1>1, <1>c DEF Pull, storage, history
<1>d. CASE ApplyPage
  BY <1>1, <1>d DEF ApplyPage, Larger, LastPage
<1>e. CASE StoreCursor
  BY <1>1, <1>e DEF StoreCursor, history
<1>f. CASE StoreEcho
  BY <1>1, <1>f DEF StoreEcho, history
<1>g. CASE Remediate
  BY <1>1, <1>g DEF Remediate, sync, LastPage
<1>h. CASE ResetCursor
  BY <1>1, <1>h DEF ResetCursor, sync
<1> QED
  BY <1>4, <1>5, <1>6, <1>7, <1>8, <1>9, <1>a, <1>b, <1>c, <1>d, <1>e, <1>f, <1>g, <1>h
  DEF Next, SyncStep

\* On a device that has no remediation to run the stored cursor never
\* promises more than was applied, a manual reset included.  (With the
\* remediation it does: the run on an upgraded device shows how.)
THEOREM CursorStaysCovered ==
    ASSUME ~Upgraded
    PROVE  Spec => []CursorIsCovered
<1>1. CursorInv => CursorIsCovered
  BY DEF CursorInv
<1> QED
  BY <1>1, ShapeInit, ShapeNext, CursorInit, CursorNext, PTL DEF Spec

-----------------------------------------------------------------------------
(* What a sync finds in the outbox once it has pushed.                     *)

LEMMA KnownStaysUnique ==
    ASSUME Shape, [Next]_vars, \A o, p \in Known : o.id = p.id => o = p
    PROVE  \A o, p \in Known' : o.id = p.id => o = p
<1>1. CASE Known' \subseteq Known
  BY <1>1
<1>2. ASSUME NEW o \in Op, o.id = made + 1, Known' = Known \cup {o}
      PROVE  \A p, q \in Known' : p.id = q.id => p = q
  <2>1. \A p \in Known : p.id # made + 1
    BY SyncAssumption DEF Shape, DraftOK, OpsOK, Op, Edits, SyncAssumption
  <2> QED
    BY <1>2, <2>1
<1> QED
  BY <1>1, <1>2, KnownNext

\* An operation made now has been seen by nobody.
LEMMA NewIsUnseen ==
    ASSUME Shape, NEW o, o.id = made + 1
    PROVE  Unseen(o)
<1>1. /\ made \in Nat /\ \A n \in settled : n <= made
      /\ \A ops \in orphans : \A n \in Ids(ops) : n <= made
  BY SyncAssumption DEF Shape, DraftOK, AcksOK, OpsOK, Known, Ids, SyncAssumption
<1> QED
  BY <1>1 DEF Unseen

Pushed ==
    pc # "idle" =>
        \A o \in outbox : o.key \notin Rejected =>
            o.id \in acked \cup Ids(unsent \cup request) \/ Unseen(o)

Answered == pc = "answered" => \A o \in request : o.key \notin Rejected => o.id \in reply

LEMMA OutboxInit == Init => OutboxInv
BY DEF Init, OutboxInv, Known

LEMMA OutboxNext == Shape /\ OrderInv /\ OutboxInv /\ [Next]_vars => OutboxInv'
<1> SUFFICES ASSUME Shape, OrderInv, OutboxInv, [Next]_vars PROVE OutboxInv'
  OBVIOUS
<1> USE DEF Pushed, Answered, Unseen, Ids
<1>1. Pushed /\ Answered /\ (\A o, p \in Known : o.id = p.id => o = p)
  BY DEF OutboxInv
<1>2. \A o, p \in Known' : o.id = p.id => o = p
  BY <1>1, KnownStaysUnique
<1> SUFFICES Pushed' /\ Answered'
  BY <1>2 DEF OutboxInv
<1>3. ASSUME pc' = "idle" PROVE Pushed' /\ Answered'
  BY <1>3
<1>4. ASSUME UNCHANGED <<outbox, acked, unsent, request, reply, settled, orphans>>,
             pc' = pc \/ (pc # "idle" /\ pc' # "answered")
      PROVE  Pushed' /\ Answered'
  BY <1>1, <1>4
<1>5. CASE SaveEdit \/ \E k \in Keys : RemoveGame(k)
  <2>1. EditStep /\ UNCHANGED <<pc, acked, unsent, request, reply, settled, orphans>>
    BY <1>5, EditType DEF SaveEdit, RemoveGame, sync, server
  <2>2. CASE UNCHANGED outbox
    BY <2>1, <2>2, <1>4
  <2>3. ASSUME NEW o \in Op, o.id = made + 1, outbox' = outbox \cup {o}
        PROVE  Pushed' /\ Answered'
    BY <1>1, <2>1, <2>3, NewIsUnseen
  <2> QED
    BY <2>1, <2>2, <2>3 DEF EditStep
<1>6. CASE \/ \E k \in Keys : BeginEdit(k)
           \/ Remediate \/ RequestReset \/ ResetCursor \/ DayPasses \/ UNCHANGED vars
  BY <1>6, <1>4 DEF BeginEdit, Remediate, RequestReset, ResetCursor, DayPasses, vars,
      storage, sync, server
<1>7. ASSUME NEW k \in Keys,
             ForeignUpsert(k) \/ ForeignDelete(k) \/ ForeignDiscovery(k)
      PROVE  Pushed' /\ Answered'
  BY <1>7, <1>4, ForeignEvent DEF storage, sync
<1>8. CASE StartSync
  <2>1. unsent' = outbox /\ outbox' = outbox /\ pc' \in {"begin", "send"}
    BY <1>8 DEF StartSync, storage
  <2>2. \A o \in outbox' : o.id \in Ids(unsent \cup request)'
    BY <2>1
  <2> QED
    BY <2>1, <2>2
<1>9. ASSUME NEW last \in Ids(unsent), SendBatch(last) PROVE Pushed' /\ Answered'
  <2>1. request = {}
    BY <1>9 DEF SendBatch, Shape, AcksOK
  <2>2. /\ unsent' \cup request' = unsent \cup request
        /\ UNCHANGED <<outbox, acked, settled, orphans>> /\ pc # "idle" /\ pc' = "pushing"
    BY <1>9, <2>1 DEF SendBatch, storage, server
  <2> QED
    BY <1>1, <2>2
<1>a. CASE ServePush
  <2>1. /\ settled' = settled \cup Ids(request)
        /\ UNCHANGED <<outbox, acked, unsent, request, orphans>>
        /\ reply' = Ids({o \in request : o.id \in settled \/ o.key \notin Rejected})
        /\ pc # "idle"
    BY <1>a DEF ServePush, Settle, storage
  <2> QED
    BY <1>1, <2>1
<1>b. CASE ReceiveReply
  <2>1. \A o \in outbox : o.key \notin Rejected /\ o.id \in Ids(request) => o.id \in reply
    BY <1>1, <1>b DEF ReceiveReply, Known
  <2>2. /\ acked' = acked \cup reply /\ request' = {} /\ pc # "idle"
        /\ pc' # "answered"
        /\ UNCHANGED <<outbox, unsent, settled, orphans>>
    BY <1>b DEF ReceiveReply, storage, server
  <2> QED
    BY <1>1, <2>1, <2>2
<1>c. CASE AckOutbox
  <2>1. unsent = {} /\ request = {}
    BY <1>c DEF AckOutbox, Shape, AcksOK, Sending
  <2> QED
    BY <1>1, <1>c, <2>1 DEF AckOutbox, server
<1>d. ASSUME NEW ops \in orphans, OrphanArrives(ops) PROVE Pushed' /\ Answered'
  <2>1. /\ settled' = settled \cup Ids(ops) /\ orphans' \subseteq orphans
        /\ UNCHANGED <<outbox, pc, acked, unsent, request, reply>>
    BY <1>d DEF OrphanArrives, Settle, storage, sync
  <2> QED
    BY <1>1, <2>1
<1>e. CASE LoseRequest \/ LoseReply \/ PullFails \/ ReplayFails \/ Crash \/ NoReplay \/ AbandonReplay
  BY <1>e, <1>3 DEF LoseRequest, LoseReply, PullFails, ReplayFails, Crash, NoReplay,
      AbandonReplay, EndSync
<1>f. CASE BeginPull \/ Pull \/ ApplyPage \/ StoreCursor \/ StoreEcho
  BY <1>f, <1>4 DEF BeginPull, Pull, ApplyPage, StoreCursor, StoreEcho, storage, server
<1>g. CASE BeginReplay \/ CollectPage \/ ConfirmReplay
  BY <1>g, <1>4 DEF BeginReplay, CollectPage, ConfirmReplay, storage, server
<1>h. CASE ReapplyPage
  <2>1. CASE Len(pages) > 1
    BY <1>h, <2>1, <1>4 DEF ReapplyPage, server
  <2>2. CASE ~(Len(pages) > 1)
    BY <1>h, <2>2, <1>3 DEF ReapplyPage, EndSync
  <2> QED
    BY <2>1, <2>2
<1> QED
  BY <1>5, <1>6, <1>7, <1>8, <1>9, <1>a, <1>b, <1>c, <1>d, <1>e, <1>f, <1>g, <1>h
  DEF Next, SyncStep

\* After the push what the outbox holds of a game is undecided, unless the
\* server refuses the game.
LEMMA PendingIsUndecided ==
    ASSUME Shape, OutboxInv, pc \in {"apply", "reapply"},
           NEW k \in Keys \ Rejected, Pending(k)
    PROVE  Undecided(k)
<1>1. unsent = {} /\ request = {} /\ acked = {}
  BY DEF Shape, AcksOK, Sending
<1> QED
  BY <1>1 DEF OutboxInv, Pending, Undecided, Unseen, Ids

-----------------------------------------------------------------------------
(* The pages a replay collects.                                            *)

LEMMA Times ==
    ASSUME NEW a \in Int, NEW b \in Int
    PROVE  a * b \in Int /\ (a + 1) * b = b + a * b
  OBVIOUS

LEMMA Regroup ==
    ASSUME NEW f \in Int, NEW l \in Int, NEW s \in Int, NEW p \in Int
    PROVE  f - l - p = (f - l - (s + p)) + s
  OBVIOUS

LEMMA AppendPage ==
    ASSUME NEW s \in Seq(Seq(Event)), NEW p \in Seq(Event)
    PROVE  /\ Len(Append(s, p)) = Len(s) + 1
           /\ DOMAIN Append(s, p) = 1..(Len(s) + 1)
           /\ Append(s, p)[Len(s) + 1] = p
           /\ \A i \in 1..Len(s) : Append(s, p)[i] = s[i]
BY AppendProperties, LenProperties

LEMMA TailPages ==
    ASSUME NEW s \in Seq(Seq(Event)), s # <<>>
    PROVE  /\ Len(Tail(s)) = Len(s) - 1
           /\ DOMAIN Tail(s) = 1..(Len(s) - 1)
           /\ \A i \in 1..(Len(s) - 1) : Tail(s)[i] = s[i + 1]
           /\ Head(s) = s[1] /\ Len(s) \in Nat \ {0}
BY HeadTailProperties, LenProperties, EmptySeq

LEMMA ReplayInit == Init => ReplayInv
BY DEF Init, ReplayInv, Replaying

LEMMA ReplayNext == Shape /\ CursorInv /\ ReplayInv /\ [Next]_vars => ReplayInv'
<1> SUFFICES ASSUME Shape, CursorInv, ReplayInv, [Next]_vars PROVE ReplayInv'
  OBVIOUS
<1>1. /\ log \in Seq(Event) /\ log' \in Seq(Event) /\ Grows
      /\ Len(log) \in Nat /\ Len(log') \in Nat
      /\ pages \in Seq(Seq(Event)) /\ Len(pages) \in Nat /\ DOMAIN pages = 1..Len(pages)
      /\ from \in 0..Len(log) /\ cursor \in 0..Len(log)
      /\ \A i \in DOMAIN pages : pages[i] \in Seq(Event) /\ Len(pages[i]) \in Nat
      /\ PageSize \in Nat \ {0} /\ ReplayPages \in Nat \ {0} /\ Window \in Nat
  BY LogGrows, LenProperties, ElementOfSeq, SyncAssumption
  DEF Shape, PagesOK, StorageOK, SyncAssumption
\* Pages in hand stay slices of the log.
<1>2. ASSUME pc \in Replaying, UNCHANGED <<from, pages>>
      PROVE  \A i \in DOMAIN pages' :
                 /\ Slice(log', pages'[i], StartOf(pages', from', i))
                 /\ (pc = "collect" \/ i < Len(pages')) => Len(pages'[i]) = PageSize
  <2> SUFFICES ASSUME NEW i \in DOMAIN pages
               PROVE  /\ Slice(log', pages[i], StartOf(pages, from, i))
                      /\ (pc = "collect" \/ i < Len(pages)) => Len(pages[i]) = PageSize
    BY <1>2
  <2>1. /\ Slice(log, pages[i], StartOf(pages, from, i))
        /\ (pc = "collect" \/ i < Len(pages)) => Len(pages[i]) = PageSize
    BY <1>2 DEF ReplayInv
  <2> QED
    BY <2>1, <1>1, SliceStays DEF Grows
<1>3. ASSUME UNCHANGED <<from, pages, pc, cursor, torn>> PROVE ReplayInv'
  BY <1>2, <1>3 DEF ReplayInv
<1>4. ASSUME pc' \notin Replaying, pc # "reapply", torn' = torn \/ torn' # "within"
      PROVE  ReplayInv'
  BY <1>4 DEF ReplayInv, Replaying
<1>5. ASSUME EndSync, torn' # "within" PROVE ReplayInv'
  BY <1>5 DEF ReplayInv, EndSync, Replaying
<1>6. CASE SaveEdit \/ \E k \in Keys : BeginEdit(k) \/ RemoveGame(k)
  BY <1>6, <1>3 DEF SaveEdit, BeginEdit, RemoveGame, sync, storage, history
<1>7. ASSUME NEW k \in Keys,
             ForeignUpsert(k) \/ ForeignDelete(k) \/ ForeignDiscovery(k)
      PROVE  ReplayInv'
  BY <1>7, <1>3, ForeignEvent DEF sync, storage
<1>8. CASE RequestReset \/ DayPasses \/ UNCHANGED vars \/ \E ops \in orphans : OrphanArrives(ops)
  BY <1>8, <1>3 DEF RequestReset, DayPasses, OrphanArrives, vars, sync, storage, history
<1>9. CASE Remediate
  BY <1>9, <1>3 DEF Remediate, CursorInv, sync
<1>a. CASE StartSync \/ ServePush \/ ReceiveReply \/ AckOutbox \/ ResetCursor
           \/ \E last \in Ids(unsent) : SendBatch(last)
  BY <1>a, <1>4 DEF StartSync, ServePush, ReceiveReply, AckOutbox, ResetCursor, SendBatch,
      sync, history, Replaying
<1>b. CASE BeginPull \/ Pull \/ ApplyPage \/ StoreCursor \/ StoreEcho
  BY <1>b, <1>4 DEF BeginPull, Pull, ApplyPage, StoreCursor, StoreEcho, history, Replaying
<1>c. CASE LoseRequest \/ LoseReply \/ PullFails \/ ReplayFails \/ Crash
  BY <1>c, <1>5 DEF LoseRequest, LoseReply, PullFails, ReplayFails, Crash, Fault
<1>d. CASE NoReplay \/ AbandonReplay
  BY <1>d, <1>5 DEF NoReplay, AbandonReplay, history, ReplayInv
<1>e. CASE BeginReplay
  <2>1. /\ pages = <<>> /\ UNCHANGED <<pages, cursor, torn>> /\ pc' = "collect" /\ torn # "within"
        /\ from' = Larger(0, cursor - Window)
    BY <1>e DEF BeginReplay, Shape, PagesOK, Pulling, Replaying, ReplayInv, storage, history
  <2>2. Len(pages') = 0 /\ DOMAIN pages' = {}
    BY <2>1
  <2>3. Larger(0, cursor - Window) + 0 * PageSize = Larger(0, cursor - Window)
    BY <1>1 DEF Larger
  <2> QED
    BY <1>1, <2>1, <2>2, <2>3 DEF ReplayInv, Replaying
<1>f. CASE ConfirmReplay
  <2>1. UNCHANGED <<from, pages, cursor, torn>> /\ pc = "check" /\ pc' = "reapply" /\ torn # "within"
    BY <1>f DEF ConfirmReplay, ReplayInv, storage, history
  <2> QED
    BY <2>1, <1>2 DEF ReplayInv, Replaying
<1>g. CASE CollectPage
  <2> DEFINE page == PageAfter(from)
             n    == Len(pages)
             start == Larger(0, cursor - Window)
  <2>0. page = PageAfter(from) /\ n = Len(pages) /\ start = Larger(0, cursor - Window)
    OBVIOUS
  <2> HIDE DEF page, n, start
  <2>1. /\ page \in Seq(Event) /\ Slice(log, page, from) /\ Len(page) \in Nat
        /\ Len(page) <= PageSize
        /\ Len(page) < PageSize => from + Len(page) = Len(log)
    BY <1>1, <2>0, SyncAssumption, PageIsSlice, LenProperties
  <2>2. /\ pc = "collect" /\ torn # "within" /\ UNCHANGED <<log, cursor, torn>>
        /\ pages' = IF page = <<>> THEN pages ELSE Append(pages, page)
        /\ from' = from + Len(page)
        /\ pc' = IF Len(page) < PageSize \/ n + 1 = ReplayPages THEN "check" ELSE "collect"
    BY <1>g, <2>0 DEF CollectPage, ReplayInv, server, storage, history
  <2>3. /\ from = start + n * PageSize /\ n < ReplayPages
        /\ \A i \in 1..n : Slice(log, pages[i], StartOf(pages, from, i)) /\ Len(pages[i]) = PageSize
    BY <1>1, <2>0, <2>2 DEF ReplayInv, Replaying
  <2>4. start \in Nat /\ start + ReplayPages * PageSize >= cursor
    BY <1>1, <2>0, ReplayAssumption DEF ReplayAssumption, Larger
  <2>5. ASSUME page = <<>> PROVE ReplayInv'
    <3>1. UNCHANGED <<from, pages, log>> /\ pc' = "check" /\ from = Len(log)
      BY <1>1, <2>1, <2>2, <2>5, EmptySeq
    <3>2. \A i \in DOMAIN pages' :
             Slice(log', pages'[i], StartOf(pages', from', i)) /\ Len(pages'[i]) = PageSize
      BY <1>2, <2>2, <3>1 DEF Replaying
    <3>3. cursor' <= from'
      <4>1. from' = Len(log)
        BY <3>1
      <4>2. cursor' = cursor
        BY <2>2
      <4>3. cursor <= Len(log)
        BY <1>1
      <4> QED
        BY <4>1, <4>2, <4>3
    <3> QED
      BY <2>2, <3>1, <3>2, <3>3 DEF ReplayInv, Replaying
  <2>6. ASSUME page # <<>> PROVE ReplayInv'
    <3>0. n \in Nat /\ page \in Seq(Event)
      BY <1>1, <2>1 DEF n
    <3>1. /\ pages' = Append(pages, page) /\ Len(pages') = n + 1 /\ DOMAIN pages' = 1..(n + 1)
          /\ pages'[n + 1] = page /\ \A i \in 1..n : pages'[i] = pages[i]
      BY <1>1, <2>1, <2>2, <2>6, AppendPage DEF n
    <3>2. pages'[Len(pages')] = page
      BY <3>1
    <3>b. Len(pages') = n + 1 /\ from' = from + Len(page)
      BY <2>2, <3>1
    <3>3. \A i \in 1..n : StartOf(pages', from', i) = StartOf(pages, from, i)
      <4>1. ASSUME NEW i \in 1..n
            PROVE  StartOf(pages', from', i) = from - ((n + 1) - i) * PageSize
        <5>1. StartOf(pages', from', i)
                = from' - Len(pages'[Len(pages')]) - (Len(pages') - i) * PageSize
          BY Zenon DEF StartOf
        <5>2. Len(pages'[Len(pages')]) = Len(page) /\ Len(pages') = n + 1
          BY <3>b, <3>2
        <5>3. StartOf(pages', from', i) = from' - Len(page) - ((n + 1) - i) * PageSize
          BY <5>1, <5>2, Zenon
        <5>4. ((n + 1) - i) * PageSize \in Int
          BY <3>0, <1>1
        <5>5. from' = from + Len(page) /\ from \in Int /\ Len(page) \in Int
          BY <3>b, <2>1, <1>1
        <5> QED
          BY <5>3, <5>4, <5>5
      <4>2. ASSUME NEW i \in 1..n
            PROVE  StartOf(pages, from, i) = from - PageSize - (n - i) * PageSize
        <5>1. n \in 1..n
          BY <3>0
        <5>2. Len(pages[n]) = PageSize
          BY <2>3, <5>1
        <5> QED
          BY <5>2 DEF StartOf, n
      <4>3. \A i \in 1..n : n - i \in Int /\ (n + 1) - i = (n - i) + 1
        BY <3>0
      <4>4. ASSUME NEW i \in 1..n
            PROVE  /\ ((n + 1) - i) * PageSize = PageSize + (n - i) * PageSize
                   /\ (n - i) * PageSize \in Int
        <5>1. n - i \in Int /\ PageSize \in Int /\ (n + 1) - i = (n - i) + 1
          BY <4>3, <1>1
        <5>2. ((n - i) + 1) * PageSize = PageSize + (n - i) * PageSize
          BY <5>1, Times
        <5>3. (n - i) * PageSize \in Int
          BY <5>1, Times
        <5> QED
          BY <5>1, <5>2, <5>3, Zenon
      <4> QED
        BY <1>1, <2>1, <4>1, <4>2, <4>4
    <3>4. StartOf(pages', from', n + 1) = from
      <4>1. StartOf(pages', from', n + 1) = from' - Len(page) - ((n + 1) - (n + 1)) * PageSize
        <5>1. StartOf(pages', from', n + 1)
                = from' - Len(pages'[Len(pages')]) - (Len(pages') - (n + 1)) * PageSize
          BY Zenon DEF StartOf
        <5>2. Len(pages'[Len(pages')]) = Len(page) /\ Len(pages') = n + 1
          BY <3>b, <3>2
        <5> QED
          BY <5>1, <5>2, Zenon
      <4>2. (n + 1) - (n + 1) = 0 /\ 0 * PageSize = 0
        BY <1>1, <3>0
      <4>3. StartOf(pages', from', n + 1) = from' - Len(page) - 0
        BY <4>1, <4>2, Zenon
      <4>4. from' = from + Len(page) /\ from \in Int /\ Len(page) \in Int
        BY <3>b, <2>1, <1>1
      <4> QED
        BY <4>3, <4>4
    <3>5. \A i \in 1..(n + 1) :
             /\ Slice(log', pages'[i], StartOf(pages', from', i))
             /\ i < n + 1 => Len(pages'[i]) = PageSize
      <4>1. \A i \in 1..n : Slice(log', pages'[i], StartOf(pages', from', i)) /\ Len(pages'[i]) = PageSize
        BY <2>2, <2>3, <3>1, <3>3
      <4>2. Slice(log', pages'[n + 1], StartOf(pages', from', n + 1))
        BY <2>1, <2>2, <3>1, <3>4
      <4>3. \A i \in 1..(n + 1) : i \in 1..n \/ i = n + 1
        BY <1>1 DEF n
      <4>4. ~(n + 1 < n + 1)
        BY <1>1 DEF n
      <4> QED
        BY <4>1, <4>2, <4>3, <4>4
    <3>6. (n + 1) * PageSize = PageSize + n * PageSize
      BY <1>1, <3>0, Times
    <3>7. CASE Len(page) < PageSize \/ n + 1 = ReplayPages
      <4>1. pc' = "check"
        BY <2>2, <3>7
      <4>2. cursor' <= from'
        <5>1. CASE Len(page) < PageSize
          BY <5>1, <1>1, <2>1, <2>2
        <5>2. CASE ~(Len(page) < PageSize) /\ n + 1 = ReplayPages
          <6>1. Len(page) = PageSize
            BY <5>2, <1>1, <2>1
          <6>2. from' = start + n * PageSize + PageSize
            BY <6>1, <2>2, <2>3
          <6>3. n * PageSize \in Nat
            BY <1>1 DEF n
          <6> QED
            BY <5>2, <6>2, <6>3, <1>1, <2>2, <2>4, <3>6
        <5> QED
          BY <3>7, <5>1, <5>2
      <4> QED
        BY <2>2, <3>1, <3>5, <4>1, <4>2 DEF ReplayInv, Replaying
    <3>8. CASE ~(Len(page) < PageSize \/ n + 1 = ReplayPages)
      <4>1. pc' = "collect" /\ Len(page) = PageSize
        BY <1>1, <2>1, <2>2, <3>8
      <4>2. from' = start + (n + 1) * PageSize
        <5>1. n * PageSize \in Nat
          BY <1>1 DEF n
        <5> QED
          BY <1>1, <2>2, <2>3, <2>4, <3>6, <4>1, <5>1
      <4>3. n + 1 < ReplayPages
        BY <1>1, <2>3, <3>8 DEF n
      <4>4. \A i \in 1..(n + 1) : Len(pages'[i]) = PageSize
        BY <1>1, <2>3, <3>1, <4>1 DEF n
      <4> QED
        BY <2>2, <3>1, <3>5, <4>1, <4>2, <4>3, <4>4 DEF ReplayInv, Replaying, start
    <3> QED
      BY <3>7, <3>8
  <2> QED
    BY <2>5, <2>6
<1>h. CASE ReapplyPage
  <2>1. CASE ~(Len(pages) > 1)
    <3>1. torn' # "within"
      BY <1>h, <2>1 DEF ReapplyPage
    <3> QED
      BY <1>h, <2>1, <3>1, <1>5 DEF ReapplyPage
  <2>2. CASE Len(pages) > 1
    <3> DEFINE n == Len(pages)
    <3>4. n \in Nat /\ n = Len(pages)
      BY <1>1
    <3> HIDE DEF n
    <3>1. /\ pc = "reapply" /\ pages' = Tail(pages) /\ UNCHANGED <<pc, from, log, cursor>>
      BY <1>h, <2>2 DEF ReapplyPage, server
    <3>2. /\ Len(pages') = n - 1 /\ \A i \in 1..(n - 1) : pages'[i] = pages[i + 1]
          /\ DOMAIN pages' = 1..(n - 1)
      BY <1>1, <2>2, <3>1, <3>4, EmptySeq, TailPages
    <3>3. pages'[Len(pages')] = pages[n]
      <4>1. n - 1 \in 1..(n - 1) /\ (n - 1) + 1 = n
        BY <3>4, <2>2
      <4> QED
        BY <3>2, <4>1
    <3>5. \A i \in 1..(n - 1) : StartOf(pages', from', i) = StartOf(pages, from, i + 1)
      <4>1. \A i \in 1..(n - 1) : StartOf(pages', from', i) = from - Len(pages[n]) - ((n - 1) - i) * PageSize
        BY <3>1, <3>2, <3>3 DEF StartOf
      <4>2. \A i \in 1..(n - 1) : (n - 1) - i = n - (i + 1)
        BY <3>4
      <4> QED
        BY <3>4, <4>1, <4>2 DEF StartOf
    <3>6. \A i \in 1..(n - 1) : i + 1 \in 1..n /\ (i < n - 1 => i + 1 < n)
      BY <3>4
    <3>7. \A i \in 1..n :
             /\ Slice(log, pages[i], StartOf(pages, from, i))
             /\ i < n => Len(pages[i]) = PageSize
      BY <1>1, <3>1, <3>4 DEF ReplayInv, Replaying
    <3>8. cursor' <= from'
      BY <3>1 DEF ReplayInv
    <3>9. \A i \in 1..(n - 1) :
             /\ Slice(log', pages'[i], StartOf(pages', from', i))
             /\ i < n - 1 => Len(pages'[i]) = PageSize
      BY <3>1, <3>2, <3>5, <3>6, <3>7
    <3>a. pc' = "reapply" /\ ~(pc' = "collect")
      BY <3>1
    <3>b. \A i \in DOMAIN pages' :
             /\ Slice(log', pages'[i], StartOf(pages', from', i))
             /\ (pc' = "collect" \/ i < Len(pages')) => Len(pages'[i]) = PageSize
      <4>1. DOMAIN pages' = 1..(n - 1) /\ Len(pages') = n - 1
        BY <3>2
      <4> QED
        BY <4>1, <3>9, <3>a
    <3>c. (torn = "within" => pc = "reapply")'
      BY <3>a
    <3>d. (pc \in Replaying =>
         \A i \in DOMAIN pages :
             /\ Slice(log, pages[i], StartOf(pages, from, i))
             /\ (pc = "collect" \/ i < Len(pages)) => Len(pages[i]) = PageSize)'
      BY <3>b
    <3>e. (pc = "collect" => /\ from = Larger(0, cursor - Window) + Len(pages) * PageSize
                         /\ Len(pages) < ReplayPages)'
      BY <3>a
    <3> QED
      BY <3>8, <3>c, <3>d, <3>e DEF ReplayInv
  <2> QED
    BY <2>1, <2>2
<1> QED
  BY <1>6, <1>7, <1>8, <1>9, <1>a, <1>b, <1>c, <1>d, <1>e, <1>f, <1>g, <1>h
  DEF Next, SyncStep

-----------------------------------------------------------------------------
(* The library follows the log.                                            *)

LEMMA LatestIs ==
    ASSUME NEW T \in SUBSET Nat, NEW m \in T, \A i \in T : i <= m
    PROVE  Latest(T) = m
<1>1. Latest(T) \in T /\ \A i \in T : i <= Latest(T)
  BY LatestIsLargest
<1>2. Latest(T) \in Nat /\ m \in Nat /\ Latest(T) <= m /\ m <= Latest(T)
  BY <1>1
<1> QED
  BY <1>2

\* A row is what the last change of its game says.
LEMMA LastChange ==
    ASSUME NEW page \in Seq(Event), NEW k, NEW pending, NEW before,
           NEW m \in Relevant(page, k, pending),
           \A i \in Relevant(page, k, pending) : i <= m
    PROVE  RowAfter(page, k, pending, before)
             = IF page[m].kind = "upsert" THEN page[m].row ELSE NoRow
<1>1. Relevant(page, k, pending) \in SUBSET Nat
  BY LenProperties DEF Relevant
<1>2. Latest(Relevant(page, k, pending)) = m
  BY <1>1, LatestIs
<1> QED
  BY <1>2 DEF RowAfter

\* Events of other games leave the row of a game alone.
LEMMA OthersLeaveRow ==
    ASSUME NEW l \in Seq(Event), NEW m \in Seq(Event), Len(l) <= Len(m),
           \A i \in DOMAIN l : m[i] = l[i],
           NEW k, \A i \in DOMAIN m : i > Len(l) => m[i].key # k
    PROVE  RowAfter(m, k, FALSE, NoRow) = RowAfter(l, k, FALSE, NoRow)
<1>1. /\ Len(l) \in Nat /\ Len(m) \in Nat
      /\ DOMAIN l = 1..Len(l) /\ DOMAIN m = 1..Len(m)
  BY LenProperties
<1>2. Relevant(m, k, FALSE) = Relevant(l, k, FALSE)
  <2>1. \A i \in DOMAIN m : m[i].key = k => i \in DOMAIN l
    BY <1>1
  <2>2. \A i \in DOMAIN l : i \in DOMAIN m /\ m[i] = l[i]
    BY <1>1
  <2>3. /\ Relevant(m, k, FALSE) = {i \in DOMAIN m : m[i].key = k}
        /\ Relevant(l, k, FALSE) = {i \in DOMAIN l : l[i].key = k}
    BY DEF Relevant
  <2>4. {i \in DOMAIN m : m[i].key = k} = {i \in DOMAIN l : l[i].key = k}
    BY <2>1, <2>2, Zenon
  <2> QED
    BY <2>3, <2>4
<1>3. CASE Relevant(l, k, FALSE) = {}
  BY <1>2, <1>3 DEF RowAfter
<1>4. CASE Relevant(l, k, FALSE) # {}
  <2>1. /\ Relevant(l, k, FALSE) \in SUBSET Nat
        /\ Relevant(l, k, FALSE) \subseteq DOMAIN l
        /\ \A i \in Relevant(l, k, FALSE) : i <= Len(l)
    BY <1>1 DEF Relevant
  <2>2. Latest(Relevant(l, k, FALSE)) \in DOMAIN l
    BY <1>1, <1>4, <2>1, LatestIsLargest
  <2> QED
    BY <1>2, <1>4, <2>2 DEF RowAfter
<1> QED
  BY <1>3, <1>4

\* A library that is up to date stays so when the server moves on.
LEMMA ServerKeepsLibrary ==
    ASSUME Shape, OutboxInv, ServerStep, UNCHANGED <<local, outbox>>,
           log' \in Seq(Event), Grows,
           NEW k \in Keys \ Rejected, NEW n \in 0..Len(log), Current(k, n)
    PROVE  Current(k, n)'
<1>1. /\ log \in Seq(Event) /\ Len(log) \in Nat /\ Len(log') \in Nat
      /\ DOMAIN log = 1..Len(log) /\ DOMAIN log' = 1..Len(log')
      /\ Len(log) <= Len(log') /\ \A i \in DOMAIN log : log'[i] = log[i]
  BY LenProperties DEF Shape, PagesOK, Grows
<1>2. CASE \E i \in DOMAIN log' : i > Len(log) /\ log'[i].key = k
  <2>1. ~Quiet(k, n)'
    BY <1>1, <1>2 DEF Quiet
  <2> QED
    BY <2>1 DEF Current
<1>3. CASE \A i \in DOMAIN log' : i > Len(log) => log'[i].key # k
  <2>1. ServerRow(k)' = ServerRow(k)
    <3>1. RowAfter(log', k, FALSE, NoRow) = RowAfter(log, k, FALSE, NoRow)
      <4>1. log \in Seq(Event) /\ log' \in Seq(Event) /\ Len(log) <= Len(log')
        BY <1>1
      <4>2. \A i \in DOMAIN log : log'[i] = log[i]
        BY <1>1
      <4>3. \A i \in DOMAIN log' : i > Len(log) => log'[i].key # k
        BY <1>3
      <4> QED
        BY <4>1, <4>2, <4>3, OthersLeaveRow
    <3> QED
      BY <3>1 DEF ServerRow
  <2>2. ~Quiet(k, n) => ~Quiet(k, n)'
    BY <1>1 DEF Quiet
  <2>3. ASSUME NEW o \in outbox, o.key = k, o.id \notin settled, o.id \in settled'
        PROVE  FALSE
    <3>1. ASSUME NEW ops \in {request} \cup orphans, Settle(ops) PROVE FALSE
      <4>1. ops \in SUBSET Op /\ IsFiniteSet(ops) /\ ops \subseteq Known
        BY RequestsAreOps DEF Known
      <4>2. PICK p \in ops : p.id = o.id
        BY <2>3, <3>1 DEF Settle, Ids
      <4>3. p = o
        BY <4>1, <4>2 DEF OutboxInv, Known
      <4>4. o \in Taken(ops)
        BY <2>3, <4>2, <4>3 DEF Taken
      <4>5. \E i \in DOMAIN log' : i > Len(log) /\ log'[i] = EventOf(o)
        BY <1>1, <3>1, <4>1, <4>4, SettleGrows
      <4> QED
        BY <1>3, <2>3, <4>5 DEF EventOf
    <3> QED
      BY <2>3, <3>1 DEF ServerStep, ServePush, OrphanArrives
  <2>4. Undecided(k) => Undecided(k)'
    BY <2>3 DEF Undecided
  <2> QED
    BY <2>1, <2>2, <2>4 DEF Current
<1> QED
  BY <1>2, <1>3

\* A page applied at position a brings a library that was up to date to there,
\* or to a position c before it, up to date to the end of the page.
LEMMA PageBringsUpToDate ==
    ASSUME Shape, OutboxInv, pc \in {"apply", "reapply"},
           NEW page \in Seq(Event), NEW a, Slice(log, page, a),
           NEW c \in Nat, UpToDate(Smaller(c, a)),
           NEW k \in Keys \ Rejected
    PROVE  \/ Undecided(k)
           \/ ~Quiet(k, Smaller(c, a + Len(page)))
           \/ Applied(page)[k] = ServerRow(k)
<1> SUFFICES ASSUME ~Undecided(k), Quiet(k, Smaller(c, a + Len(page)))
             PROVE  Applied(page)[k] = ServerRow(k)
  OBVIOUS
<1>1. /\ log \in Seq(Event) /\ Len(log) \in Nat /\ Len(page) \in Nat
      /\ DOMAIN log = 1..Len(log) /\ DOMAIN page = 1..Len(page)
      /\ a \in Nat /\ a + Len(page) <= Len(log)
      /\ \A j \in DOMAIN page : page[j] = log[a + j]
  BY LenProperties DEF Shape, PagesOK, Slice
<1>2. Applied(page)[k] = RowAfter(page, k, FALSE, local[k])
  <2>1. ~Pending(k)
    BY PendingIsUndecided
  <2>2. Pending(k) \in BOOLEAN
    BY DEF Pending
  <2>3. Applied(page)[k] = RowAfter(page, k, Pending(k), local[k])
    BY DEF Applied
  <2>4. Pending(k) = FALSE
    BY <2>1, <2>2
  <2> QED
    BY <2>3, <2>4
\* The changes of the game that the page does not hold come before it.
<1>3. \A i \in DOMAIN log : log[i].key = k => i <= c /\ i <= a + Len(page)
  BY <1>1 DEF Quiet, Smaller
<1>4. Relevant(page, k, FALSE) = {j \in DOMAIN page : page[j].key = k}
  BY DEF Relevant
<1>5. Relevant(log, k, FALSE) = {j \in DOMAIN log : log[j].key = k}
  BY DEF Relevant
<1>6. \A i \in DOMAIN log : (log[i].key = k /\ i > a) =>
         i - a \in DOMAIN page /\ page[i - a].key = k
  <2> SUFFICES ASSUME NEW i \in DOMAIN log, log[i].key = k, i > a
               PROVE  i - a \in DOMAIN page /\ page[i - a].key = k
    OBVIOUS
  <2>1. i - a \in DOMAIN page /\ a + (i - a) = i
    BY <1>1, <1>3
  <2> QED
    BY <1>1, <2>1
<1>7. CASE Relevant(page, k, FALSE) = {}
  <2>1. Applied(page)[k] = local[k]
    BY <1>2, <1>7 DEF RowAfter
  <2>2. \A i \in DOMAIN log : log[i].key = k => i <= c /\ i <= a
    <3>1. \A i \in DOMAIN log : ~(log[i].key = k /\ i > a)
      BY <1>6, <1>7 DEF Relevant
    <3> QED
      BY <1>1, <1>3, <3>1
  <2>3. Quiet(k, Smaller(c, a))
    BY <1>1, <2>2 DEF Quiet, Smaller
  <2> QED
    BY <2>1, <2>3 DEF UpToDate, Current
<1>8. CASE Relevant(page, k, FALSE) # {}
  <2> DEFINE j == Latest(Relevant(page, k, FALSE))
  <2>1. /\ j \in Relevant(page, k, FALSE)
        /\ \A i \in Relevant(page, k, FALSE) : i <= j
    <3>1. /\ Relevant(page, k, FALSE) \in SUBSET Nat
          /\ \A i \in Relevant(page, k, FALSE) : i <= Len(page)
      BY <1>1 DEF Relevant
    <3> QED
      BY <1>1, <1>8, <3>1, LatestIsLargest
  <2> HIDE DEF j
  <2>2. j \in DOMAIN page /\ page[j].key = k /\ page[j] = log[a + j]
    BY <1>1, <1>4, <2>1
  <2>3. a + j \in DOMAIN log /\ a + j \in Nat /\ j \in Nat \ {0}
    BY <1>1, <2>2
  <2>4. a + j \in Relevant(log, k, FALSE)
    BY <1>5, <2>2, <2>3
  <2>5. \A i \in Relevant(log, k, FALSE) : i <= a + j
    <3> SUFFICES ASSUME NEW i \in DOMAIN log, log[i].key = k PROVE i <= a + j
      BY <1>5
    <3>1. CASE i > a
      <4>1. i - a <= j
        BY <1>4, <1>6, <2>1, <3>1
      <4> QED
        BY <1>1, <2>3, <4>1
    <3>2. CASE ~(i > a)
      BY <1>1, <2>3, <3>2
    <3> QED
      BY <3>1, <3>2
  <2>6. ServerRow(k) = IF log[a + j].kind = "upsert" THEN log[a + j].row ELSE NoRow
    BY <1>1, <2>4, <2>5, LastChange DEF ServerRow
  <2>7. Applied(page)[k] = IF page[j].kind = "upsert" THEN page[j].row ELSE NoRow
    BY <1>2, <2>1, LastChange
  <2> QED
    BY <2>2, <2>6, <2>7
<1> QED
  BY <1>7, <1>8

LEMMA MarkType ==
    ASSUME Shape, ReplayInv
    PROVE  Mark \in 0..Len(log)
<1>1. cursor \in 0..Len(log) /\ Len(log) \in Nat
  BY LenProperties DEF Shape, StorageOK, PagesOK
<1>2. CASE pc = "store"
  <2>1. Slice(log, LastPage, from) /\ Len(LastPage) \in Nat /\ from \in Nat
    <3>1. LastPage \in Seq(Event)
      BY <1>2, LenProperties, EmptySeq DEF Shape, PagesOK, LastPage
    <3> QED
      BY <1>2, <3>1, LenProperties DEF Shape, PagesOK
  <2> QED
    BY <1>1, <1>2, <2>1 DEF Mark, Slice
<1>3. CASE pc # "store" /\ torn = "within"
  <2>1. pc = "reapply" /\ 1 \in DOMAIN pages
    BY <1>3, LenProperties, EmptySeq DEF ReplayInv, Shape, PagesOK
  <2>2. StartOf(pages, from, 1) \in Nat
    BY <2>1 DEF ReplayInv, Replaying, Slice
  <2> QED
    BY <1>1, <1>3, <2>2 DEF Mark, Smaller
<1>4. CASE pc # "store" /\ torn # "within"
  BY <1>1, <1>4 DEF Mark
<1> QED
  BY <1>2, <1>3, <1>4

LEMMA TornStays == [Next]_vars /\ torn = "torn" => torn' = "torn"
<1> SUFFICES ASSUME [Next]_vars, torn = "torn" PROVE torn' = "torn"
  OBVIOUS
<1>1. CASE SaveEdit \/ \E k \in Keys : BeginEdit(k) \/ RemoveGame(k)
  BY <1>1 DEF SaveEdit, BeginEdit, RemoveGame, history
<1>2. CASE \E k \in Keys : ForeignUpsert(k) \/ ForeignDelete(k) \/ ForeignDiscovery(k)
  BY <1>2 DEF ForeignUpsert, ForeignDelete, ForeignDiscovery, AppendForeign
<1>3. CASE Remediate \/ RequestReset \/ ResetCursor \/ DayPasses \/ UNCHANGED vars
           \/ \E ops \in orphans : OrphanArrives(ops)
  BY <1>3 DEF Remediate, RequestReset, ResetCursor, DayPasses, OrphanArrives, vars, history
<1>4. CASE StartSync \/ ServePush \/ ReceiveReply \/ AckOutbox
           \/ \E last \in Ids(unsent) : SendBatch(last)
  BY <1>4 DEF StartSync, ServePush, ReceiveReply, AckOutbox, SendBatch, history
<1>5. CASE BeginPull \/ Pull \/ ApplyPage \/ StoreCursor \/ StoreEcho
  BY <1>5 DEF BeginPull, Pull, ApplyPage, StoreCursor, StoreEcho, history
<1>6. CASE NoReplay \/ BeginReplay \/ CollectPage \/ ConfirmReplay \/ AbandonReplay
  BY <1>6 DEF NoReplay, BeginReplay, CollectPage, ConfirmReplay, AbandonReplay, history
<1>7. CASE ReapplyPage
  BY <1>7 DEF ReapplyPage
<1>8. CASE LoseRequest \/ LoseReply \/ PullFails \/ ReplayFails \/ Crash
  BY <1>8 DEF LoseRequest, LoseReply, PullFails, ReplayFails, Crash, Fault
<1> QED
  BY <1>1, <1>2, <1>3, <1>4, <1>5, <1>6, <1>7, <1>8 DEF Next, SyncStep

LEMMA LibraryInit == ~Upgraded /\ Init => LibraryInv
<1> SUFFICES ASSUME ~Upgraded, Init PROVE LibraryInv
  OBVIOUS
<1>1. log = <<>> /\ local = [k \in Keys |-> NoRow]
  BY DEF Init
<1>2. ASSUME NEW k \in Keys PROVE local[k] = ServerRow(k)
  <2>1. Relevant(<<>>, k, FALSE) = {}
    BY DEF Relevant
  <2> QED
    BY <1>1, <2>1 DEF ServerRow, RowAfter
<1> QED
  BY <1>2 DEF LibraryInv, UpToDate, Current

LEMMA LibraryNext ==
    Shape /\ CursorInv /\ OutboxInv /\ ReplayInv /\ LibraryInv /\ [Next]_vars => LibraryInv'
<1> SUFFICES ASSUME Shape, CursorInv, OutboxInv, ReplayInv, LibraryInv, [Next]_vars,
                    torn' # "torn"
             PROVE  UpToDate(Mark)'
  BY DEF LibraryInv
<1>1. /\ log \in Seq(Event) /\ log' \in Seq(Event) /\ Grows /\ ServerStep
      /\ Len(log) \in Nat /\ cursor \in 0..Len(log) /\ from \in 0..Len(log)
      /\ torn # "torn"
      /\ pages \in Seq(Seq(Event)) /\ Len(pages) \in Nat /\ DOMAIN pages = 1..Len(pages)
      /\ \A i \in DOMAIN pages : pages[i] \in Seq(Event) /\ Len(pages[i]) \in Nat
  BY LogGrows, ServerNext, TornStays, LenProperties, ElementOfSeq
  DEF Shape, PagesOK, StorageOK
<1>2. PICK n \in 0..Len(log) : n = Mark /\ UpToDate(n)
  BY <1>1, MarkType DEF LibraryInv
<1>3. ASSUME NEW m \in Nat, Mark' = m, \A k \in Keys \ Rejected : Current(k, m)'
      PROVE  UpToDate(Mark)'
  BY <1>3 DEF UpToDate, Current, Quiet
<1>4. ASSUME NEW m \in Nat, m <= n PROVE UpToDate(m)
  <2>1. \A k \in Keys : Quiet(k, m) => Quiet(k, n)
    BY <1>1, <1>2, <1>4, LenProperties DEF Quiet
  <2> QED
    BY <1>2, <2>1 DEF UpToDate, Current
\* The mark may fall,
<1>5. ASSUME UNCHANGED <<local, outbox, log, settled>>, NEW m \in Nat, m <= n, Mark' = m
      PROVE  UpToDate(Mark)'
  <2>1. UpToDate(m)
    BY <1>4, <1>5
  <2>2. \A k \in Keys \ Rejected : Current(k, m)'
    BY <1>5, <2>1 DEF UpToDate, Current, Undecided, Quiet, ServerRow
  <2> QED
    BY <1>3, <1>5, <2>2
\* and the server may move on.
<1>6. ASSUME UNCHANGED <<local, outbox>>, Mark' = Mark
      PROVE  UpToDate(Mark)'
  <2>1. \A k \in Keys \ Rejected : Current(k, n)'
    BY <1>1, <1>2, <1>6, ServerKeepsLibrary DEF UpToDate
  <2> QED
    BY <1>2, <1>3, <1>6, <2>1
<1>7. ASSUME torn' # "within", pc \notin {"store", "reapply"}, pc' # "store", UNCHANGED cursor
      PROVE  Mark' = Mark
  BY <1>7 DEF ReplayInv, Mark
<1>8. CASE \/ \E k \in Keys : BeginEdit(k)
           \/ RequestReset \/ DayPasses \/ UNCHANGED vars
           \/ \E ops \in orphans : OrphanArrives(ops)
  <2>1. UNCHANGED <<local, outbox, cursor, pc, from, pages, torn>>
    BY <1>8 DEF BeginEdit, RequestReset, DayPasses, OrphanArrives, vars, storage, sync, history
  <2> QED
    BY <2>1, <1>6 DEF Mark, LastPage
<1>9. ASSUME NEW k \in Keys,
             ForeignUpsert(k) \/ ForeignDelete(k) \/ ForeignDiscovery(k)
      PROVE  UpToDate(Mark)'
  <2>1. UNCHANGED <<local, outbox, cursor, pc, from, pages, torn>>
    BY <1>9, ForeignEvent DEF storage, sync
  <2> QED
    BY <2>1, <1>6 DEF Mark, LastPage
<1>a. CASE Remediate
  <2>1. UNCHANGED <<local, outbox, cursor, pc, from, pages, torn>>
    BY <1>a DEF Remediate, CursorInv, sync
  <2> QED
    BY <2>1, <1>6 DEF Mark, LastPage
<1>b. CASE SaveEdit \/ \E k \in Keys : RemoveGame(k)
  <2>1. EditStep /\ UNCHANGED <<log, settled, cursor, pc, from, pages, torn>>
    BY <1>b, EditType DEF SaveEdit, RemoveGame, sync, server
  <2>2. Mark' = Mark
    BY <2>1 DEF Mark, LastPage
  <2>3. CASE UNCHANGED <<local, outbox>>
    BY <2>2, <2>3, <1>6
  <2>4. ASSUME NEW o \in Op, o.id = made + 1, outbox' = outbox \cup {o},
               \A k \in Keys : k # o.key => local'[k] = local[k]
        PROVE  UpToDate(Mark)'
    <3>1. o.id \notin settled'
      BY <2>1, <2>4, NewIsUnseen DEF Unseen
    <3>2. ASSUME NEW k \in Keys \ Rejected PROVE Current(k, n)'
      <4>1. CASE k = o.key
        BY <2>4, <3>1, <4>1 DEF Current, Undecided
      <4>2. CASE k # o.key
        <5>1. Current(k, n) /\ local'[k] = local[k]
          BY <1>2, <2>4, <4>2 DEF UpToDate
        <5> QED
          BY <2>1, <2>4, <5>1 DEF Current, Undecided, Quiet, ServerRow
      <4> QED
        BY <4>1, <4>2
    <3> QED
      BY <1>2, <1>3, <2>2, <3>2
  <2> QED
    BY <2>1, <2>3, <2>4 DEF EditStep
<1>c. CASE \/ StartSync \/ ServePush \/ ReceiveReply \/ BeginPull \/ Pull
           \/ \E last \in Ids(unsent) : SendBatch(last)
  <2>1. /\ UNCHANGED <<local, outbox, cursor, torn>>
        /\ pc \notin {"store", "reapply"} /\ pc' # "store"
    BY <1>c DEF StartSync, ServePush, ReceiveReply, BeginPull, Pull, SendBatch, storage, history
  <2> QED
    BY <2>1, <1>6, <1>7 DEF ReplayInv
<1>d. CASE NoReplay \/ BeginReplay \/ CollectPage \/ ConfirmReplay \/ AbandonReplay
  <2>1. /\ UNCHANGED <<local, outbox, cursor, torn>>
        /\ pc \notin {"store", "reapply"} /\ pc' # "store"
    BY <1>d DEF NoReplay, BeginReplay, CollectPage, ConfirmReplay, AbandonReplay, EndSync,
        storage, history
  <2> QED
    BY <2>1, <1>6, <1>7 DEF ReplayInv
<1>e. CASE AckOutbox
  <2>1. /\ UNCHANGED <<local, log, settled, cursor, torn>> /\ pc = "ack" /\ pc' = "begin"
        /\ outbox' = {o \in outbox : o.id \notin acked}
    BY <1>e DEF AckOutbox, server, history
  <2>2. Mark' = Mark
    BY <2>1, <1>7 DEF ReplayInv
  <2>3. acked \subseteq settled
    BY DEF Shape, AcksOK
  <2>4. \A k \in Keys \ Rejected : Current(k, n)'
    BY <1>2, <2>1, <2>3 DEF UpToDate, Current, Undecided, Quiet, ServerRow
  <2> QED
    BY <1>2, <1>3, <2>2, <2>4
<1>f. CASE ResetCursor
  <2>1. /\ UNCHANGED <<local, outbox, log, settled, torn>> /\ pc = "idle" /\ pc' = "idle"
        /\ cursor' = 0
    BY <1>f DEF ResetCursor, sync, server
  <2>2. Mark' = 0
    BY <2>1 DEF Mark, ReplayInv
  <2>3. 0 \in Nat /\ 0 <= n
    BY <1>1, <1>2
  <2> QED
    BY <2>1, <2>2, <2>3, <1>5
<1>g. CASE LoseRequest \/ LoseReply \/ PullFails \/ ReplayFails \/ Crash
  <2>1. /\ UNCHANGED <<local, outbox, log, settled, cursor>> /\ pc' = "idle"
        /\ torn # "within" /\ torn' = torn
    BY <1>g DEF LoseRequest, LoseReply, PullFails, ReplayFails, Crash, Fault, EndSync,
        storage, server
  <2>2. Mark' = cursor
    BY <2>1 DEF Mark
  <2>3. cursor <= n /\ cursor \in Nat
    <3>1. pc = "store" => from = cursor /\ Len(LastPage) \in Nat
      BY <1>1, EmptySeq DEF CursorInv, Shape, PagesOK, LastPage
    <3> QED
      BY <1>1, <1>2, <2>1, <3>1 DEF Mark
  <2> QED
    BY <1>5, <2>1, <2>2, <2>3
<1>h. CASE StoreCursor \/ StoreEcho
  <2>1. /\ UNCHANGED <<local, outbox, log, settled>> /\ torn # "within" /\ torn' = torn
        /\ pc' # "store"
    BY <1>h DEF StoreCursor, StoreEcho, server, history, ReplayInv
  <2>2. Mark' = Mark
    BY <1>h, <2>1 DEF StoreCursor, StoreEcho, Mark, CursorInv
  <2> QED
    BY <2>1, <2>2, <1>6
<1>i. CASE ApplyPage
  <2>1. /\ UNCHANGED <<outbox, log, settled, from, pages, cursor, torn>>
        /\ pc = "apply" /\ pc' = "store" /\ torn # "within" /\ from = cursor
        /\ local' = Applied(LastPage)
    BY <1>i DEF ApplyPage, server, ReplayInv, CursorInv
  <2>2. /\ LastPage \in Seq(Event) /\ Slice(log, LastPage, from) /\ Len(LastPage) \in Nat
        /\ from + Len(LastPage) <= Len(log)
    BY <1>1, <2>1, EmptySeq DEF Shape, PagesOK, LastPage, Slice
  <2>3. UpToDate(Smaller(Len(log), from))
    <3>1. Smaller(Len(log), from) \in Nat /\ Smaller(Len(log), from) <= n
      BY <1>1, <1>2, <2>1 DEF Mark, Smaller
    <3> QED
      BY <3>1, <1>4
  <2>4. PICK m \in Nat : m = from + Len(LastPage)
    BY <1>1, <2>2
  <2>5. Smaller(Len(log), from + Len(LastPage)) = m
    BY <1>1, <2>2, <2>4 DEF Smaller
  <2>6. ASSUME NEW k \in Keys \ Rejected
        PROVE  Undecided(k) \/ ~Quiet(k, m) \/ Applied(LastPage)[k] = ServerRow(k)
    BY <1>1, <2>1, <2>2, <2>3, <2>5, PageBringsUpToDate
  <2>7. \A k \in Keys \ Rejected : Current(k, m)'
    BY <2>1, <2>6 DEF Current, Undecided, Quiet, ServerRow
  <2>8. Mark' = m
    BY <2>1, <2>4 DEF Mark, LastPage
  <2> QED
    BY <1>3, <2>7, <2>8
<1>j. CASE ReapplyPage
  <2> DEFINE start == StartOf(pages, from, 1)
             end == start + Len(Head(pages))
  <2>1. /\ UNCHANGED <<outbox, log, settled, cursor>> /\ pc = "reapply"
        /\ local' = Applied(Head(pages)) /\ cursor <= from
    BY <1>j DEF ReapplyPage, server, ReplayInv
  <2>2. /\ pages # <<>> /\ Head(pages) = pages[1] /\ Len(pages) \in Nat \ {0}
        /\ 1 \in DOMAIN pages
    BY <1>1, <2>1, TailPages DEF Shape, PagesOK
  <2>3. /\ Slice(log, Head(pages), start) /\ Head(pages) \in Seq(Event)
        /\ Len(Head(pages)) \in Nat
        /\ 1 < Len(pages) => Len(Head(pages)) = PageSize
    BY <1>1, <2>1, <2>2 DEF ReplayInv, Replaying
  <2>4. start \in Nat /\ end \in Nat
    BY <2>3 DEF Slice
  <2>5. UpToDate(Smaller(cursor, start))
    <3>1. Smaller(cursor, start) \in Nat /\ Smaller(cursor, start) <= n
      BY <1>1, <1>2, <2>1, <2>4 DEF Mark, Smaller
    <3> QED
      BY <3>1, <1>4
  <2>6. PICK m \in Nat : m = Smaller(cursor, end)
    BY <1>1, <2>4 DEF Smaller
  <2>7. ASSUME NEW k \in Keys \ Rejected
        PROVE  Undecided(k) \/ ~Quiet(k, m) \/ Applied(Head(pages))[k] = ServerRow(k)
    BY <1>1, <2>1, <2>3, <2>5, <2>6, PageBringsUpToDate
  <2>8. \A k \in Keys \ Rejected : Current(k, m)'
    BY <2>1, <2>7 DEF Current, Undecided, Quiet, ServerRow
  <2>9. Mark' = m
    <3>1. CASE Len(pages) > 1
      <4>1. /\ pages' = Tail(pages) /\ UNCHANGED <<pc, from>> /\ torn' = "within"
        BY <1>1, <1>j, <3>1 DEF ReapplyPage, Shape, StorageOK
      <4>2. StartOf(pages', from', 1) = end
        <5>1. start = from - Len(pages[Len(pages)]) - (Len(pages) - 1) * PageSize
          BY DEF StartOf
        <5>2. StartOf(pages', from', 1)
                = from' - Len(pages'[Len(pages')]) - (Len(pages') - 1) * PageSize
          BY DEF StartOf
        <5>3. Len(pages') = Len(pages) - 1 /\ pages'[Len(pages')] = pages[Len(pages)]
          <6>1. Len(pages) - 1 \in 1..(Len(pages) - 1) /\ (Len(pages) - 1) + 1 = Len(pages)
            BY <2>2, <3>1
          <6> QED
            BY <1>1, <2>2, <4>1, <6>1, TailPages
        <5>4. Len(pages') - 1 \in Int /\ Len(pages) - 1 = (Len(pages') - 1) + 1
          BY <5>3, <2>2
        <5>5. PageSize \in Int /\ Len(Head(pages)) = PageSize
          BY <2>3, <3>1, SyncAssumption DEF SyncAssumption
        <5>6. /\ (Len(pages') - 1) * PageSize \in Int
              /\ ((Len(pages') - 1) + 1) * PageSize = PageSize + (Len(pages') - 1) * PageSize
          BY <5>4, <5>5, Times
        <5>7. (Len(pages) - 1) * PageSize = PageSize + (Len(pages') - 1) * PageSize
          BY <5>4, <5>6, Zenon
        <5>8. Len(pages[Len(pages)]) \in Int /\ from \in Int
          BY <1>1, <2>2
        <5>9. StartOf(pages', from', 1)
                = from - Len(pages[Len(pages)]) - (Len(pages') - 1) * PageSize
          BY <4>1, <5>2, <5>3, Zenon
        <5>a. start = from - Len(pages[Len(pages)]) - (PageSize + (Len(pages') - 1) * PageSize)
          BY <5>1, <5>7, Zenon
        <5>b. end = start + PageSize
          BY <5>5
        <5>c. from - Len(pages[Len(pages)]) - (Len(pages') - 1) * PageSize
                = (from - Len(pages[Len(pages)]) - (PageSize + (Len(pages') - 1) * PageSize))
                    + PageSize
          BY <5>5, <5>6, <5>8, Regroup
        <5> HIDE DEF start, end
        <5> QED
          BY <5>9, <5>a, <5>b, <5>c, Zenon
      <4> QED
        BY <2>1, <2>6, <4>1, <4>2 DEF Mark
    <3>2. CASE ~(Len(pages) > 1)
      <4>1. pc' = "idle" /\ torn' # "within"
        BY <1>j, <3>2 DEF ReapplyPage, EndSync
      <4>2. end = from
        <5>1. Len(pages) = 1 /\ from \in Int /\ Len(pages[1]) \in Int
          BY <1>1, <2>2, <3>2
        <5>2. start = from - Len(pages[1]) - (1 - 1) * PageSize
          BY <5>1 DEF StartOf
        <5>3. (1 - 1) * PageSize = 0
          BY SyncAssumption DEF SyncAssumption
        <5> QED
          BY <2>2, <5>1, <5>2, <5>3
      <4> QED
        BY <1>1, <2>1, <2>6, <4>1, <4>2 DEF Mark, Smaller
    <3> QED
      BY <3>1, <3>2
  <2> QED
    BY <1>3, <2>8, <2>9
<1> QED
  BY <1>8, <1>9, <1>a, <1>b, <1>c, <1>d, <1>e, <1>f, <1>g, <1>h, <1>i, <1>j
  DEF Next, SyncStep

\* A device that has no remediation to run, at rest with the whole log
\* pulled, shows every game as the server holds it: whatever edits, replays,
\* resets, lost messages and restarts came before, but for games whose edits
\* the server refuses and after a replay that ended half-way.
THEOREM LibraryFollowsServer ==
    ASSUME ~Upgraded
    PROVE  Spec => []LibraryMatchesServer
<1>1. Shape /\ LibraryInv => LibraryMatchesServer
  <2> SUFFICES ASSUME Shape, LibraryInv, AtRest, torn = "never", NEW k \in Keys \ Rejected
               PROVE  local[k] = ServerRow(k)
    BY DEF LibraryMatchesServer
  <2>1. Mark = Len(log) /\ ~Undecided(k)
    BY DEF AtRest, Mark, Undecided
  <2>2. Quiet(k, Len(log))
    BY LenProperties DEF Quiet, Shape, PagesOK
  <2> QED
    BY <2>1, <2>2 DEF LibraryInv, UpToDate, Current
<1> QED
  BY <1>1, ShapeInit, ShapeNext, OrderInit, OrderNext, CursorInit, CursorNext, OutboxInit,
     OutboxNext, ReplayInit, ReplayNext, LibraryInit, LibraryNext, PTL DEF Spec

=============================================================================
