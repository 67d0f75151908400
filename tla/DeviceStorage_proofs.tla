------------------------ MODULE DeviceStorage_proofs ------------------------
(***************************************************************************)
(* Proofs about DeviceStorage, for any number of launches, edits, choices  *)
(* and failures: its types, that the cache of the preferences agrees with  *)
(* what is stored, that the user's preference survives the move, and that  *)
(* no edit is left in a database nobody will read.                         *)
(***************************************************************************)
EXTENDS DeviceStorage, FiniteSetTheorems, SequenceTheorems, TLAPS

USE DeviceAssumption DEF DeviceAssumption

WriteCall == [key : PrefKeys, value : PrefValues, before : PrefValues]
Prefs == [PrefKeys -> PrefValues]

-----------------------------------------------------------------------------
(* Types.                                                                  *)

Counted ==
    /\ edits \in 0..MaxEdits
    /\ rejected \in Nat /\ repeats \in Nat /\ strays \in Nat

\* A database is open exactly while the app is up.
Opened ==
    /\ stage = "up" <=> engine # "none"
    /\ engine = "dexie" => dexie # NoDatabase

Typed == DeviceTypeOK /\ Counted /\ Opened

PrefsTyped ==
    /\ local \in Prefs /\ native \in Prefs /\ cache \in Prefs
    /\ marked \in BOOLEAN /\ nativeOn \in BOOLEAN
    /\ writes \in Seq(WriteCall)
    /\ moving \subseteq PrefKeys
    /\ wanted \subseteq PrefValues
    /\ rejected \in Nat /\ repeats \in Nat

DataTyped ==
    /\ stage \in {"down", "copy", "mark", "clear", "open", "flag", "cleanup", "up"}
    /\ engine \in {"none", "sqlite", "dexie"}
    /\ dexie = NoDatabase \/ Cursored(dexie)
    /\ Cursored(sqlite)
    /\ server \in Seq(1..MaxEdits)
    /\ edits \in 0..MaxEdits /\ strays \in Nat
    /\ {leftover, unwound} \subseteq BOOLEAN
    /\ Opened

LEMMA TypedParts == Typed <=> PrefsTyped /\ DataTyped
BY DEF Typed, DeviceTypeOK, Counted, PrefsTyped, DataTyped, Prefs, WriteCall

LEMMA TypedInit == DeviceInit => Typed
<1> SUFFICES ASSUME DeviceInit PROVE PrefsTyped /\ DataTyped
  BY TypedParts
<1>1. NoPrefs \in Prefs /\ local \in Prefs
  <2>1. \A p \in [theme : Themes, migrated : {Unset}] : p \in Prefs
    BY DEF Prefs, PrefKeys, PrefValues
  <2> QED
    BY <2>1 DEF DeviceInit, NoPrefs, Prefs, PrefKeys, PrefValues
<1>2. PrefsTyped
  <2>1. {local["theme"]} \subseteq PrefValues
    BY <1>1 DEF Prefs, PrefKeys
  <2>2. <<>> \in Seq(WriteCall)
    OBVIOUS
  <2>3. 0 \in Nat /\ {} \subseteq PrefKeys
    OBVIOUS
  <2> HIDE DeviceAssumption DEF DeviceAssumption
  <2> QED
    BY <1>1, <2>1, <2>2, <2>3 DEF DeviceInit, PrefsTyped
<1>3. DataTyped
  <2>1. EmptyStore \in Stores /\ EmptyStore.cursor <= 0
    BY DEF EmptyStore, Stores, NoCursor
  <2>2. \A s \in [version : {1}, outbox : {{1}}, cursor : {NoCursor, 0}] :
            s \in Stores /\ s.cursor <= 0
    BY DEF Stores, NoCursor
  <2>3. server \in Seq(1..MaxEdits) /\ Len(server) = 0
    BY DEF DeviceInit
  <2>4. Cursored(dexie) /\ Cursored(sqlite)
    BY <2>1, <2>2, <2>3 DEF DeviceInit, Cursored
  <2>5. edits \in 0..MaxEdits /\ strays \in Nat /\ stage = "down" /\ engine = "none"
    BY DEF DeviceInit
  <2>6. {leftover, unwound} \subseteq BOOLEAN
    BY Zenon DEF DeviceInit
  <2>7. Opened
    BY <2>5 DEF Opened
  <2> HIDE DeviceAssumption DEF DeviceAssumption
  <2> QED
    BY <2>3, <2>4, <2>5, <2>6, <2>7 DEF DataTyped
<1> QED
  BY <1>2, <1>3

LEMMA SetItemTyped ==
    ASSUME PrefsTyped, \E k \in PrefKeys, v \in PrefValues : SetItem(k, v)
    PROVE  /\ local' \in Prefs /\ cache' \in Prefs /\ writes' \in Seq(WriteCall)
           /\ repeats' \in Nat
<1>1. PICK k \in PrefKeys, v \in PrefValues : SetItem(k, v)
  OBVIOUS
<1>2. CASE nativeOn
  <2>1. [key |-> k, value |-> v, before |-> cache[k]] \in WriteCall
    BY DEF WriteCall, PrefsTyped, Prefs
  <2>2. Append(writes, [key |-> k, value |-> v, before |-> cache[k]]) \in Seq(WriteCall)
    BY <2>1, AppendProperties DEF PrefsTyped
  <2>3. [cache EXCEPT ![k] = v] \in Prefs
    BY DEF PrefsTyped, Prefs
  <2>4. local' = local /\ cache' = [cache EXCEPT ![k] = v]
    BY <1>1, <1>2 DEF SetItem
  <2>5. writes' = Append(writes, [key |-> k, value |-> v, before |-> cache[k]])
    BY <1>1, <1>2 DEF SetItem
  <2>6. repeats' = repeats + 1 \/ repeats' = repeats
    BY <1>1, <1>2 DEF SetItem
  <2>7. repeats' \in Nat
    BY <2>6 DEF PrefsTyped
  <2> QED
    BY <2>2, <2>3, <2>4, <2>5, <2>7 DEF PrefsTyped
<1>3. CASE ~nativeOn
  BY <1>1, <1>3 DEF SetItem, PrefsTyped, Prefs
<1> QED
  BY <1>2, <1>3

LEMMA HeadTyped ==
    ASSUME PrefsTyped, writes # <<>>
    PROVE  Head(writes) \in WriteCall /\ Tail(writes) \in Seq(WriteCall)
BY HeadTailProperties DEF PrefsTyped

LEMMA PrefsTypedNext == PrefsTyped /\ [DeviceNext]_deviceVars => PrefsTyped'
<1> SUFFICES ASSUME PrefsTyped, [DeviceNext]_deviceVars PROVE PrefsTyped'
  OBVIOUS
<1>1. CASE \/ \E k \in PrefKeys : CopyKey(k)
           \/ Launch \/ Hydrate \/ Mark \/ ClearLocal \/ PreferencesFail \/ Killed
  <2>1. NoPrefs \in Prefs
    BY DEF NoPrefs, Prefs, PrefValues
  <2>2. [k \in PrefKeys |-> IF k \in moving THEN Unset ELSE local[k]] \in Prefs
    BY DEF Prefs, PrefValues, PrefsTyped
  <2>3. \A k \in PrefKeys : [native EXCEPT ![k] = local[k]] \in Prefs
    BY DEF Prefs, PrefsTyped
  <2>4. <<>> \in Seq(WriteCall)
    OBVIOUS
  <2> QED
    BY <1>1, <2>1, <2>2, <2>3, <2>4 DEF CopyKey, Launch, Hydrate, Mark, ClearLocal,
        PreferencesFail, Killed, prefVars, PrefsTyped
<1>2. CASE WriteLands
  <2>1. /\ Head(writes) \in WriteCall /\ Tail(writes) \in Seq(WriteCall)
        /\ writes # <<>> /\ writes \in Seq(WriteCall)
    BY <1>2, HeadTyped DEF WriteLands, PrefsTyped
  <2>2. \A i \in DOMAIN writes : writes[i].value \in PrefValues
    <3>1. \A i \in DOMAIN writes : writes[i] \in WriteCall
      BY <2>1
    <3> QED
      BY <3>1 DEF WriteCall
  <2>3. Head(writes).key \in PrefKeys /\ Head(writes).value \in PrefValues
    BY <2>1 DEF WriteCall
  <2>4. native' \in Prefs
    BY <1>2, <2>3 DEF WriteLands, Prefs, PrefsTyped
  <2>5. wanted' \subseteq PrefValues
    BY <1>2, <2>2, <2>3 DEF WriteLands, PrefsTyped
  <2> QED
    BY <1>2, <2>1, <2>4, <2>5 DEF WriteLands, PrefsTyped
<1>3. CASE WriteRejected
  <2>1. Head(writes) \in WriteCall /\ Tail(writes) \in Seq(WriteCall)
    BY <1>3, HeadTyped DEF WriteRejected
  <2>2. RolledBack(Head(writes)) \in Prefs
    BY <2>1 DEF RolledBack, WriteCall, Prefs, PrefsTyped
  <2> QED
    BY <1>3, <2>1, <2>2 DEF WriteRejected, PrefsTyped
<1>4. CASE OpenFresh \/ SetFlag
  <2>1. "migrated" \in PrefKeys /\ "1" \in PrefValues
    BY DEF PrefKeys, PrefValues
  <2> QED
    BY <1>4, <2>1, SetItemTyped DEF OpenFresh, SetFlag, PrefsTyped
<1>5. ASSUME NEW v \in Themes \union {Unset}, ChooseTheme(v) PROVE PrefsTyped'
  <2>1. "theme" \in PrefKeys /\ v \in PrefValues
    BY DEF PrefKeys, PrefValues
  <2> QED
    BY <1>5, <2>1, SetItemTyped DEF ChooseTheme, PrefsTyped
<1>6. CASE \/ OpenMigrated \/ Migrate \/ DeleteDexie \/ Push \/ Pull \/ Edit
           \/ DeleteFails \/ FallBackToDexie
  BY <1>6 DEF OpenMigrated, Migrate, DeleteDexie, Push, Pull, Edit, DeleteFails,
      FallBackToDexie, prefVars, PrefsTyped
<1>7. CASE UNCHANGED deviceVars
  BY <1>7 DEF deviceVars, prefVars, PrefsTyped
<1> QED
  BY <1>1, <1>2, <1>3, <1>4, <1>5, <1>6, <1>7 DEF DeviceNext, DeviceStep

(* The databases. *)

LEMMA StoresKept == 1..MaxEdits \in SUBSET Nat /\ \A s \in Stores : s # NoDatabase
OBVIOUS

LEMMA StoreTyped ==
    ASSUME DataTyped, stage = "up" PROVE Cursored(Store) /\ Store # NoDatabase
BY DEF DataTyped, Opened, Store, Cursored

\* What is written to the open database stays in its type.
LEMMA KeepTyped ==
    ASSUME DataTyped, stage = "up", \E s \in Stores : Keep(s) /\ s.cursor <= Len(server'),
           Len(server) <= Len(server'), Len(server) \in Nat, Len(server') \in Nat
    PROVE  /\ dexie' = NoDatabase \/ Cursored(dexie)'
           /\ Cursored(sqlite)'
           /\ engine = "dexie" => dexie' # NoDatabase
<1>1. PICK s \in Stores : Keep(s) /\ s.cursor <= Len(server')
  OBVIOUS
<1>2. \A t \in Stores : t.cursor <= Len(server) => t.cursor <= Len(server')
  <2> SUFFICES ASSUME NEW t \in Stores, t.cursor <= Len(server)
               PROVE  t.cursor <= Len(server')
    OBVIOUS
  <2>1. t.cursor \in Int
    BY DEF Stores, NoCursor
  <2> QED
    BY <2>1
<1>3. CASE engine = "sqlite"
  <2>1. sqlite' = s /\ dexie' = dexie
    BY <1>1, <1>3 DEF Keep
  <2> QED
    BY <1>1, <1>2, <1>3, <2>1 DEF DataTyped, Cursored
<1>4. CASE engine # "sqlite"
  <2>1. dexie' = s /\ sqlite' = sqlite
    BY <1>1, <1>4 DEF Keep
  <2> QED
    BY <1>1, <1>2, <2>1, StoresKept DEF DataTyped, Cursored
<1> QED
  BY <1>3, <1>4

\* What a pull writes.
LEMMA PulledTyped ==
    ASSUME DataTyped, stage = "up"
    PROVE  /\ [Store EXCEPT !.version = Newest(Store), !.cursor = Len(server)] \in Stores
           /\ Len(server) \in Nat
<1>1. Store \in Stores /\ server \in Seq(1..MaxEdits)
  BY StoreTyped DEF DataTyped, Cursored
<1>2. Len(server) \in Nat /\ DOMAIN server = 1..Len(server)
  BY <1>1, LenProperties
<1>3. Newest(Store) \in 0..MaxEdits
  <2>1. CASE server = <<>>
    BY <1>1, <2>1 DEF Newest, Stores
  <2>2. CASE server # <<>>
    <3>1. Len(server) \in DOMAIN server
      BY <1>1, <1>2, <2>2, EmptySeq
    <3> QED
      BY <1>1, <2>2, <3>1 DEF Newest
  <2> QED
    BY <2>1, <2>2
<1> QED
  BY <1>1, <1>2, <1>3 DEF Stores

\* The edits a batch adds, in order and each once.
LEMMA PushedTyped ==
    ASSUME NEW ops \in SUBSET (1..MaxEdits), NEW s \in Increasing(ops)
    PROVE  s \in Seq(1..MaxEdits) /\ \A e \in ops : \E i \in DOMAIN s : s[i] = e
<1>1. IsFiniteSet(1..MaxEdits)
  BY FS_Interval
<1>2. IsFiniteSet(ops)
  BY <1>1, FS_Subset
<1>3. Cardinality(ops) \in Nat
  BY <1>2, FS_CardinalityType
<1>4. s \in [1..Cardinality(ops) -> 1..MaxEdits]
  BY DEF Increasing
<1> QED
  BY <1>3, <1>4 DEF Increasing

LEMMA PushTyped ==
    ASSUME DataTyped, Push
    PROVE  /\ server' \in Seq(1..MaxEdits) /\ Len(server) <= Len(server')
           /\ Len(server) \in Nat /\ Len(server') \in Nat
           /\ \A e \in Accepted \union Store.outbox : e \in Accepted'
<1>1. Store.outbox \in SUBSET (1..MaxEdits)
  BY StoreTyped DEF Push, Cursored, Stores
<1> DEFINE new == Store.outbox \ Accepted
<1>2. new \in SUBSET (1..MaxEdits)
  BY <1>1
<1>3. PICK s \in Increasing(new) : server' = server \o s
  BY DEF Push
<1>4. s \in Seq(1..MaxEdits) /\ \A e \in new : \E i \in DOMAIN s : s[i] = e
  BY <1>2, <1>3, PushedTyped
<1>5. server \in Seq(1..MaxEdits)
  BY DEF DataTyped
<1>6. /\ server' \in Seq(1..MaxEdits) /\ Len(server') = Len(server) + Len(s)
      /\ \A i \in 1..Len(server) : server'[i] = server[i]
      /\ \A i \in 1..Len(s) : server'[Len(server) + i] = s[i]
  BY <1>3, <1>4, <1>5, ConcatProperties
<1>7. /\ Len(server) \in Nat /\ Len(s) \in Nat /\ Len(server') \in Nat
      /\ DOMAIN server = 1..Len(server) /\ DOMAIN s = 1..Len(s)
      /\ DOMAIN server' = 1..Len(server')
  BY <1>4, <1>5, <1>6, LenProperties
<1>8. ASSUME NEW e \in Accepted PROVE e \in Accepted'
  <2>1. PICK i \in 1..Len(server) : server[i] = e
    BY <1>7 DEF Accepted
  <2>2. i \in DOMAIN server' /\ server'[i] = e
    BY <2>1, <1>6, <1>7
  <2> QED
    BY <2>2 DEF Accepted
<1>9. ASSUME NEW e \in new PROVE e \in Accepted'
  <2>1. PICK i \in 1..Len(s) : s[i] = e
    BY <1>4, <1>7
  <2>2. Len(server) + i \in DOMAIN server' /\ server'[Len(server) + i] = e
    BY <2>1, <1>6, <1>7, SMTT(30)
  <2> QED
    BY <2>2 DEF Accepted
<1> QED
  BY <1>6, <1>7, <1>8, <1>9

LEMMA DataTypedNext == DataTyped /\ [DeviceNext]_deviceVars => DataTyped'
<1> SUFFICES ASSUME DataTyped, [DeviceNext]_deviceVars PROVE DataTyped'
  OBVIOUS
<1>1. CASE \/ \E k \in PrefKeys : CopyKey(k)
           \/ Launch \/ Hydrate \/ Mark \/ ClearLocal \/ PreferencesFail \/ Killed
           \/ WriteLands \/ WriteRejected
  BY <1>1, SMTT(30)
  DEF CopyKey, Launch, Hydrate, Mark, ClearLocal, PreferencesFail, Killed,
      WriteLands, WriteRejected, Reach, dataVars, counts, DataTyped, Opened, Cursored
<1>2. CASE \/ OpenMigrated \/ OpenFresh \/ SetFlag \/ DeleteFails
           \/ \E v \in Themes \union {Unset} : ChooseTheme(v)
  BY <1>2 DEF OpenMigrated, OpenFresh, SetFlag, DeleteFails, ChooseTheme, Open, Reach,
      dataVars, counts, DataTyped, Opened, Cursored
<1>3. CASE DeleteDexie
  BY <1>3 DEF DeleteDexie, Open, Reach, counts, DataTyped, Opened, Cursored
<1>4. CASE Migrate
  <2>1. Cursored(sqlite) /\ Cursored(dexie)
    BY <1>4 DEF Migrate, DataTyped
  <2>2. Migrated \in Stores /\ Migrated.cursor \in {dexie.cursor, sqlite.cursor}
    BY <2>1 DEF Migrated, Cursored, Stores
  <2>3. Cursored(Migrated)
    BY <2>1, <2>2 DEF Cursored
  <2> QED
    BY <1>4, <2>1, <2>3 DEF Migrate, Reach, counts, DataTyped, Opened, Cursored
<1>5. CASE FallBackToDexie
  <2>1. EmptyStore \in Stores /\ EmptyStore.cursor = -1
    BY DEF EmptyStore, Stores, NoCursor
  <2>2. dexie' \in Stores /\ dexie' # NoDatabase /\ dexie'.cursor <= Len(server)
    <3>1. Len(server) \in Nat
      BY LenProperties DEF DataTyped
    <3> QED
      BY <1>5, <2>1, <3>1, StoresKept DEF FallBackToDexie, DataTyped, Cursored
  <2> QED
    BY <1>5, <2>2 DEF FallBackToDexie, Open, Reach, DataTyped, Opened, Cursored
<1>6. CASE Edit
  <2>1. stage = "up" /\ Cursored(Store) /\ Len(server) \in Nat /\ edits + 1 \in 1..MaxEdits
    BY <1>6, StoreTyped, LenProperties DEF Edit, DataTyped
  <2> DEFINE s == [Store EXCEPT !.version = edits + 1, !.outbox = @ \union {edits + 1}]
  <2>2. s \in Stores /\ s.cursor = Store.cursor
    <3>1. Store.outbox \union {edits + 1} \in SUBSET (1..MaxEdits) /\ edits + 1 \in 0..MaxEdits
      BY <2>1 DEF Cursored, Stores
    <3>2. Store \in Stores
      BY <2>1 DEF Cursored
    <3> HIDE DeviceAssumption
    <3> QED
      BY <3>1, <3>2 DEF Stores
  <2>3. Keep(s) /\ server' = server
    BY <1>6 DEF Edit
  <2>4. /\ dexie' = NoDatabase \/ Cursored(dexie)'
        /\ Cursored(sqlite)' /\ (engine = "dexie" => dexie' # NoDatabase)
    <3>1. s.cursor <= Len(server') /\ Len(server) <= Len(server')
      BY <2>1, <2>2, <2>3 DEF Cursored
    <3> HIDE DEF s
    <3> QED
      BY <2>1, <2>2, <2>3, <3>1, KeepTyped
  <2> QED
    BY <1>6, <2>1, <2>4 DEF Edit, counts, DataTyped, Opened
<1>7. CASE Push
  <2>1. stage = "up" /\ Cursored(Store)
    BY <1>7, StoreTyped DEF Push
  <2> DEFINE s == [Store EXCEPT !.outbox = {}]
  <2>2. s \in Stores /\ s.cursor = Store.cursor
    BY <2>1 DEF Cursored, Stores
  <2>3. Keep(s)
    BY <1>7 DEF Push
  <2>4. /\ dexie' = NoDatabase \/ Cursored(dexie)'
        /\ Cursored(sqlite)' /\ (engine = "dexie" => dexie' # NoDatabase)
    <3>1. s.cursor <= Len(server')
      BY <1>7, <2>1, <2>2, PushTyped DEF Cursored, Stores, NoCursor
    <3> HIDE DEF s
    <3> QED
      BY <1>7, <2>1, <2>2, <2>3, <3>1, PushTyped, KeepTyped
  <2> QED
    BY <1>7, <2>4, PushTyped DEF Push, counts, DataTyped, Opened
<1>8. CASE Pull
  <2>1. stage = "up" /\ server' = server
    BY <1>8 DEF Pull
  <2> DEFINE s == [Store EXCEPT !.version = Newest(Store), !.cursor = Len(server)]
  <2>2. Len(server) \in Nat /\ s \in Stores
    BY <2>1, PulledTyped
  <2>3. Store \in Stores
    BY <2>1, StoreTyped DEF Cursored
  <2>5. s.cursor = Len(server)
    BY <2>3 DEF Stores
  <2>6. Keep(s)
    BY <1>8 DEF Pull
  <2>7. /\ dexie' = NoDatabase \/ Cursored(dexie)'
        /\ Cursored(sqlite)' /\ (engine = "dexie" => dexie' # NoDatabase)
    <3>1. s.cursor <= Len(server') /\ Len(server) <= Len(server')
      BY <2>1, <2>2, <2>5
    <3> HIDE DEF s
    <3> QED
      BY <2>1, <2>2, <2>6, <3>1, KeepTyped
  <2> QED
    BY <1>8, <2>1, <2>7 DEF Pull, counts, DataTyped, Opened
<1>9. CASE UNCHANGED deviceVars
  BY <1>9 DEF deviceVars, dataVars, DataTyped, Opened, Cursored
<1> QED
  BY <1>1, <1>2, <1>3, <1>4, <1>5, <1>6, <1>7, <1>8, <1>9 DEF DeviceNext, DeviceStep

LEMMA TypedNext == Typed /\ [DeviceNext]_deviceVars => Typed'
<1>1. PrefsTyped /\ DataTyped /\ [DeviceNext]_deviceVars => PrefsTyped' /\ DataTyped'
  BY PrefsTypedNext, DataTypedNext
<1>2. Typed' <=> PrefsTyped' /\ DataTyped'
  BY DEF Typed, DeviceTypeOK, Counted, PrefsTyped, DataTyped, Prefs, WriteCall
<1> QED
  BY <1>1, <1>2, TypedParts

LEMMA AlwaysTyped == DeviceSpec => []Typed
<1> QED
  BY TypedInit, TypedNext, PTL DEF DeviceSpec

(***************************************************************************)
(* Every variable keeps its type, and no database's cursor runs ahead of   *)
(* the server's log, whatever fails and however often the app is killed.   *)
(***************************************************************************)
THEOREM DeviceTypeCorrect == DeviceSpec => []DeviceTypeOK
<1>1. Typed => DeviceTypeOK
  BY DEF Typed
<1> QED
  BY <1>1, AlwaysTyped, PTL

-----------------------------------------------------------------------------
(* No edit is stranded.                                                    *)

\* The writes in flight of one key.
Pending(ws, k) == {i \in DOMAIN ws : ws[i].key = k}

\* The flag is set, or will be once a write has landed.
FlagComes == NextFlag = "1" \/ Pending(writes, "migrated") # {}

\* How far the move of the preferences has come, by stage.
MoveInv ==
    /\ stage \in {"copy", "mark"}
         => moving = IF marked THEN {} ELSE {k \in PrefKeys : local[k] # Unset}
    /\ stage = "mark" => ~marked /\ \A k \in moving : native[k] = local[k]
    /\ stage = "clear" => marked
    /\ stage \notin {"cleanup", "up"} => writes = <<>>

Covered(e) == e \in Accepted \/ e \in sqlite.outbox
Held(e) == Covered(e) \/ (dexie # NoDatabase /\ e \in dexie.outbox)

(* Before the flag is set, or on its way, each edit is in SQLite or with   *)
(* the server; and no session uses Dexie once it is.                       *)
StrandInv ==
    strays = 0 =>
        /\ \A e \in 1..edits : Held(e)
        /\ FlagComes \/ stage \in {"flag", "cleanup"} => \A e \in 1..edits : Covered(e)
        /\ engine = "dexie" => ~FlagComes

LEMMA MoveInit == DeviceInit => MoveInv
BY DEF DeviceInit, MoveInv

LEMMA MoveNext == Typed /\ MoveInv /\ [DeviceNext]_deviceVars => MoveInv'
<1> SUFFICES ASSUME PrefsTyped, DataTyped, MoveInv, [DeviceNext]_deviceVars PROVE MoveInv'
  BY TypedParts
<1>1. CASE \E k \in PrefKeys : CopyKey(k)
  BY <1>1 DEF CopyKey, MoveInv
<1>2. CASE Launch \/ Hydrate \/ Mark \/ ClearLocal
  BY <1>2 DEF Launch, Hydrate, Copied, Mark, ClearLocal, Reach, prefVars, MoveInv
<1>3. CASE PreferencesFail \/ Killed
  BY <1>3 DEF PreferencesFail, Killed, Reach, MoveInv
<1>4. CASE WriteLands \/ WriteRejected
  BY <1>4 DEF WriteLands, WriteRejected, MoveInv
<1>5. CASE \/ OpenMigrated \/ OpenFresh \/ Migrate \/ SetFlag \/ DeleteDexie \/ DeleteFails
           \/ FallBackToDexie
  BY <1>5 DEF OpenMigrated, OpenFresh, Migrate, SetFlag, DeleteDexie, DeleteFails,
      FallBackToDexie, Open, Reach, prefVars, MoveInv
<1>6. CASE Edit \/ Push \/ Pull \/ \E v \in Themes \union {Unset} : ChooseTheme(v)
  BY <1>6 DEF Edit, Push, Pull, ChooseTheme, prefVars, MoveInv
<1>7. CASE UNCHANGED deviceVars
  BY <1>7 DEF deviceVars, prefVars, MoveInv
<1> QED
  BY <1>1, <1>2, <1>3, <1>4, <1>5, <1>6, <1>7 DEF DeviceNext, DeviceStep

\* The writes left once the oldest has settled were in flight before.
LEMMA TailPending ==
    ASSUME NEW ws \in Seq(WriteCall), ws # <<>>
    PROVE  /\ Tail(ws) \in Seq(WriteCall) /\ DOMAIN ws = 1..Len(ws) /\ Len(ws) \in Nat \ {0}
           /\ Head(ws) = ws[1] /\ ws[1] \in WriteCall
           /\ DOMAIN Tail(ws) = 1..(Len(ws) - 1)
           /\ \A i \in DOMAIN Tail(ws) : i + 1 \in DOMAIN ws /\ Tail(ws)[i] = ws[i + 1]
           /\ \A i \in DOMAIN ws : i # 1 => i - 1 \in DOMAIN Tail(ws) /\ Tail(ws)[i - 1] = ws[i]
<1>1. ws \in Seq(WriteCall) /\ Len(ws) \in Nat /\ DOMAIN ws = 1..Len(ws) /\ Len(ws) # 0
  BY LenProperties, EmptySeq
<1>2. /\ Tail(ws) \in Seq(WriteCall) /\ Head(ws) = ws[1] /\ Head(ws) \in WriteCall
      /\ Len(Tail(ws)) = Len(ws) - 1 /\ \A i \in 1..Len(Tail(ws)) : Tail(ws)[i] = ws[i + 1]
  BY <1>1, HeadTailProperties
<1>3. DOMAIN Tail(ws) = 1..(Len(ws) - 1)
  BY <1>2, LenProperties
<1> QED
  BY <1>1, <1>2, <1>3, SMTT(30)

\* ... and those after one is added are the old ones and the new one.
LEMMA AppendPending ==
    ASSUME NEW ws \in Seq(WriteCall), NEW w \in WriteCall
    PROVE  /\ Append(ws, w) \in Seq(WriteCall)
           /\ Len(ws) \in Nat /\ DOMAIN ws = 1..Len(ws)
           /\ DOMAIN Append(ws, w) = 1..(Len(ws) + 1)
           /\ Append(ws, w)[Len(ws) + 1] = w
           /\ \A i \in DOMAIN ws : Append(ws, w)[i] = ws[i]
<1>1. Append(ws, w) \in Seq(WriteCall) /\ Len(Append(ws, w)) = Len(ws) + 1
  BY AppendProperties
<1> QED
  BY <1>1, AppendProperties, LenProperties

\* Only the end of a migration, or a fresh install, sets the flag.
LEMMA FlagNext ==
    PrefsTyped /\ MoveInv /\ FlagComes' /\ [DeviceNext]_deviceVars
        => FlagComes \/ OpenFresh \/ SetFlag
<1> SUFFICES ASSUME PrefsTyped, MoveInv, FlagComes', [DeviceNext]_deviceVars
             PROVE  FlagComes \/ OpenFresh \/ SetFlag
  OBVIOUS
<1> "migrated" \in PrefKeys /\ "theme" \in PrefKeys /\ "theme" # "migrated"
  BY DEF PrefKeys
<1>1. ASSUME NEW k \in PrefKeys, CopyKey(k) PROVE FlagComes
  <2>1. ~marked /\ local[k] # Unset /\ writes' = writes /\ local' = local /\ marked' = marked
    BY <1>1 DEF CopyKey, MoveInv
  <2>2. native' = [native EXCEPT ![k] = local[k]]
    BY <1>1 DEF CopyKey
  <2>3. NextFlag' = NextFlag
    BY <2>1, <2>2 DEF NextFlag, PrefsTyped, Prefs
  <2> QED
    BY <2>1, <2>3 DEF FlagComes
<1>2. CASE Mark
  <2>1. NextFlag' = NextFlag /\ writes' = writes
    BY <1>2 DEF Mark, NextFlag, MoveInv
  <2> QED
    BY <2>1 DEF FlagComes
<1>3. CASE ClearLocal
  <2>1. NextFlag' = NextFlag /\ writes' = writes
    BY <1>3 DEF ClearLocal, NextFlag, MoveInv
  <2> QED
    BY <2>1 DEF FlagComes
<1>4. CASE WriteLands \/ WriteRejected
  <2>1. writes \in Seq(WriteCall) /\ writes # <<>> /\ writes' = Tail(writes)
    BY <1>4 DEF WriteLands, WriteRejected, PrefsTyped
  <2>2. Pending(Tail(writes), "migrated") # {} => Pending(writes, "migrated") # {}
    BY <2>1, TailPending DEF Pending
  <2>3. CASE Head(writes).key = "migrated"
    <3>1. 1 \in Pending(writes, "migrated")
      BY <2>1, <2>3, TailPending DEF Pending
    <3> QED
      BY <3>1 DEF FlagComes
  <2>4. CASE Head(writes).key # "migrated"
    <3>1. native'["migrated"] = native["migrated"]
      BY <1>4, <2>4 DEF WriteLands, WriteRejected, PrefsTyped, Prefs
    <3>2. NextFlag' = NextFlag
      BY <1>4, <3>1 DEF WriteLands, WriteRejected, NextFlag
    <3> QED
      BY <2>1, <2>2, <3>2 DEF FlagComes
  <2> QED
    BY <2>3, <2>4
<1>5. ASSUME NEW v \in Themes \union {Unset}, ChooseTheme(v) PROVE FlagComes
  <2>1. SetItem("theme", v) /\ native' = native /\ marked' = marked
    BY <1>5 DEF ChooseTheme
  <2>2. CASE nativeOn
    <3> DEFINE w == [key |-> "theme", value |-> v, before |-> cache["theme"]]
    <3>1. writes' = Append(writes, w) /\ local' = local
      BY <2>1, <2>2 DEF SetItem
    <3>2. w \in WriteCall /\ writes \in Seq(WriteCall) /\ w.key # "migrated"
      BY DEF WriteCall, PrefsTyped, Prefs, PrefValues
    <3>3. Pending(writes', "migrated") # {} => Pending(writes, "migrated") # {}
      <4> HIDE DEF w
      <4>1. /\ DOMAIN writes' = 1..(Len(writes) + 1) /\ writes'[Len(writes) + 1] = w
            /\ Len(writes) \in Nat /\ DOMAIN writes = 1..Len(writes)
            /\ \A i \in DOMAIN writes : writes'[i] = writes[i]
        BY <3>1, <3>2, AppendPending
      <4> QED
        BY <3>2, <4>1 DEF Pending
    <3>4. NextFlag' = NextFlag
      BY <2>1, <3>1 DEF NextFlag
    <3> QED
      BY <3>3, <3>4 DEF FlagComes
  <2>3. CASE ~nativeOn
    <3>1. writes' = writes /\ local'["migrated"] = local["migrated"]
      BY <2>1, <2>3 DEF SetItem, PrefsTyped, Prefs
    <3>2. NextFlag' = NextFlag
      BY <2>1, <3>1 DEF NextFlag
    <3> QED
      BY <3>1, <3>2 DEF FlagComes
  <2> QED
    BY <2>2, <2>3
<1>6. CASE Killed
  <2>1. NextFlag' = NextFlag /\ Pending(writes', "migrated") = {}
    BY <1>6 DEF Killed, NextFlag, Pending
  <2> QED
    BY <2>1 DEF FlagComes
<1>7. CASE \/ Launch \/ Hydrate \/ PreferencesFail \/ OpenMigrated \/ Migrate \/ DeleteDexie
           \/ DeleteFails \/ FallBackToDexie \/ Edit \/ Push \/ Pull
           \/ UNCHANGED deviceVars
  <2>1. NextFlag' = NextFlag /\ writes' = writes
    BY <1>7 DEF Launch, Hydrate, PreferencesFail, OpenMigrated, Migrate, DeleteDexie,
        DeleteFails, FallBackToDexie, Edit, Push, Pull, deviceVars, prefVars, NextFlag
  <2> QED
    BY <2>1 DEF FlagComes
<1> QED
  BY <1>1, <1>2, <1>3, <1>4, <1>5, <1>6, <1>7 DEF DeviceNext, DeviceStep

\* Writing to the open database hides no edit that its new outbox or the server holds.
LEMMA KeptHeld ==
    ASSUME DataTyped, stage = "up", \A e \in Accepted : e \in Accepted',
           \E s \in Stores : Keep(s) /\ \A e \in Store.outbox : e \in s.outbox \/ e \in Accepted'
    PROVE  /\ \A e : Covered(e) => Covered(e)'
           /\ \A e : Held(e) => Held(e)'
<1>1. PICK s \in Stores :
         Keep(s) /\ \A e \in Store.outbox : e \in s.outbox \/ e \in Accepted'
  OBVIOUS
<1>2. CASE engine = "sqlite"
  <2>1. sqlite' = s /\ dexie' = dexie /\ Store = sqlite
    BY <1>1, <1>2 DEF Keep, Store
  <2> QED
    BY <1>1, <2>1 DEF Covered, Held
<1>3. CASE engine # "sqlite"
  <2>1. dexie' = s /\ sqlite' = sqlite /\ Store = dexie /\ s # NoDatabase
    BY <1>1, <1>3, StoresKept DEF Keep, Store
  <2> QED
    BY <1>1, <2>1 DEF Covered, Held
<1> QED
  BY <1>2, <1>3

LEMMA StrandInit == DeviceInit => StrandInv
<1> SUFFICES ASSUME DeviceInit PROVE StrandInv
  OBVIOUS
<1>1. dexie # NoDatabase
  BY TypedInit, TypedParts DEF DeviceInit, DataTyped, Stores
<1>2. ~FlagComes /\ stage = "down" /\ engine = "none" /\ edits = 1 /\ dexie.outbox = {1}
  <2>1. local["migrated"] = Unset /\ native["migrated"] = Unset /\ writes = <<>>
    BY DEF DeviceInit, NoPrefs, PrefKeys
  <2> QED
    BY <2>1 DEF DeviceInit, FlagComes, NextFlag, Pending
<1> QED
  BY <1>1, <1>2 DEF StrandInv, Held

LEMMA StrandNext ==
    Typed /\ MoveInv /\ StrandInv /\ [DeviceNext]_deviceVars => StrandInv'
<1> SUFFICES ASSUME PrefsTyped, DataTyped, MoveInv, StrandInv, [DeviceNext]_deviceVars,
                    strays' = 0
             PROVE  /\ \A e \in (1..edits)' : Held(e)'
                    /\ (FlagComes \/ stage \in {"flag", "cleanup"})'
                         => \A e \in (1..edits)' : Covered(e)'
                    /\ engine' = "dexie" => ~FlagComes'
  BY TypedParts DEF StrandInv
<1>0. FlagComes' => FlagComes \/ OpenFresh \/ SetFlag
  BY FlagNext
<1>1. CASE \/ \E k \in PrefKeys : CopyKey(k)
           \/ Launch \/ Hydrate \/ Mark \/ ClearLocal \/ PreferencesFail \/ Killed
           \/ WriteLands \/ WriteRejected \/ OpenMigrated \/ DeleteFails
           \/ \E v \in Themes \union {Unset} : ChooseTheme(v)
           \/ UNCHANGED deviceVars
  <2>1. /\ UNCHANGED <<dexie, sqlite, server, edits, strays>>
        /\ stage' \in {"flag", "cleanup"} => stage' = stage
        /\ engine' = "dexie" => engine = "dexie"
    BY <1>1 DEF CopyKey, Launch, Hydrate, Mark, ClearLocal, PreferencesFail, Killed,
        WriteLands, WriteRejected, OpenMigrated, DeleteFails, ChooseTheme, deviceVars,
        Reach, Open, dataVars, counts
  <2>2. (~OpenFresh /\ ~SetFlag) \/ UNCHANGED deviceVars
    BY <1>1 DEF CopyKey, Launch, Hydrate, Mark, ClearLocal, PreferencesFail, Killed,
        WriteLands, WriteRejected, OpenMigrated, DeleteFails, ChooseTheme, OpenFresh, SetFlag,
        Reach, Open
  <2>3. (\A e : Held(e)' = Held(e)) /\ \A e : Covered(e)' = Covered(e)
    BY <2>1 DEF Held, Covered, Accepted
  <2>4. FlagComes' => FlagComes
    BY <1>0, <2>2 DEF deviceVars, prefVars, FlagComes, NextFlag
  <2> QED
    BY <2>1, <2>3, <2>4 DEF StrandInv
<1>2. CASE OpenFresh \/ SetFlag
  <2>1. /\ UNCHANGED <<dexie, sqlite, server, edits, strays>> /\ engine' # "dexie"
        /\ stage = "flag" \/ dexie = NoDatabase
    BY <1>2 DEF OpenFresh, SetFlag, Open, dataVars, counts, DataTyped, Opened
  <2>2. \A e \in 1..edits : Covered(e)
    BY <2>1 DEF StrandInv, Held
  <2>3. \A e : Covered(e)' = Covered(e)
    BY <2>1 DEF Covered, Accepted
  <2> QED
    BY <2>1, <2>2, <2>3 DEF Held
<1>3. CASE Migrate
  <2>1. /\ UNCHANGED <<dexie, server, edits, strays>> /\ engine' # "dexie"
        /\ dexie # NoDatabase /\ sqlite' = Migrated
    BY <1>3 DEF Migrate, counts, DataTyped, Opened
  <2>2. sqlite'.outbox = sqlite.outbox \union dexie.outbox
    BY <2>1 DEF Migrated
  <2>3. \A e : Held(e) => Covered(e)'
    BY <2>1, <2>2 DEF Held, Covered, Accepted
  <2> QED
    BY <2>1, <2>3 DEF StrandInv, Held
<1>4. CASE DeleteDexie
  <2>1. /\ UNCHANGED <<sqlite, server, edits, strays>> /\ engine' # "dexie"
        /\ stage = "cleanup"
    BY <1>4 DEF DeleteDexie, Open, counts
  <2>2. \A e \in 1..edits : Covered(e)
    BY <2>1 DEF StrandInv
  <2>3. \A e : Covered(e)' = Covered(e)
    BY <2>1 DEF Covered, Accepted
  <2> QED
    BY <2>1, <2>2, <2>3 DEF Held
<1>5. CASE FallBackToDexie
  <2>1. /\ UNCHANGED <<prefVars, sqlite, server, edits>> /\ stage = "open" /\ stage' = "up"
        /\ dexie' = IF dexie = NoDatabase THEN EmptyStore ELSE dexie
    BY <1>5 DEF FallBackToDexie, Open, Reach
  <2>2. strays = 0 /\ NextFlag # "1"
    BY <1>5 DEF FallBackToDexie, DataTyped
  <2>3. ~FlagComes /\ FlagComes' = FlagComes
    BY <2>1, <2>2 DEF FlagComes, MoveInv, Pending, prefVars, NextFlag
  <2>4. \A e : Held(e) => Held(e)'
    BY <2>1 DEF Held, Covered, Accepted
  <2> QED
    BY <2>1, <2>2, <2>3, <2>4 DEF StrandInv
<1>6. CASE Edit
  <2>1. /\ stage = "up" /\ stage' = "up" /\ server' = server /\ engine' = engine
        /\ UNCHANGED prefVars /\ strays' = strays /\ edits' = edits + 1
        /\ Cursored(Store) /\ Store # NoDatabase /\ edits + 1 \in 1..MaxEdits /\ edits \in Nat
    BY <1>6, StoreTyped DEF Edit, counts, DataTyped
  <2> DEFINE s == [Store EXCEPT !.version = edits + 1, !.outbox = @ \union {edits + 1}]
  <2>2. /\ s \in Stores /\ edits + 1 \in s.outbox /\ \A e \in Store.outbox : e \in s.outbox
    <3>1. Store.outbox \union {edits + 1} \in SUBSET (1..MaxEdits) /\ edits + 1 \in 0..MaxEdits
      BY <2>1 DEF Cursored, Stores
    <3>2. Store \in Stores
      BY <2>1 DEF Cursored
    <3> HIDE DeviceAssumption
    <3> QED
      BY <3>1, <3>2 DEF Stores
  <2>3. Keep(s)
    BY <1>6 DEF Edit
  <2>4. FlagComes' = FlagComes
    BY <2>1 DEF FlagComes, NextFlag, Pending, prefVars
  <2>5. (\A e : Covered(e) => Covered(e)') /\ (\A e : Held(e) => Held(e)')
    <3> HIDE DEF s
    <3>1. \A e \in Accepted : e \in Accepted'
      BY <2>1 DEF Accepted
    <3> QED
      BY <2>1, <2>2, <2>3, <3>1, KeptHeld
  <2>6. ASSUME NEW e, e = edits + 1
        PROVE  Held(e)' /\ (engine # "dexie" => Covered(e)')
    <3> HIDE DEF s
    <3>1. CASE engine = "sqlite"
      <4>1. sqlite' = s /\ e \in s.outbox
        BY <2>2, <2>3, <2>6, <3>1 DEF Keep
      <4> QED
        BY <4>1 DEF Held, Covered
    <3>2. CASE engine = "dexie"
      <4>1. dexie' = s /\ e \in s.outbox /\ s # NoDatabase
        BY <2>2, <2>3, <2>6, <3>2, StoresKept DEF Keep
      <4> QED
        BY <3>2, <4>1 DEF Held
    <3> QED
      BY <2>1, <3>1, <3>2 DEF DataTyped, Opened
  <2>7. \A e \in (1..edits)' : e \in 1..edits \/ e = edits + 1
    BY <2>1
  <2> QED
    BY <2>1, <2>4, <2>5, <2>6, <2>7 DEF StrandInv, DataTyped
<1>7. CASE Push \/ Pull
  <2>1. /\ stage = "up" /\ stage' = "up" /\ engine' = engine /\ edits' = edits
        /\ UNCHANGED prefVars /\ strays' = strays
        /\ Cursored(Store) /\ Store # NoDatabase
    BY <1>7, StoreTyped DEF Push, Pull, counts
  <2>2. FlagComes' = FlagComes
    BY <2>1 DEF FlagComes, NextFlag, Pending, prefVars
  <2>3. (\A e : Covered(e) => Covered(e)') /\ (\A e : Held(e) => Held(e)')
    <3>1. CASE Push
      <4> DEFINE s == [Store EXCEPT !.outbox = {}]
      <4>1. s \in Stores /\ Keep(s)
        BY <2>1, <3>1 DEF Push, Cursored, Stores
      <4>2. \A e \in Accepted \union Store.outbox : e \in Accepted'
        BY <3>1, PushTyped
      <4> HIDE DEF s
      <4> QED
        BY <2>1, <4>1, <4>2, KeptHeld
    <3>2. CASE Pull
      <4>1. server' = server /\ Store \in Stores
        BY <2>1, <3>2 DEF Pull, Cursored
      <4> DEFINE s == [Store EXCEPT !.version = Newest(Store), !.cursor = Len(server)]
      <4>2. s \in Stores
        BY <2>1, PulledTyped
      <4>3. s.outbox = Store.outbox
        BY <4>1 DEF Stores
      <4>5. Keep(s) /\ \A e \in Accepted : e \in Accepted'
        BY <3>2, <4>1 DEF Pull, Accepted
      <4> HIDE DEF s
      <4> QED
        BY <2>1, <4>2, <4>3, <4>5, KeptHeld
    <3> QED
      BY <1>7, <3>1, <3>2
  <2> QED
    BY <2>1, <2>2, <2>3 DEF StrandInv
<1> QED
  BY <1>1, <1>2, <1>3, <1>4, <1>5, <1>6, <1>7 DEF DeviceNext, DeviceStep

(***************************************************************************)
(* No edit is left where nobody will read it, after any number of          *)
(* launches, kills and failures: only a session that fell back to Dexie    *)
(* while the next launch would take the data for migrated can strand one.  *)
(***************************************************************************)
THEOREM EditsAreNotStranded == DeviceSpec => []NoEditIsStranded
<1>1. MoveInv /\ StrandInv /\ Typed => NoEditIsStranded
  <2>1. Typed => strays \in Nat
    BY DEF Typed, Counted
  <2>2. NextFlag = "1" => FlagComes
    BY DEF FlagComes
  <2> QED
    BY <2>1, <2>2 DEF StrandInv, NoEditIsStranded, Held, Covered
<1>2. DeviceInit => MoveInv /\ StrandInv
  BY MoveInit, StrandInit
<1>3. Typed /\ MoveInv /\ StrandInv /\ [DeviceNext]_deviceVars => (MoveInv /\ StrandInv)'
  BY MoveNext, StrandNext
<1> QED
  BY <1>1, <1>2, <1>3, AlwaysTyped, PTL DEF DeviceSpec

-----------------------------------------------------------------------------
(* The cache of the preferences.  For a queue ws of writes in flight, a    *)
(* cache c and what Preferences hold, n.                                   *)

First(ws, i) == \A j \in DOMAIN ws : ws[j].key = ws[i].key => i <= j
Last(ws, i) == \A j \in DOMAIN ws : ws[j].key = ws[i].key => j <= i
Follows(ws, i, j) ==
    /\ i < j /\ ws[i].key = ws[j].key
    /\ \A l \in DOMAIN ws : ws[l].key = ws[j].key => l <= i \/ j <= l

\* Of each key the cache shows the last write in flight, else what is stored.
ShowsKey(ws, c, n, k) ==
    \/ (\A i \in DOMAIN ws : ws[i].key # k) /\ c[k] = n[k]
    \/ \E i \in DOMAIN ws : ws[i].key = k /\ Last(ws, i) /\ c[k] = ws[i].value
Shows(ws, c, n) == \A k \in PrefKeys : ShowsKey(ws, c, n, k)

\* Each write remembers the value it will find when it settles.
Chained(ws, n) ==
    /\ \A i \in DOMAIN ws : First(ws, i) => ws[i].before = n[ws[i].key]
    /\ \A i, j \in DOMAIN ws : Follows(ws, i, j) => ws[j].before = ws[i].value

\* No two writes in flight are of the same value.
Distinct(ws) ==
    \A i, j \in DOMAIN ws : i # j /\ ws[i].key = ws[j].key => ws[i].value # ws[j].value

LEMMA ShowsAdded ==
    ASSUME NEW ws \in Seq(WriteCall), NEW w \in WriteCall, NEW c \in Prefs, NEW n \in Prefs,
           Shows(ws, c, n)
    PROVE  Shows(Append(ws, w), [c EXCEPT ![w.key] = w.value], n)
<1> DEFINE vs == Append(ws, w)
           d == [c EXCEPT ![w.key] = w.value]
<1>1. /\ Len(ws) \in Nat /\ DOMAIN ws = 1..Len(ws) /\ DOMAIN vs = 1..(Len(ws) + 1)
      /\ vs[Len(ws) + 1] = w /\ \A i \in DOMAIN ws : vs[i] = ws[i]
  BY AppendPending
<1>2. w.key \in PrefKeys /\ d[w.key] = w.value /\ \A k \in PrefKeys : k # w.key => d[k] = c[k]
  BY DEF WriteCall, Prefs
<1> HIDE DEF vs, d
<1> SUFFICES ASSUME NEW k \in PrefKeys PROVE ShowsKey(vs, d, n, k)
  BY DEF Shows, vs, d
<1>3. CASE k = w.key
  <2>1. Len(ws) + 1 \in DOMAIN vs /\ Last(vs, Len(ws) + 1)
    BY <1>1 DEF Last
  <2> QED
    BY <1>1, <1>2, <1>3, <2>1 DEF ShowsKey
<1>4. CASE k # w.key
  <2>1. ShowsKey(ws, c, n, k)
    BY DEF Shows
  <2>2. CASE (\A i \in DOMAIN ws : ws[i].key # k) /\ c[k] = n[k]
    <3>1. \A i \in DOMAIN vs : vs[i].key # k
      BY <1>1, <1>4, <2>2
    <3> QED
      BY <1>2, <1>4, <2>2, <3>1 DEF ShowsKey
  <2>3. CASE \E i \in DOMAIN ws : ws[i].key = k /\ Last(ws, i) /\ c[k] = ws[i].value
    <3>1. PICK i \in DOMAIN ws : ws[i].key = k /\ Last(ws, i) /\ c[k] = ws[i].value
      BY <2>3
    <3>2. i \in DOMAIN vs /\ vs[i] = ws[i]
      BY <1>1
    <3>3. Last(vs, i)
      BY <1>1, <1>4, <3>1, <3>2 DEF Last
    <3> QED
      BY <1>2, <1>4, <3>1, <3>2, <3>3 DEF ShowsKey
  <2> QED
    BY <2>1, <2>2, <2>3 DEF ShowsKey
<1> QED
  BY <1>3, <1>4

\* A key that the oldest write is not of, or of which it is not the last.
LEMMA ShowsLater ==
    ASSUME NEW ws \in Seq(WriteCall), ws # <<>>, NEW k \in PrefKeys,
           NEW c, NEW n, NEW d, NEW m, d[k] = c[k],
           \/ ws[1].key # k /\ m[k] = n[k] /\ ShowsKey(ws, c, n, k)
           \/ \E i \in DOMAIN ws : i # 1 /\ ws[i].key = k /\ Last(ws, i) /\ c[k] = ws[i].value
    PROVE  ShowsKey(Tail(ws), d, m, k)
<1> DEFINE vs == Tail(ws)
<1>1. /\ DOMAIN ws = 1..Len(ws) /\ Len(ws) \in Nat \ {0} /\ DOMAIN vs = 1..(Len(ws) - 1)
      /\ \A i \in DOMAIN vs : i + 1 \in DOMAIN ws /\ vs[i] = ws[i + 1]
      /\ \A i \in DOMAIN ws : i # 1 => i - 1 \in DOMAIN vs /\ vs[i - 1] = ws[i]
  BY TailPending
<1> HIDE DEF vs
<1> SUFFICES ShowsKey(vs, d, m, k)
  BY DEF vs
<1>2. CASE \E i \in DOMAIN ws : i # 1 /\ ws[i].key = k /\ Last(ws, i) /\ c[k] = ws[i].value
  <2>1. PICK i \in DOMAIN ws : i # 1 /\ ws[i].key = k /\ Last(ws, i) /\ c[k] = ws[i].value
    BY <1>2
  <2>2. i - 1 \in DOMAIN vs /\ vs[i - 1] = ws[i]
    BY <1>1, <2>1
  <2>3. Last(vs, i - 1)
    BY <1>1, <2>1, <2>2, SMTT(30) DEF Last
  <2> QED
    BY <2>1, <2>2, <2>3 DEF ShowsKey
<1>3. CASE (\A i \in DOMAIN ws : ws[i].key # k) /\ c[k] = n[k] /\ m[k] = n[k]
  <2>1. \A i \in DOMAIN vs : vs[i].key # k
    BY <1>1, <1>3
  <2> QED
    BY <1>3, <2>1 DEF ShowsKey
<1> QED
  BY <1>2, <1>3 DEF ShowsKey

LEMMA ShowsLanded ==
    ASSUME NEW ws \in Seq(WriteCall), ws # <<>>, NEW c \in Prefs, NEW n \in Prefs,
           Shows(ws, c, n)
    PROVE  Shows(Tail(ws), c, [n EXCEPT ![ws[1].key] = ws[1].value])
<1> DEFINE m == [n EXCEPT ![ws[1].key] = ws[1].value]
<1>1. ws[1] \in WriteCall /\ 1 \in DOMAIN ws
  BY TailPending
<1>2. ws[1].key \in PrefKeys /\ m[ws[1].key] = ws[1].value
      /\ \A k \in PrefKeys : k # ws[1].key => m[k] = n[k]
  BY <1>1 DEF WriteCall, Prefs
<1> SUFFICES ASSUME NEW k \in PrefKeys PROVE ShowsKey(Tail(ws), c, m, k)
  BY DEF Shows
<1> HIDE DEF m
<1>3. ShowsKey(ws, c, n, k)
  BY DEF Shows
<1>4. CASE ws[1].key # k
  BY <1>2, <1>3, <1>4, ShowsLater
<1>5. CASE ws[1].key = k
  <2>1. PICK i \in DOMAIN ws : ws[i].key = k /\ Last(ws, i) /\ c[k] = ws[i].value
    BY <1>1, <1>3, <1>5 DEF ShowsKey
  <2>2. CASE i # 1
    BY <2>1, <2>2, ShowsLater
  <2>3. CASE i = 1
    <3>1. \A j \in DOMAIN Tail(ws) : Tail(ws)[j].key # k
      BY <2>1, <2>3, TailPending DEF Last
    <3> QED
      BY <1>2, <1>5, <2>1, <2>3, <3>1 DEF ShowsKey
  <2> QED
    BY <2>2, <2>3
<1> QED
  BY <1>4, <1>5

Rolled(w, c) == IF c[w.key] = w.value THEN [c EXCEPT ![w.key] = w.before] ELSE c

LEMMA ShowsRejected ==
    ASSUME NEW ws \in Seq(WriteCall), ws # <<>>, NEW c \in Prefs, NEW n \in Prefs,
           Shows(ws, c, n), Chained(ws, n), Distinct(ws)
    PROVE  Shows(Tail(ws), Rolled(ws[1], c), n)
<1>1. ws[1] \in WriteCall /\ 1 \in DOMAIN ws /\ ws[1].key \in PrefKeys
  <2>1. ws[1] \in WriteCall /\ 1 \in DOMAIN ws
    BY TailPending
  <2> QED
    BY <2>1 DEF WriteCall
<1> SUFFICES ASSUME NEW k \in PrefKeys PROVE ShowsKey(Tail(ws), Rolled(ws[1], c), n, k)
  BY DEF Shows
<1>2. ShowsKey(ws, c, n, k)
  BY DEF Shows
<1>3. CASE ws[1].key # k
  <2>1. Rolled(ws[1], c)[k] = c[k]
    BY <1>1, <1>3 DEF Rolled, Prefs
  <2> QED
    BY <1>2, <1>3, <2>1, ShowsLater
<1>4. CASE ws[1].key = k
  <2>1. PICK i \in DOMAIN ws : ws[i].key = k /\ Last(ws, i) /\ c[k] = ws[i].value
    BY <1>1, <1>2, <1>4 DEF ShowsKey
  <2>2. CASE i # 1
    <3>1. Rolled(ws[1], c) = c
      BY <1>1, <1>4, <2>1, <2>2 DEF Rolled, Distinct
    <3> QED
      BY <2>1, <2>2, <3>1, ShowsLater
  <2>3. CASE i = 1
    <3>1. \A j \in DOMAIN Tail(ws) : Tail(ws)[j].key # k
      BY <2>1, <2>3, TailPending DEF Last
    <3>2. Rolled(ws[1], c)[k] = ws[1].before
      BY <1>1, <1>4, <2>1, <2>3 DEF Rolled, Prefs
    <3>3. First(ws, 1)
      BY TailPending DEF First
    <3> QED
      BY <1>1, <1>4, <3>1, <3>2, <3>3 DEF ShowsKey, Chained
  <2> QED
    BY <2>2, <2>3
<1> QED
  BY <1>3, <1>4

LEMMA ChainedAdded ==
    ASSUME NEW ws \in Seq(WriteCall), NEW w \in WriteCall, NEW c, NEW n,
           Shows(ws, c, n), Chained(ws, n), w.before = c[w.key]
    PROVE  Chained(Append(ws, w), n)
<1> DEFINE vs == Append(ws, w)
<1>1. /\ Len(ws) \in Nat /\ DOMAIN ws = 1..Len(ws) /\ DOMAIN vs = 1..(Len(ws) + 1)
      /\ vs[Len(ws) + 1] = w /\ \A i \in DOMAIN ws : vs[i] = ws[i]
  BY AppendPending
<1>2. ShowsKey(ws, c, n, w.key)
  BY DEF Shows, WriteCall
<1> HIDE DEF vs
<1>3. ASSUME NEW i \in DOMAIN vs, First(vs, i) PROVE vs[i].before = n[vs[i].key]
  <2>1. CASE i = Len(ws) + 1
    <3>1. \A j \in DOMAIN ws : ws[j].key # w.key
      BY <1>1, <1>3, <2>1 DEF First
    <3>2. c[w.key] = n[w.key]
      BY <1>2, <3>1 DEF ShowsKey
    <3> QED
      BY <1>1, <2>1, <3>2
  <2>2. CASE i # Len(ws) + 1
    <3>1. i \in DOMAIN ws /\ First(ws, i)
      BY <1>1, <1>3, <2>2 DEF First
    <3> QED
      BY <1>1, <3>1 DEF Chained
  <2> QED
    BY <2>1, <2>2
<1>4. ASSUME NEW i \in DOMAIN vs, NEW j \in DOMAIN vs, Follows(vs, i, j)
      PROVE  vs[j].before = vs[i].value
  <2>1. i \in DOMAIN ws /\ i < j /\ vs[i] = ws[i]
    BY <1>1, <1>4 DEF Follows
  <2>2. CASE j = Len(ws) + 1
    <3>1. ws[i].key = w.key /\ Last(ws, i)
      BY <1>1, <1>4, <2>1, <2>2 DEF Follows, Last
    <3>2. PICK l \in DOMAIN ws : ws[l].key = w.key /\ Last(ws, l) /\ c[w.key] = ws[l].value
      BY <1>2, <2>1, <3>1 DEF ShowsKey
    <3>3. l = i
      BY <1>1, <2>1, <3>1, <3>2 DEF Last
    <3> QED
      BY <1>1, <2>1, <2>2, <3>2, <3>3
  <2>3. CASE j # Len(ws) + 1
    <3>1. j \in DOMAIN ws /\ Follows(ws, i, j)
      BY <1>1, <1>4, <2>1, <2>3 DEF Follows
    <3> QED
      BY <1>1, <2>1, <3>1 DEF Chained
  <2> QED
    BY <2>2, <2>3
<1> QED
  BY <1>3, <1>4 DEF Chained, vs

LEMMA ChainedLanded ==
    ASSUME NEW ws \in Seq(WriteCall), ws # <<>>, NEW n \in Prefs, Chained(ws, n)
    PROVE  Chained(Tail(ws), [n EXCEPT ![ws[1].key] = ws[1].value])
<1> DEFINE vs == Tail(ws)
           m == [n EXCEPT ![ws[1].key] = ws[1].value]
<1>1. /\ DOMAIN ws = 1..Len(ws) /\ Len(ws) \in Nat \ {0} /\ DOMAIN vs = 1..(Len(ws) - 1)
      /\ \A i \in DOMAIN vs : i + 1 \in DOMAIN ws /\ vs[i] = ws[i + 1]
      /\ \A i \in DOMAIN ws : i # 1 => i - 1 \in DOMAIN vs /\ vs[i - 1] = ws[i]
      /\ vs \in Seq(WriteCall) /\ ws[1] \in WriteCall
  BY TailPending
<1>2. m[ws[1].key] = ws[1].value /\ \A k \in PrefKeys : k # ws[1].key => m[k] = n[k]
  BY <1>1 DEF WriteCall, Prefs
<1>3. \A i \in DOMAIN vs : vs[i].key \in PrefKeys
  <2>1. \A i \in DOMAIN vs : vs[i] \in WriteCall
    BY <1>1
  <2> QED
    BY <2>1 DEF WriteCall
<1> HIDE DEF vs, m
<1>4. ASSUME NEW i \in DOMAIN vs, First(vs, i) PROVE vs[i].before = m[vs[i].key]
  <2>1. i + 1 \in DOMAIN ws /\ vs[i] = ws[i + 1] /\ i \in 1..(Len(ws) - 1) /\ 1 \in DOMAIN ws
    BY <1>1
  <2>2. CASE vs[i].key = ws[1].key
    <3>1. Follows(ws, 1, i + 1)
      <4> SUFFICES ASSUME NEW l \in DOMAIN ws, ws[l].key = ws[i + 1].key
                   PROVE  l <= 1 \/ i + 1 <= l
        BY <2>1, <2>2 DEF Follows
      <4>1. CASE l = 1
        BY <4>1
      <4>2. CASE l # 1
        BY <1>1, <1>4, <2>1, <4>2 DEF First
      <4> QED
        BY <4>1, <4>2
    <3> QED
      BY <1>2, <2>1, <2>2, <3>1 DEF Chained
  <2>3. CASE vs[i].key # ws[1].key
    <3>1. First(ws, i + 1)
      <4> SUFFICES ASSUME NEW l \in DOMAIN ws, ws[l].key = ws[i + 1].key PROVE i + 1 <= l
        BY DEF First
      <4>1. l # 1
        BY <2>1, <2>3
      <4> QED
        BY <1>1, <1>4, <2>1, <4>1 DEF First
    <3> QED
      BY <1>2, <1>3, <2>1, <2>3, <3>1 DEF Chained
  <2> QED
    BY <2>2, <2>3
<1>5. ASSUME NEW i \in DOMAIN vs, NEW j \in DOMAIN vs, Follows(vs, i, j)
      PROVE  vs[j].before = vs[i].value
  <2>1. /\ i + 1 \in DOMAIN ws /\ vs[i] = ws[i + 1] /\ j + 1 \in DOMAIN ws /\ vs[j] = ws[j + 1]
        /\ i \in 1..(Len(ws) - 1) /\ j \in 1..(Len(ws) - 1)
    BY <1>1
  <2>2. Follows(ws, i + 1, j + 1)
    <3> SUFFICES ASSUME NEW l \in DOMAIN ws, ws[l].key = ws[j + 1].key
                 PROVE  l <= i + 1 \/ j + 1 <= l
      BY <1>5, <2>1 DEF Follows
    <3>1. CASE l = 1
      BY <2>1, <3>1
    <3>2. CASE l # 1
      <4>1. l - 1 \in DOMAIN vs /\ vs[l - 1] = ws[l] /\ l \in 1..Len(ws)
        BY <1>1, <3>2
      <4>2. l - 1 <= i \/ j <= l - 1
        BY <1>5, <2>1, <4>1 DEF Follows
      <4> QED
        BY <1>1, <2>1, <4>1, <4>2
    <3> QED
      BY <3>1, <3>2
  <2> QED
    BY <2>1, <2>2 DEF Chained
<1> QED
  BY <1>4, <1>5 DEF Chained, vs, m

LEMMA DistinctAdded ==
    ASSUME NEW ws \in Seq(WriteCall), NEW w \in WriteCall, Distinct(ws),
           \A i \in DOMAIN ws : ~(ws[i].key = w.key /\ ws[i].value = w.value)
    PROVE  Distinct(Append(ws, w))
<1> DEFINE vs == Append(ws, w)
<1>1. /\ Len(ws) \in Nat /\ DOMAIN ws = 1..Len(ws) /\ DOMAIN vs = 1..(Len(ws) + 1)
      /\ vs[Len(ws) + 1] = w /\ \A i \in DOMAIN ws : vs[i] = ws[i]
  BY AppendPending
<1> HIDE DEF vs
<1> SUFFICES ASSUME NEW i \in DOMAIN vs, NEW j \in DOMAIN vs, i # j, vs[i].key = vs[j].key
             PROVE  vs[i].value # vs[j].value
  BY DEF Distinct, vs
<1>2. \A l \in DOMAIN vs : l \in DOMAIN ws \/ l = Len(ws) + 1
  BY <1>1
<1> QED
  BY <1>1, <1>2 DEF Distinct

LEMMA DistinctTail ==
    ASSUME NEW ws \in Seq(WriteCall), ws # <<>>, Distinct(ws)
    PROVE  Distinct(Tail(ws))
<1> DEFINE vs == Tail(ws)
<1>1. /\ DOMAIN vs = 1..(Len(ws) - 1) /\ Len(ws) \in Nat
      /\ \A i \in DOMAIN vs : i + 1 \in DOMAIN ws /\ vs[i] = ws[i + 1]
  BY TailPending
<1> HIDE DEF vs
<1>2. \A i, j \in DOMAIN vs : i # j => i + 1 # j + 1
  BY <1>1
<1> QED
  BY <1>1, <1>2 DEF Distinct, vs

CacheInv ==
    /\ ~nativeOn => writes = <<>>
    /\ stage \in {"down", "copy"} => ~nativeOn
    /\ nativeOn /\ (rejected = 0 \/ rejected + repeats <= 1) => Shows(writes, cache, native)
    /\ nativeOn /\ rejected + repeats = 0 => Chained(writes, native) /\ Distinct(writes)

LEMMA CacheInit == DeviceInit => CacheInv
BY DEF DeviceInit, CacheInv

\* A preference set by the session.
LEMMA CacheSet ==
    ASSUME PrefsTyped, CacheInv, \E k \in PrefKeys, v \in PrefValues : SetItem(k, v),
           UNCHANGED <<native, nativeOn, rejected>>, stage' \notin {"down", "copy"}
    PROVE  CacheInv'
<1>1. PICK k \in PrefKeys, v \in PrefValues : SetItem(k, v)
  OBVIOUS
<1>2. CASE ~nativeOn
  BY <1>1, <1>2 DEF SetItem, CacheInv
<1>3. CASE nativeOn
  <2> DEFINE w == [key |-> k, value |-> v, before |-> cache[k]]
  <2>1. /\ writes' = Append(writes, w) /\ cache' = [cache EXCEPT ![k] = v]
        /\ repeats' = IF \E i \in DOMAIN writes : writes[i].key = k /\ writes[i].value = v
                      THEN repeats + 1 ELSE repeats
    BY <1>1, <1>3 DEF SetItem
  <2>2. /\ w \in WriteCall /\ writes \in Seq(WriteCall) /\ cache \in Prefs /\ native \in Prefs
        /\ rejected \in Nat /\ repeats \in Nat
        /\ w.key = k /\ w.value = v /\ w.before = cache[w.key]
    BY DEF WriteCall, PrefsTyped, Prefs
  <2> HIDE DEF w
  <2>3. rejected' = 0 \/ rejected' + repeats' <= 1 => rejected = 0 \/ rejected + repeats <= 1
    BY <2>1, <2>2
  <2>4. rejected' + repeats' = 0
          => /\ rejected + repeats = 0
             /\ \A i \in DOMAIN writes : ~(writes[i].key = w.key /\ writes[i].value = w.value)
    BY <2>1, <2>2
  <2>5. rejected = 0 \/ rejected + repeats <= 1 => Shows(writes, cache, native)
    BY <1>3 DEF CacheInv
  <2>6. Shows(writes, cache, native) => Shows(writes', cache', native')
    <3>1. Shows(writes, cache, native)
            => Shows(Append(writes, w), [cache EXCEPT ![w.key] = w.value], native)
      BY <2>2, ShowsAdded
    <3> QED
      BY <2>1, <2>2, <3>1
  <2>7. ASSUME rejected' + repeats' = 0 PROVE (Chained(writes, native) /\ Distinct(writes))'
    <3>1. Shows(writes, cache, native) /\ Chained(writes, native) /\ Distinct(writes)
      BY <1>3, <2>2, <2>4, <2>7 DEF CacheInv
    <3>2. Chained(Append(writes, w), native)
      BY <2>2, <3>1, ChainedAdded
    <3>3. Distinct(Append(writes, w))
      BY <2>2, <2>4, <2>7, <3>1, DistinctAdded
    <3> QED
      BY <2>1, <3>2, <3>3
  <2>8. nativeOn'
    BY <1>3
  <2> QED
    BY <2>3, <2>5, <2>6, <2>7, <2>8 DEF CacheInv
<1> QED
  BY <1>2, <1>3

LEMMA CacheNext ==
    PrefsTyped /\ MoveInv /\ CacheInv /\ [DeviceNext]_deviceVars => CacheInv'
<1> SUFFICES ASSUME PrefsTyped, MoveInv, CacheInv, [DeviceNext]_deviceVars PROVE CacheInv'
  OBVIOUS
<1>1. CASE \/ \E k \in PrefKeys : CopyKey(k)
           \/ PreferencesFail \/ Killed
  <2>1. ~nativeOn' /\ writes' = <<>>
    BY <1>1 DEF CopyKey, PreferencesFail, Killed, CacheInv, MoveInv
  <2> QED
    BY <2>1 DEF CacheInv
<1>2. CASE Hydrate
  <2>1. /\ nativeOn' /\ writes' = <<>> /\ cache' = native /\ native' = native
        /\ stage' \notin {"down", "copy"}
    BY <1>2 DEF Hydrate, Reach, MoveInv
  <2>2. Shows(writes', cache', native') /\ Chained(writes', native') /\ Distinct(writes')
    BY <2>1 DEF Shows, ShowsKey, Chained, Distinct
  <2> QED
    BY <2>1, <2>2 DEF CacheInv
<1>3. CASE WriteLands
  <2>1. /\ nativeOn /\ writes # <<>> /\ writes' = Tail(writes) /\ cache' = cache
        /\ UNCHANGED <<nativeOn, rejected, repeats, stage>>
        /\ native' = [native EXCEPT ![Head(writes).key] = Head(writes).value]
    BY <1>3 DEF WriteLands, CacheInv
  <2>2. writes \in Seq(WriteCall) /\ native \in Prefs /\ cache \in Prefs
    BY DEF PrefsTyped
  <2>3. Head(writes) = writes[1]
    BY <2>1, <2>2, TailPending
  <2>4. native' = [native EXCEPT ![writes[1].key] = writes[1].value]
    BY <2>1, <2>3
  <2>5. Shows(writes, cache, native) => Shows(writes', cache', native')
    <3>1. Shows(writes, cache, native)
            => Shows(Tail(writes), cache, [native EXCEPT ![writes[1].key] = writes[1].value])
      BY <2>1, <2>2, ShowsLanded
    <3> QED
      BY <2>1, <2>4, <3>1
  <2>6. Chained(writes, native) => Chained(writes', native')
    <3>1. Chained(writes, native)
            => Chained(Tail(writes), [native EXCEPT ![writes[1].key] = writes[1].value])
      BY <2>1, <2>2, ChainedLanded
    <3> QED
      BY <2>1, <2>4, <3>1
  <2>7. Distinct(writes) => Distinct(writes')
    BY <2>1, <2>2, DistinctTail
  <2> QED
    BY <2>1, <2>5, <2>6, <2>7 DEF CacheInv
<1>4. CASE WriteRejected
  <2>1. /\ nativeOn /\ writes # <<>> /\ writes' = Tail(writes)
        /\ rejected' = rejected + 1 /\ UNCHANGED <<nativeOn, native, repeats, stage>>
        /\ cache' = RolledBack(Head(writes))
    BY <1>4 DEF WriteRejected, CacheInv
  <2>2. /\ writes \in Seq(WriteCall) /\ native \in Prefs /\ cache \in Prefs
        /\ rejected \in Nat /\ repeats \in Nat
    BY DEF PrefsTyped
  <2>3. cache' = Rolled(writes[1], cache)
    BY <2>1, <2>2, TailPending DEF RolledBack, Rolled
  <2>4. /\ rejected' # 0 /\ rejected' + repeats' # 0
        /\ rejected' + repeats' <= 1 => rejected + repeats = 0
    BY <2>1, <2>2
  <2>5. ASSUME rejected + repeats = 0 PROVE Shows(writes', cache', native')
    <3>1. Shows(writes, cache, native) /\ Chained(writes, native) /\ Distinct(writes)
      BY <2>1, <2>2, <2>5 DEF CacheInv
    <3>2. Shows(Tail(writes), Rolled(writes[1], cache), native)
      BY <2>1, <2>2, <3>1, ShowsRejected
    <3> QED
      BY <2>1, <2>3, <3>2
  <2> QED
    BY <2>1, <2>4, <2>5 DEF CacheInv
<1>5. CASE OpenFresh \/ SetFlag
  <2>1. "migrated" \in PrefKeys /\ "1" \in PrefValues
    BY DEF PrefKeys, PrefValues
  <2>2. /\ SetItem("migrated", "1") /\ UNCHANGED <<native, nativeOn, rejected>>
        /\ stage' \notin {"down", "copy"}
    BY <1>5 DEF OpenFresh, SetFlag, Open, Reach
  <2> QED
    BY <2>1, <2>2, CacheSet
<1>6. ASSUME NEW v \in Themes \union {Unset}, ChooseTheme(v) PROVE CacheInv'
  <2>1. "theme" \in PrefKeys /\ v \in PrefValues
    BY DEF PrefKeys, PrefValues
  <2>2. /\ SetItem("theme", v) /\ UNCHANGED <<native, nativeOn, rejected>>
        /\ stage' \notin {"down", "copy"}
    BY <1>6 DEF ChooseTheme
  <2> QED
    BY <2>1, <2>2, CacheSet
<1>7. CASE \/ Launch \/ Mark \/ ClearLocal \/ OpenMigrated \/ Migrate \/ DeleteDexie
           \/ DeleteFails \/ FallBackToDexie \/ Edit \/ Push \/ Pull
           \/ UNCHANGED deviceVars
  <2>1. /\ UNCHANGED <<native, cache, nativeOn, writes, rejected, repeats>>
        /\ stage' \in {"down", "copy"} => stage \in {"down", "copy"}
    BY <1>7 DEF Launch, Mark, ClearLocal, OpenMigrated, Migrate, DeleteDexie, DeleteFails,
        FallBackToDexie, Edit, Push, Pull, Open, Reach, deviceVars, prefVars
  <2> QED
    BY <2>1 DEF CacheInv
<1> QED
  BY <1>1, <1>2, <1>3, <1>4, <1>5, <1>6, <1>7 DEF DeviceNext, DeviceStep

(***************************************************************************)
(* With no write in flight a session shows what Preferences hold: the      *)
(* cache goes wrong only when two writes fail, or one fails and a value is *)
(* written while it is in flight.                                          *)
(***************************************************************************)
THEOREM CacheAgrees == DeviceSpec => []CacheMatchesStore
<1>1. Typed /\ CacheInv => CacheMatchesStore
  <2> SUFFICES ASSUME PrefsTyped, CacheInv, nativeOn, writes = <<>>, rejected + repeats <= 1
               PROVE  cache = native
    BY TypedParts DEF CacheMatchesStore, PrefsTyped
  <2>1. Shows(<<>>, cache, native)
    BY DEF CacheInv
  <2>2. \A k \in PrefKeys : cache[k] = native[k]
    BY <2>1 DEF Shows, ShowsKey
  <2> QED
    BY <2>2 DEF PrefsTyped, Prefs
<1>2. DeviceInit => MoveInv /\ CacheInv
  BY MoveInit, CacheInit
<1>3. Typed /\ MoveInv /\ CacheInv /\ [DeviceNext]_deviceVars => (MoveInv /\ CacheInv)'
  BY MoveNext, CacheNext, TypedParts
<1> QED
  BY <1>1, <1>2, <1>3, AlwaysTyped, PTL DEF DeviceSpec

-----------------------------------------------------------------------------
(* The user's preference.                                                  *)

\* Every value on its way to Preferences may be shown ...
PendingWanted ==
    \A i \in DOMAIN writes : writes[i].key = "theme" => writes[i].value \in wanted

(* ... and so may the one that is stored: in Preferences once the move is  *)
(* marked, until then in localStorage and what has been copied of it.  No  *)
(* session uses Preferences before the mark.                               *)
ThemeStored ==
    /\ ~marked => /\ local["theme"] \in wanted
                  /\ native["theme"] = Unset \/ native["theme"] \in wanted
                  /\ stage = "mark" => native["theme"] \in wanted
    /\ marked => native["theme"] \in wanted
    /\ nativeOn /\ ~marked => stage = "mark"

(* Without repeated values, some preferences b are what the cache shows of *)
(* each key that no write in flight is of, and what the oldest such write  *)
(* falls back to, however many writes have been rejected.                  *)
Based ==
    nativeOn /\ repeats = 0 =>
        /\ Distinct(writes)
        /\ \E b \in Prefs : /\ Shows(writes, cache, b) /\ Chained(writes, b)
                            /\ b["theme"] \in wanted

LEMMA KeptInit == DeviceInit => PendingWanted /\ ThemeStored /\ Based
<1> SUFFICES ASSUME DeviceInit PROVE PendingWanted /\ ThemeStored /\ Based
  OBVIOUS
<1>1. "theme" \in PrefKeys
  BY DEF PrefKeys
<1> QED
  BY <1>1 DEF DeviceInit, NoPrefs, PendingWanted, ThemeStored, Based

LEMMA PendingWantedNext ==
    PrefsTyped /\ PendingWanted /\ [DeviceNext]_deviceVars => PendingWanted'
<1> SUFFICES ASSUME PrefsTyped, PendingWanted, [DeviceNext]_deviceVars PROVE PendingWanted'
  OBVIOUS
<1> writes \in Seq(WriteCall) /\ cache \in Prefs
  BY DEF PrefsTyped
<1>1. ASSUME NEW k \in PrefKeys, NEW v \in PrefValues, SetItem(k, v),
             wanted \subseteq wanted', k = "theme" => v \in wanted'
      PROVE  PendingWanted'
  <2>1. CASE nativeOn
    <3> DEFINE w == [key |-> k, value |-> v, before |-> cache[k]]
    <3>1. writes' = Append(writes, w)
      BY <1>1, <2>1 DEF SetItem
    <3>2. w \in WriteCall /\ w.key = k /\ w.value = v
      BY DEF WriteCall, Prefs
    <3> HIDE DEF w
    <3>3. /\ Len(writes) \in Nat /\ DOMAIN writes = 1..Len(writes)
          /\ DOMAIN writes' = 1..(Len(writes) + 1) /\ writes'[Len(writes) + 1] = w
          /\ \A i \in DOMAIN writes : writes'[i] = writes[i]
      BY <3>1, <3>2, AppendPending
    <3>4. \A i \in DOMAIN writes' : i \in DOMAIN writes \/ i = Len(writes) + 1
      BY <3>3
    <3> QED
      BY <1>1, <3>2, <3>3, <3>4 DEF PendingWanted
  <2>2. CASE ~nativeOn
    BY <1>1, <2>2 DEF SetItem, PendingWanted
  <2> QED
    BY <2>1, <2>2
<1>2. CASE OpenFresh \/ SetFlag
  <2>1. "migrated" \in PrefKeys /\ "1" \in PrefValues /\ "migrated" # "theme"
    BY DEF PrefKeys, PrefValues
  <2>2. SetItem("migrated", "1") /\ wanted' = wanted
    BY <1>2 DEF OpenFresh, SetFlag
  <2> QED
    BY <1>1, <2>1, <2>2
<1>3. ASSUME NEW v \in Themes \union {Unset}, ChooseTheme(v) PROVE PendingWanted'
  <2>1. "theme" \in PrefKeys /\ v \in PrefValues
    BY DEF PrefKeys, PrefValues
  <2>2. SetItem("theme", v) /\ wanted' = wanted \union {v}
    BY <1>3 DEF ChooseTheme
  <2> QED
    BY <1>1, <2>1, <2>2
<1>4. CASE WriteLands \/ WriteRejected
  <2>1. writes # <<>> /\ writes' = Tail(writes)
    BY <1>4 DEF WriteLands, WriteRejected
  <2>2. /\ DOMAIN writes = 1..Len(writes) /\ Len(writes) \in Nat
        /\ \A i \in DOMAIN writes' : /\ i + 1 \in DOMAIN writes /\ writes'[i] = writes[i + 1]
                                     /\ i \in 1..(Len(writes) - 1)
    BY <2>1, TailPending
  <2>3. \A i \in DOMAIN writes : i > 1 /\ writes[i].key = "theme" => writes[i].value \in wanted'
    BY <1>4, <2>2 DEF WriteLands, WriteRejected, PendingWanted
  <2>4. \A i \in DOMAIN writes' : i + 1 > 1
    BY <2>2
  <2> QED
    BY <2>2, <2>3, <2>4 DEF PendingWanted
<1>5. CASE Killed
  BY <1>5 DEF Killed, PendingWanted
<1>6. CASE \/ \E k \in PrefKeys : CopyKey(k)
           \/ Launch \/ Hydrate \/ Mark \/ ClearLocal \/ PreferencesFail \/ OpenMigrated
           \/ Migrate \/ DeleteDexie \/ DeleteFails \/ FallBackToDexie \/ Edit \/ Push \/ Pull
           \/ UNCHANGED deviceVars
  <2>1. UNCHANGED <<writes, wanted>>
    BY <1>6 DEF CopyKey, Launch, Hydrate, Mark, ClearLocal, PreferencesFail, OpenMigrated,
        Migrate, DeleteDexie, DeleteFails, FallBackToDexie, Edit, Push, Pull, deviceVars,
        prefVars
  <2> QED
    BY <2>1 DEF PendingWanted
<1> QED
  BY <1>2, <1>3, <1>4, <1>5, <1>6 DEF DeviceNext, DeviceStep

LEMMA ThemeStoredNext ==
    /\ PrefsTyped /\ MoveInv /\ CacheInv /\ PendingWanted /\ ThemeStored
    /\ [DeviceNext]_deviceVars
    => ThemeStored'
<1> SUFFICES ASSUME PrefsTyped, MoveInv, CacheInv, PendingWanted, ThemeStored,
                    [DeviceNext]_deviceVars
             PROVE  ThemeStored'
  OBVIOUS
<1> "theme" \in PrefKeys
  BY DEF PrefKeys
<1>1. ASSUME NEW k \in PrefKeys, CopyKey(k) PROVE ThemeStored'
  <2>1. /\ UNCHANGED <<local, marked, nativeOn, wanted, stage>> /\ stage = "copy"
        /\ ~marked /\ native' = [native EXCEPT ![k] = local[k]] /\ native \in Prefs
    BY <1>1 DEF CopyKey, MoveInv, PrefsTyped
  <2>2. native'["theme"] = native["theme"] \/ native'["theme"] = local["theme"]
    BY <2>1 DEF Prefs
  <2> QED
    BY <2>1, <2>2 DEF ThemeStored
<1>2. CASE Launch
  <2>1. UNCHANGED <<local, native, marked, nativeOn, wanted>> /\ stage = "down"
        /\ stage' = "copy"
    BY <1>2 DEF Launch, Reach, prefVars
  <2> QED
    BY <2>1 DEF ThemeStored
<1>3. CASE Hydrate
  <2>1. /\ UNCHANGED <<local, native, marked, wanted>>
        /\ stage' = IF marked THEN "open" ELSE "mark"
    BY <1>3 DEF Hydrate, Reach
  <2>2. ~marked => native["theme"] = local["theme"] \/ local["theme"] = Unset
    BY <1>3 DEF Hydrate, Copied, MoveInv
  <2> QED
    BY <2>1, <2>2 DEF ThemeStored
<1>4. CASE Mark \/ ClearLocal
  BY <1>4 DEF Mark, ClearLocal, Reach, ThemeStored, MoveInv
<1>5. CASE PreferencesFail
  BY <1>5 DEF PreferencesFail, Reach, ThemeStored
<1>6. CASE WriteLands
  <2>1. /\ marked /\ writes # <<>> /\ UNCHANGED <<marked, nativeOn, stage>>
    BY <1>6 DEF WriteLands, ThemeStored, MoveInv, CacheInv
  <2>2. native'["theme"] \in wanted'
    BY <1>6, <2>1 DEF WriteLands, ThemeStored, PrefsTyped, Prefs
  <2> QED
    BY <2>1, <2>2 DEF ThemeStored
<1>7. CASE WriteRejected
  BY <1>7 DEF WriteRejected, ThemeStored
<1>8. CASE Killed
  BY <1>8 DEF Killed, Reach, ThemeStored
<1>9. CASE OpenFresh \/ SetFlag
  <2>1. /\ SetItem("migrated", "1") /\ UNCHANGED <<native, marked, nativeOn, wanted>>
        /\ stage \in {"open", "flag"} /\ stage' \in {"up", "cleanup"}
    BY <1>9 DEF OpenFresh, SetFlag, Open, Reach
  <2>2. local'["theme"] = local["theme"]
    BY <2>1 DEF SetItem, PrefsTyped, Prefs
  <2> QED
    BY <2>1, <2>2 DEF ThemeStored
<1>10. ASSUME NEW v \in Themes \union {Unset}, ChooseTheme(v) PROVE ThemeStored'
  <2>1. /\ SetItem("theme", v) /\ UNCHANGED <<native, marked, nativeOn, stage>>
        /\ wanted' = wanted \union {v} /\ stage = "up"
    BY <1>10 DEF ChooseTheme
  <2>2. local'["theme"] = local["theme"] \/ local'["theme"] = v
    BY <2>1 DEF SetItem, PrefsTyped, Prefs
  <2> QED
    BY <2>1, <2>2 DEF ThemeStored
<1>11. CASE \/ OpenMigrated \/ Migrate \/ DeleteDexie \/ DeleteFails \/ FallBackToDexie
            \/ Edit \/ Push \/ Pull
  <2>1. /\ UNCHANGED prefVars /\ stage' # "mark" /\ stage # "mark"
    BY <1>11 DEF OpenMigrated, Migrate, DeleteDexie, DeleteFails, FallBackToDexie, Edit,
        Push, Pull, Open, Reach
  <2> QED
    BY <2>1 DEF prefVars, ThemeStored
<1>12. CASE UNCHANGED deviceVars
  BY <1>12 DEF deviceVars, prefVars, ThemeStored
<1> QED
  BY <1>1, <1>2, <1>3, <1>4, <1>5, <1>6, <1>7, <1>8, <1>9, <1>10, <1>11, <1>12
  DEF DeviceNext, DeviceStep

(* A rejected write: what the cache falls back to is as before, or, if     *)
(* other writes of the key are in flight, what the first of them found.    *)
LEMMA BasedRejected ==
    ASSUME NEW ws \in Seq(WriteCall), ws # <<>>, NEW c \in Prefs, NEW b \in Prefs,
           Shows(ws, c, b), Chained(ws, b), Distinct(ws)
    PROVE  \E d \in Prefs :
             /\ Shows(Tail(ws), Rolled(ws[1], c), d) /\ Chained(Tail(ws), d)
             /\ d = b \/ d = [b EXCEPT ![ws[1].key] = ws[1].value]
<1> DEFINE d == [b EXCEPT ![ws[1].key] = ws[1].value]
<1>1. ws[1] \in WriteCall /\ 1 \in DOMAIN ws
  BY TailPending
<1>2. /\ ws[1].key \in PrefKeys /\ ws[1].value \in PrefValues /\ d \in Prefs
      /\ \A k \in PrefKeys : k # ws[1].key => d[k] = b[k]
  BY <1>1 DEF WriteCall, Prefs
<1>3. Shows(Tail(ws), c, d) /\ Chained(Tail(ws), d)
  BY ShowsLanded, ChainedLanded
<1> HIDE DEF d
<1>4. CASE \E j \in DOMAIN ws : j # 1 /\ ws[j].key = ws[1].key
  <2>1. PICK j \in DOMAIN ws : j # 1 /\ ws[j].key = ws[1].key
    BY <1>4
  <2>2. PICK i \in DOMAIN ws : /\ ws[i].key = ws[1].key /\ Last(ws, i)
                               /\ c[ws[1].key] = ws[i].value
    BY <1>1, <1>2 DEF Shows, ShowsKey
  <2>3. i # 1
    BY <2>1, <2>2, TailPending DEF Last
  <2>4. Rolled(ws[1], c) = c
    BY <1>1, <2>2, <2>3 DEF Rolled, Distinct
  <2> QED
    BY <1>2, <1>3, <2>4 DEF d
<1>5. CASE \A j \in DOMAIN ws : j # 1 => ws[j].key # ws[1].key
  <2>1. Shows(Tail(ws), Rolled(ws[1], c), b)
    BY ShowsRejected
  <2>2. \A i \in DOMAIN Tail(ws) : Tail(ws)[i].key \in PrefKeys /\ Tail(ws)[i].key # ws[1].key
    <3> SUFFICES ASSUME NEW i \in DOMAIN Tail(ws)
                 PROVE  Tail(ws)[i].key \in PrefKeys /\ Tail(ws)[i].key # ws[1].key
      OBVIOUS
    <3>1. i + 1 \in DOMAIN ws /\ Tail(ws)[i] = ws[i + 1] /\ i + 1 # 1
      BY TailPending
    <3>2. ws[i + 1] \in WriteCall
      BY <3>1
    <3> QED
      BY <1>5, <3>1, <3>2 DEF WriteCall
  <2>3. Chained(Tail(ws), b)
    BY <1>2, <1>3, <2>2 DEF Chained
  <2> QED
    BY <2>1, <2>3
<1> QED
  BY <1>4, <1>5

\* A preference set by the session.
LEMMA BasedSet ==
    ASSUME PrefsTyped, Based, UNCHANGED nativeOn, wanted \subseteq wanted',
           \E k \in PrefKeys, v \in PrefValues : SetItem(k, v)
    PROVE  Based'
<1>1. PICK k \in PrefKeys, v \in PrefValues : SetItem(k, v)
  OBVIOUS
<1> SUFFICES ASSUME nativeOn, repeats' = 0
             PROVE  /\ Distinct(writes)'
                    /\ \E b \in Prefs : /\ Shows(writes', cache', b) /\ Chained(writes', b)
                                        /\ b["theme"] \in wanted'
  BY DEF Based
<1> DEFINE w == [key |-> k, value |-> v, before |-> cache[k]]
<1>2. /\ writes' = Append(writes, w) /\ cache' = [cache EXCEPT ![k] = v]
      /\ repeats' = IF \E i \in DOMAIN writes : writes[i].key = k /\ writes[i].value = v
                    THEN repeats + 1 ELSE repeats
  BY <1>1 DEF SetItem
<1>3. /\ w \in WriteCall /\ writes \in Seq(WriteCall) /\ cache \in Prefs /\ repeats \in Nat
      /\ w.key = k /\ w.value = v /\ w.before = cache[w.key]
  BY DEF WriteCall, PrefsTyped, Prefs
<1> HIDE DEF w
<1>4. repeats = 0 /\ \A i \in DOMAIN writes : ~(writes[i].key = w.key /\ writes[i].value = w.value)
  BY <1>2, <1>3
<1>5. Distinct(writes)
  BY <1>4 DEF Based
<1>6. PICK b \in Prefs : Shows(writes, cache, b) /\ Chained(writes, b) /\ b["theme"] \in wanted
  BY <1>4 DEF Based
<1>7. Distinct(Append(writes, w))
  BY <1>3, <1>4, <1>5, DistinctAdded
<1>8. Shows(Append(writes, w), [cache EXCEPT ![w.key] = w.value], b)
  BY <1>3, <1>6, ShowsAdded
<1>9. Chained(Append(writes, w), b)
  BY <1>3, <1>6, ChainedAdded
<1> QED
  BY <1>2, <1>3, <1>6, <1>7, <1>8, <1>9

LEMMA BasedNext ==
    /\ PrefsTyped /\ MoveInv /\ CacheInv /\ PendingWanted /\ ThemeStored /\ Based
    /\ [DeviceNext]_deviceVars
    => Based'
<1> SUFFICES ASSUME PrefsTyped, MoveInv, CacheInv, PendingWanted, ThemeStored, Based,
                    [DeviceNext]_deviceVars
             PROVE  Based'
  OBVIOUS
<1> "theme" \in PrefKeys
  BY DEF PrefKeys
<1>1. CASE \/ \E k \in PrefKeys : CopyKey(k)
           \/ PreferencesFail \/ Killed
  <2>1. ~nativeOn'
    BY <1>1 DEF CopyKey, PreferencesFail, Killed, CacheInv
  <2> QED
    BY <2>1 DEF Based
<1>2. CASE Hydrate
  <2>1. ThemeStored'
    BY <1>2, ThemeStoredNext
  <2>2. /\ writes' = <<>> /\ cache' = native /\ native' = native /\ native \in Prefs
        /\ marked' = marked /\ (~marked => stage' = "mark")
    BY <1>2 DEF Hydrate, Reach, MoveInv, PrefsTyped
  <2>3. native["theme"] \in wanted'
    BY <2>1, <2>2 DEF ThemeStored
  <2>4. Shows(writes', cache', native) /\ Chained(writes', native) /\ Distinct(writes')
    BY <2>2 DEF Shows, ShowsKey, Chained, Distinct
  <2> QED
    BY <2>2, <2>3, <2>4 DEF Based
<1>3. CASE WriteLands \/ WriteRejected
  <2> SUFFICES ASSUME nativeOn, repeats = 0
               PROVE  /\ Distinct(writes)'
                      /\ \E b \in Prefs : /\ Shows(writes', cache', b) /\ Chained(writes', b)
                                          /\ b["theme"] \in wanted'
    BY <1>3 DEF WriteLands, WriteRejected, Based
  <2>1. /\ writes # <<>> /\ writes' = Tail(writes) /\ writes \in Seq(WriteCall)
        /\ cache \in Prefs /\ Distinct(writes)
    BY <1>3 DEF WriteLands, WriteRejected, PrefsTyped, Based
  <2>2. Head(writes) = writes[1] /\ writes[1] \in WriteCall /\ 1 \in DOMAIN writes
    BY <2>1, TailPending
  <2>3. PICK b \in Prefs : /\ Shows(writes, cache, b) /\ Chained(writes, b)
                           /\ b["theme"] \in wanted
    BY DEF Based
  <2> DEFINE d == [b EXCEPT ![writes[1].key] = writes[1].value]
  <2>4. d \in Prefs
    BY <2>2, <2>3 DEF WriteCall, Prefs
  <2>5. d["theme"] = IF writes[1].key = "theme" THEN writes[1].value ELSE b["theme"]
    BY <2>3 DEF Prefs
  <2>6. Distinct(writes')
    BY <2>1, DistinctTail
  <2>7. CASE WriteLands
    <3>1. Shows(Tail(writes), cache, d) /\ Chained(Tail(writes), d)
      BY <2>1, <2>3, ShowsLanded, ChainedLanded
    <3> HIDE DEF d
    <3>2. cache' = cache /\ d["theme"] \in wanted'
      BY <2>2, <2>3, <2>5, <2>7 DEF WriteLands
    <3> QED
      BY <2>1, <2>4, <2>6, <3>1, <3>2
  <2>8. CASE WriteRejected
    <3>1. cache' = Rolled(writes[1], cache) /\ wanted' = wanted
      BY <2>2, <2>8 DEF WriteRejected, RolledBack, Rolled
    <3>2. \E e \in Prefs : /\ Shows(Tail(writes), Rolled(writes[1], cache), e)
                           /\ Chained(Tail(writes), e) /\ (e = b \/ e = d)
      BY <2>1, <2>3, BasedRejected
    <3> HIDE DEF d
    <3>3. d["theme"] \in wanted
      BY <2>2, <2>3, <2>5 DEF PendingWanted
    <3> QED
      BY <2>1, <2>3, <2>6, <3>1, <3>2, <3>3
  <2> QED
    BY <1>3, <2>7, <2>8
<1>4. CASE OpenFresh \/ SetFlag
  <2>1. "migrated" \in PrefKeys /\ "1" \in PrefValues
    BY DEF PrefKeys, PrefValues
  <2>2. SetItem("migrated", "1") /\ UNCHANGED <<nativeOn, wanted>>
    BY <1>4 DEF OpenFresh, SetFlag
  <2> QED
    BY <2>1, <2>2, BasedSet
<1>5. ASSUME NEW v \in Themes \union {Unset}, ChooseTheme(v) PROVE Based'
  <2>1. v \in PrefValues
    BY DEF PrefValues
  <2>2. SetItem("theme", v) /\ UNCHANGED nativeOn /\ wanted \subseteq wanted'
    BY <1>5 DEF ChooseTheme
  <2> QED
    BY <2>1, <2>2, BasedSet
<1>6. CASE \/ Launch \/ Mark \/ ClearLocal \/ OpenMigrated \/ Migrate \/ DeleteDexie
           \/ DeleteFails \/ FallBackToDexie \/ Edit \/ Push \/ Pull
           \/ UNCHANGED deviceVars
  <2>1. UNCHANGED <<cache, nativeOn, writes, wanted, repeats>>
    BY <1>6 DEF Launch, Mark, ClearLocal, OpenMigrated, Migrate, DeleteDexie, DeleteFails,
        FallBackToDexie, Edit, Push, Pull, deviceVars, prefVars
  <2> QED
    BY <2>1 DEF Based
<1> QED
  BY <1>1, <1>2, <1>3, <1>4, <1>5, <1>6 DEF DeviceNext, DeviceStep

(***************************************************************************)
(* The preference the session shows is the one stored last or one chosen   *)
(* since, through the move, kills at any point, calls of Preferences that  *)
(* throw, and any number of rejected writes if none of them repeats a      *)
(* value in flight.  It says nothing of a session after the move that has  *)
(* no native Preferences.                                                  *)
(***************************************************************************)
THEOREM PreferenceSurvives == DeviceSpec => []PreferenceIsKept
<1> DEFINE Inv == MoveInv /\ CacheInv /\ PendingWanted /\ ThemeStored /\ Based
<1>1. Typed /\ Inv => PreferenceIsKept
  <2> SUFFICES ASSUME PrefsTyped, Inv, stage = "up", nativeOn \/ ~marked,
                      rejected = 0 \/ repeats = 0
               PROVE  GetItem("theme") \in wanted
    BY TypedParts DEF PreferenceIsKept
  <2>1. CASE ~nativeOn
    BY <2>1 DEF ThemeStored, GetItem
  <2>2. CASE nativeOn
    <3>1. \E b \in Prefs : Shows(writes, cache, b) /\ b["theme"] \in wanted
      <4>1. CASE rejected = 0
        <5>1. Shows(writes, cache, native) /\ native \in Prefs
          BY <2>2, <4>1 DEF CacheInv, PrefsTyped
        <5>2. native["theme"] \in wanted
          BY <2>2 DEF ThemeStored
        <5> QED
          BY <5>1, <5>2
      <4>2. CASE repeats = 0
        BY <2>2, <4>2 DEF Based
      <4> QED
        BY <4>1, <4>2
    <3>2. PICK b \in Prefs : ShowsKey(writes, cache, b, "theme") /\ b["theme"] \in wanted
      BY <3>1 DEF Shows, PrefKeys
    <3> QED
      BY <2>2, <3>2 DEF ShowsKey, PendingWanted, GetItem
  <2> QED
    BY <2>1, <2>2
<1>2. DeviceInit => Inv
  BY MoveInit, CacheInit, KeptInit
<1>3. Typed /\ Inv /\ [DeviceNext]_deviceVars => Inv'
  BY MoveNext, CacheNext, PendingWantedNext, ThemeStoredNext, BasedNext, TypedParts
<1> HIDE DEF Inv
<1> QED
  BY <1>1, <1>2, <1>3, AlwaysTyped, PTL DEF DeviceSpec

=============================================================================
