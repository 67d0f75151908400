---------------------------- MODULE DeviceStorage ----------------------------
(***************************************************************************)
(* The storage of a native install that upgrades from IndexedDB and        *)
(* localStorage to SQLite and native Preferences                           *)
(* (app/core/storage/preference-storage.service.ts,                        *)
(*  app/core/data/storage-engine.factory.ts, storage-migration.service.ts).*)
(*                                                                         *)
(* Each launch first moves the preferences and fills their cache, then     *)
(* opens SQLite and copies the IndexedDB data into it unless a flag,       *)
(* itself a preference, says that this has been done.  A part that fails   *)
(* is replaced for the session: localStorage for Preferences, IndexedDB    *)
(* (Dexie) for SQLite.  The app may be killed between any two awaits.      *)
(*                                                                         *)
(* One game is modelled: edit e makes it version e and puts e into the     *)
(* outbox.  GameSync models push and pull in detail; here each is a step.  *)
(***************************************************************************)
EXTENDS Integers, Sequences, FiniteSets

CONSTANTS
    Themes,         \* values of a preference the user sets
    Unset,          \* no value under a key
    NoDatabase,     \* Dexie.exists says no
    MaxEdits,       \* bound: edits of the game
    MaxChoices,     \* bound: writes of the preference
    MaxLaunches,    \* bound: launches of the app
    MaxGlitches     \* bound: failures of the platform's storage

\* The cursor of a database in which no pull has stored one: there is no row of syncMeta.
NoCursor == -1

\* What a database holds: the game's version, its outbox, the sync cursor.
Stores == [version : 0..MaxEdits, outbox : SUBSET (1..MaxEdits), cursor : Nat \union {NoCursor}]

ASSUME DeviceAssumption ==
    /\ NoDatabase \notin Stores
    /\ Unset \notin Themes /\ "1" \notin Themes /\ Unset # "1"
    /\ MaxEdits \in Nat \ {0} /\ {MaxChoices, MaxLaunches, MaxGlitches} \subseteq Nat

PrefKeys == {"theme", "migrated"}       \* "migrated" is SQLITE_MIGRATION_KEY
PrefValues == Themes \union {Unset, "1"}
NoPrefs == [k \in PrefKeys |-> Unset]

VARIABLES
    local,          \* localStorage
    native,         \* what native Preferences hold
    marked,         \* PREFERENCE_STORAGE_MIGRATION_KEY is set in Preferences
    cache,          \* PreferenceStorageService.cache
    nativeOn,       \* nativePreferencesEnabled
    writes,         \* calls of Preferences.set and remove that have not settled
    stage,          \* how far the launch has come
    moving,         \* migratedKeys that are still to be copied, or to be removed
    engine,         \* StorageEngineFactory.engine
    dexie, sqlite,  \* the databases
    server,         \* the edits in the order the server accepted them
    wanted,         \* history: values of the preference that may be shown
    leftover,       \* history: the old database outlived its copy
    unwound,        \* history: a copy without a cursor went over a store that had pulled
    strays,         \* history: Dexie sessions of which the next launch copies nothing
    rejected, repeats,  \* history: writes that failed, that repeated a value in flight
    edits, choices, launches, glitches

prefVars == <<local, native, marked, cache, nativeOn, writes, wanted, rejected, repeats>>
dataVars == <<dexie, sqlite, server, leftover, unwound, edits>>
deviceVars == <<prefVars, stage, moving, engine, dataVars, strays, choices, launches, glitches>>
counts == <<strays, choices, launches, glitches>>

EmptyStore == [version |-> 0, outbox |-> {}, cursor |-> NoCursor]

\* An install that has been used: one edit waits in the IndexedDB outbox, and it has
\* never pulled, or only from a server without changes.
DeviceInit ==
    /\ local \in [theme : Themes, migrated : {Unset}]
    /\ native = NoPrefs /\ marked = FALSE
    /\ cache = NoPrefs /\ nativeOn = FALSE /\ writes = <<>>
    /\ stage = "down" /\ moving = {} /\ engine = "none"
    /\ dexie \in [version : {1}, outbox : {{1}}, cursor : {NoCursor, 0}]
    /\ sqlite = EmptyStore
    /\ server = <<>>
    /\ wanted = {local["theme"]} /\ leftover = FALSE /\ unwound = FALSE /\ strays = 0
    /\ rejected = 0 /\ repeats = 0
    /\ edits = 1 /\ choices = 0 /\ launches = 0 /\ glitches = 0

Glitch == glitches < MaxGlitches /\ glitches' = glitches + 1
Reach(s) == stage' = s

-----------------------------------------------------------------------------
(* PreferenceStorageService *)

GetItem(k) == IF nativeOn THEN cache[k] ELSE local[k]

\* setItem and removeItem: the cache at once, Preferences later; or localStorage.
SetItem(k, v) ==
    IF nativeOn
    THEN /\ cache' = [cache EXCEPT ![k] = v]
         /\ writes' = Append(writes, [key |-> k, value |-> v, before |-> cache[k]])
         /\ repeats' = IF \E i \in DOMAIN writes : writes[i].key = k /\ writes[i].value = v
                       THEN repeats + 1 ELSE repeats
         /\ UNCHANGED local
    ELSE local' = [local EXCEPT ![k] = v] /\ UNCHANGED <<cache, writes, repeats>>

\* main.ts starts PreferenceStorageService.initialize().
Launch ==
    /\ stage = "down" /\ launches < MaxLaunches
    /\ launches' = launches + 1
    /\ moving' = IF marked THEN {} ELSE {k \in PrefKeys : local[k] # Unset}
    /\ Reach("copy")
    /\ UNCHANGED <<prefVars, engine, dataVars, strays, choices, glitches>>

\* migrateFromLocalStorageIfNeeded, one awaited Preferences.set at a time.
CopyKey(k) ==
    /\ stage = "copy" /\ k \in moving /\ native[k] # local[k]
    /\ native' = [native EXCEPT ![k] = local[k]]
    /\ UNCHANGED <<local, marked, cache, nativeOn, writes, wanted, rejected, repeats,
                   stage, moving, engine, dataVars, counts>>

\* Mutation: hydration does not wait for the copies.
CopiedOrNot == TRUE

\* hydrateCacheFromPreferences, when all are copied.
Copied == \A k \in moving : native[k] = local[k]
Hydrate ==
    /\ stage = "copy" /\ Copied
    /\ cache' = native /\ nativeOn' = TRUE
    /\ Reach(IF marked THEN "open" ELSE "mark")
    /\ UNCHANGED <<local, native, marked, writes, wanted, rejected, repeats,
                   moving, engine, dataVars, counts>>

\* finalizeMigration: the mark is awaited, then the copies in localStorage go.
Mark ==
    /\ stage = "mark"
    /\ marked' = TRUE
    /\ Reach("clear")
    /\ UNCHANGED <<local, native, cache, nativeOn, writes, wanted, rejected, repeats,
                   moving, engine, dataVars, counts>>
ClearLocal ==
    /\ stage = "clear"
    /\ local' = [k \in PrefKeys |-> IF k \in moving THEN Unset ELSE local[k]]
    /\ Reach("open")
    /\ UNCHANGED <<native, marked, cache, nativeOn, writes, wanted, rejected, repeats,
                   moving, engine, dataVars, counts>>

\* A call to Preferences throws: the session uses localStorage.
PreferencesFail ==
    /\ stage \in {"copy", "mark"} /\ Glitch
    /\ cache' = NoPrefs /\ nativeOn' = FALSE
    /\ Reach("open")
    /\ UNCHANGED <<local, native, marked, writes, wanted, rejected, repeats,
                   moving, engine, dataVars, strays, choices, launches>>

\* The oldest call of Preferences.set or remove settles: calls are carried out in order.
WriteLands ==
    /\ writes # <<>>
    /\ LET w == Head(writes) IN
       /\ native' = [native EXCEPT ![w.key] = w.value]
       /\ wanted' = IF w.key # "theme" THEN wanted
                    ELSE {w.value} \union {writes[i].value : i \in {i \in DOMAIN writes :
                                                     i > 1 /\ writes[i].key = "theme"}}
    /\ writes' = Tail(writes)
    /\ UNCHANGED <<local, marked, cache, nativeOn, rejected, repeats,
                   stage, moving, engine, dataVars, counts>>

\* Mutation: whatever the cache shows.
RolledBackBlindly(w) == [cache EXCEPT ![w.key] = w.before]

\* ... or is rejected: the value before comes back, unless the cache shows another one.
RolledBack(w) == IF cache[w.key] = w.value THEN [cache EXCEPT ![w.key] = w.before] ELSE cache
WriteRejected ==
    /\ writes # <<>> /\ Glitch
    /\ cache' = RolledBack(Head(writes))
    /\ writes' = Tail(writes)
    /\ rejected' = rejected + 1
    /\ UNCHANGED <<local, native, marked, nativeOn, wanted, repeats,
                   stage, moving, engine, dataVars, strays, choices, launches>>

-----------------------------------------------------------------------------
(* StorageEngineFactory.initialize and StorageMigrationService.migrateIfNeeded *)

Open(e) == engine' = e /\ Reach("up")

\* The flag is set.
OpenMigrated ==
    /\ stage = "open" /\ GetItem("migrated") = "1"
    /\ Open("sqlite")
    /\ UNCHANGED <<prefVars, moving, dataVars, counts>>

\* It is not, but there is no IndexedDB database: a fresh install.
OpenFresh ==
    /\ stage = "open" /\ GetItem("migrated") # "1" /\ dexie = NoDatabase
    /\ SetItem("migrated", "1")
    /\ Open("sqlite")
    /\ UNCHANGED <<native, marked, nativeOn, wanted, rejected, moving, dataVars, counts>>

\* Mutations: the outbox is not copied; the cursor is kept.
MigratedRows == [sqlite EXCEPT !.version = IF dexie.version # 0 THEN dexie.version ELSE @,
                               !.cursor = IF dexie.cursor # NoCursor THEN dexie.cursor ELSE @]
MigratedWithoutCursor ==
    [version |-> IF dexie.version # 0 THEN dexie.version ELSE sqlite.version,
     outbox  |-> sqlite.outbox \union dexie.outbox,
     cursor  |-> sqlite.cursor]

\* There is one: its rows, outbox and cursor replace those of their keys, in one transaction;
\* what it has no row for is left as it is, and so is the cursor.
Migrated == [version |-> IF dexie.version # 0 THEN dexie.version ELSE sqlite.version,
             outbox  |-> sqlite.outbox \union dexie.outbox,
             cursor  |-> IF dexie.cursor # NoCursor THEN dexie.cursor ELSE sqlite.cursor]
Migrate ==
    /\ stage = "open" /\ GetItem("migrated") # "1" /\ dexie # NoDatabase
    /\ sqlite' = Migrated
    /\ unwound' = (unwound \/ (dexie.cursor = NoCursor /\ sqlite.cursor # NoCursor))
    /\ Reach("flag")
    /\ UNCHANGED <<prefVars, moving, engine, dexie, server, leftover, edits, counts>>

\* The flag is not awaited; the old database is deleted.
SetFlag ==
    /\ stage = "flag"
    /\ SetItem("migrated", "1")
    /\ Reach("cleanup")
    /\ UNCHANGED <<native, marked, nativeOn, wanted, rejected, moving, engine, dataVars, counts>>
DeleteDexie ==
    /\ stage = "cleanup"
    /\ dexie' = NoDatabase
    /\ Open("sqlite")
    /\ UNCHANGED <<prefVars, moving, sqlite, server, leftover, unwound, edits, counts>>

\* A failed deletion is swallowed.
DeleteFails ==
    /\ stage = "cleanup" /\ Glitch
    /\ leftover' = TRUE
    /\ Open("sqlite")
    /\ UNCHANGED <<prefVars, moving, dexie, sqlite, server, unwound, edits, strays, choices,
                   launches>>

\* What the next launch will find under the flag.
NextFlag == IF ~marked /\ local["migrated"] # Unset THEN local["migrated"] ELSE native["migrated"]

\* SQLite cannot be opened, or the copy throws: Dexie, for this session.
FallBackToDexie ==
    /\ stage = "open" /\ Glitch
    /\ dexie' = IF dexie = NoDatabase THEN EmptyStore ELSE dexie
    /\ strays' = IF NextFlag = "1" THEN strays + 1 ELSE strays
    /\ Open("dexie")
    /\ UNCHANGED <<prefVars, moving, sqlite, server, leftover, unwound, edits, choices,
                   launches>>

-----------------------------------------------------------------------------
(* The app in use, and its end. *)

Store == IF engine = "sqlite" THEN sqlite ELSE dexie
Keep(s) == IF engine = "sqlite" THEN sqlite' = s /\ UNCHANGED dexie
           ELSE dexie' = s /\ UNCHANGED sqlite

ChooseTheme(v) ==
    /\ stage = "up" /\ choices < MaxChoices
    /\ SetItem("theme", v) /\ wanted' = wanted \union {v}
    /\ choices' = choices + 1
    /\ UNCHANGED <<native, marked, nativeOn, rejected, stage, moving, engine,
                   dataVars, strays, launches, glitches>>

Edit ==
    /\ stage = "up" /\ edits < MaxEdits
    /\ edits' = edits + 1
    /\ Keep([Store EXCEPT !.version = edits + 1, !.outbox = @ \union {edits + 1}])
    /\ UNCHANGED <<prefVars, stage, moving, engine, server, leftover, unwound, counts>>

Accepted == {server[i] : i \in DOMAIN server}
Increasing(ops) ==
    {s \in [1..Cardinality(ops) -> ops] :
        /\ \A i, j \in DOMAIN s : i < j => s[i] < s[j]
        /\ \A e \in ops : \E i \in DOMAIN s : s[i] = e}

\* The server takes each operation once, in the order of the outbox.
Push ==
    /\ stage = "up" /\ Store.outbox # {}
    /\ \E s \in Increasing(Store.outbox \ Accepted) : server' = server \o s
    /\ Keep([Store EXCEPT !.outbox = {}])
    /\ UNCHANGED <<prefVars, stage, moving, engine, leftover, unwound, edits, counts>>

\* The game as the server has it, unless it has no change of it.
Newest(s) == IF server = <<>> THEN s.version ELSE server[Len(server)]

\* Mutation: off by one, the cursor passes the last change.
PullPastEnd ==
    /\ stage = "up" /\ Store.outbox = {} /\ Store.cursor < Len(server)
    /\ Keep([Store EXCEPT !.version = Newest(Store), !.cursor = Len(server) + 1])
    /\ UNCHANGED <<prefVars, stage, moving, engine, server, leftover, unwound, edits, counts>>

\* All changes after the cursor.  The response carries a cursor even if there is none.
Pull ==
    /\ stage = "up" /\ Store.outbox = {} /\ Store.cursor < Len(server)
    /\ Keep([Store EXCEPT !.version = Newest(Store), !.cursor = Len(server)])
    /\ UNCHANGED <<prefVars, stage, moving, engine, server, leftover, unwound, edits, counts>>

\* The app is closed or killed, with what was only in memory.
Killed ==
    /\ stage # "down" /\ launches < MaxLaunches
    /\ Reach("down") /\ engine' = "none" /\ moving' = {}
    /\ cache' = NoPrefs /\ nativeOn' = FALSE /\ writes' = <<>>
    /\ UNCHANGED <<local, native, marked, wanted, rejected, repeats, dataVars, counts>>

DeviceStep ==
    \/ Launch \/ (\E k \in PrefKeys : CopyKey(k)) \/ Hydrate \/ Mark \/ ClearLocal
    \/ OpenMigrated \/ OpenFresh \/ Migrate \/ SetFlag \/ DeleteDexie
    \/ Push \/ Pull
DeviceNext ==
    \/ DeviceStep \/ WriteLands \/ Edit \/ Killed
    \/ \E v \in Themes \union {Unset} : ChooseTheme(v)
    \/ PreferencesFail \/ WriteRejected \/ DeleteFails \/ FallBackToDexie
DeviceSpec == DeviceInit /\ [][DeviceNext]_deviceVars

\* A launch goes on, and an app in use synchronises.
DeviceFairness == WF_deviceVars(DeviceStep)

-----------------------------------------------------------------------------
\* The cursor of a database does not run ahead of the server.
Cursored(s) == s \in Stores /\ s.cursor <= Len(server)
DeviceTypeOK ==
    /\ {local, native, cache} \subseteq [PrefKeys -> PrefValues]
    /\ marked \in BOOLEAN /\ nativeOn \in BOOLEAN
    /\ writes \in Seq([key : PrefKeys, value : PrefValues, before : PrefValues])
    /\ stage \in {"down", "copy", "mark", "clear", "open", "flag", "cleanup", "up"}
    /\ moving \subseteq PrefKeys
    /\ engine \in {"none", "sqlite", "dexie"}
    /\ dexie = NoDatabase \/ Cursored(dexie)
    /\ Cursored(sqlite)
    /\ server \in Seq(1..MaxEdits)
    /\ wanted \subseteq PrefValues /\ {leftover, unwound} \subseteq BOOLEAN

(***************************************************************************)
(* Once every write has settled, the session shows what is stored: a cache *)
(* that differs from Preferences takes two rejected writes, or one and a   *)
(* value written twice.                                                    *)
(***************************************************************************)
CacheMatchesStore ==
    stage = "up" /\ nativeOn /\ writes = <<>> /\ cache # native => rejected + repeats >= 2

(***************************************************************************)
(* The user's preference survives the move, every kill and every call of   *)
(* Preferences that throws: what is shown is the last value that was       *)
(* stored or one chosen since.  Excepted are a session after the move that *)
(* has to do without native Preferences (it shows what the move left in    *)
(* localStorage), and all after a write was rejected and another repeated  *)
(* a value in flight: the rollback takes the repeated value for its own.   *)
(***************************************************************************)
PreferenceIsKept ==
    stage = "up" /\ (nativeOn \/ ~marked) /\ (rejected = 0 \/ repeats = 0)
        => GetItem("theme") \in wanted

(***************************************************************************)
(* No edit is left in a database nobody will read: it is with the server,  *)
(* in SQLite's outbox, or in a Dexie outbox that this session synchronises *)
(* or the next launch copies.  The exception is a session that fell back   *)
(* to Dexie when the next launch would take the data for migrated.         *)
(***************************************************************************)
NoEditIsStranded ==
    \A e \in 1..edits :
        \/ e \in Accepted \/ e \in sqlite.outbox
        \/ dexie # NoDatabase /\ e \in dexie.outbox /\ (engine = "dexie" \/ NextFlag # "1")
        \/ strays > 0

(***************************************************************************)
(* Migrated again or not, on either engine: in the end the outbox is empty *)
(* and the device shows what the server accepted last.  The exception is a *)
(* device whose old database, without a cursor of its own, was copied over *)
(* rows that had been pulled: it keeps the old rows and pulls no change.   *)
(***************************************************************************)
DeviceSettles ==
    <>[](stage = "up" /\ Store.outbox = {}
         /\ (server # <<>> /\ ~unwound => Store.version = server[Len(server)]))

(***************************************************************************)
(* What the comment of migrateIfNeeded says of a deletion that failed:     *)
(* the flag keeps the migration from running again.  It does not when the  *)
(* write of the flag, which nothing waits for, is lost or rejected.        *)
(***************************************************************************)
NoRerunAfterCleanup == [][leftover => ~Migrate]_deviceVars
=============================================================================
