---------------------------- MODULE CompatRefresh ----------------------------
(***************************************************************************)
(* The emulation-compatibility refresh of one owned game                   *)
(* (server/src/emulation-compat/refresh.ts, scheduler.ts,                  *)
(* scripts/compat-match-cli.ts).                                           *)
(*                                                                         *)
(* A refresh downloads the emulator's list, reads every owned game with    *)
(* its emulation_compat_status row ONCE, and then works from what it read: *)
(* a bound game takes the status of the entry it is bound to, an unbound   *)
(* one below the best status that of the entry its title matches, and the  *)
(* payload follows the row.  Nothing keeps two refreshes (the scheduler's  *)
(* and the administrator's) or the binding command apart.                  *)
(***************************************************************************)
EXTENDS Integers, FiniteSets

CONSTANTS
    Entries,        \* entries of the emulator's list, by their identity
    Statuses,       \* compatibility statuses
    Best,           \* the platform's bestStatus
    Matched,        \* the entry findBestTitleMatch picks for the game's title
    NoStatus,       \* an entry that is not listed, a payload without compatStatus
    NoEntry,        \* the game has no row; the administrator wants no binding
    Refreshers,     \* runs of refreshCompatSource: the scheduler's, the admin route's
    MaxReports,     \* bound: how often the list changes
    MaxCommands,    \* bound: bind and clear commands
    MaxSnags        \* bound: crashes, failed statements, pushes of an old copy

ASSUME CompatAssumption ==
    /\ Best \in Statuses /\ Matched \in Entries
    /\ NoStatus \notin Statuses /\ NoEntry \notin Entries
    /\ MaxReports \in Nat /\ MaxCommands \in Nat /\ MaxSnags \in Nat

VARIABLES
    list,           \* [Entries -> status the emulator's list gives, or NoStatus]
    row,            \* the game's emulation_compat_status row
    shown,          \* games.payload ->> 'compatStatus'
    refresher,      \* [Refreshers -> the refresh it runs]
    command,        \* the status the bind command has yet to write to the payload
    wanted,         \* history: the entry the administrator last bound the game to
    overlaps,       \* history: bind commands given while a refresh was under way
    reports, commands, snags

compatVars == <<list, row, shown, refresher, command, wanted, overlaps, reports, commands, snags>>
asked == <<command, wanted, overlaps, commands>>

Rows == [source : Entries \union {NoEntry}, status : Statuses \union {NoStatus}, bound : BOOLEAN]
NoRow == [source |-> NoEntry, status |-> NoStatus, bound |-> FALSE]
Asleep == [at |-> "idle", list |-> [e \in Entries |-> NoStatus], row |-> NoRow,
           shown |-> NoStatus, status |-> NoStatus]

CompatInit ==
    /\ list \in [Entries -> Statuses \union {NoStatus}]
    /\ row = NoRow /\ shown = NoStatus
    /\ refresher = [r \in Refreshers |-> Asleep]
    /\ command = NoStatus /\ wanted = NoEntry /\ overlaps = 0
    /\ reports = 0 /\ commands = 0 /\ snags = 0

Moves(r, f) == refresher' = [refresher EXCEPT ![r] = f]

\* The emulator's site reports another status for an entry, or drops it.
Report(e, s) ==
    /\ reports < MaxReports /\ list[e] # s
    /\ list' = [list EXCEPT ![e] = s] /\ reports' = reports + 1
    /\ UNCHANGED <<row, shown, refresher, asked, snags>>

\* A client pushes a copy of the game with an older compatStatus (a null one is ignored).
PushShown(s) ==
    /\ snags < MaxSnags /\ s # shown
    /\ shown' = s /\ snags' = snags + 1
    /\ UNCHANGED <<list, row, refresher, asked, reports>>

\* fetchCompatList
FetchList(r) ==
    /\ refresher[r].at = "idle"
    /\ Moves(r, [Asleep EXCEPT !.at = "load", !.list = list])
    /\ UNCHANGED <<list, row, shown, asked, reports, snags>>

\* loadOwnedGamesForPlatform: what the refresh decides by from here on.
LoadGame(r) ==
    /\ refresher[r].at = "load"
    /\ Moves(r, [refresher[r] EXCEPT !.at = "status", !.row = row, !.shown = shown])
    /\ UNCHANGED <<list, row, shown, asked, reports, snags>>

\* Mutation: the title decides for bound games too.
FollowsTitle(f) == Matched

\* The entry the game follows: the one it is bound to, or the one its title matches.
Follows(f) == IF f.row.bound THEN f.row.source ELSE Matched
Follow(f) == f.list[Follows(f)] # NoStatus /\ (f.row.bound \/ f.row.status # Best)

\* UPDATE for a bound game, without a look at the row; the upsert of an unbound one leaves
\* a row alone that has been bound meanwhile.
WriteStatus(r) ==
    LET f == refresher[r] s == f.list[Follows(f)] IN
    /\ f.at = "status" /\ Follow(f)
    /\ row' = IF f.row.bound \/ ~row.bound
              THEN [row EXCEPT !.status = s, !.source = Follows(f)] ELSE row
    /\ Moves(r, [f EXCEPT !.at = "patch", !.status = s])
    /\ UNCHANGED <<list, shown, asked, reports, snags>>

\* Mutation: a refresh that leaves the row alone leaves the payload alone.
NoBackfill(r) ==
    /\ refresher[r].at = "status" /\ ~Follow(refresher[r])
    /\ Moves(r, Asleep)
    /\ UNCHANGED <<list, row, shown, asked, reports, snags>>

\* Neither loop touches the game; its payload is brought up to the row that was read.
Backfill(r) ==
    LET f == refresher[r] IN
    /\ f.at = "status" /\ ~Follow(f)
    /\ Moves(r, IF f.row.status \notin {NoStatus, f.shown}
                THEN [f EXCEPT !.at = "patch", !.status = f.row.status] ELSE Asleep)
    /\ UNCHANGED <<list, row, shown, asked, reports, snags>>

\* applyGamePayloadPatch, then the notification (see SaleAlerts) and the source state.
PatchShown(r) ==
    /\ refresher[r].at = "patch"
    /\ shown' = refresher[r].status
    /\ Moves(r, Asleep)
    /\ UNCHANGED <<list, row, asked, reports, snags>>

\* A statement throws or the process dies; the refresh stays due.
RefreshFails(r) ==
    /\ refresher[r].at # "idle" /\ snags < MaxSnags
    /\ snags' = snags + 1
    /\ Moves(r, Asleep)
    /\ UNCHANGED <<list, row, shown, asked, reports>>

\* compat:match set binds the game to an entry of the list, then patches the payload.
Bind(e) ==
    /\ command = NoStatus /\ commands < MaxCommands /\ list[e] # NoStatus
    /\ row' = [source |-> e, status |-> list[e], bound |-> TRUE]
    /\ command' = list[e] /\ wanted' = e /\ commands' = commands + 1
    /\ overlaps' = IF \E r \in Refreshers : refresher[r].at \in {"status", "patch"}
                   THEN overlaps + 1 ELSE overlaps
    /\ UNCHANGED <<list, shown, refresher, reports, snags>>
BindPatches ==
    /\ command # NoStatus
    /\ shown' = command /\ command' = NoStatus
    /\ UNCHANGED <<list, row, refresher, wanted, overlaps, reports, commands, snags>>

\* compat:match clear
Clear ==
    /\ commands < MaxCommands /\ row.bound /\ command = NoStatus
    /\ row' = [row EXCEPT !.bound = FALSE]
    /\ wanted' = NoEntry /\ commands' = commands + 1
    /\ UNCHANGED <<list, shown, refresher, command, overlaps, reports, snags>>

RefreshStep(r) == FetchList(r) \/ LoadGame(r) \/ WriteStatus(r) \/ Backfill(r) \/ PatchShown(r)
CompatNext ==
    \/ \E e \in Entries : Bind(e) \/ \E s \in Statuses \union {NoStatus} : Report(e, s)
    \/ \E s \in Statuses : PushShown(s)
    \/ \E r \in Refreshers : RefreshStep(r) \/ RefreshFails(r)
    \/ BindPatches \/ Clear

CompatSpec == CompatInit /\ [][CompatNext]_compatVars

\* The scheduler starts a refresh when one is due, and a refresh and a command end.
CompatFairness ==
    /\ \A r \in Refreshers : WF_compatVars(RefreshStep(r))
    /\ WF_compatVars(BindPatches)

-----------------------------------------------------------------------------
CompatTypeOK ==
    /\ list \in [Entries -> Statuses \union {NoStatus}]
    /\ row \in Rows
    /\ shown \in Statuses \union {NoStatus}
    /\ refresher \in [Refreshers ->
         [at : {"idle", "load", "status", "patch"}, list : [Entries -> Statuses \union {NoStatus}],
          row : Rows, shown : Statuses \union {NoStatus}, status : Statuses \union {NoStatus}]]
    /\ command \in Statuses \union {NoStatus}
    /\ wanted \in Entries \union {NoEntry}
    /\ overlaps \in 0..commands
    /\ reports \in 0..MaxReports /\ commands \in 0..MaxCommands /\ snags \in 0..MaxSnags

(***************************************************************************)
(* "Binds the game to a specific upstream compat-list entry": the game     *)
(* stays bound to the entry the administrator chose, unless the command    *)
(* was given while a refresh that had read the game was under way.         *)
(***************************************************************************)
BindingIsKept ==
    wanted # NoEntry /\ overlaps = 0 => row.bound /\ row.source = wanted

(***************************************************************************)
(* Whatever crashes, is pushed over or runs at once: when the list and the *)
(* bindings rest, the payload settles on the status of the row, and the    *)
(* row of a bound game on what the list says of its entry.                 *)
(***************************************************************************)
CompatSettles ==
    <>[](/\ row.status # NoStatus => shown = row.status
         /\ row.bound /\ list[row.source] # NoStatus => row.status = list[row.source])
=============================================================================
