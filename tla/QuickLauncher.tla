---------------------------- MODULE QuickLauncher ---------------------------
(***************************************************************************)
(* The launcher of the main window (guis/guis.go): the search field, the   *)
(* rows it finds and the selected row, over the window's list of saved     *)
(* profiles and the store behind it.  The connection manager and the       *)
(* editor change the list and the active profile as well, and a new        *)
(* language has the window built again.                                    *)
(*                                                                         *)
(* Selecting a row in the table, by mouse, arrow, Home, End or F3 key,     *)
(* tells the window, which makes the profile the active one of the store.  *)
(* What the store does is ConnectionStore's subject: here a save is        *)
(* committed or not and its report may be wrong in one direction, a save   *)
(* that has been committed may be reported to have failed.                 *)
(***************************************************************************)
EXTENDS ConnectionSearch, Settings

CONSTANTS Stock,      \* the profiles that may be created, as they are at first
          Queries,    \* the queries that may be typed
          Limit,      \* quickConnectionLimit, 12 in the code
          MaxClock    \* bound on the time, which is the number of uses

ASSUME LauncherAssumption ==
    /\ IsFiniteSet(Stock) /\ Stock \subseteq Profiles
    /\ \A p, o \in Stock : p.id = o.id => p = o
    /\ <<>> \in Queries /\ Queries \subseteq Seq(Seq(Terms))
    /\ {Limit, MaxClock} \subseteq Nat \ {0}

VARIABLES
    store,      \* the store's profiles and its active ID
    allRows,    \* a.allRows, as a set
    query,      \* a.searchInput.Text()
    rows,       \* a.rows
    idx,        \* a.idx, 0 for none
    clock       \* the time of the last use

launcher == <<store, allRows, query, rows, idx, clock>>
windowVars == <<launcher, settings>>

NoID == 0
IDsOf(profiles) == {p.id : p \in profiles}
Upsert(profiles, p) == {o \in profiles : o.id # p.id} \cup {p}

\* sortConnectionsForNavigator, and the first profile in its order.
NavigatorBefore(p, o) ==
    CASE p.used # o.used -> p.used > o.used
      [] p.used = o.used /\ p.texts["group"] # o.texts["group"] ->
            Before(p.texts["group"], o.texts["group"])
      [] OTHER -> Before(p.name, o.name) \/ (p.name = o.name /\ p.id < o.id)
FirstID(profiles) ==
    IF profiles = {} THEN NoID
    ELSE (CHOOSE p \in profiles : \A o \in profiles \ {p} : NavigatorBefore(p, o)).id

\* normalizedActiveProfileID.
Normalized(profiles, id) == IF id \in IDsOf(profiles) THEN id ELSE FirstID(profiles)

Saved(profiles, id) == [profiles |-> profiles, active |-> Normalized(profiles, id)]

\* The store after SetActive, which may fail.
Activated(s, id) == {s, [s EXCEPT !.active = Normalized(s.profiles, id)]}

\* activeConnectionIndex; first is StartWithFirstConnection.
ActiveRow(shown, id, first) ==
    CASE shown = <<>>              -> 0
      [] shown # <<>> /\ first     -> 1
      [] shown # <<>> /\ ~first    -> Max({1, RowOf(shown, id)})

\* UITableView.SelectRow: the table tells the window, which makes the row's profile the
\* active one of the store s.
SelectIn(s, shown, row) == IF row = 0 THEN {s} ELSE Activated(s, shown[row].id)

WindowInit ==
    /\ SettingsInit
    /\ clock = 1
    /\ query = <<>>
    /\ allRows \in SUBSET Stock
    /\ \E id \in IDsOf(Stock) \cup {NoID} :
          LET saved == Saved(allRows, id)
          IN  /\ rows = RowsWithSelection(allRows, <<>>, Limit, clock, saved.active)
              /\ idx = ActiveRow(rows, saved.active, cfg.first)
              /\ store \in SelectIn(saved, rows, idx)

-----------------------------------------------------------------------------
\* refreshNavigator: the rows for what is searched, and the preferred row.
RefreshNavigator(profiles, q, id, active) ==
    /\ query' = q
    /\ rows' = RowsWithSelection(profiles, q, Limit, clock', id)
    /\ idx' = IF RowOf(rows', id) # 0 THEN RowOf(rows', id) ELSE ActiveRow(rows', active, cfg.first)

\* jumpToSearchMatch: the text of the search has changed, the first match is selected.
\* A table that shows its first row already need not tell the window.
Type(q) ==
    /\ q # query
    /\ clock' = clock
    /\ LET found == RowsWithSelection(allRows, q, Limit, clock, store.active)
           first == IF found = <<>> THEN 0 ELSE 1
       IN  \/ /\ RefreshNavigator(allRows, q, store.active, store.active)
              /\ idx = first
              /\ store' = store
           \/ /\ query' = q
              /\ rows' = found
              /\ idx' = first
              /\ store' \in SelectIn(store, found, first)
    /\ UNCHANGED allRows

\* A row is selected in the table: by the mouse, or by a key of the search field
\* (moveSearchSelection, cycleSearchSelection, selectSearchResult).
Select(row) ==
    /\ row # idx
    /\ idx' = row
    /\ store' \in SelectIn(store, rows, row)
    /\ UNCHANGED <<allRows, query, rows, clock>>

-----------------------------------------------------------------------------
\* Variant: the rows that are shown are left alone.
PersistUnpublished(p, q, now, then) ==
    LET saved == Saved(Upsert(allRows, p), p.id)
    IN  /\ store' = saved
        /\ allRows' = saved.profiles
        /\ clock' = now
        /\ query' = q
        /\ UNCHANGED <<rows, idx>>

\* persistProfile, which publishes what it has saved: the profile p is saved as the
\* active one; then the caller goes on in the state of the refreshed window.  A save
\* that fails, or seems to, leaves the window as it is.
PersistProfile(p, q, now, selects) ==
    LET saved == Saved(Upsert(allRows, p), p.id)
    IN  /\ allRows' = saved.profiles
        /\ clock' = now
        /\ RefreshNavigator(saved.profiles, q, p.id, p.id)
        /\ store' \in IF selects THEN SelectIn(saved, rows', idx') ELSE {saved}

PersistFails(p) ==
    /\ store' \in {store, Saved(Upsert(allRows, p), p.id)}
    /\ UNCHANGED <<allRows, query, rows, clock>>

\* activateConnectionRow: the profile of the row is stamped and saved, then opened.
Activate(row) ==
    LET used == [rows[row] EXCEPT !.used = clock + 1]
    IN  /\ clock < MaxClock
        /\ \/ PersistProfile(used, query, clock + 1, TRUE)
           \/ PersistFails(used) /\ idx' = row

\* toggleFavorite of the launcher's menu (of its selected row), or of the manager
\* (of any profile).
ToggleFavorite(p) ==
    LET toggled == [p EXCEPT !.favorite = ~@]
    IN  \/ PersistProfile(toggled, query, clock, FALSE)
        \/ PersistFails(toggled) /\ UNCHANGED idx

\* connectionEditor.save: of a new profile, or of one with a new name.  The editor
\* clears the search after the save, and selects the profile in the table.
EditorSave(p) ==
    \/ PersistProfile(p, <<>>, clock, TRUE)
    \/ PersistFails(p) /\ UNCHANGED idx

-----------------------------------------------------------------------------
\* removeSelectedProfile: the next row becomes the active one; the rows are not refilled.
DeleteSelected ==
    LET left == {p \in allRows : p.id # rows[idx].id}
        shown == RemoveAt(rows, idx)
        next == Min({idx, Len(shown)})
        saved == Saved(left, IF next = 0 THEN NoID ELSE shown[next].id)
    IN  /\ idx # 0
        /\ \/ /\ store' = saved
              /\ allRows' = left
              /\ rows' = shown
              /\ idx' = next
           \/ /\ store' \in {store, saved}
              /\ UNCHANGED <<allRows, rows, idx>>
        /\ UNCHANGED <<query, clock>>

\* deleteProfileConfirmed of the connection manager: the first profile of the list
\* becomes the active one.
ManagerDelete(id) ==
    LET left == {p \in allRows : p.id # id}
        saved == Saved(left, FirstID(left))
    IN  \/ /\ allRows' = left
           /\ rows' = RowsWithSelection(left, query, Limit, clock, saved.active)
           /\ idx' = ActiveRow(rows', saved.active, cfg.first)
           /\ store' \in SelectIn(saved, rows', idx')
           /\ UNCHANGED <<query, clock>>
        \/ /\ store' \in {store, saved}
           /\ UNCHANGED <<allRows, query, rows, idx, clock>>

\* selectRow of the connection manager.
ManagerSelect(id) ==
    /\ id # store.active
    /\ store' \in Activated(store, id)
    /\ UNCHANGED <<allRows, query, rows, idx, clock>>

-----------------------------------------------------------------------------
\* The launcher over the profiles of the store, built with the rows shown.
Built(shown) ==
    /\ allRows' = store.profiles
    /\ query' = <<>>
    /\ clock' = clock
    /\ rows' = shown
    /\ idx' = ActiveRow(shown, store.active, cfg'.first)
    /\ store' \in SelectIn(store, shown, idx')

\* Run, with what connectionStore.Load has read.
Start ==
    /\ RestartSettings
    /\ Built(RowsWithSelection(store.profiles, <<>>, Limit, clock, store.active))

\* The settings are saved; a new language has the window built again
\* (rebuildForLanguage), without a row for the active profile.
SaveAndRebuild ==
    /\ SaveSettings
    /\ IF locale' = locale THEN UNCHANGED launcher
       ELSE Built(NavigatorRows(store.profiles, <<>>, Limit, clock))

LauncherStep ==
    \/ \E q \in Queries : Type(q)
    \/ \E row \in DOMAIN rows : Select(row) \/ Activate(row)
    \/ \E p \in allRows : ToggleFavorite(p)
    \/ \E p \in Stock :
          \/ p.id \notin IDsOf(allRows) /\ EditorSave(p)
          \/ \E o \in allRows : o.name # p.name /\ EditorSave([o EXCEPT !.name = p.name])
    \/ DeleteSelected
    \/ \E id \in IDsOf(allRows) : ManagerDelete(id) \/ ManagerSelect(id)

WindowNext ==
    \/ LauncherStep /\ UNCHANGED settings
    \/ SettingsStep /\ UNCHANGED launcher
    \/ SaveAndRebuild
    \/ Start

WindowSpec == WindowInit /\ [][WindowNext]_windowVars

-----------------------------------------------------------------------------
\* A start of the program does not by itself make another profile the active one
\* ("prevents startup table selection from silently replacing the persisted active
\* profile", guis.go:2023), unless the first row is to be selected at the start.
StartupKeepsActive == [][Start /\ ~cfg'.first => store'.active = store.active]_windowVars

\* What is shown, and so what Enter opens and saves back, is the window's present copy
\* of the profile, under every order of edits, uses, deletions and searches.
RowsFresh ==
    /\ ToSet(rows) \subseteq allRows
    /\ \A i, j \in DOMAIN rows : rows[i].id = rows[j].id => i = j
    /\ (idx = 0) = (rows = <<>>)
    /\ idx \in 0..Len(rows)

\* A search shows exactly the profiles that it means, none for a query that cannot be
\* read; and for a single word the profile of that name comes before the names that
\* begin with it, then those that contain it, then the rest.
Likeness(p, value) ==
    CASE p.name = value           -> 0
      [] IsStrictPrefix(value, p.name) -> 1
      [] OTHER                    -> IF OccursIn(value, p.name) THEN 2 ELSE 3

SearchSound ==
    query # <<>> =>
        /\ ToSet(rows) = {p \in allRows : Readable(query) /\ Meant(p, query, clock)}
        /\ \A t \in ToSet(query[1]) :
              query = <<<<t>>>> /\ t.field = "any" /\ ~t.exclude =>
                  \A i, j \in DOMAIN rows :
                      i < j => Likeness(rows[i], t.value) <= Likeness(rows[j], t.value)
=============================================================================
