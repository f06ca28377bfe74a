--------------------------- MODULE ConnectionStore --------------------------
(***************************************************************************)
(* connectionStore (guis/guis.go, guis/connection_store_sqlite.go) on the  *)
(* embedded database (internal/database/database.go): the saved connection *)
(* profiles and which of them is active.                                   *)
(*                                                                         *)
(* A transaction of the database is one step; so is the replacement or     *)
(* removal of a file.  A save writes the whole list, commits, and then     *)
(* cleans the deprecated fields of the configuration file, which may fail  *)
(* after the commit.  Load moves the profiles of the legacy file into the  *)
(* database; the program may be killed between any two of its steps.       *)
(*                                                                         *)
(* A list of profiles is a function to their contents, Absent for those it *)
(* does not have; its order, by which a list without a valid selection has *)
(* its first profile selected, is left open.  Encryption is deterministic  *)
(* for IDs and otherwise invisible here.                                   *)
(***************************************************************************)
CONSTANTS Profiles,   \* profile IDs
          Contents,   \* everything else a profile says
          Defaults,   \* the profiles of a first start
          Absent, NoFile, NoProfile

Rows == [Profiles -> Contents \cup {Absent}]

ASSUME StoreAssumption ==
    /\ Absent \notin Contents
    /\ NoFile \notin Rows
    /\ NoProfile \notin Profiles
    /\ Defaults \in Rows

VARIABLES
    db,        \* connections, the active ID and the migration marker
    legacy,    \* connections.json of older versions, or NoFile
    config,    \* the deprecated connections of the configuration file
    phase,     \* how far Load has come
    list,      \* s.list
    activeID   \* s.activeID

store == <<db, legacy, config, phase, list, activeID>>

Saved(rows) == {p \in Profiles : rows[p] # Absent}
Empty == [p \in Profiles |-> Absent]

\* normalizedActiveProfileID: the profile itself if it is in the list, else the first.
Normalized(rows, id) ==
    CASE id \in Saved(rows)  -> {id}
      [] Saved(rows) = {}    -> {NoProfile}
      [] OTHER               -> Saved(rows)

Database == [rows : Rows, active : Profiles \cup {NoProfile}, migrated : BOOLEAN]

StoreTypeOK ==
    /\ db \in Database
    /\ legacy \in Rows \cup {NoFile}
    /\ config \in Rows
    /\ phase \in {"down", "load", "migrated", "up"}
    /\ list \in Rows
    /\ activeID \in Profiles \cup {NoProfile}

\* A new database, or one that has been used; the legacy file may be there in either
\* case when an older version of the program has been run.  A blank file counts as
\* Defaults.
StoreInit ==
    /\ db \in {d \in Database :
                 /\ ~d.migrated => d.rows = Empty /\ d.active = NoProfile
                 /\ d.active \in Normalized(d.rows, d.active)}
    /\ legacy \in Rows \cup {NoFile}
    /\ config \in Rows
    /\ phase = "down"
    /\ list = Empty
    /\ activeID = NoProfile

-----------------------------------------------------------------------------
\* Load, loadSQLiteLocked.

Launch ==
    /\ phase = "down"
    /\ phase' = "load"
    /\ UNCHANGED <<db, legacy, config, list, activeID>>

\* Variant: an empty database is taken for a new one.
NeedsMigrationWhenEmpty == legacy # NoFile \/ Saved(db.rows) = {}

NeedsMigration == legacy # NoFile \/ (Saved(db.rows) = {} /\ ~db.migrated)

\* legacyProfilesForMigrationLocked.
Source ==
    CASE legacy # NoFile                         -> legacy
      [] legacy = NoFile /\ Saved(config) # {}   -> config
      [] OTHER                                   -> Defaults

\* Variant: the legacy profiles replace those of the database.
MergedOver(rows, source) == [p \in Profiles |-> IF source[p] # Absent THEN source[p] ELSE rows[p]]

\* INSERT OR IGNORE: the rows the database has already are kept.
Merged(rows, source) == [p \in Profiles |-> IF rows[p] # Absent THEN rows[p] ELSE source[p]]

\* MigrateConnections: rows, active ID and marker in one transaction.
Migrate ==
    /\ phase = "load"
    /\ NeedsMigration
    /\ \E id \in Profiles \cup {NoProfile} : \E active \in Normalized(Source, id) :
          db' = [rows |-> Merged(db.rows, Source),
                 active |-> IF db.active = NoProfile THEN active ELSE db.active,
                 migrated |-> TRUE]
    /\ phase' = "migrated"
    /\ UNCHANGED <<legacy, config, list, activeID>>

RemoveLegacy ==
    /\ phase = "migrated"
    /\ legacy # NoFile
    /\ legacy' = NoFile
    /\ UNCHANGED <<db, config, phase, list, activeID>>

LoadReady ==
    \/ phase = "load" /\ ~NeedsMigration
    \/ phase = "migrated" /\ legacy = NoFile

\* The rest of Load, with syncSQLiteConfig.
LoadReturns ==
    /\ LoadReady
    /\ list' = db.rows
    /\ activeID' \in Normalized(db.rows, db.active)
    /\ config' = Empty
    /\ phase' = "up"
    /\ UNCHANGED <<db, legacy>>

\* The configuration cannot be saved: Load returns an error and the program ends.
LoadFails ==
    /\ LoadReady
    /\ config' \in {config, Empty}
    /\ phase' = "down"
    /\ UNCHANGED <<db, legacy, list, activeID>>

Load == Launch \/ Migrate \/ RemoveLegacy \/ LoadReturns \/ LoadFails

\* The program ends or is killed.  Any other error in Load has the same effect.
Stop ==
    /\ phase # "down"
    /\ phase' = "down"
    /\ list' = Empty
    /\ activeID' = NoProfile
    /\ UNCHANGED <<db, legacy, config>>

-----------------------------------------------------------------------------
\* saveActiveSQLiteLocked.

Commit(rows, id) ==
    /\ list' = rows
    /\ activeID' \in Normalized(rows, id)
    /\ db' = [db EXCEPT !.rows = rows, !.active = activeID']

\* Variant: a save that fails leaves the new rows in the list.
RollBackNothing(rows) == list' = rows /\ UNCHANGED <<db, activeID>>

\* The transaction fails and the list is put back.
RollBack(rows) == UNCHANGED <<db, list, activeID>>

Results == {"ok", "failed"}

\* A failed save may have been committed: the clean-up of the configuration comes
\* after the transaction.
SaveActive(rows, id, result) ==
    /\ \/ Commit(rows, id)
       \/ result = "failed" /\ RollBack(rows)
    /\ UNCHANGED <<legacy, config, phase>>

\* setActiveSQLiteLocked; when it fails in the database nothing has changed.
SetActive(id) ==
    /\ activeID' \in Normalized(list, id)
    /\ db' = [db EXCEPT !.active = activeID']
    /\ UNCHANGED <<legacy, config, phase, list>>
=============================================================================
