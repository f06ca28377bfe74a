---------------------------- MODULE HistoryStore ----------------------------
(***************************************************************************)
(* HistoryStore (terminal/log.go) on the embedded database                 *)
(* (internal/database/database.go): the log of commands.                   *)
(*                                                                         *)
(* Older versions of the program append records to a file; the present one *)
(* moves the file into the database when it starts and appends there.  A   *)
(* transaction is one step.  A write to the file is one too unless it      *)
(* fails or the program dies in it, which may leave any part of it.        *)
(*                                                                         *)
(* Entries are numbered in the order of the calls; their time, different   *)
(* in each, makes the contents of two files different when their entries   *)
(* are, so the fingerprint of a file is its contents here.                 *)
(***************************************************************************)
EXTENDS Naturals, SequencesExt, Subsequences

CONSTANTS Connections,
          AnyConnection,   \* the empty ID, which LoadForConnection takes for all
          NoFile, NoSource,
          MaxEntries       \* bound on the number of calls of Append

VARIABLES
    file,      \* terminal-history.jsonl, or NoFile
    rows,      \* the table command_history, by id
    program,   \* which version runs and how far it has come
    issued,    \* history: the number of calls of Append
    kept       \* history: the entries whose Append has returned without an error

historyVars == <<file, rows, program, issued, kept>>

Entry == [number : 1..MaxEntries, connection : Connections]
Corrupt == [number |-> 0, connection |-> AnyConnection]  \* two records on one line

\* tail: the last record has its newline, lacks it, or is followed by part of another.
File == [lines : Seq(Entry \cup {Corrupt}), tail : {"newline", "none", "torn"}]
EmptyFile == [lines |-> <<>>, tail |-> "newline"]

ASSUME HistoryAssumption ==
    /\ MaxEntries \in Nat
    /\ AnyConnection \notin Connections
    /\ {NoFile, NoSource} \cap File = {}

Row == [entry : Entry, source : File \cup {NoSource}, ordinal : Nat]

HistoryTypeOK ==
    /\ file \in File \cup {NoFile}
    /\ rows \in Seq(Row)
    /\ program \in {"down", "old", "migrate", "cleanup", "up"}
    /\ issued \in 0..MaxEntries
    /\ kept \subseteq Entry

HistoryInit ==
    /\ file = NoFile
    /\ rows = <<>>
    /\ program = "down"
    /\ issued = 0
    /\ kept = {}

NextEntries == {[number |-> issued + 1, connection |-> c] : c \in Connections}

-----------------------------------------------------------------------------
\* Append to the file, of an older version.

\* Variant: nothing is repaired.
PreparedNothing(f) == IF f = NoFile THEN EmptyFile ELSE f

\* prepareHistoryAppend: part of a record is cut off, a missing newline is added.
Prepared(f) == IF f = NoFile THEN EmptyFile ELSE [f EXCEPT !.tail = "newline"]

\* What is there after f when a whole record has been written.
Extended(f, entry) ==
    CASE f.tail = "newline" -> [f EXCEPT !.lines = Append(@, entry)]
      [] f.tail = "none"    -> [f EXCEPT !.lines = Append(Front(@), Corrupt), !.tail = "newline"]
      [] f.tail = "torn"    -> [f EXCEPT !.lines = Append(@, Corrupt), !.tail = "newline"]

AppendToFile ==
    /\ program = "old"
    /\ issued < MaxEntries
    /\ \E entry \in NextEntries :
          /\ file' = Extended(Prepared(file), entry)
          /\ kept' = kept \cup {entry}
    /\ issued' = issued + 1
    /\ UNCHANGED <<rows, program>>

\* What a write that fails may leave: any of its steps may have been the last.
LeftBehind(f, entry) ==
    {f, Prepared(f), [Prepared(f) EXCEPT !.tail = "torn"], Extended(Prepared(f), entry),
     [Extended(Prepared(f), entry) EXCEPT !.tail = "none"]}

\* Append returns an error, or the program dies in it.
AppendToFileFails ==
    /\ program = "old"
    /\ issued < MaxEntries
    /\ \E entry \in NextEntries : file' \in LeftBehind(file, entry)
    /\ program' \in {"old", "down"}
    /\ issued' = issued + 1
    /\ UNCHANGED <<rows, kept>>

-----------------------------------------------------------------------------
\* The start of the present version, MigrateLegacy.

\* The rows of a file that have been committed.
FromFile(f) == {i \in DOMAIN rows : rows[i].source = f}

\* An older version is not started while a migrated file waits to be removed.
LaunchOld ==
    /\ program = "down"
    /\ FromFile(file) = {}
    /\ program' = "old"
    /\ UNCHANGED <<file, rows, issued, kept>>

Launch ==
    /\ program = "down"
    /\ program' = "migrate"
    /\ UNCHANGED <<file, rows, issued, kept>>

\* Load of the file: part of a record at its end is left out, a line that cannot be
\* read anywhere else is an error.
Readable(f) == Corrupt \notin ToSet(f.lines)

LegacyRows(f) == [i \in DOMAIN f.lines |-> [entry |-> f.lines[i], source |-> f, ordinal |-> i]]

\* Variant: what has been migrated before is not recognised.
InsertAgain(new) == rows \o new

\* INSERT OR IGNORE under the unique index on source and ordinal.
Inserted(new) ==
    rows \o Subsequence(new, {r \in ToSet(new) :
                \A i \in DOMAIN rows : <<rows[i].source, rows[i].ordinal>> # <<r.source, r.ordinal>>})

Migrate ==
    /\ program = "migrate"
    /\ \/ file = NoFile /\ program' = "up" /\ UNCHANGED rows
       \/ /\ file # NoFile /\ Readable(file)
          /\ rows' = Inserted(LegacyRows(file))
          /\ program' = "cleanup"
    /\ UNCHANGED <<file, issued, kept>>

RemoveFile ==
    /\ program = "cleanup"
    /\ file' = NoFile
    /\ program' = "up"
    /\ UNCHANGED <<rows, issued, kept>>

\* Any error ends the program, as does the user; or it is killed.
Stop ==
    /\ program # "down"
    /\ program' = "down"
    /\ UNCHANGED <<file, rows, issued, kept>>

-----------------------------------------------------------------------------
\* The present version.

AppendRow(entry) ==
    /\ rows' = Append(rows, [entry |-> entry, source |-> NoSource, ordinal |-> 0])
    /\ kept' = kept \cup {entry}

\* Append: one row, or an error.
AppendEntry ==
    /\ program = "up"
    /\ issued < MaxEntries
    /\ issued' = issued + 1
    /\ \/ \E entry \in NextEntries : AppendRow(entry)
       \/ UNCHANGED <<rows, kept>>
    /\ UNCHANGED <<file, program>>

\* The last n elements of a sequence; all of them for 0.
Newest(s, n) == IF n = 0 \/ Len(s) <= n THEN s ELSE SubSeq(s, Len(s) - n + 1, Len(s))

Of(connection, s) ==
    Subsequence(s, {r \in ToSet(s) : connection \in {AnyConnection, r.entry.connection}})

\* Variant: the database's LIMIT counts the rows of all connections.
LoadedOfNewest(connection, limit) == Of(connection, Newest(rows, limit))

\* loadSQLiteLocked: the rows of one connection pass through a window of the last ones.
Loaded(connection, limit) ==
    LET found == Of(connection, IF connection = AnyConnection THEN Newest(rows, limit) ELSE rows)
        window[n \in 0..Len(found)] ==
            IF n = 0 THEN <<>> ELSE Newest(Append(window[n - 1], found[n]), limit)
    IN  window[Len(found)]

HistoryNext ==
    \/ LaunchOld \/ AppendToFile \/ AppendToFileFails
    \/ Launch \/ Migrate \/ RemoveFile \/ Stop
    \/ AppendEntry

HistorySpec == HistoryInit /\ [][HistoryNext]_historyVars

-----------------------------------------------------------------------------
\* An entry whose Append has returned without an error is in the database or can be
\* read from the file, however often the versions of the program take turns, fail in
\* the middle of a record and are killed while migrating.
KeptEntriesStored ==
    kept \subseteq {rows[i].entry : i \in DOMAIN rows}
                   \cup IF file # NoFile /\ Readable(file) THEN ToSet(file.lines) ELSE {}

\* The database has every entry once and in the order of the calls, although a migration
\* that was committed may be run again.
Chronological ==
    \A i, j \in DOMAIN rows : i < j => rows[i].entry.number < rows[j].entry.number

\* LoadForConnection returns the newest entries of the connection, oldest first, and no
\* fewer than asked for as long as it has them.
LoadsNewest ==
    \A connection \in Connections \cup {AnyConnection}, limit \in 0..MaxEntries :
        LET mine == Of(connection, rows)
            result == Loaded(connection, limit)
        IN  /\ IsSuffix(result, mine)
            /\ Len(result) = IF limit = 0 \/ Len(mine) < limit THEN Len(mine) ELSE limit
=============================================================================
