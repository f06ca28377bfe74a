------------------------ MODULE CommandSessionProofs ------------------------
(***************************************************************************)
(* The history keeps every entry once and in order, for any number of      *)
(* entries and connections; and the result of a command is complete, for   *)
(* any length of its output and any capacity of the channel and the pipes. *)
(***************************************************************************)
EXTENDS CommandSession, LibraryProofs

-----------------------------------------------------------------------------
\* The history.

Stored(r) == \E k \in DOMAIN rows : rows[k] = r

\* A row that was migrated is a line of a file that has all been written.
RowsFromFiles ==
    \A k \in DOMAIN rows :
        /\ rows[k].entry.number <= issued
        /\ rows[k].source # NoSource =>
              /\ rows[k].ordinal \in DOMAIN rows[k].source.lines
              /\ rows[k].entry = rows[k].source.lines[rows[k].ordinal]
              /\ \A i \in DOMAIN rows[k].source.lines :
                    rows[k].source.lines[i].number <= issued

\* The file can be read, but for its tail, and is chronological.
LinesInOrder ==
    file # NoFile =>
        /\ \A i \in DOMAIN file.lines : file.lines[i] # Corrupt /\ file.lines[i].number <= issued
        /\ \A i, j \in DOMAIN file.lines : i < j => file.lines[i].number < file.lines[j].number

\* A file has been migrated as a whole, or is newer than every row.
WholeOrNothing ==
    file # NoFile =>
        IF FromFile(file) = {}
        THEN \A k \in DOMAIN rows, i \in DOMAIN file.lines :
                 rows[k].entry.number < file.lines[i].number
        ELSE \A i \in DOMAIN file.lines : Stored(LegacyRows(file)[i])

\* What the program has made sure of when it has come this far.
ProgramKnows ==
    /\ program = "old" /\ file # NoFile => FromFile(file) = {}
    /\ program = "up" => file = NoFile
    /\ program = "cleanup" =>
          file # NoFile /\ \A i \in DOMAIN file.lines : Stored(LegacyRows(file)[i])

HistoryInv ==
    /\ HistoryTypeOK /\ RowsFromFiles /\ LinesInOrder /\ WholeOrNothing /\ ProgramKnows
    /\ KeptEntriesStored /\ Chronological

LEMMA LegacyRowsOf ==
    ASSUME NEW f \in File, \A i \in DOMAIN f.lines : f.lines[i] # Corrupt
    PROVE  /\ LegacyRows(f) \in Seq(Row)
           /\ DOMAIN LegacyRows(f) = DOMAIN f.lines
           /\ \A i \in DOMAIN f.lines :
                 LegacyRows(f)[i] = [entry |-> f.lines[i], source |-> f, ordinal |-> i]
<1>1. f.lines \in Seq(Entry \cup {Corrupt})
  BY DEF File
<1>2. \A i \in DOMAIN f.lines : f.lines[i] \in Entry /\ i \in Nat
  BY <1>1
<1>3. \A i \in DOMAIN f.lines : LegacyRows(f)[i] \in Row
  BY <1>2 DEF LegacyRows, Row
<1>4. DOMAIN f.lines = 1..Len(f.lines) /\ Len(f.lines) \in Nat
  BY <1>1
<1>5. LegacyRows(f) \in Seq(Row)
  <2>1. LegacyRows(f) = [i \in DOMAIN f.lines |-> LegacyRows(f)[i]]
    BY DEF LegacyRows
  <2>2. LegacyRows(f) \in [1..Len(f.lines) -> Row]
    BY <1>3, <1>4, <2>1
  <2> QED BY <1>4, <2>2
<1> QED
  BY <1>5 DEF LegacyRows

\* INSERT OR IGNORE takes every row of a file that has none there, and none of those there.
LEMMA InsertedNew ==
    ASSUME NEW f \in File, \A i \in DOMAIN f.lines : f.lines[i] # Corrupt,
           FromFile(f) = {}
    PROVE  Inserted(LegacyRows(f)) = rows \o LegacyRows(f)
<1> DEFINE new == LegacyRows(f)
           S == {r \in ToSet(new) :
                   \A i \in DOMAIN rows : <<rows[i].source, rows[i].ordinal>> # <<r.source, r.ordinal>>}
<1>1. new \in Seq(Row) /\ \A i \in DOMAIN new : new[i].source = f /\ new[i] \in ToSet(new)
  <2>1. /\ LegacyRows(f) \in Seq(Row) /\ DOMAIN LegacyRows(f) = DOMAIN f.lines
        /\ \A i \in DOMAIN f.lines :
              LegacyRows(f)[i] = [entry |-> f.lines[i], source |-> f, ordinal |-> i]
    BY LegacyRowsOf
  <2>2. \A i \in DOMAIN f.lines : LegacyRows(f)[i].source = f
    <3> SUFFICES ASSUME NEW i \in DOMAIN f.lines PROVE LegacyRows(f)[i].source = f
      OBVIOUS
    <3>1. LegacyRows(f)[i] = [entry |-> f.lines[i], source |-> f, ordinal |-> i]
      BY <2>1
    <3> QED BY <3>1
  <2>3. new \in Seq(Row) /\ DOMAIN new = DOMAIN f.lines
        /\ \A i \in DOMAIN f.lines : new[i].source = f
    BY <2>1, <2>2
  <2> HIDE DEF new
  <2> QED BY <2>3 DEF ToSet
<1>2. \A i \in DOMAIN new : new[i] \in S
  <2> HIDE DEF new
  <2> QED BY <1>1 DEF FromFile
<1>3. Subsequence(new, S) = new
  <2> HIDE DEF new, S
  <2> QED BY <1>1, <1>2, SubsequenceAll
<1> QED
  BY <1>3 DEF Inserted

LEMMA InsertedOld ==
    ASSUME NEW f \in File, \A i \in DOMAIN f.lines : f.lines[i] # Corrupt,
           rows \in Seq(Row), \A i \in DOMAIN f.lines : Stored(LegacyRows(f)[i])
    PROVE  Inserted(LegacyRows(f)) = rows
<1> DEFINE new == LegacyRows(f)
           S == {r \in ToSet(new) :
                   \A i \in DOMAIN rows : <<rows[i].source, rows[i].ordinal>> # <<r.source, r.ordinal>>}
<1>1. new \in Seq(Row) /\ \A i \in DOMAIN new : Stored(new[i])
  BY LegacyRowsOf
<1>2. \A i \in DOMAIN new : new[i] \notin S
  <2> HIDE DEF new
  <2> QED BY <1>1 DEF Stored
<1>3. Subsequence(new, S) = <<>>
  <2> HIDE DEF new, S
  <2> QED BY <1>1, <1>2, SubsequenceNone
<1>4. rows \o <<>> = rows
  OBVIOUS
<1> QED
  BY <1>3, <1>4 DEF Inserted

-----------------------------------------------------------------------------
LEMMA HistoryInitially == HistoryInit => HistoryInv
BY HistoryAssumption DEF HistoryInit, HistoryInv, HistoryTypeOK, RowsFromFiles, LinesInOrder,
   WholeOrNothing, ProgramKnows, KeptEntriesStored, Chronological

\* The lines there are before an older version writes to the file.
OldLines == IF file = NoFile THEN <<>> ELSE file.lines

\* Rows have numbers, those of the files they come from too.
LEMMA RowNumbers ==
    ASSUME rows \in Seq(Row)
    PROVE  \A k \in DOMAIN rows :
              /\ rows[k] \in Row /\ rows[k].entry.number \in Nat
              /\ rows[k].source # NoSource =>
                    \A i \in DOMAIN rows[k].source.lines : rows[k].source.lines[i].number \in Nat
<1> SUFFICES ASSUME NEW k \in DOMAIN rows
             PROVE  /\ rows[k] \in Row /\ rows[k].entry.number \in Nat
                    /\ rows[k].source # NoSource =>
                          \A i \in DOMAIN rows[k].source.lines :
                             rows[k].source.lines[i].number \in Nat
  OBVIOUS
<1>1. rows[k] \in Row
  OBVIOUS
<1>2. rows[k].entry.number \in Nat
  BY <1>1 DEF Row, Entry
<1>3. ASSUME rows[k].source # NoSource, NEW i \in DOMAIN rows[k].source.lines
      PROVE  rows[k].source.lines[i].number \in Nat
  <2>1. rows[k].source.lines \in Seq(Entry \cup {Corrupt})
    BY <1>1, <1>3 DEF Row, File
  <2>2. rows[k].source.lines[i] \in Entry \cup {Corrupt}
    BY <1>3, <2>1
  <2> QED BY <2>2 DEF Entry, Corrupt
<1> QED
  BY <1>1, <1>2, <1>3

\* What is written, whole or in part, is a file of which nothing has been migrated.
LEMMA FileGrows ==
    ASSUME HistoryInv, program = "old", issued < MaxEntries, NEW entry \in NextEntries,
           NEW g \in File,
           \/ g.lines = OldLines
           \/ g.lines = Append(OldLines, entry)
    PROVE  /\ \A i \in DOMAIN g.lines : g.lines[i] # Corrupt /\ g.lines[i].number <= issued + 1
           /\ \A i, j \in DOMAIN g.lines : i < j => g.lines[i].number < g.lines[j].number
           /\ \A k \in DOMAIN rows, i \in DOMAIN g.lines :
                 rows[k].entry.number < g.lines[i].number
           /\ FromFile(g) = {}
           /\ ToSet(OldLines) \subseteq ToSet(g.lines)
           /\ g.lines = Append(OldLines, entry) => entry \in ToSet(g.lines)
<1> USE HistoryAssumption
<1>1. entry \in Entry /\ entry.number = issued + 1 /\ issued \in Nat
  BY DEF NextEntries, Entry, HistoryInv, HistoryTypeOK
<1>2. OldLines \in Seq(Entry \cup {Corrupt})
  BY DEF OldLines, HistoryInv, HistoryTypeOK, File
<1>3. /\ \A i \in DOMAIN OldLines : OldLines[i] \in Entry /\ OldLines[i].number <= issued
      /\ \A i, j \in DOMAIN OldLines : i < j => OldLines[i].number < OldLines[j].number
      /\ \A k \in DOMAIN rows, i \in DOMAIN OldLines : rows[k].entry.number < OldLines[i].number
  <2>1. CASE file = NoFile
    BY <2>1 DEF OldLines
  <2>2. CASE file # NoFile
    BY <1>2, <2>2 DEF OldLines, HistoryInv, LinesInOrder, WholeOrNothing, ProgramKnows
  <2> QED BY <2>1, <2>2
<1>4. \A k \in DOMAIN rows : rows[k].entry \in Entry /\ rows[k].entry.number <= issued
  <2>1. rows \in Seq(Row)
    BY DEF HistoryInv, HistoryTypeOK
  <2>2. \A k \in DOMAIN rows : rows[k] \in Row
    BY <2>1
  <2> QED BY <2>2 DEF HistoryInv, RowsFromFiles, Row
<1>5. Entry = [number : 1..MaxEntries, connection : Connections] /\ Corrupt.number = 0
  BY DEF Entry, Corrupt
<1>6. CASE g.lines = OldLines
  <2>1. FromFile(g) = {}
    <3> SUFFICES ASSUME NEW k \in DOMAIN rows, rows[k].source = g PROVE FALSE
      BY DEF FromFile
    <3>1. g # NoSource
      OBVIOUS
    <3>2. rows[k].ordinal \in DOMAIN g.lines /\ rows[k].entry = g.lines[rows[k].ordinal]
      BY <3>1 DEF HistoryInv, RowsFromFiles
    <3> QED BY <1>3, <1>4, <1>5, <1>6, <3>2
  <2>2. \A i \in DOMAIN g.lines : g.lines[i] # Corrupt /\ g.lines[i].number <= issued + 1
    BY <1>1, <1>3, <1>5, <1>6
  <2>3. g.lines # Append(OldLines, entry)
    BY <1>1, <1>2, <1>6
  <2> QED BY <1>3, <1>6, <2>1, <2>2, <2>3
<1>7. CASE g.lines = Append(OldLines, entry)
  <2> DEFINE n == Len(OldLines)
  <2>1. n \in Nat /\ DOMAIN OldLines = 1..n /\ DOMAIN g.lines = 1..(n + 1)
        /\ g.lines[n + 1] = entry /\ \A i \in 1..n : g.lines[i] = OldLines[i]
    BY <1>1, <1>2, <1>7
  <2> HIDE DEF n
  <2>2. \A i \in DOMAIN g.lines : g.lines[i] \in Entry /\ g.lines[i].number <= issued + 1
    BY <1>1, <1>3, <1>5, <2>1
  <2>3. \A i \in DOMAIN g.lines : g.lines[i] # Corrupt
    BY <1>5, <2>2
  <2>4. \A i, j \in DOMAIN g.lines : i < j => g.lines[i].number < g.lines[j].number
    <3> SUFFICES ASSUME NEW i \in 1..(n + 1), NEW j \in 1..(n + 1), i < j
                 PROVE  g.lines[i].number < g.lines[j].number
      BY <2>1
    <3>1. i \in 1..n
      BY <2>1
    <3>2. OldLines[i] \in Entry /\ OldLines[i].number <= issued
      BY <1>3, <2>1, <3>1
    <3>3. g.lines[i] = OldLines[i] /\ OldLines[i].number <= issued /\ OldLines[i].number \in Nat
      BY <1>5, <2>1, <3>1, <3>2
    <3>4. CASE j \in 1..n
      BY <1>3, <2>1, <3>4, <3>1
    <3>5. CASE j = n + 1
      BY <1>1, <2>1, <3>3, <3>5
    <3> QED BY <2>1, <3>4, <3>5
  <2>5. \A k \in DOMAIN rows, i \in DOMAIN g.lines : rows[k].entry.number < g.lines[i].number
    BY <1>1, <1>3, <1>4, <1>5, <2>1
  <2>6. FromFile(g) = {}
    <3> SUFFICES ASSUME NEW k \in DOMAIN rows, rows[k].source = g PROVE FALSE
      BY DEF FromFile
    <3>1. g # NoSource
      OBVIOUS
    <3>2. g.lines[n + 1].number <= issued
      BY <2>1, <3>1 DEF HistoryInv, RowsFromFiles
    <3> QED BY <1>1, <2>1, <3>2
  <2>7. ToSet(OldLines) \subseteq ToSet(g.lines) /\ entry \in ToSet(g.lines)
    <3>1. \A i \in 1..n : i \in 1..(n + 1)
      BY <2>1
    <3>2. n + 1 \in 1..(n + 1)
      BY <2>1
    <3> QED BY <2>1, <3>1, <3>2 DEF ToSet
  <2> QED BY <2>2, <2>3, <2>4, <2>5, <2>6, <2>7
<1> QED
  BY <1>6, <1>7

\* The files that a write may leave behind.
LEMMA FilesWritten ==
    ASSUME HistoryInv, issued < MaxEntries, NEW entry \in NextEntries
    PROVE  /\ Extended(Prepared(file), entry) \in File
           /\ Extended(Prepared(file), entry).lines = Append(OldLines, entry)
           /\ \A g \in LeftBehind(file, entry) :
                 g = file \/ (g \in File /\ (\/ g.lines = OldLines
                                             \/ g.lines = Append(OldLines, entry)))
<1> USE HistoryAssumption
<1>1. entry \in Entry
  BY DEF NextEntries, Entry, HistoryInv, HistoryTypeOK
<1>2. OldLines \in Seq(Entry \cup {Corrupt}) /\ Append(OldLines, entry) \in Seq(Entry \cup {Corrupt})
  BY <1>1 DEF OldLines, HistoryInv, HistoryTypeOK, File
<1>3. Prepared(file) = [lines |-> OldLines, tail |-> "newline"]
  <2>1. CASE file = NoFile
    BY <2>1 DEF Prepared, EmptyFile, OldLines
  <2>2. CASE file # NoFile
    BY <2>2 DEF Prepared, OldLines, HistoryInv, HistoryTypeOK, File
  <2> QED BY <2>1, <2>2
<1>4. Extended(Prepared(file), entry) = [lines |-> Append(OldLines, entry), tail |-> "newline"]
  BY <1>3 DEF Extended
<1>5. ASSUME NEW g \in LeftBehind(file, entry)
      PROVE  \/ g = file
             \/ \E l \in {OldLines, Append(OldLines, entry)}, t \in {"newline", "none", "torn"} :
                   g = [lines |-> l, tail |-> t]
  BY <1>3, <1>4, <1>5 DEF LeftBehind
<1>6. ASSUME NEW l \in {OldLines, Append(OldLines, entry)}, NEW t \in {"newline", "none", "torn"}
      PROVE  [lines |-> l, tail |-> t] \in File
  BY <1>2 DEF File
<1>7. ASSUME NEW g \in LeftBehind(file, entry), g # file
      PROVE  g \in File /\ (g.lines = OldLines \/ g.lines = Append(OldLines, entry))
  <2>1. PICK l \in {OldLines, Append(OldLines, entry)}, t \in {"newline", "none", "torn"} :
           g = [lines |-> l, tail |-> t]
    BY <1>5, <1>7
  <2>2. g \in File
    BY <1>6, <2>1
  <2>3. g.lines = l
    BY <2>1
  <2> QED BY <2>1, <2>2, <2>3
<1> QED
  BY <1>4, <1>6, <1>7

\* An older version has written, or tried to write: what it leaves keeps the invariant.
LEMMA WriteKeeps ==
    ASSUME HistoryInv, program = "old", issued < MaxEntries, NEW entry \in NextEntries,
           file' \in File,
           \/ file'.lines = OldLines
           \/ file'.lines = Append(OldLines, entry),
           issued' = issued + 1, rows' = rows, program' \in {"old", "down"},
           \/ kept' = kept
           \/ kept' = kept \cup {entry} /\ file'.lines = Append(OldLines, entry)
    PROVE  HistoryInv'
<1> USE HistoryAssumption
<1>1. /\ \A i \in DOMAIN file'.lines :
            file'.lines[i] # Corrupt /\ file'.lines[i].number <= issued + 1
      /\ \A i, j \in DOMAIN file'.lines : i < j => file'.lines[i].number < file'.lines[j].number
      /\ \A k \in DOMAIN rows, i \in DOMAIN file'.lines :
            rows[k].entry.number < file'.lines[i].number
      /\ FromFile(file') = {}
      /\ ToSet(OldLines) \subseteq ToSet(file'.lines)
      /\ file'.lines = Append(OldLines, entry) => entry \in ToSet(file'.lines)
  BY FileGrows
<1>2. issued \in Nat /\ entry \in Entry /\ file' # NoFile
  BY DEF HistoryInv, HistoryTypeOK, NextEntries, Entry
<1>3. HistoryTypeOK'
  BY <1>2 DEF HistoryInv, HistoryTypeOK
<1>4. RowsFromFiles'
  <2> SUFFICES ASSUME NEW k \in DOMAIN rows
               PROVE  /\ rows[k].entry.number <= issued + 1
                      /\ rows[k].source # NoSource =>
                            /\ rows[k].ordinal \in DOMAIN rows[k].source.lines
                            /\ rows[k].entry = rows[k].source.lines[rows[k].ordinal]
                            /\ \A i \in DOMAIN rows[k].source.lines :
                                  rows[k].source.lines[i].number <= issued + 1
    BY DEF RowsFromFiles
  <2>1. /\ rows[k].entry.number \in Nat
        /\ rows[k].source # NoSource =>
              \A i \in DOMAIN rows[k].source.lines : rows[k].source.lines[i].number \in Nat
    BY RowNumbers DEF HistoryInv, HistoryTypeOK
  <2> QED BY <1>2, <2>1 DEF HistoryInv, RowsFromFiles
<1>5. LinesInOrder'
  BY <1>1 DEF LinesInOrder
<1>6. WholeOrNothing' /\ ProgramKnows'
  BY <1>1, <1>2 DEF WholeOrNothing, ProgramKnows, FromFile
<1>7. KeptEntriesStored'
  <2>1. kept \subseteq {rows[i].entry : i \in DOMAIN rows} \cup ToSet(OldLines)
    BY DEF HistoryInv, KeptEntriesStored, OldLines
  <2>2. Readable(file')
    BY <1>1 DEF Readable, ToSet
  <2> QED BY <1>1, <1>2, <2>1, <2>2 DEF KeptEntriesStored
<1>8. Chronological'
  BY DEF HistoryInv, Chronological
<1> QED
  BY <1>3, <1>4, <1>5, <1>6, <1>7, <1>8 DEF HistoryInv

LEMMA AppendToFileKeeps == HistoryInv /\ AppendToFile => HistoryInv'
<1> SUFFICES ASSUME HistoryInv, AppendToFile PROVE HistoryInv'
  OBVIOUS
<1>1. PICK entry \in NextEntries :
         file' = Extended(Prepared(file), entry) /\ kept' = kept \cup {entry}
  BY DEF AppendToFile
<1>2. /\ program = "old" /\ issued < MaxEntries /\ issued' = issued + 1
      /\ rows' = rows /\ program' = program
  BY DEF AppendToFile
<1>3. file' \in File /\ file'.lines = Append(OldLines, entry)
  BY <1>1, <1>2, FilesWritten
<1> QED
  BY <1>1, <1>2, <1>3, WriteKeeps

LEMMA AppendToFileFailsKeeps == HistoryInv /\ AppendToFileFails => HistoryInv'
<1> SUFFICES ASSUME HistoryInv, AppendToFileFails PROVE HistoryInv'
  OBVIOUS
<1>1. PICK entry \in NextEntries : file' \in LeftBehind(file, entry)
  BY DEF AppendToFileFails
<1>2. /\ program = "old" /\ issued < MaxEntries /\ issued' = issued + 1
      /\ rows' = rows /\ kept' = kept /\ program' \in {"old", "down"}
  BY DEF AppendToFileFails
<1>3. CASE file' \in File /\ (file'.lines = OldLines \/ file'.lines = Append(OldLines, entry))
  BY <1>2, <1>3, WriteKeeps
<1>4. CASE file' = file /\ file # NoFile
  <2>1. file \in File /\ file.lines = OldLines
    BY <1>4 DEF OldLines, HistoryInv, HistoryTypeOK
  <2> QED BY <1>3, <1>4, <2>1
<1>5. CASE file' = file /\ file = NoFile
  <2>1. issued \in Nat /\ issued' \in 0..MaxEntries
    BY <1>2, HistoryAssumption DEF HistoryInv, HistoryTypeOK
  <2>2. HistoryTypeOK'
    BY <1>2, <1>5, <2>1 DEF HistoryInv, HistoryTypeOK
  <2>3. \A k \in DOMAIN rows : /\ rows[k] \in Row /\ rows[k].entry.number \in Nat
                               /\ rows[k].source # NoSource =>
                                     \A i \in DOMAIN rows[k].source.lines :
                                        rows[k].source.lines[i].number \in Nat
    BY RowNumbers DEF HistoryInv, HistoryTypeOK
  <2>4. RowsFromFiles'
    BY <1>2, <2>1, <2>3 DEF HistoryInv, RowsFromFiles
  <2>5. KeptEntriesStored' /\ Chronological'
    BY <1>2, <1>5 DEF HistoryInv, KeptEntriesStored, Chronological
  <2> QED BY <1>2, <1>5, <2>2, <2>4, <2>5
          DEF HistoryInv, LinesInOrder, WholeOrNothing, ProgramKnows
<1> QED
  BY <1>1, <1>2, <1>3, <1>4, <1>5, FilesWritten

\* The rows of a file of which there were none, behind those there are.
LEMMA NewRowsKeep ==
    ASSUME HistoryInv, file \in File, file # NoFile, FromFile(file) = {},
           NEW new \in Seq(Row), DOMAIN new = DOMAIN file.lines,
           \A i \in DOMAIN file.lines :
              new[i] = [entry |-> file.lines[i], source |-> file, ordinal |-> i],
           rows' = rows \o new, file' = file, issued' = issued, kept' = kept,
           program' = "cleanup"
    PROVE  HistoryInv'
<1> USE HistoryAssumption
<1> DEFINE n == Len(rows)
           m == Len(new)
<1>1. rows \in Seq(Row) /\ issued \in Nat
  BY DEF HistoryInv, HistoryTypeOK
<1>2. /\ n \in Nat /\ m \in Nat /\ DOMAIN rows = 1..n /\ DOMAIN new = 1..m
      /\ rows' \in Seq(Row) /\ DOMAIN rows' = 1..(n + m)
      /\ \A k \in 1..n : rows'[k] = rows[k]
      /\ \A i \in 1..m : rows'[n + i] = new[i]
      /\ \A i \in 1..m : n + i \in 1..(n + m)
      /\ \A k \in 1..n : k \in 1..(n + m)
      /\ DOMAIN file.lines = 1..m
  BY <1>1
<1>3. ASSUME NEW k \in 1..(n + m), k \notin 1..n
       PROVE  \E q \in 1..m : k = n + q
  <2> HIDE DEF n, m
  <2>1. k - n \in 1..m /\ k = n + (k - n)
    BY <1>2, <1>3
  <2> QED BY <2>1
<1> HIDE DEF n, m
<1>4. \A i \in 1..m : /\ new[i].entry = file.lines[i] /\ new[i].source = file
                      /\ new[i].ordinal = i /\ new[i].entry.number \in Nat
  <2> SUFFICES ASSUME NEW i \in 1..m
               PROVE  /\ new[i].entry = file.lines[i] /\ new[i].source = file
                      /\ new[i].ordinal = i /\ new[i].entry.number \in Nat
    OBVIOUS
  <2>1. new[i] = [entry |-> file.lines[i], source |-> file, ordinal |-> i]
    BY <1>2
  <2>2. new[i] \in Row
    BY <1>2
  <2>3. new[i].entry \in Entry
    BY <2>2 DEF Row
  <2>4. new[i].entry.number \in Nat
    BY <2>3 DEF Entry
  <2> QED BY <2>1, <2>4
<1>5. \A k \in DOMAIN rows : rows[k].entry.number \in Nat
  BY <1>1, RowNumbers
<1>6. /\ \A i \in 1..m : file.lines[i].number <= issued
      /\ \A i, j \in 1..m : i < j => file.lines[i].number < file.lines[j].number
      /\ \A k \in DOMAIN rows, i \in 1..m : rows[k].entry.number < file.lines[i].number
  BY <1>2 DEF HistoryInv, LinesInOrder, WholeOrNothing
<1>7. HistoryTypeOK'
  BY <1>2 DEF HistoryInv, HistoryTypeOK
<1>8. RowsFromFiles'
  <2> SUFFICES ASSUME NEW k \in DOMAIN rows'
               PROVE  /\ rows'[k].entry.number <= issued
                      /\ rows'[k].source # NoSource =>
                            /\ rows'[k].ordinal \in DOMAIN rows'[k].source.lines
                            /\ rows'[k].entry = rows'[k].source.lines[rows'[k].ordinal]
                            /\ \A i \in DOMAIN rows'[k].source.lines :
                                  rows'[k].source.lines[i].number <= issued
    BY DEF RowsFromFiles
  <2>1. CASE k \in 1..n
    BY <1>2, <2>1 DEF HistoryInv, RowsFromFiles
  <2>2. ASSUME NEW q \in 1..m, k = n + q
        PROVE  /\ rows'[k].entry.number <= issued
               /\ rows'[k].source = file /\ rows'[k].ordinal = q
               /\ rows'[k].entry = file.lines[q]
    <3>1. rows'[k] = new[q]
      BY <1>2, <2>2
    <3> QED BY <1>4, <1>6, <3>1
  <2> QED BY <1>2, <1>6, <1>3, <2>1, <2>2
<1>9. LinesInOrder'
  BY DEF HistoryInv, LinesInOrder
<1>10. \A i \in DOMAIN file.lines : Stored(LegacyRows(file)[i])'
  BY <1>2 DEF Stored, LegacyRows
<1>11. WholeOrNothing' /\ ProgramKnows'
  <2>1. CASE FromFile(file)' = {}
    <3>1. DOMAIN file.lines = {}
      <4> SUFFICES ASSUME NEW i \in 1..m PROVE FALSE
        BY <1>2
      <4>1. n + i \in DOMAIN rows' /\ rows'[n + i] = new[i]
        BY <1>2
      <4>2. rows'[n + i].source = file
        BY <1>4, <4>1
      <4> QED BY <2>1, <4>1, <4>2 DEF FromFile
    <3> QED BY <1>10, <3>1 DEF WholeOrNothing, ProgramKnows
  <2>2. CASE FromFile(file)' # {}
    BY <1>10, <2>2 DEF WholeOrNothing, ProgramKnows
  <2> QED BY <2>1, <2>2
<1>12. KeptEntriesStored'
  <2>1. {rows[i].entry : i \in DOMAIN rows} \subseteq {rows'[i].entry : i \in DOMAIN rows'}
    BY <1>2
  <2> QED BY <2>1 DEF HistoryInv, KeptEntriesStored, Readable
<1>13. Chronological'
  <2> SUFFICES ASSUME NEW i \in DOMAIN rows', NEW j \in DOMAIN rows', i < j
               PROVE  rows'[i].entry.number < rows'[j].entry.number
    BY DEF Chronological
  <2>1. CASE j \in 1..n
    <3>1. i \in 1..n
      BY <1>2, <2>1
    <3> QED BY <1>2, <2>1, <3>1 DEF HistoryInv, Chronological
  <2>2. ASSUME NEW q \in 1..m, j = n + q, i \in 1..n
        PROVE  rows'[i].entry.number < rows'[j].entry.number
    <3>1. rows'[i] = rows[i] /\ rows'[j] = new[q]
      BY <1>2, <2>2
    <3>2. rows'[j].entry = file.lines[q] /\ rows[i].entry.number < file.lines[q].number
      BY <1>2, <1>4, <1>6, <2>2, <3>1
    <3> QED BY <3>1, <3>2
  <2>3. ASSUME NEW q \in 1..m, j = n + q, NEW p \in 1..m, i = n + p
        PROVE  rows'[i].entry.number < rows'[j].entry.number
    <3>1. rows'[i] = new[p] /\ rows'[j] = new[q]
      BY <1>2, <2>3
    <3>2. p < q
      BY <1>2, <2>3
    <3>3. rows'[i].entry = file.lines[p] /\ rows'[j].entry = file.lines[q]
      BY <1>4, <3>1
    <3>4. file.lines[p].number < file.lines[q].number
      BY <1>6, <3>2
    <3> QED BY <3>3, <3>4
  <2> QED BY <1>2, <1>3, <2>1, <2>2, <2>3
<1> QED
  BY <1>7, <1>8, <1>9, <1>11, <1>12, <1>13 DEF HistoryInv

LEMMA MigrateKeeps == HistoryInv /\ Migrate => HistoryInv'
<1> SUFFICES ASSUME HistoryInv, Migrate PROVE HistoryInv'
  OBVIOUS
<1> USE HistoryAssumption
<1>1. program = "migrate" /\ file' = file /\ issued' = issued /\ kept' = kept
      /\ program' \in {"up", "cleanup"}
  BY DEF Migrate
<1>2. CASE file = NoFile /\ program' = "up" /\ rows' = rows
  BY <1>1, <1>2 DEF HistoryInv, HistoryTypeOK, RowsFromFiles, LinesInOrder, WholeOrNothing,
     ProgramKnows, KeptEntriesStored, Chronological
<1>3. CASE file # NoFile /\ rows' = Inserted(LegacyRows(file)) /\ program' = "cleanup"
  <2> DEFINE new == LegacyRows(file)
  <2>1. file \in File /\ (\A i \in DOMAIN file.lines : file.lines[i] # Corrupt) /\ rows \in Seq(Row)
    BY <1>3 DEF HistoryInv, HistoryTypeOK, LinesInOrder
  <2>2. CASE FromFile(file) # {}
    <3>1. \A i \in DOMAIN file.lines : Stored(LegacyRows(file)[i])
      BY <1>3, <2>2 DEF HistoryInv, WholeOrNothing
    <3>2. rows' = rows
      BY <1>3, <2>1, <3>1, InsertedOld
    <3>3. /\ \A i \in DOMAIN file.lines : Stored(LegacyRows(file)[i])'
          /\ FromFile(file)' = FromFile(file)
      BY <1>1, <3>1, <3>2 DEF Stored, LegacyRows, FromFile
    <3>4. WholeOrNothing' /\ ProgramKnows'
      BY <1>1, <1>3, <2>2, <3>3 DEF WholeOrNothing, ProgramKnows
    <3>5. HistoryTypeOK' /\ RowsFromFiles' /\ LinesInOrder'
      BY <1>1, <1>3, <3>2 DEF HistoryInv, HistoryTypeOK, RowsFromFiles, LinesInOrder
    <3>6. KeptEntriesStored' /\ Chronological'
      BY <1>1, <3>2 DEF HistoryInv, KeptEntriesStored, Chronological, Readable
    <3> QED
      BY <3>4, <3>5, <3>6 DEF HistoryInv
  <2>3. CASE FromFile(file) = {}
    <3>1. rows' = rows \o new
      BY <1>3, <2>1, <2>3, InsertedNew
    <3>2. /\ new \in Seq(Row) /\ DOMAIN new = DOMAIN file.lines
          /\ \A i \in DOMAIN file.lines :
                new[i] = [entry |-> file.lines[i], source |-> file, ordinal |-> i]
      BY <2>1, LegacyRowsOf
    <3> QED BY <1>1, <1>3, <2>1, <2>3, <3>1, <3>2, NewRowsKeep
  <2> QED BY <2>2, <2>3
<1> QED
  BY <1>2, <1>3 DEF Migrate

LEMMA RemoveFileKeeps == HistoryInv /\ RemoveFile => HistoryInv'
<1> SUFFICES ASSUME HistoryInv, RemoveFile PROVE HistoryInv'
  OBVIOUS
<1>1. program = "cleanup" /\ file' = NoFile /\ program' = "up"
      /\ rows' = rows /\ issued' = issued /\ kept' = kept
  BY DEF RemoveFile
<1>2. \A i \in DOMAIN file.lines : \E k \in DOMAIN rows : rows[k].entry = file.lines[i]
  <2> SUFFICES ASSUME NEW i \in DOMAIN file.lines
               PROVE  \E k \in DOMAIN rows : rows[k].entry = file.lines[i]
    OBVIOUS
  <2>1. PICK k \in DOMAIN rows : rows[k] = LegacyRows(file)[i]
    BY <1>1 DEF HistoryInv, ProgramKnows, Stored
  <2>2. rows[k] = [entry |-> file.lines[i], source |-> file, ordinal |-> i]
    BY <2>1 DEF LegacyRows
  <2> QED BY <2>2
<1>3. KeptEntriesStored'
  <2>1. kept \subseteq {rows[i].entry : i \in DOMAIN rows} \cup ToSet(file.lines)
    BY DEF HistoryInv, KeptEntriesStored
  <2> QED BY <1>1, <1>2, <2>1 DEF KeptEntriesStored, ToSet
<1> QED
  BY <1>1, <1>3 DEF HistoryInv, HistoryTypeOK, RowsFromFiles, LinesInOrder, WholeOrNothing,
     ProgramKnows, Chronological

LEMMA AppendEntryKeeps == HistoryInv /\ AppendEntry => HistoryInv'
<1> SUFFICES ASSUME HistoryInv, AppendEntry PROVE HistoryInv'
  OBVIOUS
<1> USE HistoryAssumption
<1>1. program = "up" /\ file = NoFile /\ file' = file /\ program' = program
      /\ issued' = issued + 1 /\ issued < MaxEntries
  BY DEF AppendEntry, HistoryInv, ProgramKnows
<1>2. issued \in Nat /\ rows \in Seq(Row) /\ kept \subseteq Entry
  BY DEF HistoryInv, HistoryTypeOK
<1>3. \A k \in DOMAIN rows : /\ rows[k] \in Row /\ rows[k].entry.number \in Nat
                             /\ rows[k].source # NoSource =>
                                   \A i \in DOMAIN rows[k].source.lines :
                                      rows[k].source.lines[i].number \in Nat
  BY <1>2, RowNumbers
<1>4. CASE rows' = rows /\ kept' = kept
  <2>1. HistoryTypeOK'
    BY <1>1, <1>2, <1>4 DEF HistoryInv, HistoryTypeOK
  <2>2. RowsFromFiles'
    BY <1>1, <1>2, <1>3, <1>4 DEF HistoryInv, RowsFromFiles
  <2> QED BY <1>1, <1>4, <2>1, <2>2 DEF HistoryInv, LinesInOrder, WholeOrNothing, ProgramKnows,
             KeptEntriesStored, Chronological
<1>5. ASSUME NEW entry \in NextEntries, AppendRow(entry) PROVE HistoryInv'
  <2> DEFINE row == [entry |-> entry, source |-> NoSource, ordinal |-> 0]
             n == Len(rows)
  <2>1. entry \in Entry /\ entry.number = issued + 1
    BY <1>1, <1>2 DEF NextEntries, Entry
  <2>2. row \in Row /\ row.entry = entry /\ row.source = NoSource
    BY <2>1 DEF Row
  <2>3. rows' = Append(rows, row) /\ kept' = kept \cup {entry}
    BY <1>5 DEF AppendRow
  <2> HIDE DEF row
  <2>4. /\ n \in Nat /\ DOMAIN rows = 1..n /\ DOMAIN rows' = 1..(n + 1)
        /\ rows' \in Seq(Row) /\ rows'[n + 1] = row /\ \A k \in 1..n : rows'[k] = rows[k]
    BY <1>2, <2>2, <2>3
  <2> HIDE DEF n
  <2>5. HistoryTypeOK'
    BY <1>1, <1>2, <2>1, <2>3, <2>4 DEF HistoryInv, HistoryTypeOK
  <2>6. RowsFromFiles'
    BY <1>1, <1>2, <1>3, <2>1, <2>2, <2>4 DEF HistoryInv, RowsFromFiles
  <2>7. KeptEntriesStored'
    <3>1. \A k \in 1..n : k \in 1..(n + 1)
      BY <2>4
    <3>2. n + 1 \in 1..(n + 1)
      BY <2>4
    <3>3. kept \subseteq {rows[i].entry : i \in DOMAIN rows}
      BY <1>1 DEF HistoryInv, KeptEntriesStored
    <3> QED BY <1>1, <2>2, <2>3, <2>4, <3>1, <3>2, <3>3 DEF KeptEntriesStored
  <2>8. Chronological'
    BY <1>2, <1>3, <2>1, <2>2, <2>4 DEF HistoryInv, Chronological, RowsFromFiles
  <2> QED BY <1>1, <2>5, <2>6, <2>7, <2>8
          DEF HistoryInv, LinesInOrder, WholeOrNothing, ProgramKnows
<1> QED
  BY <1>4, <1>5 DEF AppendEntry

\* A step that changes nothing but the program.
LEMMA SameEntries ==
    ASSUME HistoryInv, file' = file, rows' = rows, issued' = issued, kept' = kept,
           program' \in {"down", "old", "migrate", "cleanup", "up"}, ProgramKnows'
    PROVE  HistoryInv'
<1>1. HistoryTypeOK' /\ RowsFromFiles' /\ LinesInOrder'
  BY DEF HistoryInv, HistoryTypeOK, RowsFromFiles, LinesInOrder
<1>2. WholeOrNothing'
  BY DEF HistoryInv, WholeOrNothing, FromFile, Stored, LegacyRows
<1>3. KeptEntriesStored' /\ Chronological'
  BY DEF HistoryInv, KeptEntriesStored, Chronological, Readable
<1> QED
  BY <1>1, <1>2, <1>3 DEF HistoryInv

LEMMA HistoryInductive == HistoryInv /\ [HistoryNext]_historyVars => HistoryInv'
<1> SUFFICES ASSUME HistoryInv, [HistoryNext]_historyVars PROVE HistoryInv'
  OBVIOUS
<1>1. CASE LaunchOld
  <2>1. ProgramKnows'
    BY <1>1 DEF LaunchOld, ProgramKnows, FromFile
  <2> QED BY <1>1, <2>1, SameEntries DEF LaunchOld
<1>2. CASE Launch \/ Stop
  <2>1. ProgramKnows'
    BY <1>2 DEF Launch, Stop, ProgramKnows
  <2> QED BY <1>2, <2>1, SameEntries DEF Launch, Stop
<1>3. CASE UNCHANGED historyVars
  <2>1. ProgramKnows'
    BY <1>3 DEF historyVars, HistoryInv, ProgramKnows, FromFile, Stored, LegacyRows
  <2> QED BY <1>3, <2>1, SameEntries DEF historyVars, HistoryInv, HistoryTypeOK
<1> QED
  BY <1>1, <1>2, <1>3, AppendToFileKeeps, AppendToFileFailsKeeps, MigrateKeeps,
     RemoveFileKeeps, AppendEntryKeeps
  DEF HistoryNext

LEMMA HistoryInvariant == HistorySpec => []HistoryInv
<1>1. HistoryInit => HistoryInv
  BY HistoryInitially
<1>2. HistoryInv /\ [HistoryNext]_historyVars => HistoryInv'
  BY HistoryInductive
<1> QED
  BY <1>1, <1>2, PTL DEF HistorySpec

\* Whatever the commands of a session do, its history is one of HistoryStore
\* (Session.record, terminal/session.go).
THEOREM SessionKeepsHistory == Spec => HistorySpec
<1>1. Init => HistoryInit
  BY DEF Init
<1>2. [Next]_vars => [HistoryNext]_historyVars
  BY DEF Next, vars, historyVars, RunCommand, Execute, RecordResult, RecordInteractive,
     EndProgram, UseHistoryFile, HistoryNext
<1> QED
  BY <1>1, <1>2, PTL DEF Spec, HistorySpec

\* A record that Append has accepted is found by Load ever after: across changes of the
\* version, records cut off in the middle, migrations that are killed and run again
\* (terminal/log.go).
THEOREM KeepsEntries == Spec => []KeptEntriesStored
<1>1. HistoryInv => KeptEntriesStored
  BY DEF HistoryInv
<1> QED
  BY <1>1, SessionKeepsHistory, HistoryInvariant, PTL

\* INSERT OR IGNORE under the unique index of command_history (internal/database) keeps
\* every entry once, and migrated entries come before those written since.
THEOREM StaysChronological == Spec => []Chronological
<1>1. HistoryInv => Chronological
  BY DEF HistoryInv
<1> QED
  BY <1>1, SessionKeepsHistory, HistoryInvariant, PTL

-----------------------------------------------------------------------------
\* Loading the history.

LEMMA NewestOf ==
    ASSUME NEW T, NEW s \in Seq(T), NEW n \in Nat
    PROVE  /\ Newest(s, n) \in Seq(T)
           /\ Len(Newest(s, n)) = IF n = 0 \/ Len(s) <= n THEN Len(s) ELSE n
           /\ \A i \in 1..Len(Newest(s, n)) :
                 Newest(s, n)[i] = s[Len(s) - Len(Newest(s, n)) + i]
<1>1. CASE n = 0 \/ Len(s) <= n
  <2>1. Newest(s, n) = s
    BY <1>1 DEF Newest
  <2>2. \A i \in 1..Len(s) : Len(s) - Len(s) + i = i
    OBVIOUS
  <2> QED BY <1>1, <2>1, <2>2
<1>2. CASE ~(n = 0 \/ Len(s) <= n)
  <2>1. Newest(s, n) = SubSeq(s, Len(s) - n + 1, Len(s))
    BY <1>2 DEF Newest
  <2>2. Len(s) - n + 1 \in 1..Len(s) /\ Len(s) - (Len(s) - n + 1) + 1 = n
    BY <1>2
  <2> QED BY <1>2, <2>1, <2>2
<1> QED
  BY <1>1, <1>2

LEMMA NewestIsSuffix ==
    ASSUME NEW T, NEW s \in Seq(T), NEW n \in Nat
    PROVE  IsSuffix(Newest(s, n), s)
<1> DEFINE w == Newest(s, n)
<1>1. /\ w \in Seq(T) /\ Len(w) \in Nat /\ Len(s) \in Nat /\ Len(w) <= Len(s)
      /\ \A i \in 1..Len(w) : w[i] = s[Len(s) - Len(w) + i]
  BY NewestOf
<1> HIDE DEF w
<1>2. Len(Reverse(w)) = Len(w) /\ Len(Reverse(s)) = Len(s)
  BY <1>1 DEF Reverse
<1>3. SubSeq(Reverse(w), 1, Len(w)) = SubSeq(Reverse(s), 1, Len(w))
  <2>1. Reverse(w) \in Seq(T) /\ Reverse(s) \in Seq(T)
    BY <1>1 DEF Reverse
  <2>2. \A i \in 1..Len(w) : Reverse(w)[i] = Reverse(s)[i]
    BY <1>1 DEF Reverse
  <2> QED BY <1>1, <1>2, <2>1, <2>2
<1> QED
  BY <1>1, <1>2, <1>3 DEF IsSuffix, IsPrefix, w

\* Passing a sequence through a window of the newest elements leaves the newest elements.
LEMMA WindowSlides ==
    ASSUME NEW T, NEW s \in Seq(T), NEW x \in T, NEW n \in Nat
    PROVE  Newest(Append(Newest(s, n), x), n) = Newest(Append(s, x), n)
<1> DEFINE w == Newest(s, n)
           c == Append(w, x)
           d == Append(s, x)
           a == Newest(c, n)
           b == Newest(d, n)
<1>1. /\ w \in Seq(T) /\ Len(w) = IF n = 0 \/ Len(s) <= n THEN Len(s) ELSE n
      /\ \A i \in 1..Len(w) : w[i] = s[Len(s) - Len(w) + i]
  BY NewestOf
<1> HIDE DEF w
<1>2. /\ c \in Seq(T) /\ Len(c) = Len(w) + 1 /\ c[Len(w) + 1] = x
      /\ \A i \in 1..Len(w) : c[i] = w[i]
      /\ d \in Seq(T) /\ Len(d) = Len(s) + 1 /\ d[Len(s) + 1] = x
      /\ \A i \in 1..Len(s) : d[i] = s[i]
  BY <1>1
<1> HIDE DEF c, d
<1>3. /\ a \in Seq(T) /\ Len(a) = IF n = 0 \/ Len(c) <= n THEN Len(c) ELSE n
      /\ \A i \in 1..Len(a) : a[i] = c[Len(c) - Len(a) + i]
  <2> HIDE DEF b
  <2>1. c \in Seq(T)
    BY <1>2
  <2> QED BY <2>1, NewestOf DEF a
<1>4. /\ b \in Seq(T) /\ Len(b) = IF n = 0 \/ Len(d) <= n THEN Len(d) ELSE n
      /\ \A i \in 1..Len(b) : b[i] = d[Len(d) - Len(b) + i]
  <2> HIDE DEF a
  <2>1. d \in Seq(T)
    BY <1>2
  <2> QED BY <2>1, NewestOf DEF b
<1> HIDE DEF a, b
<1>5. /\ Len(a) = Len(b) /\ Len(c) = Len(w) + 1 /\ Len(d) = Len(s) + 1
      /\ Len(w) \in Nat /\ Len(s) \in Nat /\ Len(a) \in Nat
      /\ Len(a) <= Len(w) + 1 /\ Len(w) <= Len(s)
  BY <1>1, <1>2, <1>3, <1>4
<1>6. ASSUME NEW i \in 1..Len(a) PROVE a[i] = b[i]
  <2>1. a[i] = c[Len(c) - Len(a) + i] /\ b[i] = d[Len(d) - Len(a) + i]
    BY <1>3, <1>4, <1>5
  <2>2. i \in Nat /\ i >= 1 /\ i <= Len(a)
    BY <1>5
  <2>3. CASE i = Len(a)
    <3>1. Len(c) - Len(a) + i = Len(w) + 1 /\ Len(d) - Len(a) + i = Len(s) + 1
      BY <1>5, <2>3
    <3> QED BY <1>2, <2>1, <3>1
  <2>4. CASE i # Len(a)
    <3> DEFINE p == Len(c) - Len(a) + i
               q == Len(d) - Len(a) + i
    <3>1. p \in 1..Len(w) /\ q \in 1..Len(s) /\ Len(s) - Len(w) + p = q
      BY <1>5, <2>2, <2>4
    <3> HIDE DEF p, q
    <3>2. a[i] = w[p] /\ b[i] = s[q]
      BY <1>2, <2>1, <3>1 DEF p, q
    <3> QED BY <1>1, <3>1, <3>2
  <2> QED BY <2>3, <2>4
<1>7. a = b
  BY <1>3, <1>4, <1>5, <1>6, SeqEqual
<1> QED
  BY <1>7 DEF a, b, c, d, w

LEMMA OfEverybody ==
    ASSUME NEW T, NEW s \in Seq(T)
    PROVE  Of(AnyConnection, s) = s
<1> DEFINE S == {r \in ToSet(s) : AnyConnection \in {AnyConnection, r.entry.connection}}
<1>1. \A i \in DOMAIN s : s[i] \in S
  BY DEF ToSet
<1>2. Subsequence(s, S) = s
  <2> HIDE DEF S
  <2> QED BY <1>1, SubsequenceAll
<1> QED
  BY <1>2 DEF Of

\* What the loop over the rows of a connection leaves in its window.
LEMMA WindowOfAll ==
    ASSUME NEW T, NEW found \in Seq(T), NEW limit \in Nat, NEW w,
           w = [n \in 0..Len(found) |->
                  IF n = 0 THEN <<>> ELSE Newest(Append(w[n - 1], found[n]), limit)]
    PROVE  w[Len(found)] = Newest(found, limit)
<1> DEFINE N == Len(found)
           P == {n \in 0..N : w[n] = Newest(SubSeq(found, 1, n), limit)}
<1>1. N \in Nat /\ SubSeq(found, 1, 0) = <<>> /\ SubSeq(found, 1, N) = found
  OBVIOUS
<1>2. 0 \in P
  <2>1. w[0] = <<>>
    BY <1>1
  <2>2. Newest(<<>>, limit) = <<>>
    BY DEF Newest
  <2>3. Newest(SubSeq(found, 1, 0), limit) = <<>>
    BY <1>1, <2>2
  <2>4. 0 \in 0..N
    BY <1>1
  <2> HIDE DEF N
  <2> QED BY <2>1, <2>3, <2>4
<1>3. ASSUME NEW n \in 0..(N - 1), n \in P PROVE n + 1 \in P
  <2> DEFINE p == SubSeq(found, 1, n)
             q == SubSeq(found, 1, n + 1)
             x == found[n + 1]
  <2>1. p \in Seq(T) /\ x \in T /\ q = Append(p, x)
    BY PrefixAppend
  <2>2. n + 1 \in 0..N /\ n + 1 # 0 /\ (n + 1) - 1 = n
    BY <1>1
  <2>3. w[n + 1] = Newest(Append(w[n], x), limit)
    BY <1>1, <2>2
  <2>4. w[n] = Newest(p, limit)
    BY <1>3
  <2> HIDE DEF p, q, x
  <2>5. w[n + 1] = Newest(q, limit)
    BY <2>1, <2>3, <2>4, WindowSlides
  <2> HIDE DEF N
  <2> QED BY <2>2, <2>5 DEF q
<1> HIDE DEF P
<1>4. \A n \in 0..N : n \in P
  BY <1>1, <1>2, <1>3, UpTo
<1>5. N \in P
  BY <1>1, <1>4
<1> QED
  BY <1>1, <1>5 DEF P

\* The function that Loaded defines exists.
LEMMA WindowExists ==
    ASSUME NEW T, NEW found \in Seq(T), NEW limit \in Nat
    PROVE  \E w : w = [n \in 0..Len(found) |->
                  IF n = 0 THEN <<>> ELSE Newest(Append(w[n - 1], found[n]), limit)]
<1> DEFINE N == Len(found)
           g == [n \in 0..N |-> Newest(SubSeq(found, 1, n), limit)]
           h == [n \in 0..N |-> IF n = 0 THEN <<>> ELSE Newest(Append(g[n - 1], found[n]), limit)]
<1>1. N \in Nat /\ SubSeq(found, 1, 0) = <<>>
  OBVIOUS
<1>2. ASSUME NEW n \in 0..N PROVE g[n] = h[n]
  <2>1. CASE n = 0
    <3>1. Newest(<<>>, limit) = <<>>
      BY DEF Newest
    <3> QED BY <1>1, <2>1, <3>1
  <2>2. CASE n # 0
    <3> DEFINE p == SubSeq(found, 1, n - 1)
               q == SubSeq(found, 1, n)
               x == found[n]
    <3>1. n - 1 \in 0..(N - 1) /\ (n - 1) + 1 = n /\ n - 1 \in 0..N
      BY <1>1, <2>2
    <3>2. p \in Seq(T) /\ x \in T /\ q = Append(p, x)
      BY <3>1, PrefixAppend
    <3>3. g[n - 1] = Newest(p, limit) /\ g[n] = Newest(q, limit)
      BY <3>1
    <3>4. h[n] = Newest(Append(g[n - 1], x), limit)
      BY <2>2
    <3> HIDE DEF p, q, x, g, h
    <3> QED BY <3>2, <3>3, <3>4, WindowSlides
  <2> QED BY <2>1, <2>2
<1>3. g = h
  BY <1>2
<1> HIDE DEF g
<1> QED
  BY <1>3

LEMMA LoadedIsNewest ==
    ASSUME rows \in Seq(Row), NEW connection, NEW limit \in Nat
    PROVE  Loaded(connection, limit) = Newest(Of(connection, rows), limit)
<1> DEFINE found == Of(connection, IF connection = AnyConnection THEN Newest(rows, limit) ELSE rows)
           w == CHOOSE f : f = [n \in 0..Len(found) |->
                  IF n = 0 THEN <<>> ELSE Newest(Append(f[n - 1], found[n]), limit)]
<1>1. Newest(rows, limit) \in Seq(Row)
  BY NewestOf
<1>2. found \in Seq(Row)
  BY <1>1, SubsequenceType DEF Of
<1>3. Loaded(connection, limit) = w[Len(found)]
  BY DEF Loaded
<1>4. w[Len(found)] = Newest(found, limit)
  <2> HIDE DEF found
  <2>1. w = [n \in 0..Len(found) |->
               IF n = 0 THEN <<>> ELSE Newest(Append(w[n - 1], found[n]), limit)]
    BY <1>2, WindowExists
  <2> HIDE DEF w
  <2> QED BY <1>2, <2>1, WindowOfAll
<1>5. CASE connection = AnyConnection
  <2>1. found = Newest(rows, limit) /\ Of(connection, rows) = rows
    BY <1>1, <1>5, OfEverybody
  <2>2. Newest(Newest(rows, limit), limit) = Newest(rows, limit)
    <3>1. Len(Newest(rows, limit)) = IF limit = 0 \/ Len(rows) <= limit THEN Len(rows) ELSE limit
      BY NewestOf
    <3>2. limit = 0 \/ Len(Newest(rows, limit)) <= limit
      BY <3>1
    <3> QED BY <3>2 DEF Newest
  <2> HIDE DEF found, w
  <2> QED BY <1>3, <1>4, <2>1, <2>2
<1>6. CASE connection # AnyConnection
  BY <1>3, <1>4, <1>6
<1> QED
  BY <1>5, <1>6

\* loadSQLiteLocked (terminal/log.go): the newest records of the connection, oldest first
\* and as many as there are up to the limit, whatever the other connections have recorded
\* in between; the loop over the rows of one connection keeps no more than that.
THEOREM LoadsNewestRecords == Spec => []LoadsNewest
<1>1. HistoryInv => LoadsNewest
  <2> SUFFICES ASSUME HistoryInv,
                      NEW connection \in Connections \cup {AnyConnection},
                      NEW limit \in 0..MaxEntries
               PROVE  /\ IsSuffix(Loaded(connection, limit), Of(connection, rows))
                      /\ Len(Loaded(connection, limit)) =
                            IF limit = 0 \/ Len(Of(connection, rows)) < limit
                            THEN Len(Of(connection, rows)) ELSE limit
    BY DEF LoadsNewest
  <2> DEFINE mine == Of(connection, rows)
  <2>1. rows \in Seq(Row) /\ limit \in Nat
    BY HistoryAssumption DEF HistoryInv, HistoryTypeOK
  <2>2. mine \in Seq(Row)
    BY <2>1, SubsequenceType DEF Of
  <2>3. Loaded(connection, limit) = Newest(mine, limit)
    BY <2>1, LoadedIsNewest
  <2> HIDE DEF mine
  <2>4. IsSuffix(Newest(mine, limit), mine)
    BY <2>1, <2>2, NewestIsSuffix
  <2>5. Len(Newest(mine, limit)) = IF limit = 0 \/ Len(mine) <= limit THEN Len(mine) ELSE limit
    BY <2>1, <2>2, NewestOf
  <2>6. Len(mine) \in Nat
    BY <2>2
  <2>7. Len(Newest(mine, limit)) = IF limit = 0 \/ Len(mine) < limit THEN Len(mine) ELSE limit
    BY <2>1, <2>5, <2>6
  <2> QED BY <2>3, <2>4, <2>7 DEF mine
<1> QED
  BY <1>1, SessionKeepsHistory, HistoryInvariant, PTL

-----------------------------------------------------------------------------
\* The result of a command.

OfStream(s) == {e \in Line : e.stream = s}

\* The lines of a stream that the readers have passed on.
Passed(s) == Subsequence(events \o channel, OfStream(s))

\* Lines that split the pieces w one after the other, all of them whole but the last.
Whole(w, line) == \A i \in line.first..(line.last - 1) : w[i] = "part"

Reached(lines) == IF lines = <<>> THEN 0 ELSE lines[Len(lines)].last

Splits(lines, w) ==
    \A k \in DOMAIN lines :
        /\ lines[k].first = IF k = 1 THEN 1 ELSE lines[k - 1].last + 1
        /\ lines[k].first <= lines[k].last
        /\ lines[k].last <= Len(w)
        /\ Whole(w, lines[k])
        /\ k < Len(lines) => w[lines[k].last] # "part"

\* The stream s has ended, and has been read to its end.
Exhausted(s) == holders = {} /\ reader[s].taken = Len(written[s])

\* A line was whole when it was passed on, or the last one of a local command.
ReaderInv(s) ==
    LET w == written[s]
        r == reader[s]
    IN  /\ r.sent <= r.taken /\ r.taken <= Len(w)
        /\ r.sent > 0 /\ w[r.sent] = "part" =>
              kind = "local" /\ Exhausted(s) /\ r.sent = r.taken
        /\ r.at = "read" => \A i \in (r.sent + 1)..r.taken : w[i] = "part"
        /\ r.at = "send" =>
              /\ r.sent < r.taken
              /\ \A i \in (r.sent + 1)..(r.taken - 1) : w[i] = "part"
              /\ w[r.taken] = "part" => kind = "local" /\ Exhausted(s)
        /\ r.at = "done" =>
              /\ kind = "ssh" => \A i \in (r.sent + 1)..r.taken : w[i] = "part"
              /\ link = "up" /\ ~TooLong(s) =>
                    Exhausted(s) /\ (kind = "local" => r.sent = r.taken)

StreamInv(s) ==
    ReaderInv(s) /\ Splits(Passed(s), written[s]) /\ Reached(Passed(s)) = reader[s].sent

\* Before the command has been started.
Untouched ==
    /\ link = "up" /\ written = [s \in Streams |-> <<>>]
    /\ reader = [s \in Streams |-> Fresh] /\ channel = <<>> /\ events = <<>>

ExecutorInv ==
    /\ ExecutorTypeOK
    /\ Len(written["stdout"]) + Len(written["stderr"]) <= MaxPieces
    /\ main \in {"idle", "dialing", "opening"} => Untouched
    /\ IF kind = "local" THEN link = "up" ELSE channel = <<>>
    /\ main # "returned" => \A s \in Streams : StreamInv(s)
    /\ main = "flushing" => kind = "ssh" /\ ReadersDone
    /\ ResultComplete

LEMMA SplitsAppend ==
    ASSUME NEW w \in Seq(Piece), NEW lines \in Seq(Line), NEW line \in Line,
           Splits(lines, w), line.first = Reached(lines) + 1, line.first <= line.last,
           line.last <= Len(w), Whole(w, line),
           Reached(lines) > 0 => w[Reached(lines)] # "part"
    PROVE  /\ Splits(Append(lines, line), w)
           /\ Reached(Append(lines, line)) = line.last
<1> USE ExecutorAssumption
<1> DEFINE n == Len(lines)
           new == Append(lines, line)
<1>1. /\ n \in Nat /\ DOMAIN lines = 1..n /\ DOMAIN new = 1..(n + 1) /\ Len(new) = n + 1
      /\ new[n + 1] = line /\ new # <<>> /\ (lines = <<>> <=> n = 0)
      /\ \A k \in 1..n : new[k] = lines[k] /\ lines[k] \in Line
  OBVIOUS
<1> HIDE DEF n, new
<1>2. n > 0 => Reached(lines) = lines[n].last /\ lines[n].last > 0
  <2>1. n > 0 => lines[n] \in Line
    BY <1>1
  <2>2. n > 0 => lines[n].last > 0
    BY <2>1 DEF Line
  <2>3. n > 0 => Reached(lines) = lines[n].last
    BY <1>1 DEF Reached, n
  <2> QED BY <2>2, <2>3
<1>3. n = 0 => Reached(lines) = 0
  BY <1>1 DEF Reached
<1>4. ASSUME NEW k \in 1..(n + 1)
      PROVE  /\ new[k].first = IF k = 1 THEN 1 ELSE new[k - 1].last + 1
             /\ new[k].first <= new[k].last
             /\ new[k].last <= Len(w)
             /\ Whole(w, new[k])
             /\ k < Len(new) => w[new[k].last] # "part"
  <2>1. CASE k \in 1..n
    <3>1. /\ lines[k].first = IF k = 1 THEN 1 ELSE lines[k - 1].last + 1
          /\ lines[k].first <= lines[k].last
          /\ lines[k].last <= Len(w)
          /\ Whole(w, lines[k])
          /\ k < n => w[lines[k].last] # "part"
      BY <1>1, <2>1 DEF Splits, n
    <3>2. new[k] = lines[k] /\ (k > 1 => new[k - 1] = lines[k - 1])
      BY <1>1, <2>1
    <3>3. k < Len(new) => w[new[k].last] # "part"
      BY <1>1, <1>2, <2>1, <3>1, <3>2
    <3> QED BY <1>1, <2>1, <3>1, <3>2, <3>3
  <2>2. CASE k = n + 1
    <3>1. k > 1 => new[k - 1] = lines[n]
      BY <1>1, <2>2
    <3>2. new[k] = line /\ ~(k < Len(new))
      BY <1>1, <2>2
    <3>3. line.first = IF k = 1 THEN 1 ELSE new[k - 1].last + 1
      BY <1>1, <1>2, <1>3, <2>2, <3>1
    <3> QED BY <3>2, <3>3
  <2> QED BY <1>1, <2>1, <2>2
<1>5. Splits(new, w)
  BY <1>1, <1>4 DEF Splits
<1>6. Reached(new) = line.last
  BY <1>1 DEF Reached
<1> QED
  BY <1>5, <1>6 DEF new

LEMMA SplitsPrefix ==
    ASSUME NEW a \in Seq(Line), NEW b \in Seq(Line), NEW w, Splits(a \o b, w)
    PROVE  Splits(a, w)
<1> DEFINE n == Len(a)
           c == a \o b
<1>1. /\ n \in Nat /\ DOMAIN a = 1..n /\ Len(c) \in Nat /\ n <= Len(c)
      /\ DOMAIN c = 1..Len(c) /\ \A k \in 1..n : c[k] = a[k]
  OBVIOUS
<1>2. Splits(c, w)
  OBVIOUS
<1> HIDE DEF c, n
<1> SUFFICES ASSUME NEW k \in 1..n
             PROVE  /\ a[k].first = IF k = 1 THEN 1 ELSE a[k - 1].last + 1
                    /\ a[k].first <= a[k].last
                    /\ a[k].last <= Len(w)
                    /\ Whole(w, a[k])
                    /\ k < Len(a) => w[a[k].last] # "part"
  BY <1>1 DEF Splits
<1>3. c[k] = a[k] /\ (k # 1 => c[k - 1] = a[k - 1]) /\ k \in DOMAIN c /\ (k < Len(a) => k < Len(c))
  BY <1>1 DEF n
<1> QED
  BY <1>2, <1>3 DEF Splits

LEMMA SplitsGrows ==
    ASSUME NEW w \in Seq(Piece), NEW piece \in Piece, NEW lines \in Seq(Line), Splits(lines, w)
    PROVE  Splits(lines, Append(w, piece))
<1> USE ExecutorAssumption
<1> DEFINE new == Append(w, piece)
<1>1. Len(w) \in Nat /\ Len(new) = Len(w) + 1 /\ \A i \in 1..Len(w) : new[i] = w[i]
  OBVIOUS
<1> HIDE DEF new
<1> SUFFICES ASSUME NEW k \in DOMAIN lines
             PROVE  /\ lines[k].first = IF k = 1 THEN 1 ELSE lines[k - 1].last + 1
                    /\ lines[k].first <= lines[k].last
                    /\ lines[k].last <= Len(new)
                    /\ Whole(new, lines[k])
                    /\ k < Len(lines) => new[lines[k].last] # "part"
  BY DEF Splits, new
<1>2. /\ lines[k].first = IF k = 1 THEN 1 ELSE lines[k - 1].last + 1
      /\ lines[k].first <= lines[k].last
      /\ lines[k].last <= Len(w)
      /\ Whole(w, lines[k])
      /\ k < Len(lines) => w[lines[k].last] # "part"
  BY DEF Splits
<1>3. lines[k].first \in Nat /\ lines[k].first > 0 /\ lines[k].last \in Nat /\ lines[k].last > 0
  <2>1. lines[k] \in Line
    OBVIOUS
  <2> QED BY <2>1 DEF Line
<1>4. Whole(new, lines[k])
  BY <1>1, <1>2, <1>3 DEF Whole
<1> QED
  BY <1>1, <1>2, <1>3, <1>4

-----------------------------------------------------------------------------
\* Subsequences of lines.
LEMMA LinesConcat ==
    ASSUME NEW a \in Seq(Line), NEW b \in Seq(Line), NEW S
    PROVE  /\ Subsequence(a \o b, S) = Subsequence(a, S) \o Subsequence(b, S)
           /\ Subsequence(a, S) \in Seq(Line)
<1>1. Subsequence(a \o b, S) = Subsequence(a, S) \o Subsequence(b, S)
  BY SubsequenceConcat
<1>2. Subsequence(a, S) \in Seq(Line)
  BY SubsequenceType
<1> QED
  BY <1>1, <1>2

LEMMA LinesAppend ==
    ASSUME NEW a \in Seq(Line), NEW line \in Line, NEW S
    PROVE  Subsequence(Append(a, line), S) =
              IF line \in S THEN Append(Subsequence(a, S), line) ELSE Subsequence(a, S)
BY SubsequenceAppend

LEMMA PassedType ==
    ASSUME ExecutorTypeOK, NEW s
    PROVE  /\ events \o channel \in Seq(Line)
           /\ Passed(s) \in Seq(Line) /\ LinesOf(s) \in Seq(Line)
           /\ LinesOf(s) = Subsequence(events, OfStream(s))
           /\ Passed(s) = LinesOf(s) \o Subsequence(channel, OfStream(s))
<1>1. events \in Seq(Line) /\ channel \in Seq(Line) /\ events \o channel \in Seq(Line)
  BY DEF ExecutorTypeOK
<1>2. LinesOf(s) = Subsequence(events, OfStream(s))
  BY DEF LinesOf, OfStream
<1>3. Passed(s) = Subsequence(events \o channel, OfStream(s))
  BY DEF Passed
<1>4. Subsequence(events \o channel, OfStream(s)) =
         Subsequence(events, OfStream(s)) \o Subsequence(channel, OfStream(s))
  <2> DEFINE S == OfStream(s)
  <2>1. Subsequence(events \o channel, S) = Subsequence(events, S) \o Subsequence(channel, S)
    <3>1. events \in Seq(Line) /\ channel \in Seq(Line)
      BY <1>1
    <3> HIDE DEF S
    <3> QED BY <3>1, LinesConcat
  <2> QED BY <2>1
<1>5. Passed(s) \in Seq(Line) /\ LinesOf(s) \in Seq(Line)
  BY <1>1, <1>2, <1>3, LinesConcat
<1> QED
  BY <1>1, <1>2, <1>3, <1>4, <1>5

\* One more line has been passed on.
LEMMA PassedAppend ==
    ASSUME ExecutorTypeOK, NEW s \in Streams, NEW line \in Line,
           events' \o channel' = Append(events \o channel, line)
    PROVE  Passed(s)' = IF line.stream = s THEN Append(Passed(s), line) ELSE Passed(s)
<1>1. events \o channel \in Seq(Line)
  BY PassedType
<1>2. Passed(s)' = Subsequence(events' \o channel', OfStream(s))
  BY DEF Passed, OfStream
<1>3. line \in OfStream(s) <=> line.stream = s
  BY DEF OfStream
<1>4. Subsequence(Append(events \o channel, line), OfStream(s)) =
         IF line \in OfStream(s) THEN Append(Subsequence(events \o channel, OfStream(s)), line)
         ELSE Subsequence(events \o channel, OfStream(s))
  BY <1>1, LinesAppend
<1>5. Passed(s) = Subsequence(events \o channel, OfStream(s))
  BY DEF Passed
<1> QED
  BY <1>2, <1>3, <1>4, <1>5

\* A stream of which nothing has been read or passed on.
LEMMA StreamStays ==
    ASSUME NEW s \in Streams, StreamInv(s), kind' = kind, link' = link \/ link' = "closed",
           holders = {} => holders' = {}, written'[s] = written[s], reader'[s] = reader[s],
           events' \o channel' = events \o channel
    PROVE  StreamInv(s)'
<1>1. Passed(s)' = Passed(s)
  BY DEF Passed, OfStream
<1>2. TooLong(s)' = TooLong(s)
  BY DEF TooLong
<1>3. ReaderInv(s)'
  BY <1>2 DEF StreamInv, ReaderInv, Exhausted
<1> QED
  BY <1>1, <1>3 DEF StreamInv, Splits

LEMMA ExecutorInitially == ExecutorInit => ExecutorInv
<1> SUFFICES ASSUME ExecutorInit PROVE ExecutorInv
  OBVIOUS
<1> USE ExecutorAssumption DEF ExecutorInit
<1>1. ExecutorTypeOK
  BY DEF ExecutorTypeOK, Kinds, Reader, Fresh
<1>2. \A s \in Streams : Passed(s) = <<>> /\ LinesOf(s) = <<>>
  <2>1. <<>> \o <<>> = <<>>
    BY ConcatEmptySeq, EmptySeq
  <2> QED BY <2>1, SubsequenceEmpty DEF Passed, LinesOf
<1>3. \A s \in Streams : StreamInv(s)
  BY <1>2 DEF StreamInv, ReaderInv, Fresh, Splits, Reached
<1>4. ResultComplete
  BY <1>2 DEF ResultComplete
<1> QED
  BY <1>1, <1>3, <1>4 DEF ExecutorInv, Untouched, Streams

\* A command has been forgotten, or not been started.
LEMMA UntouchedKeeps ==
    ASSUME Untouched', ExecutorTypeOK', main' \in {"idle", "dialing", "opening", "running", "returned"}
    PROVE  ExecutorInv'
<1> USE ExecutorAssumption
<1>1. \A s \in Streams : Passed(s)' = <<>> /\ LinesOf(s)' = <<>>
  <2>1. <<>> \o <<>> = <<>>
    BY ConcatEmptySeq, EmptySeq
  <2> QED BY <2>1, SubsequenceEmpty DEF Untouched, Passed, LinesOf, OfStream
<1>2. \A s \in Streams : StreamInv(s)'
  <2>1. ASSUME NEW s \in Streams PROVE ReaderInv(s)'
    BY DEF Untouched, ReaderInv, Fresh, Exhausted
  <2> QED BY <1>1, <2>1 DEF StreamInv, Untouched, Fresh, Splits, Reached
<1>3. ResultComplete'
  BY <1>1 DEF Untouched, ResultComplete
<1> QED
  BY <1>2, <1>3 DEF ExecutorInv, Untouched, Streams

LEMMA ForgetKeeps == Forget => ExecutorInv'
<1> SUFFICES ASSUME Forget PROVE ExecutorInv'
  OBVIOUS
<1> USE ExecutorAssumption
<1>1. ExecutorTypeOK'
  BY DEF Forget, ExecutorTypeOK, Kinds, Reader, Fresh
<1> QED
  BY <1>1, UntouchedKeeps DEF Forget, Untouched

LEMMA OpeningKeeps ==
    ExecutorInv /\ (StartCommand \/ Dialed \/ DialFails \/ DialStops \/ Opened) => ExecutorInv'
<1> SUFFICES ASSUME ExecutorInv, StartCommand \/ Dialed \/ DialFails \/ DialStops \/ Opened
             PROVE  ExecutorInv'
  OBVIOUS
<1> USE ExecutorAssumption DEF Return
<1>1. ExecutorTypeOK'
  BY DEF ExecutorInv, StartCommand, Dialed, DialFails, DialStops, Opened, ExecutorTypeOK, Kinds
<1>2. Untouched' /\ main' \in {"dialing", "opening", "running", "returned"}
  BY DEF ExecutorInv, Untouched, StartCommand, Dialed, DialFails, DialStops, Opened
<1> QED
  BY <1>1, <1>2, UntouchedKeeps

\* In the other steps of a command that is running.
LEMMA RunningKeeps ==
    ASSUME ExecutorInv, main = "running", main' = "running", ExecutorTypeOK', kind' = kind,
           Len(written'["stdout"]) + Len(written'["stderr"]) <= MaxPieces,
           IF kind = "local" THEN link' = "up" ELSE channel' = <<>>,
           \A s \in Streams : StreamInv(s)'
    PROVE  ExecutorInv'
<1>1. ASSUME NEW s \in Streams PROVE Splits(LinesOf(s), written[s])'
  <2>1. /\ LinesOf(s)' = Subsequence(events', OfStream(s))
        /\ Passed(s)' = Subsequence(events' \o channel', OfStream(s))
    BY DEF LinesOf, OfStream, Passed
  <2>2. events' \in Seq(Line) /\ channel' \in Seq(Line)
    BY DEF ExecutorTypeOK
  <2> DEFINE S == OfStream(s)
  <2>3. /\ Subsequence(events' \o channel', S) = Subsequence(events', S) \o Subsequence(channel', S)
        /\ Subsequence(events', S) \in Seq(Line) /\ Subsequence(channel', S) \in Seq(Line)
    <3> HIDE DEF S
    <3> QED BY <2>2, LinesConcat
  <2>4. /\ Passed(s)' = LinesOf(s)' \o Subsequence(channel', OfStream(s))
        /\ LinesOf(s)' \in Seq(Line) /\ Subsequence(channel', OfStream(s)) \in Seq(Line)
    BY <2>1, <2>3
  <2>5. Splits(Passed(s)', written'[s])
    BY DEF StreamInv, Splits
  <2>6. Splits(LinesOf(s)', written'[s])
    BY <2>4, <2>5, SplitsPrefix
  <2> QED BY <2>6 DEF Splits
<1>2. ResultComplete'
  BY <1>1 DEF ResultComplete, Splits, Whole
<1> QED
  BY <1>2 DEF ExecutorInv

LEMMA CommandWritesKeeps == ASSUME ExecutorInv, NEW t \in Streams, CommandWrites(t)
                            PROVE  ExecutorInv'
<1> USE ExecutorAssumption
<1> DEFINE w == written[t]
<1>1. PICK piece \in Piece : written' = [written EXCEPT ![t] = Append(w, piece)]
  BY DEF CommandWrites
<1>2. written \in [Streams -> Seq(Piece)] /\ w \in Seq(Piece)
  BY DEF ExecutorInv, ExecutorTypeOK
<1>3. written'[t] = Append(w, piece) /\ \A s \in Streams : s # t => written'[s] = written[s]
  BY <1>1, <1>2
<1>4. ExecutorTypeOK'
  BY <1>1, <1>2 DEF ExecutorInv, CommandWrites, ExecutorTypeOK
<1>5. Len(written'["stdout"]) + Len(written'["stderr"]) <= MaxPieces
  <2>1. Len(written["stdout"]) \in Nat /\ Len(written["stderr"]) \in Nat
    BY <1>2 DEF Streams
  <2>2. Len(written'[t]) = Len(written[t]) + 1
    BY <1>2, <1>3
  <2>3. Len(written["stdout"]) + Len(written["stderr"]) < MaxPieces
    BY DEF CommandWrites
  <2>4. t = "stdout" \/ t = "stderr"
    BY DEF Streams
  <2> DEFINE a == Len(written["stdout"])
             b == Len(written["stderr"])
  <2>5. a \in Nat /\ b \in Nat /\ a + b < MaxPieces
    BY <2>1, <2>3
  <2>6. (a + 1) + b <= MaxPieces /\ a + (b + 1) <= MaxPieces
    <3> HIDE DEF a, b
    <3> QED BY <2>5
  <2>7. CASE t = "stdout"
    <3>1. Len(written'["stderr"]) = Len(written["stderr"])
      BY <1>3, <2>7 DEF Streams
    <3>2. Len(written'["stdout"]) = Len(written["stdout"]) + 1
      BY <2>2, <2>7
    <3> QED BY <2>6, <3>1, <3>2
  <2>8. CASE t = "stderr"
    <3>1. Len(written'["stdout"]) = Len(written["stdout"])
      BY <1>3, <2>8 DEF Streams
    <3>2. Len(written'["stderr"]) = Len(written["stderr"]) + 1
      BY <2>2, <2>8
    <3> QED BY <2>6, <3>1, <3>2
  <2> QED BY <2>4, <2>7, <2>8
<1>6. ASSUME NEW s \in Streams PROVE StreamInv(s)'
  <2>1. StreamInv(s)
    BY DEF ExecutorInv, CommandWrites
  <2>2. CASE s # t
    BY <1>3, <2>1, <2>2, StreamStays DEF CommandWrites
  <2>3. CASE s = t
    <3>1. Passed(s)' = Passed(s) /\ Passed(s) \in Seq(Line)
      BY PassedType DEF ExecutorInv, CommandWrites, Passed, OfStream
    <3>2. Splits(Passed(s), Append(w, piece))
      BY <1>2, <2>1, <2>3, <3>1, SplitsGrows DEF StreamInv
    <3>3. Splits(Passed(s), written[s])'
      <4>1. Splits(Passed(s)', written'[s])
        BY <1>3, <2>3, <3>1, <3>2
      <4> QED BY <4>1 DEF Splits
    <3>4. ReaderInv(s)'
      <4> DEFINE r == reader[s]
                 m == r.sent
                 n == r.taken
                 v == written'[s]
      <4>1. r \in Reader /\ reader' = reader /\ kind' = kind /\ link' = link /\ holders' = holders
        BY DEF ExecutorInv, ExecutorTypeOK, CommandWrites
      <4>2. m \in Nat /\ n \in Nat
        BY <4>1 DEF Reader
      <4>3. /\ Len(w) \in Nat /\ Len(v) = Len(w) + 1
            /\ \A i \in 1..Len(w) : v[i] = w[i]
        BY <1>2, <1>3, <2>3
      <4>4. TooLong(s) => TooLong(s)'
        BY <1>2, <2>3, <4>1, <4>3 DEF TooLong
      <4>5. holders # {} /\ link = "up"
        BY DEF CommandWrites
      <4>6. ReaderInv(s)
        BY <2>1 DEF StreamInv
      <4>7. /\ m <= n /\ n <= Len(w)
            /\ m > 0 => w[m] # "part"
            /\ r.at = "read" => \A i \in (m + 1)..n : w[i] = "part"
            /\ r.at = "send" =>
                  m < n /\ w[n] # "part" /\ \A i \in (m + 1)..(n - 1) : w[i] = "part"
            /\ r.at = "done" /\ kind = "ssh" => \A i \in (m + 1)..n : w[i] = "part"
            /\ r.at = "done" => TooLong(s)
        BY <2>3, <4>5, <4>6 DEF ReaderInv, Exhausted
      <4>8. reader'[s] = r
        BY <4>1
      <4> HIDE DEF m, n, v, w, r
      <4>9. \A i \in 1..n : v[i] = w[i]
        BY ONLY <4>2, <4>3, <4>7
      <4>10. /\ r.at = "read" => \A i \in (m + 1)..n : v[i] = "part"
             /\ r.at = "send" => \A i \in (m + 1)..(n - 1) : v[i] = "part"
             /\ r.at = "done" /\ kind = "ssh" => \A i \in (m + 1)..n : v[i] = "part"
        BY ONLY <4>2, <4>7, <4>9
      <4>11. m > 0 => v[m] # "part"
        BY ONLY <4>2, <4>7, <4>9
      <4>12. r.at = "send" => m < n /\ v[n] # "part"
        BY ONLY <4>2, <4>7, <4>9
      <4>13. m <= n /\ n <= Len(v) /\ (r.at = "done" => TooLong(s)')
        BY ONLY <4>2, <4>3, <4>4, <4>7
      <4> QED BY <4>1, <4>8, <4>10, <4>11, <4>12, <4>13 DEF ReaderInv, m, n, v
    <3> QED BY <2>1, <3>1, <3>3, <3>4 DEF StreamInv, CommandWrites, Reached
  <2> QED BY <2>2, <2>3
<1> QED
  BY <1>4, <1>5, <1>6, RunningKeeps DEF ExecutorInv, CommandWrites

\* A reader takes a step of its own.
LEMMA ReaderKeeps ==
    ASSUME ExecutorInv, main = "running", NEW t \in Streams, NEW r \in Reader,
           reader' = [reader EXCEPT ![t] = r], ReaderInv(t)',
           \/ r.sent = reader[t].sent
           \/ Reached(Passed(t))' = r.sent /\ Splits(Passed(t), written[t])',
           \A s \in Streams : s # t \/ r.sent = reader[t].sent => Passed(s)' = Passed(s),
           IF kind = "local" THEN TRUE ELSE channel' = <<>>,
           channel' \in Seq(Line), Len(channel') <= ChannelSize, events' \in Seq(Line),
           UNCHANGED <<kind, ctx, main, holders, link, written, outcome>>
    PROVE  ExecutorInv'
<1>1. reader \in [Streams -> Reader]
  BY DEF ExecutorInv, ExecutorTypeOK
<1>2. reader'[t] = r /\ \A s \in Streams : s # t => reader'[s] = reader[s]
  BY <1>1
<1>3. ExecutorTypeOK'
  BY <1>1 DEF ExecutorInv, ExecutorTypeOK
<1>4. ASSUME NEW s \in Streams PROVE StreamInv(s)'
  <2>1. StreamInv(s)
    BY DEF ExecutorInv
  <2>2. CASE s # t
    <3>1. Passed(s)' = Passed(s)
      BY <2>2
    <3>2. TooLong(s)' = TooLong(s)
      BY DEF TooLong
    <3>3. ReaderInv(s)'
      BY <1>2, <2>1, <2>2, <3>2 DEF StreamInv, ReaderInv, Exhausted
    <3> QED BY <1>2, <2>1, <2>2, <3>1, <3>3 DEF StreamInv, Splits
  <2>3. CASE s = t /\ r.sent = reader[t].sent
    <3>1. Passed(s)' = Passed(s)
      BY <2>3
    <3> QED BY <1>2, <2>1, <2>3, <3>1 DEF StreamInv, Splits
  <2>4. CASE s = t /\ r.sent # reader[t].sent
    BY <1>2, <2>4 DEF StreamInv
  <2> QED BY <2>2, <2>3, <2>4
<1> QED
  BY <1>3, <1>4, RunningKeeps DEF ExecutorInv

LEMMA ReadPieceKeeps == ASSUME ExecutorInv, NEW t \in Streams, ReadPiece(t)
                        PROVE  ExecutorInv'
<1> USE ExecutorAssumption
<1> DEFINE w == written[t]
           r == reader[t]
           piece == w[r.taken + 1]
           at == CASE kind = "local" /\ piece = "long" -> "done"
                   [] piece # "part" -> "send"
                   [] OTHER -> "read"
           new == [r EXCEPT !.taken = @ + 1, !.at = at]
<1>1. /\ r \in Reader /\ r.at = "read" /\ r.taken < Len(w) /\ main = "running"
      /\ reader' = [reader EXCEPT ![t].taken = @ + 1, ![t].at = at]
      /\ UNCHANGED <<kind, ctx, main, holders, link, written, channel, events, outcome>>
  BY DEF ReadPiece, ExecutorInv, ExecutorTypeOK
<1>2. reader' = [reader EXCEPT ![t] = new]
  <2>1. reader \in [Streams -> Reader]
    BY DEF ExecutorInv, ExecutorTypeOK
  <2> DEFINE one == [r EXCEPT !.taken = @ + 1]
             mid == [reader EXCEPT ![t] = one]
  <2>2. reader' = [mid EXCEPT ![t] = [mid[t] EXCEPT !.at = at]]
    BY <1>1
  <2>3. mid[t] = one
    BY <2>1
  <2>4. reader' = [mid EXCEPT ![t] = new]
    BY <2>2, <2>3
  <2> HIDE DEF new, one
  <2> QED BY <2>1, <2>4
<1>3. w \in Seq(Piece) /\ Len(w) <= MaxPieces /\ Len(w) \in Nat
  <2>1. written["stdout"] \in Seq(Piece) /\ written["stderr"] \in Seq(Piece)
    BY DEF ExecutorInv, ExecutorTypeOK, Streams
  <2>2. Len(written["stdout"]) + Len(written["stderr"]) <= MaxPieces
    BY DEF ExecutorInv
  <2>3. Len(written["stdout"]) \in Nat /\ Len(written["stderr"]) \in Nat
    BY <2>1
  <2> DEFINE a == Len(written["stdout"])
             b == Len(written["stderr"])
  <2>4. a <= MaxPieces /\ b <= MaxPieces
    <3>1. a \in Nat /\ b \in Nat /\ a + b <= MaxPieces
      BY <2>2, <2>3
    <3> HIDE DEF a, b
    <3> QED BY <3>1
  <2> QED BY <2>1, <2>4 DEF Streams
<1>4. r.taken \in Nat /\ r.sent \in Nat /\ r.sent \in 0..MaxPieces
  BY <1>1 DEF Reader
<1>5. new \in Reader /\ new.at = at /\ new.taken = r.taken + 1 /\ new.sent = r.sent
  <2> DEFINE n == r.taken
  <2>1. at \in {"read", "send", "done"}
    OBVIOUS
  <2>2. n + 1 \in 0..MaxPieces
    <3>1. n \in Nat /\ n < Len(w) /\ Len(w) <= MaxPieces /\ Len(w) \in Nat
      BY <1>1, <1>3, <1>4
    <3> HIDE DEF n, w
    <3> QED BY <3>1
  <2> HIDE DEF at, r
  <2> QED BY <1>1, <2>1, <2>2 DEF Reader
<1>6. StreamInv(t) /\ ReaderInv(t)
  BY <1>1 DEF ExecutorInv, StreamInv
<1>7. TooLong(t)' = TooLong(t)
  BY <1>1 DEF TooLong
<1>8. reader'[t] = new
  BY <1>2, <1>5 DEF ExecutorInv, ExecutorTypeOK
<1>9. ReaderInv(t)'
  <2>1. /\ r.sent <= r.taken
        /\ r.sent > 0 /\ w[r.sent] = "part" =>
              kind = "local" /\ Exhausted(t) /\ r.sent = r.taken
        /\ \A i \in (r.sent + 1)..r.taken : w[i] = "part"
    BY <1>1, <1>6 DEF ReaderInv
  <2>2. ~Exhausted(t)
    BY <1>1, <1>4 DEF Exhausted
  <2>3. at = "done" => kind = "local" /\ TooLong(t)
    BY <1>1, <1>3, <1>4 DEF TooLong
  <2>4. at = "read" => \A i \in (r.sent + 1)..(r.taken + 1) : w[i] = "part"
    BY <1>4, <2>1
  <2>5. at = "send" => w[r.taken + 1] # "part"
    OBVIOUS
  <2>6. new.taken = r.taken + 1 /\ new.sent = r.sent /\ written'[t] = w /\ kind' = kind /\ link' = link
        /\ new.taken - 1 = r.taken /\ new.at = at /\ at \in {"done", "send", "read"}
    BY <1>1, <1>4, <1>5
  <2>7. r.sent <= r.taken + 1 /\ r.sent < r.taken + 1 /\ r.taken + 1 <= Len(w)
    BY <1>1, <1>3, <1>4, <2>1
  <2> HIDE DEF new, r, w, at
  <2> QED BY <1>7, <1>8, <2>1, <2>2, <2>3, <2>4, <2>5, <2>6, <2>7 DEF ReaderInv
<1>10. \A s \in Streams : Passed(s)' = Passed(s)
  BY <1>1 DEF Passed, OfStream
<1>11. channel \in Seq(Line) /\ Len(channel) <= ChannelSize /\ events \in Seq(Line)
       /\ (kind # "local" => channel = <<>>)
  BY DEF ExecutorInv, ExecutorTypeOK
<1>12. new.sent = reader[t].sent
  BY <1>5
<1> HIDE DEF new, r, w, at
<1> QED
  BY <1>1, <1>2, <1>5, <1>9, <1>10, <1>11, <1>12, ReaderKeeps

LEMMA ReadEndKeeps == ASSUME ExecutorInv, NEW t \in Streams, ReadEnd(t)
                      PROVE  ExecutorInv'
<1> DEFINE r == reader[t]
           at == IF kind = "local" /\ Pending(t) THEN "send" ELSE "done"
           new == [r EXCEPT !.at = at]
<1>1. /\ r \in Reader /\ r.at = "read" /\ AtEnd(t) /\ main = "running"
      /\ reader' = [reader EXCEPT ![t].at = at]
      /\ UNCHANGED <<kind, ctx, main, holders, link, written, channel, events, outcome>>
  BY DEF ReadEnd, ExecutorInv, ExecutorTypeOK
<1>2. reader' = [reader EXCEPT ![t] = new] /\ reader'[t] = new /\ new \in Reader
  BY <1>1 DEF Reader, ExecutorInv, ExecutorTypeOK
<1>3. new.at = at /\ new.sent = r.sent /\ new.taken = r.taken
  BY <1>1 DEF Reader
<1>4. TooLong(t)' = TooLong(t) /\ Exhausted(t)' = Exhausted(t)
  BY <1>1, <1>2, <1>3 DEF TooLong, Exhausted
<1>5. r.taken \in Nat /\ r.sent \in Nat /\ kind \in {"local", "ssh"} /\ link \in {"up", "closed"}
  BY <1>1 DEF Reader, ExecutorInv, ExecutorTypeOK, Kinds
<1>6. ReaderInv(t)'
  <2>1. ReaderInv(t)
    BY <1>1 DEF ExecutorInv, StreamInv
  <2>2. link = "up" => Exhausted(t)
    BY <1>1 DEF AtEnd, Exhausted
  <2>3. kind = "local" => link = "up"
    BY DEF ExecutorInv
  <2>4. Pending(t) <=> r.sent < r.taken
    BY <1>5 DEF Pending
  <2> HIDE DEF new, r
  <2> QED BY <1>1, <1>2, <1>3, <1>4, <1>5, <2>1, <2>2, <2>3, <2>4 DEF ReaderInv, r
<1>7. \A s \in Streams : Passed(s)' = Passed(s)
  BY <1>1 DEF Passed, OfStream
<1>8. channel \in Seq(Line) /\ Len(channel) <= ChannelSize /\ events \in Seq(Line)
      /\ (kind # "local" => channel = <<>>)
  BY DEF ExecutorInv, ExecutorTypeOK
<1> HIDE DEF new
<1> QED
  BY <1>1, <1>2, <1>3, <1>6, <1>7, <1>8, ReaderKeeps

\* What a reader that is at "send" passes on.
LEMMA SentLine ==
    ASSUME ExecutorInv, NEW t \in Streams, main = "running", reader[t].at = "send",
           SentTo(t), UNCHANGED <<kind, ctx, main, holders, link, written, outcome>>,
           channel' \in Seq(Line), Len(channel') <= ChannelSize, events' \in Seq(Line),
           IF kind = "local" THEN TRUE ELSE channel' = <<>>,
           PendingLine(t) \in Line => events' \o channel' = Append(events \o channel, PendingLine(t))
    PROVE  ExecutorInv'
<1> USE ExecutorAssumption
<1> DEFINE w == written[t]
           r == reader[t]
           line == PendingLine(t)
           new == [r EXCEPT !.sent = r.taken, !.at = "read"]
<1>1. r \in Reader /\ reader \in [Streams -> Reader] /\ w \in Seq(Piece)
  BY DEF ExecutorInv, ExecutorTypeOK
<1>2. reader' = [reader EXCEPT ![t] = new] /\ reader'[t] = new /\ new \in Reader
  BY <1>1 DEF Reader, SentTo
<1>3. new.at = "read" /\ new.sent = r.taken /\ new.taken = r.taken
  BY <1>1 DEF Reader
<1>4. r.sent \in Nat /\ r.taken \in Nat /\ r.sent < r.taken /\ r.taken \in 0..MaxPieces
  BY <1>1 DEF Reader, ExecutorInv, StreamInv, ReaderInv
<1>5. line \in Line
  <2>1. r.sent + 1 \in 1..MaxPieces /\ r.taken \in 1..MaxPieces
    <3> DEFINE a == r.sent
               b == r.taken
    <3>1. a \in Nat /\ b \in 0..MaxPieces /\ a < b
      BY <1>4
    <3>2. a + 1 \in 1..MaxPieces /\ b \in 1..MaxPieces
      <4> HIDE DEF a, b
      <4> QED BY <3>1
    <3> QED BY <3>2
  <2> QED BY <2>1 DEF PendingLine, Line
<1>6. line.stream = t /\ line.first = r.sent + 1 /\ line.last = r.taken
  BY DEF PendingLine
<1>7. /\ Passed(t)' = Append(Passed(t), line)
      /\ \A s \in Streams : s # t => Passed(s)' = Passed(s)
  <2> HIDE DEF line
  <2> QED BY <1>5, <1>6, PassedAppend DEF ExecutorInv, line
<1>8. StreamInv(t) /\ ReaderInv(t) /\ Splits(Passed(t), w) /\ Reached(Passed(t)) = r.sent
  BY DEF ExecutorInv, StreamInv
<1>9. /\ r.sent > 0 /\ w[r.sent] = "part" => r.sent = r.taken
      /\ r.taken <= Len(w)
      /\ \A i \in (r.sent + 1)..(r.taken - 1) : w[i] = "part"
      /\ w[r.taken] = "part" => kind = "local" /\ Exhausted(t)
  BY <1>8 DEF ReaderInv
<1>10. r.sent > 0 => w[r.sent] # "part"
  BY <1>4, <1>9
<1>11. Splits(Passed(t)', w) /\ Reached(Passed(t)') = r.taken
  <2>1. Passed(t) \in Seq(Line)
    BY PassedType DEF ExecutorInv
  <2>2. Whole(w, line)
    BY <1>6, <1>9 DEF Whole
  <2>3. line.first <= line.last
    BY <1>4, <1>6
  <2> HIDE DEF line, w, r
  <2> QED BY <1>1, <1>5, <1>6, <1>7, <1>8, <1>9, <1>10, <2>1, <2>2, <2>3, SplitsAppend
<1>12. Reached(Passed(t))' = new.sent /\ Splits(Passed(t), written[t])'
  BY <1>3, <1>11 DEF Reached, Splits
<1>13. ReaderInv(t)'
  <2>1. Exhausted(t)' = Exhausted(t)
    BY <1>2, <1>3 DEF Exhausted
  <2>2. \A i \in (r.taken + 1)..r.taken : FALSE
    BY <1>4
  <2> HIDE DEF new, r
  <2> QED BY <1>2, <1>3, <1>4, <1>9, <2>1, <2>2 DEF ReaderInv
<1>14. new.sent # reader[t].sent
  BY <1>3, <1>4
<1>15. \A s \in Streams : s # t \/ new.sent = reader[t].sent => Passed(s)' = Passed(s)
  BY <1>7, <1>14
<1> HIDE DEF new, r, w, line
<1> QED
  BY <1>2, <1>12, <1>13, <1>15, ReaderKeeps

LEMMA SendLineKeeps == ASSUME ExecutorInv, NEW t \in Streams, SendLine(t)
                       PROVE  ExecutorInv'
<1>1. /\ events \in Seq(Line) /\ channel \in Seq(Line) /\ Len(channel) < ChannelSize
      /\ channel' = Append(channel, PendingLine(t)) /\ events' = events
  BY DEF ExecutorInv, ExecutorTypeOK, SendLine
<1>2. PendingLine(t) \in Line
  <2>1. reader[t] \in Reader /\ reader[t].sent < reader[t].taken
    BY DEF ExecutorInv, ExecutorTypeOK, StreamInv, ReaderInv, SendLine
  <2> QED BY <2>1, ExecutorAssumption DEF PendingLine, Line, Reader
<1> DEFINE line == PendingLine(t)
<1>3. /\ Append(channel, line) \in Seq(Line)
      /\ Len(Append(channel, line)) <= ChannelSize
      /\ events \o Append(channel, line) = Append(events \o channel, line)
  <2> HIDE DEF line
  <2>1. line \in Line
    BY <1>2 DEF line
  <2> QED BY <1>1, <2>1, ExecutorAssumption
<1> QED
  BY <1>1, <1>3, SentLine DEF SendLine

LEMMA EmitLineKeeps == ASSUME ExecutorInv, NEW t \in Streams, EmitLine(t)
                       PROVE  ExecutorInv'
<1>1. /\ events \in Seq(Line) /\ channel = <<>> /\ channel' = <<>>
      /\ events' = Append(events, PendingLine(t))
  BY DEF ExecutorInv, ExecutorTypeOK, EmitLine
<1>2. PendingLine(t) \in Line
  <2>1. reader[t] \in Reader /\ reader[t].sent < reader[t].taken
    BY DEF ExecutorInv, ExecutorTypeOK, StreamInv, ReaderInv, EmitLine
  <2> QED BY <2>1, ExecutorAssumption DEF PendingLine, Line, Reader
<1> DEFINE line == PendingLine(t)
<1>3. /\ Append(events, line) \in Seq(Line)
      /\ Append(events, line) \o <<>> = Append(events \o <<>>, line)
      /\ <<>> \in Seq(Line) /\ Len(<<>>) <= ChannelSize
  <2> HIDE DEF line
  <2>1. line \in Line
    BY <1>2 DEF line
  <2> QED BY <1>1, <2>1, ExecutorAssumption
<1> QED
  BY <1>1, <1>3, SentLine DEF EmitLine

\* The steps in which nothing is read or passed on.
LEMMA OthersKeep ==
    ASSUME ExecutorInv, main = "running", main' = "running",
           ctx' \in {"live", "done"}, holders' \subseteq {"shell", "child"},
           holders = {} => holders' = {},
           link' = link \/ (kind = "ssh" /\ link' = "closed"),
           UNCHANGED <<kind, written, reader, outcome>>,
           events' \in Seq(Line), channel' \in Seq(Line), Len(channel') <= ChannelSize,
           kind = "ssh" => channel' = <<>>,
           events' \o channel' = events \o channel
    PROVE  ExecutorInv'
<1>1. ExecutorTypeOK'
  BY DEF ExecutorInv, ExecutorTypeOK
<1>2. ASSUME NEW s \in Streams PROVE StreamInv(s)'
  BY StreamStays DEF ExecutorInv
<1> QED
  BY <1>1, <1>2, RunningKeeps DEF ExecutorInv, ExecutorTypeOK, Kinds

LEMMA CollectKeeps == ExecutorInv /\ Collect => ExecutorInv'
<1> SUFFICES ASSUME ExecutorInv, Collect PROVE ExecutorInv'
  OBVIOUS
<1>1. /\ events \in Seq(Line) /\ channel \in Seq(Line) /\ channel # <<>> /\ Len(channel) <= ChannelSize
      /\ events' = Append(events, Head(channel)) /\ channel' = Tail(channel)
  BY DEF ExecutorInv, ExecutorTypeOK, Collect
<1>2. /\ events' \in Seq(Line) /\ channel' \in Seq(Line) /\ Len(channel') <= ChannelSize
  BY <1>1, ExecutorAssumption
<1>3. events' \o channel' = events \o channel
  <2>1. Len(events' \o channel') = Len(events \o channel)
    BY <1>1
  <2>2. \A i \in 1..Len(events \o channel) : (events' \o channel')[i] = (events \o channel)[i]
    BY <1>1
  <2>3. events' \o channel' \in Seq(Line) /\ events \o channel \in Seq(Line)
    BY <1>1, <1>2
  <2> QED BY <2>1, <2>2, <2>3, SeqEqual
<1> QED
  BY <1>1, <1>2, <1>3, OthersKeep DEF ExecutorInv, ExecutorTypeOK, Collect

LEMMA SurroundingsKeep ==
    /\ ExecutorInv
    /\ CommandForks \/ (\E h \in holders : CommandExits(h)) \/ KillGroup \/ CloseLink \/ LoseLink
    => ExecutorInv'
<1> SUFFICES ASSUME ExecutorInv,
                    CommandForks \/ (\E h \in holders : CommandExits(h)) \/ KillGroup
                      \/ CloseLink \/ LoseLink
             PROVE  ExecutorInv'
  OBVIOUS
<1>1. /\ main = "running" /\ main' = "running"
      /\ UNCHANGED <<kind, ctx, written, reader, channel, events, outcome>>
  BY DEF CommandForks, CommandExits, KillGroup, CloseLink, LoseLink
<1>2. holders' \subseteq {"shell", "child"} /\ (holders = {} => holders' = {})
  BY DEF CommandForks, CommandExits, KillGroup, CloseLink, LoseLink, ExecutorInv, ExecutorTypeOK
<1>3. link' = link \/ (kind = "ssh" /\ link' = "closed")
  BY DEF CommandForks, CommandExits, KillGroup, CloseLink, LoseLink
<1>4. channel' = channel /\ events' = events
  BY <1>1
<1> QED
  BY <1>1, <1>2, <1>3, <1>4, OthersKeep DEF ExecutorInv, ExecutorTypeOK, Kinds

\* The context is done, or the connection of a remote command has ended.
LEMMA ContextKeeps == ExecutorInv /\ (CancelCommand \/ RunDone) => ExecutorInv'
<1> SUFFICES ASSUME ExecutorInv, CancelCommand \/ RunDone PROVE ExecutorInv'
  OBVIOUS
<1>1. /\ UNCHANGED <<kind, holders, link, written, reader, channel, events>>
      /\ main \notin {"idle", "returned"} /\ main' # "returned"
      /\ main' \in {"idle", "dialing", "opening"} => main' = main
      /\ main' = main \/ (main' = "flushing" /\ kind = "ssh" /\ ReadersDone)
  BY DEF CancelCommand, RunDone
<1>2. ExecutorTypeOK'
  BY DEF ExecutorInv, ExecutorTypeOK, CancelCommand, RunDone
<1>3. ASSUME NEW s \in Streams PROVE StreamInv(s)'
  BY <1>1, StreamStays DEF ExecutorInv
<1>4. ResultComplete'
  <2>1. \A s \in Streams : LinesOf(s)' = LinesOf(s)
    BY <1>1 DEF LinesOf
  <2> QED BY <1>1, <2>1 DEF ExecutorInv, ResultComplete
<1> QED
  BY <1>1, <1>2, <1>3, <1>4 DEF ExecutorInv, Untouched, ReadersDone

\* The channel is closed when both scanners are done, and the loop over it has emptied it.
LEMMA LocalReturnsKeeps == ExecutorInv /\ LocalReturns => ExecutorInv'
<1> SUFFICES ASSUME ExecutorInv, LocalReturns PROVE ExecutorInv'
  OBVIOUS
<1>1. /\ kind = "local" /\ main = "running" /\ main' = "returned" /\ ReadersDone /\ channel = <<>>
      /\ UNCHANGED <<kind, ctx, holders, link, written, reader, channel, events>>
  BY DEF LocalReturns, Return
<1>2. ExecutorTypeOK'
  BY DEF ExecutorInv, ExecutorTypeOK, LocalReturns, Return
<1>3. ASSUME NEW s \in Streams
      PROVE  /\ LinesOf(s)' = LinesOf(s) /\ Splits(LinesOf(s), written[s])
             /\ link = "up" /\ ~TooLong(s) =>
                   Len(written[s]) = IF LinesOf(s) = <<>> THEN 0 ELSE Last(LinesOf(s)).last
  <2>1. LinesOf(s)' = LinesOf(s)
    BY <1>1 DEF LinesOf
  <2>2. Passed(s) = LinesOf(s)
    <3>1. events \o <<>> = events
      BY ConcatEmptySeq DEF ExecutorInv, ExecutorTypeOK
    <3>2. LinesOf(s) = Subsequence(events, OfStream(s))
      BY DEF LinesOf, OfStream
    <3> QED BY <1>1, <3>1, <3>2 DEF Passed
  <2>3. StreamInv(s)
    BY <1>1 DEF ExecutorInv
  <2>4. link = "up" /\ ~TooLong(s) => Reached(LinesOf(s)) = Len(written[s])
    BY <1>1, <2>2, <2>3 DEF StreamInv, ReaderInv, Exhausted, ReadersDone
  <2> QED BY <2>1, <2>2, <2>3, <2>4 DEF StreamInv, Reached, Last
<1>4. ResultComplete'
  <2>1. \A s \in Streams : TooLong(s)' = TooLong(s)
    BY <1>1 DEF TooLong
  <2> QED BY <1>1, <1>3, <2>1 DEF ResultComplete, Splits, Whole
<1> QED
  BY <1>1, <1>2, <1>4 DEF ExecutorInv

\* What the collectors have kept is the last line of its stream.
Rest(s) == IF Pending(s) THEN <<PendingLine(s)>> ELSE <<>>

LEMMA RestOf ==
    ASSUME ExecutorInv, NEW t \in Streams
    PROVE  /\ Rest(t) \in Seq(Line)
           /\ \A s \in Streams : Subsequence(Rest(t), OfStream(s)) = IF s = t THEN Rest(t) ELSE <<>>
<1> USE ExecutorAssumption
<1>1. CASE ~Pending(t)
  <2>1. Rest(t) = <<>>
    BY <1>1 DEF Rest
  <2> QED BY <2>1, SubsequenceEmpty
<1>2. CASE Pending(t)
  <2> DEFINE line == PendingLine(t)
  <2>1. line \in Line
    <3> DEFINE a == reader[t].sent
               b == reader[t].taken
    <3>1. a \in Nat /\ b \in 0..MaxPieces /\ a < b
      <4>1. reader[t] \in Reader
        BY DEF ExecutorInv, ExecutorTypeOK
      <4> QED BY <1>2, <4>1 DEF Reader, Pending
    <3>2. a + 1 \in 1..MaxPieces /\ b \in 1..MaxPieces
      <4> HIDE DEF a, b
      <4> QED BY <3>1
    <3> QED BY <3>2 DEF PendingLine, Line
  <2>2. line.stream = t
    BY DEF PendingLine
  <2>3. Rest(t) = <<line>>
    BY <1>2 DEF Rest
  <2> HIDE DEF line
  <2>4. <<line>> \in Seq(Line)
    BY <2>1
  <2>5. Subsequence(<<line>>, OfStream(t)) = <<line>>
    <3>1. \A i \in DOMAIN <<line>> : <<line>>[i] \in OfStream(t)
      BY <2>1, <2>2 DEF OfStream
    <3> QED BY <2>4, <3>1, SubsequenceAll
  <2>6. ASSUME NEW s \in Streams, s # t PROVE Subsequence(<<line>>, OfStream(s)) = <<>>
    <3>1. \A i \in DOMAIN <<line>> : <<line>>[i] \notin OfStream(s)
      BY <2>2, <2>6 DEF OfStream
    <3> QED BY <2>4, <3>1, SubsequenceNone
  <2> QED BY <2>3, <2>4, <2>5, <2>6
<1> QED
  BY <1>1, <1>2

LEMMA FlushKeeps == ExecutorInv /\ FlushAndReturn => ExecutorInv'
<1> SUFFICES ASSUME ExecutorInv, FlushAndReturn PROVE ExecutorInv'
  OBVIOUS
<1> USE ExecutorAssumption
<1>1. /\ kind = "ssh" /\ channel = <<>> /\ main = "flushing" /\ main' = "returned" /\ ReadersDone
      /\ events' = (events \o Rest("stdout")) \o Rest("stderr")
      /\ UNCHANGED <<kind, ctx, holders, link, written, reader, channel, outcome>>
  BY DEF FlushAndReturn, ExecutorInv, ExecutorTypeOK, Kinds, Rest
<1>2. /\ events \in Seq(Line) /\ Rest("stdout") \in Seq(Line) /\ Rest("stderr") \in Seq(Line)
      /\ events \o Rest("stdout") \in Seq(Line)
      /\ (events \o Rest("stdout")) \o Rest("stderr") \in Seq(Line)
  <2>1. events \in Seq(Line) /\ Rest("stdout") \in Seq(Line) /\ Rest("stderr") \in Seq(Line)
    BY RestOf DEF ExecutorInv, ExecutorTypeOK, Streams
  <2> QED BY <2>1
<1>3. ExecutorTypeOK'
  BY <1>1, <1>2 DEF ExecutorInv, ExecutorTypeOK
<1>4. ASSUME NEW s \in Streams
      PROVE  LinesOf(s)' = LinesOf(s) \o Rest(s) /\ LinesOf(s) = Passed(s)
  <2> DEFINE S == OfStream(s)
             a == Rest("stdout")
             b == Rest("stderr")
             c == events \o a
  <2>1. LinesOf(s)' = Subsequence(events', S) /\ LinesOf(s) = Subsequence(events, S)
    BY DEF LinesOf, OfStream
  <2>2. /\ Subsequence(events \o a, S) = Subsequence(events, S) \o Subsequence(a, S)
        /\ Subsequence(events, S) \in Seq(Line)
    <3>1. events \in Seq(Line) /\ a \in Seq(Line)
      BY <1>2
    <3> HIDE DEF S, a
    <3>2. Subsequence(events, S) \in Seq(Line)
      BY <3>1, LinesConcat
    <3>3. Subsequence(events \o a, S) = Subsequence(events, S) \o Subsequence(a, S)
      BY ONLY <3>1, LinesConcat
    <3> QED BY <3>2, <3>3
  <2>3. Subsequence(c \o b, S) = Subsequence(c, S) \o Subsequence(b, S)
    <3>1. c \in Seq(Line) /\ b \in Seq(Line)
      BY <1>2
    <3> HIDE DEF S, b, c
    <3> QED BY ONLY <3>1, LinesConcat
  <2>4. /\ Subsequence(a, S) = IF s = "stdout" THEN a ELSE <<>>
        /\ Subsequence(b, S) = IF s = "stderr" THEN b ELSE <<>>
    BY RestOf DEF Streams
  <2>5. LinesOf(s)' = (LinesOf(s) \o Subsequence(a, S)) \o Subsequence(b, S)
    BY <1>1, <2>1, <2>2, <2>3
  <2>6. LinesOf(s) \in Seq(Line) /\ a \in Seq(Line) /\ b \in Seq(Line)
    BY <1>2, <2>1, <2>2
  <2>7. LinesOf(s)' = LinesOf(s) \o Rest(s)
    <3> DEFINE l == LinesOf(s)
    <3>1. l \o <<>> = l /\ (l \o a) \o <<>> = l \o a
      <4>1. l \o a \in Seq(Line)
        BY <2>6
      <4> QED BY <2>6, <4>1, ConcatEmptySeq
    <3>2. CASE s = "stdout"
      BY <2>4, <2>5, <3>1, <3>2
    <3>3. CASE s = "stderr"
      BY <2>4, <2>5, <3>1, <3>3
    <3> QED BY <3>2, <3>3 DEF Streams
  <2>8. LinesOf(s) = Passed(s)
    <3>1. events \o <<>> = events
      BY <1>2, ConcatEmptySeq
    <3> QED BY <1>1, <2>1, <3>1 DEF Passed
  <2> QED BY <2>7, <2>8
<1>5. ASSUME NEW s \in Streams
      PROVE  /\ Splits(LinesOf(s)', written[s])
             /\ link = "up" => Reached(LinesOf(s)') = Len(written[s])
  <2> DEFINE w == written[s]
             r == reader[s]
  <2>1. StreamInv(s) /\ r \in Reader /\ w \in Seq(Piece) /\ LinesOf(s) \in Seq(Line)
    BY <1>1, PassedType DEF ExecutorInv, ExecutorTypeOK
  <2>2. Splits(LinesOf(s), w) /\ Reached(LinesOf(s)) = r.sent
    BY <1>4, <2>1 DEF StreamInv
  <2>3. /\ r.sent <= r.taken /\ r.taken <= Len(w)
        /\ r.sent > 0 => w[r.sent] # "part"
        /\ \A i \in (r.sent + 1)..r.taken : w[i] = "part"
        /\ link = "up" => r.taken = Len(w)
    BY <1>1, <2>1 DEF StreamInv, ReaderInv, ReadersDone, Exhausted, TooLong
  <2>4. r.sent \in Nat /\ r.taken \in Nat
    BY <2>1 DEF Reader
  <2>5. CASE ~Pending(s)
    <3>1. r.sent = r.taken
      BY <2>3, <2>4, <2>5 DEF Pending
    <3>2. LinesOf(s)' = LinesOf(s)
      <4>1. Rest(s) = <<>> /\ LinesOf(s) \o <<>> = LinesOf(s)
        BY <2>1, <2>5, ConcatEmptySeq DEF Rest
      <4> QED BY <1>4, <4>1
    <3> QED BY <2>2, <2>3, <3>1, <3>2
  <2>6. CASE Pending(s)
    <3> DEFINE line == PendingLine(s)
    <3>1. line \in Line /\ Rest(s) = <<line>>
      <4>1. Rest(s) \in Seq(Line) /\ Rest(s) = <<line>>
        BY <2>6, RestOf DEF Rest
      <4>2. Rest(s)[1] \in Line
        BY <4>1
      <4> QED BY <4>1, <4>2
    <3>2. line.first = r.sent + 1 /\ line.last = r.taken
      BY DEF PendingLine
    <3>3. r.sent < r.taken
      BY <2>4, <2>6 DEF Pending
    <3>4. line.first <= line.last /\ line.last <= Len(w) /\ line.first = Reached(LinesOf(s)) + 1
      BY <2>2, <2>3, <2>4, <3>2, <3>3
    <3>5. Whole(w, line)
      BY <2>3, <2>4, <3>2 DEF Whole
    <3>6. LinesOf(s)' = Append(LinesOf(s), line)
      <4> HIDE DEF line
      <4> QED BY <1>4, <2>1, <3>1, AppendIsConcat
    <3> HIDE DEF line, w, r
    <3>7. Splits(Append(LinesOf(s), line), w) /\ Reached(Append(LinesOf(s), line)) = line.last
      BY <2>1, <2>2, <2>3, <3>1, <3>4, <3>5, SplitsAppend
    <3> QED BY <2>3, <3>2, <3>6, <3>7 DEF w
  <2> QED BY <2>5, <2>6
<1>6. ResultComplete'
  <2>1. ASSUME NEW s \in Streams
        PROVE  /\ Splits(LinesOf(s)', written'[s])
               /\ link' = "up" =>
                     Len(written'[s]) = IF LinesOf(s)' = <<>> THEN 0 ELSE Last(LinesOf(s)').last
    BY <1>1, <1>5 DEF Reached, Last
  <2> QED BY <2>1 DEF ResultComplete, Splits, Whole
<1> QED
  BY <1>1, <1>3, <1>6 DEF ExecutorInv

LEMMA ExecutorStepKeeps == ExecutorInv /\ ExecutorStep => ExecutorInv'
<1> SUFFICES ASSUME ExecutorInv, ExecutorStep PROVE ExecutorInv'
  OBVIOUS
<1>1. CASE \E s \in Streams : \/ CommandWrites(s) \/ ReadPiece(s) \/ ReadEnd(s)
                              \/ SendLine(s) \/ EmitLine(s)
  BY <1>1, CommandWritesKeeps, ReadPieceKeeps, ReadEndKeeps, SendLineKeeps, EmitLineKeeps
<1>2. CASE CommandForks \/ (\E h \in holders : CommandExits(h)) \/ KillGroup \/ CloseLink \/ LoseLink
  BY <1>2, SurroundingsKeep
<1>3. CASE Dialed \/ DialFails \/ DialStops \/ Opened
  BY <1>3, OpeningKeeps
<1>4. CASE Collect \/ LocalReturns \/ RunDone \/ FlushAndReturn \/ CancelCommand
  BY <1>4, CollectKeeps, LocalReturnsKeeps, ContextKeeps, FlushKeeps
<1> QED
  BY <1>1, <1>2, <1>3, <1>4 DEF ExecutorStep

LEMMA ExecutorInductive == ExecutorInv /\ [Next]_vars => ExecutorInv'
<1> SUFFICES ASSUME ExecutorInv, [Next]_vars PROVE ExecutorInv'
  OBVIOUS
<1>1. CASE StartCommand
  BY <1>1, OpeningKeeps
<1>2. CASE ExecutorStep
  BY <1>2, ExecutorStepKeeps
<1>3. CASE Forget
  BY <1>3, ForgetKeeps
<1>4. CASE UNCHANGED executorVars
  <2>1. UNCHANGED <<kind, ctx, main, holders, link, written, reader, channel, events, outcome>>
    BY <1>4 DEF executorVars
  <2>2. ExecutorTypeOK' /\ ReadersDone' = ReadersDone /\ Untouched' = Untouched
    BY <2>1 DEF ExecutorInv, ExecutorTypeOK, ReadersDone, Untouched
  <2>3. \A s \in Streams : StreamInv(s) => StreamInv(s)'
    BY <2>1, StreamStays
  <2>4. ResultComplete'
    <3>1. \A s \in Streams : LinesOf(s)' = LinesOf(s) /\ TooLong(s)' = TooLong(s)
      BY <2>1 DEF LinesOf, TooLong
    <3> QED BY <2>1, <3>1 DEF ExecutorInv, ResultComplete
  <2> QED BY <2>1, <2>2, <2>3, <2>4 DEF ExecutorInv
<1> QED
  BY <1>1, <1>2, <1>3, <1>4
  DEF Next, vars, RunCommand, Execute, RecordResult, RecordInteractive, EndProgram, UseHistoryFile

LEMMA ExecutorInvariant == Spec => []ExecutorInv
<1>1. Init => ExecutorInv
  BY ExecutorInitially DEF Init
<1>2. ExecutorInv /\ [Next]_vars => ExecutorInv'
  BY ExecutorInductive
<1> QED
  BY <1>1, <1>2, PTL DEF Spec

\* The result of a command has the lines of each stream in order, none twice and none left
\* out, wherever the processes of the command, the scanners and the loop over the channel,
\* the collectors and flush, a cancellation and the end of the connection have met
\* (terminal/executor.go, scanner.go).
THEOREM ResultsComplete == Spec => []ResultComplete
<1>1. ExecutorInv => ResultComplete
  BY DEF ExecutorInv
<1> QED
  BY <1>1, ExecutorInvariant, PTL

\* The variables of the command and of the history have their types.
THEOREM TypeCorrect == Spec => []TypeOK
<1>1. ExecutorInv => ExecutorTypeOK
  BY DEF ExecutorInv
<1>2. HistoryInv => HistoryTypeOK
  BY DEF HistoryInv
<1>3. Spec => []HistoryInv
  BY SessionKeepsHistory, HistoryInvariant, PTL
<1>4. ExecutorTypeOK /\ HistoryTypeOK => TypeOK
  BY DEF TypeOK
<1> QED
  BY <1>1, <1>2, <1>3, <1>4, ExecutorInvariant, PTL
=============================================================================
