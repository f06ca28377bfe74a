----------------------- MODULE ConnectionWindowsProofs ----------------------
(***************************************************************************)
(* The list of saved connections, the database and the rows of the window  *)
(* agree, and deletions are for good, for any profiles and contents,       *)
(* through failing saves, kills, migrations and every order in which the   *)
(* three windows put off, ask and act.                                     *)
(***************************************************************************)
EXTENDS ConnectionWindows, LibraryProofs

\* The lists of profiles.
ListsOK ==
    /\ db \in Database /\ list \in Rows /\ allRows \in Rows /\ config \in Rows
    /\ legacy \in Rows \cup {NoFile}
    /\ reported \in Results

\* What Load has come to; the legacy file is gone before the first save, and what is
\* left of it then is in the database.
LoadOK ==
    /\ phase \in {"down", "load", "migrated", "up"}
    /\ phase # "up" => list = Empty /\ allRows = Empty /\ activeID = NoProfile
    /\ phase \in {"migrated", "up"} => db.migrated
    /\ phase = "up" => legacy = NoFile
    /\ phase = "migrated" /\ legacy # NoFile => Saved(legacy) \subseteq Saved(db.rows)
    /\ ~db.migrated => db.rows = Empty

\* A profile that was deleted with success is nowhere a start could find it, nor in the
\* rows that a window saves; and it was deleted by a program that had loaded.
DeletionsOK ==
    /\ deleted # {} => db.migrated /\ legacy = NoFile
    /\ DeletedStaysDeleted
    /\ deleted \cap Saved(allRows) = {}

\* The prompts of the editor e and the callbacks q that wait: one prompt about unsaved
\* changes is on its way at most, and exactly when the editor says so.
Waiting(q) == {i \in DOMAIN q : q[i].op = "ask"}
QueueOK(e, q) ==
    /\ e \in Editor /\ q \in Seq(Callback)
    /\ \A i, j \in Waiting(q) : i = j
    /\ e.asking <=> Waiting(q) # {}

\* A closed editor holds nothing back.
EditorOK ==
    /\ QueueOK(editor, timeouts)
    /\ Editing \/ editor = NoEditor
    /\ dialogs \in Seq(Dialog)
    /\ manager \in [open : BOOLEAN, rows : SUBSET Profiles]
    /\ deleted \subseteq Profiles

WindowsInv == ListsOK /\ LoadOK /\ DeletionsOK /\ MemoryIsDatabase /\ NoFalseSuccess

-----------------------------------------------------------------------------
\* Saving and selecting.

LEMMA SaveKeeps ==
    ASSUME WindowsInv, phase = "up", NEW rows \in Rows, NEW id, NEW removed,
           removed \cap Saved(rows) = {}, Publish(rows, id, removed)
    PROVE  WindowsInv' /\ phase' = "up"
<1>1. PICK result \in Results :
          /\ SaveActive(rows, id, result)
          /\ reported' = result
          /\ allRows' = IF result = "ok" THEN rows ELSE allRows
          /\ deleted' = (IF result = "ok" THEN deleted \cup removed ELSE deleted)
                        \ Saved(db'.rows)
  BY DEF Publish
<1>2. phase' = "up" /\ legacy' = legacy /\ config' = config
  BY <1>1 DEF SaveActive
<1>3. legacy = NoFile /\ db.migrated /\ db \in Database
  BY DEF WindowsInv, LoadOK, ListsOK
<1>4. CASE Commit(rows, id)
  <2>1. activeID' \in Normalized(rows, id) /\ list' = rows
    BY <1>4 DEF Commit
  <2>2. activeID' \in Profiles \cup {NoProfile} /\ activeID' \in Normalized(rows, activeID')
    BY <2>1 DEF Normalized, Saved
  <2>3. /\ db' \in Database
        /\ db'.rows = rows /\ db'.active = activeID' /\ db'.migrated = db.migrated
    BY <1>3, <1>4, <2>2 DEF Commit, Database
  <2>4. ListsOK'
    BY <1>1, <1>2, <2>1, <2>3 DEF WindowsInv, ListsOK
  <2>5. LoadOK'
    BY <1>2, <1>3, <2>3 DEF LoadOK
  <2>6. DeletionsOK'
    BY <1>1, <1>2, <1>3, <2>3 DEF DeletionsOK, DeletedStaysDeleted, WindowsInv
  <2>7. MemoryIsDatabase'
    BY <2>1, <2>2, <2>3 DEF MemoryIsDatabase
  <2>8. NoFalseSuccess'
    BY <1>1, <2>3 DEF NoFalseSuccess
  <2> QED BY <1>2, <2>4, <2>5, <2>6, <2>7, <2>8 DEF WindowsInv
<1>5. CASE result = "failed" /\ RollBack(rows)
  <2>1. UNCHANGED <<db, list, activeID, phase, legacy, config, allRows>>
        /\ reported' = "failed" /\ deleted' = deleted \ Saved(db.rows)
    BY <1>1, <1>2, <1>5 DEF RollBack
  <2>2. ListsOK' /\ LoadOK'
    BY <2>1 DEF WindowsInv, ListsOK, LoadOK, Results
  <2>3. DeletionsOK' /\ MemoryIsDatabase' /\ NoFalseSuccess'
    BY <2>1 DEF WindowsInv, DeletionsOK, DeletedStaysDeleted, MemoryIsDatabase, NoFalseSuccess
  <2> QED BY <1>2, <2>2, <2>3 DEF WindowsInv
<1> QED BY <1>1, <1>4, <1>5 DEF SaveActive

LEMMA PersistKeeps ==
    ASSUME WindowsInv, phase = "up", NEW p, NEW c \in Contents, Persist(p, c)
    PROVE  WindowsInv' /\ phase' = "up"
<1> DEFINE saved == [allRows EXCEPT ![p] = c]
<1>1. saved \in Rows
  BY DEF WindowsInv, ListsOK, Rows
<1>2. Publish(saved, p, {})
  BY DEF Persist
<1> HIDE DEF saved
<1> QED BY <1>1, <1>2, SaveKeeps

\* What leaves the profiles alone.
Untouched == UNCHANGED <<store, allRows, reported, deleted>>

LEMMA UntouchedKeeps ==
    ASSUME WindowsInv, Untouched
    PROVE  WindowsInv'
BY DEF Untouched, store, WindowsInv, ListsOK, LoadOK, DeletionsOK, DeletedStaysDeleted,
       MemoryIsDatabase, NoFalseSuccess

-----------------------------------------------------------------------------
\* Loading.

LEMMA MergedOf ==
    ASSUME NEW rows \in Rows, NEW source \in Rows
    PROVE  /\ Merged(rows, source) \in Rows
           /\ Saved(Merged(rows, source)) = Saved(rows) \cup Saved(source)
           /\ \A p \in Saved(rows) : Merged(rows, source)[p] = rows[p]
BY DEF Rows, Merged, Saved

LEMMA SourceOf ==
    ASSUME ListsOK
    PROVE  Source \in Rows /\ (legacy # NoFile => Source = legacy)
BY StoreAssumption DEF ListsOK, Source

LEMMA NormalizedOf ==
    ASSUME NEW rows, NEW id
    PROVE  Normalized(rows, id) \subseteq Profiles \cup {NoProfile}
BY DEF Normalized, Saved

\* Load keeps what there is (LoadKeeps) as it keeps the invariant.
LEMMA LoadStep ==
    ASSUME WindowsInv, StartUp
    PROVE  /\ WindowsInv'
           /\ Stored \subseteq Stored'
           /\ \A p \in Saved(db.rows) : db'.rows[p] = db.rows[p]
<1> USE DEF WindowsInv
<1>0. /\ allRows' = list' /\ reported' = reported /\ deleted' = deleted
      /\ phase # "up"
  BY DEF StartUp, Load, Launch, Migrate, RemoveLegacy, LoadReady, LoadReturns, LoadFails
<1>1. list = Empty /\ allRows = Empty /\ Saved(Empty) = {} /\ db \in Database /\ db.rows \in Rows
  BY <1>0 DEF LoadOK, ListsOK, Saved, Empty, Database
<1>2. CASE Launch
  <2>1. UNCHANGED <<db, legacy, config, list, activeID, allRows>> /\ phase' = "load"
    BY <1>0, <1>1, <1>2 DEF Launch
  <2> QED
    BY <1>0, <1>1, <2>1 DEF ListsOK, LoadOK, DeletionsOK, DeletedStaysDeleted,
       MemoryIsDatabase, NoFalseSuccess, Stored
<1>3. CASE Migrate
  <2>1. PICK active \in Profiles \cup {NoProfile} :
            db' = [rows |-> Merged(db.rows, Source),
                   active |-> IF db.active = NoProfile THEN active ELSE db.active,
                   migrated |-> TRUE]
    <3>1. PICK id \in Profiles \cup {NoProfile} : \E active \in Normalized(Source, id) :
              db' = [rows |-> Merged(db.rows, Source),
                     active |-> IF db.active = NoProfile THEN active ELSE db.active,
                     migrated |-> TRUE]
      BY <1>3 DEF Migrate
    <3> QED BY <3>1, NormalizedOf
  <2>2. /\ phase = "load" /\ NeedsMigration
        /\ phase' = "migrated" /\ UNCHANGED <<legacy, config, list, activeID>>
        /\ allRows' = allRows
    BY <1>0, <1>1, <1>3 DEF Migrate
  <2>3. /\ Merged(db.rows, Source) \in Rows
        /\ Saved(Merged(db.rows, Source)) = Saved(db.rows) \cup Saved(Source)
        /\ \A p \in Saved(db.rows) : Merged(db.rows, Source)[p] = db.rows[p]
    BY <1>1, MergedOf, SourceOf
  <2>4. db' \in Database /\ db'.rows = Merged(db.rows, Source) /\ db'.migrated = TRUE
    <3>1. db.active \in Profiles \cup {NoProfile}
      BY <1>1 DEF Database
    <3> HIDE DEF WindowsInv
    <3> QED BY <2>1, <2>3, <3>1 DEF Database
  <2>5. deleted = {}
    BY <2>2 DEF NeedsMigration, DeletionsOK
  <2>6. ListsOK' /\ LoadOK'
    <3>1. legacy # NoFile => Source = legacy
      BY SourceOf
    <3> QED BY <1>0, <1>1, <2>2, <2>3, <2>4, <3>1 DEF ListsOK, LoadOK
  <2>7. DeletionsOK' /\ MemoryIsDatabase' /\ NoFalseSuccess'
    BY <1>0, <2>2, <2>5 DEF DeletionsOK, DeletedStaysDeleted, MemoryIsDatabase, NoFalseSuccess
  <2>8. Stored \subseteq Stored'
    BY <2>2, <2>3, <2>4 DEF Stored
  <2> QED BY <2>3, <2>4, <2>6, <2>7, <2>8
<1>4. CASE RemoveLegacy
  <2>1. /\ phase = "migrated" /\ legacy # NoFile /\ legacy' = NoFile
        /\ UNCHANGED <<db, config, phase, list, activeID, allRows>>
    BY <1>0, <1>1, <1>4 DEF RemoveLegacy
  <2>2. ListsOK' /\ LoadOK'
    BY <1>0, <1>1, <2>1 DEF ListsOK, LoadOK
  <2>3. DeletionsOK' /\ MemoryIsDatabase' /\ NoFalseSuccess'
    BY <1>0, <2>1 DEF LoadOK, DeletionsOK, DeletedStaysDeleted, MemoryIsDatabase, NoFalseSuccess
  <2>4. Stored \subseteq Stored'
    BY <2>1 DEF Stored, LoadOK
  <2> QED BY <2>1, <2>2, <2>3, <2>4
<1>5. LoadReady => legacy = NoFile /\ db.migrated
  <2>1. phase = "load" /\ ~NeedsMigration /\ ~db.migrated => FALSE
    BY <1>1 DEF NeedsMigration, LoadOK
  <2> QED BY <2>1 DEF LoadReady, NeedsMigration, LoadOK
<1>6. CASE LoadReturns
  <2>1. /\ LoadReady /\ list' = db.rows /\ activeID' \in Normalized(db.rows, db.active)
        /\ config' = Empty /\ phase' = "up" /\ UNCHANGED <<db, legacy>>
    BY <1>6 DEF LoadReturns
  <2>2. Empty \in Rows
    BY DEF Empty, Rows
  <2>3. ListsOK' /\ LoadOK'
    BY <1>0, <1>1, <1>5, <2>1, <2>2 DEF ListsOK, LoadOK
  <2>4. DeletionsOK' /\ MemoryIsDatabase' /\ NoFalseSuccess'
    BY <1>0, <2>1 DEF DeletionsOK, DeletedStaysDeleted, MemoryIsDatabase, NoFalseSuccess
  <2> QED BY <2>1, <2>3, <2>4 DEF Stored
<1>7. CASE LoadFails
  <2>1. /\ config' \in {config, Empty} /\ phase' = "down"
        /\ UNCHANGED <<db, legacy, list, activeID, allRows>>
    BY <1>0, <1>1, <1>7 DEF LoadFails
  <2>2. Empty \in Rows
    BY DEF Empty, Rows
  <2>3. ListsOK' /\ LoadOK'
    BY <1>0, <1>1, <2>1, <2>2 DEF ListsOK, LoadOK
  <2>4. DeletionsOK' /\ MemoryIsDatabase' /\ NoFalseSuccess'
    BY <1>0, <2>1 DEF DeletionsOK, DeletedStaysDeleted, MemoryIsDatabase, NoFalseSuccess
  <2> QED BY <2>1, <2>3, <2>4 DEF Stored
<1> QED BY <1>2, <1>3, <1>4, <1>6, <1>7 DEF StartUp, Load

-----------------------------------------------------------------------------
\* The steps.

LoadKept ==
    phase # "up" =>
        /\ Stored \subseteq Stored'
        /\ \A p \in Saved(db.rows) : db'.rows[p] = db.rows[p]

Revived == \A p \in deleted \ deleted' : SavesProfile(p)
DeletionRespected == SaveEditor /\ ~editor.creating => deleted' = deleted

\* What the editor saves was there, or it was opened on a new profile.
LEMMA EditorSaves ==
    ASSUME WindowsInv, SaveEditor, ~editor.creating
    PROVE  deleted' = deleted
<1>1. PICK c \in Contents : Persist(editor.profile, c)
  BY DEF SaveEditor
<1> DEFINE p == editor.profile
           saved == [allRows EXCEPT ![p] = c]
<1>2. allRows[p] # Absent /\ allRows \in Rows /\ c # Absent
  BY StoreAssumption DEF SaveEditor, CanPersist, WindowsInv, ListsOK
<1>3. Saved(saved) = Saved(allRows)
  BY <1>2 DEF Saved, Rows
<1>4. PICK result \in Results :
          /\ SaveActive(saved, p, result)
          /\ deleted' = (IF result = "ok" THEN deleted \cup {} ELSE deleted) \ Saved(db'.rows)
  BY <1>1 DEF Persist, Publish
<1>5. deleted' = deleted \ Saved(db'.rows)
  BY <1>4
<1>6. deleted \cap Saved(allRows) = {} /\ deleted \cap Saved(db.rows) = {} /\ db \in Database
  BY DEF WindowsInv, DeletionsOK, DeletedStaysDeleted, ListsOK
<1> HIDE DEF saved, p
<1>7. CASE Commit(saved, p)
  <2>1. db'.rows = saved
    BY <1>6, <1>7 DEF Commit, Database
  <2> QED BY <1>3, <1>5, <1>6, <2>1
<1>8. CASE db' = db
  BY <1>5, <1>6, <1>8
<1> QED BY <1>4, <1>7, <1>8 DEF SaveActive, RollBack

LEMMA EndKeeps ==
    ASSUME WindowsInv, Exit
    PROVE  WindowsInv' /\ db' = db /\ legacy' = legacy
<1>1. /\ phase' = "down" /\ list' = Empty /\ allRows' = Empty /\ reported' = "ok"
      /\ activeID' = NoProfile
      /\ UNCHANGED <<db, legacy, config, deleted>>
  BY DEF Exit, Stop
<1>2. Empty \in Rows /\ Saved(Empty) = {}
  BY DEF Empty, Rows, Saved
<1> QED
  BY <1>1, <1>2 DEF WindowsInv, ListsOK, LoadOK, DeletionsOK, DeletedStaysDeleted,
     MemoryIsDatabase, NoFalseSuccess, Results

\* The handlers that save what they have changed.
LEMMA SaversKeep ==
    ASSUME WindowsInv,
           \/ \E p \in Profiles : ChangeProfile(p)
           \/ ChangeGroup \/ SaveEditor \/ ConfirmDelete
    PROVE  WindowsInv' /\ phase = "up"
<1>1. CASE \E p \in Profiles : ChangeProfile(p)
  BY <1>1, PersistKeeps DEF ChangeProfile, Input
<1>2. CASE ChangeGroup
  <2>1. PICK group \in SUBSET Saved(allRows) \ {{}}, c \in Contents,
             id \in manager.rows \cup {activeID} :
             Publish([p \in Profiles |-> IF p \in group THEN c ELSE allRows[p]], id, {})
    BY <1>2 DEF ChangeGroup
  <2> DEFINE saved == [p \in Profiles |-> IF p \in group THEN c ELSE allRows[p]]
  <2>2. saved \in Rows
    BY DEF WindowsInv, ListsOK, Rows
  <2>3. phase = "up" /\ Publish(saved, id, {})
    BY <1>2, <2>1 DEF ChangeGroup, Input
  <2> HIDE DEF saved
  <2> QED BY <2>2, <2>3, SaveKeeps
<1>3. CASE SaveEditor
  BY <1>3, PersistKeeps DEF SaveEditor, Input
<1>4. CASE ConfirmDelete
  <2>1. PICK p, id : Publish([allRows EXCEPT ![p] = Absent], id, {p})
    BY <1>4 DEF ConfirmDelete
  <2> DEFINE saved == [allRows EXCEPT ![p] = Absent]
  <2>2. saved \in Rows /\ {p} \cap Saved(saved) = {}
    BY DEF WindowsInv, ListsOK, Rows, Saved
  <2>3. phase = "up" /\ Publish(saved, id, {p})
    BY <1>4, <2>1 DEF ConfirmDelete, Answering
  <2> HIDE DEF saved
  <2> QED BY <2>2, <2>3, SaveKeeps
<1> QED BY <1>1, <1>2, <1>3, <1>4

LEMMA SelectKeeps ==
    ASSUME WindowsInv, NEW p \in Profiles, SelectProfile(p)
    PROVE  WindowsInv' /\ phase = "up"
<1>1. /\ phase = "up" /\ list = db.rows /\ db \in Database
      /\ activeID' \in Normalized(list, p) /\ db' = [db EXCEPT !.active = activeID']
      /\ UNCHANGED <<legacy, config, phase, list, allRows, reported, deleted>>
  BY DEF WindowsInv, ListsOK, MemoryIsDatabase, SelectProfile, SetActive, windows, Input
<1>2. activeID' \in Profiles \cup {NoProfile} /\ activeID' \in Normalized(list, activeID')
  BY <1>1 DEF Normalized, Saved
<1>3. /\ db' \in Database
      /\ db'.rows = db.rows /\ db'.active = activeID' /\ db'.migrated = db.migrated
  BY <1>1, <1>2 DEF Database
<1> QED
  BY <1>1, <1>2, <1>3 DEF WindowsInv, ListsOK, LoadOK, DeletionsOK, DeletedStaysDeleted,
     MemoryIsDatabase, NoFalseSuccess

LEMMA RebuildKeeps ==
    ASSUME WindowsInv, RebuildWindow
    PROVE  WindowsInv' /\ phase = "up"
<1>1. /\ phase = "up" /\ list = db.rows /\ allRows' = list
      /\ UNCHANGED <<store, reported, deleted>>
  BY DEF WindowsInv, MemoryIsDatabase, RebuildWindow, Input
<1> QED
  BY <1>1 DEF store, WindowsInv, ListsOK, LoadOK, DeletionsOK, DeletedStaysDeleted,
     MemoryIsDatabase, NoFalseSuccess

\* Moving is saving, or leaves the profiles alone for now.
LEMMA MoveKeeps ==
    ASSUME WindowsInv, phase = "up", NEW p, NEW owner, NEW queue, Move(p, owner, queue)
    PROVE  WindowsInv'
<1>1. CASE UNCHANGED <<store, allRows, manager, reported, deleted>>
  BY <1>1, UntouchedKeeps DEF Untouched
<1>2. CASE \E c \in Contents : Persist(p, c)
  BY <1>2, PersistKeeps
<1> QED BY <1>1, <1>2 DEF Move

LEMMA MovesKeep ==
    ASSUME WindowsInv, FireMove \/ \E p \in Profiles, owner \in Owners : MoveProfile(p, owner)
    PROVE  WindowsInv' /\ phase = "up"
<1>1. CASE \E p \in Profiles, owner \in Owners : MoveProfile(p, owner)
  BY <1>1, MoveKeeps DEF MoveProfile, Input
<1>2. CASE FireMove
  <2>1. phase = "up"
    BY <1>2 DEF FireMove
  <2>2. CASE UNCHANGED <<store, allRows, manager, editor, dialogs, reported, deleted>>
    BY <2>1, <2>2, UntouchedKeeps DEF Untouched
  <2>3. CASE \E p, owner, queue : Move(p, owner, queue)
    BY <2>1, <2>3, MoveKeeps
  <2> QED BY <1>2, <2>1, <2>2, <2>3 DEF FireMove
<1> QED BY <1>1, <1>2

\* Everything else.
LEMMA OthersKeep ==
    ASSUME WindowsInv,
           \/ \E p \in Profiles :
                 EditProfile(p) \/ \E owner \in Owners : DeleteProfile(p, owner)
           \/ RequestGroup \/ CancelEditor \/ FireTimeout \/ AnswerDiscard \/ Dismiss
           \/ ReloadManager \/ CloseManager
    PROVE  WindowsInv' /\ phase = "up"
<1>1. Untouched
  BY DEF Untouched, EditProfile, DeleteProfile, RequestGroup, CancelEditor, FireTimeout,
     AnswerDiscard, Dismiss, ReloadManager, CloseManager
<1>2. phase = "up"
  BY DEF EditProfile, DeleteProfile, RequestGroup, CancelEditor, FireTimeout, AnswerDiscard,
     Dismiss, ReloadManager, CloseManager, Input, Answering
<1> QED BY <1>1, <1>2, UntouchedKeeps

LEMMA StepKeeps == WindowsInv /\ [Next]_vars => WindowsInv' /\ (LoadKept \/ UNCHANGED vars)
<1> SUFFICES ASSUME WindowsInv, [Next]_vars PROVE WindowsInv' /\ (LoadKept \/ UNCHANGED vars)
  OBVIOUS
<1>1. CASE StartUp
  BY <1>1, LoadStep DEF LoadKept
<1>2. CASE Exit
  <2>1. WindowsInv' /\ db' = db /\ legacy' = legacy
    BY <1>2, EndKeeps
  <2> QED BY <2>1 DEF LoadKept, Stored
<1>3. CASE \/ \E p \in Profiles : ChangeProfile(p)
           \/ ChangeGroup \/ SaveEditor \/ ConfirmDelete
  BY <1>3, SaversKeep DEF LoadKept
<1>4. CASE \E p \in Profiles : SelectProfile(p)
  BY <1>4, SelectKeeps DEF LoadKept
<1>5. CASE RebuildWindow
  BY <1>5, RebuildKeeps DEF LoadKept
<1>6. CASE FireMove \/ \E p \in Profiles, owner \in Owners : MoveProfile(p, owner)
  BY <1>6, MovesKeep DEF LoadKept
<1>7. CASE \/ \E p \in Profiles :
                 EditProfile(p) \/ \E owner \in Owners : DeleteProfile(p, owner)
           \/ RequestGroup \/ CancelEditor \/ FireTimeout \/ AnswerDiscard \/ Dismiss
           \/ ReloadManager \/ CloseManager
  BY <1>7, OthersKeep DEF LoadKept
<1>8. CASE UNCHANGED vars
  BY <1>8, UntouchedKeeps DEF vars, windows, Untouched
<1> QED BY <1>1, <1>2, <1>3, <1>4, <1>5, <1>6, <1>7, <1>8 DEF Next

LEMMA StartKeeps == Init => WindowsInv
<1> SUFFICES ASSUME Init PROVE WindowsInv
  OBVIOUS
<1>1. Empty \in Rows /\ Saved(Empty) = {}
  BY DEF Empty, Rows, Saved
<1> QED
  BY <1>1 DEF Init, StoreInit, WindowsInv, ListsOK, LoadOK, DeletionsOK, DeletedStaysDeleted,
     MemoryIsDatabase, NoFalseSuccess, Results

\* A save of a list made from the window's rows revives what was added to them.
LEMMA PublishRevives ==
    ASSUME WindowsInv, NEW rows \in Rows, NEW id, NEW removed, Publish(rows, id, removed)
    PROVE  deleted \ deleted' \subseteq Saved(rows) \ Saved(allRows)
<1>1. PICK result \in Results :
          /\ SaveActive(rows, id, result)
          /\ deleted' = (IF result = "ok" THEN deleted \cup removed ELSE deleted)
                        \ Saved(db'.rows)
  BY DEF Publish
<1>2. deleted \ deleted' \subseteq deleted \cap Saved(db'.rows)
  BY <1>1
<1>3. /\ deleted \cap Saved(allRows) = {} /\ deleted \cap Saved(db.rows) = {}
      /\ db \in Database
  BY DEF WindowsInv, DeletionsOK, DeletedStaysDeleted, ListsOK
<1>4. CASE Commit(rows, id)
  <2>1. db'.rows = rows
    BY <1>3, <1>4 DEF Commit, Database
  <2> QED BY <1>2, <1>3, <2>1
<1>5. CASE db' = db
  BY <1>2, <1>3, <1>5
<1> QED BY <1>1, <1>4, <1>5 DEF SaveActive, RollBack

LEMMA PersistRevives ==
    ASSUME WindowsInv, NEW p, NEW c \in Contents, Persist(p, c)
    PROVE  deleted \ deleted' \subseteq {p}
<1> DEFINE saved == [allRows EXCEPT ![p] = c]
<1>1. saved \in Rows /\ Saved(saved) \ Saved(allRows) \subseteq {p}
  BY DEF WindowsInv, ListsOK, Rows, Saved
<1>2. Publish(saved, p, {})
  BY DEF Persist
<1> HIDE DEF saved
<1> QED BY <1>1, <1>2, PublishRevives

LEMMA MoveRevives ==
    ASSUME WindowsInv, NEW p, NEW owner, NEW queue, Move(p, owner, queue)
    PROVE  deleted \ deleted' \subseteq {p}
BY PersistRevives DEF Move

\* No deleted profile comes back but by a save of its own.
LEMMA OthersStayDeleted == WindowsInv /\ [Next]_vars => Revived \/ UNCHANGED vars
<1> SUFFICES ASSUME WindowsInv, Next, NEW p \in deleted \ deleted' PROVE SavesProfile(p)
  BY DEF Revived
<1>1. ASSUME NEW o \in Profiles, ChangeProfile(o) PROVE SavesProfile(p)
  <2>1. p = o
    BY <1>1, PersistRevives DEF ChangeProfile
  <2> QED BY <1>1, <2>1 DEF SavesProfile
<1>2. ASSUME NEW o \in Profiles, NEW owner \in Owners, MoveProfile(o, owner) PROVE SavesProfile(p)
  <2>1. p = o
    BY <1>2, MoveRevives DEF MoveProfile
  <2> QED BY <1>2, <2>1 DEF SavesProfile
<1>3. CASE SaveEditor
  <2>1. p = editor.profile
    BY <1>3, PersistRevives DEF SaveEditor
  <2> QED BY <1>3, <2>1 DEF SavesProfile
<1>4. CASE FireMove
  <2>1. \/ Move(Head(timeouts).profile, Head(timeouts).owner, Tail(timeouts))
        \/ deleted' = deleted
    BY <1>4 DEF FireMove
  <2>2. p = Head(timeouts).profile
    BY <2>1, MoveRevives
  <2> QED BY <1>4, <2>2 DEF SavesProfile
<1>5. CASE ChangeGroup
  <2>1. PICK group \in SUBSET Saved(allRows) \ {{}}, c \in Contents,
             id \in manager.rows \cup {activeID} :
             Publish([o \in Profiles |-> IF o \in group THEN c ELSE allRows[o]], id, {})
    BY <1>5 DEF ChangeGroup
  <2> DEFINE saved == [o \in Profiles |-> IF o \in group THEN c ELSE allRows[o]]
  <2>2. saved \in Rows /\ Saved(saved) \subseteq Saved(allRows)
    BY DEF WindowsInv, ListsOK, Rows, Saved
  <2>3. Publish(saved, id, {})
    BY <2>1
  <2> HIDE DEF saved
  <2> QED BY <2>2, <2>3, PublishRevives
<1>6. CASE ConfirmDelete
  <2>1. PICK o, id : Publish([allRows EXCEPT ![o] = Absent], id, {o})
    BY <1>6 DEF ConfirmDelete
  <2> DEFINE saved == [allRows EXCEPT ![o] = Absent]
  <2>2. saved \in Rows /\ Saved(saved) \subseteq Saved(allRows)
    BY DEF WindowsInv, ListsOK, Rows, Saved
  <2>3. Publish(saved, id, {o})
    BY <2>1
  <2> HIDE DEF saved
  <2> QED BY <2>2, <2>3, PublishRevives
<1>7. deleted' # deleted
  OBVIOUS
<1> QED
  BY <1>1, <1>2, <1>3, <1>4, <1>5, <1>6, <1>7 DEF Next, StartUp, Exit, SelectProfile, EditProfile,
     DeleteProfile, RequestGroup, CancelEditor, FireTimeout, AnswerDiscard, Dismiss,
     ReloadManager, CloseManager, RebuildWindow

-----------------------------------------------------------------------------
\* The invariant is an inductive one.
THEOREM WindowsInvariance == Spec => []WindowsInv
BY StartKeeps, StepKeeps, PTL DEF Spec

\* The list and the selection are those the next start will load, whether the saves
\* before succeeded, failed, or were committed and reported as failed
\* (saveActiveSQLiteLocked, setActiveSQLiteLocked).
THEOREM MemoryFollowsDatabase == Spec => []MemoryIsDatabase
<1>1. WindowsInv => MemoryIsDatabase
  BY DEF WindowsInv
<1> QED BY <1>1, WindowsInvariance, PTL

\* When the last save was reported as a success, the window shows what is stored
\* (persistProfile).
THEOREM SuccessIsReal == Spec => []NoFalseSuccess
<1>1. WindowsInv => NoFalseSuccess
  BY DEF WindowsInv
<1> QED BY <1>1, WindowsInvariance, PTL

\* A profile deleted with success is not in the database until some window saves it again,
\* whatever a start finds in the legacy file, the configuration or the defaults; and that
\* save is one of the profile itself, though every save writes a whole list
\* (removeSelectedProfile, persistProfile, loadSQLiteLocked).
THEOREM DeletedForGood == Spec => []DeletedStaysDeleted /\ RevivedBySaving
<1>1. WindowsInv => DeletedStaysDeleted
  BY DEF WindowsInv, DeletionsOK
<1>2. WindowsInv /\ [Next]_vars => [Revived]_vars
  BY OthersStayDeleted
<1> QED BY <1>1, <1>2, WindowsInvariance, PTL DEF Spec, RevivedBySaving, Revived

\* Loading loses no profile and changes none of the database, wherever it fails or is
\* killed (loadSQLiteLocked, MigrateConnections).
THEOREM LoadingKeeps == Spec => LoadKeeps
<1>1. WindowsInv /\ [Next]_vars => [LoadKept]_vars
  BY StepKeeps
<1> QED BY <1>1, WindowsInvariance, PTL DEF Spec, LoadKeeps, LoadKept

\* An editor that was opened on a saved profile never brings it back after its deletion
\* (prepareProfileDeletion, canPersistEditorProfile).
THEOREM EditorRespectsDeletion == Spec => SavedEditorRespectsDeletion
<1>1. WindowsInv => [DeletionRespected]_vars
  BY EditorSaves DEF DeletionRespected
<1> QED BY <1>1, WindowsInvariance, PTL DEF SavedEditorRespectsDeletion, DeletionRespected

-----------------------------------------------------------------------------
\* The callbacks that wait and the prompts.

LEMMA TailWaits ==
    ASSUME NEW e, NEW q, QueueOK(e, q), q # <<>>, Head(q).op # "ask"
    PROVE  QueueOK(e, Tail(q)) /\ Head(q) \in Callback
<1>1. /\ q \in Seq(Callback) /\ Len(q) \in Nat /\ q[1] = Head(q) /\ Head(q) \in Callback
      /\ Tail(q) \in Seq(Callback)
      /\ DOMAIN q = 1..Len(q) /\ DOMAIN Tail(q) = 1..(Len(q) - 1)
      /\ \A i \in DOMAIN Tail(q) : Tail(q)[i] = q[i + 1]
  BY DEF QueueOK
<1>2. \A i \in Waiting(Tail(q)) : i + 1 \in Waiting(q)
  BY <1>1 DEF Waiting
<1>3. \A i \in Waiting(q) : i # 1 /\ i - 1 \in Waiting(Tail(q))
  BY <1>1 DEF Waiting
<1>4. \A i, j \in Waiting(Tail(q)) : i = j
  <2> SUFFICES ASSUME NEW i \in Waiting(Tail(q)), NEW j \in Waiting(Tail(q)) PROVE i = j
    OBVIOUS
  <2>1. i + 1 = j + 1
    BY <1>2 DEF QueueOK
  <2>2. i \in Nat /\ j \in Nat
    BY <1>1 DEF Waiting
  <2> QED BY <2>1, <2>2
<1>5. Waiting(Tail(q)) # {} <=> Waiting(q) # {}
  BY <1>2, <1>3
<1> QED BY <1>1, <1>4, <1>5 DEF QueueOK

\* What is appended but a prompt leaves those on their way as they are.
LEMMA AppendWaits ==
    ASSUME NEW e, NEW q, QueueOK(e, q), NEW c \in Callback, c.op # "ask"
    PROVE  QueueOK(e, Append(q, c))
<1> DEFINE r == Append(q, c)
<1>1. /\ q \in Seq(Callback) /\ Len(q) \in Nat /\ r \in Seq(Callback)
      /\ DOMAIN q = 1..Len(q) /\ DOMAIN r = 1..(Len(q) + 1) /\ r[Len(q) + 1] = c
      /\ \A i \in DOMAIN q : r[i] = q[i]
  BY DEF QueueOK
<1> HIDE DEF r
<1>2. Waiting(r) = Waiting(q)
  BY <1>1 DEF Waiting
<1> QED BY <1>1, <1>2 DEF QueueOK, r

\* The queue of an editor that is not asking gets its prompt.
LEMMA AskWaits ==
    ASSUME NEW e, NEW q, QueueOK(e, q), ~e.asking
    PROVE  QueueOK([e EXCEPT !.asking = TRUE], Append(q, [op |-> "ask"]))
<1> DEFINE c == [op |-> "ask"]
           r == Append(q, c)
           f == [e EXCEPT !.asking = TRUE]
<1>1. c \in Callback /\ c.op = "ask"
  BY DEF Callback
<1> HIDE DEF c
<1>2. /\ q \in Seq(Callback) /\ Len(q) \in Nat /\ r \in Seq(Callback)
      /\ DOMAIN q = 1..Len(q) /\ DOMAIN r = 1..(Len(q) + 1) /\ r[Len(q) + 1] = c
      /\ \A i \in DOMAIN q : r[i] = q[i]
  BY <1>1 DEF QueueOK
<1>3. f \in Editor /\ f.asking
  BY DEF QueueOK, Editor
<1>4. Waiting(q) = {}
  BY DEF QueueOK
<1> HIDE DEF r, f
<1>5. Waiting(r) = {Len(q) + 1}
  BY <1>1, <1>2, <1>4 DEF Waiting
<1> QED BY <1>2, <1>3, <1>5 DEF QueueOK, r, f, c

\* What else an editor holds back may change.
LEMMA SameWaiting ==
    ASSUME NEW e, NEW q, QueueOK(e, q), NEW f \in Editor, f.asking = e.asking
    PROVE  QueueOK(f, q)
BY DEF QueueOK

LEMMA PromptsOf ==
    ASSUME dialogs \in Seq(Dialog), dialogs # <<>>
    PROVE  Front(dialogs) \in Seq(Dialog) /\ Last(dialogs) \in Dialog
BY DEF Front, Last

-----------------------------------------------------------------------------
\* The editor's window.

EditorNext == QueueOK(editor', timeouts') /\ (Editing' \/ editor' = NoEditor) /\ dialogs' \in Seq(Dialog)

LEMMA NoEditorOf == NoEditor \in Editor /\ ~NoEditor.asking /\ NoEditor.profile = NoProfile
BY DEF NoEditor, Editor, NoWork

\* Nothing is changed by what a closed editor is not doing.
LEMMA SameEditor ==
    ASSUME NEW e \in Editor, e.profile = NoProfile, ~e.creating, ~e.asking,
           e.replacement = NoProfile, e.after = NoWork
    PROVE  e = NoEditor
<1>1. e = [profile |-> e.profile, creating |-> e.creating, asking |-> e.asking,
           replacement |-> e.replacement, after |-> e.after]
  BY DEF Editor
<1>2. e.creating = FALSE /\ e.asking = FALSE
  BY DEF Editor
<1> QED BY <1>1, <1>2, Zenon DEF NoEditor

LEMMA ClosesOK ==
    ASSUME NEW e, NEW queue, QueueOK(e, queue), e.profile \in Profiles \/ e.after = NoWork,
           NEW prompts \in Seq(Dialog), EditorCloses(e, queue, prompts)
    PROVE  EditorNext
<1> DEFINE Lasting == {c \in Callback : c.op # "ask"}
           kept == Subsequence(queue, Lasting)
           next == CASE e.after # NoWork ->
                      <<[op |-> e.after.op, profile |-> e.profile, owner |-> e.after.owner]>>
                     [] e.after = NoWork /\ e.replacement # NoProfile ->
                      <<[op |-> "open", profile |-> e.replacement]>>
                     [] OTHER -> <<>>
<1>1. editor' = NoEditor /\ timeouts' = kept \o next
  BY DEF EditorCloses
<1>2. kept \in Seq(Lasting)
  <2>1. queue \in Seq(Callback) /\ Callback \cap Lasting = Lasting
    BY DEF QueueOK
  <2> HIDE DEF Lasting
  <2> QED BY <2>1, SubsequenceMembers
<1>3. next \in Seq(Lasting)
  <2>1. CASE e.after # NoWork
    <3>1. e.after \in Work
      BY <2>1 DEF QueueOK, Editor
    <3>2. e.after.op \in {"confirm", "move", "group"} /\ e.after.owner \in Owners
      BY <3>1 DEF Work, Owners
    <3>3. [op |-> e.after.op, profile |-> e.profile, owner |-> e.after.owner] \in Lasting
      BY <2>1, <3>2 DEF Callback
    <3>4. next = <<[op |-> e.after.op, profile |-> e.profile, owner |-> e.after.owner]>>
      BY <2>1
    <3> HIDE DEF Lasting, next
    <3> QED BY <3>3, <3>4
  <2>2. CASE e.after = NoWork /\ e.replacement # NoProfile
    <3>1. e.replacement \in Profiles
      BY <2>2 DEF QueueOK, Editor
    <3>2. [op |-> "open", profile |-> e.replacement] \in Lasting
      BY <3>1 DEF Callback
    <3> QED BY <2>2, <3>2
  <2>3. CASE e.after = NoWork /\ e.replacement = NoProfile
    BY <2>3
  <2> QED BY <2>1, <2>2, <2>3
<1> HIDE DEF kept, next
<1>4. timeouts' \in Seq(Lasting)
  <2> HIDE DEF Lasting
  <2> QED BY <1>1, <1>2, <1>3
<1>5. \A i \in DOMAIN timeouts' : timeouts'[i] \in Lasting
  <2> HIDE DEF Lasting
  <2> QED BY <1>4
<1>6. Waiting(timeouts') = {} /\ timeouts' \in Seq(Callback)
  <2>1. Waiting(timeouts') = {}
    BY <1>5 DEF Waiting
  <2>2. \A i \in DOMAIN timeouts' : timeouts'[i] \in Callback
    BY <1>5
  <2> HIDE DEF Lasting
  <2> QED BY <1>4, <2>1, <2>2
<1>7. dialogs' \in Seq(Dialog)
  <2>1. dialogs' = [i \in DOMAIN prompts |-> IF prompts[i].op = "discard"
                                              THEN [op |-> "void"] ELSE prompts[i]]
    BY DEF EditorCloses
  <2>2. [op |-> "void"] \in Dialog
    BY DEF Dialog
  <2>3. \A i \in DOMAIN prompts : dialogs'[i] \in Dialog
    BY <2>1, <2>2
  <2>4. DOMAIN dialogs' = 1..Len(prompts) /\ Len(prompts) \in Nat
    BY <2>1
  <2>5. dialogs' \in [1..Len(prompts) -> Dialog]
    BY <2>1, <2>3, <2>4
  <2> QED BY <2>4, <2>5
<1> QED BY <1>1, <1>6, <1>7, NoEditorOf DEF EditorNext, QueueOK

LEMMA RequestOK ==
    ASSUME NEW e, NEW queue, QueueOK(e, queue), e.profile \in Profiles,
           dialogs \in Seq(Dialog), RequestClose(e, queue)
    PROVE  EditorNext
<1>1. CASE EditorCloses(e, queue, dialogs)
  BY <1>1, ClosesOK
<1>2. CASE /\ editor' = [e EXCEPT !.asking = TRUE]
           /\ timeouts' = IF e.asking THEN queue ELSE Append(queue, [op |-> "ask"])
           /\ UNCHANGED dialogs
  <2>1. QueueOK(editor', timeouts')
    <3>1. CASE e.asking
      <4>1. editor' \in Editor /\ editor'.asking = e.asking
        BY <1>2, <3>1 DEF QueueOK, Editor
      <4> QED BY <1>2, <3>1, <4>1, SameWaiting
    <3>2. CASE ~e.asking
      BY <1>2, <3>2, AskWaits
    <3> QED BY <3>1, <3>2
  <2>2. editor'.profile = e.profile
    BY <1>2 DEF QueueOK, Editor
  <2> QED BY <1>2, <2>1, <2>2, StoreAssumption DEF EditorNext, Editing
<1> QED BY <1>1, <1>2 DEF RequestClose

LEMMA OpenOK ==
    ASSUME EditorOK, NEW p \in Profiles, NEW queue, QueueOK(editor, queue),
           OpenEditor(p, queue)
    PROVE  EditorNext
<1>1. CASE /\ ~Editing
           /\ editor' = [NoEditor EXCEPT !.profile = p, !.creating = allRows[p] = Absent]
           /\ timeouts' = queue /\ UNCHANGED dialogs
  <2>1. editor = NoEditor
    BY <1>1 DEF EditorOK
  <2>2. editor' \in Editor /\ editor'.asking = NoEditor.asking /\ editor'.profile = p
    BY <1>1 DEF NoEditor, Editor, NoWork
  <2>3. QueueOK(editor', timeouts')
    BY <1>1, <2>1, <2>2, SameWaiting
  <2> QED BY <1>1, <2>2, <2>3, StoreAssumption DEF EditorOK, EditorNext, Editing
<1>2. CASE timeouts' = queue /\ UNCHANGED <<editor, dialogs>>
  BY <1>2 DEF EditorOK, EditorNext, Editing
<1>3. CASE Editing /\ RequestClose([editor EXCEPT !.replacement = p], queue)
  <2> DEFINE e == [editor EXCEPT !.replacement = p]
  <2>1. e \in Editor /\ e.asking = editor.asking /\ e.profile \in Profiles
    BY <1>3 DEF EditorOK, QueueOK, Editor, Editing
  <2> HIDE DEF e
  <2> QED BY <1>3, <2>1, SameWaiting, RequestOK DEF EditorOK, e
<1> QED BY <1>1, <1>2, <1>3 DEF OpenEditor

LEMMA CloseFirstOK ==
    ASSUME EditorOK, Editing, NEW op, NEW owner, [op |-> op, owner |-> owner] \in Work,
           NEW queue, QueueOK(editor, queue), CloseFirst(op, owner, queue)
    PROVE  EditorNext
<1> DEFINE w == [op |-> op, owner |-> owner]
           e == [editor EXCEPT !.replacement = NoProfile, !.after = w]
<1>1. e \in Editor /\ e.asking = editor.asking /\ e.profile \in Profiles
  <2> HIDE DEF w
  <2> QED BY DEF EditorOK, QueueOK, Editor, Editing, w
<1>2. RequestClose(e, queue)
  BY DEF CloseFirst
<1> HIDE DEF e
<1> QED BY <1>1, <1>2, SameWaiting, RequestOK DEF EditorOK

-----------------------------------------------------------------------------
\* The steps.

ManagerNext == manager' \in [open : BOOLEAN, rows : SUBSET Profiles]

LEMMA ReloadedOK ==
    ASSUME manager \in [open : BOOLEAN, rows : SUBSET Profiles]
    PROVE  /\ ReloadedIfOk \in [open : BOOLEAN, rows : SUBSET Profiles]
           /\ NoManager \in [open : BOOLEAN, rows : SUBSET Profiles]
           /\ [open |-> TRUE, rows |-> Saved(allRows)] \in [open : BOOLEAN, rows : SUBSET Profiles]
BY DEF ReloadedIfOk, Saved, NoManager

LEMMA PublishedOK ==
    ASSUME deleted \subseteq Profiles, NEW rows, NEW id, NEW removed \in SUBSET Profiles,
           Publish(rows, id, removed)
    PROVE  deleted' \subseteq Profiles
BY DEF Publish

LEMMA RowsOfOK ==
    ASSUME EditorOK, NEW owner
    PROVE  RowsOf(owner) \subseteq Profiles
BY DEF EditorOK, RowsOf, Saved

\* The handlers that leave the editor, its prompts and what waits alone.
LEMMA IdleOK ==
    ASSUME EditorOK, StartUp \/ ChangeGroup \/ ReloadManager \/ CloseManager
                     \/ \E p \in Profiles : ChangeProfile(p) \/ SelectProfile(p)
    PROVE  EditorOK'
<1>1. UNCHANGED <<editor, timeouts, dialogs>>
  BY DEF StartUp, ChangeGroup, ReloadManager, CloseManager, ChangeProfile, SelectProfile, windows
<1>2. EditorNext
  BY <1>1 DEF EditorOK, EditorNext, Editing
<1>3. ManagerNext
  <2>1. manager' \in {manager, ReloadedIfOk, NoManager, [open |-> TRUE, rows |-> Saved(allRows)]}
    BY DEF StartUp, ChangeGroup, ReloadManager, CloseManager, ChangeProfile, SelectProfile, windows
  <2> QED BY <2>1, ReloadedOK DEF EditorOK, ManagerNext
<1>4. deleted' \subseteq Profiles
  <2>1. CASE deleted' = deleted
    BY <2>1 DEF EditorOK
  <2>2. CASE \E rows, id : Publish(rows, id, {})
    BY <2>2, PublishedOK DEF EditorOK
  <2> QED
    BY <2>1, <2>2 DEF StartUp, ChangeGroup, ReloadManager, CloseManager, ChangeProfile,
       SelectProfile, Persist
<1> QED BY <1>2, <1>3, <1>4 DEF EditorOK, EditorNext, ManagerNext, Editing

LEMMA ExitOK ==
    ASSUME EditorOK, Exit
    PROVE  EditorOK'
<1>1. /\ editor' = NoEditor /\ timeouts' = <<>> /\ dialogs' = <<>>
      /\ manager' = NoManager /\ deleted' = deleted
  BY DEF Exit
<1>2. Waiting(<<>>) = {}
  BY DEF Waiting
<1>3. QueueOK(editor', timeouts')
  BY <1>1, <1>2, NoEditorOf DEF QueueOK
<1> QED BY <1>1, <1>3, ReloadedOK DEF EditorOK, Editing

\* What concerns the editor only.
LEMMA EditorStep ==
    ASSUME EditorOK, EditorNext, UNCHANGED <<manager, deleted>>
    PROVE  EditorOK'
BY DEF EditorOK, EditorNext, Editing

LEMMA SaveEditorOK ==
    ASSUME EditorOK, SaveEditor
    PROVE  EditorOK'
<1>1. editor.profile \in Profiles /\ dialogs \in Seq(Dialog) /\ QueueOK(editor, timeouts)
  BY DEF EditorOK, SaveEditor, Editing, QueueOK, Editor
<1>2. EditorNext
  <2>1. CASE EditorCloses(editor, timeouts, dialogs)
    BY <1>1, <2>1, ClosesOK
  <2>2. CASE UNCHANGED <<editor, timeouts, dialogs>>
    BY <2>2 DEF EditorOK, EditorNext, Editing
  <2> QED BY <2>1, <2>2 DEF SaveEditor
<1>3. ManagerNext
  BY ReloadedOK DEF EditorOK, ManagerNext, SaveEditor
<1>4. deleted' \subseteq Profiles
  BY PublishedOK DEF EditorOK, SaveEditor, Persist
<1> QED BY <1>2, <1>3, <1>4 DEF EditorOK, EditorNext, ManagerNext, Editing

LEMMA MoveOK ==
    ASSUME EditorOK, NEW p \in Profiles, NEW owner \in Owners, NEW queue,
           QueueOK(editor, queue), Move(p, owner, queue)
    PROVE  EditorOK'
<1>1. CASE editor.profile = p /\ CloseFirst("move", owner, queue)
           /\ UNCHANGED <<store, allRows, manager, reported, deleted>>
  <2>1. Editing /\ [op |-> "move", owner |-> owner] \in Work
    BY <1>1, StoreAssumption DEF Editing, Work
  <2>2. EditorNext
    BY <1>1, <2>1, CloseFirstOK
  <2> QED BY <1>1, <2>2, EditorStep
<1>2. CASE /\ \E c \in Contents : Persist(p, c)
           /\ manager' = ReloadedIfOk /\ timeouts' = queue /\ UNCHANGED <<editor, dialogs>>
  <2>1. EditorNext
    BY <1>2 DEF EditorOK, EditorNext, Editing
  <2>2. ManagerNext
    BY <1>2, ReloadedOK DEF EditorOK, ManagerNext
  <2>3. deleted' \subseteq Profiles
    BY <1>2, PublishedOK DEF EditorOK, Persist
  <2> QED BY <2>1, <2>2, <2>3 DEF EditorOK, EditorNext, ManagerNext, Editing
<1> QED BY <1>1, <1>2 DEF Move

LEMMA FireMoveOK ==
    ASSUME EditorOK, FireMove
    PROVE  EditorOK'
<1> DEFINE p == Head(timeouts).profile
           owner == Head(timeouts).owner
<1>1. timeouts # <<>> /\ Head(timeouts).op = "move"
  BY DEF FireMove
<1>2. QueueOK(editor, Tail(timeouts)) /\ Head(timeouts) \in Callback
  BY <1>1, TailWaits DEF EditorOK
<1>3. p \in Profiles /\ owner \in Owners
  BY <1>1, <1>2 DEF Callback
<1>4. \/ Move(p, owner, Tail(timeouts))
      \/ /\ timeouts' = Tail(timeouts)
         /\ UNCHANGED <<store, allRows, manager, editor, dialogs, reported, deleted>>
  BY DEF FireMove
<1> HIDE DEF p, owner
<1>5. CASE Move(p, owner, Tail(timeouts))
  BY <1>2, <1>3, <1>5, MoveOK
<1>6. CASE /\ timeouts' = Tail(timeouts)
           /\ UNCHANGED <<store, allRows, manager, editor, dialogs, reported, deleted>>
  BY <1>2, <1>6 DEF EditorOK, Editing
<1> QED BY <1>4, <1>5, <1>6

\* The user's input.
LEMMA AskedOK ==
    ASSUME EditorOK,
           \/ \E p \in Profiles :
                 EditProfile(p) \/ \E owner \in Owners : MoveProfile(p, owner) \/ DeleteProfile(p, owner)
           \/ RequestGroup \/ CancelEditor
    PROVE  EditorOK'
<1>1. ASSUME NEW p \in Profiles, EditProfile(p) PROVE EditorOK'
  <2>1. EditorNext
    BY <1>1, OpenOK DEF EditProfile, EditorOK
  <2> QED BY <1>1, <2>1, EditorStep DEF EditProfile
<1>2. ASSUME NEW p \in Profiles, NEW owner \in Owners, MoveProfile(p, owner) PROVE EditorOK'
  BY <1>2, MoveOK DEF MoveProfile, EditorOK
<1>3. ASSUME NEW p \in Profiles, NEW owner \in Owners, DeleteProfile(p, owner) PROVE EditorOK'
  <2> DEFINE c == [op |-> "prepare", profile |-> p, owner |-> owner]
  <2>1. c \in Callback /\ c.op # "ask"
    BY DEF Callback
  <2>2. timeouts' = Append(timeouts, c) /\ UNCHANGED <<manager, editor, dialogs, deleted>>
    BY <1>3 DEF DeleteProfile
  <2> HIDE DEF c
  <2>3. QueueOK(editor, timeouts')
    BY <2>1, <2>2, AppendWaits DEF EditorOK
  <2> QED BY <2>2, <2>3 DEF EditorOK, Editing
<1>4. CASE RequestGroup
  <2>1. Editing /\ CloseFirst("group", "manager", timeouts) /\ UNCHANGED <<manager, deleted>>
    BY <1>4 DEF RequestGroup
  <2>2. [op |-> "group", owner |-> "manager"] \in Work
    BY DEF Work
  <2>3. EditorNext
    BY <2>1, <2>2, CloseFirstOK DEF EditorOK
  <2> QED BY <2>1, <2>3, EditorStep
<1>5. CASE CancelEditor
  <2>1. Editing /\ RequestClose(editor, timeouts) /\ UNCHANGED <<manager, deleted>>
    BY <1>5 DEF CancelEditor
  <2>2. editor.profile \in Profiles
    BY <2>1 DEF EditorOK, QueueOK, Editor, Editing
  <2>3. EditorNext
    BY <2>1, <2>2, RequestOK DEF EditorOK
  <2> QED BY <2>1, <2>3, EditorStep
<1> QED BY <1>1, <1>2, <1>3, <1>4, <1>5

LEMMA PromptOK ==
    ASSUME EditorOK, NEW callback \in Callback, callback.op \in {"prepare", "confirm"},
           QueueOK(editor, Tail(timeouts)), Prompt(callback)
    PROVE  EditorNext
<1> DEFINE d == [callback EXCEPT !.op = "confirm"]
<1>1. callback \in [op : {"prepare", "confirm", "move", "group"}, profile : Profiles, owner : Owners]
  BY DEF Callback
<1>2. d \in Dialog
  BY <1>1 DEF Dialog
<1>3. dialogs' = Append(dialogs, d) /\ timeouts' = Tail(timeouts) /\ editor' = editor
  BY DEF Prompt
<1> HIDE DEF d
<1> QED BY <1>2, <1>3 DEF EditorOK, EditorNext, Editing

LEMMA AskOK ==
    ASSUME EditorOK, timeouts # <<>>, Head(timeouts).op = "ask", Ask
    PROVE  EditorNext
<1> DEFINE d == [op |-> "discard"]
           q == Tail(timeouts)
<1>1. editor' = [editor EXCEPT !.asking = FALSE] /\ dialogs' = Append(dialogs, d) /\ timeouts' = q
  BY DEF Ask
<1>2. d \in Dialog
  BY DEF Dialog
<1>3. /\ timeouts \in Seq(Callback) /\ Len(timeouts) \in Nat /\ timeouts[1] = Head(timeouts)
      /\ 1 \in DOMAIN timeouts /\ q \in Seq(Callback)
      /\ \A i \in DOMAIN q : i \in Nat /\ i # 0 /\ i + 1 \in DOMAIN timeouts /\ q[i] = timeouts[i + 1]
  BY DEF EditorOK, QueueOK
<1> HIDE DEF d, q
<1>4. 1 \in Waiting(timeouts) /\ \A i \in Waiting(timeouts) : i = 1
  BY <1>3 DEF EditorOK, QueueOK, Waiting
<1>5. Waiting(q) = {}
  <2> SUFFICES ASSUME NEW i \in Waiting(q) PROVE FALSE
    OBVIOUS
  <2>1. i \in Nat /\ i # 0 /\ i + 1 \in Waiting(timeouts)
    BY <1>3 DEF Waiting
  <2> QED BY <1>4, <2>1
<1>6. editor' \in Editor /\ ~editor'.asking /\ editor'.profile = editor.profile
  BY <1>1 DEF EditorOK, QueueOK, Editor
<1>7. QueueOK(editor', timeouts')
  BY <1>1, <1>3, <1>5, <1>6 DEF QueueOK
<1>8. Editing' \/ editor' = NoEditor
  <2>1. [NoEditor EXCEPT !.asking = FALSE] = NoEditor
    <3> DEFINE e == [NoEditor EXCEPT !.asking = FALSE]
    <3>1. /\ e \in Editor /\ e.profile = NoProfile /\ ~e.creating /\ ~e.asking
          /\ e.replacement = NoProfile /\ e.after = NoWork
      BY DEF Editor, NoEditor
    <3> HIDE DEF e
    <3>2. e = NoEditor
      BY <3>1, SameEditor
    <3> QED BY <3>2 DEF e
  <2> QED BY <1>1, <1>6, <2>1 DEF EditorOK, Editing
<1> QED BY <1>1, <1>2, <1>7, <1>8 DEF EditorOK, EditorNext

\* The callbacks, also while a prompt is open.
LEMMA FireTimeoutOK ==
    ASSUME EditorOK, FireTimeout
    PROVE  EditorOK'
<1> DEFINE callback == Head(timeouts)
           rest == Tail(timeouts)
<1>1. /\ timeouts # <<>> /\ UNCHANGED <<manager, deleted>>
      /\ \/ callback.op = "prepare" /\ Prepare(callback)
         \/ callback.op = "confirm" /\ Prompt(callback)
         \/ callback.op = "open" /\ OpenEditor(callback.profile, rest)
         \/ callback.op = "group" /\ ContinueGroup
         \/ callback.op = "ask" /\ Ask
  BY DEF FireTimeout
<1>2. ASSUME callback.op # "ask" PROVE QueueOK(editor, rest) /\ callback \in Callback
  BY <1>1, <1>2, TailWaits DEF EditorOK
<1> HIDE DEF callback, rest
<1>3. CASE callback.op = "prepare" /\ Prepare(callback)
  <2>0. QueueOK(editor, rest) /\ callback \in Callback
    BY <1>2, <1>3
  <2>1. /\ callback.profile \in Profiles
        /\ [op |-> "confirm", owner |-> callback.owner] \in Work
    BY <1>3, <2>0 DEF Callback, Work, Owners
  <2>2. ASSUME editor.profile = callback.profile /\ CloseFirst("confirm", callback.owner, rest)
       PROVE  EditorNext
    <3>1. Editing
      BY <2>1, <2>2, StoreAssumption DEF Editing
    <3> QED BY <2>0, <2>1, <2>2, <3>1, CloseFirstOK
  <2>3. ASSUME Prompt(callback) PROVE EditorNext
    BY <1>3, <2>0, <2>3, PromptOK DEF rest
  <2>4. EditorNext
    BY <1>3, <2>2, <2>3 DEF Prepare, rest
  <2> QED BY <1>1, <2>4, EditorStep
<1>4. CASE callback.op = "confirm" /\ Prompt(callback)
  <2>1. EditorNext
    BY <1>2, <1>4, PromptOK DEF rest
  <2> QED BY <1>1, <2>1, EditorStep
<1>5. CASE callback.op = "open" /\ OpenEditor(callback.profile, rest)
  <2>1. callback.profile \in Profiles
    BY <1>2, <1>5 DEF Callback
  <2>2. EditorNext
    BY <1>2, <1>5, <2>1, OpenOK
  <2> QED BY <1>1, <2>2, EditorStep
<1>6. CASE callback.op = "group" /\ ContinueGroup
  <2>0. QueueOK(editor, rest)
    BY <1>2, <1>6
  <2>1. ASSUME timeouts' = rest /\ UNCHANGED <<editor, dialogs>>
       PROVE  EditorNext
    BY <2>0, <2>1 DEF EditorOK, EditorNext, Editing
  <2>2. ASSUME Editing /\ CloseFirst("group", "manager", rest)
       PROVE  EditorNext
    <3>1. [op |-> "group", owner |-> "manager"] \in Work
      BY DEF Work
    <3> QED BY <2>0, <2>2, <3>1, CloseFirstOK
  <2>3. EditorNext
    BY <1>6, <2>1, <2>2 DEF ContinueGroup, rest
  <2> QED BY <1>1, <2>3, EditorStep
<1>7. CASE callback.op = "ask" /\ Ask
  BY <1>1, <1>7, AskOK, EditorStep DEF callback
<1> QED BY <1>1, <1>3, <1>4, <1>5, <1>6, <1>7

\* The answers to the prompts.
LEMMA AnswersOK ==
    ASSUME EditorOK, AnswerDiscard \/ Dismiss \/ ConfirmDelete
    PROVE  EditorOK'
<1>1. dialogs # <<>> /\ Front(dialogs) \in Seq(Dialog) /\ Last(dialogs) \in Dialog
  BY PromptsOf DEF EditorOK, AnswerDiscard, Dismiss, ConfirmDelete, Answering
<1>2. CASE AnswerDiscard
  <2>1. UNCHANGED <<manager, deleted>>
    BY <1>2 DEF AnswerDiscard
  <2>2. CASE /\ editor' = [editor EXCEPT !.replacement = NoProfile, !.after = NoWork]
             /\ dialogs' = Front(dialogs) /\ UNCHANGED timeouts
    <3>1. editor' \in Editor /\ editor'.asking = editor.asking /\ editor'.profile = editor.profile
      BY <2>2 DEF EditorOK, QueueOK, Editor
    <3>2. QueueOK(editor', timeouts')
      BY <2>2, <3>1, SameWaiting DEF EditorOK
    <3>3. [NoEditor EXCEPT !.replacement = NoProfile, !.after = NoWork] = NoEditor
      <4> DEFINE e == [NoEditor EXCEPT !.replacement = NoProfile, !.after = NoWork]
      <4>1. /\ e \in Editor /\ e.profile = NoProfile /\ ~e.creating /\ ~e.asking
            /\ e.replacement = NoProfile /\ e.after = NoWork
        BY DEF Editor, NoEditor
      <4> HIDE DEF e
      <4>2. e = NoEditor
        BY <4>1, SameEditor
      <4> QED BY <4>2 DEF e
    <3>4. EditorNext
      BY <1>1, <2>2, <3>1, <3>2, <3>3 DEF EditorOK, EditorNext, Editing
    <3> QED BY <2>1, <3>4, EditorStep
  <2>3. CASE EditorCloses(editor, timeouts, Front(dialogs)) /\ Editing
    <3>1. editor.profile \in Profiles
      BY <2>3 DEF EditorOK, QueueOK, Editor, Editing
    <3>2. EditorNext
      BY <1>1, <2>3, <3>1, ClosesOK DEF EditorOK
    <3> QED BY <2>1, <3>2, EditorStep
  <2>4. CASE EditorCloses(editor, timeouts, Front(dialogs)) /\ ~Editing
    <3>1. EditorNext
      BY <1>1, <2>4, ClosesOK DEF EditorOK, NoEditor
    <3> QED BY <2>1, <3>1, EditorStep
  <2> QED BY <1>2, <2>2, <2>3, <2>4 DEF AnswerDiscard
<1>3. CASE Dismiss
  BY <1>1, <1>3 DEF Dismiss, EditorOK, Editing
<1>4. CASE ConfirmDelete
  <2> DEFINE p == Last(dialogs).profile
             owner == Last(dialogs).owner
  <2>1. Last(dialogs).op = "confirm"
    BY <1>4 DEF ConfirmDelete, Answering
  <2>2. p \in Profiles
    BY <1>1, <2>1 DEF Dialog
  <2>3. /\ \E id : Publish([allRows EXCEPT ![p] = Absent], id, {p})
        /\ manager' \in {manager, ReloadedIfOk}
        /\ dialogs' = Front(dialogs) /\ UNCHANGED <<editor, timeouts>>
    BY <1>4 DEF ConfirmDelete
  <2> HIDE DEF p
  <2>4. deleted' \subseteq Profiles
    BY <2>2, <2>3, PublishedOK DEF EditorOK
  <2>5. ManagerNext
    BY <2>3, ReloadedOK DEF EditorOK, ManagerNext
  <2> QED BY <1>1, <2>3, <2>4, <2>5 DEF EditorOK, ManagerNext, Editing
<1> QED BY <1>2, <1>3, <1>4

LEMMA RebuildOK ==
    ASSUME EditorOK, RebuildWindow
    PROVE  EditorOK'
<1>1. EditorNext
  <2>1. CASE Editing /\ EditorCloses(editor, timeouts, dialogs)
    BY <2>1, ClosesOK DEF EditorOK, QueueOK, Editor, Editing
  <2>2. CASE UNCHANGED <<editor, timeouts, dialogs>>
    BY <2>2 DEF EditorOK, EditorNext, Editing
  <2> QED BY <2>1, <2>2 DEF RebuildWindow
<1>2. manager' = NoManager /\ deleted' = deleted
  BY DEF RebuildWindow
<1> QED BY <1>1, <1>2, ReloadedOK DEF EditorOK, EditorNext, Editing

LEMMA EditorKept == EditorOK /\ [Next]_vars => EditorOK'
<1> SUFFICES ASSUME EditorOK, [Next]_vars PROVE EditorOK'
  OBVIOUS
<1>1. CASE StartUp \/ ChangeGroup \/ ReloadManager \/ CloseManager
                   \/ \E p \in Profiles : ChangeProfile(p) \/ SelectProfile(p)
  BY <1>1, IdleOK
<1>2. CASE \/ \E p \in Profiles :
                 EditProfile(p) \/ \E owner \in Owners : MoveProfile(p, owner) \/ DeleteProfile(p, owner)
           \/ RequestGroup \/ CancelEditor
  BY <1>2, AskedOK
<1>3. CASE AnswerDiscard \/ Dismiss \/ ConfirmDelete
  BY <1>3, AnswersOK
<1>4. CASE UNCHANGED vars
  BY <1>4 DEF vars, windows, EditorOK, Editing
<1> QED
  BY <1>1, <1>2, <1>3, <1>4, ExitOK, SaveEditorOK, FireMoveOK, FireTimeoutOK, RebuildOK DEF Next

LEMMA EditorStarts == Init => EditorOK
<1> SUFFICES ASSUME Init PROVE EditorOK
  OBVIOUS
<1>1. /\ editor = NoEditor /\ timeouts = <<>> /\ dialogs = <<>>
      /\ manager = NoManager /\ deleted = {}
  BY DEF Init
<1>2. Waiting(<<>>) = {}
  BY DEF Waiting
<1>3. QueueOK(editor, timeouts)
  BY <1>1, <1>2, NoEditorOf DEF QueueOK
<1>4. manager \in [open : BOOLEAN, rows : SUBSET Profiles]
  BY <1>1 DEF NoManager
<1> QED BY <1>1, <1>3, <1>4 DEF EditorOK

\* However the handlers put off what they do, one prompt about unsaved changes is on its
\* way at most, and only for the editor that is open (unsavedCloseController).
THEOREM OnePrompt == Spec => []EditorOK
BY EditorStarts, EditorKept, PTL DEF Spec

\* The types of the windows and of the store.
THEOREM WindowsTypeCorrect == Spec => []TypeOK
<1>1. WindowsInv /\ EditorOK => TypeOK
  <2> SUFFICES ASSUME WindowsInv, EditorOK PROVE TypeOK
    OBVIOUS
  <2>1. activeID \in Profiles \cup {NoProfile}
    BY DEF WindowsInv, LoadOK, MemoryIsDatabase, Normalized, Saved
  <2>2. list \in Rows
    BY DEF WindowsInv, ListsOK
  <2>3. StoreTypeOK
    BY <2>1 DEF WindowsInv, ListsOK, LoadOK, StoreTypeOK
  <2>4. \A i \in DOMAIN timeouts : timeouts[i] \in Callback
    BY DEF EditorOK, QueueOK
  <2>5. \A i \in DOMAIN dialogs : dialogs[i] \in Dialog
    BY DEF EditorOK
  <2>6. editor.asking <=> \E i \in DOMAIN timeouts : timeouts[i].op = "ask"
    BY DEF EditorOK, QueueOK, Waiting
  <2> QED
    BY <2>3, <2>4, <2>5, <2>6 DEF TypeOK, WindowsInv, ListsOK, EditorOK, QueueOK
<1> QED BY <1>1, WindowsInvariance, OnePrompt, PTL
=============================================================================
