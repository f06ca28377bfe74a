-------------------------- MODULE ConnectionWindows -------------------------
(***************************************************************************)
(* The windows that edit the saved connections (guis/guis.go,              *)
(* connection_editor.go, connection_manager.go, group_rename.go,           *)
(* group_remove.go, connection_context_menu.go, settings.go) on one        *)
(* connection store.                                                       *)
(*                                                                         *)
(* The launcher's rows are recomputed from a.allRows whenever that         *)
(* changes, so they are part of it; the connection manager keeps the rows  *)
(* of its last reload, and both hand copies to the one editor.  A save     *)
(* writes a whole list made from a.allRows and publishes it if the store   *)
(* reports success.  No window is modal.                                   *)
(*                                                                         *)
(* The prompts are modal, but while one is open the native loop it runs    *)
(* fires the timeouts by which handlers put off what they do next; those   *)
(* may open another prompt on top, or a window underneath.                 *)
(***************************************************************************)
EXTENDS ConnectionStore, Naturals, SequencesExt, Subsequences

CONSTANT MaxTimeouts    \* bound on the callbacks the user's input may queue

ASSUME WindowsAssumption == MaxTimeouts \in Nat

VARIABLES
    allRows,    \* a.allRows
    manager,    \* a.manager: whether it is open, and the profiles in its rows
    editor,     \* a.editor
    timeouts,   \* callbacks given to AddTimeout(0, ...), in order
    dialogs,    \* open prompts, the innermost last
    reported,   \* what the last save reported
    deleted     \* history: profiles deleted with success and not saved since

windows == <<allRows, manager, editor, timeouts, dialogs>>
vars == <<store, windows, reported, deleted>>

Owners == {"launcher", "manager"}

\* creating: there was no such profile when the editor was opened.  asking: a prompt
\* about unsaved changes is on its way (closing.pending).  replacement and after are
\* what is to happen once the editor has closed: another editor; the deletion or the
\* move of its profile, or the change of a group it is in, which a window has put off.
Work == [op : {"confirm", "move"}, owner : Owners] \cup [op : {"group"}, owner : {"manager"}]
NoWork == [op |-> "nothing", owner |-> "manager"]
Editor == [profile : Profiles \cup {NoProfile}, creating : BOOLEAN, asking : BOOLEAN,
           replacement : Profiles \cup {NoProfile}, after : Work \cup {NoWork}]
NoEditor == [profile |-> NoProfile, creating |-> FALSE, asking |-> FALSE,
             replacement |-> NoProfile, after |-> NoWork]

Callback == [op : {"prepare", "confirm", "move", "group"}, profile : Profiles, owner : Owners]
            \cup [op : {"open"}, profile : Profiles] \cup [op : {"ask"}]
Dialog == [op : {"confirm"}, profile : Profiles, owner : Owners]
          \cup [op : {"discard", "void"}]

NoManager == [open |-> FALSE, rows |-> {}]

TypeOK ==
    /\ StoreTypeOK
    /\ allRows \in Rows
    /\ manager \in [open : BOOLEAN, rows : SUBSET Profiles]
    /\ editor \in Editor
    /\ \A i \in DOMAIN timeouts : timeouts[i] \in Callback
    /\ \A i \in DOMAIN dialogs : dialogs[i] \in Dialog
    /\ reported \in Results
    /\ deleted \subseteq Profiles
    /\ editor.asking <=> \E i \in DOMAIN timeouts : timeouts[i].op = "ask"

Init ==
    /\ StoreInit
    /\ allRows = Empty
    /\ manager = NoManager
    /\ editor = NoEditor
    /\ timeouts = <<>>
    /\ dialogs = <<>>
    /\ reported = "ok"
    /\ deleted = {}

Editing == editor.profile # NoProfile

\* A window gets the user's input: the program runs and no prompt is open.
Input == phase = "up" /\ dialogs = <<>>
MayQueue == Len(timeouts) < MaxTimeouts

-----------------------------------------------------------------------------
\* Loading and ending.

StartUp ==
    /\ Load
    /\ allRows' = list'
    /\ UNCHANGED <<manager, editor, timeouts, dialogs, reported, deleted>>

Exit ==
    /\ Stop
    /\ allRows' = Empty
    /\ manager' = NoManager
    /\ editor' = NoEditor
    /\ timeouts' = <<>>
    /\ dialogs' = <<>>
    /\ reported' = "ok"
    /\ UNCHANGED deleted

-----------------------------------------------------------------------------
\* Saving.

\* Variant: the rows are published whatever the store reports.
PublishFirst(rows, id, removed) ==
    \E result \in Results :
        /\ SaveActive(rows, id, result)
        /\ reported' = "ok"
        /\ allRows' = rows
        /\ deleted' = (deleted \cup removed) \ Saved(db'.rows)

\* The window's rows become what has been saved, if the store reports success.
\* removed: the profiles the save was to delete.
Publish(rows, id, removed) ==
    \E result \in Results :
        /\ SaveActive(rows, id, result)
        /\ reported' = result
        /\ allRows' = IF result = "ok" THEN rows ELSE allRows
        /\ deleted' = (IF result = "ok" THEN deleted \cup removed ELSE deleted)
                      \ Saved(db'.rows)

ReloadedIfOk ==
    IF manager.open /\ reported' = "ok"
    THEN [manager EXCEPT !.rows = Saved(allRows')]
    ELSE manager

\* persistProfile.
Persist(p, c) == Publish([allRows EXCEPT ![p] = c], p, {})

\* Marking a favourite, connecting and testing, from either window: what is saved is the
\* window's copy with one field changed.  Connecting from the launcher and testing do not
\* reload the manager.
ChangeProfile(p) ==
    /\ Input
    /\ p \in Saved(allRows) \cup manager.rows
    /\ \E c \in Contents : Persist(p, c)
    /\ manager' \in {manager, ReloadedIfOk}
    /\ UNCHANGED <<editor, timeouts, dialogs>>

\* Renaming and removing a group: the profiles in it change together.  What is saved is
\* resolved when the window is left or the prompt answered, so neither is kept here.
ChangeGroup ==
    /\ Input
    /\ manager.open
    /\ \E group \in SUBSET Saved(allRows) \ {{}}, c \in Contents,
          id \in manager.rows \cup {activeID} :
          Publish([p \in Profiles |-> IF p \in group THEN c ELSE allRows[p]], id, {})
    /\ manager' = ReloadedIfOk
    /\ UNCHANGED <<editor, timeouts, dialogs>>

SelectProfile(p) ==
    /\ Input
    /\ p \in Saved(allRows) \cup manager.rows
    /\ SetActive(p)
    /\ UNCHANGED <<windows, reported, deleted>>

-----------------------------------------------------------------------------
\* The editor's window.

\* OnClose: what has been put off is queued.  The prompt about its unsaved changes
\* finds it closed.
EditorCloses(e, queue, prompts) ==
    /\ editor' = NoEditor
    /\ timeouts' = Subsequence(queue, {c \in Callback : c.op # "ask"}) \o
          CASE e.after # NoWork ->
                  <<[op |-> e.after.op, profile |-> e.profile, owner |-> e.after.owner]>>
            [] e.after = NoWork /\ e.replacement # NoProfile ->
                  <<[op |-> "open", profile |-> e.replacement]>>
            [] OTHER -> <<>>
    /\ dialogs' = [i \in DOMAIN prompts |-> IF prompts[i].op = "discard"
                                            THEN [op |-> "void"] ELSE prompts[i]]

\* RequestClose and shouldClose: at once without unsaved changes, else after a prompt.
RequestClose(e, queue) ==
    \/ EditorCloses(e, queue, dialogs)
    \/ /\ editor' = [e EXCEPT !.asking = TRUE]
       /\ timeouts' = IF e.asking THEN queue ELSE Append(queue, [op |-> "ask"])
       /\ UNCHANGED dialogs

\* openConnectionEditor: there is one editor, which another target replaces.
OpenEditor(p, queue) ==
    \/ /\ ~Editing
       /\ editor' = [NoEditor EXCEPT !.profile = p, !.creating = allRows[p] = Absent]
       /\ timeouts' = queue
       /\ UNCHANGED dialogs
    \/ /\ editor.profile = p
       /\ timeouts' = queue
       /\ UNCHANGED <<editor, dialogs>>
    \/ /\ Editing /\ editor.profile # p
       /\ RequestClose([editor EXCEPT !.replacement = p], queue)

\* queueAfterCloseForProfile.
CloseFirst(op, owner, queue) ==
    RequestClose([editor EXCEPT !.replacement = NoProfile,
                                !.after = [op |-> op, owner |-> owner]], queue)

\* An ID made from the time and used by no profile before.
Fresh(p) ==
    /\ p \notin deleted \cup Saved(db.rows) \cup Saved(allRows) \cup Saved(Defaults)
    /\ p \notin manager.rows \cup {editor.profile, editor.replacement}
    /\ \A i \in DOMAIN timeouts : timeouts[i].op = "open" => timeouts[i].profile # p

\* editProfile and editSelected, newProfile, duplicateSelected.
EditProfile(p) ==
    /\ Input /\ MayQueue
    /\ p \in Saved(allRows) \cup manager.rows \/ Fresh(p)
    /\ OpenEditor(p, timeouts)
    /\ UNCHANGED <<store, allRows, manager, reported, deleted>>

\* Variant: the profile may have been deleted meanwhile.
CanPersistAnything == TRUE

\* canPersistEditorProfile.
CanPersist == editor.creating \/ allRows[editor.profile] # Absent

\* save: on success the manager is reloaded and the editor closed.
SaveEditor ==
    /\ Input
    /\ Editing
    /\ CanPersist
    /\ \E c \in Contents : Persist(editor.profile, c)
    /\ manager' = ReloadedIfOk
    /\ IF reported' = "ok"
       THEN EditorCloses(editor, timeouts, dialogs)
       ELSE UNCHANGED <<editor, timeouts, dialogs>>

CancelEditor ==
    /\ Input /\ MayQueue
    /\ Editing
    /\ RequestClose(editor, timeouts)
    /\ UNCHANGED <<store, allRows, manager, reported, deleted>>

-----------------------------------------------------------------------------
\* Moving a profile to a group and changing a group, put off while the editor is open on
\* a profile concerned.

RowsOf(owner) == IF owner = "launcher" THEN Saved(allRows) ELSE manager.rows

Move(p, owner, queue) ==
    \/ /\ editor.profile = p
       /\ CloseFirst("move", owner, queue)
       /\ UNCHANGED <<store, allRows, manager, reported, deleted>>
    \/ /\ editor.profile # p
       /\ \E c \in Contents : Persist(p, c)
       /\ manager' = ReloadedIfOk
       /\ timeouts' = queue
       /\ UNCHANGED <<editor, dialogs>>

MoveProfile(p, owner) ==
    /\ Input /\ MayQueue
    /\ p \in RowsOf(owner)
    /\ Move(p, owner, timeouts)

\* The profile is looked up again (selectContextProfile), in rows that outlive the
\* manager's window.
FireMove ==
    /\ phase = "up"
    /\ timeouts # <<>> /\ Head(timeouts).op = "move"
    /\ LET p == Head(timeouts).profile
           owner == Head(timeouts).owner
       IN  \/ /\ p \in RowsOf(owner) \/ (owner = "manager" /\ ~manager.open)
              /\ Move(p, owner, Tail(timeouts))
           \/ /\ p \notin RowsOf(owner)
              /\ timeouts' = Tail(timeouts)
              /\ UNCHANGED <<store, allRows, manager, editor, dialogs, reported, deleted>>

\* renameSelectedGroup and removeSelectedGroup with the editor open on a profile of it.
RequestGroup ==
    /\ Input /\ MayQueue
    /\ manager.open
    /\ Editing
    /\ CloseFirst("group", "manager", timeouts)
    /\ UNCHANGED <<store, allRows, manager, reported, deleted>>

-----------------------------------------------------------------------------
\* Deleting, put off to the next turn of the loop, then until the editor has closed,
\* then until the prompt is answered.

DeleteProfile(p, owner) ==
    /\ Input /\ MayQueue
    /\ p \in RowsOf(owner)
    /\ timeouts' = Append(timeouts, [op |-> "prepare", profile |-> p, owner |-> owner])
    /\ UNCHANGED <<store, allRows, manager, editor, dialogs, reported, deleted>>

Prompt(callback) ==
    /\ dialogs' = Append(dialogs, [callback EXCEPT !.op = "confirm"])
    /\ timeouts' = Tail(timeouts)
    /\ UNCHANGED editor

\* prepareProfileDeletion.
Prepare(callback) ==
    IF editor.profile = callback.profile
    THEN CloseFirst("confirm", callback.owner, Tail(timeouts))
    ELSE Prompt(callback)

\* renameSelectedGroup and removeSelectedGroup when the editor has closed: another may be
\* open by now on a profile of the group.
ContinueGroup ==
    \/ timeouts' = Tail(timeouts) /\ UNCHANGED <<editor, dialogs>>
    \/ Editing /\ CloseFirst("group", "manager", Tail(timeouts))

\* unsavedCloseController's callback; it is gone when the window is (EditorCloses).
Ask ==
    /\ editor' = [editor EXCEPT !.asking = FALSE]
    /\ dialogs' = Append(dialogs, [op |-> "discard"])
    /\ timeouts' = Tail(timeouts)

\* Also while a prompt is open.
FireTimeout ==
    /\ phase = "up"
    /\ timeouts # <<>>
    /\ LET callback == Head(timeouts)
       IN  \/ callback.op = "prepare" /\ Prepare(callback)
           \/ callback.op = "confirm" /\ Prompt(callback)
           \/ callback.op = "open" /\ OpenEditor(callback.profile, Tail(timeouts))
           \/ callback.op = "group" /\ ContinueGroup
           \/ callback.op = "ask" /\ Ask
    /\ UNCHANGED <<store, allRows, manager, reported, deleted>>

Answering(op) == phase = "up" /\ dialogs # <<>> /\ Last(dialogs).op = op

\* Keep Editing, or Discard.
AnswerDiscard ==
    /\ Answering("discard")
    /\ \/ /\ editor' = [editor EXCEPT !.replacement = NoProfile, !.after = NoWork]
          /\ dialogs' = Front(dialogs)
          /\ UNCHANGED timeouts
       \/ EditorCloses(editor, timeouts, Front(dialogs))
    /\ UNCHANGED <<store, allRows, manager, reported, deleted>>

\* Cancel, the answer to a prompt whose window is gone, and a deletion that finds
\* another row selected (canDeleteSelectedProfile).
Dismiss ==
    /\ Answering("confirm") \/ Answering("void")
    /\ dialogs' = Front(dialogs)
    /\ UNCHANGED <<store, allRows, manager, editor, timeouts, reported, deleted>>

\* deleteProfileConfirmed of the launcher (removeSelectedProfile) and of the manager,
\* whose rows outlive its window.
ConfirmDelete ==
    /\ Answering("confirm")
    /\ LET p == Last(dialogs).profile
           owner == Last(dialogs).owner
       IN  /\ p \in RowsOf(owner) \/ (owner = "manager" /\ ~manager.open)
           /\ \E id \in Profiles \cup {NoProfile} :
                 Publish([allRows EXCEPT ![p] = Absent], id, {p})
           /\ manager' = IF owner = "manager" THEN ReloadedIfOk ELSE manager
    /\ dialogs' = Front(dialogs)
    /\ UNCHANGED <<editor, timeouts>>

-----------------------------------------------------------------------------
\* The other windows.

\* Opening the manager, and each search, sort or filter in it.
ReloadManager ==
    /\ Input
    /\ manager' = [open |-> TRUE, rows |-> Saved(allRows)]
    /\ UNCHANGED <<store, allRows, editor, timeouts, dialogs, reported, deleted>>

CloseManager ==
    /\ Input
    /\ manager.open
    /\ manager' = NoManager
    /\ UNCHANGED <<store, allRows, editor, timeouts, dialogs, reported, deleted>>

\* rebuildForLanguage takes the rows of the store, after closing the other windows.
RebuildWindow ==
    /\ Input
    /\ IF Editing THEN EditorCloses(editor, timeouts, dialogs)
                  ELSE UNCHANGED <<editor, timeouts, dialogs>>
    /\ manager' = NoManager
    /\ allRows' = list
    /\ UNCHANGED <<store, reported, deleted>>

Next ==
    \/ StartUp \/ Exit
    \/ \E p \in Profiles :
          \/ ChangeProfile(p) \/ SelectProfile(p) \/ EditProfile(p)
          \/ \E owner \in Owners : MoveProfile(p, owner) \/ DeleteProfile(p, owner)
    \/ RequestGroup \/ ChangeGroup \/ FireMove \/ SaveEditor \/ CancelEditor
    \/ FireTimeout \/ AnswerDiscard \/ Dismiss \/ ConfirmDelete
    \/ ReloadManager \/ CloseManager \/ RebuildWindow

Spec == Init /\ [][Next]_vars

-----------------------------------------------------------------------------
\* The store's list and selection are those the next launch will load, whether the
\* saves before succeeded, failed, or were committed and reported as failed.
MemoryIsDatabase ==
    phase = "up" => list = db.rows /\ activeID \in Normalized(db.rows, db.active)

\* persistProfile's comment: "This avoids a false success where an edit appears active
\* until the next restart after a disk error": when the last save was reported as a
\* success, the rows of the window are those of the database.
NoFalseSuccess ==
    phase = "up" /\ reported = "ok" => allRows = db.rows

\* A profile whose deletion was reported as a success comes back only when some window
\* saves it again: not from the legacy file, the configuration or the defaults of a
\* first start, however often the program is started and killed.
DeletedStaysDeleted == deleted \cap Saved(db.rows) = {}

\* What is saved is a whole list (persistProfile, removeSelectedProfile), but it brings
\* back the profile the save is about at most: the other deleted ones stay out of it.
SavesProfile(p) ==
    \/ ChangeProfile(p) \/ \E owner \in Owners : MoveProfile(p, owner)
    \/ SaveEditor /\ editor.profile = p
    \/ FireMove /\ Head(timeouts).profile = p
RevivedBySaving == [][\A p \in deleted \ deleted' : SavesProfile(p)]_vars

\* Loading loses no profile of the database or the legacy file and changes none of the
\* database, wherever it fails or is killed.
Stored == Saved(db.rows) \cup IF legacy = NoFile THEN {} ELSE Saved(legacy)
LoadKeeps ==
    [][phase # "up" =>
          /\ Stored \subseteq Stored'
          /\ \A p \in Saved(db.rows) : db'.rows[p] = db.rows[p]]_vars

\* prepareProfileDeletion and canPersistEditorProfile: an editor that was opened on a
\* saved profile never brings it back after its deletion, even when the editor was
\* opened between the request to delete and its confirmation.
SavedEditorRespectsDeletion ==
    [][SaveEditor /\ ~editor.creating => deleted' = deleted]_vars

\* connection_editor_test.go: "an editor for a deleted saved profile must not recreate
\* it", however the editor came to be opened on it: no save that succeeds, and closes
\* the editor, does.
EditorNeverRecreates ==
    [][SaveEditor /\ ~Editing' => deleted' = deleted]_vars
=============================================================================
