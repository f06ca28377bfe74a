----------------------------- MODULE SessionTools ---------------------------
(***************************************************************************)
(* Two tools that work on the shared command line and the shared terminal  *)
(* while the tabs under them change:                                       *)
(*                                                                         *)
(*   - the arrow keys, which walk through the commands of the active tab's *)
(*     profile (guis/command_history_navigation.go) with a cursor per tab; *)
(*   - the find window (guis/terminal_find.go), which observes the         *)
(*     terminal and searches it again whenever its text changes.           *)
(*                                                                         *)
(* A command is named by the tab it was typed in, or is the default one.   *)
(* The history's file is HistoryStore's subject: here it is a sequence.  The   *)
(* widget's search is modelled by what it returns, the positions of the    *)
(* pieces that hit; a match is its position.                               *)
(***************************************************************************)
EXTENDS SessionController, Subsequences

CONSTANT MaxHistory   \* bound on the commands ever recorded

ASSUME ToolBounds == MaxHistory \in Nat

VARIABLES
    history,    \* the recorded commands, oldest first
    cursors,    \* a.commandHistory: tab -> its walk through the history
    find        \* the find window: whether it is open, its matches, the current one

tools == <<history, cursors, find>>
toolVars == <<vars, tools>>

DefaultCommand == MaxRuntimes + 1    \* pwd, which an empty line runs
NoCursor == [commands |-> <<>>, index |-> 0, draft |-> NoDraft, started |-> FALSE]
NoFind == [open |-> FALSE, matches |-> <<>>, index |-> 0]

ToolsInit(recorded) ==
    /\ Init
    /\ history = recorded
    /\ cursors = [id \in {} |-> NoCursor]
    /\ find = NoFind

-----------------------------------------------------------------------------
\* newCommandHistoryCursor: the profile's commands without repetitions in a row, and a
\* last position for the text being typed.
NewCursor(p) ==
    LET own == Subsequence(history, {e \in ToSet(history) : e.profile = p})
        distinct == {i \in DOMAIN own : i = 1 \/ own[i].command # own[i - 1].command}
        places == Subsequence([i \in DOMAIN own |-> i], distinct)
        commands == [n \in DOMAIN places |-> own[places[n]].command]
    IN  [commands |-> commands, index |-> Len(commands) + 1, draft |-> NoDraft,
         started |-> FALSE]

\* commandHistoryCursor.Move, of a cursor that has commands.
Moved(c, delta, draft) ==
    LET at == IF c.started THEN c ELSE [c EXCEPT !.draft = draft, !.started = TRUE,
                                               !.index = Len(c.commands) + 1]
        index == at.index + delta
    IN  IF index \in 1..(Len(c.commands) + 1) THEN [at EXCEPT !.index = index] ELSE at
Line(c) == IF c.index \in DOMAIN c.commands THEN c.commands[c.index] ELSE c.draft

\* Search, and Refresh after the terminal's text has changed: the same match if it is
\* still there, else one at the same place in the order, else the first.
Search(text) ==
    LET hits == {n \in DOMAIN text : text[n].hit}
    IN  [open |-> TRUE, matches |-> Subsequence([n \in DOMAIN text |-> n], hits),
         index |-> IF hits = {} THEN 0 ELSE 1]

\* Variant: the place in the order is kept even when there are fewer matches.
RefreshUnbounded(f, text) ==
    LET new == Search(text)
    IN  IF new.matches # <<>> /\ f.index # 0 THEN [new EXCEPT !.index = f.index] ELSE new

Refresh(f, text) ==
    LET new == Search(text)
        same == {i \in DOMAIN new.matches :
                    f.index \in DOMAIN f.matches /\ new.matches[i] = f.matches[f.index]}
    IN  CASE same # {} -> [new EXCEPT !.index = Min(same)]
          [] same = {} /\ f.index \in DOMAIN new.matches -> [new EXCEPT !.index = f.index]
          [] OTHER -> new

-----------------------------------------------------------------------------
\* A handler that draws the active tab's terminal again clears the widget first; the
\* observer may be told of that as well.
Redraws ==
    /\ find' \in IF find.open
                 THEN {Refresh(find, screen'), Refresh(Refresh(find, <<>>), screen')}
                 ELSE {find}
    /\ UNCHANGED <<history, cursors>>

Keeps == UNCHANGED tools

\* A command is recorded for the profile of its tab.  An append that fails is only
\* logged: here, those beyond the bound.
Recorded(id, command) ==
    IF Len(history) < MaxHistory
    THEN Append(history, [profile |-> TabOf(workspace, id).profile, command |-> command])
    ELSE history

Tabbing ==
    \/ /\ \/ \E p \in Profiles : OpenSession(p) \/ TestProfile(p)
          \/ ReopenSession \/ DuplicateSession \/ ClearOutput
          \/ \E id \in Tabs :
                \/ id # ActiveID(workspace) /\ SelectSession(id)
                \/ CloseSession(id)
                \/ \E mode \in BatchModes : CloseBatch(id, mode)
       /\ Redraws
    \/ /\ \/ \E id \in Tabs :
                \/ SelectSession(ActiveID(workspace)) \/ TogglePinned(id) \/ ShellExits(id)
                \/ \E target \in Tabs : MoveSession(id, target)
          \/ Reconnect \/ StopCommand
          \/ \E k \in workers : CompleteRun(k)
       /\ Keeps

\* A command that returns is recorded.
Execute(k) ==
    /\ ExecuteCommand(k)
    /\ history' = Recorded(k.session, k.session)
    /\ UNCHANGED <<cursors, find>>

\* A language change closes the find window with the others.
Rebuild ==
    /\ RebuildWindow
    /\ find' = NoFind
    /\ UNCHANGED <<history, cursors>>

\* Output appended to the terminal; the find window shows the new count but moves
\* nothing.
Written(id, hit) ==
    /\ Output(id, hit)
    /\ find' = IF find.open /\ screen' # screen THEN Refresh(find, screen') ELSE find
    /\ UNCHANGED <<history, cursors>>

-----------------------------------------------------------------------------
Forget(c, id) == [other \in DOMAIN c \ {id} |-> c[other]]

\* A key that edits the command line ends the tab's walk; the mouse does not.
EditLine(key) ==
    /\ TypeText
    /\ cursors' = IF key THEN Forget(cursors, ActiveID(workspace)) ELSE cursors
    /\ UNCHANGED <<history, find>>

\* The Enter key ends the walk and runs the line; the Run button only runs it.
RunLine(key) ==
    /\ RunCommand
    /\ history' = Recorded(ActiveID(workspace),
                           IF input = NoDraft THEN DefaultCommand ELSE input)
    /\ cursors' = IF key THEN Forget(cursors, ActiveID(workspace)) ELSE cursors
    /\ UNCHANGED find

\* Variant: the walk belongs to the profile, whose tabs share it.
WalkerOfProfile(id) ==
    Min({other \in IDs(workspace) :
            TabOf(workspace, other).profile = TabOf(workspace, id).profile})

\* The walk an arrow key continues is the active tab's own.
Walker(id) == id

\* handleCommandInputKey for Up (-1) and Down (1).
ArrowKey(delta) ==
    /\ workspace.active # 0
    /\ LET id == ActiveID(workspace)
           walker == Walker(id)
           cursor == IF walker \in DOMAIN cursors THEN cursors[walker]
                     ELSE NewCursor(TabOf(workspace, id).profile)
           moved == IF cursor.commands = <<>> THEN cursor ELSE Moved(cursor, delta, input)
           line == IF cursor.commands = <<>> THEN input ELSE Line(moved)
       IN  /\ cursors' = [other \in DOMAIN cursors \cup {walker} |->
                             IF other = walker THEN moved ELSE cursors[other]]
           /\ input' = line
           /\ workspace' = SetActiveDraft(workspace, line)
    /\ UNCHANGED <<screen, shells, printed, runRecords, history, find>>

-----------------------------------------------------------------------------
\* The find window is opened, or its query changed, and searches; the query of the
\* model stays the same.
OpenFind ==
    /\ find' = Search(screen)
    /\ UNCHANGED <<vars, history, cursors>>

CloseFind ==
    /\ find.open
    /\ find' = NoFind
    /\ UNCHANGED <<vars, history, cursors>>

\* Next and Previous go round.
Navigate(delta) ==
    /\ find.open
    /\ find.matches # <<>>
    /\ find' = [find EXCEPT !.index = ((@ - 1 + delta) % Len(find.matches)) + 1]
    /\ UNCHANGED <<vars, history, cursors>>

ToolsNext ==
    \/ Tabbing \/ Rebuild
    \/ \E k \in workers : Execute(k)
    \/ \E id \in Tabs, hit \in BOOLEAN : Written(id, hit)
    \/ \E key \in BOOLEAN : EditLine(key) \/ RunLine(key)
    \/ \E delta \in {-1, 1} : ArrowKey(delta) \/ Navigate(delta)
    \/ OpenFind \/ CloseFind

-----------------------------------------------------------------------------
\* A line is a tab's own if it is empty, was typed there, or is a command of its
\* profile's history.
Own(tab, line) ==
    \/ line \in {NoDraft, tab.id}
    \/ \E i \in DOMAIN history : history[i] = [profile |-> tab.profile, command |-> line]

\* A text typed in one tab never turns up in another - neither in its draft nor on
\* the command line while the other is active, nor by walking up and down while tabs
\* are switched, moved and closed - unless it was run as a command of its profile.
LinesPrivate ==
    /\ IF workspace.active = 0
       THEN input = NoDraft
       ELSE Own(workspace.tabs[workspace.active], input)
    /\ \A i \in DOMAIN workspace.tabs : Own(workspace.tabs[i], workspace.tabs[i].draft)

\* The find window counts exactly what the terminal shows, and its current match is one
\* of them as long as there is any.
FindAccurate ==
    find.open =>
        /\ find.matches = Search(screen).matches
        /\ IF find.matches = <<>> THEN find.index = 0 ELSE find.index \in DOMAIN find.matches
=============================================================================
