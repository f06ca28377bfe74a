-------------------------- MODULE SessionController -------------------------
(***************************************************************************)
(* The window's session handlers (guis/guis.go, terminal_context_menu.go,  *)
(* interactive_gui.go): the GUI thread runs one handler at a time on the   *)
(* workspace, the shared command line and the set of running commands,     *)
(* while one goroutine per command executes it and posts its completion    *)
(* back to the GUI thread.                                                 *)
(*                                                                         *)
(* There is one command line and one terminal widget for all tabs:         *)
(* syncActiveSessionView saves them into the active tab and                *)
(* renderActiveSession loads them from there, and the handlers must call   *)
(* the two in the right places.  Typing a text marks it with the ID of the *)
(* tab it was typed in, and output carries the ID of its tab.  Messages    *)
(* the program itself writes into a terminal are left out.                 *)
(***************************************************************************)
EXTENDS SessionWorkspace

CONSTANTS Scrollback,    \* pieces the terminal widget retains, 10000 rows in the code
          MaxRuntimes,   \* bound on the number of tabs ever opened
          MaxRuns,       \* bound on the number of commands ever run
          MaxOutput      \* bound on the pieces of output ever produced

ASSUME ControllerBounds ==
    /\ Scrollback \in Nat \ {0}
    /\ {MaxRuntimes, MaxRuns, MaxOutput} \subseteq Nat

VARIABLES
    workspace,   \* a.sessions
    input,       \* a.cmdInput.Text(), as the ID of the tab it was typed in
    screen,      \* the text of a.output, the terminal widget
    shells,      \* tabs whose shell runs: a.interactive.Has
    printed,     \* pieces of output produced so far
    runs,        \* a.runs: tab -> ID of its running command, NoRun if none
    lastRun,     \* a.runID
    workers      \* goroutines of commands that have not completed

view == <<workspace, input, screen>>
runRecords == <<runs, lastRun, workers>>
vars == <<view, shells, printed, runRecords>>

Tabs == 1..MaxRuntimes
Results == {"executing"} \cup FinalStatuses
Worker == [session : Tabs, run : 1..MaxRuns, cancelled : BOOLEAN, result : Results]
BatchModes == {"others", "left", "right"}

TypeOK ==
    /\ workspace \in Workspace
    /\ workspace.active \in 0..Len(workspace.tabs)
    /\ workspace.active = 0 <=> workspace.tabs = <<>>
    /\ Len(workspace.closed) <= ClosedLimit
    /\ input \in Nat
    /\ screen \in Seq(Piece) /\ Len(screen) <= Scrollback
    /\ shells \subseteq IDs(workspace)
    /\ printed \in 0..MaxOutput
    /\ runs \in [Tabs -> 0..MaxRuns]
    /\ lastRun \in 0..MaxRuns
    /\ workers \subseteq Worker

Init ==
    /\ workspace = EmptyWorkspace
    /\ input = NoDraft
    /\ screen = <<>>
    /\ shells = {}
    /\ printed = 0
    /\ runs = [id \in Tabs |-> NoRun]
    /\ lastRun = NoRun
    /\ workers = {}

-----------------------------------------------------------------------------
\* What the handlers do to the workspace, the command line and the terminal, as
\* operators on the three together.
View == [ws |-> workspace, input |-> input, screen |-> screen]

\* What the widget retains of an output.
Retained(output) == SubSeq(output, Max({1, Len(output) - Scrollback + 1}), Len(output))

\* syncActiveSessionView: an interactive tab has its output in the workspace already.
Sync(v) ==
    LET drafted == SetActiveDraft(v.ws, v.input)
    IN  [v EXCEPT !.ws = IF ActiveID(v.ws) \in shells
                         THEN drafted
                         ELSE SetActiveOutput(drafted, v.screen)]

\* renderActiveSession.
Render(v) ==
    IF v.ws.active \in DOMAIN v.ws.tabs
    THEN LET tab == v.ws.tabs[v.ws.active]
         IN  [v EXCEPT !.input = tab.draft, !.screen = Retained(tab.output)]
    ELSE [v EXCEPT !.input = NoDraft, !.screen = <<>>]

\* Variant: the command line is saved after the selection has changed.
SelectTabLate(v, id) ==
    IF id = ActiveID(v.ws)
    THEN v
    ELSE Render(Sync([v EXCEPT !.ws = Select(@, IndexOf(@, id))]))

\* selectSessionTab, which ignores the tab that is active already.
SelectTab(v, id) ==
    IF id = ActiveID(v.ws)
    THEN v
    ELSE LET synced == Sync(v).ws
         IN  Render([v EXCEPT !.ws = Select(synced, IndexOf(synced, id))])

\* openSession up to the start of the tab's transport.
OpenTab(v, p) == Render([v EXCEPT !.ws = Open(Sync(v).ws, p)])

\* closeSessionByID: a tab that is gone is left alone and a pinned one refused at once;
\* the command line is saved only if its own tab is to be closed, even when the workspace
\* then refuses.
CloseTab(v, id) ==
    LET saved == IF id = ActiveID(v.ws) THEN Sync(v).ws ELSE v.ws
    IN  IF id \notin IDs(v.ws) \/ TabOf(v.ws, id).pinned
        THEN v
        ELSE IF CanClose(v.ws, IndexOf(v.ws, id))
             THEN Render([v EXCEPT !.ws = Close(saved, IndexOf(saved, id))])
             ELSE [v EXCEPT !.ws = saved]

\* batchCloseSessionIDs: the tabs a batch is about, pinned ones spared.
Affected(w, target, mode) ==
    LET place == IndexOf(w, target)
    IN  {w.tabs[i].id : i \in {j \in DOMAIN w.tabs :
            /\ j # place
            /\ mode = "left" => j < place
            /\ mode = "right" => j > place
            /\ ~w.tabs[j].pinned}}

\* closeSessionBatch: last tab first, each resolved by its ID; closing the others
\* ends by activating the target.
CloseTabs(v, target, mode) ==
    LET tabs == v.ws.tabs
        closing == Affected(v.ws, target, mode)
        after[n \in 0..Len(tabs)] ==
            IF n = 0 THEN v
            ELSE LET id == tabs[Len(tabs) - n + 1].id
                 IN  IF id \in closing THEN CloseTab(after[n - 1], id) ELSE after[n - 1]
        closed == after[Len(tabs)]
    IN  IF mode = "others" THEN SelectTab(closed, target) ELSE closed

\* Every handler publishes a view; the shells of closed tabs are closed.
Publish(v) ==
    /\ workspace' = v.ws
    /\ input' = v.input
    /\ screen' = v.screen
Show(v) ==
    /\ Publish(v)
    /\ shells' = shells \cap IDs(v.ws)
    /\ UNCHANGED printed

\* A new tab starts its shell, which may fail.
ShowNew(v) ==
    /\ Publish(v)
    /\ shells' \in {shells, shells \cup {ActiveID(v.ws)}}
    /\ UNCHANGED printed

-----------------------------------------------------------------------------
CanOpen == workspace.next < MaxRuntimes

OpenSession(p) ==
    /\ CanOpen
    /\ ShowNew(OpenTab(View, p))
    /\ UNCHANGED runRecords

ReopenSession ==
    /\ CanOpen
    /\ CanReopenClosed(workspace)
    /\ ShowNew(Render([View EXCEPT !.ws = ReopenLastClosed(Sync(View).ws)]))
    /\ UNCHANGED runRecords

DuplicateSession ==
    /\ CanOpen
    /\ workspace.active # 0
    /\ ShowNew(Render([View EXCEPT !.ws = DuplicateActive(Sync(View).ws)]))
    /\ UNCHANGED runRecords

SelectSession(id) ==
    /\ id \in IDs(workspace)
    /\ Show(SelectTab(View, id))
    /\ UNCHANGED runRecords

MoveSession(id, target) ==
    /\ CanMove(workspace, id, target)
    /\ Show([View EXCEPT !.ws = Move(Sync(View).ws, id, target)])
    /\ UNCHANGED runRecords

TogglePinned(id) ==
    /\ id \in IDs(workspace)
    /\ Show([View EXCEPT !.ws = SetPinned(@, id, ~TabOf(@, id).pinned)])
    /\ UNCHANGED runRecords

CloseSession(id) ==
    /\ id \in IDs(workspace)
    /\ Show(CloseTab(View, id))
    /\ UNCHANGED runRecords

\* A batch is refused as a whole when one of its tabs is running.
CloseBatch(target, mode) ==
    /\ target \in IDs(workspace)
    /\ LET ids == Affected(workspace, target, mode)
       IN  ids # {} /\ \A id \in ids : TabOf(workspace, id).status # "running"
    /\ Show(CloseTabs(View, target, mode))
    /\ UNCHANGED runRecords

\* reconnectActiveSession: a shell that runs is replaced and one that is gone started;
\* a failure leaves the tab as it is.
Reconnect ==
    /\ workspace.active # 0
    /\ workspace' = Sync(View).ws
    /\ shells' \in {shells, shells \cup {ActiveID(workspace)}}
    /\ UNCHANGED <<input, screen, printed, runRecords>>

\* applyLanguage rebuilds the window over the same workspace.
RebuildWindow ==
    /\ Show(Render(Sync(View)))
    /\ UNCHANGED runRecords

\* The user types, or recalls the last command of the profile.
TypeText ==
    /\ workspace.active # 0
    /\ input' \in {NoDraft, ActiveID(workspace)}
    /\ UNCHANGED <<workspace, screen, shells, printed, runRecords>>

\* runCommand with a tab open: runInteractiveCommand writes the line to the tab's
\* shell, which it starts when it is gone, and clears the command line; a failed start
\* or write leaves both alone.  With no tab open it opens the selected profile's
\* first, which is OpenSession.
RunCommand ==
    /\ workspace.active # 0
    /\ workspace' = SetActiveDraft(workspace, NoDraft)
    /\ input' = NoDraft
    /\ shells' = shells \cup {ActiveID(workspace)}
    /\ UNCHANGED <<screen, printed, runRecords>>

-----------------------------------------------------------------------------
\* appendSessionOutput: a piece from the shell or the command of a tab, which the
\* widget shows as well when the tab is the active one.
Output(id, hit) ==
    /\ id \in IDs(workspace)
    /\ id \in shells \/ runs[id] # NoRun
    /\ printed < MaxOutput
    /\ printed' = printed + 1
    /\ LET piece == [tab |-> id, hit |-> hit]
       IN  /\ workspace' = AppendOutput(workspace, id, piece)
           /\ screen' = IF id = ActiveID(workspace)
                        THEN Retained(Append(screen, piece))
                        ELSE screen
    /\ UNCHANGED <<input, shells, runRecords>>

\* clearTerminalOutput, of the active tab.
ClearOutput ==
    /\ workspace' = SetActiveOutput(workspace, <<>>)
    /\ screen' = <<>>
    /\ UNCHANGED <<input, shells, printed, runRecords>>

\* The exit callback of drainInteractiveOutput: the registry forgets the shell.
ShellExits(id) ==
    /\ id \in shells
    /\ shells' = shells \ {id}
    /\ UNCHANGED <<view, printed, runRecords>>

-----------------------------------------------------------------------------
\* beginCommandRunForSession and BeginRun on the active tab, then the goroutine;
\* the tab's saved draft becomes the command while the command line keeps its text.
StartRun(v) ==
    LET id == ActiveID(v.ws)
    IN  /\ runs[id] = NoRun
        /\ CanBeginRun(v.ws)
        /\ lastRun' = lastRun + 1
        /\ runs' = [runs EXCEPT ![id] = lastRun + 1]
        /\ workers' = workers \cup
              {[session |-> id, run |-> lastRun + 1, cancelled |-> FALSE,
                result |-> "executing"]}
        /\ ShowNew([v EXCEPT !.ws = SetActiveDraft(BeginRun(@, lastRun + 1), id)])

\* testProfile: a fresh tab for the profile, then runAsync in it.
TestProfile(p) ==
    /\ CanOpen
    /\ lastRun < MaxRuns
    /\ StartRun(OpenTab(View, p))

\* The command returns; only a cancelled one may report context.Canceled.
ExecuteCommand(k) ==
    /\ k.result = "executing"
    /\ \E r \in FinalStatuses :
          /\ r = "stopped" => k.cancelled
          /\ workers' = (workers \ {k}) \cup {[k EXCEPT !.result = r]}
    /\ UNCHANGED <<view, shells, printed, runs, lastRun>>

\* Variant: the completion is reported without updating the tab.
CompleteRunQuietly(k) ==
    /\ k.result # "executing"
    /\ workers' = workers \ {k}
    /\ UNCHANGED <<view, shells, printed, runs, lastRun>>

\* The completion callback on the GUI thread: finishCommandRun, updateSessionTab.
CompleteRun(k) ==
    /\ k.result # "executing"
    /\ workers' = workers \ {k}
    /\ IF runs[k.session] = k.run
       THEN /\ runs' = [runs EXCEPT ![k.session] = NoRun]
            /\ workspace' = FinishRun(workspace, k.run, k.result)
       ELSE UNCHANGED <<workspace, runs>>
    /\ UNCHANGED <<input, screen, shells, printed, lastRun>>

\* stopCommand: a tab's shell is interrupted, if it has one; otherwise its command is
\* cancelled, cancelCommandRun.
StopCommand ==
    /\ ActiveID(workspace) \notin shells
    /\ \E k \in workers :
          /\ k.session = ActiveID(workspace)
          /\ runs[k.session] = k.run
          /\ ~k.cancelled
          /\ workers' = (workers \ {k}) \cup {[k EXCEPT !.cancelled = TRUE]}
    /\ UNCHANGED <<view, shells, printed, runs, lastRun>>

Next ==
    \/ \E p \in Profiles : OpenSession(p) \/ TestProfile(p)
    \/ ReopenSession \/ DuplicateSession \/ Reconnect \/ RebuildWindow \/ ClearOutput
    \/ \E id \in Tabs :
          \/ SelectSession(id) \/ TogglePinned(id) \/ CloseSession(id) \/ ShellExits(id)
          \/ \E hit \in BOOLEAN : Output(id, hit)
          \/ \E target \in Tabs : MoveSession(id, target)
          \/ \E mode \in BatchModes : CloseBatch(id, mode)
    \/ TypeText \/ RunCommand \/ StopCommand
    \/ \E k \in workers : ExecuteCommand(k) \/ CompleteRun(k)

\* A command's context has a deadline (commandTimeout), so it returns, and the GUI
\* loop runs the callback it posts.  Users are free to stop acting.
Fairness == \A id \in Tabs :
    WF_vars(\E k \in workers : k.session = id /\ (ExecuteCommand(k) \/ CompleteRun(k)))

Spec == Init /\ [][Next]_vars
FairSpec == Spec /\ Fairness

-----------------------------------------------------------------------------
\* Pinned tabs stay in front of ordinary ones through every reordering (Move's
\* comment: "Pinned and ordinary partitions cannot be crossed").
PinnedFirst ==
    \A i, j \in DOMAIN workspace.tabs :
        i < j /\ workspace.tabs[j].pinned => workspace.tabs[i].pinned

\* A runtime ID names one tab, and two tabs of a profile never show the same
\* instance number, however tabs are closed, duplicated and reopened.
TabsDistinct ==
    \A i, j \in DOMAIN workspace.tabs : i # j =>
        /\ workspace.tabs[i].id # workspace.tabs[j].id
        /\ \/ workspace.tabs[i].profile # workspace.tabs[j].profile
           \/ workspace.tabs[i].instance # workspace.tabs[j].instance

\* Three records of a running command agree: the tab shows it running, a.runs holds
\* its cancel function, and its goroutine is still to report; so no command outlives
\* its tab and no tab is left running.
RunsAgree ==
    \A id \in Tabs, r \in 1..MaxRuns :
        LET shown == \E i \in DOMAIN workspace.tabs :
                        /\ workspace.tabs[i].id = id
                        /\ workspace.tabs[i].run = r
                        /\ workspace.tabs[i].status = "running"
        IN  /\ runs[id] = r <=> shown
            /\ runs[id] = r <=> \E k \in workers : k.session = id /\ k.run = r

\* The terminal shows the active tab's output, as much of it as it retains, and what
\* one tab's shell or command has written never turns up in another tab, whichever
\* of the two copies the handlers save, replay or append to.
OutputPrivate ==
    /\ screen = IF workspace.active = 0
                THEN <<>>
                ELSE Retained(workspace.tabs[workspace.active].output)
    /\ \A i \in DOMAIN workspace.tabs :
          \A n \in DOMAIN workspace.tabs[i].output :
              workspace.tabs[i].output[n].tab = workspace.tabs[i].id

\* The active tab is the user's choice: reordering, pinning, commands that start or
\* complete and the closing of other tabs never make a different tab active.  Only
\* "close others" activates a tab, the one it keeps.
Strip(w) == [i \in DOMAIN w.tabs |-> <<w.tabs[i].id, w.tabs[i].pinned, w.tabs[i].status>>]
SelectionKept ==
    [][/\ Strip(workspace') # Strip(workspace)
       /\ IDs(workspace') \subseteq IDs(workspace)
       /\ ActiveID(workspace) \in IDs(workspace')
       /\ ActiveID(workspace') # ActiveID(workspace)
       => \E id \in Tabs : CloseBatch(id, "others")]_vars

\* Every command that starts is eventually reported: no tab stays running for ever.
RunsReported ==
    \A r \in 1..MaxRuns : (\E id \in Tabs : runs[id] = r) ~> (\A id \in Tabs : runs[id] # r)

\* closeSessionAt's comment: "Background tabs close without first becoming active,
\* preserving the user's current terminal and draft."
BackgroundCloseKeepsDraft ==
    [][\A id \in Tabs :
          CloseSession(id) /\ id # ActiveID(workspace) => input' = input]_vars
=============================================================================
