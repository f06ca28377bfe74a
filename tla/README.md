# NBTerminal, specified

NBTerminal is a desktop terminal written in Go on the FLTK toolkit: saved connections,
tabs with local and SSH shells, commands with their history, and a resource monitor.
These modules model the parts of it that hold state and run concurrently, fail half-way
or are used in an order nobody planned. TLC checks them on small instances; most of the
properties they check are proved for every instance, with proofs that TLAPS checks.

## The system

One GUI thread runs one handler at a time. Everything else is a goroutine that reports
back by posting a callback to it (`fltk_bridge.Awake`, `AddTimeout`). Three things break
this order, and most of the hazards come from them: a native prompt runs the event loop
inside a handler, so that callbacks run in the middle of it; a handler may block the GUI
thread on a lock or on a goroutine that ends; and the program may be killed between two
writes.

| Component | State | Operations | Interacts with |
| --- | --- | --- | --- |
| Output batcher (`guis/guis.go`) | pending text, completion functions, the flag `scheduled` | `Enqueue`, `AfterFlush`, `drain` | command and shell goroutines, GUI queue |
| Session workspace (`guis/session_workspace.go`) | tabs in order, the active one, closed profiles | open, select, move, pin, close, reopen, duplicate, begin and finish a run | owned by the session controller |
| Session controller (`guis/guis.go`, `terminal_context_menu.go`, `settings.go`) | the one command line, the one terminal, the running commands | the handlers of tabs, run, test, stop, clear and reconnect | workspace, command goroutines, shells |
| Interactive runtime (`guis/interactive_runtime.go`, `interactive_gui.go`) | which shell serves which tab | start, replace, release, close | shells, host-key prompt, GUI queue |
| SSH shell (`terminal/ssh_pty.go`) | connection, output channel, five goroutines, one mutex | start, write, close | GUI thread, drainer |
| Local shell (`terminal/local_pty_unix.go`) | process, PTY, output channel, three goroutines, one mutex | the same | the same, and the jobs the shell leaves behind |
| Host key store (`terminal/ssh_host_key.go`, `internal/persistence/atomic.go`) | the file known_hosts, a mutex | verify, trust | connection attempts, prompt |
| Host monitor (`hostmonitor/session.go`, `guis/host_monitor_ui.go`) | a snapshot and a channel per local tab, one sidebar | sample, publish, stop; show | tabs, GUI queue |
| Connection store (`guis/guis.go`, `connection_store_sqlite.go`) | list and selection, the database, older files | load and migrate, save, select | every window |
| Windows on it (`connection_editor.go`, `connection_manager.go`, `group_*.go`, ...) | copies of the rows, one editor, deferred work, prompts | edit, delete, move, rename, select | connection store, each other |
| Command history (`terminal/log.go`, `internal/database`) | a file of older versions, a table | append, migrate, load | sessions, start of the program |
| Command executor (`terminal/executor.go`, `session.go`, `scanner.go`, `process_cancel_*.go`) | processes, pipes or an SSH session, the collected events | run, cancel, record | batcher, history |
| History navigation (`guis/command_history_navigation.go`) | a cursor per tab and the draft it hides | up, down, drop | command line, history |
| Find (`guis/terminal_find.go`) | the matches and the current one | search, refresh, next | the one terminal |
| Launcher and search (`guis/guis.go`) | query, rows, selected row | type, select, open, edit | connection store, settings |
| Settings (`guis/settings.go`, `config/config.go`) | a file, its copy in memory, the open window | save, zoom, set a preference, load | launcher, terminals |
| Master key (`internal/security/keystore.go`) | a file | read, create | start of the program, database |
| Export, shortcuts, HTTP API, localisation | a file or a value each | | |

`PROJECT.json` lists every component with its state of modelling, and under `hazards`
what can go wrong in this code that a test would hardly reach, each at its line with the
properties that cover it.

## The modules

| Module | Models | Remarks |
| --- | --- | --- |
| `OrderedOutput` | what the batcher promises: a stream shown in order, a completion after the output before it | abstract |
| `OutputBatcher` | `guiOutputBatcher`, one action per critical section | implements `OrderedOutput` |
| `SessionWorkspace` | `sessionWorkspace`, a value with operators for its methods | used by the next |
| `SessionController` | the handlers, the shared command line and terminal, the goroutines of commands | extends the one above |
| `SessionTools`, `MCSessions`, `SessionProofs` | the arrow keys in the history and the find window, while the tabs under them change | extends the one above; the theorems are about the three together |
| `InteractiveRuntime` | the registry of shells with the handlers that change it, the nested loop of the host-key prompt included | |
| `TerminalProofs` | | the theorems about `OutputBatcher` and `InteractiveRuntime` |
| `InteractiveShell` | what a shell promises the window: output once and in order, the exit last | abstract |
| `TerminalTransport` | what the two shells have in common: fields under one mutex, the GUI thread's calls, the watcher of the context, the drainer | used by the next two |
| `SSHPTYSession` | the remote shell: two readers, the waiter, hang-up by closing the connection | |
| `LocalPTYSession` | the local shell: one reader on a blocking descriptor, signals and a timer, jobs that outlive it | |
| `MCShells`, `ShellProofs` | either of the two | implements `InteractiveShell` |
| `FirstUseTrust` | what a key store promises: the first key trusted for a host stays | abstract |
| `HostKeyStore` | verifying, prompting and trusting by several attempts, crashes and failing writes | implements `FirstUseTrust` |
| `MasterKey` | the creation of the master key by racing processes that are killed, fail to sync and lose power | |
| `MCKeyFiles`, `KeyFilesProofs` | the two files with keys side by side | |
| `ConnectionSearch` | the search as operators: what a term, a clause and a query match, and the rows of the launcher | used by `QuickLauncher` |
| `Settings` | the configuration file, its memory and its writers | used by `QuickLauncher` |
| `QuickLauncher`, `MCMainWindow`, `MainWindowProofs` | the launcher of the main window over the store, next to the settings | implements `SettingsSpec`; the theorems are about the launcher, the settings and `HostMonitor` |
| `HostMonitor`, `MCHostMonitor` | samplers, their channels of capacity one, forwarders, the GUI queue and the sidebar | |
| `ConnectionStore` | load with migration, save, select, on transactions that fail and a program that is killed | used by the next |
| `ConnectionWindows`, `MCConnectionWindows`, `ConnectionWindowsProofs` | launcher, manager and editor with their copies, deferred callbacks and nested prompts | extends the one above |
| `Subsequences`, `LibraryProofs` | the elements of a sequence in a set, in their order; lemmas on these, on sorting and on sums | used by what filters, and by the proofs |
| `HistoryStore` | appending to the file of older versions with its repair, migration, appending to and loading from the table | used by `CommandSession` |
| `CommandExecutor` | one command: the processes, two scanners or collectors, the channel, cancellation, lost connections | used by `CommandSession` |
| `CommandSession`, `CommandSessionProofs` | `Session.RunCommand`: a command is run, then recorded | extends the two above |

A module's actions carry the names of the functions they model where these have one; the
`map` of `PROJECT.json` gives the lines of each definition. What a handler does without
letting anything in is one action, together with every call that it makes. What a
goroutine does between two points where another may act is one action. Texts, profiles and
samples are model values or numbers: a typed text is the number of the tab it was typed in,
a piece of a terminal's text is its number and the tab it belongs to, a sample its revision, a
chunk of a shell its place in its stream, a line of output the interval of pieces it was made of,
a name that is searched a short sequence of numbers. A definition that is commented as a variant is not used: it is
what a plausible mistake in the code would make of the definition after it, and shows that
the property it goes with depends on the code being right.

## The runs

Every run but three must pass. The states are those TLC finds.

| Run | States | Shows |
| --- | --- | --- |
| `output_batcher` | 35 362 | `SingleCallback`, and `OrderedDelivery`: the ordered stream with its progress is implemented |
| `sessions` | 118 166 | `PinnedFirst`, `TabsDistinct`, `SelectionKept`; `LinesPrivate` (a text never turns up in another tab); `OutputPrivate` (nor does output); `FindAccurate`; `RunsAgree` (three records of a running command) and `RunsReported` |
| `shells` | 139 340 | `NoSendAfterClose`, `ImplementsShell`, `CloseIsReported`, of both backends |
| `key_files` | 130 408 | `ConnectedIsApproved`, `TrustKept`: trust on first use is implemented; `OneMasterKey`, `KeyKept` |
| `main_window` | 49 708 | `RowsFresh`, `SearchSound`, `StartupKeepsActive`; `SettingsInForce`, `WindowCurrent` |
| `host_monitor` | 265 292 | `SidebarIsActiveTab`, `LatestShown`, `MonitorsAgree`, `StopEnds` |
| `interactive_runtime` | 58 254 | `ExclusiveOwnership`, `NoOrphan`, `RunningKept`, `ExitReleased` |
| `connection_windows` | 434 418 | `MemoryIsDatabase`, `NoFalseSuccess`, `DeletedStaysDeleted`, `LoadKeeps`, `SavedEditorRespectsDeletion` |
| `command_session` | 309 488 | `KeptEntriesStored`, `Chronological`, `LoadsNewest`, `ResultComplete`, `CommandReturns` |
| `background_close` | - | violates `BackgroundCloseKeepsDraft` |
| `ssh_working_dir` | - | violates `FailedStartReturns` |
| `editor_recreates` | - | violates `EditorNeverRecreates` |

Where a module states a type invariant it is not repeated in its run. Those of `OutputBatcher`,
`HostKeyStore`, `InteractiveRuntime`, `MasterKey`, `Settings`, `HostMonitor`, `CommandSession`,
`SessionController` and `ConnectionWindows` are proved, and `LauncherInv` contains those of
`QuickLauncher`'s variables.

### The disagreements

- Closing a background tab: the comment of `closeSessionAt` says that it preserves "the
  user's current terminal and draft". The command line is reloaded from the active tab's
  saved draft, which what was typed since has not been saved to. TLC types in one of two
  tabs and closes the other.
- `sshPTYSession.Start` with a working directory: when the `cd` command cannot be written,
  `Start` calls `Close` with the mutex held that `Close` locks. The GUI thread never
  returns. Fairness is assumed for every goroutine and the thread itself
  (`FailingSpec`), so the counterexample is the lock and nothing else.
- A profile deleted in the launcher stays in the rows of an open manager. Editing it there
  opens an editor that takes it for a new profile and saves it again, although
  `prepareProfileDeletion` and a test say that an editor must not recreate one.

Three more that no run is spent on, since the sentence they are measured by speaks of less:

- `navigatorRowsWithSelection` exists to prevent "startup table selection from silently replacing
  the persisted active profile with the first quick-launch row". `rebuildForLanguage` builds the
  window from `navigatorRows`, without the active profile: a change of language replaces an active
  profile that is not among the dozen rows. `StartupKeepsActive` is about the start only. Opening a
  profile from a search that no longer finds it once it has been used selects the first row, too.
- `persistSettingsDraft` promises that "the running UI and restart state cannot diverge" after a
  failed write. `AtomicWriteFile` can fail after the file is replaced, and then they do.
  `SettingsInForce` makes this exception.
- A history cursor "restores exactly what was being typed". Only keys drop the cursor: after the Run
  button Down still restores the text that was typed before it, which has been run since.

### Bounds

- `output_batcher`: two callers, four `Enqueue` and two `AfterFlush`. drain has two windows
  in which output may arrive; both can be hit twice.
- `sessions`: four scenarios of one next-state relation, each with what its question needs, as all
  of it together is out of reach. "tabs": four tabs of one profile - three are needed for a tab to
  move over another while a third is active, and a fourth for a reopened one. "runs": two tabs, two
  commands, one of which may be a test, and shells. "history": two tabs of the same or of two
  profiles, two commands to walk through. "output": two tabs, three pieces of output in a terminal
  that retains two, so that rows are dropped under an open find window.
- `shells`: two chunks per stream through a channel of one, so that readers block on it; one
  repeated Start, one write; a job that may outlive the local shell.
- `key_files`: two attempts, two hosts, two keys: a conflict is between two prompts. Three
  processes and two master keys: one process that makes the file, one that reads it, and a third
  started after either has died.
- `main_window`: again scenarios. "launcher": three profiles in a launcher of two rows, the names
  of which equal, begin with or contain what is searched, six queries, two uses, one profile that
  differs from what it was. "settings": the language, the preference and the font size, of which
  there are three and values out of range on both sides, no profiles. "both": the stock of profiles
  while languages and StartWithFirstConnection are changed.
- `host_monitor`: two monitored tabs and another; two samples of one, so that an update is
  displaced.
- `interactive_runtime`: two tabs, three transports: a replacement that is replaced.
- `connection_windows`: two profiles, two contents, two callbacks queued by the user on top
  of those that callbacks queue. The editor of one profile can be replaced by the other's
  while a deletion of either is put off and a prompt is open.
- `command_session`: two connections, three records, one command of three pieces of output,
  with a channel of one and a pipe of two. The command starts before any record and may see
  one of another session (`MaxBefore`, `MaxDuring`); afterwards the history goes on through
  starts, stops and migrations.

No run uses symmetry or a state constraint; the bounds are guards, those of a scenario (`Within`)
a conjunct of its next-state relation.

### Fairness

- Goroutines and posted callbacks run: Go schedules a goroutine that can run, and FLTK runs
  what `Awake` was given. This is weak fairness of each goroutine's or callback's own steps.
- The user does nothing in particular: no handler that a user starts is fair.
- A command may run for ever. `RunsReported` asks of it only that it completes, which
  `CommandReturns` shows of a single one: its timeout passes (`runAsync` gives every context
  one), and killing the process group or closing the connection ends the streams. For this a
  background process must stay in its group. A server that has completed the handshake must
  answer the request for a session, which the code waits for without the context; this is
  listed as a hazard.
- `CloseIsReported` assumes that a write to a shell returns, as it does when the shell reads its
  input or its terminal or connection is torn down, and that the timer of the local Close expires.
  The `cd` command can be written; what happens otherwise is the finding above and a hazard. No job
  need ever end, and while one holds the terminal of a dead local shell the exit may stay unreported.
- `ExitReleased` and `StopEnds` assume that the GUI thread takes its next callback; a
  monitor's sample returns.

## The proofs

TLAPS proves the following for all values of the constants. Every module's argument is one
inductive invariant, which TLC found to hold in every state of the module's run before it was
proved; one lemma says for each action (or for actions that do the same to it) that the
invariant is preserved.

- `SessionProofs`: the seven properties of the tabs - `PinnedFirst`, `TabsDistinct`, `RunsAgree`,
  `OutputPrivate`, `LinesPrivate`, `FindAccurate`, `SelectionKept` - of `ToolsSpec`, the handlers
  together with the history keys and the find window. The handlers pass one value on, the workspace
  with the command line and the terminal (`View`), and so does the proof: `ViewOK` says of such a
  value that every tab's draft and output are its own, that pinned tabs are in front, that IDs and
  instances differ, and that the terminal shows the active tab's output. A lemma about each operator
  of `SessionWorkspace` says that it keeps this, lemmas about what the handlers are made of (save the
  line, render the active tab, close some tabs) put them together, and the actions use those.
  `LinesPrivate` is not inductive: a walk through the history keeps a hidden draft and a copy of the
  commands, which must be the tab's own as well (`CursorsOK`). `RunsAgree` speaks of tabs and
  commands; what is invariant is that the tabs that run a command are those of the goroutines at
  work, one each (`RunsOK`). `TypeOK` of `SessionController`, with its bounds on the terminal and on
  the closed tabs, follows.
- `CommandSessionProofs`: `KeptEntriesStored`, `Chronological`, `LoadsNewest` and `ResultComplete`.
  Of the history the invariant says that a file has either been migrated as a whole or is newer than
  every row (`WholeOrNothing`), that migrated rows are lines of a file that was all written
  (`RowsFromFiles`), and what the program has made sure of at each stage of its start
  (`ProgramKnows`): without the first, a migration killed before the file is removed would store its
  lines again behind newer ones. Of a command it says for each stream that the lines passed on split
  what was written one after the other, up to where the reader has come, each whole but perhaps the
  last (`StreamInv`). Running a command does to the history what `HistoryStore` does
  (`SessionKeepsHistory`), so the first three are proved of that alone.
- `ShellProofs`: both shells implement `InteractiveShell` (`ShellsImplement`), and `NoSendAfterClose`,
  for every capacity of the channel, number of chunks, starts and writes. The refinement needs to
  know that what was received and what waits in the channel is, of each stream, what its reader has
  read, in order (`InOrder`); that a reader leaves its loop at the end of its stream, when nobody is
  left who writes to it, unless a local session was closed (`ReadUp`); that the channels are closed
  behind the readers (`Joined`), which are launched once (`StartedOnce`); and that the drainer
  reports the exit with the channel closed and empty (`Drained`).
- `ConnectionWindowsProofs`: `MemoryIsDatabase`, `NoFalseSuccess`, `DeletedStaysDeleted`, `LoadKeeps`,
  `SavedEditorRespectsDeletion`. `DeletedStaysDeleted` rests on what a deletion has behind it: the
  program had loaded, so that the migration is marked and the legacy file gone, and the deleted
  profile is not in the rows any window saves (`DeletionsOK`). From the same comes `RevivedBySaving`,
  which no run lists: though every save writes a whole list, it brings back the profile it is about
  at most. That one it may bring back, from rows or an editor older than the deletion
  (`editor_recreates` shows it), so neither says that a deletion wins over them. `LoadKeeps` needs that what is in a
  legacy file about to be removed is in the database (`LoadOK`). `OnePrompt` is an invariant of its
  own: of the callbacks that wait one at most is a prompt about unsaved changes, `asking` tells that
  there is one, and a closed editor puts nothing off (`EditorOK`). Every handler takes one callback
  from the queue or adds one (`TailWaits`, `AppendWaits`, `AskWaits`), and closing the editor takes
  its prompt out (`ClosesOK`). `TypeOK` of the module follows from both.
- `TerminalProofs`, of the batcher: `SingleCallback`, `NoLostWakeup` (text and completions are never
  left without a callback on its way), `CompletionAfterOutput` (a completion runs after everything
  queued before it), and that every step is one of `OrderedOutput` or a stutter. `NoLostWakeup` is
  not inductive: the invariant adds that the fragments shown, held by drain and pending are those
  queued (`Conserved`, for the completions as well), that drain's locals are empty where it does not
  use them, and that no completion's mark is ahead of the stage that the completion has reached. The
  lemmas `Pipeline...` say how the four ways to move an element keep a stream in its three parts;
  each action uses one.
- `TerminalProofs`, of the registry of shells: `ExclusiveOwnership`, `NoOrphan`, `RunningKept`.
  Ownership alone is not inductive: the transport of a pending prompt must be new and its tab open
  (`Registered`), or the answer would register somebody else's transport or one at a closed tab.
  Most handlers close one transport or all of a set; lemmas about these are shared by the actions.
- `MainWindowProofs`, of the settings: `SettingsInForce`, `WindowCurrent`. The invariant adds the
  types, the range of the size, and `Based`: the window's baseline is what is configured, and a field
  differs from it only if it was typed in. The main window implements `SettingsSpec` - its other
  actions leave the settings alone or are those of the settings - hence both hold in it.
- `MainWindowProofs`, of the launcher: `RowsFresh`, `SearchSound`, `StartupKeepsActive`, for any
  profiles with texts over the natural numbers, any queries, limit and number of uses. `LauncherInv`
  says of the rows that they are profiles of the window's list, each once, one of them selected, and
  after a search exactly those with a rank, the better ranks first (`RowsOK`); of the list and the
  store that no ID is there twice, and of the store that its active profile is one it has
  (`StoreOK`), without which a start could select another one. Each action either gets its rows from
  `RowsWithSelection`, or takes one away (`RemoveAtIs`). `RankIs` and `WordRank` say what a rank
  means: that the sum of ranks of an alternative is not one that stands for no match, and that the
  rank of a single word is the likeness of the name. That the rows are there at all rests on the three
  orders being linear where IDs differ (`QuickLinear`, `MatchLinear`, `NavigatorLinear`, from the
  alphabet's, `BeforeLinear`), for `Sorted` is the choice of a sorted sequence. The launcher's
  invariant is proved next to that of the settings, which say whether the first row is to be selected.
- `MainWindowProofs`, of the monitors and the sidebar: `SidebarIsActiveTab`, `LatestShown`,
  `MonitorsAgree`, for any tabs and number of samples. An update travels from the sampler through a
  channel, a forwarder and the queue; what is invariant is that the one which is the last on its way
  tells what the monitor has now (`PipelineOK`), and that a snapshot that was read is the last one or
  has a newer update behind it (`ReadOK`).
- `KeyFilesProofs`, of the known hosts: `OneKeyPerHost`, `ConnectedIsApproved` and the refinement
  `TrustKept`. What makes `OneKeyPerHost` inductive is that the contents about to be written are
  the file with one line more for a host that has none (`WriteCurrent`), which holds because the
  lock is held from the check to the write (`LockHeld`).
- `KeyFilesProofs`, of the master key: `OneMasterKey`, `KeyKept`. Neither is inductive: the invariant
  `KeyInv` says that one process at most is making the file (`OneMaker`), that whoever has a key
  that was written has the one in the file (`HasFileKey`), that once rows are encrypted nobody is
  left who could make another (`OneInFile`), and, where power may fail, that the file is synced with
  its directory before its key is used (`SyncedFirst`).
- `LibraryProofs`: what `Subsequence` yields, which the models use in place of the library's
  `SelectSeq`. An induction over numbers cannot be cited from the library, whose theorem takes the
  formula as an operator, but the well-foundedness of the numbers can: a function defined by
  recursion satisfies its equation everywhere, since there is no least number where it would not
  (`LeastNatural`, `Recursion`), and the elements of `Subsequence` and their order follow likewise.
  In the same way a finite set can be sorted in a linear order (`Sortable`, one element being
  inserted after the other), and the library's `SumFunctionOnSet` of natural numbers is one (`SumOf`).

Types are proved with each invariant: every one contains those of the variables it speaks of.

The assumptions are those of the modules: bounds are natural numbers, `No...` values are not among
what they stand for the absence of, the default size lies in its range.

`MasterKey` assumes of the system what its head says: either several processes may be started at
once, and then syncing works and power does not fail, or one runs at a time, and what it has left
unsynced is written back before the next one starts. The cases between are not promised by the code:
a process may read a key that another one has written and not synced (`readMasterKey` does not sync),
use it, and lose it when the other fails to sync and removes the file, or when power fails. A
creator that is killed leaves an incomplete file, and no later start gets a key from it or makes one.

What stays with TLC: liveness and fairness (`OrderedDelivery`'s fair part, `RunsReported`,
`CloseIsReported`, `StopEnds`, `ExitReleased`, `CommandReturns`), which the installed provers cannot
treat. Every invariant and every action property that a run checks is proved.

## What is not modelled

- Painting, layout, formatting, localisation, shortcuts, the HTTP API, the export of a terminal's
  text: no state of interest.
- The parsing of /proc and of a query's syntax: pure functions of strings. `ConnectionSearch` starts
  from the terms of a query.
- Titles, bells, the input lock and the directory of a tab: one field each.
- `changeLanguage` (guis.go:1213), which nothing calls: the settings window changes the language.
- Cryptography. IDs are taken to encrypt to the same text each time, which the migration of
  connections relies on to recognise what it has migrated; a comment in `log.go` (383) says this is
  not so of history, which `HistoryStore` respects: rows are recognised by their file and place.
- A second instance of the program: the database is opened in exclusive locking mode.
- An older version of the program started while a migrated history file waits for its removal.
  The file would grow, have another fingerprint, and be migrated once more in full.
- Two copies of a profile edited in two windows: no line says which of the edits wins, so
  `ConnectionWindows` lets a save write any contents, and no property forbids that a save from an
  older copy puts back what the other window has saved.
- A write to a shell that does not return: the models take it to return, and say nothing of what
  then waits for the lock.
- The undoing of a run that the workspace refuses (guis.go:3383): `TestProfile` runs in a tab it has
  just opened, which is idle.
- Output that a tab without a shell retains is cut by the terminal, that of a tab with a shell is
  kept whole (`AppendOutput`) and grows without a limit. No line says that it must not.
- After a deletion in the launcher the rows are not filled up from the profiles that did not fit.
- Run with no tab open clears the text that was typed, since the tab it opens has an empty draft,
  and runs `pwd`. `Stop` in a tab with a shell interrupts the shell, even if a command started by
  Test is running there. Nothing says what is meant, so neither is a property here.
- A line of more than 10 MiB ends the scanner of a local command without an error.
  `CommandExecutor` models this, and `ResultComplete` makes an exception of it.

## The plan

The order was: what every byte of output passes through (batcher), the tabs and runs, the shells and
their registry, what protects the user (host keys), the monitor, what is stored (connections, history),
the executor that ties output and history together; then the second backend and the abstract shell, the
tools over the shared command line and terminal, the main window with its search and settings, and the
master key. All of this is in place. Next:

1. An abstract history, a sequence that only grows, and `HistoryStore` shown to implement it.
2. `InteractiveRuntime` over `InteractiveShell` in place of its own transports.
