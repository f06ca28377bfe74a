------------------------- MODULE InteractiveRuntime -------------------------
(***************************************************************************)
(* Which transport serves which tab: the registry of interactive runtimes  *)
(* (guis/interactive_runtime.go) and the handlers that install, replace    *)
(* and release them (guis/interactive_gui.go).                             *)
(*                                                                         *)
(* Handlers and posted callbacks run on the GUI thread, one at a time, and *)
(* Start dials on it, so nothing else touches the registry meanwhile.  The *)
(* exception is the prompt for an unknown host key: its modal loop lets    *)
(* posted callbacks in, and an exit callback changes the registry under    *)
(* the handler that is waiting for the answer.                             *)
(*                                                                         *)
(* A transport and the goroutine that drains it run on their own: a shell  *)
(* may exit at any time, and its exit reaches the GUI thread much later.   *)
(***************************************************************************)
CONSTANTS Tabs,           \* runtime IDs, each given to one tab
          Transports,     \* instances of InteractiveSession
          NoTransport

ASSUME RuntimeAssumption == NoTransport \notin Transports

VARIABLES
    open,        \* tabs of the workspace
    opened,      \* tabs opened so far
    runtimes,    \* the registry: tab -> its transport, or NoTransport
    transport,   \* each instance, with its drainer and its posted callbacks
    gui          \* what the GUI thread is in the middle of

vars == <<open, opened, runtimes, transport, gui>>

\* phase: not started, with a shell, or with Wait returned.  output and exit are the
\* callbacks posted to the GUI thread and not run yet.
Transport == [phase : {"new", "live", "ended"}, tab : Tabs \cup {NoTransport},
              closed : BOOLEAN, drained : BOOLEAN, output : BOOLEAN, exit : BOOLEAN]
Fresh == [phase |-> "new", tab |-> NoTransport, closed |-> FALSE, drained |-> FALSE,
          output |-> FALSE, exit |-> FALSE]
Prompt == [op : {"prompt"}, tab : Tabs, transport : Transports, replace : BOOLEAN]
Idle == [op |-> "idle"]
Quitting == [op |-> "quit"]

TypeOK ==
    /\ open \subseteq opened /\ opened \subseteq Tabs
    /\ runtimes \in [Tabs -> Transports \cup {NoTransport}]
    /\ transport \in [Transports -> Transport]
    /\ gui \in Prompt \cup {Idle, Quitting}
    /\ \A t \in Transports :
          /\ transport[t].phase = "new" => transport[t] = Fresh
          /\ transport[t].drained => transport[t].phase = "ended"
          /\ transport[t].exit => transport[t].drained

Init ==
    /\ open = {}
    /\ opened = {}
    /\ runtimes = [tab \in Tabs |-> NoTransport]
    /\ transport = [t \in Transports |-> Fresh]
    /\ gui = Idle

-----------------------------------------------------------------------------
\* The registry.
Has(tab) == runtimes[tab] # NoTransport
New(t) == transport[t].phase = "new"

\* A started transport with its drainer.
StartedFor(t, tab) ==
    [transport EXCEPT ![t].phase = "live", ![t].tab = tab]

\* Start, for a tab without a runtime.
Start(tab, t) ==
    /\ ~Has(tab)
    /\ runtimes' = [runtimes EXCEPT ![tab] = t]
    /\ transport' = StartedFor(t, tab)

\* Replace, for a tab with one: the successor is published, then the superseded
\* transport is cancelled and closed.
Replace(tab, t) ==
    /\ Has(tab)
    /\ runtimes' = [runtimes EXCEPT ![tab] = t]
    /\ transport' = [StartedFor(t, tab) EXCEPT ![runtimes[tab]].closed = TRUE]

\* Start and Replace leave everything as it was when the transport fails to start.
\* So does Replace when the tab has no runtime any more.
RegisterFails == UNCHANGED <<runtimes, transport>>

\* Variant: the runtime to be replaced is closed before its successor starts.
RegisterEagerly(tab, t, replace) ==
    \/ IF replace THEN Replace(tab, t) ELSE Start(tab, t)
    \/ /\ replace /\ Has(tab)
       /\ runtimes' = [runtimes EXCEPT ![tab] = NoTransport]
       /\ transport' = [transport EXCEPT ![runtimes[tab]].closed = TRUE]
    \/ RegisterFails

\* register in installInteractiveSession.
Register(tab, t, replace) ==
    \/ IF replace THEN Replace(tab, t) ELSE Start(tab, t)
    \/ RegisterFails

\* Variant: whatever runtime the tab has is removed.
ReleaseAny(tab, t) == [runtimes EXCEPT ![tab] = NoTransport]

\* Release: only the same instance is removed.
Release(tab, t) ==
    IF runtimes[tab] = t THEN [runtimes EXCEPT ![tab] = NoTransport] ELSE runtimes

-----------------------------------------------------------------------------
\* The handlers.

\* installInteractiveSession: the registration succeeds or fails, or it stops at an
\* unknown host key and the handler prompts, remembering what it was about to do.
Install(tab, replace) ==
    \E t \in Transports :
        /\ New(t)
        /\ \/ Register(tab, t, replace) /\ UNCHANGED gui
           \/ /\ gui' = [op |-> "prompt", tab |-> tab, transport |-> t,
                         replace |-> replace]
              /\ UNCHANGED <<runtimes, transport>>

\* openSession and activateFreshRuntimeSession.
OpenTab(tab) ==
    /\ gui = Idle
    /\ tab \in Tabs \ opened
    /\ open' = open \cup {tab}
    /\ opened' = opened \cup {tab}
    /\ Install(tab, FALSE)

\* runInteractiveCommand on a tab whose shell has exited or never started.  The tab
\* it is about is the active one, which any open tab may be.
RunCommand(tab) ==
    /\ gui = Idle
    /\ tab \in open
    /\ ~Has(tab)
    /\ Install(tab, FALSE)
    /\ UNCHANGED <<open, opened>>

\* reconnectActiveSession: whether there is a runtime to replace is decided here.
Reconnect(tab) ==
    /\ gui = Idle
    /\ tab \in open
    /\ Install(tab, Has(tab))
    /\ UNCHANGED <<open, opened>>

\* The prompt answered with Cancel, or the key not saved.
Decline ==
    /\ gui \in Prompt
    /\ gui' = Idle
    /\ UNCHANGED <<open, opened, runtimes, transport>>

\* The key trusted: the same transport is registered again, as it was to be when the
\* prompt came up.
Trust ==
    /\ gui \in Prompt
    /\ Register(gui.tab, gui.transport, gui.replace)
    /\ gui' = Idle
    /\ UNCHANGED <<open, opened>>

\* Variant: the tab goes, its transport stays.
CloseTabOnly(tab) ==
    /\ gui = Idle
    /\ tab \in open
    /\ open' = open \ {tab}
    /\ UNCHANGED <<opened, runtimes, transport, gui>>

\* closeSessionAt and the registry's Close.
CloseTab(tab) ==
    /\ gui = Idle
    /\ tab \in open
    /\ open' = open \ {tab}
    /\ runtimes' = [runtimes EXCEPT ![tab] = NoTransport]
    /\ transport' = IF Has(tab)
                    THEN [transport EXCEPT ![runtimes[tab]].closed = TRUE]
                    ELSE transport
    /\ UNCHANGED <<opened, gui>>

\* CloseAll when the event loop has returned; no callback runs any more.
Quit ==
    /\ gui = Idle
    /\ runtimes' = [tab \in Tabs |-> NoTransport]
    /\ transport' = [t \in Transports |->
                        [transport[t] EXCEPT !.closed = @ \/ \E tab \in Tabs : runtimes[tab] = t]]
    /\ gui' = Quitting
    /\ UNCHANGED <<open, opened>>

\* The callbacks of drainInteractiveOutput's batcher, also inside the prompt: the
\* output first, then the exit (OutputBatcher).
DispatchOutput(t) ==
    /\ gui # Quitting
    /\ transport[t].output
    /\ transport' = [transport EXCEPT ![t].output = FALSE]
    /\ UNCHANGED <<open, opened, runtimes, gui>>

DispatchExit(t) ==
    /\ gui # Quitting
    /\ transport[t].exit /\ ~transport[t].output
    /\ transport' = [transport EXCEPT ![t].exit = FALSE]
    /\ runtimes' = Release(transport[t].tab, t)
    /\ UNCHANGED <<open, opened, gui>>

-----------------------------------------------------------------------------
\* The transport and its drainer.

Produce(t) ==
    /\ transport[t].phase = "live"
    /\ transport' = [transport EXCEPT ![t].output = TRUE]
    /\ UNCHANGED <<open, opened, runtimes, gui>>

\* The shell exits, the connection breaks, or Close takes effect.
End(t) ==
    /\ transport[t].phase = "live"
    /\ transport' = [transport EXCEPT ![t].phase = "ended"]
    /\ UNCHANGED <<open, opened, runtimes, gui>>

\* Variant: only the end of a transport that was closed here is announced.
DrainEndsSilently(t) ==
    /\ transport[t].phase = "ended" /\ ~transport[t].drained
    /\ transport' = [transport EXCEPT ![t].drained = TRUE, ![t].exit = transport[t].closed]
    /\ UNCHANGED <<open, opened, runtimes, gui>>

\* The output channel is closed and Wait returns: the exit is posted behind the
\* output.
DrainEnds(t) ==
    /\ transport[t].phase = "ended" /\ ~transport[t].drained
    /\ transport' = [transport EXCEPT ![t].drained = TRUE, ![t].exit = TRUE]
    /\ UNCHANGED <<open, opened, runtimes, gui>>

-----------------------------------------------------------------------------
Next ==
    \/ \E tab \in Tabs : OpenTab(tab) \/ RunCommand(tab) \/ Reconnect(tab) \/ CloseTab(tab)
    \/ Decline \/ Trust \/ Quit
    \/ \E t \in Transports : DispatchOutput(t) \/ DispatchExit(t)
                             \/ Produce(t) \/ End(t) \/ DrainEnds(t)

\* Drainers and callbacks are scheduled, in the modal loop of the prompt too; a
\* closed transport ends (SSHPTYSession).  A shell that is left alone may run on,
\* and the user may never answer.
Fairness ==
    \A t \in Transports :
        /\ WF_vars(DispatchOutput(t)) /\ WF_vars(DispatchExit(t))
        /\ WF_vars(DrainEnds(t))
        /\ WF_vars(transport[t].closed /\ End(t))

Spec == Init /\ [][Next]_vars /\ Fairness

-----------------------------------------------------------------------------
Running(t) == transport[t].phase = "live" /\ ~transport[t].closed

\* Every tab has exclusive ownership of its transport: a transport is registered at
\* the tab it was started for, only while that tab is open, and nowhere else.
ExclusiveOwnership ==
    \A tab \in Tabs : Has(tab) =>
        /\ tab \in open
        /\ transport[runtimes[tab]].tab = tab
        /\ ~transport[runtimes[tab]].closed

\* No shell is left running without a tab that can reach it: Replace, a delayed exit
\* of a superseded transport, the close of a tab and the end of the program leave
\* none behind.
NoOrphan ==
    \A t \in Transports : Running(t) => \E tab \in Tabs : runtimes[tab] = t

\* A running shell loses its tab only to a running successor, to the close of the
\* tab or to the end of the program: "A failed replacement leaves the current
\* terminal usable".
RunningKept ==
    [][\A tab \in Tabs :
          (Has(tab) /\ Running(runtimes[tab]) /\ runtimes'[tab] # runtimes[tab]) =>
              \/ \E t \in Transports : runtimes'[tab] = t /\ Running(t)'
              \/ tab \notin open'
              \/ gui' = Quitting]_vars

\* A shell that has exited is taken off its tab, whatever the user does with the
\* prompt, so that the next command starts another.
ExitReleased ==
    \A t \in Transports :
        transport[t].phase = "ended" ~> (\A tab \in Tabs : runtimes[tab] # t)
=============================================================================
