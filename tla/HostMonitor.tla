---------------------------- MODULE HostMonitor ----------------------------
(***************************************************************************)
(* The resource monitor of a local tab (hostmonitor/session.go) and the    *)
(* sidebar that shows it (guis/host_monitor_ui.go).                        *)
(*                                                                         *)
(* Every local tab owns a sampling goroutine.  It keeps the last snapshot  *)
(* under a lock and offers each update to a channel of capacity one, where *)
(* a newer update displaces one nobody has taken.  A forwarder goroutine   *)
(* posts the updates to the GUI thread, which applies those of the active  *)
(* tab; showing a tab reads its snapshot directly.  The sidebar is one     *)
(* panel for all the tabs.                                                 *)
(*                                                                         *)
(* Closing a tab cancels its monitor and blocks the GUI thread until the   *)
(* sampling goroutine has ended.                                           *)
(***************************************************************************)
EXTENDS Naturals, Sequences

CONSTANTS Tabs,         \* runtime IDs, each given to one tab
          Local,        \* the tabs of local profiles: only these are monitored
          NoTab,
          MaxSamples    \* bound on the samples each monitor takes

ASSUME MonitorAssumption ==
    /\ Local \subseteq Tabs
    /\ NoTab \notin Tabs
    /\ MaxSamples \in [Local -> Nat \ {0}]

VARIABLES
    opened,    \* tabs opened so far
    open,      \* tabs of the workspace
    active,    \* its active tab, or NoTab
    monitors,  \* a.monitors: the tabs with a registered monitor
    mon,       \* each monitor's Session, goroutines and channel
    queue,     \* updates posted to the GUI thread
    gui,       \* what the GUI thread is in the middle of
    shown      \* the sidebar: whose title, whose values, of which revision

vars == <<opened, open, active, monitors, mon, queue, gui, shown>>

Phases == {"new", "running", "degraded", "stopped"}
Update == [rev : Nat, phase : Phases]
NoUpdate == [rev |-> 0, phase |-> "new"]
Steps == {"new", "start", "sampling", "offer", "drop", "put", "select", "done"}
Monitor == [pc : Steps, cancelled : BOOLEAN, samples : Nat,
            rev : Nat, phase : Phases, msg : Update,
            updates : Seq(Update), held : Seq(Update)]
GuiOps == {"idle", "show", "read", "stop", "quit"}
Statuses == {"none", "pending", "starting", "online", "degraded"}

TypeOK ==
    /\ open \subseteq opened /\ opened \subseteq Tabs
    /\ active \in open \cup {NoTab}
    /\ active = NoTab <=> open = {}
    /\ monitors \subseteq Local
    /\ mon \in [Local -> Monitor]
    /\ \A t \in Local : Len(mon[t].updates) <= 1 /\ Len(mon[t].held) <= 1
    /\ \A t \in Local : mon[t].rev <= mon[t].samples /\ mon[t].samples <= MaxSamples[t]
    /\ \A i \in DOMAIN queue : queue[i] \in [tab : Local, update : Update]
    /\ gui \in [op : GuiOps, tab : Tabs \cup {NoTab}, rev : Nat]
    /\ shown \in [title : Tabs \cup {NoTab}, from : Local \cup {NoTab},
                  rev : Nat, status : Statuses]

\* NewSession, before Start.
NewMonitor == [pc |-> "new", cancelled |-> FALSE, samples |-> 0, rev |-> 0,
               phase |-> "new", msg |-> NoUpdate, updates |-> <<>>, held |-> <<>>]
Gui(op) == [op |-> op, tab |-> NoTab, rev |-> 0]
Blank(tab, status) == [title |-> tab, from |-> NoTab, rev |-> 0, status |-> status]

Init ==
    /\ opened = {}
    /\ open = {}
    /\ active = NoTab
    /\ monitors = {}
    /\ mon = [t \in Local |-> NewMonitor]
    /\ queue = <<>>
    /\ gui = Gui("idle")
    /\ shown = Blank(NoTab, "none")

-----------------------------------------------------------------------------
\* The GUI thread.

\* openSession and activateFreshRuntimeSession: the monitor is registered and
\* started before the tab is rendered.
OpenTab(t) ==
    /\ gui.op = "idle"
    /\ t \in Tabs \ opened
    /\ opened' = opened \cup {t}
    /\ open' = open \cup {t}
    /\ active' = t
    /\ monitors' = monitors \cup ({t} \cap Local)
    /\ mon' = IF t \in Local
              THEN [mon EXCEPT ![t].pc = "start", ![t].phase = "running"]
              ELSE mon
    /\ gui' = Gui("show")
    /\ UNCHANGED <<queue, shown>>

\* selectSessionTab.
SelectTab(t) ==
    /\ gui.op = "idle"
    /\ t \in open \ {active}
    /\ active' = t
    /\ gui' = Gui("show")
    /\ UNCHANGED <<opened, open, monitors, mon, queue, shown>>

\* Any other handler that renders the active session again, such as the dismissal
\* of the quick launcher or a change of language.
Refresh ==
    /\ gui.op = "idle"
    /\ gui' = Gui("show")
    /\ UNCHANGED <<opened, open, active, monitors, mon, queue, shown>>

\* Variant: the monitor is waited for without having been cancelled.
CloseTabUnstopped(t) ==
    /\ gui.op = "idle"
    /\ t \in open
    /\ open' = open \ {t}
    /\ active' \in IF t # active THEN {active}
                   ELSE IF open = {t} THEN {NoTab} ELSE open \ {t}
    /\ monitors' = monitors \ {t}
    /\ gui' = IF t \in monitors THEN [Gui("stop") EXCEPT !.tab = t] ELSE Gui("show")
    /\ UNCHANGED <<opened, mon, queue, shown>>

\* closeSessionAt and stopMonitorForSession up to the Wait.  Which tab becomes
\* active is the workspace's business (SessionWorkspace).
CloseTab(t) ==
    /\ gui.op = "idle"
    /\ t \in open
    /\ open' = open \ {t}
    /\ active' \in IF t # active THEN {active}
                   ELSE IF open = {t} THEN {NoTab} ELSE open \ {t}
    /\ monitors' = monitors \ {t}
    /\ IF t \in monitors
       THEN /\ mon' = [mon EXCEPT ![t].cancelled = TRUE]
            /\ gui' = [Gui("stop") EXCEPT !.tab = t]
       ELSE /\ gui' = Gui("show")
            /\ UNCHANGED mon
    /\ UNCHANGED <<opened, queue, shown>>

\* Variant: the handler goes on without waiting.
StopReturnsAtOnce ==
    /\ gui.op = "stop"
    /\ gui' = Gui("show")
    /\ UNCHANGED <<opened, open, active, monitors, mon, queue, shown>>

\* The Wait of stopMonitorForSession returns when run has closed s.done.
StopReturns ==
    /\ gui.op = "stop"
    /\ mon[gui.tab].pc = "done"
    /\ gui' = Gui("show")
    /\ UNCHANGED <<opened, open, active, monitors, mon, queue, shown>>

\* renderMonitorSidebar up to monitor.Snapshot().
ReadSnapshot ==
    /\ gui.op = "show"
    /\ IF active \in monitors /\ mon[active].rev > 0
       THEN /\ gui' = [Gui("read") EXCEPT !.rev = mon[active].rev]
            /\ UNCHANGED shown
       ELSE /\ gui' = Gui("idle")
            /\ shown' = Blank(active, CASE active = NoTab -> "none"
                                        [] active \in open \ Local -> "pending"
                                        [] OTHER -> "starting")
    /\ UNCHANGED <<opened, open, active, monitors, mon, queue>>

Status(phase) == IF phase = "degraded" THEN "degraded" ELSE "online"

\* The rest of it: monitor.State() takes the lock a second time.
ReadState ==
    /\ gui.op = "read"
    /\ shown' = [title |-> active, from |-> active, rev |-> gui.rev,
                 status |-> Status(mon[active].phase)]
    /\ gui' = Gui("idle")
    /\ UNCHANGED <<opened, open, active, monitors, mon, queue>>

\* Variant: every update of a registered monitor is applied.
ApplyUpdateOfAny ==
    /\ gui.op = "idle"
    /\ queue # <<>>
    /\ LET item == Head(queue) IN
       shown' = IF item.tab \in monitors
                THEN [shown EXCEPT !.from = item.tab, !.rev = item.update.rev,
                                   !.status = Status(item.update.phase)]
                ELSE shown
    /\ queue' = Tail(queue)
    /\ UNCHANGED <<opened, open, active, monitors, mon, gui>>

\* The callback posted for an update: it is dropped unless its monitor is still the
\* registered one and its tab the active one.  The title is left alone.
ApplyUpdate ==
    /\ gui.op = "idle"
    /\ queue # <<>>
    /\ LET item == Head(queue) IN
       shown' = IF item.tab \in monitors /\ active = item.tab
                THEN [shown EXCEPT !.from = item.tab, !.rev = item.update.rev,
                                   !.status = Status(item.update.phase)]
                ELSE shown
    /\ queue' = Tail(queue)
    /\ UNCHANGED <<opened, open, active, monitors, mon, gui>>

\* stopAllMonitors once the event loop has returned: all are cancelled, then all
\* are waited for.  No callback runs any more.
Quit ==
    /\ gui.op = "idle"
    /\ mon' = [t \in Local |-> [mon[t] EXCEPT !.cancelled = @ \/ t \in monitors]]
    /\ monitors' = {}
    /\ gui' = Gui("quit")
    /\ UNCHANGED <<opened, open, active, queue, shown>>

-----------------------------------------------------------------------------
\* The sampling goroutine, Session.run.
Running(t, pc) ==
    /\ mon[t].pc = pc
    /\ UNCHANGED <<opened, open, active, monitors, queue, gui, shown>>

\* The first collect, and the one of a tick.  Sample returns an error at once when
\* its context is cancelled, and collect then does nothing; a tick received after
\* the cancellation is therefore no step at all.
Begin(t) ==
    /\ Running(t, "start")
    /\ mon' = [mon EXCEPT ![t].pc = IF mon[t].cancelled
                                    THEN "select" ELSE "sampling"]

Tick(t) ==
    /\ Running(t, "select")
    /\ ~mon[t].cancelled
    /\ mon[t].samples < MaxSamples[t]
    /\ mon' = [mon EXCEPT ![t].pc = "sampling"]

\* collect after a sample: the new snapshot and the update are made under the lock,
\* the update is published after it.
SampleArrives(t) ==
    /\ Running(t, "sampling")
    /\ mon' = [mon EXCEPT ![t].samples = @ + 1, ![t].rev = @ + 1,
                          ![t].phase = "running", ![t].pc = "offer",
                          ![t].msg = [rev |-> mon[t].rev + 1, phase |-> "running"]]

\* A failed sample keeps the last snapshot; it is reported unless the monitor is
\* being stopped.
SampleFails(t) ==
    /\ Running(t, "sampling")
    /\ mon' = IF mon[t].cancelled
              THEN [mon EXCEPT ![t].samples = @ + 1, ![t].pc = "select"]
              ELSE [mon EXCEPT ![t].samples = @ + 1, ![t].phase = "degraded",
                               ![t].pc = "offer",
                               ![t].msg = [rev |-> mon[t].rev, phase |-> "degraded"]]

\* publish: the three selects.  The channel has room for one update; displacing
\* the older one and sending are two steps, and the forwarder may take the older
\* one first.
Send(t) == [mon EXCEPT ![t].updates = Append(@, mon[t].msg), ![t].msg = NoUpdate,
                       ![t].pc = "select"]

\* Variant: an update that finds the channel full is thrown away.
OfferOnce(t) ==
    /\ Running(t, "offer")
    /\ mon' = IF mon[t].updates = <<>>
              THEN Send(t)
              ELSE [mon EXCEPT ![t].msg = NoUpdate, ![t].pc = "select"]

Offer(t) ==
    /\ Running(t, "offer")
    /\ mon' = IF mon[t].updates = <<>> THEN Send(t) ELSE [mon EXCEPT ![t].pc = "drop"]

Drop(t) ==
    /\ Running(t, "drop")
    /\ mon' = [mon EXCEPT ![t].updates = <<>>, ![t].pc = "put"]

\* Nobody else sends, so the third select always finds room.
Put(t) ==
    /\ Running(t, "put")
    /\ mon' = Send(t)

\* ctx.Done(): the source, the channel and s.done are closed.
Finish(t) ==
    /\ Running(t, "select")
    /\ mon[t].cancelled
    /\ mon' = [mon EXCEPT ![t].phase = "stopped", ![t].pc = "done"]

\* The forwarder: it takes an update, also from the closed channel, and posts it.
Take(t) ==
    /\ mon[t].held = <<>>
    /\ mon[t].updates # <<>>
    /\ mon' = [mon EXCEPT ![t].held = mon[t].updates, ![t].updates = <<>>]
    /\ UNCHANGED <<opened, open, active, monitors, queue, gui, shown>>

Post(t) ==
    /\ mon[t].held # <<>>
    /\ queue' = Append(queue, [tab |-> t, update |-> Head(mon[t].held)])
    /\ mon' = [mon EXCEPT ![t].held = <<>>]
    /\ UNCHANGED <<opened, open, active, monitors, gui, shown>>

-----------------------------------------------------------------------------
Sampling(t) == \/ Begin(t) \/ SampleArrives(t) \/ SampleFails(t)
               \/ Offer(t) \/ Drop(t) \/ Put(t) \/ Finish(t)
Forwarding(t) == Take(t) \/ Post(t)
Handling == StopReturns \/ ReadSnapshot \/ ReadState \/ ApplyUpdate

Next ==
    \/ \E t \in Tabs : OpenTab(t) \/ SelectTab(t) \/ CloseTab(t)
    \/ Refresh \/ Quit \/ Handling
    \/ \E t \in Local : Tick(t) \/ Sampling(t) \/ Forwarding(t)

\* The goroutines and the GUI thread are scheduled, and a sample returns: it reads
\* a few files of /proc.  Neither the user nor the clock is made to act.
Fairness ==
    /\ WF_vars(Handling)
    /\ \A t \in Local : WF_vars(Sampling(t)) /\ WF_vars(Forwarding(t))

Spec == Init /\ [][Next]_vars /\ Fairness

-----------------------------------------------------------------------------
Alive(t) == mon[t].pc \notin {"new", "done"}

\* The sidebar never shows one tab's numbers under another's title, whatever
\* updates of background and closed tabs are still on their way: between two
\* handlers its title and its values are the active tab's (monitorIsCurrent and
\* the activeSessionID test of the callback).
SidebarIsActiveTab ==
    gui.op = "idle" =>
        /\ shown.title = active
        /\ shown.from \in {active, NoTab}

\* Every update of a monitor that has left its pipeline.
Settled(t) ==
    /\ mon[t].pc \in {"start", "sampling", "select"}
    /\ mon[t].updates = <<>> /\ mon[t].held = <<>>
    /\ \A i \in DOMAIN queue : queue[i].tab # t

\* Displacing updates, dropping those of background tabs and rendering from a
\* snapshot that is newer than the queued updates lose nothing for good: once no
\* update of the active tab is on its way, the sidebar shows its last snapshot
\* and state.
LatestShown ==
    (gui.op = "idle" /\ active \in monitors /\ Settled(active) /\ mon[active].rev > 0) =>
        /\ shown.from = active
        /\ shown.rev = mon[active].rev
        /\ shown.status = Status(mon[active].phase)

\* The monitors that run are those of the open local tabs, the registered ones: a
\* closed tab leaves no goroutine sampling behind it.
MonitorsAgree ==
    gui.op = "idle" =>
        /\ monitors = open \cap Local
        /\ \A t \in Local : Alive(t) => t \in monitors

\* The Wait on the GUI thread ends, at the close of a tab and when the program
\* quits.
StopEnds ==
    /\ (gui.op = "stop") ~> (gui.op = "idle")
    /\ (gui.op = "quit") ~> (\A t \in Local : ~Alive(t))
=============================================================================
