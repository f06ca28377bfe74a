------------------------------ MODULE MCSessions ----------------------------
(***************************************************************************)
(* The window's session handlers, checked in four scenarios that share one *)
(* next-state relation and differ in what the user has at hand.            *)
(***************************************************************************)
EXTENDS SessionTools

CONSTANTS p, q

VARIABLE scenario

mcVars == <<toolVars, scenario>>

\* Bounds on the next state of each scenario.
Within ==
    LET tabs == workspace.tabs
    IN  CASE scenario = "tabs" ->
                /\ lastRun = NoRun /\ printed = 0 /\ shells = {} /\ ~find.open
                /\ history = <<>> /\ cursors = <<>>
                /\ \A i \in DOMAIN tabs : tabs[i].profile = p
          [] scenario = "runs" ->
                /\ workspace.next <= 2
                /\ printed = 0 /\ ~find.open /\ cursors = <<>>
                /\ \A i \in DOMAIN tabs : tabs[i].profile = p /\ ~tabs[i].pinned
          [] scenario = "history" ->
                /\ workspace.next <= 2
                /\ lastRun = NoRun /\ printed = 0 /\ ~find.open
                /\ \A i \in DOMAIN tabs :
                      /\ ~tabs[i].pinned /\ tabs[i].id \in {i, 2} \cap shells
                      /\ tabs[i].id = 1 => tabs[i].profile = p
          [] scenario = "output" ->
                /\ workspace.next <= 2
                /\ input = NoDraft /\ lastRun = NoRun
                /\ history = <<>> /\ cursors = <<>>
                /\ \A i \in DOMAIN tabs : tabs[i].profile = p /\ ~tabs[i].pinned

\* In the scenario of runs the history is already at its bound.
Full == [n \in 1..MaxHistory |-> [profile |-> q, command |-> DefaultCommand]]

MCInit ==
    /\ scenario \in {"tabs", "runs", "history", "output"}
    /\ ToolsInit(IF scenario = "runs" THEN Full ELSE <<>>)

MCNext ==
    /\ ToolsNext
    /\ UNCHANGED scenario
    /\ Within'

MCSpec == MCInit /\ [][MCNext]_mcVars /\ Fairness
=============================================================================
