-------------------------- MODULE InteractiveShell --------------------------
(***************************************************************************)
(* What an InteractiveSession promises the window (the interface in        *)
(* terminal/interactive_session.go), whichever backend implements it: the  *)
(* output reaches the window once and in order, and the exit is the last   *)
(* thing it is told, after all of the output - unless the session was      *)
(* closed in a way that abandons what it still had to say.                 *)
(***************************************************************************)
EXTENDS Naturals, Sequences

VARIABLES
    status,      \* "new", "running", or "exited" once the exit has been reported
    abandoned,   \* output that was not delivered yet may be lost
    produced,    \* stream -> number of chunks the shell has written
    delivered    \* stream -> the numbers of the chunks the window was given

vars == <<status, abandoned, produced, delivered>>

Init ==
    /\ status = "new"
    /\ abandoned = FALSE
    /\ \A s \in DOMAIN produced : produced[s] = 0 /\ delivered[s] = <<>>

Start ==
    /\ status = "new"
    /\ status' = "running"
    /\ UNCHANGED <<abandoned, produced, delivered>>

Abandon ==
    /\ status # "new"
    /\ abandoned' = TRUE
    /\ UNCHANGED <<status, produced, delivered>>

\* A job left behind may write on after the exit of an abandoned session.
Produce(s) ==
    /\ status = "running" \/ abandoned
    /\ produced' = [produced EXCEPT ![s] = @ + 1]
    /\ UNCHANGED <<status, abandoned, delivered>>

Deliver(s) ==
    /\ status = "running"
    /\ Len(delivered[s]) < produced[s]
    /\ delivered' = [delivered EXCEPT ![s] = Append(@, Len(@) + 1)]
    /\ UNCHANGED <<status, abandoned, produced>>

Exit ==
    /\ status = "running"
    /\ \/ \A s \in DOMAIN produced : Len(delivered[s]) = produced[s]
       \/ abandoned
    /\ status' = "exited"
    /\ UNCHANGED <<abandoned, produced, delivered>>

Next ==
    \/ Start \/ Abandon \/ Exit
    \/ \E s \in DOMAIN produced : Produce(s) \/ Deliver(s)

Spec == Init /\ [][Next]_vars
=============================================================================
