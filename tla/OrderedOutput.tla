--------------------------- MODULE OrderedOutput ---------------------------
(***************************************************************************)
(* What the GUI output batcher promises its callers: a stream of text      *)
(* fragments is appended to a terminal in the order in which it was        *)
(* queued, nothing lost and nothing twice, and a completion callback runs  *)
(* exactly once, in registration order, only after every fragment that had *)
(* been queued when it was registered is on the screen.                    *)
(*                                                                         *)
(* There is no lock, no GUI event queue and no batching here.              *)
(***************************************************************************)
EXTENDS Naturals, Sequences

CONSTANTS Fragments,   \* the text fragments a producer may queue
          Callbacks    \* the completion callbacks that may be registered

VARIABLES queued,      \* every fragment accepted so far, in order
          shown,       \* every fragment appended to the terminal so far
          registered,  \* every callback accepted so far with its output mark
          ran          \* the callbacks that have run, with their marks

vars == <<queued, shown, registered, ran>>

\* A callback together with the number of fragments queued before it.
Completion == [fn : Callbacks, mark : Nat]

Init ==
    /\ queued = <<>>
    /\ shown = <<>>
    /\ registered = <<>>
    /\ ran = <<>>

Queue ==
    /\ \E t \in Fragments : queued' = Append(queued, t)
    /\ UNCHANGED <<shown, registered, ran>>

\* One or more of the queued fragments reach the terminal, in order.
Show ==
    /\ \E n \in Len(shown) + 1 .. Len(queued) : shown' = SubSeq(queued, 1, n)
    /\ UNCHANGED <<queued, registered, ran>>

Register ==
    /\ \E f \in Callbacks :
          registered' = Append(registered, [fn |-> f, mark |-> Len(queued)])
    /\ UNCHANGED <<queued, shown, ran>>

\* The oldest callback that has not run runs, once its output is shown.
Run ==
    /\ Len(ran) < Len(registered)
    /\ registered[Len(ran) + 1].mark <= Len(shown)
    /\ ran' = Append(ran, registered[Len(ran) + 1])
    /\ UNCHANGED <<queued, shown, registered>>

Next == Queue \/ Show \/ Register \/ Run

Spec == Init /\ [][Next]_vars

\* The promise with progress: what was queued is shown, what was registered runs.
FairSpec == Spec /\ WF_vars(Show) /\ WF_vars(Run)
=============================================================================
