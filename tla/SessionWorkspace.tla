-------------------------- MODULE SessionWorkspace --------------------------
(***************************************************************************)
(* sessionWorkspace (guis/session_workspace.go): the ordered terminal tabs *)
(* of the window, which of them is active, and the profiles of recently    *)
(* closed tabs.  The type is a plain value owned by the GUI thread, so its *)
(* methods are operators from a workspace to a workspace; a method that    *)
(* returns false is a guard (Can...) with the workspace left as it was.    *)
(*                                                                         *)
(* Tab indexes count from 1 and active = 0 stands for the code's -1.  A    *)
(* runtime ID is its number; a tab's draft is the ID of the tab it was     *)
(* typed in (NoDraft when empty), which is all the properties distinguish; *)
(* a tab's output is a sequence of pieces.  Titles, bell and lock flags    *)
(* and the working directory, which only their own setters touch, are left *)
(* out.                                                                    *)
(***************************************************************************)
EXTENDS Naturals, SequencesExt

CONSTANTS Profiles,      \* saved connection profiles
          ClosedLimit    \* how many closed profiles are remembered, 20 in the code

ASSUME ClosedLimitAssumption == ClosedLimit \in Nat \ {0}

NoRun == 0
NoDraft == 0
FinalStatuses == {"succeeded", "failed", "stopped"}
Statuses == {"idle", "running"} \cup FinalStatuses

\* A piece of output: the tab it was produced for, and whether it has the text the
\* find window looks for.
Piece == [tab : Nat, hit : BOOLEAN]
Tab == [id : Nat, profile : Profiles, instance : Nat, draft : Nat, output : Seq(Piece),
        pinned : BOOLEAN, status : Statuses, run : Nat]
Workspace == [tabs : Seq(Tab), active : Nat, next : Nat, closed : Seq(Profiles)]

EmptyWorkspace == [tabs |-> <<>>, active |-> 0, next |-> 0, closed |-> <<>>]

IDs(w) == {w.tabs[i].id : i \in DOMAIN w.tabs}
IndexOf(w, id) == CHOOSE i \in DOMAIN w.tabs : w.tabs[i].id = id
TabOf(w, id) == w.tabs[IndexOf(w, id)]
ActiveID(w) == IF w.active \in DOMAIN w.tabs THEN w.tabs[w.active].id ELSE 0

\* Point active at the tab that was active in w, wherever it is in tabs now.
Reordered(w, tabs) ==
    LET moved == [w EXCEPT !.tabs = tabs]
    IN  IF ActiveID(w) \in IDs(moved)
        THEN [moved EXCEPT !.active = IndexOf(moved, ActiveID(w))]
        ELSE moved

\* Variant: the instance number counts the open tabs of the profile.
OpenCounting(w, p) ==
    LET same == {i \in DOMAIN w.tabs : w.tabs[i].profile = p}
        tab == [id |-> w.next + 1, profile |-> p, instance |-> Cardinality(same) + 1,
                draft |-> NoDraft, output |-> <<>>, pinned |-> FALSE, status |-> "idle", run |-> NoRun]
    IN  [w EXCEPT !.tabs = Append(@, tab), !.active = Len(w.tabs) + 1, !.next = @ + 1]

\* Open: the new tab is last and active, numbered above its profile's other tabs.
Open(w, p) ==
    LET same == {i \in DOMAIN w.tabs : w.tabs[i].profile = p}
        tab == [id |-> w.next + 1, profile |-> p,
                instance |-> Max({w.tabs[i].instance : i \in same} \cup {0}) + 1,
                draft |-> NoDraft, output |-> <<>>, pinned |-> FALSE, status |-> "idle", run |-> NoRun]
    IN  [w EXCEPT !.tabs = Append(@, tab), !.active = Len(w.tabs) + 1, !.next = @ + 1]

Select(w, index) == [w EXCEPT !.active = index]

SetActiveDraft(w, draft) ==
    IF w.active \in DOMAIN w.tabs THEN [w EXCEPT !.tabs[w.active].draft = draft] ELSE w

SetActiveOutput(w, output) ==
    IF w.active \in DOMAIN w.tabs THEN [w EXCEPT !.tabs[w.active].output = output] ELSE w

\* AppendOutput, for a tab that is open.
AppendOutput(w, id, piece) ==
    [w EXCEPT !.tabs[IndexOf(w, id)].output = Append(@, piece)]

\* Variant: tabs move across the boundary between pinned and ordinary ones.
CanMoveAnywhere(w, id, target) ==
    /\ id \in IDs(w)
    /\ target \in DOMAIN w.tabs
    /\ IndexOf(w, id) # target

CanMove(w, id, target) ==
    /\ id \in IDs(w)
    /\ target \in DOMAIN w.tabs
    /\ IndexOf(w, id) # target
    /\ TabOf(w, id).pinned = w.tabs[target].pinned

Move(w, id, target) ==
    Reordered(w, InsertAt(RemoveAt(w.tabs, IndexOf(w, id)), target, TabOf(w, id)))

PinnedPrefix(tabs) ==
    Max({n \in 0..Len(tabs) : \A i \in 1..n : tabs[i].pinned})

\* Variant: active keeps its number while the tabs shift under it.
SetPinnedInPlace(w, id, pinned) ==
    LET rest == RemoveAt(w.tabs, IndexOf(w, id))
    IN  IF TabOf(w, id).pinned = pinned
        THEN w
        ELSE [w EXCEPT !.tabs = InsertAt(rest, PinnedPrefix(rest) + 1,
                                         [TabOf(w, id) EXCEPT !.pinned = pinned])]

\* SetPinned: the tab goes to the end of the pinned ones, or to the front of the rest.
SetPinned(w, id, pinned) ==
    LET rest == RemoveAt(w.tabs, IndexOf(w, id))
    IN  IF TabOf(w, id).pinned = pinned
        THEN w
        ELSE Reordered(w, InsertAt(rest, PinnedPrefix(rest) + 1,
                                   [TabOf(w, id) EXCEPT !.pinned = pinned]))

CanBeginRun(w) == w.active \in DOMAIN w.tabs /\ w.tabs[w.active].status # "running"

BeginRun(w, run) ==
    [w EXCEPT !.tabs[w.active].status = "running", !.tabs[w.active].run = run]

\* FinishRun: the running tab with this token, if there is one.
FinishRun(w, run, status) ==
    [w EXCEPT !.tabs = [i \in DOMAIN w.tabs |->
        IF w.tabs[i].run = run /\ w.tabs[i].status = "running"
        THEN [w.tabs[i] EXCEPT !.status = status, !.run = NoRun]
        ELSE w.tabs[i]]]

\* Variant: a running tab may be closed.
CanCloseRunning(w, index) == index \in DOMAIN w.tabs /\ ~w.tabs[index].pinned

CanClose(w, index) ==
    /\ index \in DOMAIN w.tabs
    /\ w.tabs[index].status # "running"
    /\ ~w.tabs[index].pinned

Remember(closed, p) ==
    LET all == Append(closed, p)
    IN  IF Len(all) > ClosedLimit
        THEN SubSeq(all, Len(all) - ClosedLimit + 1, Len(all))
        ELSE all

\* Close: the active tab's right neighbour takes over, or the last tab; when
\* another tab is closed the active one stays active.
Close(w, index) ==
    LET rest == RemoveAt(w.tabs, index)
    IN  [w EXCEPT !.tabs = rest,
                  !.closed = Remember(@, w.tabs[index].profile),
                  !.active = CASE rest = <<>>   -> 0
                               [] index = @     -> Min({index, Len(rest)})
                               [] index < @     -> @ - 1
                               [] index > @     -> @]

CanReopenClosed(w) == w.closed # <<>>
ReopenLastClosed(w) == Open([w EXCEPT !.closed = Front(@)], Last(w.closed))

DuplicateActive(w) == Open(w, w.tabs[w.active].profile)
=============================================================================
