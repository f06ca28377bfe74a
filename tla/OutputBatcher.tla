--------------------------- MODULE OutputBatcher ---------------------------
(***************************************************************************)
(* guiOutputBatcher (guis/guis.go): command and PTY goroutines hand text   *)
(* to the single GUI thread through one mutex-protected buffer.  Each      *)
(* critical section of the code is one action; what the code does after an *)
(* unlock (calling schedule, appending to the widget, running callbacks)   *)
(* is an action of its own, so any other thread may act in between.        *)
(*                                                                         *)
(* queued, shown, registered and ran are history: they record the calls    *)
(* and their effects and guard nothing but the bounds.                     *)
(***************************************************************************)
EXTENDS Naturals, Sequences

CONSTANTS Callers,       \* the goroutines that call Enqueue and AfterFlush
          Fragments,     \* the texts they enqueue (never the empty string)
          Callbacks,     \* the functions they pass to AfterFlush
          MaxFragments,  \* bound on the number of Enqueue calls
          MaxCallbacks   \* bound on the number of AfterFlush calls

ASSUME BoundsAssumption == MaxFragments \in Nat /\ MaxCallbacks \in Nat

VARIABLES
    pending,     \* b.pending, a sequence of fragments
    after,       \* b.after, with the history mark of each function
    scheduled,   \* b.scheduled
    caller,      \* [Callers -> "ready" | "schedule"]
    posted,      \* drain callbacks waiting in the GUI event queue
    stage,         \* where the GUI thread is inside drain
    text,        \* drain's local text, taken from pending
    running,     \* drain's local after, the functions still to call
    queued, shown, registered, ran

batcher == <<pending, after, scheduled>>
history == <<queued, shown, registered, ran>>
batcherVars == <<batcher, caller, posted, stage, text, running, history>>

Completion == [fn : Callbacks, mark : Nat]
CallerStates == {"ready", "schedule"}
GuiStates == {"idle", "append", "recheck", "reschedule", "callbacks"}

BatcherTypeOK ==
    /\ pending \in Seq(Fragments)
    /\ after \in Seq(Completion)
    /\ scheduled \in BOOLEAN
    /\ caller \in [Callers -> CallerStates]
    /\ posted \in Nat
    /\ stage \in GuiStates
    /\ text \in Seq(Fragments)
    /\ running \in Seq(Completion)
    /\ queued \in Seq(Fragments)
    /\ shown \in Seq(Fragments)
    /\ registered \in Seq(Completion)
    /\ ran \in Seq(Completion)

BatcherInit ==
    /\ pending = <<>>
    /\ after = <<>>
    /\ scheduled = FALSE
    /\ caller = [c \in Callers |-> "ready"]
    /\ posted = 0
    /\ stage = "idle"
    /\ text = <<>>
    /\ running = <<>>
    /\ queued = <<>>
    /\ shown = <<>>
    /\ registered = <<>>
    /\ ran = <<>>

-----------------------------------------------------------------------------
\* Variant: the claim is made without recording it.
ClaimScheduleUnmarked(c) ==
    /\ scheduled' = scheduled
    /\ caller' = [caller EXCEPT ![c] = IF scheduled THEN "ready" ELSE "schedule"]

\* The common tail of Enqueue and AfterFlush, under b.mu: claim the single
\* callback, or leave it to whoever has claimed it already.
ClaimSchedule(c) ==
    /\ scheduled' = TRUE
    /\ caller' = [caller EXCEPT ![c] = IF scheduled THEN "ready" ELSE "schedule"]

Enqueue(c) ==
    /\ caller[c] = "ready"
    /\ Len(queued) < MaxFragments
    /\ \E t \in Fragments :
          /\ pending' = Append(pending, t)
          /\ queued' = Append(queued, t)
    /\ ClaimSchedule(c)
    /\ UNCHANGED <<after, posted, stage, text, running, shown, registered, ran>>

AfterFlush(c) ==
    /\ caller[c] = "ready"
    /\ Len(registered) < MaxCallbacks
    /\ \E f \in Callbacks :
          LET completion == [fn |-> f, mark |-> Len(queued)]
          IN  /\ after' = Append(after, completion)
              /\ registered' = Append(registered, completion)
    /\ ClaimSchedule(c)
    /\ UNCHANGED <<pending, posted, stage, text, running, queued, shown, ran>>

\* b.schedule(b.drain) after the unlock: Awake puts a callback in the GUI queue.
Schedule(c) ==
    /\ caller[c] = "schedule"
    /\ caller' = [caller EXCEPT ![c] = "ready"]
    /\ posted' = posted + 1
    /\ UNCHANGED <<batcher, stage, text, running, history>>

-----------------------------------------------------------------------------
\* drain, on the GUI thread.

\* The first critical section: take the whole buffer.
DrainTake ==
    /\ stage = "idle"
    /\ posted > 0
    /\ posted' = posted - 1
    /\ text' = pending
    /\ pending' = <<>>
    /\ stage' = IF pending = <<>> THEN "recheck" ELSE "append"
    /\ UNCHANGED <<after, scheduled, caller, running, history>>

\* b.append(text), without the lock.
DrainAppend ==
    /\ stage = "append"
    /\ shown' = shown \o text
    /\ text' = <<>>
    /\ stage' = "recheck"
    /\ UNCHANGED <<batcher, caller, posted, running, queued, registered, ran>>

\* Variant: the claim is given up without looking at pending again.
DrainRecheckBlindly ==
    /\ stage = "recheck"
    /\ running' = after
    /\ after' = <<>>
    /\ scheduled' = FALSE
    /\ stage' = "callbacks"
    /\ UNCHANGED <<pending, caller, posted, text, history>>

\* The second critical section: output that arrived during the append keeps the
\* claim for one more callback, otherwise the claim is given up and the functions
\* are taken.
DrainRecheck ==
    /\ stage = "recheck"
    /\ \/ /\ pending # <<>>
          /\ stage' = "reschedule"
          /\ UNCHANGED <<after, scheduled, running>>
       \/ /\ pending = <<>>
          /\ running' = after
          /\ after' = <<>>
          /\ scheduled' = FALSE
          /\ stage' = "callbacks"
    /\ UNCHANGED <<pending, caller, posted, text, history>>

DrainReschedule ==
    /\ stage = "reschedule"
    /\ posted' = posted + 1
    /\ stage' = "idle"
    /\ UNCHANGED <<batcher, caller, text, running, history>>

\* The loop over the taken functions, one call at a time.
DrainCallback ==
    /\ stage = "callbacks"
    /\ running # <<>>
    /\ ran' = Append(ran, Head(running))
    /\ running' = Tail(running)
    /\ UNCHANGED <<batcher, caller, posted, stage, text, queued, shown, registered>>

DrainReturn ==
    /\ stage = "callbacks"
    /\ running = <<>>
    /\ stage' = "idle"
    /\ UNCHANGED <<batcher, caller, posted, text, running, history>>

Drain ==
    \/ DrainTake \/ DrainAppend \/ DrainRecheck
    \/ DrainReschedule \/ DrainCallback \/ DrainReturn

BatcherNext ==
    \/ \E c \in Callers : Enqueue(c) \/ AfterFlush(c) \/ Schedule(c)
    \/ Drain

BatcherSpec == BatcherInit /\ [][BatcherNext]_batcherVars

\* The FLTK loop dispatches Awake callbacks and a goroutine that left the
\* critical section goes on to call schedule; nobody is obliged to enqueue.
FairSpec ==
    /\ BatcherSpec
    /\ WF_batcherVars(Drain)
    /\ \A c \in Callers : WF_batcherVars(Schedule(c))

-----------------------------------------------------------------------------
\* drain holds the claim from the moment it is dispatched until it gives it up.
GuiHoldsClaim == stage \in {"append", "recheck", "reschedule"}

\* guis.go promises "At most one GUI callback is pending at a time": the flag
\* scheduled is set exactly while one party - a caller about to schedule, the
\* GUI event queue, or a running drain - holds the claim, and never two.
SingleCallback ==
    /\ posted \in {0, 1}
    /\ \A c, d \in Callers :
          caller[c] = "schedule" /\ caller[d] = "schedule" => c = d
    /\ posted = 1 \/ GuiHoldsClaim => \A c \in Callers : caller[c] = "ready"
    /\ ~(posted = 1 /\ GuiHoldsClaim)
    /\ scheduled <=> \/ posted = 1
                      \/ GuiHoldsClaim
                      \/ \E c \in Callers : caller[c] = "schedule"

\* No wake-up is lost: text or a completion function that drain has not taken is
\* never left behind with no callback on its way, whatever arrives during an
\* append or while the completion functions run.
NoLostWakeup == pending # <<>> \/ after # <<>> => scheduled

\* AfterFlush's contract: a function that has run ran after every fragment queued
\* before its registration had been appended.
CompletionAfterOutput ==
    \A i \in DOMAIN ran : ran[i].mark <= Len(shown)

\* The batcher implements the ordered stream: fragments appear once and in the
\* order of Enqueue, functions run once and in the order of AfterFlush, and all of
\* them eventually do.
Ordered == INSTANCE OrderedOutput
OrderedDelivery == Ordered!FairSpec
=============================================================================
