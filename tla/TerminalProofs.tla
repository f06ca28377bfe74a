-------------------------- MODULE TerminalProofs ----------------------------
(***************************************************************************)
(* Between a running shell and the tab that shows it: the registry of      *)
(* transports and the output batcher, for any tabs and transports, callers *)
(* and fragments, and all bounds.                                          *)
(*                                                                         *)
(* The batcher: fragments and functions each flow through three places in  *)
(* order (buffer, drain's local copy, done), and a completion's mark never *)
(* exceeds what has reached the stage that the completion itself has       *)
(* reached.  The registry: type correctness, exclusive ownership, the      *)
(* absence of orphans and the permanence of running shells.                *)
(***************************************************************************)
EXTENDS OutputBatcher, InteractiveRuntime, SequenceTheorems, TLAPS

-----------------------------------------------------------------------------
\* The output batcher.

\* A stream all in three parts: done, held by drain, and waiting.
Pipeline(all, done, held, waiting) ==
    /\ Len(all) = Len(done) + Len(held) + Len(waiting)
    /\ \A i \in 1 .. Len(done) : done[i] = all[i]
    /\ \A i \in 1 .. Len(held) : held[i] = all[Len(done) + i]
    /\ \A i \in 1 .. Len(waiting) : waiting[i] = all[Len(done) + Len(held) + i]

\* What was accepted is what is done, then what drain holds, then what waits.
Conserved ==
    /\ Pipeline(queued, shown, text, pending)
    /\ Pipeline(registered, ran, running, after)

\* drain's locals are empty outside the part of drain that uses them.
Locals ==
    /\ stage = "append" <=> text # <<>>
    /\ stage # "callbacks" => running = <<>>

\* Completions are never ahead of the output queued before them.
Marks ==
    /\ \A i \in DOMAIN after : after[i].mark <= Len(queued)
    /\ \A i \in DOMAIN running : running[i].mark <= Len(shown)
    /\ CompletionAfterOutput

BatcherInv ==
    /\ BatcherTypeOK
    /\ SingleCallback
    /\ NoLostWakeup
    /\ Conserved
    /\ Locals
    /\ Marks

-----------------------------------------------------------------------------
\* Accepting an element, taking what waits, finishing everything held, and
\* finishing the oldest element held all keep a stream in its three parts.
LEMMA PipelineAccept ==
    ASSUME NEW S, NEW q \in Seq(S), NEW a \in Seq(S), NEW b \in Seq(S), NEW c \in Seq(S),
           NEW e \in S, Pipeline(q, a, b, c)
    PROVE  Pipeline(Append(q, e), a, b, Append(c, e))
<1>. DEFINE q1 == Append(q, e)
            c1 == Append(c, e)
<1>1. Len(q) \in Nat /\ Len(a) \in Nat /\ Len(b) \in Nat /\ Len(c) \in Nat
  BY LenProperties
<1>2. /\ Len(q1) = Len(q) + 1
      /\ \A i \in 1 .. Len(q) : q1[i] = q[i]
      /\ q1[Len(q) + 1] = e
  BY AppendProperties
<1>3. /\ Len(c1) = Len(c) + 1
      /\ \A i \in 1 .. Len(c) : c1[i] = c[i]
      /\ c1[Len(c) + 1] = e
  BY AppendProperties
<1>. HIDE DEF q1, c1
<1>4. /\ Len(q) = Len(a) + Len(b) + Len(c)
      /\ \A i \in 1 .. Len(a) : i \in 1 .. Len(q) /\ a[i] = q[i]
      /\ \A i \in 1 .. Len(b) : Len(a) + i \in 1 .. Len(q) /\ b[i] = q[Len(a) + i]
      /\ \A i \in 1 .. Len(c) : /\ Len(a) + Len(b) + i \in 1 .. Len(q)
                               /\ c[i] = q[Len(a) + Len(b) + i]
  BY <1>1 DEF Pipeline
<1>5. Len(q1) = Len(a) + Len(b) + Len(c1)
  BY <1>1, <1>2, <1>3, <1>4
<1>6. \A i \in 1 .. Len(a) : a[i] = q1[i]
  BY <1>2, <1>4
<1>7. \A i \in 1 .. Len(b) : b[i] = q1[Len(a) + i]
  BY <1>2, <1>4
<1>8. \A i \in 1 .. Len(c1) : c1[i] = q1[Len(a) + Len(b) + i]
  <2>1. ASSUME NEW i \in 1 .. Len(c)
        PROVE  c1[i] = q1[Len(a) + Len(b) + i]
    BY <1>2, <1>3, <1>4
  <2>2. c1[Len(c) + 1] = q1[Len(a) + Len(b) + (Len(c) + 1)]
    <3>1. Len(a) + Len(b) + (Len(c) + 1) = Len(q) + 1
      BY <1>1, <1>4
    <3>. QED  BY <3>1, <1>2, <1>3
  <2>3. \A i \in 1 .. Len(c1) : i \in 1 .. Len(c) \/ i = Len(c) + 1
    BY <1>1, <1>3
  <2>. QED  BY <2>1, <2>2, <2>3
<1>9. Pipeline(q1, a, b, c1)
  BY <1>5, <1>6, <1>7, <1>8 DEF Pipeline
<1>. QED  BY <1>9 DEF q1, c1

LEMMA PipelineTake ==
    ASSUME NEW S, NEW q \in Seq(S), NEW a \in Seq(S), NEW c \in Seq(S),
           Pipeline(q, a, <<>>, c)
    PROVE  Pipeline(q, a, c, <<>>)
<1>1. Len(a) \in Nat /\ Len(c) \in Nat /\ Len(<<>>) = 0
  BY LenProperties, EmptySeq
<1>. QED  BY <1>1 DEF Pipeline

LEMMA PipelineFinish ==
    ASSUME NEW S, NEW q \in Seq(S), NEW a \in Seq(S), NEW b \in Seq(S), NEW c \in Seq(S),
           Pipeline(q, a, b, c)
    PROVE  Pipeline(q, a \o b, <<>>, c)
<1>. DEFINE a1 == a \o b
<1>1. Len(q) \in Nat /\ Len(a) \in Nat /\ Len(b) \in Nat /\ Len(c) \in Nat /\ Len(<<>>) = 0
  BY LenProperties, EmptySeq
<1>2. /\ Len(a1) = Len(a) + Len(b)
      /\ \A i \in 1 .. Len(a) + Len(b) : a1[i] = IF i <= Len(a) THEN a[i] ELSE b[i - Len(a)]
  BY ConcatProperties
<1>. HIDE DEF a1
<1>3. /\ Len(q) = Len(a) + Len(b) + Len(c)
      /\ \A i \in 1 .. Len(a) : a[i] = q[i]
      /\ \A i \in 1 .. Len(b) : b[i] = q[Len(a) + i]
      /\ \A i \in 1 .. Len(c) : c[i] = q[Len(a) + Len(b) + i]
  BY DEF Pipeline
<1>4. ASSUME NEW i \in 1 .. Len(a1)
      PROVE  a1[i] = q[i]
  <2>1. CASE i <= Len(a)
    BY <2>1, <1>1, <1>2, <1>3
  <2>2. CASE ~(i <= Len(a))
    <3>1. /\ i - Len(a) \in 1 .. Len(b)
          /\ Len(a) + (i - Len(a)) = i
      BY <2>2, <1>1, <1>2
    <3>2. a1[i] = b[i - Len(a)]
      BY <2>2, <1>1, <1>2
    <3>3. b[i - Len(a)] = q[Len(a) + (i - Len(a))]
      BY <3>1, <1>3
    <3>. QED  BY <3>1, <3>2, <3>3
  <2>. QED  BY <2>1, <2>2
<1>5. \A i \in 1 .. Len(c) : c[i] = q[Len(a1) + 0 + i]
  BY <1>1, <1>2, <1>3
<1>6. /\ Len(q) = Len(a1) + 0 + Len(c)
      /\ \A i \in 1 .. 0 : <<>>[i] = q[Len(a1) + i]
  BY <1>1, <1>2, <1>3
<1>7. Pipeline(q, a1, <<>>, c)
  BY <1>1, <1>4, <1>5, <1>6 DEF Pipeline
<1>. QED  BY <1>7 DEF a1

LEMMA PipelineFinishOne ==
    ASSUME NEW S, NEW q \in Seq(S), NEW a \in Seq(S), NEW b \in Seq(S), NEW c \in Seq(S),
           b # <<>>, Pipeline(q, a, b, c)
    PROVE  Pipeline(q, Append(a, Head(b)), Tail(b), c)
<1>. DEFINE a1 == Append(a, Head(b))
            b1 == Tail(b)
<1>1. Len(q) \in Nat /\ Len(a) \in Nat /\ Len(b) \in Nat \ {0} /\ Len(c) \in Nat
  BY LenProperties, EmptySeq
<1>2. /\ Head(b) \in S
      /\ Len(b1) = Len(b) - 1
      /\ \A i \in 1 .. Len(b1) : b1[i] = b[i + 1]
  BY HeadTailProperties
<1>3. Head(b) = b[1]
  BY <1>1
<1>4. /\ Len(a1) = Len(a) + 1
      /\ \A i \in 1 .. Len(a) : a1[i] = a[i]
      /\ a1[Len(a) + 1] = b[1]
  BY <1>2, <1>3, AppendProperties
<1>. HIDE DEF a1, b1
<1>5. /\ Len(q) = Len(a) + Len(b) + Len(c)
      /\ \A i \in 1 .. Len(a) : a[i] = q[i]
      /\ \A i \in 1 .. Len(b) : b[i] = q[Len(a) + i]
      /\ \A i \in 1 .. Len(c) : c[i] = q[Len(a) + Len(b) + i]
  BY DEF Pipeline
<1>6. Len(q) = Len(a1) + Len(b1) + Len(c) /\ Len(a1) + Len(b1) = Len(a) + Len(b)
  BY <1>1, <1>2, <1>4, <1>5
<1>7. ASSUME NEW i \in 1 .. Len(a1)
      PROVE  a1[i] = q[i]
  <2>1. CASE i \in 1 .. Len(a)
    BY <2>1, <1>4, <1>5
  <2>2. CASE i = Len(a) + 1
    <3>1. b[1] = q[Len(a) + 1]
      BY <1>1, <1>5
    <3>. QED  BY <2>2, <3>1, <1>4
  <2>. QED  BY <2>1, <2>2, <1>1, <1>4
<1>8. ASSUME NEW i \in 1 .. Len(b1)
      PROVE  b1[i] = q[Len(a1) + i]
  <2>1. i + 1 \in 1 .. Len(b) /\ Len(a) + (i + 1) = Len(a1) + i
    BY <1>1, <1>2, <1>4
  <2>2. b1[i] = b[i + 1] /\ b[i + 1] = q[Len(a) + (i + 1)]
    BY <2>1, <1>2, <1>5
  <2>. QED  BY <2>1, <2>2
<1>9. Pipeline(q, a1, b1, c)
  BY <1>5, <1>6, <1>7, <1>8 DEF Pipeline
<1>. QED  BY <1>9 DEF a1, b1

-----------------------------------------------------------------------------
LEMMA Initially == BatcherInit => BatcherInv
<1>. SUFFICES ASSUME BatcherInit PROVE BatcherInv
  OBVIOUS
<1>1. BatcherTypeOK
  BY EmptySeq DEF BatcherInit, BatcherTypeOK, CallerStates, GuiStates
<1>4. SingleCallback /\ NoLostWakeup /\ Locals
  BY DEF BatcherInit, SingleCallback, GuiHoldsClaim, NoLostWakeup, Locals
<1>2. Conserved
  BY DEF BatcherInit, Conserved, Pipeline
<1>3. Marks
  BY DEF BatcherInit, Marks, CompletionAfterOutput
<1>. QED  BY <1>1, <1>2, <1>3, <1>4 DEF BatcherInv

\* Type correctness of each step.
LEMMA TypeStep == BatcherTypeOK /\ Locals /\ [BatcherNext]_batcherVars => BatcherTypeOK'
<1>. SUFFICES ASSUME BatcherTypeOK, Locals, [BatcherNext]_batcherVars PROVE BatcherTypeOK'
  OBVIOUS
<1>. USE DEF BatcherTypeOK, CallerStates, GuiStates
<1>1. ASSUME NEW c \in Callers, Enqueue(c) PROVE BatcherTypeOK'
  <2>1. PICK t \in Fragments : pending' = Append(pending, t) /\ queued' = Append(queued, t)
    BY <1>1 DEF Enqueue
  <2>2. pending' \in Seq(Fragments) /\ queued' \in Seq(Fragments)
    BY <2>1, AppendProperties
  <2>. QED  BY <1>1, <2>2 DEF Enqueue, ClaimSchedule
<1>2. ASSUME NEW c \in Callers, AfterFlush(c) PROVE BatcherTypeOK'
  <2>1. PICK f \in Callbacks :
           /\ after' = Append(after, [fn |-> f, mark |-> Len(queued)])
           /\ registered' = Append(registered, [fn |-> f, mark |-> Len(queued)])
    BY <1>2 DEF AfterFlush
  <2>2. [fn |-> f, mark |-> Len(queued)] \in Completion
    BY LenProperties DEF Completion
  <2>3. after' \in Seq(Completion) /\ registered' \in Seq(Completion)
    BY <2>1, <2>2, AppendProperties
  <2>. QED  BY <1>2, <2>3 DEF AfterFlush, ClaimSchedule
<1>3. ASSUME NEW c \in Callers, Schedule(c) PROVE BatcherTypeOK'
  BY <1>3 DEF Schedule, batcher, history
<1>4. CASE DrainTake
  BY <1>4, EmptySeq DEF DrainTake, history
<1>5. CASE DrainAppend
  <2>1. shown' \in Seq(Fragments)
    BY <1>5, ConcatProperties DEF DrainAppend
  <2>. QED  BY <1>5, <2>1, EmptySeq DEF DrainAppend, batcher
<1>6. CASE DrainRecheck
  BY <1>6, EmptySeq DEF DrainRecheck, history
<1>7. CASE DrainReschedule
  BY <1>7 DEF DrainReschedule, batcher, history
<1>8. CASE DrainCallback
  <2>1. Head(running) \in Completion /\ Tail(running) \in Seq(Completion)
    BY <1>8, HeadTailProperties DEF DrainCallback
  <2>2. ran' \in Seq(Completion)
    BY <1>8, <2>1, AppendProperties DEF DrainCallback
  <2>. QED  BY <1>8, <2>1, <2>2 DEF DrainCallback, batcher
<1>9. CASE DrainReturn
  BY <1>9 DEF DrainReturn, batcher, history
<1>10. CASE UNCHANGED batcherVars
  BY <1>10 DEF batcherVars, batcher, history
<1>. QED
  BY <1>1, <1>2, <1>3, <1>4, <1>5, <1>6, <1>7, <1>8, <1>9, <1>10 DEF BatcherNext, Drain

\* The claim is passed on, given up or taken, but never shared.
LEMMA ClaimStep ==
    BatcherTypeOK /\ SingleCallback /\ [BatcherNext]_batcherVars => SingleCallback'
<1>. SUFFICES ASSUME BatcherTypeOK, SingleCallback, [BatcherNext]_batcherVars PROVE SingleCallback'
  OBVIOUS
<1>. USE DEF BatcherTypeOK, CallerStates, GuiStates, SingleCallback, GuiHoldsClaim
<1>1. ASSUME NEW c \in Callers, Enqueue(c) PROVE SingleCallback'
  BY <1>1 DEF Enqueue, ClaimSchedule
<1>2. ASSUME NEW c \in Callers, AfterFlush(c) PROVE SingleCallback'
  BY <1>2 DEF AfterFlush, ClaimSchedule
<1>3. ASSUME NEW c \in Callers, Schedule(c) PROVE SingleCallback'
  BY <1>3 DEF Schedule, batcher
<1>4. CASE DrainTake
  BY <1>4 DEF DrainTake
<1>5. CASE DrainAppend
  BY <1>5 DEF DrainAppend, batcher
<1>6. CASE DrainRecheck
  BY <1>6 DEF DrainRecheck
<1>7. CASE DrainReschedule
  BY <1>7 DEF DrainReschedule, batcher
<1>8. CASE DrainCallback
  BY <1>8 DEF DrainCallback, batcher
<1>9. CASE DrainReturn
  BY <1>9 DEF DrainReturn, batcher
<1>10. CASE UNCHANGED batcherVars
  BY <1>10 DEF batcherVars, batcher
<1>. QED
  BY <1>1, <1>2, <1>3, <1>4, <1>5, <1>6, <1>7, <1>8, <1>9, <1>10 DEF BatcherNext, Drain

\* A waiting fragment or function always has the claim behind it.
LEMMA WakeupStep ==
    BatcherTypeOK /\ SingleCallback /\ NoLostWakeup /\ [BatcherNext]_batcherVars => NoLostWakeup'
<1>. SUFFICES ASSUME BatcherTypeOK, SingleCallback, NoLostWakeup, [BatcherNext]_batcherVars
              PROVE  NoLostWakeup'
  OBVIOUS
<1>. USE DEF NoLostWakeup
<1>1. ASSUME NEW c \in Callers, Enqueue(c) \/ AfterFlush(c) PROVE NoLostWakeup'
  BY <1>1 DEF Enqueue, AfterFlush, ClaimSchedule
<1>2. ASSUME NEW c \in Callers, Schedule(c) PROVE NoLostWakeup'
  BY <1>2 DEF Schedule, batcher
<1>3. CASE DrainTake
  BY <1>3 DEF DrainTake
<1>4. CASE DrainRecheck
  BY <1>4 DEF DrainRecheck, SingleCallback, GuiHoldsClaim
<1>5. CASE DrainAppend \/ DrainReschedule \/ DrainCallback \/ DrainReturn
  BY <1>5 DEF DrainAppend, DrainReschedule, DrainCallback, DrainReturn, batcher
<1>6. CASE UNCHANGED batcherVars
  BY <1>6 DEF batcherVars, batcher
<1>. QED
  BY <1>1, <1>2, <1>3, <1>4, <1>5, <1>6 DEF BatcherNext, Drain

LEMMA LocalsStep == BatcherTypeOK /\ Locals /\ [BatcherNext]_batcherVars => Locals'
<1>. SUFFICES ASSUME BatcherTypeOK, Locals, [BatcherNext]_batcherVars PROVE Locals'
  OBVIOUS
<1>. USE DEF Locals
<1>1. ASSUME NEW c \in Callers, Enqueue(c) \/ AfterFlush(c) \/ Schedule(c)
      PROVE  Locals'
  BY <1>1 DEF Enqueue, AfterFlush, Schedule
<1>2. CASE DrainTake
  BY <1>2 DEF DrainTake
<1>3. CASE DrainAppend \/ DrainRecheck \/ DrainReschedule
  BY <1>3 DEF DrainAppend, DrainRecheck, DrainReschedule
<1>4. CASE DrainCallback \/ DrainReturn
  BY <1>4 DEF DrainCallback, DrainReturn
<1>5. CASE UNCHANGED batcherVars
  BY <1>5 DEF batcherVars
<1>. QED  BY <1>1, <1>2, <1>3, <1>4, <1>5 DEF BatcherNext, Drain

\* Nothing is lost, duplicated or reordered on its way through drain.
LEMMA ConservedStep ==
    BatcherTypeOK /\ Locals /\ Conserved /\ [BatcherNext]_batcherVars => Conserved'
<1>. SUFFICES ASSUME BatcherTypeOK, Locals, Conserved, [BatcherNext]_batcherVars PROVE Conserved'
  OBVIOUS
<1>. USE DEF BatcherTypeOK
<1>1. ASSUME NEW c \in Callers, Enqueue(c) PROVE Conserved'
  <2>1. PICK t \in Fragments : pending' = Append(pending, t) /\ queued' = Append(queued, t)
    BY <1>1 DEF Enqueue
  <2>2. Pipeline(queued', shown, text, pending')
    BY <2>1, PipelineAccept DEF Conserved
  <2>. QED  BY <1>1, <2>2 DEF Enqueue, Conserved
<1>2. ASSUME NEW c \in Callers, AfterFlush(c) PROVE Conserved'
  <2>1. PICK f \in Callbacks :
           /\ after' = Append(after, [fn |-> f, mark |-> Len(queued)])
           /\ registered' = Append(registered, [fn |-> f, mark |-> Len(queued)])
    BY <1>2 DEF AfterFlush
  <2>2. [fn |-> f, mark |-> Len(queued)] \in Completion
    BY LenProperties DEF Completion
  <2>3. Pipeline(registered', ran, running, after')
    BY <2>1, <2>2, PipelineAccept DEF Conserved
  <2>. QED  BY <1>2, <2>3 DEF AfterFlush, Conserved
<1>3. CASE DrainTake
  <2>1. text = <<>> /\ text' = pending /\ pending' = <<>>
    BY <1>3 DEF DrainTake, Locals
  <2>2. Pipeline(queued, shown, text', pending')
    BY <2>1, PipelineTake DEF Conserved
  <2>. QED  BY <1>3, <2>2 DEF DrainTake, history, Conserved
<1>4. CASE DrainAppend
  <2>1. Pipeline(queued, shown', text', pending)
    BY <1>4, PipelineFinish DEF DrainAppend, Conserved
  <2>. QED  BY <1>4, <2>1 DEF DrainAppend, batcher, Conserved
<1>5. CASE DrainRecheck
  <2>1. CASE pending # <<>>
    BY <1>5, <2>1 DEF DrainRecheck, history, Conserved
  <2>2. CASE pending = <<>>
    <3>1. running = <<>> /\ running' = after /\ after' = <<>>
      BY <1>5, <2>2 DEF DrainRecheck, Locals
    <3>2. Pipeline(registered, ran, running', after')
      BY <3>1, PipelineTake DEF Conserved
    <3>. QED  BY <1>5, <3>2 DEF DrainRecheck, history, Conserved
  <2>. QED  BY <2>1, <2>2
<1>6. CASE DrainCallback
  <2>1. Pipeline(registered, ran', running', after)
    BY <1>6, PipelineFinishOne DEF DrainCallback, Conserved
  <2>. QED  BY <1>6, <2>1 DEF DrainCallback, batcher, Conserved
<1>7. CASE \/ \E c \in Callers : Schedule(c)
           \/ DrainReschedule
           \/ DrainReturn
           \/ UNCHANGED batcherVars
  BY <1>7 DEF Schedule, DrainReschedule, DrainReturn, batcherVars, batcher, history, Conserved
<1>. QED
  BY <1>1, <1>2, <1>3, <1>4, <1>5, <1>6, <1>7 DEF BatcherNext, Drain

\* Once drain finds pending empty, everything queued is shown.
LEMMA AllShown ==
    ASSUME BatcherTypeOK, Locals, Conserved, stage = "recheck", pending = <<>>
    PROVE  Len(shown) = Len(queued)
<1>1. text = <<>> /\ Len(<<>>) = 0 /\ Len(shown) \in Nat
  BY EmptySeq, LenProperties DEF Locals, BatcherTypeOK
<1>2. Len(queued) = Len(shown) + Len(text) + Len(pending)
  BY DEF Conserved, Pipeline
<1>. QED  BY <1>1, <1>2

LEMMA MarkIsNumber ==
    ASSUME NEW s \in Seq(Completion), NEW i \in DOMAIN s
    PROVE  s[i].mark \in Nat
<1>1. i \in 1 .. Len(s)
  BY LenProperties
<1>2. s[i] \in Completion
  BY <1>1, ElementOfSeq
<1>. QED  BY <1>2 DEF Completion

\* A completion's mark follows the completion down the pipeline.
LEMMA MarksStep ==
    BatcherTypeOK /\ Locals /\ Conserved /\ Marks /\ [BatcherNext]_batcherVars => Marks'
<1>. SUFFICES ASSUME BatcherTypeOK, Locals, Conserved, Marks, [BatcherNext]_batcherVars PROVE Marks'
  OBVIOUS
<1>. USE DEF BatcherTypeOK
<1>1. ASSUME NEW c \in Callers, Enqueue(c) PROVE Marks'
  <2>1. Len(queued') = Len(queued) + 1 /\ Len(queued) \in Nat
    BY <1>1, AppendProperties, LenProperties DEF Enqueue
  <2>2. \A i \in DOMAIN after : after[i].mark \in Nat
    BY MarkIsNumber
  <2>3. UNCHANGED <<after, running, shown, ran>>
    BY <1>1 DEF Enqueue
  <2>4. \A i \in DOMAIN after : after[i].mark <= Len(queued')
    BY <2>1, <2>2 DEF Marks
  <2>. QED  BY <2>3, <2>4 DEF Marks, CompletionAfterOutput
<1>2. ASSUME NEW c \in Callers, AfterFlush(c) PROVE Marks'
  <2>1. PICK f \in Callbacks : after' = Append(after, [fn |-> f, mark |-> Len(queued)])
    BY <1>2 DEF AfterFlush
  <2>2. [fn |-> f, mark |-> Len(queued)] \in Completion
    BY LenProperties DEF Completion
  <2>3. /\ after' \in Seq(Completion)
        /\ Len(after') = Len(after) + 1
        /\ \A i \in 1 .. Len(after) : after'[i] = after[i]
        /\ after'[Len(after) + 1] = [fn |-> f, mark |-> Len(queued)]
    BY <2>1, <2>2, AppendProperties
  <2>4. /\ DOMAIN after = 1 .. Len(after) /\ DOMAIN after' = 1 .. Len(after')
        /\ Len(after) \in Nat /\ Len(queued) \in Nat
    BY <2>3, LenProperties
  <2>5. UNCHANGED <<queued, running, shown, ran>>
    BY <1>2 DEF AfterFlush
  <2>6. ASSUME NEW i \in DOMAIN after' PROVE after'[i].mark <= Len(queued)
    <3>1. CASE i \in 1 .. Len(after)
      BY <3>1, <2>3, <2>4 DEF Marks
    <3>2. CASE i = Len(after) + 1
      BY <3>2, <2>3, <2>4
    <3>. QED  BY <3>1, <3>2, <2>3, <2>4
  <2>. QED  BY <2>5, <2>6 DEF Marks, CompletionAfterOutput
<1>3. CASE DrainAppend
  <2>1. Len(shown') = Len(shown) + Len(text) /\ Len(shown) \in Nat /\ Len(text) \in Nat
    BY <1>3, ConcatProperties, LenProperties DEF DrainAppend
  <2>2. /\ \A i \in DOMAIN running : running[i].mark \in Nat
        /\ \A i \in DOMAIN ran : ran[i].mark \in Nat
    BY MarkIsNumber
  <2>3. UNCHANGED <<after, queued, running, ran>>
    BY <1>3 DEF DrainAppend, batcher
  <2>4. /\ \A i \in DOMAIN running : running[i].mark <= Len(shown')
        /\ \A i \in DOMAIN ran : ran[i].mark <= Len(shown')
    BY <2>1, <2>2 DEF Marks, CompletionAfterOutput
  <2>. QED  BY <2>3, <2>4 DEF Marks, CompletionAfterOutput
<1>4. CASE DrainRecheck
  <2>1. CASE pending # <<>>
    BY <1>4, <2>1 DEF DrainRecheck, history, Marks, CompletionAfterOutput
  <2>2. CASE pending = <<>>
    <3>1. Len(shown) = Len(queued)
      BY <1>4, <2>2, AllShown DEF DrainRecheck
    <3>2. running' = after /\ after' = <<>> /\ UNCHANGED <<queued, shown, ran>>
      BY <1>4, <2>2 DEF DrainRecheck, history
    <3>3. \A i \in DOMAIN running' : running'[i].mark <= Len(shown)
      BY <3>1, <3>2 DEF Marks
    <3>4. DOMAIN after' = {}
      BY <3>2
    <3>. QED  BY <3>2, <3>3, <3>4 DEF Marks, CompletionAfterOutput
  <2>. QED  BY <2>1, <2>2
<1>5. CASE DrainCallback
  <2>1. /\ Head(running) \in Completion
        /\ Tail(running) \in Seq(Completion)
        /\ Len(Tail(running)) = Len(running) - 1
        /\ \A i \in 1 .. Len(Tail(running)) : Tail(running)[i] = running[i + 1]
    BY <1>5, HeadTailProperties DEF DrainCallback
  <2>2. /\ Len(running) \in Nat \ {0} /\ DOMAIN running = 1 .. Len(running)
        /\ DOMAIN Tail(running) = 1 .. Len(Tail(running))
        /\ Head(running) = running[1]
    BY <1>5, <2>1, EmptySeq, LenProperties DEF DrainCallback
  <2>3. /\ Append(ran, Head(running)) \in Seq(Completion)
        /\ Len(Append(ran, Head(running))) = Len(ran) + 1
        /\ \A i \in 1 .. Len(ran) : Append(ran, Head(running))[i] = ran[i]
        /\ Append(ran, Head(running))[Len(ran) + 1] = Head(running)
    BY <2>1, AppendProperties
  <2>4. UNCHANGED <<after, queued, shown>> /\ running' = Tail(running)
        /\ ran' = Append(ran, Head(running))
    BY <1>5 DEF DrainCallback, batcher
  <2>5. ASSUME NEW i \in DOMAIN running' PROVE running'[i].mark <= Len(shown)
    <3>1. i + 1 \in DOMAIN running /\ running'[i] = running[i + 1]
      BY <2>1, <2>2, <2>4
    <3>. QED  BY <3>1 DEF Marks
  <2>6. ASSUME NEW i \in DOMAIN ran' PROVE ran'[i].mark <= Len(shown)
    <3>1. /\ DOMAIN ran' = 1 .. Len(ran) + 1 /\ DOMAIN ran = 1 .. Len(ran)
          /\ Len(ran) \in Nat
      BY <2>3, <2>4, LenProperties
    <3>2. CASE i \in 1 .. Len(ran)
      <4>1. ran'[i] = ran[i]
        BY <3>2, <2>3, <2>4
      <4>. QED  BY <3>1, <3>2, <4>1 DEF Marks, CompletionAfterOutput
    <3>3. CASE i = Len(ran) + 1
      <4>1. ran'[i] = running[1] /\ 1 \in DOMAIN running
        BY <3>3, <2>2, <2>3, <2>4
      <4>. QED  BY <4>1 DEF Marks
    <3>. QED  BY <3>1, <3>2, <3>3
  <2>. QED  BY <2>4, <2>5, <2>6 DEF Marks, CompletionAfterOutput
<1>6. CASE \/ \E c \in Callers : Schedule(c)
           \/ DrainTake
           \/ DrainReschedule
           \/ DrainReturn
           \/ UNCHANGED batcherVars
  BY <1>6 DEF Schedule, DrainTake, DrainReschedule, DrainReturn, batcherVars, batcher,
              history, Marks, CompletionAfterOutput
<1>. QED  BY <1>1, <1>2, <1>3, <1>4, <1>5, <1>6 DEF BatcherNext, Drain

-----------------------------------------------------------------------------
\* The batcher's invariant, for any number of producers and any amount of output.
THEOREM BatcherInvariance == BatcherSpec => []BatcherInv
<1>1. BatcherInit => BatcherInv
  BY Initially
<1>2. BatcherInv /\ [BatcherNext]_batcherVars => BatcherInv'
  BY TypeStep, ClaimStep, WakeupStep, LocalsStep, ConservedStep, MarksStep DEF BatcherInv
<1>. QED  BY <1>1, <1>2, PTL DEF BatcherSpec

\* Every variable of the batcher keeps its type.
THEOREM BatcherTypeCorrect == BatcherSpec => []BatcherTypeOK
<1>1. BatcherInv => BatcherTypeOK
  BY DEF BatcherInv
<1>. QED  BY <1>1, BatcherInvariance, PTL

\* guis.go's "At most one GUI callback is pending at a time".
THEOREM OneCallback == BatcherSpec => []SingleCallback
<1>1. BatcherInv => SingleCallback
  BY DEF BatcherInv
<1>. QED  BY <1>1, BatcherInvariance, PTL

\* Text and functions never wait without a callback on its way.
THEOREM WakeupNeverLost == BatcherSpec => []NoLostWakeup
<1>1. BatcherInv => NoLostWakeup
  BY DEF BatcherInv
<1>. QED  BY <1>1, BatcherInvariance, PTL

\* AfterFlush runs a function only behind the output queued before it.
THEOREM CompletionOrdered == BatcherSpec => []CompletionAfterOutput
<1>1. BatcherInv => CompletionAfterOutput
  BY DEF BatcherInv, Marks
<1>. QED  BY <1>1, BatcherInvariance, PTL

-----------------------------------------------------------------------------
\* The batcher's steps are steps of the ordered stream or change nothing it sees.
LEMMA RefinesStep == BatcherInv /\ [BatcherNext]_batcherVars => [Ordered!Next]_(Ordered!vars)
<1>. SUFFICES ASSUME BatcherInv, [BatcherNext]_batcherVars PROVE [Ordered!Next]_(Ordered!vars)
  OBVIOUS
<1>. USE DEF BatcherInv, BatcherTypeOK
<1>1. ASSUME NEW c \in Callers, Enqueue(c) PROVE Ordered!Queue
  BY <1>1 DEF Enqueue, Ordered!Queue
<1>2. ASSUME NEW c \in Callers, AfterFlush(c) PROVE Ordered!Register
  BY <1>2 DEF AfterFlush, Ordered!Register
<1>3. CASE DrainAppend
  <2>. DEFINE n == Len(shown')
  <2>1. /\ Len(shown) \in Nat /\ Len(text) \in Nat \ {0} /\ Len(pending) \in Nat
    BY <1>3, EmptySeq, LenProperties DEF DrainAppend, Locals
  <2>2. /\ shown' \in Seq(Fragments)
        /\ Len(shown') = Len(shown) + Len(text)
        /\ \A i \in 1 .. Len(shown) + Len(text) :
              shown'[i] = IF i <= Len(shown) THEN shown[i] ELSE text[i - Len(shown)]
    BY <1>3, ConcatProperties DEF DrainAppend
  <2>3. /\ Len(queued) = Len(shown) + Len(text) + Len(pending)
        /\ \A i \in 1 .. Len(shown) : shown[i] = queued[i]
        /\ \A i \in 1 .. Len(text) : text[i] = queued[Len(shown) + i]
    BY DEF Conserved, Pipeline
  <2>4. n \in Len(shown) + 1 .. Len(queued)
    BY <2>1, <2>2, <2>3
  <2>5. ASSUME NEW i \in 1 .. n PROVE shown'[i] = queued[i]
    <3>1. CASE i <= Len(shown)
      <4>1. i \in 1 .. Len(shown) /\ shown'[i] = shown[i]
        BY <3>1, <2>1, <2>2
      <4>. QED  BY <4>1, <2>3
    <3>2. CASE ~(i <= Len(shown))
      <4>1. i - Len(shown) \in 1 .. Len(text) /\ Len(shown) + (i - Len(shown)) = i
        BY <3>2, <2>1, <2>2
      <4>2. shown'[i] = text[i - Len(shown)]
        BY <3>2, <2>1, <2>2
      <4>3. text[i - Len(shown)] = queued[Len(shown) + (i - Len(shown))]
        BY <4>1, <2>3
      <4>. QED  BY <4>1, <4>2, <4>3
    <3>. QED  BY <3>1, <3>2
  <2>6. shown' = SubSeq(queued, 1, n)
    <3>1. \A i \in 1 .. n : queued[i] \in Fragments
      BY <2>1, <2>2, <2>3, ElementOfSeq
    <3>2. /\ SubSeq(queued, 1, n) \in Seq(Fragments)
          /\ Len(SubSeq(queued, 1, n)) = n
          /\ \A i \in 1 .. n : SubSeq(queued, 1, n)[i] = queued[i]
      BY <3>1, <2>1, <2>2, SubSeqProperties
    <3>. QED  BY <2>2, <2>5, <3>2, SeqEqual
  <2>. QED  BY <1>3, <2>4, <2>6 DEF DrainAppend, Ordered!Next, Ordered!Show
<1>4. CASE DrainCallback
  <2>1. /\ Len(ran) \in Nat /\ Len(running) \in Nat \ {0} /\ Len(after) \in Nat
        /\ Head(running) = running[1] /\ DOMAIN running = 1 .. Len(running)
    BY <1>4, EmptySeq, LenProperties DEF DrainCallback
  <2>2. /\ Len(registered) = Len(ran) + Len(running) + Len(after)
        /\ running[1] = registered[Len(ran) + 1]
    BY <2>1 DEF Conserved, Pipeline
  <2>3. running[1].mark <= Len(shown)
    <3>1. 1 \in DOMAIN running
      BY <2>1
    <3>. QED  BY <3>1 DEF Marks
  <2>. QED  BY <1>4, <2>1, <2>2, <2>3 DEF DrainCallback, Ordered!Next, Ordered!Run
<1>5. CASE \/ \E c \in Callers : Schedule(c)
           \/ DrainTake \/ DrainRecheck \/ DrainReschedule \/ DrainReturn
           \/ UNCHANGED batcherVars
  BY <1>5 DEF Schedule, DrainTake, DrainRecheck, DrainReschedule, DrainReturn,
              batcherVars, history, Ordered!vars
<1>. QED
  BY <1>1, <1>2, <1>3, <1>4, <1>5 DEF BatcherNext, Drain, Ordered!Next

\* The batcher delivers an ordered stream: every behaviour of the code is one of
\* the abstract specification (its progress is left to the model checker).
THEOREM Refinement == BatcherSpec => Ordered!Spec
<1>1. BatcherInit => Ordered!Init
  BY DEF BatcherInit, Ordered!Init
<1>. QED  BY <1>1, RefinesStep, BatcherInvariance, PTL DEF BatcherSpec, Ordered!Spec

-----------------------------------------------------------------------------
\* The registry of interactive transports.

\* Ownership alone is not inductive: a transport about to be registered must be new,
\* or it could be somebody else's already, and the tab of a pending prompt must stay
\* open, or the answer would register a transport at a closed tab.
Registered ==
    /\ \A tab \in Tabs : Has(tab) => transport[runtimes[tab]].phase # "new"
    /\ gui \in Prompt => /\ gui.tab \in open
                         /\ New(gui.transport)

IInv == TypeOK /\ ExclusiveOwnership /\ NoOrphan /\ Registered

\* Callbacks follow the end of their transport.
CallbacksOrdered(r) ==
    /\ r.phase = "new" => r = Fresh
    /\ r.drained => r.phase = "ended"
    /\ r.exit => r.drained

\* The registry and the transports, without the handler in progress.
Served ==
    /\ runtimes \in [Tabs -> Transports \cup {NoTransport}]
    /\ transport \in [Transports -> Transport]
    /\ \A t \in Transports : CallbacksOrdered(transport[t])
    /\ ExclusiveOwnership
    /\ NoOrphan
    /\ \A tab \in Tabs : Has(tab) => transport[runtimes[tab]].phase # "new"

LEMMA IInvServed == IInv => Served
  BY DEF IInv, TypeOK, Registered, Served, CallbacksOrdered

\* The transport just started.
JustStarted(r, tab) ==
    /\ r.phase = "live" /\ r.tab = tab /\ r.closed = FALSE
    /\ r.drained = FALSE /\ r.exit = FALSE

LEMMA StartedOnly ==
    ASSUME transport \in [Transports -> Transport],
           NEW tab \in Tabs, NEW t \in Transports, transport[t] = Fresh
    PROVE  /\ StartedFor(t, tab) \in [Transports -> Transport]
           /\ JustStarted(StartedFor(t, tab)[t], tab)
           /\ \A u \in Transports \ {t} : StartedFor(t, tab)[u] = transport[u]
  <1> DEFINE started == [Fresh EXCEPT !.phase = "live", !.tab = tab]
  <1>1. StartedFor(t, tab) = [transport EXCEPT ![t] = started]
    BY DEF StartedFor
  <1>2. started \in Transport /\ JustStarted(started, tab)
    BY DEF Transport, Fresh, JustStarted
  <1> HIDE DEF started
  <1> QED
    BY <1>1, <1>2

LEMMA StartServes ==
    ASSUME Served, open \subseteq open', NEW tab \in Tabs, tab \in open',
           NEW t \in Transports, New(t), Start(tab, t)
    PROVE  Served'
  <1>1. /\ transport' \in [Transports -> Transport]
        /\ JustStarted(transport'[t], tab)
        /\ \A u \in Transports \ {t} : transport'[u] = transport[u]
    <2>1. transport[t] = Fresh
      BY DEF Served, New, CallbacksOrdered
    <2>2. transport \in [Transports -> Transport]
      BY DEF Served
    <2> QED
      BY <2>1, <2>2, StartedOnly DEF Start
  <1>2. /\ runtimes' \in [Tabs -> Transports \cup {NoTransport}]
        /\ runtimes'[tab] = t
        /\ \A x \in Tabs \ {tab} : runtimes'[x] = runtimes[x]
    BY DEF Served, Start
  <1>3. \A x \in Tabs : runtimes[x] # t
    BY RuntimeAssumption DEF Served, Has, New
  <1>4. runtimes[tab] = NoTransport
    BY DEF Start, Has
  <1>5. \A u \in Transports : CallbacksOrdered(transport'[u])
    <2>1. CallbacksOrdered(transport'[t])
      BY <1>1 DEF CallbacksOrdered, JustStarted
    <2> QED
      BY <1>1, <2>1 DEF Served
  <1>6. ExclusiveOwnership'
    BY <1>1, <1>2, <1>3 DEF Served, ExclusiveOwnership, Has, JustStarted
  <1>7. NoOrphan'
    BY <1>1, <1>2, <1>4, RuntimeAssumption DEF Served, NoOrphan, Running
  <1>8. \A x \in Tabs : Has(x)' => transport'[runtimes'[x]].phase # "new"
    BY <1>1, <1>2, <1>3 DEF Served, Has, JustStarted
  <1> QED
    BY <1>1, <1>2, <1>5, <1>6, <1>7, <1>8 DEF Served

LEMMA ReplaceServes ==
    ASSUME Served, open \subseteq open', NEW tab \in Tabs, tab \in open',
           NEW t \in Transports, New(t), Replace(tab, t)
    PROVE  Served'
  <1>1. PICK old \in Transports : old = runtimes[tab] /\ old # t /\ transport[old].tab = tab
    BY DEF Served, Replace, Has, New, ExclusiveOwnership
  <1>2. /\ StartedFor(t, tab) \in [Transports -> Transport]
        /\ JustStarted(StartedFor(t, tab)[t], tab)
        /\ \A u \in Transports \ {t} : StartedFor(t, tab)[u] = transport[u]
    <2>1. transport[t] = Fresh
      BY DEF Served, New, CallbacksOrdered
    <2>2. transport \in [Transports -> Transport]
      BY DEF Served
    <2> QED
      BY <2>1, <2>2, StartedOnly
  <1>3. /\ transport' \in [Transports -> Transport]
        /\ JustStarted(transport'[t], tab)
        /\ transport'[old] = [transport[old] EXCEPT !.closed = TRUE]
        /\ \A u \in Transports \ {t, old} : transport'[u] = transport[u]
    <2>1. transport' = [StartedFor(t, tab) EXCEPT
                          ![old] = [transport[old] EXCEPT !.closed = TRUE]]
      BY <1>1, <1>2 DEF Replace
    <2>2. [transport[old] EXCEPT !.closed = TRUE] \in Transport
      <3>1. transport[old] \in Transport
        BY <1>1 DEF Served
      <3> QED
        BY <3>1 DEF Transport
    <2> DEFINE closed == [transport[old] EXCEPT !.closed = TRUE]
    <2> HIDE DEF closed
    <2>3. transport' = [StartedFor(t, tab) EXCEPT ![old] = closed] /\ closed \in Transport
      BY <2>1, <2>2 DEF closed
    <2>4. transport' \in [Transports -> Transport] /\ transport'[old] = closed
      BY <1>1, <1>2, <2>3
    <2>5. \A u \in Transports \ {old} : transport'[u] = StartedFor(t, tab)[u]
      BY <1>1, <1>2, <2>3
    <2> QED
      BY <1>1, <1>2, <2>4, <2>5 DEF closed
  <1>4. /\ runtimes' \in [Tabs -> Transports \cup {NoTransport}]
        /\ runtimes'[tab] = t
        /\ \A x \in Tabs \ {tab} : runtimes'[x] = runtimes[x]
    BY DEF Served, Replace
  <1>5. \A x \in Tabs : runtimes[x] # t
    BY RuntimeAssumption DEF Served, Has, New
  <1>6. \A x \in Tabs \ {tab} : runtimes[x] # old
    BY <1>1, RuntimeAssumption DEF Served, Has, ExclusiveOwnership
  <1>7. /\ transport'[old].phase = transport[old].phase
        /\ transport'[old].drained = transport[old].drained
        /\ transport'[old].exit = transport[old].exit
        /\ transport'[old].closed
    BY <1>1, <1>3 DEF Served, Transport
  <1>8. transport[old].phase # "new"
    BY <1>1 DEF Served, Replace
  <1>9. \A u \in Transports : CallbacksOrdered(transport'[u])
    <2>1. CallbacksOrdered(transport'[t])
      BY <1>3 DEF CallbacksOrdered, JustStarted
    <2>2. CallbacksOrdered(transport'[old])
      BY <1>1, <1>7, <1>8 DEF Served, CallbacksOrdered
    <2> QED
      BY <1>3, <2>1, <2>2 DEF Served
  <1>10. ExclusiveOwnership'
    <2> SUFFICES ASSUME NEW x \in Tabs, Has(x)'
                 PROVE  /\ x \in open'
                        /\ transport'[runtimes'[x]].tab = x
                        /\ ~transport'[runtimes'[x]].closed
      BY DEF ExclusiveOwnership
    <2>1. CASE x = tab
      BY <1>3, <1>4, <2>1 DEF JustStarted
    <2>2. CASE x # tab
      <3>1. runtimes'[x] = runtimes[x] /\ Has(x)
        BY <1>4, <2>2 DEF Has
      <3>2. runtimes[x] \in Transports \ {t, old}
        BY <3>1, <1>5, <1>6, <2>2 DEF Served, Has
      <3> QED
        BY <1>3, <3>1, <3>2 DEF Served, ExclusiveOwnership
    <2> QED
      BY <2>1, <2>2
  <1>11. NoOrphan'
    <2> SUFFICES ASSUME NEW u \in Transports, Running(u)'
                 PROVE  \E x \in Tabs : runtimes'[x] = u
      BY DEF NoOrphan
    <2>1. u # old
      BY <1>7 DEF Running
    <2>2. CASE u = t
      BY <1>4, <2>2
    <2>3. CASE u # t
      <3>1. Running(u)
        BY <1>3, <2>1, <2>3 DEF Running
      <3>2. PICK x \in Tabs : runtimes[x] = u
        BY <3>1 DEF Served, NoOrphan
      <3> QED
        BY <1>1, <1>4, <2>1, <3>2
    <2> QED
      BY <2>2, <2>3
  <1>12. \A x \in Tabs : Has(x)' => transport'[runtimes'[x]].phase # "new"
    <2> SUFFICES ASSUME NEW x \in Tabs, Has(x)'
                 PROVE  transport'[runtimes'[x]].phase # "new"
      OBVIOUS
    <2>1. CASE x = tab
      BY <1>3, <1>4, <2>1 DEF JustStarted
    <2>2. CASE x # tab
      <3>1. runtimes'[x] = runtimes[x] /\ Has(x)
        BY <1>4, <2>2 DEF Has
      <3>2. runtimes[x] \in Transports \ {t, old}
        BY <3>1, <1>5, <1>6, <2>2 DEF Served, Has
      <3> QED
        BY <1>3, <3>1, <3>2 DEF Served
    <2> QED
      BY <2>1, <2>2
  <1> QED
    BY <1>3, <1>4, <1>9, <1>10, <1>11, <1>12 DEF Served

\* What register does, whatever its outcome, keeps every tab served.
LEMMA RegisterServes ==
    ASSUME Served, open \subseteq open', NEW tab \in Tabs, tab \in open',
           NEW t \in Transports, New(t), NEW replace \in BOOLEAN,
           Register(tab, t, replace)
    PROVE  Served'
  <1>1. CASE Start(tab, t)
    BY <1>1, StartServes
  <1>2. CASE Replace(tab, t)
    BY <1>2, ReplaceServes
  <1>3. CASE RegisterFails
    BY <1>3 DEF RegisterFails, Served, ExclusiveOwnership, NoOrphan, Has, Running
  <1> QED
    BY <1>1, <1>2, <1>3 DEF Register

-----------------------------------------------------------------------------
\* IInv after a step, from its parts.
LEMMA IInvFromServed ==
    ASSUME Served', open' \subseteq opened', opened' \subseteq Tabs,
           gui' \in Prompt \cup {Idle, Quitting},
           gui' \in Prompt => gui'.tab \in open' /\ transport'[gui'.transport].phase = "new"
    PROVE  IInv'
  BY DEF IInv, TypeOK, Registered, Served, CallbacksOrdered, New

\* A transport that is closed, and one that quitting passes by.
LEMMA ClosedTransport ==
    ASSUME NEW r \in Transport
    PROVE  /\ [r EXCEPT !.closed = TRUE] \in Transport
           /\ [r EXCEPT !.closed = TRUE].closed
           /\ CallbacksOrdered(r) /\ r.phase # "new" => CallbacksOrdered([r EXCEPT !.closed = TRUE])
  <1> DEFINE q == [r EXCEPT !.closed = TRUE]
  <1>1. /\ q \in Transport /\ q.closed = TRUE
        /\ q.phase = r.phase /\ q.drained = r.drained /\ q.exit = r.exit
    BY DEF Transport
  <1> HIDE DEF q
  <1>2. CallbacksOrdered(r) /\ r.phase # "new" => CallbacksOrdered(q)
    BY <1>1 DEF CallbacksOrdered
  <1> QED
    BY <1>1, <1>2 DEF q

LEMMA QuitTransport ==
    ASSUME NEW r \in Transport, NEW reached \in BOOLEAN
    PROVE  [r EXCEPT !.closed = @ \/ reached]
             = IF reached THEN [r EXCEPT !.closed = TRUE] ELSE r
  BY DEF Transport

\* A transport later in its life, with nothing changed that ownership is about.
Later(q, r) ==
    /\ q \in Transport /\ CallbacksOrdered(q) /\ q.phase # "new"
    /\ q.tab = r.tab /\ q.closed = r.closed
    /\ q.phase = "live" => r.phase = "live"

\* What the callbacks, the transport and its drainer do to the record.
LEMMA LaterRecords ==
    ASSUME NEW r \in Transport, CallbacksOrdered(r)
    PROVE  /\ r.output => Later([r EXCEPT !.output = FALSE], r)
           /\ r.exit => Later([r EXCEPT !.exit = FALSE], r)
           /\ r.phase = "live" => Later([r EXCEPT !.output = TRUE], r)
           /\ r.phase = "live" => Later([r EXCEPT !.phase = "ended"], r)
           /\ r.phase = "ended" => Later([r EXCEPT !.drained = TRUE, !.exit = TRUE], r)
  <1>1. ASSUME r.output
        PROVE  Later([r EXCEPT !.output = FALSE], r)
    <2>1. r # Fresh
      BY <1>1 DEF Fresh
    <2>2. r.phase # "new"
      BY <2>1 DEF CallbacksOrdered
    <2> DEFINE q == [r EXCEPT !.output = FALSE]
    <2>3. /\ q \in Transport /\ q.tab = r.tab /\ q.closed = r.closed
          /\ q.phase = r.phase /\ q.drained = r.drained /\ q.exit = r.exit
      BY DEF Transport
    <2> HIDE DEF q
    <2>4. Later(q, r)
      BY <2>2, <2>3 DEF Later, CallbacksOrdered
    <2> QED
      BY <2>4 DEF q
  <1>2. r.exit => Later([r EXCEPT !.exit = FALSE], r)
    BY DEF Later, CallbacksOrdered, Transport, Fresh
  <1>3. r.phase = "live" => Later([r EXCEPT !.output = TRUE], r)
    BY DEF Later, CallbacksOrdered, Transport
  <1>4. r.phase = "live" => Later([r EXCEPT !.phase = "ended"], r)
    BY DEF Later, CallbacksOrdered, Transport
  <1>5. r.phase = "ended" => Later([r EXCEPT !.drained = TRUE, !.exit = TRUE], r)
    BY DEF Later, CallbacksOrdered, Transport
  <1> QED
    BY <1>1, <1>2, <1>3, <1>4, <1>5

\* A step of one transport.
LEMMA TransportStep ==
    ASSUME Served, NEW t \in Transports, NEW r,
           transport' = [transport EXCEPT ![t] = r], Later(r, transport[t]),
           UNCHANGED <<open, runtimes>>
    PROVE  Served'
  <1>1. /\ transport' \in [Transports -> Transport]
        /\ transport'[t] = r
        /\ \A u \in Transports \ {t} : transport'[u] = transport[u]
    BY DEF Served, Later
  <1>2. \A u \in Transports : CallbacksOrdered(transport'[u])
    BY <1>1 DEF Later, Served
  <1>3. ExclusiveOwnership'
    BY <1>1 DEF Later, Served, ExclusiveOwnership, Has
  <1>4. NoOrphan'
    BY <1>1 DEF Later, Served, NoOrphan, Running
  <1>5. \A tab \in Tabs : Has(tab)' => transport'[runtimes'[tab]].phase # "new"
    BY <1>1 DEF Later, Served, Has
  <1> QED
    BY <1>1, <1>2, <1>3, <1>4, <1>5 DEF Served

\* An installation keeps the prompt's promises, too.
LEMMA InstallKeeps ==
    ASSUME IInv, gui = Idle, NEW tab \in Tabs, NEW replace \in BOOLEAN,
           open \subseteq open', open' \subseteq opened', opened' \subseteq Tabs,
           tab \in open', Install(tab, replace)
    PROVE  IInv'
  <1>1. Served
    BY IInvServed
  <1>2. PICK t \in Transports :
          /\ New(t)
          /\ \/ Register(tab, t, replace) /\ UNCHANGED gui
             \/ /\ gui' = [op |-> "prompt", tab |-> tab, transport |-> t,
                           replace |-> replace]
                /\ UNCHANGED <<runtimes, transport>>
    BY DEF Install
  <1>3. CASE Register(tab, t, replace) /\ UNCHANGED gui
    <2>1. Served'
      BY <1>1, <1>2, <1>3, RegisterServes
    <2>2. gui' = Idle /\ gui' \notin Prompt
      BY <1>3 DEF Idle, Prompt
    <2> QED
      BY <2>1, <2>2, IInvFromServed
  <1>4. CASE /\ gui' = [op |-> "prompt", tab |-> tab, transport |-> t,
                        replace |-> replace]
             /\ UNCHANGED <<runtimes, transport>>
    <2>1. Served'
      BY <1>1, <1>4 DEF Served, ExclusiveOwnership, NoOrphan, Has, Running
    <2>2. gui' \in Prompt
      BY <1>4 DEF Prompt
    <2>3. gui'.tab \in open' /\ transport'[gui'.transport].phase = "new"
      BY <1>2, <1>4 DEF New
    <2> QED
      BY <2>1, <2>2, <2>3, IInvFromServed
  <1> QED
    BY <1>2, <1>3, <1>4

LEMMA InitIInv == Init => IInv
  BY RuntimeAssumption
     DEF Init, IInv, TypeOK, Registered, ExclusiveOwnership, NoOrphan, Has, Running,
         Transport, Fresh, Idle, Prompt

\* Every step keeps the invariant.
LEMMA NextIInv == IInv /\ [Next]_vars => IInv'
  <1> SUFFICES ASSUME IInv, [Next]_vars
               PROVE  IInv'
    OBVIOUS
  <1>1. /\ Served
        /\ open \subseteq opened /\ opened \subseteq Tabs
        /\ gui \in Prompt \cup {Idle, Quitting}
        /\ gui \in Prompt => gui.tab \in open /\ transport[gui.transport].phase = "new"
    BY IInvServed DEF IInv, TypeOK, Registered, New
  <1>2. Idle \notin Prompt /\ Quitting \notin Prompt
    BY DEF Idle, Quitting, Prompt
  <1>3. ASSUME NEW tab \in Tabs, OpenTab(tab)
        PROVE  IInv'
    BY <1>1, <1>3, InstallKeeps DEF OpenTab
  <1>4. ASSUME NEW tab \in Tabs, RunCommand(tab)
        PROVE  IInv'
    BY <1>1, <1>4, InstallKeeps DEF RunCommand
  <1>5. ASSUME NEW tab \in Tabs, Reconnect(tab)
        PROVE  IInv'
    BY <1>1, <1>5, InstallKeeps DEF Reconnect, Has
  <1>6. ASSUME NEW tab \in Tabs, CloseTab(tab)
        PROVE  IInv'
    <2>1. Served'
      <3>1. CASE Has(tab)
        <4>1. PICK old \in Transports :
                old = runtimes[tab] /\ transport[old].tab = tab /\ transport[old].phase # "new"
          BY <1>1, <3>1 DEF Served, Has, ExclusiveOwnership
        <4>2. /\ runtimes' \in [Tabs -> Transports \cup {NoTransport}]
              /\ runtimes'[tab] = NoTransport
              /\ \A x \in Tabs \ {tab} : runtimes'[x] = runtimes[x]
          BY <1>1, <1>6 DEF Served, CloseTab
        <4>3. \A x \in Tabs \ {tab} : runtimes[x] # old
          BY <1>1, <4>1, RuntimeAssumption DEF Served, Has, ExclusiveOwnership
        <4>4. /\ transport' \in [Transports -> Transport]
              /\ transport'[old] = [transport[old] EXCEPT !.closed = TRUE]
              /\ \A u \in Transports \ {old} : transport'[u] = transport[u]
          BY <1>1, <1>6, <3>1, <4>1, ClosedTransport DEF Served, CloseTab
        <4>5. transport'[old].closed /\ CallbacksOrdered(transport'[old])
          BY <1>1, <4>1, <4>4, ClosedTransport DEF Served
        <4>6. \A u \in Transports : CallbacksOrdered(transport'[u])
          BY <1>1, <4>4, <4>5 DEF Served
        <4>7. ExclusiveOwnership'
          BY <1>1, <1>6, <4>2, <4>3, <4>4 DEF Served, ExclusiveOwnership, Has, CloseTab
        <4>8. NoOrphan'
          <5> SUFFICES ASSUME NEW u \in Transports, Running(u)'
                       PROVE  \E x \in Tabs : runtimes'[x] = u
            BY DEF NoOrphan
          <5>1. u # old /\ Running(u)
            BY <4>4, <4>5 DEF Running
          <5>2. PICK x \in Tabs : runtimes[x] = u
            BY <1>1, <5>1 DEF Served, NoOrphan
          <5> QED
            BY <4>1, <4>2, <5>1, <5>2
        <4>9. \A x \in Tabs : Has(x)' => transport'[runtimes'[x]].phase # "new"
          BY <1>1, <4>2, <4>3, <4>4 DEF Served, Has
        <4> QED
          BY <4>2, <4>4, <4>6, <4>7, <4>8, <4>9 DEF Served
      <3>2. CASE ~Has(tab)
        <4>1. runtimes' = runtimes /\ transport' = transport /\ open' = open \ {tab}
          BY <1>1, <1>6, <3>2 DEF Served, CloseTab, Has
        <4> QED
          BY <1>1, <3>2, <4>1 DEF Served, ExclusiveOwnership, NoOrphan, Has, Running
      <3> QED
        BY <3>1, <3>2
    <2> QED
      BY <1>1, <1>2, <1>6, <2>1, IInvFromServed DEF CloseTab
  <1>7. CASE Decline
    <2>1. Served'
      BY <1>1, <1>7 DEF Decline, Served, ExclusiveOwnership, NoOrphan, Has, Running
    <2> QED
      BY <1>1, <1>2, <1>7, <2>1, IInvFromServed DEF Decline
  <1>8. CASE Trust
    <2>1. /\ gui.tab \in Tabs /\ gui.tab \in open /\ gui.transport \in Transports
          /\ gui.replace \in BOOLEAN /\ New(gui.transport)
      BY <1>1, <1>8 DEF Trust, Prompt, New
    <2>2. Served'
      BY <1>1, <1>8, <2>1, RegisterServes DEF Trust
    <2> QED
      BY <1>1, <1>2, <1>8, <2>2, IInvFromServed DEF Trust
  <1>9. CASE Quit
    <2>1. Served'
      <3>1. /\ runtimes' = [tab \in Tabs |-> NoTransport]
            /\ \A tab \in Tabs : ~Has(tab)'
        BY <1>9 DEF Quit, Has
      <3>2. \A u \in Transports :
              \/ /\ \E tab \in Tabs : runtimes[tab] = u
                 /\ transport'[u] = [transport[u] EXCEPT !.closed = TRUE]
              \/ /\ \A tab \in Tabs : runtimes[tab] # u
                 /\ transport'[u] = transport[u]
        <4> TAKE u \in Transports
        <4> DEFINE reached == \E tab \in Tabs : runtimes[tab] = u
        <4>1. transport[u] \in Transport
          BY <1>1 DEF Served
        <4>2. transport'[u] = [transport[u] EXCEPT !.closed = @ \/ reached]
          BY <1>9 DEF Quit
        <4>3. reached \in BOOLEAN
          OBVIOUS
        <4> HIDE DEF reached
        <4>4. transport'[u] = IF reached THEN [transport[u] EXCEPT !.closed = TRUE]
                                         ELSE transport[u]
          BY <4>1, <4>2, <4>3, QuitTransport
        <4> QED
          BY <4>1, <4>4 DEF reached, Transport
      <3>3. \A u \in Transports : transport'[u] \in Transport /\ CallbacksOrdered(transport'[u])
        <4> TAKE u \in Transports
        <4>1. CASE \A tab \in Tabs : runtimes[tab] # u
          BY <1>1, <3>2, <4>1 DEF Served
        <4>2. CASE \E tab \in Tabs : runtimes[tab] = u
          <5>1. transport[u].phase # "new"
            BY <1>1, <4>2, RuntimeAssumption DEF Served, Has
          <5>2. transport'[u] = [transport[u] EXCEPT !.closed = TRUE]
            BY <3>2, <4>2
          <5>3. transport[u] \in Transport /\ CallbacksOrdered(transport[u])
            BY <1>1 DEF Served
          <5> QED
            BY <5>1, <5>2, <5>3, ClosedTransport
        <4> QED
          BY <4>1, <4>2
      <3>4. transport' \in [Transports -> Transport]
        BY <1>9, <3>3 DEF Quit
      <3>5. NoOrphan'
        <4> SUFFICES ASSUME NEW u \in Transports, Running(u)'
                     PROVE  FALSE
          BY DEF NoOrphan
        <4>1. CASE \A tab \in Tabs : runtimes[tab] # u
          BY <1>1, <3>2, <4>1 DEF Served, NoOrphan, Running
        <4>2. CASE \E tab \in Tabs : runtimes[tab] = u
          <5>1. transport'[u] = [transport[u] EXCEPT !.closed = TRUE]
            BY <3>2, <4>2
          <5>2. transport[u] \in Transport
            BY <1>1 DEF Served
          <5>3. transport'[u].closed
            BY <5>1, <5>2, ClosedTransport
          <5> QED
            BY <5>3 DEF Running
        <4> QED
          BY <4>1, <4>2
      <3> QED
        BY <3>1, <3>3, <3>4, <3>5 DEF Served, ExclusiveOwnership
    <2> QED
      BY <1>1, <1>2, <1>9, <2>1, IInvFromServed DEF Quit
  <1>10. ASSUME NEW t \in Transports, DispatchOutput(t)
         PROVE  IInv'
    <2>1. transport[t] \in Transport /\ CallbacksOrdered(transport[t])
      BY <1>1 DEF Served
    <2>2. Later([transport[t] EXCEPT !.output = FALSE], transport[t])
      BY <1>10, <2>1, LaterRecords DEF DispatchOutput
    <2>3. Served'
      BY <1>1, <1>10, <2>2, TransportStep DEF DispatchOutput
    <2>4. gui \in Prompt => transport'[gui.transport].phase = "new"
      BY <1>1, <1>10, <2>1 DEF Served, Prompt, CallbacksOrdered, Fresh, DispatchOutput
    <2> QED
      BY <1>1, <1>10, <2>3, <2>4, IInvFromServed DEF DispatchOutput
  <1>11. ASSUME NEW t \in Transports, DispatchExit(t)
         PROVE  IInv'
    <2> DEFINE q == [transport[t] EXCEPT !.exit = FALSE]
    <2>1. transport[t] \in Transport /\ CallbacksOrdered(transport[t])
      BY <1>1 DEF Served
    <2>2. Later(q, transport[t]) /\ transport[t].phase = "ended"
      BY <1>11, <2>1, LaterRecords DEF DispatchExit, CallbacksOrdered
    <2>3. transport' = [transport EXCEPT ![t] = q]
      BY <1>11 DEF DispatchExit
    <2> HIDE DEF q
    <2>4. /\ transport' \in [Transports -> Transport]
          /\ transport'[t] = q
          /\ \A u \in Transports \ {t} : transport'[u] = transport[u]
      BY <1>1, <2>2, <2>3 DEF Served, Later
    <2>5. \A tab \in Tabs : \/ runtimes'[tab] = runtimes[tab]
                            \/ runtimes[tab] = t /\ runtimes'[tab] = NoTransport
      BY <1>1, <1>11 DEF Served, DispatchExit, Release
    <2>6. runtimes' \in [Tabs -> Transports \cup {NoTransport}]
      BY <1>1, <1>11 DEF Served, DispatchExit, Release
    <2>7. \A u \in Transports : CallbacksOrdered(transport'[u])
      BY <1>1, <2>2, <2>4 DEF Served, Later
    <2>8. ExclusiveOwnership'
      BY <1>1, <1>11, <2>2, <2>4, <2>5, RuntimeAssumption
         DEF Served, ExclusiveOwnership, Has, Later, DispatchExit
    <2>9. NoOrphan'
      <3> SUFFICES ASSUME NEW u \in Transports, Running(u)'
                   PROVE  \E tab \in Tabs : runtimes'[tab] = u
        BY DEF NoOrphan
      <3>1. u # t /\ Running(u)
        BY <2>2, <2>4 DEF Running, Later
      <3>2. PICK tab \in Tabs : runtimes[tab] = u
        BY <1>1, <3>1 DEF Served, NoOrphan
      <3> QED
        BY <2>5, <3>1, <3>2
    <2>10. \A tab \in Tabs : Has(tab)' => transport'[runtimes'[tab]].phase # "new"
      BY <1>1, <2>2, <2>4, <2>5, RuntimeAssumption DEF Served, Has, Later
    <2>11. Served'
      BY <2>4, <2>6, <2>7, <2>8, <2>9, <2>10 DEF Served
    <2>12. gui \in Prompt => transport'[gui.transport].phase = "new"
      BY <1>1, <2>2, <2>4 DEF Prompt
    <2> QED
      BY <1>1, <1>11, <2>11, <2>12, IInvFromServed DEF DispatchExit
  <1>12. ASSUME NEW t \in Transports, Produce(t)
         PROVE  IInv'
    <2>1. transport[t] \in Transport /\ CallbacksOrdered(transport[t])
      BY <1>1 DEF Served
    <2>2. Later([transport[t] EXCEPT !.output = TRUE], transport[t])
      BY <1>12, <2>1, LaterRecords DEF Produce
    <2>3. Served'
      BY <1>1, <1>12, <2>2, TransportStep DEF Produce
    <2>4. gui \in Prompt => transport'[gui.transport].phase = "new"
      BY <1>1, <1>12, <2>1 DEF Served, Prompt, CallbacksOrdered, Fresh, Produce
    <2> QED
      BY <1>1, <1>12, <2>3, <2>4, IInvFromServed DEF Produce
  <1>13. ASSUME NEW t \in Transports, End(t)
         PROVE  IInv'
    <2>1. transport[t] \in Transport /\ CallbacksOrdered(transport[t])
      BY <1>1 DEF Served
    <2>2. Later([transport[t] EXCEPT !.phase = "ended"], transport[t])
      BY <1>13, <2>1, LaterRecords DEF End
    <2>3. Served'
      BY <1>1, <1>13, <2>2, TransportStep DEF End
    <2>4. gui \in Prompt => transport'[gui.transport].phase = "new"
      BY <1>1, <1>13, <2>1 DEF Served, Prompt, CallbacksOrdered, Fresh, End
    <2> QED
      BY <1>1, <1>13, <2>3, <2>4, IInvFromServed DEF End
  <1>14. ASSUME NEW t \in Transports, DrainEnds(t)
         PROVE  IInv'
    <2>1. transport[t] \in Transport /\ CallbacksOrdered(transport[t])
      BY <1>1 DEF Served
    <2>2. Later([transport[t] EXCEPT !.drained = TRUE, !.exit = TRUE], transport[t])
      BY <1>14, <2>1, LaterRecords DEF DrainEnds
    <2>3. Served'
      BY <1>1, <1>14, <2>2, TransportStep DEF DrainEnds
    <2>4. gui \in Prompt => transport'[gui.transport].phase = "new"
      BY <1>1, <1>14, <2>1 DEF Served, Prompt, CallbacksOrdered, Fresh, DrainEnds
    <2> QED
      BY <1>1, <1>14, <2>3, <2>4, IInvFromServed DEF DrainEnds
  <1>15. CASE UNCHANGED vars
    <2>1. Served'
      BY <1>1, <1>15 DEF vars, Served, ExclusiveOwnership, NoOrphan, Has, Running
    <2> QED
      BY <1>1, <1>2, <1>15, <2>1, IInvFromServed DEF vars
  <1> QED
    BY <1>3, <1>4, <1>5, <1>6, <1>7, <1>8, <1>9, <1>10, <1>11, <1>12, <1>13, <1>14, <1>15
       DEF Next

-----------------------------------------------------------------------------
\* The inductive invariant holds in every reachable state.
THEOREM Invariance == Spec => []IInv
  BY InitIInv, NextIInv, PTL DEF Spec

\* The registry and the records of the transports are always well formed.
THEOREM TypeCorrect == Spec => []TypeOK
  <1>1. IInv => TypeOK
    BY DEF IInv
  <1> QED
    BY <1>1, Invariance, PTL

\* A registered transport is its tab's own, and the tab is open.
THEOREM Owned == Spec => []ExclusiveOwnership
  <1>1. IInv => ExclusiveOwnership
    BY DEF IInv
  <1> QED
    BY <1>1, Invariance, PTL

\* No shell is ever left running without a tab.
THEOREM NoneOrphaned == Spec => []NoOrphan
  <1>1. IInv => NoOrphan
    BY DEF IInv
  <1> QED
    BY <1>1, Invariance, PTL

\* What a handler that installs a transport may do to the tabs.
Kept(tab) ==
    (Has(tab) /\ Running(runtimes[tab]) /\ runtimes'[tab] # runtimes[tab]) =>
        \/ \E t \in Transports : runtimes'[tab] = t /\ Running(t)'
        \/ tab \notin open'
        \/ gui' = Quitting

LEMMA RegisterKept ==
    ASSUME Served, NEW x \in Tabs, NEW t \in Transports, New(t),
           NEW replace \in BOOLEAN, Register(x, t, replace), NEW tab \in Tabs
    PROVE  Kept(tab)
  <1>1. transport[t] = Fresh /\ transport \in [Transports -> Transport]
    BY DEF Served, New, CallbacksOrdered
  <1>2. CASE Start(x, t)
    BY <1>2 DEF Start, Kept, Has, Served
  <1>3. CASE Replace(x, t)
    <2>1. CASE x = tab
      <3>1. runtimes'[tab] = t
        BY <1>3, <2>1 DEF Replace, Served
      <3>2. PICK old \in Transports : old = runtimes[x] /\ old # t
        BY <1>3 DEF Replace, Served, Has, New
      <3>3. transport' = [StartedFor(t, x) EXCEPT ![old].closed = TRUE]
        BY <1>3, <3>2 DEF Replace
      <3>4. /\ StartedFor(t, x) \in [Transports -> Transport]
            /\ JustStarted(StartedFor(t, x)[t], x)
        BY <1>1, StartedOnly
      <3>5. transport'[t] = StartedFor(t, x)[t]
        BY <3>2, <3>3, <3>4
      <3> QED
        BY <3>1, <3>4, <3>5 DEF Kept, Running, JustStarted
    <2>2. CASE x # tab
      BY <1>3, <2>2 DEF Replace, Kept, Served
    <2> QED
      BY <2>1, <2>2
  <1>4. CASE RegisterFails
    BY <1>4 DEF RegisterFails, Kept
  <1> QED
    BY <1>2, <1>3, <1>4 DEF Register

LEMMA InstallKept ==
    ASSUME Served, NEW x \in Tabs, NEW replace \in BOOLEAN, Install(x, replace),
           NEW tab \in Tabs
    PROVE  Kept(tab)
  <1>1. PICK t \in Transports :
          New(t) /\ (Register(x, t, replace) \/ UNCHANGED <<runtimes, transport>>)
    BY DEF Install
  <1> QED
    BY <1>1, RegisterKept DEF Kept

\* A running shell loses its tab only to a running successor, to the close of the
\* tab or to the end of the program.
THEOREM Permanence == Spec => RunningKept
  <1>1. ASSUME IInv, [Next]_vars, NEW tab \in Tabs
        PROVE  Kept(tab)
    <2>1. Served /\ gui \in Prompt \cup {Idle, Quitting}
      BY <1>1, IInvServed DEF IInv, TypeOK
    <2>2. ASSUME NEW x \in Tabs, OpenTab(x) \/ RunCommand(x)
          PROVE  Kept(tab)
      BY <2>1, <2>2, InstallKept DEF OpenTab, RunCommand
    <2>3. ASSUME NEW x \in Tabs, Reconnect(x)
          PROVE  Kept(tab)
      BY <2>1, <2>3, InstallKept DEF Reconnect, Has
    <2>4. ASSUME NEW x \in Tabs, CloseTab(x)
          PROVE  Kept(tab)
      BY <2>1, <2>4 DEF CloseTab, Kept, Served
    <2>5. CASE Trust
      <3>1. /\ gui.tab \in Tabs /\ gui.transport \in Transports
            /\ gui.replace \in BOOLEAN /\ New(gui.transport)
        BY <1>1, <2>5 DEF Trust, Prompt, IInv, Registered
      <3> QED
        BY <2>1, <2>5, <3>1, RegisterKept DEF Trust
    <2>6. CASE Quit
      BY <2>6 DEF Quit, Kept
    <2>7. ASSUME NEW t \in Transports, DispatchExit(t)
          PROVE  Kept(tab)
      <3>1. transport[t].phase = "ended"
        BY <2>1, <2>7 DEF Served, CallbacksOrdered, DispatchExit
      <3>2. runtimes'[tab] # runtimes[tab] => runtimes[tab] = t
        BY <2>1, <2>7 DEF Served, DispatchExit, Release
      <3> QED
        BY <3>1, <3>2 DEF Kept, Running
    <2>8. CASE UNCHANGED runtimes
      BY <2>8 DEF Kept
    <2> QED
      BY <1>1, <2>2, <2>3, <2>4, <2>5, <2>6, <2>7, <2>8
         DEF Next, Decline, DispatchOutput, Produce, End, DrainEnds, vars
  <1>2. IInv /\ [Next]_vars =>
          [\A tab \in Tabs :
             (Has(tab) /\ Running(runtimes[tab]) /\ runtimes'[tab] # runtimes[tab]) =>
                 \/ \E t \in Transports : runtimes'[tab] = t /\ Running(t)'
                 \/ tab \notin open'
                 \/ gui' = Quitting]_vars
    BY <1>1 DEF Kept
  <1> QED
    BY <1>2, Invariance, PTL DEF Spec, RunningKept
=============================================================================
