-------------------------- MODULE TerminalTransport -------------------------
(***************************************************************************)
(* What the two backends of an interactive shell have in common: the       *)
(* session's fields under one mutex, the goroutines Start launches (output *)
(* readers, a waiter for the exit, a watcher of the context), the drainer  *)
(* that passes the output on, and the calls of the GUI thread.             *)
(* SSHPTYSession and LocalPTYSession add what each does between.           *)
(***************************************************************************)
EXTENDS Naturals, Subsequences

CONSTANTS OutputBuffer,  \* capacity of s.output, 64 in both backends
          MaxChunks,     \* bound on the chunks each stream carries
          MaxStarts,     \* bound on calls of Start
          MaxWrites      \* bound on calls of WriteInput

ASSUME TransportBounds ==
    /\ OutputBuffer \in Nat \ {0}
    /\ {MaxChunks, MaxStarts, MaxWrites} \subseteq Nat

VARIABLES
    mu,          \* who holds s.mu
    started, closed, \* s.started and s.closed
    output,      \* the buffered channel s.output
    ended, done, \* s.output and s.done are closed
    cancelled,   \* the context given to Start is done
    gui,         \* where the GUI thread is in Start, WriteInput or Close
    reader,      \* stream -> state of its readOutput goroutine
    waiter,      \* state of waitForExit
    watcher,     \* state of the goroutine that waits for the context
    drainer,     \* state of drainInteractiveOutput
    received,    \* the chunks the drainer has passed on
    starts, writes,  \* calls so far
    link,        \* the SSH connection, or the master side of the PTY
    exited,      \* the shell has exited
    held,        \* a job the shell left behind keeps its terminal open
    sent         \* stream -> chunks the shell has written

channels == <<output, ended, done>>
fields == <<started, closed, channels, cancelled>>
threads == <<reader, waiter, watcher, drainer, received>>
calls == <<starts, writes>>
remote == <<link, exited, held, sent>>
vars == <<mu, fields, gui, threads, calls, remote>>

\* A closer is at "lock", wanting s.mu, or at "hangup", having marked the session.
InitWith(Streams) ==
    /\ mu = "free"
    /\ started = FALSE /\ closed = FALSE
    /\ output = <<>> /\ ended = FALSE /\ done = FALSE
    /\ cancelled = FALSE
    /\ gui = "idle"
    /\ reader = [s \in Streams |-> [at |-> "none", next |-> 1]]
    /\ waiter = "none" /\ watcher = "none" /\ drainer = "none"
    /\ received = <<>>
    /\ starts = 0 /\ writes = 0
    /\ link = "none" /\ exited = FALSE /\ held = FALSE
    /\ sent = [s \in Streams |-> 0]

Gone == exited \/ link = "down"

-----------------------------------------------------------------------------
\* The calls of the GUI thread.

\* Start takes s.mu and keeps it until it returns.
StartLock ==
    /\ gui = "idle" /\ mu = "free"
    /\ ~started /\ ~closed
    /\ starts < MaxStarts
    /\ starts' = starts + 1
    /\ mu' = "gui"
    /\ gui' = "dial"
    /\ UNCHANGED <<fields, threads, writes, remote>>

\* A step of the set-up fails (an untrusted host key, no PTY, no shell) and what was
\* opened is closed again: the session can be started once more.
StartFails ==
    /\ gui = "dial"
    /\ gui' = "idle"
    /\ mu' = "free"
    /\ UNCHANGED <<fields, threads, calls, remote>>

\* The shell runs: publish the handles and launch the goroutines.
Launch ==
    /\ gui = "dial"
    /\ link' = "up"
    /\ started' = TRUE
    /\ reader' = [s \in DOMAIN reader |-> [at |-> "read", next |-> 1]]
    /\ waiter' = "wait"
    /\ watcher' = "wait"
    /\ UNCHANGED <<mu, closed, channels, cancelled, drainer, received, calls,
                   exited, held, sent>>

\* Start returns nil and installInteractiveSession launches the drainer.
StartReturns ==
    /\ gui = "return"
    /\ gui' = "idle"
    /\ mu' = "free"
    /\ drainer' = "receive"
    /\ UNCHANGED <<fields, reader, waiter, watcher, received, calls, remote>>

\* WriteInput writes with s.mu held; Resize and Interrupt have the same guard and
\* hold s.mu across their request in the same way.
WriteLock ==
    /\ gui = "idle" /\ mu = "free"
    /\ started
    /\ writes < MaxWrites
    /\ writes' = writes + 1
    /\ mu' = "gui"
    /\ gui' = "write"
    /\ UNCHANGED <<fields, threads, starts, remote>>

WriteReturns ==
    /\ gui = "write"
    /\ gui' = "idle"
    /\ mu' = "free"
    /\ UNCHANGED <<fields, threads, calls, remote>>

\* The registry closes a session by cancelling its context and calling Close.
CancelAndClose ==
    /\ gui = "idle" /\ started /\ ~cancelled
    /\ cancelled' = TRUE
    /\ gui' = "lock"
    /\ UNCHANGED <<mu, started, closed, channels, threads, calls, remote>>

\* Release, once the exit has been reported, only cancels the context.
Release ==
    /\ drainer = "exited" /\ ~cancelled
    /\ cancelled' = TRUE
    /\ UNCHANGED <<mu, started, closed, channels, gui, threads, calls, remote>>

\* Close up to its unlock: only the first caller goes on to hang up.
GuiCloseLock ==
    /\ gui = "lock" /\ mu = "free"
    /\ closed' = TRUE
    /\ gui' = IF closed THEN "idle" ELSE "hangup"
    /\ UNCHANGED <<mu, started, channels, cancelled, threads, calls, remote>>

-----------------------------------------------------------------------------
\* The goroutine on ctx.Done() and s.done.
Watch ==
    /\ watcher = "wait"
    /\ \/ cancelled /\ watcher' = "lock"
       \/ done /\ watcher' = "ended"
    /\ UNCHANGED <<mu, fields, gui, reader, waiter, drainer, received, calls, remote>>

WatcherCloseLock ==
    /\ watcher = "lock" /\ mu = "free"
    /\ closed' = TRUE
    /\ watcher' = IF closed THEN "ended" ELSE "hangup"
    /\ UNCHANGED <<mu, started, channels, cancelled, gui, reader, waiter, drainer,
                   received, calls, remote>>

\* Steps of readOutput: it reads a chunk, which it then sends, or leaves its loop.
Reads(s, at) ==
    /\ reader' = [reader EXCEPT ![s].at = at]
    /\ UNCHANGED <<mu, started, closed, output, done, cancelled, gui, waiter, watcher,
                   drainer, received, calls, remote>>

SendThen(s, at) ==
    /\ reader[s].at = "send"
    /\ Len(output) < OutputBuffer
    /\ output' = Append(output, [stream |-> s, number |-> reader[s].next])
    /\ reader' = [reader EXCEPT ![s] = [at |-> at, next |-> @.next + 1]]
    /\ UNCHANGED <<mu, started, closed, ended, done, cancelled, gui, waiter, watcher,
                   drainer, received, calls, remote>>

\* Variant: the drainer stops as soon as there is nothing to receive after Close.
ReceiveUntilClosed ==
    /\ drainer = "receive"
    /\ \/ /\ output # <<>> /\ ~closed
          /\ received' = Append(received, Head(output))
          /\ output' = Tail(output)
          /\ UNCHANGED drainer
       \/ /\ closed \/ (output = <<>> /\ ended)
          /\ drainer' = "wait"
          /\ UNCHANGED <<received, output>>
    /\ UNCHANGED <<mu, started, closed, ended, done, cancelled, gui, reader, waiter,
                   watcher, calls, remote>>

\* drainInteractiveOutput: range over the channel, then Wait, then report the exit.
Receive ==
    /\ drainer = "receive"
    /\ \/ /\ output # <<>>
          /\ received' = Append(received, Head(output))
          /\ output' = Tail(output)
          /\ UNCHANGED drainer
       \/ /\ output = <<>> /\ ended
          /\ drainer' = "wait"
          /\ UNCHANGED <<received, output>>
    /\ UNCHANGED <<mu, started, closed, ended, done, cancelled, gui, reader, waiter,
                   watcher, calls, remote>>

ReportExit ==
    /\ drainer = "wait" /\ done /\ mu = "free"
    /\ drainer' = "exited"
    /\ UNCHANGED <<mu, fields, gui, reader, waiter, watcher, received, calls, remote>>

Drainer == Receive \/ ReportExit

\* What the backends' remote side does whenever it likes: write, or exit.
ShellWrites(s) ==
    /\ sent[s] < MaxChunks
    /\ sent' = [sent EXCEPT ![s] = @ + 1]
    /\ UNCHANGED <<mu, fields, gui, threads, calls, link, exited, held>>

ShellExits ==
    /\ link = "up" /\ ~exited
    /\ exited' = TRUE
    /\ UNCHANGED <<mu, fields, gui, threads, calls, link, held, sent>>

\* The GUI thread's calls that either backend takes.
Call == StartLock \/ CancelAndClose \/ Release
Returns == StartFails \/ StartReturns \/ WriteReturns \/ GuiCloseLock

-----------------------------------------------------------------------------
\* No goroutine sends on the closed output channel, which would panic: it is closed
\* only once every reader has left its loop.
NoSendAfterClose ==
    ended => \A s \in DOMAIN reader : reader[s].at = "ended"

\* A session that has been started and then closed, by the user or by the remote
\* side, is eventually reported as exited, with the GUI thread free again - or waits
\* for a job that keeps the terminal of its dead shell open.
CloseIsReported ==
    (drainer = "receive" /\ (closed \/ Gone))
        ~> (gui = "idle" /\ (drainer = "exited" \/ held))

\* The abstract session: the numbers of the chunks received, stream by stream.
Numbers(chunks, s) ==
    LET own == Subsequence(chunks, [stream : {s}, number : Nat])
    IN  [i \in DOMAIN own |-> own[i].number]
Delivered == [s \in DOMAIN sent |-> Numbers(received, s)]
Status ==
    CASE drainer = "exited" -> "exited"
      [] drainer # "exited" /\ started -> "running"
      [] OTHER -> "new"
=============================================================================
