-------------------------- MODULE LocalPTYSession ---------------------------
(***************************************************************************)
(* localPTYSession (terminal/local_pty_unix.go): a shell of this machine   *)
(* on a pseudo-terminal.  One goroutine reads its master side, which is a  *)
(* blocking descriptor: closing it does not wake a read in progress, it    *)
(* only makes the next one fail.  A read returns for good once no process  *)
(* has the terminal open: the shell, and the jobs it leaves behind in      *)
(* process groups of their own, which the signals of Close do not reach.   *)
(*                                                                         *)
(* The kernel and the shell are modelled from how the code uses them.      *)
(***************************************************************************)
EXTENDS TerminalTransport

Streams == {"terminal"}

Init == InitWith(Streams)

-----------------------------------------------------------------------------
ShellStarts == Launch /\ gui' = "return"

\* s.master is there until the waiter has recorded the exit; Close does not clear it.
Write == waiter \notin {"close", "ended"} /\ WriteLock

\* Variant: the shell is asked to leave and never killed.
HangupPolitely ==
    /\ done
    /\ UNCHANGED <<mu, fields, reader, waiter, drainer, received, calls, remote>>

\* Close after its unlock and its SIGHUP, which the shell may ignore: the session
\* ends within 750 ms, or the shell is killed and the master side closed.
Hangup ==
    /\ \/ done /\ UNCHANGED <<exited, link>>
       \/ exited' = TRUE /\ link' = "down"
    /\ UNCHANGED <<mu, fields, reader, waiter, drainer, received, calls, held, sent>>

GuiHangup ==
    /\ gui = "hangup"
    /\ gui' = "idle"
    /\ Hangup
    /\ UNCHANGED watcher

WatcherHangup ==
    /\ watcher = "hangup"
    /\ watcher' = "ended"
    /\ Hangup
    /\ UNCHANGED gui

-----------------------------------------------------------------------------
\* readOutput calls Read, which fails at once on a master side that was closed.
\* Leaving its loop it closes the output channel before it tells the waiter.
EnterRead(s) ==
    /\ reader[s].at = "next"
    /\ IF link = "down"
       THEN Reads(s, "ended") /\ ended' = TRUE
       ELSE Reads(s, "read") /\ UNCHANGED ended

\* The call returns with a chunk, or with EIO when nobody has the terminal open.
Read(s) ==
    /\ reader[s].at = "read"
    /\ \/ /\ reader[s].next <= sent[s]
          /\ Reads(s, "send")
          /\ UNCHANGED ended
       \/ /\ reader[s].next > sent[s]
          /\ exited /\ ~held
          /\ Reads(s, "ended")
          /\ ended' = TRUE

Send(s) == SendThen(s, "next")

\* waitForExit: cmd.Wait, the reader, waitErr and the master side under s.mu, s.done.
WaitCommand ==
    /\ waiter = "wait"
    /\ exited
    /\ waiter' = "join"
    /\ UNCHANGED <<mu, fields, gui, reader, watcher, drainer, received, calls, remote>>

WaitReader ==
    /\ waiter = "join"
    /\ ended
    /\ waiter' = "lock"
    /\ UNCHANGED <<mu, fields, gui, reader, watcher, drainer, received, calls, remote>>

WaitRecord ==
    /\ waiter = "lock" /\ mu = "free"
    /\ link' = "down"
    /\ waiter' = "close"
    /\ UNCHANGED <<mu, fields, gui, reader, watcher, drainer, received, calls, exited,
                   held, sent>>

WaitClose ==
    /\ waiter = "close"
    /\ done' = TRUE
    /\ waiter' = "ended"
    /\ UNCHANGED <<mu, started, closed, output, ended, cancelled, gui, reader, watcher,
                   drainer, received, calls, remote>>

-----------------------------------------------------------------------------
\* The shell and its jobs write to the terminal, read by the master side or not.
ProcessesWrite(s) == started /\ (~exited \/ held) /\ ShellWrites(s)

ShellDies == ShellExits

\* The shell starts a job that keeps the terminal open, or the job ends.
JobStarts ==
    /\ link = "up" /\ ~exited /\ ~held
    /\ held' = TRUE
    /\ UNCHANGED <<mu, fields, gui, threads, calls, link, exited, sent>>

JobEnds ==
    /\ held
    /\ held' = FALSE
    /\ UNCHANGED <<mu, fields, gui, threads, calls, link, exited, sent>>

Gui == Returns \/ ShellStarts \/ GuiHangup
Watcher == Watch \/ WatcherCloseLock \/ WatcherHangup
Waiter == WaitCommand \/ WaitReader \/ WaitRecord \/ WaitClose
Reader(s) == EnterRead(s) \/ Read(s) \/ Send(s)

Next ==
    \/ Call \/ Write
    \/ Gui \/ Watcher \/ Waiter \/ Drainer
    \/ \E s \in Streams : Reader(s) \/ ProcessesWrite(s)
    \/ ShellDies \/ JobStarts \/ JobEnds

Spec == Init /\ [][Next]_vars
=============================================================================
