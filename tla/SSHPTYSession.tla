--------------------------- MODULE SSHPTYSession ----------------------------
(***************************************************************************)
(* sshPTYSession (terminal/ssh_pty.go): a remote shell behind an SSH       *)
(* connection, with one goroutine for each of its two output streams.      *)
(*                                                                         *)
(* A chunk is its number in its stream.  The SSH connection and the remote *)
(* shell are modelled from how the code uses them.                         *)
(***************************************************************************)
EXTENDS TerminalTransport

Streams == {"stdout", "stderr"}

Init == InitWith(Streams)

-----------------------------------------------------------------------------
\* The connection may have a WorkingDir to change to.
ShellStarts ==
    /\ Launch
    /\ gui' \in {"chdir", "return"}

ChangeDirectory ==
    /\ gui = "chdir"
    /\ gui' = "return"
    /\ UNCHANGED <<mu, fields, threads, calls, remote>>

\* The write of the cd command fails, so Start calls s.Close() - with s.mu still
\* held.  The steps of Next leave this one out: it ends all progress (see
\* FailedStartReturns).
ChangeDirectoryFails ==
    /\ gui = "chdir"
    /\ Gone
    /\ gui' = "lock"
    /\ UNCHANGED <<mu, fields, threads, calls, remote>>

Write == ~closed /\ WriteLock

\* Close after its unlock: stdin, remote session and client are closed.
Hangup ==
    /\ link' = "down"
    /\ UNCHANGED <<mu, fields, reader, waiter, drainer, received, calls, exited, held,
                   sent>>

GuiHangup ==
    /\ gui = "hangup"
    /\ gui' = "idle"
    /\ Hangup
    /\ UNCHANGED watcher

WatcherHangup ==
    /\ watcher = "hangup"
    /\ watcher' = "ended"
    /\ Hangup
    /\ UNCHANGED gui

-----------------------------------------------------------------------------
\* readOutput: read a chunk, then send it; at the end of the stream, return.
Read(s) ==
    /\ reader[s].at = "read"
    /\ \/ /\ reader[s].next <= sent[s]
          /\ Reads(s, "send")
       \/ /\ reader[s].next > sent[s]
          /\ Gone
          /\ Reads(s, "ended")
    /\ UNCHANGED ended

Send(s) == SendThen(s, "read")

\* waitForExit: remote.Wait, both readers, the handles, waitErr under s.mu, the channels.
WaitRemote ==
    /\ waiter = "wait"
    /\ Gone
    /\ waiter' = "join"
    /\ UNCHANGED <<mu, fields, gui, reader, watcher, drainer, received, calls, remote>>

\* Variant: the readers are not waited for.
WaitReadersUnjoined ==
    /\ waiter = "join"
    /\ link' = "down"
    /\ waiter' = "lock"
    /\ UNCHANGED <<mu, fields, gui, reader, watcher, drainer, received, calls, exited,
                   held, sent>>

WaitReaders ==
    /\ waiter = "join"
    /\ \A s \in Streams : reader[s].at = "ended"
    /\ link' = "down"
    /\ waiter' = "lock"
    /\ UNCHANGED <<mu, fields, gui, reader, watcher, drainer, received, calls, exited,
                   held, sent>>

WaitRecord ==
    /\ waiter = "lock" /\ mu = "free"
    /\ waiter' = "close"
    /\ UNCHANGED <<mu, fields, gui, reader, watcher, drainer, received, calls, remote>>

WaitClose ==
    /\ waiter = "close"
    /\ ended' = TRUE
    /\ done' = TRUE
    /\ waiter' = "ended"
    /\ UNCHANGED <<mu, started, closed, output, cancelled, gui, reader, watcher, drainer,
                   received, calls, remote>>

-----------------------------------------------------------------------------
\* The remote side: it writes, exits, or the connection breaks.
RemoteSends(s) == link = "up" /\ ~exited /\ ShellWrites(s)

LinkBreaks ==
    /\ link = "up"
    /\ link' = "down"
    /\ UNCHANGED <<mu, fields, gui, threads, calls, exited, held, sent>>

Gui == Returns \/ ShellStarts \/ ChangeDirectory \/ GuiHangup
Watcher == Watch \/ WatcherCloseLock \/ WatcherHangup
Waiter == WaitRemote \/ WaitReaders \/ WaitRecord \/ WaitClose

Next ==
    \/ Call \/ Write
    \/ Gui \/ Watcher \/ Waiter \/ Drainer
    \/ \E s \in Streams : Read(s) \/ Send(s) \/ RemoteSends(s)
    \/ ShellExits \/ LinkBreaks

Spec == Init /\ [][Next]_vars

\* The same system when the write of the cd command may fail.  Threads run on, and a
\* call the GUI thread has made returns.
FailingSpec ==
    /\ Init /\ [][Next \/ ChangeDirectoryFails]_vars
    /\ WF_vars(Gui \/ ChangeDirectoryFails)
    /\ WF_vars(Watcher) /\ WF_vars(Waiter) /\ WF_vars(Drainer)
    /\ \A s \in Streams : WF_vars(Read(s) \/ Send(s))

-----------------------------------------------------------------------------
\* Start returns an error when it cannot change to the working directory, as its
\* last statement says; Replace's comment relies on it: "A failed replacement leaves
\* the current terminal usable".
FailedStartReturns ==
    (gui = "chdir") ~> (gui = "idle")
=============================================================================
