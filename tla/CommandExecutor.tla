-------------------------- MODULE CommandExecutor --------------------------
(***************************************************************************)
(* A single command, run locally by runProcess or remotely by SSHExecutor  *)
(* (terminal/executor.go, scanner.go, process_cancel_unix.go).             *)
(*                                                                         *)
(* A program writes pieces of lines.  A local one writes to two pipes, and *)
(* a scanner for each sends whole lines through a channel to the loop that *)
(* records them; a remote one writes to an SSH channel, and a collector    *)
(* for each stream records its lines itself.  An event is the interval of  *)
(* the pieces of a stream that its line was made of.                       *)
(***************************************************************************)
EXTENDS Naturals, SequencesExt, Subsequences

CONSTANTS ChannelSize,  \* 32 in the code
          PipeSize,     \* the pieces a program may be ahead of its reader
          MaxPieces     \* bound on the pieces the command writes

ASSUME ExecutorAssumption ==
    /\ ChannelSize \in Nat \ {0}
    /\ PipeSize \in Nat \ {0}
    /\ MaxPieces \in Nat

VARIABLES
    kind,     \* where the command runs
    ctx,      \* whether its context is done, cancelled by the user or timed out
    main,     \* how far the goroutine that runs the command has come
    holders,  \* the processes that hold the command's output open
    link,     \* the SSH connection, up also for a local command
    written,  \* what the command has written to each stream
    reader,   \* the goroutine that reads each stream
    channel,  \* ch of runProcess
    events,   \* result.Events, without the status
    outcome   \* what the call returns

executorVars ==
    <<kind, ctx, main, holders, link, written, reader, channel, events, outcome>>

Streams == {"stdout", "stderr"}
Kinds == {"local", "ssh"}
Piece == {"part", "end", "long"}  \* long ends a line of more than maxTerminalLineBytes
Line == [stream : Streams, first : 1..MaxPieces, last : 1..MaxPieces]
Reader == [at : {"read", "send", "done"},
           taken : 0..MaxPieces,   \* the pieces it has read
           sent : 0..MaxPieces]    \* those in the lines it has passed on

Fresh == [at |-> "read", taken |-> 0, sent |-> 0]

ExecutorTypeOK ==
    /\ kind \in Kinds
    /\ ctx \in {"live", "done"}
    /\ main \in {"idle", "dialing", "opening", "running", "flushing", "returned"}
    /\ holders \subseteq {"shell", "child"}
    /\ link \in {"up", "closed"}
    /\ written \in [Streams -> Seq(Piece)]
    /\ reader \in [Streams -> Reader]
    /\ channel \in Seq(Line) /\ Len(channel) <= ChannelSize
    /\ events \in Seq(Line)
    /\ outcome \in {"none", "ok", "cancelled", "failed"}

ExecutorInit ==
    /\ kind = "local"
    /\ ctx = "live"
    /\ main = "idle"
    /\ holders = {}
    /\ link = "up"
    /\ written = [s \in Streams |-> <<>>]
    /\ reader = [s \in Streams |-> Fresh]
    /\ channel = <<>>
    /\ events = <<>>
    /\ outcome = "none"

\* The call is over and its state is gone.
Forget ==
    /\ kind' = "local"
    /\ ctx' = "live"
    /\ main' = "idle"
    /\ holders' = {}
    /\ link' = "up"
    /\ written' = [s \in Streams |-> <<>>]
    /\ reader' = [s \in Streams |-> Fresh]
    /\ channel' = <<>>
    /\ events' = <<>>
    /\ outcome' = "none"

-----------------------------------------------------------------------------
\* The command, whose processes run where the connection says.

CommandWrites(s) ==
    /\ main = "running"
    /\ holders # {} /\ link = "up"
    /\ Len(written["stdout"]) + Len(written["stderr"]) < MaxPieces
    /\ Len(written[s]) - reader[s].taken < PipeSize
    /\ \E piece \in Piece : written' = [written EXCEPT ![s] = Append(@, piece)]
    /\ UNCHANGED <<kind, ctx, main, holders, link, reader, channel, events, outcome>>

\* The shell leaves a process in the background, with its output and in its group.
CommandForks ==
    /\ main = "running"
    /\ "shell" \in holders
    /\ holders' = holders \cup {"child"}
    /\ UNCHANGED <<kind, ctx, main, link, written, reader, channel, events, outcome>>

CommandExits(h) ==
    /\ main = "running"
    /\ h \in holders
    /\ holders' = holders \ {h}
    /\ UNCHANGED <<kind, ctx, main, link, written, reader, channel, events, outcome>>

-----------------------------------------------------------------------------
\* The goroutines that read the output.

Pending(s) == reader[s].taken > reader[s].sent
PendingLine(s) == [stream |-> s, first |-> reader[s].sent + 1, last |-> reader[s].taken]

\* The end of a stream: every process has closed it, or the connection is gone.  What
\* has come before is read first; what was still on the way is lost with the connection.
AtEnd(s) == \/ link = "closed"
            \/ holders = {} /\ reader[s].taken = Len(written[s])

\* Scan and Write: one more piece.  A scanner gives up at a line that is too long.
ReadPiece(s) ==
    /\ main = "running"
    /\ reader[s].at = "read"
    /\ reader[s].taken < Len(written[s])
    /\ LET piece == written[s][reader[s].taken + 1]
           next == CASE kind = "local" /\ piece = "long" -> "done"
                     [] piece # "part" -> "send"
                     [] OTHER -> "read"
       IN  reader' = [reader EXCEPT ![s].taken = @ + 1, ![s].at = next]
    /\ UNCHANGED <<kind, ctx, main, holders, link, written, channel, events, outcome>>

\* A scanner returns what is left as the last line, a collector keeps it for flush.
ReadEnd(s) ==
    /\ main = "running"
    /\ reader[s].at = "read"
    /\ AtEnd(s)
    /\ reader' = [reader EXCEPT ![s].at =
                     IF kind = "local" /\ Pending(s) THEN "send" ELSE "done"]
    /\ UNCHANGED <<kind, ctx, main, holders, link, written, channel, events, outcome>>

SentTo(s) == reader' = [reader EXCEPT ![s].sent = reader[s].taken, ![s].at = "read"]

\* The scanner waits for room in the channel.
SendLine(s) ==
    /\ kind = "local"
    /\ main = "running"
    /\ reader[s].at = "send"
    /\ Len(channel) < ChannelSize
    /\ channel' = Append(channel, PendingLine(s))
    /\ SentTo(s)
    /\ UNCHANGED <<kind, ctx, main, holders, link, written, events, outcome>>

\* emit, which holds eventMu.
EmitLine(s) ==
    /\ kind = "ssh"
    /\ main = "running"
    /\ reader[s].at = "send"
    /\ events' = Append(events, PendingLine(s))
    /\ SentTo(s)
    /\ UNCHANGED <<kind, ctx, main, holders, link, written, channel, outcome>>

-----------------------------------------------------------------------------
\* runProcess and RunWithEvents.

Return(result) == main' = "returned" /\ outcome' = result

\* cmd.Start, or the dialer is called, unless the arguments are refused.
StartCommand ==
    /\ main = "idle"
    /\ kind' \in Kinds
    /\ \/ kind' = "local" /\ main' = "running" /\ holders' = {"shell"} /\ UNCHANGED outcome
       \/ kind' = "ssh" /\ main' = "dialing" /\ UNCHANGED <<holders, outcome>>
       \/ Return("failed") /\ UNCHANGED holders
    /\ UNCHANGED <<ctx, link, written, reader, channel, events>>

Dialed ==
    /\ main = "dialing"
    /\ ctx = "live"
    /\ main' = "opening"
    /\ UNCHANGED <<kind, ctx, holders, link, written, reader, channel, events, outcome>>

DialFails ==
    /\ main = "dialing"
    /\ ctx = "live"
    /\ Return("failed")
    /\ UNCHANGED <<kind, ctx, holders, link, written, reader, channel, events>>

\* The goroutine beside the handshake closes the socket of a context that is done.
DialStops ==
    /\ main = "dialing"
    /\ ctx = "done"
    /\ Return("cancelled")
    /\ UNCHANGED <<kind, ctx, holders, link, written, reader, channel, events>>

\* NewSession, which waits for the server alone, and the start of session.Run.
Opened ==
    /\ main = "opening"
    /\ \/ main' = "running" /\ holders' = {"shell"} /\ UNCHANGED outcome
       \/ Return("failed") /\ UNCHANGED holders
    /\ UNCHANGED <<kind, ctx, link, written, reader, channel, events>>

\* The loop over the channel.
Collect ==
    /\ main = "running"
    /\ channel # <<>>
    /\ events' = Append(events, Head(channel))
    /\ channel' = Tail(channel)
    /\ UNCHANGED <<kind, ctx, main, holders, link, written, reader, outcome>>

ReadersDone == \A s \in Streams : reader[s].at = "done"

\* Variant: cmd.Wait, which closes the pipes, is called without waiting for the scanners.
WaitAtOnce ==
    /\ kind = "local"
    /\ main = "running"
    /\ "shell" \notin holders
    /\ Return(IF ctx = "done" THEN "cancelled" ELSE "ok")
    /\ UNCHANGED <<kind, ctx, holders, link, written, reader, channel, events>>

\* The channel is closed when both scanners are done, and then cmd.Wait waits for the shell.
LocalReturns ==
    /\ kind = "local"
    /\ main = "running"
    /\ ReadersDone /\ channel = <<>>
    /\ "shell" \notin holders
    /\ Return(IF ctx = "done" THEN "cancelled" ELSE "ok")
    /\ UNCHANGED <<kind, ctx, holders, link, written, reader, channel, events>>

\* session.Run ends with the streams; on a connection that is gone it succeeds if the
\* status of the shell has come. That is taken first, or the end of the context.
RunDone ==
    /\ kind = "ssh"
    /\ main = "running"
    /\ ReadersDone
    /\ main' = "flushing"
    /\ outcome' \in CASE link = "up" -> {"ok"}
                       [] link = "closed" ->
                            {"failed"} \cup (IF ctx = "done" THEN {"cancelled"} ELSE {})
                                       \cup (IF "shell" \notin holders THEN {"ok"} ELSE {})
    /\ UNCHANGED <<kind, ctx, holders, link, written, reader, channel, events>>

\* flush of stdout, then of stderr.
FlushAndReturn ==
    /\ main = "flushing"
    /\ events' = events \o (IF Pending("stdout") THEN <<PendingLine("stdout")>> ELSE <<>>)
                        \o (IF Pending("stderr") THEN <<PendingLine("stderr")>> ELSE <<>>)
    /\ main' = "returned"
    /\ UNCHANGED <<kind, ctx, holders, link, written, reader, channel, outcome>>

-----------------------------------------------------------------------------
\* Cancellation.

\* Stop, or the timeout.
CancelCommand ==
    /\ main \notin {"idle", "returned"}
    /\ ctx = "live"
    /\ ctx' = "done"
    /\ UNCHANGED <<kind, main, holders, link, written, reader, channel, events, outcome>>

\* Variant: the shell is killed, as exec.CommandContext does, but not its group.
KillShell ==
    /\ kind = "local"
    /\ main = "running"
    /\ ctx = "done"
    /\ "shell" \in holders
    /\ holders' = holders \ {"shell"}
    /\ UNCHANGED <<kind, ctx, main, link, written, reader, channel, events, outcome>>

\* watchCommandCancellation.
KillGroup ==
    /\ kind = "local"
    /\ main = "running"
    /\ ctx = "done"
    /\ holders # {}
    /\ holders' = {}
    /\ UNCHANGED <<kind, ctx, main, link, written, reader, channel, events, outcome>>

\* The session and the client are closed.
CloseLink ==
    /\ kind = "ssh"
    /\ main = "running"
    /\ ctx = "done"
    /\ link = "up"
    /\ link' = "closed"
    /\ UNCHANGED <<kind, ctx, main, holders, written, reader, channel, events, outcome>>

\* The server or the network ends the connection.
LoseLink ==
    /\ kind = "ssh"
    /\ main = "running"
    /\ link = "up"
    /\ link' = "closed"
    /\ UNCHANGED <<kind, ctx, main, holders, written, reader, channel, events, outcome>>

ExecutorStep ==
    \/ \E s \in Streams : \/ CommandWrites(s) \/ ReadPiece(s) \/ ReadEnd(s)
                          \/ SendLine(s) \/ EmitLine(s)
    \/ CommandForks \/ \E h \in holders : CommandExits(h)
    \/ Dialed \/ DialFails \/ DialStops \/ Opened
    \/ Collect \/ LocalReturns \/ RunDone \/ FlushAndReturn
    \/ CancelCommand \/ KillGroup \/ CloseLink \/ LoseLink

\* The command itself may run for ever; its timeout passes, and the goroutines run on.
\* A server answers the request for a session.
ExecutorFairness ==
    /\ WF_executorVars(CancelCommand)
    /\ WF_executorVars(KillGroup) /\ WF_executorVars(CloseLink)
    /\ WF_executorVars(DialStops) /\ WF_executorVars(Opened)
    /\ WF_executorVars(Collect) /\ WF_executorVars(LocalReturns)
    /\ WF_executorVars(RunDone) /\ WF_executorVars(FlushAndReturn)
    /\ \A s \in Streams : /\ WF_executorVars(ReadPiece(s)) /\ WF_executorVars(ReadEnd(s))
                          /\ WF_executorVars(SendLine(s)) /\ WF_executorVars(EmitLine(s))

-----------------------------------------------------------------------------
LinesOf(s) == Subsequence(events, {e \in Line : e.stream = s})
TooLong(s) == kind = "local" /\ \E i \in DOMAIN written[s] : written[s][i] = "long"

\* The events of a stream are its lines: in order, none twice and none left out, all of
\* them whole but the last; and a command that has run to its end, on a connection that
\* lasted and without a line too long to scan, leaves no output out of its result.
ResultComplete ==
    \A s \in Streams :
        LET lines == LinesOf(s)
            ends(i) == written[s][i] # "part"
        IN  /\ \A k \in DOMAIN lines :
                  /\ lines[k].first = IF k = 1 THEN 1 ELSE lines[k - 1].last + 1
                  /\ lines[k].first <= lines[k].last
                  /\ \A i \in lines[k].first..(lines[k].last - 1) : ~ends(i)
                  /\ k < Len(lines) => ends(lines[k].last)
            /\ (main = "returned" /\ outcome = "ok" /\ link = "up" /\ ~TooLong(s)) =>
                  Len(written[s]) = IF lines = <<>> THEN 0 ELSE Last(lines).last
=============================================================================
