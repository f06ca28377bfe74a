--------------------------- MODULE CommandSession ---------------------------
(***************************************************************************)
(* Session (terminal/session.go): a command is run by the executor and     *)
(* then recorded in the history.  Commands of interactive sessions are     *)
(* recorded meanwhile, the program may end at any time, and an older       *)
(* version of it may have written the history before.                      *)
(***************************************************************************)
EXTENDS CommandExecutor, HistoryStore

CONSTANTS MaxBefore,  \* bound on the entries there are when a command is started
          MaxDuring   \* and on those that are recorded until it has returned

ASSUME SessionAssumption == {MaxBefore, MaxDuring} \subseteq 0..(MaxEntries - 1)

vars == <<executorVars, historyVars>>

TypeOK == ExecutorTypeOK /\ HistoryTypeOK

Init == ExecutorInit /\ HistoryInit

\* RunCommand.
RunCommand ==
    /\ program = "up"
    /\ issued <= MaxBefore
    /\ StartCommand
    /\ UNCHANGED historyVars

Execute == ExecutorStep /\ UNCHANGED historyVars

\* Every result is recorded, that of a command that failed or was cancelled too.
RecordResult ==
    /\ main = "returned"
    /\ AppendEntry
    /\ Forget

\* Commands that are run interactively.
RecordInteractive ==
    /\ main = "idle" \/ issued < MaxDuring
    /\ AppendEntry
    /\ UNCHANGED executorVars

\* The program ends, and with it the call.
EndProgram == Stop /\ Forget

UseHistoryFile ==
    /\ LaunchOld \/ AppendToFile \/ AppendToFileFails \/ Launch \/ Migrate \/ RemoveFile
    /\ UNCHANGED executorVars

Next ==
    \/ RunCommand \/ Execute \/ RecordResult \/ RecordInteractive
    \/ EndProgram \/ UseHistoryFile

Spec == Init /\ [][Next]_vars /\ ExecutorFairness /\ WF_vars(RecordResult)

-----------------------------------------------------------------------------
\* RunCommand returns, even if the command would never end, if the server never completes
\* the handshake, or if the command leaves a process in the background that holds its
\* output open.
CommandReturns == main # "idle" ~> main = "idle"
=============================================================================
