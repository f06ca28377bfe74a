------------------------------- MODULE MCShells ------------------------------
(***************************************************************************)
(* Both backends of a terminal tab, checked side by side: a behaviour is   *)
(* one of a remote shell or one of a local shell.                          *)
(***************************************************************************)
EXTENDS TerminalTransport

VARIABLE kind

SSH == INSTANCE SSHPTYSession
Local == INSTANCE LocalPTYSession

Init ==
    \/ kind = "ssh" /\ SSH!Init
    \/ kind = "local" /\ Local!Init

Next ==
    \/ kind = "ssh" /\ SSH!Next /\ UNCHANGED kind
    \/ kind = "local" /\ Local!Next /\ UNCHANGED kind

\* Threads run on, and a call the GUI thread has made returns - a write because the
\* shell consumes its input or the connection is torn down, Close because its timer
\* expires.  Nobody has to call, and the shell need neither write nor exit.
Fairness ==
    /\ WF_vars(kind = "ssh" /\ SSH!Gui)
    /\ WF_vars(kind = "ssh" /\ SSH!Watcher)
    /\ WF_vars(kind = "ssh" /\ SSH!Waiter)
    /\ \A s \in SSH!Streams : WF_vars(kind = "ssh" /\ (SSH!Read(s) \/ SSH!Send(s)))
    /\ WF_vars(kind = "local" /\ Local!Gui)
    /\ WF_vars(kind = "local" /\ Local!Watcher)
    /\ WF_vars(kind = "local" /\ Local!Waiter)
    /\ \A s \in Local!Streams : WF_vars(kind = "local" /\ Local!Reader(s))
    /\ WF_vars(Drainer)

Spec == Init /\ [][Next]_<<vars, kind>> /\ Fairness

\* Whatever its backend, the tab's session is an InteractiveShell: output delivered
\* once and in order and the exit reported last; only the local backend abandons the
\* output of a session that was closed.
Shell == INSTANCE InteractiveShell WITH
    status <- Status, abandoned <- kind = "local" /\ closed,
    produced <- sent, delivered <- Delivered
ImplementsShell == Shell!Spec
=============================================================================
