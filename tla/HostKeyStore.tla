---------------------------- MODULE HostKeyStore ----------------------------
(***************************************************************************)
(* SSHHostKeyStore (terminal/ssh_host_key.go) and the connection attempts  *)
(* that use it (guis/interactive_gui.go): the SSH handshake calls Callback *)
(* to verify the key the server presents; an unknown key is shown to the   *)
(* user and, if confirmed, written to the known_hosts file by Trust, after *)
(* which the attempt is made once more.  A prompt stays open as long as    *)
(* the user likes while other attempts verify, prompt and trust.           *)
(*                                                                         *)
(* The file is the set of its <<host, key>> lines.  The program may crash  *)
(* at any time: AtomicWriteFile either has replaced the file or has not.   *)
(***************************************************************************)
EXTENDS Naturals

CONSTANTS Attempts,    \* connection attempts under way at once
          Hosts,
          Keys,        \* the keys servers present
          NoKey        \* no key trusted

ASSUME NoKeyIsNoKey == NoKey \notin Keys
ASSUME NobodyIsNoAttempt == "nobody" \notin Attempts

VARIABLES
    file,       \* the lines of the known_hosts file
    mu,         \* the attempt that holds s.mu, or "nobody"
    attempt,    \* where each attempt is, whom it connects to and what it was shown
    data,       \* the contents Trust is about to write
    approved    \* history: what the user has confirmed

vars == <<file, mu, attempt, data, approved>>

Lines == Hosts \X Keys
States == {"idle", "handshake", "prompt", "trust", "write", "connected", "rejected"}
Attempt == [at : States, host : Hosts, key : Keys, again : BOOLEAN]

TypeOK ==
    /\ file \subseteq Lines
    /\ mu \in Attempts \cup {"nobody"}
    /\ attempt \in [Attempts -> Attempt]
    /\ data \subseteq Lines
    /\ approved \subseteq Lines

Init ==
    /\ file = {}
    /\ mu = "nobody"
    /\ attempt \in [Attempts -> {a \in Attempt : a.at = "idle" /\ ~a.again}]
    /\ data = {}
    /\ approved = {}

\* The verdicts of the knownhosts callback on the current file.
Known(h, k) == <<h, k>> \in file
Want(h) == {k \in Keys : <<h, k>> \in file}

Moves(a, state) == attempt' = [attempt EXCEPT ![a].at = state]

-----------------------------------------------------------------------------
Connect(a) ==
    /\ attempt[a].at = "idle"
    /\ \E h \in Hosts, k \in Keys :
          attempt' = [attempt EXCEPT ![a] =
              [at |-> "handshake", host |-> h, key |-> k, again |-> FALSE]]
    /\ UNCHANGED <<file, mu, data, approved>>

\* Variant: any key will do for a host that is in the file.
VerifyHostOnly(a) ==
    /\ attempt[a].at = "handshake" /\ mu = "nobody"
    /\ \/ Want(attempt[a].host) # {} /\ Moves(a, "connected")
       \/ Want(attempt[a].host) = {} /\ ~attempt[a].again /\ Moves(a, "prompt")
       \/ Want(attempt[a].host) = {} /\ attempt[a].again /\ Moves(a, "rejected")
    /\ UNCHANGED <<file, mu, data, approved>>

\* Callback, under s.mu throughout; the second attempt does not prompt again.
Verify(a) ==
    /\ attempt[a].at = "handshake" /\ mu = "nobody"
    /\ LET h == attempt[a].host
           k == attempt[a].key
       IN  \/ Known(h, k) /\ Moves(a, "connected")
           \/ ~Known(h, k) /\ Want(h) # {} /\ Moves(a, "rejected")
           \/ Want(h) = {} /\ ~attempt[a].again /\ Moves(a, "prompt")
           \/ Want(h) = {} /\ attempt[a].again /\ Moves(a, "rejected")
    /\ UNCHANGED <<file, mu, data, approved>>

Cancel(a) ==
    /\ attempt[a].at = "prompt"
    /\ Moves(a, "idle")
    /\ UNCHANGED <<file, mu, data, approved>>

Confirm(a) ==
    /\ attempt[a].at = "prompt"
    /\ Moves(a, "trust")
    /\ approved' = approved \cup {<<attempt[a].host, attempt[a].key>>}
    /\ UNCHANGED <<file, mu, data>>

\* Registering the transport once more: the server presents a key afresh.
Retried(a, k) == [attempt[a] EXCEPT !.at = "handshake", !.key = k, !.again = TRUE]

\* Variant: Trust believes the verdict the prompt was opened for.
TrustCheckOmitted(a) ==
    /\ attempt[a].at = "trust" /\ mu = "nobody"
    /\ mu' = a
    /\ data' = file \cup {<<attempt[a].host, attempt[a].key>>}
    /\ Moves(a, "write")
    /\ UNCHANGED <<file, approved>>

\* Trust takes s.mu, verifies once more and reads the file.
TrustCheck(a) ==
    /\ attempt[a].at = "trust" /\ mu = "nobody"
    /\ LET h == attempt[a].host
           k == attempt[a].key
       IN  \/ /\ Known(h, k)
              /\ \E again \in Keys :
                    attempt' = [attempt EXCEPT ![a] = Retried(a, again)]
              /\ UNCHANGED <<mu, data>>
           \/ /\ ~Known(h, k) /\ Want(h) # {}
              /\ Moves(a, "rejected")
              /\ UNCHANGED <<mu, data>>
           \/ /\ Want(h) = {}
              /\ mu' = a
              /\ data' = file \cup {<<h, k>>}
              /\ Moves(a, "write")
    /\ UNCHANGED <<file, approved>>

\* AtomicWriteFile replaces the file, s.mu is released.
TrustWrite(a) ==
    /\ attempt[a].at = "write"
    /\ file' = data
    /\ mu' = "nobody"
    /\ \E k \in Keys : attempt' = [attempt EXCEPT ![a] = Retried(a, k)]
    /\ UNCHANGED <<data, approved>>

\* AtomicWriteFile reports an error: before the rename, or - from the final Chmod -
\* after it, when the line is in the file nevertheless.
TrustFails(a) ==
    /\ attempt[a].at = "write"
    /\ file' \in {file, data}
    /\ mu' = "nobody"
    /\ Moves(a, "rejected")
    /\ UNCHANGED <<data, approved>>

Leave(a) ==
    /\ attempt[a].at \in {"connected", "rejected"}
    /\ Moves(a, "idle")
    /\ UNCHANGED <<file, mu, data, approved>>

\* The program is killed and started again: only the file survives.
Crash ==
    /\ mu' = "nobody"
    /\ attempt' = [a \in Attempts |-> [attempt[a] EXCEPT !.at = "idle"]]
    /\ UNCHANGED <<file, data, approved>>

Next ==
    \/ \E a \in Attempts :
          \/ Connect(a) \/ Verify(a) \/ Cancel(a) \/ Confirm(a)
          \/ TrustCheck(a) \/ TrustWrite(a) \/ TrustFails(a) \/ Leave(a)
    \/ Crash

Spec == Init /\ [][Next]_vars

-----------------------------------------------------------------------------
\* Trust's comment: "once one key wins, a stale prompt for a different key must become
\* a changed key rejection rather than appending a second trusted identity".
OneKeyPerHost ==
    \A h \in Hosts, j, k \in Keys : <<h, j>> \in file /\ <<h, k>> \in file => j = k

\* A connection is made only with a key the user has confirmed for that host, in this
\* run of the program or before a crash, whichever prompts were open meanwhile.
ConnectedIsApproved ==
    \A a \in Attempts :
        attempt[a].at = "connected" => <<attempt[a].host, attempt[a].key>> \in approved

\* The store implements trust on first use: a trusted key is never lost, by a later
\* Trust or a crash, and never replaced.
KeyIn(keys) == IF keys = {} THEN NoKey ELSE CHOOSE k \in keys : TRUE
Trusted == [h \in Hosts |-> KeyIn(Want(h))]
FirstUse == INSTANCE FirstUseTrust WITH trusted <- Trusted
TrustKept == FirstUse!Spec
=============================================================================
