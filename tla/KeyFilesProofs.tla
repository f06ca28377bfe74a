---------------------------- MODULE KeyFilesProofs ---------------------------
(***************************************************************************)
(* The two files that hold keys, each under its own discipline: what the   *)
(* runs check of the known-hosts file and of the master key on small       *)
(* instances, proved for any hosts, keys, connection attempts and          *)
(* processes.                                                              *)
(***************************************************************************)
EXTENDS HostKeyStore, MasterKey, TLAPS

-----------------------------------------------------------------------------
\* The known-hosts file: whoever writes it holds the lock, and what is about to be
\* written is the file as it is with one line more.

Line(a) == <<attempt[a].host, attempt[a].key>>

\* The attempt that holds s.mu outside a critical section is the one that writes.
LockHeld == \A a \in Attempts : attempt[a].at = "write" <=> mu = a

\* While the lock is held nobody changes the file: what is about to be written is
\* still the file with one line more, for a host that has none.
WriteCurrent ==
    \A a \in Attempts : attempt[a].at = "write" =>
        /\ data = file \cup {Line(a)}
        /\ Want(attempt[a].host) = {}

\* Only what the user has confirmed is trusted.
AllApproved ==
    /\ file \subseteq approved
    /\ \A a \in Attempts :
          attempt[a].at \in {"trust", "write", "connected"} => Line(a) \in approved

\* The inductive invariant.
IInv == TypeOK /\ LockHeld /\ WriteCurrent /\ OneKeyPerHost /\ AllApproved

\* The initial states satisfy the inductive invariant: the file is empty.
LEMMA InitIInv == Init => IInv
  <1> SUFFICES ASSUME Init PROVE IInv
    OBVIOUS
  <1>1. TypeOK
    BY DEF Init, TypeOK
  <1>2. \A a \in Attempts : attempt[a].at = "idle"
    BY DEF Init
  <1> QED
    BY <1>1, <1>2, NobodyIsNoAttempt DEF Init, IInv, LockHeld, WriteCurrent,
       OneKeyPerHost, AllApproved

\* An attempt that moves without touching the lock, and not into a state the invariant
\* speaks of, keeps the invariant.
LEMMA Quiet ==
  ASSUME IInv, NEW a \in Attempts, NEW r \in Attempt,
         attempt[a].at # "write", r.at # "write",
         r.at \in {"trust", "connected"} => <<r.host, r.key>> \in approved',
         attempt' = [attempt EXCEPT ![a] = r],
         file' = file, mu' = mu, data' = data,
         approved \subseteq approved', approved' \subseteq Lines
  PROVE  IInv'
  <1> USE DEF IInv
  <1>1. TypeOK'
    BY DEF TypeOK
  <1>2. \A b \in Attempts : attempt'[b] = IF b = a THEN r ELSE attempt[b]
    BY DEF TypeOK
  <1>3. LockHeld'
    BY <1>2 DEF LockHeld
  <1>4. WriteCurrent'
    BY <1>2 DEF WriteCurrent, Line, Want
  <1>5. OneKeyPerHost'
    BY DEF OneKeyPerHost
  <1>6. AllApproved'
    BY <1>2 DEF AllApproved, Line
  <1> QED
    BY <1>1, <1>3, <1>4, <1>5, <1>6

\* The same for a move that changes nothing of the attempt but its state.
LEMMA QuietMove ==
  ASSUME IInv, NEW a \in Attempts, NEW state \in States,
         attempt[a].at # "write", state # "write",
         state \in {"trust", "connected"} => Line(a) \in approved',
         Moves(a, state),
         file' = file, mu' = mu, data' = data,
         approved \subseteq approved', approved' \subseteq Lines
  PROVE  IInv'
  <1> DEFINE r == [attempt[a] EXCEPT !.at = state]
  <1>1. attempt[a] \in Attempt
    BY DEF IInv, TypeOK
  <1>2. r \in Attempt /\ r.at = state /\ r.host = attempt[a].host /\ r.key = attempt[a].key
    BY <1>1 DEF Attempt
  <1>3. attempt' = [attempt EXCEPT ![a] = r]
    BY DEF Moves
  <1> HIDE DEF r
  <1> QED
    BY <1>2, <1>3, Quiet DEF Line

\* A step of an attempt that does not write preserves the invariant.
LEMMA AttemptStep ==
  ASSUME IInv, NEW a \in Attempts,
         Connect(a) \/ Verify(a) \/ Cancel(a) \/ Confirm(a) \/ Leave(a)
  PROVE  IInv'
  <1>t. attempt[a] \in Attempt /\ approved \subseteq Lines
    BY DEF IInv, TypeOK
  <1>1. CASE Connect(a)
    <2>1. PICK h \in Hosts, k \in Keys : attempt' = [attempt EXCEPT ![a] =
              [at |-> "handshake", host |-> h, key |-> k, again |-> FALSE]]
      BY <1>1 DEF Connect
    <2>2. [at |-> "handshake", host |-> h, key |-> k, again |-> FALSE] \in Attempt
      BY DEF Attempt, States
    <2> QED
      BY <1>1, <1>t, <2>1, <2>2, Quiet DEF Connect
  <1>2. CASE Verify(a)
    <2>1. CASE Known(attempt[a].host, attempt[a].key) /\ Moves(a, "connected")
      <3>1. Line(a) \in approved
        BY <2>1 DEF Known, Line, IInv, AllApproved
      <3> QED
        BY <1>2, <1>t, <2>1, <3>1, QuietMove DEF Verify, States
    <2>2. CASE Moves(a, "rejected")
      BY <1>2, <1>t, <2>2, QuietMove DEF Verify, States
    <2>3. CASE Moves(a, "prompt")
      BY <1>2, <1>t, <2>3, QuietMove DEF Verify, States
    <2> QED
      BY <1>2, <2>1, <2>2, <2>3 DEF Verify
  <1>3. CASE Cancel(a)
    BY <1>3, <1>t, QuietMove DEF Cancel, States
  <1>4. CASE Confirm(a)
    <2>1. Line(a) \in approved' /\ approved \subseteq approved' /\ approved' \subseteq Lines
      BY <1>4, <1>t DEF Confirm, Line, Lines, Attempt
    <2> QED
      BY <1>4, <2>1, QuietMove DEF Confirm, States
  <1>5. CASE Leave(a)
    BY <1>5, <1>t, QuietMove DEF Leave, States
  <1> QED
    BY <1>1, <1>2, <1>3, <1>4, <1>5

\* Trust's check preserves the invariant: it prepares a write only under the lock and
\* only for a host without a key.
LEMMA CheckStep ==
  ASSUME IInv, NEW a \in Attempts, TrustCheck(a)
  PROVE  IInv'
  <1> DEFINE h == attempt[a].host
             k == attempt[a].key
  <1>t. attempt[a] \in Attempt /\ approved \subseteq Lines
    BY DEF IInv, TypeOK
  <1>1. CASE Known(h, k)
    <2>1. PICK again \in Keys : attempt' = [attempt EXCEPT ![a] = Retried(a, again)]
      BY <1>1 DEF TrustCheck, Want, Known, Attempt, IInv, TypeOK
    <2>2. Retried(a, again) \in Attempt /\ Retried(a, again).at = "handshake"
      BY <1>t DEF Retried, Attempt, States
    <2>3. mu' = mu /\ data' = data
      BY <1>1, <1>t DEF TrustCheck, Known, Want, Attempt
    <2> QED
      BY <1>t, <2>1, <2>2, <2>3, Quiet DEF TrustCheck
  <1>2. CASE ~Known(h, k) /\ Want(h) # {}
    BY <1>2, <1>t, QuietMove DEF TrustCheck, States
  <1>3. CASE Want(h) = {}
    <2>1. ~Known(h, k)
      BY <1>3, <1>t DEF Known, Want, Attempt
    <2>2. mu' = a /\ data' = file \cup {Line(a)} /\ Moves(a, "write")
      BY <1>3, <2>1 DEF TrustCheck, Line
    <2>3. file' = file /\ approved' = approved /\ attempt[a].at = "trust" /\ mu = "nobody"
      BY DEF TrustCheck
    <2>4. /\ attempt' \in [Attempts -> Attempt]
          /\ \A b \in Attempts : b # a => attempt'[b] = attempt[b]
          /\ attempt'[a].at = "write" /\ attempt'[a].host = h /\ attempt'[a].key = k
      BY <1>t, <2>2 DEF Moves, IInv, TypeOK, Attempt, States
    <2>5. Line(a)' = Line(a)
      BY <2>4 DEF Line
    <2>6. TypeOK'
      BY <1>t, <2>2, <2>3, <2>4 DEF IInv, TypeOK, Line, Lines, Attempt
    <2>7. LockHeld'
      BY <2>2, <2>3, <2>4, NobodyIsNoAttempt DEF IInv, LockHeld
    <2>8. \A b \in Attempts : attempt'[b].at = "write" => b = a
      BY <2>2, <2>7 DEF LockHeld
    <2>9. WriteCurrent'
      BY <1>3, <2>2, <2>3, <2>4, <2>5, <2>8 DEF WriteCurrent, Want
    <2>10. OneKeyPerHost'
      BY <2>3 DEF IInv, OneKeyPerHost
    <2>11. AllApproved'
      <3>1. Line(a) \in approved
        BY <2>3 DEF IInv, AllApproved
      <3> QED
        BY <2>3, <2>4, <2>5, <3>1 DEF IInv, AllApproved, Line
    <2> QED
      BY <2>6, <2>7, <2>9, <2>10, <2>11 DEF IInv
  <1> QED
    BY <1>1, <1>2, <1>3

\* Replacing the file, or failing to, preserves the invariant, and the file either
\* stays or gains the line of the attempt, whose host had none.
LEMMA WriteStep ==
  ASSUME IInv, NEW a \in Attempts, TrustWrite(a) \/ TrustFails(a)
  PROVE  /\ IInv'
         /\ file' = file \/ file' = file \cup {Line(a)}
         /\ Want(attempt[a].host) = {}
  <1>t. attempt[a] \in Attempt
    BY DEF IInv, TypeOK
  <1>1. attempt[a].at = "write" /\ mu' = "nobody" /\ data' = data /\ approved' = approved
    BY DEF TrustWrite, TrustFails
  <1>2. data = file \cup {Line(a)} /\ Want(attempt[a].host) = {} /\ Line(a) \in approved
    BY <1>1 DEF IInv, WriteCurrent, AllApproved
  <1>3. file' = file \/ file' = file \cup {Line(a)}
    BY <1>2 DEF TrustWrite, TrustFails
  <1>4. PICK r \in Attempt : /\ attempt' = [attempt EXCEPT ![a] = r]
                             /\ r.at \in {"handshake", "rejected"}
    <2>1. CASE TrustWrite(a)
      <3>1. PICK k \in Keys : attempt' = [attempt EXCEPT ![a] = Retried(a, k)]
        BY <2>1 DEF TrustWrite
      <3>2. Retried(a, k) \in Attempt /\ Retried(a, k).at = "handshake"
        BY <1>t DEF Retried, Attempt, States
      <3> QED
        BY <3>1, <3>2
    <2>2. CASE TrustFails(a)
      <3>1. attempt' = [attempt EXCEPT ![a] = [attempt[a] EXCEPT !.at = "rejected"]]
        BY <2>2 DEF TrustFails, Moves
      <3>2. [attempt[a] EXCEPT !.at = "rejected"] \in Attempt
        BY <1>t DEF Attempt, States
      <3>3. [attempt[a] EXCEPT !.at = "rejected"].at = "rejected"
        BY <1>t DEF Attempt
      <3> QED
        BY <3>1, <3>2, <3>3
    <2> QED
      BY <2>1, <2>2
  <1>5. \A b \in Attempts : attempt'[b] = IF b = a THEN r ELSE attempt[b]
    BY <1>4 DEF IInv, TypeOK
  <1>6. \A b \in Attempts : attempt'[b].at # "write"
    BY <1>1, <1>4, <1>5 DEF IInv, LockHeld
  <1>7. TypeOK'
    BY <1>1, <1>2, <1>3, <1>4 DEF IInv, TypeOK
  <1>8. LockHeld' /\ WriteCurrent'
    BY <1>1, <1>6, NobodyIsNoAttempt DEF LockHeld, WriteCurrent
  <1>9. OneKeyPerHost'
    <2>1. SUFFICES ASSUME NEW h \in Hosts, NEW i \in Keys, NEW k \in Keys,
                          <<h, i>> \in file', <<h, k>> \in file'
                   PROVE  i = k
      BY DEF OneKeyPerHost
    <2>2. CASE <<h, i>> \in file /\ <<h, k>> \in file
      BY <2>2 DEF IInv, OneKeyPerHost
    <2>3. CASE <<h, i>> \notin file \/ <<h, k>> \notin file
      <3>1. h = attempt[a].host
        BY <1>3, <2>1, <2>3 DEF Line
      <3>2. <<h, i>> \notin file /\ <<h, k>> \notin file
        BY <1>2, <3>1 DEF Want
      <3> QED
        BY <1>3, <2>1, <3>2 DEF Line
    <2> QED
      BY <2>2, <2>3
  <1>10. AllApproved'
    BY <1>1, <1>2, <1>3, <1>4, <1>5 DEF IInv, AllApproved, Line
  <1> QED
    BY <1>2, <1>3, <1>7, <1>8, <1>9, <1>10 DEF IInv

\* A crash leaves the file and forgets the rest.
LEMMA CrashStep == IInv /\ Crash => IInv'
  <1> SUFFICES ASSUME IInv, Crash PROVE IInv'
    OBVIOUS
  <1>1. \A a \in Attempts : attempt[a] \in Attempt
    BY DEF IInv, TypeOK
  <1>2. attempt' \in [Attempts -> Attempt] /\ \A a \in Attempts : attempt'[a].at = "idle"
    BY <1>1 DEF Crash, Attempt, States
  <1>3. file' = file /\ data' = data /\ approved' = approved /\ mu' = "nobody"
    BY DEF Crash
  <1>4. TypeOK'
    BY <1>2, <1>3 DEF IInv, TypeOK
  <1>5. LockHeld' /\ WriteCurrent'
    BY <1>2, <1>3, NobodyIsNoAttempt DEF LockHeld, WriteCurrent
  <1>6. OneKeyPerHost' /\ AllApproved'
    BY <1>2, <1>3 DEF IInv, OneKeyPerHost, AllApproved
  <1> QED
    BY <1>4, <1>5, <1>6 DEF IInv

\* Every step preserves the inductive invariant.
LEMMA NextIInv == IInv /\ [Next]_vars => IInv'
  <1> SUFFICES ASSUME IInv, [Next]_vars PROVE IInv'
    OBVIOUS
  <1>1. CASE UNCHANGED vars
    BY <1>1 DEF vars, IInv, TypeOK, LockHeld, WriteCurrent, OneKeyPerHost, AllApproved,
                Line, Want
  <1>2. CASE \E a \in Attempts :
               Connect(a) \/ Verify(a) \/ Cancel(a) \/ Confirm(a) \/ Leave(a)
    BY <1>2, AttemptStep
  <1>3. CASE \E a \in Attempts : TrustCheck(a)
    BY <1>3, CheckStep
  <1>4. CASE \E a \in Attempts : TrustWrite(a) \/ TrustFails(a)
    BY <1>4, WriteStep
  <1>5. CASE Crash
    BY <1>5, CrashStep
  <1> QED
    BY <1>1, <1>2, <1>3, <1>4, <1>5 DEF Next

\* The inductive invariant holds in every reachable state of the store.
THEOREM Invariance == Spec => []IInv
  <1> QED
    BY InitIInv, NextIInv, PTL DEF Spec

\* The variables keep their types.
THEOREM TypeCorrect == Spec => []TypeOK
  <1>1. IInv => TypeOK
    BY DEF IInv
  <1> QED
    BY <1>1, Invariance, PTL

\* The known_hosts file never holds two keys for a host.
THEOREM OneKey == Spec => []OneKeyPerHost
  <1>1. IInv => OneKeyPerHost
    BY DEF IInv
  <1> QED
    BY <1>1, Invariance, PTL

\* No connection is made with a key the user has not confirmed for that host.
THEOREM ApprovedOnly == Spec => []ConnectedIsApproved
  <1>1. IInv => ConnectedIsApproved
    BY DEF IInv, AllApproved, ConnectedIsApproved, Line
  <1> QED
    BY <1>1, Invariance, PTL

-----------------------------------------------------------------------------
\* A step that leaves the file leaves the trusted keys.
LEMMA SameFile == ASSUME file' = file PROVE Trusted' = Trusted
  <1>1. \A h : Want(h)' = Want(h)
    BY DEF Want
  <1> QED
    BY <1>1 DEF Trusted

\* A line added for a host without a key is a Trust step of the abstract store.
LEMMA AddedLine ==
  ASSUME NEW h \in Hosts, NEW k \in Keys, Want(h) = {}, file' = file \cup {<<h, k>>}
  PROVE  FirstUse!Trust(h, k)
  <1>1. Want(h)' = {k}
    BY DEF Want
  <1>2. ASSUME NEW g \in Hosts, g # h PROVE Want(g)' = Want(g)
    BY <1>2 DEF Want
  <1>3. KeyIn({k}) = k /\ Trusted[h] = NoKey
    BY DEF Trusted, KeyIn
  <1>4. Trusted' = [Trusted EXCEPT ![h] = k]
    <2>1. \A g \in Hosts : Trusted'[g] = IF g = h THEN k ELSE Trusted[g]
      BY <1>1, <1>2, <1>3 DEF Trusted
    <2>2. Trusted' = [g \in Hosts |-> Trusted'[g]] /\ Trusted = [g \in Hosts |-> Trusted[g]]
      BY DEF Trusted
    <2> QED
      BY <2>1, <2>2
  <1> QED
    BY <1>3, <1>4 DEF FirstUse!Trust

\* The store implements trust on first use: a host's key, once trusted, stays its key.
THEOREM Refinement == Spec => TrustKept
  <1>1. Init => FirstUse!Init
    BY DEF Init, FirstUse!Init, Trusted, KeyIn, Want
  <1>2. IInv /\ [Next]_vars => [FirstUse!Next]_Trusted
    <2> SUFFICES ASSUME IInv, [Next]_vars PROVE [FirstUse!Next]_Trusted
      OBVIOUS
    <2>1. CASE file' = file
      BY <2>1, SameFile
    <2>2. CASE \E a \in Attempts : TrustWrite(a) \/ TrustFails(a)
      <3>1. PICK a \in Attempts : TrustWrite(a) \/ TrustFails(a)
        BY <2>2
      <3>2. attempt[a].host \in Hosts /\ attempt[a].key \in Keys
        BY DEF IInv, TypeOK, Attempt
      <3>3. Want(attempt[a].host) = {}
        BY <3>1, WriteStep
      <3>4. file' = file \/ file' = file \cup {<<attempt[a].host, attempt[a].key>>}
        BY <3>1, WriteStep DEF Line
      <3> QED
        BY <3>2, <3>3, <3>4, SameFile, AddedLine DEF FirstUse!Next
    <2> QED
      BY <2>1, <2>2 DEF Next, vars, Connect, Verify, Cancel, Confirm, TrustCheck, Leave, Crash
  <1> QED
    BY <1>1, <1>2, Invariance, PTL DEF Spec, TrustKept, FirstUse!Spec

-----------------------------------------------------------------------------
\* The master key.  The invariant says who owns the key file: while one process makes
\* it no other does, whoever has gone on has the key that is in it, and once rows are
\* encrypted nobody is left who could replace it.

Making == {"write", "sync", "remove"}
Holding == {"sync", "secure", "syncdir", "ready"}
Creating == {"create", "write", "sync", "remove", "secure", "syncdir"}
Reading == {"read", "inspect", "create", "again", "ready"}

\* An unreliable system runs one process at a time.
Alone == ~reliable => \A p, q \in Processes : ~At(p, "off") /\ ~At(q, "off") => p = q

\* One process makes the file, which is there as long as it does.
OneMaker ==
    /\ \A p, q \in Processes : process[p].at \in Making /\ process[q].at \in Making => p = q
    /\ \A p \in Processes :
          /\ process[p].at \in Making => keyFile # Absent
          /\ At(p, "write") => keyFile = Invalid
          /\ At(p, "remove") => keyFile = Invalid \/ ~reliable

\* Whoever has a key that has been written has the key that is in the file.
HasFileKey == \A p \in Processes : process[p].at \in Holding => keyFile = process[p].key /\ keyFile \in MasterKeys

Drawn == \A p \in Processes : process[p].at \in Creating => process[p].key \in MasterKeys

\* Rows are encrypted with the key of the file, or the file has been removed and nobody
\* is about to make another.
OneInFile ==
    encrypted # {} =>
        /\ OneMasterKey
        /\ \/ keyFile \in encrypted
           \/ /\ removed
              /\ keyFile = Absent
              /\ \A p \in Processes : process[p].at \in {"off", "read", "inspect"}

\* Where power may fail the file is synced before it is used.
SyncedFirst ==
    ~reliable =>
        /\ encrypted # {} => synced = "entry"
        /\ \A p \in Processes :
              /\ process[p].at \in Creating => encrypted = {}
              /\ process[p].at \in Reading => synced = "entry"

KeyInv == KeyTypeOK /\ Alone /\ OneMaker /\ HasFileKey /\ Drawn /\ OneInFile /\ SyncedFirst

-----------------------------------------------------------------------------
USE DEF At, Goes, Ends, Gets, NoProcess

\* The start has no key, no process and no data.
LEMMA KeyInitially == KeyInit => KeyInv
<1> SUFFICES ASSUME KeyInit PROVE KeyInv
  OBVIOUS
<1>1. \A p \in Processes : process[p].at = "off"
  BY DEF KeyInit
<1>2. KeyTypeOK
  BY DEF KeyInit, KeyTypeOK, Places
<1>3. Alone /\ OneMaker /\ HasFileKey /\ Drawn
  BY <1>1 DEF Alone, OneMaker, Making, HasFileKey, Holding, Drawn, Creating
<1>4. OneInFile /\ SyncedFirst
  BY <1>1 DEF KeyInit, OneInFile, SyncedFirst, Creating, Reading
<1> QED
  BY <1>2, <1>3, <1>4 DEF KeyInv

\* Every step of a process, a power failure and the removal by hand keep the invariant.
LEMMA KeyInductive == KeyInv /\ [KeyNext]_keyVars => KeyInv'
<1> SUFFICES ASSUME KeyInv, [KeyNext]_keyVars PROVE KeyInv'
  OBVIOUS
<1> USE NoMasterKey DEF KeyInv, KeyTypeOK, Places
<1>1. ASSUME NEW p \in Processes, Launch(p) PROVE KeyInv'
  <2>1. KeyTypeOK'
    BY <1>1 DEF Launch
  <2>2. Alone'
    BY <1>1 DEF Launch, Alone
  <2>3. OneMaker'
    BY <1>1 DEF Launch, OneMaker, Making
  <2>4. HasFileKey'
    BY <1>1 DEF Launch, HasFileKey, Holding
  <2>5. Drawn'
    BY <1>1 DEF Launch, Drawn, Creating
  <2>6. OneInFile'
    BY <1>1 DEF Launch, OneInFile, OneMasterKey
  <2>7. SyncedFirst'
    BY <1>1 DEF Launch, SyncedFirst, Creating, Reading
  <2> QED
    BY <2>1, <2>2, <2>3, <2>4, <2>5, <2>6, <2>7
<1>2. ASSUME NEW p \in Processes, ReadKey(p) PROVE KeyInv'
  <2>1. KeyTypeOK'
    BY <1>2 DEF ReadKey
  <2>2. Alone'
    BY <1>2 DEF ReadKey, Alone
  <2>3. OneMaker'
    BY <1>2 DEF ReadKey, OneMaker, Making
  <2>4. HasFileKey'
    BY <1>2 DEF ReadKey, HasFileKey, Holding
  <2>5. Drawn'
    BY <1>2 DEF ReadKey, Drawn, Creating
  <2>6. OneInFile'
    BY <1>2 DEF ReadKey, OneInFile, OneMasterKey
  <2>7. SyncedFirst'
    BY <1>2 DEF ReadKey, SyncedFirst, Creating, Reading
  <2> QED
    BY <2>1, <2>2, <2>3, <2>4, <2>5, <2>6, <2>7
<1>3. ASSUME NEW p \in Processes, Inspect(p) PROVE KeyInv'
  <2>1. KeyTypeOK'
    BY <1>3 DEF Inspect
  <2>2. Alone'
    BY <1>3 DEF Inspect, Alone
  <2>3. OneMaker'
    BY <1>3 DEF Inspect, OneMaker, Making
  <2>4. HasFileKey'
    BY <1>3 DEF Inspect, HasFileKey, Holding
  <2>5. Drawn'
    BY <1>3 DEF Inspect, Drawn, Creating
  <2>6. OneInFile'
    BY <1>3 DEF Inspect, OneInFile, OneMasterKey
  <2>7. SyncedFirst'
    BY <1>3 DEF Inspect, SyncedFirst, Creating, Reading
  <2> QED
    BY <2>1, <2>2, <2>3, <2>4, <2>5, <2>6, <2>7
<1>4. ASSUME NEW p \in Processes, Create(p) PROVE KeyInv'
  <2>1. KeyTypeOK'
    BY <1>4 DEF Create
  <2>2. Alone'
    BY <1>4 DEF Create, Alone
  <2>3. OneMaker'
    BY <1>4 DEF Create, OneMaker, Making
  <2>4. HasFileKey'
    BY <1>4 DEF Create, HasFileKey, Holding
  <2>5. Drawn'
    BY <1>4 DEF Create, Drawn, Creating
  <2>6. OneInFile'
    BY <1>4 DEF Create, OneInFile, OneMasterKey
  <2>7. SyncedFirst'
    BY <1>4 DEF Create, SyncedFirst, Creating, Reading, Alone
  <2> QED
    BY <2>1, <2>2, <2>3, <2>4, <2>5, <2>6, <2>7
<1>5. ASSUME NEW p \in Processes, WriteKey(p) PROVE KeyInv'
  <2>1. KeyTypeOK'
    BY <1>5 DEF WriteKey
  <2>2. Alone'
    BY <1>5 DEF WriteKey, Alone
  <2>3. OneMaker'
    BY <1>5 DEF WriteKey, OneMaker, Making, Drawn, Creating
  <2>4. HasFileKey'
    BY <1>5 DEF WriteKey, HasFileKey, Holding, OneMaker, Making, Drawn, Creating
  <2>5. Drawn'
    BY <1>5 DEF WriteKey, Drawn, Creating
  <2>6. OneInFile'
    BY <1>5 DEF WriteKey, OneInFile, OneMasterKey, OneMaker, Making
  <2>7. SyncedFirst'
    BY <1>5 DEF WriteKey, SyncedFirst, Creating, Reading
  <2> QED
    BY <2>1, <2>2, <2>3, <2>4, <2>5, <2>6, <2>7
<1>6. ASSUME NEW p \in Processes, SyncFile(p) PROVE KeyInv'
  <2>1. KeyTypeOK'
    BY <1>6 DEF SyncFile
  <2>2. Alone'
    BY <1>6 DEF SyncFile, Alone
  <2>3. OneMaker'
    BY <1>6 DEF SyncFile, OneMaker, Making
  <2>4. HasFileKey'
    BY <1>6 DEF SyncFile, HasFileKey, Holding
  <2>5. Drawn'
    BY <1>6 DEF SyncFile, Drawn, Creating
  <2>6. OneInFile'
    BY <1>6 DEF SyncFile, OneInFile, OneMasterKey
  <2>7. SyncedFirst'
    BY <1>6 DEF SyncFile, SyncedFirst, Creating, Reading, Alone
  <2> QED
    BY <2>1, <2>2, <2>3, <2>4, <2>5, <2>6, <2>7
<1>7. ASSUME NEW p \in Processes, RemoveFile(p) PROVE KeyInv'
  <2>1. KeyTypeOK'
    BY <1>7 DEF RemoveFile
  <2>2. Alone'
    BY <1>7 DEF RemoveFile, Alone
  <2>3. OneMaker'
    BY <1>7 DEF RemoveFile, OneMaker, Making
  <2>4. HasFileKey'
    BY <1>7 DEF RemoveFile, HasFileKey, Holding, OneMaker, Making, Alone
  <2>5. Drawn'
    BY <1>7 DEF RemoveFile, Drawn, Creating
  <2>6. OneInFile'
    BY <1>7 DEF RemoveFile, OneInFile, OneMasterKey, OneMaker, Making, SyncedFirst, Creating
  <2>7. SyncedFirst'
    BY <1>7 DEF RemoveFile, SyncedFirst, Creating, Reading
  <2> QED
    BY <2>1, <2>2, <2>3, <2>4, <2>5, <2>6, <2>7
<1>8. ASSUME NEW p \in Processes, Secure(p) PROVE KeyInv'
  <2>1. KeyTypeOK'
    BY <1>8 DEF Secure
  <2>2. Alone'
    BY <1>8 DEF Secure, Alone
  <2>3. OneMaker'
    BY <1>8 DEF Secure, OneMaker, Making
  <2>4. HasFileKey'
    BY <1>8 DEF Secure, HasFileKey, Holding
  <2>5. Drawn'
    BY <1>8 DEF Secure, Drawn, Creating
  <2>6. OneInFile'
    BY <1>8 DEF Secure, OneInFile, OneMasterKey
  <2>7. SyncedFirst'
    BY <1>8 DEF Secure, SyncedFirst, Creating, Reading
  <2> QED
    BY <2>1, <2>2, <2>3, <2>4, <2>5, <2>6, <2>7
<1>9. ASSUME NEW p \in Processes, SyncDirectory(p) PROVE KeyInv'
  <2>1. KeyTypeOK'
    BY <1>9 DEF SyncDirectory
  <2>2. Alone'
    BY <1>9 DEF SyncDirectory, Alone
  <2>3. OneMaker'
    BY <1>9 DEF SyncDirectory, OneMaker, Making
  <2>4. HasFileKey'
    BY <1>9 DEF SyncDirectory, HasFileKey, Holding
  <2>5. Drawn'
    BY <1>9 DEF SyncDirectory, Drawn, Creating
  <2>6. OneInFile'
    BY <1>9 DEF SyncDirectory, OneInFile, OneMasterKey
  <2>7. SyncedFirst'
    BY <1>9 DEF SyncDirectory, SyncedFirst, Creating, Reading
  <2> QED
    BY <2>1, <2>2, <2>3, <2>4, <2>5, <2>6, <2>7
<1>10. ASSUME NEW p \in Processes, Encrypt(p) PROVE KeyInv'
  <2>1. KeyTypeOK'
    BY <1>10 DEF Encrypt, HasFileKey, Holding
  <2>2. Alone'
    BY <1>10 DEF Encrypt, Alone
  <2>3. OneMaker'
    BY <1>10 DEF Encrypt, OneMaker, Making
  <2>4. HasFileKey'
    BY <1>10 DEF Encrypt, HasFileKey, Holding
  <2>5. Drawn'
    BY <1>10 DEF Encrypt, Drawn, Creating
  <2>6. OneInFile'
    BY <1>10 DEF Encrypt, OneInFile, OneMasterKey, HasFileKey, Holding
  <2>7. SyncedFirst'
    BY <1>10 DEF Encrypt, SyncedFirst, Creating, Reading, Alone
  <2> QED
    BY <2>1, <2>2, <2>3, <2>4, <2>5, <2>6, <2>7
<1>11. ASSUME NEW p \in Processes, Kill(p) PROVE KeyInv'
  <2>1. KeyTypeOK'
    BY <1>11 DEF Kill
  <2>2. Alone'
    BY <1>11 DEF Kill, Alone
  <2>3. OneMaker'
    BY <1>11 DEF Kill, OneMaker, Making
  <2>4. HasFileKey'
    BY <1>11 DEF Kill, HasFileKey, Holding
  <2>5. Drawn'
    BY <1>11 DEF Kill, Drawn, Creating
  <2>6. OneInFile'
    BY <1>11 DEF Kill, OneInFile, OneMasterKey
  <2>7. SyncedFirst'
    BY <1>11 DEF Kill, SyncedFirst, Creating, Reading
  <2> QED
    BY <2>1, <2>2, <2>3, <2>4, <2>5, <2>6, <2>7
<1>12. CASE PowerFails
  BY <1>12 DEF PowerFails, Survivors, Alone, OneMaker, Making, HasFileKey, Holding, Drawn, Creating, OneInFile, OneMasterKey, SyncedFirst, Reading
<1>13. CASE RemoveByHand
  BY <1>13 DEF RemoveByHand, Alone, OneMaker, Making, HasFileKey, Holding, Drawn, Creating, OneInFile, OneMasterKey, SyncedFirst, Reading
<1>14. CASE UNCHANGED keyVars
  BY <1>14 DEF keyVars, Alone, OneMaker, Making, HasFileKey, Holding, Drawn, Creating, OneInFile, OneMasterKey, SyncedFirst, Reading
<1> QED
  BY <1>1, <1>2, <1>3, <1>4, <1>5, <1>6, <1>7, <1>8, <1>9, <1>10, <1>11, <1>12, <1>13, <1>14 DEF KeyNext

-----------------------------------------------------------------------------
\* The invariant of LoadOrCreateMasterKey, for any processes and keys.
THEOREM KeyInvariance == KeySpec => []KeyInv
<1>1. KeyInit => KeyInv
  BY KeyInitially
<1>2. KeyInv /\ [KeyNext]_keyVars => KeyInv'
  BY KeyInductive
<1> QED
  BY <1>1, <1>2, PTL DEF KeySpec

\* The variables of the creation of the key keep their types.
THEOREM KeyTypeCorrect == KeySpec => []KeyTypeOK
<1>1. KeyInv => KeyTypeOK
  BY DEF KeyInv
<1> QED
  BY <1>1, KeyInvariance, PTL

\* Whatever processes race to create the key (O_EXCL in keystore.go), the rows of the
\* database are encrypted with one.
THEOREM OneKeyOnly == KeySpec => []OneMasterKey
<1>1. KeyInv => OneMasterKey
  BY DEF KeyInv, OneInFile, OneMasterKey
<1> QED
  BY <1>1, KeyInvariance, PTL

\* The key of the encrypted rows stays in the file through crashes and power failures.
THEOREM KeyNeverLost == KeySpec => []KeyKept
<1>1. KeyInv => KeyKept
  <2> SUFFICES ASSUME KeyInv, encrypted # {}, ~removed PROVE Survivors \subseteq encrypted
    BY DEF KeyKept
  <2>1. keyFile \in encrypted
    BY DEF KeyInv, OneInFile
  <2>2. reliable \/ synced = "entry"
    BY DEF KeyInv, SyncedFirst
  <2> QED
    BY <2>1, <2>2 DEF Survivors
<1> QED
  BY <1>1, KeyInvariance, PTL
=============================================================================
