----------------------------- MODULE ShellProofs ----------------------------
(***************************************************************************)
(* Both backends implement InteractiveShell, and neither ever sends on its *)
(* closed output channel: for any capacity of the channel, number of       *)
(* chunks and of calls, and whatever the order in which the GUI thread,    *)
(* the goroutines and the shell act.                                       *)
(***************************************************************************)
EXTENDS MCShells, LibraryProofs

Backend == IF kind = "ssh" THEN SSH!Streams ELSE Local!Streams
Chunk == [stream : Backend, number : Nat]
Places == {"none", "next", "read", "send", "ended"}

ShellTypeOK ==
    /\ kind \in {"ssh", "local"}
    /\ {started, closed, ended, done, exited, held} \subseteq BOOLEAN
    /\ output \in Seq(Chunk) /\ received \in Seq(Chunk)
    /\ reader \in [Backend -> [at : Places, next : Nat \ {0}]]
    /\ sent \in [Backend -> Nat]
    /\ drainer \in {"none", "receive", "wait", "exited"}

\* A session is started once, and only then are there goroutines, output and a session
\* to close.
StartedOnce ==
    /\ gui = "dial" => ~started
    /\ ~started =>
          /\ ~closed /\ ~ended /\ ~done /\ gui \in {"idle", "dial"}
          /\ waiter = "none" /\ watcher = "none" /\ drainer = "none" /\ link = "none"
          /\ output = <<>> /\ received = <<>>
          /\ \A s \in Backend : reader[s] = [at |-> "none", next |-> 1] /\ sent[s] = 0
    /\ gui \in {"chdir", "return"} => drainer = "none"
    /\ gui = "hangup" \/ watcher = "hangup" => closed

\* The channels are closed behind the readers: by the waiter that has joined them, or
\* by the one reader itself, and then by the waiter.
Joined ==
    /\ ended => \A s \in Backend : reader[s].at = "ended"
    /\ done => ended /\ waiter = "ended"
    /\ kind = "ssh" =>
          /\ waiter \in {"lock", "close", "ended"} =>
                link = "down" /\ \A s \in Backend : reader[s].at = "ended"
          /\ ended => waiter = "ended"
    /\ kind = "local" =>
          /\ waiter \in {"lock", "close", "ended"} => ended
          /\ link = "down" => closed \/ ended

\* Nobody is left who writes to a stream that was read to its end.
Silent == IF kind = "ssh" THEN exited \/ link = "down" ELSE exited /\ ~held

\* What a reader has read of its stream: it leaves its loop at the end of the stream,
\* unless the local session was closed.
ReadUp ==
    \A s \in Backend :
       /\ reader[s].next <= sent[s] + 1
       /\ reader[s].at = "send" => reader[s].next <= sent[s]
       /\ reader[s].at = "ended" =>
             \/ kind = "local" /\ closed
             \/ Silent /\ reader[s].next = sent[s] + 1

\* What was received and what waits in the channel is what was read, in order.
InOrder ==
    \A s \in Backend : Numbers(received \o output, s) = [i \in 1..(reader[s].next - 1) |-> i]

Drained ==
    /\ drainer \in {"wait", "exited"} => ended /\ output = <<>>
    /\ drainer = "exited" => done

ShellInv == ShellTypeOK /\ StartedOnce /\ Joined /\ ReadUp /\ InOrder /\ Drained

\* The steps that both backends take from TerminalTransport.
Shared ==
    \/ StartLock \/ WriteLock \/ CancelAndClose \/ Release
    \/ StartFails \/ StartReturns \/ WriteReturns \/ GuiCloseLock
    \/ Watch \/ WatcherCloseLock \/ Receive \/ ReportExit

LEMMA RemoteSteps ==
    ASSUME SSH!Next
    PROVE  \/ Shared
           \/ SSH!ShellStarts \/ SSH!ChangeDirectory \/ SSH!GuiHangup \/ SSH!WatcherHangup
           \/ SSH!Waiter
           \/ \E s \in SSH!Streams : SSH!Read(s) \/ SSH!Send(s) \/ SSH!RemoteSends(s)
           \/ SSH!ShellExits \/ SSH!LinkBreaks
BY Zenon DEF Shared, SSH!Next, SSH!Call, SSH!Write, SSH!Gui, SSH!Returns, SSH!Watcher, SSH!Drainer,
   SSH!StartLock, StartLock, SSH!WriteLock, WriteLock, SSH!CancelAndClose, CancelAndClose,
   SSH!Release, Release, SSH!StartFails, StartFails, SSH!StartReturns, StartReturns,
   SSH!WriteReturns, WriteReturns, SSH!GuiCloseLock, GuiCloseLock, SSH!Watch, Watch,
   SSH!WatcherCloseLock, WatcherCloseLock, SSH!Receive, Receive, SSH!ReportExit, ReportExit,
   SSH!fields, fields, SSH!channels, channels, SSH!threads, threads, SSH!calls, calls,
   SSH!remote, remote

LEMMA LocalSteps ==
    ASSUME Local!Next
    PROVE  \/ Shared
           \/ Local!ShellStarts \/ Local!GuiHangup \/ Local!WatcherHangup
           \/ Local!Waiter
           \/ \E s \in Local!Streams : Local!Reader(s) \/ Local!ProcessesWrite(s)
           \/ Local!ShellDies \/ Local!JobStarts \/ Local!JobEnds
BY Zenon DEF Shared, Local!Next, Local!Call, Local!Write, Local!Gui, Local!Returns, Local!Watcher, Local!Drainer,
   Local!StartLock, StartLock, Local!WriteLock, WriteLock, Local!CancelAndClose, CancelAndClose,
   Local!Release, Release, Local!StartFails, StartFails, Local!StartReturns, StartReturns,
   Local!WriteReturns, WriteReturns, Local!GuiCloseLock, GuiCloseLock, Local!Watch, Watch,
   Local!WatcherCloseLock, WatcherCloseLock, Local!Receive, Receive, Local!ReportExit, ReportExit,
   Local!fields, fields, Local!channels, channels, Local!threads, threads, Local!calls, calls,
   Local!remote, remote

-----------------------------------------------------------------------------
\* The numbers of chunks, as a sequence.
LEMMA NumbersOf ==
    ASSUME NEW C, NEW o \in Seq(C), \A c \in C : c.number \in Nat
    PROVE  [i \in DOMAIN o |-> o[i].number] \in Seq(Nat)
<1> DEFINE n == Len(o)
<1>1. n \in Nat /\ DOMAIN o = 1..n /\ \A i \in 1..n : o[i] \in C
  OBVIOUS
<1>2. \A i \in 1..n : o[i].number \in Nat
  BY <1>1
<1> HIDE DEF n
<1>3. [i \in 1..n |-> o[i].number] \in Seq(Nat)
  BY <1>1, <1>2
<1> QED
  BY <1>1, <1>3

LEMMA SameSequence ==
    ASSUME NEW T, NEW x \in Seq(T), NEW y \in Seq(T), Len(x) = Len(y),
           \A i \in 1..Len(x) : x[i] = y[i]
    PROVE  x = y
OBVIOUS

\* The numbers of the chunks of a stream.
LEMMA NumbersType ==
    ASSUME NEW T, NEW q \in Seq([stream : T, number : Nat]), NEW s
    PROVE  Numbers(q, s) \in Seq(Nat)
<1> DEFINE own == Subsequence(q, [stream : {s}, number : Nat])
<1>1. own \in Seq([stream : T, number : Nat])
  BY SubsequenceType
<1>2. Numbers(q, s) = [i \in DOMAIN own |-> own[i].number]
  BY DEF Numbers
<1>3. \A c \in [stream : T, number : Nat] : c.number \in Nat
  OBVIOUS
<1> HIDE DEF own
<1> QED
  BY <1>1, <1>2, <1>3, NumbersOf

\* Passing the head of one sequence on to another.
LEMMA AppendHead ==
    ASSUME NEW T, NEW q \in Seq(T), NEW r \in Seq(T), r # <<>>
    PROVE  /\ Head(r) \in T /\ Tail(r) \in Seq(T)
           /\ Append(q, Head(r)) \in Seq(T)
           /\ Append(q, Head(r)) \o Tail(r) = q \o r
<1> DEFINE h == Head(r)
           t == Tail(r)
           a == Append(q, h)
           x == a \o t
           y == q \o r
<1>0. Len(r) \in Nat /\ Len(r) # 0
  OBVIOUS
<1>1. /\ h \in T /\ h = r[1] /\ t \in Seq(T) /\ Len(r) \in Nat /\ Len(r) >= 1 /\ Len(t) = Len(r) - 1
      /\ \A i \in 1..Len(t) : t[i] = r[i + 1]
  <2>1. h = r[1] /\ h \in T
    BY <1>0
  <2>2. t \in Seq(T) /\ Len(t) = Len(r) - 1
    BY <1>0
  <2>3. \A i \in 1..Len(t) : t[i] = r[i + 1]
    BY <1>0, <2>2
  <2> HIDE DEF h, t
  <2> QED
    BY <1>0, <2>1, <2>2, <2>3
<1> HIDE DEF h, t
<1>2. /\ a \in Seq(T) /\ Len(q) \in Nat /\ Len(a) = Len(q) + 1 /\ a[Len(q) + 1] = h
      /\ \A i \in 1..Len(q) : a[i] = q[i]
  BY <1>1
<1>3. /\ y \in Seq(T) /\ Len(y) = Len(q) + Len(r)
      /\ \A i \in 1..Len(y) : y[i] = IF i <= Len(q) THEN q[i] ELSE r[i - Len(q)]
  OBVIOUS
<1> HIDE DEF a, y
<1>4. /\ x \in Seq(T) /\ Len(x) = Len(a) + Len(t)
      /\ \A i \in 1..Len(x) : x[i] = IF i <= Len(a) THEN a[i] ELSE t[i - Len(a)]
  <2>1. a \in Seq(T) /\ t \in Seq(T)
    BY <1>1, <1>2
  <2> QED
    BY ONLY <2>1
<1> HIDE DEF x
<1>5. Len(x) = Len(y)
  BY <1>1, <1>2, <1>3, <1>4
<1>6. ASSUME NEW i \in 1..Len(x) PROVE x[i] = y[i]
  <2>1. CASE i <= Len(q)
    BY <1>1, <1>2, <1>3, <1>4, <1>5, <2>1
  <2>2. CASE i = Len(q) + 1
    BY <1>1, <1>2, <1>3, <1>4, <1>5, <2>2
  <2>3. CASE i > Len(q) + 1
    <3>1. i - Len(a) \in 1..Len(t) /\ i - Len(a) + 1 = i - Len(q)
      BY <1>1, <1>2, <1>4, <2>3
    <3>2. x[i] = t[i - Len(a)] /\ y[i] = r[i - Len(q)]
      BY <1>1, <1>2, <1>3, <1>4, <1>5, <2>3
    <3> QED
      BY <1>1, <3>1, <3>2
  <2> QED
    BY <1>2, <1>3, <1>4, <2>1, <2>2, <2>3
<1>7. x = y
  BY <1>3, <1>4, <1>5, <1>6, SameSequence
<1> QED
  BY <1>1, <1>2, <1>7 DEF h, t, a, x, y

LEMMA NumbersEmpty == \A s : Numbers(<<>>, s) = <<>>
<1> SUFFICES ASSUME NEW s PROVE Numbers(<<>>, s) = <<>>
  OBVIOUS
<1> DEFINE own == Subsequence(<<>>, [stream : {s}, number : Nat])
<1>1. own = <<>>
  BY SubsequenceEmpty
<1>2. Numbers(<<>>, s) = [i \in DOMAIN own |-> own[i].number]
  BY DEF Numbers
<1> HIDE DEF own
<1>3. own \in Seq([stream : {}, number : Nat]) /\ DOMAIN own = {}
  BY <1>1
<1>4. Numbers(<<>>, s) \in Seq(Nat) /\ DOMAIN Numbers(<<>>, s) = {}
  BY <1>2, <1>3, NumbersOf
<1> HIDE DEF Numbers
<1> QED
  BY <1>4

LEMMA NumbersAppend ==
    ASSUME NEW T, NEW q \in Seq([stream : T, number : Nat]),
           NEW c \in [stream : T, number : Nat], NEW s
    PROVE  Numbers(Append(q, c), s) =
              IF c.stream = s THEN Append(Numbers(q, s), c.number) ELSE Numbers(q, s)
<1> DEFINE C == [stream : T, number : Nat]
           O == [stream : {s}, number : Nat]
           own == Subsequence(q, O)
<1>0. q \in Seq(C) /\ c \in C
  OBVIOUS
<1>1. Subsequence(Append(q, c), O) = IF c \in O THEN Append(own, c) ELSE own
  <2> HIDE DEF C, O
  <2> QED
    BY <1>0, SubsequenceAppend
<1>2. own \in Seq(C) /\ (c \in O <=> c.stream = s)
  BY SubsequenceType
<1>4. Numbers(q, s) = [i \in DOMAIN own |-> own[i].number] /\ Numbers(q, s) \in Seq(Nat)
  BY NumbersType DEF Numbers
<1>9. c \in C /\ c.number \in Nat
  OBVIOUS
<1>10. \A k \in C : k.number \in Nat
  OBVIOUS
<1> HIDE DEF O, own
<1>5. CASE c.stream = s
  <2> DEFINE n == Append(own, c)
  <2>1. Numbers(Append(q, c), s) = [i \in DOMAIN n |-> n[i].number]
    BY <1>1, <1>2, <1>5 DEF Numbers, O
  <2>2. n \in Seq(C) /\ Len(n) = Len(own) + 1
        /\ n[Len(own) + 1] = c /\ \A i \in 1..Len(own) : n[i] = own[i]
    BY <1>2, <1>9
  <2> HIDE DEF n, C
  <2>3. Numbers(Append(q, c), s) \in Seq(Nat)
    BY <1>10, <2>1, <2>2, NumbersOf
  <2>4. Len(Numbers(q, s)) = Len(own) /\ Len(Numbers(Append(q, c), s)) = Len(own) + 1
    BY <1>2, <1>4, <2>1, <2>2, <2>3
  <2>5. \A i \in 1..Len(own) : Numbers(q, s)[i] = own[i].number
    BY <1>2, <1>4
  <2>6. \A i \in 1..Len(own) + 1 : Numbers(Append(q, c), s)[i] = n[i].number
    BY <1>2, <2>1, <2>2
  <2>7. Numbers(Append(q, c), s)[Len(own) + 1] = c.number
    BY <1>2, <2>2, <2>6
  <2>8. \A i \in 1..Len(own) : Numbers(Append(q, c), s)[i] = Numbers(q, s)[i]
    BY <1>2, <2>2, <2>5, <2>6
  <2> HIDE DEF Numbers
  <2>9. Append(Numbers(q, s), c.number) = Numbers(Append(q, c), s)
    <3> DEFINE x == Numbers(q, s)
               k == c.number
               y == Append(x, k)
    <3>1. x \in Seq(Nat) /\ k \in Nat
      BY <1>4, <1>9
    <3> HIDE DEF x, k
    <3>2. /\ y \in Seq(Nat) /\ Len(y) = Len(x) + 1 /\ y[Len(x) + 1] = k
          /\ \A i \in 1..Len(x) : y[i] = x[i]
      BY <3>1
    <3> HIDE DEF y
    <3> DEFINE z == Numbers(Append(q, c), s)
    <3>3. z \in Seq(Nat) /\ Len(z) = Len(y)
      BY <2>3, <2>4, <3>2 DEF x
    <3>4. \A i \in 1..Len(y) : y[i] = z[i]
      <4>1. Len(x) = Len(own) /\ Len(own) \in Nat
        BY <1>2, <2>4 DEF x
      <4>2. \A i \in 1..Len(x) : z[i] = x[i]
        BY <2>8, <4>1 DEF x
      <4>3. z[Len(x) + 1] = k
        BY <2>7, <4>1 DEF k
      <4> HIDE DEF z
      <4> QED
        BY <3>2, <4>1, <4>2, <4>3
    <3> HIDE DEF z
    <3>5. y = z
      BY <3>2, <3>3, <3>4, SameSequence
    <3> QED
      BY <3>5 DEF x, k, y, z
  <2> QED
    BY <1>5, <2>9
<1>6. CASE c.stream # s
  BY <1>1, <1>2, <1>4, <1>6 DEF Numbers, O
<1> QED
  BY <1>5, <1>6

LEMMA NumbersConcat ==
    ASSUME NEW C, NEW q \in Seq(C), NEW r \in Seq(C), NEW s, \A c \in C : c.number \in Nat
    PROVE  Numbers(q \o r, s) = Numbers(q, s) \o Numbers(r, s)
<1> DEFINE O == [stream : {s}, number : Nat]
           a == Subsequence(q, O)
           b == Subsequence(r, O)
           n == a \o b
<1>1. Subsequence(q \o r, O) = n
  BY SubsequenceConcat
<1>2. a \in Seq(C) /\ b \in Seq(C)
  BY SubsequenceType
<1>3. Numbers(q, s) = [i \in DOMAIN a |-> a[i].number] /\ Numbers(r, s) = [i \in DOMAIN b |-> b[i].number]
  BY DEF Numbers
<1>4. Numbers(q \o r, s) = [i \in DOMAIN n |-> n[i].number]
  BY <1>1 DEF Numbers
<1> HIDE DEF O, a, b
<1>5. /\ n \in Seq(C) /\ Len(n) = Len(a) + Len(b)
      /\ \A i \in 1..Len(n) : n[i] = IF i <= Len(a) THEN a[i] ELSE b[i - Len(a)]
  BY <1>2
<1> HIDE DEF n
<1> DEFINE x == Numbers(q, s)
           y == Numbers(r, s)
           z == Numbers(q \o r, s)
<1>6. x \in Seq(Nat) /\ y \in Seq(Nat) /\ z \in Seq(Nat)
  <2> HIDE DEF Numbers
  <2> QED
    BY <1>2, <1>3, <1>4, <1>5, NumbersOf
<1> HIDE DEF x, y, z
<1>7. Len(x) = Len(a) /\ Len(y) = Len(b) /\ Len(z) = Len(a) + Len(b)
  BY <1>2, <1>3, <1>4, <1>5, <1>6 DEF x, y, z
<1>8. \A i \in 1..Len(z) : z[i] = IF i <= Len(x) THEN x[i] ELSE y[i - Len(x)]
  <2> SUFFICES ASSUME NEW i \in 1..Len(z) PROVE z[i] = IF i <= Len(x) THEN x[i] ELSE y[i - Len(x)]
    OBVIOUS
  <2>1. z[i] = n[i].number
    BY <1>4, <1>5, <1>7 DEF z
  <2>2. CASE i <= Len(x)
    BY <1>2, <1>3, <1>5, <1>7, <2>1, <2>2 DEF x
  <2>3. CASE ~(i <= Len(x))
    <3>1. i - Len(x) \in 1..Len(b) /\ n[i] = b[i - Len(x)]
      BY <1>2, <1>5, <1>7, <2>3
    <3> QED
      BY <1>2, <1>3, <2>1, <2>3, <3>1 DEF y
  <2> QED
    BY <2>2, <2>3
<1> DEFINE w == x \o y
<1>9. w \in Seq(Nat) /\ Len(w) = Len(z)
      /\ \A i \in 1..Len(z) : w[i] = IF i <= Len(x) THEN x[i] ELSE y[i - Len(x)]
  <2>1. x \in Seq(Nat) /\ y \in Seq(Nat)
    BY <1>6
  <2>2. /\ w \in Seq(Nat) /\ Len(w) = Len(x) + Len(y)
        /\ \A i \in 1..Len(w) : w[i] = IF i <= Len(x) THEN x[i] ELSE y[i - Len(x)]
    BY ONLY <2>1
  <2> HIDE DEF w
  <2> QED
    BY <1>7, <2>2
<1> HIDE DEF w
<1>10. z = w
  BY <1>6, <1>8, <1>9, SameSequence
<1> QED
  BY <1>10 DEF x, y, z, w

-----------------------------------------------------------------------------
\* The invariant holds of a session that has not been started.
LEMMA ShellStart == Init => ShellInv
<1> SUFFICES ASSUME Init PROVE ShellInv
  OBVIOUS
<1>1. InitWith(Backend) /\ kind \in {"ssh", "local"}
  BY DEF Init, Backend, SSH!Init, Local!Init, SSH!InitWith, Local!InitWith, InitWith
<1> USE <1>1 DEF InitWith
<1>2. ShellTypeOK
  <2>1. reader \in [Backend -> [at : Places, next : Nat \ {0}]] /\ sent \in [Backend -> Nat]
    BY DEF Places
  <2>2. output \in Seq(Chunk) /\ received \in Seq(Chunk) /\ drainer = "none"
    OBVIOUS
  <2>3. {started, closed, ended, done, exited, held} \subseteq BOOLEAN
    OBVIOUS
  <2> QED
    BY <2>1, <2>2, <2>3 DEF ShellTypeOK
<1>3. StartedOnce /\ Joined /\ Drained
  BY DEF StartedOnce, Joined, Drained
<1>4. ReadUp
  BY DEF ReadUp
<1>5. InOrder
  <2> SUFFICES ASSUME NEW s \in Backend
               PROVE Numbers(received \o output, s) = [i \in 1..(reader[s].next - 1) |-> i]
    BY DEF InOrder
  <2>1. received \o output = <<>>
    OBVIOUS
  <2>2. Numbers(received \o output, s) = <<>>
    BY <2>1, NumbersEmpty
  <2> DEFINE n == reader[s].next - 1
             id == [i \in 1..n |-> i]
  <2>3. n = 0
    OBVIOUS
  <2> HIDE DEF n
  <2>4. id \in Seq(Nat) /\ Len(id) = 0
    BY <2>3
  <2> HIDE DEF id
  <2>5. id = <<>>
    BY <2>4
  <2> QED
    BY <2>2, <2>5 DEF id, n
<1> QED
  BY <1>2, <1>3, <1>4, <1>5 DEF ShellInv

\* A step that reads nothing and passes nothing on keeps what was read in order.
LEMMA OrderKept ==
    ASSUME ShellInv, UNCHANGED <<kind, reader>>, received' \o output' = received \o output
    PROVE  InOrder'
BY DEF ShellInv, InOrder, Backend

\* The steps both backends share keep the invariant.
LEMMA SharedKeeps ==
    ASSUME ShellInv, Shared, UNCHANGED kind
    PROVE  ShellInv'
<1> USE DEF fields, channels, threads, calls, remote
<1>1. CASE StartLock \/ WriteLock \/ StartFails \/ WriteReturns
  <2>1. /\ UNCHANGED <<fields, threads, remote>>
        /\ \/ gui = "idle" /\ gui' = "dial" /\ ~started
           \/ gui = "idle" /\ gui' = "write" /\ started
           \/ gui \in {"dial", "write"} /\ gui' = "idle"
    BY <1>1 DEF StartLock, WriteLock, StartFails, WriteReturns
  <2>2. ShellTypeOK' /\ StartedOnce' /\ Joined' /\ Drained'
    BY <2>1 DEF ShellInv, ShellTypeOK, StartedOnce, Joined, Drained, Backend, Chunk
  <2>3. ReadUp' /\ InOrder'
    BY <2>1 DEF ShellInv, ReadUp, InOrder, Silent, Backend
  <2> QED
    BY <2>2, <2>3 DEF ShellInv
<1>2. CASE StartReturns
  <2>1. UNCHANGED <<fields, reader, waiter, watcher, received, remote>>
        /\ gui = "return" /\ gui' = "idle" /\ drainer' = "receive" /\ started
    BY <1>2 DEF StartReturns, ShellInv, StartedOnce
  <2>2. ShellTypeOK' /\ StartedOnce' /\ Joined' /\ Drained'
    BY <2>1 DEF ShellInv, ShellTypeOK, StartedOnce, Joined, Drained, Backend, Chunk
  <2>3. ReadUp' /\ InOrder'
    BY <2>1 DEF ShellInv, ReadUp, InOrder, Silent, Backend
  <2> QED
    BY <2>2, <2>3 DEF ShellInv
<1>3. CASE CancelAndClose \/ Release \/ Watch
  <2>1. /\ UNCHANGED <<started, closed, channels, reader, waiter, drainer, received, remote>>
        /\ started
        /\ gui' \in {gui, "lock"}
        /\ watcher' \in {watcher, "lock", "ended"}
    BY <1>3 DEF CancelAndClose, Release, Watch, ShellInv, StartedOnce, ShellTypeOK
  <2>2. ShellTypeOK' /\ StartedOnce' /\ Joined' /\ Drained'
    BY <2>1 DEF ShellInv, ShellTypeOK, StartedOnce, Joined, Drained, Backend, Chunk
  <2>3. ReadUp' /\ InOrder'
    BY <2>1 DEF ShellInv, ReadUp, InOrder, Silent, Backend
  <2> QED
    BY <2>2, <2>3 DEF ShellInv
<1>4. CASE GuiCloseLock \/ WatcherCloseLock
  <2>1. /\ UNCHANGED <<started, channels, reader, waiter, drainer, received, remote>>
        /\ started /\ closed' = TRUE
        /\ gui' \in {gui, "idle", "hangup"}
    BY <1>4 DEF GuiCloseLock, WatcherCloseLock, ShellInv, StartedOnce
  <2>2. ShellTypeOK' /\ StartedOnce' /\ Joined' /\ Drained'
    BY <2>1 DEF ShellInv, ShellTypeOK, StartedOnce, Joined, Drained, Backend, Chunk
  <2>3. ReadUp' /\ InOrder'
    BY <2>1 DEF ShellInv, ReadUp, InOrder, Silent, Backend
  <2> QED
    BY <2>2, <2>3 DEF ShellInv
<1>5. CASE Receive
  <2>1. /\ UNCHANGED <<started, closed, ended, done, gui, reader, waiter, watcher, remote>>
        /\ drainer = "receive" /\ started
        /\ \/ /\ output # <<>> /\ received' = Append(received, Head(output))
              /\ output' = Tail(output) /\ drainer' = drainer
           \/ /\ output = <<>> /\ ended /\ drainer' = "wait"
              /\ received' = received /\ output' = output
    BY <1>5 DEF Receive, ShellInv, StartedOnce
  <2>2. /\ output' \in Seq(Chunk) /\ received' \in Seq(Chunk)
        /\ received' \o output' = received \o output
    <3>1. output \in Seq(Chunk) /\ received \in Seq(Chunk)
      BY DEF ShellInv, ShellTypeOK
    <3>2. CASE output = <<>>
      BY <2>1, <3>1, <3>2
    <3>3. CASE output # <<>>
      <4>1. /\ Append(received, Head(output)) \in Seq(Chunk) /\ Tail(output) \in Seq(Chunk)
            /\ Append(received, Head(output)) \o Tail(output) = received \o output
        BY <3>1, <3>3, AppendHead
      <4> QED
        BY <2>1, <3>3, <4>1
    <3> QED
      BY <3>2, <3>3
  <2>3. ShellTypeOK'
    BY <2>1, <2>2 DEF ShellInv, ShellTypeOK, Backend, Chunk
  <2>4. StartedOnce' /\ Joined' /\ Drained'
    BY <2>1 DEF ShellInv, StartedOnce, Joined, Drained, Backend
  <2>5. ReadUp'
    BY <2>1 DEF ShellInv, ReadUp, Silent, Backend
  <2>6. InOrder'
    BY <2>1, <2>2, OrderKept
  <2> QED
    BY <2>3, <2>4, <2>5, <2>6 DEF ShellInv
<1>6. CASE ReportExit
  <2>1. /\ UNCHANGED <<fields, gui, reader, waiter, watcher, received, remote>>
        /\ drainer = "wait" /\ done /\ drainer' = "exited" /\ started
    BY <1>6 DEF ReportExit, ShellInv, StartedOnce
  <2>2. ShellTypeOK' /\ StartedOnce' /\ Joined' /\ Drained'
    BY <2>1 DEF ShellInv, ShellTypeOK, StartedOnce, Joined, Drained, Backend, Chunk
  <2>3. ReadUp' /\ InOrder'
    BY <2>1 DEF ShellInv, ReadUp, InOrder, Silent, Backend
  <2> QED
    BY <2>2, <2>3 DEF ShellInv
<1> QED
  BY <1>1, <1>2, <1>3, <1>4, <1>5, <1>6 DEF Shared

-----------------------------------------------------------------------------
\* A chunk that is sent is the next of its stream.
LEMMA SendKeepsOrder ==
    ASSUME ShellInv, NEW s \in Backend, UNCHANGED <<kind, received>>, NEW at,
           output' = Append(output, [stream |-> s, number |-> reader[s].next]),
           reader' = [reader EXCEPT ![s] = [at |-> at, next |-> @.next + 1]]
    PROVE  /\ output' \in Seq(Chunk)
           /\ InOrder'
<1> DEFINE c == [stream |-> s, number |-> reader[s].next]
           q == received \o output
<1>1. c \in Chunk /\ c.stream = s /\ c.number = reader[s].next /\ reader[s].next \in Nat \ {0}
  BY DEF ShellInv, ShellTypeOK, Chunk
<1>2. output \in Seq(Chunk) /\ received \in Seq(Chunk)
  BY DEF ShellInv, ShellTypeOK
<1>3. output' = Append(output, c)
  OBVIOUS
<1> HIDE DEF c
<1>4. q \in Seq(Chunk) /\ received' \o output' = Append(q, c) /\ output' \in Seq(Chunk)
  BY <1>1, <1>2, <1>3
<1>5. \A t : Numbers(Append(q, c), t) = IF t = s THEN Append(Numbers(q, t), c.number) ELSE Numbers(q, t)
  <2> HIDE DEF q
  <2> SUFFICES ASSUME NEW t
               PROVE  Numbers(Append(q, c), t) =
                         IF t = s THEN Append(Numbers(q, t), c.number) ELSE Numbers(q, t)
    OBVIOUS
  <2>1. q \in Seq([stream : Backend, number : Nat]) /\ c \in [stream : Backend, number : Nat]
    BY <1>1, <1>4 DEF Chunk
  <2>2. Numbers(Append(q, c), t) = IF c.stream = t THEN Append(Numbers(q, t), c.number) ELSE Numbers(q, t)
    BY ONLY <2>1, NumbersAppend
  <2> QED
    BY <1>1, <2>2
<1>6. \A t \in Backend : reader'[t].next = IF t = s THEN reader[s].next + 1 ELSE reader[t].next
  BY DEF ShellInv, ShellTypeOK
<1>7. \A t \in Backend : Numbers(q, t) = [i \in 1..(reader[t].next - 1) |-> i]
  BY DEF ShellInv, InOrder
<1>8. Numbers(Append(q, c), s) = [i \in 1..reader[s].next |-> i]
  <2> DEFINE n == reader[s].next
  <2>1. n \in Nat \ {0} /\ c.number = n
    BY <1>1
  <2> HIDE DEF n
  <2>2. Append([i \in 1..(n - 1) |-> i], n) = [i \in 1..n |-> i]
    <3> DEFINE x == [i \in 1..(n - 1) |-> i]
               y == Append(x, n)
               z == [i \in 1..n |-> i]
    <3>1. x \in Seq(Nat) /\ Len(x) = n - 1 /\ \A i \in 1..(n - 1) : x[i] = i
      BY <2>1
    <3>2. z \in Seq(Nat) /\ Len(z) = n /\ \A i \in 1..n : z[i] = i
      BY <2>1
    <3> HIDE DEF x, z
    <3>3. y \in Seq(Nat) /\ Len(y) = n /\ \A i \in 1..n : y[i] = i
      BY <2>1, <3>1
    <3> HIDE DEF y
    <3>4. y = z
      BY <3>2, <3>3, SameSequence
    <3> QED
      BY <3>4 DEF x, y, z
  <2>3. Numbers(Append(q, c), s) = Append(Numbers(q, s), n)
    BY <1>5, <2>1
  <2>4. Numbers(q, s) = [i \in 1..(n - 1) |-> i]
    BY <1>7 DEF n
  <2> QED
    BY <2>2, <2>3, <2>4 DEF n
<1>9. ASSUME NEW t \in Backend
      PROVE  Numbers(received' \o output', t) = [i \in 1..(reader'[t].next - 1) |-> i]
  <2>1. CASE t = s
    <3>1. reader'[t].next - 1 = reader[s].next
      BY <1>1, <1>6, <2>1
    <3> QED
      BY <1>4, <1>8, <2>1, <3>1
  <2>2. CASE t # s
    BY <1>4, <1>5, <1>6, <1>7, <2>2
  <2> QED
    BY <2>1, <2>2
<1> QED
  BY <1>4, <1>9 DEF InOrder, Backend

\* The steps of the remote shell and its session keep the invariant.
LEMMA RemoteKeeps ==
    ASSUME ShellInv, kind = "ssh", kind' = kind, SSH!Next
    PROVE  ShellInv'
<1> USE DEF SSH!fields, SSH!channels, SSH!threads, SSH!calls, SSH!remote
<1>1. CASE Shared
  BY <1>1, SharedKeeps
<1>2. CASE SSH!ShellStarts
  <2>1. /\ UNCHANGED <<closed, output, ended, done, drainer, received, exited, held, sent>>
        /\ ~started /\ started' = TRUE /\ link' = "up"
        /\ gui' \in {"chdir", "return"} /\ waiter' = "wait" /\ watcher' = "wait"
        /\ reader' = [s \in Backend |-> [at |-> "read", next |-> 1]]
    BY <1>2 DEF SSH!ShellStarts, SSH!Launch, ShellInv, StartedOnce, ShellTypeOK
  <2>2. ShellTypeOK' /\ StartedOnce' /\ Joined' /\ Drained'
    BY <2>1 DEF ShellInv, ShellTypeOK, StartedOnce, Joined, Drained, Backend, Chunk, Places
  <2>3. ReadUp'
    BY <2>1 DEF ShellInv, StartedOnce, ReadUp, Silent, Backend
  <2>4. \A s \in Backend : reader'[s].next = reader[s].next
    BY <2>1 DEF ShellInv, StartedOnce
  <2>5. InOrder'
    BY <2>1, <2>4 DEF ShellInv, InOrder, Backend
  <2> QED
    BY <2>2, <2>3, <2>5 DEF ShellInv
<1>3. CASE SSH!ChangeDirectory
  <2>1. /\ UNCHANGED <<started, closed, channels, reader, waiter, watcher, drainer, received, remote>>
        /\ started /\ gui' = "return" /\ drainer = "none"
    BY <1>3 DEF SSH!ChangeDirectory, ShellInv, StartedOnce, channels, remote
  <2>2. ShellTypeOK' /\ StartedOnce' /\ Joined' /\ Drained'
    BY <2>1 DEF ShellInv, ShellTypeOK, StartedOnce, Joined, Drained, Backend, Chunk, channels, remote
  <2>3. ReadUp' /\ InOrder'
    BY <2>1 DEF ShellInv, ReadUp, InOrder, Silent, Backend, channels, remote
  <2> QED
    BY <2>2, <2>3 DEF ShellInv
<1>4. CASE SSH!GuiHangup \/ SSH!WatcherHangup \/ SSH!LinkBreaks
  <2>1. /\ UNCHANGED <<started, closed, channels, reader, waiter, drainer, received, exited, held, sent>>
        /\ link' = "down" /\ started
        /\ gui' \in {gui, "idle"}
        /\ watcher' \in {watcher, "ended"}
    BY <1>4 DEF SSH!GuiHangup, SSH!WatcherHangup, SSH!Hangup, SSH!LinkBreaks, ShellInv, StartedOnce, channels
  <2>2. ShellTypeOK' /\ StartedOnce' /\ Joined' /\ Drained'
    BY <2>1 DEF ShellInv, ShellTypeOK, StartedOnce, Joined, Drained, Backend, Chunk, channels
  <2>3. ReadUp' /\ InOrder'
    BY <2>1 DEF ShellInv, ReadUp, InOrder, Silent, Backend, channels
  <2> QED
    BY <2>2, <2>3 DEF ShellInv
<1>5. CASE SSH!Waiter
  <2>1. /\ UNCHANGED <<started, closed, output, gui, reader, watcher, drainer, received, exited, held, sent>>
        /\ started
        /\ \/ waiter = "wait" /\ waiter' = "join" /\ UNCHANGED <<ended, done, link>>
           \/ /\ waiter = "join" /\ waiter' = "lock" /\ link' = "down" /\ UNCHANGED <<ended, done>>
              /\ \A s \in Backend : reader[s].at = "ended"
           \/ waiter = "lock" /\ waiter' = "close" /\ UNCHANGED <<ended, done, link>>
           \/ waiter = "close" /\ waiter' = "ended" /\ ended' = TRUE /\ done' = TRUE /\ link' = link
    BY <1>5 DEF SSH!Waiter, SSH!WaitRemote, SSH!WaitReaders, SSH!WaitRecord, SSH!WaitClose,
       ShellInv, StartedOnce, Backend
  <2>2. ShellTypeOK'
    <3>1. {ended', done'} \subseteq BOOLEAN
      BY <2>1 DEF ShellInv, ShellTypeOK
    <3> QED
      BY <2>1, <3>1 DEF ShellInv, ShellTypeOK, Backend, Chunk
  <2>5. StartedOnce' /\ Drained'
    BY <2>1 DEF ShellInv, StartedOnce, Drained, Backend
  <2>3. Joined'
    BY <2>1 DEF ShellInv, Joined, Backend
  <2>4. ReadUp' /\ InOrder'
    BY <2>1 DEF ShellInv, ReadUp, InOrder, Silent, Backend
  <2> QED
    BY <2>2, <2>3, <2>4, <2>5 DEF ShellInv
<1>6. ASSUME NEW s \in SSH!Streams, SSH!Read(s) PROVE ShellInv'
  <2>1. /\ UNCHANGED <<started, closed, channels, gui, waiter, watcher, drainer, received, remote>>
        /\ s \in Backend
        /\ \/ reader[s].next <= sent[s] /\ reader' = [reader EXCEPT ![s].at = "send"]
           \/ /\ reader[s].next > sent[s] /\ (exited \/ link = "down")
              /\ reader' = [reader EXCEPT ![s].at = "ended"]
        /\ reader[s].at = "read"
    BY <1>6 DEF SSH!Read, SSH!Reads, SSH!Gone, channels, remote, Backend
  <2>2. started
    BY <2>1 DEF ShellInv, StartedOnce
  <2>3. reader \in [Backend -> [at : Places, next : Nat \ {0}]] /\ sent \in [Backend -> Nat]
    BY DEF ShellInv, ShellTypeOK
  <2>4. /\ reader' \in [Backend -> [at : Places, next : Nat \ {0}]]
        /\ \A t \in Backend : reader'[t].next = reader[t].next
        /\ \A t \in Backend : t # s => reader'[t] = reader[t]
        /\ \/ reader[s].next <= sent[s] /\ reader'[s].at = "send"
           \/ reader[s].next > sent[s] /\ (exited \/ link = "down") /\ reader'[s].at = "ended"
    BY <2>1, <2>3 DEF Places
  <2>5. ShellTypeOK' /\ StartedOnce' /\ Drained'
    BY <2>1, <2>2, <2>4 DEF ShellInv, ShellTypeOK, StartedOnce, Drained, Backend, Chunk, channels, remote
  <2>6. Joined'
    BY <2>1, <2>4 DEF ShellInv, Joined, Backend, channels, remote
  <2>7. ReadUp'
    BY <2>1, <2>3, <2>4 DEF ShellInv, ReadUp, Silent, Backend, channels, remote
  <2>8. InOrder'
    BY <2>1, <2>4 DEF ShellInv, InOrder, Backend, channels
  <2> QED
    BY <2>5, <2>6, <2>7, <2>8 DEF ShellInv
<1>7. ASSUME NEW s \in SSH!Streams, SSH!Send(s) PROVE ShellInv'
  <2>1. /\ UNCHANGED <<started, closed, ended, done, gui, waiter, watcher, drainer, received, remote>>
        /\ s \in Backend /\ reader[s].at = "send"
        /\ output' = Append(output, [stream |-> s, number |-> reader[s].next])
        /\ reader' = [reader EXCEPT ![s] = [at |-> "read", next |-> @.next + 1]]
    BY <1>7 DEF SSH!Send, SSH!SendThen, remote, Backend
  <2>2. started /\ ~ended
    BY <2>1 DEF ShellInv, StartedOnce, Joined
  <2>3. reader \in [Backend -> [at : Places, next : Nat \ {0}]] /\ sent \in [Backend -> Nat]
        /\ reader[s].next <= sent[s]
    BY <2>1 DEF ShellInv, ShellTypeOK, ReadUp
  <2>4. /\ reader' \in [Backend -> [at : Places, next : Nat \ {0}]]
        /\ \A t \in Backend : t # s => reader'[t] = reader[t]
        /\ reader'[s].at = "read" /\ reader'[s].next = reader[s].next + 1
    BY <2>1, <2>3 DEF Places
  <2>5. output' \in Seq(Chunk) /\ InOrder'
    BY <2>1, SendKeepsOrder
  <2>6. ShellTypeOK' /\ StartedOnce' /\ Drained'
    BY <2>1, <2>2, <2>4, <2>5 DEF ShellInv, ShellTypeOK, StartedOnce, Drained, Backend, Chunk, remote
  <2>7. Joined'
    BY <2>1, <2>2, <2>4 DEF ShellInv, Joined, Backend, remote
  <2>8. ReadUp'
    BY <2>1, <2>3, <2>4 DEF ShellInv, ReadUp, Silent, Backend, remote
  <2> QED
    BY <2>5, <2>6, <2>7, <2>8 DEF ShellInv
<1>8. ASSUME NEW s \in SSH!Streams, SSH!RemoteSends(s) PROVE ShellInv'
  <2>1. /\ UNCHANGED <<started, closed, channels, gui, threads, link, exited, held>>
        /\ s \in Backend /\ sent' = [sent EXCEPT ![s] = @ + 1]
        /\ link = "up" /\ ~exited
    BY <1>8 DEF SSH!RemoteSends, SSH!ShellWrites, channels, threads, Backend
  <2>2. started
    BY <2>1 DEF ShellInv, StartedOnce
  <2>3. sent' \in [Backend -> Nat] /\ \A t \in Backend : sent'[t] >= sent[t] /\ sent[t] \in Nat
    BY <2>1 DEF ShellInv, ShellTypeOK
  <2>4. ShellTypeOK' /\ StartedOnce' /\ Drained'
    BY <2>1, <2>2, <2>3 DEF ShellInv, ShellTypeOK, StartedOnce, Drained, Backend, Chunk, channels, threads
  <2>5. Joined' /\ InOrder'
    BY <2>1 DEF ShellInv, Joined, InOrder, Backend, channels, threads
  <2>6. ReadUp'
    BY <2>1, <2>3 DEF ShellInv, ShellTypeOK, ReadUp, Silent, Backend, channels, threads
  <2> QED
    BY <2>4, <2>5, <2>6 DEF ShellInv
<1>9. CASE SSH!ShellExits
  <2>1. /\ UNCHANGED <<started, closed, channels, gui, threads, link, held, sent>>
        /\ exited' = TRUE /\ started
    BY <1>9 DEF SSH!ShellExits, ShellInv, StartedOnce, channels, threads
  <2>2. ShellTypeOK' /\ StartedOnce' /\ Joined' /\ Drained'
    BY <2>1 DEF ShellInv, ShellTypeOK, StartedOnce, Joined, Drained, Backend, Chunk, channels, threads
  <2>3. ReadUp' /\ InOrder'
    BY <2>1 DEF ShellInv, ReadUp, InOrder, Silent, Backend, channels, threads
  <2> QED
    BY <2>2, <2>3 DEF ShellInv
<1> QED
  BY <1>1, <1>2, <1>3, <1>4, <1>5, <1>6, <1>7, <1>8, <1>9, RemoteSteps

\* The steps of the local shell and its session keep the invariant.
LEMMA LocalKeeps ==
    ASSUME ShellInv, kind = "local", kind' = kind, Local!Next
    PROVE  ShellInv'
<1> USE DEF Local!fields, Local!channels, Local!threads, Local!calls, Local!remote
<1>1. CASE Shared
  BY <1>1, SharedKeeps
<1>2. CASE Local!ShellStarts
  <2>1. /\ UNCHANGED <<closed, output, ended, done, drainer, received, exited, held, sent>>
        /\ ~started /\ started' = TRUE /\ link' = "up"
        /\ gui' = "return" /\ waiter' = "wait" /\ watcher' = "wait"
        /\ reader' = [s \in Backend |-> [at |-> "read", next |-> 1]]
    BY <1>2 DEF Local!ShellStarts, Local!Launch, ShellInv, StartedOnce, ShellTypeOK
  <2>2. ShellTypeOK' /\ StartedOnce' /\ Joined' /\ Drained'
    BY <2>1 DEF ShellInv, ShellTypeOK, StartedOnce, Joined, Drained, Backend, Chunk, Places
  <2>3. ReadUp'
    BY <2>1 DEF ShellInv, StartedOnce, ReadUp, Silent, Backend
  <2>4. \A s \in Backend : reader'[s].next = reader[s].next
    BY <2>1 DEF ShellInv, StartedOnce
  <2>5. InOrder'
    BY <2>1, <2>4 DEF ShellInv, InOrder, Backend
  <2> QED
    BY <2>2, <2>3, <2>5 DEF ShellInv
<1>3. CASE Local!GuiHangup \/ Local!WatcherHangup
  <2>1. /\ UNCHANGED <<started, closed, channels, reader, waiter, drainer, received, held, sent>>
        /\ closed /\ started
        /\ \/ UNCHANGED <<exited, link>>
           \/ exited' = TRUE /\ link' = "down"
        /\ gui' \in {gui, "idle"}
        /\ watcher' \in {watcher, "ended"}
    BY <1>3 DEF Local!GuiHangup, Local!WatcherHangup, Local!Hangup, ShellInv, StartedOnce, channels
  <2>2. ShellTypeOK'
    <3>1. {exited', held'} \subseteq BOOLEAN
      BY <2>1 DEF ShellInv, ShellTypeOK
    <3> QED
      BY <2>1, <3>1 DEF ShellInv, ShellTypeOK, Backend, Chunk, channels
  <2>3. StartedOnce' /\ Joined' /\ Drained'
    BY <2>1 DEF ShellInv, StartedOnce, Joined, Drained, Backend, channels
  <2>4. ReadUp' /\ InOrder'
    BY <2>1 DEF ShellInv, ReadUp, InOrder, Silent, Backend, channels
  <2> QED
    BY <2>2, <2>3, <2>4 DEF ShellInv
<1>4. CASE Local!Waiter
  <2>1. /\ UNCHANGED <<started, closed, output, ended, gui, reader, watcher, drainer, received,
                       exited, held, sent>>
        /\ started
        /\ \/ waiter = "wait" /\ waiter' = "join" /\ UNCHANGED <<done, link>>
           \/ waiter = "join" /\ waiter' = "lock" /\ ended /\ UNCHANGED <<done, link>>
           \/ waiter = "lock" /\ waiter' = "close" /\ link' = "down" /\ done' = done
           \/ waiter = "close" /\ waiter' = "ended" /\ done' = TRUE /\ link' = link
    BY <1>4 DEF Local!Waiter, Local!WaitCommand, Local!WaitReader, Local!WaitRecord, Local!WaitClose,
       ShellInv, StartedOnce
  <2>2. ShellTypeOK'
    <3>1. {ended', done'} \subseteq BOOLEAN
      BY <2>1 DEF ShellInv, ShellTypeOK
    <3> QED
      BY <2>1, <3>1 DEF ShellInv, ShellTypeOK, Backend, Chunk
  <2>3. StartedOnce' /\ Drained'
    BY <2>1 DEF ShellInv, StartedOnce, Drained, Backend
  <2>4. Joined'
    BY <2>1 DEF ShellInv, Joined, Backend
  <2>5. ReadUp' /\ InOrder'
    BY <2>1 DEF ShellInv, ReadUp, InOrder, Silent, Backend
  <2> QED
    BY <2>2, <2>3, <2>4, <2>5 DEF ShellInv
<1>5. ASSUME NEW s \in Local!Streams, Local!EnterRead(s) \/ Local!Read(s) PROVE ShellInv'
  <2>1. /\ UNCHANGED <<started, closed, output, done, gui, waiter, watcher, drainer, received, remote>>
        /\ s = "terminal" /\ Backend = {s}
        /\ \/ /\ reader[s].at = "next" /\ link = "down"
              /\ reader' = [reader EXCEPT ![s].at = "ended"] /\ ended' = TRUE
           \/ /\ reader[s].at = "next" /\ ended' = ended
              /\ reader' = [reader EXCEPT ![s].at = "read"]
           \/ /\ reader[s].at = "read" /\ reader[s].next <= sent[s] /\ ended' = ended
              /\ reader' = [reader EXCEPT ![s].at = "send"]
           \/ /\ reader[s].at = "read" /\ reader[s].next > sent[s] /\ exited /\ ~held
              /\ reader' = [reader EXCEPT ![s].at = "ended"] /\ ended' = TRUE
    BY <1>5 DEF Local!EnterRead, Local!Read, Local!Reads, remote, Backend, Local!Streams
  <2>2. started /\ ~ended /\ ended' \in BOOLEAN
    <3>1. started /\ ~ended
      BY <2>1 DEF ShellInv, StartedOnce, Joined
    <3>2. ended \in BOOLEAN
      BY DEF ShellInv, ShellTypeOK
    <3> QED
      BY <2>1, <3>1, <3>2
  <2>3. reader \in [Backend -> [at : Places, next : Nat \ {0}]] /\ sent \in [Backend -> Nat]
    BY DEF ShellInv, ShellTypeOK
  <2>4. /\ reader' \in [Backend -> [at : Places, next : Nat \ {0}]]
        /\ reader'[s].next = reader[s].next
        /\ \/ reader'[s].at = "ended" /\ ended' /\ link = "down"
           \/ reader'[s].at = "read" /\ ~ended'
           \/ reader'[s].at = "send" /\ ~ended' /\ reader[s].next <= sent[s]
           \/ reader'[s].at = "ended" /\ ended' /\ reader[s].next > sent[s] /\ exited /\ ~held
    BY <2>1, <2>2, <2>3 DEF Places
  <2>5. ShellTypeOK'
    BY <2>1, <2>2, <2>4 DEF ShellInv, ShellTypeOK, Backend, Chunk, remote
  <2>6. StartedOnce' /\ Drained'
    BY <2>1, <2>2 DEF ShellInv, StartedOnce, Drained, Backend, remote
  <2>7. Joined'
    BY <2>1, <2>2, <2>4 DEF ShellInv, Joined, Backend, remote
  <2>8. ReadUp'
    BY <2>1, <2>2, <2>3, <2>4 DEF ShellInv, ReadUp, Joined, Silent, Backend, remote
  <2>9. InOrder'
    BY <2>1, <2>4 DEF ShellInv, InOrder, Backend
  <2> QED
    BY <2>5, <2>6, <2>7, <2>8, <2>9 DEF ShellInv
<1>6. ASSUME NEW s \in Local!Streams, Local!Send(s) PROVE ShellInv'
  <2>1. /\ UNCHANGED <<started, closed, ended, done, gui, waiter, watcher, drainer, received, remote>>
        /\ s \in Backend /\ reader[s].at = "send"
        /\ output' = Append(output, [stream |-> s, number |-> reader[s].next])
        /\ reader' = [reader EXCEPT ![s] = [at |-> "next", next |-> @.next + 1]]
    BY <1>6 DEF Local!Send, Local!SendThen, remote, Backend
  <2>2. started /\ ~ended
    BY <2>1 DEF ShellInv, StartedOnce, Joined
  <2>3. reader \in [Backend -> [at : Places, next : Nat \ {0}]] /\ sent \in [Backend -> Nat]
        /\ reader[s].next <= sent[s]
    BY <2>1 DEF ShellInv, ShellTypeOK, ReadUp
  <2>4. /\ reader' \in [Backend -> [at : Places, next : Nat \ {0}]]
        /\ \A t \in Backend : t # s => reader'[t] = reader[t]
        /\ reader'[s].at = "next" /\ reader'[s].next = reader[s].next + 1
    BY <2>1, <2>3 DEF Places
  <2>5. output' \in Seq(Chunk) /\ InOrder'
    BY <2>1, SendKeepsOrder
  <2>6. ShellTypeOK' /\ StartedOnce' /\ Drained'
    BY <2>1, <2>2, <2>4, <2>5 DEF ShellInv, ShellTypeOK, StartedOnce, Drained, Backend, Chunk, remote
  <2>7. Joined'
    BY <2>1, <2>2, <2>4 DEF ShellInv, Joined, Backend, remote
  <2>8. ReadUp'
    BY <2>1, <2>3, <2>4 DEF ShellInv, ReadUp, Silent, Backend, remote
  <2> QED
    BY <2>5, <2>6, <2>7, <2>8 DEF ShellInv
<1>7. ASSUME NEW s \in Local!Streams, Local!ProcessesWrite(s) PROVE ShellInv'
  <2>1. /\ UNCHANGED <<started, closed, channels, gui, threads, link, exited, held>>
        /\ s \in Backend /\ sent' = [sent EXCEPT ![s] = @ + 1]
        /\ started /\ (~exited \/ held)
    BY <1>7 DEF Local!ProcessesWrite, Local!ShellWrites, channels, threads, Backend
  <2>2. sent' \in [Backend -> Nat] /\ \A t \in Backend : sent'[t] >= sent[t] /\ sent[t] \in Nat
    BY <2>1 DEF ShellInv, ShellTypeOK
  <2>3. ShellTypeOK' /\ StartedOnce' /\ Drained'
    BY <2>1, <2>2 DEF ShellInv, ShellTypeOK, StartedOnce, Drained, Backend, Chunk, channels, threads
  <2>4. Joined' /\ InOrder'
    BY <2>1 DEF ShellInv, Joined, InOrder, Backend, channels, threads
  <2>5. ReadUp'
    BY <2>1, <2>2 DEF ShellInv, ShellTypeOK, ReadUp, Silent, Backend, channels, threads
  <2> QED
    BY <2>3, <2>4, <2>5 DEF ShellInv
<1>8. CASE Local!ShellDies \/ Local!JobStarts \/ Local!JobEnds
  <2>1. /\ UNCHANGED <<started, closed, channels, gui, threads, link, sent>>
        /\ \/ exited' = TRUE /\ link = "up" /\ held' = held
           \/ ~exited /\ held' = TRUE /\ exited' = exited
           \/ held' = FALSE /\ exited' = exited
    BY <1>8 DEF Local!ShellDies, Local!ShellExits, Local!JobStarts, Local!JobEnds, channels, threads
  <2>2. ShellTypeOK'
    <3>1. {exited', held'} \subseteq BOOLEAN
      BY <2>1 DEF ShellInv, ShellTypeOK
    <3> QED
      BY <2>1, <3>1 DEF ShellInv, ShellTypeOK, Backend, Chunk, channels, threads
  <2>3. StartedOnce' /\ Joined' /\ Drained'
    BY <2>1 DEF ShellInv, StartedOnce, Joined, Drained, Backend, channels, threads
  <2>4. ReadUp' /\ InOrder'
    BY <2>1 DEF ShellInv, ReadUp, InOrder, Silent, Backend, channels, threads
  <2> QED
    BY <2>2, <2>3, <2>4 DEF ShellInv
<1> QED
  BY <1>1, <1>2, <1>3, <1>4, <1>5, <1>6, <1>7, <1>8, LocalSteps DEF Local!Reader

LEMMA ShellInductive == ShellInv /\ [Next]_<<vars, kind>> => ShellInv'
<1> SUFFICES ASSUME ShellInv, [Next]_<<vars, kind>> PROVE ShellInv'
  OBVIOUS
<1>1. CASE kind = "ssh" /\ SSH!Next /\ UNCHANGED kind
  BY <1>1, RemoteKeeps
<1>2. CASE kind = "local" /\ Local!Next /\ UNCHANGED kind
  BY <1>2, LocalKeeps
<1>3. CASE UNCHANGED <<vars, kind>>
  <2>1. UNCHANGED <<fields, gui, threads, remote, kind>>
    BY <1>3 DEF vars
  <2> USE DEF fields, channels, threads, remote
  <2>2. ShellTypeOK'
    <3>1. {started', closed', ended', done', exited', held'} \subseteq BOOLEAN
      BY <2>1 DEF ShellInv, ShellTypeOK
    <3> QED
      BY <2>1, <3>1 DEF ShellInv, ShellTypeOK, Backend, Chunk
  <2>3. StartedOnce' /\ Joined' /\ Drained' /\ ReadUp' /\ InOrder'
    BY <2>1 DEF ShellInv, StartedOnce, Joined, Drained, ReadUp, InOrder, Silent, Backend
  <2> QED
    BY <2>2, <2>3 DEF ShellInv
<1> QED
  BY <1>1, <1>2, <1>3 DEF Next

-----------------------------------------------------------------------------
\* What a step of a backend is to the abstract session.
Untold == (drainer' = "exited") = (drainer = "exited")
Abandoned == kind = "local" /\ closed

LEMMA Stutter ==
    ASSUME UNCHANGED <<kind, started, received, sent>>, Abandoned' = Abandoned, Untold
    PROVE  UNCHANGED Shell!vars
BY DEF Shell!vars, Status, Delivered, Abandoned, Untold

\* A session starts, and no earlier can one be closed.
LEMMA StartStep ==
    ASSUME ShellInv, ~started, started' = TRUE,
           UNCHANGED <<kind, closed, drainer, received, sent>>
    PROVE  Shell!Start
<1>1. Status = "new" /\ Status' = "running"
  BY DEF Status, ShellInv, StartedOnce
<1> QED
  BY <1>1 DEF Shell!Start, Delivered

\* Closing a started session abandons its output, if it is a local one.
LEMMA CloseStep ==
    ASSUME ShellInv, started, closed' = TRUE,
           UNCHANGED <<kind, started, drainer, received, sent>>
    PROVE  Shell!Abandon \/ UNCHANGED Shell!vars
<1>1. Status # "new" /\ Status' = Status
  BY DEF Status
<1>2. CASE kind = "local"
  BY <1>1, <1>2 DEF Shell!Abandon, Delivered
<1>3. CASE kind # "local"
  BY <1>1, <1>3 DEF Shell!vars, Delivered
<1> QED
  BY <1>2, <1>3

\* A shell that may write has not been reported as exited, unless it was abandoned.
LEMMA ProduceStep ==
    ASSUME ShellInv, started, NEW s \in Backend, sent' = [sent EXCEPT ![s] = @ + 1],
           ~Silent, IF kind = "ssh" THEN link = "up" ELSE TRUE,
           UNCHANGED <<kind, started, closed, drainer, received>>
    PROVE  \E t \in DOMAIN sent : Shell!Produce(t)
<1>1. DOMAIN sent = Backend /\ DOMAIN sent' = Backend
  BY DEF ShellInv, ShellTypeOK
<1>2. drainer = "exited" => Abandoned
  BY DEF ShellInv, Drained, Joined, ReadUp, Abandoned, ShellTypeOK, Silent, Backend, SSH!Streams, Local!Streams
<1>3. Status = "running" \/ Abandoned
  BY <1>2 DEF Status
<1>4. Status' = Status /\ Delivered' = Delivered
  BY <1>1 DEF Status, Delivered
<1> QED
  BY <1>1, <1>3, <1>4 DEF Shell!Produce, Abandoned

\* The chunk received next is the next of its stream.
LEMMA NextInOrder ==
    ASSUME ShellInv, output # <<>>
    PROVE  /\ Head(output) \in Chunk
           /\ LET c == Head(output)
                  told == Numbers(received, c.stream)
              IN  /\ c.stream \in Backend
                  /\ told \in Seq(Nat)
                  /\ c.number = Len(told) + 1
                  /\ Len(told) < sent[c.stream]
<1> DEFINE c == Head(output)
           s == c.stream
           told == Numbers(received, s)
           rest == Numbers(Tail(output), s)
           more == Append(received, c)
<1>1. output \in Seq(Chunk) /\ received \in Seq(Chunk)
  BY DEF ShellInv, ShellTypeOK
<1>2. c \in Chunk /\ Tail(output) \in Seq(Chunk) /\ more \in Seq(Chunk)
      /\ more \o Tail(output) = received \o output
  BY <1>1, AppendHead
<1>3. s \in Backend /\ c.number \in Nat
  BY <1>2 DEF Chunk
<1> HIDE DEF c
<1>4. told \in Seq(Nat) /\ rest \in Seq(Nat)
  BY <1>1, <1>2, NumbersType DEF Chunk
<1>5. Numbers(more, s) = Append(told, c.number)
  BY <1>1, <1>2, NumbersAppend DEF Chunk
<1>6. Numbers(received \o output, s) = Append(told, c.number) \o rest
  <2> DEFINE t == Tail(output)
  <2>1. more \in Seq(Chunk) /\ t \in Seq(Chunk)
    BY <1>2
  <2>6. \A k \in Chunk : k.number \in Nat
    BY DEF Chunk
  <2>3. more \o t = received \o output
    BY <1>2
  <2>4. Numbers(more, s) = Append(told, c.number)
    BY <1>5
  <2>5. rest = Numbers(t, s)
    OBVIOUS
  <2> HIDE DEF more, t, rest, told, s
  <2>2. Numbers(more \o t, s) = Numbers(more, s) \o Numbers(t, s)
    BY <2>1, <2>6, NumbersConcat
  <2> QED
    BY <2>2, <2>3, <2>4, <2>5
<1> DEFINE k == reader[s].next - 1
           a == Append(told, c.number)
           x == a \o rest
<1>7. x = [i \in 1..k |-> i]
  BY <1>3, <1>6 DEF ShellInv, InOrder
<1>8. k \in Nat /\ k <= sent[s] /\ sent[s] \in Nat
  BY <1>3 DEF ShellInv, ShellTypeOK, ReadUp
<1> HIDE DEF told, rest, s, k
<1>9. a \in Seq(Nat) /\ Len(a) = Len(told) + 1 /\ a[Len(told) + 1] = c.number /\ Len(told) \in Nat
  BY <1>3, <1>4
<1> HIDE DEF a
<1>10. x \in Seq(Nat) /\ Len(x) = Len(a) + Len(rest) /\ \A i \in 1..Len(a) : x[i] = a[i]
  <2>1. a \in Seq(Nat) /\ rest \in Seq(Nat)
    BY <1>4, <1>9
  <2> QED
    BY ONLY <2>1
<1> HIDE DEF x
<1>11. Len(x) = k /\ \A i \in 1..k : x[i] = i
  BY <1>7, <1>8, <1>10
<1>12. Len(told) + 1 <= k /\ c.number = Len(told) + 1
  BY <1>4, <1>8, <1>9, <1>10, <1>11
<1>13. Len(told) < sent[s]
  BY <1>8, <1>9, <1>12
<1> QED
  BY <1>2, <1>3, <1>4, <1>12, <1>13 DEF c, s, told

LEMMA DeliverStep ==
    ASSUME ShellInv, drainer = "receive", started, output # <<>>,
           received' = Append(received, Head(output)),
           UNCHANGED <<kind, started, closed, drainer, sent>>
    PROVE  \E t \in DOMAIN sent : Shell!Deliver(t)
<1> DEFINE c == Head(output)
           s == c.stream
           told == Numbers(received, s)
<1>1. c \in Chunk /\ s \in Backend /\ told \in Seq(Nat) /\ c.number = Len(told) + 1 /\ Len(told) < sent[s]
  BY NextInOrder
<1>2. received \in Seq(Chunk) /\ DOMAIN sent = Backend
  BY DEF ShellInv, ShellTypeOK
<1> HIDE DEF c
<1>3. ASSUME NEW t \in Backend
      PROVE  Numbers(received', t) = IF t = s THEN Append(Numbers(received, t), c.number) ELSE Numbers(received, t)
  <2>1. received' = Append(received, c)
    BY DEF c
  <2>2. /\ received \in Seq([stream : Backend, number : Nat])
        /\ c \in [stream : Backend, number : Nat]
    BY <1>1, <1>2 DEF Chunk
  <2>3. Numbers(Append(received, c), t)
            = IF c.stream = t THEN Append(Numbers(received, t), c.number) ELSE Numbers(received, t)
    BY ONLY <2>2, NumbersAppend
  <2> QED
    BY <2>1, <2>3
<1>4. Status = "running" /\ Status' = Status
  BY DEF Status
<1>5. Delivered = [t \in Backend |-> Numbers(received, t)] /\ Delivered' = [t \in Backend |-> Numbers(received', t)]
  BY <1>2 DEF Delivered
<1>6. Delivered[s] = told
  BY <1>1, <1>5
<1> HIDE DEF told
<1>7. Delivered' = [Delivered EXCEPT ![s] = Append(Delivered[s], Len(Delivered[s]) + 1)]
  BY <1>1, <1>3, <1>5, <1>6 DEF told
<1>8. Shell!Deliver(s)
  BY <1>1, <1>4, <1>6, <1>7 DEF Shell!Deliver
<1> QED
  BY <1>1, <1>2, <1>8

\* The exit is reported when all of the output has been, or the session is abandoned.
LEMMA ExitStep ==
    ASSUME ShellInv, drainer = "wait", drainer' = "exited", started,
           UNCHANGED <<kind, started, closed, received, sent>>
    PROVE  Shell!Exit
<1>1. Status = "running" /\ Status' = "exited"
  BY DEF Status
<1>2. DOMAIN sent = Backend /\ ended /\ output = <<>> /\ received \in Seq(Chunk)
  BY DEF ShellInv, ShellTypeOK, Drained
<1>3. ASSUME NEW s \in Backend, ~Abandoned PROVE Len(Delivered[s]) = sent[s]
  <2>1. received \o output = received
    BY <1>2
  <2> DEFINE k == reader[s].next - 1
  <2>2. k = sent[s] /\ k \in Nat
    <3>1. sent[s] \in Nat
      BY DEF ShellInv, ShellTypeOK
    <3>2. reader[s].at = "ended"
      BY <1>2 DEF ShellInv, Joined
    <3>3. reader[s].next = sent[s] + 1
      BY <1>3, <3>2 DEF ShellInv, ReadUp, Abandoned
    <3> QED
      BY <3>1, <3>3
  <2>3. Numbers(received, s) = [i \in 1..k |-> i]
    BY <2>1 DEF ShellInv, InOrder
  <2> HIDE DEF k
  <2>4. Len([i \in 1..k |-> i]) = k
    BY <2>2
  <2>5. Delivered[s] = Numbers(received, s)
    BY <1>2 DEF Delivered
  <2> QED
    BY <2>2, <2>3, <2>4, <2>5
<1>4. Delivered' = Delivered /\ Abandoned' = Abandoned
  BY DEF Delivered, Abandoned
<1> QED
  BY <1>1, <1>2, <1>3, <1>4 DEF Shell!Exit, Abandoned

\* The steps both backends share are steps of the abstract session or leave it alone.
LEMMA SharedMaps ==
    ASSUME ShellInv, Shared, UNCHANGED kind
    PROVE  \/ UNCHANGED Shell!vars
           \/ Shell!Abandon \/ Shell!Exit
           \/ \E t \in DOMAIN sent : Shell!Deliver(t)
<1> USE DEF fields, channels, threads, calls, remote
<1>1. CASE StartLock \/ WriteLock \/ StartFails \/ WriteReturns \/ CancelAndClose \/ Release \/ Watch
  <2>1. UNCHANGED <<started, closed, drainer, received, sent>>
    BY <1>1 DEF StartLock, WriteLock, StartFails, WriteReturns, CancelAndClose, Release, Watch
  <2> QED
    BY <2>1, Stutter DEF Abandoned, Untold
<1>2. CASE StartReturns
  <2>1. UNCHANGED <<started, closed, received, sent>> /\ gui = "return" /\ drainer' = "receive"
    BY <1>2 DEF StartReturns
  <2>2. CASE drainer = "exited"
    <3>1. gui # "return"
      BY <2>2 DEF ShellInv, StartedOnce
    <3> QED
      BY <2>1, <3>1
  <2>3. CASE drainer # "exited"
    BY <2>1, <2>3, Stutter DEF Abandoned, Untold
  <2> QED
    BY <2>2, <2>3
<1>3. CASE GuiCloseLock \/ WatcherCloseLock
  <2>1. UNCHANGED <<started, drainer, received, sent>> /\ closed' = TRUE /\ started
    BY <1>3 DEF GuiCloseLock, WatcherCloseLock, ShellInv, StartedOnce
  <2> QED
    BY <2>1, CloseStep
<1>4. CASE Receive
  <2>1. UNCHANGED <<started, closed, sent>> /\ drainer = "receive" /\ started
    BY <1>4 DEF Receive, ShellInv, StartedOnce
  <2>2. CASE /\ output # <<>> /\ drainer' = drainer
             /\ received' = Append(received, Head(output))
    BY <2>1, <2>2, DeliverStep
  <2>3. CASE drainer' = "wait" /\ received' = received
    BY <2>1, <2>3, Stutter DEF Abandoned, Untold
  <2> QED
    BY <1>4, <2>2, <2>3 DEF Receive
<1>5. CASE ReportExit
  <2>1. UNCHANGED <<started, closed, received, sent>> /\ drainer = "wait" /\ drainer' = "exited" /\ started
    BY <1>5 DEF ReportExit, ShellInv, StartedOnce
  <2> QED
    BY <2>1, ExitStep
<1> QED
  BY <1>1, <1>2, <1>3, <1>4, <1>5 DEF Shared

LEMMA RemoteMaps ==
    ASSUME ShellInv, kind = "ssh", kind' = kind, SSH!Next
    PROVE  [Shell!Next]_(Shell!vars)
<1> USE DEF SSH!fields, SSH!channels, SSH!threads, SSH!calls, SSH!remote
<1>1. CASE Shared
  BY <1>1, SharedMaps DEF Shell!Next
<1>2. CASE SSH!ShellStarts
  <2>1. UNCHANGED <<closed, drainer, received, sent>> /\ ~started /\ started' = TRUE
    BY <1>2 DEF SSH!ShellStarts, SSH!Launch, ShellInv, StartedOnce
  <2> QED
    BY <2>1, StartStep DEF Shell!Next
<1>3. CASE SSH!ChangeDirectory \/ SSH!GuiHangup \/ SSH!WatcherHangup \/ SSH!LinkBreaks \/ SSH!ShellExits
  <2>1. UNCHANGED <<started, closed, drainer, received, sent>>
    BY <1>3 DEF SSH!ChangeDirectory, SSH!GuiHangup, SSH!WatcherHangup, SSH!Hangup, SSH!LinkBreaks, SSH!ShellExits
  <2> QED
    BY <2>1, Stutter DEF Abandoned, Untold
<1>4. CASE SSH!Waiter
  <2>1. UNCHANGED <<started, closed, drainer, received, sent>>
    BY <1>4 DEF SSH!Waiter, SSH!WaitRemote, SSH!WaitReaders, SSH!WaitRecord, SSH!WaitClose
  <2> QED
    BY <2>1, Stutter DEF Abandoned, Untold
<1>5. ASSUME NEW s \in SSH!Streams, SSH!Read(s) \/ SSH!Send(s) PROVE [Shell!Next]_(Shell!vars)
  <2>1. UNCHANGED <<started, closed, drainer, received, sent>>
    BY <1>5 DEF SSH!Read, SSH!Reads, SSH!Send, SSH!SendThen
  <2> QED
    BY <2>1, Stutter DEF Abandoned, Untold
<1>6. ASSUME NEW s \in SSH!Streams, SSH!RemoteSends(s) PROVE [Shell!Next]_(Shell!vars)
  <2>1. /\ UNCHANGED <<started, closed, drainer, received>> /\ s \in Backend
        /\ sent' = [sent EXCEPT ![s] = @ + 1] /\ link = "up" /\ ~Silent
    BY <1>6 DEF SSH!RemoteSends, SSH!ShellWrites, Silent, Backend
  <2>2. started
    BY <2>1 DEF ShellInv, StartedOnce
  <2> QED
    BY <2>1, <2>2, ProduceStep DEF Shell!Next
<1> QED
  BY <1>1, <1>2, <1>3, <1>4, <1>5, <1>6, RemoteSteps

LEMMA LocalMaps ==
    ASSUME ShellInv, kind = "local", kind' = kind, Local!Next
    PROVE  [Shell!Next]_(Shell!vars)
<1> USE DEF Local!fields, Local!channels, Local!threads, Local!calls, Local!remote
<1>1. CASE Shared
  BY <1>1, SharedMaps DEF Shell!Next
<1>2. CASE Local!ShellStarts
  <2>1. UNCHANGED <<closed, drainer, received, sent>> /\ ~started /\ started' = TRUE
    BY <1>2 DEF Local!ShellStarts, Local!Launch, ShellInv, StartedOnce
  <2> QED
    BY <2>1, StartStep DEF Shell!Next
<1>3. CASE Local!GuiHangup \/ Local!WatcherHangup \/ Local!ShellDies \/ Local!JobStarts \/ Local!JobEnds
  <2>1. UNCHANGED <<started, closed, drainer, received, sent>>
    BY <1>3 DEF Local!GuiHangup, Local!WatcherHangup, Local!Hangup, Local!ShellDies, Local!ShellExits,
       Local!JobStarts, Local!JobEnds
  <2> QED
    BY <2>1, Stutter DEF Abandoned, Untold
<1>4. CASE Local!Waiter
  <2>1. UNCHANGED <<started, closed, drainer, received, sent>>
    BY <1>4 DEF Local!Waiter, Local!WaitCommand, Local!WaitReader, Local!WaitRecord, Local!WaitClose
  <2> QED
    BY <2>1, Stutter DEF Abandoned, Untold
<1>5. ASSUME NEW s \in Local!Streams, Local!Reader(s) PROVE [Shell!Next]_(Shell!vars)
  <2>1. UNCHANGED <<started, closed, drainer, received, sent>>
    BY <1>5 DEF Local!Reader, Local!EnterRead, Local!Read, Local!Reads, Local!Send, Local!SendThen
  <2> QED
    BY <2>1, Stutter DEF Abandoned, Untold
<1>6. ASSUME NEW s \in Local!Streams, Local!ProcessesWrite(s) PROVE [Shell!Next]_(Shell!vars)
  <2>1. /\ UNCHANGED <<started, closed, drainer, received>> /\ s \in Backend
        /\ sent' = [sent EXCEPT ![s] = @ + 1] /\ started /\ ~Silent
    BY <1>6 DEF Local!ProcessesWrite, Local!ShellWrites, Silent, Backend
  <2> QED
    BY <2>1, ProduceStep DEF Shell!Next
<1> QED
  BY <1>1, <1>2, <1>3, <1>4, <1>5, <1>6, LocalSteps

-----------------------------------------------------------------------------
\* What is known of a session in every state, whichever backend it has.
THEOREM ShellInvariance == Spec => []ShellInv
<1>1. Init => ShellInv
  BY ShellStart
<1>2. ShellInv /\ [Next]_<<vars, kind>> => ShellInv'
  BY ShellInductive
<1> QED
  BY <1>1, <1>2, PTL DEF Spec

\* Nobody sends on the closed output channel, which would panic: waitForExit closes it
\* behind the readers it has joined (ssh_pty.go), and readOutput of the local shell
\* closes the channel it alone sends on, as its last act (local_pty_unix.go).
THEOREM NeverSendsAfterClose == Spec => []NoSendAfterClose
<1>1. ShellInv => NoSendAfterClose
  BY DEF ShellInv, ShellTypeOK, Joined, NoSendAfterClose
<1> QED
  BY <1>1, ShellInvariance, PTL

\* Both backends implement the interactive session: what the shell writes reaches the
\* window once and in order, and the exit is the last thing it is told, after all of
\* the output unless a local session was closed (drainInteractiveOutput in guis.go).
THEOREM ShellsImplement == Spec => ImplementsShell
<1>1. Init => Shell!Init
  <2> SUFFICES ASSUME Init PROVE Shell!Init
    OBVIOUS
  <2>1. InitWith(Backend)
    BY DEF Init, Backend, SSH!Init, Local!Init, SSH!InitWith, Local!InitWith, InitWith
  <2>2. Status = "new" /\ closed = FALSE
    BY <2>1 DEF InitWith, Status
  <2>3. \A s \in DOMAIN sent : sent[s] = 0 /\ Delivered[s] = <<>>
    BY <2>1, NumbersEmpty DEF InitWith, Delivered
  <2> QED
    BY <2>2, <2>3 DEF Shell!Init
<1>2. ShellInv /\ [Next]_<<vars, kind>> => [Shell!Next]_(Shell!vars)
  <2> SUFFICES ASSUME ShellInv, [Next]_<<vars, kind>> PROVE [Shell!Next]_(Shell!vars)
    OBVIOUS
  <2>1. CASE kind = "ssh" /\ SSH!Next /\ UNCHANGED kind
    BY <2>1, RemoteMaps
  <2>2. CASE kind = "local" /\ Local!Next /\ UNCHANGED kind
    BY <2>2, LocalMaps
  <2>3. CASE UNCHANGED <<vars, kind>>
    <3>1. UNCHANGED <<kind, started, closed, drainer, received, sent>>
      BY <2>3 DEF vars, fields, threads, remote
    <3> QED
      BY <3>1, Stutter DEF Abandoned, Untold
  <2> QED
    BY <2>1, <2>2, <2>3 DEF Next
<1> QED
  BY <1>1, <1>2, ShellInvariance, PTL DEF Spec, ImplementsShell, Shell!Spec
=============================================================================
