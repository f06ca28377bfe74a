---------------------------- MODULE SessionProofs ----------------------------
(***************************************************************************)
(* The tabs of the window, for any number of tabs, profiles and commands   *)
(* and any size of the terminal.                                           *)
(***************************************************************************)
EXTENDS SessionTools, LibraryProofs

Record == [profile : Profiles, command : Nat]

\* The session handlers with the two tools.
ToolsSpec ==
    /\ \E recorded \in Seq(Record) : ToolsInit(recorded)
    /\ [][ToolsNext]_toolVars

-----------------------------------------------------------------------------
\* The inductive invariant, of the workspace, the command line and the terminal first.

\* What Own says, of the history h.
OwnIn(h, tab, line) ==
    \/ line = NoDraft \/ line = tab.id
    \/ \E i \in DOMAIN h : h[i] = [profile |-> tab.profile, command |-> line]

Differ(a, b) == a.id # b.id /\ (a.profile # b.profile \/ a.instance # b.instance)

TabOK(tab, next, h) ==
    /\ tab \in Tab
    /\ tab.id \in 1..next
    /\ \A n \in DOMAIN tab.output : tab.output[n].tab = tab.id
    /\ OwnIn(h, tab, tab.draft)

PinnedInFront(tabs) == \A i, j \in DOMAIN tabs : i < j /\ tabs[j].pinned => tabs[i].pinned

TabsOK(tabs, next, h) ==
    /\ tabs \in Seq(Tab)
    /\ \A i \in DOMAIN tabs : TabOK(tabs[i], next, h)
    /\ PinnedInFront(tabs)
    /\ \A i, j \in DOMAIN tabs : i # j => Differ(tabs[i], tabs[j])

WorkspaceOK(w, h) ==
    /\ w \in Workspace
    /\ w.active \in 0..Len(w.tabs) /\ (w.active = 0 <=> w.tabs = <<>>)
    /\ Len(w.closed) <= ClosedLimit
    /\ TabsOK(w.tabs, w.next, h)

\* What the terminal and the command line hold.
Shown(w) == IF w.active = 0 THEN <<>> ELSE Retained(w.tabs[w.active].output)
Typed(w, h, line) ==
    line \in Nat /\ IF w.active = 0 THEN line = NoDraft ELSE OwnIn(h, w.tabs[w.active], line)

ViewOK(v, h) ==
    /\ v = [ws |-> v.ws, input |-> v.input, screen |-> v.screen]
    /\ WorkspaceOK(v.ws, h) /\ v.screen = Shown(v.ws) /\ Typed(v.ws, h, v.input)

\* The tabs that run a command, and which.
Running(w) == {<<t.id, t.run>> : t \in {u \in ToSet(w.tabs) : u.status = "running"}}

RunsOK ==
    /\ runs \in [Tabs -> 0..MaxRuns] /\ lastRun \in 0..MaxRuns /\ workers \subseteq Worker
    /\ \A k \in workers : k.run <= lastRun
    /\ \A k, l \in workers : k.run = l.run => k = l
    /\ \A id \in Tabs : runs[id] # NoRun => \E k \in workers : k.session = id /\ k.run = runs[id]
    /\ \A k \in workers : runs[k.session] = k.run
    /\ Running(workspace) = {<<k.session, k.run>> : k \in workers}

ControllerInv ==
    /\ ViewOK(View, history)
    /\ workspace.next <= MaxRuntimes /\ shells \subseteq IDs(workspace)
    /\ history \in Seq(Record) /\ printed \in 0..MaxOutput
    /\ RunsOK

Cursor == [commands : Seq(Nat), index : Int, draft : Nat, started : BOOLEAN]

\* A walk has the commands of its tab's profile, and keeps a line of its tab.
CursorsOK ==
    /\ DOMAIN cursors \subseteq 1..workspace.next
    /\ \A id \in DOMAIN cursors : cursors[id] \in Cursor
    /\ \A i \in DOMAIN workspace.tabs :
          LET tab == workspace.tabs[i]
          IN  tab.id \in DOMAIN cursors =>
                 /\ OwnIn(history, tab, cursors[tab.id].draft)
                 /\ \A n \in DOMAIN cursors[tab.id].commands :
                       OwnIn(history, tab, cursors[tab.id].commands[n])

FindOK == find \in [open : BOOLEAN, matches : Seq(Nat), index : Nat] /\ FindAccurate

ToolsInv == ControllerInv /\ CursorsOK /\ FindOK

-----------------------------------------------------------------------------
\* Sequences.

LEMMA ConcatOf ==
    ASSUME NEW T, NEW a \in Seq(T), NEW b \in Seq(T), NEW m \in Nat, m = Len(a)
    PROVE  /\ a \o b \in Seq(T) /\ Len(a \o b) = m + Len(b)
           /\ \A k \in 1..(m + Len(b)) : (a \o b)[k] = IF k <= m THEN a[k] ELSE b[k - m]
OBVIOUS

LEMMA RemoveAtOf ==
    ASSUME NEW T, NEW s \in Seq(T), NEW i \in 1..Len(s)
    PROVE  /\ RemoveAt(s, i) \in Seq(T)
           /\ Len(RemoveAt(s, i)) = Len(s) - 1
           /\ \A k \in 1..(Len(s) - 1) :
                 RemoveAt(s, i)[k] = IF k < i THEN s[k] ELSE s[k + 1]
<1> DEFINE a == SubSeq(s, 1, i - 1)
           b == SubSeq(s, i + 1, Len(s))
<1>1. /\ a \in Seq(T) /\ Len(a) = i - 1 /\ \A k \in 1..(i - 1) : a[k] = s[k]
  OBVIOUS
<1>2. /\ b \in Seq(T) /\ Len(b) = Len(s) - i /\ \A k \in 1..(Len(s) - i) : b[k] = s[i + k]
  OBVIOUS
<1>3. RemoveAt(s, i) = a \o b
  BY DEF RemoveAt
<1>4. Len(s) \in Nat
  OBVIOUS
<1> HIDE DEF a, b
<1> DEFINE m == i - 1
           n == Len(s)
<1>5. m \in Nat /\ n \in Nat /\ m + (n - i) = n - 1 /\ m < n
  BY <1>4
<1>6. m = Len(a) /\ Len(b) = n - i
  BY <1>1, <1>2
<1>7. /\ a \o b \in Seq(T) /\ Len(a \o b) = m + Len(b)
      /\ \A k \in 1..(m + Len(b)) : (a \o b)[k] = IF k <= m THEN a[k] ELSE b[k - m]
  <2>1. a \in Seq(T)
    BY <1>1
  <2>2. b \in Seq(T)
    BY <1>2
  <2>3. m \in Nat /\ m = Len(a)
    BY <1>5, <1>6
  <2> HIDE DEF m, n
  <2> QED BY ONLY <2>1, <2>2, <2>3, ConcatOf
<1>8. m + Len(b) = n - 1
  BY <1>5, <1>6
<1>9. \A k \in 1..(n - 1) : (k <= m) = (k < i)
  BY <1>4
<1>10. /\ a \o b \in Seq(T) /\ Len(a \o b) = n - 1
      /\ \A k \in 1..(n - 1) : (a \o b)[k] = IF k < i THEN a[k] ELSE b[k - m]
  <2> HIDE DEF m, n
  <2> QED BY ONLY <1>7, <1>8, <1>9
<1>11. ASSUME NEW k \in 1..(Len(s) - 1)
      PROVE  (a \o b)[k] = IF k < i THEN s[k] ELSE s[k + 1]
  <2>1. CASE k < i
    BY <1>1, <1>10, <2>1
  <2>2. CASE ~(k < i)
    <3>1. k - (i - 1) \in 1..(Len(s) - i) /\ i + (k - (i - 1)) = k + 1
      BY <1>4, <2>2
    <3> QED BY <1>2, <1>10, <2>2, <3>1
  <2> QED BY <2>1, <2>2
<1> QED
  BY <1>3, <1>10, <1>11

LEMMA InsertAtOf ==
    ASSUME NEW T, NEW s \in Seq(T), NEW i \in 1..(Len(s) + 1), NEW e \in T
    PROVE  /\ InsertAt(s, i, e) \in Seq(T)
           /\ Len(InsertAt(s, i, e)) = Len(s) + 1
           /\ \A k \in 1..(Len(s) + 1) :
                 InsertAt(s, i, e)[k] = IF k < i THEN s[k] ELSE IF k = i THEN e ELSE s[k - 1]
<1> DEFINE a == SubSeq(s, 1, i - 1)
           b == SubSeq(s, i, Len(s))
           c == a \o <<e>>
<1>1. /\ a \in Seq(T) /\ Len(a) = i - 1 /\ \A k \in 1..(i - 1) : a[k] = s[k]
  OBVIOUS
<1>2. /\ b \in Seq(T) /\ Len(b) = Len(s) - i + 1
      /\ \A k \in 1..(Len(s) - i + 1) : b[k] = s[i + k - 1]
  OBVIOUS
<1>3. InsertAt(s, i, e) = c \o b
  BY DEF InsertAt
<1>4. Len(s) \in Nat
  OBVIOUS
<1> HIDE DEF a, b
<1>5. /\ c \in Seq(T) /\ Len(c) = i /\ c[i] = e /\ \A k \in 1..(i - 1) : c[k] = s[k]
  BY <1>1
<1> HIDE DEF c
<1> DEFINE n == Len(s)
<1>6. i \in Nat /\ n \in Nat /\ i + (n - i + 1) = n + 1
  BY <1>4
<1>7. i = Len(c) /\ Len(b) = n - i + 1 /\ c \in Seq(T) /\ b \in Seq(T)
  BY <1>2, <1>5
<1>8. /\ c \o b \in Seq(T) /\ Len(c \o b) = i + Len(b)
      /\ \A k \in 1..(i + Len(b)) : (c \o b)[k] = IF k <= i THEN c[k] ELSE b[k - i]
  <2> HIDE DEF n
  <2> QED BY ONLY <1>6, <1>7, ConcatOf
<1>9. /\ c \o b \in Seq(T) /\ Len(c \o b) = n + 1
      /\ \A k \in 1..(n + 1) : (c \o b)[k] = IF k <= i THEN c[k] ELSE b[k - i]
  <2> HIDE DEF n
  <2> QED BY ONLY <1>6, <1>7, <1>8
<1>10. ASSUME NEW k \in 1..(Len(s) + 1)
      PROVE  (c \o b)[k] = IF k < i THEN s[k] ELSE IF k = i THEN e ELSE s[k - 1]
  <2>1. CASE k <= i
    BY <1>5, <1>9, <2>1
  <2>2. CASE ~(k <= i)
    <3>1. k - i \in 1..(Len(s) - i + 1) /\ i + (k - i) - 1 = k - 1
      BY <1>4, <2>2
    <3> QED BY <1>2, <1>9, <2>2, <3>1
  <2> QED BY <2>1, <2>2
<1> QED
  BY <1>3, <1>9, <1>10

\* A set of natural numbers with a bound has a greatest element.
LEMMA MaxOf ==
    ASSUME NEW S \in SUBSET Nat, S # {}, NEW b \in Nat, \A x \in S : x <= b
    PROVE  Max(S) \in S /\ \A x \in S : x <= Max(S)
<1> DEFINE U == {u \in Nat : \A x \in S : x <= u}
<1>1. PICK m \in U : \A u \in U : m <= u
  BY LeastNatural
<1>2. m \in S
  <2> SUFFICES ASSUME m \notin S PROVE FALSE
    OBVIOUS
  <2>1. m \in Nat /\ \A x \in S : x <= m /\ x # m
    BY <1>1
  <2>2. PICK x \in S : TRUE
    OBVIOUS
  <2>3. x \in Nat /\ x <= m /\ x # m
    BY <2>1
  <2>4. m > 0
    BY ONLY <2>1, <2>3
  <2>5. m - 1 \in U
    BY <1>1, <2>1, <2>4
  <2> QED BY <1>1, <2>5
<1>3. \E x \in S : \A y \in S : x >= y
  BY <1>1, <1>2
<1> QED
  BY <1>3 DEF Max

LEMMA BoundOf ==
    ASSUME NEW n \in Nat, NEW f \in [1..n -> Nat]
    PROVE  \E b \in Nat : \A i \in 1..n : f[i] <= b
<1> DEFINE P == {m \in 0..n : \E b \in Nat : \A i \in 1..m : f[i] <= b}
<1>1. 0 \in P
  OBVIOUS
<1>2. ASSUME NEW m \in 0..(n - 1), m \in P PROVE m + 1 \in P
  <2>1. PICK b \in Nat : \A i \in 1..m : f[i] <= b
    BY <1>2
  <2>2. m + 1 \in 0..n /\ m + 1 \in 1..n
    OBVIOUS
  <2>3. f[m + 1] \in Nat
    BY <2>2
  <2>4. PICK c \in Nat : c >= b /\ c >= f[m + 1]
    BY <2>3
  <2>5. \A i \in 1..(m + 1) : f[i] <= c
    <3> SUFFICES ASSUME NEW i \in 1..(m + 1) PROVE f[i] <= c
      OBVIOUS
    <3>1. CASE i = m + 1
      BY <2>4, <3>1
    <3>2. CASE i \in 1..m
      <4>1. f[i] \in Nat
        BY <2>2, <3>2
      <4> QED BY <2>1, <2>4, <3>2, <4>1
    <3> QED BY <3>1, <3>2
  <2> QED BY <2>2, <2>5
<1> HIDE DEF P
<1>3. \A m \in 0..(n - 1) : m \in P => m + 1 \in P
  BY <1>2
<1>4. \A m \in 0..n : m \in P
  BY ONLY n \in Nat, <1>1, <1>3, UpTo
<1>5. n \in P
  BY <1>4
<1> QED
  BY <1>5 DEF P

\* What the terminal retains.
LEMMA RetainedOf ==
    ASSUME NEW T, NEW s \in Seq(T)
    PROVE  /\ Retained(s) \in Seq(T)
           /\ Len(Retained(s)) = IF Len(s) <= Scrollback THEN Len(s) ELSE Scrollback
           /\ \A i \in 1..Len(Retained(s)) :
                 Retained(s)[i] = s[Len(s) - Len(Retained(s)) + i]
<1> USE ControllerBounds
<1> DEFINE S == {1, Len(s) - Scrollback + 1}
           m == IF Len(s) <= Scrollback THEN 1 ELSE Len(s) - Scrollback + 1
<1>1. Len(s) \in Nat /\ Scrollback \in Nat /\ m \in Nat /\ m >= 1
  OBVIOUS
<1>2. m \in S /\ \A x \in S : m >= x
  OBVIOUS
<1>3. \A x \in S : (\A y \in S : x >= y) => x = m
  <2>1. \A x \in S : x \in Int
    BY <1>1
  <2> HIDE DEF S, m
  <2> QED BY <1>1, <1>2, <2>1
<1>4. Max(S) = m
  <2> HIDE DEF S, m
  <2> QED BY <1>2, <1>3 DEF Max
<1>5. Retained(s) = SubSeq(s, m, Len(s))
  BY <1>4 DEF Retained
<1>6. CASE Len(s) <= Scrollback
  <2>1. Retained(s) = s
    BY <1>5, <1>6
  <2> QED BY <1>1, <1>6, <2>1
<1>7. CASE ~(Len(s) <= Scrollback)
  <2>1. Retained(s) = SubSeq(s, Len(s) - Scrollback + 1, Len(s))
    BY <1>5, <1>7
  <2>2. Len(s) - Scrollback + 1 \in 1..Len(s)
    BY <1>1, <1>7
  <2> QED BY <1>1, <1>7, <2>1, <2>2
<1> QED
  BY <1>6, <1>7

LEMMA RetainedShort ==
    ASSUME NEW T, NEW s \in Seq(T), Len(s) <= Scrollback
    PROVE  Retained(s) = s
<1>1. /\ Retained(s) \in Seq(T) /\ Len(Retained(s)) = Len(s) /\ Len(s) \in Nat
      /\ \A i \in 1..Len(s) : Retained(s)[i] = s[Len(s) - Len(s) + i]
  BY RetainedOf
<1>2. \A i \in 1..Len(s) : Len(s) - Len(s) + i = i
  BY <1>1
<1>3. \A i \in 1..Len(s) : Retained(s)[i] = s[i]
  BY <1>1, <1>2
<1> QED
  BY <1>1, <1>3, SeqEqual

\* Saving what the terminal shows and showing it again makes no difference.
LEMMA RetainedTwice ==
    ASSUME NEW T, NEW s \in Seq(T)
    PROVE  Retained(Retained(s)) = Retained(s)
<1>1. Retained(s) \in Seq(T) /\ Len(Retained(s)) <= Scrollback
  BY RetainedOf, ControllerBounds
<1> QED
  BY <1>1, RetainedShort

\* A piece may be appended to what is retained as well as to the output.
LEMMA RetainedAppend ==
    ASSUME NEW T, NEW s \in Seq(T), NEW x \in T
    PROVE  Retained(Append(Retained(s), x)) = Retained(Append(s, x))
<1> USE ControllerBounds
<1> DEFINE w == Retained(s)
           c == Append(w, x)
           d == Append(s, x)
           a == Retained(c)
           b == Retained(d)
<1>1. /\ w \in Seq(T) /\ Len(w) = IF Len(s) <= Scrollback THEN Len(s) ELSE Scrollback
      /\ \A i \in 1..Len(w) : w[i] = s[Len(s) - Len(w) + i]
  BY RetainedOf
<1> HIDE DEF w
<1>2. /\ c \in Seq(T) /\ Len(c) = Len(w) + 1 /\ c[Len(w) + 1] = x
      /\ \A i \in 1..Len(w) : c[i] = w[i]
      /\ d \in Seq(T) /\ Len(d) = Len(s) + 1 /\ d[Len(s) + 1] = x
      /\ \A i \in 1..Len(s) : d[i] = s[i]
  BY <1>1
<1>3. Len(s) \in Nat /\ Len(w) \in Nat /\ Scrollback \in Nat /\ Scrollback >= 1
  BY <1>1
<1> HIDE DEF c, d
<1>4. /\ a \in Seq(T) /\ Len(a) = IF Len(c) <= Scrollback THEN Len(c) ELSE Scrollback
      /\ \A i \in 1..Len(a) : a[i] = c[Len(c) - Len(a) + i]
  BY <1>2, RetainedOf
<1>5. /\ b \in Seq(T) /\ Len(b) = IF Len(d) <= Scrollback THEN Len(d) ELSE Scrollback
      /\ \A i \in 1..Len(b) : b[i] = d[Len(d) - Len(b) + i]
  BY <1>2, RetainedOf
<1> HIDE DEF a, b
<1>6. Len(a) = Len(b) /\ Len(a) \in Nat /\ Len(a) >= 1
  BY <1>1, <1>2, <1>3, <1>4, <1>5
<1>7. ASSUME NEW i \in 1..Len(a) PROVE a[i] = b[i]
  <2> DEFINE j == Len(c) - Len(a) + i
             k == Len(d) - Len(b) + i
             lc == Len(c)
             ld == Len(d)
             ls == Len(s)
             lw == Len(w)
             la == Len(a)
  <2>1. /\ j = lc - la + i /\ k = ld - la + i /\ i \in 1..la /\ la \in Nat
        /\ lc = lw + 1 /\ ld = ls + 1 /\ ls \in Nat /\ lw \in Nat /\ lw <= ls
        /\ la <= lc
    <3>1. lw <= ls
      BY <1>1, <1>3
    <3>2. la <= lc
      BY <1>2, <1>3, <1>4
    <3>3. k = ld - la + i
      BY <1>6
    <3> QED BY <1>2, <1>3, <1>6, <3>1, <3>2, <3>3
  <2>2. j \in 1..lc /\ k \in 1..ld /\ lc - j = ld - k
    <3> HIDE DEF j, k, lc, ld, ls, lw, la
    <3> QED BY ONLY <2>1
  <2>3. a[i] = c[j] /\ b[i] = d[k]
    BY <1>4, <1>5, <1>6
  <2> HIDE DEF j, k
  <2>4. CASE j = Len(c)
    BY <1>2, <1>3, <2>2, <2>3, <2>4
  <2>5. CASE j # Len(c)
    <3>1. j \in 1..lw /\ k \in 1..ls /\ k = ls - lw + j
      <4>1. j # lc
        BY <2>5
      <4> HIDE DEF lc, ld, ls, lw, la
      <4> QED BY ONLY <2>1, <2>2, <4>1
    <3> QED BY <1>1, <1>2, <2>3, <3>1
  <2> QED BY <2>4, <2>5
<1>8. a = b
  BY <1>4, <1>5, <1>6, <1>7, SeqEqual
<1> QED
  BY <1>8 DEF a, b, c, d, w

-----------------------------------------------------------------------------
\* Tabs taken out, put in and changed in place.

LEMMA TabsDiffer ==
    ASSUME NEW tabs, NEW next, NEW h, TabsOK(tabs, next, h),
           NEW i \in DOMAIN tabs, NEW j \in DOMAIN tabs, tabs[i].id = tabs[j].id
    PROVE  i = j
BY DEF TabsOK, Differ

LEMMA RemovedTabs ==
    ASSUME NEW tabs, NEW next, NEW h, TabsOK(tabs, next, h), NEW i \in DOMAIN tabs
    PROVE  /\ TabsOK(RemoveAt(tabs, i), next, h)
           /\ ToSet(RemoveAt(tabs, i)) = ToSet(tabs) \ {tabs[i]}
<1> DEFINE rest == RemoveAt(tabs, i)
           n == Len(tabs)
           from(k) == IF k < i THEN k ELSE k + 1
<1>1. tabs \in Seq(Tab) /\ n \in Nat /\ DOMAIN tabs = 1..n /\ i \in 1..n
  BY DEF TabsOK
<1>2. /\ rest \in Seq(Tab) /\ Len(rest) = n - 1
      /\ \A k \in 1..(n - 1) : rest[k] = IF k < i THEN tabs[k] ELSE tabs[k + 1]
  <2>1. tabs \in Seq(Tab) /\ i \in 1..Len(tabs)
    BY <1>1
  <2> QED BY ONLY <2>1, RemoveAtOf
<1>3. DOMAIN rest = 1..(n - 1)
  BY <1>2
<1> HIDE DEF rest, n
<1>4. ASSUME NEW k \in DOMAIN rest
      PROVE  from(k) \in DOMAIN tabs /\ from(k) # i /\ rest[k] = tabs[from(k)]
  BY <1>1, <1>2, <1>3
<1>5. \A k, l \in DOMAIN rest : k < l => from(k) < from(l)
  BY <1>1, <1>3
<1>6. \A k, l \in DOMAIN rest : k # l => from(k) # from(l)
  BY <1>1, <1>3
<1>7. \A j \in DOMAIN tabs : j # i => \E k \in DOMAIN rest : from(k) = j
  <2> SUFFICES ASSUME NEW j \in DOMAIN tabs, j # i PROVE \E k \in DOMAIN rest : from(k) = j
    OBVIOUS
  <2>1. CASE j < i
    BY <1>1, <1>3, <2>1
  <2>2. CASE ~(j < i)
    <3>1. j - 1 \in DOMAIN rest /\ from(j - 1) = j
      BY <1>1, <1>3, <2>2
    <3> QED BY <3>1
  <2> QED BY <2>1, <2>2
<1> HIDE DEF from
<1>8. \A k \in DOMAIN rest : TabOK(rest[k], next, h)
  BY <1>4 DEF TabsOK
<1>9. PinnedInFront(rest)
  <2>1. PinnedInFront(tabs)
    BY DEF TabsOK
  <2> QED BY <1>4, <1>5, <2>1 DEF PinnedInFront
<1>10. \A k, l \in DOMAIN rest : k # l => Differ(rest[k], rest[l])
  <2>1. \A k, l \in DOMAIN tabs : k # l => Differ(tabs[k], tabs[l])
    BY DEF TabsOK
  <2> QED BY <1>4, <1>6, <2>1
<1>11. TabsOK(rest, next, h)
  BY <1>2, <1>8, <1>9, <1>10 DEF TabsOK
<1>12. ASSUME NEW j \in DOMAIN tabs, j # i PROVE tabs[j] # tabs[i]
  BY <1>12, TabsDiffer
<1>13. ToSet(rest) = ToSet(tabs) \ {tabs[i]}
  <2>1. \A x \in ToSet(rest) : x \in ToSet(tabs) /\ x # tabs[i]
    BY <1>4, <1>12 DEF ToSet
  <2>2. \A x \in ToSet(tabs) : x # tabs[i] => x \in ToSet(rest)
    BY <1>4, <1>7 DEF ToSet
  <2> QED BY <2>1, <2>2
<1> QED
  BY <1>11, <1>13 DEF rest

LEMMA InsertedTabs ==
    ASSUME NEW tabs, NEW next, NEW h, TabsOK(tabs, next, h),
           NEW place \in 1..(Len(tabs) + 1), NEW e, TabOK(e, next, h),
           \A t \in ToSet(tabs) : Differ(t, e),
           e.pinned => \A k \in DOMAIN tabs : k < place => tabs[k].pinned,
           ~e.pinned => \A k \in DOMAIN tabs : k >= place => ~tabs[k].pinned
    PROVE  /\ TabsOK(InsertAt(tabs, place, e), next, h)
           /\ ToSet(InsertAt(tabs, place, e)) = ToSet(tabs) \cup {e}
           /\ Len(InsertAt(tabs, place, e)) = Len(tabs) + 1
<1> DEFINE new == InsertAt(tabs, place, e)
           n == Len(tabs)
           from(k) == IF k < place THEN k ELSE k - 1
<1>1. tabs \in Seq(Tab) /\ n \in Nat /\ DOMAIN tabs = 1..n /\ place \in 1..(n + 1)
  BY DEF TabsOK
<1>2. e \in Tab
  BY DEF TabOK
<1>3. /\ new \in Seq(Tab) /\ Len(new) = n + 1
      /\ \A k \in 1..(n + 1) :
            new[k] = IF k < place THEN tabs[k] ELSE IF k = place THEN e ELSE tabs[k - 1]
  BY <1>1, <1>2, InsertAtOf
<1>4. DOMAIN new = 1..(n + 1)
  BY <1>3
<1> HIDE DEF new, n
<1>5. new[place] = e /\ place \in DOMAIN new
  BY <1>1, <1>3, <1>4
<1>6. ASSUME NEW k \in DOMAIN new, k # place
      PROVE  from(k) \in DOMAIN tabs /\ new[k] = tabs[from(k)]
  BY <1>1, <1>3, <1>4, <1>6
<1>7. \A k, l \in DOMAIN new : k # place /\ l # place /\ k < l => from(k) < from(l)
  BY <1>1, <1>4
<1>8. \A k, l \in DOMAIN new : k # place /\ l # place /\ k # l => from(k) # from(l)
  BY <1>1, <1>4
<1>9. \A k \in DOMAIN new : (k < place => from(k) < place) /\ (k > place => from(k) >= place)
  BY <1>1, <1>4
<1>10. \A j \in DOMAIN tabs : \E k \in DOMAIN new : k # place /\ from(k) = j
  <2> SUFFICES ASSUME NEW j \in DOMAIN tabs
               PROVE  \E k \in DOMAIN new : k # place /\ from(k) = j
    OBVIOUS
  <2>1. CASE j < place
    BY <1>1, <1>4, <2>1
  <2>2. CASE ~(j < place)
    <3>1. j + 1 \in DOMAIN new /\ j + 1 # place /\ from(j + 1) = j
      BY <1>1, <1>4, <2>2
    <3> QED BY <3>1
  <2> QED BY <2>1, <2>2
<1> HIDE DEF from
<1>11. \A k \in DOMAIN new : k # place => new[k] \in ToSet(tabs)
  BY <1>6 DEF ToSet
<1>12. \A k \in DOMAIN new : TabOK(new[k], next, h)
  BY <1>5, <1>6 DEF TabsOK
<1>13. PinnedInFront(new)
  <2>1. PinnedInFront(tabs)
    BY DEF TabsOK
  <2> SUFFICES ASSUME NEW k \in DOMAIN new, NEW l \in DOMAIN new, k < l, new[l].pinned
               PROVE  new[k].pinned
    BY DEF PinnedInFront
  <2>2. CASE k # place /\ l # place
    BY <1>6, <1>7, <2>1, <2>2 DEF PinnedInFront
  <2>3. CASE l = place
    <3>1. k # place
      BY <1>1, <1>4, <2>3
    <3> QED BY <1>5, <1>6, <1>9, <2>3, <3>1
  <2>4. CASE k = place
    <3>1. l # place /\ l > place
      BY <1>1, <1>4, <2>4
    <3>2. from(l) \in DOMAIN tabs /\ tabs[from(l)].pinned /\ from(l) >= place
      BY <1>6, <1>9, <3>1
    <3>3. e.pinned
      BY <3>2
    <3> QED BY <1>5, <2>4, <3>3
  <2> QED BY <2>2, <2>3, <2>4
<1>14. \A k, l \in DOMAIN new : k # l => Differ(new[k], new[l])
  <2>1. \A k, l \in DOMAIN tabs : k # l => Differ(tabs[k], tabs[l])
    BY DEF TabsOK
  <2>2. \A a, b : Differ(a, b) => Differ(b, a)
    BY DEF Differ
  <2> SUFFICES ASSUME NEW k \in DOMAIN new, NEW l \in DOMAIN new, k # l
               PROVE  Differ(new[k], new[l])
    OBVIOUS
  <2>3. CASE k # place /\ l # place
    BY <1>6, <1>8, <2>1, <2>3
  <2>4. CASE k = place
    BY <1>5, <1>11, <2>2, <2>4
  <2>5. CASE l = place
    BY <1>5, <1>11, <2>5
  <2> QED BY <2>3, <2>4, <2>5
<1>15. TabsOK(new, next, h)
  BY <1>3, <1>12, <1>13, <1>14 DEF TabsOK
<1>16. ToSet(new) = ToSet(tabs) \cup {e}
  <2>1. \A x \in ToSet(new) : x \in ToSet(tabs) \/ x = e
    BY <1>5, <1>11 DEF ToSet
  <2>2. \A x \in ToSet(tabs) : x \in ToSet(new)
    BY <1>6, <1>10 DEF ToSet
  <2>3. e \in ToSet(new)
    BY <1>5 DEF ToSet
  <2> QED BY <2>1, <2>2, <2>3
<1> QED
  BY <1>3, <1>15, <1>16 DEF new, n

\* Tabs that change in place keep their identities and their order.
InPlace(old, new) ==
    /\ Len(new) = Len(old)
    /\ \A i \in DOMAIN old :
          /\ new[i].id = old[i].id /\ new[i].profile = old[i].profile
          /\ new[i].instance = old[i].instance /\ new[i].pinned = old[i].pinned

LEMMA ChangedTabs ==
    ASSUME NEW tabs, NEW next, NEW h, TabsOK(tabs, next, h),
           NEW new \in Seq(Tab), InPlace(tabs, new),
           \A i \in DOMAIN new : TabOK(new[i], next, h)
    PROVE  TabsOK(new, next, h)
<1>1. DOMAIN new = DOMAIN tabs
  BY DEF InPlace, TabsOK
<1>2. PinnedInFront(new)
  BY <1>1 DEF InPlace, TabsOK, PinnedInFront
<1>3. \A i, j \in DOMAIN new : i # j => Differ(new[i], new[j])
  BY <1>1 DEF InPlace, TabsOK, Differ
<1> QED
  BY <1>2, <1>3 DEF TabsOK

-----------------------------------------------------------------------------
\* Workspaces.

LEMMA WorkspaceFacts ==
    ASSUME NEW w, NEW h, WorkspaceOK(w, h)
    PROVE  /\ w \in Workspace /\ TabsOK(w.tabs, w.next, h) /\ w.next \in Nat
           /\ w.tabs \in Seq(Tab) /\ Len(w.tabs) \in Nat /\ DOMAIN w.tabs = 1..Len(w.tabs)
           /\ w.active \in Nat /\ (w.active = 0 <=> w.tabs = <<>>)
           /\ w.active # 0 <=> w.active \in DOMAIN w.tabs
           /\ \A i \in DOMAIN w.tabs : TabOK(w.tabs[i], w.next, h) /\ w.tabs[i] \in Tab
<1>1. w \in Workspace /\ TabsOK(w.tabs, w.next, h) /\ w.next \in Nat /\ w.tabs \in Seq(Tab)
  BY DEF WorkspaceOK, TabsOK, Workspace
<1>2. \A i \in DOMAIN w.tabs : TabOK(w.tabs[i], w.next, h) /\ w.tabs[i] \in Tab
  BY DEF WorkspaceOK, TabsOK, TabOK
<1>3. /\ Len(w.tabs) \in Nat /\ DOMAIN w.tabs = 1..Len(w.tabs)
      /\ w.active \in 0..Len(w.tabs) /\ (w.active = 0 <=> w.tabs = <<>>)
  BY <1>1 DEF WorkspaceOK
<1>4. w.active \in Nat /\ (w.active # 0 <=> w.active \in DOMAIN w.tabs)
  BY <1>3
<1> QED
  BY <1>1, <1>2, <1>3, <1>4

LEMMA IndexOfTab ==
    ASSUME NEW w, NEW h, WorkspaceOK(w, h), NEW id \in IDs(w)
    PROVE  /\ IndexOf(w, id) \in DOMAIN w.tabs /\ w.tabs[IndexOf(w, id)].id = id
           /\ \A i \in DOMAIN w.tabs : w.tabs[i].id = id => i = IndexOf(w, id)
<1>1. IndexOf(w, id) \in DOMAIN w.tabs /\ w.tabs[IndexOf(w, id)].id = id
  BY DEF IndexOf, IDs
<1>2. TabsOK(w.tabs, w.next, h)
  BY WorkspaceFacts
<1> QED
  BY <1>1, <1>2, TabsDiffer

LEMMA ActiveTab ==
    ASSUME NEW w, NEW h, WorkspaceOK(w, h)
    PROVE  /\ w.active # 0 => /\ ActiveID(w) = w.tabs[w.active].id /\ ActiveID(w) \in IDs(w)
                              /\ IndexOf(w, ActiveID(w)) = w.active
           /\ w.active = 0 => ActiveID(w) = 0 /\ IDs(w) = {}
           /\ 0 \notin IDs(w) /\ IDs(w) \subseteq 1..w.next
<1>1. ASSUME w.active # 0
      PROVE  /\ ActiveID(w) = w.tabs[w.active].id /\ ActiveID(w) \in IDs(w)
             /\ IndexOf(w, ActiveID(w)) = w.active
  <2>1. w.active \in DOMAIN w.tabs
    BY <1>1, WorkspaceFacts
  <2>2. ActiveID(w) = w.tabs[w.active].id /\ ActiveID(w) \in IDs(w)
    BY <2>1 DEF ActiveID, IDs
  <2> DEFINE id == ActiveID(w)
  <2>3. id \in IDs(w) /\ w.tabs[w.active].id = id
    BY <2>2
  <2>4. w.active = IndexOf(w, id)
    <3> HIDE DEF id
    <3> QED BY <2>1, <2>3, IndexOfTab
  <2> QED BY <1>1, <2>2, <2>4
<1>2. ASSUME w.active = 0 PROVE ActiveID(w) = 0 /\ IDs(w) = {}
  <2>1. w.tabs = <<>> /\ w.active \notin DOMAIN w.tabs
    BY <1>2, WorkspaceFacts
  <2>2. DOMAIN w.tabs = {}
    BY <2>1
  <2> QED BY <1>2, <2>1, <2>2 DEF ActiveID, IDs
<1>3. \A i \in DOMAIN w.tabs : w.tabs[i].id \in 1..w.next
  BY WorkspaceFacts DEF TabOK
<1>4. IDs(w) \subseteq 1..w.next
  BY <1>3 DEF IDs
<1> QED
  BY <1>1, <1>2, <1>4

\* A workspace whose tabs change in place.
Changed(w, u) ==
    /\ u \in Workspace /\ u.active = w.active /\ u.next = w.next /\ u.closed = w.closed
    /\ InPlace(w.tabs, u.tabs)

Alike(w, u) ==
    /\ Changed(w, u)
    /\ \A i \in DOMAIN w.tabs : u.tabs[i].status = w.tabs[i].status /\ u.tabs[i].run = w.tabs[i].run

\* Every tab of u is one of w, changed perhaps in what the tools do not read.
Descends(w, u) ==
    \A i \in DOMAIN u.tabs : \E j \in DOMAIN w.tabs :
        u.tabs[i].id = w.tabs[j].id /\ u.tabs[i].profile = w.tabs[j].profile

LEMMA ChangedWorkspace ==
    ASSUME NEW w, NEW h, WorkspaceOK(w, h), NEW u, Changed(w, u),
           \A i \in DOMAIN u.tabs : TabOK(u.tabs[i], u.next, h)
    PROVE  /\ WorkspaceOK(u, h) /\ DOMAIN u.tabs = DOMAIN w.tabs
           /\ IDs(u) = IDs(w) /\ ActiveID(u) = ActiveID(w) /\ Descends(w, u)
           /\ \A id : IndexOf(u, id) = IndexOf(w, id)
           /\ \A line : Typed(w, h, line) => Typed(u, h, line)
<1>1. /\ u \in Workspace /\ u.tabs \in Seq(Tab) /\ u.active = w.active /\ u.next = w.next
      /\ u.closed = w.closed /\ InPlace(w.tabs, u.tabs)
  BY DEF Changed, Workspace
<1>2. w.tabs \in Seq(Tab) /\ TabsOK(w.tabs, w.next, h)
  BY WorkspaceFacts
<1>3. Len(u.tabs) = Len(w.tabs)
  BY <1>1 DEF InPlace
<1>4. DOMAIN u.tabs = DOMAIN w.tabs
  BY <1>1, <1>2, <1>3
<1>5. \A i \in DOMAIN w.tabs : u.tabs[i].id = w.tabs[i].id /\ u.tabs[i].profile = w.tabs[i].profile
  BY <1>1 DEF InPlace
<1>6. TabsOK(u.tabs, u.next, h)
  BY <1>1, <1>2, ChangedTabs
<1>7. u.tabs = <<>> <=> w.tabs = <<>>
  BY <1>1, <1>2, <1>3
<1>8. WorkspaceOK(u, h)
  BY <1>1, <1>3, <1>6, <1>7 DEF WorkspaceOK
<1>9. IDs(u) = IDs(w)
  BY <1>4, <1>5 DEF IDs
<1>10. ActiveID(u) = ActiveID(w)
  BY <1>1, <1>4, <1>5 DEF ActiveID
<1>11. Descends(w, u)
  BY <1>4, <1>5 DEF Descends
<1>12. ASSUME NEW id PROVE IndexOf(u, id) = IndexOf(w, id)
  BY <1>4, <1>5 DEF IndexOf
<1>13. ASSUME NEW line, Typed(w, h, line) PROVE Typed(u, h, line)
  <2>1. CASE w.active = 0
    BY <1>1, <1>13, <2>1 DEF Typed
  <2>2. CASE w.active # 0
    <3>1. w.active \in DOMAIN w.tabs
      BY <2>2, WorkspaceFacts
    <3>2. line \in Nat /\ OwnIn(h, w.tabs[w.active], line)
      BY <1>13, <2>2 DEF Typed
    <3>3. OwnIn(h, u.tabs[u.active], line)
      BY <1>1, <1>5, <3>1, <3>2 DEF OwnIn
    <3> QED BY <1>1, <2>2, <3>2, <3>3 DEF Typed
  <2> QED BY <2>1, <2>2
<1> QED
  BY <1>4, <1>8, <1>9, <1>10, <1>11, <1>12, <1>13

LEMMA AlikeRuns ==
    ASSUME NEW w, NEW h, WorkspaceOK(w, h), NEW u, Alike(w, u)
    PROVE  Running(u) = Running(w) /\ Strip(u) = Strip(w)
<1>1. u.tabs \in Seq(Tab) /\ InPlace(w.tabs, u.tabs)
  BY DEF Alike, Changed, Workspace
<1>2. w.tabs \in Seq(Tab)
  BY WorkspaceFacts
<1>3. DOMAIN u.tabs = DOMAIN w.tabs
  BY <1>1, <1>2 DEF InPlace
<1>4. \A i \in DOMAIN w.tabs :
          /\ u.tabs[i].id = w.tabs[i].id /\ u.tabs[i].pinned = w.tabs[i].pinned
          /\ u.tabs[i].status = w.tabs[i].status /\ u.tabs[i].run = w.tabs[i].run
  BY <1>1 DEF Alike, InPlace
<1>5. Strip(u) = Strip(w)
  BY <1>3, <1>4 DEF Strip
<1>6. Running(u) = Running(w)
  BY <1>3, <1>4 DEF Running, ToSet
<1> QED
  BY <1>5, <1>6

LEMMA AlikeTrans ==
    ASSUME NEW w, NEW h, WorkspaceOK(w, h), NEW u, NEW x, Alike(w, u), Alike(u, x)
    PROVE  Alike(w, x)
<1>1. w.tabs \in Seq(Tab) /\ u.tabs \in Seq(Tab)
  BY WorkspaceFacts DEF Alike, Changed, Workspace
<1>2. DOMAIN u.tabs = DOMAIN w.tabs
  BY <1>1 DEF Alike, Changed, InPlace
<1> QED
  BY <1>2 DEF Alike, Changed, InPlace

\* One tab changes.
LEMMA OneTab ==
    ASSUME NEW w, NEW h, WorkspaceOK(w, h), NEW i \in DOMAIN w.tabs, NEW t,
           TabOK(t, w.next, h), t.id = w.tabs[i].id, t.profile = w.tabs[i].profile,
           t.instance = w.tabs[i].instance, t.pinned = w.tabs[i].pinned,
           NEW u, u = [w EXCEPT !.tabs = [w.tabs EXCEPT ![i] = t]]
    PROVE  /\ WorkspaceOK(u, h) /\ Changed(w, u) /\ u.tabs[i] = t
           /\ \A j \in DOMAIN w.tabs : j # i => u.tabs[j] = w.tabs[j]
<1>1. w \in Workspace /\ w.tabs \in Seq(Tab) /\ t \in Tab
  BY WorkspaceFacts DEF TabOK
<1> DEFINE new == [w.tabs EXCEPT ![i] = t]
<1>2. new \in Seq(Tab) /\ DOMAIN new = DOMAIN w.tabs /\ Len(new) = Len(w.tabs)
  BY <1>1
<1>3. new[i] = t /\ \A j \in DOMAIN w.tabs : j # i => new[j] = w.tabs[j]
  BY <1>1
<1> HIDE DEF new
<1>4. /\ u \in Workspace /\ u.tabs = new /\ u.active = w.active /\ u.next = w.next
      /\ u.closed = w.closed
  BY <1>1, <1>2 DEF new, Workspace
<1>5. InPlace(w.tabs, new)
  BY <1>2, <1>3 DEF InPlace
<1>6. Changed(w, u)
  BY <1>4, <1>5 DEF Changed
<1>7. \A j \in DOMAIN new : TabOK(new[j], w.next, h)
  BY <1>2, <1>3, WorkspaceFacts
<1>8. WorkspaceOK(u, h)
  BY <1>4, <1>6, <1>7, ChangedWorkspace
<1> QED
  BY <1>3, <1>4, <1>6, <1>8


LEMMA AlikeSelf ==
    ASSUME NEW w, NEW h, WorkspaceOK(w, h)
    PROVE  Alike(w, w)
<1>1. w \in Workspace /\ Len(w.tabs) = Len(w.tabs)
  BY WorkspaceFacts
<1> QED
  BY <1>1 DEF Alike, Changed, InPlace

\* Saving a line of the tab as its draft.
LEMMA DraftSaved ==
    ASSUME NEW w, NEW h, WorkspaceOK(w, h), NEW line, Typed(w, h, line)
    PROVE  /\ WorkspaceOK(SetActiveDraft(w, line), h) /\ Alike(w, SetActiveDraft(w, line))
           /\ Shown(SetActiveDraft(w, line)) = Shown(w)
<1> DEFINE a == w.active
           t == [w.tabs[a] EXCEPT !.draft = line]
           u == SetActiveDraft(w, line)
<1>1. CASE a = 0
  <2>1. a \notin DOMAIN w.tabs
    BY <1>1, WorkspaceFacts
  <2>2. u = w
    BY <2>1 DEF SetActiveDraft
  <2> QED BY <2>2, AlikeSelf
<1>2. CASE a # 0
  <2>1. a \in DOMAIN w.tabs
    BY <1>2, WorkspaceFacts
  <2>2. line \in Nat /\ OwnIn(h, w.tabs[a], line)
    BY <1>2 DEF Typed
  <2>3. w.tabs[a] \in Tab /\ TabOK(w.tabs[a], w.next, h)
    BY <2>1, WorkspaceFacts
  <2>4. /\ t \in Tab /\ t.id = w.tabs[a].id /\ t.profile = w.tabs[a].profile
        /\ t.instance = w.tabs[a].instance /\ t.pinned = w.tabs[a].pinned
        /\ t.status = w.tabs[a].status /\ t.run = w.tabs[a].run
        /\ t.output = w.tabs[a].output /\ t.draft = line
    BY <2>2, <2>3 DEF Tab
  <2>5. w \in Workspace /\ w.tabs \in Seq(Tab)
    BY WorkspaceFacts
  <2>6. u = [w EXCEPT !.tabs = [w.tabs EXCEPT ![a] = t]]
    BY <2>1, <2>5 DEF SetActiveDraft, Workspace
  <2> HIDE DEF t, u
  <2>7. TabOK(t, w.next, h)
    BY <2>2, <2>3, <2>4 DEF TabOK, OwnIn
  <2>8. /\ WorkspaceOK(u, h) /\ Changed(w, u) /\ u.tabs[a] = t
        /\ \A j \in DOMAIN w.tabs : j # a => u.tabs[j] = w.tabs[j]
    BY <2>1, <2>4, <2>6, <2>7, OneTab
  <2>9. Alike(w, u)
    BY <2>4, <2>8 DEF Alike
  <2>10. Shown(u) = Shown(w)
    BY <2>4, <2>8 DEF Shown, Changed
  <2> QED BY <2>8, <2>9, <2>10 DEF u
<1> QED
  BY <1>1, <1>2

\* Saving the text of the terminal.
LEMMA OutputSaved ==
    ASSUME NEW w, NEW h, WorkspaceOK(w, h), NEW output \in Seq(Piece),
           w.active # 0 => \A n \in DOMAIN output : output[n].tab = w.tabs[w.active].id
    PROVE  /\ WorkspaceOK(SetActiveOutput(w, output), h) /\ Alike(w, SetActiveOutput(w, output))
           /\ Shown(SetActiveOutput(w, output)) =
                 IF w.active = 0 THEN <<>> ELSE Retained(output)
<1> DEFINE a == w.active
           t == [w.tabs[a] EXCEPT !.output = output]
           u == SetActiveOutput(w, output)
<1>1. CASE a = 0
  <2>1. a \notin DOMAIN w.tabs
    BY <1>1, WorkspaceFacts
  <2>2. u = w
    BY <2>1 DEF SetActiveOutput
  <2> QED BY <1>1, <2>2, AlikeSelf DEF Shown
<1>2. CASE a # 0
  <2>1. a \in DOMAIN w.tabs
    BY <1>2, WorkspaceFacts
  <2>2. w.tabs[a] \in Tab /\ TabOK(w.tabs[a], w.next, h)
    BY <2>1, WorkspaceFacts
  <2>3. /\ t \in Tab /\ t.id = w.tabs[a].id /\ t.profile = w.tabs[a].profile
        /\ t.instance = w.tabs[a].instance /\ t.pinned = w.tabs[a].pinned
        /\ t.status = w.tabs[a].status /\ t.run = w.tabs[a].run
        /\ t.output = output /\ t.draft = w.tabs[a].draft
    BY <2>2 DEF Tab
  <2>4. w \in Workspace /\ w.tabs \in Seq(Tab)
    BY WorkspaceFacts
  <2>5. u = [w EXCEPT !.tabs = [w.tabs EXCEPT ![a] = t]]
    BY <2>1, <2>4 DEF SetActiveOutput, Workspace
  <2> HIDE DEF t, u
  <2>6. TabOK(t, w.next, h)
    BY <1>2, <2>2, <2>3 DEF TabOK, OwnIn
  <2>7. /\ WorkspaceOK(u, h) /\ Changed(w, u) /\ u.tabs[a] = t
        /\ \A j \in DOMAIN w.tabs : j # a => u.tabs[j] = w.tabs[j]
    BY <2>1, <2>3, <2>5, <2>6, OneTab
  <2>8. Alike(w, u)
    BY <2>3, <2>7 DEF Alike
  <2>9. Shown(u) = Retained(output)
    BY <1>2, <2>3, <2>7 DEF Shown, Changed
  <2> QED BY <1>2, <2>7, <2>8, <2>9 DEF u
<1> QED
  BY <1>1, <1>2

\* A piece of output for one of the tabs.
LEMMA OutputAppended ==
    ASSUME NEW w, NEW h, WorkspaceOK(w, h), NEW id \in IDs(w), NEW hit \in BOOLEAN,
           NEW piece, piece = [tab |-> id, hit |-> hit]
    PROVE  /\ WorkspaceOK(AppendOutput(w, id, piece), h) /\ Alike(w, AppendOutput(w, id, piece))
           /\ Shown(AppendOutput(w, id, piece)) =
                 IF id = ActiveID(w) THEN Retained(Append(Shown(w), piece)) ELSE Shown(w)
<1> DEFINE a == IndexOf(w, id)
           output == w.tabs[a].output
           t == [w.tabs[a] EXCEPT !.output = Append(output, piece)]
           u == AppendOutput(w, id, piece)
<1>1. a \in DOMAIN w.tabs /\ w.tabs[a].id = id
  BY IndexOfTab
<1>2. w.tabs[a] \in Tab /\ TabOK(w.tabs[a], w.next, h) /\ id \in Nat
  <2>1. w.tabs[a] \in Tab /\ TabOK(w.tabs[a], w.next, h)
    BY <1>1, WorkspaceFacts
  <2> QED BY <1>1, <2>1 DEF Tab
<1>3. piece \in Piece /\ piece.tab = id
  BY <1>2 DEF Piece
<1>4. output \in Seq(Piece) /\ \A n \in DOMAIN output : output[n].tab = id
  BY <1>1, <1>2 DEF Tab, TabOK
<1>5. /\ Append(output, piece) \in Seq(Piece)
      /\ \A n \in DOMAIN Append(output, piece) : Append(output, piece)[n].tab = id
  <2> HIDE DEF output
  <2> QED BY <1>3, <1>4
<1>6. /\ t \in Tab /\ t.id = w.tabs[a].id /\ t.profile = w.tabs[a].profile
      /\ t.instance = w.tabs[a].instance /\ t.pinned = w.tabs[a].pinned
      /\ t.status = w.tabs[a].status /\ t.run = w.tabs[a].run
      /\ t.output = Append(output, piece) /\ t.draft = w.tabs[a].draft
  <2> HIDE DEF output
  <2> QED BY <1>2, <1>5 DEF Tab
<1>7. w \in Workspace /\ w.tabs \in Seq(Tab)
  BY WorkspaceFacts
<1>8. u = [w EXCEPT !.tabs = [w.tabs EXCEPT ![a] = t]]
  BY <1>1, <1>2, <1>7 DEF AppendOutput, Workspace, Tab
<1> HIDE DEF t, u, a, output
<1>9. TabOK(t, w.next, h)
  BY <1>1, <1>2, <1>5, <1>6 DEF TabOK, OwnIn
<1>10. /\ WorkspaceOK(u, h) /\ Changed(w, u) /\ u.tabs[a] = t
       /\ \A j \in DOMAIN w.tabs : j # a => u.tabs[j] = w.tabs[j]
  BY <1>1, <1>6, <1>8, <1>9, OneTab
<1>11. Alike(w, u)
  BY <1>6, <1>10 DEF Alike
<1>12. CASE id = ActiveID(w)
  <2>1. w.active # 0 /\ w.active = a
    BY <1>12, ActiveTab DEF a
  <2>2. Shown(u) = Retained(Append(output, piece)) /\ Shown(w) = Retained(output)
    BY <1>6, <1>10, <2>1 DEF Shown, Changed, output
  <2>3. Retained(Append(Retained(output), piece)) = Retained(Append(output, piece))
    BY <1>3, <1>4, RetainedAppend
  <2> QED BY <1>10, <1>11, <1>12, <2>2, <2>3 DEF u
<1>13. CASE id # ActiveID(w)
  <2>1. w.active # 0 => w.active \in DOMAIN w.tabs /\ w.active # a
    BY <1>1, <1>13, ActiveTab, WorkspaceFacts
  <2>2. Shown(u) = Shown(w)
    BY <1>10, <2>1 DEF Shown, Changed
  <2> QED BY <1>10, <1>11, <1>13, <2>2 DEF u
<1> QED
  BY <1>12, <1>13

\* BeginRun, with the command kept as the tab's draft.
LEMMA RunBegun ==
    ASSUME NEW w, NEW h, WorkspaceOK(w, h), CanBeginRun(w), NEW run \in Nat,
           NEW u, u = SetActiveDraft(BeginRun(w, run), ActiveID(w))
    PROVE  /\ WorkspaceOK(u, h) /\ Changed(w, u) /\ Shown(u) = Shown(w)
           /\ Running(u) = Running(w) \cup {<<ActiveID(w), run>>}
<1> DEFINE a == w.active
           old == w.tabs[a]
           t == [old EXCEPT !.status = "running", !.run = run, !.draft = old.id]
<1>1. a \in DOMAIN w.tabs /\ old.status # "running"
  BY DEF CanBeginRun
<1>2. old \in Tab /\ TabOK(old, w.next, h)
  BY <1>1, WorkspaceFacts
<1>3. ActiveID(w) = old.id
  BY <1>1 DEF ActiveID
<1>4. /\ t \in Tab /\ t.id = old.id /\ t.profile = old.profile
      /\ t.instance = old.instance /\ t.pinned = old.pinned
      /\ t.status = "running" /\ t.run = run /\ t.output = old.output /\ t.draft = old.id
  BY <1>2 DEF Tab, Statuses
<1>5. w \in Workspace /\ w.tabs \in Seq(Tab)
  BY WorkspaceFacts
<1>6. u = [w EXCEPT !.tabs = [w.tabs EXCEPT ![a] = t]]
  <2> DEFINE b == BeginRun(w, run)
             m == [old EXCEPT !.status = "running", !.run = run]
  <2>1. b = [w EXCEPT !.tabs = [w.tabs EXCEPT ![a] = m]]
    BY <1>1, <1>2, <1>5 DEF BeginRun, Workspace, Tab
  <2>2. b.active = a /\ b.tabs = [w.tabs EXCEPT ![a] = m] /\ a \in DOMAIN b.tabs
    BY <1>1, <1>5, <2>1 DEF Workspace
  <2>3. u = [b EXCEPT !.tabs[a].draft = old.id]
    BY <1>3, <2>2 DEF SetActiveDraft
  <2>4. t = [m EXCEPT !.draft = old.id]
    BY <1>2 DEF Tab
  <2> HIDE DEF m, t, b
  <2>5. [b EXCEPT !.tabs[a].draft = old.id] = [b EXCEPT !.tabs = [w.tabs EXCEPT ![a] = t]]
    BY <1>1, <1>5, <2>1, <2>2, <2>4 DEF Workspace
  <2> QED BY <1>5, <2>1, <2>3, <2>5 DEF Workspace
<1> HIDE DEF t, old
<1>7. TabOK(t, w.next, h)
  BY <1>2, <1>4 DEF TabOK, OwnIn
<1>8. /\ WorkspaceOK(u, h) /\ Changed(w, u) /\ u.tabs[a] = t
      /\ \A j \in DOMAIN w.tabs : j # a => u.tabs[j] = w.tabs[j]
  BY <1>1, <1>4, <1>6, <1>7, OneTab DEF old
<1>9. Shown(u) = Shown(w)
  BY <1>4, <1>8 DEF Shown, Changed, old
<1>10. DOMAIN u.tabs = DOMAIN w.tabs
  BY <1>5, <1>8 DEF Changed, InPlace, Workspace
<1>11. Running(u) = Running(w) \cup {<<ActiveID(w), run>>}
  <2>1. \A x \in Running(u) : x \in Running(w) \/ x = <<ActiveID(w), run>>
    BY <1>3, <1>4, <1>8, <1>10 DEF Running, ToSet
  <2>2. \A x \in Running(w) : x \in Running(u)
    BY <1>1, <1>8, <1>10 DEF Running, ToSet, old
  <2>3. <<ActiveID(w), run>> \in Running(u)
    BY <1>1, <1>3, <1>4, <1>8, <1>10 DEF Running, ToSet
  <2> QED BY <2>1, <2>2, <2>3
<1> QED
  BY <1>8, <1>9, <1>11

LEMMA RunFinished ==
    ASSUME NEW w, NEW h, WorkspaceOK(w, h), NEW run \in Nat, NEW status \in FinalStatuses,
           NEW u, u = FinishRun(w, run, status)
    PROVE  /\ WorkspaceOK(u, h) /\ Changed(w, u) /\ Shown(u) = Shown(w)
           /\ Running(u) = {x \in Running(w) : x[2] # run}
<1> DEFINE tab(i) == IF w.tabs[i].run = run /\ w.tabs[i].status = "running"
                     THEN [w.tabs[i] EXCEPT !.status = status, !.run = NoRun]
                     ELSE w.tabs[i]
           new == [i \in DOMAIN w.tabs |-> tab(i)]
<1>1. w \in Workspace /\ w.tabs \in Seq(Tab)
  BY WorkspaceFacts
<1>2. ASSUME NEW i \in DOMAIN w.tabs
      PROVE  /\ tab(i) \in Tab /\ TabOK(tab(i), w.next, h)
             /\ tab(i).id = w.tabs[i].id /\ tab(i).profile = w.tabs[i].profile
             /\ tab(i).instance = w.tabs[i].instance /\ tab(i).pinned = w.tabs[i].pinned
             /\ tab(i).output = w.tabs[i].output
             /\ tab(i).status = "running" <=> w.tabs[i].status = "running" /\ w.tabs[i].run # run
             /\ tab(i).status = "running" => tab(i).run = w.tabs[i].run
  <2>1. w.tabs[i] \in Tab /\ TabOK(w.tabs[i], w.next, h)
    BY WorkspaceFacts
  <2>2. CASE w.tabs[i].run = run /\ w.tabs[i].status = "running"
    <3> DEFINE t == [w.tabs[i] EXCEPT !.status = status, !.run = NoRun]
    <3>1. tab(i) = t
      BY <2>2
    <3>2. /\ t \in Tab /\ t.id = w.tabs[i].id /\ t.profile = w.tabs[i].profile
          /\ t.instance = w.tabs[i].instance /\ t.pinned = w.tabs[i].pinned
          /\ t.output = w.tabs[i].output /\ t.draft = w.tabs[i].draft /\ t.status = status
      BY <2>1 DEF Tab, Statuses, NoRun
    <3> HIDE DEF t, tab
    <3>3. TabOK(t, w.next, h)
      BY <2>1, <3>2 DEF TabOK, OwnIn
    <3>4. t.status # "running"
      BY <3>2 DEF FinalStatuses
    <3> QED BY <2>2, <3>1, <3>2, <3>3, <3>4
  <2>3. CASE ~(w.tabs[i].run = run /\ w.tabs[i].status = "running")
    <3>1. tab(i) = w.tabs[i]
      BY <2>3
    <3> HIDE DEF tab
    <3> QED BY <2>1, <2>3, <3>1
  <2> QED BY <2>2, <2>3
<1> HIDE DEF tab
<1>3. new \in Seq(Tab) /\ DOMAIN new = DOMAIN w.tabs /\ Len(new) = Len(w.tabs)
  BY <1>1, <1>2
<1>4. \A i \in DOMAIN w.tabs : new[i] = tab(i)
  OBVIOUS
<1>5. u = [w EXCEPT !.tabs = new]
  BY Zenon DEF FinishRun, tab
<1> HIDE DEF new
<1>6. /\ u \in Workspace /\ u.tabs = new /\ u.active = w.active /\ u.next = w.next
      /\ u.closed = w.closed
  BY <1>1, <1>3, <1>5 DEF Workspace
<1>7. Changed(w, u)
  BY <1>2, <1>3, <1>4, <1>6 DEF Changed, InPlace
<1>8. \A i \in DOMAIN u.tabs : TabOK(u.tabs[i], u.next, h)
  BY <1>2, <1>3, <1>4, <1>6
<1>9. WorkspaceOK(u, h)
  BY <1>7, <1>8, ChangedWorkspace
<1>10. Shown(u) = Shown(w)
  <2>1. w.active # 0 => w.active \in DOMAIN w.tabs
    BY WorkspaceFacts
  <2> QED BY <1>2, <1>4, <1>6, <2>1 DEF Shown
<1>11. Running(u) = {x \in Running(w) : x[2] # run}
  <2>1. \A x \in Running(u) : x \in Running(w) /\ x[2] # run
    BY <1>2, <1>3, <1>4, <1>6 DEF Running, ToSet
  <2>2. \A x \in Running(w) : x[2] # run => x \in Running(u)
    BY <1>2, <1>3, <1>4, <1>6 DEF Running, ToSet
  <2> QED BY <2>1, <2>2
<1> QED
  BY <1>7, <1>9, <1>10, <1>11


-----------------------------------------------------------------------------
\* Opening a tab.

LEMMA HigherNumbers ==
    ASSUME NEW tabs, NEW next \in Nat, NEW h, TabsOK(tabs, next, h)
    PROVE  TabsOK(tabs, next + 1, h)
<1>1. \A x \in 1..next : x \in 1..(next + 1)
  OBVIOUS
<1>2. \A i \in DOMAIN tabs : TabOK(tabs[i], next + 1, h)
  BY <1>1 DEF TabsOK, TabOK
<1> QED
  BY <1>2 DEF TabsOK

LEMMA AppendIsInsert ==
    ASSUME NEW T, NEW s \in Seq(T), NEW e \in T
    PROVE  Append(s, e) = InsertAt(s, Len(s) + 1, e)
<1> DEFINE n == Len(s)
           a == Append(s, e)
           b == InsertAt(s, n + 1, e)
<1>1. n \in Nat /\ n + 1 \in 1..(n + 1)
  OBVIOUS
<1>2. /\ a \in Seq(T) /\ Len(a) = n + 1
      /\ \A k \in 1..(n + 1) : a[k] = IF k < n + 1 THEN s[k] ELSE e
  OBVIOUS
<1>3. /\ b \in Seq(T) /\ Len(b) = n + 1
      /\ \A k \in 1..(n + 1) :
            b[k] = IF k < n + 1 THEN s[k] ELSE IF k = n + 1 THEN e ELSE s[k - 1]
  <2> DEFINE i == n + 1
  <2>1. i \in 1..(Len(s) + 1) /\ b = InsertAt(s, i, e)
    BY <1>1
  <2> HIDE DEF n, i, b
  <2>2. /\ b \in Seq(T) /\ Len(b) = Len(s) + 1
        /\ \A k \in 1..(Len(s) + 1) :
              b[k] = IF k < i THEN s[k] ELSE IF k = i THEN e ELSE s[k - 1]
    <3>1. s \in Seq(T) /\ e \in T /\ i \in 1..(Len(s) + 1)
      BY <2>1
    <3>2. /\ InsertAt(s, i, e) \in Seq(T) /\ Len(InsertAt(s, i, e)) = Len(s) + 1
          /\ \A k \in 1..(Len(s) + 1) :
                InsertAt(s, i, e)[k] = IF k < i THEN s[k] ELSE IF k = i THEN e ELSE s[k - 1]
      BY ONLY <3>1, InsertAtOf
    <3> QED BY <2>1, <3>2
  <2> QED BY <2>2 DEF i, n
<1> HIDE DEF n, a, b
<1>4. \A k \in 1..(n + 1) : a[k] = b[k]
  BY <1>1, <1>2, <1>3
<1>5. a = b
  BY <1>2, <1>3, <1>4, SeqEqual
<1> QED
  BY <1>5 DEF a, b, n

\* A new tab's instance number is above those of its profile's other tabs.
LEMMA InstanceAbove ==
    ASSUME NEW tabs \in Seq(Tab), NEW p, NEW S,
           S = {tabs[i].instance : i \in {j \in DOMAIN tabs : tabs[j].profile = p}} \cup {0}
    PROVE  Max(S) \in Nat /\ \A i \in DOMAIN tabs : tabs[i].profile = p => tabs[i].instance <= Max(S)
<1> DEFINE n == Len(tabs)
           f == [i \in 1..n |-> tabs[i].instance]
<1>1. n \in Nat /\ DOMAIN tabs = 1..n
  OBVIOUS
<1>2. \A i \in 1..n : tabs[i].instance \in Nat
  <2>1. \A i \in 1..n : tabs[i] \in Tab
    BY <1>1
  <2> QED BY <2>1 DEF Tab
<1>3. f \in [1..n -> Nat] /\ \A i \in 1..n : f[i] = tabs[i].instance
  BY <1>2
<1> HIDE DEF n, f
<1>4. PICK b \in Nat : \A i \in 1..n : f[i] <= b
  BY <1>1, <1>3, BoundOf
<1>5. S \in SUBSET Nat /\ S # {} /\ \A x \in S : x <= b
  BY <1>1, <1>2, <1>3, <1>4
<1>6. Max(S) \in S /\ \A x \in S : x <= Max(S)
  BY <1>5, MaxOf
<1>7. \A i \in DOMAIN tabs : tabs[i].profile = p => tabs[i].instance \in S
  OBVIOUS
<1> QED
  BY <1>5, <1>6, <1>7

NewTab(next, p, m) ==
    [id |-> next, profile |-> p, instance |-> m, draft |-> NoDraft,
     output |-> <<>>, pinned |-> FALSE, status |-> "idle", run |-> NoRun]

\* A workspace with one tab more.
Opened(w, u, p) ==
    /\ u.next = w.next + 1 /\ u.active \in DOMAIN u.tabs
    /\ u.tabs[u.active].id = w.next + 1 /\ u.tabs[u.active].status = "idle"
    /\ IDs(u) = IDs(w) \cup {w.next + 1}
    /\ Running(u) = Running(w)
    /\ \A i \in DOMAIN u.tabs :
          \/ u.tabs[i].id = w.next + 1
          \/ \E j \in DOMAIN w.tabs :
                u.tabs[i].id = w.tabs[j].id /\ u.tabs[i].profile = w.tabs[j].profile

LEMMA OpenedTab ==
    ASSUME NEW w, NEW h, WorkspaceOK(w, h), NEW p \in Profiles, NEW u, u = Open(w, p)
    PROVE  WorkspaceOK(u, h) /\ Opened(w, u, p)
<1> DEFINE tabs == w.tabs
           n == Len(tabs)
           S == {tabs[i].instance : i \in {j \in DOMAIN tabs : tabs[j].profile = p}} \cup {0}
           m == Max(S)
           e == NewTab(w.next + 1, p, m + 1)
           new == Append(tabs, e)
<1>1. /\ w \in Workspace /\ tabs \in Seq(Tab) /\ n \in Nat /\ DOMAIN tabs = 1..n
      /\ w.next \in Nat /\ TabsOK(tabs, w.next, h) /\ Len(w.closed) <= ClosedLimit
  BY WorkspaceFacts DEF WorkspaceOK
<1>2. m \in Nat /\ \A i \in DOMAIN tabs : tabs[i].profile = p => tabs[i].instance <= m
  <2>1. S = {tabs[i].instance : i \in {j \in DOMAIN tabs : tabs[j].profile = p}} \cup {0}
    OBVIOUS
  <2> HIDE DEF S, tabs
  <2> QED BY <1>1, <2>1, InstanceAbove
<1>3. u = [w EXCEPT !.tabs = Append(@, e), !.active = n + 1, !.next = @ + 1]
  BY DEF Open, NewTab
<1> HIDE DEF m, e, S
<1>4. /\ e \in Tab /\ TabOK(e, w.next + 1, h) /\ e.id = w.next + 1 /\ e.profile = p
      /\ e.instance = m + 1 /\ e.pinned = FALSE /\ e.status = "idle"
  <2> DEFINE next == w.next + 1
             k == m + 1
  <2>1. next \in Nat /\ next \in 1..next /\ k \in Nat
    BY <1>1, <1>2
  <2> HIDE DEF next, k
  <2>2. /\ e \in Tab /\ e.id = next /\ e.profile = p /\ e.instance = k
        /\ e.pinned = FALSE /\ e.status = "idle" /\ e.draft = 0 /\ e.output = <<>>
    BY <2>1 DEF e, next, k, NewTab, Tab, NoDraft, NoRun, Statuses
  <2>3. DOMAIN e.output = {}
    BY <2>2
  <2>4. TabOK(e, next, h)
    BY <2>1, <2>2, <2>3 DEF TabOK, OwnIn, NoDraft
  <2> QED BY <2>2, <2>4 DEF next, k
<1>5. /\ new \in Seq(Tab) /\ Len(new) = n + 1 /\ DOMAIN new = 1..(n + 1)
      /\ new[n + 1] = e /\ n + 1 \in 1..(n + 1)
  BY <1>1, <1>4
<1>6. new = InsertAt(tabs, n + 1, e)
  BY <1>1, <1>4, AppendIsInsert
<1>7. /\ u \in Workspace /\ u.tabs = new /\ u.active = n + 1 /\ u.next = w.next + 1
      /\ u.closed = w.closed
  <2>1. n + 1 \in Nat /\ w.next + 1 \in Nat
    BY <1>1
  <2>2. u = [w EXCEPT !.tabs = new, !.active = n + 1, !.next = w.next + 1]
    BY <1>1, <1>3 DEF Workspace
  <2> HIDE DEF new, n
  <2> QED BY <1>1, <1>5, <2>1, <2>2 DEF Workspace
<1> HIDE DEF new
<1>8. \A t \in ToSet(tabs) : Differ(t, e)
  <2> SUFFICES ASSUME NEW i \in DOMAIN tabs PROVE Differ(tabs[i], e)
    BY DEF ToSet
  <2>1. tabs[i].id \in 1..w.next /\ tabs[i] \in Tab
    BY WorkspaceFacts DEF TabOK
  <2>2. tabs[i].id # e.id
    BY <1>1, <1>4, <2>1
  <2>3. tabs[i].instance \in Nat
    BY <2>1 DEF Tab
  <2>4. tabs[i].profile = e.profile => tabs[i].instance # e.instance
    BY <1>2, <1>4, <2>3
  <2> QED BY <2>2, <2>4 DEF Differ
<1>9. TabsOK(tabs, w.next + 1, h)
  BY <1>1, HigherNumbers
<1>10. TabsOK(new, w.next + 1, h) /\ ToSet(new) = ToSet(tabs) \cup {e}
  <2>1. \A k \in DOMAIN tabs : ~(k >= n + 1)
    BY <1>1
  <2>2. n + 1 \in 1..(Len(tabs) + 1)
    BY <1>1
  <2>3. ~e.pinned
    BY <1>4
  <2> HIDE DEF tabs, n
  <2> QED BY <1>4, <1>6, <1>8, <1>9, <2>1, <2>2, <2>3, InsertedTabs
<1>11. WorkspaceOK(u, h)
  <2>1. new # <<>>
    BY <1>1, <1>5
  <2>2. u.active \in 0..Len(u.tabs) /\ u.active # 0
    BY <1>1, <1>5, <1>7
  <2> QED BY <1>1, <1>7, <1>10, <2>1, <2>2 DEF WorkspaceOK
<1>12. IDs(u) = IDs(w) \cup {w.next + 1}
  <2>1. IDs(u) = {t.id : t \in ToSet(new)} /\ IDs(w) = {t.id : t \in ToSet(tabs)}
    BY <1>7 DEF IDs, ToSet
  <2> QED BY <1>4, <1>10, <2>1
<1>13. Running(u) = Running(w)
  BY <1>4, <1>7, <1>10 DEF Running
<1>14. \A i \in DOMAIN u.tabs :
          \/ u.tabs[i].id = w.next + 1
          \/ \E j \in DOMAIN w.tabs :
                u.tabs[i].id = w.tabs[j].id /\ u.tabs[i].profile = w.tabs[j].profile
  BY <1>4, <1>7, <1>10 DEF ToSet
<1>15. /\ u.next = w.next + 1 /\ u.active \in DOMAIN u.tabs
       /\ u.tabs[u.active].id = w.next + 1 /\ u.tabs[u.active].status = "idle"
  BY <1>4, <1>5, <1>7
<1> QED
  BY <1>11, <1>12, <1>13, <1>14, <1>15 DEF Opened

LEMMA ReopenedTab ==
    ASSUME NEW w, NEW h, WorkspaceOK(w, h), CanReopenClosed(w), NEW u, u = ReopenLastClosed(w)
    PROVE  WorkspaceOK(u, h) /\ \E p \in Profiles : Opened(w, u, p)
<1> DEFINE c == Front(w.closed)
           v == [w EXCEPT !.closed = c]
           p == Last(w.closed)
<1>1. w \in Workspace /\ w.closed \in Seq(Profiles) /\ w.closed # <<>>
  BY WorkspaceFacts DEF Workspace, CanReopenClosed
<1>2. p \in Profiles
  BY <1>1 DEF Last
<1>3. c \in Seq(Profiles) /\ Len(c) <= Len(w.closed) /\ Len(c) \in Nat /\ Len(w.closed) \in Nat
  BY <1>1 DEF Front
<1> HIDE DEF c
<1>4. /\ v \in Workspace /\ v.tabs = w.tabs /\ v.active = w.active /\ v.next = w.next
      /\ v.closed = c
  BY <1>1, <1>3 DEF Workspace
<1>5. u = Open(v, p)
  BY <1>1 DEF ReopenLastClosed, c, Workspace
<1> HIDE DEF v, p
<1>6. Len(c) <= ClosedLimit
  BY <1>3, ClosedLimitAssumption DEF WorkspaceOK
<1>7. WorkspaceOK(v, h)
  BY <1>4, <1>6 DEF WorkspaceOK
<1>8. WorkspaceOK(u, h) /\ Opened(v, u, p)
  BY <1>2, <1>5, <1>7, OpenedTab
<1>9. Opened(w, u, p)
  BY <1>4, <1>8 DEF Opened, IDs, Running
<1> QED
  BY <1>2, <1>8, <1>9


-----------------------------------------------------------------------------
\* Moving and pinning tabs.

\* The same tab, pinned or not.
Twin(a, b) ==
    /\ a.id = b.id /\ a.profile = b.profile /\ a.output = b.output
    /\ a.status = b.status /\ a.run = b.run

Twins(old, new) ==
    /\ \A a \in ToSet(new) : \E b \in ToSet(old) : Twin(a, b)
    /\ \A b \in ToSet(old) : \E a \in ToSet(new) : Twin(a, b)

\* The same tabs in another order, with the same one active.
Rearranged(w, u, h) ==
    /\ WorkspaceOK(u, h) /\ u.next = w.next
    /\ IDs(u) = IDs(w) /\ ActiveID(u) = ActiveID(w) /\ Running(u) = Running(w)
    /\ Descends(w, u) /\ Shown(u) = Shown(w)
    /\ \A line : Typed(w, h, line) => Typed(u, h, line)

LEMMA ReorderedTabs ==
    ASSUME NEW w, NEW h, WorkspaceOK(w, h), w.active # 0, NEW new, TabsOK(new, w.next, h),
           Twins(w.tabs, new), NEW u, u = Reordered(w, new)
    PROVE  Rearranged(w, u, h)
<1> DEFINE moved == [w EXCEPT !.tabs = new]
           id == ActiveID(w)
           k == IndexOf(moved, id)
           a == w.tabs[w.active]
<1>1. w \in Workspace /\ new \in Seq(Tab) /\ w.tabs \in Seq(Tab) /\ w.active \in DOMAIN w.tabs
  BY WorkspaceFacts DEF TabsOK
<1>2. moved \in Workspace /\ moved.tabs = new /\ moved.next = w.next /\ moved.closed = w.closed
  BY <1>1 DEF Workspace
<1>3. id = a.id /\ a \in ToSet(w.tabs)
  BY <1>1 DEF ActiveID, ToSet
<1>4. id \in IDs(moved)
  BY <1>2, <1>3 DEF Twins, Twin, IDs, ToSet
<1>5. k \in DOMAIN new /\ new[k].id = id
  BY <1>2, <1>4 DEF IndexOf, IDs
<1>6. u = [moved EXCEPT !.active = k]
  BY <1>4 DEF Reordered
<1> HIDE DEF moved, k, id, a
<1>7. k \in 1..Len(new) /\ Len(new) \in Nat
  BY <1>1, <1>5
<1>8. k \in Nat
  BY <1>7
<1>9. /\ u \in Workspace /\ u.tabs = new /\ u.active = k /\ u.next = w.next
      /\ u.closed = w.closed
  BY <1>2, <1>6, <1>8 DEF Workspace
<1>10. WorkspaceOK(u, h)
  <2>1. u.active \in 0..Len(u.tabs) /\ u.active # 0 /\ u.tabs # <<>>
    BY <1>7, <1>9
  <2>2. Len(u.closed) <= ClosedLimit
    BY <1>9 DEF WorkspaceOK
  <2> QED BY <1>9, <2>1, <2>2 DEF WorkspaceOK
<1>11. IDs(u) = IDs(w)
  <2>1. IDs(u) = {t.id : t \in ToSet(new)} /\ IDs(w) = {t.id : t \in ToSet(w.tabs)}
    BY <1>9 DEF IDs, ToSet
  <2> QED BY <2>1 DEF Twins, Twin
<1>12. u.active # 0 /\ ActiveID(u) = id
  BY <1>5, <1>7, <1>9 DEF ActiveID
<1>13. Running(u) = Running(w)
  <2>1. \A x \in Running(u) : x \in Running(w)
    BY <1>9 DEF Running, Twins, Twin
  <2>2. \A x \in Running(w) : x \in Running(u)
    BY <1>9 DEF Running, Twins, Twin
  <2> QED BY <2>1, <2>2
<1>14. Descends(w, u)
  <2> SUFFICES ASSUME NEW i \in DOMAIN new
               PROVE  \E j \in DOMAIN w.tabs :
                         new[i].id = w.tabs[j].id /\ new[i].profile = w.tabs[j].profile
    BY <1>9 DEF Descends
  <2>1. new[i] \in ToSet(new)
    BY DEF ToSet
  <2>2. PICK b \in ToSet(w.tabs) : Twin(new[i], b)
    BY <2>1 DEF Twins
  <2> QED BY <2>2 DEF ToSet, Twin
<1>15. Twin(new[k], a)
  <2>1. new[k] \in ToSet(new)
    BY <1>5 DEF ToSet
  <2>2. PICK b \in ToSet(w.tabs) : Twin(new[k], b)
    BY <2>1 DEF Twins
  <2>3. PICK j \in DOMAIN w.tabs : b = w.tabs[j]
    BY DEF ToSet
  <2>4. w.tabs[j].id = w.tabs[w.active].id
    BY <1>3, <1>5, <2>2, <2>3 DEF Twin, a
  <2>5. TabsOK(w.tabs, w.next, h)
    BY WorkspaceFacts
  <2>6. j = w.active
    BY <1>1, <2>4, <2>5, TabsDiffer
  <2> QED BY <2>2, <2>3, <2>6 DEF a
<1>16. Shown(u) = Shown(w)
  BY <1>9, <1>12, <1>15 DEF Shown, Twin, a
<1>17. ASSUME NEW line, Typed(w, h, line) PROVE Typed(u, h, line)
  <2>1. line \in Nat /\ OwnIn(h, a, line)
    BY <1>17 DEF Typed, a
  <2>2. OwnIn(h, new[k], line)
    BY <1>15, <2>1 DEF OwnIn, Twin
  <2> QED BY <1>9, <1>12, <2>1, <2>2 DEF Typed
<1> QED
  BY <1>9, <1>10, <1>11, <1>12, <1>13, <1>14, <1>16, <1>17 DEF id, Rearranged

\* A tab taken out may go in elsewhere.
LEMMA RestDiffers ==
    ASSUME NEW tabs, NEW next, NEW h, TabsOK(tabs, next, h), NEW i \in DOMAIN tabs,
           NEW e, e.id = tabs[i].id, e.profile = tabs[i].profile, e.instance = tabs[i].instance
    PROVE  \A t \in ToSet(RemoveAt(tabs, i)) : Differ(t, e)
<1>1. ToSet(RemoveAt(tabs, i)) = ToSet(tabs) \ {tabs[i]}
  BY RemovedTabs
<1>2. \A j \in DOMAIN tabs : tabs[j] # tabs[i] => Differ(tabs[j], tabs[i])
  BY DEF TabsOK
<1> QED
  BY <1>1, <1>2 DEF ToSet, Differ

LEMMA TwinsOf ==
    ASSUME NEW old, NEW new, NEW i \in DOMAIN old, NEW e, Twin(e, old[i]),
           ToSet(new) = (ToSet(old) \ {old[i]}) \cup {e}
    PROVE  Twins(old, new)
<1>1. \A t : Twin(t, t)
  BY DEF Twin
<1>2. old[i] \in ToSet(old)
  BY DEF ToSet
<1> QED
  BY <1>1, <1>2 DEF Twins

LEMMA MovedTabs ==
    ASSUME NEW tabs, NEW next, NEW h, TabsOK(tabs, next, h), NEW i \in DOMAIN tabs,
           NEW target \in DOMAIN tabs, i # target, tabs[i].pinned = tabs[target].pinned,
           NEW new, new = InsertAt(RemoveAt(tabs, i), target, tabs[i])
    PROVE  TabsOK(new, next, h) /\ Twins(tabs, new)
<1> DEFINE rest == RemoveAt(tabs, i)
           n == Len(tabs)
           e == tabs[i]
<1>1. /\ tabs \in Seq(Tab) /\ n \in Nat /\ DOMAIN tabs = 1..n /\ i \in 1..n /\ target \in 1..n
      /\ PinnedInFront(tabs) /\ TabOK(e, next, h)
  BY DEF TabsOK
<1>2. TabsOK(rest, next, h) /\ ToSet(rest) = ToSet(tabs) \ {e}
  BY RemovedTabs
<1>3. /\ rest \in Seq(Tab) /\ Len(rest) = n - 1
      /\ \A k \in 1..(n - 1) : rest[k] = IF k < i THEN tabs[k] ELSE tabs[k + 1]
  <2>1. tabs \in Seq(Tab) /\ i \in 1..Len(tabs)
    BY <1>1
  <2> QED BY ONLY <2>1, RemoveAtOf
<1>4. \A t \in ToSet(rest) : Differ(t, e)
  BY RestDiffers
<1>5. new = InsertAt(rest, target, e)
  OBVIOUS
<1>6. DOMAIN rest = 1..(n - 1)
  BY <1>3
<1> HIDE DEF rest, n, e
<1>7. ASSUME e.pinned, NEW k \in DOMAIN rest, k < target PROVE rest[k].pinned
  <2>1. tabs[target].pinned
    BY <1>7 DEF e
  <2>2. \A j \in DOMAIN tabs : j <= target => tabs[j].pinned
    <3>1. \A j \in DOMAIN tabs : j <= target => j = target \/ j < target
      BY <1>1
    <3> QED BY <1>1, <2>1, <3>1 DEF PinnedInFront
  <2>3. CASE k < i
    BY <1>1, <1>3, <1>6, <1>7, <2>2, <2>3
  <2>4. CASE ~(k < i)
    <3>1. k + 1 \in DOMAIN tabs /\ k + 1 <= target
      BY <1>1, <1>6, <1>7
    <3> QED BY <1>3, <1>6, <2>2, <2>4, <3>1
  <2> QED BY <2>3, <2>4
<1>8. ASSUME ~e.pinned, NEW k \in DOMAIN rest, k >= target PROVE ~rest[k].pinned
  <2>1. ~tabs[target].pinned
    BY <1>8 DEF e
  <2>2. \A j \in DOMAIN tabs : j >= target => ~tabs[j].pinned
    <3>1. \A j \in DOMAIN tabs : j >= target => j = target \/ target < j
      BY <1>1
    <3> QED BY <1>1, <2>1, <3>1 DEF PinnedInFront
  <2>3. CASE k < i
    BY <1>1, <1>3, <1>6, <1>8, <2>2, <2>3
  <2>4. CASE ~(k < i)
    <3>1. k + 1 \in DOMAIN tabs /\ k + 1 >= target
      BY <1>1, <1>6, <1>8
    <3> QED BY <1>3, <1>6, <2>2, <2>4, <3>1
  <2> QED BY <2>3, <2>4
<1>9. target \in 1..(Len(rest) + 1)
  BY <1>1, <1>3
<1>10. TabsOK(new, next, h) /\ ToSet(new) = ToSet(rest) \cup {e}
  BY <1>1, <1>2, <1>4, <1>5, <1>7, <1>8, <1>9, InsertedTabs
<1>11. Twins(tabs, new)
  <2>1. Twin(e, tabs[i]) /\ ToSet(new) = (ToSet(tabs) \ {tabs[i]}) \cup {e}
    BY <1>2, <1>10 DEF Twin, e
  <2> QED BY <2>1, TwinsOf
<1> QED
  BY <1>10, <1>11

\* The pinned tabs are those up to PinnedPrefix.
LEMMA PinnedPrefixOf ==
    ASSUME NEW tabs, NEW next, NEW h, TabsOK(tabs, next, h)
    PROVE  /\ PinnedPrefix(tabs) \in 0..Len(tabs)
           /\ \A k \in DOMAIN tabs : tabs[k].pinned <=> k <= PinnedPrefix(tabs)
<1> DEFINE n == Len(tabs)
           S == {m \in 0..n : \A i \in 1..m : tabs[i].pinned}
           x == Max(S)
<1>1. n \in Nat /\ DOMAIN tabs = 1..n /\ PinnedInFront(tabs)
  BY DEF TabsOK
<1>2. S \in SUBSET Nat /\ 0 \in S /\ \A m \in S : m <= n
  BY <1>1
<1>3. x \in S /\ \A m \in S : m <= x
  <2> HIDE DEF S, n
  <2> QED BY <1>1, <1>2, MaxOf
<1> HIDE DEF x
<1>4. x \in 0..n /\ \A i \in 1..x : tabs[i].pinned
  BY <1>3
<1>5. ASSUME NEW k \in DOMAIN tabs, tabs[k].pinned PROVE k <= x
  <2>1. \A i \in 1..k : tabs[i].pinned
    <3>1. \A i \in 1..k : i \in DOMAIN tabs /\ (i = k \/ i < k)
      BY <1>1
    <3> QED BY <1>1, <1>5, <3>1 DEF PinnedInFront
  <2>2. k \in 0..n
    BY <1>1
  <2> QED BY <1>3, <2>1, <2>2
<1>6. ASSUME NEW k \in DOMAIN tabs, k <= x PROVE tabs[k].pinned
  <2>1. k \in 1..x
    BY <1>1, <1>4, <1>6
  <2> QED BY <1>4, <2>1
<1> QED
  BY <1>4, <1>5, <1>6 DEF x, PinnedPrefix

LEMMA PinnedTabs ==
    ASSUME NEW tabs, NEW next, NEW h, TabsOK(tabs, next, h), NEW i \in DOMAIN tabs,
           NEW pinned \in BOOLEAN, NEW rest, rest = RemoveAt(tabs, i),
           NEW e, e = [tabs[i] EXCEPT !.pinned = pinned],
           NEW new, new = InsertAt(rest, PinnedPrefix(rest) + 1, e)
    PROVE  TabsOK(new, next, h) /\ Twins(tabs, new)
<1> DEFINE place == PinnedPrefix(rest) + 1
<1>1. TabOK(tabs[i], next, h) /\ tabs[i] \in Tab
  BY DEF TabsOK, TabOK
<1>2. TabsOK(rest, next, h) /\ ToSet(rest) = ToSet(tabs) \ {tabs[i]}
  BY RemovedTabs
<1>3. /\ e \in Tab /\ e.id = tabs[i].id /\ e.profile = tabs[i].profile
      /\ e.instance = tabs[i].instance /\ e.draft = tabs[i].draft /\ e.output = tabs[i].output
      /\ e.status = tabs[i].status /\ e.run = tabs[i].run
  BY <1>1 DEF Tab
<1>4. TabOK(e, next, h)
  BY <1>1, <1>3 DEF TabOK, OwnIn
<1>5. \A t \in ToSet(rest) : Differ(t, e)
  BY <1>3, RestDiffers
<1>6. /\ PinnedPrefix(rest) \in 0..Len(rest)
      /\ \A k \in DOMAIN rest : rest[k].pinned <=> k <= PinnedPrefix(rest)
  BY <1>2, PinnedPrefixOf
<1>7. rest \in Seq(Tab) /\ Len(rest) \in Nat /\ DOMAIN rest = 1..Len(rest)
  BY <1>2 DEF TabsOK
<1>8. /\ place \in 1..(Len(rest) + 1)
      /\ \A k \in DOMAIN rest : k < place <=> k <= PinnedPrefix(rest)
      /\ \A k \in DOMAIN rest : k >= place <=> ~(k <= PinnedPrefix(rest))
  BY <1>6, <1>7
<1>9. new = InsertAt(rest, place, e)
  OBVIOUS
<1> HIDE DEF place
<1>10. TabsOK(new, next, h) /\ ToSet(new) = ToSet(rest) \cup {e}
  BY <1>2, <1>4, <1>5, <1>6, <1>8, <1>9, InsertedTabs
<1>11. Twin(e, tabs[i])
  BY <1>3 DEF Twin
<1>12. Twins(tabs, new)
  BY <1>2, <1>10, <1>11, TwinsOf
<1> QED
  BY <1>10, <1>12


LEMMA MovedWorkspace ==
    ASSUME NEW w, NEW h, WorkspaceOK(w, h), NEW id, NEW target, CanMove(w, id, target),
           NEW u, u = Move(w, id, target)
    PROVE  Rearranged(w, u, h)
<1> DEFINE i == IndexOf(w, id)
           new == InsertAt(RemoveAt(w.tabs, i), target, w.tabs[i])
<1>1. /\ id \in IDs(w) /\ target \in DOMAIN w.tabs /\ i # target
      /\ w.tabs[i].pinned = w.tabs[target].pinned
  BY DEF CanMove, TabOf
<1>2. u = Reordered(w, new)
  BY DEF Move, TabOf
<1>3. i \in DOMAIN w.tabs
  BY <1>1, IndexOfTab
<1>4. TabsOK(w.tabs, w.next, h)
  BY WorkspaceFacts
<1> HIDE DEF i
<1>5. TabsOK(new, w.next, h) /\ Twins(w.tabs, new)
  BY <1>1, <1>3, <1>4, MovedTabs
<1>6. w.active # 0
  <2>1. w.tabs # <<>>
    BY <1>3
  <2> QED BY <2>1, WorkspaceFacts
<1> HIDE DEF new
<1> QED
  BY <1>2, <1>5, <1>6, ReorderedTabs

LEMMA PinnedWorkspace ==
    ASSUME NEW w, NEW h, WorkspaceOK(w, h), NEW id \in IDs(w), NEW pinned \in BOOLEAN,
           NEW u, u = SetPinned(w, id, pinned)
    PROVE  Rearranged(w, u, h)
<1> DEFINE i == IndexOf(w, id)
           rest == RemoveAt(w.tabs, i)
           e == [w.tabs[i] EXCEPT !.pinned = pinned]
           new == InsertAt(rest, PinnedPrefix(rest) + 1, e)
<1>1. CASE w.tabs[i].pinned = pinned
  <2>1. u = w
    BY <1>1 DEF SetPinned, TabOf
  <2>2. Descends(w, w)
    BY DEF Descends
  <2> QED BY <2>1, <2>2 DEF Rearranged
<1>2. CASE w.tabs[i].pinned # pinned
  <2>1. u = Reordered(w, new)
    BY <1>2 DEF SetPinned, TabOf
  <2>2. i \in DOMAIN w.tabs
    BY IndexOfTab
  <2>3. TabsOK(w.tabs, w.next, h)
    BY WorkspaceFacts
  <2>4. w.active # 0
    <3>1. w.tabs # <<>>
      BY <2>2
    <3> QED BY <3>1, WorkspaceFacts
  <2>5. TabsOK(new, w.next, h) /\ Twins(w.tabs, new)
    <3>1. /\ rest = RemoveAt(w.tabs, i) /\ e = [w.tabs[i] EXCEPT !.pinned = pinned]
          /\ new = InsertAt(rest, PinnedPrefix(rest) + 1, e)
      OBVIOUS
    <3> HIDE DEF i, rest, e, new
    <3> QED BY <2>2, <2>3, <3>1, PinnedTabs
  <2> HIDE DEF new
  <2> QED BY <2>1, <2>4, <2>5, ReorderedTabs
<1> QED
  BY <1>1, <1>2

-----------------------------------------------------------------------------
\* Closing a tab.

LEMMA RememberOf ==
    ASSUME NEW closed \in Seq(Profiles), NEW p \in Profiles
    PROVE  Remember(closed, p) \in Seq(Profiles) /\ Len(Remember(closed, p)) <= ClosedLimit
<1> DEFINE all == Append(closed, p)
           n == Len(all)
<1>1. all \in Seq(Profiles) /\ n \in Nat
  OBVIOUS
<1>2. CASE n > ClosedLimit
  <2>1. Remember(closed, p) = SubSeq(all, n - ClosedLimit + 1, n)
    BY <1>2 DEF Remember
  <2>2. n - ClosedLimit + 1 \in 1..n
    BY <1>1, <1>2, ClosedLimitAssumption
  <2> HIDE DEF all
  <2> QED BY <1>1, <1>2, <2>1, <2>2, ClosedLimitAssumption
<1>3. CASE ~(n > ClosedLimit)
  <2>1. Remember(closed, p) = all
    BY <1>3 DEF Remember
  <2> HIDE DEF all
  <2> QED BY <1>1, <1>3, <2>1, ClosedLimitAssumption
<1> QED
  BY <1>2, <1>3

LEMMA MinTwo ==
    ASSUME NEW a \in Int, NEW b \in Int
    PROVE  Min({a, b}) = IF a <= b THEN a ELSE b
<1> DEFINE S == {a, b}
           m == IF a <= b THEN a ELSE b
<1>1. m \in S /\ \A x \in S : m <= x
  OBVIOUS
<1>2. \A x \in S : (\A y \in S : x <= y) => x = m
  <2>1. \A x \in S : x \in Int
    OBVIOUS
  <2>2. m \in Int
    OBVIOUS
  <2> HIDE DEF S, m
  <2> QED BY <1>1, <2>1, <2>2
<1> HIDE DEF S, m
<1>3. Min(S) = m
  BY <1>1, <1>2 DEF Min
<1> QED
  BY <1>3 DEF S, m

\* A workspace with some tabs fewer, whose active tab stays active if it is there.
Fewer(w, u) ==
    /\ u.next = w.next /\ IDs(u) \subseteq IDs(w) /\ Running(u) = Running(w) /\ Descends(w, u)
    /\ ActiveID(w) \in IDs(u) => ActiveID(u) = ActiveID(w)

LEMMA ClosedTab ==
    ASSUME NEW w, NEW h, WorkspaceOK(w, h), NEW i \in DOMAIN w.tabs,
           w.tabs[i].status # "running", NEW u, u = Close(w, i)
    PROVE  WorkspaceOK(u, h) /\ Fewer(w, u) /\ IDs(w) \ {w.tabs[i].id} \subseteq IDs(u)
<1> DEFINE tabs == w.tabs
           n == Len(tabs)
           rest == RemoveAt(tabs, i)
           a == w.active
           p == tabs[i].profile
           b == CASE rest = <<>> -> 0
                  [] i = a -> Min({i, Len(rest)})
                  [] i < a -> a - 1
                  [] i > a -> a
           c == Remember(w.closed, p)
<1>1. /\ w \in Workspace /\ tabs \in Seq(Tab) /\ n \in Nat /\ DOMAIN tabs = 1..n
      /\ i \in 1..n /\ TabsOK(tabs, w.next, h) /\ a \in 1..n /\ w.closed \in Seq(Profiles)
      /\ p \in Profiles
  <2>1. w \in Workspace /\ tabs \in Seq(Tab) /\ n \in Nat /\ DOMAIN tabs = 1..n /\ i \in 1..n
    BY WorkspaceFacts
  <2>2. tabs # <<>>
    BY <2>1
  <2>3. a \in 1..n /\ TabsOK(tabs, w.next, h)
    BY <2>1, <2>2, WorkspaceFacts
  <2>4. tabs[i] \in Tab
    BY WorkspaceFacts
  <2>5. p \in Profiles
    BY <2>4 DEF Tab
  <2> QED BY <2>1, <2>3, <2>5 DEF Workspace
<1>2. TabsOK(rest, w.next, h) /\ ToSet(rest) = ToSet(tabs) \ {tabs[i]}
  BY <1>1, RemovedTabs
<1>3. /\ rest \in Seq(Tab) /\ Len(rest) = n - 1
      /\ \A k \in 1..(n - 1) : rest[k] = IF k < i THEN tabs[k] ELSE tabs[k + 1]
  <2>1. tabs \in Seq(Tab) /\ i \in 1..Len(tabs)
    BY <1>1
  <2> QED BY ONLY <2>1, RemoveAtOf
<1>4. c \in Seq(Profiles) /\ Len(c) <= ClosedLimit
  BY <1>1, RememberOf
<1>5. u = [w EXCEPT !.tabs = rest, !.closed = c, !.active = b]
  BY <1>1 DEF Close, Workspace
<1>6. DOMAIN rest = 1..(n - 1) /\ (rest = <<>> <=> n = 1)
  <2> HIDE DEF rest, n
  <2> QED BY <1>1, <1>3
<1>7. /\ n = 1 => b = 0
      /\ n # 1 => /\ b \in 1..(n - 1)
                  /\ i < a => b = a - 1
                  /\ i > a => b = a
  <2> DEFINE m == n - 1
  <2>1. /\ m \in Nat /\ n = m + 1 /\ Len(rest) = m /\ a \in Nat /\ i \in Nat
        /\ a \in 1..n /\ i \in 1..n
    BY ONLY <1>1, <1>3
  <2>2. Min({i, m}) = IF i <= m THEN i ELSE m
    <3>1. i \in Int /\ m \in Int
      BY <2>1
    <3> HIDE DEF m
    <3> QED BY <3>1, MinTwo
  <2>3. /\ rest = <<>> => b = 0
        /\ rest # <<>> /\ i = a => b = Min({i, m})
        /\ rest # <<>> /\ i < a => b = a - 1
        /\ rest # <<>> /\ i > a => b = a
    <3>1. Min({i, Len(rest)}) = Min({i, m})
      BY <2>1
    <3>2. CASE rest = <<>>
      <4>1. i = a /\ m = 0
        BY <1>6, <2>1, <3>2
      <4>2. Min({i, Len(rest)}) = 0
        <5>1. i = 1 /\ m = 0
          BY <2>1, <4>1
        <5> HIDE DEF rest, n, a, m
        <5> QED BY ONLY <2>2, <3>1, <5>1
      <4> HIDE DEF rest, n, a, m
      <4> QED BY <2>1, <3>2, <4>1, <4>2
    <3>3. CASE rest # <<>> /\ i = a
      <4> HIDE DEF rest, n, a, m
      <4> QED BY <2>1, <3>1, <3>3
    <3>4. CASE rest # <<>> /\ i < a
      <4> HIDE DEF rest, n, a, m
      <4> QED BY <3>4, <2>1
    <3>5. CASE rest # <<>> /\ i > a
      <4> HIDE DEF rest, n, a, m
      <4> QED BY <3>5, <2>1
    <3> HIDE DEF b
    <3> QED BY <3>2, <3>3, <3>4, <3>5
  <2> HIDE DEF b, rest, n, a, m
  <2>4. rest = <<>> <=> n = 1
    BY <1>6
  <2>5. /\ n = 1 => b = 0
        /\ n # 1 => b \in 1..m /\ (i < a => b = a - 1) /\ (i > a => b = a)
    BY ONLY <2>1, <2>2, <2>3, <2>4
  <2> QED BY ONLY <2>5 DEF m
<1> HIDE DEF b, c, rest, n
<1>8. b \in Nat
  BY <1>1, <1>7
<1>9. /\ u \in Workspace /\ u.tabs = rest /\ u.active = b /\ u.next = w.next /\ u.closed = c
  BY <1>1, <1>3, <1>4, <1>5, <1>8 DEF Workspace
<1>10. WorkspaceOK(u, h)
  <2>1. u.active \in 0..Len(u.tabs) /\ (u.active = 0 <=> u.tabs = <<>>)
    BY <1>1, <1>3, <1>6, <1>7, <1>9
  <2> QED BY <1>2, <1>4, <1>9, <2>1 DEF WorkspaceOK
<1>11. ASSUME NEW x, x \in ToSet(rest) PROVE x \in ToSet(tabs)
  BY <1>2, <1>11
<1>12. IDs(u) \subseteq IDs(w)
  BY <1>9, <1>11 DEF IDs, ToSet
<1>13. Running(u) = Running(w)
  BY <1>2, <1>9 DEF Running
<1>14. Descends(w, u)
  BY <1>9, <1>11 DEF Descends, ToSet
<1>15. ASSUME ActiveID(w) \in IDs(u) PROVE ActiveID(u) = ActiveID(w)
  <2>1. a \in DOMAIN tabs /\ ActiveID(w) = tabs[a].id
    BY <1>1 DEF ActiveID
  <2>2. PICK k \in DOMAIN rest : rest[k].id = tabs[a].id
    BY <1>9, <1>15, <2>1 DEF IDs
  <2>3. rest[k] \in ToSet(rest)
    BY DEF ToSet
  <2>4. PICK j \in DOMAIN tabs : rest[k] = tabs[j] /\ tabs[j] # tabs[i]
    BY <1>2, <2>3 DEF ToSet
  <2>5. j = a
    BY <1>1, <2>1, <2>2, <2>4, TabsDiffer
  <2>6. a # i
    BY <2>4, <2>5
  <2>7. n # 1
    BY <1>1, <2>6
  <2>8. b \in DOMAIN rest /\ rest[b] = tabs[a]
    <3>1. b \in 1..(n - 1) /\ (i < a => b = a - 1) /\ (i > a => b = a)
      BY <1>7, <2>7
    <3>2. CASE i < a
      <4>1. b = a - 1 /\ ~(b < i) /\ b + 1 = a
        BY <1>1, <3>1, <3>2
      <4> QED BY <1>3, <1>6, <3>1, <4>1
    <3>3. CASE i > a
      BY <1>3, <1>6, <3>1, <3>3
    <3> QED BY <1>1, <2>6, <3>2, <3>3
  <2> QED BY <1>9, <2>1, <2>8 DEF ActiveID
<1>16. IDs(w) \ {tabs[i].id} \subseteq IDs(u)
  <2> SUFFICES ASSUME NEW j \in DOMAIN tabs, tabs[j].id # tabs[i].id
               PROVE  tabs[j].id \in IDs(u)
    BY DEF IDs
  <2>1. tabs[j] \in ToSet(rest)
    BY <1>2 DEF ToSet
  <2> QED BY <1>9, <2>1 DEF IDs, ToSet
<1> QED
  BY <1>9, <1>10, <1>12, <1>13, <1>14, <1>15, <1>16 DEF Fewer


-----------------------------------------------------------------------------
\* The command line and the terminal.

Views == [ws : Workspace, input : Nat, screen : Seq(Piece)]

LEMMA ShownOf ==
    ASSUME NEW w, NEW h, WorkspaceOK(w, h)
    PROVE  /\ Shown(w) \in Seq(Piece) /\ Retained(Shown(w)) = Shown(w)
           /\ w.active # 0 => \A n \in DOMAIN Shown(w) : Shown(w)[n].tab = w.tabs[w.active].id
<1>1. CASE w.active = 0
  <2>1. <<>> \in Seq(Piece) /\ Len(<<>>) <= Scrollback
    BY ControllerBounds
  <2>2. Retained(<<>>) = <<>>
    BY <2>1, RetainedShort
  <2> QED BY <1>1, <2>1, <2>2 DEF Shown
<1>2. CASE w.active # 0
  <2> DEFINE tab == w.tabs[w.active]
             out == tab.output
             r == Retained(out)
  <2>1. w.active \in DOMAIN w.tabs
    BY <1>2, WorkspaceFacts
  <2>2. tab \in Tab /\ TabOK(tab, w.next, h)
    BY <2>1, WorkspaceFacts
  <2>3. out \in Seq(Piece) /\ \A n \in DOMAIN out : out[n].tab = tab.id
    BY <2>2 DEF Tab, TabOK
  <2>4. Shown(w) = r
    BY <1>2 DEF Shown
  <2> HIDE DEF tab, out
  <2>5. /\ r \in Seq(Piece)
        /\ Len(r) = IF Len(out) <= Scrollback THEN Len(out) ELSE Scrollback
        /\ \A i \in 1..Len(r) : r[i] = out[Len(out) - Len(r) + i]
    BY <2>3, RetainedOf
  <2>6. Retained(r) = r
    BY <2>3, RetainedTwice
  <2> HIDE DEF r
  <2>7. Len(out) \in Nat /\ Len(r) \in Nat /\ Len(r) <= Len(out)
    BY <2>3, <2>5, ControllerBounds
  <2>8. DOMAIN r = 1..Len(r) /\ DOMAIN out = 1..Len(out)
    BY <2>3, <2>5
  <2>9. \A n \in DOMAIN r : r[n].tab = tab.id
    <3> SUFFICES ASSUME NEW n \in DOMAIN r PROVE r[n].tab = tab.id
      OBVIOUS
    <3>1. Len(out) - Len(r) + n \in DOMAIN out
      BY <2>7, <2>8
    <3> QED BY <2>3, <2>5, <2>8, <3>1
  <2> QED BY <2>4, <2>5, <2>6, <2>9 DEF tab
<1> QED
  BY <1>1, <1>2

LEMMA ViewFacts ==
    ASSUME NEW v, NEW h, ViewOK(v, h)
    PROVE  /\ v \in Views /\ WorkspaceOK(v.ws, h) /\ v.screen = Shown(v.ws)
           /\ Typed(v.ws, h, v.input)
<1>1. /\ v = [ws |-> v.ws, input |-> v.input, screen |-> v.screen]
      /\ WorkspaceOK(v.ws, h) /\ v.screen = Shown(v.ws) /\ Typed(v.ws, h, v.input)
  BY Zenon DEF ViewOK
<1>2. v.ws \in Workspace /\ v.input \in Nat /\ v.screen \in Seq(Piece)
  BY <1>1, ShownOf DEF WorkspaceOK, Typed
<1>3. v \in Views
  BY <1>1, <1>2, Zenon DEF Views
<1> QED
  BY <1>1, <1>3

LEMMA ViewIs ==
    ASSUME NEW v \in Views, NEW h, WorkspaceOK(v.ws, h), v.screen = Shown(v.ws),
           Typed(v.ws, h, v.input)
    PROVE  ViewOK(v, h)
<1>1. v = [ws |-> v.ws, input |-> v.input, screen |-> v.screen]
  BY DEF Views
<1> QED
  BY <1>1, Zenon DEF ViewOK

LEMMA SyncOK ==
    ASSUME NEW v, NEW h, ViewOK(v, h), NEW u, u = Sync(v)
    PROVE  /\ ViewOK(u, h) /\ Alike(v.ws, u.ws)
           /\ u.input = v.input /\ u.screen = v.screen
<1> DEFINE w == v.ws
           d == SetActiveDraft(w, v.input)
           o == SetActiveOutput(d, v.screen)
           x == IF ActiveID(w) \in shells THEN d ELSE o
<1>1. v \in Views /\ WorkspaceOK(w, h) /\ v.screen = Shown(w) /\ Typed(w, h, v.input)
  BY ViewFacts
<1>2. WorkspaceOK(d, h) /\ Alike(w, d) /\ Shown(d) = Shown(w)
  BY <1>1, DraftSaved
<1>3. u = [v EXCEPT !.ws = x]
  BY DEF Sync
<1> HIDE DEF d, w
<1>4. (d.active = w.active /\ d.tabs[d.active].id = w.tabs[w.active].id) \/ w.active = 0
  <2>1. w.active # 0 => w.active \in DOMAIN w.tabs
    BY <1>1, WorkspaceFacts
  <2> QED BY <1>2, <2>1 DEF Alike, Changed, InPlace
<1>5. d.active = w.active
  BY <1>2 DEF Alike, Changed
<1>6. WorkspaceOK(o, h) /\ Alike(d, o) /\ Shown(o) = Shown(w)
  <2>1. v.screen \in Seq(Piece) /\ Retained(v.screen) = v.screen
    BY <1>1, ShownOf
  <2>2. d.active # 0 => \A n \in DOMAIN v.screen : v.screen[n].tab = d.tabs[d.active].id
    BY <1>1, <1>4, <1>5, ShownOf
  <2>3. /\ WorkspaceOK(o, h) /\ Alike(d, o)
        /\ Shown(o) = IF d.active = 0 THEN <<>> ELSE Retained(v.screen)
    BY <1>2, <2>1, <2>2, OutputSaved
  <2>4. w.active = 0 => Shown(w) = <<>>
    BY DEF Shown
  <2> QED BY <1>1, <1>5, <2>1, <2>3, <2>4
<1>7. Alike(w, o)
  BY <1>1, <1>2, <1>6, AlikeTrans
<1> HIDE DEF o
<1>8. WorkspaceOK(x, h) /\ Alike(w, x) /\ Shown(x) = Shown(w)
  BY <1>2, <1>6, <1>7
<1> HIDE DEF x
<1>9. Typed(x, h, v.input)
  <2>1. Changed(w, x) /\ \A i \in DOMAIN x.tabs : TabOK(x.tabs[i], x.next, h)
    BY <1>8, WorkspaceFacts DEF Alike
  <2> QED BY <1>1, <2>1, ChangedWorkspace
<1>10. /\ u \in Views /\ u.ws = x /\ u.input = v.input /\ u.screen = v.screen
  <2>1. x \in Workspace
    BY <1>8, WorkspaceFacts
  <2> QED BY <1>1, <1>3, <2>1 DEF Views
<1>11. ViewOK(u, h)
  BY <1>1, <1>8, <1>9, <1>10, ViewIs
<1> QED
  BY <1>8, <1>10, <1>11 DEF w

\* What Alike preserves, of workspaces in order.
LEMMA AlikeFacts ==
    ASSUME NEW w, NEW h, WorkspaceOK(w, h), NEW u, WorkspaceOK(u, h), Alike(w, u)
    PROVE  /\ IDs(u) = IDs(w) /\ ActiveID(u) = ActiveID(w) /\ Descends(w, u)
           /\ Running(u) = Running(w) /\ Strip(u) = Strip(w)
           /\ u.next = w.next /\ u.active = w.active /\ u.closed = w.closed
           /\ DOMAIN u.tabs = DOMAIN w.tabs
           /\ \A id : IndexOf(u, id) = IndexOf(w, id)
<1>1. Changed(w, u) /\ \A i \in DOMAIN u.tabs : TabOK(u.tabs[i], u.next, h)
  BY WorkspaceFacts DEF Alike
<1>2. u.next = w.next /\ u.active = w.active /\ u.closed = w.closed
  BY <1>1 DEF Changed
<1>3. Running(u) = Running(w) /\ Strip(u) = Strip(w)
  BY AlikeRuns
<1>4. /\ IDs(u) = IDs(w) /\ ActiveID(u) = ActiveID(w) /\ Descends(w, u)
      /\ DOMAIN u.tabs = DOMAIN w.tabs /\ \A id : IndexOf(u, id) = IndexOf(w, id)
  BY <1>1, ChangedWorkspace
<1> QED
  BY <1>2, <1>3, <1>4

LEMMA RenderOK ==
    ASSUME NEW v \in Views, NEW h, WorkspaceOK(v.ws, h), NEW u, u = Render(v)
    PROVE  ViewOK(u, h) /\ u.ws = v.ws
<1> DEFINE w == v.ws
           tab == w.tabs[w.active]
<1>1. CASE w.active \in DOMAIN w.tabs
  <2>1. w.active # 0
    BY <1>1, WorkspaceFacts
  <2>2. tab \in Tab /\ TabOK(tab, w.next, h)
    BY <1>1, WorkspaceFacts
  <2>3. u = [v EXCEPT !.input = tab.draft, !.screen = Retained(tab.output)]
    BY <1>1 DEF Render
  <2>4. Shown(w) = Retained(tab.output)
    BY <2>1 DEF Shown
  <2>5. Shown(w) \in Seq(Piece) /\ tab.draft \in Nat /\ OwnIn(h, tab, tab.draft)
    BY <2>2, ShownOf DEF Tab, TabOK
  <2>6. Typed(w, h, tab.draft)
    BY <2>1, <2>5 DEF Typed
  <2> HIDE DEF tab
  <2>7. u \in Views /\ u.ws = w /\ u.input = tab.draft /\ u.screen = Shown(w)
    BY <2>3, <2>4, <2>5 DEF Views
  <2> QED BY <2>6, <2>7, ViewIs
<1>2. CASE w.active \notin DOMAIN w.tabs
  <2>1. w.active = 0
    BY <1>2, WorkspaceFacts
  <2>2. u = [v EXCEPT !.input = NoDraft, !.screen = <<>>]
    BY <1>2 DEF Render
  <2>3. Shown(w) = <<>> /\ Typed(w, h, NoDraft) /\ NoDraft \in Nat
    BY <2>1 DEF Shown, Typed, NoDraft
  <2>4. u \in Views /\ u.ws = w /\ u.input = NoDraft /\ u.screen = <<>>
    <3>1. <<>> \in Seq(Piece)
      OBVIOUS
    <3> QED BY <2>2, <2>3, <3>1 DEF Views
  <2> QED BY <2>3, <2>4, ViewIs
<1> QED
  BY <1>1, <1>2


LEMMA DescendsTrans ==
    ASSUME NEW w, NEW u, NEW x, Descends(w, u), Descends(u, x)
    PROVE  Descends(w, x)
BY DEF Descends

LEMMA FewerTrans ==
    ASSUME NEW w, NEW u, NEW x, Fewer(w, u), Fewer(u, x)
    PROVE  Fewer(w, x)
<1>1. Descends(w, x)
  BY DescendsTrans DEF Fewer
<1> QED
  BY <1>1 DEF Fewer

\* Another tab becomes active.
LEMMA SelectedTab ==
    ASSUME NEW v, NEW h, ViewOK(v, h), NEW id \in IDs(v.ws), NEW u, u = SelectTab(v, id)
    PROVE  /\ ViewOK(u, h) /\ u.ws.next = v.ws.next /\ IDs(u.ws) = IDs(v.ws)
           /\ Running(u.ws) = Running(v.ws) /\ Strip(u.ws) = Strip(v.ws)
           /\ Descends(v.ws, u.ws)
           /\ id = ActiveID(v.ws) => u = v
<1>1. CASE id = ActiveID(v.ws)
  <2>1. u = v
    BY <1>1 DEF SelectTab
  <2> QED BY <2>1 DEF Descends
<1>2. CASE id # ActiveID(v.ws)
  <2> DEFINE s == Sync(v).ws
             k == IndexOf(s, id)
             x == [s EXCEPT !.active = k]
             y == [v EXCEPT !.ws = x]
  <2>1. ViewOK(Sync(v), h) /\ Alike(v.ws, s)
    BY SyncOK
  <2>2. WorkspaceOK(s, h) /\ v \in Views /\ WorkspaceOK(v.ws, h)
    BY <2>1, ViewFacts
  <2> HIDE DEF s
  <2>3. /\ IDs(s) = IDs(v.ws) /\ Descends(v.ws, s) /\ Running(s) = Running(v.ws)
        /\ Strip(s) = Strip(v.ws) /\ s.next = v.ws.next
    BY <2>1, <2>2, AlikeFacts
  <2>4. k \in DOMAIN s.tabs
    BY <2>2, <2>3, IndexOfTab
  <2>5. /\ s \in Workspace /\ Len(s.tabs) \in Nat /\ DOMAIN s.tabs = 1..Len(s.tabs)
        /\ Len(s.closed) <= ClosedLimit /\ TabsOK(s.tabs, s.next, h)
    BY <2>2, WorkspaceFacts DEF WorkspaceOK
  <2>6. u = Render(y)
    BY <1>2 DEF SelectTab, Select, s
  <2> HIDE DEF k
  <2>7. k \in Nat /\ k # 0 /\ k \in 0..Len(s.tabs) /\ s.tabs # <<>>
    BY <2>4, <2>5
  <2>8. /\ x \in Workspace /\ x.tabs = s.tabs /\ x.active = k /\ x.next = s.next
        /\ x.closed = s.closed
    BY <2>5, <2>7 DEF Workspace
  <2> HIDE DEF x
  <2>9. WorkspaceOK(x, h)
    BY <2>5, <2>7, <2>8 DEF WorkspaceOK
  <2>10. y \in Views /\ y.ws = x
    BY <2>2, <2>8 DEF Views
  <2> HIDE DEF y
  <2>11. ViewOK(u, h) /\ u.ws = x
    BY <2>6, <2>9, <2>10, RenderOK
  <2>12. /\ IDs(x) = IDs(s) /\ Running(x) = Running(s) /\ Strip(x) = Strip(s)
         /\ Descends(s, x)
    BY <2>8 DEF IDs, Running, Strip, Descends
  <2> QED BY <1>2, <2>3, <2>8, <2>11, <2>12, DescendsTrans
<1> QED
  BY <1>1, <1>2

\* A tab is opened.
LEMMA OpenedAlike ==
    ASSUME NEW w, NEW h, WorkspaceOK(w, h), NEW s, WorkspaceOK(s, h), Alike(w, s),
           NEW u, NEW p, Opened(s, u, p)
    PROVE  Opened(w, u, p)
<1>1. IDs(s) = IDs(w) /\ Descends(w, s) /\ Running(s) = Running(w) /\ s.next = w.next
  BY AlikeFacts
<1>2. ASSUME NEW i \in DOMAIN u.tabs
      PROVE  \/ u.tabs[i].id = w.next + 1
             \/ \E j \in DOMAIN w.tabs :
                   u.tabs[i].id = w.tabs[j].id /\ u.tabs[i].profile = w.tabs[j].profile
  BY <1>1 DEF Opened, Descends
<1> QED
  BY <1>1, <1>2 DEF Opened

\* The view on a workspace that has one tab more than the view v.
LEMMA ShownOpened ==
    ASSUME NEW v, NEW h, ViewOK(v, h), NEW x, WorkspaceOK(x, h), NEW p,
           Opened(Sync(v).ws, x, p), NEW u, u = Render([v EXCEPT !.ws = x])
    PROVE  ViewOK(u, h) /\ Opened(v.ws, u.ws, p)
<1>1. ViewOK(Sync(v), h) /\ Alike(v.ws, Sync(v).ws)
  BY SyncOK
<1>2. WorkspaceOK(Sync(v).ws, h) /\ v \in Views /\ WorkspaceOK(v.ws, h)
  BY <1>1, ViewFacts
<1>3. Opened(v.ws, x, p)
  BY <1>1, <1>2, OpenedAlike
<1> DEFINE y == [v EXCEPT !.ws = x]
<1>4. x \in Workspace
  BY WorkspaceFacts
<1>5. y \in Views /\ y.ws = x
  BY <1>2, <1>4 DEF Views
<1> HIDE DEF y
<1>6. u = Render(y)
  BY DEF y
<1>7. ViewOK(u, h) /\ u.ws = x
  BY <1>5, <1>6, RenderOK
<1> QED
  BY <1>3, <1>7

LEMMA OpenTabOK ==
    ASSUME NEW v, NEW h, ViewOK(v, h), NEW p \in Profiles, NEW u, u = OpenTab(v, p)
    PROVE  ViewOK(u, h) /\ Opened(v.ws, u.ws, p)
<1> DEFINE x == Open(Sync(v).ws, p)
<1>1. ViewOK(Sync(v), h)
  BY SyncOK
<1>2. WorkspaceOK(Sync(v).ws, h)
  BY <1>1, ViewFacts
<1>3. WorkspaceOK(x, h) /\ Opened(Sync(v).ws, x, p)
  BY <1>2, OpenedTab
<1>4. u = Render([v EXCEPT !.ws = x])
  BY DEF OpenTab
<1> HIDE DEF x
<1> QED
  BY <1>3, <1>4, ShownOpened

\* closeSessionByID.
LEMMA CloseTabOK ==
    ASSUME NEW v, NEW h, ViewOK(v, h), NEW id, NEW u, u = CloseTab(v, id)
    PROVE  ViewOK(u, h) /\ Fewer(v.ws, u.ws) /\ IDs(v.ws) \ {id} \subseteq IDs(u.ws)
<1> DEFINE s == IF id = ActiveID(v.ws) THEN Sync(v).ws ELSE v.ws
           i == IndexOf(v.ws, id)
<1>1. \A w : Descends(w, w)
  BY DEF Descends
<1>2. v \in Views /\ WorkspaceOK(v.ws, h) /\ v.screen = Shown(v.ws) /\ Typed(v.ws, h, v.input)
  BY ViewFacts
<1>3. WorkspaceOK(s, h) /\ Alike(v.ws, s) /\ Shown(s) = v.screen /\ Typed(s, h, v.input)
  <2>1. CASE id = ActiveID(v.ws)
    <3>1. ViewOK(Sync(v), h) /\ Alike(v.ws, Sync(v).ws) /\ Sync(v).input = v.input
          /\ Sync(v).screen = v.screen
      BY SyncOK
    <3>2. s = Sync(v).ws
      BY <2>1
    <3> QED BY <3>1, <3>2, ViewFacts
  <2>2. CASE id # ActiveID(v.ws)
    <3>1. s = v.ws
      BY <2>2
    <3> QED BY <1>2, <3>1, AlikeSelf
  <2> QED BY <2>1, <2>2
<1> HIDE DEF s
<1>4. /\ IDs(s) = IDs(v.ws) /\ ActiveID(s) = ActiveID(v.ws) /\ Descends(v.ws, s)
      /\ Running(s) = Running(v.ws) /\ s.next = v.ws.next /\ DOMAIN s.tabs = DOMAIN v.ws.tabs
      /\ IndexOf(s, id) = i
  BY <1>2, <1>3, AlikeFacts
<1>5. CASE id \notin IDs(v.ws) \/ TabOf(v.ws, id).pinned
  <2>1. u = v
    BY <1>5 DEF CloseTab
  <2> QED BY <1>1, <2>1 DEF Fewer
<1>6. CASE ~(id \notin IDs(v.ws) \/ TabOf(v.ws, id).pinned) /\ CanClose(v.ws, i)
  <2> DEFINE x == Close(s, i)
             y == [v EXCEPT !.ws = x]
  <2>1. u = Render(y)
    BY <1>4, <1>6 DEF CloseTab, s
  <2>2. i \in DOMAIN s.tabs /\ s.tabs[i].status # "running" /\ s.tabs[i].id = id
    <3>1. i \in DOMAIN v.ws.tabs /\ v.ws.tabs[i].status # "running" /\ v.ws.tabs[i].id = id
      BY <1>2, <1>6, IndexOfTab DEF CanClose
    <3> QED BY <1>3, <1>4, <3>1 DEF Alike, Changed, InPlace
  <2> HIDE DEF i
  <2>3. WorkspaceOK(x, h) /\ Fewer(s, x) /\ IDs(s) \ {id} \subseteq IDs(x)
    BY <1>3, <2>2, ClosedTab
  <2> HIDE DEF x
  <2>4. y \in Views /\ y.ws = x
    <3>1. x \in Workspace
      BY <2>3, WorkspaceFacts
    <3> QED BY <1>2, <3>1 DEF Views
  <2> HIDE DEF y
  <2>5. ViewOK(u, h) /\ u.ws = x
    BY <2>1, <2>3, <2>4, RenderOK
  <2>6. Fewer(v.ws, s)
    BY <1>4 DEF Fewer
  <2>7. Fewer(v.ws, x)
    BY <2>3, <2>6, FewerTrans
  <2> QED BY <1>4, <2>3, <2>5, <2>7
<1>7. CASE ~(id \notin IDs(v.ws) \/ TabOf(v.ws, id).pinned) /\ ~CanClose(v.ws, i)
  <2>1. u = [v EXCEPT !.ws = s]
    BY <1>7 DEF CloseTab, s
  <2>2. s \in Workspace
    BY <1>3, WorkspaceFacts
  <2>3. u \in Views /\ u.ws = s /\ u.input = v.input /\ u.screen = v.screen
    BY <1>2, <2>1, <2>2 DEF Views
  <2>4. ViewOK(u, h)
    BY <1>3, <2>3, ViewIs
  <2> QED BY <1>4, <2>3, <2>4 DEF Fewer
<1> QED
  BY <1>5, <1>6, <1>7


\* The views a batch passes through: none of them has lost the tab it keeps.
Passed(v, h, target) ==
    {u \in Views : ViewOK(u, h) /\ Fewer(v.ws, u.ws) /\ target \in IDs(u.ws)}

LEMMA PassedOn ==
    ASSUME NEW v, NEW h, NEW target, NEW u \in Passed(v, h, target), NEW id, id # target
    PROVE  CloseTab(u, id) \in Passed(v, h, target)
<1> DEFINE x == CloseTab(u, id)
<1>1. ViewOK(u, h) /\ Fewer(v.ws, u.ws) /\ target \in IDs(u.ws)
  BY DEF Passed
<1>2. ViewOK(x, h) /\ Fewer(u.ws, x.ws) /\ IDs(u.ws) \ {id} \subseteq IDs(x.ws)
  BY <1>1, CloseTabOK
<1> HIDE DEF x
<1>3. Fewer(v.ws, x.ws)
  BY <1>1, <1>2, FewerTrans
<1>4. x \in Views
  BY <1>2, ViewFacts
<1> QED
  BY <1>1, <1>2, <1>3, <1>4 DEF Passed, x

\* closeSessionBatch.
LEMMA CloseTabsOK ==
    ASSUME NEW v, NEW h, ViewOK(v, h), NEW target \in IDs(v.ws), NEW mode,
           NEW u, u = CloseTabs(v, target, mode)
    PROVE  /\ ViewOK(u, h) /\ u.ws.next = v.ws.next /\ IDs(u.ws) \subseteq IDs(v.ws)
           /\ Running(u.ws) = Running(v.ws) /\ Descends(v.ws, u.ws)
           /\ mode # "others" => Fewer(v.ws, u.ws)
<1> DEFINE tabs == v.ws.tabs
           n == Len(tabs)
           closing == Affected(v.ws, target, mode)
           id(m) == tabs[n - m + 1].id
           V == Passed(v, h, target)
           Step(f) == [m \in 0..n |->
              IF m = 0 THEN v
              ELSE IF id(m) \in closing THEN CloseTab(f[m - 1], id(m)) ELSE f[m - 1]]
           F == [m \in 1..n |->
                   [x \in V |-> IF id(m) \in closing THEN CloseTab(x, id(m)) ELSE x]]
           after == CHOOSE f : f = Step(f)
<1>1. v \in Views /\ WorkspaceOK(v.ws, h)
  BY ViewFacts
<1>2. n \in Nat
  BY <1>1, WorkspaceFacts
<1>3. target \notin closing
  <2> DEFINE place == IndexOf(v.ws, target)
  <2>1. \A i \in DOMAIN tabs : tabs[i].id = target => i = place
    BY <1>1, IndexOfTab
  <2> QED BY <2>1 DEF Affected
<1>4. v \in V
  <2>1. Fewer(v.ws, v.ws)
    BY DEF Fewer, Descends
  <2> QED BY <1>1, <2>1 DEF Passed
<1> HIDE DEF closing, V, n, tabs
<1>5. ASSUME NEW m, NEW x \in V
      PROVE  (IF id(m) \in closing THEN CloseTab(x, id(m)) ELSE x) \in V
  <2>1. CASE id(m) \in closing
    <3>1. id(m) # target
      BY <1>3, <2>1
    <3> HIDE DEF id
    <3>2. CloseTab(x, id(m)) \in V
      BY <3>1, PassedOn DEF V
    <3> QED BY <2>1, <3>2
  <2>2. CASE id(m) \notin closing
    BY <2>2
  <2> QED BY <2>1, <2>2
<1> HIDE DEF id
<1>6. F \in Iterations(n, V)
  BY <1>5 DEF Iterations
<1>7. PICK g : Solves(g, n, V, v, F)
  <2> HIDE DEF F
  <2> QED BY <1>2, <1>4, <1>6, Recursion
<1>8. /\ g \in [0..n -> V] /\ g[0] = v
      /\ \A m \in 1..n : g[m] = F[m][g[m - 1]]
  <2> HIDE DEF F
  <2> QED BY <1>7 DEF Solves
<1>9. ASSUME NEW m \in 1..n
      PROVE  g[m] = IF id(m) \in closing THEN CloseTab(g[m - 1], id(m)) ELSE g[m - 1]
  <2>1. m - 1 \in 0..n
    BY <1>2
  <2>2. g[m - 1] \in V
    <3> HIDE DEF F
    <3> QED BY <1>8, <2>1
  <2>3. g[m] = F[m][g[m - 1]]
    BY <1>8
  <2>4. \A x \in V : F[m][x] = IF id(m) \in closing THEN CloseTab(x, id(m)) ELSE x
    OBVIOUS
  <2> HIDE DEF F
  <2> QED BY <2>2, <2>3, <2>4
<1>10. g = Step(g)
  <2>1. DOMAIN g = 0..n /\ g = [m \in 0..n |-> g[m]]
    BY <1>8
  <2>2. \A m \in 0..n : g[m] = Step(g)[m]
    <3> SUFFICES ASSUME NEW m \in 0..n PROVE g[m] = Step(g)[m]
      OBVIOUS
    <3> HIDE DEF F
    <3>1. CASE m = 0
      BY <1>8, <3>1
    <3>2. CASE m \in 1..n
      <4>1. m # 0
        BY <1>2, <3>2
      <4>2. Step(g)[m] = IF id(m) \in closing THEN CloseTab(g[m - 1], id(m)) ELSE g[m - 1]
        BY <4>1
      <4> HIDE DEF Step
      <4> QED BY <1>9, <3>2, <4>2
    <3> QED BY <1>2, <3>1, <3>2
  <2>3. Step(g) = [m \in 0..n |-> Step(g)[m]]
    OBVIOUS
  <2> HIDE DEF Step, F
  <2> QED BY <2>1, <2>2, <2>3
<1>11. after = Step(after)
  <2> HIDE DEF Step
  <2> QED BY <1>10
<1>12. \A m \in 0..n : after[m] = g[m]
  <2> DEFINE P == {m \in 0..n : after[m] = g[m]}
  <2> HIDE DEF after
  <2>1. 0 \in P
    BY <1>2, <1>8, <1>11
  <2>2. ASSUME NEW m \in 0..(n - 1), m \in P PROVE m + 1 \in P
    <3>1. m + 1 \in 1..n /\ m + 1 \in 0..n /\ m + 1 # 0 /\ (m + 1) - 1 = m
      BY <1>2
    <3>2. after[m + 1] = Step(after)[m + 1]
      <4> HIDE DEF Step
      <4> QED BY <1>11
    <3>3. after[m + 1] = IF id(m + 1) \in closing THEN CloseTab(after[m], id(m + 1)) ELSE after[m]
      <4> HIDE DEF F
      <4> QED BY <3>1, <3>2
    <3>4. g[m + 1] = IF id(m + 1) \in closing THEN CloseTab(g[m], id(m + 1)) ELSE g[m]
      <4> HIDE DEF F, Step
      <4> QED BY <1>9, <3>1
    <3> HIDE DEF F, Step
    <3> QED BY <2>2, <3>1, <3>3, <3>4
  <2> HIDE DEF P
  <2>3. \A m \in 0..n : m \in P
    BY <1>2, <2>1, <2>2, UpTo
  <2> QED BY <2>3 DEF P
<1>13. after[n] \in V
  <2> HIDE DEF after, F
  <2>1. n \in 0..n
    BY <1>2
  <2> QED BY <1>8, <1>12, <2>1
<1>14. u = IF mode = "others" THEN SelectTab(after[n], target) ELSE after[n]
  BY DEF CloseTabs, tabs, n, closing, id
<1> DEFINE c == after[n]
<1> HIDE DEF after, F, Step
<1>15. ViewOK(c, h) /\ Fewer(v.ws, c.ws) /\ target \in IDs(c.ws)
  BY <1>13 DEF V, Passed
<1> HIDE DEF c
<1>16. u = IF mode = "others" THEN SelectTab(c, target) ELSE c
  BY <1>14 DEF c
<1>17. CASE mode = "others"
  <2>1. u = SelectTab(c, target)
    BY <1>16, <1>17
  <2>2. /\ ViewOK(u, h) /\ u.ws.next = c.ws.next /\ IDs(u.ws) = IDs(c.ws)
        /\ Running(u.ws) = Running(c.ws) /\ Descends(c.ws, u.ws)
    BY <1>15, <2>1, SelectedTab
  <2>3. Descends(v.ws, u.ws)
    BY <1>15, <2>2, DescendsTrans DEF Fewer
  <2> QED BY <1>15, <1>17, <2>2, <2>3 DEF Fewer
<1>18. CASE mode # "others"
  <2>1. u = c
    BY <1>16, <1>18
  <2> QED BY <1>15, <2>1 DEF Fewer
<1> QED
  BY <1>17, <1>18


-----------------------------------------------------------------------------
\* The handlers.

\* Every tab of u is new or one of w.
Renewed(w, u) ==
    /\ u.next \in Nat /\ w.next <= u.next
    /\ \A i \in DOMAIN u.tabs :
          \/ u.tabs[i].id > w.next
          \/ \E j \in DOMAIN w.tabs :
                u.tabs[i].id = w.tabs[j].id /\ u.tabs[i].profile = w.tabs[j].profile

SelectionStep ==
    /\ Strip(workspace') # Strip(workspace)
    /\ IDs(workspace') \subseteq IDs(workspace)
    /\ ActiveID(workspace) \in IDs(workspace')
    /\ ActiveID(workspace') # ActiveID(workspace)
    => \E id \in Tabs : CloseBatch(id, "others")

\* What a handler leaves, before a command is recorded.
StepOK ==
    /\ ViewOK(View', history)
    /\ workspace'.next <= MaxRuntimes /\ shells' \subseteq IDs(workspace') /\ printed' \in 0..MaxOutput
    /\ RunsOK'
    /\ Renewed(workspace, workspace')
    /\ SelectionStep

LEMMA ViewNow ==
    ASSUME ControllerInv
    PROVE  /\ ViewOK(View, history) /\ View.ws = workspace /\ View.input = input
           /\ View.screen = screen /\ View \in Views /\ WorkspaceOK(workspace, history)
           /\ screen = Shown(workspace) /\ Typed(workspace, history, input)
           /\ workspace.next \in Nat
<1>1. ViewOK(View, history)
  BY DEF ControllerInv
<1>2. View.ws = workspace /\ View.input = input /\ View.screen = screen
  BY DEF View
<1>3. /\ View \in Views /\ WorkspaceOK(workspace, history)
      /\ screen = Shown(workspace) /\ Typed(workspace, history, input)
  BY <1>1, <1>2, ViewFacts
<1> QED
  BY <1>1, <1>2, <1>3, WorkspaceFacts

LEMMA RunsKept ==
    ASSUME RunsOK, UNCHANGED runRecords, Running(workspace') = Running(workspace)
    PROVE  RunsOK'
BY DEF RunsOK, runRecords

LEMMA DescendsRenewed ==
    ASSUME NEW w, NEW u, Descends(w, u), u.next = w.next, w.next \in Nat
    PROVE  Renewed(w, u)
BY DEF Descends, Renewed

LEMMA OpenedRenewed ==
    ASSUME NEW w, NEW u, NEW p, Opened(w, u, p), w.next \in Nat
    PROVE  Renewed(w, u)
<1>1. u.next = w.next + 1 /\ w.next + 1 > w.next
  BY DEF Opened
<1> QED
  BY <1>1 DEF Opened, Renewed

\* A view that is published.
LEMMA Published ==
    ASSUME NEW u \in Views, Publish(u)
    PROVE  View' = u /\ workspace' = u.ws /\ screen' = u.screen /\ input' = u.input
<1>1. u = [ws |-> u.ws, input |-> u.input, screen |-> u.screen]
  BY DEF Views
<1>2. workspace' = u.ws /\ screen' = u.screen /\ input' = u.input
  BY DEF Publish
<1>3. View' = [ws |-> u.ws, input |-> u.input, screen |-> u.screen]
  BY <1>2 DEF View
<1> QED
  BY <1>1, <1>2, <1>3

LEMMA ShowsTabs ==
    ASSUME ControllerInv, NEW u, ViewOK(u, history), Show(u), UNCHANGED runRecords,
           u.ws.next = workspace.next, Running(u.ws) = Running(workspace),
           Descends(workspace, u.ws), SelectionStep
    PROVE  StepOK
<1>1. View' = u /\ workspace' = u.ws
  BY ViewFacts, Published DEF Show
<1>2. Renewed(workspace, workspace')
  BY <1>1, ViewNow, DescendsRenewed
<1>3. RunsOK'
  BY <1>1, RunsKept DEF ControllerInv
<1>4. shells' \subseteq IDs(workspace') /\ printed' \in 0..MaxOutput /\ workspace'.next <= MaxRuntimes
  BY <1>1 DEF Show, ControllerInv
<1> QED
  BY <1>1, <1>2, <1>3, <1>4 DEF StepOK

LEMMA OpenedActive ==
    ASSUME NEW w, NEW u, NEW p, Opened(w, u, p)
    PROVE  ActiveID(u) = w.next + 1 /\ ActiveID(u) \in IDs(u) /\ IDs(w) \subseteq IDs(u)
BY DEF Opened, ActiveID

\* An opened tab is never among those there were.
LEMMA OpenedSelection ==
    ASSUME ControllerInv, workspace.next + 1 \in IDs(workspace')
    PROVE  SelectionStep
<1>1. IDs(workspace) \subseteq 1..workspace.next /\ workspace.next \in Nat
  BY ViewNow, ActiveTab
<1>2. workspace.next + 1 \notin IDs(workspace)
  BY <1>1
<1> QED
  BY <1>2 DEF SelectionStep

LEMMA OpensTab ==
    ASSUME ControllerInv, CanOpen, NEW u, ViewOK(u, history), ShowNew(u),
           UNCHANGED runRecords, NEW p, Opened(workspace, u.ws, p)
    PROVE  StepOK
<1>1. View' = u /\ workspace' = u.ws
  BY ViewFacts, Published DEF ShowNew
<1>2. Renewed(workspace, workspace')
  BY <1>1, ViewNow, OpenedRenewed
<1>3. RunsOK'
  BY <1>1, RunsKept DEF ControllerInv, Opened
<1>4. workspace'.next <= MaxRuntimes
  <2>1. workspace.next \in Nat /\ workspace.next < MaxRuntimes /\ MaxRuntimes \in Nat
    BY ViewNow, ControllerBounds DEF CanOpen
  <2>2. workspace'.next = workspace.next + 1
    BY <1>1 DEF Opened
  <2> QED BY <2>1, <2>2
<1>5. shells' \subseteq IDs(workspace') /\ printed' \in 0..MaxOutput
  <2>1. ActiveID(u.ws) \in IDs(u.ws) /\ IDs(workspace) \subseteq IDs(u.ws)
    BY OpenedActive
  <2> QED BY <1>1, <2>1 DEF ShowNew, ControllerInv
<1>6. SelectionStep
  BY <1>1, OpenedSelection DEF Opened
<1> QED
  BY <1>1, <1>2, <1>3, <1>4, <1>5, <1>6 DEF StepOK

\* A workspace whose tabs change in place, with the terminal and the command line.
LEMMA ChangesTabs ==
    ASSUME ControllerInv, WorkspaceOK(workspace', history), Changed(workspace, workspace'),
           screen' = Shown(workspace'), Typed(workspace', history, input'),
           shells' \subseteq IDs(workspace), printed' \in 0..MaxOutput, RunsOK'
    PROVE  StepOK
<1>1. WorkspaceOK(workspace, history) /\ workspace.next \in Nat
  BY ViewNow
<1>2. /\ IDs(workspace') = IDs(workspace) /\ ActiveID(workspace') = ActiveID(workspace)
      /\ Descends(workspace, workspace')
  <2>1. \A i \in DOMAIN workspace'.tabs : TabOK(workspace'.tabs[i], workspace'.next, history)
    BY WorkspaceFacts
  <2> QED BY <1>1, <2>1, ChangedWorkspace
<1>3. workspace'.next = workspace.next
  BY DEF Changed
<1>4. Renewed(workspace, workspace')
  BY <1>1, <1>2, <1>3, DescendsRenewed
<1>5. ViewOK(View', history)
  BY Zenon DEF View, ViewOK
<1> QED
  BY <1>2, <1>3, <1>4, <1>5 DEF StepOK, SelectionStep, ControllerInv


LEMMA SyncNow ==
    ASSUME ControllerInv, NEW s, s = Sync(View).ws
    PROVE  /\ ViewOK(Sync(View), history) /\ WorkspaceOK(s, history)
           /\ Alike(workspace, s) /\ Changed(workspace, s)
           /\ Shown(s) = screen /\ Typed(s, history, input)
           /\ IDs(s) = IDs(workspace) /\ ActiveID(s) = ActiveID(workspace)
           /\ Running(s) = Running(workspace) /\ s.next = workspace.next
           /\ s.active = workspace.active /\ s.closed = workspace.closed
           /\ Descends(workspace, s) /\ DOMAIN s.tabs = DOMAIN workspace.tabs
           /\ \A id : IndexOf(s, id) = IndexOf(workspace, id)
           /\ Strip(s) = Strip(workspace)
<1>1. /\ ViewOK(Sync(View), history) /\ Alike(workspace, s)
      /\ Sync(View).input = input /\ Sync(View).screen = screen
  BY ViewNow, SyncOK
<1>2. WorkspaceOK(s, history) /\ Shown(s) = screen /\ Typed(s, history, input)
  BY <1>1, ViewFacts
<1>3. WorkspaceOK(workspace, history)
  BY ViewNow
<1>4. /\ IDs(s) = IDs(workspace) /\ ActiveID(s) = ActiveID(workspace)
      /\ Running(s) = Running(workspace) /\ s.next = workspace.next
      /\ s.active = workspace.active /\ s.closed = workspace.closed
      /\ Descends(workspace, s) /\ DOMAIN s.tabs = DOMAIN workspace.tabs
      /\ \A id : IndexOf(s, id) = IndexOf(workspace, id)
      /\ Strip(s) = Strip(workspace)
  BY <1>1, <1>2, <1>3, AlikeFacts
<1>5. Changed(workspace, s)
  BY <1>1 DEF Alike
<1> QED
  BY <1>1, <1>2, <1>4, <1>5

LEMMA OpenSessionOK ==
    ASSUME ControllerInv, NEW p \in Profiles, OpenSession(p)
    PROVE  StepOK
<1> DEFINE u == OpenTab(View, p)
<1>1. CanOpen /\ ShowNew(u) /\ UNCHANGED runRecords
  BY DEF OpenSession
<1>2. ViewOK(u, history) /\ Opened(workspace, u.ws, p)
  BY ViewNow, OpenTabOK
<1> HIDE DEF u
<1> QED
  BY <1>1, <1>2, OpensTab

LEMMA ReopenSessionOK ==
    ASSUME ControllerInv, ReopenSession
    PROVE  StepOK
<1> DEFINE s == Sync(View).ws
           x == ReopenLastClosed(s)
           u == Render([View EXCEPT !.ws = x])
<1>1. CanOpen /\ CanReopenClosed(workspace) /\ ShowNew(u) /\ UNCHANGED runRecords
  BY DEF ReopenSession
<1>2. WorkspaceOK(s, history) /\ s.closed = workspace.closed
  BY SyncNow
<1>3. CanReopenClosed(s)
  BY <1>1, <1>2 DEF CanReopenClosed
<1>4. PICK p \in Profiles : WorkspaceOK(x, history) /\ Opened(s, x, p)
  <2> HIDE DEF s
  <2> QED BY <1>2, <1>3, ReopenedTab
<1>5. ViewOK(u, history) /\ Opened(workspace, u.ws, p)
  <2> HIDE DEF x
  <2> QED BY <1>4, ViewNow, ShownOpened
<1> HIDE DEF u
<1> QED
  BY <1>1, <1>5, OpensTab

LEMMA DuplicateSessionOK ==
    ASSUME ControllerInv, DuplicateSession
    PROVE  StepOK
<1> DEFINE s == Sync(View).ws
           p == s.tabs[s.active].profile
           x == Open(s, p)
           u == Render([View EXCEPT !.ws = x])
<1>1. CanOpen /\ workspace.active # 0 /\ ShowNew(u) /\ UNCHANGED runRecords
  BY DEF DuplicateSession, DuplicateActive
<1>2. WorkspaceOK(s, history) /\ s.active = workspace.active
  BY SyncNow
<1> HIDE DEF s
<1>3. p \in Profiles
  <2>1. s.tabs[s.active] \in Tab
    BY <1>1, <1>2, WorkspaceFacts
  <2> QED BY <2>1 DEF Tab
<1> HIDE DEF p
<1>4. WorkspaceOK(x, history) /\ Opened(s, x, p)
  BY <1>2, <1>3, OpenedTab
<1> HIDE DEF x
<1>5. ViewOK(u, history) /\ Opened(workspace, u.ws, p)
  BY <1>4, ViewNow, ShownOpened DEF s
<1> HIDE DEF u
<1> QED
  BY <1>1, <1>5, OpensTab

LEMMA SelectSessionOK ==
    ASSUME ControllerInv, NEW id, SelectSession(id)
    PROVE  StepOK
<1> DEFINE u == SelectTab(View, id)
<1>1. id \in IDs(workspace) /\ Show(u) /\ UNCHANGED runRecords
  BY DEF SelectSession
<1>2. /\ ViewOK(u, history) /\ u.ws.next = workspace.next
      /\ Running(u.ws) = Running(workspace) /\ Strip(u.ws) = Strip(workspace)
      /\ Descends(workspace, u.ws)
  BY <1>1, ViewNow, SelectedTab
<1> HIDE DEF u
<1>3. workspace' = u.ws
  BY <1>1 DEF Show, Publish
<1>4. SelectionStep
  BY <1>2, <1>3 DEF SelectionStep
<1> QED
  BY <1>1, <1>2, <1>4, ShowsTabs

\* The active tab stays active, or is gone.
LEMMA FewerSelection ==
    ASSUME Fewer(workspace, workspace')
    PROVE  SelectionStep
BY DEF Fewer, SelectionStep

LEMMA CloseSessionOK ==
    ASSUME ControllerInv, NEW id, CloseSession(id)
    PROVE  StepOK
<1> DEFINE u == CloseTab(View, id)
<1>1. Show(u) /\ UNCHANGED runRecords
  BY DEF CloseSession
<1>2. ViewOK(u, history) /\ Fewer(workspace, u.ws)
  BY ViewNow, CloseTabOK
<1> HIDE DEF u
<1>3. workspace' = u.ws
  BY <1>1 DEF Show, Publish
<1> QED
  BY <1>1, <1>2, <1>3, FewerSelection, ShowsTabs DEF Fewer

LEMMA CloseBatchOK ==
    ASSUME ControllerInv, NEW id \in Tabs, NEW mode, CloseBatch(id, mode)
    PROVE  StepOK
<1> DEFINE u == CloseTabs(View, id, mode)
<1>1. id \in IDs(workspace) /\ Show(u) /\ UNCHANGED runRecords
  BY DEF CloseBatch
<1>2. /\ ViewOK(u, history) /\ u.ws.next = workspace.next
      /\ Running(u.ws) = Running(workspace) /\ Descends(workspace, u.ws)
      /\ mode # "others" => Fewer(workspace, u.ws)
  BY <1>1, ViewNow, CloseTabsOK
<1> HIDE DEF u
<1>3. workspace' = u.ws
  BY <1>1 DEF Show, Publish
<1>4. SelectionStep
  <2>1. CASE mode = "others"
    BY <2>1 DEF SelectionStep
  <2>2. CASE mode # "others"
    BY <1>2, <1>3, <2>2, FewerSelection
  <2> QED BY <2>1, <2>2
<1> QED
  BY <1>1, <1>2, <1>3, <1>4, ShowsTabs

\* Tabs in another order, in the view.
LEMMA RearrangedShows ==
    ASSUME ControllerInv, NEW w, WorkspaceOK(w, history), Shown(w) = screen,
           Typed(w, history, input), IDs(w) = IDs(workspace),
           ActiveID(w) = ActiveID(workspace), w.next = workspace.next,
           Running(w) = Running(workspace), Descends(workspace, w),
           NEW x, Rearranged(w, x, history), Show([View EXCEPT !.ws = x]), UNCHANGED runRecords
    PROVE  StepOK
<1> DEFINE u == [View EXCEPT !.ws = x]
<1>1. View \in Views /\ View.input = input /\ View.screen = screen
  BY ViewNow
<1>2. /\ WorkspaceOK(x, history) /\ x.next = workspace.next /\ IDs(x) = IDs(workspace)
      /\ ActiveID(x) = ActiveID(workspace) /\ Running(x) = Running(workspace)
      /\ Shown(x) = screen /\ Typed(x, history, input)
  BY DEF Rearranged
<1>3. Descends(workspace, x)
  BY DescendsTrans DEF Rearranged
<1>4. x \in Workspace
  BY <1>2, WorkspaceFacts
<1>5. u \in Views /\ u.ws = x /\ u.input = input /\ u.screen = screen
  BY <1>1, <1>4 DEF Views
<1>6. Show(u)
  OBVIOUS
<1> HIDE DEF u
<1>7. ViewOK(u, history)
  BY <1>2, <1>5, ViewIs
<1>8. workspace' = x
  BY <1>5, <1>6 DEF Show, Publish
<1>9. SelectionStep
  BY <1>2, <1>8 DEF SelectionStep
<1> QED
  BY <1>2, <1>3, <1>5, <1>6, <1>7, <1>9, ShowsTabs

LEMMA MoveSessionOK ==
    ASSUME ControllerInv, NEW id, NEW target, MoveSession(id, target)
    PROVE  StepOK
<1> DEFINE s == Sync(View).ws
           x == Move(s, id, target)
<1>1. CanMove(workspace, id, target) /\ Show([View EXCEPT !.ws = x]) /\ UNCHANGED runRecords
  BY DEF MoveSession
<1>2. /\ WorkspaceOK(s, history) /\ Alike(workspace, s)
      /\ Shown(s) = screen /\ Typed(s, history, input)
      /\ IDs(s) = IDs(workspace) /\ ActiveID(s) = ActiveID(workspace)
      /\ Running(s) = Running(workspace) /\ s.next = workspace.next
      /\ Descends(workspace, s) /\ DOMAIN s.tabs = DOMAIN workspace.tabs
      /\ IndexOf(s, id) = IndexOf(workspace, id)
  BY SyncNow
<1> HIDE DEF s
<1>3. CanMove(s, id, target)
  <2>1. \A i \in DOMAIN workspace.tabs : s.tabs[i].pinned = workspace.tabs[i].pinned
    BY <1>2 DEF Alike, Changed, InPlace
  <2>2. id \in IDs(workspace) /\ IndexOf(workspace, id) \in DOMAIN workspace.tabs
    BY <1>1, ViewNow, IndexOfTab DEF CanMove
  <2> QED BY <1>1, <1>2, <2>1, <2>2 DEF CanMove, TabOf
<1>4. Rearranged(s, x, history)
  BY <1>2, <1>3, MovedWorkspace
<1> HIDE DEF x
<1> QED
  BY <1>1, <1>2, <1>4, RearrangedShows

LEMMA TogglePinnedOK ==
    ASSUME ControllerInv, NEW id, TogglePinned(id)
    PROVE  StepOK
<1> DEFINE pinned == ~TabOf(workspace, id).pinned
           x == SetPinned(workspace, id, pinned)
<1>1. id \in IDs(workspace) /\ Show([View EXCEPT !.ws = x]) /\ UNCHANGED runRecords
  BY ViewNow DEF TogglePinned, Views
<1>2. pinned \in BOOLEAN
  OBVIOUS
<1> HIDE DEF pinned
<1>3. Rearranged(workspace, x, history)
  BY <1>1, <1>2, ViewNow, PinnedWorkspace
<1> HIDE DEF x
<1>4. Descends(workspace, workspace)
  BY DEF Descends
<1> QED
  BY <1>1, <1>3, <1>4, ViewNow, RearrangedShows


LEMMA ReconnectOK ==
    ASSUME ControllerInv, Reconnect
    PROVE  StepOK
<1> DEFINE s == Sync(View).ws
<1>1. /\ workspace.active # 0 /\ workspace' = s
      /\ shells' \in {shells, shells \cup {ActiveID(workspace)}}
      /\ UNCHANGED <<input, screen, printed, runRecords>>
  BY DEF Reconnect
<1>2. /\ WorkspaceOK(s, history) /\ Changed(workspace, s)
      /\ Shown(s) = screen /\ Typed(s, history, input) /\ Running(s) = Running(workspace)
  BY SyncNow
<1>3. ActiveID(workspace) \in IDs(workspace)
  BY <1>1, ViewNow, ActiveTab
<1>4. shells' \subseteq IDs(workspace) /\ printed' \in 0..MaxOutput
  BY <1>1, <1>3 DEF ControllerInv
<1> HIDE DEF s
<1>5. RunsOK'
  BY <1>1, <1>2, RunsKept DEF ControllerInv
<1> QED
  BY <1>1, <1>2, <1>4, <1>5, ChangesTabs

LEMMA RebuildWindowOK ==
    ASSUME ControllerInv, RebuildWindow
    PROVE  StepOK
<1> DEFINE v == Sync(View)
           u == Render(v)
<1>1. Show(u) /\ UNCHANGED runRecords
  BY DEF RebuildWindow
<1>2. /\ ViewOK(v, history) /\ Running(v.ws) = Running(workspace)
      /\ v.ws.next = workspace.next /\ Descends(workspace, v.ws) /\ Strip(v.ws) = Strip(workspace)
  BY SyncNow
<1> HIDE DEF v
<1>3. v \in Views /\ WorkspaceOK(v.ws, history)
  BY <1>2, ViewFacts
<1>4. ViewOK(u, history) /\ u.ws = v.ws
  BY <1>3, RenderOK
<1> HIDE DEF u
<1>5. workspace' = u.ws
  BY <1>1 DEF Show, Publish
<1>6. SelectionStep
  BY <1>2, <1>4, <1>5 DEF SelectionStep
<1> QED
  BY <1>1, <1>2, <1>4, <1>6, ShowsTabs

LEMMA ChangedSelf ==
    ASSUME ControllerInv
    PROVE  Changed(workspace, workspace)
BY ViewNow, AlikeSelf DEF Alike

LEMMA TypeTextOK ==
    ASSUME ControllerInv, TypeText
    PROVE  StepOK
<1>1. /\ workspace.active # 0 /\ input' \in {NoDraft, ActiveID(workspace)}
      /\ UNCHANGED <<workspace, screen, shells, printed, runRecords>>
  BY DEF TypeText
<1>2. /\ WorkspaceOK(workspace, history) /\ screen = Shown(workspace)
  BY ViewNow
<1>3. ActiveID(workspace) = workspace.tabs[workspace.active].id
  BY <1>1, <1>2, ActiveTab
<1>4. ActiveID(workspace) \in Nat
  <2>1. workspace.active \in DOMAIN workspace.tabs
    BY <1>1, <1>2, WorkspaceFacts
  <2>2. workspace.tabs[workspace.active] \in Tab
    BY <1>2, <2>1, WorkspaceFacts
  <2> QED BY <1>3, <2>2 DEF Tab
<1>5. Typed(workspace, history, input')
  BY <1>1, <1>3, <1>4 DEF Typed, OwnIn, NoDraft
<1>6. RunsOK'
  BY <1>1, RunsKept DEF ControllerInv
<1>7. shells' \subseteq IDs(workspace) /\ printed' \in 0..MaxOutput
  BY <1>1 DEF ControllerInv
<1> QED
  BY <1>1, <1>2, <1>5, <1>6, <1>7, ChangedSelf, ChangesTabs

\* A line that the active tab may hold becomes its draft and is shown.
LEMMA LineTyped ==
    ASSUME ControllerInv, NEW line, Typed(workspace, history, line),
           workspace' = SetActiveDraft(workspace, line), input' = line,
           shells' \subseteq IDs(workspace), UNCHANGED <<screen, printed, runRecords>>
    PROVE  StepOK
<1> DEFINE s == SetActiveDraft(workspace, line)
<1>1. WorkspaceOK(workspace, history) /\ screen = Shown(workspace)
  BY ViewNow
<1>2. WorkspaceOK(s, history) /\ Alike(workspace, s) /\ Shown(s) = Shown(workspace)
  BY <1>1, DraftSaved
<1>3. workspace' = s
  OBVIOUS
<1> HIDE DEF s
<1>4. Changed(workspace, s) /\ \A i \in DOMAIN s.tabs : TabOK(s.tabs[i], s.next, history)
  BY <1>2, WorkspaceFacts DEF Alike
<1>5. Typed(s, history, line)
  BY <1>1, <1>4, ChangedWorkspace
<1>6. Running(s) = Running(workspace)
  BY <1>1, <1>2, AlikeRuns
<1>7. RunsOK'
  BY <1>3, <1>6, RunsKept DEF ControllerInv
<1>8. printed' \in 0..MaxOutput
  BY DEF ControllerInv
<1> QED
  BY <1>1, <1>2, <1>3, <1>4, <1>5, <1>7, <1>8, ChangesTabs

LEMMA RunCommandOK ==
    ASSUME ControllerInv, RunCommand
    PROVE  StepOK
<1>1. /\ workspace.active # 0 /\ workspace' = SetActiveDraft(workspace, NoDraft)
      /\ input' = NoDraft /\ shells' = shells \cup {ActiveID(workspace)}
      /\ UNCHANGED <<screen, printed, runRecords>>
  BY DEF RunCommand
<1>2. ActiveID(workspace) \in IDs(workspace)
  BY <1>1, ViewNow, ActiveTab
<1>3. shells' \subseteq IDs(workspace)
  BY <1>1, <1>2 DEF ControllerInv
<1>4. Typed(workspace, history, NoDraft)
  BY <1>1 DEF Typed, OwnIn, NoDraft
<1> QED
  BY <1>1, <1>3, <1>4, LineTyped

LEMMA OutputOK ==
    ASSUME ControllerInv, NEW id, NEW hit \in BOOLEAN, Output(id, hit)
    PROVE  StepOK
<1> DEFINE piece == [tab |-> id, hit |-> hit]
           s == AppendOutput(workspace, id, piece)
<1>1. /\ id \in IDs(workspace) /\ printed' = printed + 1 /\ workspace' = s
      /\ screen' = IF id = ActiveID(workspace) THEN Retained(Append(screen, piece)) ELSE screen
      /\ UNCHANGED <<input, shells, runRecords>>
  BY DEF Output
<1>2. /\ WorkspaceOK(workspace, history) /\ screen = Shown(workspace)
      /\ Typed(workspace, history, input)
  BY ViewNow
<1>3. /\ WorkspaceOK(s, history) /\ Alike(workspace, s)
      /\ Shown(s) = IF id = ActiveID(workspace)
                    THEN Retained(Append(Shown(workspace), piece)) ELSE Shown(workspace)
  <2>1. piece = [tab |-> id, hit |-> hit]
    OBVIOUS
  <2> HIDE DEF piece
  <2> QED BY <1>1, <1>2, <2>1, OutputAppended
<1> HIDE DEF s, piece
<1>4. Changed(workspace, s) /\ \A i \in DOMAIN s.tabs : TabOK(s.tabs[i], s.next, history)
  BY <1>3, WorkspaceFacts DEF Alike
<1>5. Typed(s, history, input)
  BY <1>2, <1>4, ChangedWorkspace
<1>6. Running(s) = Running(workspace)
  BY <1>2, <1>3, AlikeRuns
<1>7. RunsOK'
  BY <1>1, <1>6, RunsKept DEF ControllerInv
<1>8. printed' \in 0..MaxOutput /\ shells' \subseteq IDs(workspace)
  <2>1. printed \in 0..MaxOutput /\ printed < MaxOutput /\ MaxOutput \in Nat
    BY ControllerBounds DEF ControllerInv, Output
  <2> QED BY <1>1, <2>1 DEF ControllerInv
<1>9. screen' = Shown(s)
  BY <1>1, <1>2, <1>3
<1> QED
  BY <1>1, <1>3, <1>4, <1>5, <1>7, <1>8, <1>9, ChangesTabs

LEMMA ClearOutputOK ==
    ASSUME ControllerInv, ClearOutput
    PROVE  StepOK
<1> DEFINE s == SetActiveOutput(workspace, <<>>)
<1>1. /\ workspace' = s /\ screen' = <<>> /\ UNCHANGED <<input, shells, printed, runRecords>>
  BY DEF ClearOutput
<1>2. WorkspaceOK(workspace, history) /\ Typed(workspace, history, input)
  BY ViewNow
<1>3. <<>> \in Seq(Piece) /\ Len(<<>>) <= Scrollback /\ DOMAIN <<>> = {}
  BY ControllerBounds
<1>4. Retained(<<>>) = <<>>
  BY <1>3, RetainedShort
<1>5. WorkspaceOK(s, history) /\ Alike(workspace, s) /\ Shown(s) = <<>>
  <2> DEFINE none == <<>>
  <2>1. none \in Seq(Piece) /\ DOMAIN none = {} /\ Retained(none) = none /\ none = <<>>
    BY <1>3, <1>4
  <2> HIDE DEF none
  <2>2. /\ WorkspaceOK(SetActiveOutput(workspace, none), history)
        /\ Alike(workspace, SetActiveOutput(workspace, none))
        /\ Shown(SetActiveOutput(workspace, none)) =
              IF workspace.active = 0 THEN <<>> ELSE Retained(none)
    BY <1>2, <2>1, OutputSaved
  <2> QED BY <2>1, <2>2
<1> HIDE DEF s
<1>6. Changed(workspace, s) /\ \A i \in DOMAIN s.tabs : TabOK(s.tabs[i], s.next, history)
  BY <1>5, WorkspaceFacts DEF Alike
<1>7. Typed(s, history, input)
  BY <1>2, <1>6, ChangedWorkspace
<1>8. Running(s) = Running(workspace)
  BY <1>2, <1>5, AlikeRuns
<1>9. RunsOK'
  BY <1>1, <1>8, RunsKept DEF ControllerInv
<1>10. printed' \in 0..MaxOutput /\ shells' \subseteq IDs(workspace)
  BY <1>1 DEF ControllerInv
<1> QED
  BY <1>1, <1>5, <1>6, <1>7, <1>9, <1>10, ChangesTabs

\* The tabs, the terminal and the command line stay as they are.
LEMMA TabsStay ==
    ASSUME ControllerInv, UNCHANGED <<view, printed>>, shells' \subseteq shells, RunsOK'
    PROVE  StepOK
<1>1. workspace' = workspace /\ input' = input /\ screen' = screen /\ printed' = printed
  BY DEF view
<1>2. /\ WorkspaceOK(workspace, history) /\ screen = Shown(workspace)
      /\ Typed(workspace, history, input)
  BY ViewNow
<1>3. printed' \in 0..MaxOutput /\ shells' \subseteq IDs(workspace)
  BY <1>1 DEF ControllerInv
<1> QED
  BY <1>1, <1>2, <1>3, ChangedSelf, ChangesTabs

LEMMA ShellExitsOK ==
    ASSUME ControllerInv, NEW id, ShellExits(id)
    PROVE  StepOK
<1>1. shells' \subseteq shells /\ UNCHANGED <<view, printed, runRecords>>
  BY DEF ShellExits
<1>2. RunsOK'
  BY <1>1, RunsKept DEF ControllerInv, view
<1> QED
  BY <1>1, <1>2, TabsStay


-----------------------------------------------------------------------------
\* Commands.

\* A command that has started, in a tab that ran none.
LEMMA RunAdded ==
    ASSUME RunsOK, NEW id \in Tabs, runs[id] = NoRun, lastRun < MaxRuns,
           NEW run, run = lastRun + 1, lastRun' = run, runs' = [runs EXCEPT ![id] = run],
           NEW new, new = [session |-> id, run |-> run, cancelled |-> FALSE, result |-> "executing"],
           workers' = workers \cup {new},
           Running(workspace') = Running(workspace) \cup {<<id, run>>}
    PROVE  RunsOK'
<1>1. /\ runs \in [Tabs -> 0..MaxRuns] /\ lastRun \in 0..MaxRuns /\ workers \subseteq Worker
      /\ \A k \in workers : k.run <= lastRun
      /\ \A k, l \in workers : k.run = l.run => k = l
      /\ \A t \in Tabs : runs[t] # NoRun => \E k \in workers : k.session = t /\ k.run = runs[t]
      /\ \A k \in workers : runs[k.session] = k.run
      /\ Running(workspace) = {<<k.session, k.run>> : k \in workers}
  BY DEF RunsOK
<1>2. run \in 1..MaxRuns /\ run > lastRun /\ run \in 0..MaxRuns /\ run <= run
  BY <1>1, ControllerBounds
<1>3. /\ new \in Worker /\ new.session = id /\ new.run = run
  BY <1>2 DEF Worker, Results
<1>4. runs' \in [Tabs -> 0..MaxRuns] /\ runs'[id] = run /\ \A t \in Tabs : t # id => runs'[t] = runs[t]
  BY <1>1, <1>2
<1>5. \A k \in workers : k.session \in Tabs /\ k.run \in 1..MaxRuns /\ k.run # run
  <2> SUFFICES ASSUME NEW k \in workers
               PROVE  k.session \in Tabs /\ k.run \in 1..MaxRuns /\ k.run # run
    OBVIOUS
  <2>1. k \in Worker /\ k.run <= lastRun
    BY <1>1
  <2>2. k.session \in Tabs /\ k.run \in 1..MaxRuns
    BY <2>1 DEF Worker
  <2>3. lastRun \in Int /\ run \in Int /\ k.run \in Int
    BY <1>1, <1>2, <2>2
  <2> QED BY <1>2, <2>1, <2>2, <2>3
<1>6. \A k \in workers : k.session # id
  BY <1>1, <1>5 DEF NoRun
<1>7. \A k \in workers' : k.run <= lastRun'
  <2>1. \A k \in workers : k.run <= run
    <3>1. lastRun \in Int /\ run \in Int
      BY <1>1, <1>2
    <3>2. \A k \in workers : k.run \in Int
      BY <1>5
    <3> QED BY <1>1, <1>2, <3>1, <3>2
  <2> QED BY <1>2, <1>3, <2>1
<1>8. \A k, l \in workers' : k.run = l.run => k = l
  <2> SUFFICES ASSUME NEW k \in workers', NEW l \in workers', k.run = l.run
               PROVE  k = l
    OBVIOUS
  <2>1. /\ k \in workers \/ k = new
        /\ l \in workers \/ l = new
    OBVIOUS
  <2>2. CASE k \in workers /\ l \in workers
    BY <1>1, <2>2
  <2>3. CASE k \in workers /\ l = new
    BY <1>3, <1>5, <2>3
  <2>4. CASE k = new /\ l \in workers
    BY <1>3, <1>5, <2>4
  <2>5. CASE k = new /\ l = new
    BY ONLY <2>5
  <2> QED BY <2>1, <2>2, <2>3, <2>4, <2>5
<1>9. \A t \in Tabs : runs'[t] # NoRun => \E k \in workers' : k.session = t /\ k.run = runs'[t]
  BY <1>1, <1>3, <1>4
<1>10. \A k \in workers' : runs'[k.session] = k.run
  BY <1>1, <1>3, <1>4, <1>5, <1>6
<1>11. Running(workspace') = {<<k.session, k.run>> : k \in workers'}
  BY <1>1, <1>3
<1>12. lastRun' \in 0..MaxRuns /\ workers' \subseteq Worker
  BY <1>1, <1>2, <1>3
<1> QED
  BY <1>4, <1>7, <1>8, <1>9, <1>10, <1>11, <1>12 DEF RunsOK

LEMMA WorkerChanged ==
    ASSUME RunsOK, NEW k \in workers, NEW l \in Worker, l.session = k.session, l.run = k.run,
           workers' = (workers \ {k}) \cup {l}, UNCHANGED <<runs, lastRun, workspace>>
    PROVE  RunsOK'
<1>1. /\ runs \in [Tabs -> 0..MaxRuns] /\ lastRun \in 0..MaxRuns /\ workers \subseteq Worker
      /\ \A j \in workers : j.run <= lastRun
      /\ \A i, j \in workers : i.run = j.run => i = j
      /\ \A t \in Tabs : runs[t] # NoRun => \E j \in workers : j.session = t /\ j.run = runs[t]
      /\ \A j \in workers : runs[j.session] = j.run
      /\ Running(workspace) = {<<j.session, j.run>> : j \in workers}
  BY DEF RunsOK
<1>2. \A j \in workers : j # k => j \in workers'
  OBVIOUS
<1>3. {<<j.session, j.run>> : j \in workers'} = {<<j.session, j.run>> : j \in workers}
  <2>1. \A j \in workers' : \E i \in workers : j.session = i.session /\ j.run = i.run
    OBVIOUS
  <2>2. \A j \in workers : \E i \in workers' : j.session = i.session /\ j.run = i.run
    OBVIOUS
  <2> QED BY <2>1, <2>2
<1>4. \A i, j \in workers' : i.run = j.run => i = j
  BY <1>1
<1>5. \A t \in Tabs : runs[t] # NoRun => \E j \in workers' : j.session = t /\ j.run = runs[t]
  BY <1>1, <1>2
<1>6. \A j \in workers' : j.run <= lastRun /\ runs[j.session] = j.run /\ j \in Worker
  BY <1>1
<1> QED
  BY <1>1, <1>3, <1>4, <1>5, <1>6 DEF RunsOK

LEMMA ExecuteCommandOK ==
    ASSUME ControllerInv, NEW k \in workers, ExecuteCommand(k)
    PROVE  StepOK
<1>1. PICK r \in FinalStatuses : workers' = (workers \ {k}) \cup {[k EXCEPT !.result = r]}
  BY DEF ExecuteCommand
<1>2. UNCHANGED <<view, shells, printed, runs, lastRun>>
  BY DEF ExecuteCommand
<1> DEFINE l == [k EXCEPT !.result = r]
<1>3. k \in Worker
  BY DEF ControllerInv, RunsOK
<1>4. l \in Worker /\ l.session = k.session /\ l.run = k.run
  BY <1>3 DEF Worker, Results
<1> HIDE DEF l
<1>5. workers' = (workers \ {k}) \cup {l}
  BY <1>1 DEF l
<1>6. RunsOK'
  BY <1>2, <1>4, <1>5, WorkerChanged DEF ControllerInv, view
<1> QED
  BY <1>2, <1>6, TabsStay

LEMMA StopCommandOK ==
    ASSUME ControllerInv, StopCommand
    PROVE  StepOK
<1>1. PICK k \in workers : workers' = (workers \ {k}) \cup {[k EXCEPT !.cancelled = TRUE]}
  BY DEF StopCommand
<1>2. UNCHANGED <<view, shells, printed, runs, lastRun>>
  BY DEF StopCommand
<1> DEFINE l == [k EXCEPT !.cancelled = TRUE]
<1>3. k \in Worker
  BY DEF ControllerInv, RunsOK
<1>4. l \in Worker /\ l.session = k.session /\ l.run = k.run
  BY <1>3 DEF Worker
<1> HIDE DEF l
<1>5. workers' = (workers \ {k}) \cup {l}
  BY <1>1 DEF l
<1>6. RunsOK'
  BY <1>2, <1>4, <1>5, WorkerChanged DEF ControllerInv, view
<1> QED
  BY <1>2, <1>6, TabsStay

LEMMA RunRemoved ==
    ASSUME RunsOK, NEW k \in workers, workers' = workers \ {k},
           runs' = [runs EXCEPT ![k.session] = NoRun], lastRun' = lastRun,
           Running(workspace') = {x \in Running(workspace) : x[2] # k.run}
    PROVE  RunsOK'
<1>1. /\ runs \in [Tabs -> 0..MaxRuns] /\ lastRun \in 0..MaxRuns /\ workers \subseteq Worker
      /\ \A j \in workers : j.run <= lastRun
      /\ \A i, j \in workers : i.run = j.run => i = j
      /\ \A t \in Tabs : runs[t] # NoRun => \E j \in workers : j.session = t /\ j.run = runs[t]
      /\ \A j \in workers : runs[j.session] = j.run
      /\ Running(workspace) = {<<j.session, j.run>> : j \in workers}
  BY DEF RunsOK
<1>2. \A j \in workers : j.session \in Tabs
  BY <1>1 DEF Worker
<1>3. NoRun \in 0..MaxRuns
  BY ControllerBounds DEF NoRun
<1>4. /\ runs' \in [Tabs -> 0..MaxRuns] /\ runs'[k.session] = NoRun
      /\ \A t \in Tabs : t # k.session => runs'[t] = runs[t]
  BY <1>1, <1>2, <1>3
<1>5. \A j \in workers' : j.session # k.session
  BY <1>1
<1>6. \A t \in Tabs : runs'[t] # NoRun => \E j \in workers' : j.session = t /\ j.run = runs'[t]
  BY <1>1, <1>4
<1>7. \A j \in workers' : runs'[j.session] = j.run
  BY <1>1, <1>2, <1>4, <1>5
<1>8. Running(workspace') = {<<j.session, j.run>> : j \in workers'}
  <2>1. \A x \in Running(workspace') : \E j \in workers' : x = <<j.session, j.run>>
    BY <1>1
  <2>2. \A j \in workers' : <<j.session, j.run>> \in Running(workspace')
    BY <1>1
  <2> QED BY <2>1, <2>2
<1> QED
  BY <1>1, <1>4, <1>6, <1>7, <1>8 DEF RunsOK

LEMMA CompleteRunOK ==
    ASSUME ControllerInv, NEW k \in workers, CompleteRun(k)
    PROVE  StepOK
<1> DEFINE s == FinishRun(workspace, k.run, k.result)
<1>1. k \in Worker /\ runs[k.session] = k.run
  BY DEF ControllerInv, RunsOK
<1>2. /\ k.result # "executing" /\ workers' = workers \ {k}
      /\ runs' = [runs EXCEPT ![k.session] = NoRun] /\ workspace' = s
      /\ UNCHANGED <<input, screen, shells, printed, lastRun>>
  BY <1>1 DEF CompleteRun
<1>3. k.result \in FinalStatuses /\ k.run \in Nat
  BY <1>1, <1>2 DEF Worker, Results
<1>4. /\ WorkspaceOK(workspace, history) /\ screen = Shown(workspace)
      /\ Typed(workspace, history, input)
  BY ViewNow
<1>5. /\ WorkspaceOK(s, history) /\ Changed(workspace, s) /\ Shown(s) = Shown(workspace)
      /\ Running(s) = {x \in Running(workspace) : x[2] # k.run}
  BY <1>3, <1>4, RunFinished
<1> HIDE DEF s
<1>6. \A i \in DOMAIN s.tabs : TabOK(s.tabs[i], s.next, history)
  BY <1>5, WorkspaceFacts
<1>7. Typed(s, history, input)
  BY <1>4, <1>5, <1>6, ChangedWorkspace
<1>8. RunsOK'
  BY <1>2, <1>5, RunRemoved DEF ControllerInv
<1>9. printed' \in 0..MaxOutput /\ shells' \subseteq IDs(workspace)
  BY <1>2 DEF ControllerInv
<1> QED
  BY <1>2, <1>4, <1>5, <1>7, <1>8, <1>9, ChangesTabs

LEMMA RenewedDescends ==
    ASSUME NEW w, NEW u, NEW x, Renewed(w, u), Descends(u, x), x.next = u.next
    PROVE  Renewed(w, x)
BY DEF Renewed, Descends

LEMMA TestProfileOK ==
    ASSUME ControllerInv, NEW p \in Profiles, TestProfile(p)
    PROVE  StepOK
<1> DEFINE v == OpenTab(View, p)
           w == v.ws
           id == ActiveID(w)
           run == lastRun + 1
           x == SetActiveDraft(BeginRun(w, run), id)
           u == [v EXCEPT !.ws = x]
           new == [session |-> id, run |-> run, cancelled |-> FALSE, result |-> "executing"]
<1>1. /\ CanOpen /\ lastRun < MaxRuns /\ runs[id] = NoRun /\ CanBeginRun(w)
      /\ lastRun' = run /\ runs' = [runs EXCEPT ![id] = run] /\ workers' = workers \cup {new}
      /\ ShowNew([v EXCEPT !.ws = SetActiveDraft(BeginRun(@, run), id)])
  BY DEF TestProfile, StartRun
<1>2. ViewOK(v, history) /\ Opened(workspace, w, p)
  BY ViewNow, OpenTabOK
<1> HIDE DEF v
<1>3. v \in Views /\ WorkspaceOK(w, history) /\ v.screen = Shown(w) /\ Typed(w, history, v.input)
  BY <1>2, ViewFacts
<1>4. ShowNew(u)
  BY <1>1, <1>3 DEF Views
<1>5. run \in Nat /\ runs \in [Tabs -> 0..MaxRuns]
  BY DEF ControllerInv, RunsOK
<1>6. /\ WorkspaceOK(x, history) /\ Changed(w, x) /\ Shown(x) = Shown(w)
      /\ Running(x) = Running(w) \cup {<<id, run>>}
  <2>1. x = SetActiveDraft(BeginRun(w, run), ActiveID(w))
    OBVIOUS
  <2> HIDE DEF x, run
  <2> QED BY <1>1, <1>3, <1>5, <2>1, RunBegun
<1>7. id = workspace.next + 1 /\ id \in IDs(w) /\ IDs(workspace) \subseteq IDs(w)
  BY <1>2, OpenedActive
<1> HIDE DEF x, id
<1>8. \A i \in DOMAIN x.tabs : TabOK(x.tabs[i], x.next, history)
  BY <1>6, WorkspaceFacts
<1>9. /\ IDs(x) = IDs(w) /\ ActiveID(x) = id /\ Descends(w, x) /\ x.next = w.next
      /\ Typed(x, history, v.input)
  BY <1>3, <1>6, <1>8, ChangedWorkspace DEF Changed, id
<1>10. u \in Views /\ u.ws = x /\ u.input = v.input /\ u.screen = v.screen
  <2>1. x \in Workspace
    BY <1>6, WorkspaceFacts
  <2> QED BY <1>3, <2>1 DEF Views
<1> HIDE DEF u
<1>11. ViewOK(u, history)
  BY <1>3, <1>6, <1>9, <1>10, ViewIs
<1>12. View' = u /\ workspace' = x
  BY <1>4, <1>10, Published DEF ShowNew
<1>13. Renewed(workspace, x)
  <2>1. Renewed(workspace, w)
    BY <1>2, ViewNow, OpenedRenewed
  <2> QED BY <1>9, <2>1, RenewedDescends
<1>14. x.next = workspace.next + 1 /\ x.next <= MaxRuntimes /\ id \in Tabs
  <2>1. workspace.next \in Nat /\ workspace.next < MaxRuntimes /\ MaxRuntimes \in Nat
    BY <1>1, ViewNow, ControllerBounds DEF CanOpen
  <2>2. x.next = workspace.next + 1
    BY <1>2, <1>9 DEF Opened
  <2> QED BY <1>7, <2>1, <2>2 DEF Tabs
<1>15. RunsOK'
  <2>1. Running(workspace') = Running(workspace) \cup {<<id, run>>}
    BY <1>2, <1>6, <1>12 DEF Opened
  <2>2. RunsOK
    BY DEF ControllerInv
  <2>3. run = lastRun + 1 /\ new = [session |-> id, run |-> run, cancelled |-> FALSE,
                                      result |-> "executing"]
    OBVIOUS
  <2> HIDE DEF run, new
  <2> QED BY <1>1, <1>14, <2>1, <2>2, <2>3, RunAdded
<1>16. shells' \subseteq IDs(workspace') /\ printed' \in 0..MaxOutput
  BY <1>4, <1>7, <1>9, <1>10, <1>12 DEF ShowNew, ControllerInv
<1>17. SelectionStep
  BY <1>7, <1>9, <1>12, OpenedSelection
<1> QED
  BY <1>11, <1>12, <1>13, <1>14, <1>15, <1>16, <1>17 DEF StepOK


-----------------------------------------------------------------------------
\* The history of commands, which only grows.

LEMMA OwnGrows ==
    ASSUME NEW h, NEW k, ToSet(h) \subseteq ToSet(k), NEW tab, NEW line, OwnIn(h, tab, line)
    PROVE  OwnIn(k, tab, line)
BY DEF OwnIn, ToSet

LEMMA ViewGrows ==
    ASSUME NEW h, NEW k, ToSet(h) \subseteq ToSet(k), NEW v, ViewOK(v, h)
    PROVE  ViewOK(v, k)
<1> DEFINE w == v.ws
<1>1. v \in Views /\ WorkspaceOK(w, h) /\ v.screen = Shown(w) /\ Typed(w, h, v.input)
  BY ViewFacts
<1> HIDE DEF w
<1>2. ASSUME NEW i \in DOMAIN w.tabs PROVE TabOK(w.tabs[i], w.next, k)
  <2>1. TabOK(w.tabs[i], w.next, h)
    BY <1>1, WorkspaceFacts
  <2>2. OwnIn(k, w.tabs[i], w.tabs[i].draft)
    BY <2>1, OwnGrows DEF TabOK
  <2> QED BY <2>1, <2>2 DEF TabOK
<1>3. TabsOK(w.tabs, w.next, k)
  BY <1>1, <1>2 DEF WorkspaceOK, TabsOK
<1>4. WorkspaceOK(w, k)
  BY <1>1, <1>3 DEF WorkspaceOK
<1>5. Typed(w, k, v.input)
  BY <1>1, OwnGrows DEF Typed
<1> QED
  BY <1>1, <1>4, <1>5, ViewIs DEF w

LEMMA RecordedOK ==
    ASSUME ControllerInv, NEW id \in IDs(workspace), NEW command \in Nat
    PROVE  Recorded(id, command) \in Seq(Record) /\ ToSet(history) \subseteq ToSet(Recorded(id, command))
<1> DEFINE e == [profile |-> TabOf(workspace, id).profile, command |-> command]
<1>1. history \in Seq(Record) /\ WorkspaceOK(workspace, history)
  BY ViewNow DEF ControllerInv
<1>2. IndexOf(workspace, id) \in DOMAIN workspace.tabs
  BY <1>1, IndexOfTab
<1>3. TabOf(workspace, id) \in Tab
  BY <1>1, <1>2, WorkspaceFacts DEF TabOf
<1>4. e \in Record
  BY <1>3 DEF Record, Tab
<1>5. Recorded(id, command) = IF Len(history) < MaxHistory THEN Append(history, e) ELSE history
  BY DEF Recorded
<1> HIDE DEF e
<1>6. /\ Append(history, e) \in Seq(Record)
      /\ \A i \in DOMAIN history : i \in DOMAIN Append(history, e) /\ Append(history, e)[i] = history[i]
  BY <1>1, <1>4
<1>7. ToSet(history) \subseteq ToSet(Append(history, e))
  BY <1>6 DEF ToSet
<1> QED
  BY <1>1, <1>5, <1>6, <1>7

LEMMA ControllerOK ==
    ASSUME StepOK, history' \in Seq(Record), ToSet(history) \subseteq ToSet(history')
    PROVE  ControllerInv'
<1>1. ViewOK(View', history')
  BY ViewGrows DEF StepOK
<1> QED
  BY <1>1 DEF StepOK, ControllerInv

-----------------------------------------------------------------------------
\* The walks through the history.

CursorOK(h, tab, c) ==
    /\ OwnIn(h, tab, c.draft)
    /\ \A n \in DOMAIN c.commands : OwnIn(h, tab, c.commands[n])

LEMMA CursorsKept ==
    ASSUME ControllerInv, CursorsOK, Renewed(workspace, workspace'),
           ToSet(history) \subseteq ToSet(history'),
           DOMAIN cursors' \subseteq DOMAIN cursors,
           \A id \in DOMAIN cursors' : cursors'[id] = cursors[id]
    PROVE  CursorsOK'
<1>1. workspace.next \in Nat /\ workspace'.next \in Nat /\ workspace.next <= workspace'.next
  BY ViewNow DEF Renewed
<1>2. DOMAIN cursors' \subseteq 1..workspace'.next
  BY <1>1 DEF CursorsOK
<1>3. ASSUME NEW i \in DOMAIN workspace'.tabs, workspace'.tabs[i].id \in DOMAIN cursors'
      PROVE  CursorOK(history', workspace'.tabs[i], cursors'[workspace'.tabs[i].id])
  <2> DEFINE tab == workspace'.tabs[i]
             c == cursors'[tab.id]
  <2>1. tab.id \in 1..workspace.next /\ c = cursors[tab.id]
    BY <1>3 DEF CursorsOK
  <2>2. ~(tab.id > workspace.next)
    BY <1>1, <2>1
  <2>3. PICK j \in DOMAIN workspace.tabs :
            tab.id = workspace.tabs[j].id /\ tab.profile = workspace.tabs[j].profile
    BY <2>2 DEF Renewed
  <2>4. CursorOK(history, workspace.tabs[j], c)
    BY <1>3, <2>1, <2>3 DEF CursorsOK, CursorOK
  <2> HIDE DEF tab, c
  <2>5. CursorOK(history, tab, c)
    BY <2>3, <2>4 DEF CursorOK, OwnIn
  <2>6. CursorOK(history', tab, c)
    BY <2>5, OwnGrows DEF CursorOK
  <2> QED BY <2>6 DEF tab, c
<1> QED
  BY <1>2, <1>3 DEF CursorsOK, CursorOK

LEMMA Forgotten ==
    ASSUME NEW c, NEW id
    PROVE  /\ DOMAIN Forget(c, id) \subseteq DOMAIN c
           /\ \A other \in DOMAIN Forget(c, id) : Forget(c, id)[other] = c[other]
BY DEF Forget

\* A new walk has commands of the profile.
LEMMA NewCursorOK ==
    ASSUME history \in Seq(Record), NEW tab, tab.profile \in Profiles,
           NEW c, c = NewCursor(tab.profile)
    PROVE  c \in Cursor /\ CursorOK(history, tab, c)
<1> DEFINE p == tab.profile
           S == {e \in ToSet(history) : e.profile = p}
           own == Subsequence(history, S)
           distinct == {i \in DOMAIN own : i = 1 \/ own[i].command # own[i - 1].command}
           all == [i \in DOMAIN own |-> i]
           places == Subsequence(all, distinct)
           commands == [n \in DOMAIN places |-> own[places[n]].command]
<1>1. c = [commands |-> commands, index |-> Len(commands) + 1, draft |-> NoDraft, started |-> FALSE]
  BY Zenon DEF NewCursor
<1>2. own \in Seq(Record \cap S)
  <2> HIDE DEF S
  <2> QED BY SubsequenceMembers
<1> HIDE DEF own
<1>3. ASSUME NEW j \in DOMAIN own
      PROVE  own[j].command \in Nat /\ \E i \in DOMAIN history : history[i] = [profile |-> p, command |-> own[j].command]
  <2>1. own[j] \in Record /\ own[j] \in S
    BY <1>2
  <2>2. own[j].profile = p /\ own[j].command \in Nat /\ own[j] = [profile |-> p, command |-> own[j].command]
    BY <2>1 DEF Record
  <2>3. \E i \in DOMAIN history : history[i] = own[j]
    BY <2>1 DEF ToSet
  <2> QED BY <2>2, <2>3
<1>4. all \in Seq(DOMAIN own)
  BY <1>2
<1> HIDE DEF all, distinct
<1>5. places \in Seq(DOMAIN own)
  BY <1>4, SubsequenceType
<1> HIDE DEF places
<1>6. DOMAIN places = 1..Len(places) /\ Len(places) \in Nat /\ \A n \in DOMAIN places : places[n] \in DOMAIN own
  BY <1>5
<1>7. commands \in Seq(Nat) /\ Len(commands) \in Nat
  BY <1>3, <1>6
<1>8. \A n \in DOMAIN commands : OwnIn(history, tab, commands[n])
  BY <1>3, <1>6 DEF OwnIn
<1> HIDE DEF commands
<1>9. NoDraft \in Nat /\ Len(commands) + 1 \in Int
  BY <1>7 DEF NoDraft
<1>10. c \in Cursor
  BY <1>1, <1>7, <1>9 DEF Cursor
<1>11. OwnIn(history, tab, NoDraft)
  BY DEF OwnIn
<1>12. c.commands = commands /\ c.draft = NoDraft
  BY <1>1
<1> QED
  BY <1>8, <1>10, <1>11, <1>12 DEF CursorOK

\* A walk that goes on keeps the line it began with.
LEMMA MovedOK ==
    ASSUME NEW h, NEW tab, NEW c \in Cursor, CursorOK(h, tab, c), NEW delta \in Int,
           NEW draft \in Nat, OwnIn(h, tab, draft), NEW m, m = Moved(c, delta, draft)
    PROVE  /\ m \in Cursor /\ CursorOK(h, tab, m)
           /\ Line(m) \in Nat /\ OwnIn(h, tab, Line(m))
<1> DEFINE at == IF c.started THEN c ELSE [c EXCEPT !.draft = draft, !.started = TRUE,
                                                  !.index = Len(c.commands) + 1]
           index == at.index + delta
<1>1. c.commands \in Seq(Nat) /\ Len(c.commands) + 1 \in Int
  BY DEF Cursor
<1>2. at \in Cursor /\ at.commands = c.commands /\ at.draft \in {c.draft, draft}
  BY <1>1 DEF Cursor
<1>3. m = IF index \in 1..(Len(c.commands) + 1) THEN [at EXCEPT !.index = index] ELSE at
  BY DEF Moved
<1> HIDE DEF at
<1>4. index \in Int
  BY <1>2 DEF Cursor
<1> HIDE DEF index
<1>5. m \in Cursor /\ m.commands = c.commands /\ m.draft \in {c.draft, draft}
  BY <1>2, <1>3, <1>4 DEF Cursor
<1>6. CursorOK(h, tab, m)
  BY <1>5 DEF CursorOK
<1>7. Line(m) \in Nat /\ OwnIn(h, tab, Line(m))
  BY <1>5, <1>6 DEF Line, CursorOK, Cursor
<1> QED
  BY <1>5, <1>6, <1>7


LEMMA ArrowKeyOK ==
    ASSUME ControllerInv, CursorsOK, NEW delta \in {-1, 1}, ArrowKey(delta)
    PROVE  StepOK /\ CursorsOK'
<1> DEFINE id == ActiveID(workspace)
           tab == workspace.tabs[workspace.active]
           cursor == IF id \in DOMAIN cursors THEN cursors[id] ELSE NewCursor(tab.profile)
           moved == IF cursor.commands = <<>> THEN cursor ELSE Moved(cursor, delta, input)
           line == IF cursor.commands = <<>> THEN input ELSE Line(moved)
<1>1. /\ WorkspaceOK(workspace, history) /\ Typed(workspace, history, input)
      /\ history \in Seq(Record)
  BY ViewNow DEF ControllerInv
<1>2. /\ workspace.active # 0 /\ UNCHANGED <<screen, shells, printed, runRecords, history, find>>
  BY DEF ArrowKey
<1>3. workspace.active \in DOMAIN workspace.tabs
  BY <1>1, <1>2, WorkspaceFacts
<1>4. /\ id = tab.id /\ id \in IDs(workspace) /\ IndexOf(workspace, id) = workspace.active
      /\ id \in 1..workspace.next
  BY <1>1, <1>2, ActiveTab
<1>5. TabOf(workspace, id) = tab
  BY <1>4 DEF TabOf
<1>6. /\ cursors' = [other \in DOMAIN cursors \cup {id} |->
                       IF other = id THEN moved ELSE cursors[other]]
      /\ input' = line /\ workspace' = SetActiveDraft(workspace, line)
  BY <1>5, Zenon DEF ArrowKey, Walker
<1>7. tab.profile \in Profiles
  BY <1>1, <1>3, WorkspaceFacts DEF Tab
<1>8. input \in Nat /\ OwnIn(history, tab, input)
  BY <1>1, <1>2 DEF Typed
<1>9. cursor \in Cursor /\ CursorOK(history, tab, cursor)
  <2>1. CASE id \in DOMAIN cursors
    BY <1>3, <1>4, <2>1 DEF CursorsOK, CursorOK
  <2>2. CASE id \notin DOMAIN cursors
    BY <1>1, <1>7, <2>2, NewCursorOK
  <2> QED BY <2>1, <2>2
<1> HIDE DEF cursor, tab, id
<1>10. /\ moved \in Cursor /\ CursorOK(history, tab, moved)
       /\ line \in Nat /\ OwnIn(history, tab, line)
  <2>1. CASE cursor.commands = <<>>
    BY <1>8, <1>9, <2>1
  <2>2. CASE cursor.commands # <<>>
    <3>1. delta \in Int
      OBVIOUS
    <3> QED BY <1>8, <1>9, <2>2, <3>1, MovedOK
  <2> QED BY <2>1, <2>2
<1> HIDE DEF moved, line
<1>11. Typed(workspace, history, line)
  BY <1>2, <1>10 DEF Typed, tab
<1>12. StepOK
  <2>1. shells' \subseteq IDs(workspace)
    BY <1>2 DEF ControllerInv
  <2> QED BY <1>2, <1>6, <1>11, <2>1, LineTyped
<1>13. /\ DOMAIN cursors' = {id} \cup DOMAIN cursors /\ cursors'[id] = moved
       /\ \A other \in DOMAIN cursors : other # id => cursors'[other] = cursors[other]
  BY <1>6
<1> DEFINE s == SetActiveDraft(workspace, line)
<1>14. WorkspaceOK(s, history) /\ Alike(workspace, s) /\ workspace' = s
  BY <1>1, <1>6, <1>11, DraftSaved
<1> HIDE DEF s
<1>15. /\ workspace'.next = workspace.next /\ DOMAIN workspace'.tabs = DOMAIN workspace.tabs
       /\ \A i \in DOMAIN workspace.tabs :
             /\ workspace'.tabs[i].id = workspace.tabs[i].id
             /\ workspace'.tabs[i].profile = workspace.tabs[i].profile
  <2>1. s.next = workspace.next /\ DOMAIN s.tabs = DOMAIN workspace.tabs
    BY <1>1, <1>14, AlikeFacts
  <2> QED BY <1>14, <2>1 DEF Alike, Changed, InPlace
<1>16. \A i \in DOMAIN workspace.tabs : workspace.tabs[i].id = id => workspace.tabs[i] = tab
  <2>1. \A i \in DOMAIN workspace.tabs : workspace.tabs[i].id = id => i = workspace.active
    BY <1>1, <1>4, IndexOfTab
  <2> QED BY <2>1 DEF tab
<1>17. DOMAIN cursors' \subseteq 1..workspace'.next /\ \A other \in DOMAIN cursors' : cursors'[other] \in Cursor
  BY <1>4, <1>10, <1>13, <1>15 DEF CursorsOK
<1>18. ASSUME NEW i \in DOMAIN workspace'.tabs, workspace'.tabs[i].id \in DOMAIN cursors'
       PROVE  CursorOK(history', workspace'.tabs[i], cursors'[workspace'.tabs[i].id])
  <2> DEFINE t == workspace.tabs[i]
  <2>1. /\ i \in DOMAIN workspace.tabs /\ workspace'.tabs[i].id = t.id
        /\ workspace'.tabs[i].profile = t.profile /\ history' = history
    BY <1>2, <1>15, <1>18
  <2>2. CursorOK(history, t, cursors'[t.id])
    <3>1. CASE t.id = id
      BY <1>10, <1>13, <1>16, <2>1, <3>1
    <3>2. CASE t.id # id
      <4>1. t.id \in DOMAIN cursors /\ cursors'[t.id] = cursors[t.id]
        BY <1>13, <1>18, <2>1, <3>2
      <4> QED BY <2>1, <4>1 DEF CursorsOK, CursorOK
    <3> QED BY <3>1, <3>2
  <2> HIDE DEF t
  <2> QED BY <2>1, <2>2 DEF CursorOK, OwnIn
<1>19. CursorsOK'
  BY <1>17, <1>18 DEF CursorsOK, CursorOK
<1> QED
  BY <1>12, <1>19

-----------------------------------------------------------------------------
\* The find window.

Find == [open : BOOLEAN, matches : Seq(Nat), index : Nat]

\* What FindAccurate says, of the find window f on a text.
Finds(f, text) ==
    f.open => /\ f.matches = Search(text).matches
              /\ IF f.matches = <<>> THEN f.index = 0 ELSE f.index \in DOMAIN f.matches

LEMMA SearchOK ==
    ASSUME NEW text \in Seq(Piece)
    PROVE  Search(text) \in Find /\ Finds(Search(text), text) /\ Search(text).open
<1> DEFINE hits == {n \in DOMAIN text : text[n].hit}
           all == [n \in DOMAIN text |-> n]
           matches == Subsequence(all, hits)
<1>1. Search(text) = [open |-> TRUE, matches |-> matches, index |-> IF hits = {} THEN 0 ELSE 1]
  BY DEF Search
<1>2. all \in Seq(Nat) /\ DOMAIN all = DOMAIN text /\ \A n \in DOMAIN text : all[n] = n
  OBVIOUS
<1>3. hits \subseteq DOMAIN text
  OBVIOUS
<1> HIDE DEF all, hits
<1>4. /\ matches \in Seq(Nat \cap hits)
      /\ \A n \in DOMAIN all : all[n] \in hits => \E j \in DOMAIN matches : matches[j] = all[n]
  BY <1>2, SubsequenceMembers
<1> HIDE DEF matches
<1>5. matches \in Seq(Nat)
  BY <1>4
<1>6. CASE hits = {}
  <2>1. matches = <<>>
    BY <1>4, <1>6
  <2> QED BY <1>1, <1>5, <1>6, <2>1 DEF Find, Finds
<1>7. CASE hits # {}
  <2>1. PICK n \in hits : TRUE
    BY <1>7
  <2>2. \E j \in DOMAIN matches : matches[j] = n
    BY <1>2, <1>3, <1>4, <2>1
  <2>3. matches # <<>> /\ 1 \in DOMAIN matches
    BY <1>5, <2>2
  <2> QED BY <1>1, <1>5, <1>7, <2>3 DEF Find, Finds
<1> QED
  BY <1>6, <1>7

LEMMA MinOf ==
    ASSUME NEW S \in SUBSET Nat, S # {}
    PROVE  Min(S) \in S
<1>1. PICK m \in S : \A x \in S : m <= x
  BY LeastNatural
<1> QED
  BY <1>1 DEF Min

LEMMA RefreshOK ==
    ASSUME NEW f \in Find, NEW text \in Seq(Piece), NEW u, u = Refresh(f, text)
    PROVE  u \in Find /\ Finds(u, text) /\ u.open
<1> DEFINE new == Search(text)
           same == {i \in DOMAIN new.matches :
                       f.index \in DOMAIN f.matches /\ new.matches[i] = f.matches[f.index]}
<1>1. new \in Find /\ Finds(new, text) /\ new.open
  BY SearchOK
<1>2. u = CASE same # {} -> [new EXCEPT !.index = Min(same)]
            [] same = {} /\ f.index \in DOMAIN new.matches -> [new EXCEPT !.index = f.index]
            [] OTHER -> new
  BY DEF Refresh
<1>3. same \subseteq DOMAIN new.matches
  OBVIOUS
<1> HIDE DEF same
<1>4. u = new \/ \E k \in DOMAIN new.matches : u = [new EXCEPT !.index = k]
  <2> HIDE DEF new
  <2>1. CASE same # {}
    <3>1. new.matches \in Seq(Nat)
      BY <1>1 DEF Find
    <3>2. same \in SUBSET Nat
      BY <1>3, <3>1
    <3>3. Min(same) \in same
      BY <2>1, <3>2, MinOf
    <3>4. u = [new EXCEPT !.index = Min(same)]
      BY <1>2, <2>1
    <3> QED BY <1>3, <3>3, <3>4
  <2>2. CASE same = {} /\ f.index \in DOMAIN new.matches
    BY <1>2, <2>2
  <2>3. CASE same = {} /\ f.index \notin DOMAIN new.matches
    BY <1>2, <2>3
  <2> QED BY <2>1, <2>2, <2>3
<1>5. new.matches = Search(text).matches
  OBVIOUS
<1> HIDE DEF new
<1>6. ASSUME NEW k \in DOMAIN new.matches, u = [new EXCEPT !.index = k]
      PROVE  u \in Find /\ Finds(u, text) /\ u.open
  <2>1. new.matches \in Seq(Nat)
    BY <1>1 DEF Find
  <2>2. k \in Nat /\ new.matches # <<>>
    BY <2>1
  <2>3. u \in Find /\ u.matches = new.matches /\ u.index = k /\ u.open
    BY <1>1, <1>6, <2>2 DEF Find
  <2> QED BY <1>5, <2>2, <2>3 DEF Finds
<1> QED
  BY <1>1, <1>4, <1>6


-----------------------------------------------------------------------------
\* The steps of the handlers and the tools.

LEMMA StepInv ==
    ASSUME StepOK, history' \in Seq(Record), ToSet(history) \subseteq ToSet(history'),
           CursorsOK', FindOK'
    PROVE  ToolsInv' /\ SelectionStep
BY ControllerOK DEF ToolsInv, StepOK

LEMMA ScreenNext ==
    ASSUME StepOK
    PROVE  screen' \in Seq(Piece)
<1>1. View' \in Views /\ View'.screen = screen'
  BY ViewFacts DEF StepOK, View
<1> QED
  BY <1>1 DEF Views

LEMMA Refreshed ==
    ASSUME FindOK, screen' \in Seq(Piece),
           find' \in IF find.open
                     THEN {Refresh(find, screen'), Refresh(Refresh(find, <<>>), screen')}
                     ELSE {find}
    PROVE  FindOK'
<1>1. find \in Find
  BY DEF FindOK, Find
<1>2. CASE find.open
  <2> DEFINE none == <<>>
             f == Refresh(find, none)
  <2>1. none \in Seq(Piece)
    OBVIOUS
  <2> HIDE DEF none
  <2>2. f \in Find
    BY <1>1, <2>1, RefreshOK
  <2>3. find' = Refresh(find, screen') \/ find' = Refresh(f, screen')
    BY <1>2 DEF none
  <2> HIDE DEF f
  <2>4. find' \in Find /\ Finds(find', screen')
    BY <1>1, <2>2, <2>3, RefreshOK
  <2> QED BY <2>4 DEF FindOK, Find, Finds, FindAccurate
<1>3. CASE ~find.open
  <2>1. find' = find /\ ~find'.open
    BY <1>3
  <2> QED BY <1>1, <2>1 DEF FindOK, Find, FindAccurate
<1> QED
  BY <1>2, <1>3

LEMMA CursorsStay ==
    ASSUME ControllerInv, CursorsOK, StepOK, ToSet(history) \subseteq ToSet(history'),
           cursors' = cursors
    PROVE  CursorsOK'
BY CursorsKept DEF StepOK

LEMMA DrawnAgain ==
    ASSUME ToolsInv, StepOK, Redraws
    PROVE  ToolsInv' /\ SelectionStep
<1>1. /\ ControllerInv /\ CursorsOK /\ FindOK /\ history' = history /\ cursors' = cursors
      /\ history \in Seq(Record)
  BY DEF ToolsInv, Redraws, ControllerInv
<1>2. CursorsOK'
  BY <1>1, CursorsStay
<1>3. FindOK'
  BY <1>1, ScreenNext, Refreshed DEF Redraws
<1> QED
  BY <1>1, <1>2, <1>3, StepInv

LEMMA FindStays ==
    ASSUME FindOK, find' = find, screen' = screen
    PROVE  FindOK'
BY DEF FindOK, FindAccurate

LEMMA DrawnOnce ==
    ASSUME ToolsInv, StepOK, Keeps, screen' = screen
    PROVE  ToolsInv' /\ SelectionStep
<1>1. /\ ControllerInv /\ CursorsOK /\ FindOK /\ history' = history /\ cursors' = cursors
      /\ find' = find /\ history \in Seq(Record)
  BY DEF ToolsInv, Keeps, tools, ControllerInv
<1>2. CursorsOK'
  BY <1>1, CursorsStay
<1>3. FindOK'
  BY <1>1, FindStays
<1> QED
  BY <1>1, <1>2, <1>3, StepInv

LEMMA TabbingOK ==
    ASSUME ToolsInv, Tabbing
    PROVE  ToolsInv' /\ SelectionStep
<1>1. ControllerInv
  BY DEF ToolsInv
<1>2. ASSUME Redraws,
             \/ \E p \in Profiles : OpenSession(p) \/ TestProfile(p)
             \/ ReopenSession \/ DuplicateSession \/ ClearOutput
             \/ \E id \in Tabs :
                   \/ id # ActiveID(workspace) /\ SelectSession(id)
                   \/ CloseSession(id)
                   \/ \E mode \in BatchModes : CloseBatch(id, mode)
      PROVE  ToolsInv' /\ SelectionStep
  <2>1. ASSUME NEW p \in Profiles, OpenSession(p) PROVE StepOK
    BY <1>1, <2>1, OpenSessionOK
  <2>2. ASSUME NEW p \in Profiles, TestProfile(p) PROVE StepOK
    BY <1>1, <2>2, TestProfileOK
  <2>3. CASE ReopenSession
    BY <1>1, <1>2, <2>3, ReopenSessionOK, DrawnAgain
  <2>4. CASE DuplicateSession
    BY <1>1, <1>2, <2>4, DuplicateSessionOK, DrawnAgain
  <2>5. CASE ClearOutput
    BY <1>1, <1>2, <2>5, ClearOutputOK, DrawnAgain
  <2>6. ASSUME NEW id \in Tabs, SelectSession(id) PROVE StepOK
    BY <1>1, <2>6, SelectSessionOK
  <2>7. ASSUME NEW id \in Tabs, CloseSession(id) PROVE StepOK
    BY <1>1, <2>7, CloseSessionOK
  <2>8. ASSUME NEW id \in Tabs, NEW mode \in BatchModes, CloseBatch(id, mode) PROVE StepOK
    BY <1>1, <2>8, CloseBatchOK
  <2> QED BY <1>2, <2>1, <2>2, <2>3, <2>4, <2>5, <2>6, <2>7, <2>8, DrawnAgain
<1>3. ASSUME Keeps,
             \/ \E id \in Tabs :
                   \/ SelectSession(ActiveID(workspace)) \/ TogglePinned(id) \/ ShellExits(id)
                   \/ \E target \in Tabs : MoveSession(id, target)
             \/ Reconnect \/ StopCommand
             \/ \E k \in workers : CompleteRun(k)
      PROVE  ToolsInv' /\ SelectionStep
  <2>1. View.screen = screen /\ View.ws = workspace /\ View \in Views
    BY <1>1, ViewNow
  <2>2. ASSUME SelectSession(ActiveID(workspace)) PROVE StepOK /\ screen' = screen
    <3>1. SelectTab(View, ActiveID(workspace)) = View
      BY <2>1 DEF SelectTab
    <3> QED BY <1>1, <2>1, <2>2, <3>1, SelectSessionOK DEF SelectSession, Show, Publish
  <2>3. ASSUME NEW id, TogglePinned(id) PROVE StepOK /\ screen' = screen
    BY <1>1, <2>1, <2>3, TogglePinnedOK DEF TogglePinned, Show, Publish, Views
  <2>4. ASSUME NEW id, ShellExits(id) PROVE StepOK /\ screen' = screen
    BY <1>1, <2>4, ShellExitsOK DEF ShellExits, view
  <2>5. ASSUME NEW id, NEW target, MoveSession(id, target) PROVE StepOK /\ screen' = screen
    BY <1>1, <2>1, <2>5, MoveSessionOK DEF MoveSession, Show, Publish, Views
  <2>6. ASSUME Reconnect PROVE StepOK /\ screen' = screen
    BY <1>1, <2>6, ReconnectOK DEF Reconnect
  <2>7. ASSUME StopCommand PROVE StepOK /\ screen' = screen
    BY <1>1, <2>7, StopCommandOK DEF StopCommand, view
  <2>8. ASSUME NEW k \in workers, CompleteRun(k) PROVE StepOK /\ screen' = screen
    BY <1>1, <2>8, CompleteRunOK DEF CompleteRun
  <2>9. StepOK /\ screen' = screen
    BY <1>3, <2>2, <2>3, <2>4, <2>5, <2>6, <2>7, <2>8
  <2> QED BY <1>3, <2>9, DrawnOnce
<1> QED
  BY <1>2, <1>3 DEF Tabbing

LEMMA RebuildOK ==
    ASSUME ToolsInv, Rebuild
    PROVE  ToolsInv' /\ SelectionStep
<1>1. /\ ControllerInv /\ CursorsOK /\ history' = history /\ cursors' = cursors
      /\ find' = NoFind /\ RebuildWindow /\ history \in Seq(Record)
  BY DEF ToolsInv, Rebuild, ControllerInv
<1>2. StepOK
  BY <1>1, RebuildWindowOK
<1>3. CursorsOK'
  BY <1>1, <1>2, CursorsStay
<1>4. FindOK'
  BY <1>1 DEF FindOK, FindAccurate, NoFind
<1> QED
  BY <1>1, <1>2, <1>3, <1>4, StepInv

LEMMA ExecuteOK ==
    ASSUME ToolsInv, NEW k \in workers, Execute(k)
    PROVE  ToolsInv' /\ SelectionStep
<1>1. /\ ControllerInv /\ CursorsOK /\ FindOK /\ history' = Recorded(k.session, k.session)
      /\ cursors' = cursors /\ find' = find /\ screen' = screen /\ ExecuteCommand(k)
  BY DEF ToolsInv, Execute, ExecuteCommand, view
<1>2. StepOK
  BY <1>1, ExecuteCommandOK
<1>3. k.session \in IDs(workspace) /\ k.session \in Nat
  <2>1. k \in Worker /\ <<k.session, k.run>> \in Running(workspace)
    BY <1>1 DEF ControllerInv, RunsOK
  <2>2. k.session \in IDs(workspace)
    BY <2>1 DEF Running, ToSet, IDs
  <2> QED BY <2>1, <2>2 DEF Worker, Tabs
<1>4. history' \in Seq(Record) /\ ToSet(history) \subseteq ToSet(history')
  BY <1>1, <1>3, RecordedOK
<1>5. CursorsOK'
  BY <1>1, <1>2, <1>4, CursorsStay
<1>6. FindOK'
  BY <1>1, FindStays
<1> QED
  BY <1>2, <1>4, <1>5, <1>6, StepInv

LEMMA WrittenOK ==
    ASSUME ToolsInv, NEW id, NEW hit \in BOOLEAN, Written(id, hit)
    PROVE  ToolsInv' /\ SelectionStep
<1>1. /\ ControllerInv /\ CursorsOK /\ FindOK /\ history' = history /\ cursors' = cursors
      /\ history \in Seq(Record) /\ Output(id, hit)
      /\ find' = IF find.open /\ screen' # screen THEN Refresh(find, screen') ELSE find
  BY DEF ToolsInv, Written, ControllerInv
<1>2. StepOK
  BY <1>1, OutputOK
<1>3. CursorsOK'
  BY <1>1, <1>2, CursorsStay
<1>4. FindOK'
  <2>1. CASE screen' = screen
    BY <1>1, <2>1, FindStays
  <2>2. CASE screen' # screen
    BY <1>1, <1>2, <2>2, ScreenNext, Refreshed
  <2> QED BY <2>1, <2>2
<1> QED
  BY <1>1, <1>2, <1>3, <1>4, StepInv

LEMMA EditLineOK ==
    ASSUME ToolsInv, NEW key, EditLine(key)
    PROVE  ToolsInv' /\ SelectionStep
<1>1. /\ ControllerInv /\ CursorsOK /\ FindOK /\ history' = history /\ find' = find
      /\ screen' = screen /\ history \in Seq(Record) /\ TypeText
      /\ cursors' = IF key THEN Forget(cursors, ActiveID(workspace)) ELSE cursors
  BY DEF ToolsInv, EditLine, TypeText, ControllerInv
<1>2. StepOK
  BY <1>1, TypeTextOK
<1>3. /\ DOMAIN cursors' \subseteq DOMAIN cursors
      /\ \A id \in DOMAIN cursors' : cursors'[id] = cursors[id]
  BY <1>1, Forgotten
<1>4. CursorsOK'
  BY <1>1, <1>2, <1>3, CursorsKept DEF StepOK
<1>5. FindOK'
  BY <1>1, FindStays
<1> QED
  BY <1>1, <1>2, <1>4, <1>5, StepInv

LEMMA RunLineOK ==
    ASSUME ToolsInv, NEW key, RunLine(key)
    PROVE  ToolsInv' /\ SelectionStep
<1> DEFINE command == IF input = NoDraft THEN DefaultCommand ELSE input
<1>1. /\ ControllerInv /\ CursorsOK /\ FindOK /\ find' = find /\ screen' = screen
      /\ RunCommand /\ workspace.active # 0
      /\ history' = Recorded(ActiveID(workspace), command)
      /\ cursors' = IF key THEN Forget(cursors, ActiveID(workspace)) ELSE cursors
  BY DEF ToolsInv, RunLine, RunCommand
<1>2. StepOK
  BY <1>1, RunCommandOK
<1>3. ActiveID(workspace) \in IDs(workspace) /\ input \in Nat
  BY <1>1, ViewNow, ActiveTab DEF Typed
<1>4. command \in Nat
  BY <1>3, ControllerBounds DEF DefaultCommand
<1> HIDE DEF command
<1>5. history' \in Seq(Record) /\ ToSet(history) \subseteq ToSet(history')
  BY <1>1, <1>3, <1>4, RecordedOK
<1>6. /\ DOMAIN cursors' \subseteq DOMAIN cursors
      /\ \A id \in DOMAIN cursors' : cursors'[id] = cursors[id]
  BY <1>1, Forgotten
<1>7. CursorsOK'
  BY <1>1, <1>2, <1>5, <1>6, CursorsKept DEF StepOK
<1>8. FindOK'
  BY <1>1, FindStays
<1> QED
  BY <1>2, <1>5, <1>7, <1>8, StepInv

LEMMA ArrowOK ==
    ASSUME ToolsInv, NEW delta \in {-1, 1}, ArrowKey(delta)
    PROVE  ToolsInv' /\ SelectionStep
<1>1. /\ ControllerInv /\ CursorsOK /\ FindOK /\ history' = history /\ find' = find
      /\ screen' = screen /\ history \in Seq(Record)
  BY DEF ToolsInv, ArrowKey, ControllerInv
<1>2. StepOK /\ CursorsOK'
  BY <1>1, ArrowKeyOK
<1>3. FindOK'
  BY <1>1, FindStays
<1> QED
  BY <1>1, <1>2, <1>3, StepInv

\* The find window alone.
LEMMA Unmoved ==
    ASSUME ToolsInv, UNCHANGED <<vars, history, cursors>>, FindOK'
    PROVE  ToolsInv' /\ SelectionStep
<1>1. /\ workspace' = workspace /\ input' = input /\ screen' = screen /\ shells' = shells
      /\ printed' = printed /\ runs' = runs /\ lastRun' = lastRun /\ workers' = workers
      /\ history' = history /\ cursors' = cursors
  BY DEF vars, view, runRecords
<1>2. View' = View /\ RunsOK' = RunsOK /\ CursorsOK' = CursorsOK
  BY <1>1 DEF View, RunsOK, CursorsOK
<1>3. ControllerInv'
  BY <1>1, <1>2 DEF ToolsInv, ControllerInv
<1>4. SelectionStep
  BY <1>1 DEF SelectionStep
<1> QED
  BY <1>2, <1>3, <1>4 DEF ToolsInv

LEMMA OpenFindOK ==
    ASSUME ToolsInv, OpenFind
    PROVE  ToolsInv' /\ SelectionStep
<1>1. screen \in Seq(Piece) /\ screen' = screen
  BY ViewNow DEF ToolsInv, OpenFind, vars, view, Views
<1>2. find' \in Find /\ Finds(find', screen')
  BY <1>1, SearchOK DEF OpenFind
<1>3. FindOK'
  BY <1>2 DEF FindOK, Find, Finds, FindAccurate
<1> QED
  BY <1>3, Unmoved DEF OpenFind

LEMMA CloseFindOK ==
    ASSUME ToolsInv, CloseFind
    PROVE  ToolsInv' /\ SelectionStep
<1>1. FindOK'
  BY DEF CloseFind, FindOK, FindAccurate, NoFind
<1> QED
  BY <1>1, Unmoved DEF CloseFind

LEMMA NavigateOK ==
    ASSUME ToolsInv, NEW delta \in {-1, 1}, Navigate(delta)
    PROVE  ToolsInv' /\ SelectionStep
<1> DEFINE n == Len(find.matches)
           i == ((find.index - 1 + delta) % n) + 1
<1>1. find \in Find /\ FindAccurate /\ screen' = screen
  BY DEF ToolsInv, FindOK, Find, Navigate, vars, view
<1>2. find.open /\ find.matches # <<>> /\ find' = [find EXCEPT !.index = i]
  BY DEF Navigate
<1>3. n \in Nat \ {0} /\ DOMAIN find.matches = 1..n /\ find.index \in Nat
  BY <1>1, <1>2 DEF Find
<1>4. i \in 1..n
  <2> DEFINE a == find.index - 1 + delta
             m == a % n
  <2>1. a \in Int
    BY <1>3
  <2>2. i = m + 1
    OBVIOUS
  <2> HIDE DEF a, n, i
  <2>3. m \in 0..(n - 1)
    BY <1>3, <2>1
  <2> HIDE DEF m
  <2> QED BY <1>3, <2>2, <2>3
<1> HIDE DEF i, n
<1>5. find' \in Find /\ find'.matches = find.matches /\ find'.index = i
  BY <1>1, <1>2, <1>3, <1>4 DEF Find
<1>6. FindOK'
  BY <1>1, <1>2, <1>3, <1>4, <1>5 DEF FindOK, Find, FindAccurate
<1> QED
  BY <1>6, Unmoved DEF Navigate


LEMMA StepPreserves ==
    ASSUME ToolsInv, [ToolsNext]_toolVars
    PROVE  ToolsInv' /\ SelectionStep
<1>1. CASE Tabbing
  BY <1>1, TabbingOK
<1>2. CASE Rebuild
  BY <1>2, RebuildOK
<1>3. ASSUME NEW k \in workers, Execute(k) PROVE ToolsInv' /\ SelectionStep
  BY <1>3, ExecuteOK
<1>4. ASSUME NEW id, NEW hit \in BOOLEAN, Written(id, hit) PROVE ToolsInv' /\ SelectionStep
  BY <1>4, WrittenOK
<1>5. ASSUME NEW key \in BOOLEAN, EditLine(key) PROVE ToolsInv' /\ SelectionStep
  BY <1>5, EditLineOK
<1>6. ASSUME NEW key \in BOOLEAN, RunLine(key) PROVE ToolsInv' /\ SelectionStep
  BY <1>6, RunLineOK
<1>7. ASSUME NEW delta \in {-1, 1}, ArrowKey(delta) PROVE ToolsInv' /\ SelectionStep
  BY <1>7, ArrowOK
<1>8. ASSUME NEW delta \in {-1, 1}, Navigate(delta) PROVE ToolsInv' /\ SelectionStep
  BY <1>8, NavigateOK
<1>9. CASE OpenFind
  BY <1>9, OpenFindOK
<1>10. CASE CloseFind
  BY <1>10, CloseFindOK
<1>11. CASE UNCHANGED toolVars
  <2>1. UNCHANGED <<vars, history, cursors>> /\ UNCHANGED vars /\ find' = find
    BY <1>11 DEF toolVars, tools
  <2>2. screen' = screen
    BY <2>1 DEF vars, view
  <2>3. FindOK'
    BY <2>1, <2>2, FindStays DEF ToolsInv
  <2> QED BY <2>1, <2>3, Unmoved
<1> QED
  BY <1>1, <1>2, <1>3, <1>4, <1>5, <1>6, <1>7, <1>8, <1>9, <1>10, <1>11 DEF ToolsNext

LEMMA StartsOK ==
    ASSUME NEW recorded \in Seq(Record), ToolsInit(recorded)
    PROVE  ToolsInv
<1>1. /\ workspace = EmptyWorkspace /\ input = NoDraft /\ screen = <<>> /\ shells = {}
      /\ printed = 0 /\ runs = [id \in Tabs |-> NoRun] /\ lastRun = NoRun /\ workers = {}
      /\ history = recorded /\ cursors = [id \in {} |-> NoCursor] /\ find = NoFind
  BY DEF ToolsInit, Init
<1>2. /\ workspace.tabs = <<>> /\ workspace.active = 0 /\ workspace.next = 0
      /\ workspace.closed = <<>> /\ workspace \in Workspace
  BY <1>1 DEF EmptyWorkspace, Workspace
<1>3. DOMAIN workspace.tabs = {} /\ Len(workspace.tabs) = 0 /\ Len(workspace.closed) = 0
  BY <1>2
<1>4. TabsOK(workspace.tabs, workspace.next, history)
  <2>1. workspace.tabs \in Seq(Tab)
    BY <1>2 DEF Workspace
  <2> QED BY <1>3, <2>1 DEF TabsOK, PinnedInFront
<1>5. WorkspaceOK(workspace, history)
  BY <1>2, <1>3, <1>4, ClosedLimitAssumption DEF WorkspaceOK
<1>6. screen = Shown(workspace) /\ Typed(workspace, history, input)
  BY <1>1, <1>2 DEF Shown, Typed, NoDraft
<1>7. ViewOK(View, history)
  BY <1>5, <1>6, Zenon DEF ViewOK, View
<1>8. Running(workspace) = {}
  BY <1>3 DEF Running, ToSet
<1>9. RunsOK
  BY <1>1, <1>8, ControllerBounds DEF RunsOK, NoRun
<1>10. ControllerInv
  BY <1>1, <1>2, <1>7, <1>9, ControllerBounds DEF ControllerInv
<1>11. CursorsOK
  BY <1>1, <1>3 DEF CursorsOK
<1>12. FindOK
  BY <1>1 DEF FindOK, FindAccurate, NoFind
<1> QED
  BY <1>10, <1>11, <1>12 DEF ToolsInv

\* The invariant is an inductive one.
THEOREM ToolsInductive == ToolsSpec => []ToolsInv
<1>1. (\E recorded \in Seq(Record) : ToolsInit(recorded)) => ToolsInv
  BY StartsOK
<1>2. ToolsInv /\ [ToolsNext]_toolVars => ToolsInv'
  BY StepPreserves
<1> QED
  BY <1>1, <1>2, PTL DEF ToolsSpec

-----------------------------------------------------------------------------
\* The types of the tabs and of what the handlers keep beside them: there is an active
\* tab as long as there is a tab, only open tabs have shells, the terminal never holds
\* more than it retains, nor the list of closed tabs more than its limit.
THEOREM SessionTypeCorrect == ToolsSpec => []TypeOK
<1>1. ToolsInv => TypeOK
  <2> SUFFICES ASSUME ToolsInv PROVE TypeOK
    OBVIOUS
  <2>1. /\ WorkspaceOK(workspace, history) /\ screen = Shown(workspace)
        /\ Typed(workspace, history, input)
    BY ViewNow DEF ToolsInv
  <2>2. screen \in Seq(Piece) /\ Retained(screen) = screen
    BY <2>1, ShownOf
  <2>3. Len(screen) <= Scrollback
    <3>1. Len(screen) = IF Len(screen) <= Scrollback THEN Len(screen) ELSE Scrollback
      BY <2>2, RetainedOf
    <3> QED BY <2>2, <3>1, ControllerBounds
  <2>4. input \in Nat
    BY <2>1 DEF Typed
  <2>5. /\ shells \subseteq IDs(workspace) /\ printed \in 0..MaxOutput
        /\ runs \in [Tabs -> 0..MaxRuns] /\ lastRun \in 0..MaxRuns /\ workers \subseteq Worker
    BY DEF ToolsInv, ControllerInv, RunsOK
  <2> QED BY <2>1, <2>2, <2>3, <2>4, <2>5 DEF TypeOK, WorkspaceOK
<1> QED
  BY <1>1, ToolsInductive, PTL

\* Pinned tabs stay in front of ordinary ones, however tabs are opened, moved, pinned
\* and closed.
THEOREM PinnedStayFirst == ToolsSpec => []PinnedFirst
<1>1. ToolsInv => PinnedFirst
  <2> SUFFICES ASSUME ToolsInv PROVE PinnedFirst
    OBVIOUS
  <2>1. TabsOK(workspace.tabs, workspace.next, history)
    BY ViewNow, WorkspaceFacts DEF ToolsInv
  <2> QED BY <2>1 DEF TabsOK, PinnedInFront, PinnedFirst
<1> QED
  BY <1>1, ToolsInductive, PTL

\* No two tabs share a runtime ID, and no two tabs of a profile an instance number.
THEOREM TabsStayDistinct == ToolsSpec => []TabsDistinct
<1>1. ToolsInv => TabsDistinct
  <2> SUFFICES ASSUME ToolsInv PROVE TabsDistinct
    OBVIOUS
  <2>1. TabsOK(workspace.tabs, workspace.next, history)
    BY ViewNow, WorkspaceFacts DEF ToolsInv
  <2> QED BY <2>1 DEF TabsOK, Differ, TabsDistinct
<1> QED
  BY <1>1, ToolsInductive, PTL

\* The tab that shows a running command, the table of commands that can be cancelled and
\* the goroutines that are still to report agree.
THEOREM RunsStayInStep == ToolsSpec => []RunsAgree
<1>1. ToolsInv => RunsAgree
  <2> SUFFICES ASSUME ToolsInv, NEW id \in Tabs, NEW r \in 1..MaxRuns
               PROVE  /\ runs[id] = r <=> \E i \in DOMAIN workspace.tabs :
                            /\ workspace.tabs[i].id = id
                            /\ workspace.tabs[i].run = r
                            /\ workspace.tabs[i].status = "running"
                      /\ runs[id] = r <=> \E k \in workers : k.session = id /\ k.run = r
    BY DEF RunsAgree
  <2>1. /\ \A t \in Tabs : runs[t] # NoRun => \E k \in workers : k.session = t /\ k.run = runs[t]
        /\ \A k \in workers : runs[k.session] = k.run
        /\ Running(workspace) = {<<k.session, k.run>> : k \in workers}
    BY DEF ToolsInv, ControllerInv, RunsOK
  <2>2. r # NoRun
    BY ControllerBounds DEF NoRun
  <2>3. runs[id] = r <=> \E k \in workers : k.session = id /\ k.run = r
    BY <2>1, <2>2
  <2>4. <<id, r>> \in Running(workspace) <=> \E k \in workers : k.session = id /\ k.run = r
    BY <2>1
  <2>5. <<id, r>> \in Running(workspace) <=>
           \E i \in DOMAIN workspace.tabs : /\ workspace.tabs[i].id = id
                                            /\ workspace.tabs[i].run = r
                                            /\ workspace.tabs[i].status = "running"
    BY DEF Running, ToSet
  <2> QED BY <2>3, <2>4, <2>5
<1> QED
  BY <1>1, ToolsInductive, PTL

\* The terminal shows the active tab's output, and no tab ever holds another's.
THEOREM OutputStaysPrivate == ToolsSpec => []OutputPrivate
<1>1. ToolsInv => OutputPrivate
  <2> SUFFICES ASSUME ToolsInv PROVE OutputPrivate
    OBVIOUS
  <2>1. WorkspaceOK(workspace, history) /\ screen = Shown(workspace)
    BY ViewNow DEF ToolsInv
  <2>2. \A i \in DOMAIN workspace.tabs : TabOK(workspace.tabs[i], workspace.next, history)
    BY <2>1, WorkspaceFacts
  <2> QED BY <2>1, <2>2 DEF Shown, TabOK, OutputPrivate
<1> QED
  BY <1>1, ToolsInductive, PTL

\* No text typed in one tab turns up in another, unless it was run as a command of the
\* profile the two share.
THEOREM LinesStayPrivate == ToolsSpec => []LinesPrivate
<1>1. ToolsInv => LinesPrivate
  <2> SUFFICES ASSUME ToolsInv PROVE LinesPrivate
    OBVIOUS
  <2>1. WorkspaceOK(workspace, history) /\ Typed(workspace, history, input)
    BY ViewNow DEF ToolsInv
  <2>2. \A i \in DOMAIN workspace.tabs : TabOK(workspace.tabs[i], workspace.next, history)
    BY <2>1, WorkspaceFacts
  <2>3. \A tab, line : OwnIn(history, tab, line) => Own(tab, line)
    BY DEF OwnIn, Own
  <2> QED BY <2>1, <2>2, <2>3 DEF Typed, TabOK, LinesPrivate
<1> QED
  BY <1>1, ToolsInductive, PTL

\* The find window counts what the terminal shows and points at one of its matches.
THEOREM FindStaysAccurate == ToolsSpec => []FindAccurate
<1>1. ToolsInv => FindAccurate
  BY DEF ToolsInv, FindOK
<1> QED
  BY <1>1, ToolsInductive, PTL

\* No step makes another tab active than the user chose, as long as that one is there,
\* but for the closing of all others.
THEOREM SelectionStays == ToolsSpec => SelectionKept
<1>1. ToolsInv /\ [ToolsNext]_toolVars => [SelectionStep]_vars
  BY StepPreserves
<1>2. ToolsSpec => [][SelectionStep]_vars
  BY <1>1, ToolsInductive, PTL DEF ToolsSpec
<1> QED
  BY <1>2 DEF SelectionKept, SelectionStep
=============================================================================
