--------------------------- MODULE MainWindowProofs -------------------------
(***************************************************************************)
(* The settings in force are those configured, and the settings window     *)
(* follows what changes them behind it, for any languages, preferences and *)
(* range of font sizes.  The main window does nothing to the settings but  *)
(* what Settings does, so what is proved of the settings alone holds       *)
(* beside the launcher, the connection manager and the editor.             *)
(*                                                                         *)
(* Of the launcher: the rows are the window's present profiles, a search   *)
(* shows what it means, best first, and a start keeps the active profile,  *)
(* for any profiles, queries and limit.                                    *)
(*                                                                         *)
(* Of the window's monitor sidebar: it shows the active tab's host and its *)
(* last published sample, for any tabs and any number of samples, however  *)
(* the samplers, the posted updates and the GUI handlers interleave.       *)
(***************************************************************************)
EXTENDS QuickLauncher, HostMonitor, LibraryProofs

Field == {"lang", "font", "first"}
Config == [lang : Languages, font : Nat, first : BOOLEAN, pref : Preferences]
OpenWindow == [open : {TRUE}, initial : Draft, fields : Draft, typed : SUBSET Field, asked : BOOLEAN]

SettingsTypeOK ==
    /\ cfg \in Config
    /\ file \in Config
    /\ locale \in Languages
    /\ font \in Nat
    /\ window \in {NoWindow} \cup OpenWindow
    /\ report \in {"none", "saved", "failed"}

InRange == cfg.font \in Fonts

\* The window is changed from what is configured, in the fields that were typed in.
Based ==
    window.open =>
        /\ window.initial = DraftOf(cfg)
        /\ \A f \in Field \ window.typed : window.fields[f] = window.initial[f]

SettingsInv == SettingsTypeOK /\ InRange /\ SettingsInForce /\ Based

-----------------------------------------------------------------------------
\* FileConfig.Normalize gives a configuration whose size is in range, and leaves one
\* that is in range alone.
LEMMA Normalizes ==
    ASSUME NEW c \in Config
    PROVE  /\ Normal(c) \in Config
           /\ Normal(c).font \in Fonts
           /\ c.font \in Fonts => Normal(c) = c
BY SettingsAssumption DEF Normal, Config, Fonts

LEMMA SettingsStart == SettingsInit => SettingsInv
<1> SUFFICES ASSUME SettingsInit PROVE SettingsInv
  OBVIOUS
<1>1. file \in Config
  BY SettingsAssumption DEF SettingsInit, Config
<1>2. SettingsTypeOK /\ InRange
  BY <1>1, Normalizes DEF SettingsInit, SettingsTypeOK, InRange, Config
<1>3. SettingsInForce /\ Based
  BY DEF SettingsInit, SettingsInForce, Based, NoWindow
<1> QED
  BY <1>2, <1>3 DEF SettingsInv

\* A write of a configuration, and the rollback when it fails.
LEMMA Persisting ==
    ASSUME SettingsInv, NEW c \in Config, c.font \in Fonts, Persist(c)
    PROVE  /\ cfg' \in Config /\ file' \in Config /\ cfg'.font \in Fonts
           /\ report' \in {"saved", "failed"}
           /\ report' = "saved" => cfg' = c /\ Normal(file') = cfg'
           /\ report' = "failed" => cfg' = cfg
BY Normalizes DEF SettingsInv, SettingsTypeOK, InRange, Persist

LEMMA SettingsInductive == SettingsInv /\ [SettingsNext]_settings => SettingsInv'
<1> SUFFICES ASSUME SettingsInv, [SettingsNext]_settings PROVE SettingsInv'
  OBVIOUS
<1> USE DEF SettingsInv, SettingsTypeOK
<1>0. DraftOf(cfg) \in Draft
  BY DEF DraftOf, Draft, Config
<1>1. CASE OpenSettings
  <2>1. window' \in OpenWindow
    BY <1>0, <1>1 DEF OpenSettings, OpenWindow
  <2>2. Based'
    BY <1>1 DEF OpenSettings, Based, DraftOf
  <2> QED
    BY <1>1, <2>1, <2>2 DEF OpenSettings, InRange, SettingsInForce
<1>2. ASSUME NEW d \in [lang : Languages, font : 0..(MaxFont + 1), first : BOOLEAN], EditSettings(d)
      PROVE SettingsInv'
  <2>1. d \in Draft /\ DOMAIN d = Field
    BY SettingsAssumption DEF Draft, Field
  <2>2. window \in OpenWindow
    BY <1>2 DEF EditSettings, NoWindow
  <2>3. window' \in OpenWindow
    BY <1>2, <2>1, <2>2 DEF EditSettings, OpenWindow
  <2>4. \A f \in Field \ window'.typed : window'.fields[f] = window.fields[f] /\ f \notin window.typed
    BY <1>2, <2>1, <2>2 DEF EditSettings, OpenWindow
  <2>5. window'.initial = window.initial
    BY <1>2, <2>2 DEF EditSettings, OpenWindow
  <2>6. Based'
    BY <1>2, <2>4, <2>5 DEF EditSettings, Based, DraftOf
  <2> QED
    BY <1>2, <2>3, <2>6 DEF EditSettings, InRange, SettingsInForce
<1>3. CASE SaveSettings
  <2>0. window \in OpenWindow
    BY <1>3 DEF SaveSettings, NoWindow
  <2>1. CASE window.fields.font \in Fonts
    <3>1. WithDraft(cfg, window.fields) \in Config /\ WithDraft(cfg, window.fields).font \in Fonts
      BY <2>0, <2>1 DEF WithDraft, Config, OpenWindow, Draft
    <3>2. Persist(WithDraft(cfg, window.fields))
      BY <1>3, <2>1 DEF SaveSettings
    <3>3. CASE report' = "saved"
      <4>1. window' = NoWindow /\ locale' = cfg'.lang /\ font' = cfg'.font
        BY <1>3, <3>3 DEF SaveSettings
      <4> QED
        BY <3>1, <3>2, <3>3, <4>1, Persisting, SettingsAssumption
           DEF InRange, SettingsInForce, Based, NoWindow, Config
    <3>4. CASE report' # "saved"
      <4>1. UNCHANGED <<window, locale, font>>
        BY <1>3, <3>4 DEF SaveSettings
      <4> QED
        BY <3>1, <3>2, <3>4, <4>1, Persisting DEF InRange, SettingsInForce, Based, DraftOf
    <3> QED
      BY <3>3, <3>4
  <2>2. CASE window.fields.font \notin Fonts
    BY <1>3, <2>2 DEF SaveSettings, InRange, SettingsInForce, Based, DraftOf
  <2> QED
    BY <2>1, <2>2
<1>4. CASE RequestClose \/ AnswerPrompt
  <2>1. window \in OpenWindow
    BY <1>4 DEF RequestClose, AnswerPrompt, NoWindow
  <2>2. window' = NoWindow \/ \E b \in BOOLEAN : window' = [window EXCEPT !.asked = b]
    BY <1>4 DEF RequestClose, AnswerPrompt
  <2>3. window' \in {NoWindow} \cup OpenWindow
    BY <2>1, <2>2 DEF OpenWindow
  <2>4. Based'
    BY <1>4, <2>1, <2>2 DEF Based, DraftOf, NoWindow, OpenWindow, RequestClose, AnswerPrompt
  <2> QED
    BY <1>4, <2>3, <2>4 DEF RequestClose, AnswerPrompt, InRange, SettingsInForce
<1>5. ASSUME NEW direction \in {-1, 0, 1}, Zoom(direction) PROVE SettingsInv'
  <2> DEFINE size == ZoomTarget(direction)
             c == [cfg EXCEPT !.font = size]
  <2>1. size \in Fonts /\ size \in Nat
    BY SettingsAssumption DEF ZoomTarget, InRange, Fonts, Config
  <2>2. c \in Config /\ c.font = size
    BY <2>1 DEF Config
  <2>3. Persist(c)
    BY <1>5 DEF Zoom
  <2> HIDE DEF c, size
  <2>4. CASE report' = "saved"
    <3>1. font' = size /\ window' = Zoomed(window, cfg.font, size) /\ locale' = locale
      BY <1>5, <2>4 DEF Zoom, size
    <3>2. cfg' = c /\ cfg'.lang = cfg.lang /\ cfg'.first = cfg.first
      BY <2>1, <2>2, <2>3, <2>4, Persisting DEF c, Config
    <3>3. CASE ~window.open
      BY <2>1, <2>2, <2>3, <2>4, <3>1, <3>2, <3>3, Persisting
         DEF Zoomed, InRange, SettingsInForce, Based
    <3>4. CASE window.open
      <4>1. window \in OpenWindow
        BY <3>4 DEF NoWindow
      <4>2. window' = [window EXCEPT !.initial.font = size,
                          !.fields.font = IF @ = cfg.font THEN size ELSE @]
        BY <3>1, <3>4 DEF Zoomed
      <4>3. window' \in OpenWindow
        BY <2>1, <4>1, <4>2 DEF OpenWindow, Draft
      <4>4. window'.initial = DraftOf(cfg)'
        BY <2>2, <3>2, <3>4, <4>1, <4>2 DEF Based, DraftOf, OpenWindow, Draft
      <4>5. \A f \in Field \ window'.typed : window'.fields[f] = window'.initial[f]
        BY <3>4, <4>1, <4>2 DEF Based, DraftOf, OpenWindow, Draft, Field
      <4> QED
        BY <2>1, <2>2, <2>3, <2>4, <3>1, <3>2, <4>3, <4>4, <4>5, Persisting
           DEF InRange, SettingsInForce, Based
    <3> QED
      BY <3>3, <3>4
  <2>5. CASE report' # "saved"
    BY <1>5, <2>1, <2>2, <2>3, <2>5, Persisting DEF Zoom, InRange, SettingsInForce, Based, DraftOf
  <2> QED
    BY <2>4, <2>5
<1>6. ASSUME NEW pref \in Preferences, SetPreference(pref) PROVE SettingsInv'
  <2> DEFINE c == [cfg EXCEPT !.pref = pref]
  <2>1. c \in Config /\ c.font = cfg.font /\ DraftOf(c) = DraftOf(cfg)
    BY DEF Config, DraftOf
  <2>2. Persist(c) /\ UNCHANGED <<locale, font, window>>
    BY <1>6 DEF SetPreference
  <2>3. c.lang = cfg.lang
    BY DEF Config
  <2> HIDE DEF c
  <2>4. cfg' = c \/ cfg' = cfg
    BY <2>1, <2>2, Persisting DEF InRange
  <2>5. DraftOf(cfg') = DraftOf(cfg)
    BY <2>1, <2>4
  <2>6. Based'
    BY <2>2, <2>5 DEF Based, DraftOf
  <2> QED
    BY <2>1, <2>2, <2>3, <2>4, <2>6, Persisting DEF InRange, SettingsInForce
<1>7. CASE RestartSettings
  BY <1>7, Normalizes DEF RestartSettings, InRange, SettingsInForce, Based, NoWindow, Config
<1>8. CASE UNCHANGED settings
  BY <1>8 DEF settings, InRange, SettingsInForce, Based, DraftOf
<1> QED
  BY <1>1, <1>2, <1>3, <1>4, <1>5, <1>6, <1>7, <1>8 DEF SettingsNext, SettingsStep

-----------------------------------------------------------------------------
\* The invariant of the settings: types, sizes in range, and the window's baseline.
THEOREM SettingsInvariance == SettingsSpec => []SettingsInv
<1>1. SettingsInit => SettingsInv
  BY SettingsStart
<1>2. SettingsInv /\ [SettingsNext]_settings => SettingsInv'
  BY SettingsInductive
<1> QED
  BY <1>1, <1>2, PTL DEF SettingsSpec

\* What persistSettingsDraft and its callers promise: what runs is what is configured
\* and, unless a write has failed, what a restart would load.
THEOREM InForce == SettingsSpec => []SettingsInForce
<1>1. SettingsInv => SettingsInForce
  BY DEF SettingsInv
<1> QED
  BY <1>1, SettingsInvariance, PTL

\* The settings window never holds an old value in a field that nobody has typed in.
THEOREM NeverOld == SettingsSpec => []WindowCurrent
<1>1. SettingsInv => WindowCurrent
  <2> SUFFICES ASSUME SettingsInv, window.open PROVE WindowCurrent
    BY DEF WindowCurrent
  <2>0. window \in OpenWindow
    BY DEF SettingsInv, SettingsTypeOK, NoWindow
  <2>1. window.fields \in Draft
    BY <2>0 DEF OpenWindow
  <2>2. window.initial = DraftOf(cfg)
    BY DEF SettingsInv, Based
  <2>3. DOMAIN window.fields = Field
    BY <2>1 DEF Draft, Field
  <2> QED
    BY <2>2, <2>3 DEF SettingsInv, Based, WindowCurrent, Dirty
<1> QED
  BY <1>1, SettingsInvariance, PTL

-----------------------------------------------------------------------------
\* The settings in the whole main window.

\* Every step of the window is a step of the settings, or leaves them alone: the window
\* that is built again for a language, or started again, is so after the settings' step.
THEOREM WindowKeepsSettings == WindowSpec => SettingsSpec
<1>1. WindowInit => SettingsInit
  BY DEF WindowInit
<1>2. [WindowNext]_windowVars => [SettingsNext]_settings
  BY DEF WindowNext, SaveAndRebuild, Start, SettingsNext, windowVars
<1> QED
  BY <1>1, <1>2, PTL DEF WindowSpec, SettingsSpec

\* In the whole window the configured settings are in force (persistSettingsDraft and
\* zoomTerminal), and the settings window is never behind them.
THEOREM WindowInForce == WindowSpec => [](SettingsInForce /\ WindowCurrent)
<1>1. SettingsSpec => [](SettingsInForce /\ WindowCurrent)
  BY InForce, NeverOld, PTL
<1> QED
  BY <1>1, WindowKeepsSettings

-----------------------------------------------------------------------------
\* The alphabet.

\* s comes before t in the alphabet by what they have at place i.
At(s, t, i) ==
    /\ i \in 1..Len(t) /\ i <= Len(s) + 1
    /\ \A j \in 1..(i - 1) : s[j] = t[j]
    /\ i <= Len(s) => s[i] < t[i]

\* A prefix, letter by letter.
LEMMA PrefixIs ==
    ASSUME NEW s \in Seq(Nat), NEW t \in Seq(Nat)
    PROVE  /\ IsPrefix(s, t) <=> Len(s) <= Len(t) /\ \A j \in 1..Len(s) : s[j] = t[j]
           /\ IsStrictPrefix(s, t) <=> Len(s) < Len(t) /\ \A j \in 1..Len(s) : s[j] = t[j]
<1> DEFINE m == Len(s)
<1>1. m \in Nat /\ Len(t) \in Nat /\ s = [i \in 1..m |-> s[i]] /\ t = [i \in 1..Len(t) |-> t[i]]
  BY LenProperties
<1>2. SubSeq(s, 1, m) = [i \in 1..m |-> s[i]]
  BY <1>1
<1>3. m <= Len(t) => SubSeq(t, 1, m) = [i \in 1..m |-> t[i]]
  BY <1>1
<1>4. IsPrefix(s, t) <=> m <= Len(t) /\ \A j \in 1..m : s[j] = t[j]
  <2> HIDE DEF m
  <2>1. [i \in 1..m |-> s[i]] = [i \in 1..m |-> t[i]] <=> \A j \in 1..m : s[j] = t[j]
    OBVIOUS
  <2> QED BY <1>2, <1>3, <2>1 DEF IsPrefix, m
<1>5. m = Len(t) /\ (\A j \in 1..m : s[j] = t[j]) => s = t
  <2> HIDE DEF m
  <2> SUFFICES ASSUME m = Len(t), \A j \in 1..m : s[j] = t[j] PROVE s = t
    OBVIOUS
  <2>1. [i \in 1..m |-> s[i]] = [i \in 1..m |-> t[i]]
    OBVIOUS
  <2> QED BY <1>1, <2>1
<1>6. s = t => m = Len(t)
  OBVIOUS
<1> HIDE DEF m
<1>7. IsStrictPrefix(s, t) <=> m < Len(t) /\ \A j \in 1..m : s[j] = t[j]
  BY <1>1, <1>4, <1>5, <1>6 DEF IsStrictPrefix
<1> QED BY <1>4, <1>7 DEF m

\* The order of the alphabet is decided at one place.
LEMMA BeforeIs ==
    ASSUME NEW s \in Seq(Nat), NEW t \in Seq(Nat)
    PROVE  Before(s, t) <=> \E i \in Nat : At(s, t, i)
<1> DEFINE m == Len(s)
           n == Len(t)
<1>1. m \in Nat /\ n \in Nat /\ DOMAIN s = 1..m /\ DOMAIN t = 1..n
  BY LenProperties
<1>2. Before(s, t) <=>
         \/ m < n /\ \A j \in 1..m : s[j] = t[j]
         \/ \E i \in 1..m \cap 1..n : s[i] < t[i] /\ \A j \in 1..(i - 1) : s[j] = t[j]
  BY <1>1, PrefixIs DEF Before
<1> HIDE DEF m, n
<1>3. ASSUME m < n, \A j \in 1..m : s[j] = t[j] PROVE \E i \in Nat : At(s, t, i)
  <2>1. m + 1 \in Nat /\ m + 1 \in 1..n /\ (m + 1) - 1 = m /\ ~(m + 1 <= m)
    BY <1>1, <1>3
  <2>2. At(s, t, m + 1)
    BY <1>1, <1>3, <2>1 DEF At, m, n
  <2> QED BY <2>1, <2>2
<1>4. ASSUME NEW i \in 1..m \cap 1..n, s[i] < t[i], \A j \in 1..(i - 1) : s[j] = t[j]
      PROVE  \E k \in Nat : At(s, t, k)
  <2>1. i \in Nat /\ i <= m + 1
    BY <1>1
  <2>2. At(s, t, i)
    BY <1>4, <2>1 DEF At, m, n
  <2> QED BY <2>1, <2>2
<1>5. ASSUME NEW i \in Nat, At(s, t, i) PROVE Before(s, t)
  <2>1. /\ i \in 1..n /\ i <= m + 1
        /\ \A j \in 1..(i - 1) : s[j] = t[j]
        /\ i <= m => s[i] < t[i]
    BY <1>5 DEF At, m, n
  <2>2. CASE i <= m
    <3>1. i \in 1..m \cap 1..n
      BY <1>1, <2>1, <2>2
    <3> QED BY <1>2, <2>1, <2>2, <3>1
  <2>3. CASE ~(i <= m)
    <3>1. i - 1 = m /\ m < n
      BY <1>1, <2>1, <2>3
    <3> QED BY <1>2, <2>1, <3>1
  <2> QED BY <2>2, <2>3
<1> QED BY <1>2, <1>3, <1>4, <1>5

\* The order of texts is linear.
LEMMA BeforeLinear ==
    /\ \A s \in Text : ~Before(s, s)
    /\ \A s, t \in Text : s # t => Before(s, t) \/ Before(t, s)
    /\ \A s, t, u \in Text : Before(s, t) /\ Before(t, u) => Before(s, u)
<1> USE DEF Text
<1>1. ASSUME NEW s \in Text, Before(s, s) PROVE FALSE
  <2>1. PICK i \in Nat : At(s, s, i)
    BY <1>1, BeforeIs
  <2>2. i \in 1..Len(s) /\ s[i] < s[i] /\ s[i] \in Nat
    BY <2>1 DEF At
  <2> QED BY <2>2
<1>2. ASSUME NEW s \in Text, NEW t \in Text, s # t PROVE Before(s, t) \/ Before(t, s)
  <2> DEFINE m == Len(s)
             n == Len(t)
             D == {k \in Nat \ {0} : k > m \/ k > n \/ s[k] # t[k]}
  <2>1. /\ m \in Nat /\ n \in Nat
        /\ s = [i \in 1..m |-> s[i]] /\ t = [i \in 1..n |-> t[i]]
        /\ \A i \in 1..m : s[i] \in Nat
        /\ \A i \in 1..n : t[i] \in Nat
    BY LenProperties
  <2> HIDE DEF m, n
  <2>2. D \in SUBSET Nat /\ m + 1 \in D
    BY <2>1
  <2>3. PICK i \in D : \A k \in D : i <= k
    <3> HIDE DEF D
    <3> QED BY <2>2, LeastNatural
  <2>4. i \in Nat \ {0} /\ (i > m \/ i > n \/ s[i] # t[i])
    OBVIOUS
  <2>5. \A j \in 1..(i - 1) : j <= m /\ j <= n /\ s[j] = t[j]
    <3> SUFFICES ASSUME NEW j \in 1..(i - 1) PROVE j <= m /\ j <= n /\ s[j] = t[j]
      OBVIOUS
    <3>1. j \in Nat \ {0} /\ ~(i <= j)
      BY <2>4
    <3>2. j \notin D
      <4> HIDE DEF D
      <4> QED BY <2>3, <3>1
    <3>3. ~(j > m) /\ ~(j > n) /\ s[j] = t[j]
      BY <3>1, <3>2
    <3> QED BY <2>1, <3>1, <3>3
  <2> HIDE DEF D
  <2>6. i <= m + 1 /\ i <= n + 1
    <3> SUFFICES ASSUME i > m + 1 \/ i > n + 1 PROVE FALSE
      BY <2>1, <2>4
    <3>1. i - 1 \in 1..(i - 1) /\ (i - 1 > m \/ i - 1 > n)
      BY <2>1, <2>4
    <3>2. i - 1 <= m /\ i - 1 <= n
      BY <2>5, <3>1
    <3> QED BY <2>1, <2>4, <3>1, <3>2
  <2> HIDE DEF D
  <2>7. CASE i <= m /\ i <= n
    <3>1. s[i] < t[i] \/ t[i] < s[i]
      <4>1. s[i] \in Nat /\ t[i] \in Nat /\ s[i] # t[i]
        BY <2>1, <2>4, <2>7
      <4> QED BY <4>1
    <3>2. At(s, t, i) \/ At(t, s, i)
      BY <2>1, <2>4, <2>5, <2>7, <3>1 DEF At, m, n
    <3> QED BY <2>4, <3>2, BeforeIs
  <2>8. CASE i > m /\ i <= n
    <3>1. At(s, t, i)
      BY <2>1, <2>4, <2>5, <2>6, <2>8 DEF At, m, n
    <3> QED BY <2>4, <3>1, BeforeIs
  <2>9. CASE i > n /\ i <= m
    <3>1. At(t, s, i)
      BY <2>1, <2>4, <2>5, <2>6, <2>9 DEF At, m, n
    <3> QED BY <2>4, <3>1, BeforeIs
  <2>10. CASE i > m /\ i > n
    <3>1. m = n /\ i - 1 = m
      BY <2>1, <2>4, <2>6, <2>10
    <3>2. [k \in 1..m |-> s[k]] = [k \in 1..m |-> t[k]]
      BY <2>5, <3>1
    <3> QED BY <1>2, <2>1, <3>1, <3>2
  <2> QED BY <2>1, <2>4, <2>7, <2>8, <2>9, <2>10
<1>3. ASSUME NEW s \in Text, NEW t \in Text, NEW u \in Text, Before(s, t), Before(t, u)
      PROVE  Before(s, u)
  <2> DEFINE m == Len(s)
             n == Len(t)
             l == Len(u)
  <2>1. /\ m \in Nat /\ n \in Nat /\ l \in Nat
        /\ \A x \in 1..m : s[x] \in Nat
        /\ \A x \in 1..n : t[x] \in Nat
        /\ \A x \in 1..l : u[x] \in Nat
    BY LenProperties
  <2>2. PICK i \in Nat : At(s, t, i)
    BY <1>3, BeforeIs
  <2>3. PICK k \in Nat : At(t, u, k)
    BY <1>3, BeforeIs
  <2>4. /\ i \in 1..n /\ i <= m + 1
        /\ \A j \in 1..(i - 1) : s[j] = t[j]
        /\ i <= m => s[i] < t[i]
    BY <2>2 DEF At
  <2>5. /\ k \in 1..l /\ k <= n + 1
        /\ \A j \in 1..(k - 1) : t[j] = u[j]
        /\ k <= n => t[k] < u[k]
    BY <2>3 DEF At
  <2> HIDE DEF m, n, l
  <2> DEFINE h == IF i <= k THEN i ELSE k
  <2>6. h \in 1..l /\ h <= m + 1 /\ h \in Nat
    BY <2>1, <2>4, <2>5
  <2>7. \A j \in 1..(h - 1) : s[j] = u[j]
    BY <2>1, <2>4, <2>5
  <2>8. h <= m => s[h] < u[h]
    <3> SUFFICES ASSUME h <= m PROVE s[h] < u[h]
      OBVIOUS
    <3>1. CASE i < k
      <4>1. h = i /\ t[i] = u[i] /\ s[i] < t[i]
        BY <2>1, <2>4, <2>5, <3>1
      <4> QED BY <4>1
    <3>2. CASE i = k
      <4>1. h = i /\ s[i] < t[i] /\ t[i] < u[i] /\ i \in 1..m /\ i \in 1..n /\ i \in 1..l
        BY <2>1, <2>4, <2>5, <3>2
      <4>2. s[i] \in Nat /\ t[i] \in Nat /\ u[i] \in Nat
        BY <2>1, <4>1
      <4> HIDE DEF h
      <4> QED BY <4>1, <4>2
    <3>3. CASE i > k
      <4>1. h = k /\ s[k] = t[k] /\ t[k] < u[k]
        BY <2>1, <2>4, <2>5, <3>3
      <4> QED BY <4>1
    <3> QED BY <3>1, <3>2, <3>3
  <2> HIDE DEF h
  <2>9. At(s, u, h)
    BY <2>6, <2>7, <2>8 DEF At, m, l
  <2> QED BY <2>6, <2>9, BeforeIs
<1> QED BY <1>1, <1>2, <1>3

-----------------------------------------------------------------------------
\* The orders of the lists.

\* No two profiles have the same ID.
Unique(S) == \A p, o \in S : p.id = o.id => p = o

Alphabetic(p, o) == Before(p.name, o.name) \/ (p.name = o.name /\ p.id < o.id)

\* Profiles in the order of their names, those of one name by their IDs.
LEMMA AlphabeticLinear ==
    ASSUME NEW S \in SUBSET Profiles, Unique(S)
    PROVE  /\ \A p \in S : ~Alphabetic(p, p)
           /\ \A p, o \in S : p # o => Alphabetic(p, o) \/ Alphabetic(o, p)
           /\ \A p, o, r \in S : Alphabetic(p, o) /\ Alphabetic(o, r) => Alphabetic(p, r)
<1>1. \A p \in S : p.name \in Text /\ p.id \in Nat
  BY DEF Profiles
<1>2. ASSUME NEW p \in S PROVE ~Alphabetic(p, p)
  BY <1>1, BeforeLinear DEF Alphabetic
<1>3. ASSUME NEW p \in S, NEW o \in S, p # o PROVE Alphabetic(p, o) \/ Alphabetic(o, p)
  BY <1>1, <1>3, BeforeLinear DEF Alphabetic, Unique
<1>4. ASSUME NEW p \in S, NEW o \in S, NEW r \in S, Alphabetic(p, o), Alphabetic(o, r)
      PROVE  Alphabetic(p, r)
  <2>1. p.name = o.name \/ o.name = r.name \/ Before(p.name, r.name)
    BY <1>1, <1>4, BeforeLinear DEF Alphabetic
  <2>2. p.id \in Nat /\ o.id \in Nat /\ r.id \in Nat
    BY <1>1
  <2> QED BY <1>4, <2>1, <2>2 DEF Alphabetic
<1> QED BY <1>2, <1>3, <1>4

\* A comparison by a number first, and alphabetic where that is equal.
LEMMA QuickLinear ==
    ASSUME NEW S \in SUBSET Profiles, Unique(S)
    PROVE  LinearOn({x \in S \X S : QuickBefore(x[1], x[2])}, S)
<1> DEFINE Q(p, o) ==
        \/ p.favorite = TRUE /\ o.favorite = FALSE
        \/ p.favorite = o.favorite /\ p.used > o.used
        \/ p.favorite = o.favorite /\ p.used = o.used /\ Alphabetic(p, o)
<1>1. \A p \in S : p.favorite \in BOOLEAN /\ p.used \in Nat
  BY DEF Profiles
<1>2. \A p, o \in S : QuickBefore(p, o) <=> Q(p, o)
  <2> SUFFICES ASSUME NEW p \in S, NEW o \in S PROVE QuickBefore(p, o) <=> Q(p, o)
    OBVIOUS
  <2>1. CASE p.favorite # o.favorite
    BY <1>1, <2>1 DEF QuickBefore
  <2>2. CASE p.favorite = o.favorite /\ p.used # o.used
    BY <1>1, <2>2 DEF QuickBefore
  <2>3. CASE p.favorite = o.favorite /\ p.used = o.used
    BY <1>1, <2>3 DEF QuickBefore, Alphabetic
  <2> QED BY <2>1, <2>2, <2>3
<1>3. \A p \in S : ~Q(p, p)
  BY <1>1, AlphabeticLinear
<1>4. ASSUME NEW p \in S, NEW o \in S, p # o PROVE Q(p, o) \/ Q(o, p)
  BY <1>1, <1>4, AlphabeticLinear
<1>5. ASSUME NEW p \in S, NEW o \in S, NEW r \in S, Q(p, o), Q(o, r) PROVE Q(p, r)
  <2>1. Alphabetic(p, o) /\ Alphabetic(o, r) => Alphabetic(p, r)
    BY AlphabeticLinear
  <2>2. p.used \in Nat /\ o.used \in Nat /\ r.used \in Nat
    BY <1>1
  <2> QED BY <1>5, <2>1, <2>2
<1> HIDE DEF Q
<1> QED BY <1>2, <1>3, <1>4, <1>5 DEF LinearOn

\* The same for the order in which the first profile is found, and for that of a search.
LEMMA NavigatorLinear ==
    ASSUME NEW S \in SUBSET Profiles, Unique(S)
    PROVE  LinearOn({x \in S \X S : NavigatorBefore(x[1], x[2])}, S)
<1> DEFINE G(p) == p.texts["group"]
           Q(p, o) ==
        \/ p.used > o.used
        \/ p.used = o.used /\ Before(G(p), G(o))
        \/ p.used = o.used /\ G(p) = G(o) /\ Alphabetic(p, o)
<1>1. \A p \in S : G(p) \in Text /\ p.used \in Nat
  BY DEF Profiles, TextFields
<1>2. \A p, o \in S : NavigatorBefore(p, o) <=> Q(p, o)
  <2> SUFFICES ASSUME NEW p \in S, NEW o \in S PROVE NavigatorBefore(p, o) <=> Q(p, o)
    OBVIOUS
  <2>0. ~Before(G(p), G(p)) /\ p.used \in Nat /\ o.used \in Nat
    BY <1>1, BeforeLinear
  <2>1. CASE p.used # o.used
    BY <2>0, <2>1 DEF NavigatorBefore
  <2>2. CASE p.used = o.used /\ G(p) # G(o)
    BY <2>0, <2>2 DEF NavigatorBefore
  <2>3. CASE p.used = o.used /\ G(p) = G(o)
    BY <2>0, <2>3 DEF NavigatorBefore, Alphabetic
  <2> QED BY <2>1, <2>2, <2>3
<1> HIDE DEF G
<1>3. \A p \in S : ~Q(p, p)
  BY <1>1, AlphabeticLinear, BeforeLinear
<1>4. ASSUME NEW p \in S, NEW o \in S, p # o PROVE Q(p, o) \/ Q(o, p)
  BY <1>1, <1>4, AlphabeticLinear, BeforeLinear
<1>5. ASSUME NEW p \in S, NEW o \in S, NEW r \in S, Q(p, o), Q(o, r) PROVE Q(p, r)
  <2>1. Alphabetic(p, o) /\ Alphabetic(o, r) => Alphabetic(p, r)
    BY AlphabeticLinear
  <2>2. Before(G(p), G(o)) /\ Before(G(o), G(r)) => Before(G(p), G(r))
    BY <1>1, BeforeLinear
  <2>3. p.used \in Nat /\ o.used \in Nat /\ r.used \in Nat
    BY <1>1
  <2> QED BY <1>5, <2>1, <2>2, <2>3
<1> HIDE DEF Q
<1> QED BY <1>2, <1>3, <1>4, <1>5 DEF LinearOn

LEMMA MatchLinear ==
    ASSUME NEW S \in SUBSET Profiles, Unique(S), NEW q, NEW now,
           \A p \in S : Rank(p, q, now) \in Int
    PROVE  LinearOn({x \in S \X S : BetterMatch(x[1], x[2], q, now)}, S)
<1> DEFINE K(p) == Rank(p, q, now)
           Q(p, o) == K(p) < K(o) \/ (K(p) = K(o) /\ Alphabetic(p, o))
<1>1. \A p \in S : K(p) \in Int
  OBVIOUS
<1>2. \A p, o \in S : BetterMatch(p, o, q, now) <=> Q(p, o)
  <2> SUFFICES ASSUME NEW p \in S, NEW o \in S PROVE BetterMatch(p, o, q, now) <=> Q(p, o)
    OBVIOUS
  <2>1. K(p) \in Int /\ K(o) \in Int
    BY <1>1
  <2>2. BetterMatch(p, o, q, now) = IF K(p) # K(o) THEN K(p) < K(o) ELSE Alphabetic(p, o)
    BY Zenon DEF BetterMatch, Alphabetic
  <2> HIDE DEF K
  <2>3. CASE K(p) = K(o)
    <3>1. BetterMatch(p, o, q, now) = Alphabetic(p, o)
      BY Zenon, <2>2, <2>3
    <3>2. ~(K(p) < K(o))
      BY <2>1, <2>3
    <3>3. Alphabetic(p, o) \in BOOLEAN
      BY DEF Alphabetic
    <3> QED BY Zenon, <2>3, <3>1, <3>2
  <2>4. CASE K(p) # K(o)
    <3>1. BetterMatch(p, o, q, now) = (K(p) < K(o))
      BY Zenon, <2>2, <2>4
    <3> QED BY Zenon, <2>4, <3>1
  <2> QED BY <2>3, <2>4
<1> HIDE DEF K
<1>3. \A p \in S : ~Q(p, p)
  BY <1>1, AlphabeticLinear
<1>4. ASSUME NEW p \in S, NEW o \in S, p # o PROVE Q(p, o) \/ Q(o, p)
  BY <1>1, <1>4, AlphabeticLinear
<1>5. ASSUME NEW p \in S, NEW o \in S, NEW r \in S, Q(p, o), Q(o, r) PROVE Q(p, r)
  <2>1. Alphabetic(p, o) /\ Alphabetic(o, r) => Alphabetic(p, r)
    BY AlphabeticLinear
  <2>2. K(p) \in Int /\ K(o) \in Int /\ K(r) \in Int
    BY <1>1
  <2> QED BY <1>5, <2>1, <2>2
<1> HIDE DEF Q
<1> QED BY <1>2, <1>3, <1>4, <1>5 DEF LinearOn

\* s has the profiles of S, each once.
Lists(s, S) ==
    /\ s \in Seq(S) /\ ToSet(s) = S
    /\ \A i, j \in DOMAIN s : s[i].id = s[j].id => i = j

\* What a sequence sorted by R lists.
LEMMA SortedLists ==
    ASSUME NEW S, IsFiniteSet(S), Unique(S), NEW R, LinearOn(R, S),
           NEW s \in [1..Cardinality(S) -> S], ToSet(s) = S,
           \A i, j \in DOMAIN s : i < j => <<s[i], s[j]>> \in R
    PROVE  Lists(s, S)
<1> DEFINE n == Cardinality(S)
<1>1. n \in Nat
  BY FS_CardinalityType
<1> HIDE DEF n
<1>2. s \in [1..n -> S]
  BY DEF n
<1>3. Sorts(s, S, n, R)
  BY <1>2 DEF Sorts, ToSet
<1>4. \A i, j \in 1..n : s[i] = s[j] => i = j
  BY ONLY LinearOn(R, S), <1>1, <1>3, SortedOnce
<1>5. s \in Seq(S) /\ DOMAIN s = 1..n
  BY <1>1, <1>2
<1> QED BY <1>2, <1>4, <1>5 DEF Lists, Unique

\* What is sorted exists.
LEMMA SortedExists ==
    ASSUME NEW S, IsFiniteSet(S), NEW R, LinearOn(R, S)
    PROVE  \E s \in [1..Cardinality(S) -> S] :
              ToSet(s) = S /\ \A i, j \in DOMAIN s : i < j => <<s[i], s[j]>> \in R
<1> DEFINE n == Cardinality(S)
<1>1. PICK s : Sorts(s, S, n, R)
  BY Sortable
<1> HIDE DEF n
<1>2. s \in [1..n -> S]
  BY <1>1 DEF Sorts
<1>3. ToSet(s) = S
  BY <1>1, <1>2 DEF Sorts, ToSet
<1>4. \A i, j \in DOMAIN s : i < j => <<s[i], s[j]>> \in R
  BY <1>1, <1>2 DEF Sorts
<1> QED BY <1>2, <1>3, <1>4 DEF n

\* The list without a search.
LEMMA QuickSorted ==
    ASSUME NEW S \in SUBSET Profiles, IsFiniteSet(S), Unique(S)
    PROVE  Lists(Sorted(S, QuickBefore), S)
<1> DEFINE R == {x \in S \X S : QuickBefore(x[1], x[2])}
           Good(s) == ToSet(s) = S /\ \A i, j \in DOMAIN s : i < j => QuickBefore(s[i], s[j])
           s0 == CHOOSE s \in [1..Cardinality(S) -> S] : Good(s)
<1>1. LinearOn(R, S)
  BY QuickLinear
<1>2. \A p, o \in S : <<p, o>> \in R <=> QuickBefore(p, o)
  OBVIOUS
<1> HIDE DEF R
<1>3. PICK s \in [1..Cardinality(S) -> S] :
         ToSet(s) = S /\ \A i, j \in DOMAIN s : i < j => <<s[i], s[j]>> \in R
  BY <1>1, SortedExists
<1>4. Good(s)
  BY <1>2, <1>3
<1>5. s0 \in [1..Cardinality(S) -> S] /\ Good(s0)
  <2> HIDE DEF Good
  <2> QED BY <1>4
<1>6. Sorted(S, QuickBefore) = s0
  BY DEF Sorted
<1> HIDE DEF s0
<1>7. ToSet(s0) = S /\ \A i, j \in DOMAIN s0 : i < j => <<s0[i], s0[j]>> \in R
  BY <1>2, <1>5
<1>8. Lists(s0, S)
  BY <1>1, <1>5, <1>7, SortedLists
<1> QED BY <1>6, <1>8

\* The search, best match first.
LEMMA FoundSorted ==
    ASSUME NEW S \in SUBSET Profiles, IsFiniteSet(S), Unique(S), NEW q, NEW now,
           \A p \in S : Rank(p, q, now) \in Int
    PROVE  LET found == Found(S, q, now)
               matches == {p \in S : Rank(p, q, now) # NoMatch}
           IN  /\ Lists(found, matches)
               /\ \A i, j \in DOMAIN found : i < j => BetterMatch(found[i], found[j], q, now)
<1> DEFINE M == {p \in S : Rank(p, q, now) # NoMatch}
           R == {x \in M \X M : BetterMatch(x[1], x[2], q, now)}
           Good(s) == /\ ToSet(s) = M
                      /\ \A i, j \in DOMAIN s : i < j => BetterMatch(s[i], s[j], q, now)
           s0 == CHOOSE s \in [1..Cardinality(M) -> M] : Good(s)
<1>1. M \in SUBSET S /\ M \in SUBSET Profiles /\ Unique(M) /\ IsFiniteSet(M)
      /\ \A p \in M : Rank(p, q, now) \in Int
  BY FS_Subset DEF Unique
<1>2. Found(S, q, now) = s0
  BY DEF Found, Sorted
<1> HIDE DEF M
<1>3. LinearOn(R, M)
  BY <1>1, MatchLinear
<1>4. \A p, o \in M : <<p, o>> \in R <=> BetterMatch(p, o, q, now)
  OBVIOUS
<1> HIDE DEF R
<1>5. PICK s \in [1..Cardinality(M) -> M] :
         ToSet(s) = M /\ \A i, j \in DOMAIN s : i < j => <<s[i], s[j]>> \in R
  BY <1>1, <1>3, SortedExists
<1>6. Good(s)
  BY <1>4, <1>5
<1>7. s0 \in [1..Cardinality(M) -> M] /\ Good(s0)
  <2> HIDE DEF Good
  <2> QED BY <1>6
<1> HIDE DEF s0
<1>8. ToSet(s0) = M /\ \A i, j \in DOMAIN s0 : i < j => <<s0[i], s0[j]>> \in R
  BY <1>4, <1>7
<1>9. Lists(s0, M)
  BY <1>1, <1>3, <1>7, <1>8, SortedLists
<1> QED BY <1>2, <1>7, <1>9 DEF M

\* The first profile in the navigator's order is one of them.
LEMMA FirstIDOf ==
    ASSUME NEW S \in SUBSET Profiles, IsFiniteSet(S), Unique(S), S # {}
    PROVE  FirstID(S) \in IDsOf(S)
<1> DEFINE R == {x \in S \X S : NavigatorBefore(x[1], x[2])}
           n == Cardinality(S)
           Least(p) == \A o \in S \ {p} : NavigatorBefore(p, o)
           first == CHOOSE p \in S : Least(p)
<1>1. LinearOn(R, S)
  BY NavigatorLinear
<1>2. \A p, o \in S : <<p, o>> \in R <=> NavigatorBefore(p, o)
  OBVIOUS
<1>3. n \in Nat /\ n # 0
  BY FS_CardinalityType, FS_EmptySet
<1> HIDE DEF R
<1>4. PICK s \in [1..n -> S] :
         ToSet(s) = S /\ \A i, j \in DOMAIN s : i < j => <<s[i], s[j]>> \in R
  BY <1>1, SortedExists
<1> HIDE DEF n
<1>5. s[1] \in S /\ 1 \in DOMAIN s
  BY <1>3, <1>4
<1>6. Least(s[1])
  <2> SUFFICES ASSUME NEW o \in S \ {s[1]} PROVE NavigatorBefore(s[1], o)
    OBVIOUS
  <2>1. PICK i \in 1..n : s[i] = o
    BY <1>4 DEF ToSet
  <2>2. i # 1 /\ 1 < i /\ i \in DOMAIN s
    BY <1>4, <2>1
  <2> QED BY <1>2, <1>4, <1>5, <2>1, <2>2
<1>7. first \in S
  <2> HIDE DEF Least
  <2> QED BY <1>5, <1>6
<1>8. FirstID(S) = first.id
  BY DEF FirstID
<1> HIDE DEF first
<1> QED BY <1>7, <1>8 DEF IDsOf

-----------------------------------------------------------------------------
\* What a search means.

\* What begins with a value contains it.
LEMMA PrefixOccurs ==
    ASSUME NEW value \in Text, NEW text \in Text, IsPrefix(value, text)
    PROVE  OccursIn(value, text)
<1> USE DEF Text
<1>1. Len(value) \in Nat /\ Len(text) \in Nat /\ Len(value) <= Len(text)
  BY DEF IsPrefix
<1>2. SubSeq(text, 1, Len(value)) = SubSeq(value, 1, Len(value))
  BY DEF IsPrefix
<1>3. SubSeq(value, 1, Len(value)) = value
  OBVIOUS
<1>4. 0 \in 0..(Len(text) - Len(value)) /\ 0 + 1 = 1 /\ 0 + Len(value) = Len(value)
  BY <1>1
<1> QED BY <1>2, <1>3, <1>4 DEF OccursIn

\* The rank of a name is its likeness, and a name that contains the value has one.
LEMMA NameRankIs ==
    ASSUME NEW p \in Profiles, NEW value \in Text
    PROVE  /\ NameRank(p, value) \in {NoMatch, 0, 1, 2}
           /\ NameRank(p, value) # NoMatch <=> OccursIn(value, p.name)
           /\ OccursIn(value, p.name) => NameRank(p, value) = Likeness(p, value)
<1>1. p.name \in Text
  BY DEF Profiles
<1>2. p.name = value => IsPrefix(value, p.name)
  BY <1>1 DEF Text, IsPrefix
<1>3. IsPrefix(value, p.name) => OccursIn(value, p.name)
  BY <1>1, PrefixOccurs
<1>4. IsStrictPrefix(value, p.name) <=> IsPrefix(value, p.name) /\ value # p.name
  BY DEF IsStrictPrefix
<1>5. CASE p.name = value
  BY <1>2, <1>3, <1>4, <1>5 DEF NameRank, NoMatch, Likeness
<1>6. CASE p.name # value /\ IsPrefix(value, p.name)
  BY <1>3, <1>4, <1>6 DEF NameRank, NoMatch, Likeness
<1>7. CASE p.name # value /\ ~IsPrefix(value, p.name) /\ OccursIn(value, p.name)
  BY <1>2, <1>4, <1>7 DEF NameRank, NoMatch, Likeness
<1>8. CASE p.name # value /\ ~IsPrefix(value, p.name) /\ ~OccursIn(value, p.name)
  BY <1>2, <1>4, <1>8 DEF NameRank, NoMatch, Likeness
<1> QED BY <1>5, <1>6, <1>7, <1>8

\* A valid term has a rank for exactly the profiles that have what it asks for.
LEMMA TermRankIs ==
    ASSUME NEW p \in Profiles, NEW t \in Terms, ValidTerm(t), NEW now \in Nat
    PROVE  /\ TermRank(p, t, now) \in {NoMatch, 0, 1, 2, 3}
           /\ TermRank(p, t, now) # NoMatch <=> Has(p, t, now)
           /\ t.field = "any" =>
                 /\ t.value \in Text
                 /\ TermRank(p, t, now) # NoMatch =>
                       TermRank(p, t, now) = IF OccursIn(t.value, p.name) THEN 2 ELSE 3
<1>1. /\ t.field \in {"favorite", "used", "within", "port", "type", "name", "any"} \cup TextFields
      /\ t.field \in {"favorite", "used"} => t.value \in BOOLEAN
      /\ t.field \in {"within", "port"} => t.value \in Nat
      /\ t.field \in {"type", "name", "any"} \cup TextFields => t.value \in Text
  BY DEF Terms, ValidTerm, TextFields
<1>2. p.port \in Nat /\ p.used \in Nat /\ p.favorite \in BOOLEAN
  BY DEF Profiles
<1>3. CASE t.field = "favorite"
  BY <1>1, <1>2, <1>3 DEF TermRank, Has, If, NoMatch, TextFields
<1>4. CASE t.field = "used"
  BY <1>1, <1>2, <1>4 DEF TermRank, Has, If, NoMatch, Never, TextFields
<1>5. CASE t.field = "within"
  BY <1>1, <1>2, <1>5 DEF TermRank, Has, If, NoMatch, UsedWithin, Never, TextFields
<1>6. CASE t.field = "port"
  BY <1>1, <1>2, <1>6 DEF TermRank, Has, If, NoMatch, ValidTerm, DefaultPort, TextFields
<1>7. CASE t.field = "type"
  BY <1>1, <1>2, <1>7 DEF TermRank, Has, If, NoMatch, TextFields
<1>8. CASE t.field = "name"
  <2>1. TermRank(p, t, now) = NameRank(p, t.value)
    BY <1>8 DEF TermRank, TextFields
  <2>2. Has(p, t, now) <=> OccursIn(t.value, p.name)
    BY <1>8 DEF Has, TextFields
  <2> QED BY <1>1, <1>8, <2>1, <2>2, NameRankIs
<1>9. CASE t.field \in TextFields
  <2>1. TermRank(p, t, now) = If(OccursIn(t.value, p.texts[t.field]), 3)
    BY <1>9 DEF TermRank, TextFields
  <2>2. Has(p, t, now) <=> OccursIn(t.value, p.texts[t.field])
    BY <1>9 DEF Has, TextFields
  <2> QED BY <1>1, <1>9, <2>1, <2>2 DEF If, NoMatch, TextFields
<1>10. CASE t.field = "any"
  <2> DEFINE Other == \/ OccursIn(t.value, p.type)
                      \/ \E f \in TextFields : OccursIn(t.value, p.texts[f])
  <2>1. TermRank(p, t, now) = IF OccursIn(t.value, p.name) THEN 2 ELSE If(Other, 3)
    BY <1>10 DEF TermRank, TextFields
  <2>2. Has(p, t, now) <=> OccursIn(t.value, p.name) \/ Other
    BY <1>10 DEF Has, TextFields
  <2> HIDE DEF Other
  <2> QED BY <1>1, <1>10, <2>1, <2>2 DEF If, NoMatch
<1> QED BY <1>1, <1>3, <1>4, <1>5, <1>6, <1>7, <1>8, <1>9, <1>10

\* So has an alternative.
LEMMA ClauseRankIs ==
    ASSUME NEW p \in Profiles, NEW terms \in Seq(Terms), NEW now \in Nat,
           \A n \in DOMAIN terms : ValidTerm(terms[n])
    PROVE  /\ ClauseRank(p, terms, now) \in Nat \cup {NoMatch}
           /\ ClauseRank(p, terms, now) # NoMatch <=>
                 \A n \in DOMAIN terms : Has(p, terms[n], now) # terms[n].exclude
<1> DEFINE rank == [n \in DOMAIN terms |-> TermRank(p, terms[n], now)]
           wanted == {n \in DOMAIN terms : ~terms[n].exclude}
           Wrong == \E n \in DOMAIN terms : terms[n].exclude = (rank[n] # NoMatch)
           name == NameRank(p, terms[1].value)
<1>1. ClauseRank(p, terms, now) =
         CASE AsksName(terms) /\ name # NoMatch -> name
           [] Wrong -> NoMatch
           [] OTHER -> SumFunctionOnSet(rank, wanted)
  BY DEF ClauseRank
<1>2. \A n \in DOMAIN terms : terms[n] \in Terms /\ terms[n].exclude \in BOOLEAN
  BY DEF Terms
<1>3. \A n \in DOMAIN terms : /\ rank[n] \in {NoMatch, 0, 1, 2, 3}
                              /\ rank[n] # NoMatch <=> Has(p, terms[n], now)
  BY <1>2, TermRankIs
<1>4. Wrong <=> \E n \in DOMAIN terms : Has(p, terms[n], now) = terms[n].exclude
  <2> HIDE DEF rank
  <2>1. \A n \in DOMAIN terms : Has(p, terms[n], now) \in BOOLEAN
    BY DEF Has
  <2> QED BY <1>2, <1>3, <2>1
<1>5. ~Wrong => SumFunctionOnSet(rank, wanted) \in Nat
  <2> SUFFICES ASSUME ~Wrong PROVE SumFunctionOnSet(rank, wanted) \in Nat
    OBVIOUS
  <2>1. \A n \in wanted : rank[n] \in Nat
    <3> HIDE DEF rank
    <3> QED BY <1>2, <1>3 DEF NoMatch
  <2>2. IsFiniteSet(wanted)
    <3>1. DOMAIN terms = 1..Len(terms) /\ Len(terms) \in Nat
      OBVIOUS
    <3>2. IsFiniteSet(1..Len(terms))
      BY <3>1, FS_Interval
    <3> QED BY <3>1, <3>2, FS_Subset
  <2> HIDE DEF rank, wanted
  <2> QED BY <2>1, <2>2, SumOf
<1>6. AsksName(terms) /\ name # NoMatch => name \in Nat /\ ~Wrong
  <2> SUFFICES ASSUME AsksName(terms), name # NoMatch PROVE name \in Nat /\ ~Wrong
    OBVIOUS
  <2>1. DOMAIN terms = {1} /\ terms[1].field = "any" /\ terms[1].exclude = FALSE
    BY <1>2 DEF AsksName
  <2>2. terms[1] \in Terms /\ ValidTerm(terms[1]) /\ terms[1].value \in Text
    BY <1>2, <2>1, TermRankIs
  <2>3. name \in {NoMatch, 0, 1, 2} /\ OccursIn(terms[1].value, p.name)
    BY <2>2, NameRankIs
  <2>4. Has(p, terms[1], now)
    BY <2>1, <2>3 DEF Has, TextFields
  <2> HIDE DEF name, rank
  <2> QED BY <1>4, <2>1, <2>3, <2>4 DEF NoMatch
<1> HIDE DEF rank, wanted, name, Wrong
<1>7. \A n \in DOMAIN terms : Has(p, terms[n], now) \in BOOLEAN
  BY DEF Has
<1>8. CASE AsksName(terms) /\ name # NoMatch
  <2>1. ClauseRank(p, terms, now) = name
    BY <1>1, <1>6, <1>8
  <2> QED BY <1>4, <1>6, <1>8, <2>1
<1>9. CASE ~(AsksName(terms) /\ name # NoMatch) /\ Wrong
  <2>1. ClauseRank(p, terms, now) = NoMatch
    BY <1>1, <1>9
  <2> QED BY <1>4, <1>9, <2>1
<1>10. CASE ~(AsksName(terms) /\ name # NoMatch) /\ ~Wrong
  <2>1. ClauseRank(p, terms, now) = SumFunctionOnSet(rank, wanted)
    BY <1>1, <1>10
  <2> QED BY <1>4, <1>5, <1>10, <2>1 DEF NoMatch
<1> QED BY <1>8, <1>9, <1>10

\* And a query.
LEMMA RankIs ==
    ASSUME NEW p \in Profiles, NEW q \in Seq(Seq(Terms)), NEW now \in Nat
    PROVE  /\ Rank(p, q, now) \in Int
           /\ Rank(p, q, now) # NoMatch <=> Readable(q) /\ Meant(p, q, now)
<1> DEFINE ranks == {ClauseRank(p, q[i], now) : i \in DOMAIN q} \ {NoMatch}
<1>1. Rank(p, q, now) = IF ~Valid(q) \/ ranks = {} THEN NoMatch ELSE Min(ranks)
  BY DEF Rank
<1>2. \A i \in DOMAIN q : q[i] \in Seq(Terms)
  OBVIOUS
<1>3. Valid(q) <=> Readable(q)
  BY <1>2 DEF Valid, Readable, ToSet
<1>4. CASE ~Valid(q)
  BY <1>1, <1>3, <1>4 DEF NoMatch
<1>5. CASE Valid(q)
  <2>1. \A i \in DOMAIN q :
           /\ ClauseRank(p, q[i], now) \in Nat \cup {NoMatch}
           /\ ClauseRank(p, q[i], now) # NoMatch <=>
                 \A n \in DOMAIN q[i] : Has(p, q[i][n], now) # q[i][n].exclude
    BY <1>2, <1>5, ClauseRankIs DEF Valid
  <2>2. ranks \in SUBSET Nat
    BY <2>1
  <2>3. ranks # {} <=> Meant(p, q, now)
    <3>1. ranks # {} <=> \E i \in DOMAIN q : ClauseRank(p, q[i], now) # NoMatch
      OBVIOUS
    <3> HIDE DEF ranks
    <3> QED BY <2>1, <3>1 DEF Meant
  <2>4. ranks # {} => Min(ranks) \in Nat
    <3> HIDE DEF ranks
    <3> SUFFICES ASSUME ranks # {} PROVE Min(ranks) \in Nat
      OBVIOUS
    <3>1. \E n \in ranks : \A m \in ranks : n <= m
      BY <2>2, LeastNatural
    <3>2. Min(ranks) \in ranks
      BY <3>1 DEF Min
    <3> QED BY <2>2, <3>2
  <2> HIDE DEF ranks
  <2> QED BY <1>1, <1>3, <1>5, <2>3, <2>4 DEF NoMatch
<1> QED BY <1>4, <1>5

\* A word ranks the profiles by the likeness of their names.
LEMMA WordRank ==
    ASSUME NEW p \in Profiles, NEW t \in Terms, NEW now \in Nat,
           t.field = "any", ~t.exclude, Rank(p, <<<<t>>>>, now) # NoMatch
    PROVE  Rank(p, <<<<t>>>>, now) = Likeness(p, t.value)
<1> DEFINE q == <<<<t>>>>
           terms == <<t>>
           rank == [n \in DOMAIN terms |-> TermRank(p, terms[n], now)]
           wanted == {n \in DOMAIN terms : ~terms[n].exclude}
           clause == ClauseRank(p, <<t>>, now)
<1>1. DOMAIN q = {1} /\ q[1] = <<t>> /\ DOMAIN terms = {1} /\ terms[1] = t /\ Len(terms) = 1
  OBVIOUS
<1>2. t.value \in Text /\ ValidTerm(t)
  BY DEF Terms, ValidTerm, TextFields
<1>3. clause = Rank(p, q, now)
  <2>1. {ClauseRank(p, q[i], now) : i \in DOMAIN q} = {clause}
    BY <1>1
  <2>2. Rank(p, q, now) = Min({clause} \ {NoMatch}) /\ clause # NoMatch
    BY <2>1 DEF Rank
  <2>3. clause \in Nat \cup {NoMatch}
    <3>1. terms \in Seq(Terms) /\ \A n \in DOMAIN terms : ValidTerm(terms[n])
      BY <1>1, <1>2
    <3> QED BY <3>1, ClauseRankIs
  <2> HIDE DEF clause
  <2>4. Min({clause}) = clause
    BY <2>2, <2>3 DEF Min
  <2>5. {clause} \ {NoMatch} = {clause}
    BY <2>2
  <2> QED BY <2>2, <2>4, <2>5
<1>4. AsksName(terms)
  BY <1>1 DEF AsksName
<1>5. clause = IF NameRank(p, t.value) # NoMatch THEN NameRank(p, t.value)
               ELSE IF TermRank(p, t, now) = NoMatch THEN NoMatch
               ELSE SumFunctionOnSet(rank, wanted)
  <2>1. (\E n \in DOMAIN terms : terms[n].exclude = (rank[n] # NoMatch)) <=> TermRank(p, t, now) = NoMatch
    BY <1>1 DEF Terms
  <2>2. clause = CASE AsksName(terms) /\ NameRank(p, terms[1].value) # NoMatch -> NameRank(p, terms[1].value)
                   [] \E n \in DOMAIN terms : terms[n].exclude = (rank[n] # NoMatch) -> NoMatch
                   [] OTHER -> SumFunctionOnSet(rank, wanted)
    BY DEF ClauseRank
  <2> HIDE DEF clause, rank, wanted, terms
  <2>3. TermRank(p, t, now) = NoMatch => NameRank(p, t.value) = NoMatch
    <3>1. OccursIn(t.value, p.name) => Has(p, t, now)
      BY DEF Has, TextFields
    <3> QED BY <1>2, <3>1, TermRankIs, NameRankIs
  <2>4. terms[1].value = t.value
    BY <1>1
  <2>5. CASE NameRank(p, t.value) # NoMatch
    BY <1>4, <2>1, <2>2, <2>3, <2>4, <2>5
  <2>6. CASE NameRank(p, t.value) = NoMatch /\ TermRank(p, t, now) = NoMatch
    BY <1>4, <2>1, <2>2, <2>4, <2>6
  <2>7. CASE NameRank(p, t.value) = NoMatch /\ TermRank(p, t, now) # NoMatch
    BY <1>4, <2>1, <2>2, <2>4, <2>7
  <2> QED BY <2>5, <2>6, <2>7
<1>6. TermRank(p, t, now) # NoMatch => SumFunctionOnSet(rank, wanted) = TermRank(p, t, now)
  <2> SUFFICES ASSUME TermRank(p, t, now) # NoMatch
               PROVE  SumFunctionOnSet(rank, wanted) = TermRank(p, t, now)
    OBVIOUS
  <2>1. wanted = {1} /\ rank[1] = TermRank(p, t, now)
    BY <1>1
  <2>2. TermRank(p, t, now) \in Nat
    BY <1>2, TermRankIs DEF NoMatch
  <2>3. IsFiniteSet(wanted) /\ \A n \in wanted : rank[n] \in Nat
    BY <2>1, <2>2, FS_Singleton
  <2> HIDE DEF rank, wanted
  <2> QED BY <2>1, <2>3, SumOf
<1> HIDE DEF rank, wanted, clause, terms
<1>7. CASE OccursIn(t.value, p.name)
  BY <1>2, <1>3, <1>5, <1>7, NameRankIs
<1>8. CASE ~OccursIn(t.value, p.name)
  <2>1. NameRank(p, t.value) = NoMatch
    BY <1>2, <1>8, NameRankIs
  <2>2. clause = TermRank(p, t, now) /\ TermRank(p, t, now) # NoMatch
    BY <1>3, <1>5, <1>6, <2>1
  <2>3. TermRank(p, t, now) = 3
    BY <1>2, <1>8, <2>2, TermRankIs
  <2>4. p.name \in Text /\ ~IsPrefix(t.value, p.name)
    BY <1>2, <1>8, PrefixOccurs DEF Profiles
  <2>5. p.name # t.value
    BY <1>2, <2>4 DEF IsPrefix, Text
  <2>6. Likeness(p, t.value) = 3
    BY <1>8, <2>4, <2>5 DEF Likeness, IsStrictPrefix
  <2> QED BY <1>3, <2>2, <2>3, <2>6
<1> QED BY <1>7, <1>8

-----------------------------------------------------------------------------
\* The rows.

\* The greatest of some bounded numbers is one of them.
LEMMA MaxIs ==
    ASSUME NEW n \in Nat, NEW T \in SUBSET (0..n), T # {}
    PROVE  Max(T) \in T /\ \A k \in T : k <= Max(T)
<1> DEFINE U == {m \in Nat : \A k \in T : k <= m}
<1>1. U \in SUBSET Nat /\ n \in U
  OBVIOUS
<1>2. PICK m \in U : \A k \in U : m <= k
  BY <1>1, LeastNatural
<1>3. m \in T
  <2> SUFFICES ASSUME m \notin T PROVE FALSE
    OBVIOUS
  <2>1. \A k \in T : k \in Nat /\ k < m
    BY <1>2
  <2>2. m > 0
    <3>1. PICK k \in T : TRUE
      OBVIOUS
    <3>2. m \in Nat /\ k \in Nat /\ k < m
      BY <2>1, <3>1
    <3> QED BY <3>2
  <2>3. m - 1 \in U
    BY <1>2, <2>1, <2>2
  <2> QED BY <1>2, <2>3
<1>4. \E x \in T : \A k \in T : k <= x
  BY <1>2, <1>3
<1> QED BY <1>4, Zenon DEF Max

\* Rows of the profiles of S, none of them twice.
Shows(s, S) ==
    /\ s \in Seq(S)
    /\ \A i, j \in DOMAIN s : s[i].id = s[j].id => i = j

\* The row of an ID is where the ID is, if it is anywhere.
LEMMA RowOfIs ==
    ASSUME NEW S, NEW s \in Seq(S), NEW id
    PROVE  /\ RowOf(s, id) \in 0..Len(s)
           /\ RowOf(s, id) # 0 => s[RowOf(s, id)].id = id
           /\ RowOf(s, id) = 0 => \A i \in DOMAIN s : s[i].id # id
<1> DEFINE T == {0} \cup {i \in DOMAIN s : s[i].id = id}
<1>1. Len(s) \in Nat /\ DOMAIN s = 1..Len(s)
  OBVIOUS
<1>2. T \in SUBSET (0..Len(s)) /\ T # {}
  BY <1>1
<1>3. RowOf(s, id) = Max(T)
  BY DEF RowOf
<1>4. \A i \in DOMAIN s : s[i].id = id => i \in T
  OBVIOUS
<1>5. \A i \in T : i # 0 => s[i].id = id
  OBVIOUS
<1> HIDE DEF T
<1>6. Max(T) \in T /\ \A k \in T : k <= Max(T)
  BY <1>1, <1>2, MaxIs
<1>7. \A i \in DOMAIN s : i > 0 /\ i \in Nat
  BY <1>1
<1>8. RowOf(s, id) \in 0..Len(s)
  BY <1>2, <1>3, <1>6
<1>9. RowOf(s, id) # 0 => s[RowOf(s, id)].id = id
  BY <1>3, <1>5, <1>6
<1>10. ASSUME RowOf(s, id) = 0, NEW i \in DOMAIN s, s[i].id = id PROVE FALSE
  <2>1. i \in T /\ i <= 0
    BY <1>3, <1>4, <1>6, <1>10
  <2> QED BY <1>7, <2>1
<1> QED BY <1>8, <1>9, <1>10

\* The limit cuts off the end, never all.
LEMMA LimitedIs ==
    ASSUME NEW S, NEW s \in Seq(S), NEW limit \in Nat \ {0}
    PROVE  LET t == Limited(s, limit)
           IN  /\ t \in Seq(S) /\ Len(t) \in Nat /\ Len(t) <= Len(s) /\ DOMAIN t = 1..Len(t)
               /\ \A i \in 1..Len(t) : t[i] = s[i]
               /\ s # <<>> => 1 \in 1..Len(t)
<1> DEFINE n == Min({limit, Len(s)})
<1>1. Len(s) \in Nat
  OBVIOUS
<1>2. n \in Nat /\ n <= Len(s) /\ (Len(s) # 0 => n >= 1)
  <2>1. {limit, Len(s)} \in SUBSET Nat /\ {limit, Len(s)} # {}
    BY <1>1
  <2>2. \E m \in {limit, Len(s)} : \A k \in {limit, Len(s)} : m <= k
    BY <2>1, LeastNatural
  <2>3. n \in {limit, Len(s)} /\ \A k \in {limit, Len(s)} : n <= k
    BY <2>2, Zenon DEF Min
  <2> HIDE DEF n
  <2> QED BY <1>1, <2>3
<1>3. Limited(s, limit) = SubSeq(s, 1, n)
  BY DEF Limited
<1> HIDE DEF n
<1>4. \A i \in 1..n : i \in 1..Len(s)
  BY <1>1, <1>2
<1>5. SubSeq(s, 1, n) = [i \in 1..n |-> s[i]]
  BY <1>1, <1>2
<1>6. [i \in 1..n |-> s[i]] \in Seq(S) /\ Len([i \in 1..n |-> s[i]]) = n
  BY <1>2, <1>4
<1> QED BY <1>1, <1>2, <1>3, <1>5, <1>6

\* The limit keeps the rows different.
LEMMA LimitedShows ==
    ASSUME NEW S, NEW s, Shows(s, S), NEW limit \in Nat \ {0}
    PROVE  Shows(Limited(s, limit), S)
<1> DEFINE t == Limited(s, limit)
<1>1. s \in Seq(S)
  BY DEF Shows
<1>2. /\ t \in Seq(S) /\ DOMAIN t = 1..Len(t)
      /\ \A i \in 1..Len(t) : t[i] = s[i] /\ i \in DOMAIN s
  BY <1>1, LimitedIs
<1> HIDE DEF t
<1> QED BY <1>2 DEF Shows, t

\* A sequence of one profile.
LEMMA Single ==
    ASSUME NEW p
    PROVE  SetToSeq({p}) = <<p>>
<1> DEFINE Good(f) == IsInjective(f)
<1>1. Cardinality({p}) = 1
  BY FS_Singleton
<1>2. <<p>> \in [1..1 -> {p}] /\ IsInjective(<<p>>)
  BY DEF IsInjective
<1>3. SetToSeq({p}) = CHOOSE f \in [1..1 -> {p}] : IsInjective(f)
  BY <1>1 DEF SetToSeq
<1>4. SetToSeq({p}) \in [1..1 -> {p}]
  <2>1. \E f \in [1..1 -> {p}] : IsInjective(f)
    BY <1>2
  <2> QED BY <1>3, <2>1, Zenon
<1> QED BY <1>4

\* The profiles that may be held: profiles, finitely many, with their own IDs.
Holds(S) == S \in SUBSET Profiles /\ IsFiniteSet(S) /\ Unique(S)

\* The rows for a query are the window's profiles, each once; the ones a search finds
\* are those that match, best first; with nothing searched the chosen profile is list.
LEMMA NavigatorRowsAre ==
    ASSUME NEW S, Holds(S), NEW q \in Seq(Seq(Terms)), NEW limit \in Nat \ {0}, NEW now \in Nat
    PROVE  Shows(NavigatorRows(S, q, limit, now), S)
<1>1. CASE q = <<>>
  <2>1. NavigatorRows(S, q, limit, now) = Limited(Sorted(S, QuickBefore), limit)
    BY <1>1 DEF NavigatorRows, Projection
  <2>2. Shows(Sorted(S, QuickBefore), S)
    BY QuickSorted DEF Holds, Lists, Shows
  <2> QED BY <2>1, <2>2, LimitedShows
<1>2. CASE q # <<>>
  <2>1. NavigatorRows(S, q, limit, now) = Found(S, q, now)
    BY <1>2 DEF NavigatorRows
  <2>2. \A p \in S : Rank(p, q, now) \in Int
    BY RankIs DEF Holds
  <2> DEFINE M == {p \in S : Rank(p, q, now) # NoMatch}
  <2>3. Lists(Found(S, q, now), M)
    BY <2>2, FoundSorted DEF Holds
  <2>4. Found(S, q, now) \in Seq(M)
    BY <2>3 DEF Lists
  <2>5. Found(S, q, now) \in Seq(S)
    <3>1. M \in SUBSET S
      OBVIOUS
    <3> HIDE DEF M
    <3> QED BY <2>4, <3>1
  <2> HIDE DEF M
  <2> QED BY <2>1, <2>3, <2>5 DEF Lists, Shows
<1> QED BY <1>1, <1>2

LEMMA RowsWithSelectionAre ==
    ASSUME NEW S, Holds(S), NEW q \in Seq(Seq(Terms)), NEW limit \in Nat \ {0}, NEW now \in Nat, NEW id
    PROVE  LET list == RowsWithSelection(S, q, limit, now, id)
           IN  /\ Shows(list, S)
               /\ q = <<>> /\ id \in IDsOf(S) => RowOf(list, id) # 0
               /\ q # <<>> => list = Found(S, q, now)
<1> DEFINE list == RowsWithSelection(S, q, limit, now, id)
           base == NavigatorRows(S, q, limit, now)
           chosen == {p \in S : p.id = id}
<1>1. Shows(base, S)
  BY NavigatorRowsAre
<1>2. list = IF q # <<>> \/ RowOf(base, id) # 0 \/ chosen = {} THEN base
              ELSE Limited(SetToSeq(chosen) \o base, limit)
  BY DEF RowsWithSelection
<1>3. q # <<>> => base = Found(S, q, now)
  BY DEF NavigatorRows
<1>4. id \in IDsOf(S) => chosen # {}
  BY DEF IDsOf
<1> HIDE DEF base, list
<1>5. base \in Seq(S)
  BY <1>1 DEF Shows
<1>6. CASE q # <<>> \/ RowOf(base, id) # 0 \/ chosen = {}
  BY <1>1, <1>2, <1>3, <1>4, <1>6 DEF list
<1>7. CASE ~(q # <<>> \/ RowOf(base, id) # 0 \/ chosen = {})
  <2>1. PICK p \in S : p.id = id
    BY <1>7
  <2>2. chosen = {p}
    BY <2>1 DEF Holds, Unique
  <2> HIDE DEF chosen
  <2>3. list = Limited(<<p>> \o base, limit)
    BY <1>2, <1>7, <2>2, Single
  <2> DEFINE all == <<p>> \o base
  <2>4. Len(base) \in Nat /\ DOMAIN base = 1..Len(base)
    BY <1>5
  <2>5. all \in Seq(S) /\ DOMAIN all = 1..(Len(base) + 1) /\ all # <<>>
        /\ all[1] = p /\ \A i \in 2..(Len(base) + 1) : i - 1 \in DOMAIN base /\ all[i] = base[i - 1]
    <3>1. <<p>> \in Seq(S) /\ Len(<<p>>) = 1 /\ <<p>>[1] = p
      OBVIOUS
    <3> HIDE DEF base
    <3>2. all \in Seq(S) /\ Len(all) = Len(base) + 1
      BY <1>5, <3>1
    <3>3. all[1] = p
      BY <1>5, <2>4
    <3>4. \A i \in 2..(Len(base) + 1) : i - 1 \in DOMAIN base /\ all[i] = base[i - 1]
      BY <1>5, <2>4
    <3> HIDE DEF all
    <3>5. DOMAIN all = 1..(Len(base) + 1)
      BY <2>4, <3>2
    <3> QED BY <2>4, <3>2, <3>3, <3>4, <3>5
  <2>6. \A i \in DOMAIN base : base[i].id # id
    BY <1>5, <1>7, RowOfIs
  <2> HIDE DEF all
  <2>7. \A i, j \in DOMAIN all : all[i].id = all[j].id => i = j
    <3> SUFFICES ASSUME NEW i \in DOMAIN all, NEW j \in DOMAIN all, all[i].id = all[j].id PROVE i = j
      OBVIOUS
    <3>1. CASE i = 1 /\ j = 1
      BY <3>1
    <3>2. CASE i = 1 /\ j # 1
      <4>1. j - 1 \in DOMAIN base /\ all[j] = base[j - 1]
        BY <2>4, <2>5, <3>2
      <4> QED BY <2>1, <2>5, <2>6, <3>2, <4>1
    <3>3. CASE i # 1 /\ j = 1
      <4>1. i - 1 \in DOMAIN base /\ all[i] = base[i - 1]
        BY <2>4, <2>5, <3>3
      <4> QED BY <2>1, <2>5, <2>6, <3>3, <4>1
    <3>4. CASE i # 1 /\ j # 1
      <4>1. i - 1 \in DOMAIN base /\ all[i] = base[i - 1] /\ j - 1 \in DOMAIN base /\ all[j] = base[j - 1]
        BY <2>4, <2>5, <3>4
      <4>2. i - 1 = j - 1
        BY <1>1, <4>1 DEF Shows
      <4> QED BY <2>4, <2>5, <4>2
    <3> QED BY <3>1, <3>2, <3>3, <3>4
  <2>8. Shows(all, S)
    BY <2>5, <2>7 DEF Shows
  <2>9. Shows(list, S)
    BY <2>3, <2>8, LimitedShows DEF all
  <2>10. list \in Seq(S) /\ 1 \in DOMAIN list /\ list[1] = p
    BY <2>3, <2>5, LimitedIs DEF all
  <2>11. RowOf(list, id) # 0
    BY <2>1, <2>10, RowOfIs
  <2> QED BY <1>7, <2>9, <2>11 DEF list
<1> QED BY <1>6, <1>7

\* The row that is active is one that is there.
LEMMA ActiveRowIs ==
    ASSUME NEW S, NEW s \in Seq(S), NEW id, NEW first \in BOOLEAN
    PROVE  /\ ActiveRow(s, id, first) \in 0..Len(s)
           /\ ActiveRow(s, id, first) = 0 <=> s = <<>>
           /\ RowOf(s, id) # 0 /\ ~first => ActiveRow(s, id, first) = RowOf(s, id)
<1>1. Len(s) \in Nat /\ RowOf(s, id) \in 0..Len(s) /\ (s # <<>> => Len(s) >= 1)
      /\ (s = <<>> => Len(s) = 0)
  BY RowOfIs
<1>2. CASE s = <<>>
  BY <1>1, <1>2 DEF ActiveRow
<1>3. CASE s # <<>> /\ first
  BY <1>1, <1>3 DEF ActiveRow
<1>4. CASE s # <<>> /\ ~first
  <2> DEFINE T == {1, RowOf(s, id)}
  <2>1. ActiveRow(s, id, first) = Max(T)
    BY <1>4 DEF ActiveRow
  <2>2. Max(T) \in T /\ \A k \in T : k <= Max(T)
    <3>1. T \in SUBSET (0..Len(s)) /\ T # {}
      BY <1>1, <1>4
    <3> HIDE DEF T
    <3> QED BY <1>1, <3>1, MaxIs
  <2>3. 1 \in T /\ RowOf(s, id) \in T /\ \A k \in T : k = 1 \/ k = RowOf(s, id)
    OBVIOUS
  <2> HIDE DEF T
  <2> QED BY <1>1, <1>4, <2>1, <2>2, <2>3
<1> QED BY <1>2, <1>3, <1>4

\* A row is taken away.
LEMMA RemoveAtIs ==
    ASSUME NEW S, NEW s, Shows(s, S), NEW i \in DOMAIN s
    PROVE  LET t == RemoveAt(s, i)
               left == {p \in S : p.id # s[i].id}
           IN  /\ Shows(t, left) /\ Len(t) = Len(s) - 1
               /\ ToSet(t) = {p \in ToSet(s) : p.id # s[i].id}
               /\ \A j \in DOMAIN t : t[j] = s[IF j < i THEN j ELSE j + 1]
<1> DEFINE t == RemoveAt(s, i)
           left == {p \in S : p.id # s[i].id}
           at(j) == IF j < i THEN j ELSE j + 1
           n == Len(s)
<1>1. s \in Seq(S) /\ n \in Nat /\ DOMAIN s = 1..n /\ i \in 1..n /\ n - 1 \in Nat
  BY DEF Shows
<1>2. t = SubSeq(s, 1, i - 1) \o SubSeq(s, i + 1, n)
  BY DEF RemoveAt
<1>3. /\ SubSeq(s, 1, i - 1) \in Seq(S) /\ Len(SubSeq(s, 1, i - 1)) = i - 1
      /\ \A j \in 1..(i - 1) : SubSeq(s, 1, i - 1)[j] = s[j]
  BY <1>1
<1>4. /\ SubSeq(s, i + 1, n) \in Seq(S) /\ Len(SubSeq(s, i + 1, n)) = n - i
      /\ \A j \in 1..(n - i) : SubSeq(s, i + 1, n)[j] = s[i + j]
  BY <1>1
<1> DEFINE a == SubSeq(s, 1, i - 1)
           b == SubSeq(s, i + 1, n)
<1> HIDE DEF t, a, b, n
<1>5. a \in Seq(S) /\ Len(a) = i - 1 /\ \A j \in 1..(i - 1) : a[j] = s[j]
  BY <1>3 DEF a
<1>6. b \in Seq(S) /\ Len(b) = n - i /\ \A j \in 1..(n - i) : b[j] = s[i + j]
  BY <1>4 DEF b
<1>7. t = a \o b
  BY <1>2 DEF a, b
<1>8. t \in Seq(S) /\ Len(t) = n - 1 /\ DOMAIN t = 1..(n - 1)
  <2>1. a \o b \in Seq(S) /\ Len(a \o b) = Len(a) + Len(b)
    BY ONLY <1>5, <1>6, ConcatProperties
  <2>2. (i - 1) + (n - i) = n - 1
    BY <1>1
  <2>3. t \in Seq(S) /\ Len(t) = n - 1
    BY <1>5, <1>6, <1>7, <2>1, <2>2
  <2> QED BY <2>3
<1>9. \A j \in 1..(n - 1) : t[j] = s[at(j)] /\ at(j) \in 1..n /\ at(j) # i
  <2> SUFFICES ASSUME NEW j \in 1..(n - 1) PROVE t[j] = s[at(j)] /\ at(j) \in 1..n /\ at(j) # i
    OBVIOUS
  <2>1. CASE j < i
    <3>1. j \in 1..(i - 1) /\ t[j] = a[j]
      BY <1>1, <1>5, <1>6, <1>7, <2>1
    <3> QED BY <1>1, <1>5, <2>1, <3>1
  <2>2. CASE j >= i
    <3>1. j - (i - 1) \in 1..(n - i) /\ i + (j - (i - 1)) = j + 1
      BY <1>1, <2>2
    <3>2. t[j] = b[j - (i - 1)]
      <4>1. \A k \in 1..(Len(a) + Len(b)) : t[k] = IF k <= Len(a) THEN a[k] ELSE b[k - Len(a)]
        BY ONLY <1>5, <1>6, <1>7, ConcatProperties
      <4>2. j \in 1..(Len(a) + Len(b)) /\ ~(j <= Len(a)) /\ Len(a) = i - 1
        BY <1>1, <1>5, <1>6, <2>2
      <4> QED BY <4>1, <4>2
    <3> QED BY <1>1, <1>6, <2>2, <3>1, <3>2
  <2> QED BY <1>1, <2>1, <2>2
<1>10. \A j, k \in 1..n : s[j].id = s[k].id => j = k
  BY <1>1 DEF Shows
<1>11. \A j \in 1..(n - 1) : t[j] \in left
  BY <1>1, <1>9, <1>10
<1>12. t \in Seq(left)
  <2>1. t = [j \in 1..(n - 1) |-> t[j]]
    BY <1>8
  <2> HIDE DEF left
  <2>2. [j \in 1..(n - 1) |-> t[j]] \in [1..(n - 1) -> left]
    BY <1>11
  <2> QED BY <1>1, <2>1, <2>2
<1>13. \A j, k \in 1..(n - 1) : t[j].id = t[k].id => j = k
  <2> SUFFICES ASSUME NEW j \in 1..(n - 1), NEW k \in 1..(n - 1), t[j].id = t[k].id PROVE j = k
    OBVIOUS
  <2>1. at(j) = at(k)
    <3> HIDE DEF at
    <3> QED BY <1>9, <1>10
  <2> QED BY <1>1, <2>1
<1>14. ToSet(t) = {p \in ToSet(s) : p.id # s[i].id}
  <2>1. ASSUME NEW p \in ToSet(t) PROVE p \in ToSet(s) /\ p.id # s[i].id
    <3>1. PICK j \in 1..(n - 1) : p = t[j]
      BY <1>8 DEF ToSet
    <3> HIDE DEF at
    <3> QED BY <1>1, <1>9, <1>10, <3>1 DEF ToSet
  <2>2. ASSUME NEW p \in ToSet(s), p.id # s[i].id PROVE p \in ToSet(t)
    <3>1. PICK j \in 1..n : p = s[j]
      BY <1>1 DEF ToSet
    <3>2. j # i
      BY <2>2, <3>1
    <3>3. CASE j < i
      <4>1. j \in 1..(n - 1) /\ at(j) = j
        BY <1>1, <3>3
      <4> HIDE DEF at
      <4> QED BY <1>8, <1>9, <3>1, <4>1 DEF ToSet
    <3>4. CASE j > i
      <4>1. j - 1 \in 1..(n - 1) /\ at(j - 1) = j
        BY <1>1, <3>4
      <4> HIDE DEF at
      <4> QED BY <1>8, <1>9, <3>1, <4>1 DEF ToSet
    <3> QED BY <1>1, <3>2, <3>3, <3>4
  <2> QED BY <2>1, <2>2
<1>15. Shows(t, left)
  BY <1>8, <1>12, <1>13 DEF Shows
<1> QED BY <1>8, <1>9, <1>14, <1>15 DEF t, n

-----------------------------------------------------------------------------
\* The launcher.

\* A store whose active profile is one it has.
StoreOK(s) ==
    /\ s \in [profiles : SUBSET Profiles, active : Nat]
    /\ Holds(s.profiles)
    /\ s.active \in IDsOf(s.profiles) \/ s.profiles = {}

\* The rows s for the query q, of which row i is selected.
RowsOK(S, q, now, s, i) ==
    /\ Shows(s, S)
    /\ i \in 0..Len(s)
    /\ i = 0 <=> s = <<>>
    /\ q # <<>> =>
          /\ ToSet(s) = {p \in S : Rank(p, q, now) # NoMatch}
          /\ \A j, k \in DOMAIN s : j < k => Rank(s[j], q, now) <= Rank(s[k], q, now)

\* The inductive invariant of the launcher.
LauncherInv ==
    /\ Holds(allRows)
    /\ StoreOK(store)
    /\ query \in Queries /\ clock \in Nat
    /\ RowsOK(allRows, query, clock, rows, idx)

-----------------------------------------------------------------------------
\* A deletion, and a save.
LEMMA SubsetHolds ==
    ASSUME NEW S, Holds(S), NEW T \in SUBSET S
    PROVE  Holds(T)
BY FS_Subset DEF Holds, Unique

LEMMA UpsertHolds ==
    ASSUME NEW S, Holds(S), NEW p \in Profiles
    PROVE  Holds(Upsert(S, p)) /\ p.id \in IDsOf(Upsert(S, p))
<1> DEFINE others == {o \in S : o.id # p.id}
<1>1. IsFiniteSet(others)
  BY FS_Subset DEF Holds
<1>2. IsFiniteSet(others \cup {p})
  BY <1>1, FS_AddElement
<1> QED BY <1>2 DEF Upsert, Holds, Unique, IDsOf

\* What is saved is a store with an active profile.
LEMMA SavedIs ==
    ASSUME NEW S, Holds(S), NEW id
    PROVE  /\ StoreOK(Saved(S, id)) /\ Saved(S, id).profiles = S
           /\ id \in IDsOf(S) => Saved(S, id).active = id
<1> DEFINE n == Normalized(S, id)
<1>1. \A i \in IDsOf(S) : i \in Nat
  BY DEF IDsOf, Holds, Profiles
<1>2. n \in IDsOf(S) \/ (S = {} /\ n = 0)
  <2>1. CASE id \in IDsOf(S)
    BY <2>1 DEF Normalized
  <2>2. CASE id \notin IDsOf(S) /\ S = {}
    BY <2>2 DEF Normalized, FirstID, NoID
  <2>3. CASE id \notin IDsOf(S) /\ S # {}
    BY <2>3, FirstIDOf DEF Normalized, Holds
  <2> QED BY <2>1, <2>2, <2>3
<1>3. id \in IDsOf(S) => n = id
  BY DEF Normalized
<1>4. Saved(S, id) = [profiles |-> S, active |-> n]
  BY DEF Saved
<1> HIDE DEF n
<1>5. n \in Nat /\ S \in SUBSET Profiles
  BY <1>1, <1>2 DEF Holds
<1> QED BY <1>2, <1>3, <1>4, <1>5 DEF StoreOK

\* Selecting leaves the profiles of the store alone.
LEMMA ActivatedIs ==
    ASSUME NEW s, StoreOK(s), NEW id, NEW t \in Activated(s, id)
    PROVE  /\ StoreOK(t) /\ t.profiles = s.profiles
           /\ id = s.active /\ id \in IDsOf(s.profiles) => t = s
<1> DEFINE n == Normalized(s.profiles, id)
<1>1. t = s \/ t = [s EXCEPT !.active = n]
  BY DEF Activated
<1>2. Holds(s.profiles)
  BY DEF StoreOK
<1>3. Saved(s.profiles, id) = [profiles |-> s.profiles, active |-> n]
  BY DEF Saved
<1>4. StoreOK([profiles |-> s.profiles, active |-> n]) /\ (id \in IDsOf(s.profiles) => n = id)
  BY <1>2, <1>3, SavedIs
<1>5. s = [profiles |-> s.profiles, active |-> s.active]
  BY DEF StoreOK
<1>6. [s EXCEPT !.active = n] = [profiles |-> s.profiles, active |-> n]
  BY <1>5
<1> HIDE DEF n
<1>7. t.profiles = s.profiles /\ StoreOK(t)
  BY <1>1, <1>4, <1>6
<1>8. id = s.active /\ id \in IDsOf(s.profiles) => t = s
  BY <1>1, <1>4, <1>5, <1>6
<1> QED BY <1>7, <1>8

\* The same of a selection in the table.
LEMMA SelectInIs ==
    ASSUME NEW s, StoreOK(s), NEW list, NEW row, NEW t \in SelectIn(s, list, row)
    PROVE  StoreOK(t)
<1>1. CASE row = 0
  BY <1>1 DEF SelectIn
<1>2. CASE row # 0
  BY <1>2, ActivatedIs DEF SelectIn
<1> QED BY <1>1, <1>2

-----------------------------------------------------------------------------
\* The rows for a query with one of them selected.
LEMMA FoundOK ==
    ASSUME NEW S, Holds(S), NEW q \in Queries, NEW now \in Nat, NEW id, NEW i,
           i \in 0..Len(RowsWithSelection(S, q, Limit, now, id)),
           i = 0 <=> RowsWithSelection(S, q, Limit, now, id) = <<>>
    PROVE  RowsOK(S, q, now, RowsWithSelection(S, q, Limit, now, id), i)
<1> DEFINE s == RowsWithSelection(S, q, Limit, now, id)
           M == {p \in S : Rank(p, q, now) # NoMatch}
<1>1. q \in Seq(Seq(Terms)) /\ Limit \in Nat \ {0}
  BY LauncherAssumption
<1>2. Shows(s, S) /\ (q # <<>> => s = Found(S, q, now))
  BY <1>1, RowsWithSelectionAre
<1>3. \A p \in S : Rank(p, q, now) \in Int
  BY <1>1, RankIs DEF Holds
<1>4. /\ Lists(Found(S, q, now), M)
      /\ \A j, k \in DOMAIN Found(S, q, now) :
            j < k => BetterMatch(Found(S, q, now)[j], Found(S, q, now)[k], q, now)
  BY <1>3, FoundSorted DEF Holds
<1> HIDE DEF s
<1>5. ASSUME q # <<>>, NEW j \in DOMAIN s, NEW k \in DOMAIN s, j < k
      PROVE  Rank(s[j], q, now) <= Rank(s[k], q, now)
  <2>1. s[j] \in S /\ s[k] \in S
    BY <1>2 DEF Shows
  <2>2. BetterMatch(s[j], s[k], q, now)
    BY <1>2, <1>4, <1>5
  <2> DEFINE a == Rank(s[j], q, now)
             b == Rank(s[k], q, now)
  <2>3. a \in Int /\ b \in Int
    BY <1>3, <2>1
  <2>4. a # b => a < b
    BY <2>2 DEF BetterMatch
  <2> HIDE DEF a, b
  <2>5. a <= b
    BY <2>3, <2>4
  <2> QED BY <2>5 DEF a, b
<1>6. q # <<>> => ToSet(s) = M
  BY <1>2, <1>4 DEF Lists
<1>7. i \in 0..Len(s) /\ (i = 0 <=> s = <<>>)
  BY DEF s
<1>8. RowsOK(S, q, now, s, i)
  BY <1>2, <1>5, <1>6, <1>7 DEF RowsOK
<1> QED BY <1>8 DEF s

\* refreshNavigator.
LEMMA RefreshOK ==
    ASSUME NEW S, Holds(S), NEW q \in Queries, clock' \in Nat, cfg.first \in BOOLEAN,
           NEW id, NEW first, RefreshNavigator(S, q, id, first)
    PROVE  query' = q /\ RowsOK(S, q, clock', rows', idx')
<1>1. /\ query' = q
      /\ rows' = RowsWithSelection(S, q, Limit, clock', id)
      /\ idx' = IF RowOf(rows', id) # 0 THEN RowOf(rows', id) ELSE ActiveRow(rows', first, cfg.first)
  BY DEF RefreshNavigator
<1>2. Shows(rows', S)
  <2>1. q \in Seq(Seq(Terms)) /\ Limit \in Nat \ {0}
    BY LauncherAssumption
  <2>2. Shows(RowsWithSelection(S, q, Limit, clock', id), S)
    BY <2>1, RowsWithSelectionAre
  <2> QED BY <1>1, <2>2
<1>3. rows' \in Seq(S)
  BY <1>2 DEF Shows
<1>4. idx' \in 0..Len(rows') /\ (idx' = 0 <=> rows' = <<>>)
  <2> DEFINE r == RowOf(rows', id)
  <2>1. r \in 0..Len(rows') /\ (r # 0 => rows' # <<>>)
    BY <1>3, RowOfIs
  <2>2. /\ ActiveRow(rows', first, cfg.first) \in 0..Len(rows')
        /\ ActiveRow(rows', first, cfg.first) = 0 <=> rows' = <<>>
    BY <1>3, ActiveRowIs
  <2> HIDE DEF r
  <2>3. idx' = IF r # 0 THEN r ELSE ActiveRow(rows', first, cfg.first)
    BY <1>1 DEF r
  <2> QED BY <2>1, <2>2, <2>3
<1> QED BY <1>1, <1>4, FoundOK

\* The rows of a list that is built, or built again, with nothing searched.
LEMMA BuiltOK ==
    ASSUME StoreOK(store), NEW list, Shows(list, store.profiles), clock \in Nat,
           cfg'.first \in BOOLEAN, Built(list)
    PROVE  LauncherInv'
<1>1. /\ allRows' = store.profiles /\ query' = <<>> /\ clock' = clock /\ rows' = list
      /\ idx' = ActiveRow(list, store.active, cfg'.first)
      /\ store' \in SelectIn(store, list, idx')
  BY DEF Built
<1>2. StoreOK(store')
  BY <1>1, SelectInIs
<1>3. Holds(allRows')
  BY <1>1 DEF StoreOK
<1>4. list \in Seq(store.profiles)
  BY DEF Shows
<1>5. idx' \in 0..Len(list) /\ (idx' = 0 <=> list = <<>>)
  BY <1>1, <1>4, ActiveRowIs
<1>6. RowsOK(allRows', query', clock', rows', idx')
  BY <1>1, <1>5 DEF RowsOK
<1> QED BY <1>1, <1>2, <1>3, <1>6, LauncherAssumption DEF LauncherInv

-----------------------------------------------------------------------------
\* The actions of the launcher.
LEMMA TypeKeeps ==
    ASSUME LauncherInv, cfg.first \in BOOLEAN, NEW q \in Queries, Type(q)
    PROVE  LauncherInv'
<1> DEFINE list == RowsWithSelection(allRows, q, Limit, clock, store.active)
           first == IF list = <<>> THEN 0 ELSE 1
<1>1. Holds(allRows) /\ StoreOK(store) /\ clock \in Nat
  BY DEF LauncherInv
<1>2. clock' = clock /\ allRows' = allRows
  BY DEF Type
<1>3. CASE RefreshNavigator(allRows, q, store.active, store.active) /\ store' = store
  <2>1. query' = q /\ RowsOK(allRows, q, clock', rows', idx')
    BY <1>1, <1>2, <1>3, RefreshOK
  <2> QED BY <1>1, <1>2, <1>3, <2>1 DEF LauncherInv
<1>4. CASE query' = q /\ rows' = list /\ idx' = first /\ store' \in SelectIn(store, list, first)
  <2>1. StoreOK(store')
    BY <1>1, <1>4, SelectInIs
  <2>2. list \in Seq(allRows)
    <3>1. q \in Seq(Seq(Terms)) /\ Limit \in Nat \ {0}
      BY LauncherAssumption
    <3> QED BY <1>1, <3>1, RowsWithSelectionAre DEF Shows
  <2>3. first \in 0..Len(list) /\ (first = 0 <=> list = <<>>)
    <3> HIDE DEF list
    <3> QED BY <2>2
  <2>4. RowsOK(allRows, q, clock, list, first)
    <3> HIDE DEF first
    <3> QED BY <1>1, <2>3, FoundOK
  <2> HIDE DEF list, first
  <2> QED BY <1>1, <1>2, <1>4, <2>1, <2>4 DEF LauncherInv
<1> QED BY <1>3, <1>4 DEF Type

LEMMA SelectKeeps ==
    ASSUME LauncherInv, NEW row \in DOMAIN rows, Select(row)
    PROVE  LauncherInv'
<1>1. StoreOK(store')
  BY SelectInIs DEF Select, LauncherInv
<1>2. idx' = row /\ UNCHANGED <<allRows, query, rows, clock>>
  BY DEF Select
<1>3. row \in 0..Len(rows) /\ row # 0 /\ rows # <<>>
  BY DEF LauncherInv, RowsOK, Shows
<1>4. RowsOK(allRows, query, clock, rows, row)
  BY <1>3 DEF LauncherInv, RowsOK
<1> QED BY <1>1, <1>2, <1>4 DEF LauncherInv

\* A save that fails, or seems to.
LEMMA FailKeeps ==
    ASSUME LauncherInv, NEW p \in Profiles, PersistFails(p),
           idx' \in 0..Len(rows), idx' = 0 <=> rows = <<>>
    PROVE  LauncherInv'
<1>1. Holds(Upsert(allRows, p))
  BY UpsertHolds DEF LauncherInv
<1>2. StoreOK(store')
  BY <1>1, SavedIs DEF PersistFails, LauncherInv
<1>3. UNCHANGED <<allRows, query, rows, clock>>
  BY DEF PersistFails
<1>4. RowsOK(allRows, query, clock, rows, idx')
  BY DEF LauncherInv, RowsOK
<1> QED BY <1>2, <1>3, <1>4 DEF LauncherInv

\* One that succeeds.
LEMMA PersistKeeps ==
    ASSUME LauncherInv, cfg.first \in BOOLEAN, NEW p \in Profiles, NEW q \in Queries,
           NEW now \in Nat, NEW selects, PersistProfile(p, q, now, selects)
    PROVE  LauncherInv'
<1> DEFINE S == Upsert(allRows, p)
           saved == Saved(S, p.id)
<1>1. Holds(S)
  BY UpsertHolds DEF LauncherInv
<1> HIDE DEF S
<1>2. StoreOK(saved) /\ saved.profiles = S
  BY <1>1, SavedIs
<1>3. /\ allRows' = saved.profiles /\ clock' = now
      /\ RefreshNavigator(saved.profiles, q, p.id, p.id)
      /\ store' \in SelectIn(saved, rows', idx') \/ store' = saved
  BY DEF PersistProfile, S
<1> HIDE DEF saved
<1>4. StoreOK(store')
  BY <1>2, <1>3, SelectInIs
<1>5. query' = q /\ RowsOK(S, q, clock', rows', idx')
  BY <1>1, <1>2, <1>3, RefreshOK
<1> QED BY <1>1, <1>2, <1>3, <1>4, <1>5 DEF LauncherInv

\* The handlers that save.
LEMMA ActivateKeeps ==
    ASSUME LauncherInv, cfg.first \in BOOLEAN, NEW row \in DOMAIN rows, Activate(row)
    PROVE  LauncherInv'
<1> DEFINE used == [rows[row] EXCEPT !.used = clock + 1]
<1>1. rows \in Seq(allRows) /\ allRows \in SUBSET Profiles /\ clock + 1 \in Nat /\ query \in Queries
  BY DEF LauncherInv, RowsOK, Shows, Holds
<1>2. row \in 0..Len(rows) /\ row # 0 /\ rows # <<>>
  BY <1>1
<1>3. rows[row] \in Profiles
  BY <1>1
<1>4. used \in Profiles
  BY <1>1, <1>3 DEF Profiles
<1>5. PersistProfile(used, query, clock + 1, TRUE) \/ (PersistFails(used) /\ idx' = row)
  BY DEF Activate
<1> HIDE DEF used
<1> QED BY <1>1, <1>2, <1>4, <1>5, PersistKeeps, FailKeeps

LEMMA SaveKeeps ==
    ASSUME LauncherInv, cfg.first \in BOOLEAN, NEW p \in Profiles, NEW q \in Queries, NEW selects,
           PersistProfile(p, q, clock, selects) \/ (PersistFails(p) /\ UNCHANGED idx)
    PROVE  LauncherInv'
<1>1. clock \in Nat /\ idx \in 0..Len(rows) /\ (idx = 0 <=> rows = <<>>)
  BY DEF LauncherInv, RowsOK
<1>2. UNCHANGED idx => idx' \in 0..Len(rows) /\ (idx' = 0 <=> rows = <<>>)
  BY <1>1
<1> QED BY <1>1, <1>2, PersistKeeps, FailKeeps

LEMMA FavoriteKeeps ==
    ASSUME LauncherInv, cfg.first \in BOOLEAN, NEW p \in allRows, ToggleFavorite(p)
    PROVE  LauncherInv'
<1> DEFINE toggled == [p EXCEPT !.favorite = ~@]
<1>1. p \in Profiles /\ query \in Queries
  BY DEF LauncherInv, Holds
<1>2. toggled \in Profiles
  BY <1>1 DEF Profiles
<1>3. PersistProfile(toggled, query, clock, FALSE) \/ (PersistFails(toggled) /\ UNCHANGED idx)
  BY DEF ToggleFavorite
<1> HIDE DEF toggled
<1> QED BY <1>1, <1>2, <1>3, SaveKeeps

LEMMA EditorKeeps ==
    ASSUME LauncherInv, cfg.first \in BOOLEAN, NEW p \in Profiles, EditorSave(p)
    PROVE  LauncherInv'
<1>1. <<>> \in Queries
  BY LauncherAssumption
<1>2. PersistProfile(p, <<>>, clock, TRUE) \/ (PersistFails(p) /\ UNCHANGED idx)
  BY DEF EditorSave
<1> QED BY <1>1, <1>2, SaveKeeps

\* The row is taken away, the others stay as they are.
LEMMA DeleteKeeps ==
    ASSUME LauncherInv, DeleteSelected
    PROVE  LauncherInv'
<1> DEFINE left == {p \in allRows : p.id # rows[idx].id}
           list == RemoveAt(rows, idx)
           next == Min({idx, Len(list)})
           saved == Saved(left, IF next = 0 THEN NoID ELSE list[next].id)
           n == Len(rows)
<1>1. /\ Holds(allRows) /\ StoreOK(store) /\ query \in Queries /\ clock \in Nat
      /\ RowsOK(allRows, query, clock, rows, idx)
  BY DEF LauncherInv
<1>2. /\ idx # 0 /\ UNCHANGED <<query, clock>>
      /\ \/ store' = saved /\ allRows' = left /\ rows' = list /\ idx' = next
         \/ store' \in {store, saved} /\ UNCHANGED <<allRows, rows, idx>>
  BY DEF DeleteSelected
<1>3. Holds(left)
  BY <1>1, SubsetHolds
<1>4. StoreOK(saved)
  <2> HIDE DEF left, list, next
  <2> QED BY <1>3, SavedIs
<1>5. n \in Nat /\ idx \in 1..n /\ idx \in DOMAIN rows /\ DOMAIN rows = 1..n /\ Shows(rows, allRows)
  BY <1>1, <1>2 DEF RowsOK, Shows
<1>6. /\ Shows(list, left) /\ Len(list) = n - 1
      /\ ToSet(list) = {p \in ToSet(rows) : p.id # rows[idx].id}
      /\ \A j \in DOMAIN list : list[j] = rows[IF j < idx THEN j ELSE j + 1]
  BY <1>5, RemoveAtIs
<1> HIDE DEF list, n
<1>7. DOMAIN list = 1..(n - 1) /\ n - 1 \in Nat
  BY <1>5, <1>6 DEF Shows
<1>8. next \in 0..Len(list) /\ (next = 0 <=> list = <<>>)
  <2> DEFINE T == {idx, Len(list)}
  <2>1. T \in SUBSET Nat /\ T # {}
    BY <1>5, <1>6
  <2>2. \E m \in T : \A k \in T : m <= k
    <3> HIDE DEF T
    <3> QED BY <2>1, LeastNatural
  <2>3. Min(T) \in T /\ \A k \in T : Min(T) <= k
    <3> HIDE DEF T
    <3> QED BY <2>2, Zenon DEF Min
  <2>4. next = Min(T)
    OBVIOUS
  <2>5. next \in {idx, n - 1} /\ next <= idx /\ next <= n - 1
    <3> HIDE DEF next
    <3> QED BY <1>6, <2>3, <2>4
  <2>6. list = <<>> <=> n - 1 = 0
    <3>1. list \in Seq(left) /\ Len(list) = n - 1
      BY <1>6 DEF Shows
    <3> HIDE DEF left
    <3>2. list = <<>> <=> Len(list) = 0
      BY <3>1, EmptySeq
    <3> QED BY <3>1, <3>2
  <2> HIDE DEF next, T
  <2> QED BY <1>5, <1>6, <1>7, <2>5, <2>6
<1> HIDE DEF next, saved
<1>9. RowsOK(left, query, clock, list, next)
  <2>1. ASSUME query # <<>>
        PROVE  ToSet(list) = {p \in left : Rank(p, query, clock) # NoMatch}
    <3>1. ToSet(rows) = {p \in allRows : Rank(p, query, clock) # NoMatch}
      BY <1>1, <2>1 DEF RowsOK
    <3> QED BY <1>6, <3>1
  <2>2. ASSUME query # <<>>, NEW j \in DOMAIN list, NEW k \in DOMAIN list, j < k
        PROVE  Rank(list[j], query, clock) <= Rank(list[k], query, clock)
    <3> DEFINE a == IF j < idx THEN j ELSE j + 1
               b == IF k < idx THEN k ELSE k + 1
    <3>1. a \in DOMAIN rows /\ b \in DOMAIN rows /\ a < b
      BY <1>5, <1>7, <2>2
    <3>2. list[j] = rows[a] /\ list[k] = rows[b]
      BY <1>6
    <3> HIDE DEF a, b
    <3>3. Rank(rows[a], query, clock) <= Rank(rows[b], query, clock)
      BY <1>1, <2>2, <3>1 DEF RowsOK
    <3> QED BY <3>2, <3>3
  <2> HIDE DEF left
  <2> QED BY <1>6, <1>8, <2>1, <2>2 DEF RowsOK
<1> HIDE DEF left
<1>10. CASE store' = saved /\ allRows' = left /\ rows' = list /\ idx' = next
  BY <1>1, <1>2, <1>3, <1>4, <1>9, <1>10 DEF LauncherInv
<1>11. CASE store' \in {store, saved} /\ UNCHANGED <<allRows, rows, idx>>
  BY <1>1, <1>2, <1>4, <1>11 DEF LauncherInv
<1> QED BY <1>2, <1>10, <1>11

\* What the manager does behind the launcher.
LEMMA ManagerKeeps ==
    ASSUME LauncherInv, cfg.first \in BOOLEAN, NEW id, ManagerDelete(id) \/ ManagerSelect(id)
    PROVE  LauncherInv'
<1>1. /\ Holds(allRows) /\ StoreOK(store) /\ query \in Queries /\ clock \in Nat
      /\ RowsOK(allRows, query, clock, rows, idx)
  BY DEF LauncherInv
<1>2. CASE ManagerDelete(id)
  <2> DEFINE left == {p \in allRows : p.id # id}
             saved == Saved(left, FirstID(left))
             list == RowsWithSelection(left, query, Limit, clock, saved.active)
  <2>1. Holds(left)
    BY <1>1, SubsetHolds
  <2>2. \/ /\ allRows' = left /\ rows' = list /\ UNCHANGED <<query, clock>>
           /\ idx' = ActiveRow(rows', saved.active, cfg.first)
           /\ store' \in SelectIn(saved, rows', idx')
        \/ store' \in {store, saved} /\ UNCHANGED <<allRows, query, rows, idx, clock>>
    BY <1>2 DEF ManagerDelete
  <2> HIDE DEF left
  <2>3. StoreOK(saved)
    BY <2>1, SavedIs
  <2> HIDE DEF saved
  <2>4. list \in Seq(left)
    <3>1. query \in Seq(Seq(Terms)) /\ Limit \in Nat \ {0}
      BY <1>1, LauncherAssumption
    <3> QED BY <1>1, <2>1, <3>1, RowsWithSelectionAre DEF Shows
  <2>5. ASSUME idx' = ActiveRow(list, saved.active, cfg.first)
        PROVE  RowsOK(left, query, clock, list, idx')
    <3>1. idx' \in 0..Len(list) /\ (idx' = 0 <=> list = <<>>)
      <4> HIDE DEF list
      <4> QED BY <2>4, <2>5, ActiveRowIs
    <3> QED BY <1>1, <2>1, <3>1, FoundOK
  <2>6. CASE /\ allRows' = left /\ rows' = list /\ UNCHANGED <<query, clock>>
             /\ idx' = ActiveRow(rows', saved.active, cfg.first)
             /\ store' \in SelectIn(saved, rows', idx')
    <3>1. StoreOK(store')
      BY <2>3, <2>6, SelectInIs
    <3> HIDE DEF list
    <3> QED BY <1>1, <2>1, <2>5, <2>6, <3>1 DEF LauncherInv
  <2>7. CASE store' \in {store, saved} /\ UNCHANGED <<allRows, query, rows, idx, clock>>
    BY <1>1, <2>3, <2>7 DEF LauncherInv
  <2> QED BY <2>2, <2>6, <2>7
<1>3. CASE ManagerSelect(id)
  <2>1. StoreOK(store') /\ UNCHANGED <<allRows, query, rows, idx, clock>>
    BY <1>1, <1>3, ActivatedIs DEF ManagerSelect
  <2> QED BY <1>1, <2>1 DEF LauncherInv
<1> QED BY <1>2, <1>3

-----------------------------------------------------------------------------
\* The start, each step of the launcher, and each step of the window.
LEMMA LauncherStart == WindowInit => LauncherInv
<1> SUFFICES ASSUME WindowInit PROVE LauncherInv
  OBVIOUS
<1>1. SettingsInv
  BY SettingsStart DEF WindowInit
<1>2. cfg.first \in BOOLEAN
  BY <1>1 DEF SettingsInv, SettingsTypeOK, Config
<1>3. Holds(allRows)
  BY LauncherAssumption, FS_Subset DEF WindowInit, Holds, Unique
<1>4. PICK id \in IDsOf(Stock) \cup {NoID} :
         LET saved == Saved(allRows, id)
         IN  /\ rows = RowsWithSelection(allRows, <<>>, Limit, clock, saved.active)
             /\ idx = ActiveRow(rows, saved.active, cfg.first)
             /\ store \in SelectIn(saved, rows, idx)
  BY DEF WindowInit
<1> DEFINE saved == Saved(allRows, id)
           list == RowsWithSelection(allRows, <<>>, Limit, clock, saved.active)
<1>5. rows = list /\ idx = ActiveRow(rows, saved.active, cfg.first) /\ store \in SelectIn(saved, rows, idx)
  BY <1>4
<1>6. StoreOK(saved)
  BY <1>3, SavedIs
<1> HIDE DEF saved
<1>7. StoreOK(store)
  BY <1>5, <1>6, SelectInIs
<1>8. clock \in Nat /\ query = <<>> /\ query \in Queries
  BY LauncherAssumption DEF WindowInit
<1>9. list \in Seq(allRows)
  <2>1. <<>> \in Seq(Seq(Terms)) /\ Limit \in Nat \ {0}
    BY LauncherAssumption
  <2> QED BY <1>3, <1>8, <2>1, RowsWithSelectionAre DEF Shows
<1>10. idx \in 0..Len(list) /\ (idx = 0 <=> list = <<>>)
  <2> HIDE DEF list
  <2> QED BY <1>2, <1>5, <1>9, ActiveRowIs
<1>11. RowsOK(allRows, query, clock, rows, idx)
  <2>1. RowsOK(allRows, <<>>, clock, list, idx)
    BY <1>3, <1>8, <1>10, FoundOK
  <2> HIDE DEF list
  <2> QED BY <1>5, <1>8, <2>1
<1> QED BY <1>3, <1>7, <1>8, <1>11 DEF LauncherInv

LEMMA LauncherSteps ==
    ASSUME LauncherInv, cfg.first \in BOOLEAN, LauncherStep
    PROVE  LauncherInv'
<1>1. ASSUME NEW q \in Queries, Type(q) PROVE LauncherInv'
  BY <1>1, TypeKeeps
<1>2. ASSUME NEW row \in DOMAIN rows, Select(row) \/ Activate(row) PROVE LauncherInv'
  BY <1>2, SelectKeeps, ActivateKeeps
<1>3. ASSUME NEW p \in allRows, ToggleFavorite(p) PROVE LauncherInv'
  BY <1>3, FavoriteKeeps
<1>4. ASSUME NEW p \in Stock, EditorSave(p) PROVE LauncherInv'
  <2>1. p \in Profiles
    BY LauncherAssumption
  <2> QED BY <1>4, <2>1, EditorKeeps
<1>5. ASSUME NEW p \in Stock, NEW o \in allRows, EditorSave([o EXCEPT !.name = p.name]) PROVE LauncherInv'
  <2>1. p \in Profiles /\ o \in Profiles
    BY LauncherAssumption DEF LauncherInv, Holds
  <2>2. [o EXCEPT !.name = p.name] \in Profiles
    BY <2>1 DEF Profiles
  <2> QED BY <1>5, <2>2, EditorKeeps
<1>6. CASE DeleteSelected
  BY <1>6, DeleteKeeps
<1>7. ASSUME NEW id \in IDsOf(allRows), ManagerDelete(id) \/ ManagerSelect(id) PROVE LauncherInv'
  BY <1>7, ManagerKeeps
<1> QED BY <1>1, <1>2, <1>3, <1>4, <1>5, <1>6, <1>7 DEF LauncherStep

LEMMA LauncherInductive ==
    SettingsInv /\ SettingsInv' /\ LauncherInv /\ [WindowNext]_windowVars => LauncherInv'
<1> SUFFICES ASSUME SettingsInv, SettingsInv', LauncherInv, [WindowNext]_windowVars
             PROVE  LauncherInv'
  OBVIOUS
<1>1. cfg.first \in BOOLEAN /\ cfg'.first \in BOOLEAN
  BY DEF SettingsInv, SettingsTypeOK, Config
<1>2. StoreOK(store) /\ Holds(store.profiles) /\ clock \in Nat
  BY DEF LauncherInv, StoreOK
<1>3. CASE UNCHANGED launcher
  BY <1>3 DEF launcher, LauncherInv
<1>4. CASE LauncherStep
  BY <1>1, <1>4, LauncherSteps
<1>5. <<>> \in Seq(Seq(Terms)) /\ Limit \in Nat \ {0}
  BY LauncherAssumption
<1>6. CASE SaveAndRebuild
  <2>1. Shows(NavigatorRows(store.profiles, <<>>, Limit, clock), store.profiles)
    BY <1>2, <1>5, NavigatorRowsAre
  <2> QED BY <1>1, <1>2, <1>3, <1>6, <2>1, BuiltOK DEF SaveAndRebuild
<1>7. CASE Start
  <2>1. Shows(RowsWithSelection(store.profiles, <<>>, Limit, clock, store.active), store.profiles)
    BY <1>2, <1>5, RowsWithSelectionAre
  <2> QED BY <1>1, <1>2, <1>7, <2>1, BuiltOK DEF Start
<1> QED BY <1>3, <1>4, <1>6, <1>7 DEF WindowNext, windowVars

\* The invariant of the launcher, next to that of the settings it reads.
THEOREM LauncherInvariance == WindowSpec => [](SettingsInv /\ LauncherInv)
<1>1. WindowSpec => []SettingsInv
  BY WindowKeepsSettings, SettingsInvariance, PTL
<1>2. WindowInit => LauncherInv
  BY LauncherStart
<1>3. SettingsInv /\ SettingsInv' /\ LauncherInv /\ [WindowNext]_windowVars => LauncherInv'
  BY LauncherInductive
<1> QED BY <1>1, <1>2, <1>3, PTL DEF WindowSpec

\* What is shown, and so what Enter opens and saves back, is the window's present copy of
\* the profile, once, and a row is selected as long as there is one (persistProfile,
\* removeSelectedProfile).
THEOREM RowsStayFresh == WindowSpec => []RowsFresh
<1>1. LauncherInv => RowsFresh
  <2> SUFFICES ASSUME LauncherInv PROVE RowsFresh
    OBVIOUS
  <2>1. Shows(rows, allRows) /\ idx \in 0..Len(rows) /\ (idx = 0 <=> rows = <<>>)
    BY DEF LauncherInv, RowsOK
  <2>2. ToSet(rows) \subseteq allRows
    BY <2>1 DEF Shows, ToSet
  <2> QED BY <2>1, <2>2 DEF Shows, RowsFresh
<1> QED BY <1>1, LauncherInvariance, PTL

\* A search shows exactly the profiles it means, the likest names first
\* (filterConnections, connectionSearchRankAt).
THEOREM SearchStaysSound == WindowSpec => []SearchSound
<1>1. LauncherInv => SearchSound
  <2> SUFFICES ASSUME LauncherInv, query # <<>> PROVE SearchSound
    BY DEF SearchSound
  <2>1. /\ allRows \in SUBSET Profiles /\ clock \in Nat /\ rows \in Seq(allRows)
        /\ query \in Seq(Seq(Terms))
        /\ ToSet(rows) = {p \in allRows : Rank(p, query, clock) # NoMatch}
        /\ \A j, k \in DOMAIN rows : j < k => Rank(rows[j], query, clock) <= Rank(rows[k], query, clock)
    BY LauncherAssumption DEF LauncherInv, RowsOK, Shows, Holds
  <2>2. ToSet(rows) = {p \in allRows : Readable(query) /\ Meant(p, query, clock)}
    BY <2>1, RankIs
  <2>3. ASSUME NEW t \in ToSet(query[1]), query = <<<<t>>>>, t.field = "any", ~t.exclude,
               NEW i \in DOMAIN rows, NEW j \in DOMAIN rows, i < j
        PROVE  Likeness(rows[i], t.value) <= Likeness(rows[j], t.value)
    <3>1. t \in Terms
      <4>1. query[1] = <<t>> /\ query[1] \in Seq(Terms) /\ <<t>>[1] = t
        BY <2>1, <2>3
      <4> QED BY <4>1
    <3>2. \A k \in DOMAIN rows : rows[k] \in ToSet(rows)
      BY DEF ToSet
    <3>3. \A k \in DOMAIN rows : rows[k] \in Profiles /\ Rank(rows[k], query, clock) # NoMatch
      BY <2>1, <3>2
    <3>4. \A k \in DOMAIN rows : Rank(rows[k], query, clock) = Likeness(rows[k], t.value)
      BY <2>1, <2>3, <3>1, <3>3, WordRank
    <3>5. Rank(rows[i], query, clock) <= Rank(rows[j], query, clock)
      BY <2>1, <2>3
    <3> QED BY <3>4, <3>5
  <2> QED BY <2>2, <2>3 DEF SearchSound
<1> QED BY <1>1, LauncherInvariance, PTL

\* A start of the program keeps the active profile ("prevents startup table selection
\* from silently replacing the persisted active profile", guis.go:2023).
THEOREM StartKeepsActive == WindowSpec => StartupKeepsActive
<1>1. LauncherInv /\ SettingsInv' /\ [WindowNext]_windowVars
         => [Start /\ ~cfg'.first => store'.active = store.active]_windowVars
  <2> SUFFICES ASSUME LauncherInv, SettingsInv', Start, ~cfg'.first PROVE store'.active = store.active
    OBVIOUS
  <2> DEFINE list == RowsWithSelection(store.profiles, <<>>, Limit, clock, store.active)
  <2>1. cfg'.first = FALSE
    BY DEF SettingsInv, SettingsTypeOK, Config
  <2>2. StoreOK(store) /\ Holds(store.profiles) /\ clock \in Nat
    BY DEF LauncherInv, StoreOK
  <2>3. <<>> \in Seq(Seq(Terms)) /\ Limit \in Nat \ {0}
    BY LauncherAssumption
  <2>4. Shows(list, store.profiles) /\ (store.active \in IDsOf(store.profiles) => RowOf(list, store.active) # 0)
    BY <2>2, <2>3, RowsWithSelectionAre
  <2>5. idx' = ActiveRow(list, store.active, cfg'.first) /\ store' \in SelectIn(store, list, idx')
    BY DEF Start, Built
  <2> HIDE DEF list
  <2>6. list \in Seq(store.profiles)
    BY <2>4 DEF Shows
  <2>7. CASE store.active \in IDsOf(store.profiles)
    <3>1. idx' = RowOf(list, store.active) /\ idx' # 0
      BY <2>1, <2>4, <2>5, <2>6, <2>7, ActiveRowIs
    <3>2. list[idx'].id = store.active
      BY <2>6, <3>1, RowOfIs
    <3>3. store' \in Activated(store, store.active)
      BY <2>5, <3>1, <3>2 DEF SelectIn
    <3> QED BY <2>2, <2>7, <3>3, ActivatedIs
  <2>8. CASE store.profiles = {}
    <3>1. list = <<>>
      BY <2>6, <2>8
    <3>2. idx' = 0
      BY <2>1, <2>5, <3>1 DEF ActiveRow
    <3> QED BY <2>5, <3>2 DEF SelectIn
  <2> QED BY <2>2, <2>7, <2>8 DEF StoreOK
<1> QED BY <1>1, LauncherInvariance, PTL DEF WindowSpec, StartupKeepsActive

-----------------------------------------------------------------------------
\* The sidebar and the monitors behind it.

Posted == [tab : Local, update : Update]
Publishing == {"offer", "drop", "put"}
Current(m) == [rev |-> m.rev, phase |-> m.phase]

\* The bounds of a monitor, and what its goroutine has made sure of.
SamplerOK(m, max) ==
    /\ Len(m.updates) <= 1 /\ Len(m.held) <= 1
    /\ m.rev <= m.samples /\ m.samples <= max
    /\ m.pc = "start" => m.samples = 0
    /\ m.pc = "sampling" => m.samples < max
    /\ m.pc = "put" => m.updates = <<>>

\* The last update of tab t in the queue q is u.
LastIs(q, t, u) ==
    \A i \in DOMAIN q :
        q[i].tab = t /\ (\A j \in DOMAIN q : j > i => q[j].tab # t) => q[i].update = u

\* The update of t that is the last on its way tells what the monitor m now has.
PipelineOK(m, q, t) ==
    IF m.pc \in Publishing THEN m.msg = Current(m)
    ELSE m.pc # "done" =>
            IF m.updates # <<>> THEN m.updates = <<Current(m)>>
            ELSE IF m.held # <<>> THEN m.held = <<Current(m)>>
            ELSE LastIs(q, t, Current(m))

MonitorsOK ==
    /\ mon \in [Local -> Monitor] /\ queue \in Seq(Posted)
    /\ \A t \in Local : SamplerOK(mon[t], MaxSamples[t]) /\ PipelineOK(mon[t], queue, t)
    /\ \A t \in Local \ opened : mon[t] = NewMonitor
    /\ \A i \in DOMAIN queue : queue[i].tab \in opened

TabsAndGuiOK ==
    /\ open \subseteq opened /\ opened \subseteq Tabs
    /\ active \in open \cup {NoTab}
    /\ active = NoTab <=> open = {}
    /\ monitors \subseteq Local
    /\ gui \in [op : GuiOps, tab : Tabs \cup {NoTab}, rev : Nat]
    /\ shown \in [title : Tabs \cup {NoTab}, from : Local \cup {NoTab},
                  rev : Nat, status : Statuses]

\* The registered monitors are those of the open local tabs, and none runs besides but
\* the one that a handler waits for.
RegisteredOK ==
    gui.op # "quit" =>
        /\ monitors = open \cap Local
        /\ \A t \in Local : Alive(t) => t \in monitors \/ gui = [Gui("stop") EXCEPT !.tab = t]

\* A snapshot that was read is the last one, or a newer update is on its way.
ReadOK ==
    gui.op = "read" => active \in monitors /\ (Settled(active) => gui.rev = mon[active].rev)

MonitorInv ==
    MonitorsOK /\ TabsAndGuiOK /\ RegisteredOK /\ ReadOK /\ SidebarIsActiveTab /\ LatestShown

-----------------------------------------------------------------------------
\* The goroutines.

\* What a step of one monitor's goroutines does to the others, and to what is shown.
LEMMA BackgroundKeeps ==
    ASSUME MonitorInv, NEW t \in Local, t \in opened,
           UNCHANGED <<opened, open, active, monitors, gui, shown>>,
           mon' \in [Local -> Monitor], \A s \in Local \ {t} : mon'[s] = mon[s],
           queue' \in Seq(Posted), \A i \in DOMAIN queue' : queue'[i].tab \in opened,
           SamplerOK(mon'[t], MaxSamples[t]), PipelineOK(mon'[t], queue', t),
           \A s \in Local \ {t} : PipelineOK(mon[s], queue', s) /\ (Settled(s)' => Settled(s)),
           Alive(t)' => Alive(t),
           Settled(t)' => Settled(t) /\ mon'[t].rev = mon[t].rev /\ mon'[t].phase = mon[t].phase
    PROVE  MonitorInv'
<1>1. MonitorsOK'
  <2>1. \A s \in Local : SamplerOK(mon'[s], MaxSamples[s]) /\ PipelineOK(mon'[s], queue', s)
    <3> SUFFICES ASSUME NEW s \in Local
                 PROVE  SamplerOK(mon'[s], MaxSamples[s]) /\ PipelineOK(mon'[s], queue', s)
      OBVIOUS
    <3>1. CASE s = t
      BY <3>1
    <3>2. CASE s # t
      <4>1. mon'[s] = mon[s] /\ SamplerOK(mon[s], MaxSamples[s]) /\ PipelineOK(mon[s], queue', s)
        BY <3>2 DEF MonitorInv, MonitorsOK
      <4> QED BY <4>1
    <3> QED BY <3>1, <3>2
  <2> QED BY <2>1 DEF MonitorInv, MonitorsOK
<1>2. TabsAndGuiOK'
  BY DEF MonitorInv, TabsAndGuiOK
<1>3. \A s \in Local : Alive(s)' => Alive(s)
  BY DEF Alive
<1>4. RegisteredOK'
  BY <1>3 DEF MonitorInv, RegisteredOK
<1>5. \A s \in Local : Settled(s)' =>
          Settled(s) /\ mon'[s].rev = mon[s].rev /\ mon'[s].phase = mon[s].phase
  OBVIOUS
<1>6. active \in monitors => active \in Local
  BY DEF MonitorInv, TabsAndGuiOK
<1>7. ReadOK'
  BY <1>5, <1>6 DEF MonitorInv, ReadOK
<1>8. SidebarIsActiveTab'
  BY DEF MonitorInv, SidebarIsActiveTab
<1>9. LatestShown'
  BY <1>5, <1>6 DEF MonitorInv, LatestShown
<1> QED BY <1>1, <1>2, <1>4, <1>7, <1>8, <1>9 DEF MonitorInv

\* The steps of a sampler leave the queue alone.
LEMMA SamplerKeeps ==
    ASSUME MonitorInv, NEW t \in Local, t \in opened,
           UNCHANGED <<opened, open, active, monitors, queue, gui, shown>>,
           NEW m \in Monitor, mon' = [mon EXCEPT ![t] = m],
           SamplerOK(m, MaxSamples[t]), PipelineOK(m, queue, t),
           mon[t].pc \notin {"new", "done"},
           m.pc \in {"start", "sampling", "select"} /\ m.updates = <<>> /\ m.held = <<>> =>
               /\ mon[t].pc \in {"start", "sampling", "select"}
               /\ mon[t].updates = <<>> /\ mon[t].held = <<>>
               /\ m.rev = mon[t].rev /\ m.phase = mon[t].phase
    PROVE  MonitorInv'
<1>1. mon \in [Local -> Monitor] /\ queue \in Seq(Posted)
      /\ \A i \in DOMAIN queue : queue[i].tab \in opened
  BY DEF MonitorInv, MonitorsOK
<1>2. mon' \in [Local -> Monitor] /\ mon'[t] = m /\ \A s \in Local \ {t} : mon'[s] = mon[s]
  BY <1>1
<1>3. \A s \in Local \ {t} : PipelineOK(mon[s], queue', s) /\ (Settled(s)' => Settled(s))
  BY <1>2 DEF MonitorInv, MonitorsOK, Settled
<1>4. Settled(t)' => Settled(t) /\ mon'[t].rev = mon[t].rev /\ mon'[t].phase = mon[t].phase
  BY <1>2 DEF Settled
<1>5. Alive(t)
  BY DEF Alive
<1> QED BY <1>1, <1>2, <1>3, <1>4, <1>5, BackgroundKeeps

LEMMA SamplerSteps ==
    ASSUME MonitorInv, NEW t \in Local, Tick(t) \/ Sampling(t)
    PROVE  MonitorInv'
<1> DEFINE m == mon[t]
<1>1. /\ m \in Monitor /\ mon \in [Local -> Monitor]
      /\ SamplerOK(m, MaxSamples[t]) /\ PipelineOK(m, queue, t)
      /\ MaxSamples[t] \in Nat \ {0}
  BY MonitorAssumption DEF MonitorInv, MonitorsOK
<1>2. /\ m.pc \in Steps \ {"new", "done"}
      /\ UNCHANGED <<opened, open, active, monitors, queue, gui, shown>>
  BY DEF Tick, Sampling, Begin, SampleArrives, SampleFails, Offer, Drop, Put, Finish, Running, Steps
<1>3. t \in opened
  BY <1>2 DEF MonitorInv, MonitorsOK, NewMonitor
<1>4. /\ m.pc \in Steps /\ m.cancelled \in BOOLEAN /\ m.samples \in Nat /\ m.rev \in Nat
      /\ m.phase \in Phases /\ m.msg \in Update /\ m.updates \in Seq(Update)
      /\ m.held \in Seq(Update)
  BY <1>1 DEF Monitor
<1>5. CASE (Begin(t) \/ Tick(t)) /\ mon' = [mon EXCEPT ![t].pc = "sampling"]
  <2> DEFINE n == [m EXCEPT !.pc = "sampling"]
  <2>1. mon' = [mon EXCEPT ![t] = n]
    BY <1>5
  <2>2. n \in Monitor
    BY <1>1 DEF Monitor, Steps
  <2>3. m.samples < MaxSamples[t] /\ m.pc \in {"start", "select"}
    BY <1>1, <1>4, <1>5 DEF Begin, Tick, Running, SamplerOK
  <2>4. /\ n.pc = "sampling" /\ n.samples = m.samples /\ n.rev = m.rev /\ n.phase = m.phase
        /\ n.updates = m.updates /\ n.held = m.held /\ Current(n) = Current(m)
    BY <1>1 DEF Monitor, Current
  <2>5. SamplerOK(n, MaxSamples[t]) /\ PipelineOK(n, queue, t)
    BY <1>1, <2>3, <2>4 DEF SamplerOK, PipelineOK, Publishing
  <2> HIDE DEF n
  <2> QED BY <1>2, <1>3, <2>1, <2>2, <2>3, <2>4, <2>5, SamplerKeeps
<1>6. CASE Begin(t) /\ mon' = [mon EXCEPT ![t].pc = "select"]
  <2> DEFINE n == [m EXCEPT !.pc = "select"]
  <2>1. mon' = [mon EXCEPT ![t] = n]
    BY <1>6
  <2>2. n \in Monitor
    BY <1>1 DEF Monitor, Steps
  <2>3. m.pc = "start"
    BY <1>6 DEF Begin, Running
  <2>4. /\ n.pc = "select" /\ n.samples = m.samples /\ n.rev = m.rev /\ n.phase = m.phase
        /\ n.updates = m.updates /\ n.held = m.held /\ Current(n) = Current(m)
    BY <1>1 DEF Monitor, Current
  <2>5. SamplerOK(n, MaxSamples[t]) /\ PipelineOK(n, queue, t)
    BY <1>1, <2>3, <2>4 DEF SamplerOK, PipelineOK, Publishing
  <2> HIDE DEF n
  <2> QED BY <1>2, <1>3, <2>1, <2>2, <2>3, <2>4, <2>5, SamplerKeeps
<1>7. CASE SampleArrives(t)
  <2> DEFINE u == [rev |-> m.rev + 1, phase |-> "running"]
             n == [m EXCEPT !.samples = m.samples + 1, !.rev = m.rev + 1, !.phase = "running",
                            !.pc = "offer", !.msg = u]
  <2>1. mon' = [mon EXCEPT ![t] = n]
    BY <1>7 DEF SampleArrives
  <2>2. m.pc = "sampling"
    BY <1>7 DEF SampleArrives, Running
  <2>3. n \in Monitor
    <3>1. u \in Update /\ m.samples + 1 \in Nat /\ m.rev + 1 \in Nat
      BY <1>4 DEF Update, Phases
    <3> HIDE DEF u
    <3> QED BY <1>1, <3>1 DEF Monitor, Steps, Phases
  <2>4. /\ n.pc = "offer" /\ n.samples = m.samples + 1 /\ n.rev = m.rev + 1
        /\ n.phase = "running" /\ n.msg = u /\ n.updates = m.updates /\ n.held = m.held
    BY <1>1 DEF Monitor
  <2>5. Current(n) = u
    BY <2>4 DEF Current
  <2>6. SamplerOK(n, MaxSamples[t]) /\ PipelineOK(n, queue, t)
    BY <1>1, <1>4, <2>2, <2>4, <2>5 DEF SamplerOK, PipelineOK, Publishing
  <2> HIDE DEF n, u
  <2> QED BY <1>2, <1>3, <2>1, <2>3, <2>4, <2>6, SamplerKeeps
<1>8. CASE SampleFails(t)
  <2>1. m.pc = "sampling"
    BY <1>8 DEF SampleFails, Running
  <2>2. CASE m.cancelled
    <3> DEFINE n == [m EXCEPT !.samples = m.samples + 1, !.pc = "select"]
    <3>1. mon' = [mon EXCEPT ![t] = n]
      BY <1>8, <2>2 DEF SampleFails
    <3>2. n \in Monitor
      <4>1. m.samples + 1 \in Nat /\ "select" \in Steps
        BY <1>4 DEF Steps
      <4> QED BY <1>1, <4>1 DEF Monitor
    <3>3. /\ n.pc = "select" /\ n.samples = m.samples + 1 /\ n.rev = m.rev
          /\ n.phase = m.phase /\ n.updates = m.updates /\ n.held = m.held
          /\ Current(n) = Current(m)
      BY <1>1 DEF Monitor, Current
    <3>4. SamplerOK(n, MaxSamples[t]) /\ PipelineOK(n, queue, t)
      BY <1>1, <1>4, <2>1, <3>3 DEF SamplerOK, PipelineOK, Publishing
    <3> HIDE DEF n
    <3> QED BY <1>2, <1>3, <2>1, <3>1, <3>2, <3>3, <3>4, SamplerKeeps
  <2>3. CASE ~m.cancelled
    <3> DEFINE u == [rev |-> m.rev, phase |-> "degraded"]
               n == [m EXCEPT !.samples = m.samples + 1, !.phase = "degraded",
                              !.pc = "offer", !.msg = u]
    <3>1. mon' = [mon EXCEPT ![t] = n]
      BY <1>8, <2>3 DEF SampleFails
    <3>2. n \in Monitor
      <4>1. u \in Update /\ m.samples + 1 \in Nat
        BY <1>4 DEF Update, Phases
      <4> HIDE DEF u
      <4> QED BY <1>1, <4>1 DEF Monitor, Steps, Phases
    <3>3. /\ n.pc = "offer" /\ n.samples = m.samples + 1 /\ n.rev = m.rev
          /\ n.phase = "degraded" /\ n.msg = u /\ n.updates = m.updates /\ n.held = m.held
      BY <1>1 DEF Monitor
    <3>4. Current(n) = u
      BY <3>3 DEF Current
    <3>5. SamplerOK(n, MaxSamples[t]) /\ PipelineOK(n, queue, t)
      BY <1>1, <1>4, <2>1, <3>3, <3>4 DEF SamplerOK, PipelineOK, Publishing
    <3> HIDE DEF n, u
    <3> QED BY <1>2, <1>3, <3>1, <3>2, <3>3, <3>5, SamplerKeeps
  <2> QED BY <2>2, <2>3
<1>9. CASE m.pc \in Publishing /\ m.updates = <<>> /\ mon' = Send(t)
  <2> DEFINE ups == Append(m.updates, m.msg)
             n == [m EXCEPT !.updates = ups, !.msg = NoUpdate, !.pc = "select"]
  <2>1. mon' = [mon EXCEPT ![t] = n]
    BY <1>9 DEF Send
  <2>2. ups = <<m.msg>> /\ ups \in Seq(Update) /\ Len(ups) = 1 /\ ups # <<>>
    BY <1>4, <1>9
  <2> HIDE DEF ups
  <2>3. n \in Monitor
    BY <1>1, <2>2 DEF Monitor, Steps, Update, NoUpdate, Phases
  <2>4. /\ n.pc = "select" /\ n.samples = m.samples /\ n.rev = m.rev /\ n.phase = m.phase
        /\ n.updates = ups /\ n.held = m.held /\ Current(n) = Current(m)
    BY <1>1 DEF Monitor, Current
  <2>5. m.msg = Current(m)
    BY <1>1, <1>9 DEF PipelineOK
  <2>6. SamplerOK(n, MaxSamples[t]) /\ PipelineOK(n, queue, t)
    BY <1>1, <2>2, <2>4, <2>5 DEF SamplerOK, PipelineOK, Publishing
  <2> HIDE DEF n
  <2> QED BY <1>2, <1>3, <2>1, <2>2, <2>3, <2>4, <2>6, SamplerKeeps
<1>10. CASE Offer(t) /\ mon' = [mon EXCEPT ![t].pc = "drop"]
  <2> DEFINE n == [m EXCEPT !.pc = "drop"]
  <2>1. mon' = [mon EXCEPT ![t] = n] /\ m.pc = "offer"
    BY <1>10 DEF Offer, Running
  <2>2. n \in Monitor
    BY <1>1 DEF Monitor, Steps
  <2>3. /\ n.pc = "drop" /\ n.samples = m.samples /\ n.rev = m.rev /\ n.msg = m.msg
        /\ n.updates = m.updates /\ n.held = m.held /\ Current(n) = Current(m)
    BY <1>1 DEF Monitor, Current
  <2>4. SamplerOK(n, MaxSamples[t]) /\ PipelineOK(n, queue, t)
    BY <1>1, <2>1, <2>3 DEF SamplerOK, PipelineOK, Publishing
  <2> HIDE DEF n
  <2> QED BY <1>2, <1>3, <2>1, <2>2, <2>3, <2>4, SamplerKeeps
<1>11. CASE Drop(t)
  <2> DEFINE n == [m EXCEPT !.updates = <<>>, !.pc = "put"]
  <2>1. mon' = [mon EXCEPT ![t] = n] /\ m.pc = "drop"
    BY <1>11 DEF Drop, Running
  <2>2. n \in Monitor
    <3>1. <<>> \in Seq(Update) /\ "put" \in Steps
      BY DEF Steps
    <3> QED BY <1>1, <3>1 DEF Monitor
  <2>3. /\ n.pc = "put" /\ n.samples = m.samples /\ n.rev = m.rev /\ n.msg = m.msg
        /\ n.updates = <<>> /\ n.held = m.held /\ Current(n) = Current(m)
    BY <1>1 DEF Monitor, Current
  <2>4. SamplerOK(n, MaxSamples[t]) /\ PipelineOK(n, queue, t)
    BY <1>1, <2>1, <2>3 DEF SamplerOK, PipelineOK, Publishing
  <2> HIDE DEF n
  <2> QED BY <1>2, <1>3, <2>1, <2>2, <2>3, <2>4, SamplerKeeps
<1>12. CASE Finish(t)
  <2> DEFINE n == [m EXCEPT !.phase = "stopped", !.pc = "done"]
  <2>1. mon' = [mon EXCEPT ![t] = n] /\ m.pc = "select"
    BY <1>12 DEF Finish, Running
  <2>2. n \in Monitor
    <3>1. "stopped" \in Phases /\ "done" \in Steps
      BY DEF Steps, Phases
    <3> QED BY <1>1, <3>1 DEF Monitor
  <2>3. /\ n.pc = "done" /\ n.samples = m.samples /\ n.rev = m.rev
        /\ n.updates = m.updates /\ n.held = m.held
    BY <1>1 DEF Monitor
  <2>4. SamplerOK(n, MaxSamples[t]) /\ PipelineOK(n, queue, t)
    BY <1>1, <2>1, <2>3 DEF SamplerOK, PipelineOK, Publishing
  <2> HIDE DEF n
  <2> QED BY <1>2, <1>3, <2>1, <2>2, <2>3, <2>4, SamplerKeeps
<1>13. CASE Begin(t)
  BY <1>5, <1>6, <1>13 DEF Begin
<1>14. CASE Tick(t)
  BY <1>5, <1>14 DEF Tick
<1>15. CASE Offer(t)
  BY <1>9, <1>10, <1>15 DEF Offer, Running, Publishing
<1>16. CASE Put(t)
  <2>1. m.pc = "put" /\ mon' = Send(t)
    BY <1>16 DEF Put, Running
  <2>2. m.updates = <<>>
    BY <1>1, <2>1 DEF SamplerOK
  <2> QED BY <1>9, <2>1, <2>2 DEF Publishing
<1> QED BY <1>7, <1>8, <1>11, <1>12, <1>13, <1>14, <1>15, <1>16 DEF Sampling

LEMMA LastAppended ==
    ASSUME NEW q \in Seq(Posted), NEW item \in Posted
    PROVE  /\ Append(q, item) \in Seq(Posted)
           /\ \A i \in DOMAIN Append(q, item) : Append(q, item)[i] = item \/ \E j \in DOMAIN q :
                 Append(q, item)[i] = q[j]
           /\ \E i \in DOMAIN Append(q, item) : Append(q, item)[i].tab = item.tab
           /\ LastIs(Append(q, item), item.tab, item.update)
           /\ \A t, u : t # item.tab /\ LastIs(q, t, u) => LastIs(Append(q, item), t, u)
           /\ \A t : (\A i \in DOMAIN Append(q, item) : Append(q, item)[i].tab # t) =>
                 \A i \in DOMAIN q : q[i].tab # t
<1> DEFINE r == Append(q, item)
           n == Len(q)
<1>1. /\ n \in Nat /\ DOMAIN q = 1..n /\ r \in Seq(Posted) /\ Len(r) = n + 1
      /\ DOMAIN r = 1..(n + 1) /\ r[n + 1] = item /\ \A i \in 1..n : r[i] = q[i]
  OBVIOUS
<1> HIDE DEF r, n
<1>2. n + 1 \in DOMAIN r /\ \A i \in DOMAIN r : i = n + 1 \/ (i \in DOMAIN q /\ r[i] = q[i])
  <2>1. \A i \in 1..(n + 1) : i = n + 1 \/ i \in 1..n
    BY <1>1
  <2> QED BY <1>1, <2>1
<1>3. LastIs(r, item.tab, item.update)
  <2> SUFFICES ASSUME NEW i \in DOMAIN r, r[i].tab = item.tab,
                      \A j \in DOMAIN r : j > i => r[j].tab # item.tab
               PROVE  r[i].update = item.update
    BY DEF LastIs
  <2>1. i = n + 1
    BY <1>1
  <2> QED BY <1>1, <2>1
<1>4. ASSUME NEW t, NEW u, t # item.tab, LastIs(q, t, u) PROVE LastIs(r, t, u)
  <2> SUFFICES ASSUME NEW i \in DOMAIN r, r[i].tab = t,
                      \A j \in DOMAIN r : j > i => r[j].tab # t
               PROVE  r[i].update = u
    BY DEF LastIs
  <2>1. i \in DOMAIN q /\ r[i] = q[i]
    BY <1>1, <1>4
  <2>2. \A j \in DOMAIN q : j > i => q[j].tab # t
    BY <1>1
  <2> QED BY <1>4, <2>1, <2>2 DEF LastIs
<1> QED BY <1>1, <1>2, <1>3, <1>4 DEF r

LEMMA LastTail ==
    ASSUME NEW q \in Seq(Posted), q # <<>>
    PROVE  /\ Head(q) \in Posted /\ Tail(q) \in Seq(Posted)
           /\ 1 \in DOMAIN q /\ Head(q) = q[1]
           /\ \A i \in DOMAIN Tail(q) : i + 1 \in DOMAIN q /\ Tail(q)[i] = q[i + 1]
           /\ \A t, u : LastIs(q, t, u) => LastIs(Tail(q), t, u)
           /\ \A t, u : LastIs(q, t, u) /\ (\A i \in DOMAIN Tail(q) : Tail(q)[i].tab # t) =>
                 (Head(q).tab = t => Head(q).update = u)
           /\ \A t : Head(q).tab # t /\ (\A i \in DOMAIN Tail(q) : Tail(q)[i].tab # t) =>
                 \A i \in DOMAIN q : q[i].tab # t
<1> DEFINE r == Tail(q)
           n == Len(q)
<1>1. /\ n \in Nat \ {0} /\ DOMAIN q = 1..n /\ r \in Seq(Posted) /\ Len(r) = n - 1
      /\ DOMAIN r = 1..(n - 1) /\ \A i \in 1..(n - 1) : r[i] = q[i + 1]
      /\ Head(q) = q[1] /\ 1 \in DOMAIN q /\ q[1] \in Posted
  OBVIOUS
<1> HIDE DEF r, n
<1>2. \A i \in DOMAIN q : i = 1 \/ (i - 1 \in DOMAIN r /\ r[i - 1] = q[i])
  <2>1. \A i \in 1..n : i = 1 \/ (i - 1 \in 1..(n - 1) /\ (i - 1) + 1 = i)
    BY <1>1
  <2> QED BY <1>1, <2>1
<1>3. \A i \in DOMAIN r : i + 1 \in DOMAIN q /\ r[i] = q[i + 1]
  BY <1>1
<1>4. ASSUME NEW t, NEW u, LastIs(q, t, u) PROVE LastIs(r, t, u)
  <2> SUFFICES ASSUME NEW i \in DOMAIN r, r[i].tab = t,
                      \A j \in DOMAIN r : j > i => r[j].tab # t
               PROVE  r[i].update = u
    BY DEF LastIs
  <2>1. i + 1 \in DOMAIN q /\ r[i] = q[i + 1]
    BY <1>3
  <2>2. \A j \in DOMAIN q : j > i + 1 => q[j].tab # t
    <3> SUFFICES ASSUME NEW j \in DOMAIN q, j > i + 1 PROVE q[j].tab # t
      OBVIOUS
    <3>1. i \in Nat /\ j \in Nat /\ j # 1 /\ j - 1 > i
      BY <1>1
    <3> QED BY <1>2, <3>1
  <2> QED BY <1>4, <2>1, <2>2 DEF LastIs
<1>5. ASSUME NEW t, NEW u, LastIs(q, t, u), \A i \in DOMAIN r : r[i].tab # t, q[1].tab = t
      PROVE  q[1].update = u
  <2>1. \A j \in DOMAIN q : j > 1 => q[j].tab # t
    BY <1>1, <1>2, <1>5
  <2> QED BY <1>1, <1>5, <2>1 DEF LastIs
<1>6. ASSUME NEW t, q[1].tab # t, \A i \in DOMAIN r : r[i].tab # t
      PROVE  \A i \in DOMAIN q : q[i].tab # t
  BY <1>2, <1>6
<1> QED BY <1>1, <1>3, <1>4, <1>5, <1>6 DEF r

LEMMA TakeKeeps ==
    ASSUME MonitorInv, NEW t \in Local, Take(t)
    PROVE  MonitorInv'
<1> DEFINE m == mon[t]
           n == [m EXCEPT !.held = m.updates, !.updates = <<>>]
<1>1. /\ m \in Monitor /\ mon \in [Local -> Monitor]
      /\ SamplerOK(m, MaxSamples[t]) /\ PipelineOK(m, queue, t)
      /\ queue \in Seq(Posted) /\ \A i \in DOMAIN queue : queue[i].tab \in opened
  BY DEF MonitorInv, MonitorsOK
<1>2. /\ mon' = [mon EXCEPT ![t] = n] /\ m.held = <<>> /\ m.updates # <<>>
      /\ UNCHANGED <<opened, open, active, monitors, queue, gui, shown>>
  BY DEF Take
<1>3. t \in opened
  BY <1>2 DEF MonitorInv, MonitorsOK, NewMonitor
<1>4. n \in Monitor
  <2>1. m.updates \in Seq(Update) /\ <<>> \in Seq(Update)
    BY <1>1 DEF Monitor
  <2> QED BY <1>1, <2>1 DEF Monitor
<1>5. /\ n.pc = m.pc /\ n.samples = m.samples /\ n.rev = m.rev /\ n.phase = m.phase
      /\ n.updates = <<>> /\ n.held = m.updates /\ n.msg = m.msg /\ Current(n) = Current(m)
  BY <1>1 DEF Monitor, Current
<1>6. SamplerOK(n, MaxSamples[t]) /\ PipelineOK(n, queue, t)
  BY <1>1, <1>2, <1>5 DEF SamplerOK, PipelineOK
<1>7. mon' \in [Local -> Monitor] /\ mon'[t] = n /\ \A s \in Local \ {t} : mon'[s] = mon[s]
  BY <1>1, <1>2, <1>4
<1> HIDE DEF n
<1>8. \A s \in Local \ {t} : PipelineOK(mon[s], queue', s) /\ (Settled(s)' => Settled(s))
  BY <1>2, <1>7 DEF MonitorInv, MonitorsOK, Settled
<1>9. ~Settled(t)' /\ (Alive(t)' => Alive(t))
  BY <1>2, <1>5, <1>7 DEF Settled, Alive
<1> QED BY <1>1, <1>2, <1>3, <1>6, <1>7, <1>8, <1>9, BackgroundKeeps

LEMMA PostKeeps ==
    ASSUME MonitorInv, NEW t \in Local, Post(t)
    PROVE  MonitorInv'
<1> DEFINE m == mon[t]
           n == [m EXCEPT !.held = <<>>]
           item == [tab |-> t, update |-> Head(m.held)]
<1>1. /\ m \in Monitor /\ mon \in [Local -> Monitor]
      /\ SamplerOK(m, MaxSamples[t]) /\ PipelineOK(m, queue, t)
      /\ queue \in Seq(Posted) /\ \A i \in DOMAIN queue : queue[i].tab \in opened
  BY DEF MonitorInv, MonitorsOK
<1>2. /\ mon' = [mon EXCEPT ![t] = n] /\ m.held # <<>> /\ queue' = Append(queue, item)
      /\ UNCHANGED <<opened, open, active, monitors, gui, shown>>
  BY DEF Post
<1>3. t \in opened
  BY <1>2 DEF MonitorInv, MonitorsOK, NewMonitor
<1>4. n \in Monitor /\ Head(m.held) \in Update
  <2>1. m.held \in Seq(Update) /\ <<>> \in Seq(Update)
    BY <1>1 DEF Monitor
  <2>2. n \in Monitor
    BY <1>1, <2>1 DEF Monitor
  <2>3. Head(m.held) \in Update
    BY <1>2, <2>1
  <2> QED BY <2>2, <2>3
<1>5. /\ n.pc = m.pc /\ n.samples = m.samples /\ n.rev = m.rev /\ n.phase = m.phase
      /\ n.updates = m.updates /\ n.held = <<>> /\ n.msg = m.msg /\ Current(n) = Current(m)
  BY <1>1 DEF Monitor, Current
<1>6. item \in Posted /\ item.tab = t /\ item.update = Head(m.held)
  BY <1>4 DEF Posted
<1> HIDE DEF item
<1>7. /\ queue' \in Seq(Posted)
      /\ \E i \in DOMAIN queue' : queue'[i].tab = t
      /\ \A i \in DOMAIN queue' : queue'[i].tab \in opened
      /\ LastIs(queue', t, Head(m.held))
      /\ \A s, u : s # t /\ LastIs(queue, s, u) => LastIs(queue', s, u)
      /\ \A s : (\A i \in DOMAIN queue' : queue'[i].tab # s) =>
            \A i \in DOMAIN queue : queue[i].tab # s
  <2>1. queue' = Append(queue, item) /\ queue \in Seq(Posted)
    BY <1>1, <1>2 DEF item
  <2>2. /\ queue' \in Seq(Posted)
        /\ \A i \in DOMAIN queue' : queue'[i] = item \/ \E j \in DOMAIN queue : queue'[i] = queue[j]
        /\ \E i \in DOMAIN queue' : queue'[i].tab = item.tab
        /\ LastIs(queue', item.tab, item.update)
        /\ \A s, u : s # item.tab /\ LastIs(queue, s, u) => LastIs(queue', s, u)
        /\ \A s : (\A i \in DOMAIN queue' : queue'[i].tab # s) =>
              \A i \in DOMAIN queue : queue[i].tab # s
    <3> DEFINE q2 == Append(queue, item)
    <3>2. queue' = q2
      BY <2>1
    <3>3. /\ q2 \in Seq(Posted)
          /\ \A i \in DOMAIN q2 : q2[i] = item \/ \E j \in DOMAIN queue : q2[i] = queue[j]
          /\ \E i \in DOMAIN q2 : q2[i].tab = item.tab
          /\ LastIs(q2, item.tab, item.update)
          /\ \A s, u : s # item.tab /\ LastIs(queue, s, u) => LastIs(q2, s, u)
          /\ \A s : (\A i \in DOMAIN q2 : q2[i].tab # s) =>
                \A i \in DOMAIN queue : queue[i].tab # s
      BY ONLY <1>6, <2>1, LastAppended, Zenon
    <3> HIDE DEF q2
    <3> QED BY ONLY <3>2, <3>3, Zenon
  <2>3. \A i \in DOMAIN queue' : queue'[i].tab \in opened
    BY <1>1, <1>3, <1>6, <2>2
  <2> QED BY <1>6, <2>2, <2>3
<1>8. SamplerOK(n, MaxSamples[t]) /\ PipelineOK(n, queue', t)
  <2>1. m.held = <<Current(m)>> => Head(m.held) = Current(m)
    OBVIOUS
  <2> HIDE DEF n
  <2> QED BY <1>1, <1>2, <1>5, <1>7, <2>1 DEF SamplerOK, PipelineOK
<1>9. mon' \in [Local -> Monitor] /\ mon'[t] = n /\ \A s \in Local \ {t} : mon'[s] = mon[s]
  BY <1>1, <1>2, <1>4
<1> HIDE DEF n
<1>10. \A s \in Local \ {t} : PipelineOK(mon[s], queue', s) /\ (Settled(s)' => Settled(s))
  BY <1>7, <1>9 DEF MonitorInv, MonitorsOK, Settled, PipelineOK
<1>11. ~Settled(t)' /\ (Alive(t)' => Alive(t))
  BY <1>5, <1>7, <1>9 DEF Settled, Alive
<1> QED BY <1>1, <1>2, <1>3, <1>7, <1>8, <1>9, <1>10, <1>11, BackgroundKeeps

-----------------------------------------------------------------------------
\* The GUI thread.

\* Nothing is claimed about the sidebar in the middle of a handler.
LEMMA InHandler ==
    ASSUME gui'.op \notin {"idle", "read"}, MonitorsOK', TabsAndGuiOK', RegisteredOK'
    PROVE  MonitorInv'
BY DEF MonitorInv, ReadOK, SidebarIsActiveTab, LatestShown

LEMMA GuiOf ==
    ASSUME NEW op \in GuiOps
    PROVE  /\ Gui(op) \in [op : GuiOps, tab : Tabs \cup {NoTab}, rev : Nat] /\ Gui(op).op = op
           /\ \A t \in Tabs :
                 /\ [Gui(op) EXCEPT !.tab = t] \in [op : GuiOps, tab : Tabs \cup {NoTab}, rev : Nat]
                 /\ [Gui(op) EXCEPT !.tab = t].op = op /\ [Gui(op) EXCEPT !.tab = t].tab = t
BY DEF Gui

LEMMA OpenKeeps ==
    ASSUME MonitorInv, NEW t \in Tabs, OpenTab(t)
    PROVE  MonitorInv'
<1>1. /\ gui.op = "idle" /\ t \notin opened /\ t # NoTab
      /\ opened' = opened \cup {t} /\ open' = open \cup {t} /\ active' = t
      /\ monitors' = monitors \cup ({t} \cap Local) /\ gui' = Gui("show")
      /\ queue' = queue /\ shown' = shown
      /\ mon' = IF t \in Local
                THEN [mon EXCEPT ![t].pc = "start", ![t].phase = "running"] ELSE mon
  BY MonitorAssumption DEF OpenTab
<1>2. MonitorsOK /\ TabsAndGuiOK /\ RegisteredOK /\ Local \subseteq Tabs
  BY MonitorAssumption DEF MonitorInv
<1>3. "show" \in GuiOps
  BY DEF GuiOps
<1>4. TabsAndGuiOK'
  BY <1>1, <1>2, <1>3, GuiOf DEF TabsAndGuiOK
<1>5. /\ monitors' = open' \cap Local
      /\ \A s \in Local : Alive(s) => s \in monitors
  <2>1. gui.op # "quit" /\ \A s \in Local : gui # [Gui("stop") EXCEPT !.tab = s]
    BY <1>1 DEF Gui
  <2> QED BY <1>1, <1>2, <2>1 DEF RegisteredOK
<1>6. CASE t \in Local
  <2> DEFINE m == mon[t]
             n == [m EXCEPT !.pc = "start", !.phase = "running"]
  <2>1. m = NewMonitor /\ m \in Monitor /\ mon \in [Local -> Monitor]
    BY <1>1, <1>2, <1>6 DEF MonitorsOK
  <2>2. mon' = [mon EXCEPT ![t] = n]
    BY <1>1, <1>6
  <2>3. n \in Monitor
    BY <2>1 DEF Monitor, Steps, Phases
  <2>4. /\ n.pc = "start" /\ n.samples = 0 /\ n.rev = 0 /\ n.updates = <<>> /\ n.held = <<>>
    BY <2>1 DEF NewMonitor
  <2> HIDE DEF n
  <2>5. mon' \in [Local -> Monitor] /\ mon'[t] = n /\ \A s \in Local \ {t} : mon'[s] = mon[s]
    BY <1>6, <2>1, <2>2, <2>3
  <2>6. SamplerOK(n, MaxSamples[t])
    BY <2>4, <1>6, MonitorAssumption DEF SamplerOK
  <2>7. PipelineOK(n, queue', t)
    BY <1>1, <1>2, <2>4 DEF PipelineOK, Publishing, LastIs, MonitorsOK
  <2>8. \A s \in Local : SamplerOK(mon'[s], MaxSamples[s]) /\ PipelineOK(mon'[s], queue', s)
    BY <1>1, <1>2, <2>5, <2>6, <2>7 DEF MonitorsOK
  <2>9. MonitorsOK'
    BY <1>1, <1>2, <2>5, <2>8 DEF MonitorsOK
  <2>10. RegisteredOK'
    BY <1>1, <1>5, <1>6, <2>5 DEF RegisteredOK, Alive
  <2> QED BY <1>1, <1>3, <1>4, <2>9, <2>10, GuiOf, InHandler
<1>7. CASE t \notin Local
  <2>1. MonitorsOK'
    BY <1>1, <1>2, <1>7 DEF MonitorsOK
  <2>2. RegisteredOK'
    BY <1>1, <1>5, <1>7 DEF RegisteredOK, Alive
  <2> QED BY <1>1, <1>3, <1>4, <2>1, <2>2, GuiOf, InHandler
<1> QED BY <1>6, <1>7

\* Handlers that render the active tab and leave the monitors alone.
LEMMA RenderKeeps ==
    ASSUME MonitorInv, SelectTab(active') \/ Refresh \/ StopReturns
    PROVE  MonitorInv'
<1>1. /\ gui' = Gui("show") /\ gui.op \in {"idle", "stop"}
      /\ UNCHANGED <<opened, open, monitors, mon, queue, shown>>
      /\ active' = active \/ active' \in open
  BY DEF SelectTab, Refresh, StopReturns
<1>2. MonitorsOK /\ TabsAndGuiOK /\ RegisteredOK
  BY DEF MonitorInv
<1>3. "show" \in GuiOps
  BY DEF GuiOps
<1>4. MonitorsOK'
  BY <1>1, <1>2 DEF MonitorsOK
<1>5. TabsAndGuiOK'
  <2>1. (open # {} /\ active' # NoTab) \/ active' = active
    BY <1>1, <1>2, MonitorAssumption DEF TabsAndGuiOK
  <2> QED BY <1>1, <1>2, <1>3, <2>1, GuiOf DEF TabsAndGuiOK
<1>6. \A s \in Local : Alive(s) => s \in monitors
  <2>1. CASE gui.op = "idle"
    <3>1. \A s \in Local : gui # [Gui("stop") EXCEPT !.tab = s]
      BY <2>1 DEF Gui
    <3> QED BY <1>2, <2>1, <3>1 DEF RegisteredOK
  <2>2. CASE gui.op = "stop"
    <3>1. mon[gui.tab].pc = "done"
      BY <2>2 DEF SelectTab, Refresh, StopReturns
    <3>2. \A s \in Local : gui = [Gui("stop") EXCEPT !.tab = s] => gui.tab = s
      BY DEF Gui
    <3> QED BY <1>2, <2>2, <3>1, <3>2 DEF RegisteredOK, Alive
  <2> QED BY <1>1, <2>1, <2>2
<1>7. RegisteredOK'
  BY <1>1, <1>2, <1>6 DEF RegisteredOK, Alive
<1> QED BY <1>1, <1>3, <1>4, <1>5, <1>7, GuiOf, InHandler

\* Cancelling changes nothing else of a monitor.
LEMMA CancelKeeps ==
    ASSUME MonitorsOK, UNCHANGED <<opened, queue>>, mon' \in [Local -> Monitor],
           \A t \in Local : \E c \in BOOLEAN : mon'[t] = [mon[t] EXCEPT !.cancelled = c],
           \A t \in Local \ opened : mon'[t] = mon[t]
    PROVE  MonitorsOK' /\ \A t \in Local : Alive(t)' = Alive(t)
<1>1. \A t \in Local :
          /\ mon'[t].pc = mon[t].pc /\ mon'[t].samples = mon[t].samples
          /\ mon'[t].rev = mon[t].rev /\ mon'[t].phase = mon[t].phase
          /\ mon'[t].msg = mon[t].msg /\ mon'[t].updates = mon[t].updates
          /\ mon'[t].held = mon[t].held
  BY DEF MonitorsOK, Monitor
<1>2. \A t \in Local : SamplerOK(mon'[t], MaxSamples[t]) /\ PipelineOK(mon'[t], queue, t)
  <2> SUFFICES ASSUME NEW t \in Local
               PROVE  SamplerOK(mon'[t], MaxSamples[t]) /\ PipelineOK(mon'[t], queue, t)
    OBVIOUS
  <2>1. Current(mon'[t]) = Current(mon[t])
    BY <1>1 DEF Current
  <2>2. SamplerOK(mon[t], MaxSamples[t]) /\ PipelineOK(mon[t], queue, t)
    BY DEF MonitorsOK
  <2> QED BY <1>1, <2>1, <2>2 DEF SamplerOK, PipelineOK
<1> QED BY <1>1, <1>2 DEF MonitorsOK, Alive

LEMMA CloseKeeps ==
    ASSUME MonitorInv, NEW t \in Tabs, CloseTab(t)
    PROVE  MonitorInv'
<1>1. /\ gui.op = "idle" /\ t \in open /\ open' = open \ {t} /\ monitors' = monitors \ {t}
      /\ active' \in IF t # active THEN {active}
                     ELSE IF open = {t} THEN {NoTab} ELSE open \ {t}
      /\ UNCHANGED <<opened, queue, shown>>
  BY DEF CloseTab
<1>2. /\ MonitorsOK /\ TabsAndGuiOK /\ monitors = open \cap Local
      /\ \A s \in Local : Alive(s) => s \in monitors
  <2>1. \A s \in Local : gui # [Gui("stop") EXCEPT !.tab = s]
    BY <1>1 DEF Gui
  <2> QED BY <1>1, <2>1 DEF MonitorInv, RegisteredOK
<1>3. {"show", "stop"} \subseteq GuiOps
  BY DEF GuiOps
<1>4. active' \in open' \cup {NoTab} /\ (active' = NoTab <=> open' = {})
  BY <1>1, <1>2, MonitorAssumption DEF TabsAndGuiOK
<1>5. CASE t \in monitors
  <2>1. mon' = [mon EXCEPT ![t].cancelled = TRUE] /\ gui' = [Gui("stop") EXCEPT !.tab = t]
    BY <1>5 DEF CloseTab
  <2>2. mon \in [Local -> Monitor] /\ t \in Local /\ t \in opened
    BY <1>1, <1>2, <1>5 DEF MonitorsOK, TabsAndGuiOK
  <2>3. mon' \in [Local -> Monitor]
    BY <2>1, <2>2 DEF Monitor
  <2>4. \A s \in Local : mon'[s] = [mon[s] EXCEPT !.cancelled = IF s = t THEN TRUE ELSE @]
    BY <2>1, <2>2 DEF Monitor
  <2>5. \A s \in Local : (IF s = t THEN TRUE ELSE mon[s].cancelled) \in BOOLEAN
    BY <2>2 DEF Monitor
  <2>6. \A s \in Local \ opened : mon'[s] = mon[s]
    BY <2>1, <2>2
  <2>7. MonitorsOK' /\ \A s \in Local : Alive(s)' = Alive(s)
    BY <1>1, <1>2, <2>3, <2>4, <2>5, <2>6, CancelKeeps
  <2>8. TabsAndGuiOK'
    BY <1>1, <1>2, <1>3, <1>4, <2>1, GuiOf DEF TabsAndGuiOK
  <2>9. RegisteredOK'
    BY <1>1, <1>2, <2>1, <2>7 DEF RegisteredOK
  <2> QED BY <1>3, <2>1, <2>7, <2>8, <2>9, GuiOf, InHandler
<1>6. CASE t \notin monitors
  <2>1. gui' = Gui("show") /\ mon' = mon
    BY <1>6 DEF CloseTab
  <2>2. MonitorsOK'
    BY <1>1, <1>2, <2>1 DEF MonitorsOK
  <2>3. TabsAndGuiOK'
    BY <1>1, <1>2, <1>3, <1>4, <2>1, GuiOf DEF TabsAndGuiOK
  <2>4. RegisteredOK'
    BY <1>1, <1>2, <1>6, <2>1 DEF RegisteredOK, Alive
  <2> QED BY <1>3, <2>1, <2>2, <2>3, <2>4, GuiOf, InHandler
<1> QED BY <1>5, <1>6

LEMMA QuitKeeps ==
    ASSUME MonitorInv, Quit
    PROVE  MonitorInv'
<1>1. /\ mon' = [t \in Local |-> [mon[t] EXCEPT !.cancelled = @ \/ t \in monitors]]
      /\ monitors' = {} /\ gui' = Gui("quit") /\ gui.op = "idle"
      /\ UNCHANGED <<opened, open, active, queue, shown>>
  BY DEF Quit
<1>2. MonitorsOK /\ TabsAndGuiOK /\ monitors = open \cap Local
  BY <1>1 DEF MonitorInv, RegisteredOK
<1>3. \A t \in Local : mon'[t] = [mon[t] EXCEPT !.cancelled = (mon[t].cancelled \/ t \in monitors)]
                       /\ (mon[t].cancelled \/ t \in monitors) \in BOOLEAN
  BY <1>1
<1>4. mon' \in [Local -> Monitor]
  BY <1>1, <1>2 DEF MonitorsOK, Monitor
<1>5. \A t \in Local \ opened : mon'[t] = mon[t]
  <2>1. \A t \in Local \ opened : t \notin monitors /\ mon[t] = NewMonitor
    BY <1>2 DEF MonitorsOK, TabsAndGuiOK
  <2>2. [NewMonitor EXCEPT !.cancelled = FALSE] = NewMonitor
    <3>1. NewMonitor \in Monitor /\ NewMonitor.cancelled = FALSE
      BY DEF NewMonitor, Monitor, Steps, Phases, NoUpdate, Update
    <3>2. ASSUME NEW m \in Monitor, m.cancelled = FALSE
          PROVE  [m EXCEPT !.cancelled = FALSE] = m
      BY <3>2 DEF Monitor
    <3> QED BY <3>1, <3>2
  <2>3. NewMonitor.cancelled = FALSE
    BY DEF NewMonitor
  <2> QED BY <1>3, <2>1, <2>2, <2>3
<1>6. MonitorsOK'
  BY <1>1, <1>2, <1>3, <1>4, <1>5, CancelKeeps
<1>7. "quit" \in GuiOps
  BY DEF GuiOps
<1>8. TabsAndGuiOK' /\ RegisteredOK'
  BY <1>1, <1>2, <1>7, GuiOf DEF TabsAndGuiOK, RegisteredOK
<1> QED BY <1>1, <1>6, <1>7, <1>8, GuiOf, InHandler

\* While a tab is rendered its sampler goes on.
LEMMA ReadingKeeps ==
    ASSUME MonitorInv, ReadSnapshot \/ ReadState
    PROVE  MonitorInv'
<1>1. /\ gui.op \in {"show", "read"} /\ UNCHANGED <<opened, open, active, monitors, mon, queue>>
      /\ MonitorsOK /\ TabsAndGuiOK /\ RegisteredOK
  BY DEF MonitorInv, ReadSnapshot, ReadState
<1>2. MonitorsOK'
  BY <1>1 DEF MonitorsOK
<1>3. /\ monitors = open \cap Local
      /\ \A s \in Local : Alive(s) => s \in monitors
  <2>1. \A s \in Local : gui # [Gui("stop") EXCEPT !.tab = s]
    BY <1>1 DEF Gui
  <2> QED BY <1>1, <2>1 DEF RegisteredOK
<1>4. RegisteredOK'
  BY <1>1, <1>3 DEF RegisteredOK, Alive
<1>5. {"idle", "read"} \subseteq GuiOps
  BY DEF GuiOps
<1>6. CASE ReadSnapshot /\ active \in monitors /\ mon[active].rev > 0
  <2>1. gui' = [Gui("read") EXCEPT !.rev = mon[active].rev] /\ shown' = shown
    BY <1>6 DEF ReadSnapshot
  <2>2. mon[active].rev \in Nat /\ active \in Local
    BY <1>1, <1>6 DEF MonitorsOK, TabsAndGuiOK, Monitor
  <2>3. /\ gui' \in [op : GuiOps, tab : Tabs \cup {NoTab}, rev : Nat]
        /\ gui'.op = "read" /\ gui'.rev = mon[active].rev
    BY <1>5, <2>1, <2>2 DEF Gui
  <2>4. TabsAndGuiOK'
    BY <1>1, <2>1, <2>3 DEF TabsAndGuiOK
  <2>5. ReadOK' /\ SidebarIsActiveTab' /\ LatestShown'
    BY <1>1, <1>6, <2>3 DEF ReadOK, SidebarIsActiveTab, LatestShown
  <2> QED BY <1>2, <1>4, <2>4, <2>5 DEF MonitorInv
<1>7. CASE ReadSnapshot /\ ~(active \in monitors /\ mon[active].rev > 0)
  <2>1. PICK status \in Statuses : shown' = Blank(active, status) /\ gui' = Gui("idle")
    <3>1. \A a, b : {"none", "pending", "starting"} \subseteq Statuses
      BY DEF Statuses
    <3> QED BY <1>7, <3>1 DEF ReadSnapshot
  <2>2. /\ shown'.title = active /\ shown'.from = NoTab
        /\ shown' \in [title : Tabs \cup {NoTab}, from : Local \cup {NoTab},
                       rev : Nat, status : Statuses]
    BY <1>1, <2>1 DEF Blank, TabsAndGuiOK
  <2>3. TabsAndGuiOK'
    BY <1>1, <1>5, <2>1, <2>2, GuiOf DEF TabsAndGuiOK
  <2>4. gui'.op = "idle"
    BY <2>1 DEF Gui
  <2>5. ReadOK' /\ SidebarIsActiveTab' /\ LatestShown'
    BY <1>1, <1>7, <2>2, <2>4 DEF ReadOK, SidebarIsActiveTab, LatestShown
  <2> QED BY <1>2, <1>4, <2>3, <2>5 DEF MonitorInv
<1>8. CASE ReadState
  <2>1. /\ shown' = [title |-> active, from |-> active, rev |-> gui.rev,
                     status |-> Status(mon[active].phase)]
        /\ gui' = Gui("idle") /\ gui.op = "read"
    BY <1>8 DEF ReadState
  <2>2. active \in monitors /\ active \in Local /\ (Settled(active) => gui.rev = mon[active].rev)
    BY <1>1, <2>1 DEF MonitorInv, ReadOK, TabsAndGuiOK
  <2>3. /\ shown'.title = active /\ shown'.from = active /\ shown'.rev = gui.rev
        /\ shown'.status = Status(mon[active].phase)
        /\ shown' \in [title : Tabs \cup {NoTab}, from : Local \cup {NoTab},
                       rev : Nat, status : Statuses]
    BY <1>1, <2>1, <2>2 DEF TabsAndGuiOK, Status, Statuses
  <2>4. TabsAndGuiOK'
    BY <1>1, <1>5, <2>1, <2>3, GuiOf DEF TabsAndGuiOK
  <2>5. gui'.op = "idle"
    BY <2>1 DEF Gui
  <2>6. Settled(active)' => Settled(active)
    BY <1>1 DEF Settled
  <2>7. ReadOK' /\ SidebarIsActiveTab' /\ LatestShown'
    BY <1>1, <2>2, <2>3, <2>5, <2>6 DEF ReadOK, SidebarIsActiveTab, LatestShown
  <2> QED BY <1>2, <1>4, <2>4, <2>7 DEF MonitorInv
<1> QED BY <1>6, <1>7, <1>8

LEMMA ApplyKeeps ==
    ASSUME MonitorInv, ApplyUpdate
    PROVE  MonitorInv'
<1> DEFINE item == Head(queue)
<1>1. /\ gui.op = "idle" /\ queue # <<>> /\ queue' = Tail(queue)
      /\ shown' = IF item.tab \in monitors /\ active = item.tab
                  THEN [shown EXCEPT !.from = item.tab, !.rev = item.update.rev,
                                     !.status = Status(item.update.phase)]
                  ELSE shown
      /\ UNCHANGED <<opened, open, active, monitors, mon, gui>>
  BY DEF ApplyUpdate
<1>2. MonitorsOK /\ TabsAndGuiOK /\ RegisteredOK /\ queue \in Seq(Posted)
  BY DEF MonitorInv, MonitorsOK
<1>3. /\ item \in Posted /\ queue' \in Seq(Posted) /\ 1 \in DOMAIN queue /\ item = queue[1]
      /\ \A i \in DOMAIN queue' : i + 1 \in DOMAIN queue /\ queue'[i] = queue[i + 1]
      /\ \A t, u : LastIs(queue, t, u) => LastIs(queue', t, u)
      /\ \A t, u : LastIs(queue, t, u) /\ (\A i \in DOMAIN queue' : queue'[i].tab # t) =>
            (item.tab = t => item.update = u)
      /\ \A t : item.tab # t /\ (\A i \in DOMAIN queue' : queue'[i].tab # t) =>
            \A i \in DOMAIN queue : queue[i].tab # t
  BY <1>1, <1>2, LastTail
<1> HIDE DEF item
<1>4. MonitorsOK'
  <2>1. \A i \in DOMAIN queue' : queue'[i].tab \in opened
    BY <1>2, <1>3 DEF MonitorsOK
  <2>2. \A t \in Local : PipelineOK(mon[t], queue', t)
    BY <1>2, <1>3 DEF MonitorsOK, PipelineOK
  <2> QED BY <1>1, <1>2, <1>3, <2>1, <2>2 DEF MonitorsOK
<1>5. RegisteredOK'
  BY <1>1, <1>2 DEF RegisteredOK, Alive
<1>6. CASE item.tab \in monitors /\ active = item.tab
  <2>1. item.update \in Update /\ item.tab \in Local
    BY <1>3 DEF Posted
  <2>2. /\ shown' \in [title : Tabs \cup {NoTab}, from : Local \cup {NoTab},
                       rev : Nat, status : Statuses]
        /\ shown'.title = shown.title /\ shown'.from = active
        /\ shown'.rev = item.update.rev /\ shown'.status = Status(item.update.phase)
    BY <1>1, <1>2, <1>6, <2>1 DEF TabsAndGuiOK, Status, Statuses, Update
  <2>3. TabsAndGuiOK'
    BY <1>1, <1>2, <2>2 DEF TabsAndGuiOK
  <2>4. SidebarIsActiveTab' /\ ReadOK'
    BY <1>1, <2>2 DEF MonitorInv, SidebarIsActiveTab, ReadOK
  <2>5. ASSUME Settled(active)' PROVE item.update = Current(mon[active])
    <3>1. /\ mon[active].pc \in {"start", "sampling", "select"}
          /\ mon[active].updates = <<>> /\ mon[active].held = <<>>
          /\ \A i \in DOMAIN queue' : queue'[i].tab # active
      BY <1>1, <2>5 DEF Settled
    <3>2. LastIs(queue, active, Current(mon[active]))
      BY <1>2, <1>6, <2>1, <3>1 DEF MonitorsOK, PipelineOK, Publishing
    <3> QED BY <1>3, <1>6, <3>1, <3>2
  <2>6. LatestShown'
    BY <1>1, <2>2, <2>5 DEF LatestShown, Current
  <2> QED BY <1>4, <1>5, <2>3, <2>4, <2>6 DEF MonitorInv
<1>7. CASE ~(item.tab \in monitors /\ active = item.tab)
  <2>1. shown' = shown
    BY <1>1, <1>7
  <2>2. TabsAndGuiOK' /\ SidebarIsActiveTab' /\ ReadOK'
    BY <1>1, <1>2, <2>1 DEF TabsAndGuiOK, MonitorInv, SidebarIsActiveTab, ReadOK
  <2>3. active \in monitors /\ Settled(active)' => Settled(active)
    BY <1>1, <1>3, <1>7 DEF Settled
  <2>4. LatestShown'
    BY <1>1, <2>1, <2>3 DEF MonitorInv, LatestShown
  <2> QED BY <1>4, <1>5, <2>2, <2>4 DEF MonitorInv
<1> QED BY <1>6, <1>7

-----------------------------------------------------------------------------
LEMMA MonitorStart == Init => MonitorInv
<1> SUFFICES ASSUME Init PROVE MonitorInv
  OBVIOUS
<1>1. NewMonitor \in Monitor /\ NewMonitor.pc = "new" /\ NewMonitor.updates = <<>>
      /\ NewMonitor.held = <<>> /\ NewMonitor.rev = 0 /\ NewMonitor.samples = 0
  BY DEF NewMonitor, Monitor, Steps, Phases, NoUpdate, Update
<1>2. \A t \in Local : SamplerOK(mon[t], MaxSamples[t]) /\ PipelineOK(mon[t], queue, t)
  BY <1>1, MonitorAssumption DEF Init, SamplerOK, PipelineOK, Publishing, LastIs
<1>3. MonitorsOK
  BY <1>1, <1>2 DEF Init, MonitorsOK
<1>4. gui \in [op : GuiOps, tab : Tabs \cup {NoTab}, rev : Nat] /\ gui.op = "idle"
  BY DEF Init, Gui, GuiOps
<1>5. /\ shown \in [title : Tabs \cup {NoTab}, from : Local \cup {NoTab},
                    rev : Nat, status : Statuses]
      /\ shown.title = NoTab /\ shown.from = NoTab
  BY DEF Init, Blank, Statuses
<1>6. TabsAndGuiOK
  BY <1>4, <1>5 DEF Init, TabsAndGuiOK
<1>7. RegisteredOK
  BY <1>1 DEF Init, RegisteredOK, Alive
<1>8. ReadOK /\ SidebarIsActiveTab /\ LatestShown
  BY <1>4, <1>5 DEF Init, ReadOK, SidebarIsActiveTab, LatestShown
<1> QED BY <1>3, <1>6, <1>7, <1>8 DEF MonitorInv

LEMMA MonitorInductive == MonitorInv /\ [Next]_vars => MonitorInv'
<1> SUFFICES ASSUME MonitorInv, [Next]_vars PROVE MonitorInv'
  OBVIOUS
<1>1. CASE \E t \in Tabs : OpenTab(t)
  BY <1>1, OpenKeeps
<1>2. CASE (\E t \in Tabs : SelectTab(t)) \/ Refresh \/ StopReturns
  <2>1. SelectTab(active') \/ Refresh \/ StopReturns
    BY <1>2 DEF SelectTab
  <2> QED BY <2>1, RenderKeeps
<1>3. CASE \E t \in Tabs : CloseTab(t)
  BY <1>3, CloseKeeps
<1>4. CASE Quit
  BY <1>4, QuitKeeps
<1>5. CASE ReadSnapshot \/ ReadState
  BY <1>5, ReadingKeeps
<1>6. CASE ApplyUpdate
  BY <1>6, ApplyKeeps
<1>7. CASE \E t \in Local : Tick(t) \/ Sampling(t)
  BY <1>7, SamplerSteps
<1>8. CASE \E t \in Local : Forwarding(t)
  BY <1>8, TakeKeeps, PostKeeps DEF Forwarding
<1>9. CASE UNCHANGED vars
  BY <1>9 DEF vars, MonitorInv, MonitorsOK, TabsAndGuiOK, RegisteredOK, ReadOK,
     SidebarIsActiveTab, LatestShown, Alive, Settled
<1> QED
  BY <1>1, <1>2, <1>3, <1>4, <1>5, <1>6, <1>7, <1>8, <1>9 DEF Next, Handling

\* What is known of the monitors in every state.
THEOREM MonitorInvariance == Spec => []MonitorInv
BY MonitorStart, MonitorInductive, PTL DEF Spec

\* The variables of the monitors and the sidebar have their types.
THEOREM MonitorTypeCorrect == Spec => []TypeOK
<1>1. MonitorInv => TypeOK
  <2> SUFFICES ASSUME MonitorInv PROVE TypeOK
    OBVIOUS
  <2>1. queue \in Seq(Posted)
    BY DEF MonitorInv, MonitorsOK
  <2>2. \A i \in DOMAIN queue : queue[i] \in [tab : Local, update : Update]
    <3>1. \A i \in DOMAIN queue : queue[i] \in Posted
      BY ONLY <2>1
    <3> QED BY ONLY <3>1, Zenon DEF Posted
  <2>3. /\ mon \in [Local -> Monitor]
        /\ \A t \in Local : Len(mon[t].updates) <= 1 /\ Len(mon[t].held) <= 1
        /\ \A t \in Local : mon[t].rev <= mon[t].samples /\ mon[t].samples <= MaxSamples[t]
    BY DEF MonitorInv, MonitorsOK, SamplerOK
  <2>4. TabsAndGuiOK
    BY DEF MonitorInv
  <2> QED BY <2>2, <2>3, <2>4 DEF TabsAndGuiOK, TypeOK
<1> QED BY <1>1, MonitorInvariance, PTL

\* The sidebar never shows one tab's numbers under another's title (monitorIsCurrent and
\* the test of the active tab in the posted callback).
THEOREM SidebarStaysOwn == Spec => []SidebarIsActiveTab
<1>1. MonitorInv => SidebarIsActiveTab
  BY DEF MonitorInv
<1> QED BY <1>1, MonitorInvariance, PTL

\* Displaced updates, those dropped for background tabs and snapshots read ahead of the
\* queue lose nothing for good (publish, renderMonitorSidebar).
THEOREM LatestIsShown == Spec => []LatestShown
<1>1. MonitorInv => LatestShown
  BY DEF MonitorInv
<1> QED BY <1>1, MonitorInvariance, PTL

\* The monitors that run are those of the open local tabs (stopMonitorForSession).
THEOREM MonitorsStayInStep == Spec => []MonitorsAgree
<1>1. MonitorInv => MonitorsAgree
  <2> SUFFICES ASSUME MonitorInv, gui.op = "idle"
               PROVE  monitors = open \cap Local /\ \A t \in Local : Alive(t) => t \in monitors
    BY DEF MonitorsAgree
  <2>1. \A t \in Local : gui # [Gui("stop") EXCEPT !.tab = t]
    BY DEF Gui
  <2> QED BY <2>1 DEF MonitorInv, RegisteredOK
<1> QED BY <1>1, MonitorInvariance, PTL
=============================================================================
