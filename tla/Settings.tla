------------------------------- MODULE Settings -----------------------------
(***************************************************************************)
(* The configuration (config/config.go) and what writes it while the       *)
(* program runs: the settings window (guis/settings.go), the zoom keys     *)
(* (zoomTerminal in guis/guis.go), the preferences of the connection       *)
(* manager and the position of the split (here one value, pref).           *)
(*                                                                         *)
(* The file is replaced by AtomicWriteFile, which may fail before the      *)
(* replacement, or after it: the writer then restores its memory although  *)
(* the file is the new one.  Of the settings the language, the terminal's  *)
(* font size and StartWithFirstConnection are modelled; the others are     *)
(* saved and restored along with them and have no second writer.           *)
(***************************************************************************)
EXTENDS Integers

CONSTANTS Languages, Preferences, MinFont, MaxFont, DefaultFont

ASSUME SettingsAssumption ==
    /\ MinFont \in Nat \ {0} /\ MaxFont \in Nat
    /\ DefaultFont \in MinFont..MaxFont

VARIABLES
    cfg,        \* config.GlobalConfig
    file,       \* the configuration file
    locale,     \* locales.CurrentLanguage()
    font,       \* the size the terminal is shown in
    window,     \* the settings window: its baseline, its fields, the fields typed in
    report      \* what the last write reported

settings == <<cfg, file, locale, font, window, report>>

Fonts == MinFont..MaxFont
Draft == [lang : Languages, font : Nat, first : BOOLEAN]
NoWindow == [open |-> FALSE]

\* currentSettingsDraft.
DraftOf(c) == [lang |-> c.lang, font |-> c.font, first |-> c.first]
WithDraft(c, d) == [c EXCEPT !.lang = d.lang, !.font = d.font, !.first = d.first]

\* FileConfig.Normalize: a size that is missing or out of range is put right.
Normal(c) ==
    [c EXCEPT !.font = CASE @ = 0       -> DefaultFont
                         [] @ > MaxFont -> MaxFont
                         [] @ \in Fonts -> @
                         [] OTHER       -> MinFont]

\* The program has been started with a file that somebody may have edited.
SettingsInit ==
    /\ file \in [lang : Languages, font : 0..(MaxFont + 1), first : BOOLEAN, pref : Preferences]
    /\ cfg = Normal(file)
    /\ locale = cfg.lang
    /\ font = cfg.font
    /\ window = NoWindow
    /\ report = "none"

-----------------------------------------------------------------------------
\* Variant: a write that fails leaves the new configuration in memory.
PersistUnrestored(c) ==
    \/ file' = c /\ cfg' = c /\ report' = "saved"
    \/ file' \in {file, c} /\ cfg' = c /\ report' = "failed"

\* SaveConfig with the rollback that every writer makes when it fails.
Persist(c) ==
    \/ file' = c /\ cfg' = c /\ report' = "saved"
    \/ file' \in {file, c} /\ cfg' = cfg /\ report' = "failed"

OpenSettings ==
    /\ ~window.open
    /\ window' = [open |-> TRUE, initial |-> DraftOf(cfg), fields |-> DraftOf(cfg),
                  typed |-> {}, asked |-> FALSE]
    /\ UNCHANGED <<cfg, file, locale, font, report>>

\* The user changes a field; a font size may be anything, 0 stands for no number.
EditSettings(d) ==
    /\ window.open
    /\ \E f \in DOMAIN d : d[f] # window.fields[f] /\ \A g \in DOMAIN d \ {f} : d[g] = window.fields[g]
    /\ window' = [window EXCEPT !.fields = d,
                     !.typed = @ \cup {f \in DOMAIN d : d[f] # window.fields[f]}]
    /\ UNCHANGED <<cfg, file, locale, font, report>>

\* save: the fields are written if they are valid.  A change of language first asks an
\* open editor to close, which refuses when it has unsaved changes: then nothing
\* happens.
SaveSettings ==
    /\ window.open
    /\ IF window.fields.font \in Fonts
       THEN Persist(WithDraft(cfg, window.fields))
       ELSE report' = "failed" /\ UNCHANGED <<cfg, file>>
    /\ IF report' = "saved"
       THEN /\ window' = NoWindow
            /\ locale' = cfg'.lang
            /\ font' = cfg'.font
       ELSE UNCHANGED <<window, locale, font>>

\* shouldClose and the prompt it defers: a changed draft is not thrown away unasked.
Dirty(w) == w.fields # w.initial

RequestClose ==
    /\ window.open
    /\ window' = IF Dirty(window) THEN [window EXCEPT !.asked = TRUE] ELSE NoWindow
    /\ UNCHANGED <<cfg, file, locale, font, report>>

AnswerPrompt ==
    /\ window.open
    /\ window.asked
    /\ window' \in {NoWindow, [window EXCEPT !.asked = FALSE]}
    /\ UNCHANGED <<cfg, file, locale, font, report>>

-----------------------------------------------------------------------------
\* terminalZoomTarget.
ZoomTarget(direction) ==
    LET size == cfg.font + direction
    IN  CASE direction = 0  -> DefaultFont
          [] size < MinFont -> MinFont
          [] size > MaxFont -> MaxFont
          [] OTHER          -> size

\* Variant: the zoom does not tell the settings window.
ZoomedNothing(w, old, new) == w

\* The settings window follows a zoom, but not in a field the user has changed.
Zoomed(w, old, new) ==
    IF ~w.open THEN w
    ELSE [w EXCEPT !.initial.font = new,
                   !.fields.font = IF @ = old THEN new ELSE @]

\* zoomTerminal.
Zoom(direction) ==
    LET size == ZoomTarget(direction)
    IN  /\ size # cfg.font
        /\ Persist([cfg EXCEPT !.font = size])
        /\ IF report' = "saved"
           THEN font' = size /\ window' = Zoomed(window, cfg.font, size)
           ELSE UNCHANGED <<font, window>>
        /\ UNCHANGED locale

\* persistCloseAfterConnect, persistViewPreferences, workspacePositionChanged.
SetPreference(pref) ==
    /\ pref # cfg.pref
    /\ Persist([cfg EXCEPT !.pref = pref])
    /\ UNCHANGED <<locale, font, window>>

\* The program ends, or is killed, and is started again: LoadConfig.
RestartSettings ==
    /\ cfg' = Normal(file)
    /\ locale' = cfg'.lang
    /\ font' = cfg'.font
    /\ window' = NoWindow
    /\ report' = "none"
    /\ UNCHANGED file

\* Everything but SaveSettings and RestartSettings leaves the other windows alone.
SettingsStep ==
    \/ OpenSettings \/ RequestClose \/ AnswerPrompt
    \/ \E d \in [lang : Languages, font : 0..(MaxFont + 1), first : BOOLEAN] : EditSettings(d)
    \/ \E direction \in {-1, 0, 1} : Zoom(direction)
    \/ \E pref \in Preferences : SetPreference(pref)

\* The settings alone, without what a change of language does to the other windows.
SettingsNext == SettingsStep \/ SaveSettings \/ RestartSettings
SettingsSpec == SettingsInit /\ [][SettingsNext]_settings

-----------------------------------------------------------------------------
\* What runs is what is configured, and what a restart would load, unless the last
\* write was reported to have failed (persistSettingsDraft and zoomTerminal promise
\* that the two "cannot diverge"; after a failure behind the replacement they do).
SettingsInForce ==
    /\ locale = cfg.lang
    /\ font = cfg.font
    /\ report # "failed" => Normal(file) = cfg

\* The settings window never shows or saves an old value of a setting that has been
\* changed behind it: a field the user has not touched holds the setting in force, and
\* a window that may be closed without a question holds them all.
WindowCurrent ==
    window.open =>
        /\ \A f \in DOMAIN window.fields \ window.typed : window.fields[f] = DraftOf(cfg)[f]
        /\ ~Dirty(window) => window.fields = DraftOf(cfg)
=============================================================================
