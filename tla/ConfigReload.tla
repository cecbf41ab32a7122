---------------------------- MODULE ConfigReload ----------------------------
(***************************************************************************)
(* How a change of the config file or of the color sheet reaches the       *)
(* daemon: somebody edits a file and sends SIGHUP, the handler sets        *)
(* g_reloadRequested, and the check that runs every 500 ms reloads the     *)
(* config and then the theme.  Signals and edits arrive at any moment,     *)
(* also between the steps of a reload.                                     *)
(***************************************************************************)
EXTENDS ConfigValues

CONSTANTS
    Configs,        \* what a config file may say, or the defaults of the schema
    Defaults,       \* the values of the schema
    Sheets,         \* paths of color sheets
    DefaultSheet,   \* CTheme::defaultPath, None without a home directory
    Palettes,       \* what a sheet may say: a sequence of definitions
    AppNames        \* the apps rules are looked up for

ASSUME DefaultsAssumption == Defaults \in Configs
ASSUME SheetAssumption    == /\ None \notin Sheets
                             /\ DefaultSheet \in Sheets \cup {None}
                             /\ \A c \in Configs : c.colors_path \in Sheets \cup {""}
ASSUME RulesAssumption    == \A c \in Configs : c.rules \in Seq(Blocks)
ASSUME NoneAssumption     == None \notin Configs /\ None \notin Palettes

(* Where findConfig looks, the user's directory before the system's.        *)
Paths == {"user", "system"}

ASSUME PathsAssumption == None \notin Paths

VARIABLES
    files,      \* the config files
    sheets,     \* the color sheets
    flag,       \* g_reloadRequested
    stage,      \* what the check does next
    bound,      \* the path m_config was constructed with
    parsed,     \* the values m_config holds
    current,    \* CConfigManager::m_current
    colors,     \* CTheme::m_colors
    told        \* was a SIGHUP sent after the last edit?

vars == <<files, sheets, flag, stage, bound, parsed, current, colors, told>>

(* A theme that never read a sheet.                                         *)
NoColors == Colors(<<>>)

TypeOK ==
    /\ files \in [Paths -> Configs \cup {None}]
    /\ sheets \in [Sheets -> Palettes \cup {None}]
    /\ flag \in BOOLEAN
    /\ stage \in {"idle", "config", "theme"}
    /\ bound \in Paths \cup {None}
    /\ parsed \in Configs
    /\ current \in {CacheValues(c) : c \in Configs}
    /\ colors \in {NoColors} \cup {Colors(s) : s \in Palettes}
    /\ told \in BOOLEAN
-----------------------------------------------------------------------------
FindPath ==
    IF files["user"] # None THEN "user"
    ELSE IF files["system"] # None THEN "system" ELSE None

Found == IF FindPath = None THEN None ELSE files[FindPath]

(* The sheet a config selects, None if it cannot be read.                   *)
Sheet(config) ==
    LET path == IF config.colors_path = "" THEN DefaultSheet ELSE config.colors_path
    IN  IF path = None THEN None ELSE sheets[path]

(* A sheet that cannot be read leaves the colors alone.                     *)
ColorsAfter(sheet, old) == IF sheet = None THEN old ELSE Colors(sheet)

(* The constructor, and load and reload at the top of main.                 *)
Init ==
    /\ files \in [Paths -> Configs \cup {None}]
    /\ sheets \in [Sheets -> Palettes \cup {None}]
    /\ flag = FALSE
    /\ stage = "idle"
    /\ bound = FindPath
    /\ parsed = IF Found = None THEN Defaults ELSE Found
    /\ current = CacheValues(parsed)
    /\ colors = ColorsAfter(Sheet(current), NoColors)
    /\ told = FALSE
-----------------------------------------------------------------------------
EditConfig(p, c) ==
    /\ files' = [files EXCEPT ![p] = c]
    /\ told' = FALSE
    /\ UNCHANGED <<sheets, flag, stage, bound, parsed, current, colors>>

EditSheet(s, palette) ==
    /\ sheets' = [sheets EXCEPT ![s] = palette]
    /\ told' = FALSE
    /\ UNCHANGED <<files, flag, stage, bound, parsed, current, colors>>

(* onSignal(SIGHUP): several signals before the next check count as one.    *)
Sighup ==
    /\ flag' = TRUE
    /\ told' = TRUE
    /\ UNCHANGED <<files, sheets, stage, bound, parsed, current, colors>>

(* The check of the flag, every 500 ms: test and reset in one exchange.     *)
Check ==
    /\ stage = "idle" /\ flag
    /\ flag' = FALSE
    /\ stage' = "config"
    /\ UNCHANGED <<files, sheets, bound, parsed, current, colors, told>>

(* What hyprlang's parse leaves in m_config: it reads the path it was       *)
(* constructed with.  Without a file there it keeps or resets the values.   *)
Parsed ==
    IF bound # None /\ files[bound] # None THEN {files[bound]} ELSE {parsed, Defaults}

(* Seeded fault: load does not return early where there is no file.         *)
LoadFound ==
    /\ stage = "config"
    /\ stage' = "theme"
    /\ parsed' = Found
    /\ current' = CacheValues(IF Found = None THEN Defaults ELSE Found)
    /\ UNCHANGED <<files, sheets, flag, bound, colors, told>>

(* Seeded fault: the rules of the config before are not cleared.            *)
LoadConfigOnTop ==
    /\ stage = "config"
    /\ stage' = "theme"
    /\ parsed' \in IF FindPath = None THEN {parsed} ELSE Parsed
    /\ current' = [CacheValues(parsed') EXCEPT !.rules = current.rules \o @]
    /\ UNCHANGED <<files, sheets, flag, bound, colors, told>>

(* CConfigManager::load.  Where findConfig finds nothing it parses nothing  *)
(* and caches the values m_config has.                                      *)
LoadConfig ==
    /\ stage = "config"
    /\ stage' = "theme"
    /\ parsed' \in IF FindPath = None THEN {parsed} ELSE Parsed
    /\ current' = CacheValues(parsed')
    /\ UNCHANGED <<files, sheets, flag, bound, colors, told>>

(* Seeded fault: the flag is reset again when the reload is done.           *)
LoadThemeThenReset ==
    /\ stage = "theme"
    /\ stage' = "idle"
    /\ flag' = FALSE
    /\ colors' = ColorsAfter(Sheet(current), colors)
    /\ UNCHANGED <<files, sheets, bound, parsed, current, told>>

(* Seeded fault: names the sheet no longer defines keep their colors.       *)
LoadThemeOnTop ==
    /\ stage = "theme"
    /\ stage' = "idle"
    /\ colors' = [n \in DOMAIN colors \cup DOMAIN ColorsAfter(Sheet(current), colors) |->
                     Get(ColorsAfter(Sheet(current), colors), n, Get(colors, n, None))]
    /\ UNCHANGED <<files, sheets, flag, bound, parsed, current, told>>

(* CTheme::reload.                                                          *)
LoadTheme ==
    /\ stage = "theme"
    /\ stage' = "idle"
    /\ colors' = ColorsAfter(Sheet(current), colors)
    /\ UNCHANGED <<files, sheets, flag, bound, parsed, current, told>>
-----------------------------------------------------------------------------
Next ==
    \/ \E p \in Paths, c \in Configs \cup {None} : EditConfig(p, c)
    \/ \E s \in Sheets, palette \in Palettes \cup {None} : EditSheet(s, palette)
    \/ Sighup \/ Check \/ LoadConfig \/ LoadTheme

(* The check is armed anew each time it ran; a reload takes finite time.    *)
Fairness == WF_vars(Check) /\ WF_vars(LoadConfig) /\ WF_vars(LoadTheme)

Spec == Init /\ [][Next]_vars /\ Fairness
-----------------------------------------------------------------------------
(* The daemon uses what the files say.                                      *)
ConfigInEffect == Found # None /\ current = CacheValues(Found)
ThemeInEffect  == Sheet(current) # None => colors = Colors(Sheet(current))

(* A SIGHUP was sent after the last edit, and the config file is the one    *)
(* that was found at the start.                                             *)
Told == told /\ bound # None /\ FindPath = bound

(* A SIGHUP is never lost, wherever in a reload it arrives: what was edited *)
(* before it is either in effect or still ahead of the reload.              *)
NoSignalLost ==
    Told => \/ flag
            \/ stage = "config"
            \/ stage = "theme" /\ ConfigInEffect
            \/ ConfigInEffect /\ ThemeInEffect

(* So both files take effect in the end, unless somebody edits again.       *)
ReloadTakesEffect == Told ~> ((ConfigInEffect /\ ThemeInEffect) \/ ~told)

(* The rule an app gets is that of the first block of the file that names a *)
(* part of it, whatever blocks without an app and rules of earlier loads    *)
(* there were; it sets what the block sets.                                 *)
RulesAsFiled ==
    \A app \in AppNames :
        LET naming == {i \in DOMAIN parsed.rules :
                          /\ parsed.rules[i].app # <<>>
                          /\ Applies(parsed.rules[i].app, app)}
            block  == parsed.rules[Min(naming)]
            rule   == MatchRule(current.rules, app)
        IN  IF naming = {} THEN rule = None
            ELSE /\ rule # None
                 /\ rule.timeout = None <=> block.timeout = -1
                 /\ block.timeout \in 0..HalfRange - 1 => rule.timeout = block.timeout
                 /\ rule.skipPopup <=> block.skip_popup # 0

(* Config.cpp: "`pkill -HUP` after creating the config file picks it up     *)
(* without a daemon restart".  Only the path in the log is resolved anew.   *)
LoadReadsFoundFile ==
    [][stage = "config" /\ stage' = "theme" /\ Found # None => current' = CacheValues(Found)]_vars
=============================================================================
