---------------------------- MODULE ConfigValues ----------------------------
(***************************************************************************)
(* What the daemon makes of the text of its two files: the values          *)
(* CConfigManager caches and the rule it finds for an app, the colors      *)
(* CTheme reads from a sheet.                                              *)
(*                                                                         *)
(* App names are sequences of characters, an anchor is the set of its      *)
(* words, whatever separates them, and a color is the sequence of its hex  *)
(* digits.                                                                 *)
(***************************************************************************)
EXTENDS Integers, SequencesExt

CONSTANTS
    Lower,      \* std::tolower, for the characters and words it changes
    HalfRange,  \* an int32_t holds -HalfRange..HalfRange - 1
    None        \* an unset value, no rule, no color, no file

ASSUME HalfRangeAssumption == HalfRange \in Nat \ {0}

ToLower(c) == IF c \in DOMAIN Lower THEN Lower[c] ELSE c

(* static_cast<int32_t> of what hyprlang holds as an int64_t.               *)
Int32(n) == ((n + HalfRange) % (2 * HalfRange)) - HalfRange
-----------------------------------------------------------------------------
Edges  == {"top", "bottom", "left", "right"}
Layers == {"background", "bottom", "top", "overlay"}

(* Unknown words are ignored; without a known one it is the default.        *)
ParseAnchor(words) ==
    LET known == {ToLower(w) : w \in words} \cap Edges
    IN  IF known = {} THEN {"top", "right"} ELSE known

ParseLayer(s) == IF s \in Layers THEN s ELSE "overlay"

(* A rule block of the file, and what it may become.                        *)
Blocks   == [app: Seq(STRING), timeout: Int, skip_popup: Int]
AppRules == [app: Seq(STRING), timeout: Int \cup {None}, skipPopup: BOOLEAN]

ASSUME NoRuleAssumption == None \notin AppRules /\ None \notin Int

(* A block as SAppRule.  -1 is the value of an unset timeout.               *)
AppRule(block) ==
    [app       |-> block.app,
     timeout   |-> IF block.timeout = -1 THEN None ELSE Int32(block.timeout),
     skipPopup |-> block.skip_popup # 0]

(* Seeded fault: a block without an app is cached like any other.           *)
CachedAlways(block) == <<AppRule(block)>>

(* A block without an app is skipped.                                       *)
Cached(block) == IF block.app = <<>> THEN <<>> ELSE <<AppRule(block)>>

(* SConfig, from the values m_config holds.                                 *)
CacheValues(values) ==
    [anchor          |-> ParseAnchor(values.anchor),
     layer           |-> ParseLayer(values.layer),
     default_timeout |-> Int32(values.default_timeout),
     colors_path     |-> values.colors_path,
     rules           |-> FlattenSeq([i \in DOMAIN values.rules |-> Cached(values.rules[i])])]
-----------------------------------------------------------------------------
(* std::string::find.                                                       *)
Occurs(s, part) ==
    \E k \in 0..Len(s) - Len(part) : \A i \in DOMAIN part : s[k + i] = part[i]

(* Does a rule for "part" apply to an app?  Upper and lower case are alike. *)
Applies(part, app) ==
    Occurs([i \in DOMAIN app |-> ToLower(app[i])], [i \in DOMAIN part |-> ToLower(part[i])])

(* The first of the cached rules whose app is part of the name.             *)
MatchRule(rules, app) ==
    LET hits == {i \in DOMAIN rules : app # <<>> /\ Applies(rules[i].app, app)}
    IN  IF hits = {} THEN None ELSE rules[Min(hits)]
-----------------------------------------------------------------------------
(* #rgb, #rrggbb and #rrggbbaa, the hex digits as numbers: <<a, r, g, b>>.  *)
ParseHex(hex) ==
    LET Byte(k) == 16 * hex[2 * k - 1] + hex[2 * k]
    IN  CASE Len(hex) = 3 -> <<255, 17 * hex[1], 17 * hex[2], 17 * hex[3]>>
          [] Len(hex) = 6 -> <<255, Byte(1), Byte(2), Byte(3)>>
          [] Len(hex) = 8 -> <<Byte(4), Byte(1), Byte(2), Byte(3)>>
          [] OTHER        -> None

(* The colors of a sheet's definitions.  A definition whose color cannot be *)
(* parsed is passed over, and emplace keeps the first of a name.            *)
Colors(sheet) ==
    LET Valid(name) == {i \in DOMAIN sheet : sheet[i].name = name /\ ParseHex(sheet[i].hex) # None}
    IN  [name \in {sheet[i].name : i \in DOMAIN sheet} |->
            IF Valid(name) = {} THEN None ELSE ParseHex(sheet[Min(Valid(name))].hex)]

(* CTheme::get.                                                             *)
Get(colors, name, fallback) ==
    IF name \in DOMAIN colors /\ colors[name] # None THEN colors[name] ELSE fallback
=============================================================================
