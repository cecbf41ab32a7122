------------------------- MODULE ConfigReloadProofs -------------------------
(***************************************************************************)
(* Proofs for ConfigReload, whatever files there are and whatever they     *)
(* say.  For the reload CacheValues and Colors need not be opened: what    *)
(* matters is which text they are applied to, and when.  What CacheValues  *)
(* makes of the rules is proved by induction over the blocks of a file.    *)
(***************************************************************************)
EXTENDS ConfigReload, SequenceInduction

(* findConfig yields a path only where there is a file.                     *)
LEMMA FoundIsAFile ==
    ASSUME TypeOK
    PROVE  /\ FindPath \in Paths \cup {None}
           /\ Found \in Configs \cup {None}
           /\ FindPath = None => Found = None
           /\ FindPath # None => Found \in Configs /\ Found = files[FindPath]
PROOF
<1>1. /\ files["user"] \in Configs \cup {None}
      /\ files["system"] \in Configs \cup {None}
    BY DEF TypeOK, Paths
<1>2. QED
    BY <1>1, PathsAssumption DEF FindPath, Found, Paths

(* The sheet a cached config selects is a palette, or cannot be read.       *)
LEMMA SheetIsAPalette ==
    ASSUME TypeOK
    PROVE  Sheet(current) \in Palettes \cup {None}
PROOF
<1>1. PICK c \in Configs : current = CacheValues(c)
    BY DEF TypeOK
<1>2. current.colors_path = c.colors_path
    BY <1>1 DEF CacheValues
<1>3. current.colors_path \in Sheets \cup {""}
    BY <1>2, SheetAssumption
<1>4. \A s \in Sheets : sheets[s] \in Palettes \cup {None}
    BY DEF TypeOK
<1>5. QED
    BY <1>3, <1>4, SheetAssumption DEF Sheet

(* The values a reload leaves in m_config are those of some file, or the    *)
(* defaults.                                                                *)
LEMMA ParsedIsAConfig ==
    ASSUME TypeOK
    PROVE  Parsed \subseteq Configs
BY DefaultsAssumption, NoneAssumption DEF Parsed, TypeOK
-----------------------------------------------------------------------------
LEMMA InitTypeOK == Init => TypeOK
PROOF
<1> SUFFICES ASSUME Init PROVE TypeOK
    OBVIOUS
<1>1. /\ files["user"] \in Configs \cup {None}
      /\ files["system"] \in Configs \cup {None}
    BY DEF Init, Paths
<1>2. Found \in Configs \cup {None} /\ FindPath \in Paths \cup {None}
    BY <1>1 DEF Found, FindPath, Paths
<1>3. parsed \in Configs
    BY <1>2, DefaultsAssumption DEF Init
<1>4. current.colors_path \in Sheets \cup {""}
    BY <1>3, SheetAssumption DEF Init, CacheValues
<1>5. Sheet(current) \in Palettes \cup {None}
    BY <1>4, SheetAssumption DEF Sheet, Init
<1>6. colors \in {NoColors} \cup {Colors(s) : s \in Palettes}
    BY <1>5 DEF Init, ColorsAfter
<1>7. QED
    BY <1>2, <1>3, <1>6 DEF Init, TypeOK

LEMMA NextTypeOK == TypeOK /\ [Next]_vars => TypeOK'
PROOF
<1> SUFFICES ASSUME TypeOK, [Next]_vars PROVE TypeOK'
    OBVIOUS
<1>1. CASE \E p \in Paths, c \in Configs \cup {None} : EditConfig(p, c)
    BY <1>1 DEF EditConfig, TypeOK
<1>2. CASE \E s \in Sheets, palette \in Palettes \cup {None} : EditSheet(s, palette)
    BY <1>2 DEF EditSheet, TypeOK
<1>3. CASE Sighup
    BY <1>3 DEF Sighup, TypeOK
<1>4. CASE Check
    BY <1>4 DEF Check, TypeOK
<1>5. CASE LoadConfig
  <2>1. parsed' \in Configs
      BY <1>5, ParsedIsAConfig DEF LoadConfig, TypeOK
  <2>2. current' \in {CacheValues(c) : c \in Configs}
      BY <1>5, <2>1 DEF LoadConfig
  <2>3. QED
      BY <1>5, <2>1, <2>2 DEF LoadConfig, TypeOK
<1>6. CASE LoadTheme
  <2>1. colors' \in {NoColors} \cup {Colors(s) : s \in Palettes}
      BY <1>6, SheetIsAPalette DEF LoadTheme, ColorsAfter, TypeOK
  <2>2. QED
      BY <1>6, <2>1 DEF LoadTheme, TypeOK
<1>7. CASE UNCHANGED vars
    BY <1>7 DEF vars, TypeOK
<1>8. QED
    BY <1>1, <1>2, <1>3, <1>4, <1>5, <1>6, <1>7 DEF Next

(* What the config and the theme hold was always read from some file, or is *)
(* the default.                                                             *)
THEOREM TypeCorrect == Spec => []TypeOK
PROOF
<1>1. Init => TypeOK
    BY InitTypeOK
<1>2. TypeOK /\ [Next]_vars => TypeOK'
    BY NextTypeOK
<1>3. QED
    BY <1>1, <1>2, PTL DEF Spec
-----------------------------------------------------------------------------
(* Under Told the load reads the file that was found.                       *)
LEMMA LoadReadsTheFile ==
    ASSUME TypeOK, Told, LoadConfig
    PROVE  ConfigInEffect'
PROOF
<1>1. bound # None /\ FindPath = bound
    BY DEF Told
<1>2. Found \in Configs /\ Found = files[bound]
    BY <1>1, FoundIsAFile
<1>3. parsed' = Found
    BY <1>1, <1>2, NoneAssumption DEF LoadConfig, Parsed
<1>4. Found' = Found
    BY DEF LoadConfig, Found, FindPath
<1>5. QED
    BY <1>2, <1>3, <1>4, NoneAssumption DEF LoadConfig, ConfigInEffect

(* A step that edits nothing leaves alone what Told says of the files.      *)
LEMMA TheFilesStay ==
    ASSUME files' = files, bound' = bound
    PROVE  /\ Found' = Found
           /\ Told' /\ told' = told => Told
BY DEF Found, FindPath, Told

LEMMA StepLosesNoSignal == TypeOK /\ NoSignalLost /\ [Next]_vars => NoSignalLost'
PROOF
<1> SUFFICES ASSUME TypeOK, NoSignalLost, [Next]_vars, Told'
             PROVE  \/ flag'
                    \/ stage' = "config"
                    \/ stage' = "theme" /\ ConfigInEffect'
                    \/ ConfigInEffect' /\ ThemeInEffect'
    BY DEF NoSignalLost
<1>1. CASE \E p \in Paths, c \in Configs \cup {None} : EditConfig(p, c)
    BY <1>1 DEF EditConfig, Told
<1>2. CASE \E s \in Sheets, palette \in Palettes \cup {None} : EditSheet(s, palette)
    BY <1>2 DEF EditSheet, Told
<1>3. CASE Sighup
    BY <1>3 DEF Sighup
<1>4. CASE Check
    BY <1>4 DEF Check
<1>5. CASE LoadConfig
  <2>1. Told
      BY <1>5, TheFilesStay DEF LoadConfig
  <2>2. QED
      BY <1>5, <2>1, LoadReadsTheFile DEF LoadConfig
<1>6. CASE LoadTheme
  <2>1. Told /\ Found' = Found
      BY <1>6, TheFilesStay DEF LoadTheme
  <2>2. CASE flag
      BY <1>6, <2>2 DEF LoadTheme
  <2>3. CASE ~flag
    <3>1. ConfigInEffect
        BY <1>6, <2>1, <2>3 DEF LoadTheme, NoSignalLost
    <3>2. ConfigInEffect'
        BY <1>6, <2>1, <3>1 DEF LoadTheme, ConfigInEffect
    <3>3. Sheet(current)' = Sheet(current)
        BY <1>6 DEF LoadTheme, Sheet
    <3>4. ThemeInEffect'
        BY <1>6, <3>3 DEF LoadTheme, ThemeInEffect, ColorsAfter
    <3>5. QED
        BY <3>2, <3>4
  <2>4. QED
      BY <2>2, <2>3
<1>7. CASE UNCHANGED vars
  <2>1. Told /\ Found' = Found
      BY <1>7, TheFilesStay DEF vars
  <2>2. Sheet(current)' = Sheet(current)
      BY <1>7 DEF vars, Sheet
  <2>3. QED
      BY <1>7, <2>1, <2>2 DEF vars, NoSignalLost, ConfigInEffect, ThemeInEffect
<1>8. QED
    BY <1>1, <1>2, <1>3, <1>4, <1>5, <1>6, <1>7 DEF Next

(* Wherever in a reload a SIGHUP arrives, and however many arrive, what was *)
(* edited before it is in effect or still to be read.  The initial state    *)
(* has no signal in it; each step hands on one disjunct to the next.        *)
THEOREM SignalsAreKept == Spec => []NoSignalLost
PROOF
<1>1. Init => NoSignalLost
    BY DEF Init, NoSignalLost, Told
<1>2. TypeOK /\ NoSignalLost /\ [Next]_vars => NoSignalLost'
    BY StepLosesNoSignal
<1>3. Spec => []TypeOK
    BY TypeCorrect
<1>4. QED
    BY <1>1, <1>2, <1>3, PTL DEF Spec
-----------------------------------------------------------------------------
LEMMA Int32Type == \A n \in Int : Int32(n) \in Int
PROOF BY HalfRangeAssumption DEF Int32

(* What fits is not changed by the conversion.                              *)
LEMMA Int32Fits == \A n \in 0..HalfRange - 1 : Int32(n) = n
PROOF BY HalfRangeAssumption DEF Int32

LEMMA AppRuleType == \A b \in Blocks : AppRule(b) \in AppRules
PROOF BY Int32Type DEF AppRule, AppRules, Blocks

LEMMA CachedType == \A b \in Blocks : Cached(b) \in Seq(AppRules)
PROOF BY AppRuleType DEF Cached

Pieces(blocks) == [i \in DOMAIN blocks |-> Cached(blocks[i])]

CachedRules(blocks) == FlattenSeq(Pieces(blocks))

LEMMA PiecesType == ASSUME NEW bs \in Seq(Blocks) PROVE Pieces(bs) \in Seq(Seq(AppRules))
PROOF
<1>1. DOMAIN bs = 1..Len(bs) /\ Len(bs) \in Nat /\ \A i \in 1..Len(bs) : bs[i] \in Blocks
    BY LenProperties, ElementOfSeq
<1>2. Pieces(bs) \in [1..Len(bs) -> Seq(AppRules)]
    BY <1>1, CachedType DEF Pieces
<1>3. QED
    BY <1>1, <1>2, SeqDef

LEMMA PiecesAppend ==
    ASSUME NEW bs \in Seq(Blocks), NEW b \in Blocks
    PROVE  Pieces(Append(bs, b)) = Append(Pieces(bs), Cached(b))
PROOF
<1> DEFINE longer == Append(bs, b)
<1>1. /\ longer \in Seq(Blocks) /\ Len(longer) = Len(bs) + 1 /\ longer[Len(bs) + 1] = b
      /\ \A i \in 1..Len(bs) : longer[i] = bs[i]
      /\ Len(bs) \in Nat /\ DOMAIN bs = 1..Len(bs) /\ DOMAIN longer = 1..Len(longer)
    BY AppendProperties, LenProperties
<1> HIDE DEF longer
<1>2. Pieces(longer) \in Seq(Seq(AppRules)) /\ Pieces(bs) \in Seq(Seq(AppRules))
    BY <1>1, PiecesType
<1>3. Len(Pieces(longer)) = Len(bs) + 1 /\ Len(Pieces(bs)) = Len(bs)
    BY <1>1, <1>2, LenProperties DEF Pieces
<1>4. Cached(b) \in Seq(AppRules)
    BY CachedType
<1> DEFINE right == Append(Pieces(bs), Cached(b))
<1>5. /\ right \in Seq(Seq(AppRules)) /\ Len(right) = Len(bs) + 1
      /\ right[Len(bs) + 1] = Cached(b) /\ \A i \in 1..Len(bs) : right[i] = Pieces(bs)[i]
    BY <1>2, <1>3, <1>4, AppendProperties
<1> HIDE DEF right
<1>6. ASSUME NEW i \in 1..Len(bs) + 1 PROVE Pieces(longer)[i] = right[i]
  <2>1. Pieces(longer)[i] = Cached(longer[i])
      BY <1>1 DEF Pieces
  <2>2. CASE i = Len(bs) + 1
      BY <1>1, <1>5, <2>1, <2>2
  <2>3. CASE i \in 1..Len(bs)
    <3>1. Pieces(bs)[i] = Cached(bs[i])
        BY <1>1, <2>3 DEF Pieces
    <3>2. QED
        BY <1>1, <1>5, <2>1, <2>3, <3>1
  <2>4. QED
      BY <1>1, <2>2, <2>3
<1>7. Pieces(longer) = right
    BY <1>2, <1>3, <1>5, <1>6, SeqEqual
<1>8. QED
    BY <1>7 DEF longer, right

(* The two equations that determine the cached rules.                       *)
LEMMA CachedRulesEmpty == CachedRules(<<>>) = <<>>
PROOF
<1>1. Pieces(<<>>) \in Seq(Seq(AppRules)) /\ Len(Pieces(<<>>)) = 0
  <2>1. <<>> \in Seq(Blocks)
      BY EmptySeq
  <2>2. Pieces(<<>>) \in Seq(Seq(AppRules))
      BY <2>1, PiecesType
  <2>3. DOMAIN Pieces(<<>>) = {}
      BY DEF Pieces
  <2>4. QED
      BY <2>2, <2>3, LenProperties
<1>2. Pieces(<<>>) = <<>>
    BY <1>1, EmptySeq
<1>3. QED
    BY <1>2, FlattenEmpty DEF CachedRules

LEMMA CachedRulesAppend ==
    ASSUME NEW bs \in Seq(Blocks), NEW b \in Blocks
    PROVE  CachedRules(Append(bs, b)) = CachedRules(bs) \o Cached(b)
PROOF
<1>1. Pieces(Append(bs, b)) = Append(Pieces(bs), Cached(b))
    BY PiecesAppend
<1>2. Pieces(bs) \in Seq(Seq(AppRules)) /\ Cached(b) \in Seq(AppRules)
    BY PiecesType, CachedType
<1>3. FlattenSeq(Append(Pieces(bs), Cached(b))) = FlattenSeq(Pieces(bs)) \o Cached(b)
    BY ONLY <1>2, FlattenAppend, Zenon
<1>4. QED
    BY <1>1, <1>3 DEF CachedRules
-----------------------------------------------------------------------------
(* No rule is for an app without a name: a rule names something.            *)
LEMMA NamelessIsUnmatched ==
    ASSUME NEW part \in Seq(STRING), part # <<>>
    PROVE  ~Applies(part, <<>>)
PROOF
<1> DEFINE lowerPart == [i \in DOMAIN part |-> ToLower(part[i])]
           lowerApp  == [i \in DOMAIN <<>> |-> ToLower(<<>>[i])]
<1>1. Len(part) \in Nat \ {0} /\ DOMAIN part = 1..Len(part)
    BY LenProperties, EmptySeq
<1>2. Len(lowerPart) = Len(part) /\ Len(lowerApp) = 0
    BY <1>1
<1>3. 0..Len(lowerApp) - Len(lowerPart) = {}
    BY <1>1, <1>2
<1> HIDE DEF lowerPart, lowerApp
<1>4. ~Occurs(lowerApp, lowerPart)
    BY <1>3 DEF Occurs
<1>5. QED
    BY <1>4 DEF Applies, lowerApp, lowerPart

(* The blocks that name an app, and the rules for it.                       *)
Naming(blocks, app) == {i \in DOMAIN blocks : blocks[i].app # <<>> /\ Applies(blocks[i].app, app)}
Hits(rules, app)    == {i \in DOMAIN rules : app # <<>> /\ Applies(rules[i].app, app)}

First(i, S) == i \in S /\ \A j \in S : i =< j

LEMMA FirstIsMin == ASSUME NEW S, S \subseteq Int, NEW i \in S, First(i, S) PROVE Min(S) = i
PROOF
<1>1. ASSUME NEW j \in S, \A k \in S : j =< k PROVE j = i
    BY <1>1 DEF First
<1>2. QED
    BY <1>1 DEF Min, First

(* The first rule for an app is made of the first block that names it.      *)
Agree(blocks, app) ==
    LET rules == CachedRules(blocks)
    IN  \/ Naming(blocks, app) = {} /\ Hits(rules, app) = {}
        \/ \E i \in 1..Len(blocks), k \in 1..Len(rules) :
              First(i, Naming(blocks, app)) /\ First(k, Hits(rules, app)) /\ rules[k] = AppRule(blocks[i])

LEMMA AgreeAppend ==
    ASSUME NEW app, NEW bs \in Seq(Blocks), NEW b \in Blocks,
           CachedRules(bs) \in Seq(AppRules), Agree(bs, app)
    PROVE  CachedRules(Append(bs, b)) \in Seq(AppRules) /\ Agree(Append(bs, b), app)
PROOF
<1>1. PICK longer : longer = Append(bs, b)
    OBVIOUS
<1>2. PICK n \in Nat : n = Len(bs)
    BY LenProperties
<1>3. /\ longer \in Seq(Blocks) /\ Len(longer) = n + 1 /\ longer[n + 1] = b
      /\ \A i \in 1..n : longer[i] = bs[i]
      /\ DOMAIN bs = 1..n /\ DOMAIN longer = 1..(n + 1)
    BY <1>1, <1>2, AppendProperties, LenProperties
<1>4. PICK old \in Seq(AppRules) : old = CachedRules(bs)
    OBVIOUS
<1>5. PICK new : new = CachedRules(longer)
    OBVIOUS
<1>6. PICK m \in Nat : m = Len(old) /\ DOMAIN old = 1..m
    BY LenProperties
<1>7. new = old \o Cached(b) /\ Cached(b) \in Seq(AppRules)
    BY <1>1, <1>4, <1>5, CachedRulesAppend, CachedType
<1>8. new \in Seq(AppRules)
    BY <1>7, ConcatProperties
<1>9. CASE b.app = <<>>
  <2>1. new = old
      BY <1>7, <1>9, ConcatEmptySeq DEF Cached
  <2>2. Naming(longer, app) = Naming(bs, app)
      BY <1>3, <1>9 DEF Naming
  <2>3. \A i \in Naming(bs, app) : longer[i] = bs[i]
      BY <1>3 DEF Naming
  <2>4. CASE Naming(bs, app) = {} /\ Hits(old, app) = {}
      BY <1>1, <1>5, <1>8, <2>1, <2>2, <2>4 DEF Agree
  <2>5. CASE \E i \in 1..n, k \in 1..m : /\ First(i, Naming(bs, app)) /\ First(k, Hits(old, app))
                                         /\ old[k] = AppRule(bs[i])
    <3>1. PICK i \in 1..n, k \in 1..m : /\ First(i, Naming(bs, app)) /\ First(k, Hits(old, app))
                                        /\ old[k] = AppRule(bs[i])
        BY <2>5
    <3>2. longer[i] = bs[i] /\ i \in 1..(n + 1)
        BY <1>3
    <3>3. Agree(longer, app)
        BY <1>3, <1>5, <1>6, <2>1, <2>2, <3>1, <3>2 DEF Agree
    <3>4. QED
        BY <1>1, <1>5, <1>8, <3>3
  <2>6. QED
      BY <1>2, <1>4, <1>6, <2>4, <2>5 DEF Agree
<1>10. CASE b.app # <<>>
  <2>1. Cached(b) = <<AppRule(b)>> /\ AppRule(b).app = b.app /\ b.app \in Seq(STRING)
      BY <1>10 DEF Cached, AppRule, Blocks
  <2>2. /\ Len(new) = m + 1 /\ DOMAIN new = 1..(m + 1) /\ new[m + 1] = AppRule(b)
        /\ \A k \in 1..m : new[k] = old[k]
    <3>1. AppRule(b) \in AppRules
        BY AppRuleType
    <3>2. new = Append(old, AppRule(b))
        BY <1>7, <2>1, <3>1, AppendIsConcat
    <3>3. QED
        BY <1>6, <1>8, <3>1, <3>2, AppendProperties, LenProperties
  <2>3. CASE Applies(b.app, app)
    <3>1. app # <<>>
        BY <1>10, <2>1, <2>3, NamelessIsUnmatched
    <3>2. Naming(longer, app) = Naming(bs, app) \cup {n + 1}
        BY <1>3, <1>10, <2>3 DEF Naming
    <3>3. Hits(new, app) = Hits(old, app) \cup {m + 1}
        BY <1>6, <2>1, <2>2, <2>3, <3>1 DEF Hits
    <3>4. CASE Naming(bs, app) = {} /\ Hits(old, app) = {}
      <4>1. First(n + 1, Naming(longer, app)) /\ First(m + 1, Hits(new, app))
          BY <3>2, <3>3, <3>4 DEF First
      <4>2. new[m + 1] = AppRule(longer[n + 1])
          BY <1>3, <2>2
      <4>3. n + 1 \in 1..Len(longer) /\ m + 1 \in 1..Len(new)
          BY <1>3, <2>2
      <4>4. QED
          BY <1>1, <1>5, <1>8, <4>1, <4>2, <4>3 DEF Agree
    <3>5. CASE \E i \in 1..Len(bs), k \in 1..Len(old) :
                  First(i, Naming(bs, app)) /\ First(k, Hits(old, app)) /\ old[k] = AppRule(bs[i])
      <4>1. PICK i \in 1..n, k \in 1..m :
                  First(i, Naming(bs, app)) /\ First(k, Hits(old, app)) /\ old[k] = AppRule(bs[i])
          BY <1>2, <1>6, <3>5
      <4>2. First(i, Naming(longer, app)) /\ First(k, Hits(new, app))
          BY <3>2, <3>3, <4>1 DEF First
      <4>3. new[k] = AppRule(longer[i])
          BY <1>3, <2>2, <4>1
      <4>4. i \in 1..Len(longer) /\ k \in 1..Len(new)
          BY <1>3, <2>2
      <4>5. QED
          BY <1>1, <1>5, <1>8, <4>2, <4>3, <4>4 DEF Agree
    <3>6. QED
        BY <1>4, <3>4, <3>5 DEF Agree
  <2>4. CASE ~Applies(b.app, app)
    <3>1. Naming(longer, app) = Naming(bs, app)
        BY <1>3, <2>4 DEF Naming
    <3>2. Hits(new, app) = Hits(old, app)
        BY <1>6, <2>1, <2>2, <2>4 DEF Hits
    <3>3. \A i \in Naming(bs, app) : i \in 1..Len(longer) /\ longer[i] = bs[i]
        BY <1>3 DEF Naming
    <3>4. \A k \in Hits(old, app) : k \in 1..Len(new) /\ new[k] = old[k]
        BY <1>6, <2>2 DEF Hits
    <3>5. QED
        BY <1>1, <1>4, <1>5, <1>8, <3>1, <3>2, <3>3, <3>4 DEF Agree, First
  <2>5. QED
      BY <2>3, <2>4
<1>11. QED
    BY <1>9, <1>10

LEMMA AgreeAlways == \A bs \in Seq(Blocks) : \A app : CachedRules(bs) \in Seq(AppRules) /\ Agree(bs, app)
PROOF
<1> SUFFICES ASSUME NEW app
             PROVE  \A bs \in Seq(Blocks) : CachedRules(bs) \in Seq(AppRules) /\ Agree(bs, app)
    OBVIOUS
<1> DEFINE T == {bs \in Seq(Blocks) : CachedRules(bs) \in Seq(AppRules) /\ Agree(bs, app)}
<1>1. <<>> \in T
  <2>1. <<>> \in Seq(Blocks) /\ CachedRules(<<>>) \in Seq(AppRules)
      BY EmptySeq, CachedRulesEmpty
  <2>2. Naming(<<>>, app) = {} /\ Hits(CachedRules(<<>>), app) = {}
      BY CachedRulesEmpty DEF Naming, Hits
  <2>3. QED
      BY <2>1, <2>2 DEF Agree
<1>2. \A bs \in Seq(Blocks) : bs \in T => \A b \in Blocks : Append(bs, b) \in T
    BY AgreeAppend, AppendProperties
<1> HIDE DEF T
<1>3. \A bs \in Seq(Blocks) : bs \in T
    BY ONLY <1>1, <1>2, SeqSetInduction, Zenon
<1>4. QED
    BY <1>3 DEF T
-----------------------------------------------------------------------------
(* m_current holds what was made of the values m_config holds.              *)
CachedIsParsed == current = CacheValues(parsed)

LEMMA StepCachedIsParsed == CachedIsParsed /\ [Next]_vars => CachedIsParsed'
PROOF
<1> SUFFICES ASSUME CachedIsParsed, [Next]_vars PROVE CachedIsParsed'
    OBVIOUS
<1>1. CASE LoadConfig
    BY <1>1 DEF LoadConfig, CachedIsParsed
<1>2. CASE UNCHANGED <<parsed, current>>
    BY <1>2 DEF CachedIsParsed
<1>3. QED
    BY <1>1, <1>2 DEF Next, vars, EditConfig, EditSheet, Sighup, Check, LoadTheme

LEMMA RulesOfTheFile == TypeOK /\ CachedIsParsed => RulesAsFiled
PROOF
<1> SUFFICES ASSUME TypeOK, CachedIsParsed, NEW app \in AppNames
             PROVE  LET naming == Naming(parsed.rules, app)
                        block  == parsed.rules[Min(naming)]
                        rule   == MatchRule(current.rules, app)
                    IN  IF naming = {} THEN rule = None
                        ELSE /\ rule # None
                             /\ rule.timeout = None <=> block.timeout = -1
                             /\ block.timeout \in 0..HalfRange - 1 => rule.timeout = block.timeout
                             /\ rule.skipPopup <=> block.skip_popup # 0
    BY DEF RulesAsFiled, Naming
<1>1. PICK bs \in Seq(Blocks) : bs = parsed.rules
    BY RulesAssumption DEF TypeOK
<1>2. PICK rules \in Seq(AppRules) : rules = current.rules /\ rules = CachedRules(bs)
    BY <1>1, AgreeAlways DEF CachedIsParsed, CacheValues, CachedRules, Pieces
<1>3. MatchRule(rules, app) = IF Hits(rules, app) = {} THEN None ELSE rules[Min(Hits(rules, app))]
    BY DEF MatchRule, Hits
<1>4. Agree(bs, app)
    BY AgreeAlways
<1>5. CASE Naming(bs, app) = {} /\ Hits(rules, app) = {}
    BY <1>1, <1>2, <1>3, <1>5
<1>6. CASE \E i \in 1..Len(bs), k \in 1..Len(rules) :
              First(i, Naming(bs, app)) /\ First(k, Hits(rules, app)) /\ rules[k] = AppRule(bs[i])
  <2>1. PICK i \in 1..Len(bs), k \in 1..Len(rules) :
              First(i, Naming(bs, app)) /\ First(k, Hits(rules, app)) /\ rules[k] = AppRule(bs[i])
      BY <1>6
  <2>2. Naming(bs, app) \subseteq Int /\ Hits(rules, app) \subseteq Int
      BY LenProperties DEF Naming, Hits
  <2>3. Min(Naming(bs, app)) = i /\ Min(Hits(rules, app)) = k
      BY <2>1, <2>2, FirstIsMin DEF First
  <2>4. PICK b \in Blocks : b = bs[i]
      BY ElementOfSeq
  <2>5. PICK r \in AppRules : r = AppRule(b)
      BY AppRuleType
  <2>6. r # None
      BY NoRuleAssumption
  <2>7. r.timeout = None <=> b.timeout = -1
      BY <2>5, Int32Type, NoRuleAssumption DEF AppRule, Blocks
  <2>8. b.timeout \in 0..HalfRange - 1 => r.timeout = b.timeout
      BY <2>5, Int32Fits, HalfRangeAssumption DEF AppRule
  <2>9. r.skipPopup <=> b.skip_popup # 0
      BY <2>5 DEF AppRule
  <2>10. MatchRule(rules, app) = r
      BY <1>3, <2>1, <2>3, <2>4, <2>5 DEF First
  <2>11. Naming(bs, app) # {}
      BY <2>1 DEF First
  <2>12. QED
      BY <1>1, <1>2, <2>3, <2>4, <2>6, <2>7, <2>8, <2>9, <2>10, <2>11
<1>7. QED
    BY <1>2, <1>4, <1>5, <1>6 DEF Agree

(* Whatever the file says and however many blocks it has, an app gets the   *)
(* rule of the first block that names it, as the block sets it.  The cached *)
(* rules follow the file (CachedIsParsed), and by induction over the blocks *)
(* the first rule that matches is the first block's (AgreeAlways).          *)
THEOREM RulesCorrect == Spec => []RulesAsFiled
PROOF
<1>1. Init => CachedIsParsed
    BY DEF Init, CachedIsParsed
<1>2. CachedIsParsed /\ [Next]_vars => CachedIsParsed'
    BY StepCachedIsParsed
<1>3. Spec => []TypeOK
    BY TypeCorrect
<1>4. TypeOK /\ CachedIsParsed => RulesAsFiled
    BY RulesOfTheFile
<1>5. QED
    BY <1>1, <1>2, <1>3, <1>4, PTL DEF Spec
=============================================================================
