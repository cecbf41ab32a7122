----------------------------- MODULE StoreFile ------------------------------
(***************************************************************************)
(* The text of store.json: how saveToDisk writes a document down and how   *)
(* the parser of loadFromDisk reads it, or the part of it a save left.     *)
(*                                                                         *)
(* A text is a sequence of characters; the name of a field is one          *)
(* character.  App names, texts and keys are sequences of characters too.  *)
(* "text" stands for the three strings icon, summary and body, which are   *)
(* written and read alike.  The parser is a machine that makes one step    *)
(* per iteration of one of its loops.                                      *)
(***************************************************************************)
EXTENDS SavedDocuments, SequencesExt

CONSTANTS
    Chars,      \* the characters that app names, texts and keys are made of
    Saved       \* the stores that are written: a counter and entries, each
                \* with its id, in the order in which the map yields them

(* The entries as they are written; -1 is the timeout that means "default". *)
SavedItem == [id: Nat \ {0}, app: Seq(Chars), text: Seq(Chars), timeout: Int,
              urgency: 0..2, state: 0..1, actions: Seq(Seq(Chars))]

ASSUME NoNumberAssumption == None \notin Int

ASSUME SavedAssumption == Saved \subseteq [nextId: Handles, items: Seq(SavedItem)]

(* The ids are those of a map; none is at or past the counter, see          *)
(* IdsBelowNext.                                                            *)
ASSUME IdsAssumption ==
    \A s \in Saved : \A k \in DOMAIN s.items :
        /\ s.items[k].id < s.nextId
        /\ \A j \in DOMAIN s.items \ {k} : s.items[j].id # s.items[k].id

VARIABLES
    saved,      \* what was written
    text,       \* what is in the file
    pos,        \* the parser's position, from 1
    loop,       \* the innermost loop the parser is in
    counter,    \* nextId of loadFromDisk
    items,      \* items of loadFromDisk
    item        \* the entry it is reading

vars == <<saved, text, pos, loop, counter, items, item>>
-----------------------------------------------------------------------------
Quote     == "\""
Backslash == "\\"
Digit     == <<"0", "1", "2", "3", "4", "5", "6", "7", "8", "9">>
Digits    == {Digit[d] : d \in 1..10}

(* Control characters without an escape of their own, by their code.        *)
Hex == [SOH |-> <<"0", "0", "0", "1">>, US |-> <<"0", "0", "1", "f">>]

(* Seeded fault: only quotes are escaped.                                   *)
EscapedQuote(c) == IF c = Quote THEN <<Backslash, Quote>> ELSE <<c>>

(* One character of a string, as esc writes it.                             *)
Escaped(c) ==
    CASE c = Quote           -> <<Backslash, Quote>>
      [] c = Backslash       -> <<Backslash, Backslash>>
      [] c = "LF"            -> <<Backslash, "n">>
      [] c = "CR"            -> <<Backslash, "r">>
      [] c = "TAB"           -> <<Backslash, "t">>
      [] c \in DOMAIN Hex    -> <<Backslash, "u">> \o Hex[c]
      [] OTHER               -> <<c>>

Esc(s) == <<Quote>> \o FlattenSeq([i \in DOMAIN s |-> Escaped(s[i])]) \o <<Quote>>

Numeral[n \in Nat] ==
    IF n < 10 THEN <<Digit[n + 1]>> ELSE Numeral[n \div 10] \o <<Digit[(n % 10) + 1]>>

Decimal(n) == IF n < 0 THEN <<"-">> \o Numeral[-n] ELSE Numeral[n]

Commas(parts) ==
    FlattenSeq([i \in DOMAIN parts |-> IF i = 1 THEN parts[i] ELSE <<",">> \o parts[i]])

Field(name, value) == <<Quote, name, Quote, ":">> \o value

Bracketed(parts) == <<"[">> \o Commas(parts) \o <<"]">>

ItemText(n) ==
    <<"{">> \o Commas(<<Field("id", Decimal(n.id)),
                        Field("app", Esc(n.app)),
                        Field("text", Esc(n.text)),
                        Field("timeout", Decimal(n.timeout)),
                        Field("urgency", Decimal(n.urgency)),
                        Field("state", Decimal(n.state)),
                        Field("actions", Bracketed([i \in DOMAIN n.actions |-> Esc(n.actions[i])]))>>)
    \o <<"}">>

Items(s) == Field("items", Bracketed([i \in DOMAIN s.items |-> ItemText(s.items[i])]))

(* Seeded fault: the items are written before the counter.                  *)
ItemsFirst(s) ==
    <<"{">> \o Items(s) \o <<",">> \o Field("next_id", Decimal(s.nextId)) \o <<"}">>

(* What saveToDisk sends to the stream.                                     *)
Written(s) ==
    <<"{">> \o Field("next_id", Decimal(s.nextId)) \o <<",">> \o Items(s) \o <<"}">>
-----------------------------------------------------------------------------
(* A read of a std::string at its end yields NUL.                           *)
At(s, p) == IF p <= Len(s) THEN s[p] ELSE "NUL"

(* What the character after a backslash stands for; \u is apart.            *)
Unescaped(c) == CASE c = "n" -> "LF" [] c = "r" -> "CR" [] c = "t" -> "TAB" [] OTHER -> c

(* A backslash, unless the text ends with it; a \u with its four digits.    *)
Escapes(s, p) == s[p] = Backslash /\ p < Len(s)
Codes(s, p)   == Escapes(s, p) /\ s[p + 1] = "u" /\ p + 5 <= Len(s)

(* What one iteration of parseString at p steps over and appends.  A \u is  *)
(* decoded if its four digits are there; else both characters are skipped.  *)
Width(s, p) == IF Codes(s, p) THEN 6 ELSE IF Escapes(s, p) THEN 2 ELSE 1

Decoded(s, p) ==
    CASE Codes(s, p)    -> SetToSeq({h \in DOMAIN Hex : Hex[h] = SubSeq(s, p + 2, p + 5)})
      [] ~Escapes(s, p) -> <<s[p]>>
      [] Escapes(s, p) /\ s[p + 1] # "u" -> <<Unescaped(s[p + 1])>>
      [] OTHER          -> <<>>

(* parseString with the opening quote at p.                                 *)
ReadString(s, p) ==
    LET read[q \in Nat \ {0}] ==
            IF q > Len(s) THEN [value |-> <<>>, pos |-> q]
            ELSE IF s[q] = Quote THEN [value |-> <<>>, pos |-> q + 1]
            ELSE LET rest == read[q + Width(s, q)]
                 IN  [value |-> Decoded(s, q) \o rest.value, pos |-> rest.pos]
    IN  read[p + 1]

Number(ds) ==
    LET value[i \in 0..Len(ds)] ==
            IF i = 0 THEN 0 ELSE 10 * value[i - 1] + CHOOSE d \in 0..9 : Digit[d + 1] = ds[i]
    IN  value[Len(ds)]

(* The first position from p on whose character is not in S.                *)
Past(s, p, S) ==
    CHOOSE q \in p..p + Len(s) : At(s, q) \notin S /\ \A r \in p..q - 1 : At(s, r) \in S

(* parseInt; the value is None where std::stoll throws.                     *)
ReadInt(s, p) ==
    LET first == IF At(s, p) \in {"-", "+"} THEN p + 1 ELSE p
        past  == Past(s, first, Digits)
        n     == Number(SubSeq(s, first, past - 1))
    IN  [value |-> IF past = first THEN None ELSE IF At(s, p) = "-" THEN -n ELSE n,
         pos   |-> past]

SkipWS(s, p) == Past(s, p, {" ", "LF", "CR", "TAB"})

(* The name of a member, and the position after its colon.                  *)
ReadName(s, p) ==
    LET r == ReadString(s, p)
        q == SkipWS(s, r.pos)
    IN  [name |-> r.value, pos |-> SkipWS(s, IF At(s, q) = ":" THEN q + 1 ELSE q)]
-----------------------------------------------------------------------------
Blank == [id |-> 0, app |-> <<>>, text |-> <<>>, timeout |-> -1,
          urgency |-> 1, state |-> 0, actions |-> <<>>]

Init ==
    /\ saved \in Saved
    /\ \E n \in 0..Len(Written(saved)) : text = SubSeq(Written(saved), 1, n)
    /\ pos = 1
    /\ loop = "start"
    /\ counter = 1
    /\ items = <<>>
    /\ item = Blank

(* Each of the nested loops: what it looks for, where it ends, what is      *)
(* around it.                                                               *)
Loops == [object  |-> [open |-> Quote, close |-> "}", outer |-> "done"],
          items   |-> [open |-> "{",   close |-> "]", outer |-> "object"],
          item    |-> [open |-> Quote, close |-> "}", outer |-> "items"],
          actions |-> [open |-> Quote, close |-> "]", outer |-> "item"]]

Here == SkipWS(text, pos)

In(l) == loop = l /\ pos <= Len(text)
Sees(l, c) == In(l) /\ At(text, Here) = c
-----------------------------------------------------------------------------
(* A text that is no object is ignored.                                     *)
Begin ==
    /\ loop = "start"
    /\ pos' = Here + 1
    /\ loop' = IF At(text, Here) = "{" THEN "object" ELSE "done"
    /\ UNCHANGED <<saved, text, counter, items, item>>

(* Seeded fault: a comma is not stepped over.                               *)
SkipNoComma ==
    /\ \E l \in DOMAIN Loops : /\ In(l)
                               /\ At(text, Here) \notin {Loops[l].open, Loops[l].close, ","}
    /\ pos' = Here + 1
    /\ UNCHANGED <<saved, text, loop, counter, items, item>>

(* Anything a loop does not look for, commas included.                      *)
Skip ==
    /\ \E l \in DOMAIN Loops : /\ In(l)
                               /\ At(text, Here) \notin {Loops[l].open, Loops[l].close}
    /\ pos' = Here + 1
    /\ UNCHANGED <<saved, text, loop, counter, items, item>>

(* The end of a loop, or of the text.  An item without an id is dropped.    *)
Leave(l) ==
    /\ loop = l
    /\ \/ pos > Len(text)          /\ pos' = pos
       \/ Sees(l, Loops[l].close)  /\ pos' = Here + 1
    /\ loop' = Loops[l].outer
    /\ items' = IF l = "item" /\ item.id # 0 THEN Append(items, item) ELSE items
    /\ UNCHANGED <<saved, text, counter, item>>

(* A member of the document.                                                *)
ReadMember ==
    /\ Sees("object", Quote)
    /\ LET m == ReadName(text, Here)
           r == ReadInt(text, m.pos)
       IN  \/ /\ m.name = <<"next_id">>
              /\ pos' = r.pos
              /\ IF r.value = None THEN loop' = "thrown" /\ UNCHANGED counter
                                   ELSE loop' = loop /\ counter' = r.value
           \/ /\ m.name = <<"items">> /\ At(text, m.pos) = "["
              /\ loop' = "items"
              /\ pos' = m.pos + 1
              /\ UNCHANGED counter
           \/ /\ m.name # <<"next_id">>
              /\ m.name = <<"items">> => At(text, m.pos) # "["
              /\ pos' = m.pos
              /\ UNCHANGED <<loop, counter>>
    /\ UNCHANGED <<saved, text, items, item>>

(* Seeded fault: an item starts with the fields of the one before.          *)
ReadItemInto ==
    /\ Sees("items", "{")
    /\ loop' = "item"
    /\ pos' = Here + 1
    /\ UNCHANGED <<saved, text, counter, items, item>>

ReadItem ==
    /\ Sees("items", "{")
    /\ item' = Blank
    /\ loop' = "item"
    /\ pos' = Here + 1
    /\ UNCHANGED <<saved, text, counter, items>>

(* A member of an item.                                                     *)
ReadNumber(m, f) ==
    LET r == ReadInt(text, m.pos)
    IN  /\ m.name = <<f>>
        /\ pos' = r.pos
        /\ IF r.value = None THEN loop' = "thrown" /\ UNCHANGED item
                             ELSE loop' = loop /\ item' = [item EXCEPT ![f] = r.value]

ReadText(m, f) ==
    LET r == ReadString(text, m.pos)
    IN  /\ m.name = <<f>>
        /\ pos' = r.pos
        /\ item' = [item EXCEPT ![f] = r.value]
        /\ UNCHANGED loop

ReadField ==
    /\ Sees("item", Quote)
    /\ LET m == ReadName(text, Here)
       IN  \/ \E f \in {"id", "timeout", "urgency", "state"} : ReadNumber(m, f)
           \/ \E f \in {"app", "text"} : ReadText(m, f)
           \/ /\ m.name = <<"actions">> /\ At(text, m.pos) = "["
              /\ loop' = "actions"
              /\ pos' = m.pos + 1
              /\ UNCHANGED item
           \/ /\ m.name \notin {<<f>> : f \in {"id", "timeout", "urgency", "state", "app", "text"}}
              /\ m.name = <<"actions">> => At(text, m.pos) # "["
              /\ pos' = m.pos
              /\ UNCHANGED <<loop, item>>
    /\ UNCHANGED <<saved, text, counter, items>>

ReadAction ==
    /\ Sees("actions", Quote)
    /\ LET r == ReadString(text, Here)
       IN  /\ item' = [item EXCEPT !.actions = Append(@, r.value)]
           /\ pos' = r.pos
    /\ UNCHANGED <<saved, text, loop, counter, items>>

Next ==
    \/ Begin \/ Skip \/ ReadMember \/ ReadItem \/ ReadField \/ ReadAction
    \/ \E l \in DOMAIN Loops : Leave(l)

(* Nothing interrupts the start of the daemon.                              *)
Spec == Init /\ [][Next]_vars /\ WF_vars(Next)
-----------------------------------------------------------------------------
(* The entry of an item; its keys are those that have a label.              *)
Entry(n) ==
    [app |-> n.app, text |-> n.text,
     actions |-> {n.actions[k] : k \in {j \in DOMAIN n.actions : j % 2 = 1 /\ j < Len(n.actions)}},
     timeout |-> n.timeout,
     urgency |-> <<"LOW", "NORMAL", "CRITICAL">>[n.urgency + 1],
     state   |-> <<"VISIBLE", "INBOX">>[n.state + 1]]

(* Of two items with one id, emplace keeps the first.                       *)
Stored(entries) ==
    [i \in Ids |-> LET S == {k \in DOMAIN entries : entries[k].id = i}
                   IN  IF S = {} THEN None
                       ELSE Entry(entries[CHOOSE k \in S : \A j \in S : k <= j])]

Loaded == Reload([nextId |-> counter, items |-> Stored(items)])

Ended == loop \in {"done", "thrown"}

(* A file that was written in full comes back exactly, whatever characters  *)
(* its strings are made of.                                                 *)
RoundTrip ==
    Ended /\ text = Written(saved) =>
        loop = "done" /\ counter = saved.nextId /\ items = saved.items

(* What is left of a number and of a string when the text ends in them: the *)
(* first digits; the first characters, and of the escape of the next one    *)
(* its backslash or the first digits of its code.                           *)
Leading(n)   == {Number(SubSeq(Numeral[n], 1, k)) : k \in 1..Len(Numeral[n])}
Shortened(i) == IF i < 0 THEN {-n : n \in Leading(-i)} ELSE Leading(i)

Remnants(c) ==
    IF Escaped(c) = <<c>> THEN {<<>>}
    ELSE {<<>>, <<Backslash>>} \cup {SubSeq(Escaped(c), 3, k) : k \in 3..Len(Escaped(c)) - 1}

Pieces(s) ==
    {s} \cup UNION {{SubSeq(s, 1, k - 1) \o r : r \in Remnants(s[k])} : k \in DOMAIN s}

(* A field that was cut is still an app name, a text, a timeout.            *)
ASSUME PiecesAssumption ==
    \A s \in Saved : \A k \in DOMAIN s.items :
        LET n == s.items[k]
        IN  /\ Pieces(n.app) \subseteq Apps /\ Pieces(n.text) \subseteq Texts
            /\ Shortened(n.timeout) \subseteq Timeouts
            /\ \A j \in DOMAIN n.actions : n.actions[j] \in Keys

(* A file that was cut short, anywhere, is read as what NotificationStore   *)
(* expects of a short write or a crash in the middle of one, Torn: no item  *)
(* and some prefix of the counter, or the counter and items that were       *)
(* saved, at most one of them cut, in its fields or in the digits of its id.*)
TornIsKnown ==
    LET was == Inboxed(Stored(saved.items))
        now == Loaded.items
        Partial(i) == \E j \in Live(was) : i \in Leading(j) /\ now[i] \in Cut(was[j])
    IN  loop = "done" =>
            \/ now = NoItems /\ Loaded.nextId \in {1} \cup 1..saved.nextId
            \/ /\ Loaded.nextId = saved.nextId
               /\ \E i \in Live(now) : /\ now[i] = was[i] \/ Partial(i)
                                       /\ \A j \in Live(now) \ {i} : now[j] = was[j]

(* Whatever was cut off, the counter read is past every id read: accept     *)
(* will not draw one that is in use.                                        *)
TornKeepsIdsFresh == loop = "done" => \A i \in Live(Loaded.items) : i < Loaded.nextId

(* No text keeps the daemon from starting by keeping the parser busy.       *)
Terminates == <>Ended
=============================================================================
