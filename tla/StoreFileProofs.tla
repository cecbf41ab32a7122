-------------------------- MODULE StoreFileProofs ---------------------------
(***************************************************************************)
(* Whatever the store holds, the parser reads back what saveToDisk wrote;  *)
(* and a text that was cut short is read as what SavedDocuments says such  *)
(* a document still says, with a counter past every id.                    *)
(***************************************************************************)
EXTENDS StoreFileReaders
-----------------------------------------------------------------------------
(* Lists, as Commas writes them: of a list with the parts ps, From(ps, k)   *)
(* is what follows the first k.                                             *)
Separated(ps) == [i \in DOMAIN ps |-> IF i = 1 THEN ps[i] ELSE <<",">> \o ps[i]]

From(ps, k) == FlattenSeq(SubSeq(Separated(ps), k + 1, Len(ps)))

LBrace == "{"
RBrace == "}"

(* One character is a text.                                                 *)
LEMMA CharText == \A c \in Alphabet : <<c>> \in Text /\ Len(<<c>>) = 1
PROOF BY DEF Text

(* Texts one after the other.                                               *)
LEMMA TextConcat ==
    /\ \A u, v \in Text : u \o v \in Text /\ Len(u \o v) = Len(u) + Len(v)
    /\ \A u \in Text : <<>> \o u = u /\ u \o <<>> = u
    /\ \A u \in Text : Len(u) \in Nat
PROOF
<1>1. \A u, v \in Text : u \o v \in Text /\ Len(u \o v) = Len(u) + Len(v)
    BY ConcatProperties DEF Text
<1>2. \A u \in Text : <<>> \o u = u /\ u \o <<>> = u
    BY ConcatEmptySeq DEF Text
<1>3. QED
    BY <1>1, <1>2, LenProperties DEF Text

(* The parts with their commas are texts.                                   *)
LEMMA SeparatedText ==
    ASSUME NEW ps \in Seq(Text)
    PROVE  /\ Separated(ps) \in Seq(Text) /\ Len(Separated(ps)) = Len(ps)
           /\ \A i \in 1..Len(ps) : /\ ps[i] \in Text
                                    /\ Separated(ps)[i] = IF i = 1 THEN ps[i] ELSE <<",">> \o ps[i]
PROOF
<1>1. PICK n \in Nat : n = Len(ps) /\ DOMAIN ps = 1..n /\ \A i \in 1..n : ps[i] \in Text
    BY LenProperties
<1>2. "," \in Alphabet
    BY DEF Alphabet
<1>3. \A u \in Text : <<",">> \o u \in Text
    BY <1>2, CharText, ConcatProperties DEF Text
<1>4. Separated(ps) \in [1..n -> Text]
    BY <1>1, <1>3 DEF Separated
<1>5. Separated(ps) \in Seq(Text) /\ Len(Separated(ps)) = n
    BY <1>4
<1>6. QED
    BY <1>1, <1>5 DEF Separated

(* The rest of a list: all of it, none of it, or one more part of it.       *)
LEMMA FromText ==
    ASSUME NEW ps \in Seq(Text), NEW k \in 0..Len(ps)
    PROVE  /\ From(ps, k) \in Text
           /\ k = 0 => From(ps, k) = Commas(ps)
           /\ k = Len(ps) => From(ps, k) = <<>>
           /\ k < Len(ps) => From(ps, k) = Separated(ps)[k + 1] \o From(ps, k + 1)
PROOF
<1>1. PICK n \in Nat : n = Len(ps)
    BY LenProperties
<1>2. PICK qs \in Seq(Text) : qs = Separated(ps) /\ Len(qs) = n
    BY <1>1, SeparatedText
<1>3. \A i \in 1..n : qs[i] \in Text
    BY <1>2
<1>4. k \in Nat /\ k <= n
    BY <1>1
<1>5. \A j \in 1..n + 1 : SubSeq(qs, j, n) \in Seq(Text)
  <2>1. ASSUME NEW j \in 1..n + 1 PROVE \A i \in j..n : qs[i] \in Text
      BY <1>3
  <2>2. QED
      BY <2>1, SubSeqProperties
<1>6. PICK m \in 1..n + 1 : m = k + 1
    BY <1>4
<1>7. From(ps, k) = FlattenSeq(SubSeq(qs, m, n))
    BY <1>1, <1>2, <1>6 DEF From
<1>8. From(ps, k) \in Text
  <2>1. SubSeq(qs, m, n) \in Seq(Text)
      BY <1>5
  <2>2. QED
      BY <1>7, <2>1, FlattenType DEF Text
<1>9. ASSUME k = 0 PROVE From(ps, k) = Commas(ps)
  <2>1. SubSeq(qs, m, n) = qs
      BY <1>2, <1>6, <1>9, SubSeqFull
  <2>2. Commas(ps) = FlattenSeq(qs)
      BY <1>2 DEF Commas, Separated
  <2>3. QED
      BY <1>7, <2>1, <2>2
<1>10. ASSUME k = n PROVE From(ps, k) = <<>>
  <2>1. SubSeq(qs, m, n) = <<>>
      BY <1>6, <1>10, SubSeqEmpty
  <2>2. QED
      BY <1>7, <2>1, FlattenEmpty
<1>11. ASSUME k < n PROVE From(ps, k) = qs[m] \o From(ps, m)
  <2>1. m \in 1..Len(qs) /\ n \in m..Len(qs)
      BY <1>1, <1>2, <1>4, <1>6, <1>11
  <2>2. SubSeq(qs, m, n) = <<qs[m]>> \o SubSeq(qs, m + 1, n)
      BY <2>1, SubSeqRecursiveFirst
  <2>3. PICK rs \in Seq(Text) : rs = SubSeq(qs, m + 1, n)
    <3>1. m + 1 \in 1..n + 1
        BY <1>4, <1>6, <1>11
    <3>2. QED
        BY <1>5, <3>1
  <2>4. qs[m] \in Text
      BY <1>2, <1>3, <2>1
  <2>5. FlattenSeq(<<qs[m]>> \o rs) = qs[m] \o FlattenSeq(rs)
      BY <2>4, FlattenCons DEF Text
  <2>6. From(ps, m) = FlattenSeq(rs)
      BY <1>1, <1>2, <2>3 DEF From
  <2>7. QED
      BY <1>7, <2>2, <2>3, <2>5, <2>6
<1>12. QED
    BY <1>1, <1>2, <1>6, <1>8, <1>9, <1>10, <1>11

(* Where the rest of a list is: nothing of it, its first part, or a comma.  *)
LEMMA FromHas ==
    ASSUME NEW w \in Text, NEW p \in Positions, NEW ps \in Seq(Text), NEW k \in 0..Len(ps),
           NEW v \in Text, Has(w, p, From(ps, k) \o v)
    PROVE  \/ k = Len(ps) /\ Has(w, p, v)
           \/ k = 0 /\ k < Len(ps) /\ Has(w, p, ps[k + 1] \o (From(ps, k + 1) \o v))
           \/ /\ k \in 1..Len(ps) - 1
              /\ Has(w, p, <<",">>)
              /\ Has(w, p + 1, ps[k + 1] \o (From(ps, k + 1) \o v))
PROOF
<1>1. PICK n \in Nat : n = Len(ps) /\ k \in 0..n
    BY LenProperties
<1>2. CASE k = n
  <2>1. From(ps, k) \o v = v
      BY <1>1, <1>2, FromText, ConcatEmptySeq DEF Text
  <2>2. QED
      BY <1>1, <1>2, <2>1
<1>3. CASE k # n
  <2>1. k < n /\ k + 1 \in 1..n /\ k + 1 \in 0..n
      BY <1>1, <1>3
  <2>2. PICK x \in Text, y \in Text, z \in Text :
            x = ps[k + 1] /\ y = Separated(ps)[k + 1] /\ z = From(ps, k + 1)
      BY <1>1, <2>1, SeparatedText, FromText
  <2>3. From(ps, k) = y \o z
      BY <1>1, <2>1, <2>2, FromText
  <2>4. PICK r \in Text : r = z \o v
      BY ConcatProperties DEF Text
  <2>5. From(ps, k) \o v = y \o r
    <3>1. Associates(y, z, v)
        BY TextAssociates, Zenon
    <3>2. QED
        BY <2>3, <2>4, <3>1 DEF Associates
  <2>6. CASE k = 0
    <3>1. y = x
      <4>1. k + 1 = 1
          BY <2>6
      <4>2. QED
          BY <1>1, <2>1, <2>2, <4>1, SeparatedText
    <3>2. QED
        BY <1>1, <2>1, <2>2, <2>4, <2>5, <2>6, <3>1
  <2>7. CASE k # 0
    <3>1. PICK o \in Text : o = <<",">> /\ Len(o) = 1
      <4>1. "," \in Alphabet
          BY DEF Alphabet
      <4>2. QED
          BY <4>1, CharText
    <3>2. y = o \o x
      <4>1. k + 1 # 1
          BY <1>1, <2>7
      <4>2. QED
          BY <1>1, <2>1, <2>2, <3>1, <4>1, SeparatedText
    <3>3. x \o r \in Text /\ y \o r = o \o (x \o r)
      <4>1. Associates(o, x, r)
          BY TextAssociates, Zenon
      <4>2. x \o r \in Text
          BY TextConcat, Zenon
      <4>3. QED
          BY <3>2, <4>1, <4>2 DEF Associates
    <3>4. Has(w, p, o) /\ Has(w, p + Len(o), x \o r)
        BY <2>5, <3>3, HasConcat DEF Positions
    <3>5. k \in 1..n - 1
        BY <1>1, <2>1, <2>7
    <3>6. QED
        BY <1>1, <2>2, <2>4, <3>1, <3>4, <3>5
  <2>8. QED
      BY <2>6, <2>7
<1>4. QED
    BY <1>2, <1>3

(* What the parser has before it: the same, the comma perhaps behind it.    *)
Ahead(w, p, ps, k, v) ==
    \/ Has(w, p, From(ps, k) \o v)
    \/ k \in 1..Len(ps) - 1 /\ Has(w, p, ps[k + 1] \o (From(ps, k + 1) \o v))

PartNext(w, p, ps, k, v) ==
    /\ k < Len(ps)
    /\ ps[k + 1] \in Text /\ Has(w, p, ps[k + 1])
    /\ Has(w, p + Len(ps[k + 1]), From(ps, k + 1) \o v)

(* The parser is at the next part, at a comma or at the end of the list.    *)
LEMMA AheadNext ==
    ASSUME NEW w \in Text, NEW p \in Positions, NEW ps \in Seq(Text), NEW k \in 0..Len(ps),
           NEW c \in Alphabet, NEW v \in Text, Ahead(w, p, ps, k, <<c>> \o v)
    PROVE  \/ PartNext(w, p, ps, k, <<c>> \o v)
           \/ Has(w, p, <<",">>) /\ Ahead(w, p + 1, ps, k, <<c>> \o v)
           \/ k = Len(ps) /\ Has(w, p, <<c>>) /\ Has(w, p + 1, v)
PROOF
<1>1. PICK n \in Nat : n = Len(ps) /\ k \in 0..n
    BY LenProperties
<1>2. PICK o \in Text : o = <<c>> /\ Len(o) = 1
    BY CharText
<1>3. PICK r \in Text : r = o \o v
    BY ConcatProperties DEF Text
<1>4. ASSUME k < n, Has(w, p, ps[k + 1] \o (From(ps, k + 1) \o r)) PROVE PartNext(w, p, ps, k, r)
  <2>1. k + 1 \in 1..n /\ k + 1 \in 0..n
      BY <1>1, <1>4
  <2>2. ps[k + 1] \in Text /\ From(ps, k + 1) \in Text
      BY <1>1, <2>1, SeparatedText, FromText
  <2>3. From(ps, k + 1) \o r \in Text
      BY <2>2, ConcatProperties DEF Text
  <2>4. Has(w, p, ps[k + 1]) /\ Has(w, p + Len(ps[k + 1]), From(ps, k + 1) \o r)
      BY <1>4, <2>2, <2>3, HasConcat DEF Positions
  <2>5. QED
      BY <1>1, <1>4, <2>2, <2>4 DEF PartNext
<1>5. CASE k \in 1..n - 1 /\ Has(w, p, ps[k + 1] \o (From(ps, k + 1) \o r))
  <2>1. k < n
      BY <1>1, <1>5
  <2>2. PartNext(w, p, ps, k, r)
      BY <1>4, <1>5, <2>1
  <2>3. QED
      BY <1>2, <1>3, <2>2
<1>6. CASE Has(w, p, From(ps, k) \o r)
  <2>1. CASE k = n /\ Has(w, p, r)
    <3>1. Has(w, p, o) /\ Has(w, p + Len(o), v)
        BY <1>3, <2>1, HasConcat DEF Positions
    <3>2. QED
        BY <1>1, <1>2, <2>1, <3>1
  <2>2. CASE k < n /\ Has(w, p, ps[k + 1] \o (From(ps, k + 1) \o r))
      BY <1>2, <1>3, <1>4, <2>2
  <2>3. CASE /\ k \in 1..n - 1 /\ Has(w, p, <<",">>)
             /\ Has(w, p + 1, ps[k + 1] \o (From(ps, k + 1) \o r))
      BY <1>1, <1>2, <1>3, <2>3 DEF Ahead
  <2>4. QED
      BY <1>1, <1>6, <2>1, <2>2, <2>3, FromHas
<1>7. QED
    BY <1>1, <1>2, <1>3, <1>5, <1>6 DEF Ahead

(* A part ends before a comma or before the end of the list.                *)
LEMMA PartEnds ==
    ASSUME NEW w \in Text, NEW p \in Positions, NEW ps \in Seq(Text), NEW k \in 1..Len(ps),
           NEW c \in Alphabet, NEW v \in Text, Has(w, p, From(ps, k) \o (<<c>> \o v))
    PROVE  p <= Len(w) /\ w[p] \in {",", c}
PROOF
<1>1. PICK n \in Nat : n = Len(ps) /\ k \in 0..n /\ k # 0
    BY LenProperties
<1>2. PICK o \in Text : o = <<c>> /\ Len(o) = 1
    BY CharText
<1>3. PICK r \in Text : r = o \o v
    BY ConcatProperties DEF Text
<1>4. \/ Has(w, p, r)
      \/ Has(w, p, <<",">>)
    BY <1>1, <1>2, <1>3, FromHas
<1>5. Has(w, p, r) => Has(w, p, <<c>>)
    BY <1>2, <1>3, HasConcat DEF Positions
<1>6. QED
    BY <1>4, <1>5, HasOne DEF Positions
-----------------------------------------------------------------------------
(* What the pieces are put together from.                                   *)
LEMMA Enclosed ==
    ASSUME NEW ps \in Seq(Text), NEW o \in Alphabet, NEW c \in Alphabet
    PROVE  /\ <<o>> \o Commas(ps) \o <<c>> \in Text
           /\ \A w \in Text, p \in Positions, v \in Text :
                  /\ Has(w, p, <<o>> \o Commas(ps) \o <<c>>)
                  /\ Has(w, p + Len(<<o>> \o Commas(ps) \o <<c>>), v)
                  => Has(w, p, <<o>>) /\ Has(w, p + 1, From(ps, 0) \o (<<c>> \o v))
PROOF
<1>1. PICK a \in Text, b \in Text : a = <<o>> /\ Len(a) = 1 /\ b = <<c>>
    BY CharText
<1>2. PICK u \in Text : u = From(ps, 0) /\ u = Commas(ps)
  <2>1. 0 \in 0..Len(ps)
      BY LenProperties
  <2>2. QED
      BY <2>1, FromText
<1>3. PICK e \in Text : e = (a \o u) \o b
  <2>1. a \o u \in Text
      BY TextConcat
  <2>2. QED
      BY <2>1, TextConcat
<1>4. ASSUME NEW w \in Text, NEW p \in Positions, NEW v \in Text,
             Has(w, p, e), Has(w, p + Len(e), v)
      PROVE  Has(w, p, a) /\ Has(w, p + 1, u \o (b \o v))
  <2>1. PICK x \in Text, y \in Text, z \in Text : x = a \o u /\ y = b \o v /\ z = u \o y
    <3>1. a \o u \in Text /\ b \o v \in Text
        BY TextConcat
    <3>2. u \o (b \o v) \in Text
        BY <3>1, TextConcat
    <3>3. QED
        BY <3>1, <3>2
  <2>2. Has(w, p, e \o v)
      BY <1>4, HasConcat DEF Positions
  <2>3. e \o v = x \o y
    <3>1. Associates(x, b, v)
        BY TextAssociates, Zenon
    <3>2. QED
        BY <1>3, <2>1, <3>1 DEF Associates
  <2>4. x \o y = a \o z
    <3>1. Associates(a, u, y)
        BY TextAssociates, Zenon
    <3>2. QED
        BY <2>1, <3>1 DEF Associates
  <2>5. Has(w, p, a) /\ Has(w, p + Len(a), z)
      BY <2>2, <2>3, <2>4, HasConcat DEF Positions
  <2>6. QED
      BY <1>1, <2>1, <2>5
<1>5. QED
    BY <1>1, <1>2, <1>3, <1>4

Names == {"next_id", "items", "id", "app", "text", "timeout", "urgency", "state", "actions"}

Header(name) == <<Quote, name, Quote, ":">>

(* A member is its name, quoted, a colon and its value.                     *)
LEMMA FieldText ==
    ASSUME NEW name \in Names, NEW value \in Text
    PROVE  /\ Header(name) \in Text /\ Len(Header(name)) = 4
           /\ Field(name, value) = Header(name) \o value /\ Field(name, value) \in Text
PROOF
<1>1. Header(name) \in Text /\ Len(Header(name)) = 4
  <2>1. name \in Alphabet /\ Quote \in Alphabet /\ ":" \in Alphabet
      BY DEF Names, Alphabet
  <2>2. QED
      BY <2>1 DEF Header, Text
<1>2. QED
    BY <1>1, TextConcat DEF Field, Header

Members(s)     == <<Field("next_id", Decimal(s.nextId)), Items(s)>>
ItemTexts(s)   == [i \in DOMAIN s.items |-> ItemText(s.items[i])]
ActionTexts(n) == [i \in DOMAIN n.actions |-> Esc(n.actions[i])]
Fields(n) ==
    <<Field("id", Decimal(n.id)), Field("app", Esc(n.app)), Field("text", Esc(n.text)),
      Field("timeout", Decimal(n.timeout)), Field("urgency", Decimal(n.urgency)),
      Field("state", Decimal(n.state)), Field("actions", Bracketed(ActionTexts(n)))>>

(* The texts that are written: the actions of an item,                      *)
LEMMA ActionsText ==
    ASSUME NEW n \in SavedItem
    PROVE  /\ ActionTexts(n) \in Seq(Text) /\ Len(ActionTexts(n)) = Len(n.actions)
           /\ \A j \in 1..Len(n.actions) : /\ n.actions[j] \in Seq(Chars)
                                           /\ ActionTexts(n)[j] = Esc(n.actions[j])
           /\ Bracketed(ActionTexts(n)) \in Text
PROOF
<1>1. PICK as \in Seq(Seq(Chars)) : as = n.actions
    BY DEF SavedItem
<1>2. PICK l \in Nat : l = Len(as) /\ DOMAIN as = 1..l /\ \A j \in 1..l : as[j] \in Seq(Chars)
    BY LenProperties
<1>3. \A j \in 1..l : Esc(as[j]) \in Text
    BY <1>2, EscText
<1>4. ActionTexts(n) = [j \in 1..l |-> Esc(as[j])]
    BY <1>1, <1>2 DEF ActionTexts
<1>5. ActionTexts(n) \in Seq(Text) /\ Len(ActionTexts(n)) = l
  <2>1. ActionTexts(n) \in [1..l -> Text]
      BY <1>3, <1>4
  <2>2. QED
      BY <2>1
<1>6. "[" \in Alphabet /\ "]" \in Alphabet
    BY DEF Alphabet
<1>7. Bracketed(ActionTexts(n)) \in Text
    BY <1>5, <1>6, Enclosed DEF Bracketed
<1>8. QED
    BY <1>1, <1>2, <1>4, <1>5, <1>7

(* its fields,                                                              *)
LEMMA FieldsText ==
    ASSUME NEW n \in SavedItem
    PROVE  /\ Fields(n) \in Seq(Text) /\ Len(Fields(n)) = 7
           /\ ItemText(n) = <<LBrace>> \o Commas(Fields(n)) \o <<RBrace>>
           /\ ItemText(n) \in Text
PROOF
<1>1. /\ n.id \in Int /\ n.timeout \in Int /\ n.urgency \in Int /\ n.state \in Int
      /\ n.app \in Seq(Chars) /\ n.text \in Seq(Chars)
    BY DEF SavedItem
<1>2. /\ Decimal(n.id) \in Text /\ Decimal(n.timeout) \in Text
      /\ Decimal(n.urgency) \in Text /\ Decimal(n.state) \in Text
      /\ Esc(n.app) \in Text /\ Esc(n.text) \in Text
      /\ Bracketed(ActionTexts(n)) \in Text
    BY <1>1, DecimalText, EscText, ActionsText
<1>3. PICK a \in Text, b \in Text, c \in Text, d \in Text, e \in Text, f \in Text, g \in Text :
          Fields(n) = <<a, b, c, d, e, f, g>>
  <2>1. /\ Field("id", Decimal(n.id)) \in Text /\ Field("app", Esc(n.app)) \in Text
        /\ Field("text", Esc(n.text)) \in Text /\ Field("timeout", Decimal(n.timeout)) \in Text
        /\ Field("urgency", Decimal(n.urgency)) \in Text /\ Field("state", Decimal(n.state)) \in Text
        /\ Field("actions", Bracketed(ActionTexts(n))) \in Text
      BY <1>2, FieldText DEF Names
  <2>2. QED
      BY <2>1 DEF Fields
<1>4. Fields(n) \in Seq(Text) /\ Len(Fields(n)) = 7
    BY <1>3
<1>5. ItemText(n) = <<LBrace>> \o Commas(Fields(n)) \o <<RBrace>>
    BY DEF ItemText, Fields, ActionTexts, LBrace, RBrace
<1>6. LBrace \in Alphabet /\ RBrace \in Alphabet
    BY DEF Alphabet, LBrace, RBrace
<1>7. QED
    BY <1>4, <1>5, <1>6, Enclosed

SavedDocument == [nextId: Nat, items: Seq(SavedItem)]

(* the items,                                                               *)
LEMMA ItemsText ==
    ASSUME NEW s \in SavedDocument
    PROVE  /\ ItemTexts(s) \in Seq(Text) /\ Len(ItemTexts(s)) = Len(s.items)
           /\ \A k \in 1..Len(s.items) : /\ s.items[k] \in SavedItem
                                         /\ ItemTexts(s)[k] = ItemText(s.items[k])
           /\ Bracketed(ItemTexts(s)) \in Text
           /\ Items(s) = Header("items") \o Bracketed(ItemTexts(s)) /\ Items(s) \in Text
PROOF
<1>1. PICK is \in Seq(SavedItem) : is = s.items
    BY DEF SavedDocument
<1>2. PICK l \in Nat : l = Len(is) /\ DOMAIN is = 1..l /\ \A k \in 1..l : is[k] \in SavedItem
    BY LenProperties
<1>3. \A k \in 1..l : ItemText(is[k]) \in Text
    BY <1>2, FieldsText
<1>4. ItemTexts(s) = [k \in 1..l |-> ItemText(is[k])]
    BY <1>1, <1>2 DEF ItemTexts
<1>5. ItemTexts(s) \in Seq(Text) /\ Len(ItemTexts(s)) = l
    BY <1>3, <1>4
<1>6. "[" \in Alphabet /\ "]" \in Alphabet
    BY DEF Alphabet
<1>7. Bracketed(ItemTexts(s)) \in Text
    BY <1>5, <1>6, Enclosed DEF Bracketed
<1>8. Items(s) = Field("items", Bracketed(ItemTexts(s)))
    BY DEF Items, ItemTexts
<1>9. QED
    BY <1>1, <1>2, <1>4, <1>5, <1>7, <1>8, FieldText DEF Names

(* and the document.                                                        *)
LEMMA WrittenText ==
    ASSUME NEW s \in SavedDocument
    PROVE  /\ Members(s) \in Seq(Text) /\ Len(Members(s)) = 2
           /\ Written(s) \in Text
           /\ Has(Written(s), 1, <<LBrace>>)
           /\ Has(Written(s), 2, From(Members(s), 0) \o (<<RBrace>> \o <<>>))
PROOF
<1>1. PICK f \in Text, i \in Text : f = Field("next_id", Decimal(s.nextId)) /\ i = Items(s)
  <2>1. Decimal(s.nextId) \in Text
      BY DecimalText DEF SavedDocument
  <2>2. Field("next_id", Decimal(s.nextId)) \in Text
      BY <2>1, FieldText DEF Names
  <2>3. QED
      BY <2>2, ItemsText
<1>2. PICK ps \in Seq(Text) : ps = Members(s) /\ ps = <<f, i>> /\ Len(ps) = 2
  <2>1. <<f, i>> \in Seq(Text)
      OBVIOUS
  <2>2. QED
      BY <1>1, <2>1 DEF Members
<1>3. PICK o \in Text, m \in Text, c \in Text : o = <<LBrace>> /\ m = <<",">> /\ c = <<RBrace>>
  <2>1. LBrace \in Alphabet /\ "," \in Alphabet /\ RBrace \in Alphabet
      BY DEF Alphabet, LBrace, RBrace
  <2>2. QED
      BY <2>1, CharText
<1>4. PICK u \in Text : u = m \o i
    BY TextConcat
<1>5. Commas(ps) = f \o u
  <2>1. From(ps, 0) = Commas(ps) /\ From(ps, 0) = f \o From(ps, 1)
    <3>1. 0 \in 0..Len(ps) /\ 0 < Len(ps) /\ 1 \in 1..Len(ps)
        BY <1>2
    <3>2. 0 + 1 = 1
        OBVIOUS
    <3>3. Separated(ps)[1] = f
        BY <1>2, <3>1, SeparatedText
    <3>4. From(ps, 0) = Separated(ps)[1] \o From(ps, 1)
        BY <3>1, <3>2, FromText
    <3>5. QED
        BY <3>1, <3>3, <3>4, FromText
  <2>2. From(ps, 1) = u
    <3>1. 1 \in 0..Len(ps) /\ 1 < Len(ps) /\ 2 \in 1..Len(ps) /\ 2 \in 0..Len(ps)
        BY <1>2
    <3>2. 1 + 1 = 2
        OBVIOUS
    <3>3. Separated(ps)[2] = u
      <4>1. ps[2] = i /\ 2 # 1
          BY <1>2
      <4>2. Separated(ps)[2] = IF 2 = 1 THEN ps[2] ELSE <<",">> \o ps[2]
          BY <3>1, SeparatedText
      <4>3. QED
          BY <1>3, <1>4, <4>1, <4>2
    <3>4. From(ps, 1) = Separated(ps)[2] \o From(ps, 2)
        BY <3>1, <3>2, FromText
    <3>5. From(ps, 2) = <<>>
        BY <1>2, <3>1, FromText
    <3>6. QED
        BY <3>3, <3>4, <3>5, TextConcat
  <2>3. QED
      BY <2>1, <2>2
<1>6. PICK w \in Text : w = o \o Commas(ps) \o c
  <2>1. LBrace \in Alphabet /\ RBrace \in Alphabet
      BY DEF Alphabet, LBrace, RBrace
  <2>2. QED
      BY <1>3, <2>1, Enclosed
<1>7. Written(s) = w
  <2>1. PICK of \in Text, fm \in Text : of = o \o f /\ fm = of \o m
    <3>1. o \o f \in Text
        BY TextConcat
    <3>2. (o \o f) \o m \in Text
        BY <3>1, TextConcat
    <3>3. QED
        BY <3>1, <3>2
  <2>2. Written(s) = (fm \o i) \o c
      BY <1>1, <1>3, <2>1 DEF Written, LBrace, RBrace
  <2>3. fm \o i = of \o u
    <3>1. Associates(of, m, i)
        BY TextAssociates, Zenon
    <3>2. QED
        BY <1>4, <2>1, <3>1 DEF Associates
  <2>4. of \o u = o \o (f \o u)
    <3>1. Associates(o, f, u)
        BY TextAssociates, Zenon
    <3>2. QED
        BY <2>1, <3>1 DEF Associates
  <2>5. QED
      BY <1>5, <1>6, <2>2, <2>3, <2>4
<1>8. Has(w, 1, w) /\ Has(w, 1 + Len(w), <<>>)
  <2>1. Len(w) \in Nat /\ Len(<<>>) = 0
      BY TextConcat
  <2>2. QED
      BY <2>1, HasItself DEF Has
<1>9. Has(w, 1, o) /\ Has(w, 2, From(ps, 0) \o (c \o <<>>))
  <2>1. /\ LBrace \in Alphabet /\ RBrace \in Alphabet /\ 1 \in Positions
        /\ <<>> \in Text
    <3>1. <<>> \in Text
        BY EmptySeq DEF Text
    <3>2. QED
        BY <3>1 DEF Alphabet, Positions, LBrace, RBrace
  <2>2. Has(w, 1, o) /\ Has(w, 1 + 1, From(ps, 0) \o (c \o <<>>))
      BY <1>2, <1>3, <1>6, <1>8, <2>1, Enclosed
  <2>3. QED
      BY <2>2
<1>10. QED
    BY <1>2, <1>3, <1>7, <1>9
-----------------------------------------------------------------------------
(* Steps over blanks and over the name of a member.                         *)
Blanks == {" ", "LF", "CR", "TAB"}

(* SkipWS stays where there is no blank.                                    *)
LEMMA SkipNone ==
    ASSUME NEW t \in Text, NEW p \in Positions, At(t, p) \notin Blanks
    PROVE  SkipWS(t, p) = p
PROOF
<1>1. Len(t) \in Nat /\ p \in Nat
    BY LenProperties DEF Text, Positions
<1>2. p \in p..p + Len(t) /\ \A r \in p..p - 1 : At(t, r) \in Blanks
    BY <1>1
<1>3. Past(t, p, Blanks) = p
    BY <1>2, PastIs
<1>4. QED
    BY <1>3 DEF SkipWS, Blanks

(* Past finds a position, no earlier than where it starts.                  *)
LEMMA PastMoves ==
    ASSUME NEW t \in Text, NEW p \in Positions, NEW S, "NUL" \notin S
    PROVE  Past(t, p, S) \in Positions /\ Past(t, p, S) >= p
PROOF
<1>1. PICK n \in Nat : n = Len(t) /\ p \in Nat /\ p # 0
    BY LenProperties DEF Text, Positions
<1> DEFINE Outside == {q \in Nat : q >= p /\ At(t, q) \notin S}
<1>2. p + n \in Outside
    BY <1>1 DEF At
<1>3. PICK q \in Outside : \A r \in Outside : q <= r
    BY <1>2, NatWellOrdered
<1>4. q \in p..p + n
    BY <1>1, <1>2, <1>3
<1>5. \A r \in p..q - 1 : At(t, r) \in S
  <2>1. ASSUME NEW r \in p..q - 1 PROVE At(t, r) \in S
    <3>1. r \in Nat /\ r >= p /\ ~(q <= r)
        BY <1>1, <1>4
    <3>2. QED
        BY <1>3, <3>1
  <2>2. QED
      BY <2>1
<1>6. Past(t, p, S) = q
    BY <1>1, <1>3, <1>4, <1>5, PastIs
<1>7. QED
    BY <1>1, <1>4, <1>6 DEF Positions

(* parseString ends at a later position, whatever the text.                 *)
LEMMA StringMoves ==
    ASSUME NEW t \in Text, NEW p \in Positions
    PROVE  ReadString(t, p).pos \in Positions /\ ReadString(t, p).pos > p
PROOF
<1>1. PICK f : Stepwise(t, f) /\ Moves(t, f) /\ Reads(t, f)
    BY ReaderSteps, StepsMove
<1>2. PICK n \in Nat : n = Len(t)
    BY LenProperties DEF Text
<1> DEFINE Later(q) == f[q].pos \in Positions /\ f[q].pos >= q
           N == {j \in Nat : \A q \in Positions : q + j > n => Later(q)}
<1>3. 0 \in N
  <2>1. ASSUME NEW q \in Positions, q > n PROVE Later(q)
    <3>1. f[q].pos = q
        BY <1>1, <1>2, <2>1 DEF Moves
    <3>2. QED
        BY <3>1 DEF Positions
  <2>2. \A q \in Positions : q + 0 = q
      BY DEF Positions
  <2>3. QED
      BY <2>1, <2>2
<1>4. ASSUME NEW j \in Nat, j \in N PROVE j + 1 \in N
  <2> SUFFICES ASSUME NEW q \in Positions, q + (j + 1) > n PROVE Later(q)
      OBVIOUS
  <2>1. CASE q > n
    <3>1. f[q].pos = q
        BY <1>1, <1>2, <2>1 DEF Moves
    <3>2. QED
        BY <3>1 DEF Positions
  <2>2. CASE q <= n /\ t[q] = Quote
    <3>1. f[q] = [value |-> <<>>, pos |-> q + 1]
        BY <1>1, <1>2, <2>2 DEF Stepwise
    <3>2. QED
        BY <3>1 DEF Positions
  <2>3. CASE q <= n /\ t[q] # Quote
    <3>1. f[q].pos = f[q + Width(t, q)].pos
        BY <1>1, <1>2, <2>3 DEF Moves
    <3>2. PICK r \in Positions : r = q + Width(t, q) /\ r + j > n /\ r >= q
      <4>1. Width(t, q) \in {1, 2, 6}
          BY DEF Width
      <4>2. QED
          BY <4>1 DEF Positions
    <3>3. Later(r)
        BY <1>4, <3>2
    <3>4. QED
        BY <3>1, <3>2, <3>3 DEF Positions
  <2>4. q > n \/ q <= n
      BY DEF Positions
  <2>5. QED
      BY <2>1, <2>2, <2>3, <2>4
<1> HIDE DEF N
<1>5. \A j \in Nat : j \in N
    BY <1>3, <1>4, NatSetInduction
<1>6. p + 1 \in Positions /\ (p + 1) + n > n
    BY DEF Positions
<1>7. f[p + 1].pos \in Positions /\ f[p + 1].pos >= p + 1
    BY <1>5, <1>6 DEF N
<1>8. ReadString(t, p) = f[p + 1]
    BY <1>1 DEF Reads, Positions
<1>9. QED
    BY <1>7, <1>8 DEF Positions

(* The four characters before a value.                                      *)
LEMMA HeaderHas ==
    ASSUME NEW t \in Text, NEW p \in Positions, NEW name \in Names, Has(t, p, Header(name))
    PROVE  /\ p + 3 <= Len(t)
           /\ t[p] = Quote /\ t[p + 1] = name /\ t[p + 2] = Quote /\ t[p + 3] = ":"
PROOF
<1>1. PICK u \in Text : u = Header(name) /\ Len(u) = 4
  <2>1. "[" \in Alphabet
      BY DEF Alphabet
  <2>2. QED
      BY <2>1, CharText, FieldText
<1>2. u[1] = Quote /\ u[2] = name /\ u[3] = Quote /\ u[4] = ":"
    BY <1>1 DEF Header
<1>3. Len(t) \in Nat /\ p \in Nat
    BY TextConcat DEF Positions
<1>4. p + 4 <= Len(t) + 1 /\ \A i \in 1..4 : t[p + i - 1] = u[i]
    BY <1>1 DEF Has
<1>5. p + 1 - 1 = p /\ p + 2 - 1 = p + 1 /\ p + 3 - 1 = p + 2 /\ p + 4 - 1 = p + 3
    BY <1>3
<1>6. t[p] = u[1] /\ t[p + 1] = u[2] /\ t[p + 2] = u[3] /\ t[p + 3] = u[4]
  <2>1. 1 \in 1..4 /\ 2 \in 1..4 /\ 3 \in 1..4 /\ 4 \in 1..4
      OBVIOUS
  <2>2. QED
      BY <1>4, <1>5, <2>1
<1>7. QED
    BY <1>2, <1>3, <1>4, <1>6

(* A character that is neither a quote nor a backslash.                     *)
LEMMA OneNamed ==
    ASSUME NEW t \in Text, NEW f, Stepwise(t, f), NEW q \in Positions, q <= Len(t),
           NEW name \in Names, t[q] = name
    PROVE  f[q] = [value |-> <<name>> \o f[q + 1].value, pos |-> f[q + 1].pos]
PROOF
<1>1. name # Quote /\ name # Backslash
    BY DEF Names, Quote, Backslash
<1>2. Width(t, q) = 1 /\ Decoded(t, q) = <<name>>
    BY <1>1 DEF Width, Decoded, Codes, Escapes
<1>3. f[q] = [value |-> Decoded(t, q) \o f[q + Width(t, q)].value,
              pos   |-> f[q + Width(t, q)].pos]
    BY <1>1, Zenon DEF Stepwise
<1>4. QED
    BY <1>2, <1>3

(* The name of a member that is there in full is read as it is,             *)
LEMMA NameRead ==
    ASSUME NEW t \in Text, NEW p \in Positions, NEW name \in Names, Has(t, p, Header(name)),
           At(t, p + 4) \notin Blanks
    PROVE  ReadName(t, p) = [name |-> <<name>>, pos |-> p + 4]
PROOF
<1>1. PICK f : Stepwise(t, f) /\ Reads(t, f)
    BY ReaderSteps
<1>2. /\ p + 3 <= Len(t) /\ Len(t) \in Nat
      /\ t[p + 1] = name /\ t[p + 2] = Quote /\ t[p + 3] = ":"
    BY HeaderHas, TextConcat
<1>3. PICK q \in Positions, r \in Positions, x \in Positions, y \in Positions :
          q = p + 1 /\ r = p + 2 /\ x = p + 3 /\ y = p + 4
    BY DEF Positions
<1>4. q <= Len(t) /\ r <= Len(t) /\ x <= Len(t) /\ r = q + 1 /\ x = r + 1 /\ y = x + 1
    BY <1>2, <1>3 DEF Positions
<1>5. f[r] = [value |-> <<>>, pos |-> x]
  <2>1. r <= Len(t) /\ t[r] = Quote
      BY <1>2, <1>3, <1>4
  <2>2. f[r] = [value |-> <<>>, pos |-> r + 1]
      BY <1>1, <2>1, Zenon DEF Stepwise
  <2>3. QED
      BY <1>4, <2>2
<1>6. f[q] = [value |-> <<name>> \o f[r].value, pos |-> f[r].pos]
  <2>1. q <= Len(t) /\ t[q] = name
      BY <1>2, <1>3, <1>4
  <2>2. f[q] = [value |-> <<name>> \o f[q + 1].value, pos |-> f[q + 1].pos]
      BY <1>1, <2>1, OneNamed
  <2>3. QED
      BY <1>4, <2>2
<1>7. f[q] = [value |-> <<name>>, pos |-> x]
  <2>1. <<name>> \o <<>> = <<name>>
      OBVIOUS
  <2>2. f[r].value = <<>> /\ f[r].pos = x
      BY <1>5
  <2>3. QED
      BY <1>6, <2>1, <2>2
<1>8. ReadString(t, p) = [value |-> <<name>>, pos |-> x]
    BY <1>1, <1>3, <1>7 DEF Reads, Positions
<1>9. At(t, x) = ":" /\ SkipWS(t, x) = x
  <2>1. At(t, x) = ":"
      BY <1>2, <1>3, <1>4 DEF At
  <2>2. ":" \notin Blanks
      BY DEF Blanks
  <2>3. QED
      BY <2>1, <2>2, SkipNone
<1>10. SkipWS(t, y) = y
    BY <1>3, SkipNone
<1>11. QED
    BY <1>3, <1>4, <1>8, <1>9, <1>10 DEF ReadName

(* Past the end there are no blanks and no colon.                           *)
LEMMA NamePast ==
    ASSUME NEW t \in Text, NEW p \in Positions, ReadString(t, p).pos > Len(t)
    PROVE  ReadName(t, p).pos \in Positions /\ ReadName(t, p).pos > Len(t)
PROOF
<1>1. PICK x \in Positions : x = ReadString(t, p).pos
    BY StringMoves
<1>2. At(t, x) = "NUL"
    BY <1>1, TextConcat DEF At, Positions
<1>3. SkipWS(t, x) = x
    BY <1>2, SkipNone DEF Blanks
<1>4. ReadName(t, p).pos = x
    BY <1>1, <1>2, <1>3 DEF ReadName
<1>5. QED
    BY <1>1, <1>4

(* and one that was cut short is read to the end of the text.               *)
LEMMA NameCut ==
    ASSUME NEW w \in Text, NEW n \in 0..Len(w), NEW p \in Positions, NEW name \in Names,
           Has(w, p, Header(name)), p <= n, n < p + 3
    PROVE  /\ ReadName(SubSeq(w, 1, n), p).pos \in Positions
           /\ ReadName(SubSeq(w, 1, n), p).pos > n
PROOF
<1>1. Len(w) \in Nat /\ n \in Nat /\ n <= Len(w) /\ p \in Nat
    BY TextConcat DEF Positions
<1>2. PICK t \in Text : t = SubSeq(w, 1, n) /\ Len(t) = n
    BY <1>1, PrefixProperties DEF Text
<1>3. \A i \in 1..n : t[i] = w[i]
    BY <1>1, <1>2, PrefixProperties DEF Text
<1>4. PICK f : Stepwise(t, f) /\ Moves(t, f) /\ Reads(t, f)
    BY ReaderSteps, StepsMove
<1>5. w[p + 1] = name /\ w[p + 2] = Quote
    BY HeaderHas
<1>6. PICK q \in Positions, r \in Positions : q = p + 1 /\ r = p + 2 /\ r = q + 1
    BY DEF Positions
<1>7. ReadString(t, p) = f[q]
    BY <1>4, <1>6 DEF Reads, Positions
<1>8. r > n => f[r].pos > n
    BY <1>2, <1>4 DEF Moves
<1>9. ReadString(t, p).pos > n
  <2>1. CASE n = p
      BY <1>1, <1>2, <2>1, StringPast
  <2>2. CASE n # p
    <3>1. q <= n /\ q \in 1..n
        BY <1>1, <1>6, <2>2
    <3>2. t[q] = name
        BY <1>3, <1>5, <1>6, <3>1
    <3>3. f[q] = [value |-> <<name>> \o f[r].value, pos |-> f[r].pos]
      <4>1. f[q] = [value |-> <<name>> \o f[q + 1].value, pos |-> f[q + 1].pos]
        <5>1. q <= Len(t) /\ Stepwise(t, f)
            BY <1>2, <1>4, <3>1
        <5>2. QED
            BY <3>2, <5>1, OneNamed, Zenon
      <4>2. QED
          BY <1>6, <4>1
    <3>4. CASE r > n
        BY <1>7, <1>8, <3>3, <3>4
    <3>5. CASE r <= n
      <4>1. r = n /\ r \in 1..n /\ t[r] = Quote
          BY <1>1, <1>3, <1>5, <1>6, <3>5
      <4>2. f[r] = [value |-> <<>>, pos |-> r + 1]
        <5>1. r <= Len(t) /\ t[r] = Quote
            BY <1>2, <4>1
        <5>2. QED
            BY <1>4, <5>1, Zenon DEF Stepwise
      <4>3. f[q].pos = r + 1
          BY <3>3, <4>2
      <4>4. QED
          BY <1>1, <1>7, <4>1, <4>3
    <3>6. QED
        BY <1>1, <1>6, <3>4, <3>5
  <2>3. QED
      BY <2>1, <2>2
<1>10. QED
    BY <1>2, <1>9, NamePast
-----------------------------------------------------------------------------
(* The invariant: what the parser has read, and what of the text that was   *)
(* written it has before it.                                                *)

(* What follows the last member, item, field of item n, action of item n,   *)
(* when n is the one behind the first k.                                    *)
AfterMembers       == <<RBrace>> \o <<>>
AfterItems(s)      == <<"]">> \o (From(Members(s), 2) \o AfterMembers)
AfterFields(s, k)  == <<RBrace>> \o (From(ItemTexts(s), k + 1) \o AfterItems(s))
AfterActions(s, k) == <<"]">> \o (From(Fields(s.items[k + 1]), 7) \o AfterFields(s, k))

(* The item n when f of its fields are read.                                *)
Part(n, f) ==
    [id      |-> IF f >= 1 THEN n.id ELSE 0,
     app     |-> IF f >= 2 THEN n.app ELSE <<>>,
     text    |-> IF f >= 3 THEN n.text ELSE <<>>,
     timeout |-> IF f >= 4 THEN n.timeout ELSE -1,
     urgency |-> IF f >= 5 THEN n.urgency ELSE 1,
     state   |-> IF f >= 6 THEN n.state ELSE 0,
     actions |-> IF f >= 7 THEN n.actions ELSE <<>>]

AtStart == loop = "start" /\ pos = 1 /\ counter = 1 /\ items = <<>>

AtObject ==
    /\ loop = "object"
    /\ \E k \in 0..2 :
          /\ Ahead(Written(saved), pos, Members(saved), k, AfterMembers)
          /\ counter = IF k = 0 THEN 1 ELSE saved.nextId
          /\ items = IF k = 2 THEN saved.items ELSE <<>>

AtItems ==
    /\ loop = "items"
    /\ counter = saved.nextId
    /\ \E k \in 0..Len(saved.items) :
          /\ Ahead(Written(saved), pos, ItemTexts(saved), k, AfterItems(saved))
          /\ items = SubSeq(saved.items, 1, k)

AtItem ==
    /\ loop = "item"
    /\ counter = saved.nextId
    /\ \E k \in 0..Len(saved.items) - 1, f \in 0..7 :
          /\ Ahead(Written(saved), pos, Fields(saved.items[k + 1]), f, AfterFields(saved, k))
          /\ items = SubSeq(saved.items, 1, k)
          /\ item = Part(saved.items[k + 1], f)

AtActions ==
    /\ loop = "actions"
    /\ counter = saved.nextId
    /\ \E k \in 0..Len(saved.items) - 1 : \E j \in 0..Len(saved.items[k + 1].actions) :
          /\ Ahead(Written(saved), pos, ActionTexts(saved.items[k + 1]), j, AfterActions(saved, k))
          /\ items = SubSeq(saved.items, 1, k)
          /\ item = [Part(saved.items[k + 1], 6) EXCEPT
                        !.actions = SubSeq(saved.items[k + 1].actions, 1, j)]

AtEnd == loop = "done" /\ counter = saved.nextId /\ items = saved.items

InList  == AtObject \/ AtItems \/ AtItem \/ AtActions
OnTrack == AtStart \/ InList \/ AtEnd

(* The ids that were read are below the counter that was read.              *)
Below(is, c) == \E S : is \in Seq(S) /\ \A x \in S : x.id \in Nat /\ x.id < c

(* What is left of the item n: fields that are blank, whole or cut, and     *)
(* some of its actions, of which the last may be cut.                       *)
Numbers == {"id", "timeout", "urgency", "state"}
Strings == {"app", "text"}

Left(n, g) == {Blank[g]} \cup IF g \in Numbers THEN Shortened(n[g]) ELSE Pieces(n[g])

ActionsLeft(n, as) ==
    \/ \E j \in 0..Len(n.actions) : as = SubSeq(n.actions, 1, j)
    \/ \E j \in 0..Len(n.actions) - 1 : \E y \in Pieces(n.actions[j + 1]) :
           as = Append(SubSeq(n.actions, 1, j), y)

CutItem(n, x) == (\A g \in Numbers \cup Strings : x[g] \in Left(n, g)) /\ ActionsLeft(n, x.actions)

(* What the parser has when the text has ended in the counter or before it, *)
(* between two items or behind the last, in an item, or when the item that  *)
(* it ended in is one of the list.                                          *)
LostEarly ==
    /\ loop \in {"object", "done"}
    /\ counter \in {1} \cup Leading(saved.nextId) /\ items = <<>>

LostBetween ==
    /\ loop \in {"object", "items", "done"}
    /\ counter = saved.nextId
    /\ \E k \in 0..Len(saved.items) : items = SubSeq(saved.items, 1, k)

LostInside ==
    /\ loop \in {"item", "actions"}
    /\ counter = saved.nextId
    /\ \E k \in 0..Len(saved.items) - 1 :
          items = SubSeq(saved.items, 1, k) /\ CutItem(saved.items[k + 1], item)

LostAfter ==
    /\ loop \in {"object", "items", "done"}
    /\ counter = saved.nextId
    /\ \E k \in 0..Len(saved.items) - 1 : \E x :
          /\ items = Append(SubSeq(saved.items, 1, k), x)
          /\ CutItem(saved.items[k + 1], x) /\ x.id # 0

Remains == LostEarly \/ LostBetween \/ LostInside \/ LostAfter

(* A text that was cut short: the parser is past its end, or has thrown.    *)
Lost == Len(text) < Len(Written(saved)) /\ ((pos > Len(text) /\ Remains) \/ loop = "thrown")

Input ==
    /\ saved \in Saved
    /\ \E n \in 0..Len(Written(saved)) : text = SubSeq(Written(saved), 1, n)

Inv == Input /\ pos \in Positions /\ (OnTrack \/ Lost)
-----------------------------------------------------------------------------
Fresh(s) == {x \in SavedItem : x.id < s.nextId}

(* The documents that are saved; no id in them reaches the counter.         *)
LEMMA SavedType ==
    ASSUME Input
    PROVE  /\ saved \in SavedDocument /\ saved.nextId \in Nat
           /\ saved.items \in Seq(SavedItem) /\ saved.items \in Seq(Fresh(saved))
           /\ \A k \in 0..Len(saved.items) - 1 : saved.items[k + 1] \in Fresh(saved)
PROOF
<1>1. saved \in SavedDocument
  <2>1. Handles \subseteq Nat
      BY IdMaxAssumption DEF Handles
  <2>2. QED
      BY <2>1, SavedAssumption DEF Input, SavedDocument
<1>2. PICK is \in Seq(SavedItem) : is = saved.items
    BY <1>1 DEF SavedDocument
<1>3. PICK l \in Nat : l = Len(is) /\ DOMAIN is = 1..l /\ \A k \in 1..l : is[k] \in SavedItem
    BY LenProperties
<1>4. \A k \in 1..l : is[k].id < saved.nextId
    BY <1>2, <1>3, IdsAssumption DEF Input
<1>5. \A k \in 1..l : is[k] \in Fresh(saved)
    BY <1>3, <1>4 DEF Fresh
<1>6. is \in Seq(Fresh(saved))
  <2>1. is \in [1..l -> Fresh(saved)]
    <3>1. is = [k \in 1..l |-> is[k]]
        BY <1>3
    <3>2. QED
        BY <1>5, <3>1
  <2>2. QED
      BY <2>1
<1>7. \A k \in 0..l - 1 : k + 1 \in 1..l
    BY <1>3
<1>8. QED
    BY <1>1, <1>2, <1>3, <1>5, <1>6, <1>7 DEF SavedDocument

(* The text and what it was cut from.                                       *)
LEMMA InputType ==
    ASSUME Input
    PROVE  /\ Written(saved) \in Text /\ Len(Written(saved)) \in Nat
           /\ text \in Text /\ Len(text) \in 0..Len(Written(saved))
           /\ text = SubSeq(Written(saved), 1, Len(text))
           /\ \A p \in Positions : p <= Len(text) => At(text, p) = Written(saved)[p]
           /\ \A p \in Positions : p > Len(text) => At(text, p) = "NUL"
PROOF
<1>1. Written(saved) \in Text
    BY SavedType, WrittenText
<1>2. PICK w \in Text : w = Written(saved)
    BY <1>1
<1>3. PICK n \in 0..Len(w) : text = SubSeq(w, 1, n)
    BY <1>2 DEF Input
<1>4. Len(w) \in Nat
    BY TextConcat
<1>5. text \in Text /\ Len(text) = n /\ \A i \in 1..n : text[i] = w[i]
    BY <1>3, <1>4, PrefixProperties DEF Text
<1>6. \A p \in Positions : p <= n => p \in 1..n
    BY <1>4 DEF Positions
<1>7. \A p \in Positions : p > n => ~(p <= n)
    BY <1>4 DEF Positions
<1>8. QED
    BY <1>2, <1>3, <1>4, <1>5, <1>6, <1>7 DEF At

(* What is behind the end of a list.                                        *)
BehindItems(s)      == From(Members(s), 2) \o AfterMembers
BehindFields(s, k)  == From(ItemTexts(s), k + 1) \o AfterItems(s)
BehindActions(s, k) == From(Fields(s.items[k + 1]), 7) \o AfterFields(s, k)

(* What follows the lists: their closing character and what is behind it.   *)
LEMMA AfterText ==
    ASSUME NEW s \in SavedDocument
    PROVE  /\ AfterMembers \in Text
           /\ BehindItems(s) \in Text /\ AfterItems(s) \in Text
           /\ AfterItems(s) = <<"]">> \o BehindItems(s)
           /\ \A k \in 0..Len(s.items) - 1 :
                  /\ s.items[k + 1] \in SavedItem
                  /\ BehindFields(s, k) \in Text /\ AfterFields(s, k) \in Text
                  /\ AfterFields(s, k) = <<RBrace>> \o BehindFields(s, k)
                  /\ BehindActions(s, k) \in Text /\ AfterActions(s, k) \in Text
                  /\ AfterActions(s, k) = <<"]">> \o BehindActions(s, k)
PROOF
<1>1. <<RBrace>> \in Text /\ <<"]">> \in Text /\ <<>> \in Text
  <2>1. RBrace \in Alphabet /\ "]" \in Alphabet
      BY DEF Alphabet, RBrace
  <2>2. <<>> \in Text
      BY EmptySeq DEF Text
  <2>3. QED
      BY <2>1, <2>2, CharText
<1>2. AfterMembers \in Text
    BY <1>1, TextConcat DEF AfterMembers
<1>3. From(Members(s), 2) \in Text
  <2>1. Members(s) \in Seq(Text) /\ 2 \in 0..Len(Members(s))
    <3>1. Members(s) \in Seq(Text) /\ Len(Members(s)) = 2
        BY WrittenText
    <3>2. 2 \in 0..2
        OBVIOUS
    <3>3. QED
        BY <3>1, <3>2
  <2>2. QED
      BY <2>1, FromText
<1>4. BehindItems(s) \in Text
    BY <1>2, <1>3, TextConcat DEF BehindItems
<1>5. AfterItems(s) = <<"]">> \o BehindItems(s)
    BY DEF AfterItems, BehindItems
<1>6. AfterItems(s) \in Text
    BY <1>1, <1>4, <1>5, TextConcat
<1>7. ASSUME NEW k \in 0..Len(s.items) - 1
      PROVE  /\ s.items[k + 1] \in SavedItem
             /\ BehindFields(s, k) \in Text /\ AfterFields(s, k) \in Text
             /\ AfterFields(s, k) = <<RBrace>> \o BehindFields(s, k)
             /\ BehindActions(s, k) \in Text /\ AfterActions(s, k) \in Text
             /\ AfterActions(s, k) = <<"]">> \o BehindActions(s, k)
  <2>1. PICK l \in Nat : l = Len(s.items) /\ k + 1 \in 1..l /\ k + 1 \in 0..l
    <3>1. Len(s.items) \in Nat
        BY LenProperties DEF SavedDocument
    <3>2. QED
        BY <3>1
  <2>2. s.items[k + 1] \in SavedItem
      BY <2>1, ItemsText
  <2>3. From(ItemTexts(s), k + 1) \in Text
      BY <2>1, ItemsText, FromText
  <2>4. BehindFields(s, k) \in Text
      BY <1>6, <2>3, TextConcat DEF BehindFields
  <2>5. AfterFields(s, k) = <<RBrace>> \o BehindFields(s, k)
      BY DEF AfterFields, BehindFields
  <2>6. AfterFields(s, k) \in Text
      BY <1>1, <2>4, <2>5, TextConcat
  <2>7. From(Fields(s.items[k + 1]), 7) \in Text
    <3>1. Fields(s.items[k + 1]) \in Seq(Text) /\ 7 \in 0..Len(Fields(s.items[k + 1]))
      <4>1. Fields(s.items[k + 1]) \in Seq(Text) /\ Len(Fields(s.items[k + 1])) = 7
          BY <2>2, FieldsText
      <4>2. 7 \in 0..7
          OBVIOUS
      <4>3. QED
          BY <4>1, <4>2
    <3>2. QED
        BY <3>1, FromText
  <2>8. BehindActions(s, k) \in Text
      BY <2>6, <2>7, TextConcat DEF BehindActions
  <2>9. AfterActions(s, k) = <<"]">> \o BehindActions(s, k)
      BY DEF AfterActions, BehindActions
  <2>10. AfterActions(s, k) \in Text
      BY <1>1, <2>8, <2>9, TextConcat
  <2>11. QED
      BY <2>2, <2>4, <2>5, <2>6, <2>8, <2>9, <2>10
<1>8. QED
    BY <1>2, <1>4, <1>5, <1>6, <1>7

(* The parser is in the loop l, k of the parts ps are behind it, v is what  *)
(* is behind the end of the list.                                           *)
Opens(ps, c) == \A i \in 1..Len(ps) : Len(ps[i]) \in Nat /\ Len(ps[i]) >= 1 /\ ps[i][1] = c

View(l, ps, k, v) ==
    /\ ps \in Seq(Text) /\ k \in 0..Len(ps) /\ v \in Text
    /\ Opens(ps, Loops[l].open)
    /\ Ahead(Written(saved), pos, ps, k, <<Loops[l].close>> \o v)

(* No loop takes a comma, a blank or the end of the text for a bracket.     *)
LEMMA LoopChars ==
    /\ \A l \in DOMAIN Loops :
           /\ Loops[l].open \in Alphabet /\ Loops[l].close \in Alphabet
           /\ Loops[l].open # Loops[l].close
           /\ "," \notin {Loops[l].open, Loops[l].close}
           /\ ({"NUL", ",", Loops[l].open, Loops[l].close} \cap Blanks) = {}
           /\ "NUL" \notin {Loops[l].open, Loops[l].close}
    /\ DOMAIN Loops = {"object", "items", "item", "actions"}
    /\ Loops["object"] = [open |-> Quote, close |-> RBrace, outer |-> "done"]
    /\ Loops["items"] = [open |-> LBrace, close |-> "]", outer |-> "object"]
    /\ Loops["item"] = [open |-> Quote, close |-> RBrace, outer |-> "items"]
    /\ Loops["actions"] = [open |-> Quote, close |-> "]", outer |-> "item"]
PROOF
<1>1. DOMAIN Loops = {"object", "items", "item", "actions"}
    BY DEF Loops, LBrace, RBrace
<1>2. /\ Loops["object"] = [open |-> Quote, close |-> RBrace, outer |-> "done"]
      /\ Loops["items"] = [open |-> LBrace, close |-> "]", outer |-> "object"]
      /\ Loops["item"] = [open |-> Quote, close |-> RBrace, outer |-> "items"]
      /\ Loops["actions"] = [open |-> Quote, close |-> "]", outer |-> "item"]
    BY DEF Loops, LBrace, RBrace
<1>3. ASSUME NEW l \in DOMAIN Loops
      PROVE  Loops[l].open \in {Quote, LBrace} /\ Loops[l].close \in {RBrace, "]"}
  <2>1. l = "object" \/ l = "items" \/ l = "item" \/ l = "actions"
      BY <1>1
  <2>2. CASE l = "object"
    <3>1. Loops[l] = [open |-> Quote, close |-> RBrace, outer |-> "done"]
        BY <1>2, <2>2
    <3>2. QED
        BY <3>1
  <2>3. CASE l = "items"
    <3>1. Loops[l] = [open |-> LBrace, close |-> "]", outer |-> "object"]
        BY <1>2, <2>3
    <3>2. QED
        BY <3>1
  <2>4. CASE l = "item"
    <3>1. Loops[l] = [open |-> Quote, close |-> RBrace, outer |-> "items"]
        BY <1>2, <2>4
    <3>2. QED
        BY <3>1
  <2>5. CASE l = "actions"
    <3>1. Loops[l] = [open |-> Quote, close |-> "]", outer |-> "item"]
        BY <1>2, <2>5
    <3>2. QED
        BY <3>1
  <2>6. QED
      BY <2>1, <2>2, <2>3, <2>4, <2>5
<1>4. ASSUME NEW o \in {Quote, LBrace}, NEW c \in {RBrace, "]"}
      PROVE  /\ o \in Alphabet /\ c \in Alphabet /\ o # c /\ "," \notin {o, c}
             /\ ({"NUL", ",", o, c} \cap Blanks) = {}
             /\ "NUL" \notin {o, c}
    BY DEF Alphabet, Blanks, Quote, LBrace, RBrace
<1>5. QED
    BY <1>1, <1>2, <1>3, <1>4

(* The brackets of each loop.                                               *)
LEMMA LoopsAre ==
    /\ Loops["object"].open = Quote /\ Loops["object"].close = RBrace
    /\ Loops["object"].outer = "done"
    /\ Loops["items"].open = LBrace /\ Loops["items"].close = "]"
    /\ Loops["items"].outer = "object"
    /\ Loops["item"].open = Quote /\ Loops["item"].close = RBrace
    /\ Loops["item"].outer = "items"
    /\ Loops["actions"].open = Quote /\ Loops["actions"].close = "]"
    /\ Loops["actions"].outer = "item"
PROOF
<1>1. Loops["object"] = [open |-> Quote, close |-> RBrace, outer |-> "done"]
    BY LoopChars
<1>2. Loops["items"] = [open |-> LBrace, close |-> "]", outer |-> "object"]
    BY LoopChars
<1>3. Loops["item"] = [open |-> Quote, close |-> RBrace, outer |-> "items"]
    BY LoopChars
<1>4. Loops["actions"] = [open |-> Quote, close |-> "]", outer |-> "item"]
    BY LoopChars
<1>5. QED
    BY <1>1, <1>2, <1>3, <1>4

(* There is always more of the text that was written: the end of the list.  *)
LEMMA ViewInside ==
    ASSUME Input, pos \in Positions, NEW l \in DOMAIN Loops, NEW ps, NEW k, NEW v, View(l, ps, k, v)
    PROVE  /\ pos <= Len(Written(saved))
           /\ LET c == Written(saved)[pos]
              IN  \/ c = Loops[l].open /\ PartNext(Written(saved), pos, ps, k, <<Loops[l].close>> \o v)
                  \/ c = "," /\ Ahead(Written(saved), pos + 1, ps, k, <<Loops[l].close>> \o v)
                  \/ c = Loops[l].close /\ k = Len(ps) /\ Has(Written(saved), pos + 1, v)
PROOF
<1>1. PICK w \in Text : w = Written(saved)
    BY InputType
<1>2. PICK c \in Alphabet : c = Loops[l].close
    BY LoopChars
<1>3. /\ ps \in Seq(Text) /\ k \in 0..Len(ps) /\ v \in Text
      /\ Ahead(w, pos, ps, k, <<c>> \o v)
    BY <1>1, <1>2 DEF View
<1>4. \/ PartNext(w, pos, ps, k, <<c>> \o v)
      \/ Has(w, pos, <<",">>) /\ Ahead(w, pos + 1, ps, k, <<c>> \o v)
      \/ k = Len(ps) /\ Has(w, pos, <<c>>) /\ Has(w, pos + 1, v)
    BY <1>3, AheadNext
<1>5. ASSUME PartNext(w, pos, ps, k, <<c>> \o v)
      PROVE  pos <= Len(w) /\ w[pos] = Loops[l].open
  <2>1. PICK u \in Text : u = ps[k + 1] /\ Has(w, pos, u)
      BY <1>5 DEF PartNext
  <2>2. k + 1 \in 1..Len(ps)
      BY <1>3, <1>5, LenProperties DEF PartNext
  <2>3. Len(u) \in Nat /\ Len(u) >= 1 /\ u[1] = Loops[l].open
      BY <2>1, <2>2 DEF View, Opens
  <2>4. pos + Len(u) <= Len(w) + 1 /\ w[pos + 1 - 1] = u[1]
      BY <2>1, <2>3 DEF Has
  <2>5. pos + 1 - 1 = pos /\ Len(w) \in Nat
      BY TextConcat DEF Positions
  <2>6. QED
      BY <2>3, <2>4, <2>5 DEF Positions
<1>6. \A x : Has(w, pos, <<x>>) => pos <= Len(w) /\ w[pos] = x
    BY HasOne DEF Positions
<1>7. QED
    BY <1>1, <1>2, <1>4, <1>5, <1>6

(* What the parser sees of it.                                              *)
LEMMA ViewSeen ==
    ASSUME Input, pos \in Positions, pos <= Len(text),
           NEW l \in DOMAIN Loops, NEW ps, NEW k, NEW v, View(l, ps, k, v)
    PROVE  /\ Here = pos
           /\ At(text, pos) = Loops[l].open =>
                  PartNext(Written(saved), pos, ps, k, <<Loops[l].close>> \o v)
           /\ At(text, pos) \notin {Loops[l].open, Loops[l].close} =>
                  Ahead(Written(saved), pos + 1, ps, k, <<Loops[l].close>> \o v)
           /\ At(text, pos) = Loops[l].close =>
                  k = Len(ps) /\ Has(Written(saved), pos + 1, v)
PROOF
<1>1. text \in Text /\ At(text, pos) = Written(saved)[pos]
    BY InputType
<1>2. At(text, pos) \in {",", Loops[l].open, Loops[l].close}
    BY <1>1, ViewInside
<1>3. Here = pos
  <2>1. SkipWS(text, pos) = pos
      BY <1>1, <1>2, SkipNone, LoopChars
  <2>2. QED
      BY <2>1 DEF Here
<1>4. /\ Written(saved)[pos] = Loops[l].open =>
             PartNext(Written(saved), pos, ps, k, <<Loops[l].close>> \o v)
      /\ Written(saved)[pos] \notin {Loops[l].open, Loops[l].close} =>
             Ahead(Written(saved), pos + 1, ps, k, <<Loops[l].close>> \o v)
      /\ Written(saved)[pos] = Loops[l].close =>
             k = Len(ps) /\ Has(Written(saved), pos + 1, v)
    BY ViewInside, LoopChars
<1>5. QED
    BY <1>1, <1>3, <1>4

(* A text begins as its first part does.                                    *)
LEMMA ConcatFirst ==
    ASSUME NEW u \in Text, NEW v \in Text, Len(u) >= 1
    PROVE  Len(u \o v) \in Nat /\ Len(u \o v) >= 1 /\ (u \o v)[1] = u[1]
PROOF
<1>1. Len(u) \in Nat /\ Len(v) \in Nat
    BY TextConcat
<1>2. /\ Len(u \o v) = Len(u) + Len(v)
      /\ \A i \in 1..Len(u) + Len(v) : (u \o v)[i] = IF i <= Len(u) THEN u[i] ELSE v[i - Len(u)]
    BY ConcatProperties DEF Text
<1>3. 1 \in 1..Len(u) + Len(v) /\ 1 <= Len(u)
    BY <1>1
<1>4. QED
    BY <1>1, <1>2, <1>3

FirstIs(u, c) == Len(u) \in Nat /\ Len(u) >= 1 /\ u[1] = c

(* A member begins with a quote,                                            *)
LEMMA FieldFirst ==
    ASSUME NEW name \in Names, NEW value \in Text
    PROVE  FirstIs(Field(name, value), Quote)
PROOF
<1>1. PICK h \in Text : h = Header(name) /\ Len(h) = 4
    BY FieldText
<1>2. h[1] = Quote
    BY <1>1 DEF Header
<1>3. Field(name, value) = h \o value
    BY <1>1, FieldText
<1>4. Len(h) >= 1
    BY <1>1
<1>5. QED
    BY <1>2, <1>3, <1>4, ConcatFirst DEF FirstIs

(* so does a string,                                                        *)
LEMMA EscFirst == ASSUME NEW s \in Seq(Chars) PROVE FirstIs(Esc(s), Quote)
PROOF
<1>1. PICK o \in Text, u \in Text :
          o = <<Quote>> /\ u = FlattenSeq(EscapedAll(s)) /\ Esc(s) = o \o u \o o
  <2>1. Quote \in Alphabet
      BY DEF Alphabet
  <2>2. QED
      BY <2>1, CharText, EscText
<1>2. Len(o) >= 1 /\ o[1] = Quote
    BY <1>1
<1>3. PICK x \in Text : x = o \o u
    BY TextConcat
<1>4. Len(x) >= 1 /\ x[1] = Quote
    BY <1>2, <1>3, ConcatFirst
<1>5. QED
    BY <1>1, <1>3, <1>4, ConcatFirst DEF FirstIs

(* and an item with a brace.                                                *)
LEMMA ItemFirst == ASSUME NEW n \in SavedItem PROVE FirstIs(ItemText(n), LBrace)
PROOF
<1>1. PICK o \in Text, c \in Text, u \in Text : o = <<LBrace>> /\ c = <<RBrace>> /\ u = Commas(Fields(n))
  <2>1. LBrace \in Alphabet /\ RBrace \in Alphabet
      BY DEF Alphabet, LBrace, RBrace
  <2>2. 0 \in 0..Len(Fields(n)) /\ Fields(n) \in Seq(Text)
      BY FieldsText, LenProperties
  <2>3. Commas(Fields(n)) \in Text
      BY <2>2, FromText
  <2>4. QED
      BY <2>1, <2>3, CharText
<1>2. Len(o) >= 1 /\ o[1] = LBrace
    BY <1>1
<1>3. PICK x \in Text : x = o \o u
    BY TextConcat
<1>4. Len(x) >= 1 /\ x[1] = LBrace
    BY <1>2, <1>3, ConcatFirst
<1>5. ItemText(n) = x \o c
    BY <1>1, <1>3, FieldsText
<1>6. QED
    BY <1>4, <1>5, ConcatFirst DEF FirstIs

(* The seven fields of an item: four numbers, two strings, and the actions. *)
FieldNames == <<"id", "app", "text", "timeout", "urgency", "state", "actions">>

FieldValues(n) ==
    <<Decimal(n.id), Esc(n.app), Esc(n.text), Decimal(n.timeout), Decimal(n.urgency),
      Decimal(n.state), Bracketed(ActionTexts(n))>>

(* Each field by its number.                                                *)
LEMMA FieldsAre ==
    ASSUME NEW n \in SavedItem, NEW i \in 1..7
    PROVE  /\ FieldNames[i] \in Names /\ FieldValues(n)[i] \in Text
           /\ Fields(n)[i] = Field(FieldNames[i], FieldValues(n)[i])
PROOF
<1>1. /\ n.id \in Int /\ n.timeout \in Int /\ n.urgency \in Int /\ n.state \in Int
      /\ n.app \in Seq(Chars) /\ n.text \in Seq(Chars)
    BY DEF SavedItem
<1>2. /\ Decimal(n.id) \in Text /\ Decimal(n.timeout) \in Text
      /\ Decimal(n.urgency) \in Text /\ Decimal(n.state) \in Text
      /\ Esc(n.app) \in Text /\ Esc(n.text) \in Text
      /\ Bracketed(ActionTexts(n)) \in Text
    BY <1>1, DecimalText, EscText, ActionsText
<1>3. i = 1 \/ i = 2 \/ i = 3 \/ i = 4 \/ i = 5 \/ i = 6 \/ i = 7
    OBVIOUS
<1>4. QED
    BY <1>2, <1>3 DEF FieldNames, FieldValues, Fields, Names

(* All parts of a list begin with the character its loop looks for.         *)
LEMMA ListsOpen ==
    ASSUME NEW s \in SavedDocument
    PROVE  /\ Opens(Members(s), Quote)
           /\ Opens(ItemTexts(s), LBrace)
           /\ \A n \in SavedItem : Opens(Fields(n), Quote) /\ Opens(ActionTexts(n), Quote)
PROOF
<1>1. Opens(Members(s), Quote)
  <2>1. PICK d \in Text, i \in Text : d = Decimal(s.nextId) /\ i = Bracketed(ItemTexts(s))
      BY DecimalText, ItemsText DEF SavedDocument
  <2>2. "next_id" \in Names /\ "items" \in Names
      BY DEF Names
  <2>3. FirstIs(Field("next_id", d), Quote) /\ FirstIs(Field("items", i), Quote)
      BY <2>2, FieldFirst
  <2>4. Items(s) = Field("items", i)
      BY <2>1 DEF Items, ItemTexts
  <2>5. Members(s) = <<Field("next_id", d), Field("items", i)>>
      BY <2>1, <2>4 DEF Members
  <2>6. PICK a, b : a = Field("next_id", d) /\ b = Field("items", i)
      OBVIOUS
  <2>7. Members(s) = <<a, b>>
      BY <2>5, <2>6
  <2>8. Len(Members(s)) = 2 /\ Members(s)[1] = a /\ Members(s)[2] = b
      BY <2>7
  <2>9. \A j \in 1..2 : FirstIs(Members(s)[j], Quote)
    <3>1. \A j \in 1..2 : j = 1 \/ j = 2
        OBVIOUS
    <3>2. QED
        BY <2>3, <2>6, <2>8, <3>1
  <2>10. QED
      BY <2>8, <2>9 DEF Opens, FirstIs
<1>2. Opens(ItemTexts(s), LBrace)
    BY ItemsText, ItemFirst DEF Opens, FirstIs
<1>3. ASSUME NEW n \in SavedItem PROVE Opens(Fields(n), Quote)
  <2>1. \A i \in 1..7 : FirstIs(Fields(n)[i], Quote)
      BY FieldsAre, FieldFirst
  <2>2. Len(Fields(n)) = 7
      BY FieldsText
  <2>3. QED
      BY <2>1, <2>2 DEF Opens, FirstIs
<1>4. ASSUME NEW n \in SavedItem PROVE Opens(ActionTexts(n), Quote)
    BY ActionsText, EscFirst DEF Opens, FirstIs
<1>5. QED
    BY <1>1, <1>2, <1>3, <1>4
-----------------------------------------------------------------------------
(* The four loops.                                                          *)
InObject(k) ==
    /\ View("object", Members(saved), k, <<>>)
    /\ counter = IF k = 0 THEN 1 ELSE saved.nextId
    /\ items = IF k = 2 THEN saved.items ELSE <<>>

InItems(k) ==
    /\ View("items", ItemTexts(saved), k, BehindItems(saved))
    /\ counter = saved.nextId
    /\ items = SubSeq(saved.items, 1, k)

InItem(k, f) ==
    /\ View("item", Fields(saved.items[k + 1]), f, BehindFields(saved, k))
    /\ counter = saved.nextId
    /\ items = SubSeq(saved.items, 1, k)
    /\ item = Part(saved.items[k + 1], f)

InActions(k, j) ==
    /\ View("actions", ActionTexts(saved.items[k + 1]), j, BehindActions(saved, k))
    /\ counter = saved.nextId
    /\ items = SubSeq(saved.items, 1, k)
    /\ item = [Part(saved.items[k + 1], 6) EXCEPT
                  !.actions = SubSeq(saved.items[k + 1].actions, 1, j)]

(* On track a loop has the rest of its list before it: the members,         *)
LEMMA ObjectView == ASSUME Input, AtObject PROVE \E k \in 0..2 : InObject(k)
PROOF
<1>1. PICK k \in 0..2 :
          /\ Ahead(Written(saved), pos, Members(saved), k, AfterMembers)
          /\ counter = IF k = 0 THEN 1 ELSE saved.nextId
          /\ items = IF k = 2 THEN saved.items ELSE <<>>
    BY DEF AtObject
<1>2. saved \in SavedDocument
    BY SavedType
<1>3. /\ Members(saved) \in Seq(Text) /\ Len(Members(saved)) = 2
      /\ Opens(Members(saved), Quote) /\ <<>> \in Text
    BY <1>2, WrittenText, ListsOpen, EmptySeq DEF Text
<1>4. Loops["object"].open = Quote /\ Loops["object"].close = RBrace
    BY LoopsAre
<1>5. View("object", Members(saved), k, <<>>)
    BY <1>1, <1>3, <1>4 DEF View, AfterMembers
<1>6. QED
    BY <1>1, <1>5 DEF InObject

(* the items,                                                               *)
LEMMA ItemsView == ASSUME Input, AtItems PROVE \E k \in 0..Len(saved.items) : InItems(k)
PROOF
<1>1. PICK k \in 0..Len(saved.items) :
          /\ Ahead(Written(saved), pos, ItemTexts(saved), k, AfterItems(saved))
          /\ items = SubSeq(saved.items, 1, k)
    BY DEF AtItems
<1>2. saved \in SavedDocument
    BY SavedType
<1>3. /\ ItemTexts(saved) \in Seq(Text) /\ Len(ItemTexts(saved)) = Len(saved.items)
      /\ Opens(ItemTexts(saved), LBrace)
      /\ BehindItems(saved) \in Text /\ AfterItems(saved) = <<"]">> \o BehindItems(saved)
    BY <1>2, ItemsText, ListsOpen, AfterText
<1>4. Loops["items"].open = LBrace /\ Loops["items"].close = "]"
    BY LoopsAre
<1>5. View("items", ItemTexts(saved), k, BehindItems(saved))
    BY <1>1, <1>3, <1>4 DEF View
<1>6. QED
    BY <1>1, <1>5 DEF InItems, AtItems

(* the fields of an item,                                                   *)
LEMMA ItemView ==
    ASSUME Input, AtItem
    PROVE  \E k \in 0..Len(saved.items) - 1, f \in 0..7 : InItem(k, f)
PROOF
<1>1. PICK k \in 0..Len(saved.items) - 1, f \in 0..7 :
          /\ Ahead(Written(saved), pos, Fields(saved.items[k + 1]), f, AfterFields(saved, k))
          /\ items = SubSeq(saved.items, 1, k)
          /\ item = Part(saved.items[k + 1], f)
    BY DEF AtItem
<1>2. saved \in SavedDocument
    BY SavedType
<1>3. /\ saved.items[k + 1] \in SavedItem
      /\ BehindFields(saved, k) \in Text
      /\ AfterFields(saved, k) = <<RBrace>> \o BehindFields(saved, k)
    BY <1>2, AfterText
<1>4. /\ Fields(saved.items[k + 1]) \in Seq(Text) /\ Len(Fields(saved.items[k + 1])) = 7
      /\ Opens(Fields(saved.items[k + 1]), Quote)
    BY <1>2, <1>3, FieldsText, ListsOpen
<1>5. Loops["item"].open = Quote /\ Loops["item"].close = RBrace
    BY LoopsAre
<1>6. View("item", Fields(saved.items[k + 1]), f, BehindFields(saved, k))
    BY <1>1, <1>3, <1>4, <1>5 DEF View
<1>7. QED
    BY <1>1, <1>6 DEF InItem, AtItem

(* its actions.                                                             *)
LEMMA ActionsView ==
    ASSUME Input, AtActions
    PROVE  \E k \in 0..Len(saved.items) - 1 :
               \E j \in 0..Len(saved.items[k + 1].actions) : InActions(k, j)
PROOF
<1>1. PICK k \in 0..Len(saved.items) - 1 : \E j \in 0..Len(saved.items[k + 1].actions) :
          /\ Ahead(Written(saved), pos, ActionTexts(saved.items[k + 1]), j, AfterActions(saved, k))
          /\ items = SubSeq(saved.items, 1, k)
          /\ item = [Part(saved.items[k + 1], 6) EXCEPT
                        !.actions = SubSeq(saved.items[k + 1].actions, 1, j)]
    BY DEF AtActions
<1>2. PICK n : n = saved.items[k + 1]
    OBVIOUS
<1>3. PICK j \in 0..Len(n.actions) :
          /\ Ahead(Written(saved), pos, ActionTexts(n), j, AfterActions(saved, k))
          /\ items = SubSeq(saved.items, 1, k)
          /\ item = [Part(n, 6) EXCEPT !.actions = SubSeq(n.actions, 1, j)]
    BY <1>1, <1>2
<1>4. saved \in SavedDocument
    BY SavedType
<1>5. /\ n \in SavedItem
      /\ BehindActions(saved, k) \in Text
      /\ AfterActions(saved, k) = <<"]">> \o BehindActions(saved, k)
    BY <1>2, <1>4, AfterText
<1>6. /\ ActionTexts(n) \in Seq(Text) /\ Len(ActionTexts(n)) = Len(n.actions)
      /\ Opens(ActionTexts(n), Quote)
    BY <1>4, <1>5, ActionsText, ListsOpen
<1>7. Loops["actions"].open = Quote /\ Loops["actions"].close = "]"
    BY LoopsAre
<1>8. View("actions", ActionTexts(n), j, BehindActions(saved, k))
    BY <1>3, <1>5, <1>6, <1>7 DEF View
<1>9. InActions(k, j)
    BY <1>2, <1>3, <1>8 DEF InActions, AtActions
<1>10. QED
    BY <1>2, <1>9
-----------------------------------------------------------------------------
(* The ids that were read.                                                  *)
LEMMA BelowNone == ASSUME NEW c PROVE Below(<<>>, c)
PROOF
<1>1. PICK e : e = <<>>
    OBVIOUS
<1>2. PICK S : e \in Seq(S) /\ \A x \in S : x.id \in Nat /\ x.id < c
  <2>1. e \in Seq({}) /\ \A x \in {} : x.id \in Nat /\ x.id < c
      BY <1>1, EmptySeq
  <2>2. QED
      BY <2>1
<1>3. Below(e, c)
    BY <1>2 DEF Below
<1>4. QED
    BY <1>1, <1>3

(* The items that are read back first,                                      *)
LEMMA BelowPrefix ==
    ASSUME Input, NEW k \in 0..Len(saved.items)
    PROVE  Below(SubSeq(saved.items, 1, k), saved.nextId)
PROOF
<1>1. saved.items \in Seq(Fresh(saved))
    BY SavedType
<1>2. SubSeq(saved.items, 1, k) \in Seq(Fresh(saved))
    BY <1>1, PrefixProperties, LenProperties
<1>3. \A x \in Fresh(saved) : x.id \in Nat /\ x.id < saved.nextId
    BY DEF Fresh, SavedItem
<1>4. QED
    BY <1>2, <1>3 DEF Below

(* and one more.                                                            *)
LEMMA BelowAppend ==
    ASSUME NEW is, NEW c, Below(is, c), NEW x, x.id \in Nat, x.id < c
    PROVE  Below(Append(is, x), c)
PROOF
<1>1. PICK S : is \in Seq(S) /\ \A y \in S : y.id \in Nat /\ y.id < c
    BY DEF Below
<1>2. PICK T : T = S \cup {x}
    OBVIOUS
<1>3. is \in Seq(T)
    BY <1>1, <1>2, SeqMonotonic
<1>4. Append(is, x) \in Seq(T)
    BY <1>2, <1>3, AppendProperties
<1>5. \A y \in T : y.id \in Nat /\ y.id < c
    BY <1>1, <1>2
<1>6. QED
    BY <1>4, <1>5 DEF Below

(* An item that was saved has an id, below the counter.                     *)
LEMMA ItemId ==
    ASSUME Input, NEW k \in 0..Len(saved.items) - 1
    PROVE  /\ saved.items[k + 1] \in SavedItem
           /\ saved.items[k + 1].id \in Nat \ {0}
           /\ saved.items[k + 1].id < saved.nextId /\ saved.nextId \in Nat
           /\ k \in 0..Len(saved.items)
PROOF
<1>1. PICK n \in Fresh(saved) : n = saved.items[k + 1]
    BY SavedType
<1>2. n \in SavedItem /\ n.id < saved.nextId
    BY DEF Fresh
<1>3. n.id \in Nat \ {0}
    BY <1>2 DEF SavedItem
<1>4. Len(saved.items) \in Nat
    BY SavedType, LenProperties
<1>5. QED
    BY <1>1, <1>2, <1>3, <1>4, SavedType

(* An item that is whole is one that is cut nowhere,                        *)
LEMMA WholeLeft ==
    ASSUME NEW n \in SavedItem, NEW g \in Numbers \cup Strings
    PROVE  n[g] \in Left(n, g) /\ Blank[g] \in Left(n, g)
PROOF
<1>1. CASE g \in Numbers
  <2>1. n[g] \in Int
      BY <1>1 DEF SavedItem, Numbers
  <2>2. QED
      BY <1>1, <2>1, ShortenedIs DEF Left
<1>2. CASE g \notin Numbers
  <2>1. n[g] \in Seq(Chars)
      BY <1>2 DEF SavedItem, Strings
  <2>2. QED
      BY <1>2, <2>1, WholePiece DEF Left
<1>3. QED
    BY <1>1, <1>2

(* an item with fields missing is cut behind the last,                      *)
LEMMA PartFields ==
    ASSUME NEW n \in SavedItem, NEW f \in 0..7, NEW g \in Numbers \cup Strings
    PROVE  Part(n, f)[g] \in Left(n, g)
PROOF
<1>1. Part(n, f)[g] = n[g] \/ Part(n, f)[g] = Blank[g]
  <2>1. PICK x, b : x = Part(n, f) /\ b = Blank
      OBVIOUS
  <2>2. CASE g = "id"
      BY <2>1, <2>2 DEF Part, Blank
  <2>3. CASE g = "timeout"
      BY <2>1, <2>3 DEF Part, Blank
  <2>4. CASE g = "urgency"
      BY <2>1, <2>4 DEF Part, Blank
  <2>5. CASE g = "state"
      BY <2>1, <2>5 DEF Part, Blank
  <2>6. CASE g = "app"
      BY <2>1, <2>6 DEF Part, Blank
  <2>7. CASE g = "text"
      BY <2>1, <2>7 DEF Part, Blank
  <2>8. QED
      BY <2>2, <2>3, <2>4, <2>5, <2>6, <2>7 DEF Numbers, Strings
<1>2. QED
    BY <1>1, WholeLeft

LEMMA PartCut == ASSUME NEW n \in SavedItem, NEW f \in 0..7 PROVE CutItem(n, Part(n, f))
PROOF
<1>1. PICK as \in Seq(Seq(Chars)) : as = n.actions
    BY DEF SavedItem
<1>2. PICK l \in Nat : l = Len(as)
    BY LenProperties
<1>3. SubSeq(as, 1, 0) = <<>>
    BY SubSeqEmpty
<1>4. SubSeq(as, 1, l) = as
    BY <1>2, SubSeqFull
<1>5. Part(n, f).actions = as \/ Part(n, f).actions = <<>>
  <2>1. CASE f >= 7
      BY <1>1, <2>1 DEF Part
  <2>2. CASE ~(f >= 7)
      BY <2>2 DEF Part
  <2>3. QED
      BY <2>1, <2>2
<1>6. 0 \in 0..l /\ l \in 0..l
    OBVIOUS
<1>7. ActionsLeft(n, Part(n, f).actions)
    BY <1>1, <1>2, <1>3, <1>4, <1>5, <1>6 DEF ActionsLeft
<1>8. QED
    BY <1>7, PartFields DEF CutItem

(* one whose list of actions was begun has some of them,                    *)
LEMMA ActionsCut ==
    ASSUME NEW n \in SavedItem, NEW as, ActionsLeft(n, as)
    PROVE  CutItem(n, [Part(n, 6) EXCEPT !.actions = as])
PROOF
<1>1. PICK z : z = Part(n, 6)
    OBVIOUS
<1>2. PICK x : x = [z EXCEPT !.actions = as]
    OBVIOUS
<1>3. x.actions = as
    BY <1>1, <1>2 DEF Part
<1>4. \A g \in Numbers \cup Strings : x[g] = z[g]
    BY <1>1, <1>2 DEF Part, Numbers, Strings
<1>5. \A g \in Numbers \cup Strings : z[g] \in Left(n, g)
    BY <1>1, PartFields
<1>6. CutItem(n, x)
    BY <1>3, <1>4, <1>5 DEF CutItem
<1>7. QED
    BY <1>1, <1>2, <1>6

(* and one field may be what is left of it.                                 *)
LEMMA FieldCut ==
    ASSUME NEW n \in SavedItem, NEW f \in 0..7, NEW g \in Numbers \cup Strings, NEW v \in Left(n, g)
    PROVE  CutItem(n, [Part(n, f) EXCEPT ![g] = v])
PROOF
<1>1. PICK x : x = [Part(n, f) EXCEPT ![g] = v]
    OBVIOUS
<1>2. \A h \in Numbers \cup Strings : x[h] = IF h = g THEN v ELSE Part(n, f)[h]
    BY <1>1 DEF Part, Numbers, Strings
<1>3. x.actions = Part(n, f).actions
    BY <1>1 DEF Part, Numbers, Strings
<1>4. ActionsLeft(n, x.actions)
    BY <1>3, PartCut DEF CutItem
<1>5. QED
    BY <1>1, <1>2, <1>4, PartFields DEF CutItem

(* An id that was cut is no larger.                                         *)
LEMMA LeftId ==
    ASSUME NEW n \in SavedItem, NEW x, CutItem(n, x)
    PROVE  x.id \in {0} \cup Leading(n.id) /\ x.id \in Nat /\ x.id <= n.id
PROOF
<1>1. "id" \in Numbers
    BY DEF Numbers
<1>2. x.id \in Left(n, "id")
    BY <1>1 DEF CutItem
<1>3. n.id \in Nat
    BY DEF SavedItem
<1>4. Left(n, "id") = {0} \cup Leading(n.id)
    BY <1>1, <1>3 DEF Left, Shortened, Blank
<1>5. Leading(n.id) \subseteq 0..n.id
    BY <1>3, LeadingIs
<1>6. QED
    BY <1>2, <1>3, <1>4, <1>5

(* On track what was read is what would be left if the text ended.          *)
LEMMA ListRemains == ASSUME Input, InList PROVE Remains
PROOF
<1>1. saved.nextId \in Nat /\ saved.items \in Seq(SavedItem)
    BY SavedType
<1>2. PICK is \in Seq(SavedItem) : is = saved.items
    BY <1>1
<1>3. Len(is) \in Nat /\ SubSeq(is, 1, Len(is)) = is
    BY LenProperties, SubSeqFull
<1>4. CASE AtObject
  <2>1. PICK k \in 0..2 : InObject(k)
      BY <1>4, ObjectView
  <2>2. CASE k = 2
    <3>1. counter = saved.nextId /\ items = SubSeq(saved.items, 1, Len(saved.items))
      <4>1. 2 # 0
          OBVIOUS
      <4>2. QED
          BY <1>2, <1>3, <2>1, <2>2, <4>1 DEF InObject
    <3>2. Len(saved.items) \in 0..Len(saved.items)
        BY <1>2, <1>3
    <3>3. QED
        BY <1>4, <3>1, <3>2 DEF AtObject, Remains, LostBetween
  <2>3. CASE k # 2
    <3>1. items = <<>> /\ counter \in {1, saved.nextId}
        BY <2>1, <2>3 DEF InObject
    <3>2. saved.nextId \in Leading(saved.nextId)
        BY <1>1, LeadingIs
    <3>3. QED
        BY <1>4, <3>1, <3>2 DEF AtObject, Remains, LostEarly
  <2>4. QED
      BY <2>2, <2>3
<1>5. CASE AtItems
  <2>1. PICK k \in 0..Len(saved.items) : InItems(k)
      BY <1>5, ItemsView
  <2>2. QED
      BY <1>5, <2>1 DEF AtItems, InItems, Remains, LostBetween
<1>6. CASE AtItem
  <2>1. PICK k \in 0..Len(saved.items) - 1, f \in 0..7 : InItem(k, f)
      BY <1>6, ItemView
  <2>2. CutItem(saved.items[k + 1], item)
      BY <2>1, ItemId, PartCut DEF InItem
  <2>3. QED
      BY <1>6, <2>1, <2>2 DEF AtItem, InItem, Remains, LostInside
<1>7. CASE AtActions
  <2>1. PICK k \in 0..Len(saved.items) - 1 :
            \E j \in 0..Len(saved.items[k + 1].actions) : InActions(k, j)
      BY <1>7, ActionsView
  <2>2. PICK n \in SavedItem : n = saved.items[k + 1]
      BY ItemId
  <2>3. PICK j \in 0..Len(n.actions) : InActions(k, j)
      BY <2>1, <2>2
  <2>4. ActionsLeft(n, SubSeq(n.actions, 1, j))
      BY DEF ActionsLeft
  <2>5. CutItem(n, item)
      BY <2>2, <2>3, <2>4, ActionsCut DEF InActions
  <2>6. QED
      BY <1>7, <2>2, <2>3, <2>5 DEF AtActions, InActions, Remains, LostInside
<1>8. QED
    BY <1>4, <1>5, <1>6, <1>7 DEF InList

(* A parser in a loop that is past the end has been given a text cut short. *)
LEMMA ListPast ==
    ASSUME Input, pos \in Positions, InList, pos > Len(text)
    PROVE  Lost
PROOF
<1>1. pos <= Len(Written(saved))
  <2>1. CASE AtObject
      BY <2>1, ObjectView, ViewInside, LoopChars DEF InObject
  <2>2. CASE AtItems
      BY <2>2, ItemsView, ViewInside, LoopChars DEF InItems
  <2>3. CASE AtItem
      BY <2>3, ItemView, ViewInside, LoopChars DEF InItem
  <2>4. CASE AtActions
      BY <2>4, ActionsView, ViewInside, LoopChars DEF InActions
  <2>5. QED
      BY <2>1, <2>2, <2>3, <2>4 DEF InList
<1>2. Len(text) \in Nat /\ Len(Written(saved)) \in Nat
    BY InputType
<1>3. Len(text) < Len(Written(saved))
    BY <1>1, <1>2 DEF Positions
<1>4. QED
    BY <1>3, ListRemains DEF Lost
-----------------------------------------------------------------------------
(* What a name, a number and a string are read as: what was written, or the *)
(* end of the text.                                                         *)
Beyond(q) == Len(text) < Len(Written(saved)) /\ q \in Positions /\ q > Len(text)

(* A piece of what was written is in the text, unless it ends too early.    *)
LEMMA PieceCut ==
    ASSUME Input, NEW p \in Positions, NEW u \in Text, Has(Written(saved), p, u)
    PROVE  /\ p + Len(u) <= Len(text) + 1 => Has(text, p, u)
           /\ p + Len(u) > Len(text) + 1 => Len(text) < Len(Written(saved))
PROOF
<1>1. PICK w \in Text : w = Written(saved)
    BY InputType
<1>2. PICK n \in 0..Len(w) : n = Len(text) /\ text = SubSeq(w, 1, n)
    BY <1>1, InputType
<1>3. p + Len(u) <= n + 1 => Has(text, p, u)
    BY <1>1, <1>2, HasCut DEF Positions
<1>4. p + Len(u) <= Len(w) + 1
    BY <1>1 DEF Has
<1>5. Len(w) \in Nat /\ Len(u) \in Nat
    BY TextConcat
<1>6. QED
    BY <1>1, <1>2, <1>3, <1>4, <1>5 DEF Positions

(* A name: read, or cut.                                                    *)
LEMMA NameView ==
    ASSUME Input, NEW p \in Positions, p <= Len(text), NEW name \in Names,
           NEW value \in Text, NEW c, FirstIs(value, c), c \notin Blanks,
           Has(Written(saved), p, Field(name, value))
    PROVE  \/ /\ ReadName(text, p) = [name |-> <<name>>, pos |-> p + 4]
              /\ p + 4 \in Positions /\ p + 4 <= Len(text) + 1
              /\ Has(Written(saved), p + 4, value)
           \/ Beyond(ReadName(text, p).pos)
PROOF
<1>1. PICK w \in Text : w = Written(saved)
    BY InputType
<1>2. PICK n \in 0..Len(w) : n = Len(text) /\ text = SubSeq(w, 1, n)
    BY <1>1, InputType
<1>3. PICK h \in Text : h = Header(name) /\ Len(h) = 4 /\ Field(name, value) = h \o value
    BY FieldText
<1>4. Has(w, p, h) /\ Has(w, p + 4, value)
  <2>1. Has(w, p, h) /\ Has(w, p + Len(h), value)
    <3>1. Has(w, p, h \o value) /\ p \in Nat \ {0}
        BY <1>1, <1>3 DEF Positions
    <3>2. QED
        BY <3>1, HasConcat
  <2>2. QED
      BY <1>3, <2>1
<1>5. Len(w) \in Nat /\ text \in Text /\ p + 4 \in Positions /\ p \in Nat
    BY <1>1, InputType DEF Positions
<1>6. CASE p + 4 <= n + 1
  <2>1. Has(text, p, h)
      BY <1>1, <1>2, <1>3, <1>4, <1>6, PieceCut
  <2>2. At(text, p + 4) \notin Blanks
    <3>1. CASE p + 4 <= n
      <4>1. At(text, p + 4) = w[p + 4]
          BY <1>1, <1>2, <1>5, <3>1, InputType
      <4>2. w[p + 4 + 1 - 1] = value[1] /\ p + 4 + 1 - 1 = p + 4
          BY <1>4, <1>5 DEF Has, FirstIs
      <4>3. QED
          BY <4>1, <4>2 DEF FirstIs
    <3>2. CASE ~(p + 4 <= n)
      <4>1. At(text, p + 4) = "NUL"
          BY <1>2, <1>5, <3>2, InputType
      <4>2. QED
          BY <4>1 DEF Blanks
    <3>3. QED
        BY <3>1, <3>2
  <2>3. ReadName(text, p) = [name |-> <<name>>, pos |-> p + 4]
      BY <1>3, <1>5, <2>1, <2>2, NameRead
  <2>4. QED
      BY <1>1, <1>2, <1>4, <1>5, <1>6, <2>3
<1>7. CASE ~(p + 4 <= n + 1)
  <2>1. n < p + 3 /\ p <= n
      BY <1>2, <1>5, <1>7
  <2>2. ReadName(text, p).pos \in Positions /\ ReadName(text, p).pos > n
      BY <1>2, <1>3, <1>4, <2>1, NameCut
  <2>3. n < Len(w)
      BY <1>1, <1>2, <1>3, <1>4, <1>5, <1>7, PieceCut
  <2>4. QED
      BY <1>1, <1>2, <2>2, <2>3 DEF Beyond
<1>8. QED
    BY <1>6, <1>7

(* A number: read, or cut, perhaps among its digits.                        *)
LEMMA NumberView ==
    ASSUME Input, NEW p \in Positions, p <= Len(text) + 1, NEW i \in Int,
           Has(Written(saved), p, Decimal(i)),
           p + Len(Decimal(i)) <= Len(Written(saved)),
           Written(saved)[p + Len(Decimal(i))] \notin Digits
    PROVE  \/ ReadInt(text, p) = [value |-> i, pos |-> p + Len(Decimal(i))]
           \/ /\ Beyond(ReadInt(text, p).pos)
              /\ ReadInt(text, p).value = None \/ ReadInt(text, p).value \in Shortened(i)
PROOF
<1>1. PICK w \in Text : w = Written(saved)
    BY InputType
<1>2. PICK n \in 0..Len(w) : n = Len(text) /\ text = SubSeq(w, 1, n)
    BY <1>1, InputType
<1>3. PICK u \in Text : u = Decimal(i)
    BY DecimalText
<1>4. PICK q \in Positions : q = p + Len(u)
    BY TextConcat DEF Positions
<1>5. Len(w) \in Nat /\ text \in Text /\ p \in Nat /\ Has(w, p, u)
    BY <1>1, <1>3, InputType DEF Positions
<1>6. CASE q <= n + 1
  <2>1. Has(text, p, u)
      BY <1>1, <1>2, <1>3, <1>4, <1>6, PieceCut
  <2>2. At(text, q) \notin Digits
    <3>1. CASE q <= n
        BY <1>1, <1>2, <1>3, <1>4, <3>1, InputType
    <3>2. CASE ~(q <= n)
      <4>1. At(text, q) = "NUL"
          BY <1>2, <1>4, <1>5, <3>2, InputType DEF Positions
      <4>2. QED
          BY <4>1, DigitsDiffer
    <3>3. QED
        BY <3>1, <3>2
  <2>3. QED
      BY <1>3, <1>4, <1>5, <2>1, <2>2, IntRead
<1>7. CASE ~(q <= n + 1)
  <2>1. p + Len(Decimal(i)) > n + 1
      BY <1>3, <1>4, <1>5, <1>7 DEF Positions
  <2>2. PICK r : r = ReadInt(text, p)
      OBVIOUS
  <2>3. r.pos = n + 1 /\ (r.value = None \/ r.value \in Shortened(i))
      BY <1>2, <1>3, <1>5, <2>1, <2>2, IntCut
  <2>4. n < Len(w)
      BY <1>1, <1>2, <1>3, <1>5, <2>1, PieceCut
  <2>5. QED
      BY <1>1, <1>2, <1>5, <2>2, <2>3, <2>4 DEF Beyond, Positions
<1>8. QED
    BY <1>6, <1>7

(* A string: read, or cut.                                                  *)
LEMMA StringView ==
    ASSUME Input, NEW p \in Positions, NEW s \in Seq(Chars), Has(Written(saved), p, Esc(s))
    PROVE  \/ ReadString(text, p) = [value |-> s, pos |-> p + Len(Esc(s))]
           \/ Beyond(ReadString(text, p).pos) /\ ReadString(text, p).value \in Pieces(s)
PROOF
<1>1. PICK w \in Text : w = Written(saved)
    BY InputType
<1>2. PICK n \in 0..Len(w) : n = Len(text) /\ text = SubSeq(w, 1, n)
    BY <1>1, InputType
<1>3. PICK u \in Text : u = Esc(s)
    BY EscText
<1>4. Len(w) \in Nat /\ text \in Text /\ Len(u) \in Nat /\ Has(w, p, u)
    BY <1>1, <1>3, TextConcat, InputType
<1>5. CASE p + Len(u) <= n + 1
  <2>1. Has(text, p, u)
      BY <1>1, <1>2, <1>3, <1>4, <1>5, PieceCut
  <2>2. QED
      BY <1>3, <1>4, <2>1, StringRead
<1>6. CASE ~(p + Len(u) <= n + 1)
  <2>1. p + Len(Esc(s)) > n + 1
      BY <1>3, <1>4, <1>6 DEF Positions
  <2>2. ReadString(text, p).pos > n /\ ReadString(text, p).value \in Pieces(s)
      BY <1>2, <1>3, <1>4, <2>1, StringCut
  <2>3. n < Len(w)
      BY <1>1, <1>2, <1>3, <1>4, <2>1, PieceCut
  <2>4. QED
      BY <1>1, <1>2, <1>4, <2>2, <2>3, StringMoves DEF Beyond
<1>7. QED
    BY <1>5, <1>6

(* Beyond the end.                                                          *)
LEMMA BeyondView ==
    ASSUME Input, NEW p, Beyond(p)
    PROVE  /\ ReadInt(text, p) = [value |-> None, pos |-> p]
           /\ Beyond(ReadString(text, p).pos) /\ ReadString(text, p).value = <<>>
           /\ At(text, p) = "NUL"
PROOF
<1>1. text \in Text /\ p \in Positions /\ p > Len(text) /\ Len(text) \in Nat
    BY InputType, TextConcat DEF Beyond
<1>2. ReadInt(text, p) = [value |-> None, pos |-> p]
    BY <1>1, IntPast
<1>3. ReadString(text, p).pos > Len(text) /\ ReadString(text, p).value = <<>>
  <2>1. p >= Len(text)
      BY <1>1 DEF Positions
  <2>2. QED
      BY <1>1, <2>1, StringPast
<1>4. At(text, p) = "NUL"
    BY <1>1, InputType
<1>5. QED
    BY <1>1, <1>2, <1>3, <1>4, StringMoves DEF Beyond
-----------------------------------------------------------------------------
(* The steps.                                                               *)
LEMMA InputSame == ASSUME Input, UNCHANGED <<saved, text>> PROVE Input'
PROOF BY DEF Input

(* The first step finds the brace, or an empty text.                        *)
LEMMA BeginStep == ASSUME Inv, Begin PROVE Inv'
PROOF
<1>1. Input /\ AtStart /\ pos \in Positions
    BY DEF Inv, Begin, OnTrack, InList, AtObject, AtItems, AtItem, AtActions, AtEnd, Lost,
           Remains, LostEarly, LostBetween, LostInside, LostAfter
<1>2. Input' /\ UNCHANGED <<saved, text, counter, items, item>> /\ pos' = Here + 1
    BY <1>1, InputSame DEF Begin
<1>3. PICK w \in Text : w = Written(saved)
    BY InputType, <1>1
<1>4. PICK n \in 0..Len(w) : n = Len(text) /\ n \in Nat
  <2>1. Len(w) \in Nat /\ Len(text) \in 0..Len(w)
      BY <1>1, <1>3, InputType
  <2>2. QED
      BY <2>1
<1>5. Has(w, 1, <<LBrace>>) /\ Has(w, 2, From(Members(saved), 0) \o AfterMembers)
    BY <1>1, <1>3, SavedType, WrittenText DEF AfterMembers
<1>6. 1 <= Len(w) /\ w[1] = LBrace
  <2>1. 1 \in Nat \ {0}
      OBVIOUS
  <2>2. QED
      BY <1>5, <2>1, HasOne
<1>7. CASE n = 0
  <2>1. At(text, 1) = "NUL"
      BY <1>1, <1>4, <1>7, InputType DEF AtStart
  <2>2. Here = 1
    <3>1. SkipWS(text, pos) = pos
        BY <1>1, <2>1, InputType, SkipNone DEF AtStart, Blanks
    <3>2. QED
        BY <1>1, <3>1 DEF Here, AtStart
  <2>3. "NUL" # LBrace
      BY DEF LBrace
  <2>4. loop' = "done" /\ pos' = 2
    <3>1. loop' = IF At(text, Here) = LBrace THEN "object" ELSE "done"
        BY DEF Begin, LBrace
    <3>2. QED
        BY <1>2, <2>1, <2>2, <2>3, <3>1
  <2>5. Lost'
    <3>1. Len(text) < Len(Written(saved))
        BY <1>3, <1>4, <1>6, <1>7, TextConcat
    <3>2. counter' = 1 /\ items' = <<>>
        BY <1>1, <1>2 DEF AtStart
    <3>3. pos' > Len(text)
        BY <1>4, <1>7, <2>4
    <3>4. QED
        BY <1>2, <2>4, <3>1, <3>2, <3>3 DEF Lost, Remains, LostEarly
  <2>6. QED
      BY <1>2, <2>4, <2>5 DEF Inv, Positions
<1>8. CASE n # 0
  <2>1. At(text, 1) = LBrace
      BY <1>1, <1>3, <1>4, <1>6, <1>8, InputType DEF AtStart
  <2>2. Here = 1
    <3>1. LBrace \notin Blanks
        BY DEF LBrace, Blanks
    <3>2. SkipWS(text, pos) = pos
        BY <1>1, <2>1, <3>1, InputType, SkipNone DEF AtStart
    <3>3. QED
        BY <1>1, <3>2 DEF Here, AtStart
  <2>3. loop' = "object" /\ pos' = 2
    <3>1. loop' = IF At(text, Here) = LBrace THEN "object" ELSE "done"
        BY DEF Begin, LBrace
    <3>2. QED
        BY <1>2, <2>1, <2>2, <3>1
  <2>4. Ahead(w, 2, Members(saved), 0, AfterMembers)
      BY <1>5 DEF Ahead
  <2>5. counter' = 1 /\ items' = <<>> /\ saved' = saved
      BY <1>1, <1>2 DEF AtStart
  <2>6. AtObject'
    <3>1. 0 \in 0..2 /\ 0 # 2
        OBVIOUS
    <3>2. QED
        BY <1>3, <2>3, <2>4, <2>5, <3>1 DEF AtObject
  <2>7. QED
      BY <1>2, <2>3, <2>6 DEF Inv, OnTrack, InList, Positions
<1>9. QED
    BY <1>7, <1>8

(* In a loop and not past the end the parser is on track.                   *)
LEMMA InsideTrack ==
    ASSUME Inv, NEW l \in DOMAIN Loops, In(l)
    PROVE  /\ Input /\ pos \in Positions /\ pos <= Len(text)
           /\ l = "object"  => AtObject
           /\ l = "items"   => AtItems
           /\ l = "item"    => AtItem
           /\ l = "actions" => AtActions
PROOF
<1>1. Input /\ pos \in Positions /\ pos <= Len(text) /\ loop = l
    BY DEF Inv, In
<1>2. ~(pos > Len(text))
    BY <1>1, InputType DEF Positions
<1>3. l = "object" \/ l = "items" \/ l = "item" \/ l = "actions"
    BY LoopChars
<1>4. ~Lost
    BY <1>1, <1>2, <1>3 DEF Lost
<1>5. QED
    BY <1>1, <1>3, <1>4 DEF Inv, OnTrack, InList, AtStart, AtObject, AtItems, AtItem, AtActions, AtEnd

(* On track only a comma is skipped.                                        *)
LEMMA SkipStep == ASSUME Inv, Skip PROVE Inv'
PROOF
<1>1. PICK l \in DOMAIN Loops :
          In(l) /\ At(text, Here) \notin {Loops[l].open, Loops[l].close}
    BY DEF Skip
<1>2. Input /\ pos \in Positions /\ pos <= Len(text)
    BY <1>1, InsideTrack
<1>3. Input'
    BY <1>2, InputSame DEF Skip
<1>4. ASSUME NEW ps, NEW k, NEW v, View(l, ps, k, v)
      PROVE  /\ pos' = pos + 1 /\ pos' \in Positions
             /\ Ahead(Written(saved), pos', ps, k, <<Loops[l].close>> \o v)
  <2>1. Here = pos
      BY <1>2, <1>4, ViewSeen
  <2>2. Ahead(Written(saved), pos + 1, ps, k, <<Loops[l].close>> \o v)
      BY <1>1, <1>2, <1>4, <2>1, ViewSeen
  <2>3. QED
      BY <1>2, <2>1, <2>2 DEF Skip, Positions
<1>5. UNCHANGED <<saved, text, loop, counter, items, item>>
    BY DEF Skip
<1>6. CASE l = "object"
  <2>1. AtObject
      BY <1>1, <1>6, InsideTrack
  <2>2. PICK k \in 0..2 : InObject(k)
      BY <1>2, <2>1, ObjectView
  <2>3. pos' \in Positions /\ Ahead(Written(saved), pos', Members(saved), k, AfterMembers)
      BY <1>4, <1>6, <2>2, LoopsAre DEF InObject, AfterMembers
  <2>4. AtObject'
      BY <1>5, <2>1, <2>2, <2>3 DEF AtObject, InObject
  <2>5. QED
      BY <1>3, <2>3, <2>4 DEF Inv, OnTrack, InList
<1>7. CASE l = "items"
  <2>1. AtItems
      BY <1>1, <1>7, InsideTrack
  <2>2. PICK k \in 0..Len(saved.items) : InItems(k)
      BY <1>2, <2>1, ItemsView
  <2>3. pos' \in Positions /\ Ahead(Written(saved), pos', ItemTexts(saved), k, AfterItems(saved))
      BY <1>2, <1>4, <1>7, <2>2, LoopsAre, SavedType, AfterText DEF InItems
  <2>4. AtItems'
      BY <1>5, <2>1, <2>2, <2>3 DEF AtItems, InItems
  <2>5. QED
      BY <1>3, <2>3, <2>4 DEF Inv, OnTrack, InList
<1>8. CASE l = "item"
  <2>1. AtItem
      BY <1>1, <1>8, InsideTrack
  <2>2. PICK k \in 0..Len(saved.items) - 1, f \in 0..7 : InItem(k, f)
      BY <1>2, <2>1, ItemView
  <2>3. /\ pos' \in Positions
        /\ Ahead(Written(saved), pos', Fields(saved.items[k + 1]), f, AfterFields(saved, k))
      BY <1>2, <1>4, <1>8, <2>2, LoopsAre, SavedType, AfterText DEF InItem
  <2>4. AtItem'
      BY <1>5, <2>1, <2>2, <2>3 DEF AtItem, InItem
  <2>5. QED
      BY <1>3, <2>3, <2>4 DEF Inv, OnTrack, InList
<1>9. CASE l = "actions"
  <2>1. AtActions
      BY <1>1, <1>9, InsideTrack
  <2>2. PICK k \in 0..Len(saved.items) - 1 :
            \E j \in 0..Len(saved.items[k + 1].actions) : InActions(k, j)
      BY <1>2, <2>1, ActionsView
  <2>3. PICK j \in 0..Len(saved.items[k + 1].actions) : InActions(k, j)
      BY <2>2
  <2>4. /\ pos' \in Positions
        /\ Ahead(Written(saved), pos', ActionTexts(saved.items[k + 1]), j, AfterActions(saved, k))
      BY <1>2, <1>4, <1>9, <2>3, LoopsAre, SavedType, AfterText DEF InActions
  <2>5. AtActions'
      BY <1>5, <2>1, <2>3, <2>4 DEF AtActions, InActions
  <2>6. QED
      BY <1>3, <2>4, <2>5 DEF Inv, OnTrack, InList
<1>10. QED
    BY <1>6, <1>7, <1>8, <1>9, LoopChars

(* Past the end the loops are left one after the other.                     *)
LEMMA LeaveLost ==
    ASSUME Inv, NEW l \in DOMAIN Loops, Leave(l), pos > Len(text)
    PROVE  Inv'
PROOF
<1>1. Input /\ pos \in Positions /\ loop = l
    BY DEF Inv, Leave
<1>2. UNCHANGED <<saved, text, counter, item>>
    BY DEF Leave
<1>3. Input'
    BY <1>1, <1>2, InputSame
<1>4. l = "object" \/ l = "items" \/ l = "item" \/ l = "actions"
    BY LoopChars
<1>5. Lost
  <2>1. ~AtStart /\ ~AtEnd
      BY <1>1, <1>4 DEF AtStart, AtEnd
  <2>2. QED
      BY <1>1, <2>1, ListPast DEF Inv, OnTrack
<1>6. Len(text) < Len(Written(saved)) /\ Remains
    BY <1>1, <1>4, <1>5 DEF Lost
<1>7. pos' = pos
  <2>1. ~(pos <= Len(text))
      BY <1>1, InputType DEF Positions
  <2>2. QED
      BY <2>1 DEF Leave, Sees, In
<1>8. /\ loop' = Loops[l].outer
      /\ items' = IF l = "item" /\ item.id # 0 THEN Append(items, item) ELSE items
    BY DEF Leave
<1>9. ASSUME l = "object" PROVE Remains'
  <2>1. loop' = "done" /\ items' = items /\ loop = "object"
      BY <1>1, <1>8, <1>9, LoopsAre
  <2>2. LostEarly => LostEarly'
      BY <1>2, <2>1 DEF LostEarly
  <2>3. LostBetween => LostBetween'
      BY <1>2, <2>1 DEF LostBetween
  <2>4. LostAfter => LostAfter'
      BY <1>2, <2>1 DEF LostAfter
  <2>5. ~LostInside
      BY <2>1 DEF LostInside
  <2>6. QED
      BY <1>6, <2>2, <2>3, <2>4, <2>5 DEF Remains
<1>10. ASSUME l = "items" PROVE Remains'
  <2>1. loop' = "object" /\ items' = items /\ loop = "items"
      BY <1>1, <1>8, <1>10, LoopsAre
  <2>2. LostBetween => LostBetween'
      BY <1>2, <2>1 DEF LostBetween
  <2>3. LostAfter => LostAfter'
      BY <1>2, <2>1 DEF LostAfter
  <2>4. ~LostEarly /\ ~LostInside
      BY <2>1 DEF LostEarly, LostInside
  <2>5. QED
      BY <1>6, <2>2, <2>3, <2>4 DEF Remains
<1>11. ASSUME l = "item" PROVE Remains'
  <2>1. loop' = "items" /\ loop = "item"
      BY <1>1, <1>8, <1>11, LoopsAre
  <2>2. LostInside
      BY <1>6, <2>1 DEF Remains, LostEarly, LostBetween, LostAfter
  <2>3. PICK k \in 0..Len(saved.items) - 1 :
            items = SubSeq(saved.items, 1, k) /\ CutItem(saved.items[k + 1], item)
      BY <2>2 DEF LostInside
  <2>4. counter' = saved.nextId /\ saved' = saved
      BY <1>2, <2>2 DEF LostInside
  <2>5. CASE item.id # 0
    <3>1. items' = Append(SubSeq(saved.items, 1, k), item)
        BY <1>8, <1>11, <2>3, <2>5
    <3>2. LostAfter'
        BY <2>1, <2>3, <2>4, <2>5, <3>1 DEF LostAfter
    <3>3. QED
        BY <3>2 DEF Remains
  <2>6. CASE item.id = 0
    <3>1. items' = SubSeq(saved.items, 1, k)
        BY <1>8, <2>3, <2>6
    <3>2. k \in 0..Len(saved.items)
        BY <1>1, ItemId
    <3>3. LostBetween'
        BY <2>1, <2>4, <3>1, <3>2 DEF LostBetween
    <3>4. QED
        BY <3>3 DEF Remains
  <2>7. QED
      BY <2>5, <2>6
<1>12. ASSUME l = "actions" PROVE Remains'
  <2>1. loop' = "item" /\ items' = items /\ loop = "actions"
      BY <1>1, <1>8, <1>12, LoopsAre
  <2>2. LostInside
      BY <1>6, <2>1 DEF Remains, LostEarly, LostBetween, LostAfter
  <2>3. LostInside'
      BY <1>2, <2>1, <2>2 DEF LostInside
  <2>4. QED
      BY <2>3 DEF Remains
<1>13. Remains'
    BY <1>4, <1>9, <1>10, <1>11, <1>12
<1>14. Lost'
    BY <1>2, <1>6, <1>7, <1>13 DEF Lost
<1>15. QED
    BY <1>1, <1>3, <1>7, <1>14 DEF Inv

(* At the closing bracket all of the list has been read.                    *)
LEMMA LeaveSeen ==
    ASSUME Inv, NEW l \in DOMAIN Loops, Leave(l), ~(pos > Len(text))
    PROVE  /\ Input' /\ In(l) /\ pos' = pos + 1 /\ pos' \in Positions
           /\ loop' = Loops[l].outer /\ UNCHANGED <<saved, text, counter, item>>
           /\ \A ps, k, v : View(l, ps, k, v) => k = Len(ps) /\ Has(Written(saved), pos', v)
PROOF
<1>1. In(l) /\ At(text, Here) = Loops[l].close /\ pos' = Here + 1
    BY DEF Leave, Sees
<1>2. Input /\ pos \in Positions /\ pos <= Len(text)
    BY <1>1, InsideTrack
<1>3. loop' = Loops[l].outer /\ UNCHANGED <<saved, text, counter, item>>
    BY DEF Leave
<1>4. \A ps, k, v : View(l, ps, k, v) => Here = pos
    BY <1>2, ViewSeen
<1>5. ASSUME NEW ps, NEW k, NEW v, View(l, ps, k, v)
      PROVE  k = Len(ps) /\ Has(Written(saved), pos', v)
    BY <1>1, <1>2, <1>4, <1>5, ViewSeen
<1>6. \E ps, k, v : View(l, ps, k, v)
  <2>1. l = "object" \/ l = "items" \/ l = "item" \/ l = "actions"
      BY LoopChars
  <2>2. CASE l = "object"
      BY <1>1, <1>2, <2>2, InsideTrack, ObjectView DEF InObject
  <2>3. CASE l = "items"
      BY <1>1, <1>2, <2>3, InsideTrack, ItemsView DEF InItems
  <2>4. CASE l = "item"
      BY <1>1, <1>2, <2>4, InsideTrack, ItemView DEF InItem
  <2>5. CASE l = "actions"
      BY <1>1, <1>2, <2>5, InsideTrack, ActionsView DEF InActions
  <2>6. QED
      BY <2>1, <2>2, <2>3, <2>4, <2>5
<1>7. pos' = pos + 1 /\ pos' \in Positions
    BY <1>1, <1>2, <1>4, <1>6 DEF Positions
<1>8. QED
    BY <1>1, <1>2, <1>3, <1>5, <1>7, InputSame

(* So what a loop leaves behind is complete, or the text was cut.           *)
LEMMA LeaveStep == ASSUME Inv, NEW l \in DOMAIN Loops, Leave(l) PROVE Inv'
PROOF
<1>1. CASE pos > Len(text)
    BY <1>1, LeaveLost
<1>2. CASE ~(pos > Len(text))
  <2>1. /\ Input' /\ In(l) /\ pos' = pos + 1 /\ pos' \in Positions
        /\ loop' = Loops[l].outer /\ UNCHANGED <<saved, text, counter, item>>
      BY <1>2, LeaveSeen
  <2>2. \A ps, k, v : View(l, ps, k, v) => k = Len(ps) /\ Has(Written(saved), pos', v)
      BY <1>2, LeaveSeen
  <2>3. Input /\ pos \in Positions /\ pos <= Len(text)
      BY <2>1, InsideTrack
  <2>4. saved \in SavedDocument /\ saved.items \in Seq(SavedItem)
      BY <2>3, SavedType
  <2>5. CASE l = "object"
    <3>1. PICK k \in 0..2 : InObject(k)
        BY <2>1, <2>3, <2>5, InsideTrack, ObjectView
    <3>2. k = 2
      <4>1. k = Len(Members(saved))
          BY <2>2, <2>5, <3>1 DEF InObject
      <4>2. QED
          BY <2>4, <4>1, WrittenText
    <3>3. items' = items
        BY <2>5 DEF Leave
    <3>4. counter' = saved.nextId /\ items' = saved.items
        BY <2>1, <3>1, <3>2, <3>3 DEF InObject
    <3>5. loop' = "done"
        BY <2>1, <2>5, LoopsAre
    <3>6. AtEnd'
        BY <2>1, <3>4, <3>5 DEF AtEnd
    <3>7. QED
        BY <2>1, <3>6 DEF Inv, OnTrack
  <2>6. CASE l = "items"
    <3>1. PICK k \in 0..Len(saved.items) : InItems(k)
        BY <2>1, <2>3, <2>6, InsideTrack, ItemsView
    <3>2. k = Len(ItemTexts(saved)) /\ Has(Written(saved), pos', BehindItems(saved))
        BY <2>2, <2>6, <3>1 DEF InItems
    <3>3. items' = items
        BY <2>6 DEF Leave
    <3>4. items = saved.items
      <4>1. k = Len(saved.items)
          BY <2>4, <3>2, ItemsText
      <4>2. QED
          BY <2>4, <3>1, <4>1, SubSeqFull DEF InItems
    <3>5. loop' = "object"
        BY <2>1, <2>6, LoopsAre
    <3>6. Ahead(Written(saved), pos', Members(saved), 2, AfterMembers)
        BY <3>2 DEF Ahead, BehindItems
    <3>7. AtObject'
      <4>1. 2 \in 0..2 /\ 2 # 0 /\ counter = saved.nextId
          BY <3>1 DEF InItems
      <4>2. QED
          BY <2>1, <3>3, <3>4, <3>5, <3>6, <4>1 DEF AtObject
    <3>8. QED
        BY <2>1, <3>7 DEF Inv, OnTrack, InList
  <2>7. CASE l = "item"
    <3>1. PICK k \in 0..Len(saved.items) - 1, f \in 0..7 : InItem(k, f)
        BY <2>1, <2>3, <2>7, InsideTrack, ItemView
    <3>2. PICK n \in SavedItem : n = saved.items[k + 1] /\ n.id # 0
        BY <2>3, ItemId
    <3>3. f = Len(Fields(n)) /\ Has(Written(saved), pos', BehindFields(saved, k))
        BY <2>2, <2>7, <3>1, <3>2 DEF InItem
    <3>4. f = 7
        BY <3>3, FieldsText
    <3>5. item = n
      <4>1. item = Part(n, 7)
          BY <3>1, <3>2, <3>4 DEF InItem
      <4>2. QED
          BY <4>1 DEF Part, SavedItem
    <3>6. items' = Append(items, n)
        BY <2>7, <3>2, <3>5 DEF Leave
    <3>7. PICK m \in 0..Len(saved.items) : m = k + 1 /\ m <= Len(saved.items) /\ k \in Nat
      <4>1. Len(saved.items) \in Nat
          BY <2>4, LenProperties
      <4>2. QED
          BY <4>1
    <3>8. items' = SubSeq(saved.items, 1, m)
      <4>1. SubSeq(saved.items, 1, m) = Append(SubSeq(saved.items, 1, k), saved.items[m])
          BY <2>4, <3>7, PrefixAppend
      <4>2. QED
          BY <3>1, <3>2, <3>6, <3>7, <4>1 DEF InItem
    <3>9. loop' = "items"
        BY <2>1, <2>7, LoopsAre
    <3>10. Ahead(Written(saved), pos', ItemTexts(saved), m, AfterItems(saved))
        BY <3>3, <3>7 DEF Ahead, BehindFields
    <3>11. AtItems'
      <4>1. counter = saved.nextId
          BY <3>1 DEF InItem
      <4>2. QED
          BY <2>1, <3>8, <3>9, <3>10, <4>1 DEF AtItems
    <3>12. QED
        BY <2>1, <3>11 DEF Inv, OnTrack, InList
  <2>8. CASE l = "actions"
    <3>1. PICK k \in 0..Len(saved.items) - 1 :
              \E j \in 0..Len(saved.items[k + 1].actions) : InActions(k, j)
        BY <2>1, <2>3, <2>8, InsideTrack, ActionsView
    <3>2. PICK j : InActions(k, j)
        BY <3>1
    <3>3. PICK n \in SavedItem : n = saved.items[k + 1]
        BY <2>3, ItemId
    <3>4. j = Len(ActionTexts(n)) /\ Has(Written(saved), pos', BehindActions(saved, k))
        BY <2>2, <2>8, <3>2, <3>3 DEF InActions
    <3>5. item = Part(n, 7)
      <4>1. j = Len(n.actions)
          BY <3>4, ActionsText
      <4>2. n.actions \in Seq(Seq(Chars))
          BY DEF SavedItem
      <4>3. SubSeq(n.actions, 1, j) = n.actions
          BY <4>1, <4>2, SubSeqFull
      <4>4. item = [Part(n, 6) EXCEPT !.actions = SubSeq(n.actions, 1, j)]
          BY <3>2, <3>3 DEF InActions
      <4>5. item = [Part(n, 6) EXCEPT !.actions = n.actions]
          BY <4>3, <4>4
      <4>6. QED
          BY <4>5 DEF Part
    <3>6. items' = items
        BY <2>8 DEF Leave
    <3>7. loop' = "item"
        BY <2>1, <2>8, LoopsAre
    <3>8. Ahead(Written(saved), pos', Fields(saved.items[k + 1]), 7, AfterFields(saved, k))
        BY <3>4 DEF Ahead, BehindActions
    <3>9. AtItem'
      <4>1. counter = saved.nextId /\ items = SubSeq(saved.items, 1, k) /\ 7 \in 0..7
          BY <3>2 DEF InActions
      <4>2. QED
          BY <2>1, <3>3, <3>5, <3>6, <3>7, <3>8, <4>1 DEF AtItem
    <3>10. QED
        BY <2>1, <3>9 DEF Inv, OnTrack, InList
  <2>9. QED
      BY <2>5, <2>6, <2>7, <2>8, LoopChars
<1>3. QED
    BY <1>1, <1>2

(* A part of the list a loop reads is before the parser.                    *)
LEMMA PartSeen ==
    ASSUME Inv, NEW l \in DOMAIN Loops, Sees(l, Loops[l].open),
           NEW ps, NEW k, NEW v, View(l, ps, k, v)
    PROVE  /\ Here = pos
           /\ k < Len(ps) /\ ps[k + 1] \in Text /\ Has(Written(saved), pos, ps[k + 1])
           /\ Has(Written(saved), pos + Len(ps[k + 1]), From(ps, k + 1) \o (<<Loops[l].close>> \o v))
           /\ pos + Len(ps[k + 1]) \in Positions
           /\ pos + Len(ps[k + 1]) <= Len(Written(saved))
           /\ Written(saved)[pos + Len(ps[k + 1])] \in {",", Loops[l].close}
PROOF
<1>1. In(l) /\ At(text, Here) = Loops[l].open
    BY DEF Sees
<1>2. Input /\ pos \in Positions /\ pos <= Len(text)
    BY <1>1, InsideTrack
<1>3. PICK w \in Text : w = Written(saved)
    BY <1>2, InputType
<1>4. PICK c \in Alphabet : c = Loops[l].close
    BY LoopChars
<1>5. Here = pos /\ PartNext(w, pos, ps, k, <<c>> \o v)
    BY <1>1, <1>2, <1>3, <1>4, ViewSeen
<1>6. /\ k < Len(ps) /\ ps[k + 1] \in Text /\ Has(w, pos, ps[k + 1])
      /\ Has(w, pos + Len(ps[k + 1]), From(ps, k + 1) \o (<<c>> \o v))
    BY <1>5 DEF PartNext
<1>7. PICK q \in Positions : q = pos + Len(ps[k + 1])
    BY <1>2, <1>6, TextConcat DEF Positions
<1>8. ps \in Seq(Text) /\ k \in 0..Len(ps) /\ v \in Text
    BY DEF View
<1>9. PICK m \in 1..Len(ps) : m = k + 1
    BY <1>6, <1>8, LenProperties
<1>10. q <= Len(w) /\ w[q] \in {",", c}
  <2>1. Has(w, q, From(ps, m) \o (<<c>> \o v))
      BY <1>6, <1>7, <1>9
  <2>2. QED
      BY <1>8, <2>1, PartEnds
<1>11. QED
    BY <1>3, <1>4, <1>5, <1>6, <1>7, <1>10

(* The parser is past the end of a text that was cut short.                 *)
LEMMA StepLost ==
    ASSUME Inv, UNCHANGED <<saved, text>>, Beyond(pos'), Remains'
    PROVE  Inv'
PROOF
<1>1. Input'
    BY InputSame DEF Inv
<1>2. Lost' /\ pos' \in Positions
    BY DEF Beyond, Lost
<1>3. QED
    BY <1>1, <1>2 DEF Inv

(* It still has what it had.                                                *)
LEMMA RemainsSame == ASSUME Remains, UNCHANGED <<saved, loop, counter, items, item>> PROVE Remains'
PROOF BY DEF Remains, LostEarly, LostBetween, LostInside, LostAfter

(* A number without digits: only a text that was cut has one.               *)
LEMMA StepThrown ==
    ASSUME Inv, UNCHANGED <<saved, text>>, Len(text) < Len(Written(saved)),
           loop' = "thrown", pos' \in Positions
    PROVE  Inv'
PROOF
<1>1. Input'
    BY InputSame DEF Inv
<1>2. Lost'
    BY DEF Lost
<1>3. QED
    BY <1>1, <1>2 DEF Inv
-----------------------------------------------------------------------------
(* What values begin with.                                                  *)
LEMMA DecimalFirst ==
    ASSUME NEW i \in Int
    PROVE  \E c : FirstIs(Decimal(i), c) /\ c \notin Blanks
PROOF
<1>1. PICK n \in Nat : n = IF i < 0 THEN -i ELSE i
    OBVIOUS
<1>2. PICK ds \in Seq(Digits) : ds = Numeral[n] /\ Len(ds) # 0
    BY NumeralNames DEF Denotes
<1>3. PICK l \in Nat : l = Len(ds) /\ l >= 1 /\ ds[1] \in Digits
    BY <1>2, LenProperties
<1>4. Digits \cap Blanks = {} /\ "-" \notin Blanks
  <2>1. Digits \subseteq {"0", "1", "2", "3", "4", "5", "6", "7", "8", "9"}
      BY DEF Digits, Digit
  <2>2. \A d \in {"0", "1", "2", "3", "4", "5", "6", "7", "8", "9"} : d \notin Blanks
      BY DEF Blanks
  <2>3. "-" \notin Blanks
      BY DEF Blanks
  <2>4. QED
      BY <2>1, <2>2, <2>3
<1>5. CASE i < 0
  <2>1. PICK o \in Text : o = <<"-">> /\ Len(o) = 1
    <3>1. "-" \in Alphabet
        BY DEF Alphabet
    <3>2. QED
        BY <3>1, CharText
  <2>2. Decimal(i) = o \o ds
      BY <1>1, <1>2, <1>5, <2>1 DEF Decimal
  <2>3. o[1] = "-" /\ Len(o) >= 1 /\ ds \in Text
      BY <2>1, DigitsText
  <2>4. FirstIs(o \o ds, "-")
      BY <2>3, ConcatFirst DEF FirstIs
  <2>5. QED
      BY <1>4, <2>2, <2>4
<1>6. CASE ~(i < 0)
  <2>1. Decimal(i) = ds
      BY <1>1, <1>2, <1>6 DEF Decimal
  <2>2. FirstIs(ds, ds[1]) /\ ds[1] \notin Blanks
      BY <1>3, <1>4 DEF FirstIs
  <2>3. QED
      BY <2>1, <2>2
<1>7. QED
    BY <1>5, <1>6

(* An array begins with its bracket.                                        *)
LEMMA BracketedFirst ==
    ASSUME NEW ps \in Seq(Text)
    PROVE  FirstIs(Bracketed(ps), "[")
PROOF
<1>1. PICK o \in Text, c \in Text, u \in Text : o = <<"[">> /\ c = <<"]">> /\ u = Commas(ps)
  <2>1. "[" \in Alphabet /\ "]" \in Alphabet
      BY DEF Alphabet
  <2>2. 0 \in 0..Len(ps)
      BY LenProperties
  <2>3. Commas(ps) \in Text
      BY <2>2, FromText
  <2>4. QED
      BY <2>1, <2>3, CharText
<1>2. Len(o) >= 1 /\ o[1] = "["
    BY <1>1
<1>3. PICK x \in Text : x = o \o u
    BY TextConcat
<1>4. Len(x) >= 1 /\ x[1] = "["
    BY <1>2, <1>3, ConcatFirst
<1>5. Bracketed(ps) = x \o c
    BY <1>1, <1>3 DEF Bracketed
<1>6. QED
    BY <1>4, <1>5, ConcatFirst DEF FirstIs

(* A list in brackets.                                                      *)
LEMMA ArrayView ==
    ASSUME Input, NEW p \in Positions, p <= Len(text) + 1, NEW ps \in Seq(Text), NEW v \in Text,
           Has(Written(saved), p, Bracketed(ps)),
           Has(Written(saved), p + Len(Bracketed(ps)), v)
    PROVE  \/ At(text, p) = "[" /\ Has(Written(saved), p + 1, From(ps, 0) \o (<<"]">> \o v))
           \/ At(text, p) = "NUL" /\ Beyond(p)
PROOF
<1>1. PICK w \in Text : w = Written(saved)
    BY InputType
<1>2. "[" \in Alphabet /\ "]" \in Alphabet
    BY DEF Alphabet
<1>3. Has(w, p, <<"[">>) /\ Has(w, p + 1, From(ps, 0) \o (<<"]">> \o v))
    BY <1>1, <1>2, Enclosed DEF Bracketed
<1>4. p <= Len(w) /\ w[p] = "["
    BY <1>3, HasOne DEF Positions
<1>5. Len(text) \in Nat /\ Len(w) \in Nat
    BY <1>1, InputType
<1>6. CASE p <= Len(text)
    BY <1>1, <1>3, <1>4, <1>6, InputType
<1>7. CASE ~(p <= Len(text))
  <2>1. p > Len(text) /\ Len(text) < Len(w)
      BY <1>4, <1>5, <1>7 DEF Positions
  <2>2. QED
      BY <1>1, <2>1, InputType DEF Beyond
<1>8. QED
    BY <1>6, <1>7
-----------------------------------------------------------------------------
(* What a loop that reads members sees of the next one: its name and value, *)
(* or the end of the text.                                                  *)
Followed(q, l, ps, k, v) ==
    /\ q \in Positions
    /\ Has(Written(saved), q, From(ps, k) \o (<<Loops[l].close>> \o v))
    /\ q <= Len(Written(saved)) /\ Written(saved)[q] \in {",", Loops[l].close}

NextField(l, ps, k, v, name, value) ==
    /\ l \in {"object", "item"} /\ Sees(l, Quote) /\ View(l, ps, k, v)
    /\ k < Len(ps) => ps[k + 1] = Field(name, value)
    /\ name \in Names /\ value \in Text
    /\ \E c : FirstIs(value, c) /\ c \notin Blanks

(* A member: its value is next, or the text ends before it.                 *)
LEMMA FieldSeen ==
    ASSUME Inv, NEW l, NEW ps, NEW k, NEW v, NEW name, NEW value,
           NextField(l, ps, k, v, name, value),
           NEW m, m = ReadName(text, Here)
    PROVE  /\ Input /\ k \in Nat /\ k < Len(ps)
           /\ \/ /\ m.name = <<name>> /\ m.pos \in Positions /\ m.pos <= Len(text) + 1
                 /\ Has(Written(saved), m.pos, value)
                 /\ Followed(m.pos + Len(value), l, ps, k + 1, v)
              \/ Beyond(m.pos)
PROOF
<1>1. l \in {"object", "item"} /\ Sees(l, Quote) /\ View(l, ps, k, v)
    BY DEF NextField
<1>2. l \in DOMAIN Loops /\ Loops[l].open = Quote
    BY <1>1, LoopChars, LoopsAre
<1>3. Input /\ pos \in Positions /\ pos <= Len(text)
    BY <1>1, <1>2, InsideTrack DEF Sees
<1>4. PICK w \in Text : w = Written(saved)
    BY <1>3, InputType
<1>5. PICK c : FirstIs(value, c) /\ c \notin Blanks
    BY DEF NextField
<1>6. /\ Here = pos /\ k < Len(ps) /\ Has(w, pos, ps[k + 1])
      /\ Followed(pos + Len(ps[k + 1]), l, ps, k + 1, v)
    BY <1>1, <1>2, <1>4, PartSeen DEF Followed
<1>7. ps[k + 1] = Field(name, value) /\ name \in Names /\ value \in Text
    BY <1>6 DEF NextField
<1>8. k \in Nat
    BY <1>1, LenProperties DEF View
<1>9. pos + Len(ps[k + 1]) = (pos + 4) + Len(value)
  <2>1. PICK h \in Text : h = Header(name) /\ Len(h) = 4 /\ Field(name, value) = h \o value
      BY <1>7, FieldText
  <2>2. Len(Field(name, value)) = 4 + Len(value) /\ Len(value) \in Nat
    <3>1. Len(h \o value) = Len(h) + Len(value) /\ Len(value) \in Nat
        BY <1>7, TextConcat
    <3>2. QED
        BY <2>1, <3>1
  <2>3. QED
      BY <1>3, <1>7, <2>2 DEF Positions
<1>10. \/ /\ m = [name |-> <<name>>, pos |-> pos + 4]
          /\ pos + 4 \in Positions /\ pos + 4 <= Len(text) + 1
          /\ Has(w, pos + 4, value)
       \/ Beyond(m.pos)
    BY <1>3, <1>4, <1>5, <1>6, <1>7, NameView
<1>11. Followed((pos + 4) + Len(value), l, ps, k + 1, v)
    BY <1>6, <1>9
<1>12. QED
    BY <1>3, <1>4, <1>6, <1>8, <1>10, <1>11

(* What follows a number is no digit.                                       *)
LEMMA NoDigit == ({",", RBrace, "]"} \cap Digits) = {}
PROOF
<1>1. Digits \subseteq {"0", "1", "2", "3", "4", "5", "6", "7", "8", "9"}
    BY DEF Digits, Digit
<1>2. \A d \in {"0", "1", "2", "3", "4", "5", "6", "7", "8", "9"} : d \notin {",", RBrace, "]"}
    BY DEF RBrace
<1>3. QED
    BY <1>1, <1>2

(* A member that is a number,                                               *)
LEMMA NumberSeen ==
    ASSUME Inv, NEW l, NEW ps, NEW k, NEW v, NEW name, NEW i \in Int,
           NextField(l, ps, k, v, name, Decimal(i)),
           NEW m, m = ReadName(text, Here), NEW r, r = ReadInt(text, m.pos)
    PROVE  \/ /\ m.name = <<name>> /\ r.value = i /\ r.pos \in Positions
              /\ Ahead(Written(saved), r.pos, ps, k + 1, <<Loops[l].close>> \o v)
           \/ /\ m.name = <<name>> /\ Beyond(r.pos)
              /\ r.value = None \/ r.value \in Shortened(i)
           \/ Beyond(m.pos)
PROOF
<1>1. PICK u \in Text : u = Decimal(i)
    BY DecimalText
<1>2. Input
    BY DEF Inv
<1>3. \/ /\ m.name = <<name>> /\ m.pos \in Positions /\ m.pos <= Len(text) + 1
         /\ Has(Written(saved), m.pos, u)
         /\ Followed(m.pos + Len(u), l, ps, k + 1, v)
      \/ Beyond(m.pos)
    BY <1>1, FieldSeen
<1>4. l \in {"object", "item"}
    BY DEF NextField
<1>5. Loops[l].close = RBrace
    BY <1>4, LoopsAre
<1>6. CASE /\ m.name = <<name>> /\ m.pos \in Positions /\ m.pos <= Len(text) + 1
           /\ Has(Written(saved), m.pos, u)
           /\ Followed(m.pos + Len(u), l, ps, k + 1, v)
  <2>1. PICK q \in Positions : q = m.pos + Len(u)
      BY <1>6 DEF Followed
  <2>2. q <= Len(Written(saved)) /\ Written(saved)[q] \notin Digits
      BY <1>5, <1>6, <2>1, NoDigit DEF Followed
  <2>3. \/ r = [value |-> i, pos |-> q]
        \/ /\ Beyond(r.pos)
           /\ r.value = None \/ r.value \in Shortened(i)
      BY <1>1, <1>2, <1>6, <2>1, <2>2, NumberView
  <2>4. Ahead(Written(saved), q, ps, k + 1, <<Loops[l].close>> \o v)
      BY <1>6, <2>1 DEF Followed, Ahead
  <2>5. QED
      BY <1>6, <2>3, <2>4
<1>7. QED
    BY <1>3, <1>6

(* one that is a string,                                                    *)
LEMMA TextSeen ==
    ASSUME Inv, NEW l, NEW ps, NEW k, NEW v, NEW name, NEW s \in Seq(Chars),
           NextField(l, ps, k, v, name, Esc(s)),
           NEW m, m = ReadName(text, Here), NEW r, r = ReadString(text, m.pos)
    PROVE  \/ /\ m.name = <<name>> /\ r.value = s /\ r.pos \in Positions
              /\ Ahead(Written(saved), r.pos, ps, k + 1, <<Loops[l].close>> \o v)
           \/ m.name = <<name>> /\ Beyond(r.pos) /\ r.value \in Pieces(s)
           \/ Beyond(m.pos)
PROOF
<1>1. PICK u \in Text : u = Esc(s)
    BY EscText
<1>2. Input
    BY DEF Inv
<1>3. \/ /\ m.name = <<name>> /\ m.pos \in Positions
         /\ Has(Written(saved), m.pos, u)
         /\ Followed(m.pos + Len(u), l, ps, k + 1, v)
      \/ Beyond(m.pos)
    BY <1>1, FieldSeen
<1>4. CASE /\ m.name = <<name>> /\ m.pos \in Positions
           /\ Has(Written(saved), m.pos, u)
           /\ Followed(m.pos + Len(u), l, ps, k + 1, v)
  <2>1. PICK q \in Positions : q = m.pos + Len(u)
      BY <1>4 DEF Followed
  <2>2. r = [value |-> s, pos |-> q] \/ (Beyond(r.pos) /\ r.value \in Pieces(s))
      BY <1>1, <1>2, <1>4, <2>1, StringView
  <2>3. Ahead(Written(saved), q, ps, k + 1, <<Loops[l].close>> \o v)
      BY <1>4, <2>1 DEF Followed, Ahead
  <2>4. QED
      BY <1>4, <2>2, <2>3
<1>5. QED
    BY <1>3, <1>4

(* and one that is an array.                                                *)
LEMMA ArraySeen ==
    ASSUME Inv, NEW l, NEW ps, NEW k, NEW v, NEW name, NEW qs \in Seq(Text),
           NextField(l, ps, k, v, name, Bracketed(qs)),
           NEW m, m = ReadName(text, Here)
    PROVE  \/ /\ m.name = <<name>> /\ At(text, m.pos) = "[" /\ m.pos + 1 \in Positions
              /\ Ahead(Written(saved), m.pos + 1, qs, 0,
                       <<"]">> \o (From(ps, k + 1) \o (<<Loops[l].close>> \o v)))
           \/ Beyond(m.pos)
PROOF
<1>1. PICK u \in Text : u = Bracketed(qs)
    BY DEF NextField
<1>2. Input /\ View(l, ps, k, v) /\ l \in DOMAIN Loops
    BY LoopChars DEF Inv, NextField
<1>3. /\ k \in Nat /\ k < Len(ps)
      /\ \/ /\ m.name = <<name>> /\ m.pos \in Positions /\ m.pos <= Len(text) + 1
            /\ Has(Written(saved), m.pos, u)
            /\ Followed(m.pos + Len(u), l, ps, k + 1, v)
         \/ Beyond(m.pos)
    BY <1>1, FieldSeen
<1>4. PICK x \in Text : x = From(ps, k + 1) \o (<<Loops[l].close>> \o v)
  <2>1. ps \in Seq(Text) /\ v \in Text /\ k + 1 \in 0..Len(ps)
      BY <1>2, <1>3, LenProperties DEF View
  <2>2. From(ps, k + 1) \in Text
      BY <2>1, FromText
  <2>3. <<Loops[l].close>> \in Text
      BY <1>2, LoopChars, CharText
  <2>4. <<Loops[l].close>> \o v \in Text
      BY <2>1, <2>3, TextConcat
  <2>5. QED
      BY <2>2, <2>4, TextConcat
<1>5. CASE /\ m.name = <<name>> /\ m.pos \in Positions /\ m.pos <= Len(text) + 1
           /\ Has(Written(saved), m.pos, u)
           /\ Followed(m.pos + Len(u), l, ps, k + 1, v)
  <2>1. Has(Written(saved), m.pos + Len(u), x)
      BY <1>4, <1>5 DEF Followed
  <2>2. \/ At(text, m.pos) = "[" /\ Has(Written(saved), m.pos + 1, From(qs, 0) \o (<<"]">> \o x))
        \/ Beyond(m.pos)
      BY <1>1, <1>2, <1>4, <1>5, <2>1, ArrayView
  <2>3. m.pos + 1 \in Positions
      BY <1>5 DEF Positions
  <2>4. QED
      BY <1>4, <1>5, <2>2, <2>3 DEF Ahead
<1>6. QED
    BY <1>3, <1>5
-----------------------------------------------------------------------------
(* The two members of the document,                                         *)
LEMMA MembersAre ==
    ASSUME NEW s \in SavedDocument
    PROVE  /\ Members(s)[1] = Field("next_id", Decimal(s.nextId)) /\ Decimal(s.nextId) \in Text
           /\ Members(s)[2] = Field("items", Bracketed(ItemTexts(s)))
           /\ Bracketed(ItemTexts(s)) \in Text
PROOF
<1>1. PICK d \in Text, i \in Text : d = Decimal(s.nextId) /\ i = Bracketed(ItemTexts(s))
    BY DecimalText, ItemsText DEF SavedDocument
<1>2. PICK a, b : a = Field("next_id", d) /\ b = Field("items", i)
    OBVIOUS
<1>3. Items(s) = b
    BY <1>1, <1>2 DEF Items, ItemTexts
<1>4. Members(s) = <<a, b>>
    BY <1>1, <1>2, <1>3 DEF Members
<1>5. Members(s)[1] = a /\ Members(s)[2] = b
    BY <1>4
<1>6. QED
    BY <1>1, <1>2, <1>5

(* and which of them is next.                                               *)
LEMMA MemberNext ==
    ASSUME Input, Sees("object", Quote), NEW k \in 0..2, InObject(k)
    PROVE  /\ k = 0 => NextField("object", Members(saved), k, <<>>, "next_id", Decimal(saved.nextId))
           /\ k = 1 => NextField("object", Members(saved), k, <<>>,
                                 "items", Bracketed(ItemTexts(saved)))
PROOF
<1>1. saved \in SavedDocument /\ saved.nextId \in Nat
    BY SavedType
<1>2. /\ Members(saved)[1] = Field("next_id", Decimal(saved.nextId)) /\ Decimal(saved.nextId) \in Text
      /\ Members(saved)[2] = Field("items", Bracketed(ItemTexts(saved)))
      /\ Bracketed(ItemTexts(saved)) \in Text
    BY <1>1, MembersAre
<1>3. \E c : FirstIs(Decimal(saved.nextId), c) /\ c \notin Blanks
    BY <1>1, DecimalFirst
<1>4. \E c : FirstIs(Bracketed(ItemTexts(saved)), c) /\ c \notin Blanks
  <2>1. "[" \notin Blanks
      BY DEF Blanks
  <2>2. QED
      BY <1>1, <2>1, ItemsText, BracketedFirst
<1>5. "next_id" \in Names /\ "items" \in Names
    BY DEF Names
<1>6. View("object", Members(saved), k, <<>>)
    BY DEF InObject
<1>7. 0 + 1 = 1 /\ 1 + 1 = 2
    OBVIOUS
<1>8. CASE k = 0
    BY <1>2, <1>3, <1>5, <1>6, <1>7, <1>8 DEF NextField
<1>9. CASE k = 1
    BY <1>2, <1>4, <1>5, <1>6, <1>7, <1>9 DEF NextField
<1>10. QED
    BY <1>8, <1>9

(* ReadMember sets the counter, enters the items, or runs into the end.     *)
LEMMA ReadMemberStep == ASSUME Inv, ReadMember PROVE Inv'
PROOF
<1>1. Sees("object", Quote) /\ UNCHANGED <<saved, text, items, item>>
    BY DEF ReadMember
<1>2. In("object") /\ "object" \in DOMAIN Loops /\ loop = "object"
    BY <1>1, LoopChars DEF Sees, In
<1>3. Input /\ pos \in Positions /\ pos <= Len(text) /\ AtObject
    BY <1>2, InsideTrack
<1>4. PICK k \in 0..2 : InObject(k)
    BY <1>3, ObjectView
<1>5. Remains
    BY <1>3, ListRemains DEF InList
<1>6. PICK m, r : m = ReadName(text, Here) /\ r = ReadInt(text, m.pos)
    OBVIOUS
<1>7. \/ /\ m.name = <<"next_id">>
         /\ pos' = r.pos
         /\ IF r.value = None THEN loop' = "thrown" /\ UNCHANGED counter
                              ELSE loop' = loop /\ counter' = r.value
      \/ /\ m.name = <<"items">> /\ At(text, m.pos) = "["
         /\ loop' = "items"
         /\ pos' = m.pos + 1
         /\ UNCHANGED counter
      \/ /\ m.name # <<"next_id">>
         /\ m.name = <<"items">> => At(text, m.pos) # "["
         /\ pos' = m.pos
         /\ UNCHANGED <<loop, counter>>
    BY <1>6 DEF ReadMember
<1>8. Input' /\ saved.nextId \in Nat /\ saved \in SavedDocument
    BY <1>1, <1>3, InputSame, SavedType
<1>9. CASE Beyond(m.pos)
  <2>1. r.value = None /\ r.pos = m.pos /\ At(text, m.pos) = "NUL"
      BY <1>3, <1>6, <1>9, BeyondView
  <2>2. CASE loop' = "thrown" /\ pos' = m.pos
    <3>1. Len(text) < Len(Written(saved)) /\ pos' \in Positions
        BY <1>9, <2>2 DEF Beyond
    <3>2. QED
        BY <1>1, <2>2, <3>1, StepThrown
  <2>3. CASE pos' = m.pos /\ UNCHANGED <<loop, counter>>
    <3>1. Remains'
        BY <1>1, <1>5, <2>3, RemainsSame
    <3>2. Beyond(pos')
        BY <1>9, <2>3
    <3>3. QED
        BY <1>1, <3>1, <3>2, StepLost
  <2>4. QED
      BY <1>7, <2>1, <2>2, <2>3
<1>10. <<"next_id">> # <<"items">>
    OBVIOUS
<1>11. CASE k = 0
  <2>1. NextField("object", Members(saved), k, <<>>, "next_id", Decimal(saved.nextId))
      BY <1>1, <1>3, <1>4, <1>11, MemberNext
  <2>2. \/ /\ m.name = <<"next_id">> /\ r.value = saved.nextId /\ r.pos \in Positions
           /\ Ahead(Written(saved), r.pos, Members(saved), k + 1, <<Loops["object"].close>> \o <<>>)
        \/ /\ m.name = <<"next_id">> /\ Beyond(r.pos)
           /\ r.value = None \/ r.value \in Shortened(saved.nextId)
        \/ Beyond(m.pos)
    <3>1. PICK i \in Int : i = saved.nextId
        BY <1>8
    <3>2. NextField("object", Members(saved), k, <<>>, "next_id", Decimal(i))
        BY <2>1, <3>1
    <3>3. \/ /\ m.name = <<"next_id">> /\ r.value = i /\ r.pos \in Positions
             /\ Ahead(Written(saved), r.pos, Members(saved), k + 1, <<Loops["object"].close>> \o <<>>)
          \/ /\ m.name = <<"next_id">> /\ Beyond(r.pos)
             /\ r.value = None \/ r.value \in Shortened(i)
          \/ Beyond(m.pos)
      <4>1. PICK ps, t, d : ps = Members(saved) /\ t = <<>> /\ d = "next_id"
          OBVIOUS
      <4>2. NextField("object", ps, k, t, d, Decimal(i))
          BY <3>2, <4>1
      <4>3. \/ /\ m.name = <<d>> /\ r.value = i /\ r.pos \in Positions
               /\ Ahead(Written(saved), r.pos, ps, k + 1, <<Loops["object"].close>> \o t)
            \/ /\ m.name = <<d>> /\ Beyond(r.pos)
               /\ r.value = None \/ r.value \in Shortened(i)
            \/ Beyond(m.pos)
          BY <1>6, <4>2, NumberSeen
      <4>4. QED
          BY <4>1, <4>3
    <3>4. QED
        BY <3>1, <3>3
  <2>3. items = <<>>
    <3>1. 0 # 2
        OBVIOUS
    <3>2. QED
        BY <1>4, <1>11, <3>1 DEF InObject
  <2>4. CASE /\ m.name = <<"next_id">> /\ r.value = saved.nextId /\ r.pos \in Positions
             /\ Ahead(Written(saved), r.pos, Members(saved), k + 1, <<Loops["object"].close>> \o <<>>)
    <3>1. pos' = r.pos /\ loop' = "object" /\ counter' = saved.nextId
      <4>1. r.value # None
          BY <1>8, <2>4, NoNumberAssumption
      <4>2. QED
          BY <1>2, <1>7, <1>10, <2>4, <4>1
    <3>2. Ahead(Written(saved), pos', Members(saved), 1, AfterMembers)
      <4>1. k + 1 = 1
          BY <1>11
      <4>2. QED
          BY <2>4, <3>1, <4>1, LoopsAre DEF AfterMembers
    <3>3. AtObject'
      <4>1. 1 \in 0..2 /\ 1 # 0 /\ 1 # 2
          OBVIOUS
      <4>2. QED
          BY <1>1, <2>3, <3>1, <3>2, <4>1 DEF AtObject
    <3>4. QED
        BY <1>8, <2>4, <3>1, <3>3 DEF Inv, OnTrack, InList
  <2>5. CASE /\ m.name = <<"next_id">> /\ Beyond(r.pos)
             /\ r.value = None \/ r.value \in Shortened(saved.nextId)
    <3>1. /\ pos' = r.pos
          /\ IF r.value = None THEN loop' = "thrown" /\ UNCHANGED counter
                               ELSE loop' = loop /\ counter' = r.value
        BY <1>7, <1>10, <2>5
    <3>2. CASE r.value = None
      <4>1. Len(text) < Len(Written(saved)) /\ pos' \in Positions /\ loop' = "thrown"
          BY <2>5, <3>1, <3>2 DEF Beyond
      <4>2. QED
          BY <1>1, <4>1, StepThrown
    <3>3. CASE r.value # None
      <4>1. counter' \in Shortened(saved.nextId) /\ loop' = "object" /\ Beyond(pos')
          BY <1>2, <2>5, <3>1, <3>3
      <4>2. Shortened(saved.nextId) = Leading(saved.nextId)
          BY <1>8 DEF Shortened
      <4>3. Remains'
          BY <1>1, <2>3, <4>1, <4>2 DEF Remains, LostEarly
      <4>4. QED
          BY <1>1, <4>1, <4>3, StepLost
    <3>4. QED
        BY <3>2, <3>3
  <2>6. QED
      BY <1>9, <2>2, <2>4, <2>5
<1>12. CASE k = 1
  <2>1. NextField("object", Members(saved), k, <<>>, "items", Bracketed(ItemTexts(saved)))
      BY <1>1, <1>3, <1>4, <1>12, MemberNext
  <2>2. ItemTexts(saved) \in Seq(Text)
      BY <1>8, ItemsText
  <2>3. \/ /\ m.name = <<"items">> /\ At(text, m.pos) = "[" /\ m.pos + 1 \in Positions
           /\ Ahead(Written(saved), m.pos + 1, ItemTexts(saved), 0,
                    <<"]">> \o (From(Members(saved), k + 1) \o (<<Loops["object"].close>> \o <<>>)))
        \/ Beyond(m.pos)
      BY <1>6, <2>1, <2>2, ArraySeen
  <2>4. CASE /\ m.name = <<"items">> /\ At(text, m.pos) = "[" /\ m.pos + 1 \in Positions
             /\ Ahead(Written(saved), m.pos + 1, ItemTexts(saved), 0,
                      <<"]">> \o (From(Members(saved), k + 1) \o (<<Loops["object"].close>> \o <<>>)))
    <3>1. pos' = m.pos + 1 /\ loop' = "items" /\ counter' = counter
        BY <1>7, <1>10, <2>4
    <3>2. Ahead(Written(saved), pos', ItemTexts(saved), 0, AfterItems(saved))
      <4>1. k + 1 = 2
          BY <1>12
      <4>2. QED
          BY <2>4, <3>1, <4>1, LoopsAre DEF AfterItems, AfterMembers
    <3>3. counter = saved.nextId /\ items = <<>>
      <4>1. 1 # 0 /\ 1 # 2
          OBVIOUS
      <4>2. QED
          BY <1>4, <1>12, <4>1 DEF InObject
    <3>4. SubSeq(saved.items, 1, 0) = <<>> /\ 0 \in 0..Len(saved.items)
        BY <1>3, SavedType, SubSeqEmpty, LenProperties
    <3>5. AtItems'
        BY <1>1, <3>1, <3>2, <3>3, <3>4 DEF AtItems
    <3>6. QED
        BY <1>8, <2>4, <3>1, <3>5 DEF Inv, OnTrack, InList
  <2>5. QED
      BY <1>9, <2>3, <2>4
<1>13. CASE k = 2
  <2>1. k < Len(Members(saved))
    <3>1. View("object", Members(saved), k, <<>>)
        BY <1>4 DEF InObject
    <3>2. Sees("object", Loops["object"].open)
        BY <1>1, LoopsAre
    <3>3. QED
        BY <1>2, <3>1, <3>2, PartSeen
  <2>2. Len(Members(saved)) = 2
      BY <1>8, WrittenText
  <2>3. QED
      BY <1>13, <2>1, <2>2
<1>14. QED
    BY <1>11, <1>12, <1>13

(* ReadItem begins with a blank item.                                       *)
LEMMA ReadItemStep == ASSUME Inv, ReadItem PROVE Inv'
PROOF
<1>1. /\ Sees("items", LBrace) /\ item' = Blank /\ loop' = "item" /\ pos' = Here + 1
      /\ UNCHANGED <<saved, text, counter, items>>
    BY DEF ReadItem, LBrace
<1>2. /\ "items" \in DOMAIN Loops /\ Sees("items", Loops["items"].open)
      /\ Loops["items"].close = "]"
    BY <1>1, LoopChars, LoopsAre
<1>3. Input /\ pos \in Positions /\ AtItems
    BY <1>2, InsideTrack DEF Sees
<1>4. PICK k \in 0..Len(saved.items) : InItems(k)
    BY <1>3, ItemsView
<1>5. Input' /\ saved \in SavedDocument
    BY <1>1, <1>3, InputSame, SavedType
<1>6. /\ View("items", ItemTexts(saved), k, BehindItems(saved))
      /\ counter = saved.nextId /\ items = SubSeq(saved.items, 1, k)
    BY <1>4 DEF InItems
<1>7. /\ Here = pos /\ k < Len(ItemTexts(saved)) /\ Has(Written(saved), pos, ItemTexts(saved)[k + 1])
      /\ Has(Written(saved), pos + Len(ItemTexts(saved)[k + 1]),
             From(ItemTexts(saved), k + 1) \o (<<"]">> \o BehindItems(saved)))
  <2>1. /\ Here = pos /\ k < Len(ItemTexts(saved))
        /\ Has(Written(saved), pos, ItemTexts(saved)[k + 1])
        /\ Has(Written(saved), pos + Len(ItemTexts(saved)[k + 1]),
               From(ItemTexts(saved), k + 1) \o (<<Loops["items"].close>> \o BehindItems(saved)))
      BY <1>2, <1>6, PartSeen
  <2>2. QED
      BY <1>2, <2>1
<1>8. k \in 0..Len(saved.items) - 1 /\ k + 1 \in 1..Len(saved.items)
  <2>1. Len(ItemTexts(saved)) = Len(saved.items) /\ Len(saved.items) \in Nat
      BY <1>5, ItemsText, LenProperties DEF SavedDocument
  <2>2. QED
      BY <1>7, <2>1
<1>9. PICK n \in SavedItem : n = saved.items[k + 1] /\ ItemTexts(saved)[k + 1] = ItemText(n)
    BY <1>5, <1>8, ItemsText
<1>10. BehindFields(saved, k) = From(ItemTexts(saved), k + 1) \o (<<"]">> \o BehindItems(saved))
    BY DEF BehindFields, AfterItems, BehindItems
<1>11. pos' \in Positions /\ Has(Written(saved), pos', From(Fields(n), 0) \o AfterFields(saved, k))
  <2>1. Has(Written(saved), pos, ItemText(n))
      BY <1>7, <1>9
  <2>2. Has(Written(saved), pos + Len(ItemText(n)), BehindFields(saved, k))
      BY <1>7, <1>9, <1>10
  <2>3. ItemText(n) = <<LBrace>> \o Commas(Fields(n)) \o <<RBrace>> /\ Fields(n) \in Seq(Text)
      BY FieldsText
  <2>4. LBrace \in Alphabet /\ RBrace \in Alphabet
      BY DEF Alphabet, LBrace, RBrace
  <2>5. Written(saved) \in Text /\ BehindFields(saved, k) \in Text
      BY <1>3, <1>5, <1>8, InputType, AfterText
  <2>6. Has(Written(saved), pos + 1, From(Fields(n), 0) \o (<<RBrace>> \o BehindFields(saved, k)))
      BY <1>3, <2>1, <2>2, <2>3, <2>4, <2>5, Enclosed
  <2>7. AfterFields(saved, k) = <<RBrace>> \o BehindFields(saved, k)
      BY <1>5, <1>8, AfterText
  <2>8. pos' = pos + 1 /\ pos' \in Positions
      BY <1>1, <1>3, <1>7 DEF Positions
  <2>9. QED
      BY <2>6, <2>7, <2>8
<1>12. Ahead(Written(saved), pos', Fields(saved.items[k + 1]), 0, AfterFields(saved, k))
    BY <1>9, <1>11 DEF Ahead
<1>13. item' = Part(saved.items[k + 1], 0)
  <2>1. Part(n, 0) = Blank
      BY DEF Part, Blank
  <2>2. QED
      BY <1>1, <1>9, <2>1
<1>14. AtItem'
  <2>1. 0 \in 0..7
      OBVIOUS
  <2>2. QED
      BY <1>1, <1>6, <1>8, <1>12, <1>13, <2>1 DEF AtItem
<1>15. QED
    BY <1>5, <1>11, <1>14 DEF Inv, OnTrack, InList
-----------------------------------------------------------------------------
(* The fields of an item.  No value begins with a blank.                    *)
LEMMA ValuesFirst ==
    ASSUME NEW n \in SavedItem, NEW i \in 1..7
    PROVE  \E c : FirstIs(FieldValues(n)[i], c) /\ c \notin Blanks
PROOF
<1>1. /\ n.id \in Int /\ n.timeout \in Int /\ n.urgency \in Int /\ n.state \in Int
      /\ n.app \in Seq(Chars) /\ n.text \in Seq(Chars)
    BY DEF SavedItem
<1>2. i = 1 \/ i = 2 \/ i = 3 \/ i = 4 \/ i = 5 \/ i = 6 \/ i = 7
    OBVIOUS
<1>3. Quote \notin Blanks /\ "[" \notin Blanks
    BY DEF Blanks, Quote
<1>4. CASE i = 1
  <2>1. FieldValues(n)[i] = Decimal(n.id)
      BY <1>4 DEF FieldValues
  <2>2. QED
      BY <1>1, <2>1, DecimalFirst
<1>5. CASE i = 2
  <2>1. FieldValues(n)[i] = Esc(n.app)
      BY <1>5 DEF FieldValues
  <2>2. QED
      BY <1>1, <1>3, <2>1, EscFirst
<1>6. CASE i = 3
  <2>1. FieldValues(n)[i] = Esc(n.text)
      BY <1>6 DEF FieldValues
  <2>2. QED
      BY <1>1, <1>3, <2>1, EscFirst
<1>7. CASE i = 4
  <2>1. FieldValues(n)[i] = Decimal(n.timeout)
      BY <1>7 DEF FieldValues
  <2>2. QED
      BY <1>1, <2>1, DecimalFirst
<1>8. CASE i = 5
  <2>1. FieldValues(n)[i] = Decimal(n.urgency)
      BY <1>8 DEF FieldValues
  <2>2. QED
      BY <1>1, <2>1, DecimalFirst
<1>9. CASE i = 6
  <2>1. FieldValues(n)[i] = Decimal(n.state)
      BY <1>9 DEF FieldValues
  <2>2. QED
      BY <1>1, <2>1, DecimalFirst
<1>10. CASE i = 7
  <2>1. FieldValues(n)[i] = Bracketed(ActionTexts(n))
      BY <1>10 DEF FieldValues
  <2>2. QED
      BY <1>3, <2>1, ActionsText, BracketedFirst
<1>11. QED
    BY <1>2, <1>4, <1>5, <1>6, <1>7, <1>8, <1>9, <1>10

(* The parser reads item k + 1, which is n; f of its fields are behind it.  *)
FieldAt(k, f, n) ==
    /\ k \in 0..Len(saved.items) - 1 /\ f \in 0..7 /\ InItem(k, f)
    /\ n \in SavedItem /\ n = saved.items[k + 1]
    /\ n.id \in Nat \ {0} /\ n.id < saved.nextId /\ saved.nextId \in Nat

(* Which field of an item is next.                                          *)
LEMMA FieldNext ==
    ASSUME Input, Sees("item", Quote), NEW k, NEW f, NEW n, FieldAt(k, f, n), f # 7
    PROVE  /\ f + 1 \in 1..7
           /\ NextField("item", Fields(n), f, BehindFields(saved, k),
                        FieldNames[f + 1], FieldValues(n)[f + 1])
PROOF
<1>1. PICK i \in 1..7 : i = f + 1
    BY DEF FieldAt
<1>2. n \in SavedItem /\ View("item", Fields(n), f, BehindFields(saved, k))
    BY DEF FieldAt, InItem
<1>3. /\ FieldNames[i] \in Names /\ FieldValues(n)[i] \in Text
      /\ Fields(n)[i] = Field(FieldNames[i], FieldValues(n)[i])
    BY <1>2, FieldsAre
<1>4. \E c : FirstIs(FieldValues(n)[i], c) /\ c \notin Blanks
    BY <1>2, ValuesFirst
<1>5. QED
    BY <1>1, <1>2, <1>3, <1>4 DEF NextField

(* What ReadField does, by the name it reads.                               *)
LEMMA ReadFieldIs ==
    ASSUME ReadField
    PROVE  /\ Sees("item", Quote) /\ UNCHANGED <<saved, text, counter, items>>
           /\ LET m == ReadName(text, Here)
              IN  \/ \E g \in Numbers : ReadNumber(m, g)
                  \/ \E g \in {"app", "text"} : ReadText(m, g)
                  \/ /\ m.name = <<"actions">> /\ At(text, m.pos) = "["
                     /\ loop' = "actions" /\ pos' = m.pos + 1 /\ UNCHANGED item
                  \/ /\ \A g \in Numbers \cup {"app", "text"} : m.name # <<g>>
                     /\ m.name = <<"actions">> => At(text, m.pos) # "["
                     /\ pos' = m.pos /\ UNCHANGED <<loop, item>>
PROOF BY DEF ReadField, Numbers

(* On track there is an item with fields left.                              *)
LEMMA ReadFieldAt ==
    ASSUME Inv, ReadField
    PROVE  /\ Input /\ Input' /\ loop = "item"
           /\ pos \in Positions /\ pos <= Len(text)
           /\ \E k, f, n : FieldAt(k, f, n) /\ f # 7
PROOF
<1>1. Sees("item", Quote) /\ UNCHANGED <<saved, text, counter, items>>
    BY ReadFieldIs
<1>2. In("item") /\ "item" \in DOMAIN Loops /\ loop = "item"
    BY <1>1, LoopChars DEF Sees, In
<1>3. Input /\ pos \in Positions /\ pos <= Len(text) /\ AtItem
    BY <1>2, InsideTrack
<1>4. PICK k \in 0..Len(saved.items) - 1, f \in 0..7 : InItem(k, f)
    BY <1>3, ItemView
<1>5. PICK n : n = saved.items[k + 1]
    OBVIOUS
<1>6. FieldAt(k, f, n)
    BY <1>3, <1>4, <1>5, ItemId DEF FieldAt
<1>7. f # 7
  <2>1. f < Len(Fields(n))
    <3>1. View("item", Fields(n), f, BehindFields(saved, k))
        BY <1>4, <1>5 DEF InItem
    <3>2. Sees("item", Loops["item"].open)
        BY <1>1, LoopsAre
    <3>3. QED
        BY <1>2, <3>1, <3>2, PartSeen
  <2>2. Len(Fields(n)) = 7
      BY <1>6, FieldsText DEF FieldAt
  <2>3. QED
      BY <2>1, <2>2
<1>8. QED
    BY <1>1, <1>2, <1>3, <1>6, <1>7, InputSame

(* The text ends in the middle of the item n.                               *)
LEMMA ItemLost ==
    ASSUME Inv, loop \in {"item", "actions"}, UNCHANGED <<saved, text, counter, items, loop>>,
           NEW k \in 0..Len(saved.items) - 1, NEW n, n = saved.items[k + 1],
           counter = saved.nextId, items = SubSeq(saved.items, 1, k),
           CutItem(n, item'), Beyond(pos')
    PROVE  Inv'
PROOF
<1>1. LostInside'
    BY DEF LostInside
<1>2. Remains'
    BY <1>1 DEF Remains
<1>3. QED
    BY <1>2, StepLost

(* The text ends in the field g of the item n, or with it.                  *)
LEMMA FieldLost ==
    ASSUME Inv, ReadField, NEW k, NEW f, NEW n, FieldAt(k, f, n),
           NEW g \in Numbers \cup Strings, NEW v \in Left(n, g), item' = [item EXCEPT ![g] = v],
           loop' = loop, Beyond(pos')
    PROVE  Inv'
PROOF
<1>1. UNCHANGED <<saved, text, counter, items, loop>> /\ loop = "item"
    BY ReadFieldIs, ReadFieldAt
<1>2. /\ k \in 0..Len(saved.items) - 1 /\ n = saved.items[k + 1] /\ n \in SavedItem
      /\ counter = saved.nextId /\ items = SubSeq(saved.items, 1, k)
      /\ item = Part(n, f) /\ f \in 0..7
    BY DEF FieldAt, InItem
<1>3. CutItem(n, item')
    BY <1>2, FieldCut
<1>4. QED
    BY <1>1, <1>2, <1>3, ItemLost

(* The text ends before the value.                                          *)
LEMMA FieldBeyond ==
    ASSUME Inv, ReadField, Beyond(ReadName(text, Here).pos)
    PROVE  Inv'
PROOF
<1>1. PICK m : m = ReadName(text, Here)
    OBVIOUS
<1>2. /\ UNCHANGED <<saved, text, counter, items>>
      /\ \/ \E g \in Numbers : ReadNumber(m, g)
         \/ \E g \in {"app", "text"} : ReadText(m, g)
         \/ /\ m.name = <<"actions">> /\ At(text, m.pos) = "["
            /\ loop' = "actions" /\ pos' = m.pos + 1 /\ UNCHANGED item
         \/ /\ \A g \in Numbers \cup {"app", "text"} : m.name # <<g>>
            /\ m.name = <<"actions">> => At(text, m.pos) # "["
            /\ pos' = m.pos /\ UNCHANGED <<loop, item>>
    BY <1>1, ReadFieldIs
<1>3. Input /\ loop = "item" /\ \E k, f, n : FieldAt(k, f, n) /\ f # 7
    BY ReadFieldAt
<1>4. /\ ReadInt(text, m.pos) = [value |-> None, pos |-> m.pos]
      /\ Beyond(ReadString(text, m.pos).pos) /\ ReadString(text, m.pos).value = <<>>
      /\ At(text, m.pos) = "NUL"
    BY <1>1, <1>3, BeyondView
<1>5. CASE \E g \in Numbers : ReadNumber(m, g)
  <2>1. loop' = "thrown" /\ pos' = m.pos
      BY <1>4, <1>5 DEF ReadNumber
  <2>2. Len(text) < Len(Written(saved)) /\ pos' \in Positions
      BY <1>1, <2>1 DEF Beyond
  <2>3. QED
      BY <1>2, <2>1, <2>2, StepThrown
<1>6. CASE \E g \in {"app", "text"} : ReadText(m, g)
  <2>1. PICK g \in {"app", "text"} : ReadText(m, g)
      BY <1>6
  <2>2. /\ pos' = ReadString(text, m.pos).pos /\ loop' = loop
        /\ item' = [item EXCEPT ![g] = <<>>]
      BY <1>4, <2>1 DEF ReadText
  <2>3. PICK k, f, n : FieldAt(k, f, n)
      BY <1>3
  <2>4. <<>> \in Left(n, g) /\ g \in Numbers \cup Strings
      BY DEF Left, Blank, Strings
  <2>5. QED
      BY <1>4, <2>2, <2>3, <2>4, FieldLost
<1>7. CASE pos' = m.pos /\ UNCHANGED <<loop, item>>
  <2>1. PICK k, f, n : FieldAt(k, f, n)
      BY <1>3
  <2>2. /\ k \in 0..Len(saved.items) - 1 /\ n = saved.items[k + 1] /\ n \in SavedItem
        /\ counter = saved.nextId /\ items = SubSeq(saved.items, 1, k)
        /\ item = Part(n, f) /\ f \in 0..7
      BY <2>1 DEF FieldAt, InItem
  <2>3. CutItem(n, item')
      BY <1>7, <2>2, PartCut
  <2>4. Beyond(pos')
      BY <1>1, <1>7
  <2>5. QED
      BY <1>2, <1>3, <1>7, <2>2, <2>3, <2>4, ItemLost
<1>8. QED
    BY <1>2, <1>4, <1>5, <1>6, <1>7

(* One more field.                                                          *)
LEMMA NextPart ==
    ASSUME NEW n \in SavedItem, NEW f \in 0..5
    PROVE  [Part(n, f) EXCEPT ![FieldNames[f + 1]] = n[FieldNames[f + 1]]] = Part(n, f + 1)
PROOF
<1>1. f = 0 \/ f = 1 \/ f = 2 \/ f = 3 \/ f = 4 \/ f = 5
    OBVIOUS
<1>2. PICK g : g = FieldNames[f + 1]
    OBVIOUS
<1>3. CASE f = 0
  <2>1. g = "id"
      BY <1>2, <1>3 DEF FieldNames
  <2>2. QED
      BY <1>2, <1>3, <2>1 DEF Part
<1>4. CASE f = 1
  <2>1. g = "app"
      BY <1>2, <1>4 DEF FieldNames
  <2>2. QED
      BY <1>2, <1>4, <2>1 DEF Part
<1>5. CASE f = 2
  <2>1. g = "text"
      BY <1>2, <1>5 DEF FieldNames
  <2>2. QED
      BY <1>2, <1>5, <2>1 DEF Part
<1>6. CASE f = 3
  <2>1. g = "timeout"
      BY <1>2, <1>6 DEF FieldNames
  <2>2. QED
      BY <1>2, <1>6, <2>1 DEF Part
<1>7. CASE f = 4
  <2>1. g = "urgency"
      BY <1>2, <1>7 DEF FieldNames
  <2>2. QED
      BY <1>2, <1>7, <2>1 DEF Part
<1>8. CASE f = 5
  <2>1. g = "state"
      BY <1>2, <1>8 DEF FieldNames
  <2>2. QED
      BY <1>2, <1>8, <2>1 DEF Part
<1>9. QED
    BY <1>1, <1>3, <1>4, <1>5, <1>6, <1>7, <1>8

(* The value is read in full.                                               *)
LEMMA FieldRead ==
    ASSUME Inv, ReadField, NEW k, NEW f, NEW n, FieldAt(k, f, n), f \in 0..5,
           loop' = loop, item' = [item EXCEPT ![FieldNames[f + 1]] = n[FieldNames[f + 1]]],
           pos' \in Positions,
           Ahead(Written(saved), pos', Fields(n), f + 1,
                 <<Loops["item"].close>> \o BehindFields(saved, k))
    PROVE  Inv'
PROOF
<1>1. UNCHANGED <<saved, text, counter, items>>
    BY ReadFieldIs
<1>2. Input /\ Input' /\ loop = "item"
    BY ReadFieldAt
<1>3. /\ k \in 0..Len(saved.items) - 1 /\ n = saved.items[k + 1] /\ n \in SavedItem
      /\ counter = saved.nextId /\ items = SubSeq(saved.items, 1, k) /\ item = Part(n, f)
    BY DEF FieldAt, InItem
<1>4. item' = Part(n, f + 1)
    BY <1>3, NextPart
<1>5. AfterFields(saved, k) = <<Loops["item"].close>> \o BehindFields(saved, k)
    BY <1>2, <1>3, SavedType, AfterText, LoopsAre
<1>6. PICK e \in 0..7 : e = f + 1
    OBVIOUS
<1>7. AtItem'
  <2>1. Ahead(Written(saved), pos', Fields(saved.items[k + 1]), e, AfterFields(saved, k))
      BY <1>3, <1>5, <1>6
  <2>2. item' = Part(saved.items[k + 1], e)
      BY <1>3, <1>4, <1>6
  <2>3. QED
      BY <1>1, <1>2, <1>3, <2>1, <2>2 DEF AtItem
<1>8. QED
    BY <1>2, <1>7 DEF Inv, OnTrack, InList
(* The fields that are numbers,                                             *)
LEMMA NumberField ==
    ASSUME Inv, ReadField, NEW k, NEW f, NEW n, FieldAt(k, f, n), f \in 0..5,
           NEW g \in Numbers, g = FieldNames[f + 1], NEW i \in Int, i = n[g],
           FieldValues(n)[f + 1] = Decimal(i)
    PROVE  Inv'
PROOF
<1>1. PICK m, r : m = ReadName(text, Here) /\ r = ReadInt(text, m.pos)
    OBVIOUS
<1>2. Input /\ loop = "item" /\ UNCHANGED <<saved, text, counter, items>>
    BY ReadFieldAt, ReadFieldIs
<1>3. NextField("item", Fields(n), f, BehindFields(saved, k), g, Decimal(i))
  <2>1. f # 7
      OBVIOUS
  <2>2. QED
      BY <1>2, <2>1, ReadFieldIs, FieldNext
<1>4. \/ /\ m.name = <<g>> /\ r.value = i /\ r.pos \in Positions
         /\ Ahead(Written(saved), r.pos, Fields(n), f + 1,
                  <<Loops["item"].close>> \o BehindFields(saved, k))
      \/ /\ m.name = <<g>> /\ Beyond(r.pos)
         /\ r.value = None \/ r.value \in Shortened(i)
      \/ Beyond(m.pos)
  <2>1. PICK ps, v : ps = Fields(n) /\ v = BehindFields(saved, k)
      OBVIOUS
  <2>2. NextField("item", ps, f, v, g, Decimal(i))
      BY <1>3, <2>1
  <2>3. \/ /\ m.name = <<g>> /\ r.value = i /\ r.pos \in Positions
           /\ Ahead(Written(saved), r.pos, ps, f + 1, <<Loops["item"].close>> \o v)
        \/ /\ m.name = <<g>> /\ Beyond(r.pos)
           /\ r.value = None \/ r.value \in Shortened(i)
        \/ Beyond(m.pos)
      BY <1>1, <2>2, NumberSeen
  <2>4. QED
      BY <2>1, <2>3
<1>5. ASSUME m.name = <<g>>
      PROVE  /\ pos' = r.pos
             /\ IF r.value = None THEN loop' = "thrown" /\ UNCHANGED item
                                  ELSE loop' = loop /\ item' = [item EXCEPT ![g] = r.value]
  <2>1. /\ \/ \E h \in Numbers : ReadNumber(m, h)
           \/ \E h \in {"app", "text"} : ReadText(m, h)
           \/ m.name = <<"actions">>
           \/ \A h \in Numbers \cup {"app", "text"} : m.name # <<h>>
      BY <1>1, ReadFieldIs
  <2>2. g \notin {"app", "text", "actions"} /\ \A h : <<g>> = <<h>> => g = h
      BY DEF Numbers
  <2>3. ~\E h \in {"app", "text"} : ReadText(m, h)
      BY <1>5, <2>2 DEF ReadText
  <2>4. m.name # <<"actions">>
      BY <1>5, <2>2
  <2>5. PICK h \in Numbers : ReadNumber(m, h)
      BY <1>5, <2>1, <2>3, <2>4
  <2>6. h = g
      BY <1>5, <2>2, <2>5 DEF ReadNumber
  <2>7. QED
      BY <1>1, <2>5, <2>6 DEF ReadNumber
<1>6. CASE Beyond(m.pos)
    BY <1>1, <1>6, FieldBeyond
<1>7. CASE /\ m.name = <<g>> /\ r.value = i /\ r.pos \in Positions
           /\ Ahead(Written(saved), r.pos, Fields(n), f + 1,
                    <<Loops["item"].close>> \o BehindFields(saved, k))
  <2>1. r.value # None
      BY <1>7, NoNumberAssumption
  <2>2. pos' = r.pos /\ loop' = loop /\ item' = [item EXCEPT ![g] = n[g]]
      BY <1>5, <1>7, <2>1
  <2>3. QED
      BY <1>7, <2>2, FieldRead
<1>8. CASE /\ m.name = <<g>> /\ Beyond(r.pos)
           /\ r.value = None \/ r.value \in Shortened(i)
  <2>1. CASE r.value = None
    <3>1. Len(text) < Len(Written(saved)) /\ pos' \in Positions /\ loop' = "thrown"
        BY <1>5, <1>8, <2>1 DEF Beyond
    <3>2. QED
        BY <1>2, <3>1, StepThrown
  <2>2. CASE r.value # None
    <3>1. pos' = r.pos /\ loop' = loop /\ item' = [item EXCEPT ![g] = r.value]
        BY <1>5, <1>8, <2>2
    <3>2. r.value \in Left(n, g)
        BY <1>8, <2>2 DEF Left
    <3>3. QED
        BY <1>8, <3>1, <3>2, FieldLost
  <2>3. QED
      BY <2>1, <2>2
<1>9. QED
    BY <1>4, <1>6, <1>7, <1>8

(* the fields that are strings,                                             *)
LEMMA TextField ==
    ASSUME Inv, ReadField, NEW k, NEW f, NEW n, FieldAt(k, f, n), f \in 0..5,
           NEW g \in {"app", "text"}, g = FieldNames[f + 1],
           NEW s \in Seq(Chars), s = n[g], FieldValues(n)[f + 1] = Esc(s)
    PROVE  Inv'
PROOF
<1>1. PICK m, r : m = ReadName(text, Here) /\ r = ReadString(text, m.pos)
    OBVIOUS
<1>2. Input /\ loop = "item" /\ UNCHANGED <<saved, text, counter, items>>
    BY ReadFieldAt, ReadFieldIs
<1>3. NextField("item", Fields(n), f, BehindFields(saved, k), g, Esc(s))
  <2>1. f # 7
      OBVIOUS
  <2>2. QED
      BY <1>2, <2>1, ReadFieldIs, FieldNext
<1>4. \/ /\ m.name = <<g>> /\ r.value = s /\ r.pos \in Positions
         /\ Ahead(Written(saved), r.pos, Fields(n), f + 1,
                  <<Loops["item"].close>> \o BehindFields(saved, k))
      \/ m.name = <<g>> /\ Beyond(r.pos) /\ r.value \in Pieces(s)
      \/ Beyond(m.pos)
  <2>1. PICK ps, v : ps = Fields(n) /\ v = BehindFields(saved, k)
      OBVIOUS
  <2>2. NextField("item", ps, f, v, g, Esc(s))
      BY <1>3, <2>1
  <2>3. \/ /\ m.name = <<g>> /\ r.value = s /\ r.pos \in Positions
           /\ Ahead(Written(saved), r.pos, ps, f + 1, <<Loops["item"].close>> \o v)
        \/ m.name = <<g>> /\ Beyond(r.pos) /\ r.value \in Pieces(s)
        \/ Beyond(m.pos)
      BY <1>1, <2>2, TextSeen
  <2>4. QED
      BY <2>1, <2>3
<1>5. ASSUME m.name = <<g>>
      PROVE  pos' = r.pos /\ loop' = loop /\ item' = [item EXCEPT ![g] = r.value]
  <2>1. /\ \/ \E h \in Numbers : ReadNumber(m, h)
           \/ \E h \in {"app", "text"} : ReadText(m, h)
           \/ m.name = <<"actions">>
           \/ \A h \in Numbers \cup {"app", "text"} : m.name # <<h>>
      BY <1>1, ReadFieldIs
  <2>2. g \notin Numbers \cup {"actions"} /\ \A h : <<g>> = <<h>> => g = h
      BY DEF Numbers
  <2>3. ~\E h \in Numbers : ReadNumber(m, h)
      BY <1>5, <2>2 DEF ReadNumber
  <2>4. m.name # <<"actions">>
      BY <1>5, <2>2
  <2>5. PICK h \in {"app", "text"} : ReadText(m, h)
      BY <1>5, <2>1, <2>3, <2>4
  <2>6. h = g
      BY <1>5, <2>2, <2>5 DEF ReadText
  <2>7. QED
      BY <1>1, <2>5, <2>6 DEF ReadText
<1>6. CASE Beyond(m.pos)
    BY <1>1, <1>6, FieldBeyond
<1>7. CASE /\ m.name = <<g>> /\ r.value = s /\ r.pos \in Positions
           /\ Ahead(Written(saved), r.pos, Fields(n), f + 1,
                    <<Loops["item"].close>> \o BehindFields(saved, k))
  <2>1. pos' = r.pos /\ loop' = loop /\ item' = [item EXCEPT ![g] = n[g]]
      BY <1>5, <1>7
  <2>2. QED
      BY <1>7, <2>1, FieldRead
<1>8. CASE m.name = <<g>> /\ Beyond(r.pos) /\ r.value \in Pieces(s)
  <2>1. pos' = r.pos /\ loop' = loop /\ item' = [item EXCEPT ![g] = r.value]
      BY <1>5, <1>8
  <2>2. r.value \in Left(n, g) /\ g \in Numbers \cup Strings
      BY <1>8 DEF Left, Numbers, Strings
  <2>3. QED
      BY <1>8, <2>1, <2>2, FieldLost
<1>9. QED
    BY <1>4, <1>6, <1>7, <1>8

(* and the actions.                                                         *)
LEMMA ActionsField ==
    ASSUME Inv, ReadField, NEW k, NEW n, FieldAt(k, 6, n)
    PROVE  Inv'
PROOF
<1>1. PICK m : m = ReadName(text, Here)
    OBVIOUS
<1>2. /\ Input /\ Input' /\ loop = "item"
      /\ UNCHANGED <<saved, text, counter, items>>
    BY ReadFieldAt, ReadFieldIs
<1>3. /\ k \in 0..Len(saved.items) - 1 /\ n = saved.items[k + 1] /\ n \in SavedItem
      /\ counter = saved.nextId /\ items = SubSeq(saved.items, 1, k) /\ item = Part(n, 6)
    BY DEF FieldAt, InItem
<1>4. ActionTexts(n) \in Seq(Text) /\ n.actions \in Seq(Seq(Chars))
    BY <1>3, ActionsText DEF SavedItem
<1>5. NextField("item", Fields(n), 6, BehindFields(saved, k), "actions", Bracketed(ActionTexts(n)))
  <2>1. FieldNames[7] = "actions" /\ FieldValues(n)[7] = Bracketed(ActionTexts(n)) /\ 6 + 1 = 7
      BY DEF FieldNames, FieldValues
  <2>2. 6 # 7
      OBVIOUS
  <2>3. NextField("item", Fields(n), 6, BehindFields(saved, k), FieldNames[6 + 1], FieldValues(n)[6 + 1])
      BY <1>2, <2>2, ReadFieldIs, FieldNext
  <2>4. QED
      BY <2>1, <2>3
<1>6. \/ /\ m.name = <<"actions">> /\ At(text, m.pos) = "[" /\ m.pos + 1 \in Positions
         /\ Ahead(Written(saved), m.pos + 1, ActionTexts(n), 0, AfterActions(saved, k))
      \/ Beyond(m.pos)
  <2>1. PICK ps, v, g, qs :
            ps = Fields(n) /\ v = BehindFields(saved, k) /\ g = "actions" /\ qs = ActionTexts(n)
      OBVIOUS
  <2>2. NextField("item", ps, 6, v, g, Bracketed(qs)) /\ qs \in Seq(Text)
      BY <1>4, <1>5, <2>1
  <2>3. \/ /\ m.name = <<g>> /\ At(text, m.pos) = "[" /\ m.pos + 1 \in Positions
           /\ Ahead(Written(saved), m.pos + 1, qs, 0,
                    <<"]">> \o (From(ps, 6 + 1) \o (<<Loops["item"].close>> \o v)))
        \/ Beyond(m.pos)
      BY <1>1, <2>2, ArraySeen
  <2>4. AfterActions(saved, k) = <<"]">> \o (From(ps, 6 + 1) \o (<<Loops["item"].close>> \o v))
    <3>1. 6 + 1 = 7
        OBVIOUS
    <3>2. QED
        BY <1>3, <2>1, <3>1, LoopsAre DEF AfterActions, AfterFields, BehindFields
  <2>5. QED
      BY <2>1, <2>3, <2>4
<1>7. CASE Beyond(m.pos)
    BY <1>1, <1>7, FieldBeyond
<1>8. CASE /\ m.name = <<"actions">> /\ At(text, m.pos) = "[" /\ m.pos + 1 \in Positions
           /\ Ahead(Written(saved), m.pos + 1, ActionTexts(n), 0, AfterActions(saved, k))
  <2>1. loop' = "actions" /\ pos' = m.pos + 1 /\ item' = item
    <3>1. \/ \E h \in Numbers : ReadNumber(m, h)
          \/ \E h \in {"app", "text"} : ReadText(m, h)
          \/ loop' = "actions" /\ pos' = m.pos + 1 /\ UNCHANGED item
        BY <1>1, <1>8, ReadFieldIs
    <3>2. \A h \in Numbers \cup {"app", "text"} : <<h>> # <<"actions">>
        BY DEF Numbers
    <3>3. QED
        BY <1>8, <3>1, <3>2 DEF ReadNumber, ReadText
  <2>2. item' = [Part(n, 6) EXCEPT !.actions = SubSeq(n.actions, 1, 0)]
    <3>1. SubSeq(n.actions, 1, 0) = <<>>
        BY <1>4, SubSeqEmpty
    <3>2. PICK e : e = <<>> /\ e = SubSeq(n.actions, 1, 0)
        BY <3>1
    <3>3. Part(n, 6) = [Part(n, 6) EXCEPT !.actions = e]
        BY <3>2 DEF Part
    <3>4. QED
        BY <1>3, <2>1, <3>2, <3>3
  <2>3. 0 \in 0..Len(n.actions)
      BY <1>4, LenProperties
  <2>4. AtActions'
      BY <1>2, <1>3, <1>8, <2>1, <2>2, <2>3 DEF AtActions
  <2>5. QED
      BY <1>2, <1>8, <2>1, <2>4 DEF Inv, OnTrack, InList
<1>9. QED
    BY <1>6, <1>7, <1>8

(* All seven together.                                                      *)
LEMMA ReadFieldStep == ASSUME Inv, ReadField PROVE Inv'
PROOF
<1>1. PICK k, f, n : FieldAt(k, f, n) /\ f # 7
    BY ReadFieldAt
<1>2. n \in SavedItem /\ f \in 0..7
    BY <1>1 DEF FieldAt
<1>3. /\ n.id \in Int /\ n.timeout \in Int /\ n.urgency \in Int /\ n.state \in Int
      /\ n.app \in Seq(Chars) /\ n.text \in Seq(Chars)
    BY <1>2 DEF SavedItem
<1>4. /\ {"id", "timeout", "urgency", "state"} = Numbers
      /\ 0 \in 0..5 /\ 1 \in 0..5 /\ 2 \in 0..5 /\ 3 \in 0..5 /\ 4 \in 0..5 /\ 5 \in 0..5
    BY DEF Numbers
<1>5. CASE f = 0
  <2>1. FieldNames[f + 1] = "id" /\ FieldValues(n)[f + 1] = Decimal(n.id)
      BY <1>5 DEF FieldNames, FieldValues
  <2>2. QED
      BY <1>1, <1>3, <1>4, <1>5, <2>1, NumberField
<1>6. CASE f = 1
  <2>1. FieldNames[f + 1] = "app" /\ FieldValues(n)[f + 1] = Esc(n.app)
      BY <1>6 DEF FieldNames, FieldValues
  <2>2. QED
      BY <1>1, <1>3, <1>4, <1>6, <2>1, TextField
<1>7. CASE f = 2
  <2>1. FieldNames[f + 1] = "text" /\ FieldValues(n)[f + 1] = Esc(n.text)
      BY <1>7 DEF FieldNames, FieldValues
  <2>2. QED
      BY <1>1, <1>3, <1>4, <1>7, <2>1, TextField
<1>8. CASE f = 3
  <2>1. FieldNames[f + 1] = "timeout" /\ FieldValues(n)[f + 1] = Decimal(n.timeout)
      BY <1>8 DEF FieldNames, FieldValues
  <2>2. QED
      BY <1>1, <1>3, <1>4, <1>8, <2>1, NumberField
<1>9. CASE f = 4
  <2>1. FieldNames[f + 1] = "urgency" /\ FieldValues(n)[f + 1] = Decimal(n.urgency)
      BY <1>9 DEF FieldNames, FieldValues
  <2>2. QED
      BY <1>1, <1>3, <1>4, <1>9, <2>1, NumberField
<1>10. CASE f = 5
  <2>1. FieldNames[f + 1] = "state" /\ FieldValues(n)[f + 1] = Decimal(n.state)
      BY <1>10 DEF FieldNames, FieldValues
  <2>2. QED
      BY <1>1, <1>3, <1>4, <1>10, <2>1, NumberField
<1>11. CASE f = 6
    BY <1>1, <1>11, ActionsField
<1>12. QED
    BY <1>1, <1>2, <1>5, <1>6, <1>7, <1>8, <1>9, <1>10, <1>11
-----------------------------------------------------------------------------
(* ReadAction appends the next string of the list.                          *)
LEMMA ReadActionStep == ASSUME Inv, ReadAction PROVE Inv'
PROOF
<1>1. PICK r : r = ReadString(text, Here)
    OBVIOUS
<1>2. /\ Sees("actions", Quote) /\ UNCHANGED <<saved, text, loop, counter, items>>
      /\ item' = [item EXCEPT !.actions = Append(@, r.value)] /\ pos' = r.pos
    BY <1>1 DEF ReadAction
<1>3. /\ "actions" \in DOMAIN Loops /\ Sees("actions", Loops["actions"].open)
      /\ Loops["actions"].close = "]" /\ In("actions") /\ loop = "actions"
    BY <1>2, LoopChars, LoopsAre DEF Sees, In
<1>4. Input /\ pos \in Positions /\ AtActions
    BY <1>3, InsideTrack
<1>5. PICK k \in 0..Len(saved.items) - 1 :
          \E j \in 0..Len(saved.items[k + 1].actions) : InActions(k, j)
    BY <1>4, ActionsView
<1>6. PICK n \in SavedItem : n = saved.items[k + 1]
    BY <1>4, ItemId
<1>7. PICK j \in 0..Len(n.actions) : InActions(k, j)
    BY <1>5, <1>6
<1>8. /\ View("actions", ActionTexts(n), j, BehindActions(saved, k))
      /\ counter = saved.nextId /\ items = SubSeq(saved.items, 1, k)
      /\ item = [Part(n, 6) EXCEPT !.actions = SubSeq(n.actions, 1, j)]
    BY <1>6, <1>7 DEF InActions
<1>9. PICK as \in Seq(Seq(Chars)) : as = n.actions
    BY DEF SavedItem
<1>10. PICK b \in Nat : b = Len(as) /\ j \in Nat /\ j <= b /\ Len(ActionTexts(n)) = b
    BY <1>9, LenProperties, ActionsText
<1>11. /\ Here = pos /\ j < b /\ Has(Written(saved), pos, ActionTexts(n)[j + 1])
       /\ Has(Written(saved), pos + Len(ActionTexts(n)[j + 1]),
              From(ActionTexts(n), j + 1) \o (<<Loops["actions"].close>> \o BehindActions(saved, k)))
       /\ pos + Len(ActionTexts(n)[j + 1]) \in Positions
    BY <1>3, <1>8, <1>10, PartSeen
<1>12. PICK i \in 1..b : i = j + 1
  <2>1. PICK y \in Nat : y = j /\ y < b
      BY <1>10, <1>11
  <2>2. y + 1 \in 1..b
      BY <2>1
  <2>3. QED
      BY <2>1, <2>2
<1>13. as[i] \in Seq(Chars) /\ ActionTexts(n)[i] = Esc(as[i])
    BY <1>9, <1>10, ActionsText
<1>14. PICK q \in Positions : q = pos + Len(Esc(as[i]))
    BY <1>11, <1>12, <1>13
<1>15. r = [value |-> as[i], pos |-> q] \/ (Beyond(r.pos) /\ r.value \in Pieces(as[i]))
  <2>1. Has(Written(saved), pos, Esc(as[i]))
      BY <1>11, <1>12, <1>13
  <2>2. QED
      BY <1>1, <1>4, <1>11, <1>13, <1>14, <2>1, StringView
<1>16. Input'
    BY <1>2, <1>4, InputSame
<1>17. CASE Beyond(r.pos) /\ r.value \in Pieces(as[i])
  <2>1. PICK x, y : x = SubSeq(as, 1, j) /\ y = Append(x, r.value)
      OBVIOUS
  <2>2. item' = [Part(n, 6) EXCEPT !.actions = y]
    <3>1. item = [Part(n, 6) EXCEPT !.actions = x]
        BY <1>8, <1>9, <2>1
    <3>2. item.actions = x
        BY <3>1 DEF Part
    <3>3. item' = [item EXCEPT !.actions = y]
        BY <1>2, <2>1, <3>2
    <3>4. PICK z : z = Part(n, 6)
        OBVIOUS
    <3>5. [[z EXCEPT !.actions = x] EXCEPT !.actions = y] = [z EXCEPT !.actions = y]
        OBVIOUS
    <3>6. QED
        BY <3>1, <3>3, <3>4, <3>5
  <2>3. ActionsLeft(n, y)
    <3>1. j \in 0..Len(n.actions) - 1 /\ r.value \in Pieces(n.actions[j + 1])
        BY <1>9, <1>10, <1>11, <1>12, <1>17
    <3>2. y = Append(SubSeq(n.actions, 1, j), r.value)
        BY <1>9, <2>1
    <3>3. QED
        BY <3>1, <3>2 DEF ActionsLeft
  <2>4. CutItem(n, item')
      BY <2>2, <2>3, ActionsCut
  <2>5. QED
      BY <1>2, <1>3, <1>6, <1>8, <1>17, <2>4, ItemLost
<1>18. CASE r = [value |-> as[i], pos |-> q]
  <2>1. item' = [Part(n, 6) EXCEPT !.actions = SubSeq(as, 1, i)]
    <3>1. SubSeq(as, 1, i) = Append(SubSeq(as, 1, j), as[i])
      <4>1. j \in Nat
          BY <1>10
      <4>2. i \in Nat /\ i <= b
          OBVIOUS
      <4>3. i <= Len(as)
          BY <1>10, <4>2
      <4>4. QED
          BY <1>12, <4>1, <4>2, <4>3, PrefixAppend
    <3>2. PICK x, y : x = SubSeq(as, 1, j) /\ y = SubSeq(as, 1, i) /\ y = Append(x, as[i])
        BY <3>1
    <3>3. item = [Part(n, 6) EXCEPT !.actions = x]
        BY <1>8, <1>9, <3>2
    <3>4. item' = [item EXCEPT !.actions = Append(@, as[i])]
        BY <1>2, <1>18
    <3>5. item' = [Part(n, 6) EXCEPT !.actions = y]
      <4>1. item.actions = x
          BY <3>3 DEF Part
      <4>2. item' = [item EXCEPT !.actions = y]
          BY <3>2, <3>4, <4>1
      <4>3. PICK z : z = Part(n, 6)
          OBVIOUS
      <4>4. [[z EXCEPT !.actions = x] EXCEPT !.actions = y] = [z EXCEPT !.actions = y]
          OBVIOUS
      <4>5. QED
          BY <3>3, <4>2, <4>3, <4>4
    <3>6. QED
        BY <3>2, <3>5
  <2>2. Ahead(Written(saved), q, ActionTexts(n), i, AfterActions(saved, k))
    <3>1. AfterActions(saved, k) = <<Loops["actions"].close>> \o BehindActions(saved, k)
        BY <1>3 DEF AfterActions, BehindActions
    <3>2. Has(Written(saved), q, From(ActionTexts(n), i) \o AfterActions(saved, k))
        BY <1>11, <1>12, <1>13, <1>14, <3>1
    <3>3. QED
        BY <3>2 DEF Ahead
  <2>3. pos' = q
      BY <1>2, <1>18
  <2>4. i \in 0..Len(n.actions)
      BY <1>9, <1>10, <1>12
  <2>5. AtActions'
    <3>1. saved' = saved /\ loop' = "actions" /\ counter' = saved.nextId
          /\ items' = SubSeq(saved.items, 1, k)
        BY <1>2, <1>3, <1>8
    <3>2. Ahead(Written(saved), pos', ActionTexts(saved.items[k + 1]), i, AfterActions(saved, k))
        BY <1>6, <2>2, <2>3
    <3>3. item' = [Part(saved.items[k + 1], 6) EXCEPT
                      !.actions = SubSeq(saved.items[k + 1].actions, 1, i)]
        BY <1>6, <1>9, <2>1
    <3>4. i \in 0..Len(saved.items[k + 1].actions)
        BY <1>6, <2>4
    <3>5. QED
        BY <3>1, <3>2, <3>3, <3>4 DEF AtActions
  <2>6. QED
      BY <1>16, <2>3, <2>5 DEF Inv, OnTrack, InList
<1>19. QED
    BY <1>15, <1>17, <1>18
-----------------------------------------------------------------------------
(* The invariant holds at first,                                            *)
LEMMA InitInv == Init => Inv
PROOF
<1> SUFFICES ASSUME Init PROVE Inv
    OBVIOUS
<1>1. Input
    BY DEF Init, Input
<1>2. AtStart /\ pos \in Positions
    BY DEF Init, AtStart, Positions
<1>3. QED
    BY <1>1, <1>2 DEF Inv, OnTrack

(* and every step keeps it.                                                 *)
LEMMA NextInv == Inv /\ [Next]_vars => Inv'
PROOF
<1> SUFFICES ASSUME Inv, [Next]_vars PROVE Inv'
    OBVIOUS
<1>1. CASE UNCHANGED vars
  <2>1. UNCHANGED <<saved, text, pos, loop, counter, items, item>>
      BY <1>1 DEF vars
  <2>2. Input' /\ pos' \in Positions
      BY <2>1, InputSame DEF Inv
  <2>3. CASE Lost
      BY <2>1, <2>2, <2>3, RemainsSame DEF Inv, Lost
  <2>4. CASE OnTrack
    <3>1. AtStart => AtStart'
        BY <2>1 DEF AtStart
    <3>2. AtObject => AtObject'
        BY <2>1 DEF AtObject
    <3>3. AtItems => AtItems'
        BY <2>1 DEF AtItems
    <3>4. AtItem => AtItem'
        BY <2>1 DEF AtItem
    <3>5. AtActions => AtActions'
        BY <2>1 DEF AtActions
    <3>6. AtEnd => AtEnd'
        BY <2>1 DEF AtEnd
    <3>7. QED
        BY <2>2, <2>4, <3>1, <3>2, <3>3, <3>4, <3>5, <3>6 DEF Inv, OnTrack, InList
  <2>5. QED
      BY <2>3, <2>4 DEF Inv
<1>2. CASE Next
  <2>1. Begin => Inv'
      BY BeginStep
  <2>2. Skip => Inv'
      BY SkipStep
  <2>3. ReadMember => Inv'
      BY ReadMemberStep
  <2>4. ReadItem => Inv'
      BY ReadItemStep
  <2>5. ReadField => Inv'
      BY ReadFieldStep
  <2>6. ReadAction => Inv'
      BY ReadActionStep
  <2>7. \A l \in DOMAIN Loops : Leave(l) => Inv'
      BY LeaveStep
  <2>8. QED
      BY <1>2, <2>1, <2>2, <2>3, <2>4, <2>5, <2>6, <2>7 DEF Next
<1>3. QED
    BY <1>1, <1>2

(* Wherever the parser is, what it has built up is what it has read of the  *)
(* document that was written, and the rest of that document is before it;   *)
(* or the text was cut short, and the parser is past its end.               *)
THEOREM ParserOnTrack == Spec => []Inv
PROOF BY InitInv, NextInv, PTL DEF Spec

(* A document that was written in full is read back as it was: no app name, *)
(* text or key, of any length, with whatever quotes, escapes, commas and    *)
(* braces in it, and no number of entries or of actions misleads            *)
(* loadFromDisk.                                                            *)
THEOREM RoundTripHolds == Spec => []RoundTrip
PROOF
<1>1. Inv => RoundTrip
  <2> SUFFICES ASSUME Inv, loop \in {"done", "thrown"}, text = Written(saved)
               PROVE  loop = "done" /\ counter = saved.nextId /\ items = saved.items
      BY DEF RoundTrip, Ended
  <2>1. Len(text) = Len(Written(saved)) /\ Len(text) \in Nat
    <3>1. Input
        BY DEF Inv
    <3>2. QED
        BY <3>1, InputType
  <2>2. ~Lost
      BY <2>1 DEF Lost
  <2>3. ~AtStart /\ ~InList
      BY DEF AtStart, InList, AtObject, AtItems, AtItem, AtActions
  <2>4. AtEnd
      BY <2>2, <2>3 DEF Inv, OnTrack
  <2>5. QED
      BY <2>4 DEF AtEnd
<1>2. QED
    BY <1>1, ParserOnTrack, PTL

(* The counter and the ids of what is left.                                 *)
LEMMA LostBelow ==
    ASSUME Inv, Lost, loop = "done"
    PROVE  counter \in Int /\ Below(items, counter)
PROOF
<1>1. Input /\ Remains
    BY DEF Inv, Lost
<1>2. saved.nextId \in Nat
    BY <1>1, SavedType
<1>3. CASE LostEarly
  <2>1. counter \in Int
      BY <1>2, <1>3, LeadingIs DEF LostEarly
  <2>2. QED
      BY <1>3, <2>1, BelowNone DEF LostEarly
<1>4. CASE LostBetween
    BY <1>1, <1>2, <1>4, BelowPrefix DEF LostBetween
<1>5. CASE LostAfter
  <2>1. PICK k \in 0..Len(saved.items) - 1 : \E x :
            items = Append(SubSeq(saved.items, 1, k), x) /\ CutItem(saved.items[k + 1], x)
      BY <1>5 DEF LostAfter
  <2>2. PICK x : items = Append(SubSeq(saved.items, 1, k), x) /\ CutItem(saved.items[k + 1], x)
      BY <2>1
  <2>3. PICK n \in SavedItem : n = saved.items[k + 1] /\ n.id \in Nat /\ n.id < saved.nextId
      BY <1>1, ItemId
  <2>4. x.id \in Nat /\ x.id <= n.id
      BY <2>2, <2>3, LeftId
  <2>5. x.id < saved.nextId
      BY <1>2, <2>3, <2>4
  <2>6. Below(SubSeq(saved.items, 1, k), saved.nextId)
      BY <1>1, ItemId, BelowPrefix
  <2>7. Below(items, saved.nextId)
      BY <2>2, <2>4, <2>5, <2>6, BelowAppend
  <2>8. QED
      BY <1>2, <1>5, <2>7 DEF LostAfter
<1>6. QED
    BY <1>1, <1>3, <1>4, <1>5 DEF Remains, LostInside

(* The counter that comes out of a file, however much of it is missing, is  *)
(* past the id of every entry that comes out of it: accept does not draw an *)
(* id that is in use.                                                       *)
THEOREM TornIdsFresh == Spec => []TornKeepsIdsFresh
PROOF
<1>1. Inv => TornKeepsIdsFresh
  <2> SUFFICES ASSUME Inv, loop = "done", NEW i \in Live(Loaded.items)
               PROVE  i < Loaded.nextId
      BY DEF TornKeepsIdsFresh
  <2>1. counter \in Int /\ Below(items, counter)
    <3>1. CASE AtEnd
      <4>1. Input
          BY DEF Inv
      <4>2. saved.items \in Seq(SavedItem) /\ saved.nextId \in Nat
          BY <4>1, SavedType
      <4>3. Len(saved.items) \in 0..Len(saved.items)
          BY <4>2, LenProperties
      <4>4. SubSeq(saved.items, 1, Len(saved.items)) = saved.items
          BY <4>2, SubSeqFull
      <4>5. Below(saved.items, saved.nextId)
          BY <4>1, <4>3, <4>4, BelowPrefix
      <4>6. QED
          BY <3>1, <4>2, <4>5 DEF AtEnd
    <3>2. CASE Lost
        BY <3>2, LostBelow
    <3>3. ~AtStart /\ ~InList
        BY DEF AtStart, InList, AtObject, AtItems, AtItem, AtActions
    <3>4. QED
        BY <3>1, <3>2, <3>3 DEF Inv, OnTrack
  <2>2. /\ Loaded.items = Inboxed(Stored(items))
        /\ Loaded.nextId = IF counter > 1 THEN counter ELSE 1
      BY DEF Loaded, Reload
  <2>3. i \in Ids /\ Stored(items)[i] # None
    <3>1. i \in Ids /\ Loaded.items[i] # None
        BY DEF Live
    <3>2. QED
        BY <2>2, <3>1 DEF Inboxed
  <2>4. PICK k \in DOMAIN items : items[k].id = i
    <3>1. {k \in DOMAIN items : items[k].id = i} # {}
        BY <2>3 DEF Stored
    <3>2. QED
        BY <3>1
  <2>5. PICK S : items \in Seq(S) /\ \A x \in S : x.id \in Nat /\ x.id < counter
      BY <2>1 DEF Below
  <2>6. items[k] \in S
      BY <2>4, <2>5, LenProperties
  <2>7. i \in Nat /\ i < counter
      BY <2>4, <2>5, <2>6
  <2>8. QED
      BY <2>1, <2>2, <2>7
<1>2. QED
    BY <1>1, ParserOnTrack, PTL
-----------------------------------------------------------------------------
(* What the items that are left come to as a store.                         *)
(*                                                                          *)
(* The map has nothing at an id that no item has,                           *)
LEMMA StoredNone ==
    ASSUME NEW is, NEW i \in Ids, \A k \in DOMAIN is : is[k].id # i
    PROVE  Stored(is)[i] = None
PROOF
<1>1. {k \in DOMAIN is : is[k].id = i} = {}
    OBVIOUS
<1>2. QED
    BY <1>1 DEF Stored

(* and the first of those that have it at any other.                        *)
LEMMA StoredFirst ==
    ASSUME NEW is, NEW l \in Nat, DOMAIN is = 1..l, NEW k \in 1..l,
           is[k].id \in Ids, \A j \in 1..k - 1 : is[j].id # is[k].id
    PROVE  Stored(is)[is[k].id] = Entry(is[k])
PROOF
<1> DEFINE S == {j \in DOMAIN is : is[j].id = is[k].id}
<1>1. k \in S
    OBVIOUS
<1>2. ASSUME NEW j \in S PROVE k <= j
  <2>1. j \in 1..l /\ j \notin 1..k - 1
      OBVIOUS
  <2>2. QED
      BY <2>1
<1>3. \A m \in S : k <= m /\ m <= k => m = k
    OBVIOUS
<1>4. Stored(is)[is[k].id] = Entry(is[CHOOSE m \in S : \A j \in S : m <= j])
    BY <1>1 DEF Stored
<1> HIDE DEF S
<1>5. (CHOOSE m \in S : \A j \in S : m <= j) = k
    BY <1>1, <1>2, <1>3
<1>6. QED
    BY <1>4, <1>5

(* A list of l items that starts with k of those that were saved.           *)
StartsWith(is, l, k) == DOMAIN is = 1..l /\ k <= l /\ \A j \in 1..k : is[j] = saved.items[j]

(* A list that starts with k of the saved items has at their ids what was   *)
(* saved there: no two have one id.                                         *)
LEMMA StoredPrefix ==
    ASSUME Input, NEW k \in 0..Len(saved.items),
           NEW is, NEW l \in Nat, StartsWith(is, l, k),
           NEW m \in 1..k
    PROVE  /\ saved.items[m] \in SavedItem /\ saved.items[m].id \in Ids
           /\ Stored(is)[saved.items[m].id] = Entry(saved.items[m])
PROOF
<1>1. PICK ps \in Seq(SavedItem) : ps = saved.items
    BY SavedType
<1>2. PICK n \in Nat : n = Len(ps) /\ DOMAIN ps = 1..n /\ \A j \in 1..n : ps[j] \in SavedItem
    BY LenProperties
<1>3. k \in 0..n /\ m \in 1..n /\ m \in 1..l
    BY <1>1, <1>2 DEF StartsWith
<1>4. \A j \in 1..m - 1 : j \in 1..k /\ j \in DOMAIN ps \ {m}
    BY <1>2, <1>3
<1>5. \A j \in DOMAIN ps \ {m} : ps[j].id # ps[m].id
    BY <1>1, <1>2, <1>3, IdsAssumption DEF Input
<1>6. is[m] = ps[m] /\ \A j \in 1..m - 1 : is[j] = ps[j]
    BY <1>1, <1>4 DEF StartsWith
<1>7. \A j \in 1..m - 1 : is[j].id # is[m].id
    BY <1>4, <1>5, <1>6
<1>8. ps[m] \in SavedItem /\ ps[m].id \in Ids
  <2>1. ps[m] \in SavedItem
      BY <1>2, <1>3
  <2>2. ps[m].id < saved.nextId
      BY <1>1, <1>2, <1>3, IdsAssumption DEF Input
  <2>3. saved.nextId \in 0..IdMax
      BY SavedAssumption DEF Input, Handles
  <2>4. ps[m].id \in Nat \ {0}
      BY <2>1 DEF SavedItem
  <2>5. ps[m].id \in 1..IdMax
      BY <2>2, <2>3, <2>4, IdMaxAssumption
  <2>6. QED
      BY <2>1, <2>5 DEF Ids
<1>9. Stored(is)[is[m].id] = Entry(is[m])
  <2>1. is[m].id \in Ids
      BY <1>6, <1>8
  <2>2. DOMAIN is = 1..l
      BY DEF StartsWith
  <2>3. QED
      BY <1>3, <1>7, <2>1, <2>2, StoredFirst
<1>10. QED
    BY <1>1, <1>6, <1>8, <1>9

(* The keys of a list that was cut are keys of the list: its last element   *)
(* is none.                                                                 *)
LEMMA CutKeys ==
    ASSUME NEW n \in SavedItem, NEW as, ActionsLeft(n, as), NEW k \in DOMAIN as, k < Len(as)
    PROVE  k \in DOMAIN n.actions /\ k < Len(n.actions) /\ as[k] = n.actions[k]
PROOF
<1>1. PICK bs \in Seq(Seq(Chars)) : bs = n.actions
    BY DEF SavedItem
<1>2. PICK l \in Nat : l = Len(bs) /\ DOMAIN bs = 1..l
    BY LenProperties
<1>3. ASSUME NEW j \in 0..l
      PROVE  \E cs \in Seq(Seq(Chars)) : /\ cs = SubSeq(bs, 1, j) /\ Len(cs) = j
                                         /\ \A m \in 1..j : cs[m] = bs[m]
  <2>1. PICK cs : cs = SubSeq(bs, 1, j)
      OBVIOUS
  <2>2. cs \in Seq(Seq(Chars)) /\ Len(cs) = j /\ \A m \in 1..j : cs[m] = bs[m]
      BY <1>2, <1>3, <2>1, PrefixProperties
  <2>3. QED
      BY <2>1, <2>2
<1>4. CASE \E j \in 0..l : as = SubSeq(bs, 1, j)
  <2>1. PICK j \in 0..l : as = SubSeq(bs, 1, j)
      BY <1>4
  <2>2. as \in Seq(Seq(Chars)) /\ Len(as) = j /\ \A m \in 1..j : as[m] = bs[m]
      BY <1>3, <2>1
  <2>3. k \in 1..j
      BY <2>2, LenProperties
  <2>4. k \in 1..l /\ k < l
      BY <2>2, <2>3
  <2>5. as[k] = bs[k]
      BY <2>2, <2>3
  <2>6. QED
      BY <1>1, <1>2, <2>4, <2>5
<1>5. CASE \E j \in 0..l - 1 : \E y : as = Append(SubSeq(bs, 1, j), y)
  <2>1. PICK j \in 0..l - 1 : \E y : as = Append(SubSeq(bs, 1, j), y)
      BY <1>5
  <2>2. PICK y : as = Append(SubSeq(bs, 1, j), y)
      BY <2>1
  <2>3. j \in 0..l /\ j \in Nat
      BY <1>2
  <2>4. PICK cs \in Seq(Seq(Chars)) : /\ cs = SubSeq(bs, 1, j) /\ Len(cs) = j
                                      /\ \A m \in 1..j : cs[m] = bs[m]
      BY <1>3, <2>3
  <2>5. PICK T : T = Seq(Chars) \cup {y}
      OBVIOUS
  <2>6. cs \in Seq(T) /\ y \in T
      BY <2>5, SeqMonotonic
  <2>7. /\ Append(cs, y) \in Seq(T) /\ Len(Append(cs, y)) = Len(cs) + 1
        /\ \A m \in 1..Len(cs) : Append(cs, y)[m] = cs[m]
      BY <2>6, AppendProperties
  <2>8. as \in Seq(T) /\ Len(as) = j + 1 /\ \A m \in 1..j : as[m] = bs[m]
      BY <2>2, <2>4, <2>7
  <2>9. k \in 1..j
    <3>1. k \in 1..j + 1
        BY <2>8, LenProperties
    <3>2. QED
        BY <2>3, <2>8, <3>1
  <2>10. k \in 1..l /\ k < l
      BY <2>9
  <2>11. as[k] = bs[k]
      BY <2>8, <2>9
  <2>12. QED
      BY <1>1, <1>2, <2>10, <2>11
<1>6. QED
    BY <1>1, <1>2, <1>4, <1>5 DEF ActionsLeft

(* An item that was saved and is whole is one that could be left of it.     *)
LEMMA WholeCut == ASSUME NEW n \in SavedItem PROVE CutItem(n, n)
PROOF
<1>1. PICK as \in Seq(Seq(Chars)) : as = n.actions
    BY DEF SavedItem
<1>2. PICK l \in Nat : l = Len(as)
    BY LenProperties
<1>3. SubSeq(as, 1, l) = as
    BY <1>2, SubSeqFull
<1>4. ActionsLeft(n, n.actions)
  <2>1. l \in 0..l
      OBVIOUS
  <2>2. QED
      BY <1>1, <1>2, <1>3, <2>1 DEF ActionsLeft
<1>5. QED
    BY <1>4, WholeLeft DEF CutItem

(* The fields of what is left of a saved item.                              *)
LEMMA CutFields ==
    ASSUME Input, NEW k \in 0..Len(saved.items) - 1,
           NEW n, n = saved.items[k + 1], NEW x, CutItem(n, x)
    PROVE  /\ x.app \in Apps /\ x.text \in Texts /\ x.timeout \in Timeouts
           /\ x.urgency \in {1, n.urgency} /\ x.state \in {0, n.state}
           /\ n.urgency \in 0..2 /\ n.state \in 0..1
PROOF
<1>1. n \in SavedItem
    BY ItemId
<1>2. k + 1 \in DOMAIN saved.items
  <2>1. PICK ps \in Seq(SavedItem) : ps = saved.items
      BY SavedType
  <2>2. PICK l \in Nat : l = Len(ps) /\ DOMAIN ps = 1..l
      BY LenProperties
  <2>3. k + 1 \in 1..l
      BY <2>1, <2>2
  <2>4. QED
      BY <2>1, <2>2, <2>3
<1>3. Pieces(n.app) \subseteq Apps /\ Pieces(n.text) \subseteq Texts /\ Shortened(n.timeout) \subseteq Timeouts
    BY <1>2, PiecesAssumption DEF Input
<1>4. x.app \in Apps
  <2>1. n.app \in Seq(Chars)
      BY <1>1 DEF SavedItem
  <2>2. x.app \in {<<>>} \cup Pieces(n.app)
      BY DEF CutItem, Left, Numbers, Strings, Blank
  <2>3. QED
      BY <1>3, <2>1, <2>2, WholePiece
<1>5. x.text \in Texts
  <2>1. n.text \in Seq(Chars)
      BY <1>1 DEF SavedItem
  <2>2. x.text \in {<<>>} \cup Pieces(n.text)
      BY DEF CutItem, Left, Numbers, Strings, Blank
  <2>3. QED
      BY <1>3, <2>1, <2>2, WholePiece
<1>6. x.timeout \in Timeouts
  <2>1. x.timeout \in {-1} \cup Shortened(n.timeout)
      BY DEF CutItem, Left, Numbers, Blank
  <2>2. QED
      BY <1>3, <2>1, DefaultTimeout
<1>7. \A i \in 0..2 : Shortened(i) = {i}
  <2>1. ASSUME NEW i \in 0..2 PROVE Shortened(i) = {i}
    <3>1. i \in Nat /\ i < 10 /\ ~(i < 0)
        OBVIOUS
    <3>2. Leading(i) = {i}
        BY <3>1, LeadingIs
    <3>3. QED
        BY <3>1, <3>2 DEF Shortened
  <2>2. QED
      BY <2>1
<1>8. n.urgency \in 0..2 /\ n.state \in 0..1
    BY <1>1 DEF SavedItem
<1>9. x.urgency \in {1, n.urgency}
  <2>1. x.urgency \in {1} \cup Shortened(n.urgency)
      BY DEF CutItem, Left, Numbers, Blank
  <2>2. QED
      BY <1>7, <1>8, <2>1
<1>10. x.state \in {0, n.state}
  <2>1. x.state \in {0} \cup Shortened(n.state)
      BY DEF CutItem, Left, Numbers, Blank
  <2>2. n.state \in 0..2
      BY <1>8
  <2>3. QED
      BY <1>7, <2>1, <2>2
<1>11. QED
    BY <1>4, <1>5, <1>6, <1>8, <1>9, <1>10

Shown(n) == [Entry(n) EXCEPT !.state = "INBOX"]

(* Its entry is one that the store can hold, and a cut of that of the item. *)
LEMMA CutEntry ==
    ASSUME Input, NEW k \in 0..Len(saved.items) - 1,
           NEW n, n = saved.items[k + 1], NEW x, CutItem(n, x)
    PROVE  Entry(x) \in Notification /\ Shown(x) \in Cut(Shown(n))
PROOF
<1>1. /\ x.app \in Apps /\ x.text \in Texts /\ x.timeout \in Timeouts
      /\ x.urgency \in {1, n.urgency} /\ x.state \in {0, n.state}
      /\ n.urgency \in 0..2 /\ n.state \in 0..1
    BY CutFields
<1>2. Entry(x).actions \subseteq Entry(n).actions
  <2>1. n \in SavedItem /\ ActionsLeft(n, x.actions)
      BY ItemId DEF CutItem
  <2>2. ASSUME NEW j \in DOMAIN x.actions, j % 2 = 1, j < Len(x.actions)
        PROVE  x.actions[j] \in Entry(n).actions
    <3>1. j \in DOMAIN n.actions /\ j < Len(n.actions) /\ x.actions[j] = n.actions[j]
        BY <2>1, <2>2, CutKeys
    <3>2. QED
        BY <2>2, <3>1 DEF Entry
  <2>3. QED
      BY <2>2 DEF Entry
<1>3. Entry(n).actions \subseteq Keys
  <2>1. PICK ps \in Seq(SavedItem) : ps = saved.items
      BY SavedType
  <2>2. PICK l \in Nat : l = Len(ps) /\ DOMAIN ps = 1..l
      BY LenProperties
  <2>3. k + 1 \in DOMAIN saved.items
      BY <2>1, <2>2
  <2>4. \A j \in DOMAIN n.actions : n.actions[j] \in Keys
      BY <2>3, PiecesAssumption DEF Input
  <2>5. QED
      BY <2>4 DEF Entry
<1>4. \A u \in 0..2 : <<"LOW", "NORMAL", "CRITICAL">>[u + 1] \in Urgencies
    BY DEF Urgencies
<1>5. \A s \in 0..1 : <<"VISIBLE", "INBOX">>[s + 1] \in States
    BY DEF States
<1>6. Entry(x) \in Notification
  <2>1. x.urgency \in 0..2 /\ x.state \in 0..1
      BY <1>1
  <2>2. Entry(x).actions \subseteq Keys
      BY <1>2, <1>3
  <2>3. Entry(x).urgency \in Urgencies /\ Entry(x).state \in States
      BY <1>4, <1>5, <2>1 DEF Entry
  <2>4. QED
      BY <1>1, <2>2, <2>3 DEF Entry, Notification
<1>7. Shown(x) \in Cut(Shown(n))
  <2>1. Entry(x).urgency \in {Entry(n).urgency, "NORMAL"}
      BY <1>1 DEF Entry
  <2>2. /\ Shown(n).urgency = Entry(n).urgency /\ Shown(n).state = "INBOX"
        /\ Shown(n).actions = Entry(n).actions
      BY DEF Shown, Entry
  <2>3. PICK e \in Notification : e = Entry(x)
      BY <1>6
  <2>4. e.app = x.app /\ e.text = x.text /\ e.timeout = x.timeout
      BY <2>3 DEF Entry
  <2>5. PICK d : d = [e EXCEPT !.state = "INBOX"]
      OBVIOUS
  <2>6. d = [app |-> e.app, text |-> e.text, actions |-> e.actions,
             timeout |-> e.timeout, urgency |-> e.urgency, state |-> "INBOX"]
      BY <2>5 DEF Notification
  <2>7. d \in Cut(Shown(n))
      BY <1>1, <1>2, <2>1, <2>2, <2>3, <2>4, <2>6 DEF Cut
  <2>8. QED
      BY <2>3, <2>5, <2>7 DEF Shown
<1>8. QED
    BY <1>6, <1>7

Was == Inboxed(Stored(saved.items))

(* Each of the saved items is an entry of the store that was saved.         *)
LEMMA WasShown ==
    ASSUME Input, NEW m \in 1..Len(saved.items)
    PROVE  /\ saved.items[m] \in SavedItem /\ saved.items[m].id \in Ids
           /\ saved.items[m].id \in Live(Was) /\ Was[saved.items[m].id] = Shown(saved.items[m])
           /\ saved.items[m].id < saved.nextId /\ saved.nextId \in Nat
           /\ Entry(saved.items[m]) \in Notification
PROOF
<1>1. PICK ps \in Seq(SavedItem) : ps = saved.items
    BY SavedType
<1>2. PICK l \in Nat : l = Len(ps) /\ DOMAIN ps = 1..l
    BY LenProperties
<1>3. PICK n : n = saved.items[m]
    OBVIOUS
<1>4. m - 1 \in 0..l - 1 /\ (m - 1) + 1 = m
    BY <1>1, <1>2
<1>5. n \in SavedItem /\ n.id < saved.nextId /\ saved.nextId \in Nat
    BY <1>1, <1>2, <1>3, <1>4, ItemId
<1>6. n.id \in Ids /\ Stored(saved.items)[n.id] = Entry(n)
  <2>1. l \in 0..Len(saved.items) /\ m \in 1..l
      BY <1>1, <1>2
  <2>2. StartsWith(saved.items, l, l)
      BY <1>1, <1>2 DEF StartsWith
  <2>3. QED
      BY <1>3, <2>1, <2>2, StoredPrefix
<1>7. Entry(n) \in Notification
  <2>1. CutItem(n, n)
      BY <1>5, WholeCut
  <2>2. QED
      BY <1>1, <1>2, <1>3, <1>4, <2>1, CutEntry
<1>8. Entry(n) # None /\ Shown(n) # None
  <2>1. Shown(n) \in Notification
      BY <1>7 DEF Shown, Notification, States
  <2>2. QED
      BY <1>7, <2>1, NoneAssumption
<1>9. Was[n.id] = Shown(n)
    BY <1>6, <1>8 DEF Was, Inboxed, Shown
<1>10. QED
    BY <1>3, <1>5, <1>6, <1>7, <1>8, <1>9 DEF Live

(* A list that starts with some of them has the same entries at their ids,  *)
LEMMA SameBefore ==
    ASSUME Input, NEW k \in 0..Len(saved.items),
           NEW is, NEW l \in Nat, StartsWith(is, l, k),
           NEW m \in 1..k
    PROVE  /\ saved.items[m].id \in Live(Inboxed(Stored(is)))
           /\ Inboxed(Stored(is))[saved.items[m].id] = Was[saved.items[m].id]
PROOF
<1>1. PICK n : n = saved.items[m]
    OBVIOUS
<1>2. n.id \in Ids /\ Stored(is)[n.id] = Entry(n)
    BY <1>1, StoredPrefix
<1>3. m \in 1..Len(saved.items)
  <2>1. Len(saved.items) \in Nat
      BY SavedType, LenProperties
  <2>2. QED
      BY <2>1
<1>4. Was[n.id] = Shown(n) /\ n.id \in Live(Was) /\ Entry(n) # None
  <2>1. Was[n.id] = Shown(n) /\ n.id \in Live(Was) /\ Entry(n) \in Notification
      BY <1>1, <1>3, WasShown
  <2>2. QED
      BY <2>1, NoneAssumption
<1>5. Inboxed(Stored(is))[n.id] = Shown(n)
    BY <1>2, <1>4 DEF Inboxed, Shown
<1>6. QED
    BY <1>1, <1>2, <1>4, <1>5 DEF Live

(* and nothing at an id that is not of the list.                            *)
LEMMA AmongItems ==
    ASSUME NEW is, NEW i \in Live(Inboxed(Stored(is)))
    PROVE  \E m \in DOMAIN is : is[m].id = i
PROOF
<1>1. i \in Ids /\ Inboxed(Stored(is))[i] # None
    BY DEF Live
<1>2. Stored(is)[i] # None
    BY <1>1 DEF Inboxed
<1>3. QED
    BY <1>1, <1>2, StoredNone

LEMMA StoredEmpty == Inboxed(Stored(<<>>)) = NoItems
PROOF
<1>1. \A i \in Ids : Stored(<<>>)[i] = None
  <2>1. \A k \in DOMAIN <<>> : FALSE
      OBVIOUS
  <2>2. QED
      BY <2>1, StoredNone
<1>2. QED
    BY <1>1 DEF Inboxed, NoItems

Known ==
    LET Partial(i) == \E j \in Live(Was) : i \in Leading(j) /\ Loaded.items[i] \in Cut(Was[j])
    IN  \/ Loaded.items = NoItems /\ Loaded.nextId \in {1} \cup 1..saved.nextId
        \/ /\ Loaded.nextId = saved.nextId
           /\ \E i \in Live(Loaded.items) :
                 /\ Loaded.items[i] = Was[i] \/ Partial(i)
                 /\ \A j \in Live(Loaded.items) \ {i} : Loaded.items[j] = Was[j]

(* Nothing but a part of the counter was read,                              *)
LEMMA KnownEarly ==
    ASSUME Input, items = <<>>, counter \in {1} \cup Leading(saved.nextId)
    PROVE  Known
PROOF
<1>1. saved.nextId \in Nat
    BY SavedType
<1>2. Leading(saved.nextId) \subseteq 0..saved.nextId
    BY <1>1, LeadingIs
<1>3. Loaded.items = NoItems
    BY StoredEmpty DEF Loaded, Reload
<1>4. Loaded.nextId = IF counter > 1 THEN counter ELSE 1
    BY DEF Loaded, Reload
<1>5. Loaded.nextId \in {1} \cup 1..saved.nextId
    BY <1>1, <1>2, <1>4
<1>6. QED
    BY <1>3, <1>5 DEF Known

(* some of the items,                                                       *)
LEMMA KnownBetween ==
    ASSUME Input, counter = saved.nextId,
           NEW k \in 0..Len(saved.items), items = SubSeq(saved.items, 1, k)
    PROVE  Known
PROOF
<1>1. PICK ps \in Seq(SavedItem) : ps = saved.items
    BY SavedType
<1>2. PICK l \in Nat : l = Len(ps) /\ k \in 0..l
    BY <1>1, LenProperties
<1>3. items \in Seq(SavedItem) /\ Len(items) = k /\ \A j \in 1..k : items[j] = saved.items[j]
    BY <1>1, <1>2, PrefixProperties
<1>4. DOMAIN items = 1..k /\ k \in Nat /\ k <= k
    BY <1>2, <1>3, LenProperties
<1>5. Loaded.items = Inboxed(Stored(items)) /\ Loaded.nextId = IF counter > 1 THEN counter ELSE 1
    BY DEF Loaded, Reload
<1>6. CASE k = 0
  <2>1. items = <<>>
      BY <1>6, SubSeqEmpty
  <2>2. counter \in Leading(saved.nextId)
      BY SavedType, LeadingIs
  <2>3. QED
      BY <2>1, <2>2, KnownEarly
<1>7. CASE k # 0
  <2>1. 1 \in 1..k /\ 1 \in 1..Len(saved.items)
      BY <1>1, <1>2, <1>7
  <2>2. PICK i : i = saved.items[1].id
      OBVIOUS
  <2>3. ASSUME NEW m \in 1..k
        PROVE  /\ saved.items[m].id \in Live(Loaded.items)
               /\ Loaded.items[saved.items[m].id] = Was[saved.items[m].id]
    <3>1. StartsWith(items, k, k)
        BY <1>3, <1>4 DEF StartsWith
    <3>2. /\ saved.items[m].id \in Live(Inboxed(Stored(items)))
          /\ Inboxed(Stored(items))[saved.items[m].id] = Was[saved.items[m].id]
        BY <1>4, <3>1, SameBefore
    <3>3. QED
        BY <1>5, <3>2
  <2>4. i \in Live(Loaded.items) /\ Loaded.items[i] = Was[i]
      BY <2>1, <2>2, <2>3
  <2>5. ASSUME NEW j \in Live(Loaded.items) PROVE Loaded.items[j] = Was[j]
    <3>1. j \in Live(Inboxed(Stored(items)))
        BY <1>5
    <3>2. PICK m \in 1..k : items[m].id = j
      <4>1. \E m \in DOMAIN items : items[m].id = j
          BY <3>1, AmongItems
      <4>2. QED
          BY <1>4, <4>1
    <3>3. QED
        BY <1>3, <2>3, <3>2
  <2>6. Loaded.nextId = saved.nextId
    <3>1. i \in Ids /\ i < saved.nextId /\ saved.nextId \in Nat
        BY <2>1, <2>2, WasShown
    <3>2. saved.nextId > 1
        BY <3>1, IdMaxAssumption DEF Ids
    <3>3. QED
        BY <1>5, <3>2
  <2>7. QED
      BY <2>4, <2>5, <2>6 DEF Known
<1>8. QED
    BY <1>6, <1>7

(* some of the items and a part of the next.                                *)
LEMMA KnownAfter ==
    ASSUME Input, counter = saved.nextId, NEW k \in 0..Len(saved.items) - 1,
           NEW x, items = Append(SubSeq(saved.items, 1, k), x),
           CutItem(saved.items[k + 1], x), x.id # 0
    PROVE  Known
PROOF
<1>1. PICK ps \in Seq(SavedItem) : ps = saved.items
    BY SavedType
<1>2. PICK l \in Nat : l = Len(ps) /\ k \in 0..l /\ k + 1 \in 1..l
    BY <1>1, LenProperties
<1>3. PICK n : n = saved.items[k + 1]
    OBVIOUS
<1>4. DOMAIN items = 1..k + 1 /\ items[k + 1] = x /\ \A j \in 1..k : items[j] = saved.items[j]
  <2>1. PICK cs : cs = SubSeq(ps, 1, k)
      OBVIOUS
  <2>2. cs \in Seq(SavedItem) /\ Len(cs) = k /\ \A j \in 1..k : cs[j] = ps[j]
      BY <1>2, <2>1, PrefixProperties
  <2>3. PICK T : T = SavedItem \cup {x}
      OBVIOUS
  <2>4. cs \in Seq(T) /\ x \in T
      BY <2>2, <2>3, SeqMonotonic
  <2>5. /\ Append(cs, x) \in Seq(T) /\ Len(Append(cs, x)) = k + 1
        /\ Append(cs, x)[k + 1] = x
        /\ \A j \in 1..k : Append(cs, x)[j] = cs[j]
      BY <2>2, <2>4, AppendProperties
  <2>6. DOMAIN Append(cs, x) = 1..k + 1
      BY <2>5, LenProperties
  <2>7. QED
      BY <1>1, <2>1, <2>2, <2>5, <2>6
<1>5. PICK h \in Nat : h = k + 1 /\ k \in Nat /\ k <= h /\ k \in 0..Len(saved.items)
    BY <1>1, <1>2
<1>6. Loaded.items = Inboxed(Stored(items)) /\ Loaded.nextId = IF counter > 1 THEN counter ELSE 1
    BY DEF Loaded, Reload
<1>7. /\ n \in SavedItem /\ n.id \in Ids /\ n.id \in Live(Was) /\ Was[n.id] = Shown(n)
      /\ n.id < saved.nextId /\ saved.nextId \in Nat
    BY <1>1, <1>2, <1>3, WasShown
<1>8. x.id \in Leading(n.id) /\ x.id \in Ids
  <2>1. x.id \in {0} \cup Leading(n.id) /\ x.id \in Nat /\ x.id <= n.id
      BY <1>3, <1>7, LeftId
  <2>2. x.id \in 1..IdMax
      BY <1>7, <2>1, IdMaxAssumption DEF Ids
  <2>3. QED
      BY <2>1, <2>2 DEF Ids
<1>9. Entry(x) \in Notification /\ Shown(x) \in Cut(Shown(n))
    BY <1>3, CutEntry
<1>10. ASSUME NEW m \in 1..k
       PROVE  /\ saved.items[m].id \in Live(Loaded.items)
              /\ Loaded.items[saved.items[m].id] = Was[saved.items[m].id]
  <2>1. StartsWith(items, h, k)
      BY <1>4, <1>5 DEF StartsWith
  <2>2. k \in 0..Len(saved.items)
      BY <1>5
  <2>3. /\ saved.items[m].id \in Live(Inboxed(Stored(items)))
        /\ Inboxed(Stored(items))[saved.items[m].id] = Was[saved.items[m].id]
      BY <2>1, <2>2, SameBefore
  <2>4. QED
      BY <1>6, <2>3
<1>11. ASSUME NEW j \in Live(Loaded.items), j # x.id PROVE Loaded.items[j] = Was[j]
  <2>1. j \in Live(Inboxed(Stored(items)))
      BY <1>6
  <2>2. PICK m \in 1..k + 1 : items[m].id = j
    <3>1. \E m \in DOMAIN items : items[m].id = j
        BY <2>1, AmongItems
    <3>2. QED
        BY <1>4, <3>1
  <2>3. m # k + 1
      BY <1>4, <1>11, <2>2
  <2>4. m \in 1..k
      BY <1>5, <2>3
  <2>5. QED
      BY <1>4, <1>10, <2>2, <2>4
<1>12. Loaded.nextId = saved.nextId
  <2>1. saved.nextId > 1
      BY <1>7, IdMaxAssumption DEF Ids
  <2>2. QED
      BY <1>6, <2>1
<1>13. CASE \E m \in 1..k : saved.items[m].id = x.id
  <2>1. x.id \in Live(Loaded.items) /\ Loaded.items[x.id] = Was[x.id]
      BY <1>10, <1>13
  <2>2. QED
      BY <1>11, <1>12, <2>1 DEF Known
<1>14. CASE \A m \in 1..k : saved.items[m].id # x.id
  <2>1. Stored(items)[x.id] = Entry(x)
    <3>1. h \in 1..h /\ h - 1 = k /\ DOMAIN items = 1..h /\ items[h] = x
        BY <1>4, <1>5
    <3>2. \A j \in 1..h - 1 : items[j].id # items[h].id
        BY <1>4, <1>14, <3>1
    <3>3. items[h].id \in Ids
        BY <1>8, <3>1
    <3>4. Stored(items)[items[h].id] = Entry(items[h])
        BY <3>1, <3>2, <3>3, StoredFirst
    <3>5. QED
        BY <3>1, <3>4
  <2>2. Entry(x) # None /\ Shown(x) # None
    <3>1. Shown(x) \in Notification
        BY <1>9 DEF Shown, Notification, States
    <3>2. QED
        BY <1>9, <3>1, NoneAssumption
  <2>3. Loaded.items[x.id] = Shown(x)
      BY <1>6, <1>8, <2>1, <2>2 DEF Inboxed, Shown
  <2>4. x.id \in Live(Loaded.items)
      BY <1>8, <2>2, <2>3 DEF Live
  <2>5. Loaded.items[x.id] \in Cut(Was[n.id])
      BY <1>7, <1>9, <2>3
  <2>6. QED
      BY <1>7, <1>8, <1>11, <1>12, <2>4, <2>5 DEF Known
<1>15. QED
    BY <1>13, <1>14

(* A file that was cut short, anywhere, is read as nothing at all, or as a  *)
(* part of the counter, or as the counter and some of the items that were   *)
(* saved, of which one may be cut, in its fields or in the digits of its    *)
(* id: what loadFromDisk makes of it is never anything that was not in it.  *)
THEOREM TornKnown == Spec => []TornIsKnown
PROOF
<1>1. Inv => TornIsKnown
  <2> SUFFICES ASSUME Inv, loop = "done" PROVE Known
      BY DEF TornIsKnown, Known, Was
  <2>1. Input
      BY DEF Inv
  <2>2. CASE AtEnd
    <3>1. PICK ps \in Seq(SavedItem) : ps = saved.items
        BY <2>1, SavedType
    <3>2. PICK l \in Nat : l = Len(ps)
        BY LenProperties
    <3>3. SubSeq(ps, 1, l) = ps /\ l \in 0..l
        BY <3>2, SubSeqFull
    <3>4. counter = saved.nextId /\ items = SubSeq(saved.items, 1, l) /\ l \in 0..Len(saved.items)
        BY <2>2, <3>1, <3>2, <3>3 DEF AtEnd
    <3>5. QED
        BY <2>1, <3>4, KnownBetween
  <2>3. CASE Lost
    <3>1. LostEarly \/ LostBetween \/ LostAfter
        BY <2>3 DEF Lost, Remains, LostInside
    <3>2. CASE LostEarly
        BY <2>1, <3>2, KnownEarly DEF LostEarly
    <3>3. CASE LostBetween
        BY <2>1, <3>3, KnownBetween DEF LostBetween
    <3>4. CASE LostAfter
        BY <2>1, <3>4, KnownAfter DEF LostAfter
    <3>5. QED
        BY <3>1, <3>2, <3>3, <3>4
  <2>4. ~AtStart /\ ~InList
      BY DEF AtStart, InList, AtObject, AtItems, AtItem, AtActions
  <2>5. QED
      BY <2>2, <2>3, <2>4 DEF Inv, OnTrack
<1>2. QED
    BY <1>1, ParserOnTrack, PTL

(* The document that was saved, and what a process starts with when it      *)
(* finds the file f: see Start of NotificationStore.                        *)
SavedDoc == [nextId |-> saved.nextId, items |-> Stored(saved.items)]

Started(f) == IF f = None THEN [nextId |-> 1, items |-> NoItems] ELSE Reload(f)

LEMMA SavedDocType ==
    ASSUME Input
    PROVE  /\ SavedDoc \in Document /\ \A j \in Live(Was) : j < saved.nextId
           /\ \A j \in Live(Was) : /\ j \in Live(SavedDoc.items)
                                   /\ Was[j] = [SavedDoc.items[j] EXCEPT !.state = "INBOX"]
PROOF
<1>1. PICK ps \in Seq(SavedItem) : ps = saved.items
    BY SavedType
<1>2. PICK l \in Nat : l = Len(ps) /\ DOMAIN ps = 1..l
    BY LenProperties
<1>3. \A m \in 1..l : /\ saved.items[m].id \in Ids /\ saved.items[m].id < saved.nextId
                      /\ Entry(saved.items[m]) \in Notification
    BY <1>1, <1>2, WasShown
<1>4. \A m \in 1..l : Stored(saved.items)[saved.items[m].id] = Entry(saved.items[m])
  <2>1. l \in 0..Len(saved.items)
      BY <1>1, <1>2
  <2>2. StartsWith(saved.items, l, l)
      BY <1>1, <1>2 DEF StartsWith
  <2>3. QED
      BY <2>1, <2>2, StoredPrefix
<1>5. ASSUME NEW i \in Ids PROVE Stored(saved.items)[i] \in Notification \cup {None}
  <2>1. CASE \E m \in 1..l : saved.items[m].id = i
      BY <1>3, <1>4, <2>1
  <2>2. CASE \A m \in 1..l : saved.items[m].id # i
    <3>1. \A m \in DOMAIN saved.items : saved.items[m].id # i
        BY <1>1, <1>2, <2>2
    <3>2. QED
        BY <3>1, StoredNone
  <2>3. QED
      BY <2>1, <2>2
<1>6. Stored(saved.items) \in Stores
  <2>1. PICK m : m = Stored(saved.items)
      OBVIOUS
  <2>2. m = [i \in Ids |-> m[i]]
      BY <2>1 DEF Stored
  <2>3. QED
      BY <1>5, <2>1, <2>2 DEF Stores
<1>7. SavedDoc \in Document
  <2>1. saved.nextId \in Handles
      BY SavedAssumption DEF Input
  <2>2. QED
      BY <1>6, <2>1 DEF SavedDoc, Document
<1>8. \A j \in Live(Was) : j < saved.nextId
  <2>1. ASSUME NEW j \in Live(Was) PROVE j < saved.nextId
    <3>1. PICK m \in DOMAIN saved.items : saved.items[m].id = j
        BY AmongItems DEF Was
    <3>2. QED
        BY <1>1, <1>2, <1>3, <3>1
  <2>2. QED
      BY <2>1
<1>9. \A j \in Live(Was) : /\ j \in Live(SavedDoc.items)
                           /\ Was[j] = [SavedDoc.items[j] EXCEPT !.state = "INBOX"]
    BY DEF Was, Inboxed, Live, SavedDoc
<1>10. QED
    BY <1>7, <1>8, <1>9

(* Entries that were saved and nothing else: the cut kept them.             *)
LEMMA KeptIsTorn ==
    ASSUME Input, Loaded.nextId = saved.nextId,
           \A j \in Live(Loaded.items) : Loaded.items[j] = Was[j]
    PROVE  \E f \in Torn(SavedDoc) : f # Broken /\ Loaded = Started(f)
PROOF
<1> DEFINE S == Live(Loaded.items)
           m == SavedDoc.items
           f == [SavedDoc EXCEPT !.items = Kept(@, S)]
<1>1. /\ SavedDoc \in Document
      /\ \A j \in Live(Was) : j \in Live(m) /\ Was[j] = [m[j] EXCEPT !.state = "INBOX"]
    BY SavedDocType
<1>2. S \subseteq Live(Was)
    BY DEF Live
<1>3. S \in SUBSET Live(m)
    BY <1>1, <1>2
<1>4. f \in Torn(SavedDoc)
    BY <1>3 DEF Torn
<1>5. f = [nextId |-> saved.nextId, items |-> Kept(m, S)]
    BY DEF SavedDoc
<1>6. f \in Document
    BY <1>1, <1>5 DEF Document, SavedDoc, Stores, Kept
<1>7. f # Broken /\ f # None
    BY <1>6, BrokenAssumption
<1>8. Loaded.items = Inboxed(Kept(m, S))
  <2>1. ASSUME NEW i \in Ids PROVE Loaded.items[i] = Inboxed(Kept(m, S))[i]
    <3>1. CASE i \in S
        BY <1>1, <1>2, <3>1 DEF Inboxed, Kept, Live
    <3>2. CASE i \notin S
        BY <3>2 DEF Inboxed, Kept, Live
    <3>3. QED
        BY <3>1, <3>2
  <2>2. /\ Loaded.items = [i \in Ids |-> Loaded.items[i]]
        /\ Inboxed(Kept(m, S)) = [i \in Ids |-> Inboxed(Kept(m, S))[i]]
      BY DEF Loaded, Reload, Inboxed
  <2>3. QED
      BY <2>1, <2>2
<1>9. Loaded = Reload(f)
  <2>1. saved.nextId = IF saved.nextId > 1 THEN saved.nextId ELSE 1
      BY SavedType DEF Loaded, Reload
  <2>2. Reload(f) = [nextId |-> saved.nextId, items |-> Inboxed(Kept(m, S))]
      BY <1>5, <2>1 DEF Reload
  <2>3. Loaded = [nextId |-> Loaded.nextId, items |-> Loaded.items]
      BY DEF Loaded, Reload
  <2>4. QED
      BY <1>8, <2>2, <2>3
<1>10. QED
    BY <1>4, <1>7, <1>9 DEF Started

(* Entries that were saved and one that was cut: one that cut it.           *)
LEMMA CutIsTorn ==
    ASSUME Input, Loaded.nextId = saved.nextId,
           NEW i \in Live(Loaded.items), NEW j \in Live(Was), i \in Leading(j),
           Loaded.items[i] \in Cut(Was[j]),
           \A h \in Live(Loaded.items) \ {i} : Loaded.items[h] = Was[h]
    PROVE  \E f \in Torn(SavedDoc) : f # Broken /\ Loaded = Started(f)
PROOF
<1> DEFINE S == Live(Loaded.items) \ {i}
           m == SavedDoc.items
           x == [Loaded.items[i] EXCEPT !.state = m[j].state]
           kept == Emplaced(Kept(m, S), i, x)
           f == [SavedDoc EXCEPT !.items = kept]
<1>1. /\ SavedDoc \in Document /\ j < saved.nextId
      /\ \A h \in Live(Was) : h \in Live(m) /\ Was[h] = [m[h] EXCEPT !.state = "INBOX"]
    BY SavedDocType
<1>2. S \subseteq Live(Was) /\ i \in Ids /\ j \in Ids
    BY DEF Live
<1>3. S \in SUBSET Live(m) /\ j \in Live(m)
    BY <1>1, <1>2
<1>4. i < SavedDoc.nextId
  <2>1. j \in Nat /\ i \in Nat
      BY <1>2, IdMaxAssumption DEF Ids
  <2>2. i \in 0..j
      BY <2>1, LeadingIs
  <2>3. QED
      BY <1>1, <2>1, <2>2, SavedType DEF SavedDoc
<1>5. m[j] \in Notification
    BY <1>1, <1>3 DEF Document, Stores, Live
<1>6. /\ x \in Cut(m[j])
      /\ [x EXCEPT !.state = "INBOX"] = Loaded.items[i]
  <2>1. Was[j] = [m[j] EXCEPT !.state = "INBOX"]
      BY <1>1
  <2>2. /\ Was[j].actions = m[j].actions /\ Was[j].urgency = m[j].urgency
        /\ Was[j].state = "INBOX"
      BY <1>5, <2>1 DEF Notification
  <2>3. PICK y : y = Loaded.items[i]
      OBVIOUS
  <2>4. y \in [app: Apps, text: Texts, actions: SUBSET m[j].actions, timeout: Timeouts,
               urgency: {m[j].urgency, "NORMAL"}, state: {"INBOX"}]
      BY <2>2, <2>3 DEF Cut
  <2>5. PICK s : s = m[j].state
      OBVIOUS
  <2>6. [y EXCEPT !.state = s] \in Cut(m[j])
      BY <2>4, <2>5 DEF Cut
  <2>7. [[y EXCEPT !.state = s] EXCEPT !.state = "INBOX"] = y
      BY <2>4
  <2>8. QED
      BY <2>3, <2>5, <2>6, <2>7
<1>7. x \in Notification /\ x # None
  <2>1. x \in Notification
      BY <1>5, <1>6 DEF Cut, Notification, Urgencies
  <2>2. QED
      BY <2>1, NoneAssumption
<1> HIDE DEF x
<1>8. f \in Torn(SavedDoc)
    BY <1>2, <1>3, <1>4, <1>6 DEF Torn
<1>9. kept = [Kept(m, S) EXCEPT ![i] = x]
    BY <1>2 DEF Emplaced, Kept
<1>10. f = [nextId |-> saved.nextId, items |-> kept]
    BY DEF SavedDoc
<1>11. kept \in Stores
  <2>1. Kept(m, S) \in Stores
      BY <1>1 DEF Document, Stores, Kept
  <2>2. QED
      BY <1>7, <1>9, <2>1 DEF Stores
<1>12. f # Broken /\ f # None
  <2>1. f \in Document
      BY <1>1, <1>10, <1>11 DEF Document, SavedDoc
  <2>2. QED
      BY <2>1, BrokenAssumption
<1>13. Loaded.items = Inboxed(kept)
  <2>1. ASSUME NEW h \in Ids PROVE Loaded.items[h] = Inboxed(kept)[h]
    <3>1. CASE h = i
      <4>1. kept[h] = x
          BY <1>2, <1>9, <3>1 DEF Kept
      <4>2. QED
          BY <1>2, <1>6, <1>7, <3>1, <4>1 DEF Inboxed
    <3>2. CASE h \in S
      <4>1. kept[h] = m[h] /\ m[h] # None
          BY <1>3, <1>9, <3>2 DEF Kept, Live
      <4>2. Loaded.items[h] = [m[h] EXCEPT !.state = "INBOX"]
          BY <1>1, <1>2, <3>2
      <4>3. QED
          BY <4>1, <4>2 DEF Inboxed
    <3>3. CASE h # i /\ h \notin S
      <4>1. kept[h] = None
          BY <1>9, <3>3 DEF Kept
      <4>2. Loaded.items[h] = None
          BY <3>3 DEF Live
      <4>3. QED
          BY <4>1, <4>2 DEF Inboxed
    <3>4. QED
        BY <3>1, <3>2, <3>3
  <2>2. /\ Loaded.items = [h \in Ids |-> Loaded.items[h]]
        /\ Inboxed(kept) = [h \in Ids |-> Inboxed(kept)[h]]
      BY DEF Loaded, Reload, Inboxed
  <2>3. QED
      BY <2>1, <2>2
<1>14. Loaded = Reload(f)
  <2>1. saved.nextId = IF saved.nextId > 1 THEN saved.nextId ELSE 1
      BY SavedType DEF Loaded, Reload
  <2>2. Reload(f) = [nextId |-> saved.nextId, items |-> Inboxed(kept)]
      BY <1>10, <2>1 DEF Reload
  <2>3. Loaded = [nextId |-> Loaded.nextId, items |-> Loaded.items]
      BY DEF Loaded, Reload
  <2>4. QED
      BY <1>13, <2>2, <2>3
<1>15. QED
    BY <1>8, <1>12, <1>14 DEF Started

(* No item: one that left no more than digits of the counter.               *)
LEMMA NoneIsTorn ==
    ASSUME Input, Loaded.items = NoItems, Loaded.nextId \in {1} \cup 1..saved.nextId
    PROVE  \E f \in Torn(SavedDoc) : f # Broken /\ Loaded = Started(f)
PROOF
<1>1. Loaded = [nextId |-> Loaded.nextId, items |-> NoItems]
    BY DEF Loaded, Reload
<1>2. CASE Loaded.nextId = 1
  <2>1. None \in Torn(SavedDoc) /\ None # Broken
      BY BrokenAssumption DEF Torn
  <2>2. QED
      BY <1>1, <1>2, <2>1 DEF Started
<1>3. CASE Loaded.nextId # 1
  <2>1. PICK c \in 1..saved.nextId : c = Loaded.nextId
      BY <1>3
  <2>2. PICK f : f = [nextId |-> c, items |-> NoItems]
      OBVIOUS
  <2>3. saved.nextId \in 0..IdMax /\ IdMax \in Nat
      BY SavedAssumption, IdMaxAssumption DEF Input, Handles
  <2>4. f \in Torn(SavedDoc)
      BY <2>2 DEF Torn, SavedDoc
  <2>5. f \in Document
    <3>1. c \in Handles
        BY <2>3 DEF Handles
    <3>2. QED
        BY <2>2, <3>1 DEF Document, Stores, NoItems
  <2>6. Inboxed(NoItems) = NoItems
      BY DEF Inboxed, NoItems
  <2>7. Reload(f) = [nextId |-> c, items |-> NoItems]
    <3>1. c = IF c > 1 THEN c ELSE 1
        BY <2>3
    <3>2. QED
        BY <2>2, <2>6, <3>1 DEF Reload
  <2>8. QED
      BY <1>1, <2>1, <2>4, <2>5, <2>7, BrokenAssumption DEF Started
<1>4. QED
    BY <1>2, <1>3

(* NotificationStore does not look at the text of the file: a short write,  *)
(* or a crash in the middle of one, leaves it with a member of Torn, and    *)
(* Start loads that.  Whatever the parser makes of the text, cut anywhere,  *)
(* is what Start makes of one of them, and where it throws that is Broken:  *)
(* Torn leaves nothing out.                                                 *)
THEOREM TornCoversText ==
    Spec => [](Ended => \E f \in Torn(SavedDoc) :
                           IF loop = "thrown" THEN f = Broken
                                              ELSE f # Broken /\ Loaded = Started(f))
PROOF
<1> DEFINE Covered == \E f \in Torn(SavedDoc) :
                         IF loop = "thrown" THEN f = Broken
                                            ELSE f # Broken /\ Loaded = Started(f)
<1>1. Inv /\ TornIsKnown => (Ended => Covered)
  <2> SUFFICES ASSUME Inv, TornIsKnown, Ended PROVE Covered
      OBVIOUS
  <2>1. CASE loop = "thrown"
      BY <2>1 DEF Torn
  <2>2. CASE loop = "done"
    <3>1. Input /\ Known
        BY <2>2 DEF Inv, TornIsKnown, Known, Was
    <3>2. SUFFICES \E f \in Torn(SavedDoc) : f # Broken /\ Loaded = Started(f)
        BY <2>2
    <3>3. CASE Loaded.items = NoItems /\ Loaded.nextId \in {1} \cup 1..saved.nextId
        BY <3>1, <3>3, NoneIsTorn
    <3>4. CASE ~(Loaded.items = NoItems /\ Loaded.nextId \in {1} \cup 1..saved.nextId)
      <4>1. Loaded.nextId = saved.nextId
          BY <3>1, <3>4 DEF Known
      <4>2. PICK i \in Live(Loaded.items) :
                /\ \/ Loaded.items[i] = Was[i]
                   \/ \E j \in Live(Was) : i \in Leading(j) /\ Loaded.items[i] \in Cut(Was[j])
                /\ \A h \in Live(Loaded.items) \ {i} : Loaded.items[h] = Was[h]
          BY <3>1, <3>4 DEF Known
      <4>3. CASE Loaded.items[i] = Was[i]
          BY <3>1, <4>1, <4>2, <4>3, KeptIsTorn
      <4>4. CASE \E j \in Live(Was) : i \in Leading(j) /\ Loaded.items[i] \in Cut(Was[j])
          BY <3>1, <4>1, <4>2, <4>4, CutIsTorn
      <4>5. QED
          BY <4>2, <4>3, <4>4
    <3>5. QED
        BY <3>3, <3>4
  <2>3. QED
      BY <2>1, <2>2 DEF Ended
<1>2. QED
    BY <1>1, ParserOnTrack, TornKnown, PTL

-----------------------------------------------------------------------------
(* How far a step of the parser takes it.                                   *)
LEMMA SkipMoves ==
    ASSUME NEW t \in Text, NEW p \in Positions
    PROVE  SkipWS(t, p) \in Positions /\ SkipWS(t, p) >= p
PROOF BY PastMoves DEF SkipWS

LEMMA IntMoves ==
    ASSUME NEW t \in Text, NEW p \in Positions
    PROVE  ReadInt(t, p).pos \in Positions /\ ReadInt(t, p).pos >= p
PROOF
<1>1. PICK q \in Positions : q = (IF At(t, p) \in {"-", "+"} THEN p + 1 ELSE p) /\ q >= p
    BY DEF Positions
<1>2. "NUL" \notin Digits
    BY DEF Digits, Digit
<1>3. Past(t, q, Digits) \in Positions /\ Past(t, q, Digits) >= q
    BY <1>2, PastMoves
<1>4. PICK r : r = Past(t, q, Digits)
    OBVIOUS
<1>5. ReadInt(t, p).pos = r
    BY <1>1, <1>4, IntParts
<1>6. QED
    BY <1>1, <1>3, <1>4, <1>5 DEF Positions

LEMMA NameMoves ==
    ASSUME NEW t \in Text, NEW p \in Positions
    PROVE  ReadName(t, p).pos \in Positions /\ ReadName(t, p).pos > p
PROOF
<1>1. PICK r \in Positions : r = ReadString(t, p).pos /\ r > p
    BY StringMoves
<1>2. PICK q \in Positions : q = SkipWS(t, r) /\ q >= r
    BY SkipMoves
<1>3. PICK v \in Positions : v = (IF At(t, q) = ":" THEN q + 1 ELSE q) /\ v >= q
    BY DEF Positions
<1>4. ReadName(t, p).pos = SkipWS(t, v)
    BY <1>1, <1>2, <1>3 DEF ReadName
<1>5. SkipWS(t, v) \in Positions /\ SkipWS(t, v) >= v
    BY SkipMoves
<1>6. QED
    BY <1>1, <1>2, <1>3, <1>4, <1>5 DEF Positions

(* The loops around the parser.                                             *)
Depth == [start |-> 0, actions |-> 4, item |-> 3, items |-> 2, object |-> 1,
          done |-> 0, thrown |-> 0]

Advance ==
    \/ (loop = "start" \/ pos <= Len(text)) /\ pos' > pos
    \/ pos > Len(text) /\ pos' = pos /\ Depth[loop'] < Depth[loop]

LEMMA StepAdvances == ASSUME Inv, Next PROVE Advance
PROOF
<1>1. text \in Text /\ pos \in Positions
    BY InputType DEF Inv
<1>2. PICK h \in Positions : h = Here /\ h >= pos
    BY <1>1, SkipMoves DEF Here
<1>3. h + 1 > pos
    BY <1>1, <1>2 DEF Positions
<1>4. PICK m \in Positions : m = ReadName(text, h).pos /\ m > pos
  <2>1. ReadName(text, h).pos \in Positions /\ ReadName(text, h).pos > h
      BY <1>1, NameMoves
  <2>2. QED
      BY <1>1, <1>2, <2>1 DEF Positions
<1>5. m + 1 > pos
    BY <1>1, <1>4 DEF Positions
<1>6. ReadInt(text, m).pos > pos
  <2>1. ReadInt(text, m).pos \in Positions /\ ReadInt(text, m).pos >= m
      BY <1>1, IntMoves
  <2>2. QED
      BY <1>1, <1>4, <2>1 DEF Positions
<1>7. ReadString(text, m).pos > pos /\ ReadString(text, h).pos > pos
  <2>1. ReadString(text, m).pos \in Positions /\ ReadString(text, m).pos > m
      BY <1>1, StringMoves
  <2>2. ReadString(text, h).pos \in Positions /\ ReadString(text, h).pos > h
      BY <1>1, StringMoves
  <2>3. QED
      BY <1>1, <1>2, <1>4, <2>1, <2>2 DEF Positions
<1>8. CASE Begin
    BY <1>2, <1>3, <1>8 DEF Begin, Advance
<1>9. CASE Skip
    BY <1>2, <1>3, <1>9 DEF Skip, In, Advance
<1>10. CASE ReadMember
  <2>1. pos' = ReadInt(text, m).pos \/ pos' = m + 1 \/ pos' = m
      BY <1>2, <1>4, <1>10 DEF ReadMember
  <2>2. pos <= Len(text)
      BY <1>10 DEF ReadMember, Sees, In
  <2>3. QED
      BY <1>4, <1>5, <1>6, <2>1, <2>2 DEF Advance
<1>11. CASE ReadItem
    BY <1>2, <1>3, <1>11 DEF ReadItem, Sees, In, Advance
<1>12. CASE ReadField
  <2>1. \/ pos' = ReadInt(text, m).pos \/ pos' = ReadString(text, m).pos
        \/ pos' = m + 1 \/ pos' = m
      BY <1>2, <1>4, <1>12 DEF ReadField, ReadNumber, ReadText
  <2>2. pos <= Len(text)
      BY <1>12 DEF ReadField, Sees, In
  <2>3. QED
      BY <1>4, <1>5, <1>6, <1>7, <2>1, <2>2 DEF Advance
<1>13. CASE ReadAction
    BY <1>2, <1>7, <1>13 DEF ReadAction, Sees, In, Advance
<1>14. ASSUME NEW l \in DOMAIN Loops, Leave(l) PROVE Advance
  <2>1. CASE Sees(l, Loops[l].close) /\ pos' = Here + 1
      BY <1>2, <1>3, <2>1 DEF Sees, In, Advance
  <2>2. CASE pos > Len(text) /\ pos' = pos
    <3>1. loop = l /\ loop' = Loops[l].outer
        BY <1>14 DEF Leave
    <3>2. l = "object" \/ l = "items" \/ l = "item" \/ l = "actions"
        BY LoopChars
    <3>3. \/ Depth[loop] = 1 /\ Depth[loop'] = 0
          \/ Depth[loop] = 2 /\ Depth[loop'] = 1
          \/ Depth[loop] = 3 /\ Depth[loop'] = 2
          \/ Depth[loop] = 4 /\ Depth[loop'] = 3
        BY <3>1, <3>2, LoopsAre DEF Depth
    <3>4. QED
        BY <2>2, <3>3 DEF Advance
  <2>3. QED
      BY <1>14, <2>1, <2>2 DEF Leave
<1>15. QED
    BY <1>8, <1>9, <1>10, <1>11, <1>12, <1>13, <1>14 DEF Next

(* The parser never goes back and never stays where it is: each iteration   *)
(* of a loop steps over some of the text, and past its end each leaves a    *)
(* loop.  Without fairness, what Terminates says of a text of any length:   *)
(* loadFromDisk runs no more than Len(text) + 5 iterations.                 *)
THEOREM ParserAdvances == Spec => [][Advance]_vars
PROOF
<1>1. Inv /\ [Next]_vars => [Advance]_vars
    BY StepAdvances
<1>2. QED
    BY <1>1, ParserOnTrack, PTL DEF Spec
=============================================================================
