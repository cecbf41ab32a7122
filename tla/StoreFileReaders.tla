------------------------- MODULE StoreFileReaders ---------------------------
(***************************************************************************)
(* What parseString and parseInt make of a string and a number that        *)
(* saveToDisk wrote, wherever it stands in the text, and what is left of   *)
(* it when the text ends in the middle of it.                              *)
(***************************************************************************)
EXTENDS StoreFile, SequenceInduction, FiniteSetTheorems

(* Every character that is ever written.                                    *)
Alphabet == Chars \cup Digits \cup {Quote, Backslash, "n", "r", "t", "u", "f"}
            \cup {"{", "}", "[", "]", ",", ":", "-", "next_id", "items", "actions"}
            \cup {"id", "app", "text", "timeout", "urgency", "state"}

Text == Seq(Alphabet)

(* The text t has the piece u at position p.                                *)
Has(t, p, u) == p + Len(u) <= Len(t) + 1 /\ \A i \in 1..Len(u) : t[p + i - 1] = u[i]

(* Two pieces one after the other.                                          *)
LEMMA HasConcat ==
    ASSUME NEW t \in Text, NEW p \in Nat \ {0}, NEW u \in Text, NEW v \in Text
    PROVE  Has(t, p, u \o v) <=> Has(t, p, u) /\ Has(t, p + Len(u), v)
PROOF
<1>1. PICK m \in Nat : m = Len(u)
    BY LenProperties DEF Text
<1>2. PICK n \in Nat : n = Len(v)
    BY LenProperties DEF Text
<1>3. PICK w : w = u \o v
    OBVIOUS
<1>4. /\ Len(w) = m + n
      /\ \A i \in 1..m : w[i] = u[i]
      /\ \A i \in 1..n : w[m + i] = v[i]
    BY <1>1, <1>2, <1>3, ConcatProperties DEF Text
<1>5. Len(t) \in Nat
    BY LenProperties DEF Text
<1>6. ASSUME Has(t, p, w) PROVE Has(t, p, u) /\ Has(t, p + m, v)
  <2>1. p + (m + n) <= Len(t) + 1 /\ \A i \in 1..m + n : t[p + i - 1] = w[i]
      BY <1>4, <1>6 DEF Has
  <2>2. ASSUME NEW i \in 1..n PROVE t[(p + m) + i - 1] = v[i]
    <3>1. m + i \in 1..m + n /\ p + (m + i) - 1 = (p + m) + i - 1
        OBVIOUS
    <3>2. QED
        BY <1>4, <2>1, <3>1
  <2>3. \A i \in 1..m : i \in 1..m + n
      OBVIOUS
  <2>4. QED
      BY <1>1, <1>2, <1>4, <1>5, <2>1, <2>2, <2>3 DEF Has
<1>7. ASSUME Has(t, p, u), Has(t, p + m, v) PROVE Has(t, p, w)
  <2>1. ASSUME NEW i \in 1..m + n PROVE t[p + i - 1] = w[i]
    <3>1. CASE i \in 1..m
        BY <1>1, <1>4, <1>7, <3>1 DEF Has
    <3>2. CASE i \notin 1..m
      <4>1. PICK j \in 1..n : i = m + j
          BY <3>2
      <4>2. t[(p + m) + j - 1] = v[j]
          BY <1>2, <1>7 DEF Has
      <4>3. QED
          BY <1>4, <4>1, <4>2
    <3>3. QED
        BY <3>1, <3>2
  <2>2. p + (m + n) <= Len(t) + 1
      BY <1>2, <1>5, <1>7 DEF Has
  <2>3. QED
      BY <1>4, <2>1, <2>2 DEF Has
<1>8. QED
    BY <1>1, <1>3, <1>6, <1>7

(* A piece of one character.                                                *)
LEMMA HasOne ==
    ASSUME NEW t \in Text, NEW p \in Nat \ {0}, NEW c
    PROVE  Has(t, p, <<c>>) <=> p <= Len(t) /\ t[p] = c
PROOF
<1>1. Len(t) \in Nat
    BY LenProperties DEF Text
<1>2. QED
    BY <1>1 DEF Has

(* A text is a piece of itself.                                             *)
LEMMA HasItself == ASSUME NEW t \in Text PROVE Has(t, 1, t)
PROOF BY LenProperties DEF Has, Text

(* What is left of a piece in a text that was cut short.                    *)
LEMMA HasCut ==
    ASSUME NEW w \in Text, NEW n \in 0..Len(w), NEW p \in Nat \ {0}, NEW u \in Text,
           Has(w, p, u), p + Len(u) <= n + 1
    PROVE  Has(SubSeq(w, 1, n), p, u)
PROOF
<1>1. Len(w) \in Nat /\ Len(u) \in Nat
    BY LenProperties DEF Text
<1>2. Len(SubSeq(w, 1, n)) = n /\ \A i \in 1..n : SubSeq(w, 1, n)[i] = w[i]
    BY <1>1 DEF Text
<1>3. QED
    BY <1>1, <1>2 DEF Has
-----------------------------------------------------------------------------
(* Texts that are put together from pieces.                                 *)
Off(ps, k) == Len(FlattenSeq(SubSeq(ps, 1, k)))

(* The last piece ends where the whole does.                                *)
LEMMA OffAll ==
    ASSUME NEW ps \in Seq(Text)
    PROVE  Off(ps, 0) = 0 /\ Off(ps, Len(ps)) = Len(FlattenSeq(ps))
PROOF
<1>1. SubSeq(ps, 1, 0) = <<>>
    BY SubSeqEmpty
<1>2. SubSeq(ps, 1, Len(ps)) = ps
    BY SubSeqFull
<1>3. QED
    BY <1>1, <1>2, FlattenEmpty, EmptySeq DEF Off

(* Each piece begins where the one before it ends.                          *)
LEMMA OffNext ==
    ASSUME NEW ps \in Seq(Text), NEW k \in Nat, NEW m \in Nat, m = k + 1, m <= Len(ps)
    PROVE  /\ Off(ps, k) \in Nat /\ Len(ps[m]) \in Nat /\ ps[m] \in Text
           /\ Off(ps, m) = Off(ps, k) + Len(ps[m])
PROOF
<1>1. Len(ps) \in Nat
    BY LenProperties
<1>2. PICK x \in Text : x = ps[m]
    BY <1>1
<1>3. PICK u \in Seq(Text) : u = SubSeq(ps, 1, k)
  <2>1. k <= Len(ps)
      BY <1>1
  <2>2. QED
      BY <2>1, PrefixProperties
<1>4. SubSeq(ps, 1, m) = Append(u, x)
    BY <1>2, <1>3, PrefixAppend
<1>5. FlattenSeq(u) \in Text
    BY FlattenType DEF Text
<1>6. FlattenSeq(Append(u, x)) = FlattenSeq(u) \o x
    BY FlattenAppend DEF Text
<1>7. Len(FlattenSeq(u) \o x) = Len(FlattenSeq(u)) + Len(x)
    BY <1>5, ConcatProperties DEF Text
<1>8. Len(FlattenSeq(u)) \in Nat /\ Len(x) \in Nat
    BY <1>5, LenProperties DEF Text
<1>9. QED
    BY <1>2, <1>3, <1>4, <1>6, <1>7, <1>8 DEF Off

(* A text has each of the pieces where the ones before it end.              *)
HasPieces(t, p, ps) ==
    \A k \in Nat : k < Len(ps) => Has(t, p + Off(ps, k), ps[k + 1])

(* Where a flattened sequence is, each of its parts is at its offset.       *)
LEMMA PiecesFound ==
    ASSUME NEW t \in Text, NEW p \in Nat \ {0}
    PROVE  \A ps \in Seq(Text) : Has(t, p, FlattenSeq(ps)) => HasPieces(t, p, ps)
PROOF
<1> DEFINE T == {ps \in Seq(Text) : Has(t, p, FlattenSeq(ps)) => HasPieces(t, p, ps)}
<1>1. <<>> \in T
    BY EmptySeq DEF HasPieces
<1>2. ASSUME NEW ps \in Seq(Text), ps \in T, NEW x \in Text PROVE Append(ps, x) \in T
  <2>1. PICK qs \in Seq(Text) : qs = Append(ps, x)
      BY AppendProperties
  <2>2. PICK n \in Nat : n = Len(ps)
      BY LenProperties
  <2>3. Len(qs) = n + 1 /\ qs[n + 1] = x /\ \A k \in 1..n : qs[k] = ps[k]
      BY <2>1, <2>2, AppendProperties
  <2>4. FlattenSeq(ps) \in Text /\ FlattenSeq(qs) = FlattenSeq(ps) \o x
      BY <2>1, FlattenType, FlattenAppend DEF Text
  <2>5. SUFFICES ASSUME Has(t, p, FlattenSeq(qs)), NEW k \in Nat, k < Len(qs)
                 PROVE  Has(t, p + Off(qs, k), qs[k + 1])
      BY <2>1 DEF HasPieces
  <2>6. Has(t, p, FlattenSeq(ps)) /\ Has(t, p + Len(FlattenSeq(ps)), x)
      BY <2>4, <2>5, HasConcat
  <2>7. SubSeq(qs, 1, k) = SubSeq(ps, 1, k)
      BY <2>1, <2>2, <2>3, <2>5, PrefixOfAppend
  <2>8. CASE k < n
    <3>1. HasPieces(t, p, ps)
        BY <1>2, <2>6
    <3>2. Has(t, p + Off(ps, k), ps[k + 1])
        BY <2>2, <2>8, <3>1 DEF HasPieces
    <3>3. qs[k + 1] = ps[k + 1]
        BY <2>3, <2>8
    <3>4. QED
        BY <2>7, <3>2, <3>3 DEF Off
  <2>9. CASE k = n
    <3>1. Off(qs, k) = Len(FlattenSeq(ps))
        BY <2>2, <2>7, <2>9, OffAll DEF Off
    <3>2. QED
        BY <2>3, <2>6, <2>9, <3>1
  <2>10. QED
      BY <2>3, <2>5, <2>8, <2>9
<1> HIDE DEF T
<1>3. \A ps \in Seq(Text) : ps \in T
    BY <1>1, <1>2, SeqSetInduction
<1>4. QED
    BY <1>3 DEF T
-----------------------------------------------------------------------------
(* Numbers.                                                                 *)
LEMMA DigitType == \A d \in 0..9 : Digit[d + 1] \in Digits /\ Digit[d + 1] \in Alphabet
PROOF
<1>1. \A d \in 0..9 : d + 1 \in 1..10
    OBVIOUS
<1>2. \A k \in 1..10 : Digit[k] \in Digits
    BY DEF Digits
<1>3. QED
    BY <1>1, <1>2 DEF Alphabet

(* The numerals that Numeral stands for exist.                              *)
LEMMA NumeralExists ==
    \E f \in [Nat -> Text] :
        f = [n \in Nat |-> IF n < 10 THEN <<Digit[n + 1]>>
                                     ELSE f[n \div 10] \o <<Digit[(n % 10) + 1]>>]
PROOF
<1> DEFINE measure == [n \in Nat |-> n]
           e(n, f) == IF n < 10 THEN <<Digit[n + 1]>> ELSE f[n \div 10] \o <<Digit[(n % 10) + 1]>>
           D == [z \in Nat \X [Nat -> Text] |-> e(z[1], z[2])]
<1>1. \A d \in 0..9 : <<Digit[d + 1]>> \in Text
    BY DigitType DEF Text
<1>2. \A n \in Nat : n \div 10 \in Nat /\ n % 10 \in 0..9 /\ (~(n < 10) => n \div 10 < n)
    OBVIOUS
<1>3. ASSUME NEW n \in Nat, NEW f \in [Nat -> Text] PROVE e(n, f) \in Text
  <2>1. CASE n < 10
    <3>1. n \in 0..9
        BY <2>1
    <3>2. QED
        BY <1>1, <2>1, <3>1
  <2>2. CASE ~(n < 10)
    <3>1. f[n \div 10] \in Text /\ <<Digit[(n % 10) + 1]>> \in Text
        BY <1>1, <1>2
    <3>2. f[n \div 10] \o <<Digit[(n % 10) + 1]>> \in Text
        BY <3>1, ConcatProperties DEF Text
    <3>3. QED
        BY <2>2, <3>2
  <2>3. QED
      BY <2>1, <2>2
<1>4. \A n \in Nat : \A f, g \in [Nat -> Text] :
          (\A m \in Nat : m < n => f[m] = g[m]) => e(n, f) = e(n, g)
    BY <1>2
<1> HIDE DEF e
<1>5. D \in [Nat \X [Nat -> Text] -> Text]
    BY <1>3
<1>6. \A n \in Nat : \A f \in [Nat -> Text] : D[<<n, f>>] = e(n, f)
    OBVIOUS
<1>7. measure \in [Nat -> Nat] /\ Text # {}
    BY EmptySeq DEF Text
<1>8. Local(D, measure, Nat, Text)
    BY <1>4, <1>6 DEF Local
<1> HIDE DEF D, measure
<1>9. Solvable(D, Nat, Text)
    BY <1>5, <1>7, <1>8, RecursionExists
<1>10. PICK f \in [Nat -> Text] : f = [n \in Nat |-> D[<<n, f>>]]
    BY <1>9 DEF Solvable
<1>11. f = [n \in Nat |-> e(n, f)]
    BY <1>6, <1>10
<1>12. QED
    BY <1>11 DEF e
-----------------------------------------------------------------------------
(* Characters as they are written.                                          *)
LEMMA HexForms ==
    /\ DOMAIN Hex = {"SOH", "US"}
    /\ Hex["SOH"] = <<"0", "0", "0", "1">>
    /\ Hex["US"] = <<"0", "0", "1", "f">>
    /\ "0" \in Digits /\ "1" \in Digits
PROOF
<1>1. Digit[1] \in Digits /\ Digit[2] \in Digits
    BY DEF Digits
<1>2. Digit[1] = "0" /\ Digit[2] = "1"
    BY DEF Digit
<1>3. QED
    BY <1>1, <1>2 DEF Hex

(* What is left as it is, what has a letter of its own, what has a code.    *)
Plain(c)    == c \notin {Quote, Backslash} /\ Escaped(c) = <<c>>
Lettered(c) == \E d \in Alphabet : d # "u" /\ Escaped(c) = <<Backslash, d>> /\ Unescaped(d) = c
Coded(c)    == c \in DOMAIN Hex /\ Escaped(c) = <<Backslash, "u">> \o Hex[c]

(* Every character is written in one of three ways.                         *)
LEMMA EscapedForms == \A c \in Chars : Plain(c) \/ Lettered(c) \/ Coded(c)
PROOF
<1> SUFFICES ASSUME NEW c \in Chars PROVE Plain(c) \/ Lettered(c) \/ Coded(c)
    OBVIOUS
<1>1. CASE c \in {Quote, Backslash}
  <2>1. Escaped(c) = <<Backslash, c>>
      BY <1>1, HexForms DEF Escaped, Quote, Backslash
  <2>2. Unescaped(c) = c /\ c # "u"
      BY <1>1 DEF Unescaped, Quote, Backslash
  <2>3. QED
      BY <1>1, <2>1, <2>2 DEF Lettered, Alphabet
<1>2. CASE c = "LF"
  <2>1. Escaped(c) = <<Backslash, "n">>
      BY <1>2, HexForms DEF Escaped, Quote, Backslash
  <2>2. Unescaped("n") = c
      BY <1>2 DEF Unescaped
  <2>3. QED
      BY <2>1, <2>2 DEF Lettered, Alphabet
<1>3. CASE c = "CR"
  <2>1. Escaped(c) = <<Backslash, "r">>
      BY <1>3, HexForms DEF Escaped, Quote, Backslash
  <2>2. Unescaped("r") = c
      BY <1>3 DEF Unescaped
  <2>3. QED
      BY <2>1, <2>2 DEF Lettered, Alphabet
<1>4. CASE c = "TAB"
  <2>1. Escaped(c) = <<Backslash, "t">>
      BY <1>4, HexForms DEF Escaped, Quote, Backslash
  <2>2. Unescaped("t") = c
      BY <1>4 DEF Unescaped
  <2>3. QED
      BY <2>1, <2>2 DEF Lettered, Alphabet
<1>5. CASE c \in DOMAIN Hex
  <2>1. Escaped(c) = <<Backslash, "u">> \o Hex[c]
      BY <1>5, HexForms DEF Escaped, Quote, Backslash
  <2>2. QED
      BY <1>5, <2>1 DEF Coded
<1>6. CASE c \notin {Quote, Backslash, "LF", "CR", "TAB"} \cup DOMAIN Hex
    BY <1>6 DEF Plain, Escaped
<1>7. QED
    BY <1>1, <1>2, <1>3, <1>4, <1>5, <1>6

(* Escapes are made of characters that may be written.                      *)
LEMMA EscapedText == \A c \in Chars : Escaped(c) \in Text
PROOF
<1> SUFFICES ASSUME NEW c \in Chars PROVE Escaped(c) \in Text
    OBVIOUS
<1>1. CASE Plain(c)
  <2>1. c \in Alphabet
      BY DEF Alphabet
  <2>2. QED
      BY <1>1, <2>1 DEF Plain, Text
<1>2. CASE Lettered(c)
  <2>1. Backslash \in Alphabet
      BY DEF Alphabet
  <2>2. QED
      BY <1>2, <2>1 DEF Lettered, Text
<1>3. CASE Coded(c)
  <2>1. {Backslash, "u", "0", "1", "f"} \subseteq Alphabet
      BY HexForms DEF Alphabet
  <2>2. Hex[c] \in Text
    <3>1. <<"0", "0", "0", "1">> \in Text /\ <<"0", "0", "1", "f">> \in Text
        BY <2>1 DEF Text
    <3>2. QED
        BY <1>3, <3>1, HexForms DEF Coded
  <2>3. <<Backslash, "u">> \in Text
      BY <2>1 DEF Text
  <2>4. QED
      BY <1>3, <2>2, <2>3, ConcatProperties DEF Coded, Text
<1>4. QED
    BY <1>1, <1>2, <1>3, EscapedForms

EscapedAll(s) == [i \in DOMAIN s |-> Escaped(s[i])]

(* So are whole strings; and what esc writes between the quotes.            *)
LEMMA EscText ==
    ASSUME NEW s \in Seq(Chars)
    PROVE  /\ EscapedAll(s) \in Seq(Text) /\ Len(EscapedAll(s)) = Len(s)
           /\ FlattenSeq(EscapedAll(s)) \in Text
           /\ Esc(s) = <<Quote>> \o FlattenSeq(EscapedAll(s)) \o <<Quote>>
           /\ Esc(s) \in Text
PROOF
<1>1. PICK n \in Nat : n = Len(s) /\ DOMAIN s = 1..n /\ \A i \in 1..n : s[i] \in Chars
    BY LenProperties
<1>2. EscapedAll(s) \in [1..n -> Text]
    BY <1>1, EscapedText DEF EscapedAll
<1>3. EscapedAll(s) \in Seq(Text) /\ Len(EscapedAll(s)) = n
    BY <1>2
<1>4. FlattenSeq(EscapedAll(s)) \in Text
    BY <1>3, FlattenType DEF Text
<1>5. <<Quote>> \in Text
    BY DEF Text, Alphabet
<1>6. <<Quote>> \o FlattenSeq(EscapedAll(s)) \in Text
    BY <1>4, <1>5, ConcatProperties DEF Text
<1>7. (<<Quote>> \o FlattenSeq(EscapedAll(s))) \o <<Quote>> \in Text
    BY <1>5, <1>6, ConcatProperties DEF Text
<1>8. QED
    BY <1>1, <1>3, <1>4, <1>7 DEF Esc, EscapedAll
-----------------------------------------------------------------------------
(* Reading a string.                                                        *)
Value == Seq(Alphabet \cup {"LF", "CR", "TAB", "SOH", "US"})

(* What Decoded makes of the codes that fit.                                *)
LEMMA SingletonToSeq == SetToSeq({}) = <<>> /\ \A h : SetToSeq({h}) = <<h>>
PROOF
<1>1. SetToSeq({}) = <<>>
  <2>1. Cardinality({}) = 0
      BY FS_EmptySet
  <2>2. \A f \in [1..0 -> {}] : f = <<>>
      BY EmptySeq
  <2>3. \E f \in [1..0 -> {}] : IsInjective(f)
    <3>1. <<>> \in [1..0 -> {}]
        OBVIOUS
    <3>2. IsInjective(<<>>)
        BY DEF IsInjective
    <3>3. QED
        BY <3>1, <3>2
  <2>4. QED
      BY <2>1, <2>2, <2>3 DEF SetToSeq
<1>2. ASSUME NEW h PROVE SetToSeq({h}) = <<h>>
  <2>1. Cardinality({h}) = 1
      BY FS_Singleton
  <2>2. \A f \in [1..1 -> {h}] : f = <<h>>
      OBVIOUS
  <2>3. <<h>> \in [1..1 -> {h}] /\ IsInjective(<<h>>)
      BY DEF IsInjective
  <2>4. QED
      BY <2>1, <2>2, <2>3 DEF SetToSeq
<1>3. QED
    BY <1>1, <1>2

(* An iteration of parseString appends a sequence.                          *)
LEMMA DecodedType ==
    ASSUME NEW t \in Text, NEW q \in 1..Len(t)
    PROVE  Width(t, q) \in {1, 2, 6} /\ Decoded(t, q) \in Value
PROOF
<1>1. Len(t) \in Nat /\ \A i \in 1..Len(t) : t[i] \in Alphabet
    BY LenProperties DEF Text
<1>2. Width(t, q) \in {1, 2, 6}
    BY DEF Width
<1>3. CASE Codes(t, q)
  <2>1. PICK S : S = {h \in DOMAIN Hex : Hex[h] = SubSeq(t, q + 2, q + 5)}
      OBVIOUS
  <2>2. Decoded(t, q) = SetToSeq(S)
      BY <1>3, <2>1 DEF Decoded, Codes
  <2>3. S = {} \/ \E h \in {"SOH", "US"} : S = {h}
    <3>1. S \subseteq {"SOH", "US"} /\ ~("SOH" \in S /\ "US" \in S)
      <4>1. <<"0", "0", "0", "1">> # <<"0", "0", "1", "f">>
          OBVIOUS
      <4>2. QED
          BY <2>1, <4>1, HexForms
    <3>2. QED
        BY <3>1
  <2>4. CASE S = {}
    <3>1. Decoded(t, q) = <<>>
        BY <2>2, <2>4, SingletonToSeq
    <3>2. QED
        BY <1>2, <3>1, EmptySeq DEF Value
  <2>5. ASSUME NEW h \in {"SOH", "US"}, S = {h} PROVE Decoded(t, q) \in Value
    <3>1. Decoded(t, q) = <<h>>
        BY <2>2, <2>5, SingletonToSeq
    <3>2. QED
        BY <3>1 DEF Value
  <2>6. QED
      BY <1>2, <2>3, <2>4, <2>5
<1>4. CASE ~Escapes(t, q)
  <2>1. Decoded(t, q) = <<t[q]>>
      BY <1>4 DEF Decoded, Codes
  <2>2. QED
      BY <1>1, <1>2, <2>1 DEF Value
<1>5. CASE ~Codes(t, q) /\ Escapes(t, q) /\ t[q + 1] # "u"
  <2>1. Decoded(t, q) = <<Unescaped(t[q + 1])>>
      BY <1>5 DEF Decoded, Codes
  <2>2. q + 1 \in 1..Len(t)
      BY <1>1, <1>5 DEF Escapes
  <2>3. Unescaped(t[q + 1]) \in {"LF", "CR", "TAB", t[q + 1]}
      BY DEF Unescaped
  <2>4. QED
      BY <1>1, <1>2, <2>1, <2>2, <2>3 DEF Value
<1>6. CASE ~Codes(t, q) /\ Escapes(t, q) /\ t[q + 1] = "u"
  <2>1. Decoded(t, q) = <<>>
      BY <1>6 DEF Decoded
  <2>2. QED
      BY <1>2, <2>1, EmptySeq DEF Value
<1>7. QED
    BY <1>2, <1>3, <1>4, <1>5, <1>6

Positions == Nat \ {0}
Results   == [value: Value, pos: Positions]

(* The function that ReadString chooses.                                    *)
Reader(t, f) ==
    f = [q \in Nat \ {0} |->
            IF q > Len(t) THEN [value |-> <<>>, pos |-> q]
            ELSE IF t[q] = Quote THEN [value |-> <<>>, pos |-> q + 1]
            ELSE LET rest == f[q + Width(t, q)]
                 IN  [value |-> Decoded(t, q) \o rest.value, pos |-> rest.pos]]

(* The function that ReadString defines by recursion exists,                *)
LEMMA ReaderExists ==
    ASSUME NEW t \in Text
    PROVE  \E f \in [Positions -> Results] : Reader(t, f)
PROOF
<1> DEFINE n == Len(t)
           measure == [q \in Positions |-> IF q > n THEN 0 ELSE n + 1 - q]
           step(q, f) == [value |-> Decoded(t, q) \o f[q + Width(t, q)].value,
                          pos   |-> f[q + Width(t, q)].pos]
           e(q, f) == IF q > n THEN [value |-> <<>>, pos |-> q]
                      ELSE IF t[q] = Quote THEN [value |-> <<>>, pos |-> q + 1]
                      ELSE step(q, f)
           D == [z \in Positions \X [Positions -> Results] |-> e(z[1], z[2])]
<1>1. n \in Nat
    BY LenProperties DEF Text
<1>2. ASSUME NEW q \in Positions, ~(q > n)
      PROVE  /\ Decoded(t, q) \in Value
             /\ q + Width(t, q) \in Positions
             /\ measure[q + Width(t, q)] < measure[q]
  <2>1. q \in 1..n
      BY <1>1, <1>2 DEF Positions
  <2>2. Decoded(t, q) \in Value
      BY <2>1, DecodedType
  <2>3. PICK w \in {1, 2, 6} : w = Width(t, q)
      BY <2>1, DecodedType
  <2>4. q + w \in Positions /\ measure[q + w] < measure[q]
      BY <1>1, <2>1 DEF Positions
  <2>5. QED
      BY <2>2, <2>3, <2>4
<1>3. ASSUME NEW q \in Positions, NEW f \in [Positions -> Results] PROVE e(q, f) \in Results
  <2>1. <<>> \in Value
      BY EmptySeq DEF Value
  <2>2. CASE q > n
      BY <2>1, <2>2 DEF Results
  <2>3. CASE ~(q > n) /\ t[q] = Quote
      BY <2>1, <2>3 DEF Results, Positions
  <2>4. CASE ~(q > n) /\ t[q] # Quote
    <3>1. PICK r \in Results : r = f[q + Width(t, q)]
        BY <1>2, <2>4
    <3>2. Decoded(t, q) \o r.value \in Value
        BY <1>2, <2>4, ConcatProperties DEF Value, Results
    <3>3. QED
        BY <2>4, <3>1, <3>2 DEF Results
  <2>5. QED
      BY <2>2, <2>3, <2>4
<1>4. ASSUME NEW q \in Positions, NEW f, NEW g,
             \A m \in Positions : measure[m] < measure[q] => f[m] = g[m]
      PROVE  e(q, f) = e(q, g)
    BY <1>2, <1>4
<1>5. measure \in [Positions -> Nat]
    BY <1>1 DEF Positions
<1> HIDE DEF e
<1>6. D \in [Positions \X [Positions -> Results] -> Results]
    BY <1>3
<1>7. \A q \in Positions : \A f \in [Positions -> Results] : D[<<q, f>>] = e(q, f)
    OBVIOUS
<1> HIDE DEF measure
<1>8. Local(D, measure, Positions, Results)
    BY <1>4, <1>7 DEF Local
<1>9. Results # {}
  <2>1. [value |-> <<>>, pos |-> 1] \in Results
      BY EmptySeq DEF Results, Value, Positions
  <2>2. QED
      BY <2>1
<1> HIDE DEF D
<1>10. Solvable(D, Positions, Results)
    BY <1>5, <1>6, <1>8, <1>9, RecursionExists
<1>11. PICK f \in [Positions -> Results] : f = [q \in Positions |-> D[<<q, f>>]]
    BY <1>10 DEF Solvable
<1>12. f = [q \in Positions |-> e(q, f)]
    BY <1>7, <1>11
<1>13. Reader(t, f)
    BY <1>12 DEF e, Reader, Positions
<1>14. QED
    BY <1>13

Reads(t, f) == \A p \in Nat : ReadString(t, p) = f[p + 1]

(* and is what ReadString has chosen:                                       *)
LEMMA ReaderChosen ==
    ASSUME NEW t \in Text
    PROVE  \E f : Reader(t, f) /\ Reads(t, f)
PROOF
<1>1. PICK f : f = CHOOSE x : Reader(t, x)
    OBVIOUS
<1>2. Reader(t, f)
    BY <1>1, ReaderExists
<1>3. ASSUME NEW p \in Nat PROVE ReadString(t, p) = (CHOOSE g : Reader(t, g))[p + 1]
    BY DEF ReadString, Reader
<1>4. QED
    BY <1>1, <1>2, <1>3 DEF Reads

(* The three equations that determine it.                                   *)
Stepwise(t, f) ==
    \A q \in Positions :
        /\ q > Len(t) => f[q] = [value |-> <<>>, pos |-> q]
        /\ q <= Len(t) /\ t[q] = Quote => f[q] = [value |-> <<>>, pos |-> q + 1]
        /\ q <= Len(t) /\ t[q] # Quote =>
               f[q] = [value |-> Decoded(t, q) \o f[q + Width(t, q)].value,
                       pos   |-> f[q + Width(t, q)].pos]

(* it satisfies its recursive equation at every position.                   *)
LEMMA ReaderSteps ==
    ASSUME NEW t \in Text
    PROVE  \E f : Stepwise(t, f) /\ Reads(t, f)
PROOF
<1>1. PICK f : Reader(t, f) /\ Reads(t, f)
    BY ReaderChosen
<1>2. Len(t) \in Nat
    BY LenProperties DEF Text
<1>3. ASSUME NEW q \in Positions
      PROVE  f[q] = IF q > Len(t) THEN [value |-> <<>>, pos |-> q]
                    ELSE IF t[q] = Quote THEN [value |-> <<>>, pos |-> q + 1]
                    ELSE [value |-> Decoded(t, q) \o f[q + Width(t, q)].value,
                          pos   |-> f[q + Width(t, q)].pos]
    BY <1>1 DEF Reader, Positions
<1>4. \A q \in Positions : q <= Len(t) <=> ~(q > Len(t))
    BY <1>2 DEF Positions
<1>5. Stepwise(t, f)
    BY <1>3, <1>4, Zenon DEF Stepwise
<1>6. QED
    BY <1>1, <1>5

(* The positions alone.                                                     *)
Moves(t, f) ==
    \A q \in Positions :
        /\ q > Len(t) => f[q].pos = q
        /\ q <= Len(t) /\ t[q] # Quote => f[q].pos = f[q + Width(t, q)].pos

(* The position that is reached, apart from the value.                      *)
LEMMA StepsMove == ASSUME NEW t, NEW f, Stepwise(t, f) PROVE Moves(t, f)
PROOF
<1> SUFFICES ASSUME NEW q \in Positions
             PROVE  /\ q > Len(t) => f[q].pos = q
                    /\ q <= Len(t) /\ t[q] # Quote => f[q].pos = f[q + Width(t, q)].pos
    BY DEF Moves
<1>1. ASSUME q > Len(t) PROVE f[q].pos = q
  <2>1. f[q] = [value |-> <<>>, pos |-> q]
      BY <1>1, Zenon DEF Stepwise
  <2>2. QED
      BY <2>1
<1>2. ASSUME q <= Len(t), t[q] # Quote PROVE f[q].pos = f[q + Width(t, q)].pos
  <2>1. f[q] = [value |-> Decoded(t, q) \o f[q + Width(t, q)].value,
                pos   |-> f[q + Width(t, q)].pos]
      BY <1>2, Zenon DEF Stepwise
  <2>2. QED
      BY <2>1
<1>3. QED
    BY <1>1, <1>2

(* One character, as it was written.                                        *)
LEMMA OneRead ==
    ASSUME NEW t \in Text, NEW q \in Positions, NEW c \in Chars, Has(t, q, Escaped(c))
    PROVE  /\ q <= Len(t) /\ t[q] # Quote
           /\ Width(t, q) = Len(Escaped(c))
           /\ Decoded(t, q) = <<c>>
PROOF
<1>1. Len(t) \in Nat
    BY LenProperties DEF Text
<1>2. CASE Plain(c)
  <2>1. q <= Len(t) /\ t[q] = c /\ Len(Escaped(c)) = 1
      BY <1>1, <1>2 DEF Plain, Has, Positions
  <2>2. t[q] # Quote /\ ~Escapes(t, q) /\ ~Codes(t, q)
      BY <1>2, <2>1 DEF Plain, Escapes, Codes
  <2>3. QED
      BY <2>1, <2>2 DEF Width, Decoded
<1>3. CASE Lettered(c)
  <2>1. PICK d \in Alphabet : d # "u" /\ Escaped(c) = <<Backslash, d>> /\ Unescaped(d) = c
      BY <1>3 DEF Lettered
  <2>2. PICK u : u = <<Backslash, d>>
      OBVIOUS
  <2>3. Len(u) = 2 /\ u[1] = Backslash /\ u[2] = d
      BY <2>2
  <2>4. q + 1 <= Len(t) /\ t[q] = Backslash /\ t[q + 1] = d
    <3>1. q + 2 <= Len(t) + 1 /\ \A i \in 1..2 : t[q + i - 1] = u[i]
        BY <2>1, <2>2, <2>3 DEF Has
    <3>2. q + 1 - 1 = q /\ q + 2 - 1 = q + 1
        BY DEF Positions
    <3>3. QED
        BY <1>1, <2>3, <3>1, <3>2 DEF Positions
  <2>5. q < Len(t) /\ q <= Len(t)
      BY <1>1, <2>4 DEF Positions
  <2>6. t[q] # Quote /\ Escapes(t, q) /\ ~Codes(t, q)
      BY <2>1, <2>4, <2>5 DEF Escapes, Codes, Quote, Backslash
  <2>7. Decoded(t, q) = <<Unescaped(t[q + 1])>>
      BY <2>1, <2>4, <2>6 DEF Decoded
  <2>8. QED
      BY <2>1, <2>2, <2>3, <2>4, <2>5, <2>6, <2>7 DEF Width
<1>4. CASE Coded(c)
  <2>1. PICK h : h = Hex[c] /\ Len(h) = 4
    <3>1. Len(<<"0", "0", "0", "1">>) = 4 /\ Len(<<"0", "0", "1", "f">>) = 4
        OBVIOUS
    <3>2. Hex[c] = <<"0", "0", "0", "1">> \/ Hex[c] = <<"0", "0", "1", "f">>
        BY <1>4, HexForms DEF Coded
    <3>3. QED
        BY <3>1, <3>2
  <2>2. {Backslash, "u", "0", "1", "f"} \subseteq Alphabet
      BY HexForms DEF Alphabet
  <2>3. h \in Text /\ <<Backslash, "u">> \in Text
    <3>1. <<"0", "0", "0", "1">> \in Text /\ <<"0", "0", "1", "f">> \in Text
        BY <2>2 DEF Text
    <3>2. <<Backslash, "u">> \in Text
        BY <2>2 DEF Text
    <3>3. QED
        BY <1>4, <2>1, <3>1, <3>2, HexForms DEF Coded
  <2>4. PICK u \in Text : u = <<Backslash, "u">>
      BY <2>3
  <2>5. Len(u) = 2
      BY <2>4
  <2>6. Escaped(c) = u \o h
      BY <1>4, <2>1, <2>4 DEF Coded
  <2>7. h \in Text
      BY <2>3
  <2>8. Len(Escaped(c)) = 6
    <3>1. Len(u \o h) = Len(u) + Len(h)
        BY <2>7, ConcatProperties DEF Text
    <3>2. QED
        BY <2>1, <2>6, <2>5, <3>1
  <2>9. Has(t, q, <<Backslash, "u">>) /\ Has(t, q + 2, h)
    <3>1. Has(t, q, u \o h) <=> Has(t, q, u) /\ Has(t, q + Len(u), h)
        BY <2>7, HasConcat DEF Positions
    <3>2. QED
        BY <2>4, <2>6, <2>5, <3>1
  <2>10. q + 5 <= Len(t) /\ t[q] = Backslash /\ t[q + 1] = "u"
      BY <1>1, <2>1, <2>9 DEF Has, Positions
  <2>11. q < Len(t) /\ q <= Len(t)
      BY <1>1, <2>10 DEF Positions
  <2>12. t[q] # Quote /\ Escapes(t, q) /\ Codes(t, q)
      BY <2>10, <2>11 DEF Escapes, Codes, Quote, Backslash
  <2>13. SubSeq(t, q + 2, q + 5) = h
    <3>1. PICK a \in Nat, b \in Nat : a = q + 2 /\ b = q + 5
        BY DEF Positions
    <3>2. \A i \in a..b : t[i] \in Alphabet
        BY <1>1, <2>10, <3>1 DEF Text, Positions
    <3>3. /\ SubSeq(t, a, b) \in Text /\ Len(SubSeq(t, a, b)) = b - a + 1
          /\ \A i \in 1..b - a + 1 : SubSeq(t, a, b)[i] = t[a + i - 1]
        BY <3>1, <3>2, SubSeqProperties DEF Text, Positions
    <3>4. \A i \in 1..4 : t[a + i - 1] = h[i]
        BY <2>1, <2>9, <3>1 DEF Has
    <3>5. b - a + 1 = 4
        BY <3>1 DEF Positions
    <3>6. PICK v \in Text : v = SubSeq(t, a, b)
        BY <3>3
    <3>7. Len(v) = Len(h) /\ \A i \in 1..Len(v) : v[i] = h[i]
        BY <2>1, <3>3, <3>4, <3>5, <3>6
    <3>8. v = h
        BY <2>7, <3>7, SeqEqual DEF Text
    <3>9. QED
        BY <3>1, <3>6, <3>8
  <2>14. {g \in DOMAIN Hex : Hex[g] = h} = {c}
    <3>1. <<"0", "0", "0", "1">> # <<"0", "0", "1", "f">>
        OBVIOUS
    <3>2. QED
        BY <1>4, <2>1, <3>1, HexForms DEF Coded
  <2>15. Decoded(t, q) = SetToSeq({g \in DOMAIN Hex : Hex[g] = h})
      BY <2>12, <2>13 DEF Decoded, Codes
  <2>16. Decoded(t, q) = <<c>>
      BY <2>14, <2>15, SingletonToSeq
  <2>17. QED
      BY <2>8, <2>11, <2>12, <2>16 DEF Width
<1>5. QED
    BY <1>2, <1>3, <1>4, EscapedForms

(* Where the k-th character of s ends, in a text that has Esc(s) at p.      *)
Bound(p, s, k) == p + 1 + Off(EscapedAll(s), k)

(* The text of a string, character by character.                            *)
LEMMA EscBounds ==
    ASSUME NEW w \in Text, NEW p \in Positions, NEW s \in Seq(Chars), Has(w, p, Esc(s))
    PROVE  /\ Bound(p, s, 0) = p + 1
           /\ Bound(p, s, Len(s)) + 1 = p + Len(Esc(s))
           /\ \A k \in 0..Len(s) : Bound(p, s, k) \in Positions
           /\ Has(w, p, <<Quote>>)
           /\ Has(w, Bound(p, s, Len(s)), <<Quote>>)
           /\ \A k \in Nat : k < Len(s) =>
                  /\ s[k + 1] \in Chars
                  /\ Has(w, Bound(p, s, k), Escaped(s[k + 1]))
                  /\ Bound(p, s, k + 1) = Bound(p, s, k) + Len(Escaped(s[k + 1]))
PROOF
<1>1. PICK n \in Nat : n = Len(s) /\ DOMAIN s = 1..n /\ \A i \in 1..n : s[i] \in Chars
    BY LenProperties
<1>2. PICK ps \in Seq(Text) : ps = EscapedAll(s) /\ Len(ps) = n
    BY <1>1, EscText
<1>3. \A i \in 1..n : ps[i] = Escaped(s[i])
    BY <1>1, <1>2 DEF EscapedAll
<1>4. PICK u \in Text : u = FlattenSeq(ps)
    BY <1>2, EscText
<1>5. PICK o \in Text : o = <<Quote>> /\ Len(o) = 1
  <2>1. Quote \in Alphabet
      BY DEF Alphabet
  <2>2. <<Quote>> \in Text
      BY <2>1 DEF Text
  <2>3. Len(<<Quote>>) = 1
      OBVIOUS
  <2>4. QED
      BY <2>2, <2>3
<1>6. Esc(s) = (o \o u) \o o
    BY <1>2, <1>4, <1>5, EscText
<1>7. /\ o \o u \in Text /\ Len(o \o u) = 1 + Len(u) /\ Len(u) \in Nat
      /\ Len((o \o u) \o o) = 1 + Len(u) + 1
  <2>1. o \o u \in Text /\ Len(o \o u) = Len(o) + Len(u)
      BY ConcatProperties DEF Text
  <2>2. Len((o \o u) \o o) = Len(o \o u) + Len(o)
      BY <2>1, ConcatProperties DEF Text
  <2>3. QED
      BY <1>5, <2>1, <2>2, LenProperties DEF Text
<1>8. Has(w, p, o) /\ Has(w, p + 1, u) /\ Has(w, p + (1 + Len(u)), o)
  <2>1. Has(w, p, (o \o u) \o o) /\ p \in Nat \ {0}
      BY <1>6 DEF Positions
  <2>2. Has(w, p, o \o u) /\ Has(w, p + Len(o \o u), o)
      BY <1>7, <2>1, HasConcat
  <2>3. Has(w, p, o) /\ Has(w, p + Len(o), u)
      BY <2>1, <2>2, HasConcat
  <2>4. QED
      BY <1>5, <1>7, <2>2, <2>3
<1>9. HasPieces(w, p + 1, ps)
    BY <1>4, <1>8, PiecesFound DEF Positions
<1>10. Off(ps, 0) = 0 /\ Off(ps, n) = Len(u)
    BY <1>2, <1>4, OffAll
<1>11. ASSUME NEW k \in Nat, k < n
       PROVE  /\ Off(ps, k) \in Nat
              /\ Off(ps, k + 1) = Off(ps, k) + Len(Escaped(s[k + 1]))
              /\ Has(w, (p + 1) + Off(ps, k), Escaped(s[k + 1]))
              /\ Len(Escaped(s[k + 1])) \in Nat
  <2>1. PICK m \in Nat : m = k + 1
      OBVIOUS
  <2>2. /\ Off(ps, k) \in Nat /\ Len(ps[m]) \in Nat
        /\ Off(ps, m) = Off(ps, k) + Len(ps[m])
      BY <1>2, <1>11, <2>1, OffNext
  <2>3. ps[m] = Escaped(s[m])
      BY <1>3, <1>11, <2>1
  <2>4. Has(w, (p + 1) + Off(ps, k), ps[m])
      BY <1>2, <1>9, <1>11, <2>1 DEF HasPieces
  <2>5. QED
      BY <2>1, <2>2, <2>3, <2>4
<1>12. \A k \in 0..n : Off(ps, k) \in Nat
  <2> TAKE k \in 0..n
  <2>1. CASE k < n
      BY <1>11, <2>1
  <2>2. CASE k = n
      BY <1>7, <1>10, <2>2
  <2>3. QED
      BY <2>1, <2>2
<1>13. p \in Nat /\ p # 0
    BY DEF Positions
<1>14. Bound(p, s, 0) = p + 1 /\ Bound(p, s, n) + 1 = p + Len(Esc(s))
    BY <1>2, <1>6, <1>7, <1>10, <1>13 DEF Bound
<1>15. \A k \in 0..n : Bound(p, s, k) \in Positions
    BY <1>2, <1>12, <1>13 DEF Bound, Positions
<1>16. Has(w, Bound(p, s, n), <<Quote>>)
  <2>1. Bound(p, s, n) = p + (1 + Len(u))
      BY <1>2, <1>7, <1>10, <1>13 DEF Bound
  <2>2. QED
      BY <1>5, <1>8, <2>1
<1>17. ASSUME NEW k \in Nat, k < n
       PROVE  /\ s[k + 1] \in Chars
              /\ Has(w, Bound(p, s, k), Escaped(s[k + 1]))
              /\ Bound(p, s, k + 1) = Bound(p, s, k) + Len(Escaped(s[k + 1]))
  <2>1. PICK a \in Nat, b \in Nat : a = Off(ps, k) /\ b = Len(Escaped(s[k + 1]))
      BY <1>11, <1>17
  <2>2. PICK c \in Nat : a = Off(ps, k) /\ b = Len(Escaped(s[k + 1])) /\ c = Off(ps, k + 1)
    <3>1. Off(ps, k + 1) = Off(ps, k) + Len(Escaped(s[k + 1]))
        BY <1>11, <1>17
    <3>2. QED
        BY <2>1, <3>1
  <2>3. c = a + b /\ Has(w, (p + 1) + a, Escaped(s[k + 1]))
      BY <1>11, <1>17, <2>2
  <2>4. Bound(p, s, k) = (p + 1) + a /\ Bound(p, s, k + 1) = (p + 1) + c
      BY <1>2, <2>2 DEF Bound
  <2>5. (p + 1) + c = ((p + 1) + a) + b
      BY <1>13, <2>3
  <2>6. s[k + 1] \in Chars
      BY <1>1, <1>17
  <2>7. QED
      BY <2>2, <2>3, <2>4, <2>5, <2>6
<1>18. QED
    BY <1>1, <1>5, <1>8, <1>14, <1>15, <1>16, <1>17

(* A string that is there in full.                                          *)
LEMMA StringRead ==
    ASSUME NEW t \in Text, NEW p \in Positions, NEW s \in Seq(Chars), Has(t, p, Esc(s))
    PROVE  ReadString(t, p) = [value |-> s, pos |-> p + Len(Esc(s))]
PROOF
<1>1. PICK f : Stepwise(t, f) /\ Reads(t, f)
    BY ReaderSteps
<1>2. PICK n \in Nat : n = Len(s)
    BY LenProperties
<1>3. PICK e : e = p + Len(Esc(s))
    OBVIOUS
<1> DEFINE Good(j) == f[Bound(p, s, n - j)] = [value |-> SubSeq(s, n - j + 1, n), pos |-> e]
           N == {j \in Nat : j <= n => Good(j)}
<1>4. 0 \in N
  <2>1. PICK q \in Positions : q = Bound(p, s, n)
      BY <1>2, EscBounds
  <2>2. Has(t, q, <<Quote>>) /\ q + 1 = e
      BY <1>2, <1>3, <2>1, EscBounds
  <2>3. q <= Len(t) /\ t[q] = Quote
      BY <2>2, HasOne DEF Positions
  <2>4. f[q] = [value |-> <<>>, pos |-> q + 1]
      BY <1>1, <2>3 DEF Stepwise
  <2>5. SubSeq(s, n + 1, n) = <<>>
      BY SubSeqEmpty
  <2>6. QED
      BY <2>1, <2>2, <2>4, <2>5
<1>5. ASSUME NEW j \in Nat, j \in N PROVE j + 1 \in N
  <2> SUFFICES ASSUME j + 1 <= n PROVE Good(j + 1)
    <3> HIDE DEF Good
    <3> QED
        OBVIOUS
  <2>1. j + 1 <= n /\ j <= n
      OBVIOUS
  <2>2. PICK k \in Nat : k = n - (j + 1) /\ k + 1 = n - j /\ k < n
      BY <2>1
  <2>3. f[Bound(p, s, k + 1)] = [value |-> SubSeq(s, n - j + 1, n), pos |-> e]
      BY <1>5, <2>1, <2>2
  <2>4. PICK q \in Positions : q = Bound(p, s, k)
      BY <1>2, <2>2, EscBounds
  <2>5. PICK c \in Chars : c = s[k + 1]
      BY <1>2, <2>2, EscBounds
  <2>6. Has(t, q, Escaped(c)) /\ Bound(p, s, k + 1) = q + Len(Escaped(c))
      BY <1>2, <2>2, <2>4, <2>5, EscBounds
  <2>7. /\ q <= Len(t) /\ t[q] # Quote
        /\ Width(t, q) = Len(Escaped(c)) /\ Decoded(t, q) = <<c>>
      BY <2>6, OneRead
  <2>8. f[q] = [value |-> Decoded(t, q) \o f[q + Width(t, q)].value,
                pos   |-> f[q + Width(t, q)].pos]
      BY <1>1, <2>7 DEF Stepwise
  <2>9. f[q + Width(t, q)] = [value |-> SubSeq(s, n - j + 1, n), pos |-> e]
      BY <2>3, <2>6, <2>7
  <2>10. SubSeq(s, k + 1, n) = <<c>> \o SubSeq(s, k + 2, n)
    <3>1. PICK m \in 1..Len(s) : m = k + 1
        BY <1>2, <2>2
    <3>2. n \in m..Len(s)
        BY <1>2, <3>1
    <3>3. SubSeq(s, m, n) = <<s[m]>> \o SubSeq(s, m + 1, n)
        BY <3>2, SubSeqRecursiveFirst
    <3>4. m + 1 = k + 2
        BY <3>1
    <3>5. QED
        BY <2>5, <3>1, <3>3, <3>4
  <2>11. n - j + 1 = k + 2 /\ n - (j + 1) + 1 = k + 1
      BY <2>2
  <2>12. f[q] = [value |-> SubSeq(s, k + 1, n), pos |-> e]
    <3>1. PICK r : r = f[q + Width(t, q)]
        OBVIOUS
    <3>2. r.value = SubSeq(s, k + 2, n) /\ r.pos = e
        BY <2>9, <2>11, <3>1
    <3>3. Decoded(t, q) \o r.value = SubSeq(s, k + 1, n)
        BY <2>7, <2>10, <3>2
    <3>4. QED
        BY <2>8, <3>1, <3>2, <3>3
  <2>13. QED
      BY <2>2, <2>4, <2>11, <2>12
<1> HIDE DEF N
<1>6. n \in N
    BY <1>4, <1>5, NatSetInduction
<1>7. f[Bound(p, s, 0)] = [value |-> SubSeq(s, 1, n), pos |-> e]
  <2>1. n - n = 0 /\ n - n + 1 = 1 /\ n <= n
      OBVIOUS
  <2>2. QED
      BY <1>6, <2>1 DEF N
<1>8. SubSeq(s, 1, n) = s
    BY <1>2, SubSeqFull
<1>9. ReadString(t, p) = f[p + 1]
    BY <1>1 DEF Reads, Positions
<1>10. QED
    BY <1>3, <1>7, <1>8, <1>9, EscBounds

(* A string that was cut short takes the parser past the end of the text:   *)
(* what is left of it, an escape cut in two included, has no other quote.   *)
LEMMA StringPast ==
    ASSUME NEW t \in Text, NEW p \in Positions, p >= Len(t)
    PROVE  ReadString(t, p).pos > Len(t) /\ ReadString(t, p).value = <<>>
PROOF
<1>1. PICK f : Stepwise(t, f) /\ Reads(t, f)
    BY ReaderSteps
<1>2. PICK q \in Positions : q = p + 1
    BY DEF Positions
<1>3. q > Len(t)
    BY <1>2, LenProperties DEF Text, Positions
<1>4. f[q] = [value |-> <<>>, pos |-> q]
    BY <1>1, <1>3, Zenon DEF Stepwise
<1>5. ReadString(t, p) = f[q]
    BY <1>1, <1>2 DEF Reads, Positions
<1>6. f[q].pos = q /\ f[q].value = <<>>
    BY <1>4
<1>7. QED
    BY <1>3, <1>5, <1>6

Unquoted(t, q) == q > Len(t) \/ t[q] \notin {Quote, Backslash}

(* From q on the rest of the text is read as it is.                         *)
AsItIs(t, f, q) == f[q].pos > Len(t) /\ f[q].value = SubSeq(t, q, Len(t))

(* Past the end of the text there is nothing left to read.                  *)
LEMMA NonePast ==
    ASSUME NEW t \in Text, NEW f, Stepwise(t, f), NEW q \in Positions, q > Len(t)
    PROVE  f[q].pos > Len(t) /\ f[q].value = <<>> /\ AsItIs(t, f, q)
PROOF
<1>1. f[q] = [value |-> <<>>, pos |-> q]
    BY Zenon DEF Stepwise
<1>2. SubSeq(t, q, Len(t)) = <<>>
    BY SubSeqEmpty, LenProperties DEF Text, Positions
<1>3. QED
    BY <1>1, <1>2 DEF AsItIs

(* A character that is neither a quote nor a backslash is one of the value. *)
LEMMA OnePast ==
    ASSUME NEW t \in Text, NEW f, Stepwise(t, f), NEW q \in Positions, Unquoted(t, q),
           q <= Len(t) => AsItIs(t, f, q + 1)
    PROVE  AsItIs(t, f, q)
PROOF
<1>1. Len(t) \in Nat
    BY LenProperties DEF Text
<1>2. CASE q > Len(t)
    BY <1>2, NonePast
<1>3. CASE ~(q > Len(t))
  <2>1. q <= Len(t) /\ t[q] # Quote
      BY <1>1, <1>3 DEF Unquoted, Positions
  <2>2. Width(t, q) = 1 /\ Decoded(t, q) = <<t[q]>>
      BY <1>3 DEF Width, Codes, Escapes, Unquoted, Decoded
  <2>3. PICK r : r = f[q + Width(t, q)]
      OBVIOUS
  <2>4. f[q] = [value |-> Decoded(t, q) \o r.value, pos |-> r.pos]
      BY <2>1, <2>3, Zenon DEF Stepwise
  <2>5. r.pos > Len(t) /\ r.value = SubSeq(t, q + 1, Len(t))
      BY <2>1, <2>2, <2>3 DEF AsItIs
  <2>6. SubSeq(t, q, Len(t)) = <<t[q]>> \o SubSeq(t, q + 1, Len(t))
    <3>1. q \in 1..Len(t) /\ Len(t) \in q..Len(t)
        BY <1>1, <2>1 DEF Positions
    <3>2. QED
        BY <3>1, SubSeqRecursiveFirst DEF Text
  <2>7. f[q].pos = r.pos /\ f[q].value = <<t[q]>> \o r.value
      BY <2>2, <2>4
  <2>8. QED
      BY <2>5, <2>6, <2>7, Zenon DEF AsItIs
<1>4. QED
    BY <1>2, <1>3

(* One character that was cut: a backslash at the end, or \u and digits.    *)
LEMMA CutCharacter ==
    ASSUME NEW w \in Text, NEW n \in 0..Len(w), NEW q \in Positions, NEW c \in Chars,
           Has(w, q, Escaped(c)), q <= n, q + Len(Escaped(c)) > n + 1,
           NEW f, Stepwise(SubSeq(w, 1, n), f)
    PROVE  f[q].pos > n /\ f[q].value \in Remnants(c)
PROOF
<1>1. /\ Len(w) \in Nat /\ q \in Nat /\ q # 0
      /\ n \in Nat /\ n <= Len(w)
    BY LenProperties DEF Text, Positions
<1>2. PICK t \in Text : t = SubSeq(w, 1, n)
    BY <1>1, PrefixProperties DEF Text
<1>3. Len(t) = n /\ \A i \in 1..n : t[i] = w[i]
    BY <1>1, <1>2, PrefixProperties DEF Text
<1>4. Stepwise(t, f)
    BY <1>2
<1>5. ASSUME NEW r \in Positions, r > n
      PROVE  f[r].pos > n /\ f[r].value = <<>> /\ AsItIs(t, f, r)
    BY <1>3, <1>4, <1>5, NonePast
<1>6. CASE Plain(c)
  <2>1. Len(Escaped(c)) = 1
      BY <1>6 DEF Plain
  <2>2. QED
      BY <1>1, <2>1
<1>7. CASE Lettered(c)
  <2>1. PICK d \in Alphabet : Escaped(c) = <<Backslash, d>>
      BY <1>7 DEF Lettered
  <2>2. PICK u : u = <<Backslash, d>> /\ Len(u) = 2 /\ u[1] = Backslash
    <3>1. Len(<<Backslash, d>>) = 2 /\ <<Backslash, d>>[1] = Backslash
        OBVIOUS
    <3>2. QED
        BY <3>1
  <2>3. q = n /\ w[q] = Backslash
    <3>1. q + 2 > n + 1
        BY <2>1, <2>2
    <3>2. w[q + 1 - 1] = u[1]
        BY <2>1, <2>2 DEF Has
    <3>3. q + 1 - 1 = q
        BY <1>1
    <3>4. QED
        BY <1>1, <2>2, <3>1, <3>2, <3>3
  <2>4. t[q] # Quote /\ ~Escapes(t, q) /\ ~Codes(t, q)
    <3>1. q \in 1..n
        BY <1>1, <2>3
    <3>2. t[q] = Backslash
        BY <1>3, <2>3, <3>1
    <3>3. QED
        BY <1>1, <1>3, <2>3, <3>2 DEF Escapes, Codes, Quote, Backslash
  <2>5. Width(t, q) = 1 /\ Decoded(t, q) = <<Backslash>>
      BY <1>1, <1>3, <2>3, <2>4 DEF Width, Decoded
  <2>6. q + 1 \in Positions /\ q + 1 > n
      BY <1>1, <2>3 DEF Positions
  <2>7. PICK r : r = f[q + 1] /\ r.pos > n /\ r.value = <<>>
      BY <1>5, <2>6
  <2>8. f[q] = [value |-> Decoded(t, q) \o r.value, pos |-> r.pos]
    <3>1. q <= Len(t) /\ r = f[q + Width(t, q)]
        BY <1>3, <2>3, <2>5, <2>7
    <3>2. QED
        BY <1>4, <2>4, <3>1, Zenon DEF Stepwise
  <2>9. <<Backslash>> \o <<>> = <<Backslash>>
      OBVIOUS
  <2>10. <<Backslash>> \in Remnants(c)
    <3>1. Escaped(c) # <<c>>
      <4>1. Len(<<c>>) = 1
          OBVIOUS
      <4>2. QED
          BY <2>1, <2>2, <4>1
    <3>2. QED
        BY <3>1 DEF Remnants
  <2>11. QED
      BY <2>5, <2>7, <2>8, <2>9, <2>10
<1>8. CASE Coded(c)
  <2> DEFINE Code(h) == Len(h) = 4 /\ \A i \in 1..4 : h[i] \in {"0", "1", "f"}
  <2>1. PICK h : h = Hex[c] /\ Code(h)
    <3>1. PICK a : a = <<"0", "0", "0", "1">> /\ Code(a)
      <4>1. Code(<<"0", "0", "0", "1">>)
          OBVIOUS
      <4>2. QED
          BY <4>1
    <3>2. PICK b : b = <<"0", "0", "1", "f">> /\ Code(b)
      <4>1. Code(<<"0", "0", "1", "f">>)
          OBVIOUS
      <4>2. QED
          BY <4>1
    <3>3. Hex[c] = a \/ Hex[c] = b
        BY <1>8, <3>1, <3>2, HexForms DEF Coded
    <3>4. QED
        BY <3>1, <3>2, <3>3
  <2>2. {Backslash, "u", "0", "1", "f"} \subseteq Alphabet
      BY HexForms DEF Alphabet
  <2>3. h \in Text
    <3>1. <<"0", "0", "0", "1">> \in Text /\ <<"0", "0", "1", "f">> \in Text
        BY <2>2 DEF Text
    <3>2. QED
        BY <1>8, <2>1, <3>1, HexForms DEF Coded
  <2>4. PICK u \in Text : u = <<Backslash, "u">>
    <3>1. <<Backslash, "u">> \in Text
        BY <2>2 DEF Text
    <3>2. QED
        BY <3>1
  <2>5. Len(u) = 2 /\ u[1] = Backslash /\ u[2] = "u"
      BY <2>4
  <2>6. Escaped(c) = u \o h
      BY <1>8, <2>1, <2>4 DEF Coded
  <2>7. Len(Escaped(c)) = 6
    <3>1. Len(u \o h) = Len(u) + Len(h)
        BY <2>3, ConcatProperties DEF Text
    <3>2. QED
        BY <2>1, <2>5, <2>6, <3>1
  <2>8. Has(w, q, u) /\ Has(w, q + 2, h)
    <3>1. Has(w, q, u \o h) <=> Has(w, q, u) /\ Has(w, q + Len(u), h)
        BY <2>3, HasConcat DEF Positions
    <3>2. QED
        BY <2>5, <2>6, <3>1
  <2>9. w[q] = Backslash /\ w[q + 1] = "u"
    <3>1. w[q + 1 - 1] = u[1] /\ w[q + 2 - 1] = u[2]
        BY <2>5, <2>8 DEF Has
    <3>2. q + 1 - 1 = q /\ q + 2 - 1 = q + 1
        BY <1>1
    <3>3. QED
        BY <2>5, <3>1, <3>2
  <2>10. \A i \in 1..4 : w[q + 2 + i - 1] \in {"0", "1", "f"}
      BY <2>1, <2>8 DEF Has
  <2>11. \A r \in Positions : r \in q + 2..q + 5 => Unquoted(t, r)
    <3> SUFFICES ASSUME NEW r \in Positions, r \in q + 2..q + 5, ~(r > n)
                 PROVE  t[r] \notin {Quote, Backslash}
        BY <1>3 DEF Unquoted
    <3>1. PICK i \in 1..4 : r = q + 2 + i - 1
      <4>1. r - (q + 1) \in 1..4 /\ r = q + 2 + (r - (q + 1)) - 1
          BY <1>1 DEF Positions
      <4>2. QED
          BY <4>1
    <3>2. t[r] \in {"0", "1", "f"}
        BY <1>3, <2>10, <3>1 DEF Positions
    <3>3. QED
        BY <3>2 DEF Quote, Backslash
  <2>12. n <= q + 4
      BY <1>1, <2>7
  <2>13. q + 1 \in Positions /\ q + 2 \in Positions /\ q + 3 \in Positions
         /\ q + 4 \in Positions /\ q + 5 \in Positions
      BY <1>1 DEF Positions
  <2>14. AsItIs(t, f, q + 5)
      BY <1>1, <1>5, <2>12, <2>13
  <2>15. AsItIs(t, f, q + 4)
    <3>1. Unquoted(t, q + 4)
        BY <1>1, <2>11, <2>13
    <3>2. q + 4 + 1 = q + 5
        BY <1>1
    <3>3. QED
        BY <1>4, <2>13, <2>14, <3>1, <3>2, OnePast
  <2>16. AsItIs(t, f, q + 3)
    <3>1. Unquoted(t, q + 3)
        BY <1>1, <2>11, <2>13
    <3>2. q + 3 + 1 = q + 4
        BY <1>1
    <3>3. QED
        BY <1>4, <2>13, <2>15, <3>1, <3>2, OnePast
  <2>17. AsItIs(t, f, q + 2)
    <3>1. Unquoted(t, q + 2)
        BY <1>1, <2>11, <2>13
    <3>2. q + 2 + 1 = q + 3
        BY <1>1
    <3>3. QED
        BY <1>4, <2>13, <2>16, <3>1, <3>2, OnePast
  <2>18. q <= Len(t) /\ t[q] = Backslash /\ t[q] # Quote
    <3>1. q \in 1..n
        BY <1>1
    <3>2. t[q] = Backslash
        BY <1>3, <2>9, <3>1
    <3>3. QED
        BY <1>3, <3>2 DEF Quote, Backslash
  <2>19. PICK r : r = f[q + Width(t, q)]
      OBVIOUS
  <2>20. f[q] = [value |-> Decoded(t, q) \o r.value, pos |-> r.pos]
      BY <1>4, <2>18, <2>19, Zenon DEF Stepwise
  <2>21. ~Codes(t, q)
      BY <1>1, <1>3, <2>12 DEF Codes
  <2>22. Escaped(c) # <<c>>
    <3>1. Len(<<c>>) = 1
        OBVIOUS
    <3>2. QED
        BY <2>7, <3>1
  <2>23. CASE q < n
    <3>1. t[q + 1] = "u" /\ Escapes(t, q)
      <4>1. q + 1 \in 1..n
          BY <1>1, <2>23
      <4>2. QED
          BY <1>3, <2>9, <2>18, <2>23, <4>1 DEF Escapes
    <3>2. Width(t, q) = 2 /\ Decoded(t, q) = <<>>
        BY <2>21, <3>1 DEF Width, Decoded
    <3>3. r.pos > n /\ r.value = SubSeq(t, q + 2, n)
        BY <1>3, <2>17, <2>19, <3>2 DEF AsItIs
    <3>4. PICK v \in Text : v = SubSeq(t, q + 2, n)
      <4>1. \A i \in q + 2..n : t[i] \in Alphabet
          BY <1>1, <1>3, LenProperties DEF Text
      <4>2. SubSeq(t, q + 2, n) \in Text
          BY <1>1, <4>1, SubSeqProperties DEF Text
      <4>3. QED
          BY <4>2
    <3>5. <<>> \o v = v
        BY ConcatEmptySeq DEF Text
    <3>6. v \in Remnants(c)
      <4>1. CASE n = q + 1
        <5>1. v = <<>>
            BY <1>1, <3>4, <4>1, SubSeqEmpty
        <5>2. QED
            BY <2>22, <5>1 DEF Remnants
      <4>2. CASE n # q + 1
        <5>1. PICK k \in 3..5 : k = n - q + 1
            BY <1>1, <2>12, <2>23, <4>2
        <5>2. PICK x \in Text : x = Escaped(c) /\ Len(x) = 6
            BY <2>7, EscapedText
        <5>3. \A i \in 1..k : t[q + i - 1] = x[i]
          <6>1. \A i \in 1..6 : w[q + i - 1] = x[i]
              BY <5>2 DEF Has
          <6>2. \A i \in 1..k : i \in 1..6 /\ q + i - 1 \in 1..n
              BY <1>1, <5>1
          <6>3. QED
              BY <1>3, <6>1, <6>2
        <5>4. SubSeq(x, 3, k) = v
          <6>1. \A i \in 3..k : x[i] \in Alphabet
            <7>1. \A i \in 1..6 : x[i] \in Alphabet
              <8>1. \A i \in 1..Len(x) : x[i] \in Alphabet
                  BY LenProperties DEF Text
              <8>2. QED
                  BY <5>2, <8>1
            <7>2. 3..k \subseteq 1..6
                BY <5>1
            <7>3. QED
                BY <7>1, <7>2
          <6>2. /\ SubSeq(x, 3, k) \in Text /\ Len(SubSeq(x, 3, k)) = k - 3 + 1
                /\ \A i \in 1..k - 3 + 1 : SubSeq(x, 3, k)[i] = x[3 + i - 1]
              BY <5>1, <6>1, SubSeqProperties DEF Text
          <6>3. PICK y \in Text : y = SubSeq(x, 3, k)
              BY <6>2
          <6>4. Len(y) = k - 2 /\ \A i \in 1..k - 2 : y[i] = x[i + 2]
              BY <6>2, <6>3
          <6>5. \A i \in q + 2..n : t[i] \in Alphabet
              BY <1>1, <1>3, LenProperties DEF Text
          <6>6. /\ Len(SubSeq(t, q + 2, n)) = n - (q + 2) + 1
                /\ \A i \in 1..n - (q + 2) + 1 : SubSeq(t, q + 2, n)[i] = t[q + 2 + i - 1]
              BY <1>1, <2>23, <4>2, <6>5, SubSeqProperties DEF Text
          <6>7. Len(v) = k - 2 /\ \A i \in 1..k - 2 : v[i] = t[q + (i + 2) - 1]
              BY <1>1, <3>4, <5>1, <6>6
          <6>8. \A i \in 1..k - 2 : i + 2 \in 1..k /\ q + (i + 2) - 1 = q + 2 + i - 1
              BY <1>1
          <6>9. \A i \in 1..k - 2 : v[i] = y[i]
              BY <5>3, <6>4, <6>7, <6>8
          <6>10. y = v
              BY <6>4, <6>7, <6>9, SeqEqual DEF Text
          <6>11. QED
              BY <6>3, <6>10
        <5>5. k \in 3..Len(Escaped(c)) - 1
            BY <2>7
        <5>6. v = SubSeq(Escaped(c), 3, k)
            BY <5>2, <5>4
        <5>7. QED
            BY <2>22, <5>5, <5>6 DEF Remnants
      <4>3. QED
          BY <4>1, <4>2
    <3>7. QED
        BY <2>20, <3>2, <3>3, <3>4, <3>5, <3>6
  <2>24. CASE ~(q < n)
    <3>1. ~Escapes(t, q)
        BY <1>3, <2>24 DEF Escapes
    <3>2. Width(t, q) = 1 /\ Decoded(t, q) = <<Backslash>>
        BY <2>18, <2>21, <3>1 DEF Width, Decoded
    <3>3. r.pos > n /\ r.value = <<>>
      <4>1. q + 1 > n
          BY <1>1, <2>24
      <4>2. QED
          BY <1>5, <2>13, <2>19, <3>2, <4>1
    <3>4. <<Backslash>> \o <<>> = <<Backslash>>
        OBVIOUS
    <3>5. <<Backslash>> \in Remnants(c)
        BY <2>22 DEF Remnants
    <3>6. QED
        BY <2>20, <3>2, <3>3, <3>4, <3>5
  <2>25. QED
      BY <2>23, <2>24
<1>9. QED
    BY <1>6, <1>7, <1>8, EscapedForms

(* What is left of a character are characters.                              *)
LEMMA RemnantText == ASSUME NEW c \in Chars PROVE Remnants(c) \subseteq Text
PROOF
<1>1. <<>> \in Text
    BY EmptySeq DEF Text
<1>2. <<Backslash>> \in Text
    BY DEF Text, Alphabet
<1>3. PICK x \in Text : x = Escaped(c)
    BY EscapedText
<1>4. ASSUME NEW k \in 3..Len(x) - 1 PROVE SubSeq(x, 3, k) \in Text
  <2>1. Len(x) \in Nat /\ \A i \in 3..k : x[i] \in Alphabet
      BY LenProperties DEF Text
  <2>2. QED
      BY <2>1, SubSeqProperties DEF Text
<1>5. QED
    BY <1>1, <1>2, <1>3, <1>4 DEF Remnants

Associates(u, v, x) == (u \o v) \o x = u \o (v \o x)

(* Texts one after the other, in whatever way they are put together.        *)
LEMMA TextAssociates == \A u, v, x \in Text : Associates(u, v, x)
PROOF BY ConcatAssociative DEF Text, Associates

(* What can be left of s from its k-th character on.                        *)
LeftFrom(s, k, v) ==
    \E m \in k..Len(s) : \E x \in Text :
        /\ v = SubSeq(s, k + 1, m) \o x
        /\ x = <<>> \/ (m < Len(s) /\ x \in Remnants(s[m + 1]))

(* Nothing, if the text ended before it;                                    *)
LEMMA LeftNone ==
    ASSUME NEW s \in Seq(Chars), NEW k \in Nat, k <= Len(s)
    PROVE  LeftFrom(s, k, <<>>)
PROOF
<1>1. k \in k..Len(s) /\ <<>> \in Text
    BY LenProperties, EmptySeq DEF Text
<1>2. SubSeq(s, k + 1, k) = <<>>
    BY SubSeqEmpty
<1>3. <<>> \o <<>> = <<>>
    OBVIOUS
<1>4. QED
    BY <1>1, <1>2, <1>3 DEF LeftFrom

(* a remnant of its first character, if it ended there;                     *)
LEMMA LeftOne ==
    ASSUME NEW s \in Seq(Chars), NEW k \in Nat, k < Len(s), NEW v \in Remnants(s[k + 1])
    PROVE  LeftFrom(s, k, v)
PROOF
<1>1. k \in k..Len(s) /\ k + 1 \in 1..Len(s) /\ s[k + 1] \in Chars
    BY LenProperties
<1>2. v \in Text
    BY <1>1, RemnantText
<1>3. SubSeq(s, k + 1, k) = <<>>
    BY SubSeqEmpty
<1>4. <<>> \o v = v
    BY <1>2, ConcatEmptySeq DEF Text
<1>5. v = SubSeq(s, k + 1, k) \o v
    BY <1>3, <1>4
<1>6. QED
    BY <1>1, <1>2, <1>5 DEF LeftFrom

(* all of its first character and what is left of the others.               *)
LEMMA LeftMore ==
    ASSUME NEW s \in Seq(Chars), NEW k \in Nat, k < Len(s), NEW v, LeftFrom(s, k + 1, v)
    PROVE  LeftFrom(s, k, <<s[k + 1]>> \o v)
PROOF
<1>1. PICK m \in k + 1..Len(s), x \in Text :
          /\ v = SubSeq(s, k + 1 + 1, m) \o x
          /\ x = <<>> \/ (m < Len(s) /\ x \in Remnants(s[m + 1]))
    BY DEF LeftFrom
<1>2. Len(s) \in Nat /\ \A i \in 1..Len(s) : s[i] \in Chars
    BY LenProperties
<1>3. PICK i \in 1..Len(s) : i = k + 1
    BY <1>2
<1>4. m \in i..Len(s)
    BY <1>3
<1>5. SubSeq(s, i, m) = <<s[i]>> \o SubSeq(s, i + 1, m)
    BY <1>4, SubSeqRecursiveFirst
<1>6. PICK u \in Text : u = SubSeq(s, i + 1, m)
  <2>1. \A j \in i + 1..m : s[j] \in Alphabet
    <3>1. i + 1..m \subseteq 1..Len(s)
        BY <1>2, <1>4
    <3>2. QED
        BY <1>2, <3>1 DEF Alphabet
  <2>2. SubSeq(s, i + 1, m) \in Text
      BY <1>2, <2>1, SubSeqProperties DEF Text
  <2>3. QED
      BY <2>2
<1>7. PICK o \in Text : o = <<s[i]>>
  <2>1. PICK c \in Alphabet : c = s[i]
      BY <1>2 DEF Alphabet
  <2>2. <<c>> \in Text
      BY DEF Text
  <2>3. QED
      BY <2>1, <2>2
<1>8. (o \o u) \o x = o \o (u \o x)
  <2>1. Associates(o, u, x)
      BY TextAssociates, Zenon
  <2>2. QED
      BY <2>1 DEF Associates
<1>9. <<s[k + 1]>> \o v = SubSeq(s, k + 1, m) \o x
    BY <1>1, <1>3, <1>5, <1>6, <1>7, <1>8
<1>10. m \in k..Len(s)
    BY <1>2
<1>11. QED
    BY <1>1, <1>9, <1>10 DEF LeftFrom

(* What is left of all of s is one of its pieces.                           *)
LEMMA LeftPieces == ASSUME NEW s \in Seq(Chars), NEW v, LeftFrom(s, 0, v) PROVE v \in Pieces(s)
PROOF
<1>1. PICK m \in 0..Len(s), x \in Text :
          /\ v = SubSeq(s, 1, m) \o x
          /\ x = <<>> \/ (m < Len(s) /\ x \in Remnants(s[m + 1]))
    BY DEF LeftFrom
<1>2. Len(s) \in Nat /\ DOMAIN s = 1..Len(s)
    BY LenProperties
<1>3. CASE m = Len(s)
  <2>1. SubSeq(s, 1, m) = s /\ x = <<>>
      BY <1>1, <1>2, <1>3, SubSeqFull
  <2>2. v = s
      BY <1>1, <2>1, ConcatEmptySeq
  <2>3. QED
      BY <2>2 DEF Pieces
<1>4. CASE m < Len(s)
  <2>1. PICK k \in DOMAIN s : k = m + 1
      BY <1>2, <1>4
  <2>2. x \in Remnants(s[k]) /\ k - 1 = m
      BY <1>1, <2>1 DEF Remnants
  <2>3. v \in {SubSeq(s, 1, k - 1) \o r : r \in Remnants(s[k])}
      BY <1>1, <2>2
  <2>4. QED
      BY <2>3 DEF Pieces
<1>5. m = Len(s) \/ m < Len(s)
  <2>1. PICK l \in Nat : l = Len(s)
      BY <1>2
  <2>2. m \in 0..l
      BY <2>1
  <2>3. QED
      BY <2>1, <2>2
<1>6. QED
    BY <1>3, <1>4, <1>5

(* A string is a piece of itself, and so is none of it.                     *)
LEMMA WholePiece == ASSUME NEW s \in Seq(Chars) PROVE s \in Pieces(s) /\ <<>> \in Pieces(s)
PROOF
<1>1. 0 <= Len(s)
    BY LenProperties
<1>2. QED
    BY <1>1, LeftNone, LeftPieces DEF Pieces

(* A string that the text ends in is read up to the end.                    *)
LEMMA StringCut ==
    ASSUME NEW w \in Text, NEW n \in 0..Len(w), NEW p \in Positions, NEW s \in Seq(Chars),
           Has(w, p, Esc(s)), p + Len(Esc(s)) > n + 1
    PROVE  LET r == ReadString(SubSeq(w, 1, n), p)
           IN  r.pos > n /\ r.value \in Pieces(s)
PROOF
<1>1. /\ Len(w) \in Nat /\ n \in Nat /\ n <= Len(w)
      /\ p \in Nat
    BY LenProperties DEF Text, Positions
<1>2. PICK l \in Nat : l = Len(s)
    BY LenProperties
<1>3. PICK t \in Text : t = SubSeq(w, 1, n)
    BY <1>1, PrefixProperties DEF Text
<1>4. Len(t) = n
    BY <1>1, <1>3, PrefixProperties DEF Text
<1>5. PICK f : Stepwise(t, f) /\ Reads(t, f)
    BY ReaderSteps
<1>6. ASSUME NEW r \in Positions, r > n PROVE f[r].pos > n /\ f[r].value = <<>>
    BY <1>4, <1>5, <1>6, NonePast
<1> DEFINE Good(j) == f[Bound(p, s, l - j)].pos > n /\ LeftFrom(s, l - j, f[Bound(p, s, l - j)].value)
           N == {j \in Nat : j <= l => Good(j)}
<1>7. 0 \in N
  <2>1. PICK q \in Positions : q = Bound(p, s, l)
      BY <1>2, EscBounds
  <2>2. q > n
    <3>1. q + 1 = p + Len(Esc(s))
        BY <1>2, <2>1, EscBounds
    <3>2. QED
        BY <1>1, <3>1 DEF Positions
  <2>3. LeftFrom(s, l, <<>>)
      BY <1>2, LeftNone
  <2>4. QED
      BY <1>1, <1>6, <2>1, <2>2, <2>3
<1>8. ASSUME NEW j \in Nat, j \in N PROVE j + 1 \in N
  <2> SUFFICES ASSUME j + 1 <= l PROVE Good(j + 1)
    <3> HIDE DEF Good
    <3> QED
        OBVIOUS
  <2>1. PICK k \in Nat : k = l - (j + 1) /\ k + 1 = l - j /\ k < l
      BY <1>1
  <2>2. f[Bound(p, s, k + 1)].pos > n /\ LeftFrom(s, k + 1, f[Bound(p, s, k + 1)].value)
      BY <1>1, <1>8, <2>1
  <2>3. PICK q \in Positions : q = Bound(p, s, k)
      BY <1>2, <2>1, EscBounds
  <2>4. PICK c \in Chars : c = s[k + 1]
      BY <1>2, <2>1, EscBounds
  <2>5. Has(w, q, Escaped(c)) /\ Bound(p, s, k + 1) = q + Len(Escaped(c))
      BY <1>2, <2>1, <2>3, <2>4, EscBounds
  <2>6. Len(Escaped(c)) \in Nat
      BY EscapedText, LenProperties DEF Text
  <2>7. CASE q > n
    <3>1. LeftFrom(s, k, <<>>)
        BY <1>2, <2>1, LeftNone
    <3>2. QED
        BY <1>6, <2>1, <2>3, <2>7, <3>1
  <2>8. CASE q + Len(Escaped(c)) <= n + 1
    <3>1. Has(t, q, Escaped(c))
        BY <1>3, <2>5, <2>8, EscapedText, HasCut DEF Positions
    <3>2. /\ q <= Len(t) /\ t[q] # Quote
          /\ Width(t, q) = Len(Escaped(c)) /\ Decoded(t, q) = <<c>>
        BY <3>1, OneRead
    <3>3. PICK r : r = f[q + Width(t, q)]
        OBVIOUS
    <3>4. f[q] = [value |-> Decoded(t, q) \o r.value, pos |-> r.pos]
        BY <1>5, <3>2, <3>3, Zenon DEF Stepwise
    <3>5. r.pos > n /\ LeftFrom(s, k + 1, r.value)
        BY <2>2, <2>5, <3>2, <3>3
    <3>6. LeftFrom(s, k, <<c>> \o r.value)
        BY <1>2, <2>1, <2>4, <3>5, LeftMore
    <3>7. f[q].pos > n /\ LeftFrom(s, k, f[q].value)
        BY <3>2, <3>4, <3>5, <3>6
    <3>8. QED
        BY <2>1, <2>3, <3>7
  <2>9. CASE q <= n /\ q + Len(Escaped(c)) > n + 1
    <3>1. f[q].pos > n /\ f[q].value \in Remnants(c)
        BY <1>3, <1>5, <2>5, <2>9, CutCharacter
    <3>2. LeftFrom(s, k, f[q].value)
        BY <1>2, <2>1, <2>4, <3>1, LeftOne
    <3>3. QED
        BY <2>1, <2>3, <3>1, <3>2
  <2>10. QED
      BY <1>1, <2>6, <2>7, <2>8, <2>9 DEF Positions
<1> HIDE DEF N
<1>9. l \in N
    BY <1>1, <1>7, <1>8, NatSetInduction
<1>10. f[Bound(p, s, 0)].pos > n /\ LeftFrom(s, 0, f[Bound(p, s, 0)].value)
  <2>1. l - l = 0 /\ l <= l
      BY <1>1
  <2>2. QED
      BY <1>9, <2>1 DEF N
<1>11. ReadString(t, p) = f[p + 1]
    BY <1>5 DEF Reads, Positions
<1>12. Bound(p, s, 0) = p + 1
    BY EscBounds
<1>13. f[p + 1].value \in Pieces(s)
    BY <1>10, <1>12, LeftPieces
<1>14. QED
    BY <1>3, <1>10, <1>11, <1>12, <1>13
-----------------------------------------------------------------------------
(* Digits and numbers.                                                      *)
LEMMA DigitsDiffer ==
    /\ \A a, b \in 1..10 : Digit[a] = Digit[b] => a = b
    /\ {"NUL", "-", "+"} \cap Digits = {}
    /\ Digits \subseteq Alphabet
PROOF
<1>1. \A a, b \in 1..10 : Digit[a] = Digit[b] => a = b
    BY DEF Digit
<1>2. \A a \in 1..10 : Digit[a] \notin {"NUL", "-", "+"}
    BY DEF Digit
<1>3. QED
    BY <1>1, <1>2 DEF Digits, Alphabet

Amount(c) == CHOOSE d \in 0..9 : Digit[d + 1] = c

(* A digit counts for its place in Digit.                                   *)
LEMMA AmountOfDigit ==
    /\ \A c \in Digits : Amount(c) \in 0..9 /\ Digit[Amount(c) + 1] = c
    /\ \A d \in 0..9 : Amount(Digit[d + 1]) = d
PROOF
<1>1. ASSUME NEW c \in Digits PROVE Amount(c) \in 0..9 /\ Digit[Amount(c) + 1] = c
  <2>1. PICK a \in 1..10 : Digit[a] = c
      BY DEF Digits
  <2>2. a - 1 \in 0..9 /\ (a - 1) + 1 = a
      OBVIOUS
  <2>3. \E d \in 0..9 : Digit[d + 1] = c
      BY <2>1, <2>2
  <2>4. QED
      BY <2>3 DEF Amount
<1>2. ASSUME NEW d \in 0..9 PROVE Amount(Digit[d + 1]) = d
  <2>1. PICK a \in 0..9 : a = Amount(Digit[d + 1]) /\ Digit[a + 1] = Digit[d + 1]
      BY <1>1, DigitType
  <2>2. a + 1 = d + 1
    <3>1. a + 1 \in 1..10 /\ d + 1 \in 1..10
        OBVIOUS
    <3>2. QED
        BY <2>1, <3>1, DigitsDiffer
  <2>3. QED
      BY <2>1, <2>2
<1>3. QED
    BY <1>1, <1>2

(* What Number chooses for n digits.                                        *)
Evaluates(f, ds, n) ==
    f = [i \in 0..n |-> IF i = 0 THEN 0 ELSE 10 * f[i - 1] + Amount(ds[i])]

(* The function that Number defines by recursion exists,                    *)
LEMMA EvaluationExists ==
    ASSUME NEW ds \in Seq(Digits)
    PROVE  \E f : Evaluates(f, ds, Len(ds))
PROOF
<1>1. PICK n \in Nat : n = Len(ds) /\ \A i \in 1..n : ds[i] \in Digits
    BY LenProperties
<1> DEFINE measure == [i \in 0..n |-> i]
           e(i, f) == IF i = 0 THEN 0 ELSE 10 * f[i - 1] + Amount(ds[i])
           D == [z \in (0..n) \X [0..n -> Nat] |-> e(z[1], z[2])]
<1>2. ASSUME NEW i \in 0..n, NEW f \in [0..n -> Nat] PROVE e(i, f) \in Nat
  <2>1. CASE i = 0
      BY <2>1
  <2>2. CASE i # 0
    <3>1. i - 1 \in 0..n /\ i \in 1..n
        BY <2>2
    <3>2. PICK a \in Nat, b \in 0..9 : a = f[i - 1] /\ b = Amount(ds[i])
        BY <1>1, <3>1, AmountOfDigit
    <3>3. 10 * a + b \in Nat
        OBVIOUS
    <3>4. e(i, f) = 10 * a + b
        BY <2>2, <3>2
    <3>5. QED
        BY <3>3, <3>4
  <2>3. QED
      BY <2>1, <2>2
<1>3. ASSUME NEW i \in 0..n, NEW f, NEW g, \A j \in 0..n : j < i => f[j] = g[j]
      PROVE  e(i, f) = e(i, g)
    BY <1>3
<1> HIDE DEF e
<1>4. D \in [(0..n) \X [0..n -> Nat] -> Nat]
    BY <1>2
<1>5. \A i \in 0..n : \A f \in [0..n -> Nat] : D[<<i, f>>] = e(i, f)
    OBVIOUS
<1>6. measure \in [0..n -> Nat] /\ Nat # {}
    OBVIOUS
<1>7. Local(D, measure, 0..n, Nat)
  <2>1. SUFFICES ASSUME NEW i \in 0..n, NEW f \in [0..n -> Nat], NEW g \in [0..n -> Nat],
                        \A j \in 0..n : measure[j] < measure[i] => f[j] = g[j]
                 PROVE  D[<<i, f>>] = D[<<i, g>>]
      BY DEF Local
  <2>2. \A j \in 0..n : j < i => f[j] = g[j]
      BY <2>1
  <2>3. e(i, f) = e(i, g)
      BY <1>3, <2>2
  <2>4. QED
      BY <1>5, <2>3
<1> HIDE DEF D, measure
<1>8. Solvable(D, 0..n, Nat)
    BY <1>4, <1>6, <1>7, RecursionExists
<1>9. PICK f \in [0..n -> Nat] : f = [i \in 0..n |-> D[<<i, f>>]]
    BY <1>8 DEF Solvable
<1>10. f = [i \in 0..n |-> e(i, f)]
    BY <1>5, <1>9
<1>11. Evaluates(f, ds, n)
    BY <1>10 DEF e, Evaluates
<1>12. QED
    BY <1>1, <1>11

(* and is the only one that satisfies its equation.                         *)
LEMMA EvaluationUnique ==
    ASSUME NEW s, NEW t, NEW n \in Nat, NEW m \in Nat, NEW f, NEW g,
           n <= m, \A i \in 1..n : s[i] = t[i], Evaluates(f, s, n), Evaluates(g, t, m)
    PROVE  f[n] = g[n]
PROOF
<1> DEFINE N == {k \in Nat : k <= n => f[k] = g[k]}
<1>1. 0 \in N
  <2>1. 0 \in 0..n /\ 0 \in 0..m
      OBVIOUS
  <2>2. f[0] = 0 /\ g[0] = 0
      BY <2>1 DEF Evaluates
  <2>3. QED
      BY <2>2
<1>2. ASSUME NEW k \in Nat, k \in N PROVE k + 1 \in N
  <2>1. PICK j \in Nat : j = k + 1
      OBVIOUS
  <2>2. SUFFICES ASSUME j <= n PROVE f[j] = g[j]
      BY <2>1
  <2>3. f[j] = IF j = 0 THEN 0 ELSE 10 * f[j - 1] + Amount(s[j])
      BY <2>2 DEF Evaluates
  <2>4. g[j] = IF j = 0 THEN 0 ELSE 10 * g[j - 1] + Amount(t[j])
      BY <2>2 DEF Evaluates
  <2>5. j # 0 /\ j - 1 = k /\ s[j] = t[j] /\ f[k] = g[k]
      BY <1>2, <2>1, <2>2
  <2>6. QED
      BY <2>3, <2>4, <2>5
<1> HIDE DEF N
<1>3. n \in N
    BY <1>1, <1>2, NatSetInduction
<1>4. QED
    BY <1>3 DEF N

(* Number, without digits                                                   *)
LEMMA NumberEmpty == Number(<<>>) = 0
PROOF
<1>1. Len(<<>>) = 0 /\ <<>> \in Seq(Digits)
    BY EmptySeq
<1>2. \E f : Evaluates(f, <<>>, 0)
    BY <1>1, EvaluationExists
<1>3. Number(<<>>) = (CHOOSE f : Evaluates(f, <<>>, 0))[0]
    BY <1>1 DEF Number, Evaluates, Amount
<1>4. PICK f : Evaluates(f, <<>>, 0) /\ Number(<<>>) = f[0]
    BY <1>2, <1>3
<1>5. QED
    BY <1>4 DEF Evaluates

(* and with one more.                                                       *)
LEMMA NumberAppend ==
    ASSUME NEW ds \in Seq(Digits), NEW c \in Digits
    PROVE  Number(Append(ds, c)) = 10 * Number(ds) + Amount(c)
PROOF
<1>1. PICK n \in Nat : n = Len(ds)
    BY LenProperties
<1>2. PICK es \in Seq(Digits) : es = Append(ds, c)
    BY AppendProperties
<1>3. PICK m \in Nat : m = n + 1
    OBVIOUS
<1>4. Len(es) = m /\ es[m] = c /\ \A k \in 1..n : ds[k] = es[k]
    BY <1>1, <1>2, <1>3, AppendProperties
<1>5. PICK f : Evaluates(f, ds, n) /\ Number(ds) = f[n]
  <2>1. Number(ds) = (CHOOSE f : Evaluates(f, ds, n))[n]
      BY <1>1 DEF Number, Evaluates, Amount
  <2>2. QED
      BY <1>1, <2>1, EvaluationExists
<1>6. PICK g : Evaluates(g, es, m) /\ Number(es) = g[m]
  <2>1. Number(es) = (CHOOSE x : Evaluates(x, es, m))[m]
      BY <1>4 DEF Number, Evaluates, Amount
  <2>2. QED
      BY <1>4, <2>1, EvaluationExists
<1>7. f[n] = g[n]
    BY <1>3, <1>4, <1>5, <1>6, EvaluationUnique
<1>8. g[m] = 10 * g[m - 1] + Amount(es[m])
  <2>1. m \in 0..m /\ m # 0
      BY <1>3
  <2>2. QED
      BY <1>6, <2>1 DEF Evaluates
<1>9. m - 1 = n
    BY <1>3
<1>10. QED
    BY <1>2, <1>4, <1>5, <1>6, <1>7, <1>8, <1>9

(* Digits are read as a number without a sign.                              *)
LEMMA NumberType == \A ds \in Seq(Digits) : Number(ds) \in Nat
PROOF
<1> DEFINE T == {ds \in Seq(Digits) : Number(ds) \in Nat}
<1>1. <<>> \in T
    BY NumberEmpty, EmptySeq
<1>2. ASSUME NEW ds \in Seq(Digits), ds \in T, NEW c \in Digits PROVE Append(ds, c) \in T
  <2>1. PICK a \in Nat, b \in 0..9 : a = Number(ds) /\ b = Amount(c)
      BY <1>2, AmountOfDigit
  <2>2. 10 * a + b \in Nat
      OBVIOUS
  <2>3. Number(Append(ds, c)) = 10 * a + b
      BY <2>1, NumberAppend
  <2>4. QED
      BY <2>2, <2>3, AppendProperties
<1> HIDE DEF T
<1>3. \A ds \in Seq(Digits) : ds \in T
    BY <1>1, <1>2, SeqSetInduction
<1>4. QED
    BY <1>3 DEF T

(* A number that lost digits is no larger.                                  *)
LEMMA NumberPrefix ==
    \A ds \in Seq(Digits) : \A k \in 0..Len(ds) : Number(SubSeq(ds, 1, k)) \in 0..Number(ds)
PROOF
<1> DEFINE Good(ds) == \A k \in 0..Len(ds) : Number(SubSeq(ds, 1, k)) \in 0..Number(ds)
           T == {ds \in Seq(Digits) : Good(ds)}
<1>1. <<>> \in T
  <2>1. \A k \in 0..Len(<<>>) : SubSeq(<<>>, 1, k) = <<>>
      BY EmptySeq, SubSeqEmpty
  <2>2. Good(<<>>)
    <3>1. 0 \in 0..0
        OBVIOUS
    <3>2. QED
        BY <2>1, <3>1, NumberEmpty
  <2>3. QED
      BY <2>2, EmptySeq
<1>2. ASSUME NEW ds \in Seq(Digits), ds \in T, NEW c \in Digits PROVE Append(ds, c) \in T
  <2>1. PICK es \in Seq(Digits) : es = Append(ds, c)
      BY AppendProperties
  <2>2. PICK n \in Nat : n = Len(ds)
      BY LenProperties
  <2>3. Len(es) = n + 1 /\ \A i \in 1..n : es[i] = ds[i]
      BY <2>1, <2>2, AppendProperties
  <2>4. PICK a \in Nat, b \in 0..9 : a = Number(ds) /\ b = Amount(c)
      BY AmountOfDigit, NumberType
  <2>5. Number(es) = 10 * a + b /\ Number(es) \in Nat
      BY <2>1, <2>4, NumberAppend, NumberType
  <2>6. ASSUME NEW k \in 0..Len(es) PROVE Number(SubSeq(es, 1, k)) \in 0..Number(es)
    <3>1. CASE k = n + 1
      <4>1. SubSeq(es, 1, k) = es
          BY <2>3, <3>1, SubSeqFull
      <4>2. Number(es) \in 0..Number(es)
          BY <2>5
      <4>3. QED
          BY <4>1, <4>2
    <3>2. CASE k # n + 1
      <4>1. k \in Nat /\ k <= n /\ k <= Len(es) /\ k <= Len(ds)
          BY <2>2, <2>3, <3>2
      <4>2. SubSeq(es, 1, k) = SubSeq(ds, 1, k)
          BY <2>1, <4>1, PrefixOfAppend
      <4>3. k \in 0..Len(ds)
          BY <2>2, <4>1
      <4>4. PICK x \in 0..a : x = Number(SubSeq(ds, 1, k))
          BY <1>2, <2>4, <4>3
      <4>5. x \in 0..(10 * a + b)
          OBVIOUS
      <4>6. QED
          BY <2>5, <4>2, <4>4, <4>5
    <3>3. QED
        BY <3>1, <3>2
  <2>7. QED
      BY <2>1, <2>6
<1> HIDE DEF T
<1>3. \A ds \in Seq(Digits) : ds \in T
    BY <1>1, <1>2, SeqSetInduction
<1>4. QED
    BY <1>3 DEF T

(* Numeral satisfies its recursive equation.                                *)
LEMMA NumeralIs ==
    ASSUME NEW n \in Nat
    PROVE  Numeral[n] = IF n < 10 THEN <<Digit[n + 1]>>
                        ELSE Numeral[n \div 10] \o <<Digit[(n % 10) + 1]>>
PROOF
<1>1. Numeral = [m \in Nat |-> IF m < 10 THEN <<Digit[m + 1]>>
                               ELSE Numeral[m \div 10] \o <<Digit[(m % 10) + 1]>>]
  <2> DEFINE Num(f) == f = [m \in Nat |-> IF m < 10 THEN <<Digit[m + 1]>>
                               ELSE f[m \div 10] \o <<Digit[(m % 10) + 1]>>]
  <2>1. \E f : Num(f)
      BY NumeralExists
  <2>2. Numeral = CHOOSE f : Num(f)
      BY DEF Numeral
  <2> HIDE DEF Num
  <2>3. Num(Numeral)
      BY <2>1, <2>2
  <2>4. QED
      BY <2>3 DEF Num
<1>2. QED
    BY <1>1

(* The decimal digits of n, which Number reads as n.                        *)
Denotes(u, n) == u \in Seq(Digits) /\ Len(u) # 0 /\ Number(u) = n

(* The numeral of n is read as n.                                           *)
LEMMA NumeralNames == \A n \in Nat : Denotes(Numeral[n], n)
PROOF
<1> DEFINE N == {n \in Nat : \A m \in 0..n : Denotes(Numeral[m], m)}
<1>1. ASSUME NEW n \in Nat, n < 10 PROVE Denotes(Numeral[n], n)
  <2>1. PICK c \in Digits : c = Digit[n + 1]
      BY <1>1, DigitType
  <2>2. Numeral[n] = <<c>>
      BY <1>1, <2>1, NumeralIs
  <2>3. <<c>> = Append(<<>>, c) /\ <<>> \in Seq(Digits)
      BY EmptySeq
  <2>4. Number(<<c>>) = 10 * 0 + Amount(c)
      BY <2>3, NumberAppend, NumberEmpty
  <2>5. Amount(c) = n
      BY <1>1, <2>1, AmountOfDigit
  <2>6. <<c>> \in Seq(Digits) /\ Len(<<c>>) # 0
      OBVIOUS
  <2>7. QED
      BY <2>2, <2>4, <2>5, <2>6 DEF Denotes
<1>2. 0 \in N
    BY <1>1
<1>3. ASSUME NEW n \in Nat, n \in N PROVE n + 1 \in N
  <2>1. PICK k \in Nat : k = n + 1
      OBVIOUS
  <2>2. CASE k < 10
      BY <1>1, <1>3, <2>1, <2>2
  <2>3. CASE ~(k < 10)
    <3>1. PICK q \in Nat, r \in 0..9 : q = k \div 10 /\ r = k % 10 /\ k = 10 * q + r
        OBVIOUS
    <3>2. q \in 0..n
        BY <2>1, <2>3, <3>1
    <3>3. PICK u \in Seq(Digits) : u = Numeral[q] /\ Number(u) = q
        BY <1>3, <3>2 DEF Denotes
    <3>4. PICK c \in Digits : c = Digit[r + 1] /\ Amount(c) = r
        BY AmountOfDigit, DigitType
    <3>5. Numeral[k] = u \o <<c>>
        BY <2>3, <3>1, <3>3, <3>4, NumeralIs
    <3>6. Append(u, c) = u \o <<c>>
        BY AppendIsConcat
    <3>7. Number(Append(u, c)) = k
        BY <3>1, <3>3, <3>4, NumberAppend
    <3>8. Append(u, c) \in Seq(Digits) /\ Len(Append(u, c)) # 0
        BY AppendProperties, LenProperties
    <3>9. Denotes(Numeral[k], k)
        BY <3>5, <3>6, <3>7, <3>8 DEF Denotes
    <3>10. QED
        BY <1>3, <2>1, <3>9
  <2>4. QED
      BY <2>2, <2>3
<1> HIDE DEF N
<1>4. \A n \in Nat : n \in N
    BY <1>2, <1>3, NatSetInduction
<1>5. QED
    BY <1>4 DEF N
-----------------------------------------------------------------------------
(* Reading a number.                                                        *)
LEMMA PastIs ==
    ASSUME NEW t \in Text, NEW p \in Positions, NEW S, NEW q \in p..p + Len(t),
           At(t, q) \notin S, \A r \in p..q - 1 : At(t, r) \in S
    PROVE  Past(t, p, S) = q
PROOF
<1>1. Len(t) \in Nat /\ p \in Nat
    BY LenProperties DEF Text, Positions
<1> DEFINE Found(x) == At(t, x) \notin S /\ \A r \in p..x - 1 : At(t, r) \in S
<1>2. ASSUME NEW x \in p..p + Len(t), Found(x) PROVE x = q
  <2>1. CASE x < q
    <3>1. x \in p..q - 1
        BY <1>1, <2>1
    <3>2. QED
        BY <1>2, <3>1
  <2>2. CASE q < x
    <3>1. q \in p..x - 1
        BY <1>1, <2>2
    <3>2. QED
        BY <1>2, <3>1
  <2>3. QED
      BY <1>1, <2>1, <2>2
<1>3. Found(q)
    OBVIOUS
<1>4. Past(t, p, S) = CHOOSE x \in p..p + Len(t) : Found(x)
    BY DEF Past
<1> HIDE DEF Found
<1>5. QED
    BY <1>2, <1>3, <1>4

(* A piece is the subsequence at its place.                                 *)
LEMMA HasSubSeq ==
    ASSUME NEW t \in Text, NEW p \in Positions, NEW u \in Text, Has(t, p, u)
    PROVE  SubSeq(t, p, p + Len(u) - 1) = u
PROOF
<1>1. /\ Len(t) \in Nat /\ p \in Nat /\ p # 0
      /\ \A i \in 1..Len(t) : t[i] \in Alphabet
    BY LenProperties DEF Text, Positions
<1>2. PICK n \in Nat : n = Len(u)
    BY LenProperties DEF Text
<1>3. PICK e \in Int : e = p + n - 1
    BY <1>1
<1>4. \A i \in p..e : t[i] \in Alphabet
    BY <1>1, <1>2, <1>3 DEF Has
<1>5. /\ SubSeq(t, p, e) \in Text
      /\ Len(SubSeq(t, p, e)) = IF p <= e THEN e - p + 1 ELSE 0
      /\ \A i \in 1..e - p + 1 : SubSeq(t, p, e)[i] = t[p + i - 1]
    BY <1>1, <1>4, SubSeqProperties DEF Text
<1>6. e - p + 1 = n
    BY <1>1, <1>3
<1>7. PICK v \in Text : v = SubSeq(t, p, e)
    BY <1>5
<1>8. Len(v) = n
    BY <1>1, <1>3, <1>5, <1>6, <1>7
<1>9. \A i \in 1..n : t[p + i - 1] = u[i]
    BY <1>2 DEF Has
<1>10. \A i \in 1..n : v[i] = u[i]
    BY <1>5, <1>6, <1>7, <1>9
<1>11. v = u
    BY <1>2, <1>8, <1>10, SeqEqual DEF Text
<1>12. QED
    BY <1>2, <1>3, <1>7, <1>11

(* Digits are characters.                                                   *)
LEMMA DigitsText == Seq(Digits) \subseteq Text
PROOF BY DigitsDiffer, SeqMonotonic DEF Text

(* Digits, up to where they end.                                            *)
LEMMA DigitsRead ==
    ASSUME NEW t \in Text, NEW p \in Positions, NEW ds \in Seq(Digits), Has(t, p, ds),
           At(t, p + Len(ds)) \notin Digits
    PROVE  /\ Past(t, p, Digits) = p + Len(ds)
           /\ SubSeq(t, p, p + Len(ds) - 1) = ds
PROOF
<1>1. Len(t) \in Nat /\ p \in Nat /\ p # 0
    BY LenProperties DEF Text, Positions
<1>2. PICK n \in Nat : n = Len(ds) /\ \A i \in 1..n : ds[i] \in Digits
    BY LenProperties
<1>3. SubSeq(t, p, p + n - 1) = ds
    BY <1>2, HasSubSeq, DigitsText
<1>4. PICK q \in p..p + Len(t) : q = p + n
  <2>1. p + n <= Len(t) + 1
      BY <1>2 DEF Has
  <2>2. QED
      BY <1>1, <2>1
<1>5. ASSUME NEW r \in p..q - 1 PROVE At(t, r) \in Digits
  <2>1. PICK i \in 1..n : r = p + i - 1
    <3>1. r - (p - 1) \in 1..n /\ r = p + (r - (p - 1)) - 1
        BY <1>1, <1>4
    <3>2. QED
        BY <3>1
  <2>2. t[r] = ds[i] /\ r <= Len(t)
    <3>1. p + n <= Len(t) + 1 /\ t[p + i - 1] = ds[i]
        BY <1>2 DEF Has
    <3>2. QED
        BY <1>1, <2>1, <3>1
  <2>3. QED
      BY <1>2, <2>2 DEF At
<1>6. Past(t, p, Digits) = q
    BY <1>2, <1>4, <1>5, PastIs
<1>7. QED
    BY <1>2, <1>3, <1>4, <1>6

(* The digits that are left of a number in a text that was cut.             *)
LEMMA CutPiece ==
    ASSUME NEW w \in Text, NEW n \in 0..Len(w), NEW p \in Positions, NEW u \in Text,
           Has(w, p, u), p <= n + 1, NEW k \in Nat, p + k = n + 1, k <= Len(u)
    PROVE  Has(SubSeq(w, 1, n), p, SubSeq(u, 1, k))
PROOF
<1>1. Len(w) \in Nat /\ n \in Nat /\ n <= Len(w) /\ p \in Nat /\ p # 0 /\ Len(u) \in Nat
    BY LenProperties DEF Text, Positions
<1>2. Len(SubSeq(w, 1, n)) = n /\ \A i \in 1..n : SubSeq(w, 1, n)[i] = w[i]
    BY <1>1, PrefixProperties DEF Text
<1>3. Len(SubSeq(u, 1, k)) = k /\ \A i \in 1..k : SubSeq(u, 1, k)[i] = u[i]
    BY PrefixProperties DEF Text
<1>4. \A i \in 1..k : w[p + i - 1] = u[i] /\ p + i - 1 \in 1..n
    BY <1>1 DEF Has
<1>5. \A i \in 1..k : SubSeq(w, 1, n)[p + i - 1] = SubSeq(u, 1, k)[i]
    BY <1>2, <1>3, <1>4
<1>6. PICK a, b : a = SubSeq(w, 1, n) /\ b = SubSeq(u, 1, k)
    OBVIOUS
<1>7. Has(a, p, b)
    BY <1>1, <1>2, <1>3, <1>5, <1>6 DEF Has
<1>8. QED
    BY <1>6, <1>7

(* A number is written in characters.                                       *)
LEMMA DecimalText ==
    ASSUME NEW i \in Int
    PROVE  Decimal(i) \in Text
PROOF
<1>1. \A n \in Nat : Numeral[n] \in Text
    BY NumeralNames, DigitsText DEF Denotes
<1>2. CASE i < 0
  <2>1. PICK u \in Text : u = Numeral[-i]
      BY <1>1, <1>2
  <2>2. "-" \in Alphabet
      BY DEF Alphabet
  <2>3. PICK m \in Text : m = <<"-">>
    <3>1. <<"-">> \in Text
        BY <2>2 DEF Text
    <3>2. QED
        BY <3>1
  <2>4. m \o u \in Text
      BY ConcatProperties DEF Text
  <2>5. QED
      BY <1>2, <2>1, <2>3, <2>4 DEF Decimal
<1>3. CASE ~(i < 0)
    BY <1>1, <1>3 DEF Decimal
<1>4. QED
    BY <1>2, <1>3

(* A number is its sign and the numeral of its amount.                      *)
LEMMA IntParts ==
    ASSUME NEW t, NEW p, NEW first, NEW past,
           first = IF At(t, p) \in {"-", "+"} THEN p + 1 ELSE p,
           past = Past(t, first, Digits)
    PROVE  /\ ReadInt(t, p).pos = past
           /\ past = first => ReadInt(t, p).value = None
           /\ past # first => ReadInt(t, p).value = IF At(t, p) = "-"
                                                   THEN -Number(SubSeq(t, first, past - 1))
                                                   ELSE Number(SubSeq(t, first, past - 1))
           /\ ReadInt(t, p) = [value |-> ReadInt(t, p).value, pos |-> past]
PROOF
<1>1. PICK x, y : /\ x = Number(SubSeq(t, first, past - 1))
                  /\ y = IF past = first THEN None ELSE IF At(t, p) = "-" THEN -x ELSE x
    OBVIOUS
<1>2. ReadInt(t, p) = [value |-> y, pos |-> past]
    BY <1>1, Zenon DEF ReadInt
<1>3. QED
    BY <1>1, <1>2

(* A number that is there in full, and ends there.                          *)
LEMMA IntRead ==
    ASSUME NEW t \in Text, NEW p \in Positions, NEW i \in Int, Has(t, p, Decimal(i)),
           At(t, p + Len(Decimal(i))) \notin Digits
    PROVE  ReadInt(t, p) = [value |-> i, pos |-> p + Len(Decimal(i))]
PROOF
<1>1. Len(t) \in Nat /\ p \in Nat /\ p # 0 /\ p + 1 \in Positions
    BY LenProperties DEF Text, Positions
<1>2. PICK n \in Nat : n = IF i < 0 THEN -i ELSE i
    OBVIOUS
<1>3. PICK ds \in Seq(Digits) : ds = Numeral[n] /\ Len(ds) # 0 /\ Number(ds) = n
    BY NumeralNames DEF Denotes
<1>4. PICK l \in Nat : l = Len(ds) /\ l # 0 /\ ds[1] \in Digits
    BY <1>3, LenProperties
<1>5. CASE i < 0
  <2>1. PICK m \in Text : m = <<"-">>
    <3>1. "-" \in Alphabet
        BY DEF Alphabet
    <3>2. <<"-">> \in Text
        BY <3>1 DEF Text
    <3>3. QED
        BY <3>2
  <2>2. Decimal(i) = m \o ds
      BY <1>2, <1>3, <1>5, <2>1 DEF Decimal
  <2>3. ds \in Text
      BY DigitsText
  <2>4. Len(m) = 1
      BY <2>1
  <2>5. Len(m \o ds) = 1 + l
    <3>1. Len(m \o ds) = Len(m) + Len(ds)
        BY <2>3, ConcatProperties DEF Text
    <3>2. QED
        BY <1>4, <2>4, <3>1
  <2>6. Has(t, p, m) /\ Has(t, p + 1, ds)
    <3>1. Has(t, p, m) /\ Has(t, p + Len(m), ds)
        BY <2>2, <2>3, HasConcat DEF Positions
    <3>2. QED
        BY <2>4, <3>1
  <2>7. p <= Len(t) /\ t[p] = "-"
    <3>1. Has(t, p, <<"-">>)
        BY <2>1, <2>6
    <3>2. QED
        BY <3>1, HasOne DEF Positions
  <2>8. PICK q \in Positions : q = p + 1
      BY <1>1
  <2>9. At(t, p) = "-"
      BY <2>7 DEF At
  <2>10. At(t, q + l) \notin Digits
    <3>1. p + (1 + l) = q + l
        BY <1>1, <2>8
    <3>2. QED
        BY <2>2, <2>5, <3>1
  <2>11. Past(t, q, Digits) = q + l /\ SubSeq(t, q, q + l - 1) = ds
      BY <1>4, <2>6, <2>8, <2>10, DigitsRead
  <2>12. PICK e \in Nat : e = q + l /\ e # q
    <3>1. q + l # q /\ q + l \in Nat
        BY <1>4 DEF Positions
    <3>2. QED
        BY <3>1
  <2>13. ReadInt(t, p) = [value |-> -n, pos |-> e]
    <3>1. q = IF At(t, p) \in {"-", "+"} THEN p + 1 ELSE p
        BY <2>8, <2>9
    <3>2. e = Past(t, q, Digits) /\ Number(SubSeq(t, q, e - 1)) = n
      <4>1. q + l = e /\ q + l - 1 = e - 1
          BY <2>12 DEF Positions
      <4>2. Past(t, q, Digits) = e /\ SubSeq(t, q, e - 1) = ds
          BY <2>11, <4>1
      <4>3. QED
          BY <1>3, <4>2
    <3>3. QED
        BY <2>9, <2>12, <3>1, <3>2, IntParts
  <2>14. QED
      BY <1>1, <1>2, <1>4, <1>5, <2>2, <2>5, <2>8, <2>12, <2>13
<1>6. CASE ~(i < 0)
  <2>1. Decimal(i) = ds
      BY <1>2, <1>3, <1>6 DEF Decimal
  <2>2. p <= Len(t) /\ t[p] = ds[1]
    <3>1. p + l <= Len(t) + 1 /\ t[p + 1 - 1] = ds[1]
        BY <1>4, <2>1 DEF Has
    <3>2. p + 1 - 1 = p
        BY <1>1
    <3>3. QED
        BY <1>1, <1>4, <3>1, <3>2
  <2>3. At(t, p) \notin {"-", "+"}
      BY <1>4, <2>2, DigitsDiffer DEF At
  <2>4. Past(t, p, Digits) = p + l /\ SubSeq(t, p, p + l - 1) = ds
      BY <1>4, <2>1, DigitsRead
  <2>5. PICK e \in Nat : e = p + l /\ e # p
    <3>1. p + l # p /\ p + l \in Nat
        BY <1>1, <1>4
    <3>2. QED
        BY <3>1
  <2>6. ReadInt(t, p) = [value |-> n, pos |-> e]
    <3>1. p = IF At(t, p) \in {"-", "+"} THEN p + 1 ELSE p
        BY <2>3
    <3>2. e = Past(t, p, Digits) /\ Number(SubSeq(t, p, e - 1)) = n
      <4>1. p + l = e /\ p + l - 1 = e - 1
          BY <1>1, <2>5
      <4>2. Past(t, p, Digits) = e /\ SubSeq(t, p, e - 1) = ds
          BY <2>4, <4>1
      <4>3. QED
          BY <1>3, <4>2
    <3>3. QED
        BY <2>3, <2>5, <3>1, <3>2, IntParts
  <2>7. QED
      BY <1>1, <1>2, <1>4, <1>6, <2>1, <2>5, <2>6
<1>7. QED
    BY <1>5, <1>6

(* Past the end there is no number.                                         *)
LEMMA IntPast ==
    ASSUME NEW t \in Text, NEW p \in Positions, p > Len(t)
    PROVE  ReadInt(t, p) = [value |-> None, pos |-> p]
PROOF
<1>1. Len(t) \in Nat /\ p \in Nat /\ p # 0
    BY LenProperties DEF Text, Positions
<1>2. At(t, p) = "NUL"
    BY <1>1 DEF At
<1>3. At(t, p) \notin Digits /\ p \in p..p + Len(t) /\ \A r \in p..p - 1 : At(t, r) \in Digits
    BY <1>1, <1>2, DigitsDiffer
<1>4. Past(t, p, Digits) = p
    BY <1>3, PastIs
<1>5. QED
    BY <1>2, <1>4 DEF ReadInt

(* What can be left of a number is no larger, of a single digit the digit.  *)
LEMMA LeadingIs ==
    ASSUME NEW n \in Nat
    PROVE  n \in Leading(n) /\ Leading(n) \subseteq 0..n /\ (n < 10 => Leading(n) = {n})
PROOF
<1>1. PICK ds \in Seq(Digits) : ds = Numeral[n] /\ Len(ds) # 0 /\ Number(ds) = n
    BY NumeralNames DEF Denotes
<1>2. Len(ds) \in Nat
    BY LenProperties
<1>3. SubSeq(ds, 1, Len(ds)) = ds /\ Len(ds) \in 1..Len(ds)
    BY <1>2, <1>1, SubSeqFull
<1>4. Leading(n) = {Number(SubSeq(ds, 1, k)) : k \in 1..Len(ds)}
    BY <1>1 DEF Leading
<1>5. n \in Leading(n)
    BY <1>1, <1>3, <1>4
<1>6. Leading(n) \subseteq 0..n
  <2>1. \A k \in 1..Len(ds) : k \in 0..Len(ds)
      BY <1>2
  <2>2. QED
      BY <1>1, <1>4, <2>1, NumberPrefix
<1>7. ASSUME n < 10 PROVE Leading(n) = {n}
  <2>1. ds = <<Digit[n + 1]>>
      BY <1>1, <1>7, NumeralIs
  <2>2. Len(ds) = 1
      BY <2>1
  <2>3. Leading(n) = {Number(SubSeq(ds, 1, Len(ds)))}
      BY <1>4, <2>2
  <2>4. QED
      BY <1>1, <1>3, <2>3
<1>8. QED
    BY <1>5, <1>6, <1>7

(* A number is one that can be left of it.                                  *)
LEMMA ShortenedIs == ASSUME NEW i \in Int PROVE i \in Shortened(i)
PROOF
<1>1. CASE i < 0
  <2>1. PICK m \in Nat : m = -i /\ -m = i
      BY <1>1
  <2>2. m \in Leading(m)
      BY LeadingIs
  <2>3. QED
      BY <1>1, <2>1, <2>2 DEF Shortened
<1>2. CASE ~(i < 0)
    BY <1>2, LeadingIs DEF Shortened
<1>3. QED
    BY <1>1, <1>2

(* A number that was cut: none, or one that lost digits.                    *)
LEMMA IntCut ==
    ASSUME NEW w \in Text, NEW n \in 0..Len(w), NEW p \in Positions, NEW i \in Int,
           Has(w, p, Decimal(i)), p <= n + 1, p + Len(Decimal(i)) > n + 1
    PROVE  LET r == ReadInt(SubSeq(w, 1, n), p)
           IN  r.pos = n + 1 /\ (r.value = None \/ r.value \in Shortened(i))
PROOF
<1>1. Len(w) \in Nat /\ n \in Nat /\ n <= Len(w) /\ p \in Nat /\ p # 0 /\ p + 1 \in Positions
    BY LenProperties DEF Text, Positions
<1>2. PICK t \in Text : t = SubSeq(w, 1, n) /\ Len(t) = n
    BY <1>1, PrefixProperties DEF Text
<1>3. \A j \in 1..n : t[j] = w[j]
    BY <1>1, <1>2, PrefixProperties DEF Text
<1>4. n + 1 \in Positions /\ At(t, n + 1) = "NUL" /\ At(t, n + 1) \notin Digits
    BY <1>1, <1>2, DigitsDiffer DEF At, Positions
<1>5. CASE p = n + 1
  <2>1. p > Len(t)
      BY <1>1, <1>2, <1>5
  <2>2. ReadInt(t, p) = [value |-> None, pos |-> p]
      BY <2>1, IntPast
  <2>3. QED
      BY <1>1, <1>2, <1>5, <2>2
<1>6. ASSUME NEW q \in Positions, q <= n + 1, NEW ds \in Seq(Digits), Has(w, q, ds),
             q + Len(ds) > n + 1
      PROVE  /\ Past(t, q, Digits) = n + 1
             /\ q # n + 1 => \E k \in 1..Len(ds) : SubSeq(t, q, n) = SubSeq(ds, 1, k)
  <2>1. PICK k \in Nat : q + k = n + 1 /\ k <= Len(ds)
    <3>1. n + 1 - q \in Nat /\ q + (n + 1 - q) = n + 1 /\ n + 1 - q <= Len(ds)
        BY <1>1, <1>6, LenProperties DEF Positions
    <3>2. QED
        BY <3>1
  <2>2. PICK es \in Seq(Digits) : es = SubSeq(ds, 1, k) /\ Len(es) = k
      BY <2>1, PrefixProperties
  <2>3. Has(t, q, es)
      BY <1>2, <1>6, <2>1, <2>2, CutPiece, DigitsText
  <2>4. Past(t, q, Digits) = q + Len(es) /\ SubSeq(t, q, q + Len(es) - 1) = es
    <3>1. At(t, q + Len(es)) \notin Digits
        BY <1>4, <2>1, <2>2
    <3>2. QED
        BY <2>3, <3>1, DigitsRead
  <2>5. q + Len(es) - 1 = n /\ (q # n + 1 => k \in 1..Len(ds))
      BY <1>1, <2>1, <2>2, LenProperties DEF Positions
  <2>6. QED
      BY <2>1, <2>2, <2>4, <2>5
<1>7. PICK m \in Nat : m = IF i < 0 THEN -i ELSE i
    OBVIOUS
<1>8. PICK ds \in Seq(Digits) : ds = Numeral[m] /\ Len(ds) # 0 /\ Number(ds) = m
    BY NumeralNames DEF Denotes
<1>9. PICK l \in Nat : l = Len(ds) /\ l # 0 /\ ds[1] \in Digits
    BY <1>8, LenProperties
<1>10. CASE i < 0 /\ p # n + 1
  <2>1. PICK o \in Text : o = <<"-">>
    <3>1. "-" \in Alphabet
        BY DEF Alphabet
    <3>2. <<"-">> \in Text
        BY <3>1 DEF Text
    <3>3. QED
        BY <3>2
  <2>2. Decimal(i) = o \o ds
      BY <1>7, <1>8, <1>10, <2>1 DEF Decimal
  <2>3. ds \in Text
      BY DigitsText
  <2>4. Len(o) = 1
      BY <2>1
  <2>5. Len(o \o ds) = 1 + l
    <3>1. Len(o \o ds) = Len(o) + Len(ds)
        BY <2>3, ConcatProperties DEF Text
    <3>2. QED
        BY <1>9, <2>4, <3>1
  <2>6. Has(w, p, o) /\ Has(w, p + 1, ds)
    <3>1. Has(w, p, o) /\ Has(w, p + Len(o), ds)
        BY <2>2, <2>3, HasConcat DEF Positions
    <3>2. QED
        BY <2>4, <3>1
  <2>7. t[p] = "-"
    <3>1. Has(w, p, <<"-">>)
        BY <2>1, <2>6
    <3>2. w[p] = "-"
        BY <3>1, HasOne DEF Positions
    <3>3. p \in 1..n
        BY <1>1, <1>10
    <3>4. QED
        BY <1>3, <3>2, <3>3
  <2>8. At(t, p) = "-"
      BY <1>1, <1>2, <1>10, <2>7 DEF At
  <2>9. PICK q \in Positions : q = p + 1
      BY <1>1
  <2>10. /\ Past(t, q, Digits) = n + 1
         /\ q # n + 1 => \E k \in 1..Len(ds) : SubSeq(t, q, n) = SubSeq(ds, 1, k)
    <3>1. q <= n + 1 /\ q + Len(ds) > n + 1
        BY <1>1, <1>9, <1>10, <2>2, <2>5, <2>9
    <3>2. QED
        BY <1>6, <2>6, <2>9, <3>1
  <2>11. ReadInt(t, p).pos = n + 1 /\ (n + 1 = q => ReadInt(t, p).value = None)
         /\ (n + 1 # q => ReadInt(t, p).value = -Number(SubSeq(t, q, n + 1 - 1)))
    <3>1. q = IF At(t, p) \in {"-", "+"} THEN p + 1 ELSE p
        BY <2>8, <2>9
    <3>2. PICK past : past = n + 1 /\ past = Past(t, q, Digits)
        BY <2>10
    <3>3. QED
        BY <2>8, <3>1, <3>2, IntParts
  <2>12. q # n + 1 => -Number(SubSeq(t, q, n)) \in Shortened(i)
    <3>1. SUFFICES ASSUME q # n + 1 PROVE -Number(SubSeq(t, q, n)) \in Shortened(i)
        OBVIOUS
    <3>2. PICK k \in 1..Len(ds) : SubSeq(t, q, n) = SubSeq(ds, 1, k)
        BY <2>10, <3>1
    <3>3. Number(SubSeq(ds, 1, k)) \in Leading(m)
        BY <1>8 DEF Leading
    <3>4. -i = m
        BY <1>7, <1>10
    <3>5. QED
        BY <1>10, <3>2, <3>3, <3>4 DEF Shortened
  <2>13. PICK r : r = ReadInt(t, p)
      OBVIOUS
  <2>14. n + 1 - 1 = n
      BY <1>1
  <2>15. r.pos = n + 1 /\ (r.value = None \/ r.value \in Shortened(i))
      BY <2>11, <2>12, <2>13, <2>14
  <2>16. QED
      BY <1>2, <2>13, <2>15
<1>11. CASE ~(i < 0) /\ p # n + 1
  <2>1. Decimal(i) = ds /\ m = i
      BY <1>7, <1>8, <1>11 DEF Decimal
  <2>2. t[p] \in Digits
    <3>1. w[p + 1 - 1] = ds[1]
        BY <1>9, <2>1 DEF Has
    <3>2. p + 1 - 1 = p /\ p \in 1..n
        BY <1>1, <1>11
    <3>3. QED
        BY <1>3, <1>9, <3>1, <3>2
  <2>3. At(t, p) \notin {"-", "+"}
      BY <1>1, <1>2, <1>11, <2>2, DigitsDiffer DEF At
  <2>4. PICK k \in 1..Len(ds) : SubSeq(t, p, n) = SubSeq(ds, 1, k)
      BY <1>6, <1>11, <2>1
  <2>5. Past(t, p, Digits) = n + 1
      BY <1>6, <2>1
  <2>6. Number(SubSeq(ds, 1, k)) \in Shortened(i)
      BY <1>8, <1>11, <2>1 DEF Shortened, Leading
  <2>7. n + 1 - 1 = n
      BY <1>1
  <2>8. /\ ReadInt(t, p).pos = n + 1
        /\ ReadInt(t, p).value = None \/ ReadInt(t, p).value = Number(SubSeq(t, p, n))
      BY <2>3, <2>5, <2>7 DEF ReadInt
  <2>9. PICK r : r = ReadInt(t, p)
      OBVIOUS
  <2>10. r.pos = n + 1 /\ (r.value = None \/ r.value \in Shortened(i))
      BY <2>4, <2>6, <2>8, <2>9
  <2>11. QED
      BY <1>2, <2>9, <2>10
<1>12. QED
    BY <1>5, <1>10, <1>11
=============================================================================
