------------------------- MODULE SequenceInduction -------------------------
(***************************************************************************)
(* Induction over numbers and sequences, as facts about sets: a set of     *)
(* numbers that has 0 and with each number its successor has all of them.  *)
(* From it, what the library's FlattenSeq computes, which joins the pieces *)
(* of a text and the rules of a config.                                    *)
(***************************************************************************)
EXTENDS Integers, SequencesExt, SequenceTheorems, WellFoundedInduction, TLAPS

Less == {p \in Nat \X Nat : p[1] < p[2]}

(* The order on Nat that the induction is over.                             *)
LEMMA NatWellOrdered ==
    ASSUME NEW T \in SUBSET Nat, T # {}
    PROVE  \E n \in T : \A m \in T : n <= m
PROOF
<1>1. OpToRel(<, Nat) = Less
    BY DEF OpToRel, Less
<1>2. IsWellFoundedOn(Less, Nat)
    BY <1>1, NatLessThanWellFounded
<1>3. PICK n \in T : \A m \in T : <<m, n>> \notin Less
    BY <1>2, WFMin
<1>4. ASSUME NEW m \in Nat, m < n PROVE <<m, n>> \in Less
    BY <1>4 DEF Less
<1>5. \A m \in T : ~(m < n)
    BY <1>3, <1>4
<1>6. QED
    BY <1>5

(* Induction, for a set of numbers in place of a predicate.                 *)
LEMMA NatSetInduction ==
    ASSUME NEW T, 0 \in T, \A n \in Nat : n \in T => n + 1 \in T
    PROVE  \A n \in Nat : n \in T
PROOF
<1> SUFFICES ASSUME Nat \ T # {} PROVE FALSE
    OBVIOUS
<1>1. PICK n \in Nat \ T : \A m \in Nat \ T : n <= m
    BY NatWellOrdered
<1>2. n # 0 /\ n - 1 \in Nat
    BY <1>1
<1>3. n - 1 \in T
    BY <1>1, <1>2
<1>4. QED
    BY <1>1, <1>2, <1>3

(* A set of sequences that has the empty one, and with each sequence all    *)
(* that are longer by one element, has all of them.                         *)
LEMMA SeqSetInduction ==
    ASSUME NEW S, NEW T, <<>> \in T,
           \A s \in Seq(S) : s \in T => \A x \in S : Append(s, x) \in T
    PROVE  \A s \in Seq(S) : s \in T
PROOF
<1> DEFINE N == {n \in Nat : \A s \in Seq(S) : Len(s) = n => s \in T}
<1>1. 0 \in N
    BY EmptySeq
<1>2. ASSUME NEW n \in Nat, n \in N PROVE n + 1 \in N
  <2>1. SUFFICES ASSUME NEW s \in Seq(S), Len(s) = n + 1 PROVE s \in T
      BY <1>2
  <2>2. s # <<>>
      BY <2>1, EmptySeq
  <2>3. PICK t \in Seq(S), x \in S : s = Append(t, x)
      BY <2>2, SequenceEmptyOrAppend
  <2>4. Len(t) = n
      BY <2>1, <2>3, AppendProperties, LenProperties
  <2>5. t \in T
      BY <1>2, <2>4
  <2>6. QED
      BY <2>3, <2>5
<1> HIDE DEF N
<1>3. \A n \in Nat : n \in N
    BY <1>1, <1>2, NatSetInduction
<1>4. QED
    BY <1>3, LenProperties DEF N
-----------------------------------------------------------------------------
(* What FlattenSeq chooses for the first n sequences.                       *)
Flattens(f, seqs, n) ==
    f = [i \in 1..n |-> IF i = 1 THEN seqs[i] ELSE f[i - 1] \o seqs[i]]

(* What FlattenSeq chooses among exists.                                    *)
LEMMA FlatteningExists == ASSUME NEW seqs, NEW n \in Nat PROVE \E f : Flattens(f, seqs, n)
PROOF
<1> DEFINE N == {k \in Nat : \E f : Flattens(f, seqs, k)}
<1>1. 0 \in N
  <2> DEFINE f == [i \in 1..0 |-> seqs[i]]
  <2>1. Flattens(f, seqs, 0)
      BY DEF Flattens
  <2>2. QED
      BY <2>1
<1>2. ASSUME NEW k \in Nat, k \in N PROVE k + 1 \in N
  <2>1. PICK f : Flattens(f, seqs, k)
      BY <1>2
  <2> DEFINE last == IF k = 0 THEN seqs[1] ELSE f[k] \o seqs[k + 1]
             g    == [i \in 1..(k + 1) |-> IF i = k + 1 THEN last ELSE f[i]]
  <2>2. ASSUME NEW i \in 1..(k + 1)
        PROVE  g[i] = IF i = 1 THEN seqs[i] ELSE g[i - 1] \o seqs[i]
    <3>1. CASE i = k + 1
        BY <3>1
    <3>2. CASE i # k + 1
      <4>1. i \in 1..k /\ g[i] = f[i] /\ (i # 1 => i - 1 \in 1..k /\ g[i - 1] = f[i - 1])
          BY <3>2
      <4>2. f[i] = IF i = 1 THEN seqs[i] ELSE f[i - 1] \o seqs[i]
          BY <2>1, <4>1 DEF Flattens
      <4>3. QED
          BY <4>1, <4>2
    <3>3. QED
        BY <3>1, <3>2
  <2>3. g = [i \in 1..(k + 1) |-> g[i]]
      OBVIOUS
  <2> HIDE DEF g
  <2>4. Flattens(g, seqs, k + 1)
      BY <2>2, <2>3 DEF Flattens
  <2>5. QED
      BY <2>4
<1> HIDE DEF N
<1>3. \A k \in Nat : k \in N
    BY <1>1, <1>2, NatSetInduction
<1>4. QED
    BY <1>3 DEF N

(* It does not depend on the sequences behind the n-th.                     *)
LEMMA FlatteningUnique ==
    ASSUME NEW s, NEW t, NEW n \in Nat, NEW m \in Nat, NEW f, NEW g,
           n <= m, \A k \in 1..n : s[k] = t[k], Flattens(f, s, n), Flattens(g, t, m)
    PROVE  \A k \in 1..n : f[k] = g[k]
PROOF
<1> DEFINE N == {k \in Nat : k \in 1..n => f[k] = g[k]}
<1>1. 0 \in N
    OBVIOUS
<1>2. ASSUME NEW k \in Nat, k \in N PROVE k + 1 \in N
  <2>1. SUFFICES ASSUME k + 1 \in 1..n PROVE f[k + 1] = g[k + 1]
      OBVIOUS
  <2>2. f[k + 1] = IF k + 1 = 1 THEN s[k + 1] ELSE f[(k + 1) - 1] \o s[k + 1]
      BY <2>1 DEF Flattens
  <2>3. k + 1 \in 1..m
      BY <2>1
  <2>4. g[k + 1] = IF k + 1 = 1 THEN t[k + 1] ELSE g[(k + 1) - 1] \o t[k + 1]
      BY <2>3 DEF Flattens
  <2>5. s[k + 1] = t[k + 1] /\ (k + 1) - 1 = k
      BY <2>1
  <2>6. CASE k = 0
      BY <2>2, <2>4, <2>5, <2>6
  <2>7. CASE k # 0
    <3>1. k \in 1..n
        BY <2>1, <2>7
    <3>2. f[k] = g[k]
        BY <1>2, <3>1
    <3>3. QED
        BY <2>2, <2>4, <2>5, <2>7, <3>2
  <2>8. QED
      BY <2>6, <2>7
<1> HIDE DEF N
<1>3. \A k \in Nat : k \in N
    BY <1>1, <1>2, NatSetInduction
<1>4. QED
    BY <1>3 DEF N

(* Flattening a longer sequence goes on where the shorter one ended.        *)
LEMMA FlattenLonger ==
    ASSUME NEW s, NEW t, NEW n \in Nat \ {0}, Len(s) = n, Len(t) = n + 1,
           \A k \in 1..n : s[k] = t[k]
    PROVE  FlattenSeq(t) = FlattenSeq(s) \o t[n + 1]
PROOF
<1>1. PICK m \in Nat : m = n + 1
    OBVIOUS
<1>2. (\E f : Flattens(f, s, n)) /\ \E f : Flattens(f, t, m)
    BY FlatteningExists
<1>3. PICK f : Flattens(f, s, n) /\ FlattenSeq(s) = f[n]
  <2>1. FlattenSeq(s) = (CHOOSE f : Flattens(f, s, n))[n]
      BY DEF FlattenSeq, Flattens
  <2>2. QED
      BY <1>2, <2>1
<1>4. PICK g : Flattens(g, t, m) /\ FlattenSeq(t) = g[m]
  <2>1. FlattenSeq(t) = (CHOOSE x : Flattens(x, t, m))[m]
      BY <1>1 DEF FlattenSeq, Flattens
  <2>2. QED
      BY <1>2, <2>1
<1>5. g[m] = IF m = 1 THEN t[m] ELSE g[m - 1] \o t[m]
  <2>1. m \in 1..m
      BY <1>1
  <2>2. QED
      BY <1>4, <2>1 DEF Flattens
<1>6. \A k \in 1..n : f[k] = g[k]
  <2>1. n <= m
      BY <1>1
  <2>2. QED
      BY <1>3, <1>4, <2>1, FlatteningUnique
<1>7. n \in 1..n /\ m # 1 /\ m - 1 = n
    BY <1>1
<1>8. QED
    BY <1>1, <1>3, <1>4, <1>5, <1>6, <1>7

(* The two equations that determine FlattenSeq.                             *)
LEMMA FlattenEmpty == FlattenSeq(<<>>) = <<>>
PROOF BY EmptySeq DEF FlattenSeq

(* FlattenSeq, one element at a time from the end.                          *)
LEMMA FlattenAppend ==
    ASSUME NEW S, NEW s \in Seq(Seq(S)), NEW x \in Seq(S)
    PROVE  FlattenSeq(Append(s, x)) = FlattenSeq(s) \o x
PROOF
<1>1. PICK n \in Nat : n = Len(s)
    BY LenProperties
<1>2. PICK t : t = Append(s, x)
    OBVIOUS
<1>3. Len(t) = n + 1 /\ t[n + 1] = x /\ \A k \in 1..n : s[k] = t[k]
    BY <1>1, <1>2, AppendProperties, LenProperties
<1>4. CASE n = 0
  <2>1. s = <<>> /\ Len(t) = 1
    <3>1. Len(t) = 1
        BY <1>3, <1>4
    <3>2. QED
        BY <1>1, <1>4, <3>1, EmptySeq
  <2>2. (\E f : Flattens(f, t, 1)) /\ FlattenSeq(t) = (CHOOSE f : Flattens(f, t, 1))[1]
    <3>1. \E f : Flattens(f, t, 1)
        BY FlatteningExists
    <3>2. QED
        BY <2>1, <3>1 DEF FlattenSeq, Flattens
  <2>3. FlattenSeq(t) = t[1]
    <3>1. PICK f : Flattens(f, t, 1) /\ FlattenSeq(t) = f[1]
        BY <2>2
    <3>2. QED
        BY <3>1 DEF Flattens
  <2>4. <<>> \o x = x
      BY ConcatEmptySeq
  <2>5. QED
      BY <1>2, <1>3, <1>4, <2>1, <2>3, <2>4, FlattenEmpty
<1>5. CASE n # 0
  <2>1. FlattenSeq(t) = FlattenSeq(s) \o t[n + 1]
    <3>1. n \in Nat \ {0} /\ Len(s) = n
        BY <1>1, <1>5
    <3>2. Len(t) = n + 1 /\ \A k \in 1..n : s[k] = t[k]
        BY <1>3
    <3>3. QED
        BY ONLY <3>1, <3>2, FlattenLonger, Zenon
  <2>2. QED
      BY <1>2, <1>3, <2>1
<1>6. QED
    BY <1>4, <1>5
(* Sequences of elements of S flatten to one.                               *)
LEMMA FlattenType == ASSUME NEW S PROVE \A s \in Seq(Seq(S)) : FlattenSeq(s) \in Seq(S)
PROOF
<1> DEFINE T == {s \in Seq(Seq(S)) : FlattenSeq(s) \in Seq(S)}
<1>1. <<>> \in T
    BY FlattenEmpty, EmptySeq
<1>2. ASSUME NEW s \in Seq(Seq(S)), s \in T, NEW x \in Seq(S) PROVE Append(s, x) \in T
  <2>1. FlattenSeq(Append(s, x)) = FlattenSeq(s) \o x
      BY FlattenAppend
  <2>2. FlattenSeq(s) \in Seq(S)
      BY <1>2
  <2>3. FlattenSeq(s) \o x \in Seq(S) /\ Append(s, x) \in Seq(Seq(S))
      BY <2>2, ConcatProperties, AppendProperties
  <2>4. QED
      BY <2>1, <2>3
<1> HIDE DEF T
<1>3. \A s \in Seq(Seq(S)) : s \in T
    BY <1>1, <1>2, SeqSetInduction
<1>4. QED
    BY <1>3 DEF T

(* A single sequence is what its flattening is.                             *)
LEMMA FlattenOne == ASSUME NEW S, NEW x \in Seq(S) PROVE FlattenSeq(<<x>>) = x
PROOF
<1>1. PICK e \in Seq(Seq(S)) : e = <<>>
    BY EmptySeq
<1>2. Append(e, x) = <<x>> /\ FlattenSeq(e) = <<>>
    BY <1>1, FlattenEmpty, AppendProperties
<1>3. FlattenSeq(Append(e, x)) = FlattenSeq(e) \o x
    BY FlattenAppend
<1>4. QED
    BY <1>2, <1>3, ConcatEmptySeq

(* FlattenSeq, one element at a time from the front.                        *)
LEMMA FlattenCons ==
    ASSUME NEW S, NEW x \in Seq(S)
    PROVE  \A s \in Seq(Seq(S)) : FlattenSeq(<<x>> \o s) = x \o FlattenSeq(s)
PROOF
<1> DEFINE T == {s \in Seq(Seq(S)) : FlattenSeq(<<x>> \o s) = x \o FlattenSeq(s)}
<1>1. PICK o \in Seq(Seq(S)) : o = <<x>>
  <2>1. <<x>> \in Seq(Seq(S))
      OBVIOUS
  <2>2. QED
      BY <2>1
<1>2. <<>> \in T
  <2>1. PICK e \in Seq(Seq(S)) : e = <<>>
      BY EmptySeq
  <2>2. o \o e = o /\ x \o <<>> = x
      BY <2>1, ConcatEmptySeq
  <2>3. QED
      BY <1>1, <2>1, <2>2, FlattenEmpty, FlattenOne
<1>3. ASSUME NEW s \in Seq(Seq(S)), s \in T, NEW y \in Seq(S) PROVE Append(s, y) \in T
  <2>1. /\ Append(s, y) \in Seq(Seq(S))
        /\ o \o s \in Seq(Seq(S))
        /\ o \o Append(s, y) = Append(o \o s, y)
    <3>1. <<y>> \in Seq(Seq(S))
        OBVIOUS
    <3>2. Append(s, y) = s \o <<y>> /\ Append(o \o s, y) = (o \o s) \o <<y>>
        BY AppendIsConcat, ConcatProperties
    <3>3. o \o (s \o <<y>>) = (o \o s) \o <<y>>
        BY <3>1, ConcatAssociative
    <3>4. QED
        BY <3>2, <3>3, AppendProperties, ConcatProperties
  <2>2. FlattenSeq(Append(o \o s, y)) = FlattenSeq(o \o s) \o y
      BY <2>1, FlattenAppend
  <2>3. FlattenSeq(o \o s) = x \o FlattenSeq(s) /\ FlattenSeq(s) \in Seq(S)
      BY <1>1, <1>3, FlattenType
  <2>4. (x \o FlattenSeq(s)) \o y = x \o (FlattenSeq(s) \o y)
      BY <2>3, ConcatAssociative
  <2>5. FlattenSeq(Append(s, y)) = FlattenSeq(s) \o y
      BY FlattenAppend
  <2>6. QED
      BY <1>1, <2>1, <2>2, <2>3, <2>4, <2>5
<1> HIDE DEF T
<1>4. \A s \in Seq(Seq(S)) : s \in T
    BY <1>2, <1>3, SeqSetInduction
<1>5. QED
    BY <1>4 DEF T

(* A prefix of a sequence.                                                  *)
LEMMA PrefixProperties ==
    ASSUME NEW S, NEW s \in Seq(S), NEW k \in Nat, k <= Len(s)
    PROVE  /\ SubSeq(s, 1, k) \in Seq(S)
           /\ Len(SubSeq(s, 1, k)) = k
           /\ \A i \in 1..k : SubSeq(s, 1, k)[i] = s[i]
PROOF
<1>1. Len(s) \in Nat
    BY LenProperties
<1>2. QED
    BY <1>1

(* A prefix that is longer by one piece.                                    *)
LEMMA PrefixAppend ==
    ASSUME NEW S, NEW s \in Seq(S), NEW k \in Nat, NEW m \in Nat, m = k + 1, m <= Len(s)
    PROVE  SubSeq(s, 1, m) = Append(SubSeq(s, 1, k), s[m])
PROOF
<1>1. Len(s) \in Nat
    BY LenProperties
<1>2. /\ SubSeq(s, 1, m) \in Seq(S) /\ Len(SubSeq(s, 1, m)) = m
      /\ \A i \in 1..m : SubSeq(s, 1, m)[i] = s[i]
    BY <1>1
<1>3. /\ SubSeq(s, 1, k) \in Seq(S) /\ Len(SubSeq(s, 1, k)) = k
      /\ \A i \in 1..k : SubSeq(s, 1, k)[i] = s[i]
    BY <1>1
<1>4. PICK x \in S : x = s[m]
    BY <1>1
<1>5. PICK u \in Seq(S) : u = SubSeq(s, 1, k)
    BY <1>3
<1>6. /\ Append(u, x) \in Seq(S) /\ Len(Append(u, x)) = m
      /\ \A i \in 1..k : Append(u, x)[i] = u[i]
      /\ Append(u, x)[m] = x
    BY <1>3, <1>5, AppendProperties
<1>7. \A i \in 1..m : SubSeq(s, 1, m)[i] = Append(u, x)[i]
    BY <1>2, <1>3, <1>4, <1>5, <1>6
<1>8. SubSeq(s, 1, m) = Append(u, x)
    BY <1>2, <1>6, <1>7, SeqEqual
<1>9. QED
    BY <1>4, <1>5, <1>8

(* The prefixes that Append leaves alone.                                   *)
LEMMA PrefixOfAppend ==
    ASSUME NEW S, NEW s \in Seq(S), NEW x \in S, NEW k \in Nat, k <= Len(s)
    PROVE  SubSeq(Append(s, x), 1, k) = SubSeq(s, 1, k)
PROOF
<1>1. Len(s) \in Nat
    BY LenProperties
<1>2. PICK t \in Seq(S) : t = Append(s, x)
    BY AppendProperties
<1>3. Len(t) = Len(s) + 1 /\ \A i \in 1..Len(s) : t[i] = s[i]
    BY <1>2, AppendProperties
<1>4. /\ SubSeq(t, 1, k) \in Seq(S) /\ Len(SubSeq(t, 1, k)) = k
      /\ \A i \in 1..k : SubSeq(t, 1, k)[i] = t[i]
    BY <1>1, <1>3, PrefixProperties
<1>5. /\ SubSeq(s, 1, k) \in Seq(S) /\ Len(SubSeq(s, 1, k)) = k
      /\ \A i \in 1..k : SubSeq(s, 1, k)[i] = s[i]
    BY PrefixProperties
<1>6. \A i \in 1..k : SubSeq(t, 1, k)[i] = SubSeq(s, 1, k)[i]
    BY <1>1, <1>3, <1>4, <1>5
<1>7. QED
    BY <1>2, <1>4, <1>5, <1>6, SeqEqual

-----------------------------------------------------------------------------
(* Recursion over numbers, and over whatever a measure maps to numbers: a   *)
(* definition whose value at x is determined by the values where the        *)
(* measure is smaller has a solution.                                       *)
Local(D, measure, S, V) ==
    \A x \in S : \A f, g \in [S -> V] :
        (\A y \in S : measure[y] < measure[x] => f[y] = g[y]) => D[<<x, f>>] = D[<<x, g>>]

Solvable(D, S, V) == \E f \in [S -> V] : f = [x \in S |-> D[<<x, f>>]]

(* f solves D as far as the measure is below n.                             *)
Solves(f, D, measure, S, n) == \A x \in S : measure[x] < n => f[x] = D[<<x, f>>]

(* Two solutions agree as far as they are solutions.                        *)
Determined(D, measure, S, V) ==
    \A m \in Nat : \A f, g \in [S -> V] :
        Solves(f, D, measure, S, m) /\ Solves(g, D, measure, S, m) =>
            \A x \in S : measure[x] < m => f[x] = g[x]

(* Up to n, a recursion on the numbers has a solution,                      *)
LEMMA SolutionExists ==
    ASSUME NEW S, NEW V, NEW measure \in [S -> Nat], NEW D \in [S \X [S -> V] -> V],
           V # {}, Local(D, measure, S, V)
    PROVE  \A n \in Nat : \E f \in [S -> V] : Solves(f, D, measure, S, n)
PROOF
<1> DEFINE N == {n \in Nat : \E f \in [S -> V] : Solves(f, D, measure, S, n)}
<1>1. 0 \in N
  <2>1. PICK v \in V : TRUE
      OBVIOUS
  <2>2. [x \in S |-> v] \in [S -> V]
      OBVIOUS
  <2>3. Solves([x \in S |-> v], D, measure, S, 0)
      BY DEF Solves
  <2>4. QED
      BY <2>2, <2>3
<1>2. ASSUME NEW n \in Nat, n \in N PROVE n + 1 \in N
  <2>1. PICK f \in [S -> V] : Solves(f, D, measure, S, n)
      BY <1>2
  <2> DEFINE g == [x \in S |-> D[<<x, f>>]]
  <2>2. g \in [S -> V]
      OBVIOUS
  <2>3. \A x \in S : measure[x] < n => g[x] = f[x]
      BY <2>1 DEF Solves
  <2>4. ASSUME NEW x \in S, measure[x] < n + 1 PROVE g[x] = D[<<x, g>>]
    <3>1. \A y \in S : measure[y] < measure[x] => f[y] = g[y]
        BY <2>3, <2>4
    <3>2. D[<<x, f>>] = D[<<x, g>>]
        BY <2>2, <3>1 DEF Local
    <3>3. QED
        BY <3>2
  <2>5. Solves(g, D, measure, S, n + 1)
      BY <2>4 DEF Solves
  <2> HIDE DEF g
  <2>6. QED
      BY <2>2, <2>5
<1> HIDE DEF N
<1>3. \A n \in Nat : n \in N
    BY <1>1, <1>2, NatSetInduction
<1>4. QED
    BY <1>3 DEF N

(* and only one;                                                            *)
LEMMA SolutionUnique ==
    ASSUME NEW S, NEW V, NEW measure \in [S -> Nat], NEW D \in [S \X [S -> V] -> V],
           Local(D, measure, S, V)
    PROVE  Determined(D, measure, S, V)
PROOF
<1> SUFFICES ASSUME NEW m \in Nat, NEW f \in [S -> V], NEW g \in [S -> V],
                    Solves(f, D, measure, S, m), Solves(g, D, measure, S, m)
             PROVE  \A x \in S : measure[x] < m => f[x] = g[x]
    BY DEF Determined
<1> DEFINE N == {n \in Nat : \A x \in S : measure[x] < n /\ measure[x] < m => f[x] = g[x]}
<1>1. 0 \in N
    OBVIOUS
<1>2. ASSUME NEW n \in Nat, n \in N PROVE n + 1 \in N
  <2>1. SUFFICES ASSUME NEW x \in S, measure[x] < n + 1, measure[x] < m PROVE f[x] = g[x]
      OBVIOUS
  <2>2. \A y \in S : measure[y] < measure[x] => f[y] = g[y]
      BY <1>2, <2>1
  <2>3. D[<<x, f>>] = D[<<x, g>>]
      BY <2>2 DEF Local
  <2>4. QED
      BY <2>1, <2>3 DEF Solves
<1> HIDE DEF N
<1>3. m \in N
    BY <1>1, <1>2, NatSetInduction
<1>4. QED
    BY <1>3 DEF N

(* so there is one function that satisfies it everywhere.                   *)
LEMMA RecursionExists ==
    ASSUME NEW S, NEW V, NEW measure \in [S -> Nat], NEW D \in [S \X [S -> V] -> V],
           V # {}, Local(D, measure, S, V)
    PROVE  Solvable(D, S, V)
PROOF
<1> DEFINE h == [n \in Nat |-> CHOOSE f \in [S -> V] : Solves(f, D, measure, S, n)]
<1>1. Determined(D, measure, S, V)
    BY SolutionUnique
<1>2. \A n \in Nat : h[n] \in [S -> V] /\ Solves(h[n], D, measure, S, n)
    BY SolutionExists
<1> HIDE DEF h
<1> DEFINE F == [x \in S |-> h[measure[x] + 1][x]]
<1>3. \A x \in S : measure[x] \in Nat /\ measure[x] + 1 \in Nat
    OBVIOUS
<1>4. F \in [S -> V]
    BY <1>2, <1>3
<1>5. ASSUME NEW x \in S PROVE F[x] = D[<<x, F>>]
  <2>1. PICK n \in Nat : n = measure[x] + 1
      BY <1>3
  <2>2. F[x] = D[<<x, h[n]>>]
    <3>1. Solves(h[n], D, measure, S, n) /\ measure[x] < n
        BY <1>2, <1>3, <2>1
    <3>2. h[n][x] = D[<<x, h[n]>>]
        BY <3>1 DEF Solves
    <3>3. QED
        BY <2>1, <3>2
  <2>3. ASSUME NEW y \in S, measure[y] < measure[x] PROVE F[y] = h[n][y]
    <3>1. PICK m \in Nat : m = measure[y] + 1
        BY <1>3
    <3>2. PICK f \in [S -> V] : f = h[m] /\ Solves(f, D, measure, S, m)
        BY <1>2
    <3>3. PICK g \in [S -> V] : g = h[n] /\ Solves(g, D, measure, S, n)
        BY <1>2
    <3>4. \A z \in S : measure[z] \in Nat /\ (measure[z] < m => measure[z] < n)
        BY <1>3, <2>1, <2>3, <3>1
    <3>5. Solves(g, D, measure, S, m)
        BY <3>3, <3>4 DEF Solves
    <3>6. \A z \in S : measure[z] < m => f[z] = g[z]
        BY <1>1, <3>2, <3>5 DEF Determined
    <3>7. measure[y] < m
        BY <1>3, <3>1
    <3>8. QED
        BY <3>1, <3>2, <3>3, <3>6, <3>7
  <2>4. h[n] \in [S -> V]
      BY <1>2
  <2>5. D[<<x, F>>] = D[<<x, h[n]>>]
      BY <1>4, <2>3, <2>4 DEF Local
  <2>6. QED
      BY <2>2, <2>5
<1>6. F = [x \in S |-> D[<<x, F>>]]
    BY <1>5
<1>7. QED
    BY <1>4, <1>6 DEF Solvable
=============================================================================
