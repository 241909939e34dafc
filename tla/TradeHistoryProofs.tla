------------------------ MODULE TradeHistoryProofs ------------------------
(***************************************************************************)
(* That a coin's history is what its record claims, and that a page of it  *)
(* is cut of one list, for any traffic, faults, page sizes and caps.       *)
(*                                                                         *)
(* StoreInv: what is stored is a list the index may name, newest first and *)
(* capped, and covers what the record claims; and a pass under way knows   *)
(* what it still has to store. While it pages, its gap lies above its      *)
(* cursor; before it reads, its window holds what succeeded from there on; *)
(* before it merges, what it has read or the list does; and before it      *)
(* writes the index, the new list covers the record's claim and its own.   *)
(*                                                                         *)
(* PageInv: what a page has, and what the chunks its index named still     *)
(* give it, are together the page of the list as it was then. A chunk's    *)
(* number is never written again, so a chunk that is there is that chunk.  *)
(***************************************************************************)
EXTENDS TradeHistory, FiniteSetTheorems, SequenceTheorems, WellFoundedInduction, TLAPS

-----------------------------------------------------------------------------
(* Sequences of sequences, one after the other.                            *)

\* A set that holds 0, and with each natural the next, holds them all.
LEMMA SetInduction ==
    ASSUME NEW S, 0 \in S, \A n \in Nat : n \in S => n + 1 \in S
    PROVE  \A n \in Nat : n \in S
<1> DEFINE T == {n \in Nat : n \notin S}
<1> SUFFICES ASSUME T # {} PROVE FALSE
  OBVIOUS
<1>1. IsWellFoundedOn(OpToRel(<, Nat), Nat)
  BY NatLessThanWellFounded
<1>2. T \subseteq Nat
  OBVIOUS
<1> HIDE DEF T
<1>3. PICK m \in T : \A k \in T : <<k, m>> \notin OpToRel(<, Nat)
  BY <1>1, <1>2, WFMin
<1>4. m \in Nat /\ m \notin S /\ \A k \in Nat : k < m => k \in S
  BY <1>2, <1>3 DEF T, OpToRel
<1> QED BY <1>4

Cat(s, t) == s \o t

\* s begins with what t begins with.
Begins(s, t, k, l) == \A i \in 1..k : i <= l /\ s[i] = t[i]

FlatEq(g, s, k) == g = [i \in 1..k |-> IF i = 1 THEN s[i] ELSE Cat(g[i - 1], s[i])]

\* The first k of some sequences, put together.
Flats(s, k) == CHOOSE g : FlatEq(g, s, k)

LEMMA FlatsExist ==
    ASSUME NEW s, NEW k \in Nat
    PROVE  FlatEq(Flats(s, k), s, k)
<1> DEFINE N == {n \in Nat : \E g : FlatEq(g, s, n)}
<1>1. 0 \in N
  <2> DEFINE g == [i \in 1..0 |-> <<>>]
  <2>1. FlatEq(g, s, 0)
    BY DEF FlatEq
  <2> QED BY <2>1
<1>2. ASSUME NEW n \in Nat, n \in N PROVE n + 1 \in N
  <2>1. PICK g : FlatEq(g, s, n)
    BY <1>2
  <2> DEFINE h == [i \in 1..n + 1 |-> IF i = 1 THEN s[i] ELSE Cat(g[i - 1], s[i])]
  <2>2. \A i \in 1..n : h[i] = g[i]
    <3>1. \A i \in 1..n : g[i] = IF i = 1 THEN s[i] ELSE Cat(g[i - 1], s[i])
      BY <2>1 DEF FlatEq
    <3> QED BY <3>1
  <2>3. \A i \in 1..n + 1 : h[i] = IF i = 1 THEN s[i] ELSE Cat(h[i - 1], s[i])
    <3>1. \A i \in 1..n + 1 : i # 1 => i - 1 \in 1..n
      OBVIOUS
    <3>2. \A i \in 1..n + 1 : h[i] = IF i = 1 THEN s[i] ELSE Cat(g[i - 1], s[i])
      OBVIOUS
    <3> HIDE DEF h
    <3> QED BY <2>2, <3>1, <3>2
  <2>4. h = [i \in 1..n + 1 |-> h[i]]
    OBVIOUS
  <2> HIDE DEF h
  <2>5. FlatEq(h, s, n + 1)
    BY <2>3, <2>4 DEF FlatEq
  <2> QED BY <2>5
<1>3. k \in N
  <2> HIDE DEF N
  <2> QED BY <1>1, <1>2, SetInduction
<1> QED BY <1>3 DEF Flats

\* What FlattenSeq computes of the first k does not depend on the rest.
LEMMA FlatsSame ==
    ASSUME NEW s, NEW t, NEW k \in Nat, NEW l \in Nat, Begins(s, t, k, l)
    PROVE  \A i \in 1..k : Flats(s, k)[i] = Flats(t, l)[i]
<1> DEFINE g == Flats(s, k)
           h == Flats(t, l)
           N == {n \in Nat : n \in 1..k => g[n] = h[n]}
<1>1. \A i \in 1..k : g[i] = IF i = 1 THEN s[i] ELSE Cat(g[i - 1], s[i])
  BY FlatsExist DEF FlatEq
<1>2. \A i \in 1..l : h[i] = IF i = 1 THEN t[i] ELSE Cat(h[i - 1], t[i])
  BY FlatsExist DEF FlatEq
<1> HIDE DEF g, h
<1>3. ASSUME NEW n \in Nat, n \in N PROVE n + 1 \in N
  <2> SUFFICES ASSUME n + 1 \in 1..k PROVE g[n + 1] = h[n + 1]
    OBVIOUS
  <2>1. n + 1 \in 1..l /\ s[n + 1] = t[n + 1]
    BY DEF Begins
  <2>2. CASE n = 0
    BY <1>1, <1>2, <2>1, <2>2
  <2>3. CASE n # 0
    <3>1. n \in 1..k /\ g[n] = h[n]
      BY <1>3, <2>3
    <3>2. g[n + 1] = Cat(g[n], s[n + 1]) /\ h[n + 1] = Cat(h[n], t[n + 1])
      BY <1>1, <1>2, <2>1, <2>3
    <3> QED BY <2>1, <3>1, <3>2
  <2> QED BY <2>2, <2>3
<1>4. 0 \in N
  OBVIOUS
<1>5. \A n \in Nat : n \in N
  <2> HIDE DEF N
  <2> QED BY <1>3, <1>4, SetInduction
<1> QED BY <1>5 DEF g, h

LEMMA FlattenIs ==
    ASSUME NEW s
    PROVE  FlattenSeq(s) = IF Len(s) = 0 THEN s ELSE Flats(s, Len(s))[Len(s)]
BY DEF FlattenSeq, Flats, FlatEq, Cat

LEMMA FlattenNone == FlattenSeq(<<>>) = <<>>
BY FlattenIs

\* FlattenSeq, one sequence more.
LEMMA FlattenAppend ==
    ASSUME NEW S, NEW s \in Seq(Seq(S)), NEW x \in Seq(S)
    PROVE  FlattenSeq(Append(s, x)) = FlattenSeq(s) \o x
<1> DEFINE t == Append(s, x)
           n == Len(s)
<1>1. n \in Nat /\ t \in Seq(Seq(S)) /\ Len(t) = n + 1 /\ t[n + 1] = x /\ \A i \in 1..n : t[i] = s[i]
  BY AppendProperties
<1> HIDE DEF t
<1>2. FlattenSeq(t) = Flats(t, n + 1)[n + 1]
  BY <1>1, FlattenIs
<1>3. \A i \in 1..n + 1 : Flats(t, n + 1)[i] = IF i = 1 THEN t[i] ELSE Cat(Flats(t, n + 1)[i - 1], t[i])
  BY <1>1, FlatsExist, SMTT(60) DEF FlatEq
<1>4. CASE n = 0
  <2>1. s = <<>> /\ FlattenSeq(s) = <<>>
    BY <1>4, EmptySeq, FlattenIs
  <2>2. FlattenSeq(t) = x
    BY <1>1, <1>2, <1>3, <1>4
  <2> QED BY <2>1, <2>2, ConcatEmptySeq DEF t
<1>5. CASE n # 0
  <2>1. Flats(t, n + 1)[n + 1] = Cat(Flats(t, n + 1)[n], x)
    BY <1>1, <1>3, <1>5
  <2>2. Flats(t, n + 1)[n] = Flats(s, n)[n]
    <3>1. Begins(s, t, n, n + 1)
      BY <1>1 DEF Begins
    <3>2. n \in Nat /\ n + 1 \in Nat
      BY <1>1
    <3> HIDE DEF n
    <3>3. \A i \in 1..n : Flats(s, n)[i] = Flats(t, n + 1)[i]
      BY <3>1, <3>2, FlatsSame
    <3> QED BY <1>1, <1>5, <3>3
  <2>3. FlattenSeq(s) = Flats(s, n)[n]
    BY <1>5, FlattenIs
  <2> QED BY <1>1, <1>2, <2>1, <2>2, <2>3 DEF t, Cat
<1> QED BY <1>4, <1>5

LEMMA LastApart ==
    ASSUME NEW S, NEW q \in Seq(S), NEW n \in Nat, Len(q) = n + 1
    PROVE  \E f \in Seq(S), x \in S : q = Append(f, x) /\ Len(f) = n
<1>1. q # <<>>
  BY EmptySeq
<1>2. PICK f \in Seq(S), x \in S : q = Append(f, x)
  BY <1>1, SequenceEmptyOrAppend
<1>3. Len(f) = n
  BY <1>2, AppendProperties, LenProperties
<1> QED BY <1>2, <1>3

LEMMA FlattenType ==
    ASSUME NEW S, NEW s \in Seq(Seq(S))
    PROVE  FlattenSeq(s) \in Seq(S)
<1> DEFINE N == {n \in Nat : \A q \in Seq(Seq(S)) : Len(q) = n => FlattenSeq(q) \in Seq(S)}
<1>1. 0 \in N
  <2> SUFFICES ASSUME NEW q \in Seq(Seq(S)), Len(q) = 0 PROVE FlattenSeq(q) \in Seq(S)
    OBVIOUS
  <2>1. q = <<>>
    BY EmptySeq
  <2> QED BY <2>1, FlattenNone, EmptySeq
<1>2. ASSUME NEW n \in Nat, n \in N PROVE n + 1 \in N
  <2> SUFFICES ASSUME NEW q \in Seq(Seq(S)), Len(q) = n + 1 PROVE FlattenSeq(q) \in Seq(S)
    OBVIOUS
  <2>1. PICK f \in Seq(Seq(S)), x \in Seq(S) : q = Append(f, x) /\ Len(f) = n
    <3>1. \A T : \A p \in Seq(T) : Len(p) = n + 1 => \E f \in Seq(T), x \in T : p = Append(f, x) /\ Len(f) = n
      BY LastApart, ZenonT(60)
    <3> QED BY <3>1
  <2>2. Len(f) = n /\ FlattenSeq(f) \in Seq(S)
    BY <1>2, <2>1, AppendProperties
  <2> QED BY <2>1, <2>2, FlattenAppend, ConcatProperties
<1>3. \A n \in Nat : n \in N
  <2> HIDE DEF N
  <2> QED BY <1>1, <1>2, SetInduction
<1> QED BY <1>3, LenProperties

LEMMA Associative ==
    ASSUME NEW S, NEW a \in Seq(S), NEW b \in Seq(S), NEW c \in Seq(S)
    PROVE  (a \o b) \o c = a \o (b \o c)
BY ConcatAssociative

LEMMA FlattenConcat ==
    ASSUME NEW S, NEW s \in Seq(Seq(S)), NEW t \in Seq(Seq(S))
    PROVE  FlattenSeq(s \o t) = FlattenSeq(s) \o FlattenSeq(t)
<1> DEFINE N == {n \in Nat : \A q \in Seq(Seq(S)) :
                     Len(q) = n => FlattenSeq(s \o q) = FlattenSeq(s) \o FlattenSeq(q)}
<1>1. 0 \in N
  <2> SUFFICES ASSUME NEW q \in Seq(Seq(S)), Len(q) = 0
               PROVE  FlattenSeq(s \o q) = FlattenSeq(s) \o FlattenSeq(q)
    OBVIOUS
  <2>1. q = <<>>
    BY EmptySeq
  <2> QED BY <2>1, FlattenNone, FlattenType, ConcatEmptySeq
<1>2. ASSUME NEW n \in Nat, n \in N PROVE n + 1 \in N
  <2> SUFFICES ASSUME NEW q \in Seq(Seq(S)), Len(q) = n + 1
               PROVE  FlattenSeq(s \o q) = FlattenSeq(s) \o FlattenSeq(q)
    OBVIOUS
  <2>1. PICK f \in Seq(Seq(S)), x \in Seq(S) : q = Append(f, x) /\ Len(f) = n
    <3>1. \A T : \A p \in Seq(T) : Len(p) = n + 1 => \E f \in Seq(T), x \in T : p = Append(f, x) /\ Len(f) = n
      BY LastApart, ZenonT(60)
    <3> QED BY <3>1
  <2>2. Len(f) = n /\ FlattenSeq(s \o f) = FlattenSeq(s) \o FlattenSeq(f)
    BY <1>2, <2>1, AppendProperties
  <2>3. s \o q = Append(s \o f, x)
    <3>1. s \o f \in Seq(Seq(S)) /\ <<x>> \in Seq(Seq(S))
      BY <2>1, ConcatProperties
    <3>2. Append(f, x) = f \o <<x>>
      BY <2>1, AppendIsConcat
    <3>3. Append(s \o f, x) = (s \o f) \o <<x>>
      BY <2>1, <3>1, AppendIsConcat
    <3>4. (s \o f) \o <<x>> = s \o (f \o <<x>>)
      BY <2>1, <3>1, ConcatAssociative, SMTT(60)
    <3> QED BY <2>1, <3>2, <3>3, <3>4
  <2>4. FlattenSeq(s \o q) = (FlattenSeq(s) \o FlattenSeq(f)) \o x
    <3>1. s \o f \in Seq(Seq(S))
      BY ConcatProperties
    <3>2. FlattenSeq(Append(s \o f, x)) = FlattenSeq(s \o f) \o x
      BY <3>1, FlattenAppend
    <3> QED BY <2>2, <2>3, <3>2
  <2>5. FlattenSeq(q) = FlattenSeq(f) \o x
    BY <2>1, FlattenAppend
  <2>6. FlattenSeq(s) \in Seq(S) /\ FlattenSeq(f) \in Seq(S)
    BY FlattenType
  <2>7. (FlattenSeq(s) \o FlattenSeq(f)) \o x = FlattenSeq(s) \o (FlattenSeq(f) \o x)
    <3> DEFINE a == FlattenSeq(s)
               b == FlattenSeq(f)
    <3>1. a \in Seq(S) /\ b \in Seq(S) /\ x \in Seq(S)
      BY <2>1, <2>6
    <3> HIDE DEF a, b
    <3>2. (a \o b) \o x = a \o (b \o x)
      BY ONLY <3>1, Associative, SMTT(60)
    <3> QED BY <3>2 DEF a, b
  <2> QED BY <2>4, <2>5, <2>7
<1>3. \A n \in Nat : n \in N
  <2> HIDE DEF N
  <2> QED BY <1>1, <1>2, SetInduction
<1> QED BY <1>3, LenProperties

LEMMA FlattenOne ==
    ASSUME NEW S, NEW x \in Seq(S)
    PROVE  FlattenSeq(<<x>>) = x
<1>1. <<x>> = Append(<<>>, x) /\ <<>> \in Seq(Seq(S))
  OBVIOUS
<1>2. FlattenSeq(Append(<<>>, x)) = FlattenSeq(<<>>) \o x
  BY <1>1, FlattenAppend
<1>3. <<>> \o x = x
  BY ConcatEmptySeq
<1> QED BY <1>1, <1>2, <1>3, FlattenNone

-----------------------------------------------------------------------------
(* Finite sets of numbers, in order.                                       *)

LEMMA MaxExists ==
    ASSUME NEW S \in SUBSET Int, IsFiniteSet(S), S # {}
    PROVE  \E m \in S : \A x \in S : x <= m
<1> DEFINE N == {n \in Nat : \A T \in SUBSET Int :
                     IsFiniteSet(T) /\ Cardinality(T) = n /\ T # {} => \E m \in T : \A x \in T : x <= m}
<1>1. 0 \in N
  BY FS_EmptySet
<1>2. ASSUME NEW n \in Nat, n \in N PROVE n + 1 \in N
  <2> SUFFICES ASSUME NEW T \in SUBSET Int, IsFiniteSet(T), Cardinality(T) = n + 1, T # {}
               PROVE  \E m \in T : \A x \in T : x <= m
    OBVIOUS
  <2>1. PICK a \in T : TRUE
    OBVIOUS
  <2> DEFINE R == T \ {a}
  <2>2. IsFiniteSet(R) /\ Cardinality(R) = n
    <3>1. a \in T /\ IsFiniteSet(T)
      BY <2>1
    <3>2. IsFiniteSet(T \ {a}) /\ Cardinality(T \ {a}) = Cardinality(T) - 1
      BY <3>1, FS_RemoveElement
    <3> QED BY <3>2
  <2>3. CASE R = {}
    <3>1. \A x \in T : x <= a
      BY <2>1, <2>3
    <3> QED BY <2>1, <3>1
  <2>4. CASE R # {}
    <3>1. PICK b \in R : \A x \in R : x <= b
      BY <1>2, <2>2, <2>4
    <3>2. a \in Int /\ b \in Int /\ b \in T
      BY <2>1, <3>1
    <3>3. CASE a <= b
      <4>1. \A x \in T : x <= b
        BY <3>1, <3>3
      <4> QED BY <3>2, <4>1
    <3>4. CASE b < a
      <4>1. \A x \in T : x <= a
        BY <3>1, <3>2, <3>4
      <4> QED BY <2>1, <4>1
    <3> QED BY <3>2, <3>3, <3>4
  <2> QED BY <2>3, <2>4
<1>3. \A n \in Nat : n \in N
  <2> HIDE DEF N
  <2> QED BY <1>1, <1>2, SetInduction
<1> QED BY <1>3, FS_CardinalityType

LEMMA MaxIs ==
    ASSUME NEW S \in SUBSET Int, IsFiniteSet(S), S # {}
    PROVE  Max(S) \in S /\ \A x \in S : x <= Max(S)
<1>1. PICK m \in S : \A x \in S : m >= x
  BY MaxExists
<1>2. Max(S) \in S /\ \A x \in S : Max(S) >= x
  BY <1>1 DEF Max
<1> QED BY <1>2

LEMMA IntervalsFinite ==
    ASSUME NEW a \in Int, NEW b \in Int, NEW S \in SUBSET (a..b)
    PROVE  IsFiniteSet(S) /\ Cardinality(S) \in Nat /\ S \in SUBSET Int
<1>1. IsFiniteSet(a..b)
  BY FS_Interval
<1>2. IsFiniteSet(S)
  BY <1>1, FS_Subset
<1>3. Cardinality(S) \in Nat
  BY <1>2, FS_CardinalityType
<1> QED BY <1>2, <1>3

Rising(s, n) == \A i, j \in 1..n : i < j => s[i] < s[j]

LEMMA RisingExists ==
    ASSUME NEW S \in SUBSET Nat, IsFiniteSet(S)
    PROVE  \E s \in [1..Cardinality(S) -> S] : Rising(s, Cardinality(S))
<1> DEFINE N == {n \in Nat : \A T \in SUBSET Nat :
                     IsFiniteSet(T) /\ Cardinality(T) = n => \E s \in [1..n -> T] : Rising(s, n)}
<1>1. 0 \in N
  <2> SUFFICES ASSUME NEW T \in SUBSET Nat PROVE \E s \in [1..0 -> T] : Rising(s, 0)
    OBVIOUS
  <2>1. [i \in 1..0 |-> 0] \in [1..0 -> T] /\ Rising([i \in 1..0 |-> 0], 0)
    BY DEF Rising
  <2> QED BY <2>1
<1>2. ASSUME NEW n \in Nat, n \in N PROVE n + 1 \in N
  <2> SUFFICES ASSUME NEW T \in SUBSET Nat, IsFiniteSet(T), Cardinality(T) = n + 1
               PROVE  \E s \in [1..n + 1 -> T] : Rising(s, n + 1)
    OBVIOUS
  <2>1. T # {} /\ T \in SUBSET Int
    BY FS_EmptySet
  <2>2. PICK m \in T : \A x \in T : x <= m
    BY <2>1, MaxExists
  <2> DEFINE R == T \ {m}
  <2>3. IsFiniteSet(R) /\ Cardinality(R) = n /\ R \in SUBSET Nat
    BY FS_RemoveElement
  <2>4. PICK r \in [1..n -> R] : Rising(r, n)
    BY <1>2, <2>3
  <2> DEFINE s == [i \in 1..n + 1 |-> IF i <= n THEN r[i] ELSE m]
  <2>5. \A i \in 1..n : r[i] \in T /\ r[i] < m /\ r[i] \in Nat
    <3> SUFFICES ASSUME NEW i \in 1..n PROVE r[i] \in T /\ r[i] < m /\ r[i] \in Nat
      OBVIOUS
    <3>1. r[i] \in R
      BY <2>4
    <3>2. r[i] \in T /\ r[i] # m /\ r[i] \in Nat /\ m \in Nat
      BY <2>2, <3>1
    <3>3. r[i] <= m
      BY <2>2, <3>2
    <3> QED BY <3>2, <3>3
  <2>6. s \in [1..n + 1 -> T]
    BY <2>2, <2>5
  <2>7. Rising(s, n + 1)
    <3> SUFFICES ASSUME NEW i \in 1..n + 1, NEW j \in 1..n + 1, i < j PROVE s[i] < s[j]
      BY DEF Rising
    <3>1. i \in 1..n /\ s[i] = r[i]
      OBVIOUS
    <3>2. CASE j \in 1..n
      BY <2>4, <3>1, <3>2 DEF Rising
    <3>3. CASE j = n + 1
      BY <2>5, <3>1, <3>3
    <3> QED BY <3>2, <3>3
  <2> QED BY <2>6, <2>7
<1>3. \A n \in Nat : n \in N
  <2> HIDE DEF N
  <2> QED BY <1>1, <1>2, SetInduction
<1> QED BY <1>3, FS_CardinalityType

\* The members of a set in order, each once.
LEMMA AscendingIs ==
    ASSUME NEW S \in SUBSET Nat, IsFiniteSet(S), NEW n, n = Cardinality(S)
    PROVE  /\ n \in Nat /\ Ascending(S) \in Seq(S) /\ Len(Ascending(S)) = n
           /\ Rising(Ascending(S), n) /\ \A x \in S : \E i \in 1..n : Ascending(S)[i] = x
<1> DEFINE a == Ascending(S)
<1>1. n \in Nat
  BY FS_CardinalityType
<1>2. PICK s \in [1..n -> S] : Rising(s, n)
  BY RisingExists
<1>3. s \in [1..Cardinality(S) -> S] /\ \A i, j \in DOMAIN s : i < j => s[i] < s[j]
  BY <1>2 DEF Rising
<1>4. a \in [1..Cardinality(S) -> S] /\ \A i, j \in DOMAIN a : i < j => a[i] < a[j]
  BY <1>3 DEF Ascending
<1> HIDE DEF a
<1>5. a \in [1..n -> S] /\ Rising(a, n)
  BY <1>4 DEF Rising
<1>6. a \in Seq(S) /\ Len(a) = n
  BY <1>1, <1>5
<1>7. a \in Injection(1..n, S)
  <2>1. ASSUME NEW i \in 1..n, NEW j \in 1..n, a[i] = a[j] PROVE i = j
    <3>0. a[i] \in S /\ a[j] \in S
      BY <1>5
    <3>1. a[i] \in Nat /\ a[j] \in Nat
      BY <3>0
    <3>2. i \in Int /\ j \in Int
      BY <1>1
    <3>3. ~(i < j) /\ ~(j < i)
      BY <1>5, <2>1, <3>1 DEF Rising
    <3> QED BY <3>2, <3>3
  <2> QED BY <1>5, <2>1 DEF Injection, IsInjective
<1>8. Cardinality(1..n) = n
  BY <1>1, FS_Interval
<1>9. a \in Surjection(1..n, S)
  BY <1>7, <1>8, FS_Injection
<1>10. \A x \in S : \E i \in 1..n : a[i] = x
  BY <1>9 DEF Surjection
<1> QED BY <1>1, <1>5, <1>6, <1>10 DEF a

LEMMA LeastExists ==
    ASSUME NEW S \in SUBSET Nat, S # {}
    PROVE  \E m \in S : \A x \in S : m <= x
<1>1. IsWellFoundedOn(OpToRel(<, Nat), Nat)
  BY NatLessThanWellFounded
<1>2. PICK m \in S : \A k \in S : <<k, m>> \notin OpToRel(<, Nat)
  BY <1>1, WFMin
<1>3. \A x \in S : m <= x
  <2> SUFFICES ASSUME NEW x \in S, ~(m <= x) PROVE FALSE
    OBVIOUS
  <2>1. x \in Nat /\ m \in Nat
    BY <1>2
  <2>2. x < m
    BY <2>1
  <2> QED BY <1>2, <2>1, <2>2 DEF OpToRel
<1> QED BY <1>2, <1>3

-----------------------------------------------------------------------------
(* Slices.                                                                 *)

Least(a, b) == IF a < b THEN a ELSE b

LEMMA SliceIs ==
    ASSUME NEW S, NEW s \in Seq(S), NEW from \in Nat, NEW to \in Nat
    PROVE  /\ Slice(s, from, to) \in Seq(S)
           /\ Len(Slice(s, from, to)) =
                 IF from < Least(to, Len(s)) THEN Least(to, Len(s)) - from ELSE 0
           /\ \A i \in 1..Least(to, Len(s)) - from : Slice(s, from, to)[i] = s[from + i]
<1> DEFINE e == Least(to, Len(s))
<1>1. e \in Nat /\ e <= to /\ e <= Len(s) /\ e \in Int /\ from + 1 \in Int
  BY LenProperties DEF Least
<1>2. \A i \in from + 1..e : s[i] \in S
  BY <1>1, ElementOfSeq
<1>3. Slice(s, from, to) = SubSeq(s, from + 1, e)
  BY DEF Slice, Least
<1>4. /\ SubSeq(s, from + 1, e) \in Seq(S)
      /\ Len(SubSeq(s, from + 1, e)) = IF from + 1 <= e THEN e - (from + 1) + 1 ELSE 0
      /\ \A i \in 1 .. e - (from + 1) + 1 : SubSeq(s, from + 1, e)[i] = s[from + 1 + i - 1]
  BY <1>1, <1>2, SubSeqProperties
<1> HIDE DEF e
<1>5. e - (from + 1) + 1 = e - from /\ \A i \in Int : from + 1 + i - 1 = from + i
  BY <1>1
<1>6. \A i \in 1..e - from : SubSeq(s, from + 1, e)[i] = s[from + i]
  BY <1>4, <1>5
<1> QED BY <1>1, <1>3, <1>4, <1>5, <1>6 DEF e

\* A slice of a concatenation, when it begins in the first part.
LEMMA SliceConcat ==
    ASSUME NEW a \in Seq(Nat), NEW b \in Seq(Nat), NEW k \in 0..Len(a), NEW r \in Nat
    PROVE  /\ Slice(a, k, k + r) \in Seq(Nat) /\ Len(Slice(a, k, k + r)) <= r
           /\ Slice(a \o b, k, k + r)
                 = Slice(a, k, k + r) \o Slice(b, 0, r - Len(Slice(a, k, k + r)))
<1>0. PICK x : x = Slice(a, k, k + r)
  OBVIOUS
<1> DEFINE ab == a \o b
           la == Len(a)
           lb == Len(b)
           e  == Least(k + r, la)
<1>1. la \in Nat /\ lb \in Nat /\ k \in Nat /\ k <= la /\ k + r \in Nat
  BY LenProperties
<1>2. ab \in Seq(Nat) /\ Len(ab) = la + lb
  BY ConcatProperties
<1>3. \A i \in 1..la + lb : ab[i] = IF i <= la THEN a[i] ELSE b[i - la]
  BY ConcatProperties
<1>4. /\ x \in Seq(Nat) /\ Len(x) = IF k < e THEN e - k ELSE 0
      /\ \A i \in 1..e - k : x[i] = a[k + i]
  <2>1. k \in Nat /\ k + r \in Nat
    BY <1>1
  <2> QED BY <1>0, <2>1, SliceIs, ZenonT(60)
<1>5. e = IF k + r < la THEN k + r ELSE la
  BY DEF Least
<1>6. Len(x) = e - k /\ Len(x) <= r /\ r - Len(x) \in Nat
  <2>1. r \in Nat /\ la \in Nat /\ k \in Nat /\ k <= la
    BY <1>1
  <2> HIDE DEF e, la
  <2>2. e \in Nat /\ k <= e /\ e - k <= r
    BY <1>5, <2>1
  <2>3. Len(x) = e - k
    <3>1. Len(x) = IF k < e THEN e - k ELSE 0
      BY <1>4
    <3>2. CASE k < e
      BY <3>1, <3>2
    <3>3. CASE k = e
      BY <2>1, <3>1, <3>3
    <3> QED BY <2>1, <2>2, <3>2, <3>3
  <2> QED BY <2>1, <2>2, <2>3
<1> DEFINE q == r - Len(x)
           y == Slice(b, 0, q)
           z == Slice(ab, k, k + r)
           f == Least(q, lb)
           g == Least(k + r, la + lb)
<1>7. /\ y \in Seq(Nat) /\ Len(y) = IF 0 < f THEN f - 0 ELSE 0
      /\ \A i \in 1..f - 0 : y[i] = b[0 + i]
  <2>1. q \in Nat /\ 0 \in Nat
    BY <1>6
  <2> HIDE DEF q
  <2> QED BY <2>1, SliceIs, ZenonT(60)
<1>8. /\ z \in Seq(Nat) /\ Len(z) = IF k < g THEN g - k ELSE 0
      /\ \A i \in 1..g - k : z[i] = ab[k + i]
  <2>1. g = Least(k + r, Len(ab))
    BY <1>2
  <2>2. k \in Nat /\ k + r \in Nat
    BY <1>1
  <2> HIDE DEF g, ab
  <2>3. /\ Slice(ab, k, k + r) \in Seq(Nat)
        /\ Len(Slice(ab, k, k + r)) =
              IF k < Least(k + r, Len(ab)) THEN Least(k + r, Len(ab)) - k ELSE 0
        /\ \A i \in 1..Least(k + r, Len(ab)) - k : Slice(ab, k, k + r)[i] = ab[k + i]
    BY <1>2, <2>2, SliceIs, ZenonT(60)
  <2> QED BY <2>1, <2>3
<1>9. f = (IF q < lb THEN q ELSE lb) /\ g = IF k + r < la + lb THEN k + r ELSE la + lb
  BY DEF Least
<1> DEFINE xy == x \o y
<1>10. xy \in Seq(Nat) /\ Len(xy) = Len(x) + Len(y)
  BY <1>4, <1>7, ConcatProperties
<1>11. \A i \in 1..Len(x) + Len(y) : xy[i] = IF i <= Len(x) THEN x[i] ELSE y[i - Len(x)]
  BY <1>4, <1>7, ConcatProperties
<1> HIDE DEF ab, la, lb, e, y, z, f, g, xy
<1>12. q \in Nat /\ q = r - (e - k) /\ e \in Nat /\ f \in Nat /\ g \in Nat
  BY <1>1, <1>5, <1>6, <1>9
<1>13. Len(y) = f /\ \A i \in 1..f : y[i] = b[i]
  BY <1>7, <1>12
<1> HIDE DEF q
<1>14. g - k = (e - k) + f
  BY <1>1, <1>5, <1>9, <1>12
<1>15. Len(z) = Len(xy) /\ Len(xy) = g - k
  BY <1>1, <1>6, <1>8, <1>10, <1>12, <1>13, <1>14
<1>16. \A i \in 1..Len(z) : z[i] = xy[i]
  <2> SUFFICES ASSUME NEW i \in 1..g - k PROVE z[i] = xy[i]
    BY <1>15
  <2>1. z[i] = ab[k + i] /\ k + i \in 1..la + lb /\ i \in Nat
    BY <1>1, <1>8, <1>9, <1>12
  <2>2. CASE i <= e - k
    <3>1. k + i <= la /\ i \in 1..e - k
      <4>1. i \in Nat /\ i >= 1 /\ k \in Nat /\ la \in Nat /\ e \in Nat /\ e <= la
        BY <1>1, <1>5, <1>12, <2>1
      <4> QED BY <2>2, <4>1
    <3>2. i \in 1..Len(x) + Len(y)
      BY <1>1, <1>6, <1>12, <1>13, <1>14
    <3> QED BY <1>3, <1>4, <1>6, <1>11, <2>1, <2>2, <3>1, <3>2
  <2>3. CASE ~(i <= e - k)
    <3>1. e = la
      BY <1>1, <1>5, <1>9, <1>12, <2>1, <2>3
    <3>2. ~(k + i <= la) /\ k + i - la = i - (e - k) /\ i - (e - k) \in 1..f
      BY <1>1, <1>12, <1>14, <2>1, <2>3, <3>1
    <3>3. z[i] = b[i - (e - k)]
      <4>1. PICK c : c = k + i
        OBVIOUS
      <4>2. c \in 1..la + lb /\ ~(c <= la) /\ c - la = i - (e - k)
        BY <1>1, <1>12, <2>1, <3>2, <4>1
      <4>3. ab[c] = b[c - la]
        BY <1>3, <4>2
      <4> QED BY <2>1, <4>1, <4>2, <4>3
    <3>4. xy[i] = y[i - (e - k)]
      BY <1>6, <1>11, <1>13, <1>14, <2>3
    <3> QED BY <1>13, <3>2, <3>3, <3>4
  <2> QED BY <2>2, <2>3
<1>17. z = xy
  BY <1>8, <1>10, <1>15, <1>16, SeqEqual
<1> QED BY <1>0, <1>4, <1>6, <1>17 DEF z, xy, y, q, ab

\* A slice of a concatenation, when it begins behind the first part.
LEMMA SlicePast ==
    ASSUME NEW S, NEW a \in Seq(S), NEW b \in Seq(S), NEW k \in Nat, NEW r \in Nat, Len(a) <= k
    PROVE  Slice(a \o b, k, k + r) = Slice(b, k - Len(a), k - Len(a) + r)
<1> DEFINE ab == a \o b
           la == Len(a)
           lb == Len(b)
           j  == k - la
           y  == Slice(b, j, j + r)
           z  == Slice(ab, k, k + r)
           f  == Least(j + r, lb)
           g  == Least(k + r, la + lb)
<1>1. la \in Nat /\ lb \in Nat /\ j \in Nat /\ j + r \in Nat /\ k + r \in Nat
  BY LenProperties
<1>2. ab \in Seq(S) /\ Len(ab) = la + lb
  BY ConcatProperties
<1>3. \A i \in 1..la + lb : ab[i] = IF i <= la THEN a[i] ELSE b[i - la]
  BY ConcatProperties
<1>a. r \in Nat /\ k \in Nat /\ la <= k
  OBVIOUS
<1> HIDE DEF j
<1>4. /\ y \in Seq(S) /\ Len(y) = IF j < f THEN f - j ELSE 0
      /\ \A i \in 1..f - j : y[i] = b[j + i]
  <2>1. j \in Nat /\ j + r \in Nat
    BY <1>1
  <2> QED BY <2>1, SliceIs, ZenonT(60)
<1>5. /\ z \in Seq(S) /\ Len(z) = IF k < g THEN g - k ELSE 0
      /\ \A i \in 1..g - k : z[i] = ab[k + i]
  <2>1. g = Least(k + r, Len(ab))
    BY <1>2
  <2>2. k \in Nat /\ k + r \in Nat
    BY <1>1
  <2> HIDE DEF g, ab
  <2>3. /\ Slice(ab, k, k + r) \in Seq(S)
        /\ Len(Slice(ab, k, k + r)) =
              IF k < Least(k + r, Len(ab)) THEN Least(k + r, Len(ab)) - k ELSE 0
        /\ \A i \in 1..Least(k + r, Len(ab)) - k : Slice(ab, k, k + r)[i] = ab[k + i]
    BY <1>2, <2>2, SliceIs
  <2> QED BY <2>1, <2>3
<1>6. f = (IF j + r < lb THEN j + r ELSE lb) /\ g = IF k + r < la + lb THEN k + r ELSE la + lb
  BY DEF Least
<1>7. j = k - la
  BY DEF j
<1> HIDE DEF ab, la, lb, y, z, f, g
<1>8. g - k = f - j /\ f \in Nat /\ g \in Nat /\ g = f + la
  BY <1>1, <1>6, <1>7
<1>9. Len(z) = Len(y)
  BY <1>1, <1>4, <1>5, <1>8
<1>10. \A i \in 1..Len(z) : z[i] = y[i]
  <2> SUFFICES ASSUME NEW i \in 1..Len(z) PROVE z[i] = y[i]
    OBVIOUS
  <2>1. i \in 1..g - k /\ i \in 1..f - j
    BY <1>1, <1>5, <1>8
  <2>2. k + i \in 1..la + lb /\ ~(k + i <= la) /\ k + i - la = j + i
    BY <1>1, <1>6, <1>7, <1>8, <2>1
  <2>3. PICK c : c = k + i
    OBVIOUS
  <2>4. c \in 1..la + lb /\ ~(c <= la) /\ c - la = j + i
    BY <1>1, <2>2, <2>3
  <2>5. ab[c] = b[c - la]
    BY <1>3, <2>4
  <2>6. z[i] = ab[c] /\ y[i] = b[j + i]
    BY <1>4, <1>5, <2>1, <2>3
  <2> QED BY <2>4, <2>5, <2>6
<1>11. z = y
  BY <1>4, <1>5, <1>9, <1>10, SeqEqual
<1> QED BY <1>11 DEF z, y, ab, j, la

\* Nothing is left behind the end, and a slice of no items is empty.
LEMMA SliceNone ==
    ASSUME NEW S, NEW s \in Seq(S), NEW k \in Nat, NEW r \in Nat, r = 0 \/ Len(s) <= k
    PROVE  Slice(s, k, k + r) = <<>>
<1>1. Len(s) \in Nat
  BY LenProperties
<1> DEFINE e == IF k + r < Len(s) THEN k + r ELSE Len(s)
<1>2. e \in Int /\ k + 1 \in Int /\ e < k + 1
  BY <1>1
<1>3. Slice(s, k, k + r) = SubSeq(s, k + 1, e)
  BY DEF Slice
<1> HIDE DEF e
<1> QED BY <1>2, <1>3, SubSeqEmpty

-----------------------------------------------------------------------------
(* The list that some chunks hold.                                         *)

Chunk == [n : Nat, count : Nat]

LiveIn(c, rows)   == Slice(rows[c.n], 0, c.count)
LivesIn(cs, rows) == [i \in DOMAIN cs |-> LiveIn(cs[i], rows)]
ListIn(cs, rows)  == FlattenSeq(LivesIn(cs, rows))

ChunkOK(c, next, rows) ==
    /\ c.n \in 0..next - 1 /\ c.n \in DOMAIN rows
    /\ rows[c.n] \in Seq(Nat) /\ c.count \in 1..Len(rows[c.n])

ChunksOK(cs, next, rows) ==
    cs \in Seq(Chunk) /\ \A i \in 1..Len(cs) : ChunkOK(cs[i], next, rows)

LEMMA LiveType ==
    ASSUME NEW c \in Chunk, NEW next \in Nat, NEW rows, ChunkOK(c, next, rows)
    PROVE  /\ LiveIn(c, rows) \in Seq(Nat) /\ Len(LiveIn(c, rows)) = c.count
           /\ c.count \in Nat \ {0} /\ c.n \in Nat /\ c.n < next
           /\ \A i \in 1..c.count : LiveIn(c, rows)[i] = rows[c.n][i]
<1> DEFINE r == rows[c.n]
           d == c.count
<1>1. r \in Seq(Nat) /\ d \in 1..Len(r) /\ d \in Nat /\ Len(r) \in Nat
  BY LenProperties DEF ChunkOK
<1>2. c.n \in Nat /\ c.n < next
  BY DEF ChunkOK
<1> HIDE DEF r, d
<1>3. Least(d, Len(r)) = d
  BY <1>1 DEF Least
<1>4. /\ Slice(r, 0, d) \in Seq(Nat) /\ Len(Slice(r, 0, d)) = IF 0 < d THEN d - 0 ELSE 0
      /\ \A i \in 1..d - 0 : Slice(r, 0, d)[i] = r[0 + i]
  <2>1. /\ Slice(r, 0, d) \in Seq(Nat)
        /\ Len(Slice(r, 0, d)) = IF 0 < Least(d, Len(r)) THEN Least(d, Len(r)) - 0 ELSE 0
        /\ \A i \in 1..Least(d, Len(r)) - 0 : Slice(r, 0, d)[i] = r[0 + i]
    BY <1>1, SliceIs
  <2> QED BY <1>3, <2>1
<1>5. /\ Slice(r, 0, d) \in Seq(Nat) /\ Len(Slice(r, 0, d)) = d
      /\ \A i \in 1..d : Slice(r, 0, d)[i] = r[i]
  BY <1>1, <1>4
<1> QED BY <1>1, <1>2, <1>5 DEF r, d, LiveIn

LEMMA LivesType ==
    ASSUME NEW cs, NEW next \in Nat, NEW rows, ChunksOK(cs, next, rows)
    PROVE  /\ LivesIn(cs, rows) \in Seq(Seq(Nat)) /\ Len(LivesIn(cs, rows)) = Len(cs)
           /\ Len(cs) \in Nat
           /\ \A i \in 1..Len(cs) : /\ LivesIn(cs, rows)[i] = LiveIn(cs[i], rows)
                                    /\ LiveIn(cs[i], rows) \in Seq(Nat)
                                    /\ Len(LiveIn(cs[i], rows)) = cs[i].count
                                    /\ cs[i].count \in Nat \ {0} /\ cs[i].n \in Nat
           /\ ListIn(cs, rows) \in Seq(Nat)
<1> DEFINE L == LivesIn(cs, rows)
<1>1. cs \in Seq(Chunk) /\ Len(cs) \in Nat /\ DOMAIN cs = 1..Len(cs)
  BY LenProperties DEF ChunksOK
<1>2. \A i \in 1..Len(cs) : cs[i] \in Chunk /\ ChunkOK(cs[i], next, rows)
  BY <1>1, ElementOfSeq DEF ChunksOK
<1>3. \A i \in 1..Len(cs) : /\ LiveIn(cs[i], rows) \in Seq(Nat)
                            /\ Len(LiveIn(cs[i], rows)) = cs[i].count
                            /\ cs[i].count \in Nat \ {0} /\ cs[i].n \in Nat
  BY <1>2, LiveType
<1>4. L = [i \in 1..Len(cs) |-> LiveIn(cs[i], rows)]
  BY <1>1 DEF LivesIn
<1>5. L \in [1..Len(cs) -> Seq(Nat)] /\ \A i \in 1..Len(cs) : L[i] = LiveIn(cs[i], rows)
  BY <1>3, <1>4
<1> HIDE DEF L
<1>6. L \in Seq(Seq(Nat)) /\ Len(L) = Len(cs)
  BY <1>1, <1>5
<1>7. FlattenSeq(L) \in Seq(Nat)
  BY <1>6, FlattenType
<1> QED BY <1>1, <1>3, <1>5, <1>6, <1>7 DEF L, ListIn

\* A part of the chunks.
LEMMA PartOK ==
    ASSUME NEW cs, NEW next \in Nat, NEW rows, ChunksOK(cs, next, rows),
           NEW m \in 1..Len(cs) + 1, NEW n \in m - 1..Len(cs)
    PROVE  /\ ChunksOK(SubSeq(cs, m, n), next, rows)
           /\ LivesIn(SubSeq(cs, m, n), rows) = SubSeq(LivesIn(cs, rows), m, n)
           /\ Len(SubSeq(cs, m, n)) = n - m + 1
           /\ \A i \in 1..n - m + 1 : SubSeq(cs, m, n)[i] = cs[m + i - 1]
<1> DEFINE p == SubSeq(cs, m, n)
           L == LivesIn(cs, rows)
           k == n - m + 1
<1>1. cs \in Seq(Chunk) /\ Len(cs) \in Nat
  BY LenProperties DEF ChunksOK
<1>2. m \in Int /\ n \in Int /\ k \in Nat /\ \A i \in m..n : i \in 1..Len(cs)
  BY <1>1
<1>3. \A i \in 1..k : m + i - 1 \in 1..Len(cs)
  BY <1>1
<1>4. \A i \in m..n : cs[i] \in Chunk
  BY <1>1, <1>2, ElementOfSeq
<1>5. p \in Seq(Chunk) /\ Len(p) = IF m <= n THEN n - m + 1 ELSE 0
  BY <1>2, <1>4, SubSeqProperties
<1>6. \A i \in 1..k : p[i] = cs[m + i - 1]
  BY <1>2, <1>4, SubSeqProperties
<1>7. Len(p) = k
  BY <1>1, <1>5
<1> HIDE DEF p, k
<1>8. \A i \in 1..k : ChunkOK(p[i], next, rows)
  BY <1>3, <1>6 DEF ChunksOK
<1>9. ChunksOK(p, next, rows)
  BY <1>5, <1>7, <1>8 DEF ChunksOK
<1>10. /\ L \in Seq(Seq(Nat)) /\ Len(L) = Len(cs)
       /\ \A i \in 1..Len(cs) : L[i] = LiveIn(cs[i], rows)
  BY LivesType
<1>11. /\ LivesIn(p, rows) \in Seq(Seq(Nat)) /\ Len(LivesIn(p, rows)) = k
       /\ \A i \in 1..k : LivesIn(p, rows)[i] = LiveIn(p[i], rows)
  BY <1>7, <1>9, LivesType
<1> HIDE DEF L
<1>12. \A i \in m..n : L[i] \in Seq(Nat)
  BY <1>2, <1>10, ElementOfSeq
<1> DEFINE q == SubSeq(L, m, n)
<1>13. q \in Seq(Seq(Nat)) /\ Len(q) = IF m <= n THEN n - m + 1 ELSE 0
  BY <1>2, <1>12, SubSeqProperties
<1>14. \A i \in 1..k : q[i] = L[m + i - 1]
  BY <1>2, <1>12, SubSeqProperties DEF k
<1>15. Len(q) = k
  BY <1>5, <1>7, <1>13
<1> HIDE DEF q
<1>16. \A i \in 1..k : LivesIn(p, rows)[i] = q[i]
  BY <1>3, <1>6, <1>10, <1>11, <1>14
<1>17. LivesIn(p, rows) = q
  BY <1>2, <1>11, <1>13, <1>15, <1>16, SeqEqual
<1> QED BY <1>6, <1>7, <1>9, <1>17 DEF p, q, L, k

\* A list is that of its first chunks and that of the rest.
LEMMA ListSplit ==
    ASSUME NEW cs, NEW next \in Nat, NEW rows, ChunksOK(cs, next, rows), NEW k \in 0..Len(cs)
    PROVE  /\ ListIn(SubSeq(cs, 1, k), rows) \in Seq(Nat)
           /\ ListIn(SubSeq(cs, k + 1, Len(cs)), rows) \in Seq(Nat)
           /\ ListIn(cs, rows) = ListIn(SubSeq(cs, 1, k), rows)
                                 \o ListIn(SubSeq(cs, k + 1, Len(cs)), rows)
<1> DEFINE L == LivesIn(cs, rows)
           n == Len(cs)
           a == SubSeq(L, 1, k)
           b == SubSeq(L, k + 1, n)
<1>1. n \in Nat /\ L \in Seq(Seq(Nat)) /\ Len(L) = n
  BY LivesType
<1>2. /\ ChunksOK(SubSeq(cs, 1, k), next, rows) /\ LivesIn(SubSeq(cs, 1, k), rows) = a
      /\ ChunksOK(SubSeq(cs, k + 1, n), next, rows) /\ LivesIn(SubSeq(cs, k + 1, n), rows) = b
  <2>1. 1 \in 1..n + 1 /\ k \in 1 - 1..n /\ k + 1 \in 1..n + 1 /\ n \in k + 1 - 1..n
    BY <1>1
  <2> HIDE DEF n, L
  <2>2. ChunksOK(SubSeq(cs, 1, k), next, rows) /\ LivesIn(SubSeq(cs, 1, k), rows) = a
    BY <2>1, PartOK DEF n, L
  <2>3. ChunksOK(SubSeq(cs, k + 1, n), next, rows) /\ LivesIn(SubSeq(cs, k + 1, n), rows) = b
    <3>1. PICK m : m = k + 1
      OBVIOUS
    <3>2. m \in 1..n + 1 /\ n \in m - 1..n
      BY <2>1, <3>1
    <3>3. ChunksOK(SubSeq(cs, m, n), next, rows)
          /\ LivesIn(SubSeq(cs, m, n), rows) = SubSeq(L, m, n)
      BY <3>2, PartOK DEF n, L
    <3> QED BY <3>1, <3>3
  <2> QED BY <2>2, <2>3
<1>3. a \o b = L
  <2>1. 1 \in 1..Len(L) + 1 /\ k \in 1 - 1..Len(L) /\ n \in k..Len(L)
    BY <1>1
  <2> HIDE DEF n, L
  <2>2. a \o b = SubSeq(L, 1, n)
    BY <1>1, <2>1, ConcatAdjacentSubSeq
  <2> QED BY <1>1, <2>2, SubSeqFull
<1> HIDE DEF L, n, a, b
<1>4. a \in Seq(Seq(Nat)) /\ b \in Seq(Seq(Nat))
  BY <1>2, LivesType
<1>5. FlattenSeq(a \o b) = FlattenSeq(a) \o FlattenSeq(b)
  BY <1>4, FlattenConcat
<1>6. FlattenSeq(a) \in Seq(Nat) /\ FlattenSeq(b) \in Seq(Nat)
  BY <1>4, FlattenType
<1> QED BY <1>2, <1>3, <1>5, <1>6 DEF ListIn, L, n

LEMMA FirstsAppend ==
    ASSUME NEW S, NEW s \in Seq(S), NEW k \in Nat, k + 1 <= Len(s)
    PROVE  /\ SubSeq(s, 1, k) \in Seq(S) /\ Len(SubSeq(s, 1, k)) = k /\ s[k + 1] \in S
           /\ SubSeq(s, 1, k + 1) = Append(SubSeq(s, 1, k), s[k + 1])
<1>1. Len(s) \in Nat /\ k + 1 \in 1..Len(s) /\ 1 \in 1..Len(s) /\ k + 1 - 1 = k
  BY LenProperties
<1>2. s[k + 1] \in S
  BY <1>1, ElementOfSeq
<1>3. \A i \in 1..k : s[i] \in S
  BY <1>1, ElementOfSeq
<1>4. SubSeq(s, 1, k) \in Seq(S) /\ Len(SubSeq(s, 1, k)) = k
  <2>1. 1 \in Int /\ k \in Int
    OBVIOUS
  <2>2. SubSeq(s, 1, k) \in Seq(S) /\ Len(SubSeq(s, 1, k)) = IF 1 <= k THEN k - 1 + 1 ELSE 0
    BY <1>3, <2>1, SubSeqProperties
  <2> QED BY <2>2
<1>5. SubSeq(s, 1, k + 1) = SubSeq(s, 1, k) \o <<s[k + 1]>>
  <2>1. PICK n : n = k + 1
    OBVIOUS
  <2>2. 1 \in 1..Len(s) /\ n \in 1..Len(s) /\ n - 1 = k
    BY <1>1, <2>1
  <2>3. SubSeq(s, 1, n) = SubSeq(s, 1, n - 1) \o <<s[n]>>
    BY <2>2, SubSeqRecursiveSecond
  <2> QED BY <2>1, <2>2, <2>3
<1>6. Append(SubSeq(s, 1, k), s[k + 1]) = SubSeq(s, 1, k) \o <<s[k + 1]>>
  BY <1>2, <1>4, AppendIsConcat
<1> QED BY <1>2, <1>4, <1>5, <1>6

HeldEq(g, cs, k) == g = [i \in 0..k |-> IF i = 0 THEN 0 ELSE g[i - 1] + cs[i].count]

Helds(cs, k) == CHOOSE g : HeldEq(g, cs, k)

LEMMA HeldsExist ==
    ASSUME NEW cs, NEW k \in Nat
    PROVE  HeldEq(Helds(cs, k), cs, k)
<1> DEFINE N == {n \in Nat : \E g : HeldEq(g, cs, n)}
<1>1. 0 \in N
  <2> DEFINE g == [i \in 0..0 |-> 0]
  <2>1. HeldEq(g, cs, 0)
    <3>1. \A i \in 0..0 : i = 0
      OBVIOUS
    <3> QED BY <3>1 DEF HeldEq
  <2> QED BY <2>1
<1>2. ASSUME NEW n \in Nat, n \in N PROVE n + 1 \in N
  <2>1. PICK g : HeldEq(g, cs, n)
    BY <1>2
  <2> DEFINE h == [i \in 0..n + 1 |-> IF i = 0 THEN 0 ELSE g[i - 1] + cs[i].count]
  <2>2. \A i \in 0..n : h[i] = g[i]
    <3>1. \A i \in 0..n : g[i] = IF i = 0 THEN 0 ELSE g[i - 1] + cs[i].count
      BY <2>1 DEF HeldEq
    <3> QED BY <3>1
  <2>3. \A i \in 0..n + 1 : h[i] = IF i = 0 THEN 0 ELSE h[i - 1] + cs[i].count
    <3>1. \A i \in 0..n + 1 : i # 0 => i - 1 \in 0..n
      OBVIOUS
    <3>2. \A i \in 0..n + 1 : h[i] = IF i = 0 THEN 0 ELSE g[i - 1] + cs[i].count
      OBVIOUS
    <3> HIDE DEF h
    <3> QED BY <2>2, <3>1, <3>2
  <2>4. h = [i \in 0..n + 1 |-> h[i]]
    OBVIOUS
  <2> HIDE DEF h
  <2>5. HeldEq(h, cs, n + 1)
    BY <2>3, <2>4 DEF HeldEq
  <2> QED BY <2>5
<1>3. k \in N
  <2> HIDE DEF N
  <2> QED BY <1>1, <1>2, SetInduction
<1> QED BY <1>3 DEF Helds

\* What the counts of an index add up to is what its chunks hold.
LEMMA HeldIs ==
    ASSUME NEW cs, NEW next \in Nat, NEW rows, ChunksOK(cs, next, rows)
    PROVE  Held(cs) = Len(ListIn(cs, rows)) /\ Held(cs) \in Nat
<1> DEFINE n == Len(cs)
           h == Helds(cs, n)
           L == LivesIn(cs, rows)
           N == {k \in Nat : k <= n => h[k] = Len(FlattenSeq(SubSeq(L, 1, k)))}
<1>1. n \in Nat /\ L \in Seq(Seq(Nat)) /\ Len(L) = n
  BY LivesType
<1>2. \A i \in 1..n : L[i] \in Seq(Nat) /\ Len(L[i]) = cs[i].count
  BY LivesType
<1>3. \A i \in 0..n : h[i] = IF i = 0 THEN 0 ELSE h[i - 1] + cs[i].count
  <2>1. HeldEq(h, cs, n)
    BY <1>1, HeldsExist
  <2> HIDE DEF h, n
  <2> QED BY <2>1 DEF HeldEq
<1>4. Held(cs) = h[n]
  BY DEF Held, Helds, HeldEq
<1> HIDE DEF h, L, n
<1>5. 0 \in N
  <2>1. SubSeq(L, 1, 0) = <<>>
    BY SubSeqEmpty
  <2>2. h[0] = 0
    BY <1>1, <1>3
  <2> QED BY <2>1, <2>2, FlattenNone, EmptySeq
<1>6. ASSUME NEW k \in Nat, k \in N PROVE k + 1 \in N
  <2> SUFFICES ASSUME k + 1 <= n PROVE h[k + 1] = Len(FlattenSeq(SubSeq(L, 1, k + 1)))
    OBVIOUS
  <2> DEFINE a == SubSeq(L, 1, k)
             x == L[k + 1]
  <2>1. a \in Seq(Seq(Nat)) /\ x \in Seq(Nat) /\ SubSeq(L, 1, k + 1) = Append(a, x)
    BY <1>1, FirstsAppend
  <2>2. Len(x) = cs[k + 1].count
    BY <1>1, <1>2
  <2>3. h[k + 1] = h[k] + cs[k + 1].count
    <3>1. k + 1 \in 0..n /\ k + 1 # 0 /\ k + 1 - 1 = k
      BY <1>1
    <3> QED BY <1>3, <3>1
  <2>4. h[k] = Len(FlattenSeq(a))
    BY <1>1, <1>6
  <2> HIDE DEF a, x
  <2>5. FlattenSeq(Append(a, x)) = FlattenSeq(a) \o x /\ FlattenSeq(a) \in Seq(Nat)
    BY <2>1, FlattenAppend, FlattenType
  <2>6. Len(FlattenSeq(a) \o x) = Len(FlattenSeq(a)) + Len(x)
    BY <2>1, <2>5, ConcatProperties
  <2> QED BY <2>1, <2>2, <2>3, <2>4, <2>5, <2>6
<1>7. n \in N
  <2> HIDE DEF N
  <2> QED BY <1>1, <1>5, <1>6, SetInduction
<1>8. SubSeq(L, 1, n) = L
  BY <1>1, SubSeqFull
<1>9. Held(cs) = Len(FlattenSeq(L))
  <2>1. n <= n
    BY <1>1
  <2>2. h[n] = Len(FlattenSeq(SubSeq(L, 1, n)))
    BY <1>7, <2>1
  <2> QED BY <1>4, <1>8, <2>2
<1>10. FlattenSeq(L) \in Seq(Nat)
  BY <1>1, FlattenType
<1> QED BY <1>9, <1>10, LenProperties DEF L, ListIn

\* Chunks hold the same list while their rows stay.
LEMMA SameList ==
    ASSUME NEW cs, NEW next \in Nat, NEW rows, ChunksOK(cs, next, rows), NEW later, NEW to \in Nat,
           next <= to,
           \A i \in 1..Len(cs) : cs[i].n \in DOMAIN later /\ later[cs[i].n] = rows[cs[i].n]
    PROVE  ChunksOK(cs, to, later) /\ ListIn(cs, later) = ListIn(cs, rows)
<1>1. cs \in Seq(Chunk) /\ DOMAIN cs = 1..Len(cs)
  BY LenProperties DEF ChunksOK
<1>2. ChunksOK(cs, to, later)
  <2> SUFFICES ASSUME NEW i \in 1..Len(cs) PROVE ChunkOK(cs[i], to, later)
    BY <1>1 DEF ChunksOK
  <2>1. ChunkOK(cs[i], next, rows)
    BY DEF ChunksOK
  <2> QED BY <2>1 DEF ChunkOK
<1>3. \A i \in DOMAIN cs : LiveIn(cs[i], later) = LiveIn(cs[i], rows)
  BY <1>1 DEF LiveIn
<1>4. LivesIn(cs, later) = LivesIn(cs, rows)
  BY <1>3 DEF LivesIn
<1> QED BY <1>2, <1>4 DEF ListIn

\* s is the end of t.
Tails(s, t) == Len(s) <= Len(t) /\ s = SubSeq(t, Len(t) - Len(s) + 1, Len(t))

LEMMA SuffixIs ==
    ASSUME NEW S, NEW s \in Seq(S), NEW t \in Seq(S), IsSuffix(s, t)
    PROVE  Tails(s, t)
<1> DEFINE m == Len(s)
           n == Len(t)
           r == Reverse(s)
           q == Reverse(t)
<1>1. m \in Nat /\ n \in Nat
  BY LenProperties
<1>2. r = [i \in 1..m |-> s[(m - i) + 1]] /\ q = [i \in 1..n |-> t[(n - i) + 1]]
  BY DEF Reverse
<1>3. \A i \in 1..m : (m - i) + 1 \in 1..m
  BY <1>1
<1>4. \A i \in 1..n : (n - i) + 1 \in 1..n
  BY <1>1
<1>5. r \in Seq(S) /\ Len(r) = m
  <2>1. \A i \in 1..m : s[(m - i) + 1] \in S
    BY <1>3, ElementOfSeq
  <2>2. r \in [1..m -> S]
    BY <1>2, <2>1
  <2> HIDE DEF r
  <2> QED BY <1>1, <2>2
<1>6. q \in Seq(S) /\ Len(q) = n
  <2>1. \A i \in 1..n : t[(n - i) + 1] \in S
    BY <1>4, ElementOfSeq
  <2>2. q \in [1..n -> S]
    BY <1>2, <2>1
  <2> HIDE DEF q
  <2> QED BY <1>1, <2>2
<1>7. m <= n /\ SubSeq(r, 1, m) = SubSeq(q, 1, m)
  BY <1>5, <1>6 DEF IsSuffix, IsPrefix
<1> HIDE DEF r, q
<1>8. \A i \in 1..m : r[i] = q[i]
  <2>1. SubSeq(r, 1, m) = r
    BY <1>5, SubSeqFull
  <2>2. \A i \in 1..m : q[i] \in S
    BY <1>1, <1>6, <1>7, ElementOfSeq
  <2>3. \A i \in 1..m - 1 + 1 : SubSeq(q, 1, m)[i] = q[1 + i - 1]
    <3>1. 1 \in Int /\ m \in Int
      BY <1>1
    <3> QED BY <2>2, <3>1, SubSeqProperties
  <2>4. \A i \in 1..m : i \in 1..m - 1 + 1 /\ 1 + i - 1 = i
    BY <1>1
  <2> QED BY <1>7, <2>1, <2>3, <2>4
<1>9. \A i \in 1..m : s[i] = t[(n - m) + i]
  <2> SUFFICES ASSUME NEW i \in 1..m PROVE s[i] = t[(n - m) + i]
    OBVIOUS
  <2>1. PICK j : j = (m - i) + 1
    OBVIOUS
  <2>2. j \in 1..m /\ j \in 1..n /\ (m - j) + 1 = i /\ (n - j) + 1 = (n - m) + i
    BY <1>1, <1>7, <2>1
  <2>3. r[j] = s[(m - j) + 1] /\ q[j] = t[(n - j) + 1]
    BY <1>2, <2>2
  <2> QED BY <1>8, <2>2, <2>3
<1> DEFINE e == SubSeq(t, n - m + 1, n)
<1>10. \A i \in n - m + 1..n : t[i] \in S
  <2>1. \A i \in n - m + 1..n : i \in 1..n
    BY <1>1, <1>7
  <2> QED BY <2>1, ElementOfSeq
<1>11. /\ e \in Seq(S) /\ Len(e) = IF n - m + 1 <= n THEN n - (n - m + 1) + 1 ELSE 0
       /\ \A i \in 1..n - (n - m + 1) + 1 : e[i] = t[n - m + 1 + i - 1]
  <2>1. n - m + 1 \in Int /\ n \in Int
    BY <1>1
  <2> HIDE DEF m, n
  <2> QED BY <1>10, <2>1, SubSeqProperties
<1> HIDE DEF e, m, n
<1>12. n - (n - m + 1) + 1 = m /\ Len(e) = m /\ \A i \in 1..m : n - m + 1 + i - 1 = (n - m) + i
  BY <1>1, <1>11
<1>13. \A i \in 1..m : s[i] = e[i]
  BY <1>9, <1>11, <1>12
<1>14. s = e
  BY <1>11, <1>12, <1>13, SeqEqual DEF m
<1> QED BY <1>7, <1>14 DEF Tails, e, m, n

\* The end of an end.
LEMMA TailsBehind ==
    ASSUME NEW S, NEW a \in Seq(S), NEW b \in Seq(S), NEW t \in Seq(S), Tails(a \o b, t)
    PROVE  Tails(b, t)
<1> DEFINE ab == a \o b
           la == Len(a)
           lb == Len(b)
           n  == Len(t)
           d  == n - (la + lb)
           e  == SubSeq(t, n - lb + 1, n)
<1>1. la \in Nat /\ lb \in Nat /\ n \in Nat
  BY LenProperties
<1>2. ab \in Seq(S) /\ Len(ab) = la + lb
  BY ConcatProperties
<1>3. \A i \in 1..la + lb : ab[i] = IF i <= la THEN a[i] ELSE b[i - la]
  BY ConcatProperties
<1>4. la + lb <= n /\ ab = SubSeq(t, d + 1, n) /\ d \in Nat
  <2>1. Len(ab) <= n /\ ab = SubSeq(t, n - Len(ab) + 1, n)
    BY DEF Tails
  <2> QED BY <1>1, <1>2, <2>1
<1>5. \A i \in 1..n : t[i] \in S
  BY ElementOfSeq
<1> HIDE DEF ab, la, lb, n, d
<1>6. d = n - (la + lb)
  BY DEF d
<1>7. \A i \in 1..la + lb : ab[i] = t[d + i]
  <2>1. d + 1 \in Int /\ n \in Int /\ \A i \in d + 1..n : i \in 1..n
    BY <1>1, <1>4
  <2>2. \A i \in d + 1..n : t[i] \in S
    BY <1>5, <2>1
  <2>3. \A i \in 1..n - (d + 1) + 1 : SubSeq(t, d + 1, n)[i] = t[d + 1 + i - 1]
    BY <2>1, <2>2, SubSeqProperties
  <2>4. n - (d + 1) + 1 = la + lb /\ \A i \in 1..la + lb : d + 1 + i - 1 = d + i
    BY <1>1, <1>4, <1>6
  <2> QED BY <1>4, <2>3, <2>4
<1>8. \A i \in 1..lb : b[i] = t[n - lb + i]
  <2> SUFFICES ASSUME NEW i \in 1..lb PROVE b[i] = t[n - lb + i]
    OBVIOUS
  <2>1. PICK j : j = la + i
    OBVIOUS
  <2>2. j \in 1..la + lb /\ ~(j <= la) /\ j - la = i /\ d + j = n - lb + i
    BY <1>1, <1>4, <1>6, <2>1
  <2> QED BY <1>3, <1>7, <2>2
<1>9. n - lb + 1 \in Int /\ n \in Int /\ lb <= n /\ \A i \in n - lb + 1..n : i \in 1..n
  BY <1>1, <1>4
<1>10. \A i \in n - lb + 1..n : t[i] \in S
  BY <1>5, <1>9
<1>11. /\ e \in Seq(S) /\ Len(e) = IF n - lb + 1 <= n THEN n - (n - lb + 1) + 1 ELSE 0
       /\ \A i \in 1..n - (n - lb + 1) + 1 : e[i] = t[n - lb + 1 + i - 1]
  BY <1>9, <1>10, SubSeqProperties
<1> HIDE DEF e
<1>12. n - (n - lb + 1) + 1 = lb /\ Len(e) = lb /\ \A i \in 1..lb : n - lb + 1 + i - 1 = n - lb + i
  BY <1>1, <1>11
<1>13. \A i \in 1..lb : b[i] = e[i]
  BY <1>8, <1>11, <1>12
<1>14. b = e
  BY <1>11, <1>12, <1>13, SeqEqual DEF lb
<1> QED BY <1>9, <1>14 DEF Tails, e, lb, n

-----------------------------------------------------------------------------
(* What a merge writes.                                                    *)

LEMMA LiveIs == \A c : Live(c) = LiveIn(c, chunk)
BY DEF Live, LiveIn

LEMMA RowsIs == \A cs : Rows(cs) = ListIn(cs, chunk)
BY LiveIs DEF Rows, ListIn, LivesIn

LEMMA TradesIs == Trades = ListIn(head.chunks, chunk)
BY RowsIs DEF Trades

\* The chunks that keep their number hold the end of the new list.
LEMMA KeptIs ==
    ASSUME NEW loaded, loaded.next \in Nat, ChunksOK(loaded.chunks, loaded.next, chunk),
           NEW trades \in Seq(Nat)
    PROVE  /\ ChunksOK(KeptChunks(loaded, trades), loaded.next, chunk)
           /\ Tails(ListIn(KeptChunks(loaded, trades), chunk), trades)
<1> DEFINE next     == loaded.next
           live(c)  == {j \in 0..Len(Live(c)) : j > 0 => Live(c)[j] \in Range(trades)}
           cut(c)   == CutTo(c, trades)
           some     == Ascending({i \in DOMAIN loaded.chunks : cut(loaded.chunks[i]).count > 0})
           left     == [i \in DOMAIN some |-> cut(loaded.chunks[some[i]])]
           ends     == {i \in 1..Len(left) + 1 : IsSuffix(Rows(SubSeq(left, i, Len(left))), trades)}
           first    == CHOOSE i \in ends : \A j \in 1..Len(left) + 1 : j < i => j \notin ends
           kept     == SubSeq(left, first, Len(left))
<1>1. loaded.chunks \in Seq(Chunk) /\ Len(loaded.chunks) \in Nat
      /\ DOMAIN loaded.chunks = 1..Len(loaded.chunks)
  BY LenProperties DEF ChunksOK
<1>2. ASSUME NEW c \in Chunk, ChunkOK(c, next, chunk)
      PROVE  cut(c) \in Chunk /\ cut(c).n = c.n /\ cut(c).count <= c.count
  <2>1. Live(c) \in Seq(Nat) /\ Len(Live(c)) = c.count /\ c.count \in Nat
    BY <1>2, LiveIs, LiveType
  <2> DEFINE S == live(c)
  <2>2. 0 \in S /\ S \subseteq 0..c.count
    BY <2>1
  <2> HIDE DEF S
  <2>3. IsFiniteSet(S) /\ S \in SUBSET Int /\ S # {}
    <3>1. 0 \in Int /\ c.count \in Int /\ S \in SUBSET (0..c.count)
      BY <2>1, <2>2
    <3>2. \A b \in Int : S \in SUBSET (0..b) => IsFiniteSet(S)
      BY <3>1, IntervalsFinite
    <3>3. IsFiniteSet(S)
      BY <3>1, <3>2
    <3>4. 0..c.count \subseteq Int
      BY <3>1
    <3> QED BY <2>2, <3>3, <3>4
  <2>4. \E j \in S : \A k \in S : k <= j
    BY <2>3, MaxExists
  <2>5. (CHOOSE j \in S : \A k \in S : k <= j) \in S
    BY <2>4
  <2>6. cut(c) = [c EXCEPT !.count = CHOOSE j \in S : \A k \in S : k <= j]
    BY DEF S, CutTo
  <2> DEFINE d == CHOOSE j \in S : \A k \in S : k <= j
  <2>7. d \in Nat /\ d <= c.count /\ cut(c) = [c EXCEPT !.count = d]
    BY <2>1, <2>2, <2>5, <2>6
  <2> HIDE DEF d, cut
  <2> QED BY <2>7 DEF Chunk
<1> DEFINE D == {i \in DOMAIN loaded.chunks : cut(loaded.chunks[i]).count > 0}
<1>3. \A i \in 1..Len(loaded.chunks) : loaded.chunks[i] \in Chunk /\ ChunkOK(loaded.chunks[i], next, chunk)
  BY <1>1, ElementOfSeq DEF ChunksOK
<1>4. some \in Seq(D) /\ D \subseteq 1..Len(loaded.chunks)
  <2> DEFINE K == Cardinality(D)
  <2>1. D \subseteq 1..Len(loaded.chunks)
    BY <1>1
  <2> HIDE DEF D
  <2>2. IsFiniteSet(D) /\ D \in SUBSET Nat
    <3>1. 1 \in Int /\ Len(loaded.chunks) \in Int /\ D \in SUBSET (1..Len(loaded.chunks))
      BY <1>1, <2>1
    <3>2. IsFiniteSet(D)
      BY <3>1, IntervalsFinite
    <3>3. 1..Len(loaded.chunks) \subseteq Nat
      BY <1>1
    <3> QED BY <2>1, <3>2, <3>3
  <2>3. K = Cardinality(D)
    OBVIOUS
  <2> HIDE DEF K
  <2>4. Ascending(D) \in Seq(D)
    BY <2>2, <2>3, AscendingIs
  <2> QED BY <2>1, <2>4 DEF D
<1>5. ChunksOK(left, next, chunk)
  <2>1. DOMAIN some = 1..Len(some) /\ Len(some) \in Nat
    BY <1>4, LenProperties
  <2>2. \A i \in 1..Len(some) : some[i] \in D
    BY <1>4, ElementOfSeq
  <2>3. \A i \in 1..Len(some) : left[i] = cut(loaded.chunks[some[i]])
    BY <2>1
  <2>4. \A i \in 1..Len(some) : some[i] \in 1..Len(loaded.chunks) /\ cut(loaded.chunks[some[i]]).count > 0
    BY <2>2, <1>4
  <2>5. left = [i \in 1..Len(some) |-> cut(loaded.chunks[some[i]])]
    BY <2>1
  <2> HIDE DEF left, some, D, cut
  <2>6. \A i \in 1..Len(some) : left[i] \in Chunk /\ ChunkOK(left[i], next, chunk)
    <3> SUFFICES ASSUME NEW i \in 1..Len(some) PROVE left[i] \in Chunk /\ ChunkOK(left[i], next, chunk)
      OBVIOUS
    <3>1. PICK c : c = loaded.chunks[some[i]]
      OBVIOUS
    <3>2. c \in Chunk /\ ChunkOK(c, next, chunk) /\ cut(c).count > 0 /\ left[i] = cut(c)
      BY <1>3, <2>3, <2>4, <3>1
    <3>3. cut(c) \in Chunk /\ cut(c).n = c.n /\ cut(c).count <= c.count
      BY <1>2, <3>2
    <3>4. c.count \in 1..Len(chunk[c.n]) /\ Len(chunk[c.n]) \in Nat /\ cut(c).count \in Nat
      BY <3>2, <3>3, LenProperties DEF ChunkOK, Chunk
    <3>5. cut(c).count \in 1..Len(chunk[c.n])
      BY <3>2, <3>3, <3>4
    <3> QED BY <3>2, <3>3, <3>5 DEF ChunkOK
  <2>7. left \in [1..Len(some) -> Chunk]
    BY <2>3, <2>5, <2>6
  <2>8. left \in Seq(Chunk) /\ Len(left) = Len(some)
    BY <2>1, <2>7
  <2> QED BY <2>6, <2>8 DEF ChunksOK
<1> HIDE DEF left, some, cut, D
<1> DEFINE m == Len(left)
<1>6. m \in Nat /\ left \in Seq(Chunk)
  BY <1>5, LenProperties DEF ChunksOK
<1>7. m + 1 \in ends
  <2>1. SubSeq(left, m + 1, m) = <<>>
    BY <1>6, SubSeqEmpty
  <2>2. Rows(<<>>) = <<>>
    <3>1. [i \in DOMAIN <<>> |-> Live(<<>>[i])] = <<>>
      OBVIOUS
    <3> QED BY <3>1, FlattenNone DEF Rows
  <2>3. IsSuffix(<<>>, trades)
    <3>1. Reverse(<<>>) = <<>>
      BY DEF Reverse
    <3>2. Reverse(trades) \in Seq(Nat) /\ Len(Reverse(trades)) \in Nat
      <4>1. Len(trades) \in Nat /\ \A i \in 1..Len(trades) : (Len(trades) - i) + 1 \in 1..Len(trades)
        BY LenProperties
      <4>2. \A i \in 1..Len(trades) : trades[(Len(trades) - i) + 1] \in Nat
        BY <4>1, ElementOfSeq
      <4>3. Reverse(trades) \in [1..Len(trades) -> Nat]
        BY <4>2 DEF Reverse
      <4>4. Reverse(trades) \in Seq(Nat)
        BY <4>1, <4>3
      <4> QED BY <4>4, LenProperties
    <3>3. Len(<<>>) = 0 /\ SubSeq(<<>>, 1, 0) = <<>> /\ SubSeq(Reverse(trades), 1, 0) = <<>>
      BY SubSeqEmpty, EmptySeq
    <3> QED BY <3>1, <3>2, <3>3 DEF IsSuffix, IsPrefix
  <2>4. Rows(SubSeq(left, m + 1, m)) = <<>>
    BY <2>1, <2>2, Zenon
  <2>5. IsSuffix(Rows(SubSeq(left, m + 1, m)), trades)
    BY <2>3, <2>4, Zenon
  <2>6. m + 1 \in 1..m + 1
    BY <1>6
  <2> QED BY <2>5, <2>6, Zenon
<1>8. first \in ends
  <2>2. ends \subseteq 1..m + 1
    OBVIOUS
  <2> HIDE DEF ends
  <2>1. ends \in SUBSET Nat /\ ends # {}
    BY <1>6, <1>7, <2>2
  <2>3. PICK i \in ends : \A j \in ends : i <= j
    BY <2>1, LeastExists
  <2>4. \A j \in 1..m + 1 : j < i => j \notin ends
    BY <2>1, <2>3
  <2> QED BY <2>3, <2>4
<1>9. first \in 1..m + 1 /\ IsSuffix(Rows(kept), trades)
  <2> HIDE DEF first
  <2> QED BY <1>8
<1> HIDE DEF first
<1>10. /\ ChunksOK(kept, next, chunk) /\ ListIn(kept, chunk) \in Seq(Nat)
       /\ Tails(ListIn(kept, chunk), trades)
  <2>1. m \in first - 1..m
    BY <1>6, <1>9
  <2>2. ChunksOK(kept, next, chunk)
    BY <1>5, <1>9, <2>1, PartOK
  <2> HIDE DEF kept
  <2>3. ListIn(kept, chunk) \in Seq(Nat)
    BY <2>2, LivesType
  <2>4. IsSuffix(ListIn(kept, chunk), trades)
    BY <1>9, RowsIs
  <2> QED BY <2>2, <2>3, <2>4, SuffixIs
<1>11. ASSUME kept # <<>>
       PROVE  /\ ChunksOK(Tail(kept), next, chunk)
              /\ Tails(ListIn(Tail(kept), chunk), trades)
  <2> HIDE DEF kept
  <2>1. kept \in Seq(Chunk) /\ Len(kept) \in Nat \ {0}
    BY <1>10, <1>11, EmptySeq DEF ChunksOK
  <2>2. Tail(kept) = SubSeq(kept, 2, Len(kept))
    BY <1>11, <2>1, TailIsSubSeq
  <2>3. 2 \in 1..Len(kept) + 1 /\ Len(kept) \in 2 - 1..Len(kept) /\ 1 \in 0..Len(kept)
    BY <2>1
  <2>4. ChunksOK(SubSeq(kept, 2, Len(kept)), next, chunk)
    BY <1>10, <2>3, PartOK
  <2> DEFINE a == ListIn(SubSeq(kept, 1, 1), chunk)
             b == ListIn(SubSeq(kept, 1 + 1, Len(kept)), chunk)
  <2>5. a \in Seq(Nat) /\ b \in Seq(Nat) /\ ListIn(kept, chunk) = a \o b
    BY <1>10, <2>3, ListSplit
  <2>6. b = ListIn(Tail(kept), chunk)
    <3>1. 1 + 1 = 2
      OBVIOUS
    <3> QED BY <2>2, <3>1
  <2> HIDE DEF a, b
  <2>7. Tails(b, trades)
    BY <1>10, <2>5, TailsBehind
  <2> QED BY <2>2, <2>4, <2>6, <2>7
<1>12. KeptChunks(loaded, trades)
       = IF kept # <<>> /\ kept[1].count < TRADE_CHUNK /\ Rows(kept) # trades THEN Tail(kept) ELSE kept
  <2>1. CutsTo(loaded.chunks, trades) = left
    BY DEF CutsTo, left, some, cut
  <2>2. Ending(left, trades) = kept
    BY DEF Ending, kept, first
  <2> QED BY <2>1, <2>2 DEF KeptChunks, Untouched
<1> HIDE DEF kept
<1> QED BY <1>10, <1>11, <1>12

\* So many chunks take the rest of a list, and no fewer.
LEMMA ChunksOfRest ==
    ASSUME NEW rest \in Nat, NEW c \in Nat \ {0}, NEW m, m = (rest + c - 1) \div c
    PROVE  m \in Nat /\ rest - m * c <= 0 /\ \A j \in 0..m - 1 : rest - j * c \in 1..rest
<1>1. rest + c - 1 \in Nat /\ c \in Nat /\ c > 0
  OBVIOUS
<1>2. m \in Nat /\ m * c <= rest + c - 1 /\ rest + c - 1 < (m + 1) * c
  BY <1>1
<1>3. (m + 1) * c = m * c + c /\ (m - 1) * c = m * c - c /\ m * c \in Int
  BY <1>1, <1>2
<1>4. ASSUME NEW j \in 0..m - 1 PROVE rest - j * c \in 1..rest
  <2>1. PICK k : k = m - 1 - j
    OBVIOUS
  <2>2. k \in Nat /\ j \in Nat /\ m - 1 = j + k
    BY <1>2, <2>1
  <2>3. (j + k) * c = j * c + k * c /\ k * c \in Nat /\ j * c \in Nat
    BY <1>1, <2>2
  <2>4. (m - 1) * c = j * c + k * c
    BY <2>2, <2>3
  <2> QED BY <1>1, <1>2, <1>3, <2>3, <2>4
<1> QED BY <1>1, <1>2, <1>3, <1>4

\* Where the rows of the rest end, newest number first.
EndsAt(e, m, rest, c) == m = (rest + c - 1) \div c /\ e = [i \in 0..m |-> rest - (m - i) * c]

RowsEnd(R, trades, e, m, c) ==
    \A i \in 1..m : R[i] = SubSeq(trades, IF e[i] > c THEN e[i] - c + 1 ELSE 1, e[i])

\* Rows cut from the end of a list's beginning, put together newest number first.
LEMMA RowsTogether ==
    ASSUME NEW trades \in Seq(Nat), NEW rest \in Nat, rest <= Len(trades), NEW c \in Nat \ {0},
           NEW m, NEW e, EndsAt(e, m, rest, c),
           NEW R \in Seq(Seq(Nat)), Len(R) = m, RowsEnd(R, trades, e, m, c)
    PROVE  FlattenSeq(R) = SubSeq(trades, 1, rest)
<1>1. m \in Nat /\ rest - m * c <= 0 /\ \A j \in 0..m - 1 : rest - j * c \in 1..rest
  BY ChunksOfRest DEF EndsAt
<1>2. \A i \in 0..m : e[i] = rest - (m - i) * c /\ e[i] \in Int
  BY <1>1 DEF EndsAt
<1>3. e[0] <= 0 /\ e[m] = rest
  <2>1. m - 0 = m /\ (m - m) * c = 0 /\ 0 \in 0..m /\ m \in 0..m
    BY <1>1
  <2>2. e[0] = rest - m * c /\ e[m] = rest - (m - m) * c
    BY <1>2, <2>1
  <2> QED BY <1>1, <2>1, <2>2
<1>4. \A i \in 0..m - 1 : e[i + 1] = e[i] + c
  <2> SUFFICES ASSUME NEW i \in 0..m - 1 PROVE e[i + 1] = e[i] + c
    OBVIOUS
  <2>1. i \in 0..m /\ i + 1 \in 0..m /\ m - i \in Nat /\ m - (i + 1) = (m - i) - 1
    BY <1>1
  <2>2. PICK k \in Nat : k = m - i
    BY <2>1
  <2>3. (k - 1) * c = k * c - c /\ k * c \in Int
    BY <2>2
  <2>4. e[i + 1] = rest - (k - 1) * c /\ e[i] = rest - k * c
    BY <1>2, <2>1, <2>2
  <2> QED BY <2>3, <2>4
<1>5. \A i \in 1..m : e[i] >= 1 /\ e[i] <= rest
  <2> SUFFICES ASSUME NEW i \in 1..m PROVE e[i] >= 1 /\ e[i] <= rest
    OBVIOUS
  <2>1. m - i \in 0..m - 1 /\ i \in 0..m
    BY <1>1
  <2>2. rest - (m - i) * c \in 1..rest
    BY <1>1, <2>1
  <2>3. e[i] = rest - (m - i) * c
    BY <1>2, <2>1
  <2>4. e[i] \in 1..rest
    BY <2>2, <2>3
  <2> QED BY ONLY <2>4, rest \in Nat
<1> DEFINE P(k) == k <= m => FlattenSeq(SubSeq(R, 1, k)) = SubSeq(trades, 1, e[k])
           N    == {k \in Nat : P(k)}
<1>6. P(0)
  <2>1. SubSeq(R, 1, 0) = <<>>
    BY SubSeqEmpty
  <2>2. SubSeq(trades, 1, e[0]) = <<>>
    <3>1. e[0] \in Int /\ 1 \in Int /\ e[0] < 1
      BY <1>1, <1>2, <1>3
    <3> QED BY <3>1, SubSeqEmpty
  <2> QED BY <2>1, <2>2, FlattenNone
<1>7. ASSUME NEW k \in Nat, P(k) PROVE P(k + 1)
  <2> SUFFICES ASSUME k + 1 <= m
               PROVE  FlattenSeq(SubSeq(R, 1, k + 1)) = SubSeq(trades, 1, e[k + 1])
    OBVIOUS
  <2>0. k <= m /\ m \in Nat
    BY <1>1
  <2>1. /\ SubSeq(R, 1, k) \in Seq(Seq(Nat)) /\ R[k + 1] \in Seq(Nat)
        /\ SubSeq(R, 1, k + 1) = Append(SubSeq(R, 1, k), R[k + 1])
    BY FirstsAppend
  <2>2. FlattenSeq(SubSeq(R, 1, k)) = SubSeq(trades, 1, e[k])
    BY <1>7, <2>0
  <2>3. FlattenSeq(SubSeq(R, 1, k + 1)) = SubSeq(trades, 1, e[k]) \o R[k + 1]
    <3>1. \A q \in Seq(Seq(Nat)), x \in Seq(Nat) : FlattenSeq(Append(q, x)) = FlattenSeq(q) \o x
      BY FlattenAppend
    <3> QED BY <2>1, <2>2, <3>1
  <2>4. PICK a, b : a = e[k] /\ b = e[k + 1]
    OBVIOUS
  <2>5. a \in Int /\ b = a + c /\ b \in 1..Len(trades) /\ Len(trades) \in Nat
    <3>1. k \in 0..m - 1 /\ k + 1 \in 1..m /\ k \in 0..m
      BY <1>1
    <3>2. Len(trades) \in Nat
      BY LenProperties
    <3>3. e[k] \in Int /\ e[k + 1] = e[k] + c /\ e[k + 1] >= 1 /\ e[k + 1] <= rest
      BY <1>2, <1>4, <1>5, <3>1
    <3>4. rest \in Nat /\ rest <= Len(trades)
      OBVIOUS
    <3>5. a \in Int /\ c \in Nat /\ b = a + c /\ b >= 1 /\ b <= rest
      BY <2>4, <3>3
    <3> QED BY ONLY <3>2, <3>4, <3>5
  <2>6. R[k + 1] = SubSeq(trades, IF b > c THEN b - c + 1 ELSE 1, b)
    <3>1. k + 1 \in 1..m
      BY <1>1
    <3> QED BY <2>4, <3>1 DEF RowsEnd
  <2>7. CASE b > c
    <3>1. /\ a \in 1 - 1..Len(trades) /\ b \in a..Len(trades) /\ 1 \in 1..Len(trades) + 1
          /\ b - c + 1 = a + 1
      BY <2>5, <2>7
    <3>2. SubSeq(trades, 1, a) \o SubSeq(trades, a + 1, b) = SubSeq(trades, 1, b)
      BY <3>1, ConcatAdjacentSubSeq
    <3>3. R[k + 1] = SubSeq(trades, a + 1, b)
      BY <2>6, <2>7, <3>1
    <3> QED BY <2>3, <2>4, <3>2, <3>3
  <2>8. CASE ~(b > c)
    <3>1. R[k + 1] = SubSeq(trades, 1, b) /\ a < 1 /\ 1 \in Int
      BY <2>5, <2>6, <2>8
    <3>2. SubSeq(trades, 1, a) = <<>>
      BY <2>5, <3>1, SubSeqEmpty
    <3>3. <<>> \o R[k + 1] = R[k + 1]
      BY <2>1, ConcatEmptySeq
    <3> QED BY <2>3, <2>4, <3>1, <3>2, <3>3
  <2> QED BY <2>7, <2>8
<1>8. P(m)
  <2> HIDE DEF P
  <2>1. 0 \in N /\ \A k \in Nat : k \in N => k + 1 \in N
    BY <1>6, <1>7
  <2> HIDE DEF N
  <2>2. m \in N
    BY <1>1, <2>1, SetInduction
  <2> QED BY <2>2 DEF N
<1>9. FlattenSeq(SubSeq(R, 1, m)) = SubSeq(trades, 1, rest)
  <2>1. m <= m
    BY <1>1
  <2> QED BY <1>3, <1>8, <2>1
<1> QED BY <1>9, SubSeqFull

\* Two runs of chunks, one after the other.
LEMMA ListJoin ==
    ASSUME NEW a, NEW b, NEW next \in Nat, NEW rows,
           ChunksOK(a, next, rows), ChunksOK(b, next, rows)
    PROVE  /\ ChunksOK(a \o b, next, rows)
           /\ ListIn(a \o b, rows) = ListIn(a, rows) \o ListIn(b, rows)
<1> DEFINE ab == a \o b
           la == Len(a)
           lb == Len(b)
           A  == LivesIn(a, rows)
           B  == LivesIn(b, rows)
<1>1. a \in Seq(Chunk) /\ b \in Seq(Chunk) /\ la \in Nat /\ lb \in Nat
  BY LenProperties DEF ChunksOK
<1>2. ab \in Seq(Chunk) /\ Len(ab) = la + lb
  BY <1>1, ConcatProperties
<1>3. \A i \in 1..la + lb : ab[i] = IF i <= la THEN a[i] ELSE b[i - la]
  BY <1>1, ConcatProperties
<1>4. \A i \in 1..la + lb : (i <= la => i \in 1..la) /\ (~(i <= la) => i - la \in 1..lb)
  BY <1>1
<1>5. ChunksOK(ab, next, rows)
  <2>1. \A i \in 1..la : ChunkOK(a[i], next, rows)
    BY DEF ChunksOK
  <2>2. \A i \in 1..lb : ChunkOK(b[i], next, rows)
    BY DEF ChunksOK
  <2> HIDE DEF ab, la, lb
  <2>3. ASSUME NEW i \in 1..la + lb PROVE ChunkOK(ab[i], next, rows)
    BY <1>3, <1>4, <2>1, <2>2
  <2> QED BY <1>2, <2>3 DEF ChunksOK
<1>6. /\ A \in Seq(Seq(Nat)) /\ Len(A) = la /\ B \in Seq(Seq(Nat)) /\ Len(B) = lb
      /\ \A i \in 1..la : A[i] = LiveIn(a[i], rows)
      /\ \A i \in 1..lb : B[i] = LiveIn(b[i], rows)
  BY LivesType
<1> DEFINE C == LivesIn(ab, rows)
           D == A \o B
<1>7. /\ C \in Seq(Seq(Nat)) /\ Len(C) = la + lb
      /\ \A i \in 1..la + lb : C[i] = LiveIn(ab[i], rows)
  <2> HIDE DEF ab
  <2>1. /\ C \in Seq(Seq(Nat)) /\ Len(C) = Len(ab)
        /\ \A i \in 1..Len(ab) : C[i] = LiveIn(ab[i], rows)
    BY <1>5, LivesType
  <2> HIDE DEF C, la, lb
  <2> QED BY <1>2, <2>1
<1> HIDE DEF ab, la, lb, A, B, C
<1>8. D \in Seq(Seq(Nat)) /\ Len(D) = la + lb
  BY <1>6, ConcatProperties
<1>9. \A i \in 1..la + lb : D[i] = IF i <= la THEN A[i] ELSE B[i - la]
  BY <1>6, ConcatProperties, ZenonT(60)
<1> HIDE DEF D
<1>10. \A i \in 1..la + lb : C[i] = D[i]
  <2> SUFFICES ASSUME NEW i \in 1..la + lb PROVE C[i] = D[i]
    OBVIOUS
  <2>1. CASE i <= la
    BY <1>3, <1>4, <1>6, <1>7, <1>9, <2>1
  <2>2. CASE ~(i <= la)
    BY <1>3, <1>4, <1>6, <1>7, <1>9, <2>2, ZenonT(60)
  <2> QED BY <2>1, <2>2
<1>11. C = D
  BY <1>7, <1>8, <1>10, SeqEqual
<1>12. FlattenSeq(D) = FlattenSeq(A) \o FlattenSeq(B)
  BY <1>6, FlattenConcat DEF D
<1> QED BY <1>5, <1>11, <1>12 DEF ListIn, C, D, ab, A, B

\* What saveTrades writes is the new list, whatever other chunks the store holds.
LEMMA LayoutIs ==
    ASSUME NEW loaded, loaded.next \in Nat, ChunksOK(loaded.chunks, loaded.next, chunk),
           NEW trades \in Seq(Nat), NEW later, NEW new, new = Layout(loaded, trades),
           \A n \in DOMAIN new.rows : n \in DOMAIN later /\ later[n] = new.rows[n],
           \A n \in DOMAIN chunk \ DOMAIN new.rows : n \in DOMAIN later /\ later[n] = chunk[n]
    PROVE  /\ new.head \in [next : Nat, chunks : Seq(Chunk)] /\ new.head.next >= loaded.next
           /\ \A n \in DOMAIN new.rows : n \in Nat /\ n >= loaded.next
           /\ ChunksOK(new.head.chunks, new.head.next, later)
           /\ ListIn(new.head.chunks, later) = trades
<1> DEFINE c     == TRADE_CHUNK
           kept  == KeptChunks(loaded, trades)
           K     == ListIn(kept, chunk)
           rest  == Len(trades) - Held(kept)
           m     == (rest + TRADE_CHUNK - 1) \div TRADE_CHUNK
           first == NextNumber(loaded)
           end(i) == rest - i * TRADE_CHUNK
           rows  == [n \in first..(first + m - 1) |->
                        LET e == end(n - first)
                        IN SubSeq(trades, IF e > TRADE_CHUNK THEN e - TRADE_CHUNK + 1 ELSE 1, e)]
           fresh == [i \in 1..m |-> [n |-> first + i - 1, count |-> Len(rows[first + i - 1])]]
           rev   == Reverse(fresh)
<1>1. new.rows = rows /\ new.head = [next |-> first + m, chunks |-> rev \o kept]
  BY DEF Layout
<1>2. c \in Nat \ {0}
  BY HistoryAssumption
<1>3. first = loaded.next /\ first \in Nat
  BY DEF NextNumber
<1>4. ChunksOK(kept, first, chunk) /\ Tails(K, trades)
  <2> HIDE DEF first
  <2> QED BY <1>3, KeptIs
<1> HIDE DEF kept
<1>5. K \in Seq(Nat) /\ Held(kept) = Len(K) /\ Len(K) \in Nat /\ Len(trades) \in Nat
  BY <1>3, <1>4, HeldIs, LivesType, LenProperties
<1>6. rest \in Nat /\ rest <= Len(trades) /\ K = SubSeq(trades, rest + 1, Len(trades))
  BY <1>4, <1>5 DEF Tails
<1> HIDE DEF rest, K
<1>7. m \in Nat /\ rest - m * c <= 0 /\ \A j \in 0..m - 1 : rest - j * c \in 1..rest
  BY <1>2, <1>6, ChunksOfRest
<1> HIDE DEF m
<1>8. ASSUME NEW n \in first..(first + m - 1), NEW e, e = rest - (n - first) * c
      PROVE  /\ rows[n] = SubSeq(trades, IF e > c THEN e - c + 1 ELSE 1, e)
             /\ rows[n] \in Seq(Nat) /\ Len(rows[n]) \in Nat \ {0}
  <2>1. n - first \in 0..m - 1
    BY <1>3, <1>7
  <2>2. e \in 1..rest
    BY <1>7, <1>8, <2>1
  <2>3. rows[n] = SubSeq(trades, IF e > c THEN e - c + 1 ELSE 1, e)
    BY <1>8
  <2>4. PICK b : b = IF e > c THEN e - c + 1 ELSE 1
    OBVIOUS
  <2>5. b \in Int /\ e \in Int /\ b <= e /\ b >= 1 /\ \A i \in b..e : i \in 1..Len(trades)
    BY <1>2, <1>5, <1>6, <2>2, <2>4
  <2>6. \A i \in b..e : trades[i] \in Nat
    BY <2>5, ElementOfSeq
  <2>7. SubSeq(trades, b, e) \in Seq(Nat) /\ Len(SubSeq(trades, b, e)) = e - b + 1
    BY <2>5, <2>6, SubSeqProperties
  <2>8. e - b + 1 \in Nat \ {0}
    BY <2>5
  <2> QED BY <2>3, <2>4, <2>7, <2>8
<1>9. DOMAIN rows = first..(first + m - 1)
  OBVIOUS
<1> HIDE DEF rows, first
<1>10. /\ fresh \in [1..m -> Chunk] /\ fresh \in Seq(Chunk) /\ Len(fresh) = m
  <2>1. \A i \in 1..m : first + i - 1 \in first..(first + m - 1)
    BY <1>3, <1>7
  <2>2. \A i \in 1..m : first + i - 1 \in Nat /\ Len(rows[first + i - 1]) \in Nat
    BY <1>3, <1>8, <2>1
  <2>3. fresh \in [1..m -> Chunk]
    BY <2>2 DEF Chunk
  <2> HIDE DEF fresh
  <2> QED BY <1>7, <2>3
<1>11. rev = [i \in 1..m |-> fresh[(m - i) + 1]]
  <2> HIDE DEF fresh
  <2> QED BY <1>10 DEF Reverse
<1>12. ASSUME NEW i \in 1..m
       PROVE  /\ first + m - i \in first..(first + m - 1)
              /\ rev[i] = [n |-> first + m - i, count |-> Len(rows[first + m - i])]
  <2>1. (m - i) + 1 \in 1..m /\ first + ((m - i) + 1) - 1 = first + m - i
    BY <1>3, <1>7
  <2>2. rev[i] = fresh[(m - i) + 1]
    BY <1>11
  <2>3. first + m - i \in first..(first + m - 1)
    BY <1>3, <1>7
  <2> QED BY <2>1, <2>2, <2>3
<1> HIDE DEF fresh
<1>13. rev \in Seq(Chunk) /\ Len(rev) = m
  <2>1. \A i \in 1..m : (m - i) + 1 \in 1..m
    BY <1>7
  <2>2. rev \in [1..m -> Chunk]
    BY <1>10, <1>11, <2>1
  <2>3. m \in Nat
    BY <1>7
  <2> HIDE DEF rev
  <2> QED BY ONLY <2>2, <2>3
<1> HIDE DEF rev
<1>14. \A n \in first..(first + m - 1) : n \in DOMAIN later /\ later[n] = rows[n]
  BY <1>1, <1>9
<1>15. first + m \in Nat /\ first <= first + m
  BY <1>3, <1>7
<1>16. ChunksOK(rev, first + m, later)
  <2> SUFFICES ASSUME NEW i \in 1..m PROVE ChunkOK(rev[i], first + m, later)
    BY <1>13 DEF ChunksOK
  <2>1. PICK n : n = first + m - i
    OBVIOUS
  <2>2. n \in first..(first + m - 1) /\ rev[i] = [n |-> n, count |-> Len(rows[n])]
    BY <1>12, <2>1
  <2>3. rows[n] \in Seq(Nat) /\ Len(rows[n]) \in Nat \ {0}
    BY <1>8, <2>2
  <2>4. n \in DOMAIN later /\ later[n] = rows[n]
    BY <1>14, <2>2
  <2>5. n \in 0..first + m - 1 /\ Len(rows[n]) \in 1..Len(rows[n])
    BY <1>3, <1>7, <2>2, <2>3
  <2>6. PICK d : d = rev[i]
    OBVIOUS
  <2>7. d.n = n /\ d.count = Len(rows[n])
    BY <2>2, <2>6
  <2>8. PICK to : to = first + m
    OBVIOUS
  <2>9. n \in 0..to - 1
    <3>1. to \in Nat /\ first + m - 1 = to - 1
      BY <1>15, <1>3, <1>7, <2>8
    <3> QED BY <2>5, <3>1
  <2>10. ChunkOK(d, to, later)
    BY <2>3, <2>4, <2>5, <2>7, <2>9 DEF ChunkOK
  <2> QED BY <2>6, <2>8, <2>10
<1>17. ListIn(rev, later) = SubSeq(trades, 1, rest)
  <2> DEFINE R == LivesIn(rev, later)
             g == [i \in 0..m |-> rest - (m - i) * c]
  <2>1. R \in Seq(Seq(Nat)) /\ Len(R) = m /\ \A i \in 1..m : R[i] = LiveIn(rev[i], later)
    BY <1>13, <1>15, <1>16, LivesType
  <2>2. ASSUME NEW i \in 1..m
        PROVE  R[i] = SubSeq(trades, IF g[i] > c THEN g[i] - c + 1 ELSE 1, g[i])
    <3>1. PICK n : n = first + m - i
      OBVIOUS
    <3>2. n \in first..(first + m - 1) /\ rev[i] = [n |-> n, count |-> Len(rows[n])]
      BY <1>12, <3>1
    <3>3. n - first = m - i /\ i \in 0..m
      BY <1>3, <1>7, <3>1
    <3>4. g[i] = rest - (n - first) * c
      BY <3>3
    <3> HIDE DEF g
    <3>5. rows[n] = SubSeq(trades, IF g[i] > c THEN g[i] - c + 1 ELSE 1, g[i]) /\ rows[n] \in Seq(Nat)
      BY <1>8, <3>2, <3>4
    <3>6. LiveIn(rev[i], later) = Slice(rows[n], 0, Len(rows[n]))
      BY <1>14, <3>2 DEF LiveIn
    <3>7. Slice(rows[n], 0, Len(rows[n])) = rows[n]
      <4>1. Len(rows[n]) \in Nat /\ 0 + 1 = 1
        BY <3>5, LenProperties
      <4>2. SubSeq(rows[n], 1, Len(rows[n])) = rows[n]
        BY <3>5, SubSeqFull
      <4> QED BY <4>1, <4>2 DEF Slice
    <3> QED BY <2>1, <3>5, <3>6, <3>7
  <2> HIDE DEF R, g
  <2>3. FlattenSeq(R) = SubSeq(trades, 1, rest)
    <3>1. EndsAt(g, m, rest, c)
      BY DEF EndsAt, m, g
    <3>2. RowsEnd(R, trades, g, m, c)
      BY <2>2 DEF RowsEnd
    <3>3. rest \in Nat /\ rest <= Len(trades) /\ c \in Nat \ {0}
      BY <1>2, <1>6
    <3> HIDE DEF c
    <3> QED BY <2>1, <3>1, <3>2, <3>3, RowsTogether
  <2> QED BY <2>3 DEF ListIn, R
<1>18. ChunksOK(kept, first + m, later) /\ ListIn(kept, later) = K
  <2>1. kept \in Seq(Chunk) /\ \A i \in 1..Len(kept) : kept[i].n \in DOMAIN chunk /\ kept[i].n \in 0..first - 1
    BY <1>4 DEF ChunksOK, ChunkOK
  <2>2. \A i \in 1..Len(kept) : kept[i].n \in DOMAIN later /\ later[kept[i].n] = chunk[kept[i].n]
    <3>1. \A i \in 1..Len(kept) : kept[i].n \notin first..(first + m - 1)
      BY <1>3, <1>7, <2>1
    <3> QED BY <1>1, <1>9, <2>1, <3>1
  <2> QED BY <1>3, <1>4, <1>15, <2>2, SameList DEF K
<1>19. /\ ChunksOK(rev \o kept, first + m, later)
       /\ ListIn(rev \o kept, later) = SubSeq(trades, 1, rest) \o K
  <2>1. PICK to \in Nat : to = first + m
    BY <1>15
  <2>2. ChunksOK(rev, to, later) /\ ChunksOK(kept, to, later)
    BY <1>16, <1>18, <2>1
  <2>3. /\ ChunksOK(rev \o kept, to, later)
        /\ ListIn(rev \o kept, later) = ListIn(rev, later) \o ListIn(kept, later)
    BY <2>2, ListJoin
  <2> QED BY <1>17, <1>18, <2>1, <2>3
<1>20. SubSeq(trades, 1, rest) \o K = trades
  <2>1. 1 \in 1..Len(trades) + 1 /\ rest \in 1 - 1..Len(trades) /\ Len(trades) \in rest..Len(trades)
    BY <1>5, <1>6
  <2>2. SubSeq(trades, 1, rest) \o SubSeq(trades, rest + 1, Len(trades)) = SubSeq(trades, 1, Len(trades))
    BY <2>1, ConcatAdjacentSubSeq
  <2> QED BY <1>6, <2>2, SubSeqFull
<1>21. rev \o kept \in Seq(Chunk)
  BY <1>19 DEF ChunksOK
<1>22. \A n \in DOMAIN new.rows : n \in Nat /\ n >= loaded.next
  BY <1>1, <1>3, <1>7, <1>9
<1>23. new.head.next = first + m /\ new.head.chunks = rev \o kept
       /\ new.head \in [next : Nat, chunks : Seq(Chunk)]
  BY <1>1, <1>15, <1>21
<1> QED BY <1>3, <1>15, <1>19, <1>20, <1>22, <1>23

-----------------------------------------------------------------------------
(* Lists of trades, newest first, and what they cover.                     *)

Falling(t) == \A i, j \in 1..Len(t) : i < j => t[i] > t[j]

\* A trade is in the list, or older than everything in a full one.
Covered(i, list) == i \in Range(list) \/ (Len(list) = MAX_TRADES /\ i < Last(list))

LEMMA RangeHas ==
    ASSUME NEW S, NEW s \in Seq(S)
    PROVE  Range(s) \subseteq S /\ Range(s) = {s[i] : i \in 1..Len(s)}
BY LenProperties, ElementOfSeq DEF Range

LEMMA FallingCount ==
    ASSUME NEW t \in Seq(Nat), Falling(t)
    PROVE  IsFiniteSet(Range(t)) /\ Cardinality(Range(t)) = Len(t)
<1> DEFINE n == Len(t)
           T == Range(t)
<1>1. n \in Nat /\ t \in [1..n -> Nat]
  BY LenProperties
<1>2. \A i \in 1..n : t[i] \in T /\ t[i] \in Nat
  BY <1>1, RangeHas
<1>3. T = {t[i] : i \in 1..n}
  BY RangeHas
<1> HIDE DEF T, n
<1>4. t \in [1..n -> T]
  BY <1>1, <1>2
<1>5. t \in Surjection(1..n, T)
  BY <1>3, <1>4 DEF Surjection
<1>6. IsFiniteSet(1..n) /\ Cardinality(1..n) = n
  BY <1>1, FS_Interval
<1>7. t \in Injection(1..n, T)
  <2>1. ASSUME NEW i \in 1..n, NEW j \in 1..n, t[i] = t[j] PROVE i = j
    <3>1. i \in Int /\ j \in Int
      BY <1>1
    <3>2. t[i] \in Nat /\ t[j] \in Nat
      BY <1>2
    <3>3. ~(i < j) /\ ~(j < i)
      BY <2>1, <3>2 DEF Falling, n
    <3> QED BY <3>1, <3>3
  <2> QED BY <1>4, <2>1 DEF Injection, IsInjective
<1>8. IsFiniteSet(T) /\ Cardinality(T) = Cardinality(1..n)
  BY <1>5, <1>6, <1>7, FS_Surjection
<1> QED BY <1>6, <1>8 DEF T, n

LEMMA LastIsLeast ==
    ASSUME NEW t \in Seq(Nat), Falling(t), NEW x \in Range(t)
    PROVE  Len(t) > 0 /\ Last(t) \in Range(t) /\ Last(t) \in Nat /\ x \in Nat /\ Last(t) <= x
<1>1. Len(t) \in Nat
  BY LenProperties
<1>2. PICK i \in 1..Len(t) : x = t[i]
  BY RangeHas
<1>3. Len(t) \in 1..Len(t)
  BY <1>1
<1>4. t[i] \in Nat /\ t[Len(t)] \in Nat /\ t[Len(t)] \in Range(t)
  BY <1>3, RangeHas, ElementOfSeq
<1>5. t[Len(t)] <= t[i]
  <2>1. CASE i = Len(t)
    BY <1>4, <2>1
  <2>2. CASE i < Len(t)
    BY <1>3, <1>4, <2>2 DEF Falling
  <2> QED BY <1>1, <2>1, <2>2
<1> QED BY <1>1, <1>2, <1>3, <1>4, <1>5 DEF Last

\* The newest of a set of trades, as many as a list holds, cover all of it.
LEMMA TopIs ==
    ASSUME NEW N \in Nat, NEW A \in SUBSET (1..N),
           NEW t, t = Slice(Reverse(Ascending(A)), 0, MAX_TRADES)
    PROVE  /\ t \in Seq(Nat) /\ Falling(t) /\ Len(t) <= MAX_TRADES
           /\ Range(t) \subseteq A /\ \A x \in A : Covered(x, t)
<1> DEFINE a == Ascending(A)
           r == Reverse(a)
           n == Cardinality(A)
           e == Least(MAX_TRADES, n)
<1>1. IsFiniteSet(A) /\ A \in SUBSET Nat
  <2>1. 1 \in Int /\ N \in Int
    OBVIOUS
  <2>2. IsFiniteSet(A)
    BY <2>1, IntervalsFinite
  <2> QED BY <2>2
<1>2. /\ n \in Nat /\ a \in Seq(A) /\ Len(a) = n
      /\ Rising(a, n) /\ \A x \in A : \E i \in 1..n : a[i] = x
  <2> HIDE DEF a, n
  <2>1. n = Cardinality(A)
    BY DEF n
  <2> QED BY <1>1, <2>1, AscendingIs DEF a
<1>3. MAX_TRADES \in Nat /\ MAX_TRADES > 0
  BY HistoryAssumption
<1> HIDE DEF a, n
<1>4. e \in Nat /\ e <= n /\ e <= MAX_TRADES /\ (e < n => e = MAX_TRADES)
  BY <1>2, <1>3 DEF Least
<1>5. \A i \in 1..n : a[i] \in A /\ a[i] \in Nat
  BY <1>1, <1>2, ElementOfSeq
<1>6. \A i \in 1..n : (n - i) + 1 \in 1..n
  BY <1>2
<1>7. r = [i \in 1..n |-> a[(n - i) + 1]]
  BY <1>2 DEF Reverse
<1>8. r \in Seq(Nat) /\ Len(r) = n /\ \A i \in 1..n : r[i] = a[(n - i) + 1]
  <2>1. r \in [1..n -> Nat]
    BY <1>5, <1>6, <1>7
  <2>2. \A i \in 1..n : r[i] = a[(n - i) + 1]
    BY <1>7
  <2> HIDE DEF r
  <2>3. r \in Seq(Nat) /\ Len(r) = n
    BY <1>2, <2>1
  <2> QED BY <2>2, <2>3
<1> HIDE DEF r
<1>9. t \in Seq(Nat) /\ Len(t) = e /\ \A i \in 1..e : t[i] = r[i]
  <2>1. t = Slice(r, 0, MAX_TRADES)
    BY DEF r, a
  <2>2. /\ t \in Seq(Nat)
        /\ Len(t) = IF 0 < Least(MAX_TRADES, Len(r)) THEN Least(MAX_TRADES, Len(r)) - 0 ELSE 0
        /\ \A i \in 1..Least(MAX_TRADES, Len(r)) - 0 : t[i] = r[0 + i]
    <3>1. 0 \in Nat /\ MAX_TRADES \in Nat /\ r \in Seq(Nat)
      BY <1>3, <1>8
    <3> DEFINE z == Slice(r, 0, MAX_TRADES)
               f == Least(MAX_TRADES, Len(r))
    <3>2. /\ z \in Seq(Nat) /\ Len(z) = IF 0 < f THEN f - 0 ELSE 0
          /\ \A i \in 1..f - 0 : z[i] = r[0 + i]
      BY <3>1, SliceIs
    <3> QED BY <2>1, <3>2
  <2>3. /\ Len(t) = IF 0 < e THEN e - 0 ELSE 0
        /\ \A i \in 1..e - 0 : t[i] = r[0 + i]
    BY <1>8, <2>2
  <2> HIDE DEF e
  <2>4. Len(t) = e /\ e - 0 = e
    BY <1>4, <2>3
  <2>5. \A i \in 1..e : 0 + i = i
    BY <1>4
  <2>6. \A i \in 1..e : t[i] = r[i]
    BY <2>3, <2>4, <2>5
  <2> QED BY <2>2, <2>4, <2>6
<1> HIDE DEF e
<1>10. \A i \in 1..e : t[i] = a[(n - i) + 1] /\ (n - i) + 1 \in 1..n /\ i \in 1..n
  <2> SUFFICES ASSUME NEW i \in 1..e
               PROVE  t[i] = a[(n - i) + 1] /\ (n - i) + 1 \in 1..n /\ i \in 1..n
    OBVIOUS
  <2>1. i \in 1..n
    BY <1>2, <1>4
  <2>2. t[i] = r[i] /\ r[i] = a[(n - i) + 1]
    BY <1>8, <1>9, <2>1
  <2> QED BY <1>6, <2>1, <2>2
<1>11. Range(t) \subseteq A
  <2>1. Range(t) = {t[i] : i \in 1..e}
    BY <1>9, RangeHas
  <2>2. \A i \in 1..e : t[i] \in A
    BY <1>5, <1>10
  <2> QED BY <2>1, <2>2
<1>12. Falling(t)
  <2> SUFFICES ASSUME NEW i \in 1..e, NEW j \in 1..e, i < j PROVE t[i] > t[j]
    BY <1>9 DEF Falling
  <2>1. PICK k, l : k = (n - i) + 1 /\ l = (n - j) + 1
    OBVIOUS
  <2>2. k \in 1..n /\ l \in 1..n /\ t[i] = a[k] /\ t[j] = a[l]
    BY <1>10, <2>1
  <2>3. l < k
    BY <1>2, <1>4, <2>1
  <2>4. a[l] < a[k] /\ a[l] \in Nat /\ a[k] \in Nat
    BY <1>2, <1>5, <2>2, <2>3 DEF Rising
  <2> QED BY <2>2, <2>4
<1>13. ASSUME NEW x \in A PROVE Covered(x, t)
  <2>1. PICK j \in 1..n : a[j] = x
    BY <1>2
  <2>2. PICK i : i = (n - j) + 1
    OBVIOUS
  <2>3. i \in 1..n /\ (n - i) + 1 = j
    BY <1>2, <2>2
  <2>4. CASE i <= e
    <3>1. i \in 1..e
      BY <1>4, <2>3, <2>4
    <3>2. t[i] = x
      BY <1>10, <2>1, <2>3, <3>1
    <3>3. t[i] \in Range(t)
      BY <1>9, <3>1, RangeHas
    <3> QED BY <3>2, <3>3 DEF Covered
  <2>5. CASE ~(i <= e)
    <3>1. e < n /\ e = MAX_TRADES
      BY <1>2, <1>4, <2>3, <2>5
    <3>2. e \in 1..e
      BY <1>3, <1>4, <3>1
    <3>3. PICK k : k = (n - e) + 1
      OBVIOUS
    <3>4. k \in 1..n /\ j < k /\ t[e] = a[k]
      BY <1>2, <1>4, <1>10, <2>3, <2>5, <3>2, <3>3
    <3>5. x < t[e]
      BY <1>2, <2>1, <3>4 DEF Rising
    <3> QED BY <1>9, <3>1, <3>5 DEF Covered, Last
  <2> QED BY <1>4, <2>3, <2>4, <2>5
<1> QED BY <1>4, <1>9, <1>11, <1>12, <1>13

\* What a list covered, the newest of its trades and others cover.
LEMMA CoveredStays ==
    ASSUME NEW N \in Nat, NEW A \in SUBSET (1..N),
           NEW t, t = Slice(Reverse(Ascending(A)), 0, MAX_TRADES),
           NEW list \in Seq(Nat), Falling(list), Range(list) \subseteq A,
           NEW x \in Nat, Covered(x, list)
    PROVE  Covered(x, t)
<1>1. /\ t \in Seq(Nat) /\ Falling(t) /\ Len(t) <= MAX_TRADES
      /\ Range(t) \subseteq A /\ \A y \in A : Covered(y, t)
  BY TopIs
<1>2. MAX_TRADES \in Nat /\ MAX_TRADES > 0 /\ Len(t) \in Nat
  BY <1>1, LenProperties, HistoryAssumption
<1>3. CASE x \in Range(list)
  BY <1>1, <1>3
<1>4. CASE x \notin Range(list)
  <2>1. Len(list) = MAX_TRADES /\ x < Last(list)
    BY <1>4 DEF Covered
  <2>2. \A y \in Range(list) : Last(list) <= y /\ y \in Nat /\ Last(list) \in Nat
    BY LastIsLeast
  <2>3. CASE \E y \in Range(list) : y \notin Range(t)
    <3>1. PICK y \in Range(list) : y \notin Range(t)
      BY <2>3
    <3>2. Len(t) = MAX_TRADES /\ y < Last(t)
      BY <1>1, <3>1 DEF Covered
    <3>3. Last(t) \in Nat
      <4>1. Len(t) \in 1..Len(t)
        BY <1>2, <3>2
      <4> QED BY <1>1, <4>1, ElementOfSeq DEF Last
    <3>4. x < Last(t)
      BY <2>1, <2>2, <3>1, <3>2, <3>3
    <3> QED BY <3>2, <3>4 DEF Covered
  <2>4. CASE \A y \in Range(list) : y \in Range(t)
    <3>1. IsFiniteSet(Range(t)) /\ Cardinality(Range(t)) = Len(t) /\ Cardinality(Range(list)) = MAX_TRADES
      BY <1>1, <2>1, FallingCount
    <3>2. Range(list) \in SUBSET Range(t)
      BY <2>4
    <3>3. Cardinality(Range(list)) <= Cardinality(Range(t))
      BY <3>1, <3>2, FS_Subset
    <3>4. Len(t) = MAX_TRADES
      BY <1>1, <1>2, <3>1, <3>3
    <3>5. Range(list) = Range(t)
      BY <3>1, <3>2, <3>4, FS_Subset
    <3>6. Last(t) \in Range(t) /\ Last(t) \in Nat
      <4>1. Len(t) \in 1..Len(t)
        BY <1>2, <3>4
      <4> QED BY <1>1, <4>1, RangeHas, ElementOfSeq DEF Last
    <3>7. x < Last(t)
      BY <2>1, <2>2, <3>5, <3>6
    <3> QED BY <3>4, <3>7 DEF Covered
  <2> QED BY <2>3, <2>4
<1> QED BY <1>3, <1>4

-----------------------------------------------------------------------------
(* What a pass keeps true of the store.                                    *)

Gap   == [lo : Nat, hi : Nat, above : Nat]
Heads == [next : Nat, chunks : Seq(Chunk)]
Days  == {None} \cup [from : Nat, counted : SUBSET Nat]

PassRecord ==
    [ pc : {"idle", "first", "scan", "read", "merge", "head", "delete", "record"},
      cursor : Nat, anchor : Nat, from : Nat \cup {None}, reached : BOOLEAN, n : Nat,
      before : Nat, previous : Gap \cup {None}, window : SUBSET Nat, last : Nat, fresh : SUBSET Nat,
      behind : BOOLEAN, day : Days, gone : SUBSET Nat, put : Heads \cup {None} ]

StoreTypes ==
    /\ chain \in Seq(BOOLEAN) /\ shown \in 0..Len(chain)
    /\ record \in [ cursor : Nat, anchor : Nat, from : Nat \cup {None}, behind : BOOLEAN, day : Days ]
    /\ head \in Heads /\ pass \in PassRecord
    /\ record.cursor <= Len(chain) /\ record.anchor <= Len(chain)
    /\ pass.cursor <= Len(chain) /\ pass.anchor <= Len(chain) /\ pass.before <= Len(chain)

\* The list that is stored.
Listed == ListIn(head.chunks, chunk)

\* A list as an index may name it: newest first, at most as many as are kept, of the chain.
ListOK(cs, next, rows) ==
    /\ ChunksOK(cs, next, rows)
    /\ Falling(ListIn(cs, rows)) /\ Len(ListIn(cs, rows)) <= MAX_TRADES
    /\ Range(ListIn(cs, rows)) \subseteq 1..Len(chain)

\* A list covers what succeeded from the start of a history to a cursor.
Claimed(from, cursor, list) ==
    from # None => \A i \in from + 1..cursor : chain[i] => Covered(i, list)

StoreOK ==
    /\ ListOK(head.chunks, head.next, chunk)
    /\ Claimed(record.from, record.cursor, Listed)

Scanning ==
    /\ Claimed(pass.from, pass.cursor, Listed) /\ pass.fresh = {}
    /\ pass.previous # None =>
          /\ pass.previous.lo + 1 = pass.before /\ pass.cursor <= pass.previous.lo
          /\ pass.previous.hi <= Len(chain) /\ pass.previous.above <= Len(chain)

Reading ==
    /\ Claimed(pass.from, pass.cursor, Listed) /\ pass.fresh = {}
    /\ pass.last <= Len(chain) /\ pass.window \subseteq 1..pass.last
    /\ pass.from # None =>
          \A i \in pass.from + 1..pass.last : chain[i] /\ i > pass.cursor => i \in pass.window

Merging ==
    /\ pass.fresh \subseteq 1..Len(chain)
    /\ pass.from # None =>
          \A i \in pass.from + 1..pass.cursor : chain[i] => i \in pass.fresh \/ Covered(i, Listed)

Numbers(cs) == {cs[i].n : i \in DOMAIN cs}

Writing ==
    /\ pass.put \in Heads /\ pass.put.next >= head.next
    /\ ListOK(pass.put.chunks, pass.put.next, chunk)
    /\ Claimed(record.from, record.cursor, ListIn(pass.put.chunks, chunk))
    /\ Claimed(pass.from, pass.cursor, ListIn(pass.put.chunks, chunk))
    /\ pass.gone \cap Numbers(pass.put.chunks) = {}

PassOK ==
    /\ pass.pc = "first" => pass.cursor = 0 /\ pass.fresh = {}
    /\ pass.pc = "scan" => Scanning
    /\ pass.pc = "read" => Reading
    /\ pass.pc = "merge" => Merging
    /\ pass.pc = "head" => Writing
    /\ pass.pc = "delete" => /\ Claimed(pass.from, pass.cursor, Listed)
                             /\ pass.gone \cap Numbers(head.chunks) = {}
    /\ pass.pc = "record" => Claimed(pass.from, pass.cursor, Listed)

StoreInv == StoreTypes /\ StoreOK /\ PassOK

LEMMA HistoryConstants ==
    /\ PAGE \in Nat \ {0} /\ SCAN_PAGES \in Nat \ {0} /\ INITIAL_SIGNATURES \in Nat \ {0}
    /\ PER_PASS \in Nat \ {0} /\ MAX_TRADES \in Nat \ {0} /\ TRADE_CHUNK \in Nat \ {0}
BY HistoryAssumption

LEMMA NoPassType ==
    /\ NoPass \in PassRecord
    /\ NoPass.pc = "idle" /\ NoPass.cursor = 0 /\ NoPass.anchor = 0 /\ NoPass.before = 0
    /\ NoPass.fresh = {} /\ NoPass.previous = None
<1> DEFINE pcs == {"idle", "first", "scan", "read", "merge", "head", "delete", "record"}
<1>1. None \in Nat \cup {None} /\ None \in Gap \cup {None} /\ None \in Heads \cup {None}
  OBVIOUS
<1>2. None \in Days
  BY DEF Days
<1>3. {} \in SUBSET Nat /\ 0 \in Nat /\ TRUE \in BOOLEAN /\ FALSE \in BOOLEAN /\ "idle" \in pcs
  OBVIOUS
<1> QED BY <1>1, <1>2, <1>3 DEF NoPass, PassRecord

LEMMA InitStore == Init => StoreInv
<1> SUFFICES ASSUME Init PROVE StoreInv
  OBVIOUS
<1>1. chain = <<>> /\ shown = 0 /\ pass = NoPass /\ head = [next |-> 0, chunks |-> <<>>] /\ chunk = <<>>
  BY DEF Init
<1>2. record = [ cursor |-> 0, anchor |-> 0, from |-> IF external THEN None ELSE 0,
                 behind |-> TRUE, day |-> None ]
  BY DEF Init
<1>3. chain \in Seq(BOOLEAN) /\ Len(chain) = 0
  BY <1>1
<1>4. head \in Heads
  BY <1>1 DEF Heads
<1>5. record \in [ cursor : Nat, anchor : Nat, from : Nat \cup {None}, behind : BOOLEAN, day : Days ]
  BY <1>2 DEF Days
<1>6. StoreTypes
  BY <1>1, <1>2, <1>3, <1>4, <1>5, NoPassType DEF StoreTypes
<1>7. Listed = <<>>
  <2>1. LivesIn(<<>>, chunk) = <<>>
    BY DEF LivesIn
  <2> QED BY <1>1, <2>1, FlattenNone DEF Listed, ListIn
<1>8. ListOK(head.chunks, head.next, chunk)
  <2>1. ChunksOK(<<>>, 0, chunk)
    BY EmptySeq DEF ChunksOK
  <2>2. Falling(<<>>) /\ Len(<<>>) <= MAX_TRADES
    BY HistoryConstants DEF Falling
  <2>3. Range(<<>>) = {}
    BY DEF Range
  <2> QED BY <1>1, <1>7, <2>1, <2>2, <2>3 DEF ListOK, Listed
<1>9. Claimed(record.from, record.cursor, Listed)
  <2>1. record.cursor = 0 /\ (record.from = 0 \/ record.from = None)
    BY <1>2
  <2> QED BY <2>1 DEF Claimed
<1>10. PassOK
  BY <1>1, NoPassType DEF PassOK
<1> QED BY <1>6, <1>8, <1>9, <1>10 DEF StoreInv, StoreOK

\* A step of a pass that leaves the store alone.
LEMMA PassAlone ==
    ASSUME StoreInv, UNCHANGED <<chain, shown, record, head, chunk>>, pass' \in PassRecord,
           pass'.cursor <= Len(chain), pass'.anchor <= Len(chain), pass'.before <= Len(chain), PassOK'
    PROVE  StoreInv'
<1>1. StoreTypes'
  BY DEF StoreInv, StoreTypes
<1>2. StoreOK'
  BY DEF StoreInv, StoreOK, ListOK, Claimed, Listed
<1> QED BY <1>1, <1>2 DEF StoreInv

LEMMA ClaimedSame ==
    ASSUME UNCHANGED <<chain, head, chunk>>
    PROVE  Listed' = Listed /\ \A from, cursor, list : Claimed(from, cursor, list)' <=> Claimed(from, cursor, list)
BY DEF Listed, Claimed

LEMMA BeginKeeps ==
    ASSUME StoreInv, BeginPass
    PROVE  StoreInv'
<1> DEFINE q == [NoPass EXCEPT
          !.pc = IF external /\ record.cursor = 0 /\ record.anchor = 0 THEN "first" ELSE "scan",
          !.cursor = record.cursor, !.anchor = record.anchor, !.from = record.from,
          !.before = record.anchor]
<1>1. pass' = q /\ UNCHANGED <<chain, shown, record, head, chunk>>
  BY DEF BeginPass, store
<1>2. /\ record.cursor \in Nat /\ record.anchor \in Nat /\ record.from \in Nat \cup {None}
      /\ record.cursor <= Len(chain) /\ record.anchor <= Len(chain)
  BY DEF StoreInv, StoreTypes
<1>3. q \in PassRecord
  <2>1. PICK v : v = IF external /\ record.cursor = 0 /\ record.anchor = 0 THEN "first" ELSE "scan"
    OBVIOUS
  <2>2. v \in {"idle", "first", "scan", "read", "merge", "head", "delete", "record"}
    BY <2>1
  <2>3. q = [NoPass EXCEPT !.pc = v, !.cursor = record.cursor, !.anchor = record.anchor,
                           !.from = record.from, !.before = record.anchor]
    BY <2>1
  <2> HIDE DEF q
  <2> QED BY <1>2, <2>2, <2>3, NoPassType, ZenonT(60) DEF PassRecord
<1>4. /\ q.pc = (IF external /\ record.cursor = 0 /\ record.anchor = 0 THEN "first" ELSE "scan")
      /\ q.cursor = record.cursor /\ q.anchor = record.anchor /\ q.from = record.from
      /\ q.before = record.anchor /\ q.fresh = {} /\ q.previous = None
  BY NoPassType DEF NoPass
<1> HIDE DEF q
<1>5. Claimed(record.from, record.cursor, Listed)
  BY DEF StoreInv, StoreOK
<1>6. Scanning'
  BY <1>1, <1>4, <1>5, ClaimedSame DEF Scanning, Claimed
<1>7. PassOK'
  BY <1>1, <1>4, <1>6 DEF PassOK
<1> QED BY <1>1, <1>2, <1>3, <1>4, <1>7, PassAlone

\* A window is planned: it holds what succeeded above the cursor, from the start of the history on.
LEMMA PlansKeep ==
    ASSUME StoreInv, UNCHANGED <<chain, shown, record, head, chunk>>,
           NEW lo \in Nat, NEW hi \in Nat, NEW anchor \in Nat, NEW from \in Nat \cup {None},
           Plans(lo, hi, anchor, from), hi <= Len(chain), anchor <= Len(chain), pass.fresh = {},
           Claimed(from, pass.cursor, Listed),
           from # None => \A i \in from + 1..hi : i > pass.cursor => i > lo
    PROVE  StoreInv'
<1> DEFINE q == [pass EXCEPT !.pc = "read", !.window = Window(lo, hi), !.anchor = anchor, !.last = hi,
                         !.from = from, !.reached = TRUE, !.previous = None, !.before = 0, !.n = 0]
<1>1. pass' = q
  BY DEF Plans
<1>2. pass \in PassRecord /\ pass.cursor <= Len(chain)
  BY DEF StoreInv, StoreTypes
<1>3. Window(lo, hi) \subseteq 1..hi /\ Window(lo, hi) \in SUBSET Nat
  BY DEF Window
<1>4. q \in PassRecord
  BY <1>2, <1>3 DEF PassRecord
<1>5. /\ q.pc = "read" /\ q.window = Window(lo, hi) /\ q.anchor = anchor /\ q.last = hi /\ q.from = from
      /\ q.before = 0 /\ q.fresh = {} /\ q.cursor = pass.cursor
  BY <1>2 DEF PassRecord
<1> HIDE DEF q
<1>6. from # None => \A i \in from + 1..hi : chain[i] /\ i > pass.cursor => i \in Window(lo, hi)
  <2> SUFFICES ASSUME from # None, NEW i \in from + 1..hi, chain[i], i > pass.cursor
               PROVE  i \in Window(lo, hi)
    OBVIOUS
  <2>1. i > lo /\ from \in Nat
    OBVIOUS
  <2>2. i \in lo + 1..hi
    BY <2>1
  <2> QED BY <2>2 DEF Window
<1>7. Reading'
  <2> SUFFICES /\ Claimed(from, pass.cursor, Listed') /\ pass'.last <= Len(chain)
               /\ \A i \in from + 1..hi : from # None /\ chain[i] /\ i > pass.cursor => i \in Window(lo, hi)
    BY <1>1, <1>3, <1>5 DEF Reading, Claimed
  <2> QED BY <1>1, <1>5, <1>6, ClaimedSame
<1>8. PassOK'
  BY <1>1, <1>5, <1>7 DEF PassOK
<1>9. Len(chain) \in Nat
  BY LenProperties DEF StoreInv, StoreTypes
<1> QED BY <1>1, <1>2, <1>4, <1>5, <1>8, <1>9, PassAlone

LEMMA FirstKeeps ==
    ASSUME StoreInv, ReadFirst
    PROVE  StoreInv'
<1>1. pass.pc = "first" /\ UNCHANGED <<chain, shown, record, head, chunk>>
  BY DEF ReadFirst, store
<1>2. pass.cursor = 0 /\ pass.fresh = {}
  BY <1>1 DEF StoreInv, PassOK
<1>3. Len(chain) \in Nat /\ shown \in Nat
  BY LenProperties DEF StoreInv, StoreTypes
<1>4. INITIAL_SIGNATURES \in Nat \ {0}
  BY HistoryConstants
<1> DEFINE lo(tip)   == IF tip > INITIAL_SIGNATURES THEN tip - INITIAL_SIGNATURES ELSE 0
           from(tip) == IF tip - lo(tip) < INITIAL_SIGNATURES THEN 0 ELSE lo(tip)
<1>5. PICK tip \in shown..Len(chain) : Plans(lo(tip), tip, 0, from(tip))
  BY DEF ReadFirst
<1>6. /\ tip \in Nat /\ tip <= Len(chain) /\ lo(tip) \in Nat /\ from(tip) \in Nat
      /\ lo(tip) <= from(tip) /\ 0 <= Len(chain)
  BY <1>3, <1>4
<1> DEFINE l == lo(tip)
           f == from(tip)
<1> HIDE DEF l, f
<1>7. l \in Nat /\ f \in Nat \cup {None} /\ f \in Nat /\ l <= f /\ Plans(l, tip, 0, f)
  BY <1>5, <1>6 DEF l, f
<1>8. Claimed(f, pass.cursor, Listed)
  BY <1>2, <1>7 DEF Claimed
<1>9. \A i \in f + 1..tip : i > l
  BY <1>6, <1>7
<1> QED BY <1>1, <1>2, <1>6, <1>7, <1>8, <1>9, PlansKeep

LEMMA SignaturesKeep ==
    ASSUME StoreInv, ReadSignatures
    PROVE  StoreInv'
<1> DEFINE top(tip) == IF pass.before = 0 THEN tip ELSE pass.before - 1
           hii(tip) == IF top(tip) < pass.cursor THEN pass.cursor ELSE top(tip)
           loo(tip) == IF hii(tip) - pass.cursor > PAGE THEN hii(tip) - PAGE ELSE pass.cursor
           from     == IF pass.cursor = 0 THEN 0 ELSE pass.from
           again    == pass.n + 1 < SCAN_PAGES
           Scans(before, previous) ==
               pass' = IF again
                       THEN [pass EXCEPT !.n = @ + 1, !.before = before, !.previous = previous]
                       ELSE [pass EXCEPT !.pc = "merge", !.reached = FALSE, !.behind = TRUE,
                                !.anchor = IF previous = None THEN 0 ELSE previous.above,
                                !.previous = None, !.before = 0, !.n = 0]
<1>1. pass.pc = "scan" /\ UNCHANGED <<chain, shown, record, head, chunk>>
  BY DEF ReadSignatures, store
<1>2. /\ Claimed(pass.from, pass.cursor, Listed) /\ pass.fresh = {}
      /\ pass.previous # None =>
          /\ pass.previous.lo + 1 = pass.before /\ pass.cursor <= pass.previous.lo
          /\ pass.previous.hi <= Len(chain) /\ pass.previous.above <= Len(chain)
  BY <1>1 DEF StoreInv, PassOK, Scanning
<1>3. /\ Len(chain) \in Nat /\ shown \in Nat /\ pass \in PassRecord
      /\ pass.cursor <= Len(chain) /\ pass.before <= Len(chain)
  BY LenProperties DEF StoreInv, StoreTypes
<1>4. /\ pass.cursor \in Nat /\ pass.before \in Nat /\ pass.from \in Nat \cup {None} /\ pass.n \in Nat
      /\ pass.previous \in Gap \cup {None}
  BY <1>3 DEF PassRecord
<1>5. PAGE \in Nat \ {0}
  BY HistoryConstants
<1>6. PICK tip \in shown..Len(chain) :
          CASE hii(tip) - loo(tip) >= PAGE ->
                  Scans(loo(tip) + 1, [lo |-> loo(tip), hi |-> hii(tip), above |-> pass.before])
            [] hii(tip) - loo(tip) \in 1..PAGE - 1 -> Plans(loo(tip), hii(tip), pass.before, from)
            [] hii(tip) = loo(tip) /\ pass.previous # None ->
                 Plans(pass.previous.lo, pass.previous.hi, pass.previous.above, from)
            [] hii(tip) = loo(tip) /\ pass.previous = None /\ pass.before = 0 -> Plans(0, 0, 0, from)
            [] OTHER -> Scans(0, None)
  BY DEF ReadSignatures
<1> DEFINE hi == hii(tip)
           lo == loo(tip)
<1>7. /\ hi \in Nat /\ hi <= Len(chain) /\ lo \in Nat /\ pass.cursor <= lo /\ lo <= hi
      /\ hi - lo <= PAGE /\ (hi - lo < PAGE => lo = pass.cursor)
  <2>1. tip \in Nat /\ tip <= Len(chain)
    BY <1>3
  <2>2. top(tip) \in Int /\ top(tip) <= Len(chain)
    BY <1>3, <1>4, <2>1
  <2>3. hi \in Nat /\ hi <= Len(chain) /\ pass.cursor <= hi
    BY <1>3, <1>4, <2>2
  <2>4. lo = IF hi - pass.cursor > PAGE THEN hi - PAGE ELSE pass.cursor
    OBVIOUS
  <2> HIDE DEF hi, lo
  <2> QED BY <1>4, <1>5, <2>3, <2>4
<1> HIDE DEF hii, loo
<1>9. /\ hi - lo >= PAGE => Scans(lo + 1, [lo |-> lo, hi |-> hi, above |-> pass.before])
      /\ hi - lo \in 1..PAGE - 1 => Plans(lo, hi, pass.before, from)
      /\ hi = lo /\ pass.previous # None =>
            Plans(pass.previous.lo, pass.previous.hi, pass.previous.above, from)
      /\ hi = lo /\ pass.previous = None /\ pass.before = 0 => Plans(0, 0, 0, from)
      /\ hi = lo /\ pass.previous = None /\ pass.before # 0 => Scans(0, None)
  <2>1. ~(hi - lo >= PAGE /\ hi - lo \in 1..PAGE - 1) /\ (hi = lo => ~(hi - lo >= PAGE) /\ hi - lo \notin 1..PAGE - 1)
    BY <1>5, <1>7
  <2> HIDE DEF hi, lo, from, again, Scans
  <2> QED BY <1>6, <2>1 DEF hi, lo
<1>10. hi - lo >= PAGE \/ hi - lo \in 1..PAGE - 1 \/ hi = lo
  BY <1>5, <1>7
<1>11. hi = lo => pass.cursor = hi
  BY <1>5, <1>7
<1>12. hi = lo /\ pass.before # 0 => pass.before - 1 <= pass.cursor
  <2>1. top(tip) = pass.before - 1 \/ pass.before = 0
    OBVIOUS
  <2> QED BY <1>4, <1>11, <2>1 DEF hii
<1> HIDE DEF top, hi, lo
<1>13. from \in Nat \cup {None} /\ Claimed(from, pass.cursor, Listed)
       /\ (from # None => \A i \in from + 1..Len(chain) : i > pass.cursor => i > 0)
  BY <1>2, <1>3, <1>4 DEF Claimed
\* The pass pages on, or gives up for now.
<1>14. ASSUME NEW before \in Nat, before <= Len(chain), NEW previous \in Gap \cup {None},
              Scans(before, previous),
              previous # None =>
                 /\ previous.lo + 1 = before /\ pass.cursor <= previous.lo
                 /\ previous.hi <= Len(chain) /\ previous.above <= Len(chain)
       PROVE  StoreInv'
  <2>1. CASE again
    <3>1. pass' = [pass EXCEPT !.n = @ + 1, !.before = before, !.previous = previous]
      BY <1>14, <2>1
    <3>2. pass' \in PassRecord
      <4>1. PICK k \in Nat : k = pass.n + 1
        BY <1>4
      <4>2. pass' = [pass EXCEPT !.n = k, !.before = before, !.previous = previous]
        BY <3>1, <4>1
      <4>3. before \in Nat /\ previous \in Gap \cup {None} /\ pass \in PassRecord
        BY <1>3, <1>14
      <4> QED BY <4>2, <4>3 DEF PassRecord
    <3>3. /\ pass'.pc = "scan" /\ pass'.before = before /\ pass'.previous = previous
          /\ pass'.cursor = pass.cursor /\ pass'.anchor = pass.anchor /\ pass'.from = pass.from
          /\ pass'.fresh = pass.fresh
      BY <1>1, <1>3, <3>1 DEF PassRecord
    <3>4. Claimed(pass.from, pass.cursor, Listed')
      BY <1>1, <1>2, ClaimedSame
    <3>5. Scanning'
      BY <1>1, <1>2, <1>14, <3>3, <3>4 DEF Scanning, Claimed
    <3>6. PassOK' /\ pass.anchor <= Len(chain)
      BY <3>3, <3>5 DEF PassOK, StoreInv, StoreTypes
    <3> QED BY <1>1, <1>3, <1>14, <3>2, <3>3, <3>6, PassAlone
  <2>2. CASE ~again
    <3> DEFINE anchor == IF previous = None THEN 0 ELSE previous.above
    <3>1. pass' = [pass EXCEPT !.pc = "merge", !.reached = FALSE, !.behind = TRUE, !.anchor = anchor,
                               !.previous = None, !.before = 0, !.n = 0]
      BY <1>14, <2>2
    <3>2. anchor \in Nat /\ anchor <= Len(chain)
      BY <1>3, <1>14 DEF Gap
    <3> HIDE DEF anchor
    <3>3. pass' \in PassRecord
      BY <1>3, <3>1, <3>2 DEF PassRecord
    <3>4. /\ pass'.pc = "merge" /\ pass'.anchor = anchor /\ pass'.before = 0
          /\ pass'.cursor = pass.cursor /\ pass'.from = pass.from /\ pass'.fresh = {}
      BY <1>2, <1>3, <3>1 DEF PassRecord
    <3>5. Merging'
      <4>1. Claimed(pass.from, pass.cursor, Listed')
        BY <1>1, <1>2, ClaimedSame
      <4> QED BY <1>1, <3>4, <4>1 DEF Merging, Claimed
    <3>6. PassOK'
      BY <3>4, <3>5 DEF PassOK
    <3> QED BY <1>1, <1>3, <3>2, <3>3, <3>4, <3>6, PassAlone
  <2> QED BY <2>1, <2>2
<1> HIDE DEF Scans, again, from
<1>15. CASE hi - lo >= PAGE
  <2> DEFINE previous == [lo |-> lo, hi |-> hi, above |-> pass.before]
  <2>1. Scans(lo + 1, previous)
    BY <1>9, <1>15
  <2>2. /\ previous \in Gap /\ previous.lo = lo /\ previous.hi = hi /\ previous.above = pass.before
    BY <1>4, <1>7 DEF Gap
  <2>3. lo + 1 \in Nat /\ lo + 1 <= Len(chain)
    BY <1>3, <1>5, <1>7, <1>15
  <2> HIDE DEF previous
  <2> QED BY <1>3, <1>7, <1>14, <2>1, <2>2, <2>3
<1>16. CASE hi - lo \in 1..PAGE - 1
  <2>1. Plans(lo, hi, pass.before, from) /\ lo = pass.cursor
    BY <1>5, <1>7, <1>9, <1>16
  <2>2. from # None => \A i \in from + 1..hi : i > pass.cursor => i > lo
    BY <2>1
  <2> QED BY <1>1, <1>2, <1>3, <1>4, <1>7, <1>13, <2>1, <2>2, PlansKeep
<1>17. CASE hi = lo /\ pass.previous # None
  <2>1. Plans(pass.previous.lo, pass.previous.hi, pass.previous.above, from)
    BY <1>9, <1>17
  <2>2. /\ pass.previous.lo \in Nat /\ pass.previous.hi \in Nat /\ pass.previous.above \in Nat
    BY <1>4, <1>17 DEF Gap
  <2>3. pass.previous.lo = pass.cursor
    <3>1. pass.previous.lo + 1 = pass.before /\ pass.cursor <= pass.previous.lo
      BY <1>2, <1>17
    <3>2. pass.before # 0
      BY <2>2, <3>1
    <3> QED BY <1>4, <1>12, <1>17, <2>2, <3>1, <3>2
  <2>4. from # None => \A i \in from + 1..pass.previous.hi : i > pass.cursor => i > pass.previous.lo
    BY <2>3
  <2> QED BY <1>1, <1>2, <1>13, <1>17, <2>1, <2>2, <2>4, PlansKeep
<1>18. CASE hi = lo /\ pass.previous = None /\ pass.before = 0
  <2>1. Plans(0, 0, 0, from)
    BY <1>9, <1>18
  <2>2. from # None => \A i \in from + 1..0 : i > pass.cursor => i > 0
    BY <1>13
  <2>3. 0 \in Nat /\ 0 <= Len(chain)
    BY <1>3
  <2> QED BY <1>1, <1>2, <1>13, <2>1, <2>2, <2>3, PlansKeep
<1>19. CASE hi = lo /\ pass.previous = None /\ pass.before # 0
  <2>1. Scans(0, None)
    BY <1>9, <1>19
  <2>2. 0 \in Nat /\ 0 <= Len(chain) /\ None \in Gap \cup {None}
    BY <1>3
  <2> QED BY <1>14, <2>1, <2>2
<1> QED BY <1>10, <1>15, <1>16, <1>17, <1>18, <1>19

\* The cursor moves up to what was read, and everything up to there was read or stored before.
LEMMA TransactionsKeep ==
    ASSUME StoreInv, ReadTransactions
    PROVE  StoreInv'
<1>1. pass.pc = "read" /\ UNCHANGED <<chain, shown, record, head, chunk>>
  BY DEF ReadTransactions, store
<1>2. /\ Claimed(pass.from, pass.cursor, Listed) /\ pass.fresh = {}
      /\ pass.last <= Len(chain) /\ pass.window \subseteq 1..pass.last
      /\ pass.from # None =>
          \A i \in pass.from + 1..pass.last : chain[i] /\ i > pass.cursor => i \in pass.window
  BY <1>1 DEF StoreInv, PassOK, Reading
<1>3. /\ Len(chain) \in Nat /\ pass \in PassRecord /\ pass.cursor <= Len(chain)
      /\ pass.anchor <= Len(chain) /\ pass.before <= Len(chain)
  BY LenProperties DEF StoreInv, StoreTypes
<1>4. /\ pass.cursor \in Nat /\ pass.last \in Nat /\ pass.window \in SUBSET Nat
      /\ pass.from \in Nat \cup {None}
  BY <1>3 DEF PassRecord
<1>5. PICK batch \in Batches :
          pass' = [pass EXCEPT !.pc = "merge", !.fresh = batch,
                            !.cursor = CursorAfter(batch, pass.window \ batch = {}),
                            !.behind = pass.anchor # 0 \/ pass.window \ batch # {},
                            !.window = {}, !.last = 0]
  BY DEF ReadTransactions, Readable
<1>6. batch \subseteq pass.window /\ \A i \in batch, j \in pass.window \ batch : i < j
  BY DEF Batches
<1> DEFINE cursor == CursorAfter(batch, pass.window \ batch = {})
           behind == pass.anchor # 0 \/ pass.window \ batch # {}
<1>7. /\ cursor \in Nat /\ cursor <= Len(chain)
      /\ \A i \in pass.window : i <= cursor /\ i > pass.cursor => i \in batch
      /\ cursor > pass.cursor => cursor <= pass.last
  <2>1. CASE pass.window \ batch = {} /\ pass.last # 0
    <3>1. cursor = pass.last
      BY <2>1 DEF CursorAfter
    <3>2. \A i \in pass.window : i \in batch
      BY <2>1
    <3> QED BY <1>2, <1>4, <3>1, <3>2
  <2>2. CASE ~(pass.window \ batch = {} /\ pass.last # 0) /\ batch = {}
    <3>1. cursor = pass.cursor
      BY <2>2 DEF CursorAfter
    <3>2. \A i \in pass.window : i \in Nat
      BY <1>4
    <3> HIDE DEF cursor
    <3> QED BY <1>3, <1>4, <3>1, <3>2
  <2>3. CASE ~(pass.window \ batch = {} /\ pass.last # 0) /\ batch # {}
    <3>1. cursor = Max(batch)
      BY <2>3 DEF CursorAfter
    <3>2. IsFiniteSet(batch) /\ batch \in SUBSET Int
      <4>1. batch \in SUBSET (1..pass.last) /\ 1 \in Int /\ pass.last \in Int
        BY <1>2, <1>4, <1>6
      <4>2. \A a, b \in Int : batch \in SUBSET (a..b) => IsFiniteSet(batch)
        BY IntervalsFinite
      <4>3. 1..pass.last \subseteq Int
        BY <1>4
      <4> QED BY <4>1, <4>2, <4>3
    <3>3. Max(batch) \in batch
      BY <2>3, <3>2, MaxIs
    <3> HIDE DEF cursor
    <3>4. cursor \in batch /\ cursor \in 1..pass.last
      BY <1>2, <1>6, <3>1, <3>3
    <3>5. ASSUME NEW i \in pass.window, i <= cursor PROVE i \in batch
      <4>1. i \in Nat /\ cursor \in Nat
        BY <1>4, <3>4
      <4>2. i \notin batch => cursor < i
        BY <1>6, <3>4
      <4> QED BY <3>5, <4>1, <4>2
    <3> QED BY <1>2, <1>3, <1>4, <3>4, <3>5
  <2> QED BY <2>1, <2>2, <2>3
<1> HIDE DEF cursor, behind
<1>8. pass' = [pass EXCEPT !.pc = "merge", !.fresh = batch, !.cursor = cursor, !.behind = behind,
                           !.window = {}, !.last = 0]
  BY <1>5 DEF cursor, behind
<1>9. pass' \in PassRecord
  <2>1. behind \in BOOLEAN /\ batch \in SUBSET Nat
    BY <1>4, <1>6 DEF behind
  <2> QED BY <1>3, <1>7, <1>8, <2>1 DEF PassRecord
<1>10. /\ pass'.pc = "merge" /\ pass'.fresh = batch /\ pass'.cursor = cursor /\ pass'.from = pass.from
       /\ pass'.anchor = pass.anchor /\ pass'.before = pass.before
  BY <1>3, <1>8 DEF PassRecord
<1>11. batch \subseteq 1..Len(chain)
  BY <1>2, <1>3, <1>4, <1>6
<1>12. ASSUME pass.from # None, NEW i \in pass.from + 1..cursor, chain[i]
       PROVE  i \in batch \/ Covered(i, Listed)
  <2>1. pass.from \in Nat /\ i \in Nat /\ i <= cursor
    BY <1>4, <1>7, <1>12
  <2>2. CASE i <= pass.cursor
    <3>1. i \in pass.from + 1..pass.cursor
      BY <1>4, <2>1, <2>2
    <3> QED BY <1>2, <1>12, <3>1 DEF Claimed
  <2>3. CASE i > pass.cursor
    <3>1. i \in pass.from + 1..pass.last
      BY <1>4, <1>7, <2>1, <2>3
    <3>2. i \in pass.window
      BY <1>2, <1>12, <2>3, <3>1
    <3> QED BY <1>7, <2>1, <2>3, <3>2
  <2> QED BY <1>4, <2>1, <2>2, <2>3
<1>13. Merging'
  BY <1>1, <1>10, <1>11, <1>12, ClaimedSame DEF Merging
<1>14. PassOK'
  BY <1>10, <1>13 DEF PassOK
<1> QED BY <1>1, <1>3, <1>7, <1>9, <1>10, <1>14, PassAlone

LEMMA FailureKeeps ==
    ASSUME StoreInv, RequestFails
    PROVE  StoreInv'
<1>1. UNCHANGED <<chain, shown, record, head, chunk>>
      /\ pass' = [NoPass EXCEPT !.pc = "merge", !.cursor = record.cursor, !.anchor = record.anchor,
                              !.from = record.from, !.behind = TRUE]
  BY DEF RequestFails, store
<1>2. /\ record.cursor \in Nat /\ record.anchor \in Nat /\ record.from \in Nat \cup {None}
      /\ record.cursor <= Len(chain) /\ record.anchor <= Len(chain) /\ Len(chain) \in Nat
  BY LenProperties DEF StoreInv, StoreTypes
<1>3. pass' \in PassRecord
  BY <1>1, <1>2, NoPassType DEF PassRecord
<1>4. /\ pass'.pc = "merge" /\ pass'.cursor = record.cursor /\ pass'.anchor = record.anchor
      /\ pass'.from = record.from /\ pass'.before = 0 /\ pass'.fresh = {}
  BY <1>1, NoPassType DEF NoPass
<1>5. Claimed(record.from, record.cursor, Listed')
  BY <1>1, ClaimedSame DEF StoreInv, StoreOK
<1>6. Merging'
  BY <1>1, <1>4, <1>5 DEF Merging, Claimed
<1>7. PassOK'
  BY <1>4, <1>6 DEF PassOK
<1> QED BY <1>1, <1>2, <1>3, <1>4, <1>7, PassAlone

LEMMA CrashKeeps ==
    ASSUME StoreInv, Crash
    PROVE  StoreInv'
<1>1. UNCHANGED <<chain, shown, record, head, chunk>> /\ pass' = NoPass
  BY DEF Crash, store
<1>2. Len(chain) \in Nat
  BY LenProperties DEF StoreInv, StoreTypes
<1>3. pass'.pc = "idle" /\ pass' \in PassRecord
  BY <1>1, NoPassType
<1>4. PassOK'
  BY <1>3 DEF PassOK
<1> QED BY <1>1, <1>2, <1>3, <1>4, NoPassType, PassAlone

\* The list an index names stays what it is while its rows do.
LEMMA ListStays ==
    ASSUME NEW cs, NEW next \in Nat, ListOK(cs, next, chunk), NEW rows, NEW to \in Nat, next <= to,
           \A i \in 1..Len(cs) : cs[i].n \in DOMAIN rows /\ rows[cs[i].n] = chunk[cs[i].n]
    PROVE  ListOK(cs, to, rows) /\ ListIn(cs, rows) = ListIn(cs, chunk)
<1>1. ChunksOK(cs, next, chunk)
  BY DEF ListOK
<1>2. ChunksOK(cs, to, rows) /\ ListIn(cs, rows) = ListIn(cs, chunk)
  BY <1>1, SameList
<1> QED BY <1>2 DEF ListOK

\* The tally of a pass.
LEMMA TallyType ==
    ASSUME NEW day \in Days, NEW stored \in Seq(Nat), NEW added \in SUBSET Nat
    PROVE  Tally(day, stored, added) \in Days
<1>1. Range(stored) \subseteq Nat /\ Len(stored) \in Nat
  BY RangeHas, LenProperties
<1>2. CASE day = None
  <2>1. Len(stored) >= MAX_TRADES => Last(stored) \in Nat
    <3> SUFFICES ASSUME Len(stored) >= MAX_TRADES PROVE Last(stored) \in Nat
      OBVIOUS
    <3>1. Len(stored) \in 1..Len(stored)
      BY <1>1, HistoryConstants
    <3> QED BY <3>1, ElementOfSeq DEF Last
  <2>2. PICK f : f = IF Len(stored) >= MAX_TRADES THEN Last(stored) ELSE 1
    OBVIOUS
  <2>3. f \in Nat
    BY <2>1, <2>2
  <2>4. [from |-> f, counted |-> Range(stored) \cup added] \in [from : Nat, counted : SUBSET Nat]
    BY <1>1, <2>3
  <2> QED BY <1>2, <2>2, <2>4 DEF Tally, Days
<1>3. CASE day # None
  <2>1. day \in [from : Nat, counted : SUBSET Nat]
    BY <1>3 DEF Days
  <2>2. [day EXCEPT !.counted = @ \cup added] \in [from : Nat, counted : SUBSET Nat]
    BY <2>1
  <2> QED BY <1>3, <2>2 DEF Tally, Days
<1> QED BY <1>2, <1>3

\* The new chunks take numbers nobody used: the index that is stored keeps its list, and the one
\* about to be written covers what the record says and what the pass is to say.
LEMMA MergeKeeps ==
    ASSUME StoreInv, Merge
    PROVE  StoreInv'
<1> DEFINE added == pass.fresh \ Range(Listed)
           A     == added \cup Range(Listed)
           t     == Slice(Reverse(Ascending(A)), 0, MAX_TRADES)
           new   == Layout(head, t)
           N     == Len(chain)
           gone  == {head.chunks[i].n : i \in DOMAIN head.chunks}
                    \ {new.head.chunks[i].n : i \in DOMAIN new.head.chunks}
           day   == Tally(record.day, Listed, added)
<1>1. pass.pc = "merge" /\ UNCHANGED <<chain, shown, record, head>>
  BY DEF Merge
<1>2. /\ pass.fresh \subseteq 1..N
      /\ pass.from # None =>
            \A i \in pass.from + 1..pass.cursor : chain[i] => i \in pass.fresh \/ Covered(i, Listed)
  BY <1>1 DEF StoreInv, PassOK, Merging
<1>3. /\ N \in Nat /\ pass \in PassRecord /\ head \in Heads /\ record.day \in Days
      /\ pass.cursor <= N /\ pass.anchor <= N /\ pass.before <= N
  BY LenProperties DEF StoreInv, StoreTypes
<1>4. pass.cursor \in Nat /\ pass.from \in Nat \cup {None} /\ pass.fresh \in SUBSET Nat
  BY <1>3 DEF PassRecord
<1>5. head.next \in Nat /\ head.chunks \in Seq(Chunk) /\ DOMAIN head.chunks = 1..Len(head.chunks)
  BY <1>3, LenProperties DEF Heads
<1>6. /\ ListOK(head.chunks, head.next, chunk) /\ Claimed(record.from, record.cursor, Listed)
      /\ record.cursor \in Nat /\ record.from \in Nat \cup {None}
  BY DEF StoreInv, StoreOK, StoreTypes
<1>7. /\ ChunksOK(head.chunks, head.next, chunk) /\ Falling(Listed) /\ Range(Listed) \subseteq 1..N
      /\ Listed \in Seq(Nat)
  BY <1>5, <1>6, LivesType DEF ListOK, Listed
<1>8. Listed = Trades
  BY TradesIs DEF Listed
<1>9. A \in SUBSET (1..N) /\ added \subseteq A /\ Range(Listed) \subseteq A /\ added \in SUBSET Nat
  BY <1>2, <1>4, <1>7
<1>10. IF added = {}
       THEN /\ pass' = [pass EXCEPT !.pc = "record", !.fresh = {}, !.day = record.day]
            /\ UNCHANGED chunk
       ELSE /\ chunk' = [n \in DOMAIN chunk \cup DOMAIN new.rows |->
                            IF n \in DOMAIN new.rows THEN new.rows[n] ELSE chunk[n]]
            /\ pass' = [pass EXCEPT !.pc = "head", !.fresh = {}, !.put = new.head, !.gone = gone,
                                    !.day = day]
  BY <1>8 DEF Merge
<1> HIDE DEF added, t, new, gone, day
<1>11. CASE added = {}
  <2>1. pass' = [pass EXCEPT !.pc = "record", !.fresh = {}, !.day = record.day] /\ UNCHANGED chunk
    BY <1>10, <1>11
  <2>2. pass' \in PassRecord
    BY <1>3, <2>1 DEF PassRecord
  <2>3. /\ pass'.pc = "record" /\ pass'.cursor = pass.cursor /\ pass'.from = pass.from
        /\ pass'.anchor = pass.anchor /\ pass'.before = pass.before
    BY <1>3, <2>1 DEF PassRecord
  <2>4. \A i \in pass.fresh : i \in Range(Listed)
    BY <1>11 DEF added
  <2>5. Claimed(pass.from, pass.cursor, Listed)
    <3>1. \A i : i \in pass.fresh => Covered(i, Listed)
      BY <2>4 DEF Covered
    <3> QED BY <1>2, <3>1 DEF Claimed
  <2>6. Claimed(pass.from, pass.cursor, Listed)'
    BY <1>1, <2>1, <2>3, <2>5, ClaimedSame DEF Claimed
  <2>7. PassOK'
    BY <2>3, <2>6 DEF PassOK
  <2> QED BY <1>1, <1>3, <2>1, <2>2, <2>3, <2>7, PassAlone
<1>12. CASE added # {}
  <2>1. PICK rows : rows = chunk'
    OBVIOUS
  <2>2. rows = [n \in DOMAIN chunk \cup DOMAIN new.rows |->
                   IF n \in DOMAIN new.rows THEN new.rows[n] ELSE chunk[n]]
    BY <1>10, <1>12, <2>1
  <2>3. pass' = [pass EXCEPT !.pc = "head", !.fresh = {}, !.put = new.head, !.gone = gone, !.day = day]
    BY <1>10, <1>12
  <2>4. /\ \A n \in DOMAIN new.rows : n \in DOMAIN rows /\ rows[n] = new.rows[n]
        /\ \A n \in DOMAIN chunk \ DOMAIN new.rows : n \in DOMAIN rows /\ rows[n] = chunk[n]
    BY <2>2
  <2>5. t \in Seq(Nat) /\ Falling(t) /\ Len(t) <= MAX_TRADES /\ Range(t) \subseteq A
        /\ \A x \in A : Covered(x, t)
    <3>1. t = Slice(Reverse(Ascending(A)), 0, MAX_TRADES)
      BY DEF t
    <3> HIDE DEF A, N
    <3> QED BY <1>3, <1>9, <3>1, TopIs
  <2>6. /\ new.head \in Heads /\ new.head.next >= head.next
        /\ \A n \in DOMAIN new.rows : n \in Nat /\ n >= head.next
        /\ ChunksOK(new.head.chunks, new.head.next, rows)
        /\ ListIn(new.head.chunks, rows) = t
    <3>1. new = Layout(head, t)
      BY DEF new
    <3> QED BY <1>5, <1>7, <2>4, <2>5, <3>1, LayoutIs, SMTT(60) DEF Heads
  <2>7. ListOK(new.head.chunks, new.head.next, rows)
    BY <1>9, <2>5, <2>6 DEF ListOK
  <2>8. ListOK(head.chunks, head.next, rows) /\ ListIn(head.chunks, rows) = Listed
    <3>1. \A i \in 1..Len(head.chunks) :
             /\ head.chunks[i].n \in DOMAIN chunk /\ head.chunks[i].n \in Nat
             /\ head.chunks[i].n < head.next
      BY <1>5, <1>7 DEF ChunksOK, ChunkOK
    <3>2. \A n \in DOMAIN chunk : n \in Nat /\ n < head.next => n \notin DOMAIN new.rows
      BY <1>5, <2>6
    <3>3. \A i \in 1..Len(head.chunks) :
             head.chunks[i].n \in DOMAIN rows /\ rows[head.chunks[i].n] = chunk[head.chunks[i].n]
      BY <2>4, <3>1, <3>2
    <3>4. ListIn(head.chunks, chunk) = Listed
      BY DEF Listed
    <3>5. head.next <= head.next
      BY <1>5
    <3> QED BY <1>5, <1>6, <3>3, <3>4, <3>5, ListStays
  <2>9. Claimed(record.from, record.cursor, t)
    <3> SUFFICES ASSUME record.from # None, NEW i \in record.from + 1..record.cursor, chain[i]
                 PROVE  Covered(i, t)
      BY DEF Claimed
    <3>1. Covered(i, Listed) /\ i \in Nat
      BY <1>6 DEF Claimed
    <3>2. t = Slice(Reverse(Ascending(A)), 0, MAX_TRADES)
      BY DEF t
    <3> HIDE DEF A, N
    <3> QED BY <1>3, <1>7, <1>9, <3>1, <3>2, CoveredStays
  <2>10. Claimed(pass.from, pass.cursor, t)
    <3> SUFFICES ASSUME pass.from # None, NEW i \in pass.from + 1..pass.cursor, chain[i]
                 PROVE  Covered(i, t)
      BY DEF Claimed
    <3>1. i \in pass.fresh \/ Covered(i, Listed)
      BY <1>2
    <3>2. CASE i \in A
      BY <2>5, <3>2
    <3>3. CASE Covered(i, Listed)
      <4>1. i \in Nat
        BY <1>4
      <4>2. t = Slice(Reverse(Ascending(A)), 0, MAX_TRADES)
        BY DEF t
      <4> HIDE DEF A, N
      <4> QED BY <1>3, <1>7, <1>9, <3>3, <4>1, <4>2, CoveredStays
    <3>4. i \in pass.fresh => i \in A
      BY DEF added
    <3> QED BY <3>1, <3>2, <3>3, <3>4
  <2>11. gone \in SUBSET Nat /\ gone \cap Numbers(new.head.chunks) = {}
    <3>1. \A i \in DOMAIN head.chunks : head.chunks[i].n \in Nat
      BY <1>5, <1>7 DEF ChunksOK, ChunkOK
    <3> QED BY <3>1 DEF gone, Numbers
  <2>12. pass' \in PassRecord
    <3>1. day \in Days
      BY <1>3, <1>7, <1>9, TallyType DEF day
    <3> QED BY <1>3, <2>3, <2>6, <2>11, <3>1 DEF PassRecord
  <2>13. /\ pass'.pc = "head" /\ pass'.put = new.head /\ pass'.gone = gone
         /\ pass'.cursor = pass.cursor /\ pass'.from = pass.from
         /\ pass'.anchor = pass.anchor /\ pass'.before = pass.before
    BY <1>3, <2>3 DEF PassRecord
  <2>14. Listed' = Listed
    BY <1>1, <2>1, <2>8 DEF Listed
  <2>15. ListOK(head.chunks, head.next, chunk)'
    BY <1>1, <2>1, <2>8 DEF ListOK
  <2>16. StoreTypes'
    BY <1>1, <2>12, <2>13 DEF StoreInv, StoreTypes
  <2>17. StoreOK'
    BY <1>1, <1>6, <2>14, <2>15 DEF StoreOK, Claimed
  <2>18. Writing'
    <3>1. ListOK(pass.put.chunks, pass.put.next, chunk)'
      BY <1>1, <2>1, <2>7, <2>13 DEF ListOK
    <3>2. ListIn(pass.put.chunks, chunk)' = t
      BY <2>1, <2>6, <2>13
    <3>3. Claimed(record.from, record.cursor, ListIn(pass.put.chunks, chunk))'
      BY <1>1, <2>9, <3>2 DEF Claimed
    <3>4. Claimed(pass.from, pass.cursor, ListIn(pass.put.chunks, chunk))'
      BY <1>1, <2>10, <2>13, <3>2 DEF Claimed
    <3>5. (pass.put \in Heads /\ pass.put.next >= head.next
           /\ pass.gone \cap Numbers(pass.put.chunks) = {})'
      BY <1>1, <2>6, <2>11, <2>13 DEF Numbers
    <3> QED BY <3>1, <3>3, <3>4, <3>5 DEF Writing
  <2>19. PassOK'
    BY <2>13, <2>18 DEF PassOK
  <2> QED BY <2>16, <2>17, <2>19 DEF StoreInv
<1> QED BY <1>11, <1>12

\* The index names the new list from here on.
LEMMA WriteIndexKeeps ==
    ASSUME StoreInv, WriteIndex
    PROVE  StoreInv'
<1>1. /\ pass.pc = "head" /\ UNCHANGED <<chain, shown, record, chunk>>
      /\ head' = pass.put /\ pass' = [pass EXCEPT !.pc = "delete", !.put = None]
  BY DEF WriteIndex
<1>2. Writing /\ pass \in PassRecord
  BY <1>1 DEF StoreInv, PassOK, StoreTypes
<1>3. pass' \in PassRecord
  BY <1>1, <1>2 DEF PassRecord
<1>4. /\ pass'.pc = "delete" /\ pass'.gone = pass.gone /\ pass'.cursor = pass.cursor
      /\ pass'.from = pass.from /\ pass'.anchor = pass.anchor /\ pass'.before = pass.before
  BY <1>1, <1>2 DEF PassRecord
<1>5. Listed' = ListIn(pass.put.chunks, chunk)
  BY <1>1 DEF Listed
<1>6. StoreTypes'
  BY <1>1, <1>2, <1>3, <1>4 DEF StoreInv, StoreTypes, Writing
<1>7. StoreOK'
  <2>1. ListOK(head.chunks, head.next, chunk)'
    BY <1>1, <1>2 DEF Writing, ListOK
  <2>2. Claimed(record.from, record.cursor, Listed)'
    BY <1>1, <1>2, <1>5 DEF Writing, Claimed
  <2> QED BY <2>1, <2>2 DEF StoreOK
<1>8. PassOK'
  <2>1. Claimed(pass.from, pass.cursor, Listed)'
    BY <1>1, <1>2, <1>4, <1>5 DEF Writing, Claimed
  <2>2. (pass.gone \cap Numbers(head.chunks) = {})'
    BY <1>1, <1>2, <1>4 DEF Writing, Numbers
  <2> QED BY <1>4, <2>1, <2>2 DEF PassOK
<1> QED BY <1>6, <1>7, <1>8 DEF StoreInv

\* What is deleted is not what the index names.
LEMMA DeleteKeeps ==
    ASSUME StoreInv, DeleteReplaced
    PROVE  StoreInv'
<1>1. /\ pass.pc = "delete" /\ UNCHANGED <<chain, shown, record, head>>
      /\ pass' = [pass EXCEPT !.pc = "record", !.gone = {}]
  BY DEF DeleteReplaced
<1>2. PICK left \in SUBSET pass.gone : chunk' = [n \in DOMAIN chunk \ (pass.gone \ left) |-> chunk[n]]
  BY DEF DeleteReplaced
<1>3. /\ pass \in PassRecord /\ head \in Heads /\ ListOK(head.chunks, head.next, chunk)
      /\ Claimed(record.from, record.cursor, Listed) /\ Claimed(pass.from, pass.cursor, Listed)
      /\ pass.gone \cap Numbers(head.chunks) = {}
  BY <1>1 DEF StoreInv, StoreTypes, StoreOK, PassOK
<1>4. pass' \in PassRecord
  BY <1>1, <1>3 DEF PassRecord
<1>5. /\ pass'.pc = "record" /\ pass'.cursor = pass.cursor
      /\ pass'.from = pass.from /\ pass'.anchor = pass.anchor /\ pass'.before = pass.before
  BY <1>1, <1>3 DEF PassRecord
<1>6. PICK rows : rows = chunk'
  OBVIOUS
<1>7. ListOK(head.chunks, head.next, rows) /\ ListIn(head.chunks, rows) = Listed
  <2>1. head.next \in Nat /\ head.chunks \in Seq(Chunk) /\ DOMAIN head.chunks = 1..Len(head.chunks)
    BY <1>3, LenProperties DEF Heads
  <2>2. \A i \in 1..Len(head.chunks) : head.chunks[i].n \in DOMAIN chunk
    BY <1>3 DEF ListOK, ChunksOK, ChunkOK
  <2>3. \A i \in 1..Len(head.chunks) : head.chunks[i].n \in Numbers(head.chunks)
    BY <2>1 DEF Numbers
  <2>4. \A i \in 1..Len(head.chunks) :
           head.chunks[i].n \in DOMAIN rows /\ rows[head.chunks[i].n] = chunk[head.chunks[i].n]
    BY <1>2, <1>3, <1>6, <2>2, <2>3
  <2>5. head.next <= head.next /\ ListIn(head.chunks, chunk) = Listed
    BY <2>1 DEF Listed
  <2> QED BY <1>3, <2>1, <2>4, <2>5, ListStays
<1>8. Listed' = Listed
  BY <1>1, <1>6, <1>7 DEF Listed
<1>9. StoreTypes'
  BY <1>1, <1>4, <1>5 DEF StoreInv, StoreTypes
<1>10. StoreOK'
  BY <1>1, <1>3, <1>6, <1>7, <1>8 DEF StoreOK, ListOK, Claimed
<1>11. PassOK'
  BY <1>1, <1>3, <1>5, <1>8 DEF PassOK, Claimed
<1> QED BY <1>9, <1>10, <1>11 DEF StoreInv

LEMMA WriteRecordKeeps ==
    ASSUME StoreInv, WriteRecord
    PROVE  StoreInv'
<1> DEFINE r == [ cursor |-> pass.cursor, anchor |-> pass.anchor, from |-> pass.from,
                  behind |-> pass.behind, day |-> pass.day ]
<1>1. /\ pass.pc = "record" /\ UNCHANGED <<chain, shown, head, chunk>>
      /\ record' = r /\ pass' = NoPass
  BY DEF WriteRecord
<1>2. /\ pass \in PassRecord /\ ListOK(head.chunks, head.next, chunk)
      /\ pass.cursor <= Len(chain) /\ pass.anchor <= Len(chain)
      /\ Claimed(pass.from, pass.cursor, Listed) /\ Len(chain) \in Nat
  BY <1>1, LenProperties DEF StoreInv, StoreTypes, StoreOK, PassOK
<1>3. r \in [ cursor : Nat, anchor : Nat, from : Nat \cup {None}, behind : BOOLEAN, day : Days ]
  BY <1>2 DEF PassRecord
<1>4. r.cursor = pass.cursor /\ r.anchor = pass.anchor /\ r.from = pass.from
  OBVIOUS
<1> HIDE DEF r
<1>5. StoreTypes'
  BY <1>1, <1>2, <1>3, <1>4, NoPassType DEF StoreInv, StoreTypes
<1>6. StoreOK'
  BY <1>1, <1>2, <1>4 DEF StoreOK, ListOK, Claimed, Listed
<1>7. PassOK'
  BY <1>1, NoPassType DEF PassOK
<1> QED BY <1>5, <1>6, <1>7 DEF StoreInv

\* Transactions are added above everything the pass and the record speak of.
LEMMA TransactKeeps ==
    ASSUME StoreInv, Transact
    PROVE  StoreInv'
<1>1. UNCHANGED <<shown, record, head, chunk, pass>>
  BY DEF Transact, store
<1>2. PICK ok \in BOOLEAN : chain' = Append(chain, ok)
  BY DEF Transact
<1>3. StoreTypes /\ StoreOK /\ PassOK
  BY DEF StoreInv
<1> DEFINE N == Len(chain)
<1>4. chain \in Seq(BOOLEAN) /\ N \in Nat /\ shown \in 0..N /\ pass \in PassRecord
  BY <1>3, LenProperties DEF StoreTypes
<1>5. /\ chain' \in Seq(BOOLEAN) /\ Len(chain)' = N + 1 /\ \A i \in 1..N : chain'[i] = chain[i]
  BY <1>2, <1>4, AppendProperties
<1>6. /\ record.cursor \in Nat /\ record.anchor \in Nat /\ record.from \in Nat \cup {None}
      /\ record.cursor <= N /\ record.anchor <= N
  BY <1>3 DEF StoreTypes
<1>7. /\ pass.cursor \in Nat /\ pass.anchor \in Nat /\ pass.before \in Nat /\ pass.last \in Nat
      /\ pass.from \in Nat \cup {None} /\ pass.previous \in Gap \cup {None} /\ pass.window \in SUBSET Nat
      /\ pass.cursor <= N /\ pass.anchor <= N /\ pass.before <= N
  BY <1>3, <1>4 DEF StoreTypes, PassRecord
<1>8. StoreTypes'
  <2>1. shown \in 0..N + 1 /\ \A x \in Nat : x <= N => x <= N + 1
    BY <1>4
  <2> HIDE DEF N
  <2> QED BY <1>1, <1>3, <1>5, <1>6, <1>7, <2>1 DEF StoreTypes
<1>9. Listed' = Listed
  BY <1>1 DEF Listed
<1>10. ASSUME NEW from \in Nat \cup {None}, NEW cursor \in Nat, cursor <= N, NEW list
       PROVE  Claimed(from, cursor, list) => Claimed(from, cursor, list)'
  <2> SUFFICES ASSUME Claimed(from, cursor, list), from # None, NEW i \in from + 1..cursor, chain'[i]
               PROVE  Covered(i, list)
    BY DEF Claimed
  <2>1. i \in 1..N
    BY <1>4, <1>10
  <2> QED BY <1>5, <2>1 DEF Claimed
<1>11. \A cs, next, rows : ListOK(cs, next, rows) => ListOK(cs, next, rows)'
  <2>1. \A S : S \subseteq 1..N => S \subseteq 1..N + 1
    BY <1>4
  <2> HIDE DEF N
  <2> QED BY <1>5, <2>1 DEF ListOK, N
<1>12. StoreOK'
  <2>1. ListOK(head.chunks, head.next, chunk)'
    BY <1>1, <1>3, <1>11 DEF StoreOK, ListOK
  <2>2. Claimed(record.from, record.cursor, Listed)'
    BY <1>1, <1>3, <1>6, <1>9, <1>10 DEF StoreOK, Claimed
  <2> QED BY <2>1, <2>2 DEF StoreOK
<1>13. PassOK'
  <2>1. Claimed(pass.from, pass.cursor, Listed) => Claimed(pass.from, pass.cursor, Listed)'
    BY <1>1, <1>7, <1>9, <1>10 DEF Claimed
  <2>2. Scanning => Scanning'
    <3>1. \A g \in Gap : (g.hi <= N => g.hi <= N + 1) /\ (g.above <= N => g.above <= N + 1)
      BY <1>4 DEF Gap
    <3> HIDE DEF N
    <3> QED BY <1>1, <1>5, <1>7, <2>1, <3>1 DEF Scanning, N
  <2>3. Reading => Reading'
    <3> SUFFICES ASSUME Reading PROVE Reading'
      OBVIOUS
    <3>1. pass.last <= N + 1 /\ pass.last <= N
      BY <1>4, <1>7 DEF Reading
    <3>2. ASSUME pass.from # None, NEW i \in pass.from + 1..pass.last, chain'[i], i > pass.cursor
          PROVE  i \in pass.window
      <4>1. i \in 1..N
        BY <1>4, <1>7, <3>1, <3>2
      <4> QED BY <1>5, <3>2, <4>1 DEF Reading
    <3> HIDE DEF N
    <3> QED BY <1>1, <1>5, <2>1, <3>1, <3>2 DEF Reading
  <2>4. Merging => Merging'
    <3> SUFFICES ASSUME Merging PROVE Merging'
      OBVIOUS
    <3>1. pass.fresh \subseteq 1..N + 1
      BY <1>4 DEF Merging
    <3>2. ASSUME pass.from # None, NEW i \in pass.from + 1..pass.cursor, chain'[i]
          PROVE  i \in pass.fresh \/ Covered(i, Listed)
      <4>1. i \in 1..N
        BY <1>4, <1>7, <3>2
      <4> QED BY <1>5, <3>2, <4>1 DEF Merging
    <3> HIDE DEF N
    <3> QED BY <1>1, <1>5, <1>9, <3>1, <3>2 DEF Merging
  <2>5. Writing => Writing'
    <3> SUFFICES ASSUME Writing PROVE Writing'
      OBVIOUS
    <3>1. ListOK(pass.put.chunks, pass.put.next, chunk)'
      BY <1>1, <1>11 DEF Writing, ListOK
    <3>2. Claimed(record.from, record.cursor, ListIn(pass.put.chunks, chunk))'
      BY <1>1, <1>6, <1>10 DEF Writing, Claimed
    <3>3. Claimed(pass.from, pass.cursor, ListIn(pass.put.chunks, chunk))'
      BY <1>1, <1>7, <1>10 DEF Writing, Claimed
    <3> QED BY <1>1, <3>1, <3>2, <3>3 DEF Writing
  <2> QED BY <1>1, <1>3, <2>1, <2>2, <2>3, <2>4, <2>5 DEF PassOK
<1> QED BY <1>8, <1>12, <1>13 DEF StoreInv

LEMMA ShowKeeps ==
    ASSUME StoreInv, Show
    PROVE  StoreInv'
<1>1. shown < Len(chain) /\ shown' = shown + 1 /\ UNCHANGED <<chain, record, head, chunk, pass>>
  BY DEF Show, store
<1>2. Len(chain) \in Nat /\ shown \in 0..Len(chain)
  BY LenProperties DEF StoreInv, StoreTypes
<1>3. shown' \in 0..Len(chain)
  BY <1>1, <1>2
<1>4. StoreTypes'
  BY <1>1, <1>3 DEF StoreInv, StoreTypes
<1>5. StoreOK'
  BY <1>1 DEF StoreInv, StoreOK, ListOK, Claimed, Listed
<1>6. PassOK'
  BY <1>1 DEF StoreInv, PassOK, Scanning, Reading, Merging, Writing, ListOK, Claimed, Listed, Numbers
<1> QED BY <1>4, <1>5, <1>6 DEF StoreInv

LEMMA VisitKeeps ==
    ASSUME StoreInv, UNCHANGED <<chain, shown, store, pass>>
    PROVE  StoreInv'
BY DEF store, StoreInv, StoreTypes, StoreOK, PassOK, Scanning, Reading, Merging, Writing, ListOK,
       Claimed, Listed, Numbers

LEMMA NextStore ==
    ASSUME StoreInv, [Next]_vars
    PROVE  StoreInv'
<1>1. CASE Transact
  BY <1>1, TransactKeeps
<1>2. CASE Show
  BY <1>2, ShowKeeps
<1>3. CASE PassStep
  BY <1>3, BeginKeeps, FirstKeeps, SignaturesKeep, TransactionsKeep, MergeKeeps, WriteIndexKeeps,
     DeleteKeeps, WriteRecordKeeps DEF PassStep
<1>4. CASE RequestFails
  BY <1>4, FailureKeeps
<1>5. CASE Crash
  BY <1>5, CrashKeeps
<1>6. CASE Ask \/ ReadIndex \/ ReadChunk \/ Answer
  <2>1. UNCHANGED <<chain, shown, store, pass>>
    BY <1>6 DEF Ask, ReadIndex, ReadChunk, Answer
  <2> QED BY <2>1, VisitKeeps
<1>7. CASE UNCHANGED vars
  <2>1. UNCHANGED <<chain, shown, store, pass>>
    BY <1>7 DEF vars
  <2> QED BY <2>1, VisitKeeps
<1> QED BY <1>1, <1>2, <1>3, <1>4, <1>5, <1>6, <1>7 DEF Next

\* What is stored is well formed and covers what the record claims, and a pass under way knows
\* what it still has to store, whichever instance dies and whatever a node does not show.
THEOREM StoreAccounted == Spec => []StoreInv
<1>1. Init => StoreInv
  BY InitStore
<1>2. StoreInv /\ [Next]_vars => StoreInv'
  BY NextStore
<1> QED BY <1>1, <1>2, PTL DEF Spec

\* A record's history is what it says it is (syncHeld in indexer.mjs): every trade from the start
\* of its history to its cursor is stored, or older than everything in a full list.
THEOREM HistoryStaysAsClaimed == Spec => []HistoryAsClaimed
<1>1. StoreInv => HistoryAsClaimed
  <2> SUFFICES ASSUME StoreInv PROVE HistoryAsClaimed
    OBVIOUS
  <2>1. Claimed(record.from, record.cursor, Trades)
    BY TradesIs DEF StoreInv, StoreOK, Listed
  <2> QED BY <2>1 DEF HistoryAsClaimed, Claimed, Covered
<1> QED BY <1>1, StoreAccounted, PTL

-----------------------------------------------------------------------------
(* The page of a visitor, read while passes write.                         *)

PageRecord ==
    [ pc : {"idle", "head", "chunk", "cut"}, offset : Nat, limit : Nat, todo : Seq(Chunk), skip : Nat,
      items : Seq(Nat), tries : 0..2, want : Seq(Nat) ]

\* The rest of a page: it comes from the lists its chunks held when the index was read, and a chunk
\* that is still there holds its list.
Promised(g, next, rows, lives) ==
    /\ lives \in Seq(Seq(Nat)) /\ Len(lives) = Len(g.todo)
    /\ \A i \in 1..Len(g.todo) :
          /\ g.todo[i].n < next
          /\ g.todo[i].n \in DOMAIN rows => LiveIn(g.todo[i], rows) = lives[i]
    /\ g.want = g.items \o Slice(FlattenSeq(lives), g.skip, g.skip + (g.limit - Len(g.items)))
    /\ lives # <<>> => g.skip <= Len(lives[1])

PageOK(g, next, rows) ==
    /\ g \in PageRecord
    /\ g.pc = "head" => g.items = <<>>
    /\ g.pc = "chunk" => Len(g.items) <= g.limit /\ \E lives : Promised(g, next, rows, lives)
    /\ g.pc = "cut" => g.tries = 2 /\ IsPrefix(g.items, g.want)

PageInv == PageOK(page, head.next, chunk)

\* No step writes a chunk the index may have named before.
LEMMA RowsStay ==
    ASSUME StoreInv, [Next]_vars
    PROVE  /\ head.next \in Nat /\ head'.next \in Nat /\ head'.next >= head.next
           /\ \A n \in Nat : n < head.next /\ n \in DOMAIN chunk' =>
                                n \in DOMAIN chunk /\ chunk'[n] = chunk[n]
<1>1. head \in Heads /\ head.next \in Nat
  BY DEF StoreInv, StoreTypes, Heads
<1>2. CASE UNCHANGED <<head, chunk>>
  BY <1>1, <1>2
<1>3. CASE Merge
  <2> DEFINE t == Slice(Reverse(Ascending((pass.fresh \ Range(Trades)) \cup Range(Trades))), 0, MAX_TRADES)
             new == Layout(head, t)
  <2>1. \/ UNCHANGED chunk
        \/ chunk' = [n \in DOMAIN chunk \cup DOMAIN new.rows |->
                        IF n \in DOMAIN new.rows THEN new.rows[n] ELSE chunk[n]]
    BY <1>3 DEF Merge
  <2>2. UNCHANGED head
    BY <1>3 DEF Merge
  <2>3. \A n \in DOMAIN new.rows : n >= head.next
    <3> DEFINE kept == KeptChunks(head, t)
               m == (Len(t) - Held(kept) + TRADE_CHUNK - 1) \div TRADE_CHUNK
    <3>1. DOMAIN new.rows = NextNumber(head)..(NextNumber(head) + m - 1)
      BY DEF Layout
    <3> HIDE DEF m, new
    <3> QED BY <1>1, <3>1 DEF NextNumber
  <2> HIDE DEF new
  <2>4. \A n \in Nat : n < head.next => n \notin DOMAIN new.rows
    BY <1>1, <2>3
  <2> QED BY <1>1, <2>1, <2>2, <2>4
<1>4. CASE WriteIndex
  <2>1. pass.pc = "head" /\ head' = pass.put /\ UNCHANGED chunk
    BY <1>4 DEF WriteIndex
  <2>2. Writing
    BY <2>1 DEF StoreInv, PassOK
  <2> QED BY <1>1, <2>1, <2>2 DEF Writing, Heads
<1>5. CASE DeleteReplaced
  <2>1. UNCHANGED head /\ \E left \in SUBSET pass.gone :
                             chunk' = [n \in DOMAIN chunk \ (pass.gone \ left) |-> chunk[n]]
    BY <1>5 DEF DeleteReplaced
  <2> QED BY <1>1, <2>1
<1>6. Merge \/ WriteIndex \/ DeleteReplaced \/ UNCHANGED <<head, chunk>>
  BY DEF Next, PassStep, vars, store, Transact, Show, BeginPass, ReadFirst, ReadSignatures,
         ReadTransactions, WriteRecord, RequestFails, Crash, Ask, ReadIndex, ReadChunk, Answer
<1> QED BY <1>2, <1>3, <1>4, <1>5, <1>6

LEMMA PageStays ==
    ASSUME NEW g, NEW next \in Nat, NEW rows, PageOK(g, next, rows), NEW to \in Nat, to >= next,
           NEW later,
           \A n \in Nat : n < next /\ n \in DOMAIN later => n \in DOMAIN rows /\ later[n] = rows[n]
    PROVE  PageOK(g, to, later)
<1> SUFFICES ASSUME g.pc = "chunk" PROVE \E lives : Promised(g, to, later, lives)
  BY DEF PageOK
<1>1. PICK lives : Promised(g, next, rows, lives)
  BY DEF PageOK
<1>2. g.todo \in Seq(Chunk)
  BY DEF PageOK, PageRecord
<1>3. ASSUME NEW i \in 1..Len(g.todo)
      PROVE  /\ g.todo[i].n < to
             /\ g.todo[i].n \in DOMAIN later => LiveIn(g.todo[i], later) = lives[i]
  <2>1. g.todo[i] \in Chunk
    BY <1>2, ElementOfSeq
  <2>2. g.todo[i].n \in Nat
    BY <2>1 DEF Chunk
  <2>3. g.todo[i].n < next /\ (g.todo[i].n \in DOMAIN rows => LiveIn(g.todo[i], rows) = lives[i])
    BY <1>1 DEF Promised
  <2> QED BY <2>2, <2>3 DEF LiveIn
<1>4. Promised(g, to, later, lives)
  BY <1>1, <1>3 DEF Promised
<1> QED BY <1>4

LEMMA NoPageType == NoPage \in PageRecord /\ NoPage.pc = "idle" /\ NoPage.items = <<>>
<1>1. <<>> \in Seq(Chunk) /\ <<>> \in Seq(Nat) /\ 0 \in Nat /\ 0 \in 0..2
  BY EmptySeq
<1> QED BY <1>1 DEF NoPage, PageRecord

LEMMA AskPage ==
    ASSUME Ask
    PROVE  PageInv'
<1>1. PICK q \in Queries : page' = [NoPage EXCEPT !.pc = "head", !.offset = q[1], !.limit = q[2]]
  BY DEF Ask
<1>2. q[1] \in Nat /\ q[2] \in Nat
  BY HistoryAssumption
<1>3. page' \in PageRecord
  BY <1>1, <1>2, NoPageType DEF PageRecord
<1>4. page'.pc = "head" /\ page'.items = <<>>
  BY <1>1, NoPageType DEF NoPage
<1> QED BY <1>3, <1>4 DEF PageInv, PageOK

LEMMA AnswerPage ==
    ASSUME Answer
    PROVE  PageInv'
<1>1. page' = NoPage
  BY DEF Answer
<1> QED BY <1>1, NoPageType DEF PageInv, PageOK

\* Lists put end to end are the first one and the others put end to end.
LEMMA FlattenFirst ==
    ASSUME NEW S, NEW s \in Seq(Seq(S)), s # <<>>
    PROVE  /\ s[1] \in Seq(S) /\ Tail(s) \in Seq(Seq(S)) /\ Len(Tail(s)) = Len(s) - 1
           /\ \A i \in 1..Len(s) - 1 : Tail(s)[i] = s[i + 1]
           /\ FlattenSeq(s) = s[1] \o FlattenSeq(Tail(s))
<1>1. Len(s) \in Nat /\ Len(s) # 0
  BY EmptySeq, LenProperties
<1>2. 1 \in 1..Len(s) /\ Len(s) \in 1..Len(s)
  BY <1>1
<1>3. s[1] \in Seq(S)
  BY <1>2, ElementOfSeq
<1>4. /\ Tail(s) \in Seq(Seq(S)) /\ Len(Tail(s)) = Len(s) - 1
      /\ \A i \in 1..Len(Tail(s)) : Tail(s)[i] = s[i + 1]
  BY HeadTailProperties
<1>5. SubSeq(s, 1, Len(s)) = <<s[1]>> \o SubSeq(s, 1 + 1, Len(s))
  BY <1>2, SubSeqRecursiveFirst
<1>6. s = <<s[1]>> \o Tail(s)
  BY <1>5, SubSeqFull, TailIsSubSeq
<1>7. <<s[1]>> \in Seq(Seq(S))
  BY <1>3
<1>8. FlattenSeq(<<s[1]>> \o Tail(s)) = FlattenSeq(<<s[1]>>) \o FlattenSeq(Tail(s))
  BY <1>4, <1>7, FlattenConcat
<1>9. FlattenSeq(<<s[1]>>) = s[1]
  BY <1>3, FlattenOne
<1> QED BY <1>3, <1>4, <1>6, <1>8, <1>9

\* The counts before a chunk, and with it.
LEMMA HeldNext ==
    ASSUME NEW cs, NEW next \in Nat, NEW rows, ChunksOK(cs, next, rows), NEW k \in 0..Len(cs) - 1
    PROVE  /\ Held(SubSeq(cs, 1, k)) \in Nat
           /\ Held(SubSeq(cs, 1, k + 1)) = Held(SubSeq(cs, 1, k)) + cs[k + 1].count
<1> DEFINE L == LivesIn(cs, rows)
           n == Len(cs)
<1>1. /\ n \in Nat /\ L \in Seq(Seq(Nat)) /\ Len(L) = n
      /\ \A i \in 1..n : L[i] \in Seq(Nat) /\ Len(L[i]) = cs[i].count
  BY LivesType
<1>2. \A j \in 0..n : /\ ChunksOK(SubSeq(cs, 1, j), next, rows)
                      /\ LivesIn(SubSeq(cs, 1, j), rows) = SubSeq(L, 1, j)
  <2> SUFFICES ASSUME NEW j \in 0..n
               PROVE  /\ ChunksOK(SubSeq(cs, 1, j), next, rows)
                      /\ LivesIn(SubSeq(cs, 1, j), rows) = SubSeq(L, 1, j)
    OBVIOUS
  <2>1. 1 \in 1..Len(cs) + 1 /\ j \in 1 - 1..Len(cs)
    BY <1>1
  <2> QED BY <2>1, PartOK
<1>3. \A j \in 0..n : /\ Held(SubSeq(cs, 1, j)) = Len(FlattenSeq(SubSeq(L, 1, j)))
                      /\ Held(SubSeq(cs, 1, j)) \in Nat
  BY <1>2, HeldIs DEF ListIn
<1> HIDE DEF L
<1>4. k \in Nat /\ k + 1 \in 0..n /\ k \in 0..n /\ k + 1 <= Len(L) /\ k + 1 \in 1..n
  BY <1>1
<1>5. SubSeq(L, 1, k) \in Seq(Seq(Nat)) /\ SubSeq(L, 1, k + 1) = Append(SubSeq(L, 1, k), L[k + 1])
  BY <1>1, <1>4, FirstsAppend
<1>6. L[k + 1] \in Seq(Nat) /\ Len(L[k + 1]) = cs[k + 1].count
  BY <1>1, <1>4
<1> DEFINE a == SubSeq(L, 1, k)
           x == L[k + 1]
<1>7. FlattenSeq(Append(a, x)) = FlattenSeq(a) \o x /\ FlattenSeq(a) \in Seq(Nat)
  <2> HIDE DEF a, x
  <2> QED BY <1>5, <1>6, FlattenAppend, FlattenType DEF a, x
<1>8. Len(FlattenSeq(a) \o x) = Len(FlattenSeq(a)) + Len(x)
  BY <1>6, <1>7, ConcatProperties
<1> QED BY <1>3, <1>4, <1>5, <1>6, <1>7, <1>8

\* The index is read: the page is to come from the chunk that holds its first item, and on.
LEMMA ReadIndexPage ==
    ASSUME StoreInv, PageInv, ReadIndex
    PROVE  PageInv'
<1> DEFINE cs     == head.chunks
           n      == Len(cs)
           before == [i \in DOMAIN cs |-> Held(SubSeq(cs, 1, i - 1))]
           first  == {i \in DOMAIN cs : before[i] + cs[i].count > page.offset}
           start  == CHOOSE i \in first : \A j \in first : i <= j
           todo   == IF first = {} THEN <<>> ELSE SubSeq(cs, start, Len(cs))
           skip   == IF first = {} THEN 0 ELSE page.offset - before[start]
           want   == Slice(Trades, page.offset, page.offset + page.limit)
<1>1. /\ page.pc = "head" /\ UNCHANGED <<head, chunk>>
      /\ page' = [page EXCEPT !.pc = "chunk", !.want = want, !.todo = todo, !.skip = skip]
  BY DEF ReadIndex, store
<1>2. /\ page \in PageRecord /\ page.items = <<>> /\ page.offset \in Nat /\ page.limit \in Nat
      /\ Len(page.items) = 0
  BY <1>1 DEF PageInv, PageOK, PageRecord
<1>3. /\ head.next \in Nat /\ ChunksOK(cs, head.next, chunk) /\ cs \in Seq(Chunk)
      /\ n \in Nat /\ DOMAIN cs = 1..n
  BY LenProperties DEF StoreInv, StoreTypes, StoreOK, ListOK, Heads
<1>4. ListIn(cs, chunk) = Trades /\ Trades \in Seq(Nat) /\ Held(cs) = Len(Trades)
  BY <1>3, TradesIs, LivesType, HeldIs
<1>5. want \in Seq(Nat)
  <2>1. page.offset + page.limit \in Nat
    BY <1>2
  <2> QED BY <1>2, <1>4, <2>1, SliceIs
\* What the counts before a chunk come to.
<1>6. \A k \in 0..n - 1 : /\ Held(SubSeq(cs, 1, k)) \in Nat
                          /\ Held(SubSeq(cs, 1, k + 1)) = Held(SubSeq(cs, 1, k)) + cs[k + 1].count
  <2> HIDE DEF cs
  <2> QED BY <1>3, HeldNext
<1>7. \A i \in 1..n : cs[i].count \in Nat \ {0} /\ cs[i].n \in Nat /\ cs[i].n < head.next
  <2>1. \A i \in 1..n : cs[i].count \in Nat \ {0} /\ cs[i].n \in Nat
    BY <1>3, LivesType
  <2>2. \A i \in 1..n : cs[i].n < head.next
    BY <1>3 DEF ChunksOK, ChunkOK
  <2> QED BY <2>1, <2>2
<1>8. \A i \in 1..n : before[i] = Held(SubSeq(cs, 1, i - 1)) /\ before[i] \in Nat
  <2> SUFFICES ASSUME NEW i \in 1..n
               PROVE  before[i] = Held(SubSeq(cs, 1, i - 1)) /\ before[i] \in Nat
    OBVIOUS
  <2>1. i - 1 \in 0..n - 1
    BY <1>3
  <2>2. before[i] = Held(SubSeq(cs, 1, i - 1))
    BY <1>3
  <2> QED BY <1>6, <2>1, <2>2
<1>9. \A i \in 2..n : before[i] = before[i - 1] + cs[i - 1].count
  <2> SUFFICES ASSUME NEW i \in 2..n PROVE before[i] = before[i - 1] + cs[i - 1].count
    OBVIOUS
  <2>1. PICK k : k = i - 2
    OBVIOUS
  <2>2. k \in 0..n - 1 /\ k + 1 = i - 1 /\ i - 1 \in 1..n /\ i \in 1..n /\ (i - 1) - 1 = k
    BY <1>3, <2>1
  <2> HIDE DEF cs, before
  <2>3. Held(SubSeq(cs, 1, k + 1)) = Held(SubSeq(cs, 1, k)) + cs[k + 1].count
    BY <1>6, <2>2
  <2>4. before[i] = Held(SubSeq(cs, 1, i - 1)) /\ before[i - 1] = Held(SubSeq(cs, 1, (i - 1) - 1))
    BY <1>8, <2>2
  <2> QED BY <2>2, <2>3, <2>4
<1>10. n > 0 => before[1] = 0 /\ Held(cs) = before[n] + cs[n].count
  <2> SUFFICES ASSUME n > 0 PROVE before[1] = 0 /\ Held(cs) = before[n] + cs[n].count
    OBVIOUS
  <2>1. PICK k : k = n - 1
    OBVIOUS
  <2>2. k \in 0..n - 1 /\ k + 1 = n /\ 1 \in 1..n /\ n \in 1..n
    BY <1>3, <2>1
  <2> HIDE DEF cs, before, n
  <2>3. Held(SubSeq(cs, 1, k + 1)) = Held(SubSeq(cs, 1, k)) + cs[k + 1].count
    BY <1>6, <2>2
  <2>4. before[n] = Held(SubSeq(cs, 1, n - 1)) /\ before[1] = Held(SubSeq(cs, 1, 1 - 1))
    BY <1>8, <2>2
  <2>5. SubSeq(cs, 1, n) = cs
    BY <1>3, SubSeqFull DEF n
  <2>6. SubSeq(cs, 1, 1 - 1) = <<>>
    BY SubSeqEmpty
  <2>7. Held(<<>>) = 0
    <3>1. ChunksOK(<<>>, 0, chunk)
      BY EmptySeq DEF ChunksOK
    <3>2. LivesIn(<<>>, chunk) = <<>>
      BY DEF LivesIn
    <3>3. Held(<<>>) = Len(FlattenSeq(<<>>))
      BY <3>1, <3>2, HeldIs DEF ListIn
    <3> QED BY <3>3, FlattenNone, EmptySeq
  <2> QED BY <2>1, <2>2, <2>3, <2>4, <2>5, <2>6, <2>7
<1>11. \A i \in 1..n : i \in first <=> before[i] + cs[i].count > page.offset
  BY <1>3
<1>12. first \subseteq 1..n
  BY <1>3
<1> HIDE DEF want, before
<1>13. page'.pc = "chunk" /\ page'.items = <<>> /\ page'.limit = page.limit
       /\ page'.want = want /\ page'.todo = todo /\ page'.skip = skip
  BY <1>1, <1>2 DEF PageRecord
<1> SUFFICES /\ todo \in Seq(Chunk) /\ skip \in Nat
             /\ \E lives : /\ lives \in Seq(Seq(Nat)) /\ Len(lives) = Len(todo)
                           /\ \A i \in 1..Len(todo) :
                                 /\ todo[i].n < head.next
                                 /\ todo[i].n \in DOMAIN chunk => LiveIn(todo[i], chunk) = lives[i]
                           /\ want = Slice(FlattenSeq(lives), skip, skip + page.limit)
                           /\ lives # <<>> => skip <= Len(lives[1])
  <2> HIDE DEF todo, skip
  <2>1. page' \in PageRecord
    BY <1>1, <1>2, <1>5 DEF PageRecord
  <2>2. PICK lives : /\ lives \in Seq(Seq(Nat)) /\ Len(lives) = Len(todo)
                     /\ \A i \in 1..Len(todo) :
                           /\ todo[i].n < head.next
                           /\ todo[i].n \in DOMAIN chunk => LiveIn(todo[i], chunk) = lives[i]
                     /\ want = Slice(FlattenSeq(lives), skip, skip + page.limit)
                     /\ lives # <<>> => skip <= Len(lives[1])
    OBVIOUS
  <2>3. Len(page'.items) = 0 /\ page'.limit - 0 = page'.limit /\ <<>> \o want = want
    BY <1>2, <1>5, <1>13, ConcatEmptySeq
  <2>4. Promised(page', head.next, chunk, lives)
    BY <1>13, <2>2, <2>3 DEF Promised
  <2>5. Len(page'.items) <= page'.limit
    BY <1>2, <1>13, <2>3
  <2>6. PageOK(page', head.next, chunk)
    BY <1>13, <2>1, <2>4, <2>5 DEF PageOK
  <2> QED BY <1>1, <2>6 DEF PageInv
<1>14. CASE first = {}
  <2>1. todo = <<>> /\ skip = 0 /\ <<>> \in Seq(Chunk) /\ <<>> \in Seq(Seq(Nat)) /\ Len(<<>>) = 0
    BY <1>14, EmptySeq
  <2>2. Len(Trades) <= page.offset
    <3>1. CASE n = 0
      <4>1. cs = <<>>
        BY <1>3, <3>1, EmptySeq
      <4>2. LivesIn(<<>>, chunk) = <<>>
        BY DEF LivesIn
      <4>3. Trades = <<>>
        BY <1>4, <4>1, <4>2, FlattenNone DEF ListIn
      <4> QED BY <1>2, <4>3, EmptySeq
    <3>2. CASE n # 0
      <4>1. n \in 1..n /\ n > 0
        BY <1>3, <3>2
      <4>2. ~(before[n] + cs[n].count > page.offset) /\ before[n] \in Nat /\ cs[n].count \in Nat
        BY <1>7, <1>8, <1>11, <1>14, <4>1
      <4>3. Len(Trades) = before[n] + cs[n].count
        BY <1>4, <1>10, <4>1
      <4> QED BY <1>2, <4>2, <4>3
    <3> QED BY <3>1, <3>2
  <2>3. want = <<>>
    BY <1>2, <1>4, <2>2, SliceNone DEF want
  <2>4. Slice(<<>>, 0, 0 + page.limit) = <<>>
    <3>1. <<>> \in Seq(Nat) /\ Len(<<>>) <= 0 /\ 0 \in Nat
      BY EmptySeq
    <3> QED BY <1>2, <3>1, SliceNone
  <2> HIDE DEF todo, skip, first
  <2>5. \E l : /\ l \in Seq(Seq(Nat)) /\ Len(l) = Len(todo)
               /\ \A i \in 1..Len(todo) :
                     /\ todo[i].n < head.next
                     /\ todo[i].n \in DOMAIN chunk => LiveIn(todo[i], chunk) = l[i]
               /\ want = Slice(FlattenSeq(l), skip, skip + page.limit)
               /\ l # <<>> => skip <= Len(l[1])
    <3> WITNESS <<>>
    <3>1. \A i \in 1..Len(todo) : FALSE
      BY <2>1
    <3> QED BY <2>1, <2>3, <2>4, <3>1, FlattenNone
  <2> QED BY <2>1, <2>5
<1>15. CASE first # {}
  <2>1. first \in SUBSET Nat
    BY <1>3, <1>12
  <2>2. \E m \in first : \A j \in first : m <= j
    <3> HIDE DEF first
    <3> QED BY <1>15, <2>1, LeastExists
  <2>3. start \in first /\ \A j \in first : start <= j
    <3> HIDE DEF first
    <3> QED BY <2>2 DEF start
  <2> HIDE DEF start
  <2>4. start \in 1..n /\ before[start] + cs[start].count > page.offset /\ start \in Nat
    BY <1>3, <1>11, <1>12, <2>3
  <2>5. before[start] \in Nat /\ cs[start].count \in Nat
    BY <1>7, <1>8, <2>4
  <2>6. before[start] <= page.offset
    <3>1. CASE start = 1
      BY <1>2, <1>3, <1>10, <2>4, <3>1
    <3>2. CASE start # 1
      <4>1. start \in 2..n /\ start - 1 \in 1..n /\ ~(start <= start - 1)
        BY <1>3, <2>4, <3>2
      <4>2. start - 1 \notin first
        BY <2>3, <4>1
      <4>3. PICK k : k = start - 1
        OBVIOUS
      <4>4. k \in 1..n /\ ~(before[k] + cs[k].count > page.offset) /\ before[start] = before[k] + cs[k].count
        BY <1>9, <1>11, <4>1, <4>2, <4>3
      <4> QED BY <1>2, <2>5, <4>4
    <3> QED BY <3>1, <3>2
  <2>7. todo = SubSeq(cs, start, n) /\ skip = page.offset - before[start]
    BY <1>15
  <2>8. skip \in Nat /\ skip <= cs[start].count
    <3>1. PICK o, b, c : o = page.offset /\ b = before[start] /\ c = cs[start].count
      OBVIOUS
    <3>2. o \in Nat /\ b \in Nat /\ c \in Nat /\ b <= o /\ b + c > o
      BY <1>2, <2>4, <2>5, <2>6, <3>1
    <3>3. o - b \in Nat /\ o - b <= c
      BY <3>2
    <3>4. skip = o - b
      BY <2>7, <3>1
    <3> HIDE DEF skip
    <3> QED BY <3>1, <3>3, <3>4
  <2> DEFINE lives == LivesIn(todo, chunk)
             a     == ListIn(SubSeq(cs, 1, start - 1), chunk)
             b     == ListIn(todo, chunk)
  <2> HIDE DEF todo, skip, first, cs, n
  <2>9. /\ ChunksOK(todo, head.next, chunk) /\ Len(todo) = n - start + 1
        /\ \A i \in 1..n - start + 1 : todo[i] = cs[start + i - 1]
    <3>1. start \in 1..Len(cs) + 1 /\ n \in start - 1..Len(cs)
      BY <1>3, <2>4 DEF n
    <3>2. n = Len(cs)
      BY DEF n
    <3> HIDE DEF n
    <3> QED BY <1>3, <2>7, <3>1, PartOK
  <2>10. /\ lives \in Seq(Seq(Nat)) /\ Len(lives) = Len(todo) /\ Len(todo) \in Nat
         /\ \A i \in 1..Len(todo) : /\ lives[i] = LiveIn(todo[i], chunk)
                                    /\ Len(LiveIn(todo[i], chunk)) = todo[i].count
    BY <1>3, <2>9, LivesType
  <2>11. todo \in Seq(Chunk) /\ \A i \in 1..Len(todo) : todo[i].n < head.next
    BY <1>3, <2>9 DEF ChunksOK, ChunkOK
  <2>12. a \in Seq(Nat) /\ b \in Seq(Nat) /\ Trades = a \o b
    <3>1. PICK k : k = start - 1
      OBVIOUS
    <3>2. k \in 0..n /\ k + 1 = start
      BY <1>3, <2>4, <3>1
    <3>3. /\ ListIn(SubSeq(cs, 1, k), chunk) \in Seq(Nat)
          /\ ListIn(SubSeq(cs, k + 1, n), chunk) \in Seq(Nat)
          /\ ListIn(cs, chunk) = ListIn(SubSeq(cs, 1, k), chunk) \o ListIn(SubSeq(cs, k + 1, n), chunk)
      BY <1>3, <3>2, ListSplit DEF n
    <3> QED BY <1>4, <2>7, <3>1, <3>2, <3>3
  <2>13. Len(a) = before[start]
    <3>1. PICK k : k = start - 1
      OBVIOUS
    <3>2. 1 \in 1..Len(cs) + 1 /\ k \in 1 - 1..Len(cs)
      BY <1>3, <2>4, <3>1 DEF n
    <3>3. ChunksOK(SubSeq(cs, 1, k), head.next, chunk)
      BY <1>3, <3>2, PartOK
    <3>4. Held(SubSeq(cs, 1, k)) = Len(ListIn(SubSeq(cs, 1, k), chunk))
      BY <1>3, <3>3, HeldIs
    <3> QED BY <1>8, <2>4, <3>1, <3>4
  <2>14. want = Slice(b, skip, skip + page.limit)
    <3>1. want = Slice(a \o b, page.offset, page.offset + page.limit)
      BY <2>12 DEF want
    <3>2. Len(a) <= page.offset
      BY <2>6, <2>13
    <3> HIDE DEF a, b
    <3>3. Slice(a \o b, page.offset, page.offset + page.limit)
             = Slice(b, page.offset - Len(a), page.offset - Len(a) + page.limit)
      BY <1>2, <2>12, <3>2, SlicePast
    <3> QED BY <2>7, <2>13, <3>1, <3>3
  <2>15. skip <= Len(lives[1])
    <3>1. 1 \in 1..n - start + 1 /\ start + 1 - 1 = start
      BY <1>3, <2>4
    <3>2. todo[1] = cs[start] /\ 1 \in 1..Len(todo)
      BY <2>9, <3>1
    <3> QED BY <2>8, <2>10, <3>2
  <2>16. FlattenSeq(lives) = b
    BY DEF ListIn
  <2>17. \A i \in 1..Len(todo) : LiveIn(todo[i], chunk) = lives[i]
    BY <2>10
  <2> HIDE DEF lives, b
  <2>18. \E l : /\ l \in Seq(Seq(Nat)) /\ Len(l) = Len(todo)
                /\ \A i \in 1..Len(todo) :
                      /\ todo[i].n < head.next
                      /\ todo[i].n \in DOMAIN chunk => LiveIn(todo[i], chunk) = l[i]
                /\ want = Slice(FlattenSeq(l), skip, skip + page.limit)
                /\ l # <<>> => skip <= Len(l[1])
    <3> WITNESS lives
    <3> QED BY <2>10, <2>11, <2>14, <2>15, <2>16, <2>17
  <2> QED BY <2>8, <2>11, <2>18
<1> QED BY <1>14, <1>15

LEMMA PrefixOfConcat ==
    ASSUME NEW S, NEW s \in Seq(S), NEW t \in Seq(S)
    PROVE  IsPrefix(s, s \o t)
<1>1. Len(s) \in Nat /\ Len(t) \in Nat /\ s \o t \in Seq(S) /\ Len(s \o t) = Len(s) + Len(t)
  BY LenProperties, ConcatProperties
<1>2. SubSeq(s \o t, 1, Len(s)) = s
  BY ConcatProperties, SubSeqOfConcat1
<1>3. SubSeq(s, 1, Len(s)) = s
  BY SubSeqFull
<1> QED BY <1>1, <1>2, <1>3 DEF IsPrefix

\* What is promised is the rest of the page, and nothing once it is full or no chunk is left.
LEMMA PromiseEnds ==
    ASSUME NEW g \in PageRecord, NEW next, NEW rows, NEW lives, Promised(g, next, rows, lives),
           Len(g.items) <= g.limit
    PROVE  /\ \E rest \in Seq(Nat) : g.want = g.items \o rest
           /\ g.todo = <<>> \/ Len(g.items) >= g.limit => g.items = g.want
<1> DEFINE f == FlattenSeq(lives)
           r == g.limit - Len(g.items)
           rest == Slice(f, g.skip, g.skip + r)
<1>1. /\ g.items \in Seq(Nat) /\ g.limit \in Nat /\ g.skip \in Nat /\ g.todo \in Seq(Chunk)
      /\ Len(g.items) \in Nat /\ r \in Nat
  BY LenProperties DEF PageRecord
<1>2. /\ lives \in Seq(Seq(Nat)) /\ Len(lives) = Len(g.todo) /\ g.want = g.items \o rest
  BY DEF Promised
<1>3. f \in Seq(Nat)
  BY <1>2, FlattenType
<1>4. rest \in Seq(Nat)
  <2>1. g.skip + r \in Nat
    BY <1>1
  <2> HIDE DEF f, r
  <2> QED BY <1>1, <1>3, <2>1, SliceIs
<1>5. ASSUME g.todo = <<>> \/ Len(g.items) >= g.limit PROVE rest = <<>>
  <2>1. CASE g.todo = <<>>
    <3>1. lives = <<>>
      BY <1>2, <2>1, EmptySeq
    <3>2. f = <<>> /\ Len(f) = 0
      BY <3>1, FlattenNone, EmptySeq
    <3>3. Len(f) <= g.skip
      BY <1>1, <3>2
    <3> HIDE DEF f, r
    <3> QED BY <1>1, <1>3, <3>3, SliceNone
  <2>2. CASE Len(g.items) >= g.limit
    <3>1. r = 0
      BY <1>1, <2>2
    <3> HIDE DEF f, r
    <3> QED BY <1>1, <1>3, <3>1, SliceNone
  <2> QED BY <1>5, <2>1, <2>2
<1>6. g.items \o <<>> = g.items
  BY <1>1, ConcatEmptySeq
<1> HIDE DEF rest
<1> QED BY <1>2, <1>4, <1>5, <1>6

\* A chunk that is still there gives the page its next part; one that is gone starts it again, or
\* ends it.
LEMMA ReadChunkPage ==
    ASSUME StoreInv, PageInv, ReadChunk
    PROVE  PageInv'
<1> DEFINE g == page
           c == Head(g.todo)
           r == g.limit - Len(g.items)
           x == Slice(Live(c), g.skip, g.skip + g.limit - Len(g.items))
<1>1. /\ g.pc = "chunk" /\ g.todo # <<>> /\ ~(Len(g.items) >= g.limit) /\ UNCHANGED <<head, chunk>>
      /\ IF c.n \in DOMAIN chunk
         THEN page' = [g EXCEPT !.todo = Tail(@), !.skip = 0, !.items = @ \o x]
         ELSE IF g.tries < 2
         THEN page' = [g EXCEPT !.pc = "head", !.tries = @ + 1, !.todo = <<>>, !.skip = 0,
                                !.items = <<>>, !.want = <<>>]
         ELSE page' = [g EXCEPT !.pc = "cut"]
  BY DEF ReadChunk, PageRead, store
<1>2. g \in PageRecord /\ Len(g.items) <= g.limit
  BY <1>1 DEF PageInv, PageOK
<1>3. PICK lives : Promised(g, head.next, chunk, lives)
  BY <1>1 DEF PageInv, PageOK
<1>4. /\ g.items \in Seq(Nat) /\ g.limit \in Nat /\ g.skip \in Nat /\ g.todo \in Seq(Chunk)
      /\ Len(g.items) \in Nat /\ g.tries \in 0..2 /\ g.want \in Seq(Nat) /\ r \in Nat
      /\ g.skip + g.limit - Len(g.items) = g.skip + r
  BY <1>2, LenProperties DEF PageRecord
<1>5. CASE c.n \notin DOMAIN chunk /\ g.tries < 2
  <2>1. page' = [g EXCEPT !.pc = "head", !.tries = @ + 1, !.todo = <<>>, !.skip = 0,
                          !.items = <<>>, !.want = <<>>]
    BY <1>1, <1>5
  <2>2. page'.pc = "head" /\ page'.items = <<>>
    BY <1>2, <2>1 DEF PageRecord
  <2>3. page' \in PageRecord
    <3>1. PICK k : k = g.tries + 1
      OBVIOUS
    <3>2. k \in 0..2 /\ <<>> \in Seq(Chunk) /\ <<>> \in Seq(Nat) /\ 0 \in Nat
      BY <1>4, <1>5, <3>1, EmptySeq
    <3>3. page' = [g EXCEPT !.pc = "head", !.tries = k, !.todo = <<>>, !.skip = 0,
                            !.items = <<>>, !.want = <<>>]
      BY <2>1, <3>1
    <3> QED BY <1>2, <3>2, <3>3 DEF PageRecord
  <2> QED BY <2>2, <2>3 DEF PageInv, PageOK
<1>6. CASE c.n \notin DOMAIN chunk /\ ~(g.tries < 2)
  <2>1. page' = [g EXCEPT !.pc = "cut"]
    BY <1>1, <1>6
  <2>2. /\ page' \in PageRecord /\ page'.pc = "cut" /\ page'.tries = g.tries
        /\ page'.items = g.items /\ page'.want = g.want
    BY <1>2, <2>1 DEF PageRecord
  <2>3. g.tries = 2
    BY <1>4, <1>6
  <2>4. PICK rest \in Seq(Nat) : g.want = g.items \o rest
    BY <1>2, <1>3, PromiseEnds
  <2>5. IsPrefix(g.items, g.want)
    BY <1>4, <2>4, PrefixOfConcat
  <2> QED BY <2>2, <2>3, <2>5 DEF PageInv, PageOK
<1>7. CASE c.n \in DOMAIN chunk
  <2> DEFINE a    == lives[1]
             left == Tail(lives)
             b    == FlattenSeq(left)
             todo == Tail(g.todo)
  <2>1. /\ lives \in Seq(Seq(Nat)) /\ Len(lives) = Len(g.todo)
        /\ \A i \in 1..Len(g.todo) :
              /\ g.todo[i].n < head.next
              /\ g.todo[i].n \in DOMAIN chunk => LiveIn(g.todo[i], chunk) = lives[i]
        /\ g.want = g.items \o Slice(FlattenSeq(lives), g.skip, g.skip + r)
        /\ lives # <<>> => g.skip <= Len(lives[1])
    BY <1>3 DEF Promised
  <2>2. /\ Len(g.todo) \in Nat /\ Len(g.todo) # 0 /\ todo \in Seq(Chunk) /\ Len(todo) = Len(g.todo) - 1
        /\ \A i \in 1..Len(todo) : todo[i] = g.todo[i + 1]
    BY <1>1, <1>4, HeadTailProperties, LenProperties, EmptySeq
  <2>3. lives # <<>>
    BY <2>1, <2>2, EmptySeq
  <2>4. /\ a \in Seq(Nat) /\ left \in Seq(Seq(Nat)) /\ Len(left) = Len(g.todo) - 1
        /\ \A i \in 1..Len(g.todo) - 1 : left[i] = lives[i + 1]
        /\ FlattenSeq(lives) = a \o b
    BY <2>1, <2>3, FlattenFirst
  <2>5. b \in Seq(Nat)
    BY <2>4, FlattenType
  <2>6. Live(c) = a
    <3>1. c = g.todo[1] /\ 1 \in 1..Len(g.todo)
      BY <1>4, <2>2
    <3> QED BY <1>7, <2>1, <3>1, LiveIs
  <2>7. x = Slice(a, g.skip, g.skip + r)
    BY <1>4, <2>6
  <2>8. g.skip \in 0..Len(a)
    <3>1. Len(a) \in Nat
      BY <2>4, LenProperties
    <3> QED BY <1>4, <2>1, <2>3, <3>1
  <2> HIDE DEF x, a, b, left, todo, r
  <2>9. /\ x \in Seq(Nat) /\ Len(x) <= r
        /\ Slice(a \o b, g.skip, g.skip + r) = x \o Slice(b, 0, r - Len(x))
    <3>1. \A s \in Seq(Nat), t \in Seq(Nat) : \A k \in 0..Len(s), w \in Nat :
             /\ Slice(s, k, k + w) \in Seq(Nat) /\ Len(Slice(s, k, k + w)) <= w
             /\ Slice(s \o t, k, k + w) = Slice(s, k, k + w) \o Slice(t, 0, w - Len(Slice(s, k, k + w)))
      BY SliceConcat
    <3>2. PICK s, t : s = a /\ t = b
      OBVIOUS
    <3>3. PICK k, w : k = g.skip /\ w = r
      OBVIOUS
    <3>4. s \in Seq(Nat) /\ t \in Seq(Nat) /\ k \in 0..Len(s) /\ w \in Nat
      BY <1>4, <2>4, <2>5, <2>8, <3>2, <3>3
    <3>5. /\ Slice(s, k, k + w) \in Seq(Nat) /\ Len(Slice(s, k, k + w)) <= w
          /\ Slice(s \o t, k, k + w) = Slice(s, k, k + w) \o Slice(t, 0, w - Len(Slice(s, k, k + w)))
      BY <3>1, <3>4
    <3> QED BY <2>7, <3>2, <3>3, <3>5
  <2>10. page' = [g EXCEPT !.todo = todo, !.skip = 0, !.items = @ \o x]
    BY <1>1, <1>7 DEF todo
  <2> DEFINE items == g.items \o x
  <2>11. items \in Seq(Nat) /\ Len(items) = Len(g.items) + Len(x) /\ Len(x) \in Nat
    BY <1>4, <2>9, ConcatProperties, LenProperties
  <2>12. page' \in PageRecord /\ page'.pc = "chunk" /\ page'.todo = todo /\ page'.skip = 0
         /\ page'.items = items /\ page'.limit = g.limit /\ page'.want = g.want
    BY <1>1, <1>2, <2>2, <2>10, <2>11 DEF PageRecord
  <2>13. Len(items) <= g.limit /\ g.limit - Len(items) = r - Len(x) /\ r - Len(x) \in Nat
         /\ 0 + (g.limit - Len(items)) = r - Len(x)
    <3>1. PICK l, h, u, v : l = g.limit /\ h = Len(g.items) /\ u = Len(x) /\ v = Len(items)
      OBVIOUS
    <3>2. l \in Nat /\ h \in Nat /\ u \in Nat /\ h <= l /\ r = l - h /\ u <= r /\ v = h + u
      BY <1>4, <2>9, <2>11, <3>1, LenProperties DEF r
    <3>3. v <= l /\ l - v = r - u /\ r - u \in Nat /\ 0 + (l - v) = r - u
      BY <3>2
    <3> QED BY <3>1, <3>3
  <2> DEFINE y == Slice(b, 0, r - Len(x))
  <2>14. y \in Seq(Nat)
    BY <2>5, <2>13, SliceIs
  <2>15. g.want = items \o y
    <3>1. g.want = g.items \o (x \o y)
      BY <2>1, <2>4, <2>9
    <3>2. PICK had : had = g.items
      OBVIOUS
    <3>3. had \in Seq(Nat) /\ x \in Seq(Nat) /\ y \in Seq(Nat)
      BY <1>4, <2>9, <2>14, <3>2
    <3> HIDE DEF y
    <3>4. (had \o x) \o y = had \o (x \o y)
      BY ONLY <3>3, Associative, SMTT(60)
    <3> QED BY <3>1, <3>2, <3>4
  <2>16. ASSUME NEW i \in 1..Len(todo)
         PROVE  /\ todo[i].n < head.next
                /\ todo[i].n \in DOMAIN chunk => LiveIn(todo[i], chunk) = left[i]
    <3>1. PICK k : k = i + 1
      OBVIOUS
    <3>2. k \in 1..Len(g.todo) /\ i \in 1..Len(g.todo) - 1
      BY <2>2, <3>1
    <3>3. todo[i] = g.todo[k] /\ left[i] = lives[k]
      BY <2>2, <2>4, <3>1, <3>2
    <3> QED BY <2>1, <3>2, <3>3
  <2>17. left # <<>> => 0 <= Len(left[1])
    <3> SUFFICES ASSUME left # <<>> PROVE 0 <= Len(left[1])
      OBVIOUS
    <3>1. left[1] \in Seq(Nat)
      BY <2>4, FlattenFirst
    <3> QED BY <3>1, LenProperties
  <2> HIDE DEF items, y
  <2>18. Promised(page', head.next, chunk, left)
    <3>1. y = Slice(FlattenSeq(left), 0, 0 + (g.limit - Len(items)))
      BY <2>13 DEF y, b
    <3> QED BY <2>2, <2>4, <2>12, <2>15, <2>16, <2>17, <3>1 DEF Promised
  <2>19. PageOK(page', head.next, chunk)
    BY <2>12, <2>13, <2>18 DEF PageOK
  <2> QED BY <1>1, <2>19 DEF PageInv
<1> QED BY <1>5, <1>6, <1>7

LEMMA NextPage ==
    ASSUME StoreInv, PageInv, [Next]_vars
    PROVE  PageInv'
<1>1. CASE UNCHANGED page
  <2>1. /\ head.next \in Nat /\ head'.next \in Nat /\ head'.next >= head.next
        /\ \A n \in Nat : n < head.next /\ n \in DOMAIN chunk' =>
                             n \in DOMAIN chunk /\ chunk'[n] = chunk[n]
    BY RowsStay
  <2>2. PICK rows : rows = chunk'
    OBVIOUS
  <2>3. PICK to : to = head'.next
    OBVIOUS
  <2>4. PageOK(page, to, rows)
    BY <2>1, <2>2, <2>3, PageStays DEF PageInv
  <2> QED BY <1>1, <2>2, <2>3, <2>4 DEF PageInv
<1>2. CASE Ask \/ ReadIndex \/ ReadChunk \/ Answer
  BY <1>2, AskPage, ReadIndexPage, ReadChunkPage, AnswerPage
<1>3. UNCHANGED page \/ Ask \/ ReadIndex \/ ReadChunk \/ Answer
  BY DEF Next, PassStep, vars, store, Transact, Show, BeginPass, ReadFirst, ReadSignatures,
         ReadTransactions, Merge, WriteIndex, DeleteReplaced, WriteRecord, RequestFails, Crash
<1> QED BY <1>1, <1>2, <1>3

\* However many passes write the list anew while a page is read, what has been read and what is
\* still to be read are together the page of the list that the index named when it was read.
THEOREM PagesAccounted == Spec => [](StoreInv /\ PageInv)
<1>1. Init => StoreInv /\ PageInv
  <2>1. Init => PageInv
    BY NoPageType DEF Init, PageInv, PageOK
  <2> QED BY <2>1, InitStore
<1>2. StoreInv /\ PageInv /\ [Next]_vars => StoreInv' /\ PageInv'
  BY NextStore, NextPage
<1> QED BY <1>1, <1>2, PTL DEF Spec

\* A page (tradePage in indexer.mjs) is a page of one list the coin had, whatever was merged while
\* it was read; only after three attempts may it be cut short.
THEOREM PagesAreCut == Spec => PageIsCut
<1> DEFINE Cut == \/ page.items = page.want
                  \/ page.tries = 2 /\ IsPrefix(page.items, page.want)
<1>1. ASSUME PageInv, [Next]_vars PROVE [Answer => Cut]_vars
  <2> SUFFICES ASSUME Answer PROVE Cut
    OBVIOUS
  <2>1. CASE page.pc = "cut"
    BY <1>1, <2>1 DEF PageInv, PageOK
  <2>2. CASE page.pc = "chunk" /\ PageRead
    <3>1. page \in PageRecord /\ Len(page.items) <= page.limit
      BY <1>1, <2>2 DEF PageInv, PageOK
    <3>2. PICK lives : Promised(page, head.next, chunk, lives)
      BY <1>1, <2>2 DEF PageInv, PageOK
    <3>3. page.items = page.want
      BY <2>2, <3>1, <3>2, PromiseEnds DEF PageRead
    <3> QED BY <3>3
  <2>3. (page.pc = "chunk" /\ PageRead) \/ page.pc = "cut"
    BY DEF Answer
  <2> QED BY <2>1, <2>2, <2>3
<1>2. PageInv /\ [Next]_vars => [Answer => Cut]_vars
  BY <1>1
<1> QED BY <1>2, PagesAccounted, PTL DEF Spec, PageIsCut

=============================================================================
