--------------------------- MODULE SequenceLemmas ---------------------------
(***************************************************************************)
(* Facts about sequences that the components' proofs share: induction on a *)
(* set of naturals, how FlattenSeq, which is defined by recursion, goes    *)
(* along with appending and concatenating, and what the other operators of *)
(* the community modules do to a sequence.                                 *)
(***************************************************************************)
EXTENDS Integers, SequencesExt, SequenceTheorems, FiniteSetTheorems, WellFoundedInduction,
        TLAPS

\* The order of the naturals as a relation.
Below == {p \in Nat \X Nat : p[1] < p[2]}

\* It has no endless descent.
LEMMA BelowWellFounded == IsWellFoundedOn(Below, Nat)
    BY NatLessThanWellFounded DEF OpToRel, Below

\* A set of naturals that has 0, and the next of each of its elements, has all.
LEMMA SetInduction ==
    ASSUME NEW N \in SUBSET Nat, 0 \in N, \A n \in N : n + 1 \in N
    PROVE  N = Nat
<1> DEFINE Rest == Nat \ N
<1> SUFFICES ASSUME Rest # {} PROVE FALSE
    OBVIOUS
<1>1. PICK n \in Rest : \A m \in Rest : <<m, n>> \notin Below
    <2> HIDE DEF Rest
    <2>1. Rest \subseteq Nat
        BY DEF Rest
    <2> QED
        BY <2>1, BelowWellFounded, WFMin
<1>2. \A m \in Rest : ~(m < n)
    BY <1>1 DEF Below
<1>3. n - 1 \in N
    BY <1>2
<1> QED
    BY <1>3

-----------------------------------------------------------------------------
(* FlattenSeq                                                              *)

\* f joins the first n sequences of ss, step by step.
Joins(f, ss, n) == f = [i \in 1..n |-> IF i = 1 THEN ss[i] ELSE f[i - 1] \o ss[i]]

\* What it is at each place.
LEMMA JoinsAt ==
    ASSUME NEW f, NEW ss, NEW n, Joins(f, ss, n), NEW i \in 1..n
    PROVE  f[i] = IF i = 1 THEN ss[i] ELSE f[i - 1] \o ss[i]
    BY Zenon DEF Joins

\* There is one such function for every n.
LEMMA JoinsExists ==
    ASSUME NEW ss
    PROVE  \A n \in Nat : \E f : Joins(f, ss, n)
<1> DEFINE N == {n \in Nat : \E f : Joins(f, ss, n)}
<1>1. 0 \in N
    <2>1. Joins([i \in 1..0 |-> i], ss, 0)
        BY DEF Joins
    <2> QED
        BY <2>1
<1>2. ASSUME NEW n \in N PROVE n + 1 \in N
    <2>1. PICK f : Joins(f, ss, n)
        OBVIOUS
    <2> DEFINE g == [i \in 1..(n + 1) |-> IF i = n + 1
                                          THEN IF i = 1 THEN ss[i] ELSE f[n] \o ss[i]
                                          ELSE f[i]]
    <2>2. Joins(g, ss, n + 1)
        <3> SUFFICES ASSUME NEW i \in 1..(n + 1)
                     PROVE  g[i] = IF i = 1 THEN ss[i] ELSE g[i - 1] \o ss[i]
            BY DEF Joins
        <3>1. CASE i = n + 1
            <4>1. CASE i = 1
                BY <3>1, <4>1
            <4>2. CASE i # 1
                <5>1. n \in 1..(n + 1) /\ n # n + 1 /\ i - 1 = n
                    BY <3>1, <4>2
                <5>2. g[n] = f[n]
                    BY <5>1
                <5>3. g[i] = f[n] \o ss[i]
                    BY <3>1, <4>2
                <5> QED
                    BY <4>2, <5>1, <5>2, <5>3
            <4> QED
                BY <4>1, <4>2
        <3>2. CASE i # n + 1
            <4>1. i \in 1..n /\ g[i] = f[i]
                BY <3>2
            <4>2. f[i] = IF i = 1 THEN ss[i] ELSE f[i - 1] \o ss[i]
                BY <2>1, <4>1 DEF Joins
            <4>3. i # 1 => g[i - 1] = f[i - 1]
                BY <4>1
            <4> QED
                BY <4>1, <4>2, <4>3
        <3> QED
            BY <3>1, <3>2
    <2> QED
        BY <2>2
<1>3. N \in SUBSET Nat
    OBVIOUS
<1> HIDE DEF N
<1>4. N = Nat
    BY <1>1, <1>2, <1>3, SetInduction
<1> QED
    BY <1>4 DEF N

\* Two such functions agree as far as both go, if the sequences do.
LEMMA JoinsAgree ==
    ASSUME NEW ss, NEW tt, NEW f, NEW g, NEW m \in Nat, NEW n \in Nat, m <= n,
           Joins(f, ss, m), Joins(g, tt, n), \A i \in 1..m : ss[i] = tt[i]
    PROVE  \A i \in 1..m : f[i] = g[i]
<1> DEFINE N == {k \in Nat : k \in 1..m => f[k] = g[k]}
<1>1. 0 \in N
    OBVIOUS
<1>2. ASSUME NEW k \in N PROVE k + 1 \in N
    <2> SUFFICES ASSUME k + 1 \in 1..m PROVE f[k + 1] = g[k + 1]
        OBVIOUS
    <2>0. k + 1 \in 1..n
        OBVIOUS
    <2>1. f[k + 1] = IF k + 1 = 1 THEN ss[k + 1] ELSE f[k + 1 - 1] \o ss[k + 1]
        BY JoinsAt
    <2>2. g[k + 1] = IF k + 1 = 1 THEN tt[k + 1] ELSE g[k + 1 - 1] \o tt[k + 1]
        BY <2>0, JoinsAt
    <2>3. k + 1 # 1 => k \in 1..m /\ k + 1 - 1 = k /\ f[k] = g[k]
        OBVIOUS
    <2> QED
        BY <2>1, <2>2, <2>3
<1>3. N \in SUBSET Nat
    OBVIOUS
<1> HIDE DEF N
<1>4. N = Nat
    BY <1>1, <1>2, <1>3, SetInduction
<1> QED
    BY <1>4 DEF N

\* What FlattenSeq is, told by any such function.
LEMMA FlattenIs ==
    ASSUME NEW ss, NEW n \in Nat \ {0}, Len(ss) = n, NEW f, Joins(f, ss, n)
    PROVE  FlattenSeq(ss) = f[n]
<1> DEFINE g == CHOOSE h : Joins(h, ss, n)
<1>1. Joins(g, ss, n)
    OBVIOUS
<1>2. FlattenSeq(ss) = g[n]
    BY DEF FlattenSeq, Joins
<1> HIDE DEF g
<1>3. f[n] = g[n]
    BY <1>1, JoinsAgree
<1> QED
    BY <1>2, <1>3

\* Of no sequences.
LEMMA FlattenEmpty == FlattenSeq(<<>>) = <<>>
    BY DEF FlattenSeq

\* A function that joins sequences over S has sequences over S as values.
LEMMA JoinsType ==
    ASSUME NEW S, NEW ss \in Seq(Seq(S)), NEW f, Joins(f, ss, Len(ss))
    PROVE  \A i \in 1..Len(ss) : f[i] \in Seq(S)
<1> DEFINE N == {k \in Nat : k \in 1..Len(ss) => f[k] \in Seq(S)}
<1>1. 0 \in N
    OBVIOUS
<1>2. ASSUME NEW k \in N PROVE k + 1 \in N
    <2> SUFFICES ASSUME k + 1 \in 1..Len(ss) PROVE f[k + 1] \in Seq(S)
        OBVIOUS
    <2>1. f[k + 1] = IF k + 1 = 1 THEN ss[k + 1] ELSE f[k + 1 - 1] \o ss[k + 1]
        BY JoinsAt
    <2>2. ss[k + 1] \in Seq(S)
        BY ElementOfSeq
    <2>3. k + 1 # 1 => k + 1 - 1 = k /\ f[k] \in Seq(S)
        BY LenProperties
    <2> QED
        BY <2>1, <2>2, <2>3, ConcatProperties
<1>3. N \in SUBSET Nat
    OBVIOUS
<1> HIDE DEF N
<1>4. N = Nat
    BY <1>1, <1>2, <1>3, SetInduction
<1> QED
    BY <1>4, LenProperties DEF N

\* Joined sequences over S are a sequence over S.
LEMMA FlattenType ==
    ASSUME NEW S, NEW ss \in Seq(Seq(S))
    PROVE  FlattenSeq(ss) \in Seq(S)
<1>1. CASE ss = <<>>
    <2>1. <<>> \in Seq(S)
        OBVIOUS
    <2> QED
        BY <1>1, <2>1, FlattenEmpty, Zenon
<1>2. CASE ss # <<>>
    <2>1. Len(ss) \in Nat \ {0}
        BY <1>2, EmptySeq, LenProperties
    <2>2. PICK f : Joins(f, ss, Len(ss))
        BY <2>1, JoinsExists
    <2>3. FlattenSeq(ss) = f[Len(ss)]
        BY <2>1, <2>2, FlattenIs
    <2>4. Len(ss) \in 1..Len(ss)
        BY <2>1
    <2> QED
        BY <2>2, <2>3, <2>4, JoinsType
<1> QED
    BY <1>1, <1>2

\* One more sequence is joined at the end.
LEMMA FlattenAppend ==
    ASSUME NEW S, NEW ss \in Seq(Seq(S)), NEW t \in Seq(S)
    PROVE  FlattenSeq(Append(ss, t)) = FlattenSeq(ss) \o t
<1> DEFINE tt == Append(ss, t)
           n  == Len(ss)
           m  == n + 1
<1>1. n \in Nat /\ Len(tt) = m /\ m = n + 1 /\ tt[m] = t /\ \A i \in 1..n : ss[i] = tt[i]
    BY AppendProperties, LenProperties
<1> HIDE DEF tt, n, m
<1>2. PICK f : Joins(f, ss, n)
    BY <1>1, JoinsExists
<1>3. PICK g : Joins(g, tt, m)
    <2>1. m \in Nat
        BY <1>1
    <2> QED
        BY <2>1, JoinsExists
<1>4. FlattenSeq(tt) = g[m]
    BY <1>1, <1>3, FlattenIs
<1>5. m \in 1..m
    BY <1>1
<1>6. g[m] = IF m = 1 THEN tt[m] ELSE g[m - 1] \o tt[m]
    BY <1>3, <1>5, JoinsAt
<1>7. CASE n = 0
    <2>1. ss = <<>>
        BY <1>7, EmptySeq DEF n
    <2>2. FlattenSeq(ss) \o t = t
        BY <2>1, FlattenEmpty, ConcatEmptySeq
    <2>3. g[m] = t
        BY <1>1, <1>6, <1>7
    <2> QED
        BY <1>4, <2>2, <2>3 DEF tt
<1>8. CASE n # 0
    <2>1. FlattenSeq(ss) = f[n]
        BY <1>1, <1>2, <1>8, FlattenIs DEF n
    <2>2. \A i \in 1..n : f[i] = g[i]
        BY <1>1, <1>2, <1>3, JoinsAgree
    <2>3. n \in 1..n /\ m # 1 /\ m - 1 = n
        BY <1>1, <1>8
    <2> QED
        BY <1>1, <1>4, <1>6, <2>1, <2>2, <2>3 DEF tt
<1> QED
    BY <1>7, <1>8

\* Two parts are joined apart, then together.
LEMMA FlattenConcat ==
    ASSUME NEW S
    PROVE  \A ss, tt \in Seq(Seq(S)) :
               FlattenSeq(ss \o tt) = FlattenSeq(ss) \o FlattenSeq(tt)
<1>0. \A a, b, c \in Seq(S) : (a \o b) \o c = a \o (b \o c)
    BY ConcatAssociative
<1> TAKE ss, tt \in Seq(Seq(S))
<1> DEFINE Good(uu) == FlattenSeq(ss \o uu) = FlattenSeq(ss) \o FlattenSeq(uu)
           N == {n \in Nat : \A uu \in Seq(Seq(S)) : Len(uu) = n => Good(uu)}
<1>1. 0 \in N
    <2> SUFFICES ASSUME NEW uu \in Seq(Seq(S)), Len(uu) = 0 PROVE Good(uu)
        OBVIOUS
    <2>1. uu = <<>>
        BY EmptySeq
    <2>2. ss \o uu = ss /\ FlattenSeq(ss) \o FlattenSeq(uu) = FlattenSeq(ss)
        BY <2>1, ConcatEmptySeq, FlattenEmpty, FlattenType
    <2> QED
        BY <2>2
<1>2. ASSUME NEW n \in N PROVE n + 1 \in N
    <2> SUFFICES ASSUME NEW uu \in Seq(Seq(S)), Len(uu) = n + 1 PROVE Good(uu)
        OBVIOUS
    <2>1. PICK vv \in Seq(Seq(S)), t \in Seq(S) : uu = Append(vv, t)
        <3>1. uu # <<>>
            BY EmptySeq
        <3> QED
            BY <3>1, SequenceEmptyOrAppend
    <2>2. Len(vv) = n
        BY <2>1, AppendProperties, LenProperties
    <2>3. Good(vv)
        BY <2>2
    <2> HIDE DEF N, Good
    <2>4. ss \o uu = Append(ss \o vv, t)
        <3>1. ss \o vv \in Seq(Seq(S)) /\ <<t>> \in Seq(Seq(S))
            BY ConcatProperties
        <3>2. uu = vv \o <<t>> /\ Append(ss \o vv, t) = (ss \o vv) \o <<t>>
            BY <2>1, <3>1, AppendIsConcat
        <3>3. ss \o (vv \o <<t>>) = (ss \o vv) \o <<t>>
            BY <3>1, ConcatAssociative
        <3> QED
            BY <3>2, <3>3
    <2>5. FlattenSeq(ss \o uu) = FlattenSeq(ss \o vv) \o t
        BY <2>4, FlattenAppend, ConcatProperties
    <2>6. FlattenSeq(uu) = FlattenSeq(vv) \o t
        BY <2>1, FlattenAppend
    <2>8. FlattenSeq(ss) \in Seq(S) /\ FlattenSeq(vv) \in Seq(S)
        BY FlattenType
    <2> DEFINE a == FlattenSeq(ss)
               b == FlattenSeq(vv)
    <2>9. (a \o b) \o t = a \o (b \o t)
        <3>1. a \in Seq(S) /\ b \in Seq(S) /\ t \in Seq(S)
            BY <2>8
        <3> HIDE DEF a, b
        <3> QED
            BY <3>1, <1>0
    <2> QED
        BY <2>3, <2>5, <2>6, <2>9 DEF Good
<1>3. N \in SUBSET Nat
    OBVIOUS
<1> HIDE DEF N
<1>4. N = Nat
    BY <1>1, <1>2, <1>3, SetInduction
<1> QED
    BY <1>4, LenProperties DEF N

\* One sequence is what it is joined to.
LEMMA FlattenOne ==
    ASSUME NEW S, NEW t \in Seq(S)
    PROVE  FlattenSeq(<<t>>) = t
<1>1. Append(<<>>, t) = <<t>> /\ <<>> \in Seq(Seq(S))
    OBVIOUS
<1>2. FlattenSeq(<<t>>) = <<>> \o t
    BY <1>1, FlattenAppend, FlattenEmpty
<1> QED
    BY <1>2, ConcatEmptySeq

-----------------------------------------------------------------------------
(* Sequences of whatever elements                                          *)

\* A sequence, whatever its elements.
IsSeq(s) == \E S : s \in Seq(S)

\* Append goes on with the new element.
LEMMA AppendAny ==
    ASSUME NEW s, IsSeq(s), NEW e
    PROVE  /\ IsSeq(Append(s, e))
           /\ Len(s) \in Nat /\ Len(Append(s, e)) = Len(s) + 1
           /\ \A i \in 1..Len(s) : Append(s, e)[i] = s[i]
           /\ Append(s, e)[Len(s) + 1] = e
<1>1. PICK S : s \in Seq(S)
    BY DEF IsSeq
<1> DEFINE T == S \cup {e}
<1>2. s \in Seq(T) /\ e \in T
    BY <1>1, SeqMonotonic
<1> HIDE DEF T
<1>3. /\ Append(s, e) \in Seq(T)
      /\ Len(Append(s, e)) = Len(s) + 1
      /\ \A i \in 1..Len(s) : Append(s, e)[i] = s[i]
      /\ Append(s, e)[Len(s) + 1] = e
    BY <1>2, AppendProperties
<1> QED
    BY <1>2, <1>3, LenProperties DEF IsSeq

\* Tail drops the first.
LEMMA TailAny ==
    ASSUME NEW s, IsSeq(s), s # <<>>
    PROVE  /\ IsSeq(Tail(s))
           /\ Len(s) \in Nat \ {0} /\ Len(Tail(s)) = Len(s) - 1
           /\ \A i \in 1..Len(s) - 1 : Tail(s)[i] = s[i + 1]
           /\ Head(s) = s[1]
<1>1. PICK S : s \in Seq(S)
    BY DEF IsSeq
<1>2. /\ Tail(s) \in Seq(S)
      /\ Len(Tail(s)) = Len(s) - 1
      /\ \A i \in 1..Len(Tail(s)) : Tail(s)[i] = s[i + 1]
    BY <1>1, HeadTailProperties
<1>3. Len(s) \in Nat \ {0}
    BY <1>1, EmptySeq
<1> QED
    BY <1>1, <1>2, <1>3 DEF IsSeq

\* The empty sequence.
LEMMA EmptyAny == IsSeq(<<>>) /\ Len(<<>>) = 0
<1>1. <<>> \in Seq({})
    OBVIOUS
<1> QED
    BY <1>1 DEF IsSeq

\* Only the empty sequence has no elements.
LEMMA LenAny ==
    ASSUME NEW s, IsSeq(s)
    PROVE  Len(s) \in Nat /\ (s = <<>> <=> Len(s) = 0)
<1>1. PICK S : s \in Seq(S)
    BY DEF IsSeq
<1> QED
    BY <1>1, EmptySeq, LenProperties

\* RemoveAt closes the gap it leaves.
LEMMA RemoveAtProperties ==
    ASSUME NEW S, NEW s \in Seq(S), NEW i \in 1..Len(s)
    PROVE  /\ RemoveAt(s, i) \in Seq(S)
           /\ Len(RemoveAt(s, i)) = Len(s) - 1
           /\ \A k \in 1..Len(s) - 1 : RemoveAt(s, i)[k] = IF k < i THEN s[k] ELSE s[k + 1]
<1> DEFINE n == Len(s)
           a == SubSeq(s, 1, i - 1)
           b == SubSeq(s, i + 1, n)
<1>1. n \in Nat /\ i \in 1..n /\ \A j \in 1..n : s[j] \in S
    BY LenProperties, ElementOfSeq
<1>2. a \in Seq(S) /\ Len(a) = i - 1 /\ \A k \in 1..i - 1 : a[k] = s[k]
    <2> DEFINE m == i - 1
    <2>1. m \in Int /\ 1 \in Int /\ m >= 0 /\ \A j \in 1..m : s[j] \in S
        BY <1>1
    <2>2. /\ SubSeq(s, 1, m) \in Seq(S)
          /\ Len(SubSeq(s, 1, m)) = (IF 1 <= m THEN m - 1 + 1 ELSE 0)
          /\ \A j \in 1..m - 1 + 1 : SubSeq(s, 1, m)[j] = s[1 + j - 1]
        <3> HIDE DEF m
        <3> QED
            BY <2>1, SubSeqProperties
    <2>3. (IF 1 <= m THEN m - 1 + 1 ELSE 0) = m /\ m - 1 + 1 = m /\ \A j \in 1..m : 1 + j - 1 = j
        BY <2>1
    <2>4. \A j \in 1..m : a[j] = s[j]
        <3> HIDE DEF m
        <3> TAKE j \in 1..m
        <3>1. 1 + j - 1 = j /\ SubSeq(s, 1, m)[j] = s[1 + j - 1]
            BY <2>2, <2>3
        <3> QED
            BY <3>1 DEF m
    <2> QED
        BY <2>2, <2>3, <2>4
<1>3. b \in Seq(S) /\ Len(b) = n - i /\ \A k \in 1..n - i : b[k] = s[k + i]
    <2> DEFINE m == i + 1
    <2>1. m \in Int /\ n \in Int /\ \A j \in m..n : s[j] \in S
        BY <1>1
    <2>2. /\ SubSeq(s, m, n) \in Seq(S)
          /\ Len(SubSeq(s, m, n)) = (IF m <= n THEN n - m + 1 ELSE 0)
          /\ \A j \in 1..n - m + 1 : SubSeq(s, m, n)[j] = s[m + j - 1]
        <3> HIDE DEF m, n
        <3> QED
            BY <2>1, SubSeqProperties
    <2>3. (IF m <= n THEN n - m + 1 ELSE 0) = n - i /\ n - m + 1 = n - i
          /\ \A j \in 1..n - i : m + j - 1 = j + i
        BY <1>1
    <2>4. \A j \in 1..n - i : b[j] = s[j + i]
        <3> HIDE DEF n
        <3> TAKE j \in 1..n - i
        <3>1. m + j - 1 = j + i /\ SubSeq(s, m, n)[j] = s[m + j - 1]
            BY <2>2, <2>3
        <3> QED
            BY <3>1
    <2> QED
        BY <2>2, <2>3, <2>4
<1>4. RemoveAt(s, i) = a \o b
    BY DEF RemoveAt
<1> HIDE DEF a, b, n
<1>5. /\ a \o b \in Seq(S)
      /\ Len(a \o b) = Len(a) + Len(b)
      /\ \A k \in 1..Len(a) + Len(b) : (a \o b)[k] = IF k <= Len(a) THEN a[k] ELSE b[k - Len(a)]
    BY <1>2, <1>3, ConcatProperties
<1>6. Len(a) + Len(b) = n - 1
    BY <1>1, <1>2, <1>3
<1>7. ASSUME NEW k \in 1..n - 1 PROVE (a \o b)[k] = IF k < i THEN s[k] ELSE s[k + 1]
    <2>1. CASE k < i
        <3>1. k \in 1..i - 1 /\ k <= Len(a)
            BY <1>1, <1>2, <2>1
        <3> QED
            BY <1>2, <1>5, <1>6, <2>1, <3>1
    <2>2. CASE ~(k < i)
        <3> DEFINE j == k - (i - 1)
        <3>1. j \in 1..n - i /\ ~(k <= Len(a)) /\ j = k - Len(a) /\ j + i = k + 1
            BY <1>1, <1>2, <2>2
        <3>2. (a \o b)[k] = b[j]
            BY <1>5, <1>6, <3>1
        <3>3. b[j] = s[j + i]
            BY <1>3, <3>1
        <3> HIDE DEF j
        <3> QED
            BY <2>2, <3>1, <3>2, <3>3
    <2> QED
        BY <2>1, <2>2
<1> QED
    BY <1>4, <1>5, <1>6, <1>7 DEF n

-----------------------------------------------------------------------------
(* The end of a sequence, and the orders of a set                          *)

\* A sequence is its front and its last element, and to change the last is to change
\* what is appended to the front.
LEMMA FrontLast ==
    ASSUME NEW S, NEW ss \in Seq(S), ss # <<>>
    PROVE  /\ Front(ss) \in Seq(S) /\ Last(ss) \in S
           /\ Len(Front(ss)) = Len(ss) - 1
           /\ ss = Append(Front(ss), Last(ss))
           /\ \A t \in S : [ss EXCEPT ![Len(ss)] = t] = Append(Front(ss), t)
<1>1. Len(ss) \in Nat \ {0} /\ \A i \in 1..Len(ss) : ss[i] \in S
    BY EmptySeq, ElementOfSeq
<1>2. Front(ss) = SubSeq(ss, 1, Len(ss) - 1) /\ Last(ss) = ss[Len(ss)]
    BY DEF Front, Last
<1>3. Front(ss) \in Seq(S) /\ Last(ss) \in S /\ Len(Front(ss)) = Len(ss) - 1
      /\ \A i \in 1..Len(ss) - 1 : Front(ss)[i] = ss[i]
    <2> DEFINE n == Len(ss) - 1
    <2>1. n \in Nat /\ \A i \in 1..n : ss[i] \in S
        BY <1>1
    <2>2. /\ SubSeq(ss, 1, n) \in Seq(S)
          /\ Len(SubSeq(ss, 1, n)) = IF 1 <= n THEN n - 1 + 1 ELSE 0
          /\ \A i \in 1..n - 1 + 1 : SubSeq(ss, 1, n)[i] = ss[1 + i - 1]
        <3> HIDE DEF n
        <3> QED
            BY <2>1, SubSeqProperties
    <2>3. Front(ss) = SubSeq(ss, 1, n)
        BY <1>2
    <2>4. Front(ss) \in Seq(S) /\ Len(Front(ss)) = n /\ \A i \in 1..n : Front(ss)[i] = ss[i]
        <3> HIDE DEF n
        <3>1. (IF 1 <= n THEN n - 1 + 1 ELSE 0) = n /\ n - 1 + 1 = n
            BY <2>1
        <3>2. \A i \in 1..n : ss[1 + i - 1] = ss[i]
            <4>1. \A i \in 1..n : 1 + i - 1 = i
                BY <2>1
            <4> QED
                BY Zenon, <4>1
        <3> QED
            BY <2>2, <2>3, <3>1, <3>2
    <2>5. Last(ss) \in S
        BY <1>1, <1>2
    <2> QED
        BY <2>4, <2>5
<1>4. ASSUME NEW t \in S
      PROVE  /\ Append(Front(ss), t) \in Seq(S) /\ Len(Append(Front(ss), t)) = Len(ss)
             /\ \A i \in 1..Len(ss) - 1 : Append(Front(ss), t)[i] = ss[i]
             /\ Append(Front(ss), t)[Len(ss)] = t
    <2>1. /\ Append(Front(ss), t) \in Seq(S) /\ Len(Append(Front(ss), t)) = Len(Front(ss)) + 1
          /\ \A i \in 1..Len(Front(ss)) : Append(Front(ss), t)[i] = Front(ss)[i]
          /\ Append(Front(ss), t)[Len(Front(ss)) + 1] = t
        BY <1>3, AppendProperties
    <2>2. Len(Front(ss)) + 1 = Len(ss) /\ 1..Len(ss) - 1 = 1..Len(Front(ss))
        BY <1>1, <1>3
    <2> QED
        BY <1>3, <2>1, <2>2
<1>5. ss = Append(Front(ss), Last(ss))
    <2> DEFINE r == Append(Front(ss), Last(ss))
    <2>1. /\ r \in Seq(S) /\ Len(r) = Len(ss)
          /\ \A i \in 1..Len(ss) - 1 : r[i] = ss[i]
          /\ r[Len(ss)] = ss[Len(ss)]
        BY <1>2, <1>3, <1>4
    <2> HIDE DEF r
    <2>2. ASSUME NEW i \in 1..Len(ss) PROVE ss[i] = r[i]
        <3>1. i = Len(ss) \/ i \in 1..Len(ss) - 1
            BY <1>1
        <3>2. CASE i = Len(ss)
            BY Zenon, <2>1, <3>2
        <3>3. CASE i \in 1..Len(ss) - 1
            BY Zenon, <2>1, <3>3
        <3> QED
            BY <3>1, <3>2, <3>3
    <2>3. ss = r
        BY <2>1, <2>2, SeqEqual
    <2> QED
        BY <2>3 DEF r
<1>6. ASSUME NEW t \in S PROVE [ss EXCEPT ![Len(ss)] = t] = Append(Front(ss), t)
    <2> DEFINE l == [ss EXCEPT ![Len(ss)] = t]
               r == Append(Front(ss), t)
    <2>1. l \in Seq(S) /\ Len(l) = Len(ss)
          /\ \A i \in 1..Len(ss) : l[i] = IF i = Len(ss) THEN t ELSE ss[i]
        BY <1>1, ExceptSeq
    <2>2. /\ r \in Seq(S) /\ Len(r) = Len(ss)
          /\ \A i \in 1..Len(ss) - 1 : r[i] = ss[i]
          /\ r[Len(ss)] = t
        BY <1>4
    <2> HIDE DEF l, r
    <2>3. ASSUME NEW i \in 1..Len(l) PROVE l[i] = r[i]
        <3>1. i \in 1..Len(ss) /\ (i = Len(ss) \/ i \in 1..Len(ss) - 1)
            BY <1>1, <2>1
        <3>2. i \in 1..Len(ss) - 1 => i # Len(ss)
            BY <1>1
        <3>3. l[i] = IF i = Len(ss) THEN t ELSE ss[i]
            BY <2>1, <3>1
        <3>4. CASE i = Len(ss)
            BY Zenon, <2>2, <3>3, <3>4
        <3>5. CASE i \in 1..Len(ss) - 1
            <4>1. r[i] = ss[i]
                BY Zenon, <2>2, <3>5
            <4> QED
                BY Zenon, <3>2, <3>3, <3>5, <4>1
        <3> QED
            BY <3>1, <3>4, <3>5
    <2>4. l = r
        BY <2>1, <2>2, <2>3, SeqEqual
    <2> QED
        BY <2>4 DEF l, r
<1> QED
    BY <1>3, <1>5, <1>6

\* An element more.
LEMMA RangeAppend ==
    ASSUME NEW S, NEW seq \in Seq(S), NEW e \in S
    PROVE  Len(Append(seq, e)) = Len(seq) + 1 /\ Range(Append(seq, e)) = Range(seq) \cup {e}
<1>1. Append(seq, e) = seq \o <<e>> /\ <<e>> \in Seq(S)
    BY AppendIsConcat
<1>2. Range(<<e>>) = {e}
    BY DEF Range
<1>3. Range(seq \o <<e>>) = Range(seq) \cup Range(<<e>>)
    BY <1>1, RangeConcatenation
<1>4. Len(Append(seq, e)) = Len(seq) + 1
    BY AppendProperties
<1> QED
    BY <1>1, <1>2, <1>3, <1>4

\* An order of a finite set names each of its elements, and none twice.
LEMMA SetToSeqsIs ==
    ASSUME NEW I, IsFiniteSet(I), NEW order \in SetToSeqs(I)
    PROVE  /\ order \in Seq(I)
           /\ \A i, j \in 1..Len(order) : i # j => order[i] # order[j]
           /\ \A x \in I : \E i \in 1..Len(order) : order[i] = x
<1> DEFINE D == 1..Cardinality(I)
<1>1. Cardinality(I) \in Nat
    BY FS_CardinalityType
<1>2. order \in [D -> I] /\ \A i, j \in D : i # j => order[i] # order[j]
    BY DEF SetToSeqs
<1>3. order \in Seq(I) /\ Len(order) = Cardinality(I)
    BY <1>1, <1>2, SeqDef
<1>4. IsFiniteSet(D) /\ Cardinality(D) = Cardinality(I)
    BY <1>1, FS_Interval
<1>5. order \in Injection(D, I)
    BY <1>2 DEF Injection, IsInjective
<1>6. order \in Surjection(D, I)
    BY <1>4, <1>5, FS_Injection
<1> QED
    BY <1>2, <1>3, <1>6 DEF Surjection

\* A sequence is its head and its tail.
LEMMA HeadTailConcat ==
ASSUME NEW S, NEW s \in Seq(S), s # <<>>
PROVE  s = <<Head(s)>> \o Tail(s)
<1>1. /\ Head(s) = s[1] /\ Head(s) \in S /\ Tail(s) \in Seq(S)
      /\ Len(Tail(s)) = Len(s) - 1 /\ Len(s) \in Nat \ {0}
      /\ \A i \in 1..Len(Tail(s)) : Tail(s)[i] = s[i + 1]
  BY HeadTailProperties, EmptySeq
<1> DEFINE h == <<Head(s)>>
           t == Tail(s)
           c == h \o t
<1>2. h \in Seq(S) /\ Len(h) = 1 /\ h[1] = s[1]
  BY <1>1
<1>3. /\ c \in Seq(S) /\ Len(c) = Len(h) + Len(t)
      /\ \A i \in 1..(Len(h) + Len(t)) : c[i] = IF i <= Len(h) THEN h[i] ELSE t[i - Len(h)]
  BY <1>1, <1>2, ConcatProperties
<1> HIDE DEF h, c
<1>4. \A i \in 1..Len(s) : c[i] = s[i]
  BY <1>1, <1>2, <1>3
<1>5. c = s
  BY <1>1, <1>2, <1>3, <1>4, SeqEqual
<1> QED
  BY <1>5 DEF c, h

\* What follows the first of two sequences is the second.
LEMMA ConcatRest ==
    ASSUME NEW S, NEW a \in Seq(S), NEW b \in Seq(S)
    PROVE  b = SubSeq(a \o b, Len(a) + 1, Len(a \o b))
<1> DEFINE c == a \o b
           r == SubSeq(c, Len(a) + 1, Len(c))
<1>1. Len(a) \in Nat /\ Len(b) \in Nat
    BY LenProperties
<1>2. /\ c \in Seq(S) /\ Len(c) = Len(a) + Len(b)
      /\ \A i \in 1..(Len(a) + Len(b)) : c[i] = IF i <= Len(a) THEN a[i] ELSE b[i - Len(a)]
    BY ConcatProperties
<1> HIDE DEF c
<1>3. \A i \in (Len(a) + 1)..Len(c) : c[i] \in S
    BY <1>1, <1>2, ElementOfSeq
<1>4. /\ r \in Seq(S) /\ Len(r) = Len(b)
      /\ \A i \in 1..Len(b) : r[i] = c[Len(a) + i]
    BY <1>1, <1>2, <1>3, SubSeqProperties
<1>5. \A i \in 1..Len(b) : r[i] = b[i]
    <2> TAKE i \in 1..Len(b)
    <2>1. Len(a) + i \in 1..(Len(a) + Len(b)) /\ ~(Len(a) + i <= Len(a))
        BY <1>1
    <2>2. c[Len(a) + i] = b[(Len(a) + i) - Len(a)] /\ (Len(a) + i) - Len(a) = i
        BY <1>1, <1>2, <2>1
    <2> QED
        BY <1>4, <2>2
<1> HIDE DEF r
<1>6. r = b
    BY <1>4, <1>5, SeqEqual
<1> QED
    BY <1>6 DEF r, c

-----------------------------------------------------------------------------
(* Lines of consecutive numbers                                            *)

\* The last n numbers up to p.
LastNumbers(p, n) == [i \in 1..n |-> p - n + i]

\* They are a sequence.
LEMMA LastNumbersAre ==
    ASSUME NEW p \in Nat, NEW n \in Nat
    PROVE  /\ LastNumbers(p, n) \in Seq(Int) /\ Len(LastNumbers(p, n)) = n
           /\ \A i \in 1..n : LastNumbers(p, n)[i] = p - n + i
    BY DEF LastNumbers

\* It goes on with the next number,
LEMMA LastNumbersAppend ==
    ASSUME NEW p \in Nat, NEW n \in Nat
    PROVE  LastNumbers(p + 1, n + 1) = Append(LastNumbers(p, n), p + 1)
<1> DEFINE s == LastNumbers(p, n)
           t == LastNumbers(p + 1, n + 1)
<1>1. s \in Seq(Int) /\ Len(s) = n /\ \A i \in 1..n : s[i] = p - n + i
    BY LastNumbersAre
<1>2. t \in Seq(Int) /\ Len(t) = n + 1 /\ \A i \in 1..(n + 1) : t[i] = p - n + i
    BY LastNumbersAre
<1> HIDE DEF s, t
<1>3. /\ Append(s, p + 1) \in Seq(Int) /\ Len(Append(s, p + 1)) = n + 1
      /\ \A i \in 1..n : Append(s, p + 1)[i] = p - n + i
      /\ Append(s, p + 1)[n + 1] = p + 1
    BY <1>1, AppendProperties
<1>4. \A i \in 1..(n + 1) : t[i] = Append(s, p + 1)[i]
    BY <1>2, <1>3
<1>5. t = Append(s, p + 1)
    BY <1>2, <1>3, <1>4, SeqEqual
<1> QED
    BY <1>5 DEF s, t

\* and loses some at its front.
LEMMA LastNumbersRest ==
    ASSUME NEW p \in Nat, NEW n \in Nat, NEW m \in 0..n
    PROVE  LastNumbers(p, n - m) = SubSeq(LastNumbers(p, n), m + 1, n)
<1> DEFINE s == LastNumbers(p, n)
           t == LastNumbers(p, n - m)
           u == SubSeq(s, m + 1, n)
<1>1. s \in Seq(Int) /\ Len(s) = n /\ \A i \in 1..n : s[i] = p - n + i
    BY LastNumbersAre
<1>2. t \in Seq(Int) /\ Len(t) = n - m /\ \A i \in 1..(n - m) : t[i] = p - (n - m) + i
    BY LastNumbersAre
<1> HIDE DEF s, t
<1>3. \A i \in (m + 1)..n : s[i] \in Int
    BY <1>1
<1>4. /\ u \in Seq(Int) /\ Len(u) = n - m
      /\ \A i \in 1..(n - m) : u[i] = s[m + i]
    BY <1>3, SubSeqProperties
<1>5. \A i \in 1..(n - m) : t[i] = u[i]
    BY <1>1, <1>2, <1>4
<1> HIDE DEF u
<1>6. t = u
    BY <1>2, <1>4, <1>5, SeqEqual
<1> QED
    BY <1>6 DEF s, t, u

\* s counts up to q.
CountsTo(s, q) == \A i \in 1..Len(s) : s[i] = q - Len(s) + i

\* It may be in three parts.
LEMMA LastNumbersInParts ==
    ASSUME NEW p \in Nat, NEW a \in Seq(Int), NEW b \in Seq(Int), NEW c \in Seq(Int),
           NEW n \in Nat, n = Len(a) + Len(b) + Len(c),
           CountsTo(a, p - Len(b) - Len(c)), CountsTo(b, p - Len(c)), CountsTo(c, p)
    PROVE  (a \o b) \o c = LastNumbers(p, n)
<1> DEFINE s == (a \o b) \o c
           t == LastNumbers(p, n)
<1>1. Len(a) \in Nat /\ Len(b) \in Nat /\ Len(c) \in Nat /\ n \in Nat
    BY LenProperties
<1>2. /\ a \o b \in Seq(Int) /\ Len(a \o b) = Len(a) + Len(b)
      /\ \A i \in 1..(Len(a) + Len(b)) :
            (a \o b)[i] = IF i <= Len(a) THEN a[i] ELSE b[i - Len(a)]
    BY ConcatProperties, Zenon
<1>3. /\ s \in Seq(Int) /\ Len(s) = Len(a \o b) + Len(c)
      /\ \A i \in 1..(Len(a \o b) + Len(c)) :
            s[i] = IF i <= Len(a \o b) THEN (a \o b)[i] ELSE c[i - Len(a \o b)]
    <2> DEFINE ab == a \o b
    <2>1. ab \in Seq(Int)
        BY <1>2
    <2> HIDE DEF ab
    <2>2. /\ ab \o c \in Seq(Int) /\ Len(ab \o c) = Len(ab) + Len(c)
          /\ \A i \in 1..(Len(ab) + Len(c)) :
                (ab \o c)[i] = IF i <= Len(ab) THEN ab[i] ELSE c[i - Len(ab)]
        BY <2>1, ConcatProperties
    <2> QED
        BY <2>2 DEF ab
<1>4. t \in Seq(Int) /\ Len(t) = n /\ \A i \in 1..n : t[i] = p - n + i
    BY <1>1, LastNumbersAre
<1> HIDE DEF s, t
<1>5. ASSUME NEW i \in 1..n PROVE s[i] = t[i]
    <2>1. CASE i <= Len(a)
        <3>1. i \in 1..Len(a) /\ i \in 1..(Len(a) + Len(b)) /\ i <= Len(a) + Len(b)
            BY <1>1, <2>1
        <3>2. s[i] = a[i]
            BY <1>1, <1>2, <1>3, <2>1, <3>1
        <3> QED
            BY <1>1, <1>4, <3>1, <3>2 DEF CountsTo
    <2>2. CASE ~(i <= Len(a)) /\ i <= Len(a) + Len(b)
        <3>1. i - Len(a) \in 1..Len(b) /\ i \in 1..(Len(a) + Len(b))
            BY <1>1, <2>2
        <3>2. s[i] = b[i - Len(a)]
            BY <1>1, <1>2, <1>3, <2>2, <3>1
        <3>3. b[i - Len(a)] = p - Len(c) - Len(b) + (i - Len(a))
            BY <3>1 DEF CountsTo
        <3> QED
            BY <1>1, <1>4, <3>2, <3>3
    <2>3. CASE ~(i <= Len(a) + Len(b))
        <3>1. i - (Len(a) + Len(b)) \in 1..Len(c)
            BY <1>1, <2>3
        <3>2. s[i] = c[i - (Len(a) + Len(b))]
            BY <1>1, <1>2, <1>3, <2>3
        <3>3. c[i - (Len(a) + Len(b))] = p - Len(c) + (i - (Len(a) + Len(b)))
            BY <3>1 DEF CountsTo
        <3> QED
            BY <1>1, <1>4, <3>2, <3>3
    <2> QED
        BY <2>1, <2>2, <2>3
<1>6. Len(s) = n
    BY <1>2, <1>3
<1>7. s = t
    BY <1>3, <1>4, <1>5, <1>6, SeqEqual
<1> QED
    BY <1>7 DEF s, t
=============================================================================
