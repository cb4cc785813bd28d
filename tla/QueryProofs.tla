---------------------------- MODULE QueryProofs ----------------------------
(***************************************************************************)
(* Machine-checked proofs about Query: what the resolvers answer in every  *)
(* state EventStore can reach, for every set of events, every order of     *)
(* keys, every limit and every query.                                      *)
(***************************************************************************)
EXTENDS Query, EventStoreProofs, SequenceTheorems, WellFoundedInduction

-----------------------------------------------------------------------------
\* Numbers and sequences.

\* A set of naturals that is not empty has a least element.
LEMMA LeastNatural ==
    ASSUME NEW S \in SUBSET Nat, S # {}
    PROVE  \E m \in S : \A n \in S : m <= n
<1>1. PICK m \in S : \A n \in S : ~(<<n, m>> \in OpToRel(<, Nat))
  BY NatLessThanWellFounded, WFMin
<1>2. \A n \in S : ~(n < m)
  BY <1>1 DEF OpToRel
<1>. QED BY <1>2

\* Induction over the naturals, for a set.
LEMMA NatSetInduction ==
    ASSUME NEW T, 0 \in T, \A n \in Nat : n \in T => n + 1 \in T
    PROVE  Nat \subseteq T
<1>. SUFFICES ASSUME Nat \ T # {} PROVE FALSE
  OBVIOUS
<1>1. PICK m \in Nat \ T : \A n \in Nat \ T : m <= n
  BY LeastNatural
<1>2. m - 1 \in Nat /\ m - 1 \in T
  BY <1>1
<1>. QED BY <1>1, <1>2

\* Induction over sequences, for a set.
LEMMA SeqSetInduction ==
    ASSUME NEW X, NEW T, << >> \in T,
           \A s \in Seq(X), x \in X : s \in T => Append(s, x) \in T
    PROVE  Seq(X) \subseteq T
<1> DEFINE N == {n \in Nat : \A s \in Seq(X) : Len(s) = n => s \in T}
<1>1. 0 \in N
  BY EmptySeq
<1>2. ASSUME NEW n \in Nat, n \in N PROVE n + 1 \in N
  <2>. SUFFICES ASSUME NEW s \in Seq(X), Len(s) = n + 1 PROVE s \in T
    OBVIOUS
  <2>1. PICK t \in Seq(X), x \in X : s = Append(t, x)
    BY EmptySeq, SequenceEmptyOrAppend
  <2>2. Len(t) = n
    BY <2>1, LenProperties, AppendProperties
  <2>. QED BY <1>2, <2>1, <2>2
<1>3. Nat \subseteq N
  <2>. HIDE DEF N
  <2>. QED BY <1>1, <1>2, NatSetInduction
<1>. QED BY <1>3, LenProperties

-----------------------------------------------------------------------------
\* Only, the filter of a sequence.

\* What the recursive function in Only is.
IsKept(f, s, S) ==
    f = [n \in 0..Len(s) |->
            IF n = 0 THEN << >>
            ELSE IF s[n] \in S THEN Append(f[n - 1], s[n]) ELSE f[n - 1]]

\* Its values, entry by entry ...
LEMMA KeptValues ==
    ASSUME NEW f, NEW s, NEW S, IsKept(f, s, S), Len(s) \in Nat
    PROVE  /\ f[0] = << >>
           /\ \A n \in 1..Len(s) :
                  f[n] = IF s[n] \in S THEN Append(f[n - 1], s[n]) ELSE f[n - 1]
<1>1. f[0] = << >>
  BY DEF IsKept
<1>2. ASSUME NEW n \in 1..Len(s)
      PROVE  f[n] = IF s[n] \in S THEN Append(f[n - 1], s[n]) ELSE f[n - 1]
  <2>1. n \in 0..Len(s) /\ n # 0
    OBVIOUS
  <2>. QED BY <2>1 DEF IsKept
<1>. QED BY <1>1, <1>2

\* There is such a function for every sequence, ...
LEMMA KeptExists ==
    ASSUME NEW X, NEW S
    PROVE  \A s \in Seq(X) : \E f : IsKept(f, s, S)
<1> DEFINE T == {s \in Seq(X) : \E f : IsKept(f, s, S)}
<1>1. << >> \in T
  <2>1. IsKept([n \in 0..0 |-> << >>], << >>, S)
    BY EmptySeq DEF IsKept
  <2>. QED BY <2>1, EmptySeq
<1>2. ASSUME NEW s \in Seq(X), NEW x \in X, s \in T PROVE Append(s, x) \in T
  <2>1. PICK f : IsKept(f, s, S)
    BY <1>2
  <2> DEFINE t == Append(s, x)
             g == [n \in 0..Len(t) |->
                     IF n <= Len(s) THEN f[n]
                     ELSE IF x \in S THEN Append(f[Len(s)], x) ELSE f[Len(s)]]
  <2>2. t \in Seq(X) /\ Len(t) = Len(s) + 1 /\ Len(s) \in Nat /\ t[Len(s) + 1] = x
        /\ \A n \in 1..Len(s) : t[n] = s[n]
    BY AppendProperties, LenProperties
  <2>. HIDE DEF t
  <2>3. \A n \in 0..Len(t) : g[n] = IF n = 0 THEN << >>
                                    ELSE IF t[n] \in S THEN Append(g[n - 1], t[n]) ELSE g[n - 1]
    <3>. TAKE n \in 0..Len(t)
    <3>1. CASE n = 0
      BY <3>1, <2>1, <2>2, KeptValues
    <3>2. CASE n \in 1..Len(s)
      <4>1. g[n] = f[n] /\ g[n - 1] = f[n - 1]
        BY <3>2, <2>2
      <4>2. f[n] = IF s[n] \in S THEN Append(f[n - 1], s[n]) ELSE f[n - 1]
        BY <3>2, <2>1, <2>2, KeptValues
      <4>. HIDE DEF g
      <4>. QED BY <3>2, <4>1, <4>2, <2>2
    <3>3. CASE n = Len(s) + 1
      <4>1. g[n - 1] = f[Len(s)]
        BY <3>3, <2>2
      <4>2. g[n] = IF x \in S THEN Append(f[Len(s)], x) ELSE f[Len(s)]
        BY <3>3, <2>2
      <4>. HIDE DEF g
      <4>. QED BY <3>3, <4>1, <4>2, <2>2
    <3>. QED BY <3>1, <3>2, <3>3, <2>2
  <2>4. IsKept(g, t, S)
    <3>1. g = [n \in 0..Len(t) |-> g[n]]
      OBVIOUS
    <3>. HIDE DEF g
    <3>. QED BY <3>1, <2>3 DEF IsKept
  <2>. QED BY <2>2, <2>4 DEF t
<1>3. Seq(X) \subseteq T
  <2>. HIDE DEF T
  <2>. QED BY <1>1, <1>2, SeqSetInduction
<1>. QED BY <1>3

\* ... and Only takes its last value.
LEMMA OnlyIsKept ==
    ASSUME NEW X, NEW s \in Seq(X), NEW S
    PROVE  \E f : IsKept(f, s, S) /\ Only(s, S) = f[Len(s)]
<1> DEFINE kept == CHOOSE f : IsKept(f, s, S)
<1>1. IsKept(kept, s, S)
  BY KeptExists
<1>2. Only(s, S) = kept[Len(s)]
  BY DEF Only, IsKept
<1>. QED BY <1>1, <1>2

\* One more entry is put at the end, or left out.
LEMMA OnlyAppend ==
    ASSUME NEW X, NEW s \in Seq(X), NEW x \in X, NEW S
    PROVE  Only(Append(s, x), S) = IF x \in S THEN Append(Only(s, S), x) ELSE Only(s, S)
<1> DEFINE t == Append(s, x)
<1>1. t \in Seq(X) /\ Len(t) = Len(s) + 1 /\ Len(s) \in Nat /\ t[Len(s) + 1] = x
      /\ \A n \in 1..Len(s) : t[n] = s[n]
  BY AppendProperties, LenProperties
<1>2. PICK f : IsKept(f, s, S) /\ Only(s, S) = f[Len(s)]
  BY OnlyIsKept
<1>3. PICK g : IsKept(g, t, S) /\ Only(t, S) = g[Len(t)]
  BY <1>1, OnlyIsKept
<1>. HIDE DEF t
<1> DEFINE T == {n \in Nat : n <= Len(s) => f[n] = g[n]}
<1>4. 0 \in T
  <2>1. f[0] = << >> /\ g[0] = << >>
    BY <1>1, <1>2, <1>3, KeptValues
  <2>. QED BY <2>1
<1>5. ASSUME NEW n \in Nat, n \in T PROVE n + 1 \in T
  <2>. SUFFICES ASSUME n + 1 <= Len(s) PROVE f[n + 1] = g[n + 1]
    OBVIOUS
  <2>1. n + 1 \in 1..Len(s) /\ n + 1 \in 1..Len(t) /\ (n + 1) - 1 = n
    BY <1>1
  <2>2. f[n + 1] = IF s[n + 1] \in S THEN Append(f[n], s[n + 1]) ELSE f[n]
    BY <1>1, <1>2, <2>1, KeptValues
  <2>3. g[n + 1] = IF t[n + 1] \in S THEN Append(g[n], t[n + 1]) ELSE g[n]
    <3>1. \A m \in 1..Len(t) : g[m] = IF t[m] \in S THEN Append(g[m - 1], t[m]) ELSE g[m - 1]
      BY <1>1, <1>3, KeptValues
    <3>. QED BY <3>1, <2>1
  <2>4. f[n] = g[n]
    BY <1>1, <1>5
  <2>. QED BY <2>1, <2>2, <2>3, <2>4, <1>1
<1>6. Nat \subseteq T
  <2>. HIDE DEF T
  <2>. QED BY <1>4, <1>5, NatSetInduction
<1>7. g[Len(s)] = f[Len(s)]
  BY <1>1, <1>6
<1>8. g[Len(t)] = IF t[Len(t)] \in S THEN Append(g[Len(t) - 1], t[Len(t)]) ELSE g[Len(t) - 1]
  <2>1. Len(t) \in 1..Len(t) /\ Len(t) \in Nat
    BY <1>1
  <2>. QED BY <2>1, <1>3, KeptValues
<1>9. Len(t) - 1 = Len(s)
  BY <1>1
<1>. QED BY <1>1, <1>2, <1>3, <1>7, <1>8, <1>9 DEF t

\* Nothing is left of the empty sequence.
LEMMA OnlyEmpty == \A S : Only(<< >>, S) = << >>
<1>. TAKE S
<1>1. PICK f : IsKept(f, << >>, S) /\ Only(<< >>, S) = f[Len(<< >>)]
  BY EmptySeq, OnlyIsKept
<1>. QED BY <1>1, EmptySeq DEF IsKept

\* What is left has no more entries, exactly those of S, and none twice that was not.
LEMMA OnlyProperties ==
    ASSUME NEW X, NEW S
    PROVE  \A s \in Seq(X) :
               /\ Only(s, S) \in Seq(X)
               /\ Len(Only(s, S)) <= Len(s)
               /\ Range(Only(s, S)) = Range(s) \cap S
               /\ IsInjective(s) => IsInjective(Only(s, S))
<1> DEFINE P(s) == /\ Only(s, S) \in Seq(X)
                   /\ Len(Only(s, S)) <= Len(s)
                   /\ Range(Only(s, S)) = Range(s) \cap S
                   /\ IsInjective(s) => IsInjective(Only(s, S))
           T == {s \in Seq(X) : P(s)}
<1>1. << >> \in T
  <2>1. << >> \in Seq(X) /\ Len(<< >>) = 0 /\ Only(<< >>, S) = << >>
    BY EmptySeq, OnlyEmpty
  <2>2. Range(<< >>) = {}
    <3>1. Range(<< >>) = {<< >>[i] : i \in 1..Len(<< >>)}
      BY <2>1, RangeEquality
    <3>. QED BY <3>1, <2>1
  <2>3. Range(Only(<< >>, S)) = Range(<< >>) \cap S
    BY <2>1, <2>2
  <2>4. IsInjective(<< >>) => IsInjective(Only(<< >>, S))
    BY <2>1
  <2>5. Only(<< >>, S) \in Seq(X)
    BY <2>1, Zenon
  <2>6. Len(Only(<< >>, S)) = Len(<< >>)
    BY <2>1, Zenon
  <2>7. Len(Only(<< >>, S)) <= Len(<< >>)
    BY <2>1, <2>6
  <2>. QED BY <2>1, <2>3, <2>4, <2>5, <2>7
<1>2. ASSUME NEW s \in Seq(X), NEW x \in X, s \in T PROVE Append(s, x) \in T
  <2> DEFINE t == Append(s, x)
             k == Only(s, S)
  <2>1. /\ t \in Seq(X) /\ Len(t) = Len(s) + 1 /\ Len(s) \in Nat /\ t[Len(s) + 1] = x
        /\ \A n \in 1..Len(s) : t[n] = s[n]
        /\ DOMAIN t = 1..Len(t) /\ DOMAIN s = 1..Len(s)
    BY AppendProperties, LenProperties
  <2>2. /\ k \in Seq(X) /\ Len(k) <= Len(s) /\ Range(k) = Range(s) \cap S
        /\ IsInjective(s) => IsInjective(k)
    BY <1>2
  <2>3. Range(t) = Range(s) \cup {x}
    <3>1. Range(t) = {t[i] : i \in 1..Len(t)} /\ Range(s) = {s[i] : i \in 1..Len(s)}
      BY <2>1, RangeEquality
    <3>. HIDE DEF t
    <3>2. \A y \in Range(t) : y \in Range(s) \cup {x}
      <4>. TAKE y \in Range(t)
      <4>1. PICK i \in 1..Len(t) : y = t[i]
        BY <3>1
      <4>2. i \in 1..Len(s) \/ i = Len(s) + 1
        BY <2>1
      <4>. QED BY <4>1, <4>2, <3>1, <2>1
    <3>3. \A i \in 1..Len(s) : s[i] \in Range(t)
      <4>. TAKE i \in 1..Len(s)
      <4>1. i \in 1..Len(t) /\ t[i] = s[i]
        BY <2>1
      <4>. QED BY <4>1, <3>1
    <3>4. x \in Range(t)
      <4>1. Len(s) + 1 \in 1..Len(t)
        BY <2>1
      <4>. QED BY <4>1, <3>1, <2>1
    <3>. QED BY <3>1, <3>2, <3>3, <3>4
  <2>4. IsInjective(t) => IsInjective(s) /\ x \notin Range(s)
    <3>. SUFFICES ASSUME IsInjective(t) PROVE IsInjective(s) /\ x \notin Range(s)
      OBVIOUS
    <3>. HIDE DEF t
    <3>1. IsInjective(s)
      <4>. SUFFICES ASSUME NEW i \in 1..Len(s), NEW j \in 1..Len(s), s[i] = s[j] PROVE i = j
        BY <2>1 DEF IsInjective
      <4>1. i \in 1..Len(t) /\ j \in 1..Len(t) /\ t[i] = t[j]
        BY <2>1
      <4>. QED BY <4>1, <2>1 DEF IsInjective
    <3>2. ASSUME x \in Range(s) PROVE FALSE
      <4>1. PICK i \in 1..Len(s) : s[i] = x
        BY <3>2, RangeEquality
      <4>2. i \in 1..Len(t) /\ Len(s) + 1 \in 1..Len(t) /\ t[i] = t[Len(s) + 1] /\ i # Len(s) + 1
        BY <4>1, <2>1
      <4>. QED BY <4>2, <2>1 DEF IsInjective
    <3>. QED BY <3>1, <3>2
  <2>5. CASE x \notin S
    <3>1. Only(t, S) = k
      BY <2>5, OnlyAppend
    <3>2. Len(k) \in Nat
      BY <2>2, LenProperties
    <3>. HIDE DEF t, k
    <3>3. P(t)
      BY <2>1, <2>2, <2>3, <2>4, <2>5, <3>1, <3>2
    <3>. QED BY <3>3, <2>1 DEF t
  <2>6. CASE x \in S
    <3> DEFINE l == Append(k, x)
    <3>1. Only(t, S) = l
      BY <2>6, OnlyAppend
    <3>2. /\ l \in Seq(X) /\ Len(l) = Len(k) + 1 /\ Len(k) \in Nat /\ l[Len(k) + 1] = x
          /\ \A n \in 1..Len(k) : l[n] = k[n]
          /\ DOMAIN l = 1..Len(l) /\ DOMAIN k = 1..Len(k)
      <4>. HIDE DEF k
      <4>. QED BY <2>2, AppendProperties, LenProperties
    <3>3. Range(k) = {k[i] : i \in 1..Len(k)} /\ Range(l) = {l[i] : i \in 1..Len(l)}
      <4>. HIDE DEF k, l
      <4>. QED BY <2>2, <3>2, RangeEquality
    <3>. HIDE DEF t, k, l
    <3>4. Range(l) = Range(k) \cup {x}
      <4>1. \A i \in 1..Len(l) : i \in 1..Len(k) \/ i = Len(k) + 1
        BY <3>2
      <4>2. \A i \in 1..Len(k) : i \in 1..Len(l)
        BY <3>2
      <4>3. Len(k) + 1 \in 1..Len(l)
        BY <3>2
      <4>4. \A y \in Range(l) : y \in Range(k) \cup {x}
        BY <3>2, <3>3, <4>1
      <4>5. \A y \in Range(k) : y \in Range(l)
        BY <3>2, <3>3, <4>2
      <4>6. x \in Range(l)
        BY <3>2, <3>3, <4>3
      <4>. QED BY <4>4, <4>5, <4>6
    <3>5. IsInjective(t) => IsInjective(l)
      <4>. SUFFICES ASSUME IsInjective(t), NEW i \in 1..Len(l), NEW j \in 1..Len(l), l[i] = l[j]
                    PROVE  i = j
        BY <3>2 DEF IsInjective
      <4>1. IsInjective(k) /\ x \notin Range(k)
        BY <2>2, <2>4
      <4>2. \A h \in 1..Len(k) : l[h] # x
        BY <3>2, <3>3, <4>1
      <4>3. (i \in 1..Len(k) \/ i = Len(k) + 1) /\ (j \in 1..Len(k) \/ j = Len(k) + 1)
        BY <3>2
      <4>4. CASE i \in 1..Len(k) /\ j \in 1..Len(k)
        BY <4>1, <4>4, <3>2 DEF IsInjective
      <4>5. CASE i = Len(k) + 1 \/ j = Len(k) + 1
        BY <4>2, <4>3, <4>5, <3>2
      <4>. QED BY <4>3, <4>4, <4>5
    <3>6. P(t)
      BY <2>1, <2>2, <2>3, <2>6, <3>1, <3>2, <3>4, <3>5
    <3>. QED BY <3>6, <2>1 DEF t
  <2>. QED BY <2>5, <2>6
<1>3. Seq(X) \subseteq T
  <2>. HIDE DEF T
  <2>. QED BY <1>1, <1>2, SeqSetInduction
<1>. QED BY <1>3

\* Filtering piece by piece is filtering the whole.
LEMMA OnlyConcat ==
    ASSUME NEW X, NEW S, NEW s \in Seq(X)
    PROVE  \A t \in Seq(X) : Only(s \o t, S) = Only(s, S) \o Only(t, S)
<1> DEFINE T == {t \in Seq(X) : Only(s \o t, S) = Only(s, S) \o Only(t, S)}
<1>1. << >> \in T
  <2>1. s \o << >> = s /\ Only(s, S) \o << >> = Only(s, S)
    BY ConcatEmptySeq, OnlyProperties
  <2>. QED BY <2>1, EmptySeq, OnlyEmpty
<1>2. ASSUME NEW t \in Seq(X), NEW x \in X, t \in T PROVE Append(t, x) \in T
  <2>1. /\ s \o t \in Seq(X) /\ Append(t, x) \in Seq(X) /\ <<x>> \in Seq(X)
        /\ Only(s, S) \in Seq(X) /\ Only(t, S) \in Seq(X)
    BY ConcatProperties, AppendProperties, OnlyProperties
  <2>2. s \o Append(t, x) = Append(s \o t, x)
    <3>1. Append(t, x) = t \o <<x>> /\ Append(s \o t, x) = (s \o t) \o <<x>>
      BY <2>1, AppendIsConcat
    <3>. QED BY <3>1, <2>1, ConcatAssociative
  <2>3. Only(s \o t, S) = Only(s, S) \o Only(t, S)
    BY <1>2
  <2>4. Only(s \o Append(t, x), S) = IF x \in S THEN Append(Only(s \o t, S), x) ELSE Only(s \o t, S)
    BY <2>1, <2>2, OnlyAppend
  <2>5. Only(Append(t, x), S) = IF x \in S THEN Append(Only(t, S), x) ELSE Only(t, S)
    BY OnlyAppend
  <2>6. Append(Only(s, S) \o Only(t, S), x) = Only(s, S) \o Append(Only(t, S), x)
    <3> DEFINE a == Only(s, S)
               b == Only(t, S)
    <3>. HIDE DEF a, b
    <3>1. a \in Seq(X) /\ b \in Seq(X) /\ a \o b \in Seq(X)
      BY <2>1, ConcatProperties DEF a, b
    <3>2. \A c \in Seq(X) : Append(c, x) = c \o <<x>>
      BY AppendIsConcat
    <3>3. Append(b, x) = b \o <<x>> /\ Append(a \o b, x) = (a \o b) \o <<x>>
      BY <3>1, <3>2, Zenon
    <3>4. (a \o b) \o <<x>> = a \o (b \o <<x>>)
      <4> DEFINE c == <<x>>
      <4>1. c \in Seq(X)
        BY <2>1
      <4>. HIDE DEF c
      <4>2. (a \o b) \o c = a \o (b \o c)
        BY <3>1, <4>1, ConcatAssociative
      <4>. QED BY <4>2 DEF c
    <3>5. Append(a \o b, x) = a \o Append(b, x)
      BY <3>3, <3>4, Zenon
    <3>. QED BY <3>5 DEF a, b
  <2>7. Only(s \o Append(t, x), S) = Only(s, S) \o Only(Append(t, x), S)
    BY <2>3, <2>4, <2>5, <2>6
  <2>. QED BY <2>1, <2>7
<1>3. Seq(X) \subseteq T
  <2>. HIDE DEF T
  <2>. QED BY <1>1, <1>2, SeqSetInduction
<1>. QED BY <1>3

\* Filtering twice is filtering by what passes both.
LEMMA OnlyOfOnly ==
    ASSUME NEW X, NEW A, NEW B
    PROVE  \A s \in Seq(X) : Only(Only(s, A), B) = Only(s, A \cap B)
<1> DEFINE T == {s \in Seq(X) : Only(Only(s, A), B) = Only(s, A \cap B)}
<1>1. << >> \in T
  <2>1. Only(Only(<< >>, A), B) = Only(<< >>, A \cap B)
    BY OnlyEmpty, Zenon
  <2>. QED BY <2>1, EmptySeq
<1>2. ASSUME NEW s \in Seq(X), NEW x \in X, s \in T PROVE Append(s, x) \in T
  <2> DEFINE a == Only(s, A)
             t == Append(s, x)
             ta == Only(t, A)
  <2>1. a \in Seq(X) /\ t \in Seq(X) /\ Only(a, B) = Only(s, A \cap B)
    BY <1>2, OnlyProperties, AppendProperties
  <2>2. ta = IF x \in A THEN Append(a, x) ELSE a
    BY OnlyAppend
  <2>3. Only(t, A \cap B) = IF x \in A \cap B THEN Append(Only(s, A \cap B), x) ELSE Only(s, A \cap B)
    BY OnlyAppend
  <2>. HIDE DEF a, t, ta
  <2>4. Only(Append(a, x), B) = IF x \in B THEN Append(Only(a, B), x) ELSE Only(a, B)
    BY <2>1, OnlyAppend
  <2>5. Only(ta, B) = Only(t, A \cap B)
    <3>1. CASE x \notin A
      BY <3>1, <2>1, <2>2, <2>3
    <3>2. CASE x \in A
      BY <3>2, <2>1, <2>2, <2>3, <2>4
    <3>. QED BY <3>1, <3>2
  <2>. QED BY <2>1, <2>5 DEF t, ta
<1>3. Seq(X) \subseteq T
  <2>. HIDE DEF T
  <2>. QED BY <1>1, <1>2, SeqSetInduction
<1>. QED BY <1>3

\* The last entry of a sequence is the first of it read backwards.
LEMMA ReverseAppend ==
    ASSUME NEW X, NEW s \in Seq(X), NEW x \in X
    PROVE  /\ Reverse(s) \in Seq(X)
           /\ Reverse(Append(s, x)) = <<x>> \o Reverse(s)
<1> DEFINE t == Append(s, x)
           r == Reverse(s)
           u == <<x>> \o r
           n == Len(s)
<1>1. /\ n \in Nat /\ s \in [1..n -> X]
      /\ t \in Seq(X) /\ Len(t) = n + 1 /\ t[n + 1] = x /\ \A i \in 1..n : t[i] = s[i]
  BY AppendProperties, LenProperties
<1>2. r = [i \in 1..n |-> s[(n - i) + 1]] /\ Reverse(t) = [i \in 1..(n + 1) |-> t[((n + 1) - i) + 1]]
  BY <1>1 DEF Reverse
<1>3. \A i \in 1..n : (n - i) + 1 \in 1..n
  BY <1>1
<1>4. r \in Seq(X) /\ Len(r) = n
  <2>1. r \in [1..n -> X]
    BY <1>1, <1>2, <1>3
  <2>. HIDE DEF r, n
  <2>. QED BY <2>1, <1>1, IsASeq, LenProperties
<1> DEFINE c == <<x>>
<1>5. c \in Seq(X) /\ Len(c) = 1 /\ c[1] = x
  OBVIOUS
<1>. HIDE DEF t, r, n, c
<1>6. /\ c \o r \in Seq(X) /\ Len(c \o r) = n + 1 /\ (c \o r)[1] = x
      /\ \A i \in 2..(n + 1) : (c \o r)[i] = r[i - 1]
  <2>1. /\ c \o r \in Seq(X) /\ Len(c \o r) = Len(c) + Len(r)
        /\ \A i \in 1..(Len(c) + Len(r)) : (c \o r)[i] = IF i <= Len(c) THEN c[i] ELSE r[i - Len(c)]
    BY <1>4, <1>5, ConcatProperties
  <2>. QED BY <2>1, <1>1, <1>4, <1>5
<1>7. \A i \in 1..(n + 1) : (c \o r)[i] = t[((n + 1) - i) + 1]
  <2>. TAKE i \in 1..(n + 1)
  <2>1. CASE i = 1
    <3>1. ((n + 1) - i) + 1 = n + 1
      BY <2>1, <1>1
    <3>. QED BY <3>1, <2>1, <1>1, <1>6
  <2>2. CASE i # 1
    <3>1. i - 1 \in 1..n /\ i \in 2..(n + 1) /\ (n - (i - 1)) + 1 = ((n + 1) - i) + 1
      BY <2>2, <1>1
    <3>2. r[i - 1] = s[(n - (i - 1)) + 1] /\ (n - (i - 1)) + 1 \in 1..n
      BY <3>1, <1>2, <1>3
    <3>. QED BY <3>1, <3>2, <1>1, <1>6
  <2>. QED BY <2>1, <2>2
<1>8. c \o r = [i \in 1..(n + 1) |-> t[((n + 1) - i) + 1]]
  <2>1. c \o r = [i \in 1..(n + 1) |-> (c \o r)[i]]
    <3>1. c \o r \in [1..(n + 1) -> X]
      BY <1>6, LenProperties
    <3>. QED BY <3>1
  <2>. QED BY <2>1, <1>7
<1>. QED BY <1>2, <1>4, <1>8 DEF t, r, c

\* Filtering what is read backwards is reading backwards what was filtered.
LEMMA OnlyOfReverse ==
    ASSUME NEW X, NEW S
    PROVE  \A s \in Seq(X) : Only(Reverse(s), S) = Reverse(Only(s, S))
<1> DEFINE T == {s \in Seq(X) : Only(Reverse(s), S) = Reverse(Only(s, S))}
<1>1. << >> \in T
  <2>1. Reverse(<< >>) = << >>
    BY DEF Reverse
  <2>. QED BY <2>1, EmptySeq, OnlyEmpty, Zenon
<1>2. ASSUME NEW s \in Seq(X), NEW x \in X, s \in T PROVE Append(s, x) \in T
  <2> DEFINE o == Only(s, S)
             r == Reverse(s)
             ro == Reverse(o)
             c == <<x>>
             t == Append(s, x)
  <2>1. o \in Seq(X) /\ c \in Seq(X) /\ t \in Seq(X)
    BY OnlyProperties, AppendProperties
  <2>2. /\ r \in Seq(X) /\ Reverse(t) = c \o r
        /\ ro \in Seq(X) /\ Reverse(Append(o, x)) = c \o ro
    BY <2>1, ReverseAppend
  <2>3. Only(t, S) = IF x \in S THEN Append(o, x) ELSE o
    BY OnlyAppend
  <2>4. Only(c, S) = IF x \in S THEN c ELSE << >>
    <3>1. Only(Append(<< >>, x), S) = IF x \in S THEN Append(Only(<< >>, S), x) ELSE Only(<< >>, S)
      BY EmptySeq, OnlyAppend
    <3>2. Append(<< >>, x) = c
      OBVIOUS
    <3>. HIDE DEF c
    <3>. QED BY <3>1, <3>2, OnlyEmpty, Zenon
  <2>5. Only(r, S) = ro
    BY <1>2
  <2>. HIDE DEF o, r, ro, c, t
  <2>6. Only(c \o r, S) = Only(c, S) \o ro
    <3>1. \A u \in Seq(X) : Only(c \o u, S) = Only(c, S) \o Only(u, S)
      BY <2>1, OnlyConcat
    <3>. QED BY <3>1, <2>2, <2>5
  <2>7. Only(Reverse(t), S) = Reverse(Only(t, S))
    <3>1. CASE x \in S
      <4>1. Only(t, S) = Append(o, x) /\ Only(c, S) = c
        BY <3>1, <2>3, <2>4
      <4>. QED BY <4>1, <2>2, <2>6, Zenon
    <3>2. CASE x \notin S
      <4>1. Only(t, S) = o /\ Only(c, S) = << >> /\ << >> \o ro = ro
        BY <3>2, <2>2, <2>3, <2>4, ConcatEmptySeq
      <4>. QED BY <4>1, <2>2, <2>6, Zenon DEF ro
    <3>. QED BY <3>1, <3>2
  <2>. QED BY <2>1, <2>7 DEF t
<1>3. Seq(X) \subseteq T
  <2>. HIDE DEF T
  <2>. QED BY <1>1, <1>2, SeqSetInduction
<1>. QED BY <1>3

-----------------------------------------------------------------------------
\* Slice, the islice of a sequence.

\* A slice has the entries from one place to another, as far as there are any.
LEMMA SliceProperties ==
    ASSUME NEW X, NEW s \in Seq(X), NEW from \in Nat, NEW to \in Nat
    PROVE  LET end == IF to < Len(s) THEN to ELSE Len(s) IN
           /\ Slice(s, from, to) \in Seq(X)
           /\ Len(Slice(s, from, to)) = IF from < end THEN end - from ELSE 0
           /\ \A i \in 1..Len(Slice(s, from, to)) : Slice(s, from, to)[i] = s[from + i]
<1> DEFINE end == IF to < Len(s) THEN to ELSE Len(s)
           t == SubSeq(s, from + 1, end)
<1>1. Len(s) \in Nat /\ s \in [1..Len(s) -> X]
  BY LenProperties
<1>2. end \in Nat /\ end <= Len(s)
  BY <1>1
<1>. HIDE DEF end
<1>3. \A i \in (from + 1)..end : s[i] \in X
  BY <1>1, <1>2
<1>4. /\ t \in Seq(X) /\ Len(t) = IF from + 1 <= end THEN end - (from + 1) + 1 ELSE 0
      /\ \A i \in 1..(end - (from + 1) + 1) : t[i] = s[(from + 1) + i - 1]
  BY <1>2, <1>3, SubSeqProperties
<1>. HIDE DEF t
<1>5. Len(t) = IF from < end THEN end - from ELSE 0
  BY <1>2, <1>4
<1>6. \A i \in 1..Len(t) : t[i] = s[from + i]
  <2>. TAKE i \in 1..Len(t)
  <2>1. i \in 1..(end - (from + 1) + 1) /\ (from + 1) + i - 1 = from + i
    BY <1>2, <1>5
  <2>. QED BY <2>1, <1>4
<1>7. Slice(s, from, to) = t
  BY DEF Slice, t, end
<1>. QED BY <1>4, <1>5, <1>6, <1>7 DEF end

\* Its entries are entries of the sequence.
LEMMA SliceRange ==
    ASSUME NEW X, NEW s \in Seq(X), NEW from \in Nat, NEW to \in Nat
    PROVE  Range(Slice(s, from, to)) \subseteq Range(s)
<1> DEFINE t == Slice(s, from, to)
           end == IF to < Len(s) THEN to ELSE Len(s)
<1>1. /\ t \in Seq(X) /\ Len(t) = (IF from < end THEN end - from ELSE 0) /\ Len(s) \in Nat
      /\ \A i \in 1..Len(t) : t[i] = s[from + i]
  BY SliceProperties, LenProperties
<1>. HIDE DEF t
<1>2. Range(t) = {t[i] : i \in 1..Len(t)} /\ Range(s) = {s[i] : i \in 1..Len(s)}
  BY <1>1, RangeEquality
<1>3. \A i \in 1..Len(t) : from + i \in 1..Len(s)
  BY <1>1
<1>. QED BY <1>1, <1>2, <1>3 DEF t

\* Nothing is between a place and one before it, or after the end.
LEMMA SliceEmpty ==
    ASSUME NEW X, NEW s \in Seq(X), NEW from \in Nat, NEW to \in Nat, to <= from \/ Len(s) <= from
    PROVE  Slice(s, from, to) = << >>
<1>1. Len(s) \in Nat
  BY LenProperties
<1>. QED BY <1>1, SliceProperties, EmptySeq

\* What a sequence is continued with does not show in a slice that ends before.
LEMMA SlicePrefix ==
    ASSUME NEW X, NEW s \in Seq(X), NEW t \in Seq(X), NEW from \in Nat, NEW to \in Nat, to <= Len(s)
    PROVE  Slice(s \o t, from, to) = Slice(s, from, to)
<1> DEFINE a == Slice(s, from, to)
           b == Slice(s \o t, from, to)
<1>1. /\ s \o t \in Seq(X) /\ Len(s \o t) = Len(s) + Len(t)
      /\ Len(s) \in Nat /\ Len(t) \in Nat
      /\ \A i \in 1..Len(s) : (s \o t)[i] = s[i]
  BY ConcatProperties, LenProperties
<1>2. /\ a \in Seq(X) /\ Len(a) = (IF from < to THEN to - from ELSE 0)
      /\ \A i \in 1..Len(a) : a[i] = s[from + i]
  <2>1. (IF to < Len(s) THEN to ELSE Len(s)) = to
    BY <1>1
  <2>. QED BY <2>1, SliceProperties
<1>3. /\ b \in Seq(X) /\ Len(b) = (IF from < to THEN to - from ELSE 0)
      /\ \A i \in 1..Len(b) : b[i] = (s \o t)[from + i]
  <2> DEFINE u == s \o t
  <2>1. u \in Seq(X) /\ (IF to < Len(u) THEN to ELSE Len(u)) = to
    BY <1>1
  <2>. HIDE DEF u
  <2>2. /\ Slice(u, from, to) \in Seq(X)
        /\ Len(Slice(u, from, to)) = (IF from < to THEN to - from ELSE 0)
        /\ \A i \in 1..Len(Slice(u, from, to)) : Slice(u, from, to)[i] = u[from + i]
    BY <2>1, SliceProperties
  <2>. QED BY <2>2 DEF u
<1>. HIDE DEF a, b
<1>4. \A i \in 1..Len(a) : from + i \in 1..Len(s)
  BY <1>1, <1>2
<1>5. \A i \in 1..Len(a) : a[i] = b[i]
  BY <1>1, <1>2, <1>3, <1>4
<1>6. a = b
  BY <1>2, <1>3, <1>5, SeqEqual
<1>. QED BY <1>6 DEF a, b

\* A slice from the start to behind the end is the whole.
LEMMA SliceWhole ==
    ASSUME NEW X, NEW s \in Seq(X), NEW to \in Nat, Len(s) <= to
    PROVE  Slice(s, 0, to) = s
<1>1. Len(s) \in Nat
  BY LenProperties
<1>2. Slice(s, 0, to) = SubSeq(s, 1, Len(s))
  BY <1>1 DEF Slice
<1>. QED BY <1>2, SubSeqFull

\* Two slices that meet make one.
LEMMA SliceAdjacent ==
    ASSUME NEW X, NEW s \in Seq(X), NEW mid \in Nat, NEW to \in Nat, mid <= to
    PROVE  Slice(s, 0, mid) \o Slice(s, mid, to) = Slice(s, 0, to)
<1>1. Len(s) \in Nat
  BY LenProperties
<1>2. CASE Len(s) <= mid
  <2>1. Slice(s, 0, mid) = s /\ Slice(s, mid, to) = << >> /\ Slice(s, 0, to) = s
    BY <1>1, <1>2, SliceWhole, SliceEmpty
  <2>. QED BY <2>1, ConcatEmptySeq
<1>3. CASE mid < Len(s)
  <2> DEFINE end == IF to < Len(s) THEN to ELSE Len(s)
             a == Slice(s, 0, mid)
             b == Slice(s, mid, to)
             c == Slice(s, 0, to)
  <2>1. a \in Seq(X) /\ Len(a) = mid /\ \A i \in 1..mid : a[i] = s[i]
    <3>1. (IF mid < Len(s) THEN mid ELSE Len(s)) = mid
      BY <1>1, <1>3
    <3>2. a \in Seq(X) /\ Len(a) = (IF 0 < mid THEN mid - 0 ELSE 0) /\ \A i \in 1..Len(a) : a[i] = s[0 + i]
      BY <3>1, SliceProperties
    <3>. HIDE DEF a
    <3>3. Len(a) = mid
      BY <3>2
    <3>. QED BY <3>2, <3>3
  <2>2. b \in Seq(X) /\ Len(b) = (IF mid < end THEN end - mid ELSE 0) /\ \A i \in 1..Len(b) : b[i] = s[mid + i]
    BY SliceProperties
  <2>3. c \in Seq(X) /\ Len(c) = (IF 0 < end THEN end - 0 ELSE 0) /\ \A i \in 1..Len(c) : c[i] = s[0 + i]
    BY SliceProperties
  <2>4. end \in Nat /\ mid <= end
    BY <1>1, <1>3
  <2>. HIDE DEF a, b, c, end
  <2>5. Len(b) = end - mid /\ Len(c) = end
    BY <2>2, <2>3, <2>4
  <2>6. a \o b \in Seq(X) /\ Len(a \o b) = end
    <3>1. a \o b \in Seq(X) /\ Len(a \o b) = Len(a) + Len(b)
      BY <2>1, <2>2, ConcatProperties
    <3>2. Len(a) + Len(b) = end
      BY <2>1, <2>4, <2>5
    <3>. QED BY <3>1, <3>2
  <2>7. \A i \in 1..end : (a \o b)[i] = c[i]
    <3>. TAKE i \in 1..end
    <3>1. c[i] = s[i]
      BY <2>3, <2>4, <2>5
    <3>2. (a \o b)[i] = IF i <= mid THEN a[i] ELSE b[i - mid]
      <4>1. \A n \in 1..(Len(a) + Len(b)) :
                (a \o b)[n] = IF n <= Len(a) THEN a[n] ELSE b[n - Len(a)]
        BY <2>1, <2>2, ConcatProperties
      <4>2. i \in 1..(Len(a) + Len(b))
        BY <2>1, <2>4, <2>5
      <4>. QED BY <4>1, <4>2, <2>1
    <3>3. ~(i <= mid) => i - mid \in 1..Len(b) /\ mid + (i - mid) = i
      BY <2>4, <2>5
    <3>4. i <= mid => i \in 1..mid
      BY <2>4
    <3>. QED BY <3>1, <3>2, <3>3, <3>4, <2>1, <2>2
  <2>8. a \o b = c
    BY <2>3, <2>5, <2>6, <2>7, SeqEqual
  <2>. QED BY <2>8 DEF a, b, c
<1>. QED BY <1>1, <1>2, <1>3

\* The multiples of a limit are naturals a limit apart.
LEMMA Multiples ==
    ASSUME NEW L \in Nat, NEW n \in Nat \ {0}
    PROVE  /\ (n - 1) * L \in Nat /\ n * L \in Nat /\ n * L = (n - 1) * L + L
           /\ L # 0 => n - 1 <= (n - 1) * L
<1>1. n - 1 \in Nat
  OBVIOUS
<1>2. \A m \in Nat : m * L \in Nat /\ (m + 1) * L = m * L + L
  OBVIOUS
<1>3. L # 0 => \A m \in Nat : m <= m * L
  OBVIOUS
<1>. QED BY <1>1, <1>2, <1>3

-----------------------------------------------------------------------------
\* The loop of resolve_events.

\* What the recursive function data in FilteredAnswer is, after N batches of L entries of s.
IsData(f, s, L, S, N) ==
    f = [n \in 0..N |-> IF n = 0 THEN << >>
                        ELSE f[n - 1] \o Only(Slice(s, (n - 1) * L, n * L), S)]

\* After n batches the loop has kept what the filter keeps of the first n * L entries.
LEMMA SearchIsPrefix ==
    ASSUME NEW X, NEW S, NEW s \in Seq(X), NEW L \in Nat, NEW N \in Nat
    PROVE  LET data == CHOOSE f : IsData(f, s, L, S, N)
           IN  \A n \in 0..N : data[n] = Only(Slice(s, 0, n * L), S)
<1> DEFINE data == CHOOSE f : IsData(f, s, L, S, N)
           Found(n) == Only(Slice(s, 0, n * L), S)
           Part(n) == Only(Slice(s, (n - 1) * L, n * L), S)
<1>1. Found(0) = << >>
  BY SliceEmpty, OnlyEmpty
<1>2. ASSUME NEW n \in Nat \ {0} PROVE Found(n) = Found(n - 1) \o Part(n)
  <2>1. (n - 1) * L \in Nat /\ n * L \in Nat /\ (n - 1) * L <= n * L
    BY Multiples
  <2> DEFINE from == (n - 1) * L
             to == n * L
  <2>2. from \in Nat /\ to \in Nat /\ from <= to
    BY <2>1
  <2>. HIDE DEF from, to
  <2>3. Slice(s, 0, from) \o Slice(s, from, to) = Slice(s, 0, to)
    BY <2>2, SliceAdjacent
  <2>4. Slice(s, 0, from) \in Seq(X) /\ Slice(s, from, to) \in Seq(X)
    BY <2>2, SliceProperties
  <2>5. Only(Slice(s, 0, from) \o Slice(s, from, to), S)
            = Only(Slice(s, 0, from), S) \o Only(Slice(s, from, to), S)
    BY <2>4, OnlyConcat
  <2>6. Only(Slice(s, 0, to), S) = Only(Slice(s, 0, from), S) \o Only(Slice(s, from, to), S)
    BY <2>3, <2>5
  <2>. QED BY <2>6 DEF from, to
<1>. HIDE DEF Found, Part
<1>3. \E f : f = [n \in 0..N |-> IF n = 0 THEN << >> ELSE f[n - 1] \o Part(n)]
  <2> DEFINE g == [n \in 0..N |-> Found(n)]
  <2>1. \A n \in 0..N : (IF n = 0 THEN << >> ELSE g[n - 1] \o Part(n)) = Found(n)
    <3>. TAKE n \in 0..N
    <3>1. n # 0 => g[n - 1] = Found(n - 1)
      OBVIOUS
    <3>2. n # 0 => Found(n) = Found(n - 1) \o Part(n)
      BY <1>2
    <3>. HIDE DEF g
    <3>. QED BY <3>1, <3>2, <1>1
  <2>2. [n \in 0..N |-> IF n = 0 THEN << >> ELSE g[n - 1] \o Part(n)] = [n \in 0..N |-> Found(n)]
    <3>. HIDE DEF g
    <3>. QED BY <2>1
  <2>. QED BY <2>2
<1>4. data = [n \in 0..N |-> IF n = 0 THEN << >> ELSE data[n - 1] \o Part(n)]
  <2>1. \E f : IsData(f, s, L, S, N)
    BY <1>3, Zenon DEF IsData, Part
  <2>2. IsData(data, s, L, S, N)
    BY <2>1, Zenon
  <2>. HIDE DEF data
  <2>. QED BY <2>2, Zenon DEF IsData, Part
<1>. HIDE DEF data
<1>5. \A n \in 0..N : data[n] = Found(n)
  <2> DEFINE T == {n \in Nat : n <= N => data[n] = Found(n)}
  <2>1. 0 \in T
    BY <1>1, <1>4
  <2>2. ASSUME NEW n \in Nat, n \in T PROVE n + 1 \in T
    <3>. SUFFICES ASSUME n + 1 <= N PROVE data[n + 1] = Found(n + 1)
      OBVIOUS
    <3>1. data[n] = Found(n) /\ n + 1 \in 0..N /\ n + 1 # 0 /\ (n + 1) - 1 = n
      BY <2>2
    <3>2. data[n + 1] = data[(n + 1) - 1] \o Part(n + 1)
      BY <3>1, <1>4
    <3>3. Found(n + 1) = Found((n + 1) - 1) \o Part(n + 1)
      BY <3>1, <1>2
    <3>. QED BY <3>1, <3>2, <3>3
  <2>3. Nat \subseteq T
    <3>. HIDE DEF T
    <3>. QED BY <2>1, <2>2, NatSetInduction
  <2>. QED BY <2>3
<1>. QED BY <1>5 DEF data, Found

\* The loop ends with some batch n: one that is not stored, or one that fills the page, or
\* an empty one.  The answer is then the page of what the filter keeps of the first n batches.
LEMMA FilteredAnswerIs ==
    ASSUME NEW q, NEW X, Scan(q) \in Seq(X), Limit(q) \in Nat
    PROVE  \E n \in 1..(Len(Scan(q)) + 1) :
               LET read == Slice(Scan(q), (n - 1) * Limit(q), n * Limit(q))
                   found == Only(Slice(Scan(q), 0, n * Limit(q)), {k \in Stored : PassesFilter(q, k)})
               IN  /\ ~AreStored(read) \/ Len(found) >= PageEnd(q) \/ read = << >>
                   /\ FilteredAnswer(q) = IF AreStored(read)
                                          THEN Answered(Slice(found, q.skip, PageEnd(q)))
                                          ELSE Failed
<1> DEFINE scan == Scan(q)
           L == Limit(q)
           S == {k \in Stored : PassesFilter(q, k)}
           N == Len(scan) + 1
           Batch(n) == Slice(scan, (n - 1) * L, n * L)
           data == CHOOSE f : IsData(f, scan, L, S, N)
           Ends(n) == ~AreStored(Batch(n)) \/ Len(data[n]) >= PageEnd(q) \/ Exhausted(Batch(n), Only(Batch(n), S))
           last == CHOOSE n \in 1..N : Ends(n) /\ \A m \in 1..(n - 1) : ~Ends(m)
<1>1. FilteredAnswer(q) = IF AreStored(Batch(last)) THEN Answered(Slice(data[last], q.skip, PageEnd(q)))
                          ELSE Failed
  BY DEF FilteredAnswer, IsData
<1>2. scan \in Seq(X) /\ L \in Nat /\ Len(scan) \in Nat
  BY LenProperties
<1>. HIDE DEF scan, L
<1>3. N \in Nat \ {0} /\ N - 1 = Len(scan)
  BY <1>2
<1>4. \A n \in 0..N : data[n] = Only(Slice(scan, 0, n * L), S)
  <2>. HIDE DEF S, N
  <2>. QED BY <1>2, <1>3, SearchIsPrefix
<1>. HIDE DEF data
<1>5. Batch(N) = << >>
  <2> DEFINE from == (N - 1) * L
             to == N * L
  <2>1. from \in Nat /\ to \in Nat /\ (L # 0 => N - 1 <= from)
    BY <1>2, <1>3, Multiples
  <2>2. L = 0 => from = 0 /\ to = 0
    BY <1>2, <1>3
  <2>3. L # 0 => Len(scan) <= from
    BY <2>1, <1>3
  <2>. HIDE DEF from, to
  <2>4. to <= from \/ Len(scan) <= from
    BY <2>1, <2>2, <2>3
  <2>5. Slice(scan, from, to) = << >>
    BY <2>1, <2>4, <1>2, SliceEmpty
  <2>. QED BY <2>5 DEF from, to
<1>6. Ends(N)
  BY <1>5 DEF Exhausted
<1>7. last \in 1..N /\ Ends(last)
  <2>. HIDE DEF Ends
  <2> DEFINE E == {n \in 1..N : Ends(n)}
  <2>1. PICK n \in E : \A m \in E : n <= m
    <3>1. E \in SUBSET Nat /\ N \in E
      BY <1>3, <1>6
    <3>. QED BY <3>1, LeastNatural
  <2>2. n \in 1..N /\ Ends(n) /\ \A m \in 1..(n - 1) : ~Ends(m)
    <3>1. \A m \in 1..(n - 1) : m \in 1..N /\ ~(n <= m)
      BY <2>1, <1>3
    <3>. QED BY <3>1, <2>1
  <2>. QED BY <2>2, Zenon
<1>. HIDE DEF last
<1>8. data[last] = Only(Slice(scan, 0, last * L), S)
  <2>1. last \in 0..N
    BY <1>3, <1>7
  <2>. QED BY <2>1, <1>4
<1>9. ~AreStored(Batch(last)) \/ Len(data[last]) >= PageEnd(q) \/ Batch(last) = << >>
  BY <1>7, Zenon DEF Exhausted
<1>. QED
  <2>. HIDE DEF S, Batch
  <2>1. last \in 1..N
    BY <1>7
  <2>2. FilteredAnswer(q) = IF AreStored(Batch(last))
                            THEN Answered(Slice(Only(Slice(scan, 0, last * L), S), q.skip, PageEnd(q)))
                            ELSE Failed
    BY <1>1, <1>8, Zenon
  <2>3. ~AreStored(Batch(last)) \/ Len(Only(Slice(scan, 0, last * L), S)) >= PageEnd(q) \/ Batch(last) = << >>
    BY <1>8, <1>9, Zenon
  <2>. QED BY <2>1, <2>2, <2>3, Zenon DEF scan, L, S, Batch, N

\* A page of what the loop has kept when it ends is the page of what the filter keeps of all:
\* the page is full, or there was nothing left to read.
LEMMA LoopAnswersPage ==
    ASSUME NEW X, NEW s \in Seq(X), NEW S, NEW L \in Nat, NEW n \in Nat \ {0}, NEW skip \in Nat,
           \/ Len(Only(Slice(s, 0, n * L), S)) >= L + skip
           \/ Slice(s, (n - 1) * L, n * L) = << >>
    PROVE  Slice(Only(Slice(s, 0, n * L), S), skip, L + skip) = Slice(Only(s, S), skip, L + skip)
<1> DEFINE from == (n - 1) * L
           to == n * L
           found == Only(Slice(s, 0, to), S)
           tail == Slice(s, to, to + Len(s))
<1>1. from \in Nat /\ to \in Nat /\ to = from + L
  BY Multiples
<1>2. Len(s) \in Nat
  BY LenProperties
<1>3. Len(found) >= L + skip \/ Slice(s, from, to) = << >>
  OBVIOUS
<1>. SUFFICES Slice(found, skip, L + skip) = Slice(Only(s, S), skip, L + skip)
  OBVIOUS
<1>. HIDE DEF from, to
<1>4. CASE Len(found) >= L + skip
  <2>1. to + Len(s) \in Nat /\ to <= to + Len(s) /\ Len(s) <= to + Len(s)
    BY <1>1, <1>2
  <2>2. Slice(s, 0, to) \o tail = Slice(s, 0, to + Len(s)) /\ Slice(s, 0, to + Len(s)) = s
    BY <2>1, <1>1, SliceAdjacent, SliceWhole
  <2>3. Slice(s, 0, to) \in Seq(X) /\ tail \in Seq(X)
    BY <2>1, <1>1, SliceProperties
  <2>4. Only(s, S) = found \o Only(tail, S)
    <3>1. Only(Slice(s, 0, to) \o tail, S) = Only(Slice(s, 0, to), S) \o Only(tail, S)
      BY <2>3, OnlyConcat
    <3>. QED BY <3>1, <2>2
  <2>5. found \in Seq(X) /\ Only(tail, S) \in Seq(X)
    BY <2>3, OnlyProperties
  <2>. HIDE DEF found, tail
  <2>6. L + skip \in Nat /\ L + skip <= Len(found)
    BY <1>4, <2>5, LenProperties
  <2>7. Slice(found \o Only(tail, S), skip, L + skip) = Slice(found, skip, L + skip)
    BY <2>5, <2>6, SlicePrefix
  <2>. QED BY <2>4, <2>7
<1>5. CASE Slice(s, from, to) = << >> /\ L = 0
  <2>1. Slice(s, 0, to) \in Seq(X)
    BY <1>1, SliceProperties
  <2>2. found \in Seq(X) /\ Only(s, S) \in Seq(X)
    BY <2>1, OnlyProperties
  <2>. HIDE DEF found
  <2>3. L + skip \in Nat /\ L + skip <= skip
    BY <1>5
  <2>. QED BY <2>2, <2>3, SliceEmpty
<1>6. CASE Slice(s, from, to) = << >> /\ L # 0
  <2>1. from < to
    BY <1>1, <1>6
  <2>2. Len(Slice(s, from, to)) = 0
    BY <1>6, EmptySeq
  <2>3. Len(s) <= to
    <3>1. SUFFICES ASSUME to < Len(s) PROVE FALSE
      BY <1>1, <1>2
    <3>2. (IF to < Len(s) THEN to ELSE Len(s)) = to
      BY <3>1
    <3>3. Len(Slice(s, from, to)) = to - from
      BY <3>2, <2>1, <1>1, SliceProperties
    <3>. QED BY <3>3, <2>1, <2>2, <1>1
  <2>4. Slice(s, 0, to) = s
    BY <2>3, <1>1, SliceWhole
  <2>. QED BY <2>4
<1>. QED BY <1>3, <1>4, <1>5, <1>6

-----------------------------------------------------------------------------
\* What a resolver scans.

\* Keys in order are keys, once each, no more than there are.
LEMMA InOrderProperties ==
    ASSUME NEW ks
    PROVE  /\ InOrder(ks) \in Seq(Keys) /\ IsInjective(InOrder(ks))
           /\ Range(InOrder(ks)) = ks \cap Keys
           /\ Len(InOrder(ks)) <= Len(KeyOrder)
<1>1. KeyOrder \in Seq(Keys) /\ IsInjective(KeyOrder) /\ Range(KeyOrder) = Keys
  BY KeyOrderAssumption
<1>. QED BY <1>1, OnlyProperties DEF InOrder

\* A sequence read backwards has the same entries.
LEMMA ReverseProperties ==
    ASSUME NEW X, NEW s \in Seq(X)
    PROVE  /\ Reverse(s) \in Seq(X) /\ Len(Reverse(s)) = Len(s)
           /\ Range(Reverse(s)) = Range(s)
           /\ IsInjective(s) => IsInjective(Reverse(s))
<1> DEFINE r == Reverse(s)
<1>1. Len(s) \in Nat /\ s \in [1..Len(s) -> X]
  BY LenProperties
<1>2. \A i \in 1..Len(s) : (Len(s) - i) + 1 \in 1..Len(s) /\ (Len(s) - ((Len(s) - i) + 1)) + 1 = i
  BY <1>1
<1>3. r = [i \in 1..Len(s) |-> s[(Len(s) - i) + 1]]
  BY DEF Reverse
<1>. HIDE DEF r
<1>4. r \in [1..Len(s) -> X]
  BY <1>1, <1>2, <1>3
<1>5. r \in Seq(X) /\ Len(r) = Len(s)
  BY <1>1, <1>4, IsASeq, LenProperties
<1>6. Range(r) = {r[i] : i \in 1..Len(s)} /\ Range(s) = {s[i] : i \in 1..Len(s)}
  BY <1>5, RangeEquality
<1>7. Range(r) = Range(s)
  <2>1. \A i \in 1..Len(s) : s[i] = r[(Len(s) - i) + 1]
    BY <1>2, <1>3
  <2>. QED BY <2>1, <1>2, <1>3, <1>6
<1>8. IsInjective(s) => IsInjective(r)
  BY <1>1, <1>2, <1>3, <1>4 DEF IsInjective
<1>. QED BY <1>5, <1>7, <1>8 DEF r

\* What a query scans: the keys its index has under the criterion searched, or those stored,
\* once each.
LEMMA ScanProperties ==
    ASSUME NEW q
    PROVE  /\ Scan(q) \in Seq(Keys) /\ IsInjective(Scan(q)) /\ Len(Scan(q)) <= Len(KeyOrder)
           /\ Range(Scan(q)) = IF IsSearched(q) THEN {k \in Keys : <<Searched(q), k>> \in IndexUsed(q)}
                               ELSE Stored
<1>1. CASE IsSearched(q)
  <2> DEFINE ks == {k \in Keys : <<Searched(q), k>> \in IndexUsed(q)}
  <2>1. Scan(q) = InOrder(ks) /\ ks \cap Keys = ks
    BY <1>1 DEF Scan
  <2>. HIDE DEF ks
  <2>2. /\ Scan(q) \in Seq(Keys) /\ IsInjective(Scan(q)) /\ Len(Scan(q)) <= Len(KeyOrder)
        /\ Range(Scan(q)) = ks
    BY <2>1, InOrderProperties
  <2>. QED BY <2>2, <1>1 DEF ks
<1>2. CASE ~IsSearched(q)
  <2> DEFINE all == InOrder(Stored)
  <2>1. /\ all \in Seq(Keys) /\ IsInjective(all) /\ Len(all) <= Len(KeyOrder)
        /\ Range(all) = Stored
    <3>1. Stored \cap Keys = Stored
      BY DEF Stored
    <3>. QED BY <3>1, InOrderProperties
  <2>2. Scan(q) = IF q.reverse THEN Reverse(all) ELSE all
    BY <1>2 DEF Scan
  <2>. HIDE DEF all
  <2>. QED BY <2>1, <2>2, <1>2, ReverseProperties
<1>. QED BY <1>1, <1>2

\* A limit, a skip and the end of a page are naturals.
LEMMA QueryNumbers ==
    ASSUME NEW q \in Queries
    PROVE  q.skip \in Nat /\ Limit(q) \in Nat /\ PageEnd(q) = Limit(q) + q.skip
<1>1. q.limit \in Nat /\ q.skip \in Nat /\ MaxLimit \in Nat
  BY QueryAssumption
<1>. QED BY <1>1 DEF Limit, PageEnd

-----------------------------------------------------------------------------
\* Queries with a filter.

\* With no wildcard address the filter lets through what the query asks for.
LEMMA FilterIsWhatIsAsked ==
    ASSUME NEW q, EventsAreFindable, q.wildcard_address = None
    PROVE  {k \in Stored : PassesFilter(q, k)} = {k \in Stored : Asked(q, eventDB[k].event)}
<1>1. ASSUME NEW k \in Stored PROVE PassesFilter(q, k) <=> Asked(q, eventDB[k].event)
  <2>1. eventDB[k].event.key = k
    BY DEF EventsAreFindable
  <2>. QED BY <2>1 DEF PassesFilter, Asked
<1>. QED BY <1>1

\* What an event is indexed under.
LEMMA EntriesOf ==
    ASSUME NEW e, NEW a, NEW k
    PROVE  /\ <<a, k>> \in IndexEntries(e) <=> a \in {e.source, e.operation, e.block} /\ k = e.key
           /\ <<a, k>> \in WildcardEntries(e) <=> (a = e.key \/ a \in e.addresses) /\ k = e.key
  BY DEF IndexEntries, WildcardEntries

\* Without a wildcard address, what is searched is one of the three of an event the query asks
\* for that the main index has it under.
LEMMA SearchedIsOfAsked ==
    ASSUME NEW q, NEW e, q.wildcard_address = None, IsSearched(q), Asked(q, e)
    PROVE  Searched(q) \in {e.source, e.operation, e.block}
<1> DEFINE c == Criteria(q)
           G == Given(q)
<1>1. /\ c[1] = q.block_hash /\ c[2] = q.operation_hash /\ c[3] = q.source
      /\ c[4] = q.wildcard_address /\ DOMAIN c = 1..4
  BY DEF Criteria
<1>2. G = {i \in 1..4 : c[i] # None}
  BY <1>1 DEF Given
<1>3. Searched(q) = c[Min(G)] /\ G # {}
  BY DEF Searched, IsSearched
<1>. HIDE DEF c, G
<1>4. Min(G) \in G
  <2>1. \E i \in G : \A j \in G : i <= j
    BY <1>2, <1>3, LeastNatural
  <2>. QED BY <2>1 DEF Min
<1>5. Searched(q) \in {q.block_hash, q.operation_hash, q.source} /\ Searched(q) # None
  BY <1>1, <1>2, <1>3, <1>4
<1>. QED BY <1>5 DEF Asked

\* The index searched has an entry for every stored event the query asks for.
LEMMA AskedIsIndexed ==
    ASSUME TypeOK, EventsAreFindable, NEW q, q.wildcard_address = None, IsSearched(q),
           NEW k \in Stored, Asked(q, eventDB[k].event)
    PROVE  k \in Keys /\ <<Searched(q), k>> \in IndexUsed(q)
<1> DEFINE e == eventDB[k].event
<1>1. e.key = k /\ IndexEntries(e) \subseteq eventIndexDB /\ k \in Keys
  BY DEF EventsAreFindable, Stored
<1>. HIDE DEF e
<1>2. Searched(q) \in {e.source, e.operation, e.block}
  BY SearchedIsOfAsked DEF e
<1>3. <<Searched(q), k>> \in IndexEntries(e)
  BY <1>1, <1>2, EntriesOf
<1>. QED BY <1>1, <1>3 DEF IndexUsed

\* So the stored events asked for are what is left of the scan when the others are filtered
\* out, and in its order.
LEMMA MatchingIsScanned ==
    ASSUME TypeOK, EventsAreFindable, NEW q, q.wildcard_address = None
    PROVE  Matching(q) = Only(Scan(q), {k \in Stored : Asked(q, eventDB[k].event)})
<1> DEFINE asked == {k \in Stored : Asked(q, eventDB[k].event)}
           ks == IF IsSearched(q) THEN {k \in Keys : <<Searched(q), k>> \in IndexUsed(q)} ELSE Stored
           all == InOrder(ks)
           found == InOrder(asked)
<1>1. KeyOrder \in Seq(Keys)
  BY KeyOrderAssumption
<1>2. ks \cap asked = asked
  BY AskedIsIndexed
<1>3. Matching(q) = IF q.reverse /\ ~IsSearched(q) THEN Reverse(found) ELSE found
  BY DEF Matching
<1>4. Scan(q) = IF q.reverse /\ ~IsSearched(q) THEN Reverse(all) ELSE all
  BY DEF Scan
<1>. HIDE DEF asked, ks
<1>5. Only(all, asked) = found /\ all \in Seq(Keys)
  <2>1. Only(Only(KeyOrder, ks), asked) = Only(KeyOrder, ks \cap asked)
    BY <1>1, OnlyOfOnly
  <2>2. all = Only(KeyOrder, ks) /\ found = Only(KeyOrder, asked)
    BY DEF InOrder
  <2>3. Only(KeyOrder, ks) \in Seq(Keys)
    BY <1>1, OnlyProperties
  <2>. HIDE DEF all, found
  <2>. QED BY <2>1, <2>2, <2>3, <1>2
<1>. HIDE DEF all, found
<1>6. Only(Reverse(all), asked) = Reverse(found)
  BY <1>5, OnlyOfReverse
<1>7. Matching(q) = Only(Scan(q), asked)
  BY <1>3, <1>4, <1>5, <1>6
<1>. QED BY <1>7 DEF asked

\* The loop answers the page of all that the filter lets through, and those are the stored
\* events the query asks for.
LEMMA FindableMakesExact == TypeOK /\ EventsAreFindable => FilteredAnswersAreExact
<1>. SUFFICES ASSUME TypeOK, EventsAreFindable, NEW q \in Queries,
                     IsFiltered(q), q.wildcard_address = None, ~Answer(q).failed
              PROVE  Answer(q).events = Slice(Matching(q), q.skip, q.skip + Limit(q))
  BY DEF FilteredAnswersAreExact
<1> DEFINE s == Scan(q)
           L == Limit(q)
           S == {k \in Stored : Asked(q, eventDB[k].event)}
<1>1. s \in Seq(Keys) /\ L \in Nat /\ q.skip \in Nat /\ PageEnd(q) = L + q.skip
  BY ScanProperties, QueryNumbers
<1>2. S = {k \in Stored : PassesFilter(q, k)} /\ Matching(q) = Only(s, S)
  BY FilterIsWhatIsAsked, MatchingIsScanned
<1>3. Answer(q) = FilteredAnswer(q)
  BY DEF Answer
<1>. HIDE DEF S
<1>4. PICK n \in 1..(Len(s) + 1) :
          LET read == Slice(s, (n - 1) * L, n * L)
              found == Only(Slice(s, 0, n * L), S)
          IN  /\ ~AreStored(read) \/ Len(found) >= PageEnd(q) \/ read = << >>
              /\ FilteredAnswer(q) = IF AreStored(read)
                                     THEN Answered(Slice(found, q.skip, PageEnd(q)))
                                     ELSE Failed
  BY <1>1, <1>2, FilteredAnswerIs
<1> DEFINE read == Slice(s, (n - 1) * L, n * L)
           found == Only(Slice(s, 0, n * L), S)
<1>5. n \in Nat \ {0}
  BY <1>1, LenProperties
<1>. HIDE DEF s, L
<1>6. AreStored(read) /\ Answer(q).events = Slice(found, q.skip, L + q.skip)
  BY <1>1, <1>3, <1>4 DEF Failed, Answered
<1>7. Len(found) >= L + q.skip \/ read = << >>
  BY <1>1, <1>4, <1>6
<1>8. Slice(found, q.skip, L + q.skip) = Slice(Only(s, S), q.skip, L + q.skip)
  <2>. HIDE DEF found, read
  <2>1. s \in Seq(Keys) /\ L \in Nat /\ q.skip \in Nat
    BY <1>1
  <2> DEFINE k == q.skip
  <2>2. k \in Nat /\ (Len(found) >= L + k \/ read = << >>)
    BY <1>7, <2>1
  <2>. HIDE DEF k
  <2>3. Slice(found, k, L + k) = Slice(Only(s, S), k, L + k)
    BY <2>1, <2>2, <1>5, LoopAnswersPage DEF found, read
  <2>. QED BY <2>3 DEF k
<1>9. L + q.skip = q.skip + Limit(q)
  BY <1>1 DEF L
<1>. QED BY <1>2, <1>6, <1>8, <1>9


-----------------------------------------------------------------------------
\* Pages.

\* Pages of L entries each, one after the other, have the entries of the sequence, none of
\* them twice.
LEMMA PagesPartition ==
    ASSUME NEW X, NEW s \in Seq(X), IsInjective(s), NEW L \in Nat \ {0},
           NEW N \in Nat, Len(s) <= N
    PROVE  LET Page(i) == Slice(s, (i - 1) * L, L + (i - 1) * L)
           IN  /\ \A i \in 1..N : IsInjective(Page(i))
               /\ \A i, j \in 1..N : i < j => Range(Page(i)) \cap Range(Page(j)) = {}
               /\ UNION {Range(Page(i)) : i \in 1..N} = Range(s)
<1> DEFINE Page(i) == Slice(s, (i - 1) * L, L + (i - 1) * L)
           Before(i) == (i - 1) * L
<1>1. Len(s) \in Nat /\ s \in [1..Len(s) -> X] /\ Range(s) = {s[p] : p \in 1..Len(s)}
  BY LenProperties, RangeEquality
<1>2. \A p, r \in 1..Len(s) : s[p] = s[r] => p = r
  BY <1>1 DEF IsInjective
<1>3. \A i \in Nat \ {0} : Before(i) \in Nat /\ Before(i + 1) = Before(i) + L
  BY Multiples
<1>4. \A i, j \in Nat \ {0} : i < j => Before(i) + L <= Before(j)
  <2> DEFINE T == {j \in Nat : \A i \in Nat \ {0} : i < j => Before(i) + L <= Before(j)}
  <2>1. 0 \in T
    OBVIOUS
  <2>2. ASSUME NEW j \in Nat, j \in T PROVE j + 1 \in T
    <3>. SUFFICES ASSUME NEW i \in Nat \ {0}, i < j + 1 PROVE Before(i) + L <= Before(j + 1)
      OBVIOUS
    <3>. HIDE DEF Before
    <3>1. CASE i = j
      BY <3>1, <1>3
    <3>2. CASE i < j
      <4>1. Before(i) + L <= Before(j) /\ j \in Nat \ {0}
        BY <3>2, <2>2
      <4>2. Before(i) \in Nat /\ Before(j) \in Nat /\ Before(j + 1) = Before(j) + L
        BY <4>1, <1>3
      <4>. QED BY <4>1, <4>2
    <3>. QED BY <3>1, <3>2
  <2>3. Nat \subseteq T
    <3>. HIDE DEF T
    <3>. QED BY <2>1, <2>2, NatSetInduction
  <2>. QED BY <2>3
<1>5. \A p \in Nat \ {0} : \E i \in 1..p : Before(i) < p /\ p <= Before(i) + L
  <2> DEFINE T == {p \in Nat : p # 0 => \E i \in 1..p : Before(i) < p /\ p <= Before(i) + L}
  <2>1. 0 \in T
    OBVIOUS
  <2>2. ASSUME NEW p \in Nat, p \in T PROVE p + 1 \in T
    <3>1. CASE p = 0
      <4>1. Before(1) = 0 /\ 1 \in 1..(p + 1)
        BY <3>1
      <4>. HIDE DEF Before
      <4>2. Before(1) < p + 1 /\ p + 1 <= Before(1) + L
        BY <3>1, <4>1
      <4>. QED BY <4>1, <4>2
    <3>2. CASE p # 0
      <4>1. PICK i \in 1..p : Before(i) < p /\ p <= Before(i) + L
        BY <2>2, <3>2
      <4>. HIDE DEF Before
      <4>2. i \in 1..(p + 1) /\ i + 1 \in 1..(p + 1) /\ i \in Nat \ {0}
        OBVIOUS
      <4>3. Before(i) \in Nat /\ Before(i + 1) = Before(i) + L
        BY <4>2, <1>3
      <4>4. CASE p < Before(i) + L
        <5>1. Before(i) < p + 1 /\ p + 1 <= Before(i) + L
          BY <4>1, <4>3, <4>4
        <5>. QED BY <5>1, <4>2
      <4>5. CASE p = Before(i) + L
        <5>1. Before(i + 1) < p + 1 /\ p + 1 <= Before(i + 1) + L
          BY <4>1, <4>3, <4>5
        <5>. QED BY <5>1, <4>2
      <4>. QED BY <4>1, <4>3, <4>4, <4>5
    <3>. QED BY <3>1, <3>2
  <2>3. Nat \subseteq T
    <3>. HIDE DEF T
    <3>. QED BY <2>1, <2>2, NatSetInduction
  <2>. QED BY <2>3
<1>6. ASSUME NEW i \in 1..N
      PROVE  /\ Page(i) \in Seq(X) /\ Len(Page(i)) \in Nat
             /\ \A n \in 1..Len(Page(i)) :
                    Page(i)[n] = s[Before(i) + n] /\ Before(i) + n \in 1..Len(s) /\ n <= L
             /\ \A p \in 1..Len(s) : Before(i) < p /\ p <= Before(i) + L => p - Before(i) \in 1..Len(Page(i))
  <2> DEFINE from == Before(i)
             to == L + from
             page == Slice(s, from, to)
             end == IF to < Len(s) THEN to ELSE Len(s)
  <2>1. from \in Nat /\ to \in Nat /\ to = L + from
    BY <1>3
  <2>. HIDE DEF from, to
  <2>2. /\ page \in Seq(X) /\ Len(page) = (IF from < end THEN end - from ELSE 0)
        /\ \A n \in 1..Len(page) : page[n] = s[from + n]
    <3>1. \A f, u \in Nat :
             LET t == Slice(s, f, u)
                 e == IF u < Len(s) THEN u ELSE Len(s)
             IN  t \in Seq(X) /\ Len(t) = (IF f < e THEN e - f ELSE 0) /\ \A n \in 1..Len(t) : t[n] = s[f + n]
      BY SliceProperties
    <3>. QED BY <3>1, <2>1
  <2>. HIDE DEF page
  <2>3. end \in Nat /\ end <= Len(s) /\ end <= from + L
    BY <2>1, <1>1
  <2>4. \A p \in 1..Len(s) : p <= from + L => p <= end
    BY <2>1, <1>1
  <2>. HIDE DEF end
  <2>5. Len(page) \in Nat
    BY <2>2, LenProperties
  <2>6. \A n \in 1..Len(page) : from + n \in 1..Len(s) /\ n <= L
    <3>. TAKE n \in 1..Len(page)
    <3>1. from < end /\ Len(page) = end - from
      BY <2>1, <2>2, <2>3, <2>5
    <3>. QED BY <3>1, <2>1, <2>3, <1>1
  <2>7. \A p \in 1..Len(s) : from < p /\ p <= from + L => p - from \in 1..Len(page)
    <3>. SUFFICES ASSUME NEW p \in 1..Len(s), from < p, p <= from + L PROVE p - from \in 1..Len(page)
      OBVIOUS
    <3>1. from < end /\ p <= end
      BY <2>1, <2>3, <2>4, <1>1
    <3>2. Len(page) = end - from
      BY <3>1, <2>2
    <3>. QED BY <3>1, <3>2, <2>1, <2>3, <1>1
  <2>8. page = Page(i) /\ from = Before(i)
    BY DEF page, from, to
  <2>. QED BY <2>2, <2>5, <2>6, <2>7, <2>8
<1>. HIDE DEF Page, Before
<1>7. ASSUME NEW i \in 1..N PROVE Range(Page(i)) = {Page(i)[n] : n \in 1..Len(Page(i))}
  BY <1>6, RangeEquality
<1>8. \A i \in 1..N : IsInjective(Page(i))
  <2>. SUFFICES ASSUME NEW i \in 1..N, NEW n \in DOMAIN Page(i), NEW m \in DOMAIN Page(i), Page(i)[n] = Page(i)[m]
                PROVE  n = m
    BY DEF IsInjective
  <2>1. n \in 1..Len(Page(i)) /\ m \in 1..Len(Page(i))
    BY <1>6, LenProperties
  <2>2. /\ Page(i)[n] = s[Before(i) + n] /\ Before(i) + n \in 1..Len(s)
        /\ Page(i)[m] = s[Before(i) + m] /\ Before(i) + m \in 1..Len(s)
    BY <2>1, <1>6
  <2>3. Before(i) + n = Before(i) + m
    BY <2>2, <1>2
  <2>4. Before(i) \in Nat /\ n \in Nat /\ m \in Nat
    <3>1. i \in Nat \ {0}
      OBVIOUS
    <3>2. Before(i) \in Nat
      BY <3>1, <1>3
    <3>3. n \in Nat /\ m \in Nat
      BY <2>1
    <3>. QED BY <3>2, <3>3
  <2>. QED BY <2>3, <2>4
<1>9. \A i, j \in 1..N : i < j => Range(Page(i)) \cap Range(Page(j)) = {}
  <2>. SUFFICES ASSUME NEW i \in 1..N, NEW j \in 1..N, i < j,
                       NEW n \in 1..Len(Page(i)), NEW m \in 1..Len(Page(j)), Page(i)[n] = Page(j)[m]
                PROVE  FALSE
    BY <1>7
  <2>1. Before(i) + n = Before(j) + m /\ n <= L
    <3>1. Page(i)[n] = s[Before(i) + n] /\ Before(i) + n \in 1..Len(s) /\ n <= L
      BY <1>6
    <3>2. Page(j)[m] = s[Before(j) + m] /\ Before(j) + m \in 1..Len(s)
      BY <1>6
    <3>. QED BY <3>1, <3>2, <1>2
  <2>2. Before(i) + L <= Before(j) /\ Before(i) \in Nat /\ Before(j) \in Nat
    <3>1. i \in Nat \ {0} /\ j \in Nat \ {0}
      OBVIOUS
    <3>. QED BY <3>1, <1>3, <1>4
  <2>3. n \in Nat /\ m \in Nat /\ m > 0
    BY <1>6
  <2>. QED BY <2>1, <2>2, <2>3
<1>10. UNION {Range(Page(i)) : i \in 1..N} = Range(s)
  <2>1. ASSUME NEW i \in 1..N PROVE Range(Page(i)) \subseteq Range(s)
    BY <1>1, <1>6, <1>7
  <2>2. ASSUME NEW p \in 1..Len(s) PROVE \E i \in 1..N : s[p] \in Range(Page(i))
    <3>1. PICK i \in 1..p : Before(i) < p /\ p <= Before(i) + L
      BY <1>5
    <3>2. i \in 1..N /\ i \in Nat \ {0} /\ Before(i) \in Nat
      <4>1. i \in 1..N /\ i \in Nat \ {0}
        BY <1>1
      <4>. QED BY <4>1, <1>3
    <3>3. p - Before(i) \in 1..Len(Page(i)) /\ Before(i) + (p - Before(i)) = p
      BY <3>1, <3>2, <1>6
    <3>4. Page(i)[p - Before(i)] = s[p]
      BY <3>2, <3>3, <1>6
    <3>. QED BY <3>2, <3>3, <3>4, <1>7
  <2>3. Range(s) \subseteq UNION {Range(Page(i)) : i \in 1..N}
    BY <2>2, <1>1
  <2>. QED BY <2>1, <2>3
<1>. QED BY <1>8, <1>9, <1>10 DEF Page


-----------------------------------------------------------------------------
\* What the indexes know when a resolver runs.

\* No save is under way, so every index entry comes from an event of a save that returned
\* or that a death cut short, one of the latter when its event is not stored.
LEMMA ServedTraces ==
    ASSUME TracedInv, SaveInv, Served
    PROVE  /\ batch = {}
           /\ \A k \in Stored : eventDB[k].event \in EventsOf(acked \cup owed)
           /\ \A p \in eventIndexDB :
                  /\ \E e \in EventsOf(acked \cup owed) : p \in IndexEntries(e)
                  /\ p[2] \in Stored \/ \E e \in EventsOf(owed) : p \in IndexEntries(e)
           /\ \A p \in eventWildcardIndexDB :
                  /\ \E e \in EventsOf(acked \cup owed) : p \in WildcardEntries(e)
                  /\ p[2] \in Stored \/ \E e \in EventsOf(owed) : p \in WildcardEntries(e)
<1>1. batch = {}
  BY DEF SaveInv, Served
<1>2. acked \cup owed \cup batch = acked \cup owed /\ owed \cup batch = owed
  BY <1>1
<1>. QED BY <1>1, <1>2, Zenon DEF TracedInv

-----------------------------------------------------------------------------
\* Queries that fail.

\* A query that fails came upon a key it found in the index it searched and whose event is
\* not stored.
LEMMA FailedOnMissing ==
    ASSUME NEW q \in Queries, Answer(q).failed
    PROVE  IsSearched(q) /\ \E k \in Keys \ Stored : <<Searched(q), k>> \in IndexUsed(q)
<1> DEFINE s == Scan(q)
<1>1. s \in Seq(Keys) /\ Limit(q) \in Nat /\ q.skip \in Nat /\ PageEnd(q) \in Nat
  BY ScanProperties, QueryNumbers
<1>2. \E from, to \in Nat : ~AreStored(Slice(s, from, to))
  <2>1. CASE ~IsFiltered(q)
    <3>1. Answer(q) = IF AreStored(Slice(s, q.skip, PageEnd(q)))
                      THEN Answered(Slice(s, q.skip, PageEnd(q))) ELSE Failed
      BY <2>1 DEF Answer, DirectAnswer
    <3>2. ~AreStored(Slice(s, q.skip, PageEnd(q)))
      BY <3>1 DEF Answered
    <3>. QED BY <3>2, <1>1
  <2>2. CASE IsFiltered(q)
    <3>1. Answer(q) = FilteredAnswer(q)
      BY <2>2 DEF Answer
    <3>2. PICK n \in 1..(Len(s) + 1) :
              LET read == Slice(s, (n - 1) * Limit(q), n * Limit(q))
                  found == Only(Slice(s, 0, n * Limit(q)), {k \in Stored : PassesFilter(q, k)})
              IN  /\ ~AreStored(read) \/ Len(found) >= PageEnd(q) \/ read = << >>
                  /\ FilteredAnswer(q) = IF AreStored(read)
                                         THEN Answered(Slice(found, q.skip, PageEnd(q)))
                                         ELSE Failed
      BY <1>1, FilteredAnswerIs
    <3>3. ~AreStored(Slice(s, (n - 1) * Limit(q), n * Limit(q)))
      BY <3>1, <3>2 DEF Answered
    <3>4. (n - 1) * Limit(q) \in Nat /\ n * Limit(q) \in Nat
      <4>1. n \in Nat \ {0}
        BY <1>1, LenProperties
      <4>. QED BY <4>1, <1>1, Multiples
    <3>. QED BY <3>3, <3>4
  <2>. QED BY <2>1, <2>2
<1>3. PICK k \in Range(s) : k \notin Stored
  <2>1. PICK from \in Nat, to \in Nat : ~AreStored(Slice(s, from, to))
    BY <1>2
  <2>2. Range(Slice(s, from, to)) \subseteq Range(s)
    BY <1>1, SliceRange
  <2>. QED BY <2>1, <2>2 DEF AreStored
<1>4. Range(s) = IF IsSearched(q) THEN {x \in Keys : <<Searched(q), x>> \in IndexUsed(q)} ELSE Stored
  BY ScanProperties
<1>. QED BY <1>3, <1>4

\* Such a key is that of an owed event.
LEMMA TracesExplainFailures == TracedInv /\ SaveInv => QueriesFailOnlyOwed
<1>. SUFFICES ASSUME TracedInv, SaveInv, Served PROVE QueriesFailOnlyOwed
  BY DEF QueriesFailOnlyOwed
<1> DEFINE OwedUnder(entry) == \E e \in EventsOf(owed) :
               e.key \notin Stored /\ entry[2] = e.key
               /\ entry \in IndexEntries(e) \cup WildcardEntries(e)
<1>1. ASSUME NEW a, NEW k, k \notin Stored, <<a, k>> \in eventIndexDB \cup eventWildcardIndexDB
      PROVE  OwedUnder(<<a, k>>)
  <2>1. PICK e \in EventsOf(owed) : <<a, k>> \in IndexEntries(e) \cup WildcardEntries(e)
    <3>1. <<a, k>>[2] = k
      OBVIOUS
    <3>. QED BY <1>1, <3>1, ServedTraces
  <2>2. k = e.key
    BY <2>1, EntriesOf
  <2>. QED BY <1>1, <2>1, <2>2
<1>2. ASSUME NEW q \in Queries, Answer(q).failed
      PROVE  IsSearched(q) /\ \E k \in Keys : OwedUnder(<<Searched(q), k>>)
  <2>. HIDE DEF OwedUnder
  <2>1. PICK k \in Keys \ Stored : <<Searched(q), k>> \in IndexUsed(q)
    BY <1>2, FailedOnMissing
  <2>2. OwedUnder(<<Searched(q), k>>)
    BY <1>1, <2>1 DEF IndexUsed
  <2>. QED BY <1>2, <2>2, FailedOnMissing
<1>3. ASSUME NEW k \in Keys, EventById(k).failed PROVE OwedUnder(<<k, k>>)
  <2>. HIDE DEF OwedUnder
  <2>1. <<k, k>> \in eventWildcardIndexDB /\ k \notin Stored
    BY <1>3 DEF EventById, Answered, Failed
  <2>. QED BY <2>1, <1>1
<1>4. ASSUME NEW s \in Sources, FirstEvent(s).failed PROVE \E k \in Keys : OwedUnder(<<s, k>>)
  <2> DEFINE all == InOrder({k \in Keys : <<s, k>> \in eventIndexDB})
  <2>1. AllOf(s) = all
    BY KindsAssumption DEF AllOf
  <2>2. all \in Seq(Keys) /\ Range(all) \subseteq {k \in Keys : <<s, k>> \in eventIndexDB}
    BY InOrderProperties
  <2>. HIDE DEF all, OwedUnder
  <2>3. ~AreStored(Slice(all, 0, 1))
    BY <1>4, <2>1 DEF FirstEvent, Answered
  <2>4. Range(Slice(all, 0, 1)) \subseteq Range(all)
    BY <2>2, SliceRange
  <2>5. PICK k \in Keys : <<s, k>> \in eventIndexDB /\ k \notin Stored
    BY <2>2, <2>3, <2>4 DEF AreStored
  <2>. QED BY <2>5, <1>1
<1>. QED BY <1>2, <1>3, <1>4 DEF QueriesFailOnlyOwed


-----------------------------------------------------------------------------
\* Queries without a filter.

\* Without a filter at most one criterion is given, and it is the one searched.
LEMMA OneCriterion ==
    ASSUME NEW q, ~IsFiltered(q)
    PROVE  /\ q.type = None
           /\ ~IsSearched(q) => /\ q.block_hash = None /\ q.operation_hash = None
                                /\ q.source = None /\ q.wildcard_address = None
           /\ IsSearched(q) =>
                  \/ /\ q.block_hash # None /\ Searched(q) = q.block_hash
                     /\ q.operation_hash = None /\ q.source = None /\ q.wildcard_address = None
                  \/ /\ q.operation_hash # None /\ Searched(q) = q.operation_hash
                     /\ q.block_hash = None /\ q.source = None /\ q.wildcard_address = None
                  \/ /\ q.source # None /\ Searched(q) = q.source
                     /\ q.block_hash = None /\ q.operation_hash = None /\ q.wildcard_address = None
                  \/ /\ q.wildcard_address # None /\ Searched(q) = q.wildcard_address
                     /\ q.block_hash = None /\ q.operation_hash = None /\ q.source = None
<1> DEFINE c == Criteria(q)
           G == Given(q)
<1>1. /\ c[1] = q.block_hash /\ c[2] = q.operation_hash /\ c[3] = q.source
      /\ c[4] = q.wildcard_address /\ DOMAIN c = 1..4
  BY DEF Criteria
<1>2. G = {i \in 1..4 : c[i] # None}
  BY <1>1 DEF Given
<1>3. q.type = None /\ ~(Cardinality(G) >= 2)
  BY DEF IsFiltered
<1>4. Searched(q) = c[Min(G)] /\ (IsSearched(q) <=> G # {})
  BY DEF Searched, IsSearched
<1>. HIDE DEF c, G
<1>5. ASSUME NEW i \in G, NEW j \in G PROVE i = j
  <2>. SUFFICES ASSUME i # j PROVE FALSE
    OBVIOUS
  <2>1. IsFiniteSet(G) /\ IsFiniteSet({i}) /\ Cardinality({i}) = 1
    <3>1. G \in SUBSET Nat /\ \A g \in G : g <= 4
      BY <1>2
    <3>2. IsFiniteSet(G)
      BY <3>1, FS_BoundedSetOfNaturals
    <3>. QED BY <3>2, FS_Singleton
  <2>2. Cardinality({i} \cup {j}) = 2 /\ {i} \cup {j} \subseteq G
    BY <2>1, FS_AddElement
  <2>3. Cardinality({i} \cup {j}) <= Cardinality(G) /\ Cardinality(G) \in Nat
    BY <2>1, <2>2, FS_Subset, FS_CardinalityType
  <2>. QED BY <1>3, <2>2, <2>3
<1>6. CASE G = {}
  BY <1>1, <1>2, <1>3, <1>4, <1>6
<1>7. CASE G # {}
  <2>1. PICK i \in 1..4 : G = {i}
    BY <1>2, <1>5, <1>7
  <2>2. Min(G) = i
    BY <2>1 DEF Min
  <2>3. Searched(q) = c[i] /\ c[i] # None /\ \A j \in 1..4 : j # i => c[j] = None
    BY <1>2, <1>4, <2>1, <2>2
  <2>. QED BY <1>1, <1>3, <1>4, <1>7, <2>1, <2>3
<1>. QED BY <1>6, <1>7

\* The index has an entry for each stored event the query asks for, unless the query is for a
\* source under the name of a wildcard address.
LEMMA AskedIsScanned ==
    ASSUME TypeOK, EventsAreFindable, NEW q \in Queries, ~IsFiltered(q), q.wildcard_address \notin Sources,
           NEW k \in Stored, Asked(q, eventDB[k].event)
    PROVE  k \in Range(Scan(q))
<1> DEFINE e == eventDB[k].event
<1>1. /\ e \in Events /\ e.key = k /\ IndexEntries(e) \subseteq eventIndexDB
      /\ WildcardEntries(e) \subseteq eventWildcardIndexDB
  BY DEF EventsAreFindable, Stored, TypeOK, Record
<1>2. e.source \in Sources /\ k \in Keys
  BY <1>1, EventAssumption DEF Stored
<1>. HIDE DEF e
<1>3. Asked(q, e)
  BY DEF e
<1>4. CASE ~IsSearched(q)
  BY <1>4, ScanProperties
<1>5. CASE IsSearched(q)
  <2>1. <<Searched(q), k>> \in IndexUsed(q)
    <3>1. CASE q.wildcard_address = None
      BY <1>5, <3>1, AskedIsIndexed
    <3>2. CASE q.wildcard_address # None
      <4>1. Searched(q) = q.wildcard_address
        BY <1>5, <3>2, OneCriterion
      <4>2. Searched(q) \in e.addresses
        BY <1>2, <1>3, <3>2, <4>1 DEF Asked, HasAddress
      <4>3. <<Searched(q), k>> \in WildcardEntries(e)
        BY <1>1, <4>2, EntriesOf
      <4>. QED BY <1>1, <3>2, <4>3 DEF IndexUsed
    <3>. QED BY <3>1, <3>2
  <2>. QED BY <1>2, <1>5, <2>1, ScanProperties
<1>. QED BY <1>4, <1>5

\* The index has no entry but of a key that an event of some save had which the query asks for.
LEMMA ScannedWasAsked ==
    ASSUME TracedInv, SaveInv, EventsAreFindable, Served,
           NEW q \in Queries, ~IsFiltered(q), NEW k \in Range(Scan(q))
    PROVE  k \in KeysOf({e \in EventsOf(acked \cup owed) : Asked(q, e)})
<1>. SUFFICES \E e \in EventsOf(acked \cup owed) : Asked(q, e) /\ e.key = k
  BY DEF KeysOf
<1>1. CASE ~IsSearched(q)
  <2>1. k \in Stored
    BY <1>1, ScanProperties
  <2>2. eventDB[k].event \in EventsOf(acked \cup owed) /\ eventDB[k].event.key = k
    BY <2>1, ServedTraces DEF EventsAreFindable
  <2>3. Asked(q, eventDB[k].event)
    BY <1>1, OneCriterion DEF Asked
  <2>. QED BY <2>2, <2>3
<1>2. CASE IsSearched(q)
  <2>1. <<Searched(q), k>> \in IndexUsed(q)
    BY <1>2, ScanProperties
  <2>2. q \in [source : Sources \cup {None}, wildcard_address : Sources \cup Addresses \cup {None},
               operation_hash : Operations \cup {None}, block_hash : Blocks \cup {None},
               type : (SUBSET {Kind[x] : x \in Keys}) \cup {None},
               limit : Nat, skip : Nat, reverse : BOOLEAN]
    BY QueryAssumption
  <2>3. CASE q.wildcard_address = None
    <3>1. PICK e \in EventsOf(acked \cup owed) : <<Searched(q), k>> \in IndexEntries(e)
      BY <2>1, <2>3, ServedTraces DEF IndexUsed
    <3>2. Searched(q) \in {e.source, e.operation, e.block} /\ e.key = k
      BY <3>1, EntriesOf
    <3>3. e.source \in Sources /\ e.operation \in Operations /\ e.block \in Blocks
      BY EventAssumption DEF EventsOf
    <3>4. Asked(q, e)
      <4>1. CASE q.block_hash # None
        BY <4>1, <1>2, <2>2, <2>3, <3>2, <3>3, KindsAssumption, OneCriterion DEF Asked
      <4>2. CASE q.operation_hash # None
        BY <4>2, <1>2, <2>2, <2>3, <3>2, <3>3, KindsAssumption, OneCriterion DEF Asked
      <4>3. CASE q.source # None
        BY <4>3, <1>2, <2>2, <2>3, <3>2, <3>3, KindsAssumption, OneCriterion DEF Asked
      <4>. QED BY <4>1, <4>2, <4>3, <1>2, <2>3, OneCriterion
    <3>. QED BY <3>2, <3>4
  <2>4. CASE q.wildcard_address # None
    <3>1. PICK e \in EventsOf(acked \cup owed) : <<Searched(q), k>> \in WildcardEntries(e)
      BY <2>1, <2>4, ServedTraces DEF IndexUsed
    <3>2. (Searched(q) = e.key \/ Searched(q) \in e.addresses) /\ e.key = k
      BY <3>1, EntriesOf
    <3>3. e.key \in Keys
      BY EventAssumption DEF EventsOf
    <3>4. Searched(q) = q.wildcard_address /\ Searched(q) \in Sources \cup Addresses
      BY <1>2, <2>2, <2>4, OneCriterion
    <3>5. Searched(q) \in e.addresses
      BY <3>2, <3>3, <3>4, KindsAssumption
    <3>6. Asked(q, e)
      BY <1>2, <2>4, <3>4, <3>5, OneCriterion DEF Asked, HasAddress
    <3>. QED BY <3>2, <3>6
  <2>. QED BY <2>3, <2>4
<1>. QED BY <1>1, <1>2


\* Another page of a query: nothing but the skip is different.
LEMMA PageOf ==
    ASSUME NEW q \in Queries, ~IsFiltered(q), NEW x \in Nat
    PROVE  Answer([q EXCEPT !.skip = x]) = LET page == Slice(Scan(q), x, Limit(q) + x)
                                           IN  IF AreStored(page) THEN Answered(page) ELSE Failed
<1> DEFINE r == [q EXCEPT !.skip = x]
<1>1. q \in [source : Sources \cup {None}, wildcard_address : Sources \cup Addresses \cup {None},
             operation_hash : Operations \cup {None}, block_hash : Blocks \cup {None},
             type : (SUBSET {Kind[k] : k \in Keys}) \cup {None},
             limit : Nat, skip : Nat, reverse : BOOLEAN]
  BY QueryAssumption
<1>2. /\ r.source = q.source /\ r.wildcard_address = q.wildcard_address
      /\ r.operation_hash = q.operation_hash /\ r.block_hash = q.block_hash
      /\ r.type = q.type /\ r.limit = q.limit /\ r.reverse = q.reverse /\ r.skip = x
  BY <1>1
<1>. HIDE DEF r
<1>3. Criteria(r) = Criteria(q) /\ Limit(r) = Limit(q) /\ PageEnd(r) = Limit(q) + x
  BY <1>2 DEF Criteria, Limit, PageEnd
<1>4. Given(r) = Given(q)
  BY <1>3 DEF Given
<1>5. IsSearched(r) = IsSearched(q) /\ Searched(r) = Searched(q)
  BY <1>3, <1>4 DEF IsSearched, Searched
<1>6. IndexUsed(r) = IndexUsed(q) /\ ~IsFiltered(r)
  BY <1>2, <1>4 DEF IndexUsed, IsFiltered
<1>7. Scan(r) = Scan(q)
  BY <1>2, <1>5, <1>6, Zenon DEF Scan
<1>. QED BY <1>2, <1>3, <1>6, <1>7 DEF Answer, DirectAnswer, r

\* The pages partition what is scanned, which is what is asked for, as far as it is stored.
LEMMA TracesMakePagesComplete ==
    TypeOK /\ SaveInv /\ EventsAreFindable /\ TracedInv => PagesMissNothing
<1>. SUFFICES ASSUME TypeOK, SaveInv, EventsAreFindable, TracedInv, Served PROVE PagesMissNothing
  BY DEF PagesMissNothing
<1>. SUFFICES ASSUME NEW q \in Queries, Limit(q) > 0, ~IsFiltered(q)
              PROVE  LET page == [i \in 1..Len(KeyOrder) |-> Answer([q EXCEPT !.skip = (i - 1) * Limit(q)])]
                         read == UNION {Range(page[i].events) : i \in DOMAIN page}
                     IN  (\A i \in DOMAIN page : ~page[i].failed) =>
                             /\ \A i \in DOMAIN page : IsInjective(page[i].events)
                             /\ \A i, j \in DOMAIN page :
                                    i < j => Range(page[i].events) \cap Range(page[j].events) = {}
                             /\ {k \in Stored : q.wildcard_address \notin Sources
                                                /\ Asked(q, eventDB[k].event)} \subseteq read
                             /\ read \subseteq KeysOf({e \in EventsOf(acked \cup owed) : Asked(q, e)})
  BY Zenon DEF PagesMissNothing
<1> DEFINE N == Len(KeyOrder)
           L == Limit(q)
           s == Scan(q)
           page == [i \in 1..N |-> Answer([q EXCEPT !.skip = (i - 1) * L])]
           read == UNION {Range(page[i].events) : i \in DOMAIN page}
           Page(i) == Slice(s, (i - 1) * L, L + (i - 1) * L)
<1>. SUFFICES ASSUME \A i \in DOMAIN page : ~page[i].failed
              PROVE  /\ \A i \in DOMAIN page : IsInjective(page[i].events)
                     /\ \A i, j \in DOMAIN page :
                            i < j => Range(page[i].events) \cap Range(page[j].events) = {}
                     /\ {k \in Stored : q.wildcard_address \notin Sources
                                        /\ Asked(q, eventDB[k].event)} \subseteq read
                     /\ read \subseteq KeysOf({e \in EventsOf(acked \cup owed) : Asked(q, e)})
  OBVIOUS
<1>1. s \in Seq(Keys) /\ IsInjective(s) /\ Len(s) <= N /\ N \in Nat /\ L \in Nat \ {0}
  BY ScanProperties, QueryNumbers, KeyOrderAssumption, LenProperties
<1>2. DOMAIN page = 1..N
  OBVIOUS
<1>3. ASSUME NEW i \in 1..N PROVE page[i].events = Page(i)
  <2>1. (i - 1) * L \in Nat
    BY <1>1, Multiples
  <2>2. page[i] = IF AreStored(Page(i)) THEN Answered(Page(i)) ELSE Failed
    BY <2>1, PageOf
  <2>3. ~page[i].failed
    OBVIOUS
  <2>. HIDE DEF page, Page
  <2>. QED BY <2>2, <2>3 DEF Answered, Failed
<1>. HIDE DEF page
<1>4. /\ \A i \in 1..N : IsInjective(Page(i))
      /\ \A i, j \in 1..N : i < j => Range(Page(i)) \cap Range(Page(j)) = {}
      /\ UNION {Range(Page(i)) : i \in 1..N} = Range(s)
  <2>. HIDE DEF s, N, L
  <2>. QED BY <1>1, PagesPartition
<1>. HIDE DEF Page, N
<1>5. read = Range(s)
  BY <1>2, <1>3, <1>4
<1>. HIDE DEF read
<1>6. \A i \in DOMAIN page : IsInjective(page[i].events)
  BY <1>2, <1>3, <1>4
<1>7. \A i, j \in DOMAIN page : i < j => Range(page[i].events) \cap Range(page[j].events) = {}
  BY <1>2, <1>3, <1>4
<1>8. {k \in Stored : q.wildcard_address \notin Sources /\ Asked(q, eventDB[k].event)} \subseteq read
  BY <1>5, AskedIsScanned
<1>9. read \subseteq KeysOf({e \in EventsOf(acked \cup owed) : Asked(q, e)})
  BY <1>5, ScannedWasAsked
<1>. QED BY <1>6, <1>7, <1>8, <1>9


-----------------------------------------------------------------------------
\* The statistics.

\* What the main index has under a source are keys of events of that source.
LEMMA SourceEntries ==
    ASSUME TracedInv, NEW s \in Sources, NEW k, <<s, k>> \in eventIndexDB
    PROVE  /\ k \in Keys
           /\ \A e \in Events : e.key = k => e.source = s
<1>1. PICK e \in EventsOf(acked \cup owed \cup batch) : <<s, k>> \in IndexEntries(e)
  BY DEF TracedInv
<1>2. e \in Events /\ e.operation \in Operations /\ e.block \in Blocks /\ e.key \in Keys
  BY EventAssumption DEF EventsOf
<1>3. s \in {e.source, e.operation, e.block} /\ k = e.key
  BY <1>1, EntriesOf
<1>4. s = e.source
  BY <1>2, <1>3, KindsAssumption
<1>. QED BY <1>2, <1>3, <1>4, EventAssumption

\* The totals are no less than what a client can read of the saves that returned.
LEMMA TotalsCover ==
    ASSUME TypeOK, SaveInv, TracedInv, CoverInv, Served, NEW address \in Sources \cup {None}
    PROVE  TotalEvents(address) >= Cardinality(Range(AllOf(address)) \cap KeysOf(EventsOf(acked)))
<1> DEFINE seen == Range(AllOf(address)) \cap KeysOf(EventsOf(acked))
           under == IF address = None THEN Stored ELSE {k \in Keys : <<address, k>> \in eventIndexDB}
<1>1. Range(AllOf(address)) = under
  <2>1. AllOf(address) = InOrder(under) /\ under \cap Keys = under
    BY DEF AllOf, Stored
  <2>. HIDE DEF under
  <2>. QED BY <2>1, InOrderProperties
<1>2. TotalEvents(address) \in Nat
  BY KindsAssumption DEF TotalEvents, TypeOK
<1>3. CASE Stored = {} /\ Indexed = {}
  <2>1. under = {}
    <3>1. \A k : <<address, k>> \notin eventIndexDB
      <4>. SUFFICES ASSUME NEW k, <<address, k>> \in eventIndexDB PROVE FALSE
        OBVIOUS
      <4>1. <<address, k>>[2] \in Indexed
        BY DEF Indexed
      <4>. QED BY <4>1, <1>3
    <3>. QED BY <3>1, <1>3
  <2>2. seen = {}
    BY <1>1, <2>1
  <2>. QED BY <2>2, <1>2, FS_EmptySet
<1>4. CASE Covers(EventsOf(acked), Sources)
  <2> DEFINE counted == IF address = None THEN EventsOf(acked)
                        ELSE {e \in EventsOf(acked) : e.source = address}
  <2>1. seen \subseteq KeysOf(counted)
    <3>1. CASE address = None
      BY <3>1
    <3>2. CASE address # None
      <4>. SUFFICES ASSUME NEW e \in EventsOf(acked), e.key \in under PROVE e.source = address
        BY <1>1, <3>2 DEF KeysOf
      <4>1. address \in Sources /\ <<address, e.key>> \in eventIndexDB /\ e \in Events
        BY <3>2 DEF EventsOf
      <4>. QED BY <4>1, SourceEntries
    <3>. QED BY <3>1, <3>2
  <2>2. TotalEvents(address) >= Cardinality(KeysOf(counted))
    BY <1>4, KindsAssumption DEF Covers, TotalEvents
  <2>3. IsFiniteSet(KeysOf(counted))
    BY KeysAreCounted DEF EventsOf
  <2>. HIDE DEF counted, seen
  <2>4. /\ Cardinality(seen) <= Cardinality(KeysOf(counted))
        /\ Cardinality(seen) \in Nat /\ Cardinality(KeysOf(counted)) \in Nat
    BY <2>1, <2>3, FS_Subset, FS_CardinalityType
  <2>5. TotalEvents(address) >= Cardinality(seen)
    BY <1>2, <2>2, <2>4
  <2>. QED BY <2>5 DEF seen
<1>. QED BY <1>3, <1>4 DEF CoverInv, Counted, Served

\* When nothing is owed the main index has under a source its stored events and nothing else.
LEMMA AllOfIsStored ==
    ASSUME TypeOK, SaveInv, TracedInv, EventsAreFindable, DanglingIsOwed, Served, owed = {},
           NEW address \in Sources \cup {None}
    PROVE  AllOf(address) = InOrder({k \in Stored : address \in {None, eventDB[k].event.source}})
<1> DEFINE ks == {k \in Stored : address \in {None, eventDB[k].event.source}}
<1>1. \A k \in Stored : k \in Keys /\ eventDB[k].event \in Events /\ eventDB[k].event.key = k
  BY DEF Stored, TypeOK, Record, EventsAreFindable
<1>2. CASE address = None
  <2>1. ks = Stored
    BY <1>2
  <2>. QED BY <1>2, <2>1 DEF AllOf
<1>3. CASE address # None
  <2>1. address \in Sources
    BY <1>3
  <2>2. ASSUME NEW k \in Keys, <<address, k>> \in eventIndexDB PROVE k \in ks
    <3>1. k \in Stored
      <4>1. <<address, k>>[2] \in Indexed
        BY <2>2 DEF Indexed
      <4>2. owed \cup batch = {}
        BY ServedTraces
      <4>3. KeysOf(EventsOf(owed \cup batch)) = {}
        BY <4>2 DEF KeysOf, EventsOf
      <4>. QED BY <4>1, <4>3 DEF DanglingIsOwed
    <3>. QED BY <3>1, <1>1, <2>1, <2>2, SourceEntries
  <2>3. ASSUME NEW k \in ks PROVE k \in Keys /\ <<address, k>> \in eventIndexDB
    <3>1. address = eventDB[k].event.source
      BY <1>3
    <3>2. <<address, k>> \in IndexEntries(eventDB[k].event)
      BY <3>1, <1>1, EntriesOf
    <3>. QED BY <3>2, <1>1 DEF EventsAreFindable
  <2>4. {k \in Keys : <<address, k>> \in eventIndexDB} = ks
    <3>. HIDE DEF ks
    <3>. QED BY <2>2, <2>3
  <2>. QED BY <1>3, <2>4 DEF AllOf
<1>. QED BY <1>2, <1>3

\* So the first event given is the first there is.
LEMMA FirstIsFirst ==
    ASSUME NEW ks \in SUBSET Stored, NEW address, AllOf(address) = InOrder(ks)
    PROVE  FirstEvent(address) = Answered(Slice(InOrder(ks), 0, 1))
<1> DEFINE all == InOrder(ks)
<1>1. all \in Seq(Keys) /\ Range(all) \subseteq Stored
  BY InOrderProperties
<1>. HIDE DEF all
<1>2. AreStored(Slice(all, 0, 1))
  <2>1. Range(Slice(all, 0, 1)) \subseteq Range(all)
    BY <1>1, SliceRange
  <2>. QED BY <2>1, <1>1 DEF AreStored
<1>3. AllOf(address) = all
  BY DEF all
<1>4. FirstEvent(address) = Answered(Slice(all, 0, 1))
  BY <1>2, <1>3 DEF FirstEvent
<1>. QED BY <1>4 DEF all

\* While the indexer runs and nothing is owed, what is stored of a source is what was saved.
LEMMA StoredIsSaved ==
    ASSUME TypeOK, SaveInv, TracedInv, EventsAreFindable, AckedAreStored, Served, owed = {}, phase = "run",
           NEW address
    PROVE  {k \in Stored : address \in {None, eventDB[k].event.source}}
               = KeysOf({e \in EventsOf(acked) : address \in {None, e.source}})
<1>1. acked \cup owed = acked
  OBVIOUS
<1>2. ASSUME NEW k \in Stored PROVE eventDB[k].event \in EventsOf(acked) /\ eventDB[k].event.key = k
  BY <1>1, ServedTraces DEF EventsAreFindable
<1>3. ASSUME NEW e \in EventsOf(acked) PROVE e.key \in Stored /\ eventDB[e.key].event.source = e.source
  <2>1. e.key \in Stored
    BY DEF AckedAreStored, KeysOf
  <2>2. eventDB[e.key].event \in Events /\ e \in Events /\ eventDB[e.key].event.key = e.key
    BY <1>2, <2>1 DEF EventsOf
  <2>. QED BY <2>1, <2>2, EventAssumption
<1>4. KeysOf({e \in EventsOf(acked) : address \in {None, e.source}})
          \subseteq {k \in Stored : address \in {None, eventDB[k].event.source}}
  BY <1>3 DEF KeysOf
<1>5. {k \in Stored : address \in {None, eventDB[k].event.source}}
          \subseteq KeysOf({e \in EventsOf(acked) : address \in {None, e.source}})
  BY <1>2 DEF KeysOf
<1>. QED BY <1>4, <1>5

\* All three hold in every state of StoreInv.
LEMMA LedgerMakesStatsCover == StoreInv => StatsCoverAnswers
<1>. SUFFICES ASSUME StoreInv, Served, NEW address \in Sources \cup {None}
              PROVE  /\ TotalEvents(address) >=
                            Cardinality(Range(AllOf(address)) \cap KeysOf(EventsOf(acked)))
                     /\ owed = {} => FirstEvent(address) = Answered(Slice(
                            InOrder({k \in Stored : address \in {None, eventDB[k].event.source}}), 0, 1))
                     /\ owed = {} /\ phase = "run" =>
                            Range(AllOf(address)) =
                                KeysOf({e \in EventsOf(acked) : address \in {None, e.source}})
  BY DEF StatsCoverAnswers
<1> DEFINE ks == {k \in Stored : address \in {None, eventDB[k].event.source}}
<1>1. /\ TypeOK /\ SaveInv /\ EventsAreFindable /\ DanglingIsOwed /\ TracedInv /\ CoverInv
      /\ AckedAreStored
  BY KeptBlocksAreStored DEF StoreInv, DataInv, LedgerInv
<1>2. TotalEvents(address) >= Cardinality(Range(AllOf(address)) \cap KeysOf(EventsOf(acked)))
  BY <1>1, TotalsCover
<1>3. ASSUME owed = {} PROVE AllOf(address) = InOrder(ks)
  BY <1>1, <1>3, AllOfIsStored
<1>4. ASSUME owed = {} PROVE FirstEvent(address) = Answered(Slice(InOrder(ks), 0, 1))
  <2>1. AllOf(address) = InOrder(ks) /\ ks \in SUBSET Stored
    BY <1>3, <1>4
  <2>. HIDE DEF ks
  <2>. QED BY <2>1, FirstIsFirst
<1>5. ASSUME owed = {}, phase = "run"
      PROVE  Range(AllOf(address)) = KeysOf({e \in EventsOf(acked) : address \in {None, e.source}})
  <2>1. ks = KeysOf({e \in EventsOf(acked) : address \in {None, e.source}})
    BY <1>1, <1>5, StoredIsSaved
  <2>2. AllOf(address) = InOrder(ks) /\ ks \cap Keys = ks
    BY <1>3, <1>5 DEF Stored
  <2>. HIDE DEF ks
  <2>. QED BY <2>1, <2>2, InOrderProperties
<1>. QED BY <1>2, <1>4, <1>5

-----------------------------------------------------------------------------
\* The theorems.

\* Queries by several criteria, or by type, get exactly their page of the stored events they
\* ask for, in every reachable state: no death, reset or fork leaves an index that hides one
\* (EventsAreFindable), and resolve_events loses none over its batches.
THEOREM FiltersAreExact == Spec => []FilteredAnswersAreExact
<1>1. StoreInv => FilteredAnswersAreExact
  BY FindableMakesExact DEF StoreInv, DataInv
<1>. QED BY <1>1, Invariance, PTL

\* The pages resolve_events has in a state, one skip after the other, partition what the index
\* has, and that is each stored event asked for, once.
THEOREM PagesAreComplete == Spec => []PagesMissNothing
<1>1. StoreInv => PagesMissNothing
  BY TracesMakePagesComplete DEF StoreInv, DataInv, LedgerInv
<1>. QED BY <1>1, Invariance, PTL

\* A resolver fails on nothing but an index entry that an interrupted save left behind and
\* that no save has completed since.
THEOREM FailuresAreOwed == Spec => []QueriesFailOnlyOwed
<1>1. StoreInv => QueriesFailOnlyOwed
  BY TracesExplainFailures DEF StoreInv, DataInv, LedgerInv
<1>. QED BY <1>1, Invariance, PTL

\* resolve_stats never gives less than what a client can read, and with nothing owed its
\* first event is the first there is; when the indexer runs besides, what it reads is what was
\* saved, no more and no less, whatever deaths and resets came between.
THEOREM StatsAreCovering == Spec => []StatsCoverAnswers
<1>. QED BY LedgerMakesStatsCover, Invariance, PTL


=============================================================================
