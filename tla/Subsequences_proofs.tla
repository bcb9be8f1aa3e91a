------------------------ MODULE Subsequences_proofs ------------------------
(***************************************************************************)
(* Facts about Kept: what is left of a sequence, of which elements and how *)
(* often.  Kept is computed along the sequence, so the proofs are          *)
(* inductions over its positions; an induction is an argument from the     *)
(* least position that is not in the set of those for which a claim holds. *)
(***************************************************************************)
EXTENDS Subsequences, SequencesExt, Integers, SequenceTheorems, WellFoundedInduction, TLAPS

-----------------------------------------------------------------------------
(* Induction.                                                              *)

LEMMA LeastNatural ==
    ASSUME NEW T \in SUBSET Nat, T # {}
    PROVE  \E n \in T : \A m \in T : n <= m
<1>. DEFINE R == OpToRel(<, Nat)
<1>1. IsWellFoundedOn(R, Nat)
  BY NatLessThanWellFounded
<1>2. \A m, n \in Nat : m < n => <<m, n>> \in R
  BY DEF OpToRel
<1>. HIDE DEF R
<1>3. PICK n \in T : \A m \in T : ~ (<<m, n>> \in R)
  BY <1>1, WFMin
<1>4. ASSUME NEW m \in T PROVE n <= m
  <2>1. ~(m < n)
    BY <1>2, <1>3
  <2>. QED  BY <2>1
<1>. QED  BY <1>4

\* What holds of 0 and of the successor of whatever it holds of, up to n, holds
\* of every number up to n.
LEMMA UpTo ==
    ASSUME NEW n \in Nat, NEW T, 0 \in T,
           \A i \in 0..n : i \in T /\ i + 1 <= n => i + 1 \in T
    PROVE  0..n \subseteq T
<1>. DEFINE Out == (0..n) \ T
<1>. SUFFICES ASSUME Out # {} PROVE FALSE
  OBVIOUS
<1>0. Out \in SUBSET Nat
  OBVIOUS
<1>. HIDE DEF Out
<1>1. PICK m \in Out : \A j \in Out : m <= j
  BY <1>0, LeastNatural
<1>. USE DEF Out
<1>2. m \in 0..n /\ m \notin T /\ m # 0
  BY <1>1
<1>3. m - 1 \in 0..n /\ m - 1 \in T
  BY <1>1, <1>2
<1>4. m \in T
  <2>. DEFINE p == m - 1
  <2>1. p \in 0..n /\ p \in T /\ p + 1 = m /\ p + 1 <= n
    BY <1>2, <1>3
  <2>. HIDE DEF p
  <2>2. p + 1 \in T
    BY <2>1
  <2>. QED  BY <2>1, <2>2
<1>. QED  BY <1>2, <1>4

-----------------------------------------------------------------------------
(* Kept as it is computed.                                                 *)

\* k holds what is kept of the first i elements of s, for i up to n.
Computes(k, s, S, n) ==
    /\ k[0] = <<>>
    /\ \A i \in 1..n : k[i] = IF s[i] \in S THEN Append(k[i - 1], s[i]) ELSE k[i - 1]

LEMMA Computable ==
    ASSUME NEW s, NEW S, NEW n \in Nat
    PROVE  \E k : k = [i \in 0..n |-> k[i]] /\ Computes(k, s, S, n)
<1>. DEFINE T == {i \in 0..n : \E k : k = [j \in 0..i |-> k[j]] /\ Computes(k, s, S, i)}
<1>1. 0 \in T
  <2>. DEFINE k == [j \in 0..0 |-> <<>>]
  <2>1. k = [j \in 0..0 |-> k[j]] /\ Computes(k, s, S, 0)
    BY DEF Computes
  <2>. HIDE DEF k
  <2>. QED  BY <2>1
<1>2. ASSUME NEW i \in 0..n, i \in T, i + 1 <= n PROVE i + 1 \in T
  <2>1. PICK k : k = [j \in 0..i |-> k[j]] /\ Computes(k, s, S, i)
    BY <1>2
  <2>. DEFINE last == IF s[i + 1] \in S THEN Append(k[i], s[i + 1]) ELSE k[i]
              l == [j \in 0..(i + 1) |-> IF j = i + 1 THEN last ELSE k[j]]
  <2>2. l = [j \in 0..(i + 1) |-> l[j]]
    OBVIOUS
  <2>. HIDE DEF last
  <2>3. \A j \in 0..i : l[j] = k[j]
    OBVIOUS
  <2>4. l[i + 1] = last
    OBVIOUS
  <2>. HIDE DEF l
  <2>5. Computes(l, s, S, i + 1)
    <3>1. l[0] = <<>>
      BY <2>1, <2>3 DEF Computes
    <3>2. ASSUME NEW j \in 1..(i + 1)
          PROVE  l[j] = IF s[j] \in S THEN Append(l[j - 1], s[j]) ELSE l[j - 1]
      <4>1. CASE j = i + 1
        <5>1. l[i] = k[i] /\ j - 1 = i
          BY <2>3, <4>1
        <5>. QED  BY <2>4, <4>1, <5>1 DEF last
      <4>2. CASE j # i + 1
        <5>1. j \in 1..i /\ j \in 0..i /\ j - 1 \in 0..i
          BY <4>2
        <5>2. l[j] = k[j] /\ l[j - 1] = k[j - 1]
          BY <2>3, <5>1
        <5>. QED  BY <2>1, <5>1, <5>2 DEF Computes
      <4>. QED  BY <4>1, <4>2
    <3>. QED  BY <3>1, <3>2 DEF Computes
  <2>. QED  BY <1>2, <2>2, <2>5
<1>. HIDE DEF T
<1>3. 0..n \subseteq T
  BY <1>1, <1>2, UpTo
<1>4. n \in T
  BY <1>3
<1>. QED  BY <1>4 DEF T

LEMMA KeptComputed ==
    ASSUME NEW D, NEW s \in Seq(D), NEW S
    PROVE  \E k : Computes(k, s, S, Len(s)) /\ Kept(s, S) = k[Len(s)]
<1>. DEFINE Def(k) == [i \in 0..Len(s) |->
                          IF i = 0 THEN <<>>
                          ELSE IF s[i] \in S THEN Append(k[i - 1], s[i]) ELSE k[i - 1]]
            chosen == CHOOSE k : k = Def(k)
<1>0. Len(s) \in Nat
  BY LenProperties
<1>1. PICK k : k = [i \in 0..Len(s) |-> k[i]] /\ Computes(k, s, S, Len(s))
  BY <1>0, Computable
<1>2. k = Def(k)
  <2>1. ASSUME NEW i \in 0..Len(s)
        PROVE  k[i] = IF i = 0 THEN <<>>
                      ELSE IF s[i] \in S THEN Append(k[i - 1], s[i]) ELSE k[i - 1]
    <3>1. i = 0 \/ i \in 1..Len(s)
      BY <1>0
    <3>. QED  BY <1>1, <3>1 DEF Computes
  <2>. QED  BY <1>1, <2>1
<1>3. chosen = Def(chosen)
  BY <1>2
<1>4. Kept(s, S) = chosen[Len(s)]
  BY DEF Kept
<1>. HIDE DEF chosen
<1>5. Computes(chosen, s, S, Len(s))
  <2>1. chosen[0] = <<>>
    BY <1>0, <1>3
  <2>2. ASSUME NEW i \in 1..Len(s)
        PROVE  chosen[i] = IF s[i] \in S THEN Append(chosen[i - 1], s[i]) ELSE chosen[i - 1]
    <3>1. i \in 0..Len(s) /\ i # 0
      BY <1>0
    <3>. QED  BY <1>3, <3>1
  <2>. QED  BY <2>1, <2>2 DEF Computes
<1>. QED  BY <1>4, <1>5

-----------------------------------------------------------------------------
(* What is kept.                                                           *)

\* What is kept are the elements in S, in their order: position j of what is
\* kept is position p[j] of the sequence.
Embeds(p, r, s, S) ==
    /\ p \in [DOMAIN r -> DOMAIN s]
    /\ \A j \in DOMAIN r : r[j] = s[p[j]] /\ r[j] \in S
    /\ \A i, j \in DOMAIN r : i < j => p[i] < p[j]
    /\ \A m \in DOMAIN s : s[m] \in S => \E j \in DOMAIN r : p[j] = m

LEMMA KeptPlaces ==
    ASSUME NEW D, NEW s \in Seq(D), NEW S
    PROVE  /\ Kept(s, S) \in Seq(D)
           /\ Len(Kept(s, S)) <= Len(s)
           /\ \E p : Embeds(p, Kept(s, S), s, S)
<1>0. Len(s) \in Nat /\ DOMAIN s = 1..Len(s) /\ \A m \in DOMAIN s : s[m] \in D
  BY LenProperties, ElementOfSeq
<1>1. PICK k : Computes(k, s, S, Len(s)) /\ Kept(s, S) = k[Len(s)]
  BY KeptComputed
<1>. DEFINE Part(p, r, i) ==
              /\ p \in [1..Len(r) -> 1..i]
              /\ \A j \in 1..Len(r) : r[j] = s[p[j]] /\ r[j] \in S
              /\ \A a, b \in 1..Len(r) : a < b => p[a] < p[b]
              /\ \A m \in 1..i : s[m] \in S => \E j \in 1..Len(r) : p[j] = m
            T == {i \in 0..Len(s) :
                    k[i] \in Seq(D) /\ Len(k[i]) <= i /\ \E p : Part(p, k[i], i)}
<1>2. 0 \in T
  <2>1. k[0] \in Seq(D) /\ Len(k[0]) = 0
    BY <1>1, EmptySeq DEF Computes
  <2>. DEFINE p == [j \in 1..Len(k[0]) |-> 1]
  <2>2. Part(p, k[0], 0)
    BY <2>1
  <2>. HIDE DEF p
  <2>. QED  BY <1>0, <2>1, <2>2
<1>3. ASSUME NEW i \in 0..Len(s), i \in T, i + 1 <= Len(s) PROVE i + 1 \in T
  <2>1. i + 1 \in 1..Len(s) /\ i + 1 \in 0..Len(s) /\ (i + 1) - 1 = i
    BY <1>0, <1>3
  <2>. DEFINE r == k[i]
              x == s[i + 1]
              t == k[i + 1]
  <2>2. /\ r \in Seq(D) /\ Len(r) <= i /\ Len(r) \in Nat
        /\ x \in D /\ t = IF x \in S THEN Append(r, x) ELSE r
    BY <1>0, <1>1, <1>3, <2>1, LenProperties DEF Computes
  <2>3. PICK p : Part(p, r, i)
    BY <1>3
  <2>. HIDE DEF r, x, t
  <2>4. CASE x \notin S
    <3>1. t = r
      BY <2>2, <2>4
    <3>2. p \in [1..Len(r) -> 1..(i + 1)]
      BY <2>2, <2>3
    <3>3. ASSUME NEW m \in 1..(i + 1), s[m] \in S PROVE \E j \in 1..Len(r) : p[j] = m
      <4>1. m # i + 1
        BY <2>4, <3>3 DEF x
      <4>2. m \in 1..i
        BY <4>1
      <4>. QED  BY <2>3, <3>3, <4>2
    <3>4. Part(p, r, i + 1)
      BY <2>3, <3>2, <3>3
    <3>5. t \in Seq(D) /\ Len(t) <= i + 1 /\ Part(p, t, i + 1)
      BY <2>2, <3>1, <3>4
    <3>. QED  BY <2>1, <3>5 DEF t
  <2>5. CASE x \in S
    <3>1. /\ t \in Seq(D) /\ Len(t) = Len(r) + 1
          /\ \A j \in 1..Len(r) : t[j] = r[j]
          /\ t[Len(r) + 1] = x
      BY <2>2, <2>5, AppendProperties
    <3>. DEFINE q == [j \in 1..Len(t) |-> IF j = Len(r) + 1 THEN i + 1 ELSE p[j]]
    <3>2. \A j \in 1..Len(t) : j = Len(r) + 1 \/ j \in 1..Len(r)
      BY <2>2, <3>1
    <3>3. /\ \A j \in 1..Len(r) : q[j] = p[j] /\ j \in 1..Len(t)
          /\ q[Len(r) + 1] = i + 1 /\ Len(r) + 1 \in 1..Len(t)
      BY <2>2, <3>1
    <3>4. q \in [1..Len(t) -> 1..(i + 1)]
      BY <2>2, <2>3, <3>2
    <3>. HIDE DEF q
    <3>5. \A j \in 1..Len(t) : t[j] = s[q[j]] /\ t[j] \in S
      BY <2>2, <2>3, <2>5, <3>1, <3>2, <3>3 DEF x
    <3>6. ASSUME NEW a \in 1..Len(t), NEW b \in 1..Len(t), a < b PROVE q[a] < q[b]
      <4>1. a \in 1..Len(r)
        BY <2>2, <3>1, <3>6
      <4>2. q[a] = p[a] /\ p[a] \in 1..i
        BY <2>3, <3>3, <4>1
      <4>3. CASE b = Len(r) + 1
        BY <3>3, <4>2, <4>3
      <4>4. CASE b \in 1..Len(r)
        BY <2>3, <3>3, <3>6, <4>1, <4>2, <4>4
      <4>. QED  BY <3>2, <4>3, <4>4
    <3>7. ASSUME NEW m \in 1..(i + 1), s[m] \in S PROVE \E j \in 1..Len(t) : q[j] = m
      <4>1. CASE m = i + 1
        BY <3>3, <4>1
      <4>2. CASE m \in 1..i
        BY <2>3, <3>3, <3>7, <4>2
      <4>. QED  BY <4>1, <4>2
    <3>8. Part(q, t, i + 1)
      BY <3>4, <3>5, <3>6, <3>7
    <3>9. Len(t) <= i + 1
      BY <2>2, <3>1
    <3>. QED  BY <2>1, <3>1, <3>8, <3>9 DEF t
  <2>. QED  BY <2>4, <2>5
<1>. HIDE DEF T
<1>4. Len(s) \in T
  <2>1. Len(s) \in Nat
    BY <1>0
  <2>2. 0..Len(s) \subseteq T
    BY <1>2, <1>3, <2>1, UpTo
  <2>. QED  BY <2>1, <2>2
<1>. USE DEF T
<1>5. PICK p : Part(p, k[Len(s)], Len(s))
  BY <1>4
<1>6. k[Len(s)] \in Seq(D) /\ Len(k[Len(s)]) <= Len(s)
  BY <1>4
<1>7. Embeds(p, k[Len(s)], s, S)
  <2>1. DOMAIN k[Len(s)] = 1..Len(k[Len(s)])
    BY <1>6, LenProperties
  <2>. QED  BY <1>0, <1>5, <2>1 DEF Embeds
<1>. QED  BY <1>1, <1>6, <1>7

\* What is kept of a sequence of different elements are different elements.
LEMMA KeptElements ==
    ASSUME NEW D, NEW s \in Seq(D), NEW S
    PROVE  /\ Kept(s, S) \in Seq(D) /\ Len(Kept(s, S)) <= Len(s)
           /\ ToSet(Kept(s, S)) = ToSet(s) \cap S
           /\ IsInjective(s) => IsInjective(Kept(s, S))
<1>. DEFINE r == Kept(s, S)
<1>1. r \in Seq(D) /\ Len(r) <= Len(s)
  BY KeptPlaces
<1>2. PICK p : Embeds(p, r, s, S)
  BY KeptPlaces
<1>. HIDE DEF r
<1>3. ToSet(r) = ToSet(s) \cap S
  BY <1>2 DEF Embeds, ToSet
<1>4. ASSUME IsInjective(s) PROVE IsInjective(r)
  <2>. SUFFICES ASSUME NEW a \in DOMAIN r, NEW b \in DOMAIN r, r[a] = r[b] PROVE a = b
    BY DEF IsInjective
  <2>1. p[a] = p[b]
    BY <1>2, <1>4 DEF Embeds, IsInjective
  <2>2. a \in Nat /\ b \in Nat /\ p[a] \in Nat
    <3>1. DOMAIN r = 1..Len(r) /\ Len(r) \in Nat /\ DOMAIN s = 1..Len(s) /\ Len(s) \in Nat
      BY <1>1, LenProperties
    <3>. QED  BY <1>2, <3>1 DEF Embeds
  <2>3. ~(a < b) /\ ~(b < a)
    BY <1>2, <2>1, <2>2 DEF Embeds
  <2>. QED  BY <2>2, <2>3
<1>. QED  BY <1>1, <1>3, <1>4 DEF r

LEMMA KeptNone ==
    ASSUME NEW D, NEW s \in Seq(D), NEW S, ToSet(s) \cap S = {}
    PROVE  Kept(s, S) = <<>>
<1>1. Kept(s, S) \in Seq(D) /\ ToSet(Kept(s, S)) = {}
  BY KeptElements
<1>2. DOMAIN Kept(s, S) = {}
  BY <1>1 DEF ToSet
<1>. QED  BY <1>1, <1>2, LenProperties, EmptySeq

LEMMA KeptAll ==
    ASSUME NEW D, NEW s \in Seq(D), NEW S, ToSet(s) \subseteq S
    PROVE  Kept(s, S) = s
<1>0. Len(s) \in Nat /\ DOMAIN s = 1..Len(s) /\ \A m \in 1..Len(s) : s[m] \in D /\ s[m] \in S
  BY LenProperties, ElementOfSeq DEF ToSet
<1>1. PICK k : Computes(k, s, S, Len(s)) /\ Kept(s, S) = k[Len(s)]
  BY KeptComputed
<1>. DEFINE T == {i \in 0..Len(s) :
                    k[i] \in Seq(D) /\ Len(k[i]) = i /\ \A j \in 1..i : k[i][j] = s[j]}
<1>2. 0 \in T
  <2>1. k[0] = <<>> /\ <<>> \in Seq(D) /\ Len(<<>>) = 0
    BY <1>1, EmptySeq DEF Computes
  <2>2. k[0] \in Seq(D) /\ Len(k[0]) = 0 /\ 0 \in 0..Len(s)
    BY <1>0, <2>1
  <2>3. \A j \in 1..0 : k[0][j] = s[j]
    OBVIOUS
  <2>. QED  BY <2>2, <2>3
<1>3. ASSUME NEW i \in 0..Len(s), i \in T, i + 1 <= Len(s) PROVE i + 1 \in T
  <2>1. i + 1 \in 1..Len(s) /\ i + 1 \in 0..Len(s) /\ (i + 1) - 1 = i
    BY <1>0, <1>3
  <2>2. k[i + 1] = Append(k[i], s[i + 1]) /\ s[i + 1] \in D
    BY <1>0, <1>1, <2>1 DEF Computes
  <2>3. /\ k[i + 1] \in Seq(D) /\ Len(k[i + 1]) = i + 1
        /\ \A j \in 1..i : k[i + 1][j] = k[i][j]
        /\ k[i + 1][i + 1] = s[i + 1]
    BY <1>3, <2>2, AppendProperties
  <2>4. \A j \in 1..(i + 1) : k[i + 1][j] = s[j]
    BY <1>3, <2>3
  <2>. QED  BY <2>1, <2>3, <2>4
<1>. HIDE DEF T
<1>4. Len(s) \in T
  <2>1. Len(s) \in Nat
    BY <1>0
  <2>2. 0..Len(s) \subseteq T
    BY <1>2, <1>3, <2>1, UpTo
  <2>. QED  BY <2>1, <2>2
<1>. USE DEF T
<1>5. /\ k[Len(s)] \in Seq(D) /\ Len(k[Len(s)]) = Len(s)
      /\ \A j \in 1..Len(s) : k[Len(s)][j] = s[j]
  BY <1>4
<1>. QED  BY <1>1, <1>5, SeqEqual

\* One element more is kept, or not.
LEMMA KeptAppend ==
    ASSUME NEW D, NEW s \in Seq(D), NEW x \in D, NEW S
    PROVE  Kept(Append(s, x), S) = IF x \in S THEN Append(Kept(s, S), x) ELSE Kept(s, S)
<1>. DEFINE t == Append(s, x)
            n == Len(s)
<1>0. /\ n \in Nat /\ t \in Seq(D) /\ Len(t) = n + 1
      /\ \A j \in 1..n : t[j] = s[j]
      /\ t[n + 1] = x
  BY AppendProperties, LenProperties
<1>1. PICK k : Computes(k, s, S, n) /\ Kept(s, S) = k[n]
  BY KeptComputed
<1>2. PICK l : Computes(l, t, S, Len(t)) /\ Kept(t, S) = l[Len(t)]
  BY <1>0, KeptComputed
<1>. HIDE DEF t, n
<1>. DEFINE T == {i \in 0..n : l[i] = k[i]}
<1>3. 0 \in T
  BY <1>0, <1>1, <1>2 DEF Computes
<1>4. ASSUME NEW i \in 0..n, i \in T, i + 1 <= n PROVE i + 1 \in T
  <2>1. i + 1 \in 1..n /\ i + 1 \in 1..Len(t) /\ (i + 1) - 1 = i
    BY <1>0, <1>4
  <2>. QED  BY <1>0, <1>1, <1>2, <1>4, <2>1 DEF Computes
<1>. HIDE DEF T
<1>5. n \in T
  <2>1. n \in Nat
    BY <1>0
  <2>2. 0..n \subseteq T
    BY <1>3, <1>4, <2>1, UpTo
  <2>. QED  BY <2>1, <2>2
<1>6. l[n] = k[n]
  BY <1>5 DEF T
<1>7. l[n + 1] = IF x \in S THEN Append(l[n], x) ELSE l[n]
  <2>1. n + 1 \in 1..Len(t) /\ (n + 1) - 1 = n
    BY <1>0
  <2>. QED  BY <1>0, <1>2, <2>1 DEF Computes
<1>. QED  BY <1>0, <1>1, <1>2, <1>6, <1>7 DEF t

-----------------------------------------------------------------------------
(* One element more.                                                       *)

LEMMA AppendElements ==
    ASSUME NEW D, NEW s \in Seq(D), NEW x \in D
    PROVE  /\ Append(s, x) \in Seq(D) /\ Len(Append(s, x)) = Len(s) + 1
           /\ ToSet(Append(s, x)) = ToSet(s) \cup {x}
           /\ IsInjective(s) /\ x \notin ToSet(s) => IsInjective(Append(s, x))
<1>. DEFINE t == Append(s, x)
<1>1. /\ t \in Seq(D) /\ Len(t) = Len(s) + 1 /\ Len(s) \in Nat
      /\ \A j \in 1..Len(s) : t[j] = s[j]
      /\ t[Len(s) + 1] = x
  BY AppendProperties, LenProperties
<1>. HIDE DEF t
<1>2. DOMAIN s = 1..Len(s) /\ DOMAIN t = 1..(Len(s) + 1)
  BY <1>1, LenProperties
<1>3. \A j \in 1..(Len(s) + 1) : j \in 1..Len(s) \/ j = Len(s) + 1
  BY <1>1
<1>4. ToSet(t) = ToSet(s) \cup {x}
  <2>1. ToSet(t) \subseteq ToSet(s) \cup {x}
    BY <1>1, <1>2, <1>3 DEF ToSet
  <2>2. ToSet(s) \subseteq ToSet(t)
    BY <1>1, <1>2 DEF ToSet
  <2>3. x \in ToSet(t)
    BY <1>1, <1>2 DEF ToSet
  <2>. QED  BY <2>1, <2>2, <2>3
<1>5. ASSUME IsInjective(s), x \notin ToSet(s), NEW a \in DOMAIN t, NEW b \in DOMAIN t, t[a] = t[b]
      PROVE  a = b
  <2>1. \A j \in 1..Len(s) : t[j] \in ToSet(s)
    BY <1>1, <1>2 DEF ToSet
  <2>2. CASE a \in 1..Len(s) /\ b \in 1..Len(s)
    BY <1>1, <1>2, <1>5, <2>2 DEF IsInjective
  <2>3. CASE a = Len(s) + 1 \/ b = Len(s) + 1
    BY <1>1, <1>2, <1>3, <1>5, <2>1, <2>3
  <2>. QED  BY <1>2, <1>3, <2>2, <2>3
<1>. QED  BY <1>1, <1>4, <1>5 DEF t, IsInjective

\* A sequence that ends with e, which it does not hold before.
LEMMA KeptLast ==
    ASSUME NEW D, NEW s \in Seq(D), NEW e, Len(s) > 0, s[Len(s)] = e,
           \A i \in 1..(Len(s) - 1) : s[i] # e
    PROVE  /\ Kept(s, {e}) = <<e>>
           /\ \A S : e \notin S /\ (\A i \in 1..(Len(s) - 1) : s[i] \in S) =>
                 /\ Len(Kept(s, S)) = Len(s) - 1
                 /\ \A i \in 1..(Len(s) - 1) : Kept(s, S)[i] = s[i]
                 /\ Kept(s, S) \in Seq(D)
<1>1. s # <<>>
  BY EmptySeq
<1>2. PICK t \in Seq(D), x \in D : s = Append(t, x)
  BY <1>1, SequenceEmptyOrAppend
<1>3. /\ Len(t) \in Nat /\ DOMAIN t = 1..Len(t) /\ Len(s) = Len(t) + 1 /\ x = e
      /\ \A i \in 1..Len(t) : s[i] = t[i]
  BY <1>2, AppendProperties, LenProperties
<1>4. Len(s) - 1 = Len(t)
  BY <1>3
<1>5. Kept(s, {e}) = <<e>>
  <2>1. ToSet(t) \cap {e} = {}
    BY <1>3, <1>4 DEF ToSet
  <2>2. Kept(t, {e}) = <<>>
    BY <2>1, KeptNone
  <2>3. Kept(Append(t, x), {e}) = IF x \in {e} THEN Append(Kept(t, {e}), x) ELSE Kept(t, {e})
    BY KeptAppend
  <2>. QED  BY <1>2, <1>3, <2>2, <2>3
<1>6. ASSUME NEW S, e \notin S, \A i \in 1..(Len(s) - 1) : s[i] \in S
      PROVE  Kept(s, S) = t
  <2>1. ToSet(t) \subseteq S
    BY <1>3, <1>4, <1>6 DEF ToSet
  <2>2. Kept(t, S) = t
    BY <2>1, KeptAll
  <2>3. Kept(Append(t, x), S) = IF x \in S THEN Append(Kept(t, S), x) ELSE Kept(t, S)
    BY KeptAppend
  <2>. QED  BY <1>2, <1>3, <1>6, <2>2, <2>3
<1>7. \A S : e \notin S /\ (\A i \in 1..(Len(s) - 1) : s[i] \in S) =>
                 /\ Len(Kept(s, S)) = Len(s) - 1
                 /\ \A i \in 1..(Len(s) - 1) : Kept(s, S)[i] = s[i]
                 /\ Kept(s, S) \in Seq(D)
  BY <1>3, <1>4, <1>6
<1>. QED  BY <1>5, <1>7

-----------------------------------------------------------------------------
(* Concatenations and prefixes.                                            *)

LEMMA ConcatAppend ==
    ASSUME NEW D, NEW s \in Seq(D), NEW p \in Seq(D), NEW x \in D
    PROVE  s \o Append(p, x) = Append(s \o p, x)
<1>1. PICK a : a = Append(p, x)
  OBVIOUS
<1>2. PICK b : b = s \o p
  OBVIOUS
<1>3. /\ a \in Seq(D) /\ Len(a) = Len(p) + 1 /\ a[Len(p) + 1] = x
      /\ \A i \in 1..Len(p) : a[i] = p[i]
  BY <1>1, AppendProperties
<1>4. /\ b \in Seq(D) /\ Len(b) = Len(s) + Len(p)
      /\ \A i \in 1..(Len(s) + Len(p)) : b[i] = IF i <= Len(s) THEN s[i] ELSE p[i - Len(s)]
  BY <1>2, ConcatProperties
<1>5. PICK l : l = s \o a
  OBVIOUS
<1>6. PICK r : r = Append(b, x)
  OBVIOUS
<1>7. Len(s) \in Nat /\ Len(p) \in Nat
  BY LenProperties
<1>8. /\ l \in Seq(D) /\ Len(l) = Len(s) + Len(p) + 1
      /\ \A i \in 1..(Len(s) + Len(p) + 1) : l[i] = IF i <= Len(s) THEN s[i] ELSE a[i - Len(s)]
  <2>0. a \in Seq(D)
    BY <1>3
  <2>1. /\ l \in Seq(D) /\ Len(l) = Len(s) + Len(a)
        /\ \A i \in 1..(Len(s) + Len(a)) : l[i] = IF i <= Len(s) THEN s[i] ELSE a[i - Len(s)]
    BY <2>0, <1>5, ConcatProperties
  <2>2. Len(s) + Len(a) = Len(s) + Len(p) + 1
    BY <1>3, <1>7
  <2>. QED  BY <2>1, <2>2
<1>9. /\ r \in Seq(D) /\ Len(r) = Len(s) + Len(p) + 1 /\ r[Len(s) + Len(p) + 1] = x
      /\ \A i \in 1..(Len(s) + Len(p)) : r[i] = b[i]
  BY <1>4, <1>6, AppendProperties
<1>10. ASSUME NEW i \in 1..(Len(s) + Len(p) + 1) PROVE l[i] = r[i]
  <2>1. CASE i <= Len(s)
    <3>1. i \in 1..(Len(s) + Len(p))
      BY <1>7, <2>1
    <3>. QED  BY <2>1, <3>1, <1>4, <1>8, <1>9
  <2>2. CASE i > Len(s) /\ i <= Len(s) + Len(p)
    <3>1. i \in 1..(Len(s) + Len(p)) /\ i - Len(s) \in 1..Len(p) /\ ~(i <= Len(s))
      BY <1>7, <2>2
    <3>2. l[i] = a[i - Len(s)] /\ r[i] = b[i] /\ b[i] = p[i - Len(s)]
      BY <3>1, <1>4, <1>8, <1>9
    <3>. QED  BY <3>1, <3>2, <1>3
  <2>3. CASE i = Len(s) + Len(p) + 1
    <3>1. ~(i <= Len(s)) /\ i - Len(s) = Len(p) + 1
      BY <1>7, <2>3
    <3>2. l[i] = a[i - Len(s)]
      BY <3>1, <1>8
    <3>. QED  BY <3>1, <3>2, <2>3, <1>3, <1>9
  <2>. QED  BY <2>1, <2>2, <2>3, <1>7
<1>11. l = r
  BY <1>8, <1>9, <1>10, SeqEqual
<1>. QED  BY <1>1, <1>2, <1>5, <1>6, <1>11

\* What is kept of two sequences is what is kept of the one and of the other.
LEMMA KeptConcat ==
    ASSUME NEW D, NEW s \in Seq(D), NEW r \in Seq(D), NEW S
    PROVE  Kept(s \o r, S) = Kept(s, S) \o Kept(r, S)
<1>. DEFINE p(i) == SubSeq(r, 1, i)
            T == {i \in 0..Len(r) : Kept(s \o p(i), S) = Kept(s, S) \o Kept(p(i), S)}
<1>0. Len(r) \in Nat /\ \A i \in 1..Len(r) : r[i] \in D
  BY LenProperties, ElementOfSeq
<1>1. ASSUME NEW i \in 0..Len(r)
      PROVE  p(i) \in Seq(D) /\ Len(p(i)) = i /\ \A k \in 1..i : p(i)[k] = r[k]
  <2>1. \A k \in 1..i : r[k] \in D
    BY <1>0
  <2>2. /\ p(i) \in Seq(D) /\ Len(p(i)) = IF 1 <= i THEN i - 1 + 1 ELSE 0
        /\ \A k \in 1..(i - 1 + 1) : p(i)[k] = r[1 + k - 1]
    BY <2>1, SubSeqProperties
  <2>. QED  BY <2>2
<1>2. p(0) = <<>> /\ p(Len(r)) = r
  <2>1. p(0) = <<>>
    BY SubSeqEmpty
  <2>. QED  BY <2>1, SubSeqFull
<1>3. 0 \in T
  <2>1. Kept(<<>>, S) = <<>>
    <3>1. <<>> \in Seq(D) /\ ToSet(<<>>) \cap S = {}
      BY EmptySeq DEF ToSet
    <3>. QED  BY <3>1, KeptNone
  <2>2. s \o <<>> = s /\ Kept(s, S) \o <<>> = Kept(s, S)
    BY KeptPlaces, ConcatEmptySeq
  <2>3. Kept(s \o p(0), S) = Kept(s, S) \o Kept(p(0), S)
    BY <1>2, <2>1, <2>2
  <2>. QED  BY <1>0, <2>3
<1>4. ASSUME NEW i \in 0..Len(r), i \in T, i + 1 <= Len(r) PROVE i + 1 \in T
  <2>1. PICK x \in D : x = r[i + 1]
    BY <1>0, <1>4
  <2>2. PICK q : q = p(i)
    OBVIOUS
  <2>3. q \in Seq(D) /\ Len(q) = i /\ \A k \in 1..i : q[k] = r[k]
    BY <1>1, <2>2
  <2>4. i + 1 \in 0..Len(r)
    BY <1>0, <1>4
  <2>5. p(i + 1) = Append(q, x)
    <3>1. PICK a : a = Append(q, x)
      OBVIOUS
    <3>2. PICK b : b = p(i + 1)
      OBVIOUS
    <3>3. /\ a \in Seq(D) /\ Len(a) = i + 1 /\ a[i + 1] = x
          /\ \A k \in 1..i : a[k] = q[k]
      BY <2>3, <3>1, AppendProperties
    <3>4. b \in Seq(D) /\ Len(b) = i + 1 /\ \A k \in 1..(i + 1) : b[k] = r[k]
      BY <1>1, <2>4, <3>2
    <3>5. \A k \in 1..(i + 1) : a[k] = b[k]
      BY <2>1, <2>3, <3>3, <3>4
    <3>. QED  BY <3>1, <3>2, <3>3, <3>4, <3>5, SeqEqual
  <2>6. Kept(s \o q, S) = Kept(s, S) \o Kept(q, S)
    <3>1. Kept(s \o p(i), S) = Kept(s, S) \o Kept(p(i), S)
      BY <1>4
    <3>. QED  BY <3>1, <2>2
  <2>7. s \o p(i + 1) = Append(s \o q, x)
    <3>1. s \o Append(q, x) = Append(s \o q, x)
      BY <2>3, ConcatAppend
    <3>. QED  BY <3>1, <2>5
  <2>8. s \o q \in Seq(D)
    BY <2>3, ConcatProperties
  <2>9. /\ Kept(Append(s \o q, x), S) = IF x \in S THEN Append(Kept(s \o q, S), x) ELSE Kept(s \o q, S)
        /\ Kept(Append(q, x), S) = IF x \in S THEN Append(Kept(q, S), x) ELSE Kept(q, S)
    BY <2>3, <2>8, KeptAppend
  <2>10. Kept(s, S) \o Append(Kept(q, S), x) = Append(Kept(s, S) \o Kept(q, S), x)
    BY <2>3, KeptPlaces, ConcatAppend
  <2>11. Kept(s \o p(i + 1), S) = Kept(s, S) \o Kept(p(i + 1), S)
    BY <2>5, <2>6, <2>7, <2>9, <2>10
  <2>. QED  BY <2>4, <2>11
<1>. HIDE DEF p, T
<1>5. Len(r) \in T
  <2>1. 0..Len(r) \subseteq T
    BY <1>0, <1>3, <1>4, UpTo
  <2>. QED  BY <1>0, <2>1
<1>. QED  BY <1>2, <1>5 DEF T

LEMMA ConcatElements ==
    ASSUME NEW D, NEW s \in Seq(D), NEW r \in Seq(D)
    PROVE  ToSet(s \o r) = ToSet(s) \cup ToSet(r)
<1>1. PICK c : c = s \o r
  OBVIOUS
<1>2. /\ c \in Seq(D) /\ Len(c) = Len(s) + Len(r)
      /\ \A i \in 1..(Len(s) + Len(r)) : c[i] = IF i <= Len(s) THEN s[i] ELSE r[i - Len(s)]
  BY <1>1, ConcatProperties
<1>3. /\ Len(s) \in Nat /\ Len(r) \in Nat /\ DOMAIN s = 1..Len(s) /\ DOMAIN r = 1..Len(r)
      /\ DOMAIN c = 1..(Len(s) + Len(r))
  BY <1>2, LenProperties
<1>4. ASSUME NEW i \in DOMAIN c PROVE c[i] \in ToSet(s) \cup ToSet(r)
  <2>1. CASE i <= Len(s)
    BY <1>2, <1>3, <2>1 DEF ToSet
  <2>2. CASE ~(i <= Len(s))
    <3>1. i - Len(s) \in 1..Len(r)
      BY <1>3, <2>2
    <3>. QED  BY <1>2, <1>3, <2>2, <3>1 DEF ToSet
  <2>. QED  BY <2>1, <2>2
<1>5. ASSUME NEW i \in DOMAIN s PROVE s[i] \in ToSet(c)
  <2>1. i \in DOMAIN c /\ i <= Len(s)
    BY <1>3
  <2>2. c[i] = s[i]
    BY <1>2, <1>3, <2>1
  <2>. QED  BY <2>1, <2>2 DEF ToSet
<1>6. ASSUME NEW i \in DOMAIN r PROVE r[i] \in ToSet(c)
  <2>1. PICK k : k = i + Len(s)
    OBVIOUS
  <2>2. k \in DOMAIN c /\ ~(k <= Len(s)) /\ k - Len(s) = i
    BY <1>3, <2>1
  <2>3. c[k] = r[i]
    BY <1>2, <1>3, <2>2
  <2>. QED  BY <2>2, <2>3 DEF ToSet
<1>7. ToSet(c) = ToSet(s) \cup ToSet(r)
  <2>1. ToSet(c) \subseteq ToSet(s) \cup ToSet(r)
    BY <1>4 DEF ToSet
  <2>2. ToSet(s) \subseteq ToSet(c) /\ ToSet(r) \subseteq ToSet(c)
    BY <1>5, <1>6 DEF ToSet
  <2>. QED  BY <2>1, <2>2
<1>. QED  BY <1>1, <1>7

LEMMA PrefixIs ==
    ASSUME NEW D, NEW s \in Seq(D), NEW t \in Seq(D)
    PROVE  IsPrefix(s, t) <=> Len(s) <= Len(t) /\ \A i \in 1..Len(s) : s[i] = t[i]
<1>1. Len(s) \in Nat /\ Len(t) \in Nat
  BY LenProperties
<1>2. SubSeq(s, 1, Len(s)) = s
  BY SubSeqFull
<1>3. ASSUME Len(s) <= Len(t)
      PROVE  /\ SubSeq(t, 1, Len(s)) \in Seq(D) /\ Len(SubSeq(t, 1, Len(s))) = Len(s)
             /\ \A i \in 1..Len(s) : SubSeq(t, 1, Len(s))[i] = t[i]
  <2>1. \A i \in 1..Len(s) : t[i] \in D
    BY <1>1, <1>3, ElementOfSeq
  <2>2. PICK n : n = Len(s)
    OBVIOUS
  <2>3. /\ SubSeq(t, 1, n) \in Seq(D) /\ Len(SubSeq(t, 1, n)) = IF 1 <= n THEN n - 1 + 1 ELSE 0
        /\ \A i \in 1..(n - 1 + 1) : SubSeq(t, 1, n)[i] = t[1 + i - 1]
    BY <1>1, <2>1, <2>2, SubSeqProperties
  <2>. QED  BY <1>1, <2>2, <2>3
<1>4. PICK p : p = SubSeq(t, 1, Len(s))
  OBVIOUS
<1>5. ASSUME Len(s) <= Len(t), \A i \in 1..Len(s) : s[i] = t[i] PROVE s = p
  <2>1. p \in Seq(D) /\ Len(p) = Len(s) /\ \A i \in 1..Len(s) : s[i] = p[i]
    BY <1>3, <1>4, <1>5
  <2>. QED  BY <2>1, SeqEqual
<1>. QED  BY <1>2, <1>3, <1>4, <1>5 DEF IsPrefix

LEMMA PrefixFacts ==
    ASSUME NEW D, NEW s \in Seq(D), NEW t \in Seq(D)
    PROVE  /\ IsPrefix(s, s) /\ IsPrefix(<<>>, s)
           /\ \A r \in Seq(D) : IsPrefix(s, t) => IsPrefix(s, t \o r)
           /\ IsPrefix(s, t) /\ Len(s) < Len(t) => IsPrefix(Append(s, t[Len(s) + 1]), t)
           /\ IsPrefix(s, t) /\ ~(Len(s) < Len(t)) => s = t
<1>1. Len(s) \in Nat /\ Len(t) \in Nat
  BY LenProperties
<1>2. IsPrefix(s, s)
  BY <1>1, PrefixIs
<1>3. IsPrefix(<<>>, s)
  <2>1. PICK e : e = <<>>
    OBVIOUS
  <2>2. e \in Seq(D) /\ Len(e) = 0
    BY <2>1, EmptySeq
  <2>3. Len(e) <= Len(s) /\ \A i \in 1..Len(e) : e[i] = s[i]
    BY <1>1, <2>2
  <2>4. IsPrefix(e, s)
    BY <2>2, <2>3, PrefixIs
  <2>. QED  BY <2>1, <2>4
<1>4. ASSUME NEW r \in Seq(D), IsPrefix(s, t) PROVE IsPrefix(s, t \o r)
  <2>1. PICK c : c = t \o r
    OBVIOUS
  <2>2. /\ c \in Seq(D) /\ Len(c) = Len(t) + Len(r)
        /\ \A i \in 1..(Len(t) + Len(r)) : c[i] = IF i <= Len(t) THEN t[i] ELSE r[i - Len(t)]
    BY <2>1, ConcatProperties
  <2>3. Len(r) \in Nat /\ Len(s) <= Len(t) /\ \A i \in 1..Len(s) : s[i] = t[i]
    BY <1>4, PrefixIs, LenProperties
  <2>4. Len(s) <= Len(c) /\ \A i \in 1..Len(s) : s[i] = c[i]
    BY <1>1, <2>2, <2>3
  <2>. QED  BY <2>1, <2>2, <2>4, PrefixIs
<1>5. ASSUME IsPrefix(s, t), Len(s) < Len(t) PROVE IsPrefix(Append(s, t[Len(s) + 1]), t)
  <2>1. PICK x : x = t[Len(s) + 1]
    OBVIOUS
  <2>2. x \in D
    BY <1>1, <1>5, <2>1, ElementOfSeq
  <2>3. PICK a : a = Append(s, x)
    OBVIOUS
  <2>4. /\ a \in Seq(D) /\ Len(a) = Len(s) + 1 /\ a[Len(s) + 1] = x
        /\ \A i \in 1..Len(s) : a[i] = s[i]
    BY <2>2, <2>3, AppendProperties
  <2>5. \A i \in 1..Len(s) : s[i] = t[i]
    BY <1>5, PrefixIs
  <2>6. Len(a) <= Len(t) /\ \A i \in 1..Len(a) : a[i] = t[i]
    BY <1>1, <1>5, <2>1, <2>4, <2>5
  <2>. QED  BY <2>1, <2>3, <2>4, <2>6, PrefixIs
<1>6. ASSUME IsPrefix(s, t), ~(Len(s) < Len(t)) PROVE s = t
  <2>1. Len(s) <= Len(t) /\ \A i \in 1..Len(s) : s[i] = t[i]
    BY <1>6, PrefixIs
  <2>2. Len(s) = Len(t)
    BY <1>1, <1>6, <2>1
  <2>. QED  BY <2>1, <2>2, SeqEqual
<1>. QED  BY <1>2, <1>3, <1>4, <1>5, <1>6

=============================================================================
