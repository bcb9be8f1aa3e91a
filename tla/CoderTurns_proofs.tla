-------------------------- MODULE CoderTurns_proofs -------------------------
(***************************************************************************)
(* Theorems about CoderTurns, for every value of its constants.            *)
(***************************************************************************)
EXTENDS CoderTurns, SequenceTheorems, WellFoundedInduction, TLAPS

-----------------------------------------------------------------------------
(* What the operations on a write-lease return, for every lease.           *)

\* A non-empty set of naturals has a minimum.
LEMMA MinExists ==
    ASSUME NEW I \in SUBSET Nat, I # {}
    PROVE  /\ Min(I) \in I
           /\ \A j \in I : Min(I) <= j
<1>. DEFINE less == {ss \in Nat \X Nat : ss[1] < ss[2]}
<1>1. IsWellFoundedOn(less, Nat)
  BY NatLessThanWellFounded DEF OpToRel
<1>2. PICK x \in I : \A y \in I : ~ (<<y, x>> \in less)
  BY <1>1, WFMin
<1>3. ASSUME NEW y \in I PROVE x =< y
  <2>1. <<y, x>> \in Nat \X Nat /\ <<y, x>>[1] = y /\ <<y, x>>[2] = x
    OBVIOUS
  <2>2. ~ (y < x)
    BY <1>2, <2>1
  <2>. HIDE DEF less
  <2>. QED  BY <2>2
<1>. HIDE DEF less
<1>. QED  BY <1>3 DEF Min

LEMMA RemoveFirstType ==
    ASSUME NEW S, NEW s \in Seq(S), NEW e
    PROVE  RemoveFirst(s, e) \in Seq(S)
<1>. DEFINE I == {i \in 1..Len(s) : s[i] = e}
<1>1. CASE \E i \in 1..Len(s) : s[i] = e
  <2>1. I # {} /\ I \in SUBSET Nat
    BY <1>1
  <2>2. Min(I) \in 1..Len(s)
    BY <2>1, MinExists
  <2>3. RemoveFirst(s, e) = RemoveAt(s, Min(I))
    BY <1>1, <2>1 DEF RemoveFirst, SelectInSeq
  <2>. HIDE DEF I
  <2>. DEFINE k == Min(I)
  <2>4. k \in 1..Len(s) /\ Len(s) \in Nat /\ \A i \in 1..Len(s) : s[i] \in S
    BY <2>2, LenProperties, ElementOfSeq
  <2>. HIDE DEF k
  <2>5. SubSeq(s, 1, k - 1) \in Seq(S)
    BY <2>4, SubSeqProperties
  <2>6. SubSeq(s, k + 1, Len(s)) \in Seq(S)
    BY <2>4, SubSeqProperties
  <2>7. RemoveAt(s, k) \in Seq(S)
    BY <2>5, <2>6, ConcatProperties DEF RemoveAt
  <2>. QED  BY <2>3, <2>7 DEF k
<1>2. CASE ~ \E i \in 1..Len(s) : s[i] = e
  BY <1>2 DEF RemoveFirst
<1>. QED  BY <1>1, <1>2


LEMMA WithoutWaiterType ==
    ASSUME NEW l \in Leases, NEW h
    PROVE  /\ WithoutWaiter(l, h) \in Leases
           /\ WithoutWaiter(l, h).holder = l.holder
           /\ WithoutWaiter(l, h).expired = l.expired
BY RemoveFirstType DEF WithoutWaiter, Leases

\* A grant makes its beneficiary the holder of a fresh lease.
LEMMA GrantType ==
    ASSUME NEW l \in Leases, NEW h \in Holders
    PROVE  /\ Grant(l, h) \in Leases
           /\ Grant(l, h).holder = h
           /\ ~Grant(l, h).expired
<1>. DEFINE w == WithoutWaiter(l, h)
<1>1. w \in Leases
  BY WithoutWaiterType
<1>. HIDE DEF w
<1>2. Grant(l, h) = [w EXCEPT !.holder = h, !.expired = FALSE]
  BY DEF Grant, w
<1>3. Grant(l, h) = [holder |-> h, expired |-> FALSE, waiters |-> w.waiters]
  BY <1>1, <1>2 DEF Leases
<1>. QED  BY <1>1, <1>3 DEF Leases

LEMMA AcquiredType ==
    ASSUME NEW l \in Leases, NEW h \in Holders
    PROVE  /\ Acquired(l, h) \in Leases
           /\ Acquired(l, h).holder = h
           /\ Acquired(l, h).expired => l.expired
BY GrantType DEF Acquired

\* A release takes the lease from the one who releases and from nobody else.
LEMMA ReleasedType ==
    ASSUME NEW l \in Leases, NEW h \in Holders
    PROVE  /\ Released(l, h) \in Leases
           /\ Released(l, h).holder = IF l.holder = h THEN Nobody ELSE l.holder
           /\ Released(l, h).waiters = l.waiters
           /\ Released(l, h).expired => l.expired
BY HoldersAssumption DEF Released, Leases, Holders

LEMMA WithWaiterType ==
    ASSUME NEW l \in Leases, NEW h \in Convs
    PROVE  /\ WithWaiter(l, h) \in Leases
           /\ WithWaiter(l, h).holder = l.holder
           /\ WithWaiter(l, h).expired = l.expired
BY AppendProperties DEF WithWaiter, Leases

-----------------------------------------------------------------------------
(* Holding and waiting exclude each other.                                 *)

\* The holder is not queued and nobody is queued twice.
WellQueued(l) ==
    /\ l.holder \notin ToSet(l.waiters)
    /\ IsInjective(l.waiters)

\* t keeps some of the elements of s, each as often as s has it or less.
Thins(t, s) == ToSet(t) \subseteq ToSet(s) /\ (IsInjective(s) => IsInjective(t))

\* What follows position k of a sequence.
LEMMA SuffixProperties ==
    ASSUME NEW S, NEW s \in Seq(S), NEW k \in 1..Len(s)
    PROVE  /\ SubSeq(s, k + 1, Len(s)) \in Seq(S)
           /\ Len(SubSeq(s, k + 1, Len(s))) = Len(s) - k
           /\ \A i \in 1..(Len(s) - k) : SubSeq(s, k + 1, Len(s))[i] = s[k + i]
<1>. DEFINE n == Len(s)
            m == k + 1
            t == SubSeq(s, m, n)
<1>1. n \in Nat /\ \A i \in 1..n : s[i] \in S
  BY LenProperties, ElementOfSeq
<1>2. k \in 1..n
  OBVIOUS
<1>. HIDE DEF n
<1>3. m \in Int /\ n \in Int /\ \A i \in m..n : s[i] \in S
  BY <1>1, <1>2
<1>. HIDE DEF m
<1>4. /\ t \in Seq(S)
      /\ Len(t) = IF m <= n THEN n - m + 1 ELSE 0
      /\ \A i \in 1..(n - m + 1) : t[i] = s[m + i - 1]
  BY <1>3, SubSeqProperties
<1>. HIDE DEF t
<1>5. Len(t) = n - k
  BY <1>1, <1>2, <1>4 DEF m
<1>6. ASSUME NEW i \in 1..(n - k) PROVE t[i] = s[k + i]
  <2>1. i \in 1..(n - m + 1) /\ m + i - 1 = k + i
    BY <1>1, <1>2 DEF m
  <2>. QED  BY <1>4, <2>1
<1>. QED  BY <1>4, <1>5, <1>6 DEF t, m, n

LEMMA RemoveFirstThins ==
    ASSUME NEW S, NEW s \in Seq(S), NEW e
    PROVE  /\ Thins(RemoveFirst(s, e), s)
           /\ IsInjective(s) => e \notin ToSet(RemoveFirst(s, e))
           /\ \A x \in ToSet(s) : x # e => x \in ToSet(RemoveFirst(s, e))
<1>. DEFINE I == {i \in 1..Len(s) : s[i] = e}
<1>0. Len(s) \in Nat /\ DOMAIN s = 1..Len(s) /\ s \in [1..Len(s) -> S]
  BY LenProperties
<1>1. CASE \E i \in 1..Len(s) : s[i] = e
  <2>1. I # {} /\ I \in SUBSET Nat
    BY <1>1
  <2>. DEFINE k == Min(I)
              t == RemoveAt(s, k)
              front == SubSeq(s, 1, k - 1)
              back == SubSeq(s, k + 1, Len(s))
  <2>2. k \in 1..Len(s) /\ s[k] = e
    BY <2>1, MinExists
  <2>3. RemoveFirst(s, e) = t
    BY <1>1, <2>1 DEF RemoveFirst, SelectInSeq
  <2>. HIDE DEF I, k
  <2>4. \A i \in 1..Len(s) : s[i] \in S
    BY <1>0
  <2>5. /\ front \in Seq(S) /\ Len(front) = k - 1
        /\ \A i \in 1..(k - 1) : front[i] = s[i]
    BY <1>0, <2>2, <2>4, SubSeqProperties
  <2>6. /\ back \in Seq(S) /\ Len(back) = Len(s) - k
        /\ \A i \in 1..(Len(s) - k) : back[i] = s[k + i]
    BY <2>2, SuffixProperties
  <2>7. t = front \o back
    BY DEF RemoveAt
  <2>. HIDE DEF front, back, t
  <2>. DEFINE n == Len(s)
  <2>a. n \in Nat /\ k \in 1..n
    BY <1>0, <2>2
  <2>b. /\ t \in Seq(S) /\ Len(t) = Len(front) + Len(back)
        /\ \A i \in 1..(Len(front) + Len(back)) : t[i] =
              IF i <= Len(front) THEN front[i] ELSE back[i - Len(front)]
    BY <2>5, <2>6, <2>7, ConcatProperties
  <2>c. Len(front) = k - 1 /\ Len(back) = n - k
    BY <2>5, <2>6
  <2>. HIDE DEF n
  <2>d. Len(t) = n - 1
    BY <2>a, <2>b, <2>c
  <2>e. ASSUME NEW i \in 1..(n - 1) PROVE t[i] = IF i < k THEN s[i] ELSE s[i + 1]
    <3>1. i \in 1..(Len(front) + Len(back))
      BY <2>a, <2>c
    <3>2. CASE i < k
      <4>1. i <= Len(front) /\ i \in 1..(k - 1)
        BY <2>a, <2>c, <3>2
      <4>. QED  BY <2>5, <2>b, <3>1, <3>2, <4>1
    <3>3. CASE ~(i < k)
      <4>. DEFINE j == i - Len(front)
      <4>1. ~(i <= Len(front)) /\ j \in 1..(n - k) /\ k + j = i + 1
        BY <2>a, <2>c, <3>3
      <4>2. t[i] = back[j]
        BY <2>b, <3>1, <4>1
      <4>. HIDE DEF j
      <4>3. back[j] = s[k + j]
        BY <2>6, <4>1 DEF n
      <4>. QED  BY <3>3, <4>1, <4>2, <4>3
    <3>. QED  BY <3>2, <3>3
  <2>8. /\ t \in Seq(S) /\ Len(t) = Len(s) - 1
        /\ \A i \in 1..(Len(s) - 1) : t[i] = IF i < k THEN s[i] ELSE s[i + 1]
    BY <2>b, <2>d, <2>e DEF n
  <2>9. DOMAIN t = 1..(Len(s) - 1)
    BY <2>8, LenProperties
  <2>10. ToSet(t) \subseteq ToSet(s)
    BY <1>0, <2>2, <2>8, <2>9 DEF ToSet
  <2>11. ASSUME IsInjective(s) PROVE IsInjective(t) /\ e \notin ToSet(t)
    <3>. DEFINE at(i) == IF i < k THEN i ELSE i + 1
    <3>0. \A i, j \in 1..Len(s) : s[i] = s[j] => i = j
      BY <1>0, <2>11 DEF IsInjective
    <3>1. \A i \in 1..(Len(s) - 1) : t[i] = s[at(i)]
      BY <2>8
    <3>2. \A i \in 1..(Len(s) - 1) : at(i) \in 1..Len(s) /\ at(i) # k
      BY <1>0, <2>2
    <3>3. \A i, j \in 1..(Len(s) - 1) : at(i) = at(j) => i = j
      BY <1>0, <2>2
    <3>. HIDE DEF at
    <3>4. IsInjective(t)
      BY <2>9, <3>0, <3>1, <3>2, <3>3 DEF IsInjective
    <3>5. e \notin ToSet(t)
      BY <2>2, <2>9, <3>0, <3>1, <3>2 DEF ToSet
    <3>. QED  BY <3>4, <3>5
  <2>12. ASSUME NEW x \in ToSet(s), x # e PROVE x \in ToSet(t)
    <3>1. PICK j \in 1..n : s[j] = x
      BY <1>0 DEF ToSet, n
    <3>2. j # k
      BY <2>2, <2>12, <3>1
    <3>. DEFINE i == IF j < k THEN j ELSE j - 1
    <3>3. i \in 1..(n - 1) /\ t[i] = s[j]
      BY <2>a, <2>e, <3>2
    <3>. HIDE DEF i
    <3>. QED  BY <2>9, <3>1, <3>3 DEF ToSet, n
  <2>. QED  BY <2>3, <2>10, <2>11, <2>12 DEF Thins
<1>2. CASE ~ \E i \in 1..Len(s) : s[i] = e
  <2>1. RemoveFirst(s, e) = s
    BY <1>2 DEF RemoveFirst
  <2>. QED  BY <1>0, <1>2, <2>1 DEF Thins, ToSet
<1>. QED  BY <1>1, <1>2

\* A suffix of a sequence thins it.
LEMMA SuffixThins ==
    ASSUME NEW S, NEW s \in Seq(S), NEW i \in 1..Len(s)
    PROVE  Thins(SubSeq(s, i + 1, Len(s)), s)
<1>. DEFINE t == SubSeq(s, i + 1, Len(s))
<1>1. Len(s) \in Nat /\ DOMAIN s = 1..Len(s)
  BY LenProperties
<1>2. /\ t \in Seq(S) /\ Len(t) = Len(s) - i
      /\ \A j \in 1..(Len(s) - i) : t[j] = s[i + j]
  BY SuffixProperties
<1>3. DOMAIN t = 1..(Len(s) - i)
  BY <1>1, <1>2, LenProperties
<1>. HIDE DEF t
<1>4. \A j \in 1..(Len(s) - i) : i + j \in 1..Len(s)
  BY <1>1
<1>5. ToSet(t) \subseteq ToSet(s)
  BY <1>1, <1>2, <1>3, <1>4 DEF ToSet
<1>6. ASSUME IsInjective(s) PROVE IsInjective(t)
  <2>1. SUFFICES ASSUME NEW j \in 1..(Len(s) - i), NEW m \in 1..(Len(s) - i),
                        t[j] = t[m]
                 PROVE  j = m
    BY <1>3 DEF IsInjective
  <2>2. i + j = i + m
    BY <1>1, <1>2, <1>4, <1>6, <2>1 DEF IsInjective
  <2>. QED  BY <1>1, <2>2
<1>. QED  BY <1>5, <1>6 DEF Thins, t

\* The empty sequence thins every sequence.
LEMMA EmptyThins ==
    ASSUME NEW S, NEW s \in Seq(S)
    PROVE  Thins(<< >>, s)
BY DEF Thins, ToSet, IsInjective

LEMMA WithoutWaiterQueue ==
    ASSUME NEW l \in Leases, NEW h, WellQueued(l)
    PROVE  /\ WellQueued(WithoutWaiter(l, h))
           /\ h \notin ToSet(WithoutWaiter(l, h).waiters)
<1>1. WithoutWaiter(l, h).waiters = RemoveFirst(l.waiters, h) /\ l.waiters \in Seq(Convs)
  BY DEF WithoutWaiter, Leases
<1>2. WithoutWaiter(l, h).holder = l.holder
  BY WithoutWaiterType
<1>. QED  BY <1>1, <1>2, RemoveFirstThins DEF WellQueued, Thins

\* A grant takes its beneficiary off the FIFO.
LEMMA GrantQueue ==
    ASSUME NEW l \in Leases, NEW h \in Holders, WellQueued(l)
    PROVE  WellQueued(Grant(l, h))
<1>1. /\ Grant(l, h).holder = h
      /\ Grant(l, h).waiters = WithoutWaiter(l, h).waiters
  BY GrantType, WithoutWaiterType DEF Grant, Leases
<1>. QED  BY <1>1, WithoutWaiterQueue DEF WellQueued

LEMMA AcquiredQueue ==
    ASSUME NEW l \in Leases, NEW h \in Holders, WellQueued(l)
    PROVE  WellQueued(Acquired(l, h))
BY GrantQueue DEF Acquired

LEMMA ReleasedQueue ==
    ASSUME NEW l \in Leases, NEW h \in Holders, WellQueued(l)
    PROVE  WellQueued(Released(l, h))
<1>1. Nobody \notin ToSet(l.waiters)
  BY HoldersAssumption, LenProperties, ElementOfSeq DEF Leases, ToSet
<1>. QED  BY <1>1, ReleasedType DEF WellQueued

\* Registering as a waiter twice is once; the holder does not register.
LEMMA WithWaiterQueue ==
    ASSUME NEW l \in Leases, NEW h \in Convs, WellQueued(l), l.holder # h
    PROVE  WellQueued(WithWaiter(l, h))
<1>1. CASE h \in ToSet(l.waiters)
  BY <1>1 DEF WithWaiter
<1>2. CASE h \notin ToSet(l.waiters)
  <2>. DEFINE s == l.waiters
              t == Append(s, h)
  <2>0. s \in Seq(Convs) /\ Len(s) \in Nat /\ DOMAIN s = 1..Len(s)
    BY LenProperties DEF Leases
  <2>1. WithWaiter(l, h).waiters = t /\ WithWaiter(l, h).holder = l.holder
    BY <1>2 DEF WithWaiter, Leases
  <2>2. /\ t \in Seq(Convs) /\ Len(t) = Len(s) + 1
        /\ \A i \in 1..Len(s) : t[i] = s[i]
        /\ t[Len(s) + 1] = h
    BY <2>0, AppendProperties
  <2>3. DOMAIN t = 1..(Len(s) + 1)
    BY <2>2, LenProperties
  <2>4. \A i \in 1..Len(s) : s[i] # h /\ s[i] # l.holder
    BY <1>2, <2>0 DEF WellQueued, ToSet
  <2>5. \A i, j \in 1..Len(s) : s[i] = s[j] => i = j
    BY <2>0 DEF WellQueued, IsInjective
  <2>. HIDE DEF s, t
  <2>6. IsInjective(t)
    BY <2>0, <2>2, <2>3, <2>4, <2>5 DEF IsInjective
  <2>7. l.holder \notin ToSet(t)
    BY <2>0, <2>2, <2>3, <2>4 DEF ToSet
  <2>. QED  BY <2>1, <2>6, <2>7 DEF WellQueued
<1>. QED  BY <1>1, <1>2

USE CoderTurnsAssumption, HoldersAssumption

-----------------------------------------------------------------------------
(* The hand-off: it takes waiters off the FIFO and starts tasks, but never *)
(* grants or frees the lease.                                              *)

LEMMA WakeType ==
    ASSUME NEW l \in Leases, registry \in [Convs -> Runners \cup {Nobody}]
    PROVE  /\ Wake(l).lease \in Leases
           /\ Wake(l).lease.holder = l.holder
           /\ Wake(l).lease.expired = l.expired
           /\ Wake(l).to \in Runners \cup {Nobody}
<1>. DEFINE live == {i \in DOMAIN l.waiters : registry[l.waiters[i]] # Nobody}
<1>0. l.waiters \in Seq(Convs) /\ DOMAIN l.waiters = 1..Len(l.waiters) /\ Len(l.waiters) \in Nat
  BY LenProperties DEF Leases
<1>1. CASE l.holder # Nobody
  BY <1>1 DEF Wake
<1>2. CASE l.holder = Nobody /\ live = {}
  <2>. DEFINE emptied == [l EXCEPT !.waiters = << >>]
  <2>1. Wake(l) = [lease |-> emptied, to |-> Nobody]
    BY <1>2 DEF Wake
  <2>2. << >> \in Seq(Convs)
    OBVIOUS
  <2>3. /\ emptied \in Leases /\ emptied.holder = l.holder
        /\ emptied.expired = l.expired
    BY <2>2 DEF Leases
  <2>. HIDE DEF emptied
  <2>. QED  BY <2>1, <2>3
<1>3. CASE l.holder = Nobody /\ live # {}
  <2>. DEFINE i == Min(live)
              rest == SubSeq(l.waiters, i + 1, Len(l.waiters))
  <2>0. live \in SUBSET Nat /\ live # {}
    BY <1>0, <1>3
  <2>1. i \in live
    <3>. HIDE DEF live
    <3>. QED  BY <2>0, MinExists
  <2>2. Wake(l) = [lease |-> [l EXCEPT !.waiters = rest], to |-> registry[l.waiters[i]]]
    BY <1>3 DEF Wake
  <2>3. i \in 1..Len(l.waiters) /\ registry[l.waiters[i]] # Nobody
    BY <2>1, <1>0
  <2>. HIDE DEF i, live
  <2>4. \A j \in 1..Len(l.waiters) : l.waiters[j] \in Convs
    BY <1>0, ElementOfSeq
  <2>5. rest \in Seq(Convs)
    BY <1>0, <2>3, <2>4, SubSeqProperties
  <2>6. registry[l.waiters[i]] \in Runners
    BY <2>3, <2>4
  <2>. HIDE DEF rest
  <2>. QED  BY <2>2, <2>5, <2>6 DEF Leases
<1>. QED  BY <1>1, <1>2, <1>3

\* Effect of a hand-off, whoever awaits it.
LEMMA HandsOffType ==
    ASSUME NEW l \in Leases, registry \in [Convs -> Runners \cup {Nobody}],
           NEW waker \in Runners \cup {Nobody}, NEW loop \in Loops,
           NEW children \in [Runners -> Children],
           NEW consumers \in [Runners -> ConsumerPhases],
           HandsOff(l, waker, loop, children, consumers)
    PROVE  /\ lease' \in Leases
           /\ lease'.holder = l.holder /\ lease'.expired = l.expired
           /\ child' \in [Runners -> Children]
           /\ consumer' \in [Runners -> ConsumerPhases]
           /\ \A q \in Runners : q # waker => consumer'[q] = consumers[q]
           /\ waker \in Runners => consumer'[waker] \in {"none", "wake"}
<1>. DEFINE k == Wake(l)
<1>1. /\ k.lease \in Leases /\ k.lease.holder = l.holder /\ k.lease.expired = l.expired
      /\ k.to \in Runners \cup {Nobody}
  BY WakeType
<1>2. /\ lease' = k.lease
      /\ child' = [t \in Runners |->
            IF t = k.to THEN [at |-> "pending", waker |-> waker, loop |-> loop]
                        ELSE children[t]]
      /\ consumer' = [q \in Runners |->
            IF q # waker THEN consumers[q]
            ELSE IF k.to = Nobody THEN "none" ELSE "wake"]
  BY DEF HandsOff
<1>. HIDE DEF k
<1>3. [at |-> "pending", waker |-> waker, loop |-> loop] \in Children
  BY DEF Children
<1>. QED  BY <1>1, <1>2, <1>3 DEF ConsumerPhases

\* Each consumer in its wake loop awaits one task at most.
Waits(children, consumers) ==
    \A t \in Runners : children[t].waker \in Runners =>
        /\ consumers[children[t].waker] = "wake"
        /\ \A u \in Runners : children[u].waker = children[t].waker => u = t

LEMMA HandsOffWaits ==
    ASSUME NEW l \in Leases, registry \in [Convs -> Runners \cup {Nobody}],
           NEW waker \in Runners \cup {Nobody}, NEW loop,
           NEW children, NEW consumers, Waits(children, consumers),
           waker \in Runners => \A t \in Runners : children[t].waker # waker,
           HandsOff(l, waker, loop, children, consumers)
    PROVE  WakersWait'
<1>. DEFINE k == Wake(l)
<1>1. k.to \in Runners \cup {Nobody}
  BY WakeType
<1>2. /\ child' = [t \in Runners |->
            IF t = k.to THEN [at |-> "pending", waker |-> waker, loop |-> loop]
                        ELSE children[t]]
      /\ consumer' = [q \in Runners |->
            IF q # waker THEN consumers[q]
            ELSE IF k.to = Nobody THEN "none" ELSE "wake"]
  BY DEF HandsOff
<1>. HIDE DEF k
<1>. QED  BY <1>1, <1>2 DEF WakersWait, Waits

-----------------------------------------------------------------------------
(* What the steps share.                                                   *)

\* With or without a hand-off at its end.
LEMMA HandOffEffect ==
    ASSUME NEW l \in Leases, registry \in [Convs -> Runners \cup {Nobody}],
           NEW waker \in Runners \cup {Nobody}, NEW loop \in Loops,
           NEW children \in [Runners -> Children],
           NEW consumers \in [Runners -> ConsumerPhases],
           Waits(children, consumers),
           waker \in Runners => \A t \in Runners : children[t].waker # waker,
           \/ HandsOff(l, waker, loop, children, consumers)
           \/ NoHandOff(l, children, consumers)
    PROVE  /\ lease' \in Leases
           /\ lease'.holder = l.holder /\ lease'.expired = l.expired
           /\ child' \in [Runners -> Children]
           /\ consumer' \in [Runners -> ConsumerPhases]
           /\ \A q \in Runners :
                 \/ consumer'[q] = consumers[q]
                 \/ q = waker /\ consumer'[q] \in {"none", "wake"}
           /\ WakersWait'
<1>1. CASE HandsOff(l, waker, loop, children, consumers)
  BY <1>1, HandsOffType, HandsOffWaits
<1>2. CASE NoHandOff(l, children, consumers)
  BY <1>2 DEF NoHandOff, WakersWait, Waits
<1>. QED  BY <1>1, <1>2

LEMMA StartsType ==
    ASSUME TypeOK, NEW r \in Runners, NEW l \in Leases, NEW by \in StartedBy,
           Starts(r, l, by)
    PROVE  /\ lease' \in Leases
           /\ lease'.holder = ConvOf[r]
           /\ lease'.expired => l.expired
           /\ busy' \in [Runners -> BOOLEAN]
           /\ busy'[r]
           /\ \A q \in Runners : q # r => busy'[q] = busy[q]
           /\ starter' \in [Runners -> Starters]
           /\ starter'[r].at = "pre"
           /\ starter'[r].by = by
           /\ l.holder # ConvOf[r] => starter'[r].fresh
           /\ \A q \in Runners : q # r => starter'[q] = starter[q]
<1>1. ConvOf[r] \in Holders
  BY DEF Holders
<1>2. /\ lease' \in Leases /\ lease'.holder = ConvOf[r]
      /\ lease'.expired => l.expired
  BY <1>1, AcquiredType DEF Starts
<1>3. [at |-> "pre", by |-> by, fresh |-> l.holder # ConvOf[r]] \in Starters
  BY DEF Starters
<1>. QED  BY <1>2, <1>3 DEF Starts, TypeOK

LEMMA IdleRunner ==
    ASSUME ReleaseInv, NEW r \in Runners, Alive(r), ~busy[r]
    PROVE  ~Starting(r) /\ consumer[r] \notin {"run", "drain"}
BY DEF ReleaseInv, StartsAreBusy, RunsAreBusy, DrainsAreOwn, Alive

LEMMA AfterDeclineType ==
    ASSUME NEW r \in Runners, NEW l \in Leases, NEW q
    PROVE  /\ AfterDecline(r, l, q) \in Leases
           /\ AfterDecline(r, l, q).holder = l.holder
           /\ AfterDecline(r, l, q).expired = l.expired
BY WithWaiterType DEF AfterDecline

\* A start keeps the invariant: it owns the release unless its conversation
\* already held the lease, and then the releaser is still there.
LEMMA StartsStep ==
    ASSUME ReleaseInv, NEW r \in Runners, NEW l \in Leases, NEW by \in StartedBy,
           Starts(r, l, by), Alive(r), ~busy[r],
           l.holder = ConvOf[r] => l = lease,
           by = "consumer" <=> consumer'[r] = "drain",
           consumer'[r] # "run",
           consumer'[r] = consumer[r] \/ l.holder # ConvOf[r],
           older'[r] = older[r] \/ l.holder # ConvOf[r],
           \A q \in Runners : q # r => /\ consumer'[q] = consumer[q]
                                       /\ older'[q] = older[q],
           stage' = stage, revert' = revert
    PROVE  LeaseHasReleaser' /\ StartsAreBusy' /\ RunsAreBusy' /\ DrainsAreOwn'
<1>. USE DEF ReleaseInv
<1>0. ~Starting(r)
  BY IdleRunner
<1>1. LeaseHasReleaser'
  <2>1. lease'.holder = ConvOf[r]
    BY StartsType
  <2>2. CASE l.holder # ConvOf[r]
    <3>1. Releases(r)'
      BY <2>2, StartsType DEF Releases, Starting
    <3>. QED  BY <2>1, <3>1 DEF LeaseHasReleaser
  <2>3. CASE l.holder = ConvOf[r]
    <3>1. PICK q \in Runners : ConvOf[q] = ConvOf[r] /\ Releases(q)
      BY <2>3 DEF LeaseHasReleaser
    <3>2. Releases(q)'
      BY <1>0, <2>3, <3>1, StartsType DEF Releases, Starting
    <3>. QED  BY <2>1, <3>1, <3>2 DEF LeaseHasReleaser
  <2>. QED  BY <2>2, <2>3
<1>2. StartsAreBusy'
  BY StartsType DEF StartsAreBusy, Starting, Alive
<1>3. RunsAreBusy'
  BY StartsType DEF RunsAreBusy, Starting
<1>4. DrainsAreOwn'
  BY StartsType DEF DrainsAreOwn, Starting
<1>. QED  BY <1>1, <1>2, <1>3, <1>4

\* stop() leaves every other holder alone.
LEMMA LetsGoEffect ==
    ASSUME ReleaseInv, NEW r \in Runners, LetsGoOfLease(r)
    PROVE  /\ lease' \in Leases
           /\ lease'.holder = IF lease.holder = ConvOf[r] THEN Nobody ELSE lease.holder
           /\ lease'.expired => lease.expired
           /\ child' \in [Runners -> Children]
           /\ consumer' = consumer
           /\ WakersWait'
<1>. DEFINE l == Released(WithoutWaiter(lease, ConvOf[r]), ConvOf[r])
<1>0. ConvOf[r] \in Holders
  BY DEF Holders
<1>1. /\ l \in Leases
      /\ l.holder = IF lease.holder = ConvOf[r] THEN Nobody ELSE lease.holder
      /\ l.expired => lease.expired
  BY <1>0, WithoutWaiterType, ReleasedType DEF ReleaseInv, TypeOK
<1>2. HandsOff(l, Nobody, "own", child, consumer) \/ NoHandOff(l, child, consumer)
  BY DEF LetsGoOfLease
<1>. HIDE DEF l
<1>3. /\ Waits(child, consumer) /\ "own" \in Loops
      /\ registry \in [Convs -> Runners \cup {Nobody}]
      /\ child \in [Runners -> Children] /\ consumer \in [Runners -> ConsumerPhases]
  BY DEF ReleaseInv, TypeOK, WakersWait, Waits, Loops
<1>4. /\ lease' \in Leases
      /\ lease'.holder = l.holder /\ lease'.expired = l.expired
      /\ child' \in [Runners -> Children]
      /\ consumer' \in [Runners -> ConsumerPhases]
      /\ \A q \in Runners : consumer'[q] = consumer[q]
      /\ WakersWait'
  BY <1>1, <1>2, <1>3, HandOffEffect
<1>5. consumer' = consumer
  BY <1>4 DEF ReleaseInv, TypeOK
<1>. QED  BY <1>1, <1>4, <1>5


\* The steps that neither start a turn nor let go of the lease.
LEMMA QuietSteps ==
    ASSUME ReleaseInv, NEW r \in Runners,
           \/ OpenBegins(r) \/ OpenSucceeds(r)
           \/ SendWaits(r) \/ SendQueues(r) \/ Dequeues(r) \/ PromptBlocks(r)
           \/ AgentExits(r) \/ TurnEnds(r) \/ AgentFallsSilent(r)
    PROVE  ReleaseInv'
<1>. USE DEF ReleaseInv, TypeOK, Starting, Releases, Starters, Children
<1>1. CASE OpenBegins(r)
  <2>. USE <1>1 DEF OpenBegins
  <2>1. TypeOK'
    BY DEF Stages
  <2>2. LeaseHasReleaser'
    BY DEF LeaseHasReleaser
  <2>3. StartsAreBusy' /\ RunsAreBusy' /\ DrainsAreOwn' /\ WakersWait'
    BY DEF StartsAreBusy, RunsAreBusy, DrainsAreOwn, WakersWait, Alive, Registered
  <2>. QED  BY <2>1, <2>2, <2>3
<1>2. CASE OpenSucceeds(r)
  <2>. USE <1>2 DEF OpenSucceeds
  <2>1. TypeOK'
    BY DEF Stages
  <2>2. LeaseHasReleaser'
    BY DEF LeaseHasReleaser
  <2>3. StartsAreBusy' /\ RunsAreBusy' /\ DrainsAreOwn' /\ WakersWait'
    BY DEF StartsAreBusy, RunsAreBusy, DrainsAreOwn, WakersWait, Alive, Registered
  <2>. QED  BY <2>1, <2>2, <2>3
<1>3. CASE SendWaits(r)
  <2>. USE <1>3 DEF SendWaits, Sendable, Alive
  <2>1. TypeOK'
    BY WithWaiterType
  <2>2. LeaseHasReleaser'
    BY WithWaiterType DEF LeaseHasReleaser
  <2>3. StartsAreBusy' /\ RunsAreBusy' /\ DrainsAreOwn' /\ WakersWait'
    BY DEF StartsAreBusy, RunsAreBusy, DrainsAreOwn, WakersWait, Alive, Registered
  <2>. QED  BY <2>1, <2>2, <2>3
<1>4. CASE SendQueues(r)
  <2>. USE <1>4 DEF SendQueues, Sendable, Alive
  <2>1. TypeOK'
    OBVIOUS
  <2>2. LeaseHasReleaser'
    BY DEF LeaseHasReleaser
  <2>3. StartsAreBusy' /\ RunsAreBusy' /\ DrainsAreOwn' /\ WakersWait'
    BY DEF StartsAreBusy, RunsAreBusy, DrainsAreOwn, WakersWait, Alive, Registered
  <2>. QED  BY <2>1, <2>2, <2>3
<1>5. CASE Dequeues(r)
  <2>. USE <1>5 DEF Dequeues
  <2>1. TypeOK'
    OBVIOUS
  <2>2. LeaseHasReleaser'
    BY DEF LeaseHasReleaser
  <2>3. StartsAreBusy' /\ RunsAreBusy' /\ DrainsAreOwn' /\ WakersWait'
    BY DEF StartsAreBusy, RunsAreBusy, DrainsAreOwn, WakersWait, Alive, Registered
  <2>. QED  BY <2>1, <2>2, <2>3
<1>6. CASE PromptBlocks(r)
  <2>. USE <1>6 DEF PromptBlocks, Alive
  <2>0. [starter[r] EXCEPT !.at = "sending"] \in Starters
    OBVIOUS
  <2>1. TypeOK'
    BY <2>0
  <2>2. LeaseHasReleaser'
    BY DEF LeaseHasReleaser
  <2>3. StartsAreBusy' /\ RunsAreBusy' /\ DrainsAreOwn' /\ WakersWait'
    BY DEF StartsAreBusy, RunsAreBusy, DrainsAreOwn, WakersWait, Alive, Registered
  <2>. QED  BY <2>1, <2>2, <2>3
<1>7. CASE AgentExits(r)
  <2>. USE <1>7 DEF AgentExits, Alive
  <2>1. TypeOK'
    BY DEF Stages
  <2>2. LeaseHasReleaser'
    BY DEF LeaseHasReleaser
  <2>3. StartsAreBusy' /\ RunsAreBusy' /\ DrainsAreOwn' /\ WakersWait'
    BY DEF StartsAreBusy, RunsAreBusy, DrainsAreOwn, WakersWait, Alive, Registered
  <2>. QED  BY <2>1, <2>2, <2>3
<1>8. CASE TurnEnds(r)
  <2>. USE <1>8 DEF TurnEnds
  <2>1. TypeOK'
    BY DEF ConsumerPhases
  <2>2. LeaseHasReleaser'
    BY DEF LeaseHasReleaser
  <2>3. StartsAreBusy' /\ RunsAreBusy' /\ DrainsAreOwn' /\ WakersWait'
    BY DEF StartsAreBusy, RunsAreBusy, DrainsAreOwn, WakersWait, Alive, Registered
  <2>. QED  BY <2>1, <2>2, <2>3
<1>9. CASE AgentFallsSilent(r)
  <2>. USE <1>9 DEF AgentFallsSilent
  <2>1. TypeOK'
    OBVIOUS
  <2>2. LeaseHasReleaser'
    BY DEF LeaseHasReleaser
  <2>3. StartsAreBusy' /\ RunsAreBusy' /\ DrainsAreOwn' /\ WakersWait'
    BY DEF StartsAreBusy, RunsAreBusy, DrainsAreOwn, WakersWait, Alive, Registered
  <2>. QED  BY <2>1, <2>2, <2>3
<1>. QED  BY <1>1, <1>2, <1>3, <1>4, <1>5, <1>6, <1>7, <1>8, <1>9

-----------------------------------------------------------------------------
(* The steps that start a turn.                                            *)

LEMMA SendStartsStep ==
    ASSUME ReleaseInv, NEW r \in Runners, SendStarts(r)
    PROVE  ReleaseInv'
<1>. USE DEF SendStarts, Sendable
<1>0. "send" \in StartedBy /\ lease \in Leases /\ Starts(r, lease, "send")
  BY DEF StartedBy, ReleaseInv, TypeOK
<1>1. TypeOK'
  BY <1>0, StartsType DEF ReleaseInv, TypeOK
<1>2. LeaseHasReleaser' /\ StartsAreBusy' /\ RunsAreBusy' /\ DrainsAreOwn'
  BY <1>0, IdleRunner, StartsStep
<1>3. WakersWait'
  BY DEF ReleaseInv, WakersWait
<1>. QED  BY <1>1, <1>2, <1>3 DEF ReleaseInv

LEMMA SendQueuesIdleStep ==
    ASSUME ReleaseInv, NEW r \in Runners, SendQueuesIdle(r)
    PROVE  ReleaseInv'
<1>. DEFINE q == queue[r] + 1
<1>0. /\ lease \in Leases /\ "drain" \in StartedBy
      /\ queue[r] \in Nat /\ queue[r] < MaxQueue
      /\ sends' \in 0..MaxSends
      /\ Alive(r) /\ ~busy[r]
      /\ stage' = stage /\ consumer' = consumer /\ older' = older
      /\ child' = child /\ revert' = revert /\ registry' = registry
      /\ writing' = writing /\ failed' = failed /\ limbo' = limbo
  BY DEF StartedBy, ReleaseInv, TypeOK, SendQueuesIdle, Sendable
<1>1. CASE DrainStarts(r, lease, q, "drain")
  <2>0. Starts(r, lease, "drain") /\ queue' = [queue EXCEPT ![r] = q - 1]
    BY <1>1 DEF DrainStarts
  <2>1. TypeOK'
    BY <1>0, <2>0, StartsType DEF ReleaseInv, TypeOK
  <2>2. LeaseHasReleaser' /\ StartsAreBusy' /\ RunsAreBusy' /\ DrainsAreOwn'
    BY <1>0, <2>0, IdleRunner, StartsStep
  <2>3. WakersWait'
    BY <1>0 DEF ReleaseInv, WakersWait
  <2>. QED  BY <2>1, <2>2, <2>3 DEF ReleaseInv
<1>2. CASE /\ DrainDeclines(r, lease, q)
           /\ lease' = AfterDecline(r, lease, q)
           /\ queue' = [queue EXCEPT ![r] = @ + 1]
           /\ UNCHANGED <<busy, starter>>
  <2>0. lease' \in Leases /\ lease'.holder = lease.holder
    BY <1>0, <1>2, AfterDeclineType
  <2>1. TypeOK'
    BY <1>0, <1>2, <2>0 DEF ReleaseInv, TypeOK
  <2>2. LeaseHasReleaser'
    BY <1>0, <1>2, <2>0 DEF ReleaseInv, LeaseHasReleaser, Releases, Starting
  <2>3. StartsAreBusy' /\ RunsAreBusy' /\ DrainsAreOwn' /\ WakersWait'
    BY <1>0, <1>2, IdleRunner
       DEF ReleaseInv, TypeOK, StartsAreBusy, RunsAreBusy, DrainsAreOwn, WakersWait,
           Starting
  <2>. QED  BY <2>1, <2>2, <2>3 DEF ReleaseInv
<1>. QED  BY <1>1, <1>2 DEF SendQueuesIdle

-----------------------------------------------------------------------------
(* The steps that end a start_turn.                                        *)

\* A prompt that was sent starts the runner's consumer; of the others it touches
\* at most one that awaits a hand-off.
LEMMA PromptSentEffect ==
    ASSUME ReleaseInv, NEW r \in Runners, PromptSent(r)
    PROVE  /\ Starting(r) /\ stage[r] \in {"up", "exited"} /\ busy[r]
           /\ starter' = [starter EXCEPT ![r] = NoStarter]
           /\ older' = [older EXCEPT ![r] = IF consumer[r] = "post" THEN @ + 1 ELSE @]
           /\ writing' = [writing EXCEPT ![r] = Alive(r)]
           /\ registry' = registry /\ stage' = stage /\ busy' = busy /\ queue' = queue
           /\ limbo' = limbo /\ failed' = failed /\ revert' = revert /\ sends' = sends
           /\ lease' \in Leases /\ lease'.holder = lease.holder
           /\ lease'.expired = lease.expired
           /\ child' \in [Runners -> Children]
           /\ consumer' \in [Runners -> ConsumerPhases]
           /\ consumer'[r] = "run"
           /\ \A q \in Runners : q # r =>
                 \/ consumer'[q] = consumer[q]
                 \/ consumer[q] = "wake" /\ consumer'[q] \in {"none", "wake"}
           /\ WakersWait'
<1>. DEFINE others == WithoutTask(r, Orphaned(r))
            waker == IF starter[r].by = "task" THEN Orphaned(r)[r].waker ELSE Nobody
            running == [consumer EXCEPT ![r] = "run"]
<1>. USE DEF ReleaseInv
<1>0. /\ Starting(r) /\ stage[r] \in {"up", "exited"} /\ busy[r]
      /\ starter' = [starter EXCEPT ![r] = NoStarter]
      /\ older' = [older EXCEPT ![r] = IF consumer[r] = "post" THEN @ + 1 ELSE @]
      /\ writing' = [writing EXCEPT ![r] = Alive(r)]
      /\ \/ HandsOff(lease, waker, LoopKind(r), others, running)
         \/ NoHandOff(lease, others, running)
      /\ registry' = registry /\ stage' = stage /\ busy' = busy /\ queue' = queue
      /\ limbo' = limbo /\ failed' = failed /\ revert' = revert /\ sends' = sends
  BY DEF PromptSent, StartsAreBusy
<1>1. /\ NoChild \in Children /\ NoStarter \in Starters
      /\ \A t \in Runners : child[t] \in Children
  BY DEF NoChild, Children, Loops, NoStarter, Starters, StartedBy, TypeOK
<1>2. /\ Orphaned(r) \in [Runners -> Children]
      /\ \A t \in Runners : /\ Orphaned(r)[t].waker # r
                            /\ Orphaned(r)[t].waker # Nobody =>
                                  Orphaned(r)[t].waker = child[t].waker
  BY <1>1 DEF Orphaned, Children
<1>3. /\ others \in [Runners -> Children]
      /\ \A t \in Runners :
            \/ others[t].waker = Nobody
            \/ /\ others[t].waker = child[t].waker /\ child[t].waker # r
               /\ starter[r].by = "task" => t # r
  BY <1>1, <1>2 DEF WithoutTask, NoChild
<1>4. /\ waker \in Runners \cup {Nobody} /\ waker # r
      /\ waker # Nobody => starter[r].by = "task" /\ waker = child[r].waker
      /\ LoopKind(r) \in Loops
  BY <1>1, <1>2 DEF LoopKind, Loops, Children
<1>5. running \in [Runners -> ConsumerPhases]
  BY DEF TypeOK, ConsumerPhases
<1>6. Waits(others, running)
  BY <1>3 DEF Waits, WakersWait, TypeOK
<1>7. waker \in Runners => /\ consumer[waker] = "wake"
                           /\ \A t \in Runners : others[t].waker # waker
  BY <1>3, <1>4 DEF WakersWait
<1>8. lease \in Leases /\ registry \in [Convs -> Runners \cup {Nobody}]
  BY DEF TypeOK
<1>. HIDE DEF others, waker
<1>9. /\ lease' \in Leases /\ lease'.holder = lease.holder
      /\ lease'.expired = lease.expired
      /\ child' \in [Runners -> Children] /\ consumer' \in [Runners -> ConsumerPhases]
      /\ \A q \in Runners : \/ consumer'[q] = running[q]
                            \/ q = waker /\ consumer'[q] \in {"none", "wake"}
      /\ WakersWait'
  <2>. HIDE DEF running
  <2>. QED  BY <1>0, <1>3, <1>4, <1>5, <1>6, <1>7, <1>8, HandOffEffect
<1>10. /\ consumer'[r] = "run"
       /\ \A q \in Runners : q # r =>
             \/ consumer'[q] = consumer[q]
             \/ consumer[q] = "wake" /\ consumer'[q] \in {"none", "wake"}
  BY <1>4, <1>7, <1>9 DEF TypeOK
<1>. HIDE DEF running
<1>. QED  BY <1>0, <1>9, <1>10

LEMMA PromptSentStep ==
    ASSUME ReleaseInv, NEW r \in Runners, PromptSent(r)
    PROVE  ReleaseInv'
<1>. USE PromptSentEffect DEF ReleaseInv
<1>0. NoStarter \in Starters
  BY DEF NoStarter, Starters, StartedBy
<1>1. ~Starting(r)' /\ \A q \in Runners : q # r => starter'[q] = starter[q]
  BY DEF Starting, NoStarter, TypeOK
<1>2. TypeOK'
  <2>1. older' \in [Runners -> Nat] /\ writing' \in [Runners -> BOOLEAN]
    <3>1. /\ older' = [older EXCEPT ![r] = IF consumer[r] = "post" THEN @ + 1 ELSE @]
          /\ writing' = [writing EXCEPT ![r] = Alive(r)]
      OBVIOUS
    <3>. QED  BY <3>1 DEF TypeOK, Alive
  <2>2. starter' \in [Runners -> Starters]
    BY SMTT(20), <1>0 DEF TypeOK
  <2>. QED  BY <2>1, <2>2 DEF TypeOK
<1>3. LeaseHasReleaser'
  <2>1. \A q \in Runners : Releases(q) => Releases(q)'
    BY <1>1 DEF Releases, Starting, TypeOK
  <2>. QED  BY <2>1 DEF LeaseHasReleaser
<1>4. StartsAreBusy'
  BY <1>1 DEF StartsAreBusy, Starting
<1>5. RunsAreBusy'
  BY <1>1 DEF RunsAreBusy, Starting
<1>6. DrainsAreOwn'
  BY <1>1 DEF DrainsAreOwn, Starting
<1>. QED  BY <1>2, <1>3, <1>4, <1>5, <1>6

\* A follow-up that is put back, now or later, stays counted.
LEMMA ReturnsType ==
    ASSUME TypeOK, NEW r \in Runners, NEW later, Returns(r, later)
    PROVE  queue' \in [Runners -> Nat] /\ limbo' \in [Runners -> Nat]
<1>1. CASE later
  BY <1>1 DEF Returns, TypeOK
<1>2. CASE ~later
  BY <1>2 DEF Returns, TypeOK
<1>. QED  BY <1>1, <1>2

LEMMA PutsBackStep ==
    ASSUME ReleaseInv, NEW r \in Runners, PutsBack(r)
    PROVE  ReleaseInv'
<1>. USE DEF ReleaseInv, PutsBack
<1>1. TypeOK'
  BY DEF TypeOK
<1>2. LeaseHasReleaser' /\ StartsAreBusy' /\ RunsAreBusy' /\ DrainsAreOwn' /\ WakersWait'
  BY DEF LeaseHasReleaser, Releases, Starting, StartsAreBusy, RunsAreBusy, DrainsAreOwn,
         WakersWait
<1>. QED  BY <1>1, <1>2

\* A start that leaves without a consumer frees what it freshly acquired.
LEMMA StartEndsEffect ==
    ASSUME ReleaseInv, NEW r \in Runners, Starting(r), StartEnds(r)
    PROVE  /\ lease' \in Leases
           /\ lease'.holder = IF starter[r].fresh /\ lease.holder = ConvOf[r]
                             THEN Nobody ELSE lease.holder
           /\ lease'.expired => lease.expired
           /\ child' \in [Runners -> Children]
           /\ consumer' \in [Runners -> ConsumerPhases]
           /\ \A q \in Runners :
                 \/ consumer'[q] = consumer[q] /\ ~(q = r /\ consumer[q] = "drain")
                 \/ /\ consumer[q] = "wake" \/ (q = r /\ consumer[q] = "drain")
                    /\ consumer'[q] \in {"none", "wake"}
           /\ starter' = [starter EXCEPT ![r] = NoStarter]
           /\ queue' \in [Runners -> Nat] /\ limbo' \in [Runners -> Nat]
           /\ WakersWait'
<1>. DEFINE freed == starter[r].fresh /\ lease.holder = ConvOf[r]
            l == IF freed THEN Released(lease, ConvOf[r]) ELSE lease
            by == starter[r].by
            waker == CASE by = "consumer" -> r
                       [] by = "task" -> child[r].waker
                       [] OTHER -> Nobody
            loop == IF freed /\ by = "task" THEN "nested" ELSE LoopKind(r)
            others == WithoutTask(r, child)
<1>. USE DEF ReleaseInv
<1>0. /\ starter' = [starter EXCEPT ![r] = NoStarter]
      /\ \/ UNCHANGED <<queue, limbo>>
         \/ Returns(r, freed /\ Wake(l).to # Nobody)
      /\ \/ HandsOff(l, waker, loop, others, consumer)
         \/ /\ NoHandOff(l, others, consumer)
            /\ by # "consumer"
  BY DEF StartEnds, LoopAgain
<1>1. /\ l \in Leases /\ l.holder = (IF freed THEN Nobody ELSE lease.holder)
      /\ l.expired => lease.expired
  <2>1. lease \in Leases /\ ConvOf[r] \in Holders
    BY DEF TypeOK, Holders
  <2>2. Released(lease, ConvOf[r]) \in Leases
    BY <2>1, ReleasedType
  <2>3. /\ lease.holder = ConvOf[r] => Released(lease, ConvOf[r]).holder = Nobody
        /\ Released(lease, ConvOf[r]).expired => lease.expired
    BY <2>1 DEF Released, Leases
  <2>4. CASE freed
    BY <2>2, <2>3, <2>4
  <2>5. CASE ~freed
    BY <2>1, <2>5
  <2>. QED  BY <2>4, <2>5
<1>2. NoChild \in Children /\ NoChild.waker = Nobody /\ child[r] \in Children
  BY DEF NoChild, Children, Loops, TypeOK
<1>3. /\ others \in [Runners -> Children]
      /\ \A t \in Runners :
            \/ others[t].waker = Nobody
            \/ others[t].waker = child[t].waker /\ (by = "task" => t # r)
  BY <1>2 DEF WithoutTask, TypeOK
<1>4. waker \in Runners \cup {Nobody} /\ loop \in Loops
  BY <1>2 DEF Children, Loops, LoopKind
<1>5. waker \in Runners =>
         /\ consumer[waker] = "wake" \/ (waker = r /\ consumer[r] = "drain")
         /\ \A t \in Runners : others[t].waker # waker
  <2>1. CASE by = "consumer"
    <3>1. consumer[r] = "drain"
      BY <2>1 DEF DrainsAreOwn
    <3>. QED  BY <1>3, <2>1, <3>1 DEF WakersWait
  <2>2. CASE by = "task"
    <3>1. waker = child[r].waker
      BY <2>2
    <3>2. \A t \in Runners : others[t].waker = Nobody
                               \/ (t # r /\ others[t].waker = child[t].waker)
      BY <1>3, <2>2
    <3>. HIDE DEF waker, others
    <3>. QED  BY <3>1, <3>2 DEF WakersWait
  <2>. QED  BY <2>1, <2>2
<1>6. Waits(others, consumer)
  BY <1>3 DEF Waits, WakersWait
<1>7. registry \in [Convs -> Runners \cup {Nobody}] /\ consumer \in [Runners -> ConsumerPhases]
  BY DEF TypeOK
<1>9. by = "consumer" <=> consumer[r] = "drain"
  BY DEF DrainsAreOwn
<1>10. (by = "consumer" => waker = r) /\ (waker = r => consumer[r] # "drain" \/ by = "consumer")
  BY <1>9
<1>11. queue' \in [Runners -> Nat] /\ limbo' \in [Runners -> Nat]
  BY <1>0, ReturnsType DEF TypeOK
<1>. HIDE DEF l, waker, loop, others, freed, by
<1>12. /\ lease' \in Leases /\ lease'.holder = l.holder /\ lease'.expired = l.expired
       /\ child' \in [Runners -> Children] /\ consumer' \in [Runners -> ConsumerPhases]
       /\ \A q \in Runners :
             \/ consumer'[q] = consumer[q]
             \/ q = waker /\ consumer'[q] \in {"none", "wake"}
       /\ WakersWait'
  BY <1>0, <1>1, <1>3, <1>4, <1>5, <1>6, <1>7, HandOffEffect
<1>13. by = "consumer" => consumer'[r] \in {"none", "wake"}
  BY <1>0, <1>1, <1>3, <1>4, <1>7, <1>10, HandsOffType
<1>. QED  BY <1>0, <1>1, <1>5, <1>9, <1>11, <1>12, <1>13 DEF freed

LEMMA StartEndsStep ==
    ASSUME ReleaseInv, NEW r \in Runners, Starting(r), StartEnds(r),
           busy' \in [Runners -> BOOLEAN], writing' \in [Runners -> BOOLEAN],
           \A q \in Runners : q # r => busy'[q] = busy[q],
           UNCHANGED <<registry, stage, older, failed, revert, sends>>
    PROVE  ReleaseInv'
<1>. USE DEF ReleaseInv
<1>1. ~Starting(r)' /\ \A q \in Runners : q # r => starter'[q] = starter[q]
  BY StartEndsEffect DEF Starting, NoStarter, TypeOK
<1>2. TypeOK'
  <2>1. NoStarter \in Starters
    BY DEF NoStarter, Starters, StartedBy
  <2>. QED  BY <2>1, StartEndsEffect DEF TypeOK
<1>3. LeaseHasReleaser'
  <2>1. ASSUME NEW q \in Runners, Releases(q), ConvOf[q] = lease.holder,
               lease'.holder = lease.holder, lease'.holder # Nobody
        PROVE  Releases(q)'
    BY <1>1, <2>1, StartEndsEffect DEF Releases, Starting
  <2>2. lease'.holder = Nobody \/ lease'.holder = lease.holder
    BY StartEndsEffect
  <2>. QED  BY <2>1, <2>2 DEF LeaseHasReleaser
<1>4. StartsAreBusy'
  BY <1>1, StartEndsEffect DEF StartsAreBusy, Starting
<1>5. RunsAreBusy'
  BY <1>1, StartEndsEffect DEF RunsAreBusy, Starting
<1>6. DrainsAreOwn'
  BY <1>1, StartEndsEffect DEF DrainsAreOwn, Starting
<1>7. WakersWait'
  BY StartEndsEffect
<1>. QED  BY <1>2, <1>3, <1>4, <1>5, <1>6, <1>7

LEMMA PromptFailsStep ==
    ASSUME ReleaseInv, NEW r \in Runners, PromptFails(r)
    PROVE  ReleaseInv'
BY StartEndsStep DEF PromptFails, ReleaseInv, TypeOK

LEMMA DisconnectsStep ==
    ASSUME ReleaseInv, NEW r \in Runners, Disconnects(r)
    PROVE  ReleaseInv'
BY StartEndsStep DEF Disconnects, ReleaseInv, TypeOK, Alive

-----------------------------------------------------------------------------
(* The end of a turn's bookkeeping, and the hand-off task.                 *)

LEMMA ClosesStep ==
    ASSUME ReleaseInv, NEW r \in Runners, NEW by \in {"consumer", "older"},
           NEW waker \in {r, Nobody},
           by = "consumer" <=> waker = r,
           by = "consumer" => consumer[r] = "post",
           Closes(r, by, waker),
           older' \in [Runners -> Nat],
           \A q \in Runners : q # r => older'[q] = older[q],
           UNCHANGED <<registry, stage, limbo, writing, failed, revert, sends>>
    PROVE  ReleaseInv'
<1>. DEFINE l == Released(lease, ConvOf[r])
            declined == AfterDecline(r, l, queue[r])
<1>. USE DEF ReleaseInv
<1>0. /\ ConvOf[r] \in Holders /\ lease \in Leases /\ by \in StartedBy
      /\ queue[r] \in Nat
  BY DEF Holders, TypeOK, StartedBy
<1>1. /\ l \in Leases /\ l.holder # ConvOf[r]
      /\ l.holder = Nobody \/ l.holder = lease.holder
  <2>1. l \in Leases
    BY <1>0, ReleasedType
  <2>2. /\ lease.holder = ConvOf[r] => l.holder = Nobody
        /\ lease.holder # ConvOf[r] => l = lease
    BY <1>0 DEF Released, Leases
  <2>. QED  BY <1>0, <2>1, <2>2
<1>2. CASE /\ DrainStarts(r, l, queue[r], by)
           /\ consumer' = [consumer EXCEPT ![r] = IF waker = r THEN "drain" ELSE @]
           /\ UNCHANGED child
  <2>. HIDE DEF l
  <2>0. /\ Starts(r, l, by) /\ Alive(r) /\ ~busy[r]
        /\ queue' = [queue EXCEPT ![r] = queue[r] - 1] /\ queue[r] > 0
    BY <1>2 DEF DrainStarts, WouldDrain
  <2>1. queue' \in [Runners -> Nat]
    BY <1>0, <2>0 DEF TypeOK
  <2>2. /\ consumer' \in [Runners -> ConsumerPhases]
        /\ \A q \in Runners : q # r => consumer'[q] = consumer[q]
        /\ by = "consumer" <=> consumer'[r] = "drain"
        /\ consumer'[r] # "run"
    BY <1>2, <2>0, IdleRunner DEF TypeOK, ConsumerPhases
  <2>3. TypeOK'
    BY <1>0, <1>1, <2>0, <2>1, <2>2, <1>2, StartsType DEF TypeOK
  <2>4. LeaseHasReleaser' /\ StartsAreBusy' /\ RunsAreBusy' /\ DrainsAreOwn'
    BY <1>0, <1>1, <2>0, <2>1, <2>2, StartsStep
  <2>5. WakersWait'
    BY <1>2, <2>2 DEF WakersWait, TypeOK
  <2>. QED  BY <2>3, <2>4, <2>5
<1>3. CASE /\ HandsOff(declined, waker, "own", child, consumer)
           /\ UNCHANGED <<queue, busy, starter>>
  <2>1. declined \in Leases /\ declined.holder = l.holder
    BY <1>1, AfterDeclineType
  <2>. HIDE DEF l, declined
  <2>2. waker \in Runners => consumer[waker] = "post" /\ waker = r
    OBVIOUS
  <2>3. /\ Waits(child, consumer) /\ "own" \in Loops
        /\ waker \in Runners => \A t \in Runners : child[t].waker # waker
    BY <2>2 DEF WakersWait, Waits, Loops
  <2>4. /\ lease' \in Leases /\ lease'.holder = l.holder
        /\ child' \in [Runners -> Children] /\ consumer' \in [Runners -> ConsumerPhases]
        /\ \A q \in Runners :
              \/ consumer'[q] = consumer[q]
              \/ q = waker /\ consumer'[q] \in {"none", "wake"}
        /\ WakersWait'
    <3>1. /\ registry \in [Convs -> Runners \cup {Nobody}]
          /\ consumer \in [Runners -> ConsumerPhases] /\ child \in [Runners -> Children]
          /\ waker \in Runners \cup {Nobody}
      BY DEF TypeOK
    <3>. QED  BY <1>3, <2>1, <2>3, <3>1, HandOffEffect
  <2>5. TypeOK'
    BY <1>3, <2>4 DEF TypeOK
  <2>6. LeaseHasReleaser'
    BY <1>0, <1>1, <1>3, <2>4 DEF LeaseHasReleaser, Releases, Starting
  <2>7. StartsAreBusy' /\ RunsAreBusy'
    BY <1>3, <2>4 DEF StartsAreBusy, RunsAreBusy, Starting
  <2>8. DrainsAreOwn'
    BY <1>3, <2>2, <2>4 DEF DrainsAreOwn, Starting
  <2>. QED  BY <2>4, <2>5, <2>6, <2>7, <2>8
<1>. QED  BY <1>2, <1>3 DEF Closes

LEMMA BookkeepingDoneStep ==
    ASSUME ReleaseInv, NEW r \in Runners, BookkeepingDone(r)
    PROVE  ReleaseInv'
BY ClosesStep DEF BookkeepingDone, ReleaseInv, TypeOK

LEMMA OlderBookkeepingDoneStep ==
    ASSUME ReleaseInv, NEW r \in Runners, OlderBookkeepingDone(r)
    PROVE  ReleaseInv'
BY ClosesStep DEF OlderBookkeepingDone, ReleaseInv, TypeOK

LEMMA HandOffRunsStep ==
    ASSUME ReleaseInv, NEW r \in Runners, HandOffRuns(r)
    PROVE  ReleaseInv'
<1>. DEFINE me == child[r]
            others == [child EXCEPT ![r] = NoChild]
            declined == AfterDecline(r, lease, queue[r])
<1>. USE DEF ReleaseInv
<1>0. /\ UNCHANGED <<registry, stage, limbo, older, writing, failed, revert, sends>>
      /\ lease \in Leases /\ "task" \in StartedBy /\ me \in Children
      /\ NoChild \in Children /\ NoChild.waker = Nobody
      /\ queue[r] \in Nat
  BY DEF HandOffRuns, TypeOK, StartedBy, NoChild, Children, Loops
<1>1. CASE /\ DrainStarts(r, lease, queue[r], "task")
           /\ child' = [child EXCEPT ![r].at = "driving"]
           /\ UNCHANGED consumer
  <2>0. /\ Starts(r, lease, "task") /\ Alive(r) /\ ~busy[r]
        /\ queue' = [queue EXCEPT ![r] = queue[r] - 1] /\ queue[r] > 0
    BY <1>1 DEF DrainStarts, WouldDrain
  <2>1. queue' \in [Runners -> Nat]
    BY <1>0, <2>0 DEF TypeOK
  <2>2. /\ child' \in [Runners -> Children]
        /\ \A t \in Runners : child'[t].waker = child[t].waker
    <3>1. [me EXCEPT !.at = "driving"] \in Children
      BY <1>0 DEF Children
    <3>. QED  BY <1>1, <3>1 DEF TypeOK, Children
  <2>3. TypeOK'
    BY <1>0, <1>1, <2>0, <2>1, <2>2, StartsType DEF TypeOK
  <2>4. LeaseHasReleaser' /\ StartsAreBusy' /\ RunsAreBusy' /\ DrainsAreOwn'
    BY <1>0, <1>1, <2>0, <2>1, IdleRunner, StartsStep
  <2>5. WakersWait'
    BY <1>1, <2>2 DEF WakersWait
  <2>. QED  BY <2>3, <2>4, <2>5
<1>2. CASE /\ \/ HandsOff(declined, me.waker, me.loop, others, consumer)
              \/ NoHandOff(declined, others, consumer)
           /\ UNCHANGED <<queue, busy, starter>>
  <2>1. declined \in Leases /\ declined.holder = lease.holder
    BY <1>0, AfterDeclineType
  <2>2. /\ others \in [Runners -> Children]
        /\ \A t \in Runners : others[t].waker = Nobody
                                \/ (t # r /\ others[t].waker = child[t].waker)
    <3>1. child \in [Runners -> Children]
      BY DEF TypeOK
    <3>2. \A t \in Runners : others[t] = IF t = r THEN NoChild ELSE child[t]
      BY <3>1
    <3>. QED  BY <1>0, <3>1, <3>2
  <2>3. /\ me.waker \in Runners \cup {Nobody} /\ me.loop \in Loops
        /\ me.waker \in Runners => /\ consumer[me.waker] = "wake"
                                   /\ \A t \in Runners : others[t].waker # me.waker
    BY <1>0, <2>2 DEF Children, WakersWait
  <2>4. Waits(others, consumer)
    BY <2>2 DEF WakersWait, Waits
  <2>. HIDE DEF me, others, declined
  <2>5. /\ lease' \in Leases /\ lease'.holder = lease.holder
        /\ child' \in [Runners -> Children] /\ consumer' \in [Runners -> ConsumerPhases]
        /\ \A q \in Runners :
              \/ consumer'[q] = consumer[q]
              \/ consumer[q] = "wake" /\ consumer'[q] \in {"none", "wake"}
        /\ WakersWait'
    <3>1. registry \in [Convs -> Runners \cup {Nobody}]
          /\ consumer \in [Runners -> ConsumerPhases]
      BY DEF TypeOK
    <3>. QED  BY <1>2, <2>1, <2>2, <2>3, <2>4, <3>1, HandOffEffect
  <2>6. TypeOK'
    BY <1>0, <1>2, <2>5 DEF TypeOK
  <2>7. LeaseHasReleaser'
    BY <1>0, <1>2, <2>5 DEF LeaseHasReleaser, Releases, Starting
  <2>8. StartsAreBusy' /\ RunsAreBusy' /\ DrainsAreOwn'
    BY <1>0, <1>2, <2>5 DEF StartsAreBusy, RunsAreBusy, DrainsAreOwn, Starting
  <2>. QED  BY <2>5, <2>6, <2>7, <2>8
<1>. QED  BY <1>1, <1>2 DEF HandOffRuns

-----------------------------------------------------------------------------
(* Dropping a runner, and stop().                                          *)

\* What is left of the runner's own release once stop() has cancelled it.
LEMMA CancelsEffect ==
    ASSUME ReleaseInv, NEW r \in Runners, CancelsConsumer(r)
    PROVE  /\ lease' \in Leases
           /\ \/ lease'.holder = Nobody /\ lease.holder = ConvOf[r]
              \/ /\ lease'.holder = lease.holder
                 /\ lease.holder = ConvOf[r] /\ Releases(r) => Releases(r)' \/ older[r] > 0
           /\ lease'.expired => lease.expired
           /\ lease.holder # ConvOf[r] \/ consumer[r] \in {"none", "wake"}
                 => lease'.holder = lease.holder
           /\ child' \in [Runners -> Children]
           /\ consumer' \in [Runners -> ConsumerPhases]
           /\ \A q \in Runners : q # r => consumer'[q] = consumer[q]
           /\ consumer'[r] \in {"none", "post", "wake"}
           /\ consumer'[r] = "post" => consumer[r] = "run"
           /\ starter' \in [Runners -> Starters]
           /\ \A q \in Runners : q # r => starter'[q] = starter[q]
           /\ \/ starter'[r] = starter[r] /\ consumer[r] # "drain"
              \/ ~Starting(r)'
           /\ queue' \in [Runners -> Nat] /\ limbo' \in [Runners -> Nat]
           /\ WakersWait'
<1>. DEFINE done == [consumer EXCEPT ![r] = "none"]
            freed == starter[r].fresh /\ lease.holder = ConvOf[r]
            l == Released(lease, ConvOf[r])
<1>. USE DEF ReleaseInv
<1>0. /\ lease \in Leases /\ ConvOf[r] \in Holders
      /\ registry \in [Convs -> Runners \cup {Nobody}]
      /\ consumer \in [Runners -> ConsumerPhases] /\ child \in [Runners -> Children]
      /\ done \in [Runners -> ConsumerPhases] /\ done[r] = "none"
      /\ \A q \in Runners : q # r => done[q] = consumer[q]
  BY DEF TypeOK, Holders, ConsumerPhases
<1>1. /\ l \in Leases
      /\ lease.holder = ConvOf[r] => l.holder = Nobody
      /\ lease.holder # ConvOf[r] => l.holder = lease.holder
      /\ l.expired => lease.expired
  BY <1>0, ReleasedType DEF Released, Leases
<1>. HIDE DEF l
<1>2. CASE consumer[r] = "none"
  BY <1>2 DEF CancelsConsumer, TypeOK, Releases, Starting, WakersWait
<1>3. CASE consumer[r] = "run"
  <2>1. /\ consumer' = [consumer EXCEPT ![r] = "post"]
        /\ UNCHANGED <<lease, queue, limbo, starter, child>>
    BY <1>3 DEF CancelsConsumer
  <2>. QED  BY <1>3, <2>1 DEF TypeOK, Releases, Starting, WakersWait, ConsumerPhases
<1>4. CASE consumer[r] = "post"
  <2>1. /\ lease' = l /\ child' = child /\ consumer' = done
        /\ UNCHANGED <<queue, limbo, starter>>
    BY <1>4 DEF CancelsConsumer, NoHandOff, l
  <2>2. WakersWait'
    BY <1>0, <1>4, <2>1 DEF WakersWait
  <2>. HIDE DEF done
  <2>. QED  BY <1>0, <1>1, <1>4, <2>1, <2>2 DEF TypeOK
<1>5. CASE consumer[r] = "drain"
  <2>1. /\ starter' = [starter EXCEPT ![r] = NoStarter]
        /\ Returns(r, freed /\ Wake(l).to # Nobody)
        /\ \/ freed /\ HandsOff(l, r, "nested", child, done)
           \/ ~freed /\ NoHandOff(lease, child, done)
    BY <1>5 DEF CancelsConsumer, l
  <2>2. /\ starter' \in [Runners -> Starters] /\ ~Starting(r)'
        /\ \A q \in Runners : q # r => starter'[q] = starter[q]
    BY <2>1 DEF TypeOK, NoStarter, Starters, StartedBy, Starting
  <2>4. queue' \in [Runners -> Nat] /\ limbo' \in [Runners -> Nat]
    BY <2>1, ReturnsType
  <2>5. Waits(child, done) /\ \A t \in Runners : child[t].waker # r
    BY <1>0, <1>5 DEF Waits, WakersWait
  <2>. HIDE DEF done
  <2>6. CASE freed /\ HandsOff(l, r, "nested", child, done)
    <3>1. "nested" \in Loops
      BY DEF Loops
    <3>2. /\ lease' \in Leases /\ lease'.holder = l.holder
          /\ lease'.expired = l.expired
          /\ child' \in [Runners -> Children]
          /\ consumer' \in [Runners -> ConsumerPhases]
          /\ \A q \in Runners : q # r => consumer'[q] = done[q]
          /\ consumer'[r] \in {"none", "wake"}
          /\ WakersWait'
      BY <1>0, <1>1, <2>5, <2>6, <3>1, HandsOffType, HandsOffWaits
    <3>. QED  BY <1>0, <1>1, <1>5, <2>2, <2>4, <2>6, <3>2
  <2>7. CASE ~freed /\ NoHandOff(lease, child, done)
    <3>1. lease' = lease /\ child' = child /\ consumer' = done
      BY <2>7 DEF NoHandOff
    <3>2. WakersWait'
      BY <2>5, <3>1 DEF WakersWait, Waits
    <3>3. lease.holder = ConvOf[r] /\ Releases(r) => older[r] > 0
      BY <1>5, <2>7 DEF Releases
    <3>. QED  BY <1>0, <2>2, <2>4, <3>1, <3>2, <3>3
  <2>. QED  BY <2>1, <2>6, <2>7
<1>6. CASE consumer[r] = "wake"
  <2>1. /\ child' = [t \in Runners |->
               IF child[t].waker # r THEN child[t]
               ELSE [child[t] EXCEPT !.waker = Nobody,
                                     !.loop = IF @ = "own" THEN "off" ELSE @]]
        /\ consumer' = done
        /\ UNCHANGED <<lease, queue, limbo, starter>>
    BY <1>6 DEF CancelsConsumer
  <2>2. /\ child' \in [Runners -> Children]
        /\ \A t \in Runners : \/ child'[t].waker = Nobody
                              \/ child'[t].waker = child[t].waker /\ child[t].waker # r
    <3>1. \A c \in Children :
             LET d == [c EXCEPT !.waker = Nobody,
                                !.loop = IF @ = "own" THEN "off" ELSE @]
             IN  d \in Children /\ d.waker = Nobody
      BY DEF Children, Loops
    <3>. QED  BY <1>0, <2>1, <3>1
  <2>3. WakersWait'
    <3>1. \A q \in Runners : q # r => consumer'[q] = consumer[q]
      BY <1>0, <2>1
    <3>. QED  BY <2>2, <3>1 DEF WakersWait
  <2>4. Releases(r) => Releases(r)' \/ older[r] > 0
    BY <1>6, <2>1 DEF Releases, Starting
  <2>. HIDE DEF done
  <2>. QED  BY <1>0, <1>6, <2>1, <2>2, <2>3, <2>4 DEF TypeOK
<1>. QED  BY <1>0, <1>2, <1>3, <1>4, <1>5, <1>6 DEF ConsumerPhases

LEMMA DropsStep ==
    ASSUME ReleaseInv, NEW r \in Runners, Drops(r),
           failed' \in [Runners -> BOOLEAN], UNCHANGED <<older, revert, sends>>
    PROVE  ReleaseInv'
<1>. USE DEF ReleaseInv
<1>0. /\ registry' = [registry EXCEPT ![ConvOf[r]] = Nobody]
      /\ stage' = [stage EXCEPT ![r] = "stopping"]
      /\ busy' = [busy EXCEPT ![r] = FALSE]
      /\ writing' = [writing EXCEPT
            ![r] = @ \/ (starter[r].at = "sending" /\ consumer[r] = "drain")]
      /\ CancelsConsumer(r)
  BY DEF Drops
<1>1. TypeOK'
  <2>1. /\ registry' \in [Convs -> Runners \cup {Nobody}]
        /\ stage' \in [Runners -> Stages] /\ busy' \in [Runners -> BOOLEAN]
        /\ writing' \in [Runners -> BOOLEAN]
    BY <1>0 DEF TypeOK, Stages
  <2>. QED  BY <1>0, <2>1, CancelsEffect DEF TypeOK
<1>2. LeaseHasReleaser'
  <2>1. ASSUME NEW q \in Runners, Releases(q), ConvOf[q] = lease.holder,
               lease'.holder # Nobody
        PROVE  Releases(q)'
    BY <1>0, <2>1, CancelsEffect DEF Releases, Starting
  <2>2. lease'.holder = Nobody \/ lease'.holder = lease.holder
    BY <1>0, CancelsEffect
  <2>. QED  BY <2>1, <2>2 DEF LeaseHasReleaser
<1>3. StartsAreBusy'
  BY <1>0, CancelsEffect DEF StartsAreBusy, Starting, TypeOK
<1>4. RunsAreBusy'
  BY <1>0, CancelsEffect DEF RunsAreBusy, Starting, TypeOK
<1>5. DrainsAreOwn'
  BY <1>0, CancelsEffect DEF DrainsAreOwn, Starting
<1>6. WakersWait'
  BY <1>0, CancelsEffect
<1>. QED  BY <1>1, <1>2, <1>3, <1>4, <1>5, <1>6

LEMMA StopBeginsStep ==
    ASSUME ReleaseInv, NEW r \in Runners, StopBegins(r)
    PROVE  ReleaseInv'
<1>1. failed' \in [Runners -> BOOLEAN]
  BY DEF StopBegins, ReleaseInv, TypeOK
<1>. QED  BY <1>1, DropsStep DEF StopBegins

LEMMA StreamRecyclesStep ==
    ASSUME ReleaseInv, NEW r \in Runners, StreamRecycles(r)
    PROVE  ReleaseInv'
<1>. DEFINE q == registry[ConvOf[r]]
<1>. USE DEF ReleaseInv
<1>1. /\ failed' \in [Runners -> BOOLEAN] /\ q \in Runners \cup {Nobody}
      /\ UNCHANGED <<older, revert, sends>>
  BY DEF StreamRecycles, TypeOK
<1>2. CASE q # Nobody /\ Drops(q)
  BY <1>1, <1>2, DropsStep
<1>3. CASE UNCHANGED <<lease, registry, stage, busy, queue, limbo, starter, consumer,
                       child, writing>>
  BY <1>1, <1>3 DEF TypeOK, LeaseHasReleaser, Releases, Starting, StartsAreBusy,
                    RunsAreBusy, DrainsAreOwn, WakersWait
<1>. QED  BY <1>2, <1>3 DEF StreamRecycles

\* stop() has ended, or the spawn that failed cleans up after itself.
LEMMA StoppedStep ==
    ASSUME ReleaseInv, NEW r \in Runners, OpenFails(r) \/ StopEnds(r)
    PROVE  ReleaseInv'
<1>. USE DEF ReleaseInv
<1>1. /\ LetsGoOfLease(r)
      /\ stage' = [stage EXCEPT ![r] = "stopped"]
      /\ writing' \in [Runners -> BOOLEAN]
      /\ UNCHANGED <<registry, busy, queue, limbo, starter, older, failed, revert, sends>>
      /\ consumer[r] # "run"
  BY DEF OpenFails, StopEnds, RunsAreBusy, TypeOK
<1>2. /\ lease' \in Leases
      /\ lease'.holder = Nobody \/ lease'.holder = lease.holder
      /\ child' \in [Runners -> Children]
      /\ consumer' = consumer
      /\ WakersWait'
  BY <1>1, LetsGoEffect
<1>3. TypeOK'
  BY <1>1, <1>2 DEF TypeOK, Stages
<1>4. LeaseHasReleaser'
  BY <1>1, <1>2 DEF LeaseHasReleaser, Releases, Starting
<1>5. StartsAreBusy' /\ RunsAreBusy' /\ DrainsAreOwn'
  BY <1>1, <1>2 DEF StartsAreBusy, RunsAreBusy, DrainsAreOwn, Starting, TypeOK
<1>. QED  BY <1>2, <1>3, <1>4, <1>5

-----------------------------------------------------------------------------
(* Reverts.                                                                *)

\* What a release by someone else, with its hand-off, leaves alone.
LEMMA ReleaseElsewhere ==
    ASSUME ReleaseInv, NEW l \in Leases, l.holder \notin Convs \/ l.holder = lease.holder,
           l.holder \in Reverts => revert'[l.holder] = "restoring",
           HandsOff(l, Nobody, "own", child, consumer) \/ NoHandOff(l, child, consumer),
           revert' \in [Reverts -> {"idle", "restoring", "orphan", "done"}],
           UNCHANGED <<registry, stage, busy, queue, limbo, starter, older, writing,
                       failed, sends>>
    PROVE  ReleaseInv'
<1>. USE DEF ReleaseInv
<1>1. /\ registry \in [Convs -> Runners \cup {Nobody}]
      /\ consumer \in [Runners -> ConsumerPhases] /\ child \in [Runners -> Children]
      /\ Waits(child, consumer) /\ "own" \in Loops
  BY DEF TypeOK, WakersWait, Waits, Loops
<1>2. /\ lease' \in Leases /\ lease'.holder = l.holder
      /\ child' \in [Runners -> Children]
      /\ consumer' \in [Runners -> ConsumerPhases]
      /\ \A q \in Runners : consumer'[q] = consumer[q]
      /\ WakersWait'
  BY <1>1, HandOffEffect
<1>3. TypeOK'
  BY <1>2 DEF TypeOK
<1>4. LeaseHasReleaser'
  BY <1>2 DEF LeaseHasReleaser, Releases, Starting
<1>5. StartsAreBusy' /\ RunsAreBusy' /\ DrainsAreOwn'
  BY <1>2 DEF StartsAreBusy, RunsAreBusy, DrainsAreOwn, Starting
<1>. QED  BY <1>2, <1>3, <1>4, <1>5

LEMMA RevertSteps ==
    ASSUME ReleaseInv, NEW v \in Reverts, RevertStep(v)
    PROVE  ReleaseInv'
<1>. USE DEF ReleaseInv
<1>0. /\ v \in Holders /\ v \notin Convs /\ v # Nobody /\ lease \in Leases
      /\ Grant(lease, v) \in Leases /\ Grant(lease, v).holder = v
  BY GrantType DEF Holders, TypeOK
<1>1. CASE RevertBegins(v)
  <2>1. /\ lease' = Grant(lease, v)
        /\ revert' = [revert EXCEPT ![v] = "restoring"]
        /\ UNCHANGED <<registry, stage, busy, queue, limbo, starter, consumer, older,
                       child, writing, failed, sends>>
    BY <1>1 DEF RevertBegins
  <2>. QED  BY <1>0, <2>1 DEF TypeOK, LeaseHasReleaser, StartsAreBusy, RunsAreBusy,
                              DrainsAreOwn, WakersWait, Starting
<1>2. CASE RevertFindsNoCheckpoint(v)
  <2>. DEFINE l == Released(Grant(lease, v), v)
  <2>1. l \in Leases /\ l.holder = Nobody
    BY <1>0, ReleasedType DEF Released, Leases
  <2>2. /\ HandsOff(l, Nobody, "own", child, consumer)
        /\ revert' = [revert EXCEPT ![v] = "done"]
        /\ UNCHANGED <<registry, stage, busy, queue, limbo, starter, older, writing,
                       failed, sends>>
    BY <1>2 DEF RevertFindsNoCheckpoint
  <2>3. revert' \in [Reverts -> {"idle", "restoring", "orphan", "done"}]
    BY <2>2 DEF TypeOK
  <2>. HIDE DEF l
  <2>. QED  BY <2>1, <2>2, <2>3, ReleaseElsewhere
<1>3. ASSUME NEW how \in {"done", "orphan"}, RevertLeaves(v, how)
      PROVE  ReleaseInv'
  <2>. DEFINE l == IF lease.holder = Nobody \/ lease.holder = v
                   THEN Released(lease, v) ELSE lease
  <2>1. /\ l \in Leases
        /\ l.holder = Nobody \/ (l.holder = lease.holder /\ lease.holder # v)
    BY <1>0, ReleasedType DEF Released, Leases
  <2>2. /\ HandsOff(l, Nobody, "own", child, consumer) \/ NoHandOff(l, child, consumer)
        /\ revert' = [revert EXCEPT ![v] = how]
        /\ UNCHANGED <<registry, stage, busy, queue, limbo, starter, older, writing,
                       failed, sends>>
    BY <1>3 DEF RevertLeaves
  <2>3. revert' \in [Reverts -> {"idle", "restoring", "orphan", "done"}]
    BY <2>2 DEF TypeOK
  <2>. HIDE DEF l
  <2>4. l.holder \in Reverts => revert'[l.holder] = "restoring"
    BY <2>1, <2>2 DEF LeaseHasReleaser, TypeOK
  <2>. QED  BY <2>1, <2>2, <2>3, <2>4, ReleaseElsewhere
<1>4. CASE OrphanRestoreExits(v)
  <2>1. /\ revert[v] = "orphan" /\ revert' = [revert EXCEPT ![v] = "done"]
        /\ UNCHANGED <<lease, registry, stage, busy, queue, limbo, starter, consumer,
                       older, child, writing, failed, sends>>
    BY <1>4 DEF OrphanRestoreExits
  <2>. QED  BY <2>1 DEF TypeOK, LeaseHasReleaser, StartsAreBusy, RunsAreBusy,
                        DrainsAreOwn, WakersWait, Starting, Releases
<1>. QED  BY <1>1, <1>2, <1>3, <1>4 DEF RevertStep

-----------------------------------------------------------------------------
(* The theorems.                                                           *)

LEMMA ReleaseInvInit == Init => ReleaseInv
<1>. SUFFICES ASSUME Init PROVE ReleaseInv
  OBVIOUS
<1>1. FreeLease \in Leases /\ FreeLease.holder = Nobody
  <2>1. << >> \in Seq(Convs)
    OBVIOUS
  <2>. QED  BY <2>1 DEF FreeLease, Leases
<1>2. NoStarter \in Starters /\ NoStarter.at = "none"
  BY DEF NoStarter, Starters, StartedBy
<1>3. NoChild \in Children /\ NoChild.waker = Nobody
  BY DEF NoChild, Children, Loops
<1>4. TypeOK
  BY <1>1, <1>2, <1>3 DEF Init, TypeOK, Stages, ConsumerPhases
<1>5. LeaseHasReleaser
  BY <1>1 DEF Init, LeaseHasReleaser
<1>6. StartsAreBusy /\ RunsAreBusy /\ DrainsAreOwn /\ WakersWait
  BY <1>2, <1>3 DEF Init, StartsAreBusy, RunsAreBusy, DrainsAreOwn, WakersWait, Starting
<1>. QED  BY <1>4, <1>5, <1>6 DEF ReleaseInv

LEMMA ReleaseInvNext == ReleaseInv /\ [Next]_vars => ReleaseInv'
<1>. SUFFICES ASSUME ReleaseInv, [Next]_vars PROVE ReleaseInv'
  OBVIOUS
<1>1. ASSUME NEW r \in Runners, RunnerStep(r) PROVE ReleaseInv'
  BY <1>1, QuietSteps, SendStartsStep, SendQueuesIdleStep, PromptSentStep,
     PromptFailsStep, DisconnectsStep, PutsBackStep, BookkeepingDoneStep,
     OlderBookkeepingDoneStep, HandOffRunsStep, StopBeginsStep,
     StreamRecyclesStep, StoppedStep DEF RunnerStep
<1>2. ASSUME NEW v \in Reverts, RevertStep(v) PROVE ReleaseInv'
  BY <1>2, RevertSteps
<1>3. CASE LeaseExpires
  <2>1. [lease EXCEPT !.expired = TRUE] \in Leases
    BY DEF ReleaseInv, TypeOK, Leases
  <2>2. lease' \in Leases /\ lease'.holder = lease.holder
    BY <1>3, <2>1 DEF LeaseExpires, ReleaseInv, TypeOK, Leases
  <2>. QED  BY <1>3, <2>2
            DEF LeaseExpires, ReleaseInv, TypeOK, LeaseHasReleaser, StartsAreBusy,
                RunsAreBusy, DrainsAreOwn, WakersWait, Starting, Releases
<1>4. CASE UNCHANGED vars
  BY <1>4 DEF vars, ReleaseInv, TypeOK, LeaseHasReleaser, StartsAreBusy,
              RunsAreBusy, DrainsAreOwn, WakersWait, Starting, Releases
<1>. QED  BY <1>1, <1>2, <1>3, <1>4 DEF Next

\* Every reachable state is well typed, whatever the hazards: what is queued, to be
\* put back or still in its bookkeeping is never taken away twice, and every start,
\* consumer, hand-off and restore is at one of the awaits of its code.
THEOREM TypeCorrect == Spec => []TypeOK
<1>1. ReleaseInv => TypeOK
  BY DEF ReleaseInv
<1>. QED  BY <1>1, ReleaseInvInit, ReleaseInvNext, PTL DEF Spec

\* Whoever holds the workspace's lease still has a task that will release it:
\* a start_turn that acquired it, a turn or its bookkeeping, or a restore. No
\* order of sends, hand-offs, disconnects, stops, recycled streams, process
\* exits, lease expiries and reverts leaves the lease held by no one.
THEOREM LeaseReleased == Spec => []LeaseHasReleaser
<1>1. ReleaseInv => LeaseHasReleaser
  BY DEF ReleaseInv
<1>. QED  BY <1>1, ReleaseInvInit, ReleaseInvNext, PTL DEF Spec

-----------------------------------------------------------------------------
(* The FIFO: the holder of the write-lease never waits, and nobody waits   *)
(* twice.                                                                  *)

\* The invariant: HolderNeverWaits of a well-typed state.
QueueInv == TypeOK /\ WellQueued(lease)

-----------------------------------------------------------------------------
(* What the steps share.                                                   *)

\* A hand-off takes ghosts and the woken waiter off the head of the FIFO.
LEMMA WakeQueue ==
    ASSUME NEW l \in Leases, registry \in [Convs -> Runners \cup {Nobody}],
           WellQueued(l)
    PROVE  WellQueued(Wake(l).lease)
<1>. DEFINE live == {i \in DOMAIN l.waiters : registry[l.waiters[i]] # Nobody}
            i == Min(live)
<1>0. l.waiters \in Seq(Convs) /\ DOMAIN l.waiters = 1..Len(l.waiters) /\ Len(l.waiters) \in Nat
  BY LenProperties DEF Leases
<1>1. CASE l.holder # Nobody
  BY <1>1 DEF Wake
<1>2. ASSUME NEW s, Thins(s, l.waiters), Wake(l).lease = [l EXCEPT !.waiters = s]
      PROVE  WellQueued(Wake(l).lease)
  <2>1. Wake(l).lease.holder = l.holder /\ Wake(l).lease.waiters = s
    BY <1>2 DEF Leases
  <2>. QED  BY <1>2, <2>1 DEF WellQueued, Thins
<1>3. CASE l.holder = Nobody /\ live = {}
  <2>1. Wake(l).lease = [l EXCEPT !.waiters = << >>]
    BY <1>3 DEF Wake
  <2>. QED  BY <1>0, <1>2, <2>1, EmptyThins
<1>4. CASE l.holder = Nobody /\ live # {}
  <2>1. Wake(l).lease = [l EXCEPT !.waiters = SubSeq(l.waiters, i + 1, Len(l.waiters))]
    BY <1>4 DEF Wake
  <2>2. live \in SUBSET Nat /\ live # {}
    BY <1>0, <1>4
  <2>3. i \in live
    <3>. HIDE DEF live
    <3>. QED  BY <2>2, MinExists
  <2>4. i \in 1..Len(l.waiters)
    BY <1>0, <2>3
  <2>. HIDE DEF i, live
  <2>5. Thins(SubSeq(l.waiters, i + 1, Len(l.waiters)), l.waiters)
    BY <1>0, <2>4, SuffixThins
  <2>. QED  BY <1>2, <2>1, <2>5
<1>. QED  BY <1>1, <1>3, <1>4

\* A step that leaves the lease at l, with or without a hand-off after it.
LEMMA LeavesQueue ==
    ASSUME QueueInv, NEW l \in Leases, WellQueued(l),
           lease' = l \/ lease' = Wake(l).lease
    PROVE  WellQueued(lease')
BY WakeQueue DEF QueueInv, TypeOK

LEMMA LeaseAfter ==
    ASSUME NEW l, NEW waker, NEW loop, NEW children, NEW consumers,
           \/ HandsOff(l, waker, loop, children, consumers)
           \/ NoHandOff(l, children, consumers)
    PROVE  lease' = l \/ lease' = Wake(l).lease
BY DEF HandsOff, NoHandOff

LEMMA ConvHolds ==
    ASSUME QueueInv, NEW r \in Runners
    PROVE  ConvOf[r] \in Convs /\ ConvOf[r] \in Holders /\ lease \in Leases
BY DEF QueueInv, TypeOK, Holders

\* The lease without a runner's claim to it.
LEMMA ReleaseQueue ==
    ASSUME QueueInv, NEW r \in Runners
    PROVE  /\ Released(lease, ConvOf[r]) \in Leases
           /\ WellQueued(Released(lease, ConvOf[r]))
BY ConvHolds, ReleasedType, ReleasedQueue DEF QueueInv

LEMMA StartQueue ==
    ASSUME NEW r \in Runners, NEW l \in Leases, NEW by, WellQueued(l),
           ConvOf[r] \in Holders, Starts(r, l, by)
    PROVE  WellQueued(lease')
BY AcquiredQueue DEF Starts

\* A drain that declines registers its conversation, which does not hold.
LEMMA DeclineQueue ==
    ASSUME NEW r \in Runners, NEW l \in Leases, NEW q, WellQueued(l),
           ConvOf[r] \in Convs, DrainDeclines(r, l, q)
    PROVE  /\ AfterDecline(r, l, q) \in Leases
           /\ WellQueued(AfterDecline(r, l, q))
BY WithWaiterType, WithWaiterQueue DEF AfterDecline, DrainDeclines, CanAcquire

-----------------------------------------------------------------------------
(* The steps.                                                              *)

\* Most steps leave the lease alone.
LEMMA QueueUntouched ==
    ASSUME QueueInv, UNCHANGED lease
    PROVE  WellQueued(lease')
BY DEF QueueInv

LEMMA LetsGoQueue ==
    ASSUME QueueInv, NEW r \in Runners, LetsGoOfLease(r)
    PROVE  WellQueued(lease')
<1>. DEFINE w == WithoutWaiter(lease, ConvOf[r])
            l == Released(w, ConvOf[r])
<1>1. w \in Leases /\ WellQueued(w)
  BY ConvHolds, WithoutWaiterType, WithoutWaiterQueue DEF QueueInv
<1>. HIDE DEF w
<1>2. l \in Leases /\ WellQueued(l)
  BY <1>1, ConvHolds, ReleasedType, ReleasedQueue
<1>3. lease' = l \/ lease' = Wake(l).lease
  BY LeaseAfter DEF LetsGoOfLease, w
<1>. HIDE DEF l
<1>. QED  BY <1>2, <1>3, LeavesQueue

LEMMA SendQueue ==
    ASSUME QueueInv, NEW r \in Runners,
           SendStarts(r) \/ SendWaits(r) \/ SendQueuesIdle(r)
    PROVE  WellQueued(lease')
<1>. USE ConvHolds DEF QueueInv
<1>1. CASE SendStarts(r)
  BY <1>1, StartQueue DEF SendStarts
<1>2. CASE SendWaits(r)
  BY <1>2, WithWaiterQueue DEF SendWaits, CanAcquire
<1>3. CASE SendQueuesIdle(r)
  <2>1. CASE DrainStarts(r, lease, queue[r] + 1, "drain")
    BY <2>1, StartQueue DEF DrainStarts
  <2>2. CASE /\ DrainDeclines(r, lease, queue[r] + 1)
             /\ lease' = AfterDecline(r, lease, queue[r] + 1)
    BY <2>2, DeclineQueue
  <2>. QED  BY <1>3, <2>1, <2>2 DEF SendQueuesIdle
<1>. QED  BY <1>1, <1>2, <1>3

LEMMA PromptSentQueue ==
    ASSUME QueueInv, NEW r \in Runners, PromptSent(r)
    PROVE  WellQueued(lease')
<1>1. lease' = lease \/ lease' = Wake(lease).lease
  BY LeaseAfter DEF PromptSent
<1>. QED  BY <1>1, ConvHolds, LeavesQueue DEF QueueInv

LEMMA StartEndsQueue ==
    ASSUME QueueInv, NEW r \in Runners, StartEnds(r)
    PROVE  WellQueued(lease')
<1>. DEFINE freed == starter[r].fresh /\ lease.holder = ConvOf[r]
            l == IF freed THEN Released(lease, ConvOf[r]) ELSE lease
<1>1. l \in Leases /\ WellQueued(l)
  BY ConvHolds, ReleaseQueue DEF QueueInv
<1>2. \/ lease' = Wake(l).lease
      \/ lease' = lease /\ ~freed
  BY DEF StartEnds, HandsOff, NoHandOff
<1>3. lease' = l \/ lease' = Wake(l).lease
  BY <1>2
<1>. HIDE DEF l
<1>. QED  BY <1>1, <1>3, LeavesQueue

LEMMA ClosesQueue ==
    ASSUME QueueInv, NEW r \in Runners, NEW by, NEW waker, Closes(r, by, waker)
    PROVE  WellQueued(lease')
<1>. DEFINE l == Released(lease, ConvOf[r])
            d == AfterDecline(r, l, queue[r])
<1>1. l \in Leases /\ WellQueued(l)
  BY ReleaseQueue
<1>2. \/ DrainStarts(r, l, queue[r], by)
      \/ /\ DrainDeclines(r, l, queue[r])
         /\ HandsOff(d, waker, "own", child, consumer)
  BY DEF Closes
<1>. HIDE DEF l
<1>3. CASE DrainStarts(r, l, queue[r], by)
  BY <1>1, <1>3, ConvHolds, StartQueue DEF DrainStarts
<1>4. CASE /\ DrainDeclines(r, l, queue[r])
           /\ HandsOff(d, waker, "own", child, consumer)
  <2>1. d \in Leases /\ WellQueued(d)
    BY <1>1, <1>4, ConvHolds, DeclineQueue
  <2>. HIDE DEF d
  <2>2. lease' = Wake(d).lease
    BY <1>4 DEF HandsOff
  <2>. QED  BY <2>1, <2>2, LeavesQueue
<1>. QED  BY <1>2, <1>3, <1>4

LEMMA HandOffQueue ==
    ASSUME QueueInv, NEW t \in Runners, HandOffRuns(t)
    PROVE  WellQueued(lease')
<1>. DEFINE l == AfterDecline(t, lease, queue[t])
<1>1. CASE DrainStarts(t, lease, queue[t], "task")
  BY <1>1, ConvHolds, StartQueue DEF DrainStarts, QueueInv
<1>2. CASE /\ DrainDeclines(t, lease, queue[t])
           /\ lease' = l \/ lease' = Wake(l).lease
  <2>1. l \in Leases /\ WellQueued(l)
    BY <1>2, ConvHolds, DeclineQueue DEF QueueInv
  <2>. HIDE DEF l
  <2>. QED  BY <1>2, <2>1, LeavesQueue
<1>. QED  BY <1>1, <1>2 DEF HandOffRuns, HandsOff, NoHandOff

LEMMA CancelsQueue ==
    ASSUME QueueInv, NEW r \in Runners, CancelsConsumer(r)
    PROVE  WellQueued(lease')
<1>. DEFINE l == Released(lease, ConvOf[r])
<1>1. l \in Leases /\ WellQueued(l) /\ lease \in Leases /\ WellQueued(lease)
  BY ConvHolds, ReleaseQueue DEF QueueInv
<1>2. consumer[r] \in {"none", "run", "post", "drain", "wake"}
  BY DEF QueueInv, TypeOK, ConsumerPhases
<1>3. CASE consumer[r] \in {"none", "run", "wake"}
  BY <1>3, QueueUntouched DEF CancelsConsumer
<1>4. CASE consumer[r] = "post"
  BY <1>1, <1>4 DEF CancelsConsumer, NoHandOff
<1>5. CASE consumer[r] = "drain"
  <2>1. lease' = lease \/ lease' = Wake(l).lease
    BY <1>5 DEF CancelsConsumer, HandsOff, NoHandOff
  <2>. HIDE DEF l
  <2>. QED  BY <1>1, <2>1, LeavesQueue
<1>. QED  BY <1>2, <1>3, <1>4, <1>5

LEMMA StopQueue ==
    ASSUME QueueInv, NEW r \in Runners, StopBegins(r) \/ StreamRecycles(r)
    PROVE  WellQueued(lease')
<1>1. ASSUME NEW q \in Runners, Drops(q) PROVE WellQueued(lease')
  BY <1>1, CancelsQueue DEF Drops
<1>2. CASE StopBegins(r)
  BY <1>1, <1>2 DEF StopBegins
<1>3. CASE StreamRecycles(r)
  <2>1. registry[ConvOf[r]] \in Runners \cup {Nobody}
    BY DEF QueueInv, TypeOK
  <2>2. \/ registry[ConvOf[r]] # Nobody /\ Drops(registry[ConvOf[r]])
        \/ UNCHANGED lease
    BY <1>3 DEF StreamRecycles
  <2>. QED  BY <1>1, <2>1, <2>2, QueueUntouched
<1>. QED  BY <1>2, <1>3

LEMMA RevertQueue ==
    ASSUME QueueInv, NEW v \in Reverts, RevertStep(v)
    PROVE  WellQueued(lease')
<1>0. v \in Holders /\ lease \in Leases /\ WellQueued(lease)
  BY DEF Holders, QueueInv, TypeOK
<1>1. Grant(lease, v) \in Leases /\ WellQueued(Grant(lease, v))
  BY <1>0, GrantType, GrantQueue
<1>2. CASE RevertBegins(v)
  BY <1>1, <1>2 DEF RevertBegins
<1>3. CASE RevertFindsNoCheckpoint(v)
  <2>. DEFINE l == Released(Grant(lease, v), v)
  <2>1. l \in Leases /\ WellQueued(l)
    BY <1>0, <1>1, ReleasedType, ReleasedQueue
  <2>2. lease' = Wake(l).lease
    BY <1>3 DEF RevertFindsNoCheckpoint, HandsOff
  <2>. HIDE DEF l
  <2>. QED  BY <2>1, <2>2, LeavesQueue
<1>4. ASSUME NEW how, RevertLeaves(v, how) PROVE WellQueued(lease')
  <2>. DEFINE l == Released(lease, v)
  <2>1. l \in Leases /\ WellQueued(l)
    BY <1>0, ReleasedType, ReleasedQueue
  <2>2. lease' = lease \/ lease' = Wake(l).lease
    BY <1>4 DEF RevertLeaves, HandsOff, NoHandOff
  <2>. HIDE DEF l
  <2>. QED  BY <1>0, <2>1, <2>2, LeavesQueue
<1>5. CASE OrphanRestoreExits(v)
  BY <1>5, QueueUntouched DEF OrphanRestoreExits
<1>. QED  BY <1>2, <1>3, <1>4, <1>5 DEF RevertStep

-----------------------------------------------------------------------------
(* The theorem.                                                            *)

LEMMA QueueInit == Init => WellQueued(lease)
<1>1. << >> \in Seq(Convs) /\ ToSet(<< >>) = {} /\ IsInjective(<< >>)
  BY DEF ToSet, IsInjective
<1>. QED  BY <1>1 DEF Init, FreeLease, WellQueued

LEMMA QueueNext == QueueInv /\ [Next]_vars => WellQueued(lease')
<1>. SUFFICES ASSUME QueueInv, [Next]_vars PROVE WellQueued(lease')
  OBVIOUS
<1>1. ASSUME NEW r \in Runners, RunnerStep(r) PROVE WellQueued(lease')
  <2>1. CASE \/ OpenBegins(r) \/ OpenSucceeds(r) \/ SendQueues(r) \/ Dequeues(r)
             \/ PromptBlocks(r) \/ PutsBack(r)
             \/ AgentExits(r) \/ TurnEnds(r) \/ AgentFallsSilent(r)
    BY <2>1, QueueUntouched
    DEF OpenBegins, OpenSucceeds, SendQueues, Dequeues, PromptBlocks, PutsBack,
        AgentExits, TurnEnds, AgentFallsSilent
  <2>2. CASE OpenFails(r) \/ StopEnds(r)
    BY <2>2, LetsGoQueue DEF OpenFails, StopEnds
  <2>3. CASE SendStarts(r) \/ SendWaits(r) \/ SendQueuesIdle(r)
    BY <2>3, SendQueue
  <2>4. CASE PromptSent(r)
    BY <2>4, PromptSentQueue
  <2>5. CASE PromptFails(r) \/ Disconnects(r)
    BY <2>5, StartEndsQueue DEF PromptFails, Disconnects
  <2>6. CASE BookkeepingDone(r) \/ OlderBookkeepingDone(r)
    BY <2>6, ClosesQueue DEF BookkeepingDone, OlderBookkeepingDone
  <2>7. CASE HandOffRuns(r)
    BY <2>7, HandOffQueue
  <2>8. CASE StopBegins(r) \/ StreamRecycles(r)
    BY <2>8, StopQueue
  <2>. QED  BY <1>1, <2>1, <2>2, <2>3, <2>4, <2>5, <2>6, <2>7, <2>8 DEF RunnerStep
<1>2. ASSUME NEW v \in Reverts, RevertStep(v) PROVE WellQueued(lease')
  BY <1>2, RevertQueue
<1>3. CASE LeaseExpires
  <2>1. lease'.holder = lease.holder /\ lease'.waiters = lease.waiters
    BY <1>3 DEF LeaseExpires, QueueInv, TypeOK, Leases
  <2>. QED  BY <2>1 DEF QueueInv, WellQueued
<1>4. CASE UNCHANGED vars
  BY <1>4, QueueUntouched DEF vars
<1>. QED  BY <1>1, <1>2, <1>3, <1>4 DEF Next

\* The holder of the lease is never queued for it and no conversation is queued
\* twice, through every grant, refusal, wake-up, reclaim, stop and revert: what
\* the comments of WriteLease._grant and add_waiter claim.
THEOREM FifoExclusive == Spec => []HolderNeverWaits
<1>. DEFINE Inv == ReleaseInv /\ WellQueued(lease)
<1>1. Init => Inv
  BY ReleaseInvInit, QueueInit
<1>2. Inv /\ [Next]_vars => Inv'
  <2>1. ReleaseInv => TypeOK
    BY DEF ReleaseInv
  <2>2. WellQueued(lease)' <=> WellQueued(lease')
    OBVIOUS
  <2>. QED  BY <2>1, <2>2, ReleaseInvNext, QueueNext DEF QueueInv
<1>3. Inv => HolderNeverWaits
  BY DEF HolderNeverWaits, WellQueued
<1>. QED  BY <1>1, <1>2, <1>3, PTL DEF Spec

=============================================================================
