--------------------- MODULE CoderMessagesJournal_proofs ---------------------
(***************************************************************************)
(* What the journals of a conversation tell, for any number of messages,   *)
(* turns, items and restarts: that what is over has answered its requests  *)
(* and ended as its status says, and that a client is shown exactly that.  *)
(*                                                                         *)
(* Three layers, each an invariant that rests on the one before: MoveInv   *)
(* relates memory, index and files of every turn; StoryInv says what a     *)
(* journal tells of its turn, in memory and on disk; FollowInv relates the *)
(* client to both.                                                         *)
(***************************************************************************)
EXTENDS CoderMessages_proofs

-----------------------------------------------------------------------------
(* What files, index and memory say of a turn.                             *)

Full(s) == "overflow" \in ToSet(s)
Has(idx, u, st) == \E i \in DOMAIN idx : idx[i].turn = u /\ idx[i].status = st

LEMMA FullConcat ==
    ASSUME NEW s \in Seq(Kinds), NEW r \in Seq(Kinds)
    PROVE  Full(s \o r) <=> Full(s) \/ Full(r)
BY ConcatElements DEF Full

LEMMA StoredFacts ==
    ASSUME scope \in Scopes, NEW j \in Journals, NEW t \in TurnIds, NEW kinds \in Seq(Kinds),
           t \in j.full => Full(j.files[t])
    PROVE  /\ \A u \in TurnIds \ {t} : /\ Stored(j, t, kinds).files[u] = j.files[u]
                                       /\ (u \in Stored(j, t, kinds).full <=> u \in j.full)
           /\ t \in Stored(j, t, kinds).full => Full(Stored(j, t, kinds).files[t])
           /\ ~Full(Stored(j, t, kinds).files[t]) =>
                 ~Full(j.files[t]) /\ Stored(j, t, kinds).files[t] = j.files[t] \o kinds
<1>. DEFINE n == Len(j.files[t])
            left == IF n < scope.room THEN scope.room - n ELSE 0
            cut == SubSeq(kinds, 1, left + 1)
<1>1. /\ j.files[t] \in Seq(Kinds) /\ j.files \in [TurnIds -> Seq(Kinds)] /\ j.full \in SUBSET TurnIds
      /\ j = [files |-> j.files, full |-> j.full]
  BY DEF Journals
<1>2. n \in Nat /\ scope.room \in Nat /\ left \in Nat /\ Len(kinds) \in Nat
  BY <1>1, Parameters, LenProperties
<1>3. ASSUME ~(Len(kinds) <= left) PROVE Full(j.files[t] \o cut \o <<"overflow">>)
  <2>1. \A i \in 1..(left + 1) : kinds[i] \in Kinds
    BY <1>2, <1>3, ElementOfSeq
  <2>2. cut \in Seq(Kinds)
    BY <1>2, <2>1, SubSeqProperties
  <2>. HIDE DEF cut
  <2>3. <<"overflow">> \in Seq(Kinds) /\ Full(<<"overflow">>)
    BY DEF Kinds, Full, ToSet
  <2>4. j.files[t] \o cut \in Seq(Kinds)
    BY <2>2, <1>1, ConcatProperties
  <2>. QED  BY <2>3, <2>4, FullConcat
<1>4. CASE t \in j.full
  BY <1>4 DEF Stored
<1>5. CASE t \notin j.full /\ Len(kinds) <= left
  <2>1. PICK s : s = j.files[t] \o kinds
    OBVIOUS
  <2>2. Stored(j, t, kinds) = [j EXCEPT !.files[t] = s]
    BY <1>5, <2>1 DEF Stored
  <2>3. /\ \A u \in TurnIds \ {t} : Stored(j, t, kinds).files[u] = j.files[u]
        /\ Stored(j, t, kinds).full = j.full /\ Stored(j, t, kinds).files[t] = s
    BY <2>2, <1>1
  <2>4. ~Full(s) => ~Full(j.files[t])
    BY <1>1, <2>1, FullConcat
  <2>. QED  BY <2>1, <2>3, <2>4, <1>5
<1>6. CASE t \notin j.full /\ ~(Len(kinds) <= left)
  <2>1. PICK s : s = j.files[t] \o cut \o <<"overflow">>
    OBVIOUS
  <2>2. Stored(j, t, kinds) = [files |-> [j.files EXCEPT ![t] = s], full |-> j.full \cup {t}]
    BY <1>6, <2>1 DEF Stored
  <2>3. Full(s)
    BY <1>3, <1>6, <2>1
  <2>4. /\ \A u \in TurnIds \ {t} : Stored(j, t, kinds).files[u] = j.files[u]
        /\ Stored(j, t, kinds).full = j.full \cup {t} /\ Stored(j, t, kinds).files[t] = s
    BY <2>2, <1>1
  <2>. QED  BY <2>3, <2>4
<1>. QED  BY <1>4, <1>5, <1>6

LEMMA PrunedFacts ==
    ASSUME NEW j \in Journals, NEW idx, NEW u \in TurnIds
    PROVE  /\ Indexed(idx, u) => /\ Pruned(j, idx).files[u] = j.files[u]
                                 /\ (u \in Pruned(j, idx).full <=> u \in j.full)
           /\ ~Indexed(idx, u) => Pruned(j, idx).files[u] = <<>> /\ u \notin Pruned(j, idx).full
<1>1. PICK kept : kept = {idx[i].turn : i \in DOMAIN idx}
  OBVIOUS
<1>2. Indexed(idx, u) <=> u \in kept
  BY <1>1 DEF Indexed
<1>3. /\ Pruned(j, idx).files = [t \in TurnIds |-> IF t \in kept THEN j.files[t] ELSE <<>>]
      /\ Pruned(j, idx).full = j.full \cap kept
  BY <1>1 DEF Pruned
<1>. QED  BY <1>2, <1>3

LEMMA HasIndexed ==
    ASSUME NEW idx \in Seq(IndexRows), NEW u
    PROVE  /\ Indexed(idx, u) => \E st \in Ends \cup {"running"} : Has(idx, u, st)
           /\ \A st : Has(idx, u, st) => Indexed(idx, u)
<1>1. DOMAIN idx = 1..Len(idx) /\ \A i \in 1..Len(idx) : idx[i] \in IndexRows
  BY LenProperties, ElementOfSeq
<1>. QED  BY <1>1 DEF Has, Indexed, IndexRows

LEMMA NotedHas ==
    ASSUME NEW ts \in TurnStates, NEW t \in TurnIds, ts[t].msg \in Messages,
           NEW idx \in Seq(IndexRows), Len(idx) <= Keep, NEW u, NEW st, Has(Noted(idx, ts, t), u, st)
    PROVE  (u = t /\ st = ts[t].status) \/ (u # t /\ Has(idx, u, st))
<1>1. PICK r : r = Noted(idx, ts, t)
  OBVIOUS
<1>2. /\ r \in Seq(IndexRows)
      /\ Indexed(idx, t) =>
            /\ Len(r) = Len(idx)
            /\ \A i \in 1..Len(idx) : r[i] = IF idx[i].turn = t THEN Entry(ts, t) ELSE idx[i]
      /\ ~Indexed(idx, t) => r = Newest(Keep, Append(idx, Entry(ts, t)))
  BY <1>1, NotedTyped
<1>3. DOMAIN r = 1..Len(r) /\ DOMAIN idx = 1..Len(idx) /\ Len(idx) \in Nat /\ Len(r) \in Nat
  BY <1>2, LenProperties
<1>4. PICK i \in 1..Len(r) : r[i].turn = u /\ r[i].status = st
  BY <1>1, <1>3 DEF Has
<1>5. Entry(ts, t).turn = t /\ Entry(ts, t).status = ts[t].status /\ Entry(ts, t) \in IndexRows
  BY DEF Entry, IndexRows, TurnStates
<1>6. CASE Indexed(idx, t)
  BY <1>2, <1>3, <1>4, <1>5, <1>6 DEF Has
<1>7. CASE ~Indexed(idx, t)
  <2>1. PICK a : a = Append(idx, Entry(ts, t))
    OBVIOUS
  <2>2. /\ a \in Seq(IndexRows) /\ Len(a) = Len(idx) + 1 /\ a[Len(idx) + 1] = Entry(ts, t)
        /\ \A k \in 1..Len(idx) : a[k] = idx[k]
    BY <2>1, <1>5, AppendProperties
  <2>3. r = Newest(Keep, a)
    BY <1>2, <1>7, <2>1
  <2>4. Len(r) <= Len(a) /\ \A k \in 1..Len(r) : r[k] = a[k + (Len(a) - Len(r))]
    BY <2>2, <2>3, NewestFacts, Bounds
  <2>5. PICK k \in 1..Len(a) : r[i] = a[k]
    BY <2>2, <2>4, <1>3, <1>4
  <2>6. CASE k = Len(idx) + 1
    BY <2>2, <2>5, <2>6, <1>4, <1>5
  <2>7. CASE k \in 1..Len(idx)
    <3>1. r[i] = idx[k] /\ k \in DOMAIN idx
      BY <2>2, <2>5, <2>7, <1>3
    <3>. QED  BY <3>1, <1>4, <1>7 DEF Has, Indexed
  <2>. QED  BY <2>2, <2>6, <2>7, <1>3
<1>. QED  BY <1>6, <1>7

-----------------------------------------------------------------------------
(* Where turns stand, in memory, index and file.                           *)

\* A turn runs as its stage says, and no turn but the current one starts or runs.
Phase(ts, u, cur, n) ==
    ts[u].stage # "none" =>
        /\ u <= n
        /\ ts[u].status = "running" <=> ts[u].stage \in {"pre", "run"}
        /\ ts[u].stage \in {"pre", "run"} => u = cur

\* What an entry of the index says of its turn: its end is the turn's, and a turn
\* that is over is not listed as running unless its bookkeeping was cancelled.
Listed(u) ==
    \A st : Has(index, u, st) =>
        /\ turn[u].stage \notin {"pre", "unsent"}
        /\ runner # "down" => turn[u].stage # "none"
        /\ st # "running" /\ turn[u].stage # "none" => turn[u].status = st
        /\ turn[u].stage \in {"handing", "closed"} /\ scope.hazard # "late" => st # "running"

\* The file has what the memory has, unless it overflowed.
Filed(u) ==
    /\ u > used.turns => journal.files[u] = <<>>
    /\ u \in journal.full => Full(journal.files[u])
    /\ turn[u].stage # "none" /\ (Indexed(index, u) \/ turn[u].stage = "pre")
       /\ ~Full(journal.files[u]) => turn[u].items = journal.files[u]

Quiet ==
    /\ asking => Running
    /\ runner = "down" => \A u \in TurnIds : turn[u].stage \in {"none", "closed", "unsent"}
    /\ \A i \in 1..Len(order) : turn[order[i]].stage \notin {"pre", "unsent"}

Moves ==
    /\ \A u \in TurnIds : Phase(turn, u, current, used.turns) /\ Listed(u) /\ Filed(u)
    /\ Quiet

MoveInv == OnceInv /\ Moves

\* No /open overlaps the end of the runner it replaces.
Apart == scope.hazard # "overlap"

\* A step that makes ts, j and idx of turns, files and index has appended kinds to
\* the journal of turn u, and filed and noted what it did.
Carries(ts, j, idx, u, kinds) ==
    /\ kinds \in Seq(Kinds)
    /\ ts[u].items = turn[u].items \o kinds
    /\ ts[u].stage = "none" <=> turn[u].stage = "none"
    /\ turn[u].stage = "none" => kinds = <<>>
    /\ ts[u].stage = "pre" => turn[u].stage = "pre"
    /\ ts[u].stage = "unsent" => turn[u].stage \in {"pre", "unsent"}
    /\ turn[u].status # "running" => ts[u].status = turn[u].status
    /\ u > used.turns => j.files[u] = <<>>
    /\ u \in j.full => Full(j.files[u])
    /\ (Indexed(idx, u) \/ ts[u].stage = "pre") /\ ~Full(j.files[u]) =>
          ~Full(journal.files[u]) /\ j.files[u] = journal.files[u] \o kinds
    /\ \A st : Has(idx, u, st) => Has(index, u, st) \/ st = ts[u].status
    /\ Indexed(idx, u) =>
          (Indexed(index, u) \/ turn[u].stage = "pre") /\ ts[u].stage \notin {"pre", "unsent"}
    /\ ts[u].stage \in {"handing", "closed"} =>
          \/ turn[u].stage \in {"handing", "closed"} \/ scope.hazard = "late"
          \/ \A st : Has(idx, u, st) => st = ts[u].status

LEMMA MoveFacts ==
    ASSUME MoveInv
    PROVE  /\ TypeInv /\ Entries /\ turn \in TurnStates /\ journal \in Journals
           /\ index \in Seq(IndexRows) /\ Len(index) <= Keep /\ scope \in Scopes
           /\ used.turns \in Nat /\ current \in 0..MaxTurns /\ (current # 0 => current \in TurnIds)
           /\ (Busy <=> \E u \in TurnIds : turn[u].stage \in {"pre", "run"})
           /\ \A u \in TurnIds : /\ turn[u].items \in Seq(Kinds) /\ journal.files[u] \in Seq(Kinds)
                                 /\ (turn[u].stage = "none" <=> ~(turn[u].stage \in Stages \ {"none"}))
                                 /\ turn[u].stage \in Stages
<1>1. TypeInv /\ Entries
  BY DEF MoveInv, OnceInv
<1>2. /\ turn \in TurnStates /\ journal \in Journals /\ index \in Seq(IndexRows) /\ Len(index) <= Keep
      /\ scope \in Scopes /\ current \in 0..MaxTurns /\ (current # 0 => current \in TurnIds)
  BY <1>1, TypesGiven
<1>3. used.turns \in Nat
  BY <1>1, ScopeBound
<1>4. \A u \in TurnIds : /\ turn[u].items \in Seq(Kinds) /\ turn[u].stage \in Stages
                         /\ journal.files[u] \in Seq(Kinds)
  BY <1>2 DEF TurnStates, Journals
<1>5. \A u \in TurnIds : Phase(turn, u, current, used.turns)
  BY DEF MoveInv, Moves
<1>6. ASSUME Busy PROVE \E u \in TurnIds : turn[u].stage \in {"pre", "run"}
  <2>1. current \in TurnIds /\ turn[current].status = "running" /\ turn[current].stage # "none"
    BY <1>1, <1>2, <1>6 DEF Busy, TypeInv, Known
  <2>. QED  BY <2>1, <1>5 DEF Phase
<1>7. ASSUME NEW u \in TurnIds, turn[u].stage \in {"pre", "run"} PROVE Busy
  <2>1. u = current /\ turn[u].status = "running"
    BY <1>5, <1>7 DEF Phase
  <2>2. current # 0
    BY <2>1, Bounds DEF TurnIds
  <2>. QED  BY <2>1, <2>2 DEF Busy
<1>. QED  BY <1>1, <1>2, <1>3, <1>4, <1>6, <1>7

LEMMA CarriesMoves ==
    ASSUME MoveInv, NEW u \in TurnIds, NEW kinds, Carries(turn', journal', index', u, kinds),
           Phase(turn', u, current', used'.turns), TypeInv',
           scope' = scope, runner' # "down" => runner # "down", used'.turns >= used.turns
    PROVE  Listed(u)' /\ Filed(u)'
<1>1. Phase(turn, u, current, used.turns) /\ Listed(u) /\ Filed(u)
  BY DEF MoveInv, Moves
<1>2. index \in Seq(IndexRows) /\ index' \in Seq(IndexRows) /\ used.turns \in Nat /\ used'.turns \in Nat
      /\ u \in Nat
  <2>1. index' \in Seq(IndexRows)
    BY DEF TypeInv, TypeOK, IndexRows
  <2>2. used'.turns \in Nat
    BY DEF TypeInv, Counts
  <2>. QED  BY <2>1, <2>2, MoveFacts DEF TurnIds
<1>3. Listed(u)'
  <2>1. ASSUME NEW st, Has(index', u, st)
        PROVE  /\ turn'[u].stage \notin {"pre", "unsent"}
               /\ runner' # "down" => turn'[u].stage # "none"
               /\ st # "running" /\ turn'[u].stage # "none" => turn'[u].status = st
               /\ turn'[u].stage \in {"handing", "closed"} /\ scope'.hazard # "late" => st # "running"
    <3>1. Indexed(index', u)
      BY <1>2, <2>1, HasIndexed
    <3>2. turn'[u].stage \notin {"pre", "unsent"}
      BY <3>1 DEF Carries
    <3>3. Indexed(index, u) \/ turn[u].stage = "pre"
      BY <3>1 DEF Carries
    <3>4. runner' # "down" => turn'[u].stage # "none"
      <4>1. CASE turn[u].stage = "pre"
        BY <4>1 DEF Carries
      <4>2. CASE Indexed(index, u)
        <5>1. PICK s : Has(index, u, s)
          BY <1>2, <4>2, HasIndexed
        <5>2. runner # "down" => turn[u].stage # "none"
          BY <5>1, <1>1 DEF Listed
        <5>. QED  BY <5>2 DEF Carries
      <4>. QED  BY <3>3, <4>1, <4>2
    <3>5. Has(index, u, st) \/ st = turn'[u].status
      BY <2>1 DEF Carries
    <3>6. st # "running" /\ turn'[u].stage # "none" => turn'[u].status = st
      <4>1. CASE Has(index, u, st)
        <5>1. st # "running" /\ turn[u].stage # "none" => turn[u].status = st
          BY <4>1, <1>1 DEF Listed
        <5>. QED  BY <5>1 DEF Carries
      <4>. QED  BY <3>5, <4>1
    <3>7. ASSUME turn'[u].stage \in {"handing", "closed"}, scope.hazard # "late" PROVE st # "running"
      <4>1. turn'[u].stage # "none" /\ turn'[u].status # "running"
        BY <3>7 DEF Phase
      <4>2. CASE turn[u].stage \in {"handing", "closed"} /\ Has(index, u, st)
        BY <4>2, <3>7, <1>1 DEF Listed
      <4>3. CASE \A s : Has(index', u, s) => s = turn'[u].status
        BY <4>1, <4>3, <2>1
      <4>. QED  BY <3>5, <3>7, <4>1, <4>2, <4>3 DEF Carries
    <3>. QED  BY <3>2, <3>4, <3>6, <3>7
  <2>. QED  BY <2>1 DEF Listed
<1>4. Filed(u)'
  <2>1. u > used'.turns => journal'.files[u] = <<>>
    BY <1>2 DEF Carries
  <2>2. u \in journal'.full => Full(journal'.files[u])
    BY DEF Carries
  <2>3. ASSUME turn'[u].stage # "none", Indexed(index', u) \/ turn'[u].stage = "pre", ~Full(journal'.files[u])
        PROVE  turn'[u].items = journal'.files[u]
    <3>1. ~Full(journal.files[u]) /\ journal'.files[u] = journal.files[u] \o kinds
      BY <2>3 DEF Carries
    <3>2. turn[u].stage # "none" /\ (Indexed(index, u) \/ turn[u].stage = "pre")
      BY <2>3 DEF Carries
    <3>3. turn[u].items = journal.files[u]
      BY <3>1, <3>2, <1>1 DEF Filed
    <3>. QED  BY <3>1, <3>3 DEF Carries
  <2>. QED  BY <2>1, <2>2, <2>3 DEF Filed
<1>. QED  BY <1>3, <1>4

\* A turn a step leaves alone.
LEMMA CarriesNothing ==
    ASSUME MoveInv, NEW ts, NEW j, NEW idx \in Seq(IndexRows), NEW u \in TurnIds, ts[u] = turn[u],
           \/ j.files[u] = journal.files[u] /\ (u \in j.full <=> u \in journal.full)
           \/ ~Indexed(idx, u) /\ turn[u].stage # "pre" /\ j.files[u] = <<>> /\ u \notin j.full,
           \A st : Has(idx, u, st) => Has(index, u, st)
    PROVE  Carries(ts, j, idx, u, <<>>)
<1>1. PICK e : e = <<>>
  OBVIOUS
<1>2. /\ turn[u].items \in Seq(Kinds) /\ journal.files[u] \in Seq(Kinds) /\ index \in Seq(IndexRows)
      /\ Phase(turn, u, current, used.turns) /\ Listed(u) /\ Filed(u)
  BY MoveFacts DEF MoveInv, Moves
<1>3. e \in Seq(Kinds) /\ turn[u].items = turn[u].items \o e /\ journal.files[u] = journal.files[u] \o e
  BY <1>1, <1>2, EmptySeq, ConcatEmptySeq
<1>4. Indexed(idx, u) => Indexed(index, u) /\ turn[u].stage \notin {"pre", "unsent"}
  <2>1. ASSUME Indexed(idx, u) PROVE Indexed(index, u) /\ turn[u].stage \notin {"pre", "unsent"}
    <3>1. PICK st : Has(idx, u, st)
      BY <2>1, HasIndexed
    <3>2. Has(index, u, st)
      BY <3>1
    <3>. QED  BY <1>2, <3>2, HasIndexed DEF Listed
  <2>. QED  BY <2>1
<1>5. u > used.turns => j.files[u] = <<>>
  BY <1>2 DEF Filed
<1>6. u \in j.full => Full(j.files[u])
  BY <1>2 DEF Filed
<1>7. (Indexed(idx, u) \/ ts[u].stage = "pre") /\ ~Full(j.files[u]) =>
          ~Full(journal.files[u]) /\ j.files[u] = journal.files[u] \o e
  <2>1. CASE j.files[u] = journal.files[u]
    BY <2>1, <1>3
  <2>2. CASE ~Indexed(idx, u) /\ turn[u].stage # "pre"
    BY <2>2
  <2>. QED  BY <2>1, <2>2
<1>8. Carries(ts, j, idx, u, e)
  BY <1>1, <1>3, <1>4, <1>5, <1>6, <1>7 DEF Carries
<1>. QED  BY <1>1, <1>8

-----------------------------------------------------------------------------
(* Steps that may start a turn.                                            *)

\* A turn that a step begins.
Opened(u) ==
    /\ u = used.turns + 1 /\ used'.turns = u /\ current' = u /\ ~Busy
    /\ turn[u].stage = "none" /\ ~Indexed(index', u)
    /\ turn'[u].stage = "pre" /\ turn'[u].status = "running" /\ turn'[u].items = <<"turn">>
    /\ Filed(u)'

Unopened == used'.turns = used.turns /\ current' = current

\* What a turn comes to in a step that may start one.
Comes(ts, u, kinds) ==
    \/ Opened(u) /\ kinds = <<>>
    \/ /\ Carries(turn', journal', index', u, kinds) /\ Phase(turn', u, current', used'.turns)
       /\ turn'[u] = ts[u]

LEMMA StaysIndexed ==
    ASSUME TypeInv, NEW idx, Stays(idx), NEW u
    PROVE  Indexed(idx, u) <=> Indexed(index, u)
<1>1. DOMAIN index = 1..Len(index) /\ DOMAIN idx = 1..Len(index)
  BY Unsteady, LenProperties DEF Stays
<1>. QED  BY <1>1 DEF Indexed, Stays

LEMMA OutcomeComes ==
    ASSUME MoveInv, TypeInv', NEW ts, Calm(ts), NEW j \in Journals, NEW idx, Stays(idx),
           Outcome(ts, j, idx), UNCHANGED <<runner, order, scope>>,
           \A v \in TurnIds : Phase(ts, v, current, used.turns) /\ \E k : Carries(ts, j, idx, v, k),
           NEW u \in TurnIds, NEW kinds, Carries(ts, j, idx, u, kinds)
    PROVE  Comes(ts, u, kinds) /\ (Unopened \/ (runner = "up" /\ Opened(used.turns + 1)))
<1>1. /\ TypeInv /\ Entries /\ turn \in TurnStates /\ journal \in Journals /\ scope \in Scopes
      /\ used.turns \in Nat /\ u \in Nat /\ index \in Seq(IndexRows)
  BY MoveFacts DEF TurnIds
<1>2. ts \in TurnStates /\ idx \in Seq(IndexRows) /\ Len(idx) <= Keep
  BY DEF Calm, Stays
<1>3. CASE /\ turn' = ts /\ journal' = j /\ index' = idx /\ current' = current
           /\ used'.turns = used.turns
  BY <1>3 DEF Comes, Unopened
<1>4. CASE /\ runner = "up" /\ ~Busy /\ order # <<>>
           /\ turn' = ts /\ index' = Noted(idx, ts, LastOf(order)) /\ journal' = Pruned(j, index')
           /\ current' = current /\ used'.turns = used.turns
  <2>1. PICK l : l = LastOf(order)
    OBVIOUS
  <2>2. l \in TurnIds /\ Indexed(index, l)
    <3>1. /\ Len(index) \in Nat /\ Len(index) > 0 /\ LastOf(index).turn = l /\ DOMAIN index = 1..Len(index)
      BY <1>1, <1>4, <2>1, Lengths DEF Entries
    <3>2. Len(index) \in DOMAIN index
      BY <3>1
    <3>3. index[Len(index)].turn = l
      BY <3>1 DEF LastOf
    <3>4. l \in TurnIds
      BY <1>1, <3>1, <3>2, <3>3, Lengths
    <3>. QED  BY <3>2, <3>3, <3>4 DEF Indexed
  <2>3. ts[l].msg \in Messages
    <3>1. PICK i \in DOMAIN index : index[i].turn = l
      BY <2>2 DEF Indexed
    <3>2. turn[l].msg = index[i].msg /\ index[i].msg \in Messages
      BY <1>1, <1>4, <3>1, Lengths DEF Entries
    <3>. QED  BY <2>2, <3>2 DEF Calm
  <2>4. index' = Noted(idx, ts, l)
    BY <1>4, <2>1
  <2>5. \A st : Has(index', u, st) => (u = l /\ st = ts[u].status) \/ (u # l /\ Has(idx, u, st))
    BY <1>2, <2>2, <2>3, <2>4, NotedHas
  <2>6. index' \in Seq(IndexRows)
    BY <1>2, <2>2, <2>3, <2>4, NotedTyped
  <2>7. Indexed(index', u) => Indexed(idx, u)
    <3>1. ASSUME Indexed(index', u) PROVE Indexed(idx, u)
      <4>1. PICK st : Has(index', u, st)
        BY <2>6, <3>1, HasIndexed
      <4>2. CASE u = l
        BY <1>1, <2>2, <4>2, StaysIndexed
      <4>3. CASE Has(idx, u, st)
        BY <1>2, <4>3, HasIndexed
      <4>. QED  BY <2>5, <4>1, <4>2, <4>3
    <3>. QED  BY <3>1
  <2>8. /\ Indexed(index', u) => journal'.files[u] = j.files[u] /\ (u \in journal'.full <=> u \in j.full)
        /\ ~Indexed(index', u) => journal'.files[u] = <<>> /\ u \notin journal'.full
    BY <1>4, PrunedFacts
  <2>9. turn'[u] = ts[u] /\ ts[u].stage # "pre"
    <3>1. turn[u].stage # "pre"
      BY <1>4, MoveFacts
    <3>. QED  BY <1>4, <3>1 DEF Calm
  <2>10. Carries(turn', journal', index', u, kinds)
    <3>1. \A st : Has(index', u, st) => Has(index, u, st) \/ st = turn'[u].status
      BY <2>5, <2>9 DEF Carries
    <3>2. Indexed(index', u) => /\ Indexed(index, u) \/ turn[u].stage = "pre"
                                /\ turn'[u].stage \notin {"pre", "unsent"}
      BY <2>7, <2>9 DEF Carries
    <3>3. turn'[u].stage \in {"handing", "closed"} =>
                \/ turn[u].stage \in {"handing", "closed"} \/ scope.hazard = "late"
                \/ \A st : Has(index', u, st) => st = turn'[u].status
      BY <2>5, <2>9 DEF Carries
    <3>4. (Indexed(index', u) \/ turn'[u].stage = "pre") /\ ~Full(journal'.files[u]) =>
                ~Full(journal.files[u]) /\ journal'.files[u] = journal.files[u] \o kinds
      BY <2>7, <2>8, <2>9 DEF Carries
    <3>5. u > used.turns => journal'.files[u] = <<>>
      BY <2>8 DEF Carries
    <3>6. u \in journal'.full => Full(journal'.files[u])
      BY <2>8 DEF Carries
    <3>. QED  BY <2>9, <3>1, <3>2, <3>3, <3>4, <3>5, <3>6 DEF Carries
  <2>11. Phase(turn', u, current', used'.turns)
    BY <1>4 DEF Phase
  <2>. QED  BY <1>4, <2>9, <2>10, <2>11 DEF Comes, Unopened
<1>5. ASSUME runner = "up", ~Busy, used.turns < MaxTurns,
             \E m \in Messages : ~Handled(m) /\ turn' = Opening(ts, m),
             index' = idx, journal' = Stored(j, used.turns + 1, <<"turn">>),
             current' = used.turns + 1, used'.turns = used.turns + 1
      PROVE  Comes(ts, u, kinds) /\ Opened(used.turns + 1)
  <2>1. PICK m \in Messages : turn' = Opening(ts, m)
    BY <1>5
  <2>2. PICK n : n = used.turns + 1
    OBVIOUS
  <2>3. /\ n \in TurnIds
        /\ turn'[n].status = "running" /\ turn'[n].stage = "pre" /\ turn'[n].items = <<"turn">>
        /\ \A v \in TurnIds \ {n} : turn'[v] = ts[v]
    BY <1>1, <1>2, <1>5, <2>1, <2>2, OpeningFacts
  <2>4. n \in Nat /\ n > used.turns
    BY <1>1, <2>2
  <2>5. turn[n].stage = "none"
    <3>1. Phase(turn, n, current, used.turns)
      BY <2>3 DEF MoveInv, Moves
    <3>. QED  BY <1>1, <2>4, <3>1 DEF Phase
  <2>6. ~Indexed(index, n)
    <3>1. \A i \in 1..Len(index) : index[i].turn <= used.turns /\ index[i].turn \in TurnIds
      BY <1>1, Lengths DEF Entries
    <3>2. DOMAIN index = 1..Len(index)
      BY <1>1, Lengths
    <3>. QED  BY <1>1, <2>2, <3>1, <3>2 DEF Indexed, TurnIds
  <2>7. ~Indexed(index', n)
    BY <1>1, <1>5, <2>6, StaysIndexed
  <2>8. PICK k : k = <<"turn">>
    OBVIOUS
  <2>9. k \in Seq(Kinds)
    BY <2>8, KindsWritten DEF Kinds
  <2>10. journal' = Stored(j, n, k)
    BY <1>5, <2>2, <2>8
  <2>11. (n \in j.full => Full(j.files[n])) /\ j.files[n] = <<>>
    <3>1. PICK c : Carries(ts, j, idx, n, c)
      BY <2>3
    <3>. QED  BY <2>4, <3>1 DEF Carries
  <2>12. PICK r : r = Stored(j, n, k)
    OBVIOUS
  <2>13. /\ \A v \in TurnIds \ {n} : r.files[v] = j.files[v] /\ (v \in r.full <=> v \in j.full)
         /\ n \in r.full => Full(r.files[n])
         /\ ~Full(r.files[n]) => r.files[n] = j.files[n] \o k
    <3>1. /\ \A v \in TurnIds \ {n} : /\ Stored(j, n, k).files[v] = j.files[v]
                                       /\ (v \in Stored(j, n, k).full <=> v \in j.full)
          /\ n \in Stored(j, n, k).full => Full(Stored(j, n, k).files[n])
          /\ ~Full(Stored(j, n, k).files[n]) =>
                ~Full(j.files[n]) /\ Stored(j, n, k).files[n] = j.files[n] \o k
      <4>1. scope \in Scopes /\ n \in TurnIds /\ k \in Seq(Kinds) /\ (n \in j.full => Full(j.files[n]))
        BY <1>1, <2>3, <2>9, <2>11
      <4>. QED  BY <4>1, StoredFacts
    <3>. QED  BY <2>12, <3>1
  <2>14. Filed(n)'
    <3>1. ~(n > used'.turns) /\ (n \in journal'.full => Full(journal'.files[n]))
      BY <1>5, <2>2, <2>4, <2>10, <2>12, <2>13
    <3>2. ~Full(journal'.files[n]) => journal'.files[n] = turn'[n].items
      <4>1. <<>> \o k = k
        BY <2>9, ConcatEmptySeq
      <4>2. turn'[n].items = k
        BY <2>3, <2>8
      <4>. QED  BY <4>1, <4>2, <2>10, <2>11, <2>12, <2>13
    <3>. QED  BY <3>1, <3>2 DEF Filed
  <2>15. Opened(n)
    BY <1>5, <2>2, <2>3, <2>5, <2>7, <2>14 DEF Opened
  <2>16. CASE u = n
    <3>1. kinds = <<>>
      BY <2>5, <2>16 DEF Carries
    <3>. QED  BY <3>1, <2>2, <2>15, <2>16 DEF Comes
  <2>17. CASE u # n
    <3>1. journal'.files[u] = j.files[u] /\ (u \in journal'.full <=> u \in j.full)
      BY <2>10, <2>12, <2>13, <2>17
    <3>2. turn'[u] = ts[u]
      BY <2>3, <2>17
    <3>3. Carries(turn', journal', index', u, kinds)
      BY <1>5, <3>1, <3>2 DEF Carries
    <3>4. Phase(turn', u, current', used'.turns)
      <4>1. turn[u].stage \notin {"pre", "run"}
        BY <1>5, MoveFacts
      <4>2. ts[u].stage \notin {"pre", "run"}
        BY <4>1 DEF Calm
      <4>3. u <= used.turns => u <= used'.turns
        BY <1>1, <1>5
      <4>. QED  BY <3>2, <4>2, <4>3 DEF Phase
    <3>5. Comes(ts, u, kinds)
      BY <3>2, <3>3, <3>4 DEF Comes
    <3>. QED  BY <3>5, <2>2, <2>15
  <2>. QED  BY <2>16, <2>17
<1>. QED  BY <1>3, <1>4, <1>5 DEF Outcome

\* A step that starts no run and ends none, but for turns it moves on.
LEMMA QuietKept ==
    ASSUME MoveInv, TypeInv', UNCHANGED <<order, asking>>,
           asking => Running', runner' = "down" => runner = "down" /\ turn' = turn,
           \A u \in TurnIds : Opened(u) \/ \E kinds : Carries(turn', journal', index', u, kinds)
    PROVE  Quiet'
<1>1. TypeInv /\ Quiet
  BY MoveFacts DEF MoveInv, Moves
<1>2. ASSUME NEW i \in 1..Len(order) PROVE turn'[order[i]].stage \notin {"pre", "unsent"}
  <2>1. PICK u \in TurnIds : u = order[i]
    BY <1>1, Lengths
  <2>2. turn[u].stage \notin {"pre", "unsent", "none"}
    <3>1. turn[u].stage # "none"
      BY <1>1, <2>1, Lengths DEF TypeInv, Known
    <3>. QED  BY <1>1, <2>1, <3>1 DEF Quiet
  <2>3. PICK kinds : Carries(turn', journal', index', u, kinds)
    BY <2>2 DEF Opened
  <2>4. turn'[u].stage \notin {"pre", "unsent"}
    BY <2>2, <2>3 DEF Carries
  <2>. QED  BY <2>1, <2>4
<1>3. asking' => Running'
  OBVIOUS
<1>4. runner' = "down" => \A u \in TurnIds : turn'[u].stage \in {"none", "closed", "unsent"}
  BY <1>1 DEF Quiet
<1>. QED  BY <1>2, <1>3, <1>4 DEF Quiet

LEMMA OpenedMoves ==
    ASSUME MoveInv, NEW u \in TurnIds, Opened(u), index' \in Seq(IndexRows)
    PROVE  Phase(turn', u, current', used'.turns) /\ Listed(u)' /\ Filed(u)'
<1>1. \A st : ~Has(index', u, st)
  BY HasIndexed DEF Opened
<1>2. Listed(u)'
  BY <1>1 DEF Listed
<1>3. u <= u
  BY DEF TurnIds
<1>. QED  BY <1>2, <1>3 DEF Opened, Phase

\* The steps that may start a turn.
LEMMA OutcomeMoves ==
    ASSUME MoveInv, OnceInv', NEW ts, Calm(ts), NEW j \in Journals, NEW idx, Stays(idx),
           Outcome(ts, j, idx), UNCHANGED <<runner, order, asking, scope>>,
           \A u \in TurnIds : Phase(ts, u, current, used.turns) /\ \E k : Carries(ts, j, idx, u, k),
           \A u \in TurnIds : turn[u].stage = "run" => ts[u].stage = "run",
           runner = "down" => ts = turn
    PROVE  MoveInv'
<1>1. TypeInv' /\ used.turns \in Nat
  BY MoveFacts DEF OnceInv
<1>2. \A u \in TurnIds : \A k : Carries(ts, j, idx, u, k) => Comes(ts, u, k)
  BY <1>1, OutcomeComes
<1>3. Unopened \/ (runner = "up" /\ Opened(used.turns + 1))
  <2>1. CASE \E u \in TurnIds : TRUE
    BY <1>1, <2>1, OutcomeComes
  <2>2. CASE TurnIds = {}
    <3>1. ~(used.turns < MaxTurns)
      BY <1>1, <2>2, Bounds DEF TurnIds
    <3>. QED  BY <3>1 DEF Outcome, Unopened
  <2>. QED  BY <2>1, <2>2
<1>4. index' \in Seq(IndexRows) /\ used'.turns >= used.turns
  <2>1. index' \in Seq(IndexRows)
    BY <1>1 DEF TypeInv, TypeOK, IndexRows
  <2>2. used'.turns >= used.turns
    BY <1>1, <1>3 DEF Unopened, Opened
  <2>. QED  BY <2>1, <2>2
<1>5. ASSUME NEW u \in TurnIds
      PROVE  Phase(turn', u, current', used'.turns) /\ Listed(u)' /\ Filed(u)'
  <2>1. PICK k : Comes(ts, u, k)
    BY <1>2
  <2>2. CASE Opened(u)
    BY <1>4, <2>2, OpenedMoves
  <2>3. CASE Carries(turn', journal', index', u, k) /\ Phase(turn', u, current', used'.turns)
    BY <1>1, <1>4, <2>3, CarriesMoves
  <2>. QED  BY <2>1, <2>2, <2>3 DEF Comes
<1>6. \A u \in TurnIds : Opened(u) \/ \E k : Carries(turn', journal', index', u, k)
  BY <1>2 DEF Comes
<1>7. asking => Running'
  <2>. SUFFICES ASSUME asking PROVE Running'
    OBVIOUS
  <2>1. Running /\ Busy
    <3>1. Running
      BY DEF MoveInv, Moves, Quiet
    <3>2. current \in TurnIds /\ turn[current].stage = "run"
      BY <3>1, MoveFacts DEF Running
    <3>. QED  BY <3>1, <3>2, MoveFacts
  <2>2. current' = current
    BY <1>3, <2>1 DEF Opened, Unopened
  <2>3. current \in TurnIds /\ turn[current].stage = "run"
    BY <2>1, MoveFacts DEF Running
  <2>4. PICK k : Comes(ts, current, k)
    BY <1>2, <2>3
  <2>5. ~Opened(current)
    BY <2>1 DEF Opened
  <2>6. turn'[current].stage = "run"
    BY <2>3, <2>4, <2>5 DEF Comes
  <2>. QED  BY <2>1, <2>2, <2>6 DEF Running
<1>8. runner' = "down" => runner = "down" /\ turn' = turn
  BY DEF Outcome
<1>9. Quiet'
  BY <1>1, <1>6, <1>7, <1>8, QuietKept
<1>. QED  BY <1>5, <1>9 DEF MoveInv, Moves

\* A step appends kinds to the journal of turn t, and makes ts of the turns and idx
\* of the index.
Notes(ts, idx, t, kinds) ==
    /\ turn[t].stage # "none" /\ kinds \in Seq(Kinds)
    /\ ts[t].items = turn[t].items \o kinds
    /\ ts[t].stage # "none"
    /\ ts[t].stage = "pre" => turn[t].stage = "pre"
    /\ ts[t].stage = "unsent" => turn[t].stage \in {"pre", "unsent"}
    /\ turn[t].status # "running" => ts[t].status = turn[t].status
    /\ \A st : Has(idx, t, st) => Has(index, t, st) \/ st = ts[t].status
    /\ Indexed(idx, t) =>
          (Indexed(index, t) \/ turn[t].stage = "pre") /\ ts[t].stage \notin {"pre", "unsent"}
    /\ ts[t].stage \in {"handing", "closed"} =>
          \/ turn[t].stage \in {"handing", "closed"} \/ scope.hazard = "late"
          \/ \A st : Has(idx, t, st) => st = ts[t].status

LEMMA CarriesNotes ==
    ASSUME MoveInv, NEW t \in TurnIds, NEW ts, NEW idx, NEW kinds, Notes(ts, idx, t, kinds),
           NEW j, j = Stored(journal, t, kinds)
    PROVE  /\ Carries(ts, j, idx, t, kinds)
           /\ \A u \in TurnIds \ {t} : j.files[u] = journal.files[u] /\ (u \in j.full <=> u \in journal.full)
<1>1. /\ scope \in Scopes /\ journal \in Journals /\ used.turns \in Nat /\ kinds \in Seq(Kinds)
      /\ turn[t].stage # "none"
      /\ Phase(turn, t, current, used.turns) /\ Filed(t)
  BY MoveFacts DEF MoveInv, Moves, Notes
<1>2. t \in journal.full => Full(journal.files[t])
  BY <1>1 DEF Filed
<1>3. /\ \A u \in TurnIds \ {t} : j.files[u] = journal.files[u] /\ (u \in j.full <=> u \in journal.full)
      /\ t \in j.full => Full(j.files[t])
      /\ ~Full(j.files[t]) => ~Full(journal.files[t]) /\ j.files[t] = journal.files[t] \o kinds
  <2>1. /\ \A u \in TurnIds \ {t} : /\ Stored(journal, t, kinds).files[u] = journal.files[u]
                                    /\ (u \in Stored(journal, t, kinds).full <=> u \in journal.full)
        /\ t \in Stored(journal, t, kinds).full => Full(Stored(journal, t, kinds).files[t])
        /\ ~Full(Stored(journal, t, kinds).files[t]) =>
              ~Full(journal.files[t]) /\ Stored(journal, t, kinds).files[t] = journal.files[t] \o kinds
    BY <1>1, <1>2, StoredFacts
  <2>. QED  BY <2>1
<1>4. ~(t > used.turns)
  BY <1>1 DEF Phase, TurnIds
<1>. QED  BY <1>1, <1>3, <1>4 DEF Carries, Notes

\* A request marks the current turn's journal, or does not.
Queueing(u, kinds) ==
    \/ kinds = <<>>
    \/ u = current /\ kinds = <<"queued">> /\ turn[u].stage # "none"

LEMMA SendsMid ==
    ASSUME MoveInv, NEW m \in Messages, SendQueues(m) \/ SendStarts(m)
    PROVE  \E ts, j :
              /\ Calm(ts) /\ j \in Journals /\ Outcome(ts, j, index)
              /\ \A u \in TurnIds : /\ Phase(ts, u, current, used.turns)
                                    /\ ts[u].stage = turn[u].stage /\ ts[u].status = turn[u].status
                                    /\ \E k : Carries(ts, j, index, u, k) /\ Queueing(u, k)
<1>1. TypeInv /\ turn \in TurnStates /\ journal \in Journals /\ index \in Seq(IndexRows) /\ scope \in Scopes
  BY MoveFacts
<1>2. PICK ts, j :
                 /\ \/ ts = turn /\ j = journal
                    \/ /\ current # 0 /\ ts = Noting(turn, current, <<"queued">>)
                       /\ j = Stored(journal, current, <<"queued">>)
                 /\ Outcome(ts, j, index)
  BY <1>1, SendOutcome
<1>3. \A u \in TurnIds : Phase(turn, u, current, used.turns) /\ Listed(u)
  BY DEF MoveInv, Moves
<1>4. CASE ts = turn /\ j = journal
  <2>1. \A u \in TurnIds : Carries(ts, j, index, u, <<>>)
    BY <1>1, <1>4, CarriesNothing
  <2>2. Calm(ts)
    BY <1>1, <1>4, StaysSame
  <2>. QED  BY <1>1, <1>2, <1>3, <1>4, <2>1, <2>2 DEF Queueing
<1>5. CASE /\ current # 0 /\ ts = Noting(turn, current, <<"queued">>)
           /\ j = Stored(journal, current, <<"queued">>)
  <2>1. PICK k : k = <<"queued">>
    OBVIOUS
  <2>2. k \in Seq(Kinds)
    BY <2>1, KindsWritten DEF Kinds
  <2>3. PICK t \in TurnIds : t = current
    BY <1>5, MoveFacts
  <2>4. turn[t].stage # "none"
    BY <1>1, <1>5, <2>3 DEF TypeInv, Known
  <2>5. /\ ts \in TurnStates /\ \A u \in TurnIds \ {t} : ts[u] = turn[u]
        /\ ts[t].msg = turn[t].msg /\ ts[t].stage = turn[t].stage /\ ts[t].status = turn[t].status
        /\ ts[t].items = turn[t].items \o k
    <3>1. ts = Noting(turn, t, k)
      BY <1>5, <2>1, <2>3
    <3>. QED  BY <1>1, <2>2, <3>1, NotingFacts
  <2>6. j = Stored(journal, t, k) /\ j \in Journals
    BY <1>1, <1>5, <2>1, <2>2, <2>3, StoredTyped
  <2>7. Indexed(index, t) => turn[t].stage \notin {"pre", "unsent"}
    BY <1>1, <1>3, HasIndexed DEF Listed
  <2>8. /\ Carries(ts, j, index, t, k)
        /\ \A u \in TurnIds \ {t} : j.files[u] = journal.files[u] /\ (u \in j.full <=> u \in journal.full)
    <3>1. Notes(ts, index, t, k)
      BY <2>2, <2>4, <2>5, <2>7 DEF Notes
    <3>. QED  BY <2>6, <3>1, CarriesNotes
  <2>9. \A u \in TurnIds \ {t} : Carries(ts, j, index, u, <<>>)
    BY <1>1, <2>5, <2>8, CarriesNothing
  <2>10. ASSUME NEW u \in TurnIds
         PROVE  /\ Phase(ts, u, current, used.turns)
                /\ ts[u].stage = turn[u].stage /\ ts[u].status = turn[u].status
                /\ ts[u].msg = turn[u].msg
                /\ \E h : Carries(ts, j, index, u, h) /\ Queueing(u, h)
    <3>1. ts[u].stage = turn[u].stage /\ ts[u].status = turn[u].status /\ ts[u].msg = turn[u].msg
      BY <2>5
    <3>2. Phase(ts, u, current, used.turns)
      BY <1>3, <3>1 DEF Phase
    <3>3. CASE u = t
      BY <2>1, <2>3, <2>4, <2>8, <3>1, <3>2, <3>3 DEF Queueing
    <3>4. CASE u # t
      BY <2>9, <3>1, <3>2, <3>4 DEF Queueing
    <3>. QED  BY <3>3, <3>4
  <2>11. Calm(ts)
    BY <2>5, <2>10 DEF Calm
  <2>. QED  BY <1>2, <2>6, <2>10, <2>11
<1>. QED  BY <1>2, <1>4, <1>5

LEMMA SendsMoves ==
    ASSUME MoveInv, NEW m \in Messages, SendQueues(m) \/ SendStarts(m)
    PROVE  MoveInv'
<1>1. OnceInv' /\ TypeInv
  BY OnceSends, MoveFacts DEF MoveInv
<1>2. PICK ts, j :
              /\ Calm(ts) /\ j \in Journals /\ Outcome(ts, j, index)
              /\ \A u \in TurnIds : /\ Phase(ts, u, current, used.turns)
                                    /\ ts[u].stage = turn[u].stage /\ ts[u].status = turn[u].status
                                    /\ \E k : Carries(ts, j, index, u, k) /\ Queueing(u, k)
  BY SendsMid
<1>3. runner = "up" /\ UNCHANGED <<runner, order, asking, scope>>
  BY <1>1, SendOutcome
<1>4. Stays(index)
  BY <1>1, StaysSame
<1>5. \A u \in TurnIds : Phase(ts, u, current, used.turns) /\ \E k : Carries(ts, j, index, u, k)
  BY <1>2
<1>6. \A u \in TurnIds : turn[u].stage = "run" => ts[u].stage = "run"
  BY <1>2
<1>. QED  BY <1>1, <1>2, <1>3, <1>4, <1>5, <1>6, OutcomeMoves

LEMMA ReleasesMid ==
    ASSUME MoveInv, OtherReleases
    PROVE  /\ Calm(turn) /\ Stays(index) /\ Outcome(turn, journal, index)
           /\ UNCHANGED <<runner, order, asking, scope>>
           /\ \A u \in TurnIds : /\ Phase(turn, u, current, used.turns)
                                 /\ Carries(turn, journal, index, u, <<>>)
<1>1. TypeInv /\ index \in Seq(IndexRows)
  BY MoveFacts
<1>2. \A u \in TurnIds : Phase(turn, u, current, used.turns)
  BY DEF MoveInv, Moves
<1>3. \A u \in TurnIds : Carries(turn, journal, index, u, <<>>)
  BY <1>1, CarriesNothing
<1>. QED  BY <1>1, <1>2, <1>3, StaysSame, ReleaseOutcome

LEMMA ReleasesMoves == ASSUME MoveInv, OtherReleases PROVE MoveInv'
<1>1. OnceInv' /\ journal \in Journals
  BY OnceReleases, MoveFacts DEF MoveInv
<1>2. \A u \in TurnIds : Phase(turn, u, current, used.turns) /\ \E k : Carries(turn, journal, index, u, k)
  BY ReleasesMid
<1>. QED  BY <1>1, <1>2, ReleasesMid, OutcomeMoves

\* The bookkeeping of t appends the checkpoint to its journal.
Booking(t, u, kinds) == (u = t /\ kinds = <<"post">>) \/ (u # t /\ kinds = <<>>)

LEMMA BookkeepingMid ==
    ASSUME MoveInv, BookkeepingInTime, NEW t \in TurnIds, BookkeepingDone(t)
    PROVE  \E ts, j, idx :
              /\ Calm(ts) /\ j \in Journals /\ Stays(idx) /\ Outcome(ts, j, idx)
              /\ ts = Handing(t)
              /\ \A u \in TurnIds : Phase(ts, u, current, used.turns)
              /\ \A u \in TurnIds : \E k : Carries(ts, j, idx, u, k) /\ Booking(t, u, k)
<1>1. /\ TypeInv /\ turn \in TurnStates /\ journal \in Journals /\ index \in Seq(IndexRows)
      /\ Len(index) <= Keep /\ scope \in Scopes
  BY MoveFacts
<1>2. PICK k : k = <<"post">>
  OBVIOUS
<1>3. k \in Seq(Kinds)
  BY <1>2, KindsWritten DEF Kinds
<1>4. PICK ts, j, idx : ts = Handing(t) /\ j = Stored(journal, t, k) /\ idx = Noted(index, ts, t)
  OBVIOUS
<1>5. /\ runner # "down" /\ turn[t].stage = "post" /\ Outcome(ts, j, idx)
  BY <1>1, <1>2, <1>4, BookkeepingOutcome
<1>6. /\ ts \in TurnStates /\ \A u \in TurnIds \ {t} : ts[u] = turn[u]
      /\ ts[t].stage = "handing" /\ ts[t].msg = turn[t].msg
      /\ ts[t].status = turn[t].status /\ ts[t].items = turn[t].items \o k
  BY <1>1, <1>2, <1>4, HandingFacts
<1>7. Indexed(index, t)
  BY <1>5 DEF BookkeepingInTime, InBookkeeping, Indexed
<1>8. Calm(ts)
  <2>1. ASSUME NEW u \in TurnIds
        PROVE  /\ ts[u].msg = turn[u].msg
               /\ (ts[u].stage = "pre" => turn[u].stage = "pre")
               /\ (ts[u].stage = "run" => turn[u].stage = "run")
    <3>1. CASE u = t
      BY <1>6, <3>1
    <3>2. CASE u # t
      BY <1>6, <3>2
    <3>. QED  BY <3>1, <3>2
  <2>. QED  BY <1>6, <2>1 DEF Calm
<1>9. Stays(idx)
  <2>1. \E i \in 1..Len(index) : index[i].turn = t
    BY <1>1, <1>7, Lengths DEF Indexed
  <2>2. OnceInv /\ Stays(index)
    BY <1>1, StaysSame DEF MoveInv
  <2>. QED  BY <1>4, <1>5, <1>8, <2>1, <2>2, NotedStays
<1>10. ts[t].msg \in Messages
  <2>1. turn[t].stage # "none"
    BY <1>5
  <2>. QED  BY <1>1, <1>6, <2>1 DEF TypeInv, Known
<1>11. idx \in Seq(IndexRows)
  BY <1>9 DEF Stays
<1>12. \A u, st : Has(idx, u, st) => (u = t /\ st = ts[t].status) \/ (u # t /\ Has(index, u, st))
  BY <1>1, <1>4, <1>6, <1>10, NotedHas
<1>13. Phase(turn, t, current, used.turns)
  BY DEF MoveInv, Moves
<1>14. /\ Carries(ts, j, idx, t, k)
       /\ \A u \in TurnIds \ {t} : j.files[u] = journal.files[u] /\ (u \in j.full <=> u \in journal.full)
  <2>1. turn[t].stage # "none" /\ ts[t].stage # "none" /\ ts[t].stage # "pre" /\ ts[t].stage # "unsent"
    BY <1>5, <1>6
  <2>2. \A st : Has(idx, t, st) => st = ts[t].status
    BY <1>12
  <2>3. Notes(ts, idx, t, k)
    BY <1>3, <1>6, <1>7, <2>1, <2>2 DEF Notes
  <2>. QED  BY <1>4, <2>3, CarriesNotes
<1>15. \A u \in TurnIds \ {t} : Carries(ts, j, idx, u, <<>>)
  BY <1>6, <1>11, <1>12, <1>14, CarriesNothing
<1>16. \A u \in TurnIds : Phase(ts, u, current, used.turns)
  <2>1. \A u \in TurnIds : Phase(turn, u, current, used.turns)
    BY DEF MoveInv, Moves
  <2>2. Phase(ts, t, current, used.turns)
    BY <1>5, <1>6, <2>1 DEF Phase
  <2>. QED  BY <1>6, <2>1, <2>2 DEF Phase
<1>17. j \in Journals
  BY <1>1, <1>3, <1>4, StoredTyped
<1>18. \A u \in TurnIds : \E h : Carries(ts, j, idx, u, h) /\ Booking(t, u, h)
  <2>1. ASSUME NEW u \in TurnIds PROVE \E h : Carries(ts, j, idx, u, h) /\ Booking(t, u, h)
    <3>1. CASE u = t
      BY <1>2, <1>14, <3>1 DEF Booking
    <3>2. CASE u # t
      BY <1>15, <3>2 DEF Booking
    <3>. QED  BY <3>1, <3>2
  <2>. QED  BY <2>1
<1>. QED  BY <1>4, <1>5, <1>8, <1>9, <1>16, <1>17, <1>18

LEMMA BookkeepingMoves ==
    ASSUME MoveInv, BookkeepingInTime, NEW t \in TurnIds, BookkeepingDone(t) PROVE MoveInv'
<1>1. OnceInv' /\ TypeInv
  BY OnceBookkeeping, MoveFacts DEF MoveInv
<1>2. PICK ts, j, idx :
              /\ Calm(ts) /\ j \in Journals /\ Stays(idx) /\ Outcome(ts, j, idx)
              /\ ts = Handing(t)
              /\ \A u \in TurnIds : Phase(ts, u, current, used.turns)
              /\ \A u \in TurnIds : \E k : Carries(ts, j, idx, u, k) /\ Booking(t, u, k)
  BY BookkeepingMid
<1>3. runner # "down" /\ turn[t].stage = "post" /\ UNCHANGED <<runner, order, asking, scope>>
  BY <1>1, BookkeepingOutcome
<1>4. \A u \in TurnIds : turn[u].stage = "run" => ts[u].stage = "run"
  <2>1. \A u \in TurnIds \ {t} : ts[u] = turn[u]
    BY <1>2, HandingFacts, MoveFacts
  <2>. QED  BY <1>3, <2>1
<1>5. \A u \in TurnIds : Phase(ts, u, current, used.turns) /\ \E k : Carries(ts, j, idx, u, k)
  BY <1>2
<1>. QED  BY <1>1, <1>2, <1>3, <1>4, <1>5, OutcomeMoves

-----------------------------------------------------------------------------
(* The steps of one turn.                                                  *)

LEMMA StoredNothing ==
    ASSUME scope \in Scopes, NEW j \in Journals, NEW t \in TurnIds
    PROVE  Stored(j, t, <<>>) = j
<1>1. PICK e : e = <<>>
  OBVIOUS
<1>2. j.files[t] \in Seq(Kinds) /\ j.files \in [TurnIds -> Seq(Kinds)] /\ j = [files |-> j.files, full |-> j.full]
  BY DEF Journals
<1>3. e \in Seq(Kinds) /\ Len(e) = 0 /\ j.files[t] \o e = j.files[t]
  BY <1>1, <1>2, EmptySeq, ConcatEmptySeq
<1>4. PICK left : left = IF Len(j.files[t]) < scope.room THEN scope.room - Len(j.files[t]) ELSE 0
  OBVIOUS
<1>5. Len(e) <= left
  BY <1>2, <1>3, <1>4, LenProperties, Parameters
<1>6. CASE t \in j.full
  BY <1>6 DEF Stored
<1>7. CASE t \notin j.full
  <2>1. Stored(j, t, e) = [j EXCEPT !.files[t] = j.files[t] \o e]
    BY <1>4, <1>5, <1>7 DEF Stored
  <2>2. Stored(j, t, e) = j
    BY <2>1, <1>2, <1>3
  <2>. QED  BY <2>2, <1>1
<1>. QED  BY <1>6, <1>7

\* A step of turn t that appends kinds to its journal.
TurnStep(t, kinds) ==
    /\ t \in TurnIds /\ turn[t].stage # "none" /\ kinds \in Seq(Kinds)
    /\ turn'[t].items = turn[t].items \o kinds
    /\ \A u \in TurnIds \ {t} : turn'[u] = turn[u]
    /\ journal' = Stored(journal, t, kinds)
    /\ UNCHANGED <<runner, order, current, index, scope>> /\ used'.turns = used.turns

LEMMA AsksStep ==
    ASSUME MoveInv, AgentAsks
    PROVE  /\ TurnStep(current, <<"request">>) /\ asking' /\ ~asking /\ runner # "down"
           /\ turn[current].stage = "run" /\ turn'[current].stage = "run"
           /\ turn'[current].status = turn[current].status
<1>1. /\ Running /\ ~asking /\ asking' = TRUE /\ runner = "up"
      /\ turn' = Noting(turn, current, <<"request">>)
      /\ journal' = Stored(journal, current, <<"request">>)
      /\ UNCHANGED <<runner, order, current, index, scope, used>>
  BY DEF AgentAsks
<1>2. current \in TurnIds /\ turn[current].stage = "run" /\ turn \in TurnStates
  BY <1>1, MoveFacts DEF Running
<1>3. <<"request">> \in Seq(Kinds)
  BY KindsWritten DEF Kinds
<1>. QED  BY <1>1, <1>2, <1>3, NotingFacts DEF TurnStep

LEMMA RespondsStep ==
    ASSUME MoveInv, Responds
    PROVE  /\ TurnStep(current, <<"resolved">>) /\ ~asking' /\ asking /\ runner # "down"
           /\ turn[current].stage = "run" /\ turn'[current].stage = "run"
           /\ turn'[current].status = turn[current].status
<1>1. /\ Running /\ asking /\ asking' = FALSE /\ runner = "up"
      /\ turn' = Noting(turn, current, <<"resolved">>)
      /\ journal' = Stored(journal, current, <<"resolved">>)
      /\ UNCHANGED <<runner, order, current, index, scope, used>>
  BY DEF Responds
<1>2. current \in TurnIds /\ turn[current].stage = "run" /\ turn \in TurnStates
  BY <1>1, MoveFacts DEF Running
<1>3. <<"resolved">> \in Seq(Kinds)
  BY KindsWritten DEF Kinds
<1>. QED  BY <1>1, <1>2, <1>3, NotingFacts DEF TurnStep

LEMMA EndsStep ==
    ASSUME MoveInv, TurnEnds
    PROVE  /\ ~asking' /\ runner # "down" /\ turn[current].stage = "run" /\ turn'[current].stage = "post"
           /\ turn'[current].status \in {"finished", "failed"}
           /\ TurnStep(current, <<turn'[current].status>> \o Cancelled)
<1>1. TypeInv
  BY MoveFacts
<1>2. /\ current \in TurnIds /\ turn[current].stage = "run" /\ runner # "down" /\ ~asking'
      /\ UNCHANGED <<runner, order, current, index, scope, used>>
  BY <1>1, EndCases
<1>3. PICK status \in {"finished", "failed"} :
                 /\ <<status>> \o Cancelled \in Seq(Kinds)
                 /\ turn' \in TurnStates /\ \A u \in TurnIds \ {current} : turn'[u] = turn[u]
                 /\ turn'[current].status = status /\ turn'[current].stage = "post"
                 /\ turn'[current].items = turn[current].items \o (<<status>> \o Cancelled)
                 /\ journal' = Stored(journal, current, <<status>> \o Cancelled)
  BY <1>1, EndCases
<1>4. PICK k : k = <<status>> \o Cancelled
  OBVIOUS
<1>5. TurnStep(current, k)
  BY <1>2, <1>3, <1>4 DEF TurnStep
<1>. QED  BY <1>2, <1>3, <1>4, <1>5

LEMMA FailsStep ==
    ASSUME MoveInv, StartFails
    PROVE  /\ TurnStep(current, <<>>) /\ asking' = asking /\ runner # "down"
           /\ turn[current].stage = "pre" /\ turn'[current].stage = "unsent"
           /\ turn'[current].status = "failed"
<1>1. TypeInv /\ scope \in Scopes /\ journal \in Journals /\ turn \in TurnStates
  BY MoveFacts
<1>2. /\ current \in TurnIds /\ turn[current].stage = "pre" /\ runner # "down"
      /\ \A u \in TurnIds \ {current} : turn'[u] = turn[u]
      /\ turn'[current].status = "failed" /\ turn'[current].stage = "unsent"
      /\ turn'[current].items = turn[current].items
      /\ UNCHANGED <<runner, order, current, asking, index, journal, scope>>
  BY <1>1, StartFailsFacts
<1>3. used'.turns = used.turns
  <2>1. used \in Uses
    BY <1>1 DEF TypeInv, Counts, Uses
  <2>2. used' = used \/ Counted("fails")
    BY DEF StartFails
  <2>. QED  BY <1>2, <2>1, <2>2, CountedFails
<1>4. journal' = Stored(journal, current, <<>>)
  BY <1>1, <1>2, StoredNothing
<1>5. <<>> \in Seq(Kinds) /\ turn[current].items \o <<>> = turn[current].items
  BY <1>1, <1>2, KindsWritten, MoveFacts, ConcatEmptySeq
<1>. QED  BY <1>2, <1>3, <1>4, <1>5 DEF TurnStep

LEMMA ClosesStep ==
    ASSUME MoveInv, NEW t \in TurnIds, TurnCloses(t)
    PROVE  /\ TurnStep(t, <<>>) /\ asking' = asking /\ runner # "down"
           /\ turn[t].stage = "handing" /\ turn'[t].stage = "closed"
           /\ turn'[t].status = turn[t].status
<1>1. TypeInv /\ scope \in Scopes /\ journal \in Journals /\ turn \in TurnStates
  BY MoveFacts
<1>2. /\ turn' = Staged(turn, t, "closed") /\ turn[t].stage = "handing" /\ runner # "down"
      /\ UNCHANGED <<runner, order, current, asking, index, journal, scope, used>>
  BY DEF TurnCloses, Closes, Staged
<1>3. PICK sg : sg = "closed"
  OBVIOUS
<1>4. sg \in Stages /\ turn' = Staged(turn, t, sg)
  BY <1>2, <1>3 DEF Stages
<1>5. /\ \A u \in TurnIds \ {t} : turn'[u] = turn[u]
      /\ turn'[t].status = turn[t].status /\ turn'[t].stage = sg /\ turn'[t].items = turn[t].items
  BY <1>1, <1>4, StagedFacts
<1>6. journal' = Stored(journal, t, <<>>)
  BY <1>1, <1>2, StoredNothing
<1>7. <<>> \in Seq(Kinds) /\ turn[t].items \o <<>> = turn[t].items
  BY <1>1, <1>2, KindsWritten, MoveFacts, ConcatEmptySeq
<1>. QED  BY <1>2, <1>3, <1>5, <1>6, <1>7 DEF TurnStep

\* What such a step leaves of every turn.
LEMMA StepCarries ==
    ASSUME MoveInv, NEW t, NEW kinds, TurnStep(t, kinds), TypeInv',
           turn'[t].stage # "none", turn'[t].stage # "pre",
           turn'[t].stage = "unsent" => turn[t].stage = "pre",
           turn[t].status # "running" => turn'[t].status = turn[t].status,
           turn'[t].stage \in {"handing", "closed"} => turn[t].stage = "handing"
    PROVE  /\ Carries(turn', journal', index', t, kinds)
           /\ \A u \in TurnIds \ {t} : Carries(turn', journal', index', u, <<>>)
<1>1. /\ t \in TurnIds /\ turn[t].stage # "none" /\ kinds \in Seq(Kinds)
      /\ turn'[t].items = turn[t].items \o kinds
      /\ \A u \in TurnIds \ {t} : turn'[u] = turn[u]
      /\ journal' = Stored(journal, t, kinds) /\ index' = index
  BY DEF TurnStep
<1>2. TypeInv /\ Entries /\ index \in Seq(IndexRows) /\ index' \in Seq(IndexRows) /\ Listed(t)
  BY <1>1, MoveFacts DEF MoveInv, Moves
<1>3. Indexed(index, t) => turn[t].stage \notin {"pre", "unsent"}
  BY <1>2, HasIndexed DEF Listed
<1>4. Notes(turn', index', t, kinds)
  BY <1>1, <1>3 DEF Notes
<1>5. /\ Carries(turn', journal', index', t, kinds)
      /\ \A u \in TurnIds \ {t} : journal'.files[u] = journal.files[u]
                                  /\ (u \in journal'.full <=> u \in journal.full)
  BY <1>1, <1>4, CarriesNotes
<1>6. \A u \in TurnIds \ {t} : Carries(turn', journal', index', u, <<>>)
  BY <1>1, <1>2, <1>5, CarriesNothing
<1>. QED  BY <1>5, <1>6

LEMMA StepMoves ==
    ASSUME MoveInv, NEW t, NEW kinds, TurnStep(t, kinds), OnceInv', runner # "down",
           turn'[t].stage # "none", turn'[t].stage # "pre",
           turn'[t].stage = "unsent" => turn[t].stage = "pre",
           turn[t].status # "running" => turn'[t].status = turn[t].status,
           turn'[t].stage \in {"handing", "closed"} => turn[t].stage = "handing",
           turn'[t].status = "running" <=> turn'[t].stage = "run",
           turn'[t].stage = "run" => turn[t].stage = "run",
           asking' => Running', NEW o, o = order', Len(o) \in Nat,
           \A i \in 1..Len(o) : turn'[o[i]].stage \notin {"pre", "unsent"}
    PROVE  MoveInv'
<1>1. /\ t \in TurnIds /\ \A u \in TurnIds \ {t} : turn'[u] = turn[u]
      /\ UNCHANGED <<runner, current, index, scope>> /\ used'.turns = used.turns
  BY DEF TurnStep
<1>2. TypeInv' /\ used.turns \in Nat
  BY MoveFacts DEF OnceInv
<1>3. \A u \in TurnIds : Phase(turn, u, current, used.turns)
  BY DEF MoveInv, Moves
<1>4. \A u \in TurnIds : Phase(turn', u, current', used'.turns)
  <2>1. turn[t].stage # "none"
    BY DEF TurnStep
  <2>2. Phase(turn', t, current', used'.turns)
    BY <1>1, <1>3, <2>1 DEF Phase
  <2>. QED  BY <1>1, <1>3, <2>2 DEF Phase
<1>5. \A u \in TurnIds : \E k : Carries(turn', journal', index', u, k)
  BY <1>2, StepCarries
<1>6. \A u \in TurnIds : Listed(u)' /\ Filed(u)'
  BY <1>1, <1>2, <1>4, <1>5, CarriesMoves
<1>7. Quiet'
  BY <1>1 DEF Quiet
<1>. QED  BY <1>4, <1>6, <1>7 DEF MoveInv, Moves

LEMMA ListedOrder ==
    ASSUME MoveInv
    PROVE  /\ Len(order) \in Nat
           /\ \A i \in 1..Len(order) : order[i] \in TurnIds /\ turn[order[i]].stage \notin {"none", "pre", "unsent"}
<1>1. TypeInv /\ Quiet
  BY MoveFacts DEF MoveInv, Moves
<1>. QED  BY <1>1, Lengths DEF TypeInv, Known, Quiet

LEMMA TurnsMove ==
    ASSUME MoveInv, AgentAsks \/ Responds \/ TurnEnds \/ StartFails \/ \E t \in TurnIds : TurnCloses(t)
    PROVE  MoveInv'
<1>1. OnceInv'
  BY OnceTurns DEF MoveInv
<1>3. \A u \in TurnIds : Phase(turn, u, current, used.turns)
  BY DEF MoveInv, Moves
<1>4. ASSUME NEW t, NEW kinds, TurnStep(t, kinds), runner # "down", turn'[t].stage # "none",
             turn'[t].stage # "pre", turn'[t].stage = "unsent" => turn[t].stage = "pre",
             turn[t].status # "running" => turn'[t].status = turn[t].status,
             turn'[t].stage \in {"handing", "closed"} => turn[t].stage = "handing",
             turn'[t].status = "running" <=> turn'[t].stage = "run",
             turn'[t].stage = "run" => turn[t].stage = "run",
             asking' => Running'
      PROVE  MoveInv'
  <2>1. PICK o : o = order'
    OBVIOUS
  <2>2. o = order /\ t \in TurnIds /\ \A u \in TurnIds \ {t} : turn'[u] = turn[u]
    BY <1>4, <2>1 DEF TurnStep
  <2>3. ASSUME NEW i \in 1..Len(o) PROVE turn'[o[i]].stage \notin {"pre", "unsent"}
    <3>1. PICK u \in TurnIds : u = o[i] /\ turn[u].stage \notin {"none", "pre", "unsent"}
      BY <2>2, ListedOrder
    <3>2. turn'[u].stage \notin {"pre", "unsent"}
      BY <1>4, <2>2, <3>1
    <3>. QED  BY <3>1, <3>2
  <2>4. Len(o) \in Nat
    BY <2>2, ListedOrder
  <2>. QED  BY <1>1, <1>4, <2>1, <2>3, <2>4, StepMoves
<1>5. CASE AgentAsks
  <2>1. /\ TurnStep(current, <<"request">>) /\ asking' /\ runner # "down"
        /\ turn[current].stage = "run" /\ turn'[current].stage = "run"
        /\ turn'[current].status = turn[current].status
    BY <1>5, AsksStep
  <2>2. current \in TurnIds /\ current' = current
    BY <2>1 DEF TurnStep
  <2>3. turn[current].status = "running"
    BY <1>3, <2>1, <2>2 DEF Phase
  <2>4. Running'
    <3>1. current # 0
      BY <2>2 DEF TurnIds
    <3>. QED  BY <2>1, <2>2, <3>1 DEF Running
  <2>. QED  BY <1>4, <2>1, <2>3, <2>4
<1>6. CASE Responds
  <2>1. /\ TurnStep(current, <<"resolved">>) /\ ~asking' /\ runner # "down"
        /\ turn[current].stage = "run" /\ turn'[current].stage = "run"
        /\ turn'[current].status = turn[current].status
    BY <1>6, RespondsStep
  <2>2. current \in TurnIds
    BY <2>1 DEF TurnStep
  <2>3. turn[current].status = "running"
    BY <1>3, <2>1, <2>2 DEF Phase
  <2>. QED  BY <1>4, <2>1, <2>3
<1>7. CASE TurnEnds
  <2>1. PICK k : k = <<turn'[current].status>> \o Cancelled
    OBVIOUS
  <2>2. /\ TurnStep(current, k) /\ ~asking' /\ runner # "down"
        /\ turn[current].stage = "run" /\ turn'[current].stage = "post"
        /\ turn'[current].status \in {"finished", "failed"}
    BY <1>7, <2>1, EndsStep
  <2>3. current \in TurnIds
    BY <2>2 DEF TurnStep
  <2>4. turn[current].status = "running"
    BY <1>3, <2>2, <2>3 DEF Phase
  <2>. QED  BY <1>4, <2>2, <2>4
<1>8. CASE StartFails
  <2>1. /\ TurnStep(current, <<>>) /\ asking' = asking /\ runner # "down"
        /\ turn[current].stage = "pre" /\ turn'[current].stage = "unsent"
        /\ turn'[current].status = "failed"
    BY <1>8, FailsStep
  <2>2. current \in TurnIds
    BY <2>1 DEF TurnStep
  <2>3. turn[current].status = "running"
    BY <1>3, <2>1, <2>2 DEF Phase
  <2>4. ~asking
    BY <2>1 DEF MoveInv, Moves, Quiet, Running
  <2>. QED  BY <1>4, <2>1, <2>3, <2>4
<1>9. ASSUME NEW t \in TurnIds, TurnCloses(t) PROVE MoveInv'
  <2>1. /\ TurnStep(t, <<>>) /\ asking' = asking /\ runner # "down"
        /\ turn[t].stage = "handing" /\ turn'[t].stage = "closed"
        /\ turn'[t].status = turn[t].status
    BY <1>9, ClosesStep
  <2>2. turn[t].status # "running"
    BY <1>3, <2>1 DEF Phase
  <2>3. asking' => Running'
    <3>1. asking => Running
      BY DEF MoveInv, Moves, Quiet
    <3>2. Running => current \in TurnIds /\ current # t /\ current # 0 /\ turn[current].stage = "run"
      BY <2>1, MoveFacts DEF Running
    <3>3. current' = current /\ \A u \in TurnIds \ {t} : turn'[u] = turn[u]
      BY <2>1 DEF TurnStep
    <3>. QED  BY <2>1, <3>1, <3>2, <3>3 DEF Running
  <2>. QED  BY <1>4, <2>1, <2>2, <2>3
<1>. QED  BY <1>5, <1>6, <1>7, <1>8, <1>9

\* The prompt, filed and noted; the files of turns that leave the index go.
LEMMA PromptCarries ==
    ASSUME MoveInv, PromptSent
    PROVE  /\ Carries(turn', journal', index', current, <<"pre">>)
           /\ \A u \in TurnIds \ {current} : Carries(turn', journal', index', u, <<>>)
<1>1. /\ TypeInv /\ turn \in TurnStates /\ journal \in Journals /\ index \in Seq(IndexRows)
      /\ Len(index) <= Keep /\ scope \in Scopes
  BY MoveFacts
<1>2. PICK k : k = <<"pre">>
  OBVIOUS
<1>3. PICK t \in TurnIds : t = current
  BY <1>1, PromptFacts
<1>4. /\ turn[t].stage = "pre" /\ turn[t].msg \in Messages /\ k \in Seq(Kinds)
      /\ turn' \in TurnStates /\ \A u \in TurnIds \ {t} : turn'[u] = turn[u]
      /\ turn'[t].msg = turn[t].msg /\ turn'[t].status = turn[t].status /\ turn'[t].stage = "run"
      /\ turn'[t].items = turn[t].items \o k
      /\ index' = Noted(index, turn', t)
      /\ journal' = Pruned(Stored(journal, t, k), index')
  BY <1>1, <1>2, <1>3, PromptFacts
<1>5. PICK ts, idx, j : ts = turn' /\ idx = index' /\ j = Stored(journal, t, k)
  OBVIOUS
<1>6. idx \in Seq(IndexRows)
  BY <1>1, <1>4, <1>5, NotedTyped
<1>7. \A u, st : Has(idx, u, st) => (u = t /\ st = ts[t].status) \/ (u # t /\ Has(index, u, st))
  BY <1>1, <1>4, <1>5, NotedHas
<1>8. Notes(ts, idx, t, k)
  <2>1. \A st : Has(idx, t, st) => Has(index, t, st) \/ st = ts[t].status
    BY <1>7
  <2>. QED  BY <1>4, <1>5, <2>1 DEF Notes
<1>9. /\ Carries(ts, j, idx, t, k)
      /\ \A u \in TurnIds \ {t} : j.files[u] = journal.files[u] /\ (u \in j.full <=> u \in journal.full)
  BY <1>5, <1>8, CarriesNotes
<1>10. j \in Journals /\ journal' = Pruned(j, idx)
  BY <1>1, <1>4, <1>5, StoredTyped
<1>11. \A u \in TurnIds :
          /\ Indexed(idx, u) => journal'.files[u] = j.files[u] /\ (u \in journal'.full <=> u \in j.full)
          /\ ~Indexed(idx, u) => journal'.files[u] = <<>> /\ u \notin journal'.full
  BY <1>10, PrunedFacts
<1>12. Carries(ts, journal', idx, t, k)
  <2>1. ts[t].stage # "pre"
    BY <1>4, <1>5
  <2>2. (Indexed(idx, t) \/ ts[t].stage = "pre") /\ ~Full(journal'.files[t]) =>
           ~Full(journal.files[t]) /\ journal'.files[t] = journal.files[t] \o k
    BY <1>9, <1>11, <2>1 DEF Carries
  <2>3. t > used.turns => journal'.files[t] = <<>>
    BY <1>9, <1>11 DEF Carries
  <2>4. t \in journal'.full => Full(journal'.files[t])
    BY <1>9, <1>11 DEF Carries
  <2>. QED  BY <1>9, <2>2, <2>3, <2>4 DEF Carries
<1>13. ASSUME NEW u \in TurnIds \ {t} PROVE Carries(ts, journal', idx, u, <<>>)
  <2>1. turn[u].stage # "pre"
    <3>1. Phase(turn, u, current, used.turns)
      BY DEF MoveInv, Moves
    <3>. QED  BY <1>3, <3>1 DEF Phase
  <2>2. ts[u] = turn[u] /\ \A st : Has(idx, u, st) => Has(index, u, st)
    BY <1>4, <1>5, <1>7
  <2>3. \/ journal'.files[u] = journal.files[u] /\ (u \in journal'.full <=> u \in journal.full)
        \/ ~Indexed(idx, u) /\ turn[u].stage # "pre" /\ journal'.files[u] = <<>> /\ u \notin journal'.full
    BY <1>9, <1>11, <2>1
  <2>. QED  BY <1>6, <2>2, <2>3, CarriesNothing
<1>. QED  BY <1>2, <1>3, <1>5, <1>12, <1>13

LEMMA PromptMoves == ASSUME MoveInv, PromptSent PROVE MoveInv'
<1>1. OnceInv' /\ TypeInv /\ TypeInv'
  BY OncePrompt, MoveFacts DEF MoveInv, OnceInv
<1>2. /\ runner = "up" /\ current \in TurnIds /\ turn[current].stage = "pre"
      /\ \A u \in TurnIds \ {current} : turn'[u] = turn[u]
      /\ turn'[current].status = turn[current].status /\ turn'[current].stage = "run"
      /\ order' = Newest(RamKeep, Append(order, current))
      /\ UNCHANGED <<runner, current, asking, used, scope>>
  BY <1>1, PromptFacts
<1>3. \A u \in TurnIds : Phase(turn, u, current, used.turns)
  BY DEF MoveInv, Moves
<1>4. \A u \in TurnIds : Phase(turn', u, current', used'.turns)
  <2>1. Phase(turn', current, current', used'.turns)
    BY <1>2, <1>3 DEF Phase
  <2>. QED  BY <1>2, <1>3, <2>1 DEF Phase
<1>5. \A u \in TurnIds : \E k : Carries(turn', journal', index', u, k)
  BY PromptCarries
<1>6. used'.turns >= used.turns
  BY <1>2, MoveFacts
<1>7. \A u \in TurnIds : Listed(u)' /\ Filed(u)'
  BY <1>1, <1>2, <1>4, <1>5, <1>6, CarriesMoves
<1>8. \A i \in 1..Len(order') : turn'[order'[i]].stage \notin {"pre", "unsent"}
  <2>1. order \in Seq(TurnIds) /\ Len(order) \in Nat
    BY <1>1, Unsteady, ListedOrder
  <2>2. PICK a : a = Append(order, current)
    OBVIOUS
  <2>3. /\ a \in Seq(TurnIds) /\ Len(a) = Len(order) + 1 /\ a[Len(order) + 1] = current
        /\ \A i \in 1..Len(order) : a[i] = order[i]
    BY <1>2, <2>1, <2>2, AppendProperties
  <2>4. PICK r : r = Newest(RamKeep, a)
    OBVIOUS
  <2>5. /\ r \in Seq(TurnIds) /\ Len(r) <= Len(a) /\ \A i \in 1..Len(r) : r[i] = a[i + (Len(a) - Len(r))]
    <3>1. RamKeep \in Nat
      BY Bounds
    <3>2. /\ Newest(RamKeep, a) \in Seq(TurnIds) /\ Len(Newest(RamKeep, a)) <= Len(a)
          /\ \A i \in 1..Len(Newest(RamKeep, a)) :
                Newest(RamKeep, a)[i] = a[i + (Len(a) - Len(Newest(RamKeep, a)))]
      BY <2>3, <3>1, NewestFacts
    <3>. QED  BY <2>4, <3>2
  <2>6. Len(r) \in Nat
    BY <2>5, LenProperties
  <2>7. ASSUME NEW i \in 1..Len(a) PROVE turn'[a[i]].stage \notin {"pre", "unsent"}
    <3>1. CASE i = Len(order) + 1
      BY <1>2, <2>3, <3>1
    <3>2. CASE i \in 1..Len(order)
      <4>1. PICK u \in TurnIds : u = a[i] /\ turn[u].stage \notin {"pre", "unsent"}
        BY <2>3, <3>2, ListedOrder
      <4>. QED  BY <1>2, <4>1
    <3>. QED  BY <2>1, <2>3, <3>1, <3>2
  <2>8. ASSUME NEW i \in 1..Len(r) PROVE turn'[r[i]].stage \notin {"pre", "unsent"}
    <3>1. i + (Len(a) - Len(r)) \in 1..Len(a)
      BY <2>1, <2>3, <2>5, <2>6
    <3>. QED  BY <2>5, <2>7, <3>1
  <2>. QED  BY <1>2, <2>2, <2>4, <2>8
<1>9. Quiet'
  <2>1. asking' => Running'
    <3>1. current # 0
      BY <1>2 DEF TurnIds
    <3>. QED  BY <1>2, <3>1 DEF Running
  <2>. QED  BY <1>2, <1>8, <2>1 DEF Quiet
<1>. QED  BY <1>1, <1>4, <1>7, <1>9 DEF MoveInv, Moves

\* Steps that touch no journal.
LEMMA EasyFacts ==
    ASSUME \/ \E m \in Messages : Dequeues(m)
           \/ PutsBack \/ OtherTakes \/ AgentExits
           \/ (\E t \in TurnIds : Follows(t)) \/ FollowGoesOn
           \/ UNCHANGED vars
    PROVE  /\ UNCHANGED <<turn, order, current, asking, index, journal, used, scope>>
           /\ (runner' = "down" <=> runner = "down")
BY DEF Dequeues, PutsBack, OtherTakes, AgentExits, Follows, FollowGoesOn, vars

LEMMA EasyMoves ==
    ASSUME MoveInv,
           \/ \E m \in Messages : Dequeues(m)
           \/ PutsBack \/ OtherTakes \/ AgentExits
           \/ (\E t \in TurnIds : Follows(t)) \/ FollowGoesOn
           \/ UNCHANGED vars
    PROVE  MoveInv'
<1>1. OnceInv'
  BY OnceEasy DEF MoveInv
<1>2. /\ UNCHANGED <<turn, order, current, asking, index, journal, used, scope>>
      /\ (runner' = "down" <=> runner = "down")
  BY EasyFacts
<1>3. ASSUME NEW u \in TurnIds
      PROVE  Phase(turn', u, current', used'.turns) /\ Listed(u)' /\ Filed(u)'
  <2>1. Phase(turn, u, current, used.turns) /\ Listed(u) /\ Filed(u)
    BY DEF MoveInv, Moves
  <2>. QED  BY <1>2, <2>1 DEF Phase, Listed, Filed
<1>4. Quiet'
  BY <1>2 DEF MoveInv, Moves, Quiet, Running
<1>. QED  BY <1>1, <1>3, <1>4 DEF MoveInv, Moves

-----------------------------------------------------------------------------
(* Crashes.                                                                *)

\* What a crash leaves of turn u: a reconstruction may have begun on its file.
Crashed(u, kinds) ==
    /\ kinds \in Seq(Kinds) /\ turn'[u] = NoTurn /\ u \notin journal'.full
    /\ u > used.turns => journal'.files[u] = <<>>
    /\ ~Full(journal'.files[u]) => ~Full(journal.files[u]) /\ journal'.files[u] = journal.files[u] \o kinds
    /\ \/ kinds = <<>>
       \/ ~Indexed(index, u)
       \/ /\ scope.hazard = "in_step" /\ runner = "down"
          /\ \E i \in DOMAIN index :
                /\ index[i].turn = u /\ index[i].status = "running"
                /\ \E n \in 1..Len(Reconciled(index[i])) : kinds = SubSeq(Reconciled(index[i]), 1, n)

LEMMA CrashedUntouched ==
    ASSUME MoveInv, NEW u \in TurnIds, turn'[u] = NoTurn, journal'.full = {},
           journal'.files[u] = journal.files[u]
    PROVE  Crashed(u, <<>>)
<1>1. PICK e : e = <<>>
  OBVIOUS
<1>2. journal.files[u] \in Seq(Kinds) /\ Filed(u)
  BY MoveFacts DEF MoveInv, Moves
<1>3. e \in Seq(Kinds) /\ journal.files[u] \o e = journal.files[u]
  BY <1>1, <1>2, EmptySeq, ConcatEmptySeq
<1>4. u > used.turns => journal.files[u] = <<>>
  BY <1>2 DEF Filed
<1>. QED  BY <1>1, <1>3, <1>4 DEF Crashed

LEMMA CrashedStored ==
    ASSUME MoveInv, NEW t \in TurnIds, t <= used.turns, NEW kinds \in Seq(Kinds),
           journal' = [Stored(journal, t, kinds) EXCEPT !.full = {}],
           \A u \in TurnIds : turn'[u] = NoTurn,
           \/ ~Indexed(index, t)
           \/ /\ scope.hazard = "in_step" /\ runner = "down"
              /\ \E i \in DOMAIN index :
                    /\ index[i].turn = t /\ index[i].status = "running"
                    /\ \E n \in 1..Len(Reconciled(index[i])) : kinds = SubSeq(Reconciled(index[i]), 1, n)
    PROVE  \A u \in TurnIds : \E k : Crashed(u, k)
<1>1. scope \in Scopes /\ journal \in Journals /\ Filed(t) /\ used.turns \in Nat
  BY MoveFacts DEF MoveInv, Moves
<1>2. t \in journal.full => Full(journal.files[t])
  BY <1>1 DEF Filed
<1>3. PICK r : r = Stored(journal, t, kinds)
  OBVIOUS
<1>4. /\ \A u \in TurnIds \ {t} : r.files[u] = journal.files[u]
      /\ ~Full(r.files[t]) => ~Full(journal.files[t]) /\ r.files[t] = journal.files[t] \o kinds
  <2>1. /\ \A u \in TurnIds \ {t} : Stored(journal, t, kinds).files[u] = journal.files[u]
        /\ ~Full(Stored(journal, t, kinds).files[t]) =>
              ~Full(journal.files[t]) /\ Stored(journal, t, kinds).files[t] = journal.files[t] \o kinds
    BY <1>1, <1>2, StoredFacts
  <2>. QED  BY <1>3, <2>1
<1>5. r \in Journals
  BY <1>1, <1>3, StoredTyped
<1>6. journal'.files = r.files /\ journal'.full = {}
  BY <1>3, <1>5 DEF Journals
<1>7. Crashed(t, kinds)
  <2>1. ~(t > used.turns)
    BY <1>1 DEF TurnIds
  <2>. QED  BY <1>4, <1>6, <2>1 DEF Crashed
<1>8. \A u \in TurnIds \ {t} : Crashed(u, <<>>)
  BY <1>4, <1>6, CrashedUntouched
<1>. QED  BY <1>7, <1>8

LEMMA CrashesTurns ==
    ASSUME MoveInv, CrashBetween \/ CrashInStart \/ CrashInOpen
    PROVE  \A u \in TurnIds : \E kinds : Crashed(u, kinds)
<1>1. TypeInv /\ Entries /\ journal \in Journals /\ index \in Seq(IndexRows)
  BY MoveFacts
<1>2. CASE CrashBetween
  <2>1. \A u \in TurnIds : turn'[u] = NoTurn
    BY <1>1, <1>2, CrashFacts DEF CrashBetween
  <2>2. journal' = [journal EXCEPT !.full = {}]
    BY <1>1, <1>2, CrashFacts DEF CrashBetween
  <2>3. journal'.full = {} /\ \A u \in TurnIds : journal'.files[u] = journal.files[u]
    BY <1>1, <2>2 DEF Journals
  <2>. QED  BY <2>1, <2>3, CrashedUntouched
<1>3. CASE CrashInStart
  <2>1. PICK k : k = <<"pre">>
    OBVIOUS
  <2>2. Crashes(index, Stored(journal, current, k)) /\ Starting
    BY <1>3, <2>1 DEF CrashInStart
  <2>3. k \in Seq(Kinds)
    BY <2>1, KindsWritten DEF Kinds
  <2>4. current \in TurnIds /\ turn[current].stage = "pre"
    BY <2>2, MoveFacts DEF Starting
  <2>5. /\ \A u \in TurnIds : turn'[u] = NoTurn
        /\ journal' = [Stored(journal, current, k) EXCEPT !.full = {}]
    BY <1>1, <2>2, CrashFacts
  <2>6. ~Indexed(index, current)
    BY <1>1, <2>2, Lengths DEF Entries, Indexed
  <2>7. current <= used.turns
    BY <2>4 DEF MoveInv, Moves, Phase
  <2>. QED  BY <2>3, <2>4, <2>5, <2>6, <2>7, CrashedStored
<1>4. CASE CrashInOpen
  <2>1. PICK i \in DOMAIN index :
            /\ index[i].status = "running"
            /\ \E n \in 1..Len(Reconciled(index[i])) :
                  Crashes(index, Stored(journal, index[i].turn, SubSeq(Reconciled(index[i]), 1, n)))
    BY <1>4 DEF CrashInOpen
  <2>2. PICK n \in 1..Len(Reconciled(index[i])) :
            Crashes(index, Stored(journal, index[i].turn, SubSeq(Reconciled(index[i]), 1, n)))
    BY <2>1
  <2>3. PICK t \in TurnIds : t = index[i].turn /\ t <= used.turns
    BY <1>1, Lengths DEF Entries
  <2>4. PICK k : k = SubSeq(Reconciled(index[i]), 1, n)
    OBVIOUS
  <2>5. k \in Seq(Kinds)
    <3>1. PICK r : r = Reconciled(index[i])
      OBVIOUS
    <3>2. r \in Seq(Kinds) /\ Len(r) \in Nat /\ n \in 1..Len(r)
      BY <2>2, <3>1, ReconciledTyped, LenProperties
    <3>3. \A h \in 1..n : r[h] \in Kinds
      BY <3>2, ElementOfSeq
    <3>4. SubSeq(r, 1, n) \in Seq(Kinds)
      BY <3>2, <3>3, SubSeqProperties
    <3>. QED  BY <2>4, <3>1, <3>4
  <2>6. /\ \A u \in TurnIds : turn'[u] = NoTurn
        /\ journal' = [Stored(journal, t, k) EXCEPT !.full = {}]
    BY <1>1, <2>2, <2>3, <2>4, CrashFacts
  <2>7. scope.hazard = "in_step" /\ runner = "down"
    BY <1>4 DEF CrashInOpen
  <2>. QED  BY <2>1, <2>2, <2>3, <2>4, <2>5, <2>6, <2>7, CrashedStored
<1>. QED  BY <1>2, <1>3, <1>4

LEMMA CrashesMoves ==
    ASSUME MoveInv, CrashBetween \/ CrashInStart \/ CrashInOpen PROVE MoveInv'
<1>1. OnceInv' /\ TypeInv
  BY OnceCrashes, MoveFacts DEF MoveInv
<1>2. \E j : Crashes(index, j)
  BY DEF CrashBetween, CrashInStart, CrashInOpen
<1>3. /\ index' = index /\ runner' = "down" /\ current' = 0 /\ order' = <<>> /\ UNCHANGED scope
      /\ used'.turns = used.turns /\ asking' = FALSE
  BY <1>1, <1>2, CrashFacts
<1>4. \A u \in TurnIds : \E kinds : Crashed(u, kinds)
  BY CrashesTurns
<1>5. \A u \in TurnIds : u \notin journal'.full
  BY <1>4 DEF Crashed
<1>6. \A u \in TurnIds : turn'[u].stage = "none"
  BY <1>4 DEF Crashed, NoTurn
<1>7. ASSUME NEW u \in TurnIds
      PROVE  Phase(turn', u, current', used'.turns) /\ Listed(u)' /\ Filed(u)'
  <2>1. u > used'.turns => journal'.files[u] = <<>>
    BY <1>3, <1>4 DEF Crashed
  <2>. QED  BY <1>3, <1>5, <1>6, <2>1 DEF Phase, Listed, Filed
<1>8. Quiet'
  <2>1. Len(order') = 0
    BY <1>3, EmptySeq
  <2>. QED  BY <1>3, <1>6, <2>1 DEF Quiet
<1>. QED  BY <1>1, <1>7, <1>8 DEF MoveInv, Moves

\* A turn whose stage a step sets.
LEMMA CarriesStaged ==
    ASSUME MoveInv, NEW ts, NEW j, NEW idx, NEW u \in TurnIds, Notes(ts, idx, u, <<>>),
           j.files[u] = journal.files[u], u \in j.full <=> u \in journal.full
    PROVE  Carries(ts, j, idx, u, <<>>)
<1>1. PICK e : e = <<>>
  OBVIOUS
<1>2. journal.files[u] \in Seq(Kinds) /\ Filed(u) /\ Notes(ts, idx, u, e)
  BY <1>1, MoveFacts DEF MoveInv, Moves
<1>3. journal.files[u] \o e = journal.files[u]
  BY <1>1, <1>2, ConcatEmptySeq
<1>4. /\ u > used.turns => j.files[u] = <<>>
      /\ u \in j.full => Full(j.files[u])
  BY <1>2 DEF Filed
<1>5. Carries(ts, j, idx, u, e)
  BY <1>2, <1>3, <1>4 DEF Carries, Notes
<1>. QED  BY <1>1, <1>5

\* What a stop appends to the journal of a turn.
Stopping(u, kinds) ==
    \/ Running /\ u = current /\ kinds = Cancelled \o <<"post">>
    \/ ~(Running /\ u = current) /\ kinds = <<>> /\ turn'[u].status = turn[u].status

LEMMA DropsTurns ==
    ASSUME MoveInv, Drops
    PROVE  /\ turn' \in TurnStates /\ runner # "down" /\ asking' = FALSE /\ used'.turns = used.turns
           /\ runner' = "down" /\ current' = 0 /\ order' = <<>> /\ UNCHANGED scope
           /\ \A u \in TurnIds :
                 /\ turn'[u].stage = IF turn[u].stage \in {"run", "post"} THEN "closed" ELSE turn[u].stage
                 /\ turn[u].stage \in {"none", "run", "post", "closed", "unsent"}
                 /\ turn[u].stage = "post" => scope.hazard = "late"
                 /\ turn'[u].status # "running" \/ turn[u].stage = "none"
           /\ \A u \in TurnIds : \E kinds : Carries(turn', journal', index', u, kinds) /\ Stopping(u, kinds)
<1>1. TypeInv /\ Entries /\ turn \in TurnStates /\ index \in Seq(IndexRows) /\ used \in Uses
      /\ Len(index) <= Keep
  BY MoveFacts DEF TypeInv, Counts, Uses
<1>2. /\ runner # "down" /\ ~Starting /\ Forgets /\ Restarted /\ UNCHANGED scope
      /\ \A u \in TurnIds : turn[u].stage # "handing"
      /\ InBookkeeping # {} => scope.hazard = "late"
  BY DEF Drops, Stoppable
<1>3. \A u \in TurnIds : Phase(turn, u, current, used.turns) /\ Listed(u)
  BY DEF MoveInv, Moves
<1>4. \A u \in TurnIds : /\ turn[u].stage \in {"none", "run", "post", "closed", "unsent"}
                         /\ turn[u].stage = "post" => scope.hazard = "late"
                         /\ turn[u].stage = "run" => Running /\ u = current
  <2>1. ASSUME NEW u \in TurnIds, turn[u].stage = "pre" PROVE FALSE
    <3>1. u = current /\ current # 0
      BY <1>3, <2>1 DEF Phase, TurnIds
    <3>. QED  BY <1>2, <2>1, <3>1 DEF Starting
  <2>2. ASSUME NEW u \in TurnIds, turn[u].stage = "run" PROVE Running /\ u = current
    <3>1. u = current /\ current # 0
      BY <1>3, <2>2 DEF Phase, TurnIds
    <3>. QED  BY <2>2, <3>1 DEF Running
  <2>3. \A u \in TurnIds : turn[u].stage \in Stages
    BY MoveFacts
  <2>4. \A u \in TurnIds : turn[u].stage = "post" => scope.hazard = "late"
    BY <1>2 DEF InBookkeeping
  <2>. QED  BY <1>2, <2>1, <2>2, <2>3, <2>4 DEF Stages
<1>5. PICK left :
              /\ \/ /\ Running /\ left = Left
                    /\ journal' = Stored(journal, current, Cancelled \o <<"post">>)
                    /\ index' = Noted(index, Left, current)
                 \/ ~Running /\ left = turn /\ journal' = journal /\ index' = index
              /\ left \in TurnStates
              /\ \A t \in TurnIds : left[t].msg = turn[t].msg /\ left[t].stage = turn[t].stage
              /\ turn' \in TurnStates
              /\ \A t \in TurnIds :
                    /\ turn'[t].msg = left[t].msg /\ turn'[t].status = left[t].status
                    /\ turn'[t].items = left[t].items
                    /\ (left[t].stage \in {"run", "post"} => turn'[t].stage = "closed")
                    /\ (left[t].stage \notin {"run", "post"} => turn'[t].stage = left[t].stage)
  BY <1>1, DropFacts
<1>6. /\ runner' = "down" /\ current' = 0 /\ order' = <<>> /\ asking' = FALSE
      /\ used'.turns = used.turns
  BY <1>1, <1>2, RestartedFacts DEF Forgets
<1>7. \A u \in TurnIds : turn'[u].stage = IF turn[u].stage \in {"run", "post"} THEN "closed" ELSE turn[u].stage
  BY <1>5
<1>8. PICK ts, idx, j : ts = turn' /\ idx = index' /\ j = journal'
  OBVIOUS
<1>9. ASSUME NEW u \in TurnIds, ~(Running /\ u = current), NEW a, a = idx,
             ts[u].items = turn[u].items, ts[u].status = turn[u].status,
             \A st : Has(a, u, st) => Has(index, u, st), a \in Seq(IndexRows),
             j.files[u] = journal.files[u], u \in j.full <=> u \in journal.full
      PROVE  Carries(ts, j, idx, u, <<>>)
  <2>1. CASE turn[u].stage # "post"
    <3>1. ts[u].stage = turn[u].stage
      BY <1>4, <1>7, <1>8, <1>9, <2>1
    <3>2. ts[u] = turn[u]
      <4>1. PICK x, y : x = ts[u] /\ y = turn[u]
        OBVIOUS
      <4>2. x.msg = y.msg /\ x.status = y.status /\ x.stage = y.stage /\ x.items = y.items
        BY <1>5, <1>8, <1>9, <3>1, <4>1
      <4>3. /\ x \in [msg : Messages \cup {NoMessage}, status : Ends \cup {"running"},
                      stage : Stages, items : Seq(Kinds)]
            /\ y \in [msg : Messages \cup {NoMessage}, status : Ends \cup {"running"},
                      stage : Stages, items : Seq(Kinds)]
        BY <1>1, <1>5, <1>8, <4>1 DEF TurnStates
      <4>4. x = y
        BY <4>2, <4>3
      <4>. QED  BY <4>1, <4>4
    <3>. QED  BY <1>9, <3>2, CarriesNothing
  <2>2. CASE turn[u].stage = "post"
    <3>1. ts[u].stage = "closed" /\ scope.hazard = "late"
      BY <1>4, <1>7, <1>8, <2>2
    <3>2. Indexed(idx, u) => Indexed(index, u)
      <4>1. ASSUME Indexed(idx, u) PROVE Indexed(index, u)
        <5>1. PICK st : Has(a, u, st)
          BY <1>9, <4>1, HasIndexed
        <5>. QED  BY <1>1, <1>9, <5>1, HasIndexed
      <4>. QED  BY <4>1
    <3>3. turn[u].items \in Seq(Kinds) /\ <<>> \in Seq(Kinds)
      BY MoveFacts, KindsWritten
    <3>4. turn[u].items \o <<>> = turn[u].items
      BY <3>3, ConcatEmptySeq
    <3>5. Notes(ts, idx, u, <<>>)
      BY <1>9, <2>2, <3>1, <3>2, <3>3, <3>4 DEF Notes
    <3>. QED  BY <1>9, <3>5, CarriesStaged
  <2>. QED  BY <2>1, <2>2
<1>10. CASE ~Running
  <2>1. \A u \in TurnIds : ts[u].items = turn[u].items /\ ts[u].status = turn[u].status
    BY <1>5, <1>8, <1>10
  <2>2. idx = index /\ j = journal
    BY <1>5, <1>8, <1>10
  <2>3. \A u \in TurnIds : Carries(ts, j, idx, u, <<>>)
    BY <1>1, <1>9, <1>10, <2>1, <2>2
  <2>4. \A u \in TurnIds : Stopping(u, <<>>)
    BY <1>8, <1>10, <2>1 DEF Stopping
  <2>5. \A u \in TurnIds : turn'[u].status # "running" \/ turn[u].stage = "none"
    BY <1>3, <1>4, <1>8, <1>10, <2>1 DEF Phase
  <2>. QED  BY <1>2, <1>4, <1>5, <1>6, <1>7, <1>8, <2>3, <2>4, <2>5
<1>11. CASE Running
  <2>1. PICK k : k = Cancelled \o <<"post">>
    OBVIOUS
  <2>2. PICK t \in TurnIds : t = current
    BY <1>1, <1>11, LeftFacts
  <2>3. /\ k \in Seq(Kinds) /\ \A u \in TurnIds \ {t} : Left[u] = turn[u]
        /\ Left[t].msg = turn[t].msg /\ Left[t].status = "failed" /\ Left \in TurnStates
        /\ turn[t].msg \in Messages /\ Left[t].items = turn[t].items \o k
    BY <1>1, <1>11, <2>1, <2>2, LeftFacts
  <2>4. turn[t].stage = "run" /\ turn[t].status = "running"
    BY <1>3, <1>11, <2>2 DEF Running, Phase
  <2>5. left = Left /\ j = Stored(journal, t, k) /\ idx = Noted(index, Left, t)
    BY <1>5, <1>8, <1>11, <2>1, <2>2
  <2>6. ts[t].items = turn[t].items \o k /\ ts[t].status = "failed" /\ ts[t].stage = "closed"
    BY <1>5, <1>8, <2>3, <2>4, <2>5
  <2>7. \A u, st : Has(idx, u, st) => (u = t /\ st = "failed") \/ (u # t /\ Has(index, u, st))
    BY <1>1, <2>3, <2>5, NotedHas
  <2>8. Indexed(index, t)
    <3>1. \E i \in 1..Len(index) : index[i].turn = t
      BY <1>1, <1>11, <2>2 DEF Entries
    <3>. QED  BY <1>1, <3>1, Lengths DEF Indexed
  <2>9. Notes(ts, idx, t, k)
    BY <2>3, <2>4, <2>6, <2>7, <2>8 DEF Notes
  <2>10. /\ Carries(ts, j, idx, t, k)
         /\ \A u \in TurnIds \ {t} : j.files[u] = journal.files[u] /\ (u \in j.full <=> u \in journal.full)
    BY <2>5, <2>9, CarriesNotes
  <2>11. idx \in Seq(IndexRows)
    BY <1>1, <2>3, <2>5, NotedTyped
  <2>12. ASSUME NEW u \in TurnIds \ {t}
         PROVE  Carries(ts, j, idx, u, <<>>) /\ ts[u].status = turn[u].status
    <3>1. ts[u].items = turn[u].items /\ ts[u].status = turn[u].status
      BY <1>5, <1>8, <2>3, <2>5
    <3>2. PICK a : a = idx
      OBVIOUS
    <3>3. (\A st : Has(a, u, st) => Has(index, u, st)) /\ a \in Seq(IndexRows)
      BY <2>7, <2>11, <3>2
    <3>. QED  BY <1>9, <2>2, <2>10, <3>1, <3>2, <3>3
  <2>13. ASSUME NEW u \in TurnIds PROVE \E h : Carries(ts, j, idx, u, h) /\ Stopping(u, h)
    <3>1. CASE u = t
      <4>1. Stopping(u, k)
        BY <1>11, <2>1, <2>2, <3>1 DEF Stopping
      <4>. QED  BY <2>10, <3>1, <4>1
    <3>2. CASE u # t
      <4>1. Stopping(u, <<>>)
        BY <1>8, <2>2, <2>12, <3>2 DEF Stopping
      <4>. QED  BY <2>12, <3>2, <4>1
    <3>. QED  BY <3>1, <3>2
  <2>14. \A u \in TurnIds : turn'[u].status # "running" \/ turn[u].stage = "none"
    <3>1. ASSUME NEW u \in TurnIds PROVE turn'[u].status # "running" \/ turn[u].stage = "none"
      <4>1. CASE u = t
        BY <1>8, <2>6, <4>1
      <4>2. CASE u # t
        BY <1>3, <1>4, <1>8, <2>2, <2>12, <4>2 DEF Phase
      <4>. QED  BY <4>1, <4>2
    <3>. QED  BY <3>1
  <2>. QED  BY <1>2, <1>4, <1>5, <1>6, <1>7, <1>8, <2>13, <2>14
<1>. QED  BY <1>10, <1>11

LEMMA DropsMoves == ASSUME MoveInv, Drops PROVE MoveInv'
<1>1. OnceInv' /\ TypeInv' /\ used.turns \in Nat
  BY OnceDrops, MoveFacts DEF MoveInv, OnceInv
<1>2. /\ asking' = FALSE /\ used'.turns = used.turns
      /\ runner' = "down" /\ current' = 0 /\ order' = <<>> /\ UNCHANGED scope /\ runner # "down"
      /\ \A u \in TurnIds :
                 /\ turn'[u].stage = IF turn[u].stage \in {"run", "post"} THEN "closed" ELSE turn[u].stage
                 /\ turn[u].stage \in {"none", "run", "post", "closed", "unsent"}
                 /\ turn'[u].status # "running" \/ turn[u].stage = "none"
      /\ \A u \in TurnIds : \E kinds : Carries(turn', journal', index', u, kinds)
  BY DropsTurns
<1>3. ASSUME NEW u \in TurnIds
      PROVE  Phase(turn', u, current', used'.turns) /\ Listed(u)' /\ Filed(u)'
  <2>1. turn'[u].stage \in {"none", "closed", "unsent"} /\ Phase(turn, u, current, used.turns)
    BY <1>2 DEF MoveInv, Moves
  <2>2. Phase(turn', u, current', used'.turns)
    BY <1>2, <2>1 DEF Phase
  <2>3. used'.turns >= used.turns
    BY <1>1, <1>2
  <2>. QED  BY <1>1, <1>2, <2>2, <2>3, CarriesMoves
<1>4. Quiet'
  <2>1. Len(order') = 0
    BY <1>2, EmptySeq
  <2>2. \A u \in TurnIds : turn'[u].stage \in {"none", "closed", "unsent"}
    BY <1>2
  <2>. QED  BY <1>2, <2>1, <2>2 DEF Quiet
<1>. QED  BY <1>1, <1>3, <1>4 DEF MoveInv, Moves

-----------------------------------------------------------------------------
(* Reconstruction.                                                         *)

\* A reconstruction makes of turn u, listed with the status st, a turn that is over.
Reopened(u, st, kinds) ==
    /\ Has(index, u, st) /\ kinds \in Seq(Kinds) /\ u <= used.turns
    /\ st = "running" => kinds = Settlement(journal.files[u])
    /\ st # "running" => kinds = <<>>
    /\ turn'[u].stage = "closed" /\ turn'[u].items = journal.files[u] \o kinds
    /\ st = "running" => turn'[u].status = "interrupted"
    /\ st # "running" => turn'[u].status = st
    /\ u \in journal'.full => Full(journal'.files[u])
    /\ ~Full(journal'.files[u]) => ~Full(journal.files[u]) /\ journal'.files[u] = journal.files[u] \o kinds

\* A turn that is not in the index stays unknown.
Unlisted(u) ==
    /\ ~Indexed(index, u) /\ turn'[u] = NoTurn
    /\ journal'.files[u] = journal.files[u] /\ u \notin journal'.full

LEMMA OpensIndex ==
    ASSUME MoveInv, Opens, NEW u, NEW st, Has(index', u, st)
    PROVE  Indexed(index, u) /\ u \in TurnIds /\ st = turn'[u].status
<1>1. TypeInv /\ \A i \in 1..Len(index) : index[i] \in IndexRows /\ index[i].turn \in TurnIds
  BY MoveFacts, Lengths
<1>2. DOMAIN index = 1..Len(index)
  BY <1>1, Lengths
<1>3. PICK f : f = [i \in 1..Len(index) |-> turn'[index[i].turn].status]
  OBVIOUS
<1>4. index' = [i \in 1..Len(index) |-> [index[i] EXCEPT !.status = f[i]]]
  BY <1>1, <1>2, <1>3, OpensFacts
<1>5. \A i \in 1..Len(index) : index'[i].turn = index[i].turn /\ index'[i].status = f[i]
  BY <1>1, <1>4 DEF IndexRows
<1>6. PICK i \in 1..Len(index) : index'[i].turn = u /\ index'[i].status = st
  BY <1>4 DEF Has
<1>7. index[i].turn = u /\ st = turn'[u].status
  BY <1>3, <1>5, <1>6
<1>. QED  BY <1>1, <1>2, <1>7 DEF Indexed

LEMMA OpensTurn ==
    ASSUME MoveInv, Opens, NEW u \in TurnIds
    PROVE  Unlisted(u) \/ \E st \in Ends \cup {"running"} : \E kinds : Reopened(u, st, kinds)
<1>1. /\ TypeInv /\ Entries /\ journal \in Journals /\ index \in Seq(IndexRows) /\ scope \in Scopes
      /\ DOMAIN index = 1..Len(index) /\ journal.files[u] \in Seq(Kinds)
      /\ \A i \in 1..Len(index) : index[i] \in IndexRows
  BY MoveFacts, Lengths
<1>2. Indexed(index, u) <=> u \in IndexedTurns
  BY DEF Indexed, IndexedTurns, ToSet
<1>3. journal'.files[u] = Settled1(u).files[u] /\ (u \in journal'.full <=> u \in Settled1(u).full)
  BY <1>1, OpensFacts
<1>4. PICK j : j = [journal EXCEPT !.full = {}]
  OBVIOUS
<1>5. j \in Journals /\ j.files = journal.files /\ u \notin j.full /\ Added(u) \in Seq(Kinds)
  BY <1>1, <1>4, SettledTyped DEF Journals
<1>6. Settled1(u) = Stored(j, u, Added(u))
  BY <1>4 DEF Settled1
<1>7. CASE ~Indexed(index, u)
  <2>1. Added(u) = <<>>
    BY <1>2, <1>7 DEF Added
  <2>2. Settled1(u) = j
    BY <1>1, <1>5, <1>6, <2>1, StoredNothing
  <2>3. turn'[u] = NoTurn
    BY <1>1, <1>2, <1>7, OpensFacts
  <2>4. Unlisted(u)
    BY <1>3, <1>5, <1>7, <2>2, <2>3 DEF Unlisted
  <2>. QED  BY <2>4
<1>8. CASE Indexed(index, u)
  <2>1. PICK i \in 1..Len(index) : index[i].turn = u
    BY <1>1, <1>8 DEF Indexed
  <2>2. EntryOf(u) = index[i] /\ u \in IndexedTurns
    BY <1>1, <2>1, EntryFound DEF Entries
  <2>3. PICK st \in Ends \cup {"running"} : st = index[i].status
    BY <1>1 DEF IndexRows
  <2>4. PICK kinds : kinds = Added(u)
    OBVIOUS
  <2>5. kinds \in Seq(Kinds) /\ kinds = Reconciled(index[i])
    BY <1>5, <2>2, <2>4 DEF Added
  <2>6. /\ st = "running" => kinds = Settlement(journal.files[u])
        /\ st # "running" => kinds = <<>>
    BY <2>1, <2>3, <2>5 DEF Reconciled
  <2>7. /\ turn'[u].stage = "closed" /\ turn'[u].items = journal.files[u] \o kinds
        /\ st = "running" => turn'[u].status = "interrupted"
        /\ st # "running" => turn'[u].status = st
    <3>1. /\ turn'[u].stage = "closed"
          /\ (EntryOf(u).status = "running" => turn'[u].status = "interrupted")
          /\ (EntryOf(u).status # "running" => turn'[u].status = EntryOf(u).status)
          /\ turn'[u].items = journal.files[u] \o Reconciled(EntryOf(u))
      BY <1>1, <2>2, OpensFacts
    <3>. QED  BY <3>1, <2>2, <2>3, <2>5
  <2>8. Has(index, u, st) /\ u <= used.turns
    BY <1>1, <2>1, <2>3 DEF Has, Entries
  <2>9. PICK r : r = Stored(j, u, kinds)
    OBVIOUS
  <2>10. /\ u \in r.full => Full(r.files[u])
         /\ ~Full(r.files[u]) => ~Full(j.files[u]) /\ r.files[u] = j.files[u] \o kinds
    <3>1. /\ u \in Stored(j, u, kinds).full => Full(Stored(j, u, kinds).files[u])
          /\ ~Full(Stored(j, u, kinds).files[u]) =>
                ~Full(j.files[u]) /\ Stored(j, u, kinds).files[u] = j.files[u] \o kinds
      BY <1>1, <1>5, <2>5, StoredFacts
    <3>. QED  BY <2>9, <3>1
  <2>11. Settled1(u) = r
    BY <1>6, <2>4, <2>9
  <2>12. /\ u \in journal'.full => Full(journal'.files[u])
         /\ ~Full(journal'.files[u]) => ~Full(journal.files[u]) /\ journal'.files[u] = journal.files[u] \o kinds
    BY <1>3, <1>5, <2>10, <2>11
  <2>13. Reopened(u, st, kinds)
    BY <2>5, <2>6, <2>7, <2>8, <2>12 DEF Reopened
  <2>. QED  BY <2>13
<1>. QED  BY <1>7, <1>8

LEMMA OpensMoves == ASSUME MoveInv, Opens PROVE MoveInv'
<1>1. OnceInv' /\ TypeInv /\ index \in Seq(IndexRows) /\ used.turns \in Nat
  BY OnceOpens, MoveFacts DEF MoveInv
<1>2. /\ current' = 0 /\ runner' = "up" /\ asking' = FALSE /\ used'.turns = used.turns
      /\ UNCHANGED scope
  BY <1>1, OpensFacts
<1>3. ASSUME NEW u \in TurnIds
      PROVE  /\ Phase(turn', u, current', used'.turns) /\ Listed(u)' /\ Filed(u)'
  <2>1. \A st : Has(index', u, st) => Indexed(index, u) /\ st = turn'[u].status
    BY OpensIndex
  <2>2. u \in Nat /\ Filed(u)
    BY DEF TurnIds, MoveInv, Moves
  <2>3. CASE Unlisted(u)
    <3>1. turn'[u].stage = "none"
      BY <2>3 DEF Unlisted, NoTurn
    <3>2. \A st : ~Has(index', u, st)
      BY <2>1, <2>3 DEF Unlisted
    <3>3. Phase(turn', u, current', used'.turns) /\ Listed(u)'
      BY <3>1, <3>2 DEF Phase, Listed
    <3>4. Filed(u)'
      BY <1>2, <2>2, <2>3, <3>1 DEF Filed, Unlisted
    <3>. QED  BY <3>3, <3>4
  <2>4. CASE \E st \in Ends \cup {"running"} : \E kinds : Reopened(u, st, kinds)
    <3>0. PICK st \in Ends \cup {"running"} : \E kinds : Reopened(u, st, kinds)
      BY <2>4
    <3>1. PICK kinds : Reopened(u, st, kinds)
      BY <3>0
    <3>2. turn'[u].stage = "closed" /\ turn'[u].status # "running" /\ u <= used.turns
      BY <3>1 DEF Reopened
    <3>3. Phase(turn', u, current', used'.turns)
      BY <1>2, <3>2 DEF Phase
    <3>4. Listed(u)'
      BY <2>1, <3>2 DEF Listed
    <3>5. Filed(u)'
      BY <1>1, <1>2, <2>2, <3>1, <3>2 DEF Filed, Reopened
    <3>. QED  BY <3>3, <3>4, <3>5
  <2>. QED  BY <2>3, <2>4, OpensTurn
<1>4. Quiet'
  <2>1. \A u \in TurnIds : turn'[u].stage \in {"none", "closed"}
    <3>1. ASSUME NEW u \in TurnIds PROVE turn'[u].stage \in {"none", "closed"}
      BY OpensTurn DEF Reopened, Unlisted, NoTurn
    <3>. QED  BY <3>1
  <2>2. \A i \in 1..Len(order') : order'[i] \in TurnIds
    <3>1. order' \in Seq(TurnIds)
      BY <1>1 DEF OnceInv, TypeInv, TypeOK
    <3>. QED  BY <3>1, LenProperties, ElementOfSeq
  <2>. QED  BY <1>2, <2>1, <2>2 DEF Quiet
<1>. QED  BY <1>1, <1>3, <1>4 DEF MoveInv, Moves

LEMMA InitMoves == ASSUME Init PROVE MoveInv
<1>1. OnceInv
  BY OnceInit
<1>2. /\ turn = [t \in TurnIds |-> NoTurn] /\ order = <<>> /\ asking = FALSE /\ index = <<>>
      /\ journal = [files |-> [t \in TurnIds |-> <<>>], full |-> {}] /\ current = 0
  BY DEF Init, NoTurns
<1>3. \A u \in TurnIds : turn[u].stage = "none"
  BY <1>2 DEF NoTurn
<1>4. \A u, st : ~Has(index, u, st)
  BY <1>2 DEF Has
<1>5. \A u \in TurnIds : Phase(turn, u, current, used.turns) /\ Listed(u) /\ Filed(u)
  BY <1>2, <1>3, <1>4 DEF Phase, Listed, Filed
<1>6. Quiet
  BY <1>2, <1>3 DEF Quiet
<1>. QED  BY <1>1, <1>5, <1>6 DEF MoveInv, Moves

LEMMA MovesKept ==
    ASSUME MoveInv, Apart, BookkeepingInTime, [Next]_vars PROVE MoveInv'
<1>1. CASE \E m \in Messages : SendQueues(m) \/ SendStarts(m) \/ Dequeues(m)
  BY <1>1, SendsMoves, EasyMoves
<1>2. CASE PromptSent
  BY <1>2, PromptMoves
<1>3. CASE StartFails \/ TurnEnds \/ AgentAsks \/ Responds
  BY <1>3, TurnsMove
<1>4. CASE \E t \in TurnIds : BookkeepingDone(t) \/ TurnCloses(t)
  BY <1>4, BookkeepingMoves, TurnsMove
<1>5. CASE OtherReleases
  BY <1>5, ReleasesMoves
<1>6. CASE \/ PutsBack \/ OtherTakes \/ AgentExits
           \/ (\E t \in TurnIds : Follows(t)) \/ FollowGoesOn \/ UNCHANGED vars
  BY <1>6, EasyMoves
<1>7. CASE Drops \/ CrashBetween \/ CrashInStart \/ Opens \/ CrashInOpen
  BY <1>7, DropsMoves, CrashesMoves, OpensMoves
<1>8. ~DropBegins /\ \A t \in TurnIds : ~LeavingDone(t)
  BY NothingLeaves, MoveFacts DEF Apart
<1>. QED  BY <1>1, <1>2, <1>3, <1>4, <1>5, <1>6, <1>7, <1>8 DEF Next, TurnSteps

-----------------------------------------------------------------------------
(* Requests, answers and ends in a journal.                                *)

Asked(s) == Occurrences(s, {"request"})
Answered(s) == Occurrences(s, {"resolved", "cancelled"})
EndsIn(s) == Kept(s, Ends)

LEMMA CountsOfNone ==
    ASSUME NEW e, e = <<>>
    PROVE  Asked(e) = 0 /\ Answered(e) = 0 /\ EndsIn(e) = <<>> /\ ~Full(e)
<1>1. e \in Seq(Kinds) /\ Len(e) = 0 /\ DOMAIN e = {}
  BY EmptySeq, LenProperties
<1>2. ToSet(e) = {}
  BY <1>1 DEF ToSet
<1>3. \A S : Kept(e, S) = <<>>
  BY <1>1, <1>2, KeptNone
<1>4. \A S : Occurrences(e, S) = 0
  BY <1>3, EmptySeq DEF Occurrences
<1>. QED  BY <1>2, <1>3, <1>4 DEF Asked, Answered, EndsIn, Full

LEMMA CountsConcat ==
    ASSUME NEW s \in Seq(Kinds), NEW r \in Seq(Kinds)
    PROVE  /\ Asked(s) \in Nat /\ Answered(s) \in Nat /\ EndsIn(s) \in Seq(Kinds)
           /\ Asked(s \o r) = Asked(s) + Asked(r)
           /\ Answered(s \o r) = Answered(s) + Answered(r)
           /\ EndsIn(s \o r) = EndsIn(s) \o EndsIn(r)
<1>1. \A S : Kept(s, S) \in Seq(Kinds) /\ Kept(r, S) \in Seq(Kinds)
  BY KeptPlaces
<1>2. \A S : Kept(s \o r, S) = Kept(s, S) \o Kept(r, S)
  BY KeptConcat
<1>3. ASSUME NEW S
      PROVE  Occurrences(s, S) \in Nat /\ Occurrences(s \o r, S) = Occurrences(s, S) + Occurrences(r, S)
  <2>1. PICK a, b : a = Kept(s, S) /\ b = Kept(r, S)
    OBVIOUS
  <2>2. a \in Seq(Kinds) /\ b \in Seq(Kinds)
    BY <1>1, <2>1
  <2>3. Len(a) \in Nat /\ Len(a \o b) = Len(a) + Len(b)
    BY <2>2, LenProperties, ConcatProperties
  <2>. QED  BY <1>2, <2>1, <2>3 DEF Occurrences
<1>. QED  BY <1>1, <1>2, <1>3 DEF Asked, Answered, EndsIn

LEMMA CountsOfOne ==
    ASSUME NEW k \in Kinds, NEW s, s = <<k>>
    PROVE  /\ Asked(s) = (IF k = "request" THEN 1 ELSE 0)
           /\ Answered(s) = (IF k \in {"resolved", "cancelled"} THEN 1 ELSE 0)
           /\ EndsIn(s) = (IF k \in Ends THEN s ELSE <<>>)
           /\ (Full(s) <=> k = "overflow") /\ s \in Seq(Kinds)
<1>1. PICK e : e = <<>>
  OBVIOUS
<1>2. e \in Seq(Kinds) /\ Append(e, k) = s
  BY <1>1, EmptySeq
<1>3. ToSet(e) \cap {k} = {} /\ Kept(e, {}) = Kept(e, {}) /\ \A S : Kept(e, S) = <<>>
  <2>1. ToSet(e) = {}
    BY <1>1, EmptySeq DEF ToSet
  <2>. QED  BY <1>2, <2>1, KeptNone
<1>4. \A S : Kept(s, S) = IF k \in S THEN s ELSE <<>>
  <2>1. ASSUME NEW S PROVE Kept(s, S) = IF k \in S THEN s ELSE <<>>
    <3>1. Kept(Append(e, k), S) = IF k \in S THEN Append(Kept(e, S), k) ELSE Kept(e, S)
      BY <1>2, KeptAppend
    <3>. QED  BY <1>1, <1>2, <1>3, <3>1
  <2>. QED  BY <2>1
<1>5. Len(s) = 1 /\ Len(e) = 0 /\ s \in Seq(Kinds)
  BY <1>1, <1>2, EmptySeq, AppendProperties
<1>6. \A S : Occurrences(s, S) = IF k \in S THEN 1 ELSE 0
  BY <1>1, <1>4, <1>5 DEF Occurrences
<1>7. ToSet(s) = {k}
  <2>1. DOMAIN s = {1} /\ s[1] = k
    BY <1>5
  <2>. QED  BY <2>1 DEF ToSet
<1>. QED  BY <1>4, <1>5, <1>6, <1>7 DEF Asked, Answered, EndsIn, Full

\* What the steps of a turn append.
LEMMA CountsOfCancelled ==
    /\ Cancelled \in Seq(Kinds) /\ Asked(Cancelled) = 0
    /\ Answered(Cancelled) = (IF asking THEN 1 ELSE 0) /\ EndsIn(Cancelled) = <<>>
<1>1. CASE asking
  <2>1. PICK c : c = <<"cancelled">>
    OBVIOUS
  <2>2. PICK k : k = "cancelled"
    OBVIOUS
  <2>3. k \in Kinds /\ k \notin Ends /\ k # "request" /\ k \in {"resolved", "cancelled"}
    BY <2>2 DEF Kinds, Ends
  <2>4. c = <<k>>
    BY <2>1, <2>2
  <2>5. Asked(c) = 0 /\ Answered(c) = 1 /\ EndsIn(c) = <<>> /\ c \in Seq(Kinds)
    BY <2>3, <2>4, CountsOfOne
  <2>6. Cancelled = c
    BY <1>1, <2>1 DEF Cancelled
  <2>. QED  BY <1>1, <2>5, <2>6
<1>2. CASE ~asking
  <2>1. Cancelled = <<>>
    BY <1>2 DEF Cancelled
  <2>. QED  BY <1>2, <2>1, CountsOfNone, KindsWritten
<1>. QED  BY <1>1, <1>2

\* What a reconstruction appends, whole and cut short.
Closing(s) == IF Asked(s) > Answered(s) THEN <<"cancelled">> ELSE <<>>

LEMMA CountsOfClosing ==
    ASSUME NEW s
    PROVE  /\ Closing(s) \in Seq(Kinds) /\ Asked(Closing(s)) = 0 /\ EndsIn(Closing(s)) = <<>>
           /\ Answered(Closing(s)) = (IF Asked(s) > Answered(s) THEN 1 ELSE 0)
<1>1. PICK k : k = "cancelled"
  OBVIOUS
<1>2. k \in Kinds /\ k \notin Ends /\ k # "request" /\ k \in {"resolved", "cancelled"}
  BY <1>1 DEF Kinds, Ends
<1>3. PICK c : c = <<k>>
  OBVIOUS
<1>4. Asked(c) = 0 /\ Answered(c) = 1 /\ EndsIn(c) = <<>> /\ c \in Seq(Kinds)
  BY <1>2, <1>3, CountsOfOne
<1>5. PICK e : e = <<>>
  OBVIOUS
<1>6. Asked(e) = 0 /\ Answered(e) = 0 /\ EndsIn(e) = <<>> /\ e \in Seq(Kinds)
  BY <1>5, CountsOfNone, KindsWritten
<1>7. CASE Asked(s) > Answered(s)
  <2>1. Closing(s) = c
    BY <1>1, <1>3, <1>7 DEF Closing
  <2>. QED  BY <1>4, <1>7, <2>1
<1>8. CASE ~(Asked(s) > Answered(s))
  <2>1. Closing(s) = e
    BY <1>5, <1>8 DEF Closing
  <2>. QED  BY <1>6, <1>8, <2>1
<1>. QED  BY <1>7, <1>8

LEMMA CountsOfError ==
    \E a, b : /\ a = <<"error">> /\ b = <<"error", "interrupted">>
              /\ a \in Seq(Kinds) /\ Asked(a) = 0 /\ Answered(a) = 0 /\ EndsIn(a) = <<>>
              /\ b \in Seq(Kinds) /\ Asked(b) = 0 /\ Answered(b) = 0 /\ EndsIn(b) = <<"interrupted">>
<1>1. PICK a, b, c : a = <<"error">> /\ b = <<"error", "interrupted">> /\ c = <<"interrupted">>
  OBVIOUS
<1>2. PICK k, h : k = "error" /\ h = "interrupted"
  OBVIOUS
<1>3. /\ k \in Kinds /\ k \notin Ends /\ k # "request" /\ k \notin {"resolved", "cancelled"}
      /\ h \in Kinds /\ h \in Ends /\ h # "request" /\ h \notin {"resolved", "cancelled"}
  BY <1>2 DEF Kinds, Ends
<1>4. a = <<k>> /\ c = <<h>> /\ b = a \o c
  BY <1>1, <1>2
<1>5. a \in Seq(Kinds) /\ Asked(a) = 0 /\ Answered(a) = 0 /\ EndsIn(a) = <<>>
  BY <1>3, <1>4, CountsOfOne
<1>6. c \in Seq(Kinds) /\ Asked(c) = 0 /\ Answered(c) = 0 /\ EndsIn(c) = c
  BY <1>3, <1>4, CountsOfOne
<1>7. b \in Seq(Kinds)
  BY <1>1, <1>2, <1>3, KindsWritten
<1>8. Asked(b) = 0 /\ Answered(b) = 0 /\ EndsIn(b) = <<>> \o c
  <2>1. /\ Asked(a \o c) = Asked(a) + Asked(c) /\ Answered(a \o c) = Answered(a) + Answered(c)
        /\ EndsIn(a \o c) = EndsIn(a) \o EndsIn(c)
    BY <1>5, <1>6, CountsConcat
  <2>. QED  BY <1>4, <1>5, <1>6, <2>1
<1>9. <<>> \o c = c
  BY <1>6, ConcatEmptySeq
<1>. QED  BY <1>1, <1>5, <1>7, <1>8, <1>9

LEMMA CountsOfSettlement ==
    ASSUME NEW s
    PROVE  /\ Settlement(s) \in Seq(Kinds) /\ Asked(Settlement(s)) = 0
           /\ Answered(Settlement(s)) = (IF Asked(s) > Answered(s) THEN 1 ELSE 0)
           /\ EndsIn(Settlement(s)) = <<"interrupted">>
<1>1. PICK b : /\ b = <<"error", "interrupted">> /\ b \in Seq(Kinds) /\ Asked(b) = 0 /\ Answered(b) = 0
               /\ EndsIn(b) = <<"interrupted">>
  BY CountsOfError
<1>2. PICK c : c = Closing(s)
  OBVIOUS
<1>3. /\ c \in Seq(Kinds) /\ Asked(c) = 0 /\ EndsIn(c) = <<>>
      /\ Answered(c) = (IF Asked(s) > Answered(s) THEN 1 ELSE 0)
  BY <1>2, CountsOfClosing
<1>4. Settlement(s) = c \o b
  BY <1>1, <1>2 DEF Settlement, Closing, Asked, Answered
<1>5. /\ Asked(c \o b) = Asked(c) + Asked(b) /\ Answered(c \o b) = Answered(c) + Answered(b)
      /\ EndsIn(c \o b) = EndsIn(c) \o EndsIn(b)
  BY <1>1, <1>3, CountsConcat
<1>6. EndsIn(b) \in Seq(Kinds) /\ c \o b \in Seq(Kinds)
  BY <1>1, <1>3, CountsConcat, ConcatProperties
<1>7. <<>> \o EndsIn(b) = EndsIn(b)
  BY <1>6, ConcatEmptySeq
<1>. QED  BY <1>1, <1>3, <1>4, <1>5, <1>6, <1>7

LEMMA Joined ==
    ASSUME NEW s \in Seq(Kinds), NEW r \in Seq(Kinds), NEW q \in Seq(Kinds), Len(q) = Len(s) + Len(r),
           \A i \in 1..Len(s) : q[i] = s[i], \A i \in 1..Len(r) : q[i + Len(s)] = r[i]
    PROVE  s \o r = q
<1>1. PICK p : p = s \o r
  OBVIOUS
<1>2. /\ p \in Seq(Kinds) /\ Len(p) = Len(s) + Len(r)
      /\ \A i \in 1..(Len(s) + Len(r)) : p[i] = IF i <= Len(s) THEN s[i] ELSE r[i - Len(s)]
  BY <1>1, ConcatProperties
<1>3. Len(s) \in Nat /\ Len(r) \in Nat
  BY LenProperties
<1>4. ASSUME NEW i \in 1..(Len(s) + Len(r)) PROVE p[i] = q[i]
  <2>1. CASE i <= Len(s)
    BY <1>2, <1>3, <2>1
  <2>2. CASE ~(i <= Len(s))
    <3>1. i - Len(s) \in 1..Len(r) /\ (i - Len(s)) + Len(s) = i
      BY <1>3, <2>2
    <3>2. q[(i - Len(s)) + Len(s)] = r[i - Len(s)]
      BY <3>1
    <3>. QED  BY <1>2, <2>2, <3>1, <3>2
  <2>. QED  BY <2>1, <2>2
<1>5. p = q
  BY <1>2, <1>4, SeqEqual
<1>. QED  BY <1>1, <1>5

LEMMA JoinedTwo ==
    ASSUME NEW c \in Seq(Kinds), NEW e \in Seq(Kinds), NEW q \in Seq(Kinds),
           Len(c) = 1, Len(e) = 1, Len(q) = 2, q[1] = c[1], q[2] = e[1]
    PROVE  c \o e = q
<1>1. \A i \in 1..Len(c) : q[i] = c[i]
  OBVIOUS
<1>2. \A i \in 1..Len(e) : q[i + Len(c)] = e[i]
  <2>1. ASSUME NEW i \in 1..Len(e) PROVE i = 1 /\ i + Len(c) = 2
    OBVIOUS
  <2>. QED  BY <2>1
<1>3. Len(q) = Len(c) + Len(e)
  OBVIOUS
<1>. QED  BY <1>1, <1>2, <1>3, Joined

LEMMA JoinedThree ==
    ASSUME NEW c \in Seq(Kinds), NEW e \in Seq(Kinds), NEW q \in Seq(Kinds),
           Len(c) = 1, Len(e) = 2, Len(q) = 3, q[1] = c[1], q[2] = e[1], q[3] = e[2]
    PROVE  c \o e = q
<1>1. \A i \in 1..Len(c) : q[i] = c[i]
  OBVIOUS
<1>2. \A i \in 1..Len(e) : q[i + Len(c)] = e[i]
  <2>1. ASSUME NEW i \in 1..Len(e) PROVE q[i + Len(c)] = e[i]
    <3>1. (i = 1 /\ i + Len(c) = 2) \/ (i = 2 /\ i + Len(c) = 3)
      OBVIOUS
    <3>. QED  BY <3>1
  <2>. QED  BY <2>1
<1>3. Len(q) = Len(c) + Len(e)
  OBVIOUS
<1>. QED  BY <1>1, <1>2, <1>3, Joined

LEMMA FirstPart ==
    ASSUME NEW r \in Seq(Kinds), NEW n \in 1..Len(r), NEW q \in Seq(Kinds), Len(q) = n,
           \A i \in 1..n : q[i] = r[i]
    PROVE  SubSeq(r, 1, n) = q
<1>1. Len(r) \in Nat /\ \A i \in 1..n : r[i] \in Kinds
  BY LenProperties, ElementOfSeq
<1>2. PICK p : p = SubSeq(r, 1, n)
  OBVIOUS
<1>3. p \in Seq(Kinds) /\ Len(p) = n /\ \A i \in 1..n : p[i] = r[i]
  <2>1. /\ SubSeq(r, 1, n) \in Seq(Kinds)
        /\ Len(SubSeq(r, 1, n)) = IF 1 <= n THEN n - 1 + 1 ELSE 0
        /\ \A i \in 1..(n - 1 + 1) : SubSeq(r, 1, n)[i] = r[1 + i - 1]
    BY <1>1, SubSeqProperties
  <2>. QED  BY <1>1, <1>2, <2>1
<1>4. p = q
  BY <1>3, SeqEqual
<1>. QED  BY <1>2, <1>4

LEMMA PartsOfSettlement ==
    ASSUME NEW s, NEW n \in 1..Len(Settlement(s)), NEW p, p = SubSeq(Settlement(s), 1, n)
    PROVE  \/ p = Closing(s) /\ Asked(s) > Answered(s)
           \/ p = Closing(s) \o <<"error">>
           \/ p = Closing(s) \o <<"error", "interrupted">>
<1>1. PICK k, h, g : k = "cancelled" /\ h = "error" /\ g = "interrupted"
  OBVIOUS
<1>2. k \in Kinds /\ h \in Kinds /\ g \in Kinds
  BY <1>1 DEF Kinds, Ends
<1>3. CASE Asked(s) > Answered(s)
  <2>1. PICK r : r = <<k, h, g>>
    OBVIOUS
  <2>2. PICK c : c = <<k>>
    OBVIOUS
  <2>3. Closing(s) = c /\ Settlement(s) = c \o <<h, g>>
    BY <1>1, <1>3, <2>2 DEF Closing, Settlement, Asked, Answered
  <2>4. c \o <<h, g>> = r /\ c \o <<h>> = <<k, h>>
    <3>1. PICK a, b, d : a = <<h, g>> /\ b = <<h>> /\ d = <<k, h>>
      OBVIOUS
    <3>2. /\ c \in Seq(Kinds) /\ Len(c) = 1 /\ c[1] = k
          /\ b \in Seq(Kinds) /\ Len(b) = 1 /\ b[1] = h
          /\ d \in Seq(Kinds) /\ Len(d) = 2 /\ d[1] = k /\ d[2] = h
      BY <1>2, <2>2, <3>1
    <3>3. /\ a \in Seq(Kinds) /\ Len(a) = 2 /\ a[1] = h /\ a[2] = g
          /\ r \in Seq(Kinds) /\ Len(r) = 3 /\ r[1] = k /\ r[2] = h /\ r[3] = g
      BY <1>2, <2>1, <3>1
    <3>4. c \o b = d
      BY <3>2, JoinedTwo
    <3>5. c \o a = r
      BY <3>2, <3>3, JoinedThree
    <3>. QED  BY <3>1, <3>4, <3>5
  <2>5. /\ r \in Seq(Kinds) /\ Len(r) = 3 /\ r[1] = k /\ r[2] = h /\ r[3] = g
        /\ c \in Seq(Kinds) /\ Len(c) = 1 /\ c[1] = k
        /\ <<k, h>> \in Seq(Kinds) /\ Len(<<k, h>>) = 2 /\ <<k, h>>[1] = k /\ <<k, h>>[2] = h
    BY <1>2, <2>1, <2>2
  <2>6. n \in 1..Len(r) /\ n \in {1, 2, 3} /\ p = SubSeq(r, 1, n)
    BY <2>3, <2>4, <2>5
  <2>7. n = 1 => p = c
    <3>1. ASSUME n = 1 PROVE SubSeq(r, 1, n) = c
      <4>1. Len(c) = n /\ \A i \in 1..n : c[i] = r[i]
        BY <2>5, <3>1
      <4>. QED  BY <2>5, <2>6, <4>1, FirstPart
    <3>. QED  BY <2>6, <3>1
  <2>8. n = 2 => p = <<k, h>>
    <3>1. PICK q : q = <<k, h>>
      OBVIOUS
    <3>2. ASSUME n = 2 PROVE SubSeq(r, 1, n) = q
      <4>1. q \in Seq(Kinds) /\ Len(q) = n /\ \A i \in 1..n : q[i] = r[i]
        BY <2>5, <3>1, <3>2
      <4>. QED  BY <2>5, <2>6, <4>1, FirstPart
    <3>. QED  BY <2>6, <3>1, <3>2
  <2>9. n = 3 => p = r
    <3>1. ASSUME n = 3 PROVE SubSeq(r, 1, n) = r
      <4>1. Len(r) = n
        BY <2>5, <3>1
      <4>. QED  BY <2>5, <2>6, <4>1, FirstPart
    <3>. QED  BY <2>6, <3>1
  <2>. QED  BY <1>1, <1>3, <2>3, <2>4, <2>6, <2>7, <2>8, <2>9
<1>4. CASE ~(Asked(s) > Answered(s))
  <2>1. PICK r, e, q : r = <<h, g>> /\ e = <<>> /\ q = <<h>>
    OBVIOUS
  <2>2. Closing(s) = e /\ Settlement(s) = e \o r
    BY <1>1, <1>4, <2>1 DEF Closing, Settlement, Asked, Answered
  <2>3. /\ r \in Seq(Kinds) /\ Len(r) = 2 /\ r[1] = h /\ r[2] = g
        /\ q \in Seq(Kinds) /\ Len(q) = 1 /\ q[1] = h
    BY <1>2, <2>1
  <2>4. e \o r = r /\ e \o q = q
    BY <2>1, <2>3, ConcatEmptySeq
  <2>5. n \in 1..Len(r) /\ n \in {1, 2} /\ p = SubSeq(r, 1, n)
    BY <2>2, <2>3, <2>4
  <2>6. n = 1 => p = q
    <3>1. ASSUME n = 1 PROVE SubSeq(r, 1, n) = q
      <4>1. Len(q) = n /\ \A i \in 1..n : q[i] = r[i]
        BY <2>3, <3>1
      <4>. QED  BY <2>3, <2>5, <4>1, FirstPart
    <3>. QED  BY <2>5, <3>1
  <2>7. n = 2 => p = r
    <3>1. ASSUME n = 2 PROVE SubSeq(r, 1, n) = r
      <4>1. Len(r) = n
        BY <2>3, <3>1
      <4>. QED  BY <2>3, <2>5, <4>1, FirstPart
    <3>. QED  BY <2>5, <3>1
  <2>. QED  BY <1>1, <2>1, <2>2, <2>4, <2>5, <2>6, <2>7
<1>. QED  BY <1>3, <1>4

LEMMA CountsOfPart ==
    ASSUME NEW s, NEW n \in 1..Len(Settlement(s)), NEW p, p = SubSeq(Settlement(s), 1, n)
    PROVE  /\ p \in Seq(Kinds) /\ Asked(p) = 0
           /\ Answered(p) = (IF Asked(s) > Answered(s) THEN 1 ELSE 0)
<1>1. PICK a, b : /\ a = <<"error">> /\ b = <<"error", "interrupted">>
                  /\ a \in Seq(Kinds) /\ Asked(a) = 0 /\ Answered(a) = 0
                  /\ b \in Seq(Kinds) /\ Asked(b) = 0 /\ Answered(b) = 0
  BY CountsOfError
<1>2. PICK c : c = Closing(s)
  OBVIOUS
<1>3. c \in Seq(Kinds) /\ Asked(c) = 0 /\ Answered(c) = (IF Asked(s) > Answered(s) THEN 1 ELSE 0)
  BY <1>2, CountsOfClosing
<1>4. p = c \/ p = c \o a \/ p = c \o b
  BY <1>1, <1>2, PartsOfSettlement
<1>5. /\ Asked(c \o a) = Asked(c) + Asked(a) /\ Answered(c \o a) = Answered(c) + Answered(a)
      /\ Asked(c \o b) = Asked(c) + Asked(b) /\ Answered(c \o b) = Answered(c) + Answered(b)
  BY <1>1, <1>3, CountsConcat
<1>6. c \o a \in Seq(Kinds) /\ c \o b \in Seq(Kinds)
  BY <1>1, <1>3, ConcatProperties
<1>7. PICK x : x = Answered(c)
  OBVIOUS
<1>8. x \in Nat /\ x = (IF Asked(s) > Answered(s) THEN 1 ELSE 0)
  BY <1>3, <1>7
<1>9. /\ Asked(c \o a) = 0 /\ Answered(c \o a) = x
      /\ Asked(c \o b) = 0 /\ Answered(c \o b) = x
  BY <1>1, <1>3, <1>5, <1>7, <1>8
<1>10. p \in Seq(Kinds) /\ Asked(p) = 0 /\ Answered(p) = x
  BY <1>3, <1>4, <1>6, <1>7, <1>9
<1>. QED  BY <1>8, <1>10

-----------------------------------------------------------------------------
(* What a journal tells of its turn.                                       *)

Open(u) == asking /\ u = current

\* The ends in the journal s of a turn that has the status st and is in the stage g.
EndsTold(s, st, g) ==
    /\ g \in {"pre", "run", "unsent"} => EndsIn(s) = <<>>
    /\ g \in {"post", "handing"} => EndsIn(s) = <<st>>
    /\ g = "closed" => EndsIn(s) = <<>> \/ EndsIn(s) = <<st>>

\* In memory every request but the open one is answered, and the turn has ended as
\* its status says.
Story(u) ==
    turn[u].stage # "none" /\ ~Full(turn[u].items) =>
        /\ Asked(turn[u].items) = Answered(turn[u].items) + (IF Open(u) THEN 1 ELSE 0)
        /\ scope.hazard = "none" => EndsTold(turn[u].items, turn[u].status, turn[u].stage)

\* The file s of a turn that is listed with the status st, when nobody runs it: only
\* the last request may be open, and a turn listed as running has no end.
Rest(s, st) ==
    /\ Asked(s) = Answered(s) \/ (st = "running" /\ Asked(s) = Answered(s) + 1)
    /\ scope.hazard = "none" =>
        /\ st = "running" => EndsIn(s) = <<>>
        /\ st # "running" => EndsIn(s) = <<>> \/ EndsIn(s) = <<st>>

Resting(u) ==
    \A st : turn[u].stage = "none" /\ Has(index, u, st) /\ ~Full(journal.files[u]) =>
        Rest(journal.files[u], st)

StoryInv == MoveInv /\ \A u \in TurnIds : Story(u) /\ Resting(u)

\* Appending kinds opens a request or answers the open one, or does neither.
Balances(u, kinds) ==
    (IF Open(u) THEN 1 ELSE 0) + Asked(kinds) = Answered(kinds) + (IF Open(u)' THEN 1 ELSE 0)

\* Appending kinds ends the turn if the step does.
EndsWell(u, kinds) ==
    scope.hazard = "none" =>
        \/ /\ turn[u].stage = "run" /\ turn'[u].stage = "post" /\ EndsIn(kinds) = <<turn'[u].status>>
        \/ /\ EndsIn(kinds) = <<>> /\ turn[u].stage \in {"pre", "run", "unsent"}
           /\ turn'[u].stage \in {"pre", "run", "unsent", "closed"}
        \/ /\ EndsIn(kinds) = <<>> /\ turn[u].stage \in {"post", "handing"}
           /\ turn'[u].stage \in {"post", "handing", "closed"} /\ turn'[u].status = turn[u].status
        \/ /\ EndsIn(kinds) = <<>> /\ turn[u].stage = "closed"
           /\ turn'[u].stage = "closed" /\ turn'[u].status = turn[u].status

\* What a step makes of one turn's story by appending kinds.
LEMMA StoryGoesOn ==
    ASSUME StoryInv, NEW u \in TurnIds, NEW kinds \in Seq(Kinds), UNCHANGED scope,
           turn'[u].items = turn[u].items \o kinds, turn[u].stage # "none",
           Balances(u, kinds), EndsWell(u, kinds)
    PROVE  Story(u)'
<1>1. PICK s : s = turn[u].items
  OBVIOUS
<1>2. s \in Seq(Kinds)
  BY <1>1, MoveFacts DEF StoryInv
<1>3. PICK r : r = s \o kinds
  OBVIOUS
<1>4. ASSUME ~Full(r)
      PROVE  /\ Asked(s) = Answered(s) + (IF Open(u) THEN 1 ELSE 0)
             /\ scope.hazard = "none" => EndsTold(s, turn[u].status, turn[u].stage)
  <2>1. ~Full(s)
    BY <1>2, <1>3, <1>4, FullConcat
  <2>. QED  BY <1>1, <2>1 DEF StoryInv, Story
<1>5. /\ Asked(s) \in Nat /\ Answered(s) \in Nat /\ EndsIn(s) \in Seq(Kinds)
      /\ Asked(r) = Asked(s) + Asked(kinds) /\ Answered(r) = Answered(s) + Answered(kinds)
      /\ EndsIn(r) = EndsIn(s) \o EndsIn(kinds)
  BY <1>2, <1>3, CountsConcat
<1>6. Asked(kinds) \in Nat /\ Answered(kinds) \in Nat /\ EndsIn(kinds) \in Seq(Kinds)
  BY CountsConcat
<1>7. turn'[u].items = r
  BY <1>1, <1>3
<1>8. ASSUME ~Full(r) PROVE Asked(r) = Answered(r) + (IF Open(u)' THEN 1 ELSE 0)
  <2>1. PICK x \in {0, 1}, y \in {0, 1} : /\ x = (IF Open(u) THEN 1 ELSE 0)
                                          /\ y = (IF Open(u)' THEN 1 ELSE 0)
    OBVIOUS
  <2>2. Asked(s) = Answered(s) + x /\ x + Asked(kinds) = Answered(kinds) + y
    BY <1>4, <1>8, <2>1 DEF Balances
  <2>3. PICK a \in Nat, b \in Nat, c \in Nat, d \in Nat :
            a = Asked(s) /\ b = Answered(s) /\ c = Asked(kinds) /\ d = Answered(kinds)
    BY <1>5, <1>6
  <2>4. a = b + x /\ x + c = d + y
    BY <2>2, <2>3
  <2>5. a + c = (b + d) + y
    BY <2>1, <2>3, <2>4
  <2>6. Asked(r) = a + c /\ Answered(r) = b + d
    BY <1>5, <2>3
  <2>. QED  BY <2>1, <2>5, <2>6
<1>9. EndsIn(kinds) = <<>> => EndsIn(r) = EndsIn(s)
  BY <1>5, ConcatEmptySeq
<1>10. EndsIn(s) = <<>> => EndsIn(r) = EndsIn(kinds)
  BY <1>5, <1>6, ConcatEmptySeq
<1>11. ASSUME ~Full(r), scope.hazard = "none" PROVE EndsTold(r, turn'[u].status, turn'[u].stage)
  <2>1. EndsTold(s, turn[u].status, turn[u].stage)
    BY <1>4, <1>11
  <2>. QED  BY <1>9, <1>10, <1>11, <2>1 DEF EndsTold, EndsWell
<1>12. /\ ~Full(turn'[u].items) => Asked(turn'[u].items) = Answered(turn'[u].items) + (IF Open(u)' THEN 1 ELSE 0)
       /\ ~Full(turn'[u].items) /\ scope'.hazard = "none" => EndsTold(turn'[u].items, turn'[u].status, turn'[u].stage)
  BY <1>7, <1>8, <1>11
<1>. QED  BY <1>12 DEF Story

\* A turn that a step leaves alone.
LEMMA StoryStays ==
    ASSUME StoryInv, NEW u \in TurnIds, UNCHANGED scope, turn'[u] = turn[u], Open(u)' <=> Open(u)
    PROVE  Story(u)'
BY DEF StoryInv, Story

\* What is on disk when the runner goes.
LEMMA RestHolds ==
    ASSUME StoryInv, InBookkeeping # {} => scope.hazard = "late",
           NEW u \in TurnIds, NEW st, Has(index, u, st), ~Full(journal.files[u])
    PROVE  Rest(journal.files[u], st)
<1>1. /\ MoveInv /\ Story(u) /\ Resting(u) /\ Phase(turn, u, current, used.turns) /\ Listed(u) /\ Filed(u)
      /\ Quiet /\ index \in Seq(IndexRows)
  BY MoveFacts DEF StoryInv, MoveInv, Moves
<1>2. CASE turn[u].stage = "none"
  BY <1>1, <1>2 DEF Resting
<1>3. CASE turn[u].stage # "none"
  <2>1. Indexed(index, u)
    BY <1>1, HasIndexed
  <2>2. PICK s : s = journal.files[u]
    OBVIOUS
  <2>3. turn[u].items = s /\ ~Full(s)
    BY <1>1, <1>3, <2>1, <2>2 DEF Filed
  <2>4. /\ turn[u].stage \notin {"pre", "unsent"}
        /\ st # "running" => turn[u].status = st
        /\ turn[u].stage \in {"handing", "closed"} /\ scope.hazard # "late" => st # "running"
    BY <1>1, <1>3 DEF Listed
  <2>5. turn[u].status = "running" <=> turn[u].stage \in {"pre", "run"}
    BY <1>1, <1>3 DEF Phase
  <2>6. Asked(s) = Answered(s) + (IF Open(u) THEN 1 ELSE 0)
    BY <1>1, <1>3, <2>3 DEF Story
  <2>7. scope.hazard = "none" => EndsTold(s, turn[u].status, turn[u].stage)
    BY <1>1, <1>3, <2>3 DEF Story
  <2>8. Open(u) => st = "running"
    BY <1>1, <2>4, <2>5 DEF Open, Quiet, Running
  <2>9. s \in Seq(Kinds) /\ Answered(s) \in Nat
    <3>1. s \in Seq(Kinds)
      BY <1>1, <2>2, MoveFacts
    <3>. QED  BY <3>1, CountsConcat
  <2>10. Asked(s) = Answered(s) \/ (st = "running" /\ Asked(s) = Answered(s) + 1)
    BY <2>6, <2>8, <2>9
  <2>11. scope.hazard = "none" => turn[u].stage # "post"
    BY DEF InBookkeeping
  <2>12. turn[u].stage \in Stages
    BY <1>1, MoveFacts
  <2>13. scope.hazard = "none" =>
            /\ st = "running" => EndsIn(s) = <<>>
            /\ st # "running" => EndsIn(s) = <<>> \/ EndsIn(s) = <<st>>
    <3>1. ASSUME scope.hazard = "none", st = "running" PROVE EndsIn(s) = <<>>
      <4>1. turn[u].stage = "run"
        BY <1>3, <2>4, <2>11, <2>12, <3>1 DEF Stages
      <4>. QED  BY <2>7, <3>1, <4>1 DEF EndsTold
    <3>2. ASSUME scope.hazard = "none", st # "running" PROVE EndsIn(s) = <<>> \/ EndsIn(s) = <<st>>
      <4>1. turn[u].stage \in {"handing", "closed"} /\ turn[u].status = st
        BY <1>3, <2>4, <2>5, <2>11, <2>12, <3>2 DEF Stages
      <4>. QED  BY <2>7, <3>2, <4>1 DEF EndsTold
    <3>. QED  BY <3>1, <3>2
  <2>. QED  BY <2>2, <2>10, <2>13 DEF Rest
<1>. QED  BY <1>2, <1>3

-----------------------------------------------------------------------------
(* The steps of the stories.                                               *)

\* While there is a runner, every listed turn is known.
LEMMA RestsNothing ==
    ASSUME MoveInv', runner' # "down", NEW u \in TurnIds
    PROVE  Resting(u)'
BY DEF MoveInv, Moves, Listed, Resting

LEMMA RestStays ==
    ASSUME StoryInv, NEW u \in TurnIds, UNCHANGED <<turn, index, journal, scope>>
    PROVE  Resting(u)'
BY DEF StoryInv, Resting, Rest

LEMMA OpensQuietly ==
    ASSUME StoryInv, UNCHANGED asking, NEW u, Opened(u)
    PROVE  ~asking
<1>1. MoveInv /\ ~Busy
  BY DEF StoryInv, Opened
<1>2. asking => Running
  BY <1>1 DEF MoveInv, Moves, Quiet
<1>3. Running => \E v \in TurnIds : turn[v].stage \in {"pre", "run"}
  BY <1>1, MoveFacts DEF Running
<1>. QED  BY <1>1, <1>2, <1>3, MoveFacts

\* A turn that a step begins.
LEMMA OpenedStory ==
    ASSUME StoryInv, NEW u \in TurnIds, Opened(u), UNCHANGED <<asking, scope>>
    PROVE  Story(u)'
<1>1. PICK k : k = "turn"
  OBVIOUS
<1>2. PICK s : s = <<k>>
  OBVIOUS
<1>3. k \in Kinds /\ k \notin Ends /\ k # "request" /\ k \notin {"resolved", "cancelled"}
  BY <1>1 DEF Kinds, Ends
<1>4. Asked(s) = 0 /\ Answered(s) = 0 /\ EndsIn(s) = <<>>
  BY <1>2, <1>3, CountsOfOne
<1>5. turn'[u].items = s /\ turn'[u].stage = "pre"
  BY <1>1, <1>2 DEF Opened
<1>6. ~Open(u)'
  BY OpensQuietly DEF Open
<1>. QED  BY <1>4, <1>5, <1>6 DEF Story, EndsTold

\* A step that may start a turn, and appends at most what tells nothing.
LEMMA ComesStory ==
    ASSUME StoryInv, NEW u \in TurnIds, NEW ts, NEW kinds, Comes(ts, u, kinds),
           UNCHANGED <<asking, scope>>,
           Unopened \/ \E v : Opened(v),
           kinds \in Seq(Kinds) => Asked(kinds) = 0 /\ Answered(kinds) = 0 /\ EndsIn(kinds) = <<>>,
           \/ turn[u].stage = ts[u].stage
           \/ turn[u].stage = "post" /\ ts[u].stage = "handing",
           turn[u].status = ts[u].status
    PROVE  Story(u)'
<1>1. CASE Opened(u)
  BY <1>1, OpenedStory
<1>2. CASE ~Opened(u)
  <2>1. kinds \in Seq(Kinds) /\ turn'[u] = ts[u] /\ turn'[u].items = turn[u].items \o kinds
    BY <1>2 DEF Comes, Carries
  <2>2. Asked(kinds) = 0 /\ Answered(kinds) = 0 /\ EndsIn(kinds) = <<>>
    BY <2>1
  <2>3. Open(u)' <=> Open(u)
    <3>1. CASE Unopened
      BY <3>1 DEF Open, Unopened
    <3>2. CASE \E v : Opened(v)
      BY <3>2, OpensQuietly DEF Open
    <3>. QED  BY <3>1, <3>2
  <2>4. CASE turn[u].stage = "none"
    BY <2>1, <2>4 DEF Story
  <2>5. CASE turn[u].stage # "none"
    <3>1. turn[u].stage \in Stages
      BY MoveFacts DEF StoryInv
    <3>2. PICK x \in {0, 1} : x = (IF Open(u) THEN 1 ELSE 0) /\ x = (IF Open(u)' THEN 1 ELSE 0)
      BY <2>3
    <3>3. Balances(u, kinds)
      <4>1. x + Asked(kinds) = Answered(kinds) + x
        BY <2>2
      <4>. QED  BY <3>2, <4>1 DEF Balances
    <3>4. EndsWell(u, kinds)
      BY <2>1, <2>2, <2>5, <3>1 DEF Stages, EndsWell
    <3>5. UNCHANGED scope
      OBVIOUS
    <3>. QED  BY <2>1, <2>5, <3>3, <3>4, <3>5, StoryGoesOn
  <2>. QED  BY <2>4, <2>5
<1>. QED  BY <1>1, <1>2

\* The marks of the queue and of the checkpoint.
LEMMA CountsOfMarks ==
    \A s : s \in {<<>>, <<"queued">>, <<"pre">>, <<"post">>} =>
        s \in Seq(Kinds) /\ Asked(s) = 0 /\ Answered(s) = 0 /\ EndsIn(s) = <<>>
<1>. SUFFICES ASSUME NEW s, s \in {<<>>, <<"queued">>, <<"pre">>, <<"post">>}
              PROVE  s \in Seq(Kinds) /\ Asked(s) = 0 /\ Answered(s) = 0 /\ EndsIn(s) = <<>>
  OBVIOUS
<1>1. CASE s = <<>>
  BY <1>1, CountsOfNone, KindsWritten
<1>2. CASE s # <<>>
  <2>1. PICK k : k \in {"queued", "pre", "post"} /\ s = <<k>>
    BY <1>2
  <2>2. k \in Kinds /\ k \notin Ends /\ k # "request" /\ k \notin {"resolved", "cancelled"}
    BY <2>1 DEF Kinds, Ends
  <2>. QED  BY <2>1, <2>2, CountsOfOne
<1>. QED  BY <1>1, <1>2

LEMMA SendsStory ==
    ASSUME StoryInv, NEW m \in Messages, SendQueues(m) \/ SendStarts(m)
    PROVE  StoryInv'
<1>1. MoveInv /\ MoveInv' /\ TypeInv /\ TypeInv' /\ Stays(index)
  <2>1. MoveInv /\ MoveInv'
    BY SendsMoves DEF StoryInv
  <2>. QED  BY <2>1, MoveFacts, StaysSame DEF MoveInv, OnceInv
<1>2. runner = "up" /\ UNCHANGED <<runner, order, asking, scope>>
  BY <1>1, SendOutcome
<1>3. PICK ts, j :
          /\ Calm(ts) /\ j \in Journals /\ Outcome(ts, j, index)
          /\ \A u \in TurnIds : /\ Phase(ts, u, current, used.turns)
                                /\ ts[u].stage = turn[u].stage /\ ts[u].status = turn[u].status
                                /\ \E k : Carries(ts, j, index, u, k) /\ Queueing(u, k)
  BY <1>1, SendsMid
<1>4. ASSUME NEW u \in TurnIds PROVE Story(u)'
  <2>1. PICK k : Carries(ts, j, index, u, k) /\ Queueing(u, k)
    BY <1>3
  <2>2. \A v \in TurnIds : Phase(ts, v, current, used.turns) /\ \E h : Carries(ts, j, index, v, h)
    BY <1>3
  <2>3. Comes(ts, u, k) /\ (Unopened \/ (runner = "up" /\ Opened(used.turns + 1)))
    BY <1>1, <1>2, <1>3, <2>1, <2>2, OutcomeComes
  <2>4. Asked(k) = 0 /\ Answered(k) = 0 /\ EndsIn(k) = <<>>
    BY <2>1, CountsOfMarks DEF Queueing
  <2>5. turn[u].stage = ts[u].stage /\ turn[u].status = ts[u].status
    BY <1>3
  <2>6. Unopened \/ \E v : Opened(v)
    BY <2>3
  <2>. QED  BY <1>2, <2>3, <2>4, <2>5, <2>6, ComesStory
<1>5. \A u \in TurnIds : Resting(u)'
  BY <1>1, <1>2, RestsNothing
<1>. QED  BY <1>1, <1>4, <1>5 DEF StoryInv

LEMMA BookkeepingStory ==
    ASSUME StoryInv, BookkeepingInTime, NEW t \in TurnIds, BookkeepingDone(t)
    PROVE  StoryInv'
<1>1. MoveInv /\ MoveInv' /\ TypeInv /\ TypeInv'
  <2>1. MoveInv /\ MoveInv'
    BY BookkeepingMoves DEF StoryInv
  <2>. QED  BY <2>1, MoveFacts DEF MoveInv, OnceInv
<1>2. runner # "down" /\ turn[t].stage = "post" /\ UNCHANGED <<runner, order, asking, scope>>
  BY <1>1, BookkeepingOutcome
<1>3. PICK ts, j, idx :
          /\ Calm(ts) /\ j \in Journals /\ Stays(idx) /\ Outcome(ts, j, idx)
          /\ ts = Handing(t)
          /\ \A u \in TurnIds : Phase(ts, u, current, used.turns)
          /\ \A u \in TurnIds : \E k : Carries(ts, j, idx, u, k) /\ Booking(t, u, k)
  BY <1>1, BookkeepingMid
<1>4. ASSUME NEW u \in TurnIds PROVE Story(u)'
  <2>1. PICK k : Carries(ts, j, idx, u, k) /\ Booking(t, u, k)
    BY <1>3
  <2>2. \A v \in TurnIds : Phase(ts, v, current, used.turns) /\ \E h : Carries(ts, j, idx, v, h)
    BY <1>3
  <2>3. Comes(ts, u, k) /\ (Unopened \/ (runner = "up" /\ Opened(used.turns + 1)))
    BY <1>1, <1>2, <1>3, <2>1, <2>2, OutcomeComes
  <2>4. Asked(k) = 0 /\ Answered(k) = 0 /\ EndsIn(k) = <<>>
    BY <2>1, CountsOfMarks DEF Booking
  <2>5. /\ turn[u].stage = ts[u].stage \/ (turn[u].stage = "post" /\ ts[u].stage = "handing")
        /\ turn[u].status = ts[u].status
    <3>1. turn \in TurnStates
      BY <1>1, MoveFacts
    <3>. QED  BY <1>2, <1>3, <3>1, HandingFacts
  <2>6. Unopened \/ \E v : Opened(v)
    BY <2>3
  <2>. QED  BY <1>2, <2>3, <2>4, <2>5, <2>6, ComesStory
<1>5. \A u \in TurnIds : Resting(u)'
  BY <1>1, <1>2, RestsNothing
<1>. QED  BY <1>1, <1>4, <1>5 DEF StoryInv

LEMMA ReleasesStory == ASSUME StoryInv, OtherReleases PROVE StoryInv'
<1>1. MoveInv /\ MoveInv' /\ TypeInv /\ TypeInv' /\ journal \in Journals
  <2>1. MoveInv /\ MoveInv'
    BY ReleasesMoves DEF StoryInv
  <2>. QED  BY <2>1, MoveFacts DEF MoveInv, OnceInv
<1>2. /\ Calm(turn) /\ Stays(index) /\ Outcome(turn, journal, index)
      /\ UNCHANGED <<runner, order, asking, scope>>
      /\ \A u \in TurnIds : /\ Phase(turn, u, current, used.turns)
                            /\ Carries(turn, journal, index, u, <<>>)
  BY <1>1, ReleasesMid
<1>3. ASSUME NEW u \in TurnIds PROVE Story(u)'
  <2>1. PICK k : k = <<>>
    OBVIOUS
  <2>2. /\ Carries(turn, journal, index, u, k)
        /\ \A v \in TurnIds : Phase(turn, v, current, used.turns) /\ \E h : Carries(turn, journal, index, v, h)
    BY <1>2, <2>1
  <2>3. Comes(turn, u, k) /\ (Unopened \/ (runner = "up" /\ Opened(used.turns + 1)))
    BY <1>1, <1>2, <2>2, OutcomeComes
  <2>4. Asked(k) = 0 /\ Answered(k) = 0 /\ EndsIn(k) = <<>>
    BY <2>1, CountsOfMarks
  <2>5. Unopened \/ \E v : Opened(v)
    BY <2>3
  <2>. QED  BY <1>2, <2>3, <2>4, <2>5, ComesStory
<1>4. ASSUME NEW u \in TurnIds PROVE Resting(u)'
  <2>1. CASE runner # "down"
    BY <1>1, <1>2, <2>1, RestsNothing
  <2>2. CASE runner = "down"
    <3>1. UNCHANGED <<turn, index, journal>>
      BY <1>2, <2>2 DEF Outcome
    <3>. QED  BY <1>2, <3>1, RestStays
  <2>. QED  BY <2>1, <2>2
<1>. QED  BY <1>1, <1>3, <1>4 DEF StoryInv

\* The steps of one turn.
LEMMA StepStory ==
    ASSUME StoryInv, NEW t, NEW kinds, TurnStep(t, kinds), MoveInv', runner # "down",
           Balances(t, kinds), EndsWell(t, kinds),
           asking' = asking \/ t = current
    PROVE  StoryInv'
<1>1. /\ t \in TurnIds /\ turn[t].stage # "none" /\ kinds \in Seq(Kinds)
      /\ turn'[t].items = turn[t].items \o kinds
      /\ \A u \in TurnIds \ {t} : turn'[u] = turn[u]
      /\ UNCHANGED <<runner, current, scope>>
  BY DEF TurnStep
<1>2. Story(t)'
  BY <1>1, StoryGoesOn
<1>3. ASSUME NEW u \in TurnIds \ {t} PROVE Story(u)'
  <2>1. Open(u)' <=> Open(u)
    BY <1>1, <1>3 DEF Open
  <2>. QED  BY <1>1, <2>1, StoryStays
<1>4. \A u \in TurnIds : Resting(u)'
  BY <1>1, RestsNothing
<1>. QED  BY <1>2, <1>3, <1>4 DEF StoryInv

LEMMA AsksStory == ASSUME StoryInv, AgentAsks PROVE StoryInv'
<1>1. MoveInv /\ MoveInv'
  BY TurnsMove DEF StoryInv
<1>2. PICK k, s : k = "request" /\ s = <<k>>
  OBVIOUS
<1>3. /\ TurnStep(current, s) /\ asking' /\ ~asking /\ runner # "down"
      /\ turn[current].stage = "run" /\ turn'[current].stage = "run"
  BY <1>1, <1>2, AsksStep
<1>4. k \in Kinds /\ k \notin Ends /\ k \notin {"resolved", "cancelled"}
  BY <1>2 DEF Kinds, Ends
<1>5. Asked(s) = 1 /\ Answered(s) = 0 /\ EndsIn(s) = <<>>
  BY <1>2, <1>4, CountsOfOne
<1>6. ~Open(current) /\ Open(current)'
  BY <1>3 DEF Open, TurnStep
<1>7. Balances(current, s)
  BY <1>5, <1>6 DEF Balances
<1>8. EndsWell(current, s)
  BY <1>3, <1>5 DEF EndsWell
<1>. QED  BY <1>1, <1>3, <1>7, <1>8, StepStory

LEMMA RespondsStory == ASSUME StoryInv, Responds PROVE StoryInv'
<1>1. MoveInv /\ MoveInv'
  BY TurnsMove DEF StoryInv
<1>2. PICK k, s : k = "resolved" /\ s = <<k>>
  OBVIOUS
<1>3. /\ TurnStep(current, s) /\ ~asking' /\ asking /\ runner # "down"
      /\ turn[current].stage = "run" /\ turn'[current].stage = "run"
  BY <1>1, <1>2, RespondsStep
<1>4. k \in Kinds /\ k \notin Ends /\ k # "request" /\ k \in {"resolved", "cancelled"}
  BY <1>2 DEF Kinds, Ends
<1>5. Asked(s) = 0 /\ Answered(s) = 1 /\ EndsIn(s) = <<>>
  BY <1>2, <1>4, CountsOfOne
<1>6. Open(current) /\ ~Open(current)'
  BY <1>3 DEF Open
<1>7. Balances(current, s)
  BY <1>5, <1>6 DEF Balances
<1>8. EndsWell(current, s)
  BY <1>3, <1>5 DEF EndsWell
<1>. QED  BY <1>1, <1>3, <1>7, <1>8, StepStory

LEMMA EndsStory == ASSUME StoryInv, TurnEnds PROVE StoryInv'
<1>1. MoveInv /\ MoveInv'
  BY TurnsMove DEF StoryInv
<1>2. PICK st : st = turn'[current].status
  OBVIOUS
<1>3. PICK s, c : s = <<st>> /\ c = Cancelled
  OBVIOUS
<1>4. PICK kinds : kinds = s \o c
  OBVIOUS
<1>5. /\ ~asking' /\ runner # "down" /\ turn[current].stage = "run" /\ turn'[current].stage = "post"
      /\ st \in {"finished", "failed"} /\ TurnStep(current, kinds)
  BY <1>1, <1>2, <1>3, <1>4, EndsStep
<1>6. st \in Kinds /\ st \in Ends /\ st # "request" /\ st \notin {"resolved", "cancelled"}
  BY <1>5 DEF Kinds, Ends
<1>7. Asked(s) = 0 /\ Answered(s) = 0 /\ EndsIn(s) = s /\ s \in Seq(Kinds)
  BY <1>3, <1>6, CountsOfOne
<1>8. /\ c \in Seq(Kinds) /\ Asked(c) = 0 /\ Answered(c) = (IF asking THEN 1 ELSE 0) /\ EndsIn(c) = <<>>
  BY <1>3, CountsOfCancelled
<1>9. /\ Asked(kinds) = Asked(s) + Asked(c) /\ Answered(kinds) = Answered(s) + Answered(c)
      /\ EndsIn(kinds) = EndsIn(s) \o EndsIn(c)
  BY <1>4, <1>7, <1>8, CountsConcat
<1>10. s \o <<>> = s
  BY <1>7, ConcatEmptySeq
<1>11. EndsIn(kinds) = <<turn'[current].status>>
  BY <1>2, <1>3, <1>7, <1>8, <1>9, <1>10
<1>12. (Open(current) <=> asking) /\ ~Open(current)'
  BY <1>5 DEF Open
<1>13. Balances(current, kinds)
  <2>1. CASE asking
    BY <2>1, <1>7, <1>8, <1>9, <1>12 DEF Balances
  <2>2. CASE ~asking
    BY <2>2, <1>7, <1>8, <1>9, <1>12 DEF Balances
  <2>. QED  BY <2>1, <2>2
<1>14. EndsWell(current, kinds)
  BY <1>5, <1>11 DEF EndsWell
<1>. QED  BY <1>1, <1>5, <1>13, <1>14, StepStory

LEMMA MovesOnStory ==
    ASSUME StoryInv, StartFails \/ \E t \in TurnIds : TurnCloses(t) PROVE StoryInv'
<1>1. MoveInv /\ MoveInv'
  BY TurnsMove DEF StoryInv
<1>2. PICK e : e = <<>>
  OBVIOUS
<1>3. Asked(e) = 0 /\ Answered(e) = 0 /\ EndsIn(e) = <<>>
  BY <1>2, CountsOfNone
<1>4. CASE StartFails
  <2>1. /\ TurnStep(current, e) /\ asking' = asking /\ runner # "down"
        /\ turn[current].stage = "pre" /\ turn'[current].stage = "unsent"
    BY <1>1, <1>2, <1>4, FailsStep
  <2>2. Open(current)' <=> Open(current)
    BY <2>1 DEF Open, TurnStep
  <2>3. Balances(current, e)
    BY <1>3, <2>2 DEF Balances
  <2>4. EndsWell(current, e)
    BY <1>3, <2>1 DEF EndsWell
  <2>. QED  BY <1>1, <2>1, <2>3, <2>4, StepStory
<1>5. ASSUME NEW t \in TurnIds, TurnCloses(t) PROVE StoryInv'
  <2>1. /\ TurnStep(t, e) /\ asking' = asking /\ runner # "down"
        /\ turn[t].stage = "handing" /\ turn'[t].stage = "closed"
        /\ turn'[t].status = turn[t].status
    BY <1>1, <1>2, <1>5, ClosesStep
  <2>2. Open(t)' <=> Open(t)
    BY <2>1 DEF Open, TurnStep
  <2>3. Balances(t, e)
    BY <1>3, <2>2 DEF Balances
  <2>4. EndsWell(t, e)
    BY <1>3, <2>1 DEF EndsWell
  <2>. QED  BY <1>1, <2>1, <2>3, <2>4, StepStory
<1>. QED  BY <1>4, <1>5

LEMMA PromptStory == ASSUME StoryInv, PromptSent PROVE StoryInv'
<1>1. MoveInv /\ MoveInv' /\ TypeInv
  BY PromptMoves DEF StoryInv, MoveInv, OnceInv
<1>2. PICK t, k : t = current /\ k = <<"pre">>
  OBVIOUS
<1>3. /\ Carries(turn', journal', index', t, k)
      /\ \A u \in TurnIds \ {t} : Carries(turn', journal', index', u, <<>>)
  BY <1>1, <1>2, PromptCarries
<1>4. /\ runner = "up" /\ UNCHANGED <<runner, current, asking, scope>>
      /\ t \in TurnIds /\ turn[t].stage = "pre" /\ turn'[t].stage = "run"
      /\ \A u \in TurnIds \ {t} : turn'[u] = turn[u]
  <2>1. Starting /\ current \in TurnIds
    BY <1>1, MoveFacts DEF PromptSent, Starting
  <2>2. PICK ts : ts = [Noting(turn, current, <<"pre">>) EXCEPT ![current].stage = "run"] /\ turn' = ts
    BY DEF PromptSent
  <2>3. turn \in TurnStates
    BY <1>1, MoveFacts
  <2>4. <<"pre">> \in Seq(Kinds)
    BY KindsWritten DEF Kinds
  <2>5. PICK n : n = Noting(turn, current, <<"pre">>)
    OBVIOUS
  <2>6. n \in TurnStates /\ \A u \in TurnIds \ {current} : n[u] = turn[u]
    BY <2>1, <2>3, <2>4, <2>5, NotingFacts
  <2>7. turn' = [n EXCEPT ![current].stage = "run"]
    BY <2>2, <2>5
  <2>8. turn'[current].stage = "run" /\ \A u \in TurnIds \ {current} : turn'[u] = n[u]
    BY <2>1, <2>6, <2>7 DEF TurnStates
  <2>. QED  BY <1>2, <2>1, <2>6, <2>8 DEF PromptSent, Starting
<1>5. Asked(k) = 0 /\ Answered(k) = 0 /\ EndsIn(k) = <<>> /\ k \in Seq(Kinds)
  BY <1>2, CountsOfMarks
<1>6. \A u \in TurnIds : Open(u)' <=> Open(u)
  BY <1>4 DEF Open
<1>7. Story(t)'
  <2>1. turn'[t].items = turn[t].items \o k
    BY <1>3 DEF Carries
  <2>2. Balances(t, k)
    BY <1>4, <1>5, <1>6 DEF Balances
  <2>3. EndsWell(t, k)
    BY <1>4, <1>5 DEF EndsWell
  <2>. QED  BY <1>4, <1>5, <2>1, <2>2, <2>3, StoryGoesOn
<1>8. \A u \in TurnIds \ {t} : Story(u)'
  BY <1>4, <1>6, StoryStays
<1>9. \A u \in TurnIds : Resting(u)'
  BY <1>1, <1>4, RestsNothing
<1>. QED  BY <1>1, <1>7, <1>8, <1>9 DEF StoryInv

LEMMA EasyStory ==
    ASSUME StoryInv,
           \/ \E m \in Messages : Dequeues(m)
           \/ PutsBack \/ OtherTakes \/ AgentExits
           \/ (\E t \in TurnIds : Follows(t)) \/ FollowGoesOn
           \/ UNCHANGED vars
    PROVE  StoryInv'
<1>1. MoveInv'
  BY EasyMoves DEF StoryInv
<1>2. UNCHANGED <<turn, current, asking, index, journal, scope>>
  BY EasyFacts
<1>3. ASSUME NEW u \in TurnIds PROVE Story(u)'
  BY <1>2, StoryStays DEF Open
<1>4. \A u \in TurnIds : Resting(u)'
  BY <1>2, RestStays
<1>. QED  BY <1>1, <1>3, <1>4 DEF StoryInv

\* What a stop appends tells nothing but that the open request is cancelled.
LEMMA CountsOfStopping ==
    ASSUME StoryInv, NEW u \in TurnIds, NEW kinds, Stopping(u, kinds), ~asking'
    PROVE  kinds \in Seq(Kinds) /\ EndsIn(kinds) = <<>> /\ Balances(u, kinds)
<1>1. ~Open(u)' /\ (asking => Running)
  BY DEF Open, StoryInv, MoveInv, Moves, Quiet
<1>2. CASE Running /\ u = current
  <2>1. PICK c, p : c = Cancelled /\ p = <<"post">>
    OBVIOUS
  <2>2. /\ c \in Seq(Kinds) /\ Asked(c) = 0 /\ Answered(c) = (IF asking THEN 1 ELSE 0) /\ EndsIn(c) = <<>>
        /\ p \in Seq(Kinds) /\ Asked(p) = 0 /\ Answered(p) = 0 /\ EndsIn(p) = <<>>
    BY <2>1, CountsOfCancelled, CountsOfMarks
  <2>3. kinds = c \o p
    BY <1>2, <2>1 DEF Stopping
  <2>4. /\ Asked(kinds) = Asked(c) + Asked(p) /\ Answered(kinds) = Answered(c) + Answered(p)
        /\ EndsIn(kinds) = EndsIn(c) \o EndsIn(p)
    BY <2>2, <2>3, CountsConcat
  <2>5. <<>> \o <<>> = <<>> /\ kinds \in Seq(Kinds)
    BY <2>2, <2>3, KindsWritten, ConcatProperties, ConcatEmptySeq
  <2>6. Open(u) <=> asking
    BY <1>2 DEF Open
  <2>7. Balances(u, kinds)
    <3>1. CASE asking
      BY <3>1, <1>1, <2>2, <2>4, <2>6 DEF Balances
    <3>2. CASE ~asking
      BY <3>2, <1>1, <2>2, <2>4, <2>6 DEF Balances
    <3>. QED  BY <3>1, <3>2
  <2>. QED  BY <2>2, <2>4, <2>5, <2>7
<1>3. CASE ~(Running /\ u = current)
  <2>1. kinds = <<>>
    BY <1>3 DEF Stopping
  <2>2. kinds \in Seq(Kinds) /\ Asked(kinds) = 0 /\ Answered(kinds) = 0 /\ EndsIn(kinds) = <<>>
    BY <2>1, CountsOfMarks
  <2>3. ~Open(u)
    BY <1>1, <1>3 DEF Open
  <2>. QED  BY <1>1, <2>2, <2>3 DEF Balances
<1>. QED  BY <1>2, <1>3

LEMMA DropsStory == ASSUME StoryInv, Drops PROVE StoryInv'
<1>1. MoveInv /\ MoveInv' /\ index' \in Seq(IndexRows)
  <2>1. MoveInv /\ MoveInv'
    BY DropsMoves DEF StoryInv
  <2>2. TypeInv'
    BY <2>1 DEF MoveInv, OnceInv
  <2>. QED  BY <2>1, <2>2 DEF TypeInv, TypeOK, IndexRows
<1>2. /\ runner # "down" /\ asking' = FALSE /\ UNCHANGED scope
      /\ \A u \in TurnIds :
            /\ turn'[u].stage = IF turn[u].stage \in {"run", "post"} THEN "closed" ELSE turn[u].stage
            /\ turn[u].stage \in {"none", "run", "post", "closed", "unsent"}
      /\ \A u \in TurnIds : \E kinds : Carries(turn', journal', index', u, kinds) /\ Stopping(u, kinds)
  BY <1>1, DropsTurns
<1>3. ASSUME NEW u \in TurnIds PROVE Story(u)' /\ Resting(u)'
  <2>1. PICK kinds : Carries(turn', journal', index', u, kinds) /\ Stopping(u, kinds)
    BY <1>2
  <2>2. kinds \in Seq(Kinds) /\ EndsIn(kinds) = <<>> /\ Balances(u, kinds)
    BY <1>2, <2>1, CountsOfStopping
  <2>3. turn'[u].items = turn[u].items \o kinds
    BY <2>1 DEF Carries
  <2>4. CASE turn[u].stage = "none"
    <3>1. turn'[u].stage = "none"
      BY <1>2, <2>4
    <3>2. \A st : ~Has(index', u, st)
      <4>1. ASSUME NEW st, Has(index', u, st) PROVE FALSE
        <5>1. Indexed(index, u)
          BY <1>1, <2>1, <2>4, <4>1, HasIndexed DEF Carries
        <5>2. PICK s : Has(index, u, s)
          BY <1>1, <5>1, HasIndexed, MoveFacts
        <5>3. Listed(u)
          BY <1>1 DEF MoveInv, Moves
        <5>. QED  BY <1>2, <2>4, <5>2, <5>3 DEF Listed
      <4>. QED  BY <4>1
    <3>. QED  BY <3>1, <3>2 DEF Story, Resting
  <2>5. CASE turn[u].stage # "none"
    <3>1. /\ turn[u].stage \in {"run", "post", "closed", "unsent"} /\ turn'[u].stage # "none"
          /\ turn[u].stage \in {"run", "post"} => turn'[u].stage = "closed"
          /\ turn[u].stage \in {"closed", "unsent"} => turn'[u].stage = turn[u].stage
      BY <1>2, <2>5
    <3>2. turn[u].stage \in {"post", "closed"} => turn'[u].status = turn[u].status
      <4>1. ASSUME turn[u].stage \in {"post", "closed"} PROVE ~(Running /\ u = current)
        BY <4>1 DEF Running
      <4>. QED  BY <2>1, <4>1 DEF Stopping
    <3>3. EndsWell(u, kinds)
      BY <2>2, <3>1, <3>2 DEF EndsWell
    <3>4. Story(u)'
      BY <1>2, <2>2, <2>3, <2>5, <3>3, StoryGoesOn
    <3>. QED  BY <3>1, <3>4 DEF Resting
  <2>. QED  BY <2>4, <2>5
<1>. QED  BY <1>1, <1>3 DEF StoryInv

\* A turn is listed once.
LEMMA OneStatus ==
    ASSUME MoveInv, NEW u, NEW st, Has(index, u, st), NEW i \in DOMAIN index, index[i].turn = u
    PROVE  index[i].status = st
<1>1. Entries /\ DOMAIN index = 1..Len(index)
  BY MoveFacts, Lengths
<1>. QED  BY <1>1 DEF Entries, Has

LEMMA CrashedRest ==
    ASSUME StoryInv, InBookkeeping # {} => scope.hazard = "late", UNCHANGED <<index, scope>>,
           NEW u \in TurnIds, NEW kinds, Crashed(u, kinds)
    PROVE  Resting(u)'
<1>. SUFFICES ASSUME NEW st, Has(index, u, st), ~Full(journal'.files[u])
              PROVE  Rest(journal'.files[u], st)
  <2>1. ASSUME NEW st, Has(index', u, st), ~Full(journal'.files[u]) PROVE Rest(journal.files[u], st)'
    <3>1. PICK s : s = journal'.files[u]
      OBVIOUS
    <3>2. Rest(s, st)
      BY <2>1, <3>1
    <3>. QED  BY <3>1, <3>2 DEF Rest
  <2>. QED  BY <2>1 DEF Resting
<1>1. MoveInv /\ index \in Seq(IndexRows) /\ journal.files[u] \in Seq(Kinds)
  BY MoveFacts DEF StoryInv
<1>2. PICK s : s = journal.files[u]
  OBVIOUS
<1>3. ~Full(s) /\ journal'.files[u] = s \o kinds /\ kinds \in Seq(Kinds) /\ s \in Seq(Kinds)
  BY <1>1, <1>2 DEF Crashed
<1>4. Rest(s, st)
  BY <1>2, <1>3, RestHolds
<1>5. Indexed(index, u)
  BY <1>1, HasIndexed
<1>6. CASE kinds = <<>>
  <2>1. s \o kinds = s
    BY <1>3, <1>6, ConcatEmptySeq
  <2>2. Rest(journal'.files[u], st)
    BY <1>3, <1>4, <2>1
  <2>. QED  BY <2>2
<1>7. CASE /\ scope.hazard = "in_step" /\ runner = "down"
           /\ \E i \in DOMAIN index :
                 /\ index[i].turn = u /\ index[i].status = "running"
                 /\ \E n \in 1..Len(Reconciled(index[i])) : kinds = SubSeq(Reconciled(index[i]), 1, n)
  <2>1. PICK i \in DOMAIN index :
                 /\ index[i].turn = u /\ index[i].status = "running"
                 /\ \E n \in 1..Len(Reconciled(index[i])) : kinds = SubSeq(Reconciled(index[i]), 1, n)
    BY <1>7
  <2>2. st = "running"
    BY <1>1, <2>1, OneStatus
  <2>3. Reconciled(index[i]) = Settlement(s)
    BY <1>2, <2>1 DEF Reconciled
  <2>4. PICK n \in 1..Len(Settlement(s)) : kinds = SubSeq(Settlement(s), 1, n)
    BY <2>1, <2>3
  <2>5. Asked(kinds) = 0 /\ Answered(kinds) = (IF Asked(s) > Answered(s) THEN 1 ELSE 0)
    BY <2>4, CountsOfPart
  <2>6. Asked(s) \in Nat /\ Answered(s) \in Nat
    BY <1>3, CountsConcat
  <2>7. Asked(s \o kinds) = Asked(s) + Asked(kinds) /\ Answered(s \o kinds) = Answered(s) + Answered(kinds)
    BY <1>3, CountsConcat
  <2>8. Asked(s) = Answered(s) \/ Asked(s) = Answered(s) + 1
    BY <1>4 DEF Rest
  <2>9. Asked(s \o kinds) = Answered(s \o kinds)
    <3>1. CASE Asked(s) = Answered(s)
      <4>1. ~(Asked(s) > Answered(s))
        BY <2>6, <3>1
      <4>. QED  BY <2>5, <2>6, <2>7, <3>1, <4>1
    <3>2. CASE Asked(s) = Answered(s) + 1
      <4>1. Asked(s) > Answered(s)
        BY <2>6, <3>2
      <4>. QED  BY <2>5, <2>6, <2>7, <3>2, <4>1
    <3>. QED  BY <2>8, <3>1, <3>2
  <2>10. scope.hazard # "none" /\ Asked(journal'.files[u]) = Answered(journal'.files[u])
    BY <1>3, <1>7, <2>9
  <2>. QED  BY <2>10 DEF Rest
<1>. QED  BY <1>5, <1>6, <1>7 DEF Crashed

LEMMA CrashesStory ==
    ASSUME StoryInv, CrashBetween \/ CrashInStart \/ CrashInOpen PROVE StoryInv'
<1>1. MoveInv /\ MoveInv' /\ TypeInv
  BY CrashesMoves, MoveFacts DEF StoryInv
<1>2. \E j : Crashes(index, j)
  BY DEF CrashBetween, CrashInStart, CrashInOpen
<1>3. UNCHANGED <<index, scope>> /\ (InBookkeeping # {} => scope.hazard = "late")
  BY <1>2 DEF Crashes
<1>4. ASSUME NEW u \in TurnIds PROVE Story(u)' /\ Resting(u)'
  <2>1. PICK kinds : Crashed(u, kinds)
    BY <1>1, CrashesTurns
  <2>2. Resting(u)'
    BY <1>3, <2>1, CrashedRest
  <2>3. turn'[u].stage = "none"
    BY <2>1 DEF Crashed, NoTurn
  <2>. QED  BY <2>2, <2>3 DEF Story
<1>. QED  BY <1>1, <1>4 DEF StoryInv

\* Before a reconstruction no bookkeeping is under way.
LEMMA OpensAtRest ==
    ASSUME MoveInv, Apart, Opens PROVE InBookkeeping = {}
<1>1. runner = "down" => \A u \in TurnIds : turn[u].stage \in {"none", "closed", "unsent"}
  BY DEF MoveInv, Moves, Quiet
<1>2. \/ runner = "down"
      \/ runner = "dead" /\ \A t \in TurnIds : turn[t].stage \in {"none", "unsent", "closed"}
  BY MoveFacts, OpensBeside DEF Apart, Over
<1>. QED  BY <1>1, <1>2 DEF InBookkeeping

LEMMA OpensStory == ASSUME StoryInv, Apart, Opens PROVE StoryInv'
<1>1. MoveInv /\ MoveInv' /\ TypeInv /\ InBookkeeping = {}
  BY OpensMoves, MoveFacts, OpensAtRest DEF StoryInv
<1>2. current' = 0 /\ runner' = "up" /\ asking' = FALSE /\ UNCHANGED scope
  BY <1>1, OpensFacts
<1>3. ASSUME NEW u \in TurnIds PROVE Story(u)'
  <2>1. CASE Unlisted(u)
    BY <2>1 DEF Unlisted, NoTurn, Story
  <2>2. CASE \E st \in Ends \cup {"running"} : \E kinds : Reopened(u, st, kinds)
    <3>0. PICK st \in Ends \cup {"running"} : \E kinds : Reopened(u, st, kinds)
      BY <2>2
    <3>1. PICK kinds : Reopened(u, st, kinds)
      BY <3>0
    <3>2. PICK s : s = journal.files[u]
      OBVIOUS
    <3>3. s \in Seq(Kinds) /\ kinds \in Seq(Kinds) /\ turn'[u].stage = "closed" /\ turn'[u].items = s \o kinds
      BY <1>1, <3>1, <3>2, MoveFacts DEF Reopened
    <3>4. ~Open(u)'
      BY <1>2 DEF Open
    <3>. SUFFICES ASSUME ~Full(s \o kinds)
                  PROVE  /\ Asked(s \o kinds) = Answered(s \o kinds)
                         /\ scope.hazard = "none" =>
                               EndsIn(s \o kinds) = <<>> \/ EndsIn(s \o kinds) = <<turn'[u].status>>
      <4>1. ~Full(turn'[u].items) =>
                /\ Asked(turn'[u].items) = Answered(turn'[u].items)
                /\ scope.hazard = "none" =>
                      EndsIn(turn'[u].items) = <<>> \/ EndsIn(turn'[u].items) = <<turn'[u].status>>
        BY <3>3
      <4>2. s \o kinds \in Seq(Kinds)
        BY <3>3, ConcatProperties
      <4>3. Answered(turn'[u].items) \in Nat
        BY <3>3, <4>2, CountsConcat
      <4>. QED  BY <1>2, <3>3, <3>4, <4>1, <4>3 DEF Story, EndsTold
    <3>5. ~Full(s)
      BY <3>3, FullConcat
    <3>6. Rest(s, st)
      BY <1>1, <3>1, <3>2, <3>5, RestHolds DEF Reopened
    <3>7. /\ Asked(s) \in Nat /\ Answered(s) \in Nat /\ EndsIn(s) \in Seq(Kinds)
          /\ Asked(s \o kinds) = Asked(s) + Asked(kinds) /\ Answered(s \o kinds) = Answered(s) + Answered(kinds)
          /\ EndsIn(s \o kinds) = EndsIn(s) \o EndsIn(kinds)
      BY <3>3, CountsConcat
    <3>8. EndsIn(kinds) \in Seq(Kinds)
      BY <3>3, CountsConcat
    <3>9. CASE st = "running"
      <4>1. kinds = Settlement(s) /\ turn'[u].status = "interrupted"
        BY <3>1, <3>2, <3>9 DEF Reopened
      <4>2. /\ Asked(kinds) = 0 /\ Answered(kinds) = (IF Asked(s) > Answered(s) THEN 1 ELSE 0)
            /\ EndsIn(kinds) = <<"interrupted">>
        BY <4>1, CountsOfSettlement
      <4>3. Asked(s) = Answered(s) \/ Asked(s) = Answered(s) + 1
        BY <3>6 DEF Rest
      <4>4. Asked(s \o kinds) = Answered(s \o kinds)
        <5>1. CASE Asked(s) = Answered(s)
          <6>1. ~(Asked(s) > Answered(s))
            BY <3>7, <5>1
          <6>. QED  BY <3>7, <4>2, <5>1, <6>1
        <5>2. CASE Asked(s) = Answered(s) + 1
          <6>1. Asked(s) > Answered(s)
            BY <3>7, <5>2
          <6>. QED  BY <3>7, <4>2, <5>2, <6>1
        <5>. QED  BY <4>3, <5>1, <5>2
      <4>5. scope.hazard = "none" => EndsIn(s \o kinds) = EndsIn(kinds)
        BY <3>6, <3>7, <3>8, <3>9, ConcatEmptySeq DEF Rest
      <4>. QED  BY <4>1, <4>2, <4>4, <4>5
    <3>10. CASE st # "running"
      <4>1. kinds = <<>> /\ turn'[u].status = st
        BY <3>1, <3>10 DEF Reopened
      <4>2. Asked(kinds) = 0 /\ Answered(kinds) = 0 /\ EndsIn(kinds) = <<>>
        BY <4>1, CountsOfMarks
      <4>3. EndsIn(s \o kinds) = EndsIn(s)
        BY <3>7, <4>2, ConcatEmptySeq
      <4>4. Asked(s \o kinds) = Answered(s \o kinds)
        BY <3>6, <3>7, <3>10, <4>2 DEF Rest
      <4>. QED  BY <3>6, <3>10, <4>1, <4>3, <4>4 DEF Rest
    <3>. QED  BY <3>9, <3>10
  <2>. QED  BY <1>1, <2>1, <2>2, OpensTurn
<1>4. \A u \in TurnIds : Resting(u)'
  BY <1>1, <1>2, RestsNothing
<1>. QED  BY <1>1, <1>3, <1>4 DEF StoryInv

LEMMA InitStory == ASSUME Init PROVE StoryInv
<1>1. MoveInv
  BY InitMoves
<1>2. turn = [t \in TurnIds |-> NoTurn] /\ index = <<>>
  BY DEF Init, NoTurns
<1>3. \A u \in TurnIds : turn[u].stage = "none"
  BY <1>2 DEF NoTurn
<1>4. \A u, st : ~Has(index, u, st)
  BY <1>2 DEF Has
<1>. QED  BY <1>1, <1>3, <1>4 DEF StoryInv, Story, Resting

LEMMA StoryKept ==
    ASSUME StoryInv, Apart, BookkeepingInTime, [Next]_vars PROVE StoryInv'
<1>1. CASE \E m \in Messages : SendQueues(m) \/ SendStarts(m) \/ Dequeues(m)
  BY <1>1, SendsStory, EasyStory
<1>2. CASE PromptSent
  BY <1>2, PromptStory
<1>3. CASE StartFails \/ TurnEnds \/ AgentAsks \/ Responds
  BY <1>3, MovesOnStory, EndsStory, AsksStory, RespondsStory
<1>4. CASE \E t \in TurnIds : BookkeepingDone(t) \/ TurnCloses(t)
  BY <1>4, BookkeepingStory, MovesOnStory
<1>5. CASE OtherReleases
  BY <1>5, ReleasesStory
<1>6. CASE \/ PutsBack \/ OtherTakes \/ AgentExits
           \/ (\E t \in TurnIds : Follows(t)) \/ FollowGoesOn \/ UNCHANGED vars
  BY <1>6, EasyStory
<1>7. CASE Drops \/ CrashBetween \/ CrashInStart \/ Opens \/ CrashInOpen
  BY <1>7, DropsStory, CrashesStory, OpensStory
<1>8. ~DropBegins /\ \A t \in TurnIds : ~LeavingDone(t)
  BY NothingLeaves, MoveFacts DEF Apart, StoryInv
<1>. QED  BY <1>1, <1>2, <1>3, <1>4, <1>5, <1>6, <1>7, <1>8 DEF Next, TurnSteps

LEMMA StorySettles == ASSUME StoryInv PROVE JournalSettles
<1>1. ASSUME NEW t \in TurnIds, turn[t].stage = "closed", ~Overflowed(t)
      PROVE  /\ Asked(turn[t].items) = Answered(turn[t].items)
             /\ scope.hazard = "none" => EndsIn(turn[t].items) \in {<<>>, <<turn[t].status>>}
  <2>1. ~Full(turn[t].items)
    BY <1>1 DEF Overflowed, Full
  <2>2. ~Open(t)
    BY <1>1 DEF Open, StoryInv, MoveInv, Moves, Quiet, Running
  <2>3. Answered(turn[t].items) \in Nat
    BY MoveFacts, CountsConcat DEF StoryInv
  <2>. QED  BY <1>1, <2>1, <2>2, <2>3 DEF StoryInv, Story, EndsTold
<1>. QED  BY <1>1 DEF JournalSettles, Asked, Answered, EndsIn

\* The journal of a turn that is over answers or cancels every request in it, and
\* ends at most once, as its status says (_reconcile_interrupted_turn and
\* _journal_note_turn): whatever the order of requests, answers, ends, stops,
\* crashes and reconstructions, for any number of turns and restarts.  No /open
\* overlaps the end of the runner it replaces, and the notes are in time: no
\* bookkeeping outlasts turns_keep later turns.
THEOREM JournalsSettle == Spec /\ []BookkeepingInTime => [](scope.hazard # "overlap" => JournalSettles)
<1>. DEFINE Inv == TypeInv /\ (Apart => StoryInv)
<1>1. Init => Inv
  BY InitStory, TypesInit
<1>2. Inv /\ BookkeepingInTime /\ [Next]_vars => Inv'
  <2>. SUFFICES ASSUME Inv, BookkeepingInTime, [Next]_vars PROVE Inv'
    OBVIOUS
  <2>1. TypeInv' /\ scope' = scope
    BY TypesKept, ScopeStays
  <2>2. CASE ~Apart
    BY <2>1, <2>2 DEF Apart
  <2>3. CASE Apart
    <3>1. StoryInv'
      BY <2>3, StoryKept
    <3>. QED  BY <2>1, <3>1
  <2>. QED  BY <2>2, <2>3
<1>3. Inv => (scope.hazard # "overlap" => JournalSettles)
  BY StorySettles DEF Apart
<1>. QED  BY <1>1, <1>2, <1>3, PTL DEF Spec

-----------------------------------------------------------------------------
(* What a client has been shown.                                           *)

Unmarked(s) == Kept(s, Kinds \ {"queued"})

\* The client c has been shown how s begins, and all of it when its stream has ended.
Sees(c, s) ==
    /\ IsPrefix(c.seen, s)
    /\ c.state = "done" /\ scope.hazard # "late" => Unmarked(c.seen) = Unmarked(s)

Reads(c) == c.state \in {"on", "waiting"}

\* A stream is of a turn that has been prompted, in a runner, and ends after it.
Following ==
    /\ client.turn <= used.turns
    /\ Reads(client) => runner # "down"
    /\ \A u \in TurnIds : u = client.turn =>
          /\ Reads(client) => turn[u].stage \notin {"pre", "unsent"}
          /\ client.state = "done" => turn[u].stage \in {"none", "closed"}

\* What is shown is in memory or, once agentd is gone, in the file, to which nothing
\* will be added after a stream that has ended.
Shown(u) ==
    u = client.turn =>
        /\ turn[u].stage # "none" /\ ~Full(turn[u].items) => Sees(client, turn[u].items)
        /\ \A st : turn[u].stage = "none" /\ Has(index, u, st) /\ ~Full(journal.files[u]) =>
              /\ Sees(client, journal.files[u])
              /\ client.state = "done" /\ scope.hazard # "late" => st # "running"

FollowInv == MoveInv /\ Following /\ \A u \in TurnIds : Shown(u)

\* A step that shows the client nothing.
SameView ==
    /\ client'.turn = client.turn /\ client'.seen = client.seen
    /\ (Reads(client') <=> Reads(client)) /\ (client'.state = "done" <=> client.state = "done")

LEMMA ClientGiven ==
    ASSUME MoveInv
    PROVE  /\ client.turn \in 0..MaxTurns /\ client.seen \in Seq(Kinds)
           /\ client.state \in {"off", "on", "waiting", "parting", "done"}
           /\ (Reads(client) => client.turn \in TurnIds)
           /\ client = [turn |-> client.turn, seen |-> client.seen, state |-> client.state]
<1>1. TypeInv
  BY MoveFacts
<1>2. client \in Clients
  BY <1>1, TypesGiven
<1>. QED  BY <1>1, <1>2 DEF Clients, Reads, TypeInv, Known

LEMMA WokenView ==
    ASSUME MoveInv, client' = client \/ client' = Woken PROVE SameView
<1>1. TypeInv
  BY MoveFacts
<1>2. CASE client' = client
  BY <1>2 DEF SameView, Reads
<1>3. CASE client' = Woken
  <2>1. PICK w : w = Woken
    OBVIOUS
  <2>2. /\ w.turn = client.turn /\ w.seen = client.seen
        /\ w.state \in {"off", "on", "waiting", "parting", "done"}
        /\ client.state \in {"off", "on", "waiting", "parting", "done"}
        /\ (w.state \in {"on", "waiting"} <=> client.state \in {"on", "waiting"})
        /\ (w.state \in {"off", "parting", "done"} => w.state = client.state)
    <3>1. w \in Clients /\ client \in Clients
      BY <1>1, <2>1, WokenTyped, TypesGiven
    <3>2. w.state = client.state \/ (w.state = "on" /\ client.state = "waiting")
      BY <2>1, <3>1 DEF Woken, Clients
    <3>. QED  BY <1>1, <2>1, <3>1, <3>2, WokenTyped DEF Clients
  <2>3. client' = w
    BY <1>3, <2>1
  <2>4. client'.turn = client.turn /\ client'.seen = client.seen
    BY <2>2, <2>3
  <2>5. Reads(client') <=> Reads(client)
    BY <2>2, <2>3 DEF Reads
  <2>6. client'.state = "done" <=> client.state = "done"
    BY <2>2, <2>3
  <2>. QED  BY <2>4, <2>5, <2>6 DEF SameView
<1>. QED  BY <1>2, <1>3

\* Marks of the queue are no part of what must be shown.
LEMMA UnmarkedConcat ==
    ASSUME NEW s \in Seq(Kinds), NEW r \in Seq(Kinds), Unmarked(r) = <<>>
    PROVE  Unmarked(s \o r) = Unmarked(s)
<1>1. Kept(s \o r, Kinds \ {"queued"}) = Kept(s, Kinds \ {"queued"}) \o Kept(r, Kinds \ {"queued"})
  BY KeptConcat
<1>2. Unmarked(s) \in Seq(Kinds)
  BY KeptPlaces DEF Unmarked
<1>3. Unmarked(s) \o <<>> = Unmarked(s)
  BY <1>2, ConcatEmptySeq
<1>. QED  BY <1>1, <1>3 DEF Unmarked

LEMMA UnmarkedNone ==
    \A k : k \in {<<>>, <<"queued">>} => k \in Seq(Kinds) /\ Unmarked(k) = <<>>
<1>. SUFFICES ASSUME NEW k, k \in {<<>>, <<"queued">>} PROVE k \in Seq(Kinds) /\ Unmarked(k) = <<>>
  OBVIOUS
<1>1. k \in Seq(Kinds)
  BY KindsWritten DEF Kinds
<1>2. ToSet(k) \subseteq {"queued"}
  <2>1. CASE k = <<>>
    BY <2>1 DEF ToSet
  <2>2. CASE k = <<"queued">>
    <3>1. DOMAIN k = {1} /\ k[1] = "queued"
      BY <2>2
    <3>. QED  BY <3>1 DEF ToSet
  <2>. QED  BY <2>1, <2>2
<1>3. ToSet(k) \cap (Kinds \ {"queued"}) = {}
  BY <1>2
<1>. QED  BY <1>1, <1>3, KeptNone DEF Unmarked

\* The view stays exact when the journal goes on.
LEMMA SeesMore ==
    ASSUME NEW c, c.seen \in Seq(Kinds), NEW s \in Seq(Kinds), NEW kinds \in Seq(Kinds), Sees(c, s),
           c.state = "done" /\ scope.hazard # "late" => Unmarked(kinds) = <<>>
    PROVE  Sees(c, s \o kinds)
<1>1. IsPrefix(c.seen, s \o kinds)
  BY PrefixFacts DEF Sees
<1>2. c.state = "done" /\ scope.hazard # "late" => Unmarked(c.seen) = Unmarked(s \o kinds)
  BY UnmarkedConcat DEF Sees
<1>. QED  BY <1>1, <1>2 DEF Sees

LEMMA SeesSame ==
    ASSUME NEW c, NEW d, d.seen = c.seen, d.state = "done" => c.state = "done", NEW s, Sees(c, s)
    PROVE  Sees(d, s)
BY DEF Sees

\* A turn that is over gets marks of the queue at most.
Settles(u, kinds) ==
    turn[u].stage = "closed" => turn'[u].stage = "closed" /\ Unmarked(kinds) = <<>>

LEMMA FollowStays ==
    ASSUME FollowInv, MoveInv', SameView, runner' # "down", UNCHANGED scope, used'.turns >= used.turns,
           Reads(client) => runner # "down",
           \A u \in TurnIds : u <= used.turns =>
              \E kinds : Carries(turn', journal', index', u, kinds) /\ Settles(u, kinds)
    PROVE  FollowInv'
<1>1. MoveInv /\ client.turn <= used.turns /\ used.turns \in Nat /\ client.turn \in Nat
      /\ used'.turns \in Nat
  <2>1. TypeInv'
    BY DEF MoveInv, OnceInv
  <2>. QED  BY <2>1, MoveFacts, ClientGiven DEF FollowInv, Following, TypeInv, Counts
<1>2. ASSUME NEW u \in TurnIds, u = client.turn
      PROVE  \E kinds : Carries(turn', journal', index', u, kinds) /\ Settles(u, kinds)
  BY <1>1, <1>2
<1>3. Following'
  <2>1. client'.turn <= used'.turns
    BY <1>1 DEF SameView
  <2>2. ASSUME NEW u \in TurnIds, u = client'.turn
        PROVE  /\ Reads(client') => turn'[u].stage \notin {"pre", "unsent"}
               /\ client'.state = "done" => turn'[u].stage \in {"none", "closed"}
    <3>1. u = client.turn
      BY <2>2 DEF SameView
    <3>2. PICK kinds : Carries(turn', journal', index', u, kinds) /\ Settles(u, kinds)
      BY <1>2, <3>1
    <3>3. /\ Reads(client) => turn[u].stage \notin {"pre", "unsent"}
          /\ client.state = "done" => turn[u].stage \in {"none", "closed"}
      BY <3>1 DEF FollowInv, Following
    <3>. QED  BY <3>2, <3>3 DEF Carries, Settles, SameView
  <2>3. Reads(client') => runner' # "down"
    OBVIOUS
  <2>. QED  BY <2>1, <2>2, <2>3 DEF Following, Reads
<1>4. ASSUME NEW u \in TurnIds PROVE Shown(u)'
  <2>1. CASE u # client.turn
    BY <2>1 DEF Shown, SameView
  <2>2. CASE u = client.turn
    <3>1. PICK kinds : Carries(turn', journal', index', u, kinds) /\ Settles(u, kinds)
      BY <1>2, <2>2
    <3>2. PICK s : s = turn[u].items
      OBVIOUS
    <3>3. s \in Seq(Kinds) /\ kinds \in Seq(Kinds) /\ turn'[u].items = s \o kinds
          /\ (turn'[u].stage = "none" <=> turn[u].stage = "none")
      BY <1>1, <3>1, <3>2, MoveFacts DEF Carries
    <3>4. ASSUME turn'[u].stage # "none", ~Full(turn'[u].items) PROVE Sees(client', s \o kinds)
      <4>1. ~Full(s)
        BY <3>3, <3>4, FullConcat
      <4>2. Sees(client, s)
        BY <2>2, <3>2, <3>3, <3>4, <4>1 DEF FollowInv, Shown
      <4>3. client.state = "done" => Unmarked(kinds) = <<>>
        <5>1. client.state = "done" => turn[u].stage \in {"none", "closed"}
          BY <2>2 DEF FollowInv, Following
        <5>. QED  BY <3>1, <3>3, <3>4, <5>1 DEF Settles
      <4>4. Sees(client, s \o kinds)
        <5>1. client.seen \in Seq(Kinds)
          BY <1>1, ClientGiven
        <5>. QED  BY <3>3, <4>2, <4>3, <5>1, SeesMore
      <4>. QED  BY <4>4, SeesSame DEF SameView
    <3>5. \A st : ~(turn'[u].stage = "none" /\ Has(index', u, st))
      BY DEF MoveInv, Moves, Listed
    <3>6. PICK r : r = s \o kinds
      OBVIOUS
    <3>7. turn'[u].stage # "none" /\ ~Full(turn'[u].items) => Sees(client, turn[u].items)'
      BY <3>3, <3>4, <3>6 DEF Sees
    <3>. QED  BY <3>5, <3>7 DEF Shown
  <2>. QED  BY <2>1, <2>2
<1>. QED  BY <1>3, <1>4 DEF FollowInv

\* A step of which the client notices nothing at all.
LEMMA FollowSame ==
    ASSUME FollowInv, MoveInv', UNCHANGED <<turn, index, journal, client, scope>>,
           used'.turns = used.turns, runner' = "down" => runner = "down"
    PROVE  FollowInv'
<1>1. Following'
  BY DEF FollowInv, Following, Reads
<1>2. ASSUME NEW u \in TurnIds PROVE Shown(u)'
  BY DEF FollowInv, Shown, Sees
<1>. QED  BY <1>1, <1>2 DEF FollowInv

\* A step that may start a turn, and gives one that is over marks of the queue at most.
LEMMA ComesFollow ==
    ASSUME FollowInv, MoveInv', client' = client \/ client' = Woken, runner # "down",
           UNCHANGED <<runner, scope>>, used'.turns >= used.turns,
           NEW ts, \A u \in TurnIds : turn[u].stage = "closed" => ts[u].stage = "closed",
           \A u \in TurnIds : \E kinds :
              Comes(ts, u, kinds) /\ (turn[u].stage = "closed" => Unmarked(kinds) = <<>>)
    PROVE  FollowInv'
<1>1. MoveInv /\ SameView /\ used.turns \in Nat
  BY WokenView, MoveFacts DEF FollowInv
<1>2. ASSUME NEW u \in TurnIds, u <= used.turns
      PROVE  \E kinds : Carries(turn', journal', index', u, kinds) /\ Settles(u, kinds)
  <2>1. PICK kinds : Comes(ts, u, kinds) /\ (turn[u].stage = "closed" => Unmarked(kinds) = <<>>)
    OBVIOUS
  <2>2. ~Opened(u)
    BY <1>1, <1>2 DEF Opened, TurnIds
  <2>3. Carries(turn', journal', index', u, kinds) /\ turn'[u] = ts[u]
    BY <2>1, <2>2 DEF Comes
  <2>4. Settles(u, kinds)
    BY <2>1, <2>3 DEF Settles
  <2>. QED  BY <2>3, <2>4
<1>. QED  BY <1>1, <1>2, FollowStays

LEMMA OutcomeView ==
    ASSUME FollowInv, NEW ts, NEW j, NEW idx, Outcome(ts, j, idx)
    PROVE  (client' = client \/ client' = Woken) /\ used'.turns >= used.turns
<1>1. used.turns \in Nat
  BY MoveFacts DEF FollowInv
<1>. QED  BY <1>1 DEF Outcome

LEMMA SendsFollow ==
    ASSUME FollowInv, NEW m \in Messages, SendQueues(m) \/ SendStarts(m)
    PROVE  FollowInv'
<1>1. MoveInv /\ MoveInv' /\ TypeInv /\ TypeInv' /\ Stays(index)
  <2>1. MoveInv /\ MoveInv'
    BY SendsMoves DEF FollowInv
  <2>. QED  BY <2>1, MoveFacts, StaysSame DEF MoveInv, OnceInv
<1>2. runner = "up" /\ UNCHANGED <<runner, order, asking, scope>>
  BY <1>1, SendOutcome
<1>3. PICK ts, j :
          /\ Calm(ts) /\ j \in Journals /\ Outcome(ts, j, index)
          /\ \A u \in TurnIds : /\ Phase(ts, u, current, used.turns)
                                /\ ts[u].stage = turn[u].stage /\ ts[u].status = turn[u].status
                                /\ \E k : Carries(ts, j, index, u, k) /\ Queueing(u, k)
  BY <1>1, SendsMid
<1>4. \A v \in TurnIds : Phase(ts, v, current, used.turns) /\ \E h : Carries(ts, j, index, v, h)
  BY <1>3
<1>5. ASSUME NEW u \in TurnIds
      PROVE  \E k : Comes(ts, u, k) /\ (turn[u].stage = "closed" => Unmarked(k) = <<>>)
  <2>1. PICK k : Carries(ts, j, index, u, k) /\ Queueing(u, k)
    BY <1>3
  <2>2. Comes(ts, u, k)
    BY <1>1, <1>2, <1>3, <1>4, <2>1, OutcomeComes
  <2>3. Unmarked(k) = <<>>
    BY <2>1, UnmarkedNone DEF Queueing
  <2>. QED  BY <2>2, <2>3
<1>6. (client' = client \/ client' = Woken) /\ used'.turns >= used.turns
  BY <1>3, OutcomeView
<1>7. \A u \in TurnIds : turn[u].stage = "closed" => ts[u].stage = "closed"
  BY <1>3
<1>. QED  BY <1>1, <1>2, <1>5, <1>6, <1>7, ComesFollow

LEMMA BookkeepingFollow ==
    ASSUME FollowInv, BookkeepingInTime, NEW t \in TurnIds, BookkeepingDone(t)
    PROVE  FollowInv'
<1>1. MoveInv /\ MoveInv' /\ TypeInv /\ TypeInv' /\ turn \in TurnStates
  <2>1. MoveInv /\ MoveInv'
    BY BookkeepingMoves DEF FollowInv
  <2>. QED  BY <2>1, MoveFacts DEF MoveInv, OnceInv
<1>2. runner # "down" /\ turn[t].stage = "post" /\ UNCHANGED <<runner, order, asking, scope>>
  BY <1>1, BookkeepingOutcome
<1>3. PICK ts, j, idx :
          /\ Calm(ts) /\ j \in Journals /\ Stays(idx) /\ Outcome(ts, j, idx)
          /\ ts = Handing(t)
          /\ \A u \in TurnIds : Phase(ts, u, current, used.turns)
          /\ \A u \in TurnIds : \E k : Carries(ts, j, idx, u, k) /\ Booking(t, u, k)
  BY <1>1, BookkeepingMid
<1>4. \A v \in TurnIds : Phase(ts, v, current, used.turns) /\ \E h : Carries(ts, j, idx, v, h)
  BY <1>3
<1>5. ASSUME NEW u \in TurnIds
      PROVE  \E k : Comes(ts, u, k) /\ (turn[u].stage = "closed" => Unmarked(k) = <<>>)
  <2>1. PICK k : Carries(ts, j, idx, u, k) /\ Booking(t, u, k)
    BY <1>3
  <2>2. Comes(ts, u, k)
    BY <1>1, <1>2, <1>3, <1>4, <2>1, OutcomeComes
  <2>3. turn[u].stage = "closed" => Unmarked(k) = <<>>
    BY <1>2, <2>1, UnmarkedNone DEF Booking
  <2>. QED  BY <2>2, <2>3
<1>6. (client' = client \/ client' = Woken) /\ used'.turns >= used.turns
  BY <1>3, OutcomeView
<1>7. \A u \in TurnIds : turn[u].stage = "closed" => ts[u].stage = "closed"
  BY <1>1, <1>2, <1>3, HandingFacts
<1>. QED  BY <1>1, <1>2, <1>5, <1>6, <1>7, ComesFollow

LEMMA ReleasesFollow == ASSUME FollowInv, OtherReleases PROVE FollowInv'
<1>1. MoveInv /\ MoveInv' /\ TypeInv /\ TypeInv' /\ journal \in Journals
  <2>1. MoveInv /\ MoveInv'
    BY ReleasesMoves DEF FollowInv
  <2>. QED  BY <2>1, MoveFacts DEF MoveInv, OnceInv
<1>2. /\ Calm(turn) /\ Stays(index) /\ Outcome(turn, journal, index)
      /\ UNCHANGED <<runner, order, asking, scope>>
      /\ \A u \in TurnIds : /\ Phase(turn, u, current, used.turns)
                            /\ Carries(turn, journal, index, u, <<>>)
  BY <1>1, ReleasesMid
<1>3. CASE runner = "down"
  <2>1. UNCHANGED <<turn, index, journal, client>> /\ used'.turns = used.turns
    BY <1>2, <1>3 DEF Outcome
  <2>. QED  BY <1>1, <1>2, <1>3, <2>1, FollowSame
<1>4. CASE runner # "down"
  <2>1. ASSUME NEW u \in TurnIds
        PROVE  \E k : Comes(turn, u, k) /\ (turn[u].stage = "closed" => Unmarked(k) = <<>>)
    <3>1. PICK k : k = <<>>
      OBVIOUS
    <3>2. /\ Carries(turn, journal, index, u, k)
          /\ \A v \in TurnIds : Phase(turn, v, current, used.turns) /\ \E h : Carries(turn, journal, index, v, h)
      BY <1>2, <3>1
    <3>3. Comes(turn, u, k)
      BY <1>1, <1>2, <3>2, OutcomeComes
    <3>4. Unmarked(k) = <<>>
      BY <3>1, UnmarkedNone
    <3>. QED  BY <3>3, <3>4
  <2>2. (client' = client \/ client' = Woken) /\ used'.turns >= used.turns
    BY <1>2, OutcomeView
  <2>. QED  BY <1>1, <1>2, <1>4, <2>1, <2>2, ComesFollow
<1>. QED  BY <1>3, <1>4

\* The steps of one turn that is not over.
LEMMA StepFollow ==
    ASSUME FollowInv, MoveInv', client' = client \/ client' = Woken, runner # "down",
           UNCHANGED <<runner, scope>>, used'.turns = used.turns,
           NEW t \in TurnIds, turn[t].stage # "closed", NEW kinds,
           Carries(turn', journal', index', t, kinds),
           \A u \in TurnIds \ {t} : Carries(turn', journal', index', u, <<>>) /\ turn'[u] = turn[u]
    PROVE  FollowInv'
<1>1. SameView /\ used.turns \in Nat
  BY WokenView, MoveFacts DEF FollowInv
<1>2. ASSUME NEW u \in TurnIds
      PROVE  \E k : Carries(turn', journal', index', u, k) /\ Settles(u, k)
  <2>1. CASE u = t
    BY <2>1 DEF Settles
  <2>2. CASE u # t
    <3>1. PICK k : k = <<>>
      OBVIOUS
    <3>2. Unmarked(k) = <<>>
      BY <3>1, UnmarkedNone
    <3>3. Carries(turn', journal', index', u, k) /\ Settles(u, k)
      BY <2>2, <3>1, <3>2 DEF Settles
    <3>. QED  BY <3>3
  <2>. QED  BY <2>1, <2>2
<1>. QED  BY <1>1, <1>2, FollowStays

LEMMA TurnsFollow ==
    ASSUME FollowInv, AgentAsks \/ Responds \/ TurnEnds \/ StartFails \/ \E t \in TurnIds : TurnCloses(t)
    PROVE  FollowInv'
<1>1. MoveInv /\ MoveInv' /\ TypeInv'
  BY TurnsMove DEF FollowInv, MoveInv, OnceInv
<1>2. client' = client \/ client' = Woken
  BY DEF AgentAsks, Responds, TurnEnds, StartFails, TurnCloses, Closes
<1>3. \E t, kinds : /\ TurnStep(t, kinds) /\ runner # "down"
                    /\ turn[t].stage # "closed" /\ turn'[t].stage \notin {"none", "pre"}
                    /\ turn'[t].stage = "unsent" => turn[t].stage = "pre"
                    /\ turn[t].status # "running" => turn'[t].status = turn[t].status
                    /\ turn'[t].stage \in {"handing", "closed"} => turn[t].stage = "handing"
  <2>1. \A u \in TurnIds : Phase(turn, u, current, used.turns)
    BY <1>1 DEF MoveInv, Moves
  <2>2. CASE AgentAsks
    BY <1>1, <2>2, AsksStep
  <2>3. CASE Responds
    BY <1>1, <2>3, RespondsStep
  <2>4. CASE TurnEnds
    <3>1. PICK k : k = <<turn'[current].status>> \o Cancelled
      OBVIOUS
    <3>2. TurnStep(current, k) /\ turn[current].stage = "run" /\ turn'[current].stage = "post" /\ runner # "down"
      BY <1>1, <2>4, <3>1, EndsStep
    <3>. QED  BY <2>1, <3>2 DEF Phase, TurnStep
  <2>5. CASE StartFails
    <3>1. PICK k : k = <<>>
      OBVIOUS
    <3>2. /\ TurnStep(current, k) /\ turn[current].stage = "pre" /\ turn'[current].stage = "unsent"
          /\ runner # "down"
      BY <1>1, <2>5, <3>1, FailsStep
    <3>. QED  BY <2>1, <3>2 DEF Phase, TurnStep
  <2>6. ASSUME NEW t \in TurnIds, TurnCloses(t)
        PROVE  \E kinds : /\ TurnStep(t, kinds) /\ runner # "down"
                          /\ turn[t].stage = "handing" /\ turn'[t].stage = "closed"
                          /\ turn'[t].status = turn[t].status
    BY <1>1, <2>6, ClosesStep
  <2>7. CASE \E t \in TurnIds : TurnCloses(t)
    BY <2>6, <2>7
  <2>. QED  BY <2>2, <2>3, <2>4, <2>5, <2>7
<1>4. PICK t, kinds : /\ TurnStep(t, kinds) /\ runner # "down"
                      /\ turn[t].stage # "closed" /\ turn'[t].stage \notin {"none", "pre"}
                      /\ turn'[t].stage = "unsent" => turn[t].stage = "pre"
                      /\ turn[t].status # "running" => turn'[t].status = turn[t].status
                      /\ turn'[t].stage \in {"handing", "closed"} => turn[t].stage = "handing"
  BY <1>3
<1>5. /\ t \in TurnIds /\ UNCHANGED <<runner, scope>> /\ used'.turns = used.turns
      /\ \A u \in TurnIds \ {t} : turn'[u] = turn[u]
  BY <1>4 DEF TurnStep
<1>6. /\ Carries(turn', journal', index', t, kinds)
      /\ \A u \in TurnIds \ {t} : Carries(turn', journal', index', u, <<>>)
  BY <1>1, <1>4, StepCarries
<1>. QED  BY <1>1, <1>2, <1>4, <1>5, <1>6, StepFollow

LEMMA PromptFollow == ASSUME FollowInv, PromptSent PROVE FollowInv'
<1>1. MoveInv /\ MoveInv' /\ TypeInv
  BY PromptMoves DEF FollowInv, MoveInv, OnceInv
<1>2. PICK t \in TurnIds : /\ t = current /\ turn[t].stage = "pre"
                           /\ \A u \in TurnIds \ {t} : turn'[u] = turn[u]
  BY <1>1, PromptFacts
<1>3. PICK k : k = <<"pre">>
  OBVIOUS
<1>4. /\ Carries(turn', journal', index', t, k)
      /\ \A u \in TurnIds \ {t} : Carries(turn', journal', index', u, <<>>)
  BY <1>1, <1>2, <1>3, PromptCarries
<1>5. runner = "up" /\ client' = Woken /\ UNCHANGED <<runner, scope, used>>
  BY DEF PromptSent
<1>. QED  BY <1>1, <1>2, <1>4, <1>5, StepFollow

-----------------------------------------------------------------------------
(* The client's own steps.                                                 *)

LEMMA FollowsFollow == ASSUME FollowInv, NEW t \in TurnIds, Follows(t) PROVE FollowInv'
<1>1. MoveInv /\ MoveInv' /\ client.seen \in Seq(Kinds) /\ used.turns \in Nat
  BY EasyMoves, ClientGiven, MoveFacts DEF FollowInv
<1>2. PICK i \in 1..Len(order) : order[i] = t
  <2>1. t \in ToSet(order) /\ TypeInv
    BY <1>1, MoveFacts DEF Follows
  <2>. QED  BY <2>1, Lengths DEF ToSet
<1>3. turn[t].stage \notin {"none", "pre", "unsent"} /\ t <= used.turns
  <2>1. turn[t].stage \notin {"none", "pre", "unsent"}
    BY <1>1, <1>2, ListedOrder
  <2>. QED  BY <1>1, <2>1 DEF MoveInv, Moves, Phase
<1>4. PICK s : s = turn[t].items
  OBVIOUS
<1>5. s \in Seq(Kinds)
  BY <1>1, <1>4, MoveFacts
<1>6. PICK c : c = [turn |-> t, seen |-> IF t = client.turn THEN client.seen ELSE <<>>, state |-> "on"]
  OBVIOUS
<1>7. /\ client' = c /\ runner # "down" /\ UNCHANGED <<turn, index, journal, runner, used, scope>>
      /\ c.turn = t /\ c.state = "on" /\ c.seen = IF t = client.turn THEN client.seen ELSE <<>>
  BY <1>6 DEF Follows
<1>8. ~Full(s) => IsPrefix(c.seen, s)
  <2>1. CASE t = client.turn
    BY <1>3, <1>4, <1>7, <2>1 DEF FollowInv, Shown, Sees
  <2>2. CASE t # client.turn
    BY <1>5, <1>7, <2>2, PrefixFacts
  <2>. QED  BY <2>1, <2>2
<1>9. Following'
  BY <1>3, <1>7 DEF Following, Reads
<1>10. ASSUME NEW u \in TurnIds PROVE Shown(u)'
  <2>1. CASE u # t
    BY <1>7, <2>1 DEF Shown
  <2>2. CASE u = t
    <3>1. ~Full(turn'[u].items) => Sees(client', s)
      BY <1>4, <1>7, <1>8, <2>2 DEF Sees
    <3>2. turn'[u].stage # "none" /\ turn'[u].items = s
      BY <1>3, <1>4, <1>7, <2>2
    <3>3. ~Full(turn'[u].items) => Sees(client, turn[u].items)'
      BY <1>7, <3>1, <3>2 DEF Sees
    <3>. QED  BY <3>2, <3>3 DEF Shown
  <2>. QED  BY <2>1, <2>2
<1>. QED  BY <1>1, <1>9, <1>10 DEF FollowInv

LEMMA GoesOnFollow == ASSUME FollowInv, FollowGoesOn PROVE FollowInv'
<1>1. MoveInv /\ MoveInv' /\ TypeInv
  BY EasyMoves, MoveFacts DEF FollowInv
<1>2. /\ client.state = "on" /\ UNCHANGED <<turn, index, journal, runner, used, scope>>
      /\ client.turn \in TurnIds /\ client.seen \in Seq(Kinds)
      /\ client = [turn |-> client.turn, seen |-> client.seen, state |-> client.state]
  BY <1>1, ClientGiven DEF FollowGoesOn, Reads
<1>3. PICK t \in TurnIds : t = client.turn
  BY <1>2
<1>4. PICK s, e : s = turn[t].items /\ e = client.seen
  OBVIOUS
<1>5. s \in Seq(Kinds) /\ e \in Seq(Kinds) /\ Len(s) \in Nat /\ Len(e) \in Nat
  BY <1>1, <1>2, <1>4, MoveFacts, LenProperties
<1>6. runner # "down" /\ t <= used.turns /\ turn[t].stage \notin {"pre", "unsent"}
  BY <1>2, <1>3 DEF FollowInv, Following, Reads
<1>7. client' = IF Len(e) < Len(s) THEN [client EXCEPT !.seen = Append(@, s[Len(e) + 1])]
                ELSE IF Settled(t) THEN [client EXCEPT !.state = "done"]
                ELSE [client EXCEPT !.state = "waiting"]
  BY <1>3, <1>4 DEF FollowGoesOn
<1>8. /\ client'.turn = t
      /\ \/ client'.seen = Append(e, s[Len(e) + 1]) /\ client'.state = "on" /\ Len(e) < Len(s)
         \/ client'.seen = e /\ client'.state = "done" /\ Settled(t) /\ ~(Len(e) < Len(s))
         \/ client'.seen = e /\ client'.state = "waiting"
  BY <1>2, <1>3, <1>4, <1>7
<1>9. Following'
  <2>1. client'.state = "done" => turn[t].stage \in {"none", "closed"}
    BY <1>8 DEF Settled
  <2>. QED  BY <1>2, <1>6, <1>8, <2>1 DEF Following, Reads
<1>10. ASSUME turn[t].stage # "none", ~Full(s) PROVE Sees(client', s)
  <2>1. IsPrefix(e, s)
    BY <1>3, <1>4, <1>10 DEF FollowInv, Shown, Sees
  <2>2. IsPrefix(client'.seen, s)
    <3>1. Len(e) < Len(s) => IsPrefix(Append(e, s[Len(e) + 1]), s)
      BY <1>5, <2>1, PrefixFacts
    <3>. QED  BY <1>8, <2>1, <3>1
  <2>3. client'.state = "done" => client'.seen = s
    BY <1>5, <1>8, <2>1, PrefixFacts
  <2>. QED  BY <2>2, <2>3 DEF Sees
<1>11. ASSUME NEW u \in TurnIds PROVE Shown(u)'
  <2>1. CASE u # t
    BY <1>8, <2>1 DEF Shown
  <2>2. CASE u = t
    <3>1. turn[u].stage # "none" /\ ~Full(turn[u].items) => Sees(client', turn[u].items)
      BY <1>4, <1>10, <2>2
    <3>2. turn'[u].stage # "none" /\ ~Full(turn'[u].items) => Sees(client, turn[u].items)'
      BY <1>2, <3>1 DEF Sees
    <3>3. \A st : ~(turn'[u].stage = "none" /\ Has(index', u, st))
      BY <1>1, <1>2, <1>6 DEF MoveInv, Moves, Listed
    <3>. QED  BY <3>2, <3>3 DEF Shown
  <2>. QED  BY <2>1, <2>2
<1>. QED  BY <1>1, <1>9, <1>11 DEF FollowInv

LEMMA EasyFollow ==
    ASSUME FollowInv,
           (\E m \in Messages : Dequeues(m)) \/ PutsBack \/ OtherTakes \/ AgentExits \/ UNCHANGED vars
    PROVE  FollowInv'
<1>1. MoveInv /\ MoveInv'
  BY EasyMoves DEF FollowInv
<1>2. /\ UNCHANGED <<turn, index, journal, client, scope>> /\ used'.turns = used.turns
      /\ runner' = "down" => runner = "down"
  BY DEF Dequeues, PutsBack, OtherTakes, AgentExits, vars
<1>. QED  BY <1>1, <1>2, FollowSame

-----------------------------------------------------------------------------
(* Stops, crashes, reconstruction.                                         *)

\* What is on disk of the followed turn.
LEMMA ShownOnDisk ==
    ASSUME FollowInv, NEW u \in TurnIds, u = client.turn, NEW st, Has(index, u, st),
           ~Full(journal.files[u])
    PROVE  /\ Sees(client, journal.files[u])
           /\ client.state = "done" /\ scope.hazard # "late" => st # "running"
<1>1. Shown(u) /\ Listed(u) /\ Filed(u) /\ index \in Seq(IndexRows)
  BY MoveFacts DEF FollowInv, MoveInv, Moves
<1>2. CASE turn[u].stage = "none"
  BY <1>1, <1>2 DEF Shown
<1>3. CASE turn[u].stage # "none"
  <2>1. Indexed(index, u)
    BY <1>1, HasIndexed
  <2>2. turn[u].items = journal.files[u]
    BY <1>1, <1>3, <2>1 DEF Filed
  <2>3. Sees(client, turn[u].items)
    BY <1>1, <1>3, <2>2 DEF Shown
  <2>4. client.state = "done" => turn[u].stage = "closed"
    BY <1>3 DEF FollowInv, Following
  <2>. QED  BY <1>1, <2>2, <2>3, <2>4 DEF Listed
<1>. QED  BY <1>2, <1>3

LEMMA DropsFollow == ASSUME FollowInv, Drops PROVE FollowInv'
<1>1. MoveInv /\ MoveInv' /\ TypeInv /\ index' \in Seq(IndexRows)
  <2>1. MoveInv /\ MoveInv'
    BY DropsMoves DEF FollowInv
  <2>2. TypeInv'
    BY <2>1 DEF MoveInv, OnceInv
  <2>. QED  BY <2>1, <2>2, MoveFacts DEF TypeInv, TypeOK, IndexRows
<1>2. /\ runner # "down" /\ runner' = "down" /\ used'.turns = used.turns /\ UNCHANGED scope
      /\ \A u \in TurnIds :
            /\ turn'[u].stage = IF turn[u].stage \in {"run", "post"} THEN "closed" ELSE turn[u].stage
            /\ turn[u].stage \in {"none", "run", "post", "closed", "unsent"}
      /\ \A u \in TurnIds : \E kinds : Carries(turn', journal', index', u, kinds) /\ Stopping(u, kinds)
  BY <1>1, DropsTurns
<1>3. /\ client'.turn = client.turn
      /\ \/ Reads(client) /\ client'.state = "done"
            /\ \A u \in TurnIds : u = client.turn => client'.seen = turn'[u].items
         \/ ~Reads(client) /\ client' = client
  BY <1>1, DropFacts DEF Reads
<1>4. Following'
  <2>1. client'.turn <= used'.turns
    BY <1>2, <1>3 DEF FollowInv, Following
  <2>2. ~Reads(client')
    BY <1>3 DEF Reads
  <2>3. ASSUME NEW u \in TurnIds, u = client'.turn, client'.state = "done"
        PROVE  turn'[u].stage \in {"none", "closed"}
    <3>1. turn[u].stage # "unsent"
      BY <1>3, <2>3 DEF FollowInv, Following
    <3>. QED  BY <1>2, <3>1
  <2>. QED  BY <2>1, <2>2, <2>3 DEF Following, Reads
<1>5. ASSUME NEW u \in TurnIds PROVE Shown(u)'
  <2>1. CASE u # client.turn
    BY <1>3, <2>1 DEF Shown
  <2>2. CASE u = client.turn
    <3>1. PICK kinds : Carries(turn', journal', index', u, kinds) /\ Stopping(u, kinds)
      BY <1>2
    <3>2. PICK s, r : s = turn[u].items /\ r = turn'[u].items
      OBVIOUS
    <3>3. /\ s \in Seq(Kinds) /\ kinds \in Seq(Kinds) /\ r = s \o kinds /\ r \in Seq(Kinds)
          /\ (turn'[u].stage = "none" <=> turn[u].stage = "none")
      <4>1. s \in Seq(Kinds) /\ kinds \in Seq(Kinds) /\ r = s \o kinds
            /\ (turn'[u].stage = "none" <=> turn[u].stage = "none")
        BY <1>1, <3>1, <3>2, MoveFacts DEF Carries
      <4>. QED  BY <4>1, ConcatProperties
    <3>4. ASSUME turn'[u].stage # "none", ~Full(r) PROVE Sees(client', r)
      <4>1. CASE Reads(client) /\ client'.seen = r
        BY <3>3, <4>1, PrefixFacts DEF Sees
      <4>2. CASE ~Reads(client) /\ client' = client
        <5>1. ~Full(s)
          BY <3>3, <3>4, FullConcat
        <5>2. Sees(client, s)
          BY <2>2, <3>2, <3>3, <3>4, <5>1 DEF FollowInv, Shown
        <5>3. client.state = "done" => Unmarked(kinds) = <<>>
          <6>1. ASSUME client.state = "done" PROVE kinds = <<>>
            <7>1. turn[u].stage \in {"none", "closed"}
              BY <2>2, <6>1 DEF FollowInv, Following
            <7>. QED  BY <3>1, <7>1 DEF Stopping, Running
          <6>. QED  BY <6>1, UnmarkedNone
        <5>4. client.seen \in Seq(Kinds)
          BY <1>1, ClientGiven
        <5>5. Sees(client, s \o kinds)
          BY <3>3, <5>2, <5>3, <5>4, SeesMore
        <5>. QED  BY <3>3, <4>2, <5>5
      <4>. QED  BY <1>3, <2>2, <3>2, <4>1, <4>2
    <3>5. ASSUME NEW st, turn'[u].stage = "none", Has(index', u, st) PROVE FALSE
      <4>1. Indexed(index, u)
        BY <1>1, <3>1, <3>3, <3>5, HasIndexed DEF Carries
      <4>2. PICK g : Has(index, u, g)
        BY <1>1, <4>1, HasIndexed, MoveFacts
      <4>3. Listed(u)
        BY <1>1 DEF MoveInv, Moves
      <4>. QED  BY <1>2, <3>3, <3>5, <4>2, <4>3 DEF Listed
    <3>6. turn'[u].stage # "none" /\ ~Full(turn'[u].items) => Sees(client', turn'[u].items)
      BY <3>2, <3>4
    <3>7. turn'[u].stage # "none" /\ ~Full(turn'[u].items) => Sees(client, turn[u].items)'
      BY <1>2, <3>6 DEF Sees
    <3>. QED  BY <3>5, <3>7 DEF Shown
  <2>. QED  BY <2>1, <2>2
<1>. QED  BY <1>1, <1>4, <1>5 DEF FollowInv

\* What is appended on disk to a listed turn that no stream has told the end of.
LEMMA DiskShown ==
    ASSUME FollowInv, UNCHANGED scope, NEW u \in TurnIds, u = client.turn, NEW st, Has(index, u, st),
           NEW kinds \in Seq(Kinds), ~Full(journal.files[u]), st # "running" => kinds = <<>>,
           NEW d, d.seen = client.seen, d.state = "done" => client.state = "done"
    PROVE  Sees(d, journal.files[u] \o kinds)
<1>1. PICK s : s = journal.files[u]
  OBVIOUS
<1>2. s \in Seq(Kinds) /\ client.seen \in Seq(Kinds)
  BY <1>1, MoveFacts, ClientGiven DEF FollowInv
<1>3. Sees(client, s) /\ (client.state = "done" /\ scope.hazard # "late" => st # "running")
  BY <1>1, ShownOnDisk
<1>4. client.state = "done" /\ scope.hazard # "late" => Unmarked(kinds) = <<>>
  BY <1>3, UnmarkedNone
<1>5. Sees(client, s \o kinds)
  BY <1>2, <1>3, <1>4, SeesMore
<1>. QED  BY <1>1, <1>5, SeesSame

LEMMA CrashesFollow ==
    ASSUME FollowInv, CrashBetween \/ CrashInStart \/ CrashInOpen PROVE FollowInv'
<1>1. MoveInv /\ MoveInv' /\ TypeInv
  BY CrashesMoves, MoveFacts DEF FollowInv
<1>2. \E j : Crashes(index, j)
  BY DEF CrashBetween, CrashInStart, CrashInOpen
<1>3. /\ UNCHANGED <<index, scope>> /\ runner' = "down" /\ used'.turns = used.turns
      /\ client'.turn = client.turn /\ client'.seen = client.seen
      /\ client'.state \in {"off", "done"} /\ (client'.state = "done" => client.state = "done")
  BY <1>1, <1>2, CrashFacts, ClientGiven
<1>4. \A u \in TurnIds : \E kinds : Crashed(u, kinds)
  BY <1>1, CrashesTurns
<1>5. \A u \in TurnIds : turn'[u].stage = "none"
  BY <1>4 DEF Crashed, NoTurn
<1>6. Following'
  BY <1>3, <1>5 DEF FollowInv, Following, Reads
<1>7. ASSUME NEW u \in TurnIds PROVE Shown(u)'
  <2>1. CASE u # client.turn
    BY <1>3, <2>1 DEF Shown
  <2>2. ASSUME u = client.turn, NEW st, Has(index, u, st), ~Full(journal'.files[u])
        PROVE  /\ Sees(client', journal'.files[u])
               /\ client'.state = "done" /\ scope.hazard # "late" => st # "running"
    <3>1. PICK kinds : Crashed(u, kinds)
      BY <1>4
    <3>2. /\ kinds \in Seq(Kinds) /\ ~Full(journal.files[u])
          /\ journal'.files[u] = journal.files[u] \o kinds
      BY <2>2, <3>1 DEF Crashed
    <3>3. st # "running" => kinds = <<>>
      <4>1. Indexed(index, u)
        BY <1>1, <2>2, HasIndexed, MoveFacts
      <4>2. \A i \in DOMAIN index : index[i].turn = u => index[i].status = st
        BY <1>1, <2>2, OneStatus
      <4>. QED  BY <3>1, <4>1, <4>2 DEF Crashed
    <3>4. Sees(client', journal.files[u] \o kinds)
      BY <1>3, <2>2, <3>2, <3>3, DiskShown
    <3>5. client.state = "done" /\ scope.hazard # "late" => st # "running"
      BY <2>2, <3>2, ShownOnDisk
    <3>. QED  BY <1>3, <3>2, <3>4, <3>5
  <2>3. CASE u = client.turn
    <3>1. ASSUME NEW st, Has(index', u, st), ~Full(journal'.files[u])
          PROVE  /\ Sees(client', journal'.files[u])
                 /\ client'.state = "done" /\ scope.hazard # "late" => st # "running"
      BY <1>3, <2>2, <2>3, <3>1
    <3>2. ASSUME NEW st, Has(index', u, st), ~Full(journal'.files[u])
          PROVE  /\ Sees(client, journal.files[u])'
                 /\ client'.state = "done" /\ scope'.hazard # "late" => st # "running"
      BY <1>3, <3>1, <3>2 DEF Sees
    <3>. QED  BY <1>5, <3>2 DEF Shown
  <2>. QED  BY <2>1, <2>3
<1>. QED  BY <1>1, <1>6, <1>7 DEF FollowInv

LEMMA OpensFollow == ASSUME FollowInv, Apart, Opens PROVE FollowInv'
<1>1. MoveInv /\ MoveInv' /\ TypeInv
  BY OpensMoves, MoveFacts DEF FollowInv
<1>2. runner' = "up" /\ UNCHANGED <<client, used, scope>>
  BY <1>1, OpensFacts, OpensBeside DEF Apart
<1>3. \A u \in TurnIds : turn'[u].stage \in {"none", "closed"}
  BY <1>1, OpensTurn DEF Unlisted, Reopened, NoTurn
<1>4. Following'
  BY <1>2, <1>3 DEF FollowInv, Following, Reads
<1>5. ASSUME NEW u \in TurnIds PROVE Shown(u)'
  <2>1. ASSUME u = client.turn, turn'[u].stage # "none", ~Full(turn'[u].items)
        PROVE  Sees(client', turn'[u].items)
    <3>1. ~Unlisted(u)
      BY <2>1 DEF Unlisted, NoTurn
    <3>2. PICK st \in Ends \cup {"running"} : \E kinds : Reopened(u, st, kinds)
      BY <1>1, <3>1, OpensTurn
    <3>3. PICK kinds : Reopened(u, st, kinds)
      BY <3>2
    <3>4. /\ Has(index, u, st) /\ kinds \in Seq(Kinds) /\ (st # "running" => kinds = <<>>)
          /\ turn'[u].items = journal.files[u] \o kinds /\ journal.files[u] \in Seq(Kinds)
      BY <1>1, <3>3, MoveFacts DEF Reopened
    <3>5. ~Full(journal.files[u])
      BY <2>1, <3>4, FullConcat
    <3>6. Sees(client', journal.files[u] \o kinds)
      BY <1>2, <2>1, <3>4, <3>5, DiskShown
    <3>. QED  BY <3>4, <3>6
  <2>2. u = client.turn /\ turn'[u].stage # "none" /\ ~Full(turn'[u].items)
            => Sees(client, turn[u].items)'
    BY <1>2, <2>1 DEF Sees
  <2>3. \A st : ~(turn'[u].stage = "none" /\ Has(index', u, st))
    BY <1>1, <1>2 DEF MoveInv, Moves, Listed
  <2>. QED  BY <1>2, <2>2, <2>3 DEF Shown
<1>. QED  BY <1>1, <1>4, <1>5 DEF FollowInv

LEMMA InitFollow == ASSUME Init PROVE FollowInv
<1>1. MoveInv
  BY InitMoves
<1>2. client.turn = 0 /\ client.state = "off" /\ used.turns = 0
  BY DEF Init
<1>. QED  BY <1>1, <1>2 DEF FollowInv, Following, Shown, Reads, TurnIds

LEMMA FollowKept ==
    ASSUME FollowInv, Apart, BookkeepingInTime, [Next]_vars PROVE FollowInv'
<1>1. CASE \E m \in Messages : SendQueues(m) \/ SendStarts(m) \/ Dequeues(m)
  BY <1>1, SendsFollow, EasyFollow
<1>2. CASE PromptSent
  BY <1>2, PromptFollow
<1>3. CASE StartFails \/ TurnEnds \/ AgentAsks \/ Responds
  BY <1>3, TurnsFollow
<1>4. CASE \E t \in TurnIds : BookkeepingDone(t) \/ TurnCloses(t)
  BY <1>4, BookkeepingFollow, TurnsFollow
<1>5. CASE OtherReleases
  BY <1>5, ReleasesFollow
<1>6. CASE PutsBack \/ OtherTakes \/ AgentExits \/ UNCHANGED vars
  BY <1>6, EasyFollow
<1>7. CASE (\E t \in TurnIds : Follows(t)) \/ FollowGoesOn
  BY <1>7, FollowsFollow, GoesOnFollow
<1>8. CASE Drops \/ CrashBetween \/ CrashInStart \/ Opens \/ CrashInOpen
  BY <1>8, DropsFollow, CrashesFollow, OpensFollow
<1>9. ~DropBegins /\ \A t \in TurnIds : ~LeavingDone(t)
  BY NothingLeaves, MoveFacts DEF Apart, FollowInv
<1>. QED  BY <1>1, <1>2, <1>3, <1>4, <1>5, <1>6, <1>7, <1>8, <1>9 DEF Next, TurnSteps

LEMMA FollowIsExact == ASSUME FollowInv PROVE FollowExact
<1>1. ASSUME client.turn # 0, turn[client.turn].stage # "none", ~Overflowed(client.turn)
      PROVE  Sees(client, turn[client.turn].items)
  <2>1. client.turn \in TurnIds
    BY <1>1, ClientGiven DEF FollowInv, TurnIds
  <2>2. ~Full(turn[client.turn].items)
    BY <1>1 DEF Overflowed, Full
  <2>. QED  BY <1>1, <2>1, <2>2 DEF FollowInv, Shown
<1>. QED  BY <1>1 DEF FollowExact, Sees, Unmarked

\* What a client has been shown of a turn is how the turn's journal begins, over
\* restarts too, and a stream that has ended has shown all of it but later marks of
\* the queue (follow, TurnState.closed, _reconstruct_from_journal): for any number of
\* turns, of items and of restarts.  No /open overlaps the end of the runner it
\* replaces, and the notes are in time: no bookkeeping outlasts turns_keep later
\* turns.
THEOREM FollowsExactly == Spec /\ []BookkeepingInTime => []FollowExact
<1>. DEFINE Inv == TypeInv /\ (Apart => FollowInv)
<1>1. Init => Inv
  BY InitFollow, TypesInit
<1>2. Inv /\ BookkeepingInTime /\ [Next]_vars => Inv'
  <2>. SUFFICES ASSUME Inv, BookkeepingInTime, [Next]_vars PROVE Inv'
    OBVIOUS
  <2>1. TypeInv' /\ scope' = scope
    BY TypesKept, ScopeStays
  <2>2. CASE ~Apart
    BY <2>1, <2>2 DEF Apart
  <2>3. CASE Apart
    <3>1. FollowInv'
      BY <2>3, FollowKept
    <3>. QED  BY <2>1, <3>1
  <2>. QED  BY <2>2, <2>3
<1>3. Inv => FollowExact
  BY FollowIsExact DEF Apart, FollowExact
<1>. QED  BY <1>1, <1>2, <1>3, PTL DEF Spec

=============================================================================
