------------------------- MODULE CoderMessages_proofs -------------------------
(***************************************************************************)
(* What holds of the messages of a conversation for any number of them,    *)
(* of turns and of restarts: types and bounds, and that no message is      *)
(* prompted twice in a row.                                                *)
(***************************************************************************)
EXTENDS CoderMessages, Subsequences_proofs

Journals == [files : [TurnIds -> Seq(Kinds)], full : SUBSET TurnIds]

\* A start that fails because the agent has exited is not counted.
Dead == IF runner = "dead" THEN 1 ELSE 0

\* The queue is within its cap, but for follow-ups that were or will be put back.
Capped(q) == q \in Seq(Messages) /\ Len(q) + Len(limbo) <= Depth + used.fails + Dead

Leavings == [turn : TurnStates, index : Seq(IndexRows), posts : SUBSET TurnIds]

\* What a runner that is no longer registered has yet to do.
Parted(lv) ==
    /\ lv \in Leavings /\ Len(lv.index) <= Keep
    /\ \A t \in lv.posts : lv.turn[t].msg \in Messages

\* A turn that was begun has its message; what is current, listed or followed was begun.
Known ==
    /\ \A t \in TurnIds : turn[t].stage # "none" => turn[t].msg \in Messages
    /\ current # 0 => turn[current].stage # "none"
    /\ \A i \in DOMAIN order : turn[order[i]].stage # "none"
    /\ client.state \in {"on", "waiting", "parting"} => client.turn \in TurnIds
    /\ Parted(leaving)

\* Every turn is begun by a request, or by one that a failed start put back.
Counts ==
    /\ used \in [turns : Nat, sends : Nat, fails : Nat, restarts : Nat]
    /\ used.sends <= scope.sends /\ used.fails <= scope.fails
    /\ used.turns + (IF runner = "up" THEN Len(queue) + Len(limbo) ELSE 0) <= used.sends + used.fails
    /\ current <= used.turns
    /\ Len(limbo) <= used.fails + Dead
    /\ Starting => Len(limbo) <= used.fails /\ Len(queue) + Len(limbo) <= Depth + used.fails

\* Only an /open that overlaps the end of the runner it replaces leaves one beside it.
Alone == scope.hazard # "overlap" => leaving.posts = {} /\ client.state # "parting"

Uses == [turns : Nat, sends : Nat, fails : Nat, restarts : Nat]

TypeInv == TypeOK /\ Known /\ Counts /\ Alone

-----------------------------------------------------------------------------
LEMMA Bounds ==
    /\ NoMessage \notin Messages
    /\ Depth \in Nat /\ RamKeep \in Nat /\ RamKeep > 0 /\ Keep \in Nat /\ Keep > 0
    /\ MaxTurns \in Nat
BY CoderMessagesAssumption DEF CoderMessagesAssumption

LEMMA Parameters ==
    ASSUME scope \in Scopes
    PROVE  /\ scope.sends \in Nat /\ scope.fails \in Nat /\ scope.restarts \in Nat
           /\ scope.room \in Nat /\ scope.others \in BOOLEAN /\ scope.asks \in BOOLEAN
           /\ scope.hazard \in {"none", "late", "in_step", "overlap"}
           /\ scope.sends + scope.fails <= MaxTurns
BY CoderMessagesAssumption DEF CoderMessagesAssumption

LEMMA NewestFacts ==
    ASSUME NEW S, NEW n \in Nat, NEW s \in Seq(S)
    PROVE  /\ Newest(n, s) \in Seq(S) /\ Len(Newest(n, s)) <= n /\ Len(Newest(n, s)) <= Len(s)
           /\ Len(s) <= n => Len(Newest(n, s)) = Len(s)
           /\ \A i \in 1..Len(Newest(n, s)) :
                 Newest(n, s)[i] = s[i + (Len(s) - Len(Newest(n, s)))]
           /\ n > 0 /\ Len(s) > 0 => Len(Newest(n, s)) > 0
<1>. DEFINE d == IF Len(s) > n THEN Len(s) - n ELSE 0
            r == SubSeq(s, d + 1, Len(s))
<1>1. Len(s) \in Nat
  BY LenProperties
<1>2. d \in Nat /\ d <= Len(s) /\ Len(s) - d <= n /\ (Len(s) <= n => d = 0)
      /\ (n > 0 /\ Len(s) > 0 => Len(s) - d > 0)
  BY <1>1
<1>3. Newest(n, s) = r
  BY DEF Newest
<1>. HIDE DEF d
<1>4. d + 1 \in Int /\ Len(s) \in Int /\ (\A i \in (d + 1)..Len(s) : s[i] \in S)
  BY <1>1, <1>2, ElementOfSeq
<1>5. /\ r \in Seq(S)
      /\ Len(r) = IF d + 1 <= Len(s) THEN Len(s) - (d + 1) + 1 ELSE 0
      /\ \A i \in 1..(Len(s) - (d + 1) + 1) : r[i] = s[(d + 1) + i - 1]
  BY <1>4, SubSeqProperties
<1>. HIDE DEF r
<1>6. Len(r) = Len(s) - d
  BY <1>1, <1>2, <1>5
<1>7. ASSUME NEW i \in 1..Len(r) PROVE r[i] = s[i + (Len(s) - Len(r))]
  <2>1. i \in 1..(Len(s) - (d + 1) + 1) /\ (d + 1) + i - 1 = i + (Len(s) - Len(r))
    BY <1>1, <1>2, <1>6
  <2>. QED  BY <2>1, <1>5
<1>8. /\ Len(r) <= n /\ Len(r) <= Len(s) /\ (Len(s) <= n => Len(r) = Len(s))
      /\ (n > 0 /\ Len(s) > 0 => Len(r) > 0)
  BY <1>1, <1>2, <1>6
<1>. QED  BY <1>3, <1>5, <1>7, <1>8

LEMMA NotingFacts ==
    ASSUME NEW ts \in TurnStates, NEW t \in TurnIds, NEW kinds \in Seq(Kinds)
    PROVE  /\ Noting(ts, t, kinds) \in TurnStates
           /\ \A u \in TurnIds \ {t} : Noting(ts, t, kinds)[u] = ts[u]
           /\ Noting(ts, t, kinds)[t].msg = ts[t].msg
           /\ Noting(ts, t, kinds)[t].status = ts[t].status
           /\ Noting(ts, t, kinds)[t].stage = ts[t].stage
           /\ Noting(ts, t, kinds)[t].items = ts[t].items \o kinds
<1>1. ts[t].items \in Seq(Kinds)
  BY DEF TurnStates
<1>2. ts[t].items \o kinds \in Seq(Kinds)
  BY <1>1, ConcatProperties
<1>. QED  BY <1>2 DEF Noting, TurnStates

LEMMA NotingKeeps ==
    ASSUME NEW ts \in TurnStates, NEW t \in TurnIds, NEW kinds \in Seq(Kinds), NEW u \in TurnIds
    PROVE  /\ Noting(ts, t, kinds)[u].msg = ts[u].msg
           /\ Noting(ts, t, kinds)[u].status = ts[u].status
           /\ Noting(ts, t, kinds)[u].stage = ts[u].stage
<1>1. CASE u = t
  BY <1>1, NotingFacts
<1>2. CASE u # t
  BY <1>2, NotingFacts
<1>. QED  BY <1>1, <1>2

LEMMA KindsWritten ==
    /\ \A k \in Kinds : <<k>> \in Seq(Kinds)
    /\ \A k, h \in Kinds : <<k, h>> \in Seq(Kinds)
    /\ <<>> \in Seq(Kinds) /\ Cancelled \in Seq(Kinds)
    /\ \A k \in Kinds : <<k>> \o Cancelled \in Seq(Kinds)
    /\ \A k \in Kinds : Cancelled \o <<k>> \in Seq(Kinds)
<1>1. <<>> \in Seq(Kinds) /\ \A k, h \in Kinds : <<k>> \in Seq(Kinds) /\ <<k, h>> \in Seq(Kinds)
  OBVIOUS
<1>2. Cancelled \in Seq(Kinds)
  BY <1>1 DEF Cancelled, Kinds
<1>. QED  BY <1>1, <1>2, ConcatProperties

LEMMA StoredTyped ==
    ASSUME scope \in Scopes, NEW j \in Journals, NEW t \in TurnIds, NEW kinds \in Seq(Kinds)
    PROVE  Stored(j, t, kinds) \in Journals
<1>. DEFINE n == Len(j.files[t])
            left == IF n < scope.room THEN scope.room - n ELSE 0
            cut == SubSeq(kinds, 1, left + 1)
<1>1. j.files[t] \in Seq(Kinds) /\ j.files \in [TurnIds -> Seq(Kinds)] /\ j.full \in SUBSET TurnIds
  BY DEF Journals
<1>2. n \in Nat /\ scope.room \in Nat /\ left \in Nat /\ Len(kinds) \in Nat
  BY <1>1, Parameters, LenProperties
<1>3. j.files[t] \o kinds \in Seq(Kinds)
  BY <1>1, ConcatProperties
<1>4. ASSUME ~(Len(kinds) <= left) PROVE j.files[t] \o cut \o <<"overflow">> \in Seq(Kinds)
  <2>1. \A i \in 1..(left + 1) : kinds[i] \in Kinds
    BY <1>2, <1>4, ElementOfSeq
  <2>2. cut \in Seq(Kinds)
    BY <1>2, <2>1, SubSeqProperties
  <2>. HIDE DEF cut
  <2>3. <<"overflow">> \in Seq(Kinds)
    BY DEF Kinds
  <2>. QED  BY <2>2, <2>3, <1>1, ConcatProperties
<1>5. CASE t \in j.full
  BY <1>5 DEF Stored
<1>6. CASE t \notin j.full /\ Len(kinds) <= left
  <2>1. Stored(j, t, kinds) = [j EXCEPT !.files[t] = j.files[t] \o kinds]
    BY <1>6 DEF Stored
  <2>. QED  BY <2>1, <1>1, <1>3 DEF Journals
<1>7. CASE t \notin j.full /\ ~(Len(kinds) <= left)
  <2>1. Stored(j, t, kinds) = [files |-> [j.files EXCEPT ![t] = j.files[t] \o cut \o <<"overflow">>],
                               full |-> j.full \cup {t}]
    BY <1>7 DEF Stored
  <2>. HIDE DEF cut, left
  <2>. QED  BY <2>1, <1>1, <1>4, <1>7 DEF Journals
<1>. QED  BY <1>5, <1>6, <1>7

Entry(ts, t) == [turn |-> t, msg |-> ts[t].msg, status |-> ts[t].status]
Indexed(idx, t) == \E i \in DOMAIN idx : idx[i].turn = t

LEMMA NotedTyped ==
    ASSUME NEW ts \in TurnStates, NEW t \in TurnIds, ts[t].msg \in Messages,
           NEW idx \in Seq(IndexRows), Len(idx) <= Keep
    PROVE  /\ Noted(idx, ts, t) \in Seq(IndexRows) /\ Len(Noted(idx, ts, t)) <= Keep
           /\ Indexed(idx, t) =>
                 /\ Len(Noted(idx, ts, t)) = Len(idx)
                 /\ \A i \in 1..Len(idx) :
                       Noted(idx, ts, t)[i] = IF idx[i].turn = t THEN Entry(ts, t) ELSE idx[i]
           /\ ~Indexed(idx, t) => Noted(idx, ts, t) = Newest(Keep, Append(idx, Entry(ts, t)))
<1>1. Entry(ts, t) \in IndexRows
  BY DEF IndexRows, Entry, TurnStates
<1>2. DOMAIN idx = 1..Len(idx) /\ Len(idx) \in Nat /\ \A i \in 1..Len(idx) : idx[i] \in IndexRows
  BY LenProperties, ElementOfSeq
<1>3. CASE Indexed(idx, t)
  <2>. DEFINE r == [i \in 1..Len(idx) |-> IF idx[i].turn = t THEN Entry(ts, t) ELSE idx[i]]
  <2>1. Noted(idx, ts, t) = r
    BY <1>2, <1>3 DEF Noted, Entry, Indexed
  <2>2. r \in Seq(IndexRows) /\ Len(r) = Len(idx)
    BY <1>1, <1>2
  <2>. QED  BY <2>1, <2>2, <1>3
<1>4. CASE ~Indexed(idx, t)
  <2>1. Noted(idx, ts, t) = Newest(Keep, Append(idx, Entry(ts, t)))
    BY <1>4 DEF Noted, Entry, Indexed
  <2>2. Append(idx, Entry(ts, t)) \in Seq(IndexRows)
    BY <1>1, AppendProperties
  <2>. QED  BY <2>1, <2>2, <1>4, NewestFacts, Bounds
<1>. QED  BY <1>3, <1>4

LEMMA PrunedTyped ==
    ASSUME NEW j \in Journals, NEW idx
    PROVE  Pruned(j, idx) \in Journals
<1>1. <<>> \in Seq(Kinds)
  OBVIOUS
<1>. QED  BY <1>1 DEF Pruned, Journals

-----------------------------------------------------------------------------
(* Types.                                                                  *)

Clients == [turn : 0..MaxTurns, seen : Seq(Kinds), state : {"off", "on", "waiting", "parting", "done"}]
Starts == [drained : BOOLEAN, fresh : BOOLEAN, by : 0..MaxTurns]
Leases == {"free", "mine", "other"}

\* What a step hands to a start: the turns and the journal as it has marked them,
\* the index, the queue, the lease and the place in the FIFO.
Given(ts, j, idx, q, l, w) ==
    /\ ts \in TurnStates
    /\ \A t \in TurnIds : ts[t].msg = turn[t].msg /\ (ts[t].stage = "none" <=> turn[t].stage = "none")
                         /\ (ts[t].stage = "pre" => turn[t].stage = "pre")
    /\ j \in Journals /\ idx \in Seq(IndexRows) /\ Len(idx) <= Keep
    /\ Capped(q) /\ l \in Leases /\ w \in BOOLEAN

\* How a step that may start a turn ends, if it may with the queue q.
Shaped(q) ==
    /\ turn' \in TurnStates /\ journal' \in Journals
    /\ index' \in Seq(IndexRows) /\ Len(index') <= Keep
    /\ start' \in Starts /\ Capped(queue') /\ lease' \in Leases /\ waiter' \in BOOLEAN
    /\ client' \in Clients /\ (client'.state \in {"on", "waiting", "parting"} => client'.turn \in TurnIds)
    /\ (client'.state = "parting" => client.state = "parting")
    /\ \A t \in TurnIds : turn'[t].stage # "none" => turn'[t].msg \in Messages
    /\ \A i \in DOMAIN order : turn'[order[i]].stage # "none"
    /\ current' \in 0..MaxTurns /\ (current' # 0 => turn'[current'].stage # "none")
    /\ \/ current' = current /\ Len(queue') <= Len(q)
          /\ (current # 0 /\ turn'[current].stage = "pre" => turn[current].stage = "pre")
       \/ current' = used.turns + 1 /\ Len(queue') <= Len(q)

LEMMA TypesGiven ==
    ASSUME TypeInv
    PROVE  /\ turn \in TurnStates /\ journal \in Journals /\ index \in Seq(IndexRows)
           /\ Len(index) <= Keep /\ Capped(queue) /\ start \in Starts /\ client \in Clients
           /\ order \in Seq(TurnIds) /\ lease \in Leases /\ waiter \in BOOLEAN
           /\ scope \in Scopes /\ prompts \in Seq(Messages) /\ asking \in BOOLEAN
           /\ current \in 0..MaxTurns /\ (current # 0 => current \in TurnIds)
           /\ runner \in {"up", "down", "dead"}
           /\ limbo \in Seq(Messages) /\ Len(limbo) \in Nat /\ used.fails \in Nat /\ Dead \in {0, 1}
<1>1. TypeOK /\ used.fails \in Nat
  BY DEF TypeInv, Counts
<1>2. MaxTurns \in Nat
  BY Bounds
<1>3. /\ limbo \in Seq(Messages) /\ Dead \in {0, 1} /\ runner \in {"up", "down", "dead"}
      /\ Capped(queue)
  BY <1>1 DEF TypeOK, Dead, Capped
<1>4. Len(limbo) \in Nat
  BY <1>3, LenProperties
<1>. QED  BY SMTT(20), <1>1, <1>2, <1>3, <1>4 DEF TypeOK, Journals, Starts, Clients, Leases, TurnIds

LEMMA WokenTyped ==
    ASSUME TypeInv
    PROVE  /\ Woken \in Clients /\ Woken.turn = client.turn /\ Woken.seen = client.seen
           /\ (Woken.state \in {"on", "waiting", "parting"} <=> client.state \in {"on", "waiting", "parting"})
           /\ (Woken.state \in {"on", "waiting", "parting"} => Woken.turn \in TurnIds)
           /\ (Woken.state \in {"off", "done", "parting"} => Woken.state = client.state)
<1>1. client \in Clients /\ (client.state \in {"on", "waiting", "parting"} => client.turn \in TurnIds)
  BY TypesGiven DEF TypeInv, Known
<1>. QED  BY <1>1 DEF Woken, Clients

LEMMA ScopeBound ==
    ASSUME TypeInv
    PROVE  used.turns \in Nat /\ used.sends \in Nat /\ used.fails \in Nat /\ used.restarts \in Nat
           /\ used.turns <= MaxTurns
           /\ (used.sends < scope.sends => used.turns < MaxTurns)
           /\ (runner = "up" /\ queue # <<>> => used.turns < MaxTurns)
<1>1. scope \in Scopes /\ Counts /\ queue \in Seq(Messages) /\ Len(limbo) \in Nat
  BY TypesGiven DEF TypeInv, Capped
<1>2. scope.sends \in Nat /\ scope.fails \in Nat /\ scope.sends + scope.fails <= MaxTurns
  BY <1>1, Parameters
<1>3. Len(queue) \in Nat /\ (queue # <<>> => Len(queue) > 0)
  BY <1>1, EmptySeq, LenProperties
<1>. QED  BY <1>1, <1>2, <1>3, Bounds DEF Counts

LEMMA BeginsTyped ==
    ASSUME TypeInv, NEW ts, NEW j, NEW idx, NEW q, NEW l, NEW w, NEW m \in Messages,
           Given(ts, j, idx, q, l, w), used.turns < MaxTurns,
           NEW drained \in BOOLEAN, NEW by \in 0..MaxTurns, NEW q0,
           Len(q) <= Len(q0),
           Begins(m, ts, j, idx, q, l, w, drained, by)
    PROVE  Shaped(q0)
<1>. DEFINE t == used.turns + 1
            new == [msg |-> m, status |-> "running", stage |-> "pre", items |-> <<"turn">>]
<1>1. t \in TurnIds /\ t \in 0..MaxTurns /\ t = used.turns + 1
  BY ScopeBound, Bounds DEF TurnIds
<1>2. <<"turn">> \in Seq(Kinds)
  BY KindsWritten DEF Kinds
<1>3. /\ turn' = [ts EXCEPT ![t] = new] /\ journal' = Stored(j, t, <<"turn">>)
      /\ current' = t /\ start' = [drained |-> drained, fresh |-> l # "mine", by |-> by]
      /\ index' = idx /\ queue' = q /\ lease' = "mine" /\ waiter' = (w /\ l = "mine") /\ client' = Woken
  BY DEF Begins
<1>4. scope \in Scopes /\ order \in Seq(TurnIds) /\ TypeOK /\ Known
  BY TypesGiven DEF TypeInv
<1>5. journal' \in Journals
  BY <1>1, <1>2, <1>3, <1>4, StoredTyped DEF Given
<1>. HIDE DEF t
<1>6. /\ turn' \in TurnStates /\ turn'[t] = new /\ \A u \in TurnIds \ {t} : turn'[u] = ts[u]
  BY <1>1, <1>2, <1>3 DEF Given, TurnStates, Stages
<1>7. \A u \in TurnIds : turn'[u].stage # "none" => turn'[u].msg \in Messages
  BY <1>4, <1>6 DEF Given, Known
<1>8. \A i \in DOMAIN order : turn'[order[i]].stage # "none"
  <2>1. \A i \in DOMAIN order : order[i] \in TurnIds /\ turn[order[i]].stage # "none"
    BY <1>4, LenProperties, ElementOfSeq DEF Known
  <2>. QED  BY <2>1, <1>6 DEF Given
<1>9. start' \in Starts /\ waiter' \in BOOLEAN /\ lease' \in Leases
  <2>1. (l # "mine") \in BOOLEAN
    OBVIOUS
  <2>. QED  BY <2>1, <1>3 DEF Starts, Leases, Given
<1>10. /\ client' \in Clients /\ (client'.state \in {"on", "waiting", "parting"} => client'.turn \in TurnIds)
       /\ (client'.state = "parting" => client.state = "parting")
  BY <1>3, WokenTyped
<1>11. Capped(queue') /\ index' \in Seq(IndexRows) /\ Len(index') <= Keep
  BY <1>3 DEF Given
<1>12. current' \in 0..MaxTurns /\ turn'[current'].stage # "none"
  BY <1>1, <1>3, <1>6
<1>13. current' = used.turns + 1 /\ Len(queue') <= Len(q0)
  BY <1>1, <1>3
<1>. QED  BY <1>5, <1>6, <1>7, <1>8, <1>9, <1>10, <1>11, <1>12, <1>13 DEF Shaped

LEMMA NothingTyped ==
    ASSUME TypeInv, NEW ts, NEW j, NEW idx, NEW q, NEW l, NEW w,
           Given(ts, j, idx, q, l, w), NEW q0, Len(q) <= Len(q0),
           BeginsNothing(ts, j, idx, q, l, w)
    PROVE  Shaped(q0)
<1>1. /\ turn' = ts /\ journal' = j /\ index' = idx /\ queue' = q /\ lease' = l /\ waiter' = w
      /\ current' = current /\ start' = start /\ client' = client
  BY DEF BeginsNothing
<1>2. /\ order \in Seq(TurnIds) /\ Known /\ client \in Clients /\ start \in Starts
      /\ current \in 0..MaxTurns /\ (current # 0 => current \in TurnIds)
  BY TypesGiven DEF TypeInv
<1>3. \A i \in DOMAIN order : turn'[order[i]].stage # "none"
  <2>1. \A i \in DOMAIN order : order[i] \in TurnIds /\ turn[order[i]].stage # "none"
    BY <1>2, LenProperties, ElementOfSeq DEF Known
  <2>. QED  BY <2>1, <1>1 DEF Given
<1>4. \A u \in TurnIds : turn'[u].stage # "none" => turn'[u].msg \in Messages
  BY <1>1, <1>2 DEF Given, Known
<1>5. current' \in 0..MaxTurns /\ (current' # 0 => turn'[current'].stage # "none")
      /\ (current # 0 /\ turn'[current].stage = "pre" => turn[current].stage = "pre")
  BY <1>1, <1>2 DEF Given, Known
<1>6. client'.state \in {"on", "waiting", "parting"} => client'.turn \in TurnIds
  BY <1>1, <1>2 DEF Known
<1>. QED  BY <1>1, <1>2, <1>3, <1>4, <1>5, <1>6 DEF Shaped, Given

LEMMA PassesTyped ==
    ASSUME TypeInv, NEW ts, NEW j, NEW idx, NEW q, NEW l, NEW w,
           Given(ts, j, idx, q, l, w), NEW q0, Len(q) <= Len(q0), order # <<>>,
           PassesThrough(ts, j, idx, q, l, w)
    PROVE  Shaped(q0)
<1>. DEFINE t == Last(order)
            noted == Noted(idx, ts, t)
<1>1. order \in Seq(TurnIds) /\ Known
  BY TypesGiven DEF TypeInv
<1>2. t \in TurnIds /\ turn[t].stage # "none"
  BY <1>1, EmptySeq, LenProperties, ElementOfSeq DEF Last, Known
<1>3. ts[t].msg \in Messages
  BY <1>1, <1>2 DEF Known, Given
<1>4. noted \in Seq(IndexRows) /\ Len(noted) <= Keep
  BY <1>2, <1>3, NotedTyped DEF Given
<1>5. Pruned(j, noted) \in Journals
  BY PrunedTyped DEF Given
<1>6. BeginsNothing(ts, Pruned(j, noted), noted, q, l, w)
  BY DEF PassesThrough
<1>. HIDE DEF noted
<1>7. Given(ts, Pruned(j, noted), noted, q, l, w)
  BY <1>4, <1>5 DEF Given
<1>. QED  BY <1>6, <1>7, NothingTyped

LEMMA StartCases ==
    ASSUME NEW m, NEW ts, NEW j, NEW idx, NEW q, NEW l, NEW w, NEW drained, NEW by,
           StartsOrPasses(m, ts, j, idx, q, l, w, drained, by)
    PROVE  \/ Handled(m) /\ PassesThrough(ts, j, idx, q, l, w)
           \/ ~Handled(m) /\ Begins(m, ts, j, idx, q, l, w, drained, by)
BY DEF StartsOrPasses

LEMMA DrainCases ==
    ASSUME NEW ts, NEW j, NEW idx, NEW q, NEW l, NEW w \in BOOLEAN, NEW by,
           Drains(ts, j, idx, q, l, w, by)
    PROVE  \/ \E v \in BOOLEAN : BeginsNothing(ts, j, idx, q, l, v)
           \/ /\ q # <<>> /\ runner = "up" /\ ~Busy /\ Handled(Head(q))
              /\ PassesThrough(ts, j, idx, Tail(q), l, w)
           \/ /\ q # <<>> /\ runner = "up" /\ ~Busy /\ ~Handled(Head(q)) /\ l # "other"
              /\ Begins(Head(q), ts, j, idx, Tail(q), l, w, TRUE, by)
<1>. USE DEF Drains
<1>1. CASE q = <<>> \/ runner # "up" \/ Busy
  BY <1>1
<1>2. CASE q # <<>> /\ runner = "up" /\ ~Busy /\ l = "other"
  <2>1. \E v \in BOOLEAN : BeginsNothing(ts, j, idx, q, l, v)
    <3>. WITNESS TRUE \in BOOLEAN
    <3>. QED  BY <1>2
  <2>. QED  BY <2>1
<1>3. CASE q # <<>> /\ runner = "up" /\ ~Busy /\ l # "other"
  <2>1. StartsOrPasses(Head(q), ts, j, idx, Tail(q), l, w, TRUE, by)
    BY <1>3
  <2>. QED  BY <2>1, <1>3 DEF StartsOrPasses
<1>. QED  BY <1>1, <1>2, <1>3

LEMMA HandledListed ==
    ASSUME NEW m, Handled(m), ~Busy PROVE order # <<>> /\ turn[Last(order)].msg = m
BY DEF Handled, IsRunning

LEMMA DrainsTyped ==
    ASSUME TypeInv, NEW ts, NEW j, NEW idx, NEW q, NEW l, NEW w,
           Given(ts, j, idx, q, l, w), runner = "up" /\ q # <<>> => used.turns < MaxTurns,
           NEW by \in 0..MaxTurns, Drains(ts, j, idx, q, l, w, by)
    PROVE  Shaped(q) /\ (current' = current \/ (runner = "up" /\ Len(queue') < Len(q)))
<1>1. q \in Seq(Messages) /\ Len(q) \in Nat
  BY LenProperties DEF Given, Capped
<1>2. w \in BOOLEAN
  BY DEF Given
<1>3. ASSUME NEW v \in BOOLEAN, BeginsNothing(ts, j, idx, q, l, v) PROVE Shaped(q) /\ current' = current
  <2>1. Given(ts, j, idx, q, l, v)
    BY DEF Given
  <2>. QED  BY <2>1, <1>1, <1>3, NothingTyped DEF BeginsNothing
<1>4. ASSUME q # <<>>, runner = "up"
      PROVE  /\ Given(ts, j, idx, Tail(q), l, w) /\ Head(q) \in Messages
             /\ Len(Tail(q)) < Len(q) /\ Len(Tail(q)) <= Len(q) /\ used.turns < MaxTurns
  <2>1. Head(q) \in Messages /\ Tail(q) \in Seq(Messages) /\ Len(Tail(q)) = Len(q) - 1
    BY <1>1, <1>4, HeadTailProperties
  <2>2. /\ Len(limbo) \in Nat /\ used.fails \in Nat /\ Dead \in {0, 1} /\ Depth \in Nat
        /\ Len(q) + Len(limbo) <= Depth + used.fails + Dead
    BY TypesGiven, Bounds DEF Given, Capped
  <2>3. Capped(Tail(q))
    BY <2>1, <2>2, <1>1 DEF Capped
  <2>. QED  BY <2>1, <2>3, <1>1, <1>4 DEF Given
<1>5. CASE q # <<>> /\ runner = "up" /\ ~Busy /\ Handled(Head(q)) /\ PassesThrough(ts, j, idx, Tail(q), l, w)
  <2>1. current' = current
    BY <1>5 DEF PassesThrough, BeginsNothing
  <2>. QED  BY <2>1, <1>4, <1>5, HandledListed, PassesTyped
<1>6. CASE q # <<>> /\ runner = "up" /\ Begins(Head(q), ts, j, idx, Tail(q), l, w, TRUE, by)
  <2>1. Len(queue') < Len(q)
    BY <1>4, <1>6 DEF Begins
  <2>. QED  BY <2>1, <1>4, <1>6, BeginsTyped
<1>. QED  BY <1>2, <1>3, <1>5, <1>6, DrainCases

LEMMA ShapedTyped ==
    ASSUME TypeInv, NEW q0, Capped(q0), Shaped(q0),
           UNCHANGED <<runner, order, asking, limbo, leaving, prompts, scope>>,
           used' \in Uses,
           current' = current => used'.turns = used.turns,
           current' # current => used'.turns = used.turns + 1,
           used'.fails = used.fails, used'.sends <= scope.sends,
           used'.turns + (IF runner = "up" THEN Len(queue') + Len(limbo) ELSE 0)
             <= used'.sends + used'.fails,
           runner # "up" => current' = current /\ Len(queue') <= Len(queue)
    PROVE  TypeInv'
<1>1. /\ order \in Seq(TurnIds) /\ scope \in Scopes /\ prompts \in Seq(Messages) /\ asking \in BOOLEAN
      /\ runner \in {"up", "down", "dead"} /\ TypeOK /\ Counts /\ Alone
      /\ current \in 0..MaxTurns /\ (current # 0 => current \in TurnIds)
      /\ limbo \in Seq(Messages) /\ Len(limbo) \in Nat /\ used.fails \in Nat /\ Dead \in {0, 1}
  BY TypesGiven DEF TypeInv
<1>2. TypeOK'
  <2>1. /\ turn' \in TurnStates /\ journal' \in Journals /\ index' \in Seq(IndexRows) /\ Len(index') <= Keep
        /\ start' \in Starts /\ Capped(queue') /\ lease' \in Leases /\ waiter' \in BOOLEAN
        /\ client' \in Clients /\ current' \in 0..MaxTurns
    BY DEF Shaped
  <2>2. /\ queue' \in Seq(Messages)
        /\ Len(queue') + Len(limbo') <= Depth + used'.fails + (IF runner' = "dead" THEN 1 ELSE 0)
    BY <2>1 DEF Capped, Dead
  <2>3. /\ order' \in Seq(TurnIds) /\ Len(order') <= RamKeep /\ limbo' \in Seq(Messages)
        /\ leaving' \in Leavings /\ runner' \in {"up", "down", "dead"} /\ asking' \in BOOLEAN
        /\ prompts' \in Seq(Messages) /\ scope' \in Scopes
    BY <1>1 DEF TypeOK, Leavings
  <2>. QED  BY <2>1, <2>2, <2>3 DEF TypeOK, Journals, Leavings, Starts, Leases, Clients
<1>3. Known'
  <2>1. Parted(leaving)'
    BY DEF TypeInv, Known, Parted, Leavings
  <2>. QED  BY <2>1 DEF Shaped, Known
<1>4. /\ used.turns \in Nat /\ current <= used.turns
      /\ (Starting <=> (current # 0 /\ turn[current].stage = "pre"))
      /\ (Starting' <=> (current' # 0 /\ turn'[current'].stage = "pre"))
  BY <1>1 DEF Counts, Starting
<1>5. Starting' => Len(limbo) <= used.fails /\ Len(queue') + Len(limbo) <= Depth + used.fails
  <2>1. CASE runner = "dead"
    <3>1. Starting' => Starting
      BY <1>4, <2>1 DEF Shaped
    <3>2. Capped(queue) /\ Capped(queue')
      BY TypesGiven DEF Shaped
    <3>3. Len(queue) \in Nat /\ Len(queue') \in Nat
      BY <3>2, LenProperties DEF Capped
    <3>. QED  BY SMTT(30), <2>1, <3>1, <3>3, <1>1, Bounds DEF Counts
  <2>2. CASE runner # "dead"
    <3>1. Dead = 0 /\ Capped(queue')
      BY <2>2 DEF Dead, Shaped
    <3>2. Len(queue') \in Nat
      BY <3>1, LenProperties DEF Capped
    <3>. QED  BY <3>1, <3>2, <1>1, Bounds DEF Counts, Capped
  <2>. QED  BY <2>1, <2>2
<1>6. current' <= used'.turns
  <2>1. current' = current \/ current' = used.turns + 1
    BY DEF Shaped
  <2>. QED  BY <2>1, <1>1, <1>4
<1>7. Counts'
  BY <1>1, <1>5, <1>6 DEF Counts, Dead, Uses
<1>8. Alone'
  BY <1>1 DEF Alone, Shaped
<1>. QED  BY <1>2, <1>3, <1>7, <1>8 DEF TypeInv

\* What enqueue hands to a start.
LEMMA MarkedGiven ==
    ASSUME TypeInv, NEW m \in Messages, m \notin ToSet(queue), ~IsFull(queue)
    PROVE  /\ Append(queue, m) \in Seq(Messages) /\ Len(Append(queue, m)) = Len(queue) + 1
           /\ Len(queue) \in Nat /\ Len(queue) < Depth /\ Append(queue, m) # <<>>
           /\ Given(turn, journal, index, Append(queue, m), lease, waiter)
           /\ current # 0 => Given(Noting(turn, current, <<"queued">>),
                                   Stored(journal, current, <<"queued">>), index,
                                   Append(queue, m), lease, waiter)
<1>0. queue \in Seq(Messages) /\ Len(queue) \in Nat /\ Depth \in Nat
  BY TypesGiven, LenProperties, Bounds DEF Capped
<1>1. /\ Append(queue, m) \in Seq(Messages) /\ Len(Append(queue, m)) = Len(queue) + 1
      /\ Append(queue, m) # <<>>
  BY <1>0, AppendProperties
<1>2. Len(queue) < Depth
  BY <1>0 DEF IsFull
<1>3. Capped(Append(queue, m))
  <2>1. Len(limbo) <= used.fails + Dead
    BY DEF TypeInv, Counts
  <2>. QED  BY <2>1, <1>0, <1>1, <1>2, TypesGiven DEF Capped
<1>4. Given(turn, journal, index, Append(queue, m), lease, waiter)
  BY <1>3, TypesGiven DEF Given
<1>5. ASSUME current # 0
      PROVE  Given(Noting(turn, current, <<"queued">>), Stored(journal, current, <<"queued">>),
                   index, Append(queue, m), lease, waiter)
  <2>1. current \in TurnIds /\ turn \in TurnStates /\ journal \in Journals /\ scope \in Scopes
    BY <1>5, TypesGiven
  <2>2. <<"queued">> \in Seq(Kinds)
    BY KindsWritten DEF Kinds
  <2>3. Stored(journal, current, <<"queued">>) \in Journals
    BY <2>1, <2>2, StoredTyped
  <2>4. PICK ts : ts = Noting(turn, current, <<"queued">>)
    OBVIOUS
  <2>5. ts \in TurnStates /\ \A t \in TurnIds : ts[t].msg = turn[t].msg /\ ts[t].stage = turn[t].stage
    BY <2>1, <2>2, <2>4, NotingFacts, NotingKeeps
  <2>6. Given(ts, Stored(journal, current, <<"queued">>), index, Append(queue, m), lease, waiter)
    BY <2>3, <2>5, <1>4 DEF Given
  <2>. QED  BY <2>4, <2>6
<1>. QED  BY <1>0, <1>1, <1>2, <1>4, <1>5

\* enqueue adds the message to the queue, or leaves it as it is; and drains it.
LEMMA QueueCases ==
    ASSUME NEW m, NEW w, Queues(m, w)
    PROVE  \E q, ts, j :
              /\ \/ q = queue /\ ts = turn /\ j = journal
                 \/ /\ m \notin ToSet(queue) /\ ~Handled(m) /\ ~IsFull(queue) /\ q = Append(queue, m)
                    /\ \/ current = 0 /\ ts = turn /\ j = journal
                       \/ /\ current # 0 /\ ts = Noting(turn, current, <<"queued">>)
                          /\ j = Stored(journal, current, <<"queued">>)
              /\ \/ BeginsNothing(ts, j, index, q, lease, w \/ waiter)
                 \/ ~Busy /\ Drains(ts, j, index, q, lease, waiter, 0)
<1>. DEFINE new == m \notin ToSet(queue) /\ ~Handled(m) /\ ~IsFull(queue)
            marks == new /\ current # 0
            ts == IF marks THEN Noting(turn, current, <<"queued">>) ELSE turn
            j == IF marks THEN Stored(journal, current, <<"queued">>) ELSE journal
            q == IF new THEN Append(queue, m) ELSE queue
            refused == ~new /\ m \notin ToSet(queue) /\ ~Handled(m)
<1>1. IF Busy \/ w \/ refused THEN BeginsNothing(ts, j, index, q, lease, w \/ waiter)
      ELSE Drains(ts, j, index, q, lease, waiter, 0)
  BY DEF Queues
<1>2. /\ new => m \notin ToSet(queue) /\ ~Handled(m) /\ ~IsFull(queue) /\ q = Append(queue, m)
      /\ ~new => q = queue /\ ts = turn /\ j = journal
      /\ new /\ current = 0 => ts = turn /\ j = journal
      /\ new /\ current # 0 => /\ ts = Noting(turn, current, <<"queued">>)
                              /\ j = Stored(journal, current, <<"queued">>)
  OBVIOUS
<1>. HIDE DEF q, ts, j, new, refused
<1>. WITNESS q, ts, j
<1>. QED  BY <1>1, <1>2

LEMMA QueuesTyped ==
    ASSUME TypeInv, NEW m \in Messages, NEW w \in BOOLEAN, Queues(m, w), used.turns < MaxTurns
    PROVE  \E q : /\ Capped(q) /\ Shaped(q) /\ Len(q) <= Len(queue) + 1
                  /\ \/ current' = current
                     \/ runner = "up" /\ Len(queue') < Len(q)
<1>1. PICK q, ts, j :
              /\ \/ q = queue /\ ts = turn /\ j = journal
                 \/ /\ m \notin ToSet(queue) /\ ~Handled(m) /\ ~IsFull(queue) /\ q = Append(queue, m)
                    /\ \/ current = 0 /\ ts = turn /\ j = journal
                       \/ /\ current # 0 /\ ts = Noting(turn, current, <<"queued">>)
                          /\ j = Stored(journal, current, <<"queued">>)
              /\ \/ BeginsNothing(ts, j, index, q, lease, w \/ waiter)
                 \/ ~Busy /\ Drains(ts, j, index, q, lease, waiter, 0)
  BY QueueCases
<1>2. Given(turn, journal, index, queue, lease, waiter)
  BY TypesGiven DEF Given
<1>3. /\ Given(ts, j, index, q, lease, waiter) /\ Len(q) \in Nat
      /\ (q = queue \/ (Len(q) = Len(queue) + 1 /\ Len(queue) < Depth)) /\ Len(queue) \in Nat
  <2>1. queue \in Seq(Messages) /\ Len(queue) \in Nat
    BY TypesGiven, LenProperties DEF Capped
  <2>2. CASE q = queue /\ ts = turn /\ j = journal
    BY <2>1, <2>2, <1>2
  <2>3. CASE m \notin ToSet(queue) /\ ~IsFull(queue) /\ q = Append(queue, m)
             /\ current = 0 /\ ts = turn /\ j = journal
    BY <2>1, <2>3, MarkedGiven
  <2>4. CASE m \notin ToSet(queue) /\ ~IsFull(queue) /\ q = Append(queue, m)
             /\ current # 0 /\ ts = Noting(turn, current, <<"queued">>)
             /\ j = Stored(journal, current, <<"queued">>)
    BY <2>1, <2>4, MarkedGiven
  <2>. QED  BY <1>1, <2>2, <2>3, <2>4
<1>4. Shaped(q) /\ (current' = current \/ (runner = "up" /\ Len(queue') < Len(q)))
  <2>1. ASSUME BeginsNothing(ts, j, index, q, lease, w \/ waiter) PROVE Shaped(q) /\ current' = current
    <3>1. PICK v : v = (w \/ waiter)
      OBVIOUS
    <3>2. v \in BOOLEAN /\ Given(ts, j, index, q, lease, v) /\ BeginsNothing(ts, j, index, q, lease, v)
      BY <3>1, <2>1, <1>3, TypesGiven DEF Given
    <3>. QED  BY <3>2, <1>3, NothingTyped DEF BeginsNothing
  <2>2. 0 \in 0..MaxTurns
    BY Bounds
  <2>3. ASSUME Drains(ts, j, index, q, lease, waiter, 0)
        PROVE  Shaped(q) /\ (current' = current \/ (runner = "up" /\ Len(queue') < Len(q)))
    BY <2>2, <2>3, <1>3, DrainsTyped
  <2>. QED  BY <1>1, <2>1, <2>3
<1>5. Capped(q) /\ Len(q) <= Len(queue) + 1
  BY <1>3 DEF Given
<1>. QED  BY <1>4, <1>5

LEMMA BegunFacts ==
    ASSUME used \in Uses
    PROVE  /\ Begun \in Uses /\ Begun.sends = used.sends /\ Begun.fails = used.fails
           /\ Begun.restarts = used.restarts
           /\ (current' = current => Begun.turns = used.turns)
           /\ (current' # current => Begun.turns = used.turns + 1)
<1>1. CASE current' = current
  <2>1. Begun = [used EXCEPT !.turns = used.turns]
    BY <1>1 DEF Begun
  <2>. QED  BY <2>1, <1>1 DEF Uses
<1>2. CASE current' # current
  <2>1. Begun = [used EXCEPT !.turns = used.turns + 1]
    BY <1>2 DEF Begun
  <2>. QED  BY <2>1, <1>2 DEF Uses
<1>. QED  BY <1>1, <1>2

LEMMA CountedSends ==
    ASSUME used \in Uses, Counted("sends")
    PROVE  /\ used' \in Uses /\ used'.sends = used.sends + 1 /\ used'.fails = used.fails
           /\ (current' = current => used'.turns = used.turns)
           /\ (current' # current => used'.turns = used.turns + 1)
<1>1. used' = [Begun EXCEPT !.sends = Begun.sends + 1]
  BY DEF Counted
<1>2. PICK b : b = Begun
  OBVIOUS
<1>3. used' = [b EXCEPT !.sends = b.sends + 1] /\ b \in Uses
  BY <1>1, <1>2, BegunFacts
<1>4. /\ used' \in Uses /\ used'.sends = b.sends + 1 /\ used'.fails = b.fails /\ used'.turns = b.turns
  BY <1>3 DEF Uses
<1>. QED  BY <1>2, <1>4, BegunFacts

LEMMA ShapedQueue ==
    ASSUME TypeInv, NEW q, Capped(q), Shaped(q)
    PROVE  /\ Len(queue) \in Nat /\ Len(q) \in Nat /\ Len(queue') \in Nat
           /\ Len(queue') <= Len(q)
<1>1. Capped(queue') /\ Len(queue') <= Len(q)
  BY DEF Shaped
<1>2. queue' \in Seq(Messages) /\ q \in Seq(Messages)
  BY <1>1 DEF Capped
<1>3. queue \in Seq(Messages)
  BY TypesGiven DEF Capped
<1>. QED  BY <1>1, <1>2, <1>3, LenProperties

LEMMA SendQueuesTyped ==
    ASSUME TypeInv, NEW m \in Messages, SendQueues(m) PROVE TypeInv'
<1>1. /\ Queues(m, FALSE) /\ used.sends < scope.sends
      /\ UNCHANGED <<runner, order, asking, limbo, leaving, prompts, scope>>
      /\ Counted("sends")
  BY DEF SendQueues, Bounded
<1>2. /\ used \in Uses /\ used.turns < MaxTurns
      /\ scope.sends \in Nat
      /\ used.turns + (IF runner = "up" THEN Len(queue) + Len(limbo) ELSE 0) <= used.sends + used.fails
  BY <1>1, ScopeBound, TypesGiven, Parameters DEF TypeInv, Counts, Uses
<1>3. PICK q : /\ Capped(q) /\ Shaped(q) /\ Len(q) <= Len(queue) + 1
               /\ \/ current' = current
                  \/ runner = "up" /\ Len(queue') < Len(q)
  BY <1>1, <1>2, QueuesTyped
<1>4. /\ used' \in Uses
      /\ (current' = current => used'.turns = used.turns)
      /\ (current' # current => used'.turns = used.turns + 1)
      /\ used'.fails = used.fails /\ used'.sends = used.sends + 1 /\ used'.sends <= scope.sends
  BY <1>1, <1>2, CountedSends DEF Uses
<1>5. /\ Len(queue) \in Nat /\ Len(queue') \in Nat /\ Len(q) \in Nat /\ Len(queue') <= Len(q)
      /\ Len(limbo) \in Nat
  BY <1>3, ShapedQueue, TypesGiven
<1>6. used'.turns + (IF runner = "up" THEN Len(queue') + Len(limbo) ELSE 0) <= used'.sends + used'.fails
  <2>1. used.turns \in Nat /\ used.sends \in Nat /\ used.fails \in Nat
    BY <1>2 DEF Uses
  <2>2. CASE runner = "up"
    <3>1. used.turns + (Len(queue) + Len(limbo)) <= used.sends + used.fails
      BY <2>2, <1>2
    <3>2. used'.turns + (Len(queue') + Len(limbo)) <= used'.sends + used'.fails
      <4>1. CASE current' = current
        BY <4>1, <3>1, <2>1, <1>3, <1>4, <1>5
      <4>2. CASE current' # current
        BY SMTT(20), <4>2, <3>1, <2>1, <1>3, <1>4, <1>5
      <4>. QED  BY <4>1, <4>2
    <3>. QED  BY <2>2, <3>2
  <2>3. CASE runner # "up"
    BY <2>1, <2>3, <1>2, <1>3, <1>4
  <2>. QED  BY <2>2, <2>3
<1>7. runner = "up"
  BY DEF SendQueues
<1>. QED  BY <1>1, <1>3, <1>4, <1>6, <1>7, ShapedTyped

LEMMA SendStartsTyped ==
    ASSUME TypeInv, NEW m \in Messages, SendStarts(m) PROVE TypeInv'
<1>1. /\ used.sends < scope.sends /\ runner = "up" /\ ~Busy
      /\ UNCHANGED <<runner, order, asking, limbo, leaving, prompts, scope>>
      /\ Counted("sends")
      /\ \/ Queues(m, TRUE)
         \/ StartsOrPasses(m, turn, journal, index, queue, lease, waiter, FALSE, 0)
  BY DEF SendStarts, Bounded
<1>2. /\ used \in Uses /\ used.turns < MaxTurns
      /\ scope.sends \in Nat
      /\ used.turns + (IF runner = "up" THEN Len(queue) + Len(limbo) ELSE 0) <= used.sends + used.fails
  BY <1>1, ScopeBound, TypesGiven, Parameters DEF TypeInv, Counts, Uses
<1>3. ASSUME StartsOrPasses(m, turn, journal, index, queue, lease, waiter, FALSE, 0)
      PROVE  /\ Capped(queue) /\ Shaped(queue)
  <2>1. Given(turn, journal, index, queue, lease, waiter) /\ Len(queue) \in Nat
    BY TypesGiven, LenProperties DEF Given, Capped
  <2>2. CASE Handled(m) /\ PassesThrough(turn, journal, index, queue, lease, waiter)
    <3>1. queue' = queue
      BY <2>2 DEF PassesThrough, BeginsNothing
    <3>. QED  BY <3>1, <2>1, <2>2, <1>1, HandledListed, PassesTyped DEF Given, TypeInv, Counts
  <2>3. CASE Begins(m, turn, journal, index, queue, lease, waiter, FALSE, 0)
    <3>1. queue' = queue /\ 0 \in 0..MaxTurns
      BY <2>3, Bounds DEF Begins
    <3>2. \A d \in BOOLEAN : d = FALSE /\ Begins(m, turn, journal, index, queue, lease, waiter, d, 0)
                => Shaped(queue)
      BY <3>1, <2>1, <1>2, BeginsTyped
    <3>. QED  BY <3>1, <3>2, <2>1, <2>3 DEF Given, TypeInv, Counts
  <2>. QED  BY <1>3, <2>2, <2>3, StartCases
<1>4. PICK q : /\ Capped(q) /\ Shaped(q)
               /\ \/ q = queue
                  \/ /\ Len(q) <= Len(queue) + 1
                     /\ \/ current' = current
                        \/ runner = "up" /\ Len(queue') < Len(q)
  <2>1. CASE StartsOrPasses(m, turn, journal, index, queue, lease, waiter, FALSE, 0)
    BY <1>3, <2>1
  <2>2. CASE Queues(m, TRUE)
    <3>4. PICK q : /\ Capped(q) /\ Shaped(q) /\ Len(q) <= Len(queue) + 1
                   /\ \/ current' = current
                      \/ runner = "up" /\ Len(queue') < Len(q)
      BY <2>2, <1>2, QueuesTyped
    <3>. WITNESS q
    <3>. QED  BY <3>4
  <2>. QED  BY <1>1, <2>1, <2>2
<1>5. /\ used' \in Uses
      /\ (current' = current => used'.turns = used.turns)
      /\ (current' # current => used'.turns = used.turns + 1)
      /\ used'.fails = used.fails /\ used'.sends = used.sends + 1 /\ used'.sends <= scope.sends
  BY <1>1, <1>2, CountedSends DEF Uses
<1>6. /\ Len(queue) \in Nat /\ Len(queue') \in Nat /\ Len(q) \in Nat /\ Len(queue') <= Len(q)
      /\ Len(limbo) \in Nat
  BY <1>4, ShapedQueue, TypesGiven
<1>7. used'.turns + (IF runner = "up" THEN Len(queue') + Len(limbo) ELSE 0) <= used'.sends + used'.fails
  <2>1. used.turns \in Nat /\ used.sends \in Nat /\ used.fails \in Nat
    BY <1>2 DEF Uses
  <2>2. used.turns + (Len(queue) + Len(limbo)) <= used.sends + used.fails
    BY <1>1, <1>2
  <2>3. used'.turns + (Len(queue') + Len(limbo)) <= used'.sends + used'.fails
    <3>1. CASE current' = current
      BY SMTT(20), <2>1, <2>2, <3>1, <1>4, <1>5, <1>6
    <3>2. CASE current' # current
      <4>1. q = queue \/ (Len(queue') < Len(q) /\ Len(q) <= Len(queue) + 1)
        BY <3>2, <1>4
      <4>2. Len(queue') <= Len(queue)
        BY <4>1, <1>6
      <4>. QED  BY SMTT(20), <2>1, <2>2, <3>2, <4>2, <1>5, <1>6
    <3>. QED  BY <3>1, <3>2
  <2>. QED  BY <1>1, <2>3
<1>. QED  BY <1>1, <1>4, <1>5, <1>7, ShapedTyped

\* The turns of a bookkeeping that hands on.
Handing(t) == [Noting(turn, t, <<"post">>) EXCEPT ![t].stage = "handing"]

LEMMA HandingFacts ==
    ASSUME turn \in TurnStates, NEW t \in TurnIds
    PROVE  /\ Handing(t) \in TurnStates
           /\ \A u \in TurnIds \ {t} : Handing(t)[u] = turn[u]
           /\ Handing(t)[t].stage = "handing" /\ Handing(t)[t].msg = turn[t].msg
           /\ Handing(t)[t].status = turn[t].status
           /\ Handing(t)[t].items = turn[t].items \o <<"post">>
<1>1. <<"post">> \in Seq(Kinds) /\ "handing" \in Stages
  BY KindsWritten DEF Kinds, Stages
<1>2. PICK ts : ts = Noting(turn, t, <<"post">>)
  OBVIOUS
<1>3. /\ ts \in TurnStates /\ \A u \in TurnIds \ {t} : ts[u] = turn[u]
      /\ ts[t].msg = turn[t].msg /\ ts[t].status = turn[t].status
      /\ ts[t].items = turn[t].items \o <<"post">>
  BY <1>1, <1>2, NotingFacts
<1>4. Handing(t) = [ts EXCEPT ![t].stage = "handing"]
  BY <1>2 DEF Handing
<1>5. PICK hs : hs = Handing(t)
  OBVIOUS
<1>6. /\ hs \in TurnStates /\ \A u \in TurnIds \ {t} : hs[u] = ts[u]
      /\ hs[t].stage = "handing" /\ hs[t].msg = ts[t].msg
      /\ hs[t].status = ts[t].status /\ hs[t].items = ts[t].items
  <2>1. hs = [ts EXCEPT ![t].stage = "handing"]
    BY <1>4, <1>5
  <2>. QED  BY <1>1, <1>3, <2>1 DEF TurnStates
<1>. QED  BY <1>3, <1>5, <1>6

\* A drain that is not asked for by a request.
LEMMA FreeDrainTyped ==
    ASSUME TypeInv, NEW ts, NEW j, NEW idx, NEW l, NEW w, NEW by \in 0..MaxTurns,
           Given(ts, j, idx, queue, l, w),
           Drains(ts, j, idx, queue, l, w, by) \/ BeginsNothing(ts, j, idx, queue, l, w),
           used' = Begun, UNCHANGED <<runner, order, asking, limbo, leaving, prompts, scope>>
    PROVE  TypeInv'
<1>1. /\ used \in Uses /\ used.sends <= scope.sends
      /\ used.turns + (IF runner = "up" THEN Len(queue) + Len(limbo) ELSE 0) <= used.sends + used.fails
      /\ (runner = "up" /\ queue # <<>> => used.turns < MaxTurns)
  BY ScopeBound DEF TypeInv, Counts, Uses
<1>2. Len(queue) \in Nat /\ Capped(queue) /\ Len(limbo) \in Nat
  BY TypesGiven, LenProperties DEF Capped
<1>3. Shaped(queue) /\ (current' = current \/ (runner = "up" /\ Len(queue') < Len(queue)))
  <2>1. CASE Drains(ts, j, idx, queue, l, w, by)
    BY <1>1, <2>1, DrainsTyped
  <2>2. CASE BeginsNothing(ts, j, idx, queue, l, w)
    BY <1>2, <2>2, NothingTyped DEF BeginsNothing
  <2>. QED  BY <2>1, <2>2
<1>4. Len(queue') \in Nat /\ Len(queue') <= Len(queue)
  BY <1>2, <1>3, ShapedQueue
<1>5. /\ used' \in Uses /\ used'.sends = used.sends /\ used'.fails = used.fails
      /\ (current' = current => used'.turns = used.turns)
      /\ (current' # current => used'.turns = used.turns + 1)
  BY <1>1, BegunFacts
<1>6. used'.sends <= scope.sends
  BY <1>1, <1>5
<1>7. used'.turns + (IF runner = "up" THEN Len(queue') + Len(limbo) ELSE 0) <= used'.sends + used'.fails
  <2>1. used.turns \in Nat /\ used.sends \in Nat /\ used.fails \in Nat
    BY <1>1 DEF Uses
  <2>2. CASE runner = "up"
    <3>1. used.turns + (Len(queue) + Len(limbo)) <= used.sends + used.fails
      BY <2>2, <1>1
    <3>2. CASE current' = current
      BY <3>1, <3>2, <2>1, <2>2, <1>2, <1>4, <1>5
    <3>3. CASE current' # current
      BY <3>1, <3>3, <2>1, <2>2, <1>2, <1>3, <1>4, <1>5
    <3>. QED  BY <3>2, <3>3
  <2>3. CASE runner # "up"
    BY <2>1, <2>3, <1>1, <1>3, <1>5
  <2>. QED  BY <2>2, <2>3
<1>. QED  BY <1>2, <1>3, <1>4, <1>5, <1>6, <1>7, ShapedTyped

LEMMA PostFacts ==
    ASSUME TypeInv, NEW t \in TurnIds, turn[t].stage # "none"
    PROVE  /\ <<"post">> \in Seq(Kinds) /\ Stored(journal, t, <<"post">>) \in Journals
           /\ Noted(index, Handing(t), t) \in Seq(IndexRows) /\ Len(Noted(index, Handing(t), t)) <= Keep
<1>1. /\ turn \in TurnStates /\ journal \in Journals /\ index \in Seq(IndexRows) /\ Len(index) <= Keep
      /\ scope \in Scopes
  BY TypesGiven
<1>2. <<"post">> \in Seq(Kinds)
  BY KindsWritten DEF Kinds
<1>3. Handing(t) \in TurnStates /\ Handing(t)[t].msg \in Messages
  BY <1>1, HandingFacts DEF TypeInv, Known
<1>. QED  BY <1>1, <1>2, <1>3, StoredTyped, NotedTyped

LEMMA BookkeepingTyped ==
    ASSUME TypeInv, NEW t \in TurnIds, BookkeepingDone(t) PROVE TypeInv'
<1>1. /\ turn[t].stage = "post" /\ UNCHANGED <<runner, order, asking, limbo, leaving, prompts, scope>> /\ used' = Begun
      /\ Drains(Handing(t), Stored(journal, t, <<"post">>), Noted(index, Handing(t), t), queue,
                IF lease = "mine" THEN "free" ELSE lease, waiter, t)
  BY DEF BookkeepingDone, Handing
<1>2. PICK l : l = IF lease = "mine" THEN "free" ELSE lease
  OBVIOUS
<1>3. l \in Leases /\ waiter \in BOOLEAN /\ Capped(queue) /\ turn \in TurnStates
  BY <1>2, TypesGiven DEF Leases
<1>4. t \in 0..MaxTurns
  BY Bounds DEF TurnIds
<1>5. /\ Handing(t) \in TurnStates
      /\ \A u \in TurnIds : /\ Handing(t)[u].msg = turn[u].msg
                            /\ (Handing(t)[u].stage = "none" <=> turn[u].stage = "none")
                            /\ (Handing(t)[u].stage = "pre" => turn[u].stage = "pre")
  <2>1. Handing(t) \in TurnStates
    BY <1>3, HandingFacts
  <2>2. ASSUME NEW u \in TurnIds
        PROVE  /\ Handing(t)[u].msg = turn[u].msg
               /\ (Handing(t)[u].stage = "none" <=> turn[u].stage = "none")
               /\ (Handing(t)[u].stage = "pre" => turn[u].stage = "pre")
    <3>1. CASE u = t
      BY <1>1, <1>3, <3>1, HandingFacts
    <3>2. CASE u # t
      BY <1>3, <3>2, HandingFacts
    <3>. QED  BY <3>1, <3>2
  <2>. QED  BY <2>1, <2>2
<1>6. Given(Handing(t), Stored(journal, t, <<"post">>), Noted(index, Handing(t), t), queue, l, waiter)
  <2>1. turn[t].stage # "none"
    BY <1>1
  <2>. QED  BY <2>1, <1>3, <1>5, PostFacts DEF Given
<1>7. Drains(Handing(t), Stored(journal, t, <<"post">>), Noted(index, Handing(t), t), queue, l, waiter, t)
  BY <1>1, <1>2
<1>. QED  BY <1>1, <1>4, <1>6, <1>7, FreeDrainTyped

LEMMA OtherReleasesTyped ==
    ASSUME TypeInv, OtherReleases PROVE TypeInv'
<1>1. /\ UNCHANGED <<runner, order, asking, limbo, leaving, prompts, scope>> /\ used' = Begun
      /\ \/ Drains(turn, journal, index, queue, "free", FALSE, 0)
         \/ BeginsNothing(turn, journal, index, queue, "free", FALSE)
  BY DEF OtherReleases
<1>2. ASSUME NEW w \in BOOLEAN PROVE Given(turn, journal, index, queue, "free", w)
  BY TypesGiven DEF Given, Leases
<1>3. 0 \in 0..MaxTurns
  BY Bounds
<1>4. ASSUME NEW w \in BOOLEAN, NEW l, l = "free",
             \/ Drains(turn, journal, index, queue, l, w, 0)
             \/ BeginsNothing(turn, journal, index, queue, l, w)
      PROVE  TypeInv'
  BY <1>1, <1>2, <1>3, <1>4, FreeDrainTyped
<1>. QED  BY <1>1, <1>4

-----------------------------------------------------------------------------
(* The steps that begin no turn and forget none.                           *)

\* A step that begins no turn and forgets none.
Steady ==
    /\ runner' \in {"up", "down", "dead"} /\ (runner' = "up" => runner = "up")
    /\ (runner = "dead" => runner' = "dead")
    /\ turn' \in TurnStates
    /\ \A t \in TurnIds : /\ turn'[t].msg = turn[t].msg
                          /\ (turn'[t].stage = "none" <=> turn[t].stage = "none")
                          /\ (turn'[t].stage = "pre" => turn[t].stage = "pre")
    /\ order' \in Seq(TurnIds) /\ Len(order') <= RamKeep
    /\ \A i \in DOMAIN order' : turn[order'[i]].stage # "none"
    /\ current' = current /\ start' \in Starts
    /\ asking' \in BOOLEAN
    /\ queue' \in Seq(Messages) /\ limbo' \in Seq(Messages) /\ Len(limbo') <= Len(limbo)
    /\ Len(queue') + Len(limbo') <= Len(queue) + Len(limbo)
    /\ lease' \in Leases /\ waiter' \in BOOLEAN
    /\ index' \in Seq(IndexRows) /\ Len(index') <= Keep
    /\ journal' \in Journals
    /\ client' \in Clients /\ (client'.state \in {"on", "waiting", "parting"} => client'.turn \in TurnIds)
    /\ Parted(leaving') /\ (scope.hazard # "overlap" => leaving'.posts = {} /\ client'.state # "parting")
    /\ prompts' \in Seq(Messages)
    /\ UNCHANGED <<used, scope>>

LEMMA SteadyTyped == ASSUME TypeInv, Steady PROVE TypeInv'
<1>1. /\ TypeOK /\ Known /\ Counts /\ Capped(queue) /\ scope \in Scopes
      /\ current \in 0..MaxTurns /\ (current # 0 => current \in TurnIds)
  BY TypesGiven DEF TypeInv
<1>2. /\ Len(queue) \in Nat /\ Len(queue') \in Nat /\ Len(limbo) \in Nat /\ Len(limbo') \in Nat
      /\ Len(queue') + Len(limbo') <= Len(queue) + Len(limbo) /\ Len(limbo') <= Len(limbo)
      /\ Depth \in Nat /\ used.fails \in Nat /\ Dead \in {0, 1}
  BY <1>1, TypesGiven, LenProperties, Bounds DEF Capped, Steady
<1>3. used' = used /\ scope' = scope /\ current' = current
  BY DEF Steady
<1>4. /\ queue' \in Seq(Messages)
      /\ Len(queue') + Len(limbo') <= Depth + used.fails + (IF runner' = "dead" THEN 1 ELSE 0)
      /\ Len(limbo') <= used.fails + (IF runner' = "dead" THEN 1 ELSE 0)
  <2>1. Dead <= (IF runner' = "dead" THEN 1 ELSE 0)
    BY <1>2 DEF Dead, Steady
  <2>2. /\ Len(queue) + Len(limbo) <= Depth + used.fails + Dead /\ Len(limbo) <= used.fails + Dead
        /\ queue' \in Seq(Messages)
    BY <1>1 DEF Capped, Counts, Steady
  <2>3. PICK d : d = IF runner' = "dead" THEN 1 ELSE 0
    OBVIOUS
  <2>4. d \in {0, 1} /\ Dead <= d
    BY <2>1, <2>3
  <2>. QED  BY <2>2, <2>3, <2>4, <1>2
<1>5. TypeOK'
  BY <1>1, <1>3, <1>4 DEF TypeOK, Steady, Journals, Starts, Leases, Clients, Parted, Leavings
<1>6. Known'
  <2>1. \A t \in TurnIds : turn'[t].stage # "none" => turn'[t].msg \in Messages
    BY <1>1 DEF Known, Steady
  <2>2. \A i \in DOMAIN order' : turn'[order'[i]].stage # "none"
    <3>1. ASSUME NEW i \in DOMAIN order' PROVE order'[i] \in TurnIds
      BY LenProperties, ElementOfSeq DEF Steady
    <3>. QED  BY <3>1 DEF Steady
  <2>. QED  BY <1>1, <1>3, <2>1, <2>2 DEF Known, Steady
<1>7. Counts'
  <2>1. /\ used \in Uses /\ used.sends <= scope.sends /\ used.fails <= scope.fails
        /\ used.turns + (IF runner = "up" THEN Len(queue) + Len(limbo) ELSE 0) <= used.sends + used.fails
        /\ current <= used.turns
    BY <1>1 DEF Counts, Uses
  <2>2. used.turns + (IF runner' = "up" THEN Len(queue') + Len(limbo') ELSE 0) <= used.sends + used.fails
    <3>1. CASE runner' = "up"
      BY <3>1, <2>1, <1>2 DEF Steady, Uses
    <3>2. CASE runner' # "up"
      BY <3>2, <2>1, <1>2 DEF Uses
    <3>. QED  BY <3>1, <3>2
  <2>3. Starting' => Len(limbo') <= used.fails /\ Len(queue') + Len(limbo') <= Depth + used.fails
    <3>1. Starting' => Starting
      BY <1>1, <1>3 DEF Starting, Steady
    <3>2. Starting => Len(limbo) <= used.fails /\ Len(queue) + Len(limbo) <= Depth + used.fails
      BY <1>1 DEF Counts
    <3>. QED  BY <3>1, <3>2, <1>2
  <2>. QED  BY <1>3, <1>4, <2>1, <2>2, <2>3 DEF Counts, Dead, Uses
<1>8. Alone'
  BY DEF Steady, Alone
<1>. QED  BY <1>5, <1>6, <1>7, <1>8 DEF TypeInv

\* What a steady step leaves alone.
LEMMA Unsteady ==
    ASSUME TypeInv
    PROVE  /\ turn \in TurnStates /\ journal \in Journals /\ index \in Seq(IndexRows)
           /\ Len(index) <= Keep /\ start \in Starts /\ client \in Clients
           /\ queue \in Seq(Messages) /\ Len(queue) \in Nat
           /\ order \in Seq(TurnIds) /\ Len(order) <= RamKeep /\ lease \in Leases /\ waiter \in BOOLEAN
           /\ prompts \in Seq(Messages) /\ asking \in BOOLEAN /\ scope \in Scopes
           /\ runner \in {"up", "down", "dead"}
           /\ \A i \in DOMAIN order : turn[order[i]].stage # "none"
           /\ (client.state \in {"on", "waiting", "parting"} => client.turn \in TurnIds)
           /\ (current # 0 => current \in TurnIds)
           /\ limbo \in Seq(Messages) /\ Len(limbo) \in Nat
           /\ Parted(leaving)
           /\ (scope.hazard # "overlap" => leaving.posts = {} /\ client.state # "parting")
BY TypesGiven, LenProperties DEF TypeInv, Known, Capped, TypeOK, Alone

LEMMA DequeuesTyped == ASSUME TypeInv, NEW m, Dequeues(m) PROVE TypeInv'
<1>1. /\ queue' = Kept(queue, Messages \ {m})
      /\ UNCHANGED <<runner, turn, order, current, start, asking, limbo, lease, waiter, index, journal,
                   leaving, client, prompts, used, scope>>
  BY DEF Dequeues
<1>2. queue' \in Seq(Messages) /\ Len(queue') <= Len(queue)
  BY <1>1, Unsteady, KeptElements
<1>3. Steady
  BY <1>1, <1>2, Unsteady DEF Steady
<1>. QED  BY <1>3, SteadyTyped

LEMMA PutsBackTyped == ASSUME TypeInv, PutsBack PROVE TypeInv'
<1>1. PICK i \in DOMAIN limbo : /\ limbo' = RemoveAt(limbo, i) /\ queue' = <<limbo[i]>> \o queue
                               /\ UNCHANGED <<runner, turn, order, current, start, asking, lease,
                                              waiter, index, journal, leaving, client, prompts, used,
                                              scope>>
  BY DEF PutsBack
<1>2. i \in 1..Len(limbo) /\ limbo[i] \in Messages
  BY Unsteady, LenProperties, ElementOfSeq
<1>3. limbo' \in Seq(Messages) /\ Len(limbo') = Len(limbo) - 1
  <2>1. PICK a, b : a = SubSeq(limbo, 1, i - 1) /\ b = SubSeq(limbo, i + 1, Len(limbo))
    OBVIOUS
  <2>2. \A k \in 1..Len(limbo) : limbo[k] \in Messages
    BY Unsteady, ElementOfSeq
  <2>3. a \in Seq(Messages) /\ Len(a) = i - 1
    BY <1>2, <2>1, <2>2, Unsteady, SubSeqProperties
  <2>4. b \in Seq(Messages) /\ Len(b) = Len(limbo) - i
    BY <1>2, <2>1, <2>2, Unsteady, SubSeqProperties
  <2>5. limbo' = a \o b
    BY <1>1, <2>1 DEF RemoveAt
  <2>6. a \o b \in Seq(Messages) /\ Len(a \o b) = Len(a) + Len(b)
    BY <2>3, <2>4, ConcatProperties
  <2>. QED  BY <2>3, <2>4, <2>5, <2>6, <1>2, Unsteady
<1>4. queue' \in Seq(Messages) /\ Len(queue') = Len(queue) + 1
  <2>1. PICK a : a = <<limbo[i]>>
    OBVIOUS
  <2>2. a \in Seq(Messages) /\ Len(a) = 1
    BY <1>2, <2>1
  <2>3. a \o queue \in Seq(Messages) /\ Len(a \o queue) = Len(a) + Len(queue)
    BY <2>2, Unsteady, ConcatProperties
  <2>. QED  BY <1>1, <2>1, <2>2, <2>3, Unsteady
<1>5. Steady
  BY <1>1, <1>3, <1>4, Unsteady DEF Steady
<1>. QED  BY <1>5, SteadyTyped

LEMMA OtherTakesTyped == ASSUME TypeInv, OtherTakes PROVE TypeInv'
<1>1. Steady
  BY Unsteady DEF OtherTakes, Steady, Leases
<1>. QED  BY <1>1, SteadyTyped

LEMMA AgentExitsTyped == ASSUME TypeInv, AgentExits PROVE TypeInv'
<1>1. Steady
  BY Unsteady DEF AgentExits, Steady
<1>. QED  BY <1>1, SteadyTyped

LEMMA StutterTyped == ASSUME TypeInv, UNCHANGED vars PROVE TypeInv'
<1>1. Steady
  BY Unsteady DEF vars, Steady
<1>. QED  BY <1>1, SteadyTyped

LEMMA FollowsTyped == ASSUME TypeInv, NEW t \in TurnIds, Follows(t) PROVE TypeInv'
<1>1. /\ client' = [turn |-> t, seen |-> IF t = client.turn THEN client.seen ELSE <<>>, state |-> "on"]
      /\ UNCHANGED <<runner, turn, order, current, start, asking, queue, limbo, lease, waiter, index,
                     journal, leaving, prompts, used, scope>>
  BY DEF Follows
<1>2. PICK s : s = IF t = client.turn THEN client.seen ELSE <<>>
  OBVIOUS
<1>3. s \in Seq(Kinds)
  BY <1>2, Unsteady, KindsWritten DEF Clients
<1>4. client' = [turn |-> t, seen |-> s, state |-> "on"] /\ t \in 0..MaxTurns
  BY <1>1, <1>2, Bounds DEF TurnIds
<1>5. client' \in Clients /\ client'.turn = t
  BY <1>3, <1>4 DEF Clients
<1>6. Steady
  BY <1>1, <1>5, Unsteady DEF Steady
<1>. QED  BY <1>6, SteadyTyped

LEMMA FollowGoesOnTyped == ASSUME TypeInv, FollowGoesOn PROVE TypeInv'
<1>. DEFINE items == turn[client.turn].items
            n == Len(client.seen)
<1>1. /\ client.state = "on"
      /\ \/ n < Len(items) /\ client' = [client EXCEPT !.seen = Append(client.seen, items[n + 1])]
         \/ client' = [client EXCEPT !.state = "done"]
         \/ client' = [client EXCEPT !.state = "waiting"]
      /\ UNCHANGED <<runner, turn, order, current, start, asking, queue, limbo, lease, waiter, index,
                     journal, leaving, prompts, used, scope>>
  BY DEF FollowGoesOn
<1>2. client \in Clients /\ client.turn \in TurnIds /\ turn \in TurnStates
  BY <1>1, Unsteady
<1>3. client.seen \in Seq(Kinds) /\ n \in Nat /\ items \in Seq(Kinds) /\ Len(items) \in Nat
  BY <1>2, LenProperties DEF Clients, TurnStates
<1>4. ASSUME n < Len(items) PROVE Append(client.seen, items[n + 1]) \in Seq(Kinds)
  <2>1. n + 1 \in 1..Len(items)
    BY <1>3, <1>4
  <2>2. items[n + 1] \in Kinds
    BY <2>1, <1>3, ElementOfSeq
  <2>. QED  BY <2>2, <1>3, AppendProperties
<1>5. client' \in Clients /\ client'.turn = client.turn /\ client'.state # "parting"
  BY <1>1, <1>2, <1>4 DEF Clients
<1>6. Steady
  BY <1>1, <1>2, <1>5, Unsteady DEF Steady
<1>. QED  BY <1>6, SteadyTyped

\* One turn is noted and moves on, from a stage to another.
LEMMA MovedTyped ==
    ASSUME TypeInv, NEW t \in TurnIds, turn[t].stage # "none", turn' \in TurnStates,
           \A u \in TurnIds \ {t} : turn'[u] = turn[u],
           turn'[t].msg = turn[t].msg, turn'[t].stage \notin {"none", "pre"},
           journal' \in Journals, asking' \in BOOLEAN, client' = Woken,
           UNCHANGED <<runner, order, current, start, queue, limbo, lease, waiter, index, leaving, prompts,
                     used, scope>>
    PROVE  TypeInv'
<1>1. ASSUME NEW u \in TurnIds
      PROVE  /\ turn'[u].msg = turn[u].msg
             /\ (turn'[u].stage = "none" <=> turn[u].stage = "none")
             /\ (turn'[u].stage = "pre" => turn[u].stage = "pre")
  <2>1. CASE u = t
    BY <2>1
  <2>2. CASE u # t
    BY <2>2
  <2>. QED  BY <2>1, <2>2
<1>2. Steady
  BY <1>1, Unsteady, WokenTyped DEF Steady
<1>. QED  BY <1>2, SteadyTyped

LEMMA AgentAsksTyped == ASSUME TypeInv, AgentAsks PROVE TypeInv'
<1>1. /\ Running /\ asking' = TRUE /\ turn' = Noting(turn, current, <<"request">>)
      /\ journal' = Stored(journal, current, <<"request">>) /\ client' = Woken
      /\ UNCHANGED <<runner, order, current, start, queue, limbo, lease, waiter, index, leaving, prompts,
                     used, scope>>
  BY DEF AgentAsks
<1>2. /\ current \in TurnIds /\ turn[current].stage = "run" /\ turn \in TurnStates
      /\ <<"request">> \in Seq(Kinds)
  BY <1>1, Unsteady, KindsWritten DEF Running, Kinds
<1>3. journal' \in Journals /\ asking' \in BOOLEAN
  BY <1>1, <1>2, Unsteady, StoredTyped
<1>4. /\ turn' \in TurnStates /\ \A u \in TurnIds \ {current} : turn'[u] = turn[u]
      /\ turn'[current].msg = turn[current].msg /\ turn'[current].stage = "run"
  BY <1>1, <1>2, NotingFacts
<1>. QED  BY <1>1, <1>2, <1>3, <1>4, MovedTyped

LEMMA RespondsTyped == ASSUME TypeInv, Responds PROVE TypeInv'
<1>1. /\ Running /\ asking' = FALSE /\ turn' = Noting(turn, current, <<"resolved">>)
      /\ journal' = Stored(journal, current, <<"resolved">>) /\ client' = Woken
      /\ UNCHANGED <<runner, order, current, start, queue, limbo, lease, waiter, index, leaving, prompts,
                     used, scope>>
  BY DEF Responds
<1>2. /\ current \in TurnIds /\ turn[current].stage = "run" /\ turn \in TurnStates
      /\ <<"resolved">> \in Seq(Kinds)
  BY <1>1, Unsteady, KindsWritten DEF Running, Kinds
<1>3. journal' \in Journals /\ asking' \in BOOLEAN
  BY <1>1, <1>2, Unsteady, StoredTyped
<1>4. /\ turn' \in TurnStates /\ \A u \in TurnIds \ {current} : turn'[u] = turn[u]
      /\ turn'[current].msg = turn[current].msg /\ turn'[current].stage = "run"
  BY <1>1, <1>2, NotingFacts
<1>. QED  BY <1>1, <1>2, <1>3, <1>4, MovedTyped

\* A turn that is noted and whose status and stage are set.
Staged(ts, t, sg) == [ts EXCEPT ![t].stage = sg]
Ended(ts, t, status) == [ts EXCEPT ![t].status = status]

LEMMA StagedFacts ==
    ASSUME NEW ts \in TurnStates, NEW t \in TurnIds, NEW sg \in Stages
    PROVE  /\ Staged(ts, t, sg) \in TurnStates
           /\ \A u \in TurnIds \ {t} : Staged(ts, t, sg)[u] = ts[u]
           /\ Staged(ts, t, sg)[t].msg = ts[t].msg
           /\ Staged(ts, t, sg)[t].status = ts[t].status
           /\ Staged(ts, t, sg)[t].stage = sg
           /\ Staged(ts, t, sg)[t].items = ts[t].items
BY DEF TurnStates, Staged

LEMMA EndedFacts ==
    ASSUME NEW ts \in TurnStates, NEW t \in TurnIds, NEW status \in Ends \cup {"running"}
    PROVE  /\ Ended(ts, t, status) \in TurnStates
           /\ \A u \in TurnIds \ {t} : Ended(ts, t, status)[u] = ts[u]
           /\ Ended(ts, t, status)[t].msg = ts[t].msg
           /\ Ended(ts, t, status)[t].status = status
           /\ Ended(ts, t, status)[t].stage = ts[t].stage
           /\ Ended(ts, t, status)[t].items = ts[t].items
BY DEF TurnStates, Ended

\* A turn that is noted and whose status and stage are set.
Marked(ts, t, kinds, status, sg) ==
    [Noting(ts, t, kinds) EXCEPT ![t].status = status, ![t].stage = sg]

LEMMA MarkedFacts ==
    ASSUME NEW ts \in TurnStates, NEW t \in TurnIds, NEW kinds \in Seq(Kinds),
           NEW status \in Ends \cup {"running"}, NEW sg \in Stages
    PROVE  /\ Marked(ts, t, kinds, status, sg) \in TurnStates
           /\ \A u \in TurnIds \ {t} : Marked(ts, t, kinds, status, sg)[u] = ts[u]
           /\ Marked(ts, t, kinds, status, sg)[t].msg = ts[t].msg
           /\ Marked(ts, t, kinds, status, sg)[t].status = status
           /\ Marked(ts, t, kinds, status, sg)[t].stage = sg
           /\ Marked(ts, t, kinds, status, sg)[t].items = ts[t].items \o kinds
<1>1. PICK ns : ns = Noting(ts, t, kinds)
  OBVIOUS
<1>2. /\ ns \in TurnStates /\ \A u \in TurnIds \ {t} : ns[u] = ts[u]
      /\ ns[t].msg = ts[t].msg /\ ns[t].items = ts[t].items \o kinds
  BY <1>1, NotingFacts
<1>3. PICK es : es = Ended(ns, t, status)
  OBVIOUS
<1>4. PICK moved : moved = Staged(es, t, sg)
  OBVIOUS
<1>5. moved = [ns EXCEPT ![t].status = status, ![t].stage = sg]
  BY <1>3, <1>4 DEF Staged, Ended
<1>6. /\ es \in TurnStates /\ \A u \in TurnIds \ {t} : es[u] = ns[u]
      /\ es[t].msg = ns[t].msg /\ es[t].status = status /\ es[t].items = ns[t].items
  BY <1>2, <1>3, EndedFacts
<1>7. /\ moved \in TurnStates /\ \A u \in TurnIds \ {t} : moved[u] = es[u]
      /\ moved[t].msg = es[t].msg /\ moved[t].status = es[t].status /\ moved[t].stage = sg
      /\ moved[t].items = es[t].items
  BY <1>4, <1>6, StagedFacts
<1>8. moved = Marked(ts, t, kinds, status, sg)
  BY <1>1, <1>5 DEF Marked
<1>. QED  BY <1>2, <1>6, <1>7, <1>8

\* How a turn ends.
LEMMA EndCases ==
    ASSUME TypeInv, TurnEnds
    PROVE  /\ current \in TurnIds /\ turn[current].stage = "run" /\ runner # "down"
           /\ \E status \in {"finished", "failed"} :
                 /\ <<status>> \o Cancelled \in Seq(Kinds) /\ status \in Ends
                 /\ turn' \in TurnStates /\ \A u \in TurnIds \ {current} : turn'[u] = turn[u]
                 /\ turn'[current].msg = turn[current].msg /\ turn'[current].status = status
                 /\ turn'[current].stage = "post"
                 /\ turn'[current].items = turn[current].items \o (<<status>> \o Cancelled)
                 /\ journal' = Stored(journal, current, <<status>> \o Cancelled)
           /\ asking' = FALSE /\ client' = Woken
           /\ UNCHANGED <<runner, order, current, start, queue, limbo, lease, waiter, index, leaving, prompts,
                     used, scope>>
<1>1. /\ Running /\ runner # "down" /\ asking' = FALSE /\ client' = Woken
      /\ UNCHANGED <<runner, order, current, start, queue, limbo, lease, waiter, index, leaving, prompts,
                     used, scope>>
  BY DEF TurnEnds
<1>2. current \in TurnIds /\ turn[current].stage = "run" /\ turn \in TurnStates
  BY <1>1, Unsteady DEF Running
<1>3. PICK status \in {"finished", "failed"} :
          /\ turn' = [Noting(turn, current, <<status>> \o Cancelled)
                         EXCEPT ![current].status = status, ![current].stage = "post"]
          /\ journal' = Stored(journal, current, <<status>> \o Cancelled)
  BY DEF TurnEnds
<1>4. <<status>> \o Cancelled \in Seq(Kinds) /\ status \in Ends /\ "post" \in Stages
  <2>1. status \in Kinds
    BY DEF Kinds, Ends
  <2>. QED  BY <2>1, KindsWritten DEF Ends, Stages
<1>5. PICK kinds : kinds = <<status>> \o Cancelled
  OBVIOUS
<1>6. /\ turn' \in TurnStates /\ \A u \in TurnIds \ {current} : turn'[u] = turn[u]
      /\ turn'[current].msg = turn[current].msg /\ turn'[current].status = status
      /\ turn'[current].stage = "post" /\ turn'[current].items = turn[current].items \o kinds
  <2>1. PICK sg : sg = "post"
    OBVIOUS
  <2>3. sg \in Stages /\ kinds \in Seq(Kinds) /\ status \in Ends \cup {"running"}
    BY <1>4, <1>5, <2>1
  <2>4. turn' = Marked(turn, current, kinds, status, sg)
    BY <1>3, <1>5, <2>1 DEF Marked
  <2>. QED  BY SMTT(20), <1>2, <2>1, <2>3, <2>4, MarkedFacts
<1>. QED  BY <1>1, <1>2, <1>3, <1>4, <1>5, <1>6

LEMMA TurnEndsTyped == ASSUME TypeInv, TurnEnds PROVE TypeInv'
<1>1. PICK status \in {"finished", "failed"} :
                 /\ <<status>> \o Cancelled \in Seq(Kinds)
                 /\ turn' \in TurnStates /\ \A u \in TurnIds \ {current} : turn'[u] = turn[u]
                 /\ turn'[current].msg = turn[current].msg /\ turn'[current].stage = "post"
                 /\ journal' = Stored(journal, current, <<status>> \o Cancelled)
  BY EndCases
<1>2. journal' \in Journals
  BY <1>1, EndCases, Unsteady, StoredTyped
<1>. QED  BY <1>1, <1>2, EndCases, MovedTyped

LEMMA TurnClosesTyped == ASSUME TypeInv, NEW t \in TurnIds, TurnCloses(t) PROVE TypeInv'
<1>1. /\ turn[t].stage = "handing" /\ turn' = [turn EXCEPT ![t].stage = "closed"] /\ client' = Woken
      /\ UNCHANGED <<runner, order, current, start, asking, queue, limbo, lease, waiter, index, journal,
                     leaving, prompts, used, scope>>
  BY DEF TurnCloses, Closes
<1>2. /\ turn' \in TurnStates /\ \A u \in TurnIds \ {t} : turn'[u] = turn[u]
      /\ turn'[t].msg = turn[t].msg /\ turn'[t].stage = "closed"
  <2>1. "closed" \in Stages
    BY DEF Stages
  <2>2. PICK ts : ts = turn'
    OBVIOUS
  <2>3. ts = [turn EXCEPT ![t].stage = "closed"] /\ turn \in TurnStates
    BY <1>1, <2>2, Unsteady
  <2>4. /\ ts \in TurnStates /\ \A u \in TurnIds \ {t} : ts[u] = turn[u]
        /\ ts[t].msg = turn[t].msg /\ ts[t].stage = "closed"
    BY <2>1, <2>3 DEF TurnStates
  <2>. QED  BY <2>2, <2>4
<1>. QED  BY <1>1, <1>2, Unsteady, MovedTyped

-----------------------------------------------------------------------------
(* The prompt, and a start that fails.                                     *)

LEMMA PromptFacts ==
    ASSUME TypeInv, PromptSent
    PROVE  /\ runner = "up" /\ current \in TurnIds /\ turn[current].stage = "pre"
           /\ turn[current].msg \in Messages /\ <<"pre">> \in Seq(Kinds)
           /\ turn' \in TurnStates /\ \A u \in TurnIds \ {current} : turn'[u] = turn[u]
           /\ turn'[current].msg = turn[current].msg
           /\ turn'[current].status = turn[current].status /\ turn'[current].stage = "run"
           /\ turn'[current].items = turn[current].items \o <<"pre">>
           /\ index' = Noted(index, turn', current)
           /\ journal' = Pruned(Stored(journal, current, <<"pre">>), index')
           /\ order' = Newest(RamKeep, Append(order, current))
           /\ prompts' = Append(prompts, turn[current].msg) /\ start' = Idle /\ client' = Woken
           /\ UNCHANGED <<runner, current, asking, queue, limbo, lease, waiter, leaving, used, scope>>
<1>. DEFINE ts == [Noting(turn, current, <<"pre">>) EXCEPT ![current].stage = "run"]
<1>1. /\ runner = "up" /\ Starting /\ turn' = ts /\ index' = Noted(index, ts, current)
      /\ journal' = Pruned(Stored(journal, current, <<"pre">>), index')
      /\ order' = Newest(RamKeep, Append(order, current))
      /\ prompts' = Append(prompts, turn[current].msg) /\ start' = Idle /\ client' = Woken
      /\ UNCHANGED <<runner, current, asking, queue, limbo, lease, waiter, leaving, used, scope>>
  BY DEF PromptSent
<1>2. current \in TurnIds /\ turn[current].stage = "pre" /\ turn \in TurnStates
      /\ turn[current].msg \in Messages
  BY <1>1, Unsteady DEF Starting, TypeInv, Known
<1>3. <<"pre">> \in Seq(Kinds) /\ "run" \in Stages
  BY KindsWritten DEF Kinds, Stages
<1>4. PICK ns : ns = Noting(turn, current, <<"pre">>)
  OBVIOUS
<1>5. /\ ns \in TurnStates /\ \A u \in TurnIds \ {current} : ns[u] = turn[u]
      /\ ns[current].msg = turn[current].msg /\ ns[current].status = turn[current].status
      /\ ns[current].items = turn[current].items \o <<"pre">>
  BY <1>2, <1>3, <1>4, NotingFacts
<1>6. ts = Staged(ns, current, "run")
  BY <1>4 DEF Staged
<1>. HIDE DEF ts
<1>7. /\ ts \in TurnStates /\ \A u \in TurnIds \ {current} : ts[u] = ns[u]
      /\ ts[current].msg = ns[current].msg /\ ts[current].status = ns[current].status
      /\ ts[current].stage = "run" /\ ts[current].items = ns[current].items
  <2>1. PICK sg : sg = "run"
    OBVIOUS
  <2>. QED  BY <1>2, <1>3, <1>5, <1>6, <2>1, StagedFacts
<1>. QED  BY <1>1, <1>2, <1>3, <1>5, <1>7

LEMMA PromptSentTyped == ASSUME TypeInv, PromptSent PROVE TypeInv'
<1>1. journal' \in Journals
  <2>1. Stored(journal, current, <<"pre">>) \in Journals
    BY PromptFacts, Unsteady, StoredTyped
  <2>. QED  BY <2>1, PromptFacts, PrunedTyped
<1>2. index' \in Seq(IndexRows) /\ Len(index') <= Keep
  BY PromptFacts, Unsteady, NotedTyped
<1>3. PICK o : o = Append(order, current)
  OBVIOUS
<1>4. /\ o \in Seq(TurnIds) /\ Len(o) = Len(order) + 1
      /\ \A i \in 1..Len(o) : turn[o[i]].stage # "none"
  <2>1. /\ o \in Seq(TurnIds) /\ Len(o) = Len(order) + 1
        /\ \A i \in 1..Len(order) : o[i] = order[i]
        /\ o[Len(order) + 1] = current /\ Len(order) \in Nat
    BY <1>3, PromptFacts, Unsteady, AppendProperties, LenProperties
  <2>2. \A i \in 1..Len(order) : turn[order[i]].stage # "none"
    BY Unsteady, LenProperties
  <2>3. turn[current].stage # "none"
    BY PromptFacts
  <2>. QED  BY <2>1, <2>2, <2>3
<1>5. /\ order' \in Seq(TurnIds) /\ Len(order') <= RamKeep
      /\ \A i \in DOMAIN order' : turn[order'[i]].stage # "none"
  <2>1. PICK r : r = Newest(RamKeep, o)
    OBVIOUS
  <2>2. /\ r \in Seq(TurnIds) /\ Len(r) <= RamKeep /\ Len(r) <= Len(o)
        /\ \A i \in 1..Len(r) : r[i] = o[i + (Len(o) - Len(r))]
    BY <2>1, <1>4, Bounds, NewestFacts
  <2>3. Len(o) \in Nat /\ Len(r) \in Nat /\ DOMAIN r = 1..Len(r)
    BY <1>4, <2>2, LenProperties
  <2>4. ASSUME NEW i \in 1..Len(r) PROVE turn[r[i]].stage # "none"
    <3>1. i + (Len(o) - Len(r)) \in 1..Len(o)
      BY <2>2, <2>3
    <3>. QED  BY <3>1, <1>4, <2>2
  <2>5. order' = r
    BY <1>3, <2>1, PromptFacts
  <2>. QED  BY <2>2, <2>3, <2>4, <2>5
<1>6. prompts' \in Seq(Messages)
  <2>1. prompts \in Seq(Messages) /\ turn[current].msg \in Messages
    BY PromptFacts, Unsteady
  <2>2. prompts' = Append(prompts, turn[current].msg)
    BY PromptFacts
  <2>. QED  BY <2>1, <2>2, AppendProperties
<1>7. start' \in Starts
  <2>1. start' = [drained |-> FALSE, fresh |-> FALSE, by |-> 0]
    BY PromptFacts DEF Idle
  <2>. QED  BY <2>1, Bounds DEF Starts
<1>8. ASSUME NEW u \in TurnIds
      PROVE  /\ turn'[u].msg = turn[u].msg
             /\ (turn'[u].stage = "none" <=> turn[u].stage = "none")
             /\ (turn'[u].stage = "pre" => turn[u].stage = "pre")
  <2>1. CASE u = current
    BY <2>1, PromptFacts
  <2>2. CASE u # current
    BY <2>2, PromptFacts
  <2>. QED  BY <2>1, <2>2
<1>9. Steady
  BY <1>1, <1>2, <1>5, <1>6, <1>7, <1>8, Unsteady, PromptFacts, WokenTyped DEF Steady
<1>. QED  BY <1>9, SteadyTyped

LEMMA StartFailsFacts ==
    ASSUME TypeInv, StartFails
    PROVE  /\ runner # "down" /\ current \in TurnIds /\ turn[current].stage = "pre"
           /\ turn[current].msg \in Messages
           /\ turn' \in TurnStates /\ \A u \in TurnIds \ {current} : turn'[u] = turn[u]
           /\ turn'[current].msg = turn[current].msg
           /\ turn'[current].status = "failed" /\ turn'[current].stage = "unsent"
           /\ turn'[current].items = turn[current].items
           /\ start' = Idle
           /\ (start.drained => limbo' = Append(limbo, turn[current].msg))
           /\ (~start.drained => limbo' = limbo)
           /\ (runner = "up" => used.fails < scope.fails)
           /\ UNCHANGED <<runner, order, current, asking, queue, waiter, index, journal, leaving,
                          client, prompts, scope>>
<1>1. /\ runner # "down" /\ Starting
      /\ runner = "up" => Bounded("fails")
      /\ turn' = [turn EXCEPT ![current].status = "failed", ![current].stage = "unsent"]
      /\ limbo' = IF start.drained THEN Append(limbo, turn[current].msg) ELSE limbo
      /\ start' = Idle
      /\ UNCHANGED <<runner, order, current, asking, queue, waiter, index, journal, leaving,
                     client, prompts, scope>>
  BY DEF StartFails
<1>2. current \in TurnIds /\ turn[current].stage = "pre" /\ turn \in TurnStates
      /\ turn[current].msg \in Messages
  BY <1>1, Unsteady DEF Starting, TypeInv, Known
<1>3. "unsent" \in Stages /\ "failed" \in Ends \cup {"running"}
  BY DEF Stages, Ends
<1>4. PICK st, sg : st = "failed" /\ sg = "unsent"
  OBVIOUS
<1>5. PICK es : es = Ended(turn, current, st)
  OBVIOUS
<1>6. turn' = Staged(es, current, sg)
  BY <1>1, <1>4, <1>5 DEF Staged, Ended
<1>7. /\ es \in TurnStates /\ \A u \in TurnIds \ {current} : es[u] = turn[u]
      /\ es[current].msg = turn[current].msg /\ es[current].status = st
      /\ es[current].items = turn[current].items
  BY <1>2, <1>3, <1>4, <1>5, EndedFacts
<1>8. /\ turn' \in TurnStates /\ \A u \in TurnIds \ {current} : turn'[u] = es[u]
      /\ turn'[current].msg = es[current].msg /\ turn'[current].status = es[current].status
      /\ turn'[current].stage = sg /\ turn'[current].items = es[current].items
  BY <1>2, <1>3, <1>4, <1>6, <1>7, StagedFacts
<1>9. runner = "up" => used.fails < scope.fails
  BY <1>1 DEF Bounded
<1>. QED  BY <1>1, <1>2, <1>4, <1>7, <1>8, <1>9

LEMMA CountedFails ==
    ASSUME used \in Uses, Counted("fails"), UNCHANGED current
    PROVE  /\ used' \in Uses /\ used'.fails = used.fails + 1 /\ used'.sends = used.sends
           /\ used'.turns = used.turns
<1>1. used' = [Begun EXCEPT !.fails = Begun.fails + 1]
  BY DEF Counted
<1>2. PICK b : b = Begun
  OBVIOUS
<1>3. used' = [b EXCEPT !.fails = b.fails + 1] /\ b \in Uses
  BY <1>1, <1>2, BegunFacts
<1>4. /\ used' \in Uses /\ used'.fails = b.fails + 1 /\ used'.sends = b.sends /\ used'.turns = b.turns
  BY <1>3 DEF Uses
<1>. QED  BY <1>2, <1>4, BegunFacts

LEMMA StartFailsTyped == ASSUME TypeInv, StartFails PROVE TypeInv'
<1>1. /\ TypeOK /\ Known /\ Counts /\ Alone /\ scope \in Scopes
      /\ current \in TurnIds /\ current \in 0..MaxTurns /\ current # 0
      /\ queue \in Seq(Messages) /\ Len(queue) \in Nat /\ Depth \in Nat
      /\ limbo \in Seq(Messages) /\ Len(limbo) \in Nat /\ used.fails \in Nat
      /\ turn[current].stage = "pre" /\ turn[current].msg \in Messages /\ used \in Uses
  BY TypesGiven, LenProperties, StartFailsFacts, Bounds DEF TypeInv, Capped, TurnIds, Counts, Uses
<1>3. limbo' \in Seq(Messages) /\ Len(limbo') \in Nat /\ Len(limbo') <= Len(limbo) + 1
  <2>1. CASE start.drained
    BY <2>1, <1>1, AppendProperties, StartFailsFacts
  <2>2. CASE ~start.drained
    BY <2>2, <1>1, StartFailsFacts
  <2>. QED  BY <2>1, <2>2
<1>4. Len(limbo) <= used.fails /\ Len(queue) + Len(limbo) <= Depth + used.fails
  BY <1>1 DEF Counts, Starting
<1>5. queue' = queue /\ runner' = runner /\ runner \in {"up", "dead"}
  BY StartFailsFacts, Unsteady
<1>6. /\ used' \in Uses /\ used'.sends = used.sends /\ used'.turns = used.turns
      /\ (runner = "up" => used'.fails = used.fails + 1 /\ used'.fails <= scope.fails)
      /\ (runner # "up" => used' = used)
  <2>0. scope.fails \in Nat /\ runner \in {"up", "dead"} /\ used.fails \in Nat
    BY <1>1, Parameters, StartFailsFacts, Unsteady DEF Uses
  <2>1. CASE runner = "dead"
    <3>1. used' = used
      BY <2>1 DEF StartFails
    <3>. QED  BY <3>1, <2>1, <1>1
  <2>2. CASE runner = "up"
    <3>1. Counted("fails") /\ UNCHANGED current
      BY <2>2 DEF StartFails
    <3>. QED  BY <3>1, <2>0, <2>2, <1>1, CountedFails, StartFailsFacts
  <2>. QED  BY <2>0, <2>1, <2>2
<1>7. /\ Len(queue) + Len(limbo') <= Depth + used'.fails + Dead
      /\ Len(limbo') <= used'.fails + Dead
  <2>1. CASE runner = "up"
    BY SMTT(30), <2>1, <1>1, <1>3, <1>4, <1>6 DEF Dead
  <2>2. CASE runner = "dead"
    BY <2>2, <1>1, <1>3, <1>4, <1>6 DEF Dead
  <2>. QED  BY <2>1, <2>2, <1>5
<1>8. start' \in Starts
  <2>1. start' = [drained |-> FALSE, fresh |-> FALSE, by |-> 0]
    BY StartFailsFacts DEF Idle
  <2>. QED  BY <2>1, Bounds DEF Starts
<1>9. lease' \in Leases
  BY Unsteady DEF StartFails, Unstarted, Leases
<1>10. TypeOK'
  BY SMTT(40), <1>1, <1>3, <1>5, <1>7, <1>8, <1>9, StartFailsFacts DEF TypeOK, Starts, Dead, Leases
<1>11. Known'
  <2>1. ASSUME NEW u \in TurnIds
        PROVE  /\ turn'[u].msg = turn[u].msg
               /\ (turn'[u].stage = "none" <=> turn[u].stage = "none")
    <3>1. CASE u = current
      BY <3>1, StartFailsFacts
    <3>2. CASE u # current
      BY <3>2, StartFailsFacts
    <3>. QED  BY <3>1, <3>2
  <2>2. \A i \in DOMAIN order : order[i] \in TurnIds
    BY Unsteady, LenProperties, ElementOfSeq
  <2>3. Parted(leaving)' /\ Parted(leaving')
    BY StartFailsFacts, Unsteady DEF Parted, Leavings
  <2>4. order' = order /\ client' = client /\ current' = current /\ leaving' = leaving
    BY StartFailsFacts
  <2>5. \A t \in TurnIds : turn'[t].stage # "none" => turn'[t].msg \in Messages
    BY <2>1, <1>1 DEF Known
  <2>6. turn'[current].stage # "none"
    BY <2>1, <1>1
  <2>7. \A i \in DOMAIN order : turn'[order[i]].stage # "none"
    <3>. TAKE i \in DOMAIN order
    <3>1. order[i] \in TurnIds /\ turn[order[i]].stage # "none"
      BY <2>2, <1>1 DEF Known
    <3>. QED  BY <3>1, <2>1
  <2>8. client.state \in {"on", "waiting", "parting"} => client.turn \in TurnIds
    BY <1>1 DEF Known
  <2>. QED  BY <2>3, <2>4, <2>5, <2>6, <2>7, <2>8 DEF Known
<1>12. Counts'
  <2>1. /\ used.sends <= scope.sends /\ used.fails <= scope.fails
        /\ used.turns + (IF runner = "up" THEN Len(queue) + Len(limbo) ELSE 0) <= used.sends + used.fails
        /\ current <= used.turns
    BY <1>1 DEF Counts
  <2>2. used'.sends <= scope.sends /\ used'.fails <= scope.fails /\ current <= used'.turns
    BY <2>1, <1>6
  <2>3. used'.turns + (IF runner = "up" THEN Len(queue) + Len(limbo') ELSE 0) <= used'.sends + used'.fails
    <3>1. CASE runner = "up"
      BY SMTT(20), <3>1, <2>1, <1>1, <1>3, <1>6 DEF Uses
    <3>2. CASE runner # "up"
      BY <3>2, <2>1, <1>6 DEF Uses
    <3>. QED  BY <3>1, <3>2
  <2>4. ~Starting'
    BY StartFailsFacts DEF Starting
  <2>. QED  BY <2>2, <2>3, <2>4, <1>5, <1>6, <1>7, StartFailsFacts DEF Counts, Dead, Uses
<1>13. Alone'
  BY <1>1, StartFailsFacts DEF Alone
<1>. QED  BY <1>10, <1>11, <1>12, <1>13 DEF TypeInv

-----------------------------------------------------------------------------
(* What is lost with the runner: exits, crashes.                           *)

\* A step after which nothing of the runner is left in memory.
Reset ==
    /\ runner' \in {"up", "down", "dead"}
    /\ turn' \in TurnStates
    /\ \A t \in TurnIds : turn'[t].stage # "none" => turn'[t].msg \in Messages
    /\ order' \in Seq(TurnIds) /\ Len(order') <= RamKeep
    /\ \A i \in DOMAIN order' : turn'[order'[i]].stage # "none"
    /\ current' = 0 /\ start' = Idle /\ asking' = FALSE /\ queue' = <<>> /\ limbo' = <<>>
    /\ lease' \in Leases /\ waiter' \in BOOLEAN
    /\ index' \in Seq(IndexRows) /\ Len(index') <= Keep
    /\ journal' \in Journals
    /\ client' \in Clients /\ (client'.state \in {"on", "waiting", "parting"} => client'.turn \in TurnIds)
    /\ Parted(leaving') /\ (scope.hazard # "overlap" => leaving'.posts = {} /\ client'.state # "parting")
    /\ prompts' \in Seq(Messages)
    /\ used' \in Uses /\ used'.turns = used.turns /\ used'.sends = used.sends /\ used'.fails = used.fails
    /\ scope' = scope

LEMMA ResetTyped == ASSUME TypeInv, Reset PROVE TypeInv'
<1>1. Counts /\ scope \in Scopes /\ used \in Uses
  BY Unsteady DEF TypeInv, Counts, Uses
<1>2. start' = [drained |-> FALSE, fresh |-> FALSE, by |-> 0] /\ 0 \in 0..MaxTurns
  BY Bounds DEF Reset, Idle
<1>3. start' \in Starts
  BY <1>2 DEF Starts
<1>4. /\ queue' \in Seq(Messages) /\ Len(queue') = 0 /\ Depth \in Nat
      /\ limbo' \in Seq(Messages) /\ Len(limbo') = 0
  BY Bounds, EmptySeq DEF Reset
<1>5. TypeOK'
  <2>1. Len(queue') + Len(limbo') <= Depth + used'.fails + (IF runner' = "dead" THEN 1 ELSE 0)
    <3>1. used'.fails \in Nat
      BY DEF Reset, Uses
    <3>. QED  BY <3>1, <1>4
  <2>2. /\ runner' \in {"up", "down", "dead"} /\ turn' \in TurnStates
        /\ order' \in Seq(TurnIds) /\ Len(order') <= RamKeep
        /\ current' \in 0..MaxTurns /\ asking' \in BOOLEAN
        /\ lease' \in Leases /\ waiter' \in BOOLEAN
        /\ index' \in Seq(IndexRows) /\ Len(index') <= Keep /\ journal' \in Journals
        /\ client' \in Clients /\ prompts' \in Seq(Messages) /\ scope' \in Scopes
        /\ leaving' \in Leavings
    BY <1>1, <1>2 DEF Reset, Parted
  <2>. QED  BY <1>3, <1>4, <2>1, <2>2 DEF TypeOK, Leavings, Journals, Starts, Leases, Clients
<1>6. Known'
  BY DEF Known, Reset
<1>7. Counts'
  <2>1. /\ used.sends <= scope.sends /\ used.fails <= scope.fails
        /\ used.turns + (IF runner = "up" THEN Len(queue) + Len(limbo) ELSE 0) <= used.sends + used.fails
        /\ Len(queue) \in Nat /\ Len(limbo) \in Nat
    BY <1>1, Unsteady DEF Counts
  <2>2. used.turns <= used.sends + used.fails
    <3>1. CASE runner = "up"
      BY <3>1, <2>1, <1>1 DEF Uses
    <3>2. CASE runner # "up"
      BY <3>2, <2>1, <1>1 DEF Uses
    <3>. QED  BY <3>1, <3>2
  <2>3. used'.turns + (IF runner' = "up" THEN Len(queue') + Len(limbo') ELSE 0) <= used'.sends + used'.fails
    <3>1. used'.turns + 0 <= used'.sends + used'.fails
      BY <2>2, <1>1 DEF Reset, Uses
    <3>. QED  BY <3>1, <1>4
  <2>4. current' <= used'.turns /\ ~Starting'
    BY <1>1 DEF Reset, Uses, Starting
  <2>5. Len(limbo') <= used'.fails + (IF runner' = "dead" THEN 1 ELSE 0)
    <3>1. used'.fails \in Nat
      BY DEF Reset, Uses
    <3>. QED  BY <3>1, <1>4
  <2>. QED  BY <2>1, <2>3, <2>4, <2>5 DEF Counts, Dead, Reset, Uses
<1>8. Alone'
  BY DEF Reset, Alone
<1>. QED  BY <1>5, <1>6, <1>7, <1>8 DEF TypeInv

LEMMA RestartedFacts ==
    ASSUME used \in Uses, Restarted
    PROVE  used' \in Uses /\ used'.turns = used.turns /\ used'.sends = used.sends /\ used'.fails = used.fails
BY DEF Restarted, Uses

LEMMA NoTurnTyped == NoTurn \in [msg : Messages \cup {NoMessage}, status : Ends \cup {"running"},
                                 stage : Stages, items : Seq(Kinds)]
<1>1. <<>> \in Seq(Kinds)
  BY KindsWritten
<1>2. "failed" \in Ends \cup {"running"} /\ "none" \in Stages
  BY DEF Ends, Stages
<1>. QED  BY <1>1, <1>2 DEF NoTurn

LEMMA GoneTyped == Parted(Gone) /\ Gone.posts = {}
<1>1. NoTurns \in TurnStates
  BY NoTurnTyped DEF NoTurns, TurnStates
<1>2. <<>> \in Seq(IndexRows) /\ Len(<<>>) = 0
  BY EmptySeq
<1>. QED  BY <1>1, <1>2, Bounds DEF Gone, Parted, Leavings

LEMMA CrashFacts ==
    ASSUME TypeInv, NEW idx, NEW j, Crashes(idx, j)
    PROVE  /\ index' = idx /\ journal' = [j EXCEPT !.full = {}]
           /\ turn' = [t \in TurnIds |-> NoTurn] /\ \A t \in TurnIds : turn'[t] = NoTurn
           /\ turn' \in TurnStates
           /\ client' \in Clients /\ client'.turn = client.turn /\ client'.seen = client.seen
           /\ (client.state # "done" => client'.state = "off")
           /\ (client.state = "done" => client'.state = "done")
           /\ runner' = "down" /\ current' = 0 /\ start' = Idle /\ asking' = FALSE
           /\ queue' = <<>> /\ limbo' = <<>> /\ waiter' = FALSE /\ order' = <<>> /\ lease' = "free"
           /\ leaving' = Gone
           /\ (InBookkeeping # {} => scope.hazard = "late")
           /\ used' \in Uses /\ used'.turns = used.turns /\ used'.sends = used.sends
           /\ used'.fails = used.fails
           /\ scope' = scope
<1>1. /\ index' = idx /\ journal' = [j EXCEPT !.full = {}] /\ turn' = [t \in TurnIds |-> NoTurn]
      /\ client' = IF client.state = "done" THEN client ELSE [client EXCEPT !.state = "off"]
      /\ leaving' = Gone
      /\ Forgets /\ lease' = "free" /\ Restarted /\ scope' = scope
      /\ (InBookkeeping # {} => scope.hazard = "late")
  BY DEF Crashes, NoTurns
<1>2. turn' \in TurnStates
  BY <1>1, NoTurnTyped DEF TurnStates
<1>3. client \in Clients /\ used \in Uses
  BY Unsteady DEF TypeInv, Counts, Uses
<1>4. /\ client' \in Clients /\ client'.turn = client.turn /\ client'.seen = client.seen
      /\ (client.state # "done" => client'.state = "off")
      /\ (client.state = "done" => client'.state = "done")
  BY <1>1, <1>3 DEF Clients
<1>5. used' \in Uses /\ used'.turns = used.turns /\ used'.sends = used.sends /\ used'.fails = used.fails
  BY <1>1, <1>3, RestartedFacts
<1>. QED  BY <1>1, <1>2, <1>4, <1>5 DEF Forgets

LEMMA CrashTyped ==
    ASSUME TypeInv, NEW idx \in Seq(IndexRows), Len(idx) <= Keep, NEW j \in Journals,
           Crashes(idx, j), prompts' \in Seq(Messages)
    PROVE  TypeInv'
<1>1. /\ order' \in Seq(TurnIds) /\ Len(order') <= RamKeep /\ DOMAIN order' = {}
  <2>1. order' = <<>>
    BY CrashFacts
  <2>2. <<>> \in Seq(TurnIds) /\ Len(<<>>) = 0 /\ DOMAIN <<>> = {}
    BY EmptySeq
  <2>. QED  BY <2>1, <2>2, Bounds
<1>2. journal' \in Journals
  <2>1. journal' = [j EXCEPT !.full = {}]
    BY CrashFacts
  <2>. QED  BY <2>1 DEF Journals
<1>3. client'.state \notin {"on", "waiting", "parting"} /\ Parted(leaving') /\ leaving'.posts = {}
  BY GoneTyped, CrashFacts, Unsteady DEF Clients
<1>4. \A t \in TurnIds : turn'[t].stage = "none"
  <2>1. \A t \in TurnIds : turn'[t] = NoTurn
    BY CrashFacts
  <2>2. NoTurn.stage = "none"
    BY DEF NoTurn
  <2>. QED  BY <2>1, <2>2
<1>5. lease' \in Leases /\ waiter' \in BOOLEAN
  BY CrashFacts DEF Leases
<1>6. Reset
  BY <1>1, <1>2, <1>3, <1>4, <1>5, CrashFacts DEF Reset
<1>. QED  BY <1>6, ResetTyped

LEMMA CrashBetweenTyped == ASSUME TypeInv, CrashBetween PROVE TypeInv'
<1>1. Crashes(index, journal) /\ prompts' = prompts
  BY DEF CrashBetween
<1>. QED  BY <1>1, Unsteady, CrashTyped

LEMMA CrashInStartTyped == ASSUME TypeInv, CrashInStart PROVE TypeInv'
<1>1. /\ Crashes(index, Stored(journal, current, <<"pre">>)) /\ Starting
      /\ prompts' = Append(prompts, turn[current].msg)
  BY DEF CrashInStart
<1>2. current \in TurnIds /\ turn[current].msg \in Messages /\ <<"pre">> \in Seq(Kinds)
  BY <1>1, Unsteady, KindsWritten DEF Starting, TypeInv, Known, Kinds
<1>3. Stored(journal, current, <<"pre">>) \in Journals
  BY <1>2, Unsteady, StoredTyped
<1>4. prompts' \in Seq(Messages)
  BY <1>1, <1>2, Unsteady, AppendProperties
<1>. QED  BY <1>1, <1>3, <1>4, Unsteady, CrashTyped

LEMMA ReconciledTyped == \A e : Reconciled(e) \in Seq(Kinds)
<1>. SUFFICES ASSUME NEW e PROVE Reconciled(e) \in Seq(Kinds)
  OBVIOUS
<1>1. <<"error", "interrupted">> \in Seq(Kinds) /\ <<"cancelled">> \in Seq(Kinds) /\ <<>> \in Seq(Kinds)
  BY KindsWritten DEF Kinds, Ends
<1>2. \A s : Settlement(s) \in Seq(Kinds)
  BY <1>1, ConcatProperties DEF Settlement
<1>. QED  BY <1>1, <1>2 DEF Reconciled

LEMMA CrashInOpenTyped == ASSUME TypeInv, CrashInOpen PROVE TypeInv'
<1>0. PICK i \in DOMAIN index : \E n \in 1..Len(Reconciled(index[i])) :
          Crashes(index, Stored(journal, index[i].turn, SubSeq(Reconciled(index[i]), 1, n)))
  BY DEF CrashInOpen
<1>1. PICK n \in 1..Len(Reconciled(index[i])) :
          Crashes(index, Stored(journal, index[i].turn, SubSeq(Reconciled(index[i]), 1, n)))
  BY <1>0
<1>2. prompts' = prompts
  BY DEF CrashInOpen
<1>3. PICK r : r = Reconciled(index[i])
  OBVIOUS
<1>4. r \in Seq(Kinds) /\ Len(r) \in Nat /\ n \in 1..Len(r)
  BY <1>1, <1>3, ReconciledTyped, LenProperties
<1>5. SubSeq(r, 1, n) \in Seq(Kinds)
  <2>1. \A k \in 1..n : r[k] \in Kinds
    BY <1>4, ElementOfSeq
  <2>. QED  BY <1>4, <2>1, SubSeqProperties
<1>6. index[i].turn \in TurnIds
  <2>1. index[i] \in IndexRows
    BY Unsteady, LenProperties, ElementOfSeq
  <2>. QED  BY <2>1 DEF IndexRows
<1>7. Stored(journal, index[i].turn, SubSeq(r, 1, n)) \in Journals
  BY <1>5, <1>6, Unsteady, StoredTyped
<1>. QED  BY <1>1, <1>2, <1>3, <1>7, Unsteady, CrashTyped

-----------------------------------------------------------------------------
(* Stops, and the reconstruction from the journal.                         *)

\* What a stop leaves of the turns: the running one is noted and has failed.
Left == Ended(Noting(turn, current, Cancelled \o <<"post">>), current, "failed")

LEMMA LeftFacts ==
    ASSUME TypeInv, Running
    PROVE  /\ current \in TurnIds /\ Cancelled \o <<"post">> \in Seq(Kinds)
           /\ Left \in TurnStates /\ \A u \in TurnIds \ {current} : Left[u] = turn[u]
           /\ Left[current].msg = turn[current].msg /\ Left[current].status = "failed"
           /\ Left[current].stage = "run" /\ turn[current].msg \in Messages
           /\ Left[current].items = turn[current].items \o (Cancelled \o <<"post">>)
<1>1. current \in TurnIds /\ turn[current].stage = "run" /\ turn \in TurnStates
      /\ turn[current].msg \in Messages
  BY Unsteady DEF Running, TypeInv, Known
<1>2. Cancelled \o <<"post">> \in Seq(Kinds)
  BY KindsWritten DEF Kinds
<1>3. PICK kinds : kinds = Cancelled \o <<"post">>
  OBVIOUS
<1>4. PICK ns : ns = Noting(turn, current, kinds)
  OBVIOUS
<1>5. /\ ns \in TurnStates /\ \A u \in TurnIds \ {current} : ns[u] = turn[u]
      /\ ns[current].msg = turn[current].msg /\ ns[current].stage = turn[current].stage
      /\ ns[current].items = turn[current].items \o kinds
  BY <1>1, <1>2, <1>3, <1>4, NotingFacts
<1>6. PICK st : st = "failed"
  OBVIOUS
<1>7. Left = Ended(ns, current, st) /\ st \in Ends \cup {"running"}
  BY <1>3, <1>4, <1>6 DEF Left, Ends
<1>8. PICK es : es = Ended(ns, current, st)
  OBVIOUS
<1>9. /\ es \in TurnStates /\ \A u \in TurnIds \ {current} : es[u] = ns[u]
      /\ es[current].msg = ns[current].msg /\ es[current].stage = ns[current].stage
      /\ es[current].items = ns[current].items /\ es[current].status = st
  BY <1>1, <1>5, <1>7, <1>8, EndedFacts
<1>. QED  BY <1>1, <1>2, <1>3, <1>5, <1>6, <1>7, <1>8, <1>9

\* A stop, turn by turn.
LEMMA DropCases ==
    ASSUME TypeInv, Drops
    PROVE  \E left :
              /\ \/ /\ Running /\ left = Left
                    /\ journal' = Stored(journal, current, Cancelled \o <<"post">>)
                    /\ index' = Noted(index, Left, current)
                 \/ ~Running /\ left = turn /\ journal' = journal /\ index' = index
              /\ left \in TurnStates
              /\ turn' = [t \in TurnIds |-> [left[t] EXCEPT !.stage =
                                       IF @ \in {"run", "post"} THEN "closed" ELSE @]]
              /\ client' = IF client.state \in {"on", "waiting"}
                           THEN [client EXCEPT !.state = "done", !.seen = left[client.turn].items]
                           ELSE client
<1>1. CASE Running
  <2>1. Left = [Noting(turn, current, Cancelled \o <<"post">>) EXCEPT ![current].status = "failed"]
    BY DEF Left, Ended
  <2>2. /\ journal' = Stored(journal, current, Cancelled \o <<"post">>)
        /\ index' = Noted(index, Left, current)
        /\ turn' = [t \in TurnIds |-> [Left[t] EXCEPT !.stage =
                                       IF @ \in {"run", "post"} THEN "closed" ELSE @]]
        /\ client' = IF client.state \in {"on", "waiting"}
                     THEN [client EXCEPT !.state = "done", !.seen = Left[client.turn].items]
                     ELSE client
    BY <1>1, <2>1 DEF Drops, Stopped, Unstaged, Streaming
  <2>3. Left \in TurnStates
    BY <1>1, LeftFacts
  <2>. WITNESS Left
  <2>. QED  BY <1>1, <2>2, <2>3
<1>2. CASE ~Running
  <2>1. /\ journal' = journal /\ index' = index
        /\ turn' = [t \in TurnIds |-> [turn[t] EXCEPT !.stage =
                                       IF @ \in {"run", "post"} THEN "closed" ELSE @]]
        /\ client' = IF client.state \in {"on", "waiting"}
                     THEN [client EXCEPT !.state = "done", !.seen = turn[client.turn].items]
                     ELSE client
    BY <1>2 DEF Drops, Stopped, Unstaged, Streaming
  <2>2. turn \in TurnStates
    BY Unsteady
  <2>. WITNESS turn
  <2>. QED  BY <1>2, <2>1, <2>2
<1>. QED  BY <1>1, <1>2

LEMMA DropFacts ==
    ASSUME TypeInv, Drops
    PROVE  \E left :
              /\ \/ /\ Running /\ left = Left
                    /\ journal' = Stored(journal, current, Cancelled \o <<"post">>)
                    /\ index' = Noted(index, Left, current)
                 \/ ~Running /\ left = turn /\ journal' = journal /\ index' = index
              /\ left \in TurnStates
              /\ \A t \in TurnIds : left[t].msg = turn[t].msg /\ left[t].stage = turn[t].stage
              /\ turn' \in TurnStates
              /\ \A t \in TurnIds :
                    /\ turn'[t].msg = left[t].msg /\ turn'[t].status = left[t].status
                    /\ turn'[t].items = left[t].items
                    /\ (left[t].stage \in {"run", "post"} => turn'[t].stage = "closed")
                    /\ (left[t].stage \notin {"run", "post"} => turn'[t].stage = left[t].stage)
              /\ client' \in Clients /\ client'.turn = client.turn
              /\ (client.state \in {"on", "waiting"}
                    => client'.state = "done" /\ client'.seen = left[client.turn].items)
              /\ (client.state \notin {"on", "waiting"} => client' = client)
<1>1. PICK left :
              /\ \/ /\ Running /\ left = Left
                    /\ journal' = Stored(journal, current, Cancelled \o <<"post">>)
                    /\ index' = Noted(index, Left, current)
                 \/ ~Running /\ left = turn /\ journal' = journal /\ index' = index
              /\ left \in TurnStates
              /\ turn' = [t \in TurnIds |-> [left[t] EXCEPT !.stage =
                                       IF @ \in {"run", "post"} THEN "closed" ELSE @]]
              /\ client' = IF client.state \in {"on", "waiting"}
                           THEN [client EXCEPT !.state = "done", !.seen = left[client.turn].items]
                           ELSE client
  BY DropCases
<1>2. /\ client \in Clients /\ turn \in TurnStates
      /\ (client.state \in {"on", "waiting"} => client.turn \in TurnIds)
  BY Unsteady
<1>3. ASSUME NEW t \in TurnIds PROVE left[t].msg = turn[t].msg /\ left[t].stage = turn[t].stage
  <2>1. CASE Running /\ left = Left
    <3>1. CASE t = current
      BY <2>1, <3>1, LeftFacts DEF Running
    <3>2. CASE t # current
      BY <2>1, <3>2, LeftFacts
    <3>. QED  BY <3>1, <3>2
  <2>2. CASE left = turn
    BY <2>2
  <2>. QED  BY <1>1, <2>1, <2>2
<1>4. /\ turn' \in TurnStates
      /\ \A t \in TurnIds :
            /\ turn'[t].msg = left[t].msg /\ turn'[t].status = left[t].status
            /\ turn'[t].items = left[t].items
            /\ (left[t].stage \in {"run", "post"} => turn'[t].stage = "closed")
            /\ (left[t].stage \notin {"run", "post"} => turn'[t].stage = left[t].stage)
  <2>1. "closed" \in Stages
    BY DEF Stages
  <2>2. left \in TurnStates /\ turn' = [t \in TurnIds |-> [left[t] EXCEPT !.stage =
                                       IF left[t].stage \in {"run", "post"} THEN "closed" ELSE left[t].stage]]
    BY <1>1
  <2>. QED  BY <2>1, <2>2 DEF TurnStates
<1>5. /\ client' \in Clients /\ client'.turn = client.turn
      /\ (client.state \in {"on", "waiting"}
            => client'.state = "done" /\ client'.seen = left[client.turn].items)
      /\ (client.state \notin {"on", "waiting"} => client' = client)
  <2>1. CASE client.state \in {"on", "waiting"}
    <3>1. client' = [client EXCEPT !.state = "done", !.seen = left[client.turn].items]
      BY <1>1, <2>1
    <3>2. left[client.turn].items \in Seq(Kinds)
      BY <1>1, <1>2, <2>1 DEF TurnStates
    <3>. QED  BY <3>1, <3>2, <2>1, <1>2 DEF Clients
  <2>2. CASE client.state \notin {"on", "waiting"}
    BY <1>1, <1>2, <2>2
  <2>. QED  BY <2>1, <2>2
<1>. WITNESS left
<1>. QED  BY <1>1, <1>3, <1>4, <1>5

LEMMA DropsTyped == ASSUME TypeInv, Drops PROVE TypeInv'
<1>1. /\ Forgets /\ lease' = IF lease = "mine" THEN "free" ELSE lease
      /\ Restarted /\ prompts' = prompts /\ scope' = scope /\ leaving' = leaving
  BY DEF Drops
<1>2. /\ turn' \in TurnStates /\ client' \in Clients /\ client'.state \notin {"on", "waiting"}
      /\ (client'.state = "parting" => client' = client)
      /\ \A t \in TurnIds : turn'[t].msg = turn[t].msg /\ (turn'[t].stage # "none" => turn[t].stage # "none")
      /\ journal' \in Journals /\ index' \in Seq(IndexRows) /\ Len(index') <= Keep
  <2>1. PICK left :
              /\ \/ /\ Running /\ left = Left
                    /\ journal' = Stored(journal, current, Cancelled \o <<"post">>)
                    /\ index' = Noted(index, Left, current)
                 \/ ~Running /\ left = turn /\ journal' = journal /\ index' = index
              /\ left \in TurnStates
              /\ \A t \in TurnIds : left[t].msg = turn[t].msg /\ left[t].stage = turn[t].stage
              /\ turn' \in TurnStates
              /\ \A t \in TurnIds :
                    /\ turn'[t].msg = left[t].msg /\ turn'[t].status = left[t].status
                    /\ turn'[t].items = left[t].items
                    /\ (left[t].stage \in {"run", "post"} => turn'[t].stage = "closed")
                    /\ (left[t].stage \notin {"run", "post"} => turn'[t].stage = left[t].stage)
              /\ client' \in Clients /\ client'.turn = client.turn
              /\ (client.state \in {"on", "waiting"}
                    => client'.state = "done" /\ client'.seen = left[client.turn].items)
              /\ (client.state \notin {"on", "waiting"} => client' = client)
    BY DropFacts
  <2>2. journal' \in Journals /\ index' \in Seq(IndexRows) /\ Len(index') <= Keep
    <3>1. CASE Running /\ left = Left /\ journal' = Stored(journal, current, Cancelled \o <<"post">>)
               /\ index' = Noted(index, Left, current)
      <4>1. journal' \in Journals
        BY <3>1, LeftFacts, Unsteady, StoredTyped
      <4>2. Left[current].msg \in Messages /\ current \in TurnIds /\ Left \in TurnStates
        BY <3>1, LeftFacts
      <4>. QED  BY <3>1, <4>1, <4>2, Unsteady, NotedTyped
    <3>2. CASE journal' = journal /\ index' = index
      BY <3>2, Unsteady
    <3>. QED  BY <2>1, <3>1, <3>2
  <2>3. client'.state \notin {"on", "waiting"} /\ (client'.state = "parting" => client' = client)
    BY <2>1
  <2>4. \A t \in TurnIds : turn'[t].msg = turn[t].msg /\ (turn'[t].stage # "none" => turn[t].stage # "none")
    BY <2>1
  <2>. QED  BY <2>1, <2>2, <2>3, <2>4
<1>3. \A t \in TurnIds : turn'[t].stage # "none" => turn'[t].msg \in Messages
  BY <1>2 DEF TypeInv, Known
<1>4. /\ order' \in Seq(TurnIds) /\ Len(order') <= RamKeep /\ DOMAIN order' = {}
  <2>1. order' = <<>>
    BY <1>1 DEF Forgets
  <2>2. <<>> \in Seq(TurnIds) /\ Len(<<>>) = 0 /\ DOMAIN <<>> = {}
    BY EmptySeq
  <2>. QED  BY <2>1, <2>2, Bounds
<1>5. used' \in Uses /\ used'.turns = used.turns /\ used'.sends = used.sends /\ used'.fails = used.fails
  <2>1. used \in Uses
    BY DEF TypeInv, Counts, Uses
  <2>. QED  BY <1>1, <2>1, RestartedFacts
<1>6. lease' \in Leases
  BY <1>1, Unsteady DEF Leases
<1>7. Reset
  BY <1>1, <1>2, <1>3, <1>4, <1>5, <1>6, Unsteady DEF Reset, Forgets
<1>. QED  BY <1>7, ResetTyped

\* What a stop that an /open overlaps leaves until the checkpoint is taken.
Halted == Ended(Noting(turn, current, Cancelled), current, "failed")

LEMMA HaltedFacts ==
    ASSUME TypeInv, Running
    PROVE  /\ current \in TurnIds /\ Halted = Stopped(Cancelled) /\ Halted \in TurnStates
           /\ \A u \in TurnIds : Halted[u].msg = turn[u].msg /\ Halted[u].stage = turn[u].stage
<1>1. current \in TurnIds /\ turn \in TurnStates /\ Cancelled \in Seq(Kinds)
  BY Unsteady, KindsWritten DEF Running
<1>2. PICK ns : ns = Noting(turn, current, Cancelled)
  OBVIOUS
<1>3. /\ ns \in TurnStates
      /\ \A u \in TurnIds : ns[u].msg = turn[u].msg /\ ns[u].stage = turn[u].stage
  BY <1>1, <1>2, NotingFacts, NotingKeeps
<1>4. PICK st : st = "failed"
  OBVIOUS
<1>5. Halted = Ended(ns, current, st) /\ st \in Ends \cup {"running"}
  BY <1>2, <1>4 DEF Halted, Ends
<1>6. PICK es : es = Ended(ns, current, st)
  OBVIOUS
<1>7. /\ es \in TurnStates /\ \A u \in TurnIds \ {current} : es[u] = ns[u]
      /\ es[current].msg = ns[current].msg /\ es[current].stage = ns[current].stage
  BY <1>1, <1>3, <1>5, <1>6, EndedFacts
<1>8. Halted = Stopped(Cancelled)
  BY DEF Halted, Stopped, Ended
<1>. QED  BY <1>1, <1>3, <1>5, <1>6, <1>7, <1>8

LEMMA UnstagedFacts ==
    ASSUME NEW ts \in TurnStates
    PROVE  /\ Unstaged(ts) \in TurnStates
           /\ \A u \in TurnIds : /\ Unstaged(ts)[u].msg = ts[u].msg
                                 /\ (Unstaged(ts)[u].stage = "none" <=> ts[u].stage = "none")
<1>1. "closed" \in Stages
  BY DEF Stages
<1>. QED  BY <1>1 DEF Unstaged, TurnStates

LEMMA DropBeginsTyped == ASSUME TypeInv, DropBegins PROVE TypeInv'
<1>1. /\ scope.hazard = "overlap" /\ Running /\ Forgets /\ Restarted
      /\ leaving' = [turn |-> Halted, index |-> index, posts |-> {current}]
      /\ turn' = Unstaged(Halted) /\ journal' = Stored(journal, current, Cancelled)
      /\ client' = IF client.state \in {"on", "waiting"} THEN [client EXCEPT !.state = "parting"] ELSE client
      /\ UNCHANGED <<lease, index, prompts, scope>>
  BY HaltedFacts DEF DropBegins, Streaming
<1>2. /\ turn' \in TurnStates
      /\ \A t \in TurnIds : turn'[t].stage # "none" => turn'[t].msg \in Messages
  <2>1. PICK ts : ts = Unstaged(Halted)
    OBVIOUS
  <2>2. /\ ts \in TurnStates
        /\ \A u \in TurnIds : ts[u].msg = turn[u].msg /\ (ts[u].stage = "none" <=> turn[u].stage = "none")
    BY <1>1, <2>1, HaltedFacts, UnstagedFacts
  <2>. QED  BY <1>1, <2>1, <2>2 DEF TypeInv, Known
<1>3. journal' \in Journals
  BY <1>1, HaltedFacts, Unsteady, KindsWritten, StoredTyped
<1>4. Parted(leaving')
  <2>1. PICK lv : lv = [turn |-> Halted, index |-> index, posts |-> {current}]
    OBVIOUS
  <2>2. lv \in Leavings /\ lv.posts = {current} /\ lv.turn = Halted /\ lv.index = index
    BY <1>1, <2>1, HaltedFacts, Unsteady DEF Leavings
  <2>3. Halted[current].msg \in Messages
    BY <1>1, HaltedFacts DEF TypeInv, Known, Running
  <2>4. Parted(lv)
    BY <2>2, <2>3, Unsteady DEF Parted
  <2>. QED  BY <1>1, <2>1, <2>4
<1>5. client' \in Clients /\ (client'.state \in {"on", "waiting", "parting"} => client'.turn \in TurnIds)
  BY <1>1, Unsteady DEF Clients
<1>6. /\ order' \in Seq(TurnIds) /\ Len(order') <= RamKeep /\ DOMAIN order' = {}
  <2>1. order' = <<>>
    BY <1>1 DEF Forgets
  <2>2. <<>> \in Seq(TurnIds) /\ Len(<<>>) = 0 /\ DOMAIN <<>> = {}
    BY EmptySeq
  <2>. QED  BY <2>1, <2>2, Bounds
<1>7. used' \in Uses /\ used'.turns = used.turns /\ used'.sends = used.sends /\ used'.fails = used.fails
  <2>1. used \in Uses
    BY DEF TypeInv, Counts, Uses
  <2>. QED  BY <1>1, <2>1, RestartedFacts
<1>8. Reset
  BY <1>1, <1>2, <1>3, <1>4, <1>5, <1>6, <1>7, Unsteady DEF Reset, Forgets
<1>. QED  BY <1>8, ResetTyped

LEMMA LeavingDoneTyped == ASSUME TypeInv, NEW t \in TurnIds, LeavingDone(t) PROVE TypeInv'
<1>. DEFINE left == Noting(leaving.turn, t, <<"post">>)
<1>1. /\ t \in leaving.posts /\ index' = Noted(leaving.index, left, t)
      /\ \/ leaving' = Gone
         \/ leaving' = [turn |-> left, index |-> index', posts |-> leaving.posts \ {t}]
      /\ \/ client' = client
         \/ /\ client.state = "parting"
            /\ client' = [client EXCEPT !.state = "done", !.seen = left[client.turn].items]
      /\ journal' = Stored(journal, t, <<"post">>)
      /\ lease' = IF lease = "mine" THEN "free" ELSE lease
      /\ UNCHANGED <<runner, turn, order, current, start, asking, queue, limbo, waiter, prompts,
                     used, scope>>
  BY DEF LeavingDone
<1>2. /\ leaving \in Leavings /\ leaving.turn \in TurnStates /\ leaving.turn[t].msg \in Messages
      /\ leaving.index \in Seq(IndexRows) /\ Len(leaving.index) <= Keep
      /\ leaving.posts \in SUBSET TurnIds
      /\ \A u \in leaving.posts : leaving.turn[u].msg \in Messages
  BY <1>1, Unsteady DEF Parted, Leavings
<1>3. <<"post">> \in Seq(Kinds)
  BY KindsWritten DEF Kinds
<1>4. /\ left \in TurnStates /\ left[t].msg \in Messages
      /\ \A u \in TurnIds : left[u].msg = leaving.turn[u].msg
  BY <1>2, <1>3, NotingFacts, NotingKeeps
<1>. HIDE DEF left
<1>5. index' \in Seq(IndexRows) /\ Len(index') <= Keep
  BY <1>1, <1>2, <1>4, NotedTyped
<1>6. Parted(leaving')
  <2>1. CASE leaving' = Gone
    BY <2>1, GoneTyped
  <2>2. CASE leaving' = [turn |-> left, index |-> index', posts |-> leaving.posts \ {t}]
    <3>1. PICK lv, idx : /\ idx = index'
                         /\ lv = [turn |-> left, index |-> idx, posts |-> leaving.posts \ {t}]
      OBVIOUS
    <3>2. /\ lv \in Leavings /\ lv.posts = leaving.posts \ {t} /\ lv.turn = left /\ lv.index = idx
      BY <3>1, <1>2, <1>4, <1>5 DEF Leavings
    <3>3. \A u \in lv.posts : lv.turn[u].msg \in Messages
      BY <3>2, <1>2, <1>4
    <3>4. Parted(lv)
      BY <3>1, <3>2, <3>3, <1>5 DEF Parted
    <3>. QED  BY <2>2, <3>1, <3>4
  <2>. QED  BY <1>1, <2>1, <2>2
<1>7. /\ client' \in Clients /\ (client'.state \in {"on", "waiting", "parting"} => client'.turn \in TurnIds)
  <2>1. CASE client' = client
    BY <2>1, Unsteady
  <2>2. CASE /\ client.state = "parting"
             /\ client' = [client EXCEPT !.state = "done", !.seen = left[client.turn].items]
    <3>1. client.turn \in TurnIds /\ client \in Clients
      BY <2>2, Unsteady
    <3>2. left[client.turn].items \in Seq(Kinds)
      BY <3>1, <1>4 DEF TurnStates
    <3>. QED  BY <2>2, <3>1, <3>2 DEF Clients
  <2>. QED  BY <1>1, <2>1, <2>2
<1>8. journal' \in Journals
  BY <1>1, <1>3, Unsteady, StoredTyped
<1>9. lease' \in Leases
  BY <1>1, Unsteady DEF Leases
<1>10. scope.hazard = "overlap"
  BY <1>1, Unsteady
<1>11. Steady
  BY <1>1, <1>5, <1>6, <1>7, <1>8, <1>9, <1>10, Unsteady DEF Steady
<1>. QED  BY <1>11, SteadyTyped

-----------------------------------------------------------------------------
IndexedTurns == {e.turn : e \in ToSet(index)}
EntryOf(t) == CHOOSE e \in ToSet(index) : e.turn = t
Added(t) == IF t \in IndexedTurns THEN Reconciled(EntryOf(t)) ELSE <<>>
Settled1(t) == Stored([journal EXCEPT !.full = {}], t, Added(t))

LEMMA OpensFacts ==
    ASSUME TypeInv, Opens
    PROVE  /\ turn' \in TurnStates
           /\ \A t \in TurnIds \ IndexedTurns : turn'[t] = NoTurn
           /\ \A t \in TurnIds \cap IndexedTurns :
                 /\ EntryOf(t) \in IndexRows /\ EntryOf(t) \in ToSet(index) /\ EntryOf(t).turn = t
                 /\ turn'[t].msg = EntryOf(t).msg /\ turn'[t].stage = "closed"
                 /\ (EntryOf(t).status = "running" => turn'[t].status = "interrupted")
                 /\ (EntryOf(t).status # "running" => turn'[t].status = EntryOf(t).status)
                 /\ turn'[t].items = journal.files[t] \o Reconciled(EntryOf(t))
           /\ order' = Newest(RamKeep, [i \in DOMAIN index |-> index[i].turn])
           /\ index' = [i \in DOMAIN index |-> [index[i] EXCEPT !.status = turn'[index[i].turn].status]]
           /\ journal' = [files |-> [t \in TurnIds |-> Settled1(t).files[t]],
                          full |-> {t \in TurnIds : t \in Settled1(t).full}]
           /\ runner' = "up" /\ current' = 0 /\ start' = Idle /\ asking' = FALSE
           /\ queue' = <<>> /\ limbo' = <<>>
           /\ UNCHANGED <<waiter, prompts, used, scope>>
<1>1. /\ turn' = [t \in TurnIds |->
                 IF t \notin IndexedTurns THEN NoTurn
                 ELSE [msg |-> EntryOf(t).msg, stage |-> "closed",
                       status |-> IF EntryOf(t).status = "running" THEN "interrupted"
                                  ELSE EntryOf(t).status,
                       items |-> journal.files[t] \o Reconciled(EntryOf(t))]]
      /\ order' = Newest(RamKeep, [i \in DOMAIN index |-> index[i].turn])
      /\ index' = [i \in DOMAIN index |-> [index[i] EXCEPT !.status = turn'[index[i].turn].status]]
      /\ journal' = [files |-> [t \in TurnIds |-> Settled1(t).files[t]],
                          full |-> {t \in TurnIds : t \in Settled1(t).full}]
      /\ runner' = "up" /\ current' = 0 /\ start' = Idle /\ asking' = FALSE
      /\ queue' = <<>> /\ limbo' = <<>>
      /\ UNCHANGED <<waiter, prompts, used, scope>>
  BY DEF Opens, IndexedTurns, EntryOf, Added, Settled1
<1>2. index \in Seq(IndexRows) /\ journal \in Journals
  BY Unsteady
<1>3. \A e \in ToSet(index) : e \in IndexRows
  BY <1>2, LenProperties, ElementOfSeq DEF ToSet
<1>4. ASSUME NEW t \in IndexedTurns
      PROVE  EntryOf(t) \in IndexRows /\ EntryOf(t) \in ToSet(index) /\ EntryOf(t).turn = t
  <2>1. \E e \in ToSet(index) : e.turn = t
    BY DEF IndexedTurns
  <2>2. EntryOf(t) \in ToSet(index) /\ EntryOf(t).turn = t
    BY <2>1 DEF EntryOf
  <2>. QED  BY <2>2, <1>3
<1>5. ASSUME NEW t \in TurnIds \cap IndexedTurns
      PROVE  /\ turn'[t] = [msg |-> EntryOf(t).msg, stage |-> "closed",
                            status |-> IF EntryOf(t).status = "running" THEN "interrupted"
                                       ELSE EntryOf(t).status,
                            items |-> journal.files[t] \o Reconciled(EntryOf(t))]
  BY <1>1
<1>6. ASSUME NEW t \in TurnIds \cap IndexedTurns
      PROVE  turn'[t] \in [msg : Messages \cup {NoMessage}, status : Ends \cup {"running"},
                           stage : Stages, items : Seq(Kinds)]
  <2>1. journal.files[t] \o Reconciled(EntryOf(t)) \in Seq(Kinds)
    BY <1>2, ReconciledTyped, ConcatProperties DEF Journals
  <2>2. EntryOf(t).msg \in Messages /\ EntryOf(t).status \in Ends \cup {"running"}
    BY <1>4 DEF IndexRows
  <2>3. "closed" \in Stages /\ "interrupted" \in Ends
    BY DEF Stages, Ends
  <2>4. PICK st : st = IF EntryOf(t).status = "running" THEN "interrupted" ELSE EntryOf(t).status
    OBVIOUS
  <2>5. PICK its : its = journal.files[t] \o Reconciled(EntryOf(t))
    OBVIOUS
  <2>6. st \in Ends \cup {"running"}
    BY <2>2, <2>3, <2>4
  <2>7. turn'[t] = [msg |-> EntryOf(t).msg, stage |-> "closed", status |-> st, items |-> its]
    BY <1>5, <2>4, <2>5
  <2>. QED  BY <2>1, <2>2, <2>3, <2>5, <2>6, <2>7
<1>7. \A t \in TurnIds \ IndexedTurns : turn'[t] = NoTurn
  BY <1>1
<1>8. turn' \in TurnStates
  <2>1. \A t \in TurnIds : turn'[t] \in [msg : Messages \cup {NoMessage}, status : Ends \cup {"running"},
                           stage : Stages, items : Seq(Kinds)]
    BY <1>6, <1>7, NoTurnTyped
  <2>2. turn' = [t \in TurnIds |-> turn'[t]]
    BY <1>1
  <2>. QED  BY <2>1, <2>2 DEF TurnStates
<1>. QED  BY <1>1, <1>4, <1>5, <1>7, <1>8

LEMMA SettledTyped ==
    ASSUME TypeInv, NEW t \in TurnIds
    PROVE  /\ [journal EXCEPT !.full = {}] \in Journals /\ Added(t) \in Seq(Kinds)
           /\ Settled1(t) \in Journals
<1>1. [journal EXCEPT !.full = {}] \in Journals
  BY Unsteady DEF Journals
<1>2. Added(t) \in Seq(Kinds)
  BY ReconciledTyped, KindsWritten DEF Added
<1>3. PICK j : j = [journal EXCEPT !.full = {}]
  OBVIOUS
<1>. QED  BY <1>1, <1>2, <1>3, Unsteady, StoredTyped DEF Settled1

\* What an /open leaves of a runner it replaces.
LEMMA OpensBeside ==
    ASSUME TypeInv, Opens
    PROVE  /\ lease' \in Leases /\ Parted(leaving')
           /\ client' \in Clients /\ client'.turn = client.turn /\ client'.seen = client.seen
           /\ (client'.state \in {"on", "waiting", "parting"} => client'.turn \in TurnIds)
           /\ (scope.hazard # "overlap"
                 => UNCHANGED <<lease, leaving, client>> /\ (runner = "down" \/ (runner = "dead" /\ Over)))
<1>1. CASE UNCHANGED <<lease, leaving, client>> /\ (runner = "down" \/ (runner = "dead" /\ Over))
  BY <1>1, Unsteady
<1>2. CASE Replaces
  <2>1. /\ scope.hazard = "overlap" /\ lease' = Unstarted
        /\ \/ leaving' = Gone
           \/ leaving' = [turn |-> turn, index |-> index, posts |-> InBookkeeping]
        /\ \/ client' = client
           \/ /\ client.state \in {"on", "waiting"}
              /\ \/ client' = [client EXCEPT !.state = "on"]
                 \/ client' = [client EXCEPT !.state = "parting"]
    BY <1>2 DEF Replaces, Streaming
  <2>2. lease' \in Leases
    BY <2>1, Unsteady DEF Leases, Unstarted
  <2>3. /\ client' \in Clients /\ client'.turn = client.turn /\ client'.seen = client.seen
        /\ (client'.state \in {"on", "waiting", "parting"} => client'.turn \in TurnIds)
    BY <2>1, Unsteady DEF Clients
  <2>4. Parted(leaving')
    <3>1. CASE leaving' = Gone
      BY <3>1, GoneTyped
    <3>2. CASE leaving' = [turn |-> turn, index |-> index, posts |-> InBookkeeping]
      <4>1. PICK lv : lv = [turn |-> turn, index |-> index, posts |-> InBookkeeping]
        OBVIOUS
      <4>2. InBookkeeping \in SUBSET TurnIds /\ \A t \in InBookkeeping : turn[t].msg \in Messages
        BY DEF InBookkeeping, TypeInv, Known
      <4>3. lv \in Leavings /\ lv.posts = InBookkeeping /\ lv.turn = turn /\ lv.index = index
        BY <4>1, <4>2, Unsteady DEF Leavings
      <4>4. Parted(lv)
        BY <4>2, <4>3, Unsteady DEF Parted
      <4>. QED  BY <3>2, <4>1, <4>4
    <3>. QED  BY <2>1, <3>1, <3>2
  <2>. QED  BY <2>1, <2>2, <2>3, <2>4
<1>. QED  BY <1>1, <1>2 DEF Opens

LEMMA OpensTyped == ASSUME TypeInv, Opens PROVE TypeInv'
<1>1. journal' \in Journals
  <2>1. \A t \in TurnIds : Settled1(t).files[t] \in Seq(Kinds)
    BY SettledTyped DEF Journals
  <2>2. journal' = [files |-> [t \in TurnIds |-> Settled1(t).files[t]],
                    full |-> {t \in TurnIds : t \in Settled1(t).full}]
    BY OpensFacts
  <2>. QED  BY <2>1, <2>2 DEF Journals
<1>2. /\ index \in Seq(IndexRows) /\ Len(index) \in Nat /\ Len(index) <= Keep /\ DOMAIN index = 1..Len(index)
      /\ \A i \in 1..Len(index) : index[i] \in IndexRows
  BY Unsteady, LenProperties, ElementOfSeq
<1>3. \A i \in 1..Len(index) : index[i].turn \in TurnIds \cap IndexedTurns
  BY <1>2 DEF IndexRows, IndexedTurns, ToSet
<1>4. index' \in Seq(IndexRows) /\ Len(index') = Len(index)
  <2>1. PICK f : f = [i \in 1..Len(index) |-> turn'[index[i].turn].status]
    OBVIOUS
  <2>2. \A i \in 1..Len(index) : f[i] = turn'[index[i].turn].status
    BY <2>1
  <2>3. \A i \in 1..Len(index) : f[i] \in Ends \cup {"running"}
    BY <1>3, <2>2, OpensFacts DEF TurnStates
  <2>4. index' = [i \in 1..Len(index) |-> [index[i] EXCEPT !.status = f[i]]]
    BY <1>2, <2>2, OpensFacts
  <2>5. \A i \in 1..Len(index) : [index[i] EXCEPT !.status = f[i]] \in IndexRows
    BY <1>2, <2>3 DEF IndexRows
  <2>. QED  BY <1>2, <2>4, <2>5
<1>5. /\ order' \in Seq(TurnIds) /\ Len(order') <= RamKeep
      /\ \A i \in DOMAIN order' : turn'[order'[i]].stage # "none"
  <2>1. PICK s : s = [i \in 1..Len(index) |-> index[i].turn]
    OBVIOUS
  <2>2. s \in Seq(TurnIds) /\ Len(s) = Len(index) /\ \A i \in 1..Len(index) : s[i] = index[i].turn
    BY <1>2, <1>3, <2>1
  <2>3. order' = Newest(RamKeep, s)
    BY <1>2, <2>1, OpensFacts
  <2>4. PICK r : r = Newest(RamKeep, s)
    OBVIOUS
  <2>5. /\ r \in Seq(TurnIds) /\ Len(r) <= RamKeep /\ Len(r) <= Len(s)
        /\ \A i \in 1..Len(r) : r[i] = s[i + (Len(s) - Len(r))]
    BY <2>2, <2>4, Bounds, NewestFacts
  <2>6. Len(r) \in Nat /\ DOMAIN r = 1..Len(r)
    BY <2>5, LenProperties
  <2>7. ASSUME NEW i \in 1..Len(r) PROVE turn'[r[i]].stage # "none"
    <3>1. i + (Len(s) - Len(r)) \in 1..Len(index)
      BY <1>2, <2>2, <2>5, <2>6
    <3>2. r[i] \in TurnIds \cap IndexedTurns
      BY <3>1, <2>2, <2>5, <1>3
    <3>3. turn'[r[i]].stage = "closed"
      BY <3>2, OpensFacts
    <3>. QED  BY <3>3
  <2>. QED  BY <2>3, <2>4, <2>5, <2>6, <2>7
<1>6. \A t \in TurnIds : turn'[t].stage # "none" => turn'[t].msg \in Messages
  <2>1. ASSUME NEW t \in TurnIds \ IndexedTurns PROVE turn'[t].stage = "none"
    <3>1. turn'[t] = NoTurn
      BY OpensFacts
    <3>. QED  BY <3>1 DEF NoTurn
  <2>2. ASSUME NEW t \in TurnIds \cap IndexedTurns PROVE turn'[t].msg \in Messages
    <3>1. turn'[t].msg = EntryOf(t).msg /\ EntryOf(t) \in IndexRows
      BY OpensFacts
    <3>. QED  BY <3>1 DEF IndexRows
  <2>. QED  BY <2>1, <2>2
<1>7. used \in Uses
  BY DEF TypeInv, Counts, Uses
<1>8. /\ turn' \in TurnStates /\ runner' = "up" /\ current' = 0 /\ start' = Idle
      /\ asking' = FALSE /\ queue' = <<>> /\ limbo' = <<>>
      /\ UNCHANGED <<waiter, prompts, used, scope>>
  BY OpensFacts
<1>9. /\ lease' \in Leases /\ Parted(leaving')
      /\ client' \in Clients /\ (client'.state \in {"on", "waiting", "parting"} => client'.turn \in TurnIds)
      /\ (scope.hazard # "overlap" => leaving'.posts = {} /\ client'.state # "parting")
  BY OpensBeside, Unsteady
<1>10. Reset
  BY <1>1, <1>2, <1>4, <1>5, <1>6, <1>7, <1>8, <1>9, Unsteady DEF Reset
<1>. QED  BY <1>10, ResetTyped

-----------------------------------------------------------------------------
(* Types, always.                                                          *)

LEMMA TypesInit == ASSUME Init PROVE TypeInv
<1>1. /\ scope \in Scopes /\ runner = "down" /\ turn = [t \in TurnIds |-> NoTurn]
      /\ order = <<>> /\ current = 0 /\ start = Idle /\ asking = FALSE
      /\ queue = <<>> /\ limbo = <<>> /\ leaving = Gone
      /\ lease = "free" /\ waiter = FALSE /\ index = <<>>
      /\ journal = [files |-> [t \in TurnIds |-> <<>>], full |-> {}]
      /\ client = [turn |-> 0, seen |-> <<>>, state |-> "off"]
      /\ prompts = <<>>
      /\ used = [turns |-> 0, sends |-> 0, fails |-> 0, restarts |-> 0]
  BY DEF Init, NoTurns
<1>2. /\ scope.sends \in Nat /\ scope.fails \in Nat /\ 0 \in 0..MaxTurns
      /\ Depth \in Nat /\ RamKeep \in Nat /\ Keep \in Nat
  BY <1>1, Parameters, Bounds
<1>3. \A S : <<>> \in Seq(S)
  BY EmptySeq
<1>4. Len(<<>>) = 0 /\ DOMAIN <<>> = {}
  BY EmptySeq
<1>5. turn \in TurnStates /\ \A t \in TurnIds : turn[t].stage = "none"
  <2>1. NoTurn.stage = "none"
    BY DEF NoTurn
  <2>. QED  BY <2>1, <1>1, NoTurnTyped DEF TurnStates
<1>6. start \in Starts
  BY <1>1, <1>2 DEF Starts, Idle
<1>7. /\ queue \in Seq(Messages) /\ limbo \in Seq(Messages) /\ leaving \in Leavings
      /\ Len(queue) + Len(limbo) <= Depth + used.fails + (IF runner = "dead" THEN 1 ELSE 0)
  BY <1>1, <1>2, <1>3, <1>4, GoneTyped DEF Parted
<1>8. journal \in Journals
  BY <1>1, KindsWritten DEF Journals
<1>9. client \in Clients /\ client.state = "off"
  BY <1>1, <1>2, KindsWritten DEF Clients
<1>10. /\ order \in Seq(TurnIds) /\ Len(order) <= RamKeep /\ index \in Seq(IndexRows)
       /\ Len(index) <= Keep /\ prompts \in Seq(Messages) /\ DOMAIN order = {}
  BY <1>1, <1>2, <1>3, <1>4
<1>11. TypeOK
  BY <1>1, <1>2, <1>5, <1>6, <1>7, <1>8, <1>9, <1>10
     DEF TypeOK, Leavings, Journals, Starts, Clients
<1>12. Known
  BY <1>1, <1>5, <1>9, <1>10, GoneTyped DEF Known
<1>13. Counts
  BY <1>1, <1>2, <1>4 DEF Counts, Dead, Starting
<1>14. Alone
  BY <1>1, <1>9, GoneTyped DEF Alone
<1>. QED  BY <1>11, <1>12, <1>13, <1>14 DEF TypeInv

LEMMA TypesKept == ASSUME TypeInv, [Next]_vars PROVE TypeInv'
<1>1. CASE \E m \in Messages : SendQueues(m) \/ SendStarts(m) \/ Dequeues(m)
  BY <1>1, SendQueuesTyped, SendStartsTyped, DequeuesTyped
<1>2. CASE PromptSent \/ StartFails \/ PutsBack \/ TurnEnds
  BY <1>2, PromptSentTyped, StartFailsTyped, PutsBackTyped, TurnEndsTyped
<1>3. CASE \E t \in TurnIds : BookkeepingDone(t) \/ TurnCloses(t) \/ LeavingDone(t)
  BY <1>3, BookkeepingTyped, TurnClosesTyped, LeavingDoneTyped
<1>4. CASE AgentAsks \/ Responds \/ OtherTakes \/ OtherReleases \/ AgentExits
  BY <1>4, AgentAsksTyped, RespondsTyped, OtherTakesTyped, OtherReleasesTyped, AgentExitsTyped
<1>5. CASE Drops \/ DropBegins \/ CrashBetween \/ CrashInStart \/ Opens \/ CrashInOpen
  BY <1>5, DropsTyped, DropBeginsTyped, CrashBetweenTyped, CrashInStartTyped, OpensTyped,
     CrashInOpenTyped
<1>6. CASE (\E t \in TurnIds : Follows(t)) \/ FollowGoesOn \/ UNCHANGED vars
  BY <1>6, FollowsTyped, FollowGoesOnTyped, StutterTyped
<1>. QED  BY <1>1, <1>2, <1>3, <1>4, <1>5, <1>6 DEF Next, TurnSteps

\* Every reachable state is well typed, with the facts the other proofs rest on.
THEOREM AlwaysTyped == Spec => []TypeInv
BY TypesInit, TypesKept, PTL DEF Spec

\* Every variable keeps its type for any number of messages and turns, any bounds
\* and hazards, an /open over the end of a runner included: the queue exceeds
\* max_queue_depth by at most one follow-up for each start that failed before,
\* whoever resends, drains or dies (enqueue, _maybe_drain_queue).
THEOREM TypesCorrect == Spec => []TypeOK
<1>1. TypeInv => TypeOK
  BY DEF TypeInv
<1>. QED  BY <1>1, AlwaysTyped, PTL

-----------------------------------------------------------------------------
(* What the steps that may start a turn come to.                           *)

LastOf(s) == s[Len(s)]

\* How a step that may start a turn counts it.
Counting ==
    /\ (current' = current => used'.turns = used.turns)
    /\ (current' # current => used'.turns = used.turns + 1)

-----------------------------------------------------------------------------
(* What a step that may start a turn makes of what it was handed.          *)

NewTurn(m) == [msg |-> m, status |-> "running", stage |-> "pre", items |-> <<"turn">>]
Opening(ts, m) == [ts EXCEPT ![used.turns + 1] = NewTurn(m)]

Outcome(ts, j, idx) ==
    \/ /\ turn' = ts /\ journal' = j /\ index' = idx /\ client' = client /\ current' = current
       /\ used'.turns = used.turns
    \/ /\ runner = "up" /\ ~Busy /\ order # <<>>
       /\ turn' = ts /\ index' = Noted(idx, ts, LastOf(order)) /\ journal' = Pruned(j, index')
       /\ client' = client /\ current' = current /\ used'.turns = used.turns
    \/ /\ runner = "up" /\ ~Busy /\ used.turns < MaxTurns
       /\ \E m \in Messages : ~Handled(m) /\ turn' = Opening(ts, m)
       /\ index' = idx /\ journal' = Stored(j, used.turns + 1, <<"turn">>)
       /\ client' = Woken /\ current' = used.turns + 1 /\ used'.turns = used.turns + 1

LEMMA OutcomeNothing ==
    ASSUME NEW ts, NEW j, NEW idx, NEW q, NEW l, NEW w, BeginsNothing(ts, j, idx, q, l, w), Counting
    PROVE  Outcome(ts, j, idx)
BY DEF BeginsNothing, Counting, Outcome

LEMMA OutcomePasses ==
    ASSUME NEW ts, NEW j, NEW idx, NEW q, NEW l, NEW w, PassesThrough(ts, j, idx, q, l, w), Counting,
           runner = "up", ~Busy, order # <<>>
    PROVE  Outcome(ts, j, idx)
<1>1. /\ turn' = ts /\ index' = Noted(idx, ts, Last(order)) /\ journal' = Pruned(j, Noted(idx, ts, Last(order)))
      /\ client' = client /\ current' = current
  BY DEF PassesThrough, BeginsNothing
<1>2. Last(order) = LastOf(order)
  BY DEF Last, LastOf
<1>3. used'.turns = used.turns
  BY <1>1 DEF Counting
<1>. QED  BY <1>1, <1>2, <1>3 DEF Outcome

LEMMA OutcomeBegins ==
    ASSUME TypeInv, NEW ts, NEW j, NEW idx, NEW q, NEW l, NEW w, NEW m \in Messages, NEW d, NEW by,
           Begins(m, ts, j, idx, q, l, w, d, by), Counting,
           runner = "up", ~Busy, ~Handled(m), used.turns < MaxTurns
    PROVE  Outcome(ts, j, idx)
<1>1. /\ turn' = Opening(ts, m) /\ index' = idx /\ journal' = Stored(j, used.turns + 1, <<"turn">>)
      /\ client' = Woken /\ current' = used.turns + 1
  BY DEF Begins, Opening, NewTurn
<1>2. current <= used.turns /\ used.turns \in Nat /\ current \in 0..MaxTurns
  BY TypesGiven DEF TypeInv, Counts
<1>3. used'.turns = used.turns + 1
  BY <1>1, <1>2 DEF Counting
<1>4. \E n \in Messages : ~Handled(n) /\ turn' = Opening(ts, n)
  BY <1>1
<1>. QED  BY <1>1, <1>3, <1>4 DEF Outcome

LEMMA OutcomeDrains ==
    ASSUME TypeInv, NEW ts, NEW j, NEW idx, NEW q \in Seq(Messages), NEW l, NEW w \in BOOLEAN, NEW by,
           Drains(ts, j, idx, q, l, w, by), Counting,
           runner = "up" /\ q # <<>> => used.turns < MaxTurns
    PROVE  Outcome(ts, j, idx)
<1>1. q # <<>> => Head(q) \in Messages
  BY HeadTailProperties
<1>2. CASE \E v \in BOOLEAN : BeginsNothing(ts, j, idx, q, l, v)
  BY <1>2, OutcomeNothing
<1>3. CASE /\ q # <<>> /\ runner = "up" /\ ~Busy /\ Handled(Head(q))
           /\ PassesThrough(ts, j, idx, Tail(q), l, w)
  BY <1>3, HandledListed, OutcomePasses
<1>4. ASSUME q # <<>>, runner = "up", ~Busy, ~Handled(Head(q)), NEW d \in BOOLEAN,
             Begins(Head(q), ts, j, idx, Tail(q), l, w, d, by)
      PROVE  Outcome(ts, j, idx)
  BY <1>1, <1>4, OutcomeBegins
<1>. QED  BY <1>2, <1>3, <1>4, DrainCases

LEMMA SendOutcome ==
    ASSUME TypeInv, NEW m \in Messages, SendQueues(m) \/ SendStarts(m)
    PROVE  /\ runner = "up" /\ UNCHANGED <<runner, order, asking, limbo, leaving, prompts, scope>>
           /\ \E ts, j :
                 /\ \/ ts = turn /\ j = journal
                    \/ /\ current # 0 /\ ts = Noting(turn, current, <<"queued">>)
                       /\ j = Stored(journal, current, <<"queued">>)
                 /\ Outcome(ts, j, index)
<1>1. used \in Uses
  BY DEF TypeInv, Counts, Uses
<1>2. /\ Counted("sends") /\ used.sends < scope.sends /\ runner = "up"
      /\ UNCHANGED <<runner, order, asking, limbo, leaving, prompts, scope>>
  BY DEF SendQueues, SendStarts, Bounded
<1>3. used.turns < MaxTurns
  BY <1>2, ScopeBound
<1>4. Counting
  BY <1>1, <1>2, CountedSends DEF Counting
<1>5. ASSUME NEW w \in BOOLEAN, Queues(m, w)
      PROVE  \E ts, j :
                 /\ \/ ts = turn /\ j = journal
                    \/ /\ current # 0 /\ ts = Noting(turn, current, <<"queued">>)
                       /\ j = Stored(journal, current, <<"queued">>)
                 /\ Outcome(ts, j, index)
  <2>1. PICK q, ts, j :
              /\ \/ q = queue /\ ts = turn /\ j = journal
                 \/ /\ m \notin ToSet(queue) /\ ~Handled(m) /\ ~IsFull(queue) /\ q = Append(queue, m)
                    /\ \/ current = 0 /\ ts = turn /\ j = journal
                       \/ /\ current # 0 /\ ts = Noting(turn, current, <<"queued">>)
                          /\ j = Stored(journal, current, <<"queued">>)
              /\ \/ BeginsNothing(ts, j, index, q, lease, w \/ waiter)
                 \/ ~Busy /\ Drains(ts, j, index, q, lease, waiter, 0)
    BY <1>5, QueueCases
  <2>2. q \in Seq(Messages)
    <3>1. queue \in Seq(Messages) /\ Append(queue, m) \in Seq(Messages)
      BY Unsteady, AppendProperties
    <3>. QED  BY <2>1, <3>1
  <2>3. CASE BeginsNothing(ts, j, index, q, lease, w \/ waiter)
    <3>1. PICK v : v = (w \/ waiter)
      OBVIOUS
    <3>2. Outcome(ts, j, index)
      BY <2>3, <3>1, <1>4, OutcomeNothing
    <3>. QED  BY <2>1, <3>2
  <2>4. CASE Drains(ts, j, index, q, lease, waiter, 0)
    <3>1. waiter \in BOOLEAN
      BY Unsteady
    <3>2. Outcome(ts, j, index)
      BY <2>2, <2>4, <3>1, <1>3, <1>4, OutcomeDrains
    <3>. QED  BY <2>1, <3>2
  <2>. QED  BY <2>1, <2>3, <2>4
<1>6. ASSUME ~Busy, NEW d \in BOOLEAN, StartsOrPasses(m, turn, journal, index, queue, lease, waiter, d, 0)
      PROVE  Outcome(turn, journal, index)
  <2>1. \/ Handled(m) /\ PassesThrough(turn, journal, index, queue, lease, waiter)
        \/ ~Handled(m) /\ Begins(m, turn, journal, index, queue, lease, waiter, d, 0)
    BY <1>6, StartCases
  <2>2. CASE Handled(m) /\ PassesThrough(turn, journal, index, queue, lease, waiter)
    BY <1>2, <1>4, <1>6, <2>2, HandledListed, OutcomePasses
  <2>3. CASE ~Handled(m) /\ Begins(m, turn, journal, index, queue, lease, waiter, d, 0)
    BY <1>2, <1>3, <1>4, <1>6, <2>3, OutcomeBegins
  <2>. QED  BY <2>1, <2>2, <2>3
<1>7. CASE SendQueues(m)
  <2>1. Queues(m, FALSE)
    BY <1>7 DEF SendQueues
  <2>. QED  BY <2>1, <1>2, <1>5
<1>8. CASE SendStarts(m)
  <2>1. ~Busy /\ (Queues(m, TRUE) \/ StartsOrPasses(m, turn, journal, index, queue, lease, waiter, FALSE, 0))
    BY <1>8 DEF SendStarts
  <2>2. CASE Queues(m, TRUE)
    BY <2>2, <1>2, <1>5
  <2>3. CASE StartsOrPasses(m, turn, journal, index, queue, lease, waiter, FALSE, 0)
    <3>1. Outcome(turn, journal, index)
      BY <2>1, <2>3, <1>6
    <3>. QED  BY <3>1, <1>2
  <2>. QED  BY <2>1, <2>2, <2>3
<1>. QED  BY <1>7, <1>8

LEMMA BookkeepingOutcome ==
    ASSUME TypeInv, NEW t \in TurnIds, BookkeepingDone(t)
    PROVE  /\ runner # "down" /\ turn[t].stage = "post"
           /\ UNCHANGED <<runner, order, asking, limbo, leaving, prompts, scope>>
           /\ Outcome(Handing(t), Stored(journal, t, <<"post">>), Noted(index, Handing(t), t))
<1>1. /\ turn[t].stage = "post" /\ UNCHANGED <<runner, order, asking, limbo, leaving, prompts, scope>> /\ used' = Begun
      /\ Drains(Handing(t), Stored(journal, t, <<"post">>), Noted(index, Handing(t), t), queue,
                IF lease = "mine" THEN "free" ELSE lease, waiter, t)
      /\ runner # "down"
  BY DEF BookkeepingDone, Handing
<1>2. used \in Uses
  BY DEF TypeInv, Counts, Uses
<1>3. Counting
  BY <1>1, <1>2, BegunFacts DEF Counting
<1>4. queue \in Seq(Messages) /\ waiter \in BOOLEAN /\ (runner = "up" /\ queue # <<>> => used.turns < MaxTurns)
  BY Unsteady, ScopeBound
<1>. QED  BY <1>1, <1>3, <1>4, OutcomeDrains

LEMMA ReleaseOutcome ==
    ASSUME TypeInv, OtherReleases
    PROVE  UNCHANGED <<runner, order, asking, limbo, leaving, prompts, scope>> /\ Outcome(turn, journal, index)
<1>1. /\ UNCHANGED <<runner, order, asking, limbo, leaving, prompts, scope>> /\ used' = Begun
      /\ \/ Drains(turn, journal, index, queue, "free", FALSE, 0)
         \/ BeginsNothing(turn, journal, index, queue, "free", FALSE)
  BY DEF OtherReleases
<1>2. used \in Uses
  BY DEF TypeInv, Counts, Uses
<1>3. Counting
  BY <1>1, <1>2, BegunFacts DEF Counting
<1>4. queue \in Seq(Messages) /\ (runner = "up" /\ queue # <<>> => used.turns < MaxTurns)
  BY Unsteady, ScopeBound
<1>5. ASSUME NEW w \in BOOLEAN, Drains(turn, journal, index, queue, "free", w, 0)
      PROVE  Outcome(turn, journal, index)
  BY <1>3, <1>4, <1>5, OutcomeDrains
<1>6. ASSUME NEW w \in BOOLEAN, BeginsNothing(turn, journal, index, queue, "free", w)
      PROVE  Outcome(turn, journal, index)
  BY <1>3, <1>6, OutcomeNothing
<1>. QED  BY <1>1, <1>5, <1>6

LEMMA OpeningFacts ==
    ASSUME TypeInv, NEW ts \in TurnStates, NEW m \in Messages, used.turns < MaxTurns, NEW n, n = used.turns + 1
    PROVE  /\ n \in TurnIds
           /\ Opening(ts, m) \in TurnStates
           /\ Opening(ts, m)[n].msg = m /\ Opening(ts, m)[n].status = "running"
           /\ Opening(ts, m)[n].stage = "pre" /\ Opening(ts, m)[n].items = <<"turn">>
           /\ \A u \in TurnIds \ {n} : Opening(ts, m)[u] = ts[u]
<1>1. n \in TurnIds
  BY ScopeBound, Bounds DEF TurnIds
<1>2. <<"turn">> \in Seq(Kinds) /\ "pre" \in Stages
  BY KindsWritten DEF Kinds, Stages
<1>3. NewTurn(m) \in [msg : Messages \cup {NoMessage}, status : Ends \cup {"running"},
                      stage : Stages, items : Seq(Kinds)]
  BY <1>2 DEF NewTurn
<1>4. /\ NewTurn(m).msg = m /\ NewTurn(m).status = "running" /\ NewTurn(m).stage = "pre"
      /\ NewTurn(m).items = <<"turn">>
  BY DEF NewTurn
<1>5. Opening(ts, m) = [ts EXCEPT ![n] = NewTurn(m)]
  BY DEF Opening
<1>6. /\ Opening(ts, m) \in TurnStates /\ Opening(ts, m)[n] = NewTurn(m)
      /\ \A u \in TurnIds \ {n} : Opening(ts, m)[u] = ts[u]
  BY <1>1, <1>3, <1>5 DEF TurnStates
<1>. QED  BY <1>1, <1>4, <1>6

-----------------------------------------------------------------------------
(* No message twice: the index knows the last turn and its message.        *)

\* The index has a turn once, a turn only after its prompt, the message the turn
\* has; the running turn is in it; and its newest entry is the last turn.
Entries ==
    /\ \A i, k \in 1..Len(index) : index[i].turn = index[k].turn => i = k
    /\ \A i \in 1..Len(index) : index[i].turn <= used.turns /\ ~(Starting /\ index[i].turn = current)
    /\ runner # "down" => \A i \in 1..Len(index) : turn[index[i].turn].msg = index[i].msg
    /\ Running => \E i \in 1..Len(index) : index[i].turn = current
    /\ order # <<>> => index # <<>> /\ LastOf(index).turn = LastOf(order)

\* The message the agent was last prompted with is that of the index's newest
\* entry and, in a runner, of its last turn; a start in flight is of another.
Prompted ==
    scope.hazard # "in_step" =>
        /\ prompts # <<>> => index # <<>> /\ LastOf(index).msg = LastOf(prompts)
        /\ prompts # <<>> /\ runner # "down" => order # <<>> /\ turn[LastOf(order)].msg = LastOf(prompts)
        /\ prompts # <<>> /\ Starting => turn[current].msg # LastOf(prompts)
        /\ \A i \in 1..(Len(prompts) - 1) : prompts[i] # prompts[i + 1]

OnceInv == TypeInv /\ Entries /\ Prompted

\* What a step that adds no entry leaves of the index.
Stays(idx) ==
    /\ idx \in Seq(IndexRows) /\ Len(idx) <= Keep /\ Len(idx) = Len(index)
    /\ \A i \in 1..Len(index) : idx[i].turn = index[i].turn /\ idx[i].msg = index[i].msg

\* What a step that moves no turn into a start or a run leaves of the turns.
Calm(ts) ==
    /\ ts \in TurnStates
    /\ \A t \in TurnIds : /\ ts[t].msg = turn[t].msg
                          /\ (ts[t].stage = "pre" => turn[t].stage = "pre")
                          /\ (ts[t].stage = "run" => turn[t].stage = "run")

LEMMA Lengths ==
    ASSUME TypeInv
    PROVE  /\ Len(index) \in Nat /\ DOMAIN index = 1..Len(index) /\ (index # <<>> <=> Len(index) > 0)
           /\ Len(order) \in Nat /\ DOMAIN order = 1..Len(order) /\ (order # <<>> <=> Len(order) > 0)
           /\ Len(prompts) \in Nat /\ (prompts # <<>> <=> Len(prompts) > 0)
           /\ \A i \in 1..Len(index) : index[i] \in IndexRows /\ index[i].turn \in TurnIds
                                       /\ index[i].msg \in Messages
           /\ \A i \in 1..Len(order) : order[i] \in TurnIds
<1>1. index \in Seq(IndexRows) /\ order \in Seq(TurnIds) /\ prompts \in Seq(Messages)
  BY Unsteady
<1>2. \A i \in 1..Len(index) : index[i] \in IndexRows
  BY <1>1, ElementOfSeq
<1>3. \A i \in 1..Len(order) : order[i] \in TurnIds
  BY <1>1, ElementOfSeq
<1>4. /\ Len(index) \in Nat /\ DOMAIN index = 1..Len(index) /\ (index # <<>> <=> Len(index) > 0)
      /\ Len(order) \in Nat /\ DOMAIN order = 1..Len(order) /\ (order # <<>> <=> Len(order) > 0)
      /\ Len(prompts) \in Nat /\ (prompts # <<>> <=> Len(prompts) > 0)
  BY <1>1, LenProperties, EmptySeq
<1>. QED  BY <1>2, <1>3, <1>4 DEF IndexRows

LEMMA StaysSame == ASSUME TypeInv PROVE Stays(index) /\ Calm(turn)
BY Unsteady DEF Stays, Calm

LEMMA NotedStays ==
    ASSUME OnceInv, runner # "down", NEW idx, Stays(idx), NEW ts, Calm(ts), NEW t \in TurnIds,
           \E i \in 1..Len(index) : index[i].turn = t
    PROVE  Stays(Noted(idx, ts, t))
<1>1. PICK k \in 1..Len(index) : index[k].turn = t
  OBVIOUS
<1>2. /\ TypeInv /\ idx \in Seq(IndexRows) /\ Len(idx) <= Keep /\ Len(idx) = Len(index)
      /\ \A i \in 1..Len(index) : idx[i].turn = index[i].turn /\ idx[i].msg = index[i].msg
  BY DEF OnceInv, Stays
<1>3. \A i \in 1..Len(index) : turn[index[i].turn].msg = index[i].msg
  BY DEF OnceInv, Entries
<1>4. ts \in TurnStates /\ ts[t].msg = turn[t].msg /\ ts[t].msg \in Messages
  BY <1>1, <1>2, <1>3, Lengths DEF Calm
<1>5. Indexed(idx, t)
  <2>1. k \in DOMAIN idx /\ idx[k].turn = t
    BY <1>1, <1>2, LenProperties
  <2>. QED  BY <2>1 DEF Indexed
<1>6. PICK r : r = Noted(idx, ts, t)
  OBVIOUS
<1>7. /\ r \in Seq(IndexRows) /\ Len(r) <= Keep /\ Len(r) = Len(idx)
      /\ \A i \in 1..Len(idx) : r[i] = IF idx[i].turn = t THEN Entry(ts, t) ELSE idx[i]
  BY <1>2, <1>4, <1>5, <1>6, NotedTyped
<1>8. ASSUME NEW i \in 1..Len(index) PROVE r[i].turn = index[i].turn /\ r[i].msg = index[i].msg
  <2>1. CASE index[i].turn = t
    <3>1. r[i] = Entry(ts, t)
      BY <1>2, <1>7, <2>1
    <3>2. r[i].turn = t /\ r[i].msg = ts[t].msg
      BY <3>1 DEF Entry
    <3>. QED  BY <3>2, <2>1, <1>3, <1>4
  <2>2. CASE index[i].turn # t
    <3>1. r[i] = idx[i]
      BY <1>2, <1>7, <2>2
    <3>. QED  BY <3>1, <1>2
  <2>. QED  BY <2>1, <2>2
<1>9. Stays(r)
  BY <1>2, <1>7, <1>8 DEF Stays
<1>. QED  BY <1>6, <1>9

\* Steps that start no turn.
LEMMA OnceSteady ==
    ASSUME OnceInv, TypeInv', Stays(index'), Calm(turn'),
           UNCHANGED <<current, order, prompts, scope>>, used'.turns = used.turns,
           runner' # "down" => runner # "down"
    PROVE  OnceInv'
<1>1. /\ TypeInv /\ Entries /\ Prompted
  BY DEF OnceInv
<1>2. /\ Len(index') = Len(index)
      /\ \A i \in 1..Len(index) : index'[i].turn = index[i].turn /\ index'[i].msg = index[i].msg
      /\ index' \in Seq(IndexRows)
  BY DEF Stays
<1>3. /\ Len(index) \in Nat /\ (index # <<>> <=> Len(index) > 0) /\ (index' # <<>> <=> Len(index') > 0)
      /\ (order # <<>> => Len(order) \in 1..Len(order) /\ LastOf(order) \in TurnIds)
  BY <1>1, <1>2, Lengths, EmptySeq, LenProperties DEF LastOf
<1>4. current \in 0..MaxTurns /\ (current # 0 => current \in TurnIds)
  BY <1>1, TypesGiven
<1>5. /\ (Starting' => Starting) /\ (Running' => Running)
      /\ (Starting' => turn'[current].msg = turn[current].msg)
  BY <1>4 DEF Starting, Running, Calm
<1>6. (LastOf(index').turn = LastOf(index).turn /\ LastOf(index').msg = LastOf(index).msg) \/ index = <<>>
  BY <1>2, <1>3 DEF LastOf
<1>7. \A i \in 1..Len(index) : turn'[index[i].turn].msg = turn[index[i].turn].msg
  BY <1>1, Lengths DEF Calm
<1>8. order # <<>> => turn'[LastOf(order)].msg = turn[LastOf(order)].msg
  BY <1>3 DEF Calm
<1>9. Entries'
  <2>1. \A i, k \in 1..Len(index') : index'[i].turn = index'[k].turn => i = k
    BY <1>1, <1>2 DEF Entries
  <2>2. \A i \in 1..Len(index') : index'[i].turn <= used'.turns /\ ~(Starting' /\ index'[i].turn = current')
    BY <1>1, <1>2, <1>5 DEF Entries
  <2>3. runner' # "down" => \A i \in 1..Len(index') : turn'[index'[i].turn].msg = index'[i].msg
    BY <1>1, <1>2, <1>7 DEF Entries
  <2>4. Running' => \E i \in 1..Len(index') : index'[i].turn = current'
    BY <1>1, <1>2, <1>5 DEF Entries
  <2>5. order' # <<>> => index' # <<>> /\ LastOf(index').turn = LastOf(order')
    BY <1>1, <1>2, <1>3, <1>6 DEF Entries
  <2>. QED  BY <2>1, <2>2, <2>3, <2>4, <2>5 DEF Entries
<1>10. Prompted'
  <2>. SUFFICES ASSUME scope.hazard # "in_step" PROVE Prompted'
    BY DEF Prompted
  <2>1. prompts # <<>> => index' # <<>> /\ LastOf(index').msg = LastOf(prompts)
    BY <1>1, <1>2, <1>3, <1>6 DEF Prompted
  <2>2. prompts # <<>> /\ runner' # "down"
            => order # <<>> /\ turn'[LastOf(order)].msg = LastOf(prompts)
    BY <1>1, <1>8 DEF Prompted
  <2>3. prompts # <<>> /\ Starting' => turn'[current].msg # LastOf(prompts)
    BY <1>1, <1>5 DEF Prompted
  <2>4. \A i \in 1..(Len(prompts) - 1) : prompts[i] # prompts[i + 1]
    BY <1>1 DEF Prompted
  <2>. QED  BY <2>1, <2>2, <2>3, <2>4 DEF Prompted
<1>. QED  BY <1>9, <1>10 DEF OnceInv

\* Steps that begin a turn.
LEMMA OnceBegins ==
    ASSUME OnceInv, TypeInv', NEW ts, Calm(ts), Stays(index'), NEW m \in Messages, ~Handled(m),
           used.turns < MaxTurns, turn' = Opening(ts, m), current' = used.turns + 1,
           runner = "up", UNCHANGED <<runner, order, prompts, scope>>, used'.turns = used.turns + 1
    PROVE  OnceInv'
<1>. DEFINE t == used.turns + 1
<1>1. /\ TypeInv /\ Entries /\ Prompted
  BY DEF OnceInv
<1>2. t \in TurnIds /\ used.turns \in Nat
  BY <1>1, ScopeBound, Bounds DEF TurnIds
<1>3. turn' = Opening(ts, m) /\ current' = t /\ ts \in TurnStates
  BY DEF Calm
<1>4. t = used.turns + 1 /\ t > used.turns
  BY <1>2
<1>. HIDE DEF t
<1>5. /\ turn'[t].msg = m /\ turn'[t].stage = "pre"
      /\ \A u \in TurnIds \ {t} : turn'[u].msg = turn[u].msg
  BY <1>1, <1>3, <1>4, OpeningFacts DEF Calm
<1>6. /\ Len(index') = Len(index)
      /\ \A i \in 1..Len(index) : index'[i].turn = index[i].turn /\ index'[i].msg = index[i].msg
      /\ index' \in Seq(IndexRows)
  BY DEF Stays
<1>7. /\ Len(index) \in Nat /\ (index # <<>> <=> Len(index) > 0) /\ (index' # <<>> <=> Len(index') > 0)
      /\ (order # <<>> => LastOf(order) \in TurnIds)
  BY <1>1, <1>6, Lengths, EmptySeq, LenProperties DEF LastOf
<1>8. (LastOf(index').turn = LastOf(index).turn /\ LastOf(index').msg = LastOf(index).msg) \/ index = <<>>
  BY <1>6, <1>7 DEF LastOf
<1>9. \A i \in 1..Len(index) : index[i].turn \in TurnIds \ {t} /\ index[i].turn <= t
  <2>1. \A i \in 1..Len(index) : index[i].turn \in TurnIds /\ index[i].turn <= used.turns
    BY <1>1, Lengths DEF Entries
  <2>2. ASSUME NEW n \in TurnIds, n <= used.turns PROVE n \in TurnIds \ {t} /\ n <= t
    BY <2>2, <1>2, <1>4 DEF TurnIds
  <2>. QED  BY <2>1, <2>2
<1>10. order # <<>> => LastOf(order) \in TurnIds \ {t}
  <2>1. order # <<>> => Len(index) \in 1..Len(index) /\ LastOf(order) = index[Len(index)].turn
    BY <1>1, <1>7 DEF Entries, LastOf
  <2>. QED  BY <2>1, <1>7, <1>9
<1>11. Starting' /\ ~Running' /\ current' = t
  BY <1>2, <1>3, <1>5 DEF Starting, Running, TurnIds
<1>12. order # <<>> => turn[LastOf(order)].msg # m
  BY DEF Handled, Last, LastOf
<1>13. Entries'
  <2>1. \A i, k \in 1..Len(index') : index'[i].turn = index'[k].turn => i = k
    BY <1>1, <1>6 DEF Entries
  <2>2. \A i \in 1..Len(index') : index'[i].turn <= used'.turns /\ ~(Starting' /\ index'[i].turn = current')
    BY <1>4, <1>6, <1>9, <1>11
  <2>3. runner' # "down" => \A i \in 1..Len(index') : turn'[index'[i].turn].msg = index'[i].msg
    BY <1>1, <1>5, <1>6, <1>9 DEF Entries
  <2>4. order' # <<>> => index' # <<>> /\ LastOf(index').turn = LastOf(order')
    BY <1>1, <1>6, <1>7, <1>8 DEF Entries
  <2>. QED  BY <2>1, <2>2, <2>3, <2>4, <1>11 DEF Entries
<1>14. Prompted'
  <2>. SUFFICES ASSUME scope.hazard # "in_step" PROVE Prompted'
    BY DEF Prompted
  <2>0. runner # "down"
    OBVIOUS
  <2>1. prompts # <<>> => index' # <<>> /\ LastOf(index').msg = LastOf(prompts)
    BY <1>1, <1>6, <1>7, <1>8 DEF Prompted
  <2>2. prompts # <<>> => order # <<>> /\ turn[LastOf(order)].msg = LastOf(prompts)
    BY <1>1, <2>0 DEF Prompted
  <2>3. prompts # <<>> => order # <<>> /\ turn'[LastOf(order)].msg = LastOf(prompts)
    BY <2>2, <1>5, <1>10
  <2>4. prompts # <<>> => turn'[current'].msg # LastOf(prompts)
    BY <2>2, <1>5, <1>11, <1>12
  <2>5. \A i \in 1..(Len(prompts) - 1) : prompts[i] # prompts[i + 1]
    BY <1>1 DEF Prompted
  <2>. QED  BY <2>1, <2>3, <2>4, <2>5 DEF Prompted
<1>. QED  BY <1>13, <1>14 DEF OnceInv

LEMMA OnceOutcome ==
    ASSUME OnceInv, TypeInv', NEW ts, Calm(ts), NEW idx, Stays(idx), NEW j, Outcome(ts, j, idx),
           UNCHANGED <<runner, order, prompts, scope>>
    PROVE  OnceInv'
<1>1. TypeInv /\ Entries
  BY DEF OnceInv
<1>2. CASE turn' = ts /\ index' = idx /\ current' = current /\ used'.turns = used.turns
  <2>1. Calm(turn') /\ Stays(index')
    BY <1>2 DEF Calm, Stays
  <2>. QED  BY <1>2, <2>1, OnceSteady
<1>3. CASE /\ runner = "up" /\ order # <<>> /\ turn' = ts /\ index' = Noted(idx, ts, LastOf(order))
           /\ current' = current /\ used'.turns = used.turns
  <2>1. /\ LastOf(order) \in TurnIds
        /\ \E i \in 1..Len(index) : index[i].turn = LastOf(order)
    <3>1. /\ Len(index) \in Nat /\ Len(index) > 0 /\ LastOf(index).turn = LastOf(order)
      BY <1>1, <1>3, Lengths DEF Entries
    <3>2. Len(index) \in 1..Len(index)
      BY <3>1
    <3>3. index[Len(index)].turn = LastOf(order)
      BY <3>1 DEF LastOf
    <3>. QED  BY <1>1, <3>2, <3>3, Lengths
  <2>2. runner # "down"
    BY <1>3
  <2>3. Stays(Noted(idx, ts, LastOf(order)))
    BY <2>1, <2>2, NotedStays
  <2>4. Calm(turn') /\ Stays(index')
    BY <1>3, <2>3 DEF Calm, Stays
  <2>. QED  BY <1>3, <2>4, OnceSteady
<1>4. ASSUME NEW m \in Messages, ~Handled(m), turn' = Opening(ts, m), runner = "up",
             used.turns < MaxTurns, index' = idx, current' = used.turns + 1, used'.turns = used.turns + 1
      PROVE  OnceInv'
  <2>1. Stays(index')
    BY <1>4 DEF Stays
  <2>. QED  BY <1>4, <2>1, OnceBegins
<1>. QED  BY <1>2, <1>3, <1>4 DEF Outcome

LEMMA OnceSends ==
    ASSUME OnceInv, NEW m \in Messages, SendQueues(m) \/ SendStarts(m) PROVE OnceInv'
<1>1. TypeInv /\ TypeInv'
  BY SendQueuesTyped, SendStartsTyped DEF OnceInv
<1>2. PICK ts, j :
                 /\ \/ ts = turn /\ j = journal
                    \/ /\ current # 0 /\ ts = Noting(turn, current, <<"queued">>)
                       /\ j = Stored(journal, current, <<"queued">>)
                 /\ Outcome(ts, j, index)
  BY <1>1, SendOutcome
<1>3. UNCHANGED <<runner, order, prompts, scope>>
  BY <1>1, SendOutcome
<1>4. Calm(ts) /\ Stays(index)
  <2>1. CASE ts = turn
    BY <1>1, <2>1, StaysSame
  <2>2. CASE current # 0 /\ ts = Noting(turn, current, <<"queued">>)
    <3>1. current \in TurnIds /\ turn \in TurnStates /\ <<"queued">> \in Seq(Kinds)
      BY <1>1, <2>2, Unsteady, KindsWritten DEF Kinds
    <3>2. ts \in TurnStates /\ \A t \in TurnIds : ts[t].msg = turn[t].msg /\ ts[t].stage = turn[t].stage
      BY <2>2, <3>1, NotingFacts, NotingKeeps
    <3>. QED  BY <1>1, <3>2, StaysSame DEF Calm
  <2>. QED  BY <1>2, <2>1, <2>2
<1>. QED  BY <1>1, <1>2, <1>3, <1>4, OnceOutcome

LEMMA OnceBookkeeping ==
    ASSUME OnceInv, BookkeepingInTime, NEW t \in TurnIds, BookkeepingDone(t) PROVE OnceInv'
<1>1. TypeInv /\ TypeInv'
  BY BookkeepingTyped DEF OnceInv
<1>2. /\ runner # "down" /\ turn[t].stage = "post" /\ UNCHANGED <<runner, order, prompts, scope>>
      /\ Outcome(Handing(t), Stored(journal, t, <<"post">>), Noted(index, Handing(t), t))
  BY <1>1, BookkeepingOutcome
<1>3. \E i \in 1..Len(index) : index[i].turn = t
  BY <1>1, <1>2, Lengths DEF BookkeepingInTime, InBookkeeping
<1>4. Calm(Handing(t))
  <2>1. turn \in TurnStates /\ Handing(t) \in TurnStates
    BY <1>1, Unsteady, HandingFacts
  <2>2. ASSUME NEW u \in TurnIds
        PROVE  /\ Handing(t)[u].msg = turn[u].msg
               /\ (Handing(t)[u].stage = "pre" => turn[u].stage = "pre")
               /\ (Handing(t)[u].stage = "run" => turn[u].stage = "run")
    <3>1. CASE u = t
      BY <2>1, <3>1, HandingFacts
    <3>2. CASE u # t
      BY <2>1, <3>2, HandingFacts
    <3>. QED  BY <3>1, <3>2
  <2>. QED  BY <2>1, <2>2 DEF Calm
<1>5. Stays(Noted(index, Handing(t), t))
  BY <1>1, <1>2, <1>3, <1>4, StaysSame, NotedStays
<1>. QED  BY <1>1, <1>2, <1>4, <1>5, OnceOutcome

LEMMA OnceReleases == ASSUME OnceInv, OtherReleases PROVE OnceInv'
<1>1. TypeInv /\ TypeInv'
  BY OtherReleasesTyped DEF OnceInv
<1>. QED  BY <1>1, ReleaseOutcome, StaysSame, OnceOutcome

-----------------------------------------------------------------------------
(* The steps of a turn.                                                    *)

\* The steps that leave index, messages and stages as they are, but for a turn
\* that moves on from its run.
LEMMA OnceStill ==
    ASSUME OnceInv, TypeInv', index' = index, Calm(turn'),
           UNCHANGED <<current, order, prompts, scope, used>>,
           runner' # "down" => runner # "down"
    PROVE  OnceInv'
<1>1. Stays(index')
  BY StaysSame DEF OnceInv
<1>. QED  BY <1>1, OnceSteady

LEMMA OneMoved ==
    ASSUME TypeInv, NEW t \in TurnIds, turn' \in TurnStates,
           \A u \in TurnIds \ {t} : turn'[u] = turn[u],
           turn'[t].msg = turn[t].msg, turn'[t].stage # "pre",
           turn'[t].stage = "run" => turn[t].stage = "run"
    PROVE  Calm(turn')
<1>1. ASSUME NEW u \in TurnIds
      PROVE  /\ turn'[u].msg = turn[u].msg
             /\ (turn'[u].stage = "pre" => turn[u].stage = "pre")
             /\ (turn'[u].stage = "run" => turn[u].stage = "run")
  <2>1. CASE u = t
    BY <2>1
  <2>2. CASE u # t
    BY <2>2
  <2>. QED  BY <2>1, <2>2
<1>. QED  BY <1>1 DEF Calm

LEMMA OnceEasy ==
    ASSUME OnceInv,
           \/ \E m \in Messages : Dequeues(m)
           \/ PutsBack \/ OtherTakes \/ AgentExits
           \/ (\E t \in TurnIds : Follows(t)) \/ FollowGoesOn
           \/ UNCHANGED vars
    PROVE  OnceInv'
<1>1. TypeInv /\ TypeInv'
  BY DequeuesTyped, PutsBackTyped, OtherTakesTyped, AgentExitsTyped, FollowsTyped, FollowGoesOnTyped,
     StutterTyped DEF OnceInv
<1>2. /\ index' = index /\ turn' = turn /\ UNCHANGED <<current, order, prompts, scope, used>>
      /\ (runner' # "down" => runner # "down")
  BY DEF Dequeues, PutsBack, OtherTakes, AgentExits, Follows, FollowGoesOn, vars
<1>3. Calm(turn')
  BY <1>1, <1>2, StaysSame DEF Calm
<1>. QED  BY <1>1, <1>2, <1>3, OnceStill

LEMMA OnceTurns ==
    ASSUME OnceInv,
           \/ AgentAsks \/ Responds \/ TurnEnds \/ StartFails
           \/ \E t \in TurnIds : TurnCloses(t)
    PROVE  OnceInv'
<1>0. TypeInv
  BY DEF OnceInv
<1>1. CASE AgentAsks
  <2>1. /\ Running /\ turn' = Noting(turn, current, <<"request">>)
        /\ UNCHANGED <<runner, order, current, index, prompts, used, scope>>
    BY <1>1 DEF AgentAsks
  <2>2. /\ current \in TurnIds /\ turn[current].stage = "run" /\ turn \in TurnStates
        /\ <<"request">> \in Seq(Kinds)
    BY <1>0, <2>1, Unsteady, KindsWritten DEF Running, Kinds
  <2>3. /\ turn' \in TurnStates /\ \A u \in TurnIds \ {current} : turn'[u] = turn[u]
        /\ turn'[current].msg = turn[current].msg /\ turn'[current].stage = "run"
    BY <2>1, <2>2, NotingFacts
  <2>4. Calm(turn')
    BY <1>0, <2>2, <2>3, OneMoved
  <2>. QED  BY <1>0, <1>1, <2>1, <2>4, AgentAsksTyped, OnceStill
<1>2. CASE Responds
  <2>1. /\ Running /\ turn' = Noting(turn, current, <<"resolved">>)
        /\ UNCHANGED <<runner, order, current, index, prompts, used, scope>>
    BY <1>2 DEF Responds
  <2>2. /\ current \in TurnIds /\ turn[current].stage = "run" /\ turn \in TurnStates
        /\ <<"resolved">> \in Seq(Kinds)
    BY <1>0, <2>1, Unsteady, KindsWritten DEF Running, Kinds
  <2>3. /\ turn' \in TurnStates /\ \A u \in TurnIds \ {current} : turn'[u] = turn[u]
        /\ turn'[current].msg = turn[current].msg /\ turn'[current].stage = "run"
    BY <2>1, <2>2, NotingFacts
  <2>4. Calm(turn')
    BY <1>0, <2>2, <2>3, OneMoved
  <2>. QED  BY <1>0, <1>2, <2>1, <2>4, RespondsTyped, OnceStill
<1>3. CASE TurnEnds
  <2>1. /\ current \in TurnIds /\ turn[current].stage = "run"
        /\ turn' \in TurnStates /\ \A u \in TurnIds \ {current} : turn'[u] = turn[u]
        /\ turn'[current].msg = turn[current].msg /\ turn'[current].stage = "post"
        /\ UNCHANGED <<runner, order, current, index, prompts, used, scope>>
    BY <1>0, <1>3, EndCases
  <2>2. Calm(turn')
    BY <1>0, <2>1, OneMoved
  <2>. QED  BY <1>0, <1>3, <2>1, <2>2, TurnEndsTyped, OnceStill
<1>4. CASE StartFails
  <2>1. /\ current \in TurnIds /\ turn' \in TurnStates
        /\ \A u \in TurnIds \ {current} : turn'[u] = turn[u]
        /\ turn'[current].msg = turn[current].msg /\ turn'[current].stage = "unsent"
        /\ UNCHANGED <<runner, order, current, index, prompts, scope>>
    BY <1>0, <1>4, StartFailsFacts
  <2>2. Calm(turn')
    BY <1>0, <2>1, OneMoved
  <2>3. used'.turns = used.turns
    <3>1. used \in Uses
      BY <1>0 DEF TypeInv, Counts, Uses
    <3>2. used' = used \/ Counted("fails")
      BY <1>4 DEF StartFails
    <3>. QED  BY <2>1, <3>1, <3>2, CountedFails
  <2>4. Stays(index')
    BY <1>0, <2>1, StaysSame DEF Stays
  <2>. QED  BY <1>0, <1>4, <2>1, <2>2, <2>3, <2>4, StartFailsTyped, OnceSteady
<1>5. ASSUME NEW t \in TurnIds, TurnCloses(t) PROVE OnceInv'
  <2>1. /\ turn' = Staged(turn, t, "closed")
        /\ UNCHANGED <<runner, order, current, index, prompts, used, scope>>
    BY <1>5 DEF TurnCloses, Closes, Staged
  <2>2. PICK sg : sg = "closed"
    OBVIOUS
  <2>3. sg \in Stages /\ turn \in TurnStates /\ turn' = Staged(turn, t, sg)
    BY <1>0, <2>1, <2>2, Unsteady DEF Stages
  <2>4. /\ turn' \in TurnStates /\ \A u \in TurnIds \ {t} : turn'[u] = turn[u]
        /\ turn'[t].msg = turn[t].msg /\ turn'[t].stage = sg
    BY <2>3, StagedFacts
  <2>5. Calm(turn')
    BY <1>0, <2>2, <2>4, OneMoved
  <2>. QED  BY <1>0, <1>5, <2>1, <2>5, TurnClosesTyped, OnceStill
<1>. QED  BY <1>1, <1>2, <1>3, <1>4, <1>5

\* The prompt: the turn comes into the index as its newest entry.
LEMMA OncePrompt == ASSUME OnceInv, PromptSent PROVE OnceInv'
<1>1. /\ TypeInv /\ Entries /\ Prompted /\ TypeInv'
  BY PromptSentTyped DEF OnceInv
<1>2. /\ runner = "up" /\ current \in TurnIds /\ turn[current].stage = "pre" /\ Starting
      /\ turn[current].msg \in Messages
      /\ turn' \in TurnStates /\ \A u \in TurnIds : turn'[u].msg = turn[u].msg
      /\ turn'[current].stage = "run"
      /\ index' = Noted(index, turn', current)
      /\ order' = Newest(RamKeep, Append(order, current))
      /\ prompts' = Append(prompts, turn[current].msg)
      /\ UNCHANGED <<runner, current, used, scope>>
  <2>1. \A u \in TurnIds : turn'[u].msg = turn[u].msg
    BY <1>1, PromptFacts
  <2>2. Starting
    BY DEF PromptSent
  <2>. QED  BY <1>1, <2>1, <2>2, PromptFacts
<1>3. /\ index \in Seq(IndexRows) /\ Len(index) <= Keep /\ Len(index) \in Nat
      /\ \A i \in 1..Len(index) : index[i] \in IndexRows /\ index[i].turn \in TurnIds
      /\ order \in Seq(TurnIds) /\ prompts \in Seq(Messages) /\ Len(prompts) \in Nat
      /\ DOMAIN index = 1..Len(index)
  BY <1>1, Unsteady, Lengths
<1>4. ~Indexed(index, current)
  BY <1>1, <1>2, <1>3 DEF Entries, Indexed
<1>. DEFINE e == Entry(turn', current)
<1>5. e \in IndexRows /\ e.turn = current /\ e.msg = turn[current].msg
  BY <1>2 DEF Entry, IndexRows, TurnStates
<1>6. index' = Newest(Keep, Append(index, e))
  BY <1>2, <1>3, <1>4, NotedTyped
<1>. HIDE DEF e
<1>7. PICK a : a = Append(index, e)
  OBVIOUS
<1>8. /\ a \in Seq(IndexRows) /\ Len(a) = Len(index) + 1
      /\ \A i \in 1..Len(index) : a[i] = index[i]
      /\ a[Len(index) + 1] = e
  BY <1>3, <1>5, <1>7, AppendProperties
<1>9. /\ index' \in Seq(IndexRows) /\ Len(index') <= Len(a) /\ Len(index') > 0 /\ Len(index') \in Nat
      /\ \A i \in 1..Len(index') : index'[i] = a[i + (Len(a) - Len(index'))]
  <2>1. PICK r : r = Newest(Keep, a)
    OBVIOUS
  <2>2. /\ r \in Seq(IndexRows) /\ Len(r) <= Len(a) /\ (Len(a) > 0 => Len(r) > 0)
        /\ \A i \in 1..Len(r) : r[i] = a[i + (Len(a) - Len(r))]
    <3>1. Keep \in Nat /\ Keep > 0 /\ a \in Seq(IndexRows)
      BY <1>8, Bounds
    <3>. QED  BY <2>1, <3>1, NewestFacts
  <2>3. index' = r /\ Len(a) > 0 /\ Len(r) \in Nat
    BY <1>3, <1>6, <1>7, <1>8, <2>1, <2>2, LenProperties
  <2>. QED  BY <2>2, <2>3
<1>10. PICK d \in Nat : d = Len(a) - Len(index')
  <2>1. Len(a) - Len(index') \in Nat
    BY <1>3, <1>8, <1>9
  <2>. QED  BY <2>1
<1>11. /\ \A i \in 1..Len(index') : index'[i] = a[i + d] /\ i + d \in 1..(Len(index) + 1)
       /\ Len(index') + d = Len(index) + 1
  BY <1>3, <1>8, <1>9, <1>10
<1>12. LastOf(index') = e /\ index' # <<>>
  <2>1. Len(index') \in 1..Len(index')
    BY <1>9
  <2>2. index'[Len(index')] = e
    BY <2>1, <1>8, <1>11
  <2>. QED  BY <2>2, <1>9, EmptySeq DEF LastOf
<1>13. PICK o : o = Append(order, current)
  OBVIOUS
<1>14. order' # <<>> /\ LastOf(order') = current
  <2>1. /\ o \in Seq(TurnIds) /\ Len(o) = Len(order) + 1 /\ o[Len(order) + 1] = current
        /\ Len(order) \in Nat
    BY <1>2, <1>3, <1>13, AppendProperties, LenProperties
  <2>2. PICK r : r = Newest(RamKeep, o)
    OBVIOUS
  <2>3. /\ r \in Seq(TurnIds) /\ Len(r) <= Len(o) /\ (Len(o) > 0 => Len(r) > 0)
        /\ \A i \in 1..Len(r) : r[i] = o[i + (Len(o) - Len(r))]
    BY <2>1, <2>2, Bounds, NewestFacts
  <2>4. Len(r) \in Nat /\ Len(r) > 0
    BY <2>1, <2>3, LenProperties
  <2>5. Len(r) \in 1..Len(r) /\ Len(r) + (Len(o) - Len(r)) = Len(order) + 1
    BY <2>1, <2>4
  <2>6. r[Len(r)] = current
    BY <2>1, <2>3, <2>5
  <2>7. order' = r
    BY <1>2, <1>13, <2>2
  <2>. QED  BY <2>4, <2>6, <2>7, EmptySeq DEF LastOf
<1>15. ASSUME NEW i \in 1..Len(index')
       PROVE  \/ i + d \in 1..Len(index) /\ index'[i] = index[i + d]
              \/ i + d = Len(index) + 1 /\ index'[i] = e
  <2>1. PICK k : k = i + d
    OBVIOUS
  <2>2. k \in 1..(Len(index) + 1) /\ index'[i] = a[k]
    BY <1>11, <2>1
  <2>3. k \in 1..Len(index) \/ k = Len(index) + 1
    BY <1>3, <2>2
  <2>. QED  BY <1>8, <2>1, <2>2, <2>3
<1>16. Entries'
  <2>1. ASSUME NEW i \in 1..Len(index'), NEW k \in 1..Len(index'), index'[i].turn = index'[k].turn
        PROVE  i = k
    <3>0. \A h \in 1..Len(index) : index[h].turn # current
      BY <1>1, <1>2 DEF Entries
    <3>1. CASE /\ i + d \in 1..Len(index) /\ index'[i] = index[i + d]
               /\ k + d \in 1..Len(index) /\ index'[k] = index[k + d]
      <4>1. i + d = k + d
        BY <1>1, <2>1, <3>1 DEF Entries
      <4>. QED  BY <4>1, <1>10
    <3>2. CASE i + d = Len(index) + 1 /\ k + d = Len(index) + 1
      BY <3>2, <1>3, <1>10
    <3>. QED  BY <1>5, <1>15, <2>1, <3>0, <3>1, <3>2
  <2>2. ASSUME NEW i \in 1..Len(index') PROVE index'[i].turn <= used'.turns
    <3>1. current <= used.turns
      BY <1>1 DEF TypeInv, Counts
    <3>2. CASE i + d \in 1..Len(index) /\ index'[i] = index[i + d]
      BY <1>1, <1>2, <3>2 DEF Entries
    <3>. QED  BY <1>2, <1>5, <1>15, <3>1, <3>2
  <2>3. ~Starting' /\ Running'
    BY <1>2 DEF Starting, Running, TurnIds
  <2>4. ASSUME NEW i \in 1..Len(index') PROVE turn'[index'[i].turn].msg = index'[i].msg
    <3>1. CASE i + d \in 1..Len(index) /\ index'[i] = index[i + d]
      <4>1. turn[index[i + d].turn].msg = index[i + d].msg /\ index[i + d].turn \in TurnIds
        BY <1>1, <1>2, <1>3, <3>1 DEF Entries
      <4>. QED  BY <4>1, <3>1, <1>2
    <3>2. CASE index'[i] = e
      BY <3>2, <1>2, <1>5
    <3>. QED  BY <1>15, <3>1, <3>2
  <2>5. \E i \in 1..Len(index') : index'[i].turn = current'
    <3>1. Len(index') \in 1..Len(index') /\ index'[Len(index')].turn = current'
      BY <1>2, <1>5, <1>9, <1>12 DEF LastOf
    <3>. QED  BY <3>1
  <2>6. index' # <<>> /\ LastOf(index').turn = LastOf(order')
    BY <1>5, <1>12, <1>14
  <2>. QED  BY <2>1, <2>2, <2>3, <2>4, <2>5, <2>6 DEF Entries
<1>17. PICK n : n = Len(prompts)
  OBVIOUS
<1>18. /\ Len(prompts') = n + 1 /\ prompts' \in Seq(Messages) /\ n \in Nat
       /\ \A i \in 1..n : prompts'[i] = prompts[i]
       /\ prompts'[n + 1] = turn[current].msg
  BY <1>2, <1>3, <1>17, AppendProperties
<1>19. Prompted'
  <2>. SUFFICES ASSUME scope.hazard # "in_step" PROVE Prompted'
    BY <1>2 DEF Prompted
  <2>1. LastOf(prompts') = turn[current].msg /\ prompts' # <<>>
    BY <1>18, EmptySeq DEF LastOf
  <2>2. index' # <<>> /\ LastOf(index').msg = LastOf(prompts')
    BY <1>5, <1>12, <2>1
  <2>3. order' # <<>> /\ turn'[LastOf(order')].msg = LastOf(prompts')
    BY <1>2, <1>14, <2>1
  <2>4. ~Starting'
    BY <1>2 DEF Starting
  <2>5. ASSUME NEW i \in 1..(Len(prompts') - 1) PROVE prompts'[i] # prompts'[i + 1]
    <3>1. i \in 1..n
      BY <1>18
    <3>2. CASE i = n
      <4>1. prompts # <<>> /\ LastOf(prompts) = prompts[n]
        BY <3>1, <3>2, <1>1, <1>17, Lengths DEF LastOf
      <4>2. turn[current].msg # prompts[n]
        BY <4>1, <1>1, <1>2 DEF Prompted
      <4>. QED  BY <4>2, <3>1, <3>2, <1>18
    <3>3. CASE i # n
      <4>1. i \in 1..(n - 1) /\ i + 1 \in 1..n
        BY <3>1, <3>3, <1>18
      <4>2. prompts[i] # prompts[i + 1]
        BY <4>1, <1>1, <1>17 DEF Prompted
      <4>. QED  BY <4>1, <4>2, <3>1, <1>18
    <3>. QED  BY <3>2, <3>3
  <2>. QED  BY <2>2, <2>3, <2>4, <2>5 DEF Prompted
<1>. QED  BY <1>1, <1>16, <1>19 DEF OnceInv

-----------------------------------------------------------------------------
(* Stops, restarts, and the theorem.                                       *)

\* agentd is gone: what the index says stays.
LEMMA OnceGone ==
    ASSUME OnceInv, TypeInv', Stays(index'), runner' = "down", current' = 0, order' = <<>>,
           UNCHANGED scope, prompts' = prompts \/ scope.hazard = "in_step", used'.turns = used.turns
    PROVE  OnceInv'
<1>1. TypeInv /\ Entries /\ Prompted
  BY DEF OnceInv
<1>2. /\ Len(index') = Len(index)
      /\ \A i \in 1..Len(index) : index'[i].turn = index[i].turn /\ index'[i].msg = index[i].msg
      /\ index' \in Seq(IndexRows)
  BY DEF Stays
<1>3. /\ Len(index) \in Nat /\ (index # <<>> <=> Len(index) > 0) /\ (index' # <<>> <=> Len(index') > 0)
  BY <1>1, <1>2, Lengths, EmptySeq, LenProperties
<1>4. LastOf(index').msg = LastOf(index).msg \/ index = <<>>
  BY <1>2, <1>3 DEF LastOf
<1>5. ~Starting' /\ ~Running'
  BY DEF Starting, Running
<1>6. Entries'
  <2>1. \A i, k \in 1..Len(index') : index'[i].turn = index'[k].turn => i = k
    BY <1>1, <1>2 DEF Entries
  <2>2. \A i \in 1..Len(index') : index'[i].turn <= used'.turns
    BY <1>1, <1>2 DEF Entries
  <2>. QED  BY <1>5, <2>1, <2>2 DEF Entries
<1>7. Prompted'
  <2>. SUFFICES ASSUME scope.hazard # "in_step" PROVE Prompted'
    BY DEF Prompted
  <2>1. prompts' = prompts
    OBVIOUS
  <2>2. prompts # <<>> => index' # <<>> /\ LastOf(index').msg = LastOf(prompts)
    BY <1>1, <1>2, <1>3, <1>4 DEF Prompted
  <2>3. \A i \in 1..(Len(prompts) - 1) : prompts[i] # prompts[i + 1]
    BY <1>1 DEF Prompted
  <2>. QED  BY <1>5, <2>1, <2>2, <2>3 DEF Prompted
<1>. QED  BY <1>6, <1>7 DEF OnceInv

LEMMA OnceCrashes ==
    ASSUME OnceInv, CrashBetween \/ CrashInStart \/ CrashInOpen PROVE OnceInv'
<1>1. TypeInv /\ TypeInv'
  BY CrashBetweenTyped, CrashInStartTyped, CrashInOpenTyped DEF OnceInv
<1>2. \E j : Crashes(index, j)
  BY DEF CrashBetween, CrashInStart, CrashInOpen
<1>3. /\ index' = index /\ runner' = "down" /\ current' = 0 /\ order' = <<>> /\ UNCHANGED scope
      /\ used'.turns = used.turns
  BY <1>1, <1>2, CrashFacts
<1>4. prompts' = prompts \/ scope.hazard = "in_step"
  BY DEF CrashBetween, CrashInStart, CrashInOpen
<1>5. Stays(index')
  BY <1>1, <1>3, StaysSame DEF Stays
<1>. QED  BY <1>1, <1>3, <1>4, <1>5, OnceGone

LEMMA OnceDrops == ASSUME OnceInv, Drops PROVE OnceInv'
<1>1. TypeInv /\ TypeInv' /\ Entries /\ used \in Uses
  BY DropsTyped DEF OnceInv, TypeInv, Counts, Uses
<1>2. /\ runner' = "down" /\ current' = 0 /\ order' = <<>> /\ UNCHANGED <<scope, prompts>>
      /\ used'.turns = used.turns /\ runner # "down"
  <2>1. Forgets /\ Restarted /\ UNCHANGED <<scope, prompts>> /\ runner # "down"
    BY DEF Drops, Stoppable
  <2>. QED  BY <1>1, <2>1, RestartedFacts DEF Forgets
<1>3. \/ Running /\ index' = Noted(index, Left, current)
      \/ index' = index
  BY <1>1, DropFacts
<1>4. Stays(index')
  <2>1. CASE Running /\ index' = Noted(index, Left, current)
    <3>1. Calm(Left)
      <4>1. /\ current \in TurnIds /\ Left \in TurnStates /\ \A u \in TurnIds \ {current} : Left[u] = turn[u]
            /\ Left[current].msg = turn[current].msg /\ Left[current].stage = "run"
            /\ turn[current].stage = "run"
        BY <1>1, <2>1, LeftFacts DEF Running
      <4>2. ASSUME NEW u \in TurnIds
            PROVE  /\ Left[u].msg = turn[u].msg
                   /\ (Left[u].stage = "pre" => turn[u].stage = "pre")
                   /\ (Left[u].stage = "run" => turn[u].stage = "run")
        <5>1. CASE u = current
          BY <4>1, <5>1
        <5>2. CASE u # current
          BY <4>1, <5>2
        <5>. QED  BY <5>1, <5>2
      <4>. QED  BY <4>1, <4>2 DEF Calm
    <3>2. current \in TurnIds /\ \E i \in 1..Len(index) : index[i].turn = current
      BY <1>1, <2>1, LeftFacts DEF Entries
    <3>3. Stays(Noted(index, Left, current))
      BY <1>1, <1>2, <3>1, <3>2, StaysSame, NotedStays
    <3>4. PICK idx : idx = Noted(index, Left, current)
      OBVIOUS
    <3>. QED  BY <2>1, <3>3, <3>4 DEF Stays
  <2>2. CASE index' = index
    BY <1>1, <2>2, StaysSame DEF Stays
  <2>. QED  BY <1>3, <2>1, <2>2
<1>. QED  BY <1>1, <1>2, <1>4, OnceGone

\* With a turn indexed once, an entry is found by its turn.
LEMMA EntryFound ==
    ASSUME TypeInv, \A i, k \in 1..Len(index) : index[i].turn = index[k].turn => i = k,
           NEW i \in 1..Len(index)
    PROVE  index[i].turn \in TurnIds \cap IndexedTurns /\ EntryOf(index[i].turn) = index[i]
<1>1. DOMAIN index = 1..Len(index) /\ index[i].turn \in TurnIds
  BY Lengths
<1>2. index[i] \in ToSet(index) /\ index[i].turn \in IndexedTurns
  BY <1>1 DEF ToSet, IndexedTurns
<1>3. \A e \in ToSet(index) : e.turn = index[i].turn => e = index[i]
  BY <1>1 DEF ToSet
<1>. QED  BY <1>1, <1>2, <1>3 DEF EntryOf

LEMMA OnceOpens == ASSUME OnceInv, Opens PROVE OnceInv'
<1>1. TypeInv /\ TypeInv' /\ Entries /\ Prompted
  BY OpensTyped DEF OnceInv
<1>2. /\ current' = 0 /\ runner' = "up" /\ UNCHANGED <<prompts, used, scope>>
      /\ order' = Newest(RamKeep, [i \in DOMAIN index |-> index[i].turn])
      /\ index' = [i \in DOMAIN index |-> [index[i] EXCEPT !.status = turn'[index[i].turn].status]]
  BY <1>1, OpensFacts
<1>3. /\ index \in Seq(IndexRows) /\ Len(index) \in Nat /\ DOMAIN index = 1..Len(index)
      /\ (index # <<>> <=> Len(index) > 0)
      /\ \A i \in 1..Len(index) : index[i] \in IndexRows /\ index[i].turn \in TurnIds
      /\ \A i, k \in 1..Len(index) : index[i].turn = index[k].turn => i = k
  BY <1>1, Unsteady, Lengths DEF Entries
<1>4. /\ index' \in Seq(IndexRows)
      /\ Len(index') = Len(index)
      /\ \A i \in 1..Len(index) : index'[i].turn = index[i].turn /\ index'[i].msg = index[i].msg
  <2>1. PICK f : f = [i \in 1..Len(index) |-> turn'[index[i].turn].status]
    OBVIOUS
  <2>2. index' = [i \in 1..Len(index) |-> [index[i] EXCEPT !.status = f[i]]]
    BY <1>2, <1>3, <2>1
  <2>3. index' \in Seq(IndexRows)
    BY <1>1, Unsteady DEF TypeInv, TypeOK, IndexRows
  <2>4. \A i \in 1..Len(index) : index'[i].turn = index[i].turn /\ index'[i].msg = index[i].msg
    BY <1>3, <2>2 DEF IndexRows
  <2>5. Len(index') = Len(index)
    BY <1>3, <2>2
  <2>. QED  BY <2>3, <2>4, <2>5
<1>5. \A i \in 1..Len(index) : turn'[index[i].turn].msg = index[i].msg
  BY <1>1, <1>3, EntryFound, OpensFacts
<1>6. (index' # <<>> <=> index # <<>>) /\ (index # <<>> =>
          LastOf(index').turn = LastOf(index).turn /\ LastOf(index').msg = LastOf(index).msg)
  BY <1>3, <1>4, EmptySeq DEF LastOf
<1>7. PICK s : s = [i \in 1..Len(index) |-> index[i].turn]
  OBVIOUS
<1>8. s \in Seq(TurnIds) /\ Len(s) = Len(index) /\ \A i \in 1..Len(index) : s[i] = index[i].turn
  BY <1>3, <1>7
<1>9. PICK r : r = Newest(RamKeep, s)
  OBVIOUS
<1>10. /\ r \in Seq(TurnIds) /\ Len(r) <= Len(s) /\ (Len(s) > 0 => Len(r) > 0)
       /\ \A i \in 1..Len(r) : r[i] = s[i + (Len(s) - Len(r))]
  <2>1. RamKeep \in Nat /\ RamKeep > 0
    BY Bounds
  <2>. QED  BY <2>1, <1>8, <1>9, NewestFacts
<1>11. Len(r) \in Nat /\ (r # <<>> <=> Len(r) > 0)
  BY <1>10, LenProperties, EmptySeq
<1>12. (r # <<>> <=> index # <<>>) /\ (r # <<>> => LastOf(r) = LastOf(index).turn)
  <2>1. r # <<>> <=> index # <<>>
    BY <1>3, <1>8, <1>10, <1>11
  <2>2. ASSUME r # <<>> PROVE LastOf(r) = LastOf(index).turn
    <3>1. Len(r) \in 1..Len(r) /\ Len(r) + (Len(s) - Len(r)) = Len(index) /\ Len(index) \in 1..Len(index)
      BY <2>1, <2>2, <1>3, <1>8, <1>11
    <3>. QED  BY <3>1, <1>8, <1>10 DEF LastOf
  <2>. QED  BY <2>1, <2>2
<1>13. order' = r
  BY <1>2, <1>3, <1>7, <1>9
<1>14. ~Starting' /\ ~Running'
  BY <1>2 DEF Starting, Running
<1>15. Entries'
  <2>1. \A i, k \in 1..Len(index') : index'[i].turn = index'[k].turn => i = k
    BY <1>3, <1>4
  <2>2. \A i \in 1..Len(index') : index'[i].turn <= used'.turns
    BY <1>1, <1>2, <1>4 DEF Entries
  <2>3. \A i \in 1..Len(index') : turn'[index'[i].turn].msg = index'[i].msg
    BY <1>4, <1>5
  <2>4. order' # <<>> => index' # <<>> /\ LastOf(index').turn = LastOf(order')
    BY <1>6, <1>12, <1>13
  <2>. QED  BY <1>14, <2>1, <2>2, <2>3, <2>4 DEF Entries
<1>16. Prompted'
  <2>. SUFFICES ASSUME scope.hazard # "in_step" PROVE Prompted'
    BY <1>2 DEF Prompted
  <2>1. prompts # <<>> => index # <<>> /\ LastOf(index).msg = LastOf(prompts)
    BY <1>1 DEF Prompted
  <2>2. index # <<>> => turn'[LastOf(index).turn].msg = LastOf(index).msg
    <3>1. index # <<>> => Len(index) \in 1..Len(index)
      BY <1>3
    <3>. QED  BY <3>1, <1>5 DEF LastOf
  <2>3. prompts # <<>> => order' # <<>> /\ turn'[LastOf(order')].msg = LastOf(prompts)
    BY <2>1, <2>2, <1>12, <1>13
  <2>4. prompts # <<>> => index' # <<>> /\ LastOf(index').msg = LastOf(prompts)
    BY <2>1, <1>6
  <2>5. \A i \in 1..(Len(prompts) - 1) : prompts[i] # prompts[i + 1]
    BY <1>1 DEF Prompted
  <2>. QED  BY <1>2, <1>14, <2>3, <2>4, <2>5 DEF Prompted
<1>. QED  BY <1>1, <1>15, <1>16 DEF OnceInv

LEMMA OnceInit == ASSUME Init PROVE OnceInv
<1>1. /\ index = <<>> /\ prompts = <<>> /\ order = <<>> /\ current = 0
  BY DEF Init
<1>2. Len(<<>>) = 0
  BY EmptySeq
<1>3. Entries
  BY <1>1, <1>2 DEF Entries, Running
<1>4. Prompted
  BY <1>1, <1>2 DEF Prompted
<1>. QED  BY <1>3, <1>4, TypesInit DEF OnceInv

\* Where no /open overlaps the end of a runner, no runner is ever leaving.
LEMMA NothingLeaves ==
    ASSUME TypeInv, scope.hazard # "overlap"
    PROVE  ~DropBegins /\ \A t \in TurnIds : ~LeavingDone(t)
BY Unsteady DEF DropBegins, LeavingDone

LEMMA OnceKept ==
    ASSUME OnceInv, scope.hazard # "overlap", BookkeepingInTime, [Next]_vars PROVE OnceInv'
<1>1. CASE \E m \in Messages : SendQueues(m) \/ SendStarts(m) \/ Dequeues(m)
  BY <1>1, OnceSends, OnceEasy
<1>2. CASE PromptSent
  BY <1>2, OncePrompt
<1>3. CASE StartFails \/ TurnEnds \/ AgentAsks \/ Responds
  BY <1>3, OnceTurns
<1>4. CASE \E t \in TurnIds : BookkeepingDone(t) \/ TurnCloses(t)
  BY <1>4, OnceBookkeeping, OnceTurns
<1>5. CASE OtherReleases
  BY <1>5, OnceReleases
<1>6. CASE \/ PutsBack \/ OtherTakes \/ AgentExits
           \/ (\E t \in TurnIds : Follows(t)) \/ FollowGoesOn \/ UNCHANGED vars
  BY <1>6, OnceEasy
<1>7. CASE Drops \/ CrashBetween \/ CrashInStart \/ Opens \/ CrashInOpen
  BY <1>7, OnceDrops, OnceCrashes, OnceOpens
<1>8. ~DropBegins /\ \A t \in TurnIds : ~LeavingDone(t)
  BY NothingLeaves DEF OnceInv
<1>. QED  BY <1>1, <1>2, <1>3, <1>4, <1>5, <1>6, <1>7, <1>8 DEF Next, TurnSteps

\* The scope of a behaviour is chosen once.
LEMMA ScopeStays == ASSUME [Next]_vars PROVE scope' = scope
<1>1. \A i, j : Crashes(i, j) => scope' = scope
  BY DEF Crashes
<1>2. CASE \E m \in Messages : SendQueues(m) \/ SendStarts(m) \/ Dequeues(m)
  BY <1>2 DEF SendQueues, SendStarts, Dequeues
<1>3. CASE TurnSteps \/ AgentAsks \/ Responds \/ OtherTakes \/ OtherReleases \/ AgentExits
  BY <1>3 DEF TurnSteps, PromptSent, StartFails, PutsBack, TurnEnds, BookkeepingDone, TurnCloses,
              LeavingDone, AgentAsks, Responds, OtherTakes, OtherReleases, AgentExits
<1>4. CASE Drops \/ DropBegins \/ CrashBetween \/ CrashInStart \/ Opens \/ CrashInOpen
  BY <1>1, <1>4 DEF Drops, DropBegins, CrashBetween, CrashInStart, Opens, CrashInOpen
<1>5. CASE (\E t \in TurnIds : Follows(t)) \/ FollowGoesOn \/ UNCHANGED vars
  BY <1>5 DEF Follows, FollowGoesOn, vars
<1>. QED  BY <1>2, <1>3, <1>4, <1>5 DEF Next

OnceScoped == TypeInv /\ (scope.hazard # "overlap" => OnceInv)

\* For any number of messages, turns, failed starts and restarts the agent is not
\* prompted twice in a row with one message, unless agentd dies between a prompt
\* and the index or an /open overlaps the end of the runner it replaces, and
\* provided a turn's bookkeeping ends before turns_keep later turns push the turn
\* out of the index: else the late note makes it the newest entry, and a resend
\* after a restart is not recognised.
THEOREM PromptedOnce == Spec /\ []BookkeepingInTime => []NoDoublePrompt
<1>1. OnceScoped => NoDoublePrompt
  BY DEF OnceScoped, OnceInv, Prompted, NoDoublePrompt
<1>2. OnceScoped /\ BookkeepingInTime /\ [Next]_vars => OnceScoped'
  <2>. SUFFICES ASSUME OnceScoped, BookkeepingInTime, [Next]_vars PROVE OnceScoped'
    OBVIOUS
  <2>1. TypeInv' /\ scope' = scope
    BY TypesKept, ScopeStays DEF OnceScoped
  <2>2. CASE scope.hazard = "overlap"
    BY <2>1, <2>2 DEF OnceScoped
  <2>3. CASE scope.hazard # "overlap"
    <3>1. OnceInv'
      BY <2>3, OnceKept DEF OnceScoped
    <3>. QED  BY <2>1, <3>1 DEF OnceScoped
  <2>. QED  BY <2>2, <2>3
<1>3. Init => OnceScoped
  BY OnceInit, TypesInit DEF OnceScoped
<1>. QED  BY <1>1, <1>2, <1>3, PTL DEF Spec

=============================================================================
