------------------------- MODULE PtySessions_proofs -------------------------
(***************************************************************************)
(* Terminals of any number of connections: no process is lost, no session  *)
(* is served by two sockets, output continues exactly and never stalls;    *)
(* and what only connections that are set up in turn keep: the cap, and    *)
(* one agent to resume a conversation beside those that are being killed.  *)
(*                                                                         *)
(* The invariants are proved in the order in which they rest on one        *)
(* another: ranges, what has not begun, the lists and their sockets, the   *)
(* queues, and the connections that are set up in turn.                    *)
(***************************************************************************)
EXTENDS PtySessions, Subsequences_proofs, FiniteSetTheorems

-----------------------------------------------------------------------------
(* The invariants.                                                         *)

Sessions == SUBSET Conns

\* A connection that is past its set-up, and may have spawned a session.
Begun(s) == place[s] \in {"pumping", "leaving", "ended"}

Serves(c) == place[c] \in {"attaching", "pumping", "leaving"}

Ranges ==
    /\ registry \in Seq(Conns) /\ detached \in Seq(Conns)
    /\ alive \in Sessions /\ exited \in Sessions /\ reaping \in Sessions
    /\ gone \in Sessions /\ resumed \in Sessions
    /\ paused \in Sessions /\ draining \in Sessions
    /\ lock \in Conns \cup {NoConn}
    /\ place \in [Conns -> Places] /\ outcome \in [Conns -> Outcomes]
    /\ mine \in [Conns -> Conns \cup {NoConn}]
    /\ produced \in [Conns -> 0..scope.chunks] /\ shown \in [Conns -> 0..scope.chunks]
    /\ hand \in [Conns -> 0..scope.chunks]
    /\ queue \in [Conns -> Seq(0..scope.chunks)]
    /\ scope \in Scopes

\* A handler that serves has its session, and one that spawns its own.
Assigned ==
    /\ \A c \in Conns : Serves(c) => mine[c] \in Conns
    /\ \A c \in Conns : place[c] \in {"spawning", "forked"} => mine[c] = c

\* There is nothing of a session before its connection has spawned it.
Fresh(s) ==
    /\ s \notin ToSet(registry)
    /\ s \notin exited /\ s \notin reaping
    /\ s \notin paused /\ s \notin draining
    /\ produced[s] = 0 /\ queue[s] = <<>>

Beginnings ==
    /\ \A s \in Conns : ~Begun(s) => Fresh(s)
    /\ \A s \in alive : Begun(s) \/ place[s] = "forked"
    /\ \A c \in Conns : Serves(c) => Begun(mine[c])

\* The lists hold a session once, and a registered session is detached or has
\* one socket.
Lists ==
    /\ IsInjective(registry) /\ IsInjective(detached)
    /\ ToSet(detached) \subseteq ToSet(registry)
    /\ \A c, d \in Conns : Serves(c) /\ Serves(d) /\ mine[c] = mine[d] => c = d
    /\ \A c \in Conns : Serves(c) => mine[c] \notin ToSet(detached)
    /\ \A s \in ToSet(registry) :
          s \in ToSet(detached) \/ \E c \in Conns : Serves(c) /\ mine[c] = s

\* A process that runs is registered, about to be registered or about to be
\* terminated.
Processes == alive \subseteq ToSet(registry) \cup reaping \cup InHand /\ alive \cap exited = {}

\* The chunks in a queue; the end of the stream comes after them.
Chunks(s) == Len(queue[s]) - (IF s \in exited THEN 1 ELSE 0)

Stream(s) ==
    /\ Chunks(s) \in 0..produced[s] /\ Chunks(s) <= HighWater
    /\ \A i \in 1..Chunks(s) : queue[s][i] = (produced[s] - Chunks(s)) + i
    /\ s \in exited => queue[s][Chunks(s) + 1] = Eof
    /\ s \notin exited /\ s \in paused => LowWater < Chunks(s)
    /\ s \notin exited /\ s \notin paused => Chunks(s) < HighWater

Streams == \A s \in Conns : Stream(s)

\* What a socket has been shown, what its pump has in hand and what is queued
\* make up what the PTY of its session has produced.
Continues(c, s) ==
    /\ s \notin draining
    /\ (shown[c] + Chunks(s)) + (IF hand[c] = 0 THEN 0 ELSE 1) = produced[s]
    /\ hand[c] # 0 => hand[c] = shown[c] + 1

Shows ==
    /\ \A c, s \in Conns : place[c] = "pumping" /\ mine[c] = s => Continues(c, s)
    /\ \A c \in Conns : place[c] # "pumping" => hand[c] = 0
    /\ \A c \in Conns : place[c] \notin {"pumping", "leaving"} => shown[c] = 0

\* Connections set up in turn.  One that will resume finds nothing registered
\* until it is registered itself.
InTurn ==
    scope.orderly =>
        /\ \A c, d \in Conns : Attaching(c) /\ Attaching(d) => c = d
        /\ Len(registry) <= scope.cap
        /\ \A c \in Conns : place[c] \in {"spawning", "forked"} => Len(registry) < scope.cap
        /\ \A c \in resumed : Begun(c) \/ place[c] \in {"spawning", "forked"}
        /\ \A c \in resumed : place[c] \in {"spawning", "forked"} => registry = <<>>
        /\ \A s, t \in (resumed \cap alive) \ reaping : s = t

-----------------------------------------------------------------------------
(* What the steps share.                                                   *)

USE PtySessionsAssumption

LEMMA WithoutLeaves ==
    ASSUME NEW q \in Seq(Conns), NEW gones
    PROVE  /\ Without(q, gones) \in Seq(Conns)
           /\ Len(Without(q, gones)) <= Len(q)
           /\ ToSet(Without(q, gones)) = ToSet(q) \ gones
           /\ IsInjective(q) => IsInjective(Without(q, gones))
<1>1. ToSet(q) \subseteq Conns
  BY LenProperties, ElementOfSeq DEF ToSet
<1>. QED  BY <1>1, KeptElements DEF Without

LEMMA Elements ==
    ASSUME NEW D, NEW q \in Seq(D)
    PROVE  /\ ToSet(q) \subseteq D
           /\ \A i \in DOMAIN q : q[i] \in D /\ q[i] \in ToSet(q)
           /\ q # <<>> => Head(q) \in ToSet(q) /\ Head(q) \in D /\ Tail(q) \in Seq(D)
<1>1. DOMAIN q = 1..Len(q) /\ Len(q) \in Nat /\ \A i \in DOMAIN q : q[i] \in D
  BY LenProperties, ElementOfSeq
<1>2. ASSUME q # <<>> PROVE Head(q) \in ToSet(q)
  <2>1. Len(q) # 0
    BY <1>2, EmptySeq
  <2>. QED  BY <1>1, <2>1 DEF ToSet
<1>. QED  BY <1>1, <1>2, HeadTailProperties DEF ToSet

LEMMA ScopeRange ==
    ASSUME scope \in Scopes
    PROVE  scope.chunks \in Nat /\ scope.cap \in Nat /\ scope.conns \subseteq Conns
OBVIOUS

-----------------------------------------------------------------------------
(* Ranges.                                                                 *)

LEMMA RangesInit == Init => Ranges
<1>. SUFFICES ASSUME Init PROVE Ranges
  OBVIOUS
<1>1. scope \in Scopes /\ scope.chunks \in Nat
  BY ScopeRange DEF Init
<1>2. <<>> \in Seq(Conns) /\ <<>> \in Seq(0..scope.chunks)
  BY EmptySeq
<1>. QED  BY <1>1, <1>2 DEF Init, Ranges, Sessions, Places, Outcomes

LEMMA RangesStep == ASSUME Ranges, Assigned, [Next]_vars PROVE Ranges'
<1>1. scope \in Scopes /\ scope.chunks \in Nat
  BY ScopeRange DEF Ranges
<1>2. \A c \in Conns, w \in Places : Goes(c, w) => place' \in [Conns -> Places]
  BY DEF Goes, Ranges
<1>3. {"off", "auth", "claiming", "evicting", "spawning", "forked", "attaching",
       "pumping", "leaving", "ended"} \subseteq Places
  BY DEF Places
<1>. USE DEF Ranges, Sessions
<1>4. CASE UNCHANGED vars
  BY <1>4 DEF vars
<1>5. ASSUME NEW c \in Conns, Connects(c) PROVE Ranges'
  BY <1>2, <1>3, <1>5 DEF Connects, outputVars
<1>6. ASSUME NEW c \in Conns, Drops(c) PROVE Ranges'
  BY <1>6 DEF Drops, outputVars
<1>7. ASSUME NEW c \in Conns, Looks(c) PROVE Ranges'
  <2>1. ToSet(detached) \subseteq Conns /\ DOMAIN detached = 1..Len(detached)
        /\ \A i \in DOMAIN detached : detached[i] \in Conns
    BY Elements, LenProperties
  <2>. DEFINE Fits ==
                /\ registry' \in Seq(Conns) /\ detached' \in Seq(Conns) /\ reaping' \in SUBSET Conns
                /\ place' \in [Conns -> Places] /\ mine' \in [Conns -> Conns \cup {NoConn}]
  <2>2. Fits
    <3>1. ASSUME NEW i \in Adoptable, Adopts(c, i) PROVE Fits
      <4>1. i \in DOMAIN detached /\ detached[i] \in Conns
        BY <2>1 DEF Adoptable
      <4>2. {detached[j] : j \in i + 1 .. Len(detached)} \subseteq Conns
        <5>1. Len(detached) \in Nat /\ i \in Nat /\ i >= 1
          BY <2>1, <4>1, LenProperties
        <5>. QED  BY <2>1, <5>1
      <4>. QED  BY <1>2, <1>3, <3>1, <4>1, <4>2, WithoutLeaves DEF Adopts
    <3>2. CASE /\ registry' = Without(registry, ToSet(detached))
               /\ detached' = <<>>
               /\ reaping' = reaping \cup ToSet(detached)
               /\ Goes(c, "claiming")
               /\ UNCHANGED mine
      BY <1>2, <1>3, <2>1, <3>2, WithoutLeaves, EmptySeq
    <3>. QED  BY <1>7, <3>1, <3>2 DEF Looks
  <2>. QED  BY <1>7, <2>2 DEF Looks, outputVars
<1>8. ASSUME NEW c \in Conns, Attaches(c) PROVE Ranges'
  <2>0. mine[c] \in Conns
    BY <1>8 DEF Attaches, FinishesAttach, Assigned, Serves
  <2>1. queue' \in [Conns -> Seq(0..scope.chunks)]
    <3>1. \A s \in Conns : Kept(queue[s], {Eof}) \in Seq(0..scope.chunks)
      BY KeptElements
    <3>. QED  BY <1>8, <3>1 DEF Attaches, FinishesAttach
  <2>2. shown' \in [Conns -> 0..scope.chunks]
    BY <1>8, <2>0 DEF Attaches, FinishesAttach
  <2>. QED  BY <1>2, <1>3, <1>8, <2>1, <2>2 DEF Attaches, FinishesAttach
<1>9. ASSUME NEW c \in Conns, Claims(c) PROVE Ranges'
  <2>1. CASE Full
    <3>1. registry # <<>>
      BY <1>1, <2>1, ScopeRange, EmptySeq DEF Full
    <3>2. Head(registry) \in Conns
      BY <3>1, Elements
    <3>3. /\ registry' \in Seq(Conns) /\ detached' \in Seq(Conns)
          /\ draining' \in SUBSET Conns /\ reaping' \in SUBSET Conns
      <4>1. Removes({Head(registry)})
        BY <1>9, <2>1 DEF Claims
      <4>. QED  BY <3>2, <4>1, WithoutLeaves DEF Removes
    <3>4. mine' \in [Conns -> Conns \cup {NoConn}] /\ place' \in [Conns -> Places]
          /\ lock' \in Conns \cup {NoConn}
      BY <1>2, <1>3, <1>9, <2>1, <3>2 DEF Claims
    <3>. QED  BY <1>9, <2>1, <3>3, <3>4 DEF Claims, outputVars
  <2>2. CASE ~Full
    BY ZenonT(30), <1>2, <1>3, <1>9, <2>2 DEF Claims, outputVars
  <2>. QED  BY <2>1, <2>2
<1>10. ASSUME NEW c \in Conns, Spawns(c) PROVE Ranges'
  BY <1>2, <1>3, <1>10 DEF Spawns, outputVars
<1>25. ASSUME NEW c \in Conns, Registers(c) PROVE Ranges'
  <2>1. Append(registry, c) \in Seq(Conns)
    BY AppendElements
  <2>. QED  BY <1>2, <1>3, <1>25, <2>1 DEF Registers, outputVars
<1>26. ASSUME NEW s \in Conns, ClosesSocket(s) PROVE Ranges'
  BY <1>26 DEF ClosesSocket, SocketsOf, outputVars
<1>11. ASSUME NEW c \in Conns, HandlerLeaves(c) PROVE Ranges'
  <2>1. mine[c] \in Conns
    BY <1>11 DEF HandlerLeaves, Leaves, Assigned, Serves
  <2>2. registry' \in Seq(Conns) /\ detached' \in Seq(Conns)
    <3>1. Append(detached, mine[c]) \in Seq(Conns)
      BY <2>1, AppendElements
    <3>2. Without(registry, {mine[c]}) \in Seq(Conns)
      BY WithoutLeaves
    <3>. QED  BY <1>11, <3>1, <3>2 DEF HandlerLeaves, Leaves
  <2>3. draining' \in SUBSET Conns /\ reaping' \in SUBSET Conns
    BY <1>11, <2>1 DEF HandlerLeaves, Leaves
  <2>4. outcome' \in [Conns -> Outcomes] /\ shown' \in [Conns -> 0..scope.chunks]
        /\ mine' \in [Conns -> Conns \cup {NoConn}]
    BY <1>1, <1>11 DEF HandlerLeaves, Outcomes
  <2>. QED  BY <1>2, <1>3, <1>11, <2>2, <2>3, <2>4 DEF HandlerLeaves
<1>12. \A s \in Conns : queue[s] # <<>> =>
          Head(queue[s]) \in 0..scope.chunks /\ Tail(queue[s]) \in Seq(0..scope.chunks)
  BY HeadTailProperties
<1>13. ASSUME NEW c \in Conns, OutputTakes(c) PROVE Ranges'
  <2>1. mine[c] \in Conns
    BY <1>13 DEF OutputTakes, Assigned, Serves
  <2>2. queue' \in [Conns -> Seq(0..scope.chunks)] /\ paused' \in SUBSET Conns
        /\ hand' \in [Conns -> 0..scope.chunks]
    BY <1>12, <1>13, <2>1 DEF OutputTakes, Takes
  <2>. QED  BY <1>13, <2>2 DEF OutputTakes
<1>14. ASSUME NEW c \in Conns, OutputSends(c) PROVE Ranges'
  BY SMTT(20), <1>14 DEF OutputSends
<1>15. ASSUME NEW c \in Conns, PumpEnds(c) PROVE Ranges'
  <2>1. outcome' \in [Conns -> Outcomes] /\ hand' \in [Conns -> 0..scope.chunks]
    <3>1. PICK w \in Outcomes : outcome' = [outcome EXCEPT ![c] = w]
      BY <1>15 DEF PumpEnds, Outcomes
    <3>2. outcome' \in [Conns -> Outcomes]
      BY <3>1
    <3>. QED  BY <1>1, <1>15, <3>2 DEF PumpEnds
  <2>. QED  BY <1>2, <1>3, <1>15, <2>1 DEF PumpEnds
<1>16. ASSUME NEW s \in Conns, Reads(s) PROVE Ranges'
  <2>1. produced' \in [Conns -> 0..scope.chunks] /\ produced'[s] \in 0..scope.chunks
    BY SMTT(20), <1>1, <1>16 DEF Reads
  <2>2. Append(queue[s], produced'[s]) \in Seq(0..scope.chunks)
    BY <2>1, AppendElements
  <2>3. queue' \in [Conns -> Seq(0..scope.chunks)] /\ paused' \in SUBSET Conns
    BY <1>16, <2>2 DEF Reads
  <2>. QED  BY <1>16, <2>1, <2>3 DEF Reads
<1>17. ASSUME NEW s \in Conns, ProcessEnds(s) PROVE Ranges'
  BY <1>17 DEF ProcessEnds, outputVars
<1>18. ASSUME NEW s \in Conns, FinishesOutput(s)
       PROVE  queue' \in [Conns -> Seq(0..scope.chunks)] /\ exited' \in SUBSET Conns
  <2>1. Append(queue[s], Eof) \in Seq(0..scope.chunks)
    BY <1>1, AppendElements DEF Eof
  <2>. QED  BY <1>18, <2>1 DEF FinishesOutput
<1>19. ASSUME NEW s \in Conns, SeesEof(s) PROVE Ranges'
  BY <1>18, <1>19 DEF SeesEof
<1>20. ASSUME NEW s \in Conns, Reaped(s) PROVE Ranges'
  BY <1>18, <1>20 DEF Reaped
<1>21. ASSUME NEW s \in Conns, Drains(s) PROVE Ranges'
  <2>1. queue' \in [Conns -> Seq(0..scope.chunks)] /\ paused' \in SUBSET Conns
    BY <1>12, <1>21 DEF Drains, Takes
  <2>. QED  BY <1>21, <2>1 DEF Drains
<1>22. ASSUME NEW gones, Removes(gones), gones \in SUBSET ToSet(registry)
       PROVE  /\ registry' \in Seq(Conns) /\ detached' \in Seq(Conns)
              /\ draining' \in SUBSET Conns /\ reaping' \in SUBSET Conns
  <2>1. ToSet(registry) \subseteq Conns
    BY Elements
  <2>. QED  BY <1>22, <2>1, WithoutLeaves DEF Removes
<1>23. ASSUME Sweeps PROVE Ranges'
  BY <1>22, <1>23 DEF Sweeps, Doomed, outputVars
<1>24. ASSUME Restarts PROVE Ranges'
  BY <1>22, <1>24 DEF Restarts, outputVars
<1>. QED
  BY <1>4, <1>5, <1>6, <1>7, <1>8, <1>9, <1>10, <1>11, <1>13, <1>14, <1>15, <1>16, <1>17,
     <1>19, <1>20, <1>21, <1>23, <1>24, <1>25, <1>26
     DEF Next, HandlerStep, PtyStep

-----------------------------------------------------------------------------
(* What has not begun.                                                     *)

LEMMA AssignedInit == Init => Assigned
BY DEF Init, Assigned, Serves

LEMMA AssignedStep == ASSUME Ranges, Assigned, Lists, [Next]_vars PROVE Assigned'
<1>1. place \in [Conns -> Places] /\ mine \in [Conns -> Conns \cup {NoConn}]
  BY DEF Ranges
<1>. SUFFICES ASSUME NEW d \in Conns
              PROVE  (Serves(d)' => mine'[d] \in Conns) /\ (place'[d] \in {"spawning", "forked"} => mine'[d] = d)
  BY DEF Assigned
<1>2. (Serves(d) => mine[d] \in Conns) /\ (place[d] \in {"spawning", "forked"} => mine[d] = d)
  BY DEF Assigned
<1>. USE DEF Serves, Goes
<1>3. CASE UNCHANGED <<place, mine>>
  BY <1>2, <1>3
<1>4. ASSUME NEW c \in Conns, Connects(c) PROVE place' = [place EXCEPT ![c] = "auth"] /\ mine' = mine
  BY <1>4 DEF Connects
<1>5. ASSUME NEW c \in Conns, Looks(c)
      PROVE  (Serves(d)' => mine'[d] \in Conns) /\ (place'[d] \in {"spawning", "forked"} => mine'[d] = d)
  <2>1. ASSUME NEW i \in Adoptable, Adopts(c, i)
        PROVE  (Serves(d)' => mine'[d] \in Conns) /\ (place'[d] \in {"spawning", "forked"} => mine'[d] = d)
    <3>1. detached[i] \in Conns
      BY Elements DEF Adoptable, Ranges
    <3>. QED  BY <1>1, <1>2, <2>1, <3>1 DEF Adopts
  <2>. QED  BY <1>1, <1>2, <1>5, <2>1 DEF Looks
<1>6. ASSUME NEW c \in Conns, Attaches(c) PROVE Serves(c) /\ place' = [place EXCEPT ![c] = "pumping"] /\ mine' = mine
  BY <1>6 DEF Attaches, FinishesAttach
<1>7. ASSUME NEW c \in Conns, Claims(c)
      PROVE  (Serves(d)' => mine'[d] \in Conns) /\ (place'[d] \in {"spawning", "forked"} => mine'[d] = d)
  BY <1>1, <1>2, <1>7 DEF Claims
<1>8. ASSUME NEW c \in Conns, Spawns(c) \/ Registers(c)
      PROVE  (Serves(d)' => mine'[d] \in Conns) /\ (place'[d] \in {"spawning", "forked"} => mine'[d] = d)
  BY <1>1, <1>2, <1>8 DEF Spawns, Registers
<1>9. ASSUME NEW c \in Conns, HandlerLeaves(c)
      PROVE  (Serves(d)' => mine'[d] \in Conns) /\ (place'[d] \in {"spawning", "forked"} => mine'[d] = d)
  BY <1>1, <1>2, <1>9 DEF HandlerLeaves
<1>10. ASSUME NEW c \in Conns, PumpEnds(c)
       PROVE  Serves(c) /\ place' = [place EXCEPT ![c] = "leaving"] /\ mine' = mine
  BY <1>10 DEF PumpEnds
<1>11. ASSUME NEW c \in Conns, \/ Drops(c) \/ OutputTakes(c) \/ OutputSends(c) \/ PtyStep(c)
       PROVE  UNCHANGED <<place, mine>>
  BY <1>11 DEF Drops, OutputTakes, OutputSends, PtyStep, Reads, ProcessEnds, SeesEof, Reaped, Drains,
              ClosesSocket
<1>12. Sweeps \/ Restarts \/ UNCHANGED vars => UNCHANGED <<place, mine>>
  BY DEF Sweeps, Restarts, vars
<1>. QED
  <2>1. ASSUME NEW c \in Conns,
               \/ Connects(c) \/ Attaches(c) \/ PumpEnds(c)
        PROVE  (Serves(d)' => mine'[d] \in Conns) /\ (place'[d] \in {"spawning", "forked"} => mine'[d] = d)
    BY <1>1, <1>2, <1>4, <1>6, <1>10, <2>1
  <2>. HIDE DEF Serves, Goes
  <2>. QED
    BY <1>3, <1>5, <1>7, <1>8, <1>9, <1>11, <1>12, <2>1 DEF Next, HandlerStep

LEMMA BegunStays ==
    ASSUME Ranges, [Next]_vars, NEW s \in Conns, Begun(s)
    PROVE  Begun(s)'
<1>1. place \in [Conns -> Places]
  BY DEF Ranges
<1>2. CASE UNCHANGED place
  BY <1>2 DEF Begun
<1>3. ASSUME NEW c \in Conns,
             \/ Connects(c) \/ Looks(c) \/ Attaches(c) \/ Claims(c) \/ Spawns(c) \/ Registers(c)
      PROVE  c # s /\ \E w \in Places : place' = [place EXCEPT ![c] = w]
  <2>1. c # s
    BY <1>3 DEF Connects, Looks, Attaches, FinishesAttach, Claims, Spawns, Registers, Begun
  <2>2. \E w \in Places : Goes(c, w)
    BY <1>3 DEF Connects, Looks, Adopts, Attaches, Claims, Spawns, Registers, Places
  <2>. QED  BY <2>1, <2>2 DEF Goes
<1>4. ASSUME NEW c \in Conns, HandlerLeaves(c) \/ PumpEnds(c)
      PROVE  \E w \in {"leaving", "ended"} : place' = [place EXCEPT ![c] = w]
  BY <1>4 DEF HandlerLeaves, PumpEnds, Goes
<1>5. ASSUME NEW c \in Conns, \/ Drops(c) \/ OutputTakes(c) \/ OutputSends(c) \/ PtyStep(c)
      PROVE  UNCHANGED place
  BY <1>5 DEF Drops, OutputTakes, OutputSends, PtyStep, Reads, ProcessEnds, SeesEof, Reaped, Drains,
              ClosesSocket
<1>6. Sweeps \/ Restarts \/ UNCHANGED vars => UNCHANGED place
  BY DEF Sweeps, Restarts, vars
<1>7. ASSUME NEW c \in Conns, NEW w \in Places, c # s, place' = [place EXCEPT ![c] = w]
      PROVE  Begun(s)'
  BY <1>1, <1>7 DEF Begun
<1>8. ASSUME NEW c \in Conns, NEW w \in {"leaving", "ended"}, place' = [place EXCEPT ![c] = w]
      PROVE  Begun(s)'
  BY <1>1, <1>8 DEF Begun
<1>. QED
  BY <1>2, <1>3, <1>4, <1>5, <1>6, <1>7, <1>8 DEF Next, HandlerStep

\* A process in the hands of its handler stays there until it is registered.
LEMMA InHandStays ==
    ASSUME Ranges, [Next]_vars, NEW s \in InHand, ~Registers(s)
    PROVE  s \in InHand'
<1>1. place \in [Conns -> Places] /\ s \in Conns /\ place[s] = "forked"
  BY DEF Ranges, InHand
<1>2. ASSUME NEW c \in Conns,
             \/ Connects(c) \/ Looks(c) \/ Attaches(c) \/ Claims(c) \/ Spawns(c) \/ Registers(c)
             \/ HandlerLeaves(c) \/ PumpEnds(c)
      PROVE  place'[s] = "forked"
  <2>1. c # s
    BY <1>1, <1>2 DEF Connects, Looks, Attaches, FinishesAttach, Claims, Spawns, HandlerLeaves,
                      Leaves, PumpEnds
  <2>2. \E w : place' = [place EXCEPT ![c] = w]
    BY <1>2 DEF Connects, Looks, Adopts, Attaches, Claims, Spawns, Registers, HandlerLeaves,
                PumpEnds, Goes
  <2>. QED  BY <1>1, <2>1, <2>2
<1>3. ASSUME NEW c \in Conns, \/ Drops(c) \/ OutputTakes(c) \/ OutputSends(c) \/ PtyStep(c)
      PROVE  UNCHANGED place
  BY <1>3 DEF Drops, OutputTakes, OutputSends, PtyStep, Reads, ProcessEnds, SeesEof, Reaped, Drains,
              ClosesSocket
<1>4. Sweeps \/ Restarts \/ UNCHANGED vars => UNCHANGED place
  BY DEF Sweeps, Restarts, vars
<1>5. place'[s] = "forked"
  BY <1>1, <1>2, <1>3, <1>4 DEF Next, HandlerStep
<1>. QED  BY <1>1, <1>5 DEF InHand

LEMMA LivesBegun ==
    ASSUME Ranges, Beginnings, [Next]_vars, NEW s \in alive'
    PROVE  Begun(s)' \/ place'[s] = "forked"
<1>1. place \in [Conns -> Places] /\ alive \subseteq Conns
  BY DEF Ranges, Sessions
<1>2. s \in alive \/ (s \in Conns /\ Goes(s, "forked"))
  <2>1. ASSUME NEW c \in Conns, Spawns(c) PROVE s \in alive \/ (s = c /\ Goes(s, "forked"))
    BY <2>1 DEF Spawns
  <2>2. ASSUME NEW c \in Conns,
               \/ Connects(c) \/ Drops(c) \/ Looks(c) \/ Attaches(c) \/ Claims(c) \/ Registers(c)
               \/ HandlerLeaves(c) \/ OutputTakes(c) \/ OutputSends(c) \/ PumpEnds(c) \/ PtyStep(c)
        PROVE  s \in alive
    BY <2>2 DEF Connects, Drops, Looks, Attaches, Claims, Registers, HandlerLeaves, OutputTakes,
                OutputSends, PumpEnds, PtyStep, Reads, ProcessEnds, SeesEof, Reaped, Drains,
                ClosesSocket
  <2>3. Sweeps \/ Restarts \/ UNCHANGED vars => s \in alive
    BY DEF Sweeps, Restarts, vars
  <2>. QED  BY <2>1, <2>2, <2>3 DEF Next, HandlerStep
<1>3. CASE s \in Conns /\ Goes(s, "forked")
  BY <1>1, <1>3 DEF Goes
<1>4. CASE s \in alive /\ Begun(s)
  BY <1>1, <1>4, BegunStays
<1>5. CASE s \in alive /\ place[s] = "forked"
  <2>1. s \in InHand
    BY <1>1, <1>5 DEF InHand
  <2>2. CASE Registers(s)
    BY <1>1, <1>5, <2>2 DEF Registers, Goes, Begun
  <2>3. CASE ~Registers(s)
    <3>1. s \in InHand'
      BY <2>1, <2>3, InHandStays
    <3>. QED  BY <3>1 DEF InHand
  <2>. QED  BY <2>2, <2>3
<1>. QED  BY <1>2, <1>3, <1>4, <1>5 DEF Beginnings

LEMMA BeginningsInit == Init => Beginnings
<1>1. ToSet(<<>>) = {}
  BY DEF ToSet
<1>. QED  BY <1>1 DEF Init, Beginnings, Begun, Serves, Fresh

\* A session that has not begun is not among those a step takes hold of.
LEMMA FreshStays ==
    ASSUME Ranges, Assigned, Beginnings, Lists, [Next]_vars, NEW s \in Conns, ~Begun(s)'
    PROVE  Fresh(s)'
<1>1. ~Begun(s)
  BY BegunStays
<1>2. Fresh(s)
  BY <1>1 DEF Beginnings
<1>3. s \notin ToSet(registry) /\ s \notin ToSet(detached)
  BY <1>2 DEF Fresh, Lists
<1>4. \A c \in Conns : Serves(c) => mine[c] # s
  BY <1>1 DEF Beginnings
<1>5. queue \in [Conns -> Seq(0..scope.chunks)] /\ produced \in [Conns -> 0..scope.chunks]
      /\ registry \in Seq(Conns) /\ detached \in Seq(Conns)
  BY DEF Ranges
<1>6. CASE UNCHANGED <<registry, exited, reaping, paused, draining, produced, queue>>
  BY <1>2, <1>6 DEF Fresh
<1>7. ASSUME NEW c \in Conns, \/ Connects(c) \/ Drops(c) \/ OutputSends(c) \/ PumpEnds(c)
                               \/ Spawns(c) \/ ClosesSocket(c) \/ ProcessEnds(c)
      PROVE  UNCHANGED <<registry, exited, reaping, paused, draining, produced, queue>>
  BY <1>7 DEF Connects, Drops, OutputSends, PumpEnds, Spawns, ClosesSocket, ProcessEnds, outputVars
<1>8. ASSUME NEW c \in Conns, Looks(c) PROVE Fresh(s)'
  <2>1. ASSUME NEW gones, NEW more, registry' = Without(registry, gones),
               reaping' = reaping \cup more, more \subseteq ToSet(detached)
        PROVE  s \notin ToSet(registry') /\ s \notin reaping'
    BY <1>2, <1>3, <1>5, <2>1, WithoutLeaves DEF Fresh
  <2>2. ASSUME NEW i \in Adoptable, Adopts(c, i)
        PROVE  s \notin ToSet(registry') /\ s \notin reaping'
    <3>. DEFINE dead == {detached[j] : j \in i + 1 .. Len(detached)}
    <3>1. i \in 1..Len(detached) /\ Len(detached) \in Nat /\ DOMAIN detached = 1..Len(detached)
      BY <1>5, LenProperties DEF Adoptable
    <3>2. dead \subseteq ToSet(detached)
      BY <3>1 DEF ToSet
    <3>3. registry' = Without(registry, dead) /\ reaping' = reaping \cup dead
      BY <2>2 DEF Adopts
    <3>. HIDE DEF dead
    <3>. QED  BY <2>1, <3>2, <3>3
  <2>3. s \notin ToSet(registry') /\ s \notin reaping'
    BY <1>8, <2>1, <2>2 DEF Looks
  <2>4. UNCHANGED <<exited, paused, draining, produced, queue>>
    BY <1>8 DEF Looks, outputVars
  <2>. QED  BY <1>2, <2>3, <2>4 DEF Fresh
<1>9. ASSUME NEW c \in Conns, Attaches(c) PROVE Fresh(s)'
  <2>1. mine[c] # s
    BY <1>4, <1>9 DEF Attaches, FinishesAttach, Serves
  <2>2. queue'[s] = queue[s]
    BY <1>5, <1>9, <2>1 DEF Attaches, FinishesAttach
  <2>. QED  BY <1>2, <1>9, <2>2 DEF Fresh, Attaches, FinishesAttach
<1>10. ASSUME NEW gones, gones \subseteq ToSet(registry), Removes(gones)
       PROVE  s \notin ToSet(registry)' /\ s \notin reaping' /\ s \notin draining'
  BY <1>2, <1>3, <1>5, <1>10, WithoutLeaves DEF Removes, Fresh
<1>11. ASSUME NEW c \in Conns, Claims(c) PROVE Fresh(s)'
  <2>1. UNCHANGED <<exited, paused, produced, queue>>
    BY <1>11 DEF Claims, outputVars
  <2>2. CASE Full
    <3>1. registry # <<>>
      BY <2>2, ScopeRange, EmptySeq DEF Full, Ranges
    <3>2. {Head(registry)} \subseteq ToSet(registry)
      BY <1>5, <3>1, Elements
    <3>3. Removes({Head(registry)})
      BY <1>11, <2>2 DEF Claims
    <3>4. s \notin ToSet(registry)' /\ s \notin reaping' /\ s \notin draining'
      BY <1>10, <3>2, <3>3
    <3>. QED  BY <1>2, <2>1, <3>4 DEF Fresh
  <2>3. CASE ~Full
    BY <1>2, <1>11, <2>1, <2>3 DEF Claims, Fresh
  <2>. QED  BY <2>2, <2>3
<1>12. ASSUME NEW c \in Conns, Registers(c) PROVE Fresh(s)'
  <2>1. UNCHANGED <<exited, reaping, paused, draining, produced, queue>>
    BY <1>12 DEF Registers, outputVars
  <2>2. c # s
    <3>1. place'[c] = "pumping"
      BY <1>12 DEF Registers, Goes, Ranges
    <3>. QED  BY <3>1 DEF Begun
  <2>3. ToSet(Append(registry, c)) = ToSet(registry) \cup {c}
    BY <1>5, AppendElements
  <2>4. s \notin ToSet(registry)'
    BY <1>2, <1>12, <2>2, <2>3 DEF Registers, Fresh
  <2>. QED  BY <1>2, <2>1, <2>4 DEF Fresh
<1>13. ASSUME NEW c \in Conns, HandlerLeaves(c) PROVE Fresh(s)'
  <2>1. mine[c] # s
    BY <1>4, <1>13 DEF HandlerLeaves, Leaves, Serves
  <2>2. UNCHANGED <<exited, paused, produced, queue>>
    BY <1>13 DEF HandlerLeaves
  <2>3. s \notin ToSet(registry') /\ s \notin reaping' /\ s \notin draining'
    <3>1. ToSet(Without(registry, {mine[c]})) = ToSet(registry) \ {mine[c]}
      BY <1>5, WithoutLeaves
    <3>. QED  BY <1>2, <1>13, <2>1, <3>1 DEF HandlerLeaves, Leaves, Fresh
  <2>. QED  BY <1>2, <2>2, <2>3 DEF Fresh
<1>14. ASSUME NEW t \in Conns, t # s, NEW q, Takes(t, q)
       PROVE  queue'[s] = queue[s] /\ (s \notin paused => s \notin paused')
  BY <1>5, <1>14 DEF Takes
<1>15. ASSUME NEW c \in Conns, OutputTakes(c) PROVE Fresh(s)'
  <2>1. mine[c] # s /\ mine[c] \in Conns
    BY <1>4, <1>15 DEF OutputTakes, Serves, Assigned
  <2>2. queue'[s] = queue[s] /\ (s \notin paused => s \notin paused')
    BY <1>14, <1>15, <2>1 DEF OutputTakes
  <2>. QED  BY <1>2, <1>15, <2>2 DEF OutputTakes, Fresh
<1>16. ASSUME NEW t \in Conns, Reads(t) PROVE Fresh(s)'
  <2>1. t # s
    BY <1>1, <1>16 DEF Reads, InHand, Beginnings
  <2>2. produced'[s] = produced[s] /\ queue'[s] = queue[s] /\ (s \notin paused => s \notin paused')
    BY <1>5, <1>16, <2>1 DEF Reads
  <2>. QED  BY <1>2, <1>16, <2>2 DEF Reads, Fresh
<1>18. ASSUME NEW t \in Conns, t # s, FinishesOutput(t)
       PROVE  queue'[s] = queue[s] /\ (s \notin exited => s \notin exited')
  BY <1>5, <1>18 DEF FinishesOutput
<1>19. ASSUME NEW t \in Conns, SeesEof(t) PROVE Fresh(s)'
  <2>1. t # s /\ FinishesOutput(t)
    BY <1>2, <1>19 DEF SeesEof, Fresh, IsRegistered
  <2>2. queue'[s] = queue[s] /\ (s \notin exited => s \notin exited')
    BY <1>18, <2>1
  <2>. QED  BY <1>2, <1>19, <2>2 DEF SeesEof, Fresh
<1>20. ASSUME NEW t \in Conns, Reaped(t) PROVE Fresh(s)'
  <2>1. t # s /\ FinishesOutput(t)
    BY <1>2, <1>20 DEF Reaped, Fresh
  <2>2. queue'[s] = queue[s] /\ (s \notin exited => s \notin exited')
    BY <1>18, <2>1
  <2>. QED  BY <1>2, <1>20, <2>2 DEF Reaped, Fresh
<1>21. ASSUME NEW t \in Conns, Drains(t) PROVE Fresh(s)'
  <2>1. t # s
    BY <1>2, <1>21 DEF Drains, Fresh
  <2>2. queue'[s] = queue[s] /\ (s \notin paused => s \notin paused')
    BY <1>14, <1>21, <2>1 DEF Drains
  <2>. QED  BY <1>2, <1>21, <2>2 DEF Drains, Fresh
<1>22. ASSUME Sweeps \/ Restarts PROVE Fresh(s)'
  <2>1. PICK gones \in SUBSET ToSet(registry) : Removes(gones)
    BY <1>22 DEF Sweeps, Restarts, Doomed
  <2>2. s \notin ToSet(registry)' /\ s \notin reaping' /\ s \notin draining'
    BY <1>10, <2>1
  <2>3. UNCHANGED <<exited, paused, produced, queue>>
    BY <1>22 DEF Sweeps, Restarts, outputVars
  <2>. QED  BY <1>2, <2>2, <2>3 DEF Fresh
<1>23. UNCHANGED vars => UNCHANGED <<registry, exited, reaping, paused, draining, produced, queue>>
  BY DEF vars
<1>. QED
  BY <1>6, <1>7, <1>8, <1>9, <1>11, <1>12, <1>13, <1>15, <1>16, <1>19, <1>20, <1>21,
     <1>22, <1>23 DEF Next, HandlerStep, PtyStep

LEMMA BeginningsStep ==
    ASSUME Ranges, Assigned, Beginnings, Lists, [Next]_vars
    PROVE  Beginnings'
<1>1. \A s \in Conns : ~Begun(s)' => Fresh(s)'
  BY FreshStays
<1>2. \A s \in Conns : Begun(s) => Begun(s)'
  BY BegunStays
<1>3. place \in [Conns -> Places] /\ mine \in [Conns -> Conns \cup {NoConn}]
  BY DEF Ranges
<1>12. \A s \in alive' : Begun(s)' \/ place'[s] = "forked"
  BY LivesBegun
<1>. SUFFICES ASSUME NEW d \in Conns, Serves(d)' PROVE Begun(mine[d])'
  BY <1>1, <1>12 DEF Beginnings
<1>4. ASSUME Serves(d), mine'[d] = mine[d] PROVE Begun(mine[d])'
  BY <1>2, <1>4 DEF Begun, Beginnings, Assigned
<1>5. CASE UNCHANGED <<place, mine>>
  BY <1>4, <1>5 DEF Serves
<1>6. ASSUME NEW c \in Conns, Connects(c) \/ Attaches(c) \/ PumpEnds(c) PROVE Begun(mine[d])'
  <2>1. mine' = mine /\ (Serves(d)' => Serves(d))
    BY <1>3, <1>6 DEF Connects, Attaches, FinishesAttach, PumpEnds, Goes, Serves
  <2>. QED  BY <1>4, <2>1
<1>7. ASSUME NEW c \in Conns, Looks(c) PROVE Begun(mine[d])'
  <2>1. CASE d # c
    <3>1. mine'[d] = mine[d] /\ place'[d] = place[d]
      BY <1>3, <1>7, <2>1 DEF Looks, Adopts, Goes
    <3>. QED  BY <1>4, <3>1 DEF Serves
  <2>2. ASSUME NEW i \in Adoptable, Adopts(c, i), d = c PROVE Begun(mine[d])'
    <3>1. mine'[d] = detached[i]
      BY <1>3, <2>2 DEF Adopts
    <3>2. detached[i] \in Conns /\ detached[i] \in ToSet(registry)
      BY Elements DEF Adoptable, Ranges, Lists
    <3>3. Begun(detached[i])
      BY <3>2 DEF Beginnings, Fresh
    <3>. QED  BY <1>2, <3>1, <3>2, <3>3 DEF Begun
  <2>3. d = c => ~Goes(c, "claiming")
    BY <1>3 DEF Goes, Serves
  <2>. QED  BY <1>7, <2>1, <2>2, <2>3 DEF Looks
<1>8. ASSUME NEW c \in Conns, Claims(c) \/ HandlerLeaves(c) PROVE Begun(mine[d])'
  <2>1. d # c
    BY <1>3, <1>8 DEF Claims, HandlerLeaves, Goes, Serves
  <2>2. mine'[d] = mine[d] /\ place'[d] = place[d]
    BY <1>3, <1>8, <2>1 DEF Claims, HandlerLeaves, Goes
  <2>. QED  BY <1>4, <2>2 DEF Serves
<1>9. ASSUME NEW c \in Conns, Spawns(c) \/ Registers(c) PROVE Begun(mine[d])'
  <2>1. mine' = mine /\ place[c] \in {"spawning", "forked"} /\ place'[c] \in {"forked", "pumping", "ended"}
        /\ \A e \in Conns : e # c => place'[e] = place[e]
    BY <1>3, <1>9 DEF Spawns, Registers, Goes
  <2>2. CASE d = c
    BY <2>1, <2>2 DEF Begun, Assigned, Serves
  <2>3. CASE d # c
    BY <1>4, <2>1, <2>3 DEF Serves
  <2>. QED  BY <2>2, <2>3
<1>10. ASSUME NEW c \in Conns, \/ Drops(c) \/ OutputTakes(c) \/ OutputSends(c) \/ PtyStep(c)
       PROVE  UNCHANGED <<place, mine>>
  BY <1>10 DEF Drops, OutputTakes, OutputSends, PtyStep, Reads, ProcessEnds, SeesEof, Reaped, Drains,
              ClosesSocket
<1>11. Sweeps \/ Restarts \/ UNCHANGED vars => UNCHANGED <<place, mine>>
  BY DEF Sweeps, Restarts, vars
<1>. QED
  BY <1>5, <1>6, <1>7, <1>8, <1>9, <1>10, <1>11 DEF Next, HandlerStep

-----------------------------------------------------------------------------
(* The registry, the detached sessions and their sockets.                  *)

LEMMA ListsInit == Init => Lists
<1>1. ToSet(<<>>) = {} /\ IsInjective(<<>>)
  BY DEF ToSet, IsInjective
<1>. QED  BY <1>1 DEF Init, Lists, Serves

LEMMA ListsStep ==
    ASSUME Ranges, Assigned, Beginnings, Lists, [Next]_vars
    PROVE  Lists'
<1>1. /\ registry \in Seq(Conns) /\ detached \in Seq(Conns)
      /\ place \in [Conns -> Places] /\ mine \in [Conns -> Conns \cup {NoConn}]
  BY DEF Ranges
<1>2. /\ IsInjective(registry) /\ IsInjective(detached)
      /\ ToSet(detached) \subseteq ToSet(registry)
      /\ \A c, d \in Conns : Serves(c) /\ Serves(d) /\ mine[c] = mine[d] => c = d
      /\ \A c \in Conns : Serves(c) => mine[c] \notin ToSet(detached)
      /\ \A s \in ToSet(registry) :
            s \in ToSet(detached) \/ \E c \in Conns : Serves(c) /\ mine[c] = s
  BY DEF Lists
<1>3. ToSet(registry) \subseteq Conns /\ ToSet(detached) \subseteq Conns
  BY <1>1, Elements
\* The sockets are the same.
<1>. DEFINE Same == \A d \in Conns : (Serves(d)' <=> Serves(d)) /\ (Serves(d) => mine'[d] = mine[d])
<1>4. ASSUME UNCHANGED <<registry, detached>>, Same PROVE Lists'
  BY <1>2, <1>4 DEF Lists
<1>5. ASSUME NEW gones, registry' = Without(registry, gones), detached' = Without(detached, gones), Same
      PROVE  Lists'
  <2>1. /\ ToSet(registry') = ToSet(registry) \ gones /\ IsInjective(registry')
        /\ ToSet(detached') = ToSet(detached) \ gones /\ IsInjective(detached')
    BY <1>1, <1>2, <1>5, WithoutLeaves
  <2>. QED  BY <1>2, <1>5, <2>1 DEF Lists
<1>6. ASSUME NEW c \in Conns, \/ Connects(c) \/ Attaches(c) \/ PumpEnds(c) PROVE Lists'
  <2>1. UNCHANGED <<registry, detached>> /\ mine' = mine
    BY <1>6 DEF Connects, Attaches, PumpEnds
  <2>2. \A d \in Conns : Serves(d)' <=> Serves(d)
    BY <1>1, <1>6 DEF Connects, Attaches, FinishesAttach, PumpEnds, Goes, Serves
  <2>. QED  BY <1>4, <2>1, <2>2
<1>7. ASSUME NEW c \in Conns, \/ Drops(c) \/ OutputTakes(c) \/ OutputSends(c) \/ PtyStep(c)
      PROVE  UNCHANGED <<registry, detached, place, mine>>
  BY <1>7 DEF Drops, OutputTakes, OutputSends, PtyStep, Reads, ProcessEnds, SeesEof, Reaped, Drains,
              ClosesSocket
<1>8. UNCHANGED vars => UNCHANGED <<registry, detached, place, mine>>
  BY DEF vars
<1>9. UNCHANGED <<registry, detached, place, mine>> => Lists'
  <2>1. UNCHANGED <<place, mine>> => Same
    BY DEF Serves
  <2>. QED  BY <1>4, <2>1
<1>10. ASSUME NEW c \in Conns, NEW i \in Adoptable, Adopts(c, i), place[c] = "auth" PROVE Lists'
  <2>. DEFINE s == detached[i]
              dead == {detached[j] : j \in i + 1 .. Len(detached)}
  <2>1. i \in 1..Len(detached) /\ Len(detached) \in Nat /\ DOMAIN detached = 1..Len(detached)
    BY <1>1, LenProperties DEF Adoptable
  <2>2. s \in ToSet(detached) /\ s \notin dead
    <3>1. s \in ToSet(detached)
      BY <2>1 DEF ToSet
    <3>2. \A j \in i + 1 .. Len(detached) : detached[j] # s
      BY <1>2, <2>1 DEF IsInjective
    <3>. QED  BY <3>1, <3>2
  <2>3. /\ mine'[c] = s /\ place'[c] = "attaching"
        /\ \A d \in Conns : d # c => mine'[d] = mine[d] /\ place'[d] = place[d]
        /\ registry' = Without(registry, dead) /\ detached' = Without(detached, dead \cup {s})
    BY <1>1, <1>10 DEF Adopts, Goes
  <2>. HIDE DEF s, dead
  <2>4. /\ ToSet(registry') = ToSet(registry) \ dead /\ IsInjective(registry')
        /\ ToSet(detached') = ToSet(detached) \ (dead \cup {s}) /\ IsInjective(detached')
    BY <1>1, <1>2, <2>3, WithoutLeaves
  <2>5. Serves(c)' /\ ~Serves(c) /\ \A d \in Conns : d # c => (Serves(d)' <=> Serves(d))
    BY <1>10, <2>3 DEF Serves
  <2>6. ToSet(detached') \subseteq ToSet(registry')
    BY <1>2, <2>4
  <2>7. ASSUME NEW a \in Conns, NEW b \in Conns, Serves(a)', Serves(b)', mine'[a] = mine'[b]
        PROVE  a = b
    BY <1>2, <2>2, <2>3, <2>5, <2>7
  <2>8. ASSUME NEW a \in Conns, Serves(a)' PROVE mine'[a] \notin ToSet(detached')
    BY <1>2, <2>3, <2>4, <2>5, <2>8
  <2>9. ASSUME NEW t \in ToSet(registry')
        PROVE  t \in ToSet(detached') \/ \E d \in Conns : Serves(d)' /\ mine'[d] = t
    BY SMTT(20), <1>2, <2>3, <2>4, <2>5
  <2>. QED  BY <2>4, <2>6, <2>7, <2>8, <2>9 DEF Lists
<1>11. ASSUME NEW c \in Conns, Looks(c) PROVE Lists'
  <2>1. CASE /\ registry' = Without(registry, ToSet(detached))
             /\ detached' = <<>> /\ Goes(c, "claiming") /\ UNCHANGED mine
    <3>1. /\ ToSet(registry') = ToSet(registry) \ ToSet(detached) /\ IsInjective(registry')
          /\ ToSet(detached') = {} /\ IsInjective(detached')
      <4>1. ToSet(<<>>) = {} /\ IsInjective(<<>>)
        BY DEF ToSet, IsInjective
      <4>. QED  BY <1>1, <1>2, <2>1, <4>1, WithoutLeaves
    <3>2. Same
      BY <1>1, <1>11, <2>1 DEF Looks, Goes, Serves
    <3>. QED  BY <1>2, <2>1, <3>1, <3>2 DEF Lists
  <2>. QED  BY <1>10, <1>11, <2>1 DEF Looks
<1>12. ASSUME NEW c \in Conns, Claims(c) PROVE Lists'
  <2>1. ~Serves(c) /\ ~Serves(c)' /\ \A d \in Conns : d # c => mine'[d] = mine[d] /\ place'[d] = place[d]
    BY <1>1, <1>12 DEF Claims, Goes, Serves
  <2>2. Same
    BY <2>1 DEF Serves
  <2>3. CASE Full
    <3>1. Removes({Head(registry)})
      BY <1>12, <2>3 DEF Claims
    <3>. QED  BY <1>5, <2>2, <3>1 DEF Removes
  <2>4. CASE ~Full
    BY <1>4, <1>12, <2>2, <2>4 DEF Claims
  <2>. QED  BY <2>3, <2>4
<1>16. ASSUME NEW c \in Conns, Spawns(c) PROVE Lists'
  <2>1. UNCHANGED <<registry, detached, mine>>
    BY <1>16 DEF Spawns
  <2>2. \A d \in Conns : Serves(d)' <=> Serves(d)
    BY <1>1, <1>16 DEF Spawns, Goes, Serves
  <2>. QED  BY <1>4, <2>1, <2>2
<1>13. ASSUME NEW c \in Conns, Registers(c) PROVE Lists'
  <2>1. /\ place[c] = "forked" /\ mine[c] = c /\ mine' = mine /\ detached' = detached
        /\ place'[c] = "pumping" /\ registry' = Append(registry, c)
    BY <1>1, <1>13 DEF Registers, Assigned, Goes
  <2>2. \A d \in Conns : d # c => place'[d] = place[d]
    BY <1>1, <1>13 DEF Registers, Goes
  <2>3. ~Serves(c) /\ c \notin ToSet(registry) /\ c \notin ToSet(detached)
        /\ \A d \in Conns : Serves(d) => mine[d] # c
    BY <1>2, <2>1 DEF Serves, Beginnings, Begun, Fresh
  <2>4. ToSet(registry') = ToSet(registry) \cup {c} /\ IsInjective(registry')
    BY <1>1, <1>2, <2>3, <2>1, AppendElements
  <2>5. Serves(c)' /\ \A d \in Conns : d # c => (Serves(d)' <=> Serves(d))
    BY <2>1, <2>2 DEF Serves
  <2>6. ASSUME NEW t \in ToSet(registry')
        PROVE  t \in ToSet(detached') \/ \E d \in Conns : Serves(d)' /\ mine'[d] = t
    BY <1>2, <2>1, <2>3, <2>4, <2>5
  <2>7. ASSUME NEW a \in Conns, NEW d \in Conns, Serves(a)', Serves(d)', mine'[a] = mine'[d]
        PROVE  a = d
    <3>1. CASE a = c \/ d = c
      BY <2>1, <2>3, <2>5, <2>7, <3>1
    <3>2. CASE a # c /\ d # c
      BY <1>2, <2>1, <2>5, <2>7, <3>2
    <3>. QED  BY <3>1, <3>2
  <2>8. ASSUME NEW a \in Conns, Serves(a)' PROVE mine'[a] \notin ToSet(detached')
    BY <1>2, <2>1, <2>3, <2>5, <2>8
  <2>9. ToSet(detached') \subseteq ToSet(registry') /\ IsInjective(detached')
    BY <1>2, <2>1, <2>4
  <2>. QED  BY <2>4, <2>6, <2>7, <2>8, <2>9 DEF Lists
<1>14. ASSUME NEW c \in Conns, HandlerLeaves(c) PROVE Lists'
  <2>. DEFINE s == mine[c]
  <2>1. Serves(c) /\ s \in Conns /\ s \notin ToSet(detached)
    BY <1>2, <1>14 DEF HandlerLeaves, Leaves, Serves, Assigned
  <2>2. ~Serves(c)' /\ \A d \in Conns : d # c => (Serves(d)' <=> Serves(d)) /\ mine'[d] = mine[d]
    BY <1>1, <1>14 DEF HandlerLeaves, Goes, Serves
  <2>3. \A d \in Conns : Serves(d)' => mine'[d] # s
    BY <1>2, <2>1, <2>2
  <2>4. CASE registry' = registry /\ detached' = IF IsRegistered(s) THEN Append(detached, s) ELSE detached
    <3>1. /\ IsInjective(detached')
          /\ ToSet(detached') = IF s \in ToSet(registry) THEN ToSet(detached) \cup {s} ELSE ToSet(detached)
      <4>1. /\ ToSet(Append(detached, s)) = ToSet(detached) \cup {s}
            /\ IsInjective(Append(detached, s))
        BY <1>1, <1>2, <2>1, AppendElements
      <4>. QED  BY <1>2, <2>4, <4>1 DEF IsRegistered
    <3>. HIDE DEF s
    <3>2. ASSUME NEW t \in ToSet(registry')
          PROVE  t \in ToSet(detached') \/ \E d \in Conns : Serves(d)' /\ mine'[d] = t
      <4>1. CASE t = s
        BY <2>4, <3>1, <4>1
      <4>2. CASE t # s
        BY <1>2, <2>2, <2>4, <3>1, <4>2 DEF s
      <4>. QED  BY <4>1, <4>2
    <3>. QED  BY <1>2, <2>2, <2>3, <2>4, <3>1, <3>2 DEF Lists
  <2>5. CASE registry' = Without(registry, {s}) /\ detached' = detached
    <3>1. ToSet(registry') = ToSet(registry) \ {s} /\ IsInjective(registry')
      BY <1>1, <1>2, <2>5, WithoutLeaves
    <3>2. ASSUME NEW t \in ToSet(registry')
          PROVE  t \in ToSet(detached') \/ \E d \in Conns : Serves(d)' /\ mine'[d] = t
      BY <1>2, <2>2, <2>5, <3>1
    <3>. QED  BY <1>2, <2>1, <2>2, <2>5, <3>1, <3>2 DEF Lists
  <2>. QED  BY <1>14, <2>4, <2>5 DEF HandlerLeaves, Leaves
<1>15. ASSUME Sweeps \/ Restarts PROVE Lists'
  <2>1. PICK gones : Removes(gones)
    BY <1>15 DEF Sweeps, Restarts
  <2>2. Same
    BY <1>15 DEF Sweeps, Restarts, Serves
  <2>. QED  BY <1>5, <2>1, <2>2 DEF Removes
<1>. QED
  BY <1>6, <1>7, <1>8, <1>9, <1>11, <1>12, <1>13, <1>14, <1>15, <1>16
     DEF Next, HandlerStep

-----------------------------------------------------------------------------
(* Processes.                                                              *)

LEMMA ProcessesInit == Init => Processes
BY DEF Init, Processes

LEMMA ProcessesStep ==
    ASSUME Ranges, Assigned, Beginnings, Lists, Processes, [Next]_vars
    PROVE  Processes'
<1>1. registry \in Seq(Conns) /\ detached \in Seq(Conns) /\ place \in [Conns -> Places]
  BY DEF Ranges
<1>2. alive \subseteq ToSet(registry) \cup reaping \cup InHand /\ alive \cap exited = {}
      /\ ToSet(detached) \subseteq ToSet(registry)
  BY DEF Processes, Lists
<1>3. \A s \in InHand : ~Registers(s) => s \in InHand'
  BY InHandStays
<1>4. ASSUME NEW gones, registry' = Without(registry, gones), gones \subseteq reaping',
             reaping \subseteq reaping', UNCHANGED <<alive, exited>>,
             \A s \in Conns : ~Registers(s)
      PROVE  Processes'
  <2>1. ToSet(registry') = ToSet(registry) \ gones
    BY <1>1, <1>4, WithoutLeaves
  <2>2. InHand \subseteq InHand'
    BY <1>3, <1>4 DEF InHand
  <2>3. alive' \subseteq ToSet(registry') \cup reaping' \cup InHand'
    BY <1>2, <1>4, <2>1, <2>2
  <2>4. alive' \cap exited' = {}
    BY <1>2, <1>4
  <2>. QED  BY <2>3, <2>4 DEF Processes
<1>5. ASSUME UNCHANGED <<registry, reaping>>, alive' \subseteq alive, alive' \cap exited' = {},
             \A s \in Conns : ~Registers(s)
      PROVE  Processes'
  <2>1. InHand \subseteq InHand'
    BY <1>3, <1>5 DEF InHand
  <2>2. alive' \subseteq ToSet(registry') \cup reaping' \cup InHand'
    BY <1>2, <1>5, <2>1
  <2>. QED  BY <1>5, <2>2 DEF Processes
\* Who registers changes the registry, which no other step extends.
<1>6. ASSUME NEW c \in Conns, Registers(c) PROVE Processes'
  <2>1. ToSet(registry') = ToSet(registry) \cup {c}
    BY <1>1, <1>6, AppendElements DEF Registers
  <2>2. \A s \in InHand : s # c => s \in InHand'
    BY <1>1, <1>6 DEF InHand, Registers, Goes
  <2>3. UNCHANGED <<alive, reaping, exited>>
    BY <1>6 DEF Registers
  <2>4. alive' \subseteq ToSet(registry') \cup reaping' \cup InHand'
    BY <1>2, <2>1, <2>2, <2>3
  <2>. QED  BY <1>2, <2>3, <2>4 DEF Processes
<1>. SUFFICES ASSUME \A s \in Conns : ~Registers(s) PROVE Processes'
  BY <1>6
<1>7. ASSUME NEW c \in Conns,
             \/ Connects(c) \/ Attaches(c) \/ Drops(c) \/ OutputTakes(c) \/ OutputSends(c) \/ PumpEnds(c)
             \/ Reads(c) \/ Drains(c) \/ ClosesSocket(c)
      PROVE  UNCHANGED <<registry, reaping, alive, exited>>
  BY <1>7 DEF Connects, Attaches, Drops, OutputTakes, OutputSends, PumpEnds, Reads, Drains,
              ClosesSocket
<1>8. UNCHANGED vars => UNCHANGED <<registry, reaping, alive, exited>>
  BY DEF vars
<1>9. UNCHANGED <<registry, reaping, alive, exited>> => Processes'
  BY <1>2, <1>5
<1>10. ASSUME NEW c \in Conns, Looks(c) PROVE Processes'
  <2>1. \E gones : registry' = Without(registry, gones) /\ reaping' = reaping \cup gones
    BY <1>10 DEF Looks, Adopts
  <2>. QED  BY <1>4, <1>10, <2>1 DEF Looks
<1>11. ASSUME NEW c \in Conns, Claims(c) PROVE Processes'
  <2>1. CASE Full
    BY <1>4, <1>11, <2>1 DEF Claims, Removes
  <2>2. CASE ~Full
    BY <1>9, <1>11, <2>2 DEF Claims
  <2>. QED  BY <2>1, <2>2
<1>12. ASSUME NEW c \in Conns, Spawns(c) PROVE Processes'
  <2>1. c \notin exited /\ UNCHANGED <<registry, reaping, exited>>
    BY <1>12 DEF Spawns, Beginnings, Begun, Fresh
  <2>2. CASE alive' = alive
    BY <1>2, <1>5, <2>1, <2>2
  <2>3. CASE alive' = alive \cup {c} /\ Goes(c, "forked")
    <3>1. InHand \subseteq InHand' /\ c \in InHand'
      BY <1>1, <2>3 DEF InHand, Goes
    <3>2. alive' \subseteq ToSet(registry') \cup reaping' \cup InHand'
      BY <1>2, <2>1, <2>3, <3>1
    <3>. QED  BY <1>2, <2>1, <2>3, <3>2 DEF Processes
  <2>. QED  BY <1>12, <2>2, <2>3 DEF Spawns
<1>13. ASSUME NEW c \in Conns, HandlerLeaves(c) PROVE Processes'
  <2>1. \/ UNCHANGED <<registry, reaping>>
        \/ registry' = Without(registry, {mine[c]}) /\ reaping' = reaping \cup {mine[c]}
    BY <1>13 DEF HandlerLeaves, Leaves
  <2>. QED  BY <1>4, <1>9, <1>13, <2>1 DEF HandlerLeaves
<1>14. ASSUME NEW s \in Conns, ProcessEnds(s) PROVE Processes'
  <2>1. UNCHANGED <<registry, reaping>> /\ alive' \subseteq alive /\ alive' \cap exited' = {}
    BY <1>2, <1>14 DEF ProcessEnds
  <2>. QED  BY <1>5, <2>1
<1>15. ASSUME NEW s \in Conns, SeesEof(s) PROVE Processes'
  <2>1. UNCHANGED <<registry, reaping>> /\ alive' \subseteq alive /\ alive' \cap exited' = {}
    BY <1>2, <1>15 DEF SeesEof, FinishesOutput
  <2>. QED  BY <1>5, <2>1
<1>16. ASSUME NEW s \in Conns, Reaped(s) PROVE Processes'
  <2>1. /\ registry' = registry /\ reaping' = reaping \ {s} /\ alive' = alive \ {s}
        /\ exited' = exited \cup {s} /\ place' = place
    BY <1>16 DEF Reaped, FinishesOutput
  <2>2. InHand' = InHand
    BY <2>1 DEF InHand
  <2>3. alive' \subseteq ToSet(registry') \cup reaping' \cup InHand' /\ alive' \cap exited' = {}
    BY <1>2, <2>1, <2>2
  <2>. QED  BY <2>3 DEF Processes
<1>17. ASSUME Sweeps \/ Restarts PROVE Processes'
  BY <1>4, <1>17 DEF Sweeps, Restarts, Removes
<1>. QED
  BY <1>7, <1>8, <1>9, <1>10, <1>11, <1>12, <1>13, <1>14, <1>15, <1>16, <1>17
     DEF Next, HandlerStep, PtyStep

-----------------------------------------------------------------------------
(* Queues.                                                                 *)

LEMMA StreamsInit == Init => Streams
<1>1. Len(<<>>) = 0
  BY EmptySeq
<1>. QED  BY <1>1 DEF Init, Streams, Stream, Chunks

LEMMA StreamSame ==
    ASSUME NEW s \in Conns, Stream(s),
           queue'[s] = queue[s], produced'[s] = produced[s],
           s \in exited' <=> s \in exited, s \in exited \/ (s \in paused' <=> s \in paused)
    PROVE  Stream(s)'
<1>1. Chunks(s)' = Chunks(s)
  BY DEF Chunks
<1>. QED  BY <1>1 DEF Stream

\* What a queue holds, counted from its end.
LEMMA StreamOf ==
    ASSUME Ranges, NEW s \in Conns, Stream(s)
    PROVE  /\ queue[s] \in Seq(0..scope.chunks) /\ produced[s] \in Nat /\ scope.chunks \in Nat
           /\ Len(queue[s]) \in Nat /\ Chunks(s) \in Nat /\ Chunks(s) <= produced[s]
           /\ Len(queue[s]) = IF s \in exited THEN Chunks(s) + 1 ELSE Chunks(s)
           /\ \A i \in 1..Chunks(s) : queue[s][i] = (produced[s] - Chunks(s)) + i /\ queue[s][i] # Eof
<1>1. queue[s] \in Seq(0..scope.chunks) /\ produced[s] \in 0..scope.chunks /\ scope.chunks \in Nat
  BY ScopeRange DEF Ranges
<1>2. Len(queue[s]) \in Nat /\ produced[s] \in Nat
  BY <1>1, LenProperties
<1>3. Chunks(s) \in Nat /\ Chunks(s) <= produced[s]
  BY <1>2 DEF Stream
<1>4. Len(queue[s]) = IF s \in exited THEN Chunks(s) + 1 ELSE Chunks(s)
  BY <1>2 DEF Chunks
<1>5. \A i \in 1..Chunks(s) : queue[s][i] = (produced[s] - Chunks(s)) + i
  BY DEF Stream
<1>. QED  BY <1>1, <1>2, <1>3, <1>4, <1>5 DEF Eof

LEMMA StreamReads ==
    ASSUME Ranges, NEW s \in Conns, Stream(s), Reads(s)
    PROVE  Stream(s)' /\ Chunks(s)' = Chunks(s) + 1
<1>. DEFINE q == queue[s]
            n == Chunks(s)
            p == produced[s]
<1>1. /\ q \in Seq(0..scope.chunks) /\ p \in Nat /\ n \in Nat /\ n <= p /\ Len(q) = n
      /\ s \notin exited /\ s \notin paused /\ scope.chunks \in Nat
      /\ \A i \in 1..n : q[i] = (p - n) + i
  BY StreamOf DEF Reads
<1>2. n < HighWater
  BY <1>1 DEF Stream
<1>3. produced'[s] = p + 1 /\ p + 1 \in 0..scope.chunks
  BY SMTT(20), <1>1 DEF Reads, Ranges
<1>4. queue'[s] = Append(q, p + 1) /\ exited' = exited
  BY <1>3 DEF Reads, Ranges
<1>5. /\ Len(queue'[s]) = n + 1 /\ queue'[s][n + 1] = p + 1
      /\ \A i \in 1..n : queue'[s][i] = q[i]
  BY <1>1, <1>3, <1>4, AppendProperties
<1>6. paused' = IF n + 1 >= HighWater THEN paused \cup {s} ELSE paused
  BY <1>5 DEF Reads
<1>7. Chunks(s)' = n + 1
  BY <1>1, <1>4, <1>5 DEF Chunks
<1>. HIDE DEF q, n, p
<1>8. \A i \in 1..(n + 1) : queue'[s][i] = ((p + 1) - (n + 1)) + i
  <2>1. ASSUME NEW i \in 1..(n + 1) PROVE queue'[s][i] = ((p + 1) - (n + 1)) + i
    <3>1. CASE i = n + 1
      BY <1>1, <1>5, <3>1
    <3>2. CASE i \in 1..n
      BY <1>1, <1>5, <3>2
    <3>3. n \in Nat
      BY <1>1
    <3>. QED  BY <3>1, <3>2, <3>3
  <2>. QED  BY <2>1
<1>9. /\ n + 1 \in 0..(p + 1) /\ n + 1 <= HighWater
      /\ s \in paused' => LowWater < n + 1
      /\ s \notin paused' => n + 1 < HighWater
  BY <1>1, <1>2, <1>6
<1>10. Stream(s)'
  BY <1>1, <1>3, <1>4, <1>7, <1>8, <1>9 DEF Stream
<1>. QED  BY <1>7, <1>10 DEF n

LEMMA StreamFinishes ==
    ASSUME Ranges, NEW s \in Conns, Stream(s), FinishesOutput(s), UNCHANGED <<produced, paused>>
    PROVE  Stream(s)' /\ Chunks(s)' = Chunks(s)
<1>1. CASE s \in exited
  <2>1. queue'[s] = queue[s] /\ exited' = exited /\ produced'[s] = produced[s] /\ paused' = paused
    BY <1>1 DEF FinishesOutput
  <2>. QED  BY <2>1, StreamSame DEF Chunks
<1>2. CASE s \notin exited
  <2>. DEFINE q == queue[s]
              n == Chunks(s)
              p == produced[s]
  <2>1. /\ q \in Seq(0..scope.chunks) /\ p \in Nat /\ n \in Nat /\ n <= p /\ Len(q) = n
        /\ scope.chunks \in Nat
        /\ \A i \in 1..n : q[i] = (p - n) + i
    BY <1>2, StreamOf
  <2>2. queue'[s] = Append(q, Eof) /\ s \in exited' /\ produced'[s] = p /\ Eof \in 0..scope.chunks
    BY <1>2, <2>1 DEF FinishesOutput, Ranges, Eof
  <2>3. /\ Len(queue'[s]) = n + 1 /\ queue'[s][n + 1] = Eof
        /\ \A i \in 1..n : queue'[s][i] = q[i]
    BY <2>1, <2>2, AppendProperties
  <2>4. Chunks(s)' = n
    BY <2>1, <2>2, <2>3 DEF Chunks
  <2>5. n <= HighWater /\ n \in 0..p
    BY DEF Stream
  <2>. HIDE DEF q, n, p
  <2>6. Stream(s)'
    BY <2>1, <2>2, <2>3, <2>4, <2>5 DEF Stream
  <2>. QED  BY <2>4, <2>6 DEF n
<1>. QED  BY <1>1, <1>2

LEMMA StreamTakes ==
    ASSUME Ranges, NEW s \in Conns, Stream(s), queue[s] # <<>>, Head(queue[s]) # Eof,
           Takes(s, Tail(queue[s])), UNCHANGED <<produced, exited>>
    PROVE  /\ Stream(s)' /\ Chunks(s) # 0 /\ Chunks(s)' = Chunks(s) - 1
           /\ Head(queue[s]) = (produced[s] - Chunks(s)) + 1
<1>. DEFINE q == queue[s]
            n == Chunks(s)
            p == produced[s]
<1>1. /\ q \in Seq(0..scope.chunks) /\ p \in Nat /\ n \in Nat /\ n <= p /\ Len(q) \in Nat
      /\ Len(q) = IF s \in exited THEN n + 1 ELSE n
      /\ \A i \in 1..n : q[i] = (p - n) + i
  BY StreamOf
<1>2. n <= HighWater /\ (s \in exited => q[n + 1] = Eof)
      /\ (s \notin exited /\ s \notin paused => n < HighWater)
  BY DEF Stream
<1>3. Len(q) # 0 /\ Head(q) = q[1]
  BY <1>1, EmptySeq
<1>4. n # 0
  BY <1>1, <1>2, <1>3
<1>5. Head(q) = (p - n) + 1
  BY <1>1, <1>3, <1>4
<1>6. /\ Len(Tail(q)) = Len(q) - 1
      /\ \A i \in 1..Len(Tail(q)) : Tail(q)[i] = q[i + 1]
  BY <1>1, HeadTailProperties
<1>7. queue'[s] = Tail(q) /\ produced'[s] = p /\ exited' = exited
      /\ paused' = IF Len(Tail(q)) <= LowWater /\ s \notin exited THEN paused \ {s} ELSE paused
  BY DEF Takes, Ranges
<1>8. Chunks(s)' = n - 1
  BY <1>1, <1>6, <1>7 DEF Chunks
<1>. HIDE DEF q, n, p
<1>9. \A i \in 1..(n - 1) : queue'[s][i] = (p - (n - 1)) + i
  <2>1. ASSUME NEW i \in 1..(n - 1) PROVE queue'[s][i] = (p - (n - 1)) + i
    <3>1. i + 1 \in 1..n /\ i \in 1..Len(Tail(q))
      BY <1>1, <1>6
    <3>2. Tail(q)[i] = q[i + 1] /\ q[i + 1] = (p - n) + (i + 1)
      BY <1>1, <1>6, <3>1
    <3>. QED  BY <1>1, <1>7, <3>2
  <2>. QED  BY <2>1
<1>10. s \in exited => queue'[s][(n - 1) + 1] = Eof
  <2>1. ASSUME s \in exited PROVE Tail(q)[n] = Eof
    <3>1. n \in 1..Len(Tail(q))
      BY <1>1, <1>4, <1>6, <2>1
    <3>. QED  BY <1>2, <1>6, <2>1, <3>1
  <2>2. (n - 1) + 1 = n
    BY <1>1
  <2>. QED  BY <1>7, <2>1, <2>2
<1>11. /\ n - 1 \in 0..p /\ n - 1 <= HighWater
       /\ s \notin exited /\ s \in paused' => LowWater < n - 1
       /\ s \notin exited /\ s \notin paused' => n - 1 < HighWater
  BY <1>1, <1>2, <1>4, <1>6, <1>7
<1>12. Stream(s)'
  BY <1>7, <1>8, <1>9, <1>10, <1>11 DEF Stream
<1>. QED  BY <1>4, <1>5, <1>8, <1>12 DEF n, p, q

LEMMA StreamAttaches ==
    ASSUME Ranges, NEW c \in Conns, NEW s \in Conns, s = mine[c], Stream(s), FinishesAttach(c),
           UNCHANGED <<produced, exited>>
    PROVE  Stream(s)' /\ Chunks(s)' = 0
<1>. DEFINE q == queue[s]
            n == Chunks(s)
            p == produced[s]
<1>1. /\ q \in Seq(0..scope.chunks) /\ p \in Nat /\ n \in Nat /\ n <= p /\ Len(q) \in Nat
      /\ Len(q) = IF s \in exited THEN n + 1 ELSE n
      /\ \A i \in 1..n : q[i] # Eof
  BY StreamOf
<1>2. n <= HighWater /\ (s \in exited => q[n + 1] = Eof) /\ 0 < HighWater
  BY DEF Stream
<1>3. queue'[s] = Kept(q, {Eof})
  BY DEF FinishesAttach, Ranges
<1>4. produced'[s] = p /\ exited' = exited /\ paused' = paused \ (IF s \in exited THEN {} ELSE {s})
  BY DEF FinishesAttach
<1>. HIDE DEF n, p, q
<1>5. CASE s \in exited
  <2>1. Len(q) > 0 /\ q[Len(q)] = Eof /\ Len(q) - 1 = n
    BY <1>1, <1>2, <1>5
  <2>2. \A i \in 1..(Len(q) - 1) : q[i] # Eof
    BY <1>1, <2>1
  <2>3. Kept(q, {Eof}) = <<Eof>>
    BY <1>1, <2>1, <2>2, KeptLast
  <2>4. Len(queue'[s]) = 1 /\ queue'[s][1] = Eof
    BY <1>3, <2>3
  <2>5. Chunks(s)' = 0
    BY <1>4, <1>5, <2>4 DEF Chunks
  <2>6. Stream(s)'
    BY <1>1, <1>2, <1>4, <1>5, <2>4, <2>5 DEF Stream
  <2>. QED  BY <2>5, <2>6
<1>6. CASE s \notin exited
  <2>1. ToSet(q) \cap {Eof} = {}
    <3>1. DOMAIN q = 1..n
      BY <1>1, <1>6, LenProperties
    <3>. QED  BY <1>1, <3>1 DEF ToSet
  <2>2. Kept(q, {Eof}) = <<>>
    BY <1>1, <2>1, KeptNone
  <2>3. queue'[s] = <<>>
    BY <1>3, <2>2
  <2>4. produced'[s] \in Nat /\ s \notin exited' /\ s \notin paused'
    BY <1>1, <1>4, <1>6
  <2>5. Chunks(s)' = 0
    BY <2>3, <2>4, EmptySeq DEF Chunks
  <2>6. Stream(s)'
    BY <1>2, <2>4, <2>5 DEF Stream
  <2>. QED  BY <2>5, <2>6
<1>. QED  BY <1>5, <1>6

LEMMA StreamsStep ==
    ASSUME Ranges, Assigned, Streams, [Next]_vars
    PROVE  Streams'
<1>. SUFFICES ASSUME NEW s \in Conns PROVE Stream(s)'
  BY DEF Streams
<1>1. Stream(s) /\ queue \in [Conns -> Seq(0..scope.chunks)] /\ produced \in [Conns -> 0..scope.chunks]
  BY DEF Streams, Ranges
<1>2. UNCHANGED <<queue, produced, exited, paused>> => Stream(s)'
  BY <1>1, StreamSame
<1>3. ASSUME NEW c \in Conns,
             \/ Connects(c) \/ Looks(c) \/ Claims(c) \/ Spawns(c) \/ Registers(c) \/ HandlerLeaves(c)
             \/ Drops(c) \/ OutputSends(c) \/ PumpEnds(c) \/ ProcessEnds(c) \/ ClosesSocket(c)
      PROVE  UNCHANGED <<queue, produced, exited, paused>>
  BY <1>3 DEF Connects, Looks, Claims, Spawns, Registers, HandlerLeaves, Drops, OutputSends,
              PumpEnds, ProcessEnds, ClosesSocket, outputVars
<1>4. Sweeps \/ Restarts \/ UNCHANGED vars => UNCHANGED <<queue, produced, exited, paused>>
  BY DEF Sweeps, Restarts, vars, outputVars
<1>5. ASSUME NEW c \in Conns, Attaches(c) PROVE Stream(s)'
  <2>1. FinishesAttach(c) /\ produced' = produced /\ exited' = exited
    BY <1>5 DEF Attaches
  <2>2. CASE s = mine[c]
    BY <1>1, <2>1, <2>2, StreamAttaches
  <2>3. CASE s # mine[c]
    <3>1. queue'[s] = queue[s] /\ (s \in paused' <=> s \in paused)
      BY <1>1, <2>1, <2>3 DEF FinishesAttach
    <3>. QED  BY <1>1, <2>1, <3>1, StreamSame
  <2>. QED  BY <2>2, <2>3
<1>6. ASSUME NEW t \in Conns, queue[t] # <<>>, Head(queue[t]) # Eof, Takes(t, Tail(queue[t])),
             UNCHANGED <<produced, exited>>
      PROVE  Stream(s)'
  <2>1. CASE s = t
    BY <1>1, <1>6, <2>1, StreamTakes
  <2>2. CASE s # t
    <3>1. queue'[s] = queue[s] /\ (s \in paused' <=> s \in paused)
      BY <1>1, <1>6, <2>2 DEF Takes
    <3>. QED  BY <1>1, <1>6, <3>1, StreamSame
  <2>. QED  BY <2>1, <2>2
<1>7. ASSUME NEW c \in Conns, OutputTakes(c) PROVE Stream(s)'
  <2>1. mine[c] \in Conns
    BY <1>7 DEF OutputTakes, Assigned, Serves
  <2>. QED  BY <1>6, <1>7, <2>1 DEF OutputTakes
<1>8. ASSUME NEW t \in Conns, Drains(t) PROVE Stream(s)'
  BY <1>6, <1>8 DEF Drains
<1>9. ASSUME NEW t \in Conns, Reads(t) PROVE Stream(s)'
  <2>1. CASE s = t
    BY <1>1, <1>9, <2>1, StreamReads
  <2>2. CASE s # t
    <3>1. queue'[s] = queue[s] /\ produced'[s] = produced[s] /\ (s \in paused' <=> s \in paused)
          /\ exited' = exited
      BY <1>1, <1>9, <2>2 DEF Reads
    <3>. QED  BY <1>1, <3>1, StreamSame
  <2>. QED  BY <2>1, <2>2
<1>10. ASSUME NEW t \in Conns, SeesEof(t) \/ Reaped(t) PROVE Stream(s)'
  <2>1. FinishesOutput(t) /\ produced' = produced /\ paused' = paused
    BY <1>10 DEF SeesEof, Reaped
  <2>2. CASE s = t
    BY <1>1, <2>1, <2>2, StreamFinishes
  <2>3. CASE s # t
    <3>1. queue'[s] = queue[s] /\ (s \in exited' <=> s \in exited)
      BY <1>1, <2>1, <2>3 DEF FinishesOutput
    <3>. QED  BY <1>1, <2>1, <3>1, StreamSame
  <2>. QED  BY <2>2, <2>3
<1>. QED
  BY <1>2, <1>3, <1>4, <1>5, <1>7, <1>8, <1>9, <1>10 DEF Next, HandlerStep, PtyStep

-----------------------------------------------------------------------------
(* Sockets.                                                                *)

LEMMA ShowsInit == Init => Shows
BY DEF Init, Shows

\* What a socket still has to be shown continues what it has been shown.
LEMMA ContinuesStep ==
    ASSUME Ranges, Assigned, Beginnings, Lists, Streams, Shows, [Next]_vars,
           NEW d \in Conns, NEW s \in Conns, place'[d] = "pumping", mine'[d] = s
    PROVE  Continues(d, s)'
<1>1. /\ place \in [Conns -> Places] /\ mine \in [Conns -> Conns \cup {NoConn}]
      /\ queue \in [Conns -> Seq(0..scope.chunks)] /\ produced \in [Conns -> 0..scope.chunks]
      /\ shown \in [Conns -> 0..scope.chunks] /\ hand \in [Conns -> 0..scope.chunks]
      /\ scope.chunks \in Nat
  BY ScopeRange DEF Ranges
<1>2. place[d] = "pumping" /\ mine[d] = s => Continues(d, s)
  BY DEF Shows
<1>3. Stream(s) /\ produced[s] \in Nat /\ shown[d] \in Nat /\ hand[d] \in Nat /\ Chunks(s) \in Nat
  BY <1>1, StreamOf DEF Streams
\* The session and what its socket has in hand are as they were.
<1>. DEFINE Same ==
              /\ place[d] = "pumping" /\ mine[d] = s
              /\ shown'[d] = shown[d] /\ hand'[d] = hand[d] /\ produced'[s] = produced[s]
              /\ queue'[s] = queue[s] /\ (s \in exited' <=> s \in exited)
              /\ s \in draining' => s \in draining
<1>4. Same => Continues(d, s)'
  BY <1>2 DEF Continues, Chunks
<1>5. ASSUME NEW c \in Conns, place[c] # "pumping", place'[c] # "pumping",
             \A e \in Conns : e # c => place'[e] = place[e] /\ mine'[e] = mine[e] /\ shown'[e] = shown[e],
             UNCHANGED <<produced, queue, exited, hand>>, s \in draining' => s \in draining
      PROVE  Continues(d, s)'
  BY <1>4, <1>5
<1>6. ASSUME NEW c \in Conns, Connects(c) \/ Looks(c) \/ Claims(c) \/ Spawns(c) PROVE Continues(d, s)'
  <2>1. place[c] # "pumping"
    BY <1>6 DEF Connects, Looks, Claims, Spawns
  <2>2. place'[c] # "pumping"
    BY <1>1, <1>6 DEF Connects, Looks, Adopts, Claims, Spawns, Goes
  <2>3. \A e \in Conns : e # c => place'[e] = place[e] /\ mine'[e] = mine[e]
    BY <1>1, <1>6 DEF Connects, Looks, Adopts, Claims, Spawns, Goes
  <2>4. UNCHANGED <<produced, queue, exited, hand, shown>>
    BY <1>6 DEF Connects, Looks, Claims, Spawns, outputVars
  <2>5. s \in draining' => s \in draining
    BY <1>6 DEF Connects, Looks, Claims, Spawns, Removes
  <2>. QED  BY <1>5, <2>1, <2>2, <2>3, <2>4, <2>5
<1>7. ASSUME NEW c \in Conns, Attaches(c) PROVE Continues(d, s)'
  <2>1. /\ FinishesAttach(c) /\ draining' = draining \ {mine[c]} /\ mine' = mine
        /\ UNCHANGED <<produced, exited, hand>>
        /\ Serves(c) /\ mine[c] \in Conns /\ hand[c] = 0
    BY <1>7 DEF Attaches, FinishesAttach, Assigned, Serves, Shows
  <2>2. CASE d = c
    <3>1. s = mine[c]
      BY <2>1, <2>2
    <3>2. Chunks(s)' = 0
      BY <1>3, <2>1, <3>1, StreamAttaches
    <3>3. shown'[d] = produced[s] /\ hand'[d] = 0 /\ produced'[s] = produced[s] /\ s \notin draining'
      BY <1>1, <2>1, <2>2, <3>1 DEF FinishesAttach
    <3>. QED  BY <1>3, <3>2, <3>3 DEF Continues
  <2>3. CASE d # c
    <3>1. place[d] = "pumping" /\ mine[d] = s
      BY <1>1, <1>7, <2>1, <2>3 DEF Attaches, Goes
    <3>2. s # mine[c]
      BY <2>1, <2>3, <3>1 DEF Lists, Serves
    <3>3. queue'[s] = queue[s] /\ shown'[d] = shown[d]
      BY <1>1, <2>1, <2>3, <3>2 DEF FinishesAttach
    <3>. QED  BY <1>4, <2>1, <3>1, <3>3
  <2>. QED  BY <2>2, <2>3
<1>8. ASSUME NEW c \in Conns, Registers(c) PROVE Continues(d, s)'
  <2>1. /\ place[c] = "forked" /\ mine[c] = c /\ mine' = mine
        /\ UNCHANGED <<produced, queue, exited, hand, shown, draining>>
        /\ \A e \in Conns : e # c => place'[e] = place[e]
    BY <1>1, <1>8 DEF Registers, outputVars, Assigned, Goes
  <2>2. CASE d = c
    <3>1. s = c /\ Fresh(s) /\ shown[d] = 0 /\ hand[d] = 0
      BY <2>1, <2>2 DEF Shows, Beginnings, Begun
    <3>2. queue[s] = <<>> /\ produced[s] = 0 /\ s \notin exited /\ s \notin draining
      BY <3>1 DEF Fresh
    <3>3. Chunks(s)' = 0
      BY <2>1, <3>2, EmptySeq DEF Chunks
    <3>. QED  BY <2>1, <3>1, <3>2, <3>3 DEF Continues
  <2>3. CASE d # c
    BY <1>4, <2>1, <2>3
  <2>. QED  BY <2>2, <2>3
<1>9. ASSUME NEW c \in Conns, HandlerLeaves(c) PROVE Continues(d, s)'
  <2>1. /\ place[c] = "leaving" /\ UNCHANGED <<produced, queue, exited, hand>>
        /\ draining' = draining \/ draining' = draining \cup {mine[c]}
    BY <1>9 DEF HandlerLeaves, Leaves
  <2>2. place'[c] = "ended"
        /\ \A e \in Conns : e # c => place'[e] = place[e] /\ mine'[e] = mine[e] /\ shown'[e] = shown[e]
    BY <1>1, <1>9 DEF HandlerLeaves, Goes
  <2>3. d # c /\ place[d] = "pumping" /\ mine[d] = s
    BY <2>2
  <2>4. s # mine[c]
    BY <2>1, <2>3 DEF Lists, Serves
  <2>. QED  BY <1>5, <2>1, <2>2, <2>4
<1>10. ASSUME NEW c \in Conns, OutputTakes(c) PROVE Continues(d, s)'
  <2>1. /\ place[c] = "pumping" /\ hand[c] = 0 /\ place' = place /\ mine' = mine
        /\ UNCHANGED <<produced, exited, shown, draining>>
        /\ queue[mine[c]] # <<>> /\ Head(queue[mine[c]]) # Eof
        /\ Takes(mine[c], Tail(queue[mine[c]]))
        /\ hand' = [hand EXCEPT ![c] = Head(queue[mine[c]])]
    BY <1>10 DEF OutputTakes
  <2>2. CASE d = c
    <3>1. s = mine[c]
      BY <2>1, <2>2
    <3>2. /\ Chunks(s) # 0 /\ Chunks(s)' = Chunks(s) - 1
          /\ Head(queue[s]) = (produced[s] - Chunks(s)) + 1
      BY <1>3, <2>1, <3>1, StreamTakes
    <3>3. hand'[d] = Head(queue[s]) /\ hand'[d] # 0
      BY <1>1, <2>1, <2>2, <3>1 DEF Eof
    <3>4. Continues(d, s)
      BY <1>2, <2>1, <2>2, <3>1
    <3>5. s \notin draining /\ shown[d] + Chunks(s) = produced[s]
      BY <1>3, <2>1, <2>2, <3>4 DEF Continues
    <3>. QED  BY SMTT(20), <1>3, <2>1, <3>2, <3>3, <3>5 DEF Continues
  <2>3. CASE d # c
    <3>1. place[d] = "pumping" /\ mine[d] = s /\ s # mine[c]
      BY <2>1, <2>3 DEF Lists, Serves
    <3>2. queue'[s] = queue[s] /\ hand'[d] = hand[d]
      BY <1>1, <2>1, <2>3, <3>1 DEF Takes
    <3>. QED  BY <1>4, <2>1, <3>1, <3>2
  <2>. QED  BY <2>2, <2>3
<1>11. ASSUME NEW c \in Conns, OutputSends(c) PROVE Continues(d, s)'
  <2>1. /\ place[c] = "pumping" /\ hand[c] # 0 /\ place' = place /\ mine' = mine
        /\ UNCHANGED <<produced, exited, queue, draining>>
        /\ shown' = [shown EXCEPT ![c] = hand[c]] /\ hand' = [hand EXCEPT ![c] = 0]
    BY <1>11 DEF OutputSends
  <2>2. Continues(d, s) /\ Chunks(s)' = Chunks(s)
    BY <1>2, <2>1 DEF Chunks
  <2>3. CASE d = c
    <3>1. shown'[d] = hand[d] /\ hand'[d] = 0 /\ hand[d] # 0
      BY <1>1, <2>1, <2>3
    <3>. QED  BY <1>3, <2>1, <2>2, <3>1 DEF Continues
  <2>4. CASE d # c
    BY <1>1, <1>4, <2>1, <2>4
  <2>. QED  BY <2>3, <2>4
<1>12. ASSUME NEW c \in Conns, PumpEnds(c) PROVE Continues(d, s)'
  <2>1. /\ d # c /\ place'[d] = place[d] /\ hand'[d] = hand[d]
    BY <1>1, <1>12 DEF PumpEnds, Goes
  <2>. QED  BY <1>4, <1>12, <2>1 DEF PumpEnds
<1>13. ASSUME NEW c \in Conns, Drops(c) \/ ProcessEnds(c) \/ ClosesSocket(c) PROVE Continues(d, s)'
  BY <1>4, <1>13 DEF Drops, ProcessEnds, ClosesSocket, outputVars
<1>14. ASSUME NEW t \in Conns, Reads(t) PROVE Continues(d, s)'
  <2>1. UNCHANGED <<place, mine, shown, hand, draining, exited>>
    BY <1>14 DEF Reads
  <2>2. Continues(d, s)
    BY <1>2, <2>1
  <2>3. CASE s = t
    <3>1. Chunks(s)' = Chunks(s) + 1
      BY <1>3, <1>14, <2>3, StreamReads
    <3>2. produced'[s] = produced[s] + 1
      BY <1>1, <1>14, <2>3 DEF Reads
    <3>. QED  BY <1>3, <2>1, <2>2, <3>1, <3>2 DEF Continues
  <2>4. CASE s # t
    BY <1>1, <1>4, <1>14, <2>1, <2>4 DEF Reads
  <2>. QED  BY <2>3, <2>4
<1>15. ASSUME NEW t \in Conns, SeesEof(t) \/ Reaped(t) PROVE Continues(d, s)'
  <2>1. FinishesOutput(t) /\ UNCHANGED <<place, mine, shown, hand, draining, produced, paused>>
    BY <1>15 DEF SeesEof, Reaped
  <2>2. Continues(d, s)
    BY <1>2, <2>1
  <2>3. CASE s = t
    <3>1. Chunks(s)' = Chunks(s)
      BY <1>3, <2>1, <2>3, StreamFinishes
    <3>. QED  BY <2>1, <2>2, <3>1 DEF Continues
  <2>4. CASE s # t
    BY <1>1, <1>4, <2>1, <2>4 DEF FinishesOutput
  <2>. QED  BY <2>3, <2>4
<1>16. ASSUME NEW t \in Conns, Drains(t) PROVE Continues(d, s)'
  <2>1. t \in draining /\ Takes(t, Tail(queue[t]))
        /\ UNCHANGED <<place, mine, shown, hand, draining, produced, exited>>
    BY <1>16 DEF Drains
  <2>2. t # s
    BY <1>2, <2>1 DEF Continues
  <2>3. queue'[s] = queue[s]
    BY <1>1, <2>1, <2>2 DEF Takes
  <2>. QED  BY <1>4, <2>1, <2>3
<1>17. ASSUME Sweeps \/ Restarts PROVE Continues(d, s)'
  BY <1>4, <1>17 DEF Sweeps, Restarts, Removes, outputVars
<1>18. ASSUME UNCHANGED vars PROVE Continues(d, s)'
  BY <1>4, <1>18 DEF vars
<1>. QED
  BY <1>6, <1>7, <1>8, <1>9, <1>10, <1>11, <1>12, <1>13, <1>14, <1>15, <1>16, <1>17, <1>18
     DEF Next, HandlerStep, PtyStep

LEMMA ShowsStep ==
    ASSUME Ranges, Assigned, Beginnings, Lists, Streams, Shows, [Next]_vars
    PROVE  Shows'
<1>1. \A d, s \in Conns : place'[d] = "pumping" /\ mine'[d] = s => Continues(d, s)'
  BY ContinuesStep
<1>2. /\ place \in [Conns -> Places] /\ shown \in [Conns -> 0..scope.chunks]
      /\ hand \in [Conns -> 0..scope.chunks]
  BY DEF Ranges
<1>. DEFINE Idle(d) == place[d] # "pumping" => hand[d] = 0
            Blank(d) == place[d] \notin {"pumping", "leaving"} => shown[d] = 0
<1>3. \A d \in Conns : Idle(d) /\ Blank(d)
  BY DEF Shows
<1>. SUFFICES ASSUME NEW d \in Conns PROVE Idle(d)' /\ Blank(d)'
  BY <1>1 DEF Shows
<1>4. CASE UNCHANGED <<place, shown, hand>>
  BY <1>3, <1>4
<1>5. ASSUME NEW c \in Conns,
             \/ Drops(c) \/ Reads(c) \/ ProcessEnds(c) \/ SeesEof(c) \/ Reaped(c) \/ Drains(c)
             \/ ClosesSocket(c)
      PROVE  UNCHANGED <<place, shown, hand>>
  BY <1>5 DEF Drops, Reads, ProcessEnds, SeesEof, Reaped, Drains, ClosesSocket, outputVars
<1>6. Sweeps \/ Restarts \/ UNCHANGED vars => UNCHANGED <<place, shown, hand>>
  BY DEF Sweeps, Restarts, vars, outputVars
<1>7. ASSUME NEW c \in Conns, \/ Connects(c) \/ Looks(c) \/ Claims(c) \/ Spawns(c)
                               \/ Registers(c)
      PROVE  Idle(d)' /\ Blank(d)'
  <2>1. UNCHANGED <<shown, hand>> /\ place[c] \notin {"pumping", "leaving"}
        /\ \A e \in Conns : e # c => place'[e] = place[e]
    BY <1>2, <1>7 DEF Connects, Looks, Adopts, Claims, Spawns, Registers, Goes, outputVars
  <2>. QED  BY <1>3, <2>1
<1>8. ASSUME NEW c \in Conns, Attaches(c) PROVE Idle(d)' /\ Blank(d)'
  <2>1. hand' = hand /\ place' = [place EXCEPT ![c] = "pumping"]
        /\ \E n : shown' = [shown EXCEPT ![c] = n]
    BY <1>8 DEF Attaches, FinishesAttach, Goes
  <2>. QED  BY <1>2, <1>3, <2>1
<1>9. ASSUME NEW c \in Conns, HandlerLeaves(c) PROVE Idle(d)' /\ Blank(d)'
  <2>1. hand' = hand /\ place[c] = "leaving" /\ place' = [place EXCEPT ![c] = "ended"]
        /\ shown' = [shown EXCEPT ![c] = 0]
    BY <1>9 DEF HandlerLeaves, Leaves, Goes
  <2>. QED  BY <1>2, <1>3, <2>1
<1>10. ASSUME NEW c \in Conns, OutputTakes(c) \/ OutputSends(c) PROVE Idle(d)' /\ Blank(d)'
  <2>1. /\ place[c] = "pumping" /\ place' = place
        /\ \A e \in Conns : e # c => shown'[e] = shown[e] /\ hand'[e] = hand[e]
    BY <1>2, <1>10 DEF OutputTakes, OutputSends
  <2>. QED  BY <1>3, <2>1
<1>11. ASSUME NEW c \in Conns, PumpEnds(c) PROVE Idle(d)' /\ Blank(d)'
  <2>1. shown' = shown /\ place[c] = "pumping" /\ place' = [place EXCEPT ![c] = "leaving"]
        /\ hand' = [hand EXCEPT ![c] = 0]
    BY <1>11 DEF PumpEnds, Goes
  <2>. QED  BY <1>2, <1>3, <2>1
<1>. QED
  BY <1>4, <1>5, <1>6, <1>7, <1>8, <1>9, <1>10, <1>11 DEF Next, HandlerStep, PtyStep

-----------------------------------------------------------------------------
(* Connections set up in turn.                                             *)

LEMMA InTurnInit == Init => InTurn
<1>1. Init => scope.cap \in Nat
  BY ScopeRange DEF Init
<1>2. Len(<<>>) = 0
  BY EmptySeq
<1>. QED  BY <1>1, <1>2 DEF Init, InTurn, Attaching

LEMMA InTurnStep ==
    ASSUME Ranges, Beginnings, Lists, Processes, InTurn, [Next]_vars
    PROVE  InTurn'
<1>. DEFINE SetUp == {"spawning", "forked"}
<1>1. /\ place \in [Conns -> Places] /\ mine \in [Conns -> Conns \cup {NoConn}]
      /\ registry \in Seq(Conns) /\ detached \in Seq(Conns) /\ resumed \subseteq Conns
      /\ scope.cap \in Nat /\ Len(registry) \in Nat /\ scope.cap # 0
  BY ScopeRange, LenProperties DEF Ranges, Sessions
<1>2. scope' = scope
  BY DEF Next, vars, HandlerStep, PtyStep, Connects, Drops, Looks, Attaches, Claims, Spawns,
         Registers, HandlerLeaves, OutputTakes, OutputSends, PumpEnds, Reads, ProcessEnds,
         SeesEof, Reaped, Drains, ClosesSocket, Sweeps, Restarts
<1>3. \A e \in Conns : Begun(e) => Begun(e)'
  BY BegunStays
<1>. SUFFICES ASSUME scope.orderly PROVE InTurn'
  BY <1>2 DEF InTurn
<1>4. /\ \A c, d \in Conns : Attaching(c) /\ Attaching(d) => c = d
      /\ Len(registry) <= scope.cap
      /\ \A c \in Conns : place[c] \in SetUp => Len(registry) < scope.cap
      /\ \A c \in resumed : Begun(c) \/ place[c] \in SetUp
      /\ \A c \in resumed : place[c] \in SetUp => registry = <<>>
      /\ \A s, t \in (resumed \cap alive) \ reaping : s = t
  BY DEF InTurn
<1>5. Undisturbed => \A c \in Conns : ~Attaching(c)
  BY DEF Undisturbed
<1>6. ASSUME NEW gones, registry' = Without(registry, gones)
      PROVE  Len(registry') \in Nat /\ Len(registry') <= Len(registry) /\ (registry = <<>> => registry' = <<>>)
  <2>1. registry' \in Seq(Conns) /\ Len(registry') <= Len(registry)
    BY <1>1, <1>6, WithoutLeaves
  <2>2. Len(registry') \in Nat
    BY <2>1, LenProperties
  <2>. QED  BY <1>1, <2>1, <2>2, EmptySeq
\* A step that sets up no connection.
<1>7. ASSUME Len(registry') \in Nat, Len(registry') <= Len(registry), registry = <<>> => registry' = <<>>,
             alive' \ reaping' \subseteq alive \ reaping, resumed' = resumed,
             \A e \in Conns : Attaching(e)' => Attaching(e) /\ place'[e] = place[e],
             \A e \in Conns : place[e] \in SetUp => place'[e] \in SetUp \/ Begun(e)'
      PROVE  InTurn'
  <2>1. \A c, d \in Conns : Attaching(c)' /\ Attaching(d)' => c = d
    BY <1>4, <1>7
  <2>2. Len(registry') <= scope.cap
    BY <1>1, <1>4, <1>7
  <2>3. \A e \in Conns : place'[e] \in SetUp => place[e] \in SetUp
    BY <1>7 DEF Attaching
  <2>4. \A c \in Conns : place'[c] \in SetUp => Len(registry') < scope.cap
    BY <1>1, <1>4, <1>7, <2>3
  <2>5. \A c \in resumed' : Begun(c)' \/ place'[c] \in SetUp
    BY <1>1, <1>3, <1>4, <1>7
  <2>6. \A c \in resumed' : place'[c] \in SetUp => registry' = <<>>
    BY <1>1, <1>4, <1>7, <2>3
  <2>7. \A s, t \in (resumed' \cap alive') \ reaping' : s = t
    BY <1>4, <1>7
  <2>. QED  BY <1>2, <2>1, <2>2, <2>4, <2>5, <2>6, <2>7 DEF InTurn
<1>8. ASSUME UNCHANGED <<registry, place, resumed>>, alive' \ reaping' \subseteq alive \ reaping
      PROVE  InTurn'
  BY <1>1, <1>7, <1>8 DEF Attaching
<1>9. ASSUME NEW c \in Conns,
             \/ Drops(c) \/ OutputTakes(c) \/ OutputSends(c)
             \/ Reads(c) \/ ProcessEnds(c) \/ SeesEof(c) \/ Reaped(c) \/ Drains(c) \/ ClosesSocket(c)
      PROVE  InTurn'
  <2>1. UNCHANGED <<registry, place, resumed>> /\ alive' \ reaping' \subseteq alive \ reaping
    BY <1>9 DEF Drops, OutputTakes, OutputSends, Reads, ProcessEnds, SeesEof, Reaped, Drains,
                ClosesSocket
  <2>. QED  BY <1>8, <2>1
<1>10. UNCHANGED vars => InTurn'
  BY <1>8 DEF vars
<1>11. ASSUME Sweeps \/ Restarts PROVE InTurn'
  <2>1. PICK gones : Removes(gones)
    BY <1>11 DEF Sweeps, Restarts
  <2>2. Undisturbed /\ UNCHANGED <<place, resumed, alive>>
    BY <1>11 DEF Sweeps, Restarts
  <2>3. Len(registry') \in Nat /\ Len(registry') <= Len(registry) /\ (registry = <<>> => registry' = <<>>)
    BY <1>6, <2>1 DEF Removes
  <2>4. alive' \ reaping' \subseteq alive \ reaping
    BY <2>1, <2>2 DEF Removes
  <2>5. \A e \in Conns : Attaching(e)' => Attaching(e) /\ place'[e] = place[e]
    BY <2>2 DEF Attaching
  <2>. QED  BY <1>7, <2>2, <2>3, <2>4, <2>5
<1>12. ASSUME NEW c \in Conns, Attaches(c) \/ PumpEnds(c) PROVE InTurn'
  <2>1. /\ UNCHANGED <<registry, alive, resumed, reaping>>
        /\ place[c] \in {"attaching", "pumping"} /\ place'[c] \in {"pumping", "leaving"}
        /\ \A e \in Conns : e # c => place'[e] = place[e]
    BY <1>1, <1>12 DEF Attaches, FinishesAttach, PumpEnds, Goes
  <2>. QED  BY <1>1, <1>7, <2>1 DEF Attaching
<1>13. ASSUME NEW c \in Conns, HandlerLeaves(c) PROVE InTurn'
  <2>1. /\ Undisturbed /\ UNCHANGED <<alive, resumed>> /\ reaping \subseteq reaping'
        /\ place[c] = "leaving" /\ place' = [place EXCEPT ![c] = "ended"]
        /\ registry' = registry \/ registry' = Without(registry, {mine[c]})
    BY <1>13 DEF HandlerLeaves, Leaves, Goes
  <2>2. Len(registry') \in Nat /\ Len(registry') <= Len(registry) /\ (registry = <<>> => registry' = <<>>)
    BY <1>1, <1>6, <2>1
  <2>3. \A e \in Conns : ~Attaching(e)' /\ place[e] \notin SetUp
    BY <1>1, <1>5, <2>1 DEF Attaching
  <2>. QED  BY <1>7, <2>1, <2>2, <2>3
<1>14. ASSUME NEW c \in Conns, Connects(c) PROVE InTurn'
  <2>1. /\ Undisturbed /\ UNCHANGED <<registry, alive, resumed, reaping>>
        /\ place' = [place EXCEPT ![c] = "auth"]
    BY <1>14 DEF Connects, Goes
  <2>2. \A e \in Conns : ~Attaching(e) /\ place[e] \notin SetUp
    BY <1>5, <2>1 DEF Attaching
  <2>3. \A e \in Conns : Attaching(e)' => e = c
    BY <1>1, <2>1, <2>2 DEF Attaching
  <2>4. \A e \in Conns : place'[e] \notin SetUp
    BY <1>1, <2>1, <2>2
  <2>. QED  BY <1>1, <1>2, <1>3, <1>4, <2>1, <2>2, <2>3, <2>4 DEF InTurn
<1>15. ASSUME NEW c \in Conns, Attaching(c), \A e \in Conns : e # c => place'[e] = place[e]
       PROVE  \A e \in Conns : e # c => ~Attaching(e) /\ ~Attaching(e)' /\ place'[e] \notin SetUp
                                        /\ place[e] \notin SetUp
  BY <1>4, <1>15 DEF Attaching
<1>16. ASSUME NEW c \in Conns, Looks(c) PROVE InTurn'
  <2>1. place[c] = "auth" /\ Attaching(c) /\ UNCHANGED <<alive, resumed>> /\ reaping \subseteq reaping'
    BY <1>16 DEF Looks, Adopts, Attaching
  <2>2. \A e \in Conns : e # c => place'[e] = place[e]
    BY <1>1, <1>16 DEF Looks, Adopts, Goes
  <2>3. \A e \in Conns : e # c => ~Attaching(e) /\ ~Attaching(e)' /\ place'[e] \notin SetUp /\ place[e] \notin SetUp
    BY <1>15, <2>1, <2>2
  <2>4. \E gones : registry' = Without(registry, gones)
    BY <1>16 DEF Looks, Adopts
  <2>5. Len(registry') \in Nat /\ Len(registry') <= Len(registry) /\ (registry = <<>> => registry' = <<>>)
    BY <1>6, <2>4
  <2>6. CASE place'[c] = "attaching"
    BY <1>7, <2>1, <2>3, <2>5, <2>6 DEF Attaching
  <2>7. CASE place'[c] = "claiming"
    <3>1. \A e \in Conns : Attaching(e)' => e = c
      BY <2>3
    <3>2. \A e \in Conns : place'[e] \notin SetUp /\ place[e] \notin SetUp
      BY <2>1, <2>3, <2>7
    <3>3. Len(registry') <= scope.cap
      BY <1>1, <1>4, <2>5
    <3>4. \A e \in resumed' : Begun(e)'
      BY <1>1, <1>3, <1>4, <2>1, <3>2
    <3>5. \A s, t \in (resumed' \cap alive') \ reaping' : s = t
      BY <1>4, <2>1
    <3>. QED  BY <1>1, <1>2, <2>1, <3>1, <3>2, <3>3, <3>4, <3>5 DEF InTurn
  <2>. QED
    <3>1. place'[c] = "attaching" \/ place'[c] = "claiming"
      BY <1>1, <1>16 DEF Looks, Adopts, Goes
    <3>. QED  BY <2>6, <2>7, <3>1
<1>17. ASSUME NEW c \in Conns, Claims(c) PROVE InTurn'
  <2>1. /\ place[c] \in {"claiming", "evicting"} /\ Attaching(c) /\ UNCHANGED <<alive, exited>>
        /\ \A e \in Conns : e # c => place'[e] = place[e]
    BY <1>1, <1>17 DEF Claims, Attaching, Goes
  <2>2. \A e \in Conns : e # c => ~Attaching(e) /\ ~Attaching(e)' /\ place'[e] \notin SetUp /\ place[e] \notin SetUp
    BY <1>15, <2>1 DEF Attaching
  <2>3. \A e \in Conns : Attaching(e)' => e = c
    BY <2>2
  <2>4. \A e \in resumed : Begun(e)' /\ e # c
    BY <1>1, <1>3, <1>4, <2>1, <2>2 DEF Begun
  <2>5. CASE Full
    <3>. DEFINE h == Head(registry)
    <3>1. /\ Removes({h}) /\ resumed' = resumed /\ place'[c] = "evicting"
      BY <1>1, <1>17, <2>5 DEF Claims, Goes
    <3>. HIDE DEF h
    <3>2. Len(registry') \in Nat /\ Len(registry') <= Len(registry) /\ reaping' = reaping \cup {h}
      BY <1>6, <3>1 DEF Removes
    <3>3. Len(registry') <= scope.cap
      BY <1>1, <1>4, <3>2
    <3>4. \A s, t \in (resumed' \cap alive') \ reaping' : s = t
      BY <1>4, <2>1, <3>1, <3>2
    <3>5. \A e \in Conns : place'[e] \notin SetUp
      BY <2>2, <3>1
    <3>. QED  BY <1>1, <1>2, <2>3, <2>4, <3>1, <3>3, <3>4, <3>5 DEF InTurn
  <2>6. CASE ~Full
    <3>1. /\ UNCHANGED <<registry, reaping>> /\ place'[c] = "spawning"
          /\ resumed' = IF registry = <<>> THEN resumed \cup {c} ELSE resumed
          /\ Len(registry) < scope.cap
      BY <1>1, <1>17, <2>6 DEF Claims, Goes, Full, First
    <3>2. \A e \in resumed' : Begun(e)' \/ place'[e] \in SetUp
      BY <2>4, <3>1
    <3>3. \A e \in resumed' : place'[e] \in SetUp => registry' = <<>>
      BY <1>1, <2>2, <2>4, <3>1
    <3>4. c \notin alive
      BY <2>1 DEF Beginnings, Begun
    <3>5. \A s, t \in (resumed' \cap alive') \ reaping' : s = t
      BY <1>4, <2>1, <3>1, <3>4
    <3>. QED  BY <1>1, <1>2, <1>4, <2>3, <3>1, <3>2, <3>3, <3>5 DEF InTurn
  <2>. QED  BY <2>5, <2>6
<1>18. ASSUME NEW c \in Conns, Spawns(c) PROVE InTurn'
  <2>1. /\ place[c] = "spawning" /\ Attaching(c) /\ UNCHANGED <<registry, resumed, reaping>>
        /\ \A e \in Conns : e # c => place'[e] = place[e]
    BY <1>1, <1>18 DEF Spawns, Attaching, Goes
  <2>2. \A e \in Conns : e # c => ~Attaching(e) /\ ~Attaching(e)' /\ place'[e] \notin SetUp /\ place[e] \notin SetUp
    BY <1>15, <2>1 DEF Attaching
  <2>3. CASE place'[c] = "ended" /\ alive' = alive
    <3>1. \A e \in Conns : ~Attaching(e)' /\ (place[e] \in SetUp => Begun(e)')
      BY <1>1, <2>1, <2>2, <2>3 DEF Attaching, Begun
    <3>. QED  BY <1>1, <1>7, <2>1, <2>3, <3>1
  <2>4. CASE place'[c] = "forked" /\ alive' = alive \cup {c}
    <3>1. \A e \in Conns : Attaching(e)' => e = c
      BY <2>2
    <3>2. \A e \in Conns : place'[e] \in SetUp => e = c
      BY <2>2
    <3>3. Len(registry') < scope.cap /\ Len(registry') <= scope.cap
      BY <1>4, <2>1
    <3>4. \A e \in resumed' : Begun(e)' \/ place'[e] \in SetUp
      BY <1>1, <1>3, <1>4, <2>1, <2>2, <2>4
    <3>5. \A e \in resumed' : place'[e] \in SetUp => registry' = <<>>
      BY <1>1, <1>4, <2>1, <3>2
    <3>6. c \in resumed => (resumed \cap alive) \ reaping = {}
      <4>1. ToSet(<<>>) = {}
        BY DEF ToSet
      <4>2. InHand = {}
        BY <2>1, <2>2 DEF InHand
      <4>. QED  BY <1>4, <2>1, <4>1, <4>2 DEF Processes
    <3>7. \A s, t \in (resumed' \cap alive') \ reaping' : s = t
      BY <1>4, <2>1, <2>4, <3>6
    <3>. QED  BY <1>1, <1>2, <2>1, <3>1, <3>2, <3>3, <3>4, <3>5, <3>7 DEF InTurn
  <2>. QED
    <3>1. \/ place'[c] = "ended" /\ alive' = alive
          \/ place'[c] = "forked" /\ alive' = alive \cup {c}
      BY <1>1, <1>18 DEF Spawns, Goes
    <3>. QED  BY <2>3, <2>4, <3>1
<1>19. ASSUME NEW c \in Conns, Registers(c) PROVE InTurn'
  <2>1. /\ place[c] = "forked" /\ Attaching(c) /\ UNCHANGED <<alive, resumed, reaping>>
        /\ place'[c] = "pumping" /\ registry' = Append(registry, c)
        /\ \A e \in Conns : e # c => place'[e] = place[e]
    BY <1>1, <1>19 DEF Registers, Attaching, Goes
  <2>2. \A e \in Conns : e # c => ~Attaching(e) /\ ~Attaching(e)' /\ place'[e] \notin SetUp /\ place[e] \notin SetUp
    BY <1>15, <2>1 DEF Attaching
  <2>3. \A e \in Conns : ~Attaching(e)' /\ place'[e] \notin SetUp
    BY <2>1, <2>2 DEF Attaching
  <2>4. Len(Append(registry, c)) = Len(registry) + 1
    BY <1>1, AppendElements
  <2>5. Len(registry') <= scope.cap
    BY <1>1, <1>4, <2>1, <2>4
  <2>6. \A e \in resumed' : Begun(e)'
    BY <1>1, <1>3, <1>4, <2>1, <2>2 DEF Begun
  <2>7. \A s, t \in (resumed' \cap alive') \ reaping' : s = t
    BY <1>4, <2>1
  <2>. QED  BY <1>1, <1>2, <2>1, <2>3, <2>5, <2>6, <2>7 DEF InTurn
<1>. QED
  BY <1>9, <1>10, <1>11, <1>12, <1>13, <1>14, <1>16, <1>17, <1>18, <1>19
     DEF Next, HandlerStep, PtyStep

-----------------------------------------------------------------------------
(* The theorems.                                                           *)

LEMMA AtMostOne ==
    ASSUME NEW S, \A c, d \in S : c = d
    PROVE  Cardinality(S) <= 1
<1>1. CASE S = {}
  <2>1. Cardinality(S) = 0
    BY <1>1, FS_EmptySet
  <2>. QED  BY <2>1
<1>2. CASE S # {}
  <2>1. PICK c \in S : TRUE
    BY <1>2
  <2>2. S = {c}
    BY <2>1
  <2>3. Cardinality(S) = 1
    BY <2>2, FS_Singleton
  <2>. QED  BY <2>3
<1>. QED  BY <1>1, <1>2

Holds == Ranges /\ Assigned /\ Beginnings /\ Lists /\ Processes /\ Streams /\ Shows /\ InTurn

LEMMA Inductive == Spec => []Holds
<1>1. Init => Holds
  BY RangesInit, AssignedInit, BeginningsInit, ListsInit, ProcessesInit, StreamsInit, ShowsInit,
     InTurnInit DEF Holds
<1>2. Holds /\ [Next]_vars => Holds'
  <2>. SUFFICES ASSUME Holds, [Next]_vars PROVE Holds'
    OBVIOUS
  <2>1. /\ Ranges /\ Assigned /\ Beginnings /\ Lists /\ Processes /\ Streams /\ Shows /\ InTurn
    BY DEF Holds
  <2>2. Ranges'
    BY <2>1, RangesStep
  <2>3. Assigned'
    BY <2>1, AssignedStep
  <2>4. Beginnings'
    BY <2>1, BeginningsStep
  <2>5. Lists'
    BY <2>1, ListsStep
  <2>6. Processes'
    BY <2>1, ProcessesStep
  <2>7. Streams'
    BY <2>1, StreamsStep
  <2>8. Shows'
    BY <2>1, ShowsStep
  <2>9. InTurn'
    BY <2>1, InTurnStep
  <2>. QED  BY <2>2, <2>3, <2>4, <2>5, <2>6, <2>7, <2>8, <2>9 DEF Holds
<1>. QED  BY <1>1, <1>2, PTL DEF Spec

\* Every variable keeps to its range; a queue is at most one entry, the end of
\* its stream, above the mark at which its PTY is paused.
THEOREM TypesKept == Spec => []TypeOK
<1>1. Holds => TypeOK
  <2>. SUFFICES ASSUME Holds PROVE TypeOK
    OBVIOUS
  <2>1. Ranges /\ Lists /\ \A s \in Conns : Stream(s)
    BY DEF Holds, Streams
  <2>2. ASSUME NEW s \in Conns PROVE Len(queue[s]) <= HighWater + 1
    <3>1. Len(queue[s]) = IF s \in exited THEN Chunks(s) + 1 ELSE Chunks(s)
      BY <2>1, StreamOf
    <3>2. Chunks(s) \in Nat /\ Chunks(s) <= HighWater
      BY <2>1, StreamOf DEF Stream
    <3>. QED  BY <3>1, <3>2
  <2>. QED  BY <2>1, <2>2 DEF TypeOK, Ranges, Sessions, Lists
<1>. QED  BY <1>1, Inductive, PTL

\* No process is lost, whichever of claim, detach, adoption, eviction, sweep,
\* restart and the handlers' finally blocks come in between.
THEOREM NoneOrphaned == Spec => []NoOrphan
<1>1. Holds => NoOrphan
  <2>. SUFFICES ASSUME Holds PROVE NoOrphan
    OBVIOUS
  <2>1. alive \subseteq ToSet(registry) \cup reaping \cup InHand
    BY DEF Holds, Processes
  <2>2. ASSUME NEW s \in ToSet(registry) PROVE Served(s) # IsDetached(s)
    <3>1. Served(s) => ~IsDetached(s)
      BY DEF Holds, Lists, Served, Serves, IsDetached
    <3>2. Served(s) \/ IsDetached(s)
      BY DEF Holds, Lists, Served, Serves, IsDetached
    <3>3. Served(s) \in BOOLEAN /\ IsDetached(s) \in BOOLEAN
      BY DEF Served, IsDetached
    <3>. QED  BY <3>1, <3>2, <3>3
  <2>. QED  BY <2>1, <2>2 DEF NoOrphan
<1>. QED  BY <1>1, Inductive, PTL

\* At most one socket serves a session, however often it is adopted.
THEOREM SocketsApart == Spec => []OneSocket
<1>1. Holds => OneSocket
  <2>. SUFFICES ASSUME Holds, NEW s \in Conns
                PROVE  Cardinality({c \in Conns : mine[c] = s /\ place[c] \in {"attaching", "pumping", "leaving"}}) <= 1
    BY DEF OneSocket
  <2>. DEFINE sockets == {c \in Conns : mine[c] = s /\ place[c] \in {"attaching", "pumping", "leaving"}}
  <2>1. \A c, d \in sockets : c = d
    BY DEF Holds, Lists, Serves
  <2>. HIDE DEF sockets
  <2>2. Cardinality(sockets) <= 1
    BY <2>1, AtMostOne
  <2>. QED  BY <2>2 DEF sockets
<1>. QED  BY <1>1, Inductive, PTL

\* A PTY that is not read has more chunks queued than the mark at which
\* reading resumes, so that whoever takes them resumes it.
THEOREM NeverStalls == Spec => []NoStall
<1>1. Holds => NoStall
  <2>. SUFFICES ASSUME Holds, NEW s \in paused \ exited PROVE Len(queue[s]) > LowWater
    BY DEF NoStall
  <2>1. s \in Conns /\ Ranges /\ Stream(s)
    BY DEF Holds, Ranges, Sessions, Streams
  <2>2. Len(queue[s]) = Chunks(s) /\ Chunks(s) \in Nat
    BY <2>1, StreamOf
  <2>. QED  BY <2>1, <2>2 DEF Stream
<1>. QED  BY <1>1, Inductive, PTL

\* Connections set up one after the other keep to the cap.
THEOREM CapKept == Spec => []CapHeld
<1>1. Holds => CapHeld
  BY DEF Holds, InTurn, CapHeld
<1>. QED  BY <1>1, Inductive, PTL

\* Of the agents that resume the conversation, all but one are being terminated
\* when connections are set up one after the other.
THEOREM ResumedOnce == Spec => []OneResumes
<1>1. Holds => OneResumes
  <2>. SUFFICES ASSUME Holds, scope.orderly PROVE Cardinality((resumed \cap alive) \ reaping) <= 1
    BY DEF OneResumes
  <2>1. \A s, t \in (resumed \cap alive) \ reaping : s = t
    BY DEF Holds, InTurn
  <2>. QED  BY <2>1, AtMostOne
<1>. QED  BY <1>1, Inductive, PTL

LEMMA LineExtended ==
    ASSUME NEW a \in Nat, NEW n \in Nat, NEW s \in Seq(Nat), Len(s) = n,
           \A i \in 1..n : s[i] = (a + 1) + i
    PROVE  <<a + 1>> \o s = [i \in 1..(n + 1) |-> a + i]
<1>. DEFINE first == <<a + 1>>
            whole == first \o s
<1>1. first \in Seq(Nat) /\ Len(first) = 1 /\ first[1] = a + 1
  OBVIOUS
<1>. HIDE DEF first
<1>2. /\ whole \in Seq(Nat) /\ Len(whole) = Len(first) + Len(s)
      /\ \A i \in 1..(Len(first) + Len(s)) :
            whole[i] = IF i <= Len(first) THEN first[i] ELSE s[i - Len(first)]
  BY ZenonT(30), <1>1, ConcatProperties
<1>. HIDE DEF whole
<1>3. Len(first) + Len(s) = n + 1
  BY <1>1
<1>4. ASSUME NEW i \in 1..(n + 1) PROVE whole[i] = a + i
  <2>1. CASE i = 1
    BY <1>1, <1>2, <1>3, <2>1
  <2>2. CASE i # 1
    <3>1. i - 1 \in 1..n /\ ~(i <= 1)
      BY <2>2
    <3>2. s[i - 1] = (a + 1) + (i - 1)
      BY <3>1
    <3>3. whole[i] = s[i - 1]
      BY <1>1, <1>2, <1>3, <3>1
    <3>. QED  BY <3>2, <3>3
  <2>. QED  BY <2>1, <2>2
<1>5. whole = [i \in 1..(n + 1) |-> whole[i]]
  BY <1>2, <1>3, LenProperties
<1>6. whole = [i \in 1..(n + 1) |-> a + i]
  BY <1>4, <1>5
<1>. QED  BY <1>6 DEF whole, first

\* What has been shown, is being sent and is queued are the chunks of the PTY,
\* each once and in order, through back-pressure, detach, drain and replay.
THEOREM OutputContinues == Spec => []LiveContinues
<1>1. Holds => LiveContinues
  <2>. SUFFICES ASSUME Holds, NEW c \in Conns, place[c] = "pumping"
                PROVE  Pending(c) = [i \in 1..(produced[mine[c]] - shown[c]) |-> shown[c] + i]
    BY DEF LiveContinues
  <2>. DEFINE s == mine[c]
              q == queue[s]
              n == Chunks(s)
              kept == Kept(q, 1..scope.chunks)
              inHand == IF hand[c] = 0 THEN <<>> ELSE <<hand[c]>>
  <2>1. s \in Conns /\ Stream(s) /\ Continues(c, s) /\ Ranges
    BY DEF Holds, Assigned, Serves, Streams, Shows
  <2>2. /\ q \in Seq(0..scope.chunks) /\ produced[s] \in Nat /\ scope.chunks \in Nat
        /\ Len(q) \in Nat /\ n \in Nat /\ n <= produced[s]
        /\ Len(q) = IF s \in exited THEN n + 1 ELSE n
        /\ \A i \in 1..n : q[i] = (produced[s] - n) + i
    BY <2>1, StreamOf
  <2>3. produced[s] <= scope.chunks /\ shown[c] \in Nat /\ hand[c] \in Nat
    BY <2>1, <2>2 DEF Ranges
  <2>4. /\ (shown[c] + n) + (IF hand[c] = 0 THEN 0 ELSE 1) = produced[s]
        /\ hand[c] # 0 => hand[c] = shown[c] + 1
    BY <2>1 DEF Continues
  <2>5. s \in exited => q[n + 1] = Eof
    BY <2>1 DEF Stream
  <2>. HIDE DEF s, q, n
  <2>6. ASSUME NEW i \in 1..n PROVE q[i] \in 1..scope.chunks
    <3>1. q[i] = (produced[s] - n) + i
      BY <2>2
    <3>2. /\ n \in Nat /\ produced[s] \in Nat /\ scope.chunks \in Nat
          /\ n <= produced[s] /\ produced[s] <= scope.chunks
      BY <2>2, <2>3
    <3>. QED  BY <3>1, <3>2
  <2>7. kept \in Seq(0..scope.chunks) /\ Len(kept) = n /\ \A i \in 1..n : kept[i] = q[i]
    <3>1. CASE s \in exited
      <4>1. Len(q) > 0 /\ q[Len(q)] = Eof /\ Len(q) - 1 = n /\ Eof \notin 1..scope.chunks
        BY <2>2, <2>5, <3>1 DEF Eof
      <4>2. \A i \in 1..(Len(q) - 1) : q[i] # Eof /\ q[i] \in 1..scope.chunks
        BY <2>6, <4>1 DEF Eof
      <4>3. \A S : Eof \notin S /\ (\A i \in 1..(Len(q) - 1) : q[i] \in S) =>
                 /\ Len(Kept(q, S)) = Len(q) - 1
                 /\ \A i \in 1..(Len(q) - 1) : Kept(q, S)[i] = q[i]
                 /\ Kept(q, S) \in Seq(0..scope.chunks)
        BY <2>2, <4>1, <4>2, KeptLast
      <4>. QED  BY <4>1, <4>2, <4>3
    <3>2. CASE s \notin exited
      <4>1. DOMAIN q = 1..n
        BY <2>2, <3>2, LenProperties
      <4>2. ToSet(q) \subseteq 1..scope.chunks
        BY <2>6, <4>1 DEF ToSet
      <4>3. kept = q
        BY <2>2, <4>2, KeptAll
      <4>. QED  BY <2>2, <3>2, <4>3
    <3>. QED  BY <3>1, <3>2
  <2>. HIDE DEF kept
  <2>8. CASE hand[c] = 0
    <3>1. <<>> \o kept = kept
      BY <2>7, ConcatEmptySeq
    <3>2. produced[s] - shown[c] = n /\ produced[s] - n = shown[c]
      BY <2>2, <2>3, <2>4, <2>8
    <3>3. DOMAIN kept = 1..n /\ \A i \in 1..n : kept[i] = shown[c] + i
      BY <2>2, <2>7, <3>2, LenProperties
    <3>4. kept = [i \in 1..n |-> shown[c] + i]
      BY <2>7, <3>3
    <3>. QED  BY <2>8, <3>1, <3>2, <3>4 DEF Pending, kept, q, s
  <2>9. CASE hand[c] # 0
    <3>1. produced[s] - shown[c] = n + 1 /\ produced[s] - n = shown[c] + 1
      BY <2>2, <2>3, <2>4, <2>9
    <3>2. kept \in Seq(Nat) /\ Len(kept) = n /\ \A i \in 1..n : kept[i] = (shown[c] + 1) + i
      <4>1. kept \in Seq(Nat)
        BY <2>2, <2>7, SeqMonotonic
      <4>. QED  BY <2>2, <2>7, <3>1, <4>1
    <3>3. <<shown[c] + 1>> \o kept = [i \in 1..(n + 1) |-> shown[c] + i]
      BY ZenonT(30), <2>2, <2>3, <3>2, LineExtended
    <3>4. Pending(c) = <<shown[c] + 1>> \o kept
      BY <2>4, <2>9 DEF Pending, kept, q, s
    <3>. QED  BY <3>1, <3>3, <3>4 DEF s
  <2>. QED  BY <2>8, <2>9
<1>. QED  BY <1>1, Inductive, PTL

=============================================================================
