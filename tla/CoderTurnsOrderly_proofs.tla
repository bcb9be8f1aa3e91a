----------------------- MODULE CoderTurnsOrderly_proofs -----------------------
(***************************************************************************)
(* What the write-lease is for, over every step of an orderly workspace:   *)
(* turns and restores exclude each other, and runners, tasks and the FIFO  *)
(* implement WorkspaceTurns.                                               *)
(***************************************************************************)
EXTENDS CoderTurns_proofs, FiniteSetTheorems

USE CoderTurnsAssumption, HoldersAssumption

\* A conversation has one runner at a time, no lease outlives its TTL and no
\* restore its request, prompts fit the pipe, and a /stop spares a turn from
\* its prompt to the end of its bookkeeping. Clients may still disconnect.
Orderly ==
    /\ \A q, r \in Runners : ConvOf[q] = ConvOf[r] => q = r
    /\ Hazards \subseteq {"disconnect"}
    /\ StopPhases \subseteq {"none", "drain", "wake"}

\* The strengthening of TurnHoldsLease: what an orderly workspace rules out,
\* and what ties an agent and a restore to the holder.
Calm ==
    /\ ~lease.expired
    /\ \A r \in Runners :
          /\ older[r] = 0 /\ starter[r].at # "sending"
          /\ consumer[r] \in {"run", "post"} => stage[r] \in {"up", "exited"} /\ ~Starting(r)
          /\ writing[r] => consumer[r] = "run"
    /\ \A v \in Reverts :
          revert[v] # "orphan" /\ (revert[v] = "restoring" => lease.holder = v)

HoldInv == ReleaseInv /\ TurnHoldsLease /\ BusyHasDriver /\ Calm

-----------------------------------------------------------------------------
(* The steps that leave the lease alone.                                   *)

LEMMA QuietHolds ==
    ASSUME HoldInv, Orderly, NEW r \in Runners,
           \/ OpenBegins(r) \/ OpenSucceeds(r)
           \/ SendQueues(r) \/ Dequeues(r) \/ PromptBlocks(r)
           \/ AgentExits(r) \/ TurnEnds(r) \/ AgentFallsSilent(r) \/ PutsBack(r)
    PROVE  TurnHoldsLease' /\ BusyHasDriver' /\ Calm'
<1>. USE DEF HoldInv, ReleaseInv, TypeOK, TurnHoldsLease, BusyHasDriver, Calm, Starting
<1>1. CASE OpenBegins(r)
  BY <1>1 DEF OpenBegins
<1>2. CASE OpenSucceeds(r)
  BY <1>2 DEF OpenSucceeds, StartsAreBusy
<1>3. CASE SendQueues(r)
  BY <1>3 DEF SendQueues
<1>4. CASE Dequeues(r)
  BY <1>4 DEF Dequeues
<1>5. CASE PromptBlocks(r)
  BY <1>5 DEF PromptBlocks, Orderly
<1>6. CASE AgentExits(r)
  BY <1>6 DEF AgentExits, Alive
<1>7. CASE TurnEnds(r)
  BY <1>7 DEF TurnEnds, RunsAreBusy
<1>8. CASE AgentFallsSilent(r)
  BY <1>8 DEF AgentFallsSilent
<1>9. CASE PutsBack(r)
  BY <1>9 DEF PutsBack
<1>. QED  BY <1>1, <1>2, <1>3, <1>4, <1>5, <1>6, <1>7, <1>8, <1>9

-----------------------------------------------------------------------------
(* The steps that start a turn.                                            *)

\* A start finds the lease free: its own runner has no turn, and another's
\* turn would hold.
LEMMA FindsFree ==
    ASSUME Orderly, NEW r \in Runners, NEW l \in Leases, ~l.expired, MayStart(r, l)
    PROVE  l.holder = Nobody
BY DEF MayStart, CanAcquire, Orderly

LEMMA StartHolds ==
    ASSUME HoldInv, Orderly, NEW r \in Runners, NEW l \in Leases, NEW by \in StartedBy,
           Starts(r, l, by), MayStart(r, l), Alive(r), ~busy[r],
           ~l.expired, l.holder = lease.holder \/ lease.holder = ConvOf[r],
           consumer'[r] = consumer[r] \/ consumer'[r] \notin {"run", "post"},
           \A q \in Runners : q # r => consumer'[q] = consumer[q],
           consumer[r] = "post" => consumer'[r] # "post",
           UNCHANGED <<stage, older, writing, revert>>
    PROVE  TurnHoldsLease' /\ BusyHasDriver' /\ Calm'
<1>1. l.holder = Nobody
  BY FindsFree
<1>2. /\ lease'.holder = ConvOf[r] /\ ~lease'.expired
      /\ starter'[r].fresh /\ starter'[r].at = "pre"
      /\ \A q \in Runners : q # r => starter'[q] = starter[q] /\ busy'[q] = busy[q]
      /\ ConvOf[r] # Nobody /\ ConvOf[r] \notin Reverts
  BY <1>1, StartsType DEF HoldInv, ReleaseInv
<1>3. consumer[r] # "run"
  BY DEF HoldInv, ReleaseInv, RunsAreBusy
<1>4. \A q \in Runners : q # r => ConvOf[q] # lease.holder
  BY <1>1 DEF Orderly
<1>5. lease.holder \notin Reverts
  BY <1>1, <1>2
<1>6. consumer'[r] \notin {"run", "post"}
  <2>1. CASE consumer[r] = "post"
    BY <2>1
  <2>2. CASE consumer[r] # "post"
    BY <1>3, <2>2
  <2>. QED  BY <2>1, <2>2
<1>7. TurnHoldsLease'
  BY <1>2, <1>4, <1>6 DEF HoldInv, TurnHoldsLease, Starting
<1>8. BusyHasDriver'
  BY <1>2 DEF HoldInv, BusyHasDriver, Starting
<1>9. Calm'
  BY <1>2, <1>3, <1>5, <1>6 DEF HoldInv, Calm, Starting
<1>. QED  BY <1>7, <1>8, <1>9

\* A step that leaves the holder, the consumers and the starts as they are.
LEMMA SameHolder ==
    ASSUME HoldInv, lease'.holder = lease.holder, lease'.expired => lease.expired,
           UNCHANGED <<stage, busy, starter, older, writing, revert>>,
           \A q \in Runners :
              \/ consumer'[q] = consumer[q]
              \/ consumer[q] \notin {"run", "post"} /\ consumer'[q] \notin {"run", "post"}
    PROVE  TurnHoldsLease' /\ BusyHasDriver' /\ Calm'
<1>1. TurnHoldsLease'
  BY DEF HoldInv, TurnHoldsLease, Starting
<1>2. BusyHasDriver'
  BY DEF HoldInv, BusyHasDriver, Starting
<1>3. Calm'
  BY DEF HoldInv, Calm, Starting
<1>. QED  BY <1>1, <1>2, <1>3

LEMMA SendHolds ==
    ASSUME HoldInv, Orderly, NEW r \in Runners,
           SendStarts(r) \/ SendWaits(r) \/ SendQueuesIdle(r)
    PROVE  TurnHoldsLease' /\ BusyHasDriver' /\ Calm'
<1>0. /\ lease \in Leases /\ ~lease.expired
      /\ "send" \in StartedBy /\ "drain" \in StartedBy
      /\ ~busy[r] /\ Alive(r)
  BY DEF HoldInv, ReleaseInv, TypeOK, Calm, StartedBy, SendStarts, SendWaits,
         SendQueuesIdle, Sendable
<1>1. ASSUME NEW by \in StartedBy, Starts(r, lease, by), MayStart(r, lease),
             UNCHANGED <<stage, consumer, older, writing, revert>>
      PROVE  TurnHoldsLease' /\ BusyHasDriver' /\ Calm'
  <2>1. lease.holder = Nobody
    BY <1>0, <1>1, FindsFree
  <2>2. consumer[r] # "post"
    BY <2>1 DEF HoldInv, TurnHoldsLease
  <2>. QED  BY <1>0, <1>1, <2>2, StartHolds
<1>2. CASE SendStarts(r)
  BY <1>0, <1>1, <1>2 DEF SendStarts
<1>3. CASE SendWaits(r)
  <2>1. lease'.holder = lease.holder /\ lease'.expired = lease.expired
    BY <1>0, <1>3, WithWaiterType DEF SendWaits
  <2>. QED  BY <1>3, <2>1, SameHolder DEF SendWaits
<1>4. CASE SendQueuesIdle(r)
  <2>1. CASE DrainStarts(r, lease, queue[r] + 1, "drain")
    BY <1>0, <1>1, <1>4, <2>1 DEF SendQueuesIdle, DrainStarts
  <2>2. CASE /\ lease' = AfterDecline(r, lease, queue[r] + 1)
             /\ UNCHANGED <<busy, starter>>
    <3>1. lease'.holder = lease.holder /\ lease'.expired = lease.expired
      BY <1>0, <2>2, AfterDeclineType
    <3>. QED  BY <1>4, <2>2, <3>1, SameHolder DEF SendQueuesIdle
  <2>. QED  BY <1>4, <2>1, <2>2 DEF SendQueuesIdle
<1>. QED  BY <1>2, <1>3, <1>4

-----------------------------------------------------------------------------
(* The steps that end a start.                                             *)

LEMMA PromptSentHolds ==
    ASSUME HoldInv, Orderly, NEW r \in Runners, PromptSent(r)
    PROVE  TurnHoldsLease' /\ BusyHasDriver' /\ Calm'
<1>0. ReleaseInv
  BY DEF HoldInv
<1>1. /\ Starting(r) /\ stage[r] \in {"up", "exited"}
      /\ starter' = [starter EXCEPT ![r] = NoStarter]
      /\ older' = [older EXCEPT ![r] = IF consumer[r] = "post" THEN @ + 1 ELSE @]
      /\ writing' = [writing EXCEPT ![r] = Alive(r)]
      /\ stage' = stage /\ busy' = busy /\ revert' = revert
      /\ lease'.holder = lease.holder /\ lease'.expired = lease.expired
      /\ consumer'[r] = "run"
      /\ \A q \in Runners : q # r =>
            \/ consumer'[q] = consumer[q]
            \/ consumer[q] = "wake" /\ consumer'[q] \in {"none", "wake"}
  BY <1>0, PromptSentEffect
<1>2. lease.holder = ConvOf[r] /\ consumer[r] \notin {"run", "post"}
  BY <1>1 DEF HoldInv, TurnHoldsLease, Calm
<1>3. /\ ~Starting(r)' /\ starter'[r].at # "sending"
      /\ \A q \in Runners : q # r => starter'[q] = starter[q] /\ writing'[q] = writing[q]
      /\ older' = older
  BY <1>0, <1>1, <1>2 DEF Starting, NoStarter, ReleaseInv, TypeOK
<1>4. TurnHoldsLease'
  BY <1>1, <1>2, <1>3 DEF HoldInv, TurnHoldsLease, Starting
<1>5. BusyHasDriver'
  BY <1>1, <1>3 DEF HoldInv, BusyHasDriver, Starting
<1>6. Calm'
  BY <1>1, <1>3 DEF HoldInv, Calm, Starting
<1>. QED  BY <1>4, <1>5, <1>6

LEMMA StartEndsHolds ==
    ASSUME HoldInv, Orderly, NEW r \in Runners, PromptFails(r) \/ Disconnects(r)
    PROVE  TurnHoldsLease' /\ BusyHasDriver' /\ Calm'
<1>0. ReleaseInv /\ starter[r].at # "sending"
  BY DEF HoldInv, Calm
<1>1. /\ Starting(r) /\ StartEnds(r) /\ ~busy'[r]
      /\ \A q \in Runners : q # r => busy'[q] = busy[q]
      /\ \A q \in Runners : writing'[q] => writing[q]
      /\ UNCHANGED <<registry, stage, older, revert>>
  <2>1. CASE PromptFails(r)
    BY <1>0, <2>1 DEF PromptFails, ReleaseInv, TypeOK
  <2>2. CASE Disconnects(r)
    BY <1>0, <2>2 DEF Disconnects, ReleaseInv, TypeOK
  <2>. QED  BY <2>1, <2>2
<1>2. /\ lease'.holder = IF starter[r].fresh /\ lease.holder = ConvOf[r]
                         THEN Nobody ELSE lease.holder
      /\ lease'.expired => lease.expired
      /\ \A q \in Runners :
            \/ consumer'[q] = consumer[q]
            \/ /\ consumer[q] = "wake" \/ (q = r /\ consumer[q] = "drain")
               /\ consumer'[q] \in {"none", "wake"}
      /\ starter' = [starter EXCEPT ![r] = NoStarter]
  BY <1>0, <1>1, StartEndsEffect
<1>3. /\ ~Starting(r)' /\ starter'[r].at # "sending"
      /\ \A q \in Runners : q # r => starter'[q] = starter[q]
  BY <1>0, <1>2 DEF Starting, NoStarter, ReleaseInv, TypeOK
<1>4. consumer'[r] \notin {"run", "post"}
  BY <1>1, <1>2 DEF HoldInv, Calm
<1>5. lease.holder = ConvOf[r] =>
         /\ lease.holder \notin Reverts
         /\ \A q \in Runners : q # r => ConvOf[q] # lease.holder
  BY DEF Orderly
<1>6. TurnHoldsLease'
  BY <1>1, <1>2, <1>3, <1>4, <1>5 DEF HoldInv, TurnHoldsLease, Starting
<1>7. BusyHasDriver'
  BY <1>1, <1>2, <1>3 DEF HoldInv, BusyHasDriver, Starting
<1>8. Calm'
  BY <1>1, <1>2, <1>3, <1>4, <1>5 DEF HoldInv, Calm, Starting
<1>. QED  BY <1>6, <1>7, <1>8

-----------------------------------------------------------------------------
(* The end of a turn's bookkeeping, and the hand-off task.                 *)

LEMMA BookkeepingHolds ==
    ASSUME HoldInv, Orderly, NEW r \in Runners, BookkeepingDone(r)
    PROVE  TurnHoldsLease' /\ BusyHasDriver' /\ Calm'
<1>. DEFINE l == Released(lease, ConvOf[r])
            d == AfterDecline(r, l, queue[r])
<1>0. /\ consumer[r] = "post" /\ lease.holder = ConvOf[r]
      /\ lease \in Leases /\ ConvOf[r] \in Holders /\ "consumer" \in StartedBy
      /\ registry \in [Convs -> Runners \cup {Nobody}]
      /\ child \in [Runners -> Children] /\ consumer \in [Runners -> ConsumerPhases]
      /\ "own" \in Loops
      /\ UNCHANGED <<registry, stage, older, writing, failed, revert, sends>>
  BY DEF BookkeepingDone, HoldInv, TurnHoldsLease, ReleaseInv, TypeOK, Holders, StartedBy,
         Loops
<1>1. l \in Leases /\ l.holder = Nobody /\ ~l.expired
  BY <1>0, ReleasedType DEF HoldInv, Calm
<1>2. d \in Leases /\ d.holder = Nobody /\ ~d.expired
  BY <1>1, AfterDeclineType
<1>3. CASE /\ DrainStarts(r, l, queue[r], "consumer")
           /\ consumer' = [consumer EXCEPT ![r] = IF r = r THEN "drain" ELSE @]
  <2>. HIDE DEF l
  <2>1. /\ consumer'[r] = "drain"
        /\ \A q \in Runners : q # r => consumer'[q] = consumer[q]
    BY <1>0, <1>3
  <2>. QED  BY <1>0, <1>1, <1>3, <2>1, StartHolds DEF DrainStarts, WouldDrain
<1>4. CASE /\ HandsOff(d, r, "own", child, consumer)
           /\ UNCHANGED <<queue, busy, starter>>
  <2>. HIDE DEF d
  <2>1. /\ lease'.holder = Nobody /\ ~lease'.expired
        /\ \A q \in Runners : q # r => consumer'[q] = consumer[q]
        /\ consumer'[r] \in {"none", "wake"}
    BY <1>0, <1>2, <1>4, HandsOffType
  <2>2. lease.holder \notin Reverts /\ \A q \in Runners : q # r => ConvOf[q] # lease.holder
    BY <1>0 DEF Orderly
  <2>3. ~busy[r] /\ ~Starting(r)
    BY <1>0 DEF HoldInv, BusyHasDriver, Calm
  <2>4. TurnHoldsLease'
    BY <1>0, <1>4, <2>1, <2>2, <2>3 DEF HoldInv, TurnHoldsLease, Starting
  <2>5. BusyHasDriver'
    BY <1>0, <1>4, <2>1, <2>3 DEF HoldInv, BusyHasDriver, Starting
  <2>6. Calm'
    BY <1>0, <1>4, <2>1, <2>2 DEF HoldInv, Calm, Starting
  <2>. QED  BY <2>4, <2>5, <2>6
<1>. QED  BY <1>3, <1>4 DEF BookkeepingDone, Closes

LEMMA HandOffHolds ==
    ASSUME HoldInv, Orderly, NEW r \in Runners, HandOffRuns(r)
    PROVE  TurnHoldsLease' /\ BusyHasDriver' /\ Calm'
<1>. DEFINE me == child[r]
            others == [child EXCEPT ![r] = NoChild]
            d == AfterDecline(r, lease, queue[r])
<1>0. /\ lease \in Leases /\ ~lease.expired /\ "task" \in StartedBy
      /\ registry \in [Convs -> Runners \cup {Nobody}]
      /\ child \in [Runners -> Children] /\ consumer \in [Runners -> ConsumerPhases]
      /\ me \in Children /\ NoChild \in Children
      /\ UNCHANGED <<registry, stage, older, writing, failed, revert, sends>>
  BY DEF HandOffRuns, HoldInv, Calm, ReleaseInv, TypeOK, StartedBy, NoChild, Children, Loops
<1>1. CASE DrainStarts(r, lease, queue[r], "task") /\ UNCHANGED consumer
  <2>1. lease.holder = Nobody
    BY <1>0, <1>1, FindsFree DEF DrainStarts
  <2>2. consumer[r] # "post"
    BY <2>1 DEF HoldInv, TurnHoldsLease
  <2>. QED  BY <1>0, <1>1, <2>2, StartHolds DEF DrainStarts, WouldDrain
<1>2. CASE /\ \/ HandsOff(d, me.waker, me.loop, others, consumer)
              \/ NoHandOff(d, others, consumer)
           /\ UNCHANGED <<queue, busy, starter>>
  <2>1. d \in Leases /\ d.holder = lease.holder /\ d.expired = lease.expired
    BY <1>0, AfterDeclineType
  <2>2. /\ me.waker \in Runners \cup {Nobody} /\ me.loop \in Loops
        /\ others \in [Runners -> Children]
        /\ me.waker \in Runners => consumer[me.waker] = "wake"
    BY <1>0 DEF Children, HoldInv, ReleaseInv, WakersWait
  <2>. HIDE DEF d, others, me
  <2>3. /\ lease'.holder = lease.holder /\ lease'.expired = lease.expired
        /\ \A q \in Runners : \/ consumer'[q] = consumer[q]
                              \/ q = me.waker /\ consumer'[q] \in {"none", "wake"}
    <3>1. CASE HandsOff(d, me.waker, me.loop, others, consumer)
      BY <1>0, <2>1, <2>2, <3>1, HandsOffType
    <3>2. CASE NoHandOff(d, others, consumer)
      BY <2>1, <3>2 DEF NoHandOff
    <3>. QED  BY <1>2, <3>1, <3>2
  <2>. QED  BY <1>0, <1>2, <2>2, <2>3, SameHolder
<1>. QED  BY <1>1, <1>2 DEF HandOffRuns

-----------------------------------------------------------------------------
(* stop(), and the spawn that fails.                                       *)

LEMMA StopHolds ==
    ASSUME HoldInv, Orderly, NEW r \in Runners, StopBegins(r)
    PROVE  TurnHoldsLease' /\ BusyHasDriver' /\ Calm'
<1>0. /\ ReleaseInv /\ CancelsConsumer(r) /\ consumer[r] # "run"
      /\ stage' = [stage EXCEPT ![r] = "stopping"]
      /\ busy' = [busy EXCEPT ![r] = FALSE]
      /\ writing' = [writing EXCEPT
            ![r] = @ \/ (starter[r].at = "sending" /\ consumer[r] = "drain")]
      /\ older' = older /\ revert' = revert
  BY DEF StopBegins, Drops, HoldInv, Orderly
<1>1. /\ lease'.holder = lease.holder \/ (lease'.holder = Nobody /\ lease.holder = ConvOf[r])
      /\ lease'.expired => lease.expired
      /\ \A q \in Runners : q # r => consumer'[q] = consumer[q] /\ starter'[q] = starter[q]
      /\ consumer'[r] \in {"none", "wake"}
      /\ starter'[r] = starter[r] \/ ~Starting(r)'
  BY <1>0, CancelsEffect
<1>2. /\ stage'[r] = "stopping" /\ ~busy'[r]
      /\ \A q \in Runners : q # r => stage'[q] = stage[q] /\ busy'[q] = busy[q]
                                     /\ writing'[q] = writing[q]
      /\ writing'[r] = writing[r]
  BY <1>0 DEF ReleaseInv, TypeOK, HoldInv, Calm
<1>3. lease.holder = ConvOf[r] =>
         /\ lease.holder \notin Reverts
         /\ \A q \in Runners : q # r => ConvOf[q] # lease.holder
  BY DEF Orderly
<1>4. ~writing[r]
  BY <1>0, <1>1 DEF HoldInv, Calm
<1>5. TurnHoldsLease'
  BY <1>1, <1>2, <1>3 DEF HoldInv, TurnHoldsLease, Starting
<1>6. BusyHasDriver'
  BY <1>1, <1>2 DEF HoldInv, BusyHasDriver, Starting
<1>7. Calm'
  BY <1>0, <1>1, <1>2, <1>3, <1>4 DEF HoldInv, Calm, Starting
<1>. QED  BY <1>5, <1>6, <1>7

LEMMA StoppedHolds ==
    ASSUME HoldInv, Orderly, NEW r \in Runners, OpenFails(r) \/ StopEnds(r)
    PROVE  TurnHoldsLease' /\ BusyHasDriver' /\ Calm'
<1>0. /\ ReleaseInv /\ LetsGoOfLease(r)
      /\ stage[r] \in {"opening", "stopping"}
      /\ stage' = [stage EXCEPT ![r] = "stopped"]
      /\ \A q \in Runners : writing'[q] => writing[q]
      /\ UNCHANGED <<busy, starter, older, revert>>
  BY DEF OpenFails, StopEnds, HoldInv, ReleaseInv, TypeOK
<1>1. /\ lease'.holder = IF lease.holder = ConvOf[r] THEN Nobody ELSE lease.holder
      /\ lease'.expired => lease.expired
      /\ consumer' = consumer
  BY <1>0, LetsGoEffect
<1>2. lease.holder = ConvOf[r] =>
         /\ lease.holder \notin Reverts
         /\ \A q \in Runners : q # r => ConvOf[q] # lease.holder
  BY DEF Orderly
<1>3. /\ stage'[r] = "stopped" /\ consumer[r] \notin {"run", "post"}
      /\ \A q \in Runners : q # r => stage'[q] = stage[q]
  BY <1>0 DEF ReleaseInv, TypeOK, HoldInv, Calm
<1>4. TurnHoldsLease'
  BY <1>0, <1>1, <1>2, <1>3 DEF HoldInv, TurnHoldsLease, Starting
<1>5. BusyHasDriver'
  BY <1>0, <1>1 DEF HoldInv, BusyHasDriver, Starting
<1>6. Calm'
  BY <1>0, <1>1, <1>2, <1>3 DEF HoldInv, Calm, Starting
<1>. QED  BY <1>4, <1>5, <1>6

-----------------------------------------------------------------------------
(* Reverts.                                                                *)

LEMMA RevertHolds ==
    ASSUME HoldInv, Orderly, NEW v \in Reverts, RevertStep(v)
    PROVE  TurnHoldsLease' /\ BusyHasDriver' /\ Calm'
<1>0. /\ v \in Holders /\ v \notin Convs /\ v # Nobody
      /\ lease \in Leases /\ ~lease.expired
      /\ registry \in [Convs -> Runners \cup {Nobody}]
      /\ child \in [Runners -> Children] /\ consumer \in [Runners -> ConsumerPhases]
      /\ "own" \in Loops
      /\ Grant(lease, v) \in Leases /\ Grant(lease, v).holder = v
      /\ ~Grant(lease, v).expired
  BY GrantType DEF Holders, HoldInv, ReleaseInv, TypeOK, Calm, Loops
\* A restore that ends, or finds nothing to do, frees the lease.
<1>1. ASSUME NEW l \in Leases, l.holder = Nobody, ~l.expired,
             HandsOff(l, Nobody, "own", child, consumer),
             lease.holder \in {Nobody, v},
             revert' = [revert EXCEPT ![v] = "done"],
             UNCHANGED <<stage, busy, starter, older, writing>>
      PROVE  TurnHoldsLease' /\ BusyHasDriver' /\ Calm'
  <2>1. /\ lease'.holder = Nobody /\ ~lease'.expired
        /\ \A q \in Runners : consumer'[q] = consumer[q]
    BY SMTT(20), <1>0, <1>1, HandsOffType
  <2>2. \A w \in Reverts : w # v => revert[w] # "restoring"
    BY <1>1 DEF HoldInv, Calm
  <2>3. /\ revert'[v] = "done" /\ \A w \in Reverts : w # v => revert'[w] = revert[w]
    BY <1>1 DEF HoldInv, ReleaseInv, TypeOK
  <2>4. TurnHoldsLease'
    BY <1>0, <1>1, <2>1 DEF HoldInv, TurnHoldsLease, Starting
  <2>5. BusyHasDriver'
    BY <1>1, <2>1 DEF HoldInv, BusyHasDriver, Starting
  <2>6. Calm'
    BY <1>1, <2>1, <2>2, <2>3 DEF HoldInv, Calm, Starting
  <2>. QED  BY <2>4, <2>5, <2>6
<1>2. ASSUME MayRevert(v) PROVE lease.holder = Nobody
  BY <1>0, <1>2 DEF MayRevert, CanAcquire, HoldInv, ReleaseInv, LeaseHasReleaser
<1>3. CASE RevertBegins(v)
  <2>1. /\ lease.holder = Nobody /\ lease' = Grant(lease, v)
        /\ revert' = [revert EXCEPT ![v] = "restoring"]
        /\ UNCHANGED <<stage, busy, starter, consumer, older, writing>>
    BY <1>2, <1>3 DEF RevertBegins
  <2>2. TurnHoldsLease'
    BY <1>0, <2>1 DEF HoldInv, TurnHoldsLease, Starting
  <2>3. BusyHasDriver'
    BY <2>1 DEF HoldInv, BusyHasDriver, Starting
  <2>4. Calm'
    BY <1>0, <2>1 DEF HoldInv, ReleaseInv, TypeOK, Calm, Starting
  <2>. QED  BY <2>2, <2>3, <2>4
<1>4. CASE RevertFindsNoCheckpoint(v)
  <2>. DEFINE l == Released(Grant(lease, v), v)
  <2>1. l \in Leases /\ l.holder = Nobody /\ ~l.expired
    BY <1>0, ReleasedType
  <2>2. /\ HandsOff(l, Nobody, "own", child, consumer)
        /\ lease.holder = Nobody
        /\ revert' = [revert EXCEPT ![v] = "done"]
        /\ UNCHANGED <<stage, busy, starter, older, writing>>
    BY <1>2, <1>4 DEF RevertFindsNoCheckpoint
  <2>. HIDE DEF l
  <2>. QED  BY <1>1, <2>1, <2>2
<1>5. CASE RevertLeaves(v, "done")
  <2>. DEFINE l == Released(lease, v)
  <2>1. lease.holder = v
    BY <1>5 DEF RevertLeaves, HoldInv, Calm
  <2>2. l \in Leases /\ l.holder = Nobody /\ ~l.expired
    BY <1>0, <2>1, ReleasedType
  <2>3. /\ HandsOff(l, Nobody, "own", child, consumer)
        /\ revert' = [revert EXCEPT ![v] = "done"]
        /\ UNCHANGED <<stage, busy, starter, older, writing>>
    BY <1>5, <2>1 DEF RevertLeaves
  <2>. HIDE DEF l
  <2>. QED  BY <1>1, <2>1, <2>2, <2>3
<1>6. ~RevertLeaves(v, "orphan") /\ ~OrphanRestoreExits(v)
  BY DEF RevertLeaves, OrphanRestoreExits, Orderly, HoldInv, Calm
<1>. QED  BY <1>3, <1>4, <1>5, <1>6 DEF RevertStep

-----------------------------------------------------------------------------
(* The invariant, and the theorems.                                        *)

LEMMA HoldInit == Init => HoldInv
<1>. SUFFICES ASSUME Init PROVE HoldInv
  OBVIOUS
<1>1. ReleaseInv
  BY ReleaseInvInit
<1>2. TurnHoldsLease /\ BusyHasDriver /\ Calm
  BY DEF Init, TurnHoldsLease, BusyHasDriver, Calm, Starting, NoStarter, FreeLease
<1>. QED  BY <1>1, <1>2 DEF HoldInv

LEMMA HoldNext ==
    ASSUME Orderly
    PROVE  HoldInv /\ [Next]_vars => HoldInv'
<1>. SUFFICES ASSUME HoldInv, [Next]_vars PROVE HoldInv'
  OBVIOUS
<1>0. ReleaseInv'
  BY ReleaseInvNext DEF HoldInv
<1>1. ASSUME NEW r \in Runners, RunnerStep(r)
      PROVE  TurnHoldsLease' /\ BusyHasDriver' /\ Calm'
  <2>1. ~OlderBookkeepingDone(r) /\ ~StreamRecycles(r)
    BY DEF OlderBookkeepingDone, StreamRecycles, HoldInv, Calm, Orderly
  <2>. QED  BY <1>1, <2>1, QuietHolds, SendHolds, PromptSentHolds, StartEndsHolds,
               BookkeepingHolds, HandOffHolds, StopHolds, StoppedHolds DEF RunnerStep
<1>2. ASSUME NEW v \in Reverts, RevertStep(v)
      PROVE  TurnHoldsLease' /\ BusyHasDriver' /\ Calm'
  BY <1>2, RevertHolds
<1>3. ~LeaseExpires
  BY DEF LeaseExpires, Orderly
<1>4. ASSUME UNCHANGED vars
      PROVE  TurnHoldsLease' /\ BusyHasDriver' /\ Calm'
  BY <1>4 DEF vars, HoldInv, TurnHoldsLease, BusyHasDriver, Calm, Starting
<1>5. TurnHoldsLease' /\ BusyHasDriver' /\ Calm'
  BY <1>1, <1>2, <1>3, <1>4 DEF Next
<1>. QED  BY <1>0, <1>5 DEF HoldInv

LEMMA HoldAlways ==
    ASSUME Orderly
    PROVE  Spec => []HoldInv
BY HoldInit, HoldNext, PTL DEF Spec

\* In an orderly workspace a turn runs, from its checkpoint to the end of its
\* bookkeeping, only while its conversation holds the lease: no hand-off, failed
\* start, disconnect, stop or revert takes it away.
THEOREM TurnsHold ==
    ASSUME Orderly
    PROVE  Spec => []TurnHoldsLease
<1>1. HoldInv => TurnHoldsLease
  BY DEF HoldInv
<1>. QED  BY <1>1, HoldAlways, PTL

\* busy is never stuck: it is set only while a start is in flight or a consumer
\* follows the turn.
THEOREM BusyDriven ==
    ASSUME Orderly
    PROVE  Spec => []BusyHasDriver
<1>1. HoldInv => BusyHasDriver
  BY DEF HoldInv
<1>. QED  BY <1>1, HoldAlways, PTL

\* At most one process acts on the worktree, whichever conversations, hand-offs
\* and restores meet: each of them has its agent or its git commands running
\* only while it holds, and there is one holder.
THEOREM OneWriterAtATime ==
    ASSUME Orderly
    PROVE  Spec => []OneWriter
<1>1. HoldInv => OneWriter
  <2>. SUFFICES ASSUME HoldInv PROVE OneWriter
    OBVIOUS
  <2>1. \A q \in Runners : writing[q] => lease.holder = ConvOf[q]
    BY DEF HoldInv, Calm, TurnHoldsLease
  <2>2. \A v \in Reverts : revert[v] \in {"restoring", "orphan"} => lease.holder = v
    BY DEF HoldInv, Calm
  <2>3. \A x, y \in Writers : x = y
    <3>1. ConvOf \in [Runners -> Convs]
      OBVIOUS
    <3>. QED  BY <2>1, <2>2, <3>1 DEF Writers, Orderly
  <2>4. Writers = {} \/ \E x : Writers = {x}
    BY <2>3
  <2>. QED  BY <2>4, FS_EmptySet, FS_Singleton DEF OneWriter
<1>. QED  BY <1>1, HoldAlways, PTL

-----------------------------------------------------------------------------
(* Registered runners.                                                     *)

\* Follow-ups in the queue, or on their way back into it.
Total(q) == queue[q] + limbo[q]

\* A follow-up that is put back, now or later, stays counted.
LEMMA ReturnsCounts ==
    ASSUME TypeOK, NEW r \in Runners, NEW later, Returns(r, later)
    PROVE  /\ \A q \in Runners : q # r => queue'[q] = queue[q] /\ limbo'[q] = limbo[q]
           /\ Total(r)' = Total(r) + 1
<1>1. CASE later
  BY <1>1 DEF Returns, TypeOK, Total
<1>2. CASE ~later
  BY <1>2 DEF Returns, TypeOK, Total
<1>. QED  BY <1>1, <1>2

\* What a stop() that ends a drain adds, it adds to its own runner.
LEMMA CancelsCounts ==
    ASSUME TypeOK, NEW r \in Runners, CancelsConsumer(r)
    PROVE  \A q \in Runners : q # r => queue'[q] = queue[q] /\ limbo'[q] = limbo[q]
<1>1. CASE consumer[r] = "drain"
  <2>1. PICK later : Returns(r, later)
    BY <1>1 DEF CancelsConsumer
  <2>. QED  BY <2>1, ReturnsCounts
<1>2. CASE consumer[r] # "drain"
  <2>1. consumer[r] \in {"none", "run", "post", "wake"}
    BY <1>2 DEF TypeOK, ConsumerPhases
  <2>2. UNCHANGED <<queue, limbo>>
    BY <2>1 DEF CancelsConsumer
  <2>. QED  BY <2>2
<1>. QED  BY <1>1, <1>2

\* A conversation's slot holds its own runner, whose agent is up or has just
\* exited; a runner that is not open yet has no follow-ups.
Registrations ==
    /\ \A c \in Convs : registry[c] # Nobody => ConvOf[registry[c]] = c
    /\ \A r \in Runners :
          /\ Registered(r) <=> stage[r] \in {"up", "exited"}
          /\ stage[r] \in {"new", "opening"} => queue[r] = 0 /\ limbo[r] = 0

LEMMA RegistrationsInit == Init => Registrations
BY DEF Init, Registrations, Registered

\* Only a runner that is open is sent follow-ups, or given one back.
LEMMA OpenQueues ==
    ASSUME HoldInv, Registrations, NEW r \in Runners,
           \/ SendStarts(r) \/ SendWaits(r) \/ SendQueues(r) \/ SendQueuesIdle(r)
           \/ Dequeues(r) \/ PromptSent(r) \/ PromptFails(r) \/ Disconnects(r)
           \/ PutsBack(r)
           \/ BookkeepingDone(r) \/ OlderBookkeepingDone(r) \/ HandOffRuns(r)
    PROVE  /\ UNCHANGED <<registry, stage>>
           /\ \A q \in Runners : q # r => queue'[q] = queue[q] /\ limbo'[q] = limbo[q]
           /\ stage[r] \in {"new", "opening"} => queue'[r] = queue[r] /\ limbo'[r] = limbo[r]
<1>. USE DEF HoldInv, ReleaseInv, TypeOK, Registrations
<1>1. CASE \/ SendStarts(r) \/ SendWaits(r) \/ SendQueues(r) \/ SendQueuesIdle(r)
           \/ Dequeues(r)
  BY <1>1 DEF SendStarts, SendWaits, SendQueues, SendQueuesIdle, Dequeues, Sendable,
              DrainStarts
<1>2. CASE PromptSent(r)
  BY <1>2 DEF PromptSent
<1>3. CASE PromptFails(r) \/ Disconnects(r)
  <2>1. /\ UNCHANGED <<registry, stage>> /\ StartEnds(r)
        /\ stage[r] \notin {"new", "opening"}
    BY <1>3 DEF PromptFails, Disconnects, StartsAreBusy
  <2>2. \/ UNCHANGED <<queue, limbo>>
        \/ \E later : Returns(r, later)
    BY <2>1 DEF StartEnds
  <2>. QED  BY <2>1, <2>2, ReturnsCounts
<1>4. CASE BookkeepingDone(r) \/ OlderBookkeepingDone(r) \/ HandOffRuns(r)
  BY <1>4 DEF BookkeepingDone, OlderBookkeepingDone, HandOffRuns, Closes, DrainStarts,
              WouldDrain, Alive
<1>5. CASE PutsBack(r)
  BY <1>5 DEF PutsBack
<1>. QED  BY <1>1, <1>2, <1>3, <1>4, <1>5

LEMMA RegistrationsNext ==
    ASSUME Orderly
    PROVE  HoldInv /\ Registrations /\ [Next]_vars => Registrations'
<1>. SUFFICES ASSUME HoldInv, Registrations, [Next]_vars PROVE Registrations'
  OBVIOUS
<1>1. ASSUME NEW r \in Runners, UNCHANGED <<registry, stage>>,
             \A q \in Runners : q # r => queue'[q] = queue[q] /\ limbo'[q] = limbo[q],
             stage[r] \in {"new", "opening"} => queue'[r] = queue[r] /\ limbo'[r] = limbo[r]
      PROVE  Registrations'
  BY <1>1 DEF Registrations, Registered
<1>2. ASSUME UNCHANGED <<registry, stage, queue, limbo>> PROVE Registrations'
  BY <1>2 DEF Registrations, Registered
<1>. USE DEF HoldInv, ReleaseInv, TypeOK
<1>3. ASSUME NEW r \in Runners, RunnerStep(r) PROVE Registrations'
  <2>1. CASE OpenBegins(r)
    BY <2>1 DEF OpenBegins, Registrations, Registered
  <2>2. CASE OpenSucceeds(r)
    BY <2>2 DEF OpenSucceeds, Registrations, Registered, Orderly
  <2>3. CASE OpenFails(r)
    BY <2>3 DEF OpenFails, Registrations, Registered
  <2>4. CASE AgentExits(r)
    BY <2>4 DEF AgentExits, Alive, Registrations, Registered
  <2>5. CASE StopBegins(r)
    <3>1. /\ registry' = [registry EXCEPT ![ConvOf[r]] = Nobody]
          /\ stage' = [stage EXCEPT ![r] = "stopping"]
          /\ \A q \in Runners : q # r => queue'[q] = queue[q] /\ limbo'[q] = limbo[q]
      BY <2>5, CancelsCounts DEF StopBegins, Drops
    <3>. QED  BY <3>1 DEF Registrations, Registered, Orderly
  <2>6. CASE StopEnds(r)
    BY <2>6 DEF StopEnds, Registrations, Registered
  <2>7. CASE PromptBlocks(r) \/ TurnEnds(r) \/ AgentFallsSilent(r)
    BY <1>2, <2>7 DEF PromptBlocks, TurnEnds, AgentFallsSilent
  <2>8. ~StreamRecycles(r)
    BY DEF StreamRecycles, Orderly
  <2>. QED  BY <1>1, <1>3, <2>1, <2>2, <2>3, <2>4, <2>5, <2>6, <2>7, <2>8, OpenQueues
            DEF RunnerStep
<1>4. ASSUME NEW v \in Reverts, RevertStep(v) PROVE Registrations'
  BY <1>2, <1>4 DEF RevertStep, RevertBegins, RevertFindsNoCheckpoint, RevertLeaves,
                    OrphanRestoreExits
<1>5. ASSUME LeaseExpires PROVE Registrations'
  BY <1>2, <1>5 DEF LeaseExpires
<1>6. ASSUME UNCHANGED vars PROVE Registrations'
  BY <1>2, <1>6 DEF vars
<1>. QED  BY <1>3, <1>4, <1>5, <1>6 DEF Next

-----------------------------------------------------------------------------
(* No follow-up is stranded.                                               *)

\* A conversation with follow-ups in the FIFO of a free lease.
Waiting(q) ==
    /\ lease.holder = Nobody /\ Registered(q) /\ Alive(q) /\ Total(q) > 0
    /\ ConvOf[q] \in ToSet(lease.waiters)

NoneForgotten == \A q \in Runners : Waiting(q) => HandingOff

\* A slot in the FIFO, or a task of its own that is ready to run.
Awaited(l, children, q) ==
    ConvOf[q] \in ToSet(l.waiters) \/ children[q].at = "pending"

\* As long as no client disconnects, follow-ups of a live conversation that
\* does not hold are always awaited.
Slotted ==
    "disconnect" \notin Hazards =>
        \A q \in Runners :
            /\ limbo[q] > 0 => stage[q] \in {"exited", "stopping", "stopped"}
            /\ Parks(q) /\ lease.holder # ConvOf[q] => Awaited(lease, child, q)

StrandInv == HoldInv /\ Registrations /\ NoneForgotten /\ Slotted

\* A hand-off whose loop goes on leaves no one behind: a task for a waiter, an
\* empty FIFO, or a lease that is held.
LEMMA HandsOffFeeds ==
    ASSUME HoldInv, NEW l \in Leases, NEW waker, NEW loop, loop # "off",
           NEW children, NEW consumers, HandsOff(l, waker, loop, children, consumers)
    PROVE  NoneForgotten'
<1>. DEFINE k == Wake(l)
            live == {i \in DOMAIN l.waiters : registry[l.waiters[i]] # Nobody}
<1>1. /\ lease' = k.lease
      /\ child' = [t \in Runners |->
            IF t = k.to THEN [at |-> "pending", waker |-> waker, loop |-> loop]
                        ELSE children[t]]
  BY DEF HandsOff
<1>2. k.lease.holder = l.holder /\ k.to \in Runners \cup {Nobody}
  BY WakeType DEF HoldInv, ReleaseInv, TypeOK
<1>3. CASE l.holder # Nobody
  BY <1>1, <1>2, <1>3 DEF NoneForgotten, Waiting, HandingOff
<1>4. CASE l.holder = Nobody /\ live = {}
  <2>1. k.lease = [l EXCEPT !.waiters = << >>]
    BY <1>4 DEF Wake
  <2>2. lease'.waiters = << >>
    BY <1>1, <2>1 DEF Leases
  <2>. QED  BY <2>2 DEF NoneForgotten, Waiting, ToSet, HandingOff
<1>5. CASE l.holder = Nobody /\ live # {}
  <2>1. k.to = registry[l.waiters[Min(live)]]
    BY <1>5 DEF Wake
  <2>2. live \in SUBSET Nat /\ live # {}
    BY <1>5, LenProperties DEF Leases
  <2>3. Min(live) \in live
    <3>. HIDE DEF live
    <3>. QED  BY <2>2, MinExists
  <2>4. k.to # Nobody
    BY <2>1, <2>3
  <2>. HIDE DEF k, live
  <2>. QED  BY <1>1, <1>2, <2>4 DEF NoneForgotten, HandingOff
<1>. QED  BY <1>3, <1>4, <1>5

LEMMA HoldingFeeds ==
    ASSUME lease'.holder # Nobody
    PROVE  NoneForgotten'
BY DEF NoneForgotten, Waiting, HandingOff

\* A step that strands no one anew and keeps the tasks that are to run.
LEMMA KeepingFeeds ==
    ASSUME StrandInv,
           \A q \in Runners : Waiting(q)' => Waiting(q),
           \A t \in Runners : child[t].at = "pending" /\ child[t].loop # "off" =>
               child'[t].at = "pending" /\ child'[t].loop # "off"
    PROVE  NoneForgotten'
BY DEF StrandInv, NoneForgotten, HandingOff

LEMMA QuietFeeds ==
    ASSUME StrandInv, Orderly, NEW r \in Runners,
           \/ OpenBegins(r) \/ OpenSucceeds(r) \/ Dequeues(r) \/ AgentExits(r)
           \/ TurnEnds(r) \/ AgentFallsSilent(r) \/ PutsBack(r)
    PROVE  NoneForgotten'
<1>. USE DEF StrandInv, HoldInv, ReleaseInv, TypeOK, Waiting, Registered, Alive, Total
<1>1. CASE OpenBegins(r)
  BY <1>1, KeepingFeeds DEF OpenBegins
<1>2. CASE OpenSucceeds(r)
  BY <1>2, KeepingFeeds DEF OpenSucceeds, Registrations, Orderly
<1>3. CASE Dequeues(r)
  BY <1>3, KeepingFeeds DEF Dequeues
<1>4. CASE AgentExits(r)
  BY <1>4, KeepingFeeds DEF AgentExits
<1>5. CASE TurnEnds(r) \/ AgentFallsSilent(r)
  BY <1>5, KeepingFeeds DEF TurnEnds, AgentFallsSilent
<1>6. CASE PutsBack(r)
  <2>1. \A q \in Runners : Total(q)' = Total(q)
    BY <1>6 DEF PutsBack
  <2>2. UNCHANGED <<lease, registry, stage, child>>
    BY <1>6 DEF PutsBack
  <2>3. \A q \in Runners : Waiting(q)' => Waiting(q)
    BY <2>1, <2>2
  <2>. QED  BY <2>2, <2>3, KeepingFeeds
<1>. QED  BY <1>1, <1>2, <1>3, <1>4, <1>5, <1>6

LEMMA SendFeeds ==
    ASSUME StrandInv, Orderly, NEW r \in Runners,
           \/ SendStarts(r) \/ SendWaits(r) \/ SendQueues(r) \/ SendQueuesIdle(r)
    PROVE  NoneForgotten'
<1>0. /\ lease \in Leases /\ "send" \in StartedBy /\ "drain" \in StartedBy
      /\ ConvOf[r] # Nobody /\ TypeOK /\ Alive(r) /\ Registered(r)
  BY DEF StrandInv, HoldInv, ReleaseInv, TypeOK, StartedBy, SendStarts, SendWaits,
         SendQueues, SendQueuesIdle, Sendable
<1>1. CASE SendStarts(r)
  BY <1>0, <1>1, StartsType, HoldingFeeds DEF SendStarts
<1>2. CASE SendWaits(r)
  BY <1>0, <1>2, WithWaiterType, HoldingFeeds DEF SendWaits, CanAcquire
<1>3. CASE SendQueues(r)
  <2>1. lease.holder = ConvOf[r]
    BY <1>0, <1>3 DEF SendQueues, StrandInv, HoldInv, BusyHasDriver, TurnHoldsLease, Alive
  <2>. QED  BY <1>0, <1>3, <2>1, HoldingFeeds DEF SendQueues
<1>4. CASE SendQueuesIdle(r)
  <2>1. CASE DrainStarts(r, lease, queue[r] + 1, "drain")
    BY <1>0, <2>1, StartsType, HoldingFeeds DEF DrainStarts
  <2>2. CASE /\ DrainDeclines(r, lease, queue[r] + 1)
             /\ lease' = AfterDecline(r, lease, queue[r] + 1)
    <3>1. queue[r] + 1 > 0 /\ ~busy[r]
      BY <1>0, <1>4 DEF TypeOK, SendQueuesIdle
    <3>2. lease.holder # Nobody
      BY <1>0, <2>2, <3>1 DEF DrainDeclines, WouldDrain, CanAcquire
    <3>. QED  BY <1>0, <2>2, <3>2, AfterDeclineType, HoldingFeeds
  <2>. QED  BY <1>4, <2>1, <2>2 DEF SendQueuesIdle
<1>. QED  BY <1>1, <1>2, <1>3, <1>4

LEMMA PromptSentFeeds ==
    ASSUME StrandInv, NEW r \in Runners, PromptSent(r)
    PROVE  NoneForgotten'
<1>1. lease'.holder = lease.holder /\ Starting(r) /\ stage[r] \in {"up", "exited"}
  BY PromptSentEffect DEF StrandInv, HoldInv
<1>2. lease.holder = ConvOf[r] /\ ConvOf[r] # Nobody
  BY <1>1 DEF StrandInv, HoldInv, TurnHoldsLease
<1>. QED  BY <1>1, <1>2, HoldingFeeds

\* A start that fails hands on what it frees; one that frees nothing leaves
\* its follow-up to a conversation that holds or is being stopped.
LEMMA StartEndsFeeds ==
    ASSUME StrandInv, NEW r \in Runners, Starting(r), StartEnds(r), Settled,
           UNCHANGED <<registry, stage>>
    PROVE  NoneForgotten'
<1>. DEFINE freed == starter[r].fresh /\ lease.holder = ConvOf[r]
            l == IF freed THEN Released(lease, ConvOf[r]) ELSE lease
            loop == IF freed /\ starter[r].by = "task" THEN "nested" ELSE LoopKind(r)
<1>0. /\ lease \in Leases /\ ConvOf[r] \in Holders /\ ConvOf[r] # Nobody
      /\ TypeOK
  BY DEF StrandInv, HoldInv, ReleaseInv, TypeOK, Holders
<1>1. l \in Leases
  BY <1>0, ReleasedType
<1>2. CASE freed \/ LoopAgain(r)
  <2>1. PICK waker : HandsOff(l, waker, loop, WithoutTask(r, child), consumer)
    BY <1>2 DEF StartEnds
  <2>2. loop # "off"
    BY <1>2 DEF LoopAgain, LoopKind
  <2>. HIDE DEF l, loop
  <2>. QED  BY <1>1, <2>1, <2>2, HandsOffFeeds DEF StrandInv
<1>3. CASE ~freed /\ ~LoopAgain(r)
  <2>1. /\ lease' = lease
        /\ \A q \in Runners : q # r => queue'[q] = queue[q] /\ limbo'[q] = limbo[q]
    <3>1. lease' = lease
      BY <1>3 DEF StartEnds, NoHandOff
    <3>2. \/ UNCHANGED <<queue, limbo>>
          \/ \E later : Returns(r, later)
      BY DEF StartEnds
    <3>. QED  BY <1>0, <3>1, <3>2, ReturnsCounts
  <2>2. ASSUME NEW q \in Runners, Waiting(q)' PROVE Waiting(q)
    <3>1. q # r
      BY <1>0, <2>1, <2>2 DEF Waiting, Alive, StrandInv, HoldInv, TurnHoldsLease
    <3>. QED  BY <1>0, <2>1, <2>2, <3>1 DEF Waiting, Registered, Alive, Total
  <2>. QED  BY <2>2, KeepingFeeds DEF Settled
<1>. QED  BY <1>2, <1>3

LEMMA BookkeepingFeeds ==
    ASSUME StrandInv, NEW r \in Runners, BookkeepingDone(r)
    PROVE  NoneForgotten'
<1>. DEFINE l == Released(lease, ConvOf[r])
            d == AfterDecline(r, l, queue[r])
<1>0. /\ lease \in Leases /\ ConvOf[r] \in Holders /\ ConvOf[r] # Nobody
      /\ TypeOK /\ "consumer" \in StartedBy
  BY DEF StrandInv, HoldInv, ReleaseInv, TypeOK, Holders, StartedBy
<1>1. l \in Leases
  BY <1>0, ReleasedType
<1>2. d \in Leases
  BY <1>1, AfterDeclineType
<1>. HIDE DEF l
<1>3. CASE DrainStarts(r, l, queue[r], "consumer")
  BY <1>0, <1>1, <1>3, StartsType, HoldingFeeds DEF DrainStarts
<1>4. CASE HandsOff(d, r, "own", child, consumer)
  <2>. DEFINE loop == "own"
  <2>1. HandsOff(d, r, loop, child, consumer) /\ loop # "off"
    BY <1>4
  <2>. HIDE DEF d, loop
  <2>. QED  BY <1>2, <2>1, HandsOffFeeds DEF StrandInv
<1>. QED  BY <1>3, <1>4 DEF BookkeepingDone, Closes, l

LEMMA HandOffFeeds ==
    ASSUME StrandInv, NEW r \in Runners, HandOffRuns(r)
    PROVE  NoneForgotten'
<1>. DEFINE me == child[r]
            others == [child EXCEPT ![r] = NoChild]
            d == AfterDecline(r, lease, queue[r])
<1>0. /\ lease \in Leases /\ TypeOK /\ "task" \in StartedBy /\ ConvOf[r] # Nobody
      /\ UNCHANGED <<registry, stage>>
  BY DEF HandOffRuns, StrandInv, HoldInv, ReleaseInv, TypeOK, StartedBy
<1>1. d \in Leases /\ d.holder = lease.holder
  BY <1>0, AfterDeclineType
<1>2. CASE DrainStarts(r, lease, queue[r], "task")
  BY <1>0, <1>2, StartsType, HoldingFeeds DEF DrainStarts
<1>3. CASE me.loop # "off" /\ HandsOff(d, me.waker, me.loop, others, consumer)
  <2>. HIDE DEF d, others, me
  <2>. QED  BY <1>1, <1>3, HandsOffFeeds DEF StrandInv
<1>4. CASE /\ me.loop = "off" /\ DrainDeclines(r, lease, queue[r])
           /\ NoHandOff(d, others, consumer)
           /\ UNCHANGED <<queue, limbo>>
  <2>1. CASE lease.holder # Nobody
    BY <1>1, <1>4, <2>1, HoldingFeeds DEF NoHandOff
  <2>2. CASE lease.holder = Nobody
    <3>1. d = lease
      BY <1>4, <2>2 DEF DrainDeclines, AfterDecline, CanAcquire
    <3>2. lease' = lease /\ child' = others
      BY <1>4, <3>1 DEF NoHandOff
    <3>3. \A q \in Runners : Waiting(q)' => Waiting(q)
      BY <1>0, <1>4, <3>2 DEF Waiting, Registered, Alive, Total
    <3>4. \A t \in Runners : child[t].at = "pending" /\ child[t].loop # "off" =>
             child'[t].at = "pending" /\ child'[t].loop # "off"
      BY <1>0, <1>4, <3>2 DEF TypeOK
    <3>. QED  BY <3>3, <3>4, KeepingFeeds
  <2>. QED  BY <2>1, <2>2
<1>. QED  BY <1>2, <1>3, <1>4 DEF HandOffRuns

\* A /stop that spares the wake loop: an idle runner leaves the FIFO's tasks
\* alone, and a drain that is abandoned holds, so that its lease is handed on.
LEMMA StopFeeds ==
    ASSUME StrandInv, Orderly, "wake" \notin StopPhases, NEW r \in Runners, StopBegins(r)
    PROVE  NoneForgotten'
<1>. DEFINE done == [consumer EXCEPT ![r] = "none"]
            freed == starter[r].fresh /\ lease.holder = ConvOf[r]
            l == Released(lease, ConvOf[r])
<1>0. /\ Registered(r) /\ consumer[r] \in {"none", "drain"}
      /\ registry' = [registry EXCEPT ![ConvOf[r]] = Nobody]
      /\ stage' = [stage EXCEPT ![r] = "stopping"]
      /\ CancelsConsumer(r)
      /\ lease \in Leases /\ ConvOf[r] \in Holders
  BY DEF StopBegins, Drops, Orderly, StrandInv, HoldInv, ReleaseInv, TypeOK, Holders
<1>1. CASE consumer[r] = "none"
  <2>1. UNCHANGED <<lease, queue, limbo, child>>
    BY <1>0, <1>1 DEF CancelsConsumer
  <2>2. \A q \in Runners : Waiting(q)' => Waiting(q)
    BY <1>0, <2>1 DEF Waiting, Registered, Alive, Total, Orderly, StrandInv, HoldInv,
                      ReleaseInv, TypeOK
  <2>. QED  BY <2>1, <2>2, KeepingFeeds
<1>2. CASE consumer[r] = "drain"
  <2>1. freed
    BY <1>0, <1>2 DEF StrandInv, HoldInv, ReleaseInv, DrainsAreOwn, TurnHoldsLease,
                      Registrations
  <2>. DEFINE loop == "nested"
  <2>2. HandsOff(l, r, loop, child, done) /\ loop # "off"
    BY <1>0, <1>2, <2>1 DEF CancelsConsumer
  <2>3. l \in Leases
    BY <1>0, ReleasedType
  <2>. HIDE DEF l, done, loop
  <2>. QED  BY <2>2, <2>3, HandsOffFeeds DEF StrandInv
<1>. QED  BY <1>0, <1>1, <1>2

LEMMA StoppedFeeds ==
    ASSUME StrandInv, NEW r \in Runners, OpenFails(r) \/ StopEnds(r)
    PROVE  NoneForgotten'
<1>. DEFINE w == WithoutWaiter(lease, ConvOf[r])
            l == Released(w, ConvOf[r])
<1>0. /\ LetsGoOfLease(r) /\ UNCHANGED <<registry, queue, limbo>>
      /\ stage' = [stage EXCEPT ![r] = "stopped"]
      /\ stage \in [Runners -> Stages]
      /\ lease \in Leases /\ ConvOf[r] \in Holders
  BY DEF OpenFails, StopEnds, StrandInv, HoldInv, ReleaseInv, TypeOK, Holders
<1>1. w \in Leases /\ w.holder = lease.holder
  BY <1>0, WithoutWaiterType
<1>2. l \in Leases /\ (lease.holder # ConvOf[r] => l = w)
  <2>. HIDE DEF w
  <2>1. Released(w, ConvOf[r]) \in Leases
    BY <1>0, <1>1, ReleasedType
  <2>2. lease.holder # ConvOf[r] => Released(w, ConvOf[r]) = w
    BY <1>1 DEF Released
  <2>. QED  BY <2>1, <2>2
<1>3. CASE lease.holder = ConvOf[r]
  <2>. DEFINE loop == "own"
  <2>1. HandsOff(l, Nobody, loop, child, consumer) /\ loop # "off"
    BY <1>0, <1>3 DEF LetsGoOfLease
  <2>. HIDE DEF l, loop
  <2>. QED  BY <1>2, <2>1, HandsOffFeeds DEF StrandInv
<1>4. CASE lease.holder # ConvOf[r]
  <2>1. lease' = w /\ child' = child
    BY <1>0, <1>2, <1>4 DEF LetsGoOfLease, NoHandOff
  <2>2. ToSet(w.waiters) \subseteq ToSet(lease.waiters)
    <3>1. lease.waiters \in Seq(Convs) /\ w.waiters = RemoveFirst(lease.waiters, ConvOf[r])
      BY <1>0 DEF Leases, WithoutWaiter
    <3>. HIDE DEF w
    <3>. QED  BY <3>1, RemoveFirstThins DEF Thins
  <2>. HIDE DEF w
  <2>3. \A q \in Runners : Waiting(q)' => Waiting(q)
    BY <1>0, <1>1, <2>1, <2>2 DEF Waiting, Registered, Alive, Total
  <2>. QED  BY <2>1, <2>3, KeepingFeeds
<1>. QED  BY <1>3, <1>4

LEMMA RevertFeeds ==
    ASSUME StrandInv, Orderly, NEW v \in Reverts, RevertStep(v)
    PROVE  NoneForgotten'
<1>. DEFINE loop == "own"
<1>0. /\ lease \in Leases /\ v \in Holders /\ v # Nobody /\ loop # "off"
      /\ Grant(lease, v) \in Leases /\ Grant(lease, v).holder = v
      /\ Released(lease, v) \in Leases /\ Released(Grant(lease, v), v) \in Leases
  BY GrantType, ReleasedType DEF Holders, StrandInv, HoldInv, ReleaseInv, TypeOK
<1>1. CASE RevertBegins(v)
  BY <1>0, <1>1, HoldingFeeds DEF RevertBegins
<1>2. CASE RevertFindsNoCheckpoint(v)
  <2>1. HandsOff(Released(Grant(lease, v), v), Nobody, loop, child, consumer)
    BY <1>2 DEF RevertFindsNoCheckpoint
  <2>. HIDE DEF loop
  <2>. QED  BY <1>0, <2>1, HandsOffFeeds DEF StrandInv
<1>3. CASE RevertLeaves(v, "done")
  <2>1. HandsOff(Released(lease, v), Nobody, loop, child, consumer)
    BY <1>3 DEF RevertLeaves, StrandInv, HoldInv, Calm
  <2>. HIDE DEF loop
  <2>. QED  BY <1>0, <2>1, HandsOffFeeds DEF StrandInv
<1>4. ~RevertLeaves(v, "orphan") /\ ~OrphanRestoreExits(v)
  BY DEF RevertLeaves, OrphanRestoreExits, Orderly, StrandInv, HoldInv, Calm
<1>. QED  BY <1>1, <1>2, <1>3, <1>4 DEF RevertStep

LEMMA ForgottenNext ==
    ASSUME Orderly, "wake" \notin StopPhases
    PROVE  StrandInv /\ [Next]_vars => NoneForgotten'
<1>. SUFFICES ASSUME StrandInv, [Next]_vars PROVE NoneForgotten'
  OBVIOUS
<1>1. ASSUME NEW r \in Runners, RunnerStep(r) PROVE NoneForgotten'
  <2>1. /\ ~OlderBookkeepingDone(r) /\ ~StreamRecycles(r) /\ ~PromptBlocks(r)
    BY DEF OlderBookkeepingDone, StreamRecycles, PromptBlocks, StrandInv, HoldInv, Calm,
           Orderly
  <2>2. ASSUME PromptFails(r) \/ Disconnects(r) PROVE NoneForgotten'
    BY <2>2, StartEndsFeeds DEF PromptFails, Disconnects
  <2>. QED  BY <1>1, <2>1, <2>2, QuietFeeds, SendFeeds, PromptSentFeeds, BookkeepingFeeds,
               HandOffFeeds, StopFeeds, StoppedFeeds DEF RunnerStep
<1>2. ASSUME NEW v \in Reverts, RevertStep(v) PROVE NoneForgotten'
  BY <1>2, RevertFeeds
<1>3. ~LeaseExpires
  BY DEF LeaseExpires, Orderly
<1>4. ASSUME UNCHANGED vars PROVE NoneForgotten'
  BY <1>4 DEF vars, StrandInv, NoneForgotten, HandingOff, Waiting, Registered, Alive, Total
<1>. QED  BY <1>1, <1>2, <1>3, <1>4 DEF Next

-----------------------------------------------------------------------------
(* Without disconnects, every follow-up of a live conversation is awaited. *)

\* A grant takes its beneficiary off the FIFO and nobody else.
LEMMA GrantKeeps ==
    ASSUME NEW l \in Leases, NEW h \in Holders, NEW c \in ToSet(l.waiters), c # h
    PROVE  c \in ToSet(Grant(l, h).waiters) /\ c \in ToSet(WithoutWaiter(l, h).waiters)
<1>1. WithoutWaiter(l, h).waiters = RemoveFirst(l.waiters, h) /\ l.waiters \in Seq(Convs)
  BY DEF WithoutWaiter, Leases
<1>2. Grant(l, h).waiters = WithoutWaiter(l, h).waiters
  BY WithoutWaiterType DEF Grant, Leases
<1>. QED  BY <1>1, <1>2, RemoveFirstThins

LEMMA WaiterAdded ==
    ASSUME NEW l \in Leases, NEW c \in Convs
    PROVE  /\ c \in ToSet(WithWaiter(l, c).waiters)
           /\ ToSet(l.waiters) \subseteq ToSet(WithWaiter(l, c).waiters)
<1>1. CASE c \in ToSet(l.waiters)
  BY <1>1 DEF WithWaiter
<1>2. CASE c \notin ToSet(l.waiters)
  <2>. DEFINE s == l.waiters
              t == Append(s, c)
  <2>0. s \in Seq(Convs) /\ Len(s) \in Nat /\ DOMAIN s = 1..Len(s)
    BY LenProperties DEF Leases
  <2>1. WithWaiter(l, c).waiters = t
    BY <1>2 DEF WithWaiter, Leases
  <2>2. /\ t \in Seq(Convs) /\ Len(t) = Len(s) + 1
        /\ \A i \in 1..Len(s) : t[i] = s[i]
        /\ t[Len(s) + 1] = c
    BY <2>0, AppendProperties
  <2>3. DOMAIN t = 1..(Len(s) + 1)
    BY <2>2, LenProperties
  <2>. HIDE DEF s, t
  <2>4. c \in ToSet(t) /\ ToSet(s) \subseteq ToSet(t)
    BY <2>0, <2>2, <2>3 DEF ToSet
  <2>. QED  BY <2>1, <2>4 DEF s
<1>. QED  BY <1>1, <1>2

LEMMA SuffixKeeps ==
    ASSUME NEW S, NEW s \in Seq(S), NEW i \in 1..Len(s), NEW j \in 1..Len(s),
           i <= j, i # j
    PROVE  s[j] \in ToSet(SubSeq(s, i + 1, Len(s)))
<1>. DEFINE t == SubSeq(s, i + 1, Len(s))
<1>1. /\ t \in Seq(S) /\ Len(t) = Len(s) - i
      /\ \A k \in 1..(Len(s) - i) : t[k] = s[i + k]
  BY SuffixProperties
<1>2. DOMAIN t = 1..(Len(s) - i) /\ Len(s) \in Nat
  BY <1>1, LenProperties
<1>. HIDE DEF t
<1>3. j - i \in 1..(Len(s) - i) /\ i + (j - i) = j
  BY <1>2
<1>4. t[j - i] = s[j]
  BY <1>1, <1>3
<1>5. s[j] \in ToSet(t)
  BY <1>2, <1>3, <1>4 DEF ToSet
<1>. QED  BY <1>5 DEF t

\* A wake-up passes over a conversation in the FIFO only to give it its task.
LEMMA WakeCovers ==
    ASSUME registry \in [Convs -> Runners \cup {Nobody}], NEW l \in Leases,
           NEW q \in Runners, Registered(q), ConvOf[q] \in ToSet(l.waiters)
    PROVE  ConvOf[q] \in ToSet(Wake(l).lease.waiters) \/ Wake(l).to = q
<1>. DEFINE s == l.waiters
            live == {i \in DOMAIN s : registry[s[i]] # Nobody}
<1>0. s \in Seq(Convs) /\ DOMAIN s = 1..Len(s) /\ Len(s) \in Nat
  BY LenProperties DEF Leases
<1>1. CASE l.holder # Nobody
  BY <1>1 DEF Wake
<1>2. CASE l.holder = Nobody
  <2>1. PICK j \in 1..Len(s) : s[j] = ConvOf[q]
    BY <1>0 DEF ToSet
  <2>2. j \in live /\ live \in SUBSET Nat
    BY <1>0, <2>1 DEF Registered
  <2>. DEFINE i == Min(live)
              rest == SubSeq(s, i + 1, Len(s))
  <2>3. i \in live /\ i <= j
    <3>. HIDE DEF live
    <3>. QED  BY <2>2, MinExists
  <2>4. Wake(l) = [lease |-> [l EXCEPT !.waiters = rest], to |-> registry[s[i]]]
    BY <1>2, <2>2 DEF Wake
  <2>5. i \in 1..Len(s)
    BY <1>0, <2>3
  <2>. HIDE DEF i, live, s
  <2>6. CASE i = j
    BY <2>1, <2>4, <2>6 DEF Registered
  <2>7. CASE i # j
    <3>1. s[j] \in ToSet(rest)
      BY <1>0, <2>3, <2>5, <2>7, SuffixKeeps
    <3>2. Wake(l).lease.waiters = rest
      BY <2>4 DEF Leases
    <3>. HIDE DEF rest
    <3>. QED  BY <2>1, <3>1, <3>2
  <2>. QED  BY <2>6, <2>7
<1>. QED  BY <1>1, <1>2

LEMMA HandsOffAwaits ==
    ASSUME HoldInv, NEW l \in Leases, NEW waker, NEW loop, NEW children, NEW consumers,
           HandsOff(l, waker, loop, children, consumers),
           NEW q \in Runners, Registered(q), Awaited(l, children, q)
    PROVE  Awaited(lease, child, q)'
<1>. DEFINE k == Wake(l)
<1>1. /\ lease' = k.lease
      /\ child' = [t \in Runners |->
            IF t = k.to THEN [at |-> "pending", waker |-> waker, loop |-> loop]
                        ELSE children[t]]
  BY DEF HandsOff
<1>2. ConvOf[q] \in ToSet(l.waiters) => ConvOf[q] \in ToSet(k.lease.waiters) \/ k.to = q
  BY WakeCovers DEF HoldInv, ReleaseInv, TypeOK
<1>. HIDE DEF k
<1>3. CASE k.to = q
  BY <1>1, <1>3 DEF Awaited
<1>4. CASE k.to # q
  BY <1>1, <1>2, <1>4 DEF Awaited
<1>. QED  BY <1>3, <1>4

\* Follow-ups on their way back belong to a runner whose agent is gone, and
\* those of a live conversation that does not hold are awaited.
AllSlotted ==
    \A q \in Runners :
        /\ limbo[q] > 0 => stage[q] \in {"exited", "stopping", "stopped"}
        /\ Parks(q) /\ lease.holder # ConvOf[q] => Awaited(lease, child, q)

SlotInv == HoldInv /\ Registrations /\ AllSlotted /\ "disconnect" \notin Hazards

LEMMA QuietSlots ==
    ASSUME SlotInv, Orderly, NEW r \in Runners,
           \/ OpenBegins(r) \/ OpenSucceeds(r) \/ SendQueues(r) \/ Dequeues(r)
           \/ AgentExits(r) \/ TurnEnds(r) \/ AgentFallsSilent(r) \/ PutsBack(r)
    PROVE  AllSlotted'
<1>. USE DEF SlotInv, HoldInv, ReleaseInv, TypeOK, AllSlotted, Parks, Registered, Alive,
             Awaited
<1>1. CASE OpenBegins(r)
  BY <1>1 DEF OpenBegins, Registrations
<1>2. CASE OpenSucceeds(r)
  <2>1. /\ lease' = lease /\ child' = child /\ queue' = queue /\ limbo' = limbo
        /\ stage[r] = "opening" /\ stage' = [stage EXCEPT ![r] = "up"]
        /\ registry' = [registry EXCEPT ![ConvOf[r]] = r]
    BY <1>2 DEF OpenSucceeds
  <2>2. queue[r] = 0 /\ limbo[r] = 0
    BY <2>1 DEF Registrations
  <2>3. ASSUME NEW q \in Runners, q # r
        PROVE  stage'[q] = stage[q] /\ registry'[ConvOf[q]] = registry[ConvOf[q]]
    BY <2>1, <2>3 DEF Orderly
  <2>. QED  BY <2>1, <2>2, <2>3
<1>3. CASE SendQueues(r)
  <2>1. lease.holder = ConvOf[r]
    BY <1>3 DEF SendQueues, Sendable, BusyHasDriver, TurnHoldsLease
  <2>. QED  BY <1>3, <2>1 DEF SendQueues
<1>4. CASE Dequeues(r)
  BY <1>4 DEF Dequeues
<1>5. CASE AgentExits(r)
  BY <1>5 DEF AgentExits
<1>6. CASE TurnEnds(r) \/ AgentFallsSilent(r)
  BY <1>6 DEF TurnEnds, AgentFallsSilent
<1>7. CASE PutsBack(r)
  BY <1>7 DEF PutsBack
<1>. QED  BY <1>1, <1>2, <1>3, <1>4, <1>5, <1>6, <1>7

\* Who starts holds, and takes no one else's slot.
LEMMA StartSlots ==
    ASSUME SlotInv, Orderly, NEW r \in Runners, NEW l \in Leases, NEW by \in StartedBy,
           Starts(r, l, by), l.holder = Nobody, l.waiters = lease.waiters,
           lease.holder \in {Nobody, ConvOf[r]},
           \A q \in Runners : q # r =>
               /\ queue'[q] = queue[q]
               /\ child[q].at = "pending" => child'[q].at = "pending",
           UNCHANGED <<registry, stage, limbo>>
    PROVE  AllSlotted'
<1>1. /\ lease' = Grant(l, ConvOf[r]) /\ lease'.holder = ConvOf[r]
      /\ ConvOf[r] \in Holders /\ ConvOf[r] # Nobody
  BY GrantType DEF Starts, Acquired, Holders
<1>2. ASSUME NEW q \in Runners, q # r, Parks(q)' PROVE Awaited(lease, child, q)'
  <2>1. Parks(q)
    BY <1>2 DEF Parks, Registered, Alive
  <2>2. ConvOf[q] # ConvOf[r] /\ ConvOf[q] \in Convs
    BY <1>2 DEF Orderly
  <2>3. Awaited(lease, child, q)
    BY <2>1, <2>2 DEF SlotInv, AllSlotted
  <2>4. CASE ConvOf[q] \in ToSet(l.waiters)
    BY <1>1, <2>2, <2>4, GrantKeeps DEF Awaited
  <2>5. CASE child[q].at = "pending"
    BY <1>2, <2>5 DEF Awaited
  <2>. QED  BY <2>3, <2>4, <2>5 DEF Awaited
<1>. QED  BY <1>1, <1>2 DEF SlotInv, AllSlotted

\* The lease and the other queues are as they were, but for one more slot.
LEMMA DeclineSlots ==
    ASSUME SlotInv, NEW r \in Runners, NEW l \in Leases,
           lease' \in Leases, lease'.holder = lease.holder,
           ToSet(lease.waiters) \subseteq ToSet(lease'.waiters),
           ConvOf[r] \in ToSet(lease'.waiters), child' = child,
           \A q \in Runners : q # r => queue'[q] = queue[q],
           UNCHANGED <<registry, stage, limbo>>
    PROVE  AllSlotted'
<1>1. ASSUME NEW q \in Runners, Parks(q)', lease'.holder # ConvOf[q]
      PROVE  Awaited(lease, child, q)'
  <2>1. CASE q = r
    BY <2>1 DEF Awaited
  <2>2. CASE q # r
    <3>1. Parks(q)
      BY <1>1, <2>2 DEF Parks, Registered, Alive
    <3>. QED  BY <1>1, <3>1 DEF SlotInv, AllSlotted, Awaited
  <2>. QED  BY <2>1, <2>2
<1>. QED  BY <1>1 DEF SlotInv, AllSlotted

LEMMA SendSlots ==
    ASSUME SlotInv, Orderly, NEW r \in Runners,
           SendStarts(r) \/ SendWaits(r) \/ SendQueuesIdle(r)
    PROVE  AllSlotted'
<1>0. /\ lease \in Leases /\ ~lease.expired /\ TypeOK
      /\ "send" \in StartedBy /\ "drain" \in StartedBy /\ ConvOf[r] \in Convs
      /\ ~busy[r] /\ Alive(r) /\ queue[r] + 1 > 0
      /\ UNCHANGED <<registry, stage, limbo, child>>
  BY DEF SlotInv, HoldInv, ReleaseInv, TypeOK, Calm, StartedBy, SendStarts, SendWaits,
         SendQueuesIdle, Sendable
<1>1. ASSUME NEW by \in StartedBy, Starts(r, lease, by), MayStart(r, lease),
             \A q \in Runners : q # r => queue'[q] = queue[q]
      PROVE  AllSlotted'
  BY <1>0, <1>1, FindsFree, StartSlots
<1>2. CASE SendStarts(r)
  BY <1>0, <1>1, <1>2 DEF SendStarts
<1>3. CASE SendWaits(r)
  <2>1. lease' = WithWaiter(lease, ConvOf[r]) /\ \A q \in Runners : q # r => queue'[q] = queue[q]
    BY <1>0, <1>3 DEF SendWaits, TypeOK
  <2>. QED  BY <1>0, <2>1, WithWaiterType, WaiterAdded, DeclineSlots
<1>4. CASE SendQueuesIdle(r)
  <2>0. \A q \in Runners : q # r => queue'[q] = queue[q]
    BY <1>0, <1>4 DEF SendQueuesIdle, DrainStarts, TypeOK
  <2>1. CASE DrainStarts(r, lease, queue[r] + 1, "drain")
    BY <1>0, <1>1, <2>0, <2>1 DEF DrainStarts
  <2>2. CASE lease' = AfterDecline(r, lease, queue[r] + 1)
    <3>1. lease' = WithWaiter(lease, ConvOf[r])
      BY <1>0, <2>2 DEF AfterDecline, WouldDrain
    <3>. QED  BY <1>0, <2>0, <3>1, WithWaiterType, WaiterAdded, DeclineSlots
  <2>. QED  BY <1>4, <2>1, <2>2 DEF SendQueuesIdle
<1>. QED  BY <1>2, <1>3, <1>4

\* A hand-off, or none, from a lease and tasks by which all but r are awaited.
LEMMA LeavesSlots ==
    ASSUME SlotInv, NEW r \in Runners, NEW l \in Leases, NEW waker, NEW loop,
           NEW children, NEW consumers,
           \/ HandsOff(l, waker, loop, children, consumers)
           \/ NoHandOff(l, children, consumers),
           \A q \in Runners : Parks(q)' /\ q # r =>
               Registered(q) /\ (lease'.holder # ConvOf[q] => Awaited(l, children, q)),
           Parks(r)' => lease'.holder = ConvOf[r] \/ Awaited(lease, child, r)',
           \A q \in Runners : limbo'[q] > 0 => stage'[q] \in {"exited", "stopping", "stopped"}
    PROVE  AllSlotted'
<1>1. ASSUME NEW q \in Runners, q # r, Parks(q)', lease'.holder # ConvOf[q]
      PROVE  Awaited(lease, child, q)'
  <2>1. Registered(q) /\ Awaited(l, children, q)
    BY <1>1
  <2>2. CASE HandsOff(l, waker, loop, children, consumers)
    BY <2>1, <2>2, HandsOffAwaits DEF SlotInv
  <2>3. CASE NoHandOff(l, children, consumers)
    BY <2>1, <2>3 DEF NoHandOff, Awaited
  <2>. QED  BY <2>2, <2>3
<1>. QED  BY <1>1 DEF AllSlotted

LEMMA PromptSentSlots ==
    ASSUME SlotInv, Orderly, NEW r \in Runners, PromptSent(r)
    PROVE  AllSlotted'
<1>. DEFINE others == WithoutTask(r, Orphaned(r))
            waker == IF starter[r].by = "task" THEN Orphaned(r)[r].waker ELSE Nobody
            running == [consumer EXCEPT ![r] = "run"]
<1>1. /\ Starting(r) /\ stage[r] \in {"up", "exited"}
      /\ UNCHANGED <<registry, stage, queue, limbo>> /\ lease'.holder = lease.holder
  BY PromptSentEffect DEF SlotInv, HoldInv
<1>2. lease.holder = ConvOf[r] /\ lease \in Leases
  BY <1>1 DEF SlotInv, HoldInv, ReleaseInv, TypeOK, TurnHoldsLease
<1>3. \/ HandsOff(lease, waker, LoopKind(r), others, running)
      \/ NoHandOff(lease, others, running)
  BY DEF PromptSent
<1>4. ASSUME NEW q \in Runners, q # r, Parks(q)'
      PROVE  Registered(q) /\ Awaited(lease, others, q)
  <2>1. Parks(q) /\ lease.holder # ConvOf[q]
    BY <1>1, <1>2, <1>4 DEF Parks, Registered, Alive, Orderly
  <2>2. others[q].at = child[q].at
    BY <1>4 DEF WithoutTask, Orphaned, SlotInv, HoldInv, ReleaseInv, TypeOK, Children
  <2>. HIDE DEF others
  <2>. QED  BY <2>1, <2>2 DEF SlotInv, AllSlotted, Awaited, Parks
<1>5. \A q \in Runners : limbo'[q] > 0 => stage'[q] \in {"exited", "stopping", "stopped"}
  BY <1>1 DEF SlotInv, AllSlotted
<1>. HIDE DEF others, waker, running
<1>. QED  BY <1>1, <1>2, <1>3, <1>4, <1>5, LeavesSlots

\* The agent is gone: what its start gives back is nobody's to await.
LEMMA StartEndsSlots ==
    ASSUME SlotInv, Orderly, NEW r \in Runners, PromptFails(r)
    PROVE  AllSlotted'
<1>. DEFINE freed == starter[r].fresh /\ lease.holder = ConvOf[r]
            l == IF freed THEN Released(lease, ConvOf[r]) ELSE lease
            others == WithoutTask(r, child)
<1>0. /\ lease \in Leases /\ ConvOf[r] \in Holders /\ TypeOK /\ ~Alive(r) /\ Starting(r)
      /\ UNCHANGED <<registry, stage>> /\ StartEnds(r) /\ HoldInv /\ ReleaseInv
      /\ stage[r] \notin {"new", "opening"}
  BY DEF SlotInv, HoldInv, ReleaseInv, TypeOK, Holders, PromptFails, StartsAreBusy
<1>1. l \in Leases /\ l.waiters = lease.waiters
  BY <1>0, ReleasedType
<1>2. PICK waker, loop : \/ HandsOff(l, waker, loop, others, consumer)
                         \/ NoHandOff(l, others, consumer)
  BY <1>0 DEF StartEnds
<1>3. lease'.holder = IF freed THEN Nobody ELSE lease.holder
  BY <1>0, StartEndsEffect
<1>4. \A q \in Runners : q # r => queue'[q] = queue[q] /\ limbo'[q] = limbo[q]
  <2>1. \/ UNCHANGED <<queue, limbo>>
        \/ \E later : Returns(r, later)
    BY <1>0 DEF StartEnds
  <2>. QED  BY <1>0, <2>1, ReturnsCounts
<1>5. ASSUME NEW q \in Runners, q # r, Parks(q)'
      PROVE  Registered(q) /\ (lease'.holder # ConvOf[q] => Awaited(l, others, q))
  <2>1. Parks(q) /\ (lease'.holder # ConvOf[q] => lease.holder # ConvOf[q])
    BY <1>0, <1>3, <1>4, <1>5 DEF Parks, Registered, Alive, Orderly
  <2>2. others[q].at = child[q].at
    BY <1>0, <1>5 DEF WithoutTask, TypeOK
  <2>. HIDE DEF others, l
  <2>. QED  BY <1>1, <2>1, <2>2 DEF SlotInv, AllSlotted, Awaited, Parks
<1>6. ~Parks(r)'
  BY <1>0 DEF Parks, Alive
<1>7. \A q \in Runners : limbo'[q] > 0 => stage'[q] \in {"exited", "stopping", "stopped"}
  <2>1. stage[r] \in {"exited", "stopping", "stopped"}
    BY <1>0 DEF TypeOK, Stages, Alive
  <2>. QED  BY <1>0, <1>4, <2>1 DEF SlotInv, AllSlotted
<1>. HIDE DEF l, others
<1>. QED  BY <1>1, <1>2, <1>5, <1>6, <1>7, LeavesSlots

\* An idle runner that neither starts nor declines has nothing to wait for.
LEMMA BookkeepingSlots ==
    ASSUME SlotInv, Orderly, NEW r \in Runners, BookkeepingDone(r)
    PROVE  AllSlotted'
<1>. DEFINE l == Released(lease, ConvOf[r])
            d == AfterDecline(r, l, queue[r])
<1>0. /\ lease \in Leases /\ ConvOf[r] \in Holders /\ ConvOf[r] # Nobody /\ TypeOK
      /\ consumer[r] = "post" /\ lease.holder = ConvOf[r] /\ ~busy[r]
      /\ "consumer" \in StartedBy /\ ReleaseInv
      /\ UNCHANGED <<registry, stage, limbo>>
  BY DEF SlotInv, HoldInv, ReleaseInv, TypeOK, Holders, StartedBy, BookkeepingDone,
         TurnHoldsLease, BusyHasDriver, Calm
<1>1. l \in Leases /\ l.holder = Nobody /\ l.waiters = lease.waiters
  BY <1>0, ReleasedType
<1>. HIDE DEF l
<1>2. CASE DrainStarts(r, l, queue[r], "consumer") /\ UNCHANGED child
  <2>1. \A q \in Runners : q # r => queue'[q] = queue[q]
    BY <1>0, <1>2 DEF DrainStarts, TypeOK
  <2>. QED  BY <1>0, <1>1, <1>2, <2>1, StartSlots DEF DrainStarts
<1>3. CASE /\ DrainDeclines(r, l, queue[r])
           /\ HandsOff(d, r, "own", child, consumer)
           /\ UNCHANGED <<queue, busy, starter>>
  <2>1. ~WouldDrain(r, l, queue[r])
    BY <1>1, <1>3 DEF DrainDeclines, CanAcquire
  <2>2. d = l /\ ~Parks(r)
    BY <1>0, <2>1 DEF AfterDecline, WouldDrain, Parks
  <2>3. ASSUME NEW q \in Runners, q # r, Parks(q)'
        PROVE  Registered(q) /\ Awaited(l, child, q)
    <3>1. Parks(q) /\ lease.holder # ConvOf[q]
      BY <1>0, <1>3, <2>3 DEF Parks, Registered, Alive, Orderly
    <3>. QED  BY <1>1, <3>1 DEF SlotInv, AllSlotted, Awaited, Parks
  <2>4. ~Parks(r)'
    BY <1>0, <1>3, <2>2 DEF Parks, Registered, Alive
  <2>5. \A q \in Runners : limbo'[q] > 0 => stage'[q] \in {"exited", "stopping", "stopped"}
    BY <1>0 DEF SlotInv, AllSlotted
  <2>6. PICK waker, loop : HandsOff(l, waker, loop, child, consumer)
    BY <1>3, <2>2
  <2>. QED  BY <1>1, <2>3, <2>4, <2>5, <2>6, LeavesSlots
<1>. QED  BY <1>2, <1>3 DEF BookkeepingDone, Closes, l

LEMMA HandOffSlots ==
    ASSUME SlotInv, Orderly, NEW r \in Runners, HandOffRuns(r)
    PROVE  AllSlotted'
<1>. DEFINE others == [child EXCEPT ![r] = NoChild]
            d == AfterDecline(r, lease, queue[r])
<1>0. /\ lease \in Leases /\ ~lease.expired /\ ConvOf[r] \in Convs /\ TypeOK
      /\ "task" \in StartedBy /\ HoldInv
      /\ UNCHANGED <<registry, stage, limbo>>
  BY DEF SlotInv, HoldInv, ReleaseInv, TypeOK, Calm, StartedBy, HandOffRuns
<1>1. CASE /\ DrainStarts(r, lease, queue[r], "task")
           /\ child' = [child EXCEPT ![r].at = "driving"]
  <2>1. \A q \in Runners : q # r => queue'[q] = queue[q] /\ child'[q] = child[q]
    BY <1>0, <1>1 DEF DrainStarts, TypeOK
  <2>2. lease.holder = Nobody
    BY <1>0, <1>1, FindsFree DEF DrainStarts
  <2>. QED  BY <1>0, <1>1, <2>1, <2>2, StartSlots DEF DrainStarts
<1>2. CASE /\ DrainDeclines(r, lease, queue[r])
           /\ \/ HandsOff(d, child[r].waker, child[r].loop, others, consumer)
              \/ NoHandOff(d, others, consumer)
           /\ UNCHANGED <<queue, busy, starter>>
  <2>1. d \in Leases /\ d.holder = lease.holder
    BY <1>0, AfterDeclineType
  <2>2. /\ ToSet(lease.waiters) \subseteq ToSet(d.waiters)
        /\ WouldDrain(r, lease, queue[r]) => ConvOf[r] \in ToSet(d.waiters)
    BY <1>0, WaiterAdded DEF AfterDecline
  <2>3. Parks(r) => lease.holder = ConvOf[r] \/ WouldDrain(r, lease, queue[r])
    <3>1. Alive(r) /\ busy[r] => lease.holder = ConvOf[r]
      BY <1>0 DEF HoldInv, BusyHasDriver, TurnHoldsLease, Alive
    <3>. QED  BY <3>1 DEF Parks, WouldDrain
  <2>4. \A q \in Runners : Parks(q)' <=> Parks(q)
    BY <1>0, <1>2 DEF Parks, Registered, Alive
  <2>5. \A q \in Runners : q # r => others[q] = child[q]
    BY <1>0 DEF TypeOK
  <2>6. lease'.holder = lease.holder
    <3>1. Wake(d).lease.holder = d.holder
      BY <1>0, <2>1, WakeType DEF TypeOK
    <3>. HIDE DEF d, others
    <3>. QED  BY <1>2, <2>1, <3>1 DEF HandsOff, NoHandOff
  <2>. HIDE DEF d, others
  <2>7. ASSUME NEW q \in Runners, Parks(q), lease'.holder # ConvOf[q]
        PROVE  Registered(q) /\ Awaited(d, others, q)
    <3>1. Registered(q)
      BY <2>7 DEF Parks
    <3>2. CASE q = r
      BY <2>2, <2>3, <2>6, <2>7, <3>2 DEF Awaited, Parks
    <3>3. CASE q # r
      <4>1. Awaited(lease, child, q)
        BY <2>6, <2>7 DEF SlotInv, AllSlotted
      <4>. QED  BY <2>2, <2>5, <3>1, <3>3, <4>1 DEF Awaited
    <3>. QED  BY <3>1, <3>2, <3>3
  <2>8. \A q \in Runners : limbo'[q] > 0 => stage'[q] \in {"exited", "stopping", "stopped"}
    BY <1>0 DEF SlotInv, AllSlotted
  <2>9. ASSUME NEW q \in Runners, Parks(q), lease'.holder # ConvOf[q]
        PROVE  Awaited(lease, child, q)'
    <3>1. CASE HandsOff(d, child[r].waker, child[r].loop, others, consumer)
      BY <1>0, <2>1, <2>7, <2>9, <3>1, HandsOffAwaits
    <3>2. CASE NoHandOff(d, others, consumer)
      BY <2>7, <2>9, <3>2 DEF NoHandOff, Awaited
    <3>. QED  BY <1>2, <3>1, <3>2
  <2>. QED  BY <2>4, <2>8, <2>9 DEF AllSlotted
<1>. QED  BY <1>1, <1>2 DEF HandOffRuns

\* The conversation stopped is no longer registered; the others are as before.
LEMMA StopSlots ==
    ASSUME SlotInv, Orderly, "wake" \notin StopPhases, NEW r \in Runners, StopBegins(r)
    PROVE  AllSlotted'
<1>. DEFINE done == [consumer EXCEPT ![r] = "none"]
            l == Released(lease, ConvOf[r])
<1>0. /\ Registered(r) /\ consumer[r] \in {"none", "drain"} /\ ReleaseInv /\ TypeOK
      /\ registry' = [registry EXCEPT ![ConvOf[r]] = Nobody]
      /\ stage' = [stage EXCEPT ![r] = "stopping"]
      /\ CancelsConsumer(r)
      /\ lease \in Leases /\ ConvOf[r] \in Holders /\ ConvOf[r] # Nobody
  <2>1. /\ Registered(r) /\ consumer[r] \in StopPhases /\ CancelsConsumer(r)
        /\ registry' = [registry EXCEPT ![ConvOf[r]] = Nobody]
        /\ stage' = [stage EXCEPT ![r] = "stopping"]
    BY DEF StopBegins, Drops
  <2>2. ReleaseInv /\ TypeOK /\ lease \in Leases
    BY DEF SlotInv, HoldInv, ReleaseInv, TypeOK
  <2>3. ConvOf[r] \in Holders /\ ConvOf[r] # Nobody
    BY DEF Holders
  <2>. QED  BY <2>1, <2>2, <2>3 DEF Orderly
<1>1. \A q \in Runners : q # r => queue'[q] = queue[q] /\ limbo'[q] = limbo[q]
  BY <1>0, CancelsCounts
<1>2. l \in Leases /\ l.waiters = lease.waiters
      /\ l.holder = IF lease.holder = ConvOf[r] THEN Nobody ELSE lease.holder
  BY <1>0, ReleasedType
<1>3. ~Parks(r)' /\ \A q \in Runners : q # r /\ Parks(q)' => Parks(q)
  BY <1>0, <1>1 DEF Parks, Registered, Alive, Orderly, TypeOK
<1>4. \A q \in Runners : limbo'[q] > 0 => stage'[q] \in {"exited", "stopping", "stopped"}
  BY <1>0, <1>1 DEF SlotInv, AllSlotted, TypeOK
<1>5. CASE consumer[r] = "none"
  <2>1. UNCHANGED <<lease, child>>
    BY <1>0, <1>5 DEF CancelsConsumer
  <2>. QED  BY <1>3, <1>4, <2>1 DEF SlotInv, AllSlotted, Awaited
<1>6. CASE consumer[r] = "drain"
  <2>1. starter[r].fresh /\ lease.holder = ConvOf[r]
    BY <1>0, <1>6 DEF SlotInv, HoldInv, ReleaseInv, DrainsAreOwn, TurnHoldsLease,
                      Registrations
  <2>2. HandsOff(l, r, "nested", child, done)
    BY <1>0, <1>6, <2>1 DEF CancelsConsumer
  <2>3. PICK loop : HandsOff(l, r, loop, child, done)
    BY <2>2
  <2>. HIDE DEF l, done
  <2>4. ASSUME NEW q \in Runners, q # r, Parks(q)'
        PROVE  Registered(q) /\ Awaited(l, child, q)
    <3>1. Parks(q) /\ lease.holder # ConvOf[q]
      BY <1>3, <2>1, <2>4 DEF Orderly
    <3>. QED  BY <1>2, <3>1 DEF SlotInv, AllSlotted, Awaited, Parks
  <2>. QED  BY <1>2, <1>3, <1>4, <2>3, <2>4, LeavesSlots
<1>. QED  BY <1>0, <1>5, <1>6

LEMMA StoppedSlots ==
    ASSUME SlotInv, Orderly, NEW r \in Runners, OpenFails(r) \/ StopEnds(r)
    PROVE  AllSlotted'
<1>. DEFINE w == WithoutWaiter(lease, ConvOf[r])
            l == Released(w, ConvOf[r])
<1>0. /\ LetsGoOfLease(r) /\ UNCHANGED <<registry, queue, limbo>>
      /\ stage[r] \in {"opening", "stopping"}
      /\ stage' = [stage EXCEPT ![r] = "stopped"]
      /\ stage \in [Runners -> Stages]
      /\ lease \in Leases /\ ConvOf[r] \in Holders
  BY DEF OpenFails, StopEnds, SlotInv, HoldInv, ReleaseInv, TypeOK, Holders
<1>1. w \in Leases /\ w.holder = lease.holder
  BY <1>0, WithoutWaiterType
<1>2. /\ l \in Leases /\ l.waiters = w.waiters
      /\ l.holder = IF lease.holder = ConvOf[r] THEN Nobody ELSE lease.holder
  BY <1>0, <1>1, ReleasedType
<1>3. PICK waker, loop : \/ HandsOff(l, waker, loop, child, consumer)
                         \/ NoHandOff(l, child, consumer)
  BY <1>0 DEF LetsGoOfLease
<1>4. ASSUME NEW q \in Runners, q # r, Parks(q)'
      PROVE  Registered(q) /\ (lease'.holder # ConvOf[q] => Awaited(l, child, q))
  <2>1. Parks(q) /\ ConvOf[q] # ConvOf[r]
    BY <1>0, <1>4 DEF Parks, Registered, Alive, Orderly
  <2>2. lease'.holder # ConvOf[q] => lease.holder # ConvOf[q]
    <3>1. Wake(l).lease.holder = l.holder
      BY <1>2, WakeType DEF SlotInv, HoldInv, ReleaseInv, TypeOK
    <3>. HIDE DEF l, w
    <3>2. lease'.holder = l.holder
      BY <1>3, <3>1 DEF HandsOff, NoHandOff
    <3>. QED  BY <1>2, <2>1, <3>2
  <2>3. ConvOf[q] \in ToSet(lease.waiters) => ConvOf[q] \in ToSet(w.waiters)
    BY <1>0, <2>1, GrantKeeps
  <2>. HIDE DEF l, w
  <2>. QED  BY <1>2, <2>1, <2>2, <2>3 DEF SlotInv, AllSlotted, Awaited, Parks
<1>5. ~Parks(r)'
  BY <1>0 DEF Parks, Alive
<1>6. \A q \in Runners : limbo'[q] > 0 => stage'[q] \in {"exited", "stopping", "stopped"}
  BY <1>0 DEF SlotInv, AllSlotted
<1>. HIDE DEF l, w
<1>. QED  BY <1>2, <1>3, <1>4, <1>5, <1>6, LeavesSlots

LEMMA RevertSlots ==
    ASSUME SlotInv, Orderly, NEW v \in Reverts, RevertStep(v)
    PROVE  AllSlotted'
<1>. DEFINE g == Grant(lease, v)
<1>0. /\ lease \in Leases /\ v \in Holders /\ v \notin Convs
      /\ g \in Leases /\ g.holder = v
      /\ Released(lease, v) \in Leases /\ Released(lease, v).waiters = lease.waiters
      /\ Released(g, v) \in Leases /\ Released(g, v).waiters = g.waiters
      /\ UNCHANGED <<registry, stage, queue, limbo>>
  BY GrantType, ReleasedType
     DEF Holders, SlotInv, HoldInv, ReleaseInv, TypeOK, RevertStep, RevertBegins,
         RevertFindsNoCheckpoint, RevertLeaves, OrphanRestoreExits
<1>1. \A c \in ToSet(lease.waiters) : c \in Convs => c \in ToSet(g.waiters)
  BY <1>0, GrantKeeps
<1>2. ASSUME MayRevert(v) PROVE lease.holder = Nobody
  BY <1>0, <1>2 DEF MayRevert, CanAcquire, SlotInv, HoldInv, ReleaseInv, LeaseHasReleaser, Calm
<1>3. \A q \in Runners : Parks(q)' <=> Parks(q)
  BY <1>0 DEF Parks, Registered, Alive
<1>4. ASSUME lease.holder \notin Convs, NEW l \in Leases,
             \A c \in ToSet(lease.waiters) : c \in Convs => c \in ToSet(l.waiters),
             \/ \E waker, loop : HandsOff(l, waker, loop, child, consumer)
             \/ NoHandOff(l, child, consumer)
      PROVE  AllSlotted'
  <2>1. ASSUME NEW q \in Runners, Parks(q) PROVE Awaited(lease, child, q)'
    <3>1. Registered(q) /\ Awaited(l, child, q)
      BY <1>4, <2>1 DEF SlotInv, AllSlotted, Awaited, Parks
    <3>2. CASE NoHandOff(l, child, consumer)
      BY <3>1, <3>2 DEF NoHandOff, Awaited
    <3>3. ASSUME NEW waker, NEW loop, HandsOff(l, waker, loop, child, consumer)
          PROVE  Awaited(lease, child, q)'
      BY <1>4, <3>1, <3>3, HandsOffAwaits DEF SlotInv
    <3>. QED  BY <1>4, <3>2, <3>3
  <2>. QED  BY <1>0, <1>3, <2>1 DEF SlotInv, AllSlotted
<1>5. CASE RevertBegins(v)
  <2>1. lease' = g /\ child' = child /\ consumer' = consumer /\ lease.holder = Nobody
    BY <1>2, <1>5 DEF RevertBegins
  <2>. HIDE DEF g
  <2>. QED  BY <1>0, <1>1, <1>4, <2>1 DEF NoHandOff
<1>6. CASE RevertFindsNoCheckpoint(v)
  <2>1. HandsOff(Released(g, v), Nobody, "own", child, consumer) /\ lease.holder = Nobody
    BY <1>2, <1>6 DEF RevertFindsNoCheckpoint
  <2>2. \E waker, loop : HandsOff(Released(g, v), waker, loop, child, consumer)
    BY <2>1
  <2>. HIDE DEF g
  <2>. QED  BY <1>0, <1>1, <1>4, <2>1, <2>2
<1>7. CASE RevertLeaves(v, "done")
  <2>1. HandsOff(Released(lease, v), Nobody, "own", child, consumer) /\ lease.holder = v
    BY <1>7 DEF RevertLeaves, SlotInv, HoldInv, Calm
  <2>2. \E waker, loop : HandsOff(Released(lease, v), waker, loop, child, consumer)
    BY <2>1
  <2>. QED  BY <1>0, <1>4, <2>1, <2>2
<1>8. ~RevertLeaves(v, "orphan") /\ ~OrphanRestoreExits(v)
  BY DEF RevertLeaves, OrphanRestoreExits, Orderly, SlotInv, HoldInv, Calm
<1>. QED  BY <1>5, <1>6, <1>7, <1>8 DEF RevertStep

LEMMA SlottedNext ==
    ASSUME Orderly, "wake" \notin StopPhases
    PROVE  StrandInv /\ [Next]_vars => Slotted'
<1>. SUFFICES ASSUME StrandInv, [Next]_vars, "disconnect" \notin Hazards PROVE AllSlotted'
  BY DEF Slotted, AllSlotted
<1>0. SlotInv
  BY DEF SlotInv, StrandInv, Slotted, AllSlotted
<1>1. ASSUME NEW r \in Runners, RunnerStep(r) PROVE AllSlotted'
  <2>1. /\ ~OlderBookkeepingDone(r) /\ ~StreamRecycles(r) /\ ~PromptBlocks(r)
        /\ ~Disconnects(r)
    BY DEF OlderBookkeepingDone, StreamRecycles, PromptBlocks, Disconnects, StrandInv,
           HoldInv, Calm, Orderly
  <2>. QED  BY <1>0, <1>1, <2>1, QuietSlots, SendSlots, PromptSentSlots, StartEndsSlots,
               BookkeepingSlots, HandOffSlots, StopSlots, StoppedSlots DEF RunnerStep
<1>2. ASSUME NEW v \in Reverts, RevertStep(v) PROVE AllSlotted'
  BY <1>0, <1>2, RevertSlots
<1>3. ~LeaseExpires
  BY DEF LeaseExpires, Orderly
<1>4. ASSUME UNCHANGED vars PROVE AllSlotted'
  BY <1>0, <1>4 DEF vars, SlotInv, AllSlotted, Parks, Registered, Alive, Awaited
<1>. QED  BY <1>1, <1>2, <1>3, <1>4 DEF Next

\* A follow-up parked at a free lease is always about to be handed over: no
\* release, failed start, stop, dequeue, put-back or ghost in the FIFO leaves
\* the lease free with a follow-up of a live conversation and nobody on the way
\* to wake it.  A disconnect may: with disconnects, the theorem is about the
\* follow-ups that have a slot.  A /stop of a consumer in its wake loop does,
\* and is excluded.
THEOREM NoneStranded ==
    ASSUME Orderly, "wake" \notin StopPhases
    PROVE  Spec => []NoStranded
<1>1. Init => StrandInv
  <2>1. Init => NoneForgotten /\ Slotted
    BY DEF Init, NoneForgotten, Waiting, Total, Slotted, Parks
  <2>. QED  BY <2>1, HoldInit, RegistrationsInit DEF StrandInv
<1>2. StrandInv /\ [Next]_vars => StrandInv'
  BY HoldNext, RegistrationsNext, ForgottenNext, SlottedNext DEF StrandInv
<1>3. StrandInv => NoStranded
  <2>. SUFFICES ASSUME StrandInv, NEW r \in Runners, Stranded(r) PROVE FALSE
    BY DEF NoStranded
  <2>1. /\ lease.holder = Nobody /\ Parks(r) /\ ConvOf[r] # Nobody
        /\ queue[r] \in Nat /\ limbo[r] \in Nat
    BY DEF Stranded, StrandInv, HoldInv, ReleaseInv, TypeOK
  <2>2. CASE ConvOf[r] \in ToSet(lease.waiters)
    <3>1. Waiting(r) /\ ~HandingOff
      BY <2>1, <2>2 DEF Waiting, Total, Parks, Stranded
    <3>. QED  BY <3>1 DEF StrandInv, NoneForgotten
  <2>3. CASE ConvOf[r] \notin ToSet(lease.waiters)
    <3>1. child[r].at # "pending" /\ "disconnect" \notin Hazards
      BY <2>3 DEF Stranded
    <3>. QED  BY <2>1, <2>3, <3>1 DEF StrandInv, Slotted, Awaited
  <2>. QED  BY <2>2, <2>3
<1>. QED  BY <1>1, <1>2, <1>3, PTL DEF Spec

-----------------------------------------------------------------------------
(* Every step is one step of WorkspaceTurns, or none.                      *)

RefInv == HoldInv /\ Registrations

-----------------------------------------------------------------------------
(* What the abstract state is, given who holds.                            *)

\* Only a registered runner's start is a drawn follow-up, and it holds.
LEMMA DrawnHolds ==
    ASSUME RefInv, NEW r \in Runners, Registered(r), Starting(r)
    PROVE  lease.holder = ConvOf[r]
BY DEF RefInv, HoldInv, TurnHoldsLease, Registrations

Viewed ==
    /\ lease.holder = Nobody => Acting = {} /\ ~Drawn
    /\ lease.holder \in Reverts => Acting = {lease.holder} /\ ~Drawn
    /\ \A r \in Runners : lease.holder = ConvOf[r] =>
          /\ Acting = IF writing[r] THEN {ConvOf[r]} ELSE {}
          /\ Drawn <=> Registered(r) /\ Starting(r) /\ starter[r].by # "send"
    /\ Parked \in [Convs -> Nat]
    /\ \A r \in Runners : Registered(r) => Parked[ConvOf[r]] = Total(r)

LEMMA Views ==
    ASSUME Orderly
    PROVE  RefInv => Viewed
<1>. SUFFICES ASSUME RefInv PROVE Viewed
  OBVIOUS
<1>1. \A q \in Runners : writing[q] => lease.holder = ConvOf[q]
  BY DEF RefInv, HoldInv, Calm, TurnHoldsLease
<1>2. \A v \in Reverts : revert[v] \in {"restoring", "orphan"} <=> lease.holder = v
  BY DEF RefInv, HoldInv, ReleaseInv, LeaseHasReleaser, Calm
<1>3. \A q \in Runners : Registered(q) /\ Starting(q) => lease.holder = ConvOf[q]
  BY DrawnHolds
<1>4. ConvOf \in [Runners -> Convs]
  OBVIOUS
<1>5. lease.holder = Nobody => Acting = {} /\ ~Drawn
  BY <1>1, <1>2, <1>3, <1>4 DEF Acting, Drawn
<1>6. lease.holder \in Reverts => Acting = {lease.holder} /\ ~Drawn
  BY <1>1, <1>2, <1>3, <1>4 DEF Acting, Drawn
<1>7. ASSUME NEW r \in Runners, lease.holder = ConvOf[r]
      PROVE  /\ Acting = IF writing[r] THEN {ConvOf[r]} ELSE {}
             /\ Drawn <=> Registered(r) /\ Starting(r) /\ starter[r].by # "send"
  <2>1. lease.holder \notin Reverts /\ \A q \in Runners : ConvOf[q] = lease.holder => q = r
    BY <1>4, <1>7 DEF Orderly
  <2>2. {v \in Reverts : revert[v] \in {"restoring", "orphan"}} = {}
    BY <1>2, <2>1
  <2>3. {q \in Runners : writing[q]} = IF writing[r] THEN {r} ELSE {}
    BY <1>1, <2>1
  <2>4. Acting = IF writing[r] THEN {ConvOf[r]} ELSE {}
    BY <2>2, <2>3 DEF Acting
  <2>5. Drawn <=> Registered(r) /\ Starting(r) /\ starter[r].by # "send"
    BY <1>3, <2>1 DEF Drawn
  <2>. QED  BY <2>4, <2>5
<1>8. /\ Parked \in [Convs -> Nat]
      /\ \A r \in Runners : Registered(r) => Parked[ConvOf[r]] = Total(r)
  BY DEF Parked, Total, Registered, RefInv, HoldInv, ReleaseInv, TypeOK
<1>. QED  BY <1>5, <1>6, <1>7, <1>8 DEF Viewed

LEMMA RefInvNext ==
    ASSUME Orderly
    PROVE  RefInv /\ [Next]_vars => Viewed /\ RefInv' /\ Viewed'
<1>1. RefInv => Viewed
  BY Views
<1>2. RefInv' => Viewed'
  BY <1>1, PTL
<1>3. RefInv /\ [Next]_vars => RefInv'
  BY HoldNext, RegistrationsNext DEF RefInv
<1>. QED  BY <1>1, <1>2, <1>3

\* Follow-ups are added to or taken from one runner's queue at a time.
LEMMA ParkedStep ==
    ASSUME RefInv, Orderly, NEW r \in Runners, registry' = registry,
           \A q \in Runners : q # r => queue'[q] = queue[q] /\ limbo'[q] = limbo[q]
    PROVE  /\ Registered(r) => Parked' = [Parked EXCEPT ![ConvOf[r]] = Total(r)']
           /\ ~Registered(r) => Parked' = Parked
<1>1. ASSUME NEW c \in Convs, registry[c] # Nobody
      PROVE  registry[c] \in Runners /\ ConvOf[registry[c]] = c
  BY <1>1 DEF RefInv, HoldInv, ReleaseInv, TypeOK, Registrations
<1>2. /\ Parked = [c \in Convs |-> IF registry[c] = Nobody THEN 0
                                  ELSE queue[registry[c]] + limbo[registry[c]]]
      /\ Parked' = [c \in Convs |-> IF registry[c] = Nobody THEN 0
                                   ELSE queue'[registry[c]] + limbo'[registry[c]]]
  BY DEF Parked
<1>3. ASSUME NEW c \in Convs, Registered(r) => c # ConvOf[r]
      PROVE  Parked'[c] = Parked[c]
  BY <1>1, <1>2, <1>3 DEF Registered
<1>4. ConvOf[r] \in Convs /\ (Registered(r) => Parked'[ConvOf[r]] = Total(r)')
  BY <1>2 DEF Registered, Total
<1>5. ASSUME Registered(r) PROVE Parked' = [Parked EXCEPT ![ConvOf[r]] = Total(r)']
  <2>1. \A c \in Convs : Parked'[c] = IF c = ConvOf[r] THEN Total(r)' ELSE Parked[c]
    BY <1>3, <1>4, <1>5
  <2>. QED  BY <1>2, <1>4, <2>1
<1>6. ASSUME ~Registered(r) PROVE Parked' = Parked
  BY <1>2, <1>3, <1>6
<1>. QED  BY <1>5, <1>6

\* A step that no one sees from outside.
LEMMA Unseen ==
    ASSUME lease'.holder = lease.holder,
           UNCHANGED <<registry, starter, queue, limbo, writing, revert>>
    PROVE  [Turns!Next]_(Turns!vars)
<1>1. Acting' = Acting /\ Parked' = Parked
  BY DEF Acting, Parked
<1>2. Drawn' = Drawn
  BY DEF Drawn, Registered, Starting
<1>. QED  BY <1>1, <1>2 DEF Turns!vars

-----------------------------------------------------------------------------
(* Each step of the detailed specification, as the step it implements.     *)

\* Where a lemma speaks of the next state, Viewed' says what it looks like.
Seen == RefInv /\ Viewed /\ RefInv' /\ Viewed'

\* A step that frees the workspace of r, whose turn is over or never began.
LEMMA FreesLetsGo ==
    ASSUME Seen, Orderly, NEW r \in Runners,
           lease.holder = ConvOf[r], lease'.holder = Nobody, ~writing[r],
           ~Registered(r) \/ ~Starting(r) \/ starter[r].by = "send",
           Parked' = Parked
    PROVE  Turns!LetsGo(ConvOf[r])
<1>1. Acting = {} /\ ~Drawn /\ Acting' = {} /\ ~Drawn'
  BY DEF Seen, Viewed
<1>2. Drawn' = Drawn
  BY <1>1 DEF Drawn
<1>. QED  BY <1>1, <1>2 DEF Turns!LetsGo

\* A start of a message that did not wait, or waited for nobody.
LEMMA StartBegins ==
    ASSUME Seen, NEW r \in Runners, NEW l \in Leases, NEW by \in StartedBy,
           lease.holder = Nobody, Starts(r, l, by),
           UNCHANGED <<registry, queue, limbo, writing, revert>>
    PROVE  Turns!Begins(ConvOf[r])
<1>1. lease'.holder = ConvOf[r]
  BY StartsType DEF Seen, RefInv, HoldInv, ReleaseInv
<1>2. Acting = {} /\ Acting' = Acting /\ Parked' = Parked
  BY DEF Seen, Viewed, Acting, Parked
<1>3. Drawn' \in BOOLEAN
  BY DEF Drawn
<1>. QED  BY <1>1, <1>2, <1>3 DEF Turns!Begins

\* A start of the oldest follow-up, at a free workspace or the runner's own.
LEMMA DrainBegins ==
    ASSUME Seen, Orderly, NEW r \in Runners, NEW l \in Leases, NEW by \in StartedBy,
           by # "send", DrainStarts(r, l, queue[r], by),
           lease.holder \in {Nobody, ConvOf[r]}, ~Starting(r), ~writing[r],
           UNCHANGED <<registry, stage, limbo, writing, revert>>
    PROVE  Turns!BeginsParked(ConvOf[r])
<1>0. /\ TypeOK /\ Starts(r, l, by) /\ queue[r] > 0 /\ Alive(r)
      /\ queue' = [queue EXCEPT ![r] = queue[r] - 1]
  BY DEF Seen, RefInv, HoldInv, ReleaseInv, DrainStarts, WouldDrain
<1>1. /\ lease'.holder = ConvOf[r] /\ starter'[r].at = "pre" /\ starter'[r].by = by
  BY <1>0, StartsType
<1>2. Registered(r) /\ Registered(r)'
  BY <1>0 DEF Seen, RefInv, Registrations, Alive, Registered
<1>3. Acting = {} /\ ~Drawn /\ Acting' = {} /\ Drawn' = TRUE
  <2>1. Acting = {} /\ ~Drawn
    BY DEF Seen, Viewed
  <2>2. Acting' = Acting
    BY DEF Acting
  <2>3. Drawn' = TRUE
    BY <1>1, <1>2 DEF Drawn, Starting
  <2>. QED  BY <2>1, <2>2, <2>3
<1>4. Parked[ConvOf[r]] = Total(r)
  BY <1>2 DEF Seen, Viewed
<1>5. Parked' = [Parked EXCEPT ![ConvOf[r]] = Parked[ConvOf[r]] - 1]
  <2>1. /\ \A q \in Runners : q # r => queue'[q] = queue[q] /\ limbo'[q] = limbo[q]
        /\ Total(r)' = Total(r) - 1
    BY <1>0 DEF TypeOK, Total
  <2>. QED  BY <1>2, <1>4, <2>1, ParkedStep DEF Seen
<1>6. Parked[ConvOf[r]] > 0
  BY <1>0, <1>4 DEF TypeOK, Total
<1>. QED  BY <1>0, <1>1, <1>3, <1>5, <1>6 DEF Turns!BeginsParked

\* A follow-up added to the queue of an open runner, which holds or waits.
LEMMA AddParks ==
    ASSUME Seen, Orderly, NEW r \in Runners, Registered(r),
           queue' = [queue EXCEPT ![r] = @ + 1], lease'.holder = lease.holder,
           UNCHANGED <<registry, limbo, starter, writing, revert>>
    PROVE  Turns!Parks(ConvOf[r])
<1>1. Acting' = Acting /\ Drawn' = Drawn
  BY DEF Acting, Drawn, Registered, Starting
<1>2. Parked[ConvOf[r]] = Total(r)
  BY DEF Seen, Viewed
<1>3. /\ \A q \in Runners : q # r => queue'[q] = queue[q] /\ limbo'[q] = limbo[q]
      /\ Total(r)' = Total(r) + 1
  BY DEF Seen, RefInv, HoldInv, ReleaseInv, TypeOK, Total
<1>4. Parked' = [Parked EXCEPT ![ConvOf[r]] = Parked[ConvOf[r]] + 1]
  BY <1>2, <1>3, ParkedStep DEF Seen
<1>. QED  BY <1>1, <1>4 DEF Turns!Parks

LEMMA ConvStep ==
    ASSUME NEW r \in Runners,
           \/ Turns!Parks(ConvOf[r]) \/ Turns!Withdraws(ConvOf[r]) \/ Turns!Begins(ConvOf[r])
           \/ Turns!BeginsParked(ConvOf[r]) \/ Turns!Prompts(ConvOf[r])
           \/ Turns!Rests(ConvOf[r]) \/ Turns!LetsGo(ConvOf[r])
           \/ Turns!GivesBack(ConvOf[r]) \/ Turns!Forgets(ConvOf[r])
    PROVE  Turns!Next
<1>1. ConvOf[r] \in Convs
  OBVIOUS
<1>. QED  BY <1>1 DEF Turns!Next

LEMMA OpenMaps ==
    ASSUME Seen, Orderly, NEW r \in Runners, OpenBegins(r) \/ OpenSucceeds(r)
    PROVE  [Turns!Next]_(Turns!vars)
<1>1. CASE OpenBegins(r)
  BY <1>1, Unseen DEF OpenBegins
<1>2. CASE OpenSucceeds(r)
  <2>0. /\ stage[r] = "opening" /\ registry' = [registry EXCEPT ![ConvOf[r]] = r]
        /\ UNCHANGED <<lease, starter, queue, limbo, writing, revert>>
        /\ TypeOK
    BY <1>2 DEF OpenSucceeds, Seen, RefInv, HoldInv, ReleaseInv
  <2>1. ~Starting(r) /\ ~Registered(r) /\ queue[r] = 0 /\ limbo[r] = 0
    BY <2>0 DEF Seen, RefInv, HoldInv, ReleaseInv, StartsAreBusy, Registrations
  <2>2. registry[ConvOf[r]] = Nobody
    BY <2>1 DEF Seen, RefInv, HoldInv, ReleaseInv, TypeOK, Registrations, Registered, Orderly
  <2>3. Parked' = Parked
    <3>1. \A c \in Convs :
             (IF registry'[c] = Nobody THEN 0 ELSE queue[registry'[c]] + limbo[registry'[c]])
               = IF registry[c] = Nobody THEN 0 ELSE queue[registry[c]] + limbo[registry[c]]
      BY <2>0, <2>1, <2>2 DEF TypeOK
    <3>. QED  BY <2>0, <3>1 DEF Parked
  <2>4. Drawn' = Drawn
    <3>1. \A q \in Runners : q # r => (Registered(q)' <=> Registered(q))
      BY <2>0 DEF Registered, TypeOK, Orderly
    <3>. QED  BY <2>0, <2>1, <3>1 DEF Drawn, Starting
  <2>5. Acting' = Acting
    BY <2>0 DEF Acting
  <2>. QED  BY <2>0, <2>3, <2>4, <2>5 DEF Turns!vars
<1>. QED  BY <1>1, <1>2

LEMMA SendMaps ==
    ASSUME Seen, Orderly, NEW r \in Runners,
           \/ SendStarts(r) \/ SendWaits(r) \/ SendQueues(r) \/ SendQueuesIdle(r)
           \/ Dequeues(r)
    PROVE  [Turns!Next]_(Turns!vars)
<1>0. /\ lease \in Leases /\ ~lease.expired /\ TypeOK
      /\ "send" \in StartedBy /\ "drain" \in StartedBy
  BY DEF Seen, RefInv, HoldInv, ReleaseInv, TypeOK, Calm, StartedBy
<1>1. CASE SendStarts(r)
  <2>1. /\ Starts(r, lease, "send") /\ MayStart(r, lease)
        /\ UNCHANGED <<registry, queue, limbo, writing, revert>>
    BY <1>1 DEF SendStarts
  <2>2. lease.holder = Nobody
    BY <1>0, <2>1, FindsFree
  <2>. QED  BY <1>0, <2>1, <2>2, StartBegins, ConvStep
<1>2. CASE SendWaits(r)
  <2>1. lease'.holder = lease.holder
    BY <1>0, <1>2, WithWaiterType DEF SendWaits
  <2>2. CASE queue[r] < MaxQueue
    <3>1. queue' = [queue EXCEPT ![r] = @ + 1] /\ Registered(r)
      BY <1>2, <2>2 DEF SendWaits, Sendable
    <3>. QED  BY <1>2, <2>1, <3>1, AddParks, ConvStep DEF SendWaits
  <2>3. CASE ~(queue[r] < MaxQueue)
    <3>1. queue' = queue
      BY <1>0, <1>2, <2>3 DEF SendWaits, TypeOK
    <3>. QED  BY <1>2, <2>1, <3>1, Unseen DEF SendWaits
  <2>. QED  BY <2>2, <2>3
<1>3. CASE SendQueues(r)
  BY <1>3, AddParks, ConvStep DEF SendQueues, Sendable
<1>4. CASE SendQueuesIdle(r)
  <2>1. CASE DrainStarts(r, lease, queue[r] + 1, "drain")
    <3>1. Starts(r, lease, "drain") /\ MayStart(r, lease)
      BY <2>1 DEF DrainStarts
    <3>2. lease.holder = Nobody
      BY <1>0, <3>1, FindsFree
    <3>3. queue' = queue
      BY <1>0, <2>1 DEF DrainStarts, TypeOK
    <3>. QED  BY <1>0, <1>4, <3>1, <3>2, <3>3, StartBegins, ConvStep DEF SendQueuesIdle
  <2>2. CASE /\ lease' = AfterDecline(r, lease, queue[r] + 1)
             /\ queue' = [queue EXCEPT ![r] = @ + 1]
             /\ UNCHANGED <<busy, starter>>
    <3>1. lease'.holder = lease.holder
      BY <1>0, <2>2, AfterDeclineType
    <3>. QED  BY <1>4, <2>2, <3>1, AddParks, ConvStep DEF SendQueuesIdle, Sendable
  <2>. QED  BY <1>4, <2>1, <2>2 DEF SendQueuesIdle
<1>5. CASE Dequeues(r)
  <2>1. Registered(r) /\ queue[r] > 0 /\ Parked[ConvOf[r]] = Total(r)
    BY <1>5 DEF Dequeues, Seen, Viewed
  <2>2. Acting' = Acting /\ Drawn' = Drawn /\ lease' = lease
    BY <1>5 DEF Dequeues, Acting, Drawn, Registered, Starting
  <2>3. /\ \A q \in Runners : q # r => queue'[q] = queue[q] /\ limbo'[q] = limbo[q]
        /\ Total(r)' = Total(r) - 1 /\ Total(r) > 0
        /\ registry' = registry
    BY <1>0, <1>5 DEF Dequeues, TypeOK, Total
  <2>4. Parked' = [Parked EXCEPT ![ConvOf[r]] = Parked[ConvOf[r]] - 1]
    BY <2>1, <2>3, ParkedStep DEF Seen
  <2>5. Turns!Withdraws(ConvOf[r])
    BY <2>1, <2>2, <2>3, <2>4 DEF Turns!Withdraws
  <2>. QED  BY <2>5, ConvStep
<1>. QED  BY <1>1, <1>2, <1>3, <1>4, <1>5

LEMMA PromptMaps ==
    ASSUME Seen, Orderly, NEW r \in Runners, PromptSent(r)
    PROVE  [Turns!Next]_(Turns!vars)
<1>1. /\ Starting(r) /\ stage[r] \in {"up", "exited"}
      /\ starter' = [starter EXCEPT ![r] = NoStarter]
      /\ UNCHANGED <<registry, queue, limbo>> /\ lease'.holder = lease.holder
  BY PromptSentEffect DEF Seen, RefInv, HoldInv
<1>2. lease.holder = ConvOf[r] /\ ~writing[r] /\ ~Starting(r)'
  BY <1>1 DEF Seen, RefInv, HoldInv, TurnHoldsLease, Calm, Starting, NoStarter, ReleaseInv,
              TypeOK
<1>3. Acting = {} /\ Acting' \in {{}, {ConvOf[r]}} /\ ~Drawn'
  BY <1>1, <1>2 DEF Seen, Viewed
<1>4. Drawn' = FALSE /\ Parked' = Parked
  BY <1>1, <1>3 DEF Drawn, Parked
<1>5. Turns!Prompts(ConvOf[r])
  BY <1>1, <1>2, <1>3, <1>4 DEF Turns!Prompts
<1>. QED  BY <1>5, ConvStep

\* A drained start that fails gives its follow-up back, unless its runner was
\* stopped meanwhile and its queue forgotten.
LEMMA StartEndsMaps ==
    ASSUME Seen, Orderly, NEW r \in Runners, PromptFails(r) \/ Disconnects(r)
    PROVE  [Turns!Next]_(Turns!vars)
<1>. DEFINE freed == starter[r].fresh /\ lease.holder = ConvOf[r]
<1>0. ReleaseInv /\ starter[r].at # "sending"
  BY DEF Seen, RefInv, HoldInv, Calm
<1>1. /\ Starting(r) /\ StartEnds(r) /\ UNCHANGED <<registry, revert>>
      /\ writing' = writing
  <2>1. CASE PromptFails(r)
    BY <2>1 DEF PromptFails
  <2>2. CASE Disconnects(r)
    BY <1>0, <2>2 DEF Disconnects, ReleaseInv, TypeOK
  <2>. QED  BY <2>1, <2>2
<1>2. /\ lease'.holder = IF freed THEN Nobody ELSE lease.holder
      /\ starter' = [starter EXCEPT ![r] = NoStarter]
  BY <1>0, <1>1, StartEndsEffect
<1>3. /\ Total(r)' = IF starter[r].by = "send" THEN Total(r) ELSE Total(r) + 1
      /\ \A q \in Runners : q # r => queue'[q] = queue[q] /\ limbo'[q] = limbo[q]
  <2>1. CASE starter[r].by = "send"
    <3>1. UNCHANGED <<queue, limbo>>
      BY <1>1, <2>1 DEF StartEnds
    <3>. QED  BY <2>1, <3>1 DEF Total
  <2>2. CASE starter[r].by # "send"
    <3>1. PICK later : Returns(r, later)
      BY <1>1, <2>2 DEF StartEnds
    <3>. QED  BY <1>0, <2>2, <3>1, ReturnsCounts DEF ReleaseInv
  <2>. QED  BY <2>1, <2>2
<1>4. /\ ~Starting(r)'
      /\ \A q \in Runners : q # r => starter'[q] = starter[q]
  BY <1>0, <1>2 DEF ReleaseInv, TypeOK, Starting, NoStarter
<1>5. Registered(r) => freed
  <2>1. Registered(r) => stage[r] \in {"up", "exited"}
    BY DEF Seen, RefInv, Registrations
  <2>. QED  BY <1>1, <2>1 DEF Seen, RefInv, HoldInv, TurnHoldsLease
<1>6. /\ Registered(r) => Parked' = [Parked EXCEPT ![ConvOf[r]] = Total(r)']
      /\ ~Registered(r) => Parked' = Parked
  BY <1>1, <1>3, ParkedStep DEF Seen
<1>7. freed => ~writing[r]
  BY <1>1 DEF Seen, RefInv, HoldInv, Calm
<1>8. CASE freed /\ (~Registered(r) \/ starter[r].by = "send")
  <2>1. Parked' = Parked
    <3>1. ASSUME Registered(r) PROVE Parked' = Parked
      <4>1. /\ Total(r)' = Parked[ConvOf[r]]
            /\ Parked \in [Convs -> Nat] /\ Parked' \in [Convs -> Nat]
        BY <1>3, <1>8, <3>1 DEF Seen, Viewed
      <4>2. \A c \in Convs : Parked'[c] = Parked[c]
        BY <1>6, <3>1, <4>1
      <4>. QED  BY <4>1, <4>2
    <3>. QED  BY <1>6, <3>1
  <2>2. Turns!LetsGo(ConvOf[r])
    BY <1>2, <1>7, <1>8, <2>1, FreesLetsGo
  <2>. QED  BY <2>2, ConvStep
<1>9. CASE freed /\ Registered(r) /\ starter[r].by # "send"
  <2>1. Acting = {} /\ Drawn /\ Acting' = {} /\ ~Drawn' /\ Parked[ConvOf[r]] = Total(r)
    BY <1>1, <1>2, <1>7, <1>9 DEF Seen, Viewed
  <2>2. Drawn' = FALSE
    BY <2>1 DEF Drawn
  <2>3. Parked' = [Parked EXCEPT ![ConvOf[r]] = Parked[ConvOf[r]] + 1]
    BY <1>3, <1>6, <1>9, <2>1
  <2>4. Turns!GivesBack(ConvOf[r])
    BY <1>2, <1>9, <2>1, <2>2, <2>3 DEF Turns!GivesBack
  <2>. QED  BY <2>4, ConvStep
<1>10. CASE ~freed
  <2>1. lease'.holder = lease.holder /\ ~Registered(r)
    BY <1>2, <1>5, <1>10
  <2>2. Drawn' = Drawn
    BY <1>1, <1>4, <2>1 DEF Drawn, Registered, Starting
  <2>3. Acting' = Acting /\ Parked' = Parked
    BY <1>1, <1>6, <2>1 DEF Acting
  <2>. QED  BY <2>1, <2>2, <2>3 DEF Turns!vars
<1>. QED  BY <1>5, <1>8, <1>9, <1>10

\* A follow-up on its way back was parked already.
LEMMA PutsBackMaps ==
    ASSUME Seen, NEW r \in Runners, PutsBack(r)
    PROVE  [Turns!Next]_(Turns!vars)
<1>1. /\ \A q \in Runners : queue'[q] + limbo'[q] = queue[q] + limbo[q]
      /\ UNCHANGED <<lease, registry, starter, writing, revert>>
  BY DEF PutsBack, Seen, RefInv, HoldInv, ReleaseInv, TypeOK
<1>2. \A c \in Convs : registry[c] # Nobody => registry[c] \in Runners
  BY DEF Seen, RefInv, HoldInv, ReleaseInv, TypeOK
<1>3. Parked' = Parked
  BY <1>1, <1>2 DEF Parked
<1>4. Acting' = Acting /\ Drawn' = Drawn
  BY <1>1 DEF Acting, Drawn, Registered, Starting
<1>. QED  BY <1>1, <1>3, <1>4 DEF Turns!vars

\* An agent at rest, or gone.
LEMMA RestMaps ==
    ASSUME Seen, Orderly, NEW r \in Runners,
           AgentExits(r) \/ TurnEnds(r) \/ AgentFallsSilent(r)
    PROVE  [Turns!Next]_(Turns!vars)
<1>1. /\ writing' = [writing EXCEPT ![r] = FALSE] /\ writing \in [Runners -> BOOLEAN]
      /\ UNCHANGED <<lease, registry, starter, queue, limbo, revert>>
  BY DEF AgentExits, TurnEnds, AgentFallsSilent, Seen, RefInv, HoldInv, ReleaseInv, TypeOK
<1>2. CASE ~writing[r]
  <2>1. writing' = writing
    BY <1>1, <1>2
  <2>. QED  BY <1>1, <2>1, Unseen
<1>3. CASE writing[r]
  <2>1. lease.holder = ConvOf[r] /\ lease'.holder = ConvOf[r] /\ ~writing'[r]
    BY <1>1, <1>3 DEF Seen, RefInv, HoldInv, TurnHoldsLease, Calm
  <2>2. Acting = {ConvOf[r]} /\ Acting' = {}
    BY <1>3, <2>1 DEF Seen, Viewed
  <2>3. Parked' = Parked /\ Drawn' = Drawn
    BY <1>1 DEF Parked, Drawn, Registered, Starting
  <2>4. Turns!Rests(ConvOf[r])
    BY <1>1, <2>2, <2>3 DEF Turns!Rests
  <2>. QED  BY <2>4, ConvStep
<1>. QED  BY <1>2, <1>3

\* The turn's bookkeeping goes straight on to the runner's next follow-up, or
\* frees the workspace.
LEMMA BookkeepingMaps ==
    ASSUME Seen, Orderly, NEW r \in Runners, BookkeepingDone(r)
    PROVE  [Turns!Next]_(Turns!vars)
<1>. DEFINE l == Released(lease, ConvOf[r])
            d == AfterDecline(r, l, queue[r])
<1>0. /\ consumer[r] = "post" /\ lease.holder = ConvOf[r]
      /\ ~Starting(r) /\ ~writing[r]
      /\ lease \in Leases /\ ConvOf[r] \in Holders
      /\ registry \in [Convs -> Runners \cup {Nobody}]
      /\ child \in [Runners -> Children] /\ consumer \in [Runners -> ConsumerPhases]
      /\ "own" \in Loops /\ "consumer" \in StartedBy
      /\ UNCHANGED <<registry, stage, limbo, writing, revert>>
  BY DEF BookkeepingDone, Seen, RefInv, HoldInv, TurnHoldsLease, Calm, ReleaseInv, TypeOK,
         Holders, Loops, StartedBy
<1>1. l \in Leases /\ l.holder = Nobody
  BY <1>0, ReleasedType
<1>2. d \in Leases /\ d.holder = Nobody
  BY <1>1, AfterDeclineType
<1>3. CASE DrainStarts(r, l, queue[r], "consumer")
  <2>. HIDE DEF l
  <2>1. Turns!BeginsParked(ConvOf[r])
    BY <1>0, <1>1, <1>3, DrainBegins
  <2>. QED  BY <2>1, ConvStep
<1>4. CASE /\ HandsOff(d, r, "own", child, consumer)
           /\ UNCHANGED <<queue, busy, starter>>
  <2>. HIDE DEF d
  <2>1. lease'.holder = Nobody
    BY <1>0, <1>2, <1>4, HandsOffType
  <2>2. Parked' = Parked
    BY <1>0, <1>4 DEF Parked
  <2>3. Turns!LetsGo(ConvOf[r])
    BY <1>0, <2>1, <2>2, FreesLetsGo
  <2>. QED  BY <2>3, ConvStep
<1>. QED  BY <1>3, <1>4 DEF BookkeepingDone, Closes

\* A woken runner draws its oldest follow-up, or the task passes on the wake-up.
LEMMA HandOffMaps ==
    ASSUME Seen, Orderly, NEW r \in Runners, HandOffRuns(r)
    PROVE  [Turns!Next]_(Turns!vars)
<1>. DEFINE me == child[r]
            others == [child EXCEPT ![r] = NoChild]
            d == AfterDecline(r, lease, queue[r])
<1>0. /\ lease \in Leases /\ ~lease.expired /\ "task" \in StartedBy
      /\ registry \in [Convs -> Runners \cup {Nobody}]
      /\ child \in [Runners -> Children] /\ consumer \in [Runners -> ConsumerPhases]
      /\ me \in Children /\ NoChild \in Children
      /\ UNCHANGED <<registry, stage, limbo, writing, revert>>
  BY DEF HandOffRuns, Seen, RefInv, HoldInv, Calm, ReleaseInv, TypeOK, StartedBy, NoChild,
         Children, Loops
<1>1. CASE DrainStarts(r, lease, queue[r], "task")
  <2>1. lease.holder = Nobody
    BY <1>0, <1>1, FindsFree DEF DrainStarts
  <2>2. ~Starting(r) /\ ~writing[r]
    <3>1. Alive(r) /\ ~busy[r]
      BY <1>1 DEF DrainStarts, WouldDrain
    <3>. QED  BY <3>1, <2>1, IdleRunner DEF Seen, RefInv, HoldInv, Calm
  <2>3. Turns!BeginsParked(ConvOf[r])
    BY <1>0, <1>1, <2>1, <2>2, DrainBegins
  <2>. QED  BY <2>3, ConvStep
<1>2. CASE /\ \/ HandsOff(d, me.waker, me.loop, others, consumer)
              \/ NoHandOff(d, others, consumer)
           /\ UNCHANGED <<queue, busy, starter>>
  <2>1. d \in Leases /\ d.holder = lease.holder
    BY <1>0, AfterDeclineType
  <2>2. /\ me.waker \in Runners \cup {Nobody} /\ me.loop \in Loops
        /\ others \in [Runners -> Children]
    BY <1>0 DEF Children
  <2>. HIDE DEF d, others, me
  <2>3. lease'.holder = lease.holder
    <3>1. CASE HandsOff(d, me.waker, me.loop, others, consumer)
      BY <1>0, <2>1, <2>2, <3>1, HandsOffType
    <3>2. CASE NoHandOff(d, others, consumer)
      BY <2>1, <3>2 DEF NoHandOff
    <3>. QED  BY <1>2, <3>1, <3>2
  <2>. QED  BY <1>0, <1>2, <2>3, Unseen
<1>. QED  BY <1>1, <1>2 DEF HandOffRuns

\* stop() drops the conversation, its follow-ups and any start of them.
LEMMA StopMaps ==
    ASSUME Seen, Orderly, NEW r \in Runners, StopBegins(r)
    PROVE  [Turns!Next]_(Turns!vars)
<1>0. /\ ReleaseInv /\ CancelsConsumer(r) /\ Registered(r) /\ consumer[r] # "run"
      /\ registry' = [registry EXCEPT ![ConvOf[r]] = Nobody]
      /\ writing' = [writing EXCEPT
            ![r] = @ \/ (starter[r].at = "sending" /\ consumer[r] = "drain")]
      /\ revert' = revert /\ ConvOf[r] \in Convs
  BY DEF StopBegins, Drops, Seen, RefInv, HoldInv, Orderly
<1>1. /\ lease'.holder = lease.holder \/ (lease'.holder = Nobody /\ lease.holder = ConvOf[r])
      /\ \A q \in Runners : q # r => /\ starter'[q] = starter[q]
                                    /\ queue'[q] = queue[q] /\ limbo'[q] = limbo[q]
  BY <1>0, CancelsEffect, CancelsCounts DEF ReleaseInv
<1>2. ~Registered(r)' /\ \A q \in Runners : q # r => (Registered(q)' <=> Registered(q))
  BY <1>0 DEF Registered, ReleaseInv, TypeOK, Orderly
<1>3. writing' = writing /\ ~writing[r]
  BY <1>0 DEF ReleaseInv, TypeOK, Seen, RefInv, HoldInv, Calm
<1>4. Acting' = Acting /\ ConvOf[r] \notin Acting
  <2>1. Acting' = Acting
    BY <1>0, <1>3 DEF Acting
  <2>2. \A q \in Runners : writing[q] => ConvOf[q] # ConvOf[r]
    BY <1>3 DEF Orderly
  <2>. QED  BY <1>0, <2>1, <2>2 DEF Acting
<1>5. Parked' = [Parked EXCEPT ![ConvOf[r]] = 0]
  <2>1. ASSUME NEW c \in Convs, c # ConvOf[r] PROVE Parked'[c] = Parked[c]
    <3>1. registry'[c] = registry[c]
      BY <1>0, <2>1 DEF ReleaseInv, TypeOK
    <3>2. registry[c] # Nobody => registry[c] \in Runners /\ registry[c] # r
      BY <2>1 DEF Seen, RefInv, HoldInv, ReleaseInv, TypeOK, Registrations
    <3>. QED  BY <1>1, <3>1, <3>2 DEF Parked
  <2>2. Parked'[ConvOf[r]] = 0
    BY <1>0 DEF Parked, ReleaseInv, TypeOK
  <2>3. Parked \in [Convs -> Nat] /\ Parked' \in [Convs -> Nat]
    BY DEF Seen, Viewed
  <2>. QED  BY <2>1, <2>2, <2>3
<1>6. lease.holder = ConvOf[r] => Drawn' = FALSE
  <2>1. lease.holder = ConvOf[r] => ~Drawn'
    BY <1>1, <1>2 DEF Seen, Viewed
  <2>. QED  BY <2>1 DEF Drawn
<1>7. lease.holder # ConvOf[r] => Drawn' = Drawn
  <2>1. lease.holder # ConvOf[r] => ~Starting(r)
    BY <1>0, DrawnHolds DEF Seen
  <2>. QED  BY <1>1, <1>2, <2>1 DEF Drawn, Starting
<1>8. Turns!Forgets(ConvOf[r])
  BY <1>1, <1>4, <1>5, <1>6, <1>7 DEF Turns!Forgets
<1>. QED  BY <1>8, ConvStep

LEMMA StoppedMaps ==
    ASSUME Seen, Orderly, NEW r \in Runners, OpenFails(r) \/ StopEnds(r)
    PROVE  [Turns!Next]_(Turns!vars)
<1>0. /\ ReleaseInv /\ LetsGoOfLease(r) /\ ~Registered(r) /\ ~writing[r]
      /\ UNCHANGED <<registry, queue, limbo, starter, writing, revert>>
  <2>1. stage[r] \in {"opening", "stopping"} /\ consumer[r] # "run"
    BY DEF OpenFails, StopEnds, Seen, RefInv, HoldInv, Calm
  <2>2. ~Registered(r) /\ ~writing[r]
    BY <2>1 DEF Seen, RefInv, HoldInv, Calm, Registrations
  <2>. QED  BY <2>2 DEF OpenFails, StopEnds, Seen, RefInv, HoldInv, ReleaseInv, TypeOK
<1>1. lease'.holder = IF lease.holder = ConvOf[r] THEN Nobody ELSE lease.holder
  BY <1>0, LetsGoEffect
<1>2. CASE lease.holder # ConvOf[r]
  BY <1>0, <1>1, <1>2, Unseen
<1>3. CASE lease.holder = ConvOf[r]
  <2>1. Parked' = Parked
    BY <1>0 DEF Parked
  <2>2. Turns!LetsGo(ConvOf[r])
    BY <1>0, <1>1, <1>3, <2>1, FreesLetsGo
  <2>. QED  BY <2>2, ConvStep
<1>. QED  BY <1>2, <1>3

LEMMA RevertMaps ==
    ASSUME Seen, Orderly, NEW v \in Reverts, RevertStep(v)
    PROVE  [Turns!Next]_(Turns!vars)
<1>0. /\ v \in Holders /\ v # Nobody /\ lease \in Leases /\ ~lease.expired
      /\ Grant(lease, v) \in Leases /\ Grant(lease, v).holder = v
      /\ registry \in [Convs -> Runners \cup {Nobody}]
      /\ child \in [Runners -> Children] /\ consumer \in [Runners -> ConsumerPhases]
      /\ "own" \in Loops /\ revert \in [Reverts -> {"idle", "restoring", "orphan", "done"}]
  BY GrantType DEF Holders, Loops, Seen, RefInv, HoldInv, ReleaseInv, TypeOK, Calm
<1>1. ASSUME NEW l \in Leases, l.holder = Nobody,
             HandsOff(l, Nobody, "own", child, consumer)
      PROVE  lease'.holder = Nobody
  BY <1>0, <1>1, HandsOffType
<1>2. ASSUME MayRevert(v) PROVE lease.holder = Nobody /\ revert[v] = "idle"
  BY <1>0, <1>2 DEF MayRevert, CanAcquire, Seen, RefInv, HoldInv, ReleaseInv, LeaseHasReleaser
\* With nobody or a restore holding, no follow-up is drawn.
<1>3. ASSUME lease.holder \in {Nobody, v}, lease'.holder \in {Nobody, v},
             UNCHANGED <<registry, queue, limbo>>
      PROVE  Drawn' = Drawn /\ Parked' = Parked
  <2>1. ~Drawn /\ ~Drawn'
    BY <1>3 DEF Seen, Viewed
  <2>. QED  BY <1>3, <2>1 DEF Drawn, Parked
<1>4. CASE RevertBegins(v)
  <2>1. lease.holder = Nobody /\ lease'.holder = v
    BY <1>0, <1>2, <1>4 DEF RevertBegins
  <2>2. Acting = {} /\ Acting' = {v}
    BY <2>1 DEF Seen, Viewed
  <2>3. Drawn' = Drawn /\ Parked' = Parked
    BY <1>3, <1>4, <2>1 DEF RevertBegins
  <2>. QED  BY <2>1, <2>2, <2>3 DEF Turns!RestoreBegins, Turns!Next
<1>5. CASE RevertFindsNoCheckpoint(v)
  <2>. DEFINE l == Released(Grant(lease, v), v)
  <2>1. l \in Leases /\ l.holder = Nobody
    BY <1>0, ReleasedType
  <2>. HIDE DEF l
  <2>2. HandsOff(l, Nobody, "own", child, consumer) /\ MayRevert(v)
    BY <1>5 DEF RevertFindsNoCheckpoint, l
  <2>3. lease.holder = Nobody /\ lease'.holder = Nobody
    BY <1>1, <1>2, <2>1, <2>2
  <2>4. Drawn' = Drawn /\ Parked' = Parked
    BY <1>3, <1>5, <2>3 DEF RevertFindsNoCheckpoint
  <2>5. Acting = {} /\ Acting' = {}
    BY <2>3 DEF Seen, Viewed
  <2>. QED  BY <2>3, <2>4, <2>5 DEF Turns!vars
<1>6. CASE RevertLeaves(v, "done")
  <2>. DEFINE l == Released(lease, v)
  <2>1. lease.holder = v
    BY <1>6 DEF RevertLeaves, Seen, RefInv, HoldInv, Calm
  <2>2. l \in Leases /\ l.holder = Nobody
    BY <1>0, <2>1, ReleasedType
  <2>. HIDE DEF l
  <2>3. HandsOff(l, Nobody, "own", child, consumer)
    BY <1>6, <2>1 DEF RevertLeaves, l
  <2>4. lease'.holder = Nobody
    BY <1>1, <2>2, <2>3
  <2>5. Drawn' = Drawn /\ Parked' = Parked
    BY <1>3, <1>6, <2>1, <2>4 DEF RevertLeaves
  <2>6. Acting' = {}
    BY <2>4 DEF Seen, Viewed
  <2>. QED  BY <2>1, <2>4, <2>5, <2>6 DEF Turns!RestoreEnds, Turns!Next
<1>7. ~RevertLeaves(v, "orphan") /\ ~OrphanRestoreExits(v)
  BY DEF RevertLeaves, OrphanRestoreExits, Orderly, Seen, RefInv, HoldInv, Calm
<1>. QED  BY <1>4, <1>5, <1>6, <1>7 DEF RevertStep

-----------------------------------------------------------------------------
(* The refinement.                                                         *)

LEMMA InitMaps == Init => Turns!Init
<1>. SUFFICES ASSUME Init PROVE Turns!Init
  OBVIOUS
<1>1. lease.holder = Nobody /\ Acting = {} /\ Parked = [c \in Convs |-> 0]
  BY DEF Init, FreeLease, Acting, Parked
<1>2. Drawn = FALSE
  BY DEF Init, Drawn, Starting, NoStarter
<1>. QED  BY <1>1, <1>2 DEF Turns!Init

LEMMA NextMaps ==
    ASSUME Orderly
    PROVE  RefInv /\ [Next]_vars => [Turns!Next]_(Turns!vars)
<1>. SUFFICES ASSUME RefInv, [Next]_vars PROVE [Turns!Next]_(Turns!vars)
  OBVIOUS
<1>0. Seen
  BY RefInvNext, Views DEF Seen
<1>1. ASSUME NEW r \in Runners, RunnerStep(r) PROVE [Turns!Next]_(Turns!vars)
  <2>1. ~PromptBlocks(r) /\ ~OlderBookkeepingDone(r) /\ ~StreamRecycles(r)
    BY DEF PromptBlocks, OlderBookkeepingDone, StreamRecycles, RefInv, HoldInv, Calm, Orderly
  <2>2. CASE OpenBegins(r) \/ OpenSucceeds(r)
    BY <1>0, <2>2, OpenMaps
  <2>3. CASE \/ SendStarts(r) \/ SendWaits(r) \/ SendQueues(r) \/ SendQueuesIdle(r)
             \/ Dequeues(r)
    BY <1>0, <2>3, SendMaps
  <2>4. CASE PromptSent(r)
    BY <1>0, <2>4, PromptMaps
  <2>5. CASE PromptFails(r) \/ Disconnects(r)
    BY <1>0, <2>5, StartEndsMaps
  <2>6. CASE AgentExits(r) \/ TurnEnds(r) \/ AgentFallsSilent(r)
    BY <1>0, <2>6, RestMaps
  <2>7. CASE BookkeepingDone(r)
    BY <1>0, <2>7, BookkeepingMaps
  <2>8. CASE HandOffRuns(r)
    BY <1>0, <2>8, HandOffMaps
  <2>9. CASE StopBegins(r)
    BY <1>0, <2>9, StopMaps
  <2>10. CASE OpenFails(r) \/ StopEnds(r)
    BY <1>0, <2>10, StoppedMaps
  <2>11. CASE PutsBack(r)
    BY <1>0, <2>11, PutsBackMaps
  <2>. QED  BY <1>1, <2>1, <2>2, <2>3, <2>4, <2>5, <2>6, <2>7, <2>8, <2>9, <2>10, <2>11
            DEF RunnerStep
<1>2. ASSUME NEW v \in Reverts, RevertStep(v) PROVE [Turns!Next]_(Turns!vars)
  BY <1>0, <1>2, RevertMaps
<1>3. ~LeaseExpires
  BY DEF LeaseExpires, Orderly
<1>4. ASSUME UNCHANGED vars PROVE [Turns!Next]_(Turns!vars)
  BY <1>4, Unseen DEF vars
<1>. QED  BY <1>1, <1>2, <1>3, <1>4 DEF Next

\* Whatever order sends, hand-offs, failed starts, disconnects, exits, stops and
\* restores come in, an orderly workspace does only what WorkspaceTurns allows:
\* no two owners, nobody acts who does not own, no follow-up is lost while its
\* conversation stays open, and none is begun twice.
THEOREM TurnsImplemented ==
    ASSUME Orderly
    PROVE  Spec => OneTurnAtATime
<1>1. Init => RefInv
  BY HoldInit, RegistrationsInit DEF RefInv
<1>2. RefInv /\ [Next]_vars => RefInv'
  BY RefInvNext
<1>3. Init => Turns!Init
  BY InitMaps
<1>4. RefInv /\ [Next]_vars => [Turns!Next]_(Turns!vars)
  BY NextMaps
<1>. QED  BY <1>1, <1>2, <1>3, <1>4, PTL DEF Spec, OneTurnAtATime, Turns!Spec

=============================================================================
