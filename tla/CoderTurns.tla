----------------------------- MODULE CoderTurns -----------------------------
(***************************************************************************)
(* Coder conversations of one workspace and the write-lease that is to     *)
(* serialize them: coder_runner.py over wire_runner.py, the /open, /send,  *)
(* /queue, /stop and /revert handlers of routes_coder.py, and              *)
(* workspace_lease.py.                                                     *)
(*                                                                         *)
(* Everything runs on one asyncio loop, so an action is the code between   *)
(* two awaits that really suspend: the pre- and post-turn git checkpoint,  *)
(* a prompt the agent's pipe cannot take at once, the wait for the turn's  *)
(* end, the hand-off task behind asyncio.shield, a revert's git commands   *)
(* and the child's termination in stop().                                  *)
(***************************************************************************)
EXTENDS WriteLease, FiniteSets, FiniteSetsExt

CONSTANTS
    Runners,        \* CoderRunner instances, each spawned at most once
    ConvOf,         \* the conversation_id of each runner
    MaxQueue,       \* coder_max_queue_depth
    MaxConvs,       \* coder_max_conversations
    MaxSends,       \* bound: /send requests that add work
    MaxOlder,       \* bound: superseded consumers still in bookkeeping
    StopPhases,     \* scope: consumer phases in which a /stop may arrive
    Hazards         \* scope: which of AllHazards the environment produces

AllHazards ==
    {"rejoin", "recycle", "expiry", "disconnect", "slow_pipe", "abandoned_revert"}
ConsumerPhases == {"none", "run", "post", "drain", "wake"}

ASSUME CoderTurnsAssumption ==
    /\ ConvOf \in [Runners -> Convs]
    /\ Nobody \notin Runners
    /\ MaxQueue \in Nat /\ MaxConvs \in Nat /\ MaxSends \in Nat /\ MaxOlder \in Nat
    /\ StopPhases \subseteq ConsumerPhases
    /\ Hazards \subseteq AllHazards

VARIABLES
    lease,      \* the WriteLease of the workspace
    registry,   \* _conversations: conversation id -> runner
    stage,      \* the runner's process and stop(), "up" being `alive`
    busy,       \* _current.status == "running"
    queue,      \* number of follow-ups in _queue
    limbo,      \* follow-ups a failed start_turn still has to put back
    starter,    \* the start_turn in flight on the runner, if any
    consumer,   \* where the newest consumer task (self._consumer) is
    older,      \* consumers of earlier turns still in their bookkeeping
    child,      \* the shielded hand-off task that drains the runner, if any
    writing,    \* the agent process is acting on a prompt
    failed,     \* a turn's stream is owed the drop of a failed turn
    revert,     \* the /revert requests
    sends       \* /send requests so far, up to MaxSends

vars == <<lease, registry, stage, busy, queue, limbo, starter, consumer,
          older, child, writing, failed, revert, sends>>

Stages == {"new", "opening", "up", "exited", "stopping", "stopped"}
StartedBy == {"send", "drain", "consumer", "older", "task"}
Starters == [at : {"none", "pre", "sending"}, by : StartedBy, fresh : BOOLEAN]
Loops == {"own", "nested", "off"}
Children == [at : {"none", "pending", "driving"},
             waker : Runners \cup {Nobody}, loop : Loops]

NoStarter == [at |-> "none", by |-> "send", fresh |-> FALSE]
NoChild == [at |-> "none", waker |-> Nobody, loop |-> "off"]

TypeOK ==
    /\ lease \in Leases
    /\ registry \in [Convs -> Runners \cup {Nobody}]
    /\ stage \in [Runners -> Stages]
    /\ busy \in [Runners -> BOOLEAN]
    /\ queue \in [Runners -> Nat]
    /\ limbo \in [Runners -> Nat]
    /\ starter \in [Runners -> Starters]
    /\ consumer \in [Runners -> ConsumerPhases]
    /\ older \in [Runners -> Nat]
    /\ child \in [Runners -> Children]
    /\ writing \in [Runners -> BOOLEAN]
    /\ failed \in [Runners -> BOOLEAN]
    /\ revert \in [Reverts -> {"idle", "restoring", "orphan", "done"}]
    /\ sends \in 0..MaxSends

Init ==
    /\ lease = FreeLease
    /\ registry = [c \in Convs |-> Nobody]
    /\ stage = [r \in Runners |-> "new"]
    /\ busy = [r \in Runners |-> FALSE]
    /\ queue = [r \in Runners |-> 0]
    /\ limbo = [r \in Runners |-> 0]
    /\ starter = [r \in Runners |-> NoStarter]
    /\ consumer = [r \in Runners |-> "none"]
    /\ older = [r \in Runners |-> 0]
    /\ child = [r \in Runners |-> NoChild]
    /\ writing = [r \in Runners |-> FALSE]
    /\ failed = [r \in Runners |-> FALSE]
    /\ revert = [v \in Reverts |-> "idle"]
    /\ sends = 0

Alive(r) == stage[r] = "up"
Registered(r) == registry[ConvOf[r]] = r
Starting(r) == starter[r].at # "none"

\* A hand-off task is in the loop's ready queue, ahead of every completion of
\* I/O that the next select() reports; only a request whose handler became
\* ready in the same round can still run before it.
Settled == \A t \in Runners : child[t].at # "pending"

-----------------------------------------------------------------------------
(* wake_workspace_waiters, up to its next suspension.                      *)

\* Seeded fault: one pop per wake-up, which a ghost at the head consumes.
WakeOnce(l) ==
    CASE l.holder # Nobody \/ l.waiters = << >> -> [lease |-> l, to |-> Nobody]
      [] OTHER -> [lease |-> [l EXCEPT !.waiters = Tail(@)],
                   to |-> registry[Head(l.waiters)]]

\* Ghosts at the head of the FIFO are dropped; the first waiter that still
\* has a runner is popped too and gets a task of its own.
Wake(l) ==
    LET live == {i \in DOMAIN l.waiters : registry[l.waiters[i]] # Nobody}
        i == Min(live)
    IN  CASE l.holder # Nobody -> [lease |-> l, to |-> Nobody]
          [] l.holder = Nobody /\ live = {} ->
                [lease |-> [l EXCEPT !.waiters = << >>], to |-> Nobody]
          [] OTHER ->
                [lease |-> [l EXCEPT !.waiters = SubSeq(@, i + 1, Len(@))],
                 to |-> registry[l.waiters[i]]]

\* waker: the runner whose newest consumer awaits the outcome and loops, or
\* Nobody when no stop() can reach the loop.  The waker's consumer is done
\* once the loop finds no one left to wake.
HandsOff(l, waker, loop, children, consumers) ==
    LET k == Wake(l)
    IN  /\ lease' = k.lease
        /\ child' = [t \in Runners |->
              IF t = k.to THEN [at |-> "pending", waker |-> waker, loop |-> loop]
                          ELSE children[t]]
        /\ consumer' = [q \in Runners |->
              IF q # waker THEN consumers[q]
              ELSE IF k.to = Nobody THEN "none" ELSE "wake"]

\* The wake loop ends without looking at the lease again.
NoHandOff(l, children, consumers) ==
    /\ lease' = l
    /\ child' = children
    /\ consumer' = consumers

-----------------------------------------------------------------------------
(* start_turn, up to the checkpoint it awaits, and the drain that calls it. *)

\* Re-entry (the conversation id already holds) starts the turn without
\* owning the release.
Starts(r, l, by) ==
    /\ lease' = Acquired(l, ConvOf[r])
    /\ busy' = [busy EXCEPT ![r] = TRUE]
    /\ starter' = [starter EXCEPT
          ![r] = [at |-> "pre", by |-> by, fresh |-> l.holder # ConvOf[r]]]

MayStart(r, l) ==
    /\ CanAcquire(l, ConvOf[r])
    /\ l.holder = ConvOf[r] => "rejoin" \in Hazards

\* A start while the newest consumer is still in its bookkeeping will leave
\* one more superseded consumer behind.
WithinOlder(r) == consumer[r] = "post" => older[r] < MaxOlder

\* Seeded fault: a drain that does not look whether anything is queued.
WouldDrainNothing(r, l, q) == Alive(r) /\ ~busy[r]

\* _maybe_drain_queue with q follow-ups queued and the lease at l.
WouldDrain(r, l, q) == q > 0 /\ Alive(r) /\ ~busy[r]

DrainStarts(r, l, q, by) ==
    /\ WouldDrain(r, l, q)
    /\ MayStart(r, l)
    /\ by = "consumer" \/ WithinOlder(r)
    /\ queue' = [queue EXCEPT ![r] = q - 1]
    /\ Starts(r, l, by)

\* Seeded fault: only start_turn registers a waiter, not the drain.
AfterSilentDecline(r, l, q) == l

\* The drain declines; a lease held by someone else leaves a waiter behind.
AfterDecline(r, l, q) ==
    IF WouldDrain(r, l, q) THEN WithWaiter(l, ConvOf[r]) ELSE l

DrainDeclines(r, l, q) ==
    WouldDrain(r, l, q) => ~CanAcquire(l, ConvOf[r])

-----------------------------------------------------------------------------
(* Opening a conversation: _spawn checks, awaits the handshake, registers. *)

OpenBegins(r) ==
    LET existing == registry[ConvOf[r]]
    IN  /\ stage[r] = "new"
        /\ existing # Nobody => ~Alive(existing)
        /\ Cardinality({q \in Runners : Registered(q) /\ Alive(q)}) < MaxConvs
        /\ stage' = [stage EXCEPT ![r] = "opening"]
        /\ UNCHANGED <<lease, registry, busy, queue, limbo, starter, consumer, older,
                       child, writing, failed, revert, sends>>

OpenSucceeds(r) ==
    /\ stage[r] = "opening" /\ Settled
    /\ stage' = [stage EXCEPT ![r] = "up"]
    /\ registry' = [registry EXCEPT ![ConvOf[r]] = r]
    /\ UNCHANGED <<lease, busy, queue, limbo, starter, consumer, older, child,
                   writing, failed, revert, sends>>

\* Seeded fault: stop() frees the workspace whoever holds it.
LetsGoOfAnyLease(r) ==
    LET c == ConvOf[r]
        l == WithoutWaiter(lease, c)
    IN  HandsOff(Released(l, l.holder), Nobody, "own", child, consumer)

\* What stop() does to the lease once the child process is gone.
LetsGoOfLease(r) ==
    LET c == ConvOf[r]
        l == Released(WithoutWaiter(lease, c), c)
    IN  IF lease.holder = c THEN HandsOff(l, Nobody, "own", child, consumer)
                            ELSE NoHandOff(l, child, consumer)

OpenFails(r) ==
    /\ stage[r] = "opening" /\ Settled
    /\ stage' = [stage EXCEPT ![r] = "stopped"]
    /\ LetsGoOfLease(r)
    /\ UNCHANGED <<registry, busy, queue, limbo, starter, older, writing, failed,
                   revert, sends>>

-----------------------------------------------------------------------------
(* POST /send and DELETE /queue.                                           *)

Sendable(r) ==
    /\ Registered(r) /\ Alive(r)
    /\ sends < MaxSends
    /\ sends' = sends + 1

SendStarts(r) ==
    /\ Sendable(r) /\ ~busy[r]
    /\ MayStart(r, lease) /\ WithinOlder(r)
    /\ Starts(r, lease, "send")
    /\ UNCHANGED <<registry, stage, queue, limbo, consumer, older, child, writing,
                   failed, revert>>

\* start_turn raised lease_unavailable after add_waiter; the route enqueues,
\* and a full queue answers 409 with the waiter left in place.
SendWaits(r) ==
    /\ Sendable(r) /\ ~busy[r]
    /\ ~CanAcquire(lease, ConvOf[r])
    /\ lease' = WithWaiter(lease, ConvOf[r])
    /\ queue' = [queue EXCEPT ![r] = IF @ < MaxQueue THEN @ + 1 ELSE @]
    /\ UNCHANGED <<registry, stage, busy, limbo, starter, consumer, older, child,
                   writing, failed, revert>>

SendQueues(r) ==
    /\ Sendable(r) /\ busy[r]
    /\ queue[r] < MaxQueue
    /\ queue' = [queue EXCEPT ![r] = @ + 1]
    /\ UNCHANGED <<lease, registry, stage, busy, limbo, starter, consumer, older,
                   child, writing, failed, revert>>

\* queue:true on an idle runner: enqueue, then drain at once.
SendQueuesIdle(r) ==
    /\ Sendable(r) /\ ~busy[r]
    /\ queue[r] < MaxQueue
    /\ \/ /\ DrainStarts(r, lease, queue[r] + 1, "drain")
       \/ /\ DrainDeclines(r, lease, queue[r] + 1)
          /\ lease' = AfterDecline(r, lease, queue[r] + 1)
          /\ queue' = [queue EXCEPT ![r] = @ + 1]
          /\ UNCHANGED <<busy, starter>>
    /\ UNCHANGED <<registry, stage, limbo, consumer, older, child, writing,
                   failed, revert>>

\* The FIFO slot of a conversation outlives the follow-up it was taken for.
Dequeues(r) ==
    /\ Registered(r) /\ queue[r] > 0
    /\ queue' = [queue EXCEPT ![r] = @ - 1]
    /\ UNCHANGED <<lease, registry, stage, busy, limbo, starter, consumer, older,
                   child, writing, failed, revert, sends>>

-----------------------------------------------------------------------------
(* The rest of start_turn: checkpoint done, prompt sent, or failure.       *)

\* stdin.drain() suspends on a prompt larger than the pipe takes.
PromptBlocks(r) ==
    /\ "slow_pipe" \in Hazards
    /\ starter[r].at = "pre" /\ Alive(r) /\ Settled
    /\ starter' = [starter EXCEPT ![r].at = "sending"]
    /\ UNCHANGED <<lease, registry, stage, busy, queue, limbo, consumer, older, child,
                   writing, failed, revert, sends>>

\* A new consumer replaces self._consumer; a hand-off the old one is looping
\* on goes on, out of stop()'s reach.
Orphaned(r) == [t \in Runners |->
    IF child[t].waker = r THEN [child[t] EXCEPT !.waker = Nobody] ELSE child[t]]

\* Whose wake loop the end of r's start returns to, and how it is cancelled.
LoopAgain(r) ==
    \/ starter[r].by \in {"consumer", "older"}
    \/ starter[r].by = "task" /\ child[r].loop # "off"
LoopKind(r) == IF starter[r].by = "task" THEN child[r].loop ELSE "own"
WithoutTask(r, children) ==
    IF starter[r].by = "task" THEN [children EXCEPT ![r] = NoChild] ELSE children

\* The prompt went out and the consumer exists.  A write to a pipe whose
\* reader has exited may still succeed: the consumer then reads the exit.
PromptSent(r) ==
    LET others == WithoutTask(r, Orphaned(r))
        waker == IF starter[r].by = "task" THEN Orphaned(r)[r].waker ELSE Nobody
        running == [consumer EXCEPT ![r] = "run"]
    IN  /\ Starting(r) /\ stage[r] \in {"up", "exited"} /\ Settled
        /\ starter' = [starter EXCEPT ![r] = NoStarter]
        /\ older' = [older EXCEPT ![r] = IF consumer[r] = "post" THEN @ + 1 ELSE @]
        /\ writing' = [writing EXCEPT ![r] = Alive(r)]
        /\ IF LoopAgain(r) THEN HandsOff(lease, waker, LoopKind(r), others, running)
                           ELSE NoHandOff(lease, others, running)
        /\ UNCHANGED <<registry, stage, busy, queue, limbo, failed, revert, sends>>

\* The follow-up r's start was drained for goes back to the head of the queue:
\* in the same step, or, when start_turn awaits the hand-off of the lease it
\* has just released, only after that.
Returns(r, later) ==
    /\ queue' = [queue EXCEPT ![r] = IF later THEN @ ELSE @ + 1]
    /\ limbo' = [limbo EXCEPT ![r] = IF later THEN @ + 1 ELSE @]

\* Seeded fault: only turn ends release, not a start that never got there.
StartEndsHolding(r) ==
    /\ starter' = [starter EXCEPT ![r] = NoStarter]
    /\ IF starter[r].by = "send" THEN UNCHANGED <<queue, limbo>> ELSE Returns(r, FALSE)
    /\ NoHandOff(lease, WithoutTask(r, child), consumer)

\* Seeded fault: a drained follow-up whose start fails is dropped.
StartEndsForgetting(r) ==
    LET freed == starter[r].fresh /\ lease.holder = ConvOf[r]
    IN  /\ starter' = [starter EXCEPT ![r] = NoStarter]
        /\ HandsOff(IF freed THEN Released(lease, ConvOf[r]) ELSE lease, Nobody,
                    "own", WithoutTask(r, child), consumer)
        /\ UNCHANGED <<queue, limbo>>

\* start_turn leaves without a consumer: a fresh acquire is released and
\* handed on, a drained follow-up is put back.
StartEnds(r) ==
    LET by == starter[r].by
        freed == starter[r].fresh /\ lease.holder = ConvOf[r]
        l == IF freed THEN Released(lease, ConvOf[r]) ELSE lease
        waker == CASE by = "consumer" -> r
                   [] by = "task" -> child[r].waker
                   [] OTHER -> Nobody
        others == WithoutTask(r, child)
    IN  /\ starter' = [starter EXCEPT ![r] = NoStarter]
        /\ IF by = "send" THEN UNCHANGED <<queue, limbo>>
                          ELSE Returns(r, freed /\ Wake(l).to # Nobody)
        /\ IF freed \/ LoopAgain(r)
           THEN HandsOff(l, waker, IF freed /\ by = "task" THEN "nested" ELSE LoopKind(r),
                         others, consumer)
           ELSE NoHandOff(lease, others, consumer)

\* The awaited hand-off is over, and with it start_turn's finally.  It is at the
\* latest when the starts of those woken in turn have ended, and earlier when
\* the awaiting task is cancelled once more: the model allows it at any time.
PutsBack(r) ==
    /\ limbo[r] > 0
    /\ limbo' = [limbo EXCEPT ![r] = @ - 1]
    /\ queue' = [queue EXCEPT ![r] = @ + 1]
    /\ UNCHANGED <<lease, registry, stage, busy, starter, consumer, older, child,
                   writing, failed, revert, sends>>

PromptFails(r) ==
    /\ Starting(r) /\ ~Alive(r) /\ Settled
    /\ StartEnds(r)
    /\ busy' = [busy EXCEPT ![r] = FALSE]
    /\ UNCHANGED <<registry, stage, older, writing, failed, revert, sends>>

\* Seeded fault: except Exception, which a cancellation passes by.
DisconnectsUnseen(r) ==
    /\ "disconnect" \in Hazards
    /\ Starting(r) /\ starter[r].by \in {"send", "drain"} /\ Settled
    /\ StartEnds(r)
    /\ UNCHANGED <<registry, stage, busy, older, writing, failed, revert, sends>>

\* The request driving start_turn is cancelled.  In the checkpoint the turn
\* is marked failed; in stdin.drain() it is not, and the bytes already
\* buffered still reach the agent.
Disconnects(r) ==
    LET sending == starter[r].at = "sending"
    IN  /\ "disconnect" \in Hazards
        /\ Starting(r) /\ starter[r].by \in {"send", "drain"} /\ Settled
        /\ StartEnds(r)
        /\ busy' = [busy EXCEPT ![r] = @ /\ sending]
        /\ writing' = [writing EXCEPT ![r] = @ \/ (sending /\ Alive(r))]
        /\ UNCHANGED <<registry, stage, older, failed, revert, sends>>

-----------------------------------------------------------------------------
(* The agent process and the consumer of its turn.                         *)

AgentExits(r) ==
    /\ Alive(r)
    /\ stage' = [stage EXCEPT ![r] = "exited"]
    /\ writing' = [writing EXCEPT ![r] = FALSE]
    /\ UNCHANGED <<lease, registry, busy, queue, limbo, starter, consumer, older,
                   child, failed, revert, sends>>

\* The wire's end or error reaches the consumer: the status turns terminal
\* and the bookkeeping (_checkpoint_post first) starts.
TurnEnds(r) ==
    /\ consumer[r] = "run" /\ Settled
    /\ consumer' = [consumer EXCEPT ![r] = "post"]
    /\ busy' = [busy EXCEPT ![r] = FALSE]
    /\ writing' = [writing EXCEPT ![r] = FALSE]
    /\ \E f \in BOOLEAN :
          /\ stage[r] = "exited" => f
          /\ failed' = [failed EXCEPT ![r] = @ \/ f]
    /\ UNCHANGED <<lease, registry, stage, queue, limbo, starter, older, child,
                   revert, sends>>

\* An agent whose turn no consumer follows any more stops by itself.
AgentFallsSilent(r) ==
    /\ writing[r] /\ consumer[r] # "run"
    /\ writing' = [writing EXCEPT ![r] = FALSE]
    /\ UNCHANGED <<lease, registry, stage, busy, queue, limbo, starter, consumer,
                   older, child, failed, revert, sends>>

\* The end of _consume: release, drain our own queue, else wake a waiter.
Closes(r, by, waker) ==
    LET l == Released(lease, ConvOf[r])
    IN  \/ /\ DrainStarts(r, l, queue[r], by)
           /\ consumer' = [consumer EXCEPT ![r] = IF waker = r THEN "drain" ELSE @]
           /\ UNCHANGED child
        \/ /\ DrainDeclines(r, l, queue[r])
           /\ HandsOff(AfterDecline(r, l, queue[r]), waker, "own", child, consumer)
           /\ UNCHANGED <<queue, busy, starter>>

BookkeepingDone(r) ==
    /\ consumer[r] = "post" /\ Settled
    /\ Closes(r, "consumer", r)
    /\ UNCHANGED <<registry, stage, limbo, older, writing, failed, revert, sends>>

OlderBookkeepingDone(r) ==
    /\ older[r] > 0 /\ Settled
    /\ older' = [older EXCEPT ![r] = @ - 1]
    /\ Closes(r, "older", Nobody)
    /\ UNCHANGED <<registry, stage, limbo, writing, failed, revert, sends>>

\* The hand-off task runs the woken runner's drain.
HandOffRuns(t) ==
    LET me == child[t]
        others == [child EXCEPT ![t] = NoChild]
        l == AfterDecline(t, lease, queue[t])
    IN  /\ me.at = "pending"
        /\ \/ /\ DrainStarts(t, lease, queue[t], "task")
              /\ child' = [child EXCEPT ![t].at = "driving"]
              /\ UNCHANGED consumer
           \/ /\ DrainDeclines(t, lease, queue[t])
              /\ IF me.loop # "off" THEN HandsOff(l, me.waker, me.loop, others, consumer)
                                    ELSE NoHandOff(l, others, consumer)
              /\ UNCHANGED <<queue, busy, starter>>
        /\ UNCHANGED <<registry, stage, limbo, older, writing, failed, revert, sends>>

-----------------------------------------------------------------------------
(* drop_conversation and stop(), by /stop or at the end of a failed stream. *)

\* stop() cancels the newest consumer and waits for it: in the turn it goes
\* to the bookkeeping, in the bookkeeping it only releases, in its own drain
\* it abandons the start, in the wake loop it leaves the shielded task alone.
CancelsConsumer(r) ==
    LET done == [consumer EXCEPT ![r] = "none"]
        freed == starter[r].fresh /\ lease.holder = ConvOf[r]
        l == Released(lease, ConvOf[r])
    IN  CASE consumer[r] = "none" ->
               UNCHANGED <<lease, queue, limbo, starter, child, consumer>>
          [] consumer[r] = "run" ->
               /\ consumer' = [consumer EXCEPT ![r] = "post"]
               /\ UNCHANGED <<lease, queue, limbo, starter, child>>
          [] consumer[r] = "post" ->
               /\ NoHandOff(l, child, done)
               /\ UNCHANGED <<queue, limbo, starter>>
          [] consumer[r] = "drain" ->
               /\ starter' = [starter EXCEPT ![r] = NoStarter]
               /\ Returns(r, freed /\ Wake(l).to # Nobody)
               /\ IF freed THEN HandsOff(l, r, "nested", child, done)
                           ELSE NoHandOff(lease, child, done)
          [] consumer[r] = "wake" ->
               /\ child' = [t \in Runners |->
                     IF child[t].waker # r THEN child[t]
                     ELSE [child[t] EXCEPT !.waker = Nobody,
                                           !.loop = IF @ = "own" THEN "off" ELSE @]]
               /\ consumer' = done
               /\ UNCHANGED <<lease, queue, limbo, starter>>

Drops(r) ==
    /\ registry' = [registry EXCEPT ![ConvOf[r]] = Nobody]
    /\ stage' = [stage EXCEPT ![r] = "stopping"]
    /\ busy' = [busy EXCEPT ![r] = FALSE]
    /\ writing' = [writing EXCEPT ![r] = @ \/ (starter[r].at = "sending" /\ consumer[r] = "drain")]
    /\ CancelsConsumer(r)

StopBegins(r) ==
    /\ Registered(r) /\ consumer[r] \in StopPhases
    /\ Drops(r)
    /\ failed' = [failed EXCEPT ![r] = @ \/ busy[r]]
    /\ UNCHANGED <<older, revert, sends>>

\* The stream of a failed turn drops whatever runner its conversation has.
StreamRecycles(r) ==
    /\ "recycle" \in Hazards
    /\ failed[r] /\ consumer[r] \in {"none", "run"}
    /\ failed' = [failed EXCEPT ![r] = FALSE]
    /\ \/ /\ registry[ConvOf[r]] # Nobody
          /\ Drops(registry[ConvOf[r]])
       \/ /\ registry[ConvOf[r]] = Nobody
          /\ UNCHANGED <<lease, registry, stage, busy, queue, limbo, starter,
                         consumer, child, writing>>
    /\ UNCHANGED <<older, revert, sends>>

\* The consumer is done and the child process terminated, in this order.
StopEnds(r) ==
    /\ stage[r] = "stopping" /\ consumer[r] = "none" /\ Settled
    /\ stage' = [stage EXCEPT ![r] = "stopped"]
    /\ writing' = [writing EXCEPT ![r] = FALSE]
    /\ LetsGoOfLease(r)
    /\ UNCHANGED <<registry, busy, queue, limbo, starter, older, failed, revert, sends>>

-----------------------------------------------------------------------------
(* POST /revert, and the lease's TTL.                                      *)

MayRevert(v) ==
    /\ revert[v] = "idle"
    /\ \A r \in Runners : Registered(r) => ~busy[r]
    /\ CanAcquire(lease, v)

RevertBegins(v) ==
    /\ MayRevert(v)
    /\ lease' = Grant(lease, v)
    /\ revert' = [revert EXCEPT ![v] = "restoring"]
    /\ UNCHANGED <<registry, stage, busy, queue, limbo, starter, consumer, older,
                   child, writing, failed, sends>>

\* No checkpoint for the turn: acquired and released in the same step.
RevertFindsNoCheckpoint(v) ==
    /\ MayRevert(v)
    /\ revert' = [revert EXCEPT ![v] = "done"]
    /\ HandsOff(Released(Grant(lease, v), v), Nobody, "own", child, consumer)
    /\ UNCHANGED <<registry, stage, busy, queue, limbo, starter, older, writing,
                   failed, sends>>

\* Restored, failed, or (orphan) cancelled with the git command still going.
RevertLeaves(v, how) ==
    /\ revert[v] = "restoring" /\ Settled
    /\ how = "orphan" => "abandoned_revert" \in Hazards
    /\ revert' = [revert EXCEPT ![v] = how]
    /\ IF lease.holder = Nobody \/ lease.holder = v
       THEN HandsOff(Released(lease, v), Nobody, "own", child, consumer)
       ELSE NoHandOff(lease, child, consumer)
    /\ UNCHANGED <<registry, stage, busy, queue, limbo, starter, older, writing,
                   failed, sends>>

OrphanRestoreExits(v) ==
    /\ revert[v] = "orphan"
    /\ revert' = [revert EXCEPT ![v] = "done"]
    /\ UNCHANGED <<lease, registry, stage, busy, queue, limbo, starter, consumer,
                   older, child, writing, failed, sends>>

LeaseExpires ==
    /\ "expiry" \in Hazards
    /\ lease.holder # Nobody /\ ~lease.expired
    /\ lease' = [lease EXCEPT !.expired = TRUE]
    /\ UNCHANGED <<registry, stage, busy, queue, limbo, starter, consumer, older,
                   child, writing, failed, revert, sends>>

-----------------------------------------------------------------------------
RunnerStep(r) ==
    \/ OpenBegins(r) \/ OpenSucceeds(r) \/ OpenFails(r)
    \/ SendStarts(r) \/ SendWaits(r) \/ SendQueues(r) \/ SendQueuesIdle(r)
    \/ Dequeues(r)
    \/ PromptBlocks(r) \/ PromptSent(r) \/ PromptFails(r) \/ Disconnects(r)
    \/ PutsBack(r)
    \/ AgentExits(r) \/ TurnEnds(r) \/ AgentFallsSilent(r)
    \/ BookkeepingDone(r) \/ OlderBookkeepingDone(r) \/ HandOffRuns(r)
    \/ StopBegins(r) \/ StreamRecycles(r) \/ StopEnds(r)

RevertStep(v) ==
    \/ RevertBegins(v) \/ RevertFindsNoCheckpoint(v)
    \/ RevertLeaves(v, "done") \/ RevertLeaves(v, "orphan")
    \/ OrphanRestoreExits(v)

Next ==
    \/ \E r \in Runners : RunnerStep(r)
    \/ \E v \in Reverts : RevertStep(v)
    \/ LeaseExpires

Spec == Init /\ [][Next]_vars

\* What the event loop owes: I/O that was started completes, a ready task
\* runs, and a turn ends, at the latest when its budget has cancelled it.
\* Nothing is assumed of clients, of the agent's exits or of its pipe.
Fairness ==
    /\ \A r \in Runners :
          /\ WF_vars(PromptSent(r)) /\ WF_vars(PromptFails(r)) /\ WF_vars(PutsBack(r))
          /\ WF_vars(TurnEnds(r)) /\ WF_vars(BookkeepingDone(r))
          /\ WF_vars(OlderBookkeepingDone(r)) /\ WF_vars(HandOffRuns(r))
          /\ WF_vars(StopEnds(r))
    /\ \A v \in Reverts : WF_vars(RevertLeaves(v, "done"))

FairSpec == Spec /\ Fairness

-----------------------------------------------------------------------------
(* Safety.                                                                 *)

\* Holding and waiting are mutually exclusive, and nobody queues twice: the
\* comments of WriteLease._grant and add_waiter.
HolderNeverWaits ==
    /\ lease.holder \notin ToSet(lease.waiters)
    /\ IsInjective(lease.waiters)

\* Every acquire has a release on every exit path (the comment in
\* try_acquire): while a conversation holds, one of its runners has a start
\* in flight that owns the release, a turn, or a bookkeeping that ends in it;
\* while a revert holds, its git commands are still running.
Releases(r) ==
    \/ Starting(r) /\ starter[r].fresh
    \/ consumer[r] \in {"run", "post"}
    \/ older[r] > 0

LeaseHasReleaser ==
    /\ lease.holder \in Convs =>
          \E r \in Runners : ConvOf[r] = lease.holder /\ Releases(r)
    /\ lease.holder \in Reverts => revert[lease.holder] = "restoring"

\* The inductive strengthening of LeaseHasReleaser: what ties the flags of a
\* runner to its tasks, so that no step takes a releaser away unseen.
StartsAreBusy ==
    \A r \in Runners : Starting(r) =>
        /\ stage[r] \notin {"new", "opening"}
        /\ stage[r] \in {"up", "exited"} => busy[r]

RunsAreBusy ==
    \A r \in Runners : consumer[r] = "run" =>
        stage[r] \in {"up", "exited"} /\ busy[r] /\ ~Starting(r)

DrainsAreOwn ==
    \A r \in Runners :
        consumer[r] = "drain" <=> Starting(r) /\ starter[r].by = "consumer"

WakersWait ==
    \A t \in Runners : child[t].waker \in Runners =>
        /\ consumer[child[t].waker] = "wake"
        /\ \A u \in Runners : child[u].waker = child[t].waker => u = t

ReleaseInv ==
    TypeOK /\ LeaseHasReleaser /\ StartsAreBusy /\ RunsAreBusy /\ DrainsAreOwn
           /\ WakersWait

\* A turn runs, from its checkpoint to the end of its bookkeeping, only under
\* the lease: no release or grant by anyone else takes it away.
TurnHoldsLease ==
    \A r \in Runners :
        /\ consumer[r] \in {"run", "post"} => lease.holder = ConvOf[r]
        /\ Starting(r) /\ stage[r] \in {"up", "exited"} =>
              starter[r].fresh /\ lease.holder = ConvOf[r]

\* One workspace, one mutating turn at a time, and no turn during a restore:
\* at most one process writes to the worktree.
Writers == {r \in Runners : writing[r]}
             \cup {v \in Reverts : revert[v] \in {"restoring", "orphan"}}
OneWriter == Cardinality(Writers) <= 1

\* A follow-up parked at a free lease is about to be handed over: its
\* conversation is being woken, or has a slot in the FIFO while a task woken
\* for a waiter before it, which may yet decline, is ready to run and the loop
\* that started the task goes on.  With disconnects the part about a follow-up
\* without a slot does not hold: they end a start whose conversation has left
\* the FIFO, and what was parked meanwhile waits for the next send.
Parks(r) == Registered(r) /\ Alive(r) /\ queue[r] > 0
HandingOff == \E t \in Runners : child[t].at = "pending" /\ child[t].loop # "off"

Stranded(r) ==
    /\ lease.holder = Nobody /\ Parks(r)
    /\ IF ConvOf[r] \in ToSet(lease.waiters)
       THEN ~HandingOff
       ELSE child[r].at # "pending" /\ "disconnect" \notin Hazards

NoStranded == \A r \in Runners : ~Stranded(r)

\* Conversations wait oldest first (the comment on WriteLease._waiters): of two
\* that wait, the later one never gets ahead.  A conversation whose hand-off
\* is ready to run is ahead of those still in the FIFO.
WaitsBefore(c, d) ==
    \E j \in DOMAIN lease.waiters :
        /\ lease.waiters[j] = d /\ c # d
        /\ \/ \E i \in 1..j - 1 : lease.waiters[i] = c
           \/ registry[c] # Nobody /\ child[registry[c]].at = "pending"

ArrivalOrder ==
    [][\A c, d \in Convs : WaitsBefore(c, d) => ~WaitsBefore(d, c)']_vars

\* busy is never stuck: it is set only while a start is in flight or a
\* consumer follows the turn.
BusyHasDriver ==
    \A r \in Runners : busy[r] => Starting(r) \/ consumer[r] = "run"

-----------------------------------------------------------------------------
(* The abstract specification, and liveness.                               *)

Parked == [c \in Convs |-> IF registry[c] = Nobody THEN 0
                           ELSE queue[registry[c]] + limbo[registry[c]]]
Acting == {ConvOf[r] : r \in {q \in Runners : writing[q]}}
            \cup {v \in Reverts : revert[v] \in {"restoring", "orphan"}}

Drawn == \E r \in Runners : Registered(r) /\ Starting(r) /\ starter[r].by # "send"

Turns == INSTANCE WorkspaceTurns
            WITH owner <- lease.holder, acting <- Acting, parked <- Parked,
                 drawn <- Drawn

\* Runners, tasks and the FIFO only ever do what WorkspaceTurns allows: no
\* two owners, nobody acts who does not own, no follow-up lost or run twice.
OneTurnAtATime == Turns!Spec

\* A follow-up that was accepted is eventually begun: the queue of a live
\* conversation empties, whoever held the lease when it was parked.
FollowUpsRun ==
    \A r \in Runners :
        queue[r] > 0 /\ Alive(r) ~> queue[r] = 0 \/ ~Alive(r)

\* Whoever holds the lease lets go of it.
LeaseComesFree == []<>(lease.holder = Nobody)

=============================================================================
