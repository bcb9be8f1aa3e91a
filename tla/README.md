# A verification project for sanad-cli

TLA+ models of the concurrent core of sanad-cli, their model-checking
configurations, and machine-checked proofs. Source paths below are relative to
the repository's root; `agentd/` abbreviates
`terminal-server/src/sanad_terminal/` and `cli/` abbreviates `src/kimi_cli/`.

## 1. The system

sanad-cli is a governed coding agent. The agent itself (`cli/`) is a program
with an interactive shell, a *wire* mode that speaks JSON-RPC on its standard
streams, and background work. A terminal server, *agentd* (`agentd/`), runs next
to a workspace (one git worktree), spawns agents in wire mode or behind a PTY,
and serves a browser panel. A control plane and front ends sit around it.

| component | state | operations | interacts with |
|---|---|---|---|
| workspace write-lease, `agentd/workspace_lease.py` | holder, grant time, FIFO of waiting conversations, one per workspace | `try_acquire`, `release`, `add_waiter`, `pop_waiter`, `remove_waiter` | coder runners, `/revert` |
| coder conversations, `agentd/coder_runner.py` over `wire_runner.py`, `routes_coder.py` | registry of conversations; per runner: process, current turn, follow-up queue, consumer task, pending requests, journal | open, send, queue, dequeue, cancel, steer, approve, stop, revert; the turn's bookkeeping; the hand-off of the lease | lease, git, journal, session lease, agent process |
| coder journal, `agentd/coder_journal.py` | per-turn files and an index | append, index, prune, load | coder runners |
| session lease, `cli/sanad/session_lock.py`, `session_lease.py`, `agentd/session_owner.py` | one unlocked file `owner.json` per session | acquire, heartbeat, steal, rescind, release | agent processes, `/open` with takeover |
| PTY sessions and idle stop, `agentd/manager.py`, `pty_session.py`, `idle.py` | live and detached sessions, activity clock | claim, register, detach, adopt, sweep, restart; stop the machine | sockets, coder runners (probe) |
| background tasks, `cli/background/` | spec, runtime, control files per task; worker processes; in-process agents | create, kill, recover, publish; worker start, heartbeat, finish | approvals, notifications |
| approval runtime, `cli/approval_runtime/` | requests, shared waiters | create, wait with timeout, resolve, cancel by source | tools, background agents, root hub |
| notifications, `cli/notifications/` | event and per-sink delivery files | publish with dedupe, claim, ack, recover | background tasks, sinks |
| blueprint change plans, `packages/sanad-blueprint` `transaction.py` | manifest files, rollback entries | apply, rollback | blueprint routes |
| wire and root hub, `cli/wire/`, `cli/utils/broadcast.py` | merge buffer, subscriber queues | send, flush, shutdown | soul, UIs |
| agent loop, `cli/soul/` | context, checkpoints, steer queue | run, step, compact, rewind | tools, LLM |
| tools, UIs, ACP, MCP, plugins, control plane, front ends, SDKs, kosong, kaos | | I/O, rendering, adapters | |

### What is hard, and what makes each component correct

- **Coder conversations and lease.** All handlers run on one asyncio loop and
  interleave at awaits. Every conversation has its own agent process but all
  share the worktree. Correct: at most one process writes; a turn holds the
  lease from its checkpoint to the end of its bookkeeping; whoever holds the
  lease has a task that will release it; a parked follow-up is never stranded,
  lost, run twice or parked beyond the cap; `busy` never sticks; a cancelled
  request or stopped runner undoes exactly what it did.
- **Session lease.** Two processes and agentd read, modify and rename one file
  without a lock. Correct: apart from the documented windows, one owner;
  a zombie stands down at its next heartbeat once the record is another's; a
  steal is eventually answered; a busy holder is not evicted; a release never
  deletes a successor's lease.
- **Background tasks.** A manager, a worker process, recovery and approval
  threads write one runtime file. Correct: a terminal status is final, one
  notification per task, no task stays non-terminal for ever, a kill is honoured.
- **Approval runtime.** Correct: every waiter of a request gets its one outcome,
  a timeout or cancellation by source leaves nothing pending.
- **Notifications.** Correct: at-least-once delivery per sink, one event per key.
- **PTY sessions.** Correct: caps hold, an adopted session is not reaped, the
  machine is not stopped under a live session.
- **Journal.** Correct: after a crash, reopening yields every indexed turn once,
  with a terminal status.
- **Blueprint plans.** Correct: apply is all or nothing; rollback restores.

## 2. Modules

| module | what it is |
|---|---|
| `WriteLease` | the lease as a record, each method an operator returning the lease it leaves |
| `CoderTurns` | runners, turns, queues, tasks, stops and reverts of one workspace |
| `WorkspaceTurns` | abstract specification: one owner, who acts, what is parked |
| `MCCoderTurns` | conversation layouts for TLC |
| `CoderMessages` | the messages of one conversation: resends, follow-ups, the journal in memory and on disk, a follower, restarts |
| `SessionLease` | the unlocked `owner.json` between agent processes, terminals and agentd |
| `Notifications` | the operations on notifications and their sinks |
| `BackgroundTasks` | background tasks over one runtime file, composed with `Notifications` |
| `PtySessions` | the terminals of one user: registry, handlers, output |
| `MCCoderMessages`, `MCSessionLease`, `MCBackgroundTasks`, `MCPtySessions` | their scopes and hazards for TLC |
| `Subsequences` | what a sequence keeps of its elements, for the lists of `CoderMessages`, `Notifications`, `BackgroundTasks` and `PtySessions` |
| `CoderTurns_proofs`, `CoderTurnsOrderly_proofs` | theorems about the conversations and their lease, the second extending the first |
| `CoderMessages_proofs`, `CoderMessagesJournal_proofs` | theorems about a conversation's messages and about its journal, the second extending the first |
| `SessionLease_proofs`, `BackgroundTasks_proofs`, `PtySessions_proofs`, `Subsequences_proofs` | theorems about the other modules |

A specification that keeps some of its promises only in part of its environment
has a variable that is chosen once, in `Init`, and never changes: `hz`, a set of
hazards (`SessionLease`, `BackgroundTasks`), or `scope`, a record of bounds and
hazards (`CoderMessages`, `PtySessions`). One run then covers the quiet
environment and each hazard alone, and a property names the hazards it is
restricted to; a property that names none holds under all of them.

### How CoderTurns corresponds to the code

An action is the code between two suspensions of the event loop. The awaits that
really suspend are the git checkpoints before and after a turn, the write of a
prompt to a full pipe, the wait for the turn's end, the shielded hand-off task, a
revert's git commands, the agent's handshake, and the child's termination; every
other await completes at once and is not a step.

| variable | in the code |
|---|---|
| `lease` | `lease_for(root)` |
| `registry` | `_conversations[(root, cid)]` |
| `stage` | the runner's life: `new`, `opening` (`_spawn` awaits `start()`), `up` (`alive`), `exited`, `stopping`, `stopped` |
| `busy` | `_current.status == "running"` |
| `queue` | `len(_queue)` |
| `limbo` | follow-ups that a `_maybe_drain_queue` has popped, whose `start_turn` has failed and which its `finally` has not put back |
| `starter` | a `start_turn` in flight: `pre` awaits the checkpoint, `sending` awaits `stdin.drain()`; who called it; `fresh` is `acquired_fresh` |
| `consumer` | the task in `self._consumer`: `run` waits for the turn, `post` is the bookkeeping of `_consume`, `drain` its own `_maybe_drain_queue`, `wake` its `wake_workspace_waiters` |
| `older` | consumers of earlier turns, replaced in `self._consumer` but not finished |
| `child` | the task behind `asyncio.shield` for the woken runner, whose loop goes on after it |
| `writing` | the agent process acts on a prompt |
| `failed` | the `_recycling_stream` of a failed turn will drop the conversation |
| `revert` | `/revert` requests; `orphan` is a cancelled one whose git child still runs |

| actions | code |
|---|---|
| `OpenBegins`, `OpenSucceeds`, `OpenFails` | `/open`, `_spawn` |
| `SendStarts`, `SendWaits`, `SendQueues`, `SendQueuesIdle`, `Dequeues` | `/send` (`start_turn` until it suspends, refusal, busy, `queue:true`), `DELETE /queue` |
| `PromptBlocks`, `PromptSent`, `PromptFails`, `Disconnects`, `PutsBack` | the rest of `start_turn`; a cancelled request; the `finally` of the drain that called it |
| `AgentExits`, `TurnEnds`, `AgentFallsSilent` | the agent process; `_consume` up to the bookkeeping |
| `BookkeepingDone`, `OlderBookkeepingDone`, `HandOffRuns` | the end of `_consume`: release, drain, wake; the hand-off task |
| `StopBegins`, `StreamRecycles`, `StopEnds` | `drop_conversation` and `stop()` |
| `RevertBegins`, `RevertFindsNoCheckpoint`, `RevertLeaves`, `OrphanRestoreExits` | `/revert` |
| `LeaseExpires` | the holder passes `stale_after_seconds` |

Two points of scheduling matter. A hand-off task is in the loop's ready queue
ahead of every I/O completion not yet reported, so completions wait until
pending hand-offs have run (`Settled`); requests may still come first, because a
handler can be ready in the same round. And a drain that finds the lease free
starts before any other code runs, which the model gets by composing release,
drain and wake-up in one action.

A start that fails releases a lease it took and awaits the wake-up before the
drain around it puts the follow-up back. If the wake-up reaches somebody, the
follow-up is in `limbo` while others run and the conversation may be sent to or
start again; if it reaches nobody, nothing suspends and the put-back is in the
same step. `PutsBack` may come at any time after that, which includes a second
cancellation of the awaiting task and the hops by which the end of one awaited
task reaches the next. A queue may therefore exceed its cap by more than one when
clients disconnect: each start that fails puts one back, however full the queue
has become.

`Hazards` and `StopPhases` are scope constants: which of the environment's
misbehaviours a run includes. `rejoin`: a send between the end of a turn and its
release. `recycle`: the drop at the end of a failed stream. `expiry`: a holder
past its TTL. `disconnect`: a cancelled request. `slow_pipe`: a prompt that
blocks in the pipe. `abandoned_revert`: a cancelled revert. They exist because
the code keeps some promises only without some of them, and the runs say which.

Abstractions: messages have no identity (a queue is its length); git is a step
that takes time; a runner is spawned once and a reopened conversation is another
runner of the same id; the journal, the stream to the browser, the requests of
the agent and `sendId` are left out (`CoderMessages` has them); time is `expired`.

### How SessionLease corresponds to the code

A read-modify-write of `owner.json` is a read and a write action; the record to
be written is in `io[p]` (or `dio`, agentd's) between the two. Time passes in
heartbeat periods (`Tick`): three missed ones make a record stale.

| variable | in the code |
|---|---|
| `file` | `owner.json`: holder, generation, age of `updated_at`, `steal_requested_by`, `busy` |
| `pc` | a process: `start` (the acquire of `cli/cli/__init__.py`), `create` (granted, not yet serving), `up`, `refuse` (a steal mid-turn is being refused), `stopping` |
| `gen`, `busy`, `due` | `_lease_generation`, a turn streams, a heartbeat is due |
| `desk` | agentd's `/open`: `_spawn` and `_handle_session_owned` with its takeover, polls and rescission |

| actions | code |
|---|---|
| `StartReads/Writes`, `ServeReads/Writes` | `try_acquire` at start, and again when the process begins to serve |
| `HeartbeatReads/Writes`, `RefuseReads/Writes` | `heartbeat`, `decide_heartbeat_action`, the refusal's re-acquire |
| `ReleaseReads`, `ReleaseUnlinks` | `release` |
| `StealReads/Writes`, `PollReads`, `RescindReads/Writes`, `Respawn`, `OpenBegins`, `OpenCancelled` | `request_steal`, the poll, `rescind_steal`, the respawn, `/open` |

Hazards: `stall` (late heartbeats and starts), `race` (processes'
read-modify-writes overlap), `torn` (agentd's overlap with a process's), `crash`,
and `disk` (a write does not land: a process goes on as if it had, since
`_write_owner` fails open, and `request_steal` answers False). Reads that fail
once are not modelled; an unreadable record is one that is absent.

### How BackgroundTasks and Notifications correspond to the code

`rt` is `runtime.json`. Its writers are the manager in the agent's process
(`mgr`: a create, a delivery that first reconciles, or a restart), the worker of
a bash task (`worker`, `known`, `wio`), the runner of an agent task (`agent`),
and the threads that show its approvals (`marks`). Synchronous code of the event
loop is one action and, without the hazard `overlap`, no other writer falls into
a read-modify-write. A delivery is the code at the head of a step: `recover`,
`publish_terminal_notifications`, `recover` of claims, `deliver_pending`. A
request for approval starts a thread at once; an answer only schedules a task
(`Answered`), which looks at what is pending when it runs (`Notices`) and starts a
thread only if nothing is.

Notifications are named by their dedupe key (task, reason). A sink is `wire`,
whose handler does not await (claim and ack are one step), or `llm`, whose
delivery awaits the append of a message to `context.jsonl`: `mem` and `disk`
count how often a notification is in the history and in the file.

### How PtySessions corresponds to the code

A session is named by the connection that spawned it. `place` is where the
handler of a websocket is (redeeming, `pop_detached`, `claim` with its lock and
its evictions, spawning, `finish_attach`, the pumps, the `finally` block);
`registry`, `detached` and `draining` are the manager's; `produced`, `queue`,
`paused` and `shown` are the output of a PTY as numbered chunks, with 0 the end
of the stream. The replay ring always ends with the newest chunk, so replaying it
shows everything up to the newest.

A session that leaves the registry is in `reaping` until its socket has been told
and closed (`ClosesSocket`) and its process has ended (`Reaped`); an eviction keeps
the manager's lock for both, a restart, a sweep and a handler's `finally` go on
without it. A process that the executor has forked belongs to nobody but its
handler (`forked`) until that resumes and registers it (`Registers`): a restart or
a sweep in between does not see it, and what `claim` decided may be out of date.

`orderly` scopes set connections up one at a time: nobody connects, no handler
ends, nothing is swept or restarted while a connection is between its ticket and
its session. They do not wait for terminations that are under way, as the code does
not. The other scopes overlap at every await.

### How CoderMessages corresponds to the code

Turns are numbered as they are begun, a message is its `sendId`, an item of a
journal is its kind. `turn[t].stage` goes from `pre` (the pre-turn checkpoint)
over `run`, `post` (the post-turn checkpoint) and `handing` (drain and hand-on)
to `closed`; `items` is the journal in memory, `journal` the files, `index` is
`turns.json`, `order` is what `/turn` and `/follow` know, `limbo` what a failed
start has yet to put back. `Opens` is `_reconstruct_from_journal` with the
reconciliation of interrupted turns.

An `/open` does not wait for the runner it replaces: `drop_conversation` takes a
runner out of the registry before `stop()` awaits the rest of its bookkeeping, and
a runner whose agent has exited is replaced while its consumer may be in the
post-turn checkpoint. Such a runner is in `leaving`, with its own turns and its own
copy of the index, until it has written both over what the new one wrote. The
hazard `overlap` lets an `/open` fall there (`DropBegins`, `Replaces`); without it a
stop is one step (`Drops`) and a runner is replaced once its tasks have ended.

| actions | code |
|---|---|
| `SendQueues`, `SendStarts`, `Dequeues` | `/send` with and without `queue:true`, `start_turn` and `enqueue` with their duplicate checks, `DELETE /queue` |
| `PromptSent`, `StartFails`, `PutsBack` | the rest of `start_turn`; the `finally` of `_maybe_drain_queue` |
| `AgentAsks`, `Responds` | `on_request`, `respond` |
| `TurnEnds`, `BookkeepingDone`, `TurnCloses` | `_consume` |
| `OtherTakes`, `OtherReleases` | the lease in the hands of other conversations |
| `AgentExits`, `Drops`, `DropBegins`, `LeavingDone`, `CrashBetween`, `CrashInStart`, `CrashInOpen`, `Opens` | exits, stops at once and stops an `/open` falls into, restarts of agentd between and within steps, `/open` |
| `Follows`, `FollowGoesOn` | `GET /follow` |

Abstractions: the await of `prune_checkpoints` is merged with the checkpoint before
it; slow pipes and the lease's TTL are in `CoderTurns` only; a stop comes when no
start or hand-off is in flight, and at most one runner is leaving at a time; the
streams of a stopped runner deliver what is left; a turn asks once.

### Refinement

`CoderTurns!Turns` instantiates `WorkspaceTurns` with the lease's holder as
`owner`, the conversations whose process writes and the restores that run as
`acting`, the queue lengths of registered runners as `parked`, and `drawn` for a
start that has taken a follow-up which has not been prompted. `OneTurnAtATime`
is the abstract specification as a property: a follow-up leaves the queue only
to be begun under ownership, comes back if it was never prompted, and nobody acts
who does not own.

## 3. Runs

| run | checks | instance |
|---|---|---|
| `turns_full` | `TypeOK`, `HolderNeverWaits`, `LeaseHasReleaser` | 3 runners, 2 conversations (one reopened after an exit), 1 revert, queue depth 1, 2 sends, stops in every phase, every hazard but `disconnect` |
| `turns_orderly` | `TurnHoldsLease`, `OneWriter`, `BusyHasDriver`, `OneTurnAtATime` | 3 conversations, 1 revert, depth 1, 3 sends, stops when idle or draining, `disconnect` |
| `turns_liveness` | `NoStranded`, `FollowUpsRun`, `LeaseComesFree` | 2 conversations, 2 reverts, depth 2, 3 sends, stops when idle or draining, no hazard, `FairSpec` |
| `finding_rejoin` | `OneWriter` fails | 2 conversations, `rejoin` |
| `finding_stop_in_turn` | `OneWriter` fails | 2 conversations, stop during a turn |
| `finding_stop_in_bookkeeping` | `NoStranded` fails | 2 conversations, stop during the bookkeeping |
| `messages` | `TypeOK`, `NoDoublePrompt`, `FollowExact`, `JournalSettles`, `FollowReturns` | 2 messages, 3 turns, queue depth 1, one turn kept in memory and two on disk; ten scopes: resends beside other conversations with two failed starts (`Resends`), with a failed start and a restart (`Retries`), over a restart alone (`Reopened`), a follower (`Followed`), a stop or restart inside a bookkeeping (`Late`), restarts inside a step with and without a request (`InStep`, `InStepAsked`), files that overflow (`Overflowing`), an `/open` over the end of a runner with and without a request (`Overlapping`, `OverlapAsked`) |
| `session_lease` | `TypeOK`, `OneOwner`, `NoOrphanRequest`, `TimeoutOnlyOffDuty`, `TurnNeverEvicted`, `SuccessorSpared`, `ZombiesStandDown`, `NotBricked` | 2 agent processes, 1 terminal, no hazard or one at a time |
| `finding_takeover_busy` | `BusyOnlyIfRefused` fails | the same, no hazard |
| `background` | `TypeOK`, `TerminalMeansDead`, `ApprovalShown`, `OnceInContext`, `TerminalStays`, `NoPhantomTask`, `KillEnds`, `Delivers` | 1 task of either kind, 2 approvals, 1 fault, deliveries of one, no hazard or one at a time |
| `pty` | `TypeOK`, `NoOrphan`, `OneSocket`, `LiveContinues`, `NoStall`, `CapHeld`, `OneResumes`, `Answered`, `NotForgotten` | 2 connections in turn under a cap of 2, 3 overlapping under a cap of 1, 2 in turn with 2 chunks of output, 1 with 5; high water 2, low water 0 |
| `finding_dropped_socket` | `DropKeepsAgent` fails | 2 connections with output |

Why the bounds are enough for the conversations: the interesting hand-offs need a holder, a waiter that
is a ghost or declines, and a waiter behind it, hence three runners; two runners
of one conversation id make every by-id operation ambiguous; a depth of one
reaches the cap, the refusal at the cap and the put-back above it; one revert
competes with turns, two with each other. `MaxSends` counts requests that add
work; three give each conversation one, or one conversation a turn and two
follow-ups. `MaxOlder` bounds superseded consumers: one is enough to have two
consumers of one runner in their bookkeeping. The system may stop (all requests
made, nothing running), so deadlock is not checked; `FollowUpsRun` and
`LeaseComesFree` say instead that it does not stop too early.

Fairness (`FairSpec`) is what an event loop and a turn budget give: started I/O
completes, a ready task runs, a turn ends (`coder_max_turn_seconds` cancels it
and the agent answers or exits), a stop and a restore finish. Nothing is assumed
of clients, exits or disconnects. `turns_liveness` leaves the hazards out: under
`finding_stop_in_bookkeeping` and the like the property does not hold.

For the other modules. *Session lease*: a takeover needs an owner, the process
that is refused and the one spawned after it; every process may crash or be late
at each of its steps. *Background*: tasks of a session share no file, and what
they share (the cap on running tasks, a delivery) is sequential code; one task
has all the writers of its file. Two approvals are needed for one to be answered
while another is pending; a delivery of one makes the limit bite. *PTY*: three
connections are an owner, one that evicts and one that waits for the lock; two
chunks reach the high-water mark, five pass through it, empty and fill the queue
again. *Messages*: three turns are a message, another, and the resend of either,
and two failed starts put back two follow-ups; memory for one turn and disk for
two makes both forget.

Their fairness. Event loops and worker threads go on. It is strong where a guard
only keeps hazards out of a behaviour, or where another task takes a lock in
between (the asyncio lock is fair): no process really waits for another's
read-modify-write. `SessionLease` adds that cancelled turns unwind.
`BackgroundTasks` assumes that the session stays in use, since recovery and
delivery happen only at its steps, and that a command killed with SIGKILL dies.
`PtySessions` assumes that terminated processes are reaped, that a handler learns
of a closed socket, and that the sweeper comes again; one condition for all
handler steps suffices, because the connections of a behaviour are finitely many
and each takes finitely many steps. `CoderMessages` assumes that turns end and
streams are read. These systems may come to rest, so deadlock is not checked.

Every property of a passing run has a seeded fault: a variant of one definition
(`WouldDrainNothing`, `GrantKeepingSlot`, `StartEndsHolding`, ...) as a
plausible bug would have it, under which the run finds the property violated.

### What the runs found

Five promises of the repository's own comments do not hold; PROJECT.json quotes
the lines.

1. *Rejoin.* While a turn's bookkeeping awaits its checkpoint the runner is no
   longer busy but its conversation holds the lease. A send then starts a turn
   as a re-entry; the bookkeeping releases the lease under it, and the next
   waiter writes beside it.
2. *Stop during a turn.* `stop()` cancels the consumer first; its `finally` block
   releases and hands on the lease before the process is terminated.
3. *Stop during the bookkeeping.* The release happens, the wake-up after it is
   skipped by the cancellation, and `stop()` finds nothing to release.

4. *Takeover of a starting terminal.* A takeover request placed between a
   process's two acquires is cleared by the second one. agentd reads the cleared
   request as a refusal and answers `session_busy`, though no turn runs.
5. *Dropped socket.* A connection that is lost while output is being sent to it
   ends its handler with an exception, not a disconnect, and the agent is
   terminated although "a dropped connection detaches".

The modules also delimit what holds. `BackgroundTasks`: a worker that is only
late finishes a task already announced as lost, and overlapping writers can undo
each other's status; what holds nevertheless is that no dead task is shown as
active for ever and every kill ends its task. `PtySessions`: overlapping attaches
exceed the cap and may resume one conversation in two agents. Also connections set
up one after the other may: a client that reconnects after a restart, a sweep or
the end of another's handler finds no agent registered, and resumes the
conversation while the old agent is still being terminated, although "two agents
must not fight over one session" (`agentd/app.py:331`). `OneResumes` says what is
left, that all but one of them are being terminated; without `\ reaping` the run
finds it violated. `CoderTurns`: a cancelled request may leave a follow-up parked
at a free lease without a slot in the FIFO, until its conversation is sent to
again; `NoStranded` counts such follow-ups only where requests are not cancelled.
`CoderMessages`: an `/open` within a stop or beside the bookkeeping of an agent
that exited declares a turn interrupted whose end the old runner has told or is
about to note, so the journal has two ends, a follower's items are no longer a
prefix of it, and the old runner's copy of the index goes over the new one's. The
docstring of `_reconstruct_from_journal` (`agentd/coder_runner.py:588`) takes a
status "running" to mean that the process died mid-turn. `FollowExact`,
`NoDoublePrompt` and the ends in `JournalSettles` exempt this hazard; that requests
are answered or cancelled is checked under it, and so is `FollowReturns`. Moreover, a
resend after another turn ran in between starts its message again, though the
docstring of `start_turn` promises "THAT turn" also after it finished; so does,
after a restart, a resend of the last turn, if an earlier turn's bookkeeping
outlasted `turns_keep` later ones (its note then makes it the newest entry of
`turns.json`); and a stop
or a crash between a turn's end and its note in the index (the post-turn
checkpoint lies in between) makes a finished turn interrupted, with a second end
in its journal. `SessionLease`: an owner whose record vanished goes on without
one, as `heartbeat()` returns before it writes any (`cli/sanad/session_lock.py:352`),
although the docstring of `decide_heartbeat_action` says that the next beat
re-establishes it. It stands down once the record is another's
(`ZombiesStandDown`). When that other one exits first and takes its record along,
the remaining processes each find none and serve beside each other for as long as
they run; with three processes that were granted the session in a race this is
two.

Others have no run of their own and are recorded as hazards: a spawn that fails
beside a live runner of its conversation frees that runner's lease; a TTL
reclaim preempts a turn that is still running; a cancelled write to a full pipe
leaves `busy` set; a cancelled revert leaves git writing after the release; a
stream that ends late drops the next turn; a popped waiter that loses the lease
goes to the back of the FIFO (`ArrivalOrder`, stated and not among the checked
properties).

## 4. Proofs

Constants are arbitrary throughout: any number of runners, conversations,
processes, connections, tasks and messages. The assumptions are those the modules
name: ids are distinct, sets are finite where the code counts them, bounds are
natural numbers. A theorem that holds only in part of the environment names that
part, with the same hazards or scope as the run that checks the property.

### Conversations

`CoderTurns_proofs` proves under every hazard and every stop:

- `TypeCorrect`: `Spec => []TypeOK`.
- `LeaseReleased`: `Spec => []LeaseHasReleaser`.
- `FifoExclusive`: `Spec => []HolderNeverWaits`.

`TypeOK` is about types alone, since with disconnects nothing bounds how many
follow-ups are put back into a queue that has filled up again; the bound that does
hold is a theorem about `CoderMessages`. `LeaseHasReleaser` is not inductive.
`ReleaseInv` adds `StartsAreBusy` (a start in flight marks the runner busy),
`RunsAreBusy` (a turn's consumer excludes a start), `DrainsAreOwn` (a consumer is
in its drain exactly when the start in flight is its own) and `WakersWait` (a
consumer in its wake loop awaits at most one task, so ending that task ends no
other's loop). The proof is one lemma per action, over shared lemmas for what a
hand-off, a start, a failed start and a cancelled consumer change, and for the
lease's operators.

`FifoExclusive` is inductive given types. Its argument is in the operators: a
grant removes the first slot of its beneficiary, which is the only one because
the FIFO has no duplicates (`RemoveFirstThins`); a wake-up leaves a suffix
(`SuffixThins`); and a slot is only ever taken by a conversation that
`try_acquire` has just refused, so not by the holder (`DeclineQueue`).

`CoderTurnsOrderly_proofs` proves what the lease is for. The findings show that
the code keeps it only in part of its environment, so these theorems assume
`Orderly`: a conversation has one runner, prompts fit the pipe, no TTL expires, no
send joins a bookkeeping, no stream recycles its runner late, no restore outlives
its request, and a stop finds the runner idle, in its drain or in its wake loop.
Clients may disconnect at any time, agents exit or fall silent, restores fail.

- `TurnsHold`: `Spec => []TurnHoldsLease`.
- `BusyDriven`: `Spec => []BusyHasDriver`.
- `OneWriterAtATime`: `Spec => []OneWriter`.
- `NoneStranded`: `Spec => []NoStranded`, if moreover no stop falls into the wake
  loop (for the same reason as in `finding_stop_in_bookkeeping`). A follow-up counts
  as stranded when its conversation is in the FIFO of a free lease and nobody is on
  the way to it, and, unless clients disconnect, also when it has neither a slot
  nor a task.

`HoldInv` adds `Calm` to `ReleaseInv`: no consumer is superseded, none runs beside
a start or on a stopped runner, an agent writes only in a turn that is waited for,
a restore holds the lease. `OneWriter` follows from it, since a holder is one
conversation and a conversation one runner. For `NoStranded` the invariant needs
`Registrations` (a conversation's slot holds its own open runner, and only open
runners have follow-ups), `NoneForgotten` and `Slotted`. The argument for
`NoneForgotten` is that each step that frees the lease or takes the last task off
it ends in a hand-off, which either finds a live waiter and starts a task for it or
has emptied the FIFO (`HandsOffFeeds`), and that a runner that parks a follow-up at
a free lease is given it at once. `Slotted` is the half without disconnects: a
runner with follow-ups that does not hold the lease has a slot or a task, because
whoever loses either starts, or declines and takes a slot; only a start whose agent
has exited fails, and nobody is owed what it puts back.

The same module proves `TurnsImplemented`: in the same environment
`CoderTurns` implements `WorkspaceTurns`, `Spec => OneTurnAtATime`. `Viewed` says
what the abstract state is, given who holds the lease; with it before and after a
step, each step is shown to be one abstract action or a stutter: a bookkeeping
whose drain finds a follow-up goes on as `BeginsParked` without letting go, a
failed start of a drawn follow-up `GivesBack`, a stop `Forgets`, and a hand-off
that reaches nobody is not visible. What is in `limbo` counts as parked, so the
put-back itself is not visible either: the follow-up was given up with the lease,
whoever starts in between.

### Session lease

`SessionLease_proofs` proves, for any number of agent processes and terminals and
under every set of hazards:

- `SessionTypes`: `Spec => []TypeOK`.
- `SuccessorsSpared`: `Spec => SuccessorSpared`, an action property.
- `OneOwnerHolds`: `Spec => []OneOwner`.
- `TurnsNeverEvicted`: `Spec => TurnNeverEvicted`, an action property.
- `RequestsAnswered`: `Spec => []NoOrphanRequest`, whose hazards are all but
  `torn` (agentd's read-modify-write and a process's overlap) and `disk`.
- `TimeoutsOffDuty`: `Spec => TimeoutOnlyOffDuty`, an action property.

`OneOwner` and `TurnNeverEvicted` are about quiet behaviours and crashes,
`SuccessorSpared` excludes overlapping writes, `TimeoutOnlyOffDuty` every hazard.

The invariant is built in layers, each for its own hazards. `WritesOwn` (all
hazards): a process owes only its own record, and an unlink only while it
releases; without it not even types are inductive, as a write could put an absent
record's generation into `gen`.
`Pending` (no overlapping read-modify-writes): one write is in flight at most, an
unlink still finds its own record, agentd's write only changes the request.
`Owning` (neither late nor overlapping, no failing write): a serving process is the recorded owner
with a live record, what is written is fresh, and a process that claims the
session finds nobody serving. A tick preserves the last because no owner is about
to go stale when nothing is late.

### Messages of a conversation

`CoderMessages_proofs` proves, for any number of messages, turns and restarts and
under every hazard:

- `TypesCorrect`: `Spec => []TypeOK`.
- `PromptedOnce`: `Spec /\ []BookkeepingInTime => []NoDoublePrompt`.

`TypeOK` bounds the queue, the index and the known turns. The queue, with what is
about to be put back, exceeds its depth by at most one for every start that failed
in a live runner, and by one more once the agent has exited: a start keeps within
that bound as it takes its follow-up out, and only its failure lets the follow-up
return to a queue that filled up meanwhile. This needs that what is current, known
or followed was begun (`Known`) and that a turn number is left for every request
and follow-up (`Counts`). `Outcome` says what the four steps that
may start a turn come to: nothing, a new turn, or the last turn handed out again
with its note and prune. `OnceInv` is why a restart does not forget the last
message: the index has each turn once, with its message, its newest entry is the
last turn that was prompted (`Entries`), and the last prompt is the one of that
entry (`Prompted`). A reopening rebuilds `_turn_order` from the index, so the
message is recognised. `BookkeepingInTime` is needed: a turn that is noted after
`turns_keep` later ones is appended to the index as its newest.

`CoderMessagesJournal_proofs` proves, with the same assumption:

- `JournalsSettle`: `Spec /\ []BookkeepingInTime =>
  [](scope.hazard # "overlap" => JournalSettles)`. Under an `/open` that overlaps the
  end of a runner the requests' half is only model-checked.
- `FollowsExactly`: `Spec /\ []BookkeepingInTime => []FollowExact`.

Neither is inductive, because a restart exchanges the memory for what index and
files say. Three layers of invariants relate them. `MoveInv`: while a turn is in
memory its file, unless it overflowed, has the same items (`Filed`), and an entry
of the index has the turn's status or the one it had before its end (`Listed`,
`Phase`, `Quiet`). `StoryInv`: the items of a turn answer every request but the one
that is open and tell its end once, as the stage and the status say (`Story`); the
file of a listed turn that nobody runs may have one open request, and has no end if
it is listed as running (`Rest`), so what a reconstruction appends settles it,
also when an earlier reconstruction was cut off in the middle (`CountsOfPart`).
`FollowInv`: what the client has is a prefix of the items in memory or, after a
crash, of the file, and nothing but marks of the queue will follow what it was
told is the end (`Shown`). `Carries` says what a step does to one turn in all
places at once; every step is shown to carry something to each turn, or to begin
it (`Comes`), to drop the memory (`Crashed`) or to rebuild it (`Reopened`), and the
layers follow from that. The assumption is needed here too: a note that comes after
the turn's file was pruned brings the turn back with an empty journal.

### Background tasks and notifications

`BackgroundTasks_proofs` proves, for any number of tasks, approvals and faults:

- `TypesKept`: `Spec => []TypeOK`, under every hazard.
- `EndedMeansDead`: `Spec => []TerminalMeansDead`.
- `EndedStays`: `Spec => TerminalStays`, an action property.
- `ApprovalIsShown`: `Spec => []ApprovalShown`.
- `ToldOnlyOnce`: `Spec => []OnceInContext`.

`TypeOK` needs two facts that are not types. A task that has ended has its time,
because every record anyone is about to write keeps that (`Records`); and updates
of a status do not pile up, because each request causes two at most (`Bounded`).
The others add one invariant each. `Workers` (no late heartbeat): while its worker
beats, a task is shown as active and `recover` has not found it stale. `Settled`
(no overlap either): whoever holds a record that was read holds the current one.
`ShownInv` (no overlap): while a request is pending, the last update on its way
that is not merely an answer, or the record if there is none, shows it; otherwise
none of the updates and answers on their way will leave the task waiting
(`Latest`). `ToldOnce` (no cancelled append, no slow
one): what is in the history is acked or is the message being appended, and so is
what `context.jsonl` holds once it has been restored; a restarted agent acks what
the file holds before it claims anything.

### Terminals

`PtySessions_proofs` proves, however the handlers of any number of connections
overlap at their awaits: `TypesKept` (`TypeOK`), `NoneOrphaned` (`NoOrphan`),
`SocketsApart` (`OneSocket`), `OutputContinues` (`LiveContinues`) and `NeverStalls`
(`NoStall`); and, for connections set up one after the other (`scope.orderly`),
`CapKept` (`CapHeld`) and `ResumedOnce` (`OneResumes`).

The invariants are proved in the order in which they rest on one another:
`Ranges`; `Assigned` and `Beginnings`, nothing exists of a session before its
connection has spawned it, so a spawn never meets a live namesake; `Lists`, a
registered session is detached or has exactly one socket; `Processes`, which a
handler that dies between two awaits could break; `Streams`, the queue of a
session is the last chunks it produced, in order, followed at most by the end of
the stream, and a paused PTY has more than the low mark queued; `Shows`, what a
socket has shown, has in hand and finds queued adds up to what was produced; and
`InTurn`, a connection that will resume a conversation finds no session registered
from its claim to its registration, so that a process which resumed it before is
being terminated by then.

### Subsequences

The code filters lists everywhere. The standard `SelectSeq` is recursive and its
definition opaque to the provers, so the modules that are proved about use `Kept`,
the same filter with its recursive function in the open. `Subsequences_proofs`
shows what it keeps: a strictly increasing choice of places (`KeptPlaces`), hence
the elements, their order, their number and their distinctness (`KeptElements`,
`KeptLast`, `KeptAppend`), and that it distributes over concatenation (`KeptConcat`). That the recursion defines the function is itself an
induction, which the library offers only with an operator parameter; it is proved
here from the least number at which it would fail (`LeastNatural`, `Computable`).

### Only model-checked

Liveness is out of the prover's reach: `FollowUpsRun`, `LeaseComesFree`,
`FollowReturns`, `ZombiesStandDown`, `NotBricked`, `NoPhantomTask`, `KillEnds`,
`Delivers`, `Answered`, `NotForgotten`. Every invariant and every action property
that a passing run checks is a theorem, `JournalSettles` where no `/open` overlaps
the end of a runner.

## 5. What is left

In this order; each would get runs, seeded faults and, where its safety argument
is short enough, theorems.

1. `ApprovalRuntime`: the requests of the foreground, shared waiters, timeouts
   and cancellation by source; theorem: every waiter's outcome is the request's.
2. The idle stopper beside `PtySessions` and the coder runners it probes.
3. `BlueprintTransaction`, the wire's merge buffer and broadcast queues, the
   context's checkpoints and rewinds.
4. `CoderMessages` with several followers, torn lines and the gap repair of the
   browser.

## 6. Not modelled, and why

Front ends, the control plane, SDKs, tools, rendering, prompt assembly and the
LLM adapters are I/O or sequential data transformation with no state of their own
that another part can see half-way; they are by far the most of the repository's
lines. Worker and architect runs specialise `WireRunner` without a queue or a
lease. Of the modelled components: the input of a PTY, tickets and warnings; the
output of background tasks and the retention of old ones; cancel and steer of a
turn; an unreadable index or a torn line of a journal; checkpoint contents (git
is a step that takes time). The remaining components of section 1 are listed in
section 5.
