--------------------------- MODULE BackgroundTasks ---------------------------
(***************************************************************************)
(* Background tasks of a session: the manager in the agent's process       *)
(* (background/manager.py), the worker process of a bash task (worker.py), *)
(* the in-process runner of an agent task with its approvals               *)
(* (agent_runner.py), and the notifications of their ends.                 *)
(*                                                                         *)
(* runtime.json of a task is read and rewritten by all of them without a   *)
(* lock: a read-modify-write is two actions where another writer can fall  *)
(* in between.                                                             *)
(***************************************************************************)
EXTENDS Notifications

CONSTANTS
    Tasks,          \* background tasks
    NoIO,           \* no write is owed to runtime.json
    MaxRunning,     \* max_running_tasks
    MaxAsks,        \* bound: approvals an agent task requests
    MaxFaults,      \* bound: ends of the agent's process, cancelled turns, handlers that raise
    Environments    \* scope: sets of AllHazards, one of which a run is under

(* stall: recover() finds a worker's heartbeat stale though it is alive;   *)
(* overlap: read-modify-writes of different writers overlap; crash: a      *)
(* worker dies without a word; restart: the agent's process ends and a new *)
(* one is started; cancel: a turn is cancelled while notifications are     *)
(* delivered; slow: claims go stale while they are handled; sink: the      *)
(* handler of a notification raises.                                       *)
AllHazards == {"stall", "overlap", "crash", "restart", "cancel", "slow", "sink"}

Ends == {"completed", "failed", "killed", "lost"}
Reasons == Ends \cup {"timed_out"}
Active == {"created", "starting", "running", "awaiting_approval"}
Runtimes == [status : {"none"} \cup Active \cup Ends, child : BOOLEAN,
             finished : BOOLEAN, timedOut : BOOLEAN]

ASSUME BackgroundTasksAssumption ==
    /\ Events = Tasks \X Reasons
    /\ NoIO \notin Runtimes
    /\ MaxRunning \in Nat \ {0} /\ MaxAsks \in Nat /\ MaxFaults \in Nat
    /\ Environments \subseteq SUBSET AllHazards

VARIABLES
    kind,       \* bash or agent
    rt,         \* runtime.json
    kill,       \* control.json asks for the task's end
    worker,     \* the worker process of a bash task
    known,      \* the runtime the worker wrote when the command was running
    wio,        \* the write the worker owes runtime.json
    child,      \* the command: its life, and the signal it was sent
    late,       \* the worker's timeout has passed
    agent,      \* the asyncio task of an agent task
    asks,       \* approvals it has requested so far
    pending,    \* and those that are pending
    marks,      \* status updates for approvals on their way through loop and threads
    mgr,        \* what the manager is in the middle of
    faults,     \* so far
    hz          \* the hazards of this behaviour

vars == <<notificationVars, kind, rt, kill, worker, known, wio, child, late,
          agent, asks, pending, marks, mgr, faults, hz>>

bashVars == <<kill, worker, known, wio, child, late>>
agentVars == <<agent, asks, pending, marks>>

NoRuntime == [status |-> "none", child |-> FALSE, finished |-> FALSE, timedOut |-> FALSE]
WorkerPlaces == {"off", "launched", "started", "spawned", "running", "gone"}
AgentPlaces == {"off", "new", "running", "cancelling", "gone"}
Idle == [at |-> "idle", task |-> NoIO, io |-> NoIO, stale |-> {}]

Init ==
    /\ NotificationsInit
    /\ kind \in [Tasks -> {"bash", "agent"}]
    /\ rt = [t \in Tasks |-> NoRuntime]
    /\ kill = [t \in Tasks |-> FALSE]
    /\ worker = [t \in Tasks |-> "off"]
    /\ known = [t \in Tasks |-> NoRuntime]
    /\ wio = [t \in Tasks |-> NoIO]
    /\ child = [t \in Tasks |-> [life |-> "none", signal |-> "none"]]
    /\ late = [t \in Tasks |-> FALSE]
    /\ agent = [t \in Tasks |-> "off"]
    /\ asks = [t \in Tasks |-> 0]
    /\ pending = [t \in Tasks |-> 0]
    /\ marks = [t \in Tasks |-> <<>>]
    /\ mgr = Idle
    /\ faults = 0
    /\ hz \in Environments

---------------------------------------------------------------------------
IsTerminal(r) == r.status \in Ends

Status(r, status) == [r EXCEPT !.status = status]
Finished(r, status) == [r EXCEPT !.status = status, !.finished = TRUE]
Writes(t, r) == rt' = [rt EXCEPT ![t] = r]

\* _mark_task_*: a status is not changed any more once it is terminal.
MarkedAs(t, r) == IF IsTerminal(rt[t]) THEN rt[t] ELSE r

\* The agent's event loop is free, and no thread or worker is overtaken by it.
LoopFree ==
    /\ mgr.at = "idle"
    /\ "overlap" \in hz \/ \A t \in Tasks : \A i \in DOMAIN marks[t] : marks[t][i].io = NoIO
WorkerMayRead(t) == wio[t] = NoIO /\ ("overlap" \in hz \/ mgr.at # "create")

ActiveTasks == {t \in Tasks : rt[t].status \in Active}
MayCreate(t) ==
    /\ rt[t].status = "none"
    /\ Cardinality(ActiveTasks) < MaxRunning

---------------------------------------------------------------------------
(* The manager and bash tasks.                                             *)

\* create_bash_task up to the launch of the worker, which may fail.
CreateBash(t) ==
    /\ LoopFree /\ kind[t] = "bash" /\ MayCreate(t)
    /\ \/ /\ Writes(t, Status(NoRuntime, "created"))
          /\ worker' = [worker EXCEPT ![t] = "launched"]
          /\ mgr' = [Idle EXCEPT !.at = "create", !.task = t]
       \/ Writes(t, Finished(NoRuntime, "failed")) /\ UNCHANGED <<worker, mgr>>
    /\ UNCHANGED <<notificationVars, kind, kill, known, wio, child, late, agentVars,
                   faults, hz>>

\* It reads the runtime again; what the worker has written by then stays.
CreateReads ==
    /\ mgr.at = "create" /\ mgr.io = NoIO
    /\ LET t == mgr.task IN
       IF rt[t].status = "created"
       THEN mgr' = [mgr EXCEPT !.io = Status(rt[t], "starting")]
       ELSE mgr' = Idle
    /\ UNCHANGED <<notificationVars, kind, rt, bashVars, agentVars, faults, hz>>

CreateWrites ==
    /\ mgr.at = "create" /\ mgr.io # NoIO
    /\ Writes(mgr.task, mgr.io)
    /\ mgr' = Idle
    /\ UNCHANGED <<notificationVars, kind, bashVars, agentVars, faults, hz>>

Signalled(c, signal) == IF c.life = "alive" THEN [c EXCEPT !.signal = signal] ELSE c

\* Mutant: a bash task is marked as killed at once, like an agent task.
KillBashAtOnce(t) ==
    /\ LoopFree /\ kind[t] = "bash" /\ rt[t].status \in Active /\ ~kill[t]
    /\ kill' = [kill EXCEPT ![t] = TRUE]
    /\ Writes(t, Finished(rt[t], "killed"))
    /\ UNCHANGED <<notificationVars, kind, worker, known, wio, child, late, agentVars,
                   mgr, faults, hz>>

\* kill of a bash task: the control file, and SIGTERM to a known process group.
KillBash(t) ==
    /\ LoopFree /\ kind[t] = "bash" /\ rt[t].status \in Active /\ ~kill[t]
    /\ kill' = [kill EXCEPT ![t] = TRUE]
    /\ child' = [child EXCEPT ![t] =
                    IF rt[t].child /\ @.signal = "none" THEN Signalled(@, "term") ELSE @]
    /\ UNCHANGED <<notificationVars, kind, rt, worker, known, wio, late, agentVars,
                   mgr, faults, hz>>

---------------------------------------------------------------------------
(* The worker process.                                                     *)

WorkerOwes(t, r) == wio' = [wio EXCEPT ![t] = r]
WorkerGoes(t, place) == worker' = [worker EXCEPT ![t] = place]

\* Its read-modify-writes: at its start, when the command runs (or could not
\* be run), and on a heartbeat, which ends with the task.
WorkerReads(t) ==
    /\ WorkerMayRead(t)
    /\ \/ worker[t] = "launched" /\ WorkerOwes(t, Status(rt[t], "starting"))
       \/ /\ worker[t] = "spawned"
          /\ WorkerOwes(t, IF child[t].life = "none" THEN Finished(rt[t], "failed")
                           ELSE [rt[t] EXCEPT !.status = "running", !.child = TRUE])
       \/ worker[t] = "running" /\ ~rt[t].finished /\ WorkerOwes(t, rt[t])
    /\ UNCHANGED <<notificationVars, kind, rt, kill, worker, known, child, late,
                   agentVars, mgr, faults, hz>>

WorkerWrites(t) ==
    /\ wio[t] # NoIO
    /\ Writes(t, wio[t])
    /\ WorkerOwes(t, NoIO)
    /\ WorkerGoes(t, IF worker[t] = "launched" THEN "started"
                     ELSE IF worker[t] = "spawned" /\ child[t].life = "none" THEN "gone"
                     ELSE "running")
    /\ known' = [known EXCEPT ![t] = IF worker[t] = "spawned" THEN wio[t] ELSE @]
    /\ UNCHANGED <<notificationVars, kind, kill, child, late, agentVars, mgr, faults, hz>>

\* Before the command starts the worker looks at the control file once.
WorkerStartsCommand(t) ==
    /\ worker[t] = "started"
    /\ \/ /\ kill[t]
          /\ WorkerMayRead(t)
          /\ Writes(t, Finished(Status(rt[t], "starting"), "killed"))
          /\ WorkerGoes(t, "gone")
          /\ UNCHANGED child
       \/ /\ ~kill[t]
          /\ WorkerGoes(t, "spawned")
          /\ \/ child' = [child EXCEPT ![t].life = "alive"]
             \/ UNCHANGED child
          /\ UNCHANGED rt
    /\ UNCHANGED <<notificationVars, kind, kill, known, wio, late, agentVars, mgr,
                   faults, hz>>

\* Mutant: the control file is only looked at before the command starts.
TerminatesLate(t) ==
    /\ worker[t] = "running" /\ wio[t] = NoIO /\ child[t].life = "alive"
    /\ late[t]
    /\ child[t].signal # "kill"
    /\ child' = [child EXCEPT ![t].signal = IF @ = "none" THEN "term" ELSE "kill"]
    /\ UNCHANGED <<notificationVars, kind, rt, kill, worker, known, wio, late, agentVars,
                   mgr, faults, hz>>

\* _terminate_process for a kill request or the timeout, at first gently.
Terminates(t) ==
    /\ worker[t] = "running" /\ wio[t] = NoIO /\ child[t].life = "alive"
    /\ kill[t] \/ late[t]
    /\ child[t].signal # "kill"
    /\ child' = [child EXCEPT ![t].signal = IF @ = "none" THEN "term" ELSE "kill"]
    /\ UNCHANGED <<notificationVars, kind, rt, kill, worker, known, wio, late, agentVars,
                   mgr, faults, hz>>

TimesOut(t) ==
    /\ worker[t] = "running" /\ wio[t] = NoIO /\ child[t].life = "alive" /\ ~late[t]
    /\ late' = [late EXCEPT ![t] = TRUE]
    /\ UNCHANGED <<notificationVars, kind, rt, kill, worker, known, wio, child, agentVars,
                   mgr, faults, hz>>

\* The command ends by itself, or by a signal it does not ignore.
ChildEnds(t) ==
    /\ child[t].life = "alive"
    /\ child' = [child EXCEPT ![t].life =
                    IF child[t].signal = "none" THEN "succeeded" ELSE "failed"]
    /\ UNCHANGED <<notificationVars, kind, rt, kill, worker, known, wio, late, agentVars,
                   mgr, faults, hz>>

\* The last write is made from what the worker knew when the command started.
WorkerEnd(t) ==
    LET r == known[t] IN
    IF late[t] THEN [Finished(r, "failed") EXCEPT !.timedOut = TRUE]
    ELSE IF kill[t] THEN Finished(r, "killed")
    ELSE Finished(r, IF child[t].life = "succeeded" THEN "completed" ELSE "failed")

WorkerCloses(t) ==
    /\ worker[t] = "running" /\ wio[t] = NoIO /\ child[t].life \in {"succeeded", "failed"}
    /\ "overlap" \in hz \/ mgr.at # "create"
    /\ Writes(t, WorkerEnd(t))
    /\ WorkerGoes(t, "gone")
    /\ UNCHANGED <<notificationVars, kind, kill, known, wio, child, late, agentVars, mgr,
                   faults, hz>>

WorkerCrashes(t) ==
    /\ "crash" \in hz
    /\ worker[t] \notin {"off", "gone"}
    /\ WorkerGoes(t, "gone")
    /\ WorkerOwes(t, NoIO)
    /\ UNCHANGED <<notificationVars, kind, rt, kill, known, child, late, agentVars, mgr,
                   faults, hz>>

---------------------------------------------------------------------------
(* Agent tasks and their approvals.                                        *)

AgentGoes(t, place) == agent' = [agent EXCEPT ![t] = place]
Live(t) == agent[t] \in {"new", "running", "cancelling"}

CreateAgent(t) ==
    /\ LoopFree /\ kind[t] = "agent" /\ MayCreate(t)
    /\ Writes(t, Status(NoRuntime, "starting"))
    /\ AgentGoes(t, "new")
    /\ UNCHANGED <<notificationVars, kind, bashVars, asks, pending, marks, mgr, faults, hz>>

AgentRuns(t) ==
    /\ LoopFree /\ agent[t] = "new"
    /\ Writes(t, MarkedAs(t, Status(rt[t], "running")))
    /\ AgentGoes(t, "running")
    /\ UNCHANGED <<notificationVars, kind, bashVars, asks, pending, marks, mgr, faults, hz>>

Mark(status) == [status |-> status, io |-> NoIO]

\* request_created: a thread is to show that the task awaits approval.
AgentAsks(t) ==
    /\ LoopFree /\ agent[t] = "running" /\ asks[t] < MaxAsks
    /\ asks' = [asks EXCEPT ![t] = @ + 1]
    /\ pending' = [pending EXCEPT ![t] = @ + 1]
    /\ marks' = [marks EXCEPT ![t] = Append(@, Mark("awaiting_approval"))]
    /\ UNCHANGED <<notificationVars, kind, rt, bashVars, agent, mgr, faults, hz>>

\* request_resolved: a task of the loop is scheduled.
Answered(t) ==
    /\ LoopFree /\ pending[t] > 0
    /\ pending' = [pending EXCEPT ![t] = @ - 1]
    /\ marks' = [marks EXCEPT ![t] = Append(@, Mark("answered"))]
    /\ UNCHANGED <<notificationVars, kind, rt, bashVars, agent, asks, mgr, faults, hz>>

\* Scheduled tasks run in the order of the answers.
Notable(t, i) ==
    /\ LoopFree
    /\ i \in DOMAIN marks[t] /\ marks[t][i].status = "answered"
    /\ \A h \in 1..(i - 1) : marks[t][h].status # "answered"

\* Mutant: any answer shows the task as running, whatever else is pending.
NoticesAny(t, i) ==
    /\ Notable(t, i)
    /\ marks' = [marks EXCEPT ![t][i].status = "running"]
    /\ UNCHANGED <<notificationVars, kind, rt, bashVars, agent, asks, pending, mgr, faults, hz>>

\* When it runs: with no request pending by then, a thread is to show that the
\* task is running again.
Notices(t, i) ==
    /\ Notable(t, i)
    /\ marks' = IF pending[t] = 0 THEN [marks EXCEPT ![t][i].status = "running"]
                ELSE [marks EXCEPT ![t] = RemoveAt(@, i)]
    /\ UNCHANGED <<notificationVars, kind, rt, bashVars, agent, asks, pending, mgr, faults, hz>>

\* Mutant: the thread does not look whether the task has ended.
MarkReadsAnyway(t, i) ==
    /\ i \in DOMAIN marks[t] /\ marks[t][i].io = NoIO /\ marks[t][i].status # "answered"
    /\ "overlap" \in hz \/ (i = 1 /\ mgr.at = "idle")
    /\ marks' = [marks EXCEPT ![t][i].io = Status(rt[t], marks[t][i].status)]
    /\ UNCHANGED <<notificationVars, kind, rt, bashVars, agent, asks, pending, mgr,
                   faults, hz>>

\* A thread's read of the runtime, in the order of the requests unless threads
\* overlap, and its write.
MarkReads(t, i) ==
    /\ i \in DOMAIN marks[t] /\ marks[t][i].io = NoIO /\ marks[t][i].status # "answered"
    /\ "overlap" \in hz \/ (i = 1 /\ mgr.at = "idle")
    /\ marks' = IF IsTerminal(rt[t]) THEN [marks EXCEPT ![t] = RemoveAt(@, i)]
                ELSE [marks EXCEPT ![t][i].io = Status(rt[t], marks[t][i].status)]
    /\ UNCHANGED <<notificationVars, kind, rt, bashVars, agent, asks, pending, mgr,
                   faults, hz>>

MarkWrites(t, i) ==
    /\ i \in DOMAIN marks[t] /\ marks[t][i].io # NoIO
    /\ Writes(t, marks[t][i].io)
    /\ marks' = [marks EXCEPT ![t] = RemoveAt(@, i)]
    /\ UNCHANGED <<notificationVars, kind, bashVars, agent, asks, pending, mgr, faults, hz>>

\* Updates no thread has begun yet are dropped.
Begun(ms) == Kept(ms, {m \in ToSet(ms) : m.io # NoIO})

\* The runner's finally block, which also cancels its pending requests.
AgentLeaves(t) ==
    /\ AgentGoes(t, "gone")
    /\ marks' = [marks EXCEPT ![t] = Begun(@)]
    /\ pending' = [pending EXCEPT ![t] = 0]
    /\ UNCHANGED <<notificationVars, kind, bashVars, asks, mgr, faults, hz>>

AgentEnds(t) ==
    /\ LoopFree /\ agent[t] = "running"
    /\ \/ pending[t] = 0 /\ Writes(t, MarkedAs(t, Finished(rt[t], "completed")))
       \/ Writes(t, MarkedAs(t, Finished(rt[t], "failed")))
       \/ Writes(t, MarkedAs(t, [Finished(rt[t], "failed") EXCEPT !.timedOut = TRUE]))
    /\ AgentLeaves(t)

\* kill of an agent task: the status at once, its requests cancelled (one event
\* stands for theirs), the cancellation of the task later.
KillAgent(t) ==
    /\ LoopFree /\ kind[t] = "agent" /\ rt[t].status \in Active
    /\ Writes(t, MarkedAs(t, Finished(rt[t], "killed")))
    /\ pending' = [pending EXCEPT ![t] = 0]
    /\ marks' = [marks EXCEPT ![t] =
                    IF pending[t] > 0 THEN Append(@, Mark("answered")) ELSE @]
    /\ agent' = [agent EXCEPT ![t] = IF Live(t) THEN "cancelling" ELSE @]
    /\ UNCHANGED <<notificationVars, kind, bashVars, asks, mgr, faults, hz>>

AgentCancelled(t) ==
    /\ LoopFree /\ agent[t] = "cancelling"
    /\ Writes(t, MarkedAs(t, Finished(rt[t], "killed")))
    /\ AgentLeaves(t)

---------------------------------------------------------------------------
(* reconcile and the delivery of notifications.                            *)

\* Mutant: agent tasks are taken for running as long as nothing ended them.
BashMayBeStale(t) ==
    /\ rt[t].status \in Active
    /\ kind[t] = "bash" /\ (worker[t] = "gone" \/ "stall" \in hz)

\* Tasks recover() takes for dead: a bash task whose worker no longer beats
\* (or, stalled, is only late), an agent task nobody runs.
MayBeStale(t) ==
    /\ rt[t].status \in Active
    /\ IF kind[t] = "bash" THEN worker[t] = "gone" \/ "stall" \in hz ELSE ~Live(t)

\* recover() reads: a bash task may still be within its fifteen seconds.
Reconciles(purpose) ==
    /\ \E stale \in SUBSET {t \in Tasks : MayBeStale(t)} :
          /\ {t \in Tasks : MayBeStale(t) /\ kind[t] = "agent"} \subseteq stale
          /\ mgr' = [at |-> purpose, task |-> NoIO, io |-> rt, stale |-> stale]
    /\ UNCHANGED <<notificationVars, kind, rt, bashVars, agentVars, hz>>

DeliveryBegins ==
    /\ LoopFree
    /\ \/ Reconciles("wire")
       \/ queue = <<>> /\ Reconciles("llm")
    /\ UNCHANGED faults

\* The record recover() writes, from what it read.
RecoveredTask(t) ==
    Finished(mgr.io[t], IF kind[t] = "bash" /\ kill[t] THEN "killed" ELSE "lost")

Reason(r) == IF r.timedOut THEN "timed_out" ELSE r.status

\* publish_terminal_notifications of what is terminal in a runtime.
Announced(runtime) ==
    {<<t, Reason(runtime[t])>> : t \in {u \in Tasks : IsTerminal(runtime[u])}}

AfterRecover == [t \in Tasks |-> IF t \in mgr.stale THEN RecoveredTask(t) ELSE rt[t]]

Publishes ==
    /\ mgr.at \in {"wire", "llm", "start"}
    /\ rt' = AfterRecover
    /\ log' \in Published(Announced(AfterRecover))
    /\ mgr' = Idle

PublishedDelivery == WithNew(delivery, Unpublished(Announced(AfterRecover)))

WireDelivery ==
    /\ mgr.at = "wire"
    /\ Publishes
    /\ \E stale \in SUBSET StaleClaims(PublishedDelivery, "slow" \in hz) :
          LET recovered == Recovered(PublishedDelivery, stale) IN
          \E failing \in SUBSET ToSet(Claimable(log', recovered, "wire")) :
             /\ failing = {} \/ ("sink" \in hz /\ faults + Cardinality(failing) <= MaxFaults)
             /\ DeliversToWire(log', recovered, failing)
             /\ faults' = faults + Cardinality(failing)
    /\ UNCHANGED <<kind, bashVars, agentVars, hz>>

ModelDelivery ==
    /\ mgr.at = "llm"
    /\ Publishes
    /\ \E stale \in SUBSET StaleClaims(PublishedDelivery, "slow" \in hz) :
          DeliversToModel(log', Recovered(PublishedDelivery, stale))
    /\ UNCHANGED <<kind, bashVars, agentVars, faults, hz>>

ModelGoesOn ==
    /\ mgr.at \in {"idle", "create"}
    /\ LineWritten \/ (mgr.at = "idle" /\ ModelAcks)
    /\ UNCHANGED <<kind, rt, bashVars, agentVars, mgr, faults, hz>>

TurnCancelled ==
    /\ "cancel" \in hz /\ mgr.at = "idle" /\ faults < MaxFaults
    /\ DeliveryCancelled
    /\ faults' = faults + 1
    /\ UNCHANGED <<kind, rt, bashVars, agentVars, mgr, hz>>

---------------------------------------------------------------------------
(* The agent's process ends, taking runners and threads with it, and a new *)
(* one begins with recover(), reconcile() and the acks of what the history *)
(* it restored has already.                                                *)

AgentProcessEnds ==
    /\ "restart" \in hz /\ mgr.at # "down" /\ faults < MaxFaults
    /\ NotificationsCrash
    /\ agent' = [t \in Tasks |-> IF Live(t) THEN "gone" ELSE agent[t]]
    /\ pending' = [t \in Tasks |-> 0]
    /\ marks' = [t \in Tasks |-> <<>>]
    /\ mgr' = [Idle EXCEPT !.at = "down"]
    /\ faults' = faults + 1
    /\ UNCHANGED <<log, delivery, kind, rt, bashVars, asks, hz>>

AgentProcessStarts ==
    /\ mgr.at = "down"
    /\ Reconciles("start")
    /\ UNCHANGED faults

StartGoesOn ==
    /\ mgr.at = "start"
    /\ Publishes
    /\ \E stale \in SUBSET StaleClaims(delivery, FALSE) :
          delivery' = Restored(Recovered(PublishedDelivery, stale))
    /\ mem' = disk
    /\ UNCHANGED <<disk, queue, written, kind, bashVars, agentVars, faults, hz>>

---------------------------------------------------------------------------
WorkerStep(t) ==
    \/ WorkerReads(t) \/ WorkerWrites(t) \/ WorkerStartsCommand(t)
    \/ Terminates(t) \/ WorkerCloses(t)

AgentStep(t) ==
    \/ AgentRuns(t) \/ AgentCancelled(t)
    \/ \E i \in DOMAIN marks[t] : Notices(t, i) \/ MarkReads(t, i) \/ MarkWrites(t, i)

ManagerStep ==
    \/ CreateReads \/ CreateWrites
    \/ WireDelivery \/ ModelDelivery \/ ModelGoesOn
    \/ AgentProcessStarts \/ StartGoesOn

Environment ==
    \/ \E t \in Tasks :
          \/ CreateBash(t) \/ KillBash(t) \/ TimesOut(t) \/ ChildEnds(t) \/ WorkerCrashes(t)
          \/ CreateAgent(t) \/ KillAgent(t) \/ AgentAsks(t) \/ Answered(t) \/ AgentEnds(t)
    \/ TurnCancelled \/ AgentProcessEnds

Next ==
    \/ Environment \/ DeliveryBegins \/ ManagerStep
    \/ \E t \in Tasks : WorkerStep(t) \/ AgentStep(t)

Spec == Init /\ [][Next]_vars

(* Fairness.  A worker's threads and a process's event loop go on, and what *)
(* the guards only keep out of the way comes again (SF).  A command killed  *)
(* with SIGKILL dies.  The session stays in use: it is started again, and   *)
(* its deliveries come again, at last with the heartbeat of a dead worker,  *)
(* and claims nobody handles, older than their limits.                      *)
WorkerBegins(t) ==
    \/ worker[t] # "running" /\ WorkerReads(t)
    \/ WorkerWrites(t) \/ WorkerStartsCommand(t)

LateDelivery ==
    /\ DeliveryBegins
    /\ {t \in Tasks : MayBeStale(t) /\ (kind[t] = "bash" => worker[t] = "gone")} \subseteq mgr'.stale

RecoversClaims ==
    /\ WireDelivery
    /\ \A e \in Events : <<e, "llm">> \in StaleClaims(delivery, FALSE) => delivery'[e]["llm"] # "claimed"
    /\ \A e \in Events : delivery'[e]["wire"] # "claimed"

Fairness ==
    /\ WF_vars(ManagerStep)
    /\ SF_vars(LateDelivery /\ mgr'.at = "wire") /\ SF_vars(LateDelivery /\ mgr'.at = "llm")
    /\ SF_vars(RecoversClaims) /\ SF_vars(ModelGoesOn)
    /\ \A t \in Tasks :
          /\ WF_vars(WorkerBegins(t)) /\ SF_vars(Terminates(t) \/ WorkerCloses(t))
          /\ WF_vars(ChildEnds(t) /\ child[t].signal = "kill")
          /\ SF_vars(AgentStep(t))

FairSpec == Spec /\ Fairness

---------------------------------------------------------------------------
(* Properties.                                                             *)

Outside(hazards) == hz \cap hazards = {}

\* Every variable keeps to its range; runtime.json never holds a half-made
\* record, and a terminal status comes with finished_at (models.py TaskRuntime).
TypeOK ==
    /\ NotificationsTypeOK
    /\ kind \in [Tasks -> {"bash", "agent"}]
    /\ rt \in [Tasks -> Runtimes] /\ known \in [Tasks -> Runtimes]
    /\ wio \in [Tasks -> Runtimes \cup {NoIO}]
    /\ kill \in [Tasks -> BOOLEAN] /\ late \in [Tasks -> BOOLEAN]
    /\ worker \in [Tasks -> WorkerPlaces] /\ agent \in [Tasks -> AgentPlaces]
    /\ child \in [Tasks -> [life : {"none", "alive", "succeeded", "failed"},
                            signal : {"none", "term", "kill"}]]
    /\ asks \in [Tasks -> 0..MaxAsks] /\ pending \in [Tasks -> 0..MaxAsks]
    /\ \A t \in Tasks : /\ Len(marks[t]) <= 2 * MaxAsks
                        /\ IsTerminal(rt[t]) => rt[t].finished
    /\ mgr.at \in {"idle", "create", "wire", "llm", "down", "start"}
    /\ faults \in 0..MaxFaults /\ hz \in Environments

\* A task that has ended stays in the state it ended in: neither a late
\* approval, a late cancellation, a recovery nor the worker's last write
\* changes it (the guards of _mark_task_* in manager.py).  Under a stalled
\* heartbeat or overlapping writes it does not hold.
TerminalStays ==
    [][Outside({"stall", "overlap"}) =>
        \A t \in Tasks : IsTerminal(rt[t]) => rt'[t] = rt[t]]_vars

\* A bash task shown as ended has no command running any more (worker.py
\* waits for it before the last write).
TerminalMeansDead ==
    Outside({"stall", "crash"}) =>
        \A t \in Tasks : IsTerminal(rt[t]) => child[t].life # "alive"

\* A running agent task is shown to await approval exactly while one of its
\* requests is pending, once the threads are done (agent_runner.py events).
ApprovalShown ==
    Outside({"overlap"}) =>
        \A t \in Tasks :
            agent[t] = "running" /\ marks[t] = <<>> =>
                (rt[t].status = "awaiting_approval") = (pending[t] > 0)

\* Whatever the model is told about a task's end it is told once, also by an
\* agent that was restarted in the middle of it; unless a turn is cancelled in
\* the delivery or claims go stale under a slow handler.
OnceInContext ==
    Outside({"cancel", "slow"}) => \A e \in Events : mem[e] <= 1

\* A task that is shown as active but has neither worker nor runner any more
\* does not stay so, under every hazard (recover, manager.py).
Phantom(t) ==
    /\ rt[t].status \in Active
    /\ IF kind[t] = "bash" THEN worker[t] = "gone" ELSE ~Live(t)
NoPhantomTask == []<>(\A t \in Tasks : ~Phantom(t))

\* A bash task that is asked to end ends, whenever the request came.
KillEnds == []<>(\A t \in Tasks : kill[t] => IsTerminal(rt[t]))

\* Every notification reaches every sink: failures of a sink, cancelled turns
\* and restarts between claim and ack only delay it.
AllDelivered == \A e \in ToSet(log), s \in Sinks : delivery[e][s] = "acked"
Delivers == []<>AllDelivered
=============================================================================
