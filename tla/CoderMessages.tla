---------------------------- MODULE CoderMessages ----------------------------
(***************************************************************************)
(* The messages of one coder conversation: sendIds, the follow-up queue,   *)
(* the journal of every turn in memory and on disk, a client that follows  *)
(* a turn, and what a restart of agentd makes of it (coder_runner.py,      *)
(* wire_runner.py, coder_journal.py).                                      *)
(*                                                                         *)
(* An action is the code between two awaits that really suspend; the lease *)
(* is "free", "mine" or some "other"'s (CoderTurns models it whole).       *)
(* Turns are numbered in the order they are begun; a message is its        *)
(* sendId; an item of a journal is its kind.                               *)
(***************************************************************************)
EXTENDS Naturals, Sequences, SequencesExt, Subsequences

CONSTANTS
    Messages,   \* sendIds
    NoMessage,
    Depth,      \* max_queue_depth
    RamKeep,    \* _TURN_KEEP
    Keep,       \* turns_keep
    MaxTurns,   \* bound on turns begun
    Scopes      \* scope: bounds on requests, failed starts and restarts, the items
                \* max_bytes leaves room for, a hazard, whether others take the lease,
                \* whether turns ask, and the turns a client follows

ASSUME CoderMessagesAssumption ==
    /\ NoMessage \notin Messages
    /\ Depth \in Nat /\ RamKeep \in Nat \ {0} /\ Keep \in Nat \ {0} /\ MaxTurns \in Nat
    /\ Scopes \subseteq [sends : Nat, fails : Nat, restarts : Nat, room : Nat,
                         hazard : {"none", "late", "in_step", "overlap"}, others : BOOLEAN,
                         asks : BOOLEAN, follows : SUBSET Nat]
    /\ \A s \in Scopes : s.sends + s.fails <= MaxTurns

VARIABLES
    runner,     \* the conversation's runner: none, alive, or its agent has exited
    turn,       \* the TurnState of each turn
    order,      \* _turn_order: the turns /turn and /follow know
    current,    \* _current, 0 for None
    start,      \* how the start in flight came about
    asking,     \* _pending_requests is not empty
    queue,      \* the follow-up queue
    limbo,      \* follow-ups whose start failed and which are not put back yet
    lease,      \* the workspace's lease
    waiter,     \* this conversation has a place in the lease's FIFO
    index,      \* turns.json
    journal,    \* the turns' files, and which of them _overflowed
    leaving,    \* a runner no longer registered: its turns and its copy of turns.json,
                \* and the turns whose bookkeeping it has yet to do
    client,     \* a client that follows a turn
    prompts,    \* history: the messages the agent was prompted with
    used,       \* turns begun, requests, failed starts, restarts
    scope       \* the bounds of this behaviour

vars == <<runner, turn, order, current, start, asking, queue, limbo, lease, waiter, index, journal,
          leaving, client, prompts, used, scope>>

TurnIds == 1..MaxTurns
Ends == {"finished", "failed", "interrupted"}
Kinds == Ends \cup {"turn", "pre", "request", "resolved", "cancelled", "queued", "post",
                    "error", "overflow"}
Stages == {"none", "pre", "run", "post", "handing", "closed", "unsent"}
NoTurn == [msg |-> NoMessage, status |-> "failed", stage |-> "none", items |-> <<>>]
NoTurns == [t \in TurnIds |-> NoTurn]
Gone == [turn |-> NoTurns, index |-> <<>>, posts |-> {}]
Idle == [drained |-> FALSE, fresh |-> FALSE, by |-> 0]

Init ==
    /\ scope \in Scopes
    /\ runner = "down"
    /\ turn = NoTurns
    /\ order = <<>> /\ current = 0 /\ start = Idle /\ asking = FALSE
    /\ queue = <<>> /\ limbo = <<>> /\ lease = "free" /\ waiter = FALSE
    /\ index = <<>>
    /\ journal = [files |-> [t \in TurnIds |-> <<>>], full |-> {}]
    /\ leaving = Gone
    /\ client = [turn |-> 0, seen |-> <<>>, state |-> "off"]
    /\ prompts = <<>>
    /\ used = [turns |-> 0, sends |-> 0, fails |-> 0, restarts |-> 0]

---------------------------------------------------------------------------
(* The journal.                                                            *)

Newest(n, seq) == SubSeq(seq, (IF Len(seq) > n THEN Len(seq) - n ELSE 0) + 1, Len(seq))

\* _append to the file: the item that fills it is followed by a marker, later
\* ones are dropped.
Stored(j, t, kinds) ==
    LET n == Len(j.files[t])
        left == IF n < scope.room THEN scope.room - n ELSE 0
    IN  IF t \in j.full THEN j
        ELSE IF Len(kinds) <= left THEN [j EXCEPT !.files[t] = @ \o kinds]
        ELSE [files |-> [j.files EXCEPT ![t] = @ \o SubSeq(kinds, 1, left + 1) \o <<"overflow">>],
              full |-> j.full \cup {t}]

\* _append to memory.
Noting(ts, t, kinds) == [ts EXCEPT ![t].items = @ \o kinds]

\* _journal_note_turn: update or append, and keep the newest.
Noted(idx, ts, t) ==
    LET entry == [turn |-> t, msg |-> ts[t].msg, status |-> ts[t].status]
    IN  IF \E i \in DOMAIN idx : idx[i].turn = t
        THEN [i \in DOMAIN idx |-> IF idx[i].turn = t THEN entry ELSE idx[i]]
        ELSE Newest(Keep, Append(idx, entry))

\* prune: the files of turns that left the index go.
Pruned(j, idx) ==
    LET kept == {idx[i].turn : i \in DOMAIN idx}
    IN  [files |-> [t \in TurnIds |-> IF t \in kept THEN j.files[t] ELSE <<>>],
         full |-> j.full \cap kept]

---------------------------------------------------------------------------
(* What a runner knows.                                                    *)

Busy == current # 0 /\ turn[current].status = "running"
IsRunning(m) == Busy /\ turn[current].msg = m

\* Mutant: a resend of the turn that has just finished is not recognised.
HandledWhileRunning(m) == IsRunning(m)

\* The idempotence of start_turn and enqueue: the running turn, or the last.
Handled(m) == IsRunning(m) \/ (order # <<>> /\ turn[Last(order)].msg = m)

\* Mutant: one more follow-up than max_queue_depth.
IsFullBeyond(q) == Len(q) > Depth

IsFull(q) == Len(q) >= Depth

\* Mutant: a follower stops at the terminal status, before the bookkeeping.
SettledEarly(t) == turn[t].status # "running"

\* TurnState.closed
Settled(t) == turn[t].stage \in {"closed", "none"}

\* Notifications of _journal_cond.
Woken == IF client.state = "waiting" THEN [client EXCEPT !.state = "on"] ELSE client

\* Mutant: _run_turn sets closed and notifies nobody.
ClosesSilently(ts, t) == turn' = [ts EXCEPT ![t].stage = "closed"] /\ UNCHANGED client

\* The end of _run_turn.
Closes(ts, t) == turn' = [ts EXCEPT ![t].stage = "closed"] /\ client' = Woken

---------------------------------------------------------------------------
(* Starting turns, by a request or by a drain, from what the step has made *)
(* of turns, journal, index, queue, lease and FIFO place before.           *)

\* start_turn up to the pre-turn checkpoint.
Begins(m, ts, j, idx, q, l, w, drained, by) ==
    LET t == used.turns + 1
    IN  /\ turn' = [ts EXCEPT ![t] = [msg |-> m, status |-> "running", stage |-> "pre",
                                      items |-> <<"turn">>]]
        /\ journal' = Stored(j, t, <<"turn">>)
        /\ current' = t
        /\ start' = [drained |-> drained, fresh |-> l # "mine", by |-> by]
        /\ index' = idx /\ queue' = q /\ lease' = "mine"
        /\ waiter' = (w /\ l = "mine")
        /\ client' = Woken

BeginsNothing(ts, j, idx, q, l, w) ==
    /\ turn' = ts /\ journal' = j /\ index' = idx
    /\ queue' = q /\ lease' = l /\ waiter' = w
    /\ UNCHANGED <<current, start, client>>

\* start_turn hands out the last turn again; its note and prune still run.
PassesThrough(ts, j, idx, q, l, w) ==
    LET noted == Noted(idx, ts, Last(order))
    IN  BeginsNothing(ts, Pruned(j, noted), noted, q, l, w)

\* start_turn of a message, the runner being idle and the lease obtainable.
StartsOrPasses(m, ts, j, idx, q, l, w, drained, by) ==
    IF Handled(m) THEN PassesThrough(ts, j, idx, q, l, w)
    ELSE Begins(m, ts, j, idx, q, l, w, drained, by)

\* _maybe_drain_queue.
Drains(ts, j, idx, q, l, w, by) ==
    IF q = <<>> \/ runner # "up" \/ Busy THEN BeginsNothing(ts, j, idx, q, l, w)
    ELSE IF l = "other" THEN BeginsNothing(ts, j, idx, q, l, TRUE)
    ELSE StartsOrPasses(Head(q), ts, j, idx, Tail(q), l, w, TRUE, by)

\* The bounds: a step that may begin a turn, or is one of a counted kind.
Begun == [used EXCEPT !.turns = IF current' # current THEN @ + 1 ELSE @]
Bounded(kind) == used[kind] < scope[kind]
Counted(kind) == used' = [Begun EXCEPT ![kind] = @ + 1]
Restarted == Bounded("restarts") /\ used' = [used EXCEPT !.restarts = @ + 1]

---------------------------------------------------------------------------
(* Requests.                                                               *)

\* enqueue of a message that is new marks the current turn's journal.
Queues(m, w) ==
    LET new == m \notin ToSet(queue) /\ ~Handled(m) /\ ~IsFull(queue)
        marks == new /\ current # 0
        ts == IF marks THEN Noting(turn, current, <<"queued">>) ELSE turn
        j == IF marks THEN Stored(journal, current, <<"queued">>) ELSE journal
        q == IF new THEN Append(queue, m) ELSE queue
        refused == ~new /\ m \notin ToSet(queue) /\ ~Handled(m)
    IN  IF Busy \/ w \/ refused THEN BeginsNothing(ts, j, index, q, lease, w \/ waiter)
        ELSE Drains(ts, j, index, q, lease, waiter, 0)

\* /send with queue:true, or while a turn runs.
SendQueues(m) ==
    /\ runner = "up" /\ Bounded("sends")
    /\ Queues(m, FALSE)
    /\ Counted("sends")
    /\ UNCHANGED <<runner, order, asking, limbo, leaving, prompts, scope>>

\* /send to an idle runner: a turn, an old turn again, or a place in the
\* queue because the lease is another's.
SendStarts(m) ==
    /\ runner = "up" /\ ~Busy /\ Bounded("sends")
    /\ IF lease = "other" /\ ~Handled(m) THEN Queues(m, TRUE)
       ELSE StartsOrPasses(m, turn, journal, index, queue, lease, waiter, FALSE, 0)
    /\ Counted("sends")
    /\ UNCHANGED <<runner, order, asking, limbo, leaving, prompts, scope>>

\* DELETE /queue/{sendId}
Dequeues(m) ==
    /\ runner # "down" /\ m \in ToSet(queue)
    /\ queue' = Kept(queue, Messages \ {m})
    /\ UNCHANGED <<runner, turn, order, current, start, asking, limbo, lease, waiter, index, journal,
                   leaving, client, prompts, used, scope>>

---------------------------------------------------------------------------
(* A start in flight, the turn, and its bookkeeping.                       *)

Starting == current # 0 /\ turn[current].stage = "pre"

\* The pre-turn checkpoint is taken, the prompt sent, the turn registered.
PromptSent ==
    /\ runner = "up" /\ Starting
    /\ LET ts == [Noting(turn, current, <<"pre">>) EXCEPT ![current].stage = "run"]
       IN  /\ turn' = ts
           /\ index' = Noted(index, ts, current)
           /\ journal' = Pruned(Stored(journal, current, <<"pre">>), index')
    /\ order' = Newest(RamKeep, Append(order, current))
    /\ prompts' = Append(prompts, turn[current].msg)
    /\ start' = Idle
    /\ client' = Woken
    /\ UNCHANGED <<runner, current, asking, queue, limbo, lease, waiter, leaving, used, scope>>

\* What start_turn's finally makes of the lease.
Unstarted == IF Starting /\ start.fresh /\ lease = "mine" THEN "free" ELSE lease

\* The start is cancelled in its checkpoint, or the agent has exited: a fresh
\* lease is released and others are woken; a drained follow-up is put back after
\* that.
StartFails ==
    /\ runner # "down" /\ Starting
    /\ runner = "up" => Bounded("fails")
    /\ turn' = [turn EXCEPT ![current].status = "failed", ![current].stage = "unsent"]
    /\ lease' = Unstarted
    /\ limbo' = IF start.drained THEN Append(limbo, turn[current].msg) ELSE limbo
    /\ start' = Idle
    /\ UNCHANGED <<current, queue>>
    /\ IF runner = "dead" THEN UNCHANGED used ELSE Counted("fails")
    /\ UNCHANGED <<runner, order, asking, waiter, index, journal, leaving, client, prompts, scope>>

\* _maybe_drain_queue's finally.
PutsBack ==
    \E i \in DOMAIN limbo :
        /\ limbo' = RemoveAt(limbo, i)
        /\ queue' = <<limbo[i]>> \o queue
        /\ UNCHANGED <<runner, turn, order, current, start, asking, lease, waiter, index, journal,
                       leaving, client, prompts, used, scope>>

Running == current # 0 /\ turn[current].stage = "run"

\* on_request and respond of one approval or question per turn.
AgentAsks ==
    /\ scope.asks /\ runner = "up" /\ Running /\ ~asking
    /\ "request" \notin ToSet(turn[current].items)
    /\ asking' = TRUE
    /\ turn' = Noting(turn, current, <<"request">>)
    /\ journal' = Stored(journal, current, <<"request">>)
    /\ client' = Woken
    /\ UNCHANGED <<runner, order, current, start, queue, limbo, lease, waiter, index, leaving, prompts,
                   used, scope>>

Responds ==
    /\ runner = "up" /\ Running /\ asking
    /\ asking' = FALSE
    /\ turn' = Noting(turn, current, <<"resolved">>)
    /\ journal' = Stored(journal, current, <<"resolved">>)
    /\ client' = Woken
    /\ UNCHANGED <<runner, order, current, start, queue, limbo, lease, waiter, index, leaving, prompts,
                   used, scope>>

Cancelled == IF asking THEN <<"cancelled">> ELSE <<>>

\* _consume until the post-turn checkpoint: the end, and the requests it
\* leaves unanswered.
TurnEnds ==
    /\ runner # "down" /\ Running
    /\ \E status \in IF runner = "up" THEN {"finished", "failed"} ELSE {"failed"} :
          LET kinds == <<status>> \o Cancelled
          IN  /\ turn' = [Noting(turn, current, kinds) EXCEPT ![current].status = status,
                                                              ![current].stage = "post"]
              /\ journal' = Stored(journal, current, kinds)
    /\ asking' = FALSE
    /\ client' = Woken
    /\ UNCHANGED <<runner, order, current, start, queue, limbo, lease, waiter, index, leaving, prompts,
                   used, scope>>

\* The checkpoint is taken and noted, the lease released, the queue drained.
BookkeepingDone(t) ==
    /\ runner # "down" /\ turn[t].stage = "post"
    /\ LET ts == [Noting(turn, t, <<"post">>) EXCEPT ![t].stage = "handing"]
           l == IF lease = "mine" THEN "free" ELSE lease
       IN  Drains(ts, Stored(journal, t, <<"post">>), Noted(index, ts, t), queue, l, waiter, t)
    /\ used' = Begun
    /\ UNCHANGED <<runner, order, asking, limbo, leaving, prompts, scope>>

\* The drain's start and the hand-off to others are over.
TurnCloses(t) ==
    /\ runner # "down" /\ turn[t].stage = "handing"
    /\ ~(Starting /\ start.by = t)
    /\ Closes(turn, t)
    /\ UNCHANGED <<runner, order, current, start, asking, queue, limbo, lease, waiter, index, journal,
                   leaving, prompts, used, scope>>

---------------------------------------------------------------------------
(* The other conversations of the workspace.                               *)

OtherTakes ==
    /\ scope.others /\ lease = "free"
    /\ lease' = "other"
    /\ UNCHANGED <<runner, turn, order, current, start, asking, queue, limbo, waiter, index, journal,
                   leaving, client, prompts, used, scope>>

\* Another's release hands the lease to the conversation that waits.
OtherReleases ==
    /\ lease = "other"
    /\ IF waiter THEN Drains(turn, journal, index, queue, "free", FALSE, 0)
       ELSE BeginsNothing(turn, journal, index, queue, "free", FALSE)
    /\ used' = Begun
    /\ UNCHANGED <<runner, order, asking, limbo, leaving, prompts, scope>>

---------------------------------------------------------------------------
(* Exits, stops, restarts.                                                 *)

AgentExits ==
    /\ runner = "up"
    /\ runner' = "dead"
    /\ UNCHANGED <<turn, order, current, start, asking, queue, limbo, lease, waiter, index, journal,
                   leaving, client, prompts, used, scope>>

InBookkeeping == {t \in TurnIds : turn[t].stage = "post"}

\* What the runner held in memory goes; streams end.
Forgets ==
    /\ runner' = "down"
    /\ current' = 0 /\ start' = Idle /\ asking' = FALSE
    /\ queue' = <<>> /\ limbo' = <<>> /\ waiter' = FALSE
    /\ order' = <<>>

\* drop_conversation and stop(): a running turn fails, what it asks is
\* cancelled, and its bookkeeping follows; that of an ended one is cancelled.
Stoppable ==
    /\ runner # "down" /\ ~Starting
    /\ \A t \in TurnIds : turn[t].stage # "handing"
    /\ InBookkeeping # {} => scope.hazard = "late"

Stopped(kinds) ==
    IF Running THEN [Noting(turn, current, kinds) EXCEPT ![current].status = "failed"] ELSE turn

Unstaged(ts) ==
    [t \in TurnIds |-> [ts[t] EXCEPT !.stage = IF @ \in {"run", "post"} THEN "closed" ELSE @]]

Streaming == client.state \in {"on", "waiting"}

Drops ==
    /\ Stoppable
    /\ LET kinds == Cancelled \o <<"post">>
           left == Stopped(kinds)
       IN  /\ turn' = Unstaged(left)
           /\ journal' = IF Running THEN Stored(journal, current, kinds) ELSE journal
           /\ index' = IF Running THEN Noted(index, left, current) ELSE index
           /\ client' = IF Streaming
                        THEN [client EXCEPT !.state = "done", !.seen = left[client.turn].items]
                        ELSE client
    /\ Forgets
    /\ lease' = IF lease = "mine" THEN "free" ELSE lease
    /\ Restarted
    /\ UNCHANGED <<leaving, prompts, scope>>

\* The same when an /open falls into it: the registry's entry goes first, and
\* stop() waits for the consumer's checkpoint.
DropBegins ==
    /\ scope.hazard = "overlap" /\ Stoppable /\ Running /\ leaving.posts = {}
    /\ leaving' = [turn |-> Stopped(Cancelled), index |-> index, posts |-> {current}]
    /\ turn' = Unstaged(Stopped(Cancelled))
    /\ journal' = Stored(journal, current, Cancelled)
    /\ client' = IF Streaming THEN [client EXCEPT !.state = "parting"] ELSE client
    /\ Forgets
    /\ Restarted
    /\ UNCHANGED <<lease, index, prompts, scope>>

\* The bookkeeping of a runner no longer registered: its own turns.json goes over
\* the one there is, and the lease of its conversation is released.
LeavingDone(t) ==
    /\ t \in leaving.posts
    /\ LET ts == Noting(leaving.turn, t, <<"post">>)
           last == leaving.posts = {t}
       IN  /\ index' = Noted(leaving.index, ts, t)
           /\ leaving' = IF last THEN Gone
                         ELSE [turn |-> ts, index |-> index', posts |-> leaving.posts \ {t}]
           /\ client' = IF last /\ client.state = "parting"
                        THEN [client EXCEPT !.state = "done", !.seen = ts[client.turn].items]
                        ELSE client
    /\ journal' = Stored(journal, t, <<"post">>)
    /\ lease' = IF lease = "mine" THEN "free" ELSE lease
    /\ UNCHANGED <<runner, turn, order, current, start, asking, queue, limbo, waiter, prompts, used, scope>>

\* agentd dies: between steps, or within one of those that write more than one
\* file.
Crashes(idx, j) ==
    /\ InBookkeeping # {} => scope.hazard = "late"
    /\ index' = idx /\ journal' = [j EXCEPT !.full = {}]
    /\ turn' = NoTurns /\ leaving' = Gone
    /\ client' = IF client.state = "done" THEN client ELSE [client EXCEPT !.state = "off"]
    /\ Forgets
    /\ lease' = "free"
    /\ Restarted
    /\ UNCHANGED scope

CrashBetween ==
    /\ runner # "down" \/ leaving.posts # {}
    /\ Crashes(index, journal)
    /\ UNCHANGED prompts

\* The prompt is sent and not in the index.
CrashInStart ==
    /\ scope.hazard = "in_step" /\ runner = "up" /\ Starting
    /\ Crashes(index, Stored(journal, current, <<"pre">>))
    /\ prompts' = Append(prompts, turn[current].msg)

---------------------------------------------------------------------------
(* Reconstruction.                                                         *)

Occurrences(seq, kinds) == Len(Kept(seq, kinds))

\* Mutant: reconciliation does not cancel what is unanswered.
SettlementOfNone(items) == <<"error", "interrupted">>

\* _reconcile_interrupted_turn
Settlement(items) ==
    (IF Occurrences(items, {"request"}) > Occurrences(items, {"resolved", "cancelled"})
     THEN <<"cancelled">> ELSE <<>>) \o <<"error", "interrupted">>

\* What is appended to the journal of an indexed turn.
Reconciled(entry) ==
    IF entry.status = "running" THEN Settlement(journal.files[entry.turn]) ELSE <<>>

\* Nothing of the runner is still under way.
Over ==
    /\ limbo = <<>>
    /\ \A t \in TurnIds : turn[t].stage \in {"none", "unsent", "closed"}

\* An /open does not wait for what a runner whose agent has exited still does:
\* its bookkeeping goes on beside the new runner, a start fails, what it would
\* put back is lost with it.
Replaces ==
    /\ scope.hazard = "overlap" /\ runner = "dead" /\ ~Running /\ leaving.posts = {}
    /\ leaving' = IF InBookkeeping = {} THEN Gone
                  ELSE [turn |-> turn, index |-> index, posts |-> InBookkeeping]
    /\ client' = IF ~Streaming THEN client
                 ELSE [client EXCEPT !.state = IF InBookkeeping = {} THEN "on" ELSE "parting"]
    /\ lease' = Unstarted

\* __init__ of the runner /open makes: _reconstruct_from_journal.
Opens ==
    /\ \/ /\ runner = "down" \/ (runner = "dead" /\ Over)
          /\ UNCHANGED <<lease, leaving, client>>
       \/ Replaces
    /\ LET entry(t) == CHOOSE e \in ToSet(index) : e.turn = t
           indexed == {e.turn : e \in ToSet(index)}
           settled(t) == Stored([journal EXCEPT !.full = {}], t,
                                IF t \in indexed THEN Reconciled(entry(t)) ELSE <<>>)
       IN  /\ turn' = [t \in TurnIds |->
                 IF t \notin indexed THEN NoTurn
                 ELSE [msg |-> entry(t).msg, stage |-> "closed",
                       status |-> IF entry(t).status = "running" THEN "interrupted"
                                  ELSE entry(t).status,
                       items |-> journal.files[t] \o Reconciled(entry(t))]]
           /\ order' = Newest(RamKeep, [i \in DOMAIN index |-> index[i].turn])
           /\ index' = [i \in DOMAIN index |-> [index[i] EXCEPT !.status = turn'[index[i].turn].status]]
           /\ journal' = [files |-> [t \in TurnIds |-> settled(t).files[t]],
                          full |-> {t \in TurnIds : t \in settled(t).full}]
    /\ runner' = "up"
    /\ current' = 0 /\ start' = Idle /\ asking' = FALSE
    /\ queue' = <<>> /\ limbo' = <<>>
    /\ UNCHANGED <<waiter, prompts, used, scope>>

\* agentd dies while it reconciles the first interrupted turn.
CrashInOpen ==
    /\ scope.hazard = "in_step" /\ runner = "down"
    /\ \E i \in DOMAIN index :
          /\ index[i].status = "running"
          /\ \A h \in 1..(i - 1) : index[h].status # "running"
          /\ \E n \in 1..Len(Reconciled(index[i])) :
                Crashes(index, Stored(journal, index[i].turn, SubSeq(Reconciled(index[i]), 1, n)))
    /\ UNCHANGED prompts

---------------------------------------------------------------------------
(* The client: GET /follow from the items it has.                          *)

Follows(t) ==
    /\ runner # "down" /\ t \in ToSet(order) \cap scope.follows
    /\ \/ client.state = "off" /\ t >= client.turn
       \/ client.state = "done" /\ t > client.turn
    /\ client' = [turn |-> t, seen |-> IF t = client.turn THEN client.seen ELSE <<>>, state |-> "on"]
    /\ UNCHANGED <<runner, turn, order, current, start, asking, queue, limbo, lease, waiter, index,
                   journal, leaving, prompts, used, scope>>

\* The stream's generator: the next item, the end, or a wait.
FollowGoesOn ==
    LET items == turn[client.turn].items
        n == Len(client.seen)
    IN  /\ client.state = "on"
        /\ client' = IF n < Len(items) THEN [client EXCEPT !.seen = Append(@, items[n + 1])]
                     ELSE IF Settled(client.turn) THEN [client EXCEPT !.state = "done"]
                     ELSE [client EXCEPT !.state = "waiting"]
        /\ UNCHANGED <<runner, turn, order, current, start, asking, queue, limbo, lease, waiter, index,
                       journal, leaving, prompts, used, scope>>

---------------------------------------------------------------------------
TurnSteps ==
    \/ PromptSent \/ StartFails \/ PutsBack \/ TurnEnds
    \/ \E t \in TurnIds : BookkeepingDone(t) \/ TurnCloses(t) \/ LeavingDone(t)

Next ==
    \/ \E m \in Messages : SendQueues(m) \/ SendStarts(m) \/ Dequeues(m)
    \/ TurnSteps \/ AgentAsks \/ Responds
    \/ OtherTakes \/ OtherReleases
    \/ AgentExits \/ Drops \/ DropBegins \/ CrashBetween \/ CrashInStart \/ Opens \/ CrashInOpen
    \/ \E t \in TurnIds : Follows(t)
    \/ FollowGoesOn

Spec == Init /\ [][Next]_vars

\* Started I/O completes, a turn ends (its budget sees to it), streams are read.
FairSpec == Spec /\ WF_vars(TurnSteps) /\ WF_vars(FollowGoesOn)

---------------------------------------------------------------------------
(* Properties.                                                             *)

\* A file that overflowed, and what was read from one.
Overflowed(t) == "overflow" \in ToSet(journal.files[t]) \cup ToSet(turn[t].items)

\* No bookkeeping outlasts turns_keep later turns: its turn is still indexed.
BookkeepingInTime == \A t \in InBookkeeping : \E i \in DOMAIN index : index[i].turn = t

TurnStates == [TurnIds -> [msg : Messages \cup {NoMessage}, status : Ends \cup {"running"},
                           stage : Stages, items : Seq(Kinds)]]
IndexRows == [turn : TurnIds, msg : Messages, status : Ends \cup {"running"}]

\* Every variable has its type; the queue is longer than its cap only by
\* follow-ups that were put back, one for each start that failed (enqueue,
\* _maybe_drain_queue).
TypeOK ==
    /\ runner \in {"down", "up", "dead"}
    /\ turn \in TurnStates
    /\ order \in Seq(TurnIds) /\ Len(order) <= RamKeep
    /\ current \in 0..MaxTurns
    /\ start \in [drained : BOOLEAN, fresh : BOOLEAN, by : 0..MaxTurns]
    /\ asking \in BOOLEAN
    /\ queue \in Seq(Messages) /\ limbo \in Seq(Messages)
    /\ Len(queue) + Len(limbo) <= Depth + used.fails + (IF runner = "dead" THEN 1 ELSE 0)
    /\ lease \in {"free", "mine", "other"} /\ waiter \in BOOLEAN
    /\ index \in Seq(IndexRows) /\ Len(index) <= Keep
    /\ journal \in [files : [TurnIds -> Seq(Kinds)], full : SUBSET TurnIds]
    /\ leaving \in [turn : TurnStates, index : Seq(IndexRows), posts : SUBSET TurnIds]
    /\ client \in [turn : 0..MaxTurns, seen : Seq(Kinds),
                   state : {"off", "on", "waiting", "parting", "done"}]
    /\ prompts \in Seq(Messages)
    /\ scope \in Scopes

\* However a client resends (to an idle runner, into the queue, across a drain,
\* a failed start, a reopening or a restart), the agent is never prompted twice
\* in a row with one message (start_turn: "ambiguous network failures can't
\* duplicate work").  Not so once another turn has run in between, nor when
\* agentd dies between the prompt and the index, nor when an /open overlaps the
\* end of the runner it replaces, nor after a bookkeeping that outlasts turns_keep
\* later turns (BookkeepingInTime).
NoDoublePrompt ==
    scope.hazard \notin {"in_step", "overlap"} =>
        \A i \in 1..(Len(prompts) - 1) : prompts[i] # prompts[i + 1]

\* What a client has been shown of a turn is how that turn's journal begins,
\* also when the journal was reconstructed after a restart; and a stream that
\* has ended has shown all of it, but for later marks of the queue (follow,
\* TurnState.closed).  Not so when an /open overlaps the end of the runner it
\* replaces: it tells the turn's end anew.
FollowExact ==
    LET items == turn[client.turn].items
        Plain(seq) == Kept(seq, Kinds \ {"queued"})
    IN  /\ client.turn # 0 /\ scope.hazard # "overlap"
        /\ turn[client.turn].stage # "none" /\ ~Overflowed(client.turn)
        =>
            /\ IsPrefix(client.seen, items)
            /\ client.state = "done" /\ scope.hazard # "late" => Plain(client.seen) = Plain(items)

\* The journal of a turn that is over answers or cancels every request in it,
\* and ends at most once, as its status says: no finished turn is later told to
\* have been interrupted (_reconcile_interrupted_turn).  The end is exempt when
\* a stop, a crash or an /open falls between a turn's end and its note, or a
\* crash into a reconstruction.
JournalSettles ==
    \A t \in TurnIds : turn[t].stage = "closed" /\ ~Overflowed(t) =>
        LET items == turn[t].items
            ends == Kept(items, Ends)
        IN  /\ Occurrences(items, {"request"}) = Occurrences(items, {"resolved", "cancelled"})
            /\ scope.hazard = "none" => ends \in {<<>>, <<turn[t].status>>}

\* A stream never hangs: a follower is always told of the end of its turn,
\* whatever was appended without a notification (follow, _append_sync).
FollowReturns == []<>(client.state \notin {"on", "waiting", "parting"})

=============================================================================
