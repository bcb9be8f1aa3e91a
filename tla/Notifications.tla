---------------------------- MODULE Notifications ----------------------------
(***************************************************************************)
(* Notifications of a session and their delivery to its sinks: the store,  *)
(* manager and watcher of kimi_cli/notifications, the pump that sends them *)
(* over the wire (soul/__init__.py) and the delivery into the language     *)
(* model's context at the start of a step (soul/kimisoul.py).              *)
(*                                                                         *)
(* A notification is named by its dedupe key.  Every operation is one      *)
(* synchronous block on the event loop, except the delivery to the model,  *)
(* which awaits the append of each message to context.jsonl.  The module   *)
(* defines the operations; BackgroundTasks decides when they run.          *)
(***************************************************************************)
EXTENDS Naturals, Sequences, SequencesExt, FiniteSets, FiniteSetsExt, Subsequences

CONSTANTS
    Events,     \* dedupe keys
    Limit       \* notifications claimed in one delivery

Sinks == {"llm", "wire"}      \* "shell" is delivered to like "wire"

ASSUME NotificationsAssumption == IsFiniteSet(Events) /\ Limit \in Nat \ {0}

VARIABLES
    log,        \* published notifications, oldest first
    delivery,   \* delivery.json of each, one status per sink
    mem,        \* how often each is in the history of the running agent
    disk,       \* how often each is in context.jsonl
    queue,      \* claimed for the model; the head is being appended
    written     \* the head's line is in context.jsonl

notificationVars == <<log, delivery, mem, disk, queue, written>>

Statuses == {"absent", "pending", "claimed", "acked"}

NotificationsInit ==
    /\ log = <<>>
    /\ delivery = [e \in Events |-> [s \in Sinks |-> "absent"]]
    /\ mem = [e \in Events |-> 0]
    /\ disk = [e \in Events |-> 0]
    /\ queue = <<>>
    /\ written = FALSE

NotificationsTypeOK ==
    /\ log \in Seq(Events) /\ IsInjective(log)
    /\ delivery \in [Events -> [Sinks -> Statuses]]
    /\ mem \in [Events -> Nat]
    /\ disk \in [Events -> Nat]
    /\ queue \in Seq(Events) /\ Len(queue) <= Limit
    /\ written \in BOOLEAN

---------------------------------------------------------------------------
\* Mutant: publish does not look for the dedupe key.
UnpublishedOrNot(events) == events

\* publish: what has been published under its dedupe key is not published again.
Unpublished(events) == events \ ToSet(log)

\* create_notification of a set of events, in some order.
Published(events) == {log \o s : s \in SetToSeqs(Unpublished(events))}

\* The delivery.json of new notifications.
WithNew(d, new) ==
    [e \in Events |-> IF e \in new THEN [s \in Sinks |-> "pending"] ELSE d[e]]

\* Mutant: recover() finds no claim old enough.
NoClaims(d, slow) == {}

\* Claims recover() may find older than claim_stale_after_ms: those nobody is
\* handling, and with slow handlers those of the running delivery too.
StaleClaims(d, slow) ==
    {c \in Events \X Sinks :
        /\ d[c[1]][c[2]] = "claimed"
        /\ slow \/ c[2] # "llm" \/ c[1] \notin ToSet(queue)}

Recovered(d, stale) ==
    [e \in Events |-> [s \in Sinks |-> IF <<e, s>> \in stale THEN "pending" ELSE d[e][s]]]

\* claim_for_sink: the oldest pending ones, up to the limit.
Claimable(l, d, sink) ==
    LET pending == Kept(l, {e \in Events : d[e][sink] = "pending"})
    IN  SubSeq(pending, 1, Min({Limit, Len(pending)}))

Marked(d, sink, events, status) ==
    [e \in Events |-> IF e \in events THEN [d[e] EXCEPT ![sink] = status] ELSE d[e]]

Appended(m, e) == [m EXCEPT ![e] = @ + 1]

---------------------------------------------------------------------------
\* deliver_pending to the wire: the handler does not await, so all claimed
\* are acked in the same step, but for those whose handler raised.
DeliversToWire(l, d, failing) ==
    LET claimed == ToSet(Claimable(l, d, "wire"))
    IN  /\ delivery' = Marked(Marked(d, "wire", claimed, "acked"), "wire", failing, "claimed")
        /\ UNCHANGED <<mem, disk, queue, written>>

\* deliver_pending to the model: claims, and appends the first to the history.
DeliversToModel(l, d) ==
    /\ queue = <<>>
    /\ queue' = Claimable(l, d, "llm")
    /\ delivery' = Marked(d, "llm", ToSet(queue'), "claimed")
    /\ mem' = IF queue' = <<>> THEN mem ELSE Appended(mem, Head(queue'))
    /\ UNCHANGED <<disk, written>>

\* The line is in context.jsonl, but the awaiting delivery has not gone on.
LineWritten ==
    /\ queue # <<>> /\ ~written
    /\ disk' = Appended(disk, Head(queue))
    /\ written' = TRUE
    /\ UNCHANGED <<log, delivery, mem, queue>>

\* The append returns: ack, and the next append begins.
ModelAcks ==
    /\ queue # <<>> /\ written
    /\ delivery' = Marked(delivery, "llm", {Head(queue)}, "acked")
    /\ queue' = Tail(queue)
    /\ mem' = IF queue' = <<>> THEN mem ELSE Appended(mem, Head(queue'))
    /\ written' = FALSE
    /\ UNCHANGED <<log, disk>>

\* The turn is cancelled in the append, which may still reach the file: what
\* was claimed stays claimed.
DeliveryCancelled ==
    /\ queue # <<>>
    /\ disk' \in {disk, IF written THEN disk ELSE Appended(disk, Head(queue))}
    /\ queue' = <<>>
    /\ written' = FALSE
    /\ UNCHANGED <<log, delivery, mem>>

\* The agent's process ends: its history and its delivery are gone.
NotificationsCrash ==
    /\ queue' = <<>>
    /\ written' = FALSE
    /\ mem' = [e \in Events |-> 0]
    /\ UNCHANGED disk

\* Mutant: the restored history is not looked at.
RestoredUnseen(d) == d

\* A new agent restores its history and acks what is in it already.
Restored(d) == Marked(d, "llm", {e \in Events : disk[e] > 0}, "acked")

=============================================================================
