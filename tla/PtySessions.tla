----------------------------- MODULE PtySessions -----------------------------
(***************************************************************************)
(* The terminals of one user and kind on a machine: the registry with its  *)
(* cap, detach, adoption, eviction, restart and sweeper (manager.py), the  *)
(* handler of a websocket (app.py), and the output of each PTY with its    *)
(* back-pressure and its replay (pty_session.py).                          *)
(*                                                                         *)
(* A session is named by the connection that spawned it.  An action is the *)
(* code between two awaits.  The replay ring always ends with the newest   *)
(* chunk, so a replay is "everything up to the newest"; chunks are         *)
(* numbered and 0 is the end of the stream.                                *)
(***************************************************************************)
EXTENDS Naturals, Sequences, SequencesExt, FiniteSets, Subsequences

CONSTANTS
    Conns,      \* websocket connections
    NoConn,     \* no connection
    HighWater,  \* queued chunks at which reading the PTY pauses
    LowWater,   \* and at which it resumes
    Scopes      \* scope: connections, max_per_user, bound on chunks, and whether a
                \* connection is set up before the next begins or another ends

ASSUME PtySessionsAssumption ==
    /\ NoConn \notin Conns
    /\ HighWater \in Nat /\ LowWater \in Nat /\ LowWater < HighWater
    /\ Scopes \subseteq [conns : SUBSET Conns, cap : Nat \ {0}, chunks : Nat, orderly : BOOLEAN]

VARIABLES
    registry,   \* registered sessions, oldest first
    detached,   \* those of them without a socket, longest detached first
    alive,      \* sessions whose process runs
    exited,     \* sessions whose exited event is set
    reaping,    \* sessions terminate() is due for or at work on
    lock,       \* the connection whose claim holds the manager's lock
    place,      \* where the handler of a connection is
    mine,       \* its session
    outcome,    \* how its pumps ended
    gone,       \* sockets that are closed while their handler goes on
    resumed,    \* sessions started with --resume
    produced,   \* chunks read from the PTY
    queue,      \* chunks not yet taken from the live queue
    paused,     \* PTYs that are not read for now
    draining,   \* sessions with a drainer
    shown,      \* the newest chunk a socket has been sent
    hand,       \* the chunk its output pump is sending, or none (0)
    scope       \* the bounds of this behaviour

vars == <<registry, detached, alive, exited, reaping, lock, place, mine, outcome, gone,
          resumed, produced, queue, paused, draining, shown, hand, scope>>

outputVars == <<produced, queue, paused, shown, hand>>

Eof == 0
Places == {"off", "auth", "claiming", "evicting", "spawning", "forked", "attaching",
           "pumping", "leaving", "ended"}
Outcomes == {"none", "disconnect", "eof", "watchdog", "internal"}

Init ==
    /\ scope \in Scopes
    /\ registry = <<>> /\ detached = <<>>
    /\ alive = {} /\ exited = {} /\ reaping = {}
    /\ lock = NoConn
    /\ place = [c \in Conns |-> "off"]
    /\ mine = [c \in Conns |-> NoConn]
    /\ outcome = [c \in Conns |-> "none"]
    /\ gone = {} /\ resumed = {}
    /\ produced = [s \in Conns |-> 0]
    /\ queue = [s \in Conns |-> <<>>]
    /\ paused = {} /\ draining = {}
    /\ shown = [c \in Conns |-> 0]
    /\ hand = [c \in Conns |-> 0]

---------------------------------------------------------------------------
IsRegistered(s) == s \in ToSet(registry)
IsDetached(s) == s \in ToSet(detached)
Without(q, gones) == Kept(q, Conns \ gones)
Goes(c, where) == place' = [place EXCEPT ![c] = where]

\* The connection whose handler serves a session.
SocketsOf(sessions) ==
    {c \in Conns : mine[c] \in sessions /\ place[c] \in {"attaching", "pumping", "leaving"}}

\* Sessions taken out of the registry: the close of their sockets and then
\* terminate() are due.
Removes(sessions) ==
    /\ registry' = Without(registry, sessions)
    /\ detached' = Without(detached, sessions)
    /\ draining' = draining \ sessions
    /\ reaping' = reaping \cup sessions

Attaching(c) == place[c] \in {"auth", "claiming", "evicting", "spawning", "forked"}

\* A process that its handler has spawned and not yet registered.
InHand == {c \in Conns : place[c] = "forked"}

\* In an orderly behaviour nothing ends while a connection is being set up.
Undisturbed == scope.orderly => \A c \in Conns : ~Attaching(c)

---------------------------------------------------------------------------
(* The handler of a connection.                                            *)

\* The ticket is redeemed.
Connects(c) ==
    /\ c \in scope.conns /\ place[c] = "off"
    /\ Undisturbed
    /\ Goes(c, "auth")
    /\ UNCHANGED <<registry, detached, alive, exited, reaping, lock, mine, outcome, gone,
                   resumed, outputVars, draining, scope>>

\* pop_detached: the session detached last, of those whose process has not
\* been seen to exit; later ones that have are removed.
Adoptable == {i \in DOMAIN detached : detached[i] \notin exited}
Newest(i) == \A j \in Adoptable : j <= i

\* Mutant: an adopted session stays adoptable.
AdoptsAgain(c, i) ==
    LET s == detached[i]
        dead == {detached[j] : j \in i + 1 .. Len(detached)} IN
    /\ mine' = [mine EXCEPT ![c] = s]
    /\ registry' = Without(registry, dead)
    /\ detached' = Without(detached, dead)
    /\ reaping' = reaping \cup dead
    /\ Goes(c, "attaching")

Adopts(c, i) ==
    LET s == detached[i]
        dead == {detached[j] : j \in i + 1 .. Len(detached)} IN
    /\ mine' = [mine EXCEPT ![c] = s]
    /\ registry' = Without(registry, dead)
    /\ detached' = Without(detached, dead \cup {s})
    /\ reaping' = reaping \cup dead
    /\ Goes(c, "attaching")

Looks(c) ==
    /\ place[c] = "auth" /\ lock = NoConn
    /\ \/ \E i \in Adoptable : Newest(i) /\ Adopts(c, i)
       \/ /\ Adoptable = {}
          /\ registry' = Without(registry, ToSet(detached))
          /\ detached' = <<>>
          /\ reaping' = reaping \cup ToSet(detached)
          /\ Goes(c, "claiming")
          /\ UNCHANGED mine
    /\ UNCHANGED <<alive, exited, lock, outcome, gone, resumed, outputVars,
                   draining, scope>>

\* Mutant: the replay leaves in the queue what it has shown.
FinishesAttachUndrained(c) ==
    /\ place[c] = "attaching"
    /\ shown' = [shown EXCEPT ![c] = produced[mine[c]]]
    /\ UNCHANGED queue
    /\ paused' = paused \ {mine[c]}

\* Mutant: a paused PTY stays paused when its queue is emptied.
FinishesAttachPaused(c) ==
    /\ place[c] = "attaching"
    /\ shown' = [shown EXCEPT ![c] = produced[mine[c]]]
    /\ queue' = [queue EXCEPT ![mine[c]] = Kept(@, {Eof})]
    /\ UNCHANGED paused

\* finish_attach: the drainer has stopped; the queue is emptied but for the
\* end of the stream, reading resumes, and the ring is replayed.
FinishesAttach(c) ==
    /\ place[c] = "attaching"
    /\ shown' = [shown EXCEPT ![c] = produced[mine[c]]]
    /\ queue' = [queue EXCEPT ![mine[c]] = Kept(@, {Eof})]
    /\ paused' = paused \ (IF mine[c] \in exited THEN {} ELSE {mine[c]})

Attaches(c) ==
    /\ FinishesAttach(c)
    /\ draining' = draining \ {mine[c]}
    /\ Goes(c, "pumping")
    /\ UNCHANGED <<registry, detached, alive, exited, reaping, lock, mine, outcome, gone,
                   resumed, produced, hand, scope>>

\* Mutant: one more than the cap is let in.
FullBeyondCap == Len(registry) > scope.cap

Full == Len(registry) >= scope.cap

\* Mutant: every agent resumes.
FirstOrNot == TRUE

First == registry = <<>>

\* claim, with the lock: one more session is evicted, or there is room and
\* argv is decided, with --resume for the first session.
Claims(c) ==
    /\ \/ place[c] = "claiming" /\ lock = NoConn
       \/ place[c] = "evicting" /\ reaping \cap {mine[c]} = {}
    /\ IF Full
       THEN /\ Removes({Head(registry)})
            /\ mine' = [mine EXCEPT ![c] = Head(registry)]
            /\ lock' = c
            /\ Goes(c, "evicting")
            /\ UNCHANGED resumed
       ELSE /\ mine' = [mine EXCEPT ![c] = c]
            /\ lock' = NoConn
            /\ Goes(c, "spawning")
            /\ resumed' = IF First THEN resumed \cup {c} ELSE resumed
            /\ UNCHANGED <<registry, detached, draining, reaping>>
    /\ UNCHANGED <<alive, exited, outcome, gone, outputVars, scope>>

\* The executor forks the process, or fails to.
Spawns(c) ==
    /\ place[c] = "spawning"
    /\ \/ alive' = alive \cup {c} /\ Goes(c, "forked")
       \/ Goes(c, "ended") /\ UNCHANGED alive
    /\ UNCHANGED <<registry, detached, exited, reaping, lock, mine, outcome, gone, resumed,
                   outputVars, draining, scope>>

\* The handler resumes: from now on the PTY is read and the session registered.
Registers(c) ==
    /\ place[c] = "forked"
    /\ registry' = Append(registry, c)
    /\ Goes(c, "pumping")
    /\ UNCHANGED <<detached, alive, exited, reaping, lock, mine, outcome, gone, resumed,
                   outputVars, draining, scope>>

\* output_pump: takes a chunk, sends it.
Takes(s, q) ==
    /\ queue' = [queue EXCEPT ![s] = q]
    /\ paused' = IF Len(q) <= LowWater /\ s \notin exited THEN paused \ {s} ELSE paused

OutputTakes(c) ==
    /\ place[c] = "pumping" /\ hand[c] = 0
    /\ LET q == queue[mine[c]] IN
       /\ q # <<>> /\ Head(q) # Eof
       /\ Takes(mine[c], Tail(q))
       /\ hand' = [hand EXCEPT ![c] = Head(q)]
    /\ UNCHANGED <<registry, detached, alive, exited, reaping, lock, place, mine, outcome,
                   gone, resumed, produced, draining, shown, scope>>

OutputSends(c) ==
    /\ place[c] = "pumping" /\ hand[c] # 0 /\ c \notin gone
    /\ shown' = [shown EXCEPT ![c] = hand[c]]
    /\ hand' = [hand EXCEPT ![c] = 0]
    /\ UNCHANGED <<registry, detached, alive, exited, reaping, lock, place, mine, outcome,
                   gone, resumed, produced, queue, paused, draining, scope>>

\* The first of the pumps ends; what the output pump has in hand is lost.  Its
\* send raises when the socket is gone; "watchdog" stands for the idle timeout,
\* the lifetime and a protocol error.
PumpEnds(c) ==
    /\ place[c] = "pumping"
    /\ \/ c \in gone /\ outcome' = [outcome EXCEPT ![c] = "disconnect"]
       \/ c \in gone /\ hand[c] # 0 /\ outcome' = [outcome EXCEPT ![c] = "internal"]
       \/ /\ hand[c] = 0 /\ queue[mine[c]] # <<>> /\ Head(queue[mine[c]]) = Eof
          /\ outcome' = [outcome EXCEPT ![c] = "eof"]
       \/ outcome' = [outcome EXCEPT ![c] = "watchdog"]
    /\ Goes(c, "leaving")
    /\ hand' = [hand EXCEPT ![c] = 0]
    /\ UNCHANGED <<registry, detached, alive, exited, reaping, lock, mine, gone,
                   resumed, produced, queue, paused, draining, shown, scope>>

\* Mutant: a session whose socket is gone is only taken from the registry.
LeavesAlone(c) ==
    LET s == mine[c] IN
    /\ place[c] = "leaving"
    /\ IF outcome[c] = "disconnect" /\ s \notin exited
       THEN /\ detached' = IF IsRegistered(s) THEN Append(detached, s) ELSE detached
            /\ draining' = draining \cup {s}
            /\ UNCHANGED <<registry, reaping>>
       ELSE /\ registry' = Without(registry, {s})
            /\ UNCHANGED <<detached, draining, reaping>>

\* The finally block: detach, or unregister and terminate.
Leaves(c) ==
    LET s == mine[c] IN
    /\ place[c] = "leaving"
    /\ IF outcome[c] = "disconnect" /\ s \notin exited
       THEN /\ detached' = IF IsRegistered(s) THEN Append(detached, s) ELSE detached
            /\ draining' = draining \cup {s}
            /\ UNCHANGED <<registry, reaping>>
       ELSE /\ registry' = Without(registry, {s})
            /\ reaping' = reaping \cup {s}
            /\ UNCHANGED <<detached, draining>>

HandlerLeaves(c) ==
    /\ Undisturbed
    /\ Leaves(c)
    /\ Goes(c, "ended")
    /\ gone' = gone \ {c}
    /\ mine' = [mine EXCEPT ![c] = NoConn]
    /\ outcome' = [outcome EXCEPT ![c] = "none"]
    /\ shown' = [shown EXCEPT ![c] = 0]
    /\ UNCHANGED <<alive, exited, lock, resumed, produced, queue, paused, hand, scope>>

\* The client goes away.
Drops(c) ==
    /\ place[c] \in {"attaching", "pumping"} /\ c \notin gone
    /\ gone' = gone \cup {c}
    /\ UNCHANGED <<registry, detached, alive, exited, reaping, lock, place, mine, outcome,
                   resumed, outputVars, draining, scope>>

---------------------------------------------------------------------------
(* PTYs.                                                                   *)

\* _on_readable: a chunk for the ring and the queue.
Reads(s) ==
    /\ s \in alive \ (paused \cup exited \cup InHand) /\ produced[s] < scope.chunks
    /\ produced' = [produced EXCEPT ![s] = @ + 1]
    /\ queue' = [queue EXCEPT ![s] = Append(@, produced'[s])]
    /\ paused' = IF Len(queue'[s]) >= HighWater THEN paused \cup {s} ELSE paused
    /\ UNCHANGED <<registry, detached, alive, exited, reaping, lock, place, mine, outcome,
                   gone, resumed, draining, shown, hand, scope>>

ProcessEnds(s) ==
    /\ s \in alive
    /\ alive' = alive \ {s}
    /\ UNCHANGED <<registry, detached, exited, reaping, lock, place, mine, outcome, gone,
                   resumed, outputVars, draining, scope>>

FinishesOutput(s) ==
    /\ exited' = exited \cup {s}
    /\ queue' = IF s \in exited THEN queue ELSE [queue EXCEPT ![s] = Append(@, Eof)]

SeesEof(s) ==
    /\ IsRegistered(s) /\ s \notin alive \cup paused \cup exited
    /\ FinishesOutput(s)
    /\ UNCHANGED <<registry, detached, alive, reaping, lock, place, mine, outcome, gone,
                   resumed, produced, paused, draining, shown, hand, scope>>

\* The socket of a removed session is told why and closed.
ClosesSocket(s) ==
    /\ s \in reaping
    /\ ~(SocketsOf({s}) \subseteq gone)
    /\ gone' = gone \cup SocketsOf({s})
    /\ UNCHANGED <<registry, detached, alive, exited, reaping, lock, place, mine, outcome,
                   resumed, outputVars, draining, scope>>

\* Mutant: the end of a process that ended by itself is waited for in vain.
ReapedAlive(s) ==
    /\ s \in reaping /\ s \in alive /\ SocketsOf({s}) \subseteq gone
    /\ reaping' = reaping \ {s}
    /\ alive' = alive \ {s}
    /\ FinishesOutput(s)
    /\ UNCHANGED <<registry, detached, lock, place, mine, outcome, gone, resumed,
                   produced, paused, draining, shown, hand, scope>>

\* terminate() is done: SIGKILL has been enough at last.
Reaped(s) ==
    /\ s \in reaping /\ SocketsOf({s}) \subseteq gone
    /\ reaping' = reaping \ {s}
    /\ alive' = alive \ {s}
    /\ FinishesOutput(s)
    /\ UNCHANGED <<registry, detached, lock, place, mine, outcome, gone, resumed,
                   produced, paused, draining, shown, hand, scope>>

\* The drainer of a detached session.
Drains(s) ==
    /\ s \in draining
    /\ queue[s] # <<>> /\ Head(queue[s]) # Eof
    /\ Takes(s, Tail(queue[s]))
    /\ UNCHANGED <<registry, detached, alive, exited, reaping, lock, place, mine, outcome,
                   gone, resumed, produced, draining, shown, hand, scope>>

---------------------------------------------------------------------------
(* The sweeper, and a restart.                                             *)

\* Mutant: the sweeper forgets sessions nobody is attached to.
DoomedAttached == {s \in ToSet(registry) : ~IsDetached(s)}

\* A detached session that is quiet for long or has exited, or any that is too old.
Doomed == ToSet(registry)

Sweeps ==
    /\ lock = NoConn /\ Undisturbed
    /\ \E doomed \in SUBSET Doomed : doomed # {} /\ Removes(doomed)
    /\ UNCHANGED <<alive, exited, lock, place, mine, outcome, gone, resumed, outputVars,
                   scope>>

Restarts ==
    /\ lock = NoConn /\ registry # <<>> /\ Undisturbed
    /\ Removes(ToSet(registry))
    /\ UNCHANGED <<alive, exited, lock, place, mine, outcome, gone, resumed, outputVars,
                   scope>>

---------------------------------------------------------------------------
HandlerStep(c) ==
    \/ Looks(c) \/ Attaches(c) \/ Claims(c) \/ Spawns(c) \/ Registers(c)
    \/ HandlerLeaves(c)

PtyStep(s) ==
    \/ Reads(s) \/ ProcessEnds(s) \/ SeesEof(s) \/ Drains(s)
    \/ ClosesSocket(s) \/ Reaped(s)

Next ==
    \/ \E c \in Conns :
          \/ Connects(c) \/ Drops(c) \/ HandlerStep(c)
          \/ OutputTakes(c) \/ OutputSends(c) \/ PumpEnds(c)
    \/ \E s \in Conns : PtyStep(s)
    \/ Sweeps \/ Restarts

Spec == Init /\ [][Next]_vars

(* Fairness.  The event loop goes on and the lock is fair; a terminated    *)
(* process is reaped, since the last signal is SIGKILL; the close of a     *)
(* socket returns or raises, since the server's keepalive gives up a peer  *)
(* that does not answer; a handler learns that its socket is gone; and the *)
(* sweeper comes again, at last with every detached session beyond its     *)
(* grace.  Connections take finitely many steps, so that each kind of step *)
(* needs fairness only as a whole.                                         *)
SweepsDetached == Sweeps /\ detached' = <<>>

Fairness ==
    /\ SF_vars(\E c \in Conns : HandlerStep(c))
    /\ WF_vars(\E c \in Conns : PumpEnds(c) /\ c \in gone)
    /\ WF_vars(\E s \in Conns : ClosesSocket(s))
    /\ WF_vars(\E s \in Conns : Reaped(s))
    /\ SF_vars(SweepsDetached)

FairSpec == Spec /\ Fairness

---------------------------------------------------------------------------
(* Properties.                                                             *)

Served(s) == \E c \in Conns : mine[c] = s /\ place[c] \in {"attaching", "pumping", "leaving"}

\* Every variable keeps to its range, and the registry holds each session
\* once (manager.py).
TypeOK ==
    /\ registry \in Seq(Conns) /\ IsInjective(registry)
    /\ detached \in Seq(Conns) /\ IsInjective(detached)
    /\ ToSet(detached) \subseteq ToSet(registry)
    /\ alive \cup exited \cup reaping \cup gone \cup resumed \cup paused
          \cup draining \subseteq Conns
    /\ lock \in Conns \cup {NoConn}
    /\ place \in [Conns -> Places] /\ outcome \in [Conns -> Outcomes]
    /\ mine \in [Conns -> Conns \cup {NoConn}]
    /\ produced \in [Conns -> 0..scope.chunks] /\ shown \in [Conns -> 0..scope.chunks]
    /\ hand \in [Conns -> 0..scope.chunks]
    /\ \A s \in Conns : Len(queue[s]) <= HighWater + 1
    /\ scope \in Scopes

\* No process is lost: one that runs is registered, being terminated, or in
\* the hands of the handler that is about to register it; and a registered one
\* that has no socket is detached, so that it can be adopted or swept
\* (manager.py detach, claim, sweeper; app.py's spawn and finally block).
NoOrphan ==
    /\ alive \subseteq ToSet(registry) \cup reaping \cup InHand
    /\ \A s \in ToSet(registry) : Served(s) # IsDetached(s)

\* Two sockets never serve one session, whatever is adopted, detached and
\* adopted again.
OneSocket ==
    \A s \in Conns :
        Cardinality({c \in Conns : mine[c] = s /\ place[c] \in {"attaching", "pumping", "leaving"}}) <= 1

\* What a socket has been shown, what it is being sent and what is queued are
\* the chunks of the PTY, each once and in order: a replay repeats nothing
\* that follows and leaves nothing out (the ring and the live queue are
\* parallel views, pty_session.py:185).
Pending(c) ==
    (IF hand[c] = 0 THEN <<>> ELSE <<hand[c]>>) \o Kept(queue[mine[c]], 1..scope.chunks)
LiveContinues ==
    \A c \in Conns :
        place[c] = "pumping" =>
            Pending(c) = [i \in 1..(produced[mine[c]] - shown[c]) |-> shown[c] + i]

\* A PTY that is not read has chunks queued, so that taking them resumes it.
NoStall == \A s \in paused \ exited : Len(queue[s]) > LowWater

\* Orderly connections keep to the cap.  Overlapping ones do not: claim makes
\* room, but the place is only taken by register, after the spawn.
CapHeld == scope.orderly => Len(registry) <= scope.cap

\* Orderly connections never start an agent on a conversation that another
\* one goes on with: of the agents that resume it all but one are already being
\* terminated.  They may still run for a while, since nobody who connects
\* after a restart, a sweep or a handler's end waits for that.
OneResumes == scope.orderly => Cardinality((resumed \cap alive) \ reaping) <= 1

\* A redeemed connection gets a session or is refused: evictions, sweeps and
\* other connections only delay it.
Answered == []<>(\A c \in Conns : ~Attaching(c))

\* A process nobody is connected to does not run for ever.
NotForgotten == []<>(\A s \in alive : Served(s))

\* The finally block keeps the agent of a connection that its client dropped:
\* "a dropped connection DETACHES" (manager.py:6).
DropKeepsAgent ==
    [][\A c \in Conns :
        /\ place[c] = "leaving" /\ c \in gone /\ outcome[c] # "watchdog"
        /\ mine[c] \in alive \cap ToSet(registry)
        /\ place'[c] = "ended"
        => mine[c] \in ToSet(detached')]_vars
=============================================================================
