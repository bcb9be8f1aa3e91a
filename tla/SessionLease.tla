---------------------------- MODULE SessionLease ----------------------------
(***************************************************************************)
(* The session lease between a browser panel's agent ("wire") and a        *)
(* terminal ("shell"): owner.json, read and rewritten without a lock by    *)
(* the processes that open the session (session_lock.py, session_lease.py, *)
(* the heartbeats of wire/server.py and ui/shell) and by agentd            *)
(* (session_owner.py, _handle_session_owned of routes_coder.py).           *)
(*                                                                         *)
(* A read-modify-write is two actions: the record it will write is in `io` *)
(* between them.  Time passes in heartbeat periods of ten seconds (Tick).  *)
(***************************************************************************)
EXTENDS Naturals, FiniteSets

CONSTANTS
    Wires,          \* agent processes agentd may spawn for the session
    Shells,         \* terminal processes a user may start on it
    NoOwner,        \* owner.json is missing or unreadable
    NoIO,           \* no read-modify-write is in flight
    NoProc,         \* agentd has spawned no process
    NoGen,          \* the process knows no generation
    Environments    \* scope: sets of AllHazards, one of which a run is under

Procs == Wires \cup Shells
Stale == 3          \* STALE_AFTER_SECONDS in heartbeat periods
Wait == 2           \* coder_takeover_wait_seconds, rounded up to periods

\* OwnerInfo
Owners == [holder : Procs, gen : Nat, age : 0 .. Stale, steal : BOOLEAN, busy : BOOLEAN]

(* stall: a process misses heartbeats or starts slowly; race: processes'   *)
(* read-modify-writes overlap; torn: agentd's overlap with a process's;    *)
(* crash: a process dies without releasing; disk: a write or an unlink     *)
(* does not land.                                                          *)
AllHazards == {"stall", "race", "torn", "crash", "disk"}

ASSUME SessionLeaseAssumption ==
    /\ Wires \cap Shells = {}
    /\ NoProc \notin Procs /\ NoGen \notin Nat
    /\ NoOwner \notin Owners /\ NoIO \notin Owners \cup {NoOwner}
    /\ Environments \subseteq SUBSET AllHazards

VARIABLES
    file,   \* owner.json
    pc,     \* where each process is
    io,     \* the write each process owes owner.json, NoOwner being an unlink
    gen,    \* _lease_generation, until the process is gone
    busy,   \* a turn is streaming
    due,    \* a heartbeat is due
    desk,   \* agentd's /open of the conversation: its locals and its answer
    dio,    \* the write agentd owes owner.json
    hz      \* the hazards of this behaviour

vars == <<file, pc, io, gen, busy, due, desk, dio, hz>>

Places == {"off", "start", "create", "up", "refuse", "stopping", "gone"}
Serving == {"create", "up", "refuse", "stopping"}

Init ==
    /\ file = NoOwner
    /\ pc = [p \in Procs |-> "off"]
    /\ io = [p \in Procs |-> NoIO]
    /\ gen = [p \in Procs |-> NoGen]
    /\ busy = [p \in Procs |-> FALSE]
    /\ due = [p \in Procs |-> FALSE]
    /\ desk = [at |-> "idle", kid |-> NoProc, takeover |-> FALSE, asked |-> FALSE,
               waited |-> 0, answer |-> "none", refused |-> FALSE]
    /\ dio = NoIO
    /\ hz \in Environments

---------------------------------------------------------------------------
(* The operations on owner.json.                                           *)

\* Mutant: one missed heartbeat too few makes an owner stale.
IsLiveBriefly(owner) == owner.age < Stale - 1

\* Mutant: an owner is never stale.
IsLiveForever(owner) == owner.age <= Stale

IsLive(owner) == owner.age < Stale

\* try_acquire by p is refused.
HeldByAnother(p) == file # NoOwner /\ file.holder # p /\ IsLive(file)

\* Mutant: the generation counts the wrong way.
GrantedBackwards(p) ==
    [holder |-> p, gen |-> IF file = NoOwner THEN 1 ELSE file.gen - 1, age |-> 0,
     steal |-> FALSE, busy |-> file # NoOwner /\ file.holder = p /\ file.busy]

\* The record try_acquire grants p: a self-re-acquire keeps `busy`.
Granted(p) ==
    [holder |-> p, gen |-> IF file = NoOwner THEN 1 ELSE file.gen + 1, age |-> 0,
     steal |-> FALSE, busy |-> file # NoOwner /\ file.holder = p /\ file.busy]

\* Mutant: release compares the generation only.
ReleasableByGeneration(p) == file # NoOwner /\ gen[p] \in {NoGen, file.gen}

\* release by p may remove the record.
Releasable(p) ==
    /\ file # NoOwner
    /\ file.holder = p
    /\ gen[p] \in {NoGen, file.gen}

\* Who else may be between a read and its write when p, or agentd, reads.
MayRead(p) ==
    /\ io[p] = NoIO
    /\ \/ "race" \in hz
       \/ \A q \in Procs : io[q] = NoIO
    /\ \/ "torn" \in hz
       \/ dio = NoIO /\ desk.at # "reissue"
DeskMayRead ==
    /\ dio = NoIO
    /\ \/ "torn" \in hz
       \/ \A q \in Procs : io[q] = NoIO

\* Every write fails open: its caller goes on as if it had landed.
Lands(write) == file' = write \/ ("disk" \in hz /\ UNCHANGED file)

Moves(p, place) == pc' = [pc EXCEPT ![p] = place]
Owes(p, write) == io' = [io EXCEPT ![p] = write]

---------------------------------------------------------------------------
(* A process: start, serve, heartbeats, end.                               *)

\* A user opens the session in a terminal.
Launch(p) ==
    /\ p \in Shells
    /\ pc[p] = "off"
    /\ Moves(p, "start")
    /\ UNCHANGED <<file, io, gen, busy, due, desk, dio, hz>>

\* /open answers; a request that was placed is rescinded first.
Over(d) == [d EXCEPT !.at = "done", !.takeover = FALSE, !.asked = FALSE, !.waited = 0]

\* Mutant: the request of a takeover that gave up stays on the record.
LeavesRequest(d, answer) == Over([d EXCEPT !.answer = answer])

Leaves(d, answer) ==
    IF d.asked THEN [d EXCEPT !.answer = answer, !.at = "rescind"]
               ELSE Over([d EXCEPT !.answer = answer])

\* What agentd makes of a `session_owned` refusal of the process it spawned:
\* a turn in flight is never taken over, and nothing is without `takeover`.
Refusal(d, byBusy) ==
    IF d.at = "spawning" /\ d.takeover /\ ~byBusy THEN [d EXCEPT !.at = "steal"]
    ELSE Leaves([d EXCEPT !.refused = byBusy],
                IF byBusy /\ d.takeover THEN "busy" ELSE "owned")

\* try_acquire at start: another live owner refuses the session.
StartReads(p) ==
    /\ pc[p] = "start" /\ MayRead(p)
    /\ IF HeldByAnother(p)
       THEN /\ Moves(p, "gone")
            /\ desk' = IF desk.kid = p THEN Refusal(desk, file.busy) ELSE desk
            /\ UNCHANGED io
       ELSE /\ Owes(p, Granted(p))
            /\ UNCHANGED <<pc, desk>>
    /\ UNCHANGED <<file, gen, busy, due, dio, hz>>

StartWrites(p) ==
    /\ pc[p] = "start" /\ io[p] # NoIO
    /\ Lands(io[p])
    /\ Owes(p, NoIO)
    /\ Moves(p, "create")
    /\ UNCHANGED <<gen, busy, due, desk, dio, hz>>

\* The process serves: a spawned agent's handshake answers /open.
Serves(p, d) ==
    /\ Moves(p, "up")
    /\ due' = [due EXCEPT ![p] = FALSE]
    /\ desk' = IF d.kid = p THEN Leaves(d, "started") ELSE d

\* The self-re-acquire when the process begins to serve: refused, a wire goes
\* on without a generation and a shell exits without releasing.
ServeReads(p) ==
    /\ pc[p] = "create" /\ MayRead(p)
    /\ IF HeldByAnother(p)
       THEN /\ IF p \in Wires
               THEN Serves(p, desk)
               ELSE Moves(p, "gone") /\ UNCHANGED <<due, desk>>
            /\ UNCHANGED io
       ELSE Owes(p, Granted(p)) /\ UNCHANGED <<pc, due, desk>>
    /\ UNCHANGED <<file, gen, busy, dio, hz>>

ServeWrites(p) ==
    /\ pc[p] = "create" /\ io[p] # NoIO
    /\ Lands(io[p])
    /\ gen' = [gen EXCEPT ![p] = io[p].gen]
    /\ Owes(p, NoIO)
    /\ Serves(p, desk)
    /\ UNCHANGED <<busy, dio, hz>>

TurnBegins(p) ==
    /\ pc[p] = "up" /\ io[p] = NoIO /\ ~busy[p]
    /\ busy' = [busy EXCEPT ![p] = TRUE]
    /\ UNCHANGED <<file, pc, io, gen, due, desk, dio, hz>>

\* A turn ends, or is cancelled and has unwound while the process shuts down.
TurnEnds(p) ==
    /\ pc[p] \in {"up", "stopping"} /\ io[p] = NoIO /\ busy[p]
    /\ busy' = [busy EXCEPT ![p] = FALSE]
    /\ UNCHANGED <<file, pc, io, gen, due, desk, dio, hz>>

\* Mutant: a record of another is treated like a vanished one.
HeartbeatReadsDeaf(p) ==
    /\ pc[p] = "up" /\ due[p] /\ MayRead(p)
    /\ due' = [due EXCEPT ![p] = FALSE]
    /\ IF file # NoOwner /\ file.holder = p
       THEN Owes(p, [file EXCEPT !.age = 0, !.busy = busy[p]])
       ELSE UNCHANGED io
    /\ UNCHANGED <<file, pc, gen, busy, desk, dio, hz>>

\* heartbeat(): no record is "vanished" and leaves the process serving,
\* another's is "taken" and makes it stand down.
HeartbeatReads(p) ==
    /\ pc[p] = "up" /\ due[p] /\ MayRead(p)
    /\ due' = [due EXCEPT ![p] = FALSE]
    /\ \/ file = NoOwner /\ UNCHANGED <<pc, io>>
       \/ file # NoOwner /\ file.holder # p /\ Moves(p, "stopping") /\ UNCHANGED io
       \/ /\ file # NoOwner /\ file.holder = p
          /\ Owes(p, [file EXCEPT !.age = 0, !.busy = busy[p]])
          /\ UNCHANGED pc
    /\ UNCHANGED <<file, gen, busy, desk, dio, hz>>

\* Mutant: an idle owner that is asked to step aside goes on.
HeartbeatWritesStays(p) ==
    /\ pc[p] = "up" /\ io[p] # NoIO
    /\ Lands(io[p])
    /\ Owes(p, NoIO)
    /\ IF io[p].steal /\ busy[p] THEN Moves(p, "refuse") ELSE UNCHANGED pc
    /\ due' = [due EXCEPT ![p] = FALSE]
    /\ UNCHANGED <<gen, busy, desk, dio, hz>>

\* Mutant: an owner steps aside in the middle of a turn too.
HeartbeatWritesYields(p) ==
    /\ pc[p] = "up" /\ io[p] # NoIO
    /\ Lands(io[p])
    /\ Owes(p, NoIO)
    /\ IF io[p].steal THEN Moves(p, "stopping") ELSE UNCHANGED pc
    /\ due' = [due EXCEPT ![p] = FALSE]
    /\ UNCHANGED <<gen, busy, desk, dio, hz>>

\* A steal request that was read is obeyed when idle, refused mid-turn; the
\* loop then sleeps a whole period again.
HeartbeatWrites(p) ==
    /\ pc[p] = "up" /\ io[p] # NoIO
    /\ Lands(io[p])
    /\ Owes(p, NoIO)
    /\ IF io[p].steal
       THEN Moves(p, IF busy[p] THEN "refuse" ELSE "stopping")
       ELSE UNCHANGED pc
    /\ due' = [due EXCEPT ![p] = FALSE]
    /\ UNCHANGED <<gen, busy, desk, dio, hz>>

\* The refusal is a self-re-acquire, which clears the request.
RefuseReads(p) ==
    /\ pc[p] = "refuse" /\ MayRead(p)
    /\ IF HeldByAnother(p)
       THEN Moves(p, "stopping") /\ UNCHANGED io
       ELSE Owes(p, Granted(p)) /\ UNCHANGED pc
    /\ UNCHANGED <<file, gen, busy, due, desk, dio, hz>>

RefuseWrites(p) ==
    /\ pc[p] = "refuse" /\ io[p] # NoIO
    /\ Lands(io[p])
    /\ gen' = [gen EXCEPT ![p] = io[p].gen]
    /\ Owes(p, NoIO)
    /\ Moves(p, "up")
    /\ desk' = [desk EXCEPT !.refused = TRUE]
    /\ UNCHANGED <<busy, due, dio, hz>>

\* The user quits, the client disconnects or agentd stops the conversation.
Quit(p) ==
    /\ pc[p] = "up" /\ io[p] = NoIO
    /\ Moves(p, "stopping")
    /\ due' = [due EXCEPT ![p] = FALSE]
    /\ UNCHANGED <<file, io, gen, busy, desk, dio, hz>>

Ends(p) == Moves(p, "gone") /\ gen' = [gen EXCEPT ![p] = NoGen]

\* Only once the turn has unwound.
ReleaseReads(p) ==
    /\ pc[p] = "stopping" /\ ~busy[p] /\ MayRead(p)
    /\ IF Releasable(p)
       THEN Owes(p, NoOwner) /\ UNCHANGED <<pc, gen>>
       ELSE Ends(p) /\ UNCHANGED io
    /\ UNCHANGED <<file, busy, due, desk, dio, hz>>

ReleaseUnlinks(p) ==
    /\ pc[p] = "stopping" /\ io[p] = NoOwner
    /\ Lands(NoOwner)
    /\ Owes(p, NoIO)
    /\ Ends(p)
    /\ UNCHANGED <<busy, due, desk, dio, hz>>

Crash(p) ==
    /\ "crash" \in hz
    /\ pc[p] \in {"start"} \cup Serving
    /\ Ends(p)
    /\ Owes(p, NoIO)
    /\ busy' = [busy EXCEPT ![p] = FALSE]
    /\ due' = [due EXCEPT ![p] = FALSE]
    /\ desk' = IF desk.kid = p /\ desk.at \in {"spawning", "respawning"}
               THEN Leaves(desk, "failed") ELSE desk
    /\ UNCHANGED <<file, dio, hz>>

---------------------------------------------------------------------------
(* agentd: /open, and the takeover of a session a terminal holds.          *)

Spawns(w, d) ==
    /\ w \in Wires
    /\ pc[w] = "off"
    /\ Moves(w, "start")
    /\ desk' = [d EXCEPT !.kid = w]
    /\ UNCHANGED <<file, io, gen, busy, due, dio, hz>>

\* Bound: a takeover has a process left to spawn again.
OpenBegins(w, takeover) ==
    /\ desk.at \in {"idle", "done"}
    /\ takeover => \E v \in Wires \ {w} : pc[v] = "off"
    /\ desk.kid # NoProc => pc[desk.kid] = "gone"
    /\ Spawns(w, [at |-> "spawning", kid |-> w, takeover |-> takeover, asked |-> FALSE,
                  waited |-> 0, answer |-> "none", refused |-> FALSE])

\* The end of a poll: the deadline, or the next poll.
PollAgain(d) == IF d.waited = Wait THEN Leaves(d, "timeout") ELSE [d EXCEPT !.at = "poll"]

\* A request with no live owner, or that does not land: at first reason to
\* spawn again at once, of no account later.
StealFails(d) == IF d.at = "steal" THEN [d EXCEPT !.at = "respawn"] ELSE PollAgain(d)

\* request_steal, first and on every poll that finds the request pending.
StealReads ==
    /\ desk.at \in {"steal", "reissue"} /\ DeskMayRead
    /\ IF file # NoOwner /\ IsLive(file)
       THEN dio' = [file EXCEPT !.steal = TRUE] /\ UNCHANGED desk
       ELSE desk' = StealFails(desk) /\ UNCHANGED dio
    /\ UNCHANGED <<file, pc, io, gen, busy, due, hz>>

StealWrites ==
    /\ desk.at \in {"steal", "reissue"} /\ dio # NoIO
    /\ dio' = NoIO
    /\ \/ file' = dio /\ desk' = PollAgain([desk EXCEPT !.asked = TRUE])
       \/ "disk" \in hz /\ UNCHANGED file /\ desk' = StealFails(desk)
    /\ UNCHANGED <<pc, io, gen, busy, due, hz>>

\* One poll: the owner departed, cleared the request, or has yet to see it.
PollReads ==
    /\ desk.at = "poll" /\ DeskMayRead
    /\ desk' = IF file = NoOwner \/ ~IsLive(file) THEN [desk EXCEPT !.at = "respawn"]
               ELSE IF ~file.steal THEN Leaves(desk, "busy")
               ELSE [desk EXCEPT !.at = "reissue"]
    /\ UNCHANGED <<file, pc, io, gen, busy, due, dio, hz>>

\* The waiting request is cancelled.
OpenCancelled ==
    /\ desk.at = "poll"
    /\ desk' = Leaves(desk, "cancelled")
    /\ UNCHANGED <<file, pc, io, gen, busy, due, dio, hz>>

Respawn(w) ==
    /\ desk.at = "respawn"
    /\ Spawns(w, [desk EXCEPT !.at = "respawning"])

RescindReads ==
    /\ desk.at = "rescind" /\ DeskMayRead
    /\ IF file # NoOwner /\ desk.asked /\ file.steal
       THEN dio' = [file EXCEPT !.steal = FALSE] /\ UNCHANGED desk
       ELSE desk' = Over(desk) /\ UNCHANGED dio
    /\ UNCHANGED <<file, pc, io, gen, busy, due, hz>>

RescindWrites ==
    /\ desk.at = "rescind" /\ dio # NoIO
    /\ Lands(dio)
    /\ dio' = NoIO
    /\ desk' = Over(desk)
    /\ UNCHANGED <<pc, io, gen, busy, due, hz>>

---------------------------------------------------------------------------
(* Time.                                                                   *)

Older(write) ==
    IF write \in {NoIO, NoOwner} \/ write.age = Stale THEN write
    ELSE [write EXCEPT !.age = @ + 1]

\* A serving owner's record would be stale in the next period.
ExpiresNext ==
    file # NoOwner /\ pc[file.holder] \in Serving /\ file.age >= Stale - 1

\* No process is late: heartbeats are done, and no owner is about to go stale
\* unless its heartbeats do not land.
InTime ==
    /\ \A p \in Procs :
          /\ io[p] = NoIO
          /\ pc[p] \notin {"start", "refuse"}
          /\ ~(pc[p] = "up" /\ due[p])
    /\ "disk" \in hz \/ ~ExpiresNext

\* agentd itself is never late: it polls twenty times in a period.
Tick ==
    /\ "stall" \in hz \/ InTime
    /\ dio = NoIO
    /\ desk.at \notin {"steal", "reissue", "respawn", "rescind"}
    /\ desk.at = "poll" => desk.waited < Wait
    /\ file' = Older(file)
    /\ io' = [p \in Procs |-> Older(io[p])]
    /\ due' = [p \in Procs |-> pc[p] = "up"]
    /\ desk' = IF desk.at = "poll" THEN [desk EXCEPT !.waited = @ + 1] ELSE desk
    /\ UNCHANGED <<pc, gen, busy, dio, hz>>

---------------------------------------------------------------------------
ProcStep(p) ==
    \/ StartReads(p) \/ StartWrites(p) \/ ServeReads(p) \/ ServeWrites(p)
    \/ HeartbeatReads(p) \/ HeartbeatWrites(p) \/ RefuseReads(p) \/ RefuseWrites(p)
    \/ ReleaseReads(p) \/ ReleaseUnlinks(p)

DeskStep ==
    \/ StealReads \/ StealWrites \/ PollReads
    \/ RescindReads \/ RescindWrites
    \/ \E w \in Wires : Respawn(w)

Environment ==
    \/ \E p \in Procs : Launch(p) \/ TurnBegins(p) \/ TurnEnds(p) \/ Quit(p) \/ Crash(p)
    \/ \E w \in Wires, takeover \in BOOLEAN : OpenBegins(w, takeover)
    \/ OpenCancelled

Next == Environment \/ DeskStep \/ Tick \/ \E p \in Procs : ProcStep(p)

Spec == Init /\ [][Next]_vars

\* Processes, agentd and the clock go on, and cancelled turns unwind.  Fairness
\* is strong where a guard (MayRead) only keeps hazards out of the behaviour:
\* no process ever really waits for another's read-modify-write.
Fairness ==
    /\ \A p \in Procs :
          SF_vars(ProcStep(p)) /\ WF_vars(pc[p] = "stopping" /\ TurnEnds(p))
    /\ SF_vars(DeskStep)
    /\ SF_vars(Tick)

FairSpec == Spec /\ Fairness

---------------------------------------------------------------------------
DeskPlaces == {"idle", "spawning", "steal", "poll", "reissue", "respawn",
               "respawning", "rescind", "done"}
Answers == {"none", "owned", "busy", "timeout", "cancelled", "started", "failed"}

\* The type of every variable.
TypeOK ==
    /\ file \in Owners \cup {NoOwner}
    /\ pc \in [Procs -> Places]
    /\ io \in [Procs -> Owners \cup {NoOwner, NoIO}]
    /\ gen \in [Procs -> Nat \cup {NoGen}]
    /\ busy \in [Procs -> BOOLEAN]
    /\ due \in [Procs -> BOOLEAN]
    /\ desk \in [at : DeskPlaces, kid : Procs \cup {NoProc}, takeover : BOOLEAN,
                 asked : BOOLEAN, waited : 0 .. Wait, answer : Answers,
                 refused : BOOLEAN]
    /\ dio \in Owners \cup {NoIO}
    /\ hz \in Environments

\* While heartbeats are in time and no two read-modify-writes overlap, one
\* process at most has the session open, and it is the recorded owner until
\* its release: crashes, takeovers, refusals and rescinded requests included.
OneOwner ==
    hz \subseteq {"crash"} =>
        \A p \in Procs : pc[p] \in Serving =>
            /\ file # NoOwner /\ file.holder = p
            /\ \A q \in Procs \ {p} : pc[q] \notin Serving

\* Once /open has answered, no request of its takeover is left on the record
\* for a later heartbeat of the owner to obey, unless a read-modify-write of
\* agentd's overlapped with a process's or a write did not land.
NoOrphanRequest ==
    hz \cap {"torn", "disk"} = {} /\ desk.at \in {"idle", "done"} /\ file # NoOwner
        => ~file.steal

\* A takeover that runs into its deadline found an owner that is still starting
\* or already leaving: one that serves has stepped aside or refused by then.
TimeoutOnlyOffDuty ==
    [][hz = {} /\ desk.answer # "timeout" /\ desk'.answer = "timeout" =>
        file # NoOwner /\ pc[file.holder] \in {"create", "stopping"}]_vars

\* A turn is never cut off by a takeover: as long as heartbeats are in time and
\* writes do not overlap, only its own client ends a busy process.
TurnNeverEvicted ==
    [][\A p \in Procs :
        hz \subseteq {"crash"} /\ busy[p] /\ pc[p] \in {"up", "refuse"}
            /\ pc'[p] = "stopping" => Quit(p)]_vars

\* A release removes no successor's record, even by a process that was late,
\* as long as no other read-modify-write falls into it.
SuccessorSpared ==
    [][hz \cap {"race", "torn"} = {} /\ file # NoOwner /\ file' = NoOwner =>
        pc'[file.holder] = "gone"]_vars

\* No process goes on serving beside a record that is another's, whatever led to
\* it: the record becomes its own again or goes away, or its heartbeat makes it
\* stand down.  One that finds no record at all goes on (see README).
Usurped == \E p \in Procs : pc[p] = "up" /\ file # NoOwner /\ file.holder # p
ZombiesStandDown == Usurped ~> ~Usurped

\* A record nobody is behind any more, after a crash or an overlapping write,
\* goes away or goes stale, so the session can be opened again.
NotBricked ==
    (file # NoOwner /\ pc[file.holder] = "gone")
        ~> (file = NoOwner \/ ~IsLive(file) \/ pc[file.holder] # "gone")

\* What the comments of _handle_session_owned say of a request found cleared on
\* a record that persists: an owner that is mid-turn refused the takeover.
BusyOnlyIfRefused == desk.answer = "busy" => desk.refused

=============================================================================
