------------------------ MODULE SessionLease_proofs ------------------------
(***************************************************************************)
(* Theorems about SessionLease, for any number of agent processes and      *)
(* terminals and any set of hazards.                                       *)
(***************************************************************************)
EXTENDS SessionLease, TLAPS

USE SessionLeaseAssumption

-----------------------------------------------------------------------------
(* Types.                                                                  *)

Desks == [at : DeskPlaces, kid : Procs \cup {NoProc}, takeover : BOOLEAN,
          asked : BOOLEAN, waited : 0 .. Wait, answer : Answers, refused : BOOLEAN]

\* The write a process owes is its own record while it holds or claims the
\* session, and an unlink only when it releases.
WritesOwn ==
    \A p \in Procs :
        /\ io[p] = NoOwner => pc[p] = "stopping"
        /\ io[p] \in Owners =>
              /\ io[p].holder = p
              /\ pc[p] \in {"start", "create", "up", "refuse"}

LEMMA GrantedType ==
    ASSUME TypeOK, NEW p \in Procs
    PROVE  /\ Granted(p) \in Owners
           /\ Granted(p).holder = p
           /\ Granted(p).age = 0
  BY DEF Granted, TypeOK, Owners, Stale

\* The record a heartbeat writes back.
LEMMA StampedType ==
    ASSUME TypeOK, NEW p \in Procs, file # NoOwner
    PROVE  /\ [file EXCEPT !.age = 0, !.busy = busy[p]] \in Owners
           /\ [file EXCEPT !.age = 0, !.busy = busy[p]].holder = file.holder
           /\ [file EXCEPT !.age = 0, !.busy = busy[p]].age = 0
<1>1. file \in Owners /\ 0 \in 0 .. Stale
  BY DEF TypeOK, Stale
<1>2. busy[p] \in BOOLEAN
  BY DEF TypeOK
<1>. DEFINE b == busy[p]
            stamped == [file EXCEPT !.age = 0, !.busy = b]
<1>3. b \in BOOLEAN
  BY <1>2
<1>. HIDE DEF b
<1>4. stamped \in Owners /\ stamped.holder = file.holder /\ stamped.age = 0
  BY <1>1, <1>3 DEF Owners
<1>. QED  BY <1>4 DEF b

LEMMA OlderType ==
    ASSUME NEW write \in Owners \cup {NoOwner, NoIO}
    PROVE  /\ Older(write) \in Owners \cup {NoOwner, NoIO}
           /\ write = NoOwner <=> Older(write) = NoOwner
           /\ write = NoIO <=> Older(write) = NoIO
           /\ write \in Owners =>
                 /\ Older(write) \in Owners
                 /\ Older(write).holder = write.holder
                 /\ Older(write).age <= write.age + 1
<1>1. CASE write \in {NoOwner, NoIO}
  BY <1>1 DEF Older
<1>2. CASE write \in Owners
  BY <1>2 DEF Older, Owners, Stale
<1>. QED  BY <1>1, <1>2

\* What a write that may not land leaves on the record.
LEMMA LandsType ==
    ASSUME TypeOK, NEW write \in Owners \cup {NoOwner}, Lands(write)
    PROVE  file' \in Owners \cup {NoOwner}
  BY DEF Lands, TypeOK

LEMMA OverType ==
    ASSUME NEW d \in Desks
    PROVE  /\ Over(d) \in Desks
           /\ Over(d).at = "done" /\ Over(d).kid = d.kid /\ Over(d).answer = d.answer
           /\ ~Over(d).asked /\ Over(d).waited = 0
<1>1. PICK d1 : d1 = [d EXCEPT !.at = "done"]
  OBVIOUS
<1>2. PICK d2 : d2 = [d1 EXCEPT !.takeover = FALSE]
  OBVIOUS
<1>3. PICK d3 : d3 = [d2 EXCEPT !.asked = FALSE]
  OBVIOUS
<1>4. Over(d) = [d3 EXCEPT !.waited = 0]
  BY <1>1, <1>2, <1>3 DEF Over
<1>5. d1 \in Desks /\ d1.at = "done" /\ d1.kid = d.kid /\ d1.answer = d.answer
  BY <1>1 DEF Desks, DeskPlaces
<1>6. d2 \in Desks /\ d2.at = "done" /\ d2.kid = d.kid /\ d2.answer = d.answer
  BY <1>2, <1>5 DEF Desks
<1>7. /\ d3 \in Desks /\ d3.at = "done" /\ d3.kid = d.kid /\ d3.answer = d.answer
      /\ ~d3.asked
  BY <1>3, <1>6 DEF Desks
<1>. QED  BY <1>4, <1>7 DEF Desks, Wait

\* A way out of /open: a request that was placed is rescinded first.
LeavesTo(d, e) ==
    /\ e \in Desks /\ e.kid = d.kid
    /\ IF d.asked THEN e.at = "rescind" /\ e.asked
                  ELSE e.at = "done" /\ ~e.asked /\ e.waited = 0

LEMMA LeavesType ==
    ASSUME NEW d \in Desks, NEW answer \in Answers
    PROVE  LeavesTo(d, Leaves(d, answer)) /\ Leaves(d, answer).answer = answer
<1>. DEFINE e == [d EXCEPT !.answer = answer]
<1>1. e \in Desks /\ e.kid = d.kid /\ e.asked = d.asked /\ e.answer = answer
  BY DEF Desks
<1>2. CASE d.asked
  <2>1. Leaves(d, answer) = [d EXCEPT !.answer = answer, !.at = "rescind"]
    BY <1>2 DEF Leaves
  <2>2. [d EXCEPT !.answer = answer, !.at = "rescind"] \in Desks
    BY DEF Desks, DeskPlaces
  <2>. QED  BY <1>2, <2>1, <2>2 DEF LeavesTo, Desks
<1>3. CASE ~d.asked
  <2>1. Leaves(d, answer) = Over(e)
    BY <1>3 DEF Leaves
  <2>. HIDE DEF e
  <2>. QED  BY <1>1, <1>3, <2>1, OverType DEF LeavesTo
<1>. QED  BY <1>2, <1>3

\* The answers agentd gives, each a name of its own.
LEMMA Answering ==
    ASSUME NEW d \in Desks, NEW answer, answer \in {"started", "failed", "timeout", "busy",
                                                   "cancelled"}
    PROVE  LeavesTo(d, Leaves(d, answer)) /\ Leaves(d, answer).answer = answer
  BY LeavesType DEF Answers

LEMMA PollAgainType ==
    ASSUME NEW d \in Desks
    PROVE  /\ PollAgain(d) \in Desks /\ PollAgain(d).kid = d.kid
           /\ IF d.waited = Wait THEN /\ LeavesTo(d, PollAgain(d))
                                      /\ PollAgain(d).answer = "timeout"
              ELSE /\ PollAgain(d).at = "poll" /\ PollAgain(d).asked = d.asked
                   /\ PollAgain(d).waited = d.waited /\ PollAgain(d).answer = d.answer
<1>1. PICK answer : answer = "timeout"
  OBVIOUS
<1>2. LeavesTo(d, Leaves(d, answer)) /\ Leaves(d, answer).answer = answer
  BY <1>1, Answering
<1>3. [d EXCEPT !.at = "poll"] \in Desks
  BY DEF Desks, DeskPlaces
<1>4. CASE d.waited = Wait
  BY <1>1, <1>2, <1>4 DEF PollAgain, LeavesTo
<1>5. CASE d.waited # Wait
  BY <1>3, <1>5 DEF PollAgain, Desks
<1>. QED  BY <1>4, <1>5

LEMMA StealFailsType ==
    ASSUME NEW d \in Desks
    PROVE  /\ StealFails(d) \in Desks /\ StealFails(d).kid = d.kid
           /\ d.at = "steal" =>
                 /\ StealFails(d).at = "respawn" /\ StealFails(d).asked = d.asked
                 /\ StealFails(d).answer = d.answer
           /\ d.at # "steal" => StealFails(d) = PollAgain(d)
<1>1. CASE d.at = "steal"
  BY <1>1 DEF StealFails, Desks, DeskPlaces
<1>2. CASE d.at # "steal"
  BY <1>2, PollAgainType DEF StealFails
<1>. QED  BY <1>1, <1>2

LEMMA RefusalType ==
    ASSUME NEW d \in Desks, NEW byBusy \in BOOLEAN
    PROVE  /\ Refusal(d, byBusy) \in Desks /\ Refusal(d, byBusy).kid = d.kid
           /\ \/ /\ d.at = "spawning" /\ Refusal(d, byBusy).at = "steal"
                 /\ Refusal(d, byBusy).asked = d.asked
                 /\ Refusal(d, byBusy).waited = d.waited
                 /\ Refusal(d, byBusy).answer = d.answer
              \/ /\ LeavesTo(d, Refusal(d, byBusy))
                 /\ Refusal(d, byBusy).answer \in {"busy", "owned"}
<1>1. CASE d.at = "spawning" /\ d.takeover /\ ~byBusy
  BY <1>1 DEF Refusal, Desks, DeskPlaces
<1>2. CASE ~(d.at = "spawning" /\ d.takeover /\ ~byBusy)
  <2>. DEFINE e == [d EXCEPT !.refused = byBusy]
  <2>1. PICK answer : answer = IF byBusy /\ d.takeover THEN "busy" ELSE "owned"
    OBVIOUS
  <2>2. answer \in Answers /\ answer \in {"busy", "owned"}
    BY <2>1 DEF Answers
  <2>3. e \in Desks /\ e.kid = d.kid /\ e.asked = d.asked
    BY DEF Desks
  <2>4. Refusal(d, byBusy) = Leaves(e, answer)
    BY <1>2, <2>1 DEF Refusal
  <2>. HIDE DEF e
  <2>5. LeavesTo(e, Leaves(e, answer)) /\ Leaves(e, answer).answer = answer
    BY <2>2, <2>3, LeavesType
  <2>. QED  BY <2>2, <2>3, <2>4, <2>5 DEF LeavesTo
<1>. QED  BY <1>1, <1>2

\* The desk once the process it spawned serves.
LEMMA ServesType ==
    ASSUME TypeOK, NEW p \in Procs, Serves(p, desk)
    PROVE  /\ pc' \in [Procs -> Places]
           /\ due' \in [Procs -> BOOLEAN]
           /\ desk' \in Desks
           /\ desk' # desk => desk.kid = p /\ LeavesTo(desk, desk')
                                /\ desk'.answer = "started"
<1>0. desk \in Desks
  BY DEF TypeOK, Desks
<1>1. PICK answer : answer = "started"
  OBVIOUS
<1>2. LeavesTo(desk, Leaves(desk, answer)) /\ Leaves(desk, answer).answer = answer
  BY <1>0, <1>1, Answering
<1>3. desk' = desk \/ (desk.kid = p /\ desk' = Leaves(desk, answer))
  BY <1>1 DEF Serves
<1>4. /\ desk' \in Desks
      /\ desk' # desk => desk.kid = p /\ LeavesTo(desk, desk')
                           /\ desk'.answer = answer
  BY <1>0, <1>2, <1>3 DEF LeavesTo
<1>. QED  BY <1>1, <1>4 DEF Serves, Moves, TypeOK, Places

\* The desk once the process it waits for has died.
LEMMA CrashType ==
    ASSUME TypeOK, NEW p \in Procs, Crash(p)
    PROVE  /\ desk' \in Desks
           /\ desk' # desk => /\ desk.kid = p /\ desk.at \in {"spawning", "respawning"}
                               /\ LeavesTo(desk, desk') /\ desk'.answer = "failed"
<1>0. desk \in Desks
  BY DEF TypeOK, Desks
<1>1. PICK answer : answer = "failed"
  OBVIOUS
<1>2. LeavesTo(desk, Leaves(desk, answer)) /\ Leaves(desk, answer).answer = answer
  BY <1>0, <1>1, Answering
<1>3. \/ desk' = desk
      \/ /\ desk.kid = p /\ desk.at \in {"spawning", "respawning"}
         /\ desk' = Leaves(desk, answer)
  BY <1>1 DEF Crash
<1>4. /\ desk' \in Desks
      /\ desk' # desk => /\ desk.kid = p /\ desk.at \in {"spawning", "respawning"}
                          /\ LeavesTo(desk, desk') /\ desk'.answer = answer
  BY <1>0, <1>2, <1>3 DEF LeavesTo
<1>. QED  BY <1>1, <1>4

LEMMA SpawnsType ==
    ASSUME TypeOK, NEW w, NEW d \in Desks, Spawns(w, d)
    PROVE  TypeOK'
<1>1. w \in Procs /\ pc' \in [Procs -> Places] /\ desk' \in Desks
  BY DEF Spawns, Moves, TypeOK, Places, Desks, Procs
<1>. QED  BY <1>1 DEF Spawns, TypeOK, Desks

LEMMA ProcessTypes ==
    ASSUME TypeOK, WritesOwn, NEW p \in Procs,
           \/ StartReads(p) \/ StartWrites(p) \/ ServeReads(p) \/ ServeWrites(p)
           \/ Launch(p) \/ TurnBegins(p) \/ TurnEnds(p) \/ Quit(p) \/ Crash(p)
    PROVE  TypeOK'
<1>0. desk \in Desks
  BY DEF TypeOK, Desks
<1>1. CASE StartReads(p)
  <2>1. CASE HeldByAnother(p)
    <3>1. Refusal(desk, file.busy) \in Desks
      BY <1>0, <2>1, RefusalType DEF HeldByAnother, TypeOK, Owners
    <3>2. desk' \in Desks
      BY <1>0, <1>1, <2>1, <3>1 DEF StartReads
    <3>. QED  BY <1>1, <2>1, <3>2 DEF StartReads, Moves, TypeOK, Places, Desks
  <2>2. CASE ~HeldByAnother(p)
    BY <1>1, <2>2, GrantedType DEF StartReads, Owes, TypeOK
  <2>. QED  BY <2>1, <2>2
<1>2. CASE StartWrites(p)
  <2>1. io[p] \in Owners /\ Lands(io[p])
    BY <1>2 DEF StartWrites, TypeOK, WritesOwn
  <2>. QED  BY <1>2, <2>1, LandsType DEF StartWrites, Owes, Moves, TypeOK, Places
<1>3. CASE ServeReads(p)
  <2>1. CASE HeldByAnother(p)
    BY <1>3, <2>1, ServesType DEF ServeReads, Moves, TypeOK, Places, Desks
  <2>2. CASE ~HeldByAnother(p)
    BY <1>3, <2>2, GrantedType DEF ServeReads, Owes, TypeOK
  <2>. QED  BY <2>1, <2>2
<1>4. CASE ServeWrites(p)
  <2>1. io[p] \in Owners
    BY <1>4 DEF ServeWrites, TypeOK, WritesOwn
  <2>2. io[p].gen \in Nat
    BY <2>1 DEF Owners
  <2>. QED  BY <1>4, <2>1, <2>2, ServesType, LandsType DEF ServeWrites, Owes, TypeOK, Desks
<1>5. CASE Launch(p) \/ TurnBegins(p) \/ TurnEnds(p) \/ Quit(p)
  BY <1>5 DEF Launch, TurnBegins, TurnEnds, Quit, Moves, TypeOK, Places
<1>6. CASE Crash(p)
  <2>1. desk' \in Desks
    BY <1>6, CrashType
  <2>. QED  BY <1>6, <2>1 DEF Crash, Ends, Moves, Owes, TypeOK, Places, Desks
<1>. QED  BY <1>1, <1>2, <1>3, <1>4, <1>5, <1>6

LEMMA OwnerTypes ==
    ASSUME TypeOK, WritesOwn, NEW p \in Procs,
           \/ HeartbeatReads(p) \/ HeartbeatWrites(p) \/ RefuseReads(p)
           \/ RefuseWrites(p) \/ ReleaseReads(p) \/ ReleaseUnlinks(p)
    PROVE  TypeOK'
<1>1. CASE HeartbeatReads(p)
  <2>1. file # NoOwner => [file EXCEPT !.age = 0, !.busy = busy[p]] \in Owners
    BY StampedType
  <2>. QED  BY <1>1, <2>1 DEF HeartbeatReads, Moves, Owes, TypeOK, Places
<1>2. CASE HeartbeatWrites(p)
  <2>1. io[p] \in Owners /\ Lands(io[p])
    BY <1>2 DEF HeartbeatWrites, TypeOK, WritesOwn
  <2>. QED  BY <1>2, <2>1, LandsType DEF HeartbeatWrites, Moves, Owes, TypeOK, Places
<1>3. CASE RefuseReads(p)
  BY <1>3, GrantedType DEF RefuseReads, Moves, Owes, TypeOK, Places
<1>4. CASE RefuseWrites(p)
  <2>1. io[p] \in Owners
    BY <1>4 DEF RefuseWrites, TypeOK, WritesOwn
  <2>2. io[p].gen \in Nat
    BY <2>1 DEF Owners
  <2>3. desk' \in Desks
    BY <1>4 DEF RefuseWrites, TypeOK, Desks
  <2>. QED  BY <1>4, <2>1, <2>2, <2>3, LandsType
            DEF RefuseWrites, Moves, Owes, TypeOK, Places, Desks
<1>5. CASE ReleaseReads(p)
  BY <1>5 DEF ReleaseReads, Ends, Moves, Owes, TypeOK, Places
<1>6. CASE ReleaseUnlinks(p)
  BY <1>6, LandsType DEF ReleaseUnlinks, Ends, Moves, Owes, TypeOK, Places
<1>. QED  BY <1>1, <1>2, <1>3, <1>4, <1>5, <1>6

LEMMA DeskTypes ==
    ASSUME TypeOK, DeskStep \/ OpenCancelled
                   \/ \E w \in Wires, takeover \in BOOLEAN : OpenBegins(w, takeover)
    PROVE  TypeOK'
<1>0. desk \in Desks
  BY DEF TypeOK, Desks
<1>1. CASE StealReads
  <2>1. StealFails(desk) \in Desks
    BY <1>0, StealFailsType
  <2>2. file # NoOwner => [file EXCEPT !.steal = TRUE] \in Owners
    BY DEF TypeOK, Owners
  <2>3. desk' \in Desks /\ dio' \in Owners \cup {NoIO}
    BY <1>0, <1>1, <2>1, <2>2 DEF StealReads, TypeOK
  <2>. QED  BY <1>1, <2>3 DEF StealReads, TypeOK, Desks
<1>2. CASE StealWrites
  <2>1. [desk EXCEPT !.asked = TRUE] \in Desks
    BY <1>0 DEF Desks
  <2>2. desk' \in Desks
    BY <1>0, <1>2, <2>1, PollAgainType, StealFailsType DEF StealWrites
  <2>. QED  BY <1>2, <2>2 DEF StealWrites, TypeOK, Desks
<1>3. CASE PollReads
  <2>1. Leaves(desk, "busy") \in Desks
    BY <1>0, Answering DEF LeavesTo
  <2>2. desk' \in Desks
    BY <1>0, <1>3, <2>1 DEF PollReads, Desks, DeskPlaces
  <2>. QED  BY <1>3, <2>2 DEF PollReads, TypeOK, Desks
<1>4. CASE OpenCancelled
  <2>1. Leaves(desk, "cancelled") \in Desks
    BY <1>0, Answering DEF LeavesTo
  <2>. QED  BY <1>4, <2>1 DEF OpenCancelled, TypeOK, Desks
<1>5. CASE RescindReads
  <2>1. desk' \in Desks
    BY <1>0, <1>5, OverType DEF RescindReads
  <2>2. file # NoOwner => [file EXCEPT !.steal = FALSE] \in Owners
    BY DEF TypeOK, Owners
  <2>. QED  BY <1>5, <2>1, <2>2 DEF RescindReads, TypeOK, Desks
<1>6. CASE RescindWrites
  <2>1. desk' \in Desks
    BY <1>0, <1>6, OverType DEF RescindWrites
  <2>2. file' \in Owners \cup {NoOwner}
    BY <1>6, LandsType DEF RescindWrites, TypeOK
  <2>. QED  BY <1>6, <2>1, <2>2 DEF RescindWrites, TypeOK, Desks
<1>7. ASSUME NEW w \in Wires, Respawn(w) PROVE TypeOK'
  <2>1. [desk EXCEPT !.at = "respawning"] \in Desks
    BY <1>0 DEF Desks, DeskPlaces
  <2>. QED  BY <1>7, <2>1, SpawnsType DEF Respawn
<1>8. ASSUME NEW w \in Wires, NEW takeover \in BOOLEAN, OpenBegins(w, takeover)
      PROVE  TypeOK'
  <2>1. [at |-> "spawning", kid |-> w, takeover |-> takeover, asked |-> FALSE,
         waited |-> 0, answer |-> "none", refused |-> FALSE] \in Desks
    BY DEF Desks, DeskPlaces, Answers, Wait, Procs
  <2>. QED  BY <1>8, <2>1, SpawnsType DEF OpenBegins
<1>. QED  BY <1>1, <1>2, <1>3, <1>4, <1>5, <1>6, <1>7, <1>8 DEF DeskStep

LEMMA TickTypes ==
    ASSUME TypeOK, Tick
    PROVE  TypeOK'
<1>1. file' \in Owners \cup {NoOwner}
  BY OlderType DEF Tick, TypeOK
<1>2. io' \in [Procs -> Owners \cup {NoOwner, NoIO}]
  BY OlderType DEF Tick, TypeOK
<1>3. desk' \in Desks
  BY DEF Tick, TypeOK, Desks, Wait
<1>. QED  BY <1>1, <1>2, <1>3 DEF Tick, TypeOK, Desks

LEMMA WritesOwnStep ==
    ASSUME TypeOK, WritesOwn, NEW p \in Procs, ProcStep(p)
    PROVE  WritesOwn'
<1>0. Granted(p) \in Owners /\ Granted(p).holder = p
  BY GrantedType
<1>1. CASE StartReads(p)
  BY <1>0, <1>1 DEF StartReads, Moves, Owes, MayRead, WritesOwn, TypeOK
<1>2. CASE StartWrites(p)
  BY <1>2 DEF StartWrites, Moves, Owes, WritesOwn, TypeOK
<1>3. CASE ServeReads(p)
  BY <1>0, <1>3 DEF ServeReads, Serves, Moves, Owes, MayRead, WritesOwn, TypeOK
<1>4. CASE ServeWrites(p)
  BY <1>4 DEF ServeWrites, Serves, Moves, Owes, WritesOwn, TypeOK
<1>5. CASE HeartbeatReads(p)
  <2>1. file # NoOwner /\ file.holder = p =>
           /\ [file EXCEPT !.age = 0, !.busy = busy[p]] \in Owners
           /\ [file EXCEPT !.age = 0, !.busy = busy[p]].holder = p
    BY StampedType
  <2>2. CASE file # NoOwner /\ file.holder = p
    <3>. DEFINE stamped == [file EXCEPT !.age = 0, !.busy = busy[p]]
    <3>1. stamped \in Owners /\ stamped.holder = p
      BY <2>1, <2>2
    <3>2. io' = [io EXCEPT ![p] = stamped] /\ UNCHANGED pc /\ pc[p] = "up"
      BY <1>5, <2>2 DEF HeartbeatReads, Owes
    <3>. HIDE DEF stamped
    <3>. QED  BY <3>1, <3>2 DEF WritesOwn, TypeOK
  <2>3. CASE ~(file # NoOwner /\ file.holder = p)
    BY <1>5, <2>3 DEF HeartbeatReads, Moves, MayRead, WritesOwn, TypeOK
  <2>. QED  BY <2>2, <2>3
<1>6. CASE HeartbeatWrites(p)
  BY <1>6 DEF HeartbeatWrites, Moves, Owes, WritesOwn, TypeOK
<1>7. CASE RefuseReads(p)
  BY <1>0, <1>7 DEF RefuseReads, Moves, Owes, MayRead, WritesOwn, TypeOK
<1>8. CASE RefuseWrites(p)
  BY <1>8 DEF RefuseWrites, Moves, Owes, WritesOwn, TypeOK
<1>9. CASE ReleaseReads(p)
  BY <1>9 DEF ReleaseReads, Ends, Moves, Owes, MayRead, WritesOwn, TypeOK
<1>10. CASE ReleaseUnlinks(p)
  BY <1>10 DEF ReleaseUnlinks, Ends, Moves, Owes, WritesOwn, TypeOK
<1>. QED  BY <1>1, <1>2, <1>3, <1>4, <1>5, <1>6, <1>7, <1>8, <1>9, <1>10 DEF ProcStep

LEMMA WritesOwnElsewhere ==
    ASSUME TypeOK, WritesOwn, Environment \/ DeskStep \/ Tick
    PROVE  WritesOwn'
<1>1. ASSUME NEW p \in Procs, Launch(p) \/ TurnBegins(p) \/ TurnEnds(p) \/ Quit(p)
      PROVE  WritesOwn'
  BY <1>1 DEF Launch, TurnBegins, TurnEnds, Quit, Moves, WritesOwn, TypeOK
<1>2. ASSUME NEW p \in Procs, Crash(p) PROVE WritesOwn'
  BY <1>2 DEF Crash, Ends, Moves, Owes, WritesOwn, TypeOK
<1>3. ASSUME NEW w, NEW d, Spawns(w, d) PROVE WritesOwn'
  BY <1>3 DEF Spawns, Moves, WritesOwn, TypeOK
<1>4. CASE UNCHANGED <<pc, io>>
  BY <1>4 DEF WritesOwn
<1>5. CASE Tick
  BY <1>5, OlderType DEF Tick, WritesOwn, TypeOK
<1>6. StealReads \/ StealWrites \/ PollReads \/ RescindReads \/ RescindWrites
         \/ OpenCancelled => UNCHANGED <<pc, io>>
  BY DEF StealReads, StealWrites, PollReads, RescindReads, RescindWrites, OpenCancelled
<1>7. ASSUME NEW w \in Wires, Respawn(w) PROVE WritesOwn'
  BY <1>3, <1>7 DEF Respawn
<1>8. ASSUME NEW w \in Wires, NEW takeover \in BOOLEAN, OpenBegins(w, takeover)
      PROVE  WritesOwn'
  BY <1>3, <1>8 DEF OpenBegins
<1>. QED  BY <1>1, <1>2, <1>4, <1>5, <1>6, <1>7, <1>8 DEF Environment, DeskStep

TypeInv == TypeOK /\ WritesOwn

LEMMA TypeInit == Init => TypeInv
  BY DEF Init, TypeInv, TypeOK, WritesOwn, Places, DeskPlaces, Answers, Wait

LEMMA TypeNext == TypeInv /\ [Next]_vars => TypeInv'
<1>. SUFFICES ASSUME TypeInv, [Next]_vars PROVE TypeInv'
  OBVIOUS
<1>0. TypeOK /\ WritesOwn
  BY DEF TypeInv
<1>1. CASE Environment
  <2>1. TypeOK'
    BY <1>0, <1>1, ProcessTypes, DeskTypes DEF Environment
  <2>. QED  BY <1>0, <1>1, <2>1, WritesOwnElsewhere DEF TypeInv
<1>2. ASSUME NEW p \in Procs, ProcStep(p) PROVE TypeInv'
  <2>1. TypeOK'
    BY <1>0, <1>2, ProcessTypes, OwnerTypes DEF ProcStep
  <2>. QED  BY <1>0, <1>2, <2>1, WritesOwnStep DEF TypeInv
<1>3. CASE UNCHANGED vars
  BY <1>3 DEF vars, TypeInv, TypeOK, WritesOwn
<1>4. CASE DeskStep \/ Tick
  BY <1>0, <1>4, DeskTypes, TickTypes, WritesOwnElsewhere DEF TypeInv
<1>. QED  BY <1>1, <1>2, <1>3, <1>4 DEF Next

\* Every variable keeps its type: records stay whole, ages and waits within
\* their bounds, whatever processes, agentd and the clock do to owner.json.
THEOREM SessionTypes == Spec => []TypeOK
<1>1. TypeInv => TypeOK
  BY DEF TypeInv
<1>. QED  BY <1>1, TypeInit, TypeNext, PTL DEF Spec

-----------------------------------------------------------------------------
(* One read-modify-write at a time: what a write in flight knows of the    *)
(* record it will replace.                                                 *)

NoOverlap == "race" \notin hz /\ "torn" \notin hz

Pending ==
    NoOverlap =>
        /\ \A p, q \in Procs : io[p] # NoIO /\ io[q] # NoIO => p = q
        /\ \A p \in Procs : io[p] # NoIO => dio = NoIO
        /\ \A p \in Procs : io[p] = NoOwner => file # NoOwner /\ file.holder = p
        /\ dio # NoIO =>
              file # NoOwner /\ dio.holder = file.holder /\ dio.age = file.age

\* A process has read the record: it owes one write more, or none.
LEMMA ReadKeepsPending ==
    ASSUME TypeOK, Pending, NEW p \in Procs, NEW write, MayRead(p),
           io' = io \/ io' = [io EXCEPT ![p] = write],
           write = NoOwner => file # NoOwner /\ file.holder = p,
           UNCHANGED <<file, dio, hz>>
    PROVE  Pending'
  BY DEF Pending, NoOverlap, MayRead, TypeOK

\* A process has written what it owed.
LEMMA WriteKeepsPending ==
    ASSUME TypeOK, Pending, NEW p \in Procs, io[p] # NoIO,
           io' = [io EXCEPT ![p] = NoIO], UNCHANGED <<dio, hz>>
    PROVE  Pending'
  BY DEF Pending, NoOverlap, TypeOK

\* A process has died, or nothing happened to the record.
LEMMA NoWriteKeepsPending ==
    ASSUME TypeOK, Pending, NEW p \in Procs,
           io' = io \/ io' = [io EXCEPT ![p] = NoIO],
           UNCHANGED <<file, dio, hz>>
    PROVE  Pending'
  BY DEF Pending, NoOverlap, TypeOK

LEMMA PendingProcess ==
    ASSUME TypeOK, Pending, NEW p \in Procs, ProcStep(p)
    PROVE  Pending'
<1>0. Granted(p) \in Owners /\ Granted(p) # NoOwner
  BY GrantedType
<1>1. CASE StartReads(p) \/ ServeReads(p) \/ RefuseReads(p)
  <2>1. MayRead(p) /\ (io' = io \/ io' = [io EXCEPT ![p] = Granted(p)])
           /\ UNCHANGED <<file, dio, hz>>
    BY <1>1 DEF StartReads, ServeReads, RefuseReads, Serves, Owes
  <2>. QED  BY <1>0, <2>1, ReadKeepsPending
<1>2. CASE StartWrites(p) \/ ServeWrites(p) \/ HeartbeatWrites(p) \/ RefuseWrites(p)
             \/ ReleaseUnlinks(p)
  <2>1. io[p] # NoIO /\ io' = [io EXCEPT ![p] = NoIO] /\ UNCHANGED <<dio, hz>>
    BY <1>2 DEF StartWrites, ServeWrites, HeartbeatWrites, RefuseWrites,
                ReleaseUnlinks, Serves, Owes
  <2>. QED  BY <2>1, WriteKeepsPending
<1>3. CASE HeartbeatReads(p)
  <2>. DEFINE stamped == [file EXCEPT !.age = 0, !.busy = busy[p]]
  <2>1. MayRead(p) /\ UNCHANGED <<file, dio, hz>>
    BY <1>3 DEF HeartbeatReads
  <2>2. CASE file # NoOwner /\ file.holder = p
    <3>1. stamped # NoOwner
      BY <2>2, StampedType
    <3>2. io' = [io EXCEPT ![p] = stamped]
      BY <1>3, <2>2 DEF HeartbeatReads, Owes
    <3>. HIDE DEF stamped
    <3>. QED  BY <2>1, <3>1, <3>2, ReadKeepsPending
  <2>3. CASE ~(file # NoOwner /\ file.holder = p)
    <3>1. io' = io
      BY <1>3, <2>3 DEF HeartbeatReads
    <3>. QED  BY <2>1, <3>1, NoWriteKeepsPending
  <2>. QED  BY <2>2, <2>3
<1>4. CASE ReleaseReads(p)
  <2>1. CASE Releasable(p)
    <3>1. file # NoOwner /\ file.holder = p
      BY <2>1 DEF Releasable
    <3>2. MayRead(p) /\ io' = [io EXCEPT ![p] = NoOwner] /\ UNCHANGED <<file, dio, hz>>
      BY <1>4, <2>1 DEF ReleaseReads, Owes
    <3>. QED  BY <3>1, <3>2, ReadKeepsPending
  <2>2. CASE ~Releasable(p)
    <3>1. io' = io /\ UNCHANGED <<file, dio, hz>>
      BY <1>4, <2>2 DEF ReleaseReads
    <3>. QED  BY <3>1, NoWriteKeepsPending
  <2>. QED  BY <2>1, <2>2
<1>. QED  BY <1>1, <1>2, <1>3, <1>4 DEF ProcStep

LEMMA PendingDesk ==
    ASSUME TypeOK, Pending, DeskStep \/ OpenCancelled
    PROVE  Pending'
<1>1. CASE StealReads
  <2>1. DeskMayRead /\ UNCHANGED <<file, io, hz>>
    BY <1>1 DEF StealReads
  <2>2. dio' = dio \/ (file # NoOwner /\ dio' = [file EXCEPT !.steal = TRUE])
    BY <1>1 DEF StealReads
  <2>3. file # NoOwner =>
           /\ [file EXCEPT !.steal = TRUE].holder = file.holder
           /\ [file EXCEPT !.steal = TRUE].age = file.age
    BY DEF TypeOK, Owners
  <2>. QED  BY <2>1, <2>2, <2>3 DEF Pending, NoOverlap, DeskMayRead, TypeOK
<1>2. CASE RescindReads
  <2>1. DeskMayRead /\ UNCHANGED <<file, io, hz>>
    BY <1>2 DEF RescindReads
  <2>2. dio' = dio \/ (file # NoOwner /\ dio' = [file EXCEPT !.steal = FALSE])
    BY <1>2 DEF RescindReads
  <2>3. file # NoOwner =>
           /\ [file EXCEPT !.steal = FALSE].holder = file.holder
           /\ [file EXCEPT !.steal = FALSE].age = file.age
    BY DEF TypeOK, Owners
  <2>. QED  BY <2>1, <2>2, <2>3 DEF Pending, NoOverlap, DeskMayRead, TypeOK
<1>3. CASE StealWrites \/ RescindWrites
  <2>1. dio # NoIO /\ dio' = NoIO /\ UNCHANGED <<io, hz>>
    BY <1>3 DEF StealWrites, RescindWrites
  <2>. QED  BY <2>1 DEF Pending, NoOverlap, TypeOK
<1>4. CASE UNCHANGED <<file, io, dio, hz>>
  BY <1>4 DEF Pending, NoOverlap
<1>5. PollReads \/ OpenCancelled \/ (\E w \in Wires : Respawn(w))
         => UNCHANGED <<file, io, dio, hz>>
  BY DEF PollReads, OpenCancelled, Respawn, Spawns
<1>. QED  BY <1>1, <1>2, <1>3, <1>4, <1>5 DEF DeskStep

LEMMA PendingElsewhere ==
    ASSUME TypeOK, Pending, Environment \/ Tick
    PROVE  Pending'
<1>1. CASE Tick
  <2>1. dio = NoIO /\ dio' = NoIO /\ hz' = hz
    BY <1>1 DEF Tick
  <2>2. /\ file' \in Owners <=> file \in Owners
        /\ file # NoOwner => file' # NoOwner /\ file'.holder = file.holder
    BY <1>1, OlderType DEF Tick, TypeOK
  <2>3. \A p \in Procs : /\ io'[p] # NoIO => io[p] # NoIO
                         /\ io'[p] = NoOwner => io[p] = NoOwner
    BY <1>1, OlderType DEF Tick, TypeOK
  <2>. QED  BY <2>1, <2>2, <2>3 DEF Pending, NoOverlap
<1>2. ASSUME NEW p \in Procs,
             Launch(p) \/ TurnBegins(p) \/ TurnEnds(p) \/ Quit(p) \/ Crash(p)
      PROVE  Pending'
  <2>1. (io' = io \/ io' = [io EXCEPT ![p] = NoIO]) /\ UNCHANGED <<file, dio, hz>>
    BY <1>2 DEF Launch, TurnBegins, TurnEnds, Quit, Crash, Owes
  <2>. QED  BY <2>1, NoWriteKeepsPending
<1>3. ASSUME NEW w \in Wires, NEW takeover \in BOOLEAN, OpenBegins(w, takeover)
      PROVE  Pending'
  BY <1>3 DEF OpenBegins, Spawns, Pending, NoOverlap
<1>. QED  BY <1>1, <1>2, <1>3, PendingDesk DEF Environment

LEMMA PendingInit == Init => Pending
  BY DEF Init, Pending

LEMMA PendingNext == TypeInv /\ Pending /\ [Next]_vars => Pending'
<1>. SUFFICES ASSUME TypeInv, Pending, [Next]_vars PROVE Pending'
  OBVIOUS
<1>0. TypeOK
  BY DEF TypeInv
<1>1. CASE UNCHANGED vars
  BY <1>1 DEF vars, Pending, NoOverlap
<1>. QED  BY <1>0, <1>1, PendingProcess, PendingDesk, PendingElsewhere DEF Next

\* A release never removes a successor's record, however late the process that
\* releases is: the record that goes is its own, as long as no two
\* read-modify-writes of owner.json overlap.
THEOREM SuccessorsSpared == Spec => SuccessorSpared
<1>. DEFINE Step == NoOverlap /\ file # NoOwner /\ file' = NoOwner
                       => pc'[file.holder] = "gone"
<1>1. TypeInv /\ Pending /\ [Next]_vars => Step
  <2>. SUFFICES ASSUME TypeInv, Pending, [Next]_vars, NoOverlap,
                       file # NoOwner, file' = NoOwner
                PROVE  pc'[file.holder] = "gone"
    OBVIOUS
  <2>0. TypeOK /\ WritesOwn
    BY DEF TypeInv
  <2>1. ASSUME NEW p \in Procs, ProcStep(p) PROVE ReleaseUnlinks(p)
    <3>1. ~(StartWrites(p) \/ ServeWrites(p) \/ HeartbeatWrites(p) \/ RefuseWrites(p))
      BY <2>0 DEF StartWrites, ServeWrites, HeartbeatWrites, RefuseWrites, Lands, WritesOwn
    <3>2. ~(StartReads(p) \/ ServeReads(p) \/ HeartbeatReads(p) \/ RefuseReads(p)
              \/ ReleaseReads(p))
      BY DEF StartReads, ServeReads, HeartbeatReads, RefuseReads, ReleaseReads
    <3>. QED  BY <2>1, <3>1, <3>2 DEF ProcStep
  <2>2. ASSUME NEW p \in Procs, ReleaseUnlinks(p) PROVE pc'[file.holder] = "gone"
    <3>1. file.holder = p
      BY <2>2 DEF ReleaseUnlinks, Pending
    <3>. QED  BY <2>0, <2>2, <3>1 DEF ReleaseUnlinks, Ends, Moves, TypeOK
  <2>3. ~(StealWrites \/ RescindWrites)
    BY <2>0 DEF StealWrites, RescindWrites, Lands, TypeOK
  <2>4. ~(StealReads \/ PollReads \/ RescindReads \/ OpenCancelled
            \/ (\E w \in Wires : Respawn(w)))
    BY DEF StealReads, PollReads, RescindReads, OpenCancelled, Respawn, Spawns
  <2>5. ~Environment
    BY <2>4 DEF Environment, Launch, TurnBegins, TurnEnds, Quit, Crash,
                OpenBegins, Spawns
  <2>6. ~Tick
    BY <2>0, OlderType DEF Tick, TypeOK
  <2>. QED  BY <2>1, <2>2, <2>3, <2>4, <2>5, <2>6 DEF Next, DeskStep, vars
<1>2. Step => (hz \cap {"race", "torn"} = {} /\ file # NoOwner /\ file' = NoOwner
                  => pc'[file.holder] = "gone")
  BY DEF NoOverlap
<1>. QED  BY <1>1, <1>2, TypeInit, TypeNext, PendingInit, PendingNext, PTL
          DEF Spec, SuccessorSpared

-----------------------------------------------------------------------------
(* Nothing late, nothing overlapping: a serving process is the recorded,   *)
(* live owner, and a process that claims the session finds none.           *)

Punctual == hz \subseteq {"crash"}

Owning ==
    Punctual =>
        /\ \A p \in Procs : pc[p] \in Serving =>
              file # NoOwner /\ file.holder = p /\ file.age < Stale
        /\ \A p \in Procs : io[p] \in Owners => io[p].age = 0
        /\ \A p \in Procs : pc[p] = "start" /\ io[p] # NoIO =>
              \A q \in Procs : pc[q] \notin Serving

LEMMA PunctualFacts ==
    ASSUME Punctual PROVE NoOverlap /\ "stall" \notin hz /\ "disk" \notin hz
  BY DEF Punctual, NoOverlap

LEMMA PunctualLands ==
    ASSUME Punctual, NEW write, Lands(write) PROVE file' = write
  BY PunctualFacts DEF Lands

\* A step that leaves the record alone and makes nobody serve.
LEMMA QuietKeepsOwning ==
    ASSUME TypeOK, Owning, NEW p \in Procs, NEW place,
           pc' = pc \/ pc' = [pc EXCEPT ![p] = place],
           place \in Serving => pc[p] \in Serving,
           place = "start" => io[p] = NoIO,
           io' = io \/ io' = [io EXCEPT ![p] = NoIO],
           UNCHANGED <<file, hz>>
    PROVE  Owning'
  BY DEF Owning, Punctual, TypeOK

\* A process writes its own, fresh record; no other one serves.
LEMMA WriteKeepsOwning ==
    ASSUME TypeOK, WritesOwn, Pending, Owning, NEW p \in Procs, NEW place,
           io[p] \in Owners, pc[p] \in {"start"} \cup Serving,
           place \in Serving, place # "start",
           (pc' = pc /\ pc[p] # "start") \/ pc' = [pc EXCEPT ![p] = place],
           Lands(io[p]), io' = [io EXCEPT ![p] = NoIO], hz' = hz
    PROVE  Owning'
<1>. SUFFICES ASSUME Punctual PROVE Owning'
  BY DEF Owning, Punctual
<1>1. NoOverlap /\ file' = io[p]
  BY PunctualFacts, PunctualLands
<1>2. \A q \in Procs : q # p => io[q] = NoIO
  BY <1>1, io[p] # NoIO DEF Pending, TypeOK
<1>3. \A q \in Procs : q # p => pc[q] \notin Serving
  BY DEF Owning
<1>4. io[p].holder = p /\ io[p].age = 0 /\ io[p] # NoOwner /\ 0 < Stale
  BY DEF WritesOwn, Owning, Stale
<1>. QED  BY <1>1, <1>2, <1>3, <1>4 DEF Owning, TypeOK

LEMMA EndKeepsOwning ==
    ASSUME TypeOK, Owning, NEW p \in Procs, pc' = [pc EXCEPT ![p] = "gone"],
           io' = io \/ io' = [io EXCEPT ![p] = NoIO],
           UNCHANGED <<file, hz>>
    PROVE  Owning'
<1>. DEFINE place == "gone"
<1>1. place \notin Serving /\ place # "start" /\ pc' = [pc EXCEPT ![p] = place]
  BY DEF Serving
<1>. HIDE DEF place
<1>. QED  BY <1>1, QuietKeepsOwning

LEMMA OwningReads ==
    ASSUME TypeOK, WritesOwn, Pending, Owning, NEW p \in Procs,
           \/ StartReads(p) \/ ServeReads(p) \/ HeartbeatReads(p)
           \/ RefuseReads(p) \/ ReleaseReads(p)
    PROVE  Owning'
<1>0. Granted(p) \in Owners /\ Granted(p).age = 0
  BY GrantedType
<1>1. CASE StartReads(p)
  <2>1. CASE HeldByAnother(p)
    <3>1. pc' = [pc EXCEPT ![p] = "gone"] /\ UNCHANGED <<file, io, hz>>
      BY <1>1, <2>1 DEF StartReads, Moves
    <3>. QED  BY <3>1, EndKeepsOwning
  <2>2. CASE ~HeldByAnother(p)
    <3>. SUFFICES ASSUME Punctual PROVE Owning'
      BY <1>1 DEF Owning, Punctual, StartReads
    <3>1. io' = [io EXCEPT ![p] = Granted(p)] /\ UNCHANGED <<file, pc, hz>>
             /\ pc[p] = "start" /\ MayRead(p)
      BY <1>1, <2>2 DEF StartReads, Owes
    <3>2. \A q \in Procs : pc[q] \notin Serving
      BY <2>2, <3>1 DEF Owning, HeldByAnother, IsLive, Serving
    <3>3. \A q \in Procs : io[q] = NoIO
      BY <3>1, PunctualFacts DEF MayRead, NoOverlap
    <3>. QED  BY <1>0, <3>1, <3>2, <3>3 DEF Owning, TypeOK
  <2>. QED  BY <2>1, <2>2
<1>2. ASSUME NEW write \in Owners, write.age = 0, pc[p] \in Serving,
             io' = [io EXCEPT ![p] = write], UNCHANGED <<file, pc, hz>>
      PROVE  Owning'
  BY <1>2 DEF Owning, Punctual, Serving, TypeOK
<1>3. CASE ServeReads(p) \/ RefuseReads(p)
  <2>1. CASE HeldByAnother(p)
    <3>1. \E place \in {"up", "gone", "stopping"} : pc' = [pc EXCEPT ![p] = place]
      BY <1>3, <2>1 DEF ServeReads, RefuseReads, Serves, Moves
    <3>2. pc[p] \in Serving /\ UNCHANGED <<file, io, hz>>
      BY <1>3, <2>1 DEF ServeReads, RefuseReads, Serving
    <3>. QED  BY <3>1, <3>2, QuietKeepsOwning
  <2>2. CASE ~HeldByAnother(p)
    <3>1. pc[p] \in Serving /\ io' = [io EXCEPT ![p] = Granted(p)]
             /\ UNCHANGED <<file, pc, hz>>
      BY <1>3, <2>2 DEF ServeReads, RefuseReads, Owes, Serving
    <3>. QED  BY <1>0, <1>2, <3>1
  <2>. QED  BY <2>1, <2>2
<1>4. CASE HeartbeatReads(p)
  <2>. DEFINE stamped == [file EXCEPT !.age = 0, !.busy = busy[p]]
  <2>1. CASE file # NoOwner /\ file.holder = p
    <3>1. stamped \in Owners /\ stamped.age = 0
      BY <2>1, StampedType
    <3>2. pc[p] \in Serving /\ io' = [io EXCEPT ![p] = stamped]
             /\ UNCHANGED <<file, pc, hz>>
      BY <1>4, <2>1 DEF HeartbeatReads, Owes, Serving
    <3>. HIDE DEF stamped
    <3>. QED  BY <1>2, <3>1, <3>2
  <2>2. CASE ~(file # NoOwner /\ file.holder = p)
    <3>1. /\ pc[p] \in Serving /\ UNCHANGED <<file, io, hz>>
          /\ pc' = pc \/ pc' = [pc EXCEPT ![p] = "stopping"]
      BY <1>4, <2>2 DEF HeartbeatReads, Moves, Serving
    <3>. QED  BY <3>1, QuietKeepsOwning
  <2>. QED  BY <2>1, <2>2
<1>5. CASE ReleaseReads(p)
  <2>1. CASE Releasable(p)
    <3>1. io' = [io EXCEPT ![p] = NoOwner] /\ UNCHANGED <<file, pc, hz>>
             /\ pc[p] = "stopping"
      BY <1>5, <2>1 DEF ReleaseReads, Owes
    <3>. QED  BY <3>1 DEF Owning, Punctual, TypeOK
  <2>2. CASE ~Releasable(p)
    <3>1. pc' = [pc EXCEPT ![p] = "gone"] /\ UNCHANGED <<file, io, hz>>
      BY <1>5, <2>2 DEF ReleaseReads, Ends, Moves
    <3>. QED  BY <3>1, EndKeepsOwning
  <2>. QED  BY <2>1, <2>2
<1>. QED  BY <1>1, <1>3, <1>4, <1>5

LEMMA OwningWrites ==
    ASSUME TypeOK, WritesOwn, Pending, Owning, NEW p \in Procs,
           \/ StartWrites(p) \/ ServeWrites(p) \/ HeartbeatWrites(p)
           \/ RefuseWrites(p) \/ ReleaseUnlinks(p)
    PROVE  Owning'
<1>1. CASE StartWrites(p) \/ ServeWrites(p) \/ HeartbeatWrites(p) \/ RefuseWrites(p)
  <2>1. io[p] \in Owners /\ pc[p] \in {"start"} \cup Serving
    BY <1>1 DEF StartWrites, ServeWrites, HeartbeatWrites, RefuseWrites, WritesOwn,
                TypeOK, Serving
  <2>2. \E place \in Serving :
            (pc' = pc /\ pc[p] # "start") \/ pc' = [pc EXCEPT ![p] = place]
    BY <1>1 DEF StartWrites, ServeWrites, HeartbeatWrites, RefuseWrites, Serves,
                Moves, Serving
  <2>3. Lands(io[p]) /\ io' = [io EXCEPT ![p] = NoIO] /\ hz' = hz
    BY <1>1 DEF StartWrites, ServeWrites, HeartbeatWrites, RefuseWrites, Serves, Owes
  <2>. QED  BY <2>1, <2>2, <2>3, WriteKeepsOwning DEF Serving
<1>2. CASE ReleaseUnlinks(p)
  <2>. SUFFICES ASSUME Punctual PROVE Owning'
    BY <1>2 DEF Owning, Punctual, ReleaseUnlinks
  <2>1. /\ io' = [io EXCEPT ![p] = NoIO]
        /\ pc' = [pc EXCEPT ![p] = "gone"]
        /\ pc[p] \in Serving /\ hz' = hz
    BY <1>2 DEF ReleaseUnlinks, Ends, Owes, Moves, Serving
  <2>2. \A q \in Procs : q # p => pc[q] \notin Serving
    BY <2>1 DEF Owning
  <2>3. \A q \in Procs : pc'[q] \notin Serving
    BY <2>1, <2>2 DEF TypeOK, Serving
  <2>. QED  BY <2>1, <2>3 DEF Owning, TypeOK
<1>. QED  BY <1>1, <1>2

LEMMA OwningElsewhere ==
    ASSUME TypeOK, WritesOwn, Pending, Owning, Environment \/ DeskStep \/ Tick
    PROVE  Owning'
<1>1. ASSUME NEW p \in Procs,
             Launch(p) \/ TurnBegins(p) \/ TurnEnds(p) \/ Quit(p) \/ Crash(p)
      PROVE  Owning'
  <2>1. CASE Launch(p)
    <3>1. pc' = [pc EXCEPT ![p] = "start"] /\ UNCHANGED <<file, io, hz>> /\ io[p] = NoIO
      BY <2>1 DEF Launch, Moves, WritesOwn, TypeOK
    <3>. QED  BY <3>1, QuietKeepsOwning DEF Serving
  <2>2. CASE TurnBegins(p) \/ TurnEnds(p)
    BY <2>2 DEF TurnBegins, TurnEnds, Owning, Punctual
  <2>3. CASE Quit(p)
    BY <2>3, QuietKeepsOwning DEF Quit, Moves, Serving
  <2>4. CASE Crash(p)
    BY <2>4, EndKeepsOwning DEF Crash, Ends, Moves, Owes
  <2>. QED  BY <1>1, <2>1, <2>2, <2>3, <2>4
<1>2. ASSUME NEW w, NEW d, Spawns(w, d) PROVE Owning'
  <2>1. w \in Procs /\ pc' = [pc EXCEPT ![w] = "start"] /\ UNCHANGED <<file, io, hz>>
    BY <1>2 DEF Spawns, Moves, Procs
  <2>2. io[w] = NoIO
    BY <1>2, <2>1 DEF Spawns, WritesOwn, TypeOK
  <2>. QED  BY <2>1, <2>2, QuietKeepsOwning DEF Serving
<1>3. ASSUME NEW w \in Wires, NEW takeover \in BOOLEAN,
             Respawn(w) \/ OpenBegins(w, takeover)
      PROVE  Owning'
  BY <1>2, <1>3 DEF Respawn, OpenBegins
<1>4. CASE StealReads \/ PollReads \/ RescindReads \/ OpenCancelled
  BY <1>4 DEF StealReads, PollReads, RescindReads, OpenCancelled, Owning, Punctual
<1>5. CASE StealWrites \/ RescindWrites
  <2>1. file' \in {dio, file} /\ dio # NoIO /\ UNCHANGED <<pc, io, hz>>
    BY <1>5 DEF StealWrites, RescindWrites, Lands
  <2>2. dio # NoOwner
    BY <2>1 DEF TypeOK
  <2>. QED  BY <2>1, <2>2, PunctualFacts DEF Owning, Punctual, Pending
<1>6. CASE Tick
  <2>. SUFFICES ASSUME Punctual PROVE Owning'
    BY <1>6 DEF Owning, Punctual, Tick
  <2>1. InTime /\ UNCHANGED <<pc, hz>> /\ file' = Older(file)
    BY <1>6, PunctualFacts DEF Tick
  <2>2. \A p \in Procs : io'[p] = NoIO
    BY <1>6, <2>1, OlderType DEF Tick, InTime, TypeOK
  <2>3. ASSUME NEW p \in Procs, pc[p] \in Serving
        PROVE  file' # NoOwner /\ file'.holder = p /\ file'.age < Stale
    <3>1. file \in Owners /\ file.holder = p
      BY <2>3 DEF Owning, TypeOK
    <3>2. file.age < Stale - 1
      BY <2>1, <2>3, <3>1, PunctualFacts DEF InTime, ExpiresNext, Owners, Stale
    <3>3. file.age \in Nat /\ file'.age \in Nat
      BY <2>1, <3>1, OlderType DEF Owners
    <3>. QED  BY <2>1, <3>1, <3>2, <3>3, OlderType DEF Stale
  <2>. QED  BY <2>1, <2>2, <2>3 DEF Owning
<1>. QED  BY <1>1, <1>3, <1>4, <1>5, <1>6 DEF Environment, DeskStep

LEMMA OwningInit == Init => Owning
  BY DEF Init, Owning, Serving

LEMMA OwningNext == TypeInv /\ Pending /\ Owning /\ [Next]_vars => Owning'
<1>. SUFFICES ASSUME TypeInv, Pending, Owning, [Next]_vars PROVE Owning'
  OBVIOUS
<1>0. TypeOK /\ WritesOwn
  BY DEF TypeInv
<1>1. CASE UNCHANGED vars
  BY <1>1 DEF vars, Owning, Punctual
<1>. QED  BY <1>0, <1>1, OwningReads, OwningWrites, OwningElsewhere DEF Next, ProcStep

\* While heartbeats are in time and no two read-modify-writes overlap, at most
\* one process has the session open, and it is the recorded owner: for any
\* number of terminals and agent processes, through crashes, takeovers,
\* refusals and rescinded requests.
THEOREM OneOwnerHolds == Spec => []OneOwner
<1>1. Owning => OneOwner
  BY DEF Owning, OneOwner, Punctual
<1>. QED  BY <1>1, TypeInit, TypeNext, PendingInit, PendingNext, OwningInit,
             OwningNext, PTL DEF Spec

\* A turn is never cut off by a takeover: while nothing is late or overlaps, a
\* busy process stands down only because its own client quits, disconnects or
\* is stopped.
THEOREM TurnsNeverEvicted == Spec => TurnNeverEvicted
<1>. DEFINE Step == \A p \in Procs :
        hz \subseteq {"crash"} /\ busy[p] /\ pc[p] \in {"up", "refuse"}
            /\ pc'[p] = "stopping" => Quit(p)
<1>1. TypeInv /\ Owning /\ [Next]_vars => Step
  <2>. SUFFICES ASSUME TypeInv, Owning, [Next]_vars, NEW p \in Procs, Punctual,
                       busy[p], pc[p] \in {"up", "refuse"}, pc'[p] = "stopping"
                PROVE  Quit(p)
    BY DEF Punctual
  <2>0. TypeOK
    BY DEF TypeInv
  <2>1. file # NoOwner /\ file.holder = p
    BY DEF Owning, Serving
  <2>2. ASSUME NEW q \in Procs, ProcStep(q) PROVE FALSE
    <3>1. CASE q = p
      <4>1. ~HeldByAnother(p)
        BY <2>1 DEF HeldByAnother
      <4>2. ~(StartReads(p) \/ StartWrites(p) \/ ServeReads(p) \/ ServeWrites(p)
                \/ ReleaseReads(p) \/ ReleaseUnlinks(p))
        BY DEF StartReads, StartWrites, ServeReads, ServeWrites, ReleaseReads,
               ReleaseUnlinks
      <4>3. ~(HeartbeatReads(p) \/ RefuseReads(p))
        BY <2>1, <4>1 DEF HeartbeatReads, RefuseReads
      <4>4. ~(HeartbeatWrites(p) \/ RefuseWrites(p))
        BY <2>0 DEF HeartbeatWrites, RefuseWrites, Moves, TypeOK
      <4>. QED  BY <2>2, <3>1, <4>2, <4>3, <4>4 DEF ProcStep
    <3>2. CASE q # p
      <4>1. pc'[p] = pc[p]
        BY <2>0, <2>2, <3>2
           DEF ProcStep, StartReads, StartWrites, ServeReads, ServeWrites,
               HeartbeatReads, HeartbeatWrites, RefuseReads, RefuseWrites,
               ReleaseReads, ReleaseUnlinks, Serves, Ends, Moves, TypeOK
      <4>. QED  BY <4>1
    <3>. QED  BY <3>1, <3>2
  <2>3. ASSUME NEW w, NEW d, Spawns(w, d) PROVE FALSE
    BY <2>0, <2>3 DEF Spawns, Moves, TypeOK
  <2>4. ASSUME DeskStep \/ Tick PROVE FALSE
    BY <2>3, <2>4 DEF DeskStep, StealReads, StealWrites, PollReads, RescindReads,
                      RescindWrites, Respawn, Tick
  <2>5. CASE Environment
    <3>1. ASSUME NEW q \in Procs,
                 Launch(q) \/ TurnBegins(q) \/ TurnEnds(q) \/ Quit(q) \/ Crash(q)
          PROVE  Quit(p)
      BY <2>0, <3>1 DEF Launch, TurnBegins, TurnEnds, Quit, Crash, Ends, Moves, TypeOK
    <3>. QED  BY <2>3, <2>5, <3>1 DEF Environment, OpenBegins, OpenCancelled
  <2>. QED  BY <2>2, <2>4, <2>5 DEF Next, vars
<1>. QED  BY <1>1, TypeInit, TypeNext, PendingInit, PendingNext, OwningInit,
             OwningNext, PTL DEF Spec, TurnNeverEvicted

-----------------------------------------------------------------------------
(* Takeover requests: where one is, agentd is on its way to rescind it.    *)

Asking(write) == write \in Owners /\ write.steal

\* A request is on the record, or in a write of the record that is due.
Requested == Asking(file) \/ \E p \in Procs : Asking(io[p])

\* A takeover is between its first request and its last look at the record.
Taking == {"poll", "reissue", "respawn", "respawning", "rescind"}

\* agentd's own writes; nobody's falls into them.
DeskWrites ==
    /\ dio # NoIO => desk.at \in {"steal", "reissue", "rescind"}
    /\ dio # NoIO \/ desk.at = "reissue" => \A p \in Procs : io[p] = NoIO
    /\ dio # NoIO /\ desk.at = "rescind" => ~dio.steal

\* /open waits for the process it spawned, and only for that.
KidStarts ==
    /\ desk.kid \in Wires \cup {NoProc}
    /\ desk.kid # NoProc /\ pc[desk.kid] \in {"start", "create"} =>
          desk.at \in {"spawning", "respawning"}

RequestKnown ==
    /\ desk.at \in {"poll", "reissue"} => desk.asked
    /\ Requested => desk.asked /\ desk.at \in Taking

Requests == hz \cap {"torn", "disk"} = {} => DeskWrites /\ KidStarts /\ RequestKnown

\* A process's step that is no matter of /open's.
Apart(d) == d.at = desk.at /\ d.asked = desk.asked /\ d.kid = desk.kid

\* The step of the spawned process that /open waits for.
AnswersFor(p, d) ==
    /\ desk.kid = p
    /\ pc[p] \in {"start", "create"} \/ desk.at \in {"spawning", "respawning"}
    /\ d.kid = p /\ d.at \in {"rescind", "done", "steal"}
    /\ desk.asked /\ desk.at = "respawning" => d.at = "rescind" /\ d.asked

LEMMA ProcessRequests ==
    ASSUME TypeOK, TypeOK', Requests, NEW p \in Procs, UNCHANGED <<dio, hz>>,
           \A q \in Procs : q # p => io'[q] = io[q] /\ pc'[q] = pc[q],
           io'[p] = io[p] \/ io'[p] = NoIO \/ MayRead(p),
           Asking(io'[p]) => Requested, Asking(file') => Requested,
           pc'[p] \in {"start", "create"} => pc[p] \in {"start", "create"} \/ p \in Shells,
           \/ Apart(desk')
           \/ AnswersFor(p, desk') /\ pc'[p] \notin {"start", "create"}
    PROVE  Requests'
<1>. SUFFICES ASSUME hz \cap {"torn", "disk"} = {}
              PROVE  DeskWrites' /\ KidStarts' /\ RequestKnown'
  BY DEF Requests
<1>0. DeskWrites /\ KidStarts /\ RequestKnown /\ p # NoProc
  BY DEF Requests
<1>1. io'[p] = io[p] \/ io'[p] = NoIO \/ (dio = NoIO /\ desk.at # "reissue")
  BY DEF MayRead
<1>2. Requested' => Requested
  BY DEF Requested, Asking
<1>3. CASE Apart(desk')
  <2>1. DeskWrites'
    BY <1>0, <1>1, <1>3 DEF DeskWrites, Apart
  <2>2. KidStarts'
    BY <1>0, <1>3, SessionLeaseAssumption DEF KidStarts, Apart, Procs
  <2>3. RequestKnown'
    BY <1>0, <1>2, <1>3 DEF RequestKnown, Apart
  <2>. QED  BY <2>1, <2>2, <2>3
<1>4. CASE AnswersFor(p, desk') /\ pc'[p] \notin {"start", "create"}
  <2>1. desk.at \in {"spawning", "respawning"} /\ dio = NoIO
    BY <1>0, <1>4 DEF KidStarts, DeskWrites, AnswersFor
  <2>2. DeskWrites'
    BY <1>4, <2>1 DEF DeskWrites, AnswersFor
  <2>3. KidStarts'
    BY <1>0, <1>4 DEF KidStarts, AnswersFor
  <2>4. RequestKnown'
    BY <1>0, <1>2, <1>4, <2>1 DEF RequestKnown, AnswersFor, Taking
  <2>. QED  BY <2>2, <2>3, <2>4
<1>. QED  BY <1>3, <1>4

LEMMA GrantedAsks ==
    ASSUME NEW p \in Procs
    PROVE  ~Asking(Granted(p))
  BY DEF Asking, Granted

\* What /open makes of a refusal or of a process that serves.
LEMMA KidAnswers ==
    ASSUME TypeOK, NEW p \in Procs, desk.kid = p,
           pc[p] \in {"start", "create"} \/ desk.at \in {"spawning", "respawning"},
           \/ \E byBusy \in BOOLEAN : desk' = Refusal(desk, byBusy)
           \/ LeavesTo(desk, desk')
    PROVE  AnswersFor(p, desk')
<1>0. desk \in Desks
  BY DEF TypeOK, Desks
<1>1. CASE LeavesTo(desk, desk')
  BY <1>1 DEF AnswersFor, LeavesTo
<1>2. CASE \E byBusy \in BOOLEAN : desk' = Refusal(desk, byBusy)
  <2>1. \/ desk.at = "spawning" /\ desk'.at = "steal" /\ desk'.kid = desk.kid
        \/ LeavesTo(desk, desk')
    BY <1>0, <1>2, RefusalType
  <2>. QED  BY <1>1, <2>1 DEF AnswersFor
<1>. QED  BY <1>1, <1>2

LEMMA RequestsProcess ==
    ASSUME TypeInv, TypeInv', Requests, NEW p \in Procs,
           \/ ProcStep(p)
           \/ Launch(p) \/ TurnBegins(p) \/ TurnEnds(p) \/ Quit(p) \/ Crash(p)
    PROVE  Requests'
<1>. DEFINE Others == \A q \in Procs : q # p => io'[q] = io[q] /\ pc'[q] = pc[q]
<1>0. TypeOK /\ TypeOK' /\ p # NoProc
  BY DEF TypeInv
<1>1. CASE StartReads(p)
  <2>1. /\ UNCHANGED <<dio, hz, file>> /\ MayRead(p) /\ Others /\ pc[p] = "start"
    BY <1>0, <1>1 DEF StartReads, Owes, Moves, TypeOK
  <2>2. CASE HeldByAnother(p)
    <3>1. io' = io /\ pc'[p] = "gone"
          /\ desk' = IF desk.kid = p THEN Refusal(desk, file.busy) ELSE desk
      BY <1>0, <1>1, <2>2 DEF StartReads, Moves, TypeOK
    <3>2. file.busy \in BOOLEAN
      BY <1>0, <2>2 DEF HeldByAnother, TypeOK, Owners
    <3>3. Apart(desk') \/ AnswersFor(p, desk')
      BY <1>0, <2>1, <3>1, <3>2, KidAnswers DEF Apart
    <3>4. Asking(io'[p]) => Requested
      BY <3>1 DEF Requested
    <3>5. Asking(file') => Requested
      BY <2>1 DEF Requested
    <3>. QED  BY <1>0, <2>1, <3>1, <3>3, <3>4, <3>5, ProcessRequests
  <2>3. CASE ~HeldByAnother(p)
    <3>1. io'[p] = Granted(p) /\ UNCHANGED <<pc, desk>>
      BY <1>0, <1>1, <2>3 DEF StartReads, Owes, TypeOK
    <3>2. Asking(file') => Requested
      BY <2>1 DEF Requested
    <3>. QED  BY <1>0, <2>1, <3>1, <3>2, GrantedAsks, ProcessRequests DEF Apart
  <2>. QED  BY <2>2, <2>3
<1>2. CASE StartWrites(p)
  <2>1. /\ UNCHANGED <<dio, hz, desk>> /\ Others /\ pc[p] = "start" /\ io'[p] = NoIO
        /\ file' \in {io[p], file}
    BY <1>0, <1>2 DEF StartWrites, Lands, Owes, Moves, TypeOK
  <2>2. Asking(file') => Requested
    BY <2>1 DEF Requested
  <2>3. ~Asking(io'[p])
    BY <2>1 DEF Asking
  <2>. QED  BY <1>0, <2>1, <2>2, <2>3, ProcessRequests DEF Apart
<1>3. CASE ServeReads(p)
  <2>1. /\ UNCHANGED <<dio, hz, file>> /\ MayRead(p) /\ Others /\ pc[p] = "create"
    BY <1>0, <1>3 DEF ServeReads, Serves, Owes, Moves, TypeOK
  <2>2. Asking(file') => Requested
    BY <2>1 DEF Requested
  <2>3. CASE HeldByAnother(p)
    <3>1. io' = io /\ pc'[p] \in {"up", "gone"}
      BY <1>0, <1>3, <2>3 DEF ServeReads, Serves, Moves, TypeOK
    <3>2. Apart(desk') \/ AnswersFor(p, desk')
      BY <1>0, <1>3, <2>1, <2>3, KidAnswers, ServesType DEF ServeReads, Apart
    <3>3. Asking(io'[p]) => Requested
      BY <3>1 DEF Requested
    <3>. QED  BY <1>0, <2>1, <2>2, <3>1, <3>2, <3>3, ProcessRequests
  <2>4. CASE ~HeldByAnother(p)
    <3>1. io'[p] = Granted(p) /\ UNCHANGED <<pc, desk>>
      BY <1>0, <1>3, <2>4 DEF ServeReads, Owes, TypeOK
    <3>. QED  BY <1>0, <2>1, <2>2, <3>1, GrantedAsks, ProcessRequests DEF Apart
  <2>. QED  BY <2>3, <2>4
<1>4. CASE ServeWrites(p)
  <2>1. /\ UNCHANGED <<dio, hz>> /\ Others /\ pc[p] = "create" /\ io'[p] = NoIO
        /\ file' \in {io[p], file} /\ pc'[p] = "up"
    BY <1>0, <1>4 DEF ServeWrites, Lands, Serves, Owes, Moves, TypeOK
  <2>2. Asking(file') => Requested
    BY <2>1 DEF Requested
  <2>3. ~Asking(io'[p])
    BY <2>1 DEF Asking
  <2>4. Apart(desk') \/ AnswersFor(p, desk')
    BY <1>0, <1>4, <2>1, KidAnswers, ServesType DEF ServeWrites, Apart
  <2>. QED  BY <1>0, <2>1, <2>2, <2>3, <2>4, ProcessRequests
<1>5. CASE HeartbeatReads(p)
  <2>. DEFINE stamped == [file EXCEPT !.age = 0, !.busy = busy[p]]
  <2>1. /\ UNCHANGED <<dio, hz, file, desk>> /\ MayRead(p) /\ Others
        /\ pc'[p] \in {"up", "stopping"}
    BY <1>0, <1>5 DEF HeartbeatReads, Owes, Moves, TypeOK
  <2>2. Asking(file') => Requested
    BY <2>1 DEF Requested
  <2>3. file # NoOwner => stamped.steal = file.steal
    BY <1>0 DEF TypeOK, Owners
  <2>4. io'[p] = io[p] \/ (file # NoOwner /\ io'[p] = stamped)
    BY <1>0, <1>5 DEF HeartbeatReads, Owes, TypeOK
  <2>. HIDE DEF stamped
  <2>5. Asking(io'[p]) => Requested
    BY <1>0, <2>3, <2>4 DEF Asking, Requested, TypeOK
  <2>. QED  BY <1>0, <2>1, <2>2, <2>5, ProcessRequests DEF Apart
<1>6. CASE HeartbeatWrites(p) \/ RefuseWrites(p) \/ ReleaseUnlinks(p)
  <2>1. /\ UNCHANGED <<dio, hz>> /\ Others /\ io'[p] = NoIO /\ file' \in {io[p], file}
        /\ pc'[p] \in {"up", "refuse", "stopping", "gone"}
        /\ Apart(desk')
    BY <1>0, <1>6 DEF HeartbeatWrites, RefuseWrites, ReleaseUnlinks, Lands, Owes, Ends,
                      Moves, TypeOK, Apart
  <2>2. Asking(file') => Requested
    BY <2>1 DEF Requested
  <2>3. ~Asking(io'[p])
    BY <2>1 DEF Asking
  <2>. QED  BY <1>0, <2>1, <2>2, <2>3, ProcessRequests
<1>7. CASE RefuseReads(p) \/ ReleaseReads(p)
  <2>1. /\ UNCHANGED <<dio, hz, file, desk>> /\ MayRead(p) /\ Others
        /\ pc'[p] \in {"refuse", "stopping", "gone"}
        /\ io'[p] = io[p] \/ io'[p] = Granted(p) \/ io'[p] = NoOwner
    BY <1>0, <1>7 DEF RefuseReads, ReleaseReads, Owes, Ends, Moves, TypeOK
  <2>2. Asking(file') => Requested
    BY <2>1 DEF Requested
  <2>3. Asking(io'[p]) => Requested
    BY <2>1, GrantedAsks DEF Asking, Requested
  <2>. QED  BY <1>0, <2>1, <2>2, <2>3, ProcessRequests DEF Apart
<1>8. CASE Launch(p) \/ TurnBegins(p) \/ TurnEnds(p) \/ Quit(p)
  <2>1. /\ UNCHANGED <<dio, hz, file, io, desk>> /\ Others
        /\ p \in Shells \/ pc'[p] = pc[p] \/ pc'[p] = "stopping"
    BY <1>0, <1>8 DEF Launch, TurnBegins, TurnEnds, Quit, Moves, TypeOK
  <2>2. (Asking(file') => Requested) /\ (Asking(io'[p]) => Requested)
    BY <2>1 DEF Requested
  <2>. QED  BY <1>0, <2>1, <2>2, ProcessRequests DEF Apart
<1>9. CASE Crash(p)
  <2>1. /\ UNCHANGED <<dio, hz, file>> /\ Others /\ io'[p] = NoIO /\ pc'[p] = "gone"
    BY <1>0, <1>9 DEF Crash, Ends, Owes, Moves, TypeOK
  <2>2. (Asking(file') => Requested) /\ ~Asking(io'[p])
    BY <2>1 DEF Requested, Asking
  <2>3. Apart(desk') \/ AnswersFor(p, desk')
    BY <1>0, <1>9, KidAnswers, CrashType DEF Apart
  <2>. QED  BY <1>0, <2>1, <2>2, <2>3, ProcessRequests
<1>. QED  BY <1>1, <1>2, <1>3, <1>4, <1>5, <1>6, <1>7, <1>8, <1>9 DEF ProcStep

LEMMA RequestsDesk ==
    ASSUME TypeOK, TypeOK', Requests, DeskStep \/ OpenCancelled
    PROVE  Requests'
<1>. SUFFICES ASSUME "torn" \notin hz, "disk" \notin hz
              PROVE  DeskWrites' /\ KidStarts' /\ RequestKnown'
  BY DEF Requests, DeskStep, StealReads, StealWrites, PollReads, RescindReads, RescindWrites,
         Respawn, Spawns, OpenCancelled
<1>0. DeskWrites /\ KidStarts /\ RequestKnown /\ desk \in Desks
  BY DEF Requests, TypeOK, Desks
<1>1. DeskMayRead => dio = NoIO /\ \A p \in Procs : io[p] = NoIO
  BY DEF DeskMayRead
<1>2. CASE StealReads
  <2>1. /\ DeskMayRead /\ UNCHANGED <<file, io, pc, hz>>
        /\ desk.at \in {"steal", "reissue"}
    BY <1>2 DEF StealReads
  <2>2. Requested' <=> Requested
    BY <2>1 DEF Requested
  <2>3. \/ desk' = desk
        \/ /\ dio' = NoIO /\ desk.at = "steal" /\ desk'.at = "respawn"
           /\ desk'.asked = desk.asked /\ desk'.kid = desk.kid
        \/ /\ dio' = NoIO /\ desk.at = "reissue" /\ desk'.kid = desk.kid
           /\ \/ desk'.at = "poll" /\ desk'.asked = desk.asked
              \/ LeavesTo(desk, desk')
    <3>1. CASE file # NoOwner /\ IsLive(file)
      BY <1>2, <3>1 DEF StealReads
    <3>2. CASE ~(file # NoOwner /\ IsLive(file))
      <4>1. dio' = dio /\ desk' = StealFails(desk)
        BY <1>2, <3>2 DEF StealReads
      <4>. QED  BY <1>0, <1>1, <2>1, <4>1, StealFailsType, PollAgainType
    <3>. QED  BY <3>1, <3>2
  <2>4. DeskWrites'
    BY <1>1, <2>1, <2>3 DEF DeskWrites, LeavesTo
  <2>5. KidStarts'
    BY <1>0, <2>1, <2>3 DEF KidStarts
  <2>6. RequestKnown'
    BY <1>0, <2>1, <2>2, <2>3 DEF RequestKnown, Taking, LeavesTo
  <2>. QED  BY <2>4, <2>5, <2>6
<1>3. CASE StealWrites
  <2>1. /\ UNCHANGED <<io, pc, hz>> /\ dio # NoIO /\ dio' = NoIO
        /\ desk.at \in {"steal", "reissue"}
    BY <1>3 DEF StealWrites
  <2>2. desk'.asked /\ desk'.kid = desk.kid /\ desk'.at \in {"poll", "rescind"}
    <3>. DEFINE d == [desk EXCEPT !.asked = TRUE]
    <3>1. d \in Desks /\ d.asked /\ d.kid = desk.kid
      BY <1>0 DEF Desks
    <3>2. desk' = PollAgain(d)
      BY <1>3 DEF StealWrites
    <3>. HIDE DEF d
    <3>. QED  BY <3>1, <3>2, PollAgainType DEF LeavesTo
  <2>3. DeskWrites'
    BY <1>0, <2>1, <2>2 DEF DeskWrites
  <2>4. KidStarts'
    BY <1>0, <2>1, <2>2 DEF KidStarts
  <2>5. RequestKnown'
    BY <2>2 DEF RequestKnown, Taking
  <2>. QED  BY <2>3, <2>4, <2>5
<1>4. CASE PollReads \/ OpenCancelled
  <2>1. /\ UNCHANGED <<file, io, pc, dio, hz>> /\ desk.at = "poll"
        /\ OpenCancelled \/ DeskMayRead
    BY <1>4 DEF PollReads, OpenCancelled
  <2>2. Requested' <=> Requested
    BY <2>1 DEF Requested
  <2>3. /\ desk'.asked = desk.asked /\ desk'.kid = desk.kid
        /\ desk'.at \in {"respawn", "reissue", "rescind", "done"}
        /\ desk.asked => desk'.at # "done"
        /\ desk'.at = "reissue" => DeskMayRead
    <3>1. \E answer \in Answers :
             \/ desk' = Leaves(desk, answer)
             \/ desk' = [desk EXCEPT !.at = "respawn"]
             \/ desk' = [desk EXCEPT !.at = "reissue"] /\ PollReads
      BY <1>4 DEF PollReads, OpenCancelled, Answers
    <3>2. \/ LeavesTo(desk, desk')
          \/ desk' = [desk EXCEPT !.at = "respawn"]
          \/ desk' = [desk EXCEPT !.at = "reissue"] /\ DeskMayRead
      BY <1>0, <3>1, LeavesType DEF PollReads
    <3>. QED  BY <1>0, <2>1, <3>2 DEF LeavesTo, Desks, RequestKnown
  <2>4. DeskWrites'
    BY <1>0, <1>1, <2>1, <2>3 DEF DeskWrites
  <2>5. KidStarts'
    BY <1>0, <2>1, <2>3 DEF KidStarts
  <2>6. RequestKnown'
    BY <1>0, <2>1, <2>2, <2>3 DEF RequestKnown, Taking
  <2>. QED  BY <2>4, <2>5, <2>6
<1>5. ASSUME NEW w \in Wires, Respawn(w) PROVE DeskWrites' /\ KidStarts' /\ RequestKnown'
  <2>1. /\ UNCHANGED <<file, io, dio, hz>> /\ desk.at = "respawn"
        /\ desk'.kid = w /\ desk'.at = "respawning" /\ desk'.asked = desk.asked
    BY <1>5 DEF Respawn, Spawns, TypeOK
  <2>2. Requested' <=> Requested
    BY <2>1 DEF Requested
  <2>3. DeskWrites'
    BY <1>0, <2>1 DEF DeskWrites
  <2>4. KidStarts'
    BY <2>1 DEF KidStarts
  <2>5. RequestKnown'
    BY <1>0, <2>1, <2>2 DEF RequestKnown, Taking
  <2>. QED  BY <2>3, <2>4, <2>5
<1>6. CASE RescindReads
  <2>1. /\ DeskMayRead /\ UNCHANGED <<file, io, pc, hz>> /\ desk.at = "rescind"
    BY <1>6 DEF RescindReads
  <2>2. Requested' <=> Requested
    BY <2>1 DEF Requested
  <2>3. CASE file # NoOwner /\ desk.asked /\ file.steal
    <3>1. desk' = desk /\ dio' = [file EXCEPT !.steal = FALSE]
      BY <1>6, <2>3 DEF RescindReads
    <3>2. ~dio'.steal
      BY <2>3, <3>1 DEF TypeOK, Owners
    <3>. QED  BY <1>0, <1>1, <2>1, <2>2, <3>1, <3>2 DEF DeskWrites, KidStarts, RequestKnown
  <2>4. CASE ~(file # NoOwner /\ desk.asked /\ file.steal)
    <3>1. dio' = dio /\ desk'.at = "done" /\ desk'.kid = desk.kid
      BY <1>0, <1>6, <2>4, OverType DEF RescindReads
    <3>2. ~Requested
      BY <1>0, <1>1, <2>1, <2>4 DEF Requested, RequestKnown, Asking, TypeOK
    <3>. QED  BY <1>0, <1>1, <2>1, <2>2, <3>1, <3>2 DEF DeskWrites, KidStarts, RequestKnown
  <2>. QED  BY <2>3, <2>4
<1>7. CASE RescindWrites
  <2>1. /\ UNCHANGED <<io, pc, hz>> /\ file' = dio /\ dio # NoIO /\ dio' = NoIO
        /\ desk.at = "rescind" /\ desk'.at = "done" /\ desk'.kid = desk.kid
    BY <1>0, <1>7, OverType DEF RescindWrites, Lands
  <2>2. ~Requested'
    BY <1>0, <2>1 DEF Requested, Asking, DeskWrites
  <2>. QED  BY <1>0, <2>1, <2>2 DEF DeskWrites, KidStarts, RequestKnown
<1>. QED  BY <1>2, <1>3, <1>4, <1>5, <1>6, <1>7 DEF DeskStep

LEMMA RequestsElsewhere ==
    ASSUME TypeInv, TypeInv', Requests, Environment \/ Tick
    PROVE  Requests'
<1>1. CASE Tick
  <2>1. /\ UNCHANGED <<pc, dio, hz>> /\ dio = NoIO /\ desk.at # "reissue"
        /\ desk'.at = desk.at /\ desk'.asked = desk.asked /\ desk'.kid = desk.kid
    BY <1>1 DEF Tick, TypeInv, TypeOK
  <2>2. ASSUME NEW write \in Owners \cup {NoOwner, NoIO}, Asking(Older(write))
        PROVE  Asking(write)
    BY <2>2, OlderType DEF Older, Asking, Owners
  <2>3. Requested' => Requested
    <3>1. file \in Owners \cup {NoOwner, NoIO}
          /\ \A p \in Procs : io[p] \in Owners \cup {NoOwner, NoIO}
      BY DEF TypeInv, TypeOK
    <3>2. file' = Older(file) /\ \A p \in Procs : io'[p] = Older(io[p])
      BY <1>1 DEF Tick
    <3>. QED  BY <2>2, <3>1, <3>2 DEF Requested
  <2>. QED  BY <2>1, <2>3 DEF Requests, DeskWrites, KidStarts, RequestKnown
<1>2. ASSUME NEW w \in Wires, NEW takeover \in BOOLEAN, OpenBegins(w, takeover)
      PROVE  Requests'
  <2>1. /\ UNCHANGED <<file, io, dio, hz>> /\ desk.at \in {"idle", "done"}
        /\ desk'.kid = w /\ desk'.at = "spawning"
    BY <1>2 DEF OpenBegins, Spawns
  <2>2. Requested' <=> Requested
    BY <2>1 DEF Requested
  <2>. QED  BY <2>1, <2>2 DEF Requests, DeskWrites, KidStarts, RequestKnown, Taking
<1>. QED  BY <1>1, <1>2, RequestsProcess, RequestsDesk DEF Environment, TypeInv

LEMMA RequestsInit == Init => Requests
  BY DEF Init, Requests, DeskWrites, KidStarts, RequestKnown, Requested, Asking

LEMMA RequestsNext == TypeInv /\ Requests /\ [Next]_vars => Requests'
<1>. SUFFICES ASSUME TypeInv, Requests, [Next]_vars PROVE Requests'
  OBVIOUS
<1>0. TypeInv' /\ TypeOK /\ TypeOK'
  BY TypeNext DEF TypeInv
<1>1. CASE UNCHANGED vars
  BY <1>1 DEF vars, Requests, DeskWrites, KidStarts, RequestKnown, Requested
<1>. QED  BY <1>0, <1>1, RequestsProcess, RequestsDesk, RequestsElsewhere DEF Next

\* Once /open has answered, its takeover has left no request behind: neither on
\* the record nor in a write that is due, however late the processes are and
\* however their own writes overlap or are cut off by their deaths, unless a
\* read-modify-write of agentd's overlapped with a process's (then a request can
\* be put back or left) or a write did not land.
THEOREM RequestsAnswered == Spec => []NoOrphanRequest
<1>1. TypeInv /\ Requests => NoOrphanRequest
  BY DEF TypeInv, TypeOK, Requests, RequestKnown, Requested, Asking, Taking, NoOrphanRequest
<1>. QED  BY <1>1, TypeInit, TypeNext, RequestsInit, RequestsNext, PTL DEF Spec

-----------------------------------------------------------------------------
(* A takeover that times out: without hazards, an owner that serves obeys  *)
(* or refuses a request by its first heartbeat after it.                   *)

\* The record is that of a process that serves, and its owner knows its number.
OwnerServes ==
    /\ file # NoOwner => pc[file.holder] \in Serving
    /\ \A p \in Procs : pc[p] \in {"up", "refuse", "stopping"} => gen[p] = file.gen

\* A heartbeat due to be written repeats the record; a grant asks nothing.
WritesRepeat ==
    /\ \A p \in Procs : io[p] \in Owners =>
          IF pc[p] = "up" THEN io[p].steal = file.steal /\ io[p].gen = gen[p]
                          ELSE ~io[p].steal
    /\ dio # NoIO => dio.gen = file.gen

DeskWaits ==
    /\ desk.at \in {"spawning", "steal"} => desk.waited = 0
    /\ desk.at = "reissue" => file # NoOwner /\ file.steal

\* In the period after the one a request was placed in, the owner's heartbeat
\* is due until it has been read or refused.
Obeys ==
    desk.at \in {"poll", "reissue"} /\ file # NoOwner /\ file.steal =>
        \A p \in Procs :
            /\ pc[p] = "up" =>
                  desk.waited = 0 \/ (desk.waited = 1 /\ (due[p] \/ io[p] # NoIO))
            /\ pc[p] = "refuse" => desk.waited <= 1

Timely == hz = {} => OwnerServes /\ WritesRepeat /\ DeskWaits /\ Obeys

LeaseInv == TypeInv /\ Pending /\ Owning /\ Requests

\* Without hazards a write lands.
LEMMA QuietLands ==
    ASSUME hz = {}, NEW write, Lands(write) PROVE file' = write
  BY DEF Lands

LEMMA QuietFacts ==
    ASSUME LeaseInv, hz = {}
    PROVE  /\ \A p \in Procs : pc[p] \in Serving =>
                 file \in Owners /\ file.holder = p /\ file.age < Stale /\ ~HeldByAnother(p)
           /\ \A p \in Procs : pc[p] = "start" /\ io[p] # NoIO =>
                 \A q \in Procs : pc[q] \notin Serving
           /\ \A p, q \in Procs : io[p] # NoIO /\ io[q] # NoIO => p = q
           /\ \A p \in Procs : io[p] # NoIO => dio = NoIO /\ desk.at # "reissue"
           /\ dio # NoIO => file \in Owners /\ dio.holder = file.holder
           /\ \A p \in Procs : MayRead(p) =>
                 dio = NoIO /\ desk.at # "reissue" /\ \A q \in Procs : io[q] = NoIO
<1>1. /\ Punctual /\ NoOverlap /\ "torn" \notin hz /\ "race" \notin hz
      /\ hz \cap {"torn", "disk"} = {}
  BY DEF Punctual, NoOverlap
<1>2. \A p \in Procs : pc[p] \in Serving =>
                 file \in Owners /\ file.holder = p /\ file.age < Stale /\ ~HeldByAnother(p)
  BY <1>1 DEF LeaseInv, TypeInv, TypeOK, Owning, HeldByAnother
<1>3. \A p \in Procs : pc[p] = "start" /\ io[p] # NoIO =>
                 \A q \in Procs : pc[q] \notin Serving
  BY <1>1 DEF LeaseInv, Owning
<1>4. /\ \A p, q \in Procs : io[p] # NoIO /\ io[q] # NoIO => p = q
      /\ \A p \in Procs : io[p] # NoIO => dio = NoIO
      /\ dio # NoIO => file \in Owners /\ dio.holder = file.holder
  BY <1>1 DEF LeaseInv, TypeInv, TypeOK, Pending
<1>5. \A p \in Procs : io[p] # NoIO => desk.at # "reissue"
  BY <1>1 DEF LeaseInv, Requests, DeskWrites
<1>6. \A p \in Procs : MayRead(p) =>
                 dio = NoIO /\ desk.at # "reissue" /\ \A q \in Procs : io[q] = NoIO
  BY <1>1 DEF MayRead
<1>. QED  BY <1>2, <1>3, <1>4, <1>5, <1>6

\* What a step may do to /open without a matter of a request's timing.
Waits(d) ==
    /\ d.at \in {"poll", "reissue"} => d.at = desk.at /\ d.waited = desk.waited
    /\ d.at \in {"spawning", "steal"} => d.waited = 0

\* A process moves, with no write of its own due, but not on duty.
LEMMA MovesTimely ==
    ASSUME LeaseInv, Timely, hz = {}, NEW p \in Procs,
           UNCHANGED <<file, io, gen, dio, hz>>,
           \A q \in Procs : due'[q] = due[q] \/ pc'[q] # "up",
           \A q \in Procs : q # p => pc'[q] = pc[q],
           \/ pc'[p] = pc[p]
           \/ /\ pc'[p] \notin {"up", "refuse"}
              /\ io[p] = NoIO
              /\ pc[p] \in Serving => pc'[p] \in Serving
              /\ pc'[p] = "stopping" => pc[p] \in {"up", "refuse"},
           Waits(desk')
    PROVE  Timely'
<1>. USE DEF Timely
<1>0. TypeOK
  BY DEF LeaseInv, TypeInv
<1>1. OwnerServes'
  BY <1>0 DEF OwnerServes, TypeOK, Owners
<1>2. WritesRepeat'
  BY <1>0 DEF WritesRepeat, TypeOK
<1>3. DeskWaits'
  BY DEF DeskWaits, Waits
<1>4. Obeys'
  BY DEF Obeys, Waits
<1>. QED  BY <1>1, <1>2, <1>3, <1>4

\* A process has read the record and owes a write.
LEMMA ReadsTimely ==
    ASSUME LeaseInv, Timely, hz = {}, NEW p \in Procs, NEW write, write # NoIO, MayRead(p),
           write \in Owners =>
              IF pc[p] = "up" THEN write.steal = file.steal /\ write.gen = gen[p]
                              ELSE ~write.steal,
           io' = [io EXCEPT ![p] = write], UNCHANGED <<file, pc, gen, desk, dio, hz>>,
           \A q \in Procs : q # p => due'[q] = due[q]
    PROVE  Timely'
<1>. USE DEF Timely
<1>0. TypeOK
  BY DEF LeaseInv, TypeInv
<1>1. OwnerServes'
  BY DEF OwnerServes
<1>2. WritesRepeat'
  BY <1>0 DEF WritesRepeat, TypeOK
<1>3. DeskWaits'
  BY DEF DeskWaits
<1>4. Obeys'
  BY <1>0 DEF Obeys, TypeOK
<1>. QED  BY <1>1, <1>2, <1>3, <1>4

\* A process has written what it owed, and serves.
LEMMA WritesTimely ==
    ASSUME LeaseInv, Timely, hz = {}, NEW p \in Procs, io[p] \in Owners,
           pc[p] \in {"start"} \cup Serving, pc'[p] \in Serving,
           file' = io[p], io' = [io EXCEPT ![p] = NoIO],
           UNCHANGED <<dio, hz>>,
           \A q \in Procs : q # p => pc'[q] = pc[q],
           pc'[p] \in {"up", "refuse", "stopping"} => gen'[p] = io[p].gen,
           io[p].steal /\ pc[p] = "up" =>
              pc'[p] # "up" /\ (pc'[p] = "refuse" => desk' = desk),
           Waits(desk')
    PROVE  Timely'
<1>. USE DEF Timely
<1>0. /\ TypeOK /\ io[p].holder = p /\ io[p] # NoIO /\ io[p] # NoOwner
      /\ dio = NoIO /\ desk.at # "reissue"
      /\ \A q \in Procs : q # p => io[q] = NoIO /\ pc[q] \notin Serving
  BY QuietFacts DEF LeaseInv, TypeInv, WritesOwn
<1>1. \A q \in Procs : q # p => pc'[q] \notin Serving
  BY <1>0
<1>2. OwnerServes'
  BY <1>0, <1>1 DEF OwnerServes, Serving
<1>3. WritesRepeat'
  BY <1>0 DEF WritesRepeat, TypeOK
<1>4. DeskWaits'
  BY <1>0 DEF DeskWaits, Waits
<1>5. Obeys'
  <2>. SUFFICES ASSUME desk'.at \in {"poll", "reissue"}, io[p].steal
                PROVE  /\ pc'[p] # "up"
                       /\ pc'[p] = "refuse" => desk'.waited <= 1
    BY <1>0, <1>1 DEF Obeys, Serving
  <2>1. pc[p] = "up" /\ file.steal /\ file # NoOwner
    BY <1>0, QuietFacts DEF WritesRepeat, Serving, TypeOK
  <2>2. ASSUME pc'[p] = "refuse" PROVE desk'.waited <= 1
    BY <1>0, <2>1, <2>2 DEF Obeys, TypeOK, Wait
  <2>. QED  BY <2>1, <2>2
<1>. QED  BY <1>2, <1>3, <1>4, <1>5

\* No answer of the process /open spawned is a timeout, or changes a wait.
LEMMA KidWaits ==
    ASSUME TypeOK, KidStarts, DeskWaits, NEW p \in Procs, desk.kid = p,
           pc[p] \in {"start", "create"},
           \/ \E byBusy \in BOOLEAN : desk' = Refusal(desk, byBusy)
           \/ LeavesTo(desk, desk') /\ desk'.answer # "timeout"
    PROVE  Waits(desk') /\ (desk.answer # "timeout" => desk'.answer # "timeout")
<1>0. desk.at \in {"spawning", "respawning"} /\ desk \in Desks
  BY SessionLeaseAssumption DEF KidStarts, TypeOK, Desks
<1>1. CASE LeavesTo(desk, desk') /\ desk'.answer # "timeout"
  BY <1>1 DEF LeavesTo, Waits
<1>2. CASE \E byBusy \in BOOLEAN : desk' = Refusal(desk, byBusy)
  <2>1. \/ /\ desk.at = "spawning" /\ desk'.at = "steal"
           /\ desk'.waited = desk.waited /\ desk'.answer = desk.answer
        \/ LeavesTo(desk, desk') /\ desk'.answer \in {"busy", "owned"}
    BY <1>0, <1>2, RefusalType
  <2>2. CASE LeavesTo(desk, desk') /\ desk'.answer \in {"busy", "owned"}
    BY <1>1, <2>2
  <2>. QED  BY <2>1, <2>2 DEF Waits, DeskWaits
<1>. QED  BY <1>1, <1>2

LEMMA TimelyProcess ==
    ASSUME LeaseInv, Timely, hz = {}, NEW p \in Procs, ProcStep(p)
    PROVE  /\ Timely'
           /\ desk.answer # "timeout" => desk'.answer # "timeout"
<1>. DEFINE Others == \A q \in Procs : q # p => pc'[q] = pc[q]
            Silent == desk.answer # "timeout" => desk'.answer # "timeout"
<1>0. /\ TypeOK /\ WritesOwn /\ KidStarts /\ Waits(desk)
      /\ OwnerServes /\ WritesRepeat /\ DeskWaits /\ Obeys
  BY DEF LeaseInv, TypeInv, Requests, Timely, Waits, DeskWaits
<1>g. Granted(p) # NoIO /\ ~Granted(p).steal
  BY <1>0, GrantedType DEF Granted
<1>1. CASE StartReads(p)
  <2>1. CASE HeldByAnother(p)
    <3>1. /\ UNCHANGED <<file, io, gen, due, dio, hz>> /\ Others /\ io[p] = NoIO
          /\ pc[p] = "start" /\ pc'[p] = "gone"
          /\ desk' = IF desk.kid = p THEN Refusal(desk, file.busy) ELSE desk
      BY <1>0, <1>1, <2>1 DEF StartReads, Moves, MayRead, TypeOK
    <3>2. file.busy \in BOOLEAN
      BY <1>0, <2>1 DEF HeldByAnother, TypeOK, Owners
    <3>3. Waits(desk') /\ Silent
      BY <1>0, <3>1, <3>2, KidWaits
    <3>. QED  BY <3>1, <3>3, MovesTimely DEF Serving
  <2>2. CASE ~HeldByAnother(p)
    <3>1. /\ MayRead(p) /\ io' = [io EXCEPT ![p] = Granted(p)] /\ pc[p] = "start"
          /\ UNCHANGED <<file, pc, gen, due, desk, dio, hz>>
      BY <1>1, <2>2 DEF StartReads, Owes
    <3>. QED  BY <1>g, <3>1, ReadsTimely
  <2>. QED  BY <2>1, <2>2
<1>2. CASE StartWrites(p)
  <2>1. /\ UNCHANGED <<gen, due, desk, dio, hz>> /\ Others /\ pc[p] = "start"
        /\ io[p] \in Owners /\ pc'[p] = "create"
        /\ file' = io[p] /\ io' = [io EXCEPT ![p] = NoIO]
    BY <1>0, <1>2, QuietLands DEF StartWrites, Owes, Moves, TypeOK, WritesOwn
  <2>. QED  BY <1>0, <2>1, WritesTimely DEF Serving
<1>3. CASE ServeReads(p)
  <2>1. ~HeldByAnother(p)
    BY <1>3, QuietFacts DEF ServeReads, Serving
  <2>2. /\ MayRead(p) /\ io' = [io EXCEPT ![p] = Granted(p)] /\ pc[p] = "create"
        /\ UNCHANGED <<file, pc, gen, due, desk, dio, hz>>
    BY <1>3, <2>1 DEF ServeReads, Owes
  <2>. QED  BY <1>g, <2>2, ReadsTimely
<1>4. CASE ServeWrites(p)
  <2>1. /\ UNCHANGED <<dio, hz>> /\ Others /\ pc[p] = "create" /\ pc'[p] = "up"
        /\ io[p] \in Owners /\ gen'[p] = io[p].gen
        /\ file' = io[p] /\ io' = [io EXCEPT ![p] = NoIO]
    BY <1>0, <1>4, QuietLands DEF ServeWrites, Serves, Owes, Moves, TypeOK, WritesOwn
  <2>2. Waits(desk') /\ Silent
    <3>1. desk' = desk \/ (desk.kid = p /\ LeavesTo(desk, desk') /\ desk'.answer = "started")
      BY <1>0, <1>4, ServesType DEF ServeWrites
    <3>2. CASE desk' = desk
      BY <1>0, <3>2
    <3>3. CASE desk.kid = p /\ LeavesTo(desk, desk') /\ desk'.answer = "started"
      BY <1>0, <2>1, <3>3, KidWaits
    <3>. QED  BY <3>1, <3>2, <3>3
  <2>. QED  BY <2>1, <2>2, WritesTimely DEF Serving
<1>5. CASE HeartbeatReads(p)
  <2>. DEFINE stamped == [file EXCEPT !.age = 0, !.busy = busy[p]]
  <2>1. pc[p] = "up" /\ file # NoOwner /\ file.holder = p /\ gen[p] = file.gen
    BY <1>0, <1>5, QuietFacts DEF HeartbeatReads, Serving, OwnerServes, TypeOK
  <2>2. /\ MayRead(p) /\ io' = [io EXCEPT ![p] = stamped]
        /\ UNCHANGED <<file, pc, gen, desk, dio, hz>>
        /\ \A q \in Procs : q # p => due'[q] = due[q]
    BY <1>0, <1>5, <2>1 DEF HeartbeatReads, Owes, TypeOK
  <2>3. stamped # NoIO /\ stamped.steal = file.steal /\ stamped.gen = file.gen
    BY <1>0, <2>1, StampedType DEF TypeOK, Owners
  <2>. HIDE DEF stamped
  <2>. QED  BY <2>1, <2>2, <2>3, ReadsTimely
<1>6. CASE HeartbeatWrites(p)
  <2>1. /\ UNCHANGED <<gen, desk, dio, hz>> /\ Others /\ pc[p] = "up"
        /\ io[p] \in Owners
        /\ file' = io[p] /\ io' = [io EXCEPT ![p] = NoIO]
        /\ pc'[p] \in {"up", "refuse", "stopping"}
        /\ io[p].steal => pc'[p] # "up"
    BY <1>0, <1>6, QuietLands DEF HeartbeatWrites, Owes, Moves, TypeOK, WritesOwn
  <2>2. gen'[p] = io[p].gen
    BY <1>0, <2>1 DEF WritesRepeat
  <2>. QED  BY <1>0, <2>1, <2>2, WritesTimely DEF Serving
<1>7. CASE RefuseReads(p)
  <2>1. ~HeldByAnother(p)
    BY <1>7, QuietFacts DEF RefuseReads, Serving
  <2>2. /\ MayRead(p) /\ io' = [io EXCEPT ![p] = Granted(p)] /\ pc[p] = "refuse"
        /\ UNCHANGED <<file, pc, gen, due, desk, dio, hz>>
    BY <1>7, <2>1 DEF RefuseReads, Owes
  <2>. QED  BY <1>g, <2>2, ReadsTimely
<1>8. CASE RefuseWrites(p)
  <2>1. /\ UNCHANGED <<dio, hz>> /\ Others /\ pc[p] = "refuse" /\ pc'[p] = "up"
        /\ io[p] \in Owners /\ gen'[p] = io[p].gen
        /\ file' = io[p] /\ io' = [io EXCEPT ![p] = NoIO]
        /\ desk' = [desk EXCEPT !.refused = TRUE]
    BY <1>0, <1>8, QuietLands DEF RefuseWrites, Owes, Moves, TypeOK, WritesOwn
  <2>2. Waits(desk') /\ Silent
    BY <1>0, <2>1 DEF Waits, TypeOK
  <2>. QED  BY <2>1, <2>2, WritesTimely DEF Serving
<1>9. CASE ReleaseReads(p)
  <2>1. Releasable(p)
    BY <1>0, <1>9, QuietFacts DEF ReleaseReads, Releasable, Serving, OwnerServes, TypeOK
  <2>2. /\ MayRead(p) /\ io' = [io EXCEPT ![p] = NoOwner] /\ pc[p] = "stopping"
        /\ UNCHANGED <<file, pc, gen, due, desk, dio, hz>>
    BY <1>9, <2>1 DEF ReleaseReads, Owes
  <2>. QED  BY <2>2, ReadsTimely
<1>10. CASE ReleaseUnlinks(p)
  <2>1. /\ UNCHANGED <<due, desk, dio, hz>> /\ Others /\ pc[p] = "stopping"
        /\ pc'[p] = "gone" /\ io[p] # NoIO /\ file' = NoOwner
        /\ io' = [io EXCEPT ![p] = NoIO]
    BY <1>0, <1>10, QuietLands DEF ReleaseUnlinks, Ends, Owes, Moves, TypeOK
  <2>2. /\ \A q \in Procs : q # p => io[q] = NoIO /\ pc[q] \notin Serving
        /\ dio = NoIO /\ desk.at # "reissue"
    BY <2>1, QuietFacts DEF Serving
  <2>3. \A q \in Procs : pc'[q] \notin Serving /\ io'[q] = NoIO
    BY <1>0, <2>1, <2>2 DEF Serving, TypeOK
  <2>4. OwnerServes' /\ WritesRepeat' /\ DeskWaits' /\ Obeys'
    BY <1>0, <2>1, <2>2, <2>3 DEF OwnerServes, WritesRepeat, DeskWaits, Obeys, Serving
  <2>. QED  BY <2>1, <2>4 DEF Timely
<1>. QED  BY <1>1, <1>2, <1>3, <1>4, <1>5, <1>6, <1>7, <1>8, <1>9, <1>10 DEF ProcStep

\* A timeout comes at a poll that finds the request still there, two periods
\* after it was placed.
OffDuty ==
    desk.answer # "timeout" /\ desk'.answer = "timeout" =>
        file # NoOwner /\ pc[file.holder] \in {"create", "stopping"}

LEMMA TimelyDesk ==
    ASSUME LeaseInv, Timely, hz = {}, DeskStep \/ OpenCancelled
    PROVE  Timely' /\ OffDuty
<1>0. /\ TypeOK /\ KidStarts /\ desk \in Desks
      /\ OwnerServes /\ WritesRepeat /\ DeskWaits /\ Obeys
  BY DEF LeaseInv, TypeInv, TypeOK, Desks, Requests, Timely
<1>1. CASE StealReads
  <2>1. DeskMayRead /\ UNCHANGED <<file, io, pc, gen, due, hz>>
        /\ desk.at \in {"steal", "reissue"}
    BY <1>1 DEF StealReads
  <2>2. \A p \in Procs : io[p] = NoIO
    BY <2>1 DEF DeskMayRead
  <2>3. CASE file # NoOwner /\ IsLive(file)
    <3>1. desk' = desk /\ dio' = [file EXCEPT !.steal = TRUE]
      BY <1>1, <2>3 DEF StealReads
    <3>2. dio'.gen = file.gen
      BY <1>0, <2>3, <3>1 DEF TypeOK, Owners
    <3>3. OwnerServes' /\ WritesRepeat' /\ DeskWaits' /\ Obeys'
      BY <1>0, <2>1, <2>2, <3>1, <3>2 DEF OwnerServes, WritesRepeat, DeskWaits, Obeys, TypeOK
    <3>. QED  BY <2>1, <3>1, <3>3 DEF Timely, OffDuty
  <2>4. CASE ~(file # NoOwner /\ IsLive(file))
    <3>1. desk.at = "steal"
      <4>1. CASE desk.at = "reissue"
        <5>1. file \in Owners /\ file.holder \in Procs
          BY <1>0, <4>1 DEF DeskWaits, TypeOK, Owners
        <5>2. pc[file.holder] \in Serving
          BY <1>0, <5>1, SessionLeaseAssumption DEF OwnerServes
        <5>. QED  BY <2>4, <5>1, <5>2, QuietFacts, SessionLeaseAssumption DEF IsLive
      <4>. QED  BY <2>1, <4>1
    <3>2. desk' = StealFails(desk) /\ dio' = dio
      BY <1>1, <2>4 DEF StealReads
    <3>3. desk'.at = "respawn" /\ desk'.answer = desk.answer
      BY <1>0, <3>1, <3>2, StealFailsType
    <3>4. OwnerServes' /\ WritesRepeat' /\ DeskWaits' /\ Obeys'
      BY <1>0, <2>1, <3>2, <3>3 DEF OwnerServes, WritesRepeat, DeskWaits, Obeys
    <3>. QED  BY <2>1, <3>3, <3>4 DEF Timely, OffDuty
  <2>. QED  BY <2>3, <2>4
<1>2. CASE StealWrites
  <2>1. /\ UNCHANGED <<io, pc, gen, due, hz>> /\ file' = dio /\ dio \in Owners /\ dio' = NoIO
        /\ desk.at \in {"steal", "reissue"}
    BY <1>0, <1>2 DEF StealWrites, TypeOK
  <2>2. /\ \A p \in Procs : io[p] = NoIO
        /\ file \in Owners /\ dio.holder = file.holder /\ dio.gen = file.gen
        /\ file # NoOwner /\ dio # NoOwner /\ file.holder \in Procs
    BY <1>0, <2>1, QuietFacts, SessionLeaseAssumption DEF WritesRepeat, Owners
  <2>3. IF desk.waited = Wait THEN desk'.at = "rescind"
        ELSE desk'.at = "poll" /\ desk'.waited = desk.waited /\ desk'.answer = desk.answer
    <3>. DEFINE d == [desk EXCEPT !.asked = TRUE]
    <3>1. d \in Desks /\ d.asked /\ d.waited = desk.waited /\ d.answer = desk.answer
      BY <1>0 DEF Desks
    <3>2. desk' = PollAgain(d)
      BY <1>2 DEF StealWrites
    <3>. HIDE DEF d
    <3>. QED  BY <3>1, <3>2, PollAgainType DEF LeavesTo
  <2>4. \A p \in Procs : pc[p] \in Serving => file.holder = p
    BY QuietFacts
  <2>5. OwnerServes' /\ WritesRepeat' /\ DeskWaits'
    BY <1>0, <2>1, <2>2, <2>3 DEF OwnerServes, WritesRepeat, DeskWaits
  <2>6. desk.waited = 0 \/ (desk.at = "reissue" /\ file.steal)
    BY <1>0, <2>1 DEF DeskWaits
  <2>7. Obeys'
    BY <1>0, <2>1, <2>2, <2>3, <2>6 DEF Obeys
  <2>8. OffDuty
    <3>. SUFFICES ASSUME desk.waited = Wait
                  PROVE  pc[file.holder] \in {"create", "stopping"}
      BY <2>2, <2>3 DEF OffDuty
    <3>1. desk.at = "reissue" /\ file.steal
      BY <2>6 DEF Wait
    <3>2. pc[file.holder] # "up" /\ pc[file.holder] # "refuse"
      BY <1>0, <2>2, <3>1 DEF Obeys, Wait
    <3>. QED  BY <1>0, <2>2, <3>2 DEF OwnerServes, Serving
  <2>. QED  BY <2>1, <2>5, <2>7, <2>8 DEF Timely
<1>3. CASE PollReads \/ OpenCancelled
  <2>1. UNCHANGED <<file, io, pc, gen, due, dio, hz>> /\ desk.at = "poll"
    BY <1>3 DEF PollReads, OpenCancelled
  <2>2. \/ /\ desk'.at = "reissue" /\ desk'.waited = desk.waited /\ desk'.answer = desk.answer
           /\ file # NoOwner /\ file.steal
        \/ desk'.at = "respawn" /\ desk'.answer = desk.answer
        \/ desk'.at \in {"rescind", "done"} /\ desk'.answer \in {"busy", "cancelled"}
    <3>1. \/ desk' = [desk EXCEPT !.at = "reissue"] /\ file # NoOwner /\ file.steal
          \/ desk' = [desk EXCEPT !.at = "respawn"]
          \/ \E answer \in {"busy", "cancelled"} : desk' = Leaves(desk, answer)
      BY <1>0, <1>3 DEF PollReads, OpenCancelled, TypeOK, Owners
    <3>2. ASSUME NEW answer \in {"busy", "cancelled"}, desk' = Leaves(desk, answer)
          PROVE  desk'.at \in {"rescind", "done"} /\ desk'.answer = answer
      BY <1>0, <3>2, Answering DEF LeavesTo
    <3>. QED  BY <1>0, <3>1, <3>2 DEF Desks
  <2>3. OwnerServes' /\ WritesRepeat' /\ DeskWaits' /\ Obeys'
    BY <1>0, <2>1, <2>2 DEF OwnerServes, WritesRepeat, DeskWaits, Obeys
  <2>. QED  BY <2>1, <2>2, <2>3 DEF Timely, OffDuty
<1>4. ASSUME NEW w \in Wires, Respawn(w) PROVE Timely' /\ OffDuty
  <2>1. /\ UNCHANGED <<file, io, gen, due, dio, hz>> /\ w \in Procs /\ pc[w] = "off"
        /\ pc'[w] = "start" /\ \A q \in Procs : q # w => pc'[q] = pc[q]
        /\ desk'.at = "respawning" /\ desk'.answer = desk.answer
    BY <1>0, <1>4 DEF Respawn, Spawns, Moves, Procs, TypeOK
  <2>2. io[w] = NoIO /\ Waits(desk')
    BY <1>0, <2>1 DEF Waits, LeaseInv, TypeInv, WritesOwn, TypeOK
  <2>3. Timely'
    BY <2>1, <2>2, MovesTimely DEF Serving
  <2>. QED  BY <2>1, <2>3 DEF OffDuty
<1>5. CASE RescindReads
  <2>1. /\ DeskMayRead /\ UNCHANGED <<file, io, pc, gen, due, hz>> /\ desk.at = "rescind"
        /\ desk'.at \in {"rescind", "done"} /\ desk'.answer = desk.answer
    BY <1>0, <1>5, OverType DEF RescindReads
  <2>2. dio' = dio \/ (file # NoOwner /\ dio' = [file EXCEPT !.steal = FALSE])
    BY <1>5 DEF RescindReads
  <2>3. dio' # NoIO => dio'.gen = file.gen
    BY <1>0, <2>2 DEF WritesRepeat, TypeOK, Owners
  <2>4. OwnerServes' /\ WritesRepeat' /\ DeskWaits' /\ Obeys'
    BY <1>0, <2>1, <2>3 DEF OwnerServes, WritesRepeat, DeskWaits, Obeys
  <2>. QED  BY <2>1, <2>4 DEF Timely, OffDuty
<1>6. CASE RescindWrites
  <2>1. /\ UNCHANGED <<io, pc, gen, due, hz>> /\ file' = dio /\ dio \in Owners /\ dio' = NoIO
        /\ desk'.at = "done" /\ desk'.answer = desk.answer
    BY <1>0, <1>6, OverType DEF RescindWrites, Lands, TypeOK
  <2>2. /\ \A p \in Procs : io[p] = NoIO
        /\ dio.holder = file.holder /\ dio.gen = file.gen
        /\ file # NoOwner /\ dio # NoOwner
    BY <1>0, <2>1, QuietFacts, SessionLeaseAssumption DEF WritesRepeat
  <2>3. OwnerServes' /\ WritesRepeat' /\ DeskWaits' /\ Obeys'
    BY <1>0, <2>1, <2>2 DEF OwnerServes, WritesRepeat, DeskWaits, Obeys
  <2>. QED  BY <2>1, <2>3 DEF Timely, OffDuty
<1>. QED  BY <1>1, <1>2, <1>3, <1>4, <1>5, <1>6 DEF DeskStep

LEMMA TimelyTick ==
    ASSUME LeaseInv, Timely, hz = {}, Tick
    PROVE  Timely' /\ OffDuty
<1>0. /\ TypeOK
      /\ OwnerServes /\ WritesRepeat /\ DeskWaits /\ Obeys
  BY DEF LeaseInv, TypeInv, Timely
<1>1. /\ \A p \in Procs : io[p] = NoIO /\ pc[p] # "refuse" /\ ~(pc[p] = "up" /\ due[p])
      /\ dio = NoIO /\ UNCHANGED <<pc, gen, dio, hz>>
      /\ \A p \in Procs : pc[p] = "up" => due'[p]
      /\ desk.at \notin {"steal", "reissue"}
      /\ desk'.at = desk.at /\ desk'.answer = desk.answer
      /\ IF desk.at = "poll" THEN desk.waited < Wait /\ desk'.waited = desk.waited + 1
                             ELSE desk'.waited = desk.waited
  BY <1>0 DEF Tick, InTime, TypeOK
<1>2. \A p \in Procs : io'[p] = NoIO
  BY <1>1 DEF Tick, Older
<1>3. /\ file' # NoOwner <=> file # NoOwner
      /\ file # NoOwner => /\ file'.holder = file.holder /\ file'.gen = file.gen
                           /\ file'.steal = file.steal
  BY <1>0, OlderType DEF Tick, Older, TypeOK, Owners
<1>4. file # NoOwner \/ \A p \in Procs : pc[p] \notin Serving
  BY QuietFacts, SessionLeaseAssumption
<1>5. OwnerServes'
  BY <1>0, <1>1, <1>3, <1>4 DEF OwnerServes, Serving
<1>6. WritesRepeat' /\ DeskWaits'
  BY <1>0, <1>1, <1>2, SessionLeaseAssumption DEF WritesRepeat, DeskWaits
<1>7. Obeys'
  <2>. SUFFICES ASSUME desk'.at \in {"poll", "reissue"}, file' # NoOwner, file'.steal,
                       NEW p \in Procs, pc'[p] = "up" \/ pc'[p] = "refuse"
                PROVE  pc'[p] = "up" /\ desk'.waited = 1 /\ due'[p]
    BY DEF Obeys
  <2>1. pc[p] = "up" /\ desk.at = "poll" /\ file # NoOwner /\ file.steal
    BY <1>1, <1>3
  <2>2. desk.waited = 0
    BY <1>0, <1>1, <2>1 DEF Obeys
  <2>. QED  BY <1>1, <2>1, <2>2
<1>. QED  BY <1>1, <1>5, <1>6, <1>7 DEF Timely, OffDuty

LEMMA TimelyEnvironment ==
    ASSUME LeaseInv, Timely, hz = {}, Environment
    PROVE  Timely' /\ OffDuty
<1>0. TypeOK /\ WritesOwn /\ DeskWaits /\ Waits(desk)
  BY DEF LeaseInv, TypeInv, Timely, Waits, DeskWaits
<1>1. ASSUME NEW p \in Procs,
             Launch(p) \/ TurnBegins(p) \/ TurnEnds(p) \/ Quit(p) \/ Crash(p)
      PROVE  Timely' /\ OffDuty
  <2>1. /\ UNCHANGED <<file, io, gen, desk, dio, hz>>
        /\ \A q \in Procs : due'[q] = due[q] \/ pc'[q] # "up"
        /\ \A q \in Procs : q # p => pc'[q] = pc[q]
        /\ \/ pc'[p] = pc[p]
           \/ pc[p] = "off" /\ pc'[p] = "start"
           \/ pc[p] = "up" /\ pc'[p] = "stopping" /\ io[p] = NoIO
    BY <1>0, <1>1 DEF Launch, TurnBegins, TurnEnds, Quit, Crash, Moves, TypeOK
  <2>2. pc[p] = "off" => io[p] = NoIO
    BY <1>0 DEF WritesOwn, TypeOK
  <2>3. Timely'
    BY <1>0, <2>1, <2>2, MovesTimely DEF Serving
  <2>. QED  BY <2>1, <2>3 DEF OffDuty
<1>2. ASSUME NEW w \in Wires, NEW takeover \in BOOLEAN, OpenBegins(w, takeover)
      PROVE  Timely' /\ OffDuty
  <2>1. /\ UNCHANGED <<file, io, gen, due, dio, hz>> /\ w \in Procs /\ pc[w] = "off"
        /\ pc'[w] = "start" /\ \A q \in Procs : q # w => pc'[q] = pc[q]
        /\ desk'.at = "spawning" /\ desk'.waited = 0 /\ desk'.answer = "none"
    BY <1>0, <1>2 DEF OpenBegins, Spawns, Moves, Procs, TypeOK
  <2>2. io[w] = NoIO /\ Waits(desk')
    BY <1>0, <2>1 DEF Waits, WritesOwn, TypeOK
  <2>3. Timely'
    BY <2>1, <2>2, MovesTimely DEF Serving
  <2>. QED  BY <2>1, <2>3 DEF OffDuty
<1>. QED  BY <1>1, <1>2, TimelyDesk DEF Environment

LEMMA TimelyInit == Init => Timely
  BY DEF Init, Timely, OwnerServes, WritesRepeat, DeskWaits, Obeys

LEMMA TimelyNext ==
    LeaseInv /\ Timely /\ [Next]_vars => Timely' /\ (hz = {} => OffDuty)
<1>. SUFFICES ASSUME LeaseInv, Timely, [Next]_vars PROVE Timely' /\ (hz = {} => OffDuty)
  OBVIOUS
<1>1. hz' = hz
  BY DEF Next, ProcStep, DeskStep, Environment, vars, StartReads, StartWrites, ServeReads,
         ServeWrites, HeartbeatReads, HeartbeatWrites, RefuseReads, RefuseWrites,
         ReleaseReads, ReleaseUnlinks, StealReads, StealWrites, PollReads, RescindReads,
         RescindWrites, Respawn, Spawns, Launch, TurnBegins, TurnEnds, Quit, Crash,
         OpenBegins, OpenCancelled, Tick
<1>. SUFFICES ASSUME hz = {} PROVE Timely' /\ OffDuty
  BY <1>1 DEF Timely
<1>2. CASE UNCHANGED vars
  BY <1>2 DEF vars, Timely, OffDuty, OwnerServes, WritesRepeat, DeskWaits, Obeys
<1>3. ASSUME NEW p \in Procs, ProcStep(p) PROVE Timely' /\ OffDuty
  BY <1>3, TimelyProcess DEF OffDuty
<1>. QED  BY <1>2, <1>3, TimelyDesk, TimelyTick, TimelyEnvironment DEF Next

\* When nothing goes wrong, a takeover that runs into its deadline found an
\* owner that was only starting or already leaving: one that serves reads the
\* request at its next heartbeat and steps aside or refuses within a period.
THEOREM TimeoutsOffDuty == Spec => TimeoutOnlyOffDuty
<1>. DEFINE Inv == LeaseInv /\ Timely
<1>1. Init => Inv
  BY TypeInit, PendingInit, OwningInit, RequestsInit, TimelyInit DEF LeaseInv
<1>2. Inv /\ [Next]_vars => Inv'
  BY TypeNext, PendingNext, OwningNext, RequestsNext, TimelyNext DEF LeaseInv
<1>3. Inv /\ [Next]_vars =>
         (hz = {} /\ desk.answer # "timeout" /\ desk'.answer = "timeout" =>
             file # NoOwner /\ pc[file.holder] \in {"create", "stopping"})
  BY TimelyNext DEF OffDuty
<1>. QED  BY <1>1, <1>2, <1>3, PTL DEF Spec, TimeoutOnlyOffDuty

=============================================================================
