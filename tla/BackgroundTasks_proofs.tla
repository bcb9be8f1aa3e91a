----------------------- MODULE BackgroundTasks_proofs -----------------------
(***************************************************************************)
(* Theorems about BackgroundTasks, for any number of tasks, of approvals   *)
(* and of faults: what becomes of runtime.json between the manager, the    *)
(* worker, the runner of an agent and its threads.                         *)
(***************************************************************************)
EXTENDS BackgroundTasks, Subsequences_proofs, FiniteSetTheorems, TLAPS

USE BackgroundTasksAssumption

-----------------------------------------------------------------------------
(* Types of what the writers of runtime.json keep.                         *)

\* What runtime.json may hold: an ended task has the time it ended at.
Records == {r \in Runtimes : IsTerminal(r) => r.finished}

MarkStatus == {"awaiting_approval", "running", "answered"}
Marks == {m \in [status : MarkStatus, io : {r \in Records : r.status \in Active} \cup {NoIO}] :
             m.status = "answered" => m.io = NoIO}

ManagerPlaces == {"idle", "create", "wire", "llm", "down", "start"}
Delivering == {"wire", "llm", "start"}

ManagerTypes ==
    /\ mgr = [at |-> mgr.at, task |-> mgr.task, io |-> mgr.io, stale |-> mgr.stale]
    /\ mgr.at \in ManagerPlaces
    /\ mgr.at = "create" =>
          /\ mgr.task \in Tasks /\ kind[mgr.task] = "bash"
          /\ mgr.io = NoIO \/ (mgr.io \in Records /\ mgr.io.status = "starting")
    /\ mgr.at \in Delivering =>
          /\ mgr.stale \subseteq Tasks
          /\ \A t \in Tasks : mgr.io[t] \in Records

BashTypes ==
    /\ kind \in [Tasks -> {"bash", "agent"}]
    /\ rt = [t \in Tasks |-> rt[t]]
    /\ \A t \in Tasks : rt[t] \in Records
    /\ known \in [Tasks -> Records]
    /\ wio \in [Tasks -> Records \cup {NoIO}]
    /\ worker \in [Tasks -> WorkerPlaces]
    /\ \A t \in Tasks : worker[t] # "off" => kind[t] = "bash"
    /\ \A t \in Tasks : wio[t] # NoIO => worker[t] \in {"launched", "spawned", "running"}
    /\ child \in [Tasks -> [life : {"none", "alive", "succeeded", "failed"},
                            signal : {"none", "term", "kill"}]]

AgentTypes ==
    /\ agent \in [Tasks -> AgentPlaces]
    /\ pending \in [Tasks -> Nat]
    /\ \A t \in Tasks : agent[t] # "off" => kind[t] = "agent"
    /\ marks = [t \in Tasks |-> marks[t]]
    /\ \A t \in Tasks : kind[t] = "bash" => marks[t] = <<>> /\ pending[t] = 0
    /\ \A t \in Tasks : marks[t] \in Seq(Marks)

Types == BashTypes /\ AgentTypes /\ ManagerTypes

LEMMA RecordTypes ==
    ASSUME NEW r \in Records, NEW status \in Active \cup Ends
    PROVE  /\ status \in Active => Status(r, status) \in Records
           /\ Status(r, status).status = status
           /\ Finished(r, status) \in Records
           /\ Finished(r, status).status = status
           /\ [Finished(r, status) EXCEPT !.timedOut = TRUE] \in Records
           /\ [Finished(r, status) EXCEPT !.timedOut = TRUE].status = status
           /\ status \in Active => [r EXCEPT !.status = status, !.child = TRUE] \in Records
           /\ [r EXCEPT !.status = status, !.child = TRUE].status = status
  BY DEF Status, Finished, Records, Runtimes, IsTerminal, Active, Ends

LEMMA NoRecordType == NoRuntime \in Records /\ NoRuntime.status = "none"
  BY DEF NoRuntime, Records, Runtimes, IsTerminal, Ends

LEMMA NotARecord == NoIO \notin Records
  BY DEF Records

LEMMA MarkedType ==
    ASSUME BashTypes, NEW t \in Tasks, NEW r \in Records
    PROVE  /\ MarkedAs(t, r) \in Records
           /\ IsTerminal(rt[t]) => MarkedAs(t, r) = rt[t]
           /\ ~IsTerminal(rt[t]) => MarkedAs(t, r) = r
  BY DEF MarkedAs, BashTypes

\* A sequence of marks with one more, one less, or only those begun.
LEMMA MarkSequences ==
    ASSUME NEW ms \in Seq(Marks)
    PROVE  /\ \A m \in Marks :
                 /\ Append(ms, m) \in Seq(Marks) /\ Len(Append(ms, m)) = Len(ms) + 1
                 /\ \A j \in DOMAIN Append(ms, m) :
                       Append(ms, m)[j] = m \/ \E k \in DOMAIN ms : Append(ms, m)[j] = ms[k]
           /\ \A i \in DOMAIN ms :
                 /\ RemoveAt(ms, i) \in Seq(Marks) /\ Len(RemoveAt(ms, i)) = Len(ms) - 1
                 /\ \A j \in DOMAIN RemoveAt(ms, i) :
                       \E k \in DOMAIN ms : RemoveAt(ms, i)[j] = ms[k]
<1>0. Len(ms) \in Nat /\ DOMAIN ms = 1..Len(ms) /\ \A j \in 1..Len(ms) : ms[j] \in Marks
  BY LenProperties, ElementOfSeq
<1>1. ASSUME NEW m \in Marks
      PROVE  /\ Append(ms, m) \in Seq(Marks) /\ Len(Append(ms, m)) = Len(ms) + 1
             /\ \A j \in DOMAIN Append(ms, m) :
                   Append(ms, m)[j] = m \/ \E k \in DOMAIN ms : Append(ms, m)[j] = ms[k]
  BY <1>0, AppendProperties
<1>2. ASSUME NEW i \in DOMAIN ms
      PROVE  /\ RemoveAt(ms, i) \in Seq(Marks) /\ Len(RemoveAt(ms, i)) = Len(ms) - 1
             /\ \A j \in DOMAIN RemoveAt(ms, i) :
                   \E k \in DOMAIN ms : RemoveAt(ms, i)[j] = ms[k]
  <2>. DEFINE left == SubSeq(ms, 1, i - 1)
              right == SubSeq(ms, i + 1, Len(ms))
              both == left \o right
  <2>1. i \in 1..Len(ms)
    BY <1>0
  <2>2. /\ left \in Seq(Marks) /\ Len(left) = i - 1
        /\ \A j \in 1..(i - 1) : left[j] = ms[j]
    BY <1>0, <2>1, SubSeqProperties
  <2>3. /\ right \in Seq(Marks) /\ Len(right) = Len(ms) - i
        /\ \A j \in 1..(Len(ms) - i) : right[j] = ms[i + j]
    BY <1>0, <2>1, SubSeqProperties
  <2>4. RemoveAt(ms, i) = both
    BY DEF RemoveAt
  <2>. HIDE DEF left, right
  <2>5. /\ both \in Seq(Marks)
        /\ Len(both) = Len(left) + Len(right)
        /\ \A j \in 1..(Len(left) + Len(right)) : both[j] =
              IF j <= Len(left) THEN left[j] ELSE right[j - Len(left)]
    BY <2>2, <2>3, ConcatProperties
  <2>. HIDE DEF both
  <2>6. Len(left) + Len(right) = Len(ms) - 1
    BY <1>0, <2>1, <2>2, <2>3
  <2>7. DOMAIN both = 1..(Len(ms) - 1)
    BY <2>5, <2>6, LenProperties
  <2>8. ASSUME NEW j \in 1..(Len(ms) - 1)
        PROVE  \E k \in DOMAIN ms : both[j] = ms[k]
    <3>1. CASE j <= i - 1
      <4>1. j \in 1..(i - 1) /\ j \in DOMAIN ms
        BY <1>0, <2>1, <3>1
      <4>2. both[j] = left[j]
        BY <2>2, <2>5, <2>6, <3>1
      <4>. QED  BY <2>2, <4>1, <4>2
    <3>2. CASE ~(j <= i - 1)
      <4>1. both[j] = right[j - (i - 1)]
        BY <2>2, <2>5, <2>6, <3>2
      <4>2. j - (i - 1) \in 1..(Len(ms) - i) /\ i + (j - (i - 1)) = j + 1
        BY <1>0, <2>1, <3>2
      <4>3. j + 1 \in DOMAIN ms
        BY <1>0
      <4>. QED  BY <2>3, <4>1, <4>2, <4>3
    <3>. QED  BY <3>1, <3>2
  <2>. QED  BY <2>4, <2>5, <2>6, <2>7, <2>8
<1>. QED  BY <1>1, <1>2

LEMMA BegunMarks ==
    ASSUME NEW D, NEW ms \in Seq(D)
    PROVE  /\ Begun(ms) \in Seq(D) /\ Len(Begun(ms)) <= Len(ms)
           /\ (\A i \in DOMAIN ms : ms[i].io = NoIO) => Begun(ms) = <<>>
<1>. DEFINE S == {m \in ToSet(ms) : m.io # NoIO}
<1>1. Begun(ms) = Kept(ms, S)
  BY DEF Begun
<1>2. (\A i \in DOMAIN ms : ms[i].io = NoIO) => ToSet(ms) \cap S = {}
  BY DEF ToSet
<1>. HIDE DEF S
<1>. QED  BY <1>1, <1>2, KeptElements, KeptNone

-----------------------------------------------------------------------------
(* Types are kept.                                                         *)

LEMMA OthersKept ==
    ASSUME Types, UNCHANGED <<kind, hz>>
    PROVE  /\ mgr' = mgr => ManagerTypes'
           /\ UNCHANGED <<agent, marks, pending>> => AgentTypes'
           /\ UNCHANGED <<rt, known, wio, worker>> /\ child' \in [Tasks ->
                 [life : {"none", "alive", "succeeded", "failed"},
                  signal : {"none", "term", "kill"}]] => BashTypes'
<1>1. ASSUME mgr' = mgr PROVE ManagerTypes'
  BY <1>1 DEF Types, ManagerTypes
<1>2. ASSUME UNCHANGED <<agent, marks, pending>> PROVE AgentTypes'
  BY <1>2 DEF Types, AgentTypes
<1>3. ASSUME UNCHANGED <<rt, known, wio, worker>>,
             child' \in [Tasks -> [life : {"none", "alive", "succeeded", "failed"},
                                   signal : {"none", "term", "kill"}]]
      PROVE  BashTypes'
  BY <1>3 DEF Types, BashTypes
<1>. QED  BY <1>1, <1>2, <1>3

\* A step of a worker, or of a bash task otherwise, leaves the others alone.
LEMMA BashStepTypes ==
    ASSUME Types, NEW t \in Tasks, kind[t] = "bash",
           rt' = rt \/ \E r \in Records : rt' = [rt EXCEPT ![t] = r],
           known' = known \/ \E k \in Records : known' = [known EXCEPT ![t] = k],
           \E w \in Records \cup {NoIO}, place \in WorkerPlaces :
              /\ wio' = [wio EXCEPT ![t] = w] /\ worker' = [worker EXCEPT ![t] = place]
              /\ w # NoIO => place \in {"launched", "spawned", "running"},
           child' \in [Tasks -> [life : {"none", "alive", "succeeded", "failed"},
                                 signal : {"none", "term", "kill"}]],
           mgr' = mgr \/ ManagerTypes',
           UNCHANGED <<kind, agent, marks, pending, hz>>
    PROVE  Types'
<1>1. BashTypes'
  <2>0. PICK w \in Records \cup {NoIO}, place \in WorkerPlaces :
              /\ wio' = [wio EXCEPT ![t] = w] /\ worker' = [worker EXCEPT ![t] = place]
              /\ w # NoIO => place \in {"launched", "spawned", "running"}
    OBVIOUS
  <2>1. /\ rt' = [u \in Tasks |-> rt'[u]]
        /\ \A u \in Tasks : rt'[u] = rt[u] \/ rt'[u] \in Records
    BY DEF Types, BashTypes
  <2>2. known' \in [Tasks -> Records] /\ wio' \in [Tasks -> Records \cup {NoIO}]
           /\ worker' \in [Tasks -> WorkerPlaces]
    BY <2>0 DEF Types, BashTypes
  <2>3. \A u \in Tasks : rt'[u] \in Records
    BY <2>1 DEF Types, BashTypes
  <2>4. \A u \in Tasks : /\ u # t => worker'[u] = worker[u] /\ wio'[u] = wio[u]
                         /\ worker'[t] = place /\ wio'[t] = w
    BY <2>0 DEF Types, BashTypes
  <2>5. \A u \in Tasks : /\ worker'[u] # "off" => kind[u] = "bash"
                         /\ wio'[u] # NoIO => worker'[u] \in {"launched", "spawned", "running"}
    BY <2>0, <2>4 DEF Types, BashTypes
  <2>. QED  BY <2>1, <2>2, <2>3, <2>5 DEF Types, BashTypes
<1>. QED  BY <1>1, OthersKept DEF Types

LEMMA WorkerTypes ==
    ASSUME Types, NEW t \in Tasks,
           \/ WorkerReads(t) \/ WorkerWrites(t) \/ WorkerStartsCommand(t)
           \/ Terminates(t) \/ WorkerCloses(t) \/ TimesOut(t) \/ ChildEnds(t)
           \/ WorkerCrashes(t) \/ KillBash(t)
    PROVE  Types'
<1>0. /\ child \in [Tasks -> [life : {"none", "alive", "succeeded", "failed"},
                              signal : {"none", "term", "kill"}]]
      /\ wio \in [Tasks -> Records \cup {NoIO}] /\ worker \in [Tasks -> WorkerPlaces]
      /\ worker[t] # "off" => kind[t] = "bash" /\ rt[t] \in Records
      /\ known[t] \in Records /\ NoIO \notin Records
  BY NotARecord DEF Types, BashTypes
<1>1. CASE WorkerReads(t)
  <2>1. worker[t] \in {"launched", "spawned", "running"} /\ rt[t] \in Records
    BY <1>0, <1>1 DEF WorkerReads
  <2>2. /\ Status(rt[t], "starting") \in Records
        /\ Finished(rt[t], "failed") \in Records
        /\ [rt[t] EXCEPT !.status = "running", !.child = TRUE] \in Records
    BY <2>1, RecordTypes DEF Active, Ends
  <2>3. \E w \in Records \cup {NoIO} : wio' = [wio EXCEPT ![t] = w]
    BY <1>1, <2>1, <2>2 DEF WorkerReads, WorkerOwes
  <2>4. UNCHANGED <<kind, rt, worker, known, child, agent, marks, pending, mgr, hz>>
    BY <1>1 DEF WorkerReads, agentVars
  <2>5. worker' = [worker EXCEPT ![t] = worker[t]] /\ worker[t] \in WorkerPlaces
    BY <1>0, <2>4
  <2>6. \E w \in Records \cup {NoIO}, place \in WorkerPlaces :
              /\ wio' = [wio EXCEPT ![t] = w] /\ worker' = [worker EXCEPT ![t] = place]
              /\ w # NoIO => place \in {"launched", "spawned", "running"}
    BY <2>1, <2>3, <2>5
  <2>. QED  BY <1>0, <2>1, <2>4, <2>6, BashStepTypes
<1>2. CASE WorkerWrites(t)
  <2>1. /\ worker[t] \in {"launched", "spawned", "running"} /\ kind[t] = "bash"
        /\ wio[t] \in Records
    BY <1>2 DEF WorkerWrites, Types, BashTypes
  <2>2. /\ \E r \in Records : rt' = [rt EXCEPT ![t] = r]
        /\ wio' = [wio EXCEPT ![t] = NoIO]
        /\ \E place \in WorkerPlaces : worker' = [worker EXCEPT ![t] = place]
        /\ \E k \in Records : known' = [known EXCEPT ![t] = k]
        /\ UNCHANGED <<kind, child, agent, marks, pending, mgr, hz>>
    BY <1>0, <1>2, <2>1 DEF WorkerWrites, WorkerOwes, WorkerGoes, Writes, agentVars,
                            WorkerPlaces
  <2>3. \E w \in Records \cup {NoIO}, place \in WorkerPlaces :
              /\ wio' = [wio EXCEPT ![t] = w] /\ worker' = [worker EXCEPT ![t] = place]
              /\ w # NoIO => place \in {"launched", "spawned", "running"}
    BY <2>2
  <2>. QED  BY <1>0, <2>1, <2>2, <2>3, BashStepTypes
<1>3. CASE WorkerStartsCommand(t)
  <2>1. worker[t] = "started" /\ rt[t] \in Records /\ wio[t] = NoIO
    BY <1>0, <1>3 DEF WorkerStartsCommand, Types, BashTypes
  <2>2. Finished(Status(rt[t], "starting"), "killed") \in Records
    BY <2>1, RecordTypes DEF Active, Ends
  <2>3. /\ rt' = rt \/ rt' = [rt EXCEPT ![t] = Finished(Status(rt[t], "starting"), "killed")]
        /\ \E place \in WorkerPlaces : worker' = [worker EXCEPT ![t] = place]
        /\ child' = child \/ child' = [child EXCEPT ![t].life = "alive"]
        /\ UNCHANGED <<kind, known, wio, agent, marks, pending, mgr, hz>>
    BY <1>3 DEF WorkerStartsCommand, WorkerGoes, Writes, agentVars, WorkerPlaces
  <2>4. child' \in [Tasks -> [life : {"none", "alive", "succeeded", "failed"},
                              signal : {"none", "term", "kill"}]]
    BY <1>0, <2>3
  <2>5. wio' = [wio EXCEPT ![t] = NoIO]
    BY <1>0, <2>1, <2>3
  <2>6. \E w \in Records \cup {NoIO}, place \in WorkerPlaces :
              /\ wio' = [wio EXCEPT ![t] = w] /\ worker' = [worker EXCEPT ![t] = place]
              /\ w # NoIO => place \in {"launched", "spawned", "running"}
    BY <2>3, <2>5
  <2>7. rt' = rt \/ \E r \in Records : rt' = [rt EXCEPT ![t] = r]
    BY <2>2, <2>3
  <2>. QED  BY <1>0, <2>1, <2>3, <2>4, <2>6, <2>7, BashStepTypes
<1>4. CASE WorkerCloses(t)
  <2>1. worker[t] = "running" /\ wio[t] = NoIO
    BY <1>4 DEF WorkerCloses
  <2>2. WorkerEnd(t) \in Records
    BY <1>0, RecordTypes DEF WorkerEnd, Active, Ends
  <2>3. /\ rt' = [rt EXCEPT ![t] = WorkerEnd(t)]
        /\ worker' = [worker EXCEPT ![t] = "gone"]
        /\ UNCHANGED <<kind, known, wio, child, agent, marks, pending, mgr, hz>>
    BY <1>4 DEF WorkerCloses, WorkerGoes, Writes, agentVars
  <2>4. wio' = [wio EXCEPT ![t] = NoIO]
    BY <1>0, <2>1, <2>3
  <2>5. \E w \in Records \cup {NoIO}, place \in WorkerPlaces :
              /\ wio' = [wio EXCEPT ![t] = w] /\ worker' = [worker EXCEPT ![t] = place]
              /\ w # NoIO => place \in {"launched", "spawned", "running"}
    BY <2>3, <2>4 DEF WorkerPlaces
  <2>6. \E r \in Records : rt' = [rt EXCEPT ![t] = r]
    BY <2>2, <2>3
  <2>. QED  BY <1>0, <2>1, <2>3, <2>5, <2>6, BashStepTypes
<1>5. CASE WorkerCrashes(t)
  <2>1. /\ worker' = [worker EXCEPT ![t] = "gone"]
        /\ wio' = [wio EXCEPT ![t] = NoIO]
        /\ worker[t] # "off"
        /\ UNCHANGED <<kind, rt, known, child, agent, marks, pending, mgr, hz>>
    BY <1>5 DEF WorkerCrashes, WorkerGoes, WorkerOwes, agentVars
  <2>2. \E w \in Records \cup {NoIO}, place \in WorkerPlaces :
              /\ wio' = [wio EXCEPT ![t] = w] /\ worker' = [worker EXCEPT ![t] = place]
              /\ w # NoIO => place \in {"launched", "spawned", "running"}
    BY <2>1 DEF WorkerPlaces
  <2>. QED  BY <1>0, <2>1, <2>2, BashStepTypes
<1>6. CASE Terminates(t) \/ TimesOut(t) \/ ChildEnds(t) \/ KillBash(t)
  <2>1. UNCHANGED <<kind, rt, worker, known, wio, agent, marks, pending, mgr, hz>>
    BY <1>6 DEF Terminates, TimesOut, ChildEnds, KillBash, agentVars
  <2>2. child' \in [Tasks -> [life : {"none", "alive", "succeeded", "failed"},
                              signal : {"none", "term", "kill"}]]
    BY <1>0, <1>6 DEF Terminates, TimesOut, ChildEnds, KillBash, Signalled
  <2>. QED  BY <2>1, <2>2, OthersKept DEF Types
<1>. QED  BY <1>1, <1>2, <1>3, <1>4, <1>5, <1>6

\* A step of an agent task leaves the bash tasks and the manager alone.
LEMMA AgentStepTypes ==
    ASSUME Types, NEW t \in Tasks, kind[t] = "agent", NEW r, NEW place \in AgentPlaces,
           NEW ms,
           r \in Records,
           ms \in Seq(Marks),
           rt' = rt \/ rt' = [rt EXCEPT ![t] = r],
           agent' = agent \/ agent' = [agent EXCEPT ![t] = place],
           marks' = marks \/ marks' = [marks EXCEPT ![t] = ms],
           pending' \in [Tasks -> Nat], \A u \in Tasks : u # t => pending'[u] = pending[u],
           UNCHANGED <<kind, known, wio, worker, child, mgr, hz>>
    PROVE  Types'
<1>1. BashTypes'
  <2>1. /\ rt' = [u \in Tasks |-> rt'[u]]
        /\ \A u \in Tasks : rt'[u] = rt[u] \/ (u = t /\ rt'[u] = r)
    BY DEF Types, BashTypes
  <2>2. \A u \in Tasks : rt'[u] \in Records
    BY <2>1 DEF Types, BashTypes
  <2>. QED  BY <2>1, <2>2 DEF Types, BashTypes
<1>2. AgentTypes'
  <2>1. /\ marks' = [u \in Tasks |-> marks'[u]]
        /\ \A u \in Tasks : marks'[u] = marks[u] \/ (u = t /\ marks'[u] = ms)
    BY DEF Types, AgentTypes
  <2>2. /\ agent' \in [Tasks -> AgentPlaces]
        /\ \A u \in Tasks : agent'[u] = agent[u] \/ u = t
    BY DEF Types, AgentTypes
  <2>3. \A u \in Tasks : marks'[u] \in Seq(Marks)
    BY <2>1 DEF Types, AgentTypes
  <2>. QED  BY <2>1, <2>2, <2>3 DEF Types, AgentTypes
<1>. QED  BY <1>1, <1>2, OthersKept DEF Types

\* What the runner's finally block leaves of the marks.
LEMMA LeavesMarks ==
    ASSUME Types, NEW t \in Tasks
    PROVE  /\ Begun(marks[t]) \in Seq(Marks) /\ Len(Begun(marks[t])) <= Len(marks[t])
           /\ LoopFree /\ "overlap" \notin hz => Begun(marks[t]) = <<>>
<1>1. marks[t] \in Seq(Marks)
  BY DEF Types, AgentTypes
<1>. QED  BY <1>1, BegunMarks DEF LoopFree

\* A step of an update: one less, or one of them replaced.
LEMMA MarkRemoved ==
    ASSUME NEW ms \in Seq(Marks), NEW i \in DOMAIN ms
    PROVE  /\ RemoveAt(ms, i) \in Seq(Marks)
           /\ Len(RemoveAt(ms, i)) = Len(ms) - 1 /\ Len(ms) \in Nat \ {0} /\ i \in 1..Len(ms)
           /\ \A j \in 1..(Len(ms) - 1) :
                 RemoveAt(ms, i)[j] = IF j < i THEN ms[j] ELSE ms[j + 1]
<1>. DEFINE left == SubSeq(ms, 1, i - 1)
            right == SubSeq(ms, i + 1, Len(ms))
            both == left \o right
<1>1. Len(ms) \in Nat \ {0} /\ i \in 1..Len(ms)
  BY LenProperties
<1>2. /\ left \in Seq(Marks) /\ Len(left) = i - 1
      /\ \A j \in 1..(i - 1) : left[j] = ms[j]
  BY <1>1, SubSeqProperties
<1>3. /\ right \in Seq(Marks) /\ Len(right) = Len(ms) - i
      /\ \A j \in 1..(Len(ms) - i) : right[j] = ms[i + j]
  BY <1>1, SubSeqProperties
<1>4. RemoveAt(ms, i) = both
  BY DEF RemoveAt
<1>. HIDE DEF left, right
<1>5. /\ both \in Seq(Marks)
      /\ Len(both) = Len(left) + Len(right)
      /\ \A j \in 1..(Len(left) + Len(right)) : both[j] =
            IF j <= Len(left) THEN left[j] ELSE right[j - Len(left)]
  BY <1>2, <1>3, ConcatProperties
<1>. HIDE DEF both
<1>6. Len(left) + Len(right) = Len(ms) - 1
  BY <1>1, <1>2, <1>3
<1>7. ASSUME NEW j \in 1..(Len(ms) - 1)
      PROVE  both[j] = IF j < i THEN ms[j] ELSE ms[j + 1]
  <2>1. CASE j < i
    <3>1. j \in 1..(i - 1)
      BY <1>1, <2>1
    <3>. QED  BY <1>2, <1>5, <1>6, <2>1, <3>1
  <2>2. CASE ~(j < i)
    <3>1. both[j] = right[j - (i - 1)]
      BY <1>1, <1>2, <1>5, <1>6, <2>2
    <3>2. j - (i - 1) \in 1..(Len(ms) - i) /\ i + (j - (i - 1)) = j + 1
      BY <1>1, <2>2
    <3>. QED  BY <1>3, <2>2, <3>1, <3>2
  <2>. QED  BY <2>1, <2>2
<1>. QED  BY <1>1, <1>4, <1>5, <1>6, <1>7

\* What an answer's task makes of the updates.
LEMMA NoticesMarks ==
    ASSUME Types, NEW t \in Tasks, NEW i \in DOMAIN marks[t], Notices(t, i)
    PROVE  \E ms \in Seq(Marks) :
              /\ marks' = [marks EXCEPT ![t] = ms] /\ marks'[t] = ms
              /\ \/ pending[t] # 0 /\ ms = RemoveAt(marks[t], i)
                 \/ pending[t] = 0 /\ ms = [marks[t] EXCEPT ![i].status = "running"]
<1>1. marks[t] \in Seq(Marks) /\ marks = [u \in Tasks |-> marks[u]]
  BY DEF Types, AgentTypes
<1>2. marks[t][i] \in Marks /\ marks[t][i].status = "answered"
  BY <1>1, ElementOfSeq, LenProperties DEF Notices, Notable
<1>3. CASE pending[t] # 0
  <2>1. RemoveAt(marks[t], i) \in Seq(Marks)
    BY <1>1, MarkRemoved
  <2>2. marks' = [marks EXCEPT ![t] = RemoveAt(marks[t], i)]
    BY <1>3 DEF Notices
  <2>. QED  BY <1>1, <1>3, <2>1, <2>2
<1>4. CASE pending[t] = 0
  <2>. DEFINE m == [marks[t][i] EXCEPT !.status = "running"]
              ms == [marks[t] EXCEPT ![i] = m]
  <2>1. m \in Marks
    BY <1>2 DEF Marks, MarkStatus
  <2>2. marks' = [marks EXCEPT ![t] = ms]
    BY <1>4 DEF Notices
  <2>. HIDE DEF m
  <2>3. ms \in Seq(Marks)
    BY <1>1, <2>1, ExceptSeq
  <2>4. ms = [marks[t] EXCEPT ![i].status = "running"]
    BY DEF m
  <2>. QED  BY <1>1, <1>4, <2>2, <2>3, <2>4
<1>. QED  BY <1>3, <1>4

LEMMA AgentTypesKept ==
    ASSUME Types, NEW t \in Tasks,
           \/ CreateAgent(t) \/ AgentRuns(t) \/ AgentAsks(t) \/ Answered(t)
           \/ AgentEnds(t) \/ KillAgent(t) \/ AgentCancelled(t)
           \/ \E i \in DOMAIN marks[t] : Notices(t, i) \/ MarkReads(t, i) \/ MarkWrites(t, i)
    PROVE  Types'
<1>. DEFINE m1 == Mark("awaiting_approval")
            m2 == Mark("answered")
<1>0. /\ m1 \in Marks /\ m2 \in Marks
      /\ pending \in [Tasks -> Nat] /\ agent[t] \in AgentPlaces
      /\ rt[t] \in Records /\ marks[t] \in Seq(Marks)
      /\ kind[t] \in {"bash", "agent"}
      /\ agent[t] # "off" \/ pending[t] > 0 \/ marks[t] # <<>> => kind[t] = "agent"
  BY DEF Types, AgentTypes, BashTypes, Mark, Marks, MarkStatus
<1>. HIDE DEF m1, m2
<1>1. CASE CreateAgent(t)
  <2>1. Status(NoRuntime, "starting") \in Records
    BY NoRecordType, RecordTypes DEF Active
  <2>2. /\ kind[t] = "agent"
        /\ rt' = [rt EXCEPT ![t] = Status(NoRuntime, "starting")]
        /\ agent' = [agent EXCEPT ![t] = "new"] /\ "new" \in AgentPlaces
        /\ UNCHANGED <<kind, known, wio, worker, child, marks, pending, mgr, hz>>
    BY <1>1 DEF CreateAgent, Writes, AgentGoes, bashVars, AgentPlaces
  <2>. QED  BY <1>0, <2>1, <2>2, AgentStepTypes
<1>2. CASE AgentRuns(t)
  <2>. DEFINE r == MarkedAs(t, Status(rt[t], "running"))
  <2>1. kind[t] = "agent"
    BY <1>0, <1>2 DEF AgentRuns
  <2>2. r \in Records
    BY <1>0, RecordTypes, MarkedType DEF Active, Types
  <2>3. /\ rt' = [rt EXCEPT ![t] = r]
        /\ agent' = [agent EXCEPT ![t] = "running"] /\ "running" \in AgentPlaces
        /\ UNCHANGED <<kind, known, wio, worker, child, marks, pending, mgr, hz>>
    BY <1>2 DEF AgentRuns, Writes, AgentGoes, bashVars, AgentPlaces
  <2>. HIDE DEF r
  <2>. QED  BY <1>0, <2>1, <2>2, <2>3, AgentStepTypes
<1>3. CASE AgentAsks(t)
  <2>. DEFINE ms == Append(marks[t], m1)
  <2>1. kind[t] = "agent"
    BY <1>0, <1>3 DEF AgentAsks
  <2>2. ms \in Seq(Marks)
    BY <1>0, MarkSequences
  <2>3. /\ marks' = [marks EXCEPT ![t] = ms]
        /\ pending' = [pending EXCEPT ![t] = @ + 1]
        /\ UNCHANGED <<kind, rt, known, wio, worker, child, agent, mgr, hz>>
    BY <1>3 DEF AgentAsks, bashVars, m1
  <2>4. pending' \in [Tasks -> Nat] /\ \A u \in Tasks : u # t => pending'[u] = pending[u]
    BY <1>0, <2>3
  <2>. HIDE DEF ms
  <2>. QED  BY <1>0, <2>1, <2>2, <2>3, <2>4, AgentStepTypes
<1>4. CASE Answered(t)
  <2>. DEFINE ms == Append(marks[t], m2)
  <2>1. kind[t] = "agent"
    BY <1>0, <1>4 DEF Answered
  <2>2. ms \in Seq(Marks)
    BY <1>0, MarkSequences
  <2>3. /\ marks' = [marks EXCEPT ![t] = ms]
        /\ pending[t] > 0 /\ pending' = [pending EXCEPT ![t] = @ - 1]
        /\ UNCHANGED <<kind, rt, known, wio, worker, child, agent, mgr, hz>>
    BY <1>4 DEF Answered, bashVars, m2
  <2>4. pending' \in [Tasks -> Nat] /\ \A u \in Tasks : u # t => pending'[u] = pending[u]
    BY <1>0, <2>3
  <2>. HIDE DEF ms
  <2>. QED  BY <1>0, <2>1, <2>2, <2>3, <2>4, AgentStepTypes
<1>5. CASE AgentEnds(t) \/ AgentCancelled(t)
  <2>1. kind[t] = "agent" /\ LoopFree
    BY <1>0, <1>5 DEF AgentEnds, AgentCancelled
  <2>2. \A status \in {"completed", "failed", "killed"} :
           /\ MarkedAs(t, Finished(rt[t], status)) \in Records
           /\ MarkedAs(t, [Finished(rt[t], status) EXCEPT !.timedOut = TRUE]) \in Records
    BY <1>0, RecordTypes, MarkedType DEF Ends, Types
  <2>3. PICK r \in Records : rt' = [rt EXCEPT ![t] = r]
    BY <1>5, <2>2 DEF AgentEnds, AgentCancelled, Writes
  <2>4. /\ agent' = [agent EXCEPT ![t] = "gone"] /\ "gone" \in AgentPlaces
        /\ marks' = [marks EXCEPT ![t] = Begun(marks[t])]
        /\ pending' = [pending EXCEPT ![t] = 0]
        /\ UNCHANGED <<kind, known, wio, worker, child, mgr, hz>>
    BY <1>5 DEF AgentEnds, AgentCancelled, AgentLeaves, AgentGoes, bashVars, AgentPlaces
  <2>5. Begun(marks[t]) \in Seq(Marks)
    BY <2>1, LeavesMarks
  <2>6. pending' \in [Tasks -> Nat] /\ \A u \in Tasks : u # t => pending'[u] = pending[u]
    BY <1>0, <2>4
  <2>. QED  BY <1>0, <2>1, <2>3, <2>4, <2>5, <2>6, AgentStepTypes
<1>6. CASE KillAgent(t)
  <2>. DEFINE r == MarkedAs(t, Finished(rt[t], "killed"))
              ms == IF pending[t] > 0 THEN Append(marks[t], m2) ELSE marks[t]
              place == IF Live(t) THEN "cancelling" ELSE agent[t]
  <2>1. r \in Records
    BY <1>0, RecordTypes, MarkedType DEF Ends, Types
  <2>2. ms \in Seq(Marks)
    BY <1>0, MarkSequences
  <2>3. place \in AgentPlaces
    BY <1>0 DEF AgentPlaces
  <2>4. /\ kind[t] = "agent"
        /\ rt' = [rt EXCEPT ![t] = r] /\ marks' = [marks EXCEPT ![t] = ms]
        /\ agent' = [agent EXCEPT ![t] = place]
        /\ pending' = [pending EXCEPT ![t] = 0]
        /\ UNCHANGED <<kind, known, wio, worker, child, mgr, hz>>
    BY <1>6 DEF KillAgent, Writes, bashVars, m2
  <2>5. pending' \in [Tasks -> Nat] /\ \A u \in Tasks : u # t => pending'[u] = pending[u]
    BY <1>0, <2>4
  <2>. HIDE DEF r, ms, place
  <2>. QED  BY <1>0, <2>1, <2>2, <2>3, <2>4, <2>5, AgentStepTypes
<1>7. ASSUME NEW i \in DOMAIN marks[t], MarkReads(t, i) PROVE Types'
  <2>. DEFINE mark == [marks[t][i] EXCEPT !.io = Status(rt[t], marks[t][i].status)]
              ms == IF IsTerminal(rt[t]) THEN RemoveAt(marks[t], i)
                                         ELSE [marks[t] EXCEPT ![i] = mark]
  <2>1. kind[t] = "agent"
    BY <1>0, <1>7
  <2>2. ms \in Seq(Marks)
    <3>1. marks[t][i] \in Marks
      BY <1>0, <1>7, ElementOfSeq, LenProperties
    <3>2. Status(rt[t], marks[t][i].status) \in {r \in Records : r.status \in Active}
      <4>. DEFINE status == marks[t][i].status
      <4>1. rt[t] \in Records /\ status \in Active
        BY <1>0, <1>7, <3>1 DEF Marks, MarkStatus, Active, MarkReads
      <4>. HIDE DEF status
      <4>2. Status(rt[t], status) \in {r \in Records : r.status \in Active}
        BY <4>1, RecordTypes
      <4>. QED  BY <4>2 DEF status
    <3>3. mark \in Marks
      BY <1>7, <3>1, <3>2 DEF Marks, MarkReads
    <3>. HIDE DEF mark
    <3>4. [marks[t] EXCEPT ![i] = mark] \in Seq(Marks)
      BY <1>0, <1>7, <3>3, ExceptSeq
    <3>. QED  BY <1>0, <1>7, <3>4, MarkSequences
  <2>3. UNCHANGED <<kind, rt, known, wio, worker, child, agent, pending, mgr, hz>>
    BY <1>7 DEF MarkReads, bashVars
  <2>4. marks' = [marks EXCEPT ![t] = ms]
    <3>1. CASE IsTerminal(rt[t])
      BY <1>7, <3>1 DEF MarkReads
    <3>2. CASE ~IsTerminal(rt[t])
      BY <1>7, <3>2 DEF MarkReads
    <3>. QED  BY <3>1, <3>2
  <2>. HIDE DEF ms
  <2>. QED  BY <1>0, <2>1, <2>2, <2>3, <2>4, AgentStepTypes
<1>8. ASSUME NEW i \in DOMAIN marks[t], MarkWrites(t, i) PROVE Types'
  <2>. DEFINE r == marks[t][i].io
              ms == RemoveAt(marks[t], i)
  <2>1. kind[t] = "agent"
    BY <1>0, <1>8
  <2>2. r \in Records /\ ms \in Seq(Marks)
    <3>1. marks[t][i] \in Marks
      BY <1>0, <1>8, ElementOfSeq, LenProperties
    <3>2. r \in Records
      BY <1>8, <3>1 DEF MarkWrites, Marks
    <3>. QED  BY <1>0, <1>8, <3>2, MarkSequences
  <2>3. /\ rt' = [rt EXCEPT ![t] = r] /\ marks' = [marks EXCEPT ![t] = ms]
        /\ UNCHANGED <<kind, known, wio, worker, child, agent, pending, mgr, hz>>
    BY <1>8 DEF MarkWrites, Writes, bashVars
  <2>. HIDE DEF r, ms
  <2>. QED  BY <1>0, <2>1, <2>2, <2>3, AgentStepTypes
<1>9. ASSUME NEW i \in DOMAIN marks[t], Notices(t, i) PROVE Types'
  <2>1. kind[t] = "agent"
    BY <1>0, <1>9
  <2>2. UNCHANGED <<kind, rt, known, wio, worker, child, agent, pending, mgr, hz>>
    BY <1>9 DEF Notices, bashVars
  <2>3. PICK ms \in Seq(Marks) : marks' = [marks EXCEPT ![t] = ms]
    BY <1>9, NoticesMarks
  <2>. QED  BY <1>0, <2>1, <2>2, <2>3, AgentStepTypes
<1>. QED  BY <1>1, <1>2, <1>3, <1>4, <1>5, <1>6, <1>7, <1>8, <1>9

-----------------------------------------------------------------------------
(* The manager.                                                            *)

LEMMA IdleTypes ==
    /\ Idle = [at |-> "idle", task |-> NoIO, io |-> NoIO, stale |-> {}]
    /\ Idle.at = "idle" /\ Idle.io = NoIO /\ Idle.stale = {}
    /\ \A t, m : m = [Idle EXCEPT !.at = "create", !.task = t] =>
          m = [at |-> "create", task |-> t, io |-> NoIO, stale |-> {}]
    /\ [Idle EXCEPT !.at = "down"] = [at |-> "down", task |-> NoIO, io |-> NoIO, stale |-> {}]
<1>1. ASSUME NEW t, NEW m, m = [Idle EXCEPT !.at = "create", !.task = t]
      PROVE  m = [at |-> "create", task |-> t, io |-> NoIO, stale |-> {}]
  BY <1>1 DEF Idle
<1>2. [Idle EXCEPT !.at = "down"] = [at |-> "down", task |-> NoIO, io |-> NoIO, stale |-> {}]
  BY DEF Idle
<1>. QED  BY <1>1, <1>2 DEF Idle

\* A manager that is not in the middle of anything, or down.
LEMMA RestTypes ==
    ASSUME mgr' = Idle \/ mgr' = [Idle EXCEPT !.at = "down"]
    PROVE  /\ ManagerTypes' /\ mgr'.at \in {"idle", "down"}
           /\ mgr' = Idle => mgr'.at = "idle"
<1>1. \E at \in {"idle", "down"} :
         mgr' = [at |-> at, task |-> NoIO, io |-> NoIO, stale |-> {}]
  BY IdleTypes
<1>. QED  BY <1>1, IdleTypes DEF ManagerTypes, ManagerPlaces, Delivering

LEMMA WorkerStays ==
    ASSUME Types, NEW t \in Tasks, wio' = wio, worker' = worker
    PROVE  \E w \in Records \cup {NoIO}, place \in WorkerPlaces :
              /\ wio' = [wio EXCEPT ![t] = w] /\ worker' = [worker EXCEPT ![t] = place]
              /\ w # NoIO => place \in {"launched", "spawned", "running"}
<1>. DEFINE w == wio[t]
            place == worker[t]
<1>1. /\ wio' = [wio EXCEPT ![t] = w] /\ w \in Records \cup {NoIO}
      /\ worker' = [worker EXCEPT ![t] = place] /\ place \in WorkerPlaces
      /\ w # NoIO => place \in {"launched", "spawned", "running"}
  BY DEF Types, BashTypes
<1>. HIDE DEF w, place
<1>. QED  BY <1>1

LEMMA CreateTypes ==
    ASSUME Types, (\E t \in Tasks : CreateBash(t)) \/ CreateReads \/ CreateWrites
    PROVE  Types'
<1>1. ASSUME NEW t \in Tasks, CreateBash(t) PROVE Types'
  <2>. DEFINE created == Status(NoRuntime, "created")
              refused == Finished(NoRuntime, "failed")
  <2>1. created \in Records /\ refused \in Records
    BY NoRecordType, RecordTypes DEF Active, Ends
  <2>2. /\ kind[t] = "bash" /\ worker[t] \in WorkerPlaces
        /\ known' = known /\ wio' = wio /\ child' = child
        /\ UNCHANGED <<kind, agent, marks, pending, hz>>
    BY <1>1 DEF CreateBash, agentVars, Types, BashTypes
  <2>3. CASE /\ rt' = [rt EXCEPT ![t] = created]
             /\ worker' = [worker EXCEPT ![t] = "launched"]
             /\ mgr' = [Idle EXCEPT !.at = "create", !.task = t]
    <3>1. mgr' = [at |-> "create", task |-> t, io |-> NoIO, stale |-> {}]
      BY <2>3, IdleTypes
    <3>2. ManagerTypes'
      BY <2>2, <3>1 DEF ManagerTypes, ManagerPlaces, Delivering
    <3>3. \E w \in Records \cup {NoIO}, place \in WorkerPlaces :
              /\ wio' = [wio EXCEPT ![t] = w] /\ worker' = [worker EXCEPT ![t] = place]
              /\ w # NoIO => place \in {"launched", "spawned", "running"}
      <4>1. wio' = [wio EXCEPT ![t] = wio[t]] /\ wio[t] \in Records \cup {NoIO}
        BY <2>2 DEF Types, BashTypes
      <4>. QED  BY <2>3, <4>1 DEF WorkerPlaces
    <3>4. \E r \in Records : rt' = [rt EXCEPT ![t] = r]
      BY <2>1, <2>3
    <3>. QED  BY <2>2, <3>2, <3>3, <3>4, BashStepTypes DEF Types, BashTypes
  <2>4. CASE rt' = [rt EXCEPT ![t] = refused] /\ UNCHANGED <<worker, mgr>>
    <3>1. \E w \in Records \cup {NoIO}, place \in WorkerPlaces :
              /\ wio' = [wio EXCEPT ![t] = w] /\ worker' = [worker EXCEPT ![t] = place]
              /\ w # NoIO => place \in {"launched", "spawned", "running"}
      BY <2>2, <2>4, WorkerStays
    <3>2. \E r \in Records : rt' = [rt EXCEPT ![t] = r]
      BY <2>1, <2>4
    <3>. QED  BY <2>2, <2>4, <3>1, <3>2, BashStepTypes DEF Types, BashTypes
  <2>. QED  BY <1>1, <2>3, <2>4 DEF CreateBash, Writes
<1>2. CASE CreateReads
  <2>1. /\ mgr.at = "create" /\ mgr.task \in Tasks /\ kind[mgr.task] = "bash"
        /\ rt[mgr.task] \in Records
        /\ UNCHANGED <<kind, rt, known, wio, worker, child, agent, marks, pending, hz>>
    BY <1>2 DEF CreateReads, bashVars, agentVars, Types, ManagerTypes, BashTypes
  <2>2. CASE mgr' = [mgr EXCEPT !.io = Status(rt[mgr.task], "starting")]
    <3>1. /\ Status(rt[mgr.task], "starting") \in Records
          /\ Status(rt[mgr.task], "starting").status = "starting"
      <4>. DEFINE starting == "starting"
      <4>1. starting \in Active /\ starting \in Active \cup Ends
        BY DEF Active
      <4>. HIDE DEF starting
      <4>2. /\ Status(rt[mgr.task], starting) \in Records
            /\ Status(rt[mgr.task], starting).status = starting
        BY <2>1, <4>1, RecordTypes
      <4>. QED  BY <4>2 DEF starting
    <3>2. mgr' = [at |-> mgr.at, task |-> mgr.task,
                  io |-> Status(rt[mgr.task], "starting"), stale |-> mgr.stale]
      BY <2>2 DEF Types, ManagerTypes
    <3>3. ManagerTypes'
      BY <2>1, <3>1, <3>2 DEF ManagerTypes, ManagerPlaces, Delivering
    <3>. QED  BY <2>1, <3>3, OthersKept DEF Types, BashTypes
  <2>3. CASE mgr' = Idle
    BY <2>1, <2>3, RestTypes, OthersKept DEF Types, BashTypes
  <2>. QED  BY <1>2, <2>2, <2>3 DEF CreateReads
<1>3. CASE CreateWrites
  <2>. DEFINE t == mgr.task
  <2>1. /\ t \in Tasks /\ kind[t] = "bash" /\ mgr.io \in Records
        /\ rt' = [rt EXCEPT ![t] = mgr.io] /\ mgr' = Idle
        /\ UNCHANGED <<kind, known, wio, worker, child, agent, marks, pending, hz>>
    BY <1>3 DEF CreateWrites, Writes, bashVars, agentVars, Types, ManagerTypes
  <2>2. ManagerTypes'
    BY <2>1, RestTypes
  <2>. HIDE DEF t
  <2>3. \E w \in Records \cup {NoIO}, place \in WorkerPlaces :
              /\ wio' = [wio EXCEPT ![t] = w] /\ worker' = [worker EXCEPT ![t] = place]
              /\ w # NoIO => place \in {"launched", "spawned", "running"}
    BY <2>1, WorkerStays
  <2>4. \E r \in Records : rt' = [rt EXCEPT ![t] = r]
    BY <2>1
  <2>. QED  BY <2>1, <2>2, <2>3, <2>4, BashStepTypes DEF Types, BashTypes
<1>. QED  BY <1>1, <1>2, <1>3

LEMMA ReconcilesTypes ==
    ASSUME Types, DeliveryBegins \/ AgentProcessStarts
    PROVE  Types'
<1>1. PICK purpose \in Delivering : Reconciles(purpose)
  BY DEF DeliveryBegins, AgentProcessStarts, Delivering
<1>2. PICK stale \in SUBSET Tasks :
         mgr' = [at |-> purpose, task |-> NoIO, io |-> rt, stale |-> stale]
  BY <1>1 DEF Reconciles
<1>3. UNCHANGED <<kind, rt, known, wio, worker, child, agent, marks, pending, hz>>
  BY <1>1 DEF Reconciles, bashVars, agentVars
<1>4. ManagerTypes'
  BY <1>1, <1>2, <1>3 DEF Types, BashTypes, ManagerTypes, ManagerPlaces, Delivering
<1>. QED  BY <1>3, <1>4, OthersKept DEF Types, BashTypes

\* What a delivery leaves of runtime.json.
LEMMA PublishesEffect ==
    ASSUME Types, WireDelivery \/ ModelDelivery \/ StartGoesOn
    PROVE  /\ mgr.at \in Delivering /\ mgr.stale \subseteq Tasks
           /\ \A t \in Tasks : mgr.io[t] \in Records
           /\ rt' = AfterRecover /\ mgr' = Idle
           /\ UNCHANGED <<kind, kill, known, wio, worker, child, late, agent, asks, marks,
                          pending, hz>>
BY DEF WireDelivery, ModelDelivery, StartGoesOn, Publishes, bashVars, agentVars, Delivering,
       Types, ManagerTypes

LEMMA PublishesTypes ==
    ASSUME Types, WireDelivery \/ ModelDelivery \/ StartGoesOn
    PROVE  Types'
<1>1. /\ rt' = AfterRecover /\ mgr' = Idle
      /\ \A t \in Tasks : mgr.io[t] \in Records
      /\ UNCHANGED <<kind, known, wio, worker, child, agent, marks, pending, hz>>
  BY PublishesEffect
<1>2. ASSUME NEW t \in Tasks PROVE AfterRecover[t] \in Records
  <2>1. RecoveredTask(t) \in Records
    BY <1>1, <1>2, RecordTypes DEF RecoveredTask, Ends
  <2>. QED  BY <1>2, <2>1 DEF AfterRecover, Types, BashTypes
<1>3. BashTypes'
  <2>1. rt' = [t \in Tasks |-> rt'[t]]
    BY <1>1 DEF AfterRecover
  <2>. QED  BY <1>1, <1>2, <2>1 DEF Types, BashTypes
<1>. QED  BY <1>1, <1>3, RestTypes, OthersKept DEF Types

LEMMA ProcessEndsTypes ==
    ASSUME Types, AgentProcessEnds
    PROVE  Types'
<1>1. /\ agent' = [t \in Tasks |-> IF Live(t) THEN "gone" ELSE agent[t]]
      /\ pending' = [t \in Tasks |-> 0] /\ marks' = [t \in Tasks |-> <<>>]
      /\ mgr' = [Idle EXCEPT !.at = "down"]
      /\ UNCHANGED <<kind, rt, known, wio, worker, child, hz>>
  BY DEF AgentProcessEnds, bashVars
<1>2. <<>> \in Seq(Marks)
  BY EmptySeq
<1>3. AgentTypes'
  BY <1>1, <1>2 DEF Types, AgentTypes, AgentPlaces, Live
<1>. QED  BY <1>1, <1>3, RestTypes, OthersKept DEF Types, BashTypes

LEMMA NotificationTypes ==
    ASSUME Types, ModelGoesOn \/ TurnCancelled
    PROVE  /\ Types'
           /\ UNCHANGED <<kind, rt, kill, known, wio, worker, child, late, agent, asks, marks,
                          pending, mgr, hz>>
<1>1. UNCHANGED <<kind, rt, kill, known, wio, worker, child, late, agent, asks, marks, pending,
                  mgr, hz>>
  BY DEF ModelGoesOn, TurnCancelled, bashVars, agentVars
<1>. QED  BY <1>1, OthersKept DEF Types, BashTypes

LEMMA TypesInit == Init => Types
<1>. SUFFICES ASSUME Init PROVE Types
  OBVIOUS
<1>1. ManagerTypes
  BY IdleTypes DEF Init, ManagerTypes, ManagerPlaces, Delivering
<1>2. AgentTypes
  BY EmptySeq DEF Init, AgentTypes, AgentPlaces
<1>3. BashTypes
  BY NoRecordType DEF Init, BashTypes, WorkerPlaces
<1>. QED  BY <1>1, <1>2, <1>3 DEF Types

LEMMA TypesNext == Types /\ [Next]_vars => Types'
<1>. SUFFICES ASSUME Types, [Next]_vars PROVE Types'
  OBVIOUS
<1>1. ASSUME UNCHANGED vars PROVE Types'
  BY <1>1, OthersKept DEF vars, bashVars, agentVars, Types, BashTypes
<1>. QED  BY <1>1, WorkerTypes, AgentTypesKept, CreateTypes, ReconcilesTypes, PublishesTypes,
             ProcessEndsTypes, NotificationTypes
          DEF Next, Environment, ManagerStep, WorkerStep, AgentStep

-----------------------------------------------------------------------------
(* A worker and the record it keeps.                                       *)

\* A worker that is not gone yet.
Beats(t) == worker[t] \in {"launched", "started", "spawned", "running"}

\* As long as no heartbeat is taken for stale that is not, a task whose worker
\* beats is shown as active, and the worker is the only one to end it.
WorkerInv ==
    \A t \in Tasks :
        /\ Beats(t) => rt[t].status \in Active
        /\ wio[t] # NoIO =>
              wio[t].status \in Active \/ (worker[t] = "spawned" /\ child[t].life = "none")
        /\ mgr.at \in Delivering /\ t \in mgr.stale /\ kind[t] = "bash" => worker[t] = "gone"

\* A command runs only under its worker, unless workers crash.
ChildInv ==
    \/ "crash" \in hz
    \/ \A t \in Tasks : child[t].life = "alive" => worker[t] \in {"spawned", "running"}

Workers == WorkerInv /\ ChildInv

\* What a beating worker says of its task, and what else it rules out.
LEMMA Beating ==
    ASSUME Types
    PROVE  \A t \in Tasks :
              /\ Beats(t) <=> worker[t] \notin {"off", "gone"}
              /\ Beats(t) => kind[t] = "bash"
              /\ wio[t] # NoIO => Beats(t) /\ wio[t] \in Records
BY DEF Types, BashTypes, Beats, WorkerPlaces

\* A step that leaves the workers alone, the records of their tasks active and
\* their commands where they were, dead or alive.
LEMMA WorkersStay ==
    ASSUME Types, Workers, UNCHANGED <<kind, wio, worker, hz>>,
           \A t \in Tasks : /\ Beats(t) => rt'[t] = rt[t] \/ rt'[t].status \in Active
                            /\ child'[t].life = "none" <=> child[t].life = "none"
                            /\ child'[t].life = "alive" => child[t].life = "alive",
           \/ mgr'.at \notin Delivering
           \/ mgr' = mgr
           \/ \A t \in mgr'.stale : kind[t] = "bash" => worker[t] = "gone"
    PROVE  Workers'
<1>1. WorkerInv'
  BY DEF Workers, WorkerInv, Beats
<1>2. ChildInv'
  BY DEF Workers, ChildInv
<1>. QED  BY <1>1, <1>2 DEF Workers

\* A step of one worker.
LEMMA WorkersStep ==
    ASSUME Types, Workers, NEW t \in Tasks, UNCHANGED <<kind, hz>>,
           \A u \in Tasks : u # t => /\ rt'[u] = rt[u] /\ wio'[u] = wio[u]
                                     /\ worker'[u] = worker[u] /\ child'[u] = child[u],
           Beats(t)' => rt'[t].status \in Active,
           wio'[t] # NoIO => \/ wio'[t].status \in Active
                             \/ worker'[t] = "spawned" /\ child'[t].life = "none",
           \/ mgr'.at \notin Delivering
           \/ mgr' = mgr /\ (worker[t] = "gone" => worker'[t] = "gone"),
           "crash" \in hz \/ (child'[t].life = "alive" => worker'[t] \in {"spawned", "running"})
    PROVE  Workers'
<1>1. WorkerInv'
  <2>. SUFFICES ASSUME NEW u \in Tasks
                PROVE  /\ Beats(u)' => rt'[u].status \in Active
                       /\ wio'[u] # NoIO =>
                             \/ wio'[u].status \in Active
                             \/ worker'[u] = "spawned" /\ child'[u].life = "none"
                       /\ mgr'.at \in Delivering /\ u \in mgr'.stale /\ kind'[u] = "bash"
                             => worker'[u] = "gone"
    BY DEF WorkerInv
  <2>1. CASE u = t
    BY <2>1 DEF Workers, WorkerInv
  <2>2. CASE u # t
    BY <2>2 DEF Workers, WorkerInv, Beats
  <2>. QED  BY <2>1, <2>2
<1>2. ChildInv'
  BY DEF Workers, ChildInv
<1>. QED  BY <1>1, <1>2 DEF Workers

LEMMA WorkersKept ==
    ASSUME Types, Workers, NEW t \in Tasks, WorkerStep(t) \/ WorkerCrashes(t)
    PROVE  Workers'
<1>0. /\ wio \in [Tasks -> Records \cup {NoIO}] /\ worker \in [Tasks -> WorkerPlaces]
      /\ child \in [Tasks -> [life : {"none", "alive", "succeeded", "failed"},
                              signal : {"none", "term", "kill"}]]
      /\ rt = [u \in Tasks |-> rt[u]]
      /\ worker[t] # "off" => kind[t] = "bash" /\ rt[t] \in Records
      /\ wio[t] # NoIO => worker[t] \in {"launched", "spawned", "running"}
      /\ Beats(t) => rt[t].status \in Active
      /\ wio[t] # NoIO =>
            wio[t].status \in Active \/ (worker[t] = "spawned" /\ child[t].life = "none")
      /\ "crash" \in hz \/ (child[t].life = "alive" => worker[t] \in {"spawned", "running"})
  BY DEF Types, BashTypes, Workers, WorkerInv, ChildInv
<1>1. CASE WorkerReads(t)
  <2>. DEFINE r == IF worker[t] = "launched" THEN Status(rt[t], "starting")
                   ELSE IF worker[t] = "running" THEN rt[t]
                   ELSE IF child[t].life = "none" THEN Finished(rt[t], "failed")
                        ELSE [rt[t] EXCEPT !.status = "running", !.child = TRUE]
  <2>1. /\ worker[t] \in {"launched", "spawned", "running"}
        /\ wio' = [wio EXCEPT ![t] = r]
        /\ UNCHANGED <<kind, rt, worker, child, mgr, hz>>
    BY <1>1 DEF WorkerReads, WorkerOwes
  <2>2. r.status \in Active \/ (worker[t] = "spawned" /\ child[t].life = "none")
    <3>1. /\ Status(rt[t], "starting").status = "starting"
          /\ [rt[t] EXCEPT !.status = "running", !.child = TRUE].status = "running"
      <4>1. rt[t] \in Records
        BY <1>0, <2>1
      <4>. QED  BY <4>1 DEF Status, Records, Runtimes, IsTerminal
    <3>2. worker[t] = "running" => rt[t].status \in Active
      BY <1>0 DEF Beats
    <3>3. CASE worker[t] = "running"
      BY <3>2, <3>3
    <3>4. CASE worker[t] = "launched"
      BY <3>1, <3>4 DEF Active
    <3>5. CASE worker[t] = "spawned" /\ child[t].life # "none"
      BY <3>1, <3>5 DEF Active
    <3>. QED  BY <2>1, <3>3, <3>4, <3>5
  <2>. HIDE DEF r
  <2>3. wio'[t] = r /\ \A u \in Tasks : u # t => wio'[u] = wio[u]
    BY <1>0, <2>1
  <2>. QED  BY <1>0, <2>1, <2>2, <2>3, WorkersStep DEF Beats
<1>2. CASE WorkerWrites(t)
  <2>1. /\ wio[t] # NoIO /\ Beats(t)
        /\ rt' = [rt EXCEPT ![t] = wio[t]] /\ wio' = [wio EXCEPT ![t] = NoIO]
        /\ worker' = [worker EXCEPT ![t] =
                         IF worker[t] = "launched" THEN "started"
                         ELSE IF worker[t] = "spawned" /\ child[t].life = "none" THEN "gone"
                         ELSE "running"]
        /\ UNCHANGED <<kind, child, mgr, hz>>
    BY <1>0, <1>2 DEF WorkerWrites, Writes, WorkerOwes, WorkerGoes, Beats
  <2>2. /\ rt'[t] = wio[t] /\ wio'[t] = NoIO
        /\ worker'[t] = IF worker[t] = "launched" THEN "started"
                        ELSE IF worker[t] = "spawned" /\ child[t].life = "none" THEN "gone"
                        ELSE "running"
        /\ \A u \in Tasks : u # t => /\ rt'[u] = rt[u] /\ wio'[u] = wio[u]
                                     /\ worker'[u] = worker[u]
    BY <1>0, <2>1
  <2>3. Beats(t)' => rt'[t].status \in Active
    BY <1>0, <2>1, <2>2 DEF Beats
  <2>4. "crash" \in hz \/ (child'[t].life = "alive" => worker'[t] \in {"spawned", "running"})
    BY <1>0, <2>1, <2>2
  <2>5. worker[t] # "gone"
    BY <2>1 DEF Beats
  <2>. QED  BY <2>1, <2>2, <2>3, <2>4, <2>5, WorkersStep
<1>3. CASE WorkerStartsCommand(t)
  <2>1. worker[t] = "started" /\ wio[t] = NoIO /\ Beats(t)
        /\ UNCHANGED <<kind, wio, mgr, hz>>
    BY <1>0, <1>3 DEF WorkerStartsCommand, Beats
  <2>2. CASE /\ rt' = [rt EXCEPT ![t] = Finished(Status(rt[t], "starting"), "killed")]
             /\ worker' = [worker EXCEPT ![t] = "gone"]
             /\ child' = child
    <3>1. /\ worker'[t] = "gone" /\ ~Beats(t)'
          /\ \A u \in Tasks : u # t => rt'[u] = rt[u] /\ worker'[u] = worker[u]
      BY <1>0, <2>2 DEF Beats
    <3>. QED  BY <1>0, <2>1, <2>2, <3>1, WorkersStep
  <2>3. CASE /\ worker' = [worker EXCEPT ![t] = "spawned"]
             /\ child' = [child EXCEPT ![t].life = "alive"] \/ child' = child
             /\ rt' = rt
    <3>1. /\ worker'[t] = "spawned"
          /\ \A u \in Tasks : u # t => child'[u] = child[u] /\ worker'[u] = worker[u]
      BY <1>0, <2>3
    <3>. QED  BY <1>0, <2>1, <2>3, <3>1, WorkersStep
  <2>. QED  BY <1>3, <2>2, <2>3 DEF WorkerStartsCommand, Writes, WorkerGoes
<1>4. CASE WorkerCloses(t)
  <2>1. /\ worker[t] = "running" /\ wio[t] = NoIO
        /\ child[t].life \in {"succeeded", "failed"}
        /\ rt' = [rt EXCEPT ![t] = WorkerEnd(t)] /\ worker' = [worker EXCEPT ![t] = "gone"]
        /\ UNCHANGED <<kind, wio, child, mgr, hz>>
    BY <1>4 DEF WorkerCloses, Writes, WorkerGoes
  <2>2. /\ worker'[t] = "gone" /\ ~Beats(t)'
        /\ \A u \in Tasks : u # t => rt'[u] = rt[u] /\ worker'[u] = worker[u]
    BY <1>0, <2>1 DEF Beats
  <2>. QED  BY <2>1, <2>2, WorkersStep
<1>5. CASE WorkerCrashes(t)
  <2>1. /\ "crash" \in hz
        /\ worker' = [worker EXCEPT ![t] = "gone"] /\ wio' = [wio EXCEPT ![t] = NoIO]
        /\ UNCHANGED <<kind, rt, child, mgr, hz>>
    BY <1>5 DEF WorkerCrashes, WorkerGoes, WorkerOwes
  <2>2. /\ worker'[t] = "gone" /\ ~Beats(t)' /\ wio'[t] = NoIO
        /\ \A u \in Tasks : u # t => wio'[u] = wio[u] /\ worker'[u] = worker[u]
    BY <1>0, <2>1 DEF Beats
  <2>. QED  BY <2>1, <2>2, WorkersStep
<1>6. CASE Terminates(t)
  <2>1. /\ child' = [child EXCEPT ![t].signal =
                        IF child[t].signal = "none" THEN "term" ELSE "kill"]
        /\ UNCHANGED <<kind, rt, wio, worker, mgr, hz>>
    BY <1>0, <1>6 DEF Terminates
  <2>2. \A u \in Tasks : child'[u].life = child[u].life
    BY <1>0, <2>1
  <2>. QED  BY <2>1, <2>2, WorkersStay
<1>. QED  BY <1>1, <1>2, <1>3, <1>4, <1>5, <1>6 DEF WorkerStep

\* A step of an agent task touches no record but that of its own task.
LEMMA AgentStepEffect ==
    ASSUME Types, NEW t \in Tasks,
           \/ CreateAgent(t) \/ AgentRuns(t) \/ AgentAsks(t) \/ Answered(t)
           \/ AgentEnds(t) \/ KillAgent(t) \/ AgentCancelled(t)
           \/ \E i \in DOMAIN marks[t] : Notices(t, i) \/ MarkReads(t, i) \/ MarkWrites(t, i)
    PROVE  /\ kind[t] = "agent"
           /\ UNCHANGED <<kind, known, wio, worker, child, mgr, hz>>
           /\ \A u \in Tasks : u # t => /\ rt'[u] = rt[u] /\ marks'[u] = marks[u]
                                     /\ agent'[u] = agent[u] /\ pending'[u] = pending[u]
<1>0. /\ kind[t] \in {"bash", "agent"} /\ rt = [u \in Tasks |-> rt[u]]
      /\ marks = [u \in Tasks |-> marks[u]] /\ pending[t] \in Nat
      /\ pending \in [Tasks -> Nat] /\ agent \in [Tasks -> AgentPlaces]
      /\ agent[t] # "off" \/ pending[t] > 0 \/ marks[t] # <<>> => kind[t] = "agent"
  BY DEF Types, AgentTypes, BashTypes
<1>1. UNCHANGED <<kind, known, wio, worker, child, mgr, hz>>
  BY DEF CreateAgent, AgentRuns, AgentAsks, Answered, AgentEnds, KillAgent, AgentCancelled,
         AgentLeaves, Notices, Notable, MarkReads, MarkWrites, bashVars
<1>2. kind[t] = "agent"
  BY <1>0 DEF CreateAgent, AgentRuns, AgentAsks, Answered, AgentEnds, KillAgent, AgentCancelled
<1>3. rt' = rt \/ \E r : rt' = [rt EXCEPT ![t] = r]
  BY DEF CreateAgent, AgentRuns, AgentAsks, Answered, AgentEnds, KillAgent, AgentCancelled,
         Notices, MarkReads, MarkWrites, Writes
<1>4. marks' = marks \/ \E ms : marks' = [marks EXCEPT ![t] = ms]
  <2>1. ASSUME NEW i \in DOMAIN marks[t], Notices(t, i) \/ MarkReads(t, i) \/ MarkWrites(t, i)
        PROVE  \E ms : marks' = [marks EXCEPT ![t] = ms]
    <3>1. CASE Notices(t, i)
      BY <3>1, NoticesMarks
    <3>2. CASE MarkReads(t, i) \/ MarkWrites(t, i)
      BY <3>2 DEF MarkReads, MarkWrites
    <3>. QED  BY <2>1, <3>1, <3>2
  <2>2. CASE AgentAsks(t) \/ KillAgent(t) \/ AgentEnds(t) \/ AgentCancelled(t)
    BY <2>2 DEF AgentAsks, KillAgent, AgentEnds, AgentCancelled, AgentLeaves
  <2>3. CASE Answered(t)
    BY <2>3 DEF Answered
  <2>4. CASE CreateAgent(t) \/ AgentRuns(t)
    BY <2>4 DEF CreateAgent, AgentRuns
  <2>. QED  BY <2>1, <2>2, <2>3, <2>4
<1>5. agent' = agent \/ \E place : agent' = [agent EXCEPT ![t] = place]
  BY DEF CreateAgent, AgentRuns, AgentAsks, Answered, AgentEnds, KillAgent, AgentCancelled,
         AgentLeaves, AgentGoes, Notices, Notable, MarkReads, MarkWrites
<1>6. pending' = pending \/ \E n : pending' = [pending EXCEPT ![t] = n]
  BY DEF CreateAgent, AgentRuns, AgentAsks, Answered, AgentEnds, KillAgent, AgentCancelled,
         AgentLeaves, Notices, Notable, MarkReads, MarkWrites
<1>. QED  BY <1>0, <1>1, <1>2, <1>3, <1>4, <1>5, <1>6

LEMMA WorkersNext ==
    ASSUME Types, "stall" \notin hz, Workers, [Next]_vars
    PROVE  Workers'
<1>0. /\ kind \in [Tasks -> {"bash", "agent"}]
      /\ worker \in [Tasks -> WorkerPlaces] /\ wio \in [Tasks -> Records \cup {NoIO}]
      /\ child \in [Tasks -> [life : {"none", "alive", "succeeded", "failed"},
                              signal : {"none", "term", "kill"}]]
      /\ rt = [t \in Tasks |-> rt[t]]
      /\ \A t \in Tasks : Beats(t) => rt[t].status \in Active
  BY DEF Types, BashTypes, Workers, WorkerInv
<1>1. ASSUME NEW t \in Tasks, WorkerStep(t) \/ WorkerCrashes(t) PROVE Workers'
  BY <1>1, WorkersKept
<1>2. ASSUME NEW t \in Tasks, KillBash(t) \/ TimesOut(t) \/ ChildEnds(t) PROVE Workers'
  <2>1. /\ UNCHANGED <<kind, rt, wio, worker, mgr, hz>>
        /\ \/ child' = child
           \/ \E signal : child' = [child EXCEPT ![t].signal = signal]
           \/ /\ child[t].life = "alive"
              /\ \E life \in {"succeeded", "failed"} : child' = [child EXCEPT ![t].life = life]
    <3>1. CASE KillBash(t)
      <4>1. child' = [child EXCEPT ![t] =
                         IF rt[t].child /\ child[t].signal = "none"
                         THEN Signalled(child[t], "term") ELSE child[t]]
        BY <1>0, <3>1 DEF KillBash
      <4>2. CASE rt[t].child /\ child[t].signal = "none" /\ child[t].life = "alive"
        BY <1>0, <3>1, <4>1, <4>2 DEF KillBash, Signalled, agentVars
      <4>3. CASE ~(rt[t].child /\ child[t].signal = "none" /\ child[t].life = "alive")
        BY <1>0, <3>1, <4>1, <4>3 DEF KillBash, Signalled, agentVars
      <4>. QED  BY <4>2, <4>3
    <3>2. CASE TimesOut(t) \/ ChildEnds(t)
      BY <1>0, <3>2 DEF TimesOut, ChildEnds, agentVars
    <3>. QED  BY <1>2, <3>1, <3>2
  <2>2. \A u \in Tasks : /\ child'[u].life = "none" <=> child[u].life = "none"
                         /\ child'[u].life = "alive" => child[u].life = "alive"
    BY <1>0, <2>1
  <2>. QED  BY <2>1, <2>2, WorkersStay
<1>3. ASSUME NEW t \in Tasks,
             \/ CreateAgent(t) \/ AgentRuns(t) \/ AgentAsks(t) \/ Answered(t)
             \/ AgentEnds(t) \/ KillAgent(t) \/ AgentCancelled(t)
             \/ \E i \in DOMAIN marks[t] : Notices(t, i) \/ MarkReads(t, i) \/ MarkWrites(t, i)
      PROVE  Workers'
  BY <1>3, AgentStepEffect, Beating, WorkersStay
<1>4. ASSUME NEW t \in Tasks, CreateBash(t) PROVE Workers'
  <2>1. /\ rt[t].status = "none" /\ kind[t] = "bash" /\ mgr.at = "idle"
        /\ UNCHANGED <<kind, wio, child, hz>>
    BY <1>4 DEF CreateBash, MayCreate, LoopFree
  <2>2. ~Beats(t) /\ wio[t] = NoIO
    BY <1>0, <2>1, Beating DEF Active
  <2>3. "crash" \in hz \/ child[t].life # "alive"
    BY <2>2 DEF Workers, ChildInv, Beats
  <2>4. CASE /\ rt' = [rt EXCEPT ![t] = Status(NoRuntime, "created")]
             /\ worker' = [worker EXCEPT ![t] = "launched"]
             /\ mgr' = [Idle EXCEPT !.at = "create", !.task = t]
    <3>1. mgr'.at = "create"
      BY <2>4, IdleTypes
    <3>2. rt'[t].status = "created"
      BY <1>0, <2>4 DEF Status, NoRuntime
    <3>3. /\ \A u \in Tasks : u # t => rt'[u] = rt[u] /\ worker'[u] = worker[u]
          /\ worker'[t] = "launched"
      BY <1>0, <2>4
    <3>4. mgr'.at \notin Delivering /\ rt'[t].status \in Active
      BY <3>1, <3>2 DEF Delivering, Active
    <3>. QED  BY <2>1, <2>2, <2>3, <3>3, <3>4, WorkersStep
  <2>5. CASE rt' = [rt EXCEPT ![t] = Finished(NoRuntime, "failed")] /\ UNCHANGED <<worker, mgr>>
    <3>1. \A u \in Tasks : Beats(u) => rt'[u] = rt[u]
      BY <1>0, <2>2, <2>5
    <3>. QED  BY <2>1, <2>5, <3>1, WorkersStay
  <2>. QED  BY <1>4, <2>4, <2>5 DEF CreateBash, Writes
<1>5. CASE CreateReads
  <2>1. /\ mgr.at = "create"
        /\ UNCHANGED <<kind, rt, wio, worker, child, hz>>
        /\ mgr' = Idle \/ mgr' = [mgr EXCEPT !.io = Status(rt[mgr.task], "starting")]
    BY <1>5 DEF CreateReads, bashVars
  <2>2. mgr'.at \notin Delivering
    BY <2>1, IdleTypes DEF Delivering, Types, ManagerTypes
  <2>. QED  BY <2>1, <2>2, WorkersStay
<1>6. CASE CreateWrites
  <2>1. /\ mgr.task \in Tasks /\ mgr.io.status = "starting"
        /\ rt' = [rt EXCEPT ![mgr.task] = mgr.io]
        /\ UNCHANGED <<kind, wio, worker, child, hz>>
        /\ mgr' = Idle
    BY <1>6 DEF CreateWrites, Writes, bashVars, Types, ManagerTypes
  <2>2. mgr'.at \notin Delivering
    BY <2>1, IdleTypes DEF Delivering
  <2>3. \A t \in Tasks : rt'[t] = rt[t] \/ rt'[t].status \in Active
    BY <1>0, <2>1 DEF Active
  <2>. QED  BY <2>1, <2>2, <2>3, WorkersStay
<1>7. CASE DeliveryBegins \/ AgentProcessStarts
  <2>1. PICK purpose \in Delivering : Reconciles(purpose)
    BY <1>7 DEF DeliveryBegins, AgentProcessStarts, Delivering
  <2>2. PICK stale \in SUBSET {t \in Tasks : MayBeStale(t)} :
           mgr' = [at |-> purpose, task |-> NoIO, io |-> rt, stale |-> stale]
    BY <2>1 DEF Reconciles
  <2>3. UNCHANGED <<kind, rt, wio, worker, child, hz>>
    BY <2>1 DEF Reconciles, bashVars
  <2>4. \A t \in mgr'.stale : kind[t] = "bash" => worker[t] = "gone"
    BY <2>2 DEF MayBeStale
  <2>. QED  BY <2>3, <2>4, WorkersStay
<1>8. CASE WireDelivery \/ ModelDelivery \/ StartGoesOn
  <2>1. /\ mgr.at \in Delivering /\ rt' = AfterRecover /\ mgr' = Idle
        /\ UNCHANGED <<kind, wio, worker, child, hz>>
    BY <1>8, PublishesEffect
  <2>2. mgr'.at \notin Delivering
    BY <2>1, IdleTypes DEF Delivering
  <2>3. \A t \in Tasks : Beats(t) => rt'[t] = rt[t]
    <3>1. \A t \in Tasks : Beats(t) => t \notin mgr.stale
      BY <2>1, Beating DEF Workers, WorkerInv
    <3>. QED  BY <2>1, <3>1 DEF AfterRecover
  <2>. QED  BY <2>1, <2>2, <2>3, WorkersStay
<1>9. CASE AgentProcessEnds
  <2>1. UNCHANGED <<kind, rt, wio, worker, child, hz>>
        /\ mgr' = [Idle EXCEPT !.at = "down"]
    BY <1>9 DEF AgentProcessEnds, bashVars
  <2>2. mgr'.at \notin Delivering
    BY <2>1, IdleTypes DEF Delivering
  <2>. QED  BY <2>1, <2>2, WorkersStay
<1>10. CASE ModelGoesOn \/ TurnCancelled
  BY <1>10, NotificationTypes, WorkersStay
<1>11. ASSUME UNCHANGED vars PROVE Workers'
  BY <1>11, WorkersStay DEF vars, bashVars
<1>. QED  BY <1>1, <1>2, <1>3, <1>4, <1>5, <1>6, <1>7, <1>8, <1>9, <1>10, <1>11
          DEF Next, Environment, ManagerStep, AgentStep

LEMMA WorkersInit == Init => Workers
<1>. SUFFICES ASSUME Init PROVE Workers
  OBVIOUS
<1>1. \A t \in Tasks : worker[t] = "off" /\ wio[t] = NoIO /\ child[t].life = "none"
  BY DEF Init
<1>2. mgr.at \notin Delivering
  BY IdleTypes DEF Init, Delivering
<1>3. WorkerInv
  BY <1>1, <1>2 DEF WorkerInv, Beats
<1>4. ChildInv
  BY <1>1 DEF ChildInv
<1>. QED  BY <1>3, <1>4 DEF Workers

\* The inductive invariant: what a worker rules out needs heartbeats that are
\* believed.
TaskInv == Types /\ ("stall" \in hz \/ Workers)

LEMMA HazardsStay == [Next]_vars => hz' = hz
  BY ZenonT(40) DEF Next, Environment, ManagerStep, WorkerStep, AgentStep, vars,
         CreateBash, KillBash, TimesOut, ChildEnds, WorkerCrashes, CreateAgent, KillAgent,
         AgentAsks, Answered, AgentEnds, AgentLeaves, TurnCancelled, AgentProcessEnds,
         DeliveryBegins, Reconciles, CreateReads, CreateWrites, WireDelivery, ModelDelivery,
         ModelGoesOn, AgentProcessStarts, StartGoesOn, WorkerReads, WorkerWrites,
         WorkerStartsCommand, Terminates, WorkerCloses, AgentRuns, AgentCancelled,
         Notices, Notable, MarkReads, MarkWrites

LEMMA TaskInvariant == Spec => []TaskInv
<1>1. Init => TaskInv
  BY TypesInit, WorkersInit DEF TaskInv
<1>2. TaskInv /\ [Next]_vars => TaskInv'
  BY TypesNext, WorkersNext, HazardsStay DEF TaskInv
<1>. QED  BY <1>1, <1>2, PTL DEF Spec

\* A bash task shown as ended has no command running any more (worker.py waits
\* for it before the last write; recover() only takes tasks whose worker is gone).
THEOREM EndedMeansDead == Spec => []TerminalMeansDead
<1>1. ASSUME TaskInv PROVE TerminalMeansDead
  <2>. SUFFICES ASSUME Outside({"stall", "crash"}), NEW t \in Tasks, child[t].life = "alive"
                PROVE  ~IsTerminal(rt[t])
    BY DEF TerminalMeansDead
  <2>1. "stall" \notin hz /\ "crash" \notin hz
    BY DEF Outside
  <2>2. Beats(t)
    BY <1>1, <2>1 DEF TaskInv, Workers, ChildInv, Beats
  <2>3. rt[t].status \in Active
    BY <1>1, <2>1, <2>2 DEF TaskInv, Workers, WorkerInv
  <2>. QED  BY <2>3 DEF IsTerminal, Active, Ends
<1>. QED  BY <1>1, TaskInvariant, PTL

-----------------------------------------------------------------------------
(* What has ended stays so: no writer holds a record that is out of date.  *)

Stays == \A t \in Tasks : IsTerminal(rt[t]) => rt'[t] = rt[t]

\* While the manager has launched a task, nobody else has written for it.
CreateSettled ==
    mgr.at = "create" => rt[mgr.task].status = "created" /\ wio[mgr.task] = NoIO

\* A thread that has read a record keeps the event loop from ending its task.
MarksSettled ==
    \A t \in Tasks : \A i \in DOMAIN marks[t] :
        marks[t][i].io # NoIO => mgr.at = "idle" /\ ~IsTerminal(rt[t])

\* What recover() found active is so until it is written.
StaleSettled ==
    mgr.at \in Delivering => \A t \in mgr.stale : ~IsTerminal(rt[t])

Settled == CreateSettled /\ MarksSettled /\ StaleSettled

NoneBegun == \A t \in Tasks : \A i \in DOMAIN marks[t] : marks[t][i].io = NoIO

LEMMA ActiveNotEnded == \A r : r.status \in Active \cup {"none"} => ~IsTerminal(r)
  BY DEF IsTerminal, Active, Ends

LEMMA BusyNoneBegun ==
    ASSUME Settled, mgr.at # "idle"
    PROVE  NoneBegun
  BY DEF Settled, MarksSettled, NoneBegun

LEMMA WorkerStepEffect ==
    ASSUME Types, NEW t \in Tasks, WorkerStep(t) \/ WorkerCrashes(t)
    PROVE  /\ UNCHANGED <<kind, marks, mgr, hz>>
           /\ \A u \in Tasks : u # t => rt'[u] = rt[u] /\ wio'[u] = wio[u]
           /\ Beats(t)
           /\ "overlap" \notin hz /\ mgr.at = "create" /\ wio[t] = NoIO
                 => wio'[t] = NoIO /\ rt'[t] = rt[t]
<1>0. /\ wio \in [Tasks -> Records \cup {NoIO}] /\ worker \in [Tasks -> WorkerPlaces]
      /\ rt = [u \in Tasks |-> rt[u]]
      /\ wio[t] # NoIO => worker[t] \in {"launched", "spawned", "running"}
  BY DEF Types, BashTypes
<1>1. CASE WorkerReads(t)
  BY <1>0, <1>1 DEF WorkerReads, WorkerMayRead, WorkerOwes, Beats, agentVars
<1>2. CASE WorkerWrites(t)
  BY <1>0, <1>2 DEF WorkerWrites, Writes, WorkerOwes, Beats, agentVars
<1>3. CASE WorkerStartsCommand(t)
  BY <1>0, <1>3 DEF WorkerStartsCommand, Writes, WorkerMayRead, Beats, agentVars
<1>4. CASE WorkerCloses(t)
  BY <1>0, <1>4 DEF WorkerCloses, Writes, Beats, agentVars
<1>5. CASE WorkerCrashes(t)
  BY <1>0, <1>5 DEF WorkerCrashes, WorkerOwes, Beats, WorkerPlaces, agentVars
<1>6. CASE Terminates(t)
  BY <1>6 DEF Terminates, Beats, agentVars
<1>. QED  BY <1>1, <1>2, <1>3, <1>4, <1>5, <1>6 DEF WorkerStep

LEMMA WorkersSettled ==
    ASSUME Types, Workers, Settled, "overlap" \notin hz,
           NEW t \in Tasks, WorkerStep(t) \/ WorkerCrashes(t)
    PROVE  Settled' /\ Stays
<1>0. /\ UNCHANGED <<kind, marks, mgr, hz>>
      /\ \A u \in Tasks : u # t => rt'[u] = rt[u] /\ wio'[u] = wio[u]
      /\ Beats(t)
      /\ mgr.at = "create" /\ wio[t] = NoIO => wio'[t] = NoIO /\ rt'[t] = rt[t]
  BY WorkerStepEffect
<1>1. kind[t] = "bash" /\ rt[t].status \in Active
  BY <1>0, Beating DEF Workers, WorkerInv
<1>2. CreateSettled'
  BY <1>0 DEF Settled, CreateSettled, Types, ManagerTypes
<1>3. MarksSettled'
  <2>1. marks[t] = <<>>
    BY <1>1 DEF Types, AgentTypes
  <2>. QED  BY <1>0, <2>1, EmptySeq DEF Settled, MarksSettled
<1>4. StaleSettled'
  <2>1. mgr.at \in Delivering => t \notin mgr.stale /\ mgr.stale \subseteq Tasks
    BY <1>0, <1>1, Beating DEF Workers, WorkerInv, Types, ManagerTypes
  <2>. QED  BY <1>0, <2>1 DEF Settled, StaleSettled
<1>5. Stays
  BY <1>0, <1>1, ActiveNotEnded DEF Stays
<1>. QED  BY <1>2, <1>3, <1>4, <1>5 DEF Settled

\* A step that leaves the records alone, and the marks, the manager and the
\* workers' writes.
LEMMA RecordsStay ==
    ASSUME Settled, UNCHANGED <<rt, wio, marks, mgr>>
    PROVE  Settled' /\ Stays
BY DEF Settled, CreateSettled, MarksSettled, StaleSettled, Stays

\* A step that begins and ends with no thread's write under way.
LEMMA LoopSettled ==
    ASSUME NoneBegun', CreateSettled', StaleSettled'
    PROVE  Settled'
BY DEF NoneBegun, MarksSettled, Settled

LEMMA AgentLoopSettled ==
    ASSUME Types, Settled, "overlap" \notin hz, NEW t \in Tasks,
           \/ CreateAgent(t) \/ AgentRuns(t) \/ AgentAsks(t) \/ Answered(t)
           \/ AgentEnds(t) \/ KillAgent(t) \/ AgentCancelled(t)
    PROVE  Settled' /\ Stays
<1>. DEFINE m1 == Mark("awaiting_approval")
            m2 == Mark("answered")
<1>0. /\ kind[t] = "agent" /\ UNCHANGED <<kind, wio, mgr, hz>>
      /\ \A u \in Tasks : u # t => rt'[u] = rt[u] /\ marks'[u] = marks[u]
  BY AgentStepEffect
<1>1. mgr.at = "idle" /\ NoneBegun
  BY DEF CreateAgent, AgentRuns, AgentAsks, Answered, AgentEnds, KillAgent, AgentCancelled,
         LoopFree, NoneBegun
<1>2. /\ m1 \in Marks /\ m2 \in Marks /\ m1.io = NoIO /\ m2.io = NoIO
      /\ marks = [u \in Tasks |-> marks[u]] /\ marks[t] \in Seq(Marks)
      /\ rt = [u \in Tasks |-> rt[u]] /\ rt[t] \in Records
  BY DEF Mark, Marks, MarkStatus, Types, AgentTypes, BashTypes
<1>. HIDE DEF m1, m2
<1>3. \/ marks'[t] = marks[t] \/ marks'[t] = <<>>
      \/ marks'[t] = Append(marks[t], m1) \/ marks'[t] = Append(marks[t], m2)
  <2>1. CASE CreateAgent(t) \/ AgentRuns(t)
    BY <2>1 DEF CreateAgent, AgentRuns
  <2>2. CASE AgentAsks(t) \/ Answered(t) \/ KillAgent(t)
    BY <1>2, <2>2 DEF AgentAsks, Answered, KillAgent, m1, m2
  <2>3. CASE AgentEnds(t) \/ AgentCancelled(t)
    BY <1>1, <1>2, <2>3, BegunMarks DEF AgentEnds, AgentCancelled, AgentLeaves, NoneBegun
  <2>. QED  BY <2>1, <2>2, <2>3
<1>4. \A j \in DOMAIN marks'[t] : marks'[t][j].io = NoIO
  <2>1. \A m \in {m1, m2} : \A j \in DOMAIN Append(marks[t], m) : Append(marks[t], m)[j].io = NoIO
    BY <1>1, <1>2, MarkSequences DEF NoneBegun
  <2>. QED  BY <1>1, <1>3, <2>1, EmptySeq DEF NoneBegun
<1>5. NoneBegun'
  BY <1>0, <1>1, <1>4 DEF NoneBegun
<1>6. IsTerminal(rt[t]) => rt'[t] = rt[t]
  <2>1. \A r \in Records : IsTerminal(rt[t]) => MarkedAs(t, r) = rt[t]
    BY MarkedType DEF Types
  <2>2. /\ Status(rt[t], "running") \in Records
        /\ \A status \in Ends : /\ Finished(rt[t], status) \in Records
                                /\ [Finished(rt[t], status) EXCEPT !.timedOut = TRUE] \in Records
    BY <1>2, RecordTypes DEF Active
  <2>3. CASE CreateAgent(t)
    BY <2>3, ActiveNotEnded DEF CreateAgent, MayCreate
  <2>4. CASE AgentRuns(t)
    BY <1>2, <2>1, <2>2, <2>4 DEF AgentRuns, Writes
  <2>5. CASE AgentAsks(t) \/ Answered(t)
    BY <2>5 DEF AgentAsks, Answered
  <2>6. CASE AgentEnds(t) \/ KillAgent(t) \/ AgentCancelled(t)
    <3>1. \/ \E status \in {"completed", "failed", "killed"} :
               rt' = [rt EXCEPT ![t] = MarkedAs(t, Finished(rt[t], status))]
          \/ rt' = [rt EXCEPT ![t] =
                       MarkedAs(t, [Finished(rt[t], "failed") EXCEPT !.timedOut = TRUE])]
      BY <2>6 DEF AgentEnds, KillAgent, AgentCancelled, Writes
    <3>. QED  BY <1>2, <2>1, <2>2, <3>1 DEF Ends
  <2>. QED  BY <2>3, <2>4, <2>5, <2>6
<1>7. Stays
  BY <1>0, <1>6 DEF Stays
<1>8. CreateSettled' /\ StaleSettled'
  BY <1>0, <1>1 DEF CreateSettled, StaleSettled, Delivering
<1>. QED  BY <1>5, <1>7, <1>8, LoopSettled

\* An answer's task begins no write.
LEMMA NoticesBegun ==
    ASSUME Types, NEW t \in Tasks, NEW i \in DOMAIN marks[t], Notices(t, i), NoneBegun
    PROVE  \A j \in DOMAIN marks'[t] : marks'[t][j].io = NoIO
<1>1. marks[t] \in Seq(Marks) /\ marks[t][i].io = NoIO
  BY DEF Types, AgentTypes, NoneBegun
<1>2. PICK ms \in Seq(Marks) :
         /\ marks'[t] = ms
         /\ ms = RemoveAt(marks[t], i) \/ ms = [marks[t] EXCEPT ![i].status = "running"]
  BY NoticesMarks
<1>3. CASE ms = RemoveAt(marks[t], i)
  <2>1. \A j \in DOMAIN ms : \E k \in DOMAIN marks[t] : ms[j] = marks[t][k]
    BY <1>1, <1>3, MarkSequences
  <2>2. \A k \in DOMAIN marks[t] : marks[t][k].io = NoIO
    BY DEF NoneBegun
  <2>3. \A j \in DOMAIN ms : ms[j].io = NoIO
    BY <2>1, <2>2
  <2>. QED  BY <1>2, <2>3
<1>4. CASE ms = [marks[t] EXCEPT ![i].status = "running"]
  <2>1. \A j \in DOMAIN marks[t] : j # i => ms[j] = marks[t][j]
    BY <1>4
  <2>2. ms[i] = [marks[t][i] EXCEPT !.status = "running"] /\ DOMAIN ms = DOMAIN marks[t]
    BY <1>4
  <2>3. marks[t][i] \in Marks
    BY <1>1, ElementOfSeq, LenProperties
  <2>4. ms[i].io = NoIO
    BY <1>1, <2>2, <2>3 DEF Marks
  <2>5. \A k \in DOMAIN marks[t] : marks[t][k].io = NoIO
    BY DEF NoneBegun
  <2>6. \A j \in DOMAIN ms : ms[j].io = NoIO
    BY <2>1, <2>2, <2>4, <2>5
  <2>. QED  BY <1>2, <2>6
<1>. QED  BY <1>2, <1>3, <1>4

LEMMA NoticesSettled ==
    ASSUME Types, Settled, "overlap" \notin hz, NEW t \in Tasks, NEW i \in DOMAIN marks[t],
           Notices(t, i)
    PROVE  Settled' /\ Stays
<1>0. /\ UNCHANGED <<rt, wio, mgr, hz>> /\ \A u \in Tasks : u # t => marks'[u] = marks[u]
  <2>1. UNCHANGED <<wio, mgr, hz>> /\ \A u \in Tasks : u # t => marks'[u] = marks[u]
    BY AgentStepEffect
  <2>. QED  BY <2>1 DEF Notices
<1>1. mgr.at = "idle" /\ NoneBegun
  BY DEF Notices, Notable, LoopFree, NoneBegun
<1>4. \A j \in DOMAIN marks'[t] : marks'[t][j].io = NoIO
  BY <1>1, NoticesBegun
<1>5. NoneBegun'
  BY <1>0, <1>1, <1>4 DEF NoneBegun
<1>6. CreateSettled' /\ StaleSettled' /\ Stays
  BY <1>0, <1>1 DEF CreateSettled, StaleSettled, Delivering, Stays
<1>. QED  BY <1>5, <1>6, LoopSettled

LEMMA ThreadsSettled ==
    ASSUME Types, Settled, "overlap" \notin hz, NEW t \in Tasks, NEW i \in DOMAIN marks[t],
           MarkReads(t, i) \/ MarkWrites(t, i)
    PROVE  Settled' /\ Stays
<1>0. /\ UNCHANGED <<kind, wio, mgr, hz>>
      /\ \A u \in Tasks : u # t => rt'[u] = rt[u] /\ marks'[u] = marks[u]
  BY AgentStepEffect
<1>1. /\ marks = [u \in Tasks |-> marks[u]] /\ marks[t] \in Seq(Marks)
      /\ marks[t][i] \in Marks /\ rt = [u \in Tasks |-> rt[u]]
  <2>1. marks = [u \in Tasks |-> marks[u]] /\ marks[t] \in Seq(Marks)
        /\ rt = [u \in Tasks |-> rt[u]]
    BY DEF Types, AgentTypes, BashTypes
  <2>. QED  BY <2>1, ElementOfSeq, LenProperties
<1>2. mgr.at = "idle"
  BY DEF MarkReads, MarkWrites, Settled, MarksSettled
<1>3. \A j \in DOMAIN marks[t] : marks[t][j].io # NoIO => ~IsTerminal(rt[t])
  BY DEF Settled, MarksSettled
<1>4. \A j \in DOMAIN RemoveAt(marks[t], i) :
         \E k \in DOMAIN marks[t] : RemoveAt(marks[t], i)[j] = marks[t][k]
  BY <1>1, MarkSequences
<1>5. ASSUME MarkReads(t, i)
      PROVE  /\ Stays
             /\ \A j \in DOMAIN marks'[t] : marks'[t][j].io # NoIO => ~IsTerminal(rt'[t])
  <2>1. rt' = rt
    BY <1>5 DEF MarkReads
  <2>2. CASE IsTerminal(rt[t])
    <3>1. marks'[t] = RemoveAt(marks[t], i)
      BY <1>1, <1>5, <2>2 DEF MarkReads
    <3>. QED  BY <1>3, <1>4, <2>1, <3>1 DEF Stays
  <2>3. CASE ~IsTerminal(rt[t])
    BY <2>1, <2>3 DEF Stays
  <2>. QED  BY <2>2, <2>3
<1>6. ASSUME MarkWrites(t, i)
      PROVE  /\ Stays
             /\ \A j \in DOMAIN marks'[t] : marks'[t][j].io # NoIO => ~IsTerminal(rt'[t])
  <2>1. /\ marks[t][i].io # NoIO /\ ~IsTerminal(rt[t])
        /\ rt' = [rt EXCEPT ![t] = marks[t][i].io]
    BY <1>3, <1>6 DEF MarkWrites, Writes
  <2>2. rt'[t].status \in Active
    BY <1>1, <2>1 DEF Marks
  <2>3. ~IsTerminal(rt'[t])
    BY <2>2 DEF IsTerminal, Active, Ends
  <2>. QED  BY <1>0, <2>1, <2>3 DEF Stays
<1>7. MarksSettled'
  BY <1>0, <1>2, <1>5, <1>6 DEF Settled, MarksSettled
<1>8. CreateSettled' /\ StaleSettled'
  BY <1>0, <1>2 DEF CreateSettled, StaleSettled, Delivering
<1>. QED  BY <1>5, <1>6, <1>7, <1>8 DEF Settled

LEMMA ManagerSettled ==
    ASSUME Types, Workers, Settled, "stall" \notin hz, "overlap" \notin hz,
           \/ \E t \in Tasks : CreateBash(t)
           \/ CreateReads \/ CreateWrites \/ DeliveryBegins \/ AgentProcessStarts
           \/ WireDelivery \/ ModelDelivery \/ StartGoesOn \/ AgentProcessEnds
    PROVE  Settled' /\ Stays
<1>0. rt = [t \in Tasks |-> rt[t]] /\ marks = [t \in Tasks |-> marks[t]]
  BY DEF Types, AgentTypes, BashTypes
<1>1. ASSUME NEW t \in Tasks, CreateBash(t) PROVE Settled' /\ Stays
  <2>1. /\ rt[t].status = "none" /\ mgr.at = "idle" /\ NoneBegun
        /\ UNCHANGED <<wio, marks>>
    BY <1>1 DEF CreateBash, MayCreate, LoopFree, NoneBegun, agentVars
  <2>2. wio[t] = NoIO /\ ~IsTerminal(rt[t])
    BY <2>1, Beating, ActiveNotEnded DEF Workers, WorkerInv, Active
  <2>3. \/ /\ mgr' = [at |-> "create", task |-> t, io |-> NoIO, stale |-> {}]
           /\ rt' = [rt EXCEPT ![t] = Status(NoRuntime, "created")]
        \/ /\ mgr' = mgr
           /\ rt' = [rt EXCEPT ![t] = Finished(NoRuntime, "failed")]
    BY <1>1, IdleTypes DEF CreateBash, Writes
  <2>4. Status(NoRuntime, "created").status = "created"
    BY DEF Status, NoRuntime
  <2>5. CreateSettled' /\ StaleSettled'
    BY <1>0, <2>1, <2>2, <2>3, <2>4 DEF CreateSettled, StaleSettled, Delivering
  <2>6. Stays
    BY <1>0, <2>2, <2>3 DEF Stays
  <2>7. NoneBegun'
    BY <2>1 DEF NoneBegun
  <2>. QED  BY <2>5, <2>6, <2>7, LoopSettled
<1>2. CASE CreateReads \/ CreateWrites
  <2>1. /\ mgr.at = "create" /\ mgr.task \in Tasks /\ UNCHANGED <<wio, marks>>
        /\ \/ /\ rt' = rt
              /\ \/ mgr' = Idle
                 \/ mgr' = [mgr EXCEPT !.io = Status(rt[mgr.task], "starting")]
           \/ rt' = [rt EXCEPT ![mgr.task] = mgr.io] /\ mgr' = Idle
    BY <1>2 DEF CreateReads, CreateWrites, Writes, bashVars, agentVars, Types, ManagerTypes
  <2>2. NoneBegun'
    BY <2>1, BusyNoneBegun DEF NoneBegun
  <2>3. Stays
    <3>1. ~IsTerminal(rt[mgr.task])
      BY <2>1, ActiveNotEnded DEF Settled, CreateSettled, Active
    <3>. QED  BY <1>0, <2>1, <3>1 DEF Stays
  <2>4. CreateSettled' /\ StaleSettled'
    <3>1. CASE mgr' = Idle
      BY <3>1, IdleTypes DEF CreateSettled, StaleSettled, Delivering
    <3>2. CASE rt' = rt /\ mgr' = [mgr EXCEPT !.io = Status(rt[mgr.task], "starting")]
      <4>1. mgr'.at = "create" /\ mgr'.task = mgr.task
        BY <2>1, <3>2 DEF Types, ManagerTypes
      <4>. QED  BY <2>1, <3>2, <4>1 DEF Settled, CreateSettled, StaleSettled, Delivering
    <3>. QED  BY <2>1, <3>1, <3>2
  <2>. QED  BY <2>2, <2>3, <2>4, LoopSettled
<1>3. CASE DeliveryBegins \/ AgentProcessStarts
  <2>1. NoneBegun
    BY <1>3, BusyNoneBegun DEF DeliveryBegins, AgentProcessStarts, LoopFree, NoneBegun
  <2>2. PICK purpose \in Delivering : Reconciles(purpose)
    BY <1>3 DEF DeliveryBegins, AgentProcessStarts, Delivering
  <2>3. PICK stale \in SUBSET {t \in Tasks : MayBeStale(t)} :
           mgr' = [at |-> purpose, task |-> NoIO, io |-> rt, stale |-> stale]
    BY <2>2 DEF Reconciles
  <2>4. UNCHANGED <<rt, wio, marks>>
    BY <2>2 DEF Reconciles, bashVars, agentVars
  <2>5. \A t \in stale : ~IsTerminal(rt[t])
    BY <2>3, ActiveNotEnded DEF MayBeStale
  <2>6. CreateSettled' /\ StaleSettled'
    BY <2>2, <2>3, <2>4, <2>5 DEF CreateSettled, StaleSettled, Delivering
  <2>7. NoneBegun' /\ Stays
    BY <2>1, <2>4 DEF NoneBegun, Stays
  <2>. QED  BY <2>6, <2>7, LoopSettled
<1>4. CASE WireDelivery \/ ModelDelivery \/ StartGoesOn
  <2>1. /\ mgr.at \in Delivering /\ rt' = AfterRecover /\ mgr' = Idle
        /\ UNCHANGED <<wio, marks>>
    BY <1>4, PublishesEffect
  <2>2. NoneBegun'
    BY <2>1, BusyNoneBegun DEF NoneBegun, Delivering
  <2>3. CreateSettled' /\ StaleSettled'
    BY <2>1, IdleTypes DEF CreateSettled, StaleSettled, Delivering
  <2>4. Stays
    BY <2>1 DEF Stays, AfterRecover, Settled, StaleSettled
  <2>. QED  BY <2>2, <2>3, <2>4, LoopSettled
<1>5. CASE AgentProcessEnds
  <2>1. /\ marks' = [t \in Tasks |-> <<>>] /\ rt' = rt
        /\ mgr' = [at |-> "down", task |-> NoIO, io |-> NoIO, stale |-> {}]
    BY <1>5, IdleTypes DEF AgentProcessEnds
  <2>2. NoneBegun' /\ Stays
    BY <2>1, EmptySeq DEF NoneBegun, Stays
  <2>3. CreateSettled' /\ StaleSettled'
    BY <2>1 DEF CreateSettled, StaleSettled, Delivering
  <2>. QED  BY <2>2, <2>3, LoopSettled
<1>. QED  BY <1>1, <1>2, <1>3, <1>4, <1>5

LEMMA SettledNext ==
    ASSUME Types, Workers, Settled, "stall" \notin hz, "overlap" \notin hz, [Next]_vars
    PROVE  Settled' /\ Stays
<1>1. ASSUME UNCHANGED vars PROVE Settled' /\ Stays
  BY <1>1, RecordsStay DEF vars, bashVars, agentVars
<1>2. ASSUME NEW t \in Tasks, KillBash(t) \/ TimesOut(t) \/ ChildEnds(t)
      PROVE  Settled' /\ Stays
  BY <1>2, RecordsStay DEF KillBash, TimesOut, ChildEnds, agentVars
<1>3. CASE ModelGoesOn \/ TurnCancelled
  BY <1>3, RecordsStay, NotificationTypes
<1>. QED  BY <1>1, <1>2, <1>3, WorkersSettled, AgentLoopSettled, NoticesSettled, ThreadsSettled,
             ManagerSettled
          DEF Next, Environment, ManagerStep, AgentStep

LEMMA SettledInit == Init => Settled
<1>. SUFFICES ASSUME Init PROVE Settled
  OBVIOUS
<1>1. NoneBegun
  BY EmptySeq DEF Init, NoneBegun
<1>. QED  BY <1>1, IdleTypes DEF Init, Settled, CreateSettled, MarksSettled, StaleSettled,
                                 NoneBegun, Delivering

\* The inductive invariant of the records no two writers mix up.
RecordInv == TaskInv /\ ("stall" \in hz \/ "overlap" \in hz \/ Settled)

LEMMA RecordInvariant == Spec => []RecordInv
<1>1. Init => RecordInv
  BY TypesInit, WorkersInit, SettledInit DEF RecordInv, TaskInv
<1>2. RecordInv /\ [Next]_vars => RecordInv'
  BY TypesNext, WorkersNext, SettledNext, HazardsStay DEF RecordInv, TaskInv
<1>. QED  BY <1>1, <1>2, PTL DEF Spec

\* A task that has ended stays in the state it ended in: neither a late
\* approval, a late cancellation, a recovery nor the worker's last write
\* changes it (_mark_task_* in manager.py), as long as no heartbeat is late
\* and no two read-modify-writes of runtime.json overlap.
THEOREM EndedStays == Spec => TerminalStays
<1>1. ASSUME RecordInv, [Next]_vars
      PROVE  Outside({"stall", "overlap"}) =>
                \A t \in Tasks : IsTerminal(rt[t]) => rt'[t] = rt[t]
  <2>. SUFFICES ASSUME Outside({"stall", "overlap"}) PROVE Stays
    BY DEF Stays
  <2>1. "stall" \notin hz /\ "overlap" \notin hz
    BY DEF Outside
  <2>. QED  BY <1>1, <2>1, SettledNext DEF RecordInv, TaskInv
<1>. QED  BY <1>1, RecordInvariant, PTL DEF Spec, TerminalStays

-----------------------------------------------------------------------------
(* Approvals: what threads have yet to write, and what is pending.         *)

\* The status a task recorded as r is shown in once the updates ms are done.
Latest(r, ms) == IF ms = <<>> THEN r.status ELSE ms[Len(ms)].status

\* The last status but for the answers, each of which counts for nothing while
\* a request is pending, is that of a request.
LastAwaits(r, ms) ==
    \E k \in 0..Len(ms) :
       /\ (IF k = 0 THEN r.status ELSE ms[k].status) = "awaiting_approval"
       /\ \A j \in (k + 1)..Len(ms) : ms[j].status = "answered"

Shown(t) ==
    /\ agent[t] = "off" <=> rt[t].status = "none"
    /\ agent[t] \in {"off", "new"} => marks[t] = <<>> /\ pending[t] = 0
    /\ agent[t] \in {"new", "running"} => rt[t].status \in Active
    /\ \A i \in DOMAIN marks[t] :
          marks[t][i].io # NoIO => i = 1 /\ marks[t][i].io.status = marks[t][i].status
    /\ agent[t] = "running" =>
          IF pending[t] > 0 THEN LastAwaits(rt[t], marks[t])
                            ELSE Latest(rt[t], marks[t]) # "awaiting_approval"
    /\ mgr.at \in Delivering /\ t \in mgr.stale => agent[t] = "gone"

ShownInv == \A t \in Tasks : kind[t] = "agent" => Shown(t)

LEMMA AnswerKeepsLast ==
    ASSUME NEW r \in Records, NEW ms \in Seq(Marks), LastAwaits(r, ms),
           NEW m \in Marks, m.status = "answered"
    PROVE  LastAwaits(r, Append(ms, m))
<1>. DEFINE more == Append(ms, m)
<1>1. /\ Len(ms) \in Nat /\ Len(more) = Len(ms) + 1
      /\ \A i \in 1..Len(ms) : more[i] = ms[i]
      /\ more[Len(ms) + 1] = m
  BY AppendProperties, LenProperties
<1>. HIDE DEF more
<1>2. PICK k \in 0..Len(ms) :
         /\ (IF k = 0 THEN r.status ELSE ms[k].status) = "awaiting_approval"
         /\ \A j \in (k + 1)..Len(ms) : ms[j].status = "answered"
  BY DEF LastAwaits
<1>3. k \in 0..Len(more) /\ (k # 0 => k \in 1..Len(ms))
  BY <1>1
<1>4. (IF k = 0 THEN r.status ELSE more[k].status) = "awaiting_approval"
  BY <1>1, <1>2, <1>3
<1>5. ASSUME NEW j \in (k + 1)..Len(more) PROVE more[j].status = "answered"
  <2>1. (j \in (k + 1)..Len(ms) /\ j \in 1..Len(ms)) \/ j = Len(ms) + 1
    BY <1>1, <1>3
  <2>. QED  BY <1>1, <1>2, <2>1
<1>6. LastAwaits(r, more)
  BY <1>3, <1>4, <1>5 DEF LastAwaits
<1>. QED  BY <1>6 DEF more

LEMMA NoticeKeepsLast ==
    ASSUME NEW r \in Records, NEW ms \in Seq(Marks), LastAwaits(r, ms),
           NEW i \in DOMAIN ms, ms[i].status = "answered"
    PROVE  LastAwaits(r, RemoveAt(ms, i))
<1>. DEFINE rest == RemoveAt(ms, i)
<1>1. /\ Len(rest) = Len(ms) - 1 /\ Len(ms) \in Nat \ {0} /\ i \in 1..Len(ms)
      /\ \A j \in 1..(Len(ms) - 1) : rest[j] = IF j < i THEN ms[j] ELSE ms[j + 1]
  BY MarkRemoved
<1>. HIDE DEF rest
<1>2. PICK k \in 0..Len(ms) :
         /\ (IF k = 0 THEN r.status ELSE ms[k].status) = "awaiting_approval"
         /\ \A j \in (k + 1)..Len(ms) : ms[j].status = "answered"
  BY DEF LastAwaits
<1>3. k # i
  BY <1>1, <1>2
<1>. DEFINE n == IF k < i THEN k ELSE k - 1
<1>4. n \in 0..Len(rest) /\ (n = 0 <=> k = 0)
  BY <1>1, <1>3
<1>5. n # 0 => rest[n] = ms[k]
  <2>1. CASE k < i
    BY <1>1, <2>1
  <2>2. CASE k > i
    <3>1. n = k - 1 /\ n \in 1..(Len(ms) - 1) /\ ~(n < i) /\ n + 1 = k
      BY <1>1, <2>2
    <3>. HIDE DEF n
    <3>. QED  BY <1>1, <3>1
  <2>. QED  BY <1>1, <1>3, <2>1, <2>2
<1>6. ASSUME NEW j \in (n + 1)..Len(rest) PROVE rest[j].status = "answered"
  <2>1. j \in 1..(Len(ms) - 1) /\ (j < i => j \in (k + 1)..Len(ms))
        /\ (~(j < i) => j + 1 \in (k + 1)..Len(ms))
    BY <1>1, <1>3
  <2>. QED  BY <1>1, <1>2, <2>1
<1>. HIDE DEF n
<1>7. LastAwaits(r, rest)
  BY <1>2, <1>4, <1>5, <1>6 DEF LastAwaits
<1>. QED  BY <1>7 DEF rest

LEMMA WriteKeepsLast ==
    ASSUME NEW r \in Records, NEW ms \in Seq(Marks), LastAwaits(r, ms),
           1 \in DOMAIN ms, ms[1].status # "answered",
           NEW w \in Records, w.status = ms[1].status
    PROVE  LastAwaits(w, RemoveAt(ms, 1))
<1>. DEFINE rest == RemoveAt(ms, 1)
<1>1. /\ Len(rest) = Len(ms) - 1 /\ Len(ms) \in Nat \ {0}
      /\ \A j \in 1..(Len(ms) - 1) : rest[j] = ms[j + 1]
  BY MarkRemoved
<1>. HIDE DEF rest
<1>2. PICK k \in 0..Len(ms) :
         /\ (IF k = 0 THEN r.status ELSE ms[k].status) = "awaiting_approval"
         /\ \A j \in (k + 1)..Len(ms) : ms[j].status = "answered"
  BY DEF LastAwaits
<1>3. k \in 1..Len(ms) /\ k - 1 \in 0..Len(rest)
  BY <1>1, <1>2
<1>4. (IF k - 1 = 0 THEN w.status ELSE rest[k - 1].status) = "awaiting_approval"
  <2>1. CASE k = 1
    BY <1>2, <2>1
  <2>2. CASE k # 1
    <3>1. k - 1 \in 1..(Len(ms) - 1) /\ k - 1 # 0 /\ (k - 1) + 1 = k /\ k # 0
      BY <1>1, <1>3, <2>2
    <3>. QED  BY <1>1, <1>2, <3>1
  <2>. QED  BY <2>1, <2>2
<1>5. ASSUME NEW j \in ((k - 1) + 1)..Len(rest) PROVE rest[j].status = "answered"
  <2>1. j \in 1..(Len(ms) - 1) /\ j + 1 \in (k + 1)..Len(ms)
    BY <1>1, <1>3
  <2>. QED  BY <1>1, <1>2, <2>1
<1>6. LastAwaits(w, rest)
  BY <1>3, <1>4, <1>5 DEF LastAwaits
<1>. QED  BY <1>6 DEF rest

LEMMA ShownStays ==
    ASSUME NEW t \in Tasks, Shown(t),
           rt'[t] = rt[t], agent'[t] = agent[t], pending'[t] = pending[t], marks'[t] = marks[t],
           \/ mgr' = mgr
           \/ mgr'.at \notin Delivering
           \/ t \in mgr'.stale => agent[t] = "gone"
    PROVE  Shown(t)'
BY DEF Shown

\* The steps of an agent task.
LEMMA AgentShown ==
    ASSUME Types, "overlap" \notin hz, NEW t \in Tasks, kind[t] = "agent", Shown(t),
           \/ CreateAgent(t) \/ AgentRuns(t) \/ AgentAsks(t) \/ Answered(t)
           \/ AgentEnds(t) \/ KillAgent(t) \/ AgentCancelled(t)
           \/ \E i \in DOMAIN marks[t] : Notices(t, i) \/ MarkReads(t, i) \/ MarkWrites(t, i)
    PROVE  Shown(t)'
<1>. DEFINE m1 == Mark("awaiting_approval")
            m2 == Mark("answered")
<1>0. /\ m1 \in Marks /\ m1.io = NoIO /\ m1.status = "awaiting_approval"
      /\ m2 \in Marks /\ m2.io = NoIO /\ m2.status = "answered"
      /\ marks = [u \in Tasks |-> marks[u]] /\ marks[t] \in Seq(Marks)
      /\ rt = [u \in Tasks |-> rt[u]] /\ rt[t] \in Records
      /\ pending \in [Tasks -> Nat] /\ agent \in [Tasks -> AgentPlaces]
      /\ Len(marks[t]) \in Nat /\ DOMAIN marks[t] = 1..Len(marks[t])
      /\ marks[t] = <<>> <=> Len(marks[t]) = 0
      /\ mgr' = mgr
  <2>1. marks[t] \in Seq(Marks)
    BY DEF Types, AgentTypes
  <2>2. /\ Len(marks[t]) \in Nat /\ DOMAIN marks[t] = 1..Len(marks[t])
        /\ marks[t] = <<>> <=> Len(marks[t]) = 0
    BY <2>1, LenProperties, EmptySeq
  <2>3. mgr' = mgr
    BY AgentStepEffect
  <2>. QED  BY <2>1, <2>2, <2>3 DEF Mark, Marks, MarkStatus, Types, AgentTypes, BashTypes
<1>. HIDE DEF m1, m2
\* One more mark, which no thread has begun.
<1>1. ASSUME NEW m \in {m1, m2}
      PROVE  /\ Append(marks[t], m) # <<>>
             /\ Append(marks[t], m)[Len(Append(marks[t], m))] = m
             /\ \A i \in DOMAIN Append(marks[t], m) : Append(marks[t], m)[i].io # NoIO =>
                   i \in DOMAIN marks[t] /\ Append(marks[t], m)[i] = marks[t][i]
  <2>. DEFINE more == Append(marks[t], m)
  <2>1. /\ more \in Seq(Marks) /\ Len(more) = Len(marks[t]) + 1
        /\ DOMAIN more = 1..(Len(marks[t]) + 1)
        /\ \A i \in 1..Len(marks[t]) : more[i] = marks[t][i]
        /\ more[Len(marks[t]) + 1] = m
    BY <1>0, AppendProperties
  <2>2. Len(more) # 0
    BY <1>0, <2>1
  <2>3. more # <<>>
    BY <2>2, EmptySeq
  <2>. HIDE DEF more
  <2>4. \A i \in DOMAIN more : more[i].io # NoIO => i \in DOMAIN marks[t] /\ more[i] = marks[t][i]
    <3>1. \A i \in DOMAIN more : i \in 1..Len(marks[t]) \/ i = Len(marks[t]) + 1
      BY <1>0, <2>1
    <3>. QED  BY <1>0, <2>1, <3>1
  <2>5. more # <<>> /\ more[Len(more)] = m
    BY <2>1, <2>3
  <2>. QED  BY <2>4, <2>5 DEF more
<1>2. CASE CreateAgent(t)
  <2>1. marks[t] = <<>> /\ pending[t] = 0 /\ mgr.at = "idle"
    BY <1>2 DEF CreateAgent, MayCreate, Shown, LoopFree
  <2>2. /\ rt'[t] = Status(NoRuntime, "starting") /\ agent'[t] = "new"
        /\ marks'[t] = marks[t] /\ pending'[t] = pending[t]
    BY <1>0, <1>2 DEF CreateAgent, Writes, AgentGoes
  <2>3. rt'[t].status = "starting"
    BY <2>2 DEF Status, NoRuntime
  <2>. QED  BY <1>0, <2>1, <2>2, <2>3, EmptySeq DEF Shown, Delivering, Active
<1>3. CASE AgentRuns(t)
  <2>1. marks[t] = <<>> /\ pending[t] = 0 /\ mgr.at = "idle" /\ rt[t].status \in Active
    BY <1>3 DEF AgentRuns, Shown, LoopFree
  <2>2. /\ rt'[t] = MarkedAs(t, Status(rt[t], "running")) /\ agent'[t] = "running"
        /\ marks'[t] = marks[t] /\ pending'[t] = pending[t]
    BY <1>0, <1>3 DEF AgentRuns, Writes, AgentGoes
  <2>3. rt'[t].status = "running"
    <3>1. ~IsTerminal(rt[t])
      BY <2>1, ActiveNotEnded
    <3>. QED  BY <1>0, <2>2, <3>1 DEF MarkedAs, Status, Records, Runtimes, IsTerminal
  <2>. QED  BY <1>0, <2>1, <2>2, <2>3, EmptySeq DEF Shown, Latest, Delivering, Active
<1>4. CASE AgentAsks(t)
  <2>1. /\ agent[t] = "running" /\ mgr.at = "idle"
        /\ rt' = rt /\ agent' = agent /\ pending'[t] = pending[t] + 1
        /\ marks'[t] = Append(marks[t], m1)
    BY <1>0, <1>4 DEF AgentAsks, LoopFree, m1
  <2>2. LastAwaits(rt'[t], marks'[t])
    <3>1. Len(marks'[t]) = Len(marks[t]) + 1 /\ marks'[t][Len(marks[t]) + 1] = m1
      BY <1>0, <2>1, AppendProperties
    <3>2. /\ Len(marks[t]) + 1 \in 0..Len(marks'[t]) /\ Len(marks[t]) + 1 # 0
          /\ (Len(marks[t]) + 1 + 1)..Len(marks'[t]) = {}
      BY <1>0, <3>1
    <3>. QED  BY <1>0, <3>1, <3>2 DEF LastAwaits
  <2>3. pending'[t] > 0
    BY <1>0, <2>1
  <2>. QED  BY <1>0, <1>1, <2>1, <2>2, <2>3 DEF Shown, Delivering
<1>5. CASE Answered(t)
  <2>1. /\ agent[t] \notin {"off", "new"} /\ mgr.at = "idle" /\ pending[t] > 0
        /\ rt' = rt /\ agent' = agent /\ pending'[t] = pending[t] - 1
        /\ marks'[t] = Append(marks[t], m2)
    BY <1>0, <1>5 DEF Answered, LoopFree, m2, Shown
  <2>2. CASE pending[t] = 1
    <3>1. Latest(rt'[t], marks'[t]) = "answered" /\ ~(pending'[t] > 0)
      BY <1>0, <1>1, <2>1, <2>2 DEF Latest
    <3>. QED  BY <1>0, <1>1, <2>1, <2>2, <3>1 DEF Shown, Delivering
  <2>3. CASE pending[t] # 1
    <3>1. pending'[t] > 0
      BY <1>0, <2>1, <2>3
    <3>2. agent[t] = "running" => LastAwaits(rt'[t], marks'[t])
      BY <1>0, <2>1, AnswerKeepsLast DEF Shown
    <3>. QED  BY <1>0, <1>1, <2>1, <2>3, <3>1, <3>2 DEF Shown, Delivering
  <2>. QED  BY <2>2, <2>3
<1>6. CASE AgentEnds(t) \/ AgentCancelled(t)
  <2>1. /\ LoopFree /\ mgr.at = "idle" /\ rt[t].status # "none"
        /\ agent'[t] = "gone" /\ pending'[t] = 0 /\ marks'[t] = Begun(marks[t])
    BY <1>0, <1>6 DEF AgentEnds, AgentCancelled, AgentLeaves, AgentGoes, LoopFree, Shown
  <2>2. marks'[t] = <<>>
    BY <2>1, LeavesMarks
  <2>3. rt'[t].status # "none"
    <3>1. \/ rt'[t] = rt[t]
          \/ \E status \in Ends : rt'[t] = Finished(rt[t], status)
          \/ rt'[t] = [Finished(rt[t], "failed") EXCEPT !.timedOut = TRUE]
      BY <1>0, <1>6 DEF AgentEnds, AgentCancelled, Writes, MarkedAs, Ends
    <3>2. \A status \in Ends :
             /\ Finished(rt[t], status).status = status
             /\ [Finished(rt[t], status) EXCEPT !.timedOut = TRUE].status = status
      BY <1>0 DEF Finished, Records, Runtimes, IsTerminal
    <3>. QED  BY <2>1, <3>1, <3>2 DEF Ends
  <2>. QED  BY <1>0, <2>1, <2>2, <2>3, EmptySeq DEF Shown, Delivering
<1>7. CASE KillAgent(t)
  <2>1. /\ mgr.at = "idle" /\ rt[t].status \in Active /\ agent[t] # "off"
        /\ agent'[t] = (IF Live(t) THEN "cancelling" ELSE agent[t]) /\ pending'[t] = 0
        /\ marks'[t] = IF pending[t] > 0 THEN Append(marks[t], m2) ELSE marks[t]
        /\ rt'[t] = MarkedAs(t, Finished(rt[t], "killed"))
    BY <1>0, <1>7 DEF KillAgent, LoopFree, Shown, Writes, m2, Active
  <2>2. rt'[t].status # "none"
    <3>1. \A status \in Ends : Finished(rt[t], status).status = status
      BY <1>0 DEF Finished, Records, Runtimes, IsTerminal
    <3>. QED  BY <2>1, <3>1 DEF MarkedAs, Ends, Active
  <2>3. agent'[t] \in {"cancelling", "gone"}
    BY <1>0, <2>1 DEF Live, AgentPlaces
  <2>4. \A i \in DOMAIN marks'[t] :
           marks'[t][i].io # NoIO => i = 1 /\ marks'[t][i].io.status = marks'[t][i].status
    BY <1>0, <1>1, <2>1 DEF Shown
  <2>. QED  BY <1>0, <2>1, <2>2, <2>3, <2>4 DEF Shown, Delivering
<1>8. ASSUME NEW i \in DOMAIN marks[t], MarkReads(t, i) \/ MarkWrites(t, i)
      PROVE  Shown(t)'
  <2>0. marks[t][i].status # "answered"
    <3>1. marks[t][i] \in Marks
      BY <1>0, ElementOfSeq
    <3>. QED  BY <1>8, <3>1 DEF MarkReads, MarkWrites, Marks
  <2>1. /\ i = 1 /\ 1 \in DOMAIN marks[t] /\ agent[t] \notin {"off", "new"}
        /\ agent' = agent /\ pending' = pending
    <3>1. i = 1
      BY <1>8 DEF MarkReads, MarkWrites, Shown
    <3>2. marks[t] # <<>>
      BY <1>0, <1>8
    <3>. QED  BY <1>8, <3>1, <3>2 DEF MarkReads, MarkWrites, Shown
  <2>2. marks[t][1] \in Marks
    BY <1>0, <2>1, ElementOfSeq
  <2>. DEFINE rest == RemoveAt(marks[t], 1)
  <2>3. /\ rest \in Seq(Marks) /\ Len(rest) = Len(marks[t]) - 1 /\ Len(marks[t]) \in Nat \ {0}
        /\ \A j \in 1..(Len(marks[t]) - 1) : rest[j] = marks[t][j + 1]
    <3>1. marks[t] \in Seq(Marks) /\ 1 \in DOMAIN marks[t]
      BY <1>0, <2>1
    <3>. HIDE DEF rest
    <3>2. \A n \in Nat : n >= 1 => ~(n < 1)
      OBVIOUS
    <3>3. \A n \in 1..(Len(marks[t]) - 1) : ~(n < 1)
      BY <1>0, <3>2
    <3>. QED  BY <3>1, <3>3, MarkRemoved DEF rest
  <2>4. DOMAIN rest = 1..(Len(marks[t]) - 1) /\ (rest = <<>> <=> Len(rest) = 0)
    BY <2>3, LenProperties, EmptySeq
  <2>. HIDE DEF rest
  <2>5. \A j \in DOMAIN rest : rest[j].io = NoIO
    <3>. SUFFICES ASSUME NEW j \in DOMAIN rest PROVE rest[j].io = NoIO
      OBVIOUS
    <3>1. j + 1 \in DOMAIN marks[t] /\ j + 1 # 1 /\ rest[j] = marks[t][j + 1]
      BY <1>0, <2>3, <2>4
    <3>. QED  BY <3>1 DEF Shown
  <2>6. rest # <<>> => rest[Len(rest)] = marks[t][Len(marks[t])]
    <3>1. rest # <<>> => /\ Len(rest) \in 1..(Len(marks[t]) - 1)
                         /\ Len(rest) + 1 = Len(marks[t])
      BY <2>3, <2>4
    <3>. QED  BY <2>3, <3>1
  <2>7. CASE MarkReads(t, i) /\ IsTerminal(rt[t])
    <3>1. rt' = rt /\ marks'[t] = rest /\ agent[t] # "running"
      BY <1>0, <2>1, <2>7, ActiveNotEnded DEF MarkReads, Shown, rest
    <3>. QED  BY <1>0, <2>1, <2>5, <3>1 DEF Shown
  <2>8. CASE MarkReads(t, i) /\ ~IsTerminal(rt[t])
    <3>. DEFINE mark == [marks[t][1] EXCEPT !.io = Status(rt[t], marks[t][1].status)]
    <3>1. rt' = rt /\ marks'[t] = [marks[t] EXCEPT ![1] = mark]
      BY <1>0, <2>1, <2>8 DEF MarkReads
    <3>2. mark.status = marks[t][1].status /\ mark.io.status = mark.status
      BY <1>0, <2>2 DEF Marks, Status, Records, Runtimes, IsTerminal
    <3>. HIDE DEF mark
    <3>3. /\ DOMAIN marks'[t] = DOMAIN marks[t] /\ marks'[t][1] = mark
          /\ \A j \in DOMAIN marks[t] : j # 1 => marks'[t][j] = marks[t][j]
      BY <1>0, <2>1, <3>1
    <3>4. marks'[t] \in Seq(Marks) /\ Len(marks'[t]) = Len(marks[t]) /\ marks'[t] # <<>>
      <4>0. Types' /\ hz' = hz
        BY <1>8, AgentTypesKept, AgentStepEffect
      <4>1. marks'[t] \in Seq(Marks)
        BY <4>0 DEF Types, AgentTypes
      <4>2. Len(marks'[t]) = Len(marks[t])
        BY <1>0, <3>3, <4>1, LenProperties
      <4>. QED  BY <1>0, <2>3, <4>1, <4>2, EmptySeq
    <3>5. Latest(rt'[t], marks'[t]) = Latest(rt[t], marks[t])
      <4>1. Len(marks[t]) \in DOMAIN marks[t] /\ marks[t] # <<>>
        BY <1>0, <2>3
      <4>. QED  BY <3>1, <3>2, <3>3, <3>4, <4>1 DEF Latest
    <3>6. \A j \in DOMAIN marks'[t] :
             marks'[t][j].io # NoIO => j = 1 /\ marks'[t][j].io.status = marks'[t][j].status
      BY <3>2, <3>3 DEF Shown
    <3>7. LastAwaits(rt[t], marks[t]) => LastAwaits(rt'[t], marks'[t])
      <4>1. \A j \in 1..Len(marks[t]) : marks'[t][j].status = marks[t][j].status
        BY <1>0, <3>2, <3>3
      <4>2. \A k \in 0..Len(marks[t]) : /\ k # 0 => k \in 1..Len(marks[t])
                                       /\ (k + 1)..Len(marks[t]) \subseteq 1..Len(marks[t])
        BY <1>0
      <4>. QED  BY <3>1, <3>4, <4>1, <4>2 DEF LastAwaits
    <3>. QED  BY <1>0, <2>1, <3>1, <3>5, <3>6, <3>7 DEF Shown
  <2>9. CASE MarkWrites(t, i)
    <3>1. /\ marks[t][1].io # NoIO /\ rt'[t] = marks[t][1].io /\ marks'[t] = rest
          /\ marks[t][1].io.status = marks[t][1].status
      BY <1>0, <2>1, <2>9 DEF MarkWrites, Writes, Shown, rest
    <3>2. rt'[t].status \in Active
      BY <2>2, <3>1 DEF Marks
    <3>3. Latest(rt'[t], marks'[t]) = Latest(rt[t], marks[t])
      <4>1. marks[t] # <<>> /\ (rest = <<>> => Len(marks[t]) = 1)
        BY <1>0, <2>3, <2>4
      <4>. QED  BY <2>6, <3>1, <4>1 DEF Latest
    <3>4. rt'[t].status # "none"
      BY <3>2 DEF Active
    <3>5. LastAwaits(rt[t], marks[t]) => LastAwaits(rt'[t], marks'[t])
      <4>1. rt'[t] \in Records /\ rt'[t].status = marks[t][1].status
        BY <2>2, <3>1 DEF Marks
      <4>. QED  BY <1>0, <2>0, <2>1, <3>1, <4>1, WriteKeepsLast DEF rest
    <3>. QED  BY <1>0, <2>1, <2>5, <3>1, <3>2, <3>3, <3>4, <3>5 DEF Shown
  <2>. QED  BY <1>8, <2>7, <2>8, <2>9
<1>9. ASSUME NEW i \in DOMAIN marks[t], Notices(t, i) PROVE Shown(t)'
  <2>1. /\ mgr.at = "idle" /\ marks[t][i].status = "answered" /\ NoneBegun
        /\ rt' = rt /\ agent' = agent /\ pending' = pending
    BY <1>9 DEF Notices, Notable, LoopFree, NoneBegun
  <2>2. marks[t] # <<>> /\ agent[t] \notin {"off", "new"} /\ i \in 1..Len(marks[t])
    BY <1>0, <1>9 DEF Shown
  <2>3. PICK ms \in Seq(Marks) :
           /\ marks'[t] = ms
           /\ \/ pending[t] # 0 /\ ms = RemoveAt(marks[t], i)
              \/ pending[t] = 0 /\ ms = [marks[t] EXCEPT ![i].status = "running"]
    BY <1>9, NoticesMarks
  <2>4. \A j \in DOMAIN ms : ms[j].io = NoIO
    BY <1>9, <2>1, <2>3, NoticesBegun
  <2>5. CASE pending[t] # 0
    <3>1. pending[t] > 0 /\ ms = RemoveAt(marks[t], i)
      BY <1>0, <2>3, <2>5
    <3>2. agent[t] = "running" => LastAwaits(rt[t], ms)
      BY <1>0, <2>1, <2>2, <3>1, NoticeKeepsLast DEF Shown
    <3>. QED  BY <1>0, <2>1, <2>2, <2>3, <2>4, <3>1, <3>2 DEF Shown, Delivering
  <2>6. CASE pending[t] = 0
    <3>1. ms = [marks[t] EXCEPT ![i].status = "running"] /\ ~(pending[t] > 0)
      BY <2>3, <2>6
    <3>2. Len(ms) = Len(marks[t]) /\ ms # <<>>
      <4>1. DOMAIN ms = DOMAIN marks[t] /\ Len(ms) \in Nat /\ DOMAIN ms = 1..Len(ms)
        BY <2>3, <3>1, LenProperties
      <4>2. Len(ms) = Len(marks[t]) /\ Len(ms) # 0
        BY <1>0, <2>2, <4>1
      <4>. QED  BY <4>2, EmptySeq
    <3>3. /\ Len(marks[t]) \in DOMAIN marks[t] /\ marks[t][Len(marks[t])] \in Marks
          /\ marks[t][i] \in Marks
      BY <1>0, <2>2, ElementOfSeq
    <3>4. ms[Len(marks[t])].status \in {"running", marks[t][Len(marks[t])].status}
      <4>1. CASE i = Len(marks[t])
        <5>1. ms[i] = [marks[t][i] EXCEPT !.status = "running"]
          BY <3>1, <3>3
        <5>. QED  BY <3>3, <4>1, <5>1 DEF Marks
      <4>2. CASE i # Len(marks[t])
        BY <3>1, <3>3, <4>2
      <4>. QED  BY <4>1, <4>2
    <3>5. agent[t] = "running" => Latest(rt[t], ms) # "awaiting_approval"
      BY <2>2, <3>1, <3>2, <3>4 DEF Shown, Latest
    <3>. QED  BY <1>0, <2>1, <2>2, <2>3, <2>4, <3>1, <3>5 DEF Shown, Delivering
  <2>. QED  BY <2>5, <2>6
<1>. QED  BY <1>2, <1>3, <1>4, <1>5, <1>6, <1>7, <1>8, <1>9

LEMMA ShownNext ==
    ASSUME Types, "overlap" \notin hz, ShownInv, [Next]_vars
    PROVE  ShownInv'
<1>0. rt = [t \in Tasks |-> rt[t]] /\ kind' = kind
  <2>1. CASE \E t \in Tasks : \/ CreateAgent(t) \/ AgentRuns(t) \/ AgentAsks(t) \/ Answered(t)
                              \/ AgentEnds(t) \/ KillAgent(t) \/ AgentCancelled(t)
                              \/ \E i \in DOMAIN marks[t] : Notices(t, i) \/ MarkReads(t, i) \/ MarkWrites(t, i)
    BY <2>1, AgentStepEffect DEF Types, BashTypes
  <2>2. CASE \E t \in Tasks : WorkerStep(t) \/ WorkerCrashes(t)
    BY <2>2, WorkerStepEffect DEF Types, BashTypes
  <2>3. CASE \E t \in Tasks : \/ CreateBash(t) \/ KillBash(t) \/ TimesOut(t) \/ ChildEnds(t)
    BY <2>3 DEF CreateBash, KillBash, TimesOut, ChildEnds, Types, BashTypes
  <2>4. CASE \/ CreateReads \/ CreateWrites \/ DeliveryBegins \/ AgentProcessStarts
             \/ WireDelivery \/ ModelDelivery \/ StartGoesOn \/ AgentProcessEnds
             \/ ModelGoesOn \/ TurnCancelled \/ UNCHANGED vars
    BY <2>4 DEF CreateReads, CreateWrites, DeliveryBegins, AgentProcessStarts, Reconciles,
                WireDelivery, ModelDelivery, StartGoesOn, AgentProcessEnds, ModelGoesOn,
                TurnCancelled, vars, Types, BashTypes
  <2>. QED  BY <2>1, <2>2, <2>3, <2>4 DEF Next, Environment, ManagerStep, AgentStep
<1>. SUFFICES ASSUME NEW t \in Tasks, kind[t] = "agent", Shown(t)
              PROVE  Shown(t)'
  BY <1>0 DEF ShownInv
<1>1. ASSUME NEW u \in Tasks, WorkerStep(u) \/ WorkerCrashes(u) PROVE Shown(t)'
  <2>1. u # t
    BY <1>1, WorkerStepEffect, Beating
  <2>2. UNCHANGED agentVars
    BY <1>1 DEF WorkerStep, WorkerReads, WorkerWrites, WorkerStartsCommand, Terminates,
                WorkerCloses, WorkerCrashes
  <2>3. mgr' = mgr /\ rt'[t] = rt[t]
    BY <1>1, <2>1, WorkerStepEffect
  <2>. QED  BY <2>2, <2>3, ShownStays DEF agentVars
<1>2. ASSUME NEW u \in Tasks, CreateBash(u) PROVE Shown(t)'
  <2>1. /\ u # t /\ rt'[t] = rt[t] /\ UNCHANGED agentVars
        /\ mgr' = mgr \/ mgr' = [at |-> "create", task |-> u, io |-> NoIO, stale |-> {}]
    BY <1>0, <1>2, IdleTypes DEF CreateBash, Writes
  <2>2. mgr' = mgr \/ mgr'.at \notin Delivering
    BY <2>1 DEF Delivering
  <2>. QED  BY <2>1, <2>2, ShownStays DEF agentVars
<1>3. ASSUME NEW u \in Tasks, KillBash(u) \/ TimesOut(u) \/ ChildEnds(u) PROVE Shown(t)'
  BY <1>3, ShownStays DEF KillBash, TimesOut, ChildEnds, agentVars
<1>4. ASSUME NEW u \in Tasks,
             \/ CreateAgent(u) \/ AgentRuns(u) \/ AgentAsks(u) \/ Answered(u)
             \/ AgentEnds(u) \/ KillAgent(u) \/ AgentCancelled(u)
             \/ \E i \in DOMAIN marks[u] : Notices(u, i) \/ MarkReads(u, i) \/ MarkWrites(u, i)
      PROVE  Shown(t)'
  <2>1. CASE u = t
    BY <1>4, <2>1, AgentShown
  <2>2. CASE u # t
    <3>1. /\ rt'[t] = rt[t] /\ marks'[t] = marks[t] /\ agent'[t] = agent[t]
          /\ pending'[t] = pending[t] /\ mgr' = mgr
      BY <1>4, <2>2, AgentStepEffect
    <3>. QED  BY <3>1, ShownStays
  <2>. QED  BY <2>1, <2>2
<1>5. CASE CreateReads \/ CreateWrites
  <2>1. /\ mgr.at = "create" /\ mgr.task # t /\ UNCHANGED agentVars
        /\ rt' = rt \/ rt' = [rt EXCEPT ![mgr.task] = mgr.io]
        /\ mgr' = Idle \/ mgr' = [mgr EXCEPT !.io = Status(rt[mgr.task], "starting")]
    BY <1>5 DEF CreateReads, CreateWrites, Writes, Types, ManagerTypes
  <2>2. mgr'.at \notin Delivering
    BY <2>1, IdleTypes DEF Delivering, Types, ManagerTypes
  <2>3. rt'[t] = rt[t]
    BY <1>0, <2>1
  <2>. QED  BY <2>1, <2>2, <2>3, ShownStays DEF agentVars
<1>6. CASE DeliveryBegins \/ AgentProcessStarts
  <2>1. PICK purpose \in Delivering : Reconciles(purpose)
    BY <1>6 DEF DeliveryBegins, AgentProcessStarts, Delivering
  <2>2. PICK stale \in SUBSET {u \in Tasks : MayBeStale(u)} :
           mgr' = [at |-> purpose, task |-> NoIO, io |-> rt, stale |-> stale]
    BY <2>1 DEF Reconciles
  <2>3. UNCHANGED <<rt, agentVars>>
    BY <2>1 DEF Reconciles
  <2>4. t \in mgr'.stale => agent[t] = "gone"
    <3>1. t \in stale => rt[t].status # "none" /\ ~Live(t)
      BY <2>2 DEF MayBeStale, Active
    <3>2. agent[t] \in AgentPlaces
      BY DEF Types, AgentTypes
    <3>. QED  BY <2>2, <3>1, <3>2 DEF Live, AgentPlaces, Shown
  <2>. QED  BY <2>3, <2>4, ShownStays DEF agentVars
<1>7. CASE WireDelivery \/ ModelDelivery \/ StartGoesOn
  <2>1. /\ mgr.at \in Delivering /\ rt' = AfterRecover /\ mgr' = Idle
        /\ UNCHANGED <<agent, pending, marks>> /\ mgr.io[t] \in Records
    BY <1>7, PublishesEffect
  <2>2. mgr'.at \notin Delivering
    BY <2>1, IdleTypes DEF Delivering
  <2>3. CASE t \in mgr.stale
    <3>1. agent[t] = "gone" /\ rt'[t] = RecoveredTask(t)
      BY <2>1, <2>3 DEF Shown, AfterRecover
    <3>2. \A status \in Ends : Finished(mgr.io[t], status).status = status
      BY <2>1 DEF Finished, Records, Runtimes, IsTerminal
    <3>3. rt'[t].status # "none"
      BY <3>1, <3>2 DEF RecoveredTask, Ends
    <3>. QED  BY <2>1, <2>2, <3>1, <3>3 DEF Shown
  <2>4. CASE t \notin mgr.stale
    <3>1. rt'[t] = rt[t]
      BY <2>1, <2>4 DEF AfterRecover
    <3>. QED  BY <2>1, <2>2, <3>1, ShownStays
  <2>. QED  BY <2>3, <2>4
<1>8. CASE AgentProcessEnds
  <2>1. /\ rt' = rt /\ marks'[t] = <<>> /\ pending'[t] = 0
        /\ agent'[t] = (IF Live(t) THEN "gone" ELSE agent[t])
        /\ mgr' = [at |-> "down", task |-> NoIO, io |-> NoIO, stale |-> {}]
    BY <1>8, IdleTypes DEF AgentProcessEnds
  <2>2. mgr'.at \notin Delivering
    BY <2>1 DEF Delivering
  <2>. QED  BY <2>1, <2>2, EmptySeq DEF Shown, Live
<1>9. CASE ModelGoesOn \/ TurnCancelled
  BY <1>9, NotificationTypes, ShownStays
<1>10. ASSUME UNCHANGED vars PROVE Shown(t)'
  BY <1>10, ShownStays DEF vars, agentVars
<1>. QED  BY <1>1, <1>2, <1>3, <1>4, <1>5, <1>6, <1>7, <1>8, <1>9, <1>10
          DEF Next, Environment, ManagerStep, AgentStep

LEMMA ShownInit == Init => ShownInv
<1>. SUFFICES ASSUME Init, NEW t \in Tasks PROVE Shown(t)
  BY DEF ShownInv
<1>1. /\ agent[t] = "off" /\ rt[t].status = "none" /\ marks[t] = <<>> /\ pending[t] = 0
      /\ mgr.at = "idle"
  BY IdleTypes, NoRecordType DEF Init
<1>. QED  BY <1>1, EmptySeq DEF Shown, Delivering

\* A running agent task is shown to await approval exactly while one of its
\* requests is pending, once the threads are done (agent_runner.py), as long
\* as threads do not overlap.
THEOREM ApprovalIsShown == Spec => []ApprovalShown
<1>. DEFINE Inv == Types /\ ("overlap" \in hz \/ ShownInv)
<1>1. Init => Inv
  BY TypesInit, ShownInit
<1>2. Inv /\ [Next]_vars => Inv'
  BY TypesNext, ShownNext, HazardsStay
<1>3. ASSUME Inv PROVE ApprovalShown
  <2>. SUFFICES ASSUME Outside({"overlap"}), NEW t \in Tasks, agent[t] = "running",
                       marks[t] = <<>>
                PROVE  (rt[t].status = "awaiting_approval") = (pending[t] > 0)
    BY DEF ApprovalShown
  <2>1. "overlap" \notin hz /\ kind[t] = "agent"
    BY <1>3 DEF Outside, Types, AgentTypes
  <2>2. Shown(t)
    BY <1>3, <2>1 DEF ShownInv
  <2>3. rt[t].status = "awaiting_approval" <=> pending[t] > 0
    BY <2>2, EmptySeq DEF Shown, Latest, LastAwaits
  <2>. QED  BY <2>3
<1>. QED  BY <1>1, <1>2, <1>3, PTL DEF Spec

-----------------------------------------------------------------------------
(* Counters and flags.                                                     *)

\* Every pending approval and every status update on its way goes back to a
\* request: no task has more than two updates for each.
Bounded(t) ==
    /\ asks[t] \in 0..MaxAsks
    /\ pending[t] <= asks[t]
    /\ Len(marks[t]) + pending[t] <= 2 * asks[t]

Counters ==
    /\ asks = [t \in Tasks |-> asks[t]]
    /\ \A t \in Tasks : Bounded(t)
    /\ kill \in [Tasks -> BOOLEAN] /\ late \in [Tasks -> BOOLEAN]
    /\ faults \in 0..MaxFaults /\ hz \in Environments

\* A step by which no approval and no update comes in.
LEMMA BoundedStays ==
    ASSUME Types, Types', NEW t \in Tasks, Bounded(t), asks'[t] = asks[t],
           pending'[t] <= pending[t],
           Len(marks'[t]) + pending'[t] <= Len(marks[t]) + pending[t]
    PROVE  Bounded(t)'
<1>1. /\ pending[t] \in Nat /\ pending'[t] \in Nat
      /\ Len(marks[t]) \in Nat /\ Len(marks'[t]) \in Nat
  BY LenProperties DEF Types, AgentTypes
<1>. QED  BY SMTT(20), <1>1 DEF Bounded

\* What the steps of an agent task do to its approvals and updates.
LEMMA AgentStepBounded ==
    ASSUME Types, Types', NEW t \in Tasks, Counters,
           \/ CreateAgent(t) \/ AgentRuns(t) \/ AgentAsks(t) \/ Answered(t)
           \/ AgentEnds(t) \/ KillAgent(t) \/ AgentCancelled(t)
           \/ \E i \in DOMAIN marks[t] : Notices(t, i) \/ MarkReads(t, i) \/ MarkWrites(t, i)
    PROVE  /\ Bounded(t)'
           /\ asks' = [u \in Tasks |-> asks'[u]]
           /\ \A u \in Tasks : u # t => /\ asks'[u] = asks[u] /\ pending'[u] = pending[u]
                                        /\ marks'[u] = marks[u]
           /\ UNCHANGED <<kill, late, faults, hz>>
<1>. DEFINE m1 == Mark("awaiting_approval")
            m2 == Mark("answered")
<1>0. /\ m1 \in Marks /\ m2 \in Marks
      /\ pending \in [Tasks -> Nat] /\ marks = [u \in Tasks |-> marks[u]]
      /\ marks[t] \in Seq(Marks) /\ pending[t] \in Nat
      /\ asks = [u \in Tasks |-> asks[u]] /\ Bounded(t)
  BY DEF Types, AgentTypes, Mark, Marks, MarkStatus, Counters
<1>0a. Len(marks[t]) \in Nat
  BY <1>0, LenProperties
<1>. HIDE DEF m1, m2
<1>1. CASE CreateAgent(t) \/ AgentRuns(t)
  <2>1. UNCHANGED <<asks, pending, marks, kill, late, faults, hz>>
    BY <1>1 DEF CreateAgent, AgentRuns, bashVars
  <2>. QED  BY <1>0, <1>0a, <2>1, BoundedStays
<1>2. CASE AgentAsks(t)
  <2>1. /\ asks[t] < MaxAsks /\ asks' = [asks EXCEPT ![t] = @ + 1]
        /\ pending' = [pending EXCEPT ![t] = @ + 1]
        /\ marks' = [marks EXCEPT ![t] = Append(@, m1)]
        /\ UNCHANGED <<kill, late, faults, hz>>
    BY <1>2 DEF AgentAsks, bashVars, m1
  <2>2. /\ asks'[t] = asks[t] + 1 /\ pending'[t] = pending[t] + 1
        /\ marks'[t] = Append(marks[t], m1)
    BY <1>0, <2>1
  <2>3. Len(marks'[t]) = Len(marks[t]) + 1
    BY <1>0, <2>2, MarkSequences
  <2>4. Bounded(t)'
    BY SMTT(20), <1>0, <1>0a, <2>1, <2>2, <2>3 DEF Bounded
  <2>. QED  BY <1>0, <2>1, <2>4
<1>3. CASE Answered(t) \/ KillAgent(t)
  <2>1. PICK n, ms :
           /\ n \in Nat
           /\ pending' = [pending EXCEPT ![t] = n] /\ n <= pending[t]
           /\ marks' = [marks EXCEPT ![t] = ms]
           /\ ms = marks[t] \/ (ms = Append(marks[t], m2) /\ n < pending[t])
    <3>1. CASE Answered(t)
      <4>. DEFINE n == pending[t] - 1
      <4>1. /\ pending[t] > 0 /\ pending' = [pending EXCEPT ![t] = n]
            /\ marks' = [marks EXCEPT ![t] = Append(marks[t], m2)]
        BY <3>1 DEF Answered, m2
      <4>2. n \in Nat /\ n < pending[t] /\ n <= pending[t]
        BY <1>0, <4>1
      <4>. HIDE DEF n
      <4>. QED  BY <4>1, <4>2
    <3>2. CASE KillAgent(t)
      <4>1. /\ pending' = [pending EXCEPT ![t] = 0]
            /\ \/ marks' = [marks EXCEPT ![t] = Append(marks[t], m2)] /\ pending[t] > 0
               \/ marks' = [marks EXCEPT ![t] = marks[t]]
        BY <3>2 DEF KillAgent, m2
      <4>2. 0 \in Nat /\ 0 <= pending[t]
        BY <1>0
      <4>. QED  BY <4>1, <4>2
    <3>. QED  BY <1>3, <3>1, <3>2
  <2>2. UNCHANGED <<asks, kill, late, faults, hz>>
    BY <1>3 DEF Answered, KillAgent, bashVars
  <2>3. Len(Append(marks[t], m2)) = Len(marks[t]) + 1
    BY <1>0, MarkSequences
  <2>4. Bounded(t)'
    <3>1. pending'[t] = n /\ marks'[t] = ms
      BY <1>0, <2>1
    <3>2. Len(ms) + n <= Len(marks[t]) + pending[t]
      BY <1>0, <1>0a, <2>1, <2>3
    <3>. QED  BY <1>0, <2>1, <2>2, <3>1, <3>2, BoundedStays
  <2>. QED  BY <1>0, <2>1, <2>2, <2>4
<1>4. CASE AgentEnds(t) \/ AgentCancelled(t)
  <2>1. /\ marks' = [marks EXCEPT ![t] = Begun(marks[t])]
        /\ pending' = [pending EXCEPT ![t] = 0]
        /\ UNCHANGED <<asks, kill, late, faults, hz>>
    BY <1>4 DEF AgentEnds, AgentCancelled, AgentLeaves, bashVars
  <2>2. Len(Begun(marks[t])) \in Nat /\ Len(Begun(marks[t])) <= Len(marks[t])
    BY LeavesMarks, LenProperties
  <2>3. pending'[t] = 0 /\ marks'[t] = Begun(marks[t])
    BY <1>0, <2>1
  <2>4. Bounded(t)'
    BY <1>0, <1>0a, <2>1, <2>2, <2>3, BoundedStays
  <2>. QED  BY <1>0, <2>1, <2>4
<1>5. ASSUME NEW i \in DOMAIN marks[t], Notices(t, i) \/ MarkReads(t, i) \/ MarkWrites(t, i)
      PROVE  /\ Bounded(t)'
             /\ \A u \in Tasks : u # t => marks'[u] = marks[u]
             /\ UNCHANGED <<asks, pending, kill, late, faults, hz>>
  <2>1. PICK ms : /\ marks' = [marks EXCEPT ![t] = ms]
                  /\ ms = RemoveAt(marks[t], i) \/ \E m : ms = [marks[t] EXCEPT ![i] = m]
    <3>1. CASE MarkWrites(t, i)
      BY <3>1 DEF MarkWrites
    <3>2. CASE MarkReads(t, i) /\ IsTerminal(rt[t])
      BY <3>2 DEF MarkReads
    <3>3. CASE MarkReads(t, i) /\ ~IsTerminal(rt[t])
      BY <3>3 DEF MarkReads
    <3>4. CASE Notices(t, i)
      BY <3>4, NoticesMarks
    <3>. QED  BY <1>5, <3>1, <3>2, <3>3, <3>4
  <2>2. UNCHANGED <<asks, pending, kill, late, faults, hz>>
    BY <1>5 DEF Notices, MarkReads, MarkWrites, bashVars
  <2>3. Len(ms) \in Nat /\ Len(ms) <= Len(marks[t])
    <3>1. CASE ms = RemoveAt(marks[t], i)
      BY <1>0, <1>0a, <3>1, MarkSequences, LenProperties
    <3>2. ASSUME NEW m, ms = [marks[t] EXCEPT ![i] = m] PROVE Len(ms) = Len(marks[t])
      <4>1. DOMAIN ms = 1..Len(marks[t])
        BY <1>0, <3>2, LenProperties
      <4>2. marks'[t] \in Seq(Marks) /\ marks'[t] = ms
        BY <1>0, <2>1 DEF Types, AgentTypes
      <4>. QED  BY <1>0a, <4>1, <4>2, LenProperties
    <3>. QED  BY <1>0a, <2>1, <3>1, <3>2
  <2>4. marks'[t] = ms /\ \A u \in Tasks : u # t => marks'[u] = marks[u]
    BY <1>0, <2>1
  <2>5. Bounded(t)'
    BY <1>0, <1>0a, <2>2, <2>3, <2>4, BoundedStays
  <2>. QED  BY <2>2, <2>4, <2>5
<1>. QED  BY <1>0, <1>1, <1>2, <1>3, <1>4, <1>5

-----------------------------------------------------------------------------
(* The log of notifications and what is claimed of it.                     *)

\* SetToSeqs: an enumeration of a finite set reaches all of it.
LEMMA Enumerations ==
    ASSUME NEW U, IsFiniteSet(U), NEW s \in SetToSeqs(U)
    PROVE  s \in Seq(U) /\ ToSet(s) = U /\ IsInjective(s)
<1>. DEFINE n == Cardinality(U)
<1>1. n \in Nat
  BY FS_CardinalityType
<1>2. s \in [1..n -> U] /\ \A i, j \in 1..n : i # j => s[i] # s[j]
  BY DEF SetToSeqs
<1>3. s \in Injection(1..n, U) /\ IsInjective(s)
  BY <1>2 DEF Injection, IsInjective
<1>4. Cardinality(1..n) = n
  BY <1>1, FS_Interval
<1>5. s \in Surjection(1..n, U)
  BY <1>3, <1>4, FS_Injection
<1>6. \A u \in U : \E i \in 1..n : s[i] = u
  BY <1>5 DEF Surjection
<1>7. s \in Seq(U)
  BY <1>1, <1>2, SeqDef
<1>. QED  BY <1>2, <1>3, <1>6, <1>7 DEF ToSet

LEMMA Together ==
    ASSUME NEW D, NEW a \in Seq(D), NEW b \in Seq(D)
    PROVE  /\ a \o b \in Seq(D)
           /\ ToSet(a \o b) = ToSet(a) \cup ToSet(b)
           /\ IsInjective(a) /\ IsInjective(b) /\ ToSet(a) \cap ToSet(b) = {} => IsInjective(a \o b)
<1>. DEFINE c == a \o b
            m == Len(a)
            n == Len(b)
<1>1. /\ c \in Seq(D) /\ Len(c) = m + n
      /\ \A i \in 1..(m + n) : c[i] = IF i <= m THEN a[i] ELSE b[i - m]
  BY ConcatProperties
<1>2. /\ m \in Nat /\ n \in Nat
      /\ DOMAIN a = 1..m /\ DOMAIN b = 1..n /\ DOMAIN c = 1..(m + n)
  BY <1>1, LenProperties
<1>. HIDE DEF c, m, n
<1>3. \A i \in 1..m : i \in 1..(m + n) /\ c[i] = a[i]
  BY <1>1, <1>2
<1>4. \A i \in 1..n : m + i \in 1..(m + n) /\ c[m + i] = b[i]
  <2>. SUFFICES ASSUME NEW i \in 1..n PROVE m + i \in 1..(m + n) /\ c[m + i] = b[i]
    OBVIOUS
  <2>1. m + i \in 1..(m + n) /\ ~(m + i <= m) /\ (m + i) - m = i
    BY <1>2
  <2>. QED  BY <1>1, <2>1
<1>5. ASSUME NEW i \in 1..(m + n)
      PROVE  \/ i \in 1..m /\ c[i] = a[i]
             \/ i - m \in 1..n /\ c[i] = b[i - m] /\ ~(i <= m)
  BY <1>1, <1>2
<1>6. ToSet(c) = ToSet(a) \cup ToSet(b)
  BY <1>2, <1>3, <1>4, <1>5 DEF ToSet
<1>7. ASSUME IsInjective(a), IsInjective(b), ToSet(a) \cap ToSet(b) = {},
             NEW i \in 1..(m + n), NEW j \in 1..(m + n), c[i] = c[j]
      PROVE  i = j
  <2>1. \A x \in 1..m, y \in 1..n : a[x] # b[y]
    BY <1>2, <1>7 DEF ToSet
  <2>2. CASE i <= m /\ j <= m
    <3>1. i \in 1..m /\ j \in 1..m /\ a[i] = a[j]
      BY <1>3, <1>7, <2>2
    <3>. QED  BY <1>2, <1>7, <3>1 DEF IsInjective
  <2>3. CASE ~(i <= m) /\ ~(j <= m)
    <3>1. i - m \in 1..n /\ j - m \in 1..n /\ b[i - m] = b[j - m]
      BY <1>2, <1>5, <1>7, <2>3
    <3>2. i - m = j - m
      BY <1>2, <1>7, <3>1 DEF IsInjective
    <3>. QED  BY <1>2, <3>2
  <2>4. CASE (i <= m /\ ~(j <= m)) \/ (~(i <= m) /\ j <= m)
    BY <1>2, <1>5, <1>7, <2>1, <2>4
  <2>. QED  BY <2>2, <2>3, <2>4
<1>8. IsInjective(a) /\ IsInjective(b) /\ ToSet(a) \cap ToSet(b) = {} => IsInjective(c)
  BY <1>2, <1>7 DEF IsInjective
<1>. QED  BY <1>1, <1>6, <1>8 DEF c

LEMMA PublishedLog ==
    ASSUME log \in Seq(Events), IsInjective(log), NEW events \in SUBSET Events,
           NEW l \in Published(events)
    PROVE  l \in Seq(Events) /\ IsInjective(l) /\ ToSet(l) = ToSet(log) \cup events
<1>. DEFINE U == Unpublished(events)
<1>1. PICK s \in SetToSeqs(U) : l = log \o s
  BY DEF Published
<1>2. U \in SUBSET Events /\ U \cap ToSet(log) = {} /\ ToSet(log) \cup U = ToSet(log) \cup events
  BY DEF Unpublished
<1>3. IsFiniteSet(U)
  BY <1>2, FS_Subset, NotificationsAssumption
<1>. HIDE DEF U
<1>4. s \in Seq(U) /\ ToSet(s) = U /\ IsInjective(s)
  BY <1>3, Enumerations
<1>5. s \in Seq(Events)
  BY <1>2, <1>4, SeqMonotonic
<1>. QED  BY <1>1, <1>2, <1>4, <1>5, Together

LEMMA ClaimableEvents ==
    ASSUME NEW l \in Seq(Events), NEW d, NEW sink
    PROVE  /\ Claimable(l, d, sink) \in Seq(Events) /\ Len(Claimable(l, d, sink)) <= Limit
           /\ \A e \in ToSet(Claimable(l, d, sink)) :
                 e \in Events /\ e \in ToSet(l) /\ d[e][sink] = "pending"
           /\ IsInjective(l) => IsInjective(Claimable(l, d, sink))
<1>. DEFINE S == {e \in Events : d[e][sink] = "pending"}
            k == Kept(l, S)
            n == Min({Limit, Len(k)})
            c == SubSeq(k, 1, n)
<1>1. /\ k \in Seq(Events) /\ Len(k) \in Nat /\ ToSet(k) = ToSet(l) \cap S
      /\ IsInjective(l) => IsInjective(k)
  <2>. HIDE DEF S
  <2>. QED  BY KeptElements, LenProperties
<1>2. Claimable(l, d, sink) = c
  BY DEF Claimable
<1>3. n \in Nat /\ n <= Limit /\ n <= Len(k)
  <2>. HIDE DEF k
  <2>1. Limit \in Nat
    BY NotificationsAssumption
  <2>2. \E x \in {Limit, Len(k)} : \A y \in {Limit, Len(k)} : x <= y
    BY <1>1, <2>1
  <2>. QED  BY <1>1, <2>1, <2>2 DEF Min
<1>. HIDE DEF k, n
<1>4. /\ c \in Seq(Events) /\ Len(c) = n /\ DOMAIN c = 1..n /\ DOMAIN k = 1..Len(k)
      /\ \A i \in 1..n : c[i] = k[i] /\ i \in 1..Len(k)
  BY <1>1, <1>3, SubSeqProperties, LenProperties
<1>. HIDE DEF c
<1>5. ToSet(c) \subseteq ToSet(k)
  BY <1>4 DEF ToSet
<1>6. IsInjective(k) => IsInjective(c)
  BY <1>4 DEF IsInjective
<1>. QED  BY <1>1, <1>2, <1>3, <1>4, <1>5, <1>6

LEMMA CountersInit == Init => Counters
<1>. SUFFICES ASSUME Init PROVE Counters
  OBVIOUS
<1>1. \A t \in Tasks : asks[t] = 0 /\ pending[t] = 0 /\ Len(marks[t]) = 0
  BY EmptySeq DEF Init
<1>. QED  BY <1>1 DEF Init, Counters, Bounded

LEMMA CountersNext ==
    ASSUME Types, Types', Counters, log' \in Seq(Events), [Next]_vars
    PROVE  Counters'
<1>0. /\ asks = [t \in Tasks |-> asks[t]]
      /\ \A t \in Tasks : Bounded(t)
      /\ kill \in [Tasks -> BOOLEAN] /\ late \in [Tasks -> BOOLEAN]
      /\ faults \in 0..MaxFaults /\ hz \in Environments
  BY DEF Counters
<1>1. ASSUME NEW t \in Tasks,
             \/ CreateAgent(t) \/ AgentRuns(t) \/ AgentAsks(t) \/ Answered(t)
             \/ AgentEnds(t) \/ KillAgent(t) \/ AgentCancelled(t)
             \/ \E i \in DOMAIN marks[t] : Notices(t, i) \/ MarkReads(t, i) \/ MarkWrites(t, i)
      PROVE  Counters'
  <2>1. /\ Bounded(t)'
        /\ asks' = [u \in Tasks |-> asks'[u]]
        /\ \A u \in Tasks : u # t => /\ asks'[u] = asks[u] /\ pending'[u] = pending[u]
                                     /\ marks'[u] = marks[u]
        /\ UNCHANGED <<kill, late, faults, hz>>
    BY <1>1, AgentStepBounded
  <2>2. \A u \in Tasks : Bounded(u)'
    BY <1>0, <2>1 DEF Bounded
  <2>. QED  BY <1>0, <2>1, <2>2 DEF Counters
<1>2. CASE AgentProcessEnds
  <2>1. /\ pending' = [t \in Tasks |-> 0] /\ marks' = [t \in Tasks |-> <<>>]
        /\ faults < MaxFaults /\ faults' = faults + 1
        /\ UNCHANGED <<asks, kill, late, hz>>
    BY <1>2 DEF AgentProcessEnds, bashVars
  <2>2. ASSUME NEW t \in Tasks PROVE Bounded(t)'
    <3>1. asks'[t] \in 0..MaxAsks /\ pending'[t] = 0 /\ Len(marks'[t]) = 0
      BY <1>0, <2>1, EmptySeq DEF Bounded
    <3>. QED  BY <3>1 DEF Bounded
  <2>. QED  BY <1>0, <2>1, <2>2 DEF Counters
<1>3. CASE UNCHANGED <<asks, pending, marks, hz>> /\ faults' \in 0..MaxFaults
           /\ kill' \in [Tasks -> BOOLEAN] /\ late' \in [Tasks -> BOOLEAN]
  BY <1>0, <1>3 DEF Counters, Bounded
<1>4. CASE UNCHANGED vars
  BY <1>0, <1>3, <1>4 DEF vars, bashVars, agentVars
<1>5. ASSUME NEW t \in Tasks, \/ CreateBash(t) \/ KillBash(t) \/ TimesOut(t) \/ ChildEnds(t)
                              \/ WorkerCrashes(t) \/ WorkerStep(t)
      PROVE  Counters'
  <2>1. UNCHANGED <<asks, pending, marks, hz, faults>>
    BY <1>5 DEF CreateBash, KillBash, TimesOut, ChildEnds, WorkerCrashes, WorkerStep, WorkerReads,
                WorkerWrites, WorkerStartsCommand, Terminates, WorkerCloses, agentVars
  <2>2. kill' = kill \/ kill' = [kill EXCEPT ![t] = TRUE]
    BY <1>5 DEF CreateBash, KillBash, TimesOut, ChildEnds, WorkerCrashes, WorkerStep, WorkerReads,
                WorkerWrites, WorkerStartsCommand, Terminates, WorkerCloses
  <2>3. late' = late \/ late' = [late EXCEPT ![t] = TRUE]
    BY <1>5 DEF CreateBash, KillBash, TimesOut, ChildEnds, WorkerCrashes, WorkerStep, WorkerReads,
                WorkerWrites, WorkerStartsCommand, Terminates, WorkerCloses
  <2>. QED  BY <1>0, <1>3, <2>1, <2>2, <2>3
<1>6. CASE CreateReads \/ CreateWrites \/ DeliveryBegins \/ AgentProcessStarts \/ ModelDelivery
           \/ ModelGoesOn \/ StartGoesOn
  <2>1. UNCHANGED <<asks, pending, marks, hz, faults, kill, late>>
    BY <1>6 DEF CreateReads, CreateWrites, DeliveryBegins, AgentProcessStarts, Reconciles,
                ModelDelivery, ModelGoesOn, StartGoesOn, bashVars, agentVars
  <2>. QED  BY <1>0, <1>3, <2>1
<1>7. CASE TurnCancelled
  <2>1. UNCHANGED <<asks, pending, marks, hz, kill, late>> /\ faults < MaxFaults /\ faults' = faults + 1
    BY <1>7 DEF TurnCancelled, bashVars, agentVars
  <2>. QED  BY <1>0, <1>3, <2>1
<1>8. CASE WireDelivery
  <2>1. UNCHANGED <<asks, pending, marks, hz, kill, late>>
    BY <1>8 DEF WireDelivery, bashVars, agentVars
  <2>2. \E failing : /\ faults' = faults + Cardinality(failing) /\ failing \subseteq Events
                     /\ failing = {} \/ faults + Cardinality(failing) <= MaxFaults
    <3>1. PICK d : \E failing \in SUBSET ToSet(Claimable(log', d, "wire")) :
             /\ failing = {} \/ faults + Cardinality(failing) <= MaxFaults
             /\ faults' = faults + Cardinality(failing)
      BY <1>8 DEF WireDelivery
    <3>2. ToSet(Claimable(log', d, "wire")) \subseteq Events
      BY ClaimableEvents
    <3>. QED  BY <3>1, <3>2
  <2>3. faults' \in 0..MaxFaults
    BY <1>0, <2>2, FS_EmptySet, FS_Subset, FS_CardinalityType, NotificationsAssumption
  <2>. QED  BY <1>0, <1>3, <2>1, <2>3
<1>. QED  BY <1>1, <1>2, <1>4, <1>5, <1>6, <1>7, <1>8
          DEF Next, Environment, ManagerStep, AgentStep

\* The agent's process has ended, or has not restored its history yet.
Gone == mgr.at \in {"down", "start"}

\* The message being appended to the history.
Appending(e) == queue # <<>> /\ e = Head(queue)

\* Only what was published has a delivery record, and without an agent nothing
\* is in its history or on its way there.
LogInv ==
    /\ NotificationsTypeOK
    /\ \A e \in Events : e \notin ToSet(log) => \A s \in Sinks : delivery[e][s] = "absent"
    /\ ToSet(queue) \subseteq ToSet(log)
    /\ \A e \in Events : disk[e] > 0 => e \in ToSet(log)
    /\ Gone => queue = <<>> /\ \A e \in Events : mem[e] = 0

\* What is in the history is acked, or its append has not returned; so is what
\* is in context.jsonl, once that has been restored.
InHistory(e) ==
    /\ mem[e] <= 1
    /\ mem[e] = 1 => delivery[e]["llm"] = "acked" \/ Appending(e)
    /\ disk[e] = 1 => delivery[e]["llm"] = "acked" \/ (written /\ Appending(e))

OnceInv ==
    /\ IsInjective(queue)
    /\ \A e \in ToSet(queue) : delivery[e]["llm"] = "claimed"
    /\ \A e \in Events : disk[e] <= 1 /\ (~Gone => InHistory(e))

ToldOnce == LogInv /\ (Outside({"cancel", "slow"}) => OnceInv)

\* The steps that leave the notifications alone.
LEMMA OtherSteps ==
    ASSUME Types, [Next]_vars,
           ~WireDelivery, ~ModelDelivery, ~ModelGoesOn, ~TurnCancelled, ~AgentProcessEnds,
           ~StartGoesOn
    PROVE  UNCHANGED notificationVars /\ Gone' = Gone /\ hz' = hz
<1>1. CASE UNCHANGED vars
  BY <1>1 DEF vars, Gone
<1>2. ASSUME NEW t \in Tasks, WorkerStep(t) \/ AgentStep(t) \/ KillBash(t) \/ TimesOut(t)
                              \/ ChildEnds(t) \/ WorkerCrashes(t) \/ CreateAgent(t)
                              \/ KillAgent(t) \/ AgentAsks(t) \/ Answered(t) \/ AgentEnds(t)
      PROVE  UNCHANGED <<notificationVars, mgr, hz>>
  BY <1>2 DEF WorkerStep, AgentStep, KillBash, TimesOut, ChildEnds, WorkerCrashes, CreateAgent,
              KillAgent, AgentAsks, Answered, AgentEnds, WorkerReads, WorkerWrites,
              WorkerStartsCommand, Terminates, WorkerCloses, AgentRuns, AgentCancelled,
              AgentLeaves, Notices, MarkReads, MarkWrites
<1>3. CASE \E t \in Tasks : CreateBash(t)
  <2>1. UNCHANGED <<notificationVars, hz>> /\ mgr.at = "idle"
    BY <1>3 DEF CreateBash, LoopFree
  <2>2. \E t : mgr' = mgr \/ mgr' = [Idle EXCEPT !.at = "create", !.task = t]
    BY <1>3 DEF CreateBash
  <2>3. \E t : mgr' = mgr \/ mgr' = [at |-> "create", task |-> t, io |-> NoIO, stale |-> {}]
    BY <2>2, IdleTypes
  <2>. QED  BY <2>1, <2>3 DEF Gone
<1>4. CASE CreateReads \/ CreateWrites
  <2>1. UNCHANGED <<notificationVars, hz>> /\ mgr.at = "create"
    BY <1>4 DEF CreateReads, CreateWrites
  <2>2. \/ mgr' = Idle
        \/ mgr' = [at |-> mgr.at, task |-> mgr.task,
                   io |-> Status(rt[mgr.task], "starting"), stale |-> mgr.stale]
    BY <1>4 DEF CreateReads, CreateWrites, Types, ManagerTypes
  <2>3. Idle.at = "idle"
    BY IdleTypes
  <2>4. mgr'.at \in {"idle", "create"}
    BY <2>1, <2>2, <2>3
  <2>. QED  BY <2>1, <2>4 DEF Gone
<1>5. CASE DeliveryBegins \/ AgentProcessStarts
  BY <1>5 DEF DeliveryBegins, AgentProcessStarts, Reconciles, LoopFree, Gone
<1>. QED  BY <1>1, <1>2, <1>3, <1>4, <1>5 DEF Next, Environment, ManagerStep, Gone

LEMMA ToldElsewhere ==
    ASSUME ToldOnce, UNCHANGED notificationVars, Gone' = Gone, hz' = hz
    PROVE  ToldOnce'
<1>1. UNCHANGED <<log, delivery, mem, disk, queue, written>>
  BY DEF notificationVars
<1>2. LogInv'
  BY <1>1 DEF ToldOnce, LogInv, NotificationsTypeOK
<1>3. Outside({"cancel", "slow"})' => OnceInv'
  BY <1>1 DEF ToldOnce, Outside, OnceInv, InHistory, Appending
<1>. QED  BY <1>2, <1>3 DEF ToldOnce

LEMMA ToldInit == Init => ToldOnce
<1>. SUFFICES ASSUME Init PROVE ToldOnce
  OBVIOUS
<1>1. /\ log = <<>> /\ queue = <<>> /\ written = FALSE
      /\ delivery = [e \in Events |-> [s \in Sinks |-> "absent"]]
      /\ mem = [e \in Events |-> 0] /\ disk = [e \in Events |-> 0]
  BY DEF Init, NotificationsInit
<1>2. /\ log \in Seq(Events) /\ queue \in Seq(Events) /\ Len(queue) = 0
      /\ IsInjective(log) /\ IsInjective(queue) /\ ToSet(queue) = {}
  BY <1>1, EmptySeq DEF IsInjective, ToSet
<1>3. LogInv
  <2>1. Len(queue) <= Limit
    BY <1>2, NotificationsAssumption
  <2>2. delivery \in [Events -> [Sinks -> Statuses]]
    BY <1>1 DEF Statuses
  <2>3. mem \in [Events -> Nat] /\ disk \in [Events -> Nat] /\ written \in BOOLEAN
    BY <1>1
  <2>4. NotificationsTypeOK
    BY <1>2, <2>1, <2>2, <2>3 DEF NotificationsTypeOK
  <2>. QED  BY <1>1, <2>4 DEF LogInv
<1>4. OnceInv
  BY <1>1, <1>2 DEF OnceInv, InHistory
<1>. QED  BY <1>3, <1>4 DEF ToldOnce

-----------------------------------------------------------------------------
(* The append of a message, its ack, and the ends that cut it short.       *)

\* The queue behind its head.
LEMMA BehindHead ==
    ASSUME NEW D, NEW q \in Seq(D), q # <<>>
    PROVE  /\ Head(q) \in D /\ Head(q) \in ToSet(q)
           /\ Tail(q) \in Seq(D) /\ Len(Tail(q)) < Len(q)
           /\ ToSet(Tail(q)) \subseteq ToSet(q)
           /\ Tail(q) # <<>> => Head(Tail(q)) \in ToSet(Tail(q)) /\ Head(Tail(q)) \in D
           /\ IsInjective(q) => IsInjective(Tail(q)) /\ Head(q) \notin ToSet(Tail(q))
<1>. DEFINE t == Tail(q)
            n == Len(q)
<1>1. n \in Nat /\ n > 0 /\ DOMAIN q = 1..n /\ \A i \in 1..n : q[i] \in D
  BY EmptySeq, LenProperties, ElementOfSeq
<1>2. /\ t \in Seq(D) /\ Len(t) = n - 1 /\ Head(q) = q[1]
      /\ \A i \in 1..(n - 1) : t[i] = q[i + 1]
  BY <1>1, HeadTailProperties
<1>3. DOMAIN t = 1..(n - 1)
  BY <1>1, <1>2, LenProperties
<1>4. t # <<>> => Head(t) = t[1] /\ n - 1 > 0
  BY <1>1, <1>2, EmptySeq, HeadTailProperties
<1>. HIDE DEF t, n
<1>5. \A i \in 1..(n - 1) : i + 1 \in 1..n /\ i + 1 # 1 /\ t[i] = q[i + 1]
  BY <1>1, <1>2
<1>6. ToSet(t) \subseteq ToSet(q)
  BY <1>1, <1>3, <1>5 DEF ToSet
<1>7. t # <<>> => Head(t) \in ToSet(t) /\ Head(t) \in D
  BY <1>1, <1>2, <1>3, <1>4, ElementOfSeq DEF ToSet
<1>8. ASSUME IsInjective(q) PROVE IsInjective(t) /\ q[1] \notin ToSet(t)
  <2>1. \A i, j \in 1..(n - 1) : i + 1 = j + 1 => i = j
    BY <1>1
  <2>2. \A i, j \in 1..(n - 1) : t[i] = t[j] => i + 1 = j + 1
    BY <1>1, <1>5, <1>8 DEF IsInjective
  <2>3. \A i \in 1..(n - 1) : t[i] # q[1]
    BY <1>1, <1>5, <1>8 DEF IsInjective
  <2>. QED  BY <1>3, <2>1, <2>2, <2>3 DEF IsInjective, ToSet
<1>9. q[1] \in D /\ q[1] \in ToSet(q) /\ Len(t) < n
  BY <1>1, <1>2 DEF ToSet
<1>. QED  BY <1>2, <1>6, <1>7, <1>8, <1>9 DEF t, n

LEMMA ToldModelGoesOn ==
    ASSUME ToldOnce, ModelGoesOn
    PROVE  ToldOnce'
<1>0. /\ queue # <<>> /\ hz' = hz /\ mgr' = mgr /\ ~Gone /\ ~Gone'
      /\ LogInv /\ (Outside({"cancel", "slow"}) => OnceInv)
  BY DEF ModelGoesOn, LineWritten, ModelAcks, ToldOnce, Gone
<1>. DEFINE h == Head(queue)
            t == Tail(queue)
            g == Head(t)
<1>1. /\ queue \in Seq(Events) /\ Len(queue) <= Limit /\ mem \in [Events -> Nat]
      /\ disk \in [Events -> Nat] /\ delivery \in [Events -> [Sinks -> Statuses]]
      /\ written \in BOOLEAN /\ Len(queue) \in Nat
  BY <1>0, LenProperties DEF LogInv, NotificationsTypeOK
<1>2. /\ h \in Events /\ h \in ToSet(queue)
      /\ t \in Seq(Events) /\ Len(t) \in Nat /\ Len(t) < Len(queue)
      /\ ToSet(t) \subseteq ToSet(queue)
      /\ t # <<>> => g \in ToSet(t) /\ g \in Events
      /\ IsInjective(queue) => IsInjective(t) /\ h \notin ToSet(t)
  BY <1>0, <1>1, BehindHead, LenProperties
<1>. HIDE DEF h, t, g
<1>3. CASE LineWritten
  <2>1. /\ ~written /\ disk' = Appended(disk, h) /\ written' = TRUE
        /\ UNCHANGED <<log, delivery, mem, queue>>
    BY <1>3 DEF LineWritten, h
  <2>2. /\ disk' \in [Events -> Nat] /\ disk'[h] = disk[h] + 1
        /\ \A e \in Events : e # h => disk'[e] = disk[e]
    BY <1>1, <1>2, <2>1 DEF Appended
  <2>3. LogInv'
    <3>1. NotificationsTypeOK'
      BY <1>0, <2>1, <2>2 DEF LogInv, NotificationsTypeOK
    <3>2. \A e \in Events : disk'[e] > 0 => e \in ToSet(log)
      BY <1>0, <1>2, <2>2 DEF LogInv
    <3>. QED  BY <1>0, <2>1, <3>1, <3>2 DEF LogInv
  <2>4. ASSUME OnceInv PROVE OnceInv'
    <3>1. delivery[h]["llm"] = "claimed" /\ disk[h] <= 1 /\ InHistory(h)
      BY <1>0, <1>2, <2>4 DEF OnceInv
    <3>2. disk[h] = 0
      <4>1. disk[h] \in Nat /\ disk[h] # 1
        BY <1>1, <1>2, <2>1, <3>1 DEF InHistory
      <4>. QED  BY <3>1, <4>1
    <3>3. ASSUME NEW e \in Events PROVE disk'[e] <= 1 /\ InHistory(e)'
      <4>1. disk[e] <= 1 /\ InHistory(e)
        BY <1>0, <2>4 DEF OnceInv
      <4>2. CASE e = h
        BY <1>0, <2>1, <2>2, <3>2, <4>1, <4>2 DEF InHistory, Appending, h
      <4>3. CASE e # h
        BY <2>1, <2>2, <4>1, <4>3 DEF InHistory, Appending
      <4>. QED  BY <4>2, <4>3
    <3>. QED  BY <2>1, <2>4, <3>3 DEF OnceInv
  <2>. QED  BY <1>0, <2>3, <2>4 DEF ToldOnce, Outside
<1>4. CASE ModelAcks
  <2>1. /\ written /\ written' = FALSE /\ queue' = t
        /\ delivery' = Marked(delivery, "llm", {h}, "acked")
        /\ mem' = IF t = <<>> THEN mem ELSE Appended(mem, g)
        /\ UNCHANGED <<log, disk>>
    BY <1>4 DEF ModelAcks, h, t, g
  <2>2. /\ delivery' \in [Events -> [Sinks -> Statuses]]
        /\ delivery'[h]["llm"] = "acked"
        /\ \A e \in Events : e # h => delivery'[e] = delivery[e]
    BY <1>1, <1>2, <2>1 DEF Marked, Sinks, Statuses
  <2>3. /\ mem' \in [Events -> Nat]
        /\ t # <<>> => mem'[g] = mem[g] + 1
        /\ \A e \in Events : (t = <<>> \/ e # g) => mem'[e] = mem[e]
    <3>1. CASE t = <<>>
      BY <1>1, <2>1, <3>1
    <3>2. CASE t # <<>>
      <4>1. mem' = [mem EXCEPT ![g] = @ + 1] /\ g \in Events
        BY <1>2, <2>1, <3>2 DEF Appended
      <4>. QED  BY <1>1, <3>2, <4>1
    <3>. QED  BY <3>1, <3>2
  <2>4. LogInv'
    <3>1. h \in ToSet(log) /\ ToSet(t) \subseteq ToSet(log)
      BY <1>0, <1>2 DEF LogInv
    <3>2. Len(t) <= Limit
      BY <1>1, <1>2, NotificationsAssumption
    <3>3. NotificationsTypeOK'
      BY <1>0, <1>2, <2>1, <2>2, <2>3, <3>2 DEF LogInv, NotificationsTypeOK
    <3>4. ASSUME NEW e \in Events, e \notin ToSet(log)', NEW s \in Sinks
          PROVE  delivery'[e][s] = "absent"
      <4>1. e \notin ToSet(log)
        BY <2>1, <3>4
      <4>2. e # h
        BY <3>1, <4>1
      <4>3. delivery[e][s] = "absent"
        BY <1>0, <4>1 DEF LogInv
      <4>. QED  BY <2>2, <4>2, <4>3
    <3>5. ToSet(queue)' \subseteq ToSet(log)'
      BY <2>1, <3>1
    <3>. QED  BY <1>0, <2>1, <3>3, <3>4, <3>5 DEF LogInv
  <2>5. ASSUME OnceInv PROVE OnceInv'
    <3>1. IsInjective(t) /\ h \notin ToSet(t)
      BY <1>2, <2>5 DEF OnceInv
    <3>2. \A e \in ToSet(t) : delivery'[e]["llm"] = "claimed"
      <4>1. ToSet(t) \subseteq Events
        BY <1>2, LenProperties, ElementOfSeq DEF ToSet
      <4>. QED  BY <1>2, <2>2, <2>5, <3>1, <4>1 DEF OnceInv
    <3>3. ASSUME t # <<>> PROVE mem[g] = 0 /\ g # h
      <4>1. g # h /\ delivery[g]["llm"] = "claimed" /\ InHistory(g)
        BY <1>0, <1>2, <2>5, <3>1, <3>3 DEF OnceInv
      <4>. QED  BY SMTT(20), <1>1, <1>2, <3>3, <4>1 DEF InHistory, Appending, h
    <3>4. ASSUME NEW e \in Events PROVE disk'[e] <= 1 /\ InHistory(e)'
      <4>1. disk[e] <= 1 /\ InHistory(e)
        BY <1>0, <2>5 DEF OnceInv
      <4>2. CASE e = h
        BY <1>1, <2>1, <2>2, <2>3, <3>3, <4>1, <4>2 DEF InHistory
      <4>3. CASE e # h /\ (t = <<>> \/ e # g)
        BY <2>1, <2>2, <2>3, <4>1, <4>3 DEF InHistory, Appending, h
      <4>4. CASE e # h /\ t # <<>> /\ e = g
        <5>1. mem'[e] = 1 /\ Appending(e)'
          BY <2>1, <2>3, <3>3, <4>4 DEF Appending, g
        <5>2. disk'[e] = 1 => delivery'[e]["llm"] = "acked"
          BY <2>1, <2>2, <4>1, <4>4 DEF InHistory, Appending, h
        <5>. QED  BY <2>1, <4>1, <5>1, <5>2 DEF InHistory
      <4>. QED  BY <4>2, <4>3, <4>4
    <3>. QED  BY <2>1, <3>1, <3>2, <3>4 DEF OnceInv
  <2>. QED  BY <1>0, <2>4, <2>5 DEF ToldOnce, Outside
<1>. QED  BY <1>3, <1>4 DEF ModelGoesOn

LEMMA ToldTurnCancelled ==
    ASSUME ToldOnce, TurnCancelled
    PROVE  ToldOnce'
<1>1. /\ queue # <<>> /\ queue' = <<>> /\ written' = FALSE
      /\ disk' \in {disk, IF written THEN disk ELSE Appended(disk, Head(queue))}
      /\ UNCHANGED <<log, delivery, mem, mgr, hz>> /\ mgr.at = "idle" /\ "cancel" \in hz
  BY DEF TurnCancelled, DeliveryCancelled
<1>2. LogInv /\ NotificationsTypeOK
  BY DEF ToldOnce, LogInv
<1>3. disk' \in [Events -> Nat] /\ \A e \in Events : disk'[e] > 0 => e \in ToSet(log)
  <2>. DEFINE h == Head(queue)
  <2>1. disk \in [Events -> Nat] /\ h \in Events /\ h \in ToSet(log)
    BY <1>1, <1>2, BehindHead DEF LogInv, NotificationsTypeOK
  <2>2. \A e \in Events : disk[e] > 0 => e \in ToSet(log)
    BY <1>2 DEF LogInv
  <2>3. disk' = disk \/ disk' = Appended(disk, h)
    BY <1>1
  <2>. HIDE DEF h
  <2>. QED  BY <2>1, <2>2, <2>3 DEF Appended
<1>4. queue' \in Seq(Events) /\ Len(queue') <= Limit /\ ToSet(queue') = {}
  BY <1>1, EmptySeq, NotificationsAssumption DEF ToSet
<1>5. NotificationsTypeOK'
  BY <1>1, <1>2, <1>3, <1>4 DEF NotificationsTypeOK
<1>6. LogInv'
  <2>1. ~Gone'
    BY <1>1 DEF Gone
  <2>2. ToSet(queue') \subseteq ToSet(log')
    BY <1>4
  <2>3. \A e \in Events : e \notin ToSet(log') => \A s \in Sinks : delivery'[e][s] = "absent"
    BY <1>1, <1>2 DEF LogInv
  <2>. QED  BY <1>1, <1>3, <1>5, <2>1, <2>2, <2>3 DEF LogInv
<1>. QED  BY <1>1, <1>6 DEF ToldOnce, Outside

LEMMA ToldProcessEnds ==
    ASSUME ToldOnce, AgentProcessEnds
    PROVE  ToldOnce'
<1>1. /\ queue' = <<>> /\ written' = FALSE /\ mem' = [e \in Events |-> 0]
      /\ mgr' = [Idle EXCEPT !.at = "down"]
      /\ UNCHANGED <<log, delivery, disk, hz>>
  BY DEF AgentProcessEnds, NotificationsCrash
<1>2. LogInv /\ NotificationsTypeOK
  BY DEF ToldOnce, LogInv
<1>3. /\ queue' \in Seq(Events) /\ Len(queue') <= Limit /\ ToSet(queue') = {}
      /\ IsInjective(queue')
  BY <1>1, EmptySeq, NotificationsAssumption DEF ToSet, IsInjective
<1>4. mem' \in [Events -> Nat] /\ \A e \in Events : mem'[e] = 0
  BY <1>1
<1>5. NotificationsTypeOK'
  BY <1>1, <1>2, <1>3, <1>4 DEF NotificationsTypeOK
<1>6. LogInv'
  BY <1>1, <1>2, <1>3, <1>4, <1>5 DEF LogInv
<1>7. Gone'
  <2>1. mgr' = [at |-> "down", task |-> NoIO, io |-> NoIO, stale |-> {}]
    BY <1>1, IdleTypes
  <2>. QED  BY <2>1 DEF Gone
<1>8. OnceInv => OnceInv'
  BY <1>1, <1>3, <1>7 DEF OnceInv
<1>. QED  BY <1>1, <1>6, <1>8 DEF ToldOnce, Outside

-----------------------------------------------------------------------------
(* The deliveries.                                                         *)

LEMMA AnnouncedEvents == ASSUME NEW runtime PROVE Announced(runtime) \in SUBSET Events
BY DEF Announced, Reason, Reasons, IsTerminal

Deliveries == [Events -> [Sinks -> Statuses]]

\* What publish and recover() of the claims leave of the records: r of those
\* that were, with the claims in stale given up.
Follows(r, stale) ==
    /\ r \in Deliveries
    /\ \A e \in Events : e \notin ToSet(log') => \A s \in Sinks : r[e][s] = "absent"
    /\ \A e \in Events : delivery[e]["llm"] = "acked" => r[e]["llm"] = "acked"
    /\ \A e \in Events : <<e, "llm">> \notin stale /\ delivery[e]["llm"] = "claimed" =>
          r[e]["llm"] = "claimed"

LEMMA AfterPublishing ==
    ASSUME LogInv, log' \in Published(Announced(AfterRecover)), NEW stale,
           stale \subseteq Events \X Sinks,
           \A c \in stale : \/ PublishedDelivery[c[1]][c[2]] = "claimed"
                            \/ delivery[c[1]][c[2]] = "claimed"
    PROVE  /\ log' \in Seq(Events) /\ IsInjective(log') /\ ToSet(log) \subseteq ToSet(log')
           /\ Follows(Recovered(PublishedDelivery, stale), stale)
<1>. DEFINE A == Announced(AfterRecover)
            U == Unpublished(A)
            p == PublishedDelivery
            V(e, s) == IF <<e, s>> \in stale THEN "pending" ELSE p[e][s]
            R(e) == [s \in Sinks |-> V(e, s)]
            r == Recovered(p, stale)
<1>1. /\ log \in Seq(Events) /\ IsInjective(log)
      /\ delivery \in [Events -> [Sinks -> Statuses]]
      /\ \A e \in Events : e \notin ToSet(log) => \A s \in Sinks : delivery[e][s] = "absent"
  BY DEF LogInv, NotificationsTypeOK
<1>2. A \in SUBSET Events
  BY AnnouncedEvents
<1>3. U = A \ ToSet(log)
  BY DEF Unpublished
<1>4. p = [e \in Events |-> IF e \in U THEN [s \in Sinks |-> "pending"] ELSE delivery[e]]
  BY DEF PublishedDelivery, WithNew
<1>5. r = [e \in Events |-> R(e)]
  BY DEF Recovered
<1>6. log' \in Published(A)
  OBVIOUS
<1>. HIDE DEF A
<1>7. log' \in Seq(Events) /\ IsInjective(log') /\ ToSet(log') = ToSet(log) \cup A
  BY <1>1, <1>2, <1>6, PublishedLog
<1>. HIDE DEF U, p, V, R, r
<1>8. ASSUME NEW e \in Events, NEW s \in Sinks
      PROVE  p[e][s] = IF e \in U THEN "pending" ELSE delivery[e][s]
  BY <1>4
<1>9. ASSUME NEW e \in Events, NEW s \in Sinks, <<e, s>> \in stale
      PROVE  delivery[e][s] = "claimed" /\ e \notin U
  <2>1. p[e][s] = "claimed" \/ delivery[e][s] = "claimed"
    BY <1>9 DEF p
  <2>2. e \in U => delivery[e][s] = "absent"
    BY <1>1, <1>3
  <2>. QED  BY <1>8, <2>1, <2>2
<1>10. ASSUME NEW e \in Events, NEW s \in Sinks
       PROVE  r[e][s] = IF <<e, s>> \in stale THEN "pending"
                        ELSE IF e \in U THEN "pending" ELSE delivery[e][s]
  <2>1. r[e][s] = V(e, s)
    BY <1>5 DEF R
  <2>. QED  BY <1>8, <2>1 DEF V
<1>11. r \in Deliveries
  <2>1. ASSUME NEW e \in Events PROVE R(e) \in [Sinks -> Statuses]
    <3>1. \A s \in Sinks : V(e, s) \in Statuses
      BY <1>1, <1>8 DEF Statuses, V
    <3>. QED  BY <3>1 DEF R
  <2>. QED  BY <1>5, <2>1 DEF Deliveries
<1>12. ASSUME NEW e \in Events, e \notin ToSet(log'), NEW s \in Sinks
       PROVE  r[e][s] = "absent"
  <2>1. e \notin ToSet(log) /\ e \notin U
    BY <1>3, <1>7, <1>12
  <2>2. delivery[e][s] = "absent"
    BY <1>1, <2>1
  <2>. QED  BY <1>9, <1>10, <2>1, <2>2
<1>13. "llm" \in Sinks
  BY DEF Sinks
<1>14. ASSUME NEW e \in Events, delivery[e]["llm"] = "acked"
       PROVE  r[e]["llm"] = "acked"
  <2>1. e \notin U
    BY <1>1, <1>3, <1>13, <1>14
  <2>2. <<e, "llm">> \notin stale
    BY <1>9, <1>13, <1>14
  <2>. QED  BY <1>10, <1>13, <1>14, <2>1, <2>2
<1>15. ASSUME NEW e \in Events, <<e, "llm">> \notin stale, delivery[e]["llm"] = "claimed"
       PROVE  r[e]["llm"] = "claimed"
  <2>1. e \notin U
    BY <1>1, <1>3, <1>13, <1>15
  <2>. QED  BY <1>10, <1>13, <1>15, <2>1
<1>16. Follows(r, stale)
  BY <1>11, <1>12, <1>14, <1>15 DEF Follows
<1>. QED  BY <1>7, <1>16 DEF r, p

\* m is d but for the status of some events at one sink.
Differs(m, d, sink, events, status) ==
    /\ m \in Deliveries
    /\ \A e \in Events, s \in Sinks :
          m[e][s] = IF e \in events /\ s = sink THEN status ELSE d[e][s]

LEMMA MarkedStatus ==
    ASSUME NEW d \in Deliveries, NEW events
    PROVE  \A sink \in Sinks, status \in Statuses :
              Differs(Marked(d, sink, events, status), d, sink, events, status)
BY DEF Marked, Differs, Deliveries

LEMMA ToldWireDelivery ==
    ASSUME ToldOnce, WireDelivery
    PROVE  ToldOnce'
<1>0. "llm" \in Sinks /\ "wire" \in Sinks /\ "acked" \in Statuses /\ "claimed" \in Statuses
  BY DEF Sinks, Statuses
<1>1. /\ mgr.at = "wire" /\ mgr' = Idle /\ hz' = hz /\ LogInv
      /\ log' \in Published(Announced(AfterRecover))
      /\ UNCHANGED <<mem, disk, queue, written>>
  BY DEF WireDelivery, Publishes, DeliversToWire, ToldOnce
<1>2. PICK stale :
         /\ stale \in SUBSET StaleClaims(PublishedDelivery, "slow" \in hz)
         /\ \E failing \in SUBSET ToSet(Claimable(log', Recovered(PublishedDelivery, stale), "wire")) :
               DeliversToWire(log', Recovered(PublishedDelivery, stale), failing)
  BY DEF WireDelivery
<1>. DEFINE r == Recovered(PublishedDelivery, stale)
            claimed == ToSet(Claimable(log', r, "wire"))
            d == Marked(r, "wire", claimed, "acked")
<1>3. PICK failing \in SUBSET claimed : delivery' = Marked(d, "wire", failing, "claimed")
  BY <1>2 DEF DeliversToWire
<1>. HIDE DEF r
<1>4. /\ log' \in Seq(Events) /\ IsInjective(log') /\ ToSet(log) \subseteq ToSet(log')
      /\ Follows(r, stale) /\ r \in Deliveries
  <2>1. /\ stale \subseteq Events \X Sinks
        /\ \A c \in stale : \/ PublishedDelivery[c[1]][c[2]] = "claimed"
                            \/ delivery[c[1]][c[2]] = "claimed"
    BY <1>2 DEF StaleClaims
  <2>2. /\ log' \in Seq(Events) /\ IsInjective(log') /\ ToSet(log) \subseteq ToSet(log')
        /\ Follows(Recovered(PublishedDelivery, stale), stale)
    <3>1. LogInv /\ log' \in Published(Announced(AfterRecover))
      BY <1>1
    <3>. QED  BY <2>1, <3>1, AfterPublishing
  <2>. QED  BY <2>2 DEF r, Follows
<1>5. claimed \subseteq ToSet(log')
  BY <1>4, ClaimableEvents
<1>. HIDE DEF claimed
<1>6. Differs(d, r, "wire", claimed, "acked") /\ d \in Deliveries
  BY <1>0, <1>4, MarkedStatus DEF Differs
<1>. HIDE DEF d
<1>7. Differs(delivery', d, "wire", failing, "claimed") /\ delivery' \in Deliveries
  <2>1. Differs(Marked(d, "wire", failing, "claimed"), d, "wire", failing, "claimed")
    BY <1>0, <1>6, MarkedStatus
  <2>. QED  BY <1>3, <2>1 DEF Differs
<1>8. \A e \in Events : delivery'[e]["llm"] = r[e]["llm"]
  BY <1>0, <1>6, <1>7 DEF Differs
<1>9. \A e \in Events : e \notin ToSet(log') => \A s \in Sinks : delivery'[e][s] = "absent"
  BY <1>3, <1>4, <1>5, <1>6, <1>7 DEF Differs, Follows
<1>10. ~Gone /\ ~Gone'
  BY <1>1, IdleTypes DEF Gone
<1>11. NotificationsTypeOK'
  BY <1>1, <1>4, <1>7 DEF LogInv, NotificationsTypeOK, Deliveries
<1>12. LogInv'
  <2>1. ToSet(queue') \subseteq ToSet(log')
    BY <1>1, <1>4 DEF LogInv
  <2>2. \A e \in Events : disk'[e] > 0 => e \in ToSet(log')
    BY <1>1, <1>4 DEF LogInv
  <2>. QED  BY <1>9, <1>10, <1>11, <2>1, <2>2 DEF LogInv
<1>13. ASSUME OnceInv, "slow" \notin hz PROVE OnceInv'
  <2>1. \A e \in ToSet(queue) : e \in Events
    BY <1>1, LenProperties, ElementOfSeq DEF LogInv, NotificationsTypeOK, ToSet
  <2>2. \A e \in ToSet(queue) : delivery'[e]["llm"] = "claimed"
    <3>1. \A e \in ToSet(queue) : <<e, "llm">> \notin stale
      BY <1>2, <1>13 DEF StaleClaims
    <3>. QED  BY <1>4, <1>8, <1>13, <2>1, <3>1 DEF OnceInv, Follows
  <2>3. ASSUME NEW e \in Events PROVE disk'[e] <= 1 /\ InHistory(e)'
    <3>1. disk[e] <= 1 /\ InHistory(e)
      BY <1>10, <1>13 DEF OnceInv
    <3>2. delivery[e]["llm"] = "acked" => delivery'[e]["llm"] = "acked"
      BY <1>4, <1>8 DEF Follows
    <3>. QED  BY <1>1, <3>1, <3>2 DEF InHistory, Appending
  <2>. QED  BY <1>1, <1>13, <2>2, <2>3 DEF OnceInv
<1>. QED  BY <1>1, <1>12, <1>13 DEF ToldOnce, Outside

LEMMA ToldModelDelivery ==
    ASSUME ToldOnce, ModelDelivery
    PROVE  ToldOnce'
<1>0. "llm" \in Sinks /\ "claimed" \in Statuses
  BY DEF Sinks, Statuses
<1>1. /\ mgr.at = "llm" /\ mgr' = Idle /\ hz' = hz /\ LogInv /\ queue = <<>>
      /\ log' \in Published(Announced(AfterRecover))
      /\ UNCHANGED <<disk, written>>
  BY DEF ModelDelivery, Publishes, DeliversToModel, ToldOnce
<1>2. PICK stale :
         /\ stale \in SUBSET StaleClaims(PublishedDelivery, "slow" \in hz)
         /\ DeliversToModel(log', Recovered(PublishedDelivery, stale))
  BY DEF ModelDelivery
<1>. DEFINE r == Recovered(PublishedDelivery, stale)
            q == Claimable(log', r, "llm")
            h == Head(q)
<1>3. /\ queue' = q /\ delivery' = Marked(r, "llm", ToSet(q), "claimed")
      /\ mem' = IF q = <<>> THEN mem ELSE Appended(mem, h)
  BY <1>2 DEF DeliversToModel
<1>. HIDE DEF r
<1>4. /\ log' \in Seq(Events) /\ IsInjective(log') /\ ToSet(log) \subseteq ToSet(log')
      /\ Follows(r, stale) /\ r \in Deliveries
  <2>1. /\ stale \subseteq Events \X Sinks
        /\ \A c \in stale : \/ PublishedDelivery[c[1]][c[2]] = "claimed"
                            \/ delivery[c[1]][c[2]] = "claimed"
    BY <1>2 DEF StaleClaims
  <2>2. /\ log' \in Seq(Events) /\ IsInjective(log') /\ ToSet(log) \subseteq ToSet(log')
        /\ Follows(Recovered(PublishedDelivery, stale), stale)
    <3>1. LogInv /\ log' \in Published(Announced(AfterRecover))
      BY <1>1
    <3>. QED  BY <2>1, <3>1, AfterPublishing
  <2>. QED  BY <2>2 DEF r, Follows
<1>5. /\ q \in Seq(Events) /\ Len(q) <= Limit /\ IsInjective(q)
      /\ \A e \in ToSet(q) : e \in Events /\ e \in ToSet(log') /\ r[e]["llm"] = "pending"
  BY <1>4, ClaimableEvents
<1>. HIDE DEF q
<1>6. q # <<>> => h \in ToSet(q) /\ h \in Events
  BY <1>5, BehindHead
<1>. HIDE DEF h
<1>7. Differs(delivery', r, "llm", ToSet(q), "claimed") /\ delivery' \in Deliveries
  BY <1>0, <1>3, <1>4, MarkedStatus DEF Differs
<1>8. \A e \in Events : e \notin ToSet(log') => \A s \in Sinks : delivery'[e][s] = "absent"
  BY <1>4, <1>5, <1>7 DEF Differs, Follows
<1>9. ~Gone /\ ~Gone'
  BY <1>1, IdleTypes DEF Gone
<1>10. /\ mem \in [Events -> Nat] /\ mem' \in [Events -> Nat]
       /\ q # <<>> => mem'[h] = mem[h] + 1
       /\ \A e \in Events : (q = <<>> \/ e # h) => mem'[e] = mem[e]
  BY <1>1, <1>3, <1>6 DEF LogInv, NotificationsTypeOK, Appended
<1>11. NotificationsTypeOK'
  BY <1>1, <1>3, <1>4, <1>5, <1>7, <1>10 DEF LogInv, NotificationsTypeOK, Deliveries
<1>12. LogInv'
  <2>1. ToSet(queue') \subseteq ToSet(log')
    BY <1>3, <1>5
  <2>2. \A e \in Events : disk'[e] > 0 => e \in ToSet(log')
    BY <1>1, <1>4 DEF LogInv
  <2>. QED  BY <1>8, <1>9, <1>11, <2>1, <2>2 DEF LogInv
<1>13. ASSUME OnceInv PROVE OnceInv'
  <2>1. \A e \in ToSet(queue') : delivery'[e]["llm"] = "claimed"
    BY <1>0, <1>3, <1>5, <1>7 DEF Differs
  <2>2. ASSUME NEW e \in Events PROVE disk'[e] <= 1 /\ InHistory(e)'
    <3>1. disk[e] <= 1 /\ InHistory(e) /\ ~Appending(e)
      BY <1>1, <1>9, <1>13 DEF OnceInv, Appending
    <3>2. ASSUME delivery[e]["llm"] = "acked" PROVE delivery'[e]["llm"] = "acked" /\ e \notin ToSet(q)
      <4>1. r[e]["llm"] = "acked"
        BY <1>4, <3>2 DEF Follows
      <4>2. e \notin ToSet(q)
        BY <1>5, <4>1
      <4>. QED  BY <1>0, <1>7, <4>1, <4>2 DEF Differs
    <3>3. disk'[e] = 1 => delivery'[e]["llm"] = "acked"
      BY <1>1, <3>1, <3>2 DEF InHistory
    <3>4. CASE q = <<>> \/ e # h
      BY <1>1, <1>10, <3>1, <3>2, <3>3, <3>4 DEF InHistory
    <3>5. CASE q # <<>> /\ e = h
      <4>1. mem[e] # 1
        BY <1>6, <3>1, <3>2, <3>5 DEF InHistory
      <4>2. mem[e] \in Nat /\ mem[e] <= 1
        BY <1>10, <3>1 DEF InHistory
      <4>3. mem'[e] = 1
        BY <1>10, <3>5, <4>1, <4>2
      <4>4. Appending(e)'
        BY <1>3, <3>5 DEF Appending, h
      <4>. QED  BY <1>1, <3>1, <3>3, <4>3, <4>4 DEF InHistory
    <3>. QED  BY <3>4, <3>5
  <2>. QED  BY <1>3, <1>5, <2>1, <2>2 DEF OnceInv
<1>. QED  BY <1>1, <1>12, <1>13 DEF ToldOnce, Outside

LEMMA ToldStart ==
    ASSUME ToldOnce, StartGoesOn
    PROVE  ToldOnce'
<1>0. "llm" \in Sinks /\ "acked" \in Statuses
  BY DEF Sinks, Statuses
<1>1. /\ mgr.at = "start" /\ mgr' = Idle /\ hz' = hz /\ LogInv
      /\ log' \in Published(Announced(AfterRecover))
      /\ mem' = disk
      /\ UNCHANGED <<disk, queue, written>>
  BY DEF StartGoesOn, Publishes, ToldOnce
<1>2. PICK stale \in SUBSET StaleClaims(delivery, FALSE) :
         delivery' = Restored(Recovered(PublishedDelivery, stale))
  BY DEF StartGoesOn
<1>. DEFINE r == Recovered(PublishedDelivery, stale)
            seen == {e \in Events : disk[e] > 0}
<1>3. delivery' = Marked(r, "llm", seen, "acked")
  BY <1>2 DEF Restored
<1>. HIDE DEF r
<1>4. /\ log' \in Seq(Events) /\ IsInjective(log') /\ ToSet(log) \subseteq ToSet(log')
      /\ Follows(r, stale) /\ r \in Deliveries
  <2>1. /\ stale \subseteq Events \X Sinks
        /\ \A c \in stale : \/ PublishedDelivery[c[1]][c[2]] = "claimed"
                            \/ delivery[c[1]][c[2]] = "claimed"
    BY <1>2 DEF StaleClaims
  <2>2. /\ log' \in Seq(Events) /\ IsInjective(log') /\ ToSet(log) \subseteq ToSet(log')
        /\ Follows(Recovered(PublishedDelivery, stale), stale)
    <3>1. LogInv /\ log' \in Published(Announced(AfterRecover))
      BY <1>1
    <3>. QED  BY <2>1, <3>1, AfterPublishing
  <2>. QED  BY <2>2 DEF r, Follows
<1>5. Differs(delivery', r, "llm", seen, "acked") /\ delivery' \in Deliveries
  <2>. HIDE DEF seen
  <2>. QED  BY <1>0, <1>3, <1>4, MarkedStatus DEF Differs
<1>6. queue = <<>> /\ Gone
  BY <1>1 DEF LogInv, Gone
<1>7. ~Gone'
  BY <1>1, IdleTypes DEF Gone
<1>8. disk \in [Events -> Nat] /\ NotificationsTypeOK
  BY <1>1 DEF LogInv, NotificationsTypeOK
<1>9. NotificationsTypeOK'
  BY <1>1, <1>4, <1>5, <1>8 DEF NotificationsTypeOK, Deliveries
<1>10. LogInv'
  <2>1. \A e \in Events : disk'[e] > 0 => e \in ToSet(log')
    BY <1>1, <1>4 DEF LogInv
  <2>2. \A e \in Events : e \notin ToSet(log') => \A s \in Sinks : delivery'[e][s] = "absent"
    BY <1>1, <1>4, <1>5, <2>1 DEF Differs, Follows
  <2>3. ToSet(queue') \subseteq ToSet(log')
    BY <1>1, <1>4 DEF LogInv
  <2>. QED  BY <1>7, <1>9, <2>1, <2>2, <2>3 DEF LogInv
<1>11. ASSUME OnceInv PROVE OnceInv'
  <2>1. ToSet(queue') = {}
    BY <1>1, <1>6, EmptySeq DEF ToSet
  <2>2. ASSUME NEW e \in Events PROVE disk'[e] <= 1 /\ InHistory(e)'
    <3>1. disk[e] <= 1 /\ disk[e] \in Nat
      BY <1>8, <1>11 DEF OnceInv
    <3>2. disk[e] = 1 => delivery'[e]["llm"] = "acked"
      BY <1>0, <1>5 DEF Differs
    <3>. QED  BY <1>1, <3>1, <3>2 DEF InHistory
  <2>. QED  BY <1>1, <1>11, <2>1, <2>2 DEF OnceInv
<1>. QED  BY <1>1, <1>10, <1>11 DEF ToldOnce, Outside

LEMMA ToldNext ==
    ASSUME Types, ToldOnce, [Next]_vars
    PROVE  ToldOnce'
BY OtherSteps, ToldElsewhere, ToldWireDelivery, ToldModelDelivery, ToldModelGoesOn,
   ToldTurnCancelled, ToldProcessEnds, ToldStart

-----------------------------------------------------------------------------
LEMMA WholeInvariant == Spec => [](Types /\ Counters /\ ToldOnce)
<1>1. Init => Types /\ Counters /\ ToldOnce
  BY TypesInit, CountersInit, ToldInit
<1>2. Types /\ Counters /\ ToldOnce /\ [Next]_vars => (Types /\ Counters /\ ToldOnce)'
  <2>. SUFFICES ASSUME Types, Counters, ToldOnce, [Next]_vars
                PROVE  (Types /\ Counters /\ ToldOnce)'
    OBVIOUS
  <2>1. Types' /\ ToldOnce'
    BY TypesNext, ToldNext
  <2>2. log' \in Seq(Events)
    BY <2>1 DEF ToldOnce, LogInv, NotificationsTypeOK
  <2>. QED  BY <2>1, <2>2, CountersNext
<1>. QED  BY <1>1, <1>2, PTL DEF Spec

\* What the model is told about a task's end it is told once, also by an agent
\* restarted in the middle of it: what is in the history is acked or being
\* appended (deliver_pending), and a new agent acks what its context.jsonl has
\* before anything is claimed again (ack_ids).
THEOREM ToldOnlyOnce == Spec => []OnceInContext
<1>1. ToldOnce => OnceInContext
  <2>. SUFFICES ASSUME ToldOnce, Outside({"cancel", "slow"}), NEW e \in Events
                PROVE  mem[e] <= 1
    BY DEF OnceInContext
  <2>1. LogInv /\ OnceInv
    BY DEF ToldOnce
  <2>2. CASE Gone
    BY <2>1, <2>2 DEF LogInv
  <2>3. CASE ~Gone
    BY <2>1, <2>3 DEF OnceInv, InHistory
  <2>. QED  BY <2>2, <2>3
<1>. QED  BY <1>1, WholeInvariant, PTL

\* Every variable keeps to its range, under every hazard: runtime.json never
\* shows an end without its time, no task has more than two updates for each
\* approval it asked for, and a notification is published once.
THEOREM TypesKept == Spec => []TypeOK
<1>1. Types /\ Counters /\ ToldOnce => TypeOK
  <2>. SUFFICES ASSUME Types, Counters, ToldOnce PROVE TypeOK
    OBVIOUS
  <2>1. NotificationsTypeOK
    BY DEF ToldOnce, LogInv
  <2>2. /\ rt \in [Tasks -> Runtimes] /\ known \in [Tasks -> Runtimes]
        /\ wio \in [Tasks -> Runtimes \cup {NoIO}]
        /\ \A t \in Tasks : IsTerminal(rt[t]) => rt[t].finished
    BY DEF Types, BashTypes, Records
  <2>3. /\ kind \in [Tasks -> {"bash", "agent"}]
        /\ worker \in [Tasks -> WorkerPlaces] /\ agent \in [Tasks -> AgentPlaces]
        /\ child \in [Tasks -> [life : {"none", "alive", "succeeded", "failed"},
                                signal : {"none", "term", "kill"}]]
        /\ mgr.at \in {"idle", "create", "wire", "llm", "down", "start"}
    BY DEF Types, BashTypes, AgentTypes, ManagerTypes, ManagerPlaces
  <2>4. /\ kill \in [Tasks -> BOOLEAN] /\ late \in [Tasks -> BOOLEAN]
        /\ faults \in 0..MaxFaults /\ hz \in Environments
    BY DEF Counters
  <2>5. ASSUME NEW t \in Tasks
        PROVE  asks[t] \in 0..MaxAsks /\ pending[t] \in 0..MaxAsks /\ Len(marks[t]) <= 2 * MaxAsks
    <3>1. pending[t] \in Nat /\ Len(marks[t]) \in Nat
      BY LenProperties DEF Types, AgentTypes
    <3>2. Bounded(t)
      BY DEF Counters
    <3>. QED  BY <3>1, <3>2 DEF Bounded
  <2>6. asks \in [Tasks -> 0..MaxAsks] /\ pending \in [Tasks -> 0..MaxAsks]
    BY <2>5 DEF Counters, Types, AgentTypes
  <2>. QED  BY <2>1, <2>2, <2>3, <2>4, <2>5, <2>6 DEF TypeOK
<1>. QED  BY <1>1, WholeInvariant, PTL

=============================================================================
