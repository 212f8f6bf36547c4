--------------------------- MODULE SyncRunsProofs ---------------------------
(***************************************************************************)
(* Proofs about SyncRuns for any number of requests, workers, rows and     *)
(* attempts.                                                               *)
(***************************************************************************)
EXTENDS SyncRuns, TLAPS

USE DEF Ids, Active, Outcomes, ghosts

(* A sweep gives a row up, or leaves it.                                   *)
LEMMA SweepOutcome ==
    ASSUME NEW i \in Ids
    PROVE GiveUp(i) \in {"given_up", None}
BY DEF GiveUp

-----------------------------------------------------------------------------
(***************************************************************************)
(* Type correctness.                                                       *)
(***************************************************************************)
LEMMA InitType == Init => TypeOK
BY RunsAssumption DEF Init, TypeOK, Request, Waiting, Work, Resting, NoSweep

LEMMA RequestType ==
    ASSUME TypeOK, NEW r \in Requests,
           TriggerSync(r) \/ HandleRequest(r) \/ RequestDies(r)
    PROVE  TypeOK'
<1> USE DEF TypeOK, Request, Waiting
<1>1. CASE TriggerSync(r)
  BY <1>1 DEF TriggerSync
<1>2. CASE CreateRun(r)
  BY <1>2 DEF CreateRun, Fresh
<1>3. CASE CreateRefused(r)
  BY <1>3 DEF CreateRefused
<1>4. CASE EnqueueJob(r)
  BY <1>4 DEF EnqueueJob
<1>5. CASE EnqueueFails(r)
  BY <1>5 DEF EnqueueFails
<1>6. CASE CommitRun(r)
  BY <1>6 DEF CommitRun
<1>7. CASE RequestDies(r)
  BY <1>7 DEF RequestDies
<1> QED BY <1>1, <1>2, <1>3, <1>4, <1>5, <1>6, <1>7 DEF HandleRequest

LEMMA WorkerType ==
    ASSUME TypeOK, NEW w \in Workers,
           \/ Run(w) \/ RecordAndRetry(w) \/ NotRecorded(w) \/ WorkerDies(w)
           \/ \E i \in Ids : Take(w, i)
    PROVE  TypeOK'
<1> USE DEF TypeOK, Work, Resting, FinishRun
<1>1. CASE StartSyncRun(w)
  <2>1. worker' \in [Workers -> Work]
    BY <1>1 DEF StartSyncRun
  <2>2. runs' \in [Ids -> Active \cup Outcomes \cup {None}]
    BY <1>1 DEF StartSyncRun
  <2>3. ran' \in [Ids -> {0, 1, None}]
    BY <1>1 DEF StartSyncRun
  <2>4. UNCHANGED <<old, web, job, tries, sweep, ghosts>>
    BY <1>1 DEF StartSyncRun
  <2> QED BY <2>1, <2>2, <2>3, <2>4
<1>2. CASE StartRefused(w)
  BY <1>2 DEF StartRefused
<1>3. CASE EndExecution(w)
  BY <1>3 DEF EndExecution
<1>4. CASE Record(w)
  BY <1>4 DEF Record
<1>5. CASE RecordAndRetry(w)
  BY <1>5 DEF RecordAndRetry
<1>6. CASE NotRecorded(w)
  BY <1>6 DEF NotRecorded
<1>7. CASE WorkerDies(w)
  BY <1>7 DEF WorkerDies
<1>8. ASSUME NEW i \in Ids, Take(w, i)
      PROVE  TypeOK'
  BY <1>8, RunsAssumption DEF Take
<1> QED BY <1>1, <1>2, <1>3, <1>4, <1>5, <1>6, <1>7, <1>8 DEF Run

LEMMA TimeType ==
    ASSUME TypeOK,
           \/ \E i \in Ids : QueuedLong(i) \/ RunsLong(i)
           \/ SweepReads \/ SweepWrites
    PROVE  TypeOK'
<1> USE DEF TypeOK
<1>1. ASSUME NEW i \in Ids, QueuedLong(i)
      PROVE  TypeOK'
  BY <1>1 DEF QueuedLong
<1>2. ASSUME NEW i \in Ids, RunsLong(i)
      PROVE  TypeOK'
  BY <1>2 DEF RunsLong
<1>3. CASE SweepReads
  BY <1>3, SweepOutcome DEF SweepReads
<1>4. CASE SweepWrites
  BY <1>4 DEF SweepWrites, NoSweep
<1> QED BY <1>1, <1>2, <1>3, <1>4

(* Rows, jobs, requests and workers always have one of the values the code *)
(* gives them, whoever dies.                                               *)
THEOREM TypeCorrect == Spec => []TypeOK
<1>1. TypeOK /\ [Next]_vars => TypeOK'
  <2> SUFFICES ASSUME TypeOK, [Next]_vars PROVE TypeOK'
    OBVIOUS
  <2>1. CASE UNCHANGED vars
    BY <2>1 DEF vars, TypeOK
  <2>2. CASE Next
    BY <2>2, RequestType, WorkerType, TimeType DEF Next
  <2> QED BY <2>1, <2>2
<1> QED BY InitType, <1>1, PTL DEF Spec

-----------------------------------------------------------------------------
(***************************************************************************)
(* One active run.  The property is inductive: the index guards the two    *)
(* steps that activate a row, all others leave or shrink the active ones.  *)
(***************************************************************************)
LEMMA ActiveSteps ==
    ASSUME TypeOK, OneActiveRun, ActiveRuns' \subseteq ActiveRuns,
           UNCHANGED web
    PROVE  OneActiveRun'
BY DEF OneActiveRun, Uncommitted

LEMMA RequestOneActive ==
    ASSUME TypeOK, OneActiveRun, NEW r \in Requests,
           TriggerSync(r) \/ HandleRequest(r) \/ RequestDies(r)
    PROVE  OneActiveRun'
<1> USE DEF TypeOK, Request, OneActiveRun, Uncommitted, ActiveRuns, Waiting
<1>1. CASE TriggerSync(r)
  BY <1>1 DEF TriggerSync
<1>2. CASE CreateRun(r)
  BY <1>2 DEF CreateRun
<1>3. CASE CreateRefused(r)
  BY <1>3 DEF CreateRefused
<1>4. CASE EnqueueJob(r)
  BY <1>4 DEF EnqueueJob
<1>5. CASE EnqueueFails(r)
  BY <1>5 DEF EnqueueFails
<1>6. CASE CommitRun(r)
  BY <1>6 DEF CommitRun
<1>7. CASE RequestDies(r)
  BY <1>7 DEF RequestDies
<1> QED BY <1>1, <1>2, <1>3, <1>4, <1>5, <1>6, <1>7 DEF HandleRequest

LEMMA WorkerOneActive ==
    ASSUME TypeOK, OneActiveRun, NEW w \in Workers,
           \/ Run(w) \/ RecordAndRetry(w) \/ NotRecorded(w) \/ WorkerDies(w)
           \/ \E i \in Ids : Take(w, i)
    PROVE  OneActiveRun'
<1>1. CASE StartSyncRun(w)
  <2>1. CASE runs[worker[w].run] \in Active
    BY <1>1, <2>1, ActiveSteps DEF StartSyncRun, TypeOK, ActiveRuns
  <2>2. CASE runs[worker[w].run] \notin Active
    <3>1. UNCHANGED web /\ (UNCHANGED runs \/ (ActiveRuns = {} /\ Uncommitted = {}))
      BY <1>1, <2>2 DEF StartSyncRun, MayStart
    <3>2. CASE UNCHANGED runs
      BY <3>1, <3>2, ActiveSteps DEF ActiveRuns
    <3>3. CASE ActiveRuns = {} /\ Uncommitted = {}
      <4>1. \A k \in ActiveRuns' : k = worker[w].run
        BY <1>1, <3>3 DEF StartSyncRun, ActiveRuns, TypeOK
      <4> QED BY <4>1, <3>1, <3>3 DEF OneActiveRun, Uncommitted
    <3> QED BY <3>1, <3>2, <3>3
  <2> QED BY <2>1, <2>2
<1>2. CASE StartRefused(w)
  BY <1>2, ActiveSteps DEF StartRefused, ActiveRuns
<1>3. CASE EndExecution(w)
  BY <1>3, ActiveSteps DEF EndExecution, ActiveRuns
<1>4. CASE Record(w) \/ RecordAndRetry(w)
  <2>1. runs' = FinishRun(worker[w].run) /\ UNCHANGED web
    BY <1>4 DEF Record, RecordAndRetry
  <2> QED BY <2>1, NoneAssumption, ActiveSteps DEF FinishRun, ActiveRuns, TypeOK
<1>5. CASE NotRecorded(w)
  BY <1>5, ActiveSteps DEF NotRecorded, ActiveRuns
<1>6. CASE WorkerDies(w)
  BY <1>6, ActiveSteps DEF WorkerDies, ActiveRuns
<1>7. ASSUME NEW i \in Ids, Take(w, i)
      PROVE  OneActiveRun'
  BY <1>7, ActiveSteps DEF Take, ActiveRuns
<1> QED BY <1>1, <1>2, <1>3, <1>4, <1>5, <1>6, <1>7 DEF Run

LEMMA TimeOneActive ==
    ASSUME TypeOK, OneActiveRun,
           \/ \E i \in Ids : QueuedLong(i) \/ RunsLong(i)
           \/ SweepReads \/ SweepWrites
    PROVE  OneActiveRun'
<1>1. ASSUME NEW i \in Ids, QueuedLong(i) \/ RunsLong(i)
      PROVE  OneActiveRun'
  BY <1>1, ActiveSteps DEF QueuedLong, RunsLong, ActiveRuns
<1>2. CASE SweepReads
  BY <1>2, ActiveSteps DEF SweepReads, ActiveRuns
<1>3. CASE SweepWrites
  BY <1>3, NoneAssumption, ActiveSteps DEF SweepWrites, ActiveRuns, TypeOK
<1> QED BY <1>1, <1>2, <1>3

(* The user, account and type of the model never have two rows that are    *)
(* queued or running, however requests, retries and sweeps overlap.        *)
THEOREM OneActive == Spec => []OneActiveRun
<1>1. Init => OneActiveRun
  BY NoneAssumption DEF Init, OneActiveRun, ActiveRuns, Uncommitted, Waiting
<1>2. TypeOK /\ OneActiveRun /\ [Next]_vars => OneActiveRun'
  <2> SUFFICES ASSUME TypeOK, OneActiveRun, [Next]_vars PROVE OneActiveRun'
    OBVIOUS
  <2>1. CASE UNCHANGED vars
    BY <2>1, ActiveSteps DEF vars, ActiveRuns
  <2>2. CASE Next
    BY <2>2, RequestOneActive, WorkerOneActive, TimeOneActive DEF Next
  <2> QED BY <2>1, <2>2
<1> QED BY <1>1, <1>2, TypeCorrect, PTL DEF Spec

-----------------------------------------------------------------------------
(***************************************************************************)
(* The end of a job.                                                       *)
(***************************************************************************)
Busy(w) == worker[w].pc # "idle"

(* A worker holds a job that has not ended, and no two hold the same.      *)
Held ==
    /\ \A w \in Workers : Busy(w) => worker[w].run \in Ids /\ job[worker[w].run] = "queued"
    /\ \A w, v \in Workers : Busy(w) /\ Busy(v) /\ worker[w].run = worker[v].run => w = v

EndInv == TypeOK /\ Held /\ EndIsRecorded

LEMMA RequestEnd ==
    ASSUME EndInv, NEW r \in Requests,
           TriggerSync(r) \/ HandleRequest(r) \/ RequestDies(r)
    PROVE  Held' /\ EndIsRecorded'
<1> USE DEF EndInv, TypeOK, Request, Held, Busy, EndIsRecorded
<1>1. CASE TriggerSync(r)
  BY <1>1 DEF TriggerSync
<1>2. CASE CreateRun(r)
  BY <1>2 DEF CreateRun
<1>3. CASE CreateRefused(r)
  BY <1>3 DEF CreateRefused
<1>4. CASE EnqueueJob(r)
  BY <1>4 DEF EnqueueJob
<1>5. CASE EnqueueFails(r)
  BY <1>5 DEF EnqueueFails
<1>6. CASE CommitRun(r)
  BY <1>6 DEF CommitRun
<1>7. CASE RequestDies(r)
  BY <1>7 DEF RequestDies
<1> QED BY <1>1, <1>2, <1>3, <1>4, <1>5, <1>6, <1>7 DEF HandleRequest

(* A job that ends is held by this worker only.                            *)
LEMMA WorkerEnd ==
    ASSUME EndInv, NEW w \in Workers,
           \/ Run(w) \/ RecordAndRetry(w) \/ NotRecorded(w) \/ WorkerDies(w)
           \/ \E i \in Ids : Take(w, i)
    PROVE  Held' /\ EndIsRecorded'
<1> USE DEF EndInv, TypeOK, Work, Resting, Held, Busy, EndIsRecorded
<1>1. CASE StartSyncRun(w)
  <2>1. worker[w].run \in Ids /\ job[worker[w].run] = "queued" /\ UNCHANGED <<job, unrecorded>>
    BY <1>1 DEF StartSyncRun
  <2>2. \A i \in Ids : i # worker[w].run => runs'[i] = runs[i]
    BY <1>1 DEF StartSyncRun
  <2>3. \A v \in Workers : worker'[v].run = worker[v].run /\ (Busy(v)' => Busy(v))
    BY <1>1 DEF StartSyncRun
  <2>4. Held'
    BY <2>1, <2>3
  <2> QED BY <2>1, <2>2, <2>4
<1>2. CASE StartRefused(w)
  BY <1>2 DEF StartRefused
<1>3. CASE EndExecution(w)
  BY <1>3 DEF EndExecution
<1>4. CASE Record(w)
  BY <1>4, NoneAssumption DEF Record, FinishRun
<1>5. CASE RecordAndRetry(w)
  BY <1>5, NoneAssumption DEF RecordAndRetry, FinishRun
<1>6. CASE NotRecorded(w)
  BY <1>6 DEF NotRecorded
<1>7. CASE WorkerDies(w)
  BY <1>7 DEF WorkerDies
<1>8. ASSUME NEW i \in Ids, Take(w, i)
      PROVE  Held' /\ EndIsRecorded'
  BY <1>8 DEF Take
<1> QED BY <1>1, <1>2, <1>3, <1>4, <1>5, <1>6, <1>7, <1>8 DEF Run

LEMMA TimeEnd ==
    ASSUME EndInv,
           \/ \E i \in Ids : QueuedLong(i) \/ RunsLong(i)
           \/ SweepReads \/ SweepWrites
    PROVE  Held' /\ EndIsRecorded'
<1> USE DEF EndInv, TypeOK, Held, Busy, EndIsRecorded
<1>1. ASSUME NEW i \in Ids, QueuedLong(i) \/ RunsLong(i)
      PROVE  Held' /\ EndIsRecorded'
  <2>1. UNCHANGED <<runs, job, worker, unrecorded>>
    BY <1>1 DEF QueuedLong, RunsLong
  <2> QED BY <2>1
<1>2. CASE SweepReads
  BY <1>2 DEF SweepReads
<1>3. CASE SweepWrites
  BY <1>3, NoneAssumption DEF SweepWrites
<1> QED BY <1>1, <1>2, <1>3

(* A run whose job has ended is shown as running only if its last update   *)
(* failed, however often its worker died and the sweep gave it up.         *)
THEOREM EndsRecorded == Spec => []EndIsRecorded
<1>1. Init => Held /\ EndIsRecorded
  BY DEF Init, Held, Busy, Resting, EndIsRecorded
<1>2. TypeOK /\ Held /\ EndIsRecorded /\ [Next]_vars => Held' /\ EndIsRecorded'
  <2> SUFFICES ASSUME EndInv, [Next]_vars PROVE Held' /\ EndIsRecorded'
    BY DEF EndInv
  <2>1. CASE UNCHANGED vars
    BY <2>1 DEF vars, EndInv, Held, Busy, EndIsRecorded
  <2>2. CASE Next
    BY <2>2, RequestEnd, WorkerEnd, TimeEnd DEF Next
  <2> QED BY <2>1, <2>2
<1> QED BY <1>1, <1>2, TypeCorrect, PTL DEF Spec

-----------------------------------------------------------------------------
(***************************************************************************)
(* One execution at a time.  A job whose row was not given up has a row,   *)
(* or one is about to be committed for it; what executes is active, or     *)
(* about to be.  The rest is OneActiveRun and Held.                        *)
(***************************************************************************)
Owned(i) == \E r \in Uncommitted : web[r].run = i /\ web[r].status = "queued"
Waits == \A r \in Requests : web[r].pc = "enqueue" => job[web[r].run] = "none"
HasRow == \A i \in Ids : job[i] # "none" /\ i \notin abandoned => runs[i] # None \/ Owned(i)
Counts ==
    \A w \in Workers : Executing(w) /\ worker[w].run \notin abandoned
        => runs[worker[w].run] \in Active \/ Owned(worker[w].run)
ExecInv == TypeOK /\ OneActiveRun /\ Held /\ Waits /\ HasRow /\ Counts

LEMMA RequestExec ==
    ASSUME ExecInv, NEW r \in Requests,
           TriggerSync(r) \/ HandleRequest(r) \/ RequestDies(r)
    PROVE  Waits' /\ HasRow' /\ Counts'
<1> USE DEF ExecInv, TypeOK, Request, Waits, HasRow, Counts, Owned, Uncommitted, Executing
<1>1. CASE TriggerSync(r)
  BY <1>1 DEF TriggerSync
<1>2. CASE CreateRun(r)
  <2>1. UNCHANGED <<runs, job, worker, abandoned>> /\ ~(\E i \in Ids : Owned(i))
    BY <1>2 DEF CreateRun
  <2>2. Waits'
    BY <1>2 DEF CreateRun, Fresh
  <2> QED BY <2>1, <2>2
<1>3. CASE CreateRefused(r)
  BY <1>3 DEF CreateRefused, Waiting
<1>4. CASE EnqueueJob(r)
  <2>1. web[r].run \in Ids /\ web[r].status = "queued" /\ Owned(web[r].run)'
    BY <1>4 DEF EnqueueJob
  <2>2. \A i \in Ids : Owned(i) => Owned(i)'
    BY <1>4 DEF EnqueueJob
  <2>3. Waits'
    BY <1>4 DEF EnqueueJob, OneActiveRun
  <2>4. HasRow' /\ Counts'
    BY <1>4, <2>1, <2>2 DEF EnqueueJob
  <2> QED BY <2>3, <2>4
<1>5. CASE EnqueueFails(r)
  <2>1. \A i \in Ids : Owned(i) => Owned(i)' \/ i \in abandoned' \/ (job[i] = "none" /\ job'[i] = "none")
    <3>1. \A i \in Ids : Owned(i) => i = web[r].run
      BY <1>5 DEF OneActiveRun, EnqueueFails
    <3>2. job[web[r].run] = "none" /\ (job' = job \/ web[r].run \in abandoned')
      BY <1>5 DEF EnqueueFails
    <3> QED BY <3>1, <3>2
  <2>2. \A i \in Ids : job'[i] # "none" => job[i] # "none" \/ i \in abandoned'
    BY <1>5 DEF EnqueueFails
  <2>3. UNCHANGED <<runs, worker>> /\ abandoned \subseteq abandoned'
    BY <1>5 DEF EnqueueFails
  <2>4. Waits'
    BY <1>5 DEF OneActiveRun, EnqueueFails
  <2>5. HasRow'
    BY <2>1, <2>2, <2>3
  <2>6. Counts'
    BY <2>1, <2>3 DEF Held, Busy, Work
  <2> QED BY <2>4, <2>5, <2>6
<1>6. CASE CommitRun(r)
  BY <1>6, NoneAssumption DEF CommitRun, OneActiveRun, ActiveRuns, Waiting
<1>7. CASE RequestDies(r)
  <2>1. \A i \in Ids : Owned(i) => Owned(i)' \/ i \in abandoned' \/ (job[i] = "none" /\ job'[i] = "none")
    BY <1>7 DEF OneActiveRun, RequestDies, Waiting
  <2>2. \A i \in Ids : job'[i] # "none" => job[i] # "none" \/ i \in abandoned'
    BY <1>7 DEF RequestDies, Waiting
  <2>3. UNCHANGED <<runs, worker>> /\ abandoned \subseteq abandoned'
    BY <1>7 DEF RequestDies, Waiting
  <2>4. Waits'
    BY <1>7 DEF OneActiveRun, RequestDies, Waiting
  <2>5. HasRow'
    BY <2>1, <2>2, <2>3
  <2>6. Counts'
    BY <2>1, <2>3 DEF Held, Busy, Work
  <2> QED BY <2>4, <2>5, <2>6
<1> QED BY <1>1, <1>2, <1>3, <1>4, <1>5, <1>6, <1>7 DEF HandleRequest

LEMMA WorkerExec ==
    ASSUME ExecInv, NEW w \in Workers,
           \/ Run(w) \/ RecordAndRetry(w) \/ NotRecorded(w) \/ WorkerDies(w)
           \/ \E i \in Ids : Take(w, i)
    PROVE  Waits' /\ HasRow' /\ Counts'
<1> USE DEF ExecInv, TypeOK, Work, Resting, Held, Busy, Waits, HasRow, Counts, Owned,
            Uncommitted, Executing
<1>1. CASE StartSyncRun(w)
  <2> DEFINE i == worker[w].run
  <2>1. i \in Ids /\ job[i] = "queued" /\ UNCHANGED <<job, web, abandoned>>
    BY <1>1 DEF StartSyncRun
  <2>2. \A k \in Ids : Owned(k)' = Owned(k)
    BY <2>1
  <2>3. \A k \in Ids : runs'[k] = runs[k] \/ (k = i /\ runs'[k] = "running")
    BY <1>1 DEF StartSyncRun
  <2>4. runs'[i] = "running" \/ (runs[i] = None /\ runs'[i] = None)
    BY <1>1, <2>1 DEF StartSyncRun
  <2>5. \A v \in Workers : worker'[v].run = worker[v].run /\ (Executing(v)' => Executing(v) \/ v = w)
    BY <1>1 DEF StartSyncRun
  <2>6. HasRow'
    BY <2>1, <2>2, <2>3, NoneAssumption
  <2>7. i \notin abandoned => runs'[i] = "running" \/ Owned(i)
    BY <2>1, <2>4
  <2>8. Counts'
    BY <2>1, <2>2, <2>3, <2>5, <2>7
  <2> QED BY <2>1, <2>6, <2>8
<1>2. CASE StartRefused(w)
  BY <1>2 DEF StartRefused
<1>3. CASE EndExecution(w)
  BY <1>3 DEF EndExecution
<1>4. CASE Record(w)
  BY <1>4, NoneAssumption DEF Record, FinishRun
<1>5. CASE RecordAndRetry(w)
  BY <1>5, NoneAssumption DEF RecordAndRetry, FinishRun
<1>6. CASE NotRecorded(w)
  BY <1>6 DEF NotRecorded
<1>7. CASE WorkerDies(w)
  BY <1>7 DEF WorkerDies
<1>8. ASSUME NEW i \in Ids, Take(w, i)
      PROVE  Waits' /\ HasRow' /\ Counts'
  BY <1>8 DEF Take
<1> QED BY <1>1, <1>2, <1>3, <1>4, <1>5, <1>6, <1>7, <1>8 DEF Run

LEMMA TimeExec ==
    ASSUME ExecInv,
           \/ \E i \in Ids : QueuedLong(i) \/ RunsLong(i)
           \/ SweepReads \/ SweepWrites
    PROVE  Waits' /\ HasRow' /\ Counts'
<1> USE DEF ExecInv, TypeOK, Work, Waits, HasRow, Counts, Owned, Uncommitted, Executing
<1>1. ASSUME NEW i \in Ids, QueuedLong(i) \/ RunsLong(i)
      PROVE  Waits' /\ HasRow' /\ Counts'
  <2>1. UNCHANGED <<runs, job, worker, web, abandoned>>
    BY <1>1 DEF QueuedLong, RunsLong
  <2> QED BY <2>1
<1>2. CASE SweepReads
  BY <1>2 DEF SweepReads
<1>3. CASE SweepWrites
  BY <1>3, NoneAssumption DEF SweepWrites
<1> QED BY <1>1, <1>2, <1>3

LEMMA ActiveExecutesAlone == ExecInv => OneExecution
BY DEF ExecInv, TypeOK, Work, Held, Busy, Counts, Owned, OneActiveRun, ActiveRuns, OneExecution,
       Executing

(* However requests, retries, deaths and sweeps overlap, two workers       *)
(* synchronise at a time only if the row of one was given up.              *)
THEOREM OneExecutes == Spec => []OneExecution
<1>1. Init => Held /\ Waits /\ HasRow /\ Counts
  BY DEF Init, Held, Busy, Resting, Waits, Waiting, HasRow, Counts, Executing
<1>2. TypeOK /\ OneActiveRun /\ Held /\ EndIsRecorded /\ Waits /\ HasRow /\ Counts /\ [Next]_vars
        => Held' /\ Waits' /\ HasRow' /\ Counts'
  <2> SUFFICES ASSUME ExecInv, EndIsRecorded, [Next]_vars
               PROVE  Held' /\ Waits' /\ HasRow' /\ Counts'
    BY DEF ExecInv
  <2>1. CASE UNCHANGED vars
    BY <2>1 DEF vars, ExecInv, Held, Busy, Waits, HasRow, Counts, Owned, Uncommitted, Executing
  <2>2. CASE Next
    <3>1. Held'
      BY <2>2, RequestEnd, WorkerEnd, TimeEnd DEF Next, ExecInv, EndInv
    <3> QED BY <2>2, <3>1, RequestExec, WorkerExec, TimeExec DEF Next
  <2> QED BY <2>1, <2>2
<1>3. TypeOK /\ OneActiveRun /\ Held /\ Waits /\ HasRow /\ Counts => OneExecution
  BY ActiveExecutesAlone DEF ExecInv
<1> QED BY <1>1, <1>2, <1>3, TypeCorrect, OneActive, EndsRecorded, PTL DEF Spec
=============================================================================
