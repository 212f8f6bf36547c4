------------------------------ MODULE SyncRuns ------------------------------
(***************************************************************************)
(* Manual synchronisations of one user, account and type: the web request  *)
(* that creates a row of sync_runs, queues a job and commits, the workers  *)
(* that take the job, and the sweep that gives up on rows that wait or run *)
(* too long.  A partial unique index allows one queued or running row.     *)
(***************************************************************************)
EXTENDS Integers, FiniteSets

CONSTANTS
    Requests,   \* web requests
    Workers,    \* workers that may hold a job
    Slow,       \* whether rows get old enough for the sweep
    Faults,     \* whether requests die half-way and final updates fail
    MaxTries,   \* attempts of arq at one job
    None,       \* NULL, no row
    MaxRuns     \* bound: rows of sync_runs

ASSUME RunsAssumption ==
    /\ Slow \in BOOLEAN /\ Faults \in BOOLEAN
    /\ MaxTries \in Nat /\ MaxRuns \in Nat

Ids == 1..MaxRuns
Active == {"queued", "running"}
\* "ended" stands for success, warning, error and timeout, as finish_run
\* writes them; "given_up" for the error or timeout of everybody else.
Outcomes == {"ended", "given_up"}
ASSUME NoneAssumption == None \notin Active \cup Outcomes /\ None \notin Int

VARIABLES
    runs,     \* sync_runs.status of committed rows
    old,      \* created more than STALE_QUEUED_TIMEOUT_MINUTES ago
    ran,      \* since started_at: 0, then 1 = STALE_SYNC_TIMEOUT_MINUTES
    web,      \* what each request is doing, with its uncommitted row
    job,      \* arq: the job of each row
    tries,    \* arq: attempts at it
    worker,   \* what each worker is doing
    sweep,    \* what a sweep has read and is about to write
    abandoned,   \* history: rows given up, whose job may go on
    unrecorded   \* history: rows whose last update has failed

vars == <<runs, old, ran, web, job, tries, worker, sweep, abandoned, unrecorded>>
ghosts == <<abandoned, unrecorded>>

Request == [pc : {"idle", "insert"}, run : {None}, status : {"queued"}]
            \cup [pc : {"enqueue"}, run : Ids, status : {"queued"}]
            \cup [pc : {"commit"}, run : Ids, status : {"queued", "given_up"}]
Waiting == [pc |-> "idle", run |-> None, status |-> "queued"]
Work == [pc : {"idle"}, run : {None}] \cup [pc : {"start", "execute", "record"}, run : Ids]
Resting == [pc |-> "idle", run |-> None]
NoSweep == [i \in Ids |-> None]

ActiveRuns == {i \in Ids : runs[i] \in Active}
(* Requests with a row in an open transaction.  It is in the unique index. *)
Uncommitted == {r \in Requests : web[r].pc \in {"enqueue", "commit"}}
Fresh == {i \in Ids : /\ runs[i] = None /\ job[i] = "none"
                      /\ \A r \in Requests : web[r].run # i}

-----------------------------------------------------------------------------
(***************************************************************************)
(* trigger_sync and the commit of its route.                               *)
(***************************************************************************)
(* find_active_run; if there is one, the answer is "already running".      *)
TriggerSync(r) ==
    /\ web[r].pc = "idle" /\ ActiveRuns = {}
    /\ web' = [web EXCEPT ![r].pc = "insert"]
    /\ UNCHANGED <<runs, old, ran, job, tries, worker, sweep, ghosts>>

(* The insert waits for other inserts of the same key to commit.           *)
CreateRun(r) ==
    /\ web[r].pc = "insert" /\ Uncommitted = {} /\ ActiveRuns = {}
    /\ \E i \in Fresh :
          /\ \A k \in Fresh : i <= k
          /\ web' = [web EXCEPT ![r] = [pc |-> "enqueue", run |-> i, status |-> "queued"]]
    /\ UNCHANGED <<runs, old, ran, job, tries, worker, sweep, ghosts>>

(* IntegrityError: rolled back, and the other run is the answer.           *)
CreateRefused(r) ==
    /\ web[r].pc = "insert" /\ ActiveRuns # {}
    /\ web' = [web EXCEPT ![r] = Waiting]
    /\ UNCHANGED <<runs, old, ran, job, tries, worker, sweep, ghosts>>

(* The job is visible to the workers from now on, the row is not.          *)
EnqueueJob(r) ==
    /\ web[r].pc = "enqueue"
    /\ job' = [job EXCEPT ![web[r].run] = "queued"]
    /\ web' = [web EXCEPT ![r].pc = "commit"]
    /\ UNCHANGED <<runs, old, ran, tries, worker, sweep, ghosts>>

(* Redis cannot be reached, or the answer or queue.close fails afterwards. *)
EnqueueFails(r) ==
    /\ web[r].pc = "enqueue"
    /\ \/ UNCHANGED <<job, abandoned>>
       \/ /\ Faults
          /\ job' = [job EXCEPT ![web[r].run] = "queued"]
          /\ abandoned' = abandoned \cup {web[r].run}
    /\ web' = [web EXCEPT ![r] = [pc |-> "commit", run |-> @.run, status |-> "given_up"]]
    /\ UNCHANGED <<runs, old, ran, tries, worker, sweep, unrecorded>>

CommitRun(r) ==
    /\ web[r].pc = "commit"
    /\ runs' = [runs EXCEPT ![web[r].run] = web[r].status]
    /\ web' = [web EXCEPT ![r] = Waiting]
    /\ UNCHANGED <<old, ran, job, tries, worker, sweep, ghosts>>

(* The transaction is rolled back; a queued job stays.                     *)
RequestDies(r) ==
    /\ Faults /\ web[r].pc # "idle"
    /\ web' = [web EXCEPT ![r] = Waiting]
    /\ abandoned' = IF web[r].pc = "commit" THEN abandoned \cup {web[r].run} ELSE abandoned
    /\ UNCHANGED <<runs, old, ran, job, tries, worker, sweep, unrecorded>>

(***************************************************************************)
(* The worker: _tracked_task around the job.                               *)
(***************************************************************************)
\* Mutant: an attempt is not counted against max_tries.
TakeAgain(w, i) ==
    /\ worker[w].pc = "idle" /\ job[i] = "queued"
    /\ \A v \in Workers : worker[v].run # i
    /\ worker' = [worker EXCEPT ![w] = [pc |-> "start", run |-> i]]
    /\ tries' = [tries EXCEPT ![i] = @ + 1]
    /\ UNCHANGED <<runs, old, ran, web, job, sweep, ghosts>>
Take(w, i) ==
    /\ worker[w].pc = "idle" /\ job[i] = "queued" /\ tries[i] < MaxTries
    /\ \A v \in Workers : worker[v].run # i
    /\ worker' = [worker EXCEPT ![w] = [pc |-> "start", run |-> i]]
    /\ tries' = [tries EXCEPT ![i] = @ + 1]
    /\ UNCHANGED <<runs, old, ran, web, job, sweep, ghosts>>

\* Mutant: the unique index does not know running rows.
MayRun(i) == TRUE
(* A row that is queued or running is in the index already; another one    *)
(* must enter it.                                                          *)
MayStart(i) == runs[i] \in Active \/ (ActiveRuns = {} /\ Uncommitted = {})

(* _start_sync_run asks neither for the status nor for how often it began. *)
StartSyncRun(w) ==
    LET i == worker[w].run
    IN  /\ worker[w].pc = "start"
        /\ \/ /\ runs[i] = None                 \* not committed yet: nothing
              /\ UNCHANGED <<runs, ran>>
           \/ /\ runs[i] # None /\ MayStart(i)
              /\ runs' = [runs EXCEPT ![i] = "running"]
              /\ ran' = [ran EXCEPT ![i] = IF @ = None THEN 0 ELSE @]
        /\ worker' = [worker EXCEPT ![w].pc = "execute"]
        /\ UNCHANGED <<old, web, job, tries, sweep, ghosts>>

(* The unique index refuses: the exception ends the job.                   *)
StartRefused(w) ==
    LET i == worker[w].run
    IN  /\ worker[w].pc = "start" /\ runs[i] \in Outcomes /\ ActiveRuns # {}
        /\ job' = [job EXCEPT ![i] = "done"]
        /\ worker' = [worker EXCEPT ![w] = Resting]
        /\ UNCHANGED <<runs, old, ran, web, tries, sweep, ghosts>>

(* Done, failed, or cancelled after job_timeout.                           *)
EndExecution(w) ==
    /\ worker[w].pc = "execute"
    /\ worker' = [worker EXCEPT ![w].pc = "record"]
    /\ UNCHANGED <<runs, old, ran, web, job, tries, sweep, ghosts>>

\* Mutant: only SyncTaskRun gets the outcome.
LeaveRunning(i) == runs
(* finish_run writes its outcome over whatever the row says.               *)
FinishRun(i) == [runs EXCEPT ![i] = IF @ = None THEN None ELSE "ended"]

Record(w) ==
    LET i == worker[w].run
    IN  /\ worker[w].pc = "record"
        /\ runs' = FinishRun(i)
        /\ job' = [job EXCEPT ![i] = "done"]
        /\ worker' = [worker EXCEPT ![w] = Resting]
        /\ UNCHANGED <<old, ran, web, tries, sweep, ghosts>>

(* The worker is shut down, which arq answers by running the job again, or *)
(* dies before arq knows of the end.                                       *)
RecordAndRetry(w) ==
    /\ worker[w].pc = "record"
    /\ runs' = FinishRun(worker[w].run)
    /\ worker' = [worker EXCEPT ![w] = Resting]
    /\ UNCHANGED <<old, ran, web, job, tries, sweep, ghosts>>

(* The database fails in a handler of _tracked_task: the job ends there.   *)
NotRecorded(w) ==
    /\ Faults /\ worker[w].pc \in {"start", "record"}
    /\ job' = [job EXCEPT ![worker[w].run] = "done"]
    /\ worker' = [worker EXCEPT ![w] = Resting]
    /\ unrecorded' = unrecorded \cup {worker[w].run}
    /\ UNCHANGED <<runs, old, ran, web, tries, sweep, abandoned>>

WorkerDies(w) ==
    /\ worker[w].pc # "idle"
    /\ worker' = [worker EXCEPT ![w] = Resting]
    /\ UNCHANGED <<runs, old, ran, web, job, tries, sweep, ghosts>>

(***************************************************************************)
(* Time and the sweep.                                                     *)
(***************************************************************************)
QueuedLong(i) ==
    /\ Slow /\ runs[i] = "queued" /\ ~old[i]
    /\ old' = [old EXCEPT ![i] = TRUE]
    /\ UNCHANGED <<runs, ran, web, job, tries, worker, sweep, ghosts>>

(* job_timeout ends a first execution before its row is half an hour old.  *)
RunsLong(i) ==
    /\ Slow /\ runs[i] = "running" /\ ran[i] = 0
    /\ \A w \in Workers : worker[w].run = i => tries[i] > 1 \/ worker[w].pc = "record"
    /\ ran' = [ran EXCEPT ![i] = 1]
    /\ UNCHANGED <<runs, old, web, job, tries, worker, sweep, ghosts>>

\* Mutant: only rows that wait are swept.
GiveUpQueued(i) == IF runs[i] = "queued" /\ old[i] THEN "given_up" ELSE None
(* The third rule, six hours for wb_financial_details, selects nothing the *)
(* second has not changed already.  The page of the sync centre sweeps as  *)
(* well, in a session it closes without a commit: that changes nothing.    *)
GiveUp(i) ==
    IF (runs[i] = "queued" /\ old[i]) \/ (runs[i] = "running" /\ ran[i] = 1)
    THEN "given_up" ELSE None

SweepReads ==
    /\ sweep = NoSweep
    /\ sweep' = [i \in Ids |-> GiveUp(i)] /\ sweep' # NoSweep
    /\ UNCHANGED <<runs, old, ran, web, job, tries, worker, ghosts>>

SweepWrites ==
    /\ sweep # NoSweep
    /\ runs' = [i \in Ids |-> IF sweep[i] = None THEN runs[i] ELSE sweep[i]]
    /\ abandoned' = abandoned \cup {i \in Ids : sweep[i] # None}
    /\ sweep' = NoSweep
    /\ UNCHANGED <<old, ran, web, job, tries, worker, unrecorded>>

-----------------------------------------------------------------------------
Init ==
    /\ runs = [i \in Ids |-> None] /\ job = [i \in Ids |-> "none"]
    /\ old = [i \in Ids |-> FALSE] /\ ran = [i \in Ids |-> None]
    /\ tries = [i \in Ids |-> 0]
    /\ web = [r \in Requests |-> Waiting]
    /\ worker = [w \in Workers |-> Resting]
    /\ sweep = NoSweep
    /\ abandoned = {} /\ unrecorded = {}

HandleRequest(r) ==
    \/ CreateRun(r) \/ CreateRefused(r)
    \/ EnqueueJob(r) \/ EnqueueFails(r) \/ CommitRun(r)

Run(w) ==
    StartSyncRun(w) \/ StartRefused(w) \/ EndExecution(w) \/ Record(w)

Next ==
    \/ \E r \in Requests : TriggerSync(r) \/ HandleRequest(r) \/ RequestDies(r)
    \/ \E w \in Workers :
          \/ Run(w) \/ RecordAndRetry(w) \/ NotRecorded(w) \/ WorkerDies(w)
          \/ \E i \in Ids : Take(w, i)
    \/ \E i \in Ids : QueuedLong(i) \/ RunsLong(i)
    \/ SweepReads \/ SweepWrites

Spec == Init /\ [][Next]_vars

(* A request and an attempt at a job do not stall, time passes, and the    *)
(* cron job sweeps again and again.  Nobody has to take a job.             *)
Fairness ==
    /\ \A r \in Requests : WF_vars(HandleRequest(r))
    /\ \A w \in Workers : WF_vars(Run(w))
    /\ \A i \in Ids : WF_vars(QueuedLong(i)) /\ WF_vars(RunsLong(i))
    /\ WF_vars(SweepReads) /\ WF_vars(SweepWrites)
FairSpec == Spec /\ Fairness

-----------------------------------------------------------------------------
TypeOK ==
    /\ runs \in [Ids -> Active \cup Outcomes \cup {None}]
    /\ old \in [Ids -> BOOLEAN] /\ ran \in [Ids -> {0, 1, None}]
    /\ web \in [Requests -> Request]
    /\ job \in [Ids -> {"none", "queued", "done"}] /\ tries \in [Ids -> 0..MaxTries]
    /\ worker \in [Workers -> Work]
    /\ sweep \in [Ids -> {"given_up", None}]
    /\ abandoned \in SUBSET Ids /\ unrecorded \in SUBSET Ids

(* One run of the key is queued or running, committed or about to be,      *)
(* whatever requests, retries of arq and sweeps overlap: a run that was    *)
(* given up does not come back to life beside its successor.               *)
OneActiveRun ==
    /\ \A i, k \in ActiveRuns : i = k
    /\ \A r, q \in Uncommitted : r = q
    /\ ActiveRuns = {} \/ Uncommitted = {}

(* A run whose job has ended is not shown as running, unless its last      *)
(* update failed.                                                          *)
EndIsRecorded ==
    \A i \in Ids : job[i] = "done" /\ runs[i] = "running" => i \in unrecorded

(* Two workers never do the synchronisation at a time, unless the row of   *)
(* one was given up: by the sweep, or by a request that failed after its   *)
(* job was queued.                                                         *)
Executing(w) == worker[w].pc = "execute"
OneExecution ==
    \A w, v \in Workers :
        Executing(w) /\ Executing(v) /\ w # v
            => worker[w].run \in abandoned \/ worker[v].run \in abandoned

(* Without that exception.                                                 *)
NeverTwice == \A w, v \in Workers : Executing(w) /\ Executing(v) => w = v

(* No run stays queued or running for ever.                                *)
EveryRunEnds == \A i \in Ids : runs[i] \in Active ~> runs[i] \in Outcomes
=============================================================================
