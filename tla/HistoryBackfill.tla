-------------------------- MODULE HistoryBackfill --------------------------
(***************************************************************************)
(* Loading the history of an account: jobs are rows of sync_jobs, created  *)
(* when an account is connected or a user asks for it, and taken up every  *)
(* ten minutes by process_history_backfills, whose runs may overlap and    *)
(* whose workers may be cut off after half an hour.                        *)
(***************************************************************************)
EXTENDS Integers, FiniteSets, Sequences

CONSTANTS
    MaxJobs,    \* bound: rows of sync_jobs
    Workers,    \* runs of process_history_backfills that may overlap
    Span,       \* days between date_from and date_to of each job
    Ozon,       \* jobs of Ozon accounts
    ChunkDays,  \* backfill_chunk_days
    Limit,      \* jobs one run takes up
    None

Jobs == 1..MaxJobs

ASSUME BackfillAssumption ==
    /\ MaxJobs \in Nat /\ Limit \in Nat /\ ChunkDays \in Int
    /\ Span \in [Jobs -> Nat]
    /\ None \notin Jobs

VARIABLES
    status,     \* sync_jobs.status, "absent" before the row exists
    loaded,     \* <<day, block>> of each job's period that is committed
    run,        \* what each worker holds
    cut         \* jobs one of whose runs was cut off or lost its rows

vars == <<status, loaded, run, cut>>

Done == {"COMPLETED", "COMPLETED_WITH_WARNINGS"}
Ended == Done \cup {"FAILED"}
Statuses == {"absent", "PENDING", "RUNNING"} \cup Ended

Days(j) == 0..(Span[j] - 1)

\* The calls of a chunk, in their order: _run_ozon_chunk, _run_wb_chunk.
Blocks(j) == IF j \in Ozon THEN <<"fbs", "fbo", "returns">> ELSE <<"orders", "finance">>
BlockNames == {"fbs", "fbo", "returns", "orders", "finance"}
BlocksOf(j) == {Blocks(j)[k] : k \in DOMAIN Blocks(j)}

\* A worker between two tasks; the states of its loop and of run_job:
\*   mark      -> MarkRunning, MarkFails
\*   products  -> SyncProducts, ProductsRefused, ProductsLost
\*   chunk     -> LoadBlock, BlockRefused, BlockLost, KeyFails,
\*                CommitChunk, CommitFails, Finish, RelinkFails
\* In a chunk, got holds the blocks read so far and open says that the
\* session has begun a transaction.
Fresh(pc, job, todo) == [pc |-> pc, todo |-> todo, job |-> job, at |-> 0, warn |-> FALSE,
                         block |-> 1, got |-> {}, open |-> FALSE]
Idle == Fresh("idle", None, {})
Inside == {"products", "chunk"}

TypeOK ==
    /\ status \in [Jobs -> Statuses]
    /\ loaded \in [Jobs -> SUBSET (Nat \X BlockNames)]
    /\ run \in [Workers -> [pc : {"idle", "mark"} \cup Inside,
                            todo : SUBSET Jobs, job : Jobs \cup {None},
                            at : Nat, warn : BOOLEAN, block : 1..4,
                            got : SUBSET BlockNames, open : BOOLEAN]]
    /\ cut \in SUBSET Jobs

Init ==
    /\ status = [j \in Jobs |-> "absent"]
    /\ loaded = [j \in Jobs |-> {}]
    /\ run = [s \in Workers |-> Idle]
    /\ cut = {}

-----------------------------------------------------------------------------
(* The queue.                                                              *)

\* schedule_initial, schedule_manual, schedule_period: ids follow created_at.
Schedule(j) ==
    /\ status[j] = "absent"
    /\ \A i \in Jobs : i < j => status[i] # "absent"
    /\ status' = [status EXCEPT ![j] = "PENDING"]
    /\ UNCHANGED <<loaded, run, cut>>

Pending == {j \in Jobs : status[j] = "PENDING"}
Oldest(S) == {j \in S : Cardinality({i \in S : i < j}) < Limit}

\* The loop of process_history_backfills over the jobs it has read, todo.
Batch(s, todo) ==
    \/ /\ todo = {}
       /\ run' = [run EXCEPT ![s] = Idle]
    \/ \E j \in todo :
        /\ \A i \in todo : j <= i
        /\ run' = [run EXCEPT ![s] = Fresh("mark", j, todo \ {j})]

\* No lock and no claim: two runs may read the same jobs.
ReadPending(s) ==
    /\ run[s].pc = "idle"
    /\ Batch(s, Oldest(Pending))
    /\ UNCHANGED <<status, loaded, cut>>

-----------------------------------------------------------------------------
(* run_job. A rollback of a transaction that has begun expires every row   *)
(* the session has loaded, and the next attribute read of one fails:       *)
(* run_job then cannot even record the failure, since its handler begins   *)
(* by reading job.id. A rollback before the first statement does nothing.  *)

\* The end of a task of process_history_backfills: with the message sent the
\* loop goes on; if the call of the bot or a read fails, or run_job has failed
\* after a rollback, the rows of the jobs that remain are expired and the
\* loop fails on them, after a message without counters.
BatchFails(s) == run' = [run EXCEPT ![s] = Idle]
JobEnds(s) == Batch(s, run[s].todo) \/ BatchFails(s)

Goto(s, pc) == run' = [run EXCEPT ![s] = [run[s] EXCEPT !.pc = pc]]

\* Mutant: the status is flushed and not committed.
MarkUnsaved(s) == run[s].pc = "mark" /\ Goto(s, "products") /\ UNCHANGED <<status, loaded, cut>>

\* The status the run loaded was PENDING; what it is by now is not looked at.
MarkRunning(s) ==
    /\ run[s].pc = "mark"
    /\ status' = [status EXCEPT ![run[s].job] = "RUNNING"]
    /\ Goto(s, "products")
    /\ UNCHANGED <<loaded, cut>>

MarkFails(s) ==
    /\ run[s].pc = "mark"
    /\ BatchFails(s)
    /\ UNCHANGED <<status, loaded, cut>>

SyncProducts(s) ==
    /\ run[s].pc = "products"
    /\ Goto(s, "chunk")
    /\ UNCHANGED <<status, loaded, cut>>

\* sync_account_products has committed the error on the account: no rollback.
ProductsRefused(s) ==
    /\ run[s].pc = "products"
    /\ run' = [run EXCEPT ![s] = [run[s] EXCEPT !.pc = "chunk", !.warn = TRUE]]
    /\ UNCHANGED <<status, loaded, cut>>

\* The rows are lost: job and status stay as they are.
LosesRows(s) ==
    /\ cut' = cut \cup {run[s].job}
    /\ BatchFails(s)
    /\ UNCHANGED <<status, loaded>>

\* An error of the database.
ProductsLost(s) == run[s].pc = "products" /\ LosesRows(s)

ChunkStep == IF ChunkDays < 1 THEN 1 ELSE ChunkDays
ChunkEnd(j, from) == IF from + ChunkStep < Span[j] THEN from + ChunkStep ELSE Span[j]

InChunk(s) == run[s].pc = "chunk" /\ run[s].at < Span[run[s].job]
InBlock(s) == InChunk(s) /\ run[s].block <= Len(Blocks(run[s].job))
AllRead(s) == InChunk(s) /\ run[s].block > Len(Blocks(run[s].job))

\* An empty answer leaves the session as it is. A row of the sales report
\* that cannot be stored as an order leaves a warning.
LoadBlock(s) ==
    LET name == Blocks(run[s].job)[run[s].block] IN
    /\ InBlock(s)
    /\ \E begun \in {run[s].open, TRUE}, w \in {run[s].warn, run[s].warn \/ name = "finance"} :
        /\ w # run[s].warn => begun
        /\ run' = [run EXCEPT ![s] = [run[s] EXCEPT !.block = run[s].block + 1,
                        !.got = run[s].got \cup {name}, !.open = begun, !.warn = w]]
    /\ UNCHANGED <<status, loaded, cut>>

\* Mutant: the handler counts the failure and forgets the warning.
BlockSkipped(s) ==
    /\ InBlock(s)
    /\ ~run[s].open
    /\ run' = [run EXCEPT ![s] = [run[s] EXCEPT !.block = run[s].block + 1]]
    /\ UNCHANGED <<status, loaded, cut>>

\* The marketplace refuses before anything of the chunk was written.
BlockRefused(s) ==
    /\ InBlock(s)
    /\ ~run[s].open
    /\ run' = [run EXCEPT ![s] = [run[s] EXCEPT !.block = run[s].block + 1, !.warn = TRUE]]
    /\ UNCHANGED <<status, loaded, cut>>

\* The marketplace, the database or a unique index refuses after rows of
\* this chunk were written, by this block or one before it.
BlockLost(s) == InBlock(s) /\ LosesRows(s)

\* What the chunk has read is committed together with the progress. An Ozon
\* chunk always leaves a warning.
CommitChunk(s) ==
    LET j == run[s].job
        to == ChunkEnd(j, run[s].at)
    IN
    /\ AllRead(s)
    /\ loaded' = [loaded EXCEPT ![j] = loaded[j] \cup ((run[s].at..(to - 1)) \X run[s].got)]
    /\ run' = [run EXCEPT ![s] = [run[s] EXCEPT !.at = to, !.block = 1, !.got = {},
                    !.open = FALSE, !.warn = run[s].warn \/ j \in Ozon]]
    /\ UNCHANGED <<status, cut>>

CommitFails(s) == AllRead(s) /\ LosesRows(s)

\* Mutant: the handler of run_job rolls back and writes nothing.
KeyFailsUnsaid(s) ==
    /\ InChunk(s)
    /\ run[s].at = 0 /\ run[s].block = 1 /\ run[s].warn
    /\ JobEnds(s)
    /\ UNCHANGED <<status, loaded, cut>>

\* The key cannot be decrypted, as it could not for the products. There was
\* no statement to roll back: the run goes on with the next job.
KeyFails(s) ==
    /\ InChunk(s)
    /\ run[s].at = 0 /\ run[s].block = 1 /\ run[s].warn
    /\ status' = [status EXCEPT ![run[s].job] = "FAILED"]
    /\ JobEnds(s)
    /\ UNCHANGED <<loaded, cut>>

AllChunks(s) == run[s].pc = "chunk" /\ run[s].at >= Span[run[s].job]

\* Mutant: the status of the other journal of the bot.
FinishSuccess(s) ==
    /\ AllChunks(s)
    /\ status' = [status EXCEPT ![run[s].job] = "SUCCESS"]
    /\ JobEnds(s)
    /\ UNCHANGED <<loaded, cut>>

Finish(s) ==
    /\ AllChunks(s)
    /\ status' = [status EXCEPT ![run[s].job] =
                    IF run[s].warn THEN "COMPLETED_WITH_WARNINGS" ELSE "COMPLETED"]
    /\ JobEnds(s)
    /\ UNCHANGED <<loaded, cut>>

\* The report rows of a WB account are linked again before the commit; an
\* error there fails the job, a failed flush loses the rows.
RelinkFails(s) ==
    /\ AllChunks(s)
    /\ run[s].job \notin Ozon
    /\ \/ /\ status' = [status EXCEPT ![run[s].job] = "FAILED"]
          /\ BatchFails(s)
          /\ UNCHANGED <<loaded, cut>>
       \/ LosesRows(s)

\* job_timeout, a deploy or a crash.
Die(s) ==
    /\ run[s].pc # "idle"
    /\ run' = [run EXCEPT ![s] = Idle]
    /\ cut' = IF run[s].pc \in Inside THEN cut \cup {run[s].job} ELSE cut
    /\ UNCHANGED <<status, loaded>>

Run(s) ==
    \/ ReadPending(s) \/ MarkRunning(s) \/ MarkFails(s)
    \/ SyncProducts(s) \/ ProductsRefused(s) \/ ProductsLost(s)
    \/ LoadBlock(s) \/ BlockRefused(s) \/ BlockLost(s)
    \/ CommitChunk(s) \/ CommitFails(s) \/ KeyFails(s)
    \/ Finish(s) \/ RelinkFails(s)

Next ==
    \/ \E j \in Jobs : Schedule(j)
    \/ \E s \in Workers : Run(s) \/ Die(s)

Spec == Init /\ [][Next]_vars

\* The cron job comes again, a worker goes on until it is cut off, and
\* neither the death of a worker nor the refusal of the database comes
\* between reading a job and marking it every time.
Fairness ==
    \A s \in Workers :
        /\ WF_vars(Run(s))
        /\ SF_vars(MarkRunning(s))

FairSpec == Spec /\ Fairness

-----------------------------------------------------------------------------
(* Properties.                                                             *)

\* A job that says it is completed, without warnings, has every block of
\* every day of its period in the database, whatever was refused and
\* whatever another run of the same job has done (run_job).
DoneIsLoaded ==
    \A j \in Jobs : status[j] = "COMPLETED" => Days(j) \X BlocksOf(j) \subseteq loaded[j]

\* Every job that was scheduled ends for good, unless a run of it was cut off
\* or lost its rows: nothing else leaves a job running.
EveryJobEnds ==
    \A j \in Jobs : status[j] = "PENDING" ~> [](status[j] \in Ended \/ j \in cut)
=============================================================================
