----------------------- MODULE HistoryBackfillProofs -----------------------
(***************************************************************************)
(* Proofs about HistoryBackfill for any number of jobs, overlapping runs,  *)
(* periods and chunk lengths.                                              *)
(***************************************************************************)
EXTENDS HistoryBackfill, TLAPS

RunType == [pc : {"idle", "mark"} \cup Inside,
            todo : SUBSET Jobs, job : Jobs \cup {None},
            at : Nat, warn : BOOLEAN, block : 1..4,
            got : SUBSET BlockNames, open : BOOLEAN]

LEMMA BlockFacts ==
    ASSUME NEW j \in Jobs
    PROVE  /\ Len(Blocks(j)) \in {2, 3}
           /\ DOMAIN Blocks(j) = 1..Len(Blocks(j))
           /\ \A k \in 1..Len(Blocks(j)) : Blocks(j)[k] \in BlockNames
<1>1. CASE j \in Ozon
  <2>1. Blocks(j) = <<"fbs", "fbo", "returns">>
    BY <1>1 DEF Blocks
  <2> QED BY <2>1 DEF BlockNames
<1>2. CASE j \notin Ozon
  <2>1. Blocks(j) = <<"orders", "finance">>
    BY <1>2 DEF Blocks
  <2> QED BY <2>1 DEF BlockNames
<1> QED BY <1>1, <1>2

(* The end of a chunk is a day, past its beginning unless the period ends. *)
LEMMA ChunkEndFacts ==
    ASSUME NEW j \in Jobs, NEW from \in Nat
    PROVE  ChunkEnd(j, from) \in Nat
BY BackfillAssumption DEF ChunkEnd, ChunkStep

LEMMA IdleType == Idle \in RunType
BY DEF Idle, Fresh, RunType, Inside, BlockNames

LEMMA BatchType ==
    ASSUME TypeOK, NEW s \in Workers, NEW todo \in SUBSET Jobs, Batch(s, todo)
    PROVE  run' \in [Workers -> RunType]
<1>1. CASE run' = [run EXCEPT ![s] = Idle]
  BY <1>1, IdleType DEF TypeOK, RunType
<1>2. ASSUME NEW j \in todo, run' = [run EXCEPT ![s] = Fresh("mark", j, todo \ {j})]
      PROVE  run' \in [Workers -> RunType]
  <2>1. Fresh("mark", j, todo \ {j}) \in RunType
    BY DEF Fresh, RunType, Inside, BlockNames
  <2> QED BY <2>1, <1>2 DEF TypeOK, RunType
<1> QED BY <1>1, <1>2 DEF Batch

LEMMA JobEndsType ==
    ASSUME TypeOK, NEW s \in Workers, JobEnds(s) \/ BatchFails(s)
    PROVE  run' \in [Workers -> RunType]
<1>1. CASE BatchFails(s)
  BY <1>1, IdleType DEF BatchFails, TypeOK, RunType
<1>2. run[s].todo \in SUBSET Jobs
  BY DEF TypeOK
<1>3. CASE Batch(s, run[s].todo)
  BY <1>2, <1>3, BatchType
<1> QED BY <1>1, <1>3 DEF JobEnds

LEMMA CommitType ==
    ASSUME NEW r \in RunType, NEW w \in BOOLEAN, NEW to \in Nat
    PROVE  [r EXCEPT !.at = to, !.block = 1, !.got = {}, !.open = FALSE, !.warn = w]
                \in RunType
<1>1. 1 \in 1..4 /\ {} \in SUBSET BlockNames /\ FALSE \in BOOLEAN
  OBVIOUS
<1> QED BY <1>1 DEF RunType

LEMMA ScheduleType ==
    ASSUME TypeOK, NEW j \in Jobs, Schedule(j)
    PROVE  TypeOK'
BY DEF TypeOK, Schedule, Statuses

-----------------------------------------------------------------------------
(***************************************************************************)
(* A run that holds a job, and what it has done of it.                     *)
(***************************************************************************)
(* Every worker that has left the idle state holds a job, of which it has  *)
(* done nothing before it marks it.                                        *)
HoldsJob ==
    \A s \in Workers :
        /\ run[s].pc # "idle" => run[s].job \in Jobs
        /\ run[s].pc = "mark" => run[s].at = 0 /\ run[s].block = 1

(* A run without a warning has committed every chunk it has passed, and    *)
(* holds every block of the present chunk it has passed.                   *)
Passed(s) ==
    /\ (0..(run[s].at - 1)) \X BlocksOf(run[s].job) \subseteq loaded[run[s].job]
    /\ \A k \in 1..(run[s].block - 1) :
            k \in DOMAIN Blocks(run[s].job) => Blocks(run[s].job)[k] \in run[s].got
Progress ==
    \A s \in Workers : run[s].pc \in Inside /\ ~run[s].warn => Passed(s)

Inv == TypeOK /\ HoldsJob /\ Progress /\ DoneIsLoaded

LEMMA RunStepType ==
    ASSUME TypeOK, HoldsJob, NEW s \in Workers, Run(s) \/ Die(s)
    PROVE  TypeOK'
<1> DEFINE j == run[s].job
<1> USE DEF TypeOK
<1>1. run[s] \in RunType
  BY DEF RunType
<1>2. CASE ReadPending(s)
  BY <1>2, BatchType DEF ReadPending, Oldest, Pending, RunType
<1>3. CASE MarkRunning(s)
  BY <1>3, <1>1 DEF MarkRunning, Goto, HoldsJob, Statuses, RunType, Inside
<1>4. CASE MarkFails(s)
  BY <1>4, JobEndsType DEF MarkFails, RunType
<1>5. CASE SyncProducts(s)
  BY <1>5, <1>1 DEF SyncProducts, Goto, RunType, Inside
<1>6. CASE ProductsRefused(s)
  BY <1>6, <1>1 DEF ProductsRefused, RunType, Inside
<1>7. ASSUME run[s].pc # "idle", LosesRows(s)
      PROVE  TypeOK'
  BY <1>7, JobEndsType DEF LosesRows, RunType, HoldsJob
<1>8. CASE LoadBlock(s)
  <2>1. j \in Jobs /\ run[s].block \in 1..4 /\ run[s].block <= Len(Blocks(j))
    BY <1>8, <1>1 DEF LoadBlock, InBlock, InChunk, HoldsJob, RunType
  <2>2. Blocks(j)[run[s].block] \in BlockNames /\ run[s].block + 1 \in 1..4
    BY <2>1, BlockFacts
  <2>3. PICK begun \in BOOLEAN, w \in BOOLEAN :
            run' = [run EXCEPT ![s] = [run[s] EXCEPT !.block = run[s].block + 1,
                        !.got = run[s].got \cup {Blocks(j)[run[s].block]},
                        !.open = begun, !.warn = w]]
    BY <1>8, <1>1 DEF LoadBlock, RunType
  <2> QED BY <1>8, <1>1, <2>2, <2>3 DEF LoadBlock, RunType
<1>9. CASE BlockRefused(s)
  <2>1. j \in Jobs /\ run[s].block \in 1..4 /\ run[s].block <= Len(Blocks(j))
    BY <1>9, <1>1 DEF BlockRefused, InBlock, InChunk, HoldsJob, RunType
  <2>2. run[s].block + 1 \in 1..4
    BY <2>1, BlockFacts
  <2> QED BY <1>9, <1>1, <2>2 DEF BlockRefused, RunType
<1>10. CASE CommitChunk(s)
  <2>1. j \in Jobs /\ run[s].at \in Nat /\ run[s].got \subseteq BlockNames
    BY <1>10, <1>1 DEF CommitChunk, AllRead, InChunk, HoldsJob, RunType
  <2>2. ChunkEnd(j, run[s].at) \in Nat
    BY <2>1, ChunkEndFacts
  <2>3. (run[s].at..(ChunkEnd(j, run[s].at) - 1)) \X run[s].got \subseteq Nat \X BlockNames
    BY <2>1, <2>2
  <2>4. loaded' \in [Jobs -> SUBSET (Nat \X BlockNames)]
    BY <1>10, <2>1, <2>3 DEF CommitChunk
  <2>5. PICK w \in BOOLEAN :
            run' = [run EXCEPT ![s] = [run[s] EXCEPT !.at = ChunkEnd(j, run[s].at),
                        !.block = 1, !.got = {}, !.open = FALSE, !.warn = w]]
    BY <1>10 DEF CommitChunk
  <2>6. run' \in [Workers -> RunType]
    BY <1>1, <2>2, <2>5, CommitType DEF RunType
  <2> QED BY <1>10, <2>4, <2>6 DEF CommitChunk, RunType
<1>11. CASE KeyFails(s)
  BY <1>11, JobEndsType DEF KeyFails, InChunk, HoldsJob, RunType, Statuses, Ended
<1>12. CASE Finish(s)
  BY <1>12, JobEndsType DEF Finish, AllChunks, HoldsJob, RunType, Statuses, Ended, Done
<1>13. CASE RelinkFails(s)
  BY <1>13, <1>7, JobEndsType
  DEF RelinkFails, AllChunks, HoldsJob, RunType, Statuses, Ended, BatchFails
<1>14. CASE Die(s)
  BY <1>14, IdleType DEF Die, HoldsJob, RunType
<1>15. CASE ProductsLost(s) \/ BlockLost(s) \/ CommitFails(s)
  BY <1>15, <1>7 DEF ProductsLost, BlockLost, CommitFails, InBlock, AllRead, InChunk
<1> QED BY <1>2, <1>3, <1>4, <1>5, <1>6, <1>8, <1>9, <1>10, <1>11, <1>12, <1>13,
           <1>14, <1>15 DEF Run

LEMMA NextType == ASSUME TypeOK, HoldsJob, [Next]_vars PROVE TypeOK'
<1>1. CASE Next
  BY <1>1, ScheduleType, RunStepType DEF Next
<1>2. CASE UNCHANGED vars
  BY <1>2 DEF vars, TypeOK
<1> QED BY <1>1, <1>2

LEMMA BatchHolds ==
    ASSUME TypeOK, HoldsJob, NEW s \in Workers, JobEnds(s) \/ BatchFails(s) \/ ReadPending(s)
    PROVE  HoldsJob'
<1>1. CASE run' = [run EXCEPT ![s] = Idle]
  BY <1>1 DEF HoldsJob, TypeOK, Idle, Fresh
<1>2. ASSUME NEW todo \in SUBSET Jobs, Batch(s, todo)
      PROVE  HoldsJob'
  BY <1>1, <1>2 DEF Batch, HoldsJob, TypeOK, Fresh
<1>3. run[s].todo \in SUBSET Jobs /\ Oldest(Pending) \in SUBSET Jobs
  BY DEF TypeOK, Oldest, Pending
<1> QED BY <1>1, <1>2, <1>3 DEF JobEnds, BatchFails, ReadPending

(* A step inside a job keeps the job and leaves the first state.           *)
LEMMA SameJob ==
    ASSUME TypeOK, HoldsJob, NEW s \in Workers, run[s].pc # "idle",
           run'[s].job = run[s].job, run'[s].pc # "mark",
           \A v \in Workers \ {s} : run'[v] = run[v]
    PROVE  HoldsJob'
BY DEF TypeOK, HoldsJob

LEMMA NextHolds == ASSUME TypeOK, HoldsJob, [Next]_vars PROVE HoldsJob'
<1>1. ASSUME NEW j \in Jobs, Schedule(j)
      PROVE  HoldsJob'
  BY <1>1 DEF Schedule, HoldsJob
<1>2. ASSUME NEW s \in Workers, Run(s) \/ Die(s)
      PROVE  HoldsJob'
  <2> DEFINE Same == /\ run'[s].job = run[s].job /\ run'[s].pc # "mark"
                     /\ \A v \in Workers \ {s} : run'[v] = run[v]
  <2>a. run \in [Workers -> RunType]
    BY DEF TypeOK, RunType
  <2>1. CASE ReadPending(s) \/ JobEnds(s) \/ BatchFails(s)
    BY <2>1, BatchHolds
  <2>2. CASE MarkRunning(s)
    <3>1. Same
      BY <2>2, <2>a DEF MarkRunning, Goto, RunType
    <3> QED BY <2>2, <3>1, SameJob DEF MarkRunning, Goto
  <2>3. CASE SyncProducts(s)
    <3>1. Same
      BY <2>3, <2>a DEF SyncProducts, Goto, RunType
    <3> QED BY <2>3, <3>1, SameJob DEF SyncProducts, Goto
  <2>4. CASE ProductsRefused(s)
    <3>1. Same
      BY <2>4, <2>a DEF ProductsRefused, RunType
    <3> QED BY <2>4, <3>1, SameJob DEF ProductsRefused
  <2>5. CASE LoadBlock(s)
    <3>1. Same
      BY <2>5, <2>a DEF LoadBlock, InBlock, InChunk, RunType
    <3> QED BY <2>5, <3>1, SameJob DEF LoadBlock, InBlock, InChunk
  <2>6. CASE BlockRefused(s)
    <3>1. Same
      BY <2>6, <2>a DEF BlockRefused, InBlock, InChunk, RunType
    <3> QED BY <2>6, <3>1, SameJob DEF BlockRefused, InBlock, InChunk
  <2>7. CASE CommitChunk(s)
    <3>1. Same
      BY <2>7, <2>a DEF CommitChunk, AllRead, InChunk, RunType
    <3> QED BY <2>7, <3>1, SameJob DEF CommitChunk, AllRead, InChunk
  <2>8. CASE Die(s)
    BY <2>8, BatchHolds DEF Die, BatchFails
  <2>9. MarkFails(s) \/ ProductsLost(s) \/ BlockLost(s) \/ CommitFails(s) \/ KeyFails(s)
            \/ Finish(s) \/ RelinkFails(s) => JobEnds(s) \/ BatchFails(s)
    BY DEF MarkFails, ProductsLost, BlockLost, CommitFails, KeyFails, Finish,
           RelinkFails, LosesRows
  <2> QED BY <1>2, <2>1, <2>2, <2>3, <2>4, <2>5, <2>6, <2>7, <2>8, <2>9 DEF Run
<1>3. CASE UNCHANGED vars
  BY <1>3 DEF vars, HoldsJob
<1> QED BY <1>1, <1>2, <1>3 DEF Next

-----------------------------------------------------------------------------
(***************************************************************************)
(* What is committed stays committed, and a run without a warning has      *)
(* committed all it has passed.                                            *)
(***************************************************************************)
LEMMA LoadedGrows ==
    ASSUME TypeOK, HoldsJob, [Next]_vars, NEW j \in Jobs
    PROVE  loaded[j] \subseteq loaded'[j]
<1>1. CASE UNCHANGED loaded
  BY <1>1
<1>2. ASSUME NEW s \in Workers, CommitChunk(s)
      PROVE  loaded[j] \subseteq loaded'[j]
  BY <1>2 DEF CommitChunk, TypeOK
<1>3. ASSUME NEW s \in Workers, Run(s) \/ Die(s), ~CommitChunk(s)
      PROVE  UNCHANGED loaded
  BY <1>3 DEF Run, Die, ReadPending, MarkRunning, MarkFails, SyncProducts, ProductsRefused,
     ProductsLost, LosesRows, LoadBlock, BlockRefused, BlockLost, CommitFails, KeyFails,
     Finish, RelinkFails
<1>4. ASSUME NEW i \in Jobs, Schedule(i)
      PROVE  UNCHANGED loaded
  BY <1>4 DEF Schedule
<1> QED BY <1>1, <1>2, <1>3, <1>4 DEF Next, vars

(* A worker that does not move keeps what it has passed.                   *)
LEMMA PassedStays ==
    ASSUME TypeOK, HoldsJob, Progress, [Next]_vars, NEW v \in Workers, run'[v] = run[v],
           run[v].pc \in Inside, ~run[v].warn
    PROVE  Passed(v)'
<1>1. Passed(v) /\ run[v].job \in Jobs
  BY DEF Progress, HoldsJob, Inside
<1>2. loaded[run[v].job] \subseteq loaded'[run[v].job]
  BY <1>1, LoadedGrows
<1> QED BY <1>1, <1>2 DEF Passed

LEMMA CommitPasses ==
    ASSUME Inv, NEW s \in Workers, CommitChunk(s), ~run[s].warn
    PROVE  Passed(s)'
<1> DEFINE j == run[s].job
<1> DEFINE to == ChunkEnd(j, run[s].at)
<1>1. /\ run \in [Workers -> RunType] /\ run[s] \in RunType /\ j \in Jobs
      /\ run[s].at \in Nat /\ run[s].block \in 1..4 /\ run[s].block > Len(Blocks(j))
      /\ run[s].pc \in Inside
  BY DEF Inv, TypeOK, HoldsJob, CommitChunk, AllRead, InChunk, RunType, Inside
<1>2. to \in Nat
  BY <1>1, ChunkEndFacts
<1>3. run'[s].at = to /\ run'[s].job = j /\ run'[s].block = 1
  BY <1>1 DEF CommitChunk, RunType
<1>4. Passed(s)
  BY <1>1 DEF Inv, Progress
<1>5. \A k \in DOMAIN Blocks(j) : Blocks(j)[k] \in run[s].got
  <2>1. \A k \in DOMAIN Blocks(j) : k \in 1..(run[s].block - 1)
    BY <1>1, BlockFacts
  <2> QED BY <2>1, <1>4 DEF Passed
<1>6. BlocksOf(j) \subseteq run[s].got
  BY <1>5 DEF BlocksOf
<1>7. loaded'[j] = loaded[j] \cup ((run[s].at..(to - 1)) \X run[s].got)
  BY <1>1 DEF Inv, TypeOK, CommitChunk
<1>8. (0..(to - 1)) \X BlocksOf(j) \subseteq loaded'[j]
  <2>1. SUFFICES ASSUME NEW d \in 0..(to - 1), NEW b \in BlocksOf(j)
                 PROVE  <<d, b>> \in loaded'[j]
    BY ONLY <2>1
  <2>2. CASE d < run[s].at
    <3>1. d \in 0..(run[s].at - 1)
      BY <1>1, <1>2, <2>2
    <3> QED BY <3>1, <1>4, <1>7 DEF Passed
  <2>3. CASE ~(d < run[s].at)
    <3>1. d \in run[s].at..(to - 1)
      BY <1>1, <1>2, <2>3
    <3> QED BY <3>1, <1>6, <1>7
  <2> QED BY <2>2, <2>3
<1> QED BY <1>3, <1>8 DEF Passed

LEMMA LoadPasses ==
    ASSUME Inv, NEW s \in Workers, LoadBlock(s), ~run[s].warn
    PROVE  Passed(s)'
<1> DEFINE j == run[s].job
<1> DEFINE name == Blocks(j)[run[s].block]
<1>1. run \in [Workers -> RunType] /\ run[s] \in RunType /\ run[s].pc \in Inside
  BY DEF Inv, TypeOK, LoadBlock, InBlock, InChunk, RunType, Inside
<1>2. /\ run'[s].at = run[s].at /\ run'[s].job = j
      /\ run'[s].block = run[s].block + 1 /\ run'[s].got = run[s].got \cup {name}
  BY <1>1 DEF LoadBlock, RunType
<1>3. Passed(s) /\ loaded' = loaded /\ run[s].block \in 1..4
  BY <1>1 DEF Inv, Progress, LoadBlock, RunType
<1>4. \A k \in 1..((run[s].block + 1) - 1) :
          k \in DOMAIN Blocks(j) => Blocks(j)[k] \in run[s].got \cup {name}
  <2>1. \A k \in 1..((run[s].block + 1) - 1) : k = run[s].block \/ k \in 1..(run[s].block - 1)
    BY <1>3
  <2> QED BY <2>1, <1>3 DEF Passed
<1> QED BY <1>2, <1>3, <1>4 DEF Passed

LEMMA NextProgress == ASSUME Inv, [Next]_vars PROVE Progress'
<1> SUFFICES ASSUME NEW v \in Workers, run'[v].pc \in Inside, ~run'[v].warn
             PROVE  Passed(v)'
  BY DEF Progress
<1>a. run \in [Workers -> RunType] /\ run[v] \in RunType
  BY DEF Inv, TypeOK, RunType
<1>1. CASE run'[v] = run[v]
  BY <1>1, PassedStays DEF Inv
<1>2. ASSUME NEW s \in Workers, Run(s) \/ Die(s), v # s
      PROVE  run'[v] = run[v]
  BY <1>2, <1>a DEF Run, Die, ReadPending, MarkRunning, MarkFails, SyncProducts,
     ProductsRefused, ProductsLost, LosesRows, LoadBlock, BlockRefused, BlockLost, CommitChunk,
     CommitFails, KeyFails, Finish, RelinkFails, Goto, Batch, BatchFails, JobEnds
<1>3. CASE Run(v) \/ Die(v)
  <2>1. CASE JobEnds(v) \/ BatchFails(v) \/ ReadPending(v) \/ Die(v)
    <3>1. run'[v].pc \in {"idle", "mark"}
      BY <2>1, <1>a DEF JobEnds, BatchFails, ReadPending, Die, Batch, Idle, Fresh
    <3> QED BY <3>1 DEF Inside
  <2>2. CASE MarkRunning(v)
    <3>1. /\ run'[v] = [run[v] EXCEPT !.pc = "products"] /\ loaded' = loaded
          /\ run[v].at = 0 /\ run[v].block = 1
      BY <2>2, <1>a DEF MarkRunning, Goto, Inv, HoldsJob
    <3> QED BY <3>1, <1>a DEF Passed, RunType
  <2>3. CASE SyncProducts(v)
    <3>1. /\ run'[v] = [run[v] EXCEPT !.pc = "chunk"] /\ loaded' = loaded
          /\ run[v].pc \in Inside
      BY <2>3, <1>a DEF SyncProducts, Goto, Inside
    <3>2. run'[v].at = run[v].at /\ run'[v].job = run[v].job /\ run'[v].warn = run[v].warn
             /\ run'[v].block = run[v].block /\ run'[v].got = run[v].got
      BY <3>1, <1>a DEF RunType
    <3>3. Passed(v)
      BY <3>1, <3>2 DEF Inv, Progress
    <3> QED BY <3>1, <3>2, <3>3 DEF Passed
  <2>4. CASE ProductsRefused(v) \/ BlockRefused(v)
    <3>1. run'[v].warn
      BY <2>4, <1>a DEF ProductsRefused, BlockRefused, RunType
    <3> QED BY <3>1
  <2>5. CASE LoadBlock(v)
    <3>1. ~run[v].warn
      BY <2>5, <1>a DEF LoadBlock, RunType
    <3> QED BY <2>5, <3>1, LoadPasses
  <2>6. CASE CommitChunk(v)
    <3>1. ~run[v].warn
      BY <2>6, <1>a DEF CommitChunk, RunType
    <3> QED BY <2>6, <3>1, CommitPasses
  <2>7. MarkFails(v) \/ ProductsLost(v) \/ BlockLost(v) \/ CommitFails(v) \/ KeyFails(v)
            \/ Finish(v) \/ RelinkFails(v) => JobEnds(v) \/ BatchFails(v)
    BY DEF MarkFails, ProductsLost, BlockLost, CommitFails, KeyFails, Finish,
           RelinkFails, LosesRows
  <2> QED BY <1>3, <2>1, <2>2, <2>3, <2>4, <2>5, <2>6, <2>7 DEF Run
<1>4. ASSUME NEW i \in Jobs, Schedule(i)
      PROVE  run'[v] = run[v]
  BY <1>4 DEF Schedule
<1> QED BY <1>1, <1>2, <1>3, <1>4 DEF Next, vars

LEMMA NextDone == ASSUME Inv, [Next]_vars PROVE DoneIsLoaded'
<1> SUFFICES ASSUME NEW j \in Jobs, status'[j] = "COMPLETED"
             PROVE  Days(j) \X BlocksOf(j) \subseteq loaded'[j]
  BY DEF DoneIsLoaded
<1>1. loaded[j] \subseteq loaded'[j]
  BY LoadedGrows DEF Inv
<1>2. CASE status[j] = "COMPLETED"
  BY <1>1, <1>2 DEF Inv, DoneIsLoaded
<1>3. ASSUME NEW s \in Workers, Finish(s), run[s].job = j, ~run[s].warn
      PROVE  Days(j) \X BlocksOf(j) \subseteq loaded[j]
  <2>1. /\ run[s].at \in Nat /\ run[s].at >= Span[j] /\ Passed(s)
    BY <1>3 DEF Inv, TypeOK, Finish, AllChunks, Progress, Inside
  <2>2. Days(j) \subseteq 0..(run[s].at - 1)
    BY <2>1, BackfillAssumption DEF Days
  <2> QED BY <2>1, <2>2, <1>3 DEF Passed
<1>4. ASSUME NEW s \in Workers, Run(s) \/ Die(s), status[j] # "COMPLETED"
      PROVE  Finish(s) /\ run[s].job = j /\ ~run[s].warn
  <2>1. status \in [Jobs -> Statuses]
    BY DEF Inv, TypeOK
  <2>2. CASE Finish(s)
    BY <2>1, <2>2, <1>4 DEF Finish
  <2>3. ~(UNCHANGED status)
    BY <1>4
  <2>4. MarkRunning(s) \/ KeyFails(s) \/ RelinkFails(s) => status'[j] # "COMPLETED"
    BY <2>1, <2>3, <1>4 DEF MarkRunning, KeyFails, RelinkFails, LosesRows
  <2>5. Finish(s) \/ MarkRunning(s) \/ KeyFails(s) \/ RelinkFails(s) \/ UNCHANGED status
    BY <1>4 DEF Run, Die, ReadPending, MarkFails, SyncProducts, ProductsRefused,
       ProductsLost, LosesRows, LoadBlock, BlockRefused, BlockLost, CommitChunk, CommitFails
  <2> QED BY <2>2, <2>3, <2>4, <2>5
<1>5. ASSUME NEW i \in Jobs, Schedule(i), status[j] # "COMPLETED"
      PROVE  FALSE
  BY <1>5 DEF Schedule, Inv, TypeOK
<1> QED BY <1>1, <1>2, <1>3, <1>4, <1>5 DEF Next, vars

-----------------------------------------------------------------------------
LEMMA InitInv == Init => Inv
<1> SUFFICES ASSUME Init PROVE Inv
  OBVIOUS
<1>1. TypeOK
  BY IdleType DEF Init, TypeOK, RunType, Statuses
<1>2. HoldsJob /\ Progress
  BY DEF Init, HoldsJob, Progress, Idle, Fresh, Inside
<1>3. DoneIsLoaded
  BY DEF Init, DoneIsLoaded
<1> QED BY <1>1, <1>2, <1>3 DEF Inv

LEMMA Invariance == Spec => []Inv
<1>1. Inv /\ [Next]_vars => Inv'
  BY NextType, NextHolds, NextProgress, NextDone DEF Inv
<1> QED BY InitInv, <1>1, PTL DEF Spec

(* Jobs and workers always have values the code gives them, for any number *)
(* of each (SyncJob, run_job).                                             *)
THEOREM TypeCorrect == Spec => []TypeOK
<1>1. Inv => TypeOK
  BY DEF Inv
<1> QED BY Invariance, <1>1, PTL

(* A job that says it is completed, without warnings, has every block of   *)
(* its period committed, whatever runs of it overlap or are cut off.       *)
THEOREM CompletedIsLoaded == Spec => []DoneIsLoaded
<1>1. Inv => DoneIsLoaded
  BY DEF Inv
<1> QED BY Invariance, <1>1, PTL
=============================================================================
