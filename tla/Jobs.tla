-------------------------------- MODULE Jobs --------------------------------
(***************************************************************************)
(* The local job queue (src/app/local_jobs.py), what fills it               *)
(* (src/app/scheduler.py, src/app/api/market.py, src/app/api/v1.py) and the *)
(* ingestion jobs it runs (src/app/data_jobs.py), within one trading date.  *)
(*                                                                          *)
(* Every row is read before it is written, without a lock, so enqueuers and *)
(* runners interleave between the two; a session writes a column only if    *)
(* the value it read is another one.  A runner may be killed between any    *)
(* two of these steps; its rows stay as they are.                           *)
(* The batch of an ingestion run is saved in a transaction of its own,      *)
(* before the run is marked.                                                *)
(***************************************************************************)
EXTENDS Integers, FiniteSets, SequencesExt

CONSTANTS
    Askers,         \* schedulers and API requests that enqueue
    Runners,        \* processes of the job runner
    Enqueued,       \* task types that are enqueued
    Items,          \* rows a provider can deliver
    Key,            \* the other unique column of each item (source_url_hash)
    BatchesOf,      \* what a fetch of each ingestion type may return
    MaxJobs, MaxKills      \* bounds

Recommendations == {"PRE_MARKET_RECOMMENDATION", "POST_MARKET_RECOMMENDATION"}
IngestionTypes == {"MARKET_SPOT_SYNC", "DAILY_BAR_SYNC", "STOCK_NEWS_SYNC",
                   "INDUSTRY_SYNC", "FINANCIAL_SYNC", "INSTRUMENT_SYNC"}
\* Types with a runner of their own; the other ingestion types fall through to
\* the branch that does nothing.
Synced == {"MARKET_SPOT_SYNC", "STOCK_NEWS_SYNC", "INDUSTRY_SYNC"}
ALLOWED_TASKS == {"WATCHLIST_SCAN", "DATA_MAINTENANCE", "SQLITE_BACKUP"}
                   \cup IngestionTypes \cup Recommendations

ASSUME JobsAssumption ==
    /\ Enqueued \subseteq ALLOWED_TASKS
    /\ Key \in [Items -> Items]
    /\ \A t \in IngestionTypes : \A b \in BatchesOf[t] : b \in Seq(Items)
    /\ MaxJobs \in Nat /\ MaxKills \in Nat

VARIABLES
    jobs,       \* scheduled_task_runs, in the order they were enqueued
    runs,       \* data_ingestion_runs
    stored,     \* the ingestion run that stored each item, 0 if none did
    health,     \* provider_health_status of the provider
    asking,     \* the type each enqueuer found free, before it inserts
    runner,     \* what each runner is doing
    kills       \* runners killed so far

jobsVars == <<jobs, runs, stored, health, asking, runner, kills>>

----------------------------------------------------------------------------
Open == {"QUEUED", "RUNNING"}
Closing == {"SUCCEEDED", "FAILED"}
\* killed: a runner that had begun it was; readers: the runners that had read
\* the row but not yet written it when it was last finished (history).
JobRow == [type : ALLOWED_TASKS, status : Open \cup Closing, killed : BOOLEAN,
           readers : SUBSET Runners]
NewJob(t) == [type |-> t, status |-> "QUEUED", killed |-> FALSE, readers |-> {}]
\* raced: another run of the type was checked for or begun between the check
\* and the insert (history).
RunRow == [type : IngestionTypes, status : {"RUNNING"} \cup Closing,
           ok : Nat, dup : Nat, raced : BOOLEAN]
\* step: what the runner does next; todo: what is left of its job; was: the
\* status it last read; end: the status to write; run, seen: its ingestion run,
\* and the runs there were when it looked.
Steps == {"idle", "picked", "selected", "working", "checked", "fetching", "saved",
          "closing"}
Runner == [step : Steps, job : Nat, todo : Seq(Synced \cup {"SCAN", "BACKUP"}),
           was : Open \cup Closing, end : Closing, run : Nat, seen : Nat]
IdleRunner == [step |-> "idle", job |-> 0, todo |-> <<>>, was |-> "QUEUED",
               end |-> "SUCCEEDED", run |-> 0, seen |-> 0]

JobsInit ==
    /\ jobs = <<>> /\ runs = <<>>
    /\ stored = [i \in Items |-> 0]
    /\ health = "NONE"
    /\ asking = [a \in Askers |-> "NONE"]
    /\ runner = [r \in Runners |-> IdleRunner]
    /\ kills = 0

----------------------------------------------------------------------------
(* Enqueuing: admin_run_data_job, create_scan_job, enqueue_recommendation_job. *)

RowsOf(t) == {j \in DOMAIN jobs : jobs[j].type = t}
\* A recommendation is there once per date, the others while one is open.
FoundFree(t) ==
    IF t \in Recommendations THEN RowsOf(t) = {}
    ELSE \A j \in RowsOf(t) : jobs[j].status \notin Open

Ask(a, t) ==
    /\ asking[a] = "NONE" /\ Len(jobs) < MaxJobs
    /\ FoundFree(t)
    /\ asking' = [asking EXCEPT ![a] = t]
    /\ UNCHANGED <<jobs, runs, stored, health, runner, kills>>

\* The task key of a recommendation is its type and date, and unique; the key
\* of any other row is the instant.
KeyFree(t) == t \in Recommendations => RowsOf(t) = {}

Enqueue(a) ==
    LET t == asking[a] IN
    /\ t # "NONE"
    /\ jobs' = IF KeyFree(t)
               THEN Append(jobs, NewJob(t))
               ELSE jobs
    /\ asking' = [asking EXCEPT ![a] = "NONE"]
    /\ UNCHANGED <<runs, stored, health, runner, kills>>

----------------------------------------------------------------------------
(* The runner. *)

\* The work of a job, in order.
TodoOf(t) ==
    CASE t \in Synced -> <<t>>
      [] t \in Recommendations -> <<"MARKET_SPOT_SYNC", "INDUSTRY_SYNC", "SCAN">>
      [] t = "WATCHLIST_SCAN" -> <<"SCAN">>
      [] t = "SQLITE_BACKUP" -> <<"BACKUP">>
      [] OTHER -> <<>>

Queued == {j \in DOMAIN jobs : jobs[j].status = "QUEUED"}

\* run_pending_once: the oldest queued row
Pick(r) ==
    /\ runner[r].step = "idle"
    /\ \E j \in Queued :
        /\ \A k \in Queued : j <= k
        /\ runner' = [runner EXCEPT ![r] = [IdleRunner EXCEPT !.step = "picked",
                                                              !.job = j]]
    /\ UNCHANGED <<jobs, runs, stored, health, asking, kills>>

\* A row that was finished in the meantime is left alone (mutant: it is run).
RunAgain(j) == TRUE
MayRun(j) == jobs[j].status \in Open

\* run_one: the SELECT
RunOne(r) ==
    LET j == runner[r].job IN
    /\ runner[r].step = "picked"
    /\ runner' = [runner EXCEPT ![r] = IF MayRun(j)
         THEN [@ EXCEPT !.step = "selected", !.was = jobs[j].status]
         ELSE IdleRunner]
    /\ UNCHANGED <<jobs, runs, stored, health, asking, kills>>

\* run_one: the first commit.  The row is written by its primary key.
MarkRunning(r) ==
    LET j == runner[r].job IN
    /\ runner[r].step = "selected"
    /\ jobs' = IF runner[r].was = "RUNNING" THEN jobs
               ELSE [jobs EXCEPT ![j] = [@ EXCEPT !.status = "RUNNING", !.readers = {}]]
    /\ runner' = [runner EXCEPT ![r] = [IdleRunner EXCEPT !.step = "working", !.job = j,
                                                          !.todo = TodoOf(jobs[j].type)]]
    /\ UNCHANGED <<runs, stored, health, asking, kills>>

\* run_one: at its end the row is read again, and then written.
ReadBack(r, status) ==
    /\ runner' = [runner EXCEPT ![r] = [@ EXCEPT !.step = "closing", !.todo = <<>>,
                     !.was = jobs[runner[r].job].status, !.end = status]]
    /\ UNCHANGED jobs

ReadersOf(j) == {r \in Runners : runner[r].step = "selected" /\ runner[r].job = j}

Close(r) ==
    LET j == runner[r].job IN
    /\ runner[r].step = "closing"
    /\ jobs' = IF runner[r].was = runner[r].end THEN jobs
               ELSE [jobs EXCEPT ![j] = [@ EXCEPT !.status = runner[r].end,
                                                  !.readers = ReadersOf(j)]]
    /\ runner' = [runner EXCEPT ![r] = IdleRunner]
    /\ UNCHANGED <<runs, stored, health, asking, kills>>

Finish(r) ==
    /\ runner[r].step = "working" /\ runner[r].todo = <<>>
    /\ ReadBack(r, "SUCCEEDED")
    /\ UNCHANGED <<runs, stored, health, asking, kills>>

\* scan_watchlist and backup_sqlite_database return, or raise.
OtherWork(r, fails) ==
    /\ runner[r].step = "working" /\ runner[r].todo # <<>>
    /\ Head(runner[r].todo) \in {"SCAN", "BACKUP"}
    /\ IF fails THEN ReadBack(r, "FAILED")
       ELSE runner' = [runner EXCEPT ![r].todo = Tail(@)] /\ UNCHANGED jobs
    /\ UNCHANGED <<runs, stored, health, asking, kills>>

----------------------------------------------------------------------------
(* data_jobs._run; what it returns is not looked at. *)

NextTodo(r) == runner' = [runner EXCEPT ![r] = [@ EXCEPT !.step = "working",
                                        !.todo = Tail(runner[r].todo),
                                        !.run = 0, !.seen = 0]]
RunningOf(t) == {k \in DOMAIN runs : runs[k].type = t /\ runs[k].status = "RUNNING"}

\* A RUNNING row of the type, if only one a killed runner left, ends the run
\* (mutant: nobody looks).
NeverActive(t) == TRUE
NoneActive(t) == RunningOf(t) = {}

CheckActive(r) ==
    LET t == Head(runner[r].todo) IN
    /\ runner[r].step = "working" /\ runner[r].todo # <<>>
    /\ t \in Synced
    /\ IF NoneActive(t)
       THEN runner' = [runner EXCEPT ![r].step = "checked",
                                     ![r].seen = Len(runs)]
       ELSE NextTodo(r)
    /\ UNCHANGED <<jobs, runs, stored, health, asking, kills>>

BeginRun(r) ==
    LET t == Head(runner[r].todo) IN
    /\ runner[r].step = "checked"
    /\ runs' = Append(runs, [type |-> t, status |-> "RUNNING", ok |-> 0, dup |-> 0,
         raced |-> \E k \in DOMAIN runs : k > runner[r].seen /\ runs[k].type = t])
    /\ runner' = [runner EXCEPT ![r].step = "fetching", ![r].run = Len(runs) + 1]
    /\ UNCHANGED <<jobs, stored, health, asking, kills>>

\* _save_spot, _save_news, _save_industries: an item whose key is taken by
\* another one rolls back what the batch has stored before it, and the counters
\* are read again (mutant: they are kept).
RollbackRows(saved, base) == [st |-> base, ok |-> saved.ok, dup |-> saved.dup + 1]
Rollback(saved, base) == [st |-> base, ok |-> 0, dup |-> 1]

SaveItem(saved, i, k, base) ==
    IF saved.st[i] # 0 THEN [saved EXCEPT !.dup = @ + 1]
    ELSE IF \E o \in Items : saved.st[o] # 0 /\ Key[o] = Key[i]
    THEN Rollback(saved, base)
    ELSE [saved EXCEPT !.st[i] = k, !.ok = @ + 1]

save_batch(batch, k) ==
    FoldLeft(LAMBDA saved, i : SaveItem(saved, i, k, stored),
             [st |-> stored, ok |-> 0, dup |-> 0], batch)

SaveBatch(r) ==
    LET k == runner[r].run IN
    /\ runner[r].step = "fetching"
    /\ \E batch \in BatchesOf[runs[k].type] :
        LET saved == save_batch(batch, k) IN
        /\ stored' = saved.st
        /\ runs' = [runs EXCEPT ![k].ok = saved.ok, ![k].dup = saved.dup]
    /\ runner' = [runner EXCEPT ![r].step = "saved"]
    /\ UNCHANGED <<jobs, health, asking, kills>>

EndRun(r) ==
    /\ runner[r].step = "saved"
    /\ runs' = [runs EXCEPT ![runner[r].run].status = "SUCCEEDED"]
    /\ health' = "HEALTHY"
    /\ NextTodo(r)
    /\ UNCHANGED <<jobs, stored, asking, kills>>

\* The fetch, a check of its rows or the save raises: the job does not learn of it.
AfterFailure(r) == NextTodo(r) /\ UNCHANGED jobs

FailRun(r) ==
    /\ runner[r].step = "fetching"
    /\ runs' = [runs EXCEPT ![runner[r].run].status = "FAILED"]
    /\ health' = "UNAVAILABLE"
    /\ AfterFailure(r)
    /\ UNCHANGED <<stored, asking, kills>>

----------------------------------------------------------------------------
\* The runner's process is killed.
Kill(r) ==
    /\ kills < MaxKills
    /\ runner[r].step # "idle"
    /\ kills' = kills + 1
    /\ runner' = [runner EXCEPT ![r] = IdleRunner]
    /\ jobs' = IF runner[r].step \in {"picked", "selected"} THEN jobs
               ELSE [jobs EXCEPT ![runner[r].job].killed = TRUE]
    /\ UNCHANGED <<runs, stored, health, asking>>

RunnerStep(r) ==
    \/ Pick(r) \/ RunOne(r) \/ MarkRunning(r) \/ Finish(r) \/ Close(r)
    \/ \E fails \in BOOLEAN : OtherWork(r, fails)
    \/ CheckActive(r) \/ BeginRun(r) \/ SaveBatch(r) \/ EndRun(r) \/ FailRun(r)

\* Nothing may be left to do.
Quiet == UNCHANGED jobsVars

JobsStep ==
    \/ \E a \in Askers : Enqueue(a) \/ \E t \in Enqueued : Ask(a, t)
    \/ \E r \in Runners : RunnerStep(r) \/ Kill(r)

JobsNext == JobsStep \/ Quiet
\* The runner is started again every ten seconds and runs to its end.
JobsSpec == /\ JobsInit /\ [][JobsNext]_jobsVars
            /\ \A r \in Runners : WF_jobsVars(RunnerStep(r))

----------------------------------------------------------------------------
(* Properties.                                                              *)

\* Every variable has its type, an item was stored by a run of the table, and
\* the health of the provider is that of some run.
JobsTypeOK ==
    /\ jobs \in Seq(JobRow) /\ runs \in Seq(RunRow)
    /\ stored \in [Items -> 0..Len(runs)]
    /\ health \in {"NONE", "HEALTHY", "UNAVAILABLE"}
    /\ asking \in [Askers -> Enqueued \cup {"NONE"}]
    /\ runner \in [Runners -> Runner]
    /\ kills \in 0..MaxKills
    /\ \A r \in Runners : runner[r].run # 0 => runs[runner[r].run].status = "RUNNING"
    /\ health = "HEALTHY" => \E k \in DOMAIN runs : runs[k].status = "SUCCEEDED"
    /\ health = "UNAVAILABLE" => \E k \in DOMAIN runs : runs[k].status = "FAILED"

\* The success count of an ingestion run is the number of rows it stored, also
\* when an item of its batch rolled back the ones before it.
CountsMatchRows ==
    \A k \in DOMAIN runs :
        runs[k].ok = Cardinality({i \in Items : stored[i] = k})

\* While a run of a type is RUNNING, and for ever if its runner was killed, no
\* other run of the type begins, unless two runners looked before either wrote.
RunsOverlapOnlyByRace ==
    \A k, m \in DOMAIN runs :
        k < m /\ runs[k].type = runs[m].type /\ runs[k].status = "RUNNING"
            => runs[m].raced

\* A failed ingestion shows in its run and nowhere else: a job that only syncs
\* is never FAILED.
SyncFailureOnlyInRuns ==
    \A j \in DOMAIN jobs : jobs[j].status = "FAILED" =>
        jobs[j].type \notin IngestionTypes

\* Several schedulers enqueue a recommendation once per date.
RecommendationOncePerDay ==
    \A t \in Recommendations : Cardinality(RowsOf(t)) <= 1

\* A finished job is set RUNNING again, and run once more, only by a runner that
\* had read its row before it was finished and not yet written it.
ReopenedOnlyByReaders ==
    [][\A j \in DOMAIN jobs :
         (jobs[j].status \in Closing /\ jobs'[j].status \notin Closing) =>
           \E r \in jobs[j].readers :
             runner[r].step = "selected" /\ runner[r].job = j]_jobsVars

\* Every job that is queued is finished in the end and stays so, whatever fails
\* on the way and however often it is run, unless a runner that had begun it
\* was killed.
JobEnds ==
    \A j \in 1..MaxJobs + Cardinality(Askers) :
        (j \in DOMAIN jobs /\ jobs[j].status = "QUEUED")
            ~> [](j \in DOMAIN jobs /\ (jobs[j].status \in Closing \/ jobs[j].killed))

\* The rows of jobs and runs tell what happened: counts are the rows stored,
\* health follows the runs, and a failed ingestion shows in its run alone.
RowsTellTruth == JobsTypeOK /\ CountsMatchRows /\ SyncFailureOnlyInRuns

\* One of a kind: no second run of a type beside a RUNNING one, and no second
\* recommendation of a date, except by the race the code leaves open.
OneOfAKind == RunsOverlapOnlyByRace /\ RecommendationOncePerDay

\* A queued job is finished for good, whatever fails on the way, and reopened
\* only by the race of two runners that the code leaves open.
JobsFinish == ReopenedOnlyByReaders /\ JobEnds
=============================================================================
