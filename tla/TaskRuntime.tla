---------------------------- MODULE TaskRuntime ----------------------------
(***************************************************************************)
(* One scheduled task of one day, run by several instances of the paper    *)
(* runtime (ScheduledTaskStore.run, src/app/paper_runtime.py) on           *)
(* PostgreSQL (READ COMMITTED).  A call is one transaction: what it writes *)
(* to the task row and to the lease row is seen by others when it commits, *)
(* after the task function has returned.  Until then both rows are locked. *)
(*                                                                         *)
(* The task function itself commits through sessions of its own, so what   *)
(* it did stays done when the transaction around it is lost.               *)
(***************************************************************************)
EXTENDS Integers

CONSTANTS
    Instances,      \* running PaperRuntime instances
    MaxAttempts,    \* attempts after which a failure is final
    MaxFailures,    \* bound on the number of failed runs
    NoOne           \* not an instance

ASSUME AttemptsAssumption ==
    /\ MaxAttempts \in Nat \ {0}
    /\ MaxFailures \in Nat
    /\ NoOne \notin Instances

VARIABLES
    task,       \* the committed task row
    lease,      \* the committed lease row
    holder,     \* whose open transaction has written both rows
    step,       \* where each instance is in its call
    seen,       \* the task row each call read when it began
    sweeping,   \* a recovery run has read the task as RUNNING
    failures,   \* failed runs that were committed
    successes,  \* successful runs that were committed (2: more than one)
    overlapped  \* calls or recovery runs have ever been under way together

vars == <<task, lease, holder, step, seen, sweeping, failures, successes,
          overlapped>>
history == <<failures, successes>>

----------------------------------------------------------------------------
TaskStatus == {"RUNNING", "SUCCEEDED", "FAILED_RETRYABLE", "FAILED_FINAL",
               "SKIPPED", "RECOVERED"}
Task == [status : TaskStatus, attempt : Nat \ {0}]
NoTask == [status |-> "NONE", attempt |-> 0]

CallSteps == {"idle", "begun", "inserting", "acquired", "running", "refused"}

Lease == [owner : Instances, status : {"ACTIVE", "RELEASED"}]
NoLease == [owner |-> NoOne, status |-> "NONE"]

Active(i) == step[i] # "idle"

Init ==
    /\ task = NoTask
    /\ lease = NoLease
    /\ holder = NoOne
    /\ step = [i \in Instances |-> "idle"]
    /\ seen = [i \in Instances |-> NoTask]
    /\ sweeping = FALSE
    /\ failures = 0 /\ successes = 0
    /\ overlapped = FALSE

----------------------------------------------------------------------------
Go(i, to) == step' = [step EXCEPT ![i] = to]

\* The call returns, or raises, and its session is closed.
Leave(i) == Go(i, "idle") /\ seen' = [seen EXCEPT ![i] = NoTask]

\* A finished task is not run again.
Finished(row) == row.status \in {"SUCCEEDED", "SKIPPED"}

\* The call looks its row up; for a finished one it returns right away.
Return(i) ==
    /\ ~Active(i)
    /\ Finished(task)
    /\ UNCHANGED vars

Begin(i) ==
    /\ ~Active(i)
    /\ ~Finished(task)
    /\ seen' = [seen EXCEPT ![i] = task]
    /\ Go(i, "begun")
    /\ overlapped' = (overlapped \/ sweeping \/ \E j \in Instances : Active(j))
    /\ UNCHANGED <<task, lease, holder, sweeping, history>>

\* _upsert_task adds a row when the call found none: if there is one by now,
\* the unique task key makes it raise.
Upsertable(i) == seen[i] # NoTask \/ task = NoTask
Upsert(i, status) == IF seen[i] = NoTask THEN [status |-> status, attempt |-> 1]
                                         ELSE [task EXCEPT !.status = status]

\* Not a trading day, or the calendar cannot tell.
Skip(i) ==
    /\ step[i] = "begun"
    /\ holder = NoOne
    /\ Upsertable(i)
    /\ task' = Upsert(i, "SKIPPED")
    /\ Leave(i)
    /\ UNCHANGED <<lease, holder, sweeping, history, overlapped>>

\* acquire reads the lease row FOR UPDATE SKIP LOCKED, so it does not see one
\* another transaction has written (mutant: without FOR UPDATE it would).
UnlockedReadable == lease # NoLease
Readable == lease # NoLease /\ holder = NoOne

\* The lease of another instance; whether it has expired is left open.
Owned(i) == lease.status = "ACTIVE" /\ lease.owner # i

ReadLease(i) ==
    /\ step[i] = "begun"
    /\ Readable
    /\ \E expired \in BOOLEAN :
         IF Owned(i) /\ ~expired THEN Go(i, "refused") /\ UNCHANGED holder
                                 ELSE Go(i, "acquired") /\ holder' = i
    /\ UNCHANGED <<task, lease, seen, sweeping, history, overlapped>>

MissLease(i) ==
    /\ step[i] = "begun"
    /\ ~Readable
    /\ Go(i, "inserting")
    /\ UNCHANGED <<task, lease, holder, seen, sweeping, history, overlapped>>

\* The insert waits for the transaction that has written the row.  The unique
\* lease key then refuses it, unless that transaction was lost with its row
\* (mutant: the insert is tried again).
InsertAgain == "inserting"
OnConflict == "refused"

InsertLease(i) ==
    /\ step[i] = "inserting"
    /\ holder = NoOne
    /\ IF lease = NoLease THEN Go(i, "acquired") /\ holder' = i
                          ELSE Go(i, OnConflict) /\ UNCHANGED holder
    /\ UNCHANGED <<task, lease, seen, sweeping, history, overlapped>>

\* LEASE_HELD: the row becomes RUNNING, whatever the other run made of it.
MarkHeld(i) ==
    /\ step[i] = "refused"
    /\ holder = NoOne
    /\ Upsertable(i)
    /\ task' = Upsert(i, "RUNNING")
    /\ Leave(i)
    /\ UNCHANGED <<lease, holder, sweeping, history, overlapped>>

Start(i) ==
    /\ step[i] = "acquired"
    /\ Upsertable(i)
    /\ Go(i, "running")
    /\ UNCHANGED <<task, lease, holder, seen, sweeping, history, overlapped>>

\* The commit at the end of run_task; the lease is released in it.
LeaseAfter(i, status) == [owner |-> i, status |-> "RELEASED"]

Commit(i, row) ==
    /\ step[i] = "running"
    /\ task' = row
    /\ lease' = LeaseAfter(i, row.status)
    /\ holder' = NoOne
    /\ Leave(i)
    /\ UNCHANGED <<sweeping, overlapped>>

Succeed(i) ==
    /\ Commit(i, Upsert(i, "SUCCEEDED"))
    /\ successes' = IF successes = 0 THEN 1 ELSE 2
    /\ UNCHANGED failures

\* The attempt is counted from the row the call read when it began (mutant:
\* the first failure counts twice, as the row starts with attempt 1).
CountedTwice(row) == IF row = NoTask THEN 3 ELSE row.attempt + 1
NextAttempt(row) == IF row = NoTask THEN 2 ELSE row.attempt + 1

Fail(i) ==
    /\ failures < MaxFailures
    /\ LET attempt == NextAttempt(seen[i])
       IN Commit(i, [attempt |-> attempt, status |->
            IF attempt >= MaxAttempts THEN "FAILED_FINAL" ELSE "FAILED_RETRYABLE"])
    /\ failures' = failures + 1
    /\ UNCHANGED successes

\* The process dies, or an exception leaves run_task: nothing is committed.
\* A row that appeared since the call began is one reason (Upsertable).
Abort(i) ==
    /\ Active(i)
    /\ holder' = IF holder = i THEN NoOne ELSE holder
    /\ Leave(i)
    /\ UNCHANGED <<task, lease, sweeping, history, overlapped>>

\* RecoveryService._recover_running_tasks, when an instance starts: the update
\* waits for the transaction that has the row, and then still applies.
FindRunning ==
    /\ ~sweeping
    /\ task.status = "RUNNING"
    /\ sweeping' = TRUE
    /\ overlapped' = (overlapped \/ \E i \in Instances : Active(i))
    /\ UNCHANGED <<task, lease, holder, step, seen, history>>

MarkRecovered ==
    /\ sweeping
    /\ holder = NoOne
    /\ task' = [task EXCEPT !.status = "RECOVERED"]
    /\ sweeping' = FALSE
    /\ UNCHANGED <<lease, holder, step, seen, history, overlapped>>

----------------------------------------------------------------------------
End(i) == Succeed(i) \/ Fail(i) \/ Abort(i)

Call(i) == \/ Return(i) \/ Begin(i) \/ Skip(i) \/ ReadLease(i) \/ MissLease(i)
           \/ InsertLease(i) \/ MarkHeld(i) \/ Start(i) \/ End(i)

Next == (\E i \in Instances : Call(i)) \/ FindRunning \/ MarkRecovered

Spec == Init /\ [][Next]_vars

\* A call keeps going, and a task function returns or its process dies.  A
\* call that waits for a row is woken by the end of the transaction it waits
\* for, again and again if another one is faster, but not for ever.
Proceed(i) == Skip(i) \/ ReadLease(i) \/ MissLease(i) \/ Start(i) \/ End(i)

FairSpec ==
    /\ Spec
    /\ \A i \in Instances : /\ WF_vars(step[i] \in {"begun", "acquired", "running"} /\ Proceed(i))
                            /\ SF_vars(InsertLease(i))
                            /\ SF_vars(MarkHeld(i))
                            /\ WF_vars(step[i] = "refused" /\ ~Upsertable(i) /\ Abort(i))

----------------------------------------------------------------------------
(* Properties.                                                             *)

\* The rows hold values of their columns, and every instance is in a step of
\* its call.
TypeOK ==
    /\ task \in Task \cup {NoTask}
    /\ lease \in Lease \cup {NoLease}
    /\ holder \in Instances \cup {NoOne}
    /\ step \in [Instances -> CallSteps]
    /\ seen \in [Instances -> Task \cup {NoTask}]
    /\ sweeping \in BOOLEAN /\ overlapped \in BOOLEAN
    /\ failures \in 0..MaxFailures
    /\ successes \in 0..2

\* Two instances never run the task at the same time, however their calls,
\* the waits on the lease row and lost transactions interleave.
OneRunner ==
    \A i, j \in Instances : step[i] = "running" /\ step[j] = "running" => i = j

\* No crash or failure leaves the task leased: between runs the lease row is
\* free, so that a retry never has to wait for the lease to expire.
LeaseFreeBetweenRuns == lease.status # "ACTIVE"

\* A task is given up only after enough runs of it have failed: calls that
\* count attempts from a row they read earlier never count too many.
GivenUpLate ==
    /\ task.attempt <= failures + 1
    /\ task.status = "FAILED_FINAL" => failures + 1 >= MaxAttempts

\* As long as calls do not overlap, with each other or with a recovery run,
\* a task succeeds at most once a day, through failures, crashes, retries and
\* recovery runs in between.
SequentialOnce == ~overlapped => successes <= 1

\* A call never hangs: neither waiting for a lease or a row nor being refused
\* keeps an instance from finishing its call.
CallEnds == \A i \in Instances : Active(i) ~> ~Active(i)

\* A lease means what it says: one runner while it is held, and none held when
\* nobody runs, whatever was lost.
RunsExclusive == OneRunner /\ LeaseFreeBetweenRuns

\* The task row tells the outcomes as they were: attempts are not over-counted,
\* and calls that do not overlap succeed once.
OutcomesCounted == TypeOK /\ GivenUpLate /\ SequentialOnce
=============================================================================
