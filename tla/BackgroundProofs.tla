-------------------------- MODULE BackgroundProofs --------------------------
(***************************************************************************)
(* Proofs about the work done in the background: the scheduled tasks and   *)
(* their leases (TaskRuntime), the queue of local jobs and the ingestion   *)
(* runs (Jobs), and the notification outbox (Outbox).  The three share no  *)
(* state, and each part below is about one of them: for any number of      *)
(* instances, attempts and failures; of enqueuers, runners, jobs, items and*)
(* killed runners; of messages, dates, attempts and lost runs.             *)
(***************************************************************************)
EXTENDS TaskRuntime, Jobs, Outbox, SetFolds, SequenceTheorems, TLAPS

----------------------------------------------------------------------------
(***************************************************************************)
(* Scheduled tasks and leases.                                             *)
(***************************************************************************)

\* Rows are never deleted: what a call or a recovery run has read exists.
RowsStay ==
    /\ sweeping => task # NoTask
    /\ \A i \in Instances : seen[i] # NoTask => task # NoTask

Typed == TypeOK /\ RowsStay

\* What is written to the task row is a row.
LEMMA UpsertType ==
  ASSUME Typed, NEW i \in Instances, NEW status \in TaskStatus
  PROVE  Upsert(i, status) \in Task
  <1>1. CASE seen[i] = NoTask
    BY <1>1 DEF Upsert, Task
  <1>2. CASE seen[i] # NoTask
    <2>1. task \in Task
      BY <1>2 DEF Typed, TypeOK, RowsStay
    <2> QED
      BY <1>2, <2>1 DEF Upsert, Task
  <1> QED
    BY <1>1, <1>2

\* A task row is not the missing row.
LEMMA TaskIsSomething == \A row \in Task : row # NoTask
BY DEF Task, NoTask

\* A lease that is given back is a released lease row.
LEMMA LeaseAfterType ==
  ASSUME NEW i \in Instances, NEW status
  PROVE  LeaseAfter(i, status) \in Lease /\ LeaseAfter(i, status).status = "RELEASED"
BY DEF LeaseAfter, Lease

\* A failure writes a row whose attempt is one more than the one it read.
LEMMA FailedRow ==
  ASSUME TypeOK, NEW i \in Instances, NEW attempt, attempt = NextAttempt(seen[i]),
         NEW row, row = [attempt |-> attempt, status |->
            IF attempt >= MaxAttempts THEN "FAILED_FINAL" ELSE "FAILED_RETRYABLE"]
  PROVE  /\ row \in Task
         /\ row.attempt = attempt
         /\ attempt \in {seen[i].attempt + 1, 2}
         /\ row.status = "FAILED_FINAL" => attempt >= MaxAttempts
  <1>1. seen[i] \in Task \cup {NoTask}
    BY DEF TypeOK
  <1>2. attempt \in Nat \ {0} /\ attempt \in {seen[i].attempt + 1, 2}
    BY <1>1 DEF NextAttempt, Task
  <1> QED
    BY <1>2 DEF Task, TaskStatus

----------------------------------------------------------------------------
(* Type correctness.                                                       *)

\* The database rows and the steps of the calls always have their types, and
\* no row that a call relies on disappears.
THEOREM TaskTypeCorrect == Spec => []Typed
<1>1. Init => Typed
  <2> SUFFICES ASSUME Init PROVE Typed
    OBVIOUS
  <2>1. task = NoTask /\ lease = NoLease /\ holder = NoOne /\ ~sweeping
        /\ seen = [i \in Instances |-> NoTask]
        /\ step = [i \in Instances |-> "idle"]
    BY DEF Init
  <2>2. failures \in 0..MaxFailures /\ successes \in 0..2
    BY AttemptsAssumption DEF Init
  <2>3. sweeping \in BOOLEAN /\ overlapped \in BOOLEAN
    BY DEF Init
  <2> QED
    BY <2>1, <2>2, <2>3 DEF Typed, TypeOK, RowsStay, CallSteps
<1>2. Typed /\ [Next]_vars => Typed'
  <2> SUFFICES ASSUME Typed, [Next]_vars PROVE Typed'
    OBVIOUS
  <2> USE DEF Typed, TypeOK, RowsStay, CallSteps, Go, Leave, history
  <2>1. ASSUME NEW i \in Instances, Begin(i) PROVE Typed'
    BY <2>1 DEF Begin, Active
  <2>2. ASSUME NEW i \in Instances, Skip(i) PROVE Typed'
    BY <2>2, UpsertType, TaskIsSomething DEF Skip, TaskStatus
  <2>3. ASSUME NEW i \in Instances, ReadLease(i) PROVE Typed'
    BY <2>3 DEF ReadLease
  <2>4. ASSUME NEW i \in Instances, MissLease(i) PROVE Typed'
    BY <2>4 DEF MissLease
  <2>5. ASSUME NEW i \in Instances, InsertLease(i) PROVE Typed'
    BY <2>5 DEF InsertLease, OnConflict
  <2>6. ASSUME NEW i \in Instances, MarkHeld(i) PROVE Typed'
    BY <2>6, UpsertType, TaskIsSomething DEF MarkHeld, TaskStatus
  <2>7. ASSUME NEW i \in Instances, Start(i) PROVE Typed'
    BY <2>7 DEF Start
  <2>8. ASSUME NEW i \in Instances, Succeed(i) PROVE Typed'
    BY <2>8, UpsertType, LeaseAfterType, TaskIsSomething DEF Succeed, Commit, TaskStatus
  <2>9. ASSUME NEW i \in Instances, Fail(i) PROVE Typed'
    <3>1. PICK attempt : attempt = NextAttempt(seen[i])
      OBVIOUS
    <3>2. PICK row : row = [attempt |-> attempt, status |->
            IF attempt >= MaxAttempts THEN "FAILED_FINAL" ELSE "FAILED_RETRYABLE"]
      OBVIOUS
    <3>3. Commit(i, row)
      BY <2>9, <3>1, <3>2 DEF Fail
    <3>4. row \in Task
      BY <3>1, <3>2, FailedRow
    <3>5. failures' \in 0..MaxFailures /\ successes' = successes
      BY <2>9, AttemptsAssumption DEF Fail
    <3> QED
      BY <3>3, <3>4, <3>5, LeaseAfterType, TaskIsSomething DEF Commit
  <2>10. ASSUME NEW i \in Instances, Abort(i) PROVE Typed'
    BY <2>10 DEF Abort
  <2>11. CASE FindRunning
    BY <2>11 DEF FindRunning, NoTask
  <2>12. CASE MarkRecovered
    <3>1. task \in Task
      BY <2>12 DEF MarkRecovered
    <3>2. task' \in Task
      BY <2>12, <3>1 DEF MarkRecovered, Task, TaskStatus
    <3> QED
      BY <2>12, <3>2, TaskIsSomething DEF MarkRecovered
  <2>13. CASE UNCHANGED vars
    BY <2>13 DEF vars
  <2> QED
    BY <2>1, <2>2, <2>3, <2>4, <2>5, <2>6, <2>7, <2>8, <2>9, <2>10, <2>11,
       <2>12, <2>13 DEF Next, Call, End, Return
<1> QED
  BY <1>1, <1>2, PTL DEF Spec

----------------------------------------------------------------------------
(* Exclusion: only the instance whose transaction has written the lease    *)
(* row is past acquire.                                                    *)

Holding == \A i \in Instances :
    step[i] \in {"acquired", "running"} <=> holder = i

LeaseKept == Holding /\ LeaseFreeBetweenRuns

\* The rows are held exactly by the instance past the lease, and the lease is free
\* whenever no transaction has them.
LEMMA HoldingInvariant == Spec => []LeaseKept
<1>1. Init => LeaseKept
  BY AttemptsAssumption DEF Init, LeaseKept, Holding, LeaseFreeBetweenRuns, NoLease
<1>2. Typed /\ LeaseKept /\ [Next]_vars => LeaseKept'
  <2> SUFFICES ASSUME Typed, LeaseKept, [Next]_vars PROVE LeaseKept'
    OBVIOUS
  <2> USE AttemptsAssumption
      DEF Typed, TypeOK, LeaseKept, Holding, LeaseFreeBetweenRuns, CallSteps, Go, Leave
  <2>1. ASSUME NEW i \in Instances, Begin(i) PROVE LeaseKept'
    BY <2>1 DEF Begin, Active
  <2>2. ASSUME NEW i \in Instances, Skip(i) PROVE LeaseKept'
    BY <2>2 DEF Skip
  <2>3. ASSUME NEW i \in Instances, ReadLease(i) PROVE LeaseKept'
    BY <2>3 DEF ReadLease, Readable, Owned
  <2>4. ASSUME NEW i \in Instances, MissLease(i) PROVE LeaseKept'
    BY <2>4 DEF MissLease
  <2>5. ASSUME NEW i \in Instances, InsertLease(i) PROVE LeaseKept'
    BY <2>5 DEF InsertLease, OnConflict
  <2>6. ASSUME NEW i \in Instances, MarkHeld(i) PROVE LeaseKept'
    BY <2>6 DEF MarkHeld
  <2>7. ASSUME NEW i \in Instances, Start(i) PROVE LeaseKept'
    BY <2>7 DEF Start
  <2>8. ASSUME NEW i \in Instances, NEW row, Commit(i, row) PROVE LeaseKept'
    BY <2>8, LeaseAfterType DEF Commit
  <2>9. ASSUME NEW i \in Instances, Abort(i) PROVE LeaseKept'
    BY <2>9 DEF Abort, Active
  <2>10. CASE FindRunning \/ MarkRecovered \/ UNCHANGED vars
    BY <2>10 DEF FindRunning, MarkRecovered, vars
  <2> QED
    BY <2>1, <2>2, <2>3, <2>4, <2>5, <2>6, <2>7, <2>8, <2>9, <2>10
    DEF Next, Call, End, Return, Succeed, Fail
<1> QED
  BY <1>1, <1>2, TaskTypeCorrect, PTL DEF Spec

\* Two instances never run the task at the same time.
THEOREM TaskOneRunner == Spec => []OneRunner
<1>1. LeaseKept => OneRunner
  BY AttemptsAssumption DEF LeaseKept, Holding, OneRunner
<1> QED
  BY <1>1, HoldingInvariant, PTL

\* No run, failure or crash leaves an ACTIVE lease behind.
THEOREM TaskLeaseFree == Spec => []LeaseFreeBetweenRuns
<1>1. LeaseKept => LeaseFreeBetweenRuns
  BY DEF LeaseKept
<1> QED
  BY <1>1, HoldingInvariant, PTL

----------------------------------------------------------------------------
(* Attempts: a call may count from a row that is out of date, but every    *)
(* attempt ever written was at most one more than the committed failures.  *)

AttemptsCounted ==
    /\ GivenUpLate
    /\ \A i \in Instances : seen[i].attempt <= failures + 1

\* A row written for an outcome counts no attempt that did not fail.
LEMMA UpsertAttempt ==
  ASSUME Typed, AttemptsCounted, NEW i \in Instances, NEW status
  PROVE  /\ Upsert(i, status).attempt <= failures + 1
         /\ Upsert(i, status).status = status
  <1>1. failures \in Nat
    BY AttemptsAssumption DEF Typed, TypeOK
  <1>2. CASE seen[i] = NoTask
    BY <1>1, <1>2 DEF Upsert
  <1>3. CASE seen[i] # NoTask
    <2>1. task \in Task
      BY <1>3 DEF Typed, TypeOK, RowsStay
    <2> QED
      BY <1>3, <2>1 DEF Upsert, Task, AttemptsCounted, GivenUpLate
  <1> QED
    BY <1>2, <1>3

\* The task is given up only after MaxAttempts - 1 committed failures,
\* although concurrent failures may overwrite each other's count.
THEOREM TaskGivenUpLate == Spec => []GivenUpLate
<1>1. Init => AttemptsCounted
  BY AttemptsAssumption DEF Init, AttemptsCounted, GivenUpLate, NoTask
<1>2. Typed /\ AttemptsCounted /\ [Next]_vars => AttemptsCounted'
  <2> SUFFICES ASSUME Typed, AttemptsCounted, [Next]_vars PROVE AttemptsCounted'
    OBVIOUS
  <2>a. failures \in Nat /\ MaxAttempts \in Nat /\ task.attempt \in Nat
        /\ \A i \in Instances : seen[i].attempt \in Nat
    BY AttemptsAssumption DEF Typed, TypeOK, Task, NoTask
  <2>b. seen \in [Instances -> Task \cup {NoTask}]
    BY DEF Typed, TypeOK
  <2>c. ASSUME NEW i \in Instances, Leave(i)
        PROVE  \A j \in Instances : seen'[j] \in {seen[j], NoTask}
    BY <2>b, <2>c DEF Leave
  <2>1. ASSUME NEW i \in Instances, Begin(i) PROVE AttemptsCounted'
    BY <2>a, <2>b, <2>1 DEF Begin, AttemptsCounted, GivenUpLate, history
  <2>2. ASSUME NEW i \in Instances, NEW status \in TaskStatus \ {"FAILED_FINAL"},
               task' = Upsert(i, status), Leave(i), failures' = failures
        PROVE  AttemptsCounted'
    <3>1. task'.attempt <= failures + 1 /\ task'.status # "FAILED_FINAL"
      BY <2>2, UpsertAttempt
    <3> QED
      BY <2>2, <2>a, <2>c, <3>1 DEF AttemptsCounted, GivenUpLate, NoTask
  <2>3. ASSUME NEW i \in Instances, Fail(i) PROVE AttemptsCounted'
    <3>1. PICK attempt : attempt = NextAttempt(seen[i])
      OBVIOUS
    <3>2. PICK row : row = [attempt |-> attempt, status |->
            IF attempt >= MaxAttempts THEN "FAILED_FINAL" ELSE "FAILED_RETRYABLE"]
      OBVIOUS
    <3>3. task' = row /\ Leave(i) /\ failures' = failures + 1
      BY <2>3, <3>1, <3>2 DEF Fail, Commit
    <3>4. /\ row.attempt = attempt
          /\ attempt \in {seen[i].attempt + 1, 2}
          /\ row.status = "FAILED_FINAL" => attempt >= MaxAttempts
      BY <3>1, <3>2, FailedRow DEF Typed
    <3>5. attempt <= failures + 2
      BY <3>4, <2>a DEF AttemptsCounted
    <3> QED
      BY <3>3, <3>4, <3>5, <2>a, <2>c DEF AttemptsCounted, GivenUpLate, NoTask
  <2>4. ASSUME NEW i \in Instances, Abort(i) PROVE AttemptsCounted'
    BY <2>4, <2>a, <2>c DEF Abort, AttemptsCounted, GivenUpLate, NoTask, history
  <2>5. CASE MarkRecovered
    <3>1. task \in Task
      BY <2>5 DEF MarkRecovered, Typed, TypeOK, RowsStay
    <3>2. task'.attempt = task.attempt /\ task'.status = "RECOVERED"
      BY <2>5, <3>1 DEF MarkRecovered, Task
    <3> QED
      BY <2>5, <3>2 DEF MarkRecovered, AttemptsCounted, GivenUpLate, history
  <2>6. ASSUME UNCHANGED <<task, seen, failures>> PROVE AttemptsCounted'
    BY <2>6 DEF AttemptsCounted, GivenUpLate
  <2> QED
    BY <2>1, <2>2, <2>3, <2>4, <2>5, <2>6
    DEF Next, Call, End, Return, Skip, ReadLease, MissLease, InsertLease,
        MarkHeld, Start, Succeed, Commit, FindRunning, vars, history, TaskStatus
<1>3. AttemptsCounted => GivenUpLate
  BY DEF AttemptsCounted
<1> QED
  BY <1>1, <1>2, <1>3, TaskTypeCorrect, PTL DEF Spec

----------------------------------------------------------------------------
(* Success: while calls do not overlap, one call at a time is under way,   *)
(* and it found no success to begin with.                                  *)

Alone ==
    /\ \A i, j \in Instances : Active(i) /\ Active(j) => i = j
    /\ sweeping => \A i \in Instances : ~Active(i)
    /\ successes # 0 =>
         /\ successes = 1 /\ task.status = "SUCCEEDED" /\ ~sweeping
         /\ \A i \in Instances : ~Active(i)

AloneUntilOverlap == ~overlapped => Alone

\* Without overlapping calls, a task succeeds at most once a day.
THEOREM TaskSequentialOnce == Spec => []SequentialOnce
<1>1. Init => AloneUntilOverlap
  BY DEF Init, AloneUntilOverlap, Alone, Active
<1>2. Typed /\ AloneUntilOverlap /\ [Next]_vars => AloneUntilOverlap'
  <2> SUFFICES ASSUME Typed, AloneUntilOverlap, [Next]_vars, ~overlapped'
               PROVE  Alone'
    BY DEF AloneUntilOverlap
  <2>a. step \in [Instances -> CallSteps] /\ overlapped \in BOOLEAN /\ successes \in 0..2
    BY DEF Typed, TypeOK
  <2>b. ~overlapped => Alone
    BY DEF AloneUntilOverlap
  <2>1. ASSUME NEW i \in Instances, Begin(i) PROVE Alone'
    <3>1. /\ ~overlapped /\ ~sweeping /\ \A j \in Instances : ~Active(j)
          /\ task.status # "SUCCEEDED"
      BY <2>1, <2>a DEF Begin, Finished
    <3> QED
      BY <2>1, <2>a, <2>b, <3>1 DEF Begin, Alone, Active, Go, history
  <2>2. ASSUME NEW i \in Instances, Active(i), Leave(i),
               UNCHANGED <<sweeping, successes, overlapped>>
        PROVE  Alone'
    BY <2>2, <2>a, <2>b DEF Leave, Go, Alone, Active
  <2>3. ASSUME NEW i \in Instances, Active(i), NEW to \in CallSteps, Go(i, to),
               UNCHANGED <<sweeping, successes, overlapped>>
        PROVE  Alone'
    BY <2>3, <2>a, <2>b DEF Go, Alone, Active
  <2>4. ASSUME NEW i \in Instances, Succeed(i) PROVE Alone'
    <3>1. Active(i) /\ Leave(i) /\ UNCHANGED <<sweeping, overlapped>>
      BY <2>4 DEF Succeed, Commit, Active
    <3>2. Alone
      BY <2>b, <3>1
    <3>3. successes = 0 /\ ~sweeping /\ \A j \in Instances : Active(j) => j = i
      BY <3>1, <3>2 DEF Alone
    <3>4. successes' = 1
      BY <2>4, <3>3 DEF Succeed
    <3>5. task'.status = "SUCCEEDED"
      <4>1. task' = Upsert(i, "SUCCEEDED")
        BY <2>4 DEF Succeed, Commit
      <4>2. CASE seen[i] = NoTask
        BY <4>1, <4>2 DEF Upsert
      <4>3. CASE seen[i] # NoTask
        <5>1. task \in Task
          BY <4>3 DEF Typed, TypeOK, RowsStay
        <5> QED
          BY <4>1, <4>3, <5>1 DEF Upsert, Task
      <4> QED
        BY <4>2, <4>3
    <3>6. \A j \in Instances : ~Active(j)'
      BY <3>1, <3>3, <2>a DEF Leave, Go, Active
    <3> QED
      BY <3>1, <3>3, <3>4, <3>5, <3>6 DEF Alone
  <2>5. CASE FindRunning
    BY <2>5, <2>a, <2>b DEF FindRunning, Alone, Active, history
  <2>6. CASE MarkRecovered
    BY <2>6, <2>b DEF MarkRecovered, Alone, Active, history
  <2>7. CASE UNCHANGED vars
    BY <2>7, <2>b DEF vars, Alone, Active
  <2>8. ASSUME NEW i \in Instances, Call(i), ~Begin(i), ~Succeed(i), ~Return(i)
        PROVE  Alone'
    <3>1. Active(i) /\ UNCHANGED <<sweeping, successes, overlapped>>
      BY <2>8 DEF Call, End, Skip, ReadLease, MissLease, InsertLease, MarkHeld,
         Start, Fail, Commit, Abort, Active, history
    <3>2. Leave(i) \/ \E to \in CallSteps : Go(i, to)
      BY <2>8 DEF Call, End, Skip, ReadLease, MissLease, InsertLease, MarkHeld,
         Start, Fail, Commit, Abort, OnConflict,
         CallSteps
    <3> QED
      BY <2>2, <2>3, <3>1, <3>2
  <2> QED
    BY <2>1, <2>4, <2>5, <2>6, <2>7, <2>8 DEF Next, Return
<1>3. AloneUntilOverlap /\ Typed => SequentialOnce
  BY DEF AloneUntilOverlap, Alone, SequentialOnce, Typed, TypeOK
<1> QED
  BY <1>1, <1>2, <1>3, TaskTypeCorrect, PTL DEF Spec

\* One runner at a time, and no lease is held when nobody runs, for any number
\* of instances and whatever is lost.
THEOREM TaskRunsExclusive == Spec => []RunsExclusive
BY TaskOneRunner, TaskLeaseFree, PTL DEF RunsExclusive

\* The task row tells the outcomes as they were, for any number of instances,
\* attempts and failures.
THEOREM TaskOutcomesCounted == Spec => []OutcomesCounted
<1>1. Typed => TypeOK
  BY DEF Typed
<1> QED
  BY <1>1, TaskTypeCorrect, TaskGivenUpLate, TaskSequentialOnce, PTL
  DEF OutcomesCounted

----------------------------------------------------------------------------
(***************************************************************************)
(* The job queue and the ingestion runs.                                   *)
(***************************************************************************)

----------------------------------------------------------------------------
(* The batch of a run, saved item by item.                                 *)

StoredBy(st, k) == {i \in Items : st[i] = k}

\* What the first items of a batch may have left, where nothing was stored by
\* run k before: only free items are taken, and ok is their number.
Saving(k) ==
    {v \in [st : [Items -> Nat], ok : Nat, dup : Nat] :
       /\ \A i \in Items : v.st[i] = stored[i] \/ (stored[i] = 0 /\ v.st[i] = k)
       /\ IsFiniteSet(StoredBy(v.st, k))
       /\ v.ok = Cardinality(StoredBy(v.st, k))}

\* One more item keeps the count of the rows, also when it rolls them back.
LEMMA SaveItemCounts ==
    ASSUME stored \in [Items -> Nat], NEW k \in Nat \ {0}, StoredBy(stored, k) = {},
           NEW v \in Saving(k), NEW i \in Items
    PROVE  SaveItem(v, i, k, stored) \in Saving(k)
  <1> DEFINE next == SaveItem(v, i, k, stored)
  <1>0. /\ v.st \in [Items -> Nat] /\ v.ok \in Nat /\ v.dup \in Nat
        /\ v = [st |-> v.st, ok |-> v.ok, dup |-> v.dup]
    BY DEF Saving
  <1>1. CASE v.st[i] # 0
    <2>1. next = [v EXCEPT !.dup = @ + 1]
      BY <1>1 DEF SaveItem
    <2> QED BY <2>1, <1>0 DEF Saving
  <1>2. CASE v.st[i] = 0 /\ \E o \in Items : v.st[o] # 0 /\ Key[o] = Key[i]
    <2>1. next = [st |-> stored, ok |-> 0, dup |-> 1]
      BY <1>2 DEF SaveItem, Rollback
    <2>2. IsFiniteSet(StoredBy(stored, k)) /\ Cardinality(StoredBy(stored, k)) = 0
      BY FS_EmptySet
    <2> QED BY <2>1, <2>2 DEF Saving
  <1>3. CASE v.st[i] = 0 /\ ~\E o \in Items : v.st[o] # 0 /\ Key[o] = Key[i]
    <2> DEFINE st == [v.st EXCEPT ![i] = k]
    <2>1. next = [st |-> st, ok |-> v.ok + 1, dup |-> v.dup]
      BY <1>0, <1>3 DEF SaveItem
    <2>2. i \notin StoredBy(v.st, k) /\ StoredBy(st, k) = StoredBy(v.st, k) \cup {i}
      BY <1>0, <1>3 DEF StoredBy
    <2>3. IsFiniteSet(StoredBy(st, k)) /\ Cardinality(StoredBy(st, k)) = v.ok + 1
      BY <2>2, FS_AddElement DEF Saving
    <2>4. st \in [Items -> Nat]
      BY <1>0
    <2>5. \A j \in Items : st[j] = stored[j] \/ (stored[j] = 0 /\ st[j] = k)
      BY <1>0, <1>3 DEF Saving
    <2> HIDE DEF st
    <2> QED BY <1>0, <2>1, <2>3, <2>4, <2>5 DEF Saving
  <1> QED BY <1>1, <1>2, <1>3

\* The recursion behind save_batch, over the sets of items it has seen.
SaveIter(batch, k) ==
    CHOOSE iter : iter = [s \in SUBSET DOMAIN batch |->
        IF s = {} THEN [st |-> stored, ok |-> 0, dup |-> 0]
        ELSE SaveItem(iter[s \ {Max(s)}], batch[Max(s)], k, stored)]

\* Saving a batch is the value of the recursion SaveIter chooses.
LEMMA SaveIsIter ==
    ASSUME NEW batch, NEW k
    PROVE  save_batch(batch, k) = SaveIter(batch, k)[DOMAIN batch]
  BY DEF save_batch, FoldLeft, MapThenFoldSet, SaveIter

\* After a batch, the counts of the run are those of the rows it stored.
LEMMA SaveBatchCounts ==
    ASSUME stored \in [Items -> Nat], NEW k \in Nat \ {0}, StoredBy(stored, k) = {},
           NEW batch \in Seq(Items)
    PROVE  save_batch(batch, k) \in Saving(k)
  <1> DEFINE S == 1..Len(batch)
             V == Saving(k)
             base == [st |-> stored, ok |-> 0, dup |-> 0]
             pick == [s \in SUBSET S |-> Max(s)]
             op == [p \in S \X V |-> SaveItem(p[2], batch[p[1]], k, stored)]
             Unfold(iter) == [s \in SUBSET S |->
               IF s = {} THEN base
               ELSE SaveItem(iter[s \ {Max(s)}], batch[Max(s)], k, stored)]
  <1>1. DOMAIN batch = S /\ \A x \in S : batch[x] \in Items
    OBVIOUS
  <1>2. IsFiniteSet(S) /\ Picks(pick, S)
    <2>1. Len(batch) \in Nat
      OBVIOUS
    <2> QED BY <2>1, MaxPicks
  <1>3. base \in V
    BY FS_EmptySet DEF Saving
  <1>4. \A x \in S, v \in V : SaveItem(v, batch[x], k, stored) \in V
    BY <1>1, SaveItemCounts
  <1>5. op \in [S \X V -> V]
    BY <1>4
  <1>6. PICK g \in [SUBSET S -> V] : Folds(g, S, base, pick, op)
    <2> HIDE DEF S, V, base, pick, op
    <2> QED BY <1>2, <1>3, <1>5, FoldExists
  <1>7. ASSUME NEW s \in SUBSET S
        PROVE  g[s] = Unfold(g)[s]
    <2>1. CASE s = {}
      BY <2>1, <1>6 DEF Folds
    <2>2. CASE s # {}
      <3> DEFINE x == pick[s]
                 v == g[s \ {x}]
      <3>1. g[s] = op[<<x, v>>]
        BY <2>2, <1>6 DEF Folds
      <3>2. x = Max(s) /\ x \in S /\ v \in V
        BY <2>2, <1>2, <1>6 DEF Picks
      <3> HIDE DEF x, v, S, V
      <3>3. op[<<x, v>>] = SaveItem(v, batch[x], k, stored)
        BY <3>2
      <3> QED BY <2>2, <3>1, <3>2, <3>3 DEF x, v
    <2> QED BY <2>1, <2>2
  <1>8. g = Unfold(g)
    BY <1>7
  <1>9. SaveIter(batch, k) = Unfold(SaveIter(batch, k))
    BY <1>1, <1>8 DEF SaveIter
  <1> DEFINE I == SaveIter(batch, k)
             T == {s \in SUBSET S : I[s] \in V}
  <1>10. ASSUME NEW s \in SUBSET S, \A x \in s : s \ {x} \in T
         PROVE  s \in T
    <2>1. I[s] = Unfold(I)[s]
      BY <1>9
    <2>2. CASE s = {}
      BY <2>1, <2>2, <1>3
    <2>3. CASE s # {}
      <3>1. Max(s) \in s
        BY <2>3, <1>2 DEF Picks
      <3>2. I[s \ {Max(s)}] \in V
        BY <3>1, <1>10
      <3>3. I[s] = SaveItem(I[s \ {Max(s)}], batch[Max(s)], k, stored)
        BY <2>1, <2>3
      <3>4. Max(s) \in S
        BY <3>1
      <3> HIDE DEF I, V, S
      <3>5. I[s] \in V
        BY <3>2, <3>3, <3>4, <1>4
      <3> QED BY <3>5
    <2> QED BY <2>2, <2>3
  <1>11. \A s \in SUBSET S : s \in T
    <2> HIDE DEF T, S
    <2> QED BY <1>2, <1>10, SubsetInduction
  <1> QED BY <1>1, <1>11, SaveIsIter

----------------------------------------------------------------------------
(* Types.                                                                  *)

\* A runner that is not idle works on a row of the table; what is left of its
\* job begins with an ingestion once it has checked for one, and from its begin
\* to its end the ingestion has a RUNNING row that no other runner has.
RunnerSound(r) ==
    /\ runner[r].seen <= Len(runs)
    /\ runner[r].step # "idle" => runner[r].job \in DOMAIN jobs
    /\ runner[r].step \in {"checked", "fetching", "saved"} =>
         runner[r].todo # <<>> /\ Head(runner[r].todo) \in Synced
    /\ IF runner[r].step \in {"fetching", "saved"}
       THEN runner[r].run \in DOMAIN runs /\ runs[runner[r].run].status = "RUNNING"
       ELSE runner[r].run = 0

RunnersApart ==
    \A r, q \in Runners : runner[r].run = runner[q].run /\ runner[r].run # 0 => r = q

\* The rows of the runs, and what has been stored, belong together.
RowsCounted ==
    /\ \A k \in DOMAIN runs : /\ IsFiniteSet(StoredBy(stored, k))
                              /\ runs[k].ok = Cardinality(StoredBy(stored, k))
    /\ \A r \in Runners : runner[r].step = "fetching" =>
         StoredBy(stored, runner[r].run) = {}

\* A job that only syncs has nothing left that could fail it.
OnlySyncs ==
    /\ SyncFailureOnlyInRuns
    /\ \A r \in Runners :
         runner[r].step # "idle" /\ jobs[runner[r].job].type \in IngestionTypes =>
           /\ \A n \in DOMAIN runner[r].todo : runner[r].todo[n] \in Synced
           /\ runner[r].step = "closing" => runner[r].end # "FAILED"

\* A runner that has read a row which was finished since is one of its readers.
ReadersNoted ==
    \A r \in Runners :
      runner[r].step = "selected" /\ jobs[runner[r].job].status \in Closing
        => r \in jobs[runner[r].job].readers

\* What was RUNNING when a runner looked is not of the type it will begin.
Looked ==
    \A r \in Runners : runner[r].step = "checked" =>
      \A k \in DOMAIN runs :
        k <= runner[r].seen /\ runs[k].type = Head(runner[r].todo)
          => runs[k].status # "RUNNING"

\* Two rows of a recommendation are the same row.
OneRecommendation ==
    \A j, k \in DOMAIN jobs :
      jobs[j].type \in Recommendations /\ jobs[j].type = jobs[k].type => j = k

JobsSound ==
    /\ JobsTypeOK /\ RunnersApart /\ \A r \in Runners : RunnerSound(r)
    /\ RowsCounted /\ OnlySyncs /\ ReadersNoted
    /\ Looked /\ RunsOverlapOnlyByRace /\ OneRecommendation

Work == Synced \cup {"SCAN", "BACKUP"}

\* The pieces of a job are syncs or other work.
LEMMA TodoType == ASSUME NEW t \in ALLOWED_TASKS PROVE TodoOf(t) \in Seq(Work)
  <1>1. /\ Synced \subseteq Work /\ {"SCAN", "BACKUP"} \subseteq Work
        /\ {"MARKET_SPOT_SYNC", "INDUSTRY_SYNC"} \subseteq Work
    BY DEF Work, Synced
  <1>2. \A x, y, z \in Work : /\ <<>> \in Seq(Work) /\ <<x>> \in Seq(Work)
                              /\ <<x, y, z>> \in Seq(Work)
    OBVIOUS
  <1> QED BY <1>1, <1>2 DEF TodoOf

\* What is left of the job after its first piece.
LEMMA TailType ==
    ASSUME NEW S, NEW todo \in Seq(S), todo # <<>>
    PROVE  Tail(todo) \in Seq(S)
  OBVIOUS

\* Rows of jobs are never removed, and keep their types.
JobRowsKept ==
    /\ jobs' \in Seq(JobRow)
    /\ \A j \in DOMAIN jobs : j \in DOMAIN jobs' /\ jobs'[j].type = jobs[j].type

\* A runner at rest is well typed.
LEMMA IdleType == IdleRunner \in Runner
  BY DEF IdleRunner, Runner, Steps, Work, Open, Closing

\* A row of a job is written, with its type.
LEMMA RowWritten ==
    ASSUME jobs \in Seq(JobRow), NEW j \in DOMAIN jobs, NEW row \in JobRow,
           row.type = jobs[j].type,
           jobs' = [jobs EXCEPT ![j] = row]
    PROVE  JobRowsKept
  <1>1. j \in 1..Len(jobs) /\ DOMAIN jobs = 1..Len(jobs)
    OBVIOUS
  <1>2. /\ jobs' \in Seq(JobRow) /\ Len(jobs') = Len(jobs)
        /\ \A i \in 1..Len(jobs) : jobs'[i] = IF i = j THEN row ELSE jobs[i]
    BY <1>1, ExceptSeq
  <1> QED BY <1>1, <1>2 DEF JobRowsKept

\* The rows of jobs with the status and the readers of one of them written.
RowSet(i, status, who) == [jobs EXCEPT ![i] = [@ EXCEPT !.status = status, !.readers = who]]

\* A row that is written has what was written, and the others are as they were.
LEMMA JobSet ==
    ASSUME jobs \in Seq(JobRow), NEW i, NEW j \in DOMAIN jobs, NEW status, NEW who,
           jobs' = RowSet(i, status, who)
    PROVE  /\ DOMAIN jobs' = DOMAIN jobs
           /\ \/ jobs'[j] = jobs[j]
              \/ i = j /\ jobs'[j].status = status /\ jobs'[j].readers = who
  <1>1. jobs[j] \in JobRow
    OBVIOUS
  <1>2. CASE i = j
    <2>1. jobs'[j] = [jobs[j] EXCEPT !.status = status, !.readers = who]
      BY <1>2 DEF RowSet
    <2> QED BY <1>1, <1>2, <2>1 DEF JobRow, RowSet
  <1> QED BY <1>2 DEF RowSet

\* A killed runner changes neither the status of a row nor who has read it.
LEMMA JobKilled ==
    ASSUME jobs \in Seq(JobRow), NEW r \in Runners, Kill(r), NEW j \in DOMAIN jobs
    PROVE  jobs'[j].status = jobs[j].status /\ jobs'[j].readers = jobs[j].readers
  <1>1. jobs[j] \in JobRow
    OBVIOUS
  <1>2. jobs' = jobs \/ jobs' = [jobs EXCEPT ![runner[r].job] = [@ EXCEPT !.killed = TRUE]]
    BY DEF Kill
  <1>3. jobs'[j] = jobs[j] \/ jobs'[j] = [jobs[j] EXCEPT !.killed = TRUE]
    BY <1>2
  <1> QED BY <1>1, <1>3 DEF JobRow

\* Every step keeps the rows of jobs, and the runners well typed.
LEMMA RowsStep ==
    ASSUME JobsSound, [JobsNext]_jobsVars
    PROVE  JobRowsKept /\ runner' \in [Runners -> Runner]
  <1> USE DEF JobsSound, JobsTypeOK
  <1>1. ASSUME NEW a \in Askers, NEW t \in Enqueued, Ask(a, t)
        PROVE  JobRowsKept /\ runner' \in [Runners -> Runner]
    BY <1>1 DEF Ask, JobRowsKept
  <1>2. ASSUME NEW a \in Askers, Enqueue(a)
        PROVE  JobRowsKept /\ runner' \in [Runners -> Runner]
    <2> DEFINE row == NewJob(asking[a])
    <2>1. row \in JobRow
      BY <1>2, JobsAssumption DEF Enqueue, NewJob, JobRow, Open
    <2>2. jobs' = jobs \/ jobs' = Append(jobs, row)
      BY <1>2 DEF Enqueue
    <2> HIDE DEF row
    <2>3. JobRowsKept
      <3>1. CASE jobs' = jobs
        BY <3>1 DEF JobRowsKept
      <3>2. CASE jobs' = Append(jobs, row)
        <4>1. /\ jobs' \in Seq(JobRow) /\ Len(jobs') = Len(jobs) + 1
              /\ \A j \in 1..Len(jobs) : jobs'[j] = jobs[j]
          BY <3>2, <2>1, AppendProperties
        <4> QED BY <4>1 DEF JobRowsKept
      <3> QED BY <3>1, <3>2, <2>2
    <2> QED BY <2>3, <1>2 DEF Enqueue
  <1>3. ASSUME NEW r \in Runners, Pick(r)
        PROVE  JobRowsKept /\ runner' \in [Runners -> Runner]
    <2>1. PICK j \in DOMAIN jobs : runner' = [runner EXCEPT ![r] =
            [IdleRunner EXCEPT !.step = "picked", !.job = j]]
      BY <1>3 DEF Pick, Queued
    <2>2. [IdleRunner EXCEPT !.step = "picked", !.job = j] \in Runner
      <3>1. j \in Nat
        BY <2>1
      <3> QED BY <3>1, IdleType DEF Runner, Steps
    <2> QED BY <1>3, <2>1, <2>2 DEF Pick, JobRowsKept
  <1>4. ASSUME NEW r \in Runners, Close(r)
        PROVE  JobRowsKept /\ runner' \in [Runners -> Runner]
    <2>1. runner' \in [Runners -> Runner]
      BY <1>4, IdleType DEF Close
    <2>2. JobRowsKept
      <3> DEFINE j == runner[r].job
                 who == ReadersOf(j)
                 row == [jobs[j] EXCEPT !.status = runner[r].end, !.readers = who]
      <3>1. jobs' = jobs \/ jobs' = [jobs EXCEPT ![j] = row]
        BY <1>4 DEF Close
      <3>2. j \in DOMAIN jobs /\ jobs[j] \in JobRow /\ runner[r].end \in Closing
        BY <1>4 DEF RunnerSound, Close, Runner
      <3>3. row \in JobRow /\ row.type = jobs[j].type
        <4>1. who \in SUBSET Runners
          BY DEF ReadersOf
        <4> HIDE DEF j, who
        <4> QED BY <3>2, <4>1 DEF JobRow
      <3> HIDE DEF j, row
      <3>4. jobs' = jobs => JobRowsKept
        BY DEF JobRowsKept
      <3> QED BY <3>1, <3>2, <3>3, <3>4, RowWritten
    <2> QED BY <2>1, <2>2
  <1>5. ASSUME NEW r \in Runners, MarkRunning(r)
        PROVE  JobRowsKept /\ runner' \in [Runners -> Runner]
    <2> DEFINE j == runner[r].job
               row == [jobs[j] EXCEPT !.status = "RUNNING", !.readers = {}]
               todo == TodoOf(jobs[j].type)
    <2>1. jobs' = jobs \/ jobs' = [jobs EXCEPT ![j] = row]
      BY <1>5 DEF MarkRunning
    <2>2. j \in DOMAIN jobs /\ jobs[j] \in JobRow /\ j \in Nat
      BY <1>5 DEF MarkRunning, RunnerSound, Runner
    <2>3. JobRowsKept
      <3>1. row \in JobRow /\ row.type = jobs[j].type
        BY <2>2 DEF JobRow, Open
      <3> HIDE DEF j, row
      <3>2. jobs' = jobs => JobRowsKept
        BY DEF JobRowsKept
      <3> QED BY <2>1, <2>2, <3>1, <3>2, RowWritten
    <2>4. todo \in Seq(Work)
      <3>1. jobs[j].type \in ALLOWED_TASKS
        BY <2>2 DEF JobRow
      <3> QED BY <3>1, TodoType
    <2>5. runner' = [runner EXCEPT ![r] = [IdleRunner EXCEPT !.step = "working", !.job = j,
                                                             !.todo = todo]]
      BY <1>5 DEF MarkRunning
    <2>6. [IdleRunner EXCEPT !.step = "working", !.job = j, !.todo = todo] \in Runner
      <3> HIDE DEF j, todo
      <3> QED BY <2>2, <2>4, IdleType DEF Runner, Steps, Work
    <2> QED BY <2>3, <2>5, <2>6
  <1>13. ASSUME NEW r \in Runners, RunOne(r)
         PROVE  JobRowsKept /\ runner' \in [Runners -> Runner]
    <2> DEFINE was == jobs[runner[r].job].status
    <2>1. was \in Open \cup Closing
      <3>1. runner[r].job \in DOMAIN jobs
        BY <1>13 DEF RunOne, RunnerSound
      <3>2. jobs[runner[r].job] \in JobRow
        BY <3>1
      <3> QED BY <3>2 DEF JobRow
    <2>2. \/ runner' = [runner EXCEPT ![r] = IdleRunner]
          \/ runner' = [runner EXCEPT ![r] = [@ EXCEPT !.step = "selected", !.was = was]]
      BY <1>13 DEF RunOne
    <2>3. jobs' = jobs
      BY <1>13 DEF RunOne
    <2>4. [runner[r] EXCEPT !.step = "selected", !.was = was] \in Runner
      <3> HIDE DEF was
      <3> QED BY <2>1 DEF Runner, Steps
    <2> HIDE DEF was
    <2> QED BY <2>2, <2>3, <2>4, IdleType DEF JobRowsKept
  <1>14. ASSUME NEW r \in Runners, NEW status \in Closing, ReadBack(r, status),
                runner[r].step # "idle"
         PROVE  JobRowsKept /\ runner' \in [Runners -> Runner]
    <2> DEFINE was == jobs[runner[r].job].status
    <2>1. was \in Open \cup Closing
      <3>1. runner[r].job \in DOMAIN jobs
        BY <1>14 DEF RunnerSound
      <3>2. jobs[runner[r].job] \in JobRow
        BY <3>1
      <3> QED BY <3>2 DEF JobRow
    <2>2. /\ runner' = [runner EXCEPT ![r] = [@ EXCEPT !.step = "closing", !.todo = <<>>,
                                                       !.was = was, !.end = status]]
          /\ jobs' = jobs
      BY <1>14 DEF ReadBack
    <2> HIDE DEF was
    <2>3. <<>> \in Seq(Work)
      OBVIOUS
    <2> QED BY <2>1, <2>2, <2>3 DEF JobRowsKept, Runner, Steps, Work
  <1>6. ASSUME NEW r \in Runners, NextTodo(r), runner[r].todo # <<>>
        PROVE  runner' \in [Runners -> Runner]
    <2>1. runner[r].todo \in Seq(Work)
      BY DEF Runner, Work
    <2>2. Tail(runner[r].todo) \in Seq(Work)
      BY <2>1, <1>6, TailType
    <2> QED BY <2>2, <1>6 DEF NextTodo, Runner, Steps, Work
  <1>7. ASSUME NEW r \in Runners, RunnerStep(r)
        PROVE  JobRowsKept /\ runner' \in [Runners -> Runner]
    <2>1. CASE Pick(r)
      BY <2>1, <1>3
    <2>2. CASE RunOne(r)
      BY <2>2, <1>13
    <2>10. CASE MarkRunning(r)
      BY <2>10, <1>5
    <2>11. CASE Close(r)
      BY <2>11, <1>4
    <2>3. CASE Finish(r)
      BY <2>3, <1>14 DEF Finish, Closing
    <2>4. ASSUME NEW fails \in BOOLEAN, OtherWork(r, fails)
          PROVE  JobRowsKept /\ runner' \in [Runners -> Runner]
      <3>1. CASE fails
        BY <3>1, <2>4, <1>14 DEF OtherWork, Closing
      <3>2. CASE ~fails
        <4>1. runner[r].todo \in Seq(Work)
          BY DEF Runner, Work
        <4>2. Tail(runner[r].todo) \in Seq(Work)
          BY <4>1, <2>4, TailType DEF OtherWork
        <4> QED BY <3>2, <4>2, <2>4 DEF OtherWork, JobRowsKept, Runner, Work
      <3> QED BY <3>1, <3>2
    <2>5. CASE CheckActive(r)
      <3>1. Len(runs) \in Nat
        OBVIOUS
      <3>2. CASE NoneActive(Head(runner[r].todo))
        <4> DEFINE n == Len(runs)
        <4>1. runner' = [runner EXCEPT ![r].step = "checked", ![r].seen = n]
          BY <3>2, <2>5 DEF CheckActive
        <4> HIDE DEF n
        <4>2. n \in Nat
          BY <3>1 DEF n
        <4> QED BY <4>1, <4>2, <2>5 DEF CheckActive, JobRowsKept, Runner, Steps
      <3>3. CASE ~NoneActive(Head(runner[r].todo))
        BY <3>3, <2>5, <1>6 DEF CheckActive, JobRowsKept
      <3> QED BY <3>2, <3>3
    <2>6. CASE BeginRun(r)
      <3> DEFINE n == Len(runs) + 1
      <3>1. n \in Nat
        OBVIOUS
      <3>2. runner' = [runner EXCEPT ![r].step = "fetching", ![r].run = n]
        BY <2>6 DEF BeginRun
      <3> HIDE DEF n
      <3>3. runner' \in [Runners -> Runner]
        BY <3>1, <3>2 DEF Runner, Steps
      <3> QED BY <3>3, <2>6 DEF BeginRun, JobRowsKept
    <2>7. CASE SaveBatch(r)
      BY <2>7 DEF SaveBatch, JobRowsKept, Runner, Steps
    <2>8. CASE EndRun(r)
      BY <2>8, <1>6 DEF EndRun, JobRowsKept, RunnerSound
    <2>9. CASE FailRun(r)
      BY <2>9, <1>6 DEF FailRun, AfterFailure, JobRowsKept, RunnerSound
    <2> QED BY <1>7, <2>1, <2>2, <2>3, <2>4, <2>5, <2>6, <2>7, <2>8, <2>9, <2>10, <2>11
            DEF RunnerStep
  <1>8. ASSUME NEW r \in Runners, Kill(r)
        PROVE  JobRowsKept /\ runner' \in [Runners -> Runner]
    <2>1. runner' \in [Runners -> Runner]
      BY <1>8, IdleType DEF Kill
    <2> DEFINE j == runner[r].job
               row == [jobs[j] EXCEPT !.killed = TRUE]
    <2>2. jobs' = jobs \/ jobs' = [jobs EXCEPT ![j] = row]
      BY <1>8 DEF Kill
    <2>3. j \in DOMAIN jobs /\ jobs[j] \in JobRow
      BY <1>8 DEF Kill, RunnerSound
    <2> HIDE DEF j
    <2>4. row \in JobRow /\ row.type = jobs[j].type
      BY <2>3 DEF JobRow
    <2> HIDE DEF row
    <2>5. JobRowsKept
      <3>1. CASE jobs' = jobs
        BY <3>1 DEF JobRowsKept
      <3> QED BY <3>1, <2>2, <2>3, <2>4, RowWritten
    <2> QED BY <2>1, <2>5
  <1>9. CASE UNCHANGED jobsVars
    BY <1>9 DEF jobsVars, JobRowsKept
  <1> QED
    BY <1>1, <1>2, <1>7, <1>8, <1>9 DEF JobsNext, JobsStep, Quiet

----------------------------------------------------------------------------
(* Rows of ingestion runs.                                                 *)

\* Rows of runs are never removed, and keep their type and what was raced; a
\* run is closed by its own runner, which lets go of it, and for good.
RunRowsKept ==
    /\ runs' \in Seq(RunRow) /\ Len(runs') >= Len(runs)
    /\ \A k \in DOMAIN runs :
         /\ runs'[k].type = runs[k].type /\ runs'[k].raced = runs[k].raced
         /\ \/ runs'[k].status = runs[k].status
            \/ /\ runs[k].status = "RUNNING" /\ runs'[k].status \in Closing
               /\ \E r \in Runners : runner[r].run = k /\ runner'[r].run = 0

\* What a step does with runs and stored rows.
LEMMA RunKinds ==
    ASSUME [JobsNext]_jobsVars
    PROVE  \/ UNCHANGED <<runs, stored>>
           \/ \E r \in Runners : BeginRun(r) \/ SaveBatch(r) \/ EndRun(r) \/ FailRun(r)
  BY DEF JobsNext, JobsStep, RunnerStep, Quiet, jobsVars, Ask, Enqueue, Pick, RunOne,
         MarkRunning, Close, Finish, OtherWork, CheckActive, Kill

\* The row of a run is written by the runner that has it.
LEMMA RunWritten ==
    ASSUME runs \in Seq(RunRow), NEW r \in Runners, NEW k \in DOMAIN runs, NEW row \in RunRow,
           runs' = [runs EXCEPT ![k] = row],
           row.type = runs[k].type, row.raced = runs[k].raced,
           \/ row.status = runs[k].status
           \/ /\ runs[k].status = "RUNNING" /\ row.status \in Closing
              /\ runner[r].run = k /\ runner'[r].run = 0
    PROVE  RunRowsKept /\ Len(runs') = Len(runs)
  <1>1. k \in 1..Len(runs) /\ DOMAIN runs = 1..Len(runs) /\ Len(runs) \in Nat
    OBVIOUS
  <1>2. /\ runs' \in Seq(RunRow) /\ Len(runs') = Len(runs)
        /\ \A i \in 1..Len(runs) : runs'[i] = IF i = k THEN row ELSE runs[i]
    BY <1>1, ExceptSeq
  <1> QED BY <1>1, <1>2 DEF RunRowsKept

\* The batch a run saves.
LEMMA Saved ==
    ASSUME JobsSound, NEW r \in Runners, SaveBatch(r)
    PROVE  LET k == runner[r].run IN
           /\ k \in DOMAIN runs
           /\ \E saved \in Saving(k) :
                /\ stored' = saved.st
                /\ runs' = [runs EXCEPT ![k] = [runs[k] EXCEPT !.ok = saved.ok,
                                                               !.dup = saved.dup]]
  <1> DEFINE k == runner[r].run
  <1>1. k \in DOMAIN runs /\ k \in Nat \ {0} /\ runs[k] \in RunRow
    BY DEF JobsSound, RunnerSound, SaveBatch, JobsTypeOK
  <1>2. PICK batch \in BatchesOf[runs[k].type] :
          LET saved == save_batch(batch, k) IN
          /\ stored' = saved.st
          /\ runs' = [runs EXCEPT ![k].ok = saved.ok, ![k].dup = saved.dup]
    BY DEF SaveBatch
  <1>3. batch \in Seq(Items)
    BY <1>1, <1>2, JobsAssumption DEF RunRow
  <1>4. stored \in [Items -> Nat] /\ StoredBy(stored, k) = {}
    <2>1. stored \in [Items -> 0..Len(runs)] /\ Len(runs) \in Nat
      BY DEF JobsSound, JobsTypeOK
    <2>2. stored \in [Items -> Nat]
      BY <2>1
    <2>3. StoredBy(stored, k) = {}
      BY DEF JobsSound, RowsCounted, SaveBatch
    <2> QED BY <2>2, <2>3
  <1> DEFINE saved == save_batch(batch, k)
  <1>5. saved \in Saving(k)
    BY <1>1, <1>3, <1>4, SaveBatchCounts
  <1> HIDE DEF saved
  <1>6. stored' = saved.st /\ runs' = [runs EXCEPT ![k].ok = saved.ok, ![k].dup = saved.dup]
    BY <1>2 DEF saved
  <1>7. runs' = [runs EXCEPT ![k] = [runs[k] EXCEPT !.ok = saved.ok, !.dup = saved.dup]]
    BY <1>6
  <1> QED BY <1>1, <1>5, <1>6, <1>7

\* Every step keeps the rows of runs, and stores items for runs that exist.
LEMMA RunsStep ==
    ASSUME JobsSound, [JobsNext]_jobsVars
    PROVE  RunRowsKept /\ stored' \in [Items -> 0..Len(runs')]
  <1> USE DEF JobsSound, JobsTypeOK
  <1>0. Len(runs) \in Nat
    OBVIOUS
  <1>1. CASE UNCHANGED <<runs, stored>>
    BY <1>1, <1>0 DEF RunRowsKept
  <1>2. ASSUME NEW r \in Runners, BeginRun(r)
        PROVE  RunRowsKept /\ stored' \in [Items -> 0..Len(runs')]
    <2> DEFINE t == Head(runner[r].todo)
               race == \E k \in DOMAIN runs : k > runner[r].seen /\ runs[k].type = t
               row == [type |-> t, status |-> "RUNNING", ok |-> 0, dup |-> 0, raced |-> race]
    <2>1. runs' = Append(runs, row)
      BY <1>2 DEF BeginRun
    <2>2. t \in IngestionTypes
      BY <1>2 DEF BeginRun, RunnerSound, Synced, IngestionTypes
    <2> HIDE DEF t, race
    <2>3. race \in BOOLEAN
      BY DEF race
    <2>4. row \in RunRow
      BY <2>2, <2>3 DEF RunRow
    <2> HIDE DEF row
    <2>5. /\ runs' \in Seq(RunRow) /\ Len(runs') = Len(runs) + 1
          /\ \A k \in 1..Len(runs) : runs'[k] = runs[k]
      BY <2>1, <2>4, AppendProperties
    <2>6. stored' = stored
      BY <1>2 DEF BeginRun
    <2>7. DOMAIN runs = 1..Len(runs)
      OBVIOUS
    <2>8. RunRowsKept
      BY <2>5, <2>7, <1>0 DEF RunRowsKept
    <2>9. stored' \in [Items -> 0..Len(runs')]
      BY <2>5, <2>6, <1>0
    <2> QED BY <2>8, <2>9
  <1>3. ASSUME NEW r \in Runners, SaveBatch(r)
        PROVE  RunRowsKept /\ stored' \in [Items -> 0..Len(runs')]
    <2> DEFINE k == runner[r].run
    <2>1. k \in DOMAIN runs /\ k \in 1..Len(runs) /\ runs[k] \in RunRow
      <3>1. k \in DOMAIN runs
        BY <1>3, Saved
      <3> HIDE DEF k
      <3> QED BY <3>1
    <2>2. PICK saved \in Saving(k) :
             /\ stored' = saved.st
             /\ runs' = [runs EXCEPT ![k] = [runs[k] EXCEPT !.ok = saved.ok,
                                                            !.dup = saved.dup]]
      BY <1>3, Saved
    <2> DEFINE row == [runs[k] EXCEPT !.ok = saved.ok, !.dup = saved.dup]
    <2>3. row \in RunRow /\ row.type = runs[k].type /\ row.raced = runs[k].raced
            /\ row.status = runs[k].status
      BY <2>1, <2>2 DEF RunRow, Saving
    <2>4. runs' = [runs EXCEPT ![k] = row]
      BY <2>2
    <2>5. saved.st \in [Items -> 0..Len(runs)]
      <3>1. /\ saved.st \in [Items -> Nat]
            /\ \A i \in Items : saved.st[i] = stored[i] \/ saved.st[i] = k
        BY <2>2 DEF Saving
      <3>2. \A i \in Items : saved.st[i] \in 0..Len(runs)
        <4>1. \A i \in Items : stored[i] \in 0..Len(runs)
          OBVIOUS
        <4>2. k \in 0..Len(runs)
          <5> HIDE DEF k
          <5> QED BY <2>1, <1>0
        <4> HIDE DEF k
        <4> QED BY <3>1, <4>1, <4>2
      <3> QED BY <3>1, <3>2
    <2> HIDE DEF row, k
    <2>6. RunRowsKept /\ Len(runs') = Len(runs)
      BY <2>1, <2>3, <2>4, RunWritten
    <2> QED BY <2>2, <2>5, <2>6
  <1>4. ASSUME NEW r \in Runners, EndRun(r) \/ FailRun(r)
        PROVE  RunRowsKept /\ stored' \in [Items -> 0..Len(runs')]
    <2> DEFINE k == runner[r].run
    <2>1. /\ k \in DOMAIN runs /\ runs[k] \in RunRow /\ runs[k].status = "RUNNING"
      BY <1>4 DEF EndRun, FailRun, RunnerSound
    <2>2. PICK status \in Closing : runs' = [runs EXCEPT ![k].status = status]
      BY <1>4 DEF EndRun, FailRun, Closing
    <2>3. runner'[r].run = 0
      <3>1. NextTodo(r)
        BY <1>4 DEF EndRun, FailRun, AfterFailure
      <3> QED BY <3>1, <1>0 DEF NextTodo, Runner
    <2> DEFINE row == [runs[k] EXCEPT !.status = status]
    <2>4. runs' = [runs EXCEPT ![k] = row]
      BY <2>2
    <2>5. /\ row \in RunRow /\ row.type = runs[k].type /\ row.raced = runs[k].raced
          /\ row.status \in Closing
      <3> HIDE DEF k
      <3> QED BY <2>1, <2>2 DEF RunRow
    <2>6. k = runner[r].run
      OBVIOUS
    <2> HIDE DEF row, k
    <2>7. RunRowsKept /\ Len(runs') = Len(runs)
      BY <2>1, <2>3, <2>4, <2>5, <2>6, RunWritten
    <2>8. stored' = stored
      BY <1>4 DEF EndRun, FailRun
    <2> QED BY <2>7, <2>8
  <1> QED BY <1>1, <1>2, <1>3, <1>4, RunKinds

----------------------------------------------------------------------------
(* Runners.                                                                *)

\* A step is of one runner, or of none.
LEMMA RunnerKinds ==
    ASSUME runner \in [Runners -> Runner], [JobsNext]_jobsVars
    PROVE  \/ UNCHANGED runner
           \/ \E r \in Runners : /\ RunnerStep(r) \/ Kill(r)
                                 /\ \A q \in Runners \ {r} : runner'[q] = runner[q]
  <1>1. ASSUME NEW r \in Runners, RunnerStep(r) \/ Kill(r)
        PROVE  \A q \in Runners \ {r} : runner'[q] = runner[q]
    BY <1>1 DEF RunnerStep, Pick, RunOne, MarkRunning, Finish, OtherWork, ReadBack, Close,
                CheckActive, BeginRun,
                SaveBatch, EndRun, FailRun, AfterFailure, NextTodo, Kill
  <1>2. UNCHANGED runner \/ \E r \in Runners : RunnerStep(r) \/ Kill(r)
    BY DEF JobsNext, JobsStep, Quiet, jobsVars, Ask, Enqueue
  <1> QED BY <1>1, <1>2

\* A runner that does not step stays sound: its run is not closed by another.
LEMMA OtherRunnerSound ==
    ASSUME JobsSound, JobRowsKept, RunRowsKept, NEW q \in Runners, runner'[q] = runner[q]
    PROVE  RunnerSound(q)'
  <1> USE DEF JobsSound, JobsTypeOK
  <1> DEFINE k == runner[q].run
  <1>1. runner[q].seen \in Nat /\ Len(runs) \in Nat /\ Len(runs') \in Nat
    BY DEF Runner, RunRowsKept
  <1>2. runner'[q].seen <= Len(runs')
    BY <1>1 DEF RunnerSound, RunRowsKept
  <1>3. runner'[q].step # "idle" => runner'[q].job \in DOMAIN jobs'
    BY DEF RunnerSound, JobRowsKept
  <1>4. CASE runner[q].step \in {"fetching", "saved"}
    <2>1. k \in DOMAIN runs /\ runs[k].status = "RUNNING" /\ k # 0
      BY <1>4 DEF RunnerSound
    <2>2. runs'[k].status = "RUNNING"
      BY <2>1 DEF RunRowsKept, RunnersApart
    <2>3. k \in DOMAIN runs'
      BY <2>1 DEF RunRowsKept
    <2> QED BY <1>2, <1>3, <1>4, <2>2, <2>3 DEF RunnerSound
  <1>5. CASE runner[q].step \notin {"fetching", "saved"}
    BY <1>2, <1>3, <1>5 DEF RunnerSound
  <1> QED BY <1>4, <1>5

\* The runner that steps stays sound.
LEMMA SteppingRunnerSound ==
    ASSUME JobsSound, JobRowsKept, RunRowsKept, runner' \in [Runners -> Runner],
           NEW r \in Runners, RunnerStep(r) \/ Kill(r)
    PROVE  /\ RunnerSound(r)'
           /\ runner'[r].run \in {0, runner[r].run} \/ runner'[r].run = Len(runs) + 1
  <1> USE DEF JobsSound, JobsTypeOK
  <1>0. /\ runner[r].seen \in Nat /\ Len(runs) \in Nat /\ Len(runs') \in Nat
        /\ runner[r].seen <= Len(runs') /\ Len(runs) <= Len(runs')
    BY DEF Runner, RunRowsKept, RunnerSound
  <1>1. runner[r].step # "idle" => runner[r].job \in DOMAIN jobs'
    BY DEF RunnerSound, JobRowsKept
  <1>2. ASSUME runner'[r] = IdleRunner
        PROVE  RunnerSound(r)' /\ runner'[r].run = 0
    BY <1>0, <1>2 DEF RunnerSound, IdleRunner
  <1>3. ASSUME NextTodo(r), runner[r].step # "idle"
        PROVE  RunnerSound(r)' /\ runner'[r].run = 0
    BY <1>0, <1>1, <1>3 DEF NextTodo, RunnerSound
  <1>4. CASE Pick(r)
    <2>1. PICK j \in DOMAIN jobs : runner' = [runner EXCEPT ![r] =
            [IdleRunner EXCEPT !.step = "picked", !.job = j]]
      BY <1>4 DEF Pick, Queued
    <2> QED BY <2>1, <1>0, <1>4 DEF RunnerSound, IdleRunner, Pick
  <1>5. CASE RunOne(r)
    <2> DEFINE was == jobs[runner[r].job].status
    <2>1. \/ runner' = [runner EXCEPT ![r] = IdleRunner]
          \/ runner' = [runner EXCEPT ![r] = [@ EXCEPT !.step = "selected", !.was = was]]
      BY <1>5 DEF RunOne
    <2> HIDE DEF was
    <2>2. \/ runner'[r] = IdleRunner
          \/ /\ runner'[r].step = "selected" /\ runner'[r].job = runner[r].job
             /\ runner'[r].run = runner[r].run /\ runner'[r].seen = runner[r].seen
      BY <2>1 DEF Runner
    <2> QED BY <2>2, <1>0, <1>1, <1>2, <1>5 DEF RunnerSound, RunOne
  <1>13. CASE MarkRunning(r)
    <2> DEFINE todo == TodoOf(jobs[runner[r].job].type)
               j == runner[r].job
    <2>1. runner' = [runner EXCEPT ![r] = [IdleRunner EXCEPT !.step = "working", !.job = j,
                                                             !.todo = todo]]
      BY <1>13 DEF MarkRunning
    <2> HIDE DEF todo, j
    <2>2. /\ runner'[r].step = "working" /\ runner'[r].job = j
          /\ runner'[r].run = 0 /\ runner'[r].seen = 0
      BY <2>1 DEF IdleRunner
    <2> QED BY <2>2, <1>0, <1>1, <1>13 DEF RunnerSound, MarkRunning, j
  <1>14. CASE Close(r)
    BY <1>2, <1>14 DEF Close
  <1>15. ASSUME NEW status, ReadBack(r, status), runner[r].step = "working"
         PROVE  RunnerSound(r)' /\ runner'[r].run = runner[r].run
    <2> DEFINE was == jobs[runner[r].job].status
    <2>1. runner' = [runner EXCEPT ![r] = [@ EXCEPT !.step = "closing", !.todo = <<>>,
                                                    !.was = was, !.end = status]]
      BY <1>15 DEF ReadBack
    <2> HIDE DEF was
    <2>2. /\ runner'[r].step = "closing" /\ runner'[r].job = runner[r].job
          /\ runner'[r].run = runner[r].run /\ runner'[r].seen = runner[r].seen
      BY <2>1 DEF Runner
    <2> QED BY <2>2, <1>0, <1>1, <1>15 DEF RunnerSound
  <1>6. CASE Finish(r)
    BY <1>15, <1>6 DEF Finish
  <1>7. ASSUME NEW fails \in BOOLEAN, OtherWork(r, fails)
        PROVE  /\ RunnerSound(r)'
               /\ runner'[r].run \in {0, runner[r].run}
    <2>1. CASE fails
      BY <1>7, <1>15, <2>1 DEF OtherWork
    <2>2. CASE ~fails
      <3>1. runner' = [runner EXCEPT ![r].todo = Tail(@)] /\ runner[r].step = "working"
        BY <1>7, <2>2 DEF OtherWork
      <3>2. /\ runner'[r].step = "working" /\ runner'[r].job = runner[r].job
            /\ runner'[r].run = runner[r].run /\ runner'[r].seen = runner[r].seen
        BY <3>1 DEF Runner
      <3> QED BY <3>1, <3>2, <1>0, <1>1 DEF RunnerSound
    <2> QED BY <2>1, <2>2
  <1>8. CASE CheckActive(r)
    <2>1. \/ NextTodo(r)
          \/ /\ runner'[r].step = "checked" /\ runner'[r].job = runner[r].job
             /\ runner'[r].todo = runner[r].todo
             /\ runner'[r].run = runner[r].run /\ runner'[r].seen = Len(runs)
      <3> DEFINE n == Len(runs)
      <3>1. \/ NextTodo(r)
            \/ runner' = [runner EXCEPT ![r].step = "checked", ![r].seen = n]
        BY <1>8 DEF CheckActive
      <3> HIDE DEF n
      <3>2. CASE runner' = [runner EXCEPT ![r].step = "checked", ![r].seen = n]
        <4>1. /\ runner'[r].step = "checked" /\ runner'[r].job = runner[r].job
              /\ runner'[r].todo = runner[r].todo
              /\ runner'[r].run = runner[r].run /\ runner'[r].seen = n
          BY <3>2 DEF Runner
        <4> QED BY <4>1 DEF n
      <3> QED BY <3>1, <3>2
    <2> QED BY <2>1, <1>0, <1>1, <1>3, <1>8 DEF RunnerSound, CheckActive
  <1>9. CASE BeginRun(r)
    <2> DEFINE row == [type |-> Head(runner[r].todo), status |-> "RUNNING", ok |-> 0,
                       dup |-> 0,
                       raced |-> \E k \in DOMAIN runs :
                         k > runner[r].seen /\ runs[k].type = Head(runner[r].todo)]
               n == Len(runs) + 1
    <2>1. runs' = Append(runs, row)
      BY <1>9 DEF BeginRun
    <2>2. row.status = "RUNNING"
      OBVIOUS
    <2> HIDE DEF row
    <2>3. n \in DOMAIN runs' /\ runs'[n] = row
      BY <2>1
    <2>4. /\ runner'[r].step = "fetching" /\ runner'[r].job = runner[r].job
          /\ runner'[r].todo = runner[r].todo
          /\ runner'[r].run = n /\ runner'[r].seen = runner[r].seen
      BY <1>9 DEF BeginRun
    <2> HIDE DEF n
    <2>5. RunnerSound(r)'
      BY <2>2, <2>3, <2>4, <1>0, <1>1, <1>9 DEF RunnerSound, BeginRun
    <2> QED BY <2>4, <2>5 DEF n
  <1>10. CASE SaveBatch(r)
    <2> DEFINE k == runner[r].run
    <2>1. k \in DOMAIN runs /\ runs[k].status = "RUNNING"
      BY <1>10 DEF SaveBatch, RunnerSound
    <2>2. /\ runner'[r].step = "saved" /\ runner'[r].job = runner[r].job
          /\ runner'[r].todo = runner[r].todo
          /\ runner'[r].run = k /\ runner'[r].seen = runner[r].seen
      BY <1>10 DEF SaveBatch
    <2>3. k \in DOMAIN runs' /\ runs'[k].status = "RUNNING"
      <3>1. runner' = [runner EXCEPT ![r].step = "saved"]
        BY <1>10 DEF SaveBatch
      <3>2. \A q \in Runners : runner'[q].run = runner[q].run
        BY <3>1 DEF Runner
      <3>3. \A q \in Runners : runner[q].run = k => runner'[q].run # 0
        <4>1. k # 0
          <5> HIDE DEF k
          <5> QED BY <2>1
        <4> QED BY <3>2, <4>1
      <3> HIDE DEF k
      <3>4. k \in DOMAIN runs'
        BY <2>1, <1>0
      <3>5. \/ runs'[k].status = runs[k].status
            \/ \E q \in Runners : runner[q].run = k /\ runner'[q].run = 0
        BY <2>1 DEF RunRowsKept
      <3> QED BY <2>1, <3>3, <3>4, <3>5
    <2> QED BY <2>2, <2>3, <1>0, <1>1, <1>10 DEF RunnerSound, SaveBatch
  <1>11. CASE EndRun(r) \/ FailRun(r)
    BY <1>3, <1>11 DEF EndRun, FailRun, AfterFailure
  <1>12. CASE Kill(r)
    BY <1>2, <1>12 DEF Kill
  <1> QED
    BY <1>4, <1>5, <1>6, <1>7, <1>8, <1>9, <1>10, <1>11, <1>12, <1>13, <1>14 DEF RunnerStep

\* Every step leaves each runner with a job and a run of its own.
LEMMA RunnersStep ==
    ASSUME JobsSound, [JobsNext]_jobsVars
    PROVE  (\A r \in Runners : RunnerSound(r)') /\ RunnersApart'
  <1>1. JobRowsKept /\ RunRowsKept /\ runner' \in [Runners -> Runner]
    BY RowsStep, RunsStep
  <1>2. runner \in [Runners -> Runner] /\ Len(runs) \in Nat
    BY DEF JobsSound, JobsTypeOK
  <1>3. \A q \in Runners : runner[q].run # Len(runs) + 1
    BY <1>2 DEF JobsSound, RunnerSound, JobsTypeOK
  <1>4. CASE UNCHANGED runner
    BY <1>1, <1>4, OtherRunnerSound DEF JobsSound, RunnersApart
  <1>5. ASSUME NEW r \in Runners, RunnerStep(r) \/ Kill(r),
               \A q \in Runners \ {r} : runner'[q] = runner[q]
        PROVE  (\A q \in Runners : RunnerSound(q)') /\ RunnersApart'
    <2>1. \A q \in Runners \ {r} : RunnerSound(q)'
      BY <1>1, <1>5, OtherRunnerSound
    <2>2. /\ RunnerSound(r)'
          /\ runner'[r].run \in {0, runner[r].run} \/ runner'[r].run = Len(runs) + 1
      BY <1>1, <1>5, SteppingRunnerSound
    <2>3. RunnersApart'
      BY <1>3, <1>5, <2>2 DEF JobsSound, RunnersApart
    <2> QED BY <2>1, <2>2, <2>3
  <1> QED BY <1>2, <1>4, <1>5, RunnerKinds

----------------------------------------------------------------------------
(* What the runs have stored.                                              *)

\* The actions that make a runner fetch, and have looked.
LEMMA NextStep ==
    ASSUME runner \in [Runners -> Runner], NEW r \in Runners, RunnerStep(r) \/ Kill(r)
    PROVE  /\ runner'[r].step = "fetching" => BeginRun(r)
           /\ runner'[r].step = "checked" => CheckActive(r) /\ ~NextTodo(r)
  <1>1. ASSUME runner'[r] = IdleRunner
        PROVE  runner'[r].step \notin {"fetching", "checked"}
    BY <1>1 DEF IdleRunner
  <1>2. ASSUME NextTodo(r)
        PROVE  runner'[r].step \notin {"fetching", "checked"}
    BY <1>2 DEF NextTodo, Runner
  <1>3. CASE Pick(r)
    <2>1. PICK j \in DOMAIN jobs : runner' = [runner EXCEPT ![r] =
            [IdleRunner EXCEPT !.step = "picked", !.job = j]]
      BY <1>3 DEF Pick, Queued
    <2> QED BY <2>1 DEF IdleRunner
  <1>4. CASE RunOne(r)
    <2> DEFINE was == jobs[runner[r].job].status
    <2>1. \/ runner' = [runner EXCEPT ![r] = IdleRunner]
          \/ runner' = [runner EXCEPT ![r] = [@ EXCEPT !.step = "selected", !.was = was]]
      BY <1>4 DEF RunOne
    <2> HIDE DEF was
    <2>2. runner'[r] = IdleRunner \/ runner'[r].step = "selected"
      BY <2>1 DEF Runner
    <2> QED BY <1>1, <2>2
  <1>12. CASE MarkRunning(r)
    <2> DEFINE todo == TodoOf(jobs[runner[r].job].type)
               j == runner[r].job
    <2>1. runner' = [runner EXCEPT ![r] = [IdleRunner EXCEPT !.step = "working", !.job = j,
                                                             !.todo = todo]]
      BY <1>12 DEF MarkRunning
    <2> HIDE DEF todo, j
    <2> QED BY <2>1 DEF IdleRunner
  <1>13. CASE Close(r)
    BY <1>1, <1>13 DEF Close
  <1>14. ASSUME NEW status, ReadBack(r, status)
         PROVE  runner'[r].step \notin {"fetching", "checked"}
    <2> DEFINE was == jobs[runner[r].job].status
    <2>1. runner' = [runner EXCEPT ![r] = [@ EXCEPT !.step = "closing", !.todo = <<>>,
                                                    !.was = was, !.end = status]]
      BY <1>14 DEF ReadBack
    <2> HIDE DEF was
    <2> QED BY <2>1 DEF Runner
  <1>5. CASE Finish(r)
    BY <1>14, <1>5 DEF Finish
  <1>6. ASSUME NEW fails \in BOOLEAN, OtherWork(r, fails)
        PROVE  runner'[r].step \notin {"fetching", "checked"}
    <2>1. CASE fails
      BY <1>14, <1>6, <2>1 DEF OtherWork
    <2>2. CASE ~fails
      <3>1. runner' = [runner EXCEPT ![r].todo = Tail(@)] /\ runner[r].step = "working"
        BY <1>6, <2>2 DEF OtherWork
      <3> QED BY <3>1 DEF Runner
    <2> QED BY <2>1, <2>2
  <1>7. CASE CheckActive(r)
    <2> DEFINE n == Len(runs)
    <2>1. \/ NextTodo(r)
          \/ runner' = [runner EXCEPT ![r].step = "checked", ![r].seen = n]
      BY <1>7 DEF CheckActive
    <2> HIDE DEF n
    <2>2. runner' = [runner EXCEPT ![r].step = "checked", ![r].seen = n]
            => runner'[r].step = "checked"
      BY DEF Runner
    <2> QED BY <2>1, <2>2, <1>2, <1>7
  <1>8. CASE BeginRun(r)
    <2> DEFINE n == Len(runs) + 1
    <2>1. runner' = [runner EXCEPT ![r].step = "fetching", ![r].run = n]
      BY <1>8 DEF BeginRun
    <2> HIDE DEF n
    <2>2. runner'[r].step = "fetching"
      BY <2>1 DEF Runner
    <2> QED BY <1>8, <2>2
  <1>9. CASE SaveBatch(r)
    BY <1>9 DEF SaveBatch, Runner
  <1>10. CASE EndRun(r) \/ FailRun(r)
    BY <1>2, <1>10 DEF EndRun, FailRun, AfterFailure
  <1>11. CASE Kill(r)
    BY <1>1, <1>11 DEF Kill
  <1> QED
    BY <1>3, <1>4, <1>5, <1>6, <1>7, <1>8, <1>9, <1>10, <1>11, <1>12, <1>13 DEF RunnerStep

\* A runner that fetches has begun its run in this step, or did so before.
LEMMA FetchingKind ==
    ASSUME runner \in [Runners -> Runner], [JobsNext]_jobsVars,
           NEW q \in Runners, runner'[q].step = "fetching"
    PROVE  runner'[q] = runner[q] \/ BeginRun(q)
  <1>1. CASE UNCHANGED runner
    BY <1>1
  <1>2. ASSUME RunnerStep(q) \/ Kill(q)
        PROVE  BeginRun(q)
    BY <1>2, NextStep
  <1> QED BY <1>1, <1>2, RunnerKinds

\* A run begins with no rows, stores only free items, and its count is theirs.
LEMMA RowsCountedStep == ASSUME JobsSound, [JobsNext]_jobsVars PROVE RowsCounted'
  <1>0. /\ runner \in [Runners -> Runner] /\ runs \in Seq(RunRow) /\ Len(runs) \in Nat
        /\ DOMAIN runs = 1..Len(runs) /\ stored \in [Items -> 0..Len(runs)]
    BY DEF JobsSound, JobsTypeOK
  <1>1. CASE UNCHANGED <<runs, stored>>
    <2>1. \A q \in Runners : runner'[q].step = "fetching" => runner'[q] = runner[q]
      <3>1. \A q \in Runners : ~BeginRun(q)
        <4>1. \A row : Len(Append(runs, row)) = Len(runs) + 1
          BY <1>0
        <4>2. Len(runs') = Len(runs)
          BY <1>1
        <4> QED BY <4>1, <4>2, <1>0 DEF BeginRun
      <3> QED BY <3>1, <1>0, FetchingKind
    <2> QED BY <2>1, <1>1 DEF JobsSound, RowsCounted
  <1>2. ASSUME NEW r \in Runners, BeginRun(r)
        PROVE  RowsCounted'
    <2> DEFINE row == [type |-> Head(runner[r].todo), status |-> "RUNNING", ok |-> 0,
                       dup |-> 0,
                       raced |-> \E k \in DOMAIN runs :
                         k > runner[r].seen /\ runs[k].type = Head(runner[r].todo)]
               n == Len(runs) + 1
    <2>1. runs' = Append(runs, row) /\ row.ok = 0 /\ stored' = stored
      BY <1>2 DEF BeginRun
    <2> HIDE DEF row
    <2>2. DOMAIN runs' = 1..n /\ runs'[n] = row /\ \A k \in DOMAIN runs : runs'[k] = runs[k]
      BY <2>1, <1>0
    <2>3. StoredBy(stored, n) = {}
      BY <1>0 DEF StoredBy
    <2>4. IsFiniteSet({}) /\ Cardinality({}) = 0
      BY FS_EmptySet
    <2>5. \A k \in DOMAIN runs' : /\ IsFiniteSet(StoredBy(stored', k))
                                  /\ runs'[k].ok = Cardinality(StoredBy(stored', k))
      <3>1. \A k \in DOMAIN runs' : k \in DOMAIN runs \/ k = n
        BY <2>2, <1>0
      <3> HIDE DEF n
      <3> QED BY <3>1, <2>1, <2>2, <2>3, <2>4 DEF JobsSound, RowsCounted
    <2>6. \A q \in Runners : runner'[q].step = "fetching" =>
            StoredBy(stored', runner'[q].run) = {}
      <3>1. \A q \in Runners : BeginRun(q) => runner'[q].run = n
        BY <1>0 DEF BeginRun, Runner
      <3> HIDE DEF n
      <3> QED BY <3>1, <2>1, <2>3, <1>0, FetchingKind DEF JobsSound, RowsCounted
    <2> QED BY <2>5, <2>6 DEF RowsCounted
  <1>3. ASSUME NEW r \in Runners, SaveBatch(r)
        PROVE  RowsCounted'
    <2> DEFINE k == runner[r].run
    <2>1. k \in DOMAIN runs /\ k # 0 /\ runs[k] \in RunRow
      <3>1. k \in DOMAIN runs
        BY <1>3, Saved
      <3> HIDE DEF k
      <3> QED BY <3>1, <1>0
    <2>2. PICK saved \in Saving(k) :
             /\ stored' = saved.st
             /\ runs' = [runs EXCEPT ![k] = [runs[k] EXCEPT !.ok = saved.ok,
                                                            !.dup = saved.dup]]
      BY <1>3, Saved
    <2>3. /\ DOMAIN runs' = DOMAIN runs /\ \A m \in DOMAIN runs \ {k} : runs'[m] = runs[m]
          /\ runs'[k].ok = saved.ok
      <3> HIDE DEF k
      <3> QED BY <2>1, <2>2, <1>0 DEF RunRow
    <2>4. \A m \in DOMAIN runs \ {k} : StoredBy(stored', m) = StoredBy(stored, m)
      <3>1. \A i \in Items : saved.st[i] = stored[i] \/ (stored[i] = 0 /\ saved.st[i] = k)
        BY <2>2 DEF Saving
      <3>2. \A m \in DOMAIN runs : m # 0
        BY <1>0
      <3> HIDE DEF k
      <3> QED BY <3>1, <3>2, <2>2 DEF StoredBy
    <2>5. IsFiniteSet(StoredBy(stored', k)) /\ saved.ok = Cardinality(StoredBy(stored', k))
      BY <2>2 DEF Saving
    <2>6. \A m \in DOMAIN runs' : /\ IsFiniteSet(StoredBy(stored', m))
                                  /\ runs'[m].ok = Cardinality(StoredBy(stored', m))
      <3> HIDE DEF k
      <3> QED BY <2>3, <2>4, <2>5 DEF JobsSound, RowsCounted
    <2>7. ASSUME NEW q \in Runners, runner'[q].step = "fetching"
          PROVE  StoredBy(stored', runner'[q].run) = {}
      <3>1. ~BeginRun(q)
        <4>1. \A row : Len(Append(runs, row)) = Len(runs) + 1
          BY <1>0
        <4>2. Len(runs') = Len(runs)
          BY <2>2, <1>0
        <4> QED BY <4>1, <4>2, <1>0 DEF BeginRun
      <3>2. runner'[q] = runner[q] /\ q # r
        BY <3>1, <2>7, <1>0, <1>3, FetchingKind DEF SaveBatch, Runner
      <3>3. runner[q].run \in DOMAIN runs \ {k}
        BY <3>2, <2>1, <2>7 DEF JobsSound, RunnersApart, RunnerSound
      <3> QED BY <3>2, <3>3, <2>4, <2>7 DEF JobsSound, RowsCounted
    <2> QED BY <2>6, <2>7 DEF RowsCounted
  <1>4. ASSUME NEW r \in Runners, EndRun(r) \/ FailRun(r)
        PROVE  RowsCounted'
    <2> DEFINE k == runner[r].run
    <2>1. k \in DOMAIN runs
      BY <1>4 DEF JobsSound, RunnerSound, EndRun, FailRun
    <2>2. PICK status \in Closing : runs' = [runs EXCEPT ![k].status = status]
      BY <1>4 DEF EndRun, FailRun, Closing
    <2>3. stored' = stored /\ DOMAIN runs' = DOMAIN runs
            /\ \A m \in DOMAIN runs : runs'[m].ok = runs[m].ok
      <3>1. stored' = stored
        BY <1>4 DEF EndRun, FailRun
      <3> HIDE DEF k
      <3> QED BY <3>1, <2>1, <2>2, <1>0 DEF RunRow
    <2>4. \A q \in Runners : runner'[q].step = "fetching" => runner'[q] = runner[q]
      <3>1. \A row : Len(Append(runs, row)) = Len(runs) + 1
        BY <1>0
      <3>2. Len(runs') = Len(runs)
        BY <2>2, <1>0
      <3>3. \A q \in Runners : ~BeginRun(q)
        BY <3>1, <3>2, <1>0 DEF BeginRun
      <3> QED BY <3>3, <1>0, FetchingKind
    <2> QED BY <2>3, <2>4 DEF JobsSound, RowsCounted
  <1> QED BY <1>1, <1>2, <1>3, <1>4, RunKinds

----------------------------------------------------------------------------
(* One of a kind.                                                          *)

\* A run that is there after a step and was not before is begun by a runner.
LEMMA RunBegins ==
    ASSUME JobsSound, [JobsNext]_jobsVars, NEW m \in DOMAIN runs', m \notin DOMAIN runs
    PROVE  \E r \in Runners : BeginRun(r)
  <1>0. runs \in Seq(RunRow)
    BY DEF JobsSound, JobsTypeOK
  <1>1. ASSUME NEW r \in Runners, SaveBatch(r) \/ EndRun(r) \/ FailRun(r)
        PROVE  DOMAIN runs' = DOMAIN runs
    BY <1>0, <1>1 DEF SaveBatch, EndRun, FailRun
  <1> QED BY <1>1, RunKinds

\* A runner that has checked has looked in this step, or did so before.
LEMMA CheckedKind ==
    ASSUME runner \in [Runners -> Runner], [JobsNext]_jobsVars,
           NEW q \in Runners, runner'[q].step = "checked"
    PROVE  \/ runner'[q] = runner[q]
           \/ /\ NoneActive(Head(runner[q].todo)) /\ runs' = runs
              /\ runner'[q].todo = runner[q].todo
  <1>1. CASE UNCHANGED runner
    BY <1>1
  <1>2. ASSUME RunnerStep(q) \/ Kill(q)
        PROVE  CheckActive(q) /\ ~NextTodo(q)
    BY <1>2, NextStep
  <1>3. ASSUME CheckActive(q) /\ ~NextTodo(q)
        PROVE  /\ NoneActive(Head(runner[q].todo)) /\ runs' = runs
               /\ runner'[q].todo = runner[q].todo
    <2> DEFINE n == Len(runs)
    <2>1. /\ NoneActive(Head(runner[q].todo)) /\ runs' = runs
          /\ runner' = [runner EXCEPT ![q].step = "checked", ![q].seen = n]
      BY <1>3 DEF CheckActive
    <2> HIDE DEF n
    <2> QED BY <2>1 DEF Runner
  <1> QED BY <1>1, <1>2, <1>3, RunnerKinds

\* A run that has ended does not come back, so what a runner saw stays so.
LEMMA LookedStep == ASSUME JobsSound, [JobsNext]_jobsVars PROVE Looked'
  <1>0. RunRowsKept /\ runner \in [Runners -> Runner] /\ runs \in Seq(RunRow)
    BY RunsStep DEF JobsSound, JobsTypeOK
  <1> SUFFICES ASSUME NEW q \in Runners, runner'[q].step = "checked",
                      NEW k \in DOMAIN runs', k <= runner'[q].seen,
                      runs'[k].type = Head(runner'[q].todo)
               PROVE  runs'[k].status # "RUNNING"
    BY DEF Looked
  <1>1. CASE runner'[q] = runner[q]
    <2>1. k \in DOMAIN runs
      <3>1. k \in Nat \ {0} /\ Len(runs) \in Nat /\ runner[q].seen \in Nat
        BY <1>0 DEF RunRowsKept, Runner
      <3>2. k <= Len(runs)
        BY <3>1, <1>1 DEF JobsSound, RunnerSound
      <3> QED BY <3>1, <3>2, <1>0
    <2> QED BY <2>1, <1>0, <1>1 DEF RunRowsKept, JobsSound, Looked, Closing
  <1>2. CASE /\ NoneActive(Head(runner[q].todo)) /\ runs' = runs
             /\ runner'[q].todo = runner[q].todo
    BY <1>2 DEF NoneActive, RunningOf
  <1> QED BY <1>0, <1>1, <1>2, CheckedKind

\* Who begins a run beside one that is RUNNING had looked before that one began.
LEMMA OverlapStep ==
    ASSUME JobsSound, [JobsNext]_jobsVars
    PROVE  RunsOverlapOnlyByRace'
  <1>0. /\ RunRowsKept /\ runner \in [Runners -> Runner] /\ runs \in Seq(RunRow)
        /\ Len(runs) \in Nat /\ DOMAIN runs = 1..Len(runs)
    BY RunsStep DEF JobsSound, JobsTypeOK
  <1> SUFFICES ASSUME NEW k \in DOMAIN runs', NEW m \in DOMAIN runs', k < m,
                      runs'[k].type = runs'[m].type, runs'[k].status = "RUNNING"
               PROVE  runs'[m].raced
    BY DEF RunsOverlapOnlyByRace
  <1>1. CASE m \in DOMAIN runs
    <2>1. k \in DOMAIN runs
      BY <1>0, <1>1 DEF RunRowsKept
    <2>2. runs[k].status = "RUNNING" /\ runs[k].type = runs[m].type
      BY <2>1, <1>0, <1>1 DEF RunRowsKept
    <2> QED BY <2>1, <2>2, <1>0, <1>1 DEF RunRowsKept, JobsSound, RunsOverlapOnlyByRace
  <1>2. CASE m \notin DOMAIN runs
    <2>1. PICK r \in Runners : BeginRun(r)
      BY <1>2, RunBegins
    <2> DEFINE t == Head(runner[r].todo)
               race == \E i \in DOMAIN runs : i > runner[r].seen /\ runs[i].type = t
               row == [type |-> t, status |-> "RUNNING", ok |-> 0, dup |-> 0, raced |-> race]
    <2>2. runs' = Append(runs, row) /\ row.type = t /\ row.raced = race
      BY <2>1 DEF BeginRun
    <2> HIDE DEF row
    <2>3. m = Len(runs) + 1 /\ runs'[m] = row
      BY <2>2, <1>0, <1>2
    <2>4. k \in DOMAIN runs /\ runs'[k] = runs[k]
      BY <2>2, <2>3, <1>0
    <2>5. runner[r].seen \in Nat /\ runner[r].step = "checked" /\ k \in Nat
      BY <2>1, <2>4, <1>0 DEF BeginRun, Runner
    <2>6. runs[k].type = t /\ runs[k].status = "RUNNING"
      BY <2>2, <2>3, <2>4
    <2>7. k > runner[r].seen
      BY <2>4, <2>5, <2>6 DEF JobsSound, Looked
    <2>8. race
      BY <2>4, <2>6, <2>7
    <2> QED BY <2>2, <2>3, <2>8
  <1> QED BY <1>1, <1>2

\* The unique key of a recommendation: a row of its type and date is there once.
LEMMA OneRecommendationStep ==
    ASSUME JobsSound, [JobsNext]_jobsVars
    PROVE  OneRecommendation'
  <1>0. JobRowsKept /\ jobs \in Seq(JobRow)
    BY RowsStep DEF JobsSound, JobsTypeOK
  <1>1. ASSUME NEW a \in Askers, Enqueue(a)
        PROVE  OneRecommendation'
    <2> DEFINE row == NewJob(asking[a])
    <2>1. row.type = asking[a]
      BY DEF NewJob
    <2>2. jobs' = jobs \/ (KeyFree(asking[a]) /\ jobs' = Append(jobs, row))
      BY <1>1 DEF Enqueue
    <2> HIDE DEF row
    <2>3. CASE jobs' = jobs
      BY <2>3 DEF JobsSound, OneRecommendation
    <2>4. CASE KeyFree(asking[a]) /\ jobs' = Append(jobs, row)
      <3> DEFINE n == Len(jobs) + 1
      <3>1. /\ DOMAIN jobs' = DOMAIN jobs \cup {n} /\ jobs'[n] = row
            /\ \A j \in DOMAIN jobs : jobs'[j] = jobs[j]
        BY <2>4, <1>0
      <3> HIDE DEF n
      <3>2. row.type \in Recommendations => \A j \in DOMAIN jobs : jobs[j].type # row.type
        BY <2>1, <2>4 DEF KeyFree, RowsOf
      <3> QED BY <3>1, <3>2 DEF JobsSound, OneRecommendation
    <2> QED BY <2>2, <2>3, <2>4
  <1>2. CASE \A a \in Askers : ~Enqueue(a)
    <2>1. DOMAIN jobs' = DOMAIN jobs
      BY <1>0, <1>2 DEF JobsNext, JobsStep, RunnerStep, Quiet, jobsVars, Ask, Pick, RunOne,
             MarkRunning, Finish, OtherWork, ReadBack, Close, CheckActive, BeginRun, SaveBatch, EndRun, FailRun,
             AfterFailure, Kill
    <2> QED BY <2>1, <1>0 DEF JobRowsKept, JobsSound, OneRecommendation
  <1> QED BY <1>1, <1>2

----------------------------------------------------------------------------
(* Jobs that fail.                                                         *)

\* The steps of a runner that may write the row of its job.
JobWritten(r) == MarkRunning(r) \/ Close(r) \/ Kill(r)

\* What a step does with the rows of jobs.
LEMMA JobsKinds ==
    ASSUME [JobsNext]_jobsVars
    PROVE  \/ \E a \in Askers : Enqueue(a)
           \/ \E r \in Runners : JobWritten(r)
           \/ jobs' = jobs
  <1>1. ASSUME NEW r \in Runners,
               Pick(r) \/ CheckActive(r) \/ BeginRun(r) \/ SaveBatch(r) \/ EndRun(r) \/ FailRun(r)
        PROVE  jobs' = jobs
    BY <1>1 DEF Pick, CheckActive, BeginRun, SaveBatch, EndRun, FailRun, AfterFailure
  <1>2. ASSUME NEW r \in Runners, RunOne(r) \/ Finish(r)
        PROVE  jobs' = jobs
    BY <1>2 DEF RunOne, Finish, ReadBack
  <1>3. ASSUME NEW r \in Runners, NEW fails \in BOOLEAN, OtherWork(r, fails)
        PROVE  jobs' = jobs
    BY <1>3 DEF OtherWork, ReadBack
  <1>4. ASSUME NEW a \in Askers, NEW t \in Enqueued, Ask(a, t)
        PROVE  jobs' = jobs
    BY <1>4 DEF Ask
  <1>5. ASSUME UNCHANGED jobsVars
        PROVE  jobs' = jobs
    BY <1>5 DEF jobsVars
  <1> QED
    BY <1>1, <1>2, <1>3, <1>4, <1>5 DEF JobsNext, JobsStep, RunnerStep, Quiet, JobWritten

\* A job is failed by a runner that closes it so.
LEMMA FailedKind ==
    ASSUME jobs \in Seq(JobRow), [JobsNext]_jobsVars, NEW j \in DOMAIN jobs',
           jobs'[j].status = "FAILED"
    PROVE  \/ j \in DOMAIN jobs /\ jobs[j].status = "FAILED"
           \/ \E r \in Runners : /\ runner[r].job = j /\ runner[r].step = "closing"
                                 /\ runner[r].end = "FAILED"
  <1>1. ASSUME NEW a \in Askers, Enqueue(a)
        PROVE  j \in DOMAIN jobs /\ jobs[j].status = "FAILED"
    <2> DEFINE row == NewJob(asking[a])
    <2>1. jobs' = jobs \/ jobs' = Append(jobs, row)
      BY <1>1 DEF Enqueue
    <2>2. row.status = "QUEUED"
      BY DEF NewJob
    <2> HIDE DEF row
    <2> QED BY <2>1, <2>2
  <1>2. ASSUME NEW r \in Runners, Close(r)
        PROVE  \/ j \in DOMAIN jobs /\ jobs[j].status = "FAILED"
               \/ /\ runner[r].job = j /\ runner[r].step = "closing"
                  /\ runner[r].end = "FAILED"
    <2> DEFINE who == ReadersOf(runner[r].job)
    <2>1. \/ jobs' = jobs
          \/ jobs' = RowSet(runner[r].job, runner[r].end, who)
      BY <1>2 DEF Close, RowSet
    <2>2. runner[r].step = "closing"
      BY <1>2 DEF Close
    <2> HIDE DEF who
    <2>3. j \in DOMAIN jobs
      BY <2>1 DEF RowSet
    <2> QED BY <2>1, <2>2, <2>3, JobSet
  <1>3. ASSUME NEW r \in Runners, MarkRunning(r)
        PROVE  j \in DOMAIN jobs /\ jobs[j].status = "FAILED"
    <2>1. \/ jobs' = jobs
          \/ jobs' = RowSet(runner[r].job, "RUNNING", {})
      BY <1>3 DEF MarkRunning, RowSet
    <2>2. j \in DOMAIN jobs
      BY <2>1 DEF RowSet
    <2> QED BY <2>1, <2>2, JobSet
  <1>4. ASSUME NEW r \in Runners, Kill(r)
        PROVE  j \in DOMAIN jobs /\ jobs[j].status = "FAILED"
    <2>1. j \in DOMAIN jobs
      BY <1>4 DEF Kill
    <2> QED BY <1>4, <2>1, JobKilled
  <1>5. ASSUME jobs' = jobs
        PROVE  j \in DOMAIN jobs /\ jobs[j].status = "FAILED"
    BY <1>5
  <1>6. (\E a \in Askers : Enqueue(a)) \/ (\E r \in Runners : JobWritten(r)) \/ jobs' = jobs
    BY JobsKinds
  <1> QED BY <1>1, <1>2, <1>3, <1>4, <1>5, <1>6 DEF JobWritten

\* What is left of a runner's job is what was left, or all but its first piece, or
\* the whole of it.
LEMMA TodoKind ==
    ASSUME runner \in [Runners -> Runner], [JobsNext]_jobsVars, NEW q \in Runners,
           runner'[q].step # "idle"
    PROVE  \/ runner'[q].todo = <<>>
           \/ /\ runner'[q].job = runner[q].job /\ runner[q].step # "idle"
              /\ \/ runner'[q].todo = runner[q].todo
                 \/ runner[q].todo # <<>> /\ runner'[q].todo = Tail(runner[q].todo)
                 \/ runner'[q].todo = TodoOf(jobs[runner[q].job].type)
  <1> DEFINE Kept == /\ runner'[q].job = runner[q].job /\ runner[q].step # "idle"
                     /\ \/ runner'[q].todo = runner[q].todo
                        \/ runner[q].todo # <<>> /\ runner'[q].todo = Tail(runner[q].todo)
                        \/ runner'[q].todo = TodoOf(jobs[runner[q].job].type)
  <1>1. CASE runner'[q] = runner[q]
    BY <1>1
  <1>2. ASSUME runner'[q] = IdleRunner
        PROVE  FALSE
    BY <1>2 DEF IdleRunner
  <1>3. ASSUME NextTodo(q), runner[q].todo # <<>>, runner[q].step # "idle"
        PROVE  Kept
    BY <1>3 DEF NextTodo, Runner
  <1>4. CASE Pick(q)
    <2>1. PICK j \in DOMAIN jobs : runner' = [runner EXCEPT ![q] =
            [IdleRunner EXCEPT !.step = "picked", !.job = j]]
      BY <1>4 DEF Pick, Queued
    <2> QED BY <2>1 DEF IdleRunner
  <1>5. CASE RunOne(q)
    <2> DEFINE was == jobs[runner[q].job].status
    <2>1. /\ \/ runner' = [runner EXCEPT ![q] = IdleRunner]
             \/ runner' = [runner EXCEPT ![q] = [@ EXCEPT !.step = "selected", !.was = was]]
          /\ runner[q].step # "idle"
      BY <1>5 DEF RunOne
    <2> HIDE DEF was
    <2>2. \/ runner'[q] = IdleRunner
          \/ runner'[q].job = runner[q].job /\ runner'[q].todo = runner[q].todo
      BY <2>1 DEF Runner
    <2> QED BY <1>2, <2>1, <2>2
  <1>14. CASE MarkRunning(q)
    <2> DEFINE todo == TodoOf(jobs[runner[q].job].type)
               j == runner[q].job
    <2>1. /\ runner' = [runner EXCEPT ![q] = [IdleRunner EXCEPT !.step = "working",
                                                !.job = j, !.todo = todo]]
          /\ runner[q].step # "idle"
      BY <1>14 DEF MarkRunning
    <2>2. runner'[q].job = j /\ runner'[q].todo = todo
      <3> HIDE DEF todo, j
      <3> QED BY <2>1 DEF IdleRunner
    <2> QED BY <2>1, <2>2
  <1>15. CASE Close(q)
    BY <1>2, <1>15 DEF Close
  <1>16. ASSUME NEW status, ReadBack(q, status)
         PROVE  runner'[q].todo = <<>>
    <2> DEFINE was == jobs[runner[q].job].status
    <2>1. runner' = [runner EXCEPT ![q] = [@ EXCEPT !.step = "closing", !.todo = <<>>,
                                                    !.was = was, !.end = status]]
      BY <1>16 DEF ReadBack
    <2> HIDE DEF was
    <2> QED BY <2>1 DEF Runner
  <1>6. CASE Finish(q)
    BY <1>16, <1>6 DEF Finish
  <1>7. ASSUME NEW fails \in BOOLEAN, OtherWork(q, fails)
        PROVE  Kept \/ runner'[q].todo = <<>>
    <2>1. CASE fails
      BY <1>16, <1>7, <2>1 DEF OtherWork
    <2>2. CASE ~fails
      <3>1. /\ runner' = [runner EXCEPT ![q].todo = Tail(@)] /\ runner[q].step = "working"
            /\ runner[q].todo # <<>>
        BY <1>7, <2>2 DEF OtherWork
      <3> QED BY <3>1 DEF Runner
    <2> QED BY <2>1, <2>2
  <1>8. CASE CheckActive(q)
    <2> DEFINE n == Len(runs)
    <2>1. /\ runner[q].todo # <<>> /\ runner[q].step # "idle"
          /\ \/ NextTodo(q)
             \/ runner' = [runner EXCEPT ![q].step = "checked", ![q].seen = n]
      BY <1>8 DEF CheckActive
    <2> HIDE DEF n
    <2>2. runner' = [runner EXCEPT ![q].step = "checked", ![q].seen = n]
            => runner'[q].job = runner[q].job /\ runner'[q].todo = runner[q].todo
      BY DEF Runner
    <2> QED BY <2>1, <2>2, <1>3
  <1>9. CASE BeginRun(q)
    <2> DEFINE n == Len(runs) + 1
    <2>1. /\ runner' = [runner EXCEPT ![q].step = "fetching", ![q].run = n]
          /\ runner[q].step # "idle"
      BY <1>9 DEF BeginRun
    <2> HIDE DEF n
    <2>2. runner'[q].job = runner[q].job /\ runner'[q].todo = runner[q].todo
      BY <2>1 DEF Runner
    <2> QED BY <2>1, <2>2
  <1>10. CASE SaveBatch(q)
    <2>1. runner' = [runner EXCEPT ![q].step = "saved"] /\ runner[q].step # "idle"
      BY <1>10 DEF SaveBatch
    <2>2. runner'[q].job = runner[q].job /\ runner'[q].todo = runner[q].todo
      BY <2>1 DEF Runner
    <2> QED BY <2>1, <2>2
  <1>11. CASE EndRun(q) \/ FailRun(q)
    <2>1. runner[q].step # "idle" /\ NextTodo(q)
      BY <1>11 DEF EndRun, FailRun, AfterFailure
    <2>2. runner'[q].job = runner[q].job /\ runner'[q].todo = Tail(runner[q].todo)
      BY <2>1 DEF NextTodo, Runner
    <2> QED BY <2>1, <2>2
  <1>12. CASE Kill(q)
    BY <1>2, <1>12 DEF Kill
  <1>13. runner'[q] = runner[q] \/ RunnerStep(q) \/ Kill(q)
    BY RunnerKinds
  <1> QED
    BY <1>1, <1>4, <1>5, <1>6, <1>7, <1>8, <1>9, <1>10, <1>11, <1>12, <1>13, <1>14, <1>15
       DEF RunnerStep

\* A runner that is to close its job as failed was so before, or a scan or a
\* backup of the job has just raised.
LEMMA EndKind ==
    ASSUME runner \in [Runners -> Runner], [JobsNext]_jobsVars, NEW q \in Runners,
           runner'[q].step = "closing", runner'[q].end = "FAILED"
    PROVE  \/ runner'[q] = runner[q]
           \/ /\ runner'[q].job = runner[q].job /\ runner[q].step = "working"
              /\ runner[q].todo # <<>> /\ Head(runner[q].todo) \in {"SCAN", "BACKUP"}
  <1>1. ASSUME NEW status, ReadBack(q, status)
        PROVE  runner'[q].job = runner[q].job /\ runner'[q].end = status
    <2> DEFINE was == jobs[runner[q].job].status
    <2>1. runner' = [runner EXCEPT ![q] = [@ EXCEPT !.step = "closing", !.todo = <<>>,
                                                    !.was = was, !.end = status]]
      BY <1>1 DEF ReadBack
    <2> HIDE DEF was
    <2> QED BY <2>1 DEF Runner
  <1>2. CASE Finish(q)
    BY <1>1, <1>2 DEF Finish
  <1>3. ASSUME NEW fails \in BOOLEAN, OtherWork(q, fails)
        PROVE  /\ runner'[q].job = runner[q].job /\ runner[q].step = "working"
               /\ runner[q].todo # <<>> /\ Head(runner[q].todo) \in {"SCAN", "BACKUP"}
    <2>1. runner'[q].job = runner[q].job
      <3>1. CASE fails
        BY <1>1, <1>3, <3>1 DEF OtherWork
      <3>2. CASE ~fails
        <4>1. runner' = [runner EXCEPT ![q].todo = Tail(@)]
          BY <1>3, <3>2 DEF OtherWork
        <4> QED BY <4>1 DEF Runner
      <3> QED BY <3>1, <3>2
    <2> QED BY <1>3, <2>1 DEF OtherWork
  <1>4. ASSUME runner'[q] = IdleRunner
        PROVE  FALSE
    BY <1>4 DEF IdleRunner
  <1>5. ASSUME NextTodo(q)
        PROVE  FALSE
    BY <1>5 DEF NextTodo, Runner
  <1>6. CASE Close(q) \/ Kill(q)
    BY <1>4, <1>6 DEF Close, Kill
  <1>7. CASE EndRun(q) \/ FailRun(q)
    BY <1>5, <1>7 DEF EndRun, FailRun, AfterFailure
  <1>8. CASE Pick(q)
    <2>1. PICK j \in DOMAIN jobs : runner' = [runner EXCEPT ![q] =
            [IdleRunner EXCEPT !.step = "picked", !.job = j]]
      BY <1>8 DEF Pick, Queued
    <2> QED BY <2>1 DEF IdleRunner
  <1>9. CASE RunOne(q)
    <2> DEFINE was == jobs[runner[q].job].status
    <2>1. \/ runner' = [runner EXCEPT ![q] = IdleRunner]
          \/ runner' = [runner EXCEPT ![q] = [@ EXCEPT !.step = "selected", !.was = was]]
      BY <1>9 DEF RunOne
    <2> HIDE DEF was
    <2>2. runner'[q] = IdleRunner \/ runner'[q].step = "selected"
      BY <2>1 DEF Runner
    <2> QED BY <1>4, <2>2
  <1>10. CASE MarkRunning(q)
    <2> DEFINE todo == TodoOf(jobs[runner[q].job].type)
               j == runner[q].job
    <2>1. runner' = [runner EXCEPT ![q] = [IdleRunner EXCEPT !.step = "working", !.job = j,
                                                             !.todo = todo]]
      BY <1>10 DEF MarkRunning
    <2> HIDE DEF todo, j
    <2> QED BY <2>1 DEF IdleRunner
  <1>11. CASE CheckActive(q)
    <2> DEFINE n == Len(runs)
    <2>1. NextTodo(q) \/ runner' = [runner EXCEPT ![q].step = "checked", ![q].seen = n]
      BY <1>11 DEF CheckActive
    <2> HIDE DEF n
    <2> QED BY <2>1, <1>5 DEF Runner
  <1>12. CASE BeginRun(q)
    <2> DEFINE n == Len(runs) + 1
    <2>1. runner' = [runner EXCEPT ![q].step = "fetching", ![q].run = n]
      BY <1>12 DEF BeginRun
    <2> HIDE DEF n
    <2> QED BY <2>1 DEF Runner
  <1>13. CASE SaveBatch(q)
    BY <1>13 DEF SaveBatch, Runner
  <1>14. runner'[q] = runner[q] \/ RunnerStep(q) \/ Kill(q)
    BY RunnerKinds
  <1> QED
    BY <1>2, <1>3, <1>6, <1>7, <1>8, <1>9, <1>10, <1>11, <1>12, <1>13, <1>14 DEF RunnerStep

\* A job that only syncs is not failed by what its syncs meet.
LEMMA OnlySyncsStep == ASSUME JobsSound, [JobsNext]_jobsVars PROVE OnlySyncs'
  <1>0. /\ JobRowsKept /\ runner \in [Runners -> Runner] /\ jobs \in Seq(JobRow)
        /\ runner' \in [Runners -> Runner]
    BY RowsStep DEF JobsSound, JobsTypeOK
  <1>1. ASSUME NEW r \in Runners, runner[r].step # "idle",
               jobs[runner[r].job].type \in IngestionTypes
        PROVE  \A n \in DOMAIN runner[r].todo : runner[r].todo[n] \in Synced
    BY <1>1 DEF JobsSound, OnlySyncs
  <1>2. ASSUME NEW j \in DOMAIN jobs', jobs'[j].status = "FAILED"
        PROVE  jobs'[j].type \notin IngestionTypes
    <2>1. CASE j \in DOMAIN jobs /\ jobs[j].status = "FAILED"
      BY <2>1, <1>0 DEF JobRowsKept, JobsSound, OnlySyncs, SyncFailureOnlyInRuns
    <2>2. ASSUME NEW r \in Runners, runner[r].job = j, runner[r].step = "closing",
                 runner[r].end = "FAILED"
          PROVE  jobs'[j].type \notin IngestionTypes
      BY <2>2, <1>0 DEF JobRowsKept, JobsSound, RunnerSound, OnlySyncs
    <2> QED BY <1>0, <1>2, <2>1, <2>2, FailedKind
  <1>3. ASSUME NEW q \in Runners, runner'[q].step # "idle",
               jobs'[runner'[q].job].type \in IngestionTypes
        PROVE  \A n \in DOMAIN runner'[q].todo : runner'[q].todo[n] \in Synced
    <2>1. CASE runner'[q].todo = <<>>
      BY <2>1
    <2>2. CASE runner'[q].job = runner[q].job /\ runner[q].step # "idle"
      <3>1. /\ runner[q].job \in DOMAIN jobs
            /\ jobs[runner[q].job].type \in IngestionTypes
        BY <1>0, <1>3, <2>2 DEF JobRowsKept, JobsSound, RunnerSound
      <3>2. runner[q].todo \in Seq(Work)
        BY <1>0 DEF Runner, Work
      <3>3. \A n \in DOMAIN runner[q].todo : runner[q].todo[n] \in Synced
        BY <1>1, <2>2, <3>1
      <3>4. CASE runner'[q].todo = runner[q].todo
        BY <3>3, <3>4
      <3>5. CASE runner[q].todo # <<>> /\ runner'[q].todo = Tail(runner[q].todo)
        <4> DEFINE todo == runner[q].todo
        <4>1. \A n \in DOMAIN Tail(todo) : n + 1 \in DOMAIN todo /\ Tail(todo)[n] = todo[n + 1]
          BY <3>2, <3>5
        <4> QED BY <4>1, <3>3, <3>5
      <3>6. CASE runner'[q].todo = TodoOf(jobs[runner[q].job].type)
        <4> DEFINE t == jobs[runner[q].job].type
        <4>1. t \notin Recommendations /\ t # "WATCHLIST_SCAN" /\ t # "SQLITE_BACKUP"
          BY <3>1 DEF IngestionTypes, Recommendations
        <4> HIDE DEF t
        <4>2. \A n \in DOMAIN TodoOf(t) : TodoOf(t)[n] \in Synced
          <5>1. TodoOf(t) = <<>> \/ (t \in Synced /\ TodoOf(t) = <<t>>)
            BY <4>1 DEF TodoOf
          <5> QED BY <5>1
        <4> QED BY <4>2, <3>6 DEF t
      <3> QED BY <1>0, <1>3, <2>2, <3>4, <3>5, <3>6, <2>1, TodoKind
    <2> QED BY <1>0, <1>3, <2>1, <2>2, TodoKind
  <1>4. ASSUME NEW q \in Runners, runner'[q].step = "closing", runner'[q].end = "FAILED"
        PROVE  jobs'[runner'[q].job].type \notin IngestionTypes
    <2>1. runner'[q].job = runner[q].job /\ runner[q].step # "idle"
      BY <1>0, <1>4, EndKind
    <2>2. runner[q].job \in DOMAIN jobs
      BY <2>1 DEF JobsSound, RunnerSound
    <2>3. jobs'[runner'[q].job].type = jobs[runner[q].job].type
      BY <1>0, <2>1, <2>2 DEF JobRowsKept
    <2>4. CASE runner'[q] = runner[q]
      BY <1>4, <2>1, <2>3, <2>4 DEF JobsSound, OnlySyncs
    <2>5. CASE runner[q].todo # <<>> /\ Head(runner[q].todo) \in {"SCAN", "BACKUP"}
      <3>1. runner[q].todo \in Seq(Work)
        BY <1>0 DEF Runner, Work
      <3>2. 1 \in DOMAIN runner[q].todo /\ runner[q].todo[1] \notin Synced
        BY <3>1, <2>5 DEF Synced
      <3> QED BY <1>1, <2>1, <2>3, <3>2
    <2> QED BY <1>0, <1>4, <2>4, <2>5, EndKind
  <1> QED BY <1>2, <1>3, <1>4 DEF OnlySyncs, SyncFailureOnlyInRuns

----------------------------------------------------------------------------
(* Jobs that are finished.                                                 *)

\* A runner that has selected its job has read its row in this step, while it was
\* open, or did so before.
LEMMA SelectedKind ==
    ASSUME runner \in [Runners -> Runner], [JobsNext]_jobsVars, NEW q \in Runners,
           runner'[q].step = "selected"
    PROVE  \/ runner'[q] = runner[q]
           \/ /\ MayRun(runner[q].job) /\ runner'[q].job = runner[q].job
              /\ jobs' = jobs
  <1>1. ASSUME NEW status, ReadBack(q, status)
        PROVE  FALSE
    <2> DEFINE was == jobs[runner[q].job].status
    <2>1. runner' = [runner EXCEPT ![q] = [@ EXCEPT !.step = "closing", !.todo = <<>>,
                                                    !.was = was, !.end = status]]
      BY <1>1 DEF ReadBack
    <2> HIDE DEF was
    <2> QED BY <2>1 DEF Runner
  <1>2. CASE Finish(q)
    BY <1>1, <1>2 DEF Finish
  <1>3. ASSUME NEW fails \in BOOLEAN, OtherWork(q, fails)
        PROVE  FALSE
    <2>1. CASE fails
      BY <1>1, <1>3, <2>1 DEF OtherWork
    <2>2. CASE ~fails
      <3>1. runner' = [runner EXCEPT ![q].todo = Tail(@)] /\ runner[q].step = "working"
        BY <1>3, <2>2 DEF OtherWork
      <3> QED BY <3>1 DEF Runner
    <2> QED BY <2>1, <2>2
  <1>4. ASSUME runner'[q] = IdleRunner
        PROVE  FALSE
    BY <1>4 DEF IdleRunner
  <1>5. ASSUME NextTodo(q)
        PROVE  FALSE
    BY <1>5 DEF NextTodo, Runner
  <1>6. CASE Close(q) \/ Kill(q)
    BY <1>4, <1>6 DEF Close, Kill
  <1>7. CASE EndRun(q) \/ FailRun(q)
    BY <1>5, <1>7 DEF EndRun, FailRun, AfterFailure
  <1>8. CASE Pick(q)
    <2>1. PICK j \in DOMAIN jobs : runner' = [runner EXCEPT ![q] =
            [IdleRunner EXCEPT !.step = "picked", !.job = j]]
      BY <1>8 DEF Pick, Queued
    <2> QED BY <2>1 DEF IdleRunner
  <1>9. CASE RunOne(q)
    <2> DEFINE was == jobs[runner[q].job].status
    <2>1. CASE MayRun(runner[q].job)
      <3>1. runner' = [runner EXCEPT ![q] = [@ EXCEPT !.step = "selected", !.was = was]] /\ jobs' = jobs
        BY <1>9, <2>1 DEF RunOne
      <3> HIDE DEF was
      <3> QED BY <2>1, <3>1 DEF Runner
    <2>2. CASE ~MayRun(runner[q].job)
      BY <1>4, <1>9, <2>2 DEF RunOne
    <2> QED BY <2>1, <2>2
  <1>10. CASE MarkRunning(q)
    <2> DEFINE todo == TodoOf(jobs[runner[q].job].type)
               j == runner[q].job
    <2>1. runner' = [runner EXCEPT ![q] = [IdleRunner EXCEPT !.step = "working", !.job = j,
                                                             !.todo = todo]]
      BY <1>10 DEF MarkRunning
    <2> HIDE DEF todo, j
    <2> QED BY <2>1 DEF IdleRunner
  <1>11. CASE CheckActive(q)
    <2> DEFINE n == Len(runs)
    <2>1. NextTodo(q) \/ runner' = [runner EXCEPT ![q].step = "checked", ![q].seen = n]
      BY <1>11 DEF CheckActive
    <2> HIDE DEF n
    <2> QED BY <2>1, <1>5 DEF Runner
  <1>12. CASE BeginRun(q)
    <2> DEFINE n == Len(runs) + 1
    <2>1. runner' = [runner EXCEPT ![q].step = "fetching", ![q].run = n]
      BY <1>12 DEF BeginRun
    <2> HIDE DEF n
    <2> QED BY <2>1 DEF Runner
  <1>13. CASE SaveBatch(q)
    BY <1>13 DEF SaveBatch, Runner
  <1>14. runner'[q] = runner[q] \/ RunnerStep(q) \/ Kill(q)
    BY RunnerKinds
  <1> QED
    BY <1>2, <1>3, <1>6, <1>7, <1>8, <1>9, <1>10, <1>11, <1>12, <1>13, <1>14 DEF RunnerStep

\* Who finishes a row notes the runners that have read it and not yet written it.
LEMMA ReadersNotedStep == ASSUME JobsSound, [JobsNext]_jobsVars PROVE ReadersNoted'
  <1>0. /\ runner \in [Runners -> Runner] /\ jobs \in Seq(JobRow)
    BY DEF JobsSound, JobsTypeOK
  <1> SUFFICES ASSUME NEW q \in Runners, runner'[q].step = "selected",
                      jobs'[runner'[q].job].status \in Closing
               PROVE  q \in jobs'[runner'[q].job].readers
    BY DEF ReadersNoted
  <1>1. CASE MayRun(runner[q].job) /\ runner'[q].job = runner[q].job /\ jobs' = jobs
    BY <1>1 DEF MayRun, Open, Closing
  <1>2. CASE runner'[q] = runner[q]
    <2> DEFINE j == runner[q].job
    <2>1. j \in DOMAIN jobs
      BY <1>2 DEF JobsSound, RunnerSound
    <2>2. jobs[j].status \in Closing => q \in jobs[j].readers
      BY <1>2 DEF JobsSound, ReadersNoted
    <2>3. CASE jobs' = jobs
      BY <1>2, <2>2, <2>3
    <2>4. ASSUME NEW a \in Askers, Enqueue(a)
          PROVE  q \in jobs'[j].readers
      <3> DEFINE row == NewJob(asking[a])
      <3>1. jobs' = jobs \/ jobs' = Append(jobs, row)
        BY <2>4 DEF Enqueue
      <3> HIDE DEF row, j
      <3>2. jobs'[j] = jobs[j]
        BY <2>1, <3>1, <1>0
      <3> QED BY <1>2, <2>2, <3>2 DEF j
    <2>5. ASSUME NEW r \in Runners, MarkRunning(r)
          PROVE  q \in jobs'[j].readers
      <3>1. \/ jobs' = jobs
            \/ jobs' = RowSet(runner[r].job, "RUNNING", {})
        BY <2>5 DEF MarkRunning, RowSet
      <3>2. \A i \in DOMAIN jobs : jobs'[i] = jobs[i] \/ jobs'[i].status = "RUNNING"
        <4>1. ASSUME jobs' = RowSet(runner[r].job, "RUNNING", {}), NEW i \in DOMAIN jobs
              PROVE  jobs'[i] = jobs[i] \/ jobs'[i].status = "RUNNING"
          BY <4>1, <1>0, JobSet
        <4> QED BY <3>1, <4>1
      <3> QED BY <1>2, <2>1, <2>2, <3>2 DEF Closing
    <2>6. ASSUME NEW r \in Runners, Close(r)
          PROVE  q \in jobs'[j].readers
      <3> DEFINE who == ReadersOf(runner[r].job)
      <3>1. \/ jobs' = jobs
            \/ jobs' = RowSet(runner[r].job, runner[r].end, who)
        BY <2>6 DEF Close, RowSet
      <3>2. runner[r].job = j => q \in who
        BY <1>2 DEF ReadersOf
      <3> HIDE DEF who
      <3>3. \A i \in DOMAIN jobs :
              jobs'[i] = jobs[i] \/ (runner[r].job = i /\ jobs'[i].readers = who)
        BY <3>1, <1>0, JobSet
      <3> QED BY <1>2, <2>1, <2>2, <3>2, <3>3
    <2>7. ASSUME NEW r \in Runners, Kill(r)
          PROVE  q \in jobs'[j].readers
      <3>1. jobs'[j].status = jobs[j].status /\ jobs'[j].readers = jobs[j].readers
        BY <2>1, <2>7, <1>0, JobKilled
      <3> QED BY <1>2, <2>2, <3>1
    <2> QED BY <1>2, <2>3, <2>4, <2>5, <2>6, <2>7, JobsKinds DEF JobWritten
  <1> QED BY <1>0, <1>1, <1>2, SelectedKind

----------------------------------------------------------------------------
(* The invariant.                                                          *)

\* The provider is healthy, or not available, because a run ended so.
HealthTold ==
    /\ health = "HEALTHY" => \E k \in DOMAIN runs : runs[k].status = "SUCCEEDED"
    /\ health = "UNAVAILABLE" => \E k \in DOMAIN runs : runs[k].status = "FAILED"

\* The health of the provider changes only with the end of a run.
LEMMA HealthStep ==
    ASSUME JobsSound, [JobsNext]_jobsVars
    PROVE  health' \in {"NONE", "HEALTHY", "UNAVAILABLE"} /\ HealthTold'
  <1>0. RunRowsKept /\ runs \in Seq(RunRow)
    BY RunsStep DEF JobsSound, JobsTypeOK
  <1>1. CASE health' = health
    <2>1. \A k \in DOMAIN runs : runs[k].status \in Closing =>
            k \in DOMAIN runs' /\ runs'[k].status = runs[k].status
      BY <1>0 DEF RunRowsKept, Closing
    <2> QED BY <1>1, <2>1 DEF JobsSound, JobsTypeOK, HealthTold, Closing
  <1>2. ASSUME NEW r \in Runners, EndRun(r)
        PROVE  health' = "HEALTHY" /\ \E k \in DOMAIN runs' : runs'[k].status = "SUCCEEDED"
    <2>1. runner[r].run \in DOMAIN runs
      BY <1>2 DEF JobsSound, RunnerSound, EndRun
    <2> QED BY <1>0, <1>2, <2>1 DEF EndRun, RunRow
  <1>3. ASSUME NEW r \in Runners, FailRun(r)
        PROVE  health' = "UNAVAILABLE" /\ \E k \in DOMAIN runs' : runs'[k].status = "FAILED"
    <2>1. runner[r].run \in DOMAIN runs
      BY <1>3 DEF JobsSound, RunnerSound, FailRun
    <2> QED BY <1>0, <1>3, <2>1 DEF FailRun, RunRow
  <1>4. health' = health \/ \E r \in Runners : EndRun(r) \/ FailRun(r)
    BY DEF JobsNext, JobsStep, RunnerStep, Quiet, jobsVars, Ask, Enqueue, Pick, RunOne,
           MarkRunning, Close, Finish, OtherWork, CheckActive, BeginRun, SaveBatch, Kill
  <1> QED BY <1>1, <1>2, <1>3, <1>4 DEF HealthTold

\* The enqueuers and the count of kills keep their types.
LEMMA AskingStep ==
    ASSUME JobsSound, [JobsNext]_jobsVars
    PROVE  asking' \in [Askers -> Enqueued \cup {"NONE"}] /\ kills' \in 0..MaxKills
  <1> USE JobsAssumption DEF JobsSound, JobsTypeOK
  <1>1. ASSUME NEW a \in Askers, Enqueue(a) \/ \E t \in Enqueued : Ask(a, t)
        PROVE  asking' \in [Askers -> Enqueued \cup {"NONE"}] /\ kills' = kills
    BY <1>1 DEF Enqueue, Ask
  <1>2. ASSUME NEW r \in Runners, Kill(r)
        PROVE  asking' = asking /\ kills' \in 0..MaxKills
    BY <1>2 DEF Kill
  <1>3. ASSUME NEW r \in Runners, RunnerStep(r)
        PROVE  UNCHANGED <<asking, kills>>
    BY <1>3 DEF RunnerStep, Pick, RunOne, MarkRunning, Close, Finish, OtherWork,
                CheckActive, BeginRun, SaveBatch, EndRun, FailRun
  <1>4. ASSUME UNCHANGED jobsVars
        PROVE  UNCHANGED <<asking, kills>>
    BY <1>4 DEF jobsVars
  <1> QED BY <1>1, <1>2, <1>3, <1>4 DEF JobsNext, JobsStep, Quiet

\* Before the first job, everything is sound.
LEMMA JobsSoundInit == JobsInit => JobsSound
  <1> SUFFICES ASSUME JobsInit PROVE JobsSound
    OBVIOUS
  <1> USE DEF JobsInit
  <1>1. /\ jobs \in Seq(JobRow) /\ runs \in Seq(RunRow) /\ Len(runs) = 0
        /\ DOMAIN jobs = {} /\ DOMAIN runs = {}
    OBVIOUS
  <1>2. \A r \in Runners : /\ runner[r] = IdleRunner /\ runner[r].run = 0
                           /\ runner[r].step = "idle" /\ runner[r].seen = 0
    BY DEF IdleRunner
  <1>3. JobsTypeOK
    BY <1>1, <1>2, IdleType, JobsAssumption DEF JobsTypeOK
  <1> QED
    BY <1>1, <1>2, <1>3 DEF JobsSound, RunnersApart, RunnerSound, RowsCounted, OnlySyncs,
       ReadersNoted, SyncFailureOnlyInRuns, Looked, RunsOverlapOnlyByRace, OneRecommendation

\* Every step of the jobs keeps them sound.
LEMMA JobsSoundStep == JobsSound /\ [JobsNext]_jobsVars => JobsSound'
  <1> SUFFICES ASSUME JobsSound, [JobsNext]_jobsVars PROVE JobsSound'
    OBVIOUS
  <1>1. /\ JobRowsKept /\ runner' \in [Runners -> Runner]
        /\ RunRowsKept /\ stored' \in [Items -> 0..Len(runs')]
    BY RowsStep, RunsStep
  <1>2. (\A r \in Runners : RunnerSound(r)') /\ RunnersApart'
    BY RunnersStep
  <1>3. \A r \in Runners : runner'[r].run # 0 => runs'[runner'[r].run].status = "RUNNING"
    BY <1>2 DEF RunnerSound
  <1>4. JobsTypeOK'
    BY <1>1, <1>3, HealthStep, AskingStep DEF JobsTypeOK, JobRowsKept, RunRowsKept, HealthTold
  <1> QED
    BY <1>2, <1>4, RowsCountedStep, OnlySyncsStep, ReadersNotedStep, LookedStep, OverlapStep,
       OneRecommendationStep DEF JobsSound

----------------------------------------------------------------------------
(* The theorems.                                                           *)

\* The rows of the jobs and of the ingestion runs tell what happened, whatever
\* other runners do, and whichever of them are killed between two transactions:
\* the success count of a run is the number of the rows it has stored, the health
\* of the provider is how some run ended, and a failed ingestion fails no job.
THEOREM RowsAreTrue == JobsSpec => []RowsTellTruth
  <1>1. JobsSound => RowsTellTruth
    BY DEF JobsSound, RowsCounted, OnlySyncs, RowsTellTruth, CountsMatchRows, StoredBy
  <1> QED BY <1>1, JobsSoundInit, JobsSoundStep, PTL DEF JobsSpec

\* A RUNNING row keeps other runs of its type from beginning, also when its runner
\* was killed and nobody will end it, unless both looked before either began; and
\* a recommendation is enqueued once per date, whoever asks for it.
THEOREM RunsAreOneOfAKind == JobsSpec => []OneOfAKind
  <1>1. ASSUME JobsSound, NEW t \in Recommendations
        PROVE  Cardinality(RowsOf(t)) <= 1
    <2>1. CASE RowsOf(t) = {}
      BY <2>1, FS_EmptySet
    <2>2. ASSUME NEW j \in RowsOf(t)
          PROVE  Cardinality(RowsOf(t)) <= 1
      <3>1. RowsOf(t) = {j}
        BY <1>1, <2>2 DEF RowsOf, JobsSound, OneRecommendation
      <3> QED BY <3>1, FS_Singleton
    <2> QED BY <2>1, <2>2
  <1>2. JobsSound => OneOfAKind
    BY <1>1 DEF JobsSound, OneOfAKind, RecommendationOncePerDay
  <1> QED BY <1>2, JobsSoundInit, JobsSoundStep, PTL DEF JobsSpec

\* A finished job is set RUNNING again only by a runner that had read its row
\* before it was finished; whoever reads it later leaves it alone.
THEOREM FinishedJobsReopenedByRace == JobsSpec => ReopenedOnlyByReaders
  <1>1. ASSUME JobsSound, [JobsNext]_jobsVars, NEW j \in DOMAIN jobs,
               jobs[j].status \in Closing, jobs'[j].status \notin Closing
        PROVE  \E r \in jobs[j].readers : runner[r].step = "selected" /\ runner[r].job = j
    <2>0. /\ runner \in [Runners -> Runner] /\ jobs \in Seq(JobRow)
      BY <1>1 DEF JobsSound, JobsTypeOK
    <2>1. ASSUME NEW a \in Askers, Enqueue(a)
          PROVE  jobs'[j] = jobs[j]
      <3> DEFINE row == NewJob(asking[a])
      <3>1. jobs' = jobs \/ jobs' = Append(jobs, row)
        BY <2>1 DEF Enqueue
      <3> HIDE DEF row
      <3> QED BY <3>1, <2>0
    <2>2. ASSUME NEW r \in Runners, Close(r)
          PROVE  jobs'[j].status \in {jobs[j].status} \cup Closing
      <3> DEFINE who == ReadersOf(runner[r].job)
      <3>1. \/ jobs' = jobs
            \/ jobs' = RowSet(runner[r].job, runner[r].end, who)
        BY <2>2 DEF Close, RowSet
      <3>2. runner[r].end \in Closing
        BY <2>0 DEF Runner
      <3> HIDE DEF who
      <3> QED BY <3>1, <3>2, <2>0, JobSet
    <2>3. ASSUME NEW r \in Runners, Kill(r)
          PROVE  jobs'[j].status = jobs[j].status
      BY <2>3, <2>0, JobKilled
    <2>4. PICK r \in Runners : MarkRunning(r)
      BY <1>1, <2>1, <2>2, <2>3, JobsKinds DEF JobWritten
    <2>5. runner[r].job = j /\ runner[r].step = "selected"
      BY <1>1, <2>0, <2>4 DEF MarkRunning, JobRow
    <2> QED BY <1>1, <2>5 DEF JobsSound, ReadersNoted
  <1>2. ASSUME JobsSound, [JobsNext]_jobsVars
        PROVE  [\A j \in DOMAIN jobs :
                  (jobs[j].status \in Closing /\ jobs'[j].status \notin Closing) =>
                    \E r \in jobs[j].readers :
                      runner[r].step = "selected" /\ runner[r].job = j]_jobsVars
    BY <1>1, <1>2
  <1> QED BY <1>2, JobsSoundInit, JobsSoundStep, PTL DEF JobsSpec, ReopenedOnlyByReaders

----------------------------------------------------------------------------
(***************************************************************************)
(* The notification outbox.                                                *)
(***************************************************************************)

\* A task that is not sending has nothing in its hands, and what a run has
\* sent it does not send again.
HandsEmpty ==
    \A d \in TaskDates, m \in Messages :
        /\ worker[d].step # "sending" => m \notin worker[d].batch /\ worker[d].result[m] = "none"
        /\ m \in worker[d].batch => worker[d].result[m] = "none"

\* What a run has noted of a message happened, and failures are not counted
\* more often than they happened, in the rows or in what was read of them.
Noted ==
    \A m \in Messages :
        /\ outbox[m].retry_count <= failed[m]
        /\ \A d \in TaskDates :
            /\ worker[d].read[m].retry_count <= failed[m]
            /\ worker[d].result[m] = "sent" => delivered[m] > 0
            /\ worker[d].result[m] = "failed"
                 => worker[d].read[m].retry_count + 1 <= failed[m]

\* A message that is not excused is in the hands of one run at most; it was
\* delivered once at most, and then its row or that run says so.
Once(m) ==
    /\ \A d, e \in TaskDates : InHands(d, m) /\ InHands(e, m) => d = e
    /\ delivered[m] <= 1
    /\ delivered[m] = 1 => \/ outbox[m].status = "SENT"
                           \/ \E d \in TaskDates : /\ worker[d].step = "sending"
                                                   /\ worker[d].result[m] = "sent"
    /\ outbox[m].status = "SENT" => \A d \in TaskDates : ~InHands(d, m)

Accounted ==
    /\ OutboxTypeOK /\ SentWasDelivered /\ FinalOnlyAfterMax
    /\ HandsEmpty /\ Noted
    /\ \A m \in Messages \ excused : Once(m)

\* An open task, and the ones a step leaves alone.
LEMMA OpenTyped ==
  ASSUME OutboxTypeOK
  PROVE  /\ OpenTask \in Delivery
         /\ [OpenTask EXCEPT !.step = "done"] \in Delivery
         /\ [OpenTask EXCEPT !.step = "sending", !.batch = Batch, !.read = outbox] \in Delivery
         /\ Batch \subseteq {m \in Messages : IsDue(m)}
<1>1. NewRow \in Row BY DEF NewRow, Row, NotificationStatus
<1>2. ToSet(posted) \subseteq Messages BY DEF OutboxTypeOK, ToSet
<1>3. Batch \subseteq {m \in Messages : IsDue(m)} BY <1>2 DEF Batch, Posted
<1> QED BY <1>1, <1>3 DEF OpenTask, Delivery, OutboxTypeOK

\* Before anything is posted there is nothing to account for.
LEMMA OutboxBegins == OutboxInit => Accounted
<1> SUFFICES ASSUME OutboxInit PROVE Accounted OBVIOUS
<1> USE OutboxAssumption DEF OutboxInit
<1>1. NewRow \in Row /\ NewRow.status = "PENDING" /\ NewRow.retry_count = 0
  BY DEF NewRow, Row, NotificationStatus
<1>2. OpenTask \in Delivery BY <1>1 DEF OpenTask, Delivery
<1>3. posted \in Seq(Messages) OBVIOUS
<1>4. OutboxTypeOK BY <1>1, <1>2, <1>3 DEF OutboxTypeOK
<1>5. SentWasDelivered /\ FinalOnlyAfterMax
  BY <1>1 DEF SentWasDelivered, FinalOnlyAfterMax
<1>6. HandsEmpty BY DEF HandsEmpty, OpenTask
<1>7. Noted BY <1>1 DEF Noted, OpenTask
<1>8. \A m \in Messages : Once(m) BY <1>1 DEF Once, InHands, OpenTask
<1> QED BY <1>4, <1>5, <1>6, <1>7, <1>8 DEF Accounted

\* Posting a message sends nothing.
LEMMA PostAccounted ==
  ASSUME Accounted, NEW m \in Messages, Post(m) PROVE Accounted'
<1>1. posted' \in Seq(Messages) BY DEF Accounted, OutboxTypeOK, Post
<1> QED
  BY <1>1 DEF Accounted, OutboxTypeOK, SentWasDelivered, FinalOnlyAfterMax, HandsEmpty,
              Noted, Once, InHands, Post

\* A run that reads a row another run has in its hands excuses the message.
LEMMA RunAccounted ==
  ASSUME Accounted, NEW d \in TaskDates, RunOnce(d) PROVE Accounted'
<1> DEFINE w == [OpenTask EXCEPT !.step = "sending", !.batch = Batch, !.read = outbox]
<1>0. OutboxTypeOK BY DEF Accounted
<1>1. /\ worker' = [worker EXCEPT ![d] = w]
      /\ excused' = excused \cup {m \in Batch : \E e \in TaskDates \ {d} : InHands(e, m)}
      /\ UNCHANGED <<posted, outbox, delivered, failed, lost>>
  BY DEF RunOnce
<1>2. /\ w.step = "sending" /\ w.batch = Batch /\ w.read = outbox
      /\ \A m \in Messages : w.result[m] = "none"
  BY DEF OpenTask
<1>3. w \in Delivery /\ Batch \subseteq {m \in Messages : IsDue(m)} BY <1>0, OpenTyped
<1> HIDE DEF w
<1>4. worker'[d] = w /\ \A e \in TaskDates \ {d} : worker'[e] = worker[e]
  BY <1>0, <1>1 DEF OutboxTypeOK
<1>5. OutboxTypeOK' BY <1>0, <1>1, <1>3 DEF OutboxTypeOK
<1>6. SentWasDelivered' /\ FinalOnlyAfterMax'
  BY <1>1 DEF Accounted, SentWasDelivered, FinalOnlyAfterMax
<1>7. HandsEmpty' BY <1>2, <1>4 DEF Accounted, HandsEmpty
<1>8. Noted' BY <1>1, <1>2, <1>4 DEF Accounted, Noted
<1>9. ASSUME NEW m \in Messages \ excused' PROVE Once(m)'
  <2>1. Once(m) BY <1>1, <1>9 DEF Accounted
  <2>2. \A e \in TaskDates \ {d} : InHands(e, m)' <=> InHands(e, m)
    BY <1>4 DEF InHands
  <2>3. InHands(d, m)' <=> m \in Batch BY <1>2, <1>4 DEF InHands
  <2>4. m \in Batch => \A e \in TaskDates \ {d} : ~InHands(e, m) BY <1>1, <1>9
  <2>5. m \in Batch => outbox[m].status # "SENT" BY <1>3 DEF IsDue
  <2>6. worker[d].step # "sending" BY DEF RunOnce
  <2>7. \A a, e \in TaskDates : InHands(a, m)' /\ InHands(e, m)' => a = e
    BY <2>1, <2>2, <2>3, <2>4 DEF Once
  <2>8. delivered'[m] <= 1 BY <1>1, <2>1 DEF Once
  <2>9. delivered'[m] = 1 =>
          \/ outbox'[m].status = "SENT"
          \/ \E e \in TaskDates : worker'[e].step = "sending" /\ worker'[e].result[m] = "sent"
    BY <1>1, <1>4, <2>1, <2>6 DEF Once
  <2>10. outbox'[m].status = "SENT" => \A e \in TaskDates : ~InHands(e, m)'
    BY <1>1, <2>1, <2>2, <2>3, <2>5 DEF Once
  <2> QED BY <2>7, <2>8, <2>9, <2>10 DEF Once
<1> QED BY <1>5, <1>6, <1>7, <1>8, <1>9 DEF Accounted

\* A send is counted where it is noted, and takes the message out of the batch.
LEMMA SendAccounted ==
  ASSUME Accounted, NEW d \in TaskDates, NEW m \in Messages, NEW ok \in BOOLEAN,
         worker[d].step = "sending", m \in worker[d].batch, SendMessage(d, m, ok),
         UNCHANGED <<posted, outbox, excused, lost>>
  PROVE  Accounted'
<1> DEFINE became == IF ok THEN "sent" ELSE "failed"
           w == worker'[d]
<1>0. OutboxTypeOK /\ worker[d] \in Delivery BY DEF Accounted, OutboxTypeOK
<1>1. /\ w.step = "sending" /\ w.read = worker[d].read
      /\ w.batch = worker[d].batch \ {m}
      /\ w.result = [worker[d].result EXCEPT ![m] = became]
      /\ w \in Delivery
      /\ \A e \in TaskDates \ {d} : worker'[e] = worker[e]
      /\ worker' \in [TaskDates -> Delivery]
  <2>1. worker[d].result \in [Messages -> {"none", "sent", "failed"}]
    BY <1>0 DEF Delivery
  <2>2. [worker[d].result EXCEPT ![m] = became] \in [Messages -> {"none", "sent", "failed"}]
    BY <2>1
  <2>3. w = [worker[d] EXCEPT !.batch = worker[d].batch \ {m},
                              !.result = [worker[d].result EXCEPT ![m] = became]]
        /\ \A e \in TaskDates \ {d} : worker'[e] = worker[e]
    BY <1>0 DEF SendMessage, OutboxTypeOK
  <2>6. worker[d].batch \ {m} \in SUBSET Messages BY <1>0 DEF Delivery
  <2>4. w \in Delivery BY <1>0, <2>2, <2>3, <2>6 DEF Delivery
  <2>5. worker' \in [TaskDates -> Delivery]
    BY <1>0, <2>4 DEF SendMessage, OutboxTypeOK
  <2> QED BY <1>0, <2>3, <2>4, <2>5 DEF Delivery
<1>2. /\ w.result[m] = became
      /\ \A n \in Messages \ {m} : w.result[n] = worker[d].result[n]
  BY <1>0, <1>1 DEF Delivery
<1>3. /\ delivered'[m] = IF ok THEN delivered[m] + 1 ELSE delivered[m]
      /\ failed'[m] = IF ok THEN failed[m] ELSE failed[m] + 1
      /\ \A n \in Messages \ {m} : delivered'[n] = delivered[n] /\ failed'[n] = failed[n]
      /\ delivered' \in [Messages -> Nat] /\ failed' \in [Messages -> Nat]
  <2>1. delivered \in [Messages -> Nat] /\ failed \in [Messages -> Nat]
    BY <1>0 DEF OutboxTypeOK
  <2>2. CASE ok
    <3>1. delivered' = [delivered EXCEPT ![m] = delivered[m] + 1] /\ failed' = failed
      BY <2>2 DEF SendMessage
    <3> QED BY <2>1, <2>2, <3>1
  <2>3. CASE ~ok
    <3>1. failed' = [failed EXCEPT ![m] = failed[m] + 1] /\ delivered' = delivered
      BY <2>3 DEF SendMessage
    <3> QED BY <2>1, <2>3, <3>1
  <2> QED BY <2>2, <2>3
<1>4. \A n \in Messages : delivered'[n] >= delivered[n] /\ failed'[n] >= failed[n]
                          /\ delivered[n] \in Nat /\ failed[n] \in Nat
  <2> SUFFICES ASSUME NEW n \in Messages
               PROVE  delivered'[n] >= delivered[n] /\ failed'[n] >= failed[n]
                      /\ delivered[n] \in Nat /\ failed[n] \in Nat
    OBVIOUS
  <2>1. delivered[n] \in Nat /\ failed[n] \in Nat BY <1>0 DEF OutboxTypeOK
  <2>2. CASE n = m BY <1>3, <2>1, <2>2
  <2>3. CASE n # m BY <1>3, <2>1, <2>3
  <2> QED BY <2>2, <2>3
<1>5. OutboxTypeOK' BY <1>0, <1>1, <1>3 DEF OutboxTypeOK
<1>6. SentWasDelivered' /\ FinalOnlyAfterMax'
  <2>1. SentWasDelivered' BY <1>3, <1>4 DEF Accounted, SentWasDelivered
  <2>2. FinalOnlyAfterMax'
    BY <1>3, <1>4, OutboxAssumption DEF Accounted, FinalOnlyAfterMax
  <2> QED BY <2>1, <2>2
<1>7. HandsEmpty'
  <2> SUFFICES ASSUME NEW n \in Messages, NEW e \in TaskDates
               PROVE  /\ worker'[e].step # "sending"
                           => n \notin worker'[e].batch /\ worker'[e].result[n] = "none"
                      /\ n \in worker'[e].batch => worker'[e].result[n] = "none"
    BY DEF HandsEmpty
  <2>1. CASE e # d BY <1>1, <2>1 DEF Accounted, HandsEmpty
  <2>2. CASE e = d
    <3>1. n \in worker'[d].batch => n # m /\ worker[d].result[n] = "none"
      BY <1>1 DEF Accounted, HandsEmpty
    <3> QED BY <1>1, <1>2, <2>2, <3>1
  <2> QED BY <2>1, <2>2
<1>8. Noted'
  <2> SUFFICES ASSUME NEW n \in Messages, NEW e \in TaskDates
               PROVE  /\ outbox'[n].retry_count <= failed'[n]
                      /\ worker'[e].read[n].retry_count <= failed'[n]
                      /\ worker'[e].result[n] = "sent" => delivered'[n] > 0
                      /\ worker'[e].result[n] = "failed"
                           => worker'[e].read[n].retry_count + 1 <= failed'[n]
    BY DEF Noted
  <2>0. /\ worker[e].read[n].retry_count \in Nat /\ outbox[n].retry_count \in Nat
    BY <1>0 DEF OutboxTypeOK, Delivery, Row
  <2>1. /\ outbox[n].retry_count <= failed[n]
        /\ worker[e].read[n].retry_count <= failed[n]
        /\ worker[e].result[n] = "sent" => delivered[n] > 0
        /\ worker[e].result[n] = "failed" => worker[e].read[n].retry_count + 1 <= failed[n]
    BY DEF Accounted, Noted
  <2>2. worker'[e].read = worker[e].read BY <1>1
  <2>3. CASE e = d /\ n = m BY <1>2, <1>3, <1>4, <2>0, <2>1, <2>2, <2>3
  <2>4. CASE e # d \/ n # m
    <3>1. worker'[e].result[n] = worker[e].result[n] BY <1>1, <1>2, <2>4
    <3>2. outbox' = outbox OBVIOUS
    <3>3. failed'[n] >= failed[n] /\ failed'[n] \in Nat /\ failed[n] \in Nat
      BY <1>3, <1>4
    <3>4. delivered'[n] >= delivered[n] /\ delivered'[n] \in Nat /\ delivered[n] \in Nat
      BY <1>3, <1>4
    <3>5. outbox'[n].retry_count <= failed'[n] BY <2>0, <2>1, <3>2, <3>3
    <3>6. worker'[e].read[n].retry_count <= failed'[n] BY <2>0, <2>1, <2>2, <3>3
    <3>7. worker'[e].result[n] = "sent" => delivered'[n] > 0 BY <2>1, <3>1, <3>4
    <3>8. worker'[e].result[n] = "failed" => worker'[e].read[n].retry_count + 1 <= failed'[n]
      BY <2>0, <2>1, <2>2, <3>1, <3>3
    <3> QED BY <3>5, <3>6, <3>7, <3>8
  <2> QED BY <2>3, <2>4
<1>9. ASSUME NEW n \in Messages \ excused PROVE Once(n)'
  <2>1. Once(n) BY DEF Accounted
  <2>2. \A e \in TaskDates : InHands(e, n)' <=> InHands(e, n)
    BY <1>1, <1>2 DEF InHands
  <2>3. \A a, e \in TaskDates : InHands(a, n)' /\ InHands(e, n)' => a = e
    BY <2>1, <2>2 DEF Once
  <2>4. outbox'[n].status = "SENT" => \A e \in TaskDates : ~InHands(e, n)'
    BY <2>1, <2>2 DEF Once
  <2>5. CASE n # m
    <3>1. \A e \in TaskDates : worker'[e].result[n] = worker[e].result[n]
                               /\ worker'[e].step = worker[e].step
      BY <1>1, <1>2, <2>5
    <3>2. delivered'[n] = delivered[n] BY <1>3, <2>5
    <3> QED BY <2>1, <2>3, <2>4, <3>1, <3>2 DEF Once
  <2>6. CASE n = m
    <3>1. InHands(d, m) BY DEF InHands
    <3>2. outbox[m].status # "SENT" BY <2>1, <2>6, <3>1 DEF Once
    <3>3. \A e \in TaskDates \ {d} : ~InHands(e, m) BY <2>1, <2>6, <3>1 DEF Once
    <3>4. worker[d].result[m] = "none" BY DEF Accounted, HandsEmpty
    <3>5. delivered[m] # 1 BY <2>1, <2>6, <3>2, <3>3, <3>4 DEF Once, InHands
    <3>6. delivered[m] = 0 BY <1>4, <2>1, <2>6, <3>5 DEF Once
    <3>7. delivered'[m] <= 1 /\ (delivered'[m] = 1 => w.result[m] = "sent")
      BY <1>2, <1>3, <3>6
    <3> QED BY <1>1, <2>3, <2>4, <2>6, <3>7 DEF Once
  <2> QED BY <2>5, <2>6
<1> QED BY <1>5, <1>6, <1>7, <1>8, <1>9 DEF Accounted

\* What a run writes is what it noted; its hands are empty afterwards.
LEMMA CommitAccounted ==
  ASSUME Accounted, NEW d \in TaskDates, CommitTask(d) PROVE Accounted'
<1> DEFINE w == [OpenTask EXCEPT !.step = "done"]
           result(m) == worker[d].result[m]
           count(m) == worker[d].read[m].retry_count + 1
           final(m) == Failing(outbox[m], worker[d].read[m])
<1>0. OutboxTypeOK /\ worker[d] \in Delivery /\ worker[d].step = "sending"
      /\ worker[d].batch = {}
  BY DEF Accounted, OutboxTypeOK, CommitTask
<1>1. /\ outbox' = [m \in Messages |-> Written(outbox[m], worker[d].read[m], result(m))]
      /\ worker' = [worker EXCEPT ![d] = w]
      /\ UNCHANGED <<posted, delivered, failed, excused, lost>>
  BY DEF CommitTask
<1>2. /\ w \in Delivery /\ w.step = "done" /\ w.batch = {}
      /\ \A m \in Messages : w.result[m] = "none" /\ w.read[m].retry_count = 0
  BY <1>0, OpenTyped DEF OpenTask, NewRow
<1> HIDE DEF w
<1>3. worker'[d] = w /\ \A e \in TaskDates \ {d} : worker'[e] = worker[e]
  BY <1>0, <1>1 DEF OutboxTypeOK
<1>4. ASSUME NEW m \in Messages
      PROVE  \/ outbox'[m] = outbox[m] /\ result(m) = "none"
             \/ /\ outbox'[m] = [outbox[m] EXCEPT !.status = "SENT"]
                /\ result(m) = "sent"
             \/ /\ outbox'[m] = [retry_count |-> count(m), status |-> final(m)]
                /\ result(m) = "failed"
  <2>1. result(m) \in {"none", "sent", "failed"} BY <1>0 DEF Delivery
  <2> QED BY <1>1, <2>1 DEF Written
<1>5. ASSUME NEW m \in Messages
      PROVE  /\ outbox[m] \in Row /\ count(m) \in Nat /\ failed[m] \in Nat
             /\ outbox[m].retry_count <= failed[m]
             /\ result(m) = "sent" => delivered[m] > 0
             /\ result(m) = "failed" => count(m) <= failed[m]
             /\ final(m) = IF count(m) >= MaxSends THEN "FAILED_FINAL"
                           ELSE IF worker[d].read[m].status = "RETRYABLE"
                           THEN outbox[m].status ELSE "RETRYABLE"
  BY <1>0 DEF OutboxTypeOK, Accounted, Noted, Delivery, Row, Failing
<1> HIDE DEF result, count, final
<1>6. ASSUME NEW m \in Messages
      PROVE  /\ outbox'[m] \in Row
             /\ outbox'[m].retry_count <= failed[m]
             /\ outbox'[m].status \in {"PENDING", "RETRYABLE"} => outbox'[m].retry_count < MaxSends
             /\ outbox'[m].status = "SENT" => delivered[m] > 0
             /\ outbox'[m].status = "FAILED_FINAL" => failed[m] >= MaxSends
  <2>1. CASE result(m) = "none"
    <3>1. outbox'[m] = outbox[m] BY <1>4, <2>1
    <3> QED BY <1>0, <1>5, <3>1
          DEF Accounted, OutboxTypeOK, SentWasDelivered, FinalOnlyAfterMax
  <2>2. CASE result(m) = "sent"
    <3>1. outbox'[m] = [outbox[m] EXCEPT !.status = "SENT"] BY <1>4, <2>2
    <3> QED BY <1>5, <2>2, <3>1 DEF Row, NotificationStatus
  <2>3. CASE result(m) = "failed"
    <3>1. outbox'[m] = [retry_count |-> count(m), status |-> final(m)]
      BY <1>4, <2>3
    <3>2. CASE count(m) < MaxSends /\ final(m) = outbox[m].status
      <4>1. /\ final(m) = "SENT" => delivered[m] > 0
            /\ final(m) = "FAILED_FINAL" => failed[m] >= MaxSends
        BY <1>0, <3>2 DEF Accounted, SentWasDelivered, FinalOnlyAfterMax
      <4> QED BY <1>5, <2>3, <3>1, <3>2, <4>1, OutboxAssumption DEF Row
    <3>3. CASE count(m) < MaxSends /\ final(m) = "RETRYABLE"
      BY <1>5, <2>3, <3>1, <3>3, OutboxAssumption DEF Row, NotificationStatus
    <3>4. CASE count(m) >= MaxSends /\ final(m) = "FAILED_FINAL"
      BY <1>5, <2>3, <3>1, <3>4, OutboxAssumption DEF Row, NotificationStatus
    <3> QED BY <1>5, <3>2, <3>3, <3>4, OutboxAssumption
  <2> QED BY <1>4, <2>1, <2>2, <2>3
<1>7. OutboxTypeOK'
  <2>1. outbox' \in [Messages -> Row] BY <1>1, <1>6
  <2> QED BY <1>0, <1>1, <1>2, <1>6, <2>1 DEF OutboxTypeOK
<1>8. SentWasDelivered' /\ FinalOnlyAfterMax'
  BY <1>1, <1>6 DEF SentWasDelivered, FinalOnlyAfterMax
<1>9. HandsEmpty' BY <1>2, <1>3 DEF Accounted, HandsEmpty
<1>10. Noted'
  <2>1. \A m \in Messages : w.read[m].retry_count <= failed[m] BY <1>2, <1>5
  <2> QED BY <1>1, <1>2, <1>3, <1>6, <2>1 DEF Accounted, Noted
<1>11. ASSUME NEW m \in Messages \ excused PROVE Once(m)'
  <2>1. Once(m) BY DEF Accounted
  <2>2. ~InHands(d, m)' BY <1>2, <1>3 DEF InHands
  <2>3. \A e \in TaskDates \ {d} : InHands(e, m)' <=> InHands(e, m)
    BY <1>3 DEF InHands
  <2>4. \A a, e \in TaskDates : InHands(a, m)' /\ InHands(e, m)' => a = e
    BY <2>1, <2>2, <2>3 DEF Once
  <2>5. CASE result(m) = "none"
    <3>1. outbox'[m] = outbox[m] /\ worker[d].result[m] = "none"
      BY <1>4, <2>5 DEF result
    <3>2. delivered'[m] = 1 => \/ outbox'[m].status = "SENT"
                               \/ \E e \in TaskDates : worker'[e].step = "sending"
                                                       /\ worker'[e].result[m] = "sent"
      BY <1>1, <1>3, <2>1, <3>1 DEF Once
    <3>3. outbox'[m].status = "SENT" => \A e \in TaskDates : ~InHands(e, m)'
      BY <2>1, <2>2, <2>3, <3>1 DEF Once
    <3> QED BY <1>1, <2>1, <2>4, <3>2, <3>3 DEF Once
  <2>6. CASE result(m) # "none"
    <3>1. InHands(d, m) BY <1>0, <2>6 DEF InHands, result
    <3>2. \A e \in TaskDates : ~InHands(e, m)' BY <2>1, <2>2, <2>3, <3>1 DEF Once
    <3>3. CASE result(m) = "sent"
      <4>1. outbox'[m].status = "SENT" BY <1>4, <1>5, <3>3 DEF Row
      <4> QED BY <1>1, <2>1, <2>4, <3>2, <4>1 DEF Once
    <3>4. CASE result(m) = "failed"
      <4>1. outbox[m].status # "SENT" BY <2>1, <3>1 DEF Once
      <4>2. delivered[m] # 1
        <5>1. \A e \in TaskDates \ {d} : ~InHands(e, m) BY <2>1, <3>1 DEF Once
        <5>2. worker[d].result[m] # "sent" BY <3>4 DEF result
        <5> QED BY <2>1, <4>1, <5>1, <5>2 DEF Once, InHands
      <4>3. outbox'[m].status # "SENT"
        <5>1. outbox'[m] = [retry_count |-> count(m), status |-> final(m)]
          BY <1>4, <3>4
        <5>2. final(m) # "SENT"
          BY <1>5, <4>1
        <5> QED BY <5>1, <5>2
      <4> QED BY <1>1, <2>1, <2>4, <3>2, <4>2, <4>3 DEF Once
    <3> QED BY <1>4, <2>6, <3>3, <3>4
  <2> QED BY <2>5, <2>6
<1> QED BY <1>1, <1>7, <1>8, <1>9, <1>10, <1>11 DEF Accounted

\* A task that begins anew leaves the rows and the history alone.
LEMMA ReopenAccounted ==
  ASSUME Accounted, NEW d \in TaskDates,
         worker' = [worker EXCEPT ![d] = OpenTask],
         excused \subseteq excused', excused' \subseteq Messages, lost' \in 0..MaxLost,
         UNCHANGED <<posted, outbox, delivered, failed>>,
         \A m \in Messages \ excused' : worker[d].result[m] = "none"
  PROVE  Accounted'
<1>0. OutboxTypeOK BY DEF Accounted
<1>1. /\ OpenTask \in Delivery /\ OpenTask.step = "open" /\ OpenTask.batch = {}
      /\ \A m \in Messages : OpenTask.result[m] = "none" /\ OpenTask.read[m].retry_count = 0
  BY <1>0, OpenTyped DEF OpenTask, NewRow
<1>2. worker'[d] = OpenTask /\ \A e \in TaskDates \ {d} : worker'[e] = worker[e]
  BY <1>0 DEF OutboxTypeOK
<1>3. OutboxTypeOK' BY <1>0, <1>1 DEF OutboxTypeOK
<1>4. SentWasDelivered' /\ FinalOnlyAfterMax'
  BY DEF Accounted, SentWasDelivered, FinalOnlyAfterMax
<1>5. HandsEmpty' BY <1>1, <1>2 DEF Accounted, HandsEmpty
<1>6. Noted'
  <2>1. \A m \in Messages : OpenTask.read[m].retry_count <= failed[m]
    BY <1>0, <1>1 DEF OutboxTypeOK
  <2> QED BY <1>1, <1>2, <2>1 DEF Accounted, Noted
<1>7. ASSUME NEW m \in Messages \ excused' PROVE Once(m)'
  <2>1. Once(m) BY DEF Accounted
  <2>2. ~InHands(d, m)' BY <1>1, <1>2 DEF InHands
  <2>3. \A e \in TaskDates \ {d} : InHands(e, m)' <=> InHands(e, m) BY <1>2 DEF InHands
  <2> QED BY <1>2, <2>1, <2>2, <2>3 DEF Once
<1> QED BY <1>3, <1>4, <1>5, <1>6, <1>7 DEF Accounted

\* Every step keeps the account.
LEMMA StepAccounted == Accounted /\ [OutboxNext]_outboxVars => Accounted'
<1> SUFFICES ASSUME Accounted, [OutboxNext]_outboxVars PROVE Accounted' OBVIOUS
<1>1. ASSUME NEW d \in TaskDates, NEW ok \in BOOLEAN, Send(d, ok) PROVE Accounted'
  <2>1. PICK m \in worker[d].batch : SendMessage(d, m, ok) BY <1>1 DEF Send
  <2>2. m \in Messages BY DEF Accounted, OutboxTypeOK, Delivery
  <2> QED BY <1>1, <2>1, <2>2, SendAccounted DEF Send, SendMessage
<1>2. ASSUME NEW d \in TaskDates, Lost(d) PROVE Accounted'
  <2>1. /\ excused' = excused \cup {m \in Messages : worker[d].result[m] # "none"}
        /\ lost' = lost + 1 /\ lost < MaxLost
    BY <1>2 DEF Lost
  <2>2. lost' \in 0..MaxLost BY <2>1, OutboxAssumption DEF Accounted, OutboxTypeOK
  <2>3. excused' \subseteq Messages BY <2>1 DEF Accounted, OutboxTypeOK
  <2> QED BY <1>2, <2>1, <2>2, <2>3, ReopenAccounted DEF Lost
<1>3. ASSUME NEW d \in TaskDates, NextDate(d) PROVE Accounted'
  <2>1. \A m \in Messages : worker[d].result[m] = "none"
    BY <1>3 DEF NextDate, Accounted, HandsEmpty
  <2> QED BY <1>3, <2>1, ReopenAccounted DEF NextDate, Accounted, OutboxTypeOK
<1>4. CASE UNCHANGED outboxVars
  BY <1>4 DEF outboxVars, Accounted, OutboxTypeOK, SentWasDelivered, FinalOnlyAfterMax,
              HandsEmpty, Noted, Once, InHands
<1> QED
  BY <1>1, <1>2, <1>3, <1>4, PostAccounted, RunAccounted, CommitAccounted
     DEF OutboxNext, OutboxStep, TaskStep, Sent

\* The rows account for what the receiver got: SENT means delivered, given up
\* means failed often enough, and a duplicate has a lost or a second run behind
\* (NotificationWorker.run_once under the task runtime).
THEOREM DeliveriesAccounted == OutboxSpec => []DeliveryAccounted
<1>1. Accounted => DeliveryAccounted
  <2>1. Accounted => DuplicatesExplained
    BY DEF Accounted, DuplicatesExplained, Once, OutboxTypeOK
  <2> QED BY <2>1 DEF Accounted, DeliveryAccounted
<1> QED BY <1>1, OutboxBegins, StepAccounted, PTL DEF OutboxSpec
=============================================================================
