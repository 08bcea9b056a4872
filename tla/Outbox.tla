------------------------------- MODULE Outbox -------------------------------
(***************************************************************************)
(* The notification outbox and its worker (src/app/paper_runtime.py): rows  *)
(* are posted by other transactions and sent by the NOTIFICATION_DELIVERY   *)
(* task, which succeeds once per trading date.                              *)
(*                                                                          *)
(* The worker reads the rows, sends them one after the other, and the       *)
(* statuses are committed with the task when all are sent.  The lease keeps *)
(* two runs of one date apart, not the runs of two dates.                   *)
(***************************************************************************)
EXTENDS Integers, FiniteSets, SequencesExt

CONSTANTS
    Messages,       \* dedupe keys
    TaskDates,      \* trading dates whose tasks may be open together
    SendLimit,      \* limit of run_once
    MaxSends,       \* max_attempts
    MaxLost         \* bound on the runs that are lost

ASSUME OutboxAssumption ==
    /\ SendLimit \in Nat \ {0} /\ MaxSends \in Nat \ {0} /\ MaxLost \in Nat

VARIABLES
    posted,     \* notification_outbox, in the order of created_at
    outbox,     \* the row of each message
    worker,     \* the delivery task of each trading date
    delivered,  \* sends of each message that reached the receiver (history)
    failed,     \* sends of each message that failed (history)
    excused,    \* messages sent by a lost run or by two runs at once (history)
    lost        \* runs lost so far

outboxVars == <<posted, outbox, worker, delivered, failed, excused, lost>>

----------------------------------------------------------------------------
NotificationStatus == {"PENDING", "SENT", "RETRYABLE", "FAILED_FINAL"}
Row == [status : NotificationStatus, retry_count : Nat]
NewRow == [status |-> "PENDING", retry_count |-> 0]

\* done: the task has succeeded; batch: rows still to send; read: the rows as
\* they were read; result: what became of each message of the batch.
Delivery == [step : {"open", "sending", "done"}, batch : SUBSET Messages,
         read : [Messages -> Row],
         result : [Messages -> {"none", "sent", "failed"}]]
OpenTask == [step |-> "open", batch |-> {},
             read |-> [m \in Messages |-> NewRow],
             result |-> [m \in Messages |-> "none"]]

OutboxInit ==
    /\ posted = <<>>
    /\ outbox = [m \in Messages |-> NewRow]
    /\ worker = [d \in TaskDates |-> OpenTask]
    /\ delivered = [m \in Messages |-> 0]
    /\ failed = [m \in Messages |-> 0]
    /\ excused = {}
    /\ lost = 0

\* _outbox, _daily_report, _notify_provider_change: one row per dedupe key
Posted == ToSet(posted)
Unposted(m) == m \notin Posted
Post(m) ==
    /\ Unposted(m)
    /\ posted' = Append(posted, m)
    /\ UNCHANGED <<outbox, worker, delivered, failed, excused, lost>>

\* The rows run_once selects (mutants: those that were sent, too; those that
\* failed are not).
DueOrSent(m) == outbox[m].status \in {"PENDING", "RETRYABLE", "SENT"}
DuePending(m) == outbox[m].status = "PENDING"
IsDue(m) == outbox[m].status \in {"PENDING", "RETRYABLE"}

PostedBefore(n, m) ==
    \E i, j \in DOMAIN posted : i < j /\ posted[i] = n /\ posted[j] = m
\* The oldest of them, up to the limit.
Batch == {m \in Posted : /\ IsDue(m)
                         /\ Cardinality({n \in Posted : IsDue(n) /\ PostedBefore(n, m)})
                              < SendLimit}

InHands(d, m) == worker[d].step = "sending"
                 /\ (m \in worker[d].batch \/ worker[d].result[m] # "none")

RunOnce(d) ==
    /\ worker[d].step = "open"
    /\ worker' = [worker EXCEPT ![d] = [OpenTask EXCEPT
                     !.step = "sending", !.batch = Batch, !.read = outbox]]
    /\ excused' = excused \cup
          {m \in Batch : \E e \in TaskDates \ {d} : InHands(e, m)}
    /\ UNCHANGED <<posted, outbox, delivered, failed, lost>>

\* The sender returns, or raises.
SendMessage(d, m, ok) ==
    /\ worker' = [worker EXCEPT
          ![d].batch = @ \ {m},
          ![d].result = [@ EXCEPT ![m] = IF ok THEN "sent" ELSE "failed"]]
    /\ IF ok THEN delivered' = [delivered EXCEPT ![m] = @ + 1] /\ UNCHANGED failed
             ELSE failed' = [failed EXCEPT ![m] = @ + 1] /\ UNCHANGED delivered
    /\ UNCHANGED <<posted, outbox, excused, lost>>

Send(d, ok) ==
    /\ worker[d].step = "sending"
    /\ \E m \in worker[d].batch :
         /\ \A n \in worker[d].batch : ~PostedBefore(n, m)
         /\ SendMessage(d, m, ok)

\* What a run writes to a row: the session leaves a column out that has the
\* value it was read with.
Failing(row, read) ==
    IF read.retry_count + 1 >= MaxSends THEN "FAILED_FINAL"
    ELSE IF read.status = "RETRYABLE" THEN row.status ELSE "RETRYABLE"

Written(row, read, result) ==
    CASE result = "none" -> row
      [] result = "sent" -> [row EXCEPT !.status = "SENT"]
      [] result = "failed" -> [retry_count |-> read.retry_count + 1,
                               status |-> Failing(row, read)]

CommitTask(d) ==
    LET w == worker[d] IN
    /\ w.step = "sending" /\ w.batch = {}
    /\ outbox' = [m \in Messages |-> Written(outbox[m], w.read[m], w.result[m])]
    /\ worker' = [worker EXCEPT ![d] = [OpenTask EXCEPT !.step = "done"]]
    /\ UNCHANGED <<posted, delivered, failed, excused, lost>>

\* The process dies or the commit fails: nothing is written, the task is run
\* again.
Lost(d) ==
    LET w == worker[d] IN
    /\ w.step = "sending" /\ lost < MaxLost
    /\ lost' = lost + 1
    /\ excused' = excused \cup {m \in Messages : w.result[m] # "none"}
    /\ worker' = [worker EXCEPT ![d] = OpenTask]
    /\ UNCHANGED <<posted, outbox, delivered, failed>>

\* The next trading date has a task of its own.
NextDate(d) ==
    /\ worker[d].step = "done"
    /\ \E m \in Messages : outbox[m].status \in {"PENDING", "RETRYABLE"}
    /\ worker' = [worker EXCEPT ![d] = OpenTask]
    /\ UNCHANGED <<posted, outbox, delivered, failed, excused, lost>>

TaskStep(d) == \/ RunOnce(d) \/ CommitTask(d) \/ NextDate(d)
               \/ \E ok \in BOOLEAN : Send(d, ok)

OutboxStep == \/ \E m \in Messages : Post(m)
              \/ \E d \in TaskDates : TaskStep(d) \/ Lost(d)

\* Nothing may be left to send.
Sent == UNCHANGED outboxVars

OutboxNext == OutboxStep \/ Sent
\* The task is scheduled on every trading date and the sender returns.
OutboxSpec == /\ OutboxInit /\ [][OutboxNext]_outboxVars
              /\ \A d \in TaskDates : WF_outboxVars(TaskStep(d))

----------------------------------------------------------------------------
(* Properties.                                                              *)

\* Every variable has its type, and a row that may be sent again has failed
\* fewer times than the limit.
OutboxTypeOK ==
    /\ posted \in Seq(Messages) /\ outbox \in [Messages -> Row]
    /\ worker \in [TaskDates -> Delivery]
    /\ delivered \in [Messages -> Nat] /\ failed \in [Messages -> Nat]
    /\ excused \subseteq Messages /\ lost \in 0..MaxLost
    /\ \A m \in Messages :
        outbox[m].status \in {"PENDING", "RETRYABLE"} => outbox[m].retry_count < MaxSends

\* A row marked SENT has reached the receiver.
SentWasDelivered ==
    \A m \in Messages : outbox[m].status = "SENT" => delivered[m] > 0

\* A message is given up only after so many sends have failed.
FinalOnlyAfterMax ==
    \A m \in Messages :
        outbox[m].status = "FAILED_FINAL" => failed[m] >= MaxSends

\* A message reaches the receiver twice only if a run that had sent it was lost
\* before its commit, or the runs of two dates had read the row together.
DuplicatesExplained ==
    \A m \in Messages : delivered[m] > 1 => m \in excused

\* Every posted message is sent or given up in the end, however often its run
\* is lost or overlaps another one.
NotificationEnds ==
    \A m \in Messages :
        m \in Posted ~> outbox[m].status \in {"SENT", "FAILED_FINAL"}

\* The rows account for what the receiver got: SENT means delivered, given up
\* means failed often enough, and a duplicate has a lost or a second run behind.
DeliveryAccounted ==
    OutboxTypeOK /\ SentWasDelivered /\ FinalOnlyAfterMax /\ DuplicatesExplained
=============================================================================
