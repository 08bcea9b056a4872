----------------------------- MODULE MCServices -----------------------------
(***************************************************************************)
(* The job queue, the outbox and the daily bar provider share no state:     *)
(* each is checked on its own, side by side in one run, with the other two  *)
(* at rest.                                                                 *)
(***************************************************************************)
EXTENDS Jobs, Outbox, DailyBars, TLC

CONSTANTS first, second, third

VARIABLE part       \* the component that runs

all == <<part, jobsVars, outboxVars, barsVars>>

\* What is enqueued together: the jobs of both lists are too many for one run.
Load == "recommendations" :> {"PRE_MARKET_RECOMMENDATION"}
        @@ "syncs" :> {"STOCK_NEWS_SYNC"}
JobParts == DOMAIN Load
WithinLoad == \A a \in Askers : asking'[a] \in Load[part] \cup {"NONE"}

\* The first two news items come from the same page.
KeyOfItem == first :> first @@ second :> first @@ third :> third
NewsBatches == {<<first>>, <<third, second>>}
Batches == [t \in IngestionTypes |->
              IF t = "STOCK_NEWS_SYNC" THEN NewsBatches ELSE {<<>>}]

\* Bars up to each day, bars of a day that is not yet over, bars that are not
\* sound, not in order or missing.
Histories == {[dates |-> <<1>>, sound |-> TRUE],
              [dates |-> <<1, 2>>, sound |-> TRUE],
              [dates |-> <<0, 1, 2>>, sound |-> TRUE],
              [dates |-> <<1, 2>>, sound |-> FALSE],
              [dates |-> <<2, 1>>, sound |-> TRUE],
              [dates |-> <<>>, sound |-> TRUE]}

ServicesInit ==
    /\ JobsInit /\ OutboxInit /\ BarsInit
    /\ part \in JobParts \cup {"outbox", "bars"}

ServicesNext ==
    /\ UNCHANGED part
    /\ \/ /\ part \in JobParts /\ JobsNext /\ WithinLoad
          /\ UNCHANGED <<outboxVars, barsVars>>
       \/ /\ part = "outbox" /\ OutboxNext
          /\ UNCHANGED <<jobsVars, barsVars>>
       \/ /\ part = "bars" /\ BarsNext
          /\ UNCHANGED <<jobsVars, outboxVars>>

\* The fairness of each component, while it runs.
ServicesSpec ==
    /\ ServicesInit /\ [][ServicesNext]_all
    /\ \A r \in Runners : WF_jobsVars(part \in JobParts /\ RunnerStep(r))
    /\ \A d \in TaskDates : WF_outboxVars(part = "outbox" /\ TaskStep(d))
    /\ WF_barsVars(part = "bars" /\ Tock)
    /\ \A t \in Threads : WF_barsVars(part = "bars" /\ Working(t))
=============================================================================
