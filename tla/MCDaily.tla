------------------------------ MODULE MCDaily ------------------------------
(***************************************************************************)
(* The realtime quote feed and the scheduled tasks run in processes of      *)
(* their own and share no state: each is checked on its own, side by side   *)
(* in one run, with the other at rest.                                      *)
(***************************************************************************)
EXTENDS MCQuoteFeed, TaskRuntime

VARIABLE part       \* the component that runs

dailyVars == <<part, feedVars, vars>>

DailyInit == FeedInit /\ Init /\ part \in {"feed", "tasks"}

DailyNext ==
    /\ UNCHANGED part
    /\ \/ part = "feed" /\ FeedNext /\ UNCHANGED vars
       \/ part = "tasks" /\ Next /\ UNCHANGED feedVars

\* The fairness of the tasks, while they run.
DailySpec ==
    /\ DailyInit /\ [][DailyNext]_dailyVars
    /\ \A i \in Instances :
        /\ WF_vars(/\ part = "tasks" /\ step[i] \in {"begun", "acquired", "running"}
                   /\ Proceed(i))
        /\ SF_vars(part = "tasks" /\ InsertLease(i))
        /\ SF_vars(part = "tasks" /\ MarkHeld(i))
        /\ WF_vars(/\ part = "tasks" /\ step[i] = "refused" /\ ~Upsertable(i)
                   /\ Abort(i))
=============================================================================
