-------------------------- MODULE ShadowAdmission --------------------------
(***************************************************************************)
(* Admission of a live quote provider (src/app/realtime_quotes.py), over    *)
(* the shadow runs the gateway of QuoteFeed writes: the daily report that   *)
(* judges a day complete, the progress that counts complete days, the       *)
(* stored evaluations, the degradation events and the connectivity check    *)
(* that wraps one poll.                                                     *)
(*                                                                          *)
(* The commands run in processes of their own, at any moment between the    *)
(* steps of the gateway.                                                    *)
(***************************************************************************)
EXTENDS QuoteFeed

CONSTANTS
    Provider,       \* the provider under observation
    Configured,     \* live_provider_configured(settings)
    Half,           \* session of each instant: "AM", "PM" or "CLOSED"
    TradingDays,    \* dates of the calendar
    MinDays,        \* minimum_complete_trading_days
    MinAvailable,   \* minimum_provider_availability, in hundredths
    MaxEvaluations  \* bound: stored evaluations

VARIABLES
    reports,     \* market_data_shadow_daily_reports: date -> report
    admissions,  \* market_data_admission_results, in order
    degraded,    \* market_data_degradation_events
    check,       \* the connectivity check under way
    checks,      \* statuses of provider_connectivity_tests
    escaped      \* history: instants of polls lost to a schema error

admVars == <<reports, admissions, degraded, check, checks, escaped>>
admissionVars == <<feedVars, admVars>>

ASSUME AdmissionAssumption ==
    /\ Provider \in Providers /\ Configured \in BOOLEAN
    /\ MinDays \in Nat \ {0} /\ MinAvailable \in Nat
    /\ DOMAIN Half = DOMAIN DayOf
    /\ TradingDays \subseteq Nat \ {0} /\ IsFiniteSet(TradingDays)

AdmissionStatus == {"NOT_CONFIGURED", "OBSERVING", "INELIGIBLE",
                    "ELIGIBLE_FOR_REVIEW"}

-----------------------------------------------------------------------------
(* LocalTradingCalendar.latest_completed_trading_day: today once the market *)
(* has closed, else the trading day before; 0 when there is none.           *)
latest_completed_trading_day ==
    LET today == DayOf[now]
        done == {d \in TradingDays :
                    d < today \/ (d = today /\ Half[now] = "CLOSED")}
    IN  IF done = {} THEN 0 ELSE CHOOSE d \in done : \A e \in done : e <= d

(* CompleteShadowTradingDayPolicy.evaluate over the runs of a day.          *)
RunsOf(day) == {r \in runs : r.provider = Provider /\ DayOf[r.at] = day}
session_any(rs, half) == \E r \in rs : r.result = "PASSED" /\ r.valid > 0
session_complete(rs, half) ==
    \E r \in rs : r.result = "PASSED" /\ r.valid > 0 /\ Half[r.at] = half
Unless(held, reason) == IF held THEN {} ELSE {reason}
DayFailures(day, rs) ==
    Unless(day \in TradingDays, "not a trading day")
    \cup Unless(rs /= {}, "no shadow runs recorded")
    \cup Unless(session_complete(rs, "AM"), "morning session incomplete")
    \cup Unless(session_complete(rs, "PM"), "afternoon session incomplete")
    \cup Unless(\A r \in rs : r.fills <= 0, "PaperFill count increased")
    \cup Unless(\A r \in rs : ~r.mutated, "paper checksum changed")
    \cup Unless(\A r \in rs : r.schema = 0, "schema errors occurred")
    \cup Unless(\A r \in rs : r.network = 0, "network errors occurred")
    \cup Unless(\A r \in rs : r.result = "PASSED", "shadow runs failed")
    \cup Unless(\E r \in rs : r.valid >= Cardinality(Symbols),
                "symbol coverage below threshold")
DayStatus(day, rs) == IF DayFailures(day, rs) = {} THEN "COMPLETE"
                      ELSE "INCOMPLETE"

(* create_shadow_daily_report: a report that exists is written over.        *)
DayReport(day) ==
    LET rs == RunsOf(day)
    IN  [status |-> DayStatus(day, rs), at |-> now,
         received |-> SumFunction([r \in rs |-> r.received]),
         valid |-> SumFunction([r \in rs |-> r.valid]),
         fills |-> SumFunction([r \in rs |-> r.fills]),
         schema |-> SumFunction([r \in rs |-> r.schema]),
         immutable |-> \A r \in rs : ~r.mutated]
ReportOnly ==
    /\ latest_completed_trading_day /= 0
    /\ LET day == latest_completed_trading_day
       IN  reports' = [d \in DOMAIN reports \cup {day} |->
                          IF d = day THEN DayReport(day) ELSE reports[d]]
    /\ UNCHANGED <<feedVars, admissions, degraded, check, checks, escaped>>

-----------------------------------------------------------------------------
(* admission_status_summary: the last MinDays complete days, each against   *)
(* the thresholds.                                                          *)
CompleteDays == {d \in DOMAIN reports : reports[d].status = "COMPLETE"}
Checked == {d \in CompleteDays :
               Cardinality({e \in CompleteDays : e > d}) < MinDays}
Available(valid, received) ==
    received > 0 /\ valid * 100 >= MinAvailable * received
MetricsPass(rep) == /\ Available(rep.valid, rep.received)
                    /\ rep.schema = 0 /\ rep.fills = 0 /\ rep.immutable
SummaryStatus(configured) ==
    CASE ~configured -> "NOT_CONFIGURED"
      [] Cardinality(CompleteDays) < MinDays -> "OBSERVING"
      [] OTHER -> IF \A d \in Checked : MetricsPass(reports[d])
                  THEN "ELIGIBLE_FOR_REVIEW" ELSE "INELIGIBLE"

(* MarketDataAdmissionService.evaluate: the summary when there are daily    *)
(* reports, else the PASSED runs themselves, the last MinDays of them.  The *)
(* health row tells whether the provider is configured, not the settings.   *)
ProviderConfigured == health[Provider].status \notin {"NOT_CONFIGURED", "DISABLED"}
Passed == {r \in runs : r.provider = Provider /\ r.result = "PASSED"}
StatusFromRuns ==
    LET days == {DayOf[r.at] : r \in Passed}
        newest(set) == /\ set \subseteq Passed
                       /\ Cardinality(set) = MinDays
                       /\ \A r \in set, o \in Passed \ set :
                              DayOf[o.at] <= DayOf[r.at]
        good(r) == /\ Available(r.valid, r.received)
                   /\ r.schema = 0 /\ r.fills <= 0 /\ ~r.mutated
    IN  IF ~ProviderConfigured /\ Passed = {} THEN {"NOT_CONFIGURED"}
        ELSE IF Cardinality(days) < MinDays THEN {"OBSERVING"}
        ELSE {IF \A r \in set : good(r) THEN "ELIGIBLE_FOR_REVIEW"
              ELSE "INELIGIBLE" : set \in {s \in SUBSET Passed : newest(s)}}
Evaluate ==
    /\ Len(admissions) < MaxEvaluations
    /\ \E status \in IF DOMAIN reports = {} THEN StatusFromRuns
                     ELSE {SummaryStatus(ProviderConfigured)} :
           admissions' = Append(admissions, status)
    /\ UNCHANGED <<feedVars, reports, degraded, check, checks, escaped>>

(* MarketDataDegradationService.evaluate_and_record, asked about the        *)
(* provider's present status: one event per status and day, and with it a   *)
(* message deduplicated the same way, which the event stands for.           *)
DegradeStatuses == {"AUTH_FAILED", "PERMISSION_DENIED", "SCHEMA_CHANGED",
                    "UNAVAILABLE", "RATE_LIMITED", "MAINTENANCE"}
Degrade ==
    LET status == health[Provider].status
        event == [status |-> status, day |-> DayOf[now],
                  severity |-> IF status \in {"AUTH_FAILED", "SCHEMA_CHANGED"}
                               THEN "P0" ELSE "P1"]
    IN  /\ status \in DegradeStatuses
        /\ degraded' = degraded \cup {event}
        /\ UNCHANGED <<feedVars, reports, admissions, check, checks, escaped>>

-----------------------------------------------------------------------------
(* run_connectivity_check: the book is read before the poll and after it.   *)
NoCheck == [on |-> FALSE, began |-> FALSE, book |-> NoBook]
BeginCheck ==
    /\ ~check.on /\ checks = {}
    /\ gw[Provider].phase = "idle"
    /\ check' = IF Configured THEN [NoCheck EXCEPT !.on = TRUE, !.book = book]
                ELSE check
    /\ checks' = IF Configured THEN checks ELSE {"PROVIDER_NOT_CONFIGURED"}
    /\ UNCHANGED <<feedVars, reports, admissions, degraded, escaped>>
CheckPolls ==
    /\ check.on /\ ~check.began
    /\ BeginPoll(Provider)
    /\ check' = [check EXCEPT !.began = TRUE]
    /\ UNCHANGED <<reports, admissions, degraded, checks, escaped>>
CheckReturned(returned, before) == IF returned THEN "PASSED" ELSE "FAILED"
CheckStatus(returned, before) ==
    IF Checksum(before) /= Checksum(book) \/ book.fills > before.fills
    THEN "ACCOUNT_MUTATION_DETECTED"
    ELSE IF returned THEN "PASSED" ELSE "FAILED"
(* run_once returned when its run is there without a network error; a poll  *)
(* that raised left a failed run or none.                                   *)
CheckRun == {r \in runs : r.provider = Provider /\ r.at = gw[Provider].asOf}
EndCheck ==
    /\ check.began
    /\ gw[Provider].phase = "idle"
    /\ checks' = {CheckStatus(\E r \in CheckRun : r.network = 0, check.book)}
    /\ check' = NoCheck
    /\ UNCHANGED <<feedVars, reports, admissions, degraded, escaped>>

-----------------------------------------------------------------------------
AdmissionInit ==
    /\ FeedInit
    /\ reports = <<>>
    /\ admissions = <<>>
    /\ degraded = {}
    /\ check = NoCheck
    /\ checks = {}
    /\ escaped = {}

(* The gateway of QuoteFeed.  The operator runs the check while no other    *)
(* gateway of the provider runs.                                            *)
FeedRuns ==
    /\ \/ \E p \in Providers : PollStep(p)
       \/ \E p \in Providers : ~check.on /\ BeginPoll(p)
       \/ Tick
       \/ BookMoves \/ SwitchAccount
    /\ UNCHANGED admVars
Escape(p) ==
    /\ SchemaEscapes(p)
    /\ escaped' = escaped \cup {gw[p].asOf}
    /\ UNCHANGED <<reports, admissions, degraded, check, checks>>

AdmissionNext == \/ FeedRuns \/ \E p \in Providers : Escape(p)
        \/ ReportOnly \/ Evaluate \/ Degrade
        \/ BeginCheck \/ CheckPolls \/ EndCheck
AdmissionSpec == AdmissionInit /\ [][AdmissionNext]_admissionVars

-----------------------------------------------------------------------------
(* Properties.                                                              *)

(* Reports are dated days with counts that add up, evaluations are statuses *)
(* and a check stands within the poll it wraps.                             *)
AdmissionTypeOK ==
    /\ \A d \in DOMAIN reports :
          /\ reports[d].status \in {"COMPLETE", "INCOMPLETE"}
          /\ reports[d].valid <= reports[d].received
          /\ DayOf[reports[d].at] >= d
    /\ \A i \in DOMAIN admissions : admissions[i] \in AdmissionStatus
    /\ check.began => check.on
    /\ \A e \in degraded : e.status \in DegradeStatuses

(* A provider shown ELIGIBLE_FOR_REVIEW, by the stored evaluation or to the *)
(* operator, has the required number of days with a passed poll in each     *)
(* half, on which every poll whose run was stored before the day's report   *)
(* passed: no failed, fill-creating or book-changing poll is hidden by the  *)
(* report in between.                                                       *)
EligibleEarned ==
    (\E configured \in {ProviderConfigured, Configured} :
        SummaryStatus(configured) = "ELIGIBLE_FOR_REVIEW") =>
        MinDays <= Cardinality({d \in DOMAIN reports :
            /\ \A half \in {"AM", "PM"} : \E r \in RunsOf(d) :
                   r.result = "PASSED" /\ Half[r.at] = half
            /\ \A r \in RunsOf(d) :
                   r.stored < reports[d].at => r.result = "PASSED"})

(* A connectivity check that reports PASSED wrapped a poll that stored its  *)
(* batch, and between the reads of that poll no fill, order or ledger entry *)
(* was committed.  Its run PASSED too, unless the poll saw an account that  *)
(* was paused, or resumed, only between the check's own two reads.          *)
CheckImpliesRun ==
    [][checks' = {"PASSED"} /\ checks = {} =>
          \E r \in CheckRun :
              /\ ~r.touched /\ r.fills = 0
              /\ r.result \in {"PASSED", "ACCOUNT_MUTATION_DETECTED"}
       ]_admissionVars

(* A complete day had no schema error.                                      *)
CompleteDayCleanSchema ==
    \A d \in DOMAIN reports :
        reports[d].status = "COMPLETE" =>
            \A t \in escaped : DayOf[t] = d => t >= reports[d].at

(* What is stored of the admission is consistent, and eligibility is earned *)
(* by the polls themselves.                                                 *)
AdmissionEarned == AdmissionTypeOK /\ EligibleEarned
=============================================================================
