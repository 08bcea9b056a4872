----------------------------- MODULE QuoteFeed -----------------------------
(***************************************************************************)
(* The realtime quote ingestion of src/app/realtime_quotes.py: a gateway    *)
(* per provider polls it with retries, normalises and stores what comes     *)
(* back, records it to files, keeps the provider's health row and writes    *)
(* one shadow-run row per poll; the monitor selects the quote it matches    *)
(* with from the same table.                                                *)
(*                                                                          *)
(* A poll is three steps, because the code reads the paper book in one      *)
(* transaction, fetches without any, and in a second one works out what to  *)
(* write, reads the book again and commits: between them the clock moves,   *)
(* other providers store, the book trades and accounts are paused.          *)
(*                                                                          *)
(* Time is the index of an instant; DayOf gives its date.  A checksum is    *)
(* the raw quote it hashes.  A raw quote carries its one fault, if any.     *)
(***************************************************************************)
EXTENDS Integers, FiniteSets, SequencesExt

CONSTANTS
    Providers,      \* names of the configured providers
    Batches,        \* sequences of raw quotes a fetch may return
    Failures,       \* ways a fetch may fail, out of DOMAIN ErrorOf
    DayOf,          \* date of each instant
    MaxAge, Skew,   \* max_age_seconds and clock_skew_seconds, in instants
    PollAttempts,    \* of the retrying provider
    Threshold,      \* provider_failure_threshold
    Recovery,       \* provider_recovery_success_count
    Priority,       \* index of a provider in provider_priority
    ConflictPct,    \* provider_conflict_pct, in hundredths
    Recordings,     \* whether quotes are recorded to files: a set of BOOLEANs
    MaxPolls,       \* bound: polls of all providers together
    MaxMoves        \* bound: committed changes of the paper book, lasting or undone

VARIABLES
    now,        \* the clock
    recording,  \* a QuoteRecorder is configured
    quotes,     \* market_quote_snapshots, in insertion order
    files,      \* recorded quote files on disk
    health,     \* market_data_provider_status row of each provider
    gw,         \* where each gateway is in run_once
    runs,       \* provider_shadow_runs
    book,       \* the paper book, as far as a poll looks at it
    outbox,     \* MARKET_DATA_PROVIDER_STATUS messages: provider, status, day
    polls       \* polls started so far

feedVars == <<now, recording, quotes, files, health, gw, runs, book, outbox,
              polls>>

Instants == DOMAIN DayOf
ErrorTypes == {"CONNECTION_ERROR", "CONNECT_TIMEOUT", "READ_TIMEOUT",
    "RATE_LIMITED", "QUOTA_EXCEEDED", "TEMPORARY_SERVER_ERROR",
    "AUTHENTICATION_ERROR", "PERMISSION_DENIED", "INVALID_RESPONSE",
    "SCHEMA_CHANGED", "SYMBOL_NOT_FOUND", "PROVIDER_MAINTENANCE",
    "PROVIDER_DISABLED", "UNKNOWN_PROVIDER_ERROR"}
Retryable == {"CONNECTION_ERROR", "CONNECT_TIMEOUT", "READ_TIMEOUT",
    "RATE_LIMITED", "QUOTA_EXCEEDED", "TEMPORARY_SERVER_ERROR"}
(* LivePaperQuoteProvider: how a request can fail, and the error it is      *)
(* raised as.                                                               *)
ErrorOf ==
    [no_base_url |-> "PROVIDER_DISABLED", too_many_symbols |-> "INVALID_RESPONSE",
     connect_timeout |-> "CONNECT_TIMEOUT", read_timeout |-> "READ_TIMEOUT",
     refused |-> "CONNECTION_ERROR", other_http |-> "UNKNOWN_PROVIDER_ERROR",
     status_401 |-> "AUTHENTICATION_ERROR", status_403 |-> "PERMISSION_DENIED",
     status_429 |-> "RATE_LIMITED", status_429_quota |-> "QUOTA_EXCEEDED",
     status_404 |-> "SYMBOL_NOT_FOUND", status_503 |-> "PROVIDER_MAINTENANCE",
     status_5xx |-> "TEMPORARY_SERVER_ERROR", status_4xx |-> "INVALID_RESPONSE",
     not_json |-> "INVALID_RESPONSE", no_quotes |-> "SCHEMA_CHANGED",
     unmapped_field |-> "SCHEMA_CHANGED"]
Errors == {ErrorOf[f] : f \in Failures}
HealthStatus == {"DISABLED", "NOT_CONFIGURED", "HEALTHY", "DEGRADED",
    "RATE_LIMITED", "UNAVAILABLE", "AUTH_FAILED", "PERMISSION_DENIED",
    "SCHEMA_CHANGED", "MAINTENANCE"}
Qualities == {"VALID", "STALE", "OUT_OF_ORDER", "INVALID_PRICE",
    "INVALID_TIME", "INCOMPLETE", "PROVIDER_ERROR", "SUSPENSION_UNKNOWN",
    "LIMIT_RULE_UNKNOWN"}
RunResults == {"PASSED", "FAILED", "PROVIDER_NOT_CONFIGURED",
               "ACCOUNT_MUTATION_DETECTED", "FILL_CREATED_DETECTED"}

Faults == {"none", "missing", "nan", "price", "previous", "suspension",
           "limits", "schema"}
RawQuote == [symbol : STRING, time : Instants, price : Nat, fault : Faults]

ASSUME FeedAssumption ==
    /\ Failures \subseteq DOMAIN ErrorOf
    /\ Batches \subseteq Seq(RawQuote)
    /\ DayOf \in Seq(Nat) /\ DayOf # <<>>
    /\ \A s, t \in Instants : s <= t => DayOf[s] <= DayOf[t]
    /\ Priority \in [Providers -> Int]
    /\ {PollAttempts, MaxAge, Threshold, Recovery} \subseteq Nat \ {0}
    /\ {Skew, ConflictPct, MaxPolls, MaxMoves} \subseteq Nat
    /\ Recordings \subseteq BOOLEAN

-----------------------------------------------------------------------------
(* normalize_quote: the first failing test names the quality.  A quote      *)
(* without its required fields, or whose numbers do not compare, becomes a  *)
(* blank row dated at the moment of the request.                            *)
QuoteSnapshot ==
    [provider : Providers, symbol : STRING, time : Instants, price : Nat,
     checksum : RawQuote, quality : Qualities]
Blank(raw) == raw.fault \in {"missing", "nan"}
Quality(raw, asOf) ==
    CASE raw.fault = "missing" -> "INCOMPLETE"
      [] raw.fault = "nan" -> "PROVIDER_ERROR"
      [] raw.fault = "price" -> "INVALID_PRICE"
      [] raw.time > asOf + Skew \/ raw.time > now + Skew -> "INVALID_TIME"
      [] now - raw.time > MaxAge -> "STALE"
      [] raw.fault = "previous" -> "INCOMPLETE"
      [] raw.fault = "suspension" -> "SUSPENSION_UNKNOWN"
      [] raw.fault = "limits" -> "LIMIT_RULE_UNKNOWN"
      [] OTHER -> "VALID"
normalize_quote(raw, p, asOf) ==
    [provider |-> p, symbol |-> raw.symbol, checksum |-> raw,
     time |-> IF Blank(raw) THEN asOf ELSE raw.time,
     price |-> IF Blank(raw) THEN 0 ELSE raw.price,
     quality |-> Quality(raw, asOf)]

(* The two questions asked of the table before a snapshot is saved.  A      *)
(* quote_id hashes what is_duplicate compares, so a duplicate is never      *)
(* inserted again: the stored row stays as it is.                           *)
is_duplicate(rows, s) ==
    \E i \in DOMAIN rows : /\ rows[i].provider = s.provider
                           /\ rows[i].symbol = s.symbol
                           /\ rows[i].time = s.time
                           /\ rows[i].checksum = s.checksum
is_out_of_order(rows, s) ==
    \E i \in DOMAIN rows : /\ rows[i].provider = s.provider
                           /\ rows[i].symbol = s.symbol
                           /\ rows[i].quality = "VALID"
                           /\ rows[i].time > s.time
save_quote_snapshot(rows, s) ==
    IF is_duplicate(rows, s) THEN rows ELSE Append(rows, s)

(* A recording is named by date, symbol, time and checksum: the provider is *)
(* not part of the name, and a file that exists is an error.                *)
FileOf(s) == [symbol |-> s.symbol, time |-> s.time, checksum |-> s.checksum]

NoBatch == [rows |-> <<>>, files |-> {}, invalid |-> 0, duplicate |-> 0,
            late |-> 0, clash |-> FALSE]
SaveCommittedOrder(acc, s) ==
    LET late == is_out_of_order(quotes, s)
        marked == IF late THEN [s EXCEPT !.quality = "OUT_OF_ORDER"] ELSE s
    IN  [acc EXCEPT !.rows = save_quote_snapshot(@, marked)]
SaveOne(acc, s) ==
    LET late == is_out_of_order(acc.rows, s)
        marked == IF late THEN [s EXCEPT !.quality = "OUT_OF_ORDER"] ELSE s
        clash == recording /\ FileOf(s) \in acc.files
    IN  IF acc.clash THEN acc ELSE
        [rows |-> save_quote_snapshot(acc.rows, marked),
         files |-> IF recording THEN acc.files \cup {FileOf(s)} ELSE acc.files,
         invalid |-> acc.invalid + (IF marked.quality = "VALID" THEN 0 ELSE 1),
         duplicate |-> acc.duplicate
                       + (IF is_duplicate(acc.rows, s) THEN 1 ELSE 0),
         late |-> acc.late + (IF late THEN 1 ELSE 0),
         clash |-> clash]
Snapshots(p, batch, asOf) ==
    [i \in DOMAIN batch |-> normalize_quote(batch[i], p, asOf)]
Saved(p, batch, asOf) ==
    FoldLeft(SaveOne, [NoBatch EXCEPT !.rows = quotes, !.files = files],
             Snapshots(p, batch, asOf))
OfQuality(snaps, q) == Cardinality({i \in DOMAIN snaps : snaps[i].quality = q})

-----------------------------------------------------------------------------
(* _provider_success and _provider_failure.  `fell` is a history field: the *)
(* status the last failed poll left.                                        *)
NewHealth == [status |-> "DISABLED", failures |-> 0, successes |-> 0,
              day |-> 0, fell |-> "none"]
Broken == {"UNAVAILABLE", "AUTH_FAILED", "SCHEMA_CHANGED"}
StatusBackAtOnce(h, invalid) == IF invalid = 0 THEN "HEALTHY" ELSE "DEGRADED"
StatusAfterSuccess(h, invalid) ==
    CASE invalid = 0 /\ h.successes + 1 >= Recovery -> "HEALTHY"
      [] invalid = 0 /\ h.status \in Broken -> "DEGRADED"
      [] OTHER -> IF invalid = 0 THEN "HEALTHY" ELSE "DEGRADED"
StatusAfterFailure(h, err) ==
    CASE err = "PROVIDER_DISABLED" -> "NOT_CONFIGURED"
      [] err = "AUTHENTICATION_ERROR" -> "AUTH_FAILED"
      [] err = "PERMISSION_DENIED" -> "PERMISSION_DENIED"
      [] err \in {"RATE_LIMITED", "QUOTA_EXCEEDED"} -> "RATE_LIMITED"
      [] err = "PROVIDER_MAINTENANCE" -> "MAINTENANCE"
      [] err = "SCHEMA_CHANGED" -> "SCHEMA_CHANGED"
      [] OTHER -> IF h.failures + 1 >= Threshold THEN "UNAVAILABLE"
                  ELSE "DEGRADED"
Stamped(h, status, asOf) ==
    [h EXCEPT !.status = status,
              !.day = IF status = h.status THEN @ ELSE DayOf[asOf]]
provider_success(h, invalid, asOf) ==
    [Stamped(h, StatusAfterSuccess(h, invalid), asOf)
        EXCEPT !.failures = 0, !.successes = @ + 1]
provider_failure(h, err, asOf) ==
    LET status == StatusAfterFailure(h, err)
    IN  [Stamped(h, status, asOf)
            EXCEPT !.failures = @ + 1, !.successes = 0, !.fell = status]

(* _notify_provider_change: one message per provider, status and day.       *)
notify_provider_change(p, previous, current, asOf) ==
    IF previous = current THEN outbox
    ELSE outbox \cup {[provider |-> p, status |-> current, day |-> DayOf[asOf]]}

(* _save_provider_shadow_run: a row of a run_id that exists is kept.        *)
save_shadow_run(row) ==
    IF \E r \in runs : r.provider = row.provider /\ r.at = row.at
    THEN runs ELSE runs \cup {row}
(* _paper_state_checksum hashes the statuses, balances and quantities of    *)
(* the day, which can come back to what they were (an account is paused and *)
(* resumed), and the ids of orders and ledger entries, which only grow.     *)
Checksum(b) == <<b.switches % 2, b.moves>>

(* touched and stored are history fields: an order, a fill or a ledger      *)
(* entry was committed between the two reads, and when the row was.         *)
ShadowRun(p, g, result) ==
    [provider |-> p, at |-> g.asOf, ended |-> now, result |-> result,
     mutated |-> Checksum(g.book) /= Checksum(book),
     fills |-> book.fills - g.book.fills, received |-> 0, valid |-> 0,
     invalid |-> 0, stale |-> 0, duplicate |-> 0, late |-> 0, schema |-> 0,
     network |-> 0, touched |-> g.touched, stored |-> 0]

-----------------------------------------------------------------------------
(* A gateway between polls, in the fetch of one, and about to commit a run, *)
(* new rows of quotes, and a success or an error.                           *)
NoBook == [switches |-> 0, moves |-> 0, fills |-> 0]
NoRun == [result |-> "none"]
Idle == [phase |-> "idle", asOf |-> 0, attempt |-> 0, book |-> NoBook,
         touched |-> FALSE, run |-> NoRun, new |-> <<>>, err |-> "none"]

FeedInit ==
    /\ now = 1
    /\ recording \in Recordings
    /\ quotes = <<>>
    /\ files = {}
    /\ health = [p \in Providers |-> NewHealth]
    /\ gw = [p \in Providers |-> Idle]
    /\ runs = {}
    /\ book = NoBook
    /\ outbox = {}
    /\ polls = 0

(* run_once up to the fetch.  The clock has microseconds: two polls of one  *)
(* process never begin at the same instant.                                 *)
Polling(g) == [Idle EXCEPT !.phase = "fetch", !.asOf = now, !.attempt = 1,
                           !.book = g]
BeginPoll(p) ==
    /\ gw[p].phase = "idle"
    /\ polls < MaxPolls
    /\ gw[p].asOf < now
    /\ gw' = [gw EXCEPT ![p] = Polling(book)]
    /\ polls' = polls + 1
    /\ UNCHANGED <<now, recording, quotes, files, health, runs, book, outbox>>

(* RetryingQuoteProvider: a retryable error before the last attempt.        *)
MayRetry(err, attempt) == err \in Retryable /\ attempt < PollAttempts
Retry(p) ==
    /\ gw[p].phase = "fetch"
    /\ \E err \in Errors : MayRetry(err, gw[p].attempt)
    /\ gw' = [gw EXCEPT ![p].attempt = @ + 1]
    /\ UNCHANGED <<now, recording, quotes, files, health, runs, book, outbox,
                   polls>>

Done(p) == [gw EXCEPT ![p] = [Idle EXCEPT !.asOf = gw[p].asOf]]
ToCommit(p, run, new, err) ==
    [gw EXCEPT ![p] = [Idle EXCEPT !.phase = "commit", !.asOf = gw[p].asOf,
                                   !.run = run, !.new = new, !.err = err]]

(* The fetch fails for good: the exception goes on to the caller once the   *)
(* health and the failed run are committed.                                 *)
FetchFails(p) == \E err \in Errors :
    LET g == gw[p]
        result == IF err = "PROVIDER_DISABLED" THEN "PROVIDER_NOT_CONFIGURED"
                  ELSE "FAILED"
        run == [ShadowRun(p, g, result) EXCEPT !.network = 1]
    IN  /\ g.phase = "fetch"
        /\ ~MayRetry(err, g.attempt)
        /\ gw' = ToCommit(p, run, <<>>, err)
        /\ UNCHANGED <<now, recording, quotes, files, health, runs, book, outbox,
                       polls>>

(* The second transaction of run_once: its rows are inserted and recorded,  *)
(* and the book is read again.                                              *)
RunResultFills(row) ==
    IF row.fills > 0 THEN "FILL_CREATED_DETECTED" ELSE "PASSED"
RunResult(row) ==
    CASE row.fills > 0 -> "FILL_CREATED_DETECTED"
      [] row.mutated -> "ACCOUNT_MUTATION_DETECTED"
      [] OTHER -> "PASSED"
Added(rows) == SubSeq(rows, Len(quotes) + 1, Len(rows))
StoreBatch(p) == \E batch \in Batches :
    LET g == gw[p]
        saved == Saved(p, batch, g.asOf)
        snaps == Snapshots(p, batch, g.asOf)
        row == [ShadowRun(p, g, "PASSED")
                   EXCEPT !.received = Len(batch),
                          !.valid = OfQuality(snaps, "VALID"),
                          !.invalid = saved.invalid,
                          !.stale = OfQuality(snaps, "STALE"),
                          !.duplicate = saved.duplicate, !.late = saved.late,
                          !.schema = OfQuality(snaps, "PROVIDER_ERROR")]
        run == [row EXCEPT !.result = RunResult(row)]
    IN  /\ g.phase = "fetch"
        /\ \A i \in DOMAIN batch : batch[i].fault /= "schema"
        /\ ~saved.clash
        /\ files' = saved.files
        /\ gw' = ToCommit(p, run, Added(saved.rows), "none")
        /\ UNCHANGED <<now, recording, quotes, health, runs, book, outbox, polls>>

(* Either transaction commits.  No other process writes this provider's     *)
(* health row, so it is the one that was read.                              *)
HealthAfter(h, g) ==
    IF g.err = "none" THEN provider_success(h, g.run.invalid, g.asOf)
    ELSE provider_failure(h, g.err, g.asOf)
CommitPoll(p) ==
    LET g == gw[p]
        h == HealthAfter(health[p], g)
    IN  /\ g.phase = "commit"
        /\ quotes' = quotes \o g.new
        /\ health' = [health EXCEPT ![p] = h]
        /\ outbox' = notify_provider_change(p, health[p].status, h.status, g.asOf)
        /\ runs' = save_shadow_run([g.run EXCEPT !.stored = now])
        /\ gw' = Done(p)
        /\ UNCHANGED <<now, recording, files, book, polls>>

(* A value normalize_quote cannot parse raises a QuoteSchemaError outside   *)
(* every handler of run_once: nothing is written, not even the failure.     *)
SchemaEscapes(p) ==
    /\ gw[p].phase = "fetch"
    /\ \E batch \in Batches : \E i \in DOMAIN batch : batch[i].fault = "schema"
    /\ gw' = Done(p)
    /\ UNCHANGED <<now, recording, quotes, files, health, runs, book, outbox,
                   polls>>

(* QuoteRecorder.record meets a file that exists: the transaction is lost,  *)
(* the files written before the clash stay.                                 *)
RecordingClashes(p) == \E batch \in Batches :
    LET saved == Saved(p, batch, gw[p].asOf)
    IN  /\ gw[p].phase = "fetch"
        /\ \A i \in DOMAIN batch : batch[i].fault /= "schema"
        /\ saved.clash
        /\ files' = saved.files
        /\ gw' = Done(p)
        /\ UNCHANGED <<now, recording, quotes, health, runs, book, outbox, polls>>

(* The clock, and the paper book's own traffic.                             *)
(* A poll lasts at most an instant more than the one it began in.           *)
Tick ==
    /\ now + 1 \in Instants
    /\ \A p \in Providers : gw[p].phase /= "idle" => gw[p].asOf = now
    /\ now' = now + 1
    /\ UNCHANGED <<recording, quotes, files, health, gw, runs, book, outbox,
                   polls>>
(* An order or a ledger entry is committed, a fill with it or not.          *)
BookMoves ==
    /\ book.moves + book.switches < MaxMoves
    /\ \E filled \in {0, 1} :
           book' = [book EXCEPT !.moves = @ + 1, !.fills = @ + filled]
    /\ gw' = [p \in Providers |->
                 IF gw[p].phase = "fetch" THEN [gw[p] EXCEPT !.touched = TRUE]
                 ELSE gw[p]]
    /\ UNCHANGED <<now, recording, quotes, files, health, runs, outbox, polls>>
(* pause_account and resume_account.                                        *)
SwitchAccount ==
    /\ book.moves + book.switches < MaxMoves
    /\ book' = [book EXCEPT !.switches = @ + 1]
    /\ UNCHANGED <<now, recording, quotes, files, health, gw, runs, outbox, polls>>

PollStep(p) == \/ Retry(p) \/ FetchFails(p) \/ StoreBatch(p)
               \/ RecordingClashes(p) \/ CommitPoll(p)
GatewayStep(p) == PollStep(p) \/ SchemaEscapes(p)
FeedStep == \/ \E p \in Providers : BeginPoll(p) \/ GatewayStep(p)
            \/ Tick \/ BookMoves \/ SwitchAccount
Resting == now + 1 \notin Instants /\ UNCHANGED feedVars
FeedNext == FeedStep \/ Resting
FeedSpec == FeedInit /\ [][FeedNext]_feedVars

-----------------------------------------------------------------------------
(* QuoteSelectionService.select_for_matching for a symbol on today's date;  *)
(* NoQuote stands for its two exceptions.                                   *)
NoQuote == [time |-> 0]
latest_valid_quotes(symbol, t) ==
    {r \in ToSet(quotes) : /\ r.symbol = symbol
                           /\ r.quality = "VALID"
                           /\ DayOf[r.time] = DayOf[t]
                           /\ r.time <= t}
Fresh(symbol, t) == {r \in latest_valid_quotes(symbol, t) : t - r.time <= MaxAge}
AnyFresh(rows) == rows
Latest(rows) == {r \in rows : \A o \in rows : o.time <= r.time}
Conflict(rows) == \E a, b \in rows :
    /\ a.provider /= b.provider
    /\ \A r \in rows : a.price <= r.price /\ r.price <= b.price
    /\ (b.price - a.price) * 100 > ConflictPct * a.price
select_for_matching(symbol) ==
    LET rows == Latest(Fresh(symbol, now))
    IN  IF rows = {} \/ Conflict(rows) THEN NoQuote
        ELSE CHOOSE r \in rows :
                 \A o \in rows : Priority[r.provider] <= Priority[o.provider]
Symbols == UNION {{b[i].symbol : i \in DOMAIN b} : b \in Batches}

-----------------------------------------------------------------------------
(* Properties.                                                              *)

(* Every table holds rows of its shape.                                     *)
FeedTypeOK ==
    /\ now \in Instants
    /\ quotes \in Seq(QuoteSnapshot)
    /\ \A p \in Providers : /\ health[p].status \in HealthStatus
                            /\ gw[p].attempt \in 0..PollAttempts
                            /\ health[p].failures = 0 \/ health[p].successes = 0
    /\ \A r \in runs : /\ r.result \in RunResults
                       /\ r.at <= r.ended
                       /\ r.valid + r.stale + r.schema <= r.received
                       /\ r.fills \in Nat

(* The quotes of one provider that count as valid never go back in time in  *)
(* the order they were stored, within one batch and across polls.           *)
ValidRowsInOrder ==
    \A i, j \in DOMAIN quotes :
        /\ i < j /\ quotes[i].provider = quotes[j].provider
        /\ quotes[i].symbol = quotes[j].symbol
        /\ quotes[i].quality = "VALID" /\ quotes[j].quality = "VALID"
        => quotes[i].time <= quotes[j].time

(* The quote a monitor matches with never goes back in time, whichever      *)
(* provider it comes from and however late another provider stores: a later *)
(* selection of the same symbol is at least as recent, or there is none.    *)
SelectionNeverGoesBack ==
    [][\A s \in Symbols :
          LET old == select_for_matching(s)
              new == select_for_matching(s)'
          IN  old.time > 0 /\ new.time > 0 => old.time <= new.time]_feedVars

(* A provider that failed to the point of UNAVAILABLE, AUTH_FAILED or       *)
(* SCHEMA_CHANGED is not HEALTHY again at once, unless one success is all   *)
(* that is configured: it takes a second poll that succeeds, with no        *)
(* failure between them.  It takes no third, whatever number is configured: *)
(* the second poll finds DEGRADED, from which any success leads to HEALTHY. *)
NotHealthyAtOnce ==
    \A p \in Providers :
        health[p].status = "HEALTHY" /\ health[p].fell \in Broken
        => health[p].successes >= Recovery \/ health[p].successes >= 2

(* The status a provider stands at was announced on the day it was entered: *)
(* the day-wide deduplication of messages drops no change of status.        *)
StatusAnnounced ==
    \A p \in Providers :
        health[p].day /= 0 =>
            [provider |-> p, status |-> health[p].status,
             day |-> health[p].day] \in outbox

(* A poll whose shadow run PASSED had no fill, order or ledger entry        *)
(* committed between its two reads of the book, whichever transaction made  *)
(* it, and found the accounts as they were.  That they were paused and      *)
(* resumed in between, or that the book moved between the second read and   *)
(* the commit, it cannot tell.                                              *)
PassedMeansUntouched ==
    \A r \in runs : r.result = "PASSED" =>
        ~r.touched /\ ~r.mutated /\ r.fills = 0

(* What is stored of the polls is consistent: counts add up, and no valid   *)
(* quote of a provider is older than one stored before it.                  *)
RowsKept == FeedTypeOK /\ ValidRowsInOrder

(* The health row of a provider is earned by its polls and was announced.   *)
HealthEarned == NotHealthyAtOnce /\ StatusAnnounced
=============================================================================
