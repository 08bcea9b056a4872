----------------------------- MODULE DailyBars -----------------------------
(***************************************************************************)
(* The daily bar provider (src/app/data_provider.py): threads of one        *)
(* process fetch the history of a symbol through a file cache, a rate       *)
(* limiter they share, and retries; what comes back is validated against    *)
(* the trading calendar.                                                    *)
(*                                                                          *)
(* A thread holds the limiter's lock for a step at a time.  The process may *)
(* be restarted, which forgets the limiter and keeps the files.  A file may *)
(* be changed from outside.  Bars are their dates and whether their values  *)
(* are sound; a checksum is the bars it was computed from.                  *)
(***************************************************************************)
EXTENDS Integers, FiniteSets, SequencesExt

CONSTANTS
    Threads, Symbols,
    TradingDays, FirstDay, LastDay,     \* the calendar and its coverage
    Fetched,                \* bars the provider may return
    MinBars, Lookback, MaxStale,
    RefreshLatest,          \* CacheConfig.refresh_latest
    PerSecond, PerMinute, MaxConcurrency,
    Second, Minute,         \* lengths of the windows, in ticks
    FetchAttempts, Backoff, MaxBackoff,   \* RetryConfig; Backoff is the first wait
    NoDay, NoBars,
    MaxClock, MaxCalls, MaxMishaps      \* bounds

ASSUME DailyBarsAssumption ==
    /\ FirstDay \in Int /\ LastDay \in Int /\ TradingDays \subseteq FirstDay..LastDay
    /\ NoDay \notin Int
    /\ MinBars \in Nat \ {0} /\ Lookback \in Nat \ {0} /\ MaxStale \in Nat
    /\ PerSecond \in Nat \ {0} /\ PerMinute \in Nat \ {0}
    /\ MaxConcurrency \in Nat \ {0} /\ FetchAttempts \in Nat \ {0}
    /\ Second \in Nat \ {0} /\ Minute \in Nat \ {0} /\ Second <= Minute
    /\ Backoff \in Nat /\ MaxBackoff \in Nat /\ Backoff <= MaxBackoff
    /\ RefreshLatest \in BOOLEAN
    /\ Symbols # {} /\ Fetched \subseteq [dates : Seq(Int), sound : BOOLEAN]
    /\ MaxClock \in Nat /\ MaxCalls \in Nat /\ MaxMishaps \in Nat

VARIABLES
    clock,      \* monotonic clock of the limiter
    now,        \* the business date, and whether the market has closed
    caller,     \* the call each thread is in
    answer,     \* what the last call of each thread returned
    files,      \* the cache file of each symbol and expected date
    active,     \* _active
    events,     \* _minute_events; _second_events are the latest of them
    starts,     \* when each fetch began (history)
    genuine,    \* valid bars the provider has returned (history)
    calls, mishaps      \* counters

barsVars == <<clock, now, caller, answer, files, active, events, starts,
              genuine, calls, mishaps>>

----------------------------------------------------------------------------
(* LocalTradingCalendar: NoDay stands for MarketDataError.                  *)

Covered(day) == FirstDay <= day /\ day <= LastDay
DayBefore(day) == {d \in TradingDays : d < day}
previous_trading_day(day) ==
    IF Covered(day) /\ DayBefore(day) # {}
    THEN CHOOSE d \in DayBefore(day) : \A e \in DayBefore(day) : e <= d
    ELSE NoDay
ExpectedDate(at) ==
    IF ~Covered(at.day) THEN NoDay
    ELSE IF at.day \notin TradingDays \/ ~at.closed THEN previous_trading_day(at.day)
    ELSE at.day

----------------------------------------------------------------------------
(* normalize_and_validate_daily_bars *)

LastDate(bars) == bars.dates[Len(bars.dates)]
Ascending(dates) == \A i \in 1..Len(dates) - 1 : dates[i] < dates[i + 1]
\* Trading days between two dates, less one; without coverage there is none.
Lag(from, to) == Cardinality({d \in TradingDays : from <= d /\ d <= to}) - 1
UpToDate(bars, expected) ==
    /\ LastDate(bars) <= expected
    /\ LastDate(bars) < expected =>
        Covered(LastDate(bars)) /\ Lag(LastDate(bars), expected) <= MaxStale
Valid(bars, expected) ==
    /\ bars.dates # <<>> /\ bars.sound
    /\ Ascending(bars.dates)
    /\ UpToDate(bars, expected)
    /\ Len(bars.dates) >= MinBars /\ Lookback >= MinBars
Output(bars) ==
    [bars EXCEPT !.dates = IF Len(@) <= Lookback THEN @
                           ELSE SubSeq(@, Len(@) - Lookback + 1, Len(@))]

----------------------------------------------------------------------------
FetchSteps == {"idle", "lookup", "begin", "acquire", "fetching", "writing"}
Bars == Fetched \cup {Output(b) : b \in Fetched}
\* expected: the date the call looks for in the cache; against: the one the
\* provider fetches and validates for, read from the clock a second time.
Caller == [step : FetchSteps, symbol : Symbols, expected : Int \cup {NoDay},
           against : Int \cup {NoDay}, attempt : Nat \ {0}, until : Nat, bars : Bars \cup {NoBars}]
Answers == [kind : {"none", "error", "hit", "miss"}, bars : Bars \cup {NoBars},
            asked : Int \cup {NoDay}, expected : Int \cup {NoDay}]
NoAnswer == [kind |-> "none", bars |-> NoBars, asked |-> NoDay, expected |-> NoDay]
Failed == [NoAnswer EXCEPT !.kind = "error"]
Keys == Symbols \X TradingDays
\* A cache file: what it holds, the bars its checksum was computed from,
\* and whether it can be read at all.
File == [there : BOOLEAN, bars : Bars \cup {NoBars}, checksum : Bars \cup {NoBars},
         whole : BOOLEAN]
NoFile == [there |-> FALSE, bars |-> NoBars, checksum |-> NoBars, whole |-> TRUE]
AtRest == [step |-> "idle", symbol |-> CHOOSE s \in Symbols : TRUE,
           expected |-> NoDay, against |-> NoDay, attempt |-> 1, until |-> 0,
           bars |-> NoBars]

BarsInit ==
    /\ clock = 0
    /\ now = [day |-> FirstDay, closed |-> FALSE]
    /\ caller = [t \in Threads |-> AtRest]
    /\ answer = [t \in Threads |-> NoAnswer]
    /\ files = [k \in Keys |-> NoFile]
    /\ active = 0 /\ events = <<>> /\ starts = <<>> /\ genuine = {}
    /\ calls = 0 /\ mishaps = 0

Returned(t, result) ==
    /\ answer' = [answer EXCEPT ![t] = result]
    /\ caller' = [caller EXCEPT ![t] = AtRest]

\* _read_cache (mutant: the checksum is not compared)
ReadsUnchecked(file, expected) == file.whole /\ Valid(file.bars, expected)
ReadsWell(file, expected) ==
    file.whole /\ Valid(file.bars, expected) /\ file.checksum = file.bars

\* CachedMarketDataProvider.fetch_daily_history: the clock gives the date that
\* names the cache file.
FetchDailyHistory(t, s) ==
    /\ caller[t].step = "idle" /\ calls < MaxCalls
    /\ calls' = calls + 1
    /\ IF ExpectedDate(now) = NoDay THEN Returned(t, Failed)
       ELSE /\ caller' = [caller EXCEPT ![t] = [AtRest EXCEPT
                   !.step = "lookup", !.symbol = s, !.expected = ExpectedDate(now)]]
            /\ answer' = [answer EXCEPT ![t] = NoAnswer]
    /\ UNCHANGED <<clock, now, files, active, events, starts, genuine, mishaps>>

must_refresh(expected) == RefreshLatest /\ expected = ExpectedDate(now)

\* The clock is read again to tell whether the date is still the latest.
CannotTell == RefreshLatest /\ ExpectedDate(now) = NoDay

\* A file that cannot be read is an error, never a reason to fetch again.
LookUp(t) ==
    LET c == caller[t]
        file == files[<<c.symbol, c.expected>>] IN
    /\ c.step = "lookup"
    /\ IF file.there /\ (CannotTell \/ ~must_refresh(c.expected))
       THEN IF ~CannotTell /\ ReadsWell(file, c.expected)
            THEN Returned(t, [kind |-> "hit", bars |-> file.bars,
                              asked |-> c.expected, expected |-> c.expected])
            ELSE Returned(t, Failed)
       ELSE caller' = [caller EXCEPT ![t].step = "begin"] /\ UNCHANGED answer
    /\ UNCHANGED <<clock, now, files, active, events, starts, genuine, calls, mishaps>>

\* AkshareMarketDataProvider.fetch_daily_history reads the clock once more; that
\* date stands through every wait and every attempt.
BeginFetch(t) ==
    /\ caller[t].step = "begin"
    /\ IF ExpectedDate(now) = NoDay THEN Returned(t, Failed)
       ELSE /\ caller' = [caller EXCEPT ![t].step = "acquire",
                                        ![t].against = ExpectedDate(now)]
            /\ UNCHANGED answer
    /\ UNCHANGED <<clock, now, files, active, events, starts, genuine, calls, mishaps>>

----------------------------------------------------------------------------
(* RateLimiter *)

Recent(window) ==
    FoldLeft(LAMBDA kept, e : IF clock - e < window THEN Append(kept, e) ELSE kept,
             <<>>, events)
WaitIn(window, limit) ==
    IF Len(Recent(window)) >= limit THEN window - (clock - Recent(window)[1]) ELSE 0
WaitFor == IF WaitIn(Second, PerSecond) >= WaitIn(Minute, PerMinute)
           THEN WaitIn(Second, PerSecond) ELSE WaitIn(Minute, PerMinute)

\* (mutant: one too many)
AtLimitAfter == active > MaxConcurrency
AtLimit == active >= MaxConcurrency

\* A thread that would exceed the concurrency is refused, not made to wait.
Acquire(t) ==
    /\ caller[t].step = "acquire" /\ clock >= caller[t].until
    /\ IF AtLimit
       THEN /\ Returned(t, Failed)
            /\ UNCHANGED <<active, starts>>
       ELSE /\ IF WaitFor > 0
               THEN /\ caller' = [caller EXCEPT ![t].until = clock + WaitFor]
                    /\ UNCHANGED <<active, starts>>
               ELSE /\ caller' = [caller EXCEPT ![t].step = "fetching"]
                    /\ active' = active + 1
                    /\ starts' = Append(starts, clock)
            /\ UNCHANGED answer
    /\ events' = IF ~AtLimit /\ WaitFor = 0 THEN Append(Recent(Minute), clock)
                                            ELSE Recent(Minute)
    /\ UNCHANGED <<clock, now, files, genuine, calls, mishaps>>

Release(raised) == IF active > 0 THEN active - 1 ELSE 0

\* The bars are validated against the date the fetch began with, whatever has
\* closed since; it may be later than the one the cache was asked for.
GotBars(t, raw) ==
    /\ caller[t].step = "fetching"
    /\ active' = Release(FALSE)
    /\ IF Valid(raw, caller[t].against)
       THEN /\ caller' = [caller EXCEPT ![t].step = "writing",
                                        ![t].bars = Output(raw)]
            /\ genuine' = genuine \cup {Output(raw)}
            /\ UNCHANGED answer
       ELSE Returned(t, Failed) /\ UNCHANGED genuine
    /\ UNCHANGED <<clock, now, files, events, starts, calls, mishaps>>

\* (mutant: attempts are not counted)
SameAttempt(attempt) == attempt
AttemptAfter(attempt) == attempt + 1
WaitBefore(attempt) ==
    LET wait == Backoff * 2 ^ (attempt - 1) IN
    IF wait <= MaxBackoff THEN wait ELSE MaxBackoff

\* A timeout, a lost connection or a recoverable error is retried.
FetchFails(t) ==
    /\ caller[t].step = "fetching"
    /\ active' = Release(TRUE)
    /\ IF caller[t].attempt < FetchAttempts
       THEN /\ caller' = [caller EXCEPT ![t].step = "acquire",
                 ![t].attempt = AttemptAfter(@),
                 ![t].until = clock + WaitBefore(caller[t].attempt)]
            /\ UNCHANGED answer
       ELSE Returned(t, Failed)
    /\ UNCHANGED <<clock, now, files, events, starts, genuine, calls, mishaps>>

\* Any other exception is not retried; that of the limiter is one (see Acquire).
FetchRaises(t) ==
    /\ caller[t].step = "fetching"
    /\ active' = Release(TRUE)
    /\ Returned(t, Failed)
    /\ UNCHANGED <<clock, now, files, events, starts, genuine, calls, mishaps>>

\* _write_cache: the file of the date the call asked for is replaced by a whole
\* one, though its bars may reach the next date.
WriteCache(t) ==
    LET c == caller[t] IN
    /\ c.step = "writing"
    /\ files' = [files EXCEPT ![<<c.symbol, c.expected>>] =
          [there |-> TRUE, bars |-> c.bars, checksum |-> c.bars, whole |-> TRUE]]
    /\ Returned(t, [kind |-> "miss", bars |-> c.bars,
                    asked |-> c.expected, expected |-> c.against])
    /\ UNCHANGED <<clock, now, active, events, starts, genuine, calls, mishaps>>

----------------------------------------------------------------------------
(* What happens to the process. *)

\* The process is killed and starts again; a file that was being written under
\* its temporary name is not read, and the limiter's memory is empty.
Restart ==
    /\ mishaps < MaxMishaps
    /\ mishaps' = mishaps + 1
    /\ caller' = [t \in Threads |-> AtRest]
    /\ answer' = [t \in Threads |-> NoAnswer]
    /\ active' = 0 /\ events' = <<>> /\ starts' = <<>>
    /\ UNCHANGED <<clock, now, files, genuine, calls>>

\* Somebody else changes a file: it can no longer be read, or its bars differ.
Tamper(k) ==
    /\ files[k].there /\ mishaps < MaxMishaps
    /\ mishaps' = mishaps + 1
    /\ \E b \in Bars, whole \in BOOLEAN :
        files' = [files EXCEPT ![k] = [@ EXCEPT !.bars = b, !.whole = whole]]
    /\ UNCHANGED <<clock, now, caller, answer, active, events, starts, genuine, calls>>

Working(t) == \/ LookUp(t) \/ BeginFetch(t)
              \/ Acquire(t) \/ (\E raw \in Fetched : GotBars(t, raw))
              \/ FetchFails(t) \/ FetchRaises(t) \/ WriteCache(t)

\* Some thread has something to wait for.
Tock ==
    /\ clock < MaxClock
    /\ \E t \in Threads : caller[t].until > clock
    /\ clock' = clock + 1
    /\ UNCHANGED <<now, caller, answer, files, active, events, starts, genuine, calls, mishaps>>

DayPasses ==
    /\ now.day <= LastDay
    /\ now' = IF now.closed THEN [day |-> now.day + 1, closed |-> FALSE]
              ELSE [now EXCEPT !.closed = TRUE]
    /\ UNCHANGED <<clock, caller, answer, files, active, events, starts, genuine, calls, mishaps>>

BarsStep == \/ \E t \in Threads : \/ Working(t)
                                  \/ \E s \in Symbols : FetchDailyHistory(t, s)
            \/ Tock \/ DayPasses \/ Restart \/ \E k \in Keys : Tamper(k)

\* Nobody may call.
Unasked == UNCHANGED barsVars

BarsNext == BarsStep \/ Unasked
\* Threads run, fetches return or time out, and time passes.
BarsSpec == /\ BarsInit /\ [][BarsNext]_barsVars
            /\ WF_barsVars(Tock) /\ \A t \in Threads : WF_barsVars(Working(t))

----------------------------------------------------------------------------
(* Properties.                                                              *)

Fetching == {t \in Threads : caller[t].step = "fetching"}

\* Every variable has its type, and the limiter counts the threads that are
\* fetching, on every way out of a fetch.
BarsTypeOK ==
    /\ clock \in Nat /\ now \in [day : Int, closed : BOOLEAN]
    /\ caller \in [Threads -> Caller] /\ answer \in [Threads -> Answers]
    /\ files \in [Keys -> File]
    /\ events \in Seq(Nat) /\ starts \in Seq(Nat) /\ genuine \subseteq Bars
    /\ calls \in 0..MaxCalls /\ mishaps \in 0..MaxMishaps
    /\ active = Cardinality(Fetching)

\* Threads that fetch at once, and fetches begun within a second or a minute,
\* are never more than the limits, however long some of them had to wait.
LimitsKept ==
    /\ Cardinality(Fetching) <= MaxConcurrency
    /\ \A i \in 1..Len(starts) :
        /\ i + PerSecond <= Len(starts) => starts[i + PerSecond] - starts[i] >= Second
        /\ i + PerMinute <= Len(starts) => starts[i + PerMinute] - starts[i] >= Minute

\* What a call returns, from the cache or not, ends with a trading day that had
\* closed, at most MaxStale trading days before the date it was validated for,
\* and that date is no earlier than the one the cache was asked for.
AnswersCurrent ==
    \A t \in Threads :
        LET a == answer[t] IN
        a.kind \in {"hit", "miss"} =>
            /\ Ascending(a.bars.dates) /\ Len(a.bars.dates) >= MinBars
            /\ LastDate(a.bars) < now.day \/ (LastDate(a.bars) = now.day /\ now.closed)
            /\ a.asked <= a.expected /\ LastDate(a.bars) <= a.expected
            /\ Lag(LastDate(a.bars), a.expected) <= MaxStale

\* What a call returns was delivered by the provider: bars that were changed in
\* the cache are never passed on.
AnswersGenuine ==
    \A t \in Threads : answer[t].bars # NoBars => answer[t].bars \in genuine

\* Every call returns.
CallReturns ==
    \A t \in Threads : caller[t].step # "idle" ~> caller[t].step = "idle"

\* The rate limiter leaks no slot and keeps its limits.
LimiterSound == BarsTypeOK /\ LimitsKept

\* What a call returns is current for the date the call began with or a later
\* one, and came from the provider, whatever became of the file in between and
\* whichever of its clock readings the close of the market fell between.
AnswersSound == AnswersCurrent /\ AnswersGenuine
=============================================================================
