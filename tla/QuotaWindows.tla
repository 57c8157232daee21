---------------------------- MODULE QuotaWindows ----------------------------
(***************************************************************************)
(* Pace, forecast and availability of a quota window (quota.rs).           *)
(*                                                                         *)
(* Time is in minutes, a reading is a whole percentage.  A point is a run  *)
(* of equal observations: [since, ts, count, primary, secondary].  A pace  *)
(* is kept as the pair it is the quotient of, and a reserve is multiplied  *)
(* by the minutes of its window, so nothing is rounded but the instant of  *)
(* a projected exhaustion.                                                 *)
(***************************************************************************)
EXTENDS Absent, Integers, Sequences, SequencesExt, FiniteSetsExt

CONSTANTS DropThreshold, MinEvidence, SpanFraction,
          Weekly, Monthly, Daily, WeeklyTolerance, MonthlyTolerance, DailyTolerance,
          LiveMaxAge

Within(minutes, centre, tolerance) ==
    minutes \in (centre - tolerance)..(centre + tolerance)

ClassifyWindowKind(minutes) ==
    CASE minutes = None -> "other"
      [] minutes # None /\ Within(minutes, Weekly, WeeklyTolerance) -> "weekly"
      [] minutes # None /\ Within(minutes, Monthly, MonthlyTolerance) -> "monthly"
      [] minutes # None /\ Within(minutes, Daily, DailyTolerance) -> "daily"
      [] OTHER -> "burst"

Rank(c) == CASE c = "high" -> 2 [] c = "medium" -> 1 [] c = "low" -> 0
Downgrade(current, cap) == IF Rank(cap) < Rank(current) THEN cap ELSE current

Clamp(x, low, high) == IF x < low THEN low ELSE IF x > high THEN high ELSE x

\* The observations of one of the two windows of every point that has it.
WindowSeries(points, pick) ==
    LET has == SelectSeq(points, LAMBDA p : p[pick] # None)
    IN  [i \in DOMAIN has |-> [since |-> has[i].since, ts |-> has[i].ts,
                               count |-> has[i].count, window |-> has[i][pick]]]

\* Where the newest large drop of the counter began; None without one.
DetectCounterDecrease(series) ==
    LET drops == {i \in 2..Len(series) :
                    series[i - 1].window.used - series[i].window.used >= DropThreshold}
    IN  IF drops = {} THEN None ELSE series[Max(drops)].since

\* A bug: the stored points are counted, not the observations they stand for.
EvidenceIsPoints(in) == Len(in)

Evidence(in) == FoldSeq(LAMBDA p, n : p.count + n, 0, in)

ProjectedExhaustion(last, delta, span, reset, now) ==
    LET at == now + (Clamp(100 - last.window.used, 0, 100) * span) \div delta
    IN  IF delta = 0 \/ (reset # None /\ at >= reset) THEN None ELSE at

ForecastFromSeries(series, started, minutes, reset, now) ==
    LET in == SelectSeq(series, LAMBDA p : p.ts >= started /\ p.ts <= now)
        last == in[Len(in)]
        first == IF in[1].since > started THEN in[1].since ELSE started
        span == last.ts - first
        delta == last.window.used - in[1].window.used
    IN  IF \/ minutes = None \/ minutes <= 0
           \/ Evidence(in) < MinEvidence
           \/ span * SpanFraction < minutes \/ span <= 0
           \/ delta < 0
        THEN None
        ELSE [pace |-> <<delta, span>>,
              exhaustion |-> ProjectedExhaustion(last, delta, span, reset, now),
              reserve |-> last.window.used * minutes - 100 * Clamp(now - started, 0, minutes),
              evidence |-> Evidence(in)]

EmptyWindow(kind, unit, minutes, reset, at) ==
    [kind |-> kind, unit |-> unit, minutes |-> minutes, used |-> None, remaining |-> None,
     unlimited |-> FALSE, reset |-> reset, started |-> None, basis |-> "unknown",
     observed_at |-> at, confidence |-> "high", stale |-> FALSE, unavailable |-> None,
     forecast |-> None]

\* A reading from the future has no age: it is shown without its numbers.
Skewed(window) == [window EXCEPT !.unavailable = "clock_skew", !.confidence = "low"]

BuildPercentWindow(series, now, max_age) ==
    LET latest == series[Len(series)]
        w == latest.window
        empty == EmptyWindow(ClassifyWindowKind(w.minutes), "percent", w.minutes, w.reset, latest.ts)
        stale == now - latest.ts > max_age \/ (w.reset # None /\ w.reset <= now)
        drop == DetectCounterDecrease(series)
        basis == IF drop # None THEN "counter_decrease"
                 ELSE IF w.reset # None /\ w.minutes # None THEN "reset_schedule" ELSE "unknown"
        started == CASE basis = "counter_decrease" -> drop
                     [] basis = "reset_schedule" -> w.reset - w.minutes
                     [] OTHER -> None
        confidence == IF stale THEN Downgrade("high", "low") ELSE "high"
    IN  IF latest.ts > now THEN Skewed(empty)
        ELSE [empty EXCEPT
                !.used = Clamp(w.used, 0, 100), !.remaining = Clamp(100 - w.used, 0, 100),
                !.stale = stale, !.started = started, !.basis = basis,
                !.confidence = IF basis = "unknown" THEN confidence ELSE Downgrade(confidence, "medium"),
                !.forecast = IF stale \/ started = None THEN None
                             ELSE ForecastFromSeries(series, started, w.minutes, w.reset, now)]

\* An account is [unlimited, balance, at]: a plan without either has no window.
BuildCreditWindow(account, now, max_age) ==
    LET at == IF account.at = None THEN now ELSE account.at
        empty == EmptyWindow("credit_balance", "credits", None, None, at)
        stale == now - at > max_age
    IN  IF at > now THEN Skewed(empty)
        ELSE [empty EXCEPT !.remaining = IF account.unlimited = TRUE THEN None ELSE account.balance,
                           !.unlimited = account.unlimited = TRUE, !.stale = stale,
                           !.confidence = IF stale THEN Downgrade(@, "low") ELSE @]

HasCredits(account) == account.unlimited = TRUE \/ account.balance # None

PercentWindows(series, now, max_age) ==
    IF series = << >> THEN << >> ELSE <<BuildPercentWindow(series, now, max_age)>>
CreditWindows(account, now, max_age) ==
    IF HasCredits(account) THEN <<BuildCreditWindow(account, now, max_age)>> ELSE << >>

Snapshot(provenance, windows) ==
    [provenance |-> provenance, windows |-> windows,
     unavailable |-> IF windows = << >> THEN "no_observation" ELSE None]

BuildQuotaSnapshot(supported, points, account, now, max_age) ==
    IF ~supported
    THEN [provenance |-> "transcript", windows |-> << >>, unavailable |-> "no_quota_source"]
    ELSE Snapshot("transcript",
           PercentWindows(WindowSeries(points, "primary"), now, max_age)
           \o PercentWindows(WindowSeries(points, "secondary"), now, max_age)
           \o CreditWindows(account, now, max_age))

\* One live reading: no forecast can rest on it, and no earlier reset.
LiveWindows(value, at, now) ==
    IF value = None THEN << >>
    ELSE LET one == <<[since |-> at, ts |-> at, count |-> 1, window |-> value]>>
         IN  <<[BuildPercentWindow(one, now, LiveMaxAge) EXCEPT !.started = None, !.basis = "unknown"]>>

LiveBucketSnapshot(bucket, at, now) ==
    Snapshot("live",
        LiveWindows(bucket.primary, at, now) \o LiveWindows(bucket.secondary, at, now)
        \o IF bucket.credits = None THEN << >>
           ELSE CreditWindows([bucket.credits EXCEPT !.at = at], now, LiveMaxAge))

-----------------------------------------------------------------------------
\* The points before runs of equal observations were collapsed.
Raw(observations) ==
    [i \in DOMAIN observations |->
        [since |-> observations[i].ts, ts |-> observations[i].ts, count |-> 1,
         primary |-> observations[i].primary, secondary |-> observations[i].secondary]]

\* RateLimitSnapshotPoint::record, for observations in the order of their time.
Collapse(observations) ==
    FoldLeft(LAMBDA runs, p :
        IF runs # << >> /\ Last(runs).primary = p.primary /\ Last(runs).secondary = p.secondary
        THEN [runs EXCEPT ![Len(runs)].ts = p.ts, ![Len(runs)].count = @ + 1]
        ELSE Append(runs, p),
        << >>, Raw(observations))

\* A number is shown exactly when it is known, and what is projected lies in
\* the future and before the reset that would make it void.
HonestWindow(w, now) ==
    /\ w.unavailable # None => w.used = None /\ w.remaining = None /\ w.forecast = None /\ ~w.unlimited
    /\ w.unit = "percent" /\ w.unavailable = None => w.used + w.remaining = 100
    /\ w.stale => w.forecast = None /\ w.confidence = "low" /\ w.unavailable = None
    /\ w.forecast # None =>
         /\ w.started <= now /\ w.confidence = "medium" /\ w.forecast.evidence >= MinEvidence
         /\ w.forecast.exhaustion # None =>
              w.forecast.exhaustion >= now /\ (w.reset # None => w.forecast.exhaustion < w.reset)
=============================================================================
