----------------------------- MODULE QuotaIndex -----------------------------
(***************************************************************************)
(* The incrementally maintained index of rate-limit points, and the cache  *)
(* of the snapshots computed from it (quota.rs, store.rs).                 *)
(*                                                                         *)
(* One provider.  A writer (the watcher, a scan) first folds a session     *)
(* into the index and then inserts it into AppState::sessions: the index   *)
(* has its own mutex.  A command reads the settings and then asks the      *)
(* cache; it does not take a whole tick of the clock.                      *)
(***************************************************************************)
EXTENDS QuotaWindows

CONSTANTS Sessions, Writers, Contents,
          KeyOrder,       \* the order of the sessions' storage ids
          MaxPoints,      \* MAX_POINTS_PER_PROVIDER
          Retained,       \* RETAINED_POINTS_PER_PROVIDER
          MinInterval,    \* QUOTA_SNAPSHOT_MIN_RECOMPUTE_INTERVAL, in ticks
          MaxAge,         \* QUOTA_SNAPSHOT_MAX_AGE, in ticks
          CacheAges,      \* values of max_cache_age_secs
          MaxLost,        \* bound: points withdrawn while others are missing
          MaxTime,        \* bound: ticks
          MaxGenerations  \* bound: changes of the sessions

ASSUME CapsAssumption ==
    /\ MaxPoints \in Nat \ {0} /\ Retained \in Nat /\ Retained > MaxPoints
    /\ MaxLost \in Nat /\ MaxLost <= Retained - MaxPoints
ASSUME IndexAssumption ==
    /\ IsFiniteSet(Sessions)
    /\ KeyOrder \in [Sessions -> Nat] /\ \A s, t \in Sessions : KeyOrder[s] = KeyOrder[t] => s = t
    /\ \A s \in Sessions : \A c \in Contents[s] :
         /\ c # None /\ c.last \in Int /\ Len(c.points) \in Nat /\ DOMAIN c.points = 1..Len(c.points)
         /\ \A i \in DOMAIN c.points : c.points[i].ts \in Int
    /\ None \notin [session : Sessions, content : UNION {Contents[s] : s \in Sessions}]
ASSUME AgeAssumption == MaxAge \in Nat \ {0}

VARIABLES
    held,      \* ghost: what update_session was last given of each session
    sessions,  \* AppState::sessions
    index,     \* QuotaPointsIndexState
    lost,      \* ghost: points withdrawn since the index last held everything
    writer,    \* what each writer still has to insert into sessions
    torn,      \* ghost: sessions two writers published at the same time
    generation, settings, changedAt, cache, reader, computed, ticks

indexVars == <<held, sessions, index, lost, writer, torn, generation, settings,
               changedAt, cache, reader, computed, ticks>>

Reference == INSTANCE QuotaReads
    WITH corpus <- held, shown <- computed, Contents <- UNION {Contents[s] : s \in Sessions}

PointKeys(s, content) ==
    {[ts |-> content.points[i].ts, session |-> s, seq |-> i, point |-> content.points[i]] :
       i \in DOMAIN content.points}

\* The order of PointKey: the time of the point, then its session and place.
Older(p, q) ==
    \/ p.ts < q.ts
    \/ p.ts = q.ts /\ KeyOrder[p.session] < KeyOrder[q.session]
    \/ p.ts = q.ts /\ p.session = q.session /\ p.seq < q.seq

Newer(points, p) == {q \in points : Older(p, q)}

\* The n newest of a set of points.
Newest(points, n) == {p \in points : Cardinality(Newer(points, p)) < n}

NoContribution == [keys |-> {}, accounts |-> {}]
EmptyIndex == [points |-> {}, accounts |-> {}, contributions |-> [s \in Sessions |-> NoContribution]]

\* A bug: the session's old points are left and the new ones added.
RetractAccount(ix, s) ==
    [ix EXCEPT !.accounts = @ \ ix.contributions[s].accounts, !.contributions[s] = NoContribution]

\* retract: everything the session is known to have contributed.
Retract(ix, s) ==
    [points |-> ix.points \ ix.contributions[s].keys,
     accounts |-> ix.accounts \ ix.contributions[s].accounts,
     contributions |-> [ix.contributions EXCEPT ![s] = NoContribution]]

\* A bug: the newest points are evicted when the bucket is full.
EvictNewest(points) == {p \in points : Cardinality({q \in points : Older(q, p)}) >= Retained}

\* The points beyond the retained ones, whoever contributed them.
Excess(points) == points \ Newest(points, Retained)

\* evict_excess: the owners stop claiming what was evicted.
EvictExcess(ix) ==
    [points |-> ix.points \ Excess(ix.points), accounts |-> ix.accounts,
     contributions |-> [s \in Sessions |-> [keys |-> ix.contributions[s].keys \ Excess(ix.points),
                                           accounts |-> ix.contributions[s].accounts]]]

AccountsOf(s, content) ==
    IF content.account = None THEN {}
    ELSE {[at |-> content.last, session |-> s, account |-> content.account]}

\* update_session
UpdateSession(ix, s, content) ==
    LET before == Retract(ix, s)
        keys == PointKeys(s, content)
        accounts == AccountsOf(s, content)
    IN  EvictExcess([points |-> before.points \cup keys,
                     accounts |-> before.accounts \cup accounts,
                     contributions |-> [before.contributions EXCEPT ![s] =
                                          [keys |-> keys, accounts |-> accounts]]])

RemoveSession(ix, s) == Retract(ix, s)

\* The order of the keys of accounts.
LaterAccount(a, b) == a.at > b.at \/ (a.at = b.at /\ KeyOrder[a.session] > KeyOrder[b.session])

\* provider_points, and the account snapshots takes with them.
IndexReading(ix) ==
    LET newest == {a \in ix.accounts : \A b \in ix.accounts : ~LaterAccount(b, a)}
    IN  [points |-> Newest(ix.points, MaxPoints),
         account |-> IF newest = {} THEN None ELSE (CHOOSE a \in newest : TRUE).account]

-----------------------------------------------------------------------------
IndexInit ==
    /\ held = [s \in Sessions |-> None] /\ sessions = held
    /\ index = EmptyIndex /\ lost = 0
    /\ writer = [w \in Writers |-> None] /\ torn = {}
    /\ generation = 0 /\ ticks = 0 /\ changedAt = 0
    /\ settings \in CacheAges
    /\ cache = None /\ reader = None /\ computed = None

\* What the corpus holds and the index does not, after a step.
Missing(h, ix) == Reference!Observations(h) \ ix.points

\* Points that leave the corpus while the index cannot make up for them.
Withdrawn(h, ix) ==
    IF Missing(h, ix) = {} THEN 0
    ELSE lost + Cardinality(index.points \ Reference!Observations(h))

Fold(s, content, ix) ==
    LET h == [held EXCEPT ![s] = content]
    IN  /\ held' = h /\ index' = ix
        /\ lost' = Withdrawn(h, ix) /\ lost' <= MaxLost

Writing(s) == \E w \in Writers : writer[w] # None /\ writer[w].session = s

\* reconcile, publish_watched_session, ...: the index first.
PublishIndex(w, s, content) ==
    /\ writer[w] = None /\ generation < MaxGenerations
    /\ Fold(s, content, UpdateSession(index, s, content))
    /\ writer' = [writer EXCEPT ![w] = [session |-> s, content |-> content]]
    /\ torn' = IF Writing(s) THEN torn \cup {s} ELSE torn \ {s}
    /\ UNCHANGED <<sessions, generation, settings, changedAt, cache, reader, computed, ticks>>

PublishSession(w) ==
    /\ writer[w] # None
    /\ sessions' = [sessions EXCEPT ![writer[w].session] = writer[w].content]
    /\ generation' = generation + 1
    /\ writer' = [writer EXCEPT ![w] = None]
    /\ UNCHANGED <<held, index, lost, torn, settings, changedAt, cache, reader, computed, ticks>>

\* A purge or a correction: sessions first, then the index.
Withdraw(s) ==
    /\ sessions[s] # None /\ generation < MaxGenerations
    /\ ~Writing(s)
    /\ sessions' = [sessions EXCEPT ![s] = None]
    /\ Fold(s, None, RemoveSession(index, s))
    /\ generation' = generation + 1
    /\ torn' = torn \ {s}
    /\ UNCHANGED <<writer, settings, changedAt, cache, reader, computed, ticks>>

Tick ==
    /\ ticks < MaxTime /\ reader = None
    /\ ticks' = ticks + 1
    /\ UNCHANGED <<held, sessions, index, lost, writer, torn, generation, settings, changedAt,
                   cache, reader, computed>>

\* save_quota_config stores the settings and then invalidates the cache.
SaveSettings(age) ==
    /\ age # settings
    /\ settings' = age /\ changedAt' = ticks
    /\ cache' = None
    /\ UNCHANGED <<held, sessions, index, lost, writer, torn, generation, reader, computed, ticks>>

\* get_quota_snapshots, check_quota_budgets: the settings are read first.
BeginRead ==
    /\ reader = None
    /\ reader' = settings
    /\ UNCHANGED <<held, sessions, index, lost, writer, torn, generation, settings, changedAt,
                   cache, computed, ticks>>

\* A bug: an idle application never computes its snapshots again.
OnlyWhenChanged(entry) ==
    entry = None \/ (entry.generation # generation /\ ticks - entry.at >= MinInterval)

ShouldRecompute(entry) ==
    \/ entry = None
    \/ entry.generation # generation /\ ticks - entry.at >= MinInterval
    \/ ticks - entry.at >= MaxAge

\* get_or_recompute
ServeRead ==
    /\ reader # None
    /\ IF ShouldRecompute(cache)
       THEN LET entry == [at |-> ticks, generation |-> generation, age |-> reader, of |-> IndexReading(index)]
            IN  cache' = entry /\ computed' = entry.of
       ELSE cache' = cache /\ computed' = computed
    /\ reader' = None
    /\ UNCHANGED <<held, sessions, index, lost, writer, torn, generation, settings, changedAt, ticks>>

IndexNext ==
    \/ \E w \in Writers : PublishSession(w) \/ \E s \in Sessions : \E c \in Contents[s] : PublishIndex(w, s, c)
    \/ \E s \in Sessions : Withdraw(s)
    \/ \E age \in CacheAges : SaveSettings(age)
    \/ Tick \/ BeginRead \/ ServeRead

IndexSpec == IndexInit /\ [][IndexNext]_indexVars

-----------------------------------------------------------------------------
\* The index reads what a from-scratch computation over the sessions may read,
\* as long as no more points were withdrawn than it retains beyond the read
\* cap, and except for a session two writers have just published at once; it
\* never holds more than it may, and nothing nobody claims.
IndexAgrees ==
    /\ \A s \in Sessions \ torn :
         ~Writing(s) => sessions[s] = held[s]
    /\ IndexReading(index) \in Reference!FromScratch(held)
    /\ Cardinality(index.points) <= Retained
    /\ index.points = UNION {index.contributions[s].keys : s \in Sessions}

\* A snapshot is computed from the newest observations and never from others:
\* the index implements the from-scratch reading.
ImplementsReads == Reference!ReadsSpec

\* What is served was computed at most MaxAge ago, under settings that were in
\* force within that time: an edit of them is never ignored for longer, and a
\* window is never shown fresher than that for want of a new transcript line.
ServedIsCurrent ==
    [][reader # None /\ reader' = None =>
         /\ ticks - cache'.at < MaxAge
         /\ cache'.age = settings \/ ticks - changedAt < MaxAge]_indexVars
=============================================================================
