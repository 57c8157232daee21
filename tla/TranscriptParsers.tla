-------------------------- MODULE TranscriptParsers --------------------------
(***************************************************************************)
(* The three transcript formats (Codex, Claude Code, Gemini CLI): a parser *)
(* is a record, applying a line is an operator from parser and line to     *)
(* parser.  A line is the decoded JSON record with the fields that matter; *)
(* absent fields are None.  Text is left out: what a prompt says never     *)
(* changes what is counted.  Codex takes the clock for a timestamp it      *)
(* cannot read; the lines here have readable ones or, where the format     *)
(* allows it, none.                                                        *)
(***************************************************************************)
EXTENDS ToolTelemetry

\* What a parser keeps between two calls.  Each format uses its own fields.
NewParser(format) ==
    [format |-> format, session |-> None, offset |-> 0, model |-> None, tier |-> None, turn |-> None,
     tools |-> {}, messages |-> {}, name |-> None]

NewSession(id, name, ts) ==
    [id |-> id, parent |-> None, name |-> name, last |-> ts, model |-> None, tier |-> None,
     tokens_total |-> Zero, by_model |-> << >>, history |-> << >>, turns |-> << >>,
     observations |-> << >>, limits |-> << >>, total_turns |-> 0,
     metrics |-> Metrics(<< >>), categories |-> << >>, findings |-> {}]

NewTurn(id, started) ==
    [id |-> id, status |-> "in_progress", model |-> None, tier |-> None, tokens |-> Zero,
     started |-> started, completed |-> None, asked |-> None, said |-> None,
     metrics |-> Metrics(<< >>), category |-> "other"]

\* turns.iter_mut().find(|t| t.turn_id == id): the first one, or 0.
TurnIndex(turns, id) ==
    LET mine == {i \in DOMAIN turns : turns[i].id = id} IN IF mine = {} THEN 0 ELSE Min(mine)

\* ensure_turn_index: a new turn aborts whatever was still in progress.
EnsureTurn(turns, id) ==
    IF TurnIndex(turns, id) # 0 THEN turns
    ELSE Append([i \in DOMAIN turns |->
                    IF turns[i].status = "in_progress"
                    THEN [turns[i] EXCEPT !.status = "aborted"] ELSE turns[i]],
                NewTurn(id, None))

Later(session, ts) ==
    IF session # None /\ ts # None /\ ts > session.last
    THEN [session EXCEPT !.last = ts] ELSE session

-----------------------------------------------------------------------------
(* Codex rollouts *)

\* RateLimitSnapshotPoint::record: consecutive identical observations are one
\* point that remembers when the run began and how many it stands for.
RecordLimit(points, ts, turn, limit) ==
    LET n == Len(points)
    IN  IF n > 0 /\ points[n].turn = turn /\ points[n].limit = limit
        THEN [points EXCEPT ![n].ts = ts, ![n].count = @ + 1]
        ELSE Append(points, [ts |-> ts, since |-> ts, turn |-> turn, limit |-> limit, count |-> 1])

\* A second session_meta refreshes the name and keeps what was counted; the
\* first one needs a readable start time.
HandleSessionMeta(p, line) ==
    IF p.session # None
    THEN [p EXCEPT !.session.name = OrElse(line.name, @)]
    ELSE IF line.started = None THEN p
    ELSE [p EXCEPT !.session = NewSession(line.id, line.name, line.ts)]

Describe(x, model, tier) == [x EXCEPT !.model = OrElse(model, @), !.tier = OrElse(tier, @)]
DescribeTurn(turns, id, model, tier) == [turns EXCEPT ![TurnIndex(turns, id)] = Describe(@, model, tier)]

HandleTurnContext(p, line) ==
    LET q == [p EXCEPT !.model = OrElse(line.model, @), !.turn = OrElse(line.turn, @),
                       !.tier = OrElse(line.tier, @)]
        described(s, tier) ==
            [Describe(s, line.model, tier) EXCEPT
                !.turns = IF line.turn = None THEN @
                          ELSE DescribeTurn(EnsureTurn(@, line.turn), line.turn, line.model, tier)]
    IN  IF p.session = None THEN q ELSE [q EXCEPT !.session = described(@, OrElse(line.tier, p.tier))]

\* thread_settings_applied sets the tier even to None.
HandleThreadSettings(p, line) ==
    LET retiered(turns) == [turns EXCEPT ![TurnIndex(turns, p.turn)].tier = line.tier]
        set(s) == [s EXCEPT !.model = OrElse(line.model, @), !.tier = line.tier,
                            !.turns = IF p.turn = None THEN @ ELSE retiered(EnsureTurn(@, p.turn))]
    IN  [p EXCEPT !.model = OrElse(line.model, @), !.tier = line.tier,
                  !.session = IF @ = None THEN None ELSE set(@)]

HandleTaskStarted(p, line) ==
    LET q == [p EXCEPT !.turn = OrElse(line.turn, @)]
        begun(turns) == [turns EXCEPT ![TurnIndex(turns, line.turn)].started = OrElse(@, line.ts)]
    IN  IF p.session = None \/ line.turn = None THEN q
        ELSE [q EXCEPT !.session.turns = begun(EnsureTurn(@, line.turn))]

\* The first message of a turn is its prompt.
HandleUserMessage(p, line) ==
    LET prompted(turns) == [turns EXCEPT ![TurnIndex(turns, p.turn)].asked = OrElse(@, line.words)]
    IN  IF p.session = None \/ p.turn = None THEN p
        ELSE [p EXCEPT !.session.turns = prompted(EnsureTurn(@, p.turn))]

\* What the model buckets lack of the reported total.
Remainder(total, buckets) == Minus(total, SumTotals(buckets))

\* The contribution of one token_count event: the last request, plus what the
\* model buckets still lack of the reported total, which is also added to the
\* current model's bucket.  Bucket, history point and turn get the same value.
EarnTurn(turns, i, tier, delta) ==
    IF i = 0 THEN turns
    ELSE [turns EXCEPT ![i].tokens = Plus(@, delta), ![i].tier = OrElse(tier, @)]

Contribute(s, p, line, delta) ==
    [s EXCEPT
        !.history = IF line.total = None THEN @
                    ELSE Append(@, [ts |-> line.ts, model |-> p.model, tier |-> p.tier, delta |-> delta]),
        !.turns = IF p.turn = None THEN @ ELSE EarnTurn(@, TurnIndex(@, p.turn), p.tier, delta),
        !.limits = IF line.limit = None THEN @ ELSE RecordLimit(@, line.ts, p.turn, line.limit)]

CountTokens(s, p, line, total, last) ==
    LET settled(buckets, rest) ==
            Contribute([s EXCEPT !.tokens_total = total, !.by_model = Bump(buckets, p.model, rest)],
                       p, line, Plus(last, rest))
        under(buckets) == settled(buckets, Remainder(total, buckets))
    IN  IF p.model = None THEN Contribute([s EXCEPT !.tokens_total = total], p, line, last)
        ELSE under(Bump(s.by_model, p.model, last))

HandleTokenCount(p, line) ==
    IF p.session = None THEN p
    ELSE [p EXCEPT !.session = CountTokens(@, p, line, OrElse(line.total, @.tokens_total), OrElse(line.usage, Zero))]

\* task_complete counts a turn even when it cannot name one.
FinishTurn(turns, id, status, ts) ==
    IF id = None THEN turns
    ELSE [turns EXCEPT ![TurnIndex(turns, id)] = [@ EXCEPT !.completed = ts, !.status = status]]
Answered(turns, id, words) ==
    IF id = None THEN turns ELSE [turns EXCEPT ![TurnIndex(turns, id)].said = OrElse(@, words)]
KnownTurns(turns, id) == IF id = None THEN turns ELSE EnsureTurn(turns, id)

HandleTaskComplete(p, line) ==
    LET ended(turns, t) == Answered(FinishTurn(KnownTurns(turns, t), t, "completed", line.ts), t, line.words)
    IN  [p EXCEPT !.turn = None,
                  !.session = IF @ = None THEN None
                              ELSE [@ EXCEPT !.total_turns = @ + 1,
                                             !.turns = ended(@, OrElse(line.turn, p.turn))]]

HandleTurnAborted(p, line) ==
    LET ended(turns, t) == FinishTurn(KnownTurns(turns, t), t, "aborted", line.ts)
    IN  [p EXCEPT !.turn = None,
                  !.session = IF @ = None THEN None
                              ELSE [@ EXCEPT !.turns = ended(@, OrElse(line.turn, p.turn))]]

\* The newest n turns that are not rolled back yet.
HandleRolledBack(p, line) ==
    LET turns == p.session.turns
        live == {i \in DOMAIN turns : turns[i].status # "rolled_back"}
        newest == {i \in live : Cardinality({j \in live : j > i}) < line.count}
    IN  IF p.session = None THEN p
        ELSE [p EXCEPT !.session.turns =
                [i \in DOMAIN turns |-> IF i \in newest THEN [turns[i] EXCEPT !.status = "rolled_back"]
                                        ELSE turns[i]]]

\* A repeated call id is dropped, whether or not a session exists yet.
HandleToolCall(p, line) ==
    IF line.id = None \/ line.id \in p.tools THEN p
    ELSE [p EXCEPT !.tools = @ \union {line.id},
                   !.session = IF @ = None THEN None
                               ELSE [@ EXCEPT !.observations =
                                        ObserveCall(@, Call(line.id, p.turn, p.model, line.ts, line.tool))]]

HandleToolResult(p, line) ==
    IF p.session = None THEN p
    ELSE [p EXCEPT !.session.observations =
            ObserveResult(@, line.id, IF line.failed THEN "failure" ELSE "success",
                          line.duration, line.ts, line.bytes)]

CodexLine(p, line) ==
    CASE line.type = "session_meta"    -> HandleSessionMeta(p, line)
      [] line.type = "turn_context"    -> HandleTurnContext(p, line)
      [] line.type = "thread_settings" -> HandleThreadSettings(p, line)
      [] line.type = "task_started"    -> HandleTaskStarted(p, line)
      [] line.type = "user_message"    -> HandleUserMessage(p, line)
      [] line.type = "token_count"     -> HandleTokenCount(p, line)
      [] line.type = "task_complete"   -> HandleTaskComplete(p, line)
      [] line.type = "turn_aborted"    -> HandleTurnAborted(p, line)
      [] line.type = "rolled_back"     -> HandleRolledBack(p, line)
      [] line.type = "call"            -> HandleToolCall(p, line)
      [] line.type = "result"          -> HandleToolResult(p, line)
      [] line.type = "skip"            -> p

\* apply_line_without_refresh: every line moves the clock of an existing
\* session; records that carry nothing else (the fast path) do only that.
ApplyCodex(p0, line) == CodexLine([p0 EXCEPT !.session = Later(@, line.ts)], line)

\* reset_for_replaced_file
ResetCodex(p) ==
    [p EXCEPT !.session = None, !.offset = 0, !.model = None, !.tier = None,
              !.turn = None, !.tools = {}]

-----------------------------------------------------------------------------
(* Claude Code and Gemini CLI: usage is reported per message, and streamed *)
(* records repeat a message.                                               *)

\* A prompt closes the previous turn, aborted if nothing answered it, and
\* opens a turn of its own.
OpenTurn(p, line) ==
    LET closed(turns, i) == IF i # 0 /\ turns[i].status = "in_progress"
                            THEN [turns EXCEPT ![i].status = "aborted"] ELSE turns
        before(turns) == IF p.turn = None THEN turns ELSE closed(turns, TurnIndex(turns, p.turn))
    IN  IF line.words = None \/ line.uuid = None \/ p.session = None THEN p
        ELSE [p EXCEPT !.turn = line.uuid,
                       !.session.turns =
                            Append(before(@), [NewTurn(line.uuid, line.ts) EXCEPT !.asked = line.words])]

\* Gemini logs a call once, with the status it ended in.
GeminiSettle(obs, c, ts) ==
    ObserveResult(obs, c.id, IF c.status = None THEN "unknown"
                             ELSE IF c.status = "error" THEN "failure" ELSE "success", None, ts, 0)

\* The calls of a message that were not seen before; settled ones are complete.
ObserveCalls(p, line, settled) ==
    LET settle(obs, c) == IF settled THEN GeminiSettle(obs, c, line.ts) ELSE obs
        observe(q, c) ==
            IF c.id = None \/ c.id \in q.tools THEN q
            ELSE [q EXCEPT !.tools = @ \union {c.id},
                           !.session.observations =
                                settle(ObserveCall(@, Call(c.id, q.turn, line.model, line.ts, c.tool)), c)]
    IN  IF line.ts = None \/ p.session = None THEN p ELSE FoldLeft(observe, p, line.calls)

\* The usage of a message that is counted: total, model bucket, history
\* point and turn receive the same delta.
AddUsage(s, turn, line, delta) ==
    [s EXCEPT !.tokens_total = Plus(@, delta),
              !.by_model = IF line.model = None THEN @ ELSE Bump(@, line.model, delta),
              !.history = IF line.ts = None THEN @
                          ELSE Append(@, [ts |-> line.ts, model |-> line.model,
                                          tier |-> line.tier, delta |-> delta]),
              !.turns = IF turn = None THEN @ ELSE EarnTurn(@, TurnIndex(@, turn), None, delta)]

\* An answer completes the turn it belongs to, once.
AnswerTurn(s, turn, line) ==
    LET complete(t) ==
            [Describe(t, line.model, line.tier) EXCEPT
                !.status = IF @ = "in_progress" THEN "completed" ELSE @,
                !.completed = OrElse(line.ts, @), !.said = OrElse(line.words, @)]
        at(i) == IF i = 0 THEN s
                 ELSE [s EXCEPT !.total_turns = IF s.turns[i].status = "in_progress" THEN @ + 1 ELSE @,
                                !.turns[i] = complete(@)]
    IN  IF turn = None THEN s ELSE at(TurnIndex(s.turns, turn))

\* Mutant of FirstTime: streamed repetitions are counted.
EveryTime(p, line) == line.id # None

\* seen_message_ids.insert
FirstTime(p, line) == line.id # None /\ line.id \notin p.messages

\* Claude: the input of a totals record includes cache reads and writes.
ClaudeUsage(u) == Totals(u.fresh + u.read + u.write, u.read, u.write, u.out, 0)

\* ensure_session: the first record with a timestamp makes the session.  A
\* subagent's transcript carries its parent's session id and has its own.
EnsureClaude(p, line) ==
    LET sub == p.format = "subagent"
        id == IF sub THEN OrElse(line.agent, "stem") ELSE OrElse(line.sid, "stem")
    IN  IF p.session # None \/ line.ts = None THEN p
        ELSE [p EXCEPT !.name = None,
                       !.session = [NewSession(id, p.name, line.ts) EXCEPT
                                        !.parent = IF sub THEN line.sid ELSE None]]

ClaudeResults(p, line) ==
    IF p.session = None THEN p
    ELSE [p EXCEPT !.session.observations =
            FoldLeft(LAMBDA obs, r : ObserveResult(obs, r.id, IF r.failed THEN "failure" ELSE "success",
                                                   None, line.ts, r.bytes), @, line.results)]

MarkSeen(p, line) == [p EXCEPT !.messages = IF line.id = None THEN @ ELSE @ \union {line.id}]

\* handle_assistant.  An id is marked as seen by its first record whether or
\* not that record has a session to be counted in.
HandleAssistant(p, line) ==
    LET counted(s, delta) == IF FirstTime(p, line) /\ AnyPositive(delta) THEN AddUsage(s, p.turn, line, delta) ELSE s
        used(s) == IF line.usage = None THEN s ELSE counted(s, ClaudeUsage(line.usage))
        answered(q) ==
            [q EXCEPT !.session = AnswerTurn(used(Describe(@, line.model, line.tier)), p.turn, line)]
    IN  IF line.model = "synthetic" THEN p
        ELSE IF p.session = None THEN MarkSeen(p, line)
        ELSE answered(ObserveCalls(MarkSeen(p, line), line, FALSE))

\* A custom title replaces the name, a summary only fills it in; before the
\* session exists the name waits in the parser.
HandleTitle(p, line) ==
    LET named(old) == IF line.type = "title" THEN line.name ELSE OrElse(old, line.name)
    IN  IF p.session = None THEN [p EXCEPT !.name = named(@)]
        ELSE [p EXCEPT !.session.name = named(@)]

\* extract_user_prompt: side chains are prompts only in a subagent's file.
ClaudePrompt(p, line) ==
    IF (line.sidechain /\ p.format # "subagent") \/ line.results # << >> THEN p
    ELSE OpenTurn(p, line)

ClaudeLine(p, line) ==
    CASE line.type = "user"                -> ClaudePrompt(ClaudeResults(p, line), line)
      [] line.type = "assistant"           -> HandleAssistant(p, line)
      [] line.type \in {"title", "summary"} -> HandleTitle(p, line)
      [] line.type = "skip"                -> p
ApplyClaude(p, line) == ClaudeLine([EnsureClaude(p, line) EXCEPT !.session = Later(@, line.ts)], line)

\* Mutant of ResetClaude: the ids of the old content stay marked.
ResetClaudeKeepsIds(p) == [p EXCEPT !.session = None, !.offset = 0, !.turn = None, !.name = None]

ResetClaude(p) ==
    [p EXCEPT !.session = None, !.offset = 0, !.messages = {}, !.tools = {}, !.turn = None,
              !.name = None]

\* Gemini: thoughts are billed as output; the input already has the cached
\* part in it.
GeminiUsage(u) == Totals(u.input, u.cached, 0, u.output + u.thoughts, u.thoughts)

HandleGemini(p, line) ==
    LET counted(s, delta) == IF FirstTime(p, line) /\ AnyPositive(delta) THEN AddUsage(s, p.turn, line, delta) ELSE s
        used(s) == IF line.usage = None \/ line.ts = None THEN s ELSE counted(s, GeminiUsage(line.usage))
    IN  [ObserveCalls(MarkSeen(p, line), line, TRUE) EXCEPT
            !.session = AnswerTurn(used(Describe(@, line.model, None)), p.turn, line)]

GeminiLine(p, line) ==
    CASE line.type = "user"               -> OpenTurn(p, line)
      [] line.type = "gemini"             -> HandleGemini(p, line)
      [] line.type \in {"header", "skip"} -> p

\* Only a header makes the session; nothing before it counts.
ApplyGemini(p0, line) ==
    IF p0.session = None
    THEN IF line.type = "header" THEN [p0 EXCEPT !.session = NewSession(line.sid, None, line.ts)] ELSE p0
    ELSE GeminiLine([p0 EXCEPT !.session = Later(@, line.ts)], line)

ResetGemini(p) ==
    [p EXCEPT !.session = None, !.offset = 0, !.messages = {}, !.tools = {}, !.turn = None]

-----------------------------------------------------------------------------
(* Derived figures and the incremental read *)

\* category_totals: turns, tokens, calls and (model, tier) buckets of each
\* category.
CategoryTotals(turns) ==
    LET sum(is) == SumTotals([i \in is |-> turns[i].tokens])
        key(i) == <<turns[i].model, turns[i].tier>>
        priced(is) == {i \in is : turns[i].model # None}
        of(is) ==
            [turns |-> Cardinality(is), tokens |-> sum(is),
             calls |-> MapThenSumSet(LAMBDA i : turns[i].metrics.calls, is),
             buckets |-> [k \in {key(i) : i \in priced(is)} |-> sum({i \in priced(is) : key(i) = k})]]
    IN  [c \in {turns[i].category : i \in DOMAIN turns} |-> of({i \in DOMAIN turns : turns[i].category = c})]

\* refresh_session.  The accumulator of a turn id goes to the first turn that
\* has it.
RefreshSession(s) ==
    LET of(i) == IF TurnIndex(s.turns, s.turns[i].id) # i THEN << >>
                 ELSE SelectSeq(s.observations, LAMBDA o : o.turn = s.turns[i].id)
        measured(t, m) ==
            [t EXCEPT !.metrics = m, !.category = ClassifyTurn(OrElse(t.asked, {}) \union OrElse(t.said, {}), m)]
        with(turns) == [s EXCEPT !.turns = turns, !.categories = CategoryTotals(turns),
                                 !.metrics = Metrics(s.observations), !.findings = Findings(s.observations)]
    IN  with([i \in DOMAIN s.turns |-> measured(s.turns[i], Metrics(of(i)))])

ApplyLine(p, line) ==
    CASE p.format = "codex"                   -> ApplyCodex(p, line)
      [] p.format \in {"claude", "subagent"} -> ApplyClaude(p, line)
      [] p.format = "gemini"                  -> ApplyGemini(p, line)

ResetForReplacedFile(p) ==
    CASE p.format = "codex"                   -> ResetCodex(p)
      [] p.format \in {"claude", "subagent"} -> ResetClaude(p)
      [] p.format = "gemini"                  -> ResetGemini(p)

\* A file is its complete lines and whether part of another follows them; a
\* complete line counts two units of length and a part of one counts one.
Size(file) == 2 * Len(file.lines) + (IF file.partial THEN 1 ELSE 0)

\* parse_to_end: from the offset to the last complete line, from the start
\* when the file has become shorter.  A line that cannot be read moves the
\* offset and nothing else.  The result says whether any line was applied.
ParseToEnd(p, file) ==
    LET refresh(s, updated) == IF updated /\ s # None THEN RefreshSession(s) ELSE s
        read(q, good) ==
            [updated |-> good # << >>,
             parser |-> [FoldLeft(ApplyLine, q, good) EXCEPT
                            !.offset = Len(file.lines), !.session = refresh(@, good # << >>)]]
        from(q) == read(q, SelectSeq(SubSeq(file.lines, q.offset + 1, Len(file.lines)),
                                     LAMBDA l : l.type # "garbage"))
    IN  from(IF Size(file) < 2 * p.offset THEN ResetForReplacedFile(p) ELSE p)

-----------------------------------------------------------------------------
(* Usage inside a window of time *)

\* partition_point on a sequence sorted by time.
PartitionPoint(seq, at) ==
    LET beyond == {i \in DOMAIN seq : seq[i].ts >= at} IN IF beyond = {} THEN Len(seq) ELSE Min(beyond) - 1

\* The entries in [from, to], None being open: a slice where the sequence is
\* sorted, a filter where it is not.
Window(seq, from, to) ==
    LET sorted == \A i \in 1..(Len(seq) - 1) : seq[i].ts <= seq[i + 1].ts
        start == IF from = None THEN 0 ELSE PartitionPoint(seq, from)
        end == IF to = None THEN Len(seq) ELSE PartitionPoint(seq, to + 1)
    IN  IF sorted THEN SubSeq(seq, start + 1, end)
        ELSE SelectSeq(seq, LAMBDA e : (from = None \/ e.ts >= from) /\ (to = None \/ e.ts <= to))

\* bucket_history: usage by (model, tier); usage without a model has none.
BucketHistory(points) ==
    LET named == {i \in DOMAIN points : points[i].model # None}
        key(i) == <<points[i].model, points[i].tier>>
    IN  [k \in {key(i) : i \in named} |->
            SumTotals([i \in {j \in named : key(j) = k} |-> points[i].delta])]

\* Session::tier_buckets
TierBuckets(s) ==
    IF s.history = << >> THEN [k \in {<<m, None>> : m \in DOMAIN s.by_model} |-> s.by_model[k[1]]]
    ELSE BucketHistory(s.history)

\* Session::range_totals_multi, for one window.
RangeTotals(s, from, to) ==
    LET inside(f) == (from = None \/ f.ts >= from) /\ (to = None \/ f.ts <= to)
        of(points, tokens, calls, found) ==
            [tokens |-> tokens, buckets |-> BucketHistory(points),
             metrics |-> Metrics(calls), by_model |-> MetricsByModel(calls),
             findings |-> Cardinality(found), avoidable |-> AvoidableCalls(found),
             dimensions |-> DimensionMetrics(calls), context |-> ContextSources(tokens)]
        with(points) == of(points, SumTotals([i \in DOMAIN points |-> points[i].delta]),
                           Window(s.observations, from, to), {f \in s.findings : inside(f[3])})
    IN  with(Window(s.history, from, to))

\* ResidentSession::of keeps the newest rate-limit point (the last of the
\* newest) and how many there were.
NewestLimit(s) ==
    LET newest == {i \in DOMAIN s.limits : \A j \in DOMAIN s.limits : s.limits[j].ts <= s.limits[i].ts}
    IN  [point |-> IF newest = {} THEN None ELSE s.limits[Max(newest)], count |-> Len(s.limits)]
=============================================================================
