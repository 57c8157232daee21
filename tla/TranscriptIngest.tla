-------------------------- MODULE TranscriptIngest --------------------------
(***************************************************************************)
(* One transcript file and the watcher that follows it: the harness        *)
(* appends lines, rewrites the file in place, replaces or removes it; the  *)
(* debounced callback keeps a parser slot for the path, reads what is new  *)
(* and publishes the session.  Between the callback's first look at the    *)
(* file and its read the file may change again.                            *)
(***************************************************************************)
EXTENDS TranscriptParsers

CONSTANTS
    Formats,        \* the formats a file may have
    StartsOf(_),    \* the lines a file of a format may begin with
    LinesOf(_),     \* the lines that may follow
    MaxLines,       \* bound: lines of the file
    MaxWrites       \* bound: changes to the file

VARIABLES
    format,         \* format of the file's provider
    transcript,           \* None or [identity, stamp, lines, partial]
    writes,          \* changes to the file so far: its modification times
    events,         \* notifications the debouncer has not delivered
    slot,           \* None or the ParserSlot [parser, identity]
    handling,       \* None or the callback between its two looks: [before]
    published,      \* the session last handed to the application state
    observed,       \* the generation recorded with the last read, or None
    consumed,       \* history: the lines the slot's parser has read
    blind           \* history: an in-place rewrite outgrew the offset unseen

ingestVars == <<format, transcript, writes, events, slot, handling, published, observed, consumed, blind>>

\* source_generation: identity, length and modification time.
Generation(f) == IF f = None THEN None ELSE [identity |-> f.identity, stamp |-> f.stamp]

\* generation_identity
IdentityOf(generation) == IF generation = None THEN None ELSE generation.identity

Notify(kind) == IF events # << >> /\ Last(events) = kind THEN events ELSE Append(events, kind)

IngestInit ==
    /\ format \in Formats
    /\ transcript = None /\ writes = 0 /\ events = << >> /\ slot = None /\ handling = None
    /\ published = None /\ observed = None /\ consumed = << >> /\ blind = FALSE

-----------------------------------------------------------------------------
(* The harness that writes the file *)

watcherVars == <<slot, handling, published, observed, consumed, blind>>

Write(identity, lines, partial) ==
    /\ writes < MaxWrites
    /\ Len(lines) <= MaxLines
    /\ writes' = writes + 1
    /\ transcript' = [identity |-> identity, stamp |-> writes', lines |-> lines, partial |-> partial]
    /\ events' = Notify("modify")
    /\ UNCHANGED <<format, watcherVars>>

\* A file that did not exist, or one renamed over it, has a new identity.
Create == transcript = None /\ \E l \in StartsOf(format) : Write(writes, <<l>>, FALSE)

AppendLine == transcript # None /\ \E l \in LinesOf(format) : Write(transcript.identity, Append(transcript.lines, l), FALSE)

\* A line is flushed before its newline.
AppendPart == transcript # None /\ ~transcript.partial /\ Write(transcript.identity, transcript.lines, TRUE)

ReplaceFile == transcript # None /\ \E l \in StartsOf(format) : Write(writes, <<l>>, FALSE)

RewriteInPlace == transcript # None /\ \E l \in StartsOf(format) : Write(transcript.identity, <<l>>, FALSE)

RemoveFile ==
    /\ transcript # None
    /\ transcript' = None
    /\ events' = Notify("remove")
    /\ UNCHANGED <<format, writes, watcherVars>>

-----------------------------------------------------------------------------
(* The callback *)

\* A removal drops the slot and marks the session's source missing.
HandleRemove ==
    /\ handling = None /\ events # << >> /\ Head(events) = "remove"
    /\ events' = Tail(events)
    /\ slot' = None /\ consumed' = << >>
    /\ UNCHANGED <<format, transcript, writes, handling, published, observed, blind>>

\* The first look: a slot is created, or given a new parser when the file is
\* no longer the one it was reading.
BeginModify ==
    /\ handling = None /\ events # << >> /\ Head(events) = "modify"
    /\ events' = Tail(events)
    /\ LET before == Generation(transcript)
           same == slot # None /\ slot.identity = IdentityOf(before)
       IN  /\ handling' = [before |-> before]
           /\ slot' = IF same THEN slot
                      ELSE [parser |-> NewParser(format), identity |-> IdentityOf(before)]
           /\ consumed' = IF same THEN consumed ELSE << >>
    /\ UNCHANGED <<format, transcript, writes, published, observed, blind>>

\* Mutant of StableGeneration: the generation after the read is recorded.
GenerationAfter(before) == Generation(transcript)

\* The generation before the read, if it is still the file's and the slot's.
StableGeneration(before) ==
    IF before = Generation(transcript) /\ slot.identity = IdentityOf(before) THEN before ELSE None

TakeResult(result) ==
    /\ slot' = [slot EXCEPT !.parser = result.parser]
    /\ published' = IF result.updated /\ result.parser.session # None THEN result.parser.session ELSE published

\* The length of the file does not show that it was rewritten.
Overtaken ==
    /\ slot.identity = transcript.identity
    /\ Size(transcript) >= 2 * slot.parser.offset
    /\ ~IsPrefix(consumed, transcript.lines)

\* The read, the second look and the publication.  A file that cannot be
\* opened publishes nothing and clears the recorded generation.
ParseModify ==
    /\ handling # None
    /\ handling' = None
    /\ IF transcript = None
       THEN /\ observed' = None
            /\ UNCHANGED <<slot, published, consumed, blind>>
       ELSE /\ TakeResult(ParseToEnd(slot.parser, transcript))
            /\ observed' = StableGeneration(handling.before)
            /\ consumed' = transcript.lines
            /\ blind' = (Overtaken \/ (blind /\ slot.parser.offset \in 1..Len(transcript.lines)))
    /\ UNCHANGED <<format, transcript, writes, events>>

\* The sweep after a callback drops parsers that have been idle.
SweepIdle ==
    /\ handling = None /\ slot # None
    /\ slot' = None /\ consumed' = << >>
    /\ UNCHANGED <<format, transcript, writes, events, handling, published, observed, blind>>

IngestNext ==
    \/ Create \/ AppendLine \/ AppendPart \/ ReplaceFile \/ RewriteInPlace \/ RemoveFile
    \/ HandleRemove \/ BeginModify \/ ParseModify \/ SweepIdle

-----------------------------------------------------------------------------
(* What a reader of the file from the start would get *)

Whole(f) == ParseToEnd(NewParser(format), f).parser.session

\* The records of a file that carry the usage of a message for the first
\* time, once the session exists.
FirstRecords(f) ==
    LET lines == f.lines
        starts == {i \in DOMAIN lines : IF format = "gemini" THEN lines[i].type = "header"
                                        ELSE lines[i].type # "garbage" /\ lines[i].ts # None}
        from == IF starts = {} THEN Len(lines) + 1 ELSE Min(starts)
        carries(i) == lines[i].type \in {"assistant", "gemini"} /\ lines[i].model # "synthetic"
    IN  {i \in DOMAIN lines :
            /\ i >= from /\ carries(i)
            /\ \A j \in from..(i - 1) : carries(j) => lines[j].id # lines[i].id}

MessageUsage(line) == IF format = "gemini" THEN GeminiUsage(line.usage) ELSE ClaudeUsage(line.usage)

ReadAs(whole) == whole # None => published = whole

\* What the watcher has published is stale, or double counted, when a
\* line was seen in two halves, the file was truncated, replaced under the
\* parser or its slot was dropped.  With every notification handled, the
\* published session is the one a fresh parse of the file gives (as long as
\* no in-place rewrite has outgrown the offset between two reads, which the
\* length comparison of parse_to_end cannot see).
WatcherCatchesUp ==
    transcript # None /\ events = << >> /\ handling = None /\ ~blind => ReadAs(Whole(transcript))

\* The file changes while the callback reads it.  A generation
\* recorded with a read that is still the file's generation means the
\* published session is that of exactly this content.
RecordedGenerationIsRead ==
    transcript # None /\ observed # None /\ observed = Generation(transcript) /\ handling = None /\ ~blind
        => ReadAs(Whole(transcript))

CountsOnce(s, counted) ==
    /\ s.tokens_total = counted
    /\ SumTotals(s.by_model) = counted
    /\ SumTotals([i \in DOMAIN s.history |-> s.history[i].delta]) = counted
    /\ \A d \in Dims : SumTotals([i \in DOMAIN s.turns |-> s.turns[i].tokens])[d] <= counted[d]

\* Streamed records repeat a message's usage, and a restart of the
\* parser reads them again.  Every message of a Claude or Gemini transcript
\* is counted once in the session total, the model buckets, the history and
\* the turns.
UsageCountedOnce ==
    (published # None /\ transcript # None /\ format # "codex" /\ published = Whole(transcript)) =>
        CountsOnce(published, SumTotals([i \in FirstRecords(transcript) |-> MessageUsage(transcript.lines[i])]))

\* Codex reports a running total and the last request separately, and
\* the model may be announced after the first usage.  After a total that was
\* counted under a model, the model buckets together cover the total.
BucketsCoverTotal ==
    (published # None /\ published.history # << >> /\ format = "codex") =>
        \/ Last(published.history).model = None
        \/ \A d \in Dims : SumTotals(published.by_model)[d] >= published.tokens_total[d]

\* The same calls are counted per session, per turn and per category,
\* and several findings may name the same call.  The turns' counters add up
\* to the calls made in known turns, the categories to the turns, and the
\* findings never call more calls avoidable than were made.
DerivedFiguresAddUp ==
    published # None =>
        LET s == published
            inTurns == SelectSeq(s.observations, LAMBDA o : \E i \in DOMAIN s.turns : s.turns[i].id = o.turn)
            perTurn(field) == MapThenSumSet(LAMBDA i : s.turns[i].metrics[field], DOMAIN s.turns)
            perCategory == MapThenSumSet(LAMBDA c : s.categories[c].calls, DOMAIN s.categories)
        IN  /\ \A field \in {"calls", "failures", "retries", "targets"} :
                   perTurn(field) = Metrics(inTurns)[field]
            /\ perCategory = perTurn("calls")
            /\ AvoidableCalls(s.findings) <= s.metrics.calls

IsSum(whole, old, new) ==
    /\ Plus(old.tokens, new.tokens) = whole.tokens
    /\ Plus(SumTotals(old.buckets), SumTotals(new.buckets)) = SumTotals(whole.buckets)
    /\ old.metrics.calls + new.metrics.calls = whole.metrics.calls
    /\ old.avoidable + new.avoidable = whole.avoidable

\* The slice of a sorted history and the filter of an unsorted one
\* must cut at the same places, and an event on a boundary must fall on one
\* side.  However a session's life is cut in two, the halves add up to the
\* whole, in tokens, buckets, calls and findings.
RangesAddUp ==
    published # None =>
        \A t \in {published.history[i].ts : i \in DOMAIN published.history} :
            /\ IsSum(RangeTotals(published, None, None), RangeTotals(published, None, t),
                     RangeTotals(published, t + 1, None))
            /\ RangeTotals(published, None, None).buckets = TierBuckets(published)

\* The four above, of every session the watcher publishes: usage, buckets,
\* derived counters and windows of parser, telemetry and range totals agree
\* with each other whatever the lines and their order.
FiguresAddUp == UsageCountedOnce /\ BucketsCoverTotal /\ DerivedFiguresAddUp /\ RangesAddUp
=============================================================================
